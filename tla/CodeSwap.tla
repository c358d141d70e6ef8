------------------------------ MODULE CodeSwap ------------------------------
(***************************************************************************)
(* What hot reloading promises, whatever threads and locks carry it out:   *)
(* libraries, numbered in the order they are built, are opened, made the   *)
(* current one, called, and closed.                                        *)
(***************************************************************************)
EXTENDS Integers

VARIABLES
  open,      (* the libraries that are mapped                              *)
  current,   (* the one the next call goes to                              *)
  inUse      (* the one a call is running in, if any                       *)

swapVars == <<open, current, inUse>>

None == -1

Init == open = {} /\ current = None /\ inUse = {}

(* Only code newer than all that is open is brought in.                    *)
Open(l) ==
  /\ l \in Nat /\ \A m \in open : m < l
  /\ open' = open \cup {l}
  /\ UNCHANGED <<current, inUse>>

(* The next call goes to newer code, even while older code is running.     *)
Publish(l) ==
  /\ l \in open /\ current < l
  /\ current' = l
  /\ UNCHANGED <<open, inUse>>

(* A call needs its code to be there from its beginning ...                *)
Call ==
  /\ inUse = {} /\ current \in open
  /\ inUse' = {current}
  /\ UNCHANGED <<open, current>>

Return ==
  /\ inUse # {} /\ inUse' = {}
  /\ UNCHANGED <<open, current>>

(* ... to its end, so only code that neither runs nor will run is closed.  *)
Retire(l) ==
  /\ l \in open \ inUse /\ l < current
  /\ open' = open \ {l}
  /\ UNCHANGED <<current, inUse>>

Next ==
  \/ \E l \in open' \ open : Open(l)
  \/ \E l \in open : Publish(l) \/ Retire(l)
  \/ Call \/ Return

Spec == Init /\ [][Next]_swapVars

=============================================================================
