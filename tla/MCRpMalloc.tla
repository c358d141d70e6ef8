----------------------------- MODULE MCRpMalloc -----------------------------
(* Threads for RpMalloc: two of the program, one that starts when the      *)
(* first has ended and gets its id, and the worker.  Ids are the threads   *)
(* themselves, so that the two which only free are alike.                  *)
EXTENDS RpMalloc, TLC

CONSTANTS first, later, other, worker

TheThreads == {first, later, other, worker}
TheirIds   == [t \in TheThreads |-> IF t = later THEN first ELSE t]
Owners     == {first}
Alike      == Permutations({other, worker})
=============================================================================
