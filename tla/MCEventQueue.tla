---------------------------- MODULE MCEventQueue ----------------------------
(* Model values for EventQueue: a busy thread and one with a single event. *)
EXTENDS EventQueue, TLC

CONSTANTS busy, brief

Emitters == {busy, brief}

SevenAndOne == (busy :> 7) @@ (brief :> 1)
=============================================================================
