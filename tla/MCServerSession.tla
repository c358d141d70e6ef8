-------------------------- MODULE MCServerSession --------------------------
(* ServerSession with the constants of its configurations.                  *)
EXTENDS ServerSession

(* A program that does not set TRACY_NO_EXIT, which would only let the      *)
(* worker wait for a first server after the exit.  The variable does not    *)
(* change, so this is half of the states.                                   *)
ExitInit == Init /\ ~ noExit

ExitSpec == ExitInit /\ [][Next]_vars /\ Fairness
=============================================================================
