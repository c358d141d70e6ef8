---------------------------- MODULE MCLevelFile ----------------------------
(* Levels for LevelFile: one below the limit of reading, one that just     *)
(* fits and one that does not.                                             *)
EXTENDS LevelFile

SmallFitsLarge == [small |-> 1, fits |-> 3, large |-> 4]
LevelNames     == DOMAIN SmallFitsLarge
=============================================================================
