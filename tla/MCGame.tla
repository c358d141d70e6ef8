------------------------------- MODULE MCGame -------------------------------
(* Model values for Game. *)
EXTENDS Game

(* The middle of the level and the Pause button. *)
LevelAndButton == {"level", "sky", "button"}
TheButton      == {"button"}
=============================================================================
