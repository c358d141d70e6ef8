-------------------------------- MODULE Game --------------------------------
(***************************************************************************)
(* The game itself (src/game.zig, called in a loop by src/main.zig): what  *)
(* gameTick does with one frame of input.                                  *)
(*                                                                         *)
(* raylib samples the input once per frame, in endDrawing, so during a     *)
(* frame the held buttons, the pointer and the keys do not change, and     *)
(* "pressed" and "released" compare the held buttons with those of the     *)
(* frame before.  A frame is one action: Play, Freeze or Leave.            *)
(*                                                                         *)
(* Time is an integer number of units, Step of them a physics step; what   *)
(* rounding does to the same loop is the subject of FrameClock.            *)
(***************************************************************************)
EXTENDS Integers, Sequences

CONSTANTS
  Points,        (* positions of the mouse                                 *)
  OnPauseButton, (* those over the Pause button                            *)
  Step,          (* step_time of updatePhysics                             *)
  MaxFrameTime,  (* bound of the model: the longest frame                  *)
  MaxPlayed,     (* bound of the model: time played in all                 *)
  MaxBodies      (* bound of the model: objects in the level               *)

NoPoint == "no point"

ASSUME GameAssumption ==
  /\ NoPoint \notin Points
  /\ OnPauseButton \subseteq Points
  /\ Step \in Nat \ {0}
  /\ MaxFrameTime \in Nat /\ MaxPlayed \in Nat /\ MaxBodies \in Nat

VARIABLES
  phase,         (* where main is: initialising, in its loop or past it    *)
  pause,         (* state.state.pause                                      *)
  mouse_pressed, (* where the drag began, or NoPoint                       *)
  bodies,        (* length of state.bodies                                 *)
  worldBodies,   (* bodies of the physics world                            *)
  left_over_time,
  steps,         (* physics steps taken                                    *)
  down,          (* buttons held when raylib last sampled them             *)
  pressedAt,     (* history: where each button last went down              *)
  played,        (* history: sum of the frame times updatePhysics read     *)
  orphaned,      (* history: a release was missed in the present drag      *)
  solo,          (* history: the button of a drag no other interfered with *)
  frame          (* history: what the last frame did                       *)

worldVars   == <<bodies, worldBodies, left_over_time, steps, played>>
historyVars == <<orphaned, solo, frame>>
vars        == <<phase, pause, mouse_pressed, worldVars, down, pressedAt, historyVars>>

Buttons == {"left", "right"}
None    == "none"

Launched == [left |-> "bird", right |-> "block"]

-----------------------------------------------------------------------------
(* One frame of input: the buttons held now and the position of the mouse. *)
Pressed(now)  == now \ down
Released(now) == down \ now

Sample(now, pos) ==
  /\ down' = now
  /\ pressedAt' = [b \in Buttons |-> IF b \in Pressed(now) THEN pos ELSE pressedAt[b]]

toggle(p) == IF p = "play" THEN "pause" ELSE "play"

(* Mutant: a right press does not begin a drag. *)
mouse_shift_LeftOnly(now, pos) ==
  LET start == IF mouse_pressed = NoPoint /\ "left" \in Pressed(now) THEN pos ELSE mouse_pressed
  IN  IF (start # NoPoint /\ "left" \in Released(now)) \/ "right" \in Released(now)
      THEN NoPoint ELSE start

(* Mutant: a right release does not end a drag. *)
mouse_shift_NoRightEnd(now, pos) ==
  LET start == IF \/ mouse_pressed = NoPoint /\ "left" \in Pressed(now)
                  \/ "right" \in Pressed(now)
               THEN pos ELSE mouse_pressed
  IN  IF start # NoPoint /\ "left" \in Released(now) THEN NoPoint ELSE start

(* Mutant: the release is looked at before the press. *)
mouse_shift_ReleaseFirst(now, pos) ==
  LET start == IF "left" \in Released(now) \/ "right" \in Released(now)
               THEN NoPoint ELSE mouse_pressed
  IN  IF (start = NoPoint /\ "left" \in Pressed(now)) \/ "right" \in Pressed(now)
      THEN pos ELSE start

(* `and` binds tighter than `or`: a right press restarts a drag, a right   *)
(* release ends one, whatever the left button does.                        *)
mouse_shift(now, pos) ==
  LET start == IF \/ mouse_pressed = NoPoint /\ "left" \in Pressed(now)
                  \/ "right" \in Pressed(now)
               THEN pos ELSE mouse_pressed
  IN  IF \/ start # NoPoint /\ "left" \in Released(now)
         \/ "right" \in Released(now)
      THEN NoPoint ELSE start

(* The objects gameInput creates, in order: it runs before mouse_shift.    *)
Launches(now) ==
  LET launch(b) == IF b \in Released(now) /\ mouse_pressed # NoPoint
                   THEN <<[object |-> Launched[b], start |-> mouse_pressed]>>
                   ELSE <<>>
  IN  launch("left") \o launch("right")

(* How often `while (frame_time > step_time)` goes round.                  *)
StepsIn(time) == IF time = 0 THEN 0 ELSE (time - 1) \div Step

(* Mutant: what was left over is not added to the time of the frame. *)
updatePhysics_Forgets(dt) ==
  /\ steps' = steps + StepsIn(dt)
  /\ left_over_time' = dt - StepsIn(dt) * Step
  /\ played' = played + dt

updatePhysics(dt) ==
  LET frame_time == dt + left_over_time
  IN  /\ steps' = steps + StepsIn(frame_time)
      /\ left_over_time' = frame_time - StepsIn(frame_time) * Step
      /\ played' = played + dt

(* guiButton reports a click when the left button goes up over it.         *)
PauseClicked(now, pos) == "left" \in Released(now) /\ pos \in OnPauseButton

FrameEnds(paused, now, pos) ==
  pause' = IF PauseClicked(now, pos) THEN toggle(paused) ELSE paused

-----------------------------------------------------------------------------
(* Game.init.  loadSpriteSheet may fail, which ends the program with the   *)
(* window and the world open; an append that fails in createLevel is only  *)
(* logged, and leaves the ground in the world but not among the objects.   *)
InitGame ==
  /\ phase = "init"
  /\ \/ /\ phase' = "running"
        /\ bodies' \in {0, 1} /\ worldBodies' = 1
     \/ /\ phase' = "failed"
        /\ UNCHANGED <<bodies, worldBodies>>
  /\ UNCHANGED <<pause, mouse_pressed, left_over_time, steps, played, down, pressedAt,
                 historyVars>>

(* A drag is on its own while its button, pressed in a frame that played,  *)
(* is the only one held.                                                   *)
SoloAfter(now) ==
  IF solo # None /\ now = {solo} THEN solo
  ELSE IF down = {} /\ ~ orphaned /\ now \in {{b} : b \in Buttons}
       THEN CHOOSE b \in Buttons : now = {b}
       ELSE None

(* A frame that plays: gameInput, updatePhysics, then the drawing.         *)
Play(now, pos, space, dt) ==
  /\ phase = "running"
  /\ (IF space THEN toggle(pause) ELSE pause) = "play"
  /\ Sample(now, pos)
  /\ LET created == Launches(now)
     IN  /\ bodies + Len(created) <= MaxBodies
         /\ bodies' = bodies + Len(created)
         /\ worldBodies' = worldBodies + Len(created)
         /\ frame' = [played |-> TRUE, created |-> created, space |-> space]
  /\ mouse_pressed' = mouse_shift(now, pos)
  /\ played + dt <= MaxPlayed /\ updatePhysics(dt)
  /\ FrameEnds("play", now, pos)
  /\ orphaned' = (orphaned /\ mouse_pressed' # NoPoint /\ "right" \notin Pressed(now))
  /\ solo' = SoloAfter(now)
  /\ UNCHANGED phase

(* The append after a launch may fail: @panic("OOM").                      *)
Panic(now, pos, space) ==
  /\ phase = "running"
  /\ (IF space THEN toggle(pause) ELSE pause) = "play"
  /\ Launches(now) # <<>>
  /\ Sample(now, pos)
  /\ phase' = "panicked"
  /\ pause' = "play"
  /\ \E n \in 1 .. Len(Launches(now)) :
       worldBodies' = worldBodies + n /\ bodies' = bodies + n - 1
  /\ UNCHANGED <<mouse_pressed, left_over_time, steps, played, historyVars>>

(* A paused frame only draws: gameInput does not see its presses and       *)
(* releases, and the next frame no longer has them.                        *)
Freeze(now, pos, space) ==
  /\ phase = "running"
  /\ (IF space THEN toggle(pause) ELSE pause) = "pause"
  /\ Sample(now, pos)
  /\ FrameEnds("pause", now, pos)
  /\ frame' = [played |-> FALSE, created |-> <<>>, space |-> space]
  /\ orphaned' = (orphaned \/ (mouse_pressed # NoPoint /\ Released(now) # {}))
  /\ solo' = IF now = {solo} THEN solo ELSE None
  /\ UNCHANGED <<phase, mouse_pressed, worldVars>>

(* .restart (the R key) and .exit both break out of main's loop, before    *)
(* anything else of the frame is done.                                     *)
Leave ==
  /\ phase = "running" /\ phase' = "closing"
  /\ UNCHANGED <<pause, mouse_pressed, worldVars, down, pressedAt, historyVars>>

(* Game.deinit destroys the world and empties the list.                    *)
Deinit ==
  /\ phase = "closing" /\ phase' = "ended"
  /\ worldBodies' = 0 /\ bodies' = 0
  /\ UNCHANGED <<pause, mouse_pressed, left_over_time, steps, played, down, pressedAt,
                 historyVars>>

-----------------------------------------------------------------------------
Init ==
  /\ phase = "init" /\ pause = "play" /\ mouse_pressed = NoPoint
  /\ bodies = 0 /\ worldBodies = 0
  /\ left_over_time = 0 /\ steps = 0 /\ played = 0
  /\ down = {} /\ pressedAt = [b \in Buttons |-> NoPoint]
  /\ orphaned = FALSE /\ solo = None
  /\ frame = [played |-> FALSE, created |-> <<>>, space |-> FALSE]

gameTick ==
  \E now \in SUBSET Buttons, pos \in Points, space \in BOOLEAN :
    \/ \E dt \in 0 .. MaxFrameTime : Play(now, pos, space, dt)
    \/ Panic(now, pos, space)
    \/ Freeze(now, pos, space)

Terminated == phase \in {"failed", "panicked", "ended"} /\ UNCHANGED vars

Next == InitGame \/ gameTick \/ Leave \/ Deinit \/ Terminated

Spec == Init /\ [][Next]_vars

-----------------------------------------------------------------------------
(* Type invariant of Game and of the histories kept beside it.             *)
TypeOK ==
  /\ phase \in {"init", "running", "closing", "ended", "failed", "panicked"}
  /\ pause \in {"play", "pause"}
  /\ mouse_pressed \in Points \cup {NoPoint}
  /\ bodies \in Nat /\ worldBodies \in Nat
  /\ left_over_time \in 0 .. Step /\ steps \in Nat /\ played \in Nat
  /\ down \in SUBSET Buttons
  /\ pressedAt \in [Buttons -> Points \cup {NoPoint}]
  /\ orphaned \in BOOLEAN /\ solo \in Buttons \cup {None}
  /\ frame.played \in BOOLEAN /\ frame.space \in BOOLEAN
  /\ frame.created \in Seq([object : {"bird", "block"}, start : Points])

(* The simulation neither loses nor invents time, over any mix of short    *)
(* and long frames and pauses: what updatePhysics was given and has not    *)
(* simulated is left_over_time, never more than one step.                  *)
TimeConserved ==
  /\ played = steps * Step + left_over_time
  /\ left_over_time \in 0 .. Step

(* A drag belongs to a press: it starts where a button that is still held  *)
(* went down, unless the release was missed during a pause.                *)
DragIsHeld ==
  (phase = "running" /\ mouse_pressed # NoPoint /\ ~ orphaned) =>
    \E b \in down : pressedAt[b] = mouse_pressed

(* A drag with one button, however many pauses it outlasts, launches one   *)
(* object of the button's kind from where the button went down.            *)
SoloDragLaunches ==
  [][(solo # None /\ solo \notin down' /\ frame'.played /\ phase' = "running") =>
       frame'.created = <<[object |-> Launched[solo], start |-> pressedAt[solo]]>>]_vars

(* The Pause button, unlike the space bar, never pauses the game with a    *)
(* drag under way: the release that clicks it ends the drag first.         *)
PauseButtonEndsDrag ==
  [][(pause = "play" /\ pause' = "pause" /\ ~ frame'.space) => mouse_pressed' = NoPoint]_vars

-----------------------------------------------------------------------------
(* The inductive invariant behind SoloDragLaunches: a drag that is on its  *)
(* own is the one under way, and began where its button went down.         *)
SoloInv ==
  /\ phase = "init" => solo = None /\ mouse_pressed = NoPoint
  /\ (phase = "running" /\ solo # None) =>
       down = {solo} /\ mouse_pressed = pressedAt[solo] /\ mouse_pressed # NoPoint

=============================================================================
