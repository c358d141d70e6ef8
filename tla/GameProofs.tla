----------------------------- MODULE GameProofs -----------------------------
(***************************************************************************)
(* Proofs about Game, for every set of points, every length of a step and  *)
(* every bound, and about the level files (LevelFile), whose variables are *)
(* others.                                                                 *)
(***************************************************************************)
EXTENDS Game, LevelFile, TLAPS

(***************************************************************************)
(* Lemmas about the operators.                                             *)
(***************************************************************************)

(* Quotients, in the form the provers can use.                             *)
LEMMA DivisionBounds ==
  ASSUME NEW n \in Nat, NEW d \in Nat \ {0}
  PROVE  /\ n \div d \in Nat
         /\ d * (n \div d) <= n /\ n < d * (n \div d) + d
  BY SMT

(* The loop of updatePhysics leaves at most one step, and nothing negative.*)
LEMMA StepsInBounds ==
  ASSUME NEW time \in Nat
  PROVE  /\ StepsIn(time) \in Nat
         /\ time - StepsIn(time) * Step \in 0 .. Step
<1>1. CASE time = 0
  BY <1>1, GameAssumption DEF StepsIn
<1>2. CASE time # 0
  <2>1. time - 1 \in Nat
    BY <1>2
  <2>2. /\ (time - 1) \div Step \in Nat
        /\ Step * ((time - 1) \div Step) <= time - 1
        /\ time - 1 < Step * ((time - 1) \div Step) + Step
    BY <2>1, DivisionBounds, GameAssumption
  <2>3. StepsIn(time) = (time - 1) \div Step
    BY <1>2 DEF StepsIn
  <2> DEFINE q == (time - 1) \div Step
  <2>4. q \in Nat /\ Step * q <= time - 1 /\ time - 1 < Step * q + Step
    BY <2>2
  <2>5. q * Step = Step * q /\ q * Step \in Nat
    BY <2>4, GameAssumption
  <2> HIDE DEF q
  <2>6. time - q * Step \in 0 .. Step
    BY <2>4, <2>5, GameAssumption
  <2> QED  BY <2>3, <2>4, <2>6 DEF q
<1> QED  BY <1>1, <1>2

Record == [object : {"bird", "block"}, start : Points]

LEMMA LaunchesType ==
  ASSUME TypeOK, NEW now \in SUBSET Buttons
  PROVE  Launches(now) \in Seq(Record)
<1> DEFINE launch(b) == IF b \in Released(now) /\ mouse_pressed # NoPoint
                        THEN <<[object |-> Launched[b], start |-> mouse_pressed]>>
                        ELSE <<>>
<1>1. ASSUME NEW b \in Buttons  PROVE launch(b) \in Seq(Record)
  <2>1. CASE b \in Released(now) /\ mouse_pressed # NoPoint
    <3>1. [object |-> Launched[b], start |-> mouse_pressed] \in Record
      BY <2>1 DEF TypeOK, Launched, Buttons, Record
    <3> QED  BY <2>1, <3>1
  <2>2. CASE ~ (b \in Released(now) /\ mouse_pressed # NoPoint)
    BY <2>2
  <2> QED  BY <2>1, <2>2
<1>2. launch("left") \in Seq(Record) /\ launch("right") \in Seq(Record)
  BY <1>1 DEF Buttons
<1>3. Launches(now) = launch("left") \o launch("right")
  BY DEF Launches
<1> HIDE DEF launch
<1> QED  BY <1>2, <1>3

(* A release that is the only one of its frame ends the drag with one      *)
(* object of its kind.                                                     *)
LEMMA OneRelease ==
  ASSUME NEW b \in Buttons, NEW now, Released(now) = {b}, mouse_pressed # NoPoint
  PROVE  Launches(now) = <<[object |-> Launched[b], start |-> mouse_pressed]>>
<1>1. CASE b = "left"
  BY <1>1 DEF Launches
<1>2. CASE b = "right"
  BY <1>2 DEF Launches
<1> QED  BY <1>1, <1>2 DEF Buttons

(***************************************************************************)
(* Types and time.                                                         *)
(***************************************************************************)
LEMMA SampleType ==
  ASSUME TypeOK, NEW now \in SUBSET Buttons, NEW pos \in Points, Sample(now, pos)
  PROVE  down' \in SUBSET Buttons /\ pressedAt' \in [Buttons -> Points \cup {NoPoint}]
  BY DEF TypeOK, Sample

LEMMA ShiftType ==
  ASSUME TypeOK, NEW now \in SUBSET Buttons, NEW pos \in Points
  PROVE  mouse_shift(now, pos) \in Points \cup {NoPoint}
  BY DEF TypeOK, mouse_shift

LEMMA PhysicsType ==
  ASSUME TypeOK, NEW dt \in Nat, updatePhysics(dt)
  PROVE  left_over_time' \in 0 .. Step /\ steps' \in Nat /\ played' \in Nat
<1>1. dt + left_over_time \in Nat
  BY GameAssumption DEF TypeOK
<1>2. /\ StepsIn(dt + left_over_time) \in Nat
      /\ (dt + left_over_time) - StepsIn(dt + left_over_time) * Step \in 0 .. Step
  BY <1>1, StepsInBounds
<1>3. left_over_time' \in 0 .. Step
  BY <1>2 DEF updatePhysics
<1>4. steps' \in Nat /\ played' \in Nat
  BY <1>2 DEF TypeOK, updatePhysics
<1> QED  BY <1>3, <1>4

LEMMA PlayType ==
  ASSUME TypeOK, NEW now \in SUBSET Buttons, NEW pos \in Points,
         NEW space \in BOOLEAN, NEW dt \in 0 .. MaxFrameTime,
         Play(now, pos, space, dt)
  PROVE  TypeOK'
<1>1. Launches(now) \in Seq(Record) /\ Len(Launches(now)) \in Nat
  BY LaunchesType
<1>2. dt \in Nat
  BY GameAssumption
<1>3. left_over_time' \in 0 .. Step /\ steps' \in Nat /\ played' \in Nat
  BY <1>2, PhysicsType DEF Play
<1>4. down' \in SUBSET Buttons /\ pressedAt' \in [Buttons -> Points \cup {NoPoint}]
  BY SampleType DEF Play
<1>5. mouse_pressed' \in Points \cup {NoPoint}
  BY ShiftType DEF Play
<1>6. bodies' \in Nat /\ worldBodies' \in Nat
  BY <1>1 DEF Play, TypeOK
<1>7. pause' \in {"play", "pause"} /\ phase' = phase
  BY DEF Play, FrameEnds, toggle
<1>8. orphaned' \in BOOLEAN
  BY DEF Play
<1>9. solo' \in Buttons \cup {None}
  BY DEF Play, SoloAfter, TypeOK
<1>10. /\ frame'.played \in BOOLEAN /\ frame'.space \in BOOLEAN
       /\ frame'.created \in Seq(Record)
  BY <1>1 DEF Play
<1> QED
  BY <1>3, <1>4, <1>5, <1>6, <1>7, <1>8, <1>9, <1>10 DEF TypeOK, Record

LEMMA FreezeType ==
  ASSUME TypeOK, NEW now \in SUBSET Buttons, NEW pos \in Points,
         NEW space \in BOOLEAN, Freeze(now, pos, space)
  PROVE  TypeOK'
<1>1. down' \in SUBSET Buttons /\ pressedAt' \in [Buttons -> Points \cup {NoPoint}]
  BY SampleType DEF Freeze
<1>2. pause' \in {"play", "pause"}
  BY DEF Freeze, FrameEnds, toggle
<1>3. orphaned' \in BOOLEAN /\ solo' \in Buttons \cup {None}
  BY DEF Freeze, TypeOK
<1>4. /\ frame'.played \in BOOLEAN /\ frame'.space \in BOOLEAN
      /\ frame'.created \in Seq(Record)
  BY DEF Freeze
<1>5. UNCHANGED <<phase, mouse_pressed, bodies, worldBodies, left_over_time, steps, played>>
  BY DEF Freeze, worldVars
<1> QED
  BY <1>1, <1>2, <1>3, <1>4, <1>5 DEF TypeOK, Record

LEMMA PanicType ==
  ASSUME TypeOK, NEW now \in SUBSET Buttons, NEW pos \in Points,
         NEW space \in BOOLEAN, Panic(now, pos, space)
  PROVE  TypeOK'
<1>1. down' \in SUBSET Buttons /\ pressedAt' \in [Buttons -> Points \cup {NoPoint}]
  BY SampleType DEF Panic
<1>2. Len(Launches(now)) \in Nat
  BY LaunchesType
<1>3. bodies' \in Nat /\ worldBodies' \in Nat
  BY <1>2 DEF Panic, TypeOK
<1>4. phase' = "panicked" /\ pause' = "play"
  BY DEF Panic
<1>5. UNCHANGED <<mouse_pressed, left_over_time, steps, played, orphaned, solo, frame>>
  BY DEF Panic, historyVars
<1> QED
  BY <1>1, <1>3, <1>4, <1>5 DEF TypeOK

(* The variables always have their types; in particular what is left over  *)
(* of a frame is never negative and never more than a step.                *)
THEOREM TypeCorrect == Spec => []TypeOK
<1>1. Init => TypeOK
  <2> SUFFICES ASSUME Init  PROVE TypeOK
    OBVIOUS
  <2>1. pressedAt \in [Buttons -> Points \cup {NoPoint}] /\ down \in SUBSET Buttons
    BY DEF Init
  <2>2. /\ frame.played \in BOOLEAN /\ frame.space \in BOOLEAN
        /\ frame.created \in Seq(Record)
    BY DEF Init
  <2>3. left_over_time \in 0 .. Step
    BY GameAssumption DEF Init
  <2> QED  BY <2>1, <2>2, <2>3 DEF Init, TypeOK, Record
<1>2. TypeOK /\ [Next]_vars => TypeOK'
  <2> SUFFICES ASSUME TypeOK, [Next]_vars  PROVE TypeOK'
    OBVIOUS
  <2>1. CASE InitGame
    BY <2>1 DEF TypeOK, InitGame, historyVars
  <2>2. CASE gameTick
    BY <2>2, PlayType, FreezeType, PanicType DEF gameTick
  <2>3. CASE Leave
    BY <2>3 DEF TypeOK, Leave, worldVars, historyVars
  <2>4. CASE Deinit
    BY <2>4 DEF TypeOK, Deinit, historyVars
  <2>5. CASE UNCHANGED vars
    BY <2>5 DEF TypeOK, vars, worldVars, historyVars
  <2> QED  BY <2>1, <2>2, <2>3, <2>4, <2>5 DEF Next, Terminated
<1> QED  BY <1>1, <1>2, PTL DEF Spec

(* updatePhysics neither loses nor invents time.                           *)
THEOREM NoTimeIsLost == Spec => []TimeConserved
<1>1. Init => TimeConserved
  BY GameAssumption DEF Init, TimeConserved
<1>2. TypeOK /\ TimeConserved /\ [Next]_vars => TimeConserved'
  <2> SUFFICES ASSUME TypeOK, TimeConserved, [Next]_vars  PROVE TimeConserved'
    OBVIOUS
  <2>1. ASSUME NEW dt \in 0 .. MaxFrameTime, updatePhysics(dt)  PROVE TimeConserved'
    <3> DEFINE time == dt + left_over_time
               n    == StepsIn(time)
    <3>1. dt \in Nat /\ steps \in Nat /\ played \in Nat /\ left_over_time \in Nat /\ Step \in Nat
      BY GameAssumption DEF TypeOK
    <3>2. n \in Nat /\ time - n * Step \in 0 .. Step
      BY <3>1, StepsInBounds
    <3>3. /\ steps' = steps + n
          /\ left_over_time' = time - n * Step
          /\ played' = played + dt
      BY <2>1 DEF updatePhysics
    <3>4. played = steps * Step + left_over_time
      BY DEF TimeConserved
    <3> HIDE DEF n
    <3>5. (steps + n) * Step = steps * Step + n * Step
      BY <3>1, <3>2
    <3>6. steps * Step \in Nat /\ n * Step \in Nat
      BY <3>1, <3>2
    <3>7. played' = steps' * Step + left_over_time'
      BY <3>1, <3>3, <3>4, <3>5, <3>6
    <3> QED  BY <3>2, <3>3, <3>7 DEF TimeConserved
  <2>2. ASSUME UNCHANGED <<left_over_time, steps, played>>  PROVE TimeConserved'
    BY <2>2 DEF TimeConserved
  <2> QED
    BY <2>1, <2>2
    DEF Next, InitGame, gameTick, Play, Panic, Freeze, Leave, Deinit, Terminated,
        vars, worldVars, historyVars
<1> QED  BY <1>1, <1>2, TypeCorrect, PTL DEF Spec

(***************************************************************************)
(* Drags.                                                                  *)
(***************************************************************************)

(* What the samples say of a button that is not pressed in this frame.     *)
LEMMA StillHeld ==
  ASSUME TypeOK, NEW now \in SUBSET Buttons, NEW pos \in Points, Sample(now, pos),
         NEW b \in down, b \notin Released(now)
  PROVE  b \in down' /\ pressedAt'[b] = pressedAt[b]
  BY DEF TypeOK, Sample, Released, Pressed

LEMMA JustPressed ==
  ASSUME NEW now \in SUBSET Buttons, NEW pos \in Points, Sample(now, pos),
         NEW b \in Pressed(now)
  PROVE  b \in down' /\ pressedAt'[b] = pos
  BY DEF Sample, Pressed

LEMMA PlayDrag ==
  ASSUME TypeOK, DragIsHeld, NEW now \in SUBSET Buttons, NEW pos \in Points,
         NEW space, NEW dt, Play(now, pos, space, dt)
  PROVE  DragIsHeld'
<1> SUFFICES ASSUME mouse_pressed' # NoPoint, ~ orphaned'
             PROVE  \E b \in down' : pressedAt'[b] = mouse_pressed'
  BY DEF DragIsHeld
<1>1. Sample(now, pos) /\ phase = "running" /\ mouse_pressed' = mouse_shift(now, pos)
  BY DEF Play
<1>2. CASE "right" \in Pressed(now)
  <2>1. mouse_pressed' = pos
    BY <1>1, <1>2 DEF mouse_shift
  <2> QED  BY <1>1, <1>2, <2>1, JustPressed
<1>3. CASE "right" \notin Pressed(now) /\ mouse_pressed = NoPoint
  <2>1. "left" \in Pressed(now) /\ mouse_pressed' = pos
    BY <1>1, <1>3 DEF mouse_shift
  <2> QED  BY <1>1, <2>1, JustPressed
<1>4. CASE "right" \notin Pressed(now) /\ mouse_pressed # NoPoint
  <2>1. ~ orphaned
    BY <1>4 DEF Play
  <2>2. mouse_pressed' = mouse_pressed /\ "left" \notin Released(now) /\ "right" \notin Released(now)
    BY <1>1, <1>4 DEF mouse_shift
  <2>3. PICK b \in down : pressedAt[b] = mouse_pressed
    BY <1>1, <1>4, <2>1 DEF DragIsHeld
  <2>4. b \notin Released(now)
    BY <2>2 DEF TypeOK, Buttons
  <2> QED  BY <1>1, <2>2, <2>3, <2>4, StillHeld
<1> QED  BY <1>2, <1>3, <1>4

LEMMA FreezeDrag ==
  ASSUME TypeOK, DragIsHeld, NEW now \in SUBSET Buttons, NEW pos \in Points,
         NEW space, Freeze(now, pos, space)
  PROVE  DragIsHeld'
<1> SUFFICES ASSUME mouse_pressed' # NoPoint, ~ orphaned'
             PROVE  \E b \in down' : pressedAt'[b] = mouse_pressed'
  BY DEF DragIsHeld
<1>1. /\ Sample(now, pos) /\ phase = "running" /\ mouse_pressed' = mouse_pressed
      /\ ~ orphaned /\ Released(now) = {}
  BY DEF Freeze
<1>2. PICK b \in down : pressedAt[b] = mouse_pressed
  BY <1>1 DEF DragIsHeld
<1> QED  BY <1>1, <1>2, StillHeld

LEMMA NextDrag ==
  ASSUME TypeOK, DragIsHeld, SoloInv, [Next]_vars
  PROVE  DragIsHeld'
<1>1. CASE gameTick
  <2>1. ASSUME NEW now, NEW pos, NEW space, Panic(now, pos, space)  PROVE DragIsHeld'
    BY <2>1 DEF Panic, DragIsHeld
  <2> QED  BY <1>1, <2>1, PlayDrag, FreezeDrag DEF gameTick
<1>2. CASE InitGame
  BY <1>2 DEF InitGame, DragIsHeld, SoloInv
<1>3. CASE Leave \/ Deinit
  BY <1>3 DEF Leave, Deinit, DragIsHeld
<1>4. CASE UNCHANGED vars
  BY <1>4 DEF vars, historyVars, DragIsHeld
<1> QED  BY <1>1, <1>2, <1>3, <1>4 DEF Next, Terminated

LEMMA PlaySolo ==
  ASSUME TypeOK, DragIsHeld, SoloInv, NEW now \in SUBSET Buttons, NEW pos \in Points,
         NEW space, NEW dt, Play(now, pos, space, dt)
  PROVE  SoloInv'
<1> SUFFICES ASSUME solo' # None
             PROVE  /\ down' = {solo'} /\ mouse_pressed' = pressedAt'[solo']
                    /\ mouse_pressed' # NoPoint
  BY DEF SoloInv, Play
<1>1. /\ Sample(now, pos) /\ phase = "running" /\ mouse_pressed' = mouse_shift(now, pos)
      /\ down' = now /\ solo' = SoloAfter(now)
  BY DEF Play, Sample
<1>2. CASE solo # None /\ now = {solo}
  <2>1. solo' = solo /\ down = {solo} /\ mouse_pressed = pressedAt[solo] /\ mouse_pressed # NoPoint
    BY <1>1, <1>2 DEF SoloAfter, SoloInv
  <2>2. Pressed(now) = {} /\ Released(now) = {}
    BY <1>2, <2>1 DEF Pressed, Released
  <2>3. mouse_pressed' = mouse_pressed
    BY <1>1, <2>2 DEF mouse_shift
  <2>4. pressedAt'[solo] = pressedAt[solo]
    BY <1>1, <2>1, <2>2, StillHeld
  <2> QED  BY <1>1, <1>2, <2>1, <2>3, <2>4
<1>3. CASE ~ (solo # None /\ now = {solo})
  <2>1. down = {} /\ ~ orphaned /\ now \in {{b} : b \in Buttons}
    BY <1>1, <1>3 DEF SoloAfter
  <2>2. PICK b \in Buttons : now = {b}
    BY <2>1
  <2>3. solo' = b
    BY <1>1, <1>3, <2>1, <2>2 DEF SoloAfter
  <2>4. mouse_pressed = NoPoint
    BY <1>1, <2>1 DEF DragIsHeld
  <2>5. Pressed(now) = {b} /\ Released(now) = {}
    BY <2>1, <2>2 DEF Pressed, Released
  <2>6. mouse_pressed' = pos
    BY <1>1, <2>4, <2>5 DEF mouse_shift, Buttons
  <2>7. pressedAt'[b] = pos
    BY <1>1, <2>5, JustPressed
  <2> QED  BY <1>1, <2>2, <2>3, <2>6, <2>7, GameAssumption
<1> QED  BY <1>2, <1>3

LEMMA FreezeSolo ==
  ASSUME TypeOK, SoloInv, NEW now \in SUBSET Buttons, NEW pos \in Points,
         NEW space, Freeze(now, pos, space)
  PROVE  SoloInv'
<1> SUFFICES ASSUME solo' # None
             PROVE  /\ down' = {solo'} /\ mouse_pressed' = pressedAt'[solo']
                    /\ mouse_pressed' # NoPoint
  BY DEF SoloInv, Freeze
<1>1. /\ Sample(now, pos) /\ phase = "running" /\ mouse_pressed' = mouse_pressed
      /\ down' = now /\ now = {solo} /\ solo' = solo
  BY DEF Freeze, Sample
<1>2. down = {solo} /\ mouse_pressed = pressedAt[solo] /\ mouse_pressed # NoPoint
  BY <1>1 DEF SoloInv
<1>3. solo \notin Released(now)
  BY <1>1 DEF Released
<1> QED  BY <1>1, <1>2, <1>3, StillHeld

LEMMA NextSolo ==
  ASSUME TypeOK, DragIsHeld, SoloInv, [Next]_vars
  PROVE  SoloInv'
<1>1. CASE gameTick
  <2>1. ASSUME NEW now, NEW pos, NEW space, Panic(now, pos, space)  PROVE SoloInv'
    BY <2>1 DEF Panic, SoloInv
  <2> QED  BY <1>1, <2>1, PlaySolo, FreezeSolo DEF gameTick
<1>2. CASE InitGame
  BY <1>2 DEF InitGame, historyVars, SoloInv
<1>3. CASE Leave \/ Deinit
  BY <1>3 DEF Leave, Deinit, SoloInv
<1>4. CASE UNCHANGED vars
  BY <1>4 DEF vars, historyVars, SoloInv
<1> QED  BY <1>1, <1>2, <1>3, <1>4 DEF Next, Terminated

LEMMA DragInvariant == Spec => [](DragIsHeld /\ SoloInv)
<1>1. Init => DragIsHeld /\ SoloInv
  BY DEF Init, DragIsHeld, SoloInv
<1>2. TypeOK /\ DragIsHeld /\ SoloInv /\ [Next]_vars => DragIsHeld' /\ SoloInv'
  BY NextDrag, NextSolo
<1> QED  BY <1>1, <1>2, TypeCorrect, PTL DEF Spec

(* A drag always starts where a button that is still held went down, but   *)
(* for drags whose release fell into a pause.                              *)
THEOREM DragsAreHeld == Spec => []DragIsHeld
  BY DragInvariant, PTL

(* A drag with one button launches exactly one object, of the button's     *)
(* kind, from where the button went down, whatever pauses it outlasted.    *)
THEOREM SoloDragsLaunch == Spec => SoloDragLaunches
<1>1. ASSUME TypeOK, SoloInv, Next, solo # None, solo \notin down', frame'.played,
             phase' = "running"
      PROVE  frame'.created = <<[object |-> Launched[solo], start |-> pressedAt[solo]]>>
  <2>1. phase = "running"
    BY <1>1 DEF Next, InitGame, SoloInv, gameTick, Play, Panic, Freeze, Leave, Deinit, Terminated,
                vars
  <2>2. PICK now \in SUBSET Buttons, pos \in Points, space \in BOOLEAN, dt \in 0 .. MaxFrameTime :
          Play(now, pos, space, dt)
    BY <1>1, <2>1 DEF Next, InitGame, gameTick, Panic, Freeze, Leave, Deinit, Terminated
  <2>3. down = {solo} /\ mouse_pressed = pressedAt[solo] /\ mouse_pressed # NoPoint
    BY <1>1, <2>1 DEF SoloInv
  <2>4. Released(now) = {solo}
    BY <1>1, <2>2, <2>3 DEF Play, Sample, Released
  <2>5. frame'.created = Launches(now)
    BY <2>2 DEF Play
  <2> QED  BY <1>1, <2>3, <2>4, <2>5, OneRelease DEF TypeOK
<1>2. TypeOK /\ SoloInv /\ [Next]_vars =>
        [(solo # None /\ solo \notin down' /\ frame'.played /\ phase' = "running") =>
           frame'.created = <<[object |-> Launched[solo], start |-> pressedAt[solo]]>>]_vars
  BY <1>1
<1> QED  BY <1>2, TypeCorrect, DragInvariant, PTL DEF Spec, SoloDragLaunches

(* The Pause button never pauses the game with a drag under way.           *)
THEOREM PauseButtonIsSafe == Spec => PauseButtonEndsDrag
<1>1. ASSUME Next, pause = "play", pause' = "pause", ~ frame'.space
      PROVE  mouse_pressed' = NoPoint
  <2>1. PICK now \in SUBSET Buttons, pos \in Points, space \in BOOLEAN, dt \in 0 .. MaxFrameTime :
          Play(now, pos, space, dt)
    BY <1>1 DEF Next, InitGame, gameTick, Panic, Freeze, Leave, Deinit, Terminated, vars, toggle
  <2>2. "left" \in Released(now) /\ mouse_pressed' = mouse_shift(now, pos)
    BY <1>1, <2>1 DEF Play, FrameEnds, PauseClicked
  <2> QED  BY <2>2 DEF mouse_shift
<1>2. [Next]_vars =>
        [(pause = "play" /\ pause' = "pause" /\ ~ frame'.space) => mouse_pressed' = NoPoint]_vars
  BY <1>1
<1> QED  BY <1>2, PTL DEF Spec, PauseButtonEndsDrag

(***************************************************************************)
(* Level files, for all levels, sizes and limits: a torn save is never     *)
(* read as a level, and a level that fits and was saved to the end is read *)
(* again.                                                                  *)
(***************************************************************************)

(* The first n pieces of a level are n.                                    *)
LEMMA LenOfPieces ==
  ASSUME NEW l, NEW n \in Nat
  PROVE  Len([i \in 1 .. n |-> Piece(l, i)]) = n
<1> DEFINE f == [i \in 1 .. n |-> Piece(l, i)]
<1>1. f \in Seq({Piece(l, i) : i \in 1 .. n}) /\ DOMAIN f = 1 .. n
  OBVIOUS
<1> HIDE DEF f
<1>2. Len(f) = n
  BY <1>1
<1> QED BY <1>2 DEF f

(* Only the whole text of a level is parsed as one.                        *)
LEMMA ParsedPieces ==
  ASSUME NEW l \in Levels, NEW n \in 0 .. Size[l],
         NEW text, text = [i \in 1 .. n |-> Piece(l, i)]
  PROVE  Parsed(text) = IF n = Size[l] THEN l ELSE Failed
<1>0. Size[l] \in Nat \ {0} /\ n \in Nat
  BY LevelAssumption
<1>1. ASSUME NEW k \in Levels, text = Text(k) PROVE k = l /\ n = Size[l]
  <2>1. Size[k] \in Nat \ {0} /\ DOMAIN text = 1 .. Size[k] /\ text[1] = Piece(k, 1)
    BY <1>1, LevelAssumption DEF Text
  <2>2. DOMAIN text = 1 .. n
    OBVIOUS
  <2>3. 1 \in 1 .. n /\ n = Size[k]
    BY <1>0, <2>1, <2>2
  <2>4. Piece(k, 1) = Piece(l, 1)
    BY <2>1, <2>3
  <2> QED BY <2>3, <2>4 DEF Piece
<1>2. CASE n = Size[l]
  <2>1. text = Text(l)
    BY <1>2 DEF Text
  <2> QED BY <1>1, <1>2, <2>1 DEF Parsed
<1>3. CASE n # Size[l]
  BY <1>1, <1>3 DEF Parsed
<1> QED BY <1>2, <1>3

(* The disk holds a beginning of the level saved last, all of it once the  *)
(* save returned; a read that is under way has taken a beginning of it.    *)
THEOREM FileInvariant == FileSpec => []FileInv
<1> USE LevelAssumption
<1>1. FileInit => FileInv
  BY DEF FileInit, FileInv
<1>2. FileInv /\ [FileNext]_fileVars => FileInv'
  <2> SUFFICES ASSUME FileInv, [FileNext]_fileVars PROVE FileInv'
    OBVIOUS
  <2>1. ASSUME NEW l \in Levels, Create(l) PROVE FileInv'
    <3>1. Size[l] \in Nat /\ <<>> = [i \in 1 .. 0 |-> Piece(l, i)]
      OBVIOUS
    <3> QED BY <2>1, <3>1 DEF Create, FileInv
  <2>2. CASE Write
    <3>1. /\ saved \in Levels /\ level = saved /\ Size[saved] \in Nat /\ written \in Nat
          /\ written + 1 \in 0 .. Size[saved] /\ torn
      BY <2>2 DEF Write, FileInv
    <3>2. Len(disk) = written /\ \A i \in 1 .. written : disk[i] = Piece(saved, i)
      BY <3>1, LenOfPieces DEF FileInv
    <3>3. disk' = [i \in 1 .. written + 1 |-> IF i = written + 1 THEN Piece(saved, i) ELSE disk[i]]
      BY <2>2, <3>1, <3>2 DEF Write
    <3>4. disk' = [i \in 1 .. written + 1 |-> Piece(saved, i)]
      BY <3>1, <3>2, <3>3
    <3> QED BY <2>2, <3>1, <3>4 DEF Write, FileInv
  <2>3. CASE SaveReturns
    BY <2>3 DEF SaveReturns, FileInv
  <2>4. CASE OpenFails \/ WriteFails \/ OpenToRead \/ ReadAll \/ ReadFails \/ Crash \/ UNCHANGED fileVars
    BY <2>4 DEF OpenFails, WriteFails, OpenToRead, ReadAll, ReadFails, Crash, fileVars, FileInv
  <2> QED BY <2>1, <2>2, <2>3, <2>4 DEF FileNext
<1> QED BY <1>1, <1>2, PTL DEF FileSpec

(* A save that failed or was cut off is never taken for a level.           *)
THEOREM TornLevelsAreRefused == FileSpec => NoTornLevel
<1> USE LevelAssumption
<1>1. FileInv /\ [FileNext]_fileVars =>
         [(pc = "read" /\ result' \in Levels) => result' = saved /\ written = Size[saved]]_fileVars
  <2> SUFFICES ASSUME FileInv, FileNext, pc = "read", result' \in Levels
               PROVE  result' = saved /\ written = Size[saved]
    OBVIOUS
  <2>1. CASE ReadAll
    <3>1. Parsed(disk) = IF written = Size[saved] THEN saved ELSE Failed
      BY ParsedPieces DEF FileInv
    <3> QED BY <2>1, <3>1 DEF ReadAll
  <2>2. CASE ReadFails \/ Crash
    BY <2>2 DEF ReadFails, Crash
  <2> QED BY <2>1, <2>2 DEF FileNext, Create, OpenFails, Write, WriteFails, SaveReturns, OpenToRead
<1> QED BY FileInvariant, <1>1, PTL DEF FileSpec, NoTornLevel

(* A level that fits and whose save reached its end can be read again.     *)
THEOREM SavedLevelsAreReadable == FileSpec => SavedIsReadable
<1> USE LevelAssumption
<1>1. FileInv /\ [FileNext]_fileVars => [(pc = "read" /\ pc' = "idle" /\ result' = Failed) =>
                                   faulty' \/ torn \/ Size[saved] > max_size]_fileVars
  <2> SUFFICES ASSUME FileInv, FileNext, pc = "read", pc' = "idle", result' = Failed, ~ torn
               PROVE  faulty' \/ Size[saved] > max_size
    OBVIOUS
  <2>1. CASE ReadAll
    <3>1. saved \in Levels /\ written = Size[saved] /\ written \in Nat /\ Parsed(disk) = saved
      BY ParsedPieces DEF FileInv
    <3>2. Len(disk) = written
      BY <3>1, LenOfPieces DEF FileInv
    <3> QED BY <2>1, <3>1, <3>2 DEF ReadAll
  <2>2. CASE ReadFails \/ Crash
    BY <2>2 DEF ReadFails, Crash, NoLevel, Failed
  <2> QED BY <2>1, <2>2 DEF FileNext, Create, OpenFails, Write, WriteFails, SaveReturns, OpenToRead
<1> QED BY FileInvariant, <1>1, PTL DEF FileSpec, SavedIsReadable
=============================================================================
