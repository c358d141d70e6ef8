----------------------------- MODULE FrameClock -----------------------------
(***************************************************************************)
(* updatePhysics of src/game.zig in floating point: the loop that spends   *)
(* the time of a frame in steps of step_time and carries the rest over.    *)
(* The machine takes time for it, which the next frame has to simulate.    *)
(*                                                                         *)
(* An f32 has a mantissa of 24 bits.  Here it has Precision bits, and all  *)
(* numbers are multiples of one unit, so that those below 2^Precision are  *)
(* exact and larger ones are rounded to the nearest multiple of Spacing.   *)
(***************************************************************************)
EXTENDS Integers, FiniteSetsExt

CONSTANTS
  Precision,     (* bits of the mantissa, 24 in the code                   *)
  step_time,     (* 1.0 / 1000.0 in the code                               *)
  Costs,         (* how long the machine may take for a step               *)
  Drawing,       (* and for the rest of a frame                            *)
  MaxFrameTime   (* bound of the model: the longest frame                  *)

ASSUME FrameClockAssumption ==
  /\ Precision \in Nat \ {0} /\ step_time \in Nat \ {0} /\ MaxFrameTime \in Nat
  /\ Costs \subseteq Nat /\ Costs # {} /\ Drawing \in Nat

(* Bound of the model: numbers are below 2^(Precision + this). *)
MaxExponent == 12

ASSUME NumbersFit == MaxFrameTime + step_time < 2 ^ (Precision + MaxExponent)

(* Laws of powers, which the proofs need: their provers know none. *)
ASSUME PowersAssumption ==
  /\ 2 ^ 0 = 1 /\ 2 ^ Precision \in Nat \ {0}
  /\ \A k \in 0 .. MaxExponent :
       /\ 2 ^ k \in Nat \ {0} /\ 2 ^ (Precision + k) = 2 ^ Precision * 2 ^ k
       /\ \A j \in 0 .. k : 2 ^ j <= 2 ^ k
       /\ k # 0 => 2 ^ k = 2 * 2 ^ (k - 1)
  /\ 2 ^ (Precision - 1) \in Nat /\ 2 ^ Precision = 2 * 2 ^ (Precision - 1)

VARIABLES
  running,         (* whether updatePhysics is in its loop                 *)
  frame_time,
  left_over_time,
  cost,            (* what a step of this frame takes the machine          *)
  elapsed,         (* what this frame has taken the machine so far         *)
  measured,        (* history: getFrameTime, how long the last frame took  *)
  given,           (* history: exactly what this frame had to spend        *)
  steps            (* history: steps this frame took                       *)

vars == <<running, frame_time, left_over_time, cost, elapsed, measured, given, steps>>

(* Bound of the model: of `steps`, more than a frame takes that ends, since *)
(* subtracting step_time takes off half of it at least, or nothing.        *)
MaxSteps == 2 * ((MaxFrameTime + step_time) \div step_time) + 4

(* The distance of neighbouring numbers at x, and the number nearest to x, *)
(* the even one of two that are equally near.                              *)
Spacing(x) == 2 ^ Min({k \in 0 .. MaxExponent : x < 2 ^ (Precision + k)})

Nearest(x) ==
  LET s == Spacing(x)
      below == x \div s
      rest  == 2 * (x % s)
  IN  IF rest < s \/ (rest = s /\ below % 2 = 0) THEN below * s ELSE (below + 1) * s

Representable == {x \in 0 .. MaxFrameTime : Nearest(x) = x}

-----------------------------------------------------------------------------
Init ==
  /\ running = FALSE /\ frame_time = 0 /\ left_over_time = 0
  /\ cost \in Costs /\ elapsed = 0 /\ measured = 0 /\ given = 0 /\ steps = 0

(* frame_time = getFrameTime() + left_over_time.  What getFrameTime gives   *)
(* is the time the last frame took, or more if the machine was held up.     *)
(* The steps of a frame take longer or not so long as those of the last,    *)
(* since bodies are added, collide and come to rest.                        *)
EnterLoop(dt) ==
  /\ ~ running /\ running' = TRUE
  /\ dt >= Nearest(elapsed) /\ cost' \in Costs /\ elapsed' = Drawing
  /\ measured' = dt /\ given' = dt + left_over_time
  /\ frame_time' = Nearest(dt + left_over_time)
  /\ steps' = 0
  /\ UNCHANGED left_over_time

(* Mutant: the world is stepped twice for each step_time. *)
PhysicsStep_Twice ==
  /\ running /\ frame_time > step_time
  /\ frame_time' = Nearest(frame_time - step_time)
  /\ steps' = steps + 2 /\ elapsed' = elapsed + 2 * cost
  /\ UNCHANGED <<running, left_over_time, cost, measured, given>>

(* Mutant: the step is not taken off the time of the frame. *)
PhysicsStep_NoProgress ==
  /\ running /\ frame_time > step_time
  /\ steps' = IF steps < MaxSteps THEN steps + 1 ELSE steps
  /\ UNCHANGED <<running, frame_time, left_over_time, cost, elapsed, measured, given>>

(* Mutant: the body of the loop takes a step off too. *)
PhysicsStep_TakesTwo ==
  /\ running /\ frame_time > step_time
  /\ frame_time' = Nearest(frame_time - 2 * step_time)
  /\ steps' = steps + 1 /\ elapsed' = elapsed + cost
  /\ UNCHANGED <<running, left_over_time, cost, measured, given>>

PhysicsStep ==
  /\ running /\ frame_time > step_time /\ steps < MaxSteps
  /\ frame_time' = Nearest(frame_time - step_time)
  /\ steps' = steps + 1 /\ elapsed' = elapsed + cost
  /\ UNCHANGED <<running, left_over_time, cost, measured, given>>

(* Mutant: what is left of the frame is dropped. *)
LeaveLoop_Drops ==
  /\ running /\ frame_time <= step_time
  /\ running' = FALSE /\ left_over_time' = 0
  /\ UNCHANGED <<frame_time, cost, elapsed, measured, given, steps>>

LeaveLoop ==
  /\ running /\ frame_time <= step_time
  /\ running' = FALSE
  /\ left_over_time' = frame_time
  /\ UNCHANGED <<frame_time, cost, elapsed, measured, given, steps>>

(* A paused frame, which does not call updatePhysics. *)
PausedFrame ==
  /\ ~ running /\ elapsed' = Drawing
  /\ UNCHANGED <<running, frame_time, left_over_time, cost, measured, given, steps>>

Next ==
  \/ \E dt \in Representable : EnterLoop(dt)
  \/ PhysicsStep \/ LeaveLoop \/ PausedFrame

Spec == Init /\ [][Next]_vars

(* One thread, which does nothing else meanwhile. *)
FairSpec == Spec /\ WF_vars(PhysicsStep \/ LeaveLoop)

-----------------------------------------------------------------------------
(* No time is lost or made up but for rounding: the steps and what is left *)
(* differ from what the frame had by half a Spacing an operation at most.  *)
TimeIsSpent ==
  LET left == IF running THEN frame_time ELSE left_over_time
  IN  given > 0 =>
        2 * (given - steps * step_time - left) \in
          -((steps + 1) * Spacing(given)) .. (steps + 1) * Spacing(given)

(* A frame short enough (2^((Precision + 1) / 2) steps, about 5.8 seconds  *)
(* in the code) takes the number of steps that exact arithmetic would      *)
(* take, or one more or one less: rounding does not add up to two steps.   *)
ShortFrame == given > 0 /\ given * given <= 2 ^ (Precision + 1) * step_time * step_time

StepsAreRight ==
  (~ running /\ ShortFrame) => steps - (given - 1) \div step_time \in {-1, 0, 1}

(* Nothing limits frame_time, so a frame that was held up makes the next  *)
(* one slow, which simulates all of that time.  What a frame takes is      *)
(* steady if it is no more than this: steps that take less than the time   *)
(* they simulate draw it out no further, allowing for the time carried     *)
(* over and for the step that rounding may add.                            *)
Steady(t) == t * (step_time - cost) <= (2 * cost + Drawing) * step_time

(* With such steps slowness dies out: a frame takes less than what the one *)
(* before took, unless both are steady.                                    *)
SlownessDiesOut ==
  [][(running /\ ~ running' /\ ShortFrame /\ cost < step_time) =>
       \/ elapsed' < measured
       \/ Steady(measured) /\ Steady(elapsed')]_vars

(* Nothing less will do: once steps take longer than what they simulate, a *)
(* frame after a long one takes longer still, and the next yet longer,     *)
(* since getFrameTime is not capped.                                       *)
SlownessGrows ==
  [][(running /\ ~ running' /\ ShortFrame /\ cost > step_time
       /\ measured * (cost - step_time) > (2 * cost - Drawing) * step_time) =>
       elapsed' > measured]_vars

(* Type invariant: what is carried over is at most a step. *)
TypeOK ==
  /\ running \in BOOLEAN
  /\ frame_time \in Nat /\ left_over_time \in 0 .. step_time
  /\ measured \in 0 .. MaxFrameTime /\ cost \in Costs /\ elapsed \in Nat
  /\ given \in 0 .. MaxFrameTime + step_time /\ steps \in Nat

(* The loop ends.  This is why the frame has to be short: where Spacing is *)
(* more than twice step_time, subtracting step_time changes nothing.       *)
LoopEnds == running ~> ~ running

=============================================================================
