---------------------------- MODULE MCFrameClock ----------------------------
(* FrameClock for TLC, with an assumption on how far rounding lets it go.  *)
EXTENDS FrameClock

(* Every frame of the model is short enough for each step to make progress.*)
ASSUME EachStepCounts ==
  \A x \in Representable : x > step_time => Nearest(x - step_time) < x

(* A frame of 2^(Precision + 1) steps or more would never end.             *)
ASSUME LongFramesHang ==
  \A x \in {2 ^ (Precision + k) * step_time : k \in 1 .. 3} :
    Nearest(x) - step_time < x /\ Nearest(Nearest(x) - step_time) = Nearest(x)
=============================================================================
