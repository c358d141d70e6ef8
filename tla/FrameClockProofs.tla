-------------------------- MODULE FrameClockProofs --------------------------
(***************************************************************************)
(* For every precision, step and frame: the loop spends the time it was    *)
(* given, but for half a Spacing of what it was given each time it rounds, *)
(* and rounding is never off by two steps.                                 *)
(***************************************************************************)
EXTENDS FrameClock, TLAPS, WellFoundedInduction

(* Numbers that are not too large for the format. *)
Numbers == {x \in Nat : x < 2 ^ (Precision + MaxExponent)}

-----------------------------------------------------------------------------
(* A set of naturals has a least element. *)

Below == {p \in Nat \X Nat : p[1] < p[2]}

LEMMA BelowWellFounded == IsWellFoundedOn(Below, Nat)
<1>1. OpToRel(<, Nat) = Below
  BY DEF OpToRel, Below
<1> QED BY <1>1, NatLessThanWellFounded

LEMMA LeastOfNaturals ==
  ASSUME NEW T, T \subseteq Nat, T # {}
  PROVE  Min(T) \in T /\ \A y \in T : Min(T) <= y
<1>1. PICK x \in T : \A y \in T : ~ (<<y, x>> \in Below)
  BY BelowWellFounded, WFMin
<1>2. \A y \in T : x <= y
  <2> SUFFICES ASSUME NEW y \in T PROVE x <= y
    OBVIOUS
  <2>1. x \in Nat /\ y \in Nat /\ ~ (<<y, x>> \in Below)
    BY <1>1
  <2> QED BY <2>1 DEF Below
<1> QED BY <1>2 DEF Min

-----------------------------------------------------------------------------
(* Rounding. *)

(* The exponent of a number: the least with room for it. *)
LEMMA SpacingIsPower ==
  ASSUME NEW x \in Numbers
  PROVE  \E k \in 0 .. MaxExponent :
           /\ Spacing(x) = 2 ^ k /\ x < 2 ^ (Precision + k)
           /\ \A j \in 0 .. MaxExponent : x < 2 ^ (Precision + j) => k <= j
<1> DEFINE T == {k \in 0 .. MaxExponent : x < 2 ^ (Precision + k)}
<1>1. MaxExponent \in T /\ T \subseteq Nat
  BY DEF Numbers, MaxExponent
<1>2. Min(T) \in T /\ \A j \in T : Min(T) <= j
  BY <1>1, LeastOfNaturals
<1>3. Spacing(x) = 2 ^ Min(T)
  BY DEF Spacing
<1> QED BY <1>2, <1>3

LEMMA SpacingIsPositive ==
  ASSUME NEW x \in Numbers
  PROVE  Spacing(x) \in Nat \ {0} /\ x < 2 ^ Precision * Spacing(x)
<1>1. PICK k \in 0 .. MaxExponent : Spacing(x) = 2 ^ k /\ x < 2 ^ (Precision + k)
  BY SpacingIsPower
<1>2. 2 ^ k \in Nat \ {0} /\ 2 ^ (Precision + k) = 2 ^ Precision * 2 ^ k
  BY PowersAssumption
<1> QED BY <1>1, <1>2

(* Below the upper end of a number's binade nothing is coarser. *)
LEMMA SpacingGrows ==
  ASSUME NEW x \in Numbers, NEW y \in Numbers, x < 2 ^ Precision * Spacing(y)
  PROVE  Spacing(x) <= Spacing(y)
<1>1. PICK k \in 0 .. MaxExponent : Spacing(y) = 2 ^ k
  BY SpacingIsPower
<1>2. x < 2 ^ (Precision + k)
  BY <1>1, PowersAssumption
<1>3. PICK j \in 0 .. MaxExponent : Spacing(x) = 2 ^ j /\ j <= k
  BY <1>2, SpacingIsPower
<1>4. j \in 0 .. k
  BY <1>3
<1> QED BY <1>1, <1>3, <1>4, PowersAssumption

(* A number is rounded by half its spacing at most, and not past the       *)
(* upper end of its binade.                                                *)
LEMMA Rounding ==
  ASSUME NEW x \in Numbers
  PROVE  /\ Nearest(x) \in Nat
         /\ 2 * (x - Nearest(x)) \in - Spacing(x) .. Spacing(x)
         /\ Nearest(x) <= 2 ^ Precision * Spacing(x)
<1> DEFINE s == Spacing(x)
           p == 2 ^ Precision
           q == x \div s
           r == x % s
<1>1. s \in Nat \ {0} /\ x \in Nat /\ x < p * s /\ p \in Nat \ {0}
  BY SpacingIsPositive, PowersAssumption DEF Numbers
<1> HIDE DEF s, p
<1>2. q \in Nat /\ r \in 0 .. s - 1 /\ x = q * s + r
  BY <1>1
<1> HIDE DEF q, r
<1>3. Nearest(x) = IF 2 * r < s \/ (2 * r = s /\ q % 2 = 0) THEN q * s ELSE (q + 1) * s
  BY DEF Nearest, s, q, r
<1>4. q * s \in Nat /\ (q + 1) * s = q * s + s
  BY <1>1, <1>2
<1>5. (q + 1) * s <= p * s
  <2>1. q < p
    <3> SUFFICES ASSUME p <= q PROVE FALSE
      BY <1>1, <1>2
    <3>1. p * s <= q * s
      BY <1>1, <1>2
    <3> QED BY <1>1, <1>2, <1>4, <3>1
  <2> QED BY <2>1, <1>1, <1>2
<1>6. CASE 2 * r < s \/ (2 * r = s /\ q % 2 = 0)
  <2>1. Nearest(x) = q * s /\ x - Nearest(x) = r /\ 2 * r <= s
    BY <1>1, <1>2, <1>3, <1>4, <1>6
  <2> QED BY <2>1, <1>1, <1>2, <1>4, <1>5 DEF s, p
<1>7. CASE ~ (2 * r < s \/ (2 * r = s /\ q % 2 = 0))
  <2>1. Nearest(x) = q * s + s /\ x - Nearest(x) = r - s /\ s <= 2 * r
    BY <1>1, <1>2, <1>3, <1>4, <1>7
  <2> QED BY <2>1, <1>1, <1>2, <1>4, <1>5 DEF s, p
<1> QED BY <1>6, <1>7

-----------------------------------------------------------------------------
(* The inductive invariant: TimeIsSpent, with which numbers the frame time *)
(* can be.  Once it was rounded up it may be more than what was given, but *)
(* not in a coarser binade.                                                *)
Left == IF running THEN frame_time ELSE left_over_time

Spent ==
  2 * (given - steps * step_time - Left) \in
    -((steps + 1) * Spacing(given)) .. (steps + 1) * Spacing(given)

ClockInv ==
  /\ TypeOK
  /\ running => frame_time <= 2 ^ Precision * Spacing(given)
  /\ Spent

LEMMA GivenIsNumber ==
  ASSUME NEW x \in 0 .. MaxFrameTime + step_time
  PROVE  x \in Numbers
<1> DEFINE l == 2 ^ (Precision + MaxExponent)
<1>1. MaxFrameTime + step_time < l /\ l \in Nat
  <2>1. MaxExponent \in 0 .. MaxExponent
    BY DEF MaxExponent
  <2>2. 2 ^ MaxExponent \in Nat /\ 2 ^ Precision \in Nat /\ l = 2 ^ Precision * 2 ^ MaxExponent
    BY <2>1, PowersAssumption
  <2> QED BY <2>2, NumbersFit
<1> HIDE DEF l
<1>2. x \in Nat /\ x < l
  BY <1>1, FrameClockAssumption
<1> QED BY <1>2 DEF Numbers, l

LEMMA ClockInvInit == Init => ClockInv
<1> SUFFICES ASSUME Init PROVE ClockInv
  OBVIOUS
<1>1. TypeOK
  <2>1. running \in BOOLEAN
    BY DEF Init
  <2>2. /\ frame_time \in Nat /\ left_over_time \in 0 .. step_time
        /\ measured \in 0 .. MaxFrameTime /\ cost \in Costs /\ elapsed \in Nat
        /\ given \in 0 .. MaxFrameTime + step_time /\ steps \in Nat
    BY FrameClockAssumption DEF Init
  <2> QED BY <2>1, <2>2 DEF TypeOK
<1>2. Spacing(0) \in Nat \ {0}
  BY GivenIsNumber, SpacingIsPositive, FrameClockAssumption
<1>3. Spent
  BY <1>2, FrameClockAssumption DEF Init, Spent, Left
<1> QED BY <1>1, <1>3 DEF ClockInv, Init

LEMMA EnterKeepsInv ==
  ASSUME ClockInv, NEW dt \in Representable, EnterLoop(dt)
  PROVE  ClockInv'
<1> DEFINE x == dt + left_over_time
<1>1. dt \in 0 .. MaxFrameTime /\ x \in 0 .. MaxFrameTime + step_time
  BY FrameClockAssumption DEF ClockInv, TypeOK, Representable
<1>2. x \in Numbers
  BY <1>1, GivenIsNumber
<1>3. Spacing(x) \in Nat \ {0}
  BY <1>2, SpacingIsPositive
<1>4. /\ Nearest(x) \in Nat /\ 2 * (x - Nearest(x)) \in - Spacing(x) .. Spacing(x)
      /\ Nearest(x) <= 2 ^ Precision * Spacing(x)
  BY <1>2, Rounding
<1>5. given' = x /\ frame_time' = Nearest(x) /\ steps' = 0 /\ running'
  BY DEF EnterLoop
<1>6. TypeOK'
  BY <1>1, <1>4, FrameClockAssumption DEF EnterLoop, ClockInv, TypeOK
<1>7. Spent'
  <2>1. Left' = Nearest(x)
    BY <1>5 DEF Left
  <2>2. given' - steps' * step_time - Left' = x - Nearest(x) /\ (steps' + 1) * Spacing(x) = Spacing(x)
    BY <1>1, <1>3, <1>4, <1>5, <2>1, FrameClockAssumption
  <2> QED BY <1>4, <1>5, <2>2 DEF Spent
<1> QED BY <1>4, <1>5, <1>6, <1>7 DEF ClockInv

LEMMA StepKeepsInv ==
  ASSUME ClockInv, PhysicsStep
  PROVE  ClockInv'
<1> DEFINE x == frame_time - step_time
           s == Spacing(given)
           e == given - steps * step_time - frame_time
<1>0. /\ step_time \in Nat \ {0} /\ frame_time \in Nat /\ given \in Nat /\ steps \in Nat
      /\ frame_time > step_time /\ running
  BY FrameClockAssumption DEF ClockInv, TypeOK, PhysicsStep
<1>1. given \in Numbers /\ s \in Nat \ {0}
  BY GivenIsNumber, SpacingIsPositive DEF ClockInv, TypeOK
<1>2. x \in Nat /\ x < 2 ^ Precision * s
  BY <1>0, <1>1, PowersAssumption DEF ClockInv
<1>3. x \in Numbers
  <2>1. PICK k \in 0 .. MaxExponent : s = 2 ^ k
    BY <1>1, SpacingIsPower
  <2>2. s <= 2 ^ MaxExponent /\ 2 ^ MaxExponent \in Nat
        /\ 2 ^ (Precision + MaxExponent) = 2 ^ Precision * 2 ^ MaxExponent
    <3>1. MaxExponent \in 0 .. MaxExponent /\ k \in 0 .. MaxExponent
      BY DEF MaxExponent
    <3> QED BY <2>1, <3>1, PowersAssumption
  <2>3. 2 ^ Precision * s <= 2 ^ Precision * 2 ^ MaxExponent
    BY <1>1, <2>2, PowersAssumption
  <2>4. 2 ^ Precision * s \in Nat /\ 2 ^ Precision * 2 ^ MaxExponent \in Nat
    BY <1>1, <2>2, PowersAssumption
  <2> HIDE DEF x, s
  <2>5. x < 2 ^ (Precision + MaxExponent)
    BY <1>2, <2>2, <2>3, <2>4
  <2> QED BY <1>2, <2>5 DEF Numbers
<1>4. Spacing(x) \in Nat \ {0} /\ Spacing(x) <= s
  BY <1>1, <1>2, <1>3, SpacingGrows, SpacingIsPositive
<1>5. /\ Nearest(x) \in Nat /\ 2 * (x - Nearest(x)) \in - s .. s
      /\ Nearest(x) <= 2 ^ Precision * s
  <2>1. /\ Nearest(x) \in Nat /\ 2 * (x - Nearest(x)) \in - Spacing(x) .. Spacing(x)
        /\ Nearest(x) <= 2 ^ Precision * Spacing(x)
    BY <1>3, Rounding
  <2>2. 2 ^ Precision * Spacing(x) <= 2 ^ Precision * s
    BY <1>1, <1>4, PowersAssumption
  <2>3. 2 ^ Precision * Spacing(x) \in Nat /\ 2 ^ Precision * s \in Nat
    BY <1>1, <1>4, PowersAssumption
  <2> HIDE DEF x, s
  <2> QED BY <1>1, <1>2, <1>4, <2>1, <2>2, <2>3
<1>6. frame_time' = Nearest(x) /\ steps' = steps + 1 /\ given' = given /\ running'
  BY DEF PhysicsStep
<1>7. TypeOK'
  <2>1. cost' \in Costs /\ elapsed' \in Nat
    BY FrameClockAssumption DEF PhysicsStep, ClockInv, TypeOK
  <2> QED BY <1>0, <1>5, <1>6, <2>1 DEF PhysicsStep, ClockInv, TypeOK
<1>8. Spent'
  <2>1. 2 * e \in -((steps + 1) * s) .. (steps + 1) * s
    BY <1>0 DEF ClockInv, Spent, Left
  <2>2. Left' = Nearest(x) /\ Spacing(given)' = s
    BY <1>6 DEF Left, Spacing
  <2>3. steps * step_time \in Nat /\ (steps + 1) * step_time = steps * step_time + step_time
    BY <1>0
  <2>4. (steps + 1) * s \in Nat /\ (steps + 1 + 1) * s = (steps + 1) * s + s
    BY <1>0, <1>1
  <2>5. given - (steps + 1) * step_time - Nearest(x) = e + (x - Nearest(x))
    BY <1>0, <1>5, <2>3
  <2>6. e \in Int /\ x - Nearest(x) \in Int
    BY <1>0, <1>2, <1>5, <2>3
  <2> HIDE DEF x, s, e
  <2>7. 2 * (e + (x - Nearest(x))) \in -((steps + 1 + 1) * s) .. (steps + 1 + 1) * s
    BY <1>1, <1>5, <2>1, <2>4, <2>6
  <2> QED BY <1>6, <2>2, <2>5, <2>7 DEF Spent
<1> QED BY <1>5, <1>6, <1>7, <1>8 DEF ClockInv, Spacing

LEMMA LeaveKeepsInv ==
  ASSUME ClockInv, LeaveLoop
  PROVE  ClockInv'
<1>1. TypeOK'
  <2>1. running' \in BOOLEAN
    BY DEF LeaveLoop
  <2>2. frame_time \in Nat /\ frame_time <= step_time
    BY DEF ClockInv, TypeOK, LeaveLoop
  <2>3. frame_time \in 0 .. step_time
    BY <2>2, FrameClockAssumption
  <2> QED BY <2>1, <2>3 DEF ClockInv, TypeOK, LeaveLoop
<1>2. Left' = Left /\ ~ running'
  BY DEF Left, LeaveLoop
<1>3. Spent'
  BY <1>2 DEF ClockInv, Spent, LeaveLoop, Spacing
<1> QED BY <1>1, <1>2, <1>3 DEF ClockInv

LEMMA PauseKeepsInv ==
  ASSUME ClockInv, PausedFrame
  PROVE  ClockInv'
<1>1. TypeOK'
  BY FrameClockAssumption DEF ClockInv, TypeOK, PausedFrame
<1>2. UNCHANGED <<running, frame_time, given, steps>> /\ Left' = Left
  BY DEF PausedFrame, Left
<1> QED BY <1>1, <1>2 DEF ClockInv, Spent, Spacing

LEMMA ClockInvNext == ClockInv /\ [Next]_vars => ClockInv'
<1> SUFFICES ASSUME ClockInv, [Next]_vars PROVE ClockInv'
  OBVIOUS
<1>1. CASE UNCHANGED vars
  BY <1>1 DEF ClockInv, TypeOK, Spent, Left, Spacing, vars
<1>2. CASE \E dt \in Representable : EnterLoop(dt)
  BY <1>2, EnterKeepsInv
<1>3. CASE PhysicsStep
  BY <1>3, StepKeepsInv
<1>4. CASE LeaveLoop
  BY <1>4, LeaveKeepsInv
<1>5. CASE PausedFrame
  BY <1>5, PauseKeepsInv
<1> QED BY <1>1, <1>2, <1>3, <1>4, <1>5 DEF Next

(* The invariant holds of every step of updatePhysics.                     *)
THEOREM ClockInvariant == Spec => []ClockInv
  BY ClockInvInit, ClockInvNext, PTL DEF Spec

(* Never is more than a step carried over to the next frame.               *)
THEOREM TypeCorrect == Spec => []TypeOK
<1>1. ClockInv => TypeOK
  BY DEF ClockInv
<1> QED BY <1>1, ClockInvariant, PTL

(* The steps of a frame and what is left of it are the time it was given,  *)
(* but for the rounding of each operation.                                 *)
THEOREM TimeIsAccountedFor == Spec => []TimeIsSpent
<1>1. ClockInv => TimeIsSpent
  BY DEF ClockInv, Spent, Left, TimeIsSpent
<1> QED BY <1>1, ClockInvariant, PTL

-----------------------------------------------------------------------------
(* How many steps a short frame takes.  The error of a frame is a sum of   *)
(* spacings, one for each step, of smaller and smaller numbers.            *)

Room   == 2 ^ Precision
Powers == {2 ^ k : k \in 0 .. MaxExponent}

(* The spacing of a number, from both sides of its binade.                 *)
LEMMA SpacingOf ==
  ASSUME NEW x \in Numbers
  PROVE  /\ Spacing(x) \in Powers /\ x < Room * Spacing(x)
         /\ Spacing(x) = 1 \/ 2 * x >= Room * Spacing(x)
<1>1. PICK k \in 0 .. MaxExponent :
        /\ Spacing(x) = 2 ^ k /\ x < 2 ^ (Precision + k)
        /\ \A j \in 0 .. MaxExponent : x < 2 ^ (Precision + j) => k <= j
  BY SpacingIsPower
<1>2. Spacing(x) \in Powers /\ x < Room * Spacing(x)
  BY <1>1, SpacingIsPositive DEF Powers, Room
<1>3. CASE k = 0
  BY <1>1, <1>2, <1>3, PowersAssumption
<1>4. CASE k # 0
  <2>1. k - 1 \in 0 .. MaxExponent /\ ~ (k <= k - 1)
    BY <1>4 DEF MaxExponent
  <2>2. ~ (x < 2 ^ (Precision + (k - 1)))
    BY <1>1, <2>1
  <2>3. 2 ^ (Precision + (k - 1)) = Room * 2 ^ (k - 1) /\ 2 ^ k = 2 * 2 ^ (k - 1)
    BY <1>4, <2>1, PowersAssumption DEF Room
  <2>4. PICK h \in Nat : h = 2 ^ (k - 1)
    BY <2>1, PowersAssumption
  <2>5. ~ (x < Room * h) /\ Spacing(x) = 2 * h
    BY <1>1, <2>2, <2>3, <2>4
  <2>6. x \in Nat /\ Room \in Nat
    BY PowersAssumption DEF Numbers, Room
  <2>7. Room * h \in Nat /\ Room * (2 * h) = 2 * (Room * h)
    BY <2>4, <2>6
  <2> QED BY <1>2, <2>5, <2>6, <2>7
<1> QED BY <1>2, <1>3, <1>4

(* Of two powers the larger one is at least twice the smaller one.         *)
LEMMA PowersDouble ==
  ASSUME NEW a \in Powers, NEW b \in Powers
  PROVE  a \in Nat \ {0} /\ (b < a => 2 * b <= a) /\ (a # 1 => a >= 2)
<1>1. PICK j \in 0 .. MaxExponent, k \in 0 .. MaxExponent : a = 2 ^ j /\ b = 2 ^ k
  BY DEF Powers
<1>2. a \in Nat \ {0} /\ b \in Nat \ {0}
  BY <1>1, PowersAssumption
<1>3. ASSUME b < a PROVE 2 * b <= a
  <2>1. k < j
    <3> SUFFICES ASSUME j <= k PROVE FALSE
      BY <1>1
    <3>1. j \in 0 .. k
      BY <1>1
    <3> QED BY <1>1, <1>2, <1>3, <3>1, PowersAssumption
  <2>2. k + 1 \in 0 .. MaxExponent /\ k + 1 \in 0 .. j /\ k + 1 # 0 /\ (k + 1) - 1 = k
    BY <1>1, <2>1 DEF MaxExponent
  <2>3. 2 ^ (k + 1) = 2 * 2 ^ k /\ 2 ^ (k + 1) <= 2 ^ j
    BY <2>2, PowersAssumption
  <2> QED BY <1>1, <2>3
<1>4. a # 1 => a >= 2
  BY <1>2
<1> QED BY <1>2, <1>3, <1>4

(* A number below the end of a binade is not spaced more coarsely.         *)
LEMMA SpacingBelow ==
  ASSUME NEW x \in Numbers, NEW a \in Powers, x < Room * a
  PROVE  Spacing(x) <= a
<1>1. PICK k \in 0 .. MaxExponent : a = 2 ^ k
  BY DEF Powers
<1>2. x < 2 ^ (Precision + k)
  BY <1>1, PowersAssumption DEF Room
<1>3. PICK j \in 0 .. MaxExponent : Spacing(x) = 2 ^ j /\ j <= k
  BY <1>2, SpacingIsPower
<1>4. j \in 0 .. k
  BY <1>3
<1> QED BY <1>1, <1>3, <1>4, PowersAssumption

(* Rounding leaves a number in its binade, and one of the finest as it is. *)
LEMMA RoundingStays ==
  ASSUME NEW x \in Numbers
  PROVE  /\ Spacing(x) = 1 => Nearest(x) = x
         /\ Spacing(x) = 1 \/ 2 * Nearest(x) >= Room * Spacing(x)
<1>1. PICK s \in Powers : s = Spacing(x)
  BY SpacingOf
<1>2. PICK half \in Nat : half = 2 ^ (Precision - 1) /\ Room = 2 * half
  BY PowersAssumption DEF Room
<1>3. s \in Nat \ {0} /\ x \in Nat /\ (s # 1 => 2 * x >= Room * s)
  BY <1>1, SpacingOf, PowersDouble DEF Numbers
<1>4. PICK q \in Nat, r \in 0 .. s - 1 : q = x \div s /\ r = x % s /\ x = q * s + r
  BY <1>3
<1>5. Nearest(x) = IF 2 * r < s \/ (2 * r = s /\ q % 2 = 0) THEN q * s ELSE (q + 1) * s
  BY <1>1, <1>4 DEF Nearest
<1>6. CASE s = 1
  BY <1>1, <1>4, <1>5, <1>6
<1>7. CASE s # 1
  <2>1. q * s \in Nat /\ (q + 1) * s = q * s + s /\ half * s \in Nat /\ Room * s = 2 * (half * s)
    BY <1>2, <1>3, <1>4
  <2>2. half * s <= x
    BY <1>3, <1>7, <2>1
  <2>3. half <= q
    <3> SUFFICES ASSUME q + 1 <= half PROVE FALSE
      BY <1>2, <1>4
    <3>1. (q + 1) * s <= half * s
      BY <1>2, <1>3, <1>4
    <3> QED BY <1>3, <1>4, <2>1, <2>2, <3>1
  <2>4. half * s <= q * s
    BY <1>2, <1>3, <1>4, <2>3
  <2>5. Nearest(x) >= half * s /\ Nearest(x) \in Nat
    BY <1>3, <1>5, <2>1, <2>4
  <2>6. 2 * Nearest(x) >= Room * s
    BY <2>1, <2>5
  <2> QED BY <1>1, <1>7, <2>6
<1> QED BY <1>6, <1>7

-----------------------------------------------------------------------------
(* The potential of a number f that is spaced by a or ends a binade that   *)
(* is: six times the sum of the spacings below it, as an area.  Numbers    *)
(* that are spaced by one cost nothing.                                    *)
Potential(f, a) == IF a = 1 THEN 4 * Room ELSE 6 * (a * f) - 2 * (Room * (a * a))

(* f is in the binade of a, or its end. *)
InBinade(f, a) == f <= Room * a /\ (a = 1 \/ 2 * f >= Room * a)

Charge(a) == IF a = 1 THEN 0 ELSE a

(* There is room for some number.                                          *)
LEMMA RoomIsNat == Room \in Nat \ {0}
  BY PowersAssumption DEF Room

(* The potential never falls below that of the finest numbers.             *)
LEMMA PotentialLeast ==
  ASSUME NEW f \in Nat, NEW a \in Powers, InBinade(f, a)
  PROVE  Potential(f, a) \in Int /\ Potential(f, a) >= 4 * Room
<1>0. PICK p \in Nat \ {0} : p = Room
  BY RoomIsNat
<1>1. a \in Nat \ {0} /\ (a # 1 => a >= 2)
  BY PowersDouble
<1>2. CASE a = 1
  BY <1>0, <1>2 DEF Potential
<1>3. CASE a # 1
  <2>1. a >= 2 /\ 2 * f >= p * a
    BY <1>0, <1>1, <1>3 DEF InBinade
  <2>2. a * (2 * f) >= a * (p * a)
    BY <1>0, <1>1, <2>1
  <2>3. PICK v \in Nat, w \in Nat : v = a * f /\ w = p * (a * a)
    BY <1>0, <1>1
  <2>4. a * (2 * f) = 2 * v /\ a * (p * a) = w
    BY <1>0, <1>1, <2>3
  <2>5. 2 * v >= w
    BY <2>2, <2>4
  <2>6. a * a >= 4
    BY <1>1, <2>1
  <2>7. w >= p * 4
    BY <1>0, <1>1, <2>3, <2>6
  <2>8. Potential(f, a) = 6 * v - 2 * w
    BY <1>0, <1>3, <2>3 DEF Potential
  <2> QED BY <1>0, <2>3, <2>5, <2>7, <2>8
<1> QED BY <1>2, <1>3

(* Taking h off f, whose spacing is then b, and rounding by half of that,  *)
(* the potential falls by the charge of the rounding.                      *)
LEMMA PotentialFalls ==
  ASSUME NEW f \in Nat, NEW a \in Powers, InBinade(f, a),
         NEW g \in Nat, NEW b \in Powers, InBinade(g, b), b <= a,
         NEW h \in Nat, h <= f, 2 * (f - h - g) \in -b .. b
  PROVE  3 * (Charge(b) * (2 * h - b)) <= Potential(f, a) - Potential(g, b)
<1>0. PICK p \in Nat \ {0} : p = Room
  BY RoomIsNat
<1>1. /\ a \in Nat \ {0} /\ (b < a => 2 * b <= a) /\ b \in Nat \ {0}
      /\ Potential(f, a) \in Int /\ Potential(f, a) >= 4 * Room
  BY PowersDouble, PotentialLeast
<1>2. CASE b = 1
  BY <1>0, <1>1, <1>2 DEF Potential, Charge
<1>3. CASE b # 1
  <2>1. a # 1
    BY <1>1, <1>3
  <2>2. PICK af \in Nat, bf \in Nat, bg \in Nat, bh \in Nat, aa \in Nat, bb \in Nat :
           af = a * f /\ bf = b * f /\ bg = b * g /\ bh = b * h /\ aa = p * (a * a) /\ bb = p * (b * b)
    BY <1>0, <1>1
  <2>3. 6 * af - 2 * aa >= 6 * bf - 2 * bb
    <3>1. CASE a = b
      BY <2>2, <3>1
    <3>2. CASE a # b
      <4>1. b < a /\ 2 * b <= a /\ 2 * f >= p * a
        BY <1>0, <1>1, <2>1, <3>2 DEF InBinade
      <4>2. p * (2 * b) <= p * a
        BY <1>0, <1>1, <4>1
      <4>3. 6 * f - 2 * (p * (a + b)) >= 0
        BY <1>0, <1>1, <4>1, <4>2
      <4>4. PICK d \in Nat, e \in Nat : d = a - b /\ e = 6 * f - 2 * (p * (a + b))
        <5>1. PICK m \in Nat : m = p * (a + b)
          BY <1>0, <1>1
        <5>2. 6 * f - 2 * m \in Nat /\ a - b \in Nat
          BY <1>1, <4>1, <4>3, <5>1
        <5> QED BY <5>1, <5>2
      <4>5. d * e \in Nat
        BY <4>4
      <4>6. d * e = (6 * af - 2 * aa) - (6 * bf - 2 * bb)
        BY <1>0, <1>1, <2>2, <4>4
      <4> QED BY <2>2, <4>5, <4>6
    <3> QED BY <3>1, <3>2
  <2>4. 2 * bg - 2 * bf + 2 * bh <= b * b
    <3>1. PICK d \in Int : d = 2 * (f - h - g) /\ -b <= d
      BY <1>1
    <3>2. -(b * b) <= b * d
      BY <1>1, <3>1
    <3>3. b * d = 2 * bf - 2 * bh - 2 * bg
      BY <1>1, <2>2, <3>1
    <3>4. b * b \in Nat
      BY <1>1
    <3> QED BY <2>2, <3>2, <3>3, <3>4
  <2>5. Potential(f, a) = 6 * af - 2 * aa /\ Potential(g, b) = 6 * bg - 2 * bb
    BY <1>0, <1>3, <2>1, <2>2 DEF Potential
  <2>6. Charge(b) * (2 * h - b) = 2 * bh - b * b /\ b * b \in Nat
    BY <1>1, <1>3, <2>2 DEF Charge
  <2> QED BY <2>2, <2>3, <2>4, <2>5, <2>6
<1> QED BY <1>2, <1>3

-----------------------------------------------------------------------------
(* The invariant: the frame is off by what the roundings cost, a charge    *)
(* for the first and S for the steps, and S is paid for by the potential.  *)
Budget ==
  LET s == Spacing(given)
  IN  IF s = 1 THEN 4 * Room ELSE 6 * (s * given) + 3 * (s * s) - 2 * (Room * (s * s))

Paid(S, a) ==
  /\ a <= Spacing(given) /\ InBinade(Left, a)
  /\ 2 * (given - steps * step_time - Left) \in
       -(Charge(Spacing(given)) + S) .. Charge(Spacing(given)) + S
  /\ 3 * (S * (2 * step_time - Spacing(given))) <= Budget - Potential(Left, a)

StepsInv ==
  /\ ClockInv /\ measured <= given /\ given <= measured + step_time
  /\ running => elapsed = Drawing + steps * cost
  /\ \E S \in Nat, a \in Powers : Paid(S, a)

(* A charge is a spacing or nothing.                                       *)
LEMMA ChargeIsNat == ASSUME NEW a \in Powers PROVE Charge(a) \in Nat /\ Charge(a) <= a
  BY PowersDouble DEF Charge

(* Rounding costs a charge at most. *)
LEMMA RoundingCharge ==
  ASSUME NEW x \in Numbers
  PROVE  /\ Nearest(x) \in Nat /\ Spacing(x) \in Powers /\ InBinade(Nearest(x), Spacing(x))
         /\ 2 * (x - Nearest(x)) \in -Charge(Spacing(x)) .. Charge(Spacing(x))
         /\ 2 * (x - Nearest(x)) \in -Spacing(x) .. Spacing(x)
<1>1. /\ Nearest(x) \in Nat /\ Spacing(x) \in Powers /\ x \in Nat
      /\ 2 * (x - Nearest(x)) \in -Spacing(x) .. Spacing(x)
  BY Rounding, SpacingOf DEF Numbers
<1>2. InBinade(Nearest(x), Spacing(x))
  BY Rounding, RoundingStays DEF InBinade, Room
<1>3. CASE Spacing(x) = 1
  <2>1. Nearest(x) = x
    BY <1>3, RoundingStays
  <2> QED BY <1>1, <1>2, <1>3, <2>1 DEF Charge
<1>4. CASE Spacing(x) # 1
  BY <1>1, <1>2, <1>4 DEF Charge
<1> QED BY <1>3, <1>4

(* What is below the end of a binade is a number of the format.            *)
LEMMA BelowIsNumber ==
  ASSUME NEW x \in Nat, NEW a \in Powers, x < Room * a
  PROVE  x \in Numbers
<1>1. PICK k \in 0 .. MaxExponent : a = 2 ^ k
  BY DEF Powers
<1>2. MaxExponent \in 0 .. MaxExponent /\ k \in 0 .. MaxExponent
  BY DEF MaxExponent
<1>3. PICK t \in Nat : t = 2 ^ MaxExponent
  BY <1>2, PowersAssumption
<1>4. a <= t /\ 2 ^ (Precision + MaxExponent) = Room * t /\ a \in Nat
  BY <1>1, <1>2, <1>3, PowersAssumption DEF Room
<1>5. Room * a <= Room * t /\ Room * a \in Nat /\ Room * t \in Nat
  BY <1>3, <1>4, RoomIsNat
<1>6. x < 2 ^ (Precision + MaxExponent)
  BY <1>4, <1>5
<1> QED BY <1>6 DEF Numbers

(* Before the first frame nothing was spent.                               *)
LEMMA StepsInvInit == Init => StepsInv
<1> SUFFICES ASSUME Init PROVE StepsInv
  OBVIOUS
<1>1. ClockInv /\ given = 0 /\ Left = 0 /\ steps = 0 /\ measured = 0
  BY ClockInvInit DEF Init, Left
<1>2. 0 \in Numbers
  BY GivenIsNumber, FrameClockAssumption
<1>3. Spacing(0) \in Powers /\ (Spacing(0) = 1 \/ 2 * 0 >= Room * Spacing(0))
  BY <1>2, SpacingOf
<1>4. Spacing(0) = 1
  <2>1. PICK s \in Nat \ {0} : s = Spacing(0)
    BY <1>3, PowersDouble
  <2>2. PICK m \in Nat \ {0} : m = Room * s
    BY <2>1, RoomIsNat
  <2> QED BY <1>3, <2>1, <2>2
<1>5. 1 \in Powers
  BY <1>3, <1>4
<1>6. Paid(0, 1)
  <2>1. Potential(0, 1) = 4 * Room /\ Budget = 4 * Room /\ Charge(1) = 0
    BY <1>1, <1>4 DEF Potential, Budget, Charge
  <2>2. InBinade(0, 1)
    BY RoomIsNat DEF InBinade
  <2> QED BY <1>1, <1>4, <2>1, <2>2, RoomIsNat, FrameClockAssumption DEF Paid
<1>7. ~ running
  BY DEF Init
<1> QED BY <1>1, <1>5, <1>6, <1>7, FrameClockAssumption DEF StepsInv

(* The time of a frame is rounded once, before the first step.             *)
LEMMA EnterKeepsSteps ==
  ASSUME StepsInv, NEW dt \in Representable, EnterLoop(dt)
  PROVE  StepsInv'
<1>0. ClockInv' /\ dt \in 0 .. MaxFrameTime /\ left_over_time \in 0 .. step_time
  BY EnterKeepsInv DEF StepsInv, ClockInv, TypeOK, Representable
<1>1. PICK x \in 0 .. MaxFrameTime + step_time : x = dt + left_over_time
  BY <1>0, FrameClockAssumption
<1>3. x \in Numbers /\ x \in Nat
  BY GivenIsNumber, FrameClockAssumption
<1>9. PICK s \in Powers, f \in Nat : s = Spacing(x) /\ f = Nearest(x)
  BY <1>3, RoundingCharge
<1>2. given' = x /\ measured' = dt /\ steps' = 0 /\ Left' = f
  BY <1>1, <1>9 DEF EnterLoop, Left
<1>4. /\ f \in Nat /\ s \in Powers /\ s \in Nat \ {0} /\ InBinade(f, s)
      /\ 2 * (x - f) \in -Charge(s) .. Charge(s) /\ 2 * (x - f) \in -s .. s
  BY <1>3, <1>9, RoundingCharge, PowersDouble
<1>5. measured' <= given' /\ given' <= measured' + step_time
  BY <1>0, <1>1, <1>2, FrameClockAssumption
<1>6. Spacing(given)' = s
  BY <1>2, <1>9 DEF Spacing
<1>7. Potential(f, s) <= Budget' /\ Potential(f, s) \in Int /\ Budget' \in Int
  <2>1. Budget' = IF s = 1 THEN 4 * Room ELSE 6 * (s * x) + 3 * (s * s) - 2 * (Room * (s * s))
    BY <1>2, <1>6 DEF Budget, Room
  <2>2. CASE s = 1
    BY <2>1, <2>2, RoomIsNat DEF Potential
  <2>3. CASE s # 1
    <3>1. PICK sx \in Nat, sf \in Nat, ss \in Nat, w \in Nat :
            sx = s * x /\ sf = s * f /\ ss = s * s /\ w = Room * (s * s)
      BY <1>3, <1>4, RoomIsNat
    <3>2. PICK d \in Int : d = 2 * (x - f) /\ -s <= d
      BY <1>3, <1>4
    <3>3. -(s * s) <= s * d
      BY <1>4, <3>2
    <3>4. s * d = 2 * sx - 2 * sf
      BY <1>3, <1>4, <3>1, <3>2
    <3>5. 6 * sf - 2 * w <= 6 * sx + 3 * ss - 2 * w
      BY <3>1, <3>3, <3>4
    <3>6. Potential(f, s) = 6 * sf - 2 * w /\ Budget' = 6 * sx + 3 * ss - 2 * w
      BY <2>1, <2>3, <3>1 DEF Potential
    <3> QED BY <3>1, <3>5, <3>6
  <2> QED BY <2>2, <2>3
<1>8. Paid(0, s)'
  <2>1. InBinade(f, s)' /\ Potential(f, s)' = Potential(f, s) /\ Charge(s)' = Charge(s) /\ s \in Nat
    BY <1>4 DEF InBinade, Potential, Charge, Room
  <2>2. x - 0 * step_time - f = x - f /\ Charge(s) \in Nat
    BY <1>3, <1>4, ChargeIsNat, FrameClockAssumption
  <2>3. 0 * (2 * step_time - s) = 0
    BY <1>4, FrameClockAssumption
  <2>4. 2 * (given' - steps' * step_time - Left') \in -(Charge(s) + 0) .. Charge(s) + 0
    BY <1>2, <1>4, <2>2
  <2>5. 3 * (0 * (2 * step_time - s)) <= Budget' - Potential(f, s)
    BY <1>7, <2>3
  <2> QED BY <1>2, <1>4, <1>6, <2>1, <2>4, <2>5 DEF Paid
<1>10. s \in Powers'
  BY <1>4 DEF Powers
<1>11. elapsed' = Drawing + steps' * cost'
  <2>1. elapsed' = Drawing /\ steps' = 0
    BY <1>2 DEF EnterLoop
  <2>2. PICK c \in Nat : c = cost'
    BY FrameClockAssumption DEF EnterLoop
  <2>3. Drawing = Drawing + 0 * c
    BY FrameClockAssumption
  <2> QED BY <2>1, <2>2, <2>3
<1> QED BY <1>0, <1>5, <1>8, <1>10, <1>11 DEF StepsInv

(* A step is paid for by the potential it takes away.                      *)
LEMMA StepKeepsSteps ==
  ASSUME StepsInv, PhysicsStep
  PROVE  StepsInv'
<1>1. ClockInv' /\ given' = given /\ measured' = measured /\ steps' = steps + 1
  BY StepKeepsInv DEF StepsInv, PhysicsStep
<1>2. PICK S \in Nat, a \in Powers : Paid(S, a)
  BY DEF StepsInv
<1>3. /\ frame_time \in Nat /\ step_time \in Nat \ {0} /\ frame_time > step_time
      /\ Left = frame_time /\ given \in Nat /\ steps \in Nat
  BY FrameClockAssumption DEF StepsInv, ClockInv, TypeOK, PhysicsStep, Left
<1>4. PICK h \in Nat \ {0}, f \in Nat, n \in Nat, x \in Nat :
        h = step_time /\ f = frame_time /\ n = steps /\ x = f - h /\ x < f
  BY <1>3
<1>5. a \in Nat \ {0} /\ f <= Room * a /\ x < Room * a
  <2>1. PICK m \in Nat : m = Room * a /\ a \in Nat \ {0}
    BY PowersDouble, RoomIsNat
  <2> QED BY <1>2, <1>3, <1>4, <2>1 DEF Paid, InBinade
<1>6. x \in Numbers
  BY <1>5, BelowIsNumber
<1>7. PICK b \in Powers, g \in Nat : b = Spacing(x) /\ g = Nearest(x)
  BY <1>6, RoundingCharge
<1>8. /\ b <= a /\ b \in Nat \ {0} /\ InBinade(g, b)
      /\ 2 * (x - g) \in -Charge(b) .. Charge(b) /\ 2 * (x - g) \in -b .. b
  BY <1>5, <1>6, <1>7, RoundingCharge, SpacingBelow, PowersDouble
<1>9. PICK s \in Powers : s = Spacing(given) /\ s \in Nat \ {0} /\ a <= s
  <2>1. given \in Numbers
    BY GivenIsNumber DEF StepsInv, ClockInv, TypeOK
  <2> QED BY <1>2, <2>1, SpacingOf, PowersDouble DEF Paid
<1>10. PICK c \in Nat, cs \in Nat : c = Charge(b) /\ cs = Charge(s)
  BY ChargeIsNat
<1>11. Left' = g
  BY <1>4, <1>7 DEF PhysicsStep, Left
<1>12. 2 * (given - (n + 1) * h - g) \in -(cs + (S + c)) .. cs + (S + c)
  <2>1. 2 * (given - n * h - f) \in -(cs + S) .. cs + S
    BY <1>2, <1>3, <1>4, <1>9, <1>10 DEF Paid
  <2>2. PICK m \in Nat : m = n * h /\ (n + 1) * h = m + h
    BY <1>4
  <2>3. 2 * (given - (m + h) - g) = 2 * (given - m - f) + 2 * (x - g)
    BY <1>3, <1>4, <1>7, <2>2
  <2>4. 2 * (x - g) \in -c .. c
    BY <1>8, <1>10
  <2> QED BY <1>3, <1>4, <1>7, <1>10, <2>1, <2>2, <2>3, <2>4
<1>13. 3 * ((S + c) * (2 * h - s)) <= Budget - Potential(g, b)
  <2>1. 3 * (S * (2 * h - s)) <= Budget - Potential(f, a)
    BY <1>2, <1>3, <1>4, <1>9 DEF Paid
  <2>2. 2 * (f - h - g) \in -b .. b /\ h <= f /\ InBinade(f, a)
    BY <1>2, <1>3, <1>4, <1>7, <1>8 DEF Paid
  <2>3. 3 * (c * (2 * h - b)) <= Potential(f, a) - Potential(g, b)
    BY <1>4, <1>7, <1>8, <1>10, <2>2, PotentialFalls
  <2>4. Potential(f, a) \in Int /\ Potential(g, b) \in Int /\ Budget \in Int
    <3>1. Potential(f, a) \in Int /\ Potential(g, b) \in Int
      BY <1>4, <1>7, <1>8, <2>2, PotentialLeast
    <3>2. s * given \in Nat /\ s * s \in Nat /\ Room * (s * s) \in Nat /\ Room \in Nat
      BY <1>3, <1>9, RoomIsNat
    <3>3. Budget = IF s = 1 THEN 4 * Room ELSE 6 * (s * given) + 3 * (s * s) - 2 * (Room * (s * s))
      BY <1>9 DEF Budget
    <3>4. 6 * (s * given) + 3 * (s * s) - 2 * (Room * (s * s)) \in Int /\ 4 * Room \in Int
      BY <3>2
    <3> QED BY <3>1, <3>3, <3>4
  <2>5. PICK u \in Int, v \in Int : u = 2 * h - s /\ v = 2 * h - b /\ u <= v
    <3>1. PICK i \in Nat, j \in Nat, k \in Nat : i = b /\ j = s /\ k = a /\ i <= k /\ k <= j
      BY <1>5, <1>8, <1>9
    <3>2. 2 * h - s = 2 * h - j /\ 2 * h - b = 2 * h - i /\ i <= j
      BY <3>1
    <3>3. 2 * h - j \in Int /\ 2 * h - i \in Int /\ 2 * h - j <= 2 * h - i
      BY <1>4, <3>1, <3>2
    <3> QED BY <3>2, <3>3
  <2>6. c * u <= c * v
    BY <1>10, <2>5
  <2>7. c * u \in Int /\ c * v \in Int /\ S * u \in Int /\ (S + c) * u = S * u + c * u
    BY <1>10, <2>5
  <2> QED BY <2>1, <2>3, <2>4, <2>5, <2>6, <2>7
<1>14. Paid(S + c, b)'
  <2>1. Spacing(given)' = s /\ Budget' = Budget /\ steps' = n + 1
    BY <1>1, <1>4, <1>9 DEF Spacing, Budget, Room
  <2>2. b <= s
    BY <1>5, <1>8, <1>9
  <2>3. InBinade(g, b)' /\ Potential(g, b)' = Potential(g, b) /\ Charge(s)' = Charge(s)
    BY <1>8 DEF InBinade, Potential, Charge, Room
  <2> QED BY <1>1, <1>4, <1>10, <1>11, <1>12, <1>13, <2>1, <2>2, <2>3 DEF Paid, InBinade, Potential, Charge, Room
<1>15. S + c \in Nat /\ b \in Powers'
  BY <1>10 DEF Powers
<1>16. measured' <= given' /\ given' <= measured' + step_time
  BY <1>1 DEF StepsInv
<1>17. elapsed' = Drawing + steps' * cost'
  <2>1. elapsed = Drawing + steps * cost /\ elapsed' = elapsed + cost /\ cost' = cost
    BY DEF StepsInv, PhysicsStep
  <2>2. PICK w \in Nat : w = cost
    BY FrameClockAssumption DEF StepsInv, ClockInv, TypeOK
  <2>3. (Drawing + steps * w) + w = Drawing + (steps + 1) * w
    BY <1>3, FrameClockAssumption
  <2> QED BY <1>1, <2>1, <2>2, <2>3
<1> QED BY <1>1, <1>14, <1>15, <1>16, <1>17 DEF StepsInv

(* Every step of updatePhysics keeps the invariant.                        *)
LEMMA StepsInvNext == StepsInv /\ [Next]_vars => StepsInv'
<1> SUFFICES ASSUME StepsInv, [Next]_vars PROVE StepsInv'
  OBVIOUS
<1>1. CASE \E dt \in Representable : EnterLoop(dt)
  BY <1>1, EnterKeepsSteps
<1>2. CASE PhysicsStep
  BY <1>2, StepKeepsSteps
<1>3. CASE LeaveLoop \/ PausedFrame \/ UNCHANGED vars
  <2>1. ClockInv'
    BY <1>3, ClockInvNext DEF StepsInv, Next
  <2>2. UNCHANGED <<given, measured, steps>> /\ Left' = Left
    BY <1>3 DEF LeaveLoop, PausedFrame, vars, Left
  <2>3. PICK S \in Nat, a \in Powers : Paid(S, a)
    BY DEF StepsInv
  <2>4. Paid(S, a)'
    BY <2>2, <2>3 DEF Paid, Budget, Spacing, InBinade, Potential, Charge, Room
  <2>5. a \in Powers'
    BY DEF Powers
  <2>6. (\E T \in Nat, e \in Powers : Paid(T, e))'
    BY <2>4, <2>5
  <2>7. running' => elapsed' = Drawing + steps' * cost'
    BY <1>3 DEF StepsInv, LeaveLoop, PausedFrame, vars
  <2>8. measured' <= given' /\ given' <= measured' + step_time
    BY <2>2 DEF StepsInv
  <2> QED BY <2>1, <2>6, <2>7, <2>8 DEF StepsInv
<1> QED BY <1>1, <1>2, <1>3 DEF Next

(* A short frame is spaced finely compared with a step, and its potential  *)
(* is less than twelve squares of a step.                                  *)
LEMMA ShortIsFine ==
  ASSUME NEW p \in Nat, p >= 128, NEW h \in Nat \ {0}, NEW g \in Nat \ {0},
         NEW s \in Nat \ {0}, 2 * g >= p * s, g * g <= 2 * p * h * h
  PROVE  4 * s <= h /\ 6 * (s * g) - 2 * (p * (s * s)) <= 9 * (h * h)
<1>1. PICK gg \in Nat, hh \in Nat, ss \in Nat, sg \in Nat, ps \in Nat :
         gg = g * g /\ hh = h * h /\ ss = s * s /\ sg = s * g /\ ps = p * s
  OBVIOUS
<1>2. gg <= 2 * (p * hh) /\ p * hh \in Nat /\ p * ss \in Nat
  BY <1>1
<1>3. 4 * s <= h
  <2> SUFFICES ASSUME h < 4 * s PROVE FALSE
    OBVIOUS
  <2>1. hh < 16 * ss
    <3>1. h * h <= h * (4 * s)
      OBVIOUS
    <3>2. h * (4 * s) < (4 * s) * (4 * s)
      OBVIOUS
    <3>3. (4 * s) * (4 * s) = 16 * ss
      BY <1>1
    <3> QED BY <1>1, <3>1, <3>2, <3>3
  <2>2. ps * ps <= 4 * gg
    <3>1. ps * ps <= ps * (2 * g)
      BY <1>1
    <3>2. ps * (2 * g) <= (2 * g) * (2 * g)
      BY <1>1
    <3>3. (2 * g) * (2 * g) = 4 * gg
      BY <1>1
    <3>4. ps * ps \in Nat /\ ps * (2 * g) \in Nat
      BY <1>1
    <3> QED BY <1>1, <3>1, <3>2, <3>3, <3>4
  <2>3. ps * ps = p * (p * ss)
    BY <1>1
  <2>4. p * (p * ss) <= p * (8 * hh)
    <3>1. 4 * gg <= 4 * (2 * (p * hh)) /\ 4 * (2 * (p * hh)) = p * (8 * hh)
      BY <1>1, <1>2
    <3>2. ps * ps \in Nat
      BY <1>1
    <3> QED BY <1>1, <1>2, <2>2, <2>3, <3>1, <3>2
  <2>5. p * ss <= 8 * hh
    <3> SUFFICES ASSUME 8 * hh + 1 <= p * ss PROVE FALSE
      BY <1>1, <1>2
    <3>1. p * (8 * hh + 1) <= p * (p * ss)
      BY <1>1, <1>2
    <3>2. p * (8 * hh + 1) = p * (8 * hh) + p
      BY <1>1
    <3>3. p * (8 * hh) \in Nat /\ p * (p * ss) \in Nat
      BY <1>1, <1>2
    <3> QED BY <2>4, <3>1, <3>2, <3>3
  <2>6. 128 * ss <= p * ss
    BY <1>1
  <2> QED BY <1>1, <1>2, <2>1, <2>5, <2>6
<1>4. 6 * sg - 2 * (p * ss) <= 9 * hh
  <2>1. PICK d \in Int : d = 2 * ps - 3 * g
    <3>1. 2 * ps - 3 * g \in Int
      OBVIOUS
    <3> QED BY <3>1
  <2>2. d * d >= 0
    BY <2>1
  <2>3. d * d = 4 * (p * (p * ss)) - 12 * (p * sg) + 9 * gg
    BY <1>1, <2>1
  <2>4. p * (6 * sg - 2 * (p * ss)) <= p * (9 * hh)
    <3>1. p * (p * ss) \in Nat /\ p * sg \in Nat
      BY <1>1, <1>2
    <3>2. p * (6 * sg - 2 * (p * ss)) = 6 * (p * sg) - 2 * (p * (p * ss))
      BY <1>1, <1>2
    <3>3. p * (9 * hh) = 9 * (p * hh)
      BY <1>1
    <3> QED BY <1>1, <1>2, <2>2, <2>3, <3>1, <3>2, <3>3
  <2>5. PICK y \in Int : y = 6 * sg - 2 * (p * ss)
    <3>1. 6 * sg - 2 * (p * ss) \in Int
      BY <1>2
    <3> QED BY <3>1
  <2> SUFFICES ASSUME 9 * hh + 1 <= y PROVE FALSE
    BY <1>1, <2>5
  <2>6. p * (9 * hh + 1) <= p * y
    BY <1>1, <2>5
  <2>7. p * (9 * hh + 1) = p * (9 * hh) + p /\ p * (9 * hh) \in Int /\ p * y \in Int
    BY <1>1, <2>5
  <2> QED BY <2>4, <2>5, <2>6, <2>7
<1> QED BY <1>1, <1>3, <1>4

(* The errors of a short frame do not add up to a step.                    *)
LEMMA ErrorIsLess ==
  ASSUME StepsInv, ShortFrame, Room >= 128
  PROVE  2 * (given - steps * step_time - Left) \in -(2 * step_time - 1) .. 2 * step_time - 1
<1>1. PICK S \in Nat, a \in Powers : Paid(S, a)
  BY DEF StepsInv
<1>2. given \in Numbers /\ given \in Nat \ {0} /\ steps \in Nat /\ Left \in Nat
      /\ given * given <= 2 ^ (Precision + 1) * step_time * step_time
  BY GivenIsNumber DEF StepsInv, ClockInv, TypeOK, ShortFrame, Left
<1>3. PICK p \in Nat \ {0}, h \in Nat \ {0}, g \in Nat \ {0} : p = Room /\ h = step_time /\ g = given /\ p >= 128
  BY <1>2, RoomIsNat, FrameClockAssumption
<1>4. g * g <= 2 * p * h * h
  <2>1. 1 \in 0 .. MaxExponent /\ 1 # 0 /\ 0 \in 0 .. MaxExponent /\ 1 - 1 = 0
    BY DEF MaxExponent
  <2>2. 2 ^ (Precision + 1) = Room * 2 ^ 1 /\ 2 ^ 1 = 2 * 2 ^ 0 /\ 2 ^ 0 = 1
    BY <2>1, PowersAssumption DEF Room
  <2>3. 2 ^ (Precision + 1) = 2 * p
    BY <1>3, <2>2
  <2> QED BY <1>2, <1>3, <2>3
<1>5. PICK s \in Powers : s = Spacing(given) /\ s \in Nat \ {0} /\ (s = 1 \/ 2 * g >= p * s)
  BY <1>2, <1>3, SpacingOf, PowersDouble
<1>6. PICK v \in Int : v = Potential(Left, a) /\ v >= 4 * p
  BY <1>1, <1>2, <1>3, PotentialLeast DEF Paid
<1>7. PICK c \in Nat : c = Charge(s) /\ c <= s
  BY ChargeIsNat
<1>8. PICK e \in Int : e = 2 * (given - steps * step_time - Left) /\ e \in -(c + S) .. c + S
  BY <1>1, <1>5, <1>7 DEF Paid
<1>9. 3 * (S * (2 * h - s)) <= Budget - v
  BY <1>1, <1>3, <1>5, <1>6 DEF Paid
<1>10. c + S < 2 * h
  <2>1. CASE s = 1
    <3>1. Budget = 4 * p /\ c = 0
      BY <1>3, <1>5, <1>7, <2>1 DEF Budget, Charge
    <3>2. 3 * (S * (2 * h - 1)) <= 0
      BY <1>6, <1>9, <2>1, <3>1, <1>3
    <3>3. S * (2 * h - 1) >= S * 1
      BY <1>1
    <3>4. S = 0
      BY <3>2, <3>3
    <3> QED BY <3>1, <3>4
  <2>2. CASE s # 1
    <3>1. 4 * s <= h /\ 6 * (s * g) - 2 * (p * (s * s)) <= 9 * (h * h)
      BY <1>3, <1>4, <1>5, <2>2, ShortIsFine
    <3>2. Budget = 6 * (s * g) + 3 * (s * s) - 2 * (p * (s * s))
      BY <1>3, <1>5, <2>2 DEF Budget
    <3>3. PICK hh \in Nat, ss \in Nat, hs \in Nat, w \in Int :
             hh = h * h /\ ss = s * s /\ hs = h * s /\ w = 6 * (s * g) - 2 * (p * (s * s))
      <4>1. h * h \in Nat /\ s * s \in Nat /\ h * s \in Nat /\ s * g \in Nat /\ p * (s * s) \in Nat
        BY <1>5
      <4>2. 6 * (s * g) - 2 * (p * (s * s)) \in Int
        BY <4>1
      <4> QED BY <4>1, <4>2
    <3>4. 3 * (S * (2 * h - s)) <= 9 * hh + 3 * ss - 4 * p
      <4>1. Budget = w + 3 * ss
        <5>1. s * g \in Nat /\ p * (s * s) \in Nat
          BY <1>3, <1>5
        <5> QED BY <3>2, <3>3, <5>1
      <4>2. S * (2 * h - s) \in Int
        BY <1>3, <1>5
      <4> QED BY <1>3, <1>6, <1>9, <3>1, <3>3, <4>1, <4>2
    <3>5. 4 * hs <= hh
      <4>1. h * (4 * s) <= h * h
        BY <1>3, <1>5, <3>1
      <4> QED BY <1>3, <1>5, <3>3, <4>1
    <3> SUFFICES ASSUME 2 * h - s <= S PROVE FALSE
      BY <1>3, <1>5, <1>7
    <3>6. PICK u \in Nat : u = 2 * h - s
      BY <1>3, <1>5, <3>1
    <3>7. u * u <= S * u
      BY <3>6
    <3>8. u * u = 4 * hh - 4 * hs + ss
      BY <1>3, <1>5, <3>3, <3>6
    <3>9. S * u \in Nat
      BY <3>6
    <3>10. 3 * (S * u) <= 9 * hh + 3 * ss - 4 * p
      BY <3>4, <3>6
    <3> QED BY <1>3, <3>3, <3>5, <3>7, <3>8, <3>9, <3>10
  <2> QED BY <2>1, <2>2
<1> QED BY <1>3, <1>7, <1>8, <1>10

(* The steps of a short frame, from above and from below.                  *)
LEMMA StepsOfFrame ==
  ASSUME StepsInv, Left <= step_time, ShortFrame, Room >= 128
  PROVE  steps - (given - 1) \div step_time \in {-1, 0, 1}
<1>1. /\ given \in Nat \ {0} /\ steps \in Nat /\ Left \in 0 .. step_time
      /\ step_time \in Nat \ {0}
  BY FrameClockAssumption DEF StepsInv, ClockInv, TypeOK, ShortFrame, Left
<1>2. PICK g \in Nat, n \in Nat, h \in Nat \ {0}, f \in Nat :
        g = given - 1 /\ n = steps /\ h = step_time /\ f = Left /\ f <= h
  BY <1>1
<1>3. PICK k \in Nat, r \in Nat : k = g \div h /\ r = g % h /\ r < h /\ g = k * h + r
  <2>1. g \div h \in Nat /\ g % h \in 0 .. h - 1 /\ g = (g \div h) * h + (g % h)
    OBVIOUS
  <2> QED BY <2>1
<1>4. PICK nh \in Nat, kh \in Nat : nh = n * h /\ kh = k * h /\ g = kh + r
  <2>1. n * h \in Nat /\ k * h \in Nat
    OBVIOUS
  <2> QED BY <1>3, <2>1
<1>5. PICK e \in Int : e = g + 1 - nh - f /\ 2 * e <= 2 * h - 1 /\ -(2 * h - 1) <= 2 * e
  <2>1. g + 1 - nh - f = given - steps * step_time - Left /\ g + 1 - nh - f \in Int
    BY <1>1, <1>2, <1>4
  <2> QED BY <1>2, <2>1, ErrorIsLess
<1>6. nh < kh + 2 * h /\ nh > kh - 2 * h
  <2>1. e < h /\ -h < e
    BY <1>5
  <2>2. f <= h /\ r < h
    BY <1>2, <1>3
  <2>3. kh + r + 1 - nh - f = e
    <3>1. g = kh + r /\ e = g + 1 - nh - f
      BY <1>4, <1>5
    <3> QED BY <3>1
  <2> QED BY <2>1, <2>2, <2>3
<1>7. n <= k + 1
  <2> SUFFICES ASSUME k + 2 <= n PROVE FALSE
    OBVIOUS
  <2>1. (k + 2) * h <= n * h /\ (k + 2) * h = kh + 2 * h
    BY <1>2, <1>4
  <2> QED BY <1>2, <1>4, <1>6, <2>1
<1>8. n >= k - 1
  <2> SUFFICES ASSUME n + 2 <= k PROVE FALSE
    OBVIOUS
  <2>1. (n + 2) * h <= k * h /\ (n + 2) * h = nh + 2 * h
    BY <1>2, <1>4
  <2> QED BY <1>2, <1>4, <1>6, <2>1
<1>9. steps - (given - 1) \div step_time = n - k /\ n - k \in {-1, 0, 1}
  <2>1. n - k \in {-1, 0, 1}
    BY <1>7, <1>8
  <2>2. (given - 1) \div step_time = k
    BY <1>2, <1>3
  <2> QED BY <1>2, <2>1, <2>2
<1> QED BY <1>9

(* A frame that took no less than the one before is steady, and so was that.*)
LEMMA SteadyFrames ==
  ASSUME NEW c \in Nat, NEW h \in Nat, c < h, NEW dr \in Nat, NEW n \in Nat, NEW m \in Nat,
         n * h <= m + 2 * h, m <= dr + n * c
  PROVE  /\ m * (h - c) <= (2 * c + dr) * h
         /\ (dr + n * c) * (h - c) <= (2 * c + dr) * h
<1>1. PICK d \in Nat \ {0}, K \in Nat, t \in Nat :
         d = h - c /\ h = c + d /\ K = (2 * c + dr) * h /\ t = dr + n * c
  <2>1. h - c \in Nat \ {0} /\ (2 * c + dr) * h \in Nat /\ dr + n * c \in Nat
    OBVIOUS
  <2> QED BY <2>1
<1>2. h * t <= c * m + K
  <2>1. c * (n * h) <= c * (m + 2 * h)
    OBVIOUS
  <2>2. h * t = c * (n * h) + dr * h
    BY <1>1
  <2>3. c * (m + 2 * h) = c * m + 2 * c * h /\ K = 2 * c * h + dr * h
    BY <1>1
  <2>4. c * (n * h) \in Nat /\ dr * h \in Nat /\ c * m \in Nat /\ 2 * c * h \in Nat
    OBVIOUS
  <2> QED BY <2>1, <2>2, <2>3, <2>4
<1>3. m * d <= K
  <2>1. h * m <= h * t
    BY <1>1
  <2>2. h * m = c * m + m * d
    BY <1>1
  <2>3. h * m \in Nat /\ h * t \in Nat /\ c * m \in Nat /\ m * d \in Nat
    BY <1>1
  <2> QED BY <1>1, <1>2, <2>1, <2>2, <2>3
<1>4. t * d <= K
  <2>1. d * (h * t) <= d * (c * m + K)
    BY <1>1, <1>2
  <2>2. c * (m * d) <= c * K
    BY <1>1, <1>3
  <2>3. d * (h * t) = h * (t * d) /\ d * (c * m + K) = c * (m * d) + d * K /\ h * K = c * K + d * K
    BY <1>1
  <2>4. h * (t * d) <= h * K
    <3>1. d * (h * t) \in Nat /\ c * (m * d) \in Nat /\ d * K \in Nat /\ c * K \in Nat
      BY <1>1
    <3> QED BY <2>1, <2>2, <2>3, <3>1
  <2>5. PICK dt \in Nat : dt = t * d
    BY <1>1
  <2> SUFFICES ASSUME K + 1 <= dt PROVE FALSE
    BY <1>1, <2>5
  <2>6. h * (K + 1) <= h * dt /\ h * (K + 1) = h * K + h
    BY <1>1
  <2> QED BY <1>1, <2>4, <2>5, <2>6
<1> QED BY <1>1, <1>3, <1>4

(* A long frame of a slow machine is followed by a longer one.             *)
LEMMA GrowingFrames ==
  ASSUME NEW c \in Nat, NEW h \in Nat, NEW dr \in Nat, NEW n \in Nat, NEW m \in Nat,
         h < c, m <= n * h + 2 * h, m * (c - h) > (2 * c - dr) * h
  PROVE  dr + n * c > m
<1>1. PICK d \in Nat, t \in Nat, mh \in Nat, md \in Nat, ch \in Nat, rh \in Nat, nch \in Nat :
        /\ d = c - h /\ c = h + d /\ t = dr + n * c
        /\ mh = m * h /\ md = m * d /\ ch = c * h /\ rh = dr * h /\ nch = c * (n * h)
  <2>1. c - h \in Nat /\ dr + n * c \in Nat /\ m * h \in Nat /\ m * (c - h) \in Nat
        /\ c * h \in Nat /\ dr * h \in Nat /\ c * (n * h) \in Nat
    OBVIOUS
  <2> QED BY <2>1
<1>2. md > 2 * ch - rh
  <2>1. (2 * c - dr) * h = 2 * ch - rh
    BY <1>1
  <2> QED BY <1>1, <2>1
<1>3. mh + md <= nch + 2 * ch
  <2>1. c * m <= c * (n * h + 2 * h)
    OBVIOUS
  <2>2. c * m = mh + md /\ c * (n * h + 2 * h) = nch + 2 * ch
    BY <1>1
  <2> QED BY <2>1, <2>2
<1>4. t * h = nch + rh
  BY <1>1
<1>5. mh < t * h
  BY <1>1, <1>2, <1>3, <1>4
<1> SUFFICES ASSUME t <= m PROVE FALSE
  BY <1>1
<1>6. t * h <= m * h
  BY <1>1
<1> QED BY <1>1, <1>4, <1>5, <1>6

(* The invariant of whole frames.                                          *)
THEOREM FrameInvariant == Spec => []StepsInv
  BY StepsInvInit, StepsInvNext, PTL DEF Spec

(* Rounding does not add up to two steps: a frame of updatePhysics that is *)
(* short takes the steps exact arithmetic would take, or one more or less, *)
(* in every format with a mantissa of at least seven bits.                 *)
THEOREM ShortFramesTakeTheirSteps ==
  ASSUME 2 ^ Precision >= 128
  PROVE  Spec => []StepsAreRight
<1>1. StepsInv => StepsAreRight
  <2> SUFFICES ASSUME StepsInv, ~ running, ShortFrame
               PROVE  steps - (given - 1) \div step_time \in {-1, 0, 1}
    BY DEF StepsAreRight
  <2>1. Left <= step_time
    BY FrameClockAssumption DEF StepsInv, ClockInv, TypeOK, Left
  <2> QED BY <2>1, StepsOfFrame DEF Room
<1> QED BY <1>1, FrameInvariant, PTL

(* The steps of a short frame, compared with the time of the one before,  *)
(* and the time this one takes.                                            *)
LEMMA FrameTakes ==
  ASSUME StepsInv, LeaveLoop, ShortFrame, 2 ^ Precision >= 128
  PROVE  /\ steps \in Nat /\ measured \in Nat /\ measured' = measured
         /\ cost \in Nat
         /\ elapsed' = Drawing + steps * cost
         /\ steps * step_time <= measured + 2 * step_time
         /\ measured <= steps * step_time + 2 * step_time
<1>1. Left <= step_time
  BY DEF LeaveLoop, Left
<1>2. /\ measured' = measured /\ cost \in Nat
      /\ elapsed' = Drawing + steps * cost
  BY FrameClockAssumption DEF LeaveLoop, StepsInv, ClockInv, TypeOK
<1>3. /\ given \in Nat \ {0} /\ steps \in Nat /\ measured \in Nat
      /\ measured <= given /\ given <= measured + step_time /\ step_time \in Nat \ {0}
  BY FrameClockAssumption DEF StepsInv, ClockInv, TypeOK, ShortFrame
<1>4. PICK g \in Nat, n \in Nat, h \in Nat \ {0}, m \in Nat :
        g = given - 1 /\ n = steps /\ h = step_time /\ m = measured /\ g < m + h /\ m <= g + 1
  BY <1>3
<1>5. PICK q \in Nat, r \in Nat : q = g \div h /\ r < h /\ g = q * h + r
  <2>1. g \div h \in Nat /\ g % h \in 0 .. h - 1 /\ g = (g \div h) * h + (g % h)
    OBVIOUS
  <2> QED BY <2>1
<1>6. n <= q + 1 /\ q <= n + 1
  <2>1. steps - (given - 1) \div step_time \in {-1, 0, 1}
    BY <1>1, StepsOfFrame DEF Room
  <2>2. n - q \in {-1, 0, 1}
    BY <1>4, <1>5, <2>1
  <2> QED BY <2>2
<1>7. n * h <= q * h + h /\ q * h <= n * h + h /\ q * h \in Nat /\ n * h \in Nat
  <2>1. n * h <= (q + 1) * h /\ (q + 1) * h = q * h + h
    BY <1>6
  <2>2. q * h <= (n + 1) * h /\ (n + 1) * h = n * h + h
    BY <1>6
  <2> QED BY <2>1, <2>2
<1>8. n * h <= m + 2 * h /\ m <= n * h + 2 * h
  BY <1>4, <1>5, <1>7
<1> QED BY <1>2, <1>3, <1>4, <1>8

(* Only LeaveLoop ends a frame.                                            *)
LEMMA LeavingEnds == [Next]_vars /\ running /\ ~ running' => LeaveLoop
  BY DEF Next, vars, EnterLoop, PhysicsStep, PausedFrame

(* On a machine that steps faster than time passes, a slow frame is        *)
(* followed by a faster one until frames are steady, although              *)
(* updatePhysics simulates all of the time of the one before.              *)
THEOREM SlowFramesGetFaster ==
  ASSUME 2 ^ Precision >= 128
  PROVE  Spec => SlownessDiesOut
<1>1. ASSUME StepsInv, [Next]_vars, running, ~ running', ShortFrame, cost < step_time
      PROVE  elapsed' < measured \/ (Steady(measured) /\ Steady(elapsed'))
  <2>1. LeaveLoop
    BY <1>1, LeavingEnds
  <2>2. /\ steps \in Nat /\ measured \in Nat /\ measured' = measured /\ cost \in Nat
        /\ elapsed' = Drawing + steps * cost
        /\ steps * step_time <= measured + 2 * step_time
    BY <1>1, <2>1, FrameTakes
  <2> QED BY <1>1, <2>2, SteadyFrames, FrameClockAssumption DEF Steady
<1>2. StepsInv /\ [Next]_vars =>
       [(running /\ ~ running' /\ ShortFrame /\ cost < step_time) =>
          \/ elapsed' < measured
          \/ Steady(measured) /\ Steady(elapsed')]_vars
  BY <1>1
<1> QED BY <1>2, FrameInvariant, PTL DEF Spec, SlownessDiesOut

(* On one that steps more slowly, a long frame is followed by a longer one.*)
THEOREM SlowMachinesRunAway ==
  ASSUME 2 ^ Precision >= 128
  PROVE  Spec => SlownessGrows
<1>1. ASSUME StepsInv, [Next]_vars, running, ~ running', ShortFrame, cost > step_time,
             measured * (cost - step_time) > (2 * cost - Drawing) * step_time
      PROVE  elapsed' > measured
  <2>1. LeaveLoop
    BY <1>1, LeavingEnds
  <2>2. /\ steps \in Nat /\ measured \in Nat /\ measured' = measured /\ cost \in Nat
        /\ elapsed' = Drawing + steps * cost
        /\ measured <= steps * step_time + 2 * step_time
    BY <1>1, <2>1, FrameTakes
  <2> QED BY <1>1, <2>2, GrowingFrames, FrameClockAssumption
<1>2. StepsInv /\ [Next]_vars =>
       [(running /\ ~ running' /\ ShortFrame /\ cost > step_time
           /\ measured * (cost - step_time) > (2 * cost - Drawing) * step_time) =>
          elapsed' > measured]_vars
  BY <1>1
<1> QED BY <1>2, FrameInvariant, PTL DEF Spec, SlownessGrows
=============================================================================
