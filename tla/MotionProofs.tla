----------------------------- MODULE MotionProofs -----------------------------
(***************************************************************************)
(* Proofs about the firmware's motion control, for all commands, distances, *)
(* angles and speeds, and any number of interrupts between steps that the  *)
(* module's assumption allows.                                             *)
(***************************************************************************)
EXTENDS Motion, TLAPS

(* The low byte of a counter.                                               *)
LEMMA LowByte ==
  ASSUME NEW n \in Nat
  PROVE  /\ n % ByteBase \in Nat /\ n % ByteBase < ByteBase /\ n \div ByteBase \in Nat
         /\ n = ByteBase * (n \div ByteBase) + (n % ByteBase)
BY MotionAssumption

(* Two multiples of ByteBase less than two bytes apart.                     *)
LEMMA Multiples ==
  ASSUME NEW p \in Nat, NEW q \in Nat,
         ByteBase * q - ByteBase * p < 2 * ByteBase, ByteBase * q - ByteBase * p > -ByteBase
  PROVE  q = p \/ q = p + 1
<1>1. \A k \in Nat : ByteBase * (p + k) = ByteBase * p + ByteBase * k
                    /\ ByteBase * (q + k) = ByteBase * q + ByteBase * k
  BY MotionAssumption
<1>2. \A k \in Nat : ByteBase * (k + 1) = ByteBase * k + ByteBase /\ ByteBase * k \in Nat
  BY MotionAssumption
<1>3. CASE q >= p + 2
  <2>1. PICK k \in Nat : q = p + (k + 2)
    <3>1. q - p - 2 \in Nat /\ q = p + ((q - p - 2) + 2)
      BY <1>3
    <3> QED
      BY <3>1
  <2>2. ByteBase * q = ByteBase * p + ByteBase * (k + 2)
    BY <1>1, <2>1
  <2>3. ByteBase * (k + 2) = ByteBase * k + 2 * ByteBase /\ ByteBase * k \in Nat
    BY MotionAssumption
  <2> QED
    BY <1>2, <2>2, <2>3, MotionAssumption
<1>4. CASE q < p
  <2>1. PICK k \in Nat : p = q + (k + 1)
    <3>1. p - q - 1 \in Nat /\ p = q + ((p - q - 1) + 1)
      BY <1>4
    <3> QED
      BY <3>1
  <2>2. ByteBase * p = ByteBase * q + ByteBase * (k + 1)
    BY <1>1, <2>1
  <2> QED
    BY <1>2, <2>1, <2>2, MotionAssumption
<1> QED
  BY <1>3, <1>4

(* A read that an interrupt falls into yields the old value or, if the      *)
(* interrupt carries into the next byte, a byte more.                       *)
LEMMA SeenOldOrByteMore ==
  ASSUME NEW old \in Nat, NEW new \in Nat, old <= new, new < old + ByteBase
  PROVE  Seen(old, new) = old \/ Seen(old, new) = old + ByteBase
<1>1. /\ old = ByteBase * (old \div ByteBase) + (old % ByteBase)
      /\ new = ByteBase * (new \div ByteBase) + (new % ByteBase)
      /\ old % ByteBase \in Nat /\ old % ByteBase < ByteBase /\ old \div ByteBase \in Nat
      /\ new % ByteBase \in Nat /\ new % ByteBase < ByteBase /\ new \div ByteBase \in Nat
  BY LowByte
<1> DEFINE p == old \div ByteBase
           q == new \div ByteBase
<1>2. ByteBase * p \in Nat /\ ByteBase * q \in Nat
  BY <1>1, MotionAssumption
<1> HIDE DEF p, q
<1>3. q = p \/ q = p + 1
  <2>1. ByteBase * q - ByteBase * p < 2 * ByteBase /\ ByteBase * q - ByteBase * p > -ByteBase
    BY <1>1, <1>2, MotionAssumption DEF p, q
  <2>2. p \in Nat /\ q \in Nat
    BY <1>1 DEF p, q
  <2> QED
    BY <2>1, <2>2, Multiples
<1>4. Seen(old, new) = ByteBase * q + (old % ByteBase)
  BY <1>1, <1>2, MotionAssumption DEF Seen, q
<1>5. CASE q = p
  BY <1>1, <1>4, <1>5 DEF p
<1>6. CASE q = p + 1
  <2>1. ByteBase * q = ByteBase * p + ByteBase
    BY <1>1, <1>6, MotionAssumption DEF p
  <2> QED
    BY <1>1, <1>2, <1>4, <2>1, MotionAssumption DEF p
<1> QED
  BY <1>3, <1>5, <1>6

LEMMA SeenNat ==
  ASSUME NEW old \in Nat, NEW new \in Nat
  PROVE  Seen(old, new) \in Nat
BY LowByte, MotionAssumption DEF Seen

(* The odometer: a distance, nothing within the first revolution, never     *)
(* decreasing.                                                              *)
LEMMA Odometer ==
  /\ \A t \in Nat : DistOf(t) \in Nat
  /\ \A t \in 0 .. COUNTS_PER_REV - 1 : DistOf(t) = 0
  /\ \A s, t \in Nat : s <= t => DistOf(s) <= DistOf(t)
BY DEF DistOf, COUNTS_PER_REV

(* One interrupt adds a revolution to it at most.                           *)
LEMMA OdometerStep ==
  ASSUME NEW t \in Nat
  PROVE  DistOf(t + 1) <= DistOf(t) + 22
BY DEF DistOf, COUNTS_PER_REV

(* The odometer having passed its start by more than D, the wheel has       *)
(* turned as far but for less than a revolution.                            *)
LEMMA OdometerVersusWheel ==
  ASSUME NEW t \in Nat, NEW m \in Nat, m <= t, NEW k \in Nat, k >= m,
         NEW D \in Int, DistOf(t) > DistOf(t - m) + D
  PROVE  Travelled(k + COUNTS_PER_REV) > D
BY SMTT(60) DEF DistOf, Travelled, COUNTS_PER_REV

(* What a command asks for is a number.                                     *)
LEMMA Amounts ==
  /\ \A d \in Nat : DistanceOf(d) \in Nat /\ DistanceOf(d) > 0
  /\ \A ang \in Nat : TicksOf(ang) \in Nat
  /\ \A speed \in Nat : Duty(speed) \in 0 .. 255
BY DEF DistanceOf, TicksOf, Duty, Unbounded, computeDeltaTicks

CountersOK ==
  /\ leftTicks \in [Directions -> Nat] /\ rightTicks \in [Directions -> Nat]
  /\ dist \in [Moves -> Nat]

(* The counters keep their type through an interrupt.                       *)
LEMMA TickType ==
  ASSUME CountersOK, LeftTick \/ RightTick \/ UNCHANGED counters
  PROVE  CountersOK'
<1>1. CASE LeftTick
  <2>1. leftTicks[dir] + 1 \in Nat /\ DistOf(leftTicks[dir] + 1) \in Nat
    BY <1>1, Odometer DEF CountersOK, LeftTick
  <2> QED
    BY <1>1, <2>1 DEF CountersOK, LeftTick
<1>2. CASE RightTick
  BY <1>2 DEF CountersOK, RightTick
<1>3. CASE UNCHANGED counters
  BY <1>3 DEF CountersOK, counters
<1> QED
  BY <1>1, <1>2, <1>3

(* The steps of loop() that are not a command. *)
LEMMA LoopActions ==
  ASSUME Next
  PROVE  \/ leftISR \/ rightISR
         \/ ReadNothing \/ StopCommand \/ GetStats \/ ClearTicks
         \/ \E d \in Nat, speed \in Nat :
              Move("FORWARD", "FORWARD", d, speed) \/ Move("REVERSE", "BACKWARD", d, speed)
         \/ \E ang \in Nat, speed \in Nat :
              Turn("TURN_LEFT", "LEFT", ang, speed) \/ Turn("TURN_RIGHT", "RIGHT", ang, speed)
         \/ Drive \/ StatusDistances \/ ClearDistances
         \/ CheckMove \/ (\E d \in Turns : CheckTurn(d)) \/ CheckStopped \/ CheckNothing
BY MotionAssumption DEF Next, loop, handleCommand, Turns

-----------------------------------------------------------------------------
(* Type correctness.                                                        *)

LEMMA MoveType ==
  ASSUME TypeOK, NEW c, NEW direction \in Moves, NEW d \in Nat, NEW speed \in Nat,
         Move(c, direction, d, speed)
  PROVE  TypeOK'
<1>1. CountersOK /\ CountersOK'
  BY TickType DEF Move, ReadLeft, TypeOK, CountersOK
<1>2. newDist' \in Nat /\ deltaDist' \in Nat /\ Duty(speed) \in 0 .. 255
  <2>1. dist[direction] \in Nat /\ dist'[direction] \in Nat
    BY <1>1 DEF CountersOK
  <2>2. Seen(dist[direction], dist'[direction]) \in Nat
    BY <2>1, SeenNat
  <2>3. /\ newDist' = Seen(dist[direction], dist'[direction]) + DistanceOf(d)
        /\ deltaDist' = DistanceOf(d)
    BY DEF Move, Target
  <2>4. DistanceOf(d) \in Nat /\ Duty(speed) \in 0 .. 255
    BY Amounts
  <2> QED
    BY <2>2, <2>3, <2>4
<1>3. moved' \in Nat
  BY DEF Move, Ticked
<1>4. excess' \in Int
  <2>1. dist[direction] \in Nat /\ dist'[direction] \in Nat
    BY <1>1 DEF CountersOK
  <2>2. Seen(dist[direction], dist'[direction]) \in Nat
    BY <2>1, SeenNat
  <2> QED
    BY <2>1, <2>2 DEF Move, Misread
<1> QED
  BY <1>1, <1>2, <1>3, <1>4, MotionAssumption
  DEF TypeOK, CountersOK, Move, LoopStep, Receive, Directions, COUNTS_PER_REV

LEMMA TurnType ==
  ASSUME TypeOK, NEW c, NEW direction \in Turns, NEW ang \in Nat, NEW speed \in Nat,
         Turn(c, direction, ang, speed)
  PROVE  TypeOK'
<1>1. CountersOK /\ CountersOK'
  BY TickType DEF Turn, ReadWheel, ReadLeft, ReadRight, TypeOK, CountersOK
<1>2. targetTicks' \in Nat /\ deltaTicks' \in Nat /\ Duty(speed) \in 0 .. 255
  <2>1. /\ leftTicks[direction] \in Nat /\ leftTicks'[direction] \in Nat
        /\ rightTicks[direction] \in Nat /\ rightTicks'[direction] \in Nat
    BY <1>1 DEF CountersOK, Directions
  <2>2. Turned(direction) \in Nat
    BY <2>1, SeenNat DEF Turned
  <2>3. targetTicks' = Turned(direction) + TicksOf(ang) /\ deltaTicks' = TicksOf(ang)
    BY DEF Turn, Target
  <2>4. TicksOf(ang) \in Nat /\ Duty(speed) \in 0 .. 255
    BY Amounts
  <2> QED
    BY <2>2, <2>3, <2>4
<1>3. moved' \in Nat
  BY DEF Turn, Ticked, TypeOK
<1> QED
  BY <1>1, <1>2, <1>3, MotionAssumption
  DEF TypeOK, CountersOK, Turn, LoopStep, Receive, Directions, COUNTS_PER_REV

LEMMA ReportType ==
  ASSUME TypeOK, GetStats \/ StatusDistances
  PROVE  TypeOK'
<1>1. CountersOK /\ CountersOK'
  BY TickType DEF GetStats, StatusDistances, ReadLeft, TypeOK, CountersOK
<1>2. status' \in [ticks : [Moves -> Nat], dist : [Moves -> Nat]]
  <2>1. CASE GetStats
    <3>1. \A d \in Moves : Seen(leftTicks[d], leftTicks'[d]) \in Nat
      BY <1>1, SeenNat DEF CountersOK, Directions
    <3> QED
      BY <2>1, <3>1 DEF GetStats, NoDist
  <2>2. CASE StatusDistances
    <3>1. \A d \in Moves : Seen(dist[d], dist'[d]) \in Nat
      BY <1>1, SeenNat DEF CountersOK
    <3> QED
      BY <2>2, <3>1 DEF StatusDistances, TypeOK
  <2> QED
    BY <2>1, <2>2
<1>3. moved' \in Nat
  BY DEF GetStats, StatusDistances, Ticked, TypeOK
<1>4. budget' \in 0 .. TicksPerStep
  BY MotionAssumption DEF GetStats, StatusDistances, LoopStep, COUNTS_PER_REV
<1>5. /\ dir' = dir /\ pwm' = pwm /\ order' = order /\ targets' = targets
      /\ excess' = excess /\ pc' \in {"status", "check"} /\ sent' \in Nat
  BY DEF GetStats, StatusDistances, LoopStep, Receive, TypeOK
<1> QED
  BY <1>1, <1>2, <1>3, <1>4, <1>5 DEF TypeOK, CountersOK, targets

LEMMA CheckType ==
  ASSUME TypeOK, CheckMove \/ \E d \in Turns : CheckTurn(d)
  PROVE  TypeOK'
<1>1. CountersOK /\ CountersOK'
  BY TickType DEF CheckMove, CheckTurn, ReadWheel, ReadLeft, ReadRight, TypeOK, CountersOK
<1>2. moved' \in Nat
  BY DEF CheckMove, CheckTurn, Ticked, history, TypeOK
<1>3. /\ dir' \in Directions \cup {"STOP"} /\ pwm' \in 0 .. 255
      /\ deltaDist' \in Nat /\ newDist' \in Nat
      /\ deltaTicks' \in Nat /\ targetTicks' \in Nat
  BY DEF CheckMove, CheckTurn, stop, TypeOK
<1> QED
  BY <1>1, <1>2, <1>3, MotionAssumption
  DEF TypeOK, CountersOK, CheckMove, CheckTurn, LoopStep, history, COUNTS_PER_REV

LEMMA InterruptType ==
  ASSUME TypeOK, leftISR \/ rightISR
  PROVE  TypeOK'
<1>1. CountersOK /\ CountersOK'
  BY TickType DEF leftISR, rightISR, TypeOK, CountersOK
<1>2. budget' \in 0 .. TicksPerStep /\ moved' \in Nat
  BY MotionAssumption DEF leftISR, rightISR, history, TypeOK, COUNTS_PER_REV
<1> QED
  BY <1>1, <1>2 DEF TypeOK, CountersOK, leftISR, rightISR, targets, history

LEMMA OtherType ==
  ASSUME TypeOK,
         \/ ReadNothing \/ StopCommand \/ ClearTicks \/ Drive
         \/ ClearDistances \/ CheckStopped \/ CheckNothing
  PROVE  TypeOK'
<1>1. TicksPerStep \in 0 .. TicksPerStep
  BY MotionAssumption DEF COUNTS_PER_REV
<1>2. Zero \in [Directions -> Nat] /\ NoDist \in [Moves -> Nat]
  BY DEF Zero, NoDist
<1>3. CASE ReadNothing \/ CheckNothing
  BY <1>1, <1>3 DEF TypeOK, ReadNothing, CheckNothing, LoopStep, counters, targets, history
<1>4. CASE StopCommand \/ CheckStopped
  BY <1>1, <1>4 DEF TypeOK, StopCommand, CheckStopped, LoopStep, Receive, stop, counters, targets, history
<1>5. CASE ClearTicks \/ ClearDistances
  <2>1. excess' \in Int /\ moved' \in Nat
    BY <1>5 DEF ClearTicks, ClearDistances, history, TypeOK
  <2> QED
    BY <1>1, <1>2, <1>5, <2>1
    DEF TypeOK, ClearTicks, ClearDistances, LoopStep, Receive, targets, history
<1>6. CASE Drive
  BY <1>1, <1>6 DEF TypeOK, Drive, LoopStep, counters, targets, history
<1> QED
  BY <1>3, <1>4, <1>5, <1>6

LEMMA InitType == Init => TypeOK
BY MotionAssumption DEF Init, TypeOK, Zero, NoDist, COUNTS_PER_REV

LEMMA NextType == TypeOK /\ [Next]_vars => TypeOK'
<1> SUFFICES ASSUME TypeOK, [Next]_vars PROVE TypeOK'
  OBVIOUS
<1>1. CASE Next
  BY <1>1, LoopActions, MoveType, TurnType, ReportType, CheckType, InterruptType,
     OtherType DEF Moves, Turns
<1>2. CASE UNCHANGED vars
  BY <1>2 DEF vars, counters, targets, history, TypeOK
<1> QED
  BY <1>1, <1>2

(* The counters, the targets and the duty keep their types.                 *)
THEOREM TypeCorrect == Spec => []TypeOK
<1> QED
  BY InitType, NextType, PTL DEF Spec

-----------------------------------------------------------------------------
(* The odometers and the tick counters.                                     *)

(* An interrupt recomputes the odometer from the counter it advances.       *)
LEMMA TickTracks ==
  ASSUME CountersOK, LeftTick \/ RightTick \/ UNCHANGED counters,
         NEW d \in Moves, dist[d] = DistOf(leftTicks[d])
  PROVE  dist'[d] = DistOf(leftTicks'[d])
BY DEF CountersOK, LeftTick, RightTick, counters, Directions

LEMMA NextOdometer == OdometerInv /\ [Next]_vars => OdometerInv'
<1> SUFFICES ASSUME OdometerInv, [Next]_vars PROVE OdometerInv'
  OBVIOUS
<1>1. TypeOK' /\ CountersOK
  BY NextType DEF OdometerInv, TypeOK, CountersOK
<1>2. SUFFICES DistTracksTicks' /\ ClearIsQuick'
  BY <1>1 DEF OdometerInv
<1>3. CASE pc # "clear" /\ pc' # "clear"
             /\ (LeftTick \/ RightTick \/ UNCHANGED counters)
  BY <1>1, <1>3, TickTracks DEF OdometerInv, DistTracksTicks, ClearIsQuick
<1>4. CASE leftISR
  <2>1. CASE pc = "clear"
    <3>1. \A d \in Moves : leftTicks'[d] + budget' <= TicksPerStep
      BY <1>4, <2>1, MotionAssumption
      DEF leftISR, LeftTick, OdometerInv, ClearIsQuick, TypeOK, Directions, COUNTS_PER_REV
    <3> QED
      BY <1>4, <2>1, <3>1 DEF leftISR, DistTracksTicks, ClearIsQuick
  <2> QED
    BY <1>3, <1>4, <2>1 DEF leftISR
<1>5. CASE rightISR
  <2>1. CASE pc = "clear"
    <3>1. \A d \in Moves : leftTicks'[d] + budget' <= TicksPerStep
      BY <1>5, <2>1, MotionAssumption
      DEF rightISR, RightTick, OdometerInv, ClearIsQuick, TypeOK, Directions, COUNTS_PER_REV
    <3> QED
      BY <1>5, <2>1, <3>1 DEF rightISR, DistTracksTicks, ClearIsQuick
  <2> QED
    BY <1>3, <1>5, <2>1 DEF rightISR
<1>6. CASE ClearTicks
  <2>1. pc' = "clear" /\ budget' = TicksPerStep /\ \A d \in Moves : leftTicks'[d] = 0
    BY <1>6 DEF ClearTicks, LoopStep, Zero, Directions
  <2> QED
    BY <2>1, MotionAssumption DEF DistTracksTicks, ClearIsQuick, COUNTS_PER_REV
<1>7. CASE ClearDistances
  <2>1. /\ pc = "clear" /\ pc' = "check" /\ leftTicks' = leftTicks
        /\ \A d \in Moves : dist'[d] = 0
    BY <1>7 DEF ClearDistances, LoopStep, NoDist
  <2>2. \A d \in Moves : leftTicks[d] \in 0 .. COUNTS_PER_REV - 1
    <3> SUFFICES ASSUME NEW d \in Moves PROVE leftTicks[d] \in 0 .. COUNTS_PER_REV - 1
      OBVIOUS
    <3>1. leftTicks[d] \in Nat /\ budget \in Nat
      BY MotionAssumption DEF OdometerInv, TypeOK, Directions, COUNTS_PER_REV
    <3>2. leftTicks[d] + budget <= TicksPerStep
      BY <2>1 DEF OdometerInv, ClearIsQuick
    <3> QED
      BY <3>1, <3>2, MotionAssumption DEF COUNTS_PER_REV
  <2> QED
    BY <2>1, <2>2, Odometer DEF DistTracksTicks, ClearIsQuick
<1>8. CASE \/ ReadNothing \/ StopCommand \/ GetStats
           \/ \E d \in Nat, speed \in Nat :
                Move("FORWARD", "FORWARD", d, speed) \/ Move("REVERSE", "BACKWARD", d, speed)
           \/ \E ang \in Nat, speed \in Nat :
                Turn("TURN_LEFT", "LEFT", ang, speed) \/ Turn("TURN_RIGHT", "RIGHT", ang, speed)
           \/ Drive \/ StatusDistances
           \/ CheckMove \/ (\E d \in Turns : CheckTurn(d)) \/ CheckStopped \/ CheckNothing
  <2>1. pc # "clear" /\ pc' # "clear"
    BY <1>8 DEF ReadNothing, StopCommand, GetStats, Move, Turn, Drive, StatusDistances,
                CheckMove, CheckTurn, CheckStopped, CheckNothing, LoopStep
  <2>2. LeftTick \/ RightTick \/ UNCHANGED counters
    BY <1>8 DEF ReadNothing, StopCommand, GetStats, Move, Turn, Drive, StatusDistances,
                CheckMove, CheckTurn, CheckStopped, CheckNothing,
                ReadWheel, ReadLeft, ReadRight
  <2> QED
    BY <1>3, <2>1, <2>2
<1>9. CASE UNCHANGED vars
  BY <1>9 DEF vars, counters, OdometerInv, DistTracksTicks, ClearIsQuick
<1> QED
  BY <1>4, <1>5, <1>6, <1>7, <1>8, <1>9, LoopActions

LEMMA InitOdometer == Init => OdometerInv
BY InitType, Odometer, MotionAssumption
DEF Init, OdometerInv, DistTracksTicks, ClearIsQuick, Zero, NoDist, Directions, COUNTS_PER_REV

(* CLEAR_STATS and the interrupts together never leave an odometer that     *)
(* disagrees with its tick counter.                                         *)
THEOREM OdometersAgree == Spec => []DistTracksTicks
<1>1. OdometerInv => DistTracksTicks
  BY DEF OdometerInv
<1> QED
  BY <1>1, InitOdometer, NextOdometer, PTL DEF Spec

-----------------------------------------------------------------------------
(* The distance of a move.                                                  *)

(* A counter goes up by one interrupt at most, and its odometer by less     *)
(* than a byte.                                                             *)
LEMMA TickSteps ==
  ASSUME CountersOK, LeftTick \/ RightTick \/ UNCHANGED counters, NEW d \in Moves
  PROVE  /\ leftTicks[d] \in Nat /\ leftTicks'[d] \in {leftTicks[d], leftTicks[d] + 1}
         /\ dir # d => leftTicks'[d] = leftTicks[d]
BY DEF CountersOK, LeftTick, RightTick, counters, Directions

(* So a read yields the odometer's value or a byte more.                    *)
LEMMA ReadingOldOrByteMore ==
  ASSUME CountersOK, LeftTick \/ RightTick \/ UNCHANGED counters,
         NEW d \in Moves, dist[d] = DistOf(leftTicks[d])
  PROVE  /\ dist[d] \in Nat
         /\ \/ Seen(dist[d], dist'[d]) = dist[d]
            \/ Seen(dist[d], dist'[d]) = dist[d] + ByteBase
<1>1. leftTicks[d] \in Nat /\ leftTicks'[d] \in {leftTicks[d], leftTicks[d] + 1}
  BY TickSteps
<1>2. dist'[d] = DistOf(leftTicks'[d])
  BY TickTracks
<1>3. dist[d] \in Nat /\ dist'[d] \in Nat /\ dist[d] <= dist'[d] /\ dist'[d] <= dist[d] + 22
  <2>1. CASE leftTicks'[d] = leftTicks[d]
    BY <1>1, <1>2, <2>1, Odometer
  <2>2. CASE leftTicks'[d] = leftTicks[d] + 1
    <3>1. DistOf(leftTicks[d]) \in Nat /\ DistOf(leftTicks'[d]) \in Nat
      BY <1>1, Odometer
    <3>2. DistOf(leftTicks[d]) <= DistOf(leftTicks'[d])
      BY <1>1, <2>2, Odometer
    <3>3. DistOf(leftTicks'[d]) <= DistOf(leftTicks[d]) + 22
      BY <1>1, <2>2, OdometerStep
    <3> QED
      BY <1>2, <3>1, <3>2, <3>3
  <2> QED
    BY <1>1, <2>1, <2>2
<1>4. dist'[d] < dist[d] + ByteBase
  BY <1>3, MotionAssumption
<1> QED
  BY <1>3, <1>4, SeenOldOrByteMore

(* Every interrupt counted by the odometer of the move is counted in moved. *)
LEMMA TickKeepsTarget ==
  ASSUME CountersOK, moved \in Nat, NEW d \in Moves,
         TargetIsStartPlusDistance(d),
         LeftTick \/ RightTick \/ UNCHANGED counters,
         moved' = moved + Ticked, dir' = dir,
         newDist' = newDist, deltaDist' = deltaDist, excess' = excess
  PROVE  TargetIsStartPlusDistance(d)'
<1>1. leftTicks[d] \in Nat /\ leftTicks'[d] \in Nat
  BY TickType DEF CountersOK, Directions
<1>2. CASE dir = d
  <2>1. leftTicks'[d] = leftTicks[d] + Ticked /\ Ticked \in {0, 1}
    BY <1>2 DEF CountersOK, LeftTick, RightTick, counters, Ticked, Directions
  <2>2. leftTicks'[d] - Done(d)' = leftTicks[d] - Done(d) /\ Done(d)' <= leftTicks'[d]
    BY <1>1, <1>2, <2>1 DEF Done, TargetIsStartPlusDistance
  <2> QED
    BY <2>2 DEF TargetIsStartPlusDistance
<1>3. CASE dir # d
  <2>1. leftTicks'[d] = leftTicks[d] /\ Done(d)' = Done(d)
    BY <1>3 DEF CountersOK, LeftTick, RightTick, counters, Directions, Done
  <2> QED
    BY <2>1 DEF TargetIsStartPlusDistance
<1> QED
  BY <1>2, <1>3

(* The command sets the target off from the reading.                        *)
LEMMA MoveSetsTarget ==
  ASSUME MoveInv,
         NEW c, NEW direction \in Moves, NEW d \in Nat, NEW speed \in Nat,
         Move(c, direction, d, speed)
  PROVE  TargetInv'
<1>1. CountersOK /\ CountersOK'
  BY TickType DEF MoveInv, OdometerInv, TypeOK, CountersOK, Move, ReadLeft
<1>2. pc # "clear" /\ pc' = "drive" /\ order'.dir = direction /\ dir' = dir
  BY DEF Move, LoopStep
<1>4. newDist' = DistOf(leftTicks[direction]) + deltaDist' + excess'
  <2>1. dist[direction] = DistOf(leftTicks[direction])
    BY <1>2 DEF MoveInv, OdometerInv, DistTracksTicks
  <2>2. /\ newDist' = Seen(dist[direction], dist'[direction]) + DistanceOf(d)
        /\ deltaDist' = DistanceOf(d)
        /\ excess' = Seen(dist[direction], dist'[direction]) - dist[direction]
    BY DEF Move, Target, Misread
  <2>3. /\ dist[direction] \in Nat /\ DistanceOf(d) \in Nat
        /\ Seen(dist[direction], dist'[direction]) \in Nat
    BY <1>1, SeenNat, Amounts DEF CountersOK
  <2> QED
    BY <2>1, <2>2, <2>3
<1>5. leftTicks'[direction] - Done(direction)' = leftTicks[direction]
      /\ Done(direction)' <= leftTicks'[direction]
  <2>1. leftTicks[direction] \in Nat /\ leftTicks'[direction] \in Nat
    BY <1>1 DEF CountersOK, Directions
  <2>2. CASE dir = direction
    <3>1. leftTicks'[direction] = leftTicks[direction] + Ticked /\ Ticked \in {0, 1}
      BY <1>1, <2>2 DEF CountersOK, Move, ReadLeft, LeftTick, counters, Ticked, Directions
    <3>2. Done(direction)' = Ticked
      BY <1>2, <2>2 DEF Done, Move
    <3> QED
      BY <2>1, <3>1, <3>2
  <2>3. CASE dir # direction
    <3>1. leftTicks'[direction] = leftTicks[direction]
      BY <1>1, <2>3 DEF CountersOK, Move, ReadLeft, LeftTick, counters, Directions
    <3>2. Done(direction)' = 0
      BY <1>2, <2>3 DEF Done
    <3> QED
      BY <2>1, <3>1, <3>2
  <2> QED
    BY <2>2, <2>3
<1> QED
  BY <1>2, <1>4, <1>5 DEF TargetInv, TargetIsStartPlusDistance

(* A step that sets no new target keeps the target of a move.               *)
LEMMA NextTarget ==
  ASSUME MoveInv, [Next]_vars
  PROVE  TargetInv'
<1>1. CountersOK /\ moved \in Nat
  BY DEF MoveInv, OdometerInv, TypeOK, CountersOK
<1>2. CASE \E d \in Nat, speed \in Nat :
             Move("FORWARD", "FORWARD", d, speed) \/ Move("REVERSE", "BACKWARD", d, speed)
  BY <1>2, MoveSetsTarget DEF Moves
<1>3. ASSUME LeftTick \/ RightTick \/ UNCHANGED counters, excess' = excess,
             moved' = moved + Ticked, dir' = dir, order' = order,
             newDist' = newDist, deltaDist' = deltaDist,
             pc' = "drive" <=> pc = "drive"
      PROVE  TargetInv'
  <2>1. TargetInv
    BY <1>3 DEF MoveInv
  <2>2. ASSUME dir' \in Moves, pc' # "drive" PROVE TargetIsStartPlusDistance(dir)'
    BY <1>1, <1>3, <2>1, <2>2, TickKeepsTarget DEF TargetInv
  <2>3. ASSUME pc' = "drive", order'.dir \in Moves
        PROVE  TargetIsStartPlusDistance(order.dir)'
    BY <1>1, <1>3, <2>1, <2>3, TickKeepsTarget DEF TargetInv
  <2> QED
    BY <2>2, <2>3 DEF TargetInv
<1>4. CASE leftISR \/ rightISR
  <2>1. moved' = moved + Ticked
    BY <1>1, <1>4
    DEF leftISR, rightISR, history, LeftTick, RightTick, Ticked, CountersOK, Directions
  <2> QED
    BY <1>3, <1>4, <2>1 DEF leftISR, rightISR, targets, history
<1>5. CASE GetStats \/ StatusDistances
  BY <1>3, <1>5 DEF GetStats, StatusDistances, ReadLeft, LoopStep, targets
<1>6. CASE ReadNothing \/ CheckNothing
  <2>1. moved' = moved + Ticked
    BY <1>1, <1>6 DEF ReadNothing, CheckNothing, counters, history, Ticked
  <2> QED
    BY <1>3, <1>6, <2>1 DEF ReadNothing, CheckNothing, LoopStep, targets, history
<1>7. ASSUME dir' \notin Moves, pc' # "drive"
      PROVE  TargetInv'
  BY <1>7 DEF TargetInv
<1>8. CASE StopCommand \/ CheckStopped
  BY <1>7, <1>8 DEF StopCommand, CheckStopped, stop, LoopStep, Moves
<1>9. CASE \E ang \in Nat, speed \in Nat :
             Turn("TURN_LEFT", "LEFT", ang, speed) \/ Turn("TURN_RIGHT", "RIGHT", ang, speed)
  BY <1>9 DEF Turn, LoopStep, Moves, TargetInv
<1>10. CASE \E d \in Turns : CheckTurn(d)
  BY <1>7, <1>10 DEF CheckTurn, LoopStep, stop, Turns, Moves
<1>11. CASE Drive
  <2>1. CASE order.dir \notin Moves
    BY <1>7, <1>11, <2>1 DEF Drive, LoopStep
  <2>2. CASE order.dir \in Moves
    <3>1. TargetIsStartPlusDistance(order.dir) /\ pc' = "check" /\ dir' = order.dir
      BY <1>11, <2>2 DEF Drive, LoopStep, MoveInv, TargetInv
    <3>2. Done(order.dir) = moved' /\ newDist' = newDist /\ deltaDist' = deltaDist
          /\ leftTicks' = leftTicks /\ excess' = excess
      BY <1>11 DEF Drive, Done, targets, counters
    <3>3. TargetIsStartPlusDistance(dir)'
      BY <3>1, <3>2 DEF TargetIsStartPlusDistance, Done
    <3> QED
      BY <3>1, <3>3 DEF TargetInv
  <2> QED
    BY <2>1, <2>2
<1>12. CASE CheckMove
  <2>1. CASE Past(dir)
    BY <1>7, <1>12, <2>1 DEF CheckMove, LoopStep, stop, Moves
  <2>2. CASE ~Past(dir)
    BY <1>3, <1>12, <2>2 DEF CheckMove, LoopStep, ReadLeft
  <2> QED
    BY <2>1, <2>2
<1>13. CASE UNCHANGED vars
  <2>1. moved' = moved + Ticked
    BY <1>1, <1>13 DEF vars, counters, history, Ticked
  <2> QED
    BY <1>3, <1>13, <2>1 DEF vars, targets, history
<1>14. CASE ClearTicks
  <2>1. CASE dir \in Moves
    <3>1. /\ pc' = "clear" /\ dir' = dir /\ moved' = 0 /\ leftTicks'[dir] = 0
          /\ newDist' = newDist /\ deltaDist' = deltaDist /\ excess' = newDist - deltaDist
      BY <1>14, <2>1 DEF ClearTicks, LoopStep, targets, Zero, Directions
    <3>2. newDist \in Nat /\ deltaDist \in Nat /\ DistOf(0) = 0
      BY Odometer DEF MoveInv, OdometerInv, TypeOK, COUNTS_PER_REV
    <3>3. Done(dir)' = 0
      BY <3>1 DEF Done
    <3>4. TargetIsStartPlusDistance(dir)'
      BY <3>1, <3>2, <3>3 DEF TargetIsStartPlusDistance
    <3> QED
      BY <3>1, <3>4 DEF TargetInv
  <2>2. CASE dir \notin Moves
    BY <1>7, <1>14, <2>2 DEF ClearTicks, LoopStep
  <2> QED
    BY <2>1, <2>2
<1>15. CASE ClearDistances
  <2>1. /\ pc = "clear" /\ pc' = "check" /\ dir' = dir /\ leftTicks' = leftTicks
        /\ moved' = moved /\ excess' = excess /\ newDist' = newDist /\ deltaDist' = deltaDist
    BY <1>15 DEF ClearDistances, LoopStep, targets, history
  <2> QED
    BY <2>1 DEF MoveInv, TargetInv, TargetIsStartPlusDistance, Done
<1> QED
  BY <1>2, <1>4, <1>5, <1>6, <1>8, <1>9, <1>10, <1>11, <1>12, <1>13, <1>14, <1>15, LoopActions

LEMMA NextMove == MoveInv /\ [Next]_vars => MoveInv'
<1> SUFFICES ASSUME MoveInv, [Next]_vars PROVE MoveInv'
  OBVIOUS
<1>1. OdometerInv'
  BY NextOdometer DEF MoveInv
<1> QED
  BY <1>1, NextTarget DEF MoveInv

LEMMA InitMove == Init => MoveInv
BY InitOdometer DEF Init, MoveInv, TargetInv, Moves

(* loop() ends a move only once the wheel has turned what it had to but for *)
(* less than a revolution and what the last reading was too much.           *)
LEMMA EndIsLate ==
  ASSUME MoveInv, [Next]_vars, MoveEnded
  PROVE  Travelled(moved' + COUNTS_PER_REV) + Misread(dir) > deltaDist + excess
<1>2. CheckMove /\ Past(dir)
  BY LoopActions
  DEF MoveEnded, vars, leftISR, rightISR, ReadNothing, StopCommand, GetStats, ClearTicks,
      Move, Turn, Drive, StatusDistances, ClearDistances, CheckMove, CheckTurn,
      CheckStopped, CheckNothing, LoopStep, Moves, Turns
<1>3. /\ dir \in Moves /\ pc = "check" /\ pc' = "read" /\ Done(dir) = moved
      /\ moved <= leftTicks[dir]
      /\ newDist = DistOf(leftTicks[dir] - moved) + deltaDist + excess
      /\ dist[dir] = DistOf(leftTicks[dir])
  BY <1>2 DEF MoveEnded, MoveInv, OdometerInv, DistTracksTicks, TargetInv,
              TargetIsStartPlusDistance, Done, CheckMove, LoopStep
<1>4. /\ leftTicks[dir] \in Nat /\ moved \in Nat /\ deltaDist \in Nat /\ excess \in Int
      /\ moved' \in Nat /\ moved' >= moved
      /\ dist[dir] \in Nat /\ Seen(dist[dir], dist'[dir]) \in Nat
  <2>1. CountersOK /\ CountersOK'
    BY <1>2, TickType DEF MoveInv, OdometerInv, TypeOK, CountersOK, CheckMove, ReadLeft
  <2>2. dist[dir] \in Nat /\ dist'[dir] \in Nat /\ leftTicks[dir] \in Nat
    BY <1>3, <2>1 DEF CountersOK, Directions
  <2>3. Seen(dist[dir], dist'[dir]) \in Nat
    BY <2>2, SeenNat
  <2>4. Ticked \in {0, 1} /\ moved' = moved + Ticked
    BY <1>2 DEF CheckMove, Ticked
  <2>5. moved \in Nat /\ deltaDist \in Nat /\ excess \in Int
    BY DEF MoveInv, OdometerInv, TypeOK
  <2> QED
    BY <2>2, <2>3, <2>4, <2>5
<1> DEFINE D == deltaDist + excess - Misread(dir)
<1>5. D \in Int /\ DistOf(leftTicks[dir]) > DistOf(leftTicks[dir] - moved) + D
  <2>1. Seen(dist[dir], dist'[dir]) > newDist
    BY <1>2 DEF Past
  <2>2. DistOf(leftTicks[dir] - moved) \in Nat
    BY <1>3, <1>4, Odometer
  <2> QED
    BY <1>3, <1>4, <2>1, <2>2 DEF Misread
<1> HIDE DEF D
<1>6. Travelled(moved' + COUNTS_PER_REV) > D
  BY <1>3, <1>4, <1>5, OdometerVersusWheel
<1>7. Travelled(moved' + COUNTS_PER_REV) \in Int
  BY <1>4 DEF Travelled, COUNTS_PER_REV
<1> QED
  BY <1>4, <1>6, <1>7 DEF D, Misread

(* A move that loop() ends has covered its distance, and what CLEAR_STATS   *)
(* or a torn reading at its start put on top, but for less than a           *)
(* revolution and what the last reading was too much, whatever commands     *)
(* came and whenever the interrupts fall.                                   *)
THEOREM MovesAreNotShort == Spec => ShortByLessThanARevolution
<1>1. MoveInv /\ [Next]_vars =>
        [MoveEnded => Travelled(moved' + COUNTS_PER_REV) + Misread(dir) > deltaDist + excess]_vars
  BY EndIsLate
<1> QED
  BY <1>1, InitMove, NextMove, PTL DEF Spec, ShortByLessThanARevolution

(* The move invariant itself: the target of a move is what its odometer     *)
(* showed at its start, its distance and the excess of that reading, or,    *)
(* CLEAR_STATS having come, all of that counted from there.                 *)
THEOREM TargetsAreKept == Spec => []MoveInv
<1> QED
  BY InitMove, NextMove, PTL DEF Spec
-----------------------------------------------------------------------------
(* The status packet.                                                       *)

(* The odometer of a counter at most a revolution further on.               *)
LEMMA OdometerWithinARevolution ==
  ASSUME NEW s \in Nat, NEW t \in Nat, s <= t, t <= s + COUNTS_PER_REV
  PROVE  DistOf(t) \in {DistOf(s), DistOf(s + COUNTS_PER_REV)}
<1>1. /\ t \div 4 \in {s \div 4, (s + 4) \div 4}
      /\ s \div 4 \in Nat /\ (s + 4) \div 4 \in Nat /\ t \div 4 \in Nat
  BY SMT DEF COUNTS_PER_REV
<1> QED
  BY <1>1 DEF DistOf, COUNTS_PER_REV

LEMMA InitStatus == Init => StatusInv
<1> SUFFICES ASSUME Init PROVE StatusInv
  OBVIOUS
<1>1. DistOf(0) = 0
  BY Odometer DEF COUNTS_PER_REV
<1>2. \A d \in Moves : status.dist[d] = 0 /\ status.ticks[d] = 0 /\ 0 \in Meant(0)
  BY DEF Init, NoDist, Meant
<1> QED
  BY <1>1, <1>2 DEF Init, StatusInv, TicksReportedAreRecent, StatusCoherent

(* A reading that is the old value or a byte more may mean the old value.   *)
LEMMA MeantOld ==
  ASSUME NEW old \in Nat, NEW n, n = old \/ n = old + ByteBase
  PROVE  old \in Meant(n)
BY MotionAssumption DEF Meant

(* The ticks are copied.                                                    *)
LEMMA TicksCopied ==
  ASSUME MoveInv, GetStats
  PROVE  StatusInv'
<1>1. CountersOK
  BY DEF MoveInv, OdometerInv, TypeOK, CountersOK
<1>2. LeftTick \/ RightTick \/ UNCHANGED counters
  BY DEF GetStats, ReadLeft
<1>3. ASSUME NEW d \in Moves
      PROVE  /\ leftTicks[d] \in Meant(status'.ticks[d])
             /\ leftTicks[d] \in Nat /\ leftTicks'[d] \in {leftTicks[d], leftTicks[d] + 1}
  <2>1. leftTicks[d] \in Nat /\ leftTicks'[d] \in {leftTicks[d], leftTicks[d] + 1}
    BY <1>1, <1>2, TickSteps
  <2>2. \/ Seen(leftTicks[d], leftTicks'[d]) = leftTicks[d]
        \/ Seen(leftTicks[d], leftTicks'[d]) = leftTicks[d] + ByteBase
    BY <2>1, SeenOldOrByteMore, MotionAssumption
  <2>3. status'.ticks[d] = Seen(leftTicks[d], leftTicks'[d])
    BY DEF GetStats
  <2> QED
    BY <2>1, <2>2, <2>3, MeantOld
<1>4. pc' = "status" /\ budget' = TicksPerStep /\ TicksPerStep \in Nat
  BY MotionAssumption DEF GetStats, LoopStep, COUNTS_PER_REV
<1>5. \A d \in Moves : \E t \in Meant(status'.ticks[d]) :
        t <= leftTicks'[d] /\ leftTicks'[d] + budget' <= t + TicksPerStep + 1
  <2> SUFFICES ASSUME NEW d \in Moves
               PROVE  \E t \in Meant(status'.ticks[d]) :
                        t <= leftTicks'[d] /\ leftTicks'[d] + budget' <= t + TicksPerStep + 1
    OBVIOUS
  <2>1. leftTicks[d] \in Meant(status'.ticks[d])
    BY <1>3
  <2>2. leftTicks[d] <= leftTicks'[d] /\ leftTicks'[d] + budget' <= leftTicks[d] + TicksPerStep + 1
    BY <1>3, <1>4
  <2> QED
    BY <2>1, <2>2
<1> QED
  BY <1>4, <1>5 DEF StatusInv, TicksReportedAreRecent, StatusCoherent, Meant

(* The distances are copied.                                                *)
LEMMA DistancesCopied ==
  ASSUME MoveInv, StatusInv, [Next]_vars, StatusDistances
  PROVE  StatusInv'
<1>1. CountersOK
  BY DEF MoveInv, OdometerInv, TypeOK, CountersOK
<1>2. pc = "status" /\ pc' = "check" /\ status'.ticks = status.ticks
  BY DEF StatusDistances, LoopStep
<1>3. ASSUME NEW d \in Moves
      PROVE  \E t \in Meant(status'.ticks[d]), m \in Meant(status'.dist[d]) :
               m \in {DistOf(t), DistOf(t + COUNTS_PER_REV)}
  <2>1. PICK t \in Meant(status.ticks[d]) :
          t <= leftTicks[d] /\ leftTicks[d] + budget <= t + TicksPerStep + 1
    BY <1>2 DEF StatusInv, TicksReportedAreRecent
  <2>2. dist[d] = DistOf(leftTicks[d])
    BY <1>2 DEF MoveInv, OdometerInv, DistTracksTicks
  <2>3. /\ dist[d] \in Nat
        /\ \/ Seen(dist[d], dist'[d]) = dist[d]
           \/ Seen(dist[d], dist'[d]) = dist[d] + ByteBase
    BY <1>1, <2>2, ReadingOldOrByteMore DEF StatusDistances, ReadLeft
  <2>4. dist[d] \in Meant(status'.dist[d])
    <3>1. status'.dist[d] = Seen(dist[d], dist'[d])
      BY DEF StatusDistances
    <3> QED
      BY <2>3, <3>1, MeantOld
  <2>5. t \in Nat /\ leftTicks[d] \in Nat /\ budget \in Nat
    BY <1>1, MotionAssumption
    DEF MoveInv, OdometerInv, TypeOK, CountersOK, Directions, Meant, COUNTS_PER_REV
  <2>6. t <= leftTicks[d] /\ leftTicks[d] <= t + COUNTS_PER_REV
    BY <2>1, <2>5, MotionAssumption DEF COUNTS_PER_REV
  <2>7. dist[d] \in {DistOf(t), DistOf(t + COUNTS_PER_REV)}
    BY <2>2, <2>5, <2>6, OdometerWithinARevolution
  <2> QED
    BY <1>2, <2>1, <2>4, <2>7
<1> QED
  BY <1>2, <1>3 DEF StatusInv, TicksReportedAreRecent, StatusCoherent, Meant

LEMMA NextStatus ==
  ASSUME MoveInv, StatusInv, [Next]_vars
  PROVE  StatusInv'
<1>1. CountersOK
  BY DEF MoveInv, OdometerInv, TypeOK, CountersOK
<1>2. CASE GetStats
  BY <1>2, TicksCopied
<1>3. CASE StatusDistances
  BY <1>3, DistancesCopied
<1>4. CASE leftISR \/ rightISR
  <2>1. pc' = pc /\ status' = status /\ budget' = budget - 1 /\ budget \in Nat
    BY <1>4, MotionAssumption
    DEF leftISR, rightISR, MoveInv, OdometerInv, TypeOK, COUNTS_PER_REV
  <2>2. \A d \in Moves : leftTicks[d] \in Nat /\ leftTicks'[d] \in {leftTicks[d], leftTicks[d] + 1}
    BY <1>1, <1>4, TickSteps DEF leftISR, rightISR
  <2>3. ASSUME pc = "status", NEW d \in Moves
        PROVE  \E t \in Meant(status.ticks[d]) :
                 t <= leftTicks'[d] /\ leftTicks'[d] + budget' <= t + TicksPerStep + 1
    <3>1. PICK t \in Meant(status.ticks[d]) :
            t <= leftTicks[d] /\ leftTicks[d] + budget <= t + TicksPerStep + 1
      BY <2>3 DEF StatusInv, TicksReportedAreRecent
    <3>2. t \in Nat /\ TicksPerStep \in Nat
      BY MotionAssumption DEF Meant, COUNTS_PER_REV
    <3>3. leftTicks[d] \in Nat /\ (leftTicks'[d] = leftTicks[d] \/ leftTicks'[d] = leftTicks[d] + 1)
      BY <2>2
    <3>4. t <= leftTicks'[d] /\ leftTicks'[d] + budget' <= t + TicksPerStep + 1
      BY <2>1, <3>1, <3>2, <3>3
    <3> QED
      BY <3>1, <3>4
  <2> QED
    BY <2>1, <2>3 DEF StatusInv, TicksReportedAreRecent, StatusCoherent, Meant
<1>5. CASE UNCHANGED vars
  BY <1>5 DEF vars, counters, StatusInv, TicksReportedAreRecent, StatusCoherent
<1>6. ASSUME pc # "status", pc' # "status", status' = status PROVE StatusInv'
  BY <1>6 DEF StatusInv, TicksReportedAreRecent, StatusCoherent
<1>7. CASE \/ ReadNothing \/ StopCommand \/ ClearTicks
           \/ \E d \in Nat, speed \in Nat :
                Move("FORWARD", "FORWARD", d, speed) \/ Move("REVERSE", "BACKWARD", d, speed)
           \/ \E ang \in Nat, speed \in Nat :
                Turn("TURN_LEFT", "LEFT", ang, speed) \/ Turn("TURN_RIGHT", "RIGHT", ang, speed)
           \/ Drive \/ ClearDistances
           \/ CheckMove \/ (\E d \in Turns : CheckTurn(d)) \/ CheckStopped \/ CheckNothing
  BY <1>6, <1>7
  DEF ReadNothing, StopCommand, ClearTicks, Move, Turn, Drive, ClearDistances, CheckMove,
      CheckTurn, CheckStopped, CheckNothing, LoopStep
<1> QED
  BY <1>2, <1>3, <1>4, <1>5, <1>7, LoopActions

(* The distances of a status packet are those of its ticks or of a          *)
(* revolution later, but for a whole byte too much in either, wherever the  *)
(* interrupts fall while it is filled.                                      *)
THEOREM StatusIsCoherent == Spec => []StatusCoherent
<1>1. Init => MoveInv /\ StatusInv
  BY InitMove, InitStatus
<1>2. MoveInv /\ StatusInv /\ [Next]_vars => MoveInv' /\ StatusInv'
  BY NextMove, NextStatus
<1>3. StatusInv => StatusCoherent
  BY DEF StatusInv
<1> QED
  BY <1>1, <1>2, <1>3, PTL DEF Spec

-----------------------------------------------------------------------------
(* Robot, the operator's view.                                              *)

(* Until loop() gets to writing dir, a command has already taken effect.    *)
LEMMA StepsOfRobot == TypeOK /\ [Next]_vars => [R!Next]_<<Heading, Pending>>
<1> SUFFICES ASSUME TypeOK, [Next]_vars PROVE R!Next \/ UNCHANGED <<Heading, Pending>>
  OBVIOUS
<1>1. ASSUME pc # "drive", pc' # "drive", dir' = dir, deltaDist' = deltaDist
      PROVE  UNCHANGED <<Heading, Pending>>
  BY <1>1 DEF Heading, Pending
<1>2. CASE leftISR \/ rightISR \/ UNCHANGED vars
  BY <1>2 DEF leftISR, rightISR, vars, targets, Heading, Pending
<1>3. CASE ReadNothing \/ GetStats \/ StatusDistances \/ ClearTicks \/ ClearDistances \/ CheckNothing
  BY <1>1, <1>3
  DEF ReadNothing, GetStats, StatusDistances, ClearTicks, ClearDistances, CheckNothing,
      LoopStep, targets
<1>4. CASE Drive
  BY <1>4 DEF Drive, LoopStep, targets, Heading, Pending
<1>5. CASE StopCommand
  BY <1>5 DEF StopCommand, LoopStep, stop, targets, Heading, Pending, R!Next, R!Halt
<1>6. CASE \E d \in Nat, speed \in Nat :
             Move("FORWARD", "FORWARD", d, speed) \/ Move("REVERSE", "BACKWARD", d, speed)
  <2>1. ASSUME NEW c, NEW direction \in Moves, NEW d \in Nat, NEW speed \in Nat,
               Move(c, direction, d, speed)
        PROVE  R!Next
    <3>1. Heading' = direction
      BY <2>1 DEF Move, LoopStep, Heading
    <3>2. Pending' = TRUE
      BY <2>1, Amounts DEF Move, Pending
    <3> QED
      BY <3>1, <3>2 DEF R!Next, R!Move, R!Moves, Moves
  <2> QED
    BY <1>6, <2>1 DEF Moves
<1>7. CASE \E ang \in Nat, speed \in Nat :
             Turn("TURN_LEFT", "LEFT", ang, speed) \/ Turn("TURN_RIGHT", "RIGHT", ang, speed)
  <2>1. ASSUME NEW c, NEW direction \in Turns, NEW ang \in Nat, NEW speed \in Nat,
               Turn(c, direction, ang, speed)
        PROVE  R!Next
    <3>1. Heading' = direction /\ Pending' = Pending
      BY <2>1 DEF Turn, LoopStep, Heading, Pending
    <3> QED
      BY <3>1 DEF R!Next, R!Turn, R!Turns, Turns
  <2> QED
    BY <1>7, <2>1 DEF Turns
<1>8. CASE CheckMove
  <2>1. Heading = dir /\ Pending /\ dir \in Moves /\ Heading' = dir'
    BY <1>8 DEF CheckMove, LoopStep, Heading
  <2>2. CASE Past(dir)
    <3>1. dir' = "STOP" /\ Pending' = FALSE
      BY <1>8, <2>2 DEF CheckMove, stop, Pending
    <3> QED
      BY <2>1, <3>1 DEF R!Next, R!ByItself, R!MoveEnds, R!Moves, Moves
  <2>3. CASE ~Past(dir)
    BY <1>1, <1>8, <2>3 DEF CheckMove, LoopStep
  <2> QED
    BY <2>2, <2>3
<1>9. ASSUME NEW d \in Turns, CheckTurn(d)
      PROVE  R!Next \/ UNCHANGED <<Heading, Pending>>
  <2>1. /\ Heading = d /\ Pending /\ Heading' = dir'
        /\ Pending' = Pending /\ dir' \in {"STOP", d}
    BY <1>9 DEF CheckTurn, LoopStep, Heading, Pending, stop
  <2> QED
    BY <2>1 DEF R!Next, R!ByItself, R!TurnEnds, R!Turns, Turns
<1>10. CASE CheckStopped
  <2>1. Heading = "STOP" /\ Pending /\ Heading' = "STOP" /\ Pending' = FALSE
    BY <1>10 DEF CheckStopped, LoopStep, Heading, Pending, stop
  <2> QED
    BY <2>1 DEF R!Next, R!ByItself, R!Settle
<1> QED
  BY <1>2, <1>3, <1>4, <1>5, <1>6, <1>7, <1>8, <1>9, <1>10, LoopActions

(* The firmware implements Robot.                                           *)
THEOREM RobotIsImplemented == Spec => ImplementsRobot
<1>1. Init => R!Init
  BY DEF Init, R!Init, Heading, Pending
<1> QED
  BY <1>1, InitType, NextType, StepsOfRobot, PTL DEF Spec, ImplementsRobot, R!Spec

(* So a robot that drives, or is about to, always has a distance pending,   *)
(* without which loop() would not look at its odometer.                     *)
THEOREM MovesAreChecked == Spec => []R!MovesArePending
<1>1. R!Init => R!MovesArePending
  BY DEF R!Init, R!MovesArePending, R!Moves
<1>2. R!MovesArePending /\ [R!Next]_<<Heading, Pending>> => R!MovesArePending'
  BY DEF R!Next, R!Move, R!Turn, R!Halt, R!ByItself, R!MoveEnds, R!TurnEnds, R!Settle,
         R!MovesArePending, R!Moves, R!Turns
<1> QED
  BY <1>1, <1>2, RobotIsImplemented, PTL DEF ImplementsRobot, R!Spec
-----------------------------------------------------------------------------
(* How far a move may go.                                                   *)

LEMMA TravelledFacts ==
  /\ \A a, b \in Int : a <= b => Travelled(a) <= Travelled(b)
  /\ \A a \in Int : a <= 0 => Travelled(a) <= 0
  /\ \A a \in Int : Travelled(a) \in Int
BY DEF Travelled

(* The odometer not having passed its start by more than D, the wheel has   *)
(* turned no further but for a revolution.                                  *)
LEMMA WheelVersusOdometer ==
  ASSUME NEW t \in Nat, NEW m \in Nat, m <= t,
         NEW D \in Int, DistOf(t) <= DistOf(t - m) + D
  PROVE  Travelled(m - COUNTS_PER_REV) <= D
BY SMTT(60) DEF DistOf, Travelled, COUNTS_PER_REV

Slack(at) == COUNTS_PER_REV + StepsSinceCheck[at] * (TicksPerStep + 1)

LEMMA SlackFacts ==
  /\ TicksPerStep \in Nat
  /\ Slack("read") = COUNTS_PER_REV + TicksPerStep + 1
  /\ Slack("status") = COUNTS_PER_REV + 2 * (TicksPerStep + 1)
  /\ Slack("clear") = COUNTS_PER_REV + 2 * (TicksPerStep + 1)
  /\ Slack("check") = COUNTS_PER_REV + 3 * (TicksPerStep + 1)
BY MotionAssumption DEF Slack, StepsSinceCheck, COUNTS_PER_REV

(* A move that is measured: in this form its parts are easier to cite.      *)
Measured == Travelled(moved + budget - Slack(pc)) <= deltaDist + excess

LEMMA MeasureFacts ==
  ASSUME TypeOK, MeasureInv, dir \in Moves, pc # "drive"
  PROVE  /\ Measured /\ Slack(pc) \in Nat /\ moved \in Nat /\ budget \in Nat
         /\ deltaDist + excess \in Int
<1>1. pc \in {"read", "status", "clear", "check"}
  BY DEF TypeOK
<1>2. Slack(pc) \in Nat /\ StepsSinceCheck[pc] * (TicksPerStep + 1) \in Nat
  BY <1>1, MotionAssumption DEF Slack, StepsSinceCheck, COUNTS_PER_REV
<1>3. moved \in Nat /\ budget \in Nat /\ deltaDist + excess \in Int
  BY MotionAssumption DEF TypeOK, COUNTS_PER_REV
<1>4. moved + budget - COUNTS_PER_REV - StepsSinceCheck[pc] * (TicksPerStep + 1)
        = moved + budget - Slack(pc)
  BY <1>2, <1>3, MotionAssumption DEF Slack, COUNTS_PER_REV
<1> QED
  BY <1>2, <1>3, <1>4 DEF MeasureInv, Measured

LEMMA MeasureFromFacts ==
  ASSUME TypeOK',
         pc' = "drive" /\ order'.dir \in Moves =>
           moved' + budget' <= TicksPerStep + 1 /\ excess' >= 0,
         dir' \in Moves /\ pc' # "drive" => Measured'
  PROVE  MeasureInv'
<1>1. ASSUME pc' \in {"read", "status", "clear", "check"}
      PROVE  moved' + budget' - COUNTS_PER_REV - StepsSinceCheck[pc'] * (TicksPerStep + 1)
               = moved' + budget' - Slack(pc')
  <2>1. moved' \in Nat /\ budget' \in Nat
    BY MotionAssumption DEF TypeOK, COUNTS_PER_REV
  <2>2. StepsSinceCheck[pc'] * (TicksPerStep + 1) \in Nat
    BY <1>1, MotionAssumption DEF StepsSinceCheck, COUNTS_PER_REV
  <2> QED
    BY <2>1, <2>2 DEF Slack, COUNTS_PER_REV
<1>2. pc' \in {"read", "status", "clear", "check", "drive"}
  BY DEF TypeOK
<1> QED
  BY <1>1, <1>2 DEF MeasureInv, Measured

(* A step that counts one interrupt at most, between two places of loop().  *)
LEMMA StepMeasures ==
  ASSUME TypeOK, TypeOK', MeasureInv, dir \in Moves,
         \/ pc' = "check" /\ pc \in {"read", "status", "clear"}
         \/ pc' = "status" /\ pc = "read",
         moved' \in {moved, moved + 1}, budget' = TicksPerStep, deltaDist' = deltaDist,
         excess' = excess
  PROVE  Measured'
<1>1. /\ Measured /\ Slack(pc) \in Nat /\ moved \in Nat /\ budget \in Nat
      /\ deltaDist + excess \in Int
  BY MeasureFacts
<1>2. Slack(pc') \in Nat /\ Slack(pc') >= Slack(pc) + TicksPerStep + 1 /\ TicksPerStep \in Nat
  <2>1. TicksPerStep \in Nat /\ COUNTS_PER_REV = 4
    BY SlackFacts DEF COUNTS_PER_REV
  <2>2. CASE pc = "read" /\ pc' = "status"
    BY <2>1, <2>2, SlackFacts
  <2>3. CASE pc = "read" /\ pc' = "check"
    BY <2>1, <2>3, SlackFacts
  <2>4. CASE pc = "status" /\ pc' = "check"
    BY <2>1, <2>4, SlackFacts
  <2>5. CASE pc = "clear" /\ pc' = "check"
    BY <2>1, <2>5, SlackFacts
  <2> QED
    BY <2>2, <2>3, <2>4, <2>5
<1>3. moved' + budget' - Slack(pc') <= moved + budget - Slack(pc)
  <2>1. moved' <= moved + 1 /\ moved' \in Nat
    BY <1>1
  <2> QED
    BY <1>1, <1>2, <2>1
<1>4. Travelled(moved' + budget' - Slack(pc')) <= Travelled(moved + budget - Slack(pc))
  BY <1>1, <1>2, <1>3, TravelledFacts
<1>5. /\ Travelled(moved' + budget' - Slack(pc')) \in Int
      /\ Travelled(moved + budget - Slack(pc)) \in Int
  BY <1>1, <1>2, TravelledFacts
<1> QED
  BY <1>1, <1>4, <1>5 DEF Measured

(* loop() finds that the odometer has not passed the target.                *)
LEMMA CheckMeasures ==
  ASSUME MoveInv, [Next]_vars, CheckMove, ~Past(dir)
  PROVE  Measured'
<1>1. MoveInv' /\ TypeOK' /\ TypeOK
  BY NextMove DEF MoveInv, OdometerInv
<1>2. /\ dir \in Moves /\ pc = "check" /\ pc' = "read" /\ Done(dir) = moved
      /\ moved <= leftTicks[dir]
      /\ newDist = DistOf(leftTicks[dir] - moved) + deltaDist + excess
      /\ dist[dir] = DistOf(leftTicks[dir])
      /\ budget' = TicksPerStep /\ deltaDist' = deltaDist /\ excess' = excess
      /\ moved' = moved + Ticked
  BY DEF MoveInv, OdometerInv, DistTracksTicks, TargetInv, TargetIsStartPlusDistance, Done,
         CheckMove, LoopStep
<1>3. Seen(dist[dir], dist'[dir]) >= dist[dir] /\ dist[dir] \in Nat
  <2>1. CountersOK
    BY <1>1 DEF TypeOK, CountersOK
  <2>2. /\ dist[dir] \in Nat
        /\ \/ Seen(dist[dir], dist'[dir]) = dist[dir]
           \/ Seen(dist[dir], dist'[dir]) = dist[dir] + ByteBase
    BY <1>2, <2>1, ReadingOldOrByteMore DEF CheckMove, ReadLeft
  <2> QED
    BY <2>2, MotionAssumption
<1>4. /\ leftTicks[dir] \in Nat /\ moved \in Nat /\ deltaDist + excess \in Int
      /\ deltaDist \in Nat /\ excess \in Int
      /\ Ticked \in {0, 1} /\ newDist \in Nat
  BY <1>1, <1>2 DEF TypeOK, Ticked, Directions
<1>5. DistOf(leftTicks[dir]) <= DistOf(leftTicks[dir] - moved) + (deltaDist + excess)
  <2>1. DistOf(leftTicks[dir]) \in Nat /\ DistOf(leftTicks[dir] - moved) \in Nat
    <3>1. leftTicks[dir] - moved \in Nat
      BY <1>2, <1>4
    <3> QED
      BY <1>4, <3>1, Odometer
  <2>2. ~(Seen(dist[dir], dist'[dir]) > newDist)
    BY DEF Past
  <2>3. Seen(dist[dir], dist'[dir]) \in Nat
    <3>1. dist'[dir] \in Nat
      BY <1>1, <1>2 DEF TypeOK
    <3> QED
      BY <1>3, <3>1, SeenNat
  <2> QED
    BY <1>2, <1>3, <1>4, <2>1, <2>2, <2>3
<1>6. Travelled(moved - COUNTS_PER_REV) <= deltaDist + excess
  BY <1>2, <1>4, <1>5, WheelVersusOdometer
<1>7. moved' + budget' - Slack(pc') <= moved - COUNTS_PER_REV
      /\ moved' + budget' - Slack(pc') \in Int /\ moved - COUNTS_PER_REV \in Int
  BY <1>2, <1>4, SlackFacts DEF COUNTS_PER_REV
<1>8. /\ Travelled(moved' + budget' - Slack(pc')) <= Travelled(moved - COUNTS_PER_REV)
      /\ Travelled(moved' + budget' - Slack(pc')) \in Int
      /\ Travelled(moved - COUNTS_PER_REV) \in Int
  BY <1>7, TravelledFacts
<1> QED
  BY <1>2, <1>4, <1>6, <1>8 DEF Measured

(* A new move has hardly begun when loop() comes to its first check.        *)
LEMMA DriveMeasures ==
  ASSUME TypeOK, MeasureInv, Drive, order.dir \in Moves
  PROVE  Measured'
<1>1. /\ pc' = "check" /\ budget' = TicksPerStep /\ deltaDist' = deltaDist /\ excess' = excess
      /\ (moved' = 0 \/ moved' = moved) /\ moved + budget <= TicksPerStep + 1 /\ excess >= 0
  BY DEF Drive, LoopStep, MeasureInv, targets
<1>2. moved \in Nat /\ budget \in Nat /\ deltaDist \in Nat /\ excess \in Int
  BY MotionAssumption DEF TypeOK, COUNTS_PER_REV
<1>3. moved' + budget' - Slack(pc') <= 0 /\ moved' + budget' - Slack(pc') \in Int
  BY <1>1, <1>2, SlackFacts DEF COUNTS_PER_REV
<1>4. /\ Travelled(moved' + budget' - Slack(pc')) <= 0
      /\ Travelled(moved' + budget' - Slack(pc')) \in Int
  BY <1>3, TravelledFacts
<1> QED
  BY <1>1, <1>2, <1>4 DEF Measured

LEMMA InitMeasure == Init => MeasureInv
BY DEF Init, MeasureInv, Moves

LEMMA NextMeasure ==
  ASSUME MoveInv, MeasureInv, R!MovesArePending, [Next]_vars
  PROVE  MeasureInv'
<1>1. MoveInv' /\ TypeOK' /\ TypeOK
  BY NextMove DEF MoveInv, OdometerInv
<1>2. /\ CountersOK /\ moved \in Nat /\ budget \in Nat /\ deltaDist \in Nat
      /\ excess \in Int /\ newDist \in Nat /\ TicksPerStep \in Nat
  BY <1>1, MotionAssumption DEF TypeOK, CountersOK, COUNTS_PER_REV
<1>3. ASSUME pc' # "drive", dir' \in Moves => Measured'
      PROVE  MeasureInv'
  BY <1>1, <1>3, MeasureFromFacts
<1>4. CASE leftISR \/ rightISR
  <2>1. /\ pc' = pc /\ dir' = dir /\ order' = order /\ deltaDist' = deltaDist
        /\ budget' = budget - 1 /\ (moved' = moved \/ moved' = moved + 1) /\ excess' = excess
    BY <1>4 DEF leftISR, rightISR, targets, history
  <2>2. moved' + budget' <= moved + budget /\ moved' \in Nat /\ budget' \in Int
    <3>1. moved \in Nat /\ budget \in Nat
      BY <1>2
    <3> QED
      BY <2>1, <3>1
  <2>3. ASSUME dir' \in Moves, pc' # "drive"
        PROVE  Measured'
    <3>1. Measured /\ Slack(pc) \in Nat
      BY <1>1, <2>1, <2>3, MeasureFacts
    <3>2. moved' + budget' - Slack(pc) <= moved + budget - Slack(pc)
          /\ moved' + budget' - Slack(pc) \in Int /\ moved + budget - Slack(pc) \in Int
      <4>1. moved \in Nat /\ budget \in Nat
        BY <1>2
      <4>2. \A a, b, c, d, k \in Int :
              a + b <= c + d => /\ a + b - k <= c + d - k
                                /\ a + b - k \in Int /\ c + d - k \in Int
        OBVIOUS
      <4>3. moved' \in Int /\ budget' \in Int /\ moved \in Int /\ budget \in Int
        BY <2>2, <4>1
      <4>4. Slack(pc) \in Int
        BY <3>1
      <4>5. moved' + budget' <= moved + budget
        BY <2>2
      <4> QED
        BY <4>2, <4>3, <4>4, <4>5
    <3>3. Travelled(moved' + budget' - Slack(pc)) <= Travelled(moved + budget - Slack(pc))
          /\ Travelled(moved' + budget' - Slack(pc)) \in Int
          /\ Travelled(moved + budget - Slack(pc)) \in Int
      BY <3>2, TravelledFacts
    <3> QED
      BY <1>2, <2>1, <3>1, <3>3 DEF Measured
  <2>4. ASSUME pc' = "drive", order'.dir \in Moves
        PROVE  moved' + budget' <= TicksPerStep + 1 /\ excess' >= 0
    <3>1. moved + budget <= TicksPerStep + 1 /\ excess >= 0
      BY <2>1, <2>4 DEF MeasureInv
    <3>2. moved \in Nat /\ budget \in Nat /\ TicksPerStep \in Nat
      BY <1>2
    <3>3. moved' + budget' <= TicksPerStep + 1
      <4>1. \A a, b, c, d, k \in Int : a + b <= c + d /\ c + d <= k => a + b <= k
        OBVIOUS
      <4>2. /\ moved' \in Int /\ budget' \in Int /\ moved \in Int /\ budget \in Int
            /\ TicksPerStep + 1 \in Int
        BY <2>2, <3>2
      <4>3. moved' + budget' <= moved + budget /\ moved + budget <= TicksPerStep + 1
        BY <2>2, <3>1
      <4> QED
        BY <4>1, <4>2, <4>3
    <3> QED
      BY <2>1, <3>1, <3>3
  <2> QED
    BY <1>1, <2>3, <2>4, MeasureFromFacts
<1>5. ASSUME NEW c, NEW direction \in Moves, NEW d \in Nat, NEW speed \in Nat,
             Move(c, direction, d, speed)
      PROVE  MeasureInv'
  <2>1. pc' = "drive" /\ (moved' = 0 \/ moved' = 1) /\ budget' = TicksPerStep
        /\ excess' = Seen(dist[direction], dist'[direction]) - dist[direction]
    BY <1>5 DEF Move, LoopStep, Ticked, Misread
  <2>2. /\ dist[direction] \in Nat
        /\ \/ Seen(dist[direction], dist'[direction]) = dist[direction]
           \/ Seen(dist[direction], dist'[direction]) = dist[direction] + ByteBase
    <3>1. LeftTick \/ RightTick \/ UNCHANGED counters
      BY <1>5 DEF Move, ReadLeft
    <3>2. dist[direction] = DistOf(leftTicks[direction])
      BY <1>5 DEF MoveInv, OdometerInv, DistTracksTicks, Move, LoopStep
    <3> QED
      BY <1>2, <3>1, <3>2, ReadingOldOrByteMore
  <2>3. moved' + budget' <= TicksPerStep + 1
    BY <1>2, <2>1
  <2>4. excess' >= 0
    BY <2>1, <2>2, MotionAssumption
  <2> QED
    BY <1>1, <2>1, <2>3, <2>4, MeasureFromFacts
<1>6. CASE \E ang \in Nat, speed \in Nat :
             Turn("TURN_LEFT", "LEFT", ang, speed) \/ Turn("TURN_RIGHT", "RIGHT", ang, speed)
  <2>1. pc' = "drive" /\ order'.dir \notin Moves
    BY <1>6 DEF Turn, LoopStep, Moves
  <2> QED
    BY <2>1 DEF MeasureInv
<1>7. CASE ReadNothing \/ GetStats \/ StatusDistances \/ ClearDistances
  <2>1. /\ \/ pc' = "check" /\ pc \in {"read", "status", "clear"}
           \/ pc' = "status" /\ pc = "read"
        /\ budget' = TicksPerStep /\ deltaDist' = deltaDist /\ dir' = dir /\ excess' = excess
    BY <1>7
    DEF ReadNothing, GetStats, StatusDistances, ClearDistances, LoopStep, targets, history
  <2>2. moved' \in {moved, moved + 1}
    <3>1. Ticked \in {0, 1}
      BY DEF Ticked
    <3>2. moved' = moved \/ moved' = moved + Ticked
      BY <1>7 DEF ReadNothing, GetStats, StatusDistances, ClearDistances, history
    <3> QED
      BY <1>2, <3>1, <3>2
  <2>3. ASSUME dir' \in Moves PROVE Measured'
    BY <1>1, <2>1, <2>2, <2>3, StepMeasures
  <2> QED
    BY <1>3, <2>1, <2>3
<1>8. CASE ClearTicks
  <2>1. /\ pc' = "clear" /\ dir' = dir /\ moved' = 0 /\ budget' = TicksPerStep
        /\ deltaDist' = deltaDist /\ (dir \in Moves => excess' = newDist - deltaDist)
    BY <1>8 DEF ClearTicks, LoopStep, targets
  <2>2. moved' + budget' - Slack(pc') <= 0 /\ moved' + budget' - Slack(pc') \in Int
    BY <1>2, <2>1, SlackFacts DEF COUNTS_PER_REV
  <2>3. /\ Travelled(moved' + budget' - Slack(pc')) <= 0
        /\ Travelled(moved' + budget' - Slack(pc')) \in Int
    BY <2>2, TravelledFacts
  <2>4. ASSUME dir' \in Moves PROVE Measured'
    <3>1. deltaDist' + excess' = newDist
      BY <1>2, <2>1, <2>4
    <3> QED
      BY <1>2, <2>3, <3>1 DEF Measured
  <2> QED
    BY <1>3, <2>1, <2>4
<1>9. CASE CheckMove
  <2>1. pc' = "read"
    BY <1>9 DEF CheckMove, LoopStep
  <2>2. ASSUME dir' \in Moves PROVE Measured'
    <3>1. ~Past(dir)
      BY <1>9, <2>2 DEF CheckMove, stop, Moves
    <3> QED
      BY <1>9, <3>1, CheckMeasures
  <2> QED
    BY <1>3, <2>1, <2>2
<1>10. CASE Drive
  <2>1. pc' = "check" /\ dir' = order.dir
    BY <1>10 DEF Drive, LoopStep
  <2> QED
    BY <1>1, <1>3, <1>10, <2>1, DriveMeasures
<1>11. CASE StopCommand \/ CheckStopped \/ \E d \in Turns : CheckTurn(d)
  <2>1. pc' \in {"check", "read"} /\ dir' \notin Moves
    <3>1. CASE StopCommand \/ CheckStopped
      BY <3>1 DEF StopCommand, CheckStopped, LoopStep, stop, Moves
    <3>2. CASE \E d \in Turns : CheckTurn(d)
      BY <3>2 DEF CheckTurn, LoopStep, stop, Moves, Turns
    <3> QED
      BY <1>11, <3>1, <3>2
  <2> QED
    BY <1>3, <2>1
<1>12. CASE CheckNothing
  <2>1. pc = "check" /\ pc' = "read" /\ dir' = dir /\ ~Pending
    BY <1>12 DEF CheckNothing, LoopStep
  <2>2. dir \notin Moves
    BY <2>1 DEF R!MovesArePending, R!Moves, Moves, Heading
  <2> QED
    BY <1>3, <2>1, <2>2
<1>13. CASE UNCHANGED vars
  BY <1>13 DEF vars, targets, history, MeasureInv
<1>14. CASE \E d \in Nat, speed \in Nat :
              Move("FORWARD", "FORWARD", d, speed) \/ Move("REVERSE", "BACKWARD", d, speed)
  BY <1>5, <1>14 DEF Moves
<1> QED
  BY <1>4, <1>6, <1>7, <1>8, <1>9, <1>10, <1>11, <1>12, <1>13, <1>14, LoopActions

(* What loop() knew at its last check bounds the move at every moment.      *)
LEMMA GoesFarEnough ==
  ASSUME MoveInv, MeasureInv
  PROVE  GoesNoFurther
<1> SUFFICES ASSUME dir \in Moves, pc # "drive"
             PROVE  Travelled(moved - COUNTS_PER_REV - 3 * (TicksPerStep + 1))
                      <= deltaDist + excess
  BY DEF GoesNoFurther
<1>1. TypeOK
  BY DEF MoveInv, OdometerInv
<1>2. /\ Measured /\ Slack(pc) \in Nat /\ moved \in Nat /\ budget \in Nat
      /\ deltaDist + excess \in Int
  BY <1>1, MeasureFacts
<1>3. pc \in {"read", "status", "clear", "check"}
  BY <1>1 DEF TypeOK
<1>4. Slack(pc) <= COUNTS_PER_REV + 3 * (TicksPerStep + 1) /\ TicksPerStep \in Nat
  BY <1>3, SlackFacts DEF COUNTS_PER_REV
<1>5. /\ moved - COUNTS_PER_REV - 3 * (TicksPerStep + 1) <= moved + budget - Slack(pc)
      /\ moved - COUNTS_PER_REV - 3 * (TicksPerStep + 1) \in Int
      /\ moved + budget - Slack(pc) \in Int
  BY <1>2, <1>4 DEF COUNTS_PER_REV
<1>6. /\ Travelled(moved - COUNTS_PER_REV - 3 * (TicksPerStep + 1))
           <= Travelled(moved + budget - Slack(pc))
      /\ Travelled(moved - COUNTS_PER_REV - 3 * (TicksPerStep + 1)) \in Int
      /\ Travelled(moved + budget - Slack(pc)) \in Int
  BY <1>5, TravelledFacts
<1> QED
  BY <1>2, <1>6 DEF Measured

(* A move never goes further than its distance and its excess by more than  *)
(* a revolution and what the wheel turns in the longest round of loop().    *)
THEOREM MovesGoNoFurther == Spec => []GoesNoFurther
<1>1. Init => MoveInv /\ MeasureInv
  BY InitMove, InitMeasure
<1>2. MoveInv /\ MeasureInv /\ R!MovesArePending /\ [Next]_vars => MoveInv' /\ MeasureInv'
  BY NextMove, NextMeasure
<1>3. MoveInv /\ MeasureInv => GoesNoFurther
  BY GoesFarEnough
<1> QED
  BY <1>1, <1>2, <1>3, MovesAreChecked, PTL DEF Spec
=============================================================================
