-------------------------------- MODULE Motion --------------------------------
(***************************************************************************)
(* The firmware that drives Alex: the movement commands of robotlib.ino,   *)
(* the wheel-encoder interrupts, and loop() of Alex.ino, which ends a move *)
(* when an odometer passes its target.  loop() and the interrupts share    *)
(* the counters without a lock, and an 8-bit AVR reads a counter byte by   *)
(* byte, so an interrupt may fall between any two steps of loop() and in   *)
(* the middle of a read.                                                   *)
(*                                                                         *)
(* leftTicks[d] and rightTicks[d] are the counters the two interrupts      *)
(* advance in direction d:                                                 *)
(*   leftTicks["FORWARD"]  = leftForwardTicks                              *)
(*   leftTicks["BACKWARD"] = leftReverseTicks                              *)
(*   leftTicks["LEFT"]     = leftReverseTicksTurns                         *)
(*   leftTicks["RIGHT"]    = leftForwardTicksTurns                         *)
(* and the same on the right with forward and reverse exchanged in turns.  *)
(* dist["FORWARD"] is forwardDist, dist["BACKWARD"] is reverseDist.        *)
(***************************************************************************)
EXTENDS Integers

CONSTANTS
  Commands,      (* commands the Pi may send                                *)
  Distances,     (* cm it may ask for                                       *)
  Angles,        (* degrees it may ask for                                  *)
  Speeds,        (* percentages it may ask for                              *)
  ByteBase,      (* values of one byte of a counter: 256                    *)
  TicksPerStep,  (* encoder interrupts between two steps of loop(), at most *)
  MaxLeftTicks,  (* bound: a counter of the left wheel stops here           *)
  MaxRightTicks, (* the same on the right                                   *)
  MaxCommands    (* bound: commands in a behaviour                          *)

COUNTS_PER_REV == 4

ASSUME MotionAssumption ==
  /\ Commands \subseteq {"FORWARD", "REVERSE", "TURN_LEFT", "TURN_RIGHT",
                         "STOP", "GET_STATS", "CLEAR_STATS"}
  /\ Distances \subseteq Nat /\ Angles \subseteq Nat /\ Speeds \subseteq Nat
  /\ ByteBase \in Nat /\ ByteBase > 22  \* a byte counts more cm than a revolution has
  /\ TicksPerStep \in 1 .. COUNTS_PER_REV - 1  \* a step lasts 0.15 s at most: one reply
  /\ MaxLeftTicks \in Nat /\ MaxRightTicks \in Nat /\ MaxCommands \in Nat

VARIABLES
  dir,                     (* what the interrupts and loop() go by          *)
  leftTicks, rightTicks,
  dist,
  deltaDist, newDist,      (* distance asked for, odometer value to pass    *)
  deltaTicks, targetTicks, (* the same for a turn, in ticks                 *)
  pwm,                     (* duty setSpeed() gave the four motors          *)
  pc,                      (* where loop() is                               *)
  order,                   (* dir and pwm the command in hand will set      *)
  status,                  (* ticks and distances of the status packet      *)
  budget,                  (* interrupts that may still come in this step   *)
  sent,                    (* commands received so far                      *)
  moved,                   (* history: left ticks of the move under way, or *)
                           (* those since CLEAR_STATS came during it        *)
  excess                   (* history: cm it has to go from there beyond    *)
                           (* the distance asked for                        *)

counters == <<leftTicks, rightTicks, dist>>
targets  == <<deltaDist, newDist, deltaTicks, targetTicks>>
history  == <<moved, excess>>
vars == <<dir, counters, targets, pwm, pc, order, status, budget, sent, history>>

Moves == {"FORWARD", "BACKWARD"}
Turns == {"LEFT", "RIGHT"}
Directions == Moves \cup Turns

Zero == [d \in Directions |-> 0]
NoDist == [d \in Moves |-> 0]

(* The "forever" of a command that gives no distance or angle. *)
Unbounded == 999999

(* ticks / COUNTS_PER_REV * WHEEL_CIRC: whole revolutions of 21.04867 cm. *)
DistOf(t) == ((t \div COUNTS_PER_REV) * 2104867) \div 100000

(* Angle to ticks: ALEX_LENGTH and ALEX_BREADTH give 0.0514505 a degree. *)
computeDeltaTicks(ang) == (ang * 514505) \div 10000000

(* A percentage scaled to 0 .. 255 and passed as the uint8_t of setSpeed(). *)
Duty(speed) == ((speed * 255) \div 100) % 256

(* What a counter going from old to new reads as when the change falls      *)
(* between the first, low byte and the others.                              *)
Seen(old, new) == new - (new % ByteBase) + (old % ByteBase)

Init ==
  /\ dir = "STOP" /\ pwm = 0
  /\ leftTicks = Zero /\ rightTicks = Zero /\ dist = NoDist
  /\ deltaDist = 0 /\ newDist = 0 /\ deltaTicks = 0 /\ targetTicks = 0
  /\ pc = "read"
  /\ order = [dir |-> "STOP", pwm |-> 0]
  /\ status = [ticks |-> NoDist, dist |-> NoDist]
  /\ budget = TicksPerStep /\ sent = 0 /\ moved = 0 /\ excess = 0

-----------------------------------------------------------------------------
(* leftISR() and rightISR().  They do nothing while dir is STOP. *)

LeftTick ==
  /\ dir \in Directions /\ leftTicks[dir] < MaxLeftTicks
  /\ leftTicks' = [leftTicks EXCEPT ![dir] = @ + 1]
  /\ dist' = IF dir \in Moves
             THEN [dist EXCEPT ![dir] = DistOf(leftTicks[dir] + 1)]
             ELSE dist
  /\ rightTicks' = rightTicks

RightTick ==
  /\ dir \in Directions /\ rightTicks[dir] < MaxRightTicks
  /\ rightTicks' = [rightTicks EXCEPT ![dir] = @ + 1]
  /\ UNCHANGED <<leftTicks, dist>>

leftISR ==
  /\ budget > 0
  /\ LeftTick
  /\ budget' = budget - 1
  /\ moved' = IF dir \in Moves THEN moved + 1 ELSE moved
  /\ UNCHANGED <<dir, targets, pwm, pc, order, status, sent, excess>>

rightISR ==
  /\ budget > 0
  /\ RightTick
  /\ budget' = budget - 1
  /\ UNCHANGED <<dir, targets, pwm, pc, order, status, sent, history>>

-----------------------------------------------------------------------------
(* Steps of loop().  A step that reads a counter has the interrupt that     *)
(* changes it fall before it, after it, or, with ReadLeft and ReadRight,    *)
(* in the middle of the read.                                               *)

LoopStep(from, to) ==
  /\ pc = from /\ pc' = to
  /\ budget' = TicksPerStep

ReadLeft ==
  \/ LeftTick
  \/ UNCHANGED counters

ReadRight ==
  \/ RightTick
  \/ UNCHANGED counters

Ticked == IF leftTicks' # leftTicks /\ dir \in Moves THEN 1 ELSE 0

(* readPacket() brings the command c of the Pi. *)
Receive(c) ==
  /\ c \in Commands /\ sent < MaxCommands
  /\ sent' = sent + 1

(* What the left and right turns watch: a counter of the wheel that turns   *)
(* backwards.  The faulty variant watches the counters of the other turn.   *)
TurnedOther(d) ==
  IF d = "LEFT" THEN Seen(leftTicks["RIGHT"], leftTicks'["RIGHT"])
                ELSE Seen(rightTicks["LEFT"], rightTicks'["LEFT"])

Turned(d) ==
  IF d = "LEFT" THEN Seen(leftTicks[d], leftTicks'[d])
                ELSE Seen(rightTicks[d], rightTicks'[d])

ReadWheel(d) == IF d = "LEFT" THEN ReadLeft ELSE ReadRight

(* Faulty variant: the target is not set off from the counter's reading. *)
TargetFromZero(reading, delta) == delta

Target(reading, delta) == reading + delta

(* No packet, a bad one, one that is not a command, or an unknown command:  *)
(* only a reply is sent.                                                    *)
ReadNothing ==
  /\ LoopStep("read", "check")
  /\ UNCHANGED <<dir, counters, targets, pwm, order, status, sent, history>>

DistanceOf(d) == IF d > 0 THEN d ELSE Unbounded

(* What an interrupt in the middle of the read adds to an odometer's value. *)
Misread(d) == Seen(dist[d], dist'[d]) - dist[d]

(* forward(d, speed) and backward(d, speed) up to the write of dir. *)
Move(c, direction, d, speed) ==
  /\ LoopStep("read", "drive") /\ Receive(c)
  /\ ReadLeft
  /\ deltaDist' = DistanceOf(d)
  /\ newDist' = Target(Seen(dist[direction], dist'[direction]), DistanceOf(d))
  /\ order' = [dir |-> direction, pwm |-> Duty(speed)]
  /\ moved' = Ticked /\ excess' = Misread(direction)
  /\ UNCHANGED <<dir, deltaTicks, targetTicks, pwm, status>>

TicksOf(ang) == IF ang = 0 THEN Unbounded ELSE computeDeltaTicks(ang)

(* left(ang, speed) and right(ang, speed) up to the write of dir. *)
Turn(c, direction, ang, speed) ==
  /\ LoopStep("read", "drive") /\ Receive(c)
  /\ ReadWheel(direction)
  /\ deltaTicks' = TicksOf(ang)
  /\ targetTicks' = Target(Turned(direction), TicksOf(ang))
  /\ order' = [dir |-> direction, pwm |-> Duty(speed)]
  /\ moved' = moved + Ticked
  /\ UNCHANGED <<dir, deltaDist, newDist, pwm, status, excess>>

(* The rest of the four: dir is written, then move() sets the motors. *)
Drive ==
  /\ LoopStep("drive", "check")
  /\ dir' = order.dir
  /\ pwm' = order.pwm
  /\ moved' = IF order.dir = dir THEN moved ELSE 0
  /\ UNCHANGED <<counters, targets, order, status, sent, excess>>

(* Faulty variant: the motors stop, dir is not written. *)
stopMotors == dir' = dir /\ pwm' = 0

stop == dir' = "STOP" /\ pwm' = 0

StopCommand ==
  /\ LoopStep("read", "check") /\ Receive("STOP")
  /\ stop
  /\ UNCHANGED <<counters, targets, order, status, history>>

(* sendStatus() copies the ticks, then the distances. *)
GetStats ==
  /\ LoopStep("read", "status") /\ Receive("GET_STATS")
  /\ ReadLeft
  /\ status' = [ticks |-> [d \in Moves |-> Seen(leftTicks[d], leftTicks'[d])],
                dist  |-> NoDist]
  /\ moved' = moved + Ticked
  /\ UNCHANGED <<dir, targets, pwm, order, excess>>

(* Faulty variant: the two distances change places. *)
StatusDistancesSwapped ==
  /\ LoopStep("status", "check")
  /\ ReadLeft
  /\ status' = [ticks |-> status.ticks,
                dist  |-> [d \in Moves |->
                             dist[IF d = "FORWARD" THEN "BACKWARD" ELSE "FORWARD"]]]
  /\ moved' = moved + Ticked
  /\ UNCHANGED <<dir, targets, pwm, order, sent, excess>>

StatusDistances ==
  /\ LoopStep("status", "check")
  /\ ReadLeft
  /\ status' = [ticks |-> status.ticks,
                dist  |-> [d \in Moves |-> Seen(dist[d], dist'[d])]]
  /\ moved' = moved + Ticked
  /\ UNCHANGED <<dir, targets, pwm, order, sent, excess>>

(* clearCounters() clears the ticks, then the distances; whatever counter   *)
(* CLEAR_STATS names, clearOneCounter() clears them all.  A move under way  *)
(* keeps newDist: it now has all of that to go, counted from here.          *)
ClearTicks ==
  /\ LoopStep("read", "clear") /\ Receive("CLEAR_STATS")
  /\ leftTicks' = Zero /\ rightTicks' = Zero
  /\ moved' = 0
  /\ excess' = IF dir \in Moves THEN newDist - deltaDist ELSE excess
  /\ UNCHANGED <<dir, dist, targets, pwm, order, status>>

ClearDistances ==
  /\ LoopStep("clear", "check")
  /\ dist' = NoDist
  /\ UNCHANGED <<dir, leftTicks, rightTicks, targets, pwm, order, status, sent, history>>

handleCommand ==
  \/ \E d \in Distances, speed \in Speeds :
       \/ Move("FORWARD", "FORWARD", d, speed)
       \/ Move("REVERSE", "BACKWARD", d, speed)
  \/ \E ang \in Angles, speed \in Speeds :
       \/ Turn("TURN_LEFT", "LEFT", ang, speed)
       \/ Turn("TURN_RIGHT", "RIGHT", ang, speed)
  \/ StopCommand
  \/ GetStats
  \/ ClearTicks

(* The stop checks at the end of loop(), all inside "if(deltaDist > 0)". *)
Pending == deltaDist > 0

(* Faulty variant: every move is measured with the forward odometer. *)
PastForward(d) == Seen(dist["FORWARD"], dist'["FORWARD"]) > newDist

Past(d) == Seen(dist[d], dist'[d]) > newDist

CheckMove ==
  /\ LoopStep("check", "read")
  /\ Pending /\ dir \in Moves
  /\ ReadLeft
  /\ moved' = moved + Ticked
  /\ \/ /\ Past(dir)
        /\ deltaDist' = 0 /\ newDist' = 0
        /\ stop
     \/ /\ ~Past(dir)
        /\ UNCHANGED <<dir, deltaDist, newDist, pwm>>
  /\ UNCHANGED <<deltaTicks, targetTicks, order, status, sent, excess>>

CheckTurn(d) ==
  /\ LoopStep("check", "read")
  /\ Pending /\ dir = d
  /\ ReadWheel(d)
  /\ \/ /\ Turned(d) >= targetTicks
        /\ deltaTicks' = 0 /\ targetTicks' = 0
        /\ stop
     \/ /\ Turned(d) < targetTicks
        /\ UNCHANGED <<dir, deltaTicks, targetTicks, pwm>>
  /\ UNCHANGED <<deltaDist, newDist, order, status, sent, history>>

CheckStopped ==
  /\ LoopStep("check", "read")
  /\ Pending /\ dir = "STOP"
  /\ deltaDist' = 0 /\ newDist' = 0
  /\ stop
  /\ UNCHANGED <<counters, deltaTicks, targetTicks, order, status, sent, history>>

CheckNothing ==
  /\ LoopStep("check", "read")
  /\ ~Pending
  /\ UNCHANGED <<dir, counters, targets, pwm, order, status, sent, history>>

loop ==
  \/ ReadNothing \/ handleCommand
  \/ Drive \/ StatusDistances \/ ClearDistances
  \/ CheckMove
  \/ CheckTurn("LEFT") \/ CheckTurn("RIGHT") \/ CheckStopped \/ CheckNothing

Next == loop \/ leftISR \/ rightISR

(* loop() is called again and again, and a driven wheel keeps turning. *)
Fairness ==
  /\ WF_vars(loop)
  /\ WF_vars(pwm > 0 /\ leftISR)
  /\ WF_vars(pwm > 0 /\ rightISR)

Spec == Init /\ [][Next]_vars /\ Fairness

-----------------------------------------------------------------------------
(* Every variable keeps its type: what loop() subtracts or resets never     *)
(* leaves an unsigned counter below zero.                                   *)
TypeOK ==
  /\ dir \in Directions \cup {"STOP"}
  /\ leftTicks \in [Directions -> Nat] /\ rightTicks \in [Directions -> Nat]
  /\ dist \in [Moves -> Nat]
  /\ deltaDist \in Nat /\ newDist \in Nat
  /\ deltaTicks \in Nat /\ targetTicks \in Nat
  /\ pwm \in 0 .. 255
  /\ pc \in {"read", "drive", "status", "clear", "check"}
  /\ order \in [dir : Directions \cup {"STOP"}, pwm : 0 .. 255]
  /\ status \in [ticks : [Moves -> Nat], dist : [Moves -> Nat]]
  /\ budget \in 0 .. TicksPerStep /\ sent \in Nat /\ moved \in Nat /\ excess \in Int

(* The odometers agree with the tick counters they are computed from,       *)
(* although CLEAR_STATS clears both one by one while the interrupts go on   *)
(* advancing them.                                                          *)
DistTracksTicks ==
  pc # "clear" => \A d \in Moves : dist[d] = DistOf(leftTicks[d])

(* What a counter that reads as n may have been: an interrupt in the middle *)
(* of the read can add a byte to it.                                        *)
Meant(n) == {n, n - ByteBase} \cap Nat

(* A status packet's distances are those of its ticks or, an interrupt      *)
(* having come while the packet was filled, of one revolution later; of     *)
(* each the packet may show a whole byte too much, and nothing else.        *)
StatusCoherent ==
  pc # "status" =>
    \A d \in Moves : \E t \in Meant(status.ticks[d]), s \in Meant(status.dist[d]) :
      s \in {DistOf(t), DistOf(t + COUNTS_PER_REV)}

(* The distance in cm, rounded up, that the left wheel turns in ticks. *)
Travelled(ticks) == (ticks * 2104867 + 399999) \div 400000

(* loop() has just ended the move under way. *)
MoveEnded == pc = "check" /\ dir \in Moves /\ dir' = "STOP"

(* A move that loop() ends has covered what it had to but for less than a   *)
(* revolution, the part the odometer drops when it is read, and the byte    *)
(* by which the last reading was too much, if an interrupt fell into it.    *)
ShortByLessThanARevolution ==
  [][MoveEnded => Travelled(moved' + COUNTS_PER_REV) + Misread(dir) > deltaDist + excess]_vars

(* While a move is under way it has not gone further than its distance, the *)
(* revolution after which the odometer shows it, what the wheel turns while *)
(* loop() gets round to its check, and its excess: the byte an interrupt    *)
(* added to the reading it was set off from or, counted from a CLEAR_STATS  *)
(* that came during it, the whole of that reading.                          *)
GoesNoFurther ==
  dir \in Moves /\ pc # "drive" =>
    Travelled(moved - COUNTS_PER_REV - 3 * (TicksPerStep + 1)) <= deltaDist + excess

(* A move whose target is within the bound of the model ends: by its        *)
(* distance, or by the command that replaces it.                            *)
Reachable == newDist < DistOf(MaxLeftTicks)

MoveEnds ==
  \A d \in Moves : dir = d /\ Reachable ~> dir # d \/ ~Reachable

(* A turn that has come to its angle is stopped.                            *)
TurnEnds ==
  \A d \in Turns :
    (dir = d /\ (IF d = "LEFT" THEN leftTicks ELSE rightTicks)[d] >= targetTicks)
      ~> dir # d

(* The turns loop() does stop are those given during a move.                *)
TurnDuringMoveEnds ==
  \A d \in Turns : dir = d /\ Pending ~> dir # d

(* All this is what Robot says of it: a command takes effect as a whole,    *)
(* and only those motions end by themselves that Robot lets end.            *)
Heading == IF pc = "drive" THEN order.dir ELSE dir

R == INSTANCE Robot WITH heading <- Heading, pending <- Pending

ImplementsRobot == R!Spec

-----------------------------------------------------------------------------
(* The inductive invariants of the proofs. *)

(* While CLEAR_STATS is between the ticks and the distances, the few ticks  *)
(* that can have come since do not make up a revolution.                    *)
ClearIsQuick ==
  pc = "clear" => \A d \in Moves : leftTicks[d] + budget <= TicksPerStep

OdometerInv == TypeOK /\ DistTracksTicks /\ ClearIsQuick

(* Ticks already counted towards a move in direction d.                     *)
Done(d) == IF dir = d THEN moved ELSE 0

(* The target of a move is what its odometer showed at its start, or shows  *)
(* since CLEAR_STATS, the distance asked for and the excess.                *)
TargetIsStartPlusDistance(d) ==
  /\ Done(d) <= leftTicks[d]
  /\ newDist = DistOf(leftTicks[d] - Done(d)) + deltaDist + excess

TargetInv ==
  /\ dir \in Moves /\ pc # "drive" => TargetIsStartPlusDistance(dir)
  /\ pc = "drive" /\ order.dir \in Moves => TargetIsStartPlusDistance(order.dir)

MoveInv == OdometerInv /\ TargetInv

(* While a status packet has its ticks and not yet its distances, the left  *)
(* wheel has come no further than the interrupts of the two steps allow.    *)
TicksReportedAreRecent ==
  pc = "status" =>
    \A d \in Moves : \E t \in Meant(status.ticks[d]) :
      /\ t <= leftTicks[d]
      /\ leftTicks[d] + budget <= t + TicksPerStep + 1

StatusInv == TicksReportedAreRecent /\ StatusCoherent

(* The steps of loop(), with their interrupts, since its last check.        *)
StepsSinceCheck == [read |-> 1, status |-> 2, clear |-> 2, check |-> 3]

(* At its last check the odometer of a move had not passed the target, and  *)
(* the wheel has come no further since than those steps and what is left of *)
(* this one allow.  A move about to begin has no less to go than was asked. *)
MeasureInv ==
  /\ pc = "drive" /\ order.dir \in Moves => moved + budget <= TicksPerStep + 1 /\ excess >= 0
  /\ dir \in Moves /\ pc # "drive" =>
       Travelled(moved + budget - COUNTS_PER_REV - StepsSinceCheck[pc] * (TicksPerStep + 1))
         <= deltaDist + excess
=============================================================================
