------------------------------ MODULE MotorShield -------------------------------
(***************************************************************************)
(* The firmware's way to the wheels: move() of robotlib.ino and the        *)
(* Adafruit motor shield library (AFMotor.cpp, built for the ATmega2560).  *)
(* pc and k say how far the code is: in the constructor of the k-th of the *)
(* four motors, which run before setup(), or in move(), which gives all    *)
(* motors their speed and then all their direction.                        *)
(***************************************************************************)
EXTENDS Shield

CONSTANTS
  Speeds,   (* percentages move() may be asked for                          *)
  PowerOn   (* outputs the shift register may come up with                  *)

ASSUME MotorShieldAssumption == Speeds \subseteq Nat /\ PowerOn \subseteq SUBSET Bits

VARIABLES
  order,        (* the course and speed move() was last called with         *)
  pc, k,
  latch_state,  (* the byte the library keeps for the shift register        *)
  outputs,      (* what the shift register puts out                         *)
  enabled,      (* the shield's enable pin is driven low                    *)
  ddr,          (* the pins that are outputs                                *)
  OCR           (* compare registers of the timers                          *)

shield == <<latch_state, outputs, enabled, ddr, OCR>>
vars   == <<order, pc, k, shield>>

Courses == {"GO", "BACK", "CCW", "CW", "STOP"}

(* motorFL, motorFR, motorBL, motorBR: their numbers on the shield. *)
motor == <<4, 1, 3, 2>>

Init ==
  /\ order = [course |-> "STOP", speed |-> 0]
  /\ pc = "construct" /\ k = 1
  /\ latch_state = {} /\ outputs \in PowerOn
  /\ enabled = FALSE /\ ddr = {} /\ OCR = [c \in Compare |-> 0]

-----------------------------------------------------------------------------
(* AFMotor.cpp. *)

(* Faulty variant: the byte is sent from bit 0 up. *)
latch_tx_reversed(byte, register) ==
  LET after[i \in 0 .. 8] ==
        IF i = 0 THEN register ELSE Shift(after[i - 1], (i - 1) \in byte)
  IN  after[8]

(* What the shift register puts out when the eight bits of byte have been   *)
(* clocked in, from bit 7 down, and its latch input goes high.              *)
latch_tx(byte, register) ==
  LET after[i \in 0 .. 8] ==
        IF i = 0 THEN register ELSE Shift(after[i - 1], (7 - (i - 1)) \in byte)
  IN  after[8]

Transmit == outputs' = latch_tx(latch_state', outputs)

(* enable() of the controller, up to its latch_tx(): an output pin is low   *)
(* until it is written.                                                     *)
enable == enabled' = TRUE /\ latch_state' = {}

InitPWM(register) ==
  /\ OCR' = [OCR EXCEPT ![register] = 0]
  /\ ddr' = ddr \cup {PinOf[register]}

initPWM1 == InitPWM("OCR1A")
initPWM2 == InitPWM("OCR3C")
initPWM3 == InitPWM("OCR4A")
initPWM4 == InitPWM("OCR3A")

initPWM(m) ==
  \/ m = 1 /\ initPWM1
  \/ m = 2 /\ initPWM2
  \/ m = 3 /\ initPWM3
  \/ m = 4 /\ initPWM4

setPWM1(s) == OCR' = [OCR EXCEPT !["OCR1A"] = s]
setPWM2(s) == OCR' = [OCR EXCEPT !["OCR3C"] = s]
setPWM3(s) == OCR' = [OCR EXCEPT !["OCR4A"] = s]
setPWM4(s) == OCR' = [OCR EXCEPT !["OCR3A"] = s]

setSpeed(m, s) ==
  \/ m = 1 /\ setPWM1(s)
  \/ m = 2 /\ setPWM2(s)
  \/ m = 3 /\ setPWM3(s)
  \/ m = 4 /\ setPWM4(s)

(* The library's own table of the shift register's bits. *)
MOTOR_A == <<2, 1, 5, 0>>
MOTOR_B == <<3, 4, 7, 6>>

(* Faulty variant: the bit of the other direction is not cleared. *)
runOneBit(m, cmd) ==
  \/ /\ cmd = "FORWARD"
     /\ latch_state' = latch_state \cup {MOTOR_A[m]}
     /\ Transmit
  \/ /\ cmd = "BACKWARD"
     /\ latch_state' = latch_state \cup {MOTOR_B[m]}
     /\ Transmit
  \/ cmd = "STOP" /\ UNCHANGED <<latch_state, outputs>>

(* A command the switch does not know changes nothing, and STOP is one.     *)
run(m, cmd) ==
  \/ /\ cmd = "FORWARD"
     /\ latch_state' = (latch_state \cup {MOTOR_A[m]}) \ {MOTOR_B[m]}
     /\ Transmit
  \/ /\ cmd = "BACKWARD"
     /\ latch_state' = (latch_state \ {MOTOR_A[m]}) \cup {MOTOR_B[m]}
     /\ Transmit
  \/ cmd = "STOP" /\ UNCHANGED <<latch_state, outputs>>

-----------------------------------------------------------------------------
(* The constructor of the k-th motor: enable(), then its latch_tx(), ...    *)

ConstructorEnables ==
  /\ pc = "construct" /\ pc' = "reset"
  /\ enable
  /\ UNCHANGED <<order, k, outputs, ddr, OCR>>

ConstructorResets ==
  /\ pc = "reset" /\ pc' = "init"
  /\ latch_state' = latch_state /\ Transmit
  /\ UNCHANGED <<order, k, enabled, ddr, OCR>>

(* ... then the motor's own bits, another latch_tx(), and its timer.        *)
ConstructorInits ==
  /\ pc = "init"
  /\ latch_state' = latch_state \ {MOTOR_A[motor[k]], MOTOR_B[motor[k]]}
  /\ Transmit
  /\ initPWM(motor[k])
  /\ IF k < 4 THEN pc' = "construct" /\ k' = k + 1 ELSE pc' = "idle" /\ k' = 1
  /\ UNCHANGED <<order, enabled>>

-----------------------------------------------------------------------------
(* robotlib.ino: forward(), backward(), left(), right() and stop() call     *)
(* move() with a course and a speed.                                        *)

(* (speed / 100.0) * 255, cut to the uint8_t of setSpeed(). *)
Duty(speed) == ((speed * 255) \div 100) % 256

move(course, speed) ==
  /\ pc = "idle" /\ pc' = "speed" /\ k' = 1
  /\ order' = [course |-> course, speed |-> speed]
  /\ UNCHANGED shield

(* The command of the n-th motor; the motors are FL, FR, BL and BR. *)
Command(course, n) ==
  CASE course = "GO"   -> <<"FORWARD", "BACKWARD", "FORWARD", "BACKWARD">>[n]
    [] course = "BACK" -> <<"BACKWARD", "FORWARD", "BACKWARD", "FORWARD">>[n]
    [] course = "CCW"  -> "BACKWARD"
    [] course = "CW"   -> "FORWARD"
    [] course = "STOP" -> "STOP"

MoveSetsSpeed ==
  /\ pc = "speed"
  /\ setSpeed(motor[k], Duty(order.speed))
  /\ IF k < 4 THEN pc' = pc /\ k' = k + 1 ELSE pc' = "run" /\ k' = 1
  /\ UNCHANGED <<order, latch_state, outputs, enabled, ddr>>

MoveRuns ==
  /\ pc = "run"
  /\ run(motor[k], Command(order.course, k))
  /\ IF k < 4 THEN pc' = pc /\ k' = k + 1 ELSE pc' = "idle" /\ k' = 1
  /\ UNCHANGED <<order, enabled, ddr, OCR>>

Step ==
  \/ ConstructorEnables \/ ConstructorResets \/ ConstructorInits
  \/ MoveSetsSpeed \/ MoveRuns

(* The board restarts, at any point; the shift register keeps its outputs.  *)
Restart ==
  /\ order' = [course |-> "STOP", speed |-> 0]
  /\ pc' = "construct" /\ k' = 1
  /\ latch_state' = {} /\ outputs' = outputs
  /\ enabled' = FALSE /\ ddr' = {} /\ OCR' = [c \in Compare |-> 0]

Moved ==
  \E course \in Courses, speed \in Speeds :
    move(course, IF course = "STOP" THEN 0 ELSE speed)

Next == Moved \/ Step \/ Restart

Spec == Init /\ [][Next]_vars

-----------------------------------------------------------------------------
(* Properties. *)

D == INSTANCE Drive WITH
       Wheels <- Motors, LeftWheels <- {3, 4}, MaxDuty <- 255,
       order <- [course |-> order.course, duty |-> Duty(order.speed)],
       busy <- pc # "idle",
       gear <- [m \in Motors |-> GearOf(outputs, m)],
       duty <- [m \in Motors |-> DutyOf(enabled, ddr, OCR, m)]

(* The library and move() drive the wheels as robotlib.ino may expect, over *)
(* any sequence of calls and restarts: every wheel obeys the last call      *)
(* between two calls, and in the course of one no wheel is put into a new   *)
(* gear at an old duty; after a restart nothing turns before the next call, *)
(* though the shift register still holds the old directions.                *)
ShieldImplementsDrive == D!Spec

TypeOK ==
  /\ order.course \in Courses /\ order.speed \in Speeds \cup {0}
  /\ pc \in {"construct", "reset", "init", "idle", "speed", "run"} /\ k \in 1 .. 4
  /\ latch_state \subseteq Bits /\ outputs \subseteq Bits
  /\ enabled \in BOOLEAN /\ ddr \subseteq {PinOf[c] : c \in Compare}
  /\ OCR \in [Compare -> 0 .. 255]

-----------------------------------------------------------------------------
(* The inductive invariant of the proofs. *)

(* Motor m is in the gear, and at the duty, of the order. *)
InGear(m) == order.course # "STOP" => GearOf(outputs, m) = D!Turn(order.course, m)
AtDuty(m) == OCR[CompareOf[m]] = Duty(order.speed)

(* Until the last constructor is done nothing has any duty. *)
Constructing ==
  /\ order = [course |-> "STOP", speed |-> 0]
  /\ \A c \in Compare : OCR[c] = 0
  /\ \A j \in 1 .. 4 : j < k => PinOf[CompareOf[motor[j]]] \in ddr
  /\ pc \in {"reset", "init"} => enabled /\ latch_state = {}
  /\ pc = "init" => outputs = {}

(* From then on the shield is on and puts out what the library thinks. *)
Constructed ==
  /\ enabled /\ \A m \in Motors : PinOf[CompareOf[m]] \in ddr
  /\ outputs = latch_state
  /\ \A m \in Motors : GearOf(outputs, m) # 2
  /\ pc = "speed" => \A j \in 1 .. 4 : j < k => AtDuty(motor[j])
  /\ pc \in {"run", "idle"} => \A m \in Motors : AtDuty(m)
  /\ pc = "run" => \A j \in 1 .. 4 : j < k => InGear(motor[j])
  /\ pc = "idle" => \A m \in Motors : InGear(m)

(* The inductive invariant of the proofs. *)
ShieldInv ==
  /\ TypeOK
  /\ order.course = "STOP" => order.speed = 0
  /\ pc \in {"construct", "reset", "init"} => Constructing
  /\ pc \in {"idle", "speed", "run"} => Constructed
===============================================================================
