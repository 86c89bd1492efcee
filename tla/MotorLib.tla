-------------------------------- MODULE MotorLib --------------------------------
(***************************************************************************)
(* The bare-metal firmware's way to the wheels: move() of its robotlib.ino *)
(* and MotorLib.cpp, a rewrite of the motor shield library.  Nothing is    *)
(* set up before the first move(): each call begins with startMotor(),     *)
(* which is to enable and clear the shield and sets up the timers anew,    *)
(* then gives all wheels their speed and each its direction.  The timers   *)
(* are those of a Mega, but the pins for the shield's control lines are    *)
(* where an Uno has 12, 4, 8 and 7.                                        *)
(***************************************************************************)
EXTENDS Shield

CONSTANTS
  Speeds,   (* percentages move() may be asked for                          *)
  PowerOn   (* outputs the shift register may come up with                  *)

VARIABLES
  order,        (* the course and speed move() was last called with         *)
  pc, k,        (* where move() is, and at which motor or wheel             *)
  latch_state,  (* the byte kept for the shift register                     *)
  outputs,      (* what the shift register puts out                         *)
  ddr,          (* the pins that are outputs                                *)
  OCR           (* compare registers of the timers                          *)

shield == <<latch_state, outputs, ddr, OCR>>
vars   == <<order, pc, k, shield>>

Courses == {"GO", "BACK", "CCW", "CW", "STOP"}

Init ==
  /\ order = [course |-> "STOP", speed |-> 0]
  /\ pc = "idle" /\ k = 1
  /\ latch_state = {} /\ outputs \in PowerOn
  /\ ddr = {} /\ OCR = [c \in Compare |-> 0]

-----------------------------------------------------------------------------
(* MotorLib.cpp. *)

(* The pins the code sets for the four control lines.  With the variant     *)
(* they are those the shield is wired to.                                   *)
PinsOfMega == [latch |-> "PB6", clock |-> "PG5", data |-> "PH5", enable |-> "PH4"]

Pins == [latch |-> "PB4", clock |-> "PD4", data |-> "PB0", enable |-> "PD7"]

(* What the shift register puts out when the eight bits of byte have been   *)
(* clocked in, from bit 7 down, and its latch input goes high; nothing new  *)
(* if the lines it is fed through are not driven.                           *)
latch_tx(byte, register) ==
  LET after[i \in 0 .. 8] ==
        IF i = 0 THEN register ELSE Shift(after[i - 1], (7 - (i - 1)) \in byte)
  IN  IF \A line \in {"latch", "clock", "data"} : Pins[line] = ControlPins[line]
      THEN after[8] ELSE register

Transmit == outputs' = latch_tx(latch_state', outputs)

(* enable(), up to its latch_tx(): the four pins become outputs, and low.   *)
enable == ddr' = ddr \cup {Pins[line] : line \in DOMAIN Pins} /\ latch_state' = {}

(* The shield is enabled while its enable pin is driven low. *)
Enabled == ControlPins.enable \in ddr

(* The register of motor 1 drives PB5, but it is PD5 that becomes an output. *)
initPWM1 ==
  /\ OCR' = [OCR EXCEPT !["OCR1A"] = 0]
  /\ ddr' = ddr \cup {"PD5"}

(* Port E is assigned to: PE5 becomes an output, and the other pins inputs.  *)
initPWM2 ==
  /\ OCR' = [OCR EXCEPT !["OCR3C"] = 0]
  /\ ddr' = (ddr \ {"PE3"}) \cup {"PE5"}

initPWM3 ==
  /\ OCR' = [OCR EXCEPT !["OCR4A"] = 0]
  /\ ddr' = ddr \cup {"PH3"}

initPWM4 ==
  /\ OCR' = [OCR EXCEPT !["OCR3A"] = 0]
  /\ ddr' = ddr \cup {"PE3"}

setPWM1(s) == OCR' = [OCR EXCEPT !["OCR1A"] = s]
setPWM2(s) == OCR' = [OCR EXCEPT !["OCR3C"] = s]
setPWM3(s) == OCR' = [OCR EXCEPT !["OCR4A"] = s]
setPWM4(s) == OCR' = [OCR EXCEPT !["OCR3A"] = s]

(* What each of the four run functions does with its bits a and b. *)
Run(a, b, cmd) ==
  \/ /\ cmd = "FORWARD"
     /\ latch_state' = (latch_state \cup {a}) \ {b}
     /\ Transmit
  \/ /\ cmd = "BACKWARD"
     /\ latch_state' = (latch_state \ {a}) \cup {b}
     /\ Transmit
  \/ cmd = "STOP" /\ UNCHANGED <<latch_state, outputs>>

runFL(cmd) == Run(0, 6, cmd)
runFR(cmd) == Run(2, 3, cmd)
runBL(cmd) == Run(5, 7, cmd)
runBR(cmd) == Run(1, 4, cmd)

-----------------------------------------------------------------------------
(* startMotor(). *)

Enable ==
  /\ pc = "enable" /\ pc' = "reset"
  /\ enable
  /\ UNCHANGED <<order, k, outputs, OCR>>

(* The latch_tx() of enable(); the bits of all motors are cleared after it, *)
(* and sent again, which changes nothing.                                   *)
StartResets ==
  /\ pc = "reset" /\ pc' = "init" /\ k' = 1
  /\ latch_state' = {} /\ Transmit
  /\ UNCHANGED <<order, ddr, OCR>>

StartInits ==
  /\ pc = "init"
  /\ \/ k = 1 /\ initPWM1
     \/ k = 2 /\ initPWM2
     \/ k = 3 /\ initPWM3
     \/ k = 4 /\ initPWM4
  /\ IF k < 4 THEN pc' = pc /\ k' = k + 1 ELSE pc' = "speed" /\ k' = 1
  /\ UNCHANGED <<order, latch_state, outputs>>

-----------------------------------------------------------------------------
(* robotlib.ino of the bare-metal firmware. *)

(* (speed / 100.0) * 255, cut to the uint8_t of setSpeed(). *)
Duty(speed) == ((speed * 255) \div 100) % 256

(* forward(), backward(), left(), right() and stop() call move(). *)
move(course, speed) ==
  /\ pc = "idle" /\ pc' = "enable" /\ k' = 1
  /\ order' = [course |-> course, speed |-> speed]
  /\ UNCHANGED shield

(* setSpeed(): the duty of motor k. *)
setSpeed ==
  /\ pc = "speed"
  /\ \/ k = 1 /\ setPWM1(Duty(order.speed))
     \/ k = 2 /\ setPWM2(Duty(order.speed))
     \/ k = 3 /\ setPWM3(Duty(order.speed))
     \/ k = 4 /\ setPWM4(Duty(order.speed))
  /\ IF k < 4 THEN pc' = pc /\ k' = k + 1 ELSE pc' = "run" /\ k' = 1
  /\ UNCHANGED <<order, latch_state, outputs, ddr>>

(* The command of the n-th wheel; the wheels are FL, FR, BL and BR. *)
Command(course, n) ==
  CASE course = "GO"   -> <<"FORWARD", "BACKWARD", "FORWARD", "BACKWARD">>[n]
    [] course = "BACK" -> <<"BACKWARD", "FORWARD", "BACKWARD", "FORWARD">>[n]
    [] course = "CCW"  -> "BACKWARD"
    [] course = "CW"   -> "FORWARD"
    [] course = "STOP" -> "STOP"

MoveRuns ==
  /\ pc = "run"
  /\ \/ k = 1 /\ runFL(Command(order.course, k))
     \/ k = 2 /\ runFR(Command(order.course, k))
     \/ k = 3 /\ runBL(Command(order.course, k))
     \/ k = 4 /\ runBR(Command(order.course, k))
  /\ IF k < 4 THEN pc' = pc /\ k' = k + 1 ELSE pc' = "idle" /\ k' = 1
  /\ UNCHANGED <<order, ddr, OCR>>

Step == Enable \/ StartResets \/ StartInits \/ setSpeed \/ MoveRuns

(* The board restarts, at any point; the shift register keeps its outputs.  *)
Restart ==
  /\ order' = [course |-> "STOP", speed |-> 0]
  /\ pc' = "idle" /\ k' = 1
  /\ latch_state' = {} /\ outputs' = outputs
  /\ ddr' = {} /\ OCR' = [c \in Compare |-> 0]

Moved ==
  \E course \in Courses, speed \in Speeds :
    move(course, IF course = "STOP" THEN 0 ELSE speed)

Next == Moved \/ Step \/ Restart

Spec == Init /\ [][Next]_vars

-----------------------------------------------------------------------------
(* Properties. *)

D == INSTANCE Drive WITH
       Wheels <- Motors, LeftWheels <- {3, 4}, MaxDuty <- 255,
       order <- [course |-> order.course, duty |-> Duty(order.speed)],
       busy <- pc # "idle",
       gear <- [m \in Motors |-> GearOf(outputs, m)],
       duty <- [m \in Motors |-> DutyOf(Enabled, ddr, OCR, m)]

(* "enable the chip outputs!": the rewrite drives the wheels as the library *)
(* does that it stands for.                                                 *)
LibImplementsDrive == D!Spec

(* It does not: no wheel ever has power, whatever is called, since the      *)
(* shield is not enabled through the pins the code sets.                    *)
NoWheelHasPower == \A m \in Motors : DutyOf(Enabled, ddr, OCR, m) = 0

TypeOK ==
  /\ order.course \in Courses /\ order.speed \in Speeds \cup {0}
  /\ pc \in {"idle", "enable", "reset", "init", "speed", "run"} /\ k \in 1 .. 4
  /\ latch_state \subseteq Bits /\ outputs \subseteq Bits
  /\ ddr \subseteq {"PD5"} \cup {Pins[line] : line \in DOMAIN Pins}
                    \cup {PinOf[c] : c \in Compare}
  /\ OCR \in [Compare -> 0 .. 255]
===============================================================================
