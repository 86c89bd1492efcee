-------------------------- MODULE TwoFirmwaresProofs --------------------------
(***************************************************************************)
(* Proofs about the two ways to the wheels: the motor shield library drives*)
(* as robotlib.ino may expect and its rewrite drives nothing, for any      *)
(* speeds a call may name and whatever the shift register comes up with.   *)
(***************************************************************************)
EXTENDS TwoFirmwares, TLAPS

-----------------------------------------------------------------------------
(* The shift register: eight clock pulses put exactly the byte out.         *)

LEMMA ShiftType ==
  ASSUME NEW register \in SUBSET Bits, NEW bit
  PROVE  Shift(register, bit) \subseteq Bits
BY DEF Shift, Bits

(* What was at b - 1 comes to b. *)
LEMMA ShiftMoves ==
  ASSUME NEW register \in SUBSET Bits, NEW bit, NEW b \in Bits \ {0}
  PROVE  b \in Shift(register, bit) <=> b - 1 \in register
<1>1. b - 1 \in Bits /\ b - 1 # 7 /\ b \in Int
  BY DEF Bits
<1>2. ASSUME b - 1 \in register PROVE b \in {a + 1 : a \in register \ {7}}
  BY <1>1, <1>2
<1>3. ASSUME b \in {a + 1 : a \in register \ {7}} PROVE b - 1 \in register
  <2>1. PICK a \in register : b = a + 1
    BY <1>3
  <2>2. a \in Int
    BY DEF Bits
  <2> QED
    BY <2>1, <2>2
<1> QED
  BY <1>2, <1>3 DEF Shift

(* Clock pulse n + 1 of latch_tx(). *)
LEMMA ShiftsIn ==
  ASSUME NEW byte \in SUBSET Bits, NEW register \in SUBSET Bits, NEW n \in 0 .. 7,
         \A b \in Bits : b < n => (b \in register <=> b + 8 - n \in byte)
  PROVE  \A b \in Bits : b < n + 1 =>
           (b \in Shift(register, 7 - n \in byte) <=> b + 8 - (n + 1) \in byte)
<1> TAKE b \in Bits
<1>1. CASE b = 0
  <2>1. b \in Shift(register, 7 - n \in byte) <=> 7 - n \in byte
    BY <1>1 DEF Shift, Bits
  <2>2. b + 8 - (n + 1) = 7 - n
    BY <1>1
  <2> QED
    BY <2>1, <2>2
<1>2. CASE b # 0
  <2>1. b - 1 \in Bits /\ b - 1 # 7 /\ b \in Int
    BY <1>2 DEF Bits
  <2>2. b \in Shift(register, 7 - n \in byte) <=> b - 1 \in register
    BY <1>2, ShiftMoves
  <2>3. b - 1 < n => (b - 1 \in register <=> b - 1 + 8 - n \in byte)
    BY <2>1
  <2>4. b - 1 + 8 - n = b + 8 - (n + 1) /\ (b < n + 1 => b - 1 < n)
    BY <2>1
  <2> QED
    BY <2>2, <2>3, <2>4
<1> QED
  BY <1>1, <1>2


(* The register after n clock pulses. *)
Clocked(byte, register, n) ==
  {b \in Bits : \/ b < n /\ b + 8 - n \in byte
                \/ b >= n /\ b - n \in register}

LEMMA ClocksIn ==
  ASSUME NEW byte \in SUBSET Bits, NEW register \in SUBSET Bits, NEW n \in 0 .. 7
  PROVE  Clocked(byte, register, n + 1) = Shift(Clocked(byte, register, n), 7 - n \in byte)
<1> DEFINE now == Clocked(byte, register, n)
<1>1. now \in SUBSET Bits
  BY DEF Clocked
<1>2. Shift(now, 7 - n \in byte) \subseteq Bits
  BY <1>1, ShiftType
<1>3. \A b \in Bits : b < n => (b \in now <=> b + 8 - n \in byte)
  BY DEF Clocked, Bits
<1>4. ASSUME NEW b \in Bits
      PROVE  b \in Shift(now, 7 - n \in byte) <=> b \in Clocked(byte, register, n + 1)
  <2>1. CASE b < n + 1
    <3>1. b \in Shift(now, 7 - n \in byte) <=> b + 8 - (n + 1) \in byte
      BY <1>1, <1>3, <2>1, ShiftsIn
    <3> QED
      BY <2>1, <3>1 DEF Clocked, Bits
  <2>2. CASE b >= n + 1
    <3>1. b \in Int /\ n \in Int /\ b # 0 /\ b - 1 \in Bits /\ b - 1 # 7 /\ b - 1 >= n
          /\ (b - 1) - n = b - (n + 1)
      BY <2>2 DEF Bits
    <3>2. b - 1 \in now <=> b - (n + 1) \in register
      BY <3>1 DEF Clocked
    <3>3. b \in Shift(now, 7 - n \in byte) <=> b - 1 \in now
      BY <1>1, <3>1, ShiftMoves
    <3> QED
      BY <2>2, <3>1, <3>2, <3>3 DEF Clocked
  <2> QED
    BY <2>1, <2>2 DEF Bits
<1> QED
  BY <1>2, <1>4 DEF Clocked

LEMMA ClockExists ==
  ASSUME NEW byte \in SUBSET Bits, NEW register \in SUBSET Bits
  PROVE  \E f : f = [i \in 0 .. 8 |->
                       IF i = 0 THEN register ELSE Shift(f[i - 1], (7 - (i - 1)) \in byte)]
<1> DEFINE f == [i \in 0 .. 8 |-> Clocked(byte, register, i)]
           g == [i \in 0 .. 8 |->
                   IF i = 0 THEN register ELSE Shift(f[i - 1], (7 - (i - 1)) \in byte)]
<1>1. ASSUME NEW i \in 0 .. 8
      PROVE  f[i] = IF i = 0 THEN register ELSE Shift(f[i - 1], (7 - (i - 1)) \in byte)
  <2>1. CASE i = 0
    <3>1. \A b \in Bits : b >= 0 /\ ~(b < 0) /\ b - 0 = b
      BY DEF Bits
    <3>2. Clocked(byte, register, 0) = register
      BY <3>1 DEF Clocked
    <3> QED
      BY <2>1, <3>2
  <2>2. CASE i # 0
    <3>1. i - 1 \in 0 .. 7 /\ i - 1 \in 0 .. 8 /\ (i - 1) + 1 = i
      BY <2>2
    <3>2. Clocked(byte, register, (i - 1) + 1)
            = Shift(Clocked(byte, register, i - 1), (7 - (i - 1)) \in byte)
      BY <3>1, ClocksIn
    <3>3. f[i] = Clocked(byte, register, i) /\ f[i - 1] = Clocked(byte, register, i - 1)
      BY <3>1
    <3> QED
      BY <2>2, <3>1, <3>2, <3>3
  <2> QED
    BY <2>1, <2>2
<1>2. f = g
  <2>1. \A i \in 0 .. 8 : f[i] = g[i]
    BY <1>1
  <2> HIDE DEF Clocked
  <2> QED
    BY <2>1, Zenon
<1> WITNESS f
<1> QED
  BY <1>2

LEMMA LatchTx ==
  ASSUME NEW byte \in SUBSET Bits, NEW register \in SUBSET Bits
  PROVE  latch_tx(byte, register) = byte
<1> DEFINE after == CHOOSE f : f = [i \in 0 .. 8 |->
                       IF i = 0 THEN register ELSE Shift(f[i - 1], (7 - (i - 1)) \in byte)]
           Shifted(n) == /\ after[n] \in SUBSET Bits
                         /\ \A b \in Bits : b < n => (b \in after[n] <=> b + 8 - n \in byte)
<1>1. latch_tx(byte, register) = after[8]
  BY DEF latch_tx
<1>2. after = [i \in 0 .. 8 |->
                 IF i = 0 THEN register ELSE Shift(after[i - 1], (7 - (i - 1)) \in byte)]
  BY ClockExists, Zenon
<1> HIDE DEF after
<1>3. Shifted(0)
  <2>1. after[0] = register
    BY <1>2
  <2> QED
    BY <2>1 DEF Bits
<1>4. ASSUME NEW n \in 0 .. 7, Shifted(n) PROVE Shifted(n + 1)
  <2>1. n + 1 \in 0 .. 8 /\ n + 1 # 0 /\ (n + 1) - 1 = n
    OBVIOUS
  <2>2. after[n + 1] = Shift(after[n], 7 - n \in byte)
    BY <1>2, <2>1
  <2>3. after[n + 1] \in SUBSET Bits
    BY <1>4, <2>2, ShiftType
  <2>4. \A b \in Bits : b < n + 1 => (b \in after[n + 1] <=> b + 8 - (n + 1) \in byte)
    BY <1>4, <2>2, ShiftsIn
  <2> QED
    BY <2>3, <2>4
<1>5. Shifted(8)
  <2> HIDE DEF Shifted
  <2>1. Shifted(1) /\ 1 + 1 = 2
    BY <1>3, <1>4
  <2> QED
    BY <1>3, <1>4
<1>6. \A b \in Bits : b \in after[8] <=> b \in byte
  BY <1>5 DEF Bits
<1> QED
  BY <1>1, <1>5, <1>6

-----------------------------------------------------------------------------
(* The bridges and the timers.                                              *)

LEMMA Wiring ==
  /\ InputA[1] = 2 /\ InputA[2] = 1 /\ InputA[3] = 5 /\ InputA[4] = 0
  /\ InputB[1] = 3 /\ InputB[2] = 4 /\ InputB[3] = 7 /\ InputB[4] = 6
  /\ CompareOf[1] = "OCR1A" /\ CompareOf[2] = "OCR3C"
  /\ CompareOf[3] = "OCR4A" /\ CompareOf[4] = "OCR3A"
  /\ motor[1] = 4 /\ motor[2] = 1 /\ motor[3] = 3 /\ motor[4] = 2
BY DEF InputA, InputB, CompareOf, motor

LEMMA Numbering ==
  /\ \A m \in Motors : CompareOf[m] \in Compare
  /\ \A m, n \in Motors : CompareOf[m] = CompareOf[n] => m = n
  /\ \A j \in 1 .. 4 : motor[j] \in Motors
  /\ \A i, j \in 1 .. 4 : motor[i] = motor[j] => i = j
  /\ \A m \in Motors : \E j \in 1 .. 4 : m = motor[j]
BY Wiring DEF Motors, Compare

LEMMA NoGear == \A m \in Motors : GearOf({}, m) = 0
BY DEF GearOf

LEMMA GearType == \A L, m : GearOf(L, m) \in -1 .. 2
BY DEF GearOf

(* A motor's two bits are its own. *)
LEMMA Switch ==
  ASSUME NEW L \in SUBSET Bits, NEW m \in Motors,
         NEW byte, \/ byte = (L \cup {InputA[m]}) \ {InputB[m]}
                   \/ byte = (L \ {InputA[m]}) \cup {InputB[m]}
  PROVE  /\ byte \in SUBSET Bits
         /\ byte = (L \cup {InputA[m]}) \ {InputB[m]} => GearOf(byte, m) = 1
         /\ byte = (L \ {InputA[m]}) \cup {InputB[m]} => GearOf(byte, m) = -1
         /\ \A n \in Motors \ {m} : GearOf(byte, n) = GearOf(L, n)
<1>1. InputA[m] \in Bits /\ InputB[m] \in Bits /\ InputA[m] # InputB[m]
  BY Wiring DEF Motors, Bits
<1>2. ASSUME NEW n \in Motors \ {m}
      PROVE  {InputA[n], InputB[n]} \cap {InputA[m], InputB[m]} = {}
  BY Wiring DEF Motors
<1>3. \A n \in Motors \ {m} :
        /\ InputA[n] \in byte <=> InputA[n] \in L
        /\ InputB[n] \in byte <=> InputB[n] \in L
  BY <1>2
<1> QED
  BY <1>1, <1>3 DEF GearOf

(* A motor has no power while the shield is off or its register is 0. *)
LEMMA NoPower ==
  ASSUME NEW on, NEW pins, NEW registers, ~on \/ \A c \in Compare : registers[c] = 0
  PROVE  \A m \in Motors : DutyOf(on, pins, registers, m) = 0
BY Numbering DEF DutyOf

LEMMA DutyType == \A s \in Nat : Duty(s) \in 0 .. 255
<1> TAKE s \in Nat
<1>1. (s * 255) \div 100 \in Nat
  OBVIOUS
<1> QED
  BY <1>1 DEF Duty

LEMMA NoDuty == Duty(0) = 0
BY DEF Duty

-----------------------------------------------------------------------------
(* The firmware: its invariant.                                             *)

Gear(m)   == GearOf(outputs, m)
Power(m)  == DutyOf(enabled, ddr, OCR, m)
Asked     == Duty(order.speed)
Course(m) == D!Turn(order.course, m)

LEMMA ShieldTypes ==
  ASSUME TypeOK
  PROVE  /\ order.speed \in Nat /\ Asked \in 0 .. 255
         /\ latch_state \in SUBSET Bits /\ outputs \in SUBSET Bits
         /\ k \in 1 .. 4 /\ motor[k] \in Motors
         /\ OCR \in [Compare -> 0 .. 255]
<1>1. order.speed \in Nat
  <2>1. order.speed \in Speeds \/ order.speed = 0
    BY DEF TypeOK
  <2>2. Speeds \subseteq Nat
    BY MotorShieldAssumption
  <2>3. CASE order.speed \in Speeds
    BY <2>2, <2>3
  <2>4. CASE order.speed = 0
    BY <2>4
  <2> QED
    BY <2>1, <2>3, <2>4
<1> QED
  BY <1>1, DutyType, Numbering DEF TypeOK, Asked

LEMMA SetSpeedAt ==
  ASSUME NEW m \in Motors, NEW s, setSpeed(m, s)
  PROVE  OCR' = [OCR EXCEPT ![CompareOf[m]] = s]
BY Wiring DEF Motors, setSpeed, setPWM1, setPWM2, setPWM3, setPWM4

LEMMA InitPWMAt ==
  ASSUME NEW m \in Motors, initPWM(m)
  PROVE  /\ OCR' = [OCR EXCEPT ![CompareOf[m]] = 0]
         /\ ddr' = ddr \cup {PinOf[CompareOf[m]]}
BY Wiring DEF Motors, initPWM, initPWM1, initPWM2, initPWM3, initPWM4, InitPWM

(* The command of a motor turns it as the course says.                      *)
LEMMA CommandTurns ==
  ASSUME NEW course \in Courses, NEW n \in 1 .. 4
  PROVE  /\ course = "STOP" <=> Command(course, n) = "STOP"
         /\ course = "STOP" => D!Turn(course, motor[n]) = 0
         /\ course # "STOP" =>
              \/ Command(course, n) = "FORWARD" /\ D!Turn(course, motor[n]) = 1
              \/ Command(course, n) = "BACKWARD" /\ D!Turn(course, motor[n]) = -1
BY Wiring DEF Courses, Command, D!Turn, D!LeftTurn, D!RightTurn

(* run() switches its motor as the course says, and no other.               *)
LEMMA RunSwitches ==
  ASSUME TypeOK, outputs = latch_state, run(motor[k], Command(order.course, k))
  PROVE  /\ outputs' = latch_state' /\ outputs' \in SUBSET Bits
         /\ order.course = "STOP" => outputs' = outputs
         /\ order.course # "STOP" => GearOf(outputs', motor[k]) = Course(motor[k])
         /\ \A m \in Motors \ {motor[k]} : Gear(m)' = Gear(m)
<1>1. /\ k \in 1 .. 4 /\ motor[k] \in Motors /\ order.course \in Courses
      /\ latch_state \in SUBSET Bits /\ outputs \in SUBSET Bits
  BY ShieldTypes DEF TypeOK
<1>2. CASE order.course = "STOP"
  <2>1. UNCHANGED <<latch_state, outputs>>
    BY <1>1, <1>2, CommandTurns DEF run
  <2> QED
    BY <1>1, <1>2, <2>1 DEF Gear
<1>3. CASE order.course # "STOP"
  <2>1. MOTOR_A[motor[k]] = InputA[motor[k]] /\ MOTOR_B[motor[k]] = InputB[motor[k]]
    BY DEF MOTOR_A, MOTOR_B, InputA, InputB
  <2>2. \/ /\ latch_state' = (latch_state \cup {InputA[motor[k]]}) \ {InputB[motor[k]]}
           /\ Course(motor[k]) = 1
        \/ /\ latch_state' = (latch_state \ {InputA[motor[k]]}) \cup {InputB[motor[k]]}
           /\ Course(motor[k]) = -1
    BY <1>1, <1>3, <2>1, CommandTurns DEF run, Course
  <2>3. latch_state' \in SUBSET Bits
    BY <1>1, <2>2, Switch
  <2>4. outputs' = latch_state'
    <3>1. Transmit
      BY <1>1, <1>3, CommandTurns DEF run
    <3> QED
      BY <1>1, <2>3, <3>1, LatchTx DEF Transmit
  <2>5. /\ GearOf(latch_state', motor[k]) = Course(motor[k])
        /\ \A m \in Motors \ {motor[k]} : GearOf(latch_state', m) = GearOf(latch_state, m)
    BY <1>1, <2>2, Switch
  <2> QED
    BY <1>3, <2>3, <2>4, <2>5 DEF Gear
<1> QED
  BY <1>2, <1>3

LEMMA InitShield == Init => ShieldInv
<1> SUFFICES ASSUME Init PROVE ShieldInv
  OBVIOUS
<1>1. /\ order = [course |-> "STOP", speed |-> 0] /\ pc = "construct" /\ k = 1
      /\ latch_state = {} /\ outputs \in PowerOn /\ enabled = FALSE /\ ddr = {}
      /\ OCR = [c \in Compare |-> 0]
  BY DEF Init
<1>2. TypeOK
  <2>1. outputs \subseteq Bits /\ OCR \in [Compare -> 0 .. 255]
    BY <1>1, MotorShieldAssumption
  <2>2. enabled \in BOOLEAN
    BY <1>1
  <2> QED
    BY <1>1, <2>1, <2>2 DEF TypeOK, Courses
<1>3. Constructing
  BY <1>1 DEF Constructing
<1> QED
  BY <1>1, <1>2, <1>3 DEF ShieldInv

(* The step of a constructor; and a board that restarts.                    *)
LEMMA ConstructKeeps ==
  ASSUME ShieldInv,
         ConstructorEnables \/ ConstructorResets \/ ConstructorInits \/ Restart
  PROVE  ShieldInv'
<1>1. CASE Restart
  <2>1. /\ order' = [course |-> "STOP", speed |-> 0] /\ pc' = "construct" /\ k' = 1
        /\ latch_state' = {} /\ outputs' = outputs /\ enabled' = FALSE /\ ddr' = {}
        /\ OCR' = [c \in Compare |-> 0]
    BY <1>1 DEF Restart
  <2>2. TypeOK'
    <3>1. outputs' \subseteq Bits /\ OCR' \in [Compare -> 0 .. 255]
      BY <2>1 DEF TypeOK, ShieldInv
    <3>2. enabled' \in BOOLEAN
      BY <2>1
    <3> QED
      BY <2>1, <3>1, <3>2 DEF TypeOK, Courses
  <2>3. Constructing'
    BY <2>1 DEF Constructing
  <2> QED
    BY <2>1, <2>2, <2>3 DEF ShieldInv
<1>2. CASE ConstructorEnables
  <2>1. /\ pc = "construct" /\ pc' = "reset" /\ enabled' = TRUE /\ latch_state' = {}
        /\ UNCHANGED <<order, k, outputs, ddr, OCR>>
    BY <1>2 DEF ConstructorEnables, enable
  <2>2. TypeOK'
    BY <2>1 DEF TypeOK, ShieldInv
  <2>3. Constructing'
    BY <2>1 DEF Constructing, ShieldInv
  <2> QED
    BY <2>1, <2>2, <2>3 DEF ShieldInv
<1>3. CASE ConstructorResets
  <2>1. /\ pc = "reset" /\ pc' = "init" /\ latch_state' = latch_state
        /\ UNCHANGED <<order, k, enabled, ddr, OCR>>
    BY <1>3 DEF ConstructorResets
  <2>2. latch_state = {} /\ outputs \in SUBSET Bits
    BY <2>1, ShieldTypes DEF ShieldInv, Constructing
  <2>3. outputs' = {}
    BY <1>3, <2>1, <2>2, LatchTx DEF ConstructorResets, Transmit
  <2>4. TypeOK'
    BY <2>1, <2>3 DEF TypeOK, ShieldInv
  <2>5. Constructing'
    BY <2>1, <2>2, <2>3 DEF Constructing, ShieldInv
  <2> QED
    BY <2>1, <2>4, <2>5 DEF ShieldInv
<1>4. CASE ConstructorInits
  <2>1. TypeOK /\ Constructing /\ pc = "init" /\ k \in 1 .. 4 /\ motor[k] \in Motors
        /\ UNCHANGED <<order, enabled>>
    BY <1>4, ShieldTypes DEF ConstructorInits, ShieldInv
  <2>2. latch_state' = {} /\ outputs' = {} /\ enabled
    <3>1. latch_state = {} /\ outputs = {} /\ enabled
      BY <2>1 DEF Constructing
    <3>2. latch_state' = {}
      BY <1>4, <3>1 DEF ConstructorInits
    <3> QED
      BY <1>4, <3>1, <3>2, LatchTx DEF ConstructorInits, Transmit
  <2>3. /\ OCR' = [OCR EXCEPT ![CompareOf[motor[k]]] = 0]
        /\ ddr' = ddr \cup {PinOf[CompareOf[motor[k]]]}
    BY <1>4, <2>1, InitPWMAt DEF ConstructorInits
  <2>4. /\ \A c \in Compare : OCR'[c] = 0
        /\ OCR' \in [Compare -> 0 .. 255]
    BY <2>1, <2>3, ShieldTypes DEF Constructing
  <2>5. ddr' \subseteq {PinOf[c] : c \in Compare}
    BY <2>1, <2>3, Numbering DEF TypeOK
  <2>6. \A j \in 1 .. 4 : j < k + 1 => PinOf[CompareOf[motor[j]]] \in ddr'
    BY <2>1, <2>3 DEF Constructing
  <2>7. CASE k < 4
    <3>1. pc' = "construct" /\ k' = k + 1 /\ k' \in 1 .. 4
      BY <1>4, <2>1, <2>7 DEF ConstructorInits
    <3>2. TypeOK'
      BY <2>1, <2>2, <2>4, <2>5, <3>1 DEF TypeOK
    <3>3. Constructing'
      BY <2>1, <2>4, <2>6, <3>1 DEF Constructing
    <3> QED
      BY <2>1, <3>1, <3>2, <3>3 DEF ShieldInv, Constructing
  <2>8. CASE ~(k < 4)
    <3>1. pc' = "idle" /\ k' = 1 /\ k = 4
      BY <1>4, <2>1, <2>8 DEF ConstructorInits
    <3>2. TypeOK'
      BY <2>1, <2>2, <2>4, <2>5, <3>1 DEF TypeOK
    <3>3. order' = [course |-> "STOP", speed |-> 0] /\ Duty(order'.speed) = 0
      BY <2>1, NoDuty DEF Constructing
    <3>4. \A m \in Motors : /\ PinOf[CompareOf[m]] \in ddr'
                            /\ GearOf(outputs', m) # 2
                            /\ OCR'[CompareOf[m]] = 0
      BY <2>2, <2>4, <2>6, <3>1, Numbering, NoGear
    <3>5. Constructed'
      BY <2>1, <2>2, <3>1, <3>3, <3>4 DEF Constructed, AtDuty, InGear
    <3> QED
      BY <3>1, <3>2, <3>3, <3>5 DEF ShieldInv
  <2> QED
    BY <2>7, <2>8
<1> QED
  BY <1>1, <1>2, <1>3, <1>4

LEMMA CallKeeps ==
  ASSUME ShieldInv,
         NEW course \in Courses, NEW speed \in Speeds,
         move(course, IF course = "STOP" THEN 0 ELSE speed)
  PROVE  ShieldInv'
<1>1. /\ pc = "idle" /\ pc' = "speed" /\ k' = 1 /\ UNCHANGED shield
      /\ order' = [course |-> course, speed |-> IF course = "STOP" THEN 0 ELSE speed]
  BY DEF move
<1>2. TypeOK' /\ (order'.course = "STOP" => order'.speed = 0)
  BY <1>1 DEF TypeOK, ShieldInv, shield
<1>3. Constructed'
  BY <1>1 DEF Constructed, ShieldInv, shield
<1> QED
  BY <1>1, <1>2, <1>3 DEF ShieldInv

LEMMA SpeedKeeps ==
  ASSUME ShieldInv, MoveSetsSpeed
  PROVE  ShieldInv'
<1>1. /\ TypeOK /\ Constructed /\ pc = "speed" /\ k \in 1 .. 4 /\ motor[k] \in Motors
      /\ UNCHANGED <<order, latch_state, outputs, enabled, ddr>>
      /\ OCR \in [Compare -> 0 .. 255] /\ Duty(order.speed) \in 0 .. 255
  BY ShieldTypes DEF MoveSetsSpeed, ShieldInv, Asked
<1>2. OCR' = [OCR EXCEPT ![CompareOf[motor[k]]] = Duty(order.speed)]
  BY <1>1, SetSpeedAt DEF MoveSetsSpeed
<1>3. OCR' \in [Compare -> 0 .. 255]
  BY <1>1, <1>2
<1>4. \A j \in 1 .. 4 : j < k + 1 => OCR'[CompareOf[motor[j]]] = Duty(order.speed)
  <2> SUFFICES ASSUME NEW j \in 1 .. 4, j < k + 1
               PROVE  OCR'[CompareOf[motor[j]]] = Duty(order.speed)
    OBVIOUS
  <2>1. CompareOf[motor[j]] \in Compare
    BY Numbering
  <2>2. CASE j = k
    BY <1>1, <1>2, <2>1, <2>2
  <2>3. CASE j # k
    <3>1. CompareOf[motor[j]] # CompareOf[motor[k]] /\ j < k
      BY <1>1, <2>3, Numbering
    <3> QED
      BY <1>1, <1>2, <2>1, <3>1 DEF Constructed, AtDuty
  <2> QED
    BY <2>2, <2>3
<1>5. CASE k < 4
  <2>1. pc' = "speed" /\ k' = k + 1 /\ k' \in 1 .. 4
    BY <1>1, <1>5 DEF MoveSetsSpeed
  <2>2. TypeOK'
    BY <1>1, <1>3, <2>1 DEF TypeOK
  <2>3. Constructed'
    BY <1>1, <1>4, <2>1 DEF Constructed, AtDuty
  <2> QED
    BY <1>1, <2>1, <2>2, <2>3 DEF ShieldInv
<1>6. CASE ~(k < 4)
  <2>1. pc' = "run" /\ k' = 1 /\ k = 4
    BY <1>1, <1>6 DEF MoveSetsSpeed
  <2>2. TypeOK'
    BY <1>1, <1>3, <2>1 DEF TypeOK
  <2>3. \A m \in Motors : OCR'[CompareOf[m]] = Duty(order.speed)
    BY <1>4, <2>1, Numbering
  <2>4. Constructed'
    BY <1>1, <2>1, <2>3 DEF Constructed, AtDuty
  <2> QED
    BY <1>1, <2>1, <2>2, <2>4 DEF ShieldInv
<1> QED
  BY <1>5, <1>6

LEMMA RunKeeps ==
  ASSUME ShieldInv, MoveRuns
  PROVE  ShieldInv'
<1>1. /\ TypeOK /\ Constructed /\ pc = "run" /\ k \in 1 .. 4 /\ motor[k] \in Motors
      /\ UNCHANGED <<order, enabled, ddr, OCR>> /\ outputs = latch_state
      /\ order.course \in Courses
  BY ShieldTypes DEF MoveRuns, ShieldInv, Constructed, TypeOK
<1>2. /\ outputs' = latch_state' /\ outputs' \in SUBSET Bits
      /\ order.course = "STOP" => outputs' = outputs
      /\ order.course # "STOP" => GearOf(outputs', motor[k]) = Course(motor[k])
      /\ \A m \in Motors \ {motor[k]} : Gear(m)' = Gear(m)
  BY <1>1, RunSwitches DEF MoveRuns
<1>3. \A m \in Motors : GearOf(outputs', m) # 2
  <2> SUFFICES ASSUME NEW m \in Motors PROVE GearOf(outputs', m) # 2
    OBVIOUS
  <2>1. CASE order.course = "STOP" \/ m # motor[k]
    BY <1>1, <1>2, <2>1 DEF Constructed, Gear
  <2>2. CASE order.course # "STOP" /\ m = motor[k]
    BY <1>1, <1>2, <2>2, CommandTurns DEF Gear, Course
  <2> QED
    BY <2>1, <2>2
<1>4. order.course # "STOP" =>
        \A j \in 1 .. 4 : j < k + 1 => GearOf(outputs', motor[j]) = D!Turn(order.course, motor[j])
  <2> SUFFICES ASSUME order.course # "STOP", NEW j \in 1 .. 4, j < k + 1
               PROVE  GearOf(outputs', motor[j]) = D!Turn(order.course, motor[j])
    OBVIOUS
  <2>1. CASE j = k
    BY <1>2, <2>1 DEF Gear, Course
  <2>2. CASE j # k
    <3>1. motor[j] \in Motors \ {motor[k]} /\ j < k
      BY <1>1, <2>2, Numbering
    <3>2. GearOf(outputs, motor[j]) = D!Turn(order.course, motor[j])
      BY <1>1, <3>1 DEF Constructed, InGear
    <3> QED
      BY <1>2, <3>1, <3>2 DEF Gear
  <2> QED
    BY <2>1, <2>2
<1>5. CASE k < 4
  <2>1. pc' = "run" /\ k' = k + 1 /\ k' \in 1 .. 4
    BY <1>1, <1>5 DEF MoveRuns
  <2>2. TypeOK'
    BY <1>1, <1>2, <2>1 DEF TypeOK
  <2>3. Constructed'
    BY <1>1, <1>2, <1>3, <1>4, <2>1 DEF Constructed, AtDuty, InGear
  <2> QED
    BY <1>1, <2>1, <2>2, <2>3 DEF ShieldInv
<1>6. CASE ~(k < 4)
  <2>1. pc' = "idle" /\ k' = 1 /\ k = 4
    BY <1>1, <1>6 DEF MoveRuns
  <2>2. TypeOK'
    BY <1>1, <1>2, <2>1 DEF TypeOK
  <2>3. order.course # "STOP" =>
          \A m \in Motors : GearOf(outputs', m) = D!Turn(order.course, m)
    BY <1>4, <2>1, Numbering
  <2>4. Constructed'
    BY <1>1, <1>2, <1>3, <2>1, <2>3 DEF Constructed, AtDuty, InGear
  <2> QED
    BY <1>1, <2>1, <2>2, <2>4 DEF ShieldInv
<1> QED
  BY <1>5, <1>6

LEMMA ShieldKeeps ==
  ASSUME ShieldInv, Moved \/ Step \/ Restart \/ UNCHANGED vars
  PROVE  ShieldInv'
<1>1. CASE UNCHANGED vars
  <2>1. UNCHANGED <<order, pc, k, latch_state, outputs, enabled, ddr, OCR>>
    BY <1>1 DEF vars, shield
  <2> QED
    BY <2>1 DEF ShieldInv, TypeOK, Constructing, Constructed, InGear, AtDuty
<1> QED
  BY <1>1, ConstructKeeps, CallKeeps, SpeedKeeps, RunKeeps DEF Moved, Step

-----------------------------------------------------------------------------
(* The firmware: every step is one of Drive.                                *)

(* A step of the code while a call is under way.                            *)
Adjusts ==
  /\ pc # "idle" /\ order' = order
  /\ \A m \in Motors :
       /\ Gear(m)' \in {Gear(m), 0, Course(m)}
       /\ Power(m)' \in {Power(m), 0, Asked}
       /\ Gear(m)' \notin {Gear(m), 0} => Power(m) = Asked
       /\ pc' = "idle" => Power(m)' = Asked /\ (Power(m)' # 0 => Gear(m)' = Course(m))

LEMMA AdjustsRefines == Adjusts => D!Adjust
<1> SUFFICES ASSUME Adjusts PROVE D!Adjust
  OBVIOUS
<1> DEFINE gear == [m \in Motors |-> GearOf(outputs, m)]
           duty == [m \in Motors |-> DutyOf(enabled, ddr, OCR, m)]
           ask  == [course |-> order.course, duty |-> Duty(order.speed)]
<1>1. \A m \in Motors :
        /\ gear[m] = Gear(m) /\ gear'[m] = Gear(m)'
        /\ duty[m] = Power(m) /\ duty'[m] = Power(m)'
  BY DEF Gear, Power
<1>2. ask' = ask /\ ask.duty = Asked /\ \A m \in Motors : D!Turn(ask.course, m) = Course(m)
  BY DEF Adjusts, Asked, Course
<1>3. ask'.duty = Asked /\ \A m \in Motors : D!Turn(ask'.course, m) = Course(m)
  BY <1>2
<1> HIDE DEF gear, duty, ask
<1>4. \A m \in Motors :
        /\ gear'[m] \in {gear[m], 0, D!Turn(ask.course, m)}
        /\ duty'[m] \in {duty[m], 0, ask.duty}
        /\ gear'[m] \notin {gear[m], 0} => duty[m] = ask.duty
  BY <1>1, <1>2 DEF Adjusts
<1>5. (pc # "idle")' = FALSE =>
        \A m \in Motors : duty'[m] = ask'.duty /\ (duty'[m] # 0 => gear'[m] = D!Turn(ask'.course, m))
  BY <1>1, <1>3 DEF Adjusts
<1>6. pc # "idle"
  BY DEF Adjusts
<1> QED
  BY <1>2, <1>4, <1>5, <1>6 DEF D!Adjust, D!Obeys, gear, duty, ask

LEMMA InitRefines == Init => D!Init
<1> SUFFICES ASSUME Init PROVE D!Init
  OBVIOUS
<1>1. [course |-> order.course, duty |-> Duty(order.speed)] = [course |-> "STOP", duty |-> 0]
  BY NoDuty DEF Init
<1>2. [m \in Motors |-> GearOf(outputs, m)] \in [Motors -> -1 .. 2]
  BY GearType
<1>3. [m \in Motors |-> DutyOf(enabled, ddr, OCR, m)] = [m \in Motors |-> 0]
  <2>1. \A m \in Motors : DutyOf(enabled, ddr, OCR, m) = 0
    BY NoPower DEF Init
  <2> QED
    BY <2>1
<1>4. (pc # "idle") \in BOOLEAN
  OBVIOUS
<1> QED
  BY <1>1, <1>2, <1>3, <1>4 DEF D!Init, D!AtRest

LEMMA RestartRefines == Restart => D!Restart
<1> SUFFICES ASSUME Restart PROVE D!Restart
  OBVIOUS
<1>1. [course |-> order.course, duty |-> Duty(order.speed)]' = [course |-> "STOP", duty |-> 0]
  BY NoDuty DEF Restart
<1>2. [m \in Motors |-> GearOf(outputs, m)]' = [m \in Motors |-> GearOf(outputs, m)]
  BY DEF Restart
<1>3. [m \in Motors |-> DutyOf(enabled, ddr, OCR, m)]' = [m \in Motors |-> 0]
  <2>1. \A m \in Motors : DutyOf(enabled', ddr', OCR', m) = 0
    BY NoPower DEF Restart
  <2> QED
    BY <2>1
<1>4. (pc # "idle")' \in BOOLEAN
  OBVIOUS
<1> QED
  BY <1>1, <1>2, <1>3, <1>4 DEF D!Restart, D!AtRest

LEMMA CallRefines ==
  ASSUME ShieldInv, ShieldInv',
         NEW course \in Courses, NEW speed \in Speeds,
         move(course, IF course = "STOP" THEN 0 ELSE speed)
  PROVE  D!Order
<1>1. pc = "idle" /\ pc' = "speed" /\ UNCHANGED shield
  BY DEF move
<1>2. [course |-> order.course, duty |-> Duty(order.speed)]' \in D!Orders
  <2>1. order'.course \in Courses /\ Duty(order'.speed) \in 0 .. 255
    <3>1. TypeOK'
      BY DEF ShieldInv
    <3>2. order'.speed \in Nat
      <4>1. order'.speed = IF course = "STOP" THEN 0 ELSE speed
        BY DEF move
      <4>2. speed \in Nat
        BY MotorShieldAssumption
      <4> QED
        BY <4>1, <4>2
    <3> QED
      BY <3>1, <3>2, DutyType DEF TypeOK
  <2> QED
    BY <2>1 DEF D!Orders, D!Courses, Courses
<1>3. [m \in Motors |-> GearOf(outputs, m)]' = [m \in Motors |-> GearOf(outputs, m)]
  BY <1>1 DEF shield
<1>4. [m \in Motors |-> DutyOf(enabled, ddr, OCR, m)]' = [m \in Motors |-> DutyOf(enabled, ddr, OCR, m)]
  BY <1>1 DEF shield
<1>5. ~(pc # "idle") /\ (pc # "idle")' = TRUE
  BY <1>1
<1> QED
  BY <1>2, <1>3, <1>4, <1>5 DEF D!Order

(* Constructors switch nothing on. *)
LEMMA ConstructAdjusts ==
  ASSUME ShieldInv, ShieldInv',
         ConstructorEnables \/ ConstructorResets \/ ConstructorInits
  PROVE  Adjusts
<1>1. pc \in {"construct", "reset", "init"} /\ order' = order /\ Constructing
  BY DEF ConstructorEnables, ConstructorResets, ConstructorInits, ShieldInv
<1>2. Asked = 0 /\ \A m \in Motors : Power(m) = 0
  BY <1>1, NoDuty, NoPower DEF Asked, Power, Constructing
<1>3. \A m \in Motors : Power(m)' = 0
  <2>1. \A c \in Compare : OCR'[c] = 0
    <3>1. CASE OCR' = OCR
      BY <1>1, <3>1 DEF Constructing
    <3>2. CASE ConstructorInits
      <4>1. OCR' = [OCR EXCEPT ![CompareOf[motor[k]]] = 0]
        BY <3>2, ShieldTypes, InitPWMAt DEF ConstructorInits, ShieldInv
      <4> QED
        BY <1>1, <4>1, ShieldTypes DEF Constructing, ShieldInv
    <3> QED
      BY <3>1, <3>2 DEF ConstructorEnables, ConstructorResets
  <2> QED
    BY <2>1, NoPower DEF Power
<1>4. \A m \in Motors : Gear(m)' \in {Gear(m), 0}
  <2>1. CASE ConstructorEnables
    BY <2>1 DEF ConstructorEnables, Gear
  <2>2. CASE ConstructorResets
    <3>1. pc' = "init" /\ outputs' = {}
      BY <2>2 DEF ConstructorResets, ShieldInv, Constructing
    <3> QED
      BY <3>1, NoGear DEF Gear
  <2>3. CASE ConstructorInits
    <3>1. latch_state = {} /\ latch_state' = {} /\ outputs \in SUBSET Bits
      BY <1>1, <2>3, ShieldTypes DEF ConstructorInits, Constructing, ShieldInv
    <3>2. outputs' = {}
      BY <2>3, <3>1, LatchTx DEF ConstructorInits, Transmit
    <3> QED
      BY <3>2, NoGear DEF Gear
  <2> QED
    BY <2>1, <2>2, <2>3
<1> QED
  BY <1>1, <1>2, <1>3, <1>4 DEF Adjusts

(* The power of a motor once the shield is set up.                          *)
LEMMA PowerIs ==
  ASSUME Constructed
  PROVE  \A m \in Motors : Power(m) = OCR[CompareOf[m]]
<1>1. enabled /\ \A m \in Motors : PinOf[CompareOf[m]] \in ddr
  BY DEF Constructed
<1>2. \A m \in Motors : DutyOf(enabled, ddr, OCR, m) = OCR[CompareOf[m]]
  BY <1>1 DEF DutyOf
<1> QED
  BY <1>2 DEF Power

LEMMA SpeedAdjusts ==
  ASSUME ShieldInv, ShieldInv', MoveSetsSpeed
  PROVE  Adjusts
<1>1. /\ pc = "speed" /\ pc' \in {"speed", "run"} /\ Constructed /\ Constructed'
      /\ motor[k] \in Motors /\ OCR \in [Compare -> 0 .. 255]
      /\ UNCHANGED <<order, outputs>>
  BY ShieldTypes DEF MoveSetsSpeed, ShieldInv
<1>2. OCR' = [OCR EXCEPT ![CompareOf[motor[k]]] = Asked]
  BY <1>1, SetSpeedAt DEF MoveSetsSpeed, Asked
<1>3. \A m \in Motors : Power(m) = OCR[CompareOf[m]]
  BY <1>1, PowerIs
<1>4. \A m \in Motors : Power(m)' = OCR'[CompareOf[m]]
  <2>1. enabled' /\ \A m \in Motors : PinOf[CompareOf[m]] \in ddr'
    BY <1>1 DEF Constructed
  <2>2. \A m \in Motors : DutyOf(enabled', ddr', OCR', m) = OCR'[CompareOf[m]]
    BY <2>1 DEF DutyOf
  <2> QED
    BY <2>2 DEF Power
<1>5. \A m \in Motors : OCR'[CompareOf[m]] \in {OCR[CompareOf[m]], Asked}
  BY <1>1, <1>2, Numbering
<1>6. \A m \in Motors : Gear(m)' = Gear(m)
  BY <1>1 DEF Gear
<1> QED
  BY <1>1, <1>3, <1>4, <1>5, <1>6 DEF Adjusts

LEMMA RunAdjusts ==
  ASSUME ShieldInv, ShieldInv', MoveRuns
  PROVE  Adjusts
<1>1. /\ TypeOK /\ pc = "run" /\ pc' \in {"run", "idle"} /\ Constructed /\ Constructed'
      /\ motor[k] \in Motors /\ k \in 1 .. 4 /\ outputs = latch_state
      /\ UNCHANGED <<order, enabled, ddr, OCR>>
  BY ShieldTypes DEF MoveRuns, ShieldInv, Constructed
<1>2. \A m \in Motors : Power(m) = Asked /\ Power(m)' = Asked
  <2>1. \A m \in Motors : Power(m) = Asked
    BY <1>1, PowerIs DEF Constructed, AtDuty, Asked
  <2> QED
    BY <1>1, <2>1 DEF Power
<1>3. /\ order.course = "STOP" => outputs' = outputs
      /\ order.course # "STOP" => GearOf(outputs', motor[k]) = Course(motor[k])
      /\ \A m \in Motors \ {motor[k]} : Gear(m)' = Gear(m)
  BY <1>1, RunSwitches DEF MoveRuns
<1>4. \A m \in Motors : Gear(m)' \in {Gear(m), Course(m)}
  <2> SUFFICES ASSUME NEW m \in Motors PROVE Gear(m)' \in {Gear(m), Course(m)}
    OBVIOUS
  <2>1. CASE order.course = "STOP"
    BY <1>3, <2>1 DEF Gear
  <2>2. CASE order.course # "STOP" /\ m = motor[k]
    BY <1>3, <2>2 DEF Gear
  <2>3. CASE m # motor[k]
    BY <1>3, <2>3
  <2> QED
    BY <2>1, <2>2, <2>3
<1>5. ASSUME pc' = "idle", NEW m \in Motors, Power(m)' # 0
      PROVE  Gear(m)' = Course(m)
  <2>1. order.course # "STOP"
    <3>1. Asked # 0
      BY <1>2, <1>5
    <3> QED
      BY <3>1, NoDuty DEF Asked, ShieldInv
  <2> QED
    BY <1>1, <1>5, <2>1 DEF Constructed, InGear, Gear, Course
<1> QED
  BY <1>1, <1>2, <1>4, <1>5 DEF Adjusts

LEMMA ShieldRefines ==
  ASSUME ShieldInv, ShieldInv', Moved \/ Step \/ Restart \/ UNCHANGED vars
  PROVE  [D!Next]_(D!vars)
<1>1. CASE UNCHANGED vars
  <2>1. /\ [course |-> order.course, duty |-> Duty(order.speed)]'
             = [course |-> order.course, duty |-> Duty(order.speed)]
        /\ (pc # "idle")' = (pc # "idle")
        /\ [m \in Motors |-> GearOf(outputs, m)]' = [m \in Motors |-> GearOf(outputs, m)]
        /\ [m \in Motors |-> DutyOf(enabled, ddr, OCR, m)]'
             = [m \in Motors |-> DutyOf(enabled, ddr, OCR, m)]
    BY <1>1 DEF vars, shield
  <2> QED
    BY <2>1 DEF D!vars
<1>2. CASE Moved
  BY <1>2, CallRefines DEF Moved, D!Next
<1>3. CASE Step
  BY <1>3, ConstructAdjusts, SpeedAdjusts, RunAdjusts, AdjustsRefines DEF Step, D!Next
<1>4. CASE Restart
  BY <1>4, RestartRefines DEF D!Next
<1> QED
  BY <1>1, <1>2, <1>3, <1>4

(* What the pair does to the firmware.                                      *)
LEMMA BothToShield ==
  [BothNext]_<<vars, bare>> => Moved \/ Step \/ Restart \/ UNCHANGED vars
BY DEF BothNext, BothMove, ShieldStep, BareStep, Moved

LEMMA ShieldStays ==
  ASSUME ShieldInv, [BothNext]_<<vars, bare>>
  PROVE  ShieldInv' /\ [D!Next]_(D!vars)
BY BothToShield, ShieldKeeps, ShieldRefines

(* The inductive invariant of the motor shield library: from the first       *)
(* clearing of the shift register on, what it puts out is latch_state, no   *)
(* bridge is on both ways, and the motors k has passed obey the order, over *)
(* any calls and restarts in the middle of them.                            *)
THEOREM ShieldInvariance == BothSpec => []ShieldInv
<1>1. BothInit => ShieldInv
  BY InitShield DEF BothInit
<1>2. ShieldInv /\ [BothNext]_<<vars, bare>> => ShieldInv'
  BY ShieldStays
<1> QED
  BY <1>1, <1>2, PTL DEF BothSpec

(* move() and the motor shield library implement Drive, for any speeds a    *)
(* call may name and whatever the shift register comes up with: every wheel *)
(* obeys between two calls, none is put into a new gear at an old duty, and *)
(* none turns after a restart before it is told to.                         *)
THEOREM ShieldDrives == BothSpec => ShieldImplementsDrive
<1>1. BothInit => ShieldInv /\ D!Init
  BY InitShield, InitRefines DEF BothInit
<1>2. ShieldInv /\ [BothNext]_<<vars, bare>> => ShieldInv' /\ [D!Next]_(D!vars)
  BY ShieldStays
<1> QED
  BY <1>1, <1>2, PTL DEF BothSpec, ShieldImplementsDrive, D!Spec

(* No bridge has both inputs switched on, once the shift register has been  *)
(* cleared for the first time.                                              *)
THEOREM BridgesAreSafe == BothSpec => []NeverBothWays
<1>1. ShieldInv => NeverBothWays
  <2> SUFFICES ASSUME ShieldInv, pc \notin {"construct", "reset"}
               PROVE  \A m \in Motors : GearOf(outputs, m) # 2
    BY DEF NeverBothWays
  <2>1. CASE pc = "init"
    <3>1. outputs = {}
      BY <2>1 DEF ShieldInv, Constructing
    <3> QED
      BY <3>1, NoGear
  <2>2. CASE pc # "init"
    BY <2>2 DEF ShieldInv, TypeOK, Constructed
  <2> QED
    BY <2>1, <2>2
<1> QED
  BY <1>1, ShieldInvariance, PTL

-----------------------------------------------------------------------------
(* The rewrite.                                                             *)

LEMMA BareKeeps == BareInv /\ [BothNext]_<<vars, bare>> => BareInv'
<1> SUFFICES ASSUME BareInv, [BothNext]_<<vars, bare>> PROVE BareInv'
  OBVIOUS
<1>1. CASE B!Enable
  <2>1. {B!Pins[line] : line \in DOMAIN B!Pins} \subseteq {"PB4", "PD4", "PB0", "PD7"}
    BY DEF B!Pins
  <2> QED
    BY <1>1, <2>1 DEF BareInv, B!Enable, B!enable
<1>2. CASE B!StartInits
  BY <1>2 DEF BareInv, B!StartInits, B!initPWM1, B!initPWM2, B!initPWM3, B!initPWM4
<1>3. CASE B!StartResets \/ B!setSpeed \/ B!MoveRuns
  BY <1>3 DEF BareInv, B!StartResets, B!setSpeed, B!MoveRuns
<1>4. CASE B!Restart
  BY <1>4 DEF BareInv, B!Restart
<1>5. CASE BothMove
  BY <1>5 DEF BareInv, BothMove, B!move, B!shield
<1>6. CASE UNCHANGED bare
  BY <1>6 DEF BareInv, bare
<1> QED
  BY <1>1, <1>2, <1>3, <1>4, <1>5, <1>6 DEF BothNext, ShieldStep, BareStep, B!Step

(* Whatever the two are called with, and wherever they restart, the rewrite *)
(* never gives power to a wheel.                                            *)
THEOREM RewriteIsPowerless == BothSpec => []RewriteDrivesNothing
<1>1. BothInit => BareInv
  BY DEF BothInit, B!Init, BareInv
<1>2. BareInv => RewriteDrivesNothing
  BY DEF BareInv, RewriteDrivesNothing, B!NoWheelHasPower, B!Enabled, B!ControlPins, B!DutyOf
<1> QED
  BY <1>1, <1>2, BareKeeps, PTL DEF BothSpec
===============================================================================
