-------------------------------- MODULE Shield ----------------------------------
(***************************************************************************)
(* The hardware under the two motor libraries: the motor shield and the    *)
(* pins of the ATmega2560.  External: known from how the code in src/      *)
(* uses it.  The shield's shift register (a 74HC595) switches the eight    *)
(* bridge inputs, two for each motor; a timer's compare register sets the  *)
(* duty of a motor, through a pin that must be an output.  The register    *)
(* keeps its outputs when the processor restarts; its enable input and the *)
(* duty inputs of the bridges are pulled to "off", so a pin that is not an *)
(* output switches nothing on.                                             *)
(*                                                                         *)
(* A byte is the set of its bits that are 1.                               *)
(***************************************************************************)
EXTENDS Integers

(* What the shield's control lines are wired to: the pins 12, 4, 8 and 7 of *)
(* an Arduino Mega.                                                         *)
ControlPins == [latch |-> "PB6", clock |-> "PG5", data |-> "PH5", enable |-> "PH4"]

Bits == 0 .. 7
Motors == 1 .. 4

(* A clock pulse: the bit at the input goes in at 0, the others move up. *)
Shift(register, bit) ==
  {b + 1 : b \in register \ {7}} \cup (IF bit THEN {0} ELSE {})

(* The compare registers and the pin each of them drives. *)
Compare == {"OCR1A", "OCR3A", "OCR3C", "OCR4A"}
PinOf == [OCR1A |-> "PB5", OCR3A |-> "PE3", OCR3C |-> "PE5", OCR4A |-> "PH3"]

(* The inputs of a motor's bridge, in the shift register's outputs, and the *)
(* compare register that sets its duty: the wiring of the shield.           *)
InputA == <<2, 1, 5, 0>>
InputB == <<3, 4, 7, 6>>
CompareOf == <<"OCR1A", "OCR3C", "OCR4A", "OCR3A">>

GearOf(outputs, m) ==
  LET a == InputA[m] \in outputs
      b == InputB[m] \in outputs
  IN  IF a /\ b THEN 2 ELSE IF a THEN 1 ELSE IF b THEN -1 ELSE 0

(* enabled: the shield's enable pin is driven low.  ddr: the output pins.   *)
DutyOf(enabled, ddr, OCR, m) ==
  IF enabled /\ PinOf[CompareOf[m]] \in ddr THEN OCR[CompareOf[m]] ELSE 0
===============================================================================
