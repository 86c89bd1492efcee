------------------------------ MODULE TwoFirmwares ------------------------------
(***************************************************************************)
(* The firmware and its bare-metal rewrite, side by side: both are given   *)
(* the same calls of move(), each makes its own steps, and each may        *)
(* restart.  The variables of the first are those of MotorShield, the      *)
(* variables of the second those of MotorLib with a "b" before the name.   *)
(* Only the first drives anything.                                         *)
(***************************************************************************)
EXTENDS MotorShield

VARIABLES border, bpc, bk, blatch_state, boutputs, bddr, bOCR

bare == <<border, bpc, bk, blatch_state, boutputs, bddr, bOCR>>

B == INSTANCE MotorLib WITH
       order <- border, pc <- bpc, k <- bk, latch_state <- blatch_state,
       outputs <- boutputs, ddr <- bddr, OCR <- bOCR

BothInit == Init /\ B!Init

(* A call both get when neither is in the middle of one. *)
BothMove ==
  \E course \in Courses, speed \in Speeds :
    LET s == IF course = "STOP" THEN 0 ELSE speed
    IN  move(course, s) /\ B!move(course, s)

ShieldStep == (Step \/ Restart) /\ UNCHANGED bare
BareStep   == (B!Step \/ B!Restart) /\ UNCHANGED vars

BothNext == BothMove \/ ShieldStep \/ BareStep

BothSpec == BothInit /\ [][BothNext]_<<vars, bare>>

-----------------------------------------------------------------------------
(* Properties. *)

(* The rewrite, given the calls that drive the wheels of the firmware, never*)
(* gives a wheel power: it sets up the timers of the Mega, which the shield *)
(* passes on only when it is enabled, and enables another board's pin.      *)
RewriteDrivesNothing == B!NoWheelHasPower

(* No bridge is switched both ways at once, from the first clearing of the  *)
(* shift register on: no command leaves both of a motor's bits set, over    *)
(* any sequence of calls and restarts.  The rewrite, which cannot clear the *)
(* register, is not part of this.                                           *)
NeverBothWays ==
  pc \notin {"construct", "reset"} => \A m \in Motors : GearOf(outputs, m) # 2

-----------------------------------------------------------------------------
(* The inductive invariant of the proof about the rewrite: it makes outputs *)
(* of its own pins and of those of the timers.                              *)
BareInv == bddr \subseteq {"PB4", "PD4", "PB0", "PD7", "PD5", "PE5", "PH3", "PE3"}
===============================================================================
