-------------------------------- MODULE Robot ---------------------------------
(***************************************************************************)
(* What the firmware makes of the commands, as its operator sees it: where *)
(* the robot is heading, and which motion ends by itself.  The counters,   *)
(* the interrupts and the order of loop() are in Motion, which implements  *)
(* this module.                                                            *)
(*                                                                         *)
(* pending is the test deltaDist > 0 that all of loop()'s stop checks      *)
(* depend on.  A move sets it; a turn finds it as the motion before it has *)
(* left it.                                                                *)
(***************************************************************************)

VARIABLES heading, pending

Moves == {"FORWARD", "BACKWARD"}
Turns == {"LEFT", "RIGHT"}

Init == heading = "STOP" /\ pending = FALSE

(* Faulty variant: the distance asked for is not set. *)
MoveUnmeasured(d) == d \in Moves /\ heading' = d /\ pending' = pending

(* forward() and backward(). *)
Move(d) == d \in Moves /\ heading' = d /\ pending' = TRUE

(* Faulty variant: left and right change places. *)
TurnOther(d) ==
  /\ d \in Turns /\ pending' = pending
  /\ heading' \in Turns \ {d}

(* left() and right(). *)
Turn(d) == d \in Turns /\ heading' = d /\ pending' = pending

(* stop() at a command. *)
Halt == heading' = "STOP" /\ pending' = pending

(* loop() ends a move ... *)
MoveEnds == pending /\ heading \in Moves /\ heading' = "STOP" /\ pending' = FALSE

(* ... or a turn, and does not reset the distance then.                     *)
TurnEnds == pending /\ heading \in Turns /\ heading' = "STOP" /\ pending' = pending

(* It resets it at its next pass.                                           *)
Settle == pending /\ heading = "STOP" /\ pending' = FALSE /\ heading' = heading

ByItself == MoveEnds \/ TurnEnds \/ Settle

Next ==
  \/ \E d \in Moves : Move(d)
  \/ \E d \in Turns : Turn(d)
  \/ Halt
  \/ ByItself

Spec == Init /\ [][Next]_<<heading, pending>>

(* A robot that drives has a distance pending, so loop() does check it.     *)
MovesArePending == heading \in Moves => pending
===============================================================================
