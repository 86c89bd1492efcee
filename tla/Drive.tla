--------------------------------- MODULE Drive ----------------------------------
(***************************************************************************)
(* What robotlib.ino may expect of the code that drives the four wheels.   *)
(* A call gives a course and a duty; when it returns every wheel turns as  *)
(* the course says, at that duty.  While it is under way a wheel knows     *)
(* nothing but the gear and the duty of before, none, and those ordered,   *)
(* and it is put into a new gear only at the new duty.  MotorShield        *)
(* implements this module; MotorLib is a rewrite that should.              *)
(*                                                                         *)
(* A wheel's gear is 1 or -1, the direction its motor is switched to, 0    *)
(* when it is switched to neither, and 2 when it is switched to both.  At  *)
(* duty 0 the motor has no power, whatever the gear is.                    *)
(***************************************************************************)
EXTENDS Integers

CONSTANTS
  Wheels, LeftWheels,  (* the wheels this is about; which are on the left   *)
  MaxDuty

VARIABLES order, busy, gear, duty

vars == <<order, busy, gear, duty>>

Courses == {"GO", "BACK", "CCW", "CW", "STOP"}
Orders == [course : Courses, duty : 0 .. MaxDuty]
AtRest == [course |-> "STOP", duty |-> 0]

(* The motors of the two sides are mounted in opposite directions, so both  *)
(* sides turn the same way to turn the robot on the spot.                   *)
LeftTurn  == [GO |-> 1,  BACK |-> -1, CCW |-> -1, CW |-> 1, STOP |-> 0]
RightTurn == [GO |-> -1, BACK |-> 1,  CCW |-> -1, CW |-> 1, STOP |-> 0]
Turn(course, w) == IF w \in LeftWheels THEN LeftTurn[course] ELSE RightTurn[course]

Obeys(w) ==
  /\ duty[w] = order.duty
  /\ duty[w] # 0 => gear[w] = Turn(order.course, w)

Init ==
  /\ order = AtRest /\ busy \in BOOLEAN
  /\ gear \in [Wheels -> -1 .. 2]
  /\ duty = [w \in Wheels |-> 0]

Order ==
  /\ ~busy /\ busy' = TRUE
  /\ order' \in Orders
  /\ UNCHANGED <<gear, duty>>

Adjust ==
  /\ busy
  /\ \A w \in Wheels :
       /\ gear'[w] \in {gear[w], 0, Turn(order.course, w)}
       /\ duty'[w] \in {duty[w], 0, order.duty}
       /\ gear'[w] \notin {gear[w], 0} => duty[w] = order.duty
  /\ busy' = FALSE => \A w \in Wheels : Obeys(w)'
  /\ UNCHANGED order

(* The board restarts: no power until the next order. *)
Restart ==
  /\ order' = AtRest /\ busy' \in BOOLEAN
  /\ duty' = [w \in Wheels |-> 0]
  /\ UNCHANGED gear

Next == Order \/ Adjust \/ Restart

Spec == Init /\ [][Next]_vars

(* Between two calls every wheel does what the last one asked for.          *)
ObeyedWhenIdle == ~busy => \A w \in Wheels : Obeys(w)
===============================================================================
