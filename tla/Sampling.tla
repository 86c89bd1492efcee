------------------------------- MODULE Sampling --------------------------------
(***************************************************************************)
(* What the operator may take a line of sensor readings for.  The sensor   *)
(* board keeps one cell for each sensor; the Pi takes the cells one after  *)
(* the other, each at one instant, and then shows the line.  Sensors        *)
(* implements this module with interrupts, a shift register and transfers  *)
(* of two bytes.                                                           *)
(*                                                                         *)
(* fresh says that the sample in hand was begun on a board that has been   *)
(* up ever since.  A sample that is not fresh may come out as anything.     *)
(***************************************************************************)
EXTENDS Naturals, Sequences

CONSTANTS NumCells, Values

VARIABLES cell, up, fresh, taken

vars == <<cell, up, fresh, taken>>

Cells == 0 .. NumCells - 1

Init ==
  /\ cell = [k \in Cells |-> 0]
  /\ up = FALSE /\ fresh = FALSE
  /\ taken = << >>

(* The board starts; the sample in hand, if any, stays what it was. *)
Start ==
  /\ ~up /\ up' = TRUE
  /\ fresh' \in BOOLEAN
  /\ UNCHANGED <<cell, taken>>

(* The board restarts.  A sample already taken may be lost with it. *)
Restart ==
  /\ up' = FALSE /\ fresh' = FALSE
  /\ cell' = [k \in Cells |-> 0]
  /\ \/ taken' = taken
     \/ taken # << >> /\ taken' = SubSeq(taken, 1, Len(taken) - 1)

Store ==
  /\ up
  /\ \E k \in Cells, v \in Values : cell' = [cell EXCEPT ![k] = v]
  /\ UNCHANGED <<up, fresh, taken>>

(* The next cell is read: its sample is the value it has at that instant. *)
Take ==
  /\ fresh /\ Len(taken) < NumCells
  /\ taken' = Append(taken, cell[Len(taken)])
  /\ UNCHANGED <<cell, up, fresh>>

(* A sample begun before the board was up. *)
TakeAny ==
  /\ ~fresh /\ Len(taken) < NumCells
  /\ \E v \in Values : taken' = Append(taken, v)
  /\ fresh' \in {fresh, up}
  /\ UNCHANGED <<cell, up>>

(* The line has been shown; the next one is begun. *)
NextLine ==
  /\ Len(taken) = NumCells /\ taken' = << >>
  /\ UNCHANGED <<cell, up, fresh>>

Next == Start \/ Restart \/ Store \/ Take \/ TakeAny \/ NextLine

Spec == Init /\ [][Next]_vars
===============================================================================
