--------------------------- MODULE SerialLinkProofs ---------------------------
(***************************************************************************)
(* How long a sender must wait for the Arduino to lose no byte: proved for *)
(* every packet size and every size of the two rings.                      *)
(***************************************************************************)
EXTENDS SerialLink, TLAPS

LEMMA NextPacketNumber ==
  \A p, k \in Nat : p * (k + 1) = p * k + p /\ p * k \in Nat
OBVIOUS

(* The numbers the steps compute with.                                      *)
LEMMA Numbers ==
  ASSUME TypeOK
  PROVE  /\ PacketSize \in Nat \ {0} /\ RxRing \in Nat /\ TxRing \in Nat /\ gap \in Nat
         /\ RxRing > 0 /\ RxRing < PacketSize
         /\ since \in Nat /\ since <= gap
         /\ ring \in Nat /\ ring <= RxRing /\ tx \in Nat /\ tx <= TxRing /\ pending \in Nat
         /\ frame.got \in Nat /\ frame.got < PacketSize
         /\ written \in Nat /\ wire \in Nat /\ first \in Nat
         /\ dropped \in Nat /\ blocks \in Nat
         /\ frame = [start |-> frame.start, got |-> frame.got, whole |-> frame.whole]
         /\ frame.start \in Nat /\ frame.whole \in BOOLEAN
BY SerialLinkAssumption DEF TypeOK

-----------------------------------------------------------------------------
(* Type correctness.                                                        *)

LEMMA InitType == Init => TypeOK
<1> SUFFICES ASSUME Init PROVE TypeOK
  OBVIOUS
<1>1. /\ 0 \in 0 .. Packets /\ gap \in Gaps /\ gap \in 0 .. gap /\ 0 \in 0 .. RxRing
      /\ 0 \in 0 .. TxRing /\ 0 \in 0 .. PacketSize /\ 0 \in 0 .. PacketSize - 1
  BY SerialLinkAssumption DEF Init
<1> QED
  BY <1>1 DEF Init, TypeOK, Verdicts

LEMMA ExtendedFields ==
  ASSUME TypeOK, NEW n \in Nat
  PROVE  /\ Extended(n).got = frame.got + n
         /\ Extended(n) \in [start : Nat, got : Nat, whole : BOOLEAN]
<1>1. /\ frame = [start |-> frame.start, got |-> frame.got, whole |-> frame.whole]
      /\ frame.got \in Nat /\ frame.start \in Nat /\ frame.whole \in BOOLEAN /\ first \in Nat
  BY Numbers
<1>2. CASE frame.got = 0
  BY <1>1, <1>2 DEF Extended
<1>3. CASE frame.got # 0
  <2>1. Extended(n) = [start |-> frame.start, got |-> frame.got + n,
                       whole |-> frame.whole /\ frame.start + frame.got = first]
    BY <1>1, <1>3 DEF Extended
  <2> QED
    BY <1>1, <2>1
<1> QED
  BY <1>2, <1>3

LEMMA NextType == TypeOK /\ [Next]_vars => TypeOK'
<1> SUFFICES ASSUME TypeOK, [Next]_vars PROVE TypeOK'
  OBVIOUS
<1>1. CASE Write
  <2>1. written' \in 0 .. Packets /\ since' \in 0 .. gap /\ rushed' \in BOOLEAN
    BY <1>1, SerialLinkAssumption DEF Write, TypeOK, arduino
  <2> QED
    BY <1>1, <2>1 DEF Write, TypeOK, arduino
<1>2. CASE Tick
  <2>1. since' \in 0 .. gap
    BY <1>2, Numbers DEF Tick, TypeOK
  <2>2. wire' \in Nat /\ first' \in Nat /\ dropped' \in Nat /\ ring' \in 0 .. RxRing
    BY <1>2, Numbers DEF Tick, ByteArrives, TypeOK
  <2>3. tx' \in 0 .. TxRing /\ pending' \in 0 .. PacketSize
    BY <1>2, Numbers DEF Tick, ByteLeaves, TypeOK
  <2> QED
    BY <1>2, <2>1, <2>2, <2>3 DEF Tick, TypeOK
<1>3. CASE ReadIncomplete
  <2>1. frame'.got = frame.got + ring /\ frame' \in [start : Nat, got : Nat, whole : BOOLEAN]
    BY <1>3, ExtendedFields, Numbers DEF ReadIncomplete
  <2>2. frame'.got \in 0 .. PacketSize - 1
    BY <1>3, <2>1, Numbers DEF ReadIncomplete
  <2>3. frame' \in [start : Nat, got : 0 .. PacketSize - 1, whole : BOOLEAN]
    BY <2>1, <2>2
  <2>4. ring' \in 0 .. RxRing
    BY <1>3, Numbers DEF ReadIncomplete
  <2> QED
    BY <1>3, <2>3, <2>4 DEF ReadIncomplete, TypeOK
<1>4. CASE ReadPacket
  <2>1. frame' \in [start : Nat, got : 0 .. PacketSize - 1, whole : BOOLEAN]
    BY <1>4, Numbers DEF ReadPacket
  <2>2. ring' \in 0 .. RxRing /\ blocks' \in Nat
    BY <1>4, Numbers DEF ReadPacket
  <2>3. tx' \in 0 .. TxRing /\ pending' \in 0 .. PacketSize
    BY <1>4, Numbers DEF ReadPacket, sendResponse, TypeOK
  <2>4. replies' \in [Verdicts -> Nat]
    BY <1>4 DEF ReadPacket, TypeOK
  <2> QED
    BY <1>4, <2>1, <2>2, <2>3, <2>4 DEF ReadPacket, TypeOK
<1>5. CASE UNCHANGED vars
  BY <1>5 DEF vars, TypeOK, arduino
<1> QED
  BY <1>1, <1>2, <1>3, <1>4, <1>5 DEF Next

(* The rings never hold more than they can, however the Pi writes.          *)
THEOREM TypeCorrect == Spec => []TypeOK
<1> QED
  BY InitType, NextType, PTL DEF Spec

-----------------------------------------------------------------------------
(* The sender that waited.                                                  *)

LEMMA InitPace == Init => PaceInv
<1> SUFFICES ASSUME Init PROVE PaceInv
  OBVIOUS
<1>1. TypeOK
  BY InitType
<1>2. PacketSize * 0 = 0
  BY SerialLinkAssumption
<1>3. ASSUME Waited PROVE OnTime
  BY <1>1, <1>2, <1>3, Numbers DEF Init, OnTime, Waited, WaitsLongEnough, Queued, Complete
<1>4. Aligned /\ Silent /\ NoFalseComplaint
  BY DEF Init, Aligned, Silent, NoFalseComplaint, Verdicts
<1> QED
  BY <1>1, <1>3, <1>4 DEF PaceInv

(* While loop() is inside Serial.write(), fewer bytes of the next packet    *)
(* have come than the input ring holds.                                     *)
LEMMA RoomWhileBlocked ==
  ASSUME WaitsLongEnough, TypeOK, OnTime, Blocked \/ ring = 0, Queued > 0
  PROVE  ring < RxRing
<1>1. TypeOK /\ since < PacketSize /\ frame.got + ring = since
  BY Numbers DEF OnTime, Complete
<1>2. CASE ring = 0
  BY <1>1, <1>2, Numbers
<1>3. CASE Blocked
  <2>1. tx = TxRing /\ tx + pending <= 2 * PacketSize - gap - since /\ pending > 0
    BY <1>1, <1>3, Numbers DEF Blocked, OnTime, AnswerLeft
  <2> QED
    BY <1>1, <2>1, Numbers DEF WaitsLongEnough
<1> QED
  BY <1>2, <1>3

(* When the sender writes, the packet before is over; a command that did    *)
(* not wait for the whole pause follows the HELLO, which is not answered.   *)
LEMMA WrittenLate ==
  ASSUME WaitsLongEnough, ~rushed', TypeOK, OnTime, Silent, Write
  PROVE  /\ since > PacketSize /\ frame.got + ring = 0 /\ Queued = 0
         /\ tx + pending > 0 => since = gap
<1>1. since > PacketSize
  <2>1. CASE since = gap
    BY <2>1, Numbers DEF WaitsLongEnough
  <2>2. CASE written = 1
    <3>1. ~(since <= PacketSize)
      BY <2>2, Zenon DEF Write
    <3> QED
      BY <3>1, Numbers
  <2> QED
    BY <2>1, <2>2 DEF Write, MayWrite
<1>2. tx + pending > 0 => since = gap
  BY Numbers DEF Silent, Write, MayWrite
<1> QED
  BY <1>1, <1>2, Numbers DEF OnTime, Complete

LEMMA NextOnTime ==
  ASSUME WaitsLongEnough, ~rushed', TypeOK, OnTime, Silent, [Next]_vars
  PROVE  OnTime'
<1>1. TypeOK /\ TypeOK'
  BY NextType
<1>2. CASE Write
  <2>1. /\ since' = 0 /\ frame.got + ring = 0 /\ Queued = 0 /\ since > PacketSize
        /\ tx + pending > 0 => since = gap
    BY <1>1, <1>2, WrittenLate DEF Write
  <2>2. Queued' = Queued + PacketSize
    BY <1>1, <1>2, Numbers, NextPacketNumber DEF Write, Queued, arduino
  <2>3. tx + pending > 0 => tx + pending <= 2 * PacketSize - gap
    BY <1>1, <2>1, Numbers DEF OnTime, AnswerLeft, Complete, WaitsLongEnough
  <2>4. /\ tx' = tx /\ pending' = pending /\ frame' = frame /\ ring' = ring
        /\ dropped' = dropped /\ gap' = gap
    BY <1>2 DEF Write, arduino
  <2>5. AnswerLeft' = 2 * PacketSize - gap
    BY <1>1, <2>1, <2>4, Numbers DEF AnswerLeft
  <2> QED
    BY <1>1, <2>1, <2>2, <2>3, <2>4, <2>5, Numbers DEF OnTime
<1>3. CASE Tick
  <2>1. ~Complete
    <3>1. CASE Blocked
      BY <1>1, <3>1, Numbers DEF Blocked, OnTime, Complete, AnswerLeft, WaitsLongEnough
    <3>2. CASE ring = 0
      BY <1>1, <3>2, Numbers DEF Complete
    <3> QED
      BY <1>3, <3>1, <3>2 DEF Tick
  <2>2. CASE since < PacketSize
    <3>1. Queued = PacketSize - since /\ Queued > 0 /\ frame.got + ring = since
      BY <1>1, <2>1, <2>2, Numbers DEF OnTime
    <3>2. ring < RxRing
      BY <1>3, <3>1, RoomWhileBlocked DEF Tick
    <3>3. /\ since' = since + 1 /\ ring' = ring + 1 /\ dropped' = dropped
          /\ wire' = wire + 1 /\ written' = written /\ frame' = frame /\ gap' = gap
      BY <1>1, <1>3, <2>2, <3>1, <3>2, Numbers DEF Tick, ByteArrives, WaitsLongEnough
    <3>4. Queued' = Queued - 1
      BY <1>1, <3>3, Numbers, NextPacketNumber DEF Queued
    <3>5. frame'.got + ring' = since'
      BY <1>1, <3>1, <3>3, Numbers
    <3>6. /\ pending' > 0 => tx' = TxRing
          /\ tx' + pending' > 0 => tx' + pending' = tx + pending - 1
      BY <1>1, <1>3, Numbers DEF Tick, ByteLeaves, OnTime
    <3>7. tx + pending > 0 => tx + pending <= 2 * PacketSize - gap - since
      BY <2>2 DEF OnTime, AnswerLeft
    <3>8. AnswerLeft' = 2 * PacketSize - gap - (since + 1)
      BY <1>1, <2>2, <3>3, <3>5, Numbers DEF AnswerLeft, Complete
    <3>9. tx' + pending' > 0 => tx' + pending' <= AnswerLeft'
      BY <1>1, <3>6, <3>7, <3>8, Numbers
    <3>10. since' < PacketSize \/ Complete'
      BY <1>1, <2>2, <3>3, <3>5, Numbers DEF Complete
    <3>11. Queued' = IF since' < PacketSize THEN PacketSize - since' ELSE 0
      BY <1>1, <2>2, <3>1, <3>3, <3>4, Numbers
    <3>12. dropped' = 0
      BY <3>3 DEF OnTime
    <3> QED
      BY <1>1, <3>5, <3>6, <3>9, <3>10, <3>11, <3>12 DEF OnTime
  <2>3. CASE since >= PacketSize
    <3>1. Queued = 0 /\ frame.got + ring = 0
      BY <1>1, <2>1, <2>3, Numbers DEF OnTime
    <3>2. /\ since' >= since /\ since' <= since + 1 /\ since' >= PacketSize
      BY <1>1, <1>3, <2>3, Numbers DEF Tick
    <3>3. /\ ring' = ring /\ dropped' = dropped /\ wire' = wire
          /\ written' = written /\ frame' = frame
      BY <1>3, <3>1 DEF Tick, ByteArrives
    <3>4. /\ pending' > 0 => tx' = TxRing
          /\ tx' + pending' > 0 => tx' + pending' = tx + pending - 1
      BY <1>1, <1>3, Numbers DEF Tick, ByteLeaves, OnTime
    <3>5. tx + pending > 0 => tx + pending <= 2 * PacketSize - since
      BY <1>1, <2>1, <2>3, Numbers DEF OnTime, AnswerLeft
    <3>6. Queued' = 0 /\ frame'.got + ring' = 0 /\ dropped' = 0
      BY <3>1, <3>3 DEF Queued, OnTime
    <3>7. since' \in Nat /\ PacketSize \in Nat \ {0} /\ ~(since' < PacketSize)
      BY <1>1, <3>2, SerialLinkAssumption DEF TypeOK
    <3>8. AnswerLeft' = 2 * PacketSize - since'
      BY <3>6, <3>7 DEF AnswerLeft, Complete
    <3>9. tx' + pending' > 0 => tx' + pending' <= AnswerLeft'
      <4>1. tx' + pending' > 0 => tx' + pending' <= 2 * PacketSize - since - 1
        BY <1>1, <3>4, <3>5, Numbers
      <4>2. 2 * PacketSize - since - 1 <= 2 * PacketSize - since'
        BY <1>1, <3>2, <3>7, Numbers
      <4>3. since \in Nat /\ tx' \in Int /\ pending' \in Int
        BY <1>1, <1>3, Numbers DEF Tick, ByteLeaves
      <4>4. tx' + pending' \in Int
        BY <4>3
      <4> QED
        BY <1>1, <3>7, <3>8, <4>1, <4>2, <4>4, Numbers
    <3> QED
      BY <1>1, <3>2, <3>4, <3>6, <3>7, <3>9 DEF OnTime
  <2> QED
    BY <1>1, <2>2, <2>3, Numbers
<1>4. CASE ReadIncomplete
  <2>1. frame'.got = frame.got + ring /\ ring' = 0
    BY <1>1, <1>4, ExtendedFields, Numbers DEF ReadIncomplete
  <2>2. frame'.got + ring' = frame.got + ring
    BY <1>1, <2>1, Numbers
  <2>3. UNCHANGED <<gap, written, since, wire, dropped, tx, pending>>
    BY <1>4 DEF ReadIncomplete
  <2> QED
    BY <1>1, <2>2, <2>3 DEF OnTime, Queued, Complete, AnswerLeft
<1>5. CASE ReadPacket
  <2>1. ring > 0 /\ frame.got + ring >= PacketSize
    BY <1>1, <1>5, Numbers DEF ReadPacket
  <2>2. Complete
    BY <1>1, <2>1, Numbers DEF OnTime
  <2>3. tx = 0 /\ pending = 0
    BY <1>1, <2>2, Numbers DEF OnTime, AnswerLeft, Complete, WaitsLongEnough
  <2>4. /\ frame'.got = 0 /\ ring' = 0
        /\ UNCHANGED <<written, since, wire, dropped>>
    BY <1>1, <1>5, <2>2, Numbers DEF ReadPacket, Complete
  <2>5. /\ pending' > 0 => tx' = TxRing
        /\ tx' + pending' <= PacketSize
    <3>1. CASE UNCHANGED <<tx, pending>>
      BY <1>1, <2>3, <3>1, Numbers
    <3>2. CASE sendResponse
      BY <1>1, <2>3, <3>2, Numbers DEF sendResponse
    <3> QED
      BY <1>5, <3>1, <3>2 DEF ReadPacket
  <2>6. AnswerLeft' = PacketSize /\ ~(since' < PacketSize) /\ frame'.got + ring' = 0
    BY <1>1, <2>2, <2>4, Numbers DEF AnswerLeft, Complete
  <2>7. Queued' = 0 /\ dropped' = 0 /\ since' >= PacketSize
    BY <1>1, <2>2, <2>4, Numbers DEF OnTime, Queued, Complete
  <2> QED
    BY <1>1, <2>5, <2>6, <2>7 DEF OnTime
<1>6. CASE UNCHANGED vars
  BY <1>6 DEF vars, OnTime, TypeOK, Queued, Complete, AnswerLeft, arduino
<1> QED
  BY <1>2, <1>3, <1>4, <1>5, <1>6 DEF Next

(* The blocks stay in step with the packets.                                *)
LEMMA NextAligned ==
  ASSUME WaitsLongEnough, ~rushed', TypeOK, OnTime, Silent, Aligned, [Next]_vars
  PROVE  Aligned'
<1>1. TypeOK /\ TypeOK' /\ OnTime'
  BY NextType, NextOnTime
<1>2. CASE Write
  <2>1. frame.got + ring = 0
    BY <1>1, <1>2, WrittenLate
  <2>2. frame' = frame /\ ring' = ring
    BY <1>2 DEF Write, arduino
  <2> QED
    BY <1>1, <2>1, <2>2, Numbers DEF Aligned
<1>3. CASE Tick
  <2>1. frame' = frame /\ written' = written
    BY <1>3 DEF Tick
  <2>2. CASE Queued = 0
    BY <1>3, <2>1, <2>2 DEF Tick, ByteArrives, Aligned
  <2>3. CASE Queued > 0
    <3>1. ring < RxRing
      BY <1>1, <1>3, <2>3, RoomWhileBlocked DEF Tick
    <3>2. wire' = wire + 1 /\ ring' = ring + 1 /\ first' = IF ring = 0 THEN wire ELSE first
      BY <1>1, <1>3, <2>3, <3>1, Numbers DEF Tick, ByteArrives
    <3>3. wire' - ring' = wire - ring
      BY <1>1, <3>2, Numbers
    <3>4. first' = wire' - ring'
      BY <1>1, <3>2, <3>3, Numbers DEF Aligned
    <3>5. written > 0
      BY <1>1, <2>3, Numbers, NextPacketNumber DEF Queued
    <3>6. wire - ring - frame.got = PacketSize * (written - 1)
      <4>1. Queued = PacketSize - since /\ frame.got + ring = since
        BY <1>1, <2>3, Numbers DEF OnTime, Complete
      <4>2. PacketSize * written = PacketSize * (written - 1) + PacketSize
        BY <1>1, <3>5, Numbers, NextPacketNumber
      <4>3. PacketSize * written \in Nat /\ PacketSize * (written - 1) \in Nat
        BY <1>1, <3>5, Numbers, NextPacketNumber
      <4> QED
        BY <1>1, <4>1, <4>2, <4>3, Numbers DEF Queued
    <3> QED
      BY <1>1, <2>1, <3>2, <3>3, <3>4, <3>5, <3>6 DEF Aligned
  <2> QED
    BY <1>1, <2>2, <2>3, Numbers DEF OnTime
<1>4. CASE ReadIncomplete
  <2>1. /\ frame'.got = frame.got + ring /\ ring' = 0 /\ ring > 0
        /\ wire' = wire /\ written' = written
    BY <1>1, <1>4, ExtendedFields, Numbers DEF ReadIncomplete
  <2>2. frame'.whole /\ frame'.start = wire - ring - frame.got
    <3>1. CASE frame.got = 0
      BY <1>1, <1>4, <2>1, <3>1, Numbers DEF ReadIncomplete, Extended, Aligned
    <3>2. CASE frame.got # 0
      <4>1. frame.got > 0 /\ frame.whole /\ frame.start = wire - ring - frame.got /\ first = wire - ring
        BY <1>1, <2>1, <3>2, Numbers DEF Aligned
      <4>2. frame'.start = frame.start /\ (frame.whole /\ frame.start + frame.got = first => frame'.whole)
        BY <1>1, <1>4, <3>2, Numbers DEF ReadIncomplete, Extended
      <4> QED
        BY <1>1, <4>1, <4>2, Numbers
    <3> QED
      BY <3>1, <3>2
  <2> QED
    BY <1>1, <2>1, <2>2, Numbers DEF Aligned
<1>5. CASE ReadPacket
  <2>1. frame'.got = 0 /\ ring' = 0
    BY <1>1, <1>5, Numbers DEF ReadPacket, OnTime, Complete
  <2> QED
    BY <2>1 DEF Aligned
<1>6. CASE UNCHANGED vars
  BY <1>6 DEF vars, arduino, Aligned
<1> QED
  BY <1>2, <1>3, <1>4, <1>5, <1>6 DEF Next

(* The block readPacket() completes is the packet written last.             *)
LEMMA BlockIsPacket ==
  ASSUME TypeOK, OnTime, Aligned, ReadPacket
  PROVE  /\ Extended(PacketSize - frame.got).start = PacketSize * (written - 1)
         /\ Extended(PacketSize - frame.got).whole
         /\ written > 0
<1> DEFINE n == PacketSize - frame.got
           block == Extended(n)
<1>1. n \in Nat /\ n > 0 /\ ring = n /\ ring > 0
  BY Numbers DEF ReadPacket, OnTime, Complete
<1>2. block.start = wire - ring - frame.got /\ block.whole
  <2>1. CASE frame.got = 0
    BY <1>1, <2>1, Numbers DEF Extended, Aligned
  <2>2. CASE frame.got # 0
    <3>1. frame.got > 0 /\ frame.whole /\ frame.start = wire - ring - frame.got /\ first = wire - ring
      BY <1>1, <2>2, Numbers DEF Aligned
    <3>2. block.start = frame.start /\ (frame.whole /\ frame.start + frame.got = first => block.whole)
      BY <2>2, Numbers DEF Extended
    <3> QED
      BY <3>1, <3>2, Numbers
  <2> QED
    BY <2>1, <2>2
<1>3. written > 0 /\ block.start = PacketSize * (written - 1)
  BY <1>1, <1>2, Numbers DEF Aligned
<1> QED
  BY <1>2, <1>3

(* A block that is a packet is answered OK.                                 *)
LEMMA NextUnderstood ==
  ASSUME TypeOK, OnTime, Aligned, NoFalseComplaint, [Next]_vars
  PROVE  NoFalseComplaint'
<1>1. CASE ReadPacket
  <2> DEFINE block == Extended(PacketSize - frame.got)
  <2>1. IsPacketStart(block.start) /\ block.whole
    <3>1. written - 1 \in 0 .. Packets /\ block.start = PacketSize * (written - 1) /\ block.whole
      BY <1>1, BlockIsPacket, SerialLinkAssumption DEF TypeOK
    <3> QED
      BY <3>1 DEF IsPacketStart
  <2>2. Outcomes(block) = {"OK"}
    BY <2>1 DEF Outcomes
  <2>3. \/ replies' = replies
        \/ \E v \in Outcomes(block) : replies' = [replies EXCEPT ![v] = @ + 1]
    BY <1>1 DEF ReadPacket
  <2> HIDE DEF block
  <2>4. replies'["BAD"] = replies["BAD"] /\ replies'["CHECKSUM_BAD"] = replies["CHECKSUM_BAD"]
    BY <2>2, <2>3 DEF TypeOK, Verdicts
  <2> QED
    BY <2>4 DEF NoFalseComplaint
<1>2. CASE ~ReadPacket
  <2>1. replies' = replies
    BY <1>2 DEF Next, Write, Tick, ReadIncomplete, vars, arduino
  <2> QED
    BY <2>1 DEF NoFalseComplaint
<1> QED
  BY <1>1, <1>2

(* The HELLO is not answered.                                               *)
LEMMA NextSilent ==
  ASSUME TypeOK, OnTime, Aligned, Silent, [Next]_vars
  PROVE  Silent'
<1>1. CASE ReadPacket
  <2>1. written' = written
    BY <1>1 DEF ReadPacket
  <2>2. CASE written <= 1
    <3>1. written = 1
      BY <1>1, <2>2, BlockIsPacket, Numbers
    <3>2. PacketSize * (written - 1) = 0
      BY <3>1, Numbers
    <3>3. IsHello(Extended(PacketSize - frame.got))
      BY <1>1, <3>2, BlockIsPacket DEF IsHello
    <3>4. tx' = tx /\ pending' = pending
      BY <1>1, <3>3 DEF ReadPacket
    <3> QED
      BY <2>1, <3>4 DEF Silent
  <2>3. CASE written > 1
    BY <2>1, <2>3, Numbers DEF Silent
  <2> QED
    BY <2>2, <2>3, Numbers
<1>2. CASE Tick
  BY <1>2, Numbers DEF Tick, ByteLeaves, Silent
<1>3. CASE Write
  <2>1. written' = written + 1 /\ tx' = tx /\ pending' = pending
    BY <1>3 DEF Write, arduino
  <2>2. written' <= 1 => written <= 1
    BY <2>1, Numbers
  <2> QED
    BY <2>1, <2>2 DEF Silent
<1>4. CASE ReadIncomplete \/ UNCHANGED vars
  BY <1>4 DEF ReadIncomplete, vars, arduino, Silent
<1> QED
  BY <1>1, <1>2, <1>3, <1>4 DEF Next

LEMMA NextPace == PaceInv /\ [Next]_vars => PaceInv'
<1> SUFFICES ASSUME PaceInv, [Next]_vars PROVE PaceInv'
  OBVIOUS
<1>1. TypeOK /\ TypeOK'
  BY NextType DEF PaceInv
<1>2. gap' = gap /\ (rushed => rushed')
  <2>1. CASE Write
    BY <2>1, Zenon DEF Write
  <2>2. CASE ~Write
    BY <2>2 DEF Next, Tick, ReadIncomplete, ReadPacket, vars, arduino
  <2> QED
    BY <2>1, <2>2
<1>3. ASSUME Waited' PROVE (OnTime /\ Aligned /\ Silent /\ NoFalseComplaint)'
  <2>1. WaitsLongEnough /\ ~rushed' /\ Waited
    BY <1>2, <1>3 DEF Waited, WaitsLongEnough
  <2>2. OnTime /\ Aligned /\ Silent /\ NoFalseComplaint
    BY <2>1 DEF PaceInv
  <2> QED
    BY <1>1, <2>1, <2>2, NextOnTime, NextAligned, NextSilent, NextUnderstood
<1> QED
  BY <1>1, <1>3 DEF PaceInv

(* The inductive invariant.                                                 *)
THEOREM Invariance == Spec => []PaceInv
<1> QED
  BY InitPace, NextPace, PTL DEF Spec

(* A sender that waits longer than a packet, and long enough for the rings, *)
(* after its commands, and longer than a packet after its HELLO, never      *)
(* makes the Arduino lose a byte.                                           *)
THEOREM WaitingLosesNothing == Spec => []NothingDropped
<1>1. PaceInv => NothingDropped
  BY DEF PaceInv, OnTime, NothingDropped
<1> QED
  BY <1>1, Invariance, PTL

(* Nor does a command of such a sender wait behind another.                 *)
THEOREM WaitingQueuesNothing == Spec => []NoStaleCommand
<1>1. PaceInv => NoStaleCommand
  BY Numbers DEF PaceInv, OnTime, NoStaleCommand
<1> QED
  BY <1>1, Invariance, PTL

(* Nor does the firmware complain of one.                                   *)
THEOREM WaitingIsUnderstood == Spec => []NoComplaintOfPatient
<1>1. PaceInv => NoComplaintOfPatient
  BY DEF PaceInv, NoComplaintOfPatient
<1> QED
  BY <1>1, Invariance, PTL
=============================================================================
