------------------------------ MODULE SerialLink ------------------------------
(***************************************************************************)
(* The serial line between the Raspberry Pi and the Arduino, timed in      *)
(* bytes: at 9600 baud both directions move one byte per tick.  The Pi     *)
(* writes packets of PacketSize bytes.  The Arduino's UART interrupt puts  *)
(* the bytes that arrive in a ring and throws them away when it is full;   *)
(* loop() empties the ring, answers each packet with one of the same size, *)
(* and stays inside Serial.write() until the answer fits in the output     *)
(* ring.  While it is there nobody empties the input ring.                 *)
(*                                                                         *)
(* Bytes are numbered by their place in what the Pi writes; packet k is    *)
(* the bytes from PacketSize * k on.  Packet 0 is the HELLO that           *)
(* alex-pi.cpp and tls-alex-server.cpp start with.  assemble() is taken    *)
(* as module Assembler shows it to be: it cuts what it is given in blocks. *)
(***************************************************************************)
EXTENDS Integers

CONSTANTS
  PacketSize,  (* PACKET_SIZE, 140                                          *)
  RxRing,      (* bytes the Arduino's input ring holds, 63                  *)
  TxRing,      (* bytes its output ring and UART hold, 64                   *)
  Gaps,        (* ticks senders leave after a command: 192 for the          *)
               (* usleep(0.2 s) of alex-pi.cpp, 0 for the TLS server        *)
  Packets      (* bound: packets the Pi writes, the HELLO included          *)

ASSUME SerialLinkAssumption ==
  /\ PacketSize \in Nat \ {0} /\ RxRing \in 1 .. PacketSize - 1
  /\ TxRing \in Nat /\ Gaps \subseteq Nat /\ Packets \in Nat

VARIABLES
  gap,      (* what the sender at the other end leaves                      *)
  written,  (* packets the Pi has written                                   *)
  since,    (* ticks since the last write, counted up to gap                *)
  rushed,   (* history: the first command was written before the HELLO and  *)
            (* one tick more were over                                      *)
  wire,     (* bytes that have gone over the line: the next one's number    *)
  first,    (* number of the first byte in the input ring                   *)
  ring,     (* bytes in the input ring                                      *)
  dropped,  (* bytes thrown away                                            *)
  frame,    (* block under assembly: number of its first byte, bytes in it, *)
            (* and whether these are consecutive                            *)
  blocks,   (* blocks taken off the stream                                  *)
  tx,       (* bytes in the output ring                                     *)
  pending,  (* bytes Serial.write() still has to put there                  *)
  replies   (* answers so far, of each kind                                 *)

arduino == <<first, ring, dropped, frame, blocks, tx, pending, replies>>
vars == <<gap, written, since, rushed, wire, arduino>>

Verdicts == {"OK", "BAD", "CHECKSUM_BAD"}

(* Bytes written and not yet on the line. *)
Queued == PacketSize * written - wire

Init ==
  /\ gap \in Gaps
  /\ written = 0 /\ since = gap /\ rushed = FALSE /\ wire = 0
  /\ first = 0 /\ ring = 0 /\ dropped = 0
  /\ frame = [start |-> 0, got |-> 0, whole |-> TRUE] /\ blocks = 0
  /\ tx = 0 /\ pending = 0
  /\ replies = [v \in Verdicts |-> 0]

(* Faulty variant: the program sleeps after no packet. *)
MayWriteAtOnce == TRUE

(* The program sends its HELLO and goes on; it sleeps after a command. *)
MayWrite == written = 1 \/ since = gap

(* sendPacket(): the whole packet is handed to the tty. *)
Write ==
  /\ written < Packets /\ MayWrite
  /\ written' = written + 1
  /\ since' = 0
  /\ rushed' = (rushed \/ (written = 1 /\ since <= PacketSize))
  /\ UNCHANGED <<gap, wire, arduino>>

(* A byte arrives: the receive interrupt keeps it if there is room. *)
ByteArrives ==
  IF Queued = 0
  THEN UNCHANGED <<wire, first, ring, dropped>>
  ELSE /\ wire' = wire + 1
       /\ first' = IF ring = 0 THEN wire ELSE first
       /\ \/ ring < RxRing /\ ring' = ring + 1 /\ dropped' = dropped
          \/ ring = RxRing /\ ring' = ring /\ dropped' = dropped + 1

(* A byte leaves; Serial.write() puts the next one in its place. *)
ByteLeaves ==
  IF pending > 0
  THEN pending' = pending - 1 /\ tx' = tx
  ELSE pending' = 0 /\ tx' = IF tx > 0 THEN tx - 1 ELSE 0

(* loop() is inside Serial.write(). *)
Blocked == pending > 0

(* The time of a byte.  A pass of loop() that does not wait is shorter. *)
Tick ==
  /\ Blocked \/ ring = 0
  /\ Queued > 0 \/ tx > 0 \/ since < gap
  /\ since' = IF since < gap THEN since + 1 ELSE since
  /\ ByteArrives
  /\ ByteLeaves
  /\ UNCHANGED <<gap, written, rushed, frame, blocks, replies>>

IsPacketStart(n) == \E k \in 0 .. Packets : n = PacketSize * k

(* deserialize() of a block.  Anything but the start of a packet fails the  *)
(* test of the magic number.  With bytes missing inside, the test that      *)
(* fails is that of the bytes that are in the place of the magic number or  *)
(* the checksum, or neither: the checksum is an exclusive or of the data.   *)
Outcomes(block) ==
  IF ~IsPacketStart(block.start) THEN {"BAD"}
  ELSE IF block.whole THEN {"OK"} ELSE Verdicts

(* Faulty variant: the HELLO is answered, as waitForHello() would. *)
IsNothing(block) == FALSE

(* HELLO is accepted and not answered; every other block is. *)
IsHello(block) == block.start = 0 /\ block.whole

(* The block under assembly once n of the bytes in the ring are added. *)
Extended(n) ==
  IF frame.got = 0
  THEN [start |-> first, got |-> n, whole |-> TRUE]
  ELSE [frame EXCEPT !.got = @ + n, !.whole = @ /\ frame.start + frame.got = first]

(* Faulty variant: the output ring takes a whole answer at any time. *)
sendUnblocked == tx' = tx + PacketSize /\ pending' = 0

sendResponse ==
  IF tx + PacketSize > TxRing
  THEN tx' = TxRing /\ pending' = tx + PacketSize - TxRing
  ELSE tx' = tx + PacketSize /\ pending' = 0

(* readPacket() empties the ring without completing a packet. *)
ReadIncomplete ==
  /\ ~Blocked /\ ring > 0 /\ frame.got + ring < PacketSize
  /\ frame' = Extended(ring)
  /\ ring' = 0
  /\ UNCHANGED <<gap, written, since, rushed, wire, first, dropped, blocks, tx, pending, replies>>

(* readPacket() completes one, and loop() answers it. *)
ReadPacket ==
  LET n == PacketSize - frame.got
      block == Extended(n)
  IN  /\ ~Blocked /\ ring > 0 /\ ring >= n
      /\ frame' = [start |-> first + n, got |-> ring - n, whole |-> TRUE]
      /\ ring' = 0
      /\ blocks' = blocks + 1
      /\ IF IsHello(block)
         THEN UNCHANGED <<tx, pending, replies>>
         ELSE /\ \E v \in Outcomes(block) : replies' = [replies EXCEPT ![v] = @ + 1]
              /\ sendResponse
      /\ UNCHANGED <<gap, written, since, rushed, wire, first, dropped>>

Next == Write \/ Tick \/ ReadIncomplete \/ ReadPacket

(* Bytes move while there are any, and loop() runs.  The Pi need not write. *)
Fairness == WF_vars(Tick) /\ WF_vars(ReadIncomplete \/ ReadPacket)

Spec == Init /\ [][Next]_vars /\ Fairness

-----------------------------------------------------------------------------
(* The sender waits a packet and one tick more, so that the answer is under *)
(* way, and long enough that what is left of the answer when the next       *)
(* packet starts fits in the two rings.                                     *)
WaitsLongEnough ==
  /\ gap > PacketSize
  /\ gap + TxRing + RxRing >= 2 * PacketSize

(* It did so after the HELLO as well, which no code makes it do: a command  *)
(* right behind the HELLO comes late, and the next one while loop() still   *)
(* answers it.                                                              *)
Waited == WaitsLongEnough /\ ~rushed

(* Every variable keeps its type and the rings their sizes.                 *)
TypeOK ==
  /\ gap \in Gaps
  /\ written \in 0 .. Packets /\ since \in 0 .. gap /\ rushed \in BOOLEAN
  /\ wire \in Nat /\ first \in Nat /\ dropped \in Nat /\ blocks \in Nat
  /\ ring \in 0 .. RxRing /\ tx \in 0 .. TxRing /\ pending \in 0 .. PacketSize
  /\ frame \in [start : Nat, got : 0 .. PacketSize - 1, whole : BOOLEAN]
  /\ replies \in [Verdicts -> Nat]

(* The Arduino loses no byte of a sender that waited.                       *)
NothingDropped == Waited => dropped = 0

(* "Tell the Pi that it sent us a packet with a bad magic number": the      *)
(* firmware complains of a packet only if the Pi sent a bad one, and the    *)
(* Pi of this model sends none.                                             *)
NoFalseComplaint == replies["BAD"] = 0 /\ replies["CHECKSUM_BAD"] = 0

(* It does not complain of what a sender that waited has written.           *)
NoComplaintOfPatient == Waited => NoFalseComplaint

(* A command a sender that waited writes is the next thing on the line: it  *)
(* does not stand behind earlier ones, so the robot acts on it 140 bytes    *)
(* later.                                                                   *)
NoStaleCommand == Waited => Queued <= PacketSize

(* Every command of such a sender is answered OK; the first is, however     *)
(* soon after the HELLO it comes, because loop() does not answer the HELLO. *)
EveryCommandAnswered ==
  \A n \in 1 .. Packets :
    WaitsLongEnough /\ written = n /\ (rushed => n = 2) ~> replies["OK"] >= n - 1

-----------------------------------------------------------------------------
(* The inductive invariant of a sender that waited long enough.             *)

(* Nothing has been answered before the first command.                      *)
Silent == written <= 1 => tx + pending = 0

(* The byte that completes a packet has come and loop() has not seen it.    *)
Complete == since = PacketSize /\ frame.got + ring = PacketSize

(* Bytes of the last answer that can be left, since ticks after a write.    *)
AnswerLeft ==
  IF since < PacketSize \/ Complete THEN 2 * PacketSize - gap - since
                                    ELSE 2 * PacketSize - since

(* The block under assembly and the ring are the packet that is coming in.  *)
Aligned ==
  /\ frame.got > 0 => /\ frame.whole
                      /\ frame.start = wire - ring - frame.got
  /\ ring > 0 => first = wire - ring
  /\ frame.got + ring > 0 => /\ written > 0
                             /\ wire - ring - frame.got = PacketSize * (written - 1)

OnTime ==
  /\ dropped = 0
  /\ Queued = IF since < PacketSize THEN PacketSize - since ELSE 0
  /\ \/ since < PacketSize /\ frame.got + ring = since
     \/ since >= PacketSize /\ frame.got + ring = 0
     \/ Complete
  /\ pending > 0 => tx = TxRing
  /\ tx + pending > 0 => tx + pending <= AnswerLeft

PaceInv ==
  /\ TypeOK
  /\ Waited => OnTime /\ Aligned /\ Silent /\ NoFalseComplaint
=============================================================================
