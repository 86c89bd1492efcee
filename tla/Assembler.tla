------------------------------ MODULE Assembler ------------------------------
(***************************************************************************)
(* assemble() of serialize.cpp, the routine both the Raspberry Pi and the  *)
(* Arduino use to cut the serial byte stream back into packets.  The       *)
(* variables are its static variables; a call is one action.  A byte is    *)
(* identified by its place in the stream, so the contents of the buffers   *)
(* say exactly which bytes a packet is made of.                            *)
(***************************************************************************)
EXTENDS Integers

CONSTANTS
  PacketSize,  (* PACKET_SIZE                                               *)
  MaxChunk,    (* most bytes one read hands to deserialize()                *)
  MaxBytes     (* bound: length of the stream that is explored              *)

ASSUME AssemblerAssumption ==
  /\ PacketSize \in Nat \ {0}
  /\ MaxChunk \in 1 .. PacketSize   \* callers read into char[PACKET_SIZE]
  /\ MaxBytes \in Nat

VARIABLES
  counter,         (* bytes already in _privateBuffer                       *)
  leftoverFlag,    (* is there something in leftoverBuffer?                 *)
  leftoverCount,   (* bytes in leftoverBuffer                               *)
  leftoverBuffer,
  privateBuffer,   (* _privateBuffer, assemble()'s outputBuffer             *)
  result,          (* what the last call returned                           *)
  received,        (* bytes handed in so far                                *)
  frames           (* times PACKET_COMPLETE was returned                    *)

vars == <<counter, leftoverFlag, leftoverCount, leftoverBuffer, privateBuffer,
          result, received, frames>>

Index == 0 .. PacketSize - 1

(* A static buffer starts zeroed: it holds no byte of the stream. *)
NoByte == -1

Results == {"PACKET_INCOMPLETE", "PACKET_COMPLETE"}

Init ==
  /\ counter = 0
  /\ leftoverFlag = FALSE
  /\ leftoverCount = 0
  /\ leftoverBuffer = [i \in Index |-> NoByte]
  /\ privateBuffer = [i \in Index |-> NoByte]
  /\ result = "PACKET_INCOMPLETE"
  /\ received = 0
  /\ frames = 0

(* Faulty variant: the leftovers of the last packet are never taken up. *)
CopyNothing == 0

(* Leftover bytes the call starts by moving into the output buffer. *)
CopyCount ==
  IF ~leftoverFlag THEN 0
  ELSE IF leftoverCount <= PacketSize THEN leftoverCount ELSE PacketSize

(* Bytes in the output buffer once the leftovers are in. *)
Held == counter + CopyCount

(* Bytes of a chunk of len that go to the output buffer. *)
BytesLeft(len) == IF Held + len >= PacketSize THEN PacketSize - Held ELSE len

(* The output buffer after the leftovers, then the chunk, are copied in. *)
Filled(len) ==
  [i \in Index |->
     IF i \in counter .. Held - 1 THEN leftoverBuffer[i - counter]
     ELSE IF i \in Held .. Held + BytesLeft(len) - 1 THEN received + (i - Held)
     ELSE privateBuffer[i]]

(* Faulty variant: saves the head of the chunk in place of its tail. *)
SpilledFromHead(len) ==
  [i \in Index |-> IF i < len - BytesLeft(len) THEN received + i ELSE leftoverBuffer[i]]

(* The rest of the chunk is kept behind what is left of the leftovers. *)
Spilled(len) ==
  LET kept == leftoverCount - CopyCount
  IN  [i \in Index |->
         IF i \in kept .. kept + (len - BytesLeft(len)) - 1
         THEN received + BytesLeft(len) + (i - kept)
         ELSE leftoverBuffer[i]]

(* assemble(outputBuffer, inputBuffer, len) *)
assemble(len) ==
  /\ received + len <= MaxBytes
  /\ privateBuffer' = Filled(len)
  /\ leftoverBuffer' = Spilled(len)
  /\ leftoverCount' = leftoverCount - CopyCount + (len - BytesLeft(len))
  /\ leftoverFlag' = \/ Held + len >= PacketSize
                     \/ leftoverFlag /\ leftoverCount > PacketSize
  /\ received' = received + len
  /\ \/ /\ Held + BytesLeft(len) = PacketSize
        /\ counter' = 0
        /\ result' = "PACKET_COMPLETE"
        /\ frames' = frames + 1
     \/ /\ Held + BytesLeft(len) # PacketSize
        /\ counter' = Held + BytesLeft(len)
        /\ result' = "PACKET_INCOMPLETE"
        /\ frames' = frames

Next == \E len \in 1 .. MaxChunk : assemble(len)

Spec == Init /\ [][Next]_vars

-----------------------------------------------------------------------------
(* Every variable keeps its type, and no index leaves its buffer: the       *)
(* counters that assemble() indexes with stay inside char[PACKET_SIZE].     *)
TypeOK ==
  /\ counter \in Index
  /\ leftoverFlag \in BOOLEAN
  /\ leftoverCount \in Index
  /\ leftoverBuffer \in [Index -> Int]
  /\ privateBuffer \in [Index -> Int]
  /\ result \in Results
  /\ received \in Nat
  /\ frames \in Nat

(* A completed packet is the next PacketSize bytes of the stream: nothing   *)
(* skipped, repeated or reordered, however the reads cut the stream.        *)
FrameIsNextBlock ==
  result = "PACKET_COMPLETE" =>
    \A i \in Index : privateBuffer[i] = PacketSize * (frames - 1) + i

(* A packet is handed over by the call that brings its last byte: what is   *)
(* buffered, in both buffers together, never amounts to a packet.           *)
NothingHeldBack ==
  /\ PacketSize * frames + counter + leftoverCount = received
  /\ counter + leftoverCount < PacketSize

(* assemble() implements the cut of the stream into blocks. *)
Stream == INSTANCE FrameStream WITH
            output <- IF result = "PACKET_COMPLETE" THEN privateBuffer ELSE "no frame"

ImplementsStream == Stream!Spec

-----------------------------------------------------------------------------
(* The inductive invariant.  Bytes wait in one buffer at a time: a leftover *)
(* is pending only between packets, when the output buffer is empty again.  *)
BuffersHoldTheTail ==
  /\ leftoverFlag => counter = 0
  /\ ~leftoverFlag => leftoverCount = 0
  /\ \A i \in Index : i < counter => privateBuffer[i] = PacketSize * frames + i
  /\ \A i \in Index : i < leftoverCount => leftoverBuffer[i] = PacketSize * frames + i

IInv == TypeOK /\ NothingHeldBack /\ BuffersHoldTheTail /\ FrameIsNextBlock
=============================================================================
