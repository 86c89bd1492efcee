----------------------------- MODULE FrameStream -----------------------------
(***************************************************************************)
(* What the byte-to-packet layer promises, with nothing of how it does it. *)
(* A stream of bytes arrives in chunks; each byte is identified by its     *)
(* place in the stream.  The stream is cut into blocks of PacketSize, each *)
(* block is handed over by the very call that brings its last byte, and a  *)
(* call hands over at most one block.  serialize.cpp is shown to do this   *)
(* in module Assembler.                                                    *)
(***************************************************************************)
EXTENDS Integers

CONSTANTS
  PacketSize,  (* bytes in a frame: PACKET_SIZE, 140 in serialize.h         *)
  MaxChunk     (* most bytes one call may bring                             *)

VARIABLES
  received,  (* bytes of the stream handed in so far                        *)
  frames,    (* frames handed over so far                                   *)
  output     (* the frame this call handed over, or NoFrame                 *)

vars == <<received, frames, output>>

NoFrame == "no frame"

(* The k-th block of the stream, counted from 0. *)
Block(k) == [i \in 0 .. PacketSize - 1 |-> PacketSize * k + i]

Init ==
  /\ received = 0
  /\ frames = 0
  /\ output = NoFrame

(* No block ends inside the chunk. *)
Absorb(len) ==
  /\ received + len < PacketSize * (frames + 1)
  /\ received' = received + len
  /\ frames' = frames
  /\ output' = NoFrame

(* The chunk brings the last byte of the block under assembly. *)
HandOver(len) ==
  /\ received + len >= PacketSize * (frames + 1)
  /\ received' = received + len
  /\ frames' = frames + 1
  /\ output' = Block(frames)

Next == \E len \in 1 .. MaxChunk : Absorb(len) \/ HandOver(len)

Spec == Init /\ [][Next]_vars
=============================================================================
