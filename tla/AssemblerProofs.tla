--------------------------- MODULE AssemblerProofs ---------------------------
(***************************************************************************)
(* Proofs about assemble(), for every packet size, every bound on a read   *)
(* up to one packet, and every way of cutting the stream into reads.       *)
(***************************************************************************)
EXTENDS Assembler, TLAPS

(* A packet further on in the stream starts PacketSize bytes later.         *)
LEMMA NextBlock ==
  \A p, k \in Nat : p * (k + 1) = p * k + p
OBVIOUS

(* What a call of assemble() has to work with: at most one buffer is in     *)
(* use, both are within bounds, and the chunk is at most a packet.          *)
LEMMA CallBounds ==
  ASSUME IInv, NEW len \in 1 .. MaxChunk
  PROVE  /\ CopyCount = leftoverCount
         /\ Held = counter + leftoverCount
         /\ Held \in Index
         /\ leftoverCount > 0 => counter = 0
         /\ BytesLeft(len) \in Nat
         /\ BytesLeft(len) <= len
         /\ Held + BytesLeft(len) <= PacketSize
         /\ Held + len >= PacketSize <=> Held + BytesLeft(len) = PacketSize
         /\ Held + len < PacketSize => BytesLeft(len) = len
         /\ len - BytesLeft(len) < PacketSize
         /\ received = PacketSize * frames + Held
         /\ PacketSize * frames \in Nat
<1>1. /\ PacketSize \in Nat \ {0}
      /\ len \in Nat \ {0} /\ len <= PacketSize
  BY AssemblerAssumption
<1>2. /\ counter \in Nat /\ leftoverCount \in Nat /\ received \in Nat
      /\ leftoverCount < PacketSize
      /\ counter + leftoverCount < PacketSize
      /\ PacketSize * frames + counter + leftoverCount = received
      /\ leftoverFlag => counter = 0
      /\ ~leftoverFlag => leftoverCount = 0
  BY <1>1 DEF IInv, TypeOK, NothingHeldBack, BuffersHoldTheTail, Index
<1>3. PacketSize * frames \in Nat
  BY <1>1 DEF IInv, TypeOK
<1>4. CopyCount = leftoverCount
  BY <1>1, <1>2 DEF CopyCount
<1>5. Held = counter + leftoverCount /\ Held \in Index
  BY <1>1, <1>2, <1>4 DEF Held, Index
<1>6. /\ BytesLeft(len) \in Nat
      /\ BytesLeft(len) <= len
      /\ Held + BytesLeft(len) <= PacketSize
      /\ Held + len >= PacketSize <=> Held + BytesLeft(len) = PacketSize
      /\ Held + len < PacketSize => BytesLeft(len) = len
      /\ len - BytesLeft(len) < PacketSize
  BY <1>1, <1>5 DEF BytesLeft, Index
<1>7. received = PacketSize * frames + Held
  BY <1>1, <1>2, <1>3, <1>5
<1> QED
  BY <1>2, <1>3, <1>4, <1>5, <1>6, <1>7

(* After the copies the output buffer holds the stream from the start of    *)
(* the block under assembly.                                                *)
LEMMA FilledIsPrefix ==
  ASSUME IInv, NEW len \in 1 .. MaxChunk, NEW i \in Index,
         i < Held + BytesLeft(len)
  PROVE  Filled(len)[i] = PacketSize * frames + i
<1>1. /\ PacketSize \in Nat /\ i \in Nat /\ counter \in Nat /\ leftoverCount \in Nat
      /\ PacketSize * frames \in Nat
      /\ Held = counter + leftoverCount
      /\ leftoverCount > 0 => counter = 0
      /\ received = PacketSize * frames + Held
      /\ BytesLeft(len) \in Nat
  BY CallBounds, AssemblerAssumption DEF IInv, TypeOK, Index
<1>2. CASE i < counter
  <2>1. i \notin counter .. Held - 1 /\ i \notin Held .. Held + BytesLeft(len) - 1
    BY <1>1, <1>2
  <2>2. privateBuffer[i] = PacketSize * frames + i
    BY <1>2 DEF IInv, BuffersHoldTheTail
  <2> QED
    BY <2>1, <2>2 DEF Filled
<1>3. CASE counter <= i /\ i < Held
  <2>1. i \in counter .. Held - 1 /\ counter = 0 /\ i < leftoverCount
    BY <1>1, <1>3
  <2>2. i - counter = i
    BY <1>1, <2>1
  <2>3. leftoverBuffer[i] = PacketSize * frames + i
    BY <2>1 DEF IInv, BuffersHoldTheTail
  <2> QED
    BY <2>1, <2>2, <2>3 DEF Filled
<1>4. CASE Held <= i
  <2>1. i \notin counter .. Held - 1 /\ i \in Held .. Held + BytesLeft(len) - 1
    BY <1>1, <1>4
  <2>2. Filled(len)[i] = received + (i - Held)
    BY <2>1 DEF Filled
  <2> QED
    BY <1>1, <2>2
<1> QED
  BY <1>1, <1>2, <1>3, <1>4

(* What is kept of the chunk starts the next block.                         *)
LEMMA SpilledIsNextPrefix ==
  ASSUME IInv, NEW len \in 1 .. MaxChunk, Held + len >= PacketSize,
         NEW i \in Index, i < len - BytesLeft(len)
  PROVE  Spilled(len)[i] = PacketSize * (frames + 1) + i
<1>1. /\ PacketSize \in Nat /\ frames \in Nat /\ i \in Nat /\ len \in Nat /\ leftoverCount \in Nat
      /\ PacketSize * frames \in Nat
      /\ Held \in Nat /\ BytesLeft(len) \in Nat
      /\ CopyCount = leftoverCount
      /\ received = PacketSize * frames + Held
      /\ Held + BytesLeft(len) = PacketSize
  BY CallBounds, AssemblerAssumption DEF IInv, TypeOK, Index
<1>2. Spilled(len)[i] = received + BytesLeft(len) + i
  BY <1>1 DEF Spilled
<1>3. PacketSize * (frames + 1) = PacketSize * frames + PacketSize
  BY <1>1, NextBlock
<1>4. received + BytesLeft(len) = PacketSize * (frames + 1)
  BY <1>1, <1>3
<1> QED
  BY <1>2, <1>4

-----------------------------------------------------------------------------
(* The invariant holds before the first call.                               *)
LEMMA InitIInv == Init => IInv
<1> SUFFICES ASSUME Init PROVE IInv
  OBVIOUS
<1>1. PacketSize \in Nat \ {0} /\ PacketSize * 0 = 0
  BY AssemblerAssumption
<1>2. TypeOK
  <2>1. 0 \in Index /\ NoByte \in Int
    BY <1>1 DEF Index, NoByte
  <2> QED
    BY <2>1 DEF Init, TypeOK, Results
<1>3. NothingHeldBack
  BY <1>1 DEF Init, NothingHeldBack
<1>4. BuffersHoldTheTail
  BY DEF Init, BuffersHoldTheTail, Index
<1>5. FrameIsNextBlock
  BY DEF Init, FrameIsNextBlock
<1> QED
  BY <1>2, <1>3, <1>4, <1>5 DEF IInv

(* The invariant is preserved by a call that does not complete a packet.    *)
LEMMA IncompleteKeepsIInv ==
  ASSUME IInv, NEW len \in 1 .. MaxChunk, assemble(len), Held + len < PacketSize
  PROVE  IInv'
<1>1. /\ PacketSize \in Nat /\ len \in Nat \ {0} /\ frames \in Nat
      /\ Held \in Nat /\ PacketSize * frames \in Nat
      /\ BytesLeft(len) = len
      /\ CopyCount = leftoverCount /\ leftoverCount \in Nat
      /\ leftoverCount < PacketSize
      /\ received = PacketSize * frames + Held /\ received \in Nat
      /\ Held + BytesLeft(len) # PacketSize
  <2>1. /\ PacketSize \in Nat /\ len \in Nat \ {0}
        /\ frames \in Nat /\ received \in Nat
        /\ leftoverCount \in Nat /\ leftoverCount < PacketSize
    BY AssemblerAssumption DEF IInv, TypeOK, Index
  <2>2. /\ Held \in Nat /\ PacketSize * frames \in Nat
        /\ BytesLeft(len) = len /\ CopyCount = leftoverCount
        /\ received = PacketSize * frames + Held
    BY CallBounds DEF Index
  <2> QED
    BY <2>1, <2>2
<1>2. /\ counter' = Held + len /\ leftoverCount' = 0
      /\ leftoverFlag' = FALSE
      /\ result' = "PACKET_INCOMPLETE" /\ frames' = frames
      /\ received' = received + len
      /\ privateBuffer' = Filled(len) /\ leftoverBuffer' = Spilled(len)
  BY <1>1 DEF assemble
<1>3. \A i \in Index : i < counter' => privateBuffer'[i] = PacketSize * frames' + i
  BY <1>1, <1>2, FilledIsPrefix
<1>4. TypeOK'
  <2>1. Filled(len) \in [Index -> Int] /\ Spilled(len) \in [Index -> Int]
    BY <1>1 DEF Filled, Spilled, IInv, TypeOK, Index
  <2>2. counter' \in Index /\ leftoverCount' \in Index
    BY <1>1, <1>2 DEF Index
  <2>3. received' \in Nat /\ frames' \in Nat
    BY <1>1, <1>2
  <2> QED
    BY <1>2, <2>1, <2>2, <2>3 DEF TypeOK, Results
<1>5. NothingHeldBack'
  BY <1>1, <1>2 DEF NothingHeldBack
<1>6. BuffersHoldTheTail'
  BY <1>2, <1>3 DEF BuffersHoldTheTail, Index
<1>7. FrameIsNextBlock'
  BY <1>2 DEF FrameIsNextBlock
<1> QED
  BY <1>4, <1>5, <1>6, <1>7 DEF IInv

(* The invariant is preserved by a call that completes a packet, and the    *)
(* packet is the block that was under assembly.                             *)
LEMMA CompleteKeepsIInv ==
  ASSUME IInv, NEW len \in 1 .. MaxChunk, assemble(len), Held + len >= PacketSize
  PROVE  /\ IInv'
         /\ \A i \in Index : privateBuffer'[i] = PacketSize * frames + i
<1>1. /\ PacketSize \in Nat \ {0} /\ len \in Nat \ {0} /\ frames \in Nat
      /\ Held \in Nat /\ PacketSize * frames \in Nat
      /\ BytesLeft(len) \in Nat /\ BytesLeft(len) <= len
      /\ len - BytesLeft(len) < PacketSize
      /\ Held + BytesLeft(len) = PacketSize
      /\ CopyCount = leftoverCount /\ leftoverCount \in Nat
      /\ received = PacketSize * frames + Held /\ received \in Nat
      /\ PacketSize * (frames + 1) = PacketSize * frames + PacketSize
  BY CallBounds, NextBlock, AssemblerAssumption DEF IInv, TypeOK, Index
<1>2. /\ counter' = 0 /\ leftoverCount' = len - BytesLeft(len)
      /\ leftoverFlag' = TRUE
      /\ result' = "PACKET_COMPLETE" /\ frames' = frames + 1
      /\ received' = received + len
      /\ privateBuffer' = Filled(len) /\ leftoverBuffer' = Spilled(len)
  BY <1>1 DEF assemble
<1>3. \A i \in Index : privateBuffer'[i] = PacketSize * frames + i
  BY <1>1, <1>2, FilledIsPrefix DEF Index
<1>4. \A i \in Index : i < leftoverCount' => leftoverBuffer'[i] = PacketSize * frames' + i
  BY <1>1, <1>2, SpilledIsNextPrefix
<1>5. TypeOK'
  <2>1. Filled(len) \in [Index -> Int] /\ Spilled(len) \in [Index -> Int]
    BY <1>1 DEF Filled, Spilled, IInv, TypeOK, Index
  <2>2. counter' \in Index /\ leftoverCount' \in Index
    BY <1>1, <1>2 DEF Index
  <2>3. received' \in Nat /\ frames' \in Nat
    BY <1>1, <1>2
  <2> QED
    BY <1>2, <2>1, <2>2, <2>3 DEF TypeOK, Results
<1>6. NothingHeldBack'
  <2>1. received' = PacketSize * frames' + (len - BytesLeft(len))
    BY <1>1, <1>2
  <2> QED
    BY <1>1, <1>2, <2>1 DEF NothingHeldBack
<1>7. BuffersHoldTheTail'
  BY <1>2, <1>4 DEF BuffersHoldTheTail, Index
<1>8. FrameIsNextBlock'
  <2>1. frames' - 1 = frames
    BY <1>1, <1>2
  <2> QED
    BY <1>3, <2>1 DEF FrameIsNextBlock
<1> QED
  BY <1>3, <1>5, <1>6, <1>7, <1>8 DEF IInv

(* Every step preserves the invariant.                                      *)
LEMMA NextIInv == IInv /\ [Next]_vars => IInv'
<1> SUFFICES ASSUME IInv, [Next]_vars PROVE IInv'
  OBVIOUS
<1>1. CASE Next
  <2>1. PICK len \in 1 .. MaxChunk : assemble(len)
    BY <1>1 DEF Next
  <2>2. Held + len >= PacketSize \/ Held + len < PacketSize
    BY CallBounds, AssemblerAssumption DEF Index
  <2> QED
    BY <2>1, <2>2, IncompleteKeepsIInv, CompleteKeepsIInv
<1>2. CASE UNCHANGED vars
  BY <1>2 DEF vars, IInv, TypeOK, NothingHeldBack, BuffersHoldTheTail, FrameIsNextBlock
<1> QED
  BY <1>1, <1>2

(* assemble() keeps its buffers and counters in step with the stream,       *)
(* whatever the sizes of the reads.                                         *)
THEOREM Invariance == Spec => []IInv
<1> QED
  BY InitIInv, NextIInv, PTL DEF Spec

(* No counter assemble() indexes a buffer with leaves the buffer.           *)
THEOREM TypeCorrect == Spec => []TypeOK
<1>1. IInv => TypeOK
  BY DEF IInv
<1> QED
  BY <1>1, Invariance, PTL

(* A completed packet is exactly the next PacketSize bytes of the stream.   *)
THEOREM PacketsAreBlocks == Spec => []FrameIsNextBlock
<1>1. IInv => FrameIsNextBlock
  BY DEF IInv
<1> QED
  BY <1>1, Invariance, PTL

(* A full packet never waits in the buffers for another read.               *)
THEOREM PacketsAreNotHeldBack == Spec => []NothingHeldBack
<1>1. IInv => NothingHeldBack
  BY DEF IInv
<1> QED
  BY <1>1, Invariance, PTL

-----------------------------------------------------------------------------
(* Every call is a step of the abstract stream: it absorbs the chunk or     *)
(* hands over the block the chunk completes.                                *)
LEMMA CallImplementsStep ==
  ASSUME IInv, NEW len \in 1 .. MaxChunk, assemble(len)
  PROVE  Stream!Absorb(len) \/ Stream!HandOver(len)
<1>1. /\ PacketSize \in Nat \ {0} /\ len \in Nat /\ frames \in Nat
      /\ Held \in Nat /\ PacketSize * frames \in Nat
      /\ received = PacketSize * frames + Held
      /\ PacketSize * (frames + 1) = PacketSize * frames + PacketSize
      /\ Held + len >= PacketSize <=> Held + BytesLeft(len) = PacketSize
  BY CallBounds, NextBlock, AssemblerAssumption DEF IInv, TypeOK, Index
<1>2. received' = received + len
  BY DEF assemble
<1>3. CASE Held + len < PacketSize
  <2>1. result' = "PACKET_INCOMPLETE" /\ frames' = frames
    BY <1>1, <1>3 DEF assemble
  <2>2. received + len < PacketSize * (frames + 1)
    BY <1>1, <1>3
  <2> QED
    BY <1>2, <2>1, <2>2 DEF Stream!Absorb, Stream!NoFrame
<1>4. CASE Held + len >= PacketSize
  <2>1. result' = "PACKET_COMPLETE" /\ frames' = frames + 1
    BY <1>1, <1>4 DEF assemble
  <2>2. received + len >= PacketSize * (frames + 1)
    BY <1>1, <1>4
  <2>3. privateBuffer' = Stream!Block(frames)
    <3>1. privateBuffer' = [i \in Index |-> privateBuffer'[i]]
      BY DEF assemble, Filled
    <3>2. \A i \in Index : privateBuffer'[i] = PacketSize * frames + i
      BY <1>4, CompleteKeepsIInv
    <3> QED
      BY <3>1, <3>2 DEF Stream!Block, Index
  <2> QED
    BY <1>2, <2>1, <2>2, <2>3 DEF Stream!HandOver
<1> QED
  BY <1>1, <1>3, <1>4

(* The two buffers and four counters of assemble() do nothing more and      *)
(* nothing less than cut the stream into blocks.                            *)
THEOREM Implementation == Spec => ImplementsStream
<1>1. Init => Stream!Init
  BY DEF Init, Stream!Init, Stream!NoFrame
<1>2. IInv /\ [Next]_vars => [Stream!Next]_(Stream!vars)
  <2> SUFFICES ASSUME IInv, [Next]_vars PROVE [Stream!Next]_(Stream!vars)
    OBVIOUS
  <2>1. CASE Next
    BY <2>1, CallImplementsStep DEF Next, Stream!Next
  <2>2. CASE UNCHANGED vars
    BY <2>2 DEF vars, Stream!vars
  <2> QED
    BY <2>1, <2>2
<1> QED
  BY <1>1, <1>2, Invariance, PTL DEF Spec, ImplementsStream, Stream!Spec
=============================================================================
