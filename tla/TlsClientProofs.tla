---------------------------- MODULE TlsClientProofs ----------------------------
(***************************************************************************)
(* Proofs about the TLS client.                                            *)
(*                                                                         *)
(* First its threads and flags, TlsClient, for any number of messages and  *)
(* commands.  For each process: its steps keep the types, Boolean          *)
(* variables apart, and each conjunct of ClientInv.                        *)
(*                                                                         *)
(* Then the prompt in which its writer thread takes commands, and which it *)
(* has from the Pi's first program: PiConsole, for all three               *)
(* programs that read a keyboard and any number of lines typed ahead.      *)
(***************************************************************************)
EXTENDS TlsClient, PiConsole, SequenceTheorems, TLAPS

USE DEF network, operator, flags, readers, writers

(* The server and the network.                                              *)
LEMMA NetworkInv ==
  ASSUME ClientInv, ~ended, Send \/ Close \/ Break
  PROVE  ClientInv'
<1>1. /\ told' \in BOOLEAN /\ ended' \in BOOLEAN
      /\ networkActive' \in BOOLEAN /\ exitFlag' \in BOOLEAN /\ freed' \in BOOLEAN
      /\ refused' \in BOOLEAN /\ len' \in BOOLEAN /\ wrote' \in BOOLEAN
  BY DEF ClientInv, TypeOK, Send, Close, Break
<1>2. /\ server' \in {"up", "closed", "reset", "lost"}
      /\ messages' \in Nat /\ inbox' \in Nat /\ handled' \in Nat /\ given' \in Nat
      /\ reader' \in {"none", "loop", "read", "assign", "test", "stop", "free", "done"}
      /\ writer' \in {"none", "prompt", "send", "write", "assign", "stop", "free", "done"}
      /\ loop' \in {"connect", "writer", "reader", "wait", "close", "done"}
  BY DEF ClientInv, TypeOK, Send, Close, Break
<1>3. TypeOK'
  BY <1>1, <1>2 DEF TypeOK
<1>4. ActiveWhileUp'
  BY DEF ClientInv, ActiveWhileUp, ResultsInv, Healthy, Send, Close, Break
<1>5. HandledOnce'
  BY DEF ClientInv, TypeOK, HandledOnce, ActiveWhileUp, ResultsInv, Healthy, Send,
     Close, Break
<1>6. StopsForAReason'
  BY DEF ClientInv, StopsForAReason, ReasonsInv, Send, Close, Break
<1>7. FreedWhenStopped'
  BY DEF ClientInv, FreedWhenStopped, ReasonsInv, Send, Close, Break
<1>8. ResultsInv'
  <2>1. messages' <= MaxMessages
    BY TlsClientAssumption DEF ClientInv, TypeOK, ResultsInv, Send, Close, Break
  <2>2. Healthy' => Healthy
    BY DEF Healthy, Send, Close, Break
  <2>3. UNCHANGED <<reader, writer, len, wrote>>
    BY DEF Send, Close, Break
  <2> QED
    BY <2>1, <2>2, <2>3 DEF ClientInv, ResultsInv
<1>9. ReasonsInv'
  BY DEF ClientInv, ReasonsInv, ActiveWhileUp, Healthy, StopsForAReason, Send, Close, Break
<1> QED
  BY <1>3, <1>4, <1>5, <1>6, <1>7, <1>8, <1>9 DEF ClientInv

(* readerThread().                                                          *)
LEMMA ReaderInv ==
  ASSUME ClientInv, ~ended, readerThread
  PROVE  ClientInv'
<1>1. /\ told' \in BOOLEAN /\ ended' \in BOOLEAN
      /\ networkActive' \in BOOLEAN /\ exitFlag' \in BOOLEAN /\ freed' \in BOOLEAN
      /\ refused' \in BOOLEAN /\ len' \in BOOLEAN /\ wrote' \in BOOLEAN
  BY DEF ClientInv, TypeOK, readerThread, ReaderLoop, Read, Assign, Test, handleNetwork,
     ReaderEnds,
     NoMoreData, SocketClosed, MaxHandled, stopClient, SSL_free
<1>2. /\ server' \in {"up", "closed", "reset", "lost"}
      /\ messages' \in Nat /\ inbox' \in Nat /\ handled' \in Nat /\ given' \in Nat
      /\ reader' \in {"none", "loop", "read", "assign", "test", "stop", "free", "done"}
      /\ writer' \in {"none", "prompt", "send", "write", "assign", "stop", "free", "done"}
      /\ loop' \in {"connect", "writer", "reader", "wait", "close", "done"}
  <2>1. UNCHANGED <<server, messages, given, writer, loop>>
    BY DEF readerThread, ReaderLoop, Read, Assign, Test, handleNetwork, ReaderEnds
  <2>2. reader' \in {"loop", "read", "assign", "test", "stop", "free", "done"}
    BY DEF readerThread, ReaderLoop, Read, Assign, Test, handleNetwork, ReaderEnds
  <2>3. handled' \in {handled, handled + 1}
    BY DEF readerThread, ReaderLoop, Read, Assign, Test, handleNetwork, ReaderEnds
  <2>4. inbox' = inbox \/ (inbox > 0 /\ inbox' = inbox - 1)
    BY DEF readerThread, ReaderLoop, Read, Assign, Test, handleNetwork, ReaderEnds
  <2> QED
    BY <2>1, <2>2, <2>3, <2>4 DEF ClientInv, TypeOK
<1>3. TypeOK'
  BY <1>1, <1>2 DEF TypeOK
<1>4. ActiveWhileUp'
  BY DEF ClientInv, ActiveWhileUp, ResultsInv, Healthy, readerThread, ReaderLoop, Read,
     Assign, Test, handleNetwork, ReaderEnds, NoMoreData, SocketClosed, MaxHandled,
     stopClient,
     SSL_free
<1>5. HandledOnce'
  <2>1. CASE Read
    BY <2>1 DEF ClientInv, TypeOK, HandledOnce, Healthy, FreedWhenStopped, ReasonsInv, Read,
       NoMoreData,
       SocketClosed
  <2>2. CASE Test
    <3>1. reader = "test" /\ reader' = "loop"
            /\ UNCHANGED <<server, exitFlag, refused, messages, inbox>>
      BY <2>2 DEF Test, flags
    <3>2. ASSUME Healthy
          PROVE  messages' = inbox' + handled' + 0
      <4>1. networkActive /\ messages = inbox + handled + 1 /\ messages <= MaxMessages
        BY <3>1, <3>2 DEF ClientInv, ActiveWhileUp, HandledOnce, ResultsInv, Healthy
      <4>2. handled < MaxHandled
        BY <4>1, TlsClientAssumption DEF ClientInv, TypeOK, MaxHandled
      <4>3. handled' = handled + 1
        BY <2>2, <4>1, <4>2 DEF Test, handleNetwork
      <4> QED
        BY <3>1, <4>1, <4>3 DEF ClientInv, TypeOK
    <3>3. reader' \notin {"assign", "test"}
      BY <3>1
    <3>4. Healthy' => Healthy
      BY <3>1 DEF Healthy
    <3> QED
      BY <3>2, <3>3, <3>4 DEF HandledOnce, Healthy
  <2>3. CASE ReaderLoop \/ Assign \/ ReaderEnds
    <3>1. UNCHANGED <<server, messages, inbox, handled>>
      BY <2>3 DEF ReaderLoop, Assign, ReaderEnds
    <3>2. reader \in {"assign", "test"} <=> reader' \in {"assign", "test"}
      BY <2>3 DEF ReaderLoop, Assign, ReaderEnds
    <3>3. ~exitFlag' => ~exitFlag
      <4>1. CASE ReaderLoop \/ Assign
        BY <4>1 DEF ReaderLoop, Assign, flags
      <4>2. CASE ReaderEnds
        BY <4>2 DEF ReaderEnds, stopClient, SSL_free
      <4> QED
        BY <2>3, <4>1, <4>2
    <3>4. ~refused' => ~refused
      <4>1. CASE ReaderLoop \/ Assign
        BY <4>1 DEF ReaderLoop, Assign, flags
      <4>2. CASE ReaderEnds
        BY <4>2 DEF ReaderEnds, stopClient, SSL_free
      <4> QED
        BY <2>3, <4>1, <4>2
    <3> QED
      BY <3>1, <3>2, <3>3, <3>4 DEF ClientInv, HandledOnce, Healthy
  <2> QED
    BY <2>1, <2>2, <2>3 DEF readerThread
<1>6. StopsForAReason'
  BY DEF ClientInv, StopsForAReason, ReasonsInv, readerThread, ReaderLoop, Read, Assign,
     Test, handleNetwork, ReaderEnds, NoMoreData, SocketClosed, MaxHandled, stopClient,
     SSL_free
<1>7. FreedWhenStopped'
  BY DEF ClientInv, FreedWhenStopped, ReasonsInv, readerThread, ReaderLoop, Read,
     Assign, Test, handleNetwork, ReaderEnds, NoMoreData, SocketClosed, MaxHandled,
     stopClient,
     SSL_free
<1>8. ResultsInv'
  BY DEF ClientInv, TypeOK, ResultsInv, FreedWhenStopped, ReasonsInv, Healthy,
     readerThread, ReaderLoop, Read, Assign, Test, handleNetwork, ReaderEnds,
     NoMoreData, SocketClosed,
     MaxHandled, stopClient, SSL_free
<1>9. ReasonsInv'
  BY DEF ClientInv, ReasonsInv, ActiveWhileUp, Healthy, StopsForAReason, readerThread,
     ReaderLoop, Read, Assign, Test, handleNetwork, ReaderEnds, NoMoreData,
     SocketClosed, MaxHandled,
     stopClient, SSL_free
<1> QED
  BY <1>3, <1>4, <1>5, <1>6, <1>7, <1>8, <1>9 DEF ClientInv

(* writerThread() and the operator's commands.                              *)
LEMMA WriterInv ==
  ASSUME ClientInv, ~ended, Command \/ writerThread
  PROVE  ClientInv'
<1>1. /\ told' \in BOOLEAN /\ ended' \in BOOLEAN
      /\ networkActive' \in BOOLEAN /\ exitFlag' \in BOOLEAN /\ freed' \in BOOLEAN
      /\ refused' \in BOOLEAN /\ len' \in BOOLEAN /\ wrote' \in BOOLEAN
  BY DEF ClientInv, TypeOK, Command, writerThread, SendData, Write, AssignWritten,
     WriterEnds, SocketClosed, stopClient, SSL_free
<1>2. /\ server' \in {"up", "closed", "reset", "lost"}
      /\ messages' \in Nat /\ inbox' \in Nat /\ handled' \in Nat /\ given' \in Nat
      /\ reader' \in {"none", "loop", "read", "assign", "test", "stop", "free", "done"}
      /\ writer' \in {"none", "prompt", "send", "write", "assign", "stop", "free", "done"}
      /\ loop' \in {"connect", "writer", "reader", "wait", "close", "done"}
  <2>1. UNCHANGED <<server, messages, inbox, handled, reader, loop>>
    BY DEF Command, writerThread, SendData, Write, AssignWritten, WriterEnds
  <2>2. given' \in {given, given + 1}
    BY DEF Command, writerThread, SendData, Write, AssignWritten, WriterEnds
  <2>3. writer' \in {"prompt", "send", "write", "assign", "stop", "free", "done"}
    BY DEF Command, writerThread, SendData, Write, AssignWritten, WriterEnds
  <2> QED
    BY <2>1, <2>2, <2>3 DEF ClientInv, TypeOK
<1>3. TypeOK'
  BY <1>1, <1>2 DEF TypeOK
<1>4. ActiveWhileUp'
  BY DEF ClientInv, ActiveWhileUp, ResultsInv, Healthy, Command, writerThread, SendData,
     Write, AssignWritten, WriterEnds, SocketClosed, stopClient, SSL_free
<1>5. HandledOnce'
  BY DEF ClientInv, TypeOK, HandledOnce, ActiveWhileUp, ResultsInv, Healthy, Command,
     writerThread, SendData, Write, AssignWritten, WriterEnds, SocketClosed, stopClient,
     SSL_free
<1>6. StopsForAReason'
  BY DEF ClientInv, StopsForAReason, ReasonsInv, Command, writerThread, SendData, Write,
     AssignWritten, WriterEnds, SocketClosed, stopClient, SSL_free
<1>7. FreedWhenStopped'
  BY DEF ClientInv, FreedWhenStopped, ReasonsInv, Command, writerThread, SendData,
     Write, AssignWritten, WriterEnds, SocketClosed, stopClient, SSL_free
<1>8. ResultsInv'
  BY DEF ClientInv, TypeOK, ResultsInv, FreedWhenStopped, ReasonsInv, Healthy, Command,
     writerThread, SendData, Write, AssignWritten, WriterEnds, SocketClosed, stopClient,
     SSL_free
<1>9. ReasonsInv'
  BY DEF ClientInv, ReasonsInv, ActiveWhileUp, Healthy, StopsForAReason, Command, writerThread,
     SendData, Write, AssignWritten, WriterEnds, SocketClosed, stopClient, SSL_free
<1> QED
  BY <1>3, <1>4, <1>5, <1>6, <1>7, <1>8, <1>9 DEF ClientInv

(* _client_loop().                                                          *)
LEMMA LoopInv ==
  ASSUME ClientInv, ~ended, _client_loop
  PROVE  ClientInv'
<1>1. /\ told' \in BOOLEAN /\ ended' \in BOOLEAN
      /\ networkActive' \in BOOLEAN /\ exitFlag' \in BOOLEAN /\ freed' \in BOOLEAN
      /\ refused' \in BOOLEAN /\ len' \in BOOLEAN /\ wrote' \in BOOLEAN
  BY DEF ClientInv, TypeOK, _client_loop, Connect, SpawnWriter, SpawnReader,
     CloseAndExit, SSL_free
<1>2. /\ server' \in {"up", "closed", "reset", "lost"}
      /\ messages' \in Nat /\ inbox' \in Nat /\ handled' \in Nat /\ given' \in Nat
      /\ reader' \in {"none", "loop", "read", "assign", "test", "stop", "free", "done"}
      /\ writer' \in {"none", "prompt", "send", "write", "assign", "stop", "free", "done"}
      /\ loop' \in {"connect", "writer", "reader", "wait", "close", "done"}
  BY DEF ClientInv, TypeOK, _client_loop, Connect, SpawnWriter, SpawnReader,
     CloseAndExit, SSL_free
<1>3. TypeOK'
  BY <1>1, <1>2 DEF TypeOK
<1>4. ActiveWhileUp'
  BY DEF ClientInv, ActiveWhileUp, ResultsInv, Healthy, _client_loop, Connect,
     SpawnWriter, SpawnReader, CloseAndExit, SSL_free
<1>5. HandledOnce'
  <2>1. UNCHANGED <<server, messages, inbox, handled, exitFlag>>
    BY DEF _client_loop, Connect, SpawnWriter, SpawnReader, CloseAndExit, SSL_free
  <2>2. reader' = reader \/ (reader = "none" /\ reader' = "loop")
    BY DEF ClientInv, ReasonsInv, _client_loop, Connect, SpawnWriter, SpawnReader,
       CloseAndExit
  <2>3. ~refused' => ~refused
    <3>1. CASE Connect
      BY <3>1 DEF Connect
    <3>2. CASE SpawnWriter \/ SpawnReader
      BY <3>2 DEF SpawnWriter, SpawnReader
    <3>3. CASE CloseAndExit
      BY <3>3 DEF CloseAndExit, SSL_free
    <3> QED
      BY <3>1, <3>2, <3>3 DEF _client_loop
  <2> QED
    BY <2>1, <2>2, <2>3 DEF ClientInv, HandledOnce, Healthy
<1>6. StopsForAReason'
  BY DEF ClientInv, StopsForAReason, ReasonsInv, _client_loop, Connect, SpawnWriter,
     SpawnReader, CloseAndExit, SSL_free
<1>7. FreedWhenStopped'
  BY DEF ClientInv, FreedWhenStopped, ReasonsInv, _client_loop, Connect, SpawnWriter,
     SpawnReader, CloseAndExit, SSL_free
<1>8. ResultsInv'
  BY DEF ClientInv, TypeOK, ResultsInv, FreedWhenStopped, ReasonsInv, Healthy,
     _client_loop, Connect, SpawnWriter, SpawnReader, CloseAndExit, SSL_free
<1>9. ReasonsInv'
  BY DEF ClientInv, ReasonsInv, ActiveWhileUp, Healthy, StopsForAReason, _client_loop, Connect,
     SpawnWriter, SpawnReader, CloseAndExit, SSL_free
<1> QED
  BY <1>3, <1>4, <1>5, <1>6, <1>7, <1>8, <1>9 DEF ClientInv

(* main() and the signal handlers.                                          *)
LEMMA EndInv ==
  ASSUME ClientInv, ~ended, MainEnds \/ Signal
  PROVE  ClientInv'
<1>1. /\ told' \in BOOLEAN /\ ended' \in BOOLEAN
      /\ networkActive' \in BOOLEAN /\ exitFlag' \in BOOLEAN /\ freed' \in BOOLEAN
      /\ refused' \in BOOLEAN /\ len' \in BOOLEAN /\ wrote' \in BOOLEAN
  BY DEF ClientInv, TypeOK, MainEnds, Signal
<1>2. /\ server' \in {"up", "closed", "reset", "lost"}
      /\ messages' \in Nat /\ inbox' \in Nat /\ handled' \in Nat /\ given' \in Nat
      /\ reader' \in {"none", "loop", "read", "assign", "test", "stop", "free", "done"}
      /\ writer' \in {"none", "prompt", "send", "write", "assign", "stop", "free", "done"}
      /\ loop' \in {"connect", "writer", "reader", "wait", "close", "done"}
  BY DEF ClientInv, TypeOK, MainEnds, Signal
<1>3. TypeOK'
  BY <1>1, <1>2 DEF TypeOK
<1>4. ActiveWhileUp'
  BY DEF ClientInv, ActiveWhileUp, ResultsInv, Healthy, MainEnds, Signal
<1>5. HandledOnce'
  BY DEF ClientInv, TypeOK, HandledOnce, ActiveWhileUp, ResultsInv, Healthy, MainEnds,
     Signal
<1>6. StopsForAReason'
  BY DEF ClientInv, StopsForAReason, ReasonsInv, MainEnds, Signal
<1>7. FreedWhenStopped'
  BY DEF ClientInv, FreedWhenStopped, ReasonsInv, MainEnds, Signal
<1>8. ResultsInv'
  BY DEF ClientInv, TypeOK, ResultsInv, FreedWhenStopped, ReasonsInv, Healthy, MainEnds,
     Signal
<1>9. ReasonsInv'
  BY DEF ClientInv, ReasonsInv, ActiveWhileUp, Healthy, StopsForAReason, MainEnds, Signal
<1> QED
  BY <1>3, <1>4, <1>5, <1>6, <1>7, <1>8, <1>9 DEF ClientInv

LEMMA InitInv == Init => ClientInv
<1> SUFFICES ASSUME Init PROVE ClientInv
  OBVIOUS
<1>1. TypeOK
  BY DEF Init, TypeOK
<1>2. ActiveWhileUp /\ StopsForAReason /\ FreedWhenStopped
  BY DEF Init, ActiveWhileUp, StopsForAReason, FreedWhenStopped
<1>3. HandledOnce
  BY DEF Init, HandledOnce, Healthy
<1>4. ResultsInv
  BY TlsClientAssumption DEF Init, ResultsInv
<1>5. ReasonsInv
  BY DEF Init, ReasonsInv
<1> QED
  BY <1>1, <1>2, <1>3, <1>4, <1>5 DEF ClientInv

LEMMA StutterInv ==
  ASSUME ClientInv, UNCHANGED vars
  PROVE  ClientInv'
BY DEF vars, ClientInv, TypeOK, ActiveWhileUp, HandledOnce, StopsForAReason,
   FreedWhenStopped,
   ResultsInv, ReasonsInv, Healthy, flags

LEMMA NextInv == ClientInv /\ [Next]_vars => ClientInv'
<1> SUFFICES ASSUME ClientInv, [Next]_vars PROVE ClientInv'
  OBVIOUS
<1>1. CASE Next
  BY <1>1, NetworkInv, ReaderInv, WriterInv, LoopInv, EndInv DEF Next
<1>2. CASE UNCHANGED vars
  BY <1>2, StutterInv
<1> QED
  BY <1>1, <1>2

(* The invariant of the client, whatever its threads' order.                *)
THEOREM Invariance == Spec => []ClientInv
<1> QED
  BY InitInv, NextInv, PTL DEF Spec

(* Every variable keeps its type.                                           *)
THEOREM TypeCorrect == Spec => []TypeOK
<1>1. ClientInv => TypeOK
  BY DEF ClientInv
<1> QED
  BY <1>1, Invariance, PTL

(* While the server, whose certificate was good, is up and nobody stops the *)
(* client, networkActive stays set, although two threads write it.          *)
THEOREM FlagIsKept == Spec => []ActiveWhileUp
<1>1. ClientInv => ActiveWhileUp
  BY DEF ClientInv
<1> QED
  BY <1>1, Invariance, PTL

(* For as long, every message is handled once.                              *)
THEOREM MessagesAreHandled == Spec => []HandledOnce
<1>1. ClientInv => HandledOnce
  BY DEF ClientInv
<1> QED
  BY <1>1, Invariance, PTL

(* The client stops only for its operator, because the connection ended or  *)
(* because it refused the server.                                           *)
THEOREM StopsAreCalledFor == Spec => []StopsForAReason
<1>1. ClientInv => StopsForAReason
  BY DEF ClientInv
<1> QED
  BY <1>1, Invariance, PTL

(* Of a server it has not refused, the SSL object is not freed before the   *)
(* client is told to stop.                                                  *)
THEOREM FreesAreLate == Spec => []FreedWhenStopped
<1>1. ClientInv => FreedWhenStopped
  BY DEF ClientInv
<1> QED
  BY <1>1, Invariance, PTL

-----------------------------------------------------------------------------
(* The prompt: what lines typed ahead of a program will make it do.  There  *)
(* may be any number of them, so the invariant has a witness for each       *)
(* character to come: where the program will be when it reads it.           *)

Chars == Words \cup {"newline", "eof"}
Inputs == Words \cup {"unset", "5", "100"}
Meanings == Moves \cup {"STOP", "CLEAR_STATS", "GET_STATS", "QUIT", "BAD"}
Packets == [command : Meanings \cup {"HELLO"}, params : Seq(Inputs)]

(* A place in the program: the read it is at, what it has read, and how     *)
(* many packets of the dialogue it has sent.                                *)
Places == [at : {"command", "flush", "params", "flushParams", "ended"},
           ch : Chars \cup {"unset"}, params : Seq(Inputs), n : Nat]

(* The meaning of a character to program p. *)
MeaningTo(p, c) ==
  IF p = "curses" THEN sendCommand_curses(c) ELSE sendCommand_original(c)

(* From a the program sends packet, the next one of goal, and is at b. *)
Sends(a, b, packet, goal) ==
  /\ b.at = "command" /\ b.n = a.n + 1
  /\ b.n <= Len(goal) /\ goal[b.n] = packet

Acts(p, a, b, goal) ==
  LET m == MeaningTo(p, a.ch)
  IN  \/ m \in Moves /\ b.at = "params" /\ b.ch = a.ch /\ b.params = << >>
           /\ b.n = a.n
      \/ m = "QUIT" /\ b.at = "ended" /\ b.n = a.n
      \/ m = "BAD" /\ b.at = "command" /\ b.n = a.n
      \/ m \notin Moves \cup {"QUIT", "BAD"}
           /\ Sends(a, b, Packet(m, NoParams), goal)

Presses(p, a, x, b, goal) ==
  LET m == MeaningTo(p, x)
  IN  \/ m = "QUIT" /\ b.at = "ended" /\ b.n = a.n
      \/ m = "BAD" /\ b.at = "command" /\ b.n = a.n
      \/ m \notin {"QUIT", "BAD"} /\ Sends(a, b, Immediate(m)[1], goal)

MovePacket(p, a) ==
  Packet(MeaningTo(p, a.ch), SubSeq(a.params \o NoParams, 1, 2))

(* Program p reads x at a, and comes to b with nothing left to do. *)
Follows(p, a, x, b, goal) ==
  /\ x # "eof"
  /\ \/ a.at = "ended" /\ b.at = "ended" /\ b.n = a.n
     \/ a.at = "command" /\ p # "curses" /\ b.at = "flush" /\ b.ch = x /\ b.n = a.n
     \/ a.at = "command" /\ p = "curses" /\ Presses(p, a, x, b, goal)
     \/ a.at = "flush" /\ x # "newline" /\ b = a
     \/ a.at = "flush" /\ x = "newline" /\ Acts(p, a, b, goal)
     \/ a.at = "params" /\ x = "newline" /\ b = a
     \/ /\ a.at = "params" /\ x \in Numbers
        /\ b.at = (IF Len(a.params) = 1 THEN "flushParams" ELSE "params")
        /\ b.ch = a.ch /\ b.params = Append(a.params, x) /\ b.n = a.n
     \/ a.at = "flushParams" /\ x # "newline" /\ b = a
     \/ a.at = "flushParams" /\ x = "newline" /\ Sends(a, b, MovePacket(p, a), goal)

(* Reading input takes program p from c to d. *)
Takes(p, c, input, d, goal) ==
  \E run \in [1 .. Len(input) + 1 -> Places] :
    /\ run[1] = c /\ run[Len(input) + 1] = d
    /\ \A i \in 1 .. Len(input) : Follows(p, run[i], input[i], run[i + 1], goal)

(* Where the program is, and c, where it is once it has nothing left to do  *)
(* but to read.                                                             *)
Now == [at |-> pc, ch |-> ch, params |-> params, n |-> Len(sent) - base]

Present(p, now, c, goal) ==
  /\ c.n <= Len(goal)
  /\ now.at = "start" => c.at = "command" /\ c.n = 0
  /\ now.at = "act" => Acts(p, now, c, goal)
  /\ now.at = "send" => Sends(now, c, MovePacket(p, now), goal)
  /\ now.at \notin {"start", "act", "send"} => c.at = now.at /\ c.n = now.n
  /\ now.at \in {"flush", "params", "flushParams"} => c.ch = now.ch
  /\ now.at \in {"params", "flushParams"} => c.params = now.params

(* At d everything asked for has been sent, and the program asks for what   *)
(* the next line is typed for.                                              *)
Asks(p, d, want, goal) ==
  /\ d.n = Len(goal)
  /\ want = "command" => d.at = "command"
  /\ want = "ended" => d.at = "ended"
  /\ want \in Moves =>
       /\ p # "curses" /\ d.at = "params" /\ d.params = << >>
       /\ MeaningTo(p, d.ch) = want

ConsoleTypes ==
  /\ program \in Programs
  /\ pc \in {"start", "command", "flush", "act", "params", "flushParams", "send", "ended"}
  /\ stdin \in Seq(Chars)
  /\ ch \in Chars \cup {"unset"}
  /\ params \in Seq(Inputs) /\ Len(params) <= 2
  /\ sent \in Seq(Packets) /\ meant \in Seq(Packets)
  /\ orderly \in BOOLEAN /\ base \in Nat
       /\ wanted \in Moves \cup {"command", "ended"}
  /\ pc = "params" => Len(params) < 2
  /\ IF pc = "start" THEN base = 1 /\ sent = << >> ELSE base <= Len(sent)

SentIsMeant ==
  orderly =>
    \A j \in 1 .. Len(sent) - base : j <= Len(meant) /\ sent[base + j] = meant[j]

(* The inductive invariant: from where the program is, what has been typed  *)
(* takes it through all that is meant to the next read that was foreseen.   *)
Foreseen ==
  \E c, d \in Places :
    /\ Present(program, Now, c, meant)
    /\ Takes(program, c, stdin, d, meant)
    /\ Asks(program, d, wanted, meant)

ConsoleInv == ConsoleTypes /\ SentIsMeant /\ (orderly => Foreseen)

-----------------------------------------------------------------------------
(* What characters make the program do. *)

LEMMA MeaningType ==
  /\ \A p, c : MeaningTo(p, c) \in Meanings
  /\ \A c : Meaning(c) = MeaningTo(program, c)
BY DEF Meaning, MeaningTo, sendCommand_original,
   sendCommand_curses, Meanings, Moves

LEMMA PacketType ==
  ASSUME NEW m \in Meanings \cup {"HELLO"}, NEW p \in Seq(Inputs)
  PROVE  Packet(m, p) \in Packets
BY DEF Packet, Packets

LEMMA ParamsTypes ==
  /\ NoParams \in Seq(Inputs) /\ getParams_curses \in Seq(Inputs)
  /\ Numbers \subseteq Inputs
BY DEF NoParams, getParams_curses, Inputs, Words

LEMMA ImmediateFacts ==
  ASSUME NEW m \in Meanings
  PROVE  /\ Immediate(m) \in Seq(Packets)
         /\ m \in {"QUIT", "BAD"} => Immediate(m) = << >>
         /\ m \notin {"QUIT", "BAD"} => Len(Immediate(m)) = 1
         /\ m \notin Moves \cup {"QUIT", "BAD"}
               => Immediate(m)[1] = Packet(m, NoParams)
<1> DEFINE packet ==
    Packet(m, IF m \in Moves THEN getParams_curses ELSE NoParams)
<1>1. packet \in Packets
  BY ParamsTypes, PacketType
<1>2. CASE m \in {"QUIT", "BAD"}
  BY <1>2 DEF Immediate
<1>3. CASE m \notin {"QUIT", "BAD"}
  <2>1. Immediate(m) = <<packet>>
    BY <1>3 DEF Immediate
  <2> HIDE DEF packet
  <2>2. Immediate(m) \in Seq(Packets) /\ Len(Immediate(m)) = 1
          /\ Immediate(m)[1] = packet
    BY <1>1, <2>1
  <2> QED
    BY <1>3, <2>2 DEF packet
<1> QED
  BY <1>2, <1>3

LEMMA MoveParams ==
  ASSUME NEW p \in Seq(Inputs)
  PROVE  /\ SubSeq(p \o NoParams, 1, 2) \in Seq(Inputs)
         /\ Len(p) = 2 => SubSeq(p \o NoParams, 1, 2) = p
<1>1. NoParams \in Seq(Inputs) /\ Len(NoParams) = 2
  BY ParamsTypes DEF NoParams
<1> DEFINE all == p \o NoParams
<1>2. all \in Seq(Inputs) /\ Len(all) = Len(p) + Len(NoParams)
  BY <1>1, ConcatProperties
<1>3. Len(p) \in Nat /\ (Len(p) = 2 => \A i \in 1 .. 2 : all[i] = p[i])
  <2>1. \A i \in 1 .. Len(p) + Len(NoParams) :
          all[i] = IF i <= Len(p) THEN p[i] ELSE NoParams[i - Len(p)]
    BY <1>1, ConcatProperties
  <2> QED
    BY <1>1, <2>1
<1> HIDE DEF all
<1>4. \A i \in 1 .. 2 : all[i] \in Inputs
  BY <1>1, <1>2, <1>3
<1>5. /\ SubSeq(all, 1, 2) \in Seq(Inputs) /\ Len(SubSeq(all, 1, 2)) = 2
      /\ \A i \in 1 .. 2 : SubSeq(all, 1, 2)[i] = all[i]
  <2>1. \A i \in 1 .. 2 - 1 + 1 : SubSeq(all, 1, 2)[i] = all[1 + i - 1]
    BY <1>4, SubSeqProperties
  <2>2. Len(SubSeq(all, 1, 2)) = IF 1 <= 2 THEN 2 - 1 + 1 ELSE 0
    BY <1>4, SubSeqProperties
  <2>3. SubSeq(all, 1, 2) \in Seq(Inputs)
    BY <1>4, SubSeqProperties
  <2> QED
    BY <2>1, <2>2, <2>3
<1>6. Len(p) = 2 => SubSeq(all, 1, 2) = p
  BY <1>3, <1>5, SeqEqual
<1> QED
  BY <1>5, <1>6 DEF all

-----------------------------------------------------------------------------
(* Reading nothing, one character more at the end, the first character. *)

LEMMA TakesNothing ==
  ASSUME NEW p, NEW c \in Places, NEW goal
  PROVE  Takes(p, c, << >>, c, goal)
<1> DEFINE run == [i \in 1 .. 1 |-> c]
<1>1. Len(<< >>) = 0
  OBVIOUS
<1>2. run \in [1 .. Len(<< >>) + 1 -> Places] /\ run[1] = c /\ run[Len(<< >>) + 1] = c
  BY <1>1
<1> HIDE DEF run
<1>3. \A i \in 1 .. Len(<< >>) : Follows(p, run[i], << >>[i], run[i + 1], goal)
  BY <1>1
<1> QED
  BY <1>2, <1>3 DEF Takes

LEMMA TakesIsOver ==
  ASSUME NEW p, NEW c, NEW d, NEW goal, Takes(p, c, << >>, d, goal)
  PROVE  c = d
BY DEF Takes

LEMMA TakesMore ==
  ASSUME NEW p, NEW c \in Places, NEW d \in Places, NEW e \in Places, NEW goal,
         NEW input \in Seq(Chars), NEW x \in Chars,
         Takes(p, c, input, d, goal), Follows(p, d, x, e, goal)
  PROVE  Takes(p, c, Append(input, x), e, goal)
<1> DEFINE N == Len(input)
           more == Append(input, x)
<1>1. N \in Nat /\ Len(more) = N + 1 /\ more[N + 1] = x
        /\ \A i \in 1 .. N : more[i] = input[i]
  OBVIOUS
<1>2. PICK run \in [1 .. N + 1 -> Places] :
        /\ run[1] = c /\ run[N + 1] = d
        /\ \A i \in 1 .. N : Follows(p, run[i], input[i], run[i + 1], goal)
  BY DEF Takes
<1> DEFINE longer == [i \in 1 .. N + 2 |-> IF i = N + 2 THEN e ELSE run[i]]
<1>3. longer \in [1 .. N + 2 -> Places]
  BY <1>1, <1>2
<1>4. longer[1] = c /\ longer[N + 2] = e
  BY <1>1, <1>2
<1>5. ASSUME NEW i \in 1 .. N + 1
      PROVE  Follows(p, longer[i], more[i], longer[i + 1], goal)
  <2>1. CASE i = N + 1
    <3>1. longer[i] = d /\ longer[i + 1] = e /\ more[i] = x
      BY <1>1, <1>2, <2>1
    <3> QED
      BY <3>1
  <2>2. CASE i # N + 1
    <3>1. i \in 1 .. N /\ i + 1 # N + 2 /\ i + 1 \in 1 .. N + 2
      BY <1>1, <2>2
    <3>2. longer[i] = run[i] /\ longer[i + 1] = run[i + 1] /\ more[i] = input[i]
      BY <1>1, <3>1
    <3> QED
      BY <1>2, <3>1, <3>2
  <2> QED
    BY <2>1, <2>2
<1>6. Len(more) + 1 = N + 2
  BY <1>1
<1> HIDE DEF longer, more
<1> QED
  <2>1. longer \in [1 .. Len(more) + 1 -> Places] /\ longer[Len(more) + 1] = e
    BY <1>3, <1>4, <1>6
  <2>2. \A i \in 1 .. Len(more) : Follows(p, longer[i], more[i], longer[i + 1], goal)
    BY <1>1, <1>5
  <2>3. Takes(p, c, more, e, goal)
    BY <1>4, <2>1, <2>2 DEF Takes
  <2> QED
    BY <2>3 DEF more

LEMMA TakesFirst ==
  ASSUME NEW p, NEW c \in Places, NEW d \in Places, NEW goal,
         NEW input \in Seq(Chars), input # << >>,
         Takes(p, c, input, d, goal)
  PROVE  \E e \in Places : Follows(p, c, Head(input), e, goal)
           /\ Takes(p, e, Tail(input), d, goal)
<1> DEFINE N == Len(input)
           rest == Tail(input)
<1>1. N \in Nat /\ N >= 1 /\ Head(input) = input[1]
        /\ Len(rest) = N - 1 /\ \A i \in 1 .. N - 1 : rest[i] = input[i + 1]
  OBVIOUS
<1>2. PICK run \in [1 .. N + 1 -> Places] :
        /\ run[1] = c /\ run[N + 1] = d
        /\ \A i \in 1 .. N : Follows(p, run[i], input[i], run[i + 1], goal)
  BY DEF Takes
<1>3. 1 \in 1 .. N /\ 1 + 1 = 2 /\ 2 \in 1 .. N + 1
  BY <1>1
<1>4. run[2] \in Places /\ Follows(p, c, Head(input), run[2], goal)
  BY <1>1, <1>2, <1>3
<1> DEFINE later == [i \in 1 .. N |-> run[i + 1]]
<1>5. later \in [1 .. N -> Places] /\ later[1] = run[2] /\ later[N] = d
  BY <1>1, <1>2
<1>6. ASSUME NEW i \in 1 .. N - 1
      PROVE  Follows(p, later[i], rest[i], later[i + 1], goal)
  <2>1. i + 1 \in 1 .. N /\ i \in 1 .. N
    BY <1>1
  <2>2. later[i] = run[i + 1] /\ later[i + 1] = run[(i + 1) + 1] /\ rest[i] = input[i + 1]
    BY <1>1, <2>1
  <2> QED
    BY <1>2, <2>1, <2>2
<1>7. Len(rest) + 1 = N
  BY <1>1
<1> HIDE DEF later, rest
<1>8. Takes(p, run[2], rest, d, goal)
  <2>1. later \in [1 .. Len(rest) + 1 -> Places] /\ later[Len(rest) + 1] = d
    BY <1>5, <1>7
  <2>2. \A i \in 1 .. Len(rest) : Follows(p, later[i], rest[i], later[i + 1], goal)
    BY <1>1, <1>6
  <2> QED
    BY <1>5, <2>1, <2>2 DEF Takes
<1> QED
  BY <1>4, <1>8 DEF rest

(* A run stays one when more is meant. *)
LEMMA FollowsFurther ==
  ASSUME NEW p, NEW goal \in Seq(Packets), NEW more \in Seq(Packets),
         NEW a \in Places, NEW b \in Places, NEW x,
         Follows(p, a, x, b, goal)
  PROVE  Follows(p, a, x, b, goal \o more)
<1>1. \A j \in 1 .. Len(goal) : j <= Len(goal \o more) /\ (goal \o more)[j] = goal[j]
  OBVIOUS
<1>2. ASSUME NEW packet, Sends(a, b, packet, goal) PROVE Sends(a, b, packet, goal \o more)
  <2>1. a.n \in Nat
    BY DEF Places
  <2> QED
    BY <1>1, <1>2, <2>1 DEF Sends
<1>3. Acts(p, a, b, goal) => Acts(p, a, b, goal \o more)
  BY <1>2 DEF Acts
<1>4. Presses(p, a, x, b, goal) => Presses(p, a, x, b, goal \o more)
  BY <1>2 DEF Presses
<1> QED
  BY <1>2, <1>3, <1>4 DEF Follows

LEMMA TakesFurther ==
  ASSUME NEW p, NEW goal \in Seq(Packets), NEW more \in Seq(Packets),
         NEW c, NEW d, NEW input \in Seq(Chars),
         Takes(p, c, input, d, goal)
  PROVE  Takes(p, c, input, d, goal \o more)
<1>1. PICK run \in [1 .. Len(input) + 1 -> Places] :
        /\ run[1] = c /\ run[Len(input) + 1] = d
        /\ \A i \in 1 .. Len(input) : Follows(p, run[i], input[i], run[i + 1], goal)
  BY DEF Takes
<1>2. ASSUME NEW i \in 1 .. Len(input)
      PROVE  Follows(p, run[i], input[i], run[i + 1], goal \o more)
  <2>1. run[i] \in Places /\ run[i + 1] \in Places
    BY <1>1
  <2> QED
    BY <1>1, <2>1, FollowsFurther
<1> QED
  BY <1>1, <1>2 DEF Takes

-----------------------------------------------------------------------------
(* The program's steps. *)

LEMMA SentMore ==
  ASSUME ConsoleTypes, NEW packet \in Packets, sent' = Append(sent, packet)
  PROVE  /\ sent' \in Seq(Packets) /\ Len(sent') = Len(sent) + 1
         /\ sent'[Len(sent) + 1] = packet
         /\ \A j \in 1 .. Len(sent) : sent'[j] = sent[j]
BY DEF ConsoleTypes

(* The packet sent is the next one that was meant. *)
LEMMA SendsNext ==
  ASSUME ConsoleTypes, SentIsMeant, orderly, pc # "start",
         NEW packet \in Packets, sent' = Append(sent, packet),
         UNCHANGED <<orderly, meant, base>>,
         NEW c \in Places, Sends(Now, c, packet, meant)
  PROVE  SentIsMeant' /\ c.n = Len(sent') - base'
<1>1. Len(sent) \in Nat /\ base \in Nat /\ base <= Len(sent)
  BY DEF ConsoleTypes
<1>2. Now.n = Len(sent) - base
  BY DEF Now
<1>3. c.n = Len(sent) - base + 1 /\ c.n <= Len(meant) /\ packet = meant[c.n]
  BY <1>2 DEF Sends
<1>4. /\ Len(sent') = Len(sent) + 1 /\ sent'[Len(sent) + 1] = packet
      /\ \A j \in 1 .. Len(sent) : sent'[j] = sent[j]
  BY SentMore
<1>5. ASSUME NEW j \in 1 .. Len(sent') - base
      PROVE  j <= Len(meant) /\ sent'[base + j] = meant[j]
  <2>1. CASE j = Len(sent) - base + 1
    <3>1. base + j = Len(sent) + 1 /\ j = c.n
      BY <1>1, <1>3, <2>1
    <3> QED
      BY <1>3, <1>4, <3>1
  <2>2. CASE j # Len(sent) - base + 1
    <3>1. j \in 1 .. Len(sent) - base /\ base + j \in 1 .. Len(sent)
      BY <1>1, <1>4, <2>2
    <3>2. j <= Len(meant) /\ sent[base + j] = meant[j]
      BY <3>1 DEF SentIsMeant
    <3> QED
      BY <1>4, <3>1, <3>2
  <2> QED
    BY <2>1, <2>2
<1>6. orderly' = orderly /\ meant' = meant /\ base' = base
  OBVIOUS
<1>7. SentIsMeant'
  BY <1>5, <1>6 DEF SentIsMeant
<1>8. c.n = Len(sent') - base'
  BY <1>1, <1>3, <1>4, <1>6
<1> QED
  BY <1>7, <1>8

LEMMA StdinFacts ==
  ASSUME ConsoleTypes, stdin # << >>
  PROVE  Head(stdin) \in Chars /\ Tail(stdin) \in Seq(Chars)
BY HeadTailProperties DEF ConsoleTypes

LEMMA SendHelloKeeps ==
  ASSUME ConsoleInv, SendHello
  PROVE  ConsoleInv'
<1> USE DEF ConsoleInv, SendHello
<1> DEFINE hello == Packet("HELLO", NoParams)
<1>1. hello \in Packets
  BY ParamsTypes, PacketType
<1>2. sent' = Append(sent, hello) /\ sent = << >> /\ base = 1 /\ base' = 1 /\ Len(sent) = 0
  BY DEF SendPacket, ConsoleTypes, history
<1>3. sent' \in Seq(Packets) /\ Len(sent') = 1
  BY <1>1, <1>2, SentMore
<1> HIDE DEF hello
<1>4. ConsoleTypes'
  BY <1>2, <1>3 DEF ConsoleTypes, history
<1>5. SentIsMeant'
  BY <1>2, <1>3 DEF SentIsMeant
<1>6. ASSUME orderly' PROVE Foreseen'
  <2>1. PICK c, d \in Places :
          /\ Present(program, Now, c, meant)
          /\ Takes(program, c, stdin, d, meant)
          /\ Asks(program, d, wanted, meant)
    BY <1>6 DEF Foreseen, history
  <2>2. Present(program', Now', c, meant')
    BY <1>2, <1>3, <2>1 DEF Present, Now, history
  <2> QED
    BY <2>1, <2>2 DEF Foreseen, history
<1> QED
  BY <1>4, <1>5, <1>6

LEMMA ReadCommandKeeps ==
  ASSUME ConsoleInv, ReadCommand
  PROVE  ConsoleInv'
<1> USE DEF ConsoleInv, ReadCommand
<1>1. ConsoleTypes'
  <2>1. Head(stdin) \in Chars /\ Tail(stdin) \in Seq(Chars)
    BY StdinFacts
  <2> QED
    BY <2>1 DEF ConsoleTypes, history
<1>2. SentIsMeant'
  BY DEF SentIsMeant, history
<1>3. ASSUME orderly' PROVE Foreseen'
  <2>1. PICK c, d \in Places :
          /\ Present(program, Now, c, meant)
          /\ Takes(program, c, stdin, d, meant)
          /\ Asks(program, d, wanted, meant)
    BY <1>3 DEF Foreseen, history
  <2>2. PICK e \in Places :
          Follows(program, c, Head(stdin), e, meant)
            /\ Takes(program, e, Tail(stdin), d, meant)
    BY <2>1, TakesFirst DEF ConsoleTypes
  <2>3. Head(stdin) # "eof"
    BY <2>2 DEF Follows
  <2>4. c.at = "command" /\ c.n = Len(sent) - base /\ c.n <= Len(meant)
    BY <2>1 DEF Present, Now
  <2>5. e.at = "flush" /\ e.ch = Head(stdin) /\ e.n = c.n
    BY <2>2, <2>4 DEF Follows
  <2>6. Present(program', Now', e, meant')
    BY <2>3, <2>4, <2>5 DEF Present, Now, history
  <2> QED
    BY <2>1, <2>2, <2>3, <2>6 DEF Foreseen, history
<1> QED
  BY <1>1, <1>2, <1>3

LEMMA FlushKeeps ==
  ASSUME ConsoleInv, Flush
  PROVE  ConsoleInv'
<1> USE DEF ConsoleInv, Flush, flushInput
<1>1. ConsoleTypes'
  <2>1. Head(stdin) \in Chars /\ Tail(stdin) \in Seq(Chars)
    BY StdinFacts
  <2> QED
    BY <2>1 DEF ConsoleTypes, history
<1>2. SentIsMeant'
  BY DEF SentIsMeant, history
<1>3. ASSUME orderly' PROVE Foreseen'
  <2>1. PICK c, d \in Places :
          /\ Present(program, Now, c, meant)
          /\ Takes(program, c, stdin, d, meant)
          /\ Asks(program, d, wanted, meant)
    BY <1>3 DEF Foreseen, history
  <2>2. PICK e \in Places :
          Follows(program, c, Head(stdin), e, meant)
            /\ Takes(program, e, Tail(stdin), d, meant)
    BY <2>1, TakesFirst DEF ConsoleTypes
  <2>3. Head(stdin) # "eof"
    BY <2>2 DEF Follows
  <2>4. /\ c.at = pc /\ c.n = Len(sent) - base /\ c.n <= Len(meant) /\ c.ch = ch
        /\ pc = "flushParams" => c.params = params
    BY <2>1 DEF Present, Now
  <2>5. Present(program', Now', e, meant')
    <3>1. CASE Head(stdin) # "newline"
      <4>1. e = c /\ pc' = pc
        BY <2>2, <2>3, <2>4, <3>1 DEF Follows
      <4> QED
        BY <2>4, <4>1 DEF Present, Now, history
    <3>2. CASE Head(stdin) = "newline" /\ pc = "flush"
      <4>1. Acts(program, c, e, meant) /\ pc' = "act"
        BY <2>2, <2>4, <3>2 DEF Follows
      <4>2. Acts(program, Now', e, meant)
        BY <2>4, <4>1 DEF Acts, Sends, Now, history
      <4>3. e.n <= Len(meant)
        BY <2>4, <4>1 DEF Acts, Sends
      <4> QED
        BY <4>1, <4>2, <4>3 DEF Present, Now, history
    <3>3. CASE Head(stdin) = "newline" /\ pc = "flushParams"
      <4>1. Sends(c, e, MovePacket(program, c), meant) /\ pc' = "send"
        BY <2>2, <2>4, <3>3 DEF Follows
      <4>2. Sends(Now', e, MovePacket(program, Now'), meant)
        BY <2>4, <3>3, <4>1 DEF Sends, MovePacket, Now, history
      <4>3. e.n <= Len(meant)
        BY <4>1 DEF Sends
      <4> QED
        BY <4>1, <4>2, <4>3 DEF Present, Now, history
    <3> QED
      BY <3>1, <3>2, <3>3
  <2> QED
    BY <2>1, <2>2, <2>3, <2>5 DEF Foreseen, history
<1> QED
  BY <1>1, <1>2, <1>3

LEMMA ActKeeps ==
  ASSUME ConsoleInv, Act
  PROVE  ConsoleInv'
<1> USE DEF ConsoleInv, Act
<1> DEFINE m == Meaning(ch)
<1>1. m \in Meanings /\ m = MeaningTo(program, ch)
  BY MeaningType
<1>2. Packet(m, NoParams) \in Packets
  BY <1>1, ParamsTypes, PacketType
<1> HIDE DEF m
<1>3. ConsoleTypes'
  <2>1. sent' = sent \/ sent' = Append(sent, Packet(m, NoParams))
    BY DEF SendPacket, m
  <2>2. sent' \in Seq(Packets) /\ Len(sent') >= Len(sent)
    BY <1>2, <2>1, SentMore DEF ConsoleTypes
  <2>3. (params' = params /\ pc' # "params") \/ params' = << >>
    BY DEF Moves
  <2>4. params \in Seq(Inputs) /\ Len(params) <= 2
    BY DEF ConsoleTypes
  <2>5. params' \in Seq(Inputs) /\ Len(params') <= 2 /\ (pc' = "params" => Len(params') < 2)
    <3>1. CASE params' = << >>
      <4>1. Len(params') = 0
        BY <3>1
      <4>2. params' \in Seq(Inputs)
        BY <3>1
      <4> QED
        BY <4>1, <4>2
    <3> QED
      BY <2>3, <2>4, <3>1
  <2>6. pc' \in {"params", "ended", "command"} /\ pc = "act"
    OBVIOUS
  <2>7. base <= Len(sent) /\ base \in Nat /\ Len(sent) \in Nat /\ Len(sent') \in Nat
    BY <2>2, <2>6 DEF ConsoleTypes
  <2>8. base' <= Len(sent') /\ base' = base
    BY <2>2, <2>7 DEF history
  <2> QED
    BY <2>2, <2>5, <2>6, <2>8 DEF ConsoleTypes, history
<1>4. ASSUME orderly' PROVE SentIsMeant' /\ Foreseen'
  <2>1. PICK c, d \in Places :
          /\ Present(program, Now, c, meant)
          /\ Takes(program, c, stdin, d, meant)
          /\ Asks(program, d, wanted, meant)
    BY <1>4 DEF Foreseen, history
  <2>2. Acts(program, Now, c, meant) /\ Now.n = Len(sent) - base /\ Now.ch = ch
          /\ c.n <= Len(meant)
    BY <2>1 DEF Present, Now
  <2>3. SentIsMeant' /\ Present(program', Now', c, meant')
    <3>1. CASE m \in Moves
      <4>1. c.at = "params" /\ c.ch = ch /\ c.params = << >> /\ c.n = Len(sent) - base
        BY <1>1, <2>2, <3>1 DEF Acts, Moves
      <4>2. pc' = "params" /\ params' = << >> /\ sent' = sent
        BY <3>1 DEF m, Moves
      <4> QED
        BY <2>2, <4>1, <4>2 DEF SentIsMeant, Present, Now, history
    <3>2. CASE m = "QUIT"
      <4>1. c.at = "ended" /\ c.n = Len(sent) - base
        BY <1>1, <2>2, <3>2 DEF Acts, Moves
      <4>2. pc' = "ended" /\ sent' = sent
        BY <3>2 DEF m, Moves
      <4> QED
        BY <2>2, <4>1, <4>2 DEF SentIsMeant, Present, Now, history
    <3>3. CASE m = "BAD"
      <4>1. c.at = "command" /\ c.n = Len(sent) - base
        BY <1>1, <2>2, <3>3 DEF Acts, Moves
      <4>2. pc' = "command" /\ sent' = sent
        BY <3>3 DEF m, Moves
      <4> QED
        BY <2>2, <4>1, <4>2 DEF SentIsMeant, Present, Now, history
    <3>4. CASE m \notin Moves \cup {"QUIT", "BAD"}
      <4>1. Sends(Now, c, Packet(m, NoParams), meant)
        BY <1>1, <2>2, <3>4 DEF Acts
      <4>2. pc' = "command" /\ sent' = Append(sent, Packet(m, NoParams))
        BY <3>4 DEF m, SendPacket
      <4>3. SentIsMeant' /\ c.n = Len(sent') - base'
        BY <1>2, <1>4, <4>1, <4>2, SendsNext DEF history
      <4>4. c.at = "command"
        BY <4>1 DEF Sends
      <4> QED
        BY <2>2, <4>2, <4>3, <4>4 DEF Present, Now, history
    <3> QED
      BY <3>1, <3>2, <3>3, <3>4
  <2> QED
    BY <2>1, <2>3 DEF Foreseen, history
<1> QED
  BY <1>3, <1>4 DEF SentIsMeant

LEMMA getParamsKeeps ==
  ASSUME ConsoleInv, getParams
  PROVE  ConsoleInv'
<1> USE DEF ConsoleInv, getParams
<1>1. ConsoleTypes'
  <2>1. Head(stdin) \in Chars /\ Tail(stdin) \in Seq(Chars)
    BY StdinFacts
  <2>2. Head(stdin) \in Numbers => Append(params, Head(stdin)) \in Seq(Inputs)
    BY ParamsTypes DEF ConsoleTypes
  <2>3. stdin' \in Seq(Chars)
    BY <2>1 DEF ConsoleTypes
  <2>4. params' \in Seq(Inputs) /\ Len(params') <= 2 /\ (pc' = "params" => Len(params') < 2)
    <3>1. CASE params' = params
      BY <3>1 DEF ConsoleTypes
    <3>2. CASE params' = Append(params, Head(stdin)) /\ Head(stdin) \in Numbers
      <4>1. Len(params') = Len(params) + 1 /\ Len(params) \in Nat /\ Len(params) < 2
        BY <3>2 DEF ConsoleTypes
      <4>2. pc' = (IF Len(params) = 1 THEN "flushParams" ELSE pc)
        <5>1. Head(stdin) # "newline"
          BY <3>2, KeyboardAssumption
        <5>2. Head(stdin) \notin Numbers \cup {"newline"} => FALSE
          BY <3>2
        <5> QED
          BY <5>1, <5>2, Zenon
      <4>3. params' \in Seq(Inputs)
        BY <2>2, <3>2
      <4>4. pc' = "params" => Len(params) = 0
        <5>1. Len(params) = 0 \/ Len(params) = 1
          <6>1. \A k \in Nat : k < 2 => k = 0 \/ k = 1
            OBVIOUS
          <6> QED
            BY <4>1, <6>1, Zenon
        <5>2. pc' = "params" => Len(params) # 1
          BY <4>2
        <5> QED
          BY <5>1, <5>2, Zenon
      <4>5. Len(params') <= 2
        BY <4>1
      <4>6. pc' = "params" => Len(params') < 2
        BY <4>1, <4>4
      <4> QED
        BY <4>3, <4>5, <4>6
    <3> QED
      BY <3>1, <3>2
  <2>5. pc' \in {"params", "flushParams"} /\ pc = "params"
    OBVIOUS
  <2> QED
    BY <2>3, <2>4, <2>5 DEF ConsoleTypes, history
<1>2. SentIsMeant'
  BY DEF SentIsMeant, history
<1>3. ASSUME orderly' PROVE Foreseen'
  <2>1. PICK c, d \in Places :
          /\ Present(program, Now, c, meant)
          /\ Takes(program, c, stdin, d, meant)
          /\ Asks(program, d, wanted, meant)
    BY <1>3 DEF Foreseen, history
  <2>2. PICK e \in Places :
          Follows(program, c, Head(stdin), e, meant)
            /\ Takes(program, e, Tail(stdin), d, meant)
    BY <2>1, TakesFirst DEF ConsoleTypes
  <2>3. /\ c.at = "params" /\ c.n = Len(sent) - base /\ c.n <= Len(meant)
        /\ c.ch = ch /\ c.params = params
    BY <2>1 DEF Present, Now
  <2>4. CASE Head(stdin) = "newline"
    <3>1. Head(stdin) \notin Numbers
      BY <2>4, KeyboardAssumption
    <3>2. e = c /\ pc' = pc /\ params' = params /\ stdin' = Tail(stdin)
      BY <2>2, <2>3, <2>4, <3>1 DEF Follows
    <3>3. Present(program', Now', e, meant')
      BY <2>3, <3>2 DEF Present, Now, history
    <3> QED
      BY <2>1, <2>2, <3>2, <3>3 DEF Foreseen, history
  <2>5. CASE Head(stdin) # "newline"
    <3>1. /\ Head(stdin) \in Numbers
          /\ e.at = (IF Len(params) = 1 THEN "flushParams" ELSE "params")
          /\ e.ch = ch /\ e.params = Append(params, Head(stdin)) /\ e.n = c.n
      BY <2>2, <2>3, <2>5 DEF Follows
    <3>2. /\ stdin' = Tail(stdin) /\ params' = Append(params, Head(stdin))
          /\ pc' = (IF Len(params) = 1 THEN "flushParams" ELSE pc)
      BY <2>5, <3>1
    <3>3. Present(program', Now', e, meant')
      BY <2>3, <3>1, <3>2 DEF Present, Now, history
    <3> QED
      BY <2>1, <2>2, <3>2, <3>3 DEF Foreseen, history
  <2> QED
    BY <2>4, <2>5
<1> QED
  BY <1>1, <1>2, <1>3

LEMMA SendMoveKeeps ==
  ASSUME ConsoleInv, SendMove
  PROVE  ConsoleInv'
<1> USE DEF ConsoleInv, SendMove
<1> DEFINE packet == Packet(Meaning(ch), SubSeq(params \o NoParams, 1, 2))
<1>1. packet \in Packets
  BY MeaningType, MoveParams, PacketType DEF ConsoleTypes
<1>2. packet = MovePacket(program, Now)
  BY MeaningType DEF MovePacket, Now
<1>3. sent' = Append(sent, packet)
  BY DEF SendPacket
<1> HIDE DEF packet
<1>4. ConsoleTypes'
  <2>1. sent' \in Seq(Packets) /\ Len(sent') = Len(sent) + 1
    BY <1>1, <1>3, SentMore
  <2> QED
    BY <2>1 DEF ConsoleTypes, history
<1>5. ASSUME orderly' PROVE SentIsMeant' /\ Foreseen'
  <2>1. PICK c, d \in Places :
          /\ Present(program, Now, c, meant)
          /\ Takes(program, c, stdin, d, meant)
          /\ Asks(program, d, wanted, meant)
    BY <1>5 DEF Foreseen, history
  <2>2. Sends(Now, c, packet, meant) /\ c.n <= Len(meant)
    BY <1>2, <2>1 DEF Present, Now
  <2>3. SentIsMeant' /\ c.n = Len(sent') - base'
    BY <1>1, <1>3, <1>5, <2>2, SendsNext DEF history
  <2>4. c.at = "command"
    BY <2>2 DEF Sends
  <2>5. Present(program', Now', c, meant')
    BY <2>2, <2>3, <2>4 DEF Present, Now, history
  <2> QED
    BY <2>1, <2>3, <2>5 DEF Foreseen, history
<1> QED
  BY <1>4, <1>5 DEF SentIsMeant

LEMMA KeyKeeps ==
  ASSUME ConsoleInv, Key
  PROVE  ConsoleInv'
<1> USE DEF ConsoleInv, Key
<1> DEFINE m == Meaning(Head(stdin))
           packet == Immediate(m)[1]
<1>1. m \in Meanings /\ m = MeaningTo(program, Head(stdin))
  BY MeaningType
<1>2. m \notin {"QUIT", "BAD"} => packet \in Packets
  BY <1>1, ImmediateFacts
<1>3. m \notin {"QUIT", "BAD"} => pc' = pc /\ sent' = Append(sent, packet)
  BY DEF SendPacket
<1>4. m \in {"QUIT", "BAD"} => sent' = sent /\ pc' = IF m = "QUIT" THEN "ended" ELSE pc
  OBVIOUS
<1> HIDE DEF m, packet
<1>5. ConsoleTypes'
  <2>1. sent' \in Seq(Packets) /\ Len(sent') >= Len(sent)
    BY <1>2, <1>3, <1>4, SentMore DEF ConsoleTypes
  <2>2. Head(stdin) \in Chars /\ Tail(stdin) \in Seq(Chars)
    BY StdinFacts
  <2> QED
    BY <1>3, <1>4, <2>1, <2>2 DEF ConsoleTypes, history
<1>6. ASSUME orderly' PROVE SentIsMeant' /\ Foreseen'
  <2>1. PICK c, d \in Places :
          /\ Present(program, Now, c, meant)
          /\ Takes(program, c, stdin, d, meant)
          /\ Asks(program, d, wanted, meant)
    BY <1>6 DEF Foreseen, history
  <2>2. PICK e \in Places :
          Follows(program, c, Head(stdin), e, meant)
            /\ Takes(program, e, Tail(stdin), d, meant)
    BY <2>1, TakesFirst DEF ConsoleTypes
  <2>3. c.at = "command" /\ c.n = Now.n /\ Now.n = Len(sent) - base /\ c.n <= Len(meant)
    BY <2>1 DEF Present, Now
  <2>4. Presses(program, c, Head(stdin), e, meant)
    BY <2>2, <2>3 DEF Follows
  <2>5. SentIsMeant' /\ Present(program', Now', e, meant')
    <3>1. CASE m \in {"QUIT", "BAD"}
      <4>1. e.n = c.n /\ e.at = IF m = "QUIT" THEN "ended" ELSE "command"
        BY <1>1, <2>4, <3>1 DEF Presses
      <4> QED
        BY <1>4, <2>3, <3>1, <4>1 DEF SentIsMeant, Present, Now, history
    <3>2. CASE m \notin {"QUIT", "BAD"}
      <4>1. Sends(c, e, packet, meant)
        BY <1>1, <2>4, <3>2 DEF Presses, packet
      <4>2. Sends(Now, e, packet, meant) /\ e.at = "command" /\ e.n <= Len(meant)
        BY <2>3, <4>1 DEF Sends
      <4>3. SentIsMeant' /\ e.n = Len(sent') - base'
        BY <1>2, <1>3, <1>6, <3>2, <4>2, SendsNext DEF history
      <4> QED
        BY <1>3, <3>2, <4>2, <4>3 DEF Present, Now, history
    <3> QED
      BY <3>1, <3>2
  <2> QED
    BY <2>1, <2>2, <2>5 DEF Foreseen, history
<1> QED
  BY <1>5, <1>6 DEF SentIsMeant

-----------------------------------------------------------------------------
(* The operator's lines. *)

(* From d the program comes to e when line follows whatever led to d. *)
Reaches(p, d, line, e, goal) ==
  \A c \in Places, input \in Seq(Chars) :
    Takes(p, c, input, d, goal) => Takes(p, c, input \o line, e, goal)

LEMMA ReachesNothing ==
  ASSUME NEW p, NEW d, NEW goal
  PROVE  Reaches(p, d, << >>, d, goal)
BY ConcatEmptySeq DEF Reaches

LEMMA ReachesMore ==
  ASSUME NEW p, NEW d \in Places, NEW e \in Places, NEW f \in Places, NEW goal,
         NEW line \in Seq(Chars), NEW x \in Chars,
         Reaches(p, d, line, e, goal), Follows(p, e, x, f, goal)
  PROVE  Reaches(p, d, Append(line, x), f, goal)
<1> SUFFICES ASSUME NEW c \in Places, NEW input \in Seq(Chars), Takes(p, c, input, d, goal)
             PROVE  Takes(p, c, input \o Append(line, x), f, goal)
  BY DEF Reaches
<1>1. Takes(p, c, input \o line, e, goal)
  BY DEF Reaches
<1>2. input \o line \in Seq(Chars)
  BY ConcatProperties
<1>3. Takes(p, c, Append(input \o line, x), f, goal)
  BY <1>1, <1>2, TakesMore
<1>4. Append(input \o line, x) = input \o Append(line, x)
  OBVIOUS
<1> QED
  BY <1>3, <1>4

Talks == [orderly : BOOLEAN, wanted : Moves \cup {"command", "ended"},
          meant : Seq(Packets), base : Nat]

LEMMA LineShapes ==
  ASSUME NEW line \in Lines
  PROVE  \/ line = << >>
         \/ \E w \in Words : line = <<w>>
         \/ \E v, w \in Words : line = <<v, w>>
BY DEF Lines, Words

LEMMA WordFacts ==
  ASSUME NEW w \in Words
  PROVE  w \in Chars /\ w \notin {"newline", "eof"}
BY KeyboardAssumption DEF Words, Chars

(* What follows from line holds of it once a talk has come to an end. *)
LEMMA EndedLeads ==
  ASSUME NEW p, NEW line \in Lines, NEW d \in Places, NEW goal, d.at = "ended"
  PROVE  Reaches(p, d, Append(line, "newline"), d, goal)
<1>1. \A x \in Chars \ {"eof"} : Follows(p, d, x, d, goal)
  BY DEF Follows
<1>2. "newline" \in Chars \ {"eof"} /\ << >> \in Seq(Chars)
  BY DEF Chars
<1>3. Reaches(p, d, << >>, d, goal)
  BY ReachesNothing
<1>4. CASE line = << >>
  BY <1>1, <1>2, <1>3, <1>4, ReachesMore
<1>5. ASSUME NEW w \in Words, line = <<w>>
      PROVE  Reaches(p, d, Append(line, "newline"), d, goal)
  <2>1. w \in Chars \ {"eof"} /\ line = Append(<< >>, w) /\ line \in Seq(Chars)
    BY <1>5, WordFacts
  <2>2. Reaches(p, d, line, d, goal)
    BY <1>1, <1>2, <1>3, <2>1, ReachesMore
  <2> QED
    BY <1>1, <1>2, <2>1, <2>2, ReachesMore
<1>6. ASSUME NEW v \in Words, NEW w \in Words, line = <<v, w>>
      PROVE  Reaches(p, d, Append(line, "newline"), d, goal)
  <2>1. v \in Chars \ {"eof"} /\ w \in Chars \ {"eof"}
    BY WordFacts
  <2>2. /\ <<v>> = Append(<< >>, v) /\ <<v>> \in Seq(Chars)
        /\ line = Append(<<v>>, w) /\ line \in Seq(Chars)
    BY <1>6, <2>1
  <2>3. Reaches(p, d, <<v>>, d, goal)
    BY <1>1, <1>2, <1>3, <2>1, <2>2, ReachesMore
  <2>4. Reaches(p, d, line, d, goal)
    BY <1>1, <2>1, <2>2, <2>3, ReachesMore
  <2> QED
    BY <1>1, <1>2, <2>2, <2>4, ReachesMore
<1> QED
  BY <1>4, <1>5, <1>6, LineShapes

(* A key in the curses program does what it means. *)
LEMMA KeyLeads ==
  ASSUME program = "curses", NEW t \in Talks, NEW x \in Words,
         NEW d \in Places, Asks(program, d, t.wanted, t.meant)
  PROVE  LET u == AsKey(x, t)
         IN  /\ u \in Talks /\ u.orderly = t.orderly /\ u.base = t.base
             /\ \E more \in Seq(Packets), e \in Places :
                  /\ u.meant = t.meant \o more
                  /\ Asks(program, e, u.wanted, u.meant)
                  /\ Follows(program, d, x, e, u.meant)
<1> DEFINE u == AsKey(x, t)
           m == Meaning(x)
<1>1. m \in Meanings /\ m = MeaningTo(program, x)
  BY MeaningType
<1>2. /\ t.meant \in Seq(Packets) /\ Len(t.meant) \in Nat /\ d.n = Len(t.meant)
      /\ t.wanted \in Moves \cup {"command", "ended"} /\ t.wanted \notin Moves
  BY DEF Talks, Asks
<1>3. << >> \in Seq(Packets) /\ t.meant \o << >> = t.meant
  BY <1>2, ConcatEmptySeq
<1>4. x # "eof"
  BY WordFacts
<1>5. CASE t.wanted = "ended"
  <2>1. u = t
    BY <1>5 DEF AsKey
  <2>2. Follows(program, d, x, d, u.meant)
    BY <1>4, <1>5 DEF Follows, Asks
  <2> QED
    BY <1>3, <2>1, <2>2
<1>6. CASE t.wanted = "command"
  <2>1. d.at = "command"
    BY <1>6 DEF Asks
  <2>2. u = [t EXCEPT !.meant = t.meant \o Immediate(m),
                      !.wanted = IF m = "QUIT" THEN "ended" ELSE "command"]
    BY <1>6 DEF AsKey
  <2>3. Immediate(m) \in Seq(Packets)
          /\ t.meant \o Immediate(m) \in Seq(Packets)
    BY <1>1, <1>2, ImmediateFacts, ConcatProperties
  <2>4. /\ u \in Talks /\ u.orderly = t.orderly /\ u.base = t.base
        /\ u.meant = t.meant \o Immediate(m)
        /\ u.wanted = IF m = "QUIT" THEN "ended" ELSE "command"
    BY <2>2, <2>3 DEF Talks
  <2> HIDE DEF u, m
  <2>5. CASE m \in {"QUIT", "BAD"}
    <3> DEFINE e == [d EXCEPT !.at = IF m = "QUIT" THEN "ended" ELSE "command"]
    <3>1. e \in Places /\ e.n = d.n /\ e.at = IF m = "QUIT" THEN "ended" ELSE "command"
      BY DEF Places
    <3>2. u.meant = t.meant \o << >> /\ u.meant = t.meant
      BY <1>1, <1>3, <2>4, <2>5, ImmediateFacts
    <3> HIDE DEF e
    <3>3. Asks(program, e, u.wanted, u.meant)
      BY <1>2, <2>4, <3>1, <3>2 DEF Asks, Moves
    <3>4. Presses(program, d, x, e, u.meant)
      BY <1>1, <2>5, <3>1 DEF Presses
    <3>5. Follows(program, d, x, e, u.meant)
      BY <1>4, <2>1, <3>4 DEF Follows
    <3> QED
      BY <1>3, <2>4, <3>1, <3>2, <3>3, <3>5 DEF u
  <2>6. CASE m \notin {"QUIT", "BAD"}
    <3> DEFINE e == [d EXCEPT !.n = d.n + 1]
               packet == Immediate(m)[1]
    <3>1. e \in Places /\ e.n = d.n + 1 /\ e.at = "command"
      BY <2>1 DEF Places
    <3>2. packet \in Packets /\ Len(Immediate(m)) = 1
      BY <1>1, <2>6, ImmediateFacts
    <3>3. u.meant \in Seq(Packets) /\ Len(u.meant) = Len(t.meant) + 1
            /\ u.meant[Len(t.meant) + 1] = packet
      <4> DEFINE q == Immediate(m)
      <4>1. u.meant = t.meant \o q /\ q \in Seq(Packets) /\ Len(q) = 1 /\ q[1] = packet
        BY <2>3, <2>4, <3>2
      <4> HIDE DEF q
      <4>2. Len(u.meant) = Len(t.meant) + Len(q)
        BY <1>2, <4>1, ConcatProperties
      <4>3. \A i \in 1 .. Len(t.meant) + Len(q) :
              u.meant[i] = IF i <= Len(t.meant) THEN t.meant[i] ELSE q[i - Len(t.meant)]
        BY <1>2, <4>1, ConcatProperties
      <4> QED
        BY <1>2, <2>3, <2>4, <4>1, <4>2, <4>3
    <3> HIDE DEF e, packet
    <3>4. Sends(d, e, packet, u.meant)
      BY <1>2, <3>1, <3>3 DEF Sends
    <3>5. Presses(program, d, x, e, u.meant)
      BY <1>1, <2>6, <3>4 DEF Presses, packet
    <3>6. Follows(program, d, x, e, u.meant)
      BY <1>4, <2>1, <3>5 DEF Follows
    <3>7. Asks(program, e, u.wanted, u.meant)
      BY <1>2, <2>4, <2>6, <3>1, <3>3 DEF Asks, Moves
    <3> QED
      BY <2>3, <2>4, <3>1, <3>6, <3>7 DEF u
  <2> QED
    BY <2>5, <2>6
<1> QED
  BY <1>2, <1>5, <1>6

(* From d the line, typed in talk t, takes the program to where it asks for *)
(* what the talk u, with the line in it, is at.                             *)
Leads(t, line, u, d) ==
  \E more \in Seq(Packets), e \in Places :
    /\ u.meant = t.meant \o more
    /\ Asks(program, e, u.wanted, u.meant)
    /\ Reaches(program, d, Append(line, "newline"), e, u.meant)

LEMMA NewlineType == "newline" \in Chars /\ << >> \in Seq(Chars)
BY DEF Chars

(* The end of a line is no key of the curses program. *)
LEMMA NewlineIsNoKey ==
  ASSUME program = "curses", NEW d \in Places, NEW goal, d.at \in {"command", "ended"}
  PROVE  Follows(program, d, "newline", d, goal)
<1>1. MeaningTo("curses", "newline") = "BAD"
  BY DEF MeaningTo, sendCommand_curses
<1> QED
  BY <1>1 DEF Follows, Presses

LEMMA KeysLead ==
  ASSUME program = "curses", NEW t \in Talks, NEW line \in Lines,
         NEW d \in Places, Asks(program, d, t.wanted, t.meant)
  PROVE  LET u == AsKeys(line, t)
         IN  u \in Talks /\ u.orderly = t.orderly /\ u.base = t.base /\ Leads(t, line, u, d)
<1> DEFINE u == AsKeys(line, t)
<1>1. t.meant \in Seq(Packets) /\ t.wanted \in Moves \cup {"command", "ended"}
  BY DEF Talks
<1>2. ASSUME NEW goal PROVE Reaches(program, d, << >>, d, goal)
  BY ReachesNothing
<1>3. ASSUME NEW s \in Talks, NEW e \in Places, Asks(program, e, s.wanted, s.meant)
      PROVE  Follows(program, e, "newline", e, s.meant)
  <2>1. e.at \in {"command", "ended"}
    BY <1>3 DEF Talks, Asks
  <2> QED
    BY <2>1, NewlineIsNoKey
<1>4. CASE line = << >>
  <2>1. u = t
    BY <1>4 DEF AsKeys
  <2>2. t.meant = t.meant \o << >> /\ << >> \in Seq(Packets)
    BY <1>1, ConcatEmptySeq
  <2>3. Reaches(program, d, Append(line, "newline"), d, t.meant)
    BY <1>2, <1>3, <1>4, NewlineType, ReachesMore
  <2> QED
    BY <2>1, <2>2, <2>3 DEF Leads
<1>5. ASSUME NEW w \in Words, line = <<w>>
      PROVE  u \in Talks /\ u.orderly = t.orderly /\ u.base = t.base /\ Leads(t, line, u, d)
  <2>1. u = AsKey(w, t)
    BY <1>5 DEF AsKeys
  <2>2. w \in Chars /\ line = Append(<< >>, w) /\ line \in Seq(Chars)
    BY <1>5, WordFacts
  <2> HIDE DEF u
  <2>3. u \in Talks /\ u.orderly = t.orderly /\ u.base = t.base
    BY <2>1, KeyLeads
  <2>4. PICK more \in Seq(Packets), e \in Places :
          /\ u.meant = t.meant \o more
          /\ Asks(program, e, u.wanted, u.meant)
          /\ Follows(program, d, w, e, u.meant)
    BY <2>1, KeyLeads
  <2>5. Reaches(program, d, line, e, u.meant)
    BY <1>2, <2>2, <2>4, NewlineType, ReachesMore
  <2>6. Reaches(program, d, Append(line, "newline"), e, u.meant)
    BY <1>3, <2>2, <2>3, <2>4, <2>5, NewlineType, ReachesMore
  <2> QED
    BY <2>3, <2>4, <2>6 DEF Leads
<1>6. ASSUME NEW v \in Words, NEW w \in Words, line = <<v, w>>
      PROVE  u \in Talks /\ u.orderly = t.orderly /\ u.base = t.base /\ Leads(t, line, u, d)
  <2> DEFINE s == AsKey(v, t)
  <2>1. u = AsKey(w, s)
    BY <1>6 DEF AsKeys
  <2>2. v \in Chars /\ w \in Chars /\ <<v>> = Append(<< >>, v) /\ <<v>> \in Seq(Chars)
          /\ line = Append(<<v>>, w) /\ line \in Seq(Chars)
    BY <1>6, WordFacts
  <2> HIDE DEF u
  <2>3. s \in Talks /\ s.orderly = t.orderly /\ s.base = t.base
    BY KeyLeads
  <2>4. PICK more \in Seq(Packets), e \in Places :
          /\ s.meant = t.meant \o more
          /\ Asks(program, e, s.wanted, s.meant)
          /\ Follows(program, d, v, e, s.meant)
    BY KeyLeads
  <2> HIDE DEF s
  <2>5. u \in Talks /\ u.orderly = s.orderly /\ u.base = s.base
    BY <2>1, <2>3, <2>4, KeyLeads
  <2>6. PICK rest \in Seq(Packets), f \in Places :
          /\ u.meant = s.meant \o rest
          /\ Asks(program, f, u.wanted, u.meant)
          /\ Follows(program, e, w, f, u.meant)
    BY <2>1, <2>3, <2>4, KeyLeads
  <2>7. Follows(program, d, v, e, u.meant)
    <3>1. s.meant \in Seq(Packets)
      BY <2>3 DEF Talks
    <3> QED
      BY <2>4, <2>6, <3>1, FollowsFurther
  <2>8. Reaches(program, d, <<v>>, e, u.meant)
    BY <1>2, <2>2, <2>7, NewlineType, ReachesMore
  <2>9. Reaches(program, d, line, f, u.meant)
    BY <2>2, <2>6, <2>8, ReachesMore
  <2>10. Reaches(program, d, Append(line, "newline"), f, u.meant)
    BY <1>3, <2>2, <2>5, <2>6, <2>9, NewlineType, ReachesMore
  <2>11. u.meant = t.meant \o (more \o rest)
    <3>1. u.meant = (t.meant \o more) \o rest
      BY <2>4, <2>6
    <3>2. (t.meant \o more) \o rest = t.meant \o (more \o rest)
      <4> DEFINE p == t.meant
      <4>1. p \in Seq(Packets)
        BY <1>1
      <4> HIDE DEF p
      <4>2. (p \o more) \o rest = p \o (more \o rest)
        BY <4>1, ConcatAssociative
      <4> QED
        BY <4>2 DEF p
    <3> QED
      BY <3>1, <3>2
  <2>12. more \o rest \in Seq(Packets)
    BY <2>4, <2>6, ConcatProperties
  <2> QED
    BY <2>3, <2>5, <2>6, <2>10, <2>11, <2>12 DEF Leads
<1> QED
  BY <1>4, <1>5, <1>6, LineShapes

(* A line that is not empty takes the prompt to the end of that line with   *)
(* its first character in ch.                                               *)
LEMMA LetterIsRead ==
  ASSUME program # "curses", NEW line \in Lines, line # << >>,
         NEW d \in Places, d.at = "command", NEW goal
  PROVE  /\ line[1] \in Words /\ line \in Seq(Chars)
         /\ LET e == [d EXCEPT !.at = "flush", !.ch = line[1]]
            IN  e \in Places /\ Reaches(program, d, line, e, goal)
<1>1. Reaches(program, d, << >>, d, goal)
  BY ReachesNothing
<1>2. ASSUME NEW v \in Words
      PROVE  LET e == [d EXCEPT !.at = "flush", !.ch = v]
             IN  /\ e \in Places /\ Reaches(program, d, <<v>>, e, goal)
                 /\ \A w \in Words : Follows(program, e, w, e, goal)
  <2> DEFINE e == [d EXCEPT !.at = "flush", !.ch = v]
  <2>1. v \in Chars /\ v # "eof" /\ \A w \in Words : w # "newline" /\ w # "eof"
    BY WordFacts
  <2>2. e \in Places /\ e.at = "flush" /\ e.ch = v /\ e.n = d.n
    BY <2>1 DEF Places
  <2> HIDE DEF e
  <2>3. Follows(program, d, v, e, goal)
    BY <2>1, <2>2 DEF Follows
  <2>4. <<v>> = Append(<< >>, v)
    OBVIOUS
  <2>5. Reaches(program, d, <<v>>, e, goal)
    BY <1>1, <2>1, <2>2, <2>3, <2>4, NewlineType, ReachesMore
  <2>6. \A w \in Words : Follows(program, e, w, e, goal)
    BY <2>1, <2>2 DEF Follows
  <2> QED
    BY <2>2, <2>5, <2>6 DEF e
<1>3. ASSUME NEW v \in Words, line = <<v>>
      PROVE  /\ line[1] \in Words /\ line \in Seq(Chars)
             /\ LET e == [d EXCEPT !.at = "flush", !.ch = line[1]]
                IN  e \in Places /\ Reaches(program, d, line, e, goal)
  <2>1. line[1] = v /\ line \in Seq(Chars)
    BY <1>3, WordFacts
  <2> QED
    BY <1>2, <1>3, <2>1
<1>4. ASSUME NEW v \in Words, NEW w \in Words, line = <<v, w>>
      PROVE  /\ line[1] \in Words /\ line \in Seq(Chars)
             /\ LET e == [d EXCEPT !.at = "flush", !.ch = line[1]]
                IN  e \in Places /\ Reaches(program, d, line, e, goal)
  <2> DEFINE e == [d EXCEPT !.at = "flush", !.ch = v]
  <2>1. /\ line[1] = v /\ line \in Seq(Chars) /\ <<v>> \in Seq(Chars) /\ w \in Chars
        /\ line = Append(<<v>>, w)
    BY <1>4, WordFacts
  <2>2. /\ e \in Places /\ Reaches(program, d, <<v>>, e, goal)
        /\ Follows(program, e, w, e, goal)
    BY <1>2
  <2> HIDE DEF e
  <2>3. Reaches(program, d, line, e, goal)
    BY <2>1, <2>2, ReachesMore
  <2> QED
    BY <2>1, <2>2, <2>3 DEF e
<1> QED
  BY <1>3, <1>4, LineShapes

(* A line at the prompt for a command. *)
LEMMA CommandLeads ==
  ASSUME program # "curses", NEW t \in Talks, t.wanted = "command",
         NEW line \in Lines,
         NEW d \in Places, Asks(program, d, t.wanted, t.meant),
         AsCommand(line, t).orderly = TRUE
  PROVE  LET u == AsCommand(line, t)
         IN  u \in Talks /\ t.orderly = TRUE /\ u.base = t.base /\ Leads(t, line, u, d)
<1> DEFINE u == AsCommand(line, t)
           m == Meaning(line[1])
           e == [d EXCEPT !.at = "flush", !.ch = line[1]]
<1>1. line # << >>
  BY DEF AsCommand, Talks
<1>2. d.at = "command" /\ d.n = Len(t.meant)
  BY DEF Asks
<1>3. /\ t.meant \in Seq(Packets) /\ Len(t.meant) \in Nat
      /\ << >> \in Seq(Packets) /\ t.meant \o << >> = t.meant
  BY ConcatEmptySeq DEF Talks
<1>4. /\ line[1] \in Words /\ line \in Seq(Chars) /\ e \in Places
      /\ \A goal : Reaches(program, d, line, e, goal)
  BY <1>1, <1>2, LetterIsRead
<1>5. e.at = "flush" /\ e.ch = line[1] /\ e.n = d.n
  BY DEF Places
<1>6. m \in Meanings /\ m = MeaningTo(program, e.ch)
  BY <1>5, MeaningType
<1> HIDE DEF e
<1>7. ASSUME NEW f \in Places, NEW goal, Acts(program, e, f, goal)
      PROVE  Reaches(program, d, Append(line, "newline"), f, goal)
  <2>1. Follows(program, e, "newline", f, goal)
    BY <1>5, <1>7 DEF Follows
  <2> QED
    BY <1>4, <2>1, NewlineType, ReachesMore
<1>8. CASE m \in Moves
  <2> DEFINE f == [e EXCEPT !.at = "params", !.params = << >>]
  <2>1. u = [t EXCEPT !.wanted = m]
    BY <1>1, <1>8 DEF AsCommand, Moves
  <2>2. u \in Talks /\ u.orderly = t.orderly /\ u.base = t.base /\ u.meant = t.meant
          /\ u.wanted = m
    BY <1>8, <2>1 DEF Talks
  <2>3. f \in Places /\ f.at = "params" /\ f.params = << >> /\ f.ch = e.ch /\ f.n = e.n
    <3>1. << >> \in Seq(Inputs)
      OBVIOUS
    <3> QED
      BY <1>4, <3>1 DEF Places
  <2> HIDE DEF f, m
  <2>4. Acts(program, e, f, u.meant)
    BY <1>6, <1>8, <2>3 DEF Acts
  <2>5. Asks(program, f, u.wanted, u.meant)
    BY <1>2, <1>5, <1>6, <1>8, <2>2, <2>3 DEF Asks, Moves
  <2>6. t.orderly = TRUE
    BY <2>2
  <2> QED
    BY <1>3, <1>7, <2>2, <2>3, <2>4, <2>5, <2>6 DEF Leads
<1>9. CASE m = "QUIT"
  <2> DEFINE f == [e EXCEPT !.at = "ended"]
  <2>1. u = [t EXCEPT !.wanted = "ended"]
    BY <1>1, <1>9 DEF AsCommand
  <2>2. u \in Talks /\ u.orderly = t.orderly /\ u.base = t.base /\ u.meant = t.meant
          /\ u.wanted = "ended"
    BY <2>1 DEF Talks
  <2>3. f \in Places /\ f.at = "ended" /\ f.n = e.n
    BY <1>4 DEF Places
  <2> HIDE DEF f, m
  <2>4. Acts(program, e, f, u.meant)
    BY <1>6, <1>9, <2>3 DEF Acts
  <2>5. Asks(program, f, u.wanted, u.meant)
    BY <1>2, <1>5, <2>2, <2>3 DEF Asks, Moves
  <2>6. t.orderly = TRUE
    BY <2>2
  <2> QED
    BY <1>3, <1>7, <2>2, <2>3, <2>4, <2>5, <2>6 DEF Leads
<1>10. CASE m = "BAD"
  <2> DEFINE f == [e EXCEPT !.at = "command"]
  <2>1. u = t
    BY <1>1, <1>10 DEF AsCommand
  <2>2. f \in Places /\ f.at = "command" /\ f.n = e.n
    BY <1>4 DEF Places
  <2> HIDE DEF f, m
  <2>3. Acts(program, e, f, u.meant)
    BY <1>6, <1>10, <2>2 DEF Acts
  <2>4. Asks(program, f, u.wanted, u.meant)
    BY <1>2, <1>5, <2>1, <2>2 DEF Asks, Moves
  <2>5. t.orderly = TRUE
    BY <2>1
  <2> QED
    BY <1>3, <1>7, <2>1, <2>2, <2>3, <2>4, <2>5 DEF Leads
<1>11. CASE m \notin Moves \cup {"QUIT", "BAD"}
  <2> DEFINE f == [e EXCEPT !.at = "command", !.n = e.n + 1]
             q == Immediate(m)
  <2>1. u = [t EXCEPT !.meant = t.meant \o q]
    BY <1>1, <1>11 DEF AsCommand
  <2>2. q \in Seq(Packets) /\ Len(q) = 1 /\ q[1] = Packet(m, NoParams)
    BY <1>6, <1>11, ImmediateFacts
  <2>3. f \in Places /\ f.at = "command" /\ f.n = e.n + 1
    <3>1. e.n + 1 \in Nat
      BY <1>4 DEF Places
    <3> QED
      BY <1>4, <3>1 DEF Places
  <2> HIDE DEF f, m, q
  <2>4. t.meant \o q \in Seq(Packets) /\ Len(t.meant \o q) = Len(t.meant) + Len(q)
    <3> DEFINE p == t.meant
    <3>1. p \in Seq(Packets) /\ q \in Seq(Packets)
      BY <1>3, <2>2
    <3> HIDE DEF p
    <3>2. p \o q \in Seq(Packets) /\ Len(p \o q) = Len(p) + Len(q)
      BY <3>1, ConcatProperties
    <3> QED
      BY <3>2 DEF p
  <2>5. \A i \in 1 .. Len(t.meant) + Len(q) :
          (t.meant \o q)[i] = IF i <= Len(t.meant) THEN t.meant[i] ELSE q[i - Len(t.meant)]
    <3> DEFINE p == t.meant
    <3>1. p \in Seq(Packets) /\ q \in Seq(Packets)
      BY <1>3, <2>2
    <3> HIDE DEF p
    <3>2. \A i \in 1 .. Len(p) + Len(q) :
             (p \o q)[i] = IF i <= Len(p) THEN p[i] ELSE q[i - Len(p)]
      BY <3>1, ConcatProperties
    <3> QED
      BY <3>2 DEF p
  <2>6. (t.meant \o q)[Len(t.meant) + 1] = q[1]
    <3> DEFINE N == Len(t.meant)
               r == t.meant \o q
    <3>1. N \in Nat /\ Len(q) = 1
      BY <1>3, <2>2
    <3>2. \A i \in 1 .. N + Len(q) : r[i] = IF i <= N THEN t.meant[i] ELSE q[i - N]
      BY <2>5
    <3> HIDE DEF N, r
    <3>3. r[N + 1] = q[(N + 1) - N] /\ (N + 1) - N = 1
      BY <3>1, <3>2
    <3> QED
      BY <3>3 DEF N, r
  <2>7. /\ u \in Talks /\ u.orderly = t.orderly /\ u.base = t.base
        /\ u.meant = t.meant \o q /\ u.wanted = "command"
    BY <2>1, <2>4 DEF Talks
  <2>8. Sends(e, f, Packet(m, NoParams), u.meant)
    BY <1>2, <1>3, <1>5, <2>2, <2>3, <2>4, <2>6, <2>7 DEF Sends
  <2>9. Acts(program, e, f, u.meant)
    BY <1>6, <1>11, <2>8 DEF Acts
  <2>10. Asks(program, f, u.wanted, u.meant)
    BY <1>2, <1>3, <1>5, <2>2, <2>3, <2>4, <2>7 DEF Asks, Moves
  <2>11. t.orderly = TRUE
    BY <2>7
  <2> QED
    BY <1>7, <2>2, <2>3, <2>7, <2>9, <2>10, <2>11 DEF Leads
<1> QED
  BY <1>8, <1>9, <1>10, <1>11

(* A line at the prompt for a move's two numbers. *)
LEMMA ParamsLead ==
  ASSUME NEW t \in Talks, t.wanted \in Moves, NEW line \in Lines,
         NEW d \in Places, Asks(program, d, t.wanted, t.meant),
         AsParams(line, t).orderly = TRUE
  PROVE  LET u == AsParams(line, t)
         IN  u \in Talks /\ t.orderly = TRUE /\ u.base = t.base /\ Leads(t, line, u, d)
<1> DEFINE u == AsParams(line, t)
<1>1. /\ d.at = "params" /\ d.params = << >> /\ d.n = Len(t.meant)
      /\ MeaningTo(program, d.ch) = t.wanted
  BY DEF Asks
<1>2. /\ t.meant \in Seq(Packets) /\ Len(t.meant) \in Nat
      /\ << >> \in Seq(Packets) /\ t.meant \o << >> = t.meant
  BY ConcatEmptySeq DEF Talks
<1>3. \A goal : Reaches(program, d, << >>, d, goal)
  BY ReachesNothing
<1>4. CASE line = << >>
  <2>1. u = t
    BY <1>4 DEF AsParams
  <2>2. Follows(program, d, "newline", d, t.meant)
    BY <1>1 DEF Follows
  <2>3. Reaches(program, d, Append(line, "newline"), d, t.meant)
    BY <1>3, <1>4, <2>2, NewlineType, ReachesMore
  <2> QED
    BY <1>2, <2>1, <2>3 DEF Leads
<1>5. CASE line # << >>
  <2>1. Len(line) = 2 /\ {line[1], line[2]} \subseteq Numbers
    BY <1>5 DEF AsParams, Talks
  <2>2. PICK v \in Words, w \in Words : line = <<v, w>>
    <3>1. \A x \in Words : Len(<<x>>) = 1
      OBVIOUS
    <3> QED
      BY <1>5, <2>1, <3>1, LineShapes
  <2>3. v \in Numbers /\ w \in Numbers
    BY <2>1, <2>2
  <2>4. v \in Inputs /\ w \in Inputs /\ line \in Seq(Inputs)
    BY <2>2, <2>3 DEF Inputs
  <2>5. /\ v \in Chars /\ w \in Chars /\ v \notin {"newline", "eof"}
             /\ w \notin {"newline", "eof"}
        /\ <<v>> = Append(<< >>, v) /\ <<v>> \in Seq(Chars)
        /\ line = Append(<<v>>, w) /\ line \in Seq(Chars)
    BY <2>2, WordFacts
  <2> DEFINE packet == Packet(t.wanted, line)
             a == [d EXCEPT !.params = <<v>>]
             b == [d EXCEPT !.at = "flushParams", !.params = line]
             f == [d EXCEPT !.at = "command", !.n = d.n + 1]
  <2>6. u = [t EXCEPT !.meant = Append(t.meant, packet), !.wanted = "command"]
    BY <1>5, <2>1 DEF AsParams
  <2>7. packet \in Packets
    BY <2>4, PacketType DEF Meanings
  <2>8. a \in Places /\ a.at = "params" /\ a.params = <<v>> /\ a.ch = d.ch /\ a.n = d.n
    <3>1. <<v>> \in Seq(Inputs)
      BY <2>4
    <3> QED
      BY <1>1, <3>1 DEF Places
  <2>9. b \in Places /\ b.at = "flushParams" /\ b.params = line /\ b.ch = d.ch /\ b.n = d.n
    BY <2>4 DEF Places
  <2>10. f \in Places /\ f.at = "command" /\ f.n = d.n + 1
    <3>1. d.n + 1 \in Nat
      BY DEF Places
    <3> QED
      BY <3>1 DEF Places
  <2> HIDE DEF packet, a, b, f
  <2>11. /\ u \in Talks /\ u.orderly = t.orderly /\ u.base = t.base
         /\ u.meant = Append(t.meant, packet) /\ u.wanted = "command"
    <3>1. Append(t.meant, packet) \in Seq(Packets)
      BY <1>2, <2>7
    <3> QED
      BY <2>6, <3>1 DEF Talks
  <2>12. /\ u.meant = t.meant \o <<packet>> /\ <<packet>> \in Seq(Packets)
         /\ Len(u.meant) = Len(t.meant) + 1 /\ u.meant[Len(t.meant) + 1] = packet
    BY <1>2, <2>7, <2>11
  <2>13. Follows(program, d, v, a, u.meant)
    <3>1. Len(d.params) = 0 /\ Append(d.params, v) = <<v>>
      BY <1>1
    <3> QED
      BY <1>1, <2>3, <2>5, <2>8, <3>1 DEF Follows
  <2>14. Follows(program, a, w, b, u.meant)
    <3>1. Len(a.params) = 1 /\ Append(a.params, w) = line
      BY <2>5, <2>8
    <3> QED
      BY <2>3, <2>5, <2>8, <2>9, <3>1 DEF Follows
  <2>15. Follows(program, b, "newline", f, u.meant)
    <3>1. MovePacket(program, b) = packet
      BY <1>1, <2>1, <2>4, <2>9, MoveParams DEF MovePacket, packet
    <3>2. Sends(b, f, packet, u.meant)
      BY <1>1, <1>2, <2>9, <2>10, <2>12 DEF Sends
    <3> QED
      BY <2>9, <3>1, <3>2 DEF Follows
  <2>16. Reaches(program, d, Append(line, "newline"), f, u.meant)
    <3>1. Reaches(program, d, <<v>>, a, u.meant)
      BY <1>3, <2>5, <2>8, <2>13, NewlineType, ReachesMore
    <3>2. Reaches(program, d, line, b, u.meant)
      BY <2>5, <2>8, <2>9, <2>14, <3>1, ReachesMore
    <3> QED
      BY <2>5, <2>9, <2>10, <2>15, <3>2, NewlineType, ReachesMore
  <2>17. Asks(program, f, u.wanted, u.meant)
    BY <1>1, <2>10, <2>11, <2>12 DEF Asks, Moves
  <2>18. t.orderly = TRUE
    BY <2>11
  <2> QED
    BY <2>10, <2>11, <2>12, <2>16, <2>17, <2>18 DEF Leads
<1> QED
  BY <1>4, <1>5

LEMMA LineLeads ==
  ASSUME program \in Programs, NEW t \in Talks, NEW line \in Lines,
         NEW d \in Places, Asks(program, d, t.wanted, t.meant),
         Understood(line, t).orderly = TRUE
  PROVE  LET u == Understood(line, t)
         IN  u \in Talks /\ t.orderly = TRUE /\ u.base = t.base /\ Leads(t, line, u, d)
<1> DEFINE u == Understood(line, t)
<1>1. t.meant \in Seq(Packets) /\ t.wanted \in Moves \cup {"command", "ended"}
  BY DEF Talks
<1>2. CASE t.wanted = "ended"
  <2>1. u = t
    BY <1>2 DEF Understood
  <2>2. d.at = "ended"
    BY <1>2 DEF Asks
  <2>3. Reaches(program, d, Append(line, "newline"), d, t.meant)
    BY <2>2, EndedLeads
  <2>4. t.meant = t.meant \o << >> /\ << >> \in Seq(Packets)
    BY <1>1, ConcatEmptySeq
  <2> QED
    BY <2>1, <2>3, <2>4 DEF Leads
<1>3. CASE t.wanted # "ended" /\ program = "curses"
  <2>1. u = AsKeys(line, t)
    BY <1>3 DEF Understood
  <2>2. u \in Talks /\ u.orderly = t.orderly /\ u.base = t.base /\ Leads(t, line, u, d)
    BY <1>3, <2>1, KeysLead
  <2>3. t.orderly = TRUE
    BY <2>2
  <2> QED
    BY <2>2, <2>3
<1>4. CASE t.wanted = "command" /\ program # "curses"
  <2>1. u = AsCommand(line, t)
    BY <1>4 DEF Understood
  <2> QED
    BY <1>4, <2>1, CommandLeads
<1>5. CASE t.wanted \in Moves /\ program # "curses"
  <2>1. u = AsParams(line, t)
    BY <1>5 DEF Understood, Moves
  <2> QED
    BY <1>5, <2>1, ParamsLead
<1> QED
  BY <1>1, <1>2, <1>3, <1>4, <1>5

(* The talk a line belongs to has been followed so far. *)
LEMMA TalkIsFollowed ==
  ASSUME ConsoleInv
  PROVE  /\ Talk \in Talks
         /\ Talk.base \in Nat
         /\ IF pc = "start" THEN Talk.base = 1 ELSE Talk.base <= Len(sent)
         /\ Talk.meant \in Seq(Packets)
         /\ Talk.orderly = TRUE =>
              /\ \A j \in 1 .. Len(sent) - Talk.base :
                   j <= Len(Talk.meant)
                     /\ sent[Talk.base + j] = Talk.meant[j]
              /\ \E c, d \in Places :
                   /\ Present(program, [Now EXCEPT !.n = Len(sent) - Talk.base], c,
                               Talk.meant)
                   /\ Takes(program, c, stdin, d, Talk.meant)
                   /\ Asks(program, d, Talk.wanted, Talk.meant)
<1> USE DEF ConsoleInv
<1>1. Len(sent) \in Nat /\ base \in Nat /\ Len(sent) - Len(sent) = 0
  BY DEF ConsoleTypes
<1>2. CASE Waiting
  <2> DEFINE c == [at |-> "command", ch |-> ch, params |-> params, n |-> 0]
             now == [Now EXCEPT !.n = 0]
  <2>1. /\ Talk.orderly = TRUE /\ Talk.wanted = "command"
             /\ Talk.meant = << >>
        /\ Talk.base = Len(sent) /\ Talk \in Talks
    BY <1>1, <1>2 DEF Talk, Talks
  <2>2. c \in Places /\ c.at = "command" /\ c.n = 0
    BY DEF ConsoleTypes, Places
  <2>3. now.at = "command" /\ now.n = 0
    BY <1>2 DEF Waiting, Now
  <2> HIDE DEF c, now
  <2>4. Present(program, now, c, << >>)
    BY <2>2, <2>3 DEF Present
  <2>5. Takes(program, c, stdin, c, << >>)
    BY <1>2, <2>2, TakesNothing DEF Waiting
  <2>6. Asks(program, c, "command", << >>)
    BY <2>2 DEF Asks, Moves
  <2>7. \A j \in 1 .. Len(sent) - Talk.base :
           j <= Len(Talk.meant) /\ sent[Talk.base + j] = Talk.meant[j]
    BY <1>1, <2>1
  <2>8. pc # "start"
    BY <1>2 DEF Waiting
  <2>9. now = [Now EXCEPT !.n = Len(sent) - Talk.base]
    BY <1>1, <2>1 DEF now
  <2>10. << >> \in Seq(Packets)
    OBVIOUS
  <2> QED
    BY <1>1, <2>1, <2>2, <2>4, <2>5, <2>6, <2>7, <2>8, <2>9, <2>10
<1>3. CASE ~Waiting
  <2>1. /\ Talk.orderly = orderly /\ Talk.wanted = wanted
             /\ Talk.meant = meant /\ Talk.base = base
        /\ Talk = [orderly |-> orderly, wanted |-> wanted, meant |-> meant, base |-> base]
    BY <1>3 DEF Talk
  <2>2. Talk \in Talks
    BY <2>1 DEF ConsoleTypes, Talks
  <2>3. [Now EXCEPT !.n = Len(sent) - Talk.base] = Now
    BY <2>1 DEF Now
  <2> QED
    BY <1>1, <2>1, <2>2, <2>3 DEF ConsoleTypes, SentIsMeant, Foreseen
<1> QED
  BY <1>2, <1>3

(* Where the program is stays right when more is meant. *)
LEMMA PresentFurther ==
  ASSUME NEW p, NEW now, NEW c \in Places,
         NEW goal \in Seq(Packets), NEW more \in Seq(Packets),
         now.at # "start" => now.n \in Nat,
         Present(p, now, c, goal)
  PROVE  Present(p, now, c, goal \o more)
<1>1. Len(goal) <= Len(goal \o more) /\ Len(goal) \in Nat /\ Len(goal \o more) \in Nat
  BY ConcatProperties
<1>2. \A j \in 1 .. Len(goal) : j <= Len(goal \o more) /\ (goal \o more)[j] = goal[j]
  OBVIOUS
<1>3. c.n \in Nat
  BY DEF Places
<1>4. ASSUME NEW packet, now.n \in Nat, Sends(now, c, packet, goal)
      PROVE  Sends(now, c, packet, goal \o more)
  <2>1. c.n \in 1 .. Len(goal)
    BY <1>1, <1>3, <1>4 DEF Sends
  <2> QED
    BY <1>2, <1>4, <2>1 DEF Sends
<1>5. now.at = "act" => Acts(p, now, c, goal \o more)
  BY <1>4 DEF Present, Acts
<1>6. now.at = "send" => Sends(now, c, MovePacket(p, now), goal \o more)
  BY <1>4 DEF Present
<1>7. c.n <= Len(goal \o more)
  BY <1>1, <1>3 DEF Present
<1> QED
  BY <1>5, <1>6, <1>7 DEF Present

LEMMA LineType ==
  ASSUME NEW line \in Lines
  PROVE  line \in Seq(Chars) /\ line \in Seq(Inputs)
<1>1. line \in Seq(Words)
  <2>1. CASE line = << >>
    BY <2>1
  <2>2. ASSUME NEW w \in Words, line = <<w>> PROVE line \in Seq(Words)
    BY <2>2
  <2>3. ASSUME NEW v \in Words, NEW w \in Words, line = <<v, w>>
        PROVE  line \in Seq(Words)
    BY <2>3
  <2> QED
    BY <2>1, <2>2, <2>3, LineShapes
<1>2. Words \subseteq Chars /\ Words \subseteq Inputs
  BY DEF Chars, Inputs
<1> QED
  BY <1>1, <1>2, SeqMonotonic

LEMMA KeyType ==
  ASSUME NEW t \in Talks, NEW x
  PROVE  /\ AsKey(x, t) \in Talks /\ AsKey(x, t).base = t.base
         /\ AsKey(x, t).orderly = t.orderly
<1>1. t.meant \in Seq(Packets) /\ Immediate(Meaning(x)) \in Seq(Packets)
  BY MeaningType, ImmediateFacts DEF Talks
<1>2. t.meant \o Immediate(Meaning(x)) \in Seq(Packets)
  BY <1>1, ConcatProperties
<1> QED
  BY <1>2 DEF AsKey, Talks

LEMMA UnderstoodType ==
  ASSUME NEW t \in Talks, NEW line \in Lines
  PROVE  /\ Understood(line, t) \in Talks /\ Understood(line, t).base = t.base
         /\ Understood(line, t).orderly = TRUE => t.orderly = TRUE
<1>1. AsKeys(line, t) \in Talks /\ AsKeys(line, t).base = t.base
      /\ (AsKeys(line, t).orderly = TRUE => t.orderly = TRUE)
  BY KeyType DEF AsKeys
<1>2. AsCommand(line, t) \in Talks /\ AsCommand(line, t).base = t.base
      /\ (AsCommand(line, t).orderly = TRUE => t.orderly = TRUE)
  <2>1. t.meant \in Seq(Packets)
          /\ Immediate(Meaning(line[1])) \in Seq(Packets)
    BY MeaningType, ImmediateFacts DEF Talks
  <2>2. t.meant \o Immediate(Meaning(line[1])) \in Seq(Packets)
    BY <2>1, ConcatProperties
  <2> QED
    BY <2>2 DEF AsCommand, Talks
<1>3. CASE t.wanted \in Moves
  <2>1. AsParams(line, t) \in Talks /\ AsParams(line, t).base = t.base
      /\ (AsParams(line, t).orderly = TRUE => t.orderly = TRUE)
    <3>1. CASE line # << >> /\ Len(line) = 2 /\ {line[1], line[2]} \subseteq Numbers
      <4>1. line \in Seq(Inputs)
        BY LineType
      <4>2. Packet(t.wanted, line) \in Packets
        BY <1>3, <4>1, PacketType DEF Meanings
      <4>3. Append(t.meant, Packet(t.wanted, line)) \in Seq(Packets)
        BY <4>2 DEF Talks
      <4> QED
        BY <3>1, <4>3 DEF AsParams, Talks
    <3>2. CASE ~(line # << >> /\ Len(line) = 2 /\ {line[1], line[2]} \subseteq Numbers)
      BY <3>2 DEF AsParams, Talks
    <3> QED
      BY <3>1, <3>2
  <2> QED
    BY <1>1, <1>2, <2>1 DEF Understood
<1>4. CASE t.wanted \notin Moves
  BY <1>1, <1>2, <1>4 DEF Understood, Talks
<1> QED
  BY <1>3, <1>4

LEMMA TypeLineKeeps ==
  ASSUME ConsoleInv, NEW line \in Lines, TypeLine(line)
  PROVE  ConsoleInv'
<1> DEFINE t == Talk
           u == Understood(line, t)
           now == [Now EXCEPT !.n = Len(sent) - t.base]
<1>1. /\ stdin' = stdin \o line \o <<"newline">>
      /\ orderly' = u.orderly /\ wanted' = u.wanted /\ meant' = u.meant /\ base' = u.base
      /\ program' = program /\ pc' = pc /\ ch' = ch /\ params' = params /\ sent' = sent
  BY DEF TypeLine, reading
<1>2. /\ t \in Talks /\ t.base \in Nat /\ t.meant \in Seq(Packets)
      /\ IF pc = "start" THEN t.base = 1 ELSE t.base <= Len(sent)
  BY TalkIsFollowed
<1>3. t.orderly = TRUE =>
        /\ \A j \in 1 .. Len(sent) - t.base : j <= Len(t.meant)
             /\ sent[t.base + j] = t.meant[j]
        /\ \E c, d \in Places :
             /\ Present(program, now, c, t.meant)
             /\ Takes(program, c, stdin, d, t.meant)
             /\ Asks(program, d, t.wanted, t.meant)
  BY TalkIsFollowed
<1> HIDE DEF t, now
<1>4. u \in Talks /\ u.base = t.base
  BY <1>2, UnderstoodType
<1>5. program \in Programs /\ stdin \in Seq(Chars)
  BY DEF ConsoleInv, ConsoleTypes
<1>6. /\ line \in Seq(Chars) /\ Append(line, "newline") \in Seq(Chars)
      /\ stdin' = stdin \o Append(line, "newline") /\ stdin' \in Seq(Chars)
  <2>1. line \in Seq(Chars)
    BY LineType
  <2>2. <<"newline">> \in Seq(Chars) /\ Append(line, "newline") = line \o <<"newline">>
    BY <2>1, NewlineType
  <2>3. (stdin \o line) \o <<"newline">> = stdin \o (line \o <<"newline">>)
    BY <1>5, <2>1, <2>2, ConcatAssociative
  <2>4. line \o <<"newline">> \in Seq(Chars)
    BY <2>1, <2>2, ConcatProperties
  <2>5. stdin \o (line \o <<"newline">>) \in Seq(Chars)
    BY <1>5, <2>4, ConcatProperties
  <2> QED
    BY <1>1, <2>1, <2>2, <2>3, <2>4, <2>5
<1>7. ConsoleTypes'
  BY <1>1, <1>2, <1>4, <1>6 DEF ConsoleInv, ConsoleTypes, Talks
<1>8. ASSUME orderly' PROVE SentIsMeant' /\ Foreseen'
  <2>1. u.orderly = TRUE
    BY <1>1, <1>4, <1>8 DEF Talks
  <2>2. t.orderly = TRUE
    BY <1>2, <2>1, UnderstoodType
  <2>3. PICK c \in Places, d \in Places :
          /\ Present(program, now, c, t.meant)
          /\ Takes(program, c, stdin, d, t.meant)
          /\ Asks(program, d, t.wanted, t.meant)
    BY <1>3, <2>2
  <2>4. Leads(t, line, u, d)
    BY <1>2, <1>5, <2>1, <2>3, LineLeads
  <2>5. PICK more \in Seq(Packets), e \in Places :
          /\ u.meant = t.meant \o more
          /\ Asks(program, e, u.wanted, u.meant)
          /\ Reaches(program, d, Append(line, "newline"), e, u.meant)
    BY <2>4 DEF Leads
  <2> DEFINE goal == t.meant
             longer == u.meant
  <2>6. goal \in Seq(Packets) /\ longer = goal \o more
    BY <1>2, <2>5
  <2>7. /\ now.at = pc /\ now.ch = ch /\ now.params = params /\ now.n = Len(sent) - t.base
        /\ now = Now'
    BY <1>1, <1>4 DEF now, Now
  <2>8. now.at # "start" => now.n \in Nat
    BY <1>2, <2>7 DEF ConsoleInv, ConsoleTypes
  <2> HIDE DEF goal, longer, u
  <2>9. Present(program, now, c, longer)
    BY <2>3, <2>6, <2>8, PresentFurther DEF goal
  <2>10. Takes(program, c, stdin, d, longer)
    BY <1>5, <2>3, <2>6, TakesFurther DEF goal
  <2>11. Takes(program, c, stdin', e, longer)
    BY <1>5, <1>6, <2>5, <2>10 DEF Reaches, longer
  <2>12. Foreseen'
    BY <1>1, <2>5, <2>7, <2>9, <2>11 DEF Foreseen, longer
  <2>13. SentIsMeant'
    <3>1. ASSUME NEW j \in 1 .. Len(sent) - t.base
          PROVE  j <= Len(longer) /\ sent[t.base + j] = longer[j]
      <4>1. j \in Nat /\ j >= 1
        BY <1>2 DEF ConsoleInv, ConsoleTypes
      <4>2. j <= Len(goal) /\ sent[t.base + j] = goal[j]
        BY <1>3, <2>2 DEF goal
      <4>3. Len(goal) \in Nat /\ Len(more) \in Nat /\ Len(longer) = Len(goal) + Len(more)
        BY <2>6, ConcatProperties
      <4>4. longer[j] = goal[j]
        <5>1. \A i \in 1 .. Len(goal) + Len(more) :
                (goal \o more)[i] = IF i <= Len(goal) THEN goal[i] ELSE more[i - Len(goal)]
          BY <2>6, ConcatProperties
        <5> QED
          BY <2>6, <4>1, <4>2, <4>3, <5>1
      <4> QED
        BY <4>1, <4>2, <4>3, <4>4
    <3> QED
      BY <1>1, <1>4, <3>1 DEF SentIsMeant, longer
  <2> QED
    BY <2>12, <2>13
<1> QED
  BY <1>7, <1>8 DEF ConsoleInv, SentIsMeant

LEMMA TypeEofKeeps ==
  ASSUME ConsoleInv, TypeEof
  PROVE  ConsoleInv'
<1>1. Append(stdin, "eof") \in Seq(Chars)
  BY DEF ConsoleInv, ConsoleTypes, Chars
<1>2. ConsoleTypes'
  BY <1>1 DEF ConsoleInv, ConsoleTypes, TypeEof, reading
<1> QED
  BY <1>2 DEF ConsoleInv, TypeEof, SentIsMeant

-----------------------------------------------------------------------------

LEMMA InitConsole == ConsoleInit => ConsoleInv
<1> SUFFICES ASSUME ConsoleInit PROVE ConsoleInv
  OBVIOUS
<1> DEFINE c == [at |-> "command", ch |-> ch, params |-> params, n |-> 0]
<1>1. /\ stdin = << >> /\ sent = << >> /\ meant = << >> /\ params = << >>
      /\ Len(sent) = 0 /\ Len(params) = 0 /\ Len(meant) = 0
      /\ << >> \in Seq(Chars) /\ << >> \in Seq(Inputs) /\ << >> \in Seq(Packets)
      /\ orderly = TRUE /\ wanted = "command" /\ ch = "unset"
      /\ pc \in {"start", "command"} /\ base = (IF pc = "start" THEN 1 ELSE 0)
      /\ program \in Programs
  BY DEF ConsoleInit
<1>2. ConsoleTypes
  BY <1>1 DEF ConsoleTypes
<1>3. SentIsMeant
  BY <1>1 DEF SentIsMeant
<1>4. c \in Places /\ c.at = "command" /\ c.n = 0
  BY <1>1 DEF Places
<1> HIDE DEF c
<1>5. Takes(program, c, stdin, c, meant)
  BY <1>1, <1>4, TakesNothing
<1>6. Asks(program, c, wanted, meant)
  BY <1>1, <1>4 DEF Asks, Moves
<1>7. Present(program, Now, c, meant)
  BY <1>1, <1>4 DEF Present, Now
<1> QED
  BY <1>2, <1>3, <1>4, <1>5, <1>6, <1>7 DEF ConsoleInv, Foreseen

LEMMA NextConsole == ConsoleInv /\ [ConsoleNext]_consoleVars => ConsoleInv'
<1> SUFFICES ASSUME ConsoleInv, [ConsoleNext]_consoleVars PROVE ConsoleInv'
  OBVIOUS
<1>1. CASE UNCHANGED consoleVars
  BY <1>1 DEF ConsoleInv, ConsoleTypes, SentIsMeant, Foreseen, Now, consoleVars,
     reading, history
<1>2. CASE Operator
  BY <1>2, TypeLineKeeps, TypeEofKeeps DEF Operator
<1>3. CASE Program
  BY <1>3, SendHelloKeeps, ReadCommandKeeps, FlushKeeps, ActKeeps, getParamsKeeps,
     SendMoveKeeps, KeyKeeps DEF Program
<1> QED
  BY <1>1, <1>2, <1>3 DEF ConsoleNext

(* So far as everything typed has been sent: what has been sent is what was *)
(* meant, and all of it once the program waits.                             *)
LEMMA SentSince ==
  ASSUME ConsoleInv
  PROVE  UnderstandsOrderly
<1> SUFFICES ASSUME orderly, pc # "start"
             PROVE  LET since == SubSeq(sent, base + 1, Len(sent))
                    IN  IsPrefix(since, meant) /\ (Waiting => since = meant)
  BY DEF UnderstandsOrderly
<1> DEFINE since == SubSeq(sent, base + 1, Len(sent))
           N == Len(sent) - base
<1>1. /\ Len(sent) \in Nat /\ base \in Nat /\ N \in Nat /\ meant \in Seq(Packets)
      /\ Len(meant) \in Nat /\ sent \in Seq(Packets)
  BY DEF ConsoleInv, ConsoleTypes
<1>2. \A j \in 1 .. N : j <= Len(meant) /\ sent[base + j] = meant[j]
  BY DEF ConsoleInv, SentIsMeant
<1>3. since \in Seq(Packets) /\ Len(since) = N /\ \A j \in 1 .. N : since[j] = meant[j]
  <2>1. \A i \in base + 1 .. Len(sent) : sent[i] \in Packets
    BY <1>1
  <2>2. since \in Seq(Packets)
    BY <1>1, <2>1, SubSeqProperties
  <2>3. Len(since) = IF base + 1 <= Len(sent) THEN Len(sent) - (base + 1) + 1 ELSE 0
    BY <1>1, <2>1, SubSeqProperties
  <2>4. \A i \in 1 .. Len(sent) - (base + 1) + 1 : since[i] = sent[(base + 1) + i - 1]
    BY <1>1, <2>1, SubSeqProperties
  <2>5. \A j \in 1 .. N : since[j] = sent[base + j]
    BY <1>1, <2>4
  <2>6. Len(since) = N
    <3>1. base + 1 <= Len(sent) <=> N >= 1
      BY <1>1
    <3>2. N >= 1 => Len(sent) - (base + 1) + 1 = N
      BY <1>1
    <3> HIDE DEF since, N
    <3>3. CASE N >= 1
      BY <2>3, <3>1, <3>2, <3>3
    <3>4. CASE ~(N >= 1)
      <4>1. N = 0
        BY <1>1, <3>4
      <4> QED
        BY <2>3, <3>1, <3>4, <4>1
    <3> QED
      BY <3>3, <3>4
  <2> HIDE DEF since, N
  <2> QED
    BY <1>2, <2>2, <2>5, <2>6
<1>4. N <= Len(meant)
  <2> HIDE DEF N
  <2>1. CASE N = 0
    BY <1>1, <2>1
  <2>2. CASE N # 0
    <3>1. N \in 1 .. N
      BY <1>1, <2>2
    <3> QED
      BY <1>2, <3>1
  <2> QED
    BY <2>1, <2>2
<1>5. Waiting => Len(meant) = N
  <2> SUFFICES ASSUME Waiting PROVE Len(meant) = N
    OBVIOUS
  <2>1. PICK c, d \in Places :
          /\ Present(program, Now, c, meant)
          /\ Takes(program, c, stdin, d, meant)
          /\ Asks(program, d, wanted, meant)
    BY DEF ConsoleInv, Foreseen
  <2>2. c = d
    BY <2>1, TakesIsOver DEF Waiting
  <2>3. c.n = N
    BY <2>1 DEF Waiting, Present, Now
  <2> QED
    BY <2>1, <2>2, <2>3 DEF Asks
<1> HIDE DEF since, N
<1>6. IsPrefix(since, meant)
  <2>1. SubSeq(since, 1, Len(since)) = since
    BY <1>3, SubSeqFull
  <2>2. /\ SubSeq(meant, 1, N) \in Seq(Packets) /\ Len(SubSeq(meant, 1, N)) = N
        /\ \A i \in 1 .. N : SubSeq(meant, 1, N)[i] = meant[i]
    <3>1. \A i \in 1 .. N : meant[i] \in Packets
      BY <1>1, <1>4
    <3>2. SubSeq(meant, 1, N) \in Seq(Packets)
      BY <1>1, <3>1, SubSeqProperties
    <3>3. Len(SubSeq(meant, 1, N)) = IF 1 <= N THEN N - 1 + 1 ELSE 0
      BY <1>1, <3>1, SubSeqProperties
    <3>4. \A i \in 1 .. N - 1 + 1 : SubSeq(meant, 1, N)[i] = meant[1 + i - 1]
      BY <1>1, <3>1, SubSeqProperties
    <3> QED
      BY <1>1, <3>2, <3>3, <3>4
  <2>3. since = SubSeq(meant, 1, N)
    BY <1>3, <2>2, SeqEqual
  <2> QED
    BY <1>3, <1>4, <2>1, <2>3 DEF IsPrefix
<1>7. Waiting => since = meant
  <2>1. ASSUME Waiting PROVE since = meant
    <3>1. Len(since) = Len(meant) /\ \A i \in 1 .. Len(since) : since[i] = meant[i]
      BY <1>3, <1>5, <2>1
    <3> QED
      BY <1>1, <1>3, <3>1, SeqEqual
  <2> QED
    BY <2>1
<1> QED
  BY <1>6, <1>7 DEF since

(* For any number of lines typed ahead of any of the three programs, words  *)
(* and numbers of any kind: what an operator's orderly lines mean is what   *)
(* the program sends, no more and nothing else, whatever was typed before.  *)
THEOREM OrderlyIsUnderstood == ConsoleSpec => []UnderstandsOrderly
<1>1. ConsoleInit => ConsoleInv
  BY InitConsole
<1>2. ConsoleInv /\ [ConsoleNext]_consoleVars => ConsoleInv'
  BY NextConsole
<1>3. ConsoleInv => UnderstandsOrderly
  BY SentSince
<1> QED
  BY <1>1, <1>2, <1>3, PTL DEF ConsoleSpec
===============================================================================
