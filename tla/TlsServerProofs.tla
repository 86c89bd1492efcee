---------------------------- MODULE TlsServerProofs ----------------------------
(***************************************************************************)
(* Proofs about the TLS server, for any set of connections, any number of  *)
(* commands and any values of the two bounds.                              *)
(***************************************************************************)
EXTENDS TlsServer, TLAPS

USE DEF clients, workers, uarts

(* The inductive invariant: a connection that a worker has let go of is not *)
(* named by tls_conn again.                                                 *)
LetGo == tls_conn # NoConn => worker[tls_conn] \notin {"free", "done"}

FlagsOK == gotData \in [Conns -> BOOLEAN] /\ networkActive \in BOOLEAN /\ wrote \in BOOLEAN

DataOK ==
  /\ client \in [Conns -> {"away", "connecting", "handshake", "refused", "up", "gone"}]
  /\ inbox \in [Conns -> 0 .. MaxUnread]
  /\ listener \in Conns \cup {NoConn}
  /\ worker \in [Conns -> {"none", "loop", "read", "got", "handle", "forward",
                           "exit", "free", "done"}]
  /\ tls_conn \in Conns \cup {NoConn}
  /\ asked \in 0 .. MaxAsked
  /\ uart \in {"read", "test", "write", "assign"}
  /\ target \in Conns \cup {NoConn}

ServerInv == FlagsOK /\ DataOK /\ LetGo

LEMMA InitInv == Init => ServerInv
<1> SUFFICES ASSUME Init PROVE ServerInv
  OBVIOUS
<1>1. FlagsOK
  BY DEF Init, FlagsOK, InitiallyActive
<1>2. DataOK /\ LetGo
  BY TlsServerAssumption DEF Init, DataOK, LetGo
<1> QED
  BY <1>1, <1>2 DEF ServerInv

(* The clients.                                                             *)
LEMMA ClientsInv ==
  ASSUME ServerInv, NEW c \in Conns, Connect(c) \/ Send(c) \/ Close(c)
  PROVE  ServerInv'
<1>1. FlagsOK'
  BY DEF ServerInv, FlagsOK, Connect, Send, Close
<1>2. DataOK'
  <2>1. CASE Connect(c)
    BY <2>1 DEF ServerInv, DataOK, Connect
  <2>2. CASE Send(c)
    BY <2>2, TlsServerAssumption DEF ServerInv, DataOK, Send
  <2>3. CASE Close(c)
    BY <2>3 DEF ServerInv, DataOK, Close
  <2> QED
    BY <2>1, <2>2, <2>3
<1>3. LetGo'
  BY DEF ServerInv, LetGo, Connect, Send, Close
<1> QED
  BY <1>1, <1>2, <1>3 DEF ServerInv

(* _tls_listener().                                                         *)
LEMMA ListenerInv ==
  ASSUME ServerInv, NEW c \in Conns, listen(c)
  PROVE  ServerInv'
<1>1. FlagsOK'
  BY DEF ServerInv, FlagsOK, listen, Accept, Spawn, Refuse
<1>2. DataOK'
  BY DEF ServerInv, DataOK, listen, Accept, Spawn, Refuse
<1>3. LetGo'
  BY DEF ServerInv, DataOK, LetGo, listen, Accept, Spawn, Refuse
<1> QED
  BY <1>1, <1>2, <1>3 DEF ServerInv

(* worker().                                                                *)
LEMMA WorkerInv ==
  ASSUME ServerInv, NEW c \in Conns, work(c)
  PROVE  ServerInv'
<1>1. FlagsOK'
  <2>1. CASE Read(c)
    BY <2>1 DEF ServerInv, FlagsOK, Read
  <2>2. CASE Got(c)
    BY <2>2 DEF ServerInv, FlagsOK, Got
  <2>3. CASE Loop(c) \/ Handle(c) \/ Forward(c) \/ Exit(c) \/ Free(c)
    BY <2>3 DEF ServerInv, FlagsOK, Loop, Handle, Forward, Exit, Free
  <2> QED
    BY <2>1, <2>2, <2>3 DEF work
<1>2. DataOK'
  <2>1. worker' \in [Conns -> {"none", "loop", "read", "got", "handle", "forward",
                               "exit", "free", "done"}]
    <3>1. \E pc \in {"loop", "read", "got", "handle", "forward", "exit", "free", "done"} :
            Goto(c, pc)
      BY DEF work, Loop, Read, Got, Handle, Forward, Exit, Free
    <3> QED
      BY <3>1 DEF ServerInv, DataOK, Goto
  <2>2. inbox' \in [Conns -> 0 .. MaxUnread]
    BY TlsServerAssumption
       DEF ServerInv, DataOK, work, Loop, Read, Got, Handle, Forward, Exit, Free
  <2>3. asked' \in 0 .. MaxAsked /\ tls_conn' \in Conns \cup {NoConn}
    BY TlsServerAssumption
       DEF ServerInv, DataOK, work, Loop, Read, Got, Handle, Forward, Exit, Free
  <2>4. UNCHANGED <<client, listener, uart, target>>
    BY DEF work, Loop, Read, Got, Handle, Forward, Exit, Free
  <2> QED
    BY <2>1, <2>2, <2>3, <2>4 DEF ServerInv, DataOK
<1>3. LetGo'
  <2>1. CASE Handle(c)
    BY <2>1 DEF ServerInv, DataOK, LetGo, Handle, Goto
  <2>2. CASE Exit(c)
    BY <2>2 DEF LetGo, Exit
  <2>3. CASE Free(c)
    BY <2>3 DEF ServerInv, DataOK, LetGo, Free, Goto
  <2>4. CASE Loop(c) \/ Read(c) \/ Got(c) \/ Forward(c)
    <3>1. \E pc \in {"loop", "read", "got", "handle", "forward", "exit"} : Goto(c, pc)
      BY <2>4 DEF Loop, Read, Got, Forward
    <3>2. tls_conn' = tls_conn
      BY <2>4 DEF Loop, Read, Got, Forward
    <3> QED
      BY <3>1, <3>2 DEF ServerInv, DataOK, LetGo, Goto
  <2> QED
    BY <2>1, <2>2, <2>3, <2>4 DEF work
<1> QED
  BY <1>1, <1>2, <1>3 DEF ServerInv

(* uartReceiveThread().                                                     *)
LEMMA ReceiverInv ==
  ASSUME ServerInv, receive
  PROVE  ServerInv'
<1>1. FlagsOK'
  <2>1. CASE Answer
    BY <2>1 DEF ServerInv, FlagsOK, Answer
  <2>2. CASE Test
    BY <2>2 DEF ServerInv, FlagsOK, Test
  <2>3. CASE WriteAnswer
    BY <2>3 DEF ServerInv, FlagsOK, WriteAnswer
  <2>4. CASE Assign
    BY <2>4 DEF ServerInv, FlagsOK, Assign
  <2> QED
    BY <2>1, <2>2, <2>3, <2>4 DEF receive
<1>2. DataOK'
  <2>1. UNCHANGED <<client, inbox, listener, worker, tls_conn>>
    BY DEF receive, Answer, Test, WriteAnswer, Assign
  <2>2. asked' \in 0 .. MaxAsked
    <3>1. (asked' = asked) \/ (asked > 0 /\ asked' = asked - 1)
      BY DEF receive, Answer, Test, WriteAnswer, Assign
    <3> QED
      BY <3>1, TlsServerAssumption DEF ServerInv, DataOK
  <2>3. uart' \in {"read", "test", "write", "assign"}
    BY DEF receive, Answer, Test, WriteAnswer, Assign
  <2>4. target' \in Conns \cup {NoConn}
    <3>1. target' \in {target, tls_conn}
      BY DEF receive, Answer, Test, WriteAnswer, Assign
    <3> QED
      BY <3>1 DEF ServerInv, DataOK
  <2> QED
    BY <2>1, <2>2, <2>3, <2>4 DEF ServerInv, DataOK
<1>3. LetGo'
  BY DEF ServerInv, LetGo, receive, Answer, Test, WriteAnswer, Assign
<1> QED
  BY <1>1, <1>2, <1>3 DEF ServerInv

LEMMA NextInv == ServerInv /\ [Next]_vars => ServerInv'
<1> SUFFICES ASSUME ServerInv, [Next]_vars PROVE ServerInv'
  OBVIOUS
<1>1. CASE Next
  BY <1>1, ClientsInv, ListenerInv, WorkerInv, ReceiverInv DEF Next
<1>2. CASE UNCHANGED vars
  BY <1>2 DEF vars, ServerInv, FlagsOK, DataOK, LetGo
<1> QED
  BY <1>1, <1>2

(* The invariant of the server, in every interleaving of its threads.       *)
THEOREM Invariance == Spec => []ServerInv
<1> QED
  BY InitInv, NextInv, PTL DEF Spec

(* Every variable keeps its type.                                           *)
THEOREM TypeCorrect == Spec => []TypeOK
<1>1. ServerInv => TypeOK
  BY DEF ServerInv, FlagsOK, DataOK, TypeOK
<1> QED
  BY <1>1, Invariance, PTL

(* tls_conn never names a connection whose SSL object has been freed, for   *)
(* any number of connections served at once.                                *)
THEOREM ConnectionIsAlive == Spec => []TlsConnNotFreed
<1>1. ServerInv => TlsConnNotFreed
  BY DEF ServerInv, LetGo, TlsConnNotFreed
<1> QED
  BY <1>1, Invariance, PTL
===============================================================================
