------------------------------ MODULE TlsServer -------------------------------
(***************************************************************************)
(* The Pi's TLS server: the listener thread of make_tls_server.cpp, one    *)
(* worker thread per connection and the thread that reads the Arduino's    *)
(* answers, all of tls-alex-server.cpp.  The threads share networkActive   *)
(* and tls_conn without a lock, so every access to one is a step.  Clients *)
(* and the TLS library are external; a connection is used once.            *)
(***************************************************************************)
EXTENDS Integers

CONSTANTS
  Conns,        (* connections clients may make                             *)
  MaxUnread,    (* bound: commands of a connection waiting to be read       *)
  MaxAsked      (* bound: answers still to come that are counted            *)

ASSUME TlsServerAssumption == MaxUnread \in Nat /\ MaxAsked \in Nat \ {0}

VARIABLES
  client,         (* how far the client of a connection is                  *)
  inbox,          (* commands it has sent that the server has not read      *)
  listener,       (* the connection being set up, or NoConn in accept()     *)
  worker,         (* where the worker thread of a connection is             *)
  gotData,        (* whether the worker's last sslRead() brought data       *)
  networkActive,
  tls_conn,
  asked,          (* commands the Arduino has still to answer               *)
  uart,           (* where uartReceiveThread is in sendNetworkData()        *)
  target,         (* the connection it has taken from tls_conn              *)
  wrote           (* whether c > 0                                          *)

clients == <<client, inbox>>
workers == <<worker, gotData>>
uarts   == <<uart, target, wrote>>
vars == <<clients, listener, workers, networkActive, tls_conn, asked, uarts>>

NoConn == "NULL"

(* Faulty variant: main() does not set networkActive. *)
InitiallyInactive == FALSE

(* main() sets networkActive before createServer(). *)
InitiallyActive == TRUE

Init ==
  /\ client = [c \in Conns |-> "away"]
  /\ inbox = [c \in Conns |-> 0]
  /\ listener = NoConn
  /\ worker = [c \in Conns |-> "none"]
  /\ gotData = [c \in Conns |-> FALSE]
  /\ networkActive = InitiallyActive
  /\ tls_conn = NoConn
  /\ asked = 0
  /\ uart = "read" /\ target = NoConn /\ wrote = FALSE

-----------------------------------------------------------------------------
(* Clients. *)

Connect(c) ==
  /\ client[c] = "away"
  /\ client' = [client EXCEPT ![c] = "connecting"]
  /\ UNCHANGED <<inbox, listener, workers, networkActive, tls_conn, asked, uarts>>

(* A client may send for ever. *)
Send(c) ==
  /\ client[c] = "up" /\ inbox[c] < MaxUnread
  /\ inbox' = [inbox EXCEPT ![c] = @ + 1]
  /\ UNCHANGED <<client, listener, workers, networkActive, tls_conn, asked, uarts>>

Close(c) ==
  /\ client[c] = "up"
  /\ client' = [client EXCEPT ![c] = "gone"]
  /\ UNCHANGED <<inbox, listener, workers, networkActive, tls_conn, asked, uarts>>

-----------------------------------------------------------------------------
(* _tls_listener: accept(), then SSL_accept() and the certificate, one      *)
(* connection after the other.                                              *)

Accept(c) ==
  /\ listener = NoConn /\ client[c] = "connecting"
  /\ listener' = c
  /\ client' = [client EXCEPT ![c] = "handshake"]
  /\ UNCHANGED <<inbox, workers, networkActive, tls_conn, asked, uarts>>

Spawn(c) ==
  /\ listener = c
  /\ listener' = NoConn
  /\ client' = [client EXCEPT ![c] = "up"]
  /\ worker' = [worker EXCEPT ![c] = "loop"]
  /\ UNCHANGED <<inbox, gotData, networkActive, tls_conn, asked, uarts>>

(* The handshake fails or the certificate does not verify: no worker. *)
Refuse(c) ==
  /\ listener = c
  /\ listener' = NoConn
  /\ client' = [client EXCEPT ![c] = "refused"]
  /\ UNCHANGED <<inbox, workers, networkActive, tls_conn, asked, uarts>>

-----------------------------------------------------------------------------
(* worker(conn). *)

Goto(c, pc) == worker' = [worker EXCEPT ![c] = pc]

(* while(networkActive) *)
Loop(c) ==
  /\ worker[c] = "loop"
  /\ Goto(c, IF networkActive THEN "read" ELSE "exit")
  /\ UNCHANGED <<clients, listener, gotData, networkActive, tls_conn, asked, uarts>>

(* Faulty variant: the end of the connection counts as a command. *)
ReadEndAsData(c) ==
  /\ worker[c] = "read"
  /\ inbox[c] > 0 \/ client[c] = "gone"
  /\ inbox' = [inbox EXCEPT ![c] = @ - 1]
  /\ gotData' = [gotData EXCEPT ![c] = TRUE]
  /\ Goto(c, "got")
  /\ UNCHANGED <<client, listener, networkActive, tls_conn, asked, uarts>>

(* sslRead() returns a command, or that the client has closed. *)
Read(c) ==
  /\ worker[c] = "read"
  /\ \/ /\ inbox[c] > 0
        /\ inbox' = [inbox EXCEPT ![c] = @ - 1]
        /\ gotData' = [gotData EXCEPT ![c] = TRUE]
     \/ /\ inbox[c] = 0 /\ client[c] = "gone"
        /\ inbox' = inbox
        /\ gotData' = [gotData EXCEPT ![c] = FALSE]
  /\ Goto(c, "got")
  /\ UNCHANGED <<client, listener, networkActive, tls_conn, asked, uarts>>

(* Faulty variant: only data is recorded, the end of data is not. *)
GotDataOnly(c) ==
  /\ worker[c] = "got"
  /\ networkActive' = (networkActive \/ gotData[c])
  /\ Goto(c, IF gotData[c] THEN "handle" ELSE "loop")
  /\ UNCHANGED <<clients, listener, gotData, tls_conn, asked, uarts>>

(* networkActive=(len > 0) *)
Got(c) ==
  /\ worker[c] = "got"
  /\ networkActive' = gotData[c]
  /\ Goto(c, IF gotData[c] THEN "handle" ELSE "loop")
  /\ UNCHANGED <<clients, listener, gotData, tls_conn, asked, uarts>>

(* handleNetworkData(): tls_conn = conn *)
Handle(c) ==
  /\ worker[c] = "handle"
  /\ tls_conn' = c
  /\ Goto(c, "forward")
  /\ UNCHANGED <<clients, listener, gotData, networkActive, asked, uarts>>

(* handleCommand(): the command goes to the Arduino, which answers it later. *)
Forward(c) ==
  /\ worker[c] = "forward"
  /\ asked' = IF asked < MaxAsked THEN asked + 1 ELSE asked
  /\ Goto(c, "loop")
  /\ UNCHANGED <<clients, listener, gotData, networkActive, tls_conn, uarts>>

(* Faulty variant: tls_conn keeps its value. *)
ExitKeeping(c) ==
  /\ worker[c] = "exit"
  /\ Goto(c, "free")
  /\ UNCHANGED <<clients, listener, gotData, networkActive, tls_conn, asked, uarts>>

(* tls_conn = NULL *)
Exit(c) ==
  /\ worker[c] = "exit"
  /\ tls_conn' = NoConn
  /\ Goto(c, "free")
  /\ UNCHANGED <<clients, listener, gotData, networkActive, asked, uarts>>

(* EXIT_THREAD: SSL_free() and the end of the thread. *)
Free(c) ==
  /\ worker[c] = "free"
  /\ Goto(c, "done")
  /\ UNCHANGED <<clients, listener, gotData, networkActive, tls_conn, asked, uarts>>

-----------------------------------------------------------------------------
(* uartReceiveThread, for every answer of the Arduino: sendNetworkData().   *)

(* An answer comes; if(networkActive). *)
Answer ==
  /\ uart = "read" /\ asked > 0
  /\ asked' = asked - 1
  /\ uart' = IF networkActive THEN "test" ELSE "read"
  /\ UNCHANGED <<clients, listener, workers, networkActive, tls_conn, target, wrote>>

(* if(tls_conn != NULL).  If it is, c is never assigned: any value.         *)
Test ==
  /\ uart = "test"
  /\ target' = tls_conn
  /\ IF tls_conn = NoConn
     THEN uart' = "assign" /\ wrote' \in BOOLEAN
     ELSE uart' = "write" /\ wrote' = wrote
  /\ UNCHANGED <<clients, listener, workers, networkActive, tls_conn, asked>>

(* c = sslWrite(tls_conn, ...).  The compiler may keep the value just       *)
(* tested or load tls_conn again.  A client that has closed may still get   *)
(* the write accepted; what a write to no connection, or to one that has    *)
(* been freed, returns is anything.                                         *)
WriteAnswer ==
  /\ uart = "write"
  /\ \E to \in {target, tls_conn} :
       /\ target' = to
       /\ wrote' \in IF to # NoConn /\ worker[to] # "done" /\ client[to] = "up"
                     THEN {TRUE} ELSE BOOLEAN
  /\ uart' = "assign"
  /\ UNCHANGED <<clients, listener, workers, networkActive, tls_conn, asked>>

(* networkActive = (c > 0) *)
Assign ==
  /\ uart = "assign"
  /\ networkActive' = wrote
  /\ uart' = "read"
  /\ UNCHANGED <<clients, listener, workers, tls_conn, asked, target, wrote>>

-----------------------------------------------------------------------------
listen(c) == Accept(c) \/ Spawn(c) \/ Refuse(c)

work(c) ==
  \/ Loop(c) \/ Read(c) \/ Got(c) \/ Handle(c) \/ Forward(c) \/ Exit(c) \/ Free(c)

receive == Answer \/ Test \/ WriteAnswer \/ Assign

Next ==
  \/ \E c \in Conns : Connect(c) \/ Send(c) \/ Close(c) \/ listen(c) \/ work(c)
  \/ receive

(* The server's threads run.  A client need not do anything, but one that   *)
(* has begun a handshake ends it: the listener waits for that.              *)
Fairness ==
  /\ \A c \in Conns : WF_vars(listen(c)) /\ WF_vars(work(c))
  /\ WF_vars(receive)

Spec == Init /\ [][Next]_vars /\ Fairness

-----------------------------------------------------------------------------
(* Every variable keeps its type. *)
TypeOK ==
  /\ client \in [Conns -> {"away", "connecting", "handshake", "refused", "up", "gone"}]
  /\ inbox \in [Conns -> 0 .. MaxUnread]
  /\ listener \in Conns \cup {NoConn}
  /\ worker \in [Conns -> {"none", "loop", "read", "got", "handle", "forward",
                           "exit", "free", "done"}]
  /\ gotData \in [Conns -> BOOLEAN]
  /\ networkActive \in BOOLEAN
  /\ tls_conn \in Conns \cup {NoConn}
  /\ asked \in 0 .. MaxAsked
  /\ uart \in {"read", "test", "write", "assign"}
  /\ target \in Conns \cup {NoConn} /\ wrote \in BOOLEAN

(* Whatever the workers of other connections do, tls_conn never names a     *)
(* connection whose SSL object has been freed.                              *)
TlsConnNotFreed == tls_conn # NoConn => worker[tls_conn] # "done"

(* The worker of a client that has closed ends and frees the connection,    *)
(* unless clients send commands for ever: its own assignment, its test and  *)
(* those of the other threads may fall in any order until they pause.       *)
Released(c) == client[c] = "gone" /\ worker[c] # "none" ~> worker[c] = "done"

ClosedIsReleased ==
  \A c \in Conns : Released(c) \/ []<><<\E d \in Conns : Send(d)>>_vars

(* Without that exception: a client that keeps sending can hold the worker  *)
(* of one that has closed for ever.                                         *)
ReleasedWhateverComes == \A c \in Conns : Released(c)

(* What a client sends on a connection reaches the Arduino.                 *)
CommandsForwarded ==
  \A c \in Conns :
    client[c] = "up" /\ inbox[c] > 0 ~> worker[c] = "forward" \/ client[c] = "gone"

(* It does as long as no client has left: neither refused connections, nor  *)
(* others served at the same time, nor the answers in between end it.       *)
ForwardedWhileAllStay ==
  \A c \in Conns :
    client[c] = "up" /\ inbox[c] > 0
      ~> worker[c] = "forward" \/ \E d \in Conns : client[d] = "gone"

(* tls_conn points "to the TLS connection we want to write to": the write   *)
(* of an answer goes to a connection that exists.                           *)
WritesToAConnection ==
  [][uart = "write" /\ uart' = "assign" =>
       target' # NoConn /\ worker[target'] # "done"]_vars
=============================================================================
