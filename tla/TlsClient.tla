------------------------------- MODULE TlsClient -------------------------------
(***************************************************************************)
(* The operator's TLS client: main() and the reader and writer threads of  *)
(* tls-alex-client.cpp, and _client_loop of make_tls_client.cpp.  They     *)
(* share networkActive and _exitFlag without a lock, and one SSL object    *)
(* that each of three threads frees.  The process ends when main() returns.*)
(* If the server's certificate fails its check the socket is closed and the*)
(* SSL object freed, and the client goes on with what is left of them.     *)
(*                                                                         *)
(* The server, the network and the operator are external.  A message stands*)
(* for one record, which one sslRead() returns.                            *)
(***************************************************************************)
EXTENDS Naturals

CONSTANTS
  MaxMessages,  (* bound: messages the server sends                         *)
  MaxCommands   (* bound: commands the operator gives                       *)

ASSUME TlsClientAssumption == MaxMessages \in Nat /\ MaxCommands \in Nat

(* Bound: handled is counted up to one more than there are messages.        *)
MaxHandled == MaxMessages + 1

VARIABLES
  server,         (* up, closed (its end has reached us), reset or lost     *)
  messages,       (* messages sent so far                                   *)
  inbox,          (* those that have not been read                          *)
  given,          (* commands the operator has given                        *)
  networkActive,
  exitFlag,       (* _exitFlag                                              *)
  refused,        (* whether the server's certificate has failed its check  *)
  freed,          (* whether some thread has freed the SSL object           *)
  reader,         (* where readerThread is                                  *)
  len,            (* whether its last sslRead() brought data: len > 0       *)
  handled,        (* messages handleNetwork() has been given                *)
  writer,         (* where writerThread is                                  *)
  wrote,          (* whether its last sslWrite() succeeded: c > 0           *)
  loop,           (* where _client_loop is                                  *)
  ended,          (* whether the process has ended                          *)
  told            (* history: the operator has quit or signalled            *)

network  == <<server, messages, inbox>>
operator == <<given, told>>
readers  == <<reader, len, handled>>
writers  == <<writer, wrote>>
flags    == <<networkActive, exitFlag, refused, freed>>
vars == <<network, operator, flags, readers, writers, loop, ended>>

(* main() sets networkActive and creates the client. *)
Init ==
  /\ server = "up" /\ messages = 0 /\ inbox = 0
  /\ given = 0 /\ told = FALSE
  /\ networkActive = TRUE /\ exitFlag = FALSE /\ refused = FALSE /\ freed = FALSE
  /\ reader = "none" /\ len = FALSE /\ handled = 0
  /\ writer = "none" /\ wrote = FALSE
  /\ loop = "connect" /\ ended = FALSE

-----------------------------------------------------------------------------
(* The server and the network. *)

Connected == loop # "connect"

Send ==
  /\ server = "up" /\ Connected /\ messages < MaxMessages
  /\ messages' = messages + 1 /\ inbox' = inbox + 1
  /\ UNCHANGED <<server, operator, flags, readers, writers, loop, ended>>

Close ==
  /\ server = "up" /\ Connected
  /\ server' = "closed"
  /\ UNCHANGED <<messages, inbox, operator, flags, readers, writers, loop, ended>>

(* The connection is reset, as what is written to a server that has closed  *)
(* is answered, or lost without a word, and what was in flight with it.     *)
Break ==
  /\ Connected
  /\ \/ server \in {"up", "closed"} /\ server' = "reset"
     \/ server = "up" /\ server' = "lost"
  /\ inbox' \in 0 .. inbox
  /\ UNCHANGED <<messages, operator, flags, readers, writers, loop, ended>>

-----------------------------------------------------------------------------
(* stopClient(), and what the threads end with. *)

(* Faulty variant: the flag is left to the other thread. *)
StopNobody == UNCHANGED flags

stopClient == exitFlag' = TRUE /\ UNCHANGED <<networkActive, refused, freed>>

(* SSL_free(); what it does to an object that has been freed may end the    *)
(* process.                                                                 *)
SSL_free ==
  /\ freed' = TRUE /\ ended' \in {FALSE, freed}
  /\ UNCHANGED <<networkActive, exitFlag, refused>>

-----------------------------------------------------------------------------
(* readerThread(). *)

(* while(networkActive) *)
ReaderLoop ==
  /\ reader = "loop"
  /\ reader' = IF networkActive THEN "read" ELSE "stop"
  /\ UNCHANGED <<network, operator, flags, len, handled, writers, loop, ended>>

NoMoreData == inbox = 0 /\ server \in {"closed", "reset"}

SocketClosed == refused \/ loop \in {"close", "done"}

(* Faulty variant: a message is left for the next sslRead(). *)
ReadKeeping ==
  /\ reader = "read" /\ reader' = "assign"
  /\ \/ inbox > 0 /\ len' = TRUE
     \/ NoMoreData /\ len' = FALSE
  /\ UNCHANGED <<network, operator, flags, handled, writers, loop, ended>>

(* Faulty variant: the end of the stream is taken for a message. *)
ReadEndAsMessage ==
  /\ reader = "read" /\ reader' = "assign"
  /\ inbox > 0 \/ NoMoreData
  /\ len' = TRUE /\ inbox' = inbox - 1
  /\ UNCHANGED <<server, messages, operator, flags, handled, writers, loop, ended>>

(* sslRead() returns a message, or that there will be none; with an SSL     *)
(* object that has been freed, anything, if it returns.                     *)
Read ==
  /\ reader = "read" /\ reader' = "assign"
  /\ \/ /\ inbox > 0 /\ inbox' = inbox - 1
        /\ len' = TRUE /\ ended' = ended
     \/ /\ NoMoreData \/ SocketClosed
        /\ len' = FALSE /\ UNCHANGED <<inbox, ended>>
     \/ freed /\ len' \in BOOLEAN /\ ended' \in BOOLEAN /\ inbox' = inbox
  /\ UNCHANGED <<server, messages, operator, flags, handled, writers, loop>>

(* networkActive = (len > 0) *)
Assign ==
  /\ reader = "assign" /\ reader' = "test"
  /\ networkActive' = len
  /\ UNCHANGED <<network, operator, exitFlag, refused, freed, len, handled, writers, loop, ended>>

(* handleNetwork() shows the operator what the buffer holds, a verdict, a   *)
(* status or a message, and changes nothing else.                           *)
handleNetwork == handled' = IF handled < MaxHandled THEN handled + 1 ELSE handled

(* if(networkActive), which the writer may have written since: the buffer   *)
(* is then handled whatever len is.                                         *)
Test ==
  /\ reader = "test" /\ reader' = "loop"
  /\ IF networkActive THEN handleNetwork ELSE handled' = handled
  /\ UNCHANGED <<network, operator, flags, len, writers, loop, ended>>

ReaderEnds ==
  /\ \/ reader = "stop" /\ reader' = "free" /\ stopClient /\ ended' = ended
     \/ reader = "free" /\ reader' = "done" /\ SSL_free
  /\ UNCHANGED <<network, operator, len, handled, writers, loop>>

readerThread == ReaderLoop \/ Read \/ Assign \/ Test \/ ReaderEnds

-----------------------------------------------------------------------------
(* writerThread(). *)

(* The operator gives a command, one that is unknown, or quits. *)
Command ==
  /\ writer = "prompt" /\ given < MaxCommands
  /\ given' = given + 1
  /\ \/ writer' \in {"send", "prompt"} /\ told' = told
     \/ writer' = "stop" /\ told' = TRUE
  /\ UNCHANGED <<network, flags, readers, wrote, loop, ended>>

(* sendData(): if(networkActive) *)
SendData ==
  /\ writer = "send"
  /\ writer' = IF networkActive THEN "write" ELSE "prompt"
  /\ UNCHANGED <<network, operator, flags, readers, wrote, loop, ended>>

(* sslWrite() fails if the connection is known to be reset, the socket is   *)
(* closed, or nothing has come back for long, and it succeeds if the kernel *)
(* takes the bytes.  SIGPIPE, which nobody handles, may end the process.    *)
Write ==
  /\ writer = "write" /\ writer' = "assign"
  /\ \/ /\ freed \/ (server # "reset" /\ ~SocketClosed)
        /\ wrote' = TRUE /\ ended' = ended
     \/ /\ freed \/ server \in {"reset", "lost"} \/ SocketClosed
        /\ wrote' = FALSE /\ ended' \in {FALSE, freed \/ server = "reset"}
  /\ UNCHANGED <<network, operator, flags, readers, loop>>

(* Faulty variant: 0 is taken for success. *)
AssignFailure ==
  /\ writer = "assign" /\ writer' = "prompt"
  /\ networkActive' = ~wrote
  /\ UNCHANGED <<network, operator, exitFlag, refused, freed, readers, wrote, loop, ended>>

(* networkActive = (c > 0) *)
AssignWritten ==
  /\ writer = "assign" /\ writer' = "prompt"
  /\ networkActive' = wrote
  /\ UNCHANGED <<network, operator, exitFlag, refused, freed, readers, wrote, loop, ended>>

WriterEnds ==
  /\ \/ writer = "stop" /\ writer' = "free" /\ stopClient /\ ended' = ended
     \/ writer = "free" /\ writer' = "done" /\ SSL_free
  /\ UNCHANGED <<network, operator, readers, wrote, loop>>

writerThread == SendData \/ Write \/ AssignWritten \/ WriterEnds

-----------------------------------------------------------------------------
(* _client_loop(), main() and the signal handlers. *)

(* The connection fails, exit(-1), or is up, and its certificate is good or *)
(* fails the check: _closeAndExit(-1), which neither exits nor returns.     *)
Connect ==
  /\ loop = "connect"
  /\ \/ loop' = "done" /\ ended' = TRUE /\ UNCHANGED flags
     \/ loop' = "writer" /\ UNCHANGED <<flags, ended>>
     \/ /\ loop' = "writer"
        /\ refused' = TRUE /\ freed' = TRUE
        /\ UNCHANGED <<networkActive, exitFlag, ended>>
  /\ UNCHANGED <<network, operator, readers, writers>>

SpawnWriter ==
  /\ loop = "writer" /\ loop' = "reader"
  /\ writer' = "prompt"
  /\ UNCHANGED <<network, operator, flags, readers, wrote, ended>>

SpawnReader ==
  /\ loop = "reader" /\ loop' = "wait"
  /\ reader' = "loop"
  /\ UNCHANGED <<network, operator, flags, len, handled, writers, ended>>

(* while(!_exitFlag), then _closeAndExit(): the socket, the SSL object. *)
CloseAndExit ==
  /\ \/ /\ loop = "wait" /\ exitFlag /\ loop' = "close"
        /\ UNCHANGED <<flags, ended>>
     \/ loop = "close" /\ loop' = "done" /\ SSL_free
  /\ UNCHANGED <<network, operator, readers, writers>>

_client_loop == Connect \/ SpawnWriter \/ SpawnReader \/ CloseAndExit

(* while(client_is_running()), and the process ends. *)
MainEnds ==
  /\ exitFlag /\ ended' = TRUE
  /\ UNCHANGED <<network, operator, flags, readers, writers, loop>>

(* breakHandler() and termHandler() *)
Signal ==
  /\ exitFlag' = TRUE /\ told' = TRUE
  /\ UNCHANGED <<network, given, networkActive, refused, freed, readers, writers, loop, ended>>

-----------------------------------------------------------------------------
Next ==
  /\ ~ended
  /\ \/ Send \/ Close \/ Break
     \/ readerThread \/ Command \/ writerThread
     \/ _client_loop \/ MainEnds \/ Signal

(* The threads run and so does main().  The operator and the server need    *)
(* not do anything, and nothing ends an sslRead() but what arrives.         *)
Fairness ==
  /\ WF_vars(~ended /\ readerThread) /\ WF_vars(~ended /\ writerThread)
  /\ WF_vars(~ended /\ _client_loop) /\ WF_vars(~ended /\ MainEnds)

Spec == Init /\ [][Next]_vars /\ Fairness

-----------------------------------------------------------------------------
(* Every variable keeps its type. *)
TypeOK ==
  /\ server \in {"up", "closed", "reset", "lost"}
  /\ messages \in Nat /\ inbox \in Nat /\ handled \in Nat /\ given \in Nat
  /\ told \in BOOLEAN /\ ended \in BOOLEAN
  /\ networkActive \in BOOLEAN /\ exitFlag \in BOOLEAN
  /\ refused \in BOOLEAN /\ freed \in BOOLEAN
  /\ reader \in {"none", "loop", "read", "assign", "test", "stop", "free", "done"}
  /\ writer \in {"none", "prompt", "send", "write", "assign", "stop", "free", "done"}
  /\ len \in BOOLEAN /\ wrote \in BOOLEAN
  /\ loop \in {"connect", "writer", "reader", "wait", "close", "done"}

(* The server's certificate was good, it is up, and nobody has stopped the  *)
(* client.                                                                  *)
Healthy == server = "up" /\ ~refused /\ ~exitFlag

(* For as long as the session is healthy neither thread takes networkActive *)
(* from the other: every command is sent.                                   *)
ActiveWhileUp == Healthy => networkActive

(* For as long, every message is handled once, although the reader asks     *)
(* networkActive, which the writer writes too, whether it has read one.     *)
HandledOnce ==
  Healthy =>
    messages = inbox + handled + (IF reader \in {"assign", "test"} THEN 1 ELSE 0)

(* The client stops only for its operator, because the connection ended or  *)
(* because it never had one it could trust.                                 *)
StopsForAReason == exitFlag => told \/ server # "up" \/ refused

(* But for a server it has refused, no thread frees the SSL object before   *)
(* the client is told to stop.                                              *)
FreedWhenStopped == freed => exitFlag \/ refused

(* "SSL Certicate validation failed": a server whose certificate fails the  *)
(* check is not talked to.                                                  *)
RefusedIsNotUsed == refused => reader = "none" /\ writer = "none"

(* "Now join the threads": the client loop closes when the threads it has   *)
(* started have ended.                                                      *)
ThreadsAreJoined == loop = "close" => reader = "done" /\ writer = "done"

(* A connection that the server ends, its certificate having been good,     *)
(* ends the client, although the writer may set networkActive again after   *)
(* the reader has cleared it.                                               *)
ServerEndsClient == server \in {"closed", "reset"} /\ ~refused ~> ended

(* An operator who quits or signals gets the client to end, even while the  *)
(* reader is in an sslRead() that never returns.                            *)
OperatorEndsClient == told ~> ended

-----------------------------------------------------------------------------
(* The inductive invariant of the proofs: what a thread is about to write   *)
(* in networkActive, why it is about to stop, and that it is started once.  *)
ResultsInv ==
  /\ Healthy /\ reader = "assign" => len
  /\ Healthy /\ writer = "assign" => wrote
  /\ messages <= MaxMessages

ReasonsInv ==
  /\ reader = "stop" => told \/ server # "up" \/ refused
  /\ writer = "stop" => told
  /\ reader = "free" \/ writer = "free" \/ loop = "close" => exitFlag
  /\ loop = "done" => exitFlag \/ ended
  /\ loop \in {"connect", "writer", "reader"} => reader = "none"

ClientInv ==
  /\ TypeOK /\ ActiveWhileUp /\ HandledOnce /\ StopsForAReason /\ FreedWhenStopped
  /\ ResultsInv /\ ReasonsInv
===============================================================================
