------------------------------- MODULE TcpRelay --------------------------------
(***************************************************************************)
(* Teleoperation as the current program does it: tcp_client.py samples the *)
(* keyboard, alex-pi.cpp passes one key at a time on to the Arduino, and   *)
(* the robot obeys (module Robot).  The Pi sends "c" when it is ready for a *)
(* key, the client answers it with one, and the Pi waits 0.2 s after it    *)
(* has written the command.  SerialLink shows that the Arduino has handled *)
(* a command within that time, Motion that it handles it as Robot says.    *)
(*                                                                         *)
(* The network is TCP: a stream each way, ended by the client's kernel     *)
(* when the client goes, unless its machine or the network is lost.        *)
(***************************************************************************)
EXTENDS Naturals, Sequences

CONSTANTS
  Clients,
  Keys      (* what an operator may hold, "s" being no key                  *)

NoConn == "NULL"
None == "none"

ASSUME TcpRelayAssumption ==
  /\ NoConn \notin Clients
  /\ Keys \subseteq {"f", "b", "l", "r", "s"} /\ "s" \in Keys

VARIABLES
  client,     (* where the program of a client is                           *)
  held,       (* what its operator holds                                    *)
  quitting,   (* whether the operator has closed its window                 *)
  running,
  pumped,     (* what pygame last took from the keyboard                    *)
  toClient,   (* "c" bytes on their way to a client                         *)
  toPi,       (* keys on their way to the Pi                                *)
  backlog,    (* connections accept() will return                           *)
  pi,         (* where main() of the Pi is                                  *)
  conn,       (* the client it serves                                       *)
  command,    (* the key it has read                                        *)
  arduino,    (* the command the Arduino has still to handle                *)
  heading, pending,
  recent,     (* history: pumped was held after the last key was sent       *)
  obeyed      (* history: the last command the robot was given              *)

robot   == <<heading, pending>>
history == <<recent, obeyed>>
program == <<client, quitting, running, pumped>>
net     == <<toClient, toPi, backlog>>
relay   == <<pi, conn, command, arduino>>
vars == <<program, held, net, relay, robot, history>>

R == INSTANCE Robot

Init ==
  /\ client = [c \in Clients |-> "away"]
  /\ held = [c \in Clients |-> "s"] /\ pumped = [c \in Clients |-> "s"]
  /\ quitting = [c \in Clients |-> FALSE] /\ running = [c \in Clients |-> TRUE]
  /\ toClient = [c \in Clients |-> 0]
  /\ toPi = [c \in Clients |-> <<>>] /\ backlog = <<>>
  /\ pi = "accept" /\ conn = NoConn /\ command = None /\ arduino = None
  /\ R!Init
  /\ recent = [c \in Clients |-> TRUE] /\ obeyed = "s"

Present(c) == client[c] \in {"pump", "recv", "key", "pause"}

-----------------------------------------------------------------------------
(* The operators and their machines. *)

Connect(c) ==
  /\ client[c] = "away"
  /\ client' = [client EXCEPT ![c] = "pump"]
  /\ backlog' = Append(backlog, c)
  /\ UNCHANGED <<quitting, running, pumped, held, toClient, toPi, relay, robot, history>>

Press(c, k) ==
  /\ Present(c) /\ k # held[c]
  /\ held' = [held EXCEPT ![c] = k]
  /\ recent' = [recent EXCEPT ![c] = @ \/ k = pumped[c]]
  /\ UNCHANGED <<program, net, relay, robot, obeyed>>

CloseWindow(c) ==
  /\ Present(c) /\ ~quitting[c]
  /\ quitting' = [quitting EXCEPT ![c] = TRUE]
  /\ UNCHANGED <<client, running, pumped, held, net, relay, robot, history>>

(* A program that ends takes the values of its variables with it.           *)
Leave(c, how) ==
  /\ client' = [client EXCEPT ![c] = how]
  /\ held' = [held EXCEPT ![c] = "s"] /\ pumped' = [pumped EXCEPT ![c] = "s"]
  /\ quitting' = [quitting EXCEPT ![c] = FALSE]
  /\ running' = [running EXCEPT ![c] = FALSE]
  /\ recent' = [recent EXCEPT ![c] = TRUE]

(* The program is killed: its kernel ends the stream. *)
Kill(c) ==
  /\ Present(c) /\ Leave(c, "gone")
  /\ UNCHANGED <<net, relay, robot, obeyed>>

(* The machine or the network is lost: nothing tells the Pi. *)
Vanish(c) ==
  /\ Present(c) /\ Leave(c, "lost")
  /\ UNCHANGED <<net, relay, robot, obeyed>>

-----------------------------------------------------------------------------
(* main() of tcp_client.py. *)

Goto(c, at) == client' = [client EXCEPT ![c] = at]

(* Faulty variant: the release of a key is not noticed. *)
PumpPresses(c) ==
  /\ client[c] = "pump" /\ Goto(c, "recv")
  /\ running' = [running EXCEPT ![c] = ~quitting[c]]
  /\ pumped' = [pumped EXCEPT ![c] = IF held[c] = "s" THEN @ ELSE held[c]]
  /\ recent' = [recent EXCEPT ![c] = @ \/ held[c] \in {pumped[c]} \cup (Keys \ {"s"})]
  /\ UNCHANGED <<quitting, held, net, relay, robot, obeyed>>

(* pygame.event.get(): the only place where the keyboard is looked at. *)
Pump(c) ==
  /\ client[c] = "pump" /\ Goto(c, "recv")
  /\ running' = [running EXCEPT ![c] = ~quitting[c]]
  /\ pumped' = [pumped EXCEPT ![c] = held[c]]
  /\ recent' = [recent EXCEPT ![c] = TRUE]
  /\ UNCHANGED <<quitting, held, net, relay, robot, obeyed>>

(* Faulty variant: recv() does not wait. *)
RecvUnasked(c) ==
  /\ client[c] = "recv"
  /\ Goto(c, "key")
  /\ toClient' = [toClient EXCEPT ![c] = IF @ > 0 THEN @ - 1 ELSE @]
  /\ UNCHANGED <<quitting, running, pumped, held, toPi, backlog, relay, robot, history>>

(* client_socket.recv(1) waits for the "c". *)
Recv(c) ==
  /\ client[c] = "recv" /\ toClient[c] > 0
  /\ Goto(c, "key")
  /\ toClient' = [toClient EXCEPT ![c] = @ - 1]
  /\ UNCHANGED <<quitting, running, pumped, held, toPi, backlog, relay, robot, history>>

(* get_input() and send(). *)
SendKey(c) ==
  /\ client[c] = "key" /\ Goto(c, "pause")
  /\ toPi' = [toPi EXCEPT ![c] = Append(@, pumped[c])]
  /\ recent' = [recent EXCEPT ![c] = pumped[c] = held[c]]
  /\ UNCHANGED <<quitting, running, pumped, held, toClient, backlog, relay, robot, obeyed>>

(* time.sleep(0.1), and round again or to the end.                          *)
Pause(c) ==
  /\ client[c] = "pause"
  /\ \/ /\ running[c] /\ Goto(c, "pump")
        /\ UNCHANGED <<quitting, running, pumped, held, recent>>
     \/ ~running[c] /\ Leave(c, "gone")
  /\ UNCHANGED <<net, relay, robot, obeyed>>

-----------------------------------------------------------------------------
(* main() of alex-pi.cpp. *)

Accept ==
  /\ pi = "accept" /\ backlog # <<>>
  /\ pi' = "ready"
  /\ conn' = Head(backlog) /\ backlog' = Tail(backlog)
  /\ UNCHANGED <<program, held, toClient, toPi, command, arduino, robot, history>>

(* send(new_socket, "c") *)
Ready ==
  /\ pi = "ready" /\ pi' = "read"
  /\ toClient' = [toClient EXCEPT ![conn] = @ + 1]
  /\ UNCHANGED <<program, held, toPi, backlog, conn, command, arduino, robot, history>>

ReadKey ==
  /\ pi = "read" /\ toPi[conn] # <<>>
  /\ pi' = "command"
  /\ command' = Head(toPi[conn])
  /\ toPi' = [toPi EXCEPT ![conn] = Tail(@)]
  /\ UNCHANGED <<program, held, toClient, backlog, conn, arduino, robot, history>>

(* Faulty variant: the end of the stream does not end the inner loop. *)
ReadEndIgnored ==
  /\ pi = "read" /\ toPi[conn] = <<>>
  /\ client[conn] = "gone"
  /\ pi' = "ready"
  /\ UNCHANGED <<program, held, net, conn, command, arduino, robot, history>>

(* Faulty variant: read() is called again. *)
ReadEndRetried ==
  /\ pi = "read" /\ toPi[conn] = <<>>
  /\ client[conn] = "gone"
  /\ UNCHANGED vars

(* read() returns 0 or -1. *)
ReadEnd ==
  /\ pi = "read" /\ toPi[conn] = <<>>
  /\ client[conn] = "gone"
  /\ pi' = "close"
  /\ UNCHANGED <<program, held, net, conn, command, arduino, robot, history>>

(* sendCommand() writes the command to the serial port; buffer is cleared.  *)
SendCommand ==
  /\ pi = "command" /\ pi' = "sleep"
  /\ arduino' = command
  /\ command' = None
  /\ UNCHANGED <<program, held, net, conn, robot, history>>

(* usleep(), after which the Arduino has handled the command. *)
Wake ==
  /\ pi = "sleep" /\ arduino = None
  /\ pi' = "ready"
  /\ UNCHANGED <<program, held, net, conn, command, arduino, robot, history>>

CloseConn ==
  /\ pi = "close" /\ pi' = "accept"
  /\ conn' = NoConn
  /\ UNCHANGED <<program, held, net, command, arduino, robot, history>>

-----------------------------------------------------------------------------
(* The Arduino and the robot. *)

DirOf == [f |-> "FORWARD", b |-> "BACKWARD", l |-> "LEFT", r |-> "RIGHT", s |-> "STOP"]

Handle ==
  /\ arduino # None /\ arduino' = None
  /\ \/ R!Move(DirOf[arduino])
     \/ R!Turn(DirOf[arduino])
     \/ DirOf[arduino] = "STOP" /\ R!Halt
  /\ obeyed' = arduino
  /\ UNCHANGED <<program, held, net, pi, conn, command, recent>>

RobotStep ==
  /\ R!ByItself
  /\ UNCHANGED <<program, held, net, relay, history>>

-----------------------------------------------------------------------------
work(c) == Pump(c) \/ Recv(c) \/ SendKey(c) \/ Pause(c)

main ==
  \/ Accept \/ Ready \/ ReadKey \/ ReadEnd
  \/ SendCommand \/ Wake \/ CloseConn

Next ==
  \/ \E c \in Clients :
       \/ Connect(c) \/ CloseWindow(c) \/ Kill(c) \/ Vanish(c)
       \/ \E k \in Keys : Press(c, k)
       \/ work(c)
  \/ main \/ Handle \/ RobotStep

(* Programs run, streams deliver, and the Arduino ends what Motion shows it *)
(* to end.  What operators do, and what is lost, is up to them.             *)
Fairness ==
  /\ \A c \in Clients : WF_vars(work(c))
  /\ WF_vars(main) /\ WF_vars(Handle) /\ WF_vars(RobotStep)

Spec == Init /\ [][Next]_vars /\ Fairness

-----------------------------------------------------------------------------
(* Every variable keeps its type. *)
TypeOK ==
  /\ client \in [Clients -> {"away", "pump", "recv", "key", "pause", "gone", "lost"}]
  /\ held \in [Clients -> Keys] /\ pumped \in [Clients -> Keys]
  /\ quitting \in [Clients -> BOOLEAN] /\ running \in [Clients -> BOOLEAN]
  /\ toClient \in [Clients -> Nat] /\ toPi \in [Clients -> Seq(Keys)]
  /\ backlog \in Seq(Clients)
  /\ pi \in {"accept", "ready", "read", "command", "sleep", "close"}
  /\ conn \in Clients \cup {NoConn}
  /\ conn = NoConn <=> pi = "accept"
  /\ command \in Keys \cup {None} /\ arduino \in Keys \cup {None}
  /\ heading \in R!Moves \cup R!Turns \cup {"STOP"} /\ pending \in BOOLEAN
  /\ recent \in [Clients -> BOOLEAN] /\ obeyed \in Keys

(* The "c" the Pi has sent, or what has become of it. *)
Waiting(c) ==
  toClient[c] + Len(toPi[c]) + (IF client[c] = "key" THEN 1 ELSE 0)

(* The Pi and its client take turns: between "c" and key there is never     *)
(* more than one byte, and none but while the Pi waits in read().           *)
TakeTurns ==
  \A c \in Clients :
    /\ Waiting(c) <= 1
    /\ Present(c) => Waiting(c) = (IF c = conn /\ pi = "read" THEN 1 ELSE 0)

(* The Pi's send() never meets a connection that the client's kernel has    *)
(* reset, because of a "c" it could not deliver: SIGPIPE would end the      *)
(* program.  The one send() after the client's end is answered with the     *)
(* reset, and read() sees the end before another.                           *)
NoBrokenPipe == pi = "ready" /\ client[conn] = "gone" => toClient[conn] = 0

(* A key that is sent has been held since the one before it was: the        *)
(* keyboard is never more than one command ahead of the robot.              *)
KeysAreRecent ==
  [][\A c \in Clients : toPi'[c] = Append(toPi[c], pumped[c]) => recent[c]]_vars

(* The robot heads where the last command sent it, or it has stopped.       *)
HeadsAsTold == heading \in {DirOf[obeyed], "STOP"}

(* An operator who lets go of the keys and stays gets the robot to stop.    *)
ReleaseStops ==
  \A c \in Clients :
    <>[](conn = c /\ Present(c) /\ held[c] = "s") => <>[](heading = "STOP")

(* A client that ends, whenever it does, makes way for the next one.        *)
LeaverIsReleased ==
  \A c \in Clients : client[c] = "gone" /\ conn = c ~> conn # c

(* A robot that was driving when its last operator left comes to a stop.    *)
UnattendedMovesEnd == <>[](conn = NoConn) => <>[](heading \notin R!Moves)

-----------------------------------------------------------------------------
(* The inductive invariant of the proofs: a client is away, then in the     *)
(* backlog, then served, once each, and no byte is on its way to or from    *)
(* one that is not being served.                                            *)
InBacklog(c) == \E i \in 1 .. Len(backlog) : backlog[i] = c

TurnsInv ==
  /\ TypeOK /\ TakeTurns
  /\ \A i, j \in 1 .. Len(backlog) : backlog[i] = backlog[j] => i = j
  /\ \A c \in Clients :
       /\ client[c] = "away" => ~InBacklog(c) /\ conn # c
       /\ client[c] = "away" \/ InBacklog(c) => Waiting(c) = 0
       /\ InBacklog(c) => conn # c
       /\ conn = c /\ pi \in {"ready", "command", "sleep"} => Waiting(c) = 0

(* A program that waits for the turn, or has it, has looked at the keyboard *)
(* since it last sent a key.                                                *)
LookedInv == \A c \in Clients : client[c] \in {"recv", "key"} => recent[c]

(* The Pi never has two commands under way: it reads the next key, and      *)
(* serves the next client, only when the Arduino has handled the last one.  *)
OneCommand ==
  /\ command # None => pi = "command"
  /\ arduino # None => pi = "sleep"
=============================================================================
