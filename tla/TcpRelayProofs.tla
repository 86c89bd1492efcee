---------------------------- MODULE TcpRelayProofs ----------------------------
(***************************************************************************)
(* Proofs about the relay, for any set of clients.                         *)
(***************************************************************************)
EXTENDS TcpRelay, TLAPS

(* The next command for the robot.                                          *)
LEMMA HandleType ==
  ASSUME TypeOK, Handle
  PROVE  /\ heading' \in R!Moves \cup R!Turns \cup {"STOP"} /\ pending' \in BOOLEAN
         /\ obeyed' \in Keys /\ arduino' \in Keys \cup {None}
<1>1. arduino \in Keys
  BY DEF TypeOK, Handle
<1>2. heading' \in R!Moves \cup R!Turns \cup {"STOP"}
  BY DEF Handle, R!Move, R!Turn, R!Halt
<1>3. pending' \in BOOLEAN
  BY DEF Handle, R!Move, R!Turn, R!Halt, TypeOK
<1> QED
  BY <1>1, <1>2, <1>3 DEF Handle

LEMMA RobotStepType ==
  ASSUME TypeOK, RobotStep
  PROVE  heading' \in R!Moves \cup R!Turns \cup {"STOP"} /\ pending' \in BOOLEAN
BY DEF RobotStep, R!ByItself, R!MoveEnds, R!TurnEnds, R!Settle, TypeOK

LEMMA InitType == Init => TypeOK
<1> SUFFICES ASSUME Init PROVE TypeOK
  OBVIOUS
<1>1. pending \in BOOLEAN /\ heading \in R!Moves \cup R!Turns \cup {"STOP"}
  BY DEF Init, R!Init
<1>2. /\ quitting \in [Clients -> BOOLEAN] /\ running \in [Clients -> BOOLEAN]
      /\ recent \in [Clients -> BOOLEAN]
  BY DEF Init
<1>3. /\ client \in [Clients -> {"away", "pump", "recv", "key", "pause", "gone", "lost"}]
      /\ held \in [Clients -> Keys] /\ pumped \in [Clients -> Keys]
      /\ toClient \in [Clients -> Nat] /\ toPi \in [Clients -> Seq(Keys)]
      /\ backlog \in Seq(Clients)
  BY TcpRelayAssumption DEF Init
<1>4. /\ pi \in {"accept", "ready", "read", "command", "sleep", "close"}
      /\ conn \in Clients \cup {NoConn}
      /\ conn = NoConn <=> pi = "accept"
      /\ command \in Keys \cup {None} /\ arduino \in Keys \cup {None}
      /\ obeyed \in Keys
  BY TcpRelayAssumption DEF Init
<1> QED
  BY <1>1, <1>2, <1>3, <1>4 DEF TypeOK

(* A program that ends.                                                     *)
LEMMA LeaveType ==
  ASSUME TypeOK, NEW c \in Clients, NEW how \in {"gone", "lost"}, Leave(c, how)
  PROVE  /\ client' \in [Clients -> {"away", "pump", "recv", "key", "pause", "gone", "lost"}]
         /\ held' \in [Clients -> Keys] /\ pumped' \in [Clients -> Keys]
         /\ quitting' \in [Clients -> BOOLEAN] /\ running' \in [Clients -> BOOLEAN]
         /\ recent' \in [Clients -> BOOLEAN]
<1>1. quitting' \in [Clients -> BOOLEAN] /\ running' \in [Clients -> BOOLEAN]
      /\ recent' \in [Clients -> BOOLEAN]
  BY DEF TypeOK, Leave
<1> QED
  BY <1>1, TcpRelayAssumption DEF TypeOK, Leave

(* What a client's program and its operator do keeps the types.             *)
LEMMA ProgramType ==
  ASSUME TypeOK, NEW c \in Clients,
         \/ Connect(c) \/ CloseWindow(c) \/ Kill(c) \/ Vanish(c) \/ work(c)
         \/ \E k \in Keys : Press(c, k)
  PROVE  TypeOK'
<1>1. CASE Kill(c) \/ Vanish(c) \/ (Pause(c) /\ ~running[c])
  <2>1. /\ \E how \in {"gone", "lost"} : Leave(c, how)
        /\ UNCHANGED <<net, relay, robot, obeyed>>
    BY <1>1 DEF Kill, Vanish, Pause
  <2> QED
    BY <2>1, LeaveType DEF TypeOK, net, relay, robot
<1>2. CASE Connect(c) \/ CloseWindow(c) \/ (Pause(c) /\ running[c])
  <2>1. quitting' \in [Clients -> BOOLEAN] /\ UNCHANGED <<running, recent>>
    BY <1>2 DEF TypeOK, Connect, CloseWindow, Pause, history
  <2>2. client' \in [Clients -> {"away", "pump", "recv", "key", "pause", "gone", "lost"}]
        /\ backlog' \in Seq(Clients)
    <3>1. client' = client \/ client' = [client EXCEPT ![c] = "pump"]
      BY <1>2 DEF Connect, CloseWindow, Pause, Goto
    <3>2. backlog' = backlog \/ backlog' = Append(backlog, c)
      BY <1>2 DEF Connect, CloseWindow, Pause, net
    <3>3. client \in [Clients -> {"away", "pump", "recv", "key", "pause", "gone", "lost"}]
      BY DEF TypeOK
    <3>4. backlog \in Seq(Clients)
      BY DEF TypeOK
    <3>5. client' \in [Clients -> {"away", "pump", "recv", "key", "pause", "gone", "lost"}]
      BY <3>1, <3>3
    <3>6. backlog' \in Seq(Clients)
      BY <3>2, <3>4
    <3> QED
      BY <3>5, <3>6
  <2>3. UNCHANGED <<held, pumped, toClient, toPi, relay, robot, obeyed>>
    BY <1>2 DEF Connect, CloseWindow, Pause, net, history
  <2> QED
    BY <2>1, <2>2, <2>3 DEF TypeOK, relay, robot
<1>3. CASE \E k \in Keys : Press(c, k)
  <2>1. PICK k \in Keys : Press(c, k)
    BY <1>3
  <2>2. (recent[c] \/ k = pumped[c]) \in BOOLEAN
    OBVIOUS
  <2>3. recent' = [recent EXCEPT ![c] = recent[c] \/ k = pumped[c]]
    BY <2>1 DEF Press
  <2>4. recent' \in [Clients -> BOOLEAN]
    BY <2>2, <2>3 DEF TypeOK
  <2> QED
    BY <2>1, <2>4 DEF TypeOK, Press, program, net, relay, robot
<1>4. CASE Pump(c)
  <2>1. running' \in [Clients -> BOOLEAN] /\ recent' \in [Clients -> BOOLEAN]
    BY <1>4 DEF TypeOK, Pump
  <2> QED
    BY <1>4, <2>1 DEF TypeOK, Pump, Goto, net, relay, robot
<1>5. CASE Recv(c)
  BY <1>5 DEF TypeOK, Recv, Goto, relay, robot, history
<1>6. CASE SendKey(c)
  <2>1. recent' \in [Clients -> BOOLEAN]
    BY <1>6 DEF TypeOK, SendKey
  <2> QED
    BY <1>6, <2>1 DEF TypeOK, SendKey, Goto, relay, robot
<1> QED
  BY <1>1, <1>2, <1>3, <1>4, <1>5, <1>6 DEF work

(* So does main() of the Pi.                                                *)
LEMMA MainType ==
  ASSUME TypeOK, main
  PROVE  TypeOK'
<1>1. conn \in Clients \/ Accept
  BY DEF TypeOK, main, Ready, ReadKey, ReadEnd, SendCommand, Wake, CloseConn
<1>2. /\ UNCHANGED <<program, held, robot, history>>
      /\ arduino' \in Keys \cup {None} /\ command' \in Keys \cup {None}
  <2>1. CASE ReadKey
    BY <1>1, <2>1 DEF TypeOK, ReadKey, Accept
  <2>2. CASE SendCommand
    BY <2>2 DEF TypeOK, SendCommand
  <2>3. CASE Accept \/ Ready \/ ReadEnd \/ Wake \/ CloseConn
    BY <2>3 DEF TypeOK, Accept, Ready, ReadEnd, Wake, CloseConn
  <2> QED
    BY <2>1, <2>2, <2>3 DEF main
<1>3. toClient' \in [Clients -> Nat] /\ toPi' \in [Clients -> Seq(Keys)]
      /\ backlog' \in Seq(Clients)
  <2>1. CASE ReadKey
    BY <1>1, <2>1 DEF TypeOK, ReadKey, Accept
  <2>2. CASE Accept
    BY <2>2 DEF TypeOK, Accept
  <2>3. CASE Ready
    BY <1>1, <2>3 DEF TypeOK, Ready, Accept
  <2>4. CASE ReadEnd \/ SendCommand \/ Wake \/ CloseConn
    BY <2>4 DEF TypeOK, net, ReadEnd, SendCommand, Wake, CloseConn
  <2> QED
    BY <2>1, <2>2, <2>3, <2>4 DEF main
<1>4. /\ pi' \in {"accept", "ready", "read", "command", "sleep", "close"}
      /\ conn' \in Clients \cup {NoConn}
      /\ conn' = NoConn <=> pi' = "accept"
  BY <1>1, TcpRelayAssumption
  DEF TypeOK, main, Accept, Ready, ReadKey, ReadEnd, SendCommand, Wake, CloseConn
<1> QED
  BY <1>2, <1>3, <1>4 DEF TypeOK, program, robot, history

LEMMA NextType == TypeOK /\ [Next]_vars => TypeOK'
<1> SUFFICES ASSUME TypeOK, [Next]_vars PROVE TypeOK'
  OBVIOUS
<1>1. CASE Handle
  BY <1>1, HandleType DEF TypeOK, Handle, program, net
<1>2. CASE RobotStep
  BY <1>2, RobotStepType DEF TypeOK, RobotStep, program, net, relay, history
<1>3. CASE UNCHANGED vars
  BY <1>3 DEF TypeOK, vars, program, net, relay, robot, history
<1> QED
  BY <1>1, <1>2, <1>3, ProgramType, MainType DEF Next

(* The streams, the backlog and the programs keep their types.              *)
THEOREM TypeCorrect == Spec => []TypeOK
<1> QED
  BY InitType, NextType, PTL DEF Spec

-----------------------------------------------------------------------------
(* Taking turns.                                                            *)

(* What of a client's stream and program the turns depend on. *)
Streams == \A c \in Clients : toClient[c] \in Nat /\ toPi[c] \in Seq(Keys)

LEMMA WaitingNat == Streams => \A c \in Clients : Waiting(c) \in Nat
<1> SUFFICES ASSUME Streams, NEW c \in Clients PROVE Waiting(c) \in Nat
  OBVIOUS
<1>1. toClient[c] \in Nat /\ Len(toPi[c]) \in Nat
  BY DEF Streams
<1> QED
  BY <1>1 DEF Waiting

LEMMA StreamsTyped == TypeOK => Streams
BY DEF TypeOK, Streams

(* A step that hands no byte over keeps the turns: it may only lose one with *)
(* the program that had it.                                                 *)
LEMMA QuietStep ==
  ASSUME TurnsInv, TypeOK',
         backlog' = backlog, conn' = conn,
         pi' = "read" <=> pi = "read",
         pi' \in {"ready", "command", "sleep"} => pi \in {"ready", "command", "sleep"},
         \A c \in Clients :
           /\ Waiting(c)' <= Waiting(c)
           /\ client'[c] = "away" <=> client[c] = "away"
           /\ Present(c)' => Present(c) /\ Waiting(c)' = Waiting(c)
  PROVE  TurnsInv'
<1>1. Streams /\ Streams'
  BY StreamsTyped DEF TurnsInv, TypeOK, Streams
<1>2. \A c \in Clients : Waiting(c) \in Nat /\ Waiting(c)' \in Nat
  BY <1>1, WaitingNat DEF Streams, Waiting
<1>3. TakeTurns'
  BY <1>2 DEF TurnsInv, TakeTurns
<1>4. ASSUME NEW c \in Clients
      PROVE  /\ client'[c] = "away" => ~InBacklog(c)' /\ conn' # c
             /\ client'[c] = "away" \/ InBacklog(c)' => Waiting(c)' = 0
             /\ InBacklog(c)' => conn' # c
             /\ conn' = c /\ pi' \in {"ready", "command", "sleep"} => Waiting(c)' = 0
  <2>1. InBacklog(c)' <=> InBacklog(c)
    BY DEF InBacklog
  <2> QED
    BY <1>2, <2>1 DEF TurnsInv
<1> QED
  BY <1>3, <1>4 DEF TurnsInv

(* A program that handles its byte, or ends, and an operator.               *)
LEMMA ProgramTurns ==
  ASSUME TurnsInv, TypeOK', NEW c \in Clients,
         \/ CloseWindow(c) \/ Kill(c) \/ Vanish(c) \/ work(c)
         \/ \E k \in Keys : Press(c, k)
  PROVE  TurnsInv'
<1>1. Streams /\ client \in [Clients -> {"away", "pump", "recv", "key", "pause", "gone", "lost"}]
      /\ toClient \in [Clients -> Nat] /\ toPi \in [Clients -> Seq(Keys)]
      /\ pumped \in [Clients -> Keys]
  BY DEF TurnsInv, TypeOK, Streams
<1>2. backlog' = backlog /\ conn' = conn /\ pi' = pi
  BY DEF net, relay, CloseWindow, Kill, Vanish, Press, work, Pump, Recv, SendKey, Pause
<1>3. CASE Recv(c)
  <2>1. /\ client[c] = "recv" /\ client' = [client EXCEPT ![c] = "key"]
        /\ toClient' = [toClient EXCEPT ![c] = @ - 1] /\ toPi' = toPi
    BY <1>3 DEF Recv, Goto
  <2>2. \A d \in Clients : Waiting(d)' = Waiting(d)
    BY <1>1, <2>1 DEF Waiting
  <2> QED
    BY <1>1, <1>2, <2>1, <2>2, WaitingNat, QuietStep DEF Present
<1>4. CASE SendKey(c)
  <2>1. /\ client[c] = "key" /\ client' = [client EXCEPT ![c] = "pause"]
        /\ toClient' = toClient /\ toPi' = [toPi EXCEPT ![c] = Append(@, pumped[c])]
    BY <1>4 DEF SendKey, Goto
  <2>2. Len(Append(toPi[c], pumped[c])) = Len(toPi[c]) + 1
    BY <1>1
  <2>3. \A d \in Clients : Waiting(d)' = Waiting(d)
    BY <1>1, <2>1, <2>2 DEF Waiting
  <2> QED
    BY <1>1, <1>2, <2>1, <2>3, WaitingNat, QuietStep DEF Present
<1>5. CASE Kill(c) \/ Vanish(c) \/ (Pause(c) /\ ~running[c])
  <2>1. PICK how \in {"gone", "lost"} :
          /\ client' = [client EXCEPT ![c] = how]
          /\ toClient' = toClient /\ toPi' = toPi
          /\ client[c] # "away"
    BY <1>5 DEF Kill, Vanish, Pause, Leave, Present, net
  <2>2. \A d \in Clients : Waiting(d)' <= Waiting(d) /\ (d # c => Waiting(d)' = Waiting(d))
    BY <1>1, <2>1 DEF Waiting, Streams
  <2> QED
    BY <1>1, <1>2, <2>1, <2>2, QuietStep DEF Present
<1>6. CASE \/ CloseWindow(c) \/ Pump(c) \/ (Pause(c) /\ running[c])
           \/ \E k \in Keys : Press(c, k)
  <2>1. /\ \/ client' = client
           \/ client[c] = "pump" /\ client' = [client EXCEPT ![c] = "recv"]
           \/ client[c] = "pause" /\ client' = [client EXCEPT ![c] = "pump"]
        /\ toClient' = toClient /\ toPi' = toPi
    BY <1>6 DEF CloseWindow, Pump, Pause, Press, Goto, net, program
  <2>2. \A d \in Clients : Waiting(d)' = Waiting(d)
    BY <1>1, <2>1 DEF Waiting
  <2> QED
    BY <1>1, <1>2, <2>1, <2>2, WaitingNat, QuietStep DEF Present
<1> QED
  BY <1>3, <1>4, <1>5, <1>6 DEF work

(* A client joins the end of the backlog with nothing under way.            *)
LEMMA ConnectTurns ==
  ASSUME TurnsInv, TypeOK', NEW c \in Clients, Connect(c)
  PROVE  TurnsInv'
<1>1. /\ client[c] = "away" /\ client' = [client EXCEPT ![c] = "pump"]
      /\ backlog' = Append(backlog, c) /\ UNCHANGED <<toClient, toPi, pi, conn>>
  BY DEF Connect, relay
<1>2. client \in [Clients -> {"away", "pump", "recv", "key", "pause", "gone", "lost"}]
      /\ backlog \in Seq(Clients) /\ conn \in Clients \cup {NoConn}
  BY DEF TurnsInv, TypeOK
<1>3. \A d \in Clients : Waiting(d)' = Waiting(d)
  BY <1>1, <1>2 DEF Waiting
<1>4. ~InBacklog(c) /\ conn # c /\ Waiting(c) = 0
  BY <1>1 DEF TurnsInv
<1>5. \A d \in Clients : InBacklog(d)' <=> InBacklog(d) \/ d = c
  <2>1. /\ Len(backlog') = Len(backlog) + 1 /\ backlog'[Len(backlog) + 1] = c
        /\ \A i \in 1 .. Len(backlog) : backlog'[i] = backlog[i]
    BY <1>1, <1>2
  <2>2. Len(backlog) \in Nat
    BY <1>2
  <2> QED
    BY <2>1, <2>2 DEF InBacklog
<1>6. (\A i, j \in 1 .. Len(backlog) : backlog[i] = backlog[j] => i = j)'
  <2>1. /\ Len(backlog') = Len(backlog) + 1 /\ backlog'[Len(backlog) + 1] = c
        /\ \A i \in 1 .. Len(backlog) : backlog'[i] = backlog[i] /\ backlog'[i] # c
    BY <1>1, <1>2, <1>4 DEF InBacklog
  <2>2. Len(backlog) \in Nat
    BY <1>2
  <2> QED
    BY <2>1, <2>2 DEF TurnsInv
<1>7. TakeTurns'
  BY <1>1, <1>2, <1>3, <1>4 DEF TurnsInv, TakeTurns, Present
<1> QED
  BY <1>1, <1>2, <1>3, <1>4, <1>5, <1>6, <1>7 DEF TurnsInv

(* The Pi takes the first of the backlog. *)
LEMMA AcceptTurns ==
  ASSUME TurnsInv, TypeOK', Accept
  PROVE  TurnsInv'
<1>1. /\ backlog # <<>> /\ conn' = Head(backlog) /\ backlog' = Tail(backlog)
      /\ pi = "accept" /\ pi' = "ready" /\ UNCHANGED <<client, toClient, toPi>>
  BY DEF Accept, program
<1>2. backlog \in Seq(Clients) /\ conn = NoConn
  BY <1>1 DEF TurnsInv, TypeOK
<1>3. \A d \in Clients : Waiting(d)' = Waiting(d) /\ Present(d)' = Present(d)
  BY <1>1 DEF Waiting, Present
<1>4. /\ Len(backlog) \in Nat \ {0} /\ conn' = backlog[1] /\ Len(backlog') = Len(backlog) - 1
      /\ \A i \in 1 .. Len(backlog') : backlog'[i] = backlog[i + 1]
  BY <1>1, <1>2
<1>5. \A i, j \in 1 .. Len(backlog) : backlog[i] = backlog[j] => i = j
  BY DEF TurnsInv
<1>6. (\A i, j \in 1 .. Len(backlog) : backlog[i] = backlog[j] => i = j)'
  <2> SUFFICES ASSUME NEW i \in 1 .. Len(backlog'), NEW j \in 1 .. Len(backlog'),
                      backlog'[i] = backlog'[j]
               PROVE  i = j
    OBVIOUS
  <2>1. /\ i + 1 \in 1 .. Len(backlog) /\ j + 1 \in 1 .. Len(backlog)
        /\ backlog[i + 1] = backlog[j + 1]
    BY <1>4
  <2> QED
    BY <1>5, <2>1
<1>7. \A d \in Clients : InBacklog(d)' => InBacklog(d) /\ conn' # d
  <2> SUFFICES ASSUME NEW d \in Clients, NEW i \in 1 .. Len(backlog'), backlog'[i] = d
               PROVE  InBacklog(d) /\ conn' # d
    BY DEF InBacklog
  <2>1. i + 1 \in 1 .. Len(backlog) /\ backlog[i + 1] = d /\ 1 \in 1 .. Len(backlog)
        /\ i + 1 # 1
    BY <1>4
  <2> QED
    BY <1>4, <1>5, <2>1 DEF InBacklog
<1>8. InBacklog(conn') /\ conn' \in Clients
  BY <1>1, <1>2, <1>4 DEF InBacklog
<1>9. client[conn'] # "away" /\ Waiting(conn') = 0
  BY <1>8 DEF TurnsInv
<1>10. TakeTurns'
  BY <1>1, <1>3 DEF TurnsInv, TakeTurns
<1> QED
  BY <1>1, <1>3, <1>6, <1>7, <1>9, <1>10 DEF TurnsInv

(* The Pi hands the turn over, and takes it back. *)
LEMMA ReadyTurns ==
  ASSUME TurnsInv, TypeOK', Ready
  PROVE  TurnsInv'
<1>1. /\ pi = "ready" /\ pi' = "read" /\ toClient' = [toClient EXCEPT ![conn] = @ + 1]
      /\ UNCHANGED <<client, toPi, backlog, conn>>
  BY DEF Ready, program
<1>2. /\ conn \in Clients /\ toClient \in [Clients -> Nat]
      /\ \A d \in Clients : Waiting(d) \in Nat
  BY <1>1, StreamsTyped, WaitingNat DEF TurnsInv, TypeOK
<1>3. Waiting(conn) = 0 /\ client[conn] # "away" /\ ~InBacklog(conn)
  BY <1>1, <1>2 DEF TurnsInv
<1>4. \A d \in Clients :
        /\ Waiting(d)' = (IF d = conn THEN 1 ELSE Waiting(d))
        /\ Present(d)' = Present(d) /\ InBacklog(d)' = InBacklog(d)
  <2>1. Waiting(conn)' = Waiting(conn) + 1
    <3>1. toClient'[conn] = toClient[conn] + 1 /\ Len(toPi[conn]) \in Nat
      BY <1>1, <1>2 DEF TurnsInv, TypeOK
    <3> QED
      BY <1>1, <1>2, <3>1 DEF Waiting
  <2>2. \A d \in Clients : d # conn => Waiting(d)' = Waiting(d)
    BY <1>1, <1>2 DEF Waiting
  <2> QED
    BY <1>1, <1>3, <2>1, <2>2 DEF Present, InBacklog
<1>5. TakeTurns'
  BY <1>1, <1>2, <1>4 DEF TurnsInv, TakeTurns
<1> QED
  BY <1>1, <1>2, <1>3, <1>4, <1>5 DEF TurnsInv

LEMMA ReadKeyTurns ==
  ASSUME TurnsInv, TypeOK', ReadKey
  PROVE  TurnsInv'
<1>1. /\ pi = "read" /\ pi' = "command" /\ toPi[conn] # <<>>
      /\ toPi' = [toPi EXCEPT ![conn] = Tail(@)]
      /\ UNCHANGED <<client, toClient, backlog, conn>>
  BY DEF ReadKey, program
<1>2. /\ conn \in Clients /\ toPi \in [Clients -> Seq(Keys)]
      /\ toClient \in [Clients -> Nat]
      /\ \A d \in Clients : Waiting(d) \in Nat
  BY <1>1, StreamsTyped, WaitingNat DEF TurnsInv, TypeOK
<1>3. Waiting(conn) <= 1
  BY <1>2 DEF TurnsInv, TakeTurns
<1>4. \A d \in Clients :
        /\ Waiting(d)' = (IF d = conn THEN 0 ELSE Waiting(d))
        /\ Present(d)' = Present(d) /\ InBacklog(d)' = InBacklog(d)
  <2>1. /\ Len(toPi[conn]) \in Nat \ {0} /\ toPi'[conn] = Tail(toPi[conn])
        /\ Len(toPi'[conn]) = Len(toPi[conn]) - 1
    BY <1>1, <1>2
  <2>2. Waiting(conn)' = 0
    <3>1. toClient[conn] \in Nat
      BY <1>2
    <3> QED
      BY <1>1, <1>3, <2>1, <3>1 DEF Waiting
  <2>3. \A d \in Clients : d # conn => Waiting(d)' = Waiting(d)
    BY <1>1, <1>2 DEF Waiting
  <2> QED
    BY <1>1, <2>2, <2>3 DEF Present, InBacklog
<1>5. TakeTurns'
  BY <1>1, <1>2, <1>4 DEF TurnsInv, TakeTurns
<1> QED
  BY <1>1, <1>2, <1>4, <1>5 DEF TurnsInv

(* Steps of the Pi that leave the streams alone, or the connection of a     *)
(* client that is gone.                                                     *)
LEMMA PiTurns ==
  ASSUME TurnsInv, TypeOK', ReadEnd \/ SendCommand \/ Wake \/ CloseConn
  PROVE  TurnsInv'
<1>1. UNCHANGED <<client, toClient, toPi, backlog>>
  BY DEF ReadEnd, SendCommand, Wake, CloseConn, program, net
<1>2. \A d \in Clients :
        /\ Waiting(d)' = Waiting(d)
        /\ Present(d)' <=> Present(d)
        /\ InBacklog(d)' <=> InBacklog(d)
  BY <1>1 DEF Waiting, Present, InBacklog
<1>3. CASE ReadEnd
  <2>1. pi = "read" /\ pi' = "close" /\ conn' = conn /\ client[conn] = "gone"
    BY <1>3 DEF ReadEnd
  <2>2. ~Present(conn)
    BY <2>1 DEF Present
  <2>3. TakeTurns'
    BY <1>2, <2>1, <2>2 DEF TurnsInv, TakeTurns
  <2> QED
    BY <1>1, <1>2, <2>1, <2>3 DEF TurnsInv
<1>4. CASE SendCommand \/ Wake
  <2>1. /\ pi \in {"command", "sleep"} /\ pi' \in {"sleep", "ready"} /\ conn' = conn
    BY <1>4 DEF SendCommand, Wake
  <2>2. TakeTurns'
    BY <1>2, <2>1 DEF TurnsInv, TakeTurns
  <2> QED
    BY <1>1, <1>2, <2>1, <2>2 DEF TurnsInv
<1>5. CASE CloseConn
  <2>1. pi = "close" /\ pi' = "accept" /\ conn' = NoConn
    BY <1>5 DEF CloseConn
  <2>2. \A d \in Clients : conn' # d
    BY <2>1, TcpRelayAssumption
  <2>3. TakeTurns'
    BY <1>2, <2>1, <2>2 DEF TurnsInv, TakeTurns
  <2> QED
    BY <1>1, <1>2, <2>1, <2>2, <2>3 DEF TurnsInv
<1> QED
  BY <1>3, <1>4, <1>5

LEMMA InitTurns == Init => TurnsInv
<1> SUFFICES ASSUME Init PROVE TurnsInv
  OBVIOUS
<1>1. /\ pi = "accept" /\ conn = NoConn /\ backlog = <<>>
      /\ \A d \in Clients : client[d] = "away" /\ toClient[d] = 0 /\ toPi[d] = <<>>
  BY DEF Init
<1>2. \A d \in Clients : Waiting(d) = 0 /\ ~Present(d) /\ conn # d
  <2>1. Len(<<>>) = 0
    OBVIOUS
  <2>2. \A d \in Clients : Len(toPi[d]) = 0 /\ client[d] = "away" /\ toClient[d] = 0
    BY <1>1, <2>1
  <2>3. ASSUME NEW d \in Clients PROVE Waiting(d) = 0
    <3>1. toClient[d] = 0 /\ Len(toPi[d]) = 0 /\ client[d] # "key"
      BY <2>2
    <3> QED
      BY <3>1 DEF Waiting
  <2> QED
    BY <1>1, <2>2, <2>3, TcpRelayAssumption DEF Present
<1>3. Len(backlog) = 0 /\ \A d \in Clients : ~InBacklog(d)
  BY <1>1 DEF InBacklog
<1>4. TypeOK
  BY InitType
<1>5. TakeTurns
  BY <1>2 DEF TakeTurns
<1> QED
  BY <1>1, <1>2, <1>3, <1>4, <1>5 DEF TurnsInv

LEMMA NextTurns == TurnsInv /\ [Next]_vars => TurnsInv'
<1> SUFFICES ASSUME TurnsInv, [Next]_vars PROVE TurnsInv'
  OBVIOUS
<1>1. TypeOK'
  BY NextType DEF TurnsInv
<1>2. CASE Handle \/ RobotStep \/ UNCHANGED vars
  <2>1. UNCHANGED <<client, toClient, toPi, backlog, pi, conn>>
    BY <1>2 DEF Handle, RobotStep, vars, program, net, relay
  <2>2. \A d \in Clients :
          /\ Waiting(d)' = Waiting(d)
          /\ Present(d)' <=> Present(d)
          /\ InBacklog(d)' <=> InBacklog(d)
    BY <2>1 DEF Waiting, Present, InBacklog
  <2>3. TakeTurns'
    BY <2>1, <2>2 DEF TurnsInv, TakeTurns
  <2> QED
    BY <1>1, <2>1, <2>2, <2>3 DEF TurnsInv
<1>3. CASE main
  BY <1>1, <1>3, AcceptTurns, ReadyTurns, ReadKeyTurns, PiTurns DEF main
<1>4. CASE \E c \in Clients :
             \/ Connect(c) \/ CloseWindow(c) \/ Kill(c) \/ Vanish(c)
             \/ \E k \in Keys : Press(c, k)
             \/ work(c)
  BY <1>1, <1>4, ConnectTurns, ProgramTurns
<1> QED
  BY <1>2, <1>3, <1>4 DEF Next

(* The invariant the turns rest on, for any number of clients.              *)
THEOREM Invariance == Spec => []TurnsInv
<1> QED
  BY InitTurns, NextTurns, PTL DEF Spec

(* The Pi and the client it serves take turns, through backlogs, clients    *)
(* that end and clients that vanish.                                        *)
THEOREM TurnsAreTaken == Spec => []TakeTurns
<1>1. TurnsInv => TakeTurns
  BY DEF TurnsInv
<1> QED
  BY <1>1, Invariance, PTL

(* main() of the Pi is not ended by SIGPIPE, whenever clients end.          *)
THEOREM PipeIsWhole == Spec => []NoBrokenPipe
<1>1. TurnsInv => NoBrokenPipe
  <2> SUFFICES ASSUME TurnsInv, pi = "ready", client[conn] = "gone"
               PROVE  toClient[conn] = 0
    BY DEF NoBrokenPipe
  <2>1. conn \in Clients /\ toClient[conn] \in Nat /\ toPi[conn] \in Seq(Keys)
    BY DEF TurnsInv, TypeOK
  <2>2. Waiting(conn) = 0 /\ Len(toPi[conn]) \in Nat
    BY <2>1 DEF TurnsInv
  <2> QED
    BY <2>1, <2>2 DEF Waiting
<1> QED
  BY <1>1, Invariance, PTL

-----------------------------------------------------------------------------
(* What the robot is told.                                                  *)

LEMMA InitLooked == Init => LookedInv
BY DEF Init, LookedInv

(* A program looks at the keyboard before it waits for its turn.            *)
LEMMA NextLooked ==
  ASSUME TypeOK, LookedInv, [Next]_vars
  PROVE  LookedInv'
<1>1. /\ client \in [Clients -> {"away", "pump", "recv", "key", "pause", "gone", "lost"}]
      /\ recent \in [Clients -> BOOLEAN]
  BY DEF TypeOK
<1>2. CASE UNCHANGED <<client, recent>>
  BY <1>2 DEF LookedInv
<1>3. ASSUME NEW c \in Clients, NEW k \in Keys, Press(c, k)
      PROVE  LookedInv'
  <2>1. client' = client /\ recent' = [recent EXCEPT ![c] = @ \/ k = pumped[c]]
    BY <1>3 DEF Press, program
  <2>2. \A d \in Clients : recent[d] => recent'[d]
    BY <1>1, <2>1
  <2> QED
    BY <2>1, <2>2 DEF LookedInv
<1>4. ASSUME NEW c \in Clients, Kill(c) \/ Vanish(c) \/ (Pause(c) /\ ~running[c])
      PROVE  LookedInv'
  <2>1. PICK how \in {"gone", "lost"} :
          client' = [client EXCEPT ![c] = how] /\ recent' = [recent EXCEPT ![c] = TRUE]
    BY <1>4 DEF Kill, Vanish, Pause, Leave
  <2> QED
    BY <1>1, <2>1 DEF LookedInv
<1>5. ASSUME NEW c \in Clients, Pump(c)
      PROVE  LookedInv'
  <2>1. client' = [client EXCEPT ![c] = "recv"] /\ recent' = [recent EXCEPT ![c] = TRUE]
    BY <1>5 DEF Pump, Goto
  <2> QED
    BY <1>1, <2>1 DEF LookedInv
<1>6. ASSUME NEW c \in Clients, Recv(c)
      PROVE  LookedInv'
  <2>1. client[c] = "recv" /\ client' = [client EXCEPT ![c] = "key"] /\ recent' = recent
    BY <1>6 DEF Recv, Goto, history
  <2> QED
    BY <1>1, <2>1 DEF LookedInv
<1>7. ASSUME NEW c \in Clients, SendKey(c)
      PROVE  LookedInv'
  <2>1. /\ client' = [client EXCEPT ![c] = "pause"]
        /\ \A d \in Clients : d # c => recent'[d] = recent[d]
    BY <1>1, <1>7 DEF SendKey, Goto
  <2> QED
    BY <1>1, <2>1 DEF LookedInv
<1>8. ASSUME NEW c \in Clients, Pause(c) /\ running[c]
      PROVE  LookedInv'
  <2>1. client' = [client EXCEPT ![c] = "pump"] /\ recent' = recent
    BY <1>8 DEF Pause, Goto
  <2> QED
    BY <1>1, <2>1 DEF LookedInv
<1>9. ASSUME NEW c \in Clients, Connect(c)
      PROVE  LookedInv'
  <2>1. client' = [client EXCEPT ![c] = "pump"] /\ recent' = recent
    BY <1>9 DEF Connect, history
  <2> QED
    BY <1>1, <2>1 DEF LookedInv
<1>10. ASSUME NEW c \in Clients, CloseWindow(c)
       PROVE  LookedInv'
  BY <1>2, <1>10 DEF CloseWindow, history
<1>11. CASE main \/ Handle \/ RobotStep \/ UNCHANGED vars
  <2>1. UNCHANGED <<client, recent>>
    BY <1>11 DEF main, Accept, Ready, ReadKey, ReadEnd, SendCommand, Wake, CloseConn,
                 Handle, RobotStep, vars, program, history
  <2> QED
    BY <1>2, <2>1
<1> QED
  BY <1>3, <1>4, <1>5, <1>6, <1>7, <1>8, <1>9, <1>10, <1>11 DEF Next, work

(* Only SendKey() makes a stream to the Pi longer.                          *)
LEMMA KeyIsLooked ==
  ASSUME TypeOK, LookedInv, [Next]_vars,
         NEW c \in Clients, toPi'[c] = Append(toPi[c], pumped[c])
  PROVE  recent[c]
<1>1. toPi \in [Clients -> Seq(Keys)] /\ pumped[c] \in Keys /\ toPi[c] \in Seq(Keys)
  BY DEF TypeOK
<1>2. Len(toPi'[c]) = Len(toPi[c]) + 1 /\ Len(toPi[c]) \in Nat
  BY <1>1
<1>3. toPi'[c] # toPi[c]
  BY <1>2
<1>4. ~ReadKey
  <2> SUFFICES ASSUME ReadKey PROVE FALSE
    OBVIOUS
  <2>1. toPi' = [toPi EXCEPT ![conn] = Tail(toPi[conn])] /\ toPi[conn] # <<>>
    BY DEF ReadKey
  <2>2. CASE c = conn
    <3>1. toPi'[c] = Tail(toPi[c]) /\ toPi[c] # <<>>
      BY <1>1, <2>1, <2>2
    <3>2. Len(toPi'[c]) = Len(toPi[c]) - 1
      BY <1>1, <3>1
    <3> QED
      BY <1>2, <3>2
  <2>3. CASE c # conn
    BY <1>1, <1>3, <2>1, <2>3
  <2> QED
    BY <2>2, <2>3
<1>5. PICK d \in Clients : SendKey(d)
  BY <1>3, <1>4 DEF Next, Connect, CloseWindow, Kill, Vanish, Press, work, Pump, Recv, Pause,
       main, Accept, Ready, ReadEnd, SendCommand, Wake, CloseConn, Handle, RobotStep,
       vars, net
<1>6. d = c
  BY <1>1, <1>3, <1>5 DEF SendKey
<1> QED
  BY <1>5, <1>6 DEF SendKey, LookedInv

(* A key that goes to the Pi was held after the last one went: the robot is *)
(* never told of a key that was let go two commands ago.                    *)
THEOREM KeysAreFresh == Spec => KeysAreRecent
<1>1. TypeOK /\ LookedInv /\ [Next]_vars => LookedInv'
  BY NextLooked
<1>2. TypeOK /\ LookedInv /\ [Next]_vars
        => [\A c \in Clients : toPi'[c] = Append(toPi[c], pumped[c]) => recent[c]]_vars
  BY KeyIsLooked
<1> QED
  BY <1>1, <1>2, InitLooked, TypeCorrect, PTL DEF Spec, KeysAreRecent

LEMMA InitTold == Init => OneCommand /\ HeadsAsTold
BY DEF Init, R!Init, OneCommand, HeadsAsTold

LEMMA NextTold ==
  ASSUME OneCommand, HeadsAsTold, [Next]_vars
  PROVE  OneCommand' /\ HeadsAsTold'
<1>1. CASE UNCHANGED <<pi, command, arduino, heading, obeyed>>
  BY <1>1 DEF OneCommand, HeadsAsTold
<1>2. CASE Handle
  BY <1>2 DEF Handle, R!Move, R!Turn, R!Halt, OneCommand, HeadsAsTold
<1>3. CASE RobotStep
  <2>1. heading' \in {heading, "STOP"}
    BY <1>3 DEF RobotStep, R!ByItself, R!MoveEnds, R!TurnEnds, R!Settle
  <2> QED
    BY <1>3, <2>1 DEF RobotStep, relay, history, OneCommand, HeadsAsTold
<1>4. CASE main
  <2>1. UNCHANGED <<heading, obeyed>>
    BY <1>4 DEF main, Accept, Ready, ReadKey, ReadEnd, SendCommand, Wake, CloseConn,
                robot, history
  <2>2. OneCommand'
    BY <1>4 DEF main, Accept, Ready, ReadKey, ReadEnd, SendCommand, Wake, CloseConn, OneCommand
  <2> QED
    BY <2>1, <2>2 DEF HeadsAsTold
<1>5. CASE \E c \in Clients :
             \/ Connect(c) \/ CloseWindow(c) \/ Kill(c) \/ Vanish(c)
             \/ \E k \in Keys : Press(c, k)
             \/ work(c)
  <2>1. UNCHANGED <<pi, command, arduino, heading, obeyed>>
    BY <1>5 DEF Connect, CloseWindow, Kill, Vanish, Press, work, Pump, Recv, SendKey, Pause,
                relay, robot, history
  <2> QED
    BY <1>1, <2>1
<1>6. CASE UNCHANGED vars
  BY <1>1, <1>6 DEF vars, relay, robot, history
<1> QED
  BY <1>2, <1>3, <1>4, <1>5, <1>6 DEF Next

(* The Pi never has two commands under way, whatever clients do, so the     *)
(* key of a client that has left is handled before the next is served.      *)
THEOREM OneAtATime == Spec => []OneCommand
<1>1. OneCommand /\ HeadsAsTold /\ [Next]_vars => (OneCommand /\ HeadsAsTold)'
  BY NextTold
<1> QED
  BY <1>1, InitTold, PTL DEF Spec

(* The robot heads where the last command sent it, or it has stopped.       *)
THEOREM RobotIsTold == Spec => []HeadsAsTold
<1>1. OneCommand /\ HeadsAsTold /\ [Next]_vars => (OneCommand /\ HeadsAsTold)'
  BY NextTold
<1> QED
  BY <1>1, InitTold, PTL DEF Spec
===============================================================================
