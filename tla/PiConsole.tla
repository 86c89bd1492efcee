------------------------------- MODULE PiConsole --------------------------------
(***************************************************************************)
(* The programs that take Alex's commands from a keyboard: the prompt of   *)
(* the Pi's first program (alex-pi-original.cpp), the same prompt in the   *)
(* TLS client (tls-alex-client.cpp), and the Pi's program that acts on     *)
(* single keys (ncurses/alex-pi.cpp).  The operator types lines, ahead of  *)
(* the program if he likes; the program takes its input character by       *)
(* character with scanf() and getchar(), which wait when there is none.    *)
(*                                                                         *)
(* A character is a letter, a whole number, the end of a line or the end   *)
(* of the input, which is met again at every read.  Blanks between the     *)
(* numbers are left out: scanf() skips them as it does ends of lines.      *)
(***************************************************************************)
EXTENDS Naturals, SequencesExt

CONSTANTS
  Letters, Numbers,  (* what the operator may type                          *)
  MaxLines,          (* bound: lines in a behaviour                         *)
  MaxSent            (* bound: packets in a behaviour                       *)

(* No letter or number is the end of a line, the end of the input, or what  *)
(* a variable holds before it is read.                                      *)
ASSUME KeyboardAssumption ==
  /\ Letters \cap Numbers = {}
  /\ {"newline", "eof", "unset"} \cap (Letters \cup Numbers) = {}

ASSUME PiConsoleAssumption == MaxLines \in Nat /\ MaxSent \in Nat

VARIABLES
  program,  (* which of the programs this is                                *)
  stdin,    (* characters typed and not yet read                            *)
  pc,       (* the read the program is at                                   *)
  ch,       (* the last command character read                              *)
  params,   (* the numbers getParams() has got so far                       *)
  sent,     (* packets sent                                                 *)
  lines,    (* lines typed so far                                           *)
  (* History.  A dialogue begins with the line typed when the program waits *)
  (* for a command.                                                         *)
  orderly,  (* the lines of the dialogue are what the program asks for      *)
  wanted,   (* what the next line is typed for                              *)
  meant,    (* packets the dialogue asks for                                *)
  base,     (* packets sent before it                                       *)
  stopping  (* the last line is a stop, typed at the prompt for a command   *)

reading == <<pc, ch, params>>
history == <<orderly, wanted, meant, base, stopping>>
consoleVars == <<program, stdin, reading, sent, lines, history>>

Programs == {"prompt", "client", "curses"}

(* Lines of at most two words, one of them a number. *)
Words == Letters \cup Numbers
Lines == {<< >>} \cup {<<w>> : w \in Words}
           \cup {<<v, w>> : v \in Words, w \in Numbers}
           \cup {<<v, w>> : v \in Numbers, w \in Words}

NoParams == <<"unset", "unset">>
Packet(command, p) == [command |-> command, params |-> p]

Moves == {"FORWARD", "REVERSE", "TURN_LEFT", "TURN_RIGHT"}

-----------------------------------------------------------------------------
(* The meaning of a character: a command, "QUIT" or "BAD". *)

sendCommand_original(c) ==
  CASE c \in {"f", "F"} -> "FORWARD"
    [] c \in {"b", "B"} -> "REVERSE"
    [] c \in {"l", "L"} -> "TURN_LEFT"
    [] c \in {"r", "R"} -> "TURN_RIGHT"
    [] c \in {"s", "S"} -> "STOP"
    [] c \in {"c", "C"} -> "CLEAR_STATS"
    [] c \in {"g", "G"} -> "GET_STATS"
    [] c \in {"q", "Q"} -> "QUIT"
    [] OTHER -> "BAD"

(* There is no key for STOP, and s is REVERSE. *)
sendCommand_curses(c) ==
  CASE c \in {"w", "W"} -> "FORWARD"
    [] c \in {"s", "S"} -> "REVERSE"
    [] c \in {"a", "A"} -> "TURN_LEFT"
    [] c \in {"d", "D"} -> "TURN_RIGHT"
    [] c \in {"c", "C"} -> "CLEAR_STATS"
    [] c \in {"g", "G"} -> "GET_STATS"
    [] c \in {"q", "Q"} -> "QUIT"
    [] OTHER -> "BAD"

(* The client sends the character; the server's switch gives it the meaning *)
(* it has in the first program.                                             *)
Meaning(c) == IF program = "curses" THEN sendCommand_curses(c) ELSE sendCommand_original(c)

(* What getParams() of the curses program sets. *)
getParams_curses == <<"5", "100">>

-----------------------------------------------------------------------------
(* The operator, and what he means. *)

ConsoleInit ==
  /\ program \in Programs
  /\ stdin = << >> /\ sent = << >> /\ lines = 0
  /\ pc = (IF program = "client" THEN "command" ELSE "start")
  /\ ch = "unset" /\ params = << >>
  /\ orderly = TRUE /\ wanted = "command" /\ meant = << >>
  /\ base = (IF program = "client" THEN 0 ELSE 1)
  /\ stopping = FALSE

(* The program waits for a command and has read everything. *)
Waiting == pc = "command" /\ stdin = << >>

(* The dialogue an operator's line belongs to, before that line. *)
Talk == IF Waiting
        THEN [orderly |-> TRUE, wanted |-> "command", meant |-> << >>, base |-> Len(sent)]
        ELSE [orderly |-> orderly, wanted |-> wanted, meant |-> meant, base |-> base]

(* The packet of a command that needs no numbers from the operator. *)
Immediate(m) ==
  IF m \in {"BAD", "QUIT"} THEN << >>
  ELSE <<Packet(m, IF m \in Moves THEN getParams_curses ELSE NoParams)>>

(* In the curses program every character of a line is a command, up to q. *)
AsKey(c, t) ==
  LET m == Meaning(c)
  IN  IF t.wanted = "ended" THEN t
      ELSE [t EXCEPT !.meant = @ \o Immediate(m),
                     !.wanted = IF m = "QUIT" THEN "ended" ELSE @]

AsKeys(line, t) ==
  IF line = << >> THEN t
  ELSE IF Len(line) = 1 THEN AsKey(line[1], t)
  ELSE AsKey(line[2], AsKey(line[1], t))

(* At the prompt the first character of a line is a command, and an empty   *)
(* line is not what is asked for.                                           *)
AsCommand(line, t) ==
  IF line = << >> THEN [t EXCEPT !.orderly = FALSE]
  ELSE LET m == Meaning(line[1])
       IN  IF m = "BAD" THEN t
           ELSE IF m = "QUIT" THEN [t EXCEPT !.wanted = "ended"]
           ELSE IF m \in Moves THEN [t EXCEPT !.wanted = m]
           ELSE [t EXCEPT !.meant = @ \o Immediate(m)]

(* After a move two numbers are asked for, and an empty line is no matter. *)
AsParams(line, t) ==
  IF line = << >> THEN t
  ELSE IF Len(line) = 2 /\ {line[1], line[2]} \subseteq Numbers
  THEN [t EXCEPT !.meant = Append(@, Packet(t.wanted, line)), !.wanted = "command"]
  ELSE [t EXCEPT !.orderly = FALSE]

Understood(line, t) ==
  IF t.wanted = "ended" THEN t
  ELSE IF program = "curses" THEN AsKeys(line, t)
  ELSE IF t.wanted = "command" THEN AsCommand(line, t)
  ELSE AsParams(line, t)

NoMoreToType == \E i \in 1 .. Len(stdin) : stdin[i] = "eof"

TypeLine(line) ==
  /\ lines < MaxLines /\ ~NoMoreToType
  /\ lines' = lines + 1
  /\ stdin' = stdin \o line \o <<"newline">>
  /\ LET t == Understood(line, Talk)
     IN  /\ orderly' = t.orderly /\ wanted' = t.wanted
         /\ meant' = t.meant /\ base' = t.base
  /\ stopping' = (line = <<"s">> /\ stdin = << >> /\ pc \in {"command", "flush"})
  /\ UNCHANGED <<program, reading, sent>>

(* The end of the input: Ctrl-D, or a terminal that is closed. *)
TypeEof ==
  /\ ~NoMoreToType
  /\ stdin' = Append(stdin, "eof")
  /\ orderly' = FALSE /\ stopping' = FALSE
  /\ UNCHANGED <<program, reading, sent, lines, wanted, meant, base>>

-----------------------------------------------------------------------------
(* The program. *)

SendPacket(packet) == Len(sent) < MaxSent /\ sent' = Append(sent, packet)

(* main() of the two programs of the Pi says hello. *)
SendHello ==
  /\ pc = "start" /\ pc' = "command"
  /\ SendPacket(Packet("HELLO", NoParams))
  /\ UNCHANGED <<program, stdin, ch, params, lines, history>>

(* scanf("%c", &ch): at the end of the input ch stays what it was.          *)
ReadCommand ==
  /\ pc = "command" /\ program # "curses" /\ stdin # << >>
  /\ IF Head(stdin) = "eof"
     THEN UNCHANGED <<stdin, ch>>
     ELSE stdin' = Tail(stdin) /\ ch' = Head(stdin)
  /\ pc' = "flush"
  /\ UNCHANGED <<program, params, sent, lines, history>>

(* A char that holds EOF equals it only where char is signed: on the        *)
(* operator's laptop, not on the Pi.                                        *)
SeesEof == program = "client"

(* Faulty variant: flushInput() leaves the end of the line to be read. *)
flushInput_short ==
  \/ /\ Head(stdin) \notin {"newline", "eof"}
     /\ stdin' = Tail(stdin) /\ pc' = pc
  \/ /\ Head(stdin) = "newline"
     /\ stdin' = stdin
     /\ pc' = (IF pc = "flush" THEN "act" ELSE "send")
  \/ /\ Head(stdin) = "eof" /\ SeesEof
     /\ stdin' = stdin
     /\ pc' = (IF pc = "flush" THEN "act" ELSE "send")

(* Faulty variant: one character is dropped, whatever it is. *)
flushInput_one ==
  \/ /\ Head(stdin) # "eof"
     /\ stdin' = Tail(stdin)
     /\ pc' = (IF pc = "flush" THEN "act" ELSE "send")
  \/ /\ Head(stdin) = "eof" /\ SeesEof
     /\ stdin' = stdin
     /\ pc' = (IF pc = "flush" THEN "act" ELSE "send")

(* flushInput(): characters are dropped up to the end of a line, which is   *)
(* dropped too.  At the end of the input it returns, or never does.         *)
flushInput ==
  \/ /\ Head(stdin) \notin {"newline", "eof"}
     /\ stdin' = Tail(stdin) /\ pc' = pc
  \/ /\ Head(stdin) = "newline"
     /\ stdin' = Tail(stdin)
     /\ pc' = (IF pc = "flush" THEN "act" ELSE "send")
  \/ /\ Head(stdin) = "eof" /\ SeesEof
     /\ stdin' = stdin
     /\ pc' = (IF pc = "flush" THEN "act" ELSE "send")

Flush ==
  /\ pc \in {"flush", "flushParams"} /\ stdin # << >>
  /\ flushInput
  /\ UNCHANGED <<program, ch, params, sent, lines, history>>

(* The switch on the command. *)
Act ==
  /\ pc = "act"
  /\ LET m == Meaning(ch)
     IN  \/ m \in Moves /\ pc' = "params" /\ params' = << >> /\ sent' = sent
         \/ m = "QUIT" /\ pc' = "ended" /\ UNCHANGED <<params, sent>>
         \/ m = "BAD" /\ pc' = "command" /\ UNCHANGED <<params, sent>>
         \/ m \notin Moves \cup {"QUIT", "BAD"} /\ pc' = "command"
              /\ SendPacket(Packet(m, NoParams)) /\ params' = params
  /\ UNCHANGED <<program, stdin, ch, lines, history>>

(* Faulty variant: scanf() is repeated until it has got both numbers. *)
getParamsRepeated ==
  /\ pc = "params" /\ stdin # << >>
  /\ \/ Head(stdin) = "newline" /\ stdin' = Tail(stdin) /\ UNCHANGED <<pc, params>>
     \/ /\ Head(stdin) \in Numbers
        /\ stdin' = Tail(stdin) /\ params' = Append(params, Head(stdin))
        /\ pc' = (IF Len(params) = 1 THEN "flushParams" ELSE pc)
  /\ UNCHANGED <<program, ch, sent, lines, history>>

(* getParams(): scanf("%d %d") skips ends of lines before a number, and is  *)
(* over at the second number or at what is no number; then the line is      *)
(* flushed.                                                                 *)
getParams ==
  /\ pc = "params" /\ stdin # << >>
  /\ \/ Head(stdin) = "newline" /\ stdin' = Tail(stdin) /\ UNCHANGED <<pc, params>>
     \/ /\ Head(stdin) \in Numbers
        /\ stdin' = Tail(stdin) /\ params' = Append(params, Head(stdin))
        /\ pc' = (IF Len(params) = 1 THEN "flushParams" ELSE pc)
     \/ /\ Head(stdin) \notin Numbers \cup {"newline"}
        /\ pc' = "flushParams" /\ UNCHANGED <<stdin, params>>
  /\ UNCHANGED <<program, ch, sent, lines, history>>

(* The move is sent with the numbers got, and for those not got with        *)
(* whatever the memory held.                                                *)
SendMove ==
  /\ pc = "send" /\ pc' = "command"
  /\ SendPacket(Packet(Meaning(ch), SubSeq(params \o NoParams, 1, 2)))
  /\ UNCHANGED <<program, stdin, ch, params, lines, history>>

(* The curses program: getch() and the switch.  At the end of the input     *)
(* getch() fails at once, again and again: a bad command each time.         *)
Key ==
  /\ program = "curses" /\ pc = "command" /\ stdin # << >> /\ Head(stdin) # "eof"
  /\ stdin' = Tail(stdin) /\ ch' = Head(stdin)
  /\ LET m == Meaning(Head(stdin))
     IN  \/ m = "QUIT" /\ pc' = "ended" /\ sent' = sent
         \/ m = "BAD" /\ UNCHANGED <<pc, sent>>
         \/ m \notin {"QUIT", "BAD"} /\ pc' = pc /\ SendPacket(Immediate(m)[1])
  /\ UNCHANGED <<program, params, lines, history>>

Operator == (\E line \in Lines : TypeLine(line)) \/ TypeEof
Program == SendHello \/ ReadCommand \/ Flush \/ Act \/ getParams \/ SendMove \/ Key

ConsoleNext == Operator \/ Program

(* The program runs on whenever it has something to read or to do. *)
ConsoleSpec == ConsoleInit /\ [][ConsoleNext]_consoleVars /\ WF_consoleVars(Program)

-----------------------------------------------------------------------------
(* Properties. *)

ConsoleTypeOK ==
  /\ program \in Programs
  /\ pc \in {"start", "command", "flush", "act", "params", "flushParams", "send", "ended"}
  /\ stdin \in Seq(Words \cup {"newline", "eof"})
  /\ ch \in Words \cup {"newline", "unset"}
  /\ params \in Seq(Numbers) /\ Len(params) <= 2
  /\ lines \in 0 .. MaxLines
  /\ Len(sent) <= MaxSent

(* Whatever was typed before: from a moment when the program waits for a    *)
(* command and has read everything, lines that are what it asks for make it *)
(* send exactly the commands they mean, in order, each move with its own    *)
(* two numbers, and nothing else, also when they are typed ahead of it.     *)
UnderstandsOrderly ==
  orderly /\ pc # "start" =>
    LET since == SubSeq(sent, base + 1, Len(sent))
    IN  /\ IsPrefix(since, meant)
        /\ Waiting => since = meant

(* A dialogue that says quit ends the program, whatever is typed after it.  *)
QuitEnds == (orderly /\ wanted = "ended") ~> (pc = "ended")

(* The program never stops reading, as long as the input has not ended: it  *)
(* always comes to wait for the operator again, or has ended.               *)
AllIsRead == [](stdin # << >> => <>(stdin = << >> \/ pc = "ended" \/ NoMoreToType))

(* A stop typed at the prompt of either program, when it has read all that  *)
(* was typed before and asks for a command, is the last packet sent when it *)
(* next waits for a command: the prompt says "s=stop", and the comment on   *)
(* flushInput() that it purges extraneous characters.                       *)
StopIsSent ==
  stopping /\ Waiting /\ program # "curses" =>
    sent # << >> /\ Last(sent).command = "STOP"
===============================================================================
