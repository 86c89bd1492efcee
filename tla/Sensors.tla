-------------------------------- MODULE Sensors --------------------------------
(***************************************************************************)
(* The sensor board: an Arduino UNO whose loop() measures the colour under *)
(* the robot and the distances around it, and whose SPI interrupt answers  *)
(* the Pi from the same array data[] while loop() writes it; and the       *)
(* program of the Pi that polls the board and prints a line of readings.   *)
(*                                                                         *)
(* data[0 .. NumSensors - 1] are the distances and data[NumSensors] is the *)
(* colour: data[4] of the code, which has four distance sensors.  data[5]  *)
(* to data[7] are written and never read, and are left out.  A store of    *)
(* one byte is atomic on an AVR.  A byte takes the Pi 2 ms or more, so the *)
(* interrupt is always over before the next one: a transfer's next byte    *)
(* waits for it here.                                                      *)
(***************************************************************************)
EXTENDS Integers, Sequences

CONSTANTS
  NumSensors,  (* distance sensors: 4 in the code                           *)
  Pulses,      (* low pulses of the colour sensor, in us; 0 is a time-out   *)
  Echoes,      (* echoes of the distance sensors, in us; 0 is a time-out    *)
  Floating,    (* what the Pi reads from a board that is not up             *)
  MaxResets    (* bound: restarts of the board                              *)

Byte == 0 .. 255
Filters == {"red", "green", "blue"}
Ranges == 0 .. NumSensors - 1
Colour == NumSensors
NumCells == NumSensors + 1

ASSUME SensorsAssumption ==
  /\ NumSensors \in 1 .. 254
  /\ Pulses \subseteq Nat /\ Pulses # {}
  /\ Echoes \subseteq Nat /\ Echoes # {}
  /\ Floating \subseteq Byte /\ Floating # {}
  /\ MaxResets \in Nat

VARIABLES
  pc,       (* where the board is: "reset", or where loop() is              *)
  i,        (* the distance sensor whose turn it is                         *)
  pulse,    (* last pulse of each filter                                    *)
  data,
  echo,     (* history: the echo data[k] was computed from                  *)
  SPDR,     (* the board's shift register                                   *)
  spif,     (* the interrupt of a byte is due                               *)
  pi,       (* where main() of the Pi is                                    *)
  message,  (* readings of the line main() is putting together              *)
  clean,    (* history: the board was up when the transfer under way began, *)
            (* and has been since                                           *)
  resets    (* restarts so far                                              *)

loopVars == <<pc, i, pulse>>
store    == <<data, echo>>
wire     == <<SPDR, spif>>
piVars   == <<pi, message, clean>>
vars     == <<loopVars, store, wire, piVars, resets>>

Up == pc # "reset"

Init ==
  /\ pc = "reset" /\ i = 0 /\ resets = 0
  /\ pulse = [f \in Filters |-> 0]
  /\ data = [k \in 0 .. Colour |-> 0]
  /\ echo = [k \in Ranges |-> 0]
  /\ SPDR = 0 /\ spif = FALSE
  /\ pi = "setup" /\ message = << >> /\ clean = FALSE

-----------------------------------------------------------------------------
(* Arithmetic of the board. *)

(* The int of 16 bits a pulse is assigned to. *)
Int16(p) == ((p + 32768) % 65536) - 32768

(* C's division, which truncates towards zero, by a positive divisor. *)
Div(a, b) == IF a >= 0 THEN a \div b ELSE -((-a) \div b)

(* The pulse at which the colour's scale of 255 .. 0 ends. *)
Limit == [red |-> 1400, green |-> 2300, blue |-> 3000]

(* map(x, 100, Limit, 255, 0). *)
Level(f, p) == Div((Int16(p) - 100) * (-255), Limit[f] - 100) + 255

Alike(x, y) == x - y <= 30 /\ y - x <= 30

(* Faulty variant: only red is looked at for black. *)
ClassifiedByRed(r, g, b) ==
  IF r < 0 THEN 0
  ELSE IF Alike(r, g) /\ Alike(r, b) /\ Alike(g, b) THEN 0
  ELSE IF r > g /\ r > b THEN 1
  ELSE IF g > r /\ g > b THEN 2
  ELSE 0

(* 0 is black, white or something else; 1 is red, 2 is green. *)
Classified(r, g, b) ==
  IF r < 0 \/ g < 0 \/ b < 0 THEN 0
  ELSE IF Alike(r, g) /\ Alike(r, b) /\ Alike(g, b) THEN 0
  ELSE IF r > g /\ r > b THEN 1
  ELSE IF g > r /\ g > b THEN 2
  ELSE 0

(* Faulty variant: the way to the obstacle and back. *)
ThereAndBack(e) == ((34 * e) \div 1000) % 256

(* Faulty variant: the distance keeps the width of the int. *)
DistanceAsInt(e) == (17 * e) \div 1000

(* duration * 0.034 / 2, truncated to an int and stored in an unsigned char. *)
Distance(e) == ((17 * e) \div 1000) % 256

-----------------------------------------------------------------------------
(* The board. *)

(* Power-up or the reset button. *)
Reset ==
  /\ resets < MaxResets /\ Up
  /\ resets' = resets + 1
  /\ pc' = "reset" /\ i' = 0
  /\ pulse' = [f \in Filters |-> 0]
  /\ data' = [k \in 0 .. Colour |-> 0]
  /\ echo' = [k \in Ranges |-> 0]
  /\ SPDR' = 0 /\ spif' = FALSE
  /\ clean' = FALSE
  /\ UNCHANGED <<pi, message>>

(* setup(): the pins, then the SPI slave and its interrupt. *)
setup ==
  /\ pc = "reset" /\ pc' = "red"
  /\ UNCHANGED <<i, pulse, store, wire, piVars, resets>>

(* One filter of color_check(): a pulse is timed, then 100 ms pass. *)
Measure(f, to) ==
  /\ pc = f /\ pc' = to
  /\ \E p \in Pulses : pulse' = [pulse EXCEPT ![f] = p]
  /\ UNCHANGED <<i, store, wire, piVars, resets>>

MeasureRed   == Measure("red", "green")
MeasureGreen == Measure("green", "blue")
MeasureBlue  == Measure("blue", "classify")

(* color_check() names the colour and stores it. *)
Classify ==
  /\ pc = "classify" /\ pc' = "range" /\ i' = 0
  /\ data' = [data EXCEPT ![Colour] =
                Classified(Level("red", pulse["red"]), Level("green", pulse["green"]),
                           Level("blue", pulse["blue"]))]
  /\ UNCHANGED <<pulse, echo, wire, piVars, resets>>

(* One turn of the loop of ultrasonicGetDistances(); after the last one     *)
(* loop() begins anew.                                                      *)
ultrasonicGetDistances ==
  /\ pc = "range"
  /\ \E e \in Echoes :
       /\ data' = [data EXCEPT ![i] = Distance(e)]
       /\ echo' = [echo EXCEPT ![i] = e]
  /\ IF i + 1 < NumSensors THEN pc' = pc /\ i' = i + 1 ELSE pc' = "red" /\ i' = 0
  /\ UNCHANGED <<pulse, wire, piVars, resets>>

(* Faulty variant: the case of the colour is missing. *)
AnswerRanges == IF SPDR \in 1 .. NumSensors THEN data[SPDR - 1] ELSE SPDR

(* The byte the interrupt leaves in SPDR: a byte that names no cell stays. *)
Answer == IF SPDR \in 1 .. NumCells THEN data[SPDR - 1] ELSE SPDR

SPI_STC_vect ==
  /\ spif /\ spif' = FALSE
  /\ SPDR' = Answer
  /\ UNCHANGED <<loopVars, store, piVars, resets>>

-----------------------------------------------------------------------------
(* The Pi. *)

(* wiringPiSPISetupMode() fails: main() returns ... *)
SetupFails ==
  /\ pi = "setup" /\ pi' = "ended"
  /\ UNCHANGED <<loopVars, store, wire, message, clean, resets>>

(* ... or succeeds. *)
SetupSucceeds ==
  /\ pi = "setup" /\ pi' = "number"
  /\ UNCHANGED <<loopVars, store, wire, message, clean, resets>>

(* The wires carry b to the board while what was in SPDR comes back; a      *)
(* board that is not up lets the line float.                                *)
Exchange(b) ==
  /\ ~spif
  /\ IF Up THEN SPDR' = b /\ spif' = TRUE ELSE UNCHANGED wire
  /\ UNCHANGED <<loopVars, store, resets>>

Received == IF Up THEN {SPDR} ELSE Floating

(* The first byte of a transfer is the number of a cell, from 1.  What      *)
(* comes back with it is not looked at.                                     *)
SendNumber ==
  /\ pi = "number" /\ Len(message) < NumCells
  /\ Exchange(Len(message) + 1)
  /\ pi' = "value" /\ clean' = Up
  /\ message' = message

(* The second byte is 0; the reading comes back with it. *)
ReadValue ==
  /\ pi = "value"
  /\ Exchange(0)
  /\ \E v \in Received : message' = Append(message, v)
  /\ pi' = "number" /\ clean' = clean

(* A full line is printed and stays on the screen for a second. *)
PrintLine ==
  /\ pi = "number" /\ Len(message) = NumCells
  /\ pi' = "printed"
  /\ UNCHANGED <<loopVars, store, wire, message, clean, resets>>

NextLine ==
  /\ pi = "printed" /\ pi' = "number"
  /\ message' = << >>
  /\ UNCHANGED <<loopVars, store, wire, clean, resets>>

-----------------------------------------------------------------------------
UnoLoop == MeasureRed \/ MeasureGreen \/ MeasureBlue \/ Classify \/ ultrasonicGetDistances
Main == SetupSucceeds \/ SetupFails \/ SendNumber \/ ReadValue \/ PrintLine \/ NextLine

Next == Reset \/ setup \/ UnoLoop \/ SPI_STC_vect \/ Main

(* The board and the Pi each run on; the interrupt is served while they do. *)
Fairness ==
  /\ WF_vars(setup) /\ WF_vars(UnoLoop)
  /\ WF_vars(SPI_STC_vect)
  /\ WF_vars(Main)

Spec == Init /\ [][Next]_vars /\ Fairness

-----------------------------------------------------------------------------
(* Properties. *)

TypeOK ==
  /\ pc \in Filters \cup {"reset", "classify", "range"}
  /\ i \in Ranges
  /\ pulse \in [Filters -> Pulses \cup {0}]
  /\ data \in [0 .. Colour -> Byte]
  /\ echo \in [Ranges -> Echoes \cup {0}]
  /\ SPDR \in Byte /\ spif \in BOOLEAN
  /\ pi \in {"setup", "ended", "number", "value", "printed"}
  /\ message \in Seq(Byte) /\ Len(message) <= NumCells
  /\ clean \in BOOLEAN /\ resets \in 0 .. MaxResets

(* The distance the board answers with is never longer than what was        *)
(* measured: the unsigned char of data[] can only make an obstacle nearer.  *)
(* Below 256 cm it is the whole centimetres measured.                       *)
NeverFarther ==
  \A k \in Ranges :
    /\ 1000 * data[k] <= 17 * echo[k]
    /\ 17 * echo[k] < 256000 => 1000 * data[k] > 17 * echo[k] - 1000

(* The pulse is one the board's int of 16 bits and its time-out leave as it *)
(* is: neither 0 nor 32768 us or more.                                      *)
Measured(p) == p \in 1 .. 32767

(* Until the next colour is begun, the colour stored is what the pulses     *)
(* say: red or green only when that pulse is the shortest on its scale, and *)
(* when no pulse is off its scale by more than the truncation (1/255).      *)
ColourIsBrightest ==
  LET p(f) == pulse[f] - 100
      range(f) == Limit[f] - 100
      Brightest(f) == \A g \in Filters \ {f} : p(f) * range(g) < p(g) * range(f)
  IN  pc = "range" /\ (\A f \in Filters : Measured(pulse[f])) =>
        /\ data[Colour] = 1 => Brightest("red")
        /\ data[Colour] = 2 => Brightest("green")
        /\ data[Colour] # 0 => \A f \in Filters : 255 * p(f) < 256 * range(f)

(* While the answer waits for the second byte, the sample has been taken. *)
InHand == pi = "value" /\ clean /\ ~spif

S == INSTANCE Sampling WITH
       Values <- Byte,
       cell <- data, up <- Up,
       fresh <- (IF pi = "value" THEN clean ELSE Up),
       taken <- (IF InHand THEN Append(message, SPDR) ELSE message)

(* Every reading of a line is what its cell of data[] held at one instant   *)
(* of its own transfer, in the order of the labels, unless the board was    *)
(* not up when the transfer began or restarted in its course: the interrupt *)
(* answers the number it was sent, however loop()'s stores fall.            *)
ImplementsSampling == S!Spec

(* When a cell keeps its value for good, the lines come to show it, unless  *)
(* the Pi cannot open its SPI device.                                       *)
ReadingReachesPi ==
  \A k \in 0 .. Colour :
    \A v \in (IF k = Colour THEN {0, 1, 2} ELSE {Distance(e) : e \in Echoes}) :
    <>[](pi # "ended" /\ data[k] = v) => <>[](pi = "printed" => message[k + 1] = v)
===============================================================================
