----------------------------- MODULE SensorsProofs -----------------------------
(***************************************************************************)
(* Proofs about the sensor board and the program that polls it, for any    *)
(* number of distance sensors, any pulses and echoes and any number of     *)
(* resets.                                                                 *)
(***************************************************************************)
EXTENDS Sensors, TLAPS

USE DEF loopVars, store, wire, piVars

-----------------------------------------------------------------------------
(* Arithmetic. *)

(* A distance is a byte, and never more than what was measured.             *)
LEMMA DistanceFacts ==
  ASSUME NEW e \in Nat
  PROVE  /\ Distance(e) \in Byte
         /\ 1000 * Distance(e) <= 17 * e
         /\ 17 * e < 256000 => 1000 * Distance(e) > 17 * e - 1000
<1> DEFINE q == (17 * e) \div 1000
<1>1. q \in Nat /\ 1000 * q <= 17 * e /\ 17 * e < 1000 * q + 1000
  BY SMT
<1>2. q % 256 \in 0 .. 255 /\ q % 256 <= q /\ (q < 256 => q % 256 = q)
  BY <1>1, SMT
<1>3. Distance(e) = q % 256
  BY DEF Distance
<1> HIDE DEF q
<1> QED
  BY <1>1, <1>2, <1>3, SMT DEF Byte

LEMMA ClassifiedFacts ==
  ASSUME NEW r, NEW g, NEW b
  PROVE  Classified(r, g, b) \in {0, 1, 2}
BY DEF Classified

LEMMA LimitFacts == Limit["red"] = 1400 /\ Limit["green"] = 2300 /\ Limit["blue"] = 3000
BY DEF Limit

(* A pulse the board's int leaves as it is: its level, and what the level   *)
(* says of the pulse's place on the scale of its filter.                    *)
LEMMA LevelFacts ==
  ASSUME NEW f \in Filters, NEW p, Measured(p)
  PROVE  Level(f, p) = Div((p - 100) * (-255), Limit[f] - 100) + 255
<1>1. p \in 1 .. 32767 /\ Int16(p) = p
  BY DEF Measured, Int16
<1> QED
  BY <1>1 DEF Level

(* x is a divided by m as C divides. *)
Quotient(x, a, m) ==
  /\ x \in Int
  /\ a >= 0 => x >= 0 /\ m * x <= a /\ a < m * x + m
  /\ a < 0 => x <= 0 /\ m * x >= a /\ a > m * x - m

(* The lengths of the three scales. *)
Scales == {1300, 2200, 2900}

LEMMA DivFacts ==
  ASSUME NEW a \in Int, NEW m \in Scales
  PROVE  Quotient(Div(a, m), a, m)
<1>1. CASE m = 1300
  BY <1>1, SMT DEF Div, Quotient
<1>2. CASE m = 2200
  BY <1>2, SMT DEF Div, Quotient
<1>3. CASE m = 2900
  BY <1>3, SMT DEF Div, Quotient
<1> QED
  BY <1>1, <1>2, <1>3 DEF Scales

(* The division keeps the order.                                            *)
LEMMA DivMonotone ==
  ASSUME NEW a \in Int, NEW b \in Int, NEW m \in Scales, NEW n \in Scales,
         Div(a, m) > Div(b, n)
  PROVE  a * n > b * m
<1>1. PICK x : x = Div(a, m)
  OBVIOUS
<1>2. PICK y : y = Div(b, n)
  OBVIOUS
<1>3. Quotient(x, a, m) /\ Quotient(y, b, n) /\ x > y
  BY <1>1, <1>2, DivFacts
<1>4. CASE m = 1300
  BY <1>3, <1>4, SMT DEF Quotient, Scales
<1>5. CASE m = 2200
  BY <1>3, <1>5, SMT DEF Quotient, Scales
<1>6. CASE m = 2900
  BY <1>3, <1>6, SMT DEF Quotient, Scales
<1> QED
  BY <1>4, <1>5, <1>6 DEF Scales

(* The colour of three measured pulses is that of the shortest on its scale. *)
LEMMA ColourFacts ==
  ASSUME NEW r, NEW g, NEW b, Measured(r), Measured(g), Measured(b),
         NEW c, c = Classified(Level("red", r), Level("green", g), Level("blue", b))
  PROVE  /\ c = 1 => /\ (r - 100) * 2200 < (g - 100) * 1300
                     /\ (r - 100) * 2900 < (b - 100) * 1300
         /\ c = 2 => /\ (g - 100) * 1300 < (r - 100) * 2200
                     /\ (g - 100) * 2900 < (b - 100) * 2200
         /\ c # 0 => /\ 255 * (r - 100) < 256 * 1300
                     /\ 255 * (g - 100) < 256 * 2200
                     /\ 255 * (b - 100) < 256 * 2900
<1> DEFINE A(p) == (p - 100) * (-255)
<1>1. r \in Int /\ g \in Int /\ b \in Int
  BY DEF Measured
<1>2. A(r) \in Int /\ A(g) \in Int /\ A(b) \in Int
  BY <1>1
<1>3. PICK x : x = Div(A(r), 1300)
  OBVIOUS
<1>4. PICK y : y = Div(A(g), 2200)
  OBVIOUS
<1>5. PICK z : z = Div(A(b), 2900)
  OBVIOUS
<1>6. Quotient(x, A(r), 1300) /\ Quotient(y, A(g), 2200) /\ Quotient(z, A(b), 2900)
  BY <1>2, <1>3, <1>4, <1>5, DivFacts DEF Scales
<1>7. x \in Int /\ y \in Int /\ z \in Int
  BY <1>6 DEF Quotient
<1>8. c = Classified(x + 255, y + 255, z + 255)
  <2>1. Level("red", r) = x + 255
    BY <1>3, LevelFacts, LimitFacts DEF Filters
  <2>2. Level("green", g) = y + 255
    BY <1>4, LevelFacts, LimitFacts DEF Filters
  <2>3. Level("blue", b) = z + 255
    BY <1>5, LevelFacts, LimitFacts DEF Filters
  <2> QED
    BY <2>1, <2>2, <2>3
<1>9. /\ c = 1 => x > y /\ x > z
      /\ c = 2 => y > x /\ y > z
      /\ c # 0 => x >= -255 /\ y >= -255 /\ z >= -255
  BY <1>7, <1>8 DEF Classified
<1> HIDE DEF A
<1>10. /\ x > y => A(r) * 2200 > A(g) * 1300
       /\ x > z => A(r) * 2900 > A(b) * 1300
       /\ y > x => A(g) * 1300 > A(r) * 2200
       /\ y > z => A(g) * 2900 > A(b) * 2200
  BY <1>2, <1>3, <1>4, <1>5, DivMonotone DEF Scales
<1> USE DEF A
<1>11. c = 1 => (r - 100) * 2200 < (g - 100) * 1300 /\ (r - 100) * 2900 < (b - 100) * 1300
  BY <1>1, <1>9, <1>10
<1>12. c = 2 => (g - 100) * 1300 < (r - 100) * 2200 /\ (g - 100) * 2900 < (b - 100) * 2200
  BY <1>1, <1>9, <1>10
<1>13. c # 0 => /\ 255 * (r - 100) < 256 * 1300
               /\ 255 * (g - 100) < 256 * 2200
               /\ 255 * (b - 100) < 256 * 2900
  BY <1>1, <1>6, <1>7, <1>9 DEF Quotient
<1> QED
  BY <1>11, <1>12, <1>13

-----------------------------------------------------------------------------
(* The inductive invariant. *)

BooleansOK == spif \in BOOLEAN /\ clean \in BOOLEAN

BoardOK ==
  /\ pc \in Filters \cup {"reset", "classify", "range"}
  /\ i \in Ranges
  /\ pulse \in [Filters -> Pulses \cup {0}]
  /\ data \in [0 .. Colour -> Byte]
  /\ echo \in [Ranges -> Echoes \cup {0}]
  /\ SPDR \in Byte /\ resets \in 0 .. MaxResets

PiOK ==
  /\ pi \in {"setup", "ended", "number", "value", "printed"}
  /\ message \in Seq(Byte) /\ Len(message) <= NumCells

(* While the distances are taken, the colour stored is that of the pulses.  *)
ColourKept ==
  pc = "range" =>
    data[Colour] = Classified(Level("red", pulse["red"]), Level("green", pulse["green"]),
                              Level("blue", pulse["blue"]))

(* A board that is down has no interrupt due, a line is full when it is     *)
(* printed, and a transfer that is still clean has its number in SPDR until *)
(* the interrupt answers it.                                                *)
Polling ==
  /\ clean => Up
  /\ spif => Up
  /\ pi = "value" => Len(message) < NumCells
  /\ pi = "printed" => Len(message) = NumCells
  /\ pi = "value" /\ clean /\ spif => SPDR = Len(message) + 1

SensorsInv == BooleansOK /\ BoardOK /\ PiOK /\ NeverFarther /\ ColourKept /\ Polling

LEMMA SizesOK ==
  /\ NumSensors \in Nat /\ NumCells \in Nat /\ NumCells <= 255
  /\ Colour \in 0 .. Colour /\ Colour \notin Ranges /\ Ranges \subseteq 0 .. Colour
  /\ 0 \in Ranges /\ Colour = NumSensors /\ NumCells = Colour + 1
<1>1. NumSensors \in Nat /\ 1 <= NumSensors /\ NumSensors <= 254
  BY SensorsAssumption, SMT
<1> QED
  BY <1>1 DEF NumCells, Colour, Ranges

LEMMA InputsOK == Echoes \subseteq Nat /\ Floating \subseteq Byte /\ MaxResets \in Nat
BY SensorsAssumption, SMT

LEMMA InitInv == Init => SensorsInv
<1> SUFFICES ASSUME Init PROVE SensorsInv
  OBVIOUS
<1>1. BooleansOK
  BY DEF Init, BooleansOK
<1>2. BoardOK
  BY SizesOK, InputsOK DEF Init, BoardOK, Byte
<1>3. PiOK
  BY SizesOK DEF Init, PiOK
<1>4. NeverFarther
  BY SizesOK, SMT DEF Init, NeverFarther
<1>5. ColourKept /\ Polling
  BY DEF Init, ColourKept, Polling
<1> QED
  BY <1>1, <1>2, <1>3, <1>4, <1>5 DEF SensorsInv

(* A reset.                                                                 *)
LEMMA ResetInv ==
  ASSUME SensorsInv, Reset
  PROVE  SensorsInv'
<1>1. BooleansOK'
  BY DEF Reset, BooleansOK
<1>2. BoardOK'
  BY SizesOK, InputsOK DEF SensorsInv, Reset, BoardOK, Byte
<1>3. PiOK'
  BY DEF SensorsInv, Reset, PiOK
<1>4. NeverFarther'
  <2>1. ASSUME NEW k \in Ranges PROVE data'[k] = 0 /\ echo'[k] = 0
    BY <2>1, SizesOK DEF Reset
  <2> QED
    BY <2>1, SMT DEF NeverFarther
<1>5. ColourKept'
  BY DEF Reset, ColourKept
<1>6. Polling'
  <2>1. ~clean' /\ ~spif'
    BY DEF Reset
  <2>2. UNCHANGED <<pi, message>>
    BY DEF Reset
  <2> QED
    BY <2>1, <2>2 DEF SensorsInv, Polling
<1> QED
  BY <1>1, <1>2, <1>3, <1>4, <1>5, <1>6 DEF SensorsInv

(* setup() and loop(), which leave the wires and the Pi alone.              *)
LEMMA LoopInv ==
  ASSUME SensorsInv, setup \/ UnoLoop
  PROVE  SensorsInv'
<1> USE DEF UnoLoop, MeasureRed, MeasureGreen, MeasureBlue, Measure
<1>1. UNCHANGED <<SPDR, pi, message, resets>>
  BY DEF setup, Classify, ultrasonicGetDistances
<1>2. spif' = spif /\ clean' = clean
  BY DEF setup, Classify, ultrasonicGetDistances
<1>3. BooleansOK'
  BY <1>2 DEF SensorsInv, BooleansOK
<1>4. pc' \in Filters \cup {"classify", "range"}
  BY DEF setup, Classify, ultrasonicGetDistances, Filters
<1>5. i' \in Ranges
  <2>1. \/ i' = i
        \/ i' = 0
        \/ i + 1 < NumSensors /\ i' = i + 1
    BY DEF setup, Classify, ultrasonicGetDistances
  <2> QED
    BY <2>1, SizesOK DEF SensorsInv, BoardOK, Ranges
<1>6. pulse' \in [Filters -> Pulses \cup {0}]
  BY DEF SensorsInv, BoardOK, setup, Classify, ultrasonicGetDistances, Filters
<1>7. data' \in [0 .. Colour -> Byte] /\ echo' \in [Ranges -> Echoes \cup {0}]
  <2>1. CASE setup \/ MeasureRed \/ MeasureGreen \/ MeasureBlue
    BY <2>1 DEF SensorsInv, BoardOK, setup
  <2>2. CASE Classify
    <3> DEFINE v == Classified(Level("red", pulse["red"]), Level("green", pulse["green"]),
                               Level("blue", pulse["blue"]))
    <3>1. v \in Byte
      BY ClassifiedFacts DEF Byte
    <3>2. data' = [data EXCEPT ![Colour] = v] /\ echo' = echo
      BY <2>2 DEF Classify
    <3> HIDE DEF v
    <3> QED
      BY <3>1, <3>2, SizesOK DEF SensorsInv, BoardOK
  <2>3. CASE ultrasonicGetDistances
    <3>1. PICK e \in Echoes :
            data' = [data EXCEPT ![i] = Distance(e)] /\ echo' = [echo EXCEPT ![i] = e]
      BY <2>3 DEF ultrasonicGetDistances
    <3>2. Distance(e) \in Byte
      BY DistanceFacts, InputsOK, SMT
    <3> QED
      BY <3>1, <3>2, SizesOK DEF SensorsInv, BoardOK
  <2> QED
    BY <2>1, <2>2, <2>3
<1>8. BoardOK'
  BY <1>1, <1>4, <1>5, <1>6, <1>7 DEF SensorsInv, BoardOK
<1>9. PiOK'
  BY <1>1 DEF SensorsInv, PiOK
<1>10. NeverFarther'
  <2>1. CASE setup \/ MeasureRed \/ MeasureGreen \/ MeasureBlue
    BY <2>1, SMT DEF SensorsInv, NeverFarther, setup
  <2>2. CASE Classify
    <3>1. \A k \in Ranges : data'[k] = data[k] /\ echo'[k] = echo[k]
      BY <2>2, SizesOK DEF SensorsInv, BoardOK, Classify
    <3> QED
      BY <3>1, SMT DEF SensorsInv, NeverFarther
  <2>3. CASE ultrasonicGetDistances
    <3>1. PICK e \in Echoes :
            data' = [data EXCEPT ![i] = Distance(e)] /\ echo' = [echo EXCEPT ![i] = e]
      BY <2>3 DEF ultrasonicGetDistances
    <3>2. /\ 1000 * Distance(e) <= 17 * e
          /\ 17 * e < 256000 => 1000 * Distance(e) > 17 * e - 1000
      BY DistanceFacts, InputsOK, SMT
    <3>3. ASSUME NEW k \in Ranges
          PROVE  \/ data'[k] = Distance(e) /\ echo'[k] = e
                 \/ data'[k] = data[k] /\ echo'[k] = echo[k]
      BY <3>1, <3>3, SizesOK DEF SensorsInv, BoardOK
    <3> QED
      BY <3>2, <3>3, SMT DEF SensorsInv, NeverFarther
  <2> QED
    BY <2>1, <2>2, <2>3
<1>11. ColourKept'
  <2>1. CASE setup \/ MeasureRed \/ MeasureGreen \/ MeasureBlue
    BY <2>1 DEF ColourKept, setup
  <2>2. CASE Classify
    BY <2>2, SizesOK DEF SensorsInv, BoardOK, ColourKept, Classify
  <2>3. CASE ultrasonicGetDistances
    <3>1. data'[Colour] = data[Colour] /\ pulse' = pulse /\ pc = "range"
      BY <2>3, SizesOK DEF SensorsInv, BoardOK, ultrasonicGetDistances
    <3> QED
      BY <3>1 DEF SensorsInv, ColourKept
  <2> QED
    BY <2>1, <2>2, <2>3
<1>12. Polling'
  <2>1. Up'
    BY <1>4 DEF Up, Filters
  <2> QED
    BY <1>1, <1>2, <2>1 DEF SensorsInv, Polling
<1> QED
  BY <1>3, <1>8, <1>9, <1>10, <1>11, <1>12 DEF SensorsInv

(* The SPI interrupt.                                                       *)
LEMMA InterruptInv ==
  ASSUME SensorsInv, SPI_STC_vect
  PROVE  SensorsInv'
<1>1. BooleansOK'
  BY DEF SensorsInv, BooleansOK, SPI_STC_vect
<1>2. BoardOK'
  <2>1. Answer \in Byte
    BY SizesOK DEF SensorsInv, BoardOK, Answer
  <2> QED
    BY <2>1 DEF SensorsInv, BoardOK, SPI_STC_vect
<1>3. PiOK' /\ NeverFarther' /\ ColourKept'
  BY SMT DEF SensorsInv, PiOK, NeverFarther, ColourKept, SPI_STC_vect
<1>4. Polling'
  <2>1. ~spif' /\ (clean' => clean) /\ UNCHANGED <<pc, pi, message>>
    BY DEF SPI_STC_vect
  <2> QED
    BY <2>1 DEF SensorsInv, Polling, Up
<1> QED
  BY <1>1, <1>2, <1>3, <1>4 DEF SensorsInv

(* The Pi.                                                                  *)
LEMMA PiInv ==
  ASSUME SensorsInv, Main
  PROVE  SensorsInv'
<1> USE DEF Main
<1>1. UNCHANGED <<pc, i, pulse, data, echo, resets>>
  BY DEF SetupSucceeds, SetupFails, SendNumber, ReadValue, PrintLine, NextLine, Exchange
<1>2. NeverFarther' /\ ColourKept'
  BY <1>1, SMT DEF SensorsInv, NeverFarther, ColourKept
<1>3. CASE SetupSucceeds \/ SetupFails \/ PrintLine \/ NextLine
  <2>1. BooleansOK'
    BY <1>3 DEF SensorsInv, BooleansOK, SetupSucceeds, SetupFails, PrintLine, NextLine
  <2>2. BoardOK'
    BY <1>1, <1>3 DEF SensorsInv, BoardOK, SetupSucceeds, SetupFails, PrintLine, NextLine
  <2>3. PiOK'
    <3>1. pi' \in {"ended", "number", "printed"}
      BY <1>3 DEF SetupSucceeds, SetupFails, PrintLine, NextLine
    <3>2. message' = message \/ message' = << >>
      BY <1>3 DEF SetupSucceeds, SetupFails, PrintLine, NextLine
    <3>3. Len(<< >>) = 0 /\ << >> \in Seq(Byte)
      OBVIOUS
    <3>4. message \in Seq(Byte) /\ Len(message) <= NumCells /\ 0 <= NumCells
      BY SizesOK DEF SensorsInv, PiOK
    <3>5. message' \in Seq(Byte) /\ Len(message') <= NumCells
      <4>1. CASE message' = message
        BY <3>4, <4>1
      <4>2. CASE message' = << >>
        BY <3>3, <3>4, <4>2
      <4> QED
        BY <3>2, <4>1, <4>2
    <3> QED
      BY <3>1, <3>5 DEF PiOK
  <2>4. Polling'
    <3>1. pi' # "value" /\ (clean' => clean) /\ (spif' => spif)
      BY <1>3 DEF SetupSucceeds, SetupFails, PrintLine, NextLine
    <3>2. pi' = "printed" => Len(message') = NumCells
      BY <1>3 DEF SetupSucceeds, SetupFails, PrintLine, NextLine
    <3> QED
      BY <1>1, <3>1, <3>2 DEF SensorsInv, Polling, Up
  <2> QED
    BY <1>2, <2>1, <2>2, <2>3, <2>4 DEF SensorsInv
<1>4. CASE SendNumber
  <2>1. BooleansOK'
    BY <1>4 DEF SensorsInv, BooleansOK, SendNumber, Exchange, Up
  <2>2. Len(message) \in Nat /\ Len(message) + 1 \in Byte
    <3>1. message \in Seq(Byte) /\ Len(message) < NumCells
      BY <1>4 DEF SensorsInv, PiOK, SendNumber
    <3>2. Len(message) \in Nat
      BY <3>1
    <3>3. ASSUME NEW n \in Nat, n < NumCells PROVE n + 1 \in Byte
      BY <3>3, SizesOK, SMT DEF Byte
    <3> QED
      BY <3>1, <3>2, <3>3
  <2>3. SPDR' \in {SPDR, Len(message) + 1}
    BY <1>4 DEF SendNumber, Exchange
  <2>4. BoardOK'
    BY <1>1, <2>2, <2>3 DEF SensorsInv, BoardOK
  <2>5. PiOK'
    BY <1>4 DEF SensorsInv, PiOK, SendNumber
  <2>6. Polling'
    <3>1. message' = message /\ Len(message) < NumCells /\ pc' = pc /\ pi' = "value"
      BY <1>1, <1>4 DEF SendNumber
    <3>2. CASE Up
      BY <1>4, <3>1, <3>2 DEF SendNumber, Exchange, Polling, Up
    <3>3. CASE ~Up
      <4>1. ~clean' /\ ~spif'
        BY <1>4, <3>3 DEF SendNumber, Exchange
      <4> QED
        BY <3>1, <4>1 DEF Polling
    <3> QED
      BY <3>2, <3>3
  <2> QED
    BY <1>2, <2>1, <2>4, <2>5, <2>6 DEF SensorsInv
<1>5. CASE ReadValue
  <2>1. BooleansOK'
    BY <1>5 DEF SensorsInv, BooleansOK, ReadValue, Exchange
  <2>2. BoardOK'
    <3>1. SPDR' \in {SPDR, 0}
      BY <1>5 DEF ReadValue, Exchange
    <3> QED
      BY <1>1, <3>1 DEF SensorsInv, BoardOK, Byte
  <2>3. PiOK'
    <3>1. PICK v \in Received : message' = Append(message, v)
      BY <1>5 DEF ReadValue
    <3>2. v \in Byte
      BY InputsOK DEF SensorsInv, BoardOK, Received
    <3>3. Len(message) < NumCells /\ pi' = "number"
      BY <1>5 DEF SensorsInv, Polling, ReadValue
    <3> QED
      BY <3>1, <3>2, <3>3, SizesOK DEF SensorsInv, PiOK
  <2>4. Polling'
    <3>1. pi' = "number" /\ clean' = clean /\ (spif' => spif \/ Up)
      BY <1>5 DEF ReadValue, Exchange
    <3> QED
      BY <1>1, <3>1 DEF SensorsInv, Polling, Up
  <2> QED
    BY <1>2, <2>1, <2>2, <2>3, <2>4 DEF SensorsInv
<1> QED
  BY <1>3, <1>4, <1>5

LEMMA NextInv == SensorsInv /\ [Next]_vars => SensorsInv'
<1> SUFFICES ASSUME SensorsInv, [Next]_vars PROVE SensorsInv'
  OBVIOUS
<1>1. CASE Next
  BY <1>1, ResetInv, LoopInv, InterruptInv, PiInv DEF Next
<1>2. CASE UNCHANGED vars
  BY <1>2, SMT DEF vars, SensorsInv, BooleansOK, BoardOK, PiOK, NeverFarther, ColourKept,
     Polling, Up
<1> QED
  BY <1>1, <1>2

(* The invariant of the board, its interrupt and the Pi.                    *)
THEOREM Invariance == Spec => []SensorsInv
<1> QED
  BY InitInv, NextInv, PTL DEF Spec

(* Every variable keeps its type: what the board stores and sends are bytes, *)
(* whatever is measured.                                                    *)
THEOREM TypeCorrect == Spec => []TypeOK
<1>1. SensorsInv => TypeOK
  BY DEF SensorsInv, BooleansOK, BoardOK, PiOK, TypeOK
<1> QED
  BY <1>1, Invariance, PTL

(* No echo is ever answered as a distance longer than it was.               *)
THEOREM DistancesAreSafe == Spec => []NeverFarther
<1>1. SensorsInv => NeverFarther
  BY DEF SensorsInv
<1> QED
  BY <1>1, Invariance, PTL

(* A colour that is named is that of the shortest of the three pulses on    *)
(* its scale, for all pulses the board's int leaves as they are.            *)
THEOREM ColoursAreRight == Spec => []ColourIsBrightest
<1>1. SensorsInv => ColourIsBrightest
  <2> SUFFICES ASSUME SensorsInv, pc = "range", \A f \in Filters : Measured(pulse[f])
               PROVE  ColourIsBrightest
    BY DEF ColourIsBrightest
  <2> DEFINE r == pulse["red"]
             g == pulse["green"]
             b == pulse["blue"]
             c == data[Colour]
  <2>1. Measured(r) /\ Measured(g) /\ Measured(b)
    BY DEF Filters
  <2>2. c = Classified(Level("red", r), Level("green", g), Level("blue", b))
    BY DEF SensorsInv, ColourKept
  <2>3. /\ c = 1 => /\ (r - 100) * 2200 < (g - 100) * 1300
                    /\ (r - 100) * 2900 < (b - 100) * 1300
        /\ c = 2 => /\ (g - 100) * 1300 < (r - 100) * 2200
                    /\ (g - 100) * 2900 < (b - 100) * 2200
        /\ c # 0 => /\ 255 * (r - 100) < 256 * 1300
                    /\ 255 * (g - 100) < 256 * 2200
                    /\ 255 * (b - 100) < 256 * 2900
    BY <2>1, <2>2, ColourFacts
  <2>4. c = 1 => \A f \in Filters \ {"red"} :
                   (r - 100) * (Limit[f] - 100) < (pulse[f] - 100) * (Limit["red"] - 100)
    BY <2>3, LimitFacts, SMT DEF Filters
  <2>5. c = 2 => \A f \in Filters \ {"green"} :
                   (g - 100) * (Limit[f] - 100) < (pulse[f] - 100) * (Limit["green"] - 100)
    BY <2>3, LimitFacts, SMT DEF Filters
  <2>6. c # 0 => \A f \in Filters : 255 * (pulse[f] - 100) < 256 * (Limit[f] - 100)
    BY <2>3, LimitFacts, SMT DEF Filters
  <2> QED
    BY <2>4, <2>5, <2>6 DEF ColourIsBrightest
<1> QED
  BY <1>1, Invariance, PTL

-----------------------------------------------------------------------------
(* The board and the Pi implement Sampling. *)

freshBar == IF pi = "value" THEN clean ELSE Up
takenBar == IF InHand THEN Append(message, SPDR) ELSE message

(* What a step has to leave alone to be a stutter of Sampling.              *)
LEMMA Stutters ==
  ASSUME data' = data, Up' <=> Up, freshBar' <=> freshBar, takenBar' = takenBar,
         BooleansOK, BooleansOK'
  PROVE  UNCHANGED S!vars
<1>1. (pi = "value" => clean \in BOOLEAN) /\ (pi' = "value" => clean' \in BOOLEAN)
  BY DEF BooleansOK
<1>2. (IF pi = "value" THEN clean ELSE Up)' = (IF pi = "value" THEN clean ELSE Up)
  BY <1>1 DEF freshBar, Up
<1>3. (IF InHand THEN Append(message, SPDR) ELSE message)'
       = IF InHand THEN Append(message, SPDR) ELSE message
  BY DEF takenBar
<1>4. Up' = Up
  BY DEF Up
<1> QED
  BY <1>2, <1>3, <1>4 DEF S!vars

LEMMA InitImplements == Init => S!Init
<1> SUFFICES ASSUME Init PROVE S!Init
  OBVIOUS
<1>1. 0 .. NumCells - 1 = 0 .. Colour
  BY SizesOK
<1>2. ~InHand /\ ~Up
  BY DEF Init, InHand, Up
<1> QED
  BY <1>1, <1>2 DEF Init, S!Init, S!Cells

(* A reset loses the sample in hand.                                        *)
LEMMA ResetImplements ==
  ASSUME SensorsInv, Reset
  PROVE  S!Restart
<1>1. ~Up' /\ ~clean' /\ ~InHand' /\ message' = message /\ pi' = pi
  BY DEF Reset, Up, InHand
<1>2. data' = [k \in S!Cells |-> 0]
  BY SizesOK DEF Reset, S!Cells
<1>3. takenBar' = message
  BY <1>1 DEF takenBar
<1>4. \/ takenBar' = takenBar
      \/ takenBar # << >> /\ takenBar' = SubSeq(takenBar, 1, Len(takenBar) - 1)
  <2>1. CASE ~InHand
    BY <1>3, <2>1 DEF takenBar
  <2>2. CASE InHand
    <3>1. message \in Seq(Byte) /\ SPDR \in Byte
      BY DEF SensorsInv, PiOK, BoardOK
    <3>2. takenBar = Append(message, SPDR)
      BY <2>2 DEF takenBar
    <3>3. /\ Append(message, SPDR) # << >>
          /\ SubSeq(Append(message, SPDR), 1, Len(Append(message, SPDR)) - 1) = message
      BY <3>1
    <3> QED
      BY <1>3, <3>2, <3>3
  <2> QED
    BY <2>1, <2>2
<1>5. Up' = FALSE /\ (IF pi = "value" THEN clean ELSE Up)' = FALSE
  <2>1. clean' = FALSE
    BY DEF Reset
  <2> QED
    BY <1>1, <2>1
<1> QED
  BY <1>2, <1>4, <1>5 DEF S!Restart, takenBar

(* setup() and loop(): the board starts, a value is stored, or nothing that *)
(* Sampling sees.                                                           *)
LEMMA LoopImplements ==
  ASSUME SensorsInv, SensorsInv', setup \/ UnoLoop
  PROVE  S!Next \/ UNCHANGED S!vars
<1> USE DEF UnoLoop, MeasureRed, MeasureGreen, MeasureBlue, Measure
<1>1. UNCHANGED <<SPDR, pi, message>> /\ spif' = spif /\ clean' = clean
  BY DEF setup, Classify, ultrasonicGetDistances
<1>2. BooleansOK /\ BooleansOK'
  BY DEF SensorsInv
<1>3. (InHand' <=> InHand) /\ takenBar' = takenBar
  BY <1>1 DEF InHand, takenBar
<1>4. CASE setup
  <2>1. ~Up /\ Up' /\ data' = data
    BY <1>4 DEF setup, Up
  <2>2. (IF pi = "value" THEN clean ELSE Up)' \in BOOLEAN
    BY <1>2 DEF BooleansOK, Up
  <2> QED
    BY <1>3, <2>1, <2>2 DEF S!Next, S!Start, takenBar
<1>5. CASE MeasureRed \/ MeasureGreen \/ MeasureBlue
  <2>1. data' = data /\ (Up' <=> Up)
    BY <1>5 DEF Up
  <2> QED
    BY <1>1, <1>2, <1>3, <2>1, Stutters DEF freshBar
<1>6. CASE Classify \/ ultrasonicGetDistances
  <2>1. Up /\ Up'
    BY <1>6 DEF Classify, ultrasonicGetDistances, Up
  <2>2. (IF pi = "value" THEN clean ELSE Up)' = (IF pi = "value" THEN clean ELSE Up)
    BY <1>1, <2>1
  <2>3. \E k \in S!Cells, v \in Byte : data' = [data EXCEPT ![k] = v]
    <3>1. CASE Classify
      <4> DEFINE v == Classified(Level("red", pulse["red"]), Level("green", pulse["green"]),
                                 Level("blue", pulse["blue"]))
      <4>1. v \in Byte
        BY ClassifiedFacts DEF Byte
      <4>2. data' = [data EXCEPT ![Colour] = v]
        BY <3>1 DEF Classify
      <4>3. Colour \in S!Cells
        BY SizesOK DEF S!Cells
      <4> HIDE DEF v
      <4> QED
        BY <4>1, <4>2, <4>3
    <3>2. CASE ultrasonicGetDistances
      <4>1. PICK e \in Echoes : data' = [data EXCEPT ![i] = Distance(e)]
        BY <3>2 DEF ultrasonicGetDistances
      <4>2. Distance(e) \in Byte
        BY DistanceFacts, InputsOK, SMT
      <4>3. i \in S!Cells
        BY SizesOK DEF SensorsInv, BoardOK, S!Cells
      <4> QED
        BY <4>1, <4>2, <4>3
    <3> QED
      BY <1>6, <3>1, <3>2
  <2>4. Up' = Up
    BY <2>1 DEF Up
  <2> QED
    BY <1>3, <2>1, <2>2, <2>3, <2>4 DEF S!Next, S!Store, takenBar
<1> QED
  BY <1>4, <1>5, <1>6

(* The interrupt takes the sample, at the instant it reads data[].          *)
LEMMA InterruptImplements ==
  ASSUME SensorsInv, SensorsInv', SPI_STC_vect
  PROVE  S!Next \/ UNCHANGED S!vars
<1>1. UNCHANGED <<pc, pi, message, data>> /\ clean' = clean /\ SPDR' = Answer
  BY DEF SPI_STC_vect
<1>2. (Up' <=> Up) /\ (freshBar' <=> freshBar) /\ ~InHand /\ takenBar = message
  BY <1>1 DEF SPI_STC_vect, Up, InHand, freshBar, takenBar
<1>3. BooleansOK /\ BooleansOK'
  BY DEF SensorsInv
<1>4. CASE pi = "value" /\ clean
  <2>1. message \in Seq(Byte) /\ Len(message) \in Nat /\ Len(message) < NumCells
    BY <1>4 DEF SensorsInv, PiOK, Polling
  <2>2. SPDR = Len(message) + 1
    BY <1>4 DEF SensorsInv, Polling, SPI_STC_vect
  <2>3. Answer = data[Len(message)]
    <3>1. ASSUME NEW n \in Nat, n < NumCells
          PROVE  n + 1 \in 1 .. NumCells /\ (n + 1) - 1 = n
      BY <3>1, SizesOK, SMT
    <3>2. SPDR \in 1 .. NumCells /\ SPDR - 1 = Len(message)
      BY <2>1, <2>2, <3>1
    <3> QED
      BY <3>2 DEF Answer
  <2>4. InHand' /\ takenBar' = Append(message, data[Len(message)])
    BY <1>1, <1>4, <2>3 DEF SPI_STC_vect, InHand, takenBar
  <2>5. (IF pi = "value" THEN clean ELSE Up)' = (IF pi = "value" THEN clean ELSE Up)
    BY <1>1, <1>4
  <2>6. Up' = Up
    BY <1>1 DEF Up
  <2> QED
    BY <1>1, <1>2, <1>4, <2>1, <2>4, <2>5, <2>6 DEF S!Next, S!Take, takenBar
<1>5. CASE ~(pi = "value" /\ clean)
  <2>1. takenBar' = takenBar
    BY <1>1, <1>2, <1>5 DEF InHand, takenBar
  <2> QED
    BY <1>1, <1>2, <1>3, <2>1, Stutters
<1> QED
  BY <1>4, <1>5

(* The Pi: the answer of a transfer begun on a board that was not up is     *)
(* taken as it comes, a line is begun, or nothing that Sampling sees.       *)
LEMMA PiImplements ==
  ASSUME SensorsInv, SensorsInv', Main
  PROVE  S!Next \/ UNCHANGED S!vars
<1>1. UNCHANGED <<pc, data>> /\ (Up' <=> Up) /\ Up' = Up
  BY DEF Main, SetupSucceeds, SetupFails, SendNumber, ReadValue, PrintLine, NextLine, Exchange, Up
<1>2. BooleansOK /\ BooleansOK'
  BY DEF SensorsInv
<1>3. CASE SetupSucceeds \/ SetupFails \/ PrintLine
  <2>1. pi # "value" /\ pi' # "value" /\ message' = message
    BY <1>3 DEF SetupSucceeds, SetupFails, PrintLine
  <2> QED
    BY <1>1, <1>2, <2>1, Stutters DEF freshBar, takenBar, InHand
<1>4. CASE SendNumber
  <2>1. pi # "value" /\ pi' = "value" /\ message' = message /\ (clean' <=> Up)
    BY <1>4 DEF SendNumber
  <2>2. ~InHand /\ ~InHand'
    BY <1>4, <2>1 DEF SendNumber, Exchange, InHand
  <2> QED
    BY <1>1, <1>2, <2>1, <2>2, Stutters DEF freshBar, takenBar
<1>5. CASE ReadValue
  <2>1. pi = "value" /\ pi' = "number" /\ ~spif /\ (clean' <=> clean)
    BY <1>5 DEF ReadValue, Exchange
  <2>2. PICK v \in Received : message' = Append(message, v)
    BY <1>5 DEF ReadValue
  <2>3. takenBar' = Append(message, v)
    BY <2>1, <2>2 DEF takenBar, InHand
  <2>4. CASE clean
    <3>1. Up /\ v = SPDR
      BY <2>2, <2>4 DEF SensorsInv, Polling, Received
    <3>2. takenBar' = takenBar
      BY <2>1, <2>3, <2>4, <3>1 DEF takenBar, InHand
    <3>3. freshBar' <=> freshBar
      BY <1>1, <2>1, <2>4, <3>1 DEF freshBar
    <3> QED
      BY <1>1, <1>2, <3>2, <3>3, Stutters
  <2>5. CASE ~clean
    <3>1. takenBar = message /\ (IF pi = "value" THEN clean ELSE Up) = FALSE
      <4>1. clean = FALSE
        BY <1>2, <2>5 DEF BooleansOK
      <4> QED
        BY <2>1, <2>5, <4>1 DEF takenBar, InHand
    <3>2. (IF pi = "value" THEN clean ELSE Up)' = Up
      BY <1>1, <2>1
    <3>3. v \in Byte
      BY InputsOK DEF SensorsInv, BoardOK, Received
    <3>4. Len(message) < NumCells
      BY <2>1 DEF SensorsInv, Polling
    <3> QED
      BY <1>1, <2>3, <3>1, <3>2, <3>3, <3>4 DEF S!Next, S!TakeAny, takenBar
  <2> QED
    BY <2>4, <2>5
<1>6. CASE NextLine
  <2>1. pi = "printed" /\ pi' = "number" /\ message' = << >>
    BY <1>6 DEF NextLine
  <2>2. takenBar = message /\ takenBar' = << >> /\ Len(message) = NumCells
    BY <2>1 DEF SensorsInv, Polling, takenBar, InHand
  <2>3. (IF pi = "value" THEN clean ELSE Up)' = (IF pi = "value" THEN clean ELSE Up)
    BY <1>1, <2>1
  <2> QED
    BY <1>1, <2>2, <2>3 DEF S!Next, S!NextLine, takenBar
<1> QED
  BY <1>3, <1>4, <1>5, <1>6 DEF Main

(* Every reading of a line is what its cell of data[] held at one instant   *)
(* of its own transfer, for any number of sensors and of resets.            *)
THEOREM LinesAreSamples == Spec => ImplementsSampling
<1>1. SensorsInv /\ SensorsInv' /\ [Next]_vars => [S!Next]_S!vars
  <2> SUFFICES ASSUME SensorsInv, SensorsInv', [Next]_vars PROVE [S!Next]_S!vars
    OBVIOUS
  <2>1. CASE Next
    BY <2>1, ResetImplements, LoopImplements, InterruptImplements, PiImplements
       DEF Next, S!Next
  <2>2. CASE UNCHANGED vars
    <3>1. UNCHANGED <<pc, pi, message, data, SPDR>> /\ spif' = spif /\ clean' = clean
      BY <2>2 DEF vars
    <3> QED
      BY <3>1, Stutters DEF SensorsInv, freshBar, takenBar, InHand, Up
  <2> QED
    BY <2>1, <2>2
<1> QED
  BY <1>1, InitImplements, Invariance, PTL DEF Spec, ImplementsSampling, S!Spec

===============================================================================
