# ALEX: specifications

ALEX is a tele-operated rover. An operator's program sends one-letter commands
to a Raspberry Pi, over TLS or plain TCP; the Pi forwards each as a 140-byte
packet over a 9600 baud serial line to an Arduino Mega, which drives the four
motors, counts wheel-encoder ticks in interrupts, and answers. An Arduino UNO
measures colours and distances all the time, and the Pi polls it over SPI.

This directory holds TLA+ modules of the parts with state of their own, the TLC
configurations that check them, and proofs for TLAPS. Paths below are relative
to the repository's root.

## Inventory

| Component | Source | State it keeps | Operations | What must be right |
|---|---|---|---|---|
| packet assembly | `serialize.cpp` (five identical copies; `TLS/Server` is the one cited) | `counter`, `leftoverFlag`, `leftoverCount`, two 140-byte static buffers | `assemble`, `deserialize`, `serialize` | packets are consecutive blocks of the stream whatever the reads; no index leaves a buffer |
| motion control | `Alex/Alex.ino`, `Alex/robotlib.ino` | `dir`, eight tick counters, two odometers, `deltaDist`, `newDist`, `deltaTicks`, `targetTicks`, motor duty | the seven commands, two encoder interrupts, the stop checks of `loop()` | a move ends, at its distance; counters and odometers agree |
| serial link | `Alex/Alex.ino`, `serial.cpp`, `main/current code/alex-pi.cpp`, `TLS/Server/tls-alex-server.cpp` | the Arduino's 63-byte input and 64-byte output rings, the tty's queue | `sendPacket`/`uartSendPacket`, `readPacket`, `sendResponse` | no command lost, each answered, none stale |
| TLS server | `TLS/Server/tls-alex-server.cpp`, `make_tls_server.cpp` | `networkActive`, `tls_conn`, one thread per connection, a listener, a serial receive thread | `_tls_listener`, `worker`, `handleNetworkData`, `sendNetworkData` | commands forwarded, answers to the asker, nothing used after `SSL_free` |
| TLS client | `TLS/Client/tls-alex-client.cpp`, `make_tls_client.cpp` | `networkActive`, `_exitFlag`, one SSL object used by three threads | `readerThread`, `writerThread`, `_client_loop` | commands and messages get through; the client ends when the server or the operator ends it; one free of the SSL object, when nobody uses it |
| TCP relay | `main/current code/alex-pi.cpp`, `TCP/Client/tcp_client.py` | one connection at a time, `exitFlag` | send `c`, read a key, `sendCommand`, sleep 0.2 s | one key per ready signal; the robot does what the operator holds now; a client that goes makes way and leaves no move under way |
| keyboard programs | `TCP/Server/alex-pi-original.cpp`, `main/ncurses/alex-pi.cpp`, the writer of `TLS/Client/tls-alex-client.cpp` | the terminal's input, `ch`, `params[2]` | a prompt read with `scanf` and `getchar`, or a `getch()` loop; `flushInput`, `getParams`, `sendCommand` | what is typed, ahead of the program or not, is carried out as meant; `q` ends the program |
| UNO sensors | `ArduinoUNO/*.ino`, `TCP/Server/rpi_arduino_wiringpi_spi.cpp` | `data[]`, written by `loop()` and read by the SPI interrupt; the shift register; the Pi's line | `color_check`, `ultrasonicGetDistances`, the SPI interrupt, the Pi's transfers | each reading is what its cell held, under its own label; no obstacle is reported farther than it is |
| motor shield library | `Library/Adafruit_Motor_Shield_library/AFMotor.*`, `move()` of `Alex/robotlib.ino` | `latch_state`, the shield's shift register, pin directions, compare registers | the four constructors, `setSpeed`, `run` | the wheels do what the last `move()` asks; nothing moves by itself after a restart |
| bare-metal firmware | `Baremetal/Alex/*` | as motion control; the motor state of the library's rewrite, `MotorLib.cpp` | as motion control; `startMotor`, `setPWM*`, `run*` | it drives as the first firmware does |
| OpenSSL glue | `tls_common_lib.cpp`, `tls_pthread.cpp`, `tls_client_lib.cpp` | contexts, the library's locks | wrappers of the TLS library | (results only, in `TlsServer` and `TlsClient`) |
| key display | `TCP/Client/WASD.py` | - | a window that shows keys | (connected to nothing) |

Interactions. Operator to Pi: a stream of short messages on one connection. Pi
to Arduino and back: the byte stream, cut by `assemble()` at both ends. Inside
the Pi's TLS server: shared variables without a lock. Inside the Mega:
`loop()` and the interrupts share `volatile` counters, and the core's UART
interrupts share two rings with `Serial.read()` and `Serial.write()`. The Mega's
code calls `move()`, which works the shield's shift register and timers. Inside the
UNO: `loop()` and the SPI interrupt share `data[]`; the Pi is the master of every
transfer.

Hard behaviour, and what the modules are for: interrupts between and in the
middle of `loop()`'s reads; CLEAR_STATS while a move is measured; an answer as
long as a command on a line as slow as both, with `loop()` deaf while it
writes; misframing that never heals; threads that test a shared variable and use
it later; a global "active" flag written by every connection; a keyboard that is
sampled before a wait and used after it; clients that end or vanish in the middle
of an exchange; an interrupt that answers from an array its main program is writing,
and a board that restarts in the middle of a transfer; hardware that remembers what a
restarted program has forgotten; input that stands before a program that will read
it as something else. `PROJECT.json` lists them as hazards, each at its line.

## Modules

| Module | Models | Checked by | Proofs |
|---|---|---|---|
| `FrameStream` | a byte stream cut into blocks (abstract) | as a property of `Assembler` | |
| `Assembler` | `assemble()` | `Assembler.cfg` | `AssemblerProofs` |
| `Robot` | what the operator sees of the firmware (abstract) | as a property of `Motion`, in `TcpRelay` | `MotionProofs` |
| `Motion` | commands, interrupts and `loop()` of the firmware | `Motion*.cfg` | `MotionProofs` |
| `SerialLink` | the serial line, both rings, `loop()` as their reader and writer | `SerialLink*.cfg` | `SerialLinkProofs` |
| `TcpRelay` | keyboard client, relay and robot | `TcpRelay.cfg` | `TcpRelayProofs` |
| `TlsServer` | the threads of the TLS server | `TlsServer*.cfg` | `TlsServerProofs` |
| `TlsClient` | the threads of the TLS client | `TlsClient*.cfg` | `TlsClientProofs` |
| `Sampling` | a line of readings, each taken at one instant (abstract) | as a property of `Sensors` | `SensorsProofs` |
| `Sensors` | the UNO's `loop()` and SPI interrupt, and the Pi that polls it | `Sensors.cfg` | `SensorsProofs` |
| `Drive` | four wheels that follow a course (abstract) | as a property of `MotorShield`, and in `MotorLib.cfg` | `TwoFirmwaresProofs` |
| `Shield` | the shield's shift register, bridges and duty pins (external) | in `MotorShield` and `MotorLib` | `TwoFirmwaresProofs` |
| `MotorShield` | `move()` over the Adafruit library | `TwoFirmwares.cfg`, `MotorShield.cfg` | `TwoFirmwaresProofs` |
| `MotorLib` | `move()` over its bare-metal rewrite | `TwoFirmwares.cfg`, `MotorLib.cfg` | `TwoFirmwaresProofs` |
| `TwoFirmwares` | both, given the same calls | `TwoFirmwares.cfg` | `TwoFirmwaresProofs` |
| `PiConsole` | the three programs that read commands from a keyboard | `PiConsole.cfg`, `ConsoleStop.cfg` | `TlsClientProofs` |

How they fit together. `Assembler` shows that a byte stream is cut into blocks;
`SerialLink` takes that for granted and asks which bytes arrive. It shows that a
command of a sender that waits 0.2 s is handled before the next is written, unless its
first came within 0.15 s of the program's HELLO; `TcpRelay` takes that for granted
(`Wake` waits for `Handle`), so it begins when the HELLO is over, and asks which
commands are sent. `Motion` shows that the firmware does what `Robot` says;
`TcpRelay` has a `Robot` in the Arduino's place (`R == INSTANCE Robot`). `Motion`
knows of the motors the duty alone; `Drive` says what its calls of `move()` do to the
wheels. `MotorShield` shows that the firmware's motor code does it, `MotorLib` that the
bare-metal rewrite does not. `PiConsole` is in front of the others: it shows which commands an operator's lines
become, for the three programs that take lines or keys.

### Assembler

One variable for each static variable of `assemble()`, one action `assemble(len)`
for a call with `len` new bytes. Bytes are their positions in the stream, so that
the buffers' contents tell which bytes a packet is made of. The C loops are the
three functions `CopyCount` (leftovers taken up), `Filled` (the output buffer
after them and the chunk) and `Spilled` (the leftover buffer). The callers'
buffers are `char[PACKET_SIZE]`; that a read brings at most so much is the
assumption on `MaxChunk` (see *Not modelled* for `serialRead`'s 1024).

`FrameStream` says what it is for: a call takes some bytes, and returns either
nothing or the next block. `Assembler` refines it under
`output <- IF result = "PACKET_COMPLETE" THEN privateBuffer ELSE "no frame"`.

### Motion

`leftTicks[d]` and `rightTicks[d]` are the counter each interrupt advances while
`dir` is `d` (`loop()` compares `leftReverseTicksTurns` in a left turn: that is
`leftTicks["LEFT"]`). The odometers are derived as `leftISR` derives them:
`DistOf` drops the part of a revolution, then the fraction of a centimetre.
Angles and the circumference are the source's constants as rationals.

`pc` is the place in `loop()`. A command that moves is two steps: up to the
write of `dir` (answer sent, targets computed) and from there (`Drive`).
GET_STATS is two steps, ticks then distances; CLEAR_STATS likewise. The checks
are one step each, since each reads one counter. The interrupts `leftISR` and
`rightISR` come between any two steps, and a step that reads a counter may have
one fall in the middle of its read: the AVR loads a 32-bit counter low byte first,
so the reading has the old low byte and the new other bytes (`Seen`). `ByteBase`
is the number of values of that byte: 256 on the board and in `MotionFar.cfg`, 50 in the
run, where a counter carries sooner, and any number in the proofs that is more than the
centimetres of a revolution.

`budget` limits the interrupts between two steps to `TicksPerStep`: the longest
step sends one answer, about 0.15 s, in which the wheel makes less than a
revolution. Two history variables measure the move under way: `moved`, the left wheel's
ticks of it, and `excess`, how much further than its distance it has to go. A move is
set off from a reading of the odometer; what an interrupt adds to that reading
(`Misread`, a byte at most) is its excess. A CLEAR_STATS takes the odometer back to 0 and
leaves `newDist` as it was: `moved` then starts anew, and the excess is all that the
target was set off from. So the properties say of every move, also a cleared one and one
beyond 255 cm, how far it goes.

`Robot` is what an operator knows of it: `heading` and `pending`. A command takes
effect as a whole. A move makes a distance pending and ends by itself; a turn ends by
itself only where a distance is pending from before; a stop ends anything. `Motion`
refines it with `heading` the direction `loop()` has decided on (`order.dir` while it
is on its way to the motors, else `dir`) and `pending` the test `deltaDist > 0`.

### SerialLink

Time is counted in bytes: at 9600 baud a byte in either direction takes the same
time, so `Tick` moves one of each. `Write` is `sendPacket()` (the tty takes the
whole packet, `Queued`); `gap` is the time the sender leaves between two, chosen from
`Gaps` at the start: 192 for the relay, 0 for the TLS server, which forwards what it
reads. The relay sleeps after a command and not after its HELLO (`MayWrite`), so its
first command may stand right behind that; `rushed` records that it did. The
rings, and `Serial.write()` waiting for room, are those of the Arduino core,
which is not in the repository: they are modelled as the firmware uses them, with
the core's sizes for the Mega (63 and 63, and one byte in the UART). `loop()` is
faster than a byte whenever it does not wait, so `Tick` is enabled only when it
waits or has nothing to read.

A packet is the bytes `140 k .. 140 k + 139`. `frame` is the block under
assembly, by its first byte and whether bytes are missing inside; that is all
`deserialize()`'s verdict depends on (`Outcomes`). Where bytes are missing from
the middle of a block that begins where a packet does, any verdict is possible:
the checksum is an exclusive or.

### TcpRelay

`tcp_client.py` has five places (`client[c]`): before `pygame.event.get()`, in `recv`,
about to read the keys, in `sleep`, and gone. `Pump` is the only step that looks at the
keyboard: `get_pressed()` reports what the last one saw, so `pumped` may differ from
`held`. `main()` of `alex-pi.cpp` has six: `accept`, `send`, `read`, the command, the
`usleep`, `close`. A stream is a count of `c` bytes one way and a sequence of keys the
other. The operator may press or release at any time, close the window (`CloseWindow`,
seen by the next `Pump`), kill the program (`Kill`, whose kernel ends the stream) or
lose the machine (`Vanish`, of which nothing tells the Pi). `recent` and `obeyed` are
history variables, for `KeysAreRecent` and `HeadsAsTold`.

### TlsClient

A step is one access to `networkActive` or `_exitFlag`, one call of the TLS library, or
an event outside. `readerThread`, `writerThread`, `_client_loop` and `main()` each have
a program counter or, for `main()`, the one action that returns. Undefined behaviour is
nondeterminism: an SSL object that has been freed may return anything or end the
process, and so may a second `SSL_free`. `Connect` has three outcomes: no connection,
which ends the process; a good certificate; and one that fails the check, where
`_closeAndExit(-1)` closes the socket and frees the SSL object and the code goes on to
start both threads (`refused`). SIGPIPE, which nobody handles, may end the
process in a write to a connection that was reset.

### TlsServer

A step is one access to `networkActive` or `tls_conn`, or an event of the
environment. A connection goes from `Connect` through `Accept`, then `Spawn` or
`Refuse`, to a worker, whose steps are the lines of `worker()`:
`while(networkActive)`, `sslRead`, `networkActive = (len > 0)`,
`tls_conn = conn`, the packet to the Arduino, `tls_conn = NULL`, `SSL_free`.
`Answer`, `Test`, `WriteAnswer` and `Assign` are the steps of
`sendNetworkData()` in the receive thread. Two undefined behaviours of the code
are choices in the model: `c` is read unassigned when `tls_conn` is NULL (any
value), and `tls_conn`, not atomic or volatile, may be loaded once or twice
between its test and its use.

### Sensors

`pc` is the place in the UNO's `loop()`: one step for each of the three filters, whose
pulse is timed, one in which `color_check()` names and stores the colour, and one for
each distance sensor, whose distance is stored in its own cell. Between any two of them
the SPI interrupt (`SPI_STC_vect`) may answer from `data[]`, and the board may be reset.
The arithmetic is the board's: a pulse is cut to an `int` of 16 bits (`Int16`), `map()`
divides towards zero, a distance is truncated and cut to an `unsigned char`. `echo` is a
history variable, the echo each distance was computed from.

The Pi's transfers are two bytes: the number of a cell, with which comes back whatever
the shift register held, and a 0, with which comes the answer. `SPDR` and `spif` are the
board's shift register and the interrupt that is due. A byte takes the Pi 2 ms or more
and the interrupt a few microseconds, so no byte overtakes the interrupt. A board that
is not up lets the line float (`Floating`). `clean` says that the board has been up since the
transfer began; what a transfer brings that is not clean means nothing.

`Sampling` is what a line of readings may be taken for: the cells' values, one after the
other, each at one instant. `Sensors` refines it: a sample is taken at the instant the
interrupt reads `data[]`, not when the Pi gets the byte (`InHand`).

### Drive, Shield, MotorShield, MotorLib, TwoFirmwares

`Shield` is the hardware as the code uses it: four control lines, with the pins of the
Mega they are wired to (`ControlPins`); eight outputs of a shift register, two for
each motor's bridge; four compare registers, each with the pin through which it sets a
motor's duty. It assumes of the shield that an enable or duty pin that is not an output
is pulled to "off", and that the shift register keeps its outputs over a restart of the
processor, and it may hold anything when power comes on (`PowerOn`).

`MotorShield` and `MotorLib` have one action for each place where the hardware changes:
the constructors' or `startMotor()`'s enabling, clearing and timer set-up, one motor at
a time, then `setSpeed` for each motor, then `run` for each. `latch_tx` clocks the eight
bits in, from bit 7 down. `run` with STOP changes nothing: the duty, which is 0 by then,
stops the wheels. A `Restart` may come between any two steps.

`Drive` says what `robotlib.ino` may expect: between two calls every wheel turns as the
last one asked, at its duty; in the course of one, a wheel knows only the old, the new
and no gear, and comes into a new gear only at the new duty. `MotorShield` implements it
for all four wheels. `MotorLib` does not: the rewrite sets up the Mega's timers, but
`MotorLib.cpp:25-39` takes for the shield's pins 12, 4, 8 and 7 the port bits they have
on an Uno (`Pins`). On the Mega these are other pins, so the shield is never enabled, its
register never gets a byte, and no wheel has power whatever is called
(`RewriteDrivesNothing`). With the Mega's pins (`PinsOfMega`, the mutant) wheels get it.

`TwoFirmwares` gives both the same calls. Each makes its own steps and restarts on its own.

### PiConsole

`program` is one of three: the prompt of the Pi's first program, the same prompt in the
TLS client, and the program that acts on single keys. `stdin` is what has been typed and
not read: letters, numbers, ends of lines, and the end of the input. The actions are the
programs' reads (`scanf("%c")`, each `getchar()` of `flushInput()`, each number of
`getParams()`) and what they do between them. At the end of the input `scanf` leaves `ch`
as it was, and `flushInput()` returns only where a `char` can hold EOF: on the laptop, not
on the Pi. A move whose numbers are missing is sent with whatever the memory held
(`"unset"`).

A *dialogue* begins with the line typed when the program waits for a command and has read
everything. It is `orderly` as long as each line is what the program will ask for when it
gets to it: a command letter first, and after a move a line with two numbers. `meant` is
the sequence of packets such a dialogue asks for. Before a dialogue anything may have been
typed. A bad letter is orderly, and means nothing; an empty line at the prompt is not (see
`ConsoleStop.cfg`). `ConsoleInit`, `ConsoleNext` and `ConsoleSpec` are not called `Init`,
`Next` and `Spec` because `TlsClientProofs` extends this module beside `TlsClient`.

## Runs

| Run | Shows | Bounds |
|---|---|---|
| `assembler` | bounds of the buffers, refinement of the cut stream | packets of 5 bytes, reads of 1-5, 25 bytes: five packets, every cut of each, so every length of leftovers meets every length of read; what a call does depends on the lengths alone |
| `motion` | status packets; a move ends about where it should; turns given during a move end; refinement of `Robot` | all seven commands, two after each other; distances 0 ("forever") and 86 cm; a byte of 50 values instead of 256 and 52 left ticks, so that both the ticks and the odometer (273 cm) carry out of their low byte, in a move and in the one after it, and a read of either is torn there; power 150 %, whose duty wraps |
| `motion_turn_from_rest` | finding 1 | the smallest that shows it |
| `serial` | nothing lost, late or refused of a sender that waits; the first command answered however soon it follows the HELLO | real sizes: 140, 63, 64; pauses of 0, 153 (the least that is enough) and 192 bytes (0.2 s); four packets: HELLO, and a command each with the line idle, answering, and after |
| `tcp_relay` | turns, keys, clients that go, the robot at the end of it | two clients, one served and one in the backlog; keys forward, left and none: a move, a turn, a stop |
| `tls_server` | freed connections, ended workers, forwarded commands | two connections, whose clients may send for ever, two commands unread at a time, and two answers to come: a third connection adds no pair of interleaved threads |
| `tls_server_later`, `tls_server_write` | findings 2 and 3 | two connections, and one |
| `tls_client` | both flags, messages, the end of the process; a certificate that is good or is not | two messages and two commands: one under way and one after it, each way |
| `sensors` | distances and colours as they are stored; each reading under its label, from one instant; a reading that stays gets to the Pi | two distance sensors, so that a line has a first, a middle and a last cell; pulses of 100 and 1402 us at the ends of the red scale, 3100 beyond all three, and 33000, which the 16-bit `int` makes negative; echoes of 85 cm and of 256 cm, which is stored as 0; one reset, at any point |
| `drive` | the firmware's motor code implements `Drive` and is kind to its bridges; the rewrite's gives no wheel power | speeds of 0, 60 % and 101 %, whose duty wraps to 1; two contents of the shift register at power-on, in which there are motors switched both ways, one way and not at all; any number of calls and restarts |
| `console` | orderly dialogues after any others; quit; reading never stops | a move, a letter that is a command of two programs with different meanings (`s`), one of one program only (`w`), `q`; two numbers; lines of up to two words, so that a line is too short, right or too long for each read; three lines: one that confuses, and a dialogue of two |

`serial` passes with a pause of 153 bytes and would fail with 152; the theorem below
has the same number. Its properties are about senders that *waited*: whose pause is long
enough and whose first command did not come while the HELLO was still on the line. The
relay makes the pause and does not see to the second, since it does not sleep after the
HELLO: with a client that sends its first key within 0.15 s of the relay's start, the
first command is handled late, the second is on the line while `loop()` is still
answering it, loses bytes to the full ring, and every later packet is misframed.
`SerialHello.cfg` (`Gaps = {192}`) ends in that behaviour: the firmware complains of a bad
magic number that nobody sent. The TLS server, which never pauses, gets there with three
commands.

The bound of a module that has one is a guard: `MaxBytes` (Assembler), `MaxLeftTicks`,
`MaxRightTicks`, `MaxCommands` (Motion), `Packets` (SerialLink), `MaxUnread`, `MaxAsked`
(TlsServer; clients may send for ever, `MaxUnread` at a time, and more answers to come
than `MaxAsked` are not counted), `MaxMessages`, `MaxCommands`, `MaxHandled` (TlsClient), `MaxResets`
(Sensors), `MaxLines`, `MaxSent` (PiConsole; three lines never send eight packets, so
`MaxSent` only keeps the states finite once the input has ended). `TcpRelay` has none: its streams are
bounded because the two programs take turns, which is what it shows; each client connects
once. Nor have the motor modules: their states are finite.

Some invariants that a theorem states for every value of the constants are not
repeated in the runs: `TypeOK` of
`Assembler`, `Motion`, `SerialLink`, `TlsServer` and `TlsClient`, `FrameIsNextBlock`,
`NothingHeldBack`, `DistTracksTicks`, `NoComplaintOfPatient`, `PaceInv`, `TurnsInv`,
`LookedInv`, `OneCommand`, `HeadsAsTold`, `StatusInv`, `MeasureInv`, `ShieldInv`,
`BareInv`. TLC
agrees with all of them on the same configurations.

Findings: three runs end in a counterexample, each against a sentence of the repository
quoted in `PROJECT.json`.

1. A turn given at rest is never stopped (`if (deltaDist > 0)` guards all checks).
2. When the first TLS client has gone, later ones are not served.
3. An answer may be written to no TLS connection, or a freed one.

Beside them there are configurations that are not part of the suite. Six end in a
counterexample, and show why the properties of the runs have the assumptions they have:

| Command | Property that fails | What it shows |
|---|---|---|
| `tlc -config SerialHello.cfg SerialLink.tla` | `NoFalseComplaint` | a relay whose first command follows its HELLO at once loses bytes of the second, and all framing; the run's properties have `Waited` |
| `tlc -config TlsServerStarved.cfg TlsServer.tla` | `ReleasedWhateverComes` | a client that sends for ever can set `networkActive` again each time between the assignment of a closed client's worker and its test, so that this worker goes on reading the end of its connection; the run has `ClosedIsReleased` |
| `tlc -config TlsClientRefused.cfg TlsClient.tla` | `RefusedIsNotUsed` | after a failed certificate check the TLS client starts its threads all the same, on a freed SSL object; the run's properties of a healthy session have `~refused` |
| `tlc -config TlsClientJoin.cfg TlsClient.tla` | `ThreadsAreJoined` | the TLS client closes the socket and frees the SSL object under its own threads; the run has `FreedWhenStopped` |
| `tlc -config MotorLib.cfg MotorLib.tla` | `LibImplementsDrive` | the rewrite of the motor library does not drive the wheels; the run has `RewriteDrivesNothing` |
| `tlc -config ConsoleStop.cfg PiConsole.tla` | `StopIsSent` | a stop typed at the prompt is dropped when the line before it was empty; the run's dialogues have no empty line at the prompt |

Two pass. `MotionFar.cfg` has the safety properties of `motion` with the real byte, a
FORWARD of 300 cm and CLEAR_STATS during it (10 million states). `MotorShield.cfg` has the
firmware's motor code by itself, with more speeds and contents of the shift register.

## Fairness

- `Assembler`: none; its properties are safety.
- `Motion`: `loop()` is called again and again; an encoder's interrupt keeps
  coming while its motor is driven (`pwm > 0`): a wheel that turns. The Pi need
  not send anything. `MoveEnds` depends on both.
- `SerialLink`: bytes that are queued move, and `loop()` reads what has come. The
  sender need not write.
- `Sensors`: `setup()`, `loop()`, the interrupt and the Pi's program each run on.
- `PiConsole`: the program runs on when it has something to read or to do. The operator
  need not type.
- `TwoFirmwares`: none; its properties are safety.
- `TlsServer`: every thread of the server runs. Clients need not do anything,
  except that one that has begun the handshake finishes or fails it: the listener
  waits for it in `SSL_accept`, and with a silent client it would wait for ever.
- `TcpRelay`: both programs run, what is sent arrives, the Arduino handles a command
  and ends what `Motion` shows it to end (`RobotStep`). Nobody need press, quit,
  connect, or ever answer after having vanished.
- `TlsClient`: the threads of the process and `main()` run. The server, the network and
  the operator need not do anything, and `sslRead()` returns only for what arrives.

## Proofs

All are for every value of the constants that the named assumptions allow.

- `AssemblerProofs`. `IInv` is inductive: at most one buffer holds bytes
  (`leftoverFlag => counter = 0`), together they hold the tail of the stream, and
  what they hold is less than a packet. The last part is what keeps indices in
  range. `TypeOK`, `FrameIsNextBlock`, `NothingHeldBack` follow, and
  `Implementation` shows that each call is a step of `FrameStream`.
- `MotionProofs`. `TypeCorrect`. `OdometersAgree` needs `ClearIsQuick`: between
  the two halves of CLEAR_STATS the ticks counted from 0 are less than a
  revolution, so that the odometer cleared second is right at 0; this is where
  `TicksPerStep < COUNTS_PER_REV` is used. What a read can show is the lemma
  `SeenOldOrByteMore`: a counter that an interrupt advances in the middle of a read is read
  as it was, or a byte too large; it needs only that a byte counts more than an interrupt
  adds. `MoveInv` (`TargetsAreKept`) says that `newDist` is what the odometer showed at the
  start of the move, or shows since a CLEAR_STATS, plus its distance and its excess; from it
  `MovesAreNotShort`, for moves and odometers of any length.
  `MovesGoNoFurther` needs `MeasureInv`: how far the wheel can have come
  since the last check, by the step of `loop()` that is next and what is left of this
  step's interrupts. `StatusIsCoherent` needs `StatusInv`: the ticks already in the packet,
  or those a byte less, are at most one step's interrupts old, less than a revolution.
  `RobotIsImplemented`: every step of `Motion` is one of `Robot` or changes nothing of
  it. `MovesAreChecked` carries `Robot`'s invariant over through that refinement.
- `SerialLinkProofs`. `TypeCorrect` for any sender. `WaitingLosesNothing`,
  `WaitingQueuesNothing` and `WaitingIsUnderstood` for a sender with
  `gap > PacketSize` and `gap + TxRing + RxRing >= 2 * PacketSize` that has not `rushed`
  its first command, for any number of
  packets. `PaceInv` ties everything to `since`, the time since the last write: how much
  of the packet is on the Arduino, and how much of the last answer can be left.
- `TcpRelayProofs`, for any set of clients. `TypeCorrect`. `TurnsInv`: a client is away,
  then in the backlog once, then served, and whoever is not being served has no byte
  under way in either direction unless its program has ended. `TurnsAreTaken` and
  `PipeIsWhole` follow: the second because a connection is reset only over a `c` its
  client has not read, and the Pi sends only when there is none. `KeysAreFresh`: a client
  that has a `c` to answer has pumped events since its last key (`LookedInv`).
  `OneAtATime` and `RobotIsTold`: a command is under way only in the place of `main()`
  that waits for it (`OneCommand`), so none outlives its client's turn, and the robot
  heads as the last one said (`HeadsAsTold`) or has stopped.
- `TlsClientProofs`, for any number of messages and commands. `ClientInv` says of a
  thread that is about to write `networkActive` that it writes 1 while the session is
  healthy, and of one that is about to stop that it has a reason, of which a refused
  certificate is one. `FlagIsKept`,
  `MessagesAreHandled`, `StopsAreCalledFor` and `FreesAreLate` are conjuncts of it.
- In the same module, of the prompt the client has from the Pi's first program
  (`PiConsole`): `OrderlyIsUnderstood`, for the three programs, any
  letters and numbers, and any number of lines typed ahead. How far a program gets with
  what stands before it would be an induction over that input; `ConsoleInv` has a witness
  in its place, a *run*: the places the program will be at after each character
  (`Takes`), from where it is to where it asks for the next line (`Foreseen`). A read takes
  the first place off the run, a line typed adds a run of its own at the end
  (`LineLeads`, one lemma for each way a line is understood), and each adds to what is
  meant exactly what its run sends.
- `TlsServerProofs`, for any set of connections and any number of commands.
  `ServerInv` has the types, and that `tls_conn` never names a connection whose worker is about to
  free it or has (`LetGo`): only a connection's own worker makes `tls_conn` name it, and
  that worker's last step but one sets it to NULL. `ConnectionIsAlive` follows.
- `SensorsProofs`, for any number of distance sensors, any pulses, echoes and resets.
  The lemmas are about the board's arithmetic: `DistanceFacts`, and `DivMonotone`, that a
  larger quotient by one scale means a smaller pulse on it, from which `ColourFacts`. The
  invariant adds what `NeverFarther` leaves open: `ColourKept`, that while distances are
  taken the colour stored is that of the pulses, and `Polling`, that a clean transfer's
  number stands in `SPDR` until the interrupt. `LinesAreSamples` is the refinement of
  `Sampling`, one lemma for the board's restart, its loop, its interrupt and the Pi.
- `TwoFirmwaresProofs`, for any speeds and any contents of the shift register at
  power-on. A lemma says that eight clock pulses of `latch_tx`, bit 7 first, put out
  exactly the byte, whatever was there. `ShieldInv` says of the firmware
  which motors the call under way has passed, and that those obey it, from the first
  clearing of the register on. `ShieldDrives` is the refinement of `Drive`, `BridgesAreSafe`
  another consequence. `BareInv` has the pins the rewrite ever makes outputs, and
  `RewriteIsPowerless` follows: the shield's enable is not among them.

Every invariant, action property and refinement that a passing run checks is stated by a
theorem. Model-checked only: the liveness properties (`MoveEnds`, `TurnDuringMoveEnds`,
`EveryCommandAnswered`, `ReleaseStops`, `LeaverIsReleased`, `UnattendedMovesEnd`,
`ClosedIsReleased`, `ForwardedWhileAllStay`, `ServerEndsClient`, `OperatorEndsClient`,
`ReadingReachesPi`, `QuitEnds`, `AllIsRead`), which need fairness and are out of the
prover's reach.

`ConsoleInv` is not checked by a run, since TLC cannot enumerate its runs over the input;
the other inductive invariants are.

## Not modelled

- Contents of packets, the checksum's arithmetic, messages and formatting.
- `serialRead()` asking for 1024 bytes into 140; `sslWrite()` of
  `sizeof(pointer)` bytes; sockets that are never closed and a refused client's
  SSL object that is never freed.
- Signals and exit of the TLS server, SIGPIPE in it included; that two threads use one
  SSL object at once.
- The relay's keys `c`, `g` and `q`, which `tcp_client.py` never sends.
- The receive threads of the Pi's programs, which only print.
- `data[5]` to `data[7]` of the UNO, raw readings the Pi never asks for; its serial
  monitor output.
- Of the bare-metal firmware, all but its motor code. Its commands, counters and `loop()`
  are those of `Motion`, line for line. Its serial code is half rewritten: `startSerial()`
  switches the receiver on without its interrupt, while `readSerial()` asks
  `Serial.available()`, which only that interrupt advances; what the two do together
  depends on the Arduino core.
- `AF_Stepper`, and the code of the motor shield library for other processors, which are
  not compiled into Alex.
- Echo servers and clients (`server.py`, `tcp_server.cpp`, `test_tls_*`): exercises
  without state.
- The OpenSSL glue: calls of the library, whose results are in `TlsServer` and
  `TlsClient`. Why nothing more: what contexts and certificates do is the library's.
- 32-bit wrap of the counters (months of driving) and of `newDist`;
  `leftRevs` and `rightRevs`, which nothing uses; `waitForHello()`, which nobody calls.
- The wheels' inertia: ticks stop counting when `dir` is STOP, in the code as here.
- The components `PROJECT.json` lists as not modelled.

## Plan

1. (done) `FrameStream`, `Assembler`, `Motion` with `Robot`, `SerialLink`, `TlsServer`,
   `TcpRelay`, `TlsClient`, with proofs.
2. (done) `Sensors` with `Sampling`, and proofs of both its arithmetic and the refinement.
3. (done) `MotorShield`, `MotorLib` and `TwoFirmwares` with `Drive`.
4. (done) `PiConsole`.
5. (done) Proofs of `GoesNoFurther` and `StatusCoherent`; of
   `HeadsAsTold` and `KeysAreRecent`; of the refinement of `Drive`, for any speeds and any
   contents of the shift register; of `UnderstandsOrderly`.
6. The answers' way back: which client gets which, and how many of its bytes.
7. The checksum: which losses the exclusive or detects, by enumeration.
8. A composition of `TlsServer` and `SerialLink`: commands of a client that does not wait.
