# A verification project for mylibraries

TLA+ models of the parts of this library collection in which several actors
work on shared state or a sequence of legal calls can reach a bad state: the
socket servers, the serial protocol, the two small databases, the stepper motor
driver, the services built on the servers and the drivers of devices that act on
their own. TLC checks them on small instances; TLAPS proves, for every value of the
constants, the safety of the servers, the bus, the databases, the stepper driver, the
drivers and most of the services, and that the databases are maps. `PROJECT.json` lists
components, runs, mutants, hazards, theorems and the source lines behind every definition.

## 1. The system

The repository is a set of independent libraries. What carries logic of its own:

| Part | State | Operations | Interaction, what is hard | What makes it correct |
|---|---|---|---|---|
| `Linux/server/server.cpp` `Network::ServerBase`, TCP | `_sockfd`, `clients_list`, `guard`, server thread | `Start`, `Stop`, destructors; `tcp_handler`, `client_handler` | owner, accept thread and detached handlers share the registry and the process's descriptor numbers | registry bounded and exact, no thread touches a foreign connection, connections are accepted, served and closed, `Stop` returns |
| the same, UDP | `_sockfd`, server thread | `udp_handler`, `ReceiveUDP` | one thread, shutdown while receiving | datagrams are handed over until `Stop` |
| `Linux/server.c` | global `client_socket_list`, `server_t`, `client_t` | `server_start`, `server_handler`, `client_handler`, `server_stop`, `server_wait_for_err` | all servers of a process share the list; numbers are closed before their slot is freed | slot accounting, no foreign close, abandoned connections are closed |
| `Linux/server_cpp.h` | as the first, older | `Start`, `Stop`, `server_handler`, `client_handler` | as the first | as the first |
| `Linux/ota/ota.c` | firmware image, version string | page requests, restart on file change | image replaced while handlers read it | a client gets pages of one image, all of them |
| `Linux/log.c`, `logger`, `logger2` | files | append what a server receives | through the servers | whole messages, in order |
| `Common/plbus.c` | one buffer for both directions, `rx_cnt`, `in_sync` | `plbus_put` (interrupt), `plbus_poll`, `plbus_send` | the interrupt runs between any two steps of the main loop; bytes are lost and changed | what is accepted was heard, for us, once |
| `Common/hash_db.cpp` | one block of memory, a chain of entries | `write_int`, `read_int` | sequences of calls | it is a map |
| `Common/simple_db.c` | bytes, size, CRC | `db_write`, `db_overwrite`, `db_delete`, `db_read`, `db_validate` ... | sequences of calls, offsets, element sizes | it is a map, CRC and tag count in step |
| `Common/stepper.c` | chain of tasks, counters, pin | `stepper_add_task`, `stepper_run`, `stepper_clean_tasks`, two interrupts | interrupts advance the chain the owner builds | exactly the steps asked for, in turn; stop stops; a chain ends |
| `Common/state_machine.{c,cpp}` | current state, mode flag | `do_step` | what callbacks return | enter once, exit once, in order |
| `Common/nrf24l01+.c`, `nrf24l01.c` | configuration, chip registers | send, receive, mode switch, sleep | the chip receives while the driver reads and clears | no acknowledged packet is lost |
| `Common/DS18B20.cpp`, `stm32/DS1822.c`, `stm32/1-Wire.c` | serial numbers | ROM search, conversion, read | the search tree | every device found once |
| `Common/I2C_GPIO.cpp`, `stm32/SW_I2C*.c` | two pins | start, stop, byte, transaction | error paths | bus released on every path |
| `Common/filters.h`, `crc.c`, `bitops`, `pid.c`, `rand.c`, `file_ops.cpp`, `arg_parser.c` | windows, text | pure algorithms | boundaries | equal to their definition |
| `Common/MFRC522.c`, `mfrc522_rfid.c` | static block and verdict, reader chip | `Operate32`, `Operate`, `mfrc_operate` | every exchange with the card may fail | field off and link closed on every path, malformed blocks kept |
| `Common/HD44780_ToFile.cpp` | file, mapping, cursor | init, clear, position, print | death of the program within Clear | text in its row, screen complete |
| `Common/pid.c`, `pid.h` | integral, last value, limits | limits, target, calculate, reset | limits set while saturated | no windup, no derivative kick |
| `Common/HD44780.c` | the controller's bus width and half byte | init, position, text | restart in the middle of a byte | driver and controller in step |
| `Common/apds9960.c`, `mpu6050.c` | sensor flags, FIFO, offsets | gesture, reading, calibration | the sensor measures while it is read | own and fresh samples, the registers' values |
| `stm32f10x_cpp/src/clock.cpp`, `delays.cpp` | stored frequencies, clock tree | select source, PLL, update, delay | the order of calls, 32 bit products | stored is true, delays long enough (neither is, in general) |
| `Linux/framebuffer.c`, `raspberrypi/raspi_gpio.c` | static window, buffer; shared registers | draw; pin function and level | what the call before has left | the shape and nothing else; the pin and no other |
| other sensors, colour displays, `gpio.c`, `i2c.c`, `spi.cpp`, device descriptions, `ARM` | registers | reads and writes | none | - |

Vendor code (CMSIS, SVD, start-up files, linker scripts) is left aside.

## 2. Modules

    NetworkServer  <- MCNetworkServer        TCP server, server.cpp
                   <- NetworkServer_proofs
    CServer        <- CServer_proofs         server.c
    PlBus          <- MCPlBus                plbus.c
                   <- PlBus_proofs
    KVStore                                  what a database promises
    HashDb, SimpleDb  -> Databases <- MCDatabases
                                   <- Databases_proofs
    Stepper        <- Stepper_proofs         stepper.c
    Radio, StateMachines, Rfid, SoftI2C, OneWire, Clock, Pins, Frame, Sensors
                   -> Devices <- MCDevices   drivers against their devices
                              <- Devices_proofs
    CppServer, UdpServer, Ota, Loggers, TextFile, Display, FileDisplay, Pid,
    Fletcher, MachineWords <- Algorithms
                   -> Services               services against their peers
                              <- Services_proofs
    Arithmetic                               loops, lists, words and sums, for the proofs

### NetworkServer (`Linux/server/server.cpp`)

Threads are program counters: `owner` (Start, Stop and destructors), `acceptor`
(`tcp_handler`), `handler[c]` (`client_handler` of connection `c`, in a thread
of its own or in the accept thread, state `serving`). Steps are cut where
another thread can get in: between the count and the registration
(`CountClients`, `RejectClient`, `AddClient`), between `RemoveClient` and
`CloseClient`, inside the loop of `CloseAllClients` (which holds the guard,
`GuardFree`), between the shutdown and the join.

The kernel is external and modelled by what the code relies on: `fdt` is the
descriptor table, `close()` frees a number at once and `accept()` may return it
again; a waiting `read()` keeps its connection (`reading`) and is not woken by
`close()`; `shutdown()` of the listening socket makes `accept()` fail, and the
number stays taken. Every connection is opened at most once; a message is a
unit in `inbox`. Left out: payload bytes, Start on a running server.

### CServer (`Linux/server.c`)

The same kernel, with `accept()` in progress (`lis`) and `shutdown()` of a
connection (`rdshut`), and the global list as `slots`. A handler closes its
socket (`CloseClient`) and then gives up the slot (`UnregisterClient`), in the
code's order. Failing `malloc`, `pthread_create`, callbacks and read timeouts
are choices. Any number of servers may share the list.

### PlBus (`Common/plbus.c`)

Frames are bytes in the code's layout. `plbus_put` is the interrupt of every
node that hears a byte; `plbus_poll` is three steps (`PollCheck`, `PollCrc`,
`PollCallback`) and `plbus_send` two, with interrupts in between. The CRC table
is replaced by another 16 bit hash over the same bytes: the four bytes behind
the payload that the code takes in are part of it, and so is the memory behind
the buffer (a choice). The line may lose and change bytes.

### KVStore, HashDb, SimpleDb, Databases

`KVStore` is a map with put, delete, get and refusals. `HashDb` has the chain of
entries in 32 bit cells, `SimpleDb` the bytes. `Databases` puts one of the two
behind the interface (`kind`) with the refinement `ImplementsMap == KV!Spec`,
where the map is what the code's own search finds. Names are their hashes; tags
have one character; the CRC of simple_db is the checked bytes themselves, so it
never collides. Two things in simple_db depend on the build: `db_delete` moves
overlapping bytes with `memcpy` (`simple_db.c:279`), which C leaves undefined and the
model takes for a copy from the lowest byte up; and `db_get_type` scales its offset by
the size of an enum (`:204`), which is one byte with the short enums of the ARM EABI,
as `simple_db.h` draws it, and reads elsewhere with any other.

### Stepper (`Common/stepper.c`)

Task structures with their counters, `stepper_isr1` split by the state of the
task, `stepper_isr2` reduced to the stop switch. The lengths of the ramps are
inputs: the floating point that computes them, the speeds, timer periods and
buffers of precomputed periods are left out. `stepper_run` and `stepper_add_task`
are two steps each, the check or the linking and the write of the state
(`stepper_run_end`, `stepper_add_task_end`), with both interrupts open in between;
the interrupts do not nest. What they can do there shows in two places: a task that
`stepper_isr1` took before `stepper_add_task` had set its state is marked `early`, the
exception of three properties; and `stepper_isr2` may set STOP just before a write that
takes it back, the exception of `StopHolds` (`StopKept`, without it, is violated). The owner keeps
the rules the code needs and does not state: structures start zeroed and are added
once, ramps have at least one step, a chain that ended is cleaned before it is used
again.

### Devices

`Devices` is a disjoint union: `part` names the component of a behaviour and the
variables of the others are `Absent`. Each component has a driver, in steps that
are cut at register accesses, and a device (external) that acts between them.

- `Radio` (`nrf24l01+.c`, `nrf24l01.c`): the chip receives into a FIFO of three,
  transmits, fails to transmit and raises RX_DR, TX_DS and MAX_RT at any time.
  `send` is load, poll, result, clear and restore; `recv` is flag, status, read,
  FIFO, clear and flush. A packet is its number and pipe.
- `StateMachines` (`state_machine.c`, `.cpp`): one step of either machine; the
  callbacks choose their results, in C++ also the hash of a state that does not
  exist. `history` has the states entered and not left.
- `Rfid` (`MFRC522.c`, `mfrc522_rfid.c`): a call is one step whose exchanges each
  succeed, fail or return damaged data. A block is the two plain copies, the
  inverted one and the four bytes no value uses.
- `SoftI2C` (`I2C_GPIO.cpp`, `SW_I2C.c`, `SW_I2C_Driver.c`): one step per byte with
  its acknowledge, shared by the eleven transfers. A slave that was made to send
  one byte too many may hold SDA. Sizes and pointers are set before each call.
- `OneWire` (`DS18B20.cpp`, `DS1822.c`): the ROM search bit by bit over every set of
  devices; one device may come or go. The marker words are sets of bits without a bound,
  where the code has 32: a pass with more branches than that is outside the model.
- `Clock` (`clock.cpp`, `delays.cpp`): stored frequencies beside a clock tree in
  which a PLL that runs takes no new multiplier. 32 bit arithmetic in `Ticks`.
- `Pins` (`raspi_gpio.c`): shared function registers; the two level registers as one set
  of pins, in which the code hits the pin behind for 32 to 53 (for pin 53 a bit that
  belongs to no pin).
- `Frame` (`framebuffer.c`): the static window through which all shapes are drawn.
- `Sensors` (`apds9960.c`, `mpu6050.c`): samples arrive between the reads of status,
  level, FIFO and data; the bus of the accelerometer fails at any read. A measurement is
  14 bytes behind the status register, the high byte of each word first. The burst of
  `mpu6050_get_result` begins at the status register (`Bytes`), and its bytes are taken
  for a record of words as they are (`Word`), here on a little-endian host; on a
  big-endian one they would not be swapped but one byte late all the same.

### Services

The same construction.

- `CppServer` (`server_cpp.h`): owner, accept thread in its three modes (a thread
  per client, one client at a time, UDP), handlers and the descriptor table.
- `UdpServer` (`server.cpp`): `udp_handler` against `Stop`, with the read of `_sockfd`
  apart from the call that uses it.
- `Ota` (`ota.c`): main frees, loads, starts, waits for the file to change or for a
  signal; handlers of connected clients take pages with their own offset. The
  server below is reduced to connections that outlive `server_stop`. Between
  `server_start` and the assignment of the version string clients are served already
  (`main.pc = "version"`); one that reads it then is marked `early`.
- `Loggers` (`log.c`, `logger.c`, `logger2.cpp`): lock, position, write, unlock.
- `TextFile` (`file_ops.cpp`): file, descriptor and a mapping that is kept; another
  process may change the file. Bytes are commas, line ends and letters.
- `Display` (`HD44780.c`): the controller counts halves of bytes; the program may be
  restarted after any of them.
- `FileDisplay` (`HD44780_ToFile.cpp`): the screen is a file that Clear writes step by
  step and Print changes through a mapping; the program may die between two writes.
- `Pid` (`pid.c`, `pid.h`): both controllers on small integers, on which floating point
  is exact, with limits and targets set at any time.
- `Fletcher` (`crc.c`): the two sums in words of `Base * Base`, the block the
  longest that an assumption on both allows, as the code's 360 is for 32 bits.
- `Algorithms` (`filters.h`, `crc.c`, `bitops.c`): inputs one by one, the result beside
  a reference: mean and median of the last samples, polynomial remainder, mirrored
  bits. The words, and what is done to them, are in `MachineWords`; `nth_element` is
  some order of the samples that is sorted. The sum of the average is exact, as for
  integers; rounding of floating point samples is left out.

## 3. Runs

| Run | Checks | Shows |
|---|---|---|
| `server_safety` | TypeOK, BoundedRegistry, ExclusiveDescriptors, RegistryExact, AtMostTwoClients, NoForeignClose | 3 peers, limits 1 and 3, 4 calls of the owner |
| `server_live` | AbandonedIsClosed, MessageReceived, SingleAcceptProgress, SingleStopReturns | 2 peers, limits 1 and 2; `accept()` fails at any time |
| `server_starvation` (violation) | AcceptProgress | the second client is served by the accept thread; the third waits for ever although the limit is three |
| `server_stop_hangs` (violation) | StopReturns | Stop joins an accept thread that waits in the read of a silent client |
| `cserver` | TypeOK, SlotAccounting, NoForeignClose, AbandonedIsClosed | 2 peers, 1 or 2 slots, stop at any time |
| `plbus_line` | TypeOK, OncePerToken, AcceptedWasHeard, AcceptedForUs | 3 frames, one byte lost, one changed |
| `plbus_intact` (violation) | IntactPasses | an intact frame fails the CRC because it covers stale bytes behind the payload |
| `databases_map` | TypeOK, ChainExact, CountsTags, StaysValid, ImplementsMap | both databases are maps (HashDB: a name keeps its size; simple_db: 8 bit data) |
| `hashdb_resize` (violation) | ImplementsMap | overwriting with another size destroys the chain |
| `stepper_chain` | TypeOK, ExactSteps, StepsInTurn, StopHolds, ChainFinishes | 3 tasks, switch, cleaning, in any order with the interrupts, also within a call; both timers interrupting |
| `devices`: Radio | LostOnlyWhenRaced, NoStranded, PipeInRange, SendTruthful, ModeRestored | a packet is lost only in one window; flags of an earlier send are not believed |
| StateMachines | InsideCurrent, WorksInside | enter and exit alternate; one exception in C++ |
| Rfid | FieldOff, VerdictSound, MalformedKept, TailKept | what holds whichever exchange fails |
| SoftI2C, OneWire | BusReleased, HonestResult; SearchExact, CountExact | refusals at every byte; every set of eight serial numbers |
| Clock, Pins | UpdateTrue, StoredTrue, DelayLong; FunctionGiven, LevelDriven | every order of four calls; pins 0 to 31 |
| Frame | BufferLive, DrawnExact, Round | every order of four operations |
| Sensors | GestureOfEnds, OneAxisOnly, FreshOnce, ZeroExact | samples between any two reads; the offsets of the words as they arrive |
| `services`: CppServer | StopReleases, NobodyLeftConnected, RegisteredOpen, OnlyFailedStartTerminates, CppStopReturns | Stop against a client that is being accepted |
| UdpServer | UdpStopReturns, UdpHandsOn | Stop against a thread that is about to receive |
| Ota, Loggers | ReadsInside, DownloadWhole, FreedOnce; EntryIntact, EntryKept | image replaced under a client; concurrent senders |
| TextFile, Display | LinesWhole, ColumnsExact, StreamedBack; InStep, TextLands | files of three bytes; restart at any half byte |
| FileDisplay, Pid | PanelReadsBack, PanelWhole, PanelInside; NoWindup, NoKick | displays of two and three rows, three programs; four calls |
| Fletcher, Algorithms | ChecksumExact; FilterWindow, CrcIsRemainder, ReverseExact | every input up to the bound |

The runs `devices` and `services` check these properties in groups, each the
conjunction of the parts named above: `RadioSound` (Radio), `MachinesInOrder`
(StateMachines), `ExchangesSound` (Rfid, SoftI2C, OneWire), `BoardTrue` (Clock,
Pins, Frame) and `SensorsTrue` (Sensors); `ServerReleases` (CppServer's safety),
`ImageWhole` (Ota), `TextKept` (Loggers, TextFile, Display, FileDisplay),
`AlgorithmsExact` (Fletcher, Algorithms, Pid) and the temporal `ServersLive` (CppStopReturns,
UdpStopReturns, UdpHandsOn). Every part has a mutant of its own, listed under
its group. `TypeOK` is checked in both unions. Several of these properties name the cases in
which the code does not keep what one would expect (`Clock`, `Pins`, `Frame`,
`Ota`, `CppServer`): the exception is part of the property and of its comment, so
the run shows that there is no other.

Deadlock checking is off for the servers and the bus: a server that was stopped
or that nobody connects to any more, and a bus with all frames sent, stop; so do
the services. It is on for `devices`: no driver waits for ever on a device that
answers.

**Bounds.** Descriptor reuse needs two connections over one number, registration
races a third, and a rejection a limit below the number of peers: three peers
and limits 1 and 3 have all of them. `MaxCalls = 4` allows Start, Stop, Start and
the destructor. The bus needs a frame damaged, the next appended to it and one
more to be mistaken for a start: three frames; the payload contains a byte equal
to the token. The databases hold three entries of two sizes with none, one or
more left of room (a HashDB block that just holds all three and one that does
not); stale bytes behind the end are part of the state. Three tasks
are the first number at which linking to the end differs from linking to the
second place; ramps of two and totals 3, 4 and 5 are below, at and above the
limit of the acceptance check. The tasks are alike until they are added, so `MCStepper`
takes them in the order of their numbers (`InOrder`), which renames behaviours and
loses none. With two peers one is served by each of the two kinds of thread; an
`accept()` that fails needs no descriptor to be short, so their number is that of the
connections and the listener. The radio's FIFO holds three packets, so four fill
it and one is refused. Serial numbers of three bits give every shape of the search
tree up to depth three and more devices than there is room for. Two register and
two data bytes have a first and a last one. A window of thirteen pixels holds the
circles of radius 6, where the error term has changed sign several times. Three
samples in the gesture FIFO are a first, a last and one that does not count. For
the sums, `Base = 16` and `TLen = 3` are, like 65536 and 360, a base and the longest
block whose sums the assumption bounds; a block of two words more overflows.

**Fairness.** Threads that can run do (weak fairness on the accept thread, on
every handler and on a Stop that has begun): they are threads of a preemptive
kernel. For the C server the end of a connection is seen sooner or later
although reads may time out (strong fairness on `EndOfFile`): the kernel reports
it on every read. Nothing makes `accept()` or `recvfrom()` fail: their errors come at any
time or never (`AcceptError`, `ReceiveFails`, without fairness), and what they end is
named as an exception of the liveness properties. Both timers of the stepper keep
interrupting. The threads of `CppServer`
and `UdpServer` and a Stop that has begun are weakly fair for the same reason.
Nobody is obliged to connect, send, leave, Start or Stop.

**Mutants.** Every property of a passing run has a plausible bug in the code
that breaks it (`PROJECT.json`, definitions marked `Mutant`).

## 4. Proofs

Every theorem holds for every value of the constants that the `ASSUME` of its module
admits: any number of peers, descriptors, tasks, entries, calls, rows and samples, every
width of a word. The assumptions say that bounds are natural numbers, that special values
differ from ordinary ones, and what a type or a hardware limit gives (one byte addresses,
54 pins, serial numbers of one width). Where the code needs more, the theorem says so:

| Module | Theorems | Hypothesis, and why |
|---|---|---|
| `NetworkServer_proofs` | `TypeCorrect`, `RegistryBounded`, `NeverMoreThanTwo`, `DescriptorsExclusive`, `RegistryIsExact`, `ClosesOnlyOwn` | finitely many descriptors |
| `CServer_proofs` | `TypeCorrect`, `SlotsAccounted`, `ClosesOnlyOwn` | none |
| `PlBus_proofs` | `TypeCorrect`, `GivenOnce`, `AcceptsWhatItHeard`, `AcceptsOwnAddress` | the last two while `rx_cnt` has not wrapped round (`Counted`, part of the properties) |
| `Databases_proofs` | `TypeCorrect`, `ChainsExact`, `TagsCounted`, `CrcInStep`, `MapImplemented` | `OneSizePerKey` for HashDB, which the run `hashdb_resize` shows to be needed; `EightBit` for simple_db, whose `db_delete` is wrong for wider data |
| `Stepper_proofs` | `TypeCorrect`, `StepsAreExact`, `StepsAreInTurn`, `StopIsFinal` | lengths are positive and fit the counters; finitely many tasks |
| `Devices_proofs` | `MachinesRunInside`, `RadioIsSound`, `ExchangesAreSound`, `SensorsReadTrue`, `BoardIsAsBelieved`, `DevicesTyped` | what is drawn is on the screen |
| `Services_proofs` | `ServerLetsGo`, `ImagesWhole`, `EntriesStayWhole`, `ControllersSteady`, `DisplaysShow`, `TextIsKept`, `AlgorithmsAreExact`, `ServicesTyped` | gains are not negative, limits are around 0; the block of fletcher32 is short enough for its words, as 360 is for 16 bits |

The properties are seldom inductive. Each module has an invariant that is, and one lemma
per action that it is kept (per conjunct or per component where that is long); the
theorems follow from it.

**TCP server.** `IInv` adds to the properties:
`ThreadsHaveDescriptors` (whoever works with a connection has its number);
`CountIsUpperBound` (between the count and the registration the registry only shrinks, so
the stale `num_clients` errs on the safe side); `OneBesideAcceptor` (the accept thread
accepts only beside at most one registered client); `AcceptedOnce` (a connection gets a
number once); `ListenerPinned` (the listening socket's number is never freed: the leak in
`Stop` seen from its useful side, since no stale number of a handler can hit it).

**C server.** `SlotAccounting` counts, for each number, the slots that hold it and the
registered clients that have it. The step that matters is `UnregisterClient` when a number
was given to a second client while the first one's slot was still taken: either slot is
as good. `OwnNumbers`, which holds before any stop, gives `ClosesOnlyOwn`.

**Bus.** `HeardBy`: as long as `rx_cnt` has not wrapped, what is in the buffer is what was
heard since the token, the bytes 0, 6 and 7 aside that `plbus_poll` overwrites.
`Checked`: between the checks and the CRC the interrupt does not make the frame shorter or
somebody else's. `Spent`: a token is in reception, in the callback or given, once.

**Databases.** `HashChain` and `SimpleChain` say that there is a set of header positions,
laid end to end, with different names, that ends at the size the database stores; a write
adds one, a deletion takes one out and moves those behind it. The loops of the code that
follow the headers are recursive functions. `Arithmetic` has what is needed of them in
place of an induction, which the provers cannot use: a set of naturals that is not empty
has a least element; a walk along increasing positions meets what it looks for, or the end
(`Walk`, `Linked`); a set that holds 0 and, with a number, the next one holds all up to a
bound (`CountsUp`); a function defined by its values before is what its steps make of it
(`TurnsDefine`). With these `find` returns the entry of a name, and `MapImplemented` maps
every operation to that of `KVStore`, or to a refusal without an effect.

**Stepper.** `ExactSteps` does not say how the counters are spent, so `IInv` adds
`StepBudget` (what the counters hold and the pulses made add up to what was asked for),
`PhaseCounters` (the counter a state counts down is not 0, so it never wraps),
`FreshSuccessors` (a task that has not gone on has a successor of its own that has not
begun) and `Unlinked` (only accepted tasks become current). The end of the chain (`Last`)
is a recursion; these need no fact about it, since linking a fresh task behind any
structure preserves the invariant. `CallPending` says what a call found that has one
write still to make: its task is accepted and has not begun, and that of `stepper_run` is
the current one, which only `stepper_isr2` touches; everything but the types is claimed
as long as no interrupt was `early`. `StepsInTurn` needs the chain: `RightWay` says that
whoever may move was started and the direction was given to the motor, and along the chain
(`ChainFollows`) a task with work left has only tasks behind it that wait.

**Devices.** A behaviour is that of one component, so the invariant is a conjunction of
`part = ... => ...`.

- Radio: `Announced` says which packets the flags stand for, at each step of `recv`;
  `ModeKept` and `SentTrue` what `send` has saved and seen.
- State machines: `EnteredInside`, with the exception of the C++ machine.
- RFID, I2C, 1-Wire: `VerdictHasReason`; for the search, that the devices still active
  are those whose bits agree with the path, that what is found are the serial numbers
  before the path in the order of the search, and that the counter is their number modulo
  the width of the counter.
- Sensors: `GestureRead`, `AccFresh` and `OffsetTrue` relate what was read so far to what
  the device has sent since the call began; `WordsSeen` says which bytes of a measurement
  end in which word, and `OffsetsOf` that the offsets are the words of the last calibration.
- Pins: `LowPins`, that of the pins 0 to 31 exactly those set last are high, whatever was
  done to the others.
- Clock: `TreeKnown` relates the stored frequencies to the registers of the tree as long
  as a PLL that runs was not reprogrammed.
- Frame buffer: what the window still lacks are its last rows, which makes a
  finished window a rectangle (`RowsOf`). For the circle the error term is
  `err = Off + 2x + 2y + 2` with `-r <= Off < r`, where `Off` is the distance of `x*x + y*y`
  from the square of the radius: each point is within one of the circle; every
  row and column between `-r` and `r` is passed, which is the coverage `Round` asks for.

**Services.**

- Header-only server: `FdsOwned` (a descriptor belongs to one connection or to the server),
  `ListExact` and `StopShuts` (whom Stop has passed is released, or late).
- Firmware: `Served` says, for a client that one image has served, that the pages it has
  are the image up to its offset, also between the four parts of `get_next_page`; while
  main is at its version string such a client may have been `early`, and no other.
- Loggers: `OneWriter` (the lock) and `PiecesFollow` (the end of the log is the piece
  before the one the writer is at).
- UDP: its types, with what was handed on and what is queued below what was sent.
- Text files: the reader stays inside its mapping, and the lines read so far are consecutive
  pieces of the file as it was opened, at most one for each ending passed (`Lined`). Joined,
  such pieces are what they were cut from (`PiecesJoin`); the same fact, for the pieces
  between commas that each bring their comma along (`SplitExact`), gives the columns. After
  operator>> the file is the value at its place (`StreamInto`), which operator<< hands on.
- Fletcher: the sums are those of the whole data modulo `Base - 1` (`SumTrue`) and after
  `n` words of a block small enough that no word up to its end overflows them
  (`SumSmall`, `NoOverflow`); folding keeps the one (`FoldFacts`) and restores the other.
- Filters: `RingOf` says which slot holds which of the last samples, so that the slots are
  a permutation of the window (`RingHolds`); the average's sum is the window's, slots not
  written yet being zero. Of any sorted order of the slots half is on either side of the
  middle (`MedianHalves`); that there is one is an insertion sort (`SortExists`).
- Checksums: after each byte `crc8` holds the remainder of all bytes so far (`CrcGrows`:
  the division of the longer message runs like that of the shorter one, 8 places higher,
  and its last eight steps are the bit loop). `crc8Dallas` is its mirror image
  (`DallasMirrors`). In a reversed word each swap exchanges blocks
  of twice the size (`FlipGrows`).
- PID: the remembered value is that of the last calculation, the sum is inside the limits.
- Display: `LcdInv` says that the strobes the driver still has to send lead the controller
  to the narrow bus and to the cursor and text of the calls. A reset forgets the strobes;
  the lemmas about `hd44780_init` show that three threes and a two bring every state of the
  controller, a half byte waiting included, to the narrow bus. After `hd44780_update` the
  cursor of the controller is outside the lines and that of the calls is not (`moved`);
  text put then is missing (`CharLost`, `lost`) until a call sets the cursor or clears.
- Display in a file: `Clearing` says which of the writes of Clear remain, by row and place;
  `Written` that a file is complete or lacks a whole line ending at least. Both follow from
  what `Blank` is (`BlankFacts`: the write at every place). From these the mapping of a
  display below four rows is the whole screen.
  `ShowInv` says of the file's text that up to where Clear is, and everywhere while no text
  went past its row, the first line feed is the one behind the first row, and that the cells
  Clear has not reached hold what was printed (`ShowsOn`, `ShowsPrinted`).

Remaining with TLC, and why:

- liveness (`AbandonedIsClosed`, `MessageReceived`, `SingleAcceptProgress`,
  `SingleStopReturns`, `ChainFinishes`, `ServersLive`): fairness is out of the prover's
  reach;
- the four violations, which are traces, and the counterexamples of section 5.

Every invariant and every safety property of the passing runs is a theorem.

`LcdInv` quantifies over the states on the way and cannot be evaluated by TLC; its
consequences are invariants of the run `services`.

## 5. What the checks turned up

The four violations of section 3:

- the accept thread of `server.cpp` serves the second client itself, so the third waits
  (`:214`) and Stop hangs on a silent one (`:316`);
- plbus takes four bytes behind the payload into its CRC (`plbus.c:182`);
- HashDB overwrites in place whatever the new size (`hash_db.cpp:99`).

More statements of the repository do not hold. Each is a definition beside the properties
that name its case as an exception, and TLC gives a trace of its violation when it is put
in the place of the properties of the configuration in the last column:

| The repository says | What happens | Definition | Configuration |
|---|---|---|---|
| "Socket failed due to termination" (`server.cpp:195`) | any error of `accept()`, also a connection aborted before it was taken, ends the thread of a running server | `EndsByStopOnly` | `NS_safety.cfg` |
| "crc also covers payload size and error value" (`plbus.c:148`) | the CRC starts behind both (`:149`) | `HeaderCovered` (an action property) | `PL_line.cfg` |
| "Delete entry from DB" (`simple_db.c:259`) | it takes out as many bytes as the entry has elements (`:275`), and the entry behind one of 16 bits is lost | `ImplementsMap` | `DB_map.cfg` with `Types = {2}` |
| "avoid mechanical impact" (`stepper.c:237`) | `stepper_run` overwrites a STOP set after its check (`:141`) | `StopKept` (an action property) | `ST_chain.cfg` |
| "@return CPU frequency in Hz" (`clock.h:110`) | the stored frequency is not that of the chip after a change of source (`clock.cpp:162`), on HSI, or with a PLL that was running (`:199`) | `FrequencyKnown` | `DV_parts.cfg` |
| "Delay for specified number of microseconds." (`delays.h:71`) | the product wraps in 32 bits (`delays.cpp:67`): at 8 MHz from 537 us on, so that `DelayMs`, which waits in pieces of 1000 us, is too short as well | `DelayAsAsked` | `DV_parts.cfg` |
| "raw acceleration data" (`mpu6050.h:83`), x in the registers `ACCEL_XOUT H/L` (`:84`) | the burst begins at the status register (`mpu6050.c:257`), every byte lands one place late, and the words are not swapped | `MeasurementRead` | `DV_parts.cfg` |
| "Truncate file to zero and seek to start" (`file_ops.cpp:349`) | `lseek(fd, 0, SEEK_CUR)` (`:352`) stays: the contents are put behind a hole, at which a reader ends | `ReplacesContents` | `SV_parts.cfg` |
| "Send nop command" (`HD44780.h:282`) | 0xFF is sent as an address (`HD44780.c:262`): the cursor leaves the lines, and text that follows is lost | `CursorStays` | `SV_parts.cfg` |

Seen in the models, without a run:

- `Stop` shuts the listening socket down but never closes it (`server.cpp:318`);
  the port stays bound and a later Start fails.
- A client registered between `CloseAllClients` and the shutdown
  (`server.cpp:313`) is still served after Stop.
- `server_stop` closes the listening socket of a thread that waits in `accept()`,
  which is not woken (`server.c:321`).
- HashDB refuses to overwrite an entry when there is no room for a new one
  (`hash_db.cpp:91`).
- `db_delete` moves overlapping bytes with `memcpy` (`simple_db.c:279`).
- The UDP thread ends at any error of `recvfrom()` and when `malloc` fails
  (`server.cpp:231`, `:241`).

Seen while the drivers and services were modelled; where a property of section 3
has an exception, this is the reason:

- Radio: `recv` reads FIFO_STATUS before it clears the flag and flushes
  (`nrf24l01+.c:200`), so a packet that comes in between is lost; the older
  `RF_Receive_Data` leaves it in the FIFO without a flag. A `send` with
  retransmission returns true when its polling ends without an answer.
- State machines: in C++ `exit()` runs before the next state is looked up
  (`state_machine.cpp:71`); with an unknown hash the state that was left works on.
- RFID: `MFRC522_Operate32` keeps its verdict in static storage and leaves the
  transmitter on.
- Software I2C: `SW_I2C_RD` and `SW_I2C_Read_Page` succeed although a register byte
  was refused; `SW_I2C_Write_Reg` ignores refused data; `SW_I2C.c:17` takes the bus
  for busy only if both lines are low; a read of no bytes leaves the slave sending;
  `SW_I2C_Write_Byte` sends as many bytes as an earlier call has left in
  `pBufferSize`, which is 65535 after any complete transfer.
- 1-Wire: `DS1822_Search_Rom` counts on from its last search (`DS1822.c:104`).
  `DS18B20_Multi::Init` parses as `(i != devices) ? devices : max_devices`
  (`DS18B20.cpp:191`): it configures the first device only, or never ends.
- Clock: `get_pll_mult` is wrong for 2 and 3, `get_ahb_mult` for dividers from 64.
  `DelayUs(0)` never ends.
- Pins: `*reg &= 7 << n` (`raspi_gpio.c:113`) clears the other nine pins and keeps the
  old function; pins 32 to 53 are set, cleared and read one bit too far, so that they
  drive the pin behind (`:141`, `:149`, `:157`). The two faults agree with each other:
  what is read back is what was set.
- Frame buffer: an unfinished window shifts the next one (`framebuffer.c:79`); lines
  run right and down whatever their end; a failed Init, and DeInit, leave
  `framebuffer` set, and the next Init says "Already initialized!" without a buffer.
- Sensors: `proccess_gesture` reports DOWN and RIGHT only if the hand moved down and
  right at once (`apds9960.c:191`); bus error 1 of the accelerometer is taken for
  MPU6050_BUSY, so a calibration goes on for ever on a dead bus.
- Header-only server: the server socket is never closed, an empty datagram or a lack
  of descriptors ends its thread while Start says EALREADY, Stop in single mode
  waits for a client that was accepted late.
- Firmware: an image that fails to load after a restart is freed twice; a client
  that stays connected reads the freed one (`ota.c:278`). A client that asks for the
  version between `server_start` (`:252`) and the assignment of the string (`:260`) is
  answered from NULL, or after a restart from the freed image.
- Text files: the mapping does not follow a file that grows; an unterminated last
  line loses its last character, and a column before CR LF keeps the CR.
- Display in a file: `sizeof(newline)` is 4 (`HD44780_ToFile.cpp:94`) where the comment
  at line 62 and the addresses count 3, so from the third row on a text overwrites the
  line feed before it; `SetCursorPos` accepts the row behind the last one; `Print`
  stores a whole row from any column on. With four rows `expected_size` (line 62) is
  reached before the last line ending is written: Init takes what a program left that
  died there for a complete screen. (The proof of `PanelWhole` found this; the property
  now names displays of fewer than four rows.)

Some hazards of `PROJECT.json` name no property: the code meets them, the properties
name them as exceptions, and nothing in the repository promises otherwise (the note of
each says which property has the exception). Others are outside the models, because
nothing states what should hold or an actor outside the repository decides it: `ServerBase::Stop` without a
Start (`server.cpp:267`), a stale `_sockfd` after a failed bind (`:285`), the join behind a
closed but not shut down socket (`server.c:323`), the payload overwritten under the
callback of the bus (`plbus.c:164`) and its own broadcast (`:178`), memory behind a
simple_db (`simple_db.c:95`), nested timer interrupts and tasks added twice
(`stepper.c:188`, `:105`).

## 6. Not modelled

Not modelled, and why:

- vendor code (12,300 lines under `stm32f10x_pr0/CMSIS`, start-up files) and the
  declarations, licence headers and tables that make up more than half of the rest:
  they have no behaviour. They are the reason why the map covers only a part of the
  lines of the repository although nearly every function with state is in it;
- BME280, BMP180, LM75, SI7005, PCA9685, ads111x, the colour displays, `gpio.c`,
  `i2c.c`, `spi.cpp`, `stm32f10x_cpp` gpio, timer and uart, `ARM`: single register
  accesses or fixed sequences of them, and floating point formulas;
- `HD44780_Base` (`HD44780.cpp`): the same commands as `HD44780.c`, sent through an
  interface that no class of the repository implements for a real bus;
- `DS18B20_Multi` apart from its search: the class does not override a pure virtual
  function of its base and cannot be instantiated as it is;
- the Kalman filter (floating point), CRC tables, random numbers, `arg_parser`,
  JSON and stream output.

What TLC checks and no theorem states is listed at the end of section 4.
