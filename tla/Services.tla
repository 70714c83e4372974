------------------------------ MODULE Services ------------------------------
(***************************************************************************)
(* The other services of the library: the header-only server, the UDP side *)
(* of Network::ServerBase, the firmware server and the loggers (threads    *)
(* around sockets and files), text files, the character displays, the PID  *)
(* controllers and the algorithms that are fed with one value after the    *)
(* other.  A behaviour is that of one of these components, against every   *)
(* behaviour of its peers.                                                 *)
(***************************************************************************)
EXTENDS Integers, Sequences, FiniteSets

CONSTANTS
  Fds, MaxStarts, MaxConns, NoFd,                            \* CppServer
  MaxQueue, MaxSent,                                         \* UdpServer
  Sizes, OTA_PAGE_SIZE, VersionAt, Span, MaxLoads, Peers,    \* Ota
  Senders, MaxEntries, MaxRuns, NoSender,                    \* Loggers
  MaxLen, MaxSteps,                                          \* TextFile
  Chars, Columns, MaxCalls, MaxResets,                       \* Display
  RowCounts, RowSize, Lengths, MaxOps, MaxPrograms,          \* FileDisplay
  Gains, Samples, Limits, MaxSamples,                        \* Pid
  Base, TLen, Words, MaxWords,                               \* Fletcher
  windowSize, Values, Octets, MaxInput                       \* Algorithms

VARIABLES
  part,
  server, owner, acceptor, conns, kernel, trace,
  socket, loop, stopper, told,
  main, image, link, mark,
  log, prog, sender, count,
  disk, file, reader, result,
  lcd, drv, shown,
  paper, panel, seen,
  pid, last,
  sum, data,
  input, acc

cppVars == <<server, owner, acceptor, conns, kernel, trace>>
udpVars == <<socket, loop, stopper, told>>
otaVars == <<main, image, link, mark>>
logVars == <<log, prog, sender, count>>
fileVars == <<disk, file, reader, result>>
lcdVars == <<lcd, drv, shown>>
panelVars == <<paper, panel, seen>>
pidVars == <<pid, last>>
sumVars == <<sum, data>>
algVars == <<input, acc>>
vars == <<part, cppVars, udpVars, otaVars, logVars, fileVars, lcdVars, panelVars, pidVars, sumVars, algVars>>

CS == INSTANCE CppServer
US == INSTANCE UdpServer
OT == INSTANCE Ota
LG == INSTANCE Loggers
TF == INSTANCE TextFile
DP == INSTANCE Display
FD == INSTANCE FileDisplay
PD == INSTANCE Pid
FL == INSTANCE Fletcher
AL == INSTANCE Algorithms

ASSUME ServicesAssumption ==
  /\ CS!Parameters /\ US!Parameters /\ OT!Parameters /\ LG!Parameters
  /\ TF!Parameters /\ DP!Parameters /\ FD!Parameters /\ PD!Parameters /\ FL!Parameters /\ AL!Parameters

\* A component that is not part of this behaviour.
Absent == "absent"
NoCpp == server = Absent /\ owner = Absent /\ acceptor = Absent /\ conns = Absent /\ kernel = Absent /\ trace = Absent
NoUdp == socket = Absent /\ loop = Absent /\ stopper = Absent /\ told = Absent
NoOta == main = Absent /\ image = Absent /\ link = Absent /\ mark = Absent
NoLog == log = Absent /\ prog = Absent /\ sender = Absent /\ count = Absent
NoFile == disk = Absent /\ file = Absent /\ reader = Absent /\ result = Absent
NoLcd == lcd = Absent /\ drv = Absent /\ shown = Absent
NoPanel == paper = Absent /\ panel = Absent /\ seen = Absent
NoPid == pid = Absent /\ last = Absent
NoSum == sum = Absent /\ data = Absent
NoAlg == input = Absent /\ acc = Absent

Init ==
  \/ /\ part = "cpp" /\ CS!Init
     /\ NoUdp /\ NoOta /\ NoLog /\ NoFile /\ NoLcd /\ NoPanel /\ NoPid /\ NoSum /\ NoAlg
  \/ /\ part = "udp" /\ US!Init
     /\ NoCpp /\ NoOta /\ NoLog /\ NoFile /\ NoLcd /\ NoPanel /\ NoPid /\ NoSum /\ NoAlg
  \/ /\ part = "ota" /\ OT!Init
     /\ NoCpp /\ NoUdp /\ NoLog /\ NoFile /\ NoLcd /\ NoPanel /\ NoPid /\ NoSum /\ NoAlg
  \/ /\ part = "log" /\ LG!Init
     /\ NoCpp /\ NoUdp /\ NoOta /\ NoFile /\ NoLcd /\ NoPanel /\ NoPid /\ NoSum /\ NoAlg
  \/ /\ part = "file" /\ TF!Init
     /\ NoCpp /\ NoUdp /\ NoOta /\ NoLog /\ NoLcd /\ NoPanel /\ NoPid /\ NoSum /\ NoAlg
  \/ /\ part = "lcd" /\ DP!Init
     /\ NoCpp /\ NoUdp /\ NoOta /\ NoLog /\ NoFile /\ NoPanel /\ NoPid /\ NoSum /\ NoAlg
  \/ /\ part = "panel" /\ FD!Init
     /\ NoCpp /\ NoUdp /\ NoOta /\ NoLog /\ NoFile /\ NoLcd /\ NoPid /\ NoSum /\ NoAlg
  \/ /\ part = "pid" /\ PD!Init
     /\ NoCpp /\ NoUdp /\ NoOta /\ NoLog /\ NoFile /\ NoLcd /\ NoPanel /\ NoSum /\ NoAlg
  \/ /\ part = "sum" /\ FL!Init
     /\ NoCpp /\ NoUdp /\ NoOta /\ NoLog /\ NoFile /\ NoLcd /\ NoPanel /\ NoPid /\ NoAlg
  \/ /\ part = "alg" /\ AL!Init
     /\ NoCpp /\ NoUdp /\ NoOta /\ NoLog /\ NoFile /\ NoLcd /\ NoPanel /\ NoPid /\ NoSum

RestCpp == UNCHANGED <<part, udpVars, otaVars, logVars, fileVars, lcdVars, panelVars, pidVars, sumVars, algVars>>
RestUdp == UNCHANGED <<part, cppVars, otaVars, logVars, fileVars, lcdVars, panelVars, pidVars, sumVars, algVars>>
RestOta == UNCHANGED <<part, cppVars, udpVars, logVars, fileVars, lcdVars, panelVars, pidVars, sumVars, algVars>>
RestLog == UNCHANGED <<part, cppVars, udpVars, otaVars, fileVars, lcdVars, panelVars, pidVars, sumVars, algVars>>
RestFile == UNCHANGED <<part, cppVars, udpVars, otaVars, logVars, lcdVars, panelVars, pidVars, sumVars, algVars>>
RestLcd == UNCHANGED <<part, cppVars, udpVars, otaVars, logVars, fileVars, panelVars, pidVars, sumVars, algVars>>
RestPanel == UNCHANGED <<part, cppVars, udpVars, otaVars, logVars, fileVars, lcdVars, pidVars, sumVars, algVars>>
RestPid == UNCHANGED <<part, cppVars, udpVars, otaVars, logVars, fileVars, lcdVars, panelVars, sumVars, algVars>>
RestSum == UNCHANGED <<part, cppVars, udpVars, otaVars, logVars, fileVars, lcdVars, panelVars, pidVars, algVars>>
RestAlg == UNCHANGED <<part, cppVars, udpVars, otaVars, logVars, fileVars, lcdVars, panelVars, pidVars, sumVars>>

CppStep == part = "cpp" /\ CS!Next /\ RestCpp
UdpStep == part = "udp" /\ US!Next /\ RestUdp
OtaStep == part = "ota" /\ OT!Next /\ RestOta
LogStep == part = "log" /\ LG!Next /\ RestLog
FileStep == part = "file" /\ TF!Next /\ RestFile
LcdStep == part = "lcd" /\ DP!Next /\ RestLcd
PanelStep == part = "panel" /\ FD!Next /\ RestPanel
PidStep == part = "pid" /\ PD!Next /\ RestPid
SumStep == part = "sum" /\ FL!Next /\ RestSum
AlgStep == part = "alg" /\ AL!Next /\ RestAlg

Next ==
  \/ CppStep \/ UdpStep \/ OtaStep \/ LogStep \/ FileStep
  \/ LcdStep \/ PanelStep \/ PidStep \/ SumStep \/ AlgStep

\* A thread of a server that can go on does so: the operating system schedules it.
\* Nobody has to call Stop, to connect or to send.
CppThreads == part = "cpp" /\ CS!Threads /\ RestCpp
UdpThreads == part = "udp" /\ US!Threads /\ RestUdp
UdpStopping == part = "udp" /\ US!Stopping /\ RestUdp

Spec == Init /\ [][Next]_vars /\ WF_vars(CppThreads) /\ WF_vars(UdpThreads) /\ WF_vars(UdpStopping)

-----------------------------------------------------------------------------
\* Every component's variables stay in their types: descriptors, offsets,
\* counters and addresses in their ranges.
TypeOK ==
  /\ part = "cpp" => CS!TypeOK
  /\ part = "udp" => US!TypeOK
  /\ part = "ota" => OT!TypeOK
  /\ part = "log" => LG!TypeOK
  /\ part = "file" => TF!TypeOK
  /\ part = "lcd" => DP!TypeOK
  /\ part = "panel" => FD!TypeOK
  /\ part = "pid" => PD!TypeOK
  /\ part = "sum" => FL!TypeOK
  /\ part = "alg" => AL!TypeOK

\* When Stop of the header-only server waits for its thread, every client_handler
\* that reads was released, except those of clients that were registered after
\* Stop had gone through clients_list.
StopReleases == part = "cpp" => CS!StopReleases

\* When server_handler has ended, it has released the latecomers too; and a server
\* that serves one client at a time has none left when it is destroyed.
NobodyLeftConnected == part = "cpp" => CS!NobodyLeftConnected

\* clients_list only names descriptors of connections that still run, so that
\* unregister_clients never shuts down a number that was given to somebody else;
\* no descriptor of a connection is leaked.
RegisteredOpen == part = "cpp" => CS!RegisteredOpen

\* join() of a thread that does not exist, which ends the process, happens in Stop
\* only after a Start that failed in bind or listen and left _sockfd set.
OnlyFailedStartTerminates == part = "cpp" => CS!OnlyFailedStartTerminates

\* Stop of a header-only server with a thread per client returns.
CppStopReturns == (part = "cpp" /\ owner = "join" /\ ~server.single) ~> owner # "join"

\* Stop of a UDP server returns: the thread of udp_handler sees the shutdown, or
\* the descriptor that Stop replaced, in whatever order they come.
UdpStopReturns == (part = "udp" /\ stopper = "clear") ~> (part = "udp" /\ stopper = "done")

\* While the UDP server runs, every datagram with data is handed to OnReceive,
\* empty datagrams before it notwithstanding.  Exception: malloc or recvfrom has
\* failed, which ends the thread of udp_handler without a word.
UdpHandsOn == (part = "udp" /\ US!Waiting) ~> (part = "udp" /\ (~US!Waiting \/ told.failed))

\* The firmware server reads inside a live image.  Exceptions: a client that was
\* connected when main left its wait, or while it stopped the server, and stayed while
\* the image was freed; a client that asked for the version between server_start and
\* the assignment to version_string, which is still NULL or that of the freed image;
\* and a file too short to hold a version.
ReadsInside == part = "ota" => OT!ReadsInside

\* A client that was not connected when main left its wait, nor while it stopped the
\* server, gets, page by page, the one image that was served meanwhile, no more bytes
\* than it was told, and all of them when a short page ends it.
DownloadWhole == part = "ota" => OT!DownloadWhole

\* main frees an image twice only when loading the next one fails.
FreedOnce == part = "ota" => OT!FreedOnce

\* In a run of the program an entry that was written is in the log in one piece,
\* whichever clients send at the same time.
EntryIntact == part = "log" => LG!EntryIntact

\* An entry that was written stays in the log: log_to_file keeps it across restarts
\* of the program, LoggerServer (which opens its file at the start) during one run.
EntryKept == part = "log" => LG!EntryKept

\* The lines that ReadLine returned are the file up to the reading position, each
\* with one line ending at most, and no more of them than lineCount.  Exception: the
\* file was changed by another process since it was opened.
LinesWhole == part = "file" => TF!LinesWhole

\* The columns of a line that ends in a line feed are what stands between its
\* commas.  Exception: a last line without one, of which splitString drops a character.
ColumnsExact == part = "file" => TF!ColumnsExact

\* After operator>> the file reads back as the text that was put in, if the offset
\* was at the start.  Exception: elsewhere it does not (see ReplacesContents).
StreamedBack == part = "file" => TF!StreamedBack

\* "Truncate file to zero and seek to start": after operator>> the file reads back as
\* the text that was put in, wherever the offset was.
ReplacesContents == part = "file" => TF!ReplacesContents

\* After an operation of the display driver the controller is in step: on the 4 bit
\* bus, no half byte waiting, in display memory; also if the microcontroller was
\* restarted in the middle of an operation and called hd44780_init again.
InStep == part = "lcd" => DP!InStep

\* Characters land where the calls of the display driver put them, and the cursor is
\* where they left it.  Exception: between hd44780_update and the next call that sets
\* the cursor it is elsewhere, and text put there is missing until the next clear.
TextLands == part = "lcd" => DP!TextLands

\* "Send nop command": hd44780_update moves the cursor as little as any call that is
\* not about it.
CursorStays == part = "lcd" => DP!CursorStays

\* A reader who splits the file of HD44780_ToFile into lines finds in each row what was
\* printed there, also after the program died and was started again, for at most two
\* rows and texts that fit: Clear writes four bytes after a row and SetCursorPos counts
\* three, so that from the third row on a text overwrites the line feed before it.
PanelReadsBack == part = "panel" => FD!PanelReadsBack

\* On a display with fewer than four rows a program that died within Clear leaves a file
\* that the next Init clears again or a complete one, never one that it takes for complete
\* and that is not.  (With four rows expected_size, which counts three bytes where Clear
\* writes four, is reached before the last line ending.)
PanelWhole == part = "panel" => FD!PanelWhole

\* Texts that fit into their rows are stored within the mapping.  (SetCursorPos accepts
\* the row after the last one, and a text that does not fit is stored on into the next.)
PanelInside == part = "panel" => FD!PanelInside

\* However long a PID controller was saturated, and whenever its limits were set, its
\* output is off the limit by the proportional term as soon as the error has turned.
NoWindup == part = "pid" => PD!NoWindup

\* The derivative term is zero while the input stands still (pid.c: a new target does
\* not move it) or while the error does (the class).
NoKick == part = "pid" => PD!NoKick

\* fletcher32 returns the two sums modulo Base - 1, although it reduces them only
\* once per block: neither sum overflows within a block.
ChecksumExact == part = "sum" => FL!ChecksumExact

\* The average is that of the last windowSize samples, and at least half of them
\* lie on either side of the median.
FilterWindow == part = "alg" => AL!FilterWindow

\* crc8 and crc8Dallas are the remainders of polynomial division they stand for.
CrcIsRemainder == part = "alg" => AL!CrcIsRemainder

\* reverse_bits8, 16 and 32 put bit i at position width - 1 - i.
ReverseExact == part = "alg" => AL!ReverseExact

-----------------------------------------------------------------------------
\* The header-only server names only its own descriptors and releases every client
\* when it is stopped, however Stop, accept and handlers interleave.
ServerReleases == StopReleases /\ NobodyLeftConnected /\ RegisteredOpen /\ OnlyFailedStartTerminates

\* A client of the firmware server gets one image and all of it, from memory that is
\* alive, but for the exceptions named above.
ImageWhole == ReadsInside /\ DownloadWhole /\ FreedOnce

\* What is written arrives whole and in its place: entries of the logs, lines and
\* columns of a file, characters on the displays.
TextKept ==
  /\ EntryIntact /\ EntryKept /\ LinesWhole /\ ColumnsExact
  /\ StreamedBack /\ InStep /\ TextLands
  /\ PanelReadsBack /\ PanelWhole /\ PanelInside

\* The algorithms compute what their definitions say, for every input, and the
\* controllers neither wind up nor kick.
AlgorithmsExact ==
  /\ ChecksumExact /\ FilterWindow /\ CrcIsRemainder /\ ReverseExact
  /\ NoWindup /\ NoKick

\* Stop returns, and datagrams are handed on while the server runs.
ServersLive == CppStopReturns /\ UdpStopReturns /\ UdpHandsOn
=============================================================================
