--------------------------------- MODULE Ota --------------------------------
(***************************************************************************)
(* The firmware server of Linux/ota/ota.c on top of the C server: main     *)
(* loads an image, serves it, and starts again when the file is modified;  *)
(* every connection has a thread of the C server that answers requests for *)
(* the version and for pages, and that outlives server_stop.  An image is  *)
(* the number of the load that made it.  Clients ask for the version, and  *)
(* then for one page after the other with the page size they were told.    *)
(***************************************************************************)
EXTENDS Naturals, Sequences, FiniteSets

CONSTANTS
  Sizes,      \* sizes the file may have when it is read
  OTA_PAGE_SIZE,
  VersionAt,  \* size an image needs for its version string
  Span,       \* uint32_t: 2^32
  MaxLoads,   \* bound: loads of the file
  Peers       \* clients, one connection each

VARIABLES
  main,   \* pc, and running: the server's thread accepts
  image,  \* firmware, version_string, filesize; live: images not freed; len: size of each load
  link,   \* a record per peer: pc, left and src: variables of get_next_page, told: file size it
          \* knows, pages it got and the bytes in them
  mark    \* history: overlap: peers connected when main stopped waiting, or since; early: peers
          \* that read the version string outside an image before main had set it; bad: other
          \* reads outside an image; twice: an image freed again; failed: a load failed

vars == <<main, image, link, mark>>

Parameters ==
  /\ Sizes \subseteq Nat /\ OTA_PAGE_SIZE \in Nat \ {0} /\ Span \in Nat \ {0} /\ VersionAt \in Nat
  /\ \A s \in Sizes : s + OTA_PAGE_SIZE <= Span

Idle == [pc |-> "out", left |-> 0, src |-> 0, told |-> 0, pages |-> <<>>, got |-> 0]

Init ==
  /\ main = [pc |-> "free", running |-> FALSE]
  /\ image = [firmware |-> 0, version |-> 0, filesize |-> 0, live |-> {0}, len |-> <<>>]
  /\ link = [p \in Peers |-> Idle]
  /\ mark = [overlap |-> {}, early |-> {}, bad |-> {}, twice |-> FALSE, failed |-> FALSE]

To(pc) == main' = [main EXCEPT !.pc = pc]
Connected == {p \in Peers : link[p].pc # "out"}

\* free(ota_ops.firmware): the pointer keeps its value.
Freed == [image EXCEPT !.live = @ \ {image.firmware}]
Again == image.firmware \notin image.live

Restart ==
  /\ main.pc = "free" /\ Len(image.len) < MaxLoads
  /\ image' = [Freed EXCEPT !.live = @ \cup {0}]   \* free(NULL) does nothing
  /\ mark' = [mark EXCEPT !.twice = @ \/ Again]
  /\ To("load")
  /\ UNCHANGED link

\* get_firmware: the size is stored before the file is read.
LoadSize(size) ==
  /\ main.pc = "load"
  /\ image' = [image EXCEPT !.filesize = size, !.len = Append(@, size)]
  /\ To("read")
  /\ UNCHANGED <<link, mark>>

LoadRead ==
  /\ main.pc = "read"
  /\ image' = [image EXCEPT !.firmware = Len(image.len), !.live = @ \cup {Len(image.len)}]
  /\ To("start")
  /\ UNCHANGED <<link, mark>>

\* stat, open or read fails: the image is freed once more and main returns.
LoadFails ==
  /\ main.pc \in {"load", "read"}
  /\ image' = [Freed EXCEPT !.live = @ \cup {0}]
  /\ mark' = [mark EXCEPT !.twice = @ \/ Again, !.failed = TRUE]
  /\ To("exit")
  /\ UNCHANGED link

StartServer ==
  /\ main.pc = "start"
  /\ main' = [pc |-> "version", running |-> TRUE]
  /\ UNCHANGED <<image, link, mark>>

StartFails ==
  /\ main.pc = "start"
  /\ image' = Freed
  /\ mark' = [mark EXCEPT !.twice = @ \/ Again]
  /\ To("exit")
  /\ UNCHANGED link

\* Mutant: the version string is set by the first start only.
SetVersionOnce ==
  /\ main.pc = "version"
  /\ image' = IF image.version = 0 THEN [image EXCEPT !.version = image.firmware] ELSE image
  /\ To("wait")
  /\ UNCHANGED <<link, mark>>

SetVersion ==
  /\ main.pc = "version"
  /\ image' = [image EXCEPT !.version = image.firmware]
  /\ To("wait")
  /\ UNCHANGED <<link, mark>>

\* inotify reports a change: server_stop, and from the start again.
Modified ==
  /\ main.pc = "wait"
  /\ To("stop")
  /\ mark' = [mark EXCEPT !.overlap = @ \cup Connected]
  /\ UNCHANGED <<image, link>>

\* Mutant: every end of the wait frees the image, and main starts again.
InterruptedRestarts ==
  /\ main.pc = "wait"
  /\ image' = Freed
  /\ To("stop")
  /\ mark' = [mark EXCEPT !.overlap = @ \cup Connected]
  /\ UNCHANGED link

\* A signal closes the watch: the image is freed before the server is stopped.
Interrupted ==
  /\ main.pc = "wait"
  /\ image' = Freed
  /\ To("laststop")
  /\ mark' = [mark EXCEPT !.overlap = @ \cup Connected]
  /\ UNCHANGED link

\* server_stop returns when the accepting thread has ended; handlers stay.
ServerStopped ==
  /\ main.pc \in {"stop", "laststop"}
  /\ main' = [pc |-> IF main.pc = "stop" THEN "free" ELSE "exit", running |-> FALSE]
  /\ UNCHANGED <<image, link, mark>>

Main ==
  \/ Restart \/ (\E s \in Sizes : LoadSize(s)) \/ LoadRead \/ LoadFails \/ StartServer \/ StartFails
  \/ SetVersion \/ Modified \/ Interrupted \/ ServerStopped

-----------------------------------------------------------------------------
\* The server accepts from server_start on, also before main has set the version
\* string, and until server_stop has closed its socket.
Connect(p) ==
  /\ link[p].pc = "out" /\ main.running
  /\ link' = [link EXCEPT ![p] = [Idle EXCEPT !.pc = "serve"]]
  /\ mark' = [mark EXCEPT !.overlap = IF main.pc \in {"stop", "laststop"} THEN @ \cup {p} ELSE @]
  /\ UNCHANGED <<main, image>>

Disconnect(p) ==
  /\ link[p].pc = "serve"
  /\ link' = [link EXCEPT ![p] = Idle]
  /\ mark' = [mark EXCEPT !.overlap = @ \ {p}, !.early = @ \ {p}, !.bad = @ \ {p}]
  /\ UNCHANGED <<main, image>>

\* handler drops short requests and a wrong magic word: nothing changes then.
\* Before SetVersion the string is that of the image before, or NULL.
get_version(p) ==
  /\ link[p].pc = "serve" /\ link[p].told = 0
  /\ link' = [link EXCEPT ![p].told = image.filesize]
  /\ LET inside == image.version \in image.live \ {0} /\ image.len[image.version] >= VersionAt
     IN  mark' = [mark EXCEPT !.early = IF inside \/ main.pc # "version" THEN @ ELSE @ \cup {p},
                              !.bad = IF inside \/ main.pc = "version" THEN @ ELSE @ \cup {p}]
  /\ UNCHANGED <<main, image>>

Offset(p) == (OTA_PAGE_SIZE * Len(link[p].pages)) % Span

get_next_page(p) ==
  /\ link[p].pc = "serve" /\ link[p].told > 0
  /\ link' = [link EXCEPT ![p].pc = "source", ![p].left = (image.filesize + Span - Offset(p)) % Span]
  /\ UNCHANGED <<main, image, mark>>

PageSource(p) ==
  /\ link[p].pc = "source"
  /\ link' = [link EXCEPT ![p].pc = "check", ![p].src = image.firmware]
  /\ UNCHANGED <<main, image, mark>>

\* The offset is compared with the size as it is now.
PageCheck(p) ==
  /\ link[p].pc = "check"
  /\ link' = [link EXCEPT ![p].pc = IF Offset(p) >= image.filesize THEN "serve" ELSE "copy"]
  /\ UNCHANGED <<main, image, mark>>

\* Mutant: a last page that is full counts as empty.
PageLengthModulo(left) == IF left <= OTA_PAGE_SIZE THEN left % OTA_PAGE_SIZE ELSE OTA_PAGE_SIZE

PageLength(left) == IF left < OTA_PAGE_SIZE THEN left ELSE OTA_PAGE_SIZE

PageCopy(p) ==
  /\ link[p].pc = "copy"
  /\ LET l == link[p]   n == PageLength(l.left)
         inside == l.src \in image.live \ {0} /\ Offset(p) + n <= image.len[l.src]
     IN  /\ link' = [link EXCEPT ![p].pc = "serve", ![p].pages = Append(@, [of |-> l.src, n |-> n]),
                                   ![p].got = @ + n]
         /\ mark' = [mark EXCEPT !.bad = IF inside THEN @ ELSE @ \cup {p}]
  /\ UNCHANGED <<main, image>>

Next ==
  \/ Main
  \/ \E p \in Peers :
       Connect(p) \/ Disconnect(p) \/ get_version(p) \/ get_next_page(p)
         \/ PageSource(p) \/ PageCheck(p) \/ PageCopy(p)

-----------------------------------------------------------------------------
TypeOK ==
  /\ image.firmware \in 0..Len(image.len) /\ image.live \subseteq 0..Len(image.len)
  /\ \A p \in Peers : link[p].left \in 0..(Span - 1)

ReadsInside == mark.bad \subseteq mark.overlap \/ image.filesize < VersionAt

DownloadWhole ==
  \A p \in Connected \ mark.overlap : LET l == link[p] IN
    /\ \A k \in DOMAIN l.pages : l.pages[k].of = image.firmware
    /\ l.got <= l.told
    /\ l.pages # <<>> /\ l.pages[Len(l.pages)].n < OTA_PAGE_SIZE => l.got = l.told

FreedOnce == mark.twice => mark.failed
=============================================================================
