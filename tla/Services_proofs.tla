-------------------------- MODULE Services_proofs ---------------------------
(***************************************************************************)
(* Proofs about the services of Services.  A behaviour is that of one of   *)
(* them, so each invariant says what holds of its own part.                *)
(***************************************************************************)
EXTENDS Services, Arithmetic, TLAPS

-----------------------------------------------------------------------------
(***************************************************************************)
(* Sequences whose elements are records.                                   *)
(***************************************************************************)
\* Changing an element keeps the length and the other elements.
LEMMA Changed ==
  ASSUME NEW R, NEW s \in Seq(R), NEW k \in DOMAIN s, NEW r \in R
  PROVE  LET t == [s EXCEPT ![k] = r] IN
         /\ t \in Seq(R) /\ Len(t) = Len(s) /\ DOMAIN t = DOMAIN s
         /\ \A j \in DOMAIN s : t[j] = IF j = k THEN r ELSE s[j]
OBVIOUS

LEMMA Appended ==
  ASSUME NEW R, NEW s \in Seq(R), NEW r \in R
  PROVE  LET t == Append(s, r) IN
         /\ t \in Seq(R) /\ Len(t) = Len(s) + 1 /\ DOMAIN t = DOMAIN s \cup {Len(s) + 1}
         /\ Len(s) + 1 \notin DOMAIN s
         /\ \A j \in DOMAIN s : t[j] = s[j]
         /\ t[Len(s) + 1] = r
OBVIOUS

-----------------------------------------------------------------------------
(***************************************************************************)
(* The header-only server.                                                 *)
(***************************************************************************)
Conn == [fd : Fds, pc : {"new", "read", "erase", "close", "done"}, peer : BOOLEAN]

CppTypes ==
  /\ server \in [single : BOOLEAN, udp : BOOLEAN, sockfd : Fds \cup {NoFd}, list : SUBSET Fds, joinable : BOOLEAN]
  /\ owner \in {"idle", "close", "join", "terminated", "destroyed"}
  /\ acceptor \in [pc : {"none", "accept", "register", "serve", "final", "ended"}, conn : Nat]
  /\ conns \in Seq(Conn)
  /\ kernel \in [open : SUBSET Fds, shut : SUBSET Fds, socks : SUBSET Fds]
  /\ trace \in [starts : Nat, failed : BOOLEAN, late : SUBSET Nat]
  /\ acceptor.conn \in 0..Len(conns)

\* _sockfd is a socket of the server from Start to the join in Stop, and its thread
\* runs only in between; it has none after a Start that failed.
SocketLives ==
  /\ server.sockfd # NoFd => server.sockfd \in kernel.socks
  /\ owner \in {"close", "join"} => server.sockfd # NoFd
  /\ server.sockfd = NoFd => acceptor.pc \in {"none", "ended"}
  /\ owner = "destroyed" => server.sockfd = NoFd
  /\ server.sockfd # NoFd /\ ~server.joinable => trace.failed
  /\ owner = "terminated" => trace.failed

Running(k) == conns[k].pc # "done"

\* A descriptor belongs to one connection, or to the server.
FdsOwned ==
  /\ kernel.shut \subseteq kernel.open
  /\ \A j, k \in DOMAIN conns : Running(j) /\ Running(k) /\ conns[j].fd = conns[k].fd => j = k
  /\ \A k \in DOMAIN conns : Running(k) => conns[k].fd \notin kernel.socks
  /\ \A fd : fd \in kernel.open <=> fd \in kernel.socks \/ \E k \in DOMAIN conns : Running(k) /\ fd = conns[k].fd

\* A connection that is not registered yet is the accepting thread's; one that is
\* served by that thread is the only one.
ThreadServes ==
  /\ \A k \in DOMAIN conns : conns[k].pc = "new" => acceptor.pc = "register" /\ acceptor.conn = k
  /\ acceptor.pc = "register" => acceptor.conn \in DOMAIN conns /\ conns[acceptor.conn].pc = "new"
  /\ server.single => \A k \in DOMAIN conns : Running(k) => acceptor.pc \in {"register", "serve"} /\ acceptor.conn = k

\* clients_list is exactly the set of registered descriptors.
ListExact ==
  \A fd : fd \in server.list <=> \E k \in DOMAIN conns : fd = conns[k].fd /\ conns[k].pc \in {"read", "erase"}

\* From the first part of Stop on every handler that reads is released, or late.
StopShuts ==
  /\ owner \in {"close", "join"} => \A k \in DOMAIN conns : conns[k].pc = "read" => CS!Released(k) \/ k \in trace.late
  /\ acceptor.pc = "ended" => \A k \in DOMAIN conns : conns[k].pc = "read" => CS!Released(k)

CppInv == CppTypes /\ SocketLives /\ FdsOwned /\ ThreadServes /\ ListExact /\ StopShuts

LEMMA CppBegins == ASSUME CS!Init PROVE CppInv
<1>1. conns = <<>> /\ DOMAIN conns = {}
  BY DEF CS!Init
<1>2. CppTypes
  <2>1. conns \in Seq(Conn) /\ Len(conns) = 0
    BY <1>1
  <2>2. trace \in [starts : Nat, failed : BOOLEAN, late : SUBSET Nat]
    BY DEF CS!Init
  <2>3. kernel \in [open : SUBSET Fds, shut : SUBSET Fds, socks : SUBSET Fds]
    BY DEF CS!Init
  <2>4. server \in [single : BOOLEAN, udp : BOOLEAN, sockfd : Fds \cup {NoFd}, list : SUBSET Fds, joinable : BOOLEAN]
    BY Zenon DEF CS!Init
  <2> QED
    BY <2>1, <2>2, <2>3, <2>4 DEF CS!Init, CppTypes
<1>3. SocketLives /\ FdsOwned /\ ThreadServes /\ ListExact /\ StopShuts
  BY <1>1 DEF CS!Init, SocketLives, FdsOwned, ThreadServes, ListExact, StopShuts, Running, CS!Released
<1> QED
  BY <1>2, <1>3 DEF CppInv

\* The descriptor that the operating system gives is a free one.
LEMMA NewFdFree == ASSUME CppTypes, CS!Free # {} PROVE CS!NewFd \in CS!Free
<1>1. CS!Free \in SUBSET Nat
  BY ServicesAssumption, Zenon DEF CS!Parameters, CS!Free
<1>2. \E x \in CS!Free : \A y \in CS!Free : x <= y
  BY <1>1, LeastElement
<1> QED
  BY <1>2 DEF CS!NewFd

\* What Start records.
LEMMA StartRecorded ==
  ASSUME CppTypes, NEW b \in BOOLEAN, trace' = [trace EXCEPT !.starts = @ + 1, !.failed = @ \/ b]
  PROVE  /\ trace' \in [starts : Nat, failed : BOOLEAN, late : SUBSET Nat]
         /\ trace'.late = trace.late /\ trace'.failed = (trace.failed \/ b)
<1>1. trace \in [starts : Nat, failed : BOOLEAN, late : SUBSET Nat]
  BY DEF CppTypes
<1>2. trace.starts + 1 \in Nat /\ (trace.failed \/ b) \in BOOLEAN /\ trace.late \in SUBSET Nat
  BY <1>1
<1>3. trace' = [starts |-> trace.starts + 1, failed |-> (trace.failed \/ b), late |-> trace.late]
  BY <1>1, Zenon
<1> QED
  BY <1>2, <1>3, Zenon

LEMMA CppStart == ASSUME CppInv, NEW r \in {"ok", "bind", "listen"}, CS!Start(r) PROVE CppInv'
<1>1. CASE server.sockfd # NoFd \/ CS!Free = {}
  <2>1. /\ UNCHANGED <<server, acceptor, kernel, owner, conns>>
        /\ trace' = [trace EXCEPT !.starts = @ + 1, !.failed = @ \/ FALSE]
    BY <1>1, Zenon DEF CS!Start, CppInv, CppTypes
  <2>2. trace'.late = trace.late /\ trace'.failed = trace.failed
        /\ trace' \in [starts : Nat, failed : BOOLEAN, late : SUBSET Nat]
    <3>1. trace' \in [starts : Nat, failed : BOOLEAN, late : SUBSET Nat]
          /\ trace'.late = trace.late /\ trace'.failed = (trace.failed \/ FALSE)
      BY <2>1, StartRecorded, Zenon DEF CppInv
    <3>2. trace.failed \in BOOLEAN
      BY DEF CppInv, CppTypes
    <3> QED
      BY <3>1, <3>2
  <2>3. CppTypes'
    BY <2>1, <2>2 DEF CppInv, CppTypes
  <2> QED
    BY <2>1, <2>2, <2>3 DEF CppInv, SocketLives, FdsOwned, ThreadServes, ListExact, StopShuts, Running, CS!Released
<1>2. CASE server.sockfd = NoFd /\ CS!Free # {}
  <2> DEFINE fd == CS!NewFd
  <2>1. /\ owner = "idle"
        /\ trace' = [trace EXCEPT !.starts = @ + 1, !.failed = @ \/ r # "ok"]
        /\ server' = [server EXCEPT !.sockfd = fd, !.joinable = r = "ok"]
        /\ acceptor' = IF r = "ok" THEN [pc |-> "accept", conn |-> 0] ELSE acceptor
        /\ kernel' = [open |-> kernel.open \cup {fd}, socks |-> kernel.socks \cup {fd},
                      shut |-> IF r = "bind" THEN kernel.shut \cup {fd} ELSE kernel.shut]
        /\ UNCHANGED <<owner, conns>>
    BY <1>2, Zenon DEF CS!Start
  <2>2. fd \in Fds /\ fd \notin kernel.open
    BY <1>2, NewFdFree DEF CS!Free, CppInv
  <2> HIDE DEF fd
  <2>3. CppTypes'
    <3>1. trace' \in [starts : Nat, failed : BOOLEAN, late : SUBSET Nat]
      BY <2>1, StartRecorded, Zenon DEF CppInv
    <3>2. kernel' \in [open : SUBSET Fds, shut : SUBSET Fds, socks : SUBSET Fds]
      BY <2>1, <2>2 DEF CppInv, CppTypes
    <3>3. server' \in [single : BOOLEAN, udp : BOOLEAN, sockfd : Fds \cup {NoFd}, list : SUBSET Fds, joinable : BOOLEAN]
      BY <2>1, <2>2, Zenon DEF CppInv, CppTypes
    <3> QED
      BY <2>1, <3>1, <3>2, <3>3 DEF CppInv, CppTypes
  <2>4. /\ trace'.late = trace.late /\ trace'.failed = (trace.failed \/ r # "ok")
        /\ server'.sockfd = fd /\ server'.joinable = (r = "ok")
        /\ server'.single = server.single /\ server'.list = server.list
    BY <2>1, StartRecorded, Zenon DEF CppInv, CppTypes
  <2>5. SocketLives'
    <3>1. fd # NoFd
      BY <2>2, ServicesAssumption DEF CS!Parameters
    <3> QED
      BY <2>1, <2>4, <3>1, Zenon DEF CppInv, SocketLives, CppTypes
  <2>6. FdsOwned'
    BY <2>1, <2>2 DEF CppInv, FdsOwned, Running
  <2>7. ThreadServes'
    BY <2>1, <1>2, <2>4 DEF CppInv, ThreadServes, SocketLives, Running
  <2>8. ListExact'
    BY <2>1, <2>4 DEF CppInv, ListExact
  <2>9. StopShuts'
    BY <2>1, <2>4 DEF CppInv, StopShuts, CS!Released
  <2> QED
    BY <2>3, <2>5, <2>6, <2>7, <2>8, <2>9 DEF CppInv
<1> QED
  BY <1>1, <1>2

\* Shutting down all registered descriptors.
LEMMA AllShut ==
  ASSUME CppInv, kernel' = CS!Unregistered, UNCHANGED <<server, conns>>
  PROVE  /\ kernel' \in [open : SUBSET Fds, shut : SUBSET Fds, socks : SUBSET Fds]
         /\ kernel'.socks = kernel.socks
         /\ FdsOwned'
         /\ \A k \in DOMAIN conns : conns[k].pc = "read" => CS!Released(k)'
<1>1. /\ kernel'.open = kernel.open /\ kernel'.shut = kernel.shut \cup server.list /\ kernel'.socks = kernel.socks
      /\ kernel' \in [open : SUBSET Fds, shut : SUBSET Fds, socks : SUBSET Fds]
  BY Zenon DEF CS!Unregistered, CppInv, CppTypes
<1>2. server.list \subseteq kernel.open
  BY DEF CppInv, ListExact, FdsOwned, Running
<1>3. FdsOwned'
  BY <1>1, <1>2 DEF CppInv, FdsOwned, Running
<1>4. \A k \in DOMAIN conns : conns[k].pc = "read" => CS!Released(k)'
  BY <1>1 DEF CppInv, ListExact, CS!Released
<1> QED
  BY <1>1, <1>3, <1>4

LEMMA CppStopClients == ASSUME CppInv, CS!StopClients PROVE CppInv'
<1>1. /\ owner = "idle" /\ server.sockfd # NoFd /\ kernel' = CS!Unregistered /\ owner' = "close"
      /\ UNCHANGED <<server, acceptor, conns, trace>>
  BY DEF CS!StopClients
<1>2. CppTypes'
  BY <1>1, AllShut DEF CppInv, CppTypes
<1>3. SocketLives'
  BY <1>1, AllShut DEF CppInv, SocketLives
<1>4. ThreadServes' /\ ListExact'
  BY <1>1 DEF CppInv, ThreadServes, ListExact, Running
<1>5. StopShuts'
  <2>1. \A k \in DOMAIN conns : conns[k].pc = "read" => CS!Released(k)'
    BY <1>1, AllShut
  <2> QED
    BY <1>1, <2>1 DEF StopShuts, CS!Released
<1> QED
  BY <1>1, <1>2, <1>3, <1>4, <1>5, AllShut DEF CppInv

LEMMA CppHandlerEnd == ASSUME CppInv, CS!HandlerEnd PROVE CppInv'
<1>1. /\ acceptor.pc = "final" /\ kernel' = CS!Unregistered /\ acceptor' = [acceptor EXCEPT !.pc = "ended"]
      /\ UNCHANGED <<server, owner, conns, trace>>
  BY DEF CS!HandlerEnd
<1>2. acceptor'.pc = "ended" /\ acceptor'.conn = acceptor.conn
      /\ acceptor' \in [pc : {"none", "accept", "register", "serve", "final", "ended"}, conn : Nat]
  BY <1>1 DEF CppInv, CppTypes
<1>3. CppTypes'
  BY <1>1, <1>2, AllShut DEF CppInv, CppTypes
<1>4. SocketLives'
  BY <1>1, <1>2, AllShut DEF CppInv, SocketLives
<1>5. ThreadServes' /\ ListExact'
  BY <1>1, <1>2 DEF CppInv, ThreadServes, ListExact, Running
<1>6. StopShuts'
  <2>1. \A k \in DOMAIN conns : conns[k].pc = "read" => CS!Released(k)'
    BY <1>1, AllShut
  <2> QED
    BY <1>1, <2>1 DEF StopShuts, CS!Released
<1> QED
  BY <1>1, <1>3, <1>4, <1>5, <1>6, AllShut DEF CppInv

LEMMA CppStopSocket == ASSUME CppInv, CS!StopSocket PROVE CppInv'
<1>1. /\ owner = "close" /\ kernel' = [kernel EXCEPT !.shut = @ \cup {server.sockfd}] /\ owner' = "join"
      /\ UNCHANGED <<server, acceptor, conns, trace>>
  BY DEF CS!StopSocket
<1>2. server.sockfd \in kernel.socks /\ server.sockfd \in Fds /\ server.sockfd \in kernel.open
  BY <1>1 DEF CppInv, SocketLives, FdsOwned, CppTypes
<1>3. /\ kernel'.open = kernel.open /\ kernel'.shut = kernel.shut \cup {server.sockfd} /\ kernel'.socks = kernel.socks
      /\ kernel' \in [open : SUBSET Fds, shut : SUBSET Fds, socks : SUBSET Fds]
  BY <1>1, <1>2 DEF CppInv, CppTypes
<1>4. CppTypes'
  BY <1>1, <1>3 DEF CppInv, CppTypes
<1>5. SocketLives'
  BY <1>1, <1>3 DEF CppInv, SocketLives
<1>6. FdsOwned' /\ ThreadServes' /\ ListExact'
  BY <1>1, <1>2, <1>3 DEF CppInv, FdsOwned, ThreadServes, ListExact, Running
<1>7. StopShuts'
  BY <1>1, <1>3 DEF CppInv, StopShuts, CS!Released
<1> QED
  BY <1>4, <1>5, <1>6, <1>7 DEF CppInv

LEMMA CppStopJoin == ASSUME CppInv, CS!StopJoin PROVE CppInv'
<1>1. /\ owner = "join" /\ (server.joinable => acceptor.pc = "ended")
      /\ UNCHANGED <<acceptor, conns, kernel, trace>>
  BY DEF CS!StopJoin
<1>2. CASE server.joinable
  <2>1. owner' = "idle" /\ server' = [server EXCEPT !.joinable = FALSE, !.sockfd = NoFd]
    BY <1>2 DEF CS!StopJoin, CS!Stopped
  <2>2. /\ server'.sockfd = NoFd /\ server'.list = server.list /\ server'.single = server.single
        /\ CppTypes'
    BY <1>1, <2>1, Zenon DEF CppInv, CppTypes
  <2> QED
    BY <1>1, <1>2, <2>1, <2>2 DEF CppInv, SocketLives, FdsOwned, ThreadServes, ListExact, StopShuts, Running, CS!Released
<1>3. CASE ~server.joinable
  <2>1. owner' = "terminated" /\ UNCHANGED server
    BY <1>3 DEF CS!StopJoin
  <2>2. CppTypes'
    BY <1>1, <2>1 DEF CppInv, CppTypes
  <2> QED
    BY <1>1, <1>3, <2>1, <2>2 DEF CppInv, SocketLives, FdsOwned, ThreadServes, ListExact, StopShuts, Running, CS!Released
<1> QED
  BY <1>2, <1>3

LEMMA CppDestroy == ASSUME CppInv, CS!Destroy PROVE CppInv'
<1>1. /\ owner = "idle" /\ server.sockfd = NoFd /\ owner' = "destroyed"
      /\ UNCHANGED <<server, acceptor, conns, kernel, trace>>
  BY DEF CS!Destroy
<1>2. CppTypes'
  BY <1>1 DEF CppInv, CppTypes
<1> QED
  BY <1>1, <1>2 DEF CppInv, SocketLives, FdsOwned, ThreadServes, ListExact, StopShuts, Running, CS!Released

\* Steps of the accepting thread that change nothing but its place.
LEMMA CppThreadGoesOn ==
  ASSUME CppInv, NEW pc \in {"accept", "final"}, acceptor' = [acceptor EXCEPT !.pc = pc],
         acceptor.pc = "accept" \/ (acceptor.pc = "serve" /\ conns[acceptor.conn].pc = "done"),
         UNCHANGED <<server, owner, conns, kernel, trace>>
  PROVE  CppInv'
<1>1. /\ acceptor'.pc = pc /\ acceptor'.conn = acceptor.conn
      /\ acceptor' \in [pc : {"none", "accept", "register", "serve", "final", "ended"}, conn : Nat]
  BY DEF CppInv, CppTypes
<1>2. CppTypes'
  BY <1>1 DEF CppInv, CppTypes
<1> QED
  BY <1>1, <1>2 DEF CppInv, SocketLives, FdsOwned, ThreadServes, ListExact, StopShuts, Running, CS!Released

LEMMA CppAcceptFails == ASSUME CppInv, CS!AcceptFails PROVE CppInv'
BY CppThreadGoesOn DEF CS!AcceptFails

LEMMA CppAcceptError == ASSUME CppInv, CS!AcceptError PROVE CppInv'
BY CppThreadGoesOn DEF CS!AcceptError

LEMMA CppServed == ASSUME CppInv, CS!Served PROVE CppInv'
BY CppThreadGoesOn DEF CS!Served

LEMMA CppReceiveUdp == ASSUME CppInv, NEW size \in 0..1, CS!ReceiveUdp(size) PROVE CppInv'
<1>1. CASE size > 0
  <2>1. UNCHANGED <<server, owner, acceptor, conns, kernel, trace>>
    BY <1>1 DEF CS!ReceiveUdp
  <2> QED
    BY <2>1 DEF CppInv, CppTypes, SocketLives, FdsOwned, ThreadServes, ListExact, StopShuts, Running, CS!Released
<1>2. CASE ~(size > 0)
  BY <1>2, CppThreadGoesOn DEF CS!ReceiveUdp
<1> QED
  BY <1>1, <1>2

LEMMA CppAccept == ASSUME CppInv, CS!Accept PROVE CppInv'
<1> DEFINE fd == CS!NewFd
           n == Len(conns) + 1
           c == [fd |-> fd, pc |-> "new", peer |-> TRUE]
<1>1. /\ acceptor.pc = "accept" /\ CS!Free # {}
      /\ kernel' = [kernel EXCEPT !.open = @ \cup {fd}]
      /\ conns' = Append(conns, c)
      /\ acceptor' = [pc |-> "register", conn |-> n]
      /\ UNCHANGED <<server, owner, trace>>
  BY DEF CS!Accept
<1>2. fd \in Fds /\ fd \notin kernel.open
  BY <1>1, NewFdFree DEF CS!Free, CppInv
<1> HIDE DEF fd
<1>3. conns \in Seq(Conn) /\ c \in Conn
  BY <1>2 DEF CppInv, CppTypes, Conn
<1>4. /\ conns' \in Seq(Conn) /\ Len(conns') = n /\ DOMAIN conns' = DOMAIN conns \cup {n}
      /\ n \notin DOMAIN conns /\ n \in Nat
      /\ \A j \in DOMAIN conns : conns'[j] = conns[j]
      /\ conns'[n] = c
  <2> HIDE DEF c
  <2> QED
    BY <1>1, <1>3, Appended
<1>5. /\ kernel'.open = kernel.open \cup {fd} /\ kernel'.shut = kernel.shut /\ kernel'.socks = kernel.socks
      /\ kernel' \in [open : SUBSET Fds, shut : SUBSET Fds, socks : SUBSET Fds]
  BY <1>1, <1>2, Zenon DEF CppInv, CppTypes
<1>6. /\ acceptor'.pc = "register" /\ acceptor'.conn = n /\ n \in 0..n
      /\ acceptor' \in [pc : {"none", "accept", "register", "serve", "final", "ended"}, conn : Nat]
  BY <1>1, <1>4
<1>7. conns'[n].fd = fd /\ conns'[n].pc = "new"
  BY <1>4
<1> HIDE DEF n, c
<1>8. CppTypes'
  BY <1>1, <1>4, <1>5, <1>6 DEF CppInv, CppTypes
<1>9. SocketLives'
  BY <1>1, <1>5, <1>6 DEF CppInv, SocketLives
<1>10. FdsOwned'
  <2>1. kernel'.shut \subseteq kernel'.open
    BY <1>5 DEF CppInv, FdsOwned
  <2>2. \A k \in DOMAIN conns : Running(k) => conns[k].fd # fd
    BY <1>2 DEF CppInv, FdsOwned
  <2>3. \A j, k \in DOMAIN conns' : Running(j)' /\ Running(k)' /\ conns'[j].fd = conns'[k].fd => j = k
    BY <1>4, <1>7, <2>2 DEF CppInv, FdsOwned, Running
  <2>4. \A k \in DOMAIN conns' : Running(k)' => conns'[k].fd \notin kernel'.socks
    BY <1>2, <1>4, <1>5, <1>7 DEF CppInv, FdsOwned, Running
  <2>5. \A x : x \in kernel'.open <=> x \in kernel'.socks \/ \E k \in DOMAIN conns' : Running(k)' /\ x = conns'[k].fd
    BY <1>4, <1>5, <1>7 DEF CppInv, FdsOwned, Running
  <2> QED
    BY <2>1, <2>3, <2>4, <2>5 DEF FdsOwned
<1>11. ThreadServes'
  BY <1>1, <1>4, <1>6, <1>7 DEF CppInv, ThreadServes, Running
<1>12. ListExact'
  BY <1>1, <1>4, <1>7 DEF CppInv, ListExact
<1>13. StopShuts'
  BY <1>1, <1>4, <1>5, <1>6, <1>7 DEF CppInv, StopShuts, CS!Released
<1> QED
  BY <1>8, <1>9, <1>10, <1>11, <1>12, <1>13 DEF CppInv

\* A connection's thread, or its peer, changes its record.
ConnMoved(k, pc) ==
  /\ conns' \in Seq(Conn) /\ Len(conns') = Len(conns) /\ DOMAIN conns' = DOMAIN conns
  /\ \A j \in DOMAIN conns : /\ conns'[j].fd = conns[j].fd /\ conns'[j].peer = conns[j].peer
                             /\ conns'[j].pc = IF j = k THEN pc ELSE conns[j].pc

LEMMA ConnMoves ==
  ASSUME CppTypes, NEW k \in DOMAIN conns, NEW pc \in {"new", "read", "erase", "close", "done"},
         conns' = [conns EXCEPT ![k].pc = pc]
  PROVE  ConnMoved(k, pc)
<1> DEFINE r == [conns[k] EXCEPT !.pc = pc]
<1>1. conns \in Seq(Conn) /\ conns[k] \in Conn
  BY DEF CppTypes
<1>2. r \in Conn /\ r.fd = conns[k].fd /\ r.peer = conns[k].peer /\ r.pc = pc
  BY <1>1 DEF Conn
<1>3. conns' = [conns EXCEPT ![k] = r]
  OBVIOUS
<1> HIDE DEF r
<1> QED
  BY <1>1, <1>2, <1>3, Changed DEF ConnMoved

LEMMA CppRegister == ASSUME CppInv, CS!Register PROVE CppInv'
<1> DEFINE n == acceptor.conn
<1>1. /\ acceptor.pc = "register"
      /\ server' = [server EXCEPT !.list = @ \cup {conns[n].fd}]
      /\ trace' = [trace EXCEPT !.late = IF owner \in {"close", "join"} THEN @ \cup {n} ELSE @]
      /\ acceptor' = [acceptor EXCEPT !.pc = IF server.single THEN "serve" ELSE "accept"]
      /\ conns' = [conns EXCEPT ![n].pc = "read"]
      /\ UNCHANGED <<owner, kernel>>
  BY DEF CS!Register
<1>2. n \in DOMAIN conns /\ conns[n].pc = "new" /\ conns[n] \in Conn /\ conns[n].fd \in Fds /\ n \in Nat
  <2>1. n \in DOMAIN conns /\ conns[n].pc = "new"
    BY <1>1 DEF CppInv, ThreadServes
  <2>2. conns \in Seq(Conn) /\ n \in Nat
    BY DEF CppInv, CppTypes
  <2>3. conns[n] \in Conn
    BY <2>1, <2>2
  <2> QED
    BY <2>1, <2>2, <2>3 DEF Conn
<1>3. ConnMoved(n, "read")
  BY <1>1, <1>2, ConnMoves, Zenon DEF CppInv
<1>4. /\ server'.list = server.list \cup {conns[n].fd} /\ server'.single = server.single
      /\ server'.sockfd = server.sockfd /\ server'.joinable = server.joinable
      /\ server' \in [single : BOOLEAN, udp : BOOLEAN, sockfd : Fds \cup {NoFd}, list : SUBSET Fds, joinable : BOOLEAN]
  BY <1>1, <1>2, Zenon DEF CppInv, CppTypes
<1>5. /\ trace'.failed = trace.failed /\ trace.late \subseteq trace'.late
      /\ owner \in {"close", "join"} => n \in trace'.late
      /\ trace' \in [starts : Nat, failed : BOOLEAN, late : SUBSET Nat]
  BY <1>1, <1>2, Zenon DEF CppInv, CppTypes
<1>6. /\ acceptor'.conn = n /\ acceptor'.pc = IF server.single THEN "serve" ELSE "accept"
      /\ acceptor' \in [pc : {"none", "accept", "register", "serve", "final", "ended"}, conn : Nat]
  BY <1>1 DEF CppInv, CppTypes
<1> HIDE DEF n
<1>7. CppTypes'
  BY <1>1, <1>3, <1>4, <1>5, <1>6 DEF n, CppInv, CppTypes, ConnMoved
<1>8. SocketLives'
  BY <1>1, <1>4, <1>5, <1>6 DEF CppInv, SocketLives
<1>9. FdsOwned'
  BY <1>1, <1>2, <1>3 DEF CppInv, FdsOwned, ConnMoved, Running
<1>10. ThreadServes'
  BY <1>1, <1>2, <1>3, <1>4, <1>6 DEF n, CppInv, ThreadServes, ConnMoved, Running
<1>11. ListExact'
  BY <1>2, <1>3, <1>4 DEF CppInv, ListExact, ConnMoved
<1>12. StopShuts'
  BY <1>1, <1>3, <1>5, <1>6 DEF CppInv, StopShuts, CS!Released, ConnMoved
<1> QED
  BY <1>7, <1>8, <1>9, <1>10, <1>11, <1>12 DEF CppInv

LEMMA CppReadEnds == ASSUME CppInv, NEW k \in DOMAIN conns, CS!ReadEnds(k) PROVE CppInv'
<1>1. conns[k].pc = "read" /\ ConnMoved(k, "erase") /\ UNCHANGED <<server, owner, acceptor, kernel, trace>>
  BY ConnMoves, Zenon DEF CS!ReadEnds, CppInv
<1>2. CppTypes'
  BY <1>1 DEF CppInv, CppTypes, ConnMoved
<1>3. SocketLives' /\ FdsOwned'
  BY <1>1 DEF CppInv, SocketLives, FdsOwned, ConnMoved, Running
<1>4. ThreadServes'
  BY <1>1 DEF CppInv, ThreadServes, ConnMoved, Running
<1>5. ListExact' /\ StopShuts'
  BY <1>1 DEF CppInv, ListExact, StopShuts, CS!Released, ConnMoved
<1> QED
  BY <1>2, <1>3, <1>4, <1>5 DEF CppInv

LEMMA CppErase == ASSUME CppInv, NEW k \in DOMAIN conns, CS!Erase(k) PROVE CppInv'
<1>1. /\ conns[k].pc = "erase" /\ ConnMoved(k, "close") /\ UNCHANGED <<owner, acceptor, kernel, trace>>
      /\ server' = [server EXCEPT !.list = @ \ {conns[k].fd}]
  BY ConnMoves, Zenon DEF CS!Erase, CppInv
<1>2. /\ server'.list = server.list \ {conns[k].fd} /\ server'.single = server.single
      /\ server'.sockfd = server.sockfd /\ server'.joinable = server.joinable
      /\ server' \in [single : BOOLEAN, udp : BOOLEAN, sockfd : Fds \cup {NoFd}, list : SUBSET Fds, joinable : BOOLEAN]
  BY <1>1 DEF CppInv, CppTypes
<1>3. CppTypes'
  BY <1>1, <1>2 DEF CppInv, CppTypes, ConnMoved
<1>4. SocketLives' /\ FdsOwned'
  BY <1>1, <1>2, SMTT(60) DEF CppInv, SocketLives, FdsOwned, ConnMoved, Running
<1>5. ThreadServes' /\ StopShuts'
  BY <1>1, <1>2 DEF CppInv, ThreadServes, StopShuts, CS!Released, ConnMoved, Running
<1>6. ListExact'
  BY <1>1, <1>2, SMTT(60) DEF CppInv, ListExact, FdsOwned, ConnMoved, Running
<1> QED
  BY <1>3, <1>4, <1>5, <1>6 DEF CppInv

LEMMA CppClose == ASSUME CppInv, NEW k \in DOMAIN conns, CS!Close(k) PROVE CppInv'
<1>1. /\ conns[k].pc = "close" /\ ConnMoved(k, "done") /\ UNCHANGED <<server, owner, acceptor, trace>>
      /\ kernel' = [kernel EXCEPT !.open = @ \ {conns[k].fd}, !.shut = @ \ {conns[k].fd}]
  BY ConnMoves, Zenon DEF CS!Close, CppInv
<1>2. /\ kernel'.open = kernel.open \ {conns[k].fd} /\ kernel'.shut = kernel.shut \ {conns[k].fd}
      /\ kernel'.socks = kernel.socks
      /\ kernel' \in [open : SUBSET Fds, shut : SUBSET Fds, socks : SUBSET Fds]
  BY <1>1, Zenon DEF CppInv, CppTypes
<1>3. CppTypes'
  BY <1>1, <1>2 DEF CppInv, CppTypes, ConnMoved
<1>4. SocketLives' /\ ThreadServes' /\ ListExact'
  BY <1>1, <1>2, SMTT(60) DEF CppInv, SocketLives, ThreadServes, ListExact, ConnMoved, Running
<1>5. FdsOwned'
  <2>1. \A x : x \in kernel'.open <=> x \in kernel'.socks \/ \E j \in DOMAIN conns' : Running(j)' /\ x = conns'[j].fd
    BY <1>1, <1>2 DEF CppInv, FdsOwned, ConnMoved, Running
  <2> QED
    BY <1>1, <1>2, <2>1 DEF CppInv, FdsOwned, ConnMoved, Running
<1>6. StopShuts'
  <2>1. \A j \in DOMAIN conns : j # k /\ Running(j) => conns[j].fd # conns[k].fd
    BY <1>1 DEF CppInv, FdsOwned, Running
  <2> QED
    BY <1>1, <1>2, <2>1 DEF CppInv, StopShuts, CS!Released, ConnMoved, Running
<1> QED
  BY <1>3, <1>4, <1>5, <1>6 DEF CppInv

LEMMA CppPeerCloses == ASSUME CppInv, NEW k \in DOMAIN conns, CS!PeerCloses(k) PROVE CppInv'
<1> DEFINE r == [conns[k] EXCEPT !.peer = FALSE]
<1>1. conns' = [conns EXCEPT ![k] = r] /\ UNCHANGED <<server, owner, acceptor, kernel, trace>>
  BY DEF CS!PeerCloses
<1>2. conns \in Seq(Conn) /\ conns[k] \in Conn
  BY DEF CppInv, CppTypes
<1>3. r \in Conn /\ r.fd = conns[k].fd /\ r.pc = conns[k].pc /\ r.peer = FALSE
  BY <1>2, Zenon DEF Conn
<1> HIDE DEF r
<1>4. /\ conns' \in Seq(Conn) /\ Len(conns') = Len(conns) /\ DOMAIN conns' = DOMAIN conns
      /\ \A j \in DOMAIN conns : /\ conns'[j].fd = conns[j].fd /\ conns'[j].pc = conns[j].pc
                                 /\ conns'[j].peer => conns[j].peer
  BY <1>1, <1>2, <1>3, Changed
<1>5. CppTypes'
  BY <1>1, <1>4 DEF CppInv, CppTypes
<1>6. SocketLives' /\ FdsOwned'
  BY <1>1, <1>4 DEF CppInv, SocketLives, FdsOwned, Running
<1>7. ThreadServes' /\ ListExact'
  BY <1>1, <1>4 DEF CppInv, ThreadServes, ListExact, Running
<1>8. StopShuts'
  BY <1>1, <1>4 DEF CppInv, StopShuts, CS!Released
<1> QED
  BY <1>5, <1>6, <1>7, <1>8 DEF CppInv

LEMMA CppSteps == ASSUME CppInv, CS!Next PROVE CppInv'
<1>1. CASE CS!Owner
  BY <1>1, CppStart, CppStopClients, CppDestroy DEF CS!Owner
<1>2. CASE CS!Threads
  <2>1. CASE \E k \in DOMAIN conns : CS!ReadEnds(k) \/ CS!Erase(k) \/ CS!Close(k)
    BY <2>1, CppReadEnds, CppErase, CppClose
  <2>2. CASE CS!ReceiveUdp(0)
    BY <2>2, CppReceiveUdp
  <2> QED
    BY <1>2, <2>1, <2>2, CppStopSocket, CppStopJoin, CppAcceptFails, CppRegister, CppServed, CppHandlerEnd
    DEF CS!Threads
<1>3. CASE \E size \in 0..1 : CS!ReceiveUdp(size)
  BY <1>3, CppReceiveUdp
<1>4. CASE \E k \in DOMAIN conns : CS!PeerCloses(k)
  BY <1>4, CppPeerCloses
<1> QED
  BY <1>1, <1>2, <1>3, <1>4, CppAccept, CppAcceptError DEF CS!Next

\* The invariant gives the four properties of the server.
LEMMA CppReleases ==
  ASSUME CppInv
  PROVE  CS!StopReleases /\ CS!NobodyLeftConnected /\ CS!RegisteredOpen /\ CS!OnlyFailedStartTerminates
<1>1. CS!StopReleases
  BY DEF CppInv, StopShuts, CS!StopReleases, CS!Reading
<1>2. CS!NobodyLeftConnected
  BY DEF CppInv, StopShuts, CS!NobodyLeftConnected, CS!Reading, SocketLives, ThreadServes, Running
<1>3. \A fd \in server.list : \E k \in DOMAIN conns : conns[k].fd = fd /\ conns[k].pc \in {"read", "erase"}
  BY DEF CppInv, ListExact
<1>4. kernel.open = kernel.socks \cup {conns[k].fd : k \in {j \in DOMAIN conns : conns[j].pc # "done"}}
  BY DEF CppInv, FdsOwned, Running
<1>5. CS!OnlyFailedStartTerminates
  BY DEF CppInv, SocketLives, CS!OnlyFailedStartTerminates
<1> QED
  BY <1>1, <1>2, <1>3, <1>4, <1>5 DEF CS!RegisteredOpen

\* The header-only server names only its own descriptors, releases every client when
\* it is stopped and leaves none connected, for any number of clients and descriptors,
\* in every interleaving of Stop, server_handler and the handlers.
THEOREM ServerLetsGo == Spec => []ServerReleases
<1> DEFINE I == part = "cpp" => CppInv
<1>1. Init => I
  BY CppBegins DEF Init
<1>2. I /\ [Next]_vars => I'
  <2> SUFFICES ASSUME I, [Next]_vars PROVE I'
    OBVIOUS
  <2>1. CASE CppStep
    BY <2>1, CppSteps DEF CppStep, RestCpp
  <2>2. CASE ~CppStep
    <3>1. part' = part /\ (part = "cpp" => UNCHANGED cppVars)
      BY <2>2 DEF Next, UdpStep, OtaStep, LogStep, FileStep, LcdStep, PanelStep, PidStep, SumStep, AlgStep,
                  RestUdp, RestOta, RestLog, RestFile, RestLcd, RestPanel, RestPid, RestSum, RestAlg, vars
    <3> QED
      BY <3>1 DEF cppVars, CppInv, CppTypes, SocketLives, FdsOwned, ThreadServes, ListExact, StopShuts, Running, CS!Released
  <2> QED
    BY <2>1, <2>2
<1>3. I => ServerReleases
  BY CppReleases DEF ServerReleases, StopReleases, NobodyLeftConnected, RegisteredOpen, OnlyFailedStartTerminates
<1> QED
  BY <1>1, <1>2, <1>3, PTL DEF Spec

-----------------------------------------------------------------------------
(***************************************************************************)
(* The firmware server.                                                    *)
(***************************************************************************)
Page == [of : Nat, n : Nat]
Link == [pc : {"out", "serve", "source", "check", "copy"}, left : 0..(Span - 1), src : Nat, told : Nat,
         pages : Seq(Page), got : Nat]
MainPc == {"free", "load", "read", "start", "version", "wait", "stop", "laststop", "exit"}

OtaTypes ==
  /\ main \in [pc : MainPc, running : BOOLEAN]
  /\ image \in [firmware : Nat, version : Nat, filesize : Nat, live : SUBSET Nat, len : Seq(Sizes)]
  /\ link \in [Peers -> Link]
  /\ mark \in [overlap : SUBSET Peers, early : SUBSET Peers, bad : SUBSET Peers, twice : BOOLEAN, failed : BOOLEAN]
  /\ image.firmware <= Len(image.len) /\ \A i \in image.live : i <= Len(image.len)

\* What main has loaded and not freed, by the place it is at.
ImageLoaded ==
  /\ main.pc \in {"read", "start", "version", "wait"} => Len(image.len) > 0 /\ image.filesize = image.len[Len(image.len)]
  /\ main.pc \in {"start", "version", "wait"} => image.firmware = Len(image.len)
  /\ main.pc = "wait" => image.version = image.firmware
  /\ main.pc \in {"free", "stop", "start", "version", "wait"} => image.firmware \in image.live
  /\ main.running => main.pc \in {"version", "wait", "stop", "laststop"}
  /\ mark.twice => mark.failed

\* A client l that an image fw of f bytes alone has served has got it up to its offset,
\* or to the end if the last page was short; between the parts of get_next_page the
\* rest of the image and the source are right.
Served(l, f, fw) ==
  LET at == OTA_PAGE_SIZE * Len(l.pages) IN
  /\ l.told \in {0, f} /\ (l.pages # <<>> \/ l.pc # "serve" => l.told = f)
  /\ \A k \in DOMAIN l.pages : l.pages[k].of = fw
  /\ \/ at <= f /\ l.got = at /\ (l.pages # <<>> => l.pages[Len(l.pages)].n = OTA_PAGE_SIZE)
     \/ f < at /\ at < f + OTA_PAGE_SIZE /\ l.got = f
  /\ l.pc # "serve" /\ at <= f => l.left = f - at
  /\ l.pc \in {"check", "copy"} => l.src = fw
  /\ l.pc = "copy" => at < f

Clean(p) == link[p].pc # "out" /\ p \notin mark.overlap

CleanServed ==
  \A p \in Peers : Clean(p) => main.pc \in {"version", "wait"} /\ Served(link[p], image.filesize, image.firmware)

BadSeen == \A p \in mark.bad : p \notin mark.overlap => Clean(p) /\ image.filesize < VersionAt

OtaInv == OtaTypes /\ ImageLoaded /\ CleanServed /\ BadSeen

LEMMA OtaBegins == ASSUME OT!Init PROVE OtaInv
<1>1. Span \in Nat \ {0}
  BY ServicesAssumption DEF OT!Parameters
<1>2. OT!Idle \in Link
  BY <1>1 DEF OT!Idle, Link, Page
<1>3. link = [p \in Peers |-> OT!Idle] /\ OT!Idle.pc = "out"
  BY DEF OT!Init, OT!Idle
<1>4. image \in [firmware : Nat, version : Nat, filesize : Nat, live : SUBSET Nat, len : Seq(Sizes)]
  BY DEF OT!Init
<1>5. OtaTypes
  BY <1>2, <1>3, <1>4 DEF OT!Init, OtaTypes, MainPc
<1>6. ImageLoaded /\ BadSeen
  BY DEF OT!Init, ImageLoaded, BadSeen
<1>7. CleanServed
  BY <1>3 DEF CleanServed, Clean
<1> QED
  BY <1>5, <1>6, <1>7 DEF OtaInv

\* A step of main after which no client is clean.
LEMMA OtaMain ==
  ASSUME OtaInv, OtaTypes', ImageLoaded', UNCHANGED link, mark'.bad = mark.bad, mark.overlap \subseteq mark'.overlap,
         main.pc \in {"version", "wait"} => OT!Connected \subseteq mark'.overlap
  PROVE  OtaInv'
<1>1. \A p \in Peers : ~Clean(p)'
  BY DEF OtaInv, CleanServed, Clean, OT!Connected
<1>2. mark'.bad \subseteq mark'.overlap
  BY DEF OtaInv, OtaTypes, BadSeen, CleanServed, Clean, OT!Connected
<1> QED
  BY <1>1, <1>2 DEF OtaInv, CleanServed, BadSeen

LEMMA OtaRestart == ASSUME OtaInv, OT!Restart PROVE OtaInv'
<1>1. /\ main.pc = "free" /\ main' = [main EXCEPT !.pc = "load"] /\ UNCHANGED link
      /\ image' = [image EXCEPT !.live = (@ \ {image.firmware}) \cup {0}]
      /\ mark' = [mark EXCEPT !.twice = @ \/ OT!Again]
  BY Zenon DEF OT!Restart, OT!Freed, OT!To, OtaInv, OtaTypes
<1>2. ~OT!Again
  BY <1>1 DEF OtaInv, ImageLoaded, OT!Again
<1>3. mark' = mark
  BY <1>1, <1>2 DEF OtaInv, OtaTypes
<1>4. OtaTypes'
  BY <1>1, <1>3 DEF OtaInv, OtaTypes, MainPc
<1>5. ImageLoaded'
  BY <1>1, <1>3 DEF OtaInv, OtaTypes, ImageLoaded
<1> QED
  BY <1>1, <1>3, <1>4, <1>5, OtaMain

LEMMA OtaLoadSize == ASSUME OtaInv, NEW size \in Sizes, OT!LoadSize(size) PROVE OtaInv'
<1>1. /\ main.pc = "load" /\ main' = [main EXCEPT !.pc = "read"] /\ UNCHANGED <<link, mark>>
      /\ image' = [image EXCEPT !.filesize = size, !.len = Append(@, size)]
  BY DEF OT!LoadSize, OT!To
<1>2. size \in Nat
  BY ServicesAssumption DEF OT!Parameters
<1>3. image.len \in Seq(Sizes)
  BY DEF OtaInv, OtaTypes
<1>4. /\ image'.len = Append(image.len, size) /\ image'.firmware = image.firmware /\ image'.live = image.live
      /\ image'.filesize = size /\ image'.version = image.version
  BY <1>1 DEF OtaInv, OtaTypes
<1>5. image'.len \in Seq(Sizes) /\ Len(image'.len) = Len(image.len) + 1 /\ image'.len[Len(image'.len)] = size
  BY <1>3, <1>4, Appended
<1>6. image' \in [firmware : Nat, version : Nat, filesize : Nat, live : SUBSET Nat, len : Seq(Sizes)]
  <2> DEFINE t == Append(image.len, size)
  <2>1. t \in Seq(Sizes) /\ image' = [image EXCEPT !.filesize = size, !.len = t]
    BY <1>1, <1>4, <1>5
  <2> HIDE DEF t
  <2> QED
    BY <1>2, <2>1, Zenon DEF OtaInv, OtaTypes
<1>7. OtaTypes'
  BY <1>1, <1>3, <1>4, <1>5, <1>6 DEF OtaInv, OtaTypes, MainPc
<1>8. ImageLoaded'
  BY <1>1, <1>3, <1>4, <1>5 DEF OtaInv, OtaTypes, ImageLoaded
<1> QED
  BY <1>1, <1>7, <1>8, OtaMain

LEMMA OtaLoadRead == ASSUME OtaInv, OT!LoadRead PROVE OtaInv'
<1> DEFINE n == Len(image.len)
<1>1. /\ main.pc = "read" /\ main' = [main EXCEPT !.pc = "start"] /\ UNCHANGED <<link, mark>>
      /\ image' = [image EXCEPT !.firmware = n, !.live = @ \cup {n}]
  BY DEF OT!LoadRead, OT!To
<1>2. image.len \in Seq(Sizes) /\ n \in Nat
  BY DEF OtaInv, OtaTypes
<1>3. OtaTypes'
  <2>1. /\ image' \in [firmware : Nat, version : Nat, filesize : Nat, live : SUBSET Nat, len : Seq(Sizes)]
        /\ image'.firmware = n /\ image'.live = image.live \cup {n} /\ image'.len = image.len
    BY <1>1, <1>2, Zenon DEF OtaInv, OtaTypes
  <2>2. main' \in [pc : MainPc, running : BOOLEAN]
    BY <1>1 DEF OtaInv, OtaTypes, MainPc
  <2> QED
    BY <1>1, <1>2, <2>1, <2>2 DEF OtaInv, OtaTypes
<1>4. ImageLoaded'
  BY <1>1, <1>2 DEF OtaInv, OtaTypes, ImageLoaded
<1> QED
  BY <1>1, <1>3, <1>4, OtaMain

LEMMA OtaLoadFails == ASSUME OtaInv, OT!LoadFails PROVE OtaInv'
<1>1. /\ main.pc \in {"load", "read"} /\ main' = [main EXCEPT !.pc = "exit"] /\ UNCHANGED link
      /\ image' = [image EXCEPT !.live = (@ \ {image.firmware}) \cup {0}]
      /\ mark' = [mark EXCEPT !.twice = @ \/ OT!Again, !.failed = TRUE]
  BY Zenon DEF OT!LoadFails, OT!Freed, OT!To, OtaInv, OtaTypes
<1>2. /\ mark'.overlap = mark.overlap /\ mark'.bad = mark.bad /\ mark'.failed = TRUE
      /\ mark' \in [overlap : SUBSET Peers, early : SUBSET Peers, bad : SUBSET Peers, twice : BOOLEAN, failed : BOOLEAN]
  <2>1. (mark.twice \/ OT!Again) \in BOOLEAN
    OBVIOUS
  <2> HIDE DEF OT!Again
  <2> QED
    BY <1>1, <2>1, Zenon DEF OtaInv, OtaTypes
<1>3. OtaTypes'
  <2>1. /\ image' \in [firmware : Nat, version : Nat, filesize : Nat, live : SUBSET Nat, len : Seq(Sizes)]
        /\ image'.firmware = image.firmware /\ image'.len = image.len
        /\ image'.live \subseteq image.live \cup {0}
    <3> DEFINE t == (image.live \ {image.firmware}) \cup {0}
    <3>1. t \in SUBSET Nat /\ t \subseteq image.live \cup {0}
      BY DEF OtaInv, OtaTypes
    <3>2. image' = [image EXCEPT !.live = t]
      BY <1>1
    <3> HIDE DEF t
    <3> QED
      BY <3>1, <3>2 DEF OtaInv, OtaTypes
  <2>2. main' \in [pc : MainPc, running : BOOLEAN] /\ Len(image.len) \in Nat
    BY <1>1 DEF OtaInv, OtaTypes, MainPc
  <2> QED
    BY <1>1, <1>2, <2>1, <2>2 DEF OtaInv, OtaTypes
<1>4. ImageLoaded'
  BY <1>1, <1>2 DEF OtaInv, OtaTypes, ImageLoaded
<1> QED
  BY <1>1, <1>2, <1>3, <1>4, OtaMain

LEMMA OtaStartServer == ASSUME OtaInv, OT!StartServer PROVE OtaInv'
<1>1. /\ main.pc = "start" /\ main' = [pc |-> "version", running |-> TRUE] /\ UNCHANGED <<image, link, mark>>
  BY DEF OT!StartServer
<1>2. OtaTypes'
  BY <1>1 DEF OtaInv, OtaTypes, MainPc
<1>3. ImageLoaded'
  BY <1>1 DEF OtaInv, ImageLoaded
<1> QED
  BY <1>1, <1>2, <1>3, OtaMain

LEMMA OtaStartFails == ASSUME OtaInv, OT!StartFails PROVE OtaInv'
<1>1. /\ main.pc = "start" /\ main' = [main EXCEPT !.pc = "exit"] /\ UNCHANGED link
      /\ image' = [image EXCEPT !.live = @ \ {image.firmware}]
      /\ mark' = [mark EXCEPT !.twice = @ \/ OT!Again]
  BY DEF OT!StartFails, OT!Freed, OT!To
<1>2. ~OT!Again
  BY <1>1 DEF OtaInv, ImageLoaded, OT!Again
<1>3. mark' = mark
  BY <1>1, <1>2 DEF OtaInv, OtaTypes
<1>4. OtaTypes'
  BY <1>1, <1>3 DEF OtaInv, OtaTypes, MainPc
<1>5. ImageLoaded'
  BY <1>1, <1>3 DEF OtaInv, OtaTypes, ImageLoaded
<1> QED
  BY <1>1, <1>3, <1>4, <1>5, OtaMain

LEMMA OtaSetVersion == ASSUME OtaInv, OT!SetVersion PROVE OtaInv'
<1>1. /\ main.pc = "version" /\ main' = [main EXCEPT !.pc = "wait"] /\ UNCHANGED <<link, mark>>
      /\ image' = [image EXCEPT !.version = image.firmware]
  BY DEF OT!SetVersion, OT!To
<1>2. OtaTypes'
  BY <1>1 DEF OtaInv, OtaTypes, MainPc
<1>3. ImageLoaded'
  BY <1>1 DEF OtaInv, OtaTypes, ImageLoaded
<1>4. image'.filesize = image.filesize /\ image'.firmware = image.firmware /\ main'.pc = "wait"
  BY <1>1 DEF OtaInv, OtaTypes
<1>5. CleanServed'
  BY <1>1, <1>4 DEF OtaInv, CleanServed, Clean
<1>6. BadSeen'
  BY <1>1, <1>4 DEF OtaInv, BadSeen, Clean
<1> QED
  BY <1>2, <1>3, <1>5, <1>6 DEF OtaInv

LEMMA OtaModified == ASSUME OtaInv, OT!Modified PROVE OtaInv'
<1>1. /\ main.pc = "wait" /\ main' = [main EXCEPT !.pc = "stop"] /\ UNCHANGED <<image, link>>
      /\ mark' = [mark EXCEPT !.overlap = @ \cup OT!Connected]
  BY DEF OT!Modified, OT!To
<1>2. OT!Connected \subseteq Peers
  BY DEF OT!Connected
<1>3. OtaTypes'
  BY <1>1, <1>2 DEF OtaInv, OtaTypes, MainPc
<1>4. ImageLoaded'
  BY <1>1 DEF OtaInv, OtaTypes, ImageLoaded
<1>5. mark'.bad = mark.bad /\ mark'.overlap = mark.overlap \cup OT!Connected
  BY <1>1 DEF OtaInv, OtaTypes
<1> QED
  BY <1>1, <1>3, <1>4, <1>5, OtaMain

LEMMA OtaInterrupted == ASSUME OtaInv, OT!Interrupted PROVE OtaInv'
<1>1. /\ main.pc = "wait" /\ main' = [main EXCEPT !.pc = "laststop"] /\ UNCHANGED link
      /\ image' = [image EXCEPT !.live = @ \ {image.firmware}]
      /\ mark' = [mark EXCEPT !.overlap = @ \cup OT!Connected]
  BY DEF OT!Interrupted, OT!Freed, OT!To
<1>2. OT!Connected \subseteq Peers
  BY DEF OT!Connected
<1>3. OtaTypes'
  BY <1>1, <1>2, Zenon DEF OtaInv, OtaTypes, MainPc
<1>4. ImageLoaded'
  BY <1>1 DEF OtaInv, OtaTypes, ImageLoaded
<1>5. mark'.bad = mark.bad /\ mark'.overlap = mark.overlap \cup OT!Connected
  BY <1>1 DEF OtaInv, OtaTypes
<1> QED
  BY <1>1, <1>3, <1>4, <1>5, OtaMain

LEMMA OtaServerStopped == ASSUME OtaInv, OT!ServerStopped PROVE OtaInv'
<1>1. /\ main.pc \in {"stop", "laststop"} /\ UNCHANGED <<image, link, mark>>
      /\ main' = [pc |-> IF main.pc = "stop" THEN "free" ELSE "exit", running |-> FALSE]
  BY DEF OT!ServerStopped
<1>2. OtaTypes'
  BY <1>1 DEF OtaInv, OtaTypes, MainPc
<1>3. ImageLoaded'
  BY <1>1 DEF OtaInv, ImageLoaded
<1> QED
  BY <1>1, <1>2, <1>3, OtaMain

LEMMA OtaMainSteps == ASSUME OtaInv, OT!Main PROVE OtaInv'
BY OtaRestart, OtaLoadSize, OtaLoadRead, OtaLoadFails, OtaStartServer, OtaStartFails, OtaSetVersion,
   OtaModified, OtaInterrupted, OtaServerStopped
DEF OT!Main

\* A step of a client's thread changes its record, and perhaps its own marks.
OtaTouches(p, l) ==
  /\ link' = [link EXCEPT ![p] = l] /\ UNCHANGED <<main, image>>
  /\ mark' \in [overlap : SUBSET Peers, early : SUBSET Peers, bad : SUBSET Peers, twice : BOOLEAN, failed : BOOLEAN]
  /\ mark'.twice = mark.twice /\ mark'.failed = mark.failed
  /\ \A q \in Peers \ {p} : (q \in mark'.overlap <=> q \in mark.overlap) /\ (q \in mark'.bad <=> q \in mark.bad)

LEMMA OtaTouch ==
  ASSUME OtaInv, NEW p \in Peers, NEW l \in Link, OtaTouches(p, l),
         p \in mark'.bad /\ p \notin mark'.overlap => l.pc # "out" /\ image.filesize < VersionAt,
         l.pc # "out" /\ p \notin mark'.overlap => main.pc \in {"version", "wait"} /\ Served(l, image.filesize, image.firmware)
  PROVE  OtaInv'
<1>1. link' \in [Peers -> Link] /\ link'[p] = l /\ \A q \in Peers \ {p} : link'[q] = link[q]
  BY DEF OtaInv, OtaTypes, OtaTouches
<1>2. OtaTypes'
  BY <1>1 DEF OtaInv, OtaTypes, OtaTouches
<1>3. ImageLoaded'
  BY DEF OtaInv, ImageLoaded, OtaTouches
<1>4. CleanServed'
  <2> SUFFICES ASSUME NEW q \in Peers, Clean(q)'
               PROVE  main'.pc \in {"version", "wait"} /\ Served(link'[q], image'.filesize, image'.firmware)
    BY DEF CleanServed
  <2>1. main' = main /\ image' = image
    BY DEF OtaTouches
  <2>2. CASE q = p
    BY <1>1, <2>1, <2>2 DEF Clean
  <2>3. CASE q # p
    <3>1. Clean(q)
      BY <1>1, <2>3 DEF Clean, OtaTouches
    <3> QED
      BY <1>1, <2>1, <2>3, <3>1 DEF OtaInv, CleanServed
  <2> QED
    BY <2>2, <2>3
<1>5. BadSeen'
  BY <1>1 DEF OtaInv, OtaTypes, BadSeen, Clean, OtaTouches
<1> QED
  BY <1>2, <1>3, <1>4, <1>5 DEF OtaInv

LEMMA OtaParameters ==
  /\ OTA_PAGE_SIZE \in Nat /\ OTA_PAGE_SIZE > 0 /\ Span \in Nat /\ Span > 0 /\ VersionAt \in Nat
  /\ Sizes \subseteq Nat /\ \A s \in Sizes : s + OTA_PAGE_SIZE <= Span
BY ServicesAssumption DEF OT!Parameters

LEMMA OtaConnect == ASSUME OtaInv, NEW p \in Peers, OT!Connect(p) PROVE OtaInv'
<1> DEFINE l == [OT!Idle EXCEPT !.pc = "serve"]
<1>1. /\ link[p].pc = "out" /\ link' = [link EXCEPT ![p] = l] /\ UNCHANGED <<main, image>>
      /\ mark' = [mark EXCEPT !.overlap = IF main.pc \in {"stop", "laststop"} THEN @ \cup {p} ELSE @]
      /\ main.running
  BY DEF OT!Connect
<1>2. l = [pc |-> "serve", left |-> 0, src |-> 0, told |-> 0, pages |-> <<>>, got |-> 0]
  BY DEF OT!Idle
<1>3. l \in Link
  <2>1. OT!Idle \in Link
    <3>1. Span \in Nat \ {0}
      BY OtaParameters
    <3> QED
      BY <3>1 DEF OT!Idle, Link, Page
  <2> QED
    BY <2>1 DEF Link
<1>4. OtaTouches(p, l)
  BY <1>1 DEF OtaTouches, OtaInv, OtaTypes
<1>5. mark'.bad = mark.bad /\ (p \notin mark'.overlap => main.pc \in {"version", "wait"} /\ p \notin mark.overlap)
  BY <1>1 DEF OtaInv, OtaTypes, ImageLoaded
<1>6. Served(l, image.filesize, image.firmware)
  <2>1. Len(l.pages) = 0 /\ OTA_PAGE_SIZE * Len(l.pages) = 0 /\ DOMAIN l.pages = {} /\ l.pages = <<>>
    BY <1>2, OtaParameters
  <2>2. image.filesize \in Nat
    BY DEF OtaInv, OtaTypes
  <2> QED
    BY <1>2, <2>1, <2>2 DEF Served
<1>7. p \notin mark.bad \/ p \in mark.overlap
  BY <1>1 DEF OtaInv, BadSeen, Clean
<1> QED
  BY <1>3, <1>4, <1>5, <1>6, <1>7, OtaTouch

LEMMA OtaDisconnect == ASSUME OtaInv, NEW p \in Peers, OT!Disconnect(p) PROVE OtaInv'
<1>1. /\ link' = [link EXCEPT ![p] = OT!Idle] /\ UNCHANGED <<main, image>>
      /\ mark' = [mark EXCEPT !.overlap = @ \ {p}, !.early = @ \ {p}, !.bad = @ \ {p}]
  BY DEF OT!Disconnect
<1>2. OT!Idle = [pc |-> "out", left |-> 0, src |-> 0, told |-> 0, pages |-> <<>>, got |-> 0]
  BY DEF OT!Idle
<1>3. OT!Idle \in Link /\ OT!Idle.pc = "out"
  <2>1. Span \in Nat \ {0}
    BY OtaParameters
  <2>2. OT!Idle \in Link
    BY <2>1 DEF OT!Idle, Link, Page
  <2> QED
    BY <1>2, <2>2
<1>4. OtaTouches(p, OT!Idle) /\ p \notin mark'.bad
  BY <1>1, Zenon DEF OtaTouches, OtaInv, OtaTypes
<1> QED
  BY <1>3, <1>4, OtaTouch

\* What is known of a client that is connected and clean.
LEMMA CleanKnown ==
  ASSUME OtaInv, NEW p \in Peers, link[p].pc # "out", p \notin mark.overlap
  PROVE  /\ main.pc \in {"version", "wait"} /\ Served(link[p], image.filesize, image.firmware)
         /\ image.filesize \in Nat /\ image.filesize + OTA_PAGE_SIZE <= Span
         /\ main.pc = "wait" => image.version = image.firmware
         /\ image.firmware \in image.live \ {0} /\ image.len[image.firmware] = image.filesize
<1>1. main.pc \in {"version", "wait"} /\ Served(link[p], image.filesize, image.firmware)
  BY DEF OtaInv, CleanServed, Clean
<1>2. /\ image.len \in Seq(Sizes) /\ Len(image.len) > 0 /\ image.filesize = image.len[Len(image.len)]
      /\ image.firmware = Len(image.len) /\ image.firmware \in image.live
      /\ main.pc = "wait" => image.version = image.firmware
  BY <1>1 DEF OtaInv, OtaTypes, ImageLoaded
<1>3. image.filesize \in Sizes
  BY <1>2
<1>4. image.filesize \in Nat /\ image.filesize + OTA_PAGE_SIZE <= Span
  BY <1>3, OtaParameters, Zenon
<1>5. image.firmware # 0
  BY <1>2
<1> QED
  BY <1>1, <1>2, <1>4, <1>5

LEMMA Otaget_version == ASSUME OtaInv, NEW p \in Peers, OT!get_version(p) PROVE OtaInv'
<1> DEFINE l == [link[p] EXCEPT !.told = image.filesize]
           ok == image.version \in image.live \ {0} /\ image.len[image.version] >= VersionAt
<1>1. /\ link[p].pc = "serve" /\ link[p].told = 0 /\ link' = [link EXCEPT ![p] = l] /\ UNCHANGED <<main, image>>
      /\ mark' = [mark EXCEPT !.early = IF ok \/ main.pc # "version" THEN @ ELSE @ \cup {p},
                              !.bad = IF ok \/ main.pc = "version" THEN @ ELSE @ \cup {p}]
  BY DEF OT!get_version
<1>2. link[p] \in Link /\ image.filesize \in Nat
  BY DEF OtaInv, OtaTypes
<1>3. /\ l \in Link /\ l.pc = "serve" /\ l.told = image.filesize /\ l.pages = link[p].pages /\ l.got = link[p].got
      /\ l.left = link[p].left /\ l.src = link[p].src
  BY <1>1, <1>2, Zenon DEF Link
<1> HIDE DEF l, ok
<1>4. OtaTouches(p, l)
  BY <1>1, Zenon DEF OtaTouches, OtaInv, OtaTypes
<1>5. mark'.overlap = mark.overlap /\ mark'.bad = IF ok \/ main.pc = "version" THEN mark.bad ELSE mark.bad \cup {p}
  BY <1>1 DEF OtaInv, OtaTypes
<1>6. ASSUME p \notin mark.overlap
      PROVE  /\ main.pc \in {"version", "wait"} /\ Served(l, image.filesize, image.firmware)
             /\ ~ok /\ main.pc # "version" => image.filesize < VersionAt
  <2>1. /\ main.pc \in {"version", "wait"} /\ Served(link[p], image.filesize, image.firmware)
        /\ image.filesize \in Nat
        /\ main.pc = "wait" => image.version = image.firmware
        /\ image.firmware \in image.live \ {0} /\ image.len[image.firmware] = image.filesize
    BY <1>1, <1>6, CleanKnown
  <2>2. Served(l, image.filesize, image.firmware)
    BY <1>1, <1>3, <2>1 DEF Served
  <2> QED
    BY <2>1, <2>2, OtaParameters DEF ok
<1>7. p \in mark.bad /\ p \notin mark.overlap => image.filesize < VersionAt
  BY DEF OtaInv, BadSeen
<1> QED
  BY <1>3, <1>4, <1>5, <1>6, <1>7, OtaTouch

\* A number below the modulus is its own remainder.
LEMMA Below == \A x, m \in Nat : x < m => x % m = x
OBVIOUS

LEMMA RemainderIn == \A x, m \in Nat : m > 0 => x % m \in 0..(m - 1)
OBVIOUS

LEMMA AddModulus == \A x, m \in Nat : x < m => (x + m) % m = x
OBVIOUS

\* The offset of the next page of a clean client does not wrap.
LEMMA OffsetExact ==
  ASSUME NEW f \in Nat, NEW n \in Nat, f + OTA_PAGE_SIZE <= Span, OTA_PAGE_SIZE * n < f + OTA_PAGE_SIZE
  PROVE  /\ (OTA_PAGE_SIZE * n) % Span = OTA_PAGE_SIZE * n
         /\ OTA_PAGE_SIZE * n <= f => (f + Span - OTA_PAGE_SIZE * n) % Span = f - OTA_PAGE_SIZE * n
<1> DEFINE at == OTA_PAGE_SIZE * n
<1>1. at \in Nat /\ at < Span
  BY OtaParameters
<1> HIDE DEF at
<1>2. at % Span = at
  BY <1>1, OtaParameters, Below
<1>3. ASSUME at <= f PROVE (f + Span - at) % Span = f - at
  <2> DEFINE x == f - at
  <2>1. x \in Nat /\ x < Span /\ f + Span - at = x + Span
    BY <1>1, <1>3, OtaParameters
  <2> HIDE DEF x
  <2>2. (x + Span) % Span = x
    BY <2>1, OtaParameters, AddModulus
  <2> QED
    BY <2>1, <2>2 DEF x
<1> QED
  BY <1>2, <1>3 DEF at

\* The parts of get_next_page for a client that an image alone serves.
LEMMA Otaget_next_page == ASSUME OtaInv, NEW p \in Peers, OT!get_next_page(p) PROVE OtaInv'
<1> DEFINE n == Len(link[p].pages)
           off == OT!Offset(p)
           x == image.filesize + Span - off
           left == x % Span
           l == [link[p] EXCEPT !.pc = "source", !.left = left]
<1>1. /\ link[p].pc = "serve" /\ link[p].told > 0 /\ link' = [link EXCEPT ![p] = l] /\ UNCHANGED <<main, image, mark>>
  BY Zenon DEF OT!get_next_page
<1>2. link[p] \in Link /\ image.filesize \in Nat
  BY DEF OtaInv, OtaTypes
<1>3. n \in Nat /\ link[p].told \in Nat /\ link[p].pages \in Seq(Page)
  BY <1>2 DEF Link
<1>4. left \in 0..(Span - 1)
  <2>1. OTA_PAGE_SIZE * n \in Nat
    BY <1>3, OtaParameters
  <2>2. off \in 0..(Span - 1)
    BY <2>1, OtaParameters, RemainderIn, Zenon DEF OT!Offset
  <2> HIDE DEF off
  <2>3. x \in Nat
    BY <1>2, <2>2, OtaParameters
  <2> HIDE DEF x
  <2> QED
    BY <2>3, OtaParameters, RemainderIn
<1> HIDE DEF left, x, off
<1>5. /\ l \in Link /\ l.pc = "source" /\ l.told = link[p].told /\ l.pages = link[p].pages /\ l.got = link[p].got
      /\ l.left = left
  BY <1>2, <1>4, Zenon DEF Link
<1> HIDE DEF l
<1>6. OtaTouches(p, l)
  BY <1>1 DEF OtaTouches, OtaInv, OtaTypes
<1>7. ASSUME p \notin mark.overlap
      PROVE  main.pc \in {"version", "wait"} /\ Served(l, image.filesize, image.firmware)
  <2> DEFINE f == image.filesize
             at == OTA_PAGE_SIZE * n
  <2>1. main.pc \in {"version", "wait"} /\ Served(link[p], f, image.firmware) /\ f + OTA_PAGE_SIZE <= Span
    BY <1>1, <1>7, CleanKnown
  <2>2. link[p].told = f /\ at < f + OTA_PAGE_SIZE
    BY <1>1, <1>2, <1>3, <2>1, OtaParameters DEF Served
  <2>3. at <= f => left = f - at
    <3>1. at % Span = at /\ (at <= f => (f + Span - at) % Span = f - at)
      BY <1>2, <1>3, <2>1, <2>2, OffsetExact
    <3>2. off = at
      BY <3>1 DEF off, OT!Offset
    <3> QED
      BY <3>1, <3>2 DEF left, x
  <2>4. l.pages = link[p].pages /\ OTA_PAGE_SIZE * Len(l.pages) = at /\ OTA_PAGE_SIZE * Len(link[p].pages) = at
    BY <1>5
  <2> HIDE DEF f, at, n
  <2> QED
    BY <1>1, <1>5, <2>1, <2>2, <2>3, <2>4 DEF Served, f
<1>8. p \in mark.bad /\ p \notin mark.overlap => image.filesize < VersionAt
  BY DEF OtaInv, BadSeen
<1> QED
  BY <1>1, <1>5, <1>6, <1>7, <1>8, OtaTouch

LEMMA OtaPageSource == ASSUME OtaInv, NEW p \in Peers, OT!PageSource(p) PROVE OtaInv'
<1> DEFINE l == [link[p] EXCEPT !.pc = "check", !.src = image.firmware]
<1>1. /\ link[p].pc = "source" /\ link' = [link EXCEPT ![p] = l] /\ UNCHANGED <<main, image, mark>>
  BY Zenon DEF OT!PageSource
<1>2. link[p] \in Link /\ image.firmware \in Nat
  BY DEF OtaInv, OtaTypes
<1>3. /\ l \in Link /\ l.pc = "check" /\ l.told = link[p].told /\ l.pages = link[p].pages /\ l.got = link[p].got
      /\ l.left = link[p].left /\ l.src = image.firmware
  BY <1>2, Zenon DEF Link
<1> HIDE DEF l
<1>4. OtaTouches(p, l)
  BY <1>1 DEF OtaTouches, OtaInv, OtaTypes
<1>5. ASSUME p \notin mark.overlap
      PROVE  main.pc \in {"version", "wait"} /\ Served(l, image.filesize, image.firmware)
  <2>1. main.pc \in {"version", "wait"} /\ Served(link[p], image.filesize, image.firmware)
    BY <1>1, <1>5, CleanKnown
  <2> QED
    BY <1>1, <1>3, <2>1 DEF Served
<1>6. p \in mark.bad /\ p \notin mark.overlap => image.filesize < VersionAt
  BY DEF OtaInv, BadSeen
<1> QED
  BY <1>1, <1>3, <1>4, <1>5, <1>6, OtaTouch

LEMMA OtaPageCheck == ASSUME OtaInv, NEW p \in Peers, OT!PageCheck(p) PROVE OtaInv'
<1> DEFINE n == Len(link[p].pages)
           at == OTA_PAGE_SIZE * n
           pc == IF at % Span >= image.filesize THEN "serve" ELSE "copy"
           l == [link[p] EXCEPT !.pc = pc]
<1>1. /\ link[p].pc = "check" /\ link' = [link EXCEPT ![p] = l] /\ UNCHANGED <<main, image, mark>>
  BY DEF OT!PageCheck, OT!Offset
<1>2. link[p] \in Link /\ image.filesize \in Nat
  BY DEF OtaInv, OtaTypes
<1>3. n \in Nat /\ pc \in {"serve", "copy"}
  BY <1>2 DEF Link
<1> HIDE DEF pc
<1>4. /\ l \in Link /\ l.pc = pc /\ l.told = link[p].told /\ l.pages = link[p].pages /\ l.got = link[p].got
      /\ l.left = link[p].left /\ l.src = link[p].src
  BY <1>2, <1>3, Zenon DEF Link
<1> HIDE DEF l
<1>5. OtaTouches(p, l)
  BY <1>1 DEF OtaTouches, OtaInv, OtaTypes
<1>6. ASSUME p \notin mark.overlap
      PROVE  main.pc \in {"version", "wait"} /\ Served(l, image.filesize, image.firmware)
  <2>1. main.pc \in {"version", "wait"} /\ Served(link[p], image.filesize, image.firmware)
        /\ image.filesize + OTA_PAGE_SIZE <= Span
    BY <1>1, <1>6, CleanKnown
  <2>2. at < image.filesize + OTA_PAGE_SIZE
    BY <1>2, <1>3, <2>1, OtaParameters DEF Served
  <2>3. at % Span = at
    BY <1>2, <1>3, <2>1, <2>2, OffsetExact
  <2>4. pc = "copy" => at < image.filesize
    <3>1. at \in Nat
      BY <1>3, OtaParameters
    <3> HIDE DEF at
    <3>2. pc = IF at >= image.filesize THEN "serve" ELSE "copy"
      BY <2>3 DEF pc
    <3> QED
      BY <1>2, <3>1, <3>2
  <2> QED
    BY <1>1, <1>3, <1>4, <2>1, <2>4 DEF Served
<1>7. p \in mark.bad /\ p \notin mark.overlap => image.filesize < VersionAt
  BY DEF OtaInv, BadSeen
<1> QED
  BY <1>1, <1>3, <1>4, <1>5, <1>6, <1>7, OtaTouch

LEMMA OtaPageCopy == ASSUME OtaInv, NEW p \in Peers, OT!PageCopy(p) PROVE OtaInv'
<1> DEFINE k == link[p]
           at == OTA_PAGE_SIZE * Len(k.pages)
           n == IF k.left < OTA_PAGE_SIZE THEN k.left ELSE OTA_PAGE_SIZE
           page == [of |-> k.src, n |-> n]
           inside == k.src \in image.live \ {0} /\ (at % Span) + n <= image.len[k.src]
           l == [k EXCEPT !.pc = "serve", !.pages = Append(@, page), !.got = @ + n]
<1>1. /\ k.pc = "copy" /\ link' = [link EXCEPT ![p] = l] /\ UNCHANGED <<main, image>>
      /\ mark' = [mark EXCEPT !.bad = IF inside THEN @ ELSE @ \cup {p}]
  BY Zenon DEF OT!PageCopy, OT!PageLength, OT!Offset
<1>2. k \in Link /\ image.filesize \in Nat
  BY DEF OtaInv, OtaTypes
<1>3. k.pages \in Seq(Page) /\ k.left \in Nat /\ k.src \in Nat /\ k.got \in Nat /\ n \in Nat /\ n <= OTA_PAGE_SIZE
  BY <1>2, OtaParameters DEF Link
<1> HIDE DEF n
<1>4. page \in Page /\ page.of = k.src /\ page.n = n
  BY <1>3 DEF Page
<1> HIDE DEF page
<1> DEFINE pages == Append(k.pages, page)
<1>5. /\ pages \in Seq(Page) /\ Len(pages) = Len(k.pages) + 1 /\ DOMAIN pages = DOMAIN k.pages \cup {Len(pages)}
      /\ \A j \in DOMAIN k.pages : pages[j] = k.pages[j]
      /\ pages[Len(pages)] = page /\ pages # <<>>
  BY <1>3, <1>4, Appended
<1>6. /\ l \in Link /\ l.pc = "serve" /\ l.told = k.told /\ l.pages = pages /\ l.got = k.got + n
  <2>1. l = [k EXCEPT !.pc = "serve", !.pages = pages, !.got = k.got + n] /\ k.got + n \in Nat
    BY <1>2, <1>3 DEF Link
  <2> HIDE DEF pages, l
  <2> QED
    BY <1>2, <1>5, <2>1, Zenon DEF Link
<1> HIDE DEF l, pages, inside
<1>7. OtaTouches(p, l)
  BY <1>1 DEF OtaTouches, OtaInv, OtaTypes
<1>8. mark'.overlap = mark.overlap /\ mark'.bad = IF inside THEN mark.bad ELSE mark.bad \cup {p}
  BY <1>1 DEF OtaInv, OtaTypes
<1>9. ASSUME p \notin mark.overlap
      PROVE  main.pc \in {"version", "wait"} /\ Served(l, image.filesize, image.firmware) /\ inside
  <2> DEFINE f == image.filesize
             m == Len(k.pages)
  <2>1. /\ main.pc \in {"version", "wait"} /\ Served(k, f, image.firmware) /\ f + OTA_PAGE_SIZE <= Span
        /\ image.firmware \in image.live \ {0} /\ image.len[image.firmware] = f
    BY <1>1, <1>9, CleanKnown
  <2>2. /\ k.told = f /\ at < f /\ k.left = f - at /\ k.src = image.firmware /\ k.got = at
        /\ \A j \in DOMAIN k.pages : k.pages[j].of = image.firmware
    BY <1>1, <1>2, <2>1, OtaParameters DEF Served
  <2>3. m \in Nat /\ at \in Nat /\ OTA_PAGE_SIZE * (m + 1) = at + OTA_PAGE_SIZE
    BY <1>3, OtaParameters
  <2>4. at % Span = at
    <3>1. at \in Nat /\ at < Span
      BY <1>2, <2>1, <2>2, <2>3, OtaParameters
    <3> HIDE DEF at
    <3> QED
      BY <3>1, OtaParameters, Below
  <2>5. n <= f - at
    BY <1>3, <2>2, OtaParameters DEF n
  <2>6. inside
    BY <1>2, <1>3, <2>1, <2>2, <2>3, <2>4, <2>5 DEF inside
  <2>7. /\ at + OTA_PAGE_SIZE <= f => n = OTA_PAGE_SIZE
        /\ at + OTA_PAGE_SIZE > f => n = f - at
    BY <1>2, <2>2, <2>3, OtaParameters, SMTT(60) DEF n
  <2>8. OTA_PAGE_SIZE * Len(l.pages) = at + OTA_PAGE_SIZE
    BY <1>5, <1>6, <2>3, Zenon
  <2> HIDE DEF f, m, at
  <2>9. \A j \in DOMAIN l.pages : l.pages[j].of = image.firmware
    BY <1>4, <1>5, <1>6, <2>2
  <2>10. \/ at + OTA_PAGE_SIZE <= f /\ l.got = at + OTA_PAGE_SIZE /\ l.pages[Len(l.pages)].n = OTA_PAGE_SIZE
         \/ f < at + OTA_PAGE_SIZE /\ at + OTA_PAGE_SIZE < f + OTA_PAGE_SIZE /\ l.got = f
    <3>1. l.got = at + n /\ l.pages[Len(l.pages)].n = n /\ f \in Nat /\ at < f
      BY <1>2, <1>4, <1>5, <1>6, <2>2, Zenon DEF f
    <3> QED
      BY <1>3, <2>3, <2>7, <3>1, OtaParameters, SMTT(60)
  <2> QED
    BY <1>6, <2>1, <2>2, <2>6, <2>8, <2>9, <2>10 DEF Served, f
<1>10. p \in mark.bad /\ p \notin mark.overlap => image.filesize < VersionAt
  BY DEF OtaInv, BadSeen
<1> QED
  BY <1>1, <1>6, <1>7, <1>8, <1>9, <1>10, OtaTouch

LEMMA OtaSteps == ASSUME OtaInv, OT!Next PROVE OtaInv'
<1>1. CASE OT!Main
  BY <1>1, OtaMainSteps
<1>2. ASSUME NEW p \in Peers,
             OT!Connect(p) \/ OT!Disconnect(p) \/ OT!get_version(p) \/ OT!get_next_page(p)
               \/ OT!PageSource(p) \/ OT!PageCheck(p) \/ OT!PageCopy(p)
      PROVE  OtaInv'
  BY <1>2, OtaConnect, OtaDisconnect, Otaget_version, Otaget_next_page, OtaPageSource, OtaPageCheck, OtaPageCopy
<1> QED
  BY <1>1, <1>2 DEF OT!Next

LEMMA OtaWhole == ASSUME OtaInv PROVE OT!ReadsInside /\ OT!DownloadWhole /\ OT!FreedOnce
<1>1. OT!ReadsInside
  BY DEF OtaInv, OtaTypes, BadSeen, OT!ReadsInside
<1>2. OT!DownloadWhole
  <2> SUFFICES ASSUME NEW p \in OT!Connected \ mark.overlap
               PROVE  LET l == link[p] IN
                      /\ \A k \in DOMAIN l.pages : l.pages[k].of = image.firmware
                      /\ l.got <= l.told
                      /\ l.pages # <<>> /\ l.pages[Len(l.pages)].n < OTA_PAGE_SIZE => l.got = l.told
    BY DEF OT!DownloadWhole
  <2>1. p \in Peers /\ link[p].pc # "out"
    BY DEF OT!Connected
  <2>2. Served(link[p], image.filesize, image.firmware) /\ image.filesize \in Nat
    BY <2>1, CleanKnown
  <2>3. CASE link[p].pages = <<>>
    <3>1. Len(link[p].pages) = 0 /\ OTA_PAGE_SIZE * Len(link[p].pages) = 0
      BY <2>3, OtaParameters
    <3>2. link[p].got = 0 /\ link[p].told \in Nat
      BY <2>2, <3>1 DEF Served
    <3> QED
      BY <2>2, <2>3, <3>2 DEF Served
  <2>4. CASE link[p].pages # <<>>
    BY <2>2, <2>4, OtaParameters DEF Served
  <2> QED
    BY <2>3, <2>4
<1>3. OT!FreedOnce
  BY DEF OtaInv, ImageLoaded, OT!FreedOnce
<1> QED
  BY <1>1, <1>2, <1>3

\* A client that was not connected when main left its wait, nor while main stopped the
\* server, gets all of one image from memory that is alive, for every page size, every
\* size of the file and any number of clients, however the parts of get_next_page
\* interleave with main.  Exceptions: the version string that is read between server_start
\* and the assignment to version_string, and a file too short to hold a version.
THEOREM ImagesWhole == Spec => []ImageWhole
<1> DEFINE I == part = "ota" => OtaInv
<1>1. Init => I
  BY OtaBegins DEF Init
<1>2. I /\ [Next]_vars => I'
  <2> SUFFICES ASSUME I, [Next]_vars PROVE I'
    OBVIOUS
  <2>1. CASE OtaStep
    BY <2>1, OtaSteps DEF OtaStep, RestOta
  <2>2. CASE ~OtaStep
    <3>1. part' = part /\ (part = "ota" => UNCHANGED otaVars)
      BY <2>2 DEF Next, CppStep, UdpStep, LogStep, FileStep, LcdStep, PanelStep, PidStep, SumStep, AlgStep,
                  RestCpp, RestUdp, RestLog, RestFile, RestLcd, RestPanel, RestPid, RestSum, RestAlg, vars
    <3> QED
      BY <3>1 DEF otaVars, OtaInv, OtaTypes, ImageLoaded, CleanServed, BadSeen, Clean
  <2> QED
    BY <2>1, <2>2
<1>3. I => ImageWhole
  BY OtaWhole DEF ImageWhole, ReadsInside, DownloadWhole, FreedOnce
<1> QED
  BY <1>1, <1>2, <1>3, PTL DEF Spec
-----------------------------------------------------------------------------
(***************************************************************************)
(* The loggers.                                                            *)
(***************************************************************************)
Piece == [of : Nat, part : Nat, last : BOOLEAN]
Writer == [pc : {"idle", "lock", "write", "unlock"}, entry : Nat, part : Nat, parts : Nat]
ProgType == [kind : {"log", "logger2"}, pos : Nat, lock : Senders \cup {NoSender}]
CountType == [entries : Nat, runs : Nat \ {0}, done : SUBSET Nat]

LogTypes ==
  /\ log \in Seq(Piece) /\ prog \in ProgType /\ sender \in [Senders -> Writer] /\ count \in CountType
  /\ prog.pos <= Len(log)

\* Only the holder of the mutex writes.
OneWriter == \A s \in Senders : sender[s].pc \in {"write", "unlock"} => prog.lock = s

\* log_to_file always, and LoggerServer in its first run, writes at the end.
Appends == prog.kind = "log" \/ count.runs = 1
AtTheEnd == prog.kind = "logger2" /\ count.runs = 1 => prog.pos = Len(log)

Complete(l) == l = <<>> \/ l[Len(l)].last
Continues(l, entry, piece) == l[Len(l)].of = entry /\ l[Len(l)].part + 1 = piece

\* In the first run every piece that is not the last of its entry is followed by the
\* next; if the log ends in the middle of an entry, its sender is about to go on.
PiecesFollow ==
  count.runs = 1 =>
    /\ \A i \in 1..(Len(log) - 1) :
         ~log[i].last => log[i + 1].of = log[i].of /\ log[i + 1].part = log[i].part + 1
    /\ \A s \in Senders : sender[s].pc = "write" => Complete(log) \/ Continues(log, sender[s].entry, sender[s].part)
    /\ (\A s \in Senders : sender[s].pc # "write") => Complete(log)

Holds(l, e) == \E i \in DOMAIN l : l[i].of = e

\* An entry is in the log when its sender gives the mutex back.
EntriesHeld ==
  Appends => /\ \A e \in count.done : Holds(log, e)
             /\ \A s \in Senders : sender[s].pc = "unlock" => Holds(log, sender[s].entry)

LogInv == LogTypes /\ OneWriter /\ AtTheEnd /\ PiecesFollow /\ EntriesHeld

LEMMA LogImplies == ASSUME LogInv PROVE LG!EntryIntact /\ LG!EntryKept /\ LG!TypeOK
<1>1. LG!EntryIntact
  BY DEF LogInv, PiecesFollow, LG!EntryIntact
<1>2. LG!EntryKept
  BY DEF LogInv, EntriesHeld, Appends, Holds, LG!EntryKept
<1>3. LG!TypeOK
  BY DEF LogInv, LogTypes, ProgType, LG!TypeOK
<1> QED
  BY <1>1, <1>2, <1>3

LEMMA LogFields == ASSUME LogInv
  PROVE  /\ log \in Seq(Piece) /\ Len(log) \in Nat /\ DOMAIN log = 1..Len(log)
         /\ prog \in ProgType /\ sender \in [Senders -> Writer] /\ count \in CountType
         /\ prog.kind \in {"log", "logger2"} /\ prog.pos \in Nat /\ prog.lock \in Senders \cup {NoSender}
         /\ count.entries \in Nat /\ count.runs \in Nat \ {0} /\ count.done \in SUBSET Nat /\ prog.pos <= Len(log)
         /\ \A s \in Senders : sender[s] \in Writer /\ sender[s].entry \in Nat /\ sender[s].part \in Nat
BY DEF LogInv, LogTypes, ProgType, CountType, Writer

LEMMA LogBegins == ASSUME LG!Init PROVE LogInv
<1> DEFINE e == <<>>
           none == {}
<1>1. /\ log = e /\ prog \in [kind : {"log", "logger2"}, pos : {0}, lock : {NoSender}]
      /\ sender = [s \in Senders |-> LG!Idle] /\ count = [entries |-> 0, runs |-> 1, done |-> none]
  BY DEF LG!Init
<1>2. e \in Seq(Piece) /\ Len(e) = 0 /\ e = <<>> /\ none \in SUBSET Nat /\ none = {}
  OBVIOUS
<1> HIDE DEF e, none
<1>3. LG!Idle \in Writer /\ LG!Idle.pc = "idle"
  BY DEF LG!Idle, Writer
<1>4. sender \in [Senders -> Writer] /\ \A s \in Senders : sender[s].pc = "idle"
  BY <1>1, <1>3
<1>5. count \in CountType /\ count.done = {} /\ count.runs = 1
  BY <1>1, <1>2 DEF CountType
<1>6. prog \in ProgType /\ prog.pos = 0
  BY <1>1 DEF ProgType
<1> QED
  BY <1>1, <1>2, <1>4, <1>5, <1>6
     DEF LogInv, LogTypes, OneWriter, AtTheEnd, PiecesFollow, EntriesHeld, Complete

LEMMA LogReceive == ASSUME LogInv, NEW s \in Senders, NEW nl \in BOOLEAN, LG!Receive(s, nl) PROVE LogInv'
<1> DEFINE n == count.entries + 1
           w == [pc |-> "lock", entry |-> n, part |-> 1, parts |-> LG!Parts(nl)]
<1>1. /\ sender' = [sender EXCEPT ![s] = w] /\ count' = [count EXCEPT !.entries = n] /\ UNCHANGED <<log, prog>>
  BY DEF LG!Receive
<1>2. n \in Nat
  BY LogFields
<1>3. LG!Parts(nl) \in Nat
  BY DEF LG!Parts
<1>4. w \in Writer /\ w.pc = "lock"
  BY <1>2, <1>3 DEF Writer
<1> HIDE DEF n, w
<1>5. count' \in CountType /\ count'.runs = count.runs /\ count'.done = count.done
  BY <1>1, <1>2, LogFields, Zenon DEF CountType
<1>6. /\ sender' \in [Senders -> Writer] /\ sender'[s] = w /\ sender[s].pc = "idle"
      /\ \A t \in Senders : t # s => sender'[t] = sender[t]
  BY <1>1, <1>4, LogFields DEF LG!Receive
<1>7. \A t \in Senders : sender'[t].pc \in {"write", "unlock"} => sender'[t] = sender[t]
  BY <1>4, <1>6
<1>8. (\A t \in Senders : sender'[t].pc # "write") => \A t \in Senders : sender[t].pc # "write"
  BY <1>6
<1>9. LogTypes' /\ OneWriter' /\ AtTheEnd'
  BY <1>1, <1>5, <1>6, <1>7 DEF LogInv, LogTypes, OneWriter, AtTheEnd
<1>10. PiecesFollow' /\ EntriesHeld'
  BY <1>1, <1>5, <1>7, <1>8 DEF LogInv, PiecesFollow, EntriesHeld, Appends
<1> QED
  BY <1>9, <1>10 DEF LogInv

LEMMA LogLock == ASSUME LogInv, NEW s \in Senders, LG!Lock(s) PROVE LogInv'
<1> DEFINE w == [sender[s] EXCEPT !.pc = "write"]
<1>1. /\ prog.lock = NoSender /\ prog' = [prog EXCEPT !.lock = s] /\ sender' = [sender EXCEPT ![s] = w]
      /\ UNCHANGED <<log, count>>
  BY DEF LG!Lock
<1>2. w \in Writer
  BY LogFields, Zenon DEF Writer
<1>3. NoSender \notin Senders
  BY ServicesAssumption DEF LG!Parameters
<1>4. \A t \in Senders : sender[t].pc \notin {"write", "unlock"}
  BY <1>1, <1>3 DEF LogInv, OneWriter
<1> HIDE DEF w
<1>5. sender' \in [Senders -> Writer] /\ \A t \in Senders : t # s => sender'[t] = sender[t]
  BY <1>1, <1>2, LogFields
<1>6. prog' \in ProgType /\ prog'.lock = s /\ prog'.pos = prog.pos /\ prog'.kind = prog.kind
  BY <1>1, LogFields, Zenon DEF ProgType
<1>7. count.runs = 1 => Complete(log)
  BY <1>4 DEF LogInv, PiecesFollow
<1>8. sender'[s].pc = "write"
  BY <1>1, LogFields DEF w, Writer
<1>9. LogTypes' /\ OneWriter' /\ AtTheEnd'
  BY <1>1, <1>4, <1>5, <1>6 DEF LogInv, LogTypes, OneWriter, AtTheEnd
<1>10. PiecesFollow'
  BY <1>1, <1>7 DEF LogInv, PiecesFollow
<1>11. EntriesHeld'
  BY <1>1, <1>4, <1>5, <1>6, <1>8 DEF LogInv, EntriesHeld, Appends
<1> QED
  BY <1>9, <1>10, <1>11 DEF LogInv

\* A piece at the end of the log keeps what is in it.
LEMMA PieceAppended ==
  ASSUME NEW l \in Seq(Piece), NEW p \in Piece,
         \A i \in 1..(Len(l) - 1) : ~l[i].last => l[i + 1].of = l[i].of /\ l[i + 1].part = l[i].part + 1,
         Complete(l) \/ Continues(l, p.of, p.part)
  PROVE  LET t == Append(l, p) IN
         \A i \in 1..(Len(t) - 1) : ~t[i].last => t[i + 1].of = t[i].of /\ t[i + 1].part = t[i].part + 1
<1> DEFINE t == Append(l, p)
           n == Len(l)
<1>1. n \in Nat /\ Len(t) = n + 1 /\ t[n + 1] = p /\ \A i \in 1..n : t[i] = l[i]
  OBVIOUS
<1> HIDE DEF t
<1>2. ASSUME NEW i \in 1..(Len(t) - 1), ~t[i].last PROVE t[i + 1].of = t[i].of /\ t[i + 1].part = t[i].part + 1
  <2>1. CASE i = n
    <3>1. t[i] = l[n] /\ t[i + 1] = p /\ n > 0
      BY <1>1, <1>2, <2>1
    <3>2. l # <<>>
      BY <3>1
    <3> QED
      BY <1>2, <3>1, <3>2 DEF Complete, Continues
  <2>2. CASE i # n
    <3>1. i \in 1..(n - 1) /\ t[i] = l[i] /\ t[i + 1] = l[i + 1]
      BY <1>1, <1>2, <2>2
    <3> QED
      BY <1>2, <3>1
  <2> QED
    BY <2>1, <2>2
<1> QED
  BY <1>2 DEF t

LEMMA HoldsOn ==
  ASSUME NEW l \in Seq(Piece), NEW p \in Piece
  PROVE  Holds(Append(l, p), p.of) /\ \A e : Holds(l, e) => Holds(Append(l, p), e)
<1> DEFINE t == Append(l, p)
<1>1. Len(l) \in Nat /\ DOMAIN t = 1..(Len(l) + 1) /\ DOMAIN l = 1..Len(l) /\ t[Len(l) + 1] = p
      /\ \A i \in DOMAIN l : t[i] = l[i]
  OBVIOUS
<1>2. Len(l) + 1 \in DOMAIN t /\ \A i \in DOMAIN l : i \in DOMAIN t
  BY <1>1
<1> HIDE DEF t
<1>3. Holds(t, p.of) /\ \A e : Holds(l, e) => Holds(t, e)
  BY <1>1, <1>2 DEF Holds
<1> QED
  BY <1>3 DEF t

LEMMA LogWrite == ASSUME LogInv, NEW s \in Senders, LG!Write(s) PROVE LogInv'
<1> DEFINE at == LG!WritePos + 1
           final == sender[s].part = sender[s].parts
           piece == [of |-> sender[s].entry, part |-> sender[s].part, last |-> final]
           pos == IF prog.kind = "log" THEN prog.pos ELSE prog.pos + 1
           pc == IF final THEN "unlock" ELSE "write"
           next == sender[s].part + 1
           w == [sender[s] EXCEPT !.part = next, !.pc = pc]
<1>1. /\ sender[s].pc = "write" /\ UNCHANGED count
      /\ log' = IF at > Len(log) THEN Append(log, piece) ELSE [log EXCEPT ![at] = piece]
      /\ prog' = [prog EXCEPT !.pos = pos]
  BY DEF LG!Write
<1>2. sender' = [sender EXCEPT ![s] = w]
  BY LogFields, Zenon DEF LG!Write, Writer
<1>3. final \in BOOLEAN /\ next \in Nat /\ pc \in {"write", "unlock"} /\ pos \in Nat /\ (pc = "unlock" <=> final)
  BY LogFields
<1>4. piece \in Piece
  BY <1>3, LogFields DEF Piece
<1>5. piece.of = sender[s].entry /\ piece.part = sender[s].part /\ piece.last = final
  OBVIOUS
<1>6. prog.kind = "log" => at = Len(log) + 1 /\ pos = prog.pos
  BY LogFields DEF LG!WritePos
<1>7. prog.kind = "logger2" => at = prog.pos + 1 /\ pos = prog.pos + 1
  BY LogFields DEF LG!WritePos
<1>8. next = sender[s].part + 1
  OBVIOUS
<1> HIDE DEF at, final, piece, pos, pc, next
<1>9. w \in Writer /\ w.entry = sender[s].entry /\ w.part = next /\ w.pc = pc
  BY <1>3, LogFields, Zenon DEF Writer
<1> HIDE DEF w
<1>10. /\ sender' \in [Senders -> Writer] /\ sender'[s] = w /\ \A t \in Senders : t # s => sender'[t] = sender[t]
  BY <1>2, <1>9, LogFields
<1>11. prog' \in ProgType /\ prog'.pos = pos /\ prog'.lock = prog.lock /\ prog'.kind = prog.kind
  BY <1>1, <1>3, LogFields, Zenon DEF ProgType
<1>12. at \in Nat /\ at > 0 /\ at <= Len(log) + 1
  BY <1>6, <1>7, LogFields
<1>13. /\ at > Len(log) => log' = Append(log, piece) /\ Len(log') = Len(log) + 1 /\ log'[Len(log')] = piece
       /\ at <= Len(log) => Len(log') = Len(log)
       /\ log' \in Seq(Piece)
  <2> DEFINE n == Len(log)
  <2>0. n \in Nat /\ log \in Seq(Piece)
    BY LogFields
  <2>1. CASE at > n
    <3>1. log' = Append(log, piece)
      BY <1>1, <2>1
    <3>2. Append(log, piece) \in Seq(Piece) /\ Len(Append(log, piece)) = n + 1 /\ Append(log, piece)[n + 1] = piece
      BY <1>4, <2>0, Appended
    <3> HIDE DEF n
    <3>3. ~(at <= n)
      BY <1>12, <2>0, <2>1
    <3> QED
      BY <3>1, <3>2, <3>3 DEF n
  <2>2. CASE ~(at > n)
    <3>1. log' = [log EXCEPT ![at] = piece]
      BY <1>1, <2>2
    <3>2. at \in DOMAIN log
      BY <1>12, <2>0, <2>2
    <3>3. [log EXCEPT ![at] = piece] \in Seq(Piece) /\ Len([log EXCEPT ![at] = piece]) = n
      BY <1>4, <2>0, <3>2, Changed
    <3> QED
      BY <2>2, <3>1, <3>3, Zenon
  <2> QED
    BY <2>1, <2>2
<1>14. prog'.pos <= Len(log')
  <2> DEFINE n == Len(log)
             m == Len(log')
  <2>0. n \in Nat /\ prog.pos \in Nat /\ prog.pos <= n /\ prog.kind \in {"log", "logger2"}
    BY LogFields
  <2>1. (at > n => m = n + 1) /\ (at <= n => m = n)
    BY <1>13
  <2> HIDE DEF n, m
  <2>2. prog'.pos <= m
    BY <1>6, <1>7, <1>11, <1>12, <2>0, <2>1 DEF n
  <2> QED
    BY <2>2 DEF m
<1>15. LogTypes'
  BY <1>1, <1>10, <1>11, <1>13, <1>14, LogFields, Zenon DEF LogTypes
<1>16. prog.lock = s /\ \A t \in Senders : t # s => sender'[t] = sender[t] /\ sender[t].pc \notin {"write", "unlock"}
  BY <1>1, <1>10 DEF LogInv, OneWriter
<1>17. OneWriter'
  BY <1>11, <1>16 DEF OneWriter
<1>18. Appends => at > Len(log) /\ (prog.kind = "logger2" => pos = Len(log) + 1)
  BY <1>6, <1>7, LogFields DEF LogInv, AtTheEnd, Appends
<1>19. AtTheEnd'
  BY <1>1, <1>11, <1>13, <1>18 DEF AtTheEnd, Appends
<1>20. PiecesFollow'
  <2> SUFFICES ASSUME count.runs = 1
               PROVE  /\ \A i \in 1..(Len(log') - 1) :
                           ~log'[i].last => log'[i + 1].of = log'[i].of /\ log'[i + 1].part = log'[i].part + 1
                      /\ \A t \in Senders : sender'[t].pc = "write" =>
                           Complete(log') \/ Continues(log', sender'[t].entry, sender'[t].part)
                      /\ (\A t \in Senders : sender'[t].pc # "write") => Complete(log')
    BY <1>1, Zenon DEF PiecesFollow
  <2>1. log' = Append(log, piece) /\ log'[Len(log')] = piece
    BY <1>13, <1>18 DEF Appends
  <2>2. Complete(log) \/ Continues(log, piece.of, piece.part)
    BY <1>1, <1>5 DEF LogInv, PiecesFollow
  <2>3. \A i \in 1..(Len(log) - 1) : ~log[i].last => log[i + 1].of = log[i].of /\ log[i + 1].part = log[i].part + 1
    BY DEF LogInv, PiecesFollow
  <2>4. \A i \in 1..(Len(log') - 1) :
          ~log'[i].last => log'[i + 1].of = log'[i].of /\ log'[i + 1].part = log'[i].part + 1
    BY <1>4, <2>1, <2>2, <2>3, LogFields, PieceAppended, Zenon
  <2>5. Continues(log', sender'[s].entry, sender'[s].part)
    BY <1>5, <1>8, <1>9, <1>10, <2>1 DEF Continues
  <2>6. sender'[s].pc # "write" => Complete(log')
    BY <1>3, <1>5, <1>9, <1>10, <2>1 DEF Complete
  <2> QED
    BY <1>16, <2>4, <2>5, <2>6
<1>21. EntriesHeld'
  <2> SUFFICES ASSUME Appends
               PROVE  /\ \A e \in count.done : Holds(log', e)
                      /\ \A t \in Senders : sender'[t].pc = "unlock" => Holds(log', sender'[t].entry)
    BY <1>1, <1>11, Zenon DEF EntriesHeld, Appends
  <2>1. log' = Append(log, piece)
    BY <1>13, <1>18
  <2>2. Holds(log', sender[s].entry) /\ \A e : Holds(log, e) => Holds(log', e)
    BY <1>4, <1>5, <2>1, LogFields, HoldsOn
  <2>3. \A e \in count.done : Holds(log, e)
    BY DEF LogInv, EntriesHeld
  <2> QED
    BY <1>9, <1>10, <1>16, <2>2, <2>3
<1> QED
  BY <1>15, <1>17, <1>19, <1>20, <1>21 DEF LogInv

LEMMA LogUnlock == ASSUME LogInv, NEW s \in Senders, LG!Unlock(s) PROVE LogInv'
<1> DEFINE d == count.done \cup {sender[s].entry}
           w == LG!Idle
<1>1. /\ sender[s].pc = "unlock" /\ prog' = [prog EXCEPT !.lock = NoSender] /\ sender' = [sender EXCEPT ![s] = w]
      /\ count' = [count EXCEPT !.done = d] /\ UNCHANGED log
  BY DEF LG!Unlock
<1>2. d \in SUBSET Nat
  BY LogFields
<1>3. w \in Writer /\ w.pc = "idle"
  BY DEF LG!Idle, Writer
<1> HIDE DEF w
<1>4. sender' \in [Senders -> Writer] /\ sender'[s] = w /\ \A t \in Senders : t # s => sender'[t] = sender[t]
  BY <1>1, <1>3, LogFields
<1>5. \A t \in Senders : t # s => sender[t].pc \notin {"write", "unlock"}
  BY <1>1 DEF LogInv, OneWriter
<1>6. \A t \in Senders : sender'[t].pc \notin {"write", "unlock"} /\ sender[t].pc # "write"
  BY <1>1, <1>3, <1>4, <1>5
<1>7. prog' \in ProgType /\ prog'.pos = prog.pos /\ prog'.kind = prog.kind
  BY <1>1, LogFields, Zenon DEF ProgType
<1>8. Appends => \A e \in d : Holds(log, e)
  BY <1>1 DEF LogInv, EntriesHeld
<1> HIDE DEF d
<1>9. count' \in CountType /\ count'.runs = count.runs /\ count'.done = d
  BY <1>1, <1>2, LogFields, Zenon DEF CountType
<1>10. LogTypes' /\ OneWriter' /\ AtTheEnd'
  BY <1>1, <1>4, <1>6, <1>7, <1>9 DEF LogInv, LogTypes, OneWriter, AtTheEnd
<1>11. PiecesFollow'
  BY <1>1, <1>6, <1>9 DEF LogInv, PiecesFollow
<1>12. EntriesHeld'
  BY <1>1, <1>6, <1>7, <1>8, <1>9 DEF EntriesHeld, Appends
<1> QED
  BY <1>10, <1>11, <1>12 DEF LogInv

LEMMA LogRestart == ASSUME LogInv, LG!Restart PROVE LogInv'
<1> DEFINE n == count.runs + 1
           w == LG!Idle
<1>1. /\ prog' = [prog EXCEPT !.pos = 0, !.lock = NoSender] /\ sender' = [s \in Senders |-> w]
      /\ count' = [count EXCEPT !.runs = n] /\ UNCHANGED log
  BY DEF LG!Restart
<1>2. n \in Nat \ {0} /\ n # 1
  BY LogFields
<1>3. w \in Writer /\ w.pc = "idle"
  BY DEF LG!Idle, Writer
<1> HIDE DEF n, w
<1>4. sender' \in [Senders -> Writer] /\ \A t \in Senders : sender'[t].pc = "idle"
  BY <1>1, <1>3
<1>5. count' \in CountType /\ count'.runs = n /\ count'.done = count.done
  BY <1>1, <1>2, LogFields, Zenon DEF CountType
<1>6. prog' \in ProgType /\ prog'.pos = 0 /\ prog'.kind = prog.kind
  BY <1>1, LogFields, Zenon DEF ProgType
<1>7. Appends' => Appends
  BY <1>2, <1>5, <1>6 DEF Appends
<1> QED
  BY <1>1, <1>2, <1>4, <1>5, <1>6, <1>7, LogFields
     DEF LogInv, LogTypes, OneWriter, AtTheEnd, PiecesFollow, EntriesHeld

LEMMA LogSteps == ASSUME LogInv, LG!Next PROVE LogInv'
<1>1. ASSUME NEW s \in Senders, (\E nl \in BOOLEAN : LG!Receive(s, nl)) \/ LG!Lock(s) \/ LG!Write(s) \/ LG!Unlock(s)
      PROVE  LogInv'
  BY <1>1, LogReceive, LogLock, LogWrite, LogUnlock
<1> QED
  BY <1>1, LogRestart DEF LG!Next

\* In a run of the program an entry that was written is in the log in one piece, and
\* it stays there: across restarts with log_to_file, during one run with LoggerServer.
\* For any number of clients, entries and restarts, however the handlers interleave.
THEOREM EntriesStayWhole == Spec => [](EntryIntact /\ EntryKept)
<1> DEFINE I == part = "log" => LogInv
<1>1. Init => I
  BY LogBegins DEF Init
<1>2. I /\ [Next]_vars => I'
  <2> SUFFICES ASSUME I, [Next]_vars PROVE I'
    OBVIOUS
  <2>1. CASE LogStep
    BY <2>1, LogSteps DEF LogStep, RestLog
  <2>2. CASE ~LogStep
    <3>1. part' = part /\ (part = "log" => UNCHANGED logVars)
      BY <2>2 DEF Next, CppStep, UdpStep, OtaStep, FileStep, LcdStep, PanelStep, PidStep, SumStep, AlgStep,
                  RestCpp, RestUdp, RestOta, RestFile, RestLcd, RestPanel, RestPid, RestSum, RestAlg, vars
    <3> QED
      BY <3>1 DEF logVars, LogInv, LogTypes, OneWriter, AtTheEnd, PiecesFollow, EntriesHeld, Appends
  <2> QED
    BY <2>1, <2>2
<1>3. I => EntryIntact /\ EntryKept
  BY LogImplies DEF EntryIntact, EntryKept
<1> QED
  BY <1>1, <1>2, <1>3, PTL DEF Spec

-----------------------------------------------------------------------------
(***************************************************************************)
(* The PID controllers.                                                    *)
(***************************************************************************)
PidType == [kind : {"c", "cpp"}, kp : Nat, ki : Nat, kd : Nat, i : Int, prev : Int, target : Int,
            lim : BOOLEAN, min : Int, max : Nat]
LastType == [done : BOOLEAN, error : Int, value : Int, quiet : BOOLEAN, output : Int, calls : Nat]

\* The remembered value is that of the last calculation, so the difference is 0 when
\* the value stands still; the sum stays inside the limits.
PidInv ==
  /\ pid \in PidType /\ last \in LastType /\ pid.min <= 0
  /\ pid.prev = last.value
  /\ PD!NoKick /\ PD!NoWindup

LEMMA PidFields == ASSUME pid \in PidType, last \in LastType
  PROVE  /\ pid.kp \in Nat /\ pid.ki \in Nat /\ pid.kd \in Nat /\ pid.i \in Int /\ pid.prev \in Int /\ pid.target \in Int
         /\ pid.lim \in BOOLEAN /\ pid.min \in Int /\ pid.max \in Nat /\ pid.kind \in {"c", "cpp"}
         /\ last.value \in Int /\ last.calls \in Nat
BY DEF PidType, LastType

LEMMA ClampedInside ==
  ASSUME NEW v \in Int, NEW lo \in Int, NEW hi \in Int, lo <= hi
  PROVE  PD!Clamped(v, lo, hi) \in Int /\ lo <= PD!Clamped(v, lo, hi) /\ PD!Clamped(v, lo, hi) <= hi
BY DEF PD!Clamped

LEMMA ClampedRises ==
  ASSUME NEW v \in Int, NEW w \in Int, NEW lo \in Int, NEW hi \in Int, lo <= hi, v <= w
  PROVE  PD!Clamped(v, lo, hi) <= PD!Clamped(w, lo, hi)
BY DEF PD!Clamped

\* A multiple of a quotient.
LEMMA Quotient == ASSUME NEW m \in Nat, NEW k \in Nat, k > 0
                  PROVE  m \div k \in Nat /\ k * (m \div k) <= m
OBVIOUS

\* What a calculation may put out: the gains times error and sum, when the difference
\* counts for nothing.
LEMMA PidOutput ==
  ASSUME NEW v \in Int, NEW t \in Int, NEW lo \in Int, NEW hi \in Int, lo <= hi, lo <= t, t <= hi
  PROVE  /\ PD!Clamped(v + t, lo, hi) <= PD!Clamped(hi + v, lo, hi)
         /\ PD!Clamped(v + t, lo, hi) >= PD!Clamped(lo + v, lo, hi)
<1> DEFINE x == v + t
           y == hi + v
           z == lo + v
<1>1. x \in Int /\ y \in Int /\ z \in Int /\ x <= y /\ z <= x
  OBVIOUS
<1> HIDE DEF x, y, z
<1>2. PD!Clamped(x, lo, hi) <= PD!Clamped(y, lo, hi) /\ PD!Clamped(z, lo, hi) <= PD!Clamped(x, lo, hi)
  BY <1>1, ClampedRises
<1>3. PD!Clamped(x, lo, hi) \in Int /\ PD!Clamped(z, lo, hi) \in Int
  BY <1>1, ClampedInside
<1> QED
  BY <1>2, <1>3 DEF x, y, z

LEMMA PidBegins == ASSUME PD!Init PROVE PidInv
<1>1. Gains \subseteq Nat /\ Samples \subseteq Int /\ Limits \subseteq Nat
  BY ServicesAssumption DEF PD!Parameters
<1>2. last = PD!Fresh
  BY DEF PD!Init
<1>3. last \in LastType /\ last.done = FALSE /\ last.value = 0
  BY <1>2 DEF PD!Fresh, LastType
<1>4. pid \in PidType /\ pid.min <= 0 /\ pid.prev = 0
  <2>1. CASE pid \in [kind : {"c"}, kp : Gains, ki : Gains, kd : Gains, i : {0}, prev : {0}, target : Samples,
                      lim : {FALSE}, min : {0}, max : {0}]
    <3> DEFINE Z == {0}
               F == {FALSE}
               K == {"c"}
    <3>1. Z \subseteq Int /\ Z \subseteq Nat /\ F \subseteq BOOLEAN /\ K \subseteq {"c", "cpp"} /\ \A z \in Z : z = 0
      OBVIOUS
    <3>2. pid \in [kind : K, kp : Gains, ki : Gains, kd : Gains, i : Z, prev : Z, target : Samples, lim : F, min : Z, max : Z]
      BY <2>1, Zenon
    <3> HIDE DEF Z, F, K
    <3>3. pid \in PidType /\ pid.min \in Z /\ pid.prev \in Z
      BY <1>1, <3>1, <3>2, Zenon DEF PidType
    <3>4. pid.min = 0 /\ pid.prev = 0
      BY <3>1, <3>3, Zenon
    <3> QED
      BY <3>3, <3>4
  <2>2. CASE pid \in [kind : {"cpp"}, kp : Gains, ki : Gains, kd : Gains, i : {0}, prev : {0}, target : {0},
                      lim : BOOLEAN, min : {-n : n \in Limits}, max : Limits]
    <3>1. pid.min \in {-n : n \in Limits} /\ pid.max \in Limits
      BY <2>2
    <3>2. pid.min \in Int /\ pid.min <= 0
      BY <1>1, <3>1
    <3> QED
      <4> DEFINE Z == {0}
                 K == {"cpp"}
                 N == {-n : n \in Limits}
      <4>1. Z \subseteq Int /\ K \subseteq {"c", "cpp"} /\ N \subseteq Int /\ \A z \in Z : z = 0
        BY <1>1
      <4>2. pid \in [kind : K, kp : Gains, ki : Gains, kd : Gains, i : Z, prev : Z, target : Z, lim : BOOLEAN, min : N,
                     max : Limits]
        BY <2>2
      <4> HIDE DEF Z, K, N
      <4>3. pid \in PidType /\ pid.prev \in Z
        BY <1>1, <4>1, <4>2, Zenon DEF PidType
      <4> QED
        BY <3>2, <4>1, <4>3, Zenon
  <2> QED
    BY <2>1, <2>2, Zenon DEF PD!Init
<1> QED
  BY <1>3, <1>4 DEF PidInv, PD!NoKick, PD!NoWindup

\* Calls that calculate nothing.
LEMMA PidSettings ==
  ASSUME PidInv, pid' \in PidType, last' \in LastType, pid'.min <= 0, pid'.prev = last'.value, ~last'.done
  PROVE  PidInv'
BY DEF PidInv, PD!NoKick, PD!NoWindup

LEMMA FreshCalls == ASSUME NEW n \in Nat
  PROVE  LET f == [PD!Fresh EXCEPT !.calls = n] IN f \in LastType /\ ~f.done /\ f.value = 0
<1> DEFINE no == FALSE
           zero == 0
           f == [done |-> no, error |-> zero, value |-> zero, quiet |-> no, output |-> zero, calls |-> n]
<1>1. no \in BOOLEAN /\ ~no /\ zero \in Int /\ zero = 0
  OBVIOUS
<1>a. PD!Fresh = [done |-> no, error |-> zero, value |-> zero, quiet |-> no, output |-> zero, calls |-> zero]
  BY DEF PD!Fresh
<1> HIDE DEF no, zero
<1>2. [PD!Fresh EXCEPT !.calls = n] = f
  BY <1>a
<1>3. f \in LastType /\ ~f.done /\ f.value = 0
  BY <1>1 DEF LastType
<1> QED
  BY <1>2, <1>3

LEMMA PidOthers ==
  ASSUME PidInv, \/ PD!pid_init \/ PD!Reset
                 \/ \E m, n \in Limits : PD!pid_set_limits(-m, n)
                 \/ \E v \in Samples : PD!pid_set_target(v)
  PROVE  PidInv'
<1> DEFINE n1 == last.calls + 1
<1>0. /\ pid \in PidType /\ last \in LastType /\ pid.min <= 0 /\ pid.prev = last.value
      /\ Samples \subseteq Int /\ Limits \subseteq Nat /\ n1 \in Nat
  BY ServicesAssumption, PidFields DEF PidInv, PD!Parameters
<1> HIDE DEF n1
<1>1. CASE PD!pid_init \/ PD!Reset
  <2>1. last' = [PD!Fresh EXCEPT !.calls = n1]
    BY <1>1 DEF PD!pid_init, PD!Reset, n1
  <2>2. last' \in LastType /\ ~last'.done /\ last'.value = 0
    BY <1>0, <2>1, FreshCalls
  <2> DEFINE no == FALSE
             zero == 0
  <2>3. \/ pid' = [pid EXCEPT !.i = zero, !.prev = zero, !.lim = no]
        \/ pid' = [pid EXCEPT !.i = zero, !.prev = zero]
    BY <1>1 DEF PD!pid_init, PD!Reset
  <2>a. no \in BOOLEAN /\ zero \in Int /\ zero = 0
    OBVIOUS
  <2> HIDE DEF no, zero
  <2>4. pid' \in PidType /\ pid'.min = pid.min /\ pid'.prev = 0
    <3>1. CASE pid' = [pid EXCEPT !.i = zero, !.prev = zero, !.lim = no]
      BY <1>0, <2>a, <3>1, ZenonT(60) DEF PidType
    <3>2. CASE pid' = [pid EXCEPT !.i = zero, !.prev = zero]
      BY <1>0, <2>a, <3>2, ZenonT(60) DEF PidType
    <3> QED
      BY <2>3, <3>1, <3>2
  <2> QED
    BY <1>0, <2>2, <2>4, PidSettings
<1>2. ASSUME NEW m \in Limits, NEW n \in Limits, PD!pid_set_limits(-m, n) PROVE PidInv'
  <2> DEFINE lo == -m
  <2>1. pid' = [pid EXCEPT !.min = lo, !.max = n, !.lim = TRUE] /\ last' = [last EXCEPT !.done = FALSE, !.calls = n1]
    BY <1>2, Zenon DEF PD!pid_set_limits, n1
  <2>2. lo \in Int /\ lo <= 0 /\ n \in Nat
    BY <1>0
  <2> HIDE DEF lo
  <2>3. pid' \in PidType /\ pid'.min = lo /\ pid'.prev = pid.prev
    BY <1>0, <2>1, <2>2, Zenon DEF PidType
  <2>4. last' \in LastType /\ ~last'.done /\ last'.value = last.value
    BY <1>0, <2>1, Zenon DEF LastType
  <2> QED
    BY <1>0, <2>2, <2>3, <2>4, PidSettings
<1>3. ASSUME NEW v \in Samples, PD!pid_set_target(v) PROVE PidInv'
  <2>1. pid' = [pid EXCEPT !.target = v] /\ last' = [last EXCEPT !.done = FALSE, !.calls = n1]
    BY <1>3 DEF PD!pid_set_target, n1
  <2>2. pid' \in PidType /\ pid'.min = pid.min /\ pid'.prev = pid.prev
    BY <1>0, <2>1 DEF PidType
  <2>3. last' \in LastType /\ ~last'.done /\ last'.value = last.value
    BY <1>0, <2>1, Zenon DEF LastType
  <2> QED
    BY <1>0, <2>2, <2>3, PidSettings
<1> QED
  BY <1>1, <1>2, <1>3

\* A calculation: the sum is inside the limits when there are some, and the difference
\* is 0 when the value stands still.
LEMMA PidCalculates ==
  ASSUME PidInv, NEW i \in Int, NEW val \in Int, NEW e \in Int, NEW t \in Int, NEW d \in Int,
         pid.lim => pid.min <= t /\ t <= pid.max,
         t = (IF pid.kind = "c" THEN i ELSE pid.ki * i),
         val = last.value \/ pid.kd = 0 => d = 0,
         pid' = [pid EXCEPT !.i = i, !.prev = val],
         last' = [done |-> TRUE, error |-> e, value |-> val, quiet |-> val = last.value,
                  output |-> PD!Limited(pid.kp * e + t - d), calls |-> last.calls + 1]
  PROVE  PidInv'
<1> DEFINE v == pid.kp * e
           o == PD!Limited(v + t - d)
           q == val = last.value
           n1 == last.calls + 1
<1>0. /\ pid \in PidType /\ last \in LastType /\ pid.min <= 0 /\ pid.min \in Int /\ pid.max \in Nat /\ pid.kp \in Nat
      /\ pid.lim \in BOOLEAN /\ n1 \in Nat /\ q \in BOOLEAN
  BY PidFields DEF PidInv
<1>1. v \in Int
  BY <1>0
<1>2. last' = [done |-> TRUE, error |-> e, value |-> val, quiet |-> q, output |-> o, calls |-> n1]
  OBVIOUS
<1>3. (q \/ pid.kd = 0) => d = 0
  OBVIOUS
<1> HIDE DEF v, q, n1
<1>4. v + t - d \in Int /\ pid.min <= pid.max
  BY <1>0, <1>1
<1>5. o \in Int
  BY <1>0, <1>4, ClampedInside DEF PD!Limited
<1>6. (q \/ pid.kd = 0) => o = PD!Limited(v + t)
  BY <1>1, <1>3
<1>7. pid.lim => PD!Limited(v + t) = PD!Clamped(v + t, pid.min, pid.max)
  BY DEF PD!Limited
<1> HIDE DEF o
<1>8. pid' \in PidType /\ pid'.prev = val /\ pid'.i = i
      /\ pid'.kp = pid.kp /\ pid'.ki = pid.ki /\ pid'.kd = pid.kd /\ pid'.kind = pid.kind
      /\ pid'.lim = pid.lim /\ pid'.min = pid.min /\ pid'.max = pid.max
  BY <1>0, Zenon DEF PidType
<1>9. /\ last' \in LastType /\ last'.done /\ last'.error = e /\ last'.value = val /\ last'.quiet = q /\ last'.output = o
  BY <1>0, <1>2, <1>5 DEF LastType
<1>10. PD!NoKick'
  <2> SUFFICES ASSUME q
               PROVE  o = IF pid.lim THEN PD!Clamped(pid.kp * e + t, pid.min, pid.max) ELSE pid.kp * e + t
    BY <1>8, <1>9 DEF PD!NoKick, PD!Limited
  <2> QED
    BY <1>6 DEF PD!Limited, v
<1>11. PD!NoWindup'
  <2> DEFINE hi == PD!Clamped(pid.max + pid.kp * e, pid.min, pid.max)
             lo == PD!Clamped(pid.min + pid.kp * e, pid.min, pid.max)
  <2>1. ASSUME pid.lim, q \/ pid.kd = 0 PROVE o <= hi /\ o >= lo
    <3>1. o = PD!Clamped(v + t, pid.min, pid.max)
      BY <1>6, <1>7, <2>1
    <3>2. /\ PD!Clamped(v + t, pid.min, pid.max) <= PD!Clamped(pid.max + v, pid.min, pid.max)
          /\ PD!Clamped(v + t, pid.min, pid.max) >= PD!Clamped(pid.min + v, pid.min, pid.max)
      <4>1. pid.min \in Int /\ pid.max \in Int /\ pid.min <= pid.max /\ pid.min <= t /\ t <= pid.max
        BY <1>0, <1>4, <2>1
      <4> QED
        BY <1>1, <4>1, ZenonT(60), PidOutput
    <3>3. hi = PD!Clamped(pid.max + v, pid.min, pid.max) /\ lo = PD!Clamped(pid.min + v, pid.min, pid.max)
      BY Zenon DEF v
    <3> HIDE DEF hi, lo
    <3> QED
      BY <3>1, <3>2, <3>3, Zenon
  <2>2. /\ hi = PD!Clamped(pid'.max + pid'.kp * last'.error, pid'.min, pid'.max)
        /\ lo = PD!Clamped(pid'.min + pid'.kp * last'.error, pid'.min, pid'.max)
    BY <1>8, <1>9, Zenon
  <2>3. last'.quiet = q /\ last'.output = o /\ pid'.lim = pid.lim /\ pid'.kd = pid.kd
    BY <1>8, <1>9, Zenon
  <2> HIDE DEF hi, lo
  <2> QED
    BY <2>1, <2>2, <2>3, Zenon DEF PD!NoWindup
<1> QED
  BY <1>0, <1>8, <1>9, <1>10, <1>11 DEF PidInv

LEMMA PidC == ASSUME PidInv, NEW v \in Samples, PD!pid_calc(v) PROVE PidInv'
<1> DEFINE e == pid.target - v
           s == pid.i + pid.ki * e
           t == PD!Iterm(e)
           d == pid.kd * (v - pid.prev)
<1>0. /\ pid.kp \in Nat /\ pid.ki \in Nat /\ pid.kd \in Nat /\ pid.i \in Int /\ pid.prev \in Int /\ pid.target \in Int
      /\ pid.lim \in BOOLEAN /\ pid.min \in Int /\ pid.max \in Nat /\ pid.min <= 0 /\ pid.prev = last.value /\ v \in Int
  BY ServicesAssumption, PidFields DEF PidInv, PD!Parameters
<1>1. e \in Int /\ d \in Int /\ s \in Int
  BY <1>0
<1>2. t = PD!Limited(s)
  BY DEF PD!Iterm
<1>3. v = last.value \/ pid.kd = 0 => d = 0
  BY <1>0
<1>4. /\ pid.kind = "c" /\ pid' = [pid EXCEPT !.i = t, !.prev = v]
      /\ last' = [done |-> TRUE, error |-> e, value |-> v, quiet |-> v = last.value,
                  output |-> PD!Limited(pid.kp * e + t - d), calls |-> last.calls + 1]
  BY DEF PD!pid_calc, PD!RememberInput
<1> HIDE DEF e, s, t, d
<1>5. t \in Int /\ (pid.lim => pid.min <= t /\ t <= pid.max)
  <2>1. pid.min <= pid.max
    BY <1>0
  <2>2. CASE pid.lim
    <3> DEFINE lo == pid.min
               hi == pid.max
    <3>1. t = PD!Clamped(s, lo, hi)
      BY <1>2, <2>2 DEF PD!Limited
    <3>2. lo \in Int /\ hi \in Int /\ lo <= hi
      BY <1>0, <2>1
    <3> HIDE DEF lo, hi
    <3>3. PD!Clamped(s, lo, hi) \in Int /\ lo <= PD!Clamped(s, lo, hi) /\ PD!Clamped(s, lo, hi) <= hi
      BY <1>1, <3>2, ClampedInside
    <3> QED
      BY <3>1, <3>3 DEF lo, hi
  <2>3. CASE ~pid.lim
    BY <1>1, <1>2, <2>3 DEF PD!Limited
  <2> QED
    BY <2>2, <2>3
<1> QED
  BY <1>0, <1>1, <1>3, <1>4, <1>5, PidCalculates, Zenon

LEMMA PidCpp == ASSUME PidInv, NEW sp \in Samples, NEW v \in Samples, PD!Calculate(sp, v) PROVE PidInv'
<1> DEFINE e == sp - v
           s == pid.i + e
           i == PD!Integral(e)
           t == pid.ki * i
           d == -(pid.kd * (e - pid.prev))
<1>0. /\ pid.kp \in Nat /\ pid.ki \in Nat /\ pid.kd \in Nat /\ pid.i \in Int /\ pid.prev \in Int
      /\ pid.lim \in BOOLEAN /\ pid.min \in Int /\ pid.max \in Nat /\ pid.min <= 0 /\ pid.prev = last.value
      /\ v \in Int /\ sp \in Int
  BY ServicesAssumption, PidFields DEF PidInv, PD!Parameters
<1>1. e \in Int /\ s \in Int
  BY <1>0
<1>2. d \in Int /\ (e = last.value \/ pid.kd = 0 => d = 0)
  <2> HIDE DEF e
  <2> QED
    BY <1>0, <1>1
<1>3. /\ pid.kind = "cpp" /\ pid' = [pid EXCEPT !.i = i, !.prev = e]
      /\ last' = [done |-> TRUE, error |-> e, value |-> e, quiet |-> e = last.value,
                  output |-> PD!Limited(pid.kp * e + t + pid.kd * (e - pid.prev)), calls |-> last.calls + 1]
  BY DEF PD!Calculate
<1>4. i \in Int /\ t \in Int /\ (pid.lim => pid.min <= t /\ t <= pid.max)
  <2>1. CASE pid.lim /\ pid.ki > 0
    <3> DEFINE k == pid.ki
               m == -pid.min
               a == m \div k
               b == pid.max \div k
               lo == -a
    <3>1. m \in Nat /\ k \in Nat /\ k > 0
      BY <1>0, <2>1
    <3>2. a \in Nat /\ b \in Nat /\ k * a <= m /\ k * b <= pid.max
      BY <1>0, <3>1, Quotient, Zenon
    <3>3. i = PD!Clamped(s, lo, b)
      BY <2>1 DEF PD!Integral
    <3>4. pid.min = -m
      BY <1>0
    <3> HIDE DEF m, k, a, b, i, s, e
    <3>5. lo \in Int /\ lo <= b /\ k * lo = -(k * a) /\ k * a \in Nat /\ k * b \in Nat
      BY <3>1, <3>2
    <3> HIDE DEF lo
    <3>6. i \in Int /\ lo <= i /\ i <= b
      BY <1>1, <3>2, <3>3, <3>5, ClampedInside
    <3>7. k * lo <= k * i /\ k * i <= k * b /\ k * i \in Int
      BY <3>1, <3>2, <3>5, <3>6, Times
    <3>8. pid.min <= k * i /\ k * i <= pid.max
      BY <1>0, <3>1, <3>2, <3>4, <3>5, <3>7
    <3> QED
      BY <3>6, <3>7, <3>8 DEF k
  <2>2. CASE ~(pid.lim /\ pid.ki > 0)
    <3>1. i = s
      BY <2>2 DEF PD!Integral
    <3> HIDE DEF i, s, e
    <3>2. t \in Int
      BY <1>0, <1>1, <3>1
    <3>3. pid.lim => t = 0
      BY <1>0, <1>1, <2>2, <3>1
    <3> QED
      BY <1>0, <1>1, <3>1, <3>2, <3>3
  <2> QED
    BY <2>1, <2>2
<1>5. pid.kp * e + t + pid.kd * (e - pid.prev) = pid.kp * e + t - d
  <2> HIDE DEF e, t
  <2> QED
    BY <1>0, <1>1, <1>4
<1> HIDE DEF e, s, i, d
<1>6. t = (IF pid.kind = "c" THEN i ELSE pid.ki * i)
  BY <1>3
<1>7. last' = [done |-> TRUE, error |-> e, value |-> e, quiet |-> e = last.value,
               output |-> PD!Limited(pid.kp * e + t - d), calls |-> last.calls + 1]
  BY <1>3, <1>5, Zenon
<1>8. pid' = [pid EXCEPT !.i = i, !.prev = e]
  BY <1>3
<1> HIDE DEF t
<1> QED
  BY <1>1, <1>2, <1>4, <1>6, <1>7, <1>8, PidCalculates, Zenon

LEMMA PidSteps == ASSUME PidInv, PD!Next PROVE PidInv'
BY PidOthers, PidC, PidCpp DEF PD!Next

\* Neither controller winds up or kicks: for all gains that are not negative, all limits
\* around 0, all inputs and targets and every sequence of calls.
THEOREM ControllersSteady == Spec => [](NoWindup /\ NoKick)
<1> DEFINE I == part = "pid" => PidInv
<1>1. Init => I
  BY PidBegins DEF Init
<1>2. I /\ [Next]_vars => I'
  <2> SUFFICES ASSUME I, [Next]_vars PROVE I'
    OBVIOUS
  <2>1. CASE PidStep
    BY <2>1, PidSteps DEF PidStep, RestPid
  <2>2. CASE ~PidStep
    <3>1. part' = part /\ (part = "pid" => UNCHANGED pidVars)
      BY <2>2 DEF Next, CppStep, UdpStep, OtaStep, LogStep, FileStep, LcdStep, PanelStep, SumStep, AlgStep,
                  RestCpp, RestUdp, RestOta, RestLog, RestFile, RestLcd, RestPanel, RestSum, RestAlg, vars
    <3> QED
      BY <3>1 DEF pidVars, PidInv, PD!NoKick, PD!NoWindup, PD!Limited
  <2> QED
    BY <2>1, <2>2
<1>3. I => NoWindup /\ NoKick
  BY DEF NoWindup, NoKick, PidInv
<1> QED
  BY <1>1, <1>2, <1>3, PTL DEF Spec

-----------------------------------------------------------------------------
(***************************************************************************)
(* The UDP side of ServerBase.                                             *)
(***************************************************************************)
SocketType == [valid : BOOLEAN, shut : BOOLEAN, queue : Seq(0..1)]
ToldType == [sent : Nat, handed : Nat, failed : BOOLEAN]

\* What waits and what was handed on was sent.
UdpInv ==
  /\ socket \in SocketType /\ told \in ToldType
  /\ US!TypeOK /\ told.handed + Len(socket.queue) <= told.sent

LEMMA UdpFields == ASSUME UdpInv
  PROVE  /\ socket.valid \in BOOLEAN /\ socket.shut \in BOOLEAN /\ socket.queue \in Seq(0..1)
         /\ told.sent \in Nat /\ told.handed \in Nat
         /\ Len(socket.queue) \in Nat /\ Len(socket.queue) <= MaxQueue
         /\ told.handed + Len(socket.queue) <= told.sent
<1>1. socket.valid \in BOOLEAN /\ socket.shut \in BOOLEAN /\ socket.queue \in Seq(0..1)
  BY DEF UdpInv, SocketType
<1> QED
  BY <1>1 DEF UdpInv, ToldType, US!TypeOK

LEMMA UdpBegins == ASSUME US!Init PROVE UdpInv
<1> DEFINE q == <<>>
           no == FALSE
           yes == TRUE
<1>1. q \in Seq(0..1) /\ Len(q) = 0 /\ no \in BOOLEAN /\ yes \in BOOLEAN
  OBVIOUS
<1>2. /\ socket = [valid |-> yes, shut |-> no, queue |-> q]
      /\ told \in [sent : {0}, handed : {0}, failed : BOOLEAN]
  BY DEF US!Init
<1>3. MaxQueue \in Nat
  BY ServicesAssumption DEF US!Parameters
<1> HIDE DEF q, no, yes
<1>4. socket \in SocketType /\ socket.queue = q
  BY <1>1, <1>2 DEF SocketType
<1>5. told \in ToldType /\ told.sent = 0 /\ told.handed = 0
  BY <1>2 DEF ToldType
<1> QED
  BY <1>1, <1>3, <1>4, <1>5 DEF UdpInv, US!TypeOK

\* A step that leaves the queue alone.
LEMMA UdpFlags ==
  ASSUME UdpInv, NEW v \in BOOLEAN, NEW s \in BOOLEAN, told' = told,
         socket' = [valid |-> v, shut |-> s, queue |-> socket.queue]
  PROVE  UdpInv'
<1>1. socket' \in SocketType /\ socket'.queue = socket.queue
  BY UdpFields DEF SocketType
<1> QED
  BY <1>1 DEF UdpInv, US!TypeOK

LEMMA UdpArrive == ASSUME UdpInv, NEW size \in 0..1, US!Arrive(size) PROVE UdpInv'
<1> DEFINE q == Append(socket.queue, size)
           n == told.sent + 1
<1>1. Len(socket.queue) < MaxQueue /\ socket' = [socket EXCEPT !.queue = q] /\ told' = [told EXCEPT !.sent = n]
  BY DEF US!Arrive
<1>2. q \in Seq(0..1) /\ Len(q) = Len(socket.queue) + 1
  BY UdpFields
<1>3. n \in Nat /\ n = told.sent + 1
  BY UdpFields
<1> HIDE DEF q, n
<1>4. socket' \in SocketType /\ socket'.queue = q
  BY <1>1, <1>2 DEF UdpInv, SocketType
<1>5. told' \in ToldType /\ told'.sent = n /\ told'.handed = told.handed
  BY <1>1, <1>3 DEF UdpInv, ToldType
<1>6. Len(q) <= MaxQueue /\ told.handed + Len(q) <= n /\ told.handed <= n
  <2>1. MaxQueue \in Nat
    BY ServicesAssumption DEF US!Parameters
  <2> QED
    BY <1>1, <1>2, <1>3, <2>1, UdpFields
<1> QED
  BY <1>4, <1>5, <1>6 DEF UdpInv, US!TypeOK

LEMMA UdpReceive == ASSUME UdpInv, US!Receive PROVE UdpInv'
<1> DEFINE size == IF socket.queue = <<>> THEN 0 ELSE Head(socket.queue)
           q == IF socket.queue = <<>> THEN socket.queue ELSE Tail(socket.queue)
           n == IF size > 0 THEN told.handed + 1 ELSE told.handed
<1>1. CASE UNCHANGED <<socket, told>>
  BY <1>1 DEF UdpInv, US!TypeOK
<1>2. CASE loop.fd
  <2>1. socket' = [socket EXCEPT !.queue = q] /\ told' = [told EXCEPT !.handed = n]
    BY <1>2 DEF US!Receive
  <2>2. q \in Seq(0..1) /\ Len(q) = IF socket.queue = <<>> THEN Len(socket.queue) ELSE Len(socket.queue) - 1
    BY UdpFields
  <2>3. n \in Nat /\ n <= IF socket.queue = <<>> THEN told.handed ELSE told.handed + 1
    BY UdpFields
  <2> HIDE DEF q, n
  <2>4. socket' \in SocketType /\ socket'.queue = q
    BY <2>1, <2>2 DEF UdpInv, SocketType
  <2>5. told' \in ToldType /\ told'.sent = told.sent /\ told'.handed = n
    BY <2>1, <2>3 DEF UdpInv, ToldType
  <2>6. Len(q) <= MaxQueue /\ n + Len(q) <= told.sent /\ n <= told.sent
    <3>1. MaxQueue \in Nat
      BY ServicesAssumption DEF US!Parameters
    <3>2. CASE socket.queue = <<>>
      BY <2>2, <2>3, <3>1, <3>2, UdpFields
    <3>3. CASE socket.queue # <<>>
      BY <2>2, <2>3, <3>1, <3>3, UdpFields, SMTT(20), ZenonT(30)
    <3> QED
      BY <3>2, <3>3
  <2> QED
    BY <2>4, <2>5, <2>6 DEF UdpInv, US!TypeOK
<1> QED
  BY <1>1, <1>2 DEF US!Receive

LEMMA UdpSteps == ASSUME UdpInv, US!Next PROVE UdpInv'
<1>1. CASE US!Load \/ US!StopJoin
  BY <1>1 DEF US!Load, US!StopJoin, UdpInv, US!TypeOK
<1>2. CASE US!StopShutdown
  <2> DEFINE yes == TRUE
  <2>1. socket' = [socket EXCEPT !.shut = yes] /\ told' = told /\ yes \in BOOLEAN
    BY <1>2 DEF US!StopShutdown
  <2> HIDE DEF yes
  <2>2. socket' = [valid |-> socket.valid, shut |-> yes, queue |-> socket.queue]
    BY <2>1 DEF UdpInv, SocketType
  <2> QED
    BY <2>1, <2>2, UdpFlags, UdpFields, Zenon
<1>3. CASE US!StopClear
  <2> DEFINE no == FALSE
  <2>1. socket' = [socket EXCEPT !.valid = no] /\ told' = told /\ no \in BOOLEAN
    BY <1>3 DEF US!StopClear
  <2> HIDE DEF no
  <2>2. socket' = [valid |-> no, shut |-> socket.shut, queue |-> socket.queue]
    BY <2>1 DEF UdpInv, SocketType
  <2> QED
    BY <2>1, <2>2, UdpFlags, UdpFields, Zenon
<1>4. CASE US!ReceiveFails
  <2> DEFINE yes == TRUE
  <2>1. told' = [told EXCEPT !.failed = yes] /\ socket' = socket /\ yes \in BOOLEAN
    BY <1>4 DEF US!ReceiveFails
  <2> HIDE DEF yes
  <2>2. told' \in ToldType /\ told'.sent = told.sent /\ told'.handed = told.handed
    BY <2>1 DEF UdpInv, ToldType
  <2> QED
    BY <2>1, <2>2 DEF UdpInv, US!TypeOK
<1> QED
  BY <1>1, <1>2, <1>3, <1>4, UdpArrive, UdpReceive DEF US!Next, US!Threads, US!Stopping

-----------------------------------------------------------------------------
(***************************************************************************)
(* Text files.                                                             *)
(***************************************************************************)
Glyphs == {"a", ",", "r", "n", "0"}
FileType == [kind : {"closed", "file", "text"}, flags : {"R", "W", "RW"}, pos : Nat, map : Nat \cup {TF!NoMap}]
ReaderShape(r) ==
  /\ r = [at |-> r.at, size |-> r.size, count |-> r.count, crlf |-> r.crlf]
  /\ r.at \in Nat /\ r.size \in Nat /\ r.at <= r.size

FileInv == disk \in Seq(Glyphs) /\ file \in FileType /\ ReaderShape(reader)

LEMMA FileFields == ASSUME FileInv
  PROVE  /\ file.kind \in {"closed", "file", "text"} /\ file.flags \in {"R", "W", "RW"}
         /\ file.pos \in Nat /\ file.map \in Nat \cup {TF!NoMap} /\ Len(disk) \in Nat
BY DEF FileInv, FileType

LEMMA FileImplies == ASSUME FileInv PROVE TF!TypeOK
BY FileFields DEF FileInv, ReaderShape, TF!TypeOK

LEMMA FileBegins == ASSUME TF!Init PROVE FileInv
<1>1. disk \in Seq(Glyphs)
  <2>1. PICK k \in 0..MaxLen : disk \in [1..k -> {"a", ",", "r", "n"}]
    BY Zenon DEF TF!Init, TF!Texts
  <2>2. disk \in [1..k -> Glyphs]
    BY <2>1, Zenon DEF Glyphs
  <2> QED
    BY <2>2
<1>2. file \in FileType
  BY DEF TF!Init, TF!Closed, FileType, TF!NoMap
<1>3. ReaderShape(reader)
  <2> DEFINE no == FALSE
  <2>1. reader = [at |-> 0, size |-> 0, count |-> 0, crlf |-> no]
    BY DEF TF!Init
  <2> HIDE DEF no
  <2> QED
    BY <2>1 DEF ReaderShape
<1> QED
  BY <1>1, <1>2, <1>3 DEF FileInv

\* A step of a File: the offset and the mapping change.
LEMMA FileGoesOn ==
  ASSUME FileInv, NEW p \in Nat, NEW m \in Nat \cup {TF!NoMap}, disk' \in Seq(Glyphs), reader' = reader,
         file' = [kind |-> file.kind, flags |-> file.flags, pos |-> p, map |-> m]
  PROVE  FileInv'
BY FileFields DEF FileInv, FileType, ReaderShape

LEMMA FileShape == ASSUME FileInv
  PROVE  \A p : /\ [file EXCEPT !.pos = p] = [kind |-> file.kind, flags |-> file.flags, pos |-> p, map |-> file.map]
                /\ [file EXCEPT !.map = p] = [kind |-> file.kind, flags |-> file.flags, pos |-> file.pos, map |-> p]
BY DEF FileInv, FileType

LEMMA FileOpen == ASSUME FileInv, NEW f \in {"R", "W", "RW"}, TF!Open(f) PROVE FileInv'
<1>1. file' = [kind |-> "file", flags |-> f, pos |-> 0, map |-> TF!NoMap] /\ UNCHANGED <<disk, reader>>
  BY Zenon DEF TF!Open, TF!Closed
<1> QED
  BY <1>1 DEF FileInv, FileType, ReaderShape

LEMMA FileOpenText == ASSUME FileInv, TF!OpenText PROVE FileInv'
<1> DEFINE n == Len(disk)
           c == TF!Count("n") + 1
           b == TF!Count("r") > 0 /\ TF!Count("n") > 0
<1>1. file' = [kind |-> "text", flags |-> "R", pos |-> 0, map |-> n]
  BY Zenon DEF TF!OpenText, TF!Closed
<1>2. reader' = [at |-> 0, size |-> n, count |-> c, crlf |-> b] /\ disk' = disk
  BY DEF TF!OpenText
<1>3. n \in Nat
  BY FileFields
<1> HIDE DEF n, c, b
<1>4. file' \in FileType
  BY <1>1, <1>3 DEF FileType
<1>5. ReaderShape(reader')
  BY <1>2, <1>3 DEF ReaderShape
<1> QED
  BY <1>2, <1>4, <1>5 DEF FileInv, ReaderShape

LEMMA FileClose == ASSUME FileInv, TF!Close PROVE FileInv'
<1>1. file' = [kind |-> "closed", flags |-> "RW", pos |-> 0, map |-> TF!NoMap] /\ UNCHANGED <<disk, reader>>
  BY DEF TF!Close, TF!Closed
<1> QED
  BY <1>1 DEF FileInv, FileType, ReaderShape

LEMMA FileSeek == ASSUME FileInv, NEW w \in {"SET", "CURRENT", "END"}, NEW n \in 0..1, TF!Seek(w, n) PROVE FileInv'
<1> DEFINE base == CASE w = "SET" -> 0 [] w = "CURRENT" -> file.pos [] w = "END" -> Len(disk)
           p == base + n
<1>1. base \in Nat
  BY FileFields, Zenon
<1>2. file' = [file EXCEPT !.pos = p] /\ UNCHANGED <<disk, reader>>
  BY Zenon DEF TF!Seek
<1> HIDE DEF base
<1>3. p \in Nat
  BY <1>1
<1> HIDE DEF p
<1>4. file' = [kind |-> file.kind, flags |-> file.flags, pos |-> p, map |-> file.map]
  BY <1>2, FileShape, Zenon
<1>5. disk' \in Seq(Glyphs) /\ file.map \in Nat \cup {TF!NoMap} /\ reader' = reader
  BY <1>2, FileFields DEF FileInv
<1> QED
  BY <1>3, <1>4, <1>5, FileGoesOn

\* write(2) leaves a text.
LEMMA PutIsText == ASSUME NEW t \in Seq(Glyphs), NEW p \in Nat, NEW d \in Seq(Glyphs) PROVE TF!Put(t, p, d) \in Seq(Glyphs)
<1> DEFINE n == IF p + Len(d) > Len(t) THEN p + Len(d) ELSE Len(t)
           at(i) == IF i > p /\ i <= p + Len(d) THEN d[i - p] ELSE IF i <= Len(t) THEN t[i] ELSE "0"
<1>1. n \in Nat
  OBVIOUS
<1>2. \A i \in 1..n : at(i) \in Glyphs
  <2> SUFFICES ASSUME NEW i \in 1..n PROVE at(i) \in Glyphs
    OBVIOUS
  <2>1. CASE i > p /\ i <= p + Len(d)
    <3>1. i - p \in 1..Len(d)
      BY <1>1, <2>1
    <3> QED
      BY <2>1, <3>1
  <2>2. CASE ~(i > p /\ i <= p + Len(d)) /\ i <= Len(t)
    BY <1>1, <2>2
  <2>3. CASE ~(i > p /\ i <= p + Len(d)) /\ ~(i <= Len(t))
    BY <2>3, Zenon DEF Glyphs
  <2> QED
    BY <2>1, <2>2, <2>3
<1>3. TF!Put(t, p, d) = [i \in 1..n |-> at(i)]
  BY DEF TF!Put
<1> HIDE DEF n, at
<1> QED
  BY <1>1, <1>2, <1>3

LEMMA FileWrite == ASSUME FileInv, NEW d \in Seq(Glyphs), TF!Write(d) PROVE FileInv'
<1> DEFINE p == file.pos + Len(d)
           t == TF!Put(disk, file.pos, d)
<1>1. file' = [file EXCEPT !.pos = p] /\ disk' = t /\ reader' = reader
  BY DEF TF!Write
<1>2. p \in Nat /\ t \in Seq(Glyphs)
  BY FileFields, PutIsText DEF FileInv
<1> HIDE DEF p, t
<1>3. file' = [kind |-> file.kind, flags |-> file.flags, pos |-> p, map |-> file.map]
  BY <1>1, FileShape, Zenon
<1> QED
  BY <1>1, <1>2, <1>3, FileFields, FileGoesOn, Zenon

LEMMA FileStreamIn == ASSUME FileInv, NEW d \in Seq(Glyphs), TF!StreamIn(d) PROVE FileInv'
<1> DEFINE p == file.pos + Len(d)
           none == <<>>
           t == TF!Put(none, file.pos, d)
<1>1. file' = [file EXCEPT !.pos = p] /\ disk' = t /\ reader' = reader
  BY DEF TF!StreamIn, TF!Truncated
<1>2. p \in Nat /\ t \in Seq(Glyphs)
  <2>1. none \in Seq(Glyphs)
    OBVIOUS
  <2> HIDE DEF none
  <2> QED
    BY <2>1, FileFields, PutIsText DEF FileInv
<1> HIDE DEF p, t
<1>3. file' = [kind |-> file.kind, flags |-> file.flags, pos |-> p, map |-> file.map]
  BY <1>1, FileShape, Zenon
<1> QED
  BY <1>1, <1>2, <1>3, FileFields, FileGoesOn, Zenon

LEMMA FileRead == ASSUME FileInv, NEW n \in 0..2, TF!Read(n) PROVE FileInv'
<1> DEFINE p == IF file.pos >= Len(disk) THEN file.pos ELSE IF file.pos + n > Len(disk) THEN Len(disk) ELSE file.pos + n
<1>1. file' = [file EXCEPT !.pos = p] /\ UNCHANGED <<disk, reader>>
  BY DEF TF!Read
<1>2. p \in Nat
  BY FileFields
<1> HIDE DEF p
<1>3. file' = [kind |-> file.kind, flags |-> file.flags, pos |-> p, map |-> file.map]
  BY <1>1, FileShape, Zenon
<1>4. disk' \in Seq(Glyphs)
  BY <1>1 DEF FileInv
<1> QED
  BY <1>1, <1>2, <1>3, <1>4, FileFields, FileGoesOn, Zenon

LEMMA FileReadAll == ASSUME FileInv, TF!ReadAll PROVE FileInv'
<1>1. file' = [file EXCEPT !.pos = 0] /\ UNCHANGED <<disk, reader>>
  BY DEF TF!ReadAll
<1>2. file' = [kind |-> file.kind, flags |-> file.flags, pos |-> 0, map |-> file.map] /\ 0 \in Nat
  BY <1>1, FileShape, Zenon
<1>3. disk' \in Seq(Glyphs)
  BY <1>1 DEF FileInv
<1> QED
  BY <1>1, <1>2, <1>3, FileFields, FileGoesOn, Zenon

LEMMA FileMapFile == ASSUME FileInv, NEW n \in 0..2, TF!MapFile(n) PROVE FileInv'
<1> DEFINE m == IF file.map = TF!NoMap THEN IF n = 0 THEN Len(disk) ELSE n ELSE file.map
<1>1. UNCHANGED <<disk, reader>> /\ (file' = [file EXCEPT !.map = m] \/ file' = file)
  BY DEF TF!MapFile
<1>2. m \in Nat \cup {TF!NoMap}
  BY FileFields
<1> HIDE DEF m
<1>3. CASE file' = file
  BY <1>1, <1>3 DEF FileInv, ReaderShape
<1>4. CASE file' = [file EXCEPT !.map = m]
  <2>1. file' = [kind |-> file.kind, flags |-> file.flags, pos |-> file.pos, map |-> m]
    BY <1>4, FileShape, Zenon
  <2>2. disk' \in Seq(Glyphs)
    BY <1>1 DEF FileInv
  <2> QED
    BY <1>1, <1>2, <2>1, <2>2, FileFields, FileGoesOn
<1> QED
  BY <1>1, <1>3, <1>4

\* A step of a TextFile: the reader goes on, or the file changes under it.
LEMMA ReaderGoesOn ==
  ASSUME FileInv, disk' \in Seq(Glyphs), file' = file, ReaderShape(reader')
  PROVE  FileInv'
BY DEF FileInv, ReaderShape

LEMMA LineEndInside == ASSUME FileInv PROVE TF!LineEnd(reader.at) \in Nat /\ TF!LineEnd(reader.at) <= reader.size
<1> DEFINE hits == {i \in (reader.at + 1)..reader.size : disk[i] = IF reader.crlf THEN "r" ELSE "n"}
           hit == CHOOSE i \in hits : \A j \in hits : i <= j
<1>0. reader.at \in Nat /\ reader.size \in Nat
  BY DEF FileInv, ReaderShape
<1>1. TF!LineEnd(reader.at) = IF hits = {} THEN reader.size ELSE IF reader.crlf /\ hit < reader.size THEN hit + 1 ELSE hit
  BY DEF TF!LineEnd
<1>2. \A i \in hits : i \in Nat /\ i <= reader.size
  BY <1>0
<1> HIDE DEF hits
<1>3. ASSUME hits # {} PROVE hit \in hits
  <2>1. hits \in SUBSET Nat
    BY <1>2
  <2>2. \E i \in hits : \A j \in hits : i <= j
    BY <1>3, <2>1, LeastElement
  <2> QED
    BY <2>2
<1> HIDE DEF hit
<1>4. CASE hits = {}
  BY <1>0, <1>1, <1>4
<1>5. CASE hits # {}
  BY <1>0, <1>1, <1>2, <1>3, <1>5
<1> QED
  BY <1>4, <1>5

LEMMA FileReadLine == ASSUME FileInv, TF!ReadLine PROVE FileInv'
<1> DEFINE end == TF!LineEnd(reader.at)
<1>1. reader' = [reader EXCEPT !.at = end] /\ UNCHANGED <<disk, file>>
  BY DEF TF!ReadLine
<1>2. end \in Nat /\ end <= reader.size
  BY LineEndInside
<1> HIDE DEF end
<1>3. ReaderShape(reader')
  BY <1>1, <1>2 DEF FileInv, ReaderShape
<1>4. disk' \in Seq(Glyphs)
  BY <1>1 DEF FileInv
<1> QED
  BY <1>1, <1>3, <1>4, ReaderGoesOn

LEMMA FileReset == ASSUME FileInv, TF!Reset PROVE FileInv'
<1> DEFINE n == Len(disk)
<1>1. reader' = [reader EXCEPT !.at = 0, !.size = n] /\ UNCHANGED <<disk, file>>
  BY DEF TF!Reset
<1>2. n \in Nat
  BY FileFields
<1> HIDE DEF n
<1>3. reader' = [at |-> 0, size |-> n, count |-> reader.count, crlf |-> reader.crlf]
  BY <1>1, Zenon DEF FileInv, ReaderShape
<1>5. ReaderShape(reader')
  BY <1>2, <1>3 DEF ReaderShape
<1>4. disk' \in Seq(Glyphs)
  BY <1>1 DEF FileInv
<1> QED
  BY <1>1, <1>4, <1>5, ReaderGoesOn

LEMMA FileChanged == ASSUME FileInv, TF!Changed PROVE FileInv'
<1>1. disk \in Seq(Glyphs) /\ UNCHANGED <<file, reader>>
  BY DEF FileInv, TF!Changed
<1>2. disk' \in {Append(disk, "a"), Append(disk, "n"), SubSeq(disk, 1, Len(disk) - 1)}
  BY DEF TF!Changed
<1>3. Append(disk, "a") \in Seq(Glyphs) /\ Append(disk, "n") \in Seq(Glyphs)
  <2>1. "a" \in Glyphs /\ "n" \in Glyphs
    BY DEF Glyphs
  <2> QED
    BY <1>1, <2>1
<1>4. SubSeq(disk, 1, Len(disk) - 1) \in Seq(Glyphs)
  BY <1>1
<1>5. disk' \in Seq(Glyphs)
  BY <1>2, <1>3, <1>4, Zenon
<1> QED
  BY <1>1, <1>5 DEF FileInv, ReaderShape

LEMMA FileSteps == ASSUME FileInv, TF!Next PROVE FileInv'
<1>1. \A d \in {<<"a">>} : d \in Seq(Glyphs)
  <2> DEFINE a == "a"
  <2>1. a \in Glyphs
    BY DEF Glyphs
  <2> HIDE DEF a
  <2>2. <<a>> \in Seq(Glyphs)
    BY <2>1
  <2> QED
    BY <2>2, Zenon DEF a
<1> QED
  BY <1>1, FileOpen, FileOpenText, FileClose, FileReadAll, FileReset, FileReadLine, FileChanged, FileSeek, FileWrite,
     FileStreamIn, FileRead, FileMapFile, Zenon DEF TF!Next

-----------------------------------------------------------------------------
(***************************************************************************)
(* The character display.  What the strobes of an operation still do to    *)
(* the controller decides where they lead: on the narrow bus with nothing  *)
(* waiting, the cursor and the text where the calls put them.              *)
(***************************************************************************)
StrobeType == [rs : BOOLEAN, n : 0..15]
Controller(w, h, r, a, c, m) == [wide |-> w, high |-> h, rs |-> r, addr |-> a, cgram |-> c, mem |-> m]

LcdOK(l) ==
  /\ l = Controller(l.wide, l.high, l.rs, l.addr, l.cgram, l.mem)
  /\ l.wide \in BOOLEAN /\ l.high \in 0..16 /\ l.rs \in BOOLEAN /\ l.addr \in 0..127 /\ l.cgram \in BOOLEAN
  /\ DOMAIN l.mem \subseteq DP!Cells
  /\ l.wide => l.high = 16

LEMMA ControllerFields ==
  ASSUME NEW w, NEW h, NEW r, NEW a, NEW c, NEW m
  PROVE  LET l == Controller(w, h, r, a, c, m) IN
         l.wide = w /\ l.high = h /\ l.rs = r /\ l.addr = a /\ l.cgram = c /\ l.mem = m
BY DEF Controller

Only(w, h, r, a, c, m) == [wide : {w}, high : {h}, rs : {r}, addr : {a}, cgram : {c}, mem : {m}]

LEMMA OnlyThat ==
  ASSUME NEW w, NEW h, NEW r, NEW a, NEW c, NEW m
  PROVE  /\ \A v \in Only(w, h, r, a, c, m) : v = Controller(w, h, r, a, c, m)
         /\ Controller(w, h, r, a, c, m) \in Only(w, h, r, a, c, m)
BY DEF Only, Controller

\* What an assignment to two or three fields makes of the controller.
SetText(l, m, p) == [l EXCEPT !.mem = m, !.addr = p]
SetHalf(l, p, q) == [l EXCEPT !.high = p, !.rs = q]

LEMMA TextSet ==
  ASSUME NEW w, NEW h, NEW r, NEW a, NEW c, NEW t, NEW p, NEW m
  PROVE  SetText(Controller(w, h, r, a, c, t), m, p) = Controller(w, h, r, p, c, m)
<1> DEFINE l == Controller(w, h, r, a, c, t)
<1>1. l \in Only(w, h, r, a, c, t)
  BY OnlyThat
<1> HIDE DEF l
<1>2. SetText(l, m, p) \in Only(w, h, r, p, c, m)
  BY <1>1, Zenon DEF Only, SetText
<1> QED
  BY <1>2, OnlyThat, Zenon DEF l

LEMMA HalfSet ==
  ASSUME NEW w, NEW h, NEW r, NEW a, NEW c, NEW t, NEW p, NEW q
  PROVE  SetHalf(Controller(w, h, r, a, c, t), p, q) = Controller(w, p, q, a, c, t)
<1> DEFINE l == Controller(w, h, r, a, c, t)
<1>1. l \in Only(w, h, r, a, c, t)
  BY OnlyThat
<1> HIDE DEF l
<1>2. SetHalf(l, p, q) \in Only(w, p, q, a, c, t)
  BY <1>1, Zenon DEF Only, SetHalf
<1> QED
  BY <1>2, OnlyThat, Zenon DEF l

LEMMA ControllerOK ==
  ASSUME NEW w \in BOOLEAN, NEW h \in 0..16, NEW r \in BOOLEAN, NEW a \in 0..127, NEW c \in BOOLEAN, NEW m,
         DOMAIN m \subseteq DP!Cells, w => h = 16
  PROVE  LcdOK(Controller(w, h, r, a, c, m))
<1> DEFINE l == Controller(w, h, r, a, c, m)
<1>1. l.wide = w /\ l.high = h /\ l.rs = r /\ l.addr = a /\ l.cgram = c /\ l.mem = m
  BY ControllerFields
<1> HIDE DEF l
<1>2. l = Controller(l.wide, l.high, l.rs, l.addr, l.cgram, l.mem)
  BY <1>1 DEF l
<1> QED
  BY <1>1, <1>2 DEF LcdOK, l

\* What a byte makes of the bus, the cursor, the choice of memory and the text.
Stores(l) == ~l.cgram /\ l.addr \in DP!Cells
WideAfter(l, b, rs) == IF ~rs /\ b \in 32..63 THEN (b \div 16) % 2 = 1 ELSE l.wide
AddrAfter(l, b, rs) ==
  IF rs THEN IF Stores(l) THEN DP!After(l.addr) ELSE l.addr
  ELSE IF b >= 128 THEN b - 128 ELSE IF b \in 1..3 THEN 0 ELSE l.addr
CgramAfter(l, b, rs) ==
  IF rs THEN l.cgram ELSE IF b >= 128 \/ b \in 1..3 THEN FALSE ELSE IF b \in 64..127 THEN TRUE ELSE l.cgram
Stored(mem, a, b) == [x \in DOMAIN mem \cup {a} |-> IF x = a THEN b ELSE mem[x]]
MemAfter(l, b, rs) ==
  IF rs THEN IF Stores(l) THEN Stored(l.mem, l.addr, b) ELSE l.mem
  ELSE IF b = 1 THEN <<>> ELSE l.mem

\* A whole byte, with what is said of the half byte that waits.
Took(l, b, rs, h, r) == Controller(WideAfter(l, b, rs), h, r, AddrAfter(l, b, rs), CgramAfter(l, b, rs), MemAfter(l, b, rs))

Fed(l, s) ==
  IF l.wide THEN Took(l, 16 * s.n, s.rs, l.high, l.rs)
  ELSE IF l.high = 16 THEN Controller(l.wide, s.n, s.rs, l.addr, l.cgram, l.mem)
  ELSE Took(l, 16 * l.high + s.n, s.rs, 16, FALSE)

LEMMA TookOK ==
  ASSUME NEW l, LcdOK(l), NEW b \in 0..255, NEW rs \in BOOLEAN, NEW r \in BOOLEAN
  PROVE  LcdOK(Took(l, b, rs, 16, r))
<1>1. WideAfter(l, b, rs) \in BOOLEAN /\ CgramAfter(l, b, rs) \in BOOLEAN
  <2> DEFINE v == (b \div 16) % 2 = 1
             no == FALSE
             yes == TRUE
  <2>1. v \in BOOLEAN /\ no \in BOOLEAN /\ yes \in BOOLEAN /\ l.wide \in BOOLEAN /\ l.cgram \in BOOLEAN
    BY Zenon DEF LcdOK
  <2>2. WideAfter(l, b, rs) = IF ~rs /\ b \in 32..63 THEN v ELSE l.wide
    BY Zenon DEF WideAfter
  <2>3. CgramAfter(l, b, rs) =
          IF rs THEN l.cgram ELSE IF b >= 128 \/ b \in 1..3 THEN no ELSE IF b \in 64..127 THEN yes ELSE l.cgram
    BY Zenon DEF CgramAfter
  <2> HIDE DEF v, no, yes
  <2>4. WideAfter(l, b, rs) \in BOOLEAN
    BY <2>1, <2>2
  <2>5. CgramAfter(l, b, rs) \in BOOLEAN
    BY <2>1, <2>3
  <2> QED
    BY <2>4, <2>5
<1>2. AddrAfter(l, b, rs) \in 0..127
  BY DEF AddrAfter, Stores, LcdOK, DP!After, DP!Cells
<1>3. DOMAIN MemAfter(l, b, rs) \subseteq DP!Cells
  BY DEF MemAfter, Stores, Stored, LcdOK
<1> DEFINE w == WideAfter(l, b, rs)
           a == AddrAfter(l, b, rs)
           c == CgramAfter(l, b, rs)
           m == MemAfter(l, b, rs)
<1>4. Took(l, b, rs, 16, r) = Controller(w, 16, r, a, c, m)
  BY DEF Took
<1>5. 16 \in 0..16
  OBVIOUS
<1> HIDE DEF w, a, c, m
<1>6. LcdOK(Controller(w, 16, r, a, c, m))
  BY <1>1, <1>2, <1>3, <1>5, ControllerOK, Zenon DEF w, a, c, m
<1> QED
  BY <1>4, <1>6

LEMMA FedOK == ASSUME NEW l, LcdOK(l), NEW s \in StrobeType PROVE LcdOK(Fed(l, s))
<1>1. s.rs \in BOOLEAN /\ s.n \in 0..15 /\ 16 * s.n \in 0..255
  BY DEF StrobeType
<1>2. CASE l.wide
  <2>1. l.high = 16 /\ l.rs \in BOOLEAN
    BY <1>2 DEF LcdOK
  <2>2. Fed(l, s) = Took(l, 16 * s.n, s.rs, 16, l.rs)
    BY <1>2, <2>1 DEF Fed
  <2> QED
    BY <1>1, <2>1, <2>2, TookOK, Zenon
<1>3. CASE ~l.wide /\ l.high = 16
  <2>1. Fed(l, s) = Controller(l.wide, s.n, s.rs, l.addr, l.cgram, l.mem)
    BY <1>3 DEF Fed
  <2> DEFINE no == l.wide
             c == l.cgram
             m == l.mem
  <2>2. no \in BOOLEAN /\ ~no /\ c \in BOOLEAN /\ l.addr \in 0..127 /\ DOMAIN m \subseteq DP!Cells
    BY <1>3 DEF LcdOK
  <2>3. s.n \in 0..16
    BY <1>1
  <2> HIDE DEF no, c, m
  <2>4. LcdOK(Controller(no, s.n, s.rs, l.addr, c, m))
    BY <1>1, <2>2, <2>3, ControllerOK, Zenon
  <2> QED
    BY <2>1, <2>4 DEF no, c, m
<1>4. CASE ~l.wide /\ l.high # 16
  <2> DEFINE no == FALSE
             b == 16 * l.high + s.n
  <2>1. Fed(l, s) = Took(l, b, s.rs, 16, no)
    BY <1>4 DEF Fed
  <2>2. b \in 0..255 /\ no \in BOOLEAN
    <3>1. l.high \in 0..15
      BY <1>4 DEF LcdOK
    <3> QED
      BY <1>1, <3>1
  <2> HIDE DEF no, b
  <2> QED
    BY <1>1, <2>1, <2>2, TookOK, Zenon
<1> QED
  BY <1>2, <1>3, <1>4

LEMMA DecodedTook ==
  ASSUME LcdOK(lcd), NEW b \in 0..255, NEW rs \in BOOLEAN
  PROVE  DP!Decoded(b, rs) = Took(lcd, b, rs, lcd.high, lcd.rs)
<1> DEFINE a == AddrAfter(lcd, b, rs)
           w == WideAfter(lcd, b, rs)
           c == CgramAfter(lcd, b, rs)
           m == MemAfter(lcd, b, rs)
           no == FALSE
           yes == TRUE
           none == <<>>
<1>0. lcd = [wide |-> lcd.wide, high |-> lcd.high, rs |-> lcd.rs, addr |-> lcd.addr, cgram |-> lcd.cgram, mem |-> lcd.mem]
  BY DEF LcdOK, Controller
<1>1. CASE rs
  <2>1. CASE lcd.cgram \/ lcd.addr \notin DP!Cells
    <3>1. DP!Decoded(b, rs) = lcd
      BY <1>1, <2>1, Zenon DEF DP!Decoded
    <3>2. a = lcd.addr /\ w = lcd.wide /\ c = lcd.cgram /\ m = lcd.mem
      BY <1>1, <2>1 DEF AddrAfter, WideAfter, CgramAfter, MemAfter, Stores
    <3> HIDE DEF a, w, c, m
    <3> QED
      BY <1>0, <3>1, <3>2 DEF Took, Controller, a, w, c, m
  <2>2. CASE ~(lcd.cgram \/ lcd.addr \notin DP!Cells)
    <3> DEFINE n == DP!After(lcd.addr)
               t == Stored(lcd.mem, lcd.addr, b)
    <3>1. DP!Decoded(b, rs) = [lcd EXCEPT !.mem = t, !.addr = n]
      BY <1>1, <2>2, Zenon DEF DP!Decoded, Stored
    <3>2. a = n /\ w = lcd.wide /\ c = lcd.cgram /\ m = t
      BY <1>1, <2>2 DEF AddrAfter, WideAfter, CgramAfter, MemAfter, Stores
    <3> HIDE DEF a, w, c, m, n, t
    <3>3. SetText(lcd, t, n) = Controller(lcd.wide, lcd.high, lcd.rs, n, lcd.cgram, t)
      <4>1. lcd = Controller(lcd.wide, lcd.high, lcd.rs, lcd.addr, lcd.cgram, lcd.mem)
        BY DEF LcdOK
      <4> QED
        BY <4>1, TextSet
    <3> QED
      BY <3>1, <3>2, <3>3, Zenon DEF Took, SetText, a, w, c, m
  <2> QED
    BY <2>1, <2>2
<1>2. CASE ~rs
  <2> DEFINE set == b >= 128
             pic == b \in 64..127
             bus == b \in 32..63
             home == b \in 2..3
             clear == b = 1
             q == b - 128
             v == (b \div 16) % 2 = 1
             toSet == [lcd EXCEPT !.addr = q, !.cgram = no]
             toPic == [lcd EXCEPT !.cgram = yes]
             toBus == [lcd EXCEPT !.wide = v]
             toHome == [lcd EXCEPT !.addr = 0, !.cgram = no]
             toClear == [lcd EXCEPT !.addr = 0, !.cgram = no, !.mem = none]
             byte == CASE set -> toSet [] pic -> toPic [] bus -> toBus [] home -> toHome [] clear -> toClear [] OTHER -> lcd
  <2>0. DP!Decoded(b, rs) = byte
    BY <1>2, Zenon DEF DP!Decoded
  <2>1. /\ set => ~pic /\ ~bus /\ ~home /\ ~clear
        /\ pic => ~bus /\ ~home /\ ~clear
        /\ bus => ~home /\ ~clear
        /\ home => ~clear
        /\ (b \in 1..3) = (home \/ clear)
    OBVIOUS
  <2>2. /\ a = IF set THEN q ELSE IF home \/ clear THEN 0 ELSE lcd.addr
        /\ c = IF set \/ home \/ clear THEN no ELSE IF pic THEN yes ELSE lcd.cgram
        /\ w = IF bus THEN v ELSE lcd.wide
        /\ m = IF clear THEN none ELSE lcd.mem
    <3>1. a = IF b >= 128 THEN b - 128 ELSE IF b \in 1..3 THEN 0 ELSE lcd.addr
      BY <1>2, Zenon DEF AddrAfter
    <3>2. c = IF b >= 128 \/ b \in 1..3 THEN no ELSE IF b \in 64..127 THEN yes ELSE lcd.cgram
      BY <1>2, Zenon DEF CgramAfter
    <3>3. w = IF b \in 32..63 THEN v ELSE lcd.wide
      BY <1>2, ZenonT(40) DEF WideAfter
    <3>4. m = IF b = 1 THEN none ELSE lcd.mem
      BY <1>2, Zenon DEF MemAfter
    <3> HIDE DEF a, c, w, m, no, yes, none, v
    <3> QED
      BY <2>1, <3>1, <3>2, <3>3, <3>4
  <2> HIDE DEF set, pic, bus, home, clear, q, v, no, yes, none, a, c, w, m, toSet, toPic, toBus, toHome, toClear
  <2>3. Took(lcd, b, rs, lcd.high, lcd.rs) = [wide |-> w, high |-> lcd.high, rs |-> lcd.rs, addr |-> a, cgram |-> c, mem |-> m]
    BY DEF Took, Controller, a, w, c, m
  <2>4. CASE set
    <3>1. DP!Decoded(b, rs) = toSet
      BY <2>0, <2>1, <2>4, Zenon
    <3>2. a = q /\ c = no /\ w = lcd.wide /\ m = lcd.mem
      BY <2>1, <2>2, <2>4
    <3> QED
      BY <1>0, <2>3, <3>1, <3>2, Zenon DEF toSet
  <2>5. CASE pic
    <3>1. DP!Decoded(b, rs) = toPic
      BY <2>0, <2>1, <2>5, Zenon
    <3>2. a = lcd.addr /\ c = yes /\ w = lcd.wide /\ m = lcd.mem
      BY <2>1, <2>2, <2>5
    <3> QED
      BY <1>0, <2>3, <3>1, <3>2 DEF toPic
  <2>6. CASE bus
    <3>1. DP!Decoded(b, rs) = toBus
      BY <2>0, <2>1, <2>6, Zenon
    <3>2. a = lcd.addr /\ c = lcd.cgram /\ w = v /\ m = lcd.mem
      BY <2>1, <2>2, <2>6
    <3> QED
      BY <1>0, <2>3, <3>1, <3>2 DEF toBus
  <2>7. CASE home
    <3>1. DP!Decoded(b, rs) = toHome
      BY <2>0, <2>1, <2>7, Zenon
    <3>2. a = 0 /\ c = no /\ w = lcd.wide /\ m = lcd.mem
      BY <2>1, <2>2, <2>7
    <3> QED
      BY <1>0, <2>3, <3>1, <3>2, Zenon DEF toHome
  <2>8. CASE clear
    <3>1. DP!Decoded(b, rs) = toClear
      BY <2>0, <2>1, <2>8, Zenon
    <3>2. a = 0 /\ c = no /\ w = lcd.wide /\ m = none
      BY <2>1, <2>2, <2>8
    <3> QED
      BY <1>0, <2>3, <3>1, <3>2, Zenon DEF toClear
  <2>9. CASE ~set /\ ~pic /\ ~bus /\ ~home /\ ~clear
    <3>1. DP!Decoded(b, rs) = lcd
      BY <2>0, <2>9, Zenon
    <3>2. a = lcd.addr /\ c = lcd.cgram /\ w = lcd.wide /\ m = lcd.mem
      BY <2>2, <2>9
    <3> QED
      BY <1>0, <2>3, <3>1, <3>2
  <2> QED
    BY <2>4, <2>5, <2>6, <2>7, <2>8, <2>9
<1> QED
  BY <1>1, <1>2

LEMMA StrobeFeeds == ASSUME LcdOK(lcd), NEW s \in StrobeType, DP!Strobe, Head(drv.todo) = s PROVE lcd' = Fed(lcd, s)
<1>1. s.rs \in BOOLEAN /\ s.n \in 0..15 /\ 16 * s.n \in 0..255
  BY DEF StrobeType
<1>2. lcd' = IF lcd.wide THEN DP!Decoded(16 * s.n, s.rs)
             ELSE IF lcd.high = 16 THEN [lcd EXCEPT !.high = s.n, !.rs = s.rs]
             ELSE [DP!Decoded(16 * lcd.high + s.n, s.rs) EXCEPT !.high = 16, !.rs = FALSE]
  BY Zenon DEF DP!Strobe, DP!None
<1>3. CASE lcd.wide
  BY <1>1, <1>2, <1>3, DecodedTook DEF Fed
<1>4. CASE ~lcd.wide /\ lcd.high = 16
  <2>1. lcd' = [lcd EXCEPT !.high = s.n, !.rs = s.rs]
    BY <1>2, <1>4
  <2>2. Fed(lcd, s) = Controller(lcd.wide, s.n, s.rs, lcd.addr, lcd.cgram, lcd.mem)
    BY <1>4 DEF Fed
  <2>3. SetHalf(lcd, s.n, s.rs) = Controller(lcd.wide, s.n, s.rs, lcd.addr, lcd.cgram, lcd.mem)
    <3>1. lcd = Controller(lcd.wide, lcd.high, lcd.rs, lcd.addr, lcd.cgram, lcd.mem)
      BY DEF LcdOK
    <3> QED
      BY <3>1, HalfSet
  <2> QED
    BY <2>1, <2>2, <2>3, Zenon DEF SetHalf
<1>5. CASE ~lcd.wide /\ lcd.high # 16
  <2> DEFINE b == 16 * lcd.high + s.n
             no == FALSE
             d == DP!Decoded(b, s.rs)
  <2>1. lcd' = [d EXCEPT !.high = 16, !.rs = no]
    BY <1>2, <1>5
  <2>2. Fed(lcd, s) = Took(lcd, b, s.rs, 16, no)
    BY <1>5 DEF Fed
  <2>3. b \in 0..255
    <3>1. lcd.high \in 0..15
      BY <1>5 DEF LcdOK
    <3> QED
      BY <1>1, <3>1
  <2> HIDE DEF b, no
  <2>4. d = Took(lcd, b, s.rs, lcd.high, lcd.rs)
    BY <1>1, <2>3, DecodedTook
  <2> HIDE DEF d
  <2> DEFINE w == WideAfter(lcd, b, s.rs)
             a == AddrAfter(lcd, b, s.rs)
             c == CgramAfter(lcd, b, s.rs)
             m == MemAfter(lcd, b, s.rs)
  <2>5. d = Controller(w, lcd.high, lcd.rs, a, c, m) /\ Fed(lcd, s) = Controller(w, 16, no, a, c, m)
    BY <2>2, <2>4, Zenon DEF Took
  <2> HIDE DEF w, a, c, m
  <2>6. SetHalf(d, 16, no) = Controller(w, 16, no, a, c, m)
    BY <2>5, HalfSet
  <2> QED
    BY <2>1, <2>5, <2>6, Zenon DEF SetHalf
<1> QED
  BY <1>3, <1>4, <1>5

\* ----- where strobes lead
Leads(l, todo, t) ==
  \E f : f[0] = l /\ f[Len(todo)] = t /\ \A k \in 1..Len(todo) : f[k] = Fed(f[k - 1], todo[k])

LEMMA LeadsNowhere == ASSUME NEW l PROVE Leads(l, <<>>, l)
<1> DEFINE f == [k \in {0} |-> l]
<1>1. f[0] = l /\ Len(<<>>) = 0
  OBVIOUS
<1>2. \A k \in 1..Len(<<>>) : f[k] = Fed(f[k - 1], <<>>[k])
  BY <1>1
<1> HIDE DEF f
<1> QED
  BY <1>1, <1>2, Zenon DEF Leads

LEMMA Stays == ASSUME NEW l, NEW t, Leads(l, <<>>, t) PROVE t = l
BY DEF Leads

LEMMA LeadsOne == ASSUME NEW l, NEW s PROVE Leads(l, <<s>>, Fed(l, s))
<1> DEFINE t == Fed(l, s)
           f == [k \in 0..1 |-> IF k = 0 THEN l ELSE t]
<1>1. f[0] = l /\ f[1] = t
  OBVIOUS
<1>2. Len(<<s>>) = 1 /\ <<s>>[1] = s
  OBVIOUS
<1> HIDE DEF f
<1>3. \A k \in 1..1 : f[k] = Fed(f[k - 1], <<s>>[k])
  <2> TAKE k \in 1..1
  <2>1. k = 1 /\ k - 1 = 0
    OBVIOUS
  <2> QED
    BY <1>1, <1>2, <2>1, Zenon DEF t
<1> QED
  BY <1>1, <1>2, <1>3, Zenon DEF Leads

LEMMA LeadsMore ==
  ASSUME NEW p \in Seq(StrobeType), NEW q \in Seq(StrobeType), NEW l, NEW m, NEW t, Leads(l, p, m), Leads(m, q, t)
  PROVE  Leads(l, p \o q, t)
<1>1. PICK f : f[0] = l /\ f[Len(p)] = m /\ \A k \in 1..Len(p) : f[k] = Fed(f[k - 1], p[k])
  BY Zenon DEF Leads
<1>2. PICK g : g[0] = m /\ g[Len(q)] = t /\ \A k \in 1..Len(q) : g[k] = Fed(g[k - 1], q[k])
  BY Zenon DEF Leads
<1> DEFINE n == Len(p)
           d == Len(q)
           h == [k \in 0..(n + d) |-> IF k <= n THEN f[k] ELSE g[k - n]]
<1>3. n \in Nat /\ d \in Nat /\ Len(p \o q) = n + d
  OBVIOUS
<1>4. \A k \in 1..(n + d) : (p \o q)[k] = IF k <= n THEN p[k] ELSE q[k - n]
  OBVIOUS
<1>5. h[0] = l /\ h[n + d] = t
  BY <1>1, <1>2, <1>3
<1>6. ASSUME NEW k \in 1..(n + d) PROVE h[k] = Fed(h[k - 1], (p \o q)[k])
  <2>1. CASE k <= n
    <3>1. h[k] = f[k] /\ h[k - 1] = f[k - 1] /\ (p \o q)[k] = p[k] /\ k \in 1..n
      BY <1>3, <1>4, <2>1
    <3> HIDE DEF h, n
    <3> QED
      BY <1>1, <3>1 DEF n
  <2>2. CASE k = n + 1
    <3>1. h[k] = g[1] /\ h[k - 1] = f[n] /\ (p \o q)[k] = q[1] /\ 1 \in 1..d
      BY <1>3, <1>4, <2>2
    <3>2. g[1] = Fed(g[0], q[1])
      <4>1. 1 - 1 = 0
        OBVIOUS
      <4> QED
        BY <1>2, <3>1, <4>1
    <3> HIDE DEF h, n, d
    <3> QED
      BY <1>1, <1>2, <3>1, <3>2 DEF n
  <2>3. CASE k > n + 1
    <3> DEFINE j == k - n
    <3>1. h[k] = g[j] /\ h[k - 1] = g[j - 1] /\ (p \o q)[k] = q[j] /\ j \in 1..d
      BY <1>3, <1>4, <2>3
    <3> HIDE DEF h, n, d, j
    <3> QED
      BY <1>2, <3>1 DEF d
  <2> QED
    BY <1>3, <2>1, <2>2, <2>3
<1> HIDE DEF h
<1> QED
  BY <1>3, <1>5, <1>6, Zenon DEF Leads

LEMMA LeadsNext ==
  ASSUME NEW p \in Seq(StrobeType), p # <<>>, NEW l, NEW t, Leads(l, p, t)
  PROVE  Leads(Fed(l, Head(p)), Tail(p), t)
<1>1. PICK f : f[0] = l /\ f[Len(p)] = t /\ \A k \in 1..Len(p) : f[k] = Fed(f[k - 1], p[k])
  BY Zenon DEF Leads
<1> DEFINE n == Len(p)
           q == Tail(p)
           g == [k \in 0..(n - 1) |-> f[k + 1]]
<1>2. n \in Nat /\ n > 0 /\ Len(q) = n - 1 /\ q \in Seq(StrobeType)
  OBVIOUS
<1>3. \A k \in 1..(n - 1) : q[k] = p[k + 1]
  OBVIOUS
<1>4. g[0] = Fed(l, Head(p)) /\ g[n - 1] = t
  <2>1. g[0] = f[1] /\ g[n - 1] = f[n] /\ Head(p) = p[1] /\ 1 \in 1..n
    BY <1>2
  <2>2. f[1] = Fed(f[0], p[1])
    <3>1. 1 - 1 = 0
      OBVIOUS
    <3> QED
      BY <1>1, <2>1, <3>1
  <2> HIDE DEF g
  <2> QED
    BY <1>1, <2>1, <2>2
<1>5. ASSUME NEW k \in 1..(n - 1) PROVE g[k] = Fed(g[k - 1], q[k])
  <2> DEFINE j == k + 1
  <2>1. g[k] = f[j] /\ g[k - 1] = f[j - 1] /\ q[k] = p[j] /\ j \in 1..n
    BY <1>2, <1>3
  <2> HIDE DEF g, q, n, j
  <2> QED
    BY <1>1, <2>1 DEF n
<1> HIDE DEF g, q
<1>6. Len(q) = n - 1
  BY <1>2
<1>7. Leads(Fed(l, Head(p)), q, t)
  BY <1>4, <1>5, <1>6, Zenon DEF Leads
<1> QED
  BY <1>7 DEF q

LEMMA StrobesTyped ==
  ASSUME NEW b \in 0..255, NEW n \in 0..15
  PROVE  DP!Cmd(b) \in Seq(StrobeType) /\ DP!Data(b) \in Seq(StrobeType) /\ DP!Half(n) \in Seq(StrobeType)
<1> DEFINE x == b \div 16
           y == b % 16
           no == FALSE
           yes == TRUE
<1>1. x \in 0..15 /\ y \in 0..15 /\ no \in BOOLEAN /\ yes \in BOOLEAN
  OBVIOUS
<1>2. /\ DP!Cmd(b) = <<[rs |-> no, n |-> x], [rs |-> no, n |-> y]>>
      /\ DP!Data(b) = <<[rs |-> yes, n |-> x], [rs |-> yes, n |-> y]>>
      /\ DP!Half(n) = <<[rs |-> no, n |-> n]>>
  BY DEF DP!Cmd, DP!Data, DP!Half
<1> HIDE DEF x, y, no, yes
<1> QED
  BY <1>1, <1>2 DEF StrobeType

LEMMA Joined == ASSUME NEW p \in Seq(StrobeType), NEW q \in Seq(StrobeType) PROVE p \o q \in Seq(StrobeType)
OBVIOUS

\* ----- the narrow bus with nothing waiting
Settled(l) == LcdOK(l) /\ ~l.wide /\ l.high = 16
Wide(l) == LcdOK(l) /\ l.wide
Waits3(l) == LcdOK(l) /\ ~l.wide /\ l.high = 3 /\ ~l.rs

LEMMA TookFields ==
  ASSUME NEW l, NEW b, NEW rs, NEW h, NEW r
  PROVE  LET t == Took(l, b, rs, h, r) IN
         /\ t.wide = WideAfter(l, b, rs) /\ t.high = h /\ t.addr = AddrAfter(l, b, rs)
         /\ t.cgram = CgramAfter(l, b, rs) /\ t.mem = MemAfter(l, b, rs)
BY ControllerFields DEF Took

LEMMA FedFields ==
  ASSUME NEW l, NEW s
  PROVE  /\ l.wide => Fed(l, s).wide = WideAfter(l, 16 * s.n, s.rs) /\ Fed(l, s).high = l.high
         /\ ~l.wide /\ l.high = 16 => Fed(l, s).wide = l.wide /\ Fed(l, s).high = s.n /\ Fed(l, s).rs = s.rs
         /\ ~l.wide /\ l.high # 16 => Fed(l, s).wide = WideAfter(l, 16 * l.high + s.n, s.rs) /\ Fed(l, s).high = 16
<1>1. CASE l.wide
  <2>1. Fed(l, s) = Took(l, 16 * s.n, s.rs, l.high, l.rs)
    BY <1>1, Zenon DEF Fed
  <2> QED
    BY <1>1, <2>1, TookFields
<1>2. CASE ~l.wide /\ l.high = 16
  <2>1. Fed(l, s) = Controller(l.wide, s.n, s.rs, l.addr, l.cgram, l.mem)
    BY <1>2, Zenon DEF Fed
  <2> QED
    BY <1>2, <2>1, ControllerFields
<1>3. CASE ~l.wide /\ l.high # 16
  <2> DEFINE no == FALSE
  <2>1. Fed(l, s) = Took(l, 16 * l.high + s.n, s.rs, 16, no)
    BY <1>3, Zenon DEF Fed
  <2> HIDE DEF no
  <2> QED
    BY <1>3, <2>1, TookFields
<1> QED
  BY <1>1, <1>2, <1>3

LEMMA Three ==
  ASSUME NEW l, LcdOK(l), NEW s \in StrobeType, ~s.rs, s.n = 3
  PROVE  /\ l.wide => Wide(Fed(l, s))
         /\ Waits3(l) => Wide(Fed(l, s))
         /\ Settled(l) => Waits3(Fed(l, s))
         /\ ~l.wide /\ l.high # 16 => Wide(Fed(l, s)) \/ Settled(Fed(l, s))
<1> DEFINE m == Fed(l, s)
<1>0. LcdOK(m)
  BY FedOK
<1>1. l.wide => m.wide
  <2>1. CASE l.wide
    <3>1. m.wide = WideAfter(l, 48, s.rs)
      BY <2>1, FedFields
    <3>2. WideAfter(l, 48, s.rs)
      BY DEF WideAfter
    <3> QED
      BY <3>1, <3>2
  <2> QED
    BY <2>1
<1>2. Waits3(l) => m.wide
  <2>1. CASE Waits3(l)
    <3>1. m.wide = WideAfter(l, 51, s.rs)
      BY <2>1, FedFields DEF Waits3
    <3>2. WideAfter(l, 51, s.rs)
      BY DEF WideAfter
    <3> QED
      BY <3>1, <3>2
  <2> QED
    BY <2>1
<1>3. Settled(l) => ~m.wide /\ m.high = 3 /\ ~m.rs
  BY FedFields DEF Settled
<1>4. ~l.wide /\ l.high # 16 => m.high = 16
  BY FedFields
<1>5. m.wide \in BOOLEAN
  BY <1>0 DEF LcdOK
<1> HIDE DEF m
<1> QED
  BY <1>0, <1>1, <1>2, <1>3, <1>4, <1>5 DEF m, Wide, Waits3, Settled

LEMMA Two == ASSUME NEW l, Wide(l), NEW s \in StrobeType, ~s.rs, s.n = 2 PROVE Settled(Fed(l, s))
<1>1. LcdOK(Fed(l, s))
  BY FedOK DEF Wide
<1>2. l.wide /\ l.high = 16
  BY DEF Wide, LcdOK
<1>3. Fed(l, s).wide = WideAfter(l, 32, s.rs) /\ Fed(l, s).high = 16
  BY <1>2, FedFields
<1>4. ~WideAfter(l, 32, s.rs)
  BY DEF WideAfter
<1> QED
  BY <1>1, <1>3, <1>4 DEF Settled

\* Three threes and a two bring every controller to the narrow bus.
LEMMA Resyncs == ASSUME NEW l, LcdOK(l) PROVE \E m : Leads(l, DP!Resync, m) /\ Settled(m)
<1> DEFINE no == FALSE
           a == [rs |-> no, n |-> 3]
           b == [rs |-> no, n |-> 2]
           l1 == Fed(l, a)
           l2 == Fed(l1, a)
           l3 == Fed(l2, a)
           l4 == Fed(l3, b)
<1>1. a \in StrobeType /\ b \in StrobeType /\ ~a.rs /\ ~b.rs /\ a.n = 3 /\ b.n = 2
  <2>1. no \in BOOLEAN /\ ~no
    OBVIOUS
  <2> HIDE DEF no
  <2> QED
    BY <2>1 DEF StrobeType
<1>2. DP!Resync = <<a>> \o <<a>> \o <<a>> \o <<b>>
  BY DEF DP!Resync, DP!Half
<1>3. LcdOK(l1) /\ LcdOK(l2) /\ LcdOK(l3)
  BY <1>1, FedOK
<1> HIDE DEF no, a, b
<1>4. Wide(l1) \/ Waits3(l1) \/ Settled(l1)
  <2>1. l.wide \/ Settled(l) \/ (~l.wide /\ l.high # 16)
    BY DEF Settled
  <2> QED
    BY <1>1, <2>1, Three
<1>5. Wide(l2) \/ Waits3(l2)
  BY <1>1, <1>3, <1>4, Three DEF Wide
<1>6. Wide(l3)
  BY <1>1, <1>3, <1>5, Three DEF Wide
<1>7. Settled(l4)
  BY <1>1, <1>6, Two
<1>8. Leads(l, <<a>> \o <<a>> \o <<a>> \o <<b>>, l4)
  <2>0. <<a>> \in Seq(StrobeType) /\ <<b>> \in Seq(StrobeType)
    BY <1>1
  <2>1. Leads(l, <<a>>, l1) /\ Leads(l1, <<a>>, l2) /\ Leads(l2, <<a>>, l3) /\ Leads(l3, <<b>>, l4)
    BY LeadsOne
  <2> DEFINE p == <<a>>
             q == <<b>>
  <2>2. p \o p \in Seq(StrobeType) /\ p \o p \o p \in Seq(StrobeType)
    BY <2>0
  <2> HIDE DEF p, q, l1, l2, l3, l4
  <2>3. Leads(l, p \o p, l2)
    BY <2>0, <2>1, LeadsMore, Zenon DEF p
  <2>4. Leads(l, p \o p \o p, l3)
    BY <2>0, <2>1, <2>2, <2>3, LeadsMore, Zenon DEF p
  <2>5. Leads(l, p \o p \o p \o q, l4)
    BY <2>0, <2>1, <2>2, <2>4, LeadsMore, Zenon DEF q
  <2> QED
    BY <2>5 DEF p, q
<1> HIDE DEF l1, l2, l3, l4
<1> QED
  BY <1>2, <1>7, <1>8, Zenon

\* ----- whole bytes
Byte(b, rs) == <<[rs |-> rs, n |-> b \div 16], [rs |-> rs, n |-> b % 16]>>

LEMMA LeadsTwo ==
  ASSUME NEW l, NEW s, NEW t
  PROVE  Leads(l, <<s, t>>, Fed(Fed(l, s), t))
<1> DEFINE m == Fed(l, s)
           z == Fed(m, t)
           f == [k \in 0..2 |-> IF k = 0 THEN l ELSE IF k = 1 THEN m ELSE z]
<1>1. f[0] = l /\ f[1] = m /\ f[2] = z
  OBVIOUS
<1>2. Len(<<s, t>>) = 2 /\ <<s, t>>[1] = s /\ <<s, t>>[2] = t
  OBVIOUS
<1> HIDE DEF f
<1>3. \A k \in 1..2 : f[k] = Fed(f[k - 1], <<s, t>>[k])
  <2> TAKE k \in 1..2
  <2>1. (k = 1 /\ k - 1 = 0) \/ (k = 2 /\ k - 1 = 1)
    OBVIOUS
  <2> QED
    BY <1>1, <1>2, <2>1, Zenon DEF m, z
<1> QED
  BY <1>1, <1>2, <1>3, Zenon DEF Leads, m, z

LEMMA ByteLeads ==
  ASSUME NEW l, Settled(l), NEW b \in 0..255, NEW rs \in BOOLEAN
  PROVE  Leads(l, Byte(b, rs), Took(l, b, rs, 16, FALSE))
<1> DEFINE x == b \div 16
           y == b % 16
           s == [rs |-> rs, n |-> x]
           t == [rs |-> rs, n |-> y]
           m == Fed(l, s)
           no == FALSE
<1>1. x \in 0..15 /\ y \in 0..15 /\ 16 * x + y = b
  OBVIOUS
<1> HIDE DEF x, y, no
<1>2. s \in StrobeType /\ t \in StrobeType /\ s.n = x /\ t.n = y /\ s.rs = rs /\ t.rs = rs
  BY <1>1 DEF StrobeType
<1> HIDE DEF s, t
<1>3. m = Controller(l.wide, x, rs, l.addr, l.cgram, l.mem)
  BY <1>2, Zenon DEF Fed, Settled
<1> HIDE DEF m
<1>4. m.wide = l.wide /\ m.high = x /\ m.rs = rs /\ m.addr = l.addr /\ m.cgram = l.cgram /\ m.mem = l.mem
  BY <1>3, ControllerFields
<1>5. x # 16
  BY <1>1
<1>6. Fed(m, t) = Took(m, 16 * m.high + t.n, t.rs, 16, no)
  <2>1. ~m.wide /\ m.high # 16
    BY <1>4, <1>5 DEF Settled
  <2> QED
    <3>1. Fed(m, t) = Took(m, 16 * m.high + t.n, t.rs, 16, FALSE)
      BY <1>2, <1>4, <2>1 DEF Fed
    <3> QED
      BY <3>1 DEF no
<1>7. Fed(m, t) = Took(m, b, rs, 16, no)
  BY <1>1, <1>2, <1>4, <1>6
<1>8. Took(m, b, rs, 16, no) = Took(l, b, rs, 16, no)
  <2>1. Stores(m) = Stores(l)
    BY <1>4 DEF Stores
  <2>2. WideAfter(m, b, rs) = WideAfter(l, b, rs) /\ CgramAfter(m, b, rs) = CgramAfter(l, b, rs)
    <3> DEFINE v == (b \div 16) % 2 = 1
               p == ~rs /\ b \in 32..63
               q == b >= 128 \/ b \in 1..3
               o == b \in 64..127
               nay == FALSE
               yes == TRUE
    <3>1. /\ WideAfter(m, b, rs) = IF p THEN v ELSE m.wide
          /\ WideAfter(l, b, rs) = IF p THEN v ELSE l.wide
      BY Zenon DEF WideAfter
    <3>2. /\ CgramAfter(m, b, rs) = IF rs THEN m.cgram ELSE IF q THEN nay ELSE IF o THEN yes ELSE m.cgram
          /\ CgramAfter(l, b, rs) = IF rs THEN l.cgram ELSE IF q THEN nay ELSE IF o THEN yes ELSE l.cgram
      BY Zenon DEF CgramAfter
    <3> HIDE DEF v, p, q, o, nay, yes
    <3> QED
      BY <1>4, <3>1, <3>2
  <2>3. AddrAfter(m, b, rs) = AddrAfter(l, b, rs) /\ MemAfter(m, b, rs) = MemAfter(l, b, rs)
    BY <1>4, <2>1 DEF AddrAfter, MemAfter
  <2> QED
    BY <2>2, <2>3, Zenon DEF Took
<1>9. Leads(l, <<s, t>>, Fed(m, t))
  BY LeadsTwo DEF m
<1>10. Byte(b, rs) = <<s, t>>
  BY DEF Byte, s, t, x, y
<1> QED
  BY <1>7, <1>8, <1>9, <1>10, Zenon DEF no

Puts(l, b, rs, t) ==
  /\ Leads(l, Byte(b, rs), t) /\ Settled(t)
  /\ t.addr = AddrAfter(l, b, rs) /\ t.cgram = CgramAfter(l, b, rs) /\ t.mem = MemAfter(l, b, rs)
Narrow(b, rs) == rs \/ b \notin 48..63

\* A byte leaves the bus narrow unless it is a command to widen it.
LEMMA ByteSettles ==
  ASSUME NEW l, Settled(l), NEW b \in 0..255, NEW rs \in BOOLEAN, Narrow(b, rs)
  PROVE  \E t : Puts(l, b, rs, t)
<1> DEFINE no == FALSE
           t == Took(l, b, rs, 16, no)
<1>1. Leads(l, Byte(b, rs), t)
  BY ByteLeads, Zenon
<1>2. LcdOK(t)
  <2>1. no \in BOOLEAN
    OBVIOUS
  <2> HIDE DEF no
  <2> QED
    <3>1. LcdOK(l)
      BY DEF Settled
    <3> QED
      BY <2>1, <3>1, TookOK, Zenon
<1> HIDE DEF no
<1>3. t.wide = WideAfter(l, b, rs) /\ t.high = 16 /\ t.addr = AddrAfter(l, b, rs)
      /\ t.cgram = CgramAfter(l, b, rs) /\ t.mem = MemAfter(l, b, rs)
  BY TookFields
<1>4. ~WideAfter(l, b, rs)
  <2>1. CASE ~rs /\ b \in 32..63
    <3>1. b \in 32..47
      BY <2>1 DEF Narrow
    <3>2. (b \div 16) % 2 = 0
      BY <3>1
    <3> QED
      BY <2>1, <3>2 DEF WideAfter
  <2>2. CASE ~(~rs /\ b \in 32..63)
    BY <2>2 DEF WideAfter, Settled
  <2> QED
    BY <2>1, <2>2
<1> HIDE DEF t
<1>5. Settled(t)
  BY <1>2, <1>3, <1>4 DEF Settled
<1>6. Puts(l, b, rs, t)
  BY <1>1, <1>3, <1>5 DEF Puts
<1> QED
  BY <1>6

LEMMA CmdByte ==
  ASSUME NEW b \in 0..255
  PROVE  DP!Cmd(b) = Byte(b, FALSE) /\ DP!Data(b) = Byte(b, TRUE)
BY DEF DP!Cmd, DP!Data, Byte

\* What each command does, once the bus is in step.
Commanded(l, b, t) ==
  /\ b >= 128 => t.addr = b - 128 /\ ~t.cgram /\ t.mem = l.mem
  /\ b \in 64..127 => t.addr = l.addr /\ t.cgram /\ t.mem = l.mem
  /\ b \in 2..3 => t.addr = 0 /\ ~t.cgram /\ t.mem = l.mem
  /\ b = 1 => t.addr = 0 /\ ~t.cgram /\ t.mem = <<>>
  /\ b \in 4..63 => t.addr = l.addr /\ t.cgram = l.cgram /\ t.mem = l.mem

LEMMA CmdGoes ==
  ASSUME NEW l, Settled(l), NEW b \in 0..255, b \notin 48..63
  PROVE  \E t : Leads(l, DP!Cmd(b), t) /\ Settled(t) /\ Commanded(l, b, t)
<1> DEFINE no == FALSE
           yes == TRUE
           none == <<>>
<1>0. no \in BOOLEAN /\ ~no /\ yes /\ Byte(b, no) = DP!Cmd(b)
  BY CmdByte, SMTT(20), ZenonT(30)
<1> HIDE DEF no, yes
<1>01. Narrow(b, no)
  BY DEF Narrow
<1>02. PICK t : Puts(l, b, no, t)
  BY <1>0, <1>01, ByteSettles
<1>1. /\ Leads(l, Byte(b, no), t) /\ Settled(t)
      /\ t.addr = AddrAfter(l, b, no) /\ t.cgram = CgramAfter(l, b, no) /\ t.mem = MemAfter(l, b, no)
  BY <1>02 DEF Puts
<1>2. t.addr = IF b >= 128 THEN b - 128 ELSE IF b \in 1..3 THEN 0 ELSE l.addr
  BY <1>0, <1>1, ZenonT(40) DEF AddrAfter
<1>3. t.cgram = IF b >= 128 \/ b \in 1..3 THEN no ELSE IF b \in 64..127 THEN yes ELSE l.cgram
  BY <1>0, <1>1, Zenon DEF CgramAfter, no, yes
<1>4. t.mem = IF b = 1 THEN none ELSE l.mem
  BY <1>0, <1>1, ZenonT(40) DEF MemAfter
<1> HIDE DEF none
<1>5. t.cgram \in BOOLEAN /\ l.cgram \in BOOLEAN
  BY <1>1 DEF Settled, LcdOK
<1>6. /\ b >= 128 => ~t.cgram
      /\ b \in 64..127 => t.cgram
      /\ b \in 1..3 => ~t.cgram
      /\ b \in 4..63 => t.cgram = l.cgram
  <2>1. b >= 128 => ~t.cgram
    BY <1>0, <1>3
  <2>2. b \in 1..3 => ~t.cgram
    BY <1>0, <1>3
  <2>3. b \in 64..127 => t.cgram
    BY <1>0, <1>3
  <2>4. b \in 4..63 => t.cgram = l.cgram
    BY <1>3
  <2> QED
    BY <2>1, <2>2, <2>3, <2>4
<1>7. /\ b >= 128 => t.addr = b - 128 /\ t.mem = l.mem
      /\ b \in 64..127 => t.addr = l.addr /\ t.mem = l.mem
      /\ b \in 2..3 => t.addr = 0 /\ t.mem = l.mem
      /\ b = 1 => t.addr = 0 /\ t.mem = none
      /\ b \in 4..63 => t.addr = l.addr /\ t.mem = l.mem
  BY <1>2, <1>4
<1>8. b \in 2..3 => b \in 1..3
  OBVIOUS
<1>9. b = 1 => b \in 1..3
  OBVIOUS
<1>10. Leads(l, DP!Cmd(b), t) /\ Settled(t)
  BY <1>0, <1>1
<1>11. Commanded(l, b, t)
  BY <1>6, <1>7, <1>8, <1>9, Zenon DEF none, Commanded
<1> QED
  BY <1>10, <1>11

\* A character where the cursor stands, and one that belongs to a picture.
LEMMA DataGoes ==
  ASSUME NEW l, Settled(l), NEW b \in 0..255
  PROVE  \E t : /\ Leads(l, DP!Data(b), t) /\ Settled(t) /\ t.cgram = l.cgram
                /\ Stores(l) => t.addr = DP!After(l.addr) /\ t.mem = Stored(l.mem, l.addr, b)
                /\ ~Stores(l) => t.addr = l.addr /\ t.mem = l.mem
<1> DEFINE yes == TRUE
<1>0. yes \in BOOLEAN /\ yes /\ Byte(b, yes) = DP!Data(b)
  BY CmdByte, Zenon
<1> HIDE DEF yes
<1>01. Narrow(b, yes)
  BY <1>0 DEF Narrow
<1>02. PICK t : Puts(l, b, yes, t)
  BY <1>0, <1>01, ByteSettles, Zenon
<1>1. /\ Leads(l, Byte(b, yes), t) /\ Settled(t)
      /\ t.addr = AddrAfter(l, b, yes) /\ t.cgram = CgramAfter(l, b, yes) /\ t.mem = MemAfter(l, b, yes)
  BY <1>02 DEF Puts
<1>2. t.addr = IF Stores(l) THEN DP!After(l.addr) ELSE l.addr
  BY <1>0, <1>1, Zenon DEF AddrAfter
<1>3. t.cgram = l.cgram
  BY <1>0, <1>1, Zenon DEF CgramAfter
<1>4. t.mem = IF Stores(l) THEN Stored(l.mem, l.addr, b) ELSE l.mem
  BY <1>0, <1>1, Zenon DEF MemAfter
<1> QED
  BY <1>0, <1>1, <1>2, <1>3, <1>4, Zenon


\* ----- what the operations send
Way(l, p, t) == p \in Seq(StrobeType) /\ Leads(l, p, t) /\ Settled(t)

\* Where the controller stands after an operation: its cursor, and its text.
At(t, a, m) == Settled(t) /\ ~t.cgram /\ t.addr = a /\ t.mem = m
Goes(l, p, a, m) == \E t : Way(l, p, t) /\ At(t, a, m)

LEMMA WayOn ==
  ASSUME NEW l, NEW m, NEW t, NEW p, NEW q, Way(l, p, m), Way(m, q, t)
  PROVE  Way(l, p \o q, t)
<1>1. p \in Seq(StrobeType) /\ q \in Seq(StrobeType)
  BY DEF Way
<1>2. p \o q \in Seq(StrobeType)
  BY <1>1
<1>3. Leads(l, p \o q, t)
  BY <1>1, LeadsMore DEF Way
<1> QED
  BY <1>2, <1>3 DEF Way

LEMMA CmdWay ==
  ASSUME NEW l, Settled(l), NEW b \in 0..255, b \notin 48..63
  PROVE  \E t : Way(l, DP!Cmd(b), t) /\ Commanded(l, b, t)
<1>1. DP!Cmd(b) \in Seq(StrobeType)
  <2>1. 0 \in 0..15
    OBVIOUS
  <2> QED
    BY <2>1, StrobesTyped, SMTT(20), ZenonT(30)
<1>2. PICK t : Leads(l, DP!Cmd(b), t) /\ Settled(t) /\ Commanded(l, b, t)
  BY CmdGoes, SMTT(20), ZenonT(30)
<1> QED
  BY <1>1, <1>2 DEF Way

DataDone(l, b, t) ==
  /\ t.cgram = l.cgram
  /\ Stores(l) => t.addr = DP!After(l.addr) /\ t.mem = Stored(l.mem, l.addr, b)
  /\ ~Stores(l) => t.addr = l.addr /\ t.mem = l.mem

LEMMA DataWay ==
  ASSUME NEW l, Settled(l), NEW b \in 0..255
  PROVE  \E t : Way(l, DP!Data(b), t) /\ DataDone(l, b, t)
<1>1. DP!Data(b) \in Seq(StrobeType)
  <2>1. 0 \in 0..15
    OBVIOUS
  <2> QED
    BY <2>1, StrobesTyped, Zenon
<1>2. PICK t : /\ Leads(l, DP!Data(b), t) /\ Settled(t) /\ t.cgram = l.cgram
               /\ Stores(l) => t.addr = DP!After(l.addr) /\ t.mem = Stored(l.mem, l.addr, b)
               /\ ~Stores(l) => t.addr = l.addr /\ t.mem = l.mem
  BY DataGoes, Zenon
<1>3. Way(l, DP!Data(b), t) /\ DataDone(l, b, t)
  BY <1>1, <1>2 DEF Way, DataDone
<1> QED
  BY <1>3

LEMMA ClearGoes ==
  ASSUME NEW l, Settled(l)
  PROVE  Goes(l, DP!Cmd(1) \o DP!Cmd(2), 0, <<>>)
<1> DEFINE none == <<>>
           p == DP!Cmd(1)
           q == DP!Cmd(2)
<1>1. PICK m : Way(l, p, m) /\ Commanded(l, 1, m)
  BY CmdWay
<1>2. Settled(m) /\ m.mem = none /\ ~m.cgram
  BY <1>1 DEF Commanded, Way
<1>3. PICK t : Way(m, q, t) /\ Commanded(m, 2, t)
  BY <1>2, CmdWay
<1>4. t.addr = 0 /\ t.mem = m.mem /\ ~t.cgram /\ Settled(t)
  BY <1>3 DEF Commanded, Way
<1> HIDE DEF p, q, none
<1>5. Way(l, p \o q, t)
  BY <1>1, <1>3, WayOn
<1>6. At(t, 0, none)
  BY <1>2, <1>4 DEF At
<1>7. Goes(l, p \o q, 0, none)
  BY <1>5, <1>6 DEF Goes
<1> QED
  BY <1>7 DEF p, q, none

LEMMA PosGoes ==
  ASSUME NEW l, Settled(l), NEW b \in 128..255
  PROVE  Goes(l, DP!Cmd(b), b - 128, l.mem)
<1>1. PICK t : Way(l, DP!Cmd(b), t) /\ Commanded(l, b, t)
  BY CmdWay
<1>2. At(t, b - 128, l.mem)
  BY <1>1 DEF At, Way, Commanded
<1> QED
  BY <1>1, <1>2 DEF Goes

LEMMA CharGoes ==
  ASSUME NEW l, NEW a \in DP!Cells, NEW m, At(l, a, m), NEW c \in 0..255
  PROVE  Goes(l, DP!Data(c), DP!After(a), Stored(m, a, c))
<1>1. Settled(l) /\ l.addr = a /\ l.mem = m /\ Stores(l)
  BY DEF At, Stores
<1>2. PICK t : Way(l, DP!Data(c), t) /\ DataDone(l, c, t)
  BY <1>1, DataWay
<1>3. t.addr = DP!After(a) /\ t.mem = Stored(m, a, c) /\ t.cgram = l.cgram /\ Settled(t)
  BY <1>1, <1>2 DEF DataDone, Way
<1>4. At(t, DP!After(a), Stored(m, a, c))
  BY <1>3 DEF At
<1> QED
  BY <1>2, <1>4 DEF Goes

\* The lines of a picture do not touch the text.
LEMMA LineWay ==
  ASSUME NEW l, NEW p, NEW m, Way(l, p, m), m.cgram, m.mem = l.mem
  PROVE  \E t : Way(l, p \o DP!Data(1), t) /\ t.cgram /\ t.mem = l.mem
<1>1. Settled(m) /\ ~Stores(m)
  BY DEF Way, Stores
<1>2. PICK t : Way(m, DP!Data(1), t) /\ DataDone(m, 1, t)
  BY <1>1, DataWay
<1>3. t.cgram /\ t.mem = l.mem
  BY <1>1, <1>2 DEF DataDone
<1>4. Way(l, p \o DP!Data(1), t)
  BY <1>2, WayOn
<1> QED
  BY <1>3, <1>4

LEMMA CustomGoes ==
  ASSUME NEW l, Settled(l)
  PROVE  Goes(l, DP!Cmd(72) \o DP!Data(1) \o DP!Data(1) \o DP!Data(1) \o DP!Data(1) \o DP!Data(1) \o DP!Data(1)
                 \o DP!Data(1) \o DP!Data(1) \o DP!Cmd(2), 0, l.mem)
<1> DEFINE p == DP!Cmd(72)
           d == DP!Data(1)
           q == DP!Cmd(2)
           p1 == p \o d
           p2 == p1 \o d
           p3 == p2 \o d
           p4 == p3 \o d
           p5 == p4 \o d
           p6 == p5 \o d
           p7 == p6 \o d
           p8 == p7 \o d
<1>0. PICK t0 : Way(l, p, t0) /\ Commanded(l, 72, t0)
  BY CmdWay
<1>00. t0.cgram /\ t0.mem = l.mem
  BY <1>0 DEF Commanded
<1> HIDE DEF p
<1>1. PICK t1 : Way(l, p1, t1) /\ t1.cgram /\ t1.mem = l.mem
  BY <1>0, <1>00, LineWay
<1> HIDE DEF p1
<1>2. PICK t2 : Way(l, p2, t2) /\ t2.cgram /\ t2.mem = l.mem
  BY <1>1, LineWay
<1> HIDE DEF p2
<1>3. PICK t3 : Way(l, p3, t3) /\ t3.cgram /\ t3.mem = l.mem
  BY <1>2, LineWay
<1> HIDE DEF p3
<1>4. PICK t4 : Way(l, p4, t4) /\ t4.cgram /\ t4.mem = l.mem
  BY <1>3, LineWay
<1> HIDE DEF p4
<1>5. PICK t5 : Way(l, p5, t5) /\ t5.cgram /\ t5.mem = l.mem
  BY <1>4, LineWay
<1> HIDE DEF p5
<1>6. PICK t6 : Way(l, p6, t6) /\ t6.cgram /\ t6.mem = l.mem
  BY <1>5, LineWay
<1> HIDE DEF p6
<1>7. PICK t7 : Way(l, p7, t7) /\ t7.cgram /\ t7.mem = l.mem
  BY <1>6, LineWay
<1> HIDE DEF p7
<1>8. PICK t8 : Way(l, p8, t8) /\ t8.cgram /\ t8.mem = l.mem
  BY <1>7, LineWay
<1> HIDE DEF p8
<1>90. Settled(t8)
  BY <1>8 DEF Way
<1>91. 2 \in 0..255 /\ 2 \notin 48..63
  OBVIOUS
<1>9. PICK t : Way(t8, q, t) /\ Commanded(t8, 2, t)
  <2>1. \E t : Way(t8, DP!Cmd(2), t) /\ Commanded(t8, 2, t)
    BY <1>90, <1>91, CmdWay
  <2> QED
    BY <2>1
<1>10. t.addr = 0 /\ ~t.cgram /\ t.mem = l.mem /\ Settled(t)
  BY <1>8, <1>9 DEF Commanded, Way
<1> HIDE DEF q
<1>11. Way(l, p8 \o q, t)
  BY <1>8, <1>9, WayOn
<1>12. At(t, 0, l.mem)
  BY <1>10 DEF At
<1>13. Goes(l, p8 \o q, 0, l.mem)
  BY <1>11, <1>12 DEF Goes
<1> QED
  BY <1>13, Zenon DEF p, q, p1, p2, p3, p4, p5, p6, p7, p8


\* A command that moves nothing.
LEMMA QuietOn ==
  ASSUME NEW l, NEW p, NEW a, NEW m, Goes(l, p, a, m), NEW b \in 4..47
  PROVE  Goes(l, p \o DP!Cmd(b), a, m)
<1>1. PICK s : Way(l, p, s) /\ At(s, a, m)
  BY DEF Goes
<1>2. PICK t : Way(s, DP!Cmd(b), t) /\ Commanded(s, b, t)
  <2>1. b \in 0..255 /\ b \notin 48..63 /\ Settled(s)
    BY <1>1 DEF At
  <2> QED
    BY <2>1, CmdWay
<1>3. t.addr = s.addr /\ t.cgram = s.cgram /\ t.mem = s.mem /\ Settled(t)
  BY <1>2 DEF Commanded, Way
<1>4. At(t, a, m)
  BY <1>1, <1>3 DEF At
<1>5. Way(l, p \o DP!Cmd(b), t)
  BY <1>1, <1>2, WayOn
<1> QED
  BY <1>4, <1>5 DEF Goes

LEMMA AnyOn ==
  ASSUME NEW l, NEW m, NEW p, Way(l, p, m), NEW b \in 0..255, b \notin 48..63
  PROVE  \E t : Way(l, p \o DP!Cmd(b), t) /\ Commanded(m, b, t)
<1>1. PICK t : Way(m, DP!Cmd(b), t) /\ Commanded(m, b, t)
  BY CmdWay, SMTT(20), ZenonT(30) DEF Way
<1>2. Way(l, p \o DP!Cmd(b), t)
  BY <1>1, WayOn
<1> QED
  BY <1>1, <1>2

LEMMA GoesOn ==
  ASSUME NEW l, NEW s, NEW p, NEW q, NEW a, NEW m, Way(l, p, s), Goes(s, q, a, m)
  PROVE  Goes(l, p \o q, a, m)
<1>1. PICK t : Way(s, q, t) /\ At(t, a, m)
  BY DEF Goes
<1>2. Way(l, p \o q, t)
  BY <1>1, WayOn
<1> QED
  BY <1>1, <1>2 DEF Goes

\* The rest of hd44780_init for the two types of display.
LEMMA LcdStarts ==
  ASSUME NEW l, Settled(l)
  PROVE  Goes(l, DP!Cmd(2) \o DP!Cmd(1) \o DP!Cmd(12), 0, <<>>)
<1> DEFINE p == DP!Cmd(2)
           q == DP!Cmd(1)
           none == <<>>
<1>1. PICK s : Way(l, p, s)
  BY CmdWay
<1> HIDE DEF p
<1>2. PICK t : Way(l, p \o q, t) /\ Commanded(s, 1, t)
  BY <1>1, AnyOn
<1>3. At(t, 0, none)
  BY <1>2 DEF Commanded, Way, At
<1> HIDE DEF q, none
<1>4. Goes(l, p \o q, 0, none)
  BY <1>2, <1>3 DEF Goes
<1>5. 12 \in 4..47
  OBVIOUS
<1> DEFINE r == p \o q
<1> HIDE DEF r
<1>6. Goes(l, r \o DP!Cmd(12), 0, none)
  BY <1>4, <1>5, QuietOn DEF r
<1> QED
  BY <1>6, Zenon DEF p, q, r, none

LEMMA OledStarts ==
  ASSUME NEW l, Settled(l)
  PROVE  Goes(l, DP!Cmd(8) \o DP!Cmd(6) \o DP!Cmd(23) \o DP!Cmd(1) \o DP!Cmd(2) \o DP!Cmd(12), 0, <<>>)
<1> DEFINE p1 == DP!Cmd(8)
           p2 == p1 \o DP!Cmd(6)
           p3 == p2 \o DP!Cmd(23)
           p4 == p3 \o DP!Cmd(1)
           p5 == p4 \o DP!Cmd(2)
           none == <<>>
<1>1. PICK s1 : Way(l, p1, s1)
  BY CmdWay
<1> HIDE DEF p1
<1>2. PICK s2 : Way(l, p2, s2)
  BY <1>1, AnyOn
<1> HIDE DEF p2
<1>3. PICK s3 : Way(l, p3, s3)
  BY <1>2, AnyOn
<1> HIDE DEF p3
<1>4. PICK s4 : Way(l, p4, s4) /\ Commanded(s3, 1, s4)
  BY <1>3, AnyOn
<1> HIDE DEF p4
<1>5. PICK s5 : Way(l, p5, s5) /\ Commanded(s4, 2, s5)
  BY <1>4, AnyOn
<1>6. s4.mem = none
  BY <1>4 DEF Commanded
<1>7. At(s5, 0, none)
  BY <1>5, <1>6 DEF Commanded, Way, At
<1> HIDE DEF p5, none
<1>8. Goes(l, p5, 0, none)
  BY <1>5, <1>7 DEF Goes
<1>9. 12 \in 4..47
  OBVIOUS
<1>10. Goes(l, p5 \o DP!Cmd(12), 0, none)
  BY <1>8, <1>9, QuietOn
<1> QED
  BY <1>10, Zenon DEF p1, p2, p3, p4, p5, none

LEMMA InitGoes ==
  ASSUME NEW l, LcdOK(l), NEW lcdType
  PROVE  Goes(l, DP!Resync \o DP!Cmd(DP!LINES2) \o
                 IF lcdType THEN DP!Cmd(DP!HOME) \o DP!Cmd(DP!CLEAR) \o DP!Cmd(DP!CURSOROFF)
                 ELSE DP!Cmd(DP!BLANK) \o DP!Cmd(DP!AUTOINCREMENTON) \o DP!Cmd(DP!POWERON) \o DP!Cmd(DP!CLEAR)
                      \o DP!Cmd(DP!HOME) \o DP!Cmd(DP!CURSOROFF), 0, <<>>)
<1> DEFINE p == DP!Resync
           q == p \o DP!Cmd(40)
           x == DP!Cmd(2) \o DP!Cmd(1) \o DP!Cmd(12)
           y == DP!Cmd(8) \o DP!Cmd(6) \o DP!Cmd(23) \o DP!Cmd(1) \o DP!Cmd(2) \o DP!Cmd(12)
           none == <<>>
<1>1. PICK s : Way(l, p, s)
  <2>1. p \in Seq(StrobeType)
    <3>1. DP!Half(2) \in Seq(StrobeType) /\ DP!Half(3) \in Seq(StrobeType)
      <4>1. 0 \in 0..255 /\ 2 \in 0..15 /\ 3 \in 0..15
        OBVIOUS
      <4> QED
        BY <4>1, StrobesTyped, SMTT(20), ZenonT(30)
    <3> DEFINE a == DP!Half(3)
               b == DP!Half(2)
    <3> HIDE DEF a, b
    <3>2. a \o a \o a \o b \in Seq(StrobeType)
      BY <3>1 DEF a, b
    <3> QED
      BY <3>2, Zenon DEF DP!Resync, a, b
  <2>2. PICK s : Leads(l, p, s) /\ Settled(s)
    BY Resyncs
  <2> QED
    BY <2>1, <2>2 DEF Way
<1> HIDE DEF p
<1>2. PICK t : Way(l, q, t)
  BY <1>1, AnyOn
<1>3. Settled(t)
  BY <1>2 DEF Way
<1>4. Goes(t, x, 0, none) /\ Goes(t, y, 0, none)
  BY <1>3, LcdStarts, OledStarts, Zenon
<1> DEFINE z == IF lcdType THEN x ELSE y
<1> HIDE DEF q, x, y, none
<1>5. Goes(t, z, 0, none)
  BY <1>4
<1> HIDE DEF z
<1>6. Goes(l, q \o z, 0, none)
  BY <1>2, <1>5, GoesOn
<1> QED
  BY <1>6, Zenon DEF p, q, x, y, z, none, DP!LINES2, DP!HOME, DP!CLEAR, DP!CURSOROFF, DP!BLANK, DP!AUTOINCREMENTON,
                     DP!POWERON


\* ----- the invariant of the display
DrvOK(d) == d = [todo |-> d.todo, ready |-> d.ready, type |-> d.type] /\ d.todo \in Seq(StrobeType) /\ d.ready \in BOOLEAN

\* What was called for, as a record.
Called(c, r, p, x, v, o) == [calls |-> c, resets |-> r, pos |-> p, cells |-> x, moved |-> v, lost |-> o]
Exactly(c, r, p, x, v, o) == [calls : {c}, resets : {r}, pos : {p}, cells : {x}, moved : {v}, lost : {o}]
ShownOK(s) == s = Called(s.calls, s.resets, s.pos, s.cells, s.moved, s.lost)

\* What is known of the cursor and the text: the text that was put while the cursor was
\* outside the lines is lost.
Tells(s, a, m) ==
  /\ s.pos \in DP!Cells
  /\ s.moved => a = 127
  /\ ~s.moved => a = s.pos
  /\ ~s.lost => m = s.cells
Lands(l, p, s) == \E a, m : Goes(l, p, a, m) /\ Tells(s, a, m)

LcdInv ==
  /\ LcdOK(lcd) /\ DrvOK(drv) /\ ShownOK(shown)
  /\ ~drv.ready => drv.todo = <<>>
  /\ drv.ready => Lands(lcd, drv.todo, shown)

LEMMA CalledThat ==
  ASSUME NEW c, NEW r, NEW p, NEW x, NEW v, NEW o
  PROVE  /\ \A s \in Exactly(c, r, p, x, v, o) : s = Called(c, r, p, x, v, o)
         /\ Called(c, r, p, x, v, o) \in Exactly(c, r, p, x, v, o)
BY DEF Exactly, Called

SetCalled(s, c, p, x, v, o) == [s EXCEPT !.calls = c, !.pos = p, !.cells = x, !.moved = v, !.lost = o]
SetPos(s, c, p, v) == [s EXCEPT !.calls = c, !.pos = p, !.moved = v]
SetMoved(s, c, v) == [s EXCEPT !.calls = c, !.moved = v]
SetResets(s, r) == [s EXCEPT !.resets = r]

\* The record, and its fields that matter.
Shows(s, p, x, v, o) == ShownOK(s) /\ s.pos = p /\ s.cells = x /\ (s.moved <=> v) /\ (s.lost <=> o)

LEMMA CalledSet ==
  ASSUME NEW s, ShownOK(s), NEW c, NEW r, NEW p, NEW x, NEW v \in BOOLEAN, NEW o \in BOOLEAN
  PROVE  /\ Shows(SetCalled(s, c, p, x, v, o), p, x, v, o)
         /\ Shows(SetPos(s, c, p, v), p, s.cells, v, s.lost)
         /\ Shows(SetMoved(s, c, v), s.pos, s.cells, v, s.lost)
         /\ ShownOK(SetResets(s, r))
<1> DEFINE c0 == s.calls
           r0 == s.resets
           p0 == s.pos
           x0 == s.cells
           v0 == s.moved
           o0 == s.lost
<1>1. s \in Exactly(c0, r0, p0, x0, v0, o0)
  BY CalledThat DEF ShownOK
<1> HIDE DEF c0, r0, p0, x0, v0, o0
<1>3. SetCalled(s, c, p, x, v, o) \in Exactly(c, r0, p, x, v, o)
  BY <1>1, Zenon DEF Exactly, SetCalled
<1>4. SetPos(s, c, p, v) \in Exactly(c, r0, p, x0, v, o0)
  BY <1>1, Zenon DEF Exactly, SetPos
<1>5. SetMoved(s, c, v) \in Exactly(c, r0, p0, x0, v, o0)
  BY <1>1, Zenon DEF Exactly, SetMoved
<1>6. SetResets(s, r) \in Exactly(c0, r, p0, x0, v0, o0)
  BY <1>1, Zenon DEF Exactly, SetResets
<1>7. ASSUME NEW t, NEW c1, NEW r1, NEW p1, NEW x1, NEW v1, NEW o1, t \in Exactly(c1, r1, p1, x1, v1, o1)
      PROVE  Shows(t, p1, x1, v1, o1)
  <2>1. t.pos = p1 /\ t.cells = x1 /\ t.moved = v1 /\ t.lost = o1 /\ t.calls = c1 /\ t.resets = r1
    BY <1>7, Zenon DEF Exactly
  <2>2. t = Called(c1, r1, p1, x1, v1, o1)
    BY <1>7, CalledThat
  <2>3. ShownOK(t)
    BY <2>1, <2>2, Zenon DEF ShownOK
  <2>4. (t.moved <=> v1) /\ (t.lost <=> o1)
    BY <2>1
  <2> QED
    BY <2>1, <2>3, <2>4, Zenon DEF Shows
<1>8. Shows(SetCalled(s, c, p, x, v, o), p, x, v, o)
  BY <1>3, <1>7, Zenon
<1>9. Shows(SetPos(s, c, p, v), p, x0, v, o0)
  BY <1>4, <1>7, Zenon
<1>10. Shows(SetMoved(s, c, v), p0, x0, v, o0)
  BY <1>5, <1>7, Zenon
<1>11. ShownOK(SetResets(s, r))
  BY <1>6, <1>7, Zenon DEF Shows
<1> QED
  BY <1>8, <1>9, <1>10, <1>11, Zenon DEF p0, x0, o0

Starts(d, p, r) == [d EXCEPT !.ready = r, !.todo = p]
Stops(d, p, r) == [d EXCEPT !.todo = p, !.ready = r]

Drives(e, p, r) == DrvOK(e) /\ e.todo = p /\ e.ready = r

LEMMA DrvSet ==
  ASSUME NEW d, DrvOK(d), NEW p \in Seq(StrobeType), NEW r \in BOOLEAN
  PROVE  /\ Drives([d EXCEPT !.todo = p], p, d.ready)
         /\ Drives(Starts(d, p, r), p, r)
         /\ Drives(Stops(d, p, r), p, r)
<1> DEFINE Just(p0, r0, t0) == [todo : {p0}, ready : {r0}, type : {t0}]
           t == d.type
           r1 == d.ready
           p1 == d.todo
<1>1. d \in Just(p1, r1, t) /\ r1 \in BOOLEAN /\ p1 \in Seq(StrobeType)
  BY DEF DrvOK
<1> HIDE DEF t, r1, p1
<1>2. /\ [d EXCEPT !.todo = p] \in Just(p, r1, t)
      /\ Starts(d, p, r) \in Just(p, r, t)
      /\ Stops(d, p, r) \in Just(p, r, t)
  BY <1>1, Zenon DEF Starts, Stops
<1>3. ASSUME NEW e, NEW p2 \in Seq(StrobeType), NEW r2 \in BOOLEAN, e \in Just(p2, r2, t)
      PROVE  Drives(e, p2, r2)
  BY <1>3 DEF DrvOK, Drives
<1> HIDE DEF Just
<1> QED
  BY <1>1, <1>2, <1>3 DEF r1

LEMMA LcdBegins == ASSUME DP!Init PROVE LcdInv
<1> DEFINE no == FALSE
           none == <<>>
<1>1. /\ lcd \in [wide : BOOLEAN, high : {16, 0, 2, 4, 8}, rs : BOOLEAN, addr : {0, 64}, cgram : BOOLEAN, mem : {none}]
      /\ lcd.wide => lcd.high = 16
      /\ drv \in [todo : {none}, ready : {no}, type : {"LCD", "OLED"}]
      /\ shown = Called(0, 0, 0, none, no, no)
  BY Zenon DEF DP!Init, DP!None, Called
<1>2. none \in Seq(StrobeType) /\ no \in BOOLEAN /\ ~no /\ DOMAIN none = {}
  OBVIOUS
<1> HIDE DEF no
<1>3. DrvOK(drv) /\ drv.ready = no /\ drv.todo = none
  <2> HIDE DEF none
  <2>1. drv.todo = none /\ drv.ready = no
    BY <1>1
  <2>2. drv = [todo |-> drv.todo, ready |-> drv.ready, type |-> drv.type]
    <3> DEFINE types == {"LCD", "OLED"}
    <3>1. drv \in [todo : {none}, ready : {no}, type : types]
      BY <1>1
    <3> HIDE DEF types
    <3> QED
      BY <3>1
  <2> QED
    BY <1>2, <2>1, <2>2 DEF DrvOK
<1>4. ShownOK(shown)
  <2> HIDE DEF none
  <2> QED
    BY <1>1, Zenon DEF ShownOK, Called
<1>5. LcdOK(lcd)
  <2> DEFINE m == lcd.mem
             w == lcd.wide
             h == lcd.high
             r == lcd.rs
             a == lcd.addr
             c == lcd.cgram
  <2>1. lcd = Controller(w, h, r, a, c, m)
    BY <1>1 DEF Controller
  <2>2. w \in BOOLEAN /\ h \in 0..16 /\ r \in BOOLEAN /\ a \in 0..127 /\ c \in BOOLEAN /\ m = none /\ (w => h = 16)
    BY <1>1
  <2>3. DOMAIN m \subseteq DP!Cells
    BY <1>2, <2>2
  <2> HIDE DEF m, w, h, r, a, c, none
  <2>4. LcdOK(Controller(w, h, r, a, c, m))
    BY <2>2, <2>3, ControllerOK, Zenon
  <2> QED
    BY <2>1, <2>4
<1> QED
  BY <1>2, <1>3, <1>4, <1>5 DEF LcdInv


\* An operation begins: its strobes lead where the cursor and the text belong.
LEMMA LcdCalls ==
  ASSUME LcdInv, NEW p, drv.ready, drv.todo = <<>>, drv' = [drv EXCEPT !.todo = p], lcd' = lcd, ShownOK(shown'),
         Settled(lcd) /\ ~lcd.cgram /\ Tells(shown, lcd.addr, lcd.mem) => Lands(lcd, p, shown')
  PROVE  LcdInv'
<1>1. PICK a, m : Goes(lcd, <<>>, a, m) /\ Tells(shown, a, m)
  BY DEF LcdInv, Lands
<1>2. PICK t : Way(lcd, <<>>, t) /\ At(t, a, m)
  BY <1>1 DEF Goes
<1>3. t = lcd
  BY <1>2, Stays DEF Way
<1>4. Lands(lcd, p, shown')
  BY <1>1, <1>2, <1>3 DEF At
<1>5. p \in Seq(StrobeType)
  BY <1>4 DEF Lands, Goes, Way
<1>6. DrvOK(drv') /\ drv'.todo = p /\ drv'.ready = drv.ready
  <2>1. DrvOK(drv) /\ drv.ready \in BOOLEAN
    BY DEF LcdInv, DrvOK
  <2>2. Drives([drv EXCEPT !.todo = p], p, drv.ready)
    BY <1>5, <2>1, DrvSet, Zenon
  <2> QED
    BY <2>2, Zenon DEF Drives
<1>7. LcdOK(lcd') /\ Lands(lcd', drv'.todo, shown')
  BY <1>4, <1>6 DEF LcdInv
<1> QED
  BY <1>6, <1>7 DEF LcdInv

\* hd44780_init brings the controller to the narrow bus in whatever state it is.
LEMMA LcdInit == ASSUME LcdInv, DP!hd44780_init PROVE LcdInv'
<1> DEFINE lt == drv.type = "LCD"
           yes == TRUE
           no == FALSE
           none == <<>>
           p == DP!Resync \o DP!Cmd(DP!LINES2) \o
                 IF lt THEN DP!Cmd(DP!HOME) \o DP!Cmd(DP!CLEAR) \o DP!Cmd(DP!CURSOROFF)
                 ELSE DP!Cmd(DP!BLANK) \o DP!Cmd(DP!AUTOINCREMENTON) \o DP!Cmd(DP!POWERON) \o DP!Cmd(DP!CLEAR)
                      \o DP!Cmd(DP!HOME) \o DP!Cmd(DP!CURSOROFF)
<1>1. /\ drv' = Starts(drv, p, yes)
      /\ shown' = SetCalled(shown, 0, 0, none, no, no) /\ lcd' = lcd
  BY Zenon DEF DP!hd44780_init, SetCalled, Starts
<1>2. yes \in BOOLEAN /\ yes /\ no \in BOOLEAN /\ ~no
  OBVIOUS
<1>3. Goes(lcd, p, 0, none)
  <2> HIDE DEF lt
  <2> QED
    BY InitGoes, Zenon DEF LcdInv
<1> HIDE DEF p, yes, no, none
<1>4. p \in Seq(StrobeType)
  BY <1>3 DEF Goes, Way
<1>5. DrvOK(drv') /\ drv'.todo = p /\ drv'.ready = yes
  <2>1. DrvOK(drv) /\ yes \in BOOLEAN
    BY <1>2 DEF LcdInv
  <2>2. Drives(Starts(drv, p, yes), p, yes)
    BY <1>4, <2>1, DrvSet, Zenon
  <2> QED
    BY <1>1, <2>2 DEF Drives
<1>6. Shows(shown', 0, none, no, no)
  BY <1>1, <1>2, CalledSet, Zenon DEF LcdInv
<1>7. LcdOK(lcd')
  BY <1>1 DEF LcdInv
<1>8. Tells(shown', 0, none)
  <2>1. 0 \in DP!Cells
    BY DEF DP!Cells
  <2> QED
    BY <1>2, <1>6, <2>1, Zenon DEF Shows, Tells
<1>9. Lands(lcd', drv'.todo, shown')
  BY <1>1, <1>3, <1>5, <1>8, Zenon DEF Lands
<1> QED
  BY <1>2, <1>5, <1>6, <1>7, <1>9, Zenon DEF LcdInv, Shows

LEMMA LcdPos == ASSUME LcdInv, NEW row \in 0..1, NEW col \in Columns, DP!hd44780_set_pos(row, col) PROVE LcdInv'
<1> DEFINE n == shown.calls + 1
           pos == (IF row > 0 THEN 64 ELSE 0) + col
           b == (IF row > 0 THEN 192 ELSE 128) + col
           no == FALSE
<1>1. /\ drv.todo = <<>> /\ drv.ready /\ drv' = [drv EXCEPT !.todo = DP!Cmd(b)] /\ lcd' = lcd
      /\ shown' = SetPos(shown, n, pos, no)
  BY Zenon DEF DP!hd44780_set_pos, DP!Call, SetPos
<1>2. b \in 128..255 /\ b - 128 = pos /\ pos \in DP!Cells
  <2>1. col \in 0..39
    BY ServicesAssumption DEF DP!Parameters
  <2> QED
    BY <2>1 DEF DP!Cells
<1>3. no \in BOOLEAN /\ ~no
  OBVIOUS
<1> HIDE DEF n, pos, b, no
<1>4. Shows(shown', pos, shown.cells, no, shown.lost)
  BY <1>1, <1>3, CalledSet, Zenon DEF LcdInv
<1>5. ASSUME Settled(lcd), Tells(shown, lcd.addr, lcd.mem) PROVE Lands(lcd, DP!Cmd(b), shown')
  <2>1. Goes(lcd, DP!Cmd(b), pos, lcd.mem)
    BY <1>2, <1>5, PosGoes
  <2>2. Tells(shown', pos, lcd.mem)
    BY <1>2, <1>3, <1>4, <1>5, Zenon DEF Shows, Tells
  <2> QED
    BY <2>1, <2>2 DEF Lands
<1> QED
  BY <1>1, <1>4, <1>5, LcdCalls DEF Shows

\* A character that is put while the cursor is outside the lines does nothing.
LEMMA CharLost ==
  ASSUME NEW l, Settled(l), ~l.cgram, l.addr = 127, NEW c \in 0..255
  PROVE  Goes(l, DP!Data(c), 127, l.mem)
<1>1. ~Stores(l)
  BY DEF Stores, DP!Cells
<1>2. PICK t : Way(l, DP!Data(c), t) /\ DataDone(l, c, t)
  BY DataWay
<1>3. At(t, 127, l.mem)
  BY <1>1, <1>2 DEF DataDone, Way, At
<1> QED
  BY <1>2, <1>3 DEF Goes

LEMMA LcdChar == ASSUME LcdInv, NEW c \in Chars \cup {10}, DP!hd44780_put_char(c) PROVE LcdInv'
<1> DEFINE n == shown.calls + 1
           pos == IF c = 10 THEN 64 ELSE DP!After(shown.pos)
           x == IF c = 10 THEN shown.cells ELSE Stored(shown.cells, shown.pos, c)
           p == IF c = 10 THEN DP!Newline ELSE DP!Data(c)
           v == shown.moved /\ c # 10
           o == shown.lost \/ (c # 10 /\ shown.moved)
<1>1. /\ drv.todo = <<>> /\ drv.ready /\ drv' = [drv EXCEPT !.todo = p] /\ lcd' = lcd
      /\ shown' = SetCalled(shown, n, pos, x, v, o)
  BY Zenon DEF DP!hd44780_put_char, DP!Call, SetCalled, Stored
<1>2. /\ v \in BOOLEAN /\ o \in BOOLEAN
      /\ v <=> shown.moved /\ c # 10
      /\ o <=> shown.lost \/ (c # 10 /\ shown.moved)
  BY Zenon
<1>3. /\ c = 10 => pos = 64 /\ x = shown.cells /\ p = DP!Cmd(192)
      /\ c # 10 => pos = DP!After(shown.pos) /\ x = Stored(shown.cells, shown.pos, c) /\ p = DP!Data(c)
  BY Zenon DEF DP!Newline
<1> HIDE DEF n, pos, x, p, v, o
<1>4. Shows(shown', pos, x, v, o)
  BY <1>1, <1>2, CalledSet, Zenon DEF LcdInv
<1>5. ASSUME Settled(lcd), ~lcd.cgram, Tells(shown, lcd.addr, lcd.mem) PROVE Lands(lcd, p, shown')
  <2>1. shown.pos \in DP!Cells /\ DP!After(shown.pos) \in DP!Cells /\ 64 \in DP!Cells
    BY <1>5 DEF Tells, DP!After, DP!Cells
  <2>2. CASE c = 10
    <3>1. Goes(lcd, p, 64, lcd.mem)
      <4>1. 192 \in 128..255 /\ 192 - 128 = 64
        OBVIOUS
      <4> QED
        BY <1>3, <1>5, <2>2, <4>1, PosGoes
    <3>2. Tells(shown', 64, lcd.mem)
      BY <1>2, <1>3, <1>4, <1>5, <2>1, <2>2, Zenon DEF Shows, Tells
    <3> QED
      BY <3>1, <3>2 DEF Lands
  <2>3. ASSUME c # 10 PROVE c \in 0..255
    BY ServicesAssumption, <2>3 DEF DP!Parameters
  <2>4. CASE c # 10 /\ shown.moved
    <3>1. lcd.addr = 127
      BY <1>5, <2>4, Zenon DEF Tells
    <3>2. Goes(lcd, p, 127, lcd.mem)
      BY <1>3, <1>5, <2>3, <2>4, <3>1, CharLost
    <3>3. Tells(shown', 127, lcd.mem)
      BY <1>2, <1>3, <1>4, <2>1, <2>4, Zenon DEF Shows, Tells
    <3> QED
      BY <3>2, <3>3 DEF Lands
  <2>5. CASE c # 10 /\ ~shown.moved
    <3>1. lcd.addr = shown.pos /\ (~shown.lost => lcd.mem = shown.cells)
      BY <1>5, <2>5, Zenon DEF Tells
    <3>2. At(lcd, shown.pos, lcd.mem)
      BY <1>5, <3>1 DEF At
    <3>3. Goes(lcd, p, pos, Stored(lcd.mem, shown.pos, c))
      BY <1>3, <2>1, <2>3, <2>5, <3>2, CharGoes
    <3>4. Tells(shown', pos, Stored(lcd.mem, shown.pos, c))
      BY <1>2, <1>3, <1>4, <2>1, <2>5, <3>1, Zenon DEF Shows, Tells
    <3> QED
      BY <3>3, <3>4 DEF Lands
  <2> QED
    BY <2>2, <2>4, <2>5, Zenon
<1> QED
  BY <1>1, <1>4, <1>5, LcdCalls DEF Shows

LEMMA LcdClear == ASSUME LcdInv, DP!hd44780_clear PROVE LcdInv'
<1> DEFINE n == shown.calls + 1
           none == <<>>
           no == FALSE
           p == DP!Cmd(1) \o DP!Cmd(2)
<1>1. /\ drv.todo = <<>> /\ drv.ready /\ drv' = [drv EXCEPT !.todo = p] /\ lcd' = lcd
      /\ shown' = SetCalled(shown, n, 0, none, no, no)
  BY Zenon DEF DP!hd44780_clear, DP!Call, DP!CLEAR, DP!HOME, SetCalled
<1>2. Settled(lcd) => Goes(lcd, p, 0, none)
  BY ClearGoes, Zenon
<1>3. no \in BOOLEAN /\ ~no /\ 0 \in DP!Cells
  BY DEF DP!Cells
<1> HIDE DEF n, none, no, p
<1>4. Shows(shown', 0, none, no, no)
  BY <1>1, <1>3, CalledSet, Zenon DEF LcdInv
<1>5. Tells(shown', 0, none)
  BY <1>3, <1>4, Zenon DEF Shows, Tells
<1>6. Settled(lcd) => Lands(lcd, p, shown')
  BY <1>2, <1>5 DEF Lands
<1> QED
  BY <1>1, <1>4, <1>6, LcdCalls DEF Shows

LEMMA LcdCustom == ASSUME LcdInv, DP!hd44780_custom_char(1) PROVE LcdInv'
<1> DEFINE n == shown.calls + 1
           no == FALSE
           p == DP!Cmd(72) \o DP!Data(1) \o DP!Data(1) \o DP!Data(1) \o DP!Data(1) \o DP!Data(1) \o DP!Data(1)
                 \o DP!Data(1) \o DP!Data(1) \o DP!Cmd(2)
<1>1. /\ drv.todo = <<>> /\ drv.ready /\ drv' = [drv EXCEPT !.todo = p] /\ lcd' = lcd
      /\ shown' = SetPos(shown, n, 0, no)
  <2>1. 64 + 1 * 8 = 72
    OBVIOUS
  <2> QED
    BY <2>1, Zenon DEF DP!hd44780_custom_char, DP!Call, DP!HOME, SetPos
<1>2. Settled(lcd) => Goes(lcd, p, 0, lcd.mem)
  BY CustomGoes, Zenon
<1>3. no \in BOOLEAN /\ ~no /\ 0 \in DP!Cells
  BY DEF DP!Cells
<1> HIDE DEF n, no, p
<1>4. Shows(shown', 0, shown.cells, no, shown.lost)
  BY <1>1, <1>3, CalledSet, Zenon DEF LcdInv
<1>5. Tells(shown, lcd.addr, lcd.mem) => Tells(shown', 0, lcd.mem)
  BY <1>3, <1>4, Zenon DEF Shows, Tells
<1>6. Settled(lcd) /\ Tells(shown, lcd.addr, lcd.mem) => Lands(lcd, p, shown')
  BY <1>2, <1>5 DEF Lands
<1> QED
  BY <1>1, <1>4, <1>6, LcdCalls DEF Shows

LEMMA LcdUpdate == ASSUME LcdInv, DP!hd44780_update PROVE LcdInv'
<1> DEFINE n == shown.calls + 1
           yes == TRUE
           p == DP!Cmd(255)
<1>1. /\ drv.todo = <<>> /\ drv.ready /\ drv' = [drv EXCEPT !.todo = p] /\ lcd' = lcd
      /\ shown' = SetMoved(shown, n, yes)
  BY Zenon DEF DP!hd44780_update, DP!Call, SetMoved
<1>2. Settled(lcd) => Goes(lcd, p, 127, lcd.mem)
  <2>1. 255 \in 128..255 /\ 255 - 128 = 127
    OBVIOUS
  <2> QED
    BY <2>1, PosGoes
<1>3. yes \in BOOLEAN /\ yes
  OBVIOUS
<1> HIDE DEF n, yes, p
<1>4. Shows(shown', shown.pos, shown.cells, yes, shown.lost)
  BY <1>1, <1>3, CalledSet, Zenon DEF LcdInv
<1>5. Tells(shown, lcd.addr, lcd.mem) => Tells(shown', 127, lcd.mem)
  BY <1>3, <1>4, Zenon DEF Shows, Tells
<1>6. Settled(lcd) /\ Tells(shown, lcd.addr, lcd.mem) => Lands(lcd, p, shown')
  BY <1>2, <1>5 DEF Lands
<1> QED
  BY <1>1, <1>4, <1>6, LcdCalls DEF Shows

LEMMA LcdStrobe == ASSUME LcdInv, DP!Strobe PROVE LcdInv'
<1> DEFINE s == Head(drv.todo)
           q == Tail(drv.todo)
<1>1. drv.todo \in Seq(StrobeType) /\ drv.todo # <<>> /\ drv.ready /\ LcdOK(lcd)
  BY DEF DP!Strobe, LcdInv, DrvOK
<1>2. s \in StrobeType /\ q \in Seq(StrobeType)
  BY <1>1
<1>3. lcd' = Fed(lcd, s)
  BY <1>1, <1>2, StrobeFeeds
<1>4. drv' = [drv EXCEPT !.todo = q] /\ shown' = shown
  BY DEF DP!Strobe
<1>50. PICK a, m : Goes(lcd, drv.todo, a, m) /\ Tells(shown, a, m)
  BY <1>1 DEF LcdInv, Lands
<1>5. PICK t : Way(lcd, drv.todo, t) /\ At(t, a, m)
  BY <1>50 DEF Goes
<1>6. Leads(Fed(lcd, s), q, t)
  BY <1>1, <1>5, LeadsNext DEF Way
<1> HIDE DEF s, q
<1>7. DrvOK(drv') /\ drv'.todo = q /\ drv'.ready = drv.ready
  <2>1. DrvOK(drv) /\ drv.ready \in BOOLEAN
    BY DEF LcdInv, DrvOK
  <2>2. Drives([drv EXCEPT !.todo = q], q, drv.ready)
    BY <1>2, <2>1, DrvSet
  <2> QED
    BY <1>4, <2>2 DEF Drives
<1>8. Way(lcd', drv'.todo, t)
  BY <1>2, <1>3, <1>5, <1>6, <1>7 DEF Way
<1>9. Lands(lcd', drv'.todo, shown')
  BY <1>4, <1>5, <1>50, <1>8 DEF Goes, Lands
<1>10. LcdOK(lcd')
  BY <1>1, <1>2, <1>3, FedOK
<1> QED
  BY <1>1, <1>4, <1>7, <1>9, <1>10 DEF LcdInv

LEMMA LcdReset == ASSUME LcdInv, DP!Reset PROVE LcdInv'
<1> DEFINE no == FALSE
           none == <<>>
           n == shown.resets + 1
<1>1. drv' = Stops(drv, none, no) /\ lcd' = lcd /\ shown' = SetResets(shown, n)
  BY Zenon DEF DP!Reset, SetResets, Stops
<1>2. none \in Seq(StrobeType) /\ no \in BOOLEAN /\ ~no
  OBVIOUS
<1> HIDE DEF no, none, n
<1>3. DrvOK(drv') /\ drv'.todo = none /\ drv'.ready = no
  <2>1. DrvOK(drv) /\ no \in BOOLEAN
    BY <1>2 DEF LcdInv
  <2>2. Drives(Stops(drv, none, no), none, no)
    BY <1>2, <2>1, DrvSet, Zenon
  <2> QED
    BY <1>1, <2>2 DEF Drives
<1>4. ShownOK(shown')
  BY <1>1, CalledSet DEF LcdInv
<1> QED
  BY <1>1, <1>2, <1>3, <1>4 DEF LcdInv, none

LEMMA LcdSteps == ASSUME LcdInv, DP!Next PROVE LcdInv'
BY LcdInit, LcdClear, LcdCustom, LcdUpdate, LcdPos, LcdChar, LcdStrobe, LcdReset DEF DP!Next

LEMMA LcdImplies == ASSUME LcdInv PROVE DP!TypeOK /\ DP!InStep /\ DP!TextLands
<1>1. DP!TypeOK
  BY DEF LcdInv, LcdOK, DP!TypeOK
<1>2. ASSUME drv.ready, drv.todo = <<>>
      PROVE  ~lcd.wide /\ lcd.high = 16 /\ ~lcd.cgram /\ Tells(shown, lcd.addr, lcd.mem)
  <2>1. PICK a, m : Goes(lcd, <<>>, a, m) /\ Tells(shown, a, m)
    BY <1>2 DEF LcdInv, Lands
  <2>2. PICK t : Way(lcd, <<>>, t) /\ At(t, a, m)
    BY <2>1 DEF Goes
  <2>3. t = lcd
    BY <2>2, Stays DEF Way
  <2> QED
    BY <2>1, <2>2, <2>3 DEF At, Settled
<1>3. DP!InStep
  BY <1>2 DEF DP!InStep, DP!None
<1>4. DP!TextLands
  BY <1>2, Zenon DEF DP!TextLands, Tells
<1> QED
  BY <1>1, <1>3, <1>4

-----------------------------------------------------------------------------
(***************************************************************************)
(* The display in a file.                                                  *)
(***************************************************************************)
\* Places in a grid whose rows are w wide.
LEMMA Grid ==
  ASSUME NEW w \in Nat, NEW q \in Nat, NEW p \in Nat
  PROVE  /\ q * w \in Nat /\ (q + 1) * w = q * w + w
         /\ q <= p => q * w <= p * w
         /\ q < p => q * w + w <= p * w
         /\ q = 0 => q * w = 0
<1>1. q * w \in Nat /\ p * w \in Nat /\ (q + 1) * w = q * w + w
  OBVIOUS
<1>2. q <= p => q * w <= p * w
  <2>1. q \in Int /\ p \in Int
    OBVIOUS
  <2>2. q <= p => w * q <= w * p
    BY <2>1, Times
  <2> QED
    BY <2>2
<1>3. q < p => q * w + w <= p * w
  <2>1. CASE q < p
    <3>1. q + 1 \in Int /\ p \in Int /\ q + 1 <= p
      BY <2>1
    <3>2. w * (q + 1) <= w * p
      BY <3>1, Times
    <3>3. w * (q + 1) = q * w + w /\ w * p = p * w
      OBVIOUS
    <3> QED
      BY <3>2, <3>3
  <2> QED
    BY <2>1
<1> QED
  BY <1>1, <1>2, <1>3

Four == <<"0", "r", "n", "0">>
Space == <<" ">>
Pieces == {Space, Four}

\* The writes of Clear: RowSize spaces and one write for the end of the row.
LEMMA BlankFacts ==
  ASSUME NEW rows \in Nat \ {0}, RowSize \in Nat \ {0}
  PROVE  /\ FD!Blank(rows) \in Seq(Pieces) /\ Len(FD!Blank(rows)) = rows * (RowSize + 1)
         /\ \A q \in 0..(rows - 1), r \in 0..RowSize :
              FD!Blank(rows)[q * (RowSize + 1) + r + 1] = IF r = RowSize THEN Four ELSE Space
<1> DEFINE w == RowSize + 1
           z == rows * w
           b == FD!Blank(rows)
           B(k) == IF k % w = 0 THEN Four ELSE Space
<1>0. w \in Nat /\ w > 0 /\ w = RowSize + 1 /\ z \in Nat
  BY Grid
<1>1. b = [k \in 1..z |-> B(k)]
  BY DEF FD!Blank, Space, Four
<1>2. \A k : B(k) \in Pieces
  BY DEF Pieces
<1> HIDE DEF B, z, b, w
<1>3. b \in Seq(Pieces) /\ Len(b) = z /\ \A k \in 1..z : b[k] = B(k)
  BY <1>0, <1>1, <1>2
<1>4. ASSUME NEW q \in 0..(rows - 1), NEW r \in 0..RowSize
      PROVE  b[q * w + r + 1] = IF r = RowSize THEN Four ELSE Space
  <2> DEFINE x == q * w
             k == x + r + 1
  <2>1. x \in Nat /\ x + w <= z /\ x = w * q
    <3>1. q \in Nat /\ q < rows
      OBVIOUS
    <3> QED
      BY <1>0, <3>1, Grid DEF z
  <2>2. k \in 1..z
    <3> HIDE DEF x
    <3> QED
      BY <1>0, <2>1
  <2>3. k % w = 0 <=> r = RowSize
    <3>1. CASE r = RowSize
      <4> DEFINE p == q + 1
      <4>1. k = w * p + 0 /\ k \in Nat /\ p \in Nat
        <5>1. w * p = w * q + w
          BY <1>0
        <5>2. k = x + w
          <6> HIDE DEF x
          <6> QED
            BY <1>0, <2>1, <3>1
        <5> HIDE DEF k
        <5> QED
          BY <1>0, <2>1, <2>2, <5>1, <5>2
      <4> HIDE DEF k, p
      <4>2. k % w = 0
        BY <1>0, <4>1, RemainderOf
      <4> QED
        BY <3>1, <4>2
    <3>2. CASE r # RowSize
      <4> DEFINE y == r + 1
      <4>1. k = w * q + y /\ k \in Nat /\ q \in Nat /\ y \in 0..(w - 1) /\ y # 0
        <5>1. y \in 0..(w - 1) /\ y # 0 /\ q \in Nat
          BY <1>0, <3>2
        <5>2. k = x + y /\ k \in Nat
          <6> HIDE DEF x
          <6> QED
            BY <2>1
        <5> QED
          BY <2>1, <5>1, <5>2
      <4> HIDE DEF k, y
      <4>2. k % w = y
        BY <1>0, <4>1, RemainderOf
      <4> QED
        BY <3>2, <4>1, <4>2
    <3> QED
      BY <3>1, <3>2
  <2> HIDE DEF k
  <2>4. b[k] = IF r = RowSize THEN Four ELSE Space
    BY <1>3, <2>2, <2>3 DEF B
  <2> QED
    BY <2>4 DEF k
<1> QED
  BY <1>3, <1>4 DEF w, z, b

\* ----- the invariant of the display in a file
Remains(todo, n, k) ==
  /\ todo \in Seq(Pieces) /\ Len(todo) = n * (RowSize + 1) - k
  /\ \A j \in 1..Len(todo) : todo[j] = FD!Blank(n)[k + j]

\* Clear has written q rows and r spaces of the next.
Clearing(n, todo, pos) ==
  \E q \in 0..(n - 1), r \in 0..RowSize : pos = q * (RowSize + 4) + r /\ Remains(todo, n, q * (RowSize + 1) + r)

\* The file is complete, or lacks a line ending and whatever is before it.
Written(n, len) == len <= n * (RowSize + 4) /\ (len < n * (RowSize + 4) => len + 4 <= n * (RowSize + 4))

Mapped(n, map, cur, len) ==
  /\ map \in Nat /\ cur \in Nat /\ map <= len /\ n * (RowSize + 3) <= map
  /\ n < 4 => map = n * (RowSize + 4)

PanelFacts(n, todo, pos, map, cur, len, at, fits, out) ==
  /\ n \in Nat \ {0} /\ len \in Nat /\ pos \in 0..len /\ Written(n, len)
  /\ todo # <<>> => at = <<0, 0>> /\ Clearing(n, todo, pos)
  /\ Mapped(n, map, cur, len) \/ (map = -1 /\ cur = -1)
  /\ todo = <<>> /\ map # -1 => cur = at[1] * (RowSize + 3) + at[2]
  /\ at \in Nat \X Nat /\ fits \in BOOLEAN /\ out \in BOOLEAN
  /\ fits => ~out

PanelIs(n, todo, pos, map, cur) == [rows |-> n, todo |-> todo, pos |-> pos, map |-> map, cur |-> cur]
PanelShape(p) == p = PanelIs(p.rows, p.todo, p.pos, p.map, p.cur)
SeenIs(at, cells, fits, out, ops, programs) ==
  [at |-> at, cells |-> cells, fits |-> fits, out |-> out, ops |-> ops, programs |-> programs]
SeenShape(s) == s = SeenIs(s.at, s.cells, s.fits, s.out, s.ops, s.programs)

PanelInv ==
  /\ PanelShape(panel) /\ SeenShape(seen) /\ DOMAIN paper = 1..Len(paper)
  /\ PanelFacts(panel.rows, panel.todo, panel.pos, panel.map, panel.cur, Len(paper), seen.at, seen.fits, seen.out)

LEMMA PanelSizes ==
  /\ RowCounts \subseteq Nat \ {0} /\ RowSize \in Nat \ {0} /\ Lengths \subseteq Nat
  /\ RowSize + 1 \in Nat /\ RowSize + 3 \in Nat /\ RowSize + 4 \in Nat
BY ServicesAssumption DEF FD!Parameters

LEMMA TailRemains ==
  ASSUME NEW n \in Nat, NEW k \in Nat, NEW todo, Remains(todo, n, k), todo # <<>>
  PROVE  Remains(Tail(todo), n, k + 1) /\ Head(todo) = FD!Blank(n)[k + 1] /\ Len(Tail(todo)) = Len(todo) - 1
<1> DEFINE t == Tail(todo)
           m == Len(todo)
           z == n * (RowSize + 1)
<1>1. todo \in Seq(Pieces) /\ m = z - k /\ \A j \in 1..m : todo[j] = FD!Blank(n)[k + j]
  BY DEF Remains
<1>2. m \in Nat /\ m > 0 /\ t \in Seq(Pieces) /\ Len(t) = m - 1 /\ \A j \in 1..(m - 1) : t[j] = todo[j + 1]
  BY <1>1
<1>3. Head(todo) = FD!Blank(n)[k + 1]
  BY <1>1, <1>2
<1>4. Len(t) = z - (k + 1)
  <2>1. z \in Nat
    BY PanelSizes, Grid
  <2> HIDE DEF z, t
  <2> QED
    BY <1>1, <1>2, <2>1
<1>5. \A j \in 1..(m - 1) : t[j] = FD!Blank(n)[k + 1 + j]
  <2> SUFFICES ASSUME NEW j \in 1..(m - 1) PROVE t[j] = FD!Blank(n)[k + 1 + j]
    BY Zenon
  <2> DEFINE i == j + 1
  <2>1. i \in 1..m /\ k + i = k + 1 + j
    BY <1>2
  <2> HIDE DEF t, m
  <2>2. todo[i] = FD!Blank(n)[k + i]
    BY <1>1, <2>1
  <2>3. t[j] = todo[i]
    BY <1>2
  <2> QED
    BY <2>1, <2>2, <2>3
<1> QED
  BY <1>2, <1>3, <1>4, <1>5 DEF Remains

\* One write of Clear.
LEMMA ClearGoesOn ==
  ASSUME NEW n \in Nat \ {0}, NEW todo, todo # <<>>, NEW pos, Clearing(n, todo, pos)
  PROVE  LET end == pos + Len(Head(todo)) IN
         /\ pos \in Nat /\ end \in Nat /\ end > pos /\ todo \in Seq(Pieces) /\ Tail(todo) \in Seq(Pieces)
         /\ Len(todo) = 1 => Tail(todo) = <<>> /\ end = n * (RowSize + 4)
         /\ Len(todo) # 1 => Tail(todo) # <<>> /\ Clearing(n, Tail(todo), end) /\ end + 4 <= n * (RowSize + 4)
<1> DEFINE w == RowSize + 1
           v == RowSize + 4
           t == Tail(todo)
           m == Len(todo)
<1>0. w \in Nat /\ v \in Nat /\ w = RowSize + 1 /\ v = RowSize + 4 /\ RowSize \in Nat \ {0} /\ n \in Nat /\ n > 0
  BY PanelSizes
<1>1. PICK q \in 0..(n - 1), r \in 0..RowSize : pos = q * v + r /\ Remains(todo, n, q * w + r)
  BY DEF Clearing
<1> HIDE DEF w, v
<1> DEFINE p == q + 1
           k == q * w + r
           qw == q * w
           qv == q * v
           nw == n * w
           nv == n * v
<1>2. /\ q \in Nat /\ r \in Nat /\ p \in Nat /\ q < n /\ p <= n /\ r <= RowSize
      /\ qw \in Nat /\ qv \in Nat /\ nw \in Nat /\ nv \in Nat
      /\ qw + w <= nw /\ qv + v <= nv /\ p * w = qw + w /\ p * v = qv + v
  BY <1>0, Grid
<1>3. k \in Nat /\ pos \in Nat /\ k = qw + r /\ pos = qv + r
  <2>1. k = qw + r /\ pos = qv + r
    BY <1>1
  <2> HIDE DEF k, qw, qv
  <2> QED
    BY <1>2, <2>1
<1>4. Remains(t, n, k + 1) /\ Head(todo) = FD!Blank(n)[k + 1] /\ Len(t) = m - 1 /\ m = nw - k
      /\ todo \in Seq(Pieces) /\ t \in Seq(Pieces)
  <2>1. Remains(todo, n, k)
    BY <1>1
  <2>2. todo \in Seq(Pieces) /\ m = nw - k
    BY <2>1 DEF Remains, w
  <2> HIDE DEF k
  <2>3. Remains(t, n, k + 1) /\ Head(todo) = FD!Blank(n)[k + 1] /\ Len(t) = m - 1
    BY <1>0, <1>3, <2>1, TailRemains
  <2>4. t \in Seq(Pieces)
    BY <2>3 DEF Remains
  <2> QED
    BY <2>2, <2>3, <2>4
<1> DEFINE l == Len(Head(todo))
<1>5. l = IF r = RowSize THEN 4 ELSE 1
  <2>1. FD!Blank(n)[q * (RowSize + 1) + r + 1] = IF r = RowSize THEN Four ELSE Space
    BY <1>0, BlankFacts, Zenon
  <2>2. Len(Four) = 4 /\ Len(Space) = 1
    BY DEF Four, Space
  <2>3. FD!Blank(n)[k + 1] = IF r = RowSize THEN Four ELSE Space
    BY <2>1 DEF w
  <2> HIDE DEF k
  <2>4. Head(todo) = IF r = RowSize THEN Four ELSE Space
    BY <1>4, <2>3
  <2> QED
    BY <2>2, <2>4
<1> HIDE DEF k, l, t, m, p, qw, qv, nw, nv
<1> DEFINE end == pos + l
<1>6. (t = <<>> <=> m = 1) /\ m \in Nat
  <2>1. m \in Nat
    BY <1>4 DEF m
  <2>2. t = <<>> <=> Len(t) = 0
    BY <1>4
  <2> QED
    BY <1>4, <2>1, <2>2
<1>7. end \in Nat /\ end > pos /\ end = qv + r + l
  BY <1>2, <1>3, <1>5
<1> HIDE DEF end
<1>8. CASE r # RowSize
  <2> DEFINE y == r + 1
  <2>1. y \in 0..RowSize /\ end = qv + y /\ k + 1 = qw + y
    BY <1>0, <1>2, <1>3, <1>5, <1>7, <1>8
  <2>2. m # 1 /\ end + 4 <= nv
    BY <1>0, <1>2, <1>3, <1>4, <1>8, <2>1
  <2> HIDE DEF y
  <2>3. Clearing(n, t, end)
    <3>1. end = q * (RowSize + 4) + y /\ k + 1 = q * (RowSize + 1) + y
      BY <2>1 DEF qv, qw, v, w
    <3> QED
      BY <1>4, <2>1, <3>1 DEF Clearing
  <2> QED
    BY <1>3, <1>4, <1>6, <1>7, <2>2, <2>3, Zenon DEF end, t, m, v, nv, l
<1>9. CASE r = RowSize
  <2>1. end = p * v /\ k + 1 = p * w
    BY <1>0, <1>2, <1>3, <1>5, <1>7, <1>9
  <2>2. CASE p = n
    <3>1. p * w = nw /\ p * v = nv
      BY <2>2 DEF nw, nv
    <3>2. m = 1 /\ end = nv
      BY <1>2, <1>3, <1>4, <2>1, <3>1
    <3> QED
      BY <1>3, <1>4, <1>6, <1>7, <3>2, Zenon DEF end, t, m, v, nv, l
  <2>3. CASE p # n
    <3> DEFINE pw == p * w
               pv == p * v
    <3>1. p \in 0..(n - 1) /\ pv + v <= nv /\ pw + w <= nw /\ pv \in Nat /\ pw \in Nat
      <4>1. p < n /\ p \in Nat
        BY <1>2, <2>3
      <4> QED
        BY <1>0, <4>1, Grid DEF nw, nv
    <3>2. end = pv /\ k + 1 = pw
      BY <2>1
    <3>3. end = p * (RowSize + 4) + 0 /\ k + 1 = p * (RowSize + 1) + 0 /\ 0 \in 0..RowSize
      <4>1. pv + 0 = pv /\ pw + 0 = pw
        BY <3>1
      <4>2. 0 \in 0..RowSize
        BY <1>0
      <4> QED
        BY <3>2, <4>1, <4>2 DEF w, v
    <3> HIDE DEF pw, pv
    <3>4. m # 1 /\ end + 4 <= nv
      BY <1>0, <1>2, <1>3, <1>4, <3>1, <3>2
    <3>5. Clearing(n, t, end)
      BY <1>4, <3>1, <3>3, Zenon DEF Clearing
    <3> QED
      BY <1>3, <1>4, <1>6, <1>7, <3>4, <3>5, Zenon DEF end, t, m, v, nv, l
  <2> QED
    BY <2>2, <2>3
<1> QED
  BY <1>8, <1>9, Zenon

LEMMA ClearBegins ==
  ASSUME NEW n \in Nat \ {0}
  PROVE  FD!Blank(n) # <<>> /\ Clearing(n, FD!Blank(n), 0)
<1> DEFINE w == RowSize + 1
           v == RowSize + 4
           b == FD!Blank(n)
<1>0. w \in Nat /\ w > 0 /\ v \in Nat /\ w = RowSize + 1 /\ v = RowSize + 4 /\ RowSize \in Nat \ {0} /\ n \in Nat
  BY PanelSizes
<1>1. b \in Seq(Pieces) /\ Len(b) = n * w
  BY <1>0, BlankFacts
<1>2. 0 * w = 0 /\ 0 * v = 0 /\ 0 * w + w <= n * w /\ n * w \in Nat
  BY <1>0, Grid
<1>3. Remains(b, n, 0)
  <2>1. \A j \in 1..Len(b) : 0 + j = j
    BY <1>1, <1>2
  <2>2. n * w - 0 = n * w
    BY <1>2
  <2> HIDE DEF b, w
  <2> QED
    BY <1>1, <2>1, <2>2 DEF Remains, w, b
<1>4. b # <<>>
  BY <1>0, <1>1, <1>2
<1>5. 0 \in 0..(n - 1) /\ 0 \in 0..RowSize /\ 0 = 0 * v + 0 /\ 0 * w + 0 = 0
  BY <1>0, <1>2
<1> HIDE DEF b
<1>6. Clearing(n, b, 0)
  BY <1>3, <1>5 DEF Clearing, w, v
<1> QED
  BY <1>4, <1>6 DEF b

\* ----- the records, field by field
PanelSet(n, todo, pos, map, cur) == [rows : {n}, todo : {todo}, pos : {pos}, map : {map}, cur : {cur}]
SeenSet(at, cells, fits, out, ops, programs) ==
  [at : {at}, cells : {cells}, fits : {fits}, out : {out}, ops : {ops}, programs : {programs}]

LEMMA PanelFields ==
  ASSUME NEW n, NEW todo, NEW pos, NEW map, NEW cur, NEW p \in PanelSet(n, todo, pos, map, cur)
  PROVE  /\ p.rows = n /\ p.todo = todo /\ p.pos = pos /\ p.map = map /\ p.cur = cur /\ PanelShape(p)
         /\ p = PanelIs(n, todo, pos, map, cur)
BY DEF PanelSet, PanelIs, PanelShape

LEMMA SeenFields ==
  ASSUME NEW at, NEW cells, NEW fits, NEW out, NEW ops, NEW programs, NEW s \in SeenSet(at, cells, fits, out, ops, programs)
  PROVE  /\ s.at = at /\ s.cells = cells /\ s.fits = fits /\ s.out = out /\ s.ops = ops /\ s.programs = programs
         /\ SeenShape(s)
BY DEF SeenSet, SeenIs, SeenShape

PanelClears(p, b) == [p EXCEPT !.todo = b, !.pos = 0]
PanelMaps(p, j) == [p EXCEPT !.map = j, !.cur = 0]
PanelMoves(p, k) == [p EXCEPT !.cur = k]
PanelGoes(p, b, i, j, k) == [p EXCEPT !.todo = b, !.pos = i, !.map = j, !.cur = k]

LEMMA PanelChanges ==
  ASSUME NEW p, PanelShape(p), NEW b, NEW i, NEW j, NEW k
  PROVE  /\ PanelClears(p, b) \in PanelSet(p.rows, b, 0, p.map, p.cur)
         /\ PanelMaps(p, j) \in PanelSet(p.rows, p.todo, p.pos, j, 0)
         /\ PanelMoves(p, k) \in PanelSet(p.rows, p.todo, p.pos, p.map, k)
         /\ PanelGoes(p, b, i, j, k) \in PanelSet(p.rows, b, i, j, k)
<1>1. p \in PanelSet(p.rows, p.todo, p.pos, p.map, p.cur)
  BY DEF PanelShape, PanelIs, PanelSet
<1>2. PanelClears(p, b) \in PanelSet(p.rows, b, 0, p.map, p.cur)
  BY <1>1, Zenon DEF PanelSet, PanelClears
<1>3. PanelMaps(p, j) \in PanelSet(p.rows, p.todo, p.pos, j, 0)
  BY <1>1, Zenon DEF PanelSet, PanelMaps
<1>4. PanelMoves(p, k) \in PanelSet(p.rows, p.todo, p.pos, p.map, k)
  BY <1>1 DEF PanelSet, PanelMoves
<1>5. PanelGoes(p, b, i, j, k) \in PanelSet(p.rows, b, i, j, k)
  BY <1>1, Zenon DEF PanelSet, PanelGoes
<1> QED
  BY <1>2, <1>3, <1>4, <1>5

SeenStarts(s, a, u) == [s EXCEPT !.at = a, !.ops = u]
SeenErased(s, c, f, o) == [s EXCEPT !.cells = c, !.fits = f, !.out = o]
SeenRestarts(s, v, c) == [s EXCEPT !.programs = v, !.cells = c]
SeenPrints(s, a, u, f, c, o) == [s EXCEPT !.at[2] = a, !.ops = u, !.fits = f, !.cells = c, !.out = o]

LEMMA SeenChanges ==
  ASSUME NEW s, SeenShape(s), NEW a, NEW c, NEW f, NEW o, NEW u, NEW v
  PROVE  /\ SeenStarts(s, a, u) \in SeenSet(a, s.cells, s.fits, s.out, u, s.programs)
         /\ SeenErased(s, c, f, o) \in SeenSet(s.at, c, f, o, s.ops, s.programs)
         /\ SeenRestarts(s, v, c) \in SeenSet(s.at, c, s.fits, s.out, s.ops, v)
         /\ SeenPrints(s, a, u, f, c, o) \in SeenSet([s.at EXCEPT ![2] = a], c, f, o, u, s.programs)
<1>1. s \in SeenSet(s.at, s.cells, s.fits, s.out, s.ops, s.programs)
  BY DEF SeenShape, SeenIs, SeenSet
<1>2. SeenStarts(s, a, u) \in SeenSet(a, s.cells, s.fits, s.out, u, s.programs)
  BY <1>1, Zenon DEF SeenSet, SeenStarts
<1>3. SeenErased(s, c, f, o) \in SeenSet(s.at, c, f, o, s.ops, s.programs)
  BY <1>1, Zenon DEF SeenSet, SeenErased
<1>4. SeenRestarts(s, v, c) \in SeenSet(s.at, c, s.fits, s.out, s.ops, v)
  BY <1>1, Zenon DEF SeenSet, SeenRestarts
<1>5. SeenPrints(s, a, u, f, c, o) \in SeenSet([s.at EXCEPT ![2] = a], c, f, o, u, s.programs)
  BY <1>1, Zenon DEF SeenSet, SeenPrints
<1> QED
  BY <1>2, <1>3, <1>4, <1>5

LEMMA AtMoves ==
  ASSUME NEW a \in Nat \X Nat, NEW x \in Nat
  PROVE  LET c == [a EXCEPT ![2] = x] IN c \in Nat \X Nat /\ c[1] = a[1] /\ c[2] = x
OBVIOUS

\* What a step has to keep.
PanelTurn(n, b, i, j, k, len, at, c, fits, out, u, v) ==
  /\ panel' \in PanelSet(n, b, i, j, k) /\ seen' \in SeenSet(at, c, fits, out, u, v)
  /\ DOMAIN paper' = 1..len /\ Len(paper') = len
  /\ PanelFacts(n, b, i, j, k, len, at, fits, out)

LEMMA PanelKept ==
  ASSUME NEW n, NEW b, NEW i, NEW j, NEW k, NEW len, NEW at, NEW c, NEW fits, NEW out, NEW u, NEW v,
         PanelTurn(n, b, i, j, k, len, at, c, fits, out, u, v)
  PROVE  PanelInv'
<1> DEFINE p == panel'
           s == seen'
           z == Len(paper')
<1>1. p \in PanelSet(n, b, i, j, k) /\ s \in SeenSet(at, c, fits, out, u, v) /\ DOMAIN paper' = 1..z /\ z = len
      /\ PanelFacts(n, b, i, j, k, z, at, fits, out)
  BY DEF PanelTurn
<1> HIDE DEF p, s, z
<1>2. p.rows = n /\ p.todo = b /\ p.pos = i /\ p.map = j /\ p.cur = k /\ PanelShape(p)
  BY <1>1, PanelFields
<1>3. s.at = at /\ s.fits = fits /\ s.out = out /\ SeenShape(s)
  BY <1>1, SeenFields
<1>4. PanelFacts(p.rows, p.todo, p.pos, p.map, p.cur, z, s.at, s.fits, s.out)
  BY <1>1, <1>2, <1>3
<1> QED
  BY <1>1, <1>2, <1>3, <1>4 DEF PanelInv, p, s, z

LEMMA PanelBegins ==
  ASSUME FD!Init PROVE PanelInv
<1> DEFINE none == <<>>
           m == -1
           yes == TRUE
           no == FALSE
           a == <<0, 0>>
           R == [rows : RowCounts, todo : {none}, pos : {0}, map : {m}, cur : {m}]
           T == [at : {a}, cells : {none}, fits : {yes}, out : {no}, ops : {0}, programs : {1}]
<1>1. paper = none /\ panel \in R /\ seen \in T
  BY DEF FD!Init, FD!None
<1>2. Len(paper) = 0 /\ DOMAIN paper = 1..0
  BY <1>1
<1>3. a \in Nat \X Nat /\ yes \in BOOLEAN /\ no \in BOOLEAN /\ (yes => ~no)
  OBVIOUS
<1> HIDE DEF none, m, yes, no, a
<1>4. panel.rows \in RowCounts /\ panel \in PanelSet(panel.rows, none, 0, m, m) /\ seen \in SeenSet(a, none, yes, no, 0, 1)
  BY <1>1 DEF PanelSet, SeenSet
<1>5. /\ panel.rows \in Nat \ {0} /\ panel.todo = none /\ panel.pos = 0 /\ panel.map = m /\ panel.cur = m /\ PanelShape(panel)
      /\ seen.at = a /\ seen.fits = yes /\ seen.out = no /\ SeenShape(seen)
  <2>1. panel.rows \in Nat \ {0}
    BY <1>4, PanelSizes, Zenon
  <2>2. panel.todo = none /\ panel.pos = 0 /\ panel.map = m /\ panel.cur = m /\ PanelShape(panel)
    BY <1>4, PanelFields
  <2>3. seen.at = a /\ seen.fits = yes /\ seen.out = no /\ SeenShape(seen)
    BY <1>4, SeenFields
  <2> QED
    BY <2>1, <2>2, <2>3
<1> DEFINE n == panel.rows
<1>6. Written(n, 0)
  <2> DEFINE l == RowSize + 1
  <2>1. l \in Nat \ {0} /\ n \in Nat \ {0}
    BY <1>5, PanelSizes
  <2> HIDE DEF n
  <2>2. n * (RowSize + 4) \in Nat /\ 1 * (RowSize + 4) <= n * (RowSize + 4) /\ RowSize + 4 \in Nat
    <3> DEFINE x == RowSize + 4
    <3>1. x \in Nat /\ 1 \in Nat /\ n \in Nat /\ 1 <= n
      BY <2>1, PanelSizes
    <3> HIDE DEF x
    <3>2. n * x \in Nat /\ 1 * x <= n * x
      BY <3>1, Grid
    <3> QED
      BY <3>1, <3>2 DEF x
  <2>3. 1 * (RowSize + 4) = RowSize + 4
    BY <2>2
  <2> DEFINE y == n * (RowSize + 4)
  <2>4. y \in Nat /\ RowSize + 4 <= y /\ RowSize \in Nat
    BY <2>2, <2>3, PanelSizes
  <2> HIDE DEF y
  <2>5. 0 <= y /\ 0 + 4 <= y
    BY <2>4
  <2> QED
    BY <2>5 DEF Written, y
<1>7. PanelFacts(n, none, 0, m, m, 0, a, yes, no)
  <2> HIDE DEF n
  <2> QED
    BY <1>3, <1>5, <1>6 DEF PanelFacts, none, m, n
<1> QED
  BY <1>2, <1>5, <1>7 DEF PanelInv

LEMMA PanelStarts ==
  ASSUME PanelInv, FD!Initialize \/ FD!Clear PROVE PanelInv'
<1> DEFINE n == panel.rows
           b == FD!Blank(n)
           a == <<0, 0>>
           u == seen.ops + 1
           len == Len(paper)
           none == <<>>
<1>1. /\ PanelShape(panel) /\ SeenShape(seen) /\ DOMAIN paper = 1..len
      /\ PanelFacts(n, panel.todo, panel.pos, panel.map, panel.cur, len, seen.at, seen.fits, seen.out)
  BY DEF PanelInv
<1>2. panel.todo = none /\ paper' = paper /\ seen' = SeenStarts(seen, a, u)
  BY DEF FD!Initialize, FD!Clear, FD!Idle, FD!Ready, SeenStarts
<1>3. \/ panel' = PanelClears(panel, b)
      \/ panel' = PanelMaps(panel, len) /\ ~(len < n * (RowSize + 3))
  BY DEF FD!Initialize, FD!Clear, PanelClears, PanelMaps, FD!MapLength, FD!Expected
<1>4. seen' \in SeenSet(a, seen.cells, seen.fits, seen.out, u, seen.programs)
  <2> HIDE DEF a, u
  <2> QED
    BY <1>1, <1>2, SeenChanges, Zenon
<1>5. a \in Nat \X Nat /\ a[1] = 0 /\ a[2] = 0
  OBVIOUS
<1>6. n \in Nat \ {0} /\ len \in Nat
  BY <1>1 DEF PanelFacts
<1> HIDE DEF b, a, u, none
<1>7. CASE panel' = PanelClears(panel, b)
  <2>1. panel' \in PanelSet(n, b, 0, panel.map, panel.cur)
    BY <1>1, <1>7, PanelChanges
  <2>2. b # none /\ Clearing(n, b, 0)
    BY <1>6, ClearBegins DEF b, none
  <2>3. PanelFacts(n, b, 0, panel.map, panel.cur, len, a, seen.fits, seen.out)
    <3> HIDE DEF n, len
    <3>1. 0 \in 0..len
      BY <1>6
    <3> QED
      BY <1>1, <1>5, <2>2, <3>1 DEF PanelFacts, a, none
  <2>4. PanelTurn(n, b, 0, panel.map, panel.cur, len, a, seen.cells, seen.fits, seen.out, u, seen.programs)
    BY <1>1, <1>2, <1>4, <2>1, <2>3 DEF PanelTurn
  <2> QED
    BY <2>4, PanelKept
<1>8. CASE panel' = PanelMaps(panel, len) /\ ~(len < n * (RowSize + 3))
  <2>1. panel' \in PanelSet(n, none, panel.pos, len, 0)
    <3>1. panel' \in PanelSet(n, panel.todo, panel.pos, len, 0)
      BY <1>1, <1>8, PanelChanges
    <3> QED
      BY <1>2, <3>1
  <2>2. Written(n, len)
    BY <1>1 DEF PanelFacts
  <2>3. Mapped(n, len, 0, len)
    <3> DEFINE y == RowSize + 3
               f == n * y
               g == n * (RowSize + 4)
    <3>1. y \in Nat /\ RowSize + 4 = y + 1
      BY PanelSizes
    <3>2. f \in Nat /\ g = f + n
      BY <1>6, <3>1
    <3>3. len <= g /\ (len < g => len + 4 <= g)
      BY <2>2 DEF Written
    <3>4. f <= len
      BY <1>6, <1>8, <3>2
    <3> HIDE DEF n, len, f, g
    <3>5. n < 4 => len = g
      BY <1>6, <3>2, <3>3, <3>4
    <3> QED
      BY <1>6, <3>4, <3>5 DEF Mapped, f, g
  <2>4. 0 = a[1] * (RowSize + 3) + a[2]
    BY <1>5, PanelSizes
  <2>5. PanelFacts(n, none, panel.pos, len, 0, len, a, seen.fits, seen.out)
    <3> HIDE DEF n, len
    <3> QED
      BY <1>1, <1>5, <2>3, <2>4 DEF PanelFacts, none
  <2>6. PanelTurn(n, none, panel.pos, len, 0, len, a, seen.cells, seen.fits, seen.out, u, seen.programs)
    BY <1>1, <1>2, <1>4, <2>1, <2>5 DEF PanelTurn
  <2> QED
    BY <2>6, PanelKept
<1> QED
  BY <1>3, <1>7, <1>8

LEMMA PanelWrites ==
  ASSUME PanelInv, FD!ClearWrite PROVE PanelInv'
<1> DEFINE n == panel.rows
           todo == panel.todo
           end == panel.pos + Len(Head(todo))
           len == Len(paper)
           z == IF end > len THEN end ELSE len
           full == n * (RowSize + 4)
           more == Tail(todo)
           m == -1
           none == <<>>
           a == seen.at
           end_map == IF Len(todo) = 1 /\ panel.map = -1 THEN z ELSE panel.map
           end_cur == IF Len(todo) = 1 THEN 0 ELSE panel.cur
<1>1. /\ PanelShape(panel) /\ SeenShape(seen) /\ DOMAIN paper = 1..len
      /\ PanelFacts(n, todo, panel.pos, panel.map, panel.cur, len, a, seen.fits, seen.out)
  BY DEF PanelInv
<1>2. todo # <<>> /\ n \in Nat \ {0} /\ len \in Nat /\ Clearing(n, todo, panel.pos) /\ a = <<0, 0>>
  BY <1>1 DEF FD!ClearWrite, FD!Idle, PanelFacts
<1>3. /\ panel.pos \in Nat /\ end \in Nat /\ end > panel.pos /\ todo \in Seq(Pieces) /\ more \in Seq(Pieces)
      /\ Len(todo) = 1 => more = none /\ end = full
      /\ Len(todo) # 1 => more # none /\ Clearing(n, more, end) /\ end + 4 <= full
  <2> HIDE DEF n, todo
  <2> QED
    BY <1>2, ClearGoesOn, Zenon
<1>4. z \in Nat /\ full \in Nat /\ z >= len /\ z >= end
  <2>1. full \in Nat
    <3>1. n \in Nat /\ RowSize + 4 \in Nat
      BY <1>2, PanelSizes
    <3> HIDE DEF n
    <3> QED
      BY <3>1, Grid
  <2> HIDE DEF end, len, full
  <2> QED
    BY <1>2, <1>3, <2>1
<1>5. DOMAIN paper' = 1..z /\ Len(paper') = z
  <2>1. DOMAIN paper' = 1..z
    BY DEF FD!ClearWrite
  <2>2. \E f : paper' = [i \in 1..z |-> f[i]]
    <3>1. paper' = [i \in 1..z |-> paper'[i]]
      BY DEF FD!ClearWrite
    <3> QED
      BY <3>1, Zenon
  <2> HIDE DEF z
  <2>3. Len(paper') = z
    <3>1. PICK f : paper' = [i \in 1..z |-> f[i]]
      BY <2>2
    <3> DEFINE g == [i \in 1..z |-> f[i]]
    <3>2. Len(g) = z
      BY <1>4
    <3> HIDE DEF g
    <3> QED
      BY <3>1, <3>2, Zenon DEF g
  <2> QED
    BY <2>1, <2>3
<1>6. panel' = PanelGoes(panel, more, end, end_map, end_cur)
  <2>1. panel' = [panel EXCEPT !.todo = Tail(@), !.pos = end,
                               !.map = IF Len(todo) = 1 /\ @ = FD!None THEN FD!MapLength(Len(paper')) ELSE @,
                               !.cur = IF Len(todo) = 1 THEN 0 ELSE @]
    BY DEF FD!ClearWrite
  <2>2. FD!MapLength(Len(paper')) = z
    BY <1>5 DEF FD!MapLength
  <2> QED
    BY <2>1, <2>2 DEF PanelGoes, FD!None
<1>7. panel' \in PanelSet(n, more, end, end_map, end_cur)
  <2> HIDE DEF more, end, end_map, end_cur
  <2> QED
    BY <1>1, <1>6, PanelChanges
<1>8. Written(n, z)
  <2>1. len <= full /\ (len < full => len + 4 <= full)
    BY <1>1 DEF PanelFacts, Written
  <2> HIDE DEF end, len, full
  <2>2. z <= full /\ (z < full => z + 4 <= full)
    BY <1>2, <1>3, <1>4, <2>1
  <2> QED
    BY <2>2 DEF Written, full
<1>9. CASE Len(todo) = 1
  <2> DEFINE yes == TRUE
             no == FALSE
  <2>1. seen' = SeenErased(seen, none, yes, no)
    BY <1>9 DEF FD!ClearWrite, SeenErased
  <2>2. yes \in BOOLEAN /\ no \in BOOLEAN /\ (yes => ~no)
    OBVIOUS
  <2> HIDE DEF yes, no
  <2>3. seen' \in SeenSet(a, none, yes, no, seen.ops, seen.programs)
    BY <1>1, <2>1, SeenChanges, Zenon DEF a
  <2>4. more = none /\ end = full /\ z = full /\ end_cur = 0
    <3>1. len <= full
      BY <1>1 DEF PanelFacts, Written
    <3> HIDE DEF end, len, full, more
    <3> QED
      BY <1>2, <1>3, <1>4, <1>9, <3>1
  <2>5. Mapped(n, end_map, 0, z)
    <3>1. CASE panel.map = -1
      <4>1. end_map = z
        BY <1>9, <3>1
      <4>2. n * (RowSize + 3) <= full
        <5> DEFINE y == RowSize + 3
                   f == n * y
        <5>1. y \in Nat /\ RowSize + 4 = y + 1 /\ n \in Nat
          BY <1>2, PanelSizes
        <5>2. f \in Nat /\ full = f + n
          BY <5>1
        <5> HIDE DEF n, y, f, full
        <5>3. f <= full
          BY <5>1, <5>2
        <5> QED
          BY <5>3 DEF f, y
      <4> HIDE DEF z, n
      <4> QED
        BY <1>4, <2>4, <4>1, <4>2 DEF Mapped
    <3>2. CASE panel.map # -1
      <4>1. Mapped(n, panel.map, panel.cur, len) /\ end_map = panel.map
        BY <1>1, <3>2 DEF PanelFacts
      <4> HIDE DEF n, len, z
      <4> QED
        BY <1>2, <1>4, <4>1 DEF Mapped
    <3> QED
      BY <3>1, <3>2
  <2>6. PanelFacts(n, none, end, end_map, 0, z, a, yes, no)
    <3>1. 0 = a[1] * (RowSize + 3) + a[2] /\ a \in Nat \X Nat
      BY <1>2, PanelSizes
    <3> HIDE DEF n, end, end_map, z, a
    <3>2. end \in 0..z
      BY <1>3, <1>4
    <3> QED
      BY <1>2, <1>4, <1>8, <2>2, <2>5, <3>1, <3>2 DEF PanelFacts, none
  <2>7. panel' \in PanelSet(n, none, end, end_map, 0)
    BY <1>7, <2>4, Zenon
  <2> HIDE DEF n, none, end, end_map, z, a
  <2>8. PanelTurn(n, none, end, end_map, 0, z, a, none, yes, no, seen.ops, seen.programs)
    BY <1>5, <2>3, <2>6, <2>7 DEF PanelTurn
  <2> QED
    BY <2>8, PanelKept
<1>10. CASE Len(todo) # 1
  <2>1. seen' = seen
    BY <1>10 DEF FD!ClearWrite
  <2>2. seen' \in SeenSet(a, seen.cells, seen.fits, seen.out, seen.ops, seen.programs)
    BY <1>1, <2>1 DEF SeenShape, SeenIs, SeenSet
  <2>3. end_map = panel.map /\ end_cur = panel.cur
    BY <1>10
  <2>4. more # none /\ Clearing(n, more, end)
    BY <1>3, <1>10
  <2>5. Mapped(n, end_map, end_cur, z) \/ (end_map = -1 /\ end_cur = -1)
    <3>1. Mapped(n, panel.map, panel.cur, len) \/ (panel.map = -1 /\ panel.cur = -1)
      BY <1>1 DEF PanelFacts
    <3> HIDE DEF n, len, z, end_map, end_cur
    <3> QED
      BY <1>2, <1>4, <2>3, <3>1 DEF Mapped
  <2>6. PanelFacts(n, more, end, end_map, end_cur, z, a, seen.fits, seen.out)
    <3>1. end \in 0..z
      <4> HIDE DEF end, z
      <4> QED
        BY <1>3, <1>4
    <3>2. a \in Nat \X Nat /\ seen.fits \in BOOLEAN /\ seen.out \in BOOLEAN /\ (seen.fits => ~seen.out)
      BY <1>1 DEF PanelFacts
    <3> HIDE DEF n, more, end, end_map, end_cur, z, a
    <3> QED
      BY <1>2, <1>4, <1>8, <2>4, <2>5, <3>1, <3>2 DEF PanelFacts, none
  <2> HIDE DEF n, more, end, end_map, end_cur, z, a
  <2>7. PanelTurn(n, more, end, end_map, end_cur, z, a, seen.cells, seen.fits, seen.out, seen.ops, seen.programs)
    BY <1>5, <1>7, <2>2, <2>6 DEF PanelTurn
  <2> QED
    BY <2>7, PanelKept
<1> QED
  BY <1>9, <1>10

LEMMA PanelSets ==
  ASSUME PanelInv, NEW row \in 0..panel.rows, NEW col \in {0, RowSize - 1, RowSize}, FD!SetCursorPos(row, col)
  PROVE  PanelInv'
<1> DEFINE n == panel.rows
           a == <<row, col>>
           u == seen.ops + 1
           len == Len(paper)
           c == row * (RowSize + 3) + col
<1>1. /\ PanelShape(panel) /\ SeenShape(seen) /\ DOMAIN paper = 1..len
      /\ PanelFacts(n, panel.todo, panel.pos, panel.map, panel.cur, len, seen.at, seen.fits, seen.out)
  BY DEF PanelInv
<1>2. /\ panel.todo = <<>> /\ panel.map # -1 /\ paper' = paper
      /\ seen' = SeenStarts(seen, a, u) /\ panel' = PanelMoves(panel, c)
  BY DEF FD!SetCursorPos, FD!Ready, FD!Idle, FD!None, FD!RowAt, SeenStarts, PanelMoves
<1>3. seen' \in SeenSet(a, seen.cells, seen.fits, seen.out, u, seen.programs) /\ panel' \in PanelSet(n, panel.todo, panel.pos, panel.map, c)
  <2> HIDE DEF a, u, c
  <2> QED
    BY <1>1, <1>2, SeenChanges, PanelChanges, Zenon
<1>4. row \in Nat /\ col \in Nat /\ a \in Nat \X Nat /\ a[1] = row /\ a[2] = col
  <2>1. row \in Nat
    BY <1>1 DEF PanelFacts
  <2>2. col \in Nat
    BY PanelSizes
  <2> QED
    BY <2>1, <2>2
<1>5. c \in Nat
  <2>1. row * (RowSize + 3) \in Nat
    BY <1>4, PanelSizes, Grid
  <2> QED
    BY <1>4, <2>1
<1>6. c = a[1] * (RowSize + 3) + a[2]
  BY <1>4
<1> HIDE DEF a, c
<1>7. Mapped(n, panel.map, c, len)
  BY <1>1, <1>2, <1>5 DEF PanelFacts, Mapped
<1>8. PanelFacts(n, panel.todo, panel.pos, panel.map, c, len, a, seen.fits, seen.out)
  <2> HIDE DEF n, len
  <2> QED
    BY <1>1, <1>2, <1>4, <1>6, <1>7 DEF PanelFacts
<1>9. PanelTurn(n, panel.todo, panel.pos, panel.map, c, len, a, seen.cells, seen.fits, seen.out, u, seen.programs)
  BY <1>1, <1>2, <1>3, <1>8 DEF PanelTurn
<1> QED
  BY <1>9, PanelKept

LEMMA PanelDies ==
  ASSUME PanelInv, FD!Die PROVE PanelInv'
<1> DEFINE n == panel.rows
           none == <<>>
           m == -1
           len == Len(paper)
           v == seen.programs + 1
           c == IF panel.todo = <<>> THEN seen.cells
                ELSE FD!Restrict(seen.cells, {p \in DOMAIN seen.cells : FD!RowAt(p[1]) + p[2] >= panel.pos})
<1>1. /\ PanelShape(panel) /\ SeenShape(seen) /\ DOMAIN paper = 1..len
      /\ PanelFacts(n, panel.todo, panel.pos, panel.map, panel.cur, len, seen.at, seen.fits, seen.out)
  BY DEF PanelInv
<1>2. paper' = paper /\ panel' = PanelGoes(panel, none, 0, m, m) /\ seen' = SeenRestarts(seen, v, c)
  BY DEF FD!Die, FD!Idle, FD!None, PanelGoes, SeenRestarts
<1>3. m = -1 /\ none = <<>>
  OBVIOUS
<1> HIDE DEF none, m, v, c
<1>4. panel' \in PanelSet(n, none, 0, m, m) /\ seen' \in SeenSet(seen.at, c, seen.fits, seen.out, seen.ops, v)
  BY <1>1, <1>2, PanelChanges, SeenChanges, Zenon
<1>5. PanelFacts(n, none, 0, m, m, len, seen.at, seen.fits, seen.out)
  <2> HIDE DEF n, len
  <2> QED
    BY <1>1, <1>3 DEF PanelFacts
<1>6. PanelTurn(n, none, 0, m, m, len, seen.at, c, seen.fits, seen.out, seen.ops, v)
  BY <1>1, <1>2, <1>4, <1>5 DEF PanelTurn
<1> QED
  BY <1>6, PanelKept

LEMMA PanelPrints ==
  ASSUME PanelInv, NEW text, Len(text) \in Nat, FD!PrintText(text)
  PROVE  PanelInv'
<1> DEFINE n == panel.rows
           l == Len(text)
           k == IF l > RowSize THEN RowSize ELSE l
           cur == panel.cur
           map == panel.map
           len == Len(paper)
           at == seen.at
           fit == at[1] < n /\ at[2] + l <= RowSize
           far == cur + k + 1 > map
           stays == seen.fits /\ fit
           leaves == seen.out \/ far
           x == at[2] + l
           a == [at EXCEPT ![2] = x]
           u == seen.ops + 1
           w == RowSize + 3
           text_cells == [p \in {at[1]} \X (at[2]..(at[2] + k - 1)) |-> text[p[2] - at[2] + 1]]
           other_cells == FD!Restrict(seen.cells, DOMAIN seen.cells \ ({at[1]} \X (at[2]..(at[2] + k))))
           c == [p \in DOMAIN text_cells \cup DOMAIN other_cells |->
                   IF p \in DOMAIN text_cells THEN text_cells[p] ELSE other_cells[p]]
<1>1. /\ PanelShape(panel) /\ SeenShape(seen) /\ DOMAIN paper = 1..len
      /\ PanelFacts(n, panel.todo, panel.pos, map, cur, len, at, seen.fits, seen.out)
  BY DEF PanelInv
<1>2. panel.todo = <<>> /\ map # -1
  BY DEF FD!PrintText, FD!Ready, FD!Idle, FD!None
<1>3. DOMAIN paper' = DOMAIN paper /\ \E f : paper' = [i \in DOMAIN paper |-> f[i]]
  <2>1. DOMAIN paper' = DOMAIN paper
    BY DEF FD!PrintText
  <2>2. paper' = [i \in DOMAIN paper |-> paper'[i]]
    BY Zenon DEF FD!PrintText
  <2> QED
    BY <2>1, <2>2
<1>4. panel' = PanelMoves(panel, cur + l)
  BY DEF FD!PrintText, PanelMoves
<1>5. seen' = SeenPrints(seen, x, u, stays, c, leaves)
  BY DEF FD!PrintText, SeenPrints
<1>6. Len(paper') = len /\ DOMAIN paper' = 1..len
  <2>1. PICK f : paper' = [i \in 1..len |-> f[i]]
    BY <1>1, <1>3
  <2>2. len \in Nat
    BY <1>1 DEF PanelFacts
  <2> DEFINE g == [i \in 1..len |-> f[i]]
  <2> HIDE DEF len
  <2>3. Len(g) = len
    BY <2>2
  <2> HIDE DEF g
  <2> QED
    BY <1>1, <1>3, <2>1, <2>3, Zenon DEF g
<1>7. /\ at \in Nat \X Nat /\ n \in Nat \ {0} /\ len \in Nat /\ panel.pos \in 0..len /\ Written(n, len)
      /\ Mapped(n, map, cur, len) /\ cur = at[1] * w + at[2]
      /\ seen.fits \in BOOLEAN /\ seen.out \in BOOLEAN /\ (seen.fits => ~seen.out)
  BY <1>1, <1>2 DEF PanelFacts
<1>8. at[1] \in Nat /\ at[2] \in Nat /\ x \in Nat /\ w \in Nat /\ at[1] * w \in Nat /\ cur \in Nat /\ map \in Nat /\ n * w <= map
      /\ k \in Nat /\ k <= l /\ l \in Nat /\ RowSize \in Nat /\ w = RowSize + 3
  <2>1. at[1] \in Nat /\ at[2] \in Nat /\ w \in Nat /\ RowSize \in Nat /\ w = RowSize + 3
    BY <1>7, PanelSizes
  <2>2. at[1] * w \in Nat
    BY <2>1, Grid
  <2>3. cur \in Nat /\ map \in Nat /\ n * w <= map
    BY <1>7 DEF Mapped
  <2>4. k \in Nat /\ k <= l /\ l \in Nat
    BY <2>1
  <2> QED
    BY <2>1, <2>2, <2>3, <2>4
<1>9. fit => ~far
  <2> SUFFICES ASSUME fit PROVE ~far
    OBVIOUS
  <2>1. at[1] < n /\ at[2] + l <= RowSize
    OBVIOUS
  <2> DEFINE r == at[1]
             y == at[2]
             rw == r * w
             nw == n * w
  <2>2. nw \in Nat /\ rw + w <= nw
    BY <1>7, <1>8, <2>1, Grid, Zenon
  <2> HIDE DEF n, l, k, cur, map, w, r, y, rw, nw
  <2>3. cur = rw + y
    BY <1>7 DEF rw, r, y
  <2>4. rw \in Nat /\ y \in Nat /\ nw <= map /\ y + l <= RowSize
    BY <1>8, <2>1 DEF rw, r, y, nw
  <2>5. cur + k + 1 <= map
    BY <1>8, <2>2, <2>3, <2>4, SMTT(20), ZenonT(30)
  <2> QED
    BY <1>8, <2>5
<1>10. stays \in BOOLEAN /\ leaves \in BOOLEAN /\ (stays => ~leaves)
  <2> DEFINE f == seen.fits
             o == seen.out
  <2>1. f \in BOOLEAN /\ o \in BOOLEAN /\ (f => ~o)
    BY <1>7
  <2> HIDE DEF f, o, fit, far
  <2>2. (f /\ fit) \in BOOLEAN /\ (o \/ far) \in BOOLEAN /\ ((f /\ fit) => ~(o \/ far))
    BY <1>9, <2>1, Zenon
  <2> QED
    BY <2>2 DEF f, o
<1>11. a \in Nat \X Nat /\ a[1] = at[1] /\ a[2] = x
  <2> HIDE DEF x, at
  <2> QED
    BY <1>7, <1>8, AtMoves, Zenon
<1>12. cur + l \in Nat /\ cur + l = a[1] * w + a[2]
  <2> DEFINE rw == at[1] * w
             aw == a[1] * w
             y == at[2]
             e == cur + l
  <2>1. cur = rw + y /\ rw \in Nat /\ y \in Nat /\ l \in Nat
    BY <1>7, <1>8
  <2>2. aw = rw
    BY <1>11
  <2>3. a[2] = y + l
    BY <1>11
  <2> HIDE DEF rw, aw, y, l, cur, a, w
  <2>4. e = rw + (y + l) /\ e \in Nat
    BY <2>1
  <2>5. e = aw + a[2]
    BY <2>2, <2>3, <2>4
  <2> QED
    BY <2>4, <2>5 DEF aw
<1> DEFINE end == cur + l
<1> HIDE DEF stays, leaves, a, c, u, x, end
<1>13. panel' \in PanelSet(n, panel.todo, panel.pos, map, end)
  BY <1>1, <1>4, PanelChanges DEF end
<1>14. seen' \in SeenSet(a, c, stays, leaves, u, seen.programs)
  BY <1>1, <1>5, SeenChanges DEF a
<1>15. Mapped(n, map, end, len)
  BY <1>7, <1>12 DEF Mapped, end
<1>16. PanelFacts(n, panel.todo, panel.pos, map, end, len, a, stays, leaves)
  <2> HIDE DEF n, map, len, w
  <2>1. end = a[1] * (RowSize + 3) + a[2]
    BY <1>12 DEF w, end
  <2> QED
    BY <1>2, <1>7, <1>10, <1>11, <1>15, <2>1 DEF PanelFacts
<1>17. PanelTurn(n, panel.todo, panel.pos, map, end, len, a, c, stays, leaves, u, seen.programs)
  BY <1>6, <1>13, <1>14, <1>16 DEF PanelTurn
<1> QED
  BY <1>17, PanelKept

LEMMA PanelSteps ==
  ASSUME PanelInv, FD!Next PROVE PanelInv'
<1>1. CASE FD!Initialize \/ FD!Clear
  BY <1>1, PanelStarts
<1>2. CASE FD!ClearWrite
  BY <1>2, PanelWrites
<1>3. CASE FD!Die
  BY <1>3, PanelDies
<1>4. CASE \E row \in 0..panel.rows, col \in {0, RowSize - 1, RowSize} : FD!SetCursorPos(row, col)
  BY <1>4, PanelSets
<1>5. CASE \E n \in Lengths : FD!PrintText([i \in 1..n |-> IF seen.ops % 2 = 0 THEN "a" ELSE "b"])
  <2>1. PICK n \in Lengths : FD!PrintText([i \in 1..n |-> IF seen.ops % 2 = 0 THEN "a" ELSE "b"])
    BY <1>5, Zenon
  <2> DEFINE c == IF seen.ops % 2 = 0 THEN "a" ELSE "b"
             text == [i \in 1..n |-> c]
  <2>2. n \in Nat
    BY PanelSizes
  <2> HIDE DEF c
  <2>3. Len(text) = n
    BY <2>2
  <2>4. FD!PrintText(text)
    BY <2>1 DEF c
  <2> HIDE DEF text
  <2> QED
    BY <2>2, <2>3, <2>4, PanelPrints
<1> QED
  BY <1>1, <1>2, <1>3, <1>4, <1>5 DEF FD!Next

LEMMA PanelImplies ==
  ASSUME PanelInv PROVE FD!TypeOK /\ FD!PanelInside /\ FD!PanelWhole
<1> DEFINE n == panel.rows
           len == Len(paper)
           map == panel.map
           cur == panel.cur
<1>1. PanelFacts(n, panel.todo, panel.pos, map, cur, len, seen.at, seen.fits, seen.out)
  BY DEF PanelInv
<1>2. n \in Nat \ {0} /\ len \in Nat /\ panel.pos \in 0..len /\ Written(n, len)
      /\ (Mapped(n, map, cur, len) \/ (map = -1 /\ cur = -1)) /\ (seen.fits => ~seen.out)
  BY <1>1 DEF PanelFacts
<1>3. CASE map = -1 /\ cur = -1
  <2>1. FD!TypeOK
    BY <1>2, <1>3 DEF FD!TypeOK, FD!None
  <2> QED
    BY <1>2, <1>3, <2>1 DEF FD!PanelInside, FD!PanelWhole, FD!None
<1>4. CASE Mapped(n, map, cur, len)
  <2> DEFINE y == RowSize + 3
             f == n * y
             g == n * (RowSize + 4)
  <2>1. map \in Nat /\ cur \in Nat /\ map <= len /\ f <= map /\ (n < 4 => map = g)
    BY <1>4 DEF Mapped
  <2>2. f \in Nat /\ f >= 1
    <3>1. y \in Nat /\ y >= 1 /\ n \in Nat /\ 0 < n
      BY <1>2, PanelSizes
    <3> HIDE DEF n, y
    <3>2. 0 * y + y <= n * y /\ 0 * y = 0 /\ n * y \in Nat
      BY <3>1, Grid
    <3> QED
      BY <3>1, <3>2
  <2>3. len <= g
    BY <1>2 DEF Written
  <2>4. n < 4 => len = g
    <3> HIDE DEF n, len, map, f, g
    <3> QED
      BY <1>2, <2>1, <2>2, <2>3
  <2> HIDE DEF f, g
  <2>5. FD!TypeOK
    BY <1>2, <2>1, <2>2 DEF FD!TypeOK, FD!None
  <2>6. FD!PanelInside
    BY <1>2 DEF FD!PanelInside
  <2>7. FD!PanelWhole
    BY <2>4, Zenon DEF FD!PanelWhole, g
  <2> QED
    BY <2>5, <2>6, <2>7
<1> QED
  BY <1>2, <1>3, <1>4

-----------------------------------------------------------------------------
(***************************************************************************)
(* The text of a file: the lines it is taken apart into follow one another *)
(* in the file as it was opened, and operator<< hands on what operator>>   *)
(* stored.                                                                 *)
(***************************************************************************)
\* Joining sequences one after the other.
LEMMA Flattens ==
  ASSUME NEW X, NEW s \in Seq(Seq(X)), Len(s) > 0
  PROVE  \E f : /\ f[1] = s[1] /\ \A i \in 2..Len(s) : f[i] = f[i - 1] \o s[i]
                /\ \A i \in 1..Len(s) : f[i] \in Seq(X)
                /\ TF!FlattenSeq(s) = f[Len(s)]
<1> DEFINE n == Len(s)
           V == Seq(X)
           Loop(f) == f = [i \in 1..n |-> IF i = 1 THEN s[i] ELSE f[i - 1] \o s[i]]
           c == CHOOSE f : Loop(f)
           step == [k \in 1..n |-> [v \in V |-> IF k = 1 THEN s[k] ELSE v \o s[k]]]
           none == <<>>
<1>1. n \in Nat /\ n >= 1 /\ none \in V /\ \A i \in 1..n : s[i] \in V
  OBVIOUS
<1>2. TF!FlattenSeq(s) = c[n]
  <2>1. n # 0
    BY <1>1
  <2> QED
    BY <2>1, Zenon DEF TF!FlattenSeq
<1>3. \A u \in V, v \in V : u \o v \in V
  OBVIOUS
<1> HIDE DEF n, c, V, none
<1>4. \A k \in 1..n : \A v \in V : step[k][v] = (IF k = 1 THEN s[k] ELSE v \o s[k]) /\ step[k][v] \in V
  BY <1>1, <1>3
<1> HIDE DEF step
<1>5. PICK g \in [0..n -> V] : Turns(g, n, none, step)
  BY <1>1, <1>4, TurnsDefine, Zenon
<1>6. \A i \in 1..n : g[i] = (IF i = 1 THEN s[i] ELSE g[i - 1] \o s[i]) /\ g[i] \in V
  <2> SUFFICES ASSUME NEW i \in 1..n PROVE g[i] = (IF i = 1 THEN s[i] ELSE g[i - 1] \o s[i]) /\ g[i] \in V
    OBVIOUS
  <2>1. i \in 0..n /\ i - 1 \in 0..n
    BY <1>1
  <2>2. g[i] \in V /\ g[i - 1] \in V
    BY <1>5, <2>1, Zenon
  <2>3. g[i] = step[i][g[i - 1]]
    BY <1>5 DEF Turns
  <2> QED
    BY <1>4, <2>2, <2>3
<1> DEFINE h == [i \in 1..n |-> g[i]]
<1>7. \A i \in 1..n : h[i] = g[i]
  OBVIOUS
<1>8. Loop(h)
  <2>1. \A i \in 1..n : h[i] = IF i = 1 THEN s[i] ELSE h[i - 1] \o s[i]
    <3> SUFFICES ASSUME NEW i \in 1..n PROVE h[i] = IF i = 1 THEN s[i] ELSE h[i - 1] \o s[i]
      OBVIOUS
    <3>1. i = 1 \/ i - 1 \in 1..n
      BY <1>1
    <3> HIDE DEF h
    <3> QED
      BY <1>6, <1>7, <3>1
  <2> QED
    BY <2>1, Zenon
<1> HIDE DEF h
<1>9. Loop(c)
  <2> HIDE DEF Loop
  <2> QED
    BY <1>8 DEF c
<1>10. \A i \in 1..n : c[i] = IF i = 1 THEN s[i] ELSE c[i - 1] \o s[i]
  BY <1>9, Zenon
<1> HIDE DEF Loop
<1>11. \A i \in 1..n : c[i] \in V
  <2> DEFINE G == {i \in 0..n : i = 0 \/ c[i] \in V}
  <2>1. 0 \in G
    BY <1>1
  <2>2. \A k \in 1..n : k - 1 \in G => k \in G
    <3> SUFFICES ASSUME NEW k \in 1..n, k - 1 \in G PROVE k \in G
      OBVIOUS
    <3>1. k = 1 \/ c[k - 1] \in V
      OBVIOUS
    <3>2. c[k] \in V
      BY <1>1, <1>3, <1>10, <3>1, Zenon
    <3> QED
      BY <3>2
  <2> HIDE DEF G
  <2>3. \A k \in 0..n : k \in G
    BY <1>1, <2>1, <2>2, CountsUp, Zenon
  <2> QED
    BY <2>3 DEF G
<1>12. c[1] = s[1] /\ \A i \in 2..n : c[i] = c[i - 1] \o s[i]
  <2>1. 1 \in 1..n /\ \A i \in 2..n : i \in 1..n /\ i # 1
    BY <1>1
  <2> QED
    BY <1>10, <2>1, Zenon
<1> QED
  BY <1>2, <1>11, <1>12, Zenon DEF n, V

LEMMA SameCount == \A S : TF!Cardinality(S) = Cardinality(S)
BY DEF TF!Cardinality, Cardinality

\* Consecutive pieces of a text, joined.
LEMMA TextJoins ==
  ASSUME NEW X, NEW s \in Seq(Seq(X)), NEW t \in Seq(X), NEW c, Consecutive(s, t, c)
  PROVE  TF!FlattenSeq(s) = SubSeq(t, 1, c[Len(s)])
<1>1. CASE Len(s) = 0
  <2>1. TF!FlattenSeq(s) = s
    BY <1>1, Zenon DEF TF!FlattenSeq
  <2>2. c[0] = 0
    BY DEF Consecutive
  <2>3. s = <<>> /\ SubSeq(t, 1, 0) = <<>>
    BY <1>1
  <2> QED
    BY <1>1, <2>1, <2>2, <2>3
<1>2. CASE Len(s) # 0
  <2>1. Len(s) > 0
    BY <1>2
  <2>2. PICK f : /\ f[1] = s[1] /\ \A i \in 2..Len(s) : f[i] = f[i - 1] \o s[i]
                 /\ TF!FlattenSeq(s) = f[Len(s)]
    BY <2>1, Flattens, Zenon
  <2>3. f[Len(s)] = SubSeq(t, 1, c[Len(s)])
    BY <2>1, <2>2, PiecesJoin, Zenon
  <2> QED
    BY <2>2, <2>3, Zenon
<1> QED
  BY <1>1, <1>2

\* ----- columns
LEMMA ColumnsSplit ==
  ASSUME NEW line \in Seq(Glyphs), line # <<>>, line[Len(line)] = "n"
  PROVE  LET cols == TF!splitString(line) IN
         /\ \A c \in DOMAIN cols : \A i \in DOMAIN cols[c] : cols[c][i] # ","
         /\ TF!FlattenSeq([c \in DOMAIN cols |-> IF c = 1 THEN cols[c] ELSE <<",">> \o cols[c]]) = SubSeq(line, 1, Len(line) - 1)
<1> DEFINE comma == ","
           S == Places(line, comma)
           cols == TF!splitString(line)
           parts == Led(cols, comma)
           c == Borders(line, comma)
<1>1. S = {i \in DOMAIN line : line[i] = ","}
  BY DEF Places
<1>2. TF!Commas(line) = Cardinality(S)
  BY <1>1, SameCount, Zenon DEF TF!Commas
<1>3. \A k : TF!Comma(line, k) = Cut(S, k)
  BY Zenon DEF TF!Comma, TF!Cardinality, Cardinality, Cut, Nth, Rank, Places
<1>4. cols = Split(line, comma)
  <2> DEFINE l == Len(line)
             A(k) == SubSeq(line, TF!Comma(line, k - 1) + 1, IF k <= TF!Commas(line) THEN TF!Comma(line, k) - 1 ELSE l - 1)
             B(k) == SubSeq(line, Cut(S, k - 1) + 1, IF k <= Cardinality(S) THEN Cut(S, k) - 1 ELSE l - 1)
  <2>1. cols = [k \in 1..(TF!Commas(line) + 1) |-> A(k)] /\ Split(line, comma) = [k \in 1..(Cardinality(S) + 1) |-> B(k)]
    BY Zenon DEF TF!splitString, Split
  <2> HIDE DEF S, l, cols
  <2>2. ASSUME NEW k PROVE A(k) = B(k)
    <3>1. TF!Comma(line, k - 1) = Cut(S, k - 1) /\ TF!Comma(line, k) = Cut(S, k) /\ TF!Commas(line) = Cardinality(S)
      BY <1>2, <1>3
    <3> QED
      BY <3>1, Zenon
  <2> HIDE DEF A, B
  <2> QED
    BY <1>2, <2>1, <2>2, Zenon
<1>5. comma \in Glyphs /\ line[Len(line)] # comma /\ Len(line) > 0
  <2>1. comma \in Glyphs /\ "n" # ","
    BY Zenon DEF Glyphs
  <2>2. Len(line) > 0
    OBVIOUS
  <2> QED
    BY <2>1, <2>2, Zenon
<1>6. comma = ","
  OBVIOUS
<1> HIDE DEF comma, cols, parts, c
<1>7. /\ \A k \in DOMAIN cols : \A i \in DOMAIN cols[k] : cols[k][i] # comma
      /\ parts \in Seq(Seq(Glyphs)) /\ Len(parts) > 0 /\ Consecutive(parts, line, c) /\ c[Len(parts)] = Len(line) - 1
  BY <1>4, <1>5, SplitExact DEF parts, c
<1>8. TF!FlattenSeq(parts) = SubSeq(line, 1, Len(line) - 1)
  BY <1>7, TextJoins
<1>9. parts = [k \in DOMAIN cols |-> IF k = 1 THEN cols[k] ELSE <<",">> \o cols[k]]
  BY <1>6, Zenon DEF parts, Led
<1>10. \A k \in DOMAIN cols : \A i \in DOMAIN cols[k] : cols[k][i] # ","
  BY <1>6, <1>7, Zenon
<1> QED
  BY <1>8, <1>9, <1>10, Zenon DEF cols

\* ----- what came back
Ends(d, crlf) == {i \in DOMAIN d : d[i] = IF crlf THEN "r" ELSE "n"}
LineFeedLast(l) == \A i \in DOMAIN l : l[i] = "n" => i = Len(l)

ResultShape(r) == r = [lines |-> r.lines, moved |-> r.moved, steps |-> r.steps, sent |-> r.sent, from |-> r.from]

\* The lines are consecutive pieces of the file as it was opened; each but the last has
\* an ending of its own.
Lined(lines, d, r) ==
  /\ r.size = Len(d) /\ r.count = Cardinality(Ends(d, r.crlf)) + 1
  /\ \E c : Consecutive(lines, d, c) /\ c[Len(lines)] = r.at
  /\ Len(lines) <= Rank(Ends(d, r.crlf), r.at) + IF r.at = r.size THEN 1 ELSE 0
  /\ ~r.crlf => \A k \in DOMAIN lines : LineFeedLast(lines[k])

\* operator>> was the last step.
StreamInto(kind, d, from, sent) == kind = "file" /\ from \in Nat /\ sent = <<"a">> /\ d = TF!Put(<<>>, from, sent)

TextInv ==
  /\ ResultShape(result)
  /\ result.lines \in Seq(Seq(Glyphs)) /\ \A k \in DOMAIN result.lines : result.lines[k] # <<>>
  /\ file.kind # "text" => result.lines = <<>> /\ ~result.moved
  /\ file.kind = "text" /\ ~result.moved => Lined(result.lines, disk, reader)
  /\ result.from # TF!NoMap => StreamInto(file.kind, disk, result.from, result.sent)

LEMMA TextBegins == ASSUME TF!Init PROVE TextInv
<1> DEFINE none == <<>>
           no == FALSE
           from == TF!NoMap
<1>1. result = [lines |-> none, moved |-> no, steps |-> 0, sent |-> none, from |-> from]
  BY DEF TF!Init
<1>2. file.kind = "closed" /\ none \in Seq(Seq(Glyphs)) /\ Len(none) = 0 /\ ~no /\ DOMAIN none = {}
  BY DEF TF!Init, TF!Closed
<1> HIDE DEF none, no, from
<1>3. ResultShape(result) /\ result.lines = none /\ result.moved = no /\ result.from = from
  BY <1>1 DEF ResultShape
<1> QED
  BY <1>2, <1>3 DEF TextInv, from, none

\* ----- the steps of a File
LEMMA ResultSteps ==
  ASSUME ResultShape(result), result' = TF!Step
  PROVE  ResultShape(result') /\ result'.lines = result.lines /\ result'.moved = result.moved /\ result'.from = TF!NoMap
<1> DEFINE u == result.steps + 1
           m == TF!NoMap
           r == result'
<1>1. r = [result EXCEPT !.steps = u, !.from = m]
  BY DEF TF!Step
<1> HIDE DEF u, m, r
<1>2. r = [lines |-> result.lines, moved |-> result.moved, steps |-> u, sent |-> result.sent, from |-> m]
  BY <1>1, Zenon DEF ResultShape
<1>3. ResultShape(r) /\ r.lines = result.lines /\ r.moved = result.moved /\ r.from = m
  BY <1>2 DEF ResultShape
<1> QED
  BY <1>3 DEF m, r

LEMMA FileStepText ==
  ASSUME TextInv, file.kind = "file", file'.kind # "text", result' = TF!Step
  PROVE  TextInv'
<1>1. ResultShape(result') /\ result'.lines = result.lines /\ result'.moved = result.moved /\ result'.from = TF!NoMap
  BY ResultSteps DEF TextInv
<1> QED
  BY <1>1 DEF TextInv

LEMMA FileStreams ==
  ASSUME TextInv, FileInv, TF!StreamIn(<<"a">>)
  PROVE  TextInv'
<1> DEFINE d == <<"a">>
           p == file.pos
           u == result.steps + 1
           r == result'
<1>1. /\ file.kind = "file" /\ file' = [file EXCEPT !.pos = p + Len(d)] /\ disk' = TF!Put(<<>>, p, d)
      /\ r = [result EXCEPT !.steps = u, !.from = p, !.sent = d]
  <2>1. TF!Step = [result EXCEPT !.steps = u, !.from = TF!NoMap]
    BY DEF TF!Step
  <2>2. r = [TF!Step EXCEPT !.sent = d, !.from = p]
    BY DEF TF!StreamIn
  <2> DEFINE m == TF!NoMap
  <2> HIDE DEF u, p, d, r, m
  <2>3. r = [[result EXCEPT !.steps = u, !.from = m] EXCEPT !.sent = d, !.from = p]
    BY <2>1, <2>2 DEF m
  <2>4. ResultShape(result)
    BY DEF TextInv
  <2>5. r = [result EXCEPT !.steps = u, !.from = p, !.sent = d]
    BY <2>3, <2>4, Zenon DEF ResultShape
  <2> QED
    BY <2>5 DEF TF!StreamIn, TF!Raw, TF!Truncated, d, p
<1>2. p \in Nat /\ file'.kind = "file"
  BY <1>1, FileFields, FileShape
<1>3. d = <<"a">>
  OBVIOUS
<1> HIDE DEF u, p, d, r
<1>4. r = [lines |-> result.lines, moved |-> result.moved, steps |-> u, sent |-> d, from |-> p]
  BY <1>1, Zenon DEF TextInv, ResultShape
<1>5. ResultShape(r) /\ r.lines = result.lines /\ r.moved = result.moved /\ r.from = p /\ r.sent = d
  BY <1>4 DEF ResultShape
<1>6. StreamInto(file'.kind, disk', p, d)
  BY <1>1, <1>2, <1>3 DEF StreamInto
<1> QED
  BY <1>1, <1>2, <1>5, <1>6 DEF TextInv, r

LEMMA TextFileSteps ==
  ASSUME TextInv, FileInv,
         \/ TF!Close \/ TF!ReadAll
         \/ \E w \in {"SET", "CURRENT", "END"}, n \in 0..1 : TF!Seek(w, n)
         \/ \E n \in 0..2 : TF!Read(n) \/ TF!MapFile(n)
         \/ TF!Write(<<"a">>)
  PROVE  TextInv'
<1>1. file.kind = "file" /\ result' = TF!Step
  BY DEF TF!Close, TF!ReadAll, TF!Seek, TF!Read, TF!MapFile, TF!Write, TF!Raw
<1>2. file'.kind # "text"
  <2>1. CASE TF!Close
    BY <2>1 DEF TF!Close, TF!Closed
  <2>2. CASE ~TF!Close
    <3>1. \E p : file' \in {file, [file EXCEPT !.pos = p], [file EXCEPT !.map = p]}
      <4>1. CASE TF!ReadAll
        BY <4>1, Zenon DEF TF!ReadAll
      <4>2. CASE \E w \in {"SET", "CURRENT", "END"}, n \in 0..1 : TF!Seek(w, n)
        BY <4>2, Zenon DEF TF!Seek
      <4>3. CASE \E n \in 0..2 : TF!Read(n) \/ TF!MapFile(n)
        <5>1. PICK n \in 0..2 : TF!Read(n) \/ TF!MapFile(n)
          BY <4>3
        <5> DEFINE q == IF file.pos >= Len(disk) THEN file.pos ELSE IF file.pos + n > Len(disk) THEN Len(disk) ELSE file.pos + n
                   m == IF n = 0 THEN Len(disk) ELSE n
        <5>2. file' \in {file, [file EXCEPT !.pos = q], [file EXCEPT !.map = m]}
          <6>1. TF!Read(n) => file' = [file EXCEPT !.pos = q]
            BY DEF TF!Read
          <6>2. TF!MapFile(n) => file' = file \/ file' = [file EXCEPT !.map = m]
            BY DEF TF!MapFile
          <6> QED
            BY <5>1, <6>1, <6>2
        <5> HIDE DEF q, m
        <5> QED
          BY <5>2
      <4>4. CASE TF!Write(<<"a">>)
        BY <4>4, Zenon DEF TF!Write
      <4> QED
        BY <2>2, <4>1, <4>2, <4>3, <4>4
    <3>2. PICK p : file' \in {file, [file EXCEPT !.pos = p], [file EXCEPT !.map = p]}
      BY <3>1
    <3> QED
      BY <1>1, <3>2, FileShape, Zenon
  <2> QED
    BY <2>1, <2>2
<1> QED
  BY <1>1, <1>2, FileStepText

LEMMA TextOpens == ASSUME TextInv, TF!Open("R") \/ TF!Open("W") \/ TF!Open("RW") PROVE TextInv'
<1>1. file.kind = "closed" /\ file'.kind = "file" /\ result' = result
  BY Zenon DEF TF!Open, TF!Closed
<1> QED
  BY <1>1 DEF TextInv, ResultShape, StreamInto

LEMMA TextOpensText == ASSUME TextInv, FileInv, TF!OpenText PROVE TextInv'
<1> DEFINE n == Len(disk)
           q == TF!Count("n") + 1
           b == TF!Count("r") > 0 /\ TF!Count("n") > 0
           k == "text"
           none == <<>>
           x == reader'
           y == disk'
<1>1. /\ file.kind = "closed" /\ file'.kind = k /\ result' = result /\ x = [at |-> 0, size |-> n, count |-> q, crlf |-> b]
      /\ y = disk /\ n \in Nat /\ n > 0 /\ k = "text"
      /\ TF!Count("r") > 0 /\ TF!Count("n") > 0 => TF!Count("r") = TF!Count("n")
  <2>1. n \in Nat /\ n > 0
    BY DEF TF!OpenText, FileInv
  <2> QED
    BY <2>1 DEF TF!OpenText, TF!Closed
<1>2. b \in BOOLEAN
  OBVIOUS
<1>3. Cardinality(Ends(disk, b)) = TF!Count("n")
  <2>1. \A c : TF!Count(c) = Cardinality({i \in DOMAIN disk : disk[i] = c})
    BY SameCount DEF TF!Count
  <2>2. CASE b
    <3>1. Ends(disk, b) = {i \in DOMAIN disk : disk[i] = "r"}
      BY <2>2 DEF Ends
    <3> QED
      BY <1>1, <2>1, <2>2, <3>1
  <2>3. CASE ~b
    <3>1. Ends(disk, b) = {i \in DOMAIN disk : disk[i] = "n"}
      BY <2>3 DEF Ends
    <3> QED
      BY <2>1, <3>1
  <2> QED
    BY <2>2, <2>3
<1>4. result.lines = none /\ ~result.moved /\ Len(none) = 0 /\ DOMAIN none = {}
  BY <1>1 DEF TextInv
<1>5. Positions(Ends(disk, b), n)
  <2>1. DOMAIN disk = 1..n
    BY DEF FileInv
  <2>2. Ends(disk, b) \subseteq DOMAIN disk
    BY DEF Ends
  <2> HIDE DEF b, n
  <2> QED
    BY <1>1, <2>1, <2>2 DEF Positions
<1> HIDE DEF b, n, q, k, x, y
<1>6. x.at = 0 /\ x.size = n /\ x.count = q /\ x.crlf = b
  BY <1>1
<1>7. Lined(none, disk, x)
  <2>1. Rank(Ends(disk, b), 0) = 0
    BY <1>5, RankFacts
  <2> DEFINE c == [i \in 0..0 |-> 0]
  <2>2. Consecutive(none, disk, c) /\ c[Len(none)] = 0
    <3>1. c \in [0..0 -> Nat] /\ c[0] = 0 /\ 1..0 = {}
      OBVIOUS
    <3> HIDE DEF c, none
    <3> QED
      BY <1>4, <3>1 DEF Consecutive
  <2> HIDE DEF c, none
  <2>3. 0 <= Rank(Ends(disk, x.crlf), x.at) + IF x.at = x.size THEN 1 ELSE 0
    BY <1>1, <1>6, <2>1
  <2>4. x.count = Cardinality(Ends(disk, x.crlf)) + 1
    BY <1>3, <1>6 DEF q
  <2>5. \E e : Consecutive(none, disk, e) /\ e[Len(none)] = x.at
    BY <1>6, <2>2
  <2>6. x.size = Len(disk)
    BY <1>6 DEF n
  <2> QED
    BY <1>4, <2>3, <2>4, <2>5, <2>6 DEF Lined
<1>8. result.from = TF!NoMap
  BY <1>1 DEF TextInv, StreamInto
<1>9. Lined(result'.lines, disk', reader')
  BY <1>1, <1>4, <1>7 DEF x, y
<1>10. ResultShape(result') /\ result'.lines \in Seq(Seq(Glyphs)) /\ \A i \in DOMAIN result'.lines : result'.lines[i] # <<>>
  BY <1>1 DEF TextInv, ResultShape
<1> QED
  BY <1>1, <1>8, <1>9, <1>10 DEF TextInv

LEMMA TextChanges == ASSUME TextInv, TF!Changed PROVE TextInv'
<1> DEFINE yes == TRUE
           r == result'
<1>1. file.kind = "text" /\ file' = file /\ r = [result EXCEPT !.moved = yes] /\ yes
  BY DEF TF!Changed
<1> HIDE DEF yes, r
<1>2. r = [lines |-> result.lines, moved |-> yes, steps |-> result.steps, sent |-> result.sent, from |-> result.from]
  BY <1>1, Zenon DEF TextInv, ResultShape
<1>3. ResultShape(r) /\ r.lines = result.lines /\ r.moved = yes /\ r.from = result.from
  BY <1>2 DEF ResultShape
<1>4. result.from = TF!NoMap
  BY <1>1 DEF TextInv, StreamInto
<1> QED
  BY <1>1, <1>3, <1>4 DEF TextInv, r

LEMMA TextResets == ASSUME TextInv, FileInv, TF!Reset PROVE TextInv'
<1> DEFINE none == <<>>
           r == result'
           x == reader'
           n == Len(disk)
           crlf == reader.crlf
<1>1. file.kind = "text" /\ file' = file /\ r = [result EXCEPT !.lines = none] /\ disk' = disk
      /\ x = [reader EXCEPT !.at = 0, !.size = n]
  BY DEF TF!Reset
<1>2. none \in Seq(Seq(Glyphs)) /\ DOMAIN none = {} /\ Len(none) = 0 /\ n \in Nat
  BY DEF FileInv
<1> HIDE DEF none, r, x, n
<1>3. r = [lines |-> none, moved |-> result.moved, steps |-> result.steps, sent |-> result.sent, from |-> result.from]
  BY <1>1 DEF TextInv, ResultShape
<1>4. ResultShape(r) /\ r.lines = none /\ r.moved = result.moved /\ r.from = result.from
  BY <1>3 DEF ResultShape
<1>5. result.from = TF!NoMap
  BY <1>1 DEF TextInv, StreamInto
<1>6. x = [at |-> 0, size |-> n, count |-> reader.count, crlf |-> crlf]
  BY <1>1, Zenon DEF FileInv, ReaderShape, crlf
<1> HIDE DEF crlf
<1>7. x.at = 0 /\ x.size = n /\ x.count = reader.count /\ x.crlf = crlf
  BY <1>6
<1>8. ASSUME ~result.moved PROVE Lined(none, disk, x)
  <2>1. Lined(result.lines, disk, reader)
    BY <1>1, <1>8 DEF TextInv
  <2>2. x.count = Cardinality(Ends(disk, x.crlf)) + 1
    BY <1>7, <2>1 DEF Lined, crlf
  <2>3. Positions(Ends(disk, crlf), n)
    <3>1. DOMAIN disk = 1..n
      BY DEF FileInv, n
    <3>2. Ends(disk, crlf) \subseteq DOMAIN disk
      BY DEF Ends
    <3> QED
      BY <1>2, <3>1, <3>2 DEF Positions
  <2>4. Rank(Ends(disk, crlf), 0) = 0
    BY <2>3, RankFacts
  <2> DEFINE c == [i \in 0..0 |-> 0]
  <2>5. Consecutive(none, disk, c) /\ c[Len(none)] = 0
    <3>1. c \in [0..0 -> Nat] /\ c[0] = 0 /\ 1..0 = {}
      OBVIOUS
    <3> HIDE DEF c
    <3> QED
      BY <1>2, <3>1 DEF Consecutive
  <2> HIDE DEF c
  <2>6. 0 <= Rank(Ends(disk, x.crlf), x.at) + IF x.at = x.size THEN 1 ELSE 0
    BY <1>7, <2>4
  <2>7. \E e : Consecutive(none, disk, e) /\ e[Len(none)] = x.at
    BY <1>7, <2>5
  <2>8. x.size = Len(disk)
    BY <1>7 DEF n
  <2> QED
    BY <1>2, <2>2, <2>6, <2>7, <2>8 DEF Lined
<1> QED
  BY <1>1, <1>2, <1>4, <1>5, <1>8 DEF TextInv, r, x

\* The end of a line: behind the first ending from the reading position on, or the end
\* of the file when there is none.
LEMMA LineEnds ==
  ASSUME FileInv, reader.at < reader.size, reader.size <= Len(disk), NEW S, S = Ends(disk, reader.crlf)
  PROVE  LET end == TF!LineEnd(reader.at) IN
         /\ end \in Nat /\ reader.at < end /\ end <= reader.size
         /\ Rank(S, reader.at) + 1 <= Rank(S, end) \/ (end = reader.size /\ Rank(S, reader.at) <= Rank(S, end))
         /\ ~reader.crlf => \A i \in S : ~(reader.at < i /\ i < end)
<1> DEFINE at == reader.at
           size == reader.size
           hits == {i \in (at + 1)..size : disk[i] = IF reader.crlf THEN "r" ELSE "n"}
           hit == CHOOSE i \in hits : \A j \in hits : i <= j
           end == TF!LineEnd(at)
<1>0. at \in Nat /\ size \in Nat /\ at < size /\ size <= Len(disk) /\ Len(disk) \in Nat /\ DOMAIN disk = 1..Len(disk)
  BY DEF FileInv, ReaderShape
<1>1. end = IF hits = {} THEN size ELSE IF reader.crlf /\ hit < size THEN hit + 1 ELSE hit
  BY DEF TF!LineEnd
<1>2. \A i : i \in hits <=> i \in S /\ i \in Nat /\ at < i /\ i <= size
  BY <1>0 DEF Ends
<1>3. Positions(S, Len(disk))
  BY <1>0 DEF Ends, Positions
<1> HIDE DEF hits
<1>4. ASSUME hits # {} PROVE hit \in hits /\ \A j \in hits : hit <= j
  <2>1. hits \in SUBSET Nat
    BY <1>2
  <2>2. \E i \in hits : \A j \in hits : i <= j
    BY <1>4, <2>1, LeastElement
  <2> QED
    BY <2>2
<1> HIDE DEF hit, end, at, size
<1>5. \A i \in Nat : Rank(S, i) \in Nat
  BY <1>3, RankFacts
<1>6. CASE hits = {}
  <2>1. end = size
    BY <1>1, <1>6
  <2>2. Rank(S, at) <= Rank(S, end)
    BY <1>0, <1>3, <2>1, RankGrows
  <2>3. \A i \in S : ~(at < i /\ i < end)
    <3>1. \A i \in S : i \in Nat
      BY <1>3, RankFacts
    <3> QED
      BY <1>0, <1>2, <1>6, <2>1, <3>1
  <2>4. end \in Nat /\ at < end /\ end <= size
    BY <1>0, <2>1
  <2> QED
    BY <2>1, <2>2, <2>3, <2>4 DEF end, at, size
<1>7. CASE hits # {}
  <2>1. hit \in S /\ hit \in Nat /\ at < hit /\ hit <= size /\ \A j \in hits : hit <= j
    BY <1>2, <1>4, <1>7
  <2>2. end \in Nat /\ at < end /\ end <= size /\ hit <= end /\ (~reader.crlf => end = hit)
    BY <1>0, <1>1, <1>7, <2>1
  <2>3. Rank(S, hit) = Rank(S, hit - 1) + 1
    <3>1. hit \in Nat \ {0}
      BY <1>0, <2>1
    <3> QED
      BY <1>3, <2>1, <3>1, RankFacts
  <2>4. hit - 1 \in Nat /\ at <= hit - 1
    BY <1>0, <2>1
  <2>5. Rank(S, at) <= Rank(S, hit - 1)
    BY <1>0, <1>3, <2>4, RankGrows
  <2>6. Rank(S, hit) <= Rank(S, end)
    BY <1>3, <2>1, <2>2, RankGrows
  <2> DEFINE a == Rank(S, at)
             b == Rank(S, hit - 1)
             c == Rank(S, hit)
             d == Rank(S, end)
  <2>7. a \in Nat /\ b \in Nat /\ c \in Nat /\ d \in Nat
    BY <1>0, <1>5, <2>1, <2>2, <2>4, Zenon
  <2>8. a <= b /\ c = b + 1 /\ c <= d
    BY <2>3, <2>5, <2>6
  <2> HIDE DEF a, b, c, d
  <2>9. a + 1 <= d
    BY <2>7, <2>8
  <2>10. ~reader.crlf => \A i \in S : ~(at < i /\ i < end)
    <3>1. \A i \in S : i \in Nat
      BY <1>3, RankFacts
    <3> QED
      BY <1>0, <1>2, <2>1, <2>2, <3>1
  <2> QED
    BY <2>2, <2>9, <2>10 DEF end, at, size, a, d
<1> QED
  BY <1>6, <1>7

LEMMA PartOf ==
  ASSUME NEW X, NEW t \in Seq(X), NEW a \in Nat, NEW b \in Nat, a < b, b <= Len(t)
  PROVE  /\ SubSeq(t, a + 1, b) \in Seq(X) /\ Len(SubSeq(t, a + 1, b)) = b - a /\ b - a > 0
         /\ \A i \in 1..(b - a) : SubSeq(t, a + 1, b)[i] = t[a + i]
OBVIOUS

\* One more consecutive piece.
LEMMA PieceFollows ==
  ASSUME NEW X, NEW s \in Seq(Seq(X)), NEW t \in Seq(X), NEW c, Consecutive(s, t, c), NEW b \in Nat, c[Len(s)] <= b, b <= Len(t)
  PROVE  LET l == SubSeq(t, c[Len(s)] + 1, b)   z == Append(s, l) IN
         z \in Seq(Seq(X)) /\ Len(z) = Len(s) + 1 /\ \E e : Consecutive(z, t, e) /\ e[Len(z)] = b
<1> DEFINE n == Len(s)
           a == c[n]
           l == SubSeq(t, a + 1, b)
           z == Append(s, l)
           e == [k \in 0..(n + 1) |-> IF k <= n THEN c[k] ELSE b]
<1>1. n \in Nat /\ c \in [0..n -> Nat] /\ c[0] = 0 /\ a \in Nat
      /\ \A k \in 1..n : c[k - 1] <= c[k] /\ c[k] <= Len(t) /\ s[k] = SubSeq(t, c[k - 1] + 1, c[k])
  BY DEF Consecutive
<1>2. l \in Seq(X)
  BY <1>1
<1> HIDE DEF l
<1>3. z \in Seq(Seq(X)) /\ Len(z) = n + 1 /\ z[n + 1] = l /\ \A k \in 1..n : z[k] = s[k]
  BY <1>1, <1>2
<1>4. /\ \A k \in 0..n : e[k] = c[k]
      /\ e[n + 1] = b
      /\ e \in [0..(n + 1) -> Nat]
  <2>1. \A k \in 0..n : k <= n /\ k \in 0..(n + 1)
    BY <1>1
  <2>2. n + 1 \in 0..(n + 1) /\ ~(n + 1 <= n)
    BY <1>1
  <2>3. \A k \in 0..(n + 1) : (IF k <= n THEN c[k] ELSE b) \in Nat
    <3>1. \A k \in 0..(n + 1) : k <= n => k \in 0..n
      BY <1>1
    <3> QED
      BY <1>1, <3>1, Zenon
  <2> HIDE DEF n
  <2> QED
    BY <2>1, <2>2, <2>3
<1> HIDE DEF z, e, n
<1>5. Consecutive(z, t, e)
  <2>1. ASSUME NEW k \in 1..(n + 1) PROVE e[k - 1] <= e[k] /\ e[k] <= Len(t) /\ z[k] = SubSeq(t, e[k - 1] + 1, e[k])
    <3>1. CASE k = n + 1
      <4>1. k - 1 = n /\ n \in 0..n
        BY <1>1, <3>1
      <4>2. e[k - 1] = a /\ e[k] = b /\ z[k] = l
        BY <1>3, <1>4, <3>1, <4>1
      <4> QED
        BY <4>2 DEF l, n
    <3>2. CASE k # n + 1
      <4>1. k \in 1..n /\ k \in 0..n /\ k - 1 \in 0..n
        BY <1>1, <3>2
      <4>2. e[k - 1] = c[k - 1] /\ e[k] = c[k] /\ z[k] = s[k]
        BY <1>3, <1>4, <4>1, Zenon
      <4> QED
        BY <1>1, <4>1, <4>2, Zenon
    <3> QED
      BY <3>1, <3>2
  <2>2. e[0] = 0
    BY <1>1, <1>4
  <2> QED
    BY <1>3, <1>4, <2>1, <2>2 DEF Consecutive
<1> QED
  BY <1>3, <1>4, <1>5 DEF z, l, n

LEMMA TextReads == ASSUME TextInv, FileInv, TF!ReadLine PROVE TextInv'
<1> DEFINE at == reader.at
           end == TF!LineEnd(at)
           l == SubSeq(disk, at + 1, end)
           s == result.lines
           z == Append(s, l)
           r == result'
           x == reader'
           crlf == reader.crlf
           S == Ends(disk, crlf)
<1>1. /\ file.kind = "text" /\ file' = file /\ disk' = disk /\ at < reader.size /\ reader.size <= Len(disk)
      /\ r = [result EXCEPT !.lines = z] /\ x = [reader EXCEPT !.at = end]
  BY DEF TF!ReadLine
<1>2. /\ end \in Nat /\ at < end /\ end <= reader.size
      /\ Rank(S, at) + 1 <= Rank(S, end) \/ (end = reader.size /\ Rank(S, at) <= Rank(S, end))
      /\ ~crlf => \A i \in S : ~(at < i /\ i < end)
  BY <1>1, LineEnds
<1>3. at \in Nat /\ reader.size \in Nat /\ Len(disk) \in Nat /\ end <= Len(disk) /\ disk \in Seq(Glyphs) /\ DOMAIN disk = 1..Len(disk)
      /\ s \in Seq(Seq(Glyphs)) /\ Len(s) \in Nat /\ DOMAIN s = 1..Len(s)
  BY <1>1, <1>2 DEF FileInv, ReaderShape, TextInv
<1> HIDE DEF end
<1>4. l \in Seq(Glyphs) /\ Len(l) = end - at /\ Len(l) > 0 /\ \A i \in 1..Len(l) : l[i] = disk[at + i]
  <2> HIDE DEF at
  <2>1. /\ SubSeq(disk, at + 1, end) \in Seq(Glyphs) /\ Len(SubSeq(disk, at + 1, end)) = end - at /\ end - at > 0
        /\ \A i \in 1..(end - at) : SubSeq(disk, at + 1, end)[i] = disk[at + i]
    BY <1>2, <1>3, PartOf
  <2> QED
    BY <2>1
<1> HIDE DEF l
<1>5. z \in Seq(Seq(Glyphs)) /\ Len(z) = Len(s) + 1 /\ z[Len(s) + 1] = l /\ \A k \in 1..Len(s) : z[k] = s[k]
  BY <1>3, <1>4
<1> HIDE DEF z, r, x, s
<1>6. r = [lines |-> z, moved |-> result.moved, steps |-> result.steps, sent |-> result.sent, from |-> result.from]
  BY <1>1 DEF TextInv, ResultShape
<1>7. ResultShape(r) /\ r.lines = z /\ r.moved = result.moved /\ r.from = result.from
  BY <1>6 DEF ResultShape
<1>8. result.from = TF!NoMap
  BY <1>1 DEF TextInv, StreamInto
<1>9. x = [at |-> end, size |-> reader.size, count |-> reader.count, crlf |-> reader.crlf]
  BY <1>1 DEF FileInv, ReaderShape
<1>10. x.at = end /\ x.size = reader.size /\ x.count = reader.count /\ x.crlf = crlf
  BY <1>9
<1>11. \A k \in DOMAIN z : k \in 1..Len(s) \/ k = Len(s) + 1
  BY <1>3, <1>5
<1>12. \A k \in DOMAIN z : z[k] # <<>>
  <2>1. \A k \in 1..Len(s) : s[k] # <<>>
    BY <1>3, Zenon DEF TextInv, s
  <2>2. l # <<>>
    BY <1>4
  <2> QED
    BY <1>5, <1>11, <2>1, <2>2, Zenon
<1>13. ASSUME ~result.moved PROVE Lined(z, disk, x)
  <2>1. Lined(s, disk, reader)
    BY <1>1, <1>13 DEF TextInv, s
  <2>2. x.size = Len(disk) /\ x.count = Cardinality(Ends(disk, x.crlf)) + 1
    BY <1>10, <2>1 DEF Lined
  <2>3. \E e : Consecutive(z, disk, e) /\ e[Len(z)] = x.at
    <3>1. PICK c : Consecutive(s, disk, c) /\ c[Len(s)] = at
      BY <2>1 DEF Lined
    <3>2. at <= end
      BY <1>2, <1>3
    <3> QED
      BY <1>2, <1>3, <1>10, <3>1, <3>2, PieceFollows DEF z, l
  <2>4. Len(z) <= Rank(Ends(disk, x.crlf), x.at) + IF x.at = x.size THEN 1 ELSE 0
    <3> DEFINE a == Rank(S, at)
               b == Rank(S, end)
               n == Len(s)
    <3>1. n <= a + IF at = reader.size THEN 1 ELSE 0
      BY <2>1 DEF Lined
    <3>2. a \in Nat /\ b \in Nat /\ n \in Nat
      <4>1. Positions(S, Len(disk))
        BY <1>3 DEF Positions, Ends
      <4> QED
        BY <1>2, <1>3, <4>1, RankFacts, Zenon
    <3>3. a + 1 <= b \/ (end = reader.size /\ a <= b)
      BY <1>2
    <3> HIDE DEF a, b, n
    <3>4. n <= a
      BY <1>1, <1>3, <3>1, <3>2
    <3>5. n + 1 <= b + IF end = reader.size THEN 1 ELSE 0
      BY <3>2, <3>3, <3>4
    <3> QED
      BY <1>5, <1>10, <3>5 DEF n, b
  <2>5. ASSUME ~x.crlf PROVE \A k \in DOMAIN z : LineFeedLast(z[k])
    <3>1. \A k \in 1..Len(s) : LineFeedLast(s[k])
      BY <1>3, <1>10, <2>1, <2>5, Zenon DEF Lined
    <3>2. LineFeedLast(l)
      <4> SUFFICES ASSUME NEW i \in DOMAIN l, l[i] = "n", i # Len(l) PROVE FALSE
        BY DEF LineFeedLast
      <4>1. i \in 1..Len(l)
        BY <1>4
      <4>2. at + i \in DOMAIN disk /\ disk[at + i] = "n" /\ at < at + i /\ at + i < end
        BY <1>2, <1>3, <1>4, <4>1
      <4>3. at + i \in S
        BY <1>10, <2>5, <4>2 DEF Ends
      <4> QED
        BY <1>2, <1>10, <2>5, <4>2, <4>3
    <3> QED
      BY <1>5, <1>11, <3>1, <3>2, Zenon
  <2> QED
    BY <2>2, <2>3, <2>4, <2>5 DEF Lined
<1> QED
  BY <1>1, <1>5, <1>7, <1>8, <1>12, <1>13 DEF TextInv, r, x

LEMMA TextSteps == ASSUME TextInv, FileInv, TF!Next PROVE TextInv'
<1>1. ASSUME NEW f \in {"R", "W", "RW"}, TF!Open(f) PROVE TextInv'
  BY <1>1, TextOpens
<1>2. ASSUME NEW d \in {<<"a">>}, TF!Write(d) \/ TF!StreamIn(d) PROVE TextInv'
  <2>1. d = <<"a">>
    OBVIOUS
  <2> QED
    BY <1>2, <2>1, TextFileSteps, FileStreams
<1> QED
  BY <1>1, <1>2, TextOpensText, TextFileSteps, TextResets, TextReads, TextChanges DEF TF!Next

\* What operator<< puts out after operator>>.
LEMMA StreamedFrom ==
  ASSUME NEW p \in Nat
  PROVE  LET d == <<"a">> IN TF!Streamed(TF!Put(<<>>, p, d)) = IF p = 0 THEN d ELSE <<>>
<1> DEFINE a == "a"
           o == "0"
           none == <<>>
           d == <<a>>
           n == p + 1
           t == [i \in 1..n |-> IF i > p /\ i <= p + 1 THEN d[i - p] ELSE o]
           zeros == {i \in DOMAIN t : t[i] = o}
<1>0. Len(d) = 1 /\ d[1] = a /\ Len(none) = 0
  OBVIOUS
<1>1. TF!Put(none, p, d) = t
  <2>1. \A i : ~(i \in 1..n /\ i <= Len(none))
    BY <1>0
  <2>2. (IF p + Len(d) > Len(none) THEN p + Len(d) ELSE Len(none)) = n
    BY <1>0
  <2> DEFINE x(i) == IF i > p /\ i <= p + Len(d) THEN d[i - p] ELSE IF i <= Len(none) THEN none[i] ELSE o
             y(i) == IF i > p /\ i <= p + 1 THEN d[i - p] ELSE o
  <2>3. TF!Put(none, p, d) = [i \in 1..n |-> x(i)] /\ t = [i \in 1..n |-> y(i)]
    BY <2>2 DEF TF!Put
  <2>4. \A i \in 1..n : x(i) = y(i)
    BY <1>0, <2>1
  <2> HIDE DEF x, y, t, d, none
  <2> QED
    BY <2>3, <2>4
<1>2. a # o
  OBVIOUS
<1>3. DOMAIN t = 1..n /\ \A i \in 1..n : t[i] = IF i = n THEN a ELSE o
  <2>1. \A i \in 1..n : (i > p /\ i <= p + 1) <=> i = n
    OBVIOUS
  <2>2. n - p = 1
    OBVIOUS
  <2> HIDE DEF d, a, o
  <2> QED
    BY <1>0, <2>1, <2>2
<1>4. TF!Streamed(t) = IF zeros = {} THEN t ELSE SubSeq(t, 1, (CHOOSE i \in zeros : \A j \in zeros : i <= j) - 1)
  BY DEF TF!Streamed
<1>5. CASE p = 0
  <2>1. zeros = {}
    <3> HIDE DEF t, a, o
    <3> QED
      BY <1>2, <1>3, <1>5
  <2>2. t = d
    <3>1. t = [i \in 1..1 |-> d[i]]
      <4>1. \A i \in 1..1 : i > p /\ i <= p + 1 /\ i - p = i
        BY <1>5
      <4>2. n = 1
        BY <1>5
      <4> HIDE DEF d, o
      <4> QED
        BY <4>1, <4>2
    <3> HIDE DEF t
    <3>2. d = [i \in 1..1 |-> d[i]]
      BY <1>0
    <3> QED
      BY <3>1, <3>2
  <2> HIDE DEF t, zeros
  <2> QED
    BY <1>1, <1>4, <1>5, <2>1, <2>2
<1>6. CASE p # 0
  <2>1. 1 \in zeros /\ \A j \in zeros : j \in Nat /\ 1 <= j
    <3>1. 1 \in 1..n /\ 1 # n
      BY <1>6
    <3>2. \A j \in 1..n : j \in Nat /\ 1 <= j
      OBVIOUS
    <3> HIDE DEF t, a, o, n
    <3> QED
      BY <1>3, <3>1, <3>2
  <2> DEFINE first == CHOOSE i \in zeros : \A j \in zeros : i <= j
  <2> HIDE DEF zeros
  <2>2. first = 1
    <3>1. first \in zeros /\ \A j \in zeros : first <= j
      BY <2>1
    <3> HIDE DEF first
    <3> QED
      BY <2>1, <3>1
  <2>3. SubSeq(t, 1, first - 1) = <<>>
    <3> HIDE DEF t, first
    <3> QED
      BY <2>2
  <2> HIDE DEF t, first
  <2>4. TF!Streamed(t) = SubSeq(t, 1, first - 1)
    BY <1>4, <2>1 DEF first
  <2> QED
    BY <1>1, <1>6, <2>3, <2>4, Zenon
<1> QED
  BY <1>5, <1>6

\* Lines are whole, columns exact, and what was streamed in comes back.
LEMMA TextImplies == ASSUME TextInv, FileInv PROVE TF!LinesWhole /\ TF!ColumnsExact /\ TF!StreamedBack
<1> DEFINE s == result.lines
<1>1. disk \in Seq(Glyphs) /\ s \in Seq(Seq(Glyphs)) /\ \A k \in DOMAIN s : s[k] # <<>> /\ s[k] \in Seq(Glyphs)
  BY DEF FileInv, TextInv
<1>2. ASSUME file.kind = "text", ~result.moved
      PROVE  /\ TF!FlattenSeq(s) = SubSeq(disk, 1, reader.at) /\ Len(s) <= reader.count
             /\ ~reader.crlf => \A k \in DOMAIN s : LineFeedLast(s[k])
  <2> DEFINE S == Ends(disk, reader.crlf)
             a == Rank(S, reader.at)
             b == Cardinality(S)
  <2>1. Lined(s, disk, reader)
    BY <1>2 DEF TextInv
  <2>2. TF!FlattenSeq(s) = SubSeq(disk, 1, reader.at)
    <3>1. PICK c : Consecutive(s, disk, c) /\ c[Len(s)] = reader.at
      BY <2>1 DEF Lined
    <3> QED
      BY <1>1, <3>1, TextJoins
  <2>3. Len(s) \in Nat /\ reader.at \in Nat /\ a \in Nat /\ b \in Nat /\ a <= b
    <3>1. reader.at \in Nat /\ DOMAIN disk = 1..Len(disk) /\ Len(disk) \in Nat
      BY DEF FileInv, ReaderShape
    <3>2. Positions(S, Len(disk))
      BY <3>1 DEF Positions, Ends
    <3>3. Len(s) \in Nat
      BY <1>1
    <3> HIDE DEF S, s
    <3> QED
      BY <3>1, <3>2, <3>3, RankFacts, Zenon
  <2>4. Len(s) <= a + 1 /\ reader.count = b + 1
    <3>1. Len(s) <= a + IF reader.at = reader.size THEN 1 ELSE 0
      BY <2>1 DEF Lined
    <3> HIDE DEF s, a, b
    <3> QED
      BY <2>1, <2>3, <3>1 DEF Lined, b
  <2>5. Len(s) <= reader.count
    <3> HIDE DEF s, a, b
    <3> QED
      BY <2>3, <2>4
  <2> QED
    BY <2>1, <2>2, <2>5 DEF Lined
<1>3. TF!LinesWhole
  BY <1>2 DEF TF!LinesWhole, LineFeedLast
<1>4. TF!ColumnsExact
  BY <1>1, ColumnsSplit, Zenon DEF TF!ColumnsExact
<1>5. TF!StreamedBack
  <2>1. CASE result.from = 0
    <3> DEFINE d == <<"a">>
    <3>0. result.from # TF!NoMap
      BY <2>1 DEF TF!NoMap
    <3>1. result.from \in Nat /\ result.sent = d /\ disk = TF!Put(<<>>, result.from, d)
      BY <3>0 DEF TextInv, StreamInto
    <3>2. TF!Streamed(disk) = d
      BY <2>1, <3>1, StreamedFrom
    <3> HIDE DEF d
    <3> QED
      BY <3>1, <3>2 DEF TF!StreamedBack
  <2> QED
    BY <2>1 DEF TF!StreamedBack
<1> QED
  BY <1>3, <1>4, <1>5

-----------------------------------------------------------------------------
(***************************************************************************)
(* The text on the display in a file: Clear puts the line feeds where      *)
(* SetCursorPos looks for the rows, and a text that fits goes between them. *)
(***************************************************************************)
\* The offset behind which a cell is stored, and the byte itself.
CellAt(p) == p[1] * (RowSize + 3) + p[2] + 1
CellIn(p, n, len) == p \in Nat \X Nat /\ p[1] < n /\ p[2] < RowSize /\ CellAt(p) \in 1..len

\* Up to byte k the first line feed is the one that ends the first row.
FeedsTo(t, k) == \A i \in 1..Len(t) : i <= k /\ i <= RowSize + 3 => (t[i] = "n" <=> i = RowSize + 3)

\* What Clear has written so far has its line feed; and unless a text went past its row
\* the whole file has, and the cells that Clear has not reached hold what was printed.
PanelShows(n, todo, pos, t, fits, cells) ==
  /\ todo # <<>> => FeedsTo(t, pos)
  /\ fits => FeedsTo(t, Len(t))
  /\ fits => \A p \in DOMAIN cells : CellIn(p, n, Len(t))
  /\ fits => \A p \in DOMAIN cells : todo = <<>> \/ CellAt(p) > pos => t[CellAt(p)] = cells[p]

ShowInv == PanelShows(panel.rows, panel.todo, panel.pos, paper, seen.fits, seen.cells)

LEMMA ShowBegins == ASSUME FD!Init PROVE ShowInv
<1> DEFINE none == <<>>
           R == [rows : RowCounts, todo : {none}, pos : {0}, map : {FD!None}, cur : {FD!None}]
<1>1. paper = none /\ panel \in R /\ seen.cells = none
  BY DEF FD!Init
<1>2. Len(none) = 0 /\ DOMAIN none = {} /\ 1..0 = {}
  OBVIOUS
<1>3. panel.todo = none
  BY <1>1
<1> HIDE DEF none, R
<1>4. panel.todo = <<>>
  BY <1>3 DEF none
<1> QED
  BY <1>1, <1>2, <1>4 DEF ShowInv, PanelShows, FeedsTo

LEMMA ShowStarts == ASSUME PanelInv, ShowInv, FD!Initialize \/ FD!Clear PROVE ShowInv'
<1> DEFINE n == panel.rows
           b == FD!Blank(n)
           a == <<0, 0>>
           u == seen.ops + 1
           len == Len(paper)
<1>1. PanelShape(panel) /\ SeenShape(seen) /\ len \in Nat
  BY DEF PanelInv, PanelFacts
<1>2. panel.todo = <<>> /\ paper' = paper /\ seen' = SeenStarts(seen, a, u)
  BY DEF FD!Initialize, FD!Clear, FD!Idle, FD!Ready, SeenStarts
<1>3. panel' = PanelClears(panel, b) \/ panel' = PanelMaps(panel, len)
  BY DEF FD!Initialize, FD!Clear, PanelClears, PanelMaps, FD!MapLength, FD!Expected
<1> HIDE DEF b, a, u, len
<1>4. seen'.cells = seen.cells /\ seen'.fits = seen.fits
  <2>1. seen' \in SeenSet(a, seen.cells, seen.fits, seen.out, u, seen.programs)
    BY <1>1, <1>2, SeenChanges, Zenon
  <2> QED
    BY <2>1, SeenFields
<1>5. panel'.rows = n /\ (panel'.pos = 0 \/ panel'.todo = <<>>)
  <2>1. panel' \in PanelSet(n, b, 0, panel.map, panel.cur) \/ panel' \in PanelSet(n, panel.todo, panel.pos, len, 0)
    BY <1>1, <1>3, PanelChanges
  <2> HIDE DEF n
  <2> QED
    BY <1>2, <2>1, PanelFields
<1>6. FeedsTo(paper, 0)
  <2>1. \A i \in 1..Len(paper) : ~(i <= 0)
    BY <1>1 DEF len
  <2> QED
    BY <2>1 DEF FeedsTo
<1>7. PanelShows(n, panel.todo, panel.pos, paper, seen.fits, seen.cells)
  BY DEF ShowInv
<1> HIDE DEF n
<1>8. PanelShows(n, panel'.todo, panel'.pos, paper, seen.fits, seen.cells)
  BY <1>2, <1>5, <1>6, <1>7 DEF PanelShows
<1> QED
  BY <1>2, <1>4, <1>5, <1>8 DEF ShowInv

LEMMA ShowSets ==
  ASSUME PanelInv, ShowInv, NEW row, NEW col, FD!SetCursorPos(row, col)
  PROVE  ShowInv'
<1> DEFINE a == <<row, col>>
           u == seen.ops + 1
           c == row * (RowSize + 3) + col
<1>1. PanelShape(panel) /\ SeenShape(seen)
  BY DEF PanelInv
<1>2. /\ paper' = paper /\ seen' = SeenStarts(seen, a, u) /\ panel' = PanelMoves(panel, c)
  BY DEF FD!SetCursorPos, FD!RowAt, SeenStarts, PanelMoves
<1> HIDE DEF a, u, c
<1>3. seen'.cells = seen.cells /\ seen'.fits = seen.fits
  <2>1. seen' \in SeenSet(a, seen.cells, seen.fits, seen.out, u, seen.programs)
    BY <1>1, <1>2, SeenChanges, Zenon
  <2> QED
    BY <2>1, SeenFields
<1>4. panel'.rows = panel.rows /\ panel'.todo = panel.todo /\ panel'.pos = panel.pos
  BY <1>1, <1>2, PanelChanges, PanelFields
<1> QED
  BY <1>2, <1>3, <1>4 DEF ShowInv

LEMMA ShowDies == ASSUME PanelInv, ShowInv, FD!Die PROVE ShowInv'
<1> DEFINE none == <<>>
           m == -1
           n == panel.rows
           v == seen.programs + 1
           keep == {p \in DOMAIN seen.cells : FD!RowAt(p[1]) + p[2] >= panel.pos}
           c == IF panel.todo = <<>> THEN seen.cells ELSE FD!Restrict(seen.cells, keep)
<1>1. PanelShape(panel) /\ SeenShape(seen) /\ Len(paper) \in Nat /\ panel.pos \in Nat
  BY DEF PanelInv, PanelFacts
<1>2. paper' = paper /\ panel' = PanelGoes(panel, none, 0, m, m) /\ seen' = SeenRestarts(seen, v, c)
  BY DEF FD!Die, FD!Idle, FD!None, PanelGoes, SeenRestarts
<1>3. none = <<>>
  OBVIOUS
<1>4. PanelShows(n, panel.todo, panel.pos, paper, seen.fits, seen.cells)
  BY DEF ShowInv
<1> HIDE DEF none, m, v, c, n, keep
<1>5. seen'.cells = c /\ seen'.fits = seen.fits
  <2>1. seen' \in SeenSet(seen.at, c, seen.fits, seen.out, seen.ops, v)
    BY <1>1, <1>2, SeenChanges, Zenon
  <2> QED
    BY <2>1, SeenFields
<1>6. panel'.rows = n /\ panel'.todo = none
  BY <1>1, <1>2, PanelChanges, PanelFields DEF n
<1>7. seen.fits => \A p \in DOMAIN c : p \in DOMAIN seen.cells /\ c[p] = seen.cells[p] /\ (panel.todo = <<>> \/ CellAt(p) > panel.pos)
  <2>1. CASE panel.todo = <<>>
    BY <2>1 DEF c
  <2>2. CASE panel.todo # <<>>
    <3>1. c = [p \in keep |-> seen.cells[p]]
      BY <2>2 DEF c, FD!Restrict
    <3>2. \A p \in keep : p \in DOMAIN seen.cells /\ FD!RowAt(p[1]) + p[2] >= panel.pos
      BY DEF keep
    <3>3. ASSUME seen.fits, NEW p \in keep PROVE CellAt(p) > panel.pos
      <4> DEFINE x == p[1] * (RowSize + 3)
                 y == p[2]
                 k == panel.pos
      <4>1. p \in Nat \X Nat
        BY <1>4, <3>2, <3>3 DEF PanelShows, CellIn
      <4>2. x \in Nat /\ y \in Nat /\ k \in Nat
        BY <1>1, <4>1, PanelSizes, Grid
      <4>3. x + y >= k
        BY <3>2 DEF FD!RowAt
      <4> HIDE DEF x, y, k
      <4>4. x + y + 1 > k
        BY <4>2, <4>3
      <4> QED
        BY <4>4 DEF x, y, k, CellAt
    <3> QED
      BY <3>1, <3>2, <3>3
  <2> QED
    BY <2>1, <2>2
<1>8. PanelShows(n, none, panel'.pos, paper, seen.fits, c)
  BY <1>3, <1>4, <1>7 DEF PanelShows
<1> QED
  BY <1>2, <1>5, <1>6, <1>8 DEF ShowInv

\* ----- what Clear writes next
LEMMA ClearsWith ==
  ASSUME NEW n \in Nat \ {0}, NEW todo, todo # <<>>, NEW pos, Clearing(n, todo, pos)
  PROVE  /\ pos \in Nat
         /\ \/ Head(todo) = Space /\ (pos < RowSize \/ pos >= RowSize + 4)
            \/ Head(todo) = Four /\ (pos = RowSize \/ pos >= RowSize + 4)
<1> DEFINE w == RowSize + 1
           v == RowSize + 4
<1>0. w \in Nat /\ v \in Nat /\ RowSize \in Nat \ {0} /\ n \in Nat /\ v = RowSize + 4 /\ w = RowSize + 1
  BY PanelSizes
<1>1. PICK q \in 0..(n - 1), r \in 0..RowSize : pos = q * v + r /\ Remains(todo, n, q * w + r)
  BY DEF Clearing
<1> HIDE DEF w, v
<1>2. q \in Nat /\ r \in Nat /\ q * w \in Nat /\ q * v \in Nat /\ r <= RowSize
  BY <1>0, Grid
<1> DEFINE k == q * w + r
           x == q * v
<1>3. k \in Nat /\ pos \in Nat /\ pos = x + r
  BY <1>1, <1>2
<1>4. Head(todo) = FD!Blank(n)[k + 1]
  <2>1. Remains(todo, n, k)
    BY <1>1
  <2> HIDE DEF k
  <2> QED
    BY <1>0, <1>3, <2>1, TailRemains
<1>5. FD!Blank(n)[k + 1] = IF r = RowSize THEN Four ELSE Space
  <2>1. FD!Blank(n)[q * (RowSize + 1) + r + 1] = IF r = RowSize THEN Four ELSE Space
    BY <1>0, BlankFacts, Zenon
  <2> QED
    BY <2>1 DEF w
<1>6. q = 0 => x = 0
  BY <1>0, <1>2, Grid
<1>7. q # 0 => x >= v
  <2>1. q # 0 => 0 * v + v <= q * v /\ 0 * v = 0
    <3>1. q # 0 => 0 < q
      BY <1>2
    <3> QED
      BY <1>0, <1>2, <3>1, Grid
  <2> QED
    BY <1>0, <1>2, <2>1
<1> HIDE DEF k, x
<1>8. x \in Nat
  BY <1>2 DEF x
<1>9. pos < RowSize \/ pos = RowSize \/ pos >= RowSize + 4
  BY <1>0, <1>2, <1>3, <1>6, <1>7, <1>8
<1>10. r = RowSize => pos = RowSize \/ pos >= RowSize + 4
  BY <1>0, <1>2, <1>3, <1>6, <1>7, <1>8
<1>11. r # RowSize => pos < RowSize \/ pos >= RowSize + 4
  BY <1>0, <1>2, <1>3, <1>6, <1>7, <1>8
<1> QED
  BY <1>3, <1>4, <1>5, <1>10, <1>11

\* The bytes behind the offset: the line feed of the first row is where it belongs.
LEMMA ClearFeeds ==
  ASSUME NEW n \in Nat \ {0}, NEW todo, todo # <<>>, NEW pos, Clearing(n, todo, pos), NEW j \in 1..Len(Head(todo)), pos + j <= RowSize + 3
  PROVE  Head(todo)[j] = "n" <=> pos + j = RowSize + 3
<1>1. /\ pos \in Nat
      /\ \/ Head(todo) = Space /\ (pos < RowSize \/ pos >= RowSize + 4)
         \/ Head(todo) = Four /\ (pos = RowSize \/ pos >= RowSize + 4)
  BY ClearsWith
<1>2. Len(Space) = 1 /\ Space[1] # "n"
  BY DEF Space
<1>3. Len(Four) = 4 /\ Four[1] # "n" /\ Four[2] # "n" /\ Four[3] = "n" /\ Four[4] # "n"
  BY DEF Four
<1>4. RowSize \in Nat \ {0}
  BY PanelSizes
<1>5. CASE Head(todo) = Space
  <2>1. j = 1
    <3>1. j \in 1..1
      BY <1>2, <1>5, Zenon
    <3> QED
      BY <3>1
  <2>2. pos + 1 # RowSize + 3
    BY <1>1, <1>2, <1>3, <1>4, <1>5, <2>1
  <2> QED
    BY <1>2, <1>5, <2>1, <2>2
<1>6. CASE Head(todo) = Four
  <2>1. j \in 1..4
    BY <1>3, <1>6, Zenon
  <2>2. pos = RowSize
    <3>1. Head(todo) # Space
      BY <1>2, <1>3, <1>6
    <3>2. pos \in Nat /\ (pos = RowSize \/ pos >= RowSize + 4)
      BY <1>1, <3>1
    <3> QED
      BY <1>4, <2>1, <3>2
  <2>3. pos + j = RowSize + 3 <=> j = 3
    BY <1>4, <2>1, <2>2
  <2>4. j = 1 \/ j = 2 \/ j = 3 \/ j = 4
    BY <2>1
  <2>5. Four[j] = "n" <=> j = 3
    BY <1>3, <2>4
  <2> QED
    BY <1>6, <2>3, <2>5
<1> QED
  BY <1>1, <1>5, <1>6

\* What is left to write ends behind what is written.
LEMMA ClearEnds ==
  ASSUME NEW n \in Nat \ {0}, NEW len \in Nat, NEW todo, todo # <<>>, NEW pos \in 0..len, Clearing(n, todo, pos), Written(n, len)
  PROVE  /\ Len(Head(todo)) \in Nat /\ Len(Head(todo)) >= 1
         /\ Len(todo) = 1 => Tail(todo) = <<>> /\ len <= pos + Len(Head(todo))
         /\ Len(todo) # 1 => Tail(todo) # <<>>
<1> DEFINE end == pos + Len(Head(todo))
           full == n * (RowSize + 4)
<1>1. Len(Head(todo)) \in Nat /\ Len(Head(todo)) >= 1
  <2>1. Len(Four) = 4 /\ Len(Space) = 1
    BY DEF Four, Space
  <2>2. Head(todo) = Space \/ Head(todo) = Four
    BY ClearsWith
  <2> DEFINE l == Len(Head(todo))
  <2>3. l = 1 \/ l = 4
    BY <2>1, <2>2
  <2> HIDE DEF l
  <2>4. l \in Nat /\ l >= 1
    BY <2>3
  <2> QED
    BY <2>4 DEF l
<1>2. /\ Len(todo) = 1 => Tail(todo) = <<>> /\ end = full
      /\ Len(todo) # 1 => Tail(todo) # <<>>
  BY ClearGoesOn, Zenon
<1>3. len <= full
  BY DEF Written
<1> HIDE DEF full
<1> QED
  BY <1>1, <1>2, <1>3

\* A write at an offset: the file is longer if the write ends behind its end.
Overwritten(t, pos, put, u) ==
  /\ Len(u) = IF pos + Len(put) > Len(t) THEN pos + Len(put) ELSE Len(t)
  /\ \A i \in 1..Len(u) : u[i] = IF i \in (pos + 1)..(pos + Len(put)) THEN put[i - pos] ELSE t[i]

\* Clear's next write, in the words of PanelShows.
LEMMA ShowsOn ==
  ASSUME NEW n \in Nat \ {0}, NEW todo, todo # <<>>, NEW t, NEW u, Len(t) \in Nat, NEW pos \in 0..Len(t), NEW fits, NEW cells,
         Clearing(n, todo, pos), Written(n, Len(t)), Overwritten(t, pos, Head(todo), u), PanelShows(n, todo, pos, t, fits, cells)
  PROVE  /\ Len(todo) = 1 => PanelShows(n, Tail(todo), pos + Len(Head(todo)), u, TRUE, <<>>)
         /\ Len(todo) # 1 => PanelShows(n, Tail(todo), pos + Len(Head(todo)), u, fits, cells)
<1> DEFINE put == Head(todo)
           l == Len(put)
           end == pos + l
           len == Len(t)
           z == Len(u)
           y == RowSize + 3
<1>1. l \in Nat /\ l >= 1 /\ (Len(todo) = 1 => Tail(todo) = <<>> /\ len <= end) /\ (Len(todo) # 1 => Tail(todo) # <<>>)
  BY ClearEnds
<1>2. z = (IF end > len THEN end ELSE len) /\ \A i \in 1..z : u[i] = IF i \in (pos + 1)..end THEN put[i - pos] ELSE t[i]
  BY DEF Overwritten
<1>3. \A j \in 1..l : pos + j <= y => (put[j] = "n" <=> pos + j = y)
  BY ClearFeeds, Zenon
<1>4. FeedsTo(t, pos) /\ (fits => FeedsTo(t, len)) /\ y \in Nat
  BY PanelSizes DEF PanelShows
<1>5. pos \in Nat /\ len \in Nat /\ pos <= len /\ z \in Nat /\ z >= len /\ z >= end /\ end \in Nat /\ pos < end /\ (z > end => z = len)
  BY <1>1, <1>2
<1> HIDE DEF put, l, end, len, z, y
<1>6. ASSUME NEW i \in 1..z, i \in (pos + 1)..end, i <= y PROVE u[i] = "n" <=> i = y
  <2> DEFINE j == i - pos
  <2>1. j \in 1..l /\ pos + j = i
    BY <1>1, <1>5, <1>6 DEF end
  <2>2. u[i] = put[j]
    BY <1>2, <1>6
  <2> HIDE DEF j
  <2> QED
    BY <1>3, <1>6, <2>1, <2>2
<1>7. ASSUME NEW i \in 1..z, i \notin (pos + 1)..end PROVE u[i] = t[i] /\ i \in 1..len /\ (i <= end => i <= pos)
  BY <1>2, <1>5, <1>7
<1>8. FeedsTo(u, end)
  <2> SUFFICES ASSUME NEW i \in 1..z, i <= end, i <= y PROVE u[i] = "n" <=> i = y
    BY DEF FeedsTo, z, y
  <2>1. CASE i \in (pos + 1)..end
    BY <1>6, <2>1
  <2>2. CASE i \notin (pos + 1)..end
    <3>1. u[i] = t[i] /\ i \in 1..len /\ i <= pos
      BY <1>7, <2>2
    <3>2. t[i] = "n" <=> i = y
      BY <1>4, <3>1 DEF FeedsTo, len, y
    <3> QED
      BY <3>1, <3>2
  <2> QED
    BY <2>1, <2>2
<1>9. fits => FeedsTo(u, z)
  <2> SUFFICES ASSUME fits, NEW i \in 1..z, i <= y PROVE u[i] = "n" <=> i = y
    BY DEF FeedsTo, z, y
  <2>1. CASE i \in (pos + 1)..end
    BY <1>6, <2>1
  <2>2. CASE i \notin (pos + 1)..end
    <3>1. u[i] = t[i] /\ i \in 1..len
      BY <1>7, <2>2
    <3>2. i <= len
      BY <1>5, <3>1
    <3>3. t[i] = "n" <=> i = y
      BY <1>4, <3>1, <3>2 DEF FeedsTo, len, y
    <3> QED
      BY <3>1, <3>3
  <2> QED
    BY <2>1, <2>2
<1>10. CASE Len(todo) = 1
  <2> DEFINE none == <<>>
  <2>1. DOMAIN none = {}
    OBVIOUS
  <2>2. z = end
    BY <1>1, <1>5, <1>10
  <2>3. FeedsTo(u, z)
    BY <1>8, <2>2
  <2> HIDE DEF none
  <2>4. PanelShows(n, Tail(todo), end, u, TRUE, none)
    BY <1>8, <2>1, <2>3 DEF PanelShows, z
  <2> QED
    BY <1>10, <2>4, Zenon DEF none, end, l, put
<1>11. CASE Len(todo) # 1
  <2>1. ASSUME fits, NEW p \in DOMAIN cells PROVE CellIn(p, n, z)
    <3>1. CellIn(p, n, len)
      BY <2>1 DEF PanelShows, len
    <3> QED
      BY <1>5, <3>1 DEF CellIn
  <2>2. ASSUME fits, NEW p \in DOMAIN cells, CellAt(p) > end PROVE u[CellAt(p)] = cells[p]
    <3>1. CellAt(p) \in 1..len
      BY <2>2 DEF PanelShows, CellIn, len
    <3> DEFINE i == CellAt(p)
    <3>2. i \in 1..z /\ i \notin (pos + 1)..end /\ i > pos
      BY <1>5, <2>2, <3>1
    <3>3. t[i] = cells[p]
      BY <2>2, <3>2 DEF PanelShows
    <3> HIDE DEF i
    <3>4. u[i] = t[i]
      BY <1>7, <3>2
    <3> QED
      BY <3>3, <3>4 DEF i
  <2>3. Tail(todo) # <<>>
    BY <1>1, <1>11
  <2>4. PanelShows(n, Tail(todo), end, u, fits, cells)
    BY <1>8, <1>9, <2>1, <2>2, <2>3 DEF PanelShows, z
  <2> QED
    BY <1>11, <2>4, Zenon DEF end, l, put
<1> QED
  BY <1>10, <1>11, Zenon

LEMMA ShowWrites == ASSUME PanelInv, ShowInv, FD!ClearWrite PROVE ShowInv'
<1> DEFINE n == panel.rows
           todo == panel.todo
           put == Head(todo)
           pos == panel.pos
           end == pos + Len(put)
           len == Len(paper)
           z == IF end > len THEN end ELSE len
           more == Tail(todo)
           a == seen.at
           none == <<>>
           yes == TRUE
           no == FALSE
           end_map == IF Len(todo) = 1 /\ panel.map = -1 THEN FD!MapLength(Len(paper')) ELSE panel.map
           end_cur == IF Len(todo) = 1 THEN 0 ELSE panel.cur
<1>1. /\ PanelShape(panel) /\ SeenShape(seen)
      /\ todo # <<>> /\ n \in Nat \ {0} /\ len \in Nat /\ pos \in 0..len /\ Clearing(n, todo, pos) /\ Written(n, len)
  BY DEF FD!ClearWrite, FD!Idle, PanelInv, PanelFacts
<1>2. PanelShows(n, todo, pos, paper, seen.fits, seen.cells)
  BY DEF ShowInv
<1>3. end \in Nat /\ z \in Nat
  <2>1. Len(put) \in Nat
    <3> HIDE DEF n, todo, pos, len
    <3> QED
      BY <1>1, ClearEnds DEF put
  <2> HIDE DEF put, len
  <2> QED
    BY <1>1, <2>1
<1>4. Overwritten(paper, pos, put, paper')
  <2> DEFINE B(i) == IF i \in (pos + 1)..end THEN put[i - pos] ELSE paper[i]
             g == [i \in 1..z |-> B(i)]
  <2>1. paper' = g
    BY DEF FD!ClearWrite
  <2> HIDE DEF B, z
  <2>2. Len(g) = z /\ \A i \in 1..z : g[i] = B(i)
    BY <1>3
  <2> HIDE DEF g
  <2>3. Len(paper') = z /\ \A i \in 1..Len(paper') : paper'[i] = B(i)
    BY <2>1, <2>2
  <2> QED
    BY <2>3 DEF Overwritten, B, z
<1>5. /\ Len(todo) = 1 => PanelShows(n, more, end, paper', TRUE, <<>>)
      /\ Len(todo) # 1 => PanelShows(n, more, end, paper', seen.fits, seen.cells)
  <2> DEFINE t == paper
             u == paper'
             f == seen.fits
             c == seen.cells
  <2>1. Overwritten(t, pos, put, u) /\ PanelShows(n, todo, pos, t, f, c) /\ Len(t) \in Nat /\ pos \in 0..Len(t) /\ Written(n, Len(t))
    BY <1>1, <1>2, <1>4
  <2> HIDE DEF n, todo, pos, t, u, f, c
  <2>2. /\ Len(todo) = 1 => PanelShows(n, Tail(todo), pos + Len(Head(todo)), u, TRUE, <<>>)
        /\ Len(todo) # 1 => PanelShows(n, Tail(todo), pos + Len(Head(todo)), u, f, c)
    BY <1>1, <2>1, ShowsOn, Zenon
  <2> QED
    BY <2>2, Zenon DEF u, f, c
<1>6. panel' = PanelGoes(panel, more, end, end_map, end_cur)
  BY DEF FD!ClearWrite, PanelGoes, FD!None
<1>7. panel'.rows = n /\ panel'.todo = more /\ panel'.pos = end
  <2> HIDE DEF more, end, end_map, end_cur
  <2>1. panel' \in PanelSet(n, more, end, end_map, end_cur)
    BY <1>1, <1>6, PanelChanges
  <2> HIDE DEF n
  <2> QED
    BY <2>1, PanelFields
<1>8. CASE Len(todo) = 1
  <2>1. seen' = SeenErased(seen, none, yes, no) /\ none = <<>> /\ yes = TRUE
    BY <1>8 DEF FD!ClearWrite, SeenErased
  <2> HIDE DEF none, yes, no
  <2>2. seen' \in SeenSet(a, none, yes, no, seen.ops, seen.programs)
    BY <1>1, <2>1, SeenChanges, Zenon DEF a
  <2>3. seen'.cells = none /\ seen'.fits = yes
    BY <2>2, SeenFields
  <2> HIDE DEF n, more, end
  <2> QED
    BY <1>5, <1>7, <1>8, <2>1, <2>3, Zenon DEF ShowInv
<1>9. CASE Len(todo) # 1
  <2>1. seen' = seen
    BY <1>9 DEF FD!ClearWrite
  <2> HIDE DEF n, more, end
  <2> QED
    BY <1>5, <1>7, <1>9, <2>1 DEF ShowInv
<1> QED
  BY <1>8, <1>9

\* A text goes into the row of the cursor: the bytes behind it, the cells of the row.
Printed(t, cur, k, text, u) ==
  /\ Len(u) = Len(t)
  /\ \A i \in 1..Len(u) : i \in (cur + 1)..(cur + k) => u[i] = text[i - cur]
  /\ \A i \in 1..Len(u) : i = cur + k + 1 => u[i] = "0"
  /\ \A i \in 1..Len(u) : i \notin (cur + 1)..(cur + k + 1) => u[i] = t[i]
CellsPrinted(cells, at, k, text, c) ==
  \A p \in DOMAIN c :
    \/ p \in {at[1]} \X (at[2]..(at[2] + k - 1)) /\ c[p] = text[p[2] - at[2] + 1]
    \/ p \in DOMAIN cells /\ p \notin {at[1]} \X (at[2]..(at[2] + k)) /\ c[p] = cells[p]

\* The text is inside its row.
Placed(n, len, at, k, cur) ==
  /\ len \in Nat /\ n * (RowSize + 3) <= len /\ at \in Nat \X Nat /\ k \in Nat
  /\ cur = at[1] * (RowSize + 3) + at[2] /\ at[1] < n /\ at[2] + k <= RowSize

Shown(n, t, cells) ==
  FeedsTo(t, Len(t)) /\ \A p \in DOMAIN cells : CellIn(p, n, Len(t)) /\ t[CellAt(p)] = cells[p]
NoFeed(text, k) == \A i \in 1..k : text[i] # "n"

\* A text that fits keeps what was printed and shows itself.
LEMMA ShowsPrinted ==
  ASSUME NEW n \in Nat \ {0}, NEW t, NEW u, NEW at, NEW k, NEW text, NEW cells, NEW c, NEW cur, Placed(n, Len(t), at, k, cur),
         NoFeed(text, k), Shown(n, t, cells), Printed(t, cur, k, text, u), CellsPrinted(cells, at, k, text, c)
  PROVE  Shown(n, u, c)
<1> DEFINE y == RowSize + 3
           len == Len(t)
           r == at[1]
           b == at[2]
           x == r * y
           end == cur + k + 1
           nw == n * y
<1>1. /\ r \in Nat /\ b \in Nat /\ y \in Nat /\ x \in Nat /\ nw \in Nat /\ x + y <= nw /\ nw <= len /\ len \in Nat
      /\ cur = x + b /\ RowSize \in Nat /\ y = RowSize + 3 /\ b + k <= RowSize /\ k \in Nat /\ cur \in Nat /\ end = cur + k + 1 /\ r < n
  <2>1. /\ r \in Nat /\ b \in Nat /\ y \in Nat /\ nw <= len /\ len \in Nat /\ cur = x + b /\ RowSize \in Nat /\ y = RowSize + 3
        /\ b + k <= RowSize /\ k \in Nat /\ r < n
    BY PanelSizes DEF Placed
  <2> HIDE DEF y, r, b, len
  <2>2. x \in Nat /\ nw \in Nat /\ x + y <= nw
    BY <2>1, Grid
  <2> HIDE DEF x, nw
  <2> QED
    BY <2>1, <2>2
<1>2. r = 0 => x = 0
  BY <1>1, Grid
<1>3. r # 0 => x >= y
  <2>1. r # 0 => 0 * y + y <= r * y /\ 0 * y = 0
    <3>1. r # 0 => 0 < r
      BY <1>1
    <3> HIDE DEF r, y
    <3> QED
      BY <1>1, <3>1, Grid, Zenon
  <2> QED
    BY <1>1, <2>1
<1>4. Len(u) = len
  BY DEF Printed
<1>5. \A i \in 1..len : (i \in (cur + 1)..(cur + k) => u[i] = text[i - cur]) /\ (i = end => u[i] = "0") /\ (i \notin (cur + 1)..end => u[i] = t[i])
  BY <1>4 DEF Printed
<1>6. FeedsTo(u, Len(u))
  <2> SUFFICES ASSUME NEW i \in 1..len, i <= y PROVE u[i] = "n" <=> i = y
    BY <1>4 DEF FeedsTo
  <2> HIDE DEF x, y, r, b, len, end
  <2>1. CASE i \in (cur + 1)..end
    <3>1. r = 0
      BY <1>1, <1>3, <2>1
    <3>2. i # y
      BY <1>1, <1>2, <2>1, <3>1 DEF end
    <3>3. u[i] # "n"
      <4>1. CASE i = end
        BY <1>5, <4>1
      <4>2. CASE i # end
        <5> DEFINE j == i - cur
        <5>1. j \in 1..k /\ i \in (cur + 1)..(cur + k)
          BY <1>1, <2>1, <4>2 DEF end
        <5>2. u[i] = text[j]
          BY <1>5, <5>1
        <5> HIDE DEF j
        <5> QED
          BY <5>1, <5>2 DEF NoFeed
      <4> QED
        BY <4>1, <4>2
    <3> QED
      BY <3>2, <3>3
  <2>2. CASE i \notin (cur + 1)..end
    <3>1. u[i] = t[i]
      BY <1>5, <2>2
    <3>2. t[i] = "n" <=> i = y
      BY <1>1 DEF FeedsTo, Shown, len, y
    <3> QED
      BY <3>1, <3>2
  <2> QED
    BY <2>1, <2>2
<1>7. ASSUME NEW p \in DOMAIN c PROVE CellIn(p, n, len) /\ u[CellAt(p)] = c[p]
  <2>1. CASE p \in {r} \X (b..(b + k - 1)) /\ c[p] = text[p[2] - b + 1]
    <3> DEFINE q == p[2]
               i == x + q + 1
               j == q - b + 1
    <3>1. p \in {r} \X (b..(b + k - 1)) /\ p[1] = r /\ q \in b..(b + k - 1) /\ c[p] = text[j]
      BY <2>1
    <3>2. CellAt(p) = i
      <4>1. p[1] * y = x
        BY <3>1
      <4> QED
        BY <4>1 DEF CellAt
    <3> HIDE DEF x, y, r, b, len, end, q
    <3>3. q \in Nat /\ q < RowSize /\ i \in 1..len /\ i \in (cur + 1)..(cur + k) /\ i - cur = j
      BY <1>1, <3>1
    <3>4. u[i] = text[i - cur]
      BY <1>5, <3>3
    <3> HIDE DEF i, j
    <3>5. u[i] = c[p]
      BY <3>1, <3>3, <3>4
    <3>6. p \in Nat \X Nat
      BY <1>1, <3>1
    <3>7. CellIn(p, n, len)
      <4>1. p[1] < n /\ p[2] < RowSize
        BY <1>1, <3>1, <3>3 DEF q
      <4> QED
        BY <3>2, <3>3, <3>6, <4>1 DEF CellIn
    <3> QED
      BY <3>2, <3>5, <3>7
  <2>2. CASE p \in DOMAIN cells /\ p \notin {r} \X (b..(b + k)) /\ c[p] = cells[p]
    <3> DEFINE q == p[2]
               s == p[1]
               sy == s * y
               i == sy + q + 1
    <3>1. CellIn(p, n, len) /\ t[CellAt(p)] = c[p]
      BY <2>2 DEF Shown
    <3>2. CellAt(p) = i /\ s \in Nat /\ q \in Nat /\ q < RowSize /\ i \in 1..len /\ p = <<s, q>>
      BY <3>1 DEF CellAt, CellIn
    <3>3. i \notin (cur + 1)..end
      <4>1. sy \in Nat
        BY <1>1, <3>2, Grid, Zenon
      <4>2. CASE s = r
        <5>1. q \notin b..(b + k) /\ sy = x
          BY <2>2, <3>2, <4>2
        <5> HIDE DEF x, y, r, b, len, sy, q, s, nw
        <5>2. q < b \/ q > b + k
          BY <1>1, <3>2, <5>1
        <5>3. i < cur + 1 \/ i > end
          BY <1>1, <3>2, <5>1, <5>2
        <5> QED
          BY <1>1, <3>2, <5>3
      <4>3. CASE s < r
        <5>1. sy + y <= x
          BY <1>1, <3>2, <4>3, Grid, Zenon
        <5> HIDE DEF x, y, r, b, len, sy, q, s, nw
        <5> QED
          BY <1>1, <3>2, <4>1, <5>1
      <4>4. CASE r < s
        <5>1. x + y <= sy
          BY <1>1, <3>2, <4>4, Grid, Zenon
        <5> HIDE DEF x, y, r, b, len, sy, q, s, nw
        <5> QED
          BY <1>1, <3>2, <4>1, <5>1
      <4>5. s < r \/ s = r \/ r < s
        <5> HIDE DEF x, y, r, b, len, sy, q, s, nw
        <5> QED
          BY <1>1, <3>2
      <4> QED
        BY <4>2, <4>3, <4>4, <4>5
    <3> HIDE DEF i
    <3>4. u[i] = t[i]
      BY <1>5, <3>2, <3>3
    <3> QED
      BY <3>1, <3>2, <3>4
  <2> QED
    BY <2>1, <2>2 DEF CellsPrinted
<1> QED
  BY <1>4, <1>6, <1>7 DEF Shown

LEMMA ShowPrints ==
  ASSUME PanelInv, ShowInv, NEW text, Len(text) \in Nat, \A i \in 1..Len(text) : text[i] # "n", FD!PrintText(text)
  PROVE  ShowInv'
<1> DEFINE n == panel.rows
           l == Len(text)
           k == IF l > RowSize THEN RowSize ELSE l
           cur == panel.cur
           map == panel.map
           len == Len(paper)
           at == seen.at
           fit == at[1] < n /\ at[2] + l <= RowSize
           stays == seen.fits /\ fit
           leaves == seen.out \/ cur + k + 1 > map
           x == at[2] + l
           a == [at EXCEPT ![2] = x]
           u == seen.ops + 1
           bytes == Append(SubSeq(text, 1, k), "0")
           text_cells == [p \in {at[1]} \X (at[2]..(at[2] + k - 1)) |-> text[p[2] - at[2] + 1]]
           other_cells == FD!Restrict(seen.cells, DOMAIN seen.cells \ ({at[1]} \X (at[2]..(at[2] + k))))
           c == [p \in DOMAIN text_cells \cup DOMAIN other_cells |->
                   IF p \in DOMAIN text_cells THEN text_cells[p] ELSE other_cells[p]]
           end == cur + l
<1>1. /\ PanelShape(panel) /\ SeenShape(seen) /\ DOMAIN paper = 1..len
      /\ PanelFacts(n, panel.todo, panel.pos, map, cur, len, at, seen.fits, seen.out)
  BY DEF PanelInv
<1>2. panel.todo = <<>> /\ map # -1
  BY DEF FD!PrintText, FD!Ready, FD!Idle, FD!None
<1>3. /\ at \in Nat \X Nat /\ n \in Nat \ {0} /\ len \in Nat /\ n * (RowSize + 3) <= len /\ cur = at[1] * (RowSize + 3) + at[2]
      /\ l \in Nat /\ k \in Nat /\ cur \in Nat
  <2>1. Mapped(n, map, cur, len) /\ at \in Nat \X Nat /\ n \in Nat \ {0} /\ len \in Nat /\ cur = at[1] * (RowSize + 3) + at[2]
    BY <1>1, <1>2 DEF PanelFacts
  <2> DEFINE nw == n * (RowSize + 3)
  <2>2. nw <= map /\ map <= len /\ map \in Nat /\ cur \in Nat
    BY <2>1 DEF Mapped
  <2>3. nw \in Nat
    BY <2>1, PanelSizes, Grid
  <2>4. k \in Nat
    BY PanelSizes
  <2> HIDE DEF nw, map, len
  <2>5. nw <= len
    BY <2>1, <2>2, <2>3
  <2> QED
    BY <2>1, <2>2, <2>4, <2>5 DEF nw
<1>4. panel' = PanelMoves(panel, end) /\ seen' = SeenPrints(seen, x, u, stays, c, leaves)
  BY DEF FD!PrintText, PanelMoves, SeenPrints
<1>5. panel'.rows = n /\ panel'.todo = panel.todo
  <2> HIDE DEF end
  <2>1. panel' \in PanelSet(n, panel.todo, panel.pos, map, end)
    BY <1>1, <1>4, PanelChanges
  <2> HIDE DEF n
  <2> QED
    BY <2>1, PanelFields DEF n
<1>6. seen'.cells = c /\ seen'.fits = stays
  <2> HIDE DEF stays, leaves, x, u, c, a
  <2>1. seen' \in SeenSet(a, c, stays, leaves, u, seen.programs)
    BY <1>1, <1>4, SeenChanges, Zenon DEF a
  <2> QED
    BY <2>1, SeenFields
<1>7. Printed(paper, cur, k, text, paper')
  <2> DEFINE B(i) == IF i \in (cur + 1)..(cur + k + 1) THEN bytes[i - cur] ELSE paper[i]
             g == [i \in 1..len |-> B(i)]
  <2>1. paper' = g
    BY <1>1 DEF FD!PrintText
  <2>2. k <= l
    BY <1>3
  <2>3. /\ \A j \in 1..k : bytes[j] = text[j]
        /\ bytes[k + 1] = "0"
    <3> DEFINE s == [j \in 1..k |-> text[j]]
    <3>1. SubSeq(text, 1, k) = s
      BY <1>3
    <3> HIDE DEF k
    <3>2. s \in Seq({text[j] : j \in 1..k}) /\ Len(s) = k /\ \A j \in 1..k : s[j] = text[j]
      BY <1>3
    <3> HIDE DEF s
    <3>3. Append(s, "0")[k + 1] = "0" /\ \A j \in 1..k : Append(s, "0")[j] = s[j]
      BY <1>3, <3>2
    <3> QED
      BY <3>1, <3>2, <3>3
  <2> HIDE DEF B, len
  <2>4. Len(g) = len /\ \A i \in 1..len : g[i] = B(i)
    BY <1>3
  <2> HIDE DEF g
  <2>5. Len(paper') = len /\ \A i \in 1..len : paper'[i] = B(i)
    BY <2>1, <2>4
  <2> HIDE DEF bytes, k, cur
  <2>6. ASSUME NEW i \in 1..len, i \in (cur + 1)..(cur + k) PROVE paper'[i] = text[i - cur]
    <3>1. i - cur \in 1..k /\ i \in (cur + 1)..(cur + k + 1)
      BY <1>3, <2>6
    <3>2. B(i) = bytes[i - cur]
      BY <3>1 DEF B
    <3> QED
      BY <2>3, <2>5, <3>1, <3>2
  <2>7. ASSUME NEW i \in 1..len, i = cur + k + 1 PROVE paper'[i] = "0"
    <3>1. i - cur = k + 1 /\ i \in (cur + 1)..(cur + k + 1)
      BY <1>3, <2>7
    <3>2. B(i) = bytes[i - cur]
      BY <3>1 DEF B
    <3> QED
      BY <2>3, <2>5, <3>1, <3>2
  <2>8. ASSUME NEW i \in 1..len, i \notin (cur + 1)..(cur + k + 1) PROVE paper'[i] = paper[i]
    BY <2>5, <2>8 DEF B
  <2> QED
    BY <2>5, <2>6, <2>7, <2>8 DEF Printed, len
<1>8. CellsPrinted(seen.cells, at, k, text, c)
  <2> DEFINE T == {at[1]} \X (at[2]..(at[2] + k - 1))
             O == DOMAIN seen.cells \ ({at[1]} \X (at[2]..(at[2] + k)))
  <2>1. DOMAIN text_cells = T /\ \A p \in T : text_cells[p] = text[p[2] - at[2] + 1]
    OBVIOUS
  <2>2. DOMAIN other_cells = O /\ \A p \in O : other_cells[p] = seen.cells[p]
    BY DEF FD!Restrict
  <2>3. O \subseteq DOMAIN seen.cells /\ \A p \in O : p \notin {at[1]} \X (at[2]..(at[2] + k))
    OBVIOUS
  <2> HIDE DEF text_cells, other_cells, T, O
  <2>4. \A p \in DOMAIN c : \/ p \in T /\ c[p] = text[p[2] - at[2] + 1]
                            \/ p \in O /\ c[p] = seen.cells[p]
    BY <2>1, <2>2
  <2> HIDE DEF c
  <2> QED
    BY <2>3, <2>4 DEF CellsPrinted, T
<1>9. PanelShows(n, panel.todo, panel.pos, paper, seen.fits, seen.cells)
  BY DEF ShowInv
<1>10. ASSUME stays
       PROVE  /\ FeedsTo(paper', Len(paper'))
              /\ \A p \in DOMAIN c : CellIn(p, n, Len(paper'))
              /\ \A p \in DOMAIN c : paper'[CellAt(p)] = c[p]
  <2>1. at[1] < n /\ at[2] + l <= RowSize /\ seen.fits
    BY <1>10
  <2>2. at[2] + k <= RowSize /\ k <= l
    BY <1>3, <2>1
  <2>3. NoFeed(text, k)
    BY <1>3, <2>2 DEF NoFeed
  <2> DEFINE t == paper
             v == paper'
             sc == seen.cells
  <2>4. Shown(n, t, sc)
    BY <1>2, <1>9, <2>1 DEF PanelShows, Shown
  <2>5. Placed(n, Len(t), at, k, cur) /\ Printed(t, cur, k, text, v) /\ CellsPrinted(sc, at, k, text, c) /\ n \in Nat \ {0}
    BY <1>3, <1>7, <1>8, <2>1, <2>2 DEF Placed
  <2> HIDE DEF n, k, at, cur, c, t, v, sc, l
  <2>6. Shown(n, v, c)
    BY <2>3, <2>4, <2>5, ShowsPrinted
  <2> QED
    BY <2>6 DEF v, Shown
<1>11. PanelShows(n, panel'.todo, panel'.pos, paper', stays, c)
  <2>1. panel'.todo = <<>>
    BY <1>2, <1>5
  <2> HIDE DEF n, c, stays
  <2> QED
    BY <1>10, <2>1 DEF PanelShows
<1> HIDE DEF c, stays, n
<1> QED
  BY <1>5, <1>6, <1>11 DEF ShowInv

LEMMA ShowSteps ==
  ASSUME PanelInv, ShowInv, FD!Next PROVE ShowInv'
<1>1. CASE FD!Initialize \/ FD!Clear
  BY <1>1, ShowStarts
<1>2. CASE FD!ClearWrite
  BY <1>2, ShowWrites
<1>3. CASE FD!Die
  BY <1>3, ShowDies
<1>4. CASE \E row \in 0..panel.rows, col \in {0, RowSize - 1, RowSize} : FD!SetCursorPos(row, col)
  BY <1>4, ShowSets
<1>5. CASE \E n \in Lengths : FD!PrintText([i \in 1..n |-> IF seen.ops % 2 = 0 THEN "a" ELSE "b"])
  <2>1. PICK n \in Lengths : FD!PrintText([i \in 1..n |-> IF seen.ops % 2 = 0 THEN "a" ELSE "b"])
    BY <1>5, Zenon
  <2> DEFINE c == IF seen.ops % 2 = 0 THEN "a" ELSE "b"
             text == [i \in 1..n |-> c]
  <2>2. n \in Nat /\ c # "n"
    BY PanelSizes
  <2> HIDE DEF c
  <2>3. Len(text) = n /\ \A i \in 1..n : text[i] # "n"
    BY <2>2
  <2>4. FD!PrintText(text)
    BY <2>1 DEF c
  <2> HIDE DEF text
  <2> QED
    BY <2>2, <2>3, <2>4, ShowPrints
<1> QED
  BY <1>1, <1>2, <1>3, <1>4, <1>5 DEF FD!Next

\* The second row begins behind the first line feed.
LEMMA SecondRow ==
  ASSUME DOMAIN paper = 1..Len(paper), Len(paper) \in Nat, RowSize + 3 <= Len(paper), FeedsTo(paper, Len(paper))
  PROVE  FD!LineAt(1) = RowSize + 3
<1> DEFINE y == RowSize + 3
           n == Len(paper)
           E == {i \in 1..n : paper[i] = "n"}
           C(i) == i \in E /\ Rank(E, i) = 1
<1>1. y \in Nat /\ n \in Nat /\ y >= 1 /\ y \in 1..n
  BY PanelSizes
<1>2. Positions(E, n)
  BY <1>1 DEF Positions
<1>3. ASSUME NEW i \in E, i <= y PROVE i = y
  BY <1>1, <1>3 DEF FeedsTo
<1>4. y \in E
  BY <1>1 DEF FeedsTo
<1> HIDE DEF y, n, E
<1>5. Rank(E, y) = 1
  <2>1. {j \in E : j <= y} = {y}
    <3>1. y <= y
      BY <1>1
    <3> QED
      BY <1>3, <1>4, <3>1, Zenon
  <2> QED
    BY <2>1, FS_Singleton, Zenon DEF Rank
<1>6. ASSUME NEW i \in E, i # y PROVE Rank(E, i) # 1
  <2>1. i \in Nat /\ i > 0
    BY <1>2, RankFacts
  <2>2. i > y
    BY <1>1, <1>3, <1>6, <2>1
  <2> DEFINE k == i - 1
  <2>3. k \in Nat /\ y <= k
    BY <1>1, <2>1, <2>2
  <2>4. Rank(E, i) = Rank(E, k) + 1
    BY <1>2, <2>1, RankFacts
  <2> HIDE DEF k
  <2>5. 1 <= Rank(E, k)
    BY <1>1, <1>2, <1>5, <2>3, RankGrows
  <2>6. Rank(E, k) \in Nat
    BY <1>2, <2>3, RankFacts
  <2> QED
    BY <2>4, <2>5, <2>6
<1>7. C(y) /\ \A i : C(i) => i = y
  BY <1>4, <1>5, <1>6
<1>8. (CHOOSE i \in E : Cardinality({j \in E : j <= i}) = 1) = y
  <2>1. \A i : (i \in E /\ Cardinality({j \in E : j <= i}) = 1) <=> i = y
    BY <1>7, Zenon DEF Rank
  <2> QED
    BY <2>1, Zenon
<1>9. FD!LineAt(1) = CHOOSE i \in E : Cardinality({j \in E : j <= i}) = 1
  BY DEF FD!LineAt, E, n, FD!Cardinality, Cardinality
<1> QED
  BY <1>8, <1>9, Zenon DEF y

LEMMA ShowImplies == ASSUME PanelInv, ShowInv PROVE FD!PanelReadsBack
<1> SUFFICES ASSUME panel.todo = <<>>, panel.map # -1, seen.fits, panel.rows <= 2, NEW p \in DOMAIN seen.cells
             PROVE  paper[FD!LineAt(p[1]) + p[2] + 1] = seen.cells[p]
  BY DEF FD!PanelReadsBack, FD!Idle, FD!None
<1> DEFINE n == panel.rows
           y == RowSize + 3
           len == Len(paper)
           b == p[2]
<1>1. n \in Nat \ {0} /\ len \in Nat /\ DOMAIN paper = 1..len /\ Mapped(n, panel.map, panel.cur, len) /\ y \in Nat
  BY PanelSizes DEF PanelInv, PanelFacts
<1>2. FeedsTo(paper, len) /\ CellIn(p, n, len) /\ paper[CellAt(p)] = seen.cells[p]
  BY DEF ShowInv, PanelShows
<1>3. b \in Nat /\ p[1] \in Nat /\ p[1] < n /\ CellAt(p) = p[1] * y + b + 1
  BY <1>2 DEF CellIn, CellAt
<1>4. CASE p[1] = 0
  <2>1. FD!LineAt(p[1]) = 0
    BY <1>4 DEF FD!LineAt
  <2>2. p[1] * y = 0
    BY <1>1, <1>4
  <2> HIDE DEF y
  <2> QED
    BY <1>2, <1>3, <2>1, <2>2
<1>5. CASE p[1] = 1
  <2>1. n = 2 /\ p[1] * y = y
    BY <1>1, <1>3, <1>5
  <2>2. y <= len
    <3>1. n * y <= panel.map /\ panel.map <= len /\ panel.map \in Nat
      BY <1>1 DEF Mapped
    <3>2. 2 * y <= len
      <4> DEFINE f == n * y
      <4>1. f = 2 * y /\ f \in Nat
        BY <1>1, <2>1
      <4> HIDE DEF f, y, len
      <4>2. f <= len
        BY <1>1, <3>1, <4>1 DEF f
      <4> QED
        BY <4>1, <4>2
    <3> HIDE DEF y, len
    <3> QED
      BY <1>1, <3>2
  <2>3. FD!LineAt(p[1]) = y
    <3>1. FD!LineAt(1) = y
      BY <1>1, <1>2, <2>2, SecondRow
    <3> QED
      BY <1>5, <3>1
  <2> HIDE DEF y
  <2> QED
    BY <1>2, <1>3, <2>1, <2>3
<1>6. p[1] = 0 \/ p[1] = 1
  <2> DEFINE r == p[1]
  <2>1. r \in Nat /\ r < n /\ n \in Nat /\ n <= 2
    BY <1>1, <1>3
  <2> HIDE DEF r, n
  <2>2. r = 0 \/ r = 1
    BY <2>1
  <2> QED
    BY <2>2 DEF r
<1> QED
  BY <1>4, <1>5, <1>6

-----------------------------------------------------------------------------
(***************************************************************************)
(* The algorithms that are fed with one value after the other.             *)
(***************************************************************************)
LEMMA SumSizes ==
  /\ Base \in Nat /\ Base > 1 /\ TLen \in Nat /\ TLen > 0
  /\ \A w \in Words : w \in Nat /\ w <= Base - 1
  /\ FL!Carry = Base + TLen
BY ServicesAssumption DEF FL!Parameters, FL!Carry

LEMMA SumsOf == Totals(data, FL!Sums)
BY DEF FL!Sums, Prefixes, Totals

\* The sums of a block that has begun, before they could overflow.
SumFields(s) == s \in [sum1 : Nat, sum2 : Nat, n : 0..(TLen - 1)]
SumSmall(s) ==
  /\ s.sum1 < Base * Base /\ s.sum2 < Base * Base
  /\ s.sum1 <= FL!Carry + (Base - 1) * s.n
  /\ 2 * s.sum2 <= 4 * Base + 2 * (s.n * FL!Carry) + (Base - 1) * (s.n * (s.n + 1))
  /\ s.n = 0 => s.sum1 <= 2 * Base - 2 /\ s.sum2 <= 2 * Base - 2
SumTrue(s, t) == s.sum1 % (Base - 1) = t[1] % (Base - 1) /\ s.sum2 % (Base - 1) = t[2] % (Base - 1)

SumInv ==
  /\ SumFields(sum) /\ SumSmall(sum)
  /\ data \in Seq(Nat) /\ FL!Sums \in Nat \X Nat /\ SumTrue(sum, FL!Sums)

\* The bound on the second sum after k words.
Most(k) == 4 * Base + 2 * (k * FL!Carry) + (Base - 1) * (k * (k + 1))

\* Within a block, neither sum reaches the width of the accumulator.
LEMMA NoOverflow ==
  ASSUME NEW k \in 1..TLen
  PROVE  /\ Most(k) < 2 * (Base * Base)
         /\ 2 * (FL!Carry + (Base - 1) * k) < 2 * (Base * Base)
         /\ Most(k) = Most(k - 1) + 2 * (FL!Carry + (Base - 1) * k)
         /\ (Base - 1) * k = (Base - 1) * (k - 1) + (Base - 1)
         /\ Most(k) \in Nat /\ Most(k - 1) \in Nat /\ (Base - 1) * k \in Nat /\ (Base - 1) * (k - 1) \in Nat
         /\ Base * Base \in Nat
<1> DEFINE b == Base
           t == TLen
           c == FL!Carry
           m == b - 1
           kc == k * c
           tc == t * c
           kk == k * (k + 1)
           tt == t * (t + 1)
           mkk == m * kk
           mtt == m * tt
           bb == b * b
           mk == m * k
           j == k - 1
           jc == j * c
           jk == j * k
           mjk == m * jk
           mj == m * j
<1>1. /\ b \in Nat /\ b > 1 /\ t \in Nat /\ c \in Nat /\ m \in Nat /\ k \in Nat /\ k >= 1 /\ k <= t
      /\ j \in Nat /\ k = j + 1
  BY SumSizes
<1>2. 4 * b + 2 * tc + mtt < 2 * bb
  <2>1. 4 * Base + 2 * TLen * FL!Carry + (Base - 1) * TLen * (TLen + 1) < 2 * Base * Base
    BY ServicesAssumption DEF FL!Parameters
  <2>2. 2 * TLen * FL!Carry = 2 * (TLen * FL!Carry) /\ 2 * Base * Base = 2 * (Base * Base)
    BY <1>1
  <2>3. (Base - 1) * TLen * (TLen + 1) = (Base - 1) * (TLen * (TLen + 1))
    BY <1>1
  <2> QED
    BY <2>1, <2>2, <2>3
<1> HIDE DEF b, t, c, m, j
<1>3. kc <= tc /\ kc \in Nat /\ tc \in Nat /\ kc = jc + c /\ jc \in Nat
  <2>1. k * c = c * k /\ t * c = c * t /\ c * k <= c * t /\ c * k \in Nat /\ c * t \in Nat
    BY <1>1, Times
  <2>2. (j + 1) * c = j * c + c /\ j * c \in Nat
    BY <1>1
  <2> QED
    BY <1>1, <2>1, <2>2
<1>4. kk <= tt /\ kk \in Nat /\ tt \in Nat /\ kk = jk + 2 * k /\ jk \in Nat
  <2>1. k * (k + 1) <= k * (t + 1) /\ (t + 1) * k <= (t + 1) * t
    BY <1>1, Times
  <2>2. k * (t + 1) = (t + 1) * k /\ (t + 1) * t = t * (t + 1)
    BY <1>1
  <2>3. k * (k + 1) \in Nat /\ t * (t + 1) \in Nat /\ k * (t + 1) \in Nat /\ j * k \in Nat
    BY <1>1
  <2>4. (j + 1) * k = j * k + k /\ k * (k + 1) = k * k + k
    BY <1>1
  <2> QED
    BY <1>1, <2>1, <2>2, <2>3, <2>4
<1>5. mk = mj + m /\ mk \in Nat /\ mj \in Nat
  <2>1. m * (j + 1) = m * j + m * 1 /\ m * j \in Nat
    BY <1>1, Distributes
  <2> QED
    BY <1>1, <2>1
<1> HIDE DEF kc, tc, kk, tt, jc, jk
<1>6. mkk <= mtt /\ mkk \in Nat /\ mtt \in Nat
  <2>1. m * kk <= m * tt /\ m * kk \in Nat /\ m * tt \in Nat
    BY <1>1, <1>4, Times
  <2> QED
    BY <2>1
<1>7. mkk = mjk + 2 * mk /\ mjk \in Nat
  <2>1. m * (jk + (k + k)) = m * jk + m * (k + k) /\ m * jk \in Nat
    BY <1>1, <1>4, Distributes
  <2>2. m * (k + k) = mk + mk
    BY <1>1, Distributes
  <2>3. kk = jk + (k + k)
    BY <1>1, <1>4
  <2>4. mkk = mjk + (mk + mk) /\ mjk \in Nat
    BY <2>1, <2>2, <2>3
  <2> HIDE DEF mkk, mjk, mk
  <2> QED
    BY <1>5, <1>6, <2>4
<1>8. bb \in Nat
  BY <1>1
<1>9. c <= kc /\ 2 * mk <= mkk
  <2>1. mjk >= 0 /\ jc >= 0
    BY <1>3, <1>7
  <2> HIDE DEF mjk, mkk, mk
  <2> QED
    BY <1>1, <1>3, <1>5, <1>6, <1>7, <2>1
<1>10. Most(k) = 4 * b + 2 * kc + mkk
  BY DEF Most, kc, mkk, kk, m, b, c
<1>11. Most(k - 1) = 4 * b + 2 * jc + mjk
  <2>1. (k - 1) + 1 = k
    OBVIOUS
  <2> QED
    BY <2>1 DEF Most, jc, mjk, jk, m, j, b, c
<1> DEFINE x == Most(k)
           y == Most(k - 1)
<1>12. x = 4 * b + 2 * kc + mkk /\ y = 4 * b + 2 * jc + mjk
  BY <1>10, <1>11
<1> HIDE DEF x, y, mkk, mtt, mjk, mk, mj, bb
<1>13. /\ x < 2 * bb /\ 2 * (c + mk) < 2 * bb /\ x = y + 2 * (c + mk)
       /\ x \in Nat /\ y \in Nat
  BY <1>1, <1>2, <1>3, <1>5, <1>6, <1>7, <1>8, <1>9, <1>12
<1> QED
  BY <1>5, <1>8, <1>13 DEF x, y, mk, mj, bb, b, c, m, j

LEMMA SumBegins == ASSUME FL!Init PROVE SumInv
<1> DEFINE b == Base - 1
           none == <<>>
           zero == <<0, 0>>
           bb == Base * Base
<1>1. b \in Nat /\ b > 0 /\ 0 \in 0..(TLen - 1) /\ Base \in Nat /\ Base = b + 1
  BY SumSizes
<1>2. sum = [sum1 |-> b, sum2 |-> b, n |-> 0] /\ data = none
  BY DEF FL!Init
<1>3. none \in Seq(Nat) /\ Len(none) = 0 /\ zero \in Nat \X Nat /\ zero[1] = 0 /\ zero[2] = 0
  OBVIOUS
<1>4. FL!Sums = zero
  <2>1. AddsUp(Prefixes(none), none)
    BY <1>3, PrefixesAdd, Zenon
  <2>2. Prefixes(none)[Len(none)] = zero
    BY <1>3, <2>1 DEF AddsUp
  <2> QED
    BY <1>2, <2>2, SumsOf DEF Totals
<1> HIDE DEF none, zero
<1>5. b < bb /\ bb \in Nat
  <2>1. 1 <= Base /\ Base * Base \in Nat
    BY <1>1
  <2>2. Base * 1 <= Base * Base
    BY <1>1, <2>1, Times
  <2> HIDE DEF b
  <2> QED
    BY <1>1, <2>1, <2>2
<1>6. FL!Carry \in Nat /\ FL!Carry >= b /\ 0 * FL!Carry = 0
  BY SumSizes
<1>7. b * 0 = 0 /\ b * (0 * (0 + 1)) = 0
  <2> HIDE DEF b
  <2> QED
    BY <1>1
<1>8. b % b = 0 /\ 0 % b = 0
  <2> HIDE DEF b
  <2>1. b = b * 1 + 0 /\ 0 = b * 0 + 0 /\ 0 \in 0..(b - 1)
    BY <1>1
  <2> QED
    BY <1>1, <2>1, RemainderOf
<1>9. SumFields(sum) /\ sum.sum1 = b /\ sum.sum2 = b /\ sum.n = 0
  <2> HIDE DEF b
  <2> QED
    BY <1>1, <1>2 DEF SumFields
<1>10. SumSmall(sum)
  <2>1. sum.sum1 <= FL!Carry + b * sum.n
    BY <1>1, <1>6, <1>7, <1>9
  <2>2. 2 * sum.sum2 <= 4 * Base + 2 * (sum.n * FL!Carry) + b * (sum.n * (sum.n + 1))
    BY <1>1, <1>6, <1>7, <1>9
  <2>3. sum.sum1 < bb /\ sum.sum2 < bb
    BY <1>5, <1>9
  <2>4. sum.sum1 <= 2 * Base - 2 /\ sum.sum2 <= 2 * Base - 2
    BY <1>1, <1>9
  <2> QED
    BY <2>1, <2>2, <2>3, <2>4 DEF SumSmall
<1>11. SumTrue(sum, zero)
  BY <1>3, <1>8, <1>9 DEF SumTrue
<1> QED
  BY <1>2, <1>3, <1>4, <1>9, <1>10, <1>11 DEF SumInv

\* A word is added without a loss.
LEMMA AddedTrue ==
  ASSUME NEW s, SumFields(s), SumSmall(s), NEW w \in Words
  PROVE  LET r == FL!Added(s, w) IN
         /\ r = [sum1 |-> s.sum1 + w, sum2 |-> s.sum2 + (s.sum1 + w), n |-> s.n + 1]
         /\ s.n + 1 \in 1..TLen
         /\ s.sum1 + w < Base * Base /\ s.sum2 + (s.sum1 + w) < Base * Base
         /\ s.sum1 + w <= FL!Carry + (Base - 1) * (s.n + 1)
         /\ 2 * (s.sum2 + (s.sum1 + w)) <= Most(s.n + 1)
<1> DEFINE x == s.sum1 + w
           y == s.sum2 + x
           k == s.n + 1
           bb == Base * Base
           b == Base - 1
           bk == b * k
           bj == b * s.n
           c == FL!Carry
           mk == Most(k)
           mj == Most(s.n)
<1>1. s.sum1 \in Nat /\ s.sum2 \in Nat /\ s.n \in 0..(TLen - 1) /\ w \in Nat /\ w <= b /\ b \in Nat /\ c \in Nat
  BY SumSizes DEF SumFields
<1>2. k \in 1..TLen /\ k - 1 = s.n
  BY <1>1, SumSizes
<1>3. mk < 2 * bb /\ 2 * (c + bk) < 2 * bb /\ mk = mj + 2 * (c + bk) /\ bk = bj + b
      /\ mk \in Nat /\ mj \in Nat /\ bk \in Nat /\ bj \in Nat /\ bb \in Nat
  <2> HIDE DEF k
  <2>1. /\ Most(k) < 2 * (Base * Base)
        /\ 2 * (FL!Carry + (Base - 1) * k) < 2 * (Base * Base)
        /\ Most(k) = Most(k - 1) + 2 * (FL!Carry + (Base - 1) * k)
        /\ (Base - 1) * k = (Base - 1) * (k - 1) + (Base - 1)
        /\ Most(k) \in Nat /\ Most(k - 1) \in Nat /\ (Base - 1) * k \in Nat /\ (Base - 1) * (k - 1) \in Nat
        /\ Base * Base \in Nat
    BY <1>2, NoOverflow
  <2> QED
    BY <1>2, <2>1
<1>4. s.sum1 <= c + bj /\ 2 * s.sum2 <= mj
  BY DEF SumSmall, Most
<1>5. FL!Added(s, w) = [sum1 |-> x % bb, sum2 |-> (s.sum2 + (x % bb)) % bb, n |-> k]
  BY DEF FL!Added
<1> HIDE DEF bb, b, bk, bj, c, mk, mj
<1>6. x \in Nat /\ x <= c + bk /\ x < bb
  BY <1>1, <1>3, <1>4
<1>7. x % bb = x
  BY <1>3, <1>6
<1> HIDE DEF x
<1>8. y \in Nat /\ 2 * y <= mk /\ y < bb
  BY <1>1, <1>3, <1>4, <1>6
<1>9. y % bb = y
  BY <1>3, <1>8
<1>10. FL!Added(s, w) = [sum1 |-> x, sum2 |-> y, n |-> k]
  BY <1>5, <1>7, <1>9
<1> QED
  BY <1>2, <1>6, <1>8, <1>10 DEF x, bb, b, bk, c, mk

\* Reducing keeps the sums and makes them small.
LEMMA FoldedTrue ==
  ASSUME NEW x \in Nat, NEW y \in Nat, x < Base * Base, y < Base * Base
  PROVE  /\ FL!Fold(x) \in Nat /\ FL!Fold(y) \in Nat
         /\ FL!Fold(x) <= 2 * Base - 2 /\ FL!Fold(y) <= 2 * Base - 2
         /\ FL!Fold(x) % (Base - 1) = x % (Base - 1) /\ FL!Fold(y) % (Base - 1) = y % (Base - 1)
         /\ x <= FL!Carry + (Base - 1) * TLen => FL!Fold(x) <= FL!Carry
         /\ x <= 2 * Base - 2 => FL!Fold(x) < Base
         /\ y <= 2 * Base - 2 => FL!Fold(y) < Base
<1>1. Base \in Nat /\ Base > 1
  BY SumSizes
<1>2. /\ FL!Fold(x) \in Nat /\ FL!Fold(x) <= 2 * Base - 2 /\ FL!Fold(x) % (Base - 1) = x % (Base - 1)
      /\ x <= 2 * Base - 2 => FL!Fold(x) < Base
      /\ \A z \in Nat : x <= z => FL!Fold(x) <= (Base - 1) + (z \div Base)
  <2>1. FL!Fold(x) = (x % Base) + (x \div Base)
    BY DEF FL!Fold
  <2> QED
    BY <1>1, <2>1, FoldFacts, Zenon
<1>3. /\ FL!Fold(y) \in Nat /\ FL!Fold(y) <= 2 * Base - 2 /\ FL!Fold(y) % (Base - 1) = y % (Base - 1)
      /\ y <= 2 * Base - 2 => FL!Fold(y) < Base
  <2>1. FL!Fold(y) = (y % Base) + (y \div Base)
    BY DEF FL!Fold
  <2> QED
    BY <1>1, <2>1, FoldFacts, Zenon
<1>4. x <= FL!Carry + (Base - 1) * TLen => FL!Fold(x) <= FL!Carry
  <2> DEFINE z == FL!Carry + (Base - 1) * TLen
             q == z \div Base
  <2>1. z \in Nat /\ q <= TLen + 1
    <3>1. (FL!Carry + (Base - 1) * TLen) \div Base <= TLen + 1
      BY ServicesAssumption DEF FL!Parameters
    <3>2. (Base - 1) * TLen \in Nat /\ FL!Carry \in Nat
      BY SumSizes
    <3> QED
      BY <3>1, <3>2
  <2> HIDE DEF z
  <2>2. x <= z => FL!Fold(x) <= (Base - 1) + q
    BY <1>2, <2>1
  <2>3. q \in Nat
    BY <1>1, <2>1
  <2> HIDE DEF q
  <2>4. x <= z => FL!Fold(x) <= FL!Carry
    BY <1>2, <2>1, <2>2, <2>3, SumSizes
  <2> QED
    BY <2>4 DEF z
<1> QED
  BY <1>2, <1>3, <1>4

LEMMA SumSteps == ASSUME SumInv, FL!Next PROVE SumInv'
<1>1. PICK w \in Words : FL!Add(w)
  BY DEF FL!Next
<1> DEFINE m == Base - 1
           x == sum.sum1 + w
           y == sum.sum2 + x
           k == sum.n + 1
           s == [sum1 |-> x, sum2 |-> y, n |-> k]
           z == [sum1 |-> FL!Fold(x), sum2 |-> FL!Fold(y), n |-> 0]
           t == FL!Sums
           u == FL!Sums'
<1>2. w \in Nat /\ data \in Seq(Nat) /\ SumFields(sum) /\ SumSmall(sum) /\ t \in Nat \X Nat /\ SumTrue(sum, t)
  BY SumSizes DEF SumInv
<1>3. /\ FL!Added(sum, w) = s /\ k \in 1..TLen
      /\ x < Base * Base /\ y < Base * Base /\ x <= FL!Carry + m * k /\ 2 * y <= Most(k)
  BY <1>2, AddedTrue
<1>4. s.n = k /\ FL!Folded(s) = z
  BY DEF FL!Folded
<1>5. sum' = (IF k = TLen THEN z ELSE s) /\ data' = Append(data, w)
  <2> HIDE DEF s, z, k
  <2> QED
    BY <1>1, <1>3, <1>4 DEF FL!Add, FL!Block
<1>6. u \in Nat \X Nat /\ u[1] = t[1] + w /\ u[2] = t[2] + u[1] /\ data' \in Seq(Nat)
  <2>1. Totals(data', u)
    BY DEF FL!Sums, Prefixes, Totals
  <2>2. Totals(data, t)
    BY SumsOf
  <2>3. data' = Append(data, w)
    BY <1>5
  <2> HIDE DEF t, u
  <2> DEFINE e == data'
  <2>4. e = Append(data, w) /\ Totals(e, u)
    BY <2>1, <2>3
  <2> HIDE DEF e
  <2>5. OneMore(t, u, w)
    BY <1>2, <2>2, <2>4, SumsGrow, Zenon
  <2> QED
    BY <1>2, <2>3, <2>5 DEF OneMore
<1> HIDE DEF t, u
<1>7. sum.sum1 \in Nat /\ sum.sum2 \in Nat /\ sum.n \in 0..(TLen - 1) /\ m \in Nat /\ m > 0 /\ t[1] \in Nat /\ t[2] \in Nat
      /\ TLen \in Nat /\ TLen > 0
  BY <1>2, SumSizes DEF SumFields
<1>8. x \in Nat /\ y \in Nat
  <2>1. sum.sum1 \in Nat /\ sum.sum2 \in Nat /\ w \in Nat
    BY <1>2, <1>7
  <2> QED
    BY <2>1
<1>9. x % m = u[1] % m /\ y % m = u[2] % m /\ u[1] \in Nat /\ u[2] \in Nat
  <2>1. sum.sum1 % m = t[1] % m /\ sum.sum2 % m = t[2] % m
    BY <1>2 DEF SumTrue
  <2>2. SameMod(m, sum.sum1, t[1]) /\ SameMod(m, sum.sum2, t[2]) /\ SameMod(m, w, w)
    BY <2>1 DEF SameMod
  <2> DEFINE i == sum.sum1
             j == sum.sum2
             g == t[1]
             h == t[2]
             p == g + w
             q == h + p
  <2>3. i \in Nat /\ j \in Nat /\ g \in Nat /\ h \in Nat /\ w \in Nat /\ x = i + w /\ y = j + x
        /\ SameMod(m, i, g) /\ SameMod(m, j, h) /\ SameMod(m, w, w)
    BY <1>2, <1>7, <2>2
  <2> HIDE DEF m, i, j, g, h
  <2>4. SameMod(m, x, p) /\ p \in Nat
    BY <1>7, <2>3, SameModAdds
  <2> HIDE DEF p, x
  <2>5. SameMod(m, y, q) /\ q \in Nat
    BY <1>7, <1>8, <2>3, <2>4, SameModAdds
  <2>6. u[1] = p /\ u[2] = q
    BY <1>6 DEF p, g, h
  <2> HIDE DEF q, y
  <2> QED
    BY <2>4, <2>5, <2>6, Zenon DEF SameMod
<1>10. /\ FL!Fold(x) \in Nat /\ FL!Fold(y) \in Nat
       /\ FL!Fold(x) <= 2 * Base - 2 /\ FL!Fold(y) <= 2 * Base - 2
       /\ FL!Fold(x) % m = x % m /\ FL!Fold(y) % m = y % m
       /\ x <= FL!Carry + m * TLen => FL!Fold(x) <= FL!Carry
  <2> HIDE DEF x, y
  <2> QED
    BY <1>3, <1>8, FoldedTrue
<1>11. CASE k = TLen
  <2> DEFINE v == FL!Fold(x)
             h == FL!Fold(y)
             bb == Base * Base
  <2>1. sum' = [sum1 |-> v, sum2 |-> h, n |-> 0]
    BY <1>5, <1>11
  <2>2. v \in Nat /\ h \in Nat /\ v <= 2 * Base - 2 /\ h <= 2 * Base - 2 /\ v <= FL!Carry
        /\ v % m = u[1] % m /\ h % m = u[2] % m
    <3> HIDE DEF x, y, m
    <3> QED
      BY <1>3, <1>9, <1>10, <1>11
  <2> HIDE DEF v, h, k
  <2>3. SumFields(sum') /\ sum'.sum1 = v /\ sum'.sum2 = h /\ sum'.n = 0
    <3>1. 0 \in 0..(TLen - 1)
      BY <1>7
    <3> QED
      BY <2>1, <2>2, <3>1 DEF SumFields
  <2>4. SumTrue(sum', u)
    BY <2>2, <2>3 DEF SumTrue
  <2>5. 2 * Base - 2 < bb /\ bb \in Nat
    <3>1. Base \in Nat /\ 2 <= Base /\ Base * Base \in Nat
      BY SumSizes
    <3>2. Base * 2 <= Base * Base
      BY <3>1, Times
    <3> QED
      BY <3>1, <3>2
  <2>6. m * 0 = 0 /\ m * (0 * (0 + 1)) = 0 /\ FL!Carry \in Nat /\ Base \in Nat /\ 0 * FL!Carry = 0
    <3>1. FL!Carry \in Nat /\ Base \in Nat
      BY SumSizes
    <3> HIDE DEF m
    <3> QED
      BY <1>7, <3>1
  <2>7. sum'.sum1 <= FL!Carry + m * sum'.n
    BY <2>2, <2>3, <2>6
  <2>8. 2 * sum'.sum2 <= 4 * Base + 2 * (sum'.n * FL!Carry) + m * (sum'.n * (sum'.n + 1))
    BY <2>2, <2>3, <2>6
  <2>9. SumSmall(sum')
    <3>1. v < bb /\ h < bb
      BY <2>2, <2>5, <2>6
    <3> HIDE DEF bb
    <3> QED
      BY <2>2, <2>3, <2>7, <2>8, <3>1 DEF SumSmall, bb
  <2> QED
    BY <1>6, <2>3, <2>4, <2>9 DEF SumInv, u
<1>12. CASE k # TLen
  <2>1. sum' = [sum1 |-> x, sum2 |-> y, n |-> k]
    BY <1>5, <1>12
  <2>2. k \in 0..(TLen - 1) /\ k # 0
    BY <1>3, <1>7, <1>12
  <2> HIDE DEF x, y, k
  <2>3. SumFields(sum') /\ sum'.sum1 = x /\ sum'.sum2 = y /\ sum'.n = k
    BY <1>8, <2>1, <2>2 DEF SumFields
  <2>4. SumTrue(sum', u)
    BY <1>9, <2>3 DEF SumTrue
  <2>5. SumSmall(sum')
    BY <1>3, <2>2, <2>3 DEF SumSmall, Most
  <2> QED
    BY <1>6, <2>3, <2>4, <2>5 DEF SumInv, u
<1> QED
  BY <1>11, <1>12

LEMMA SumImplies == ASSUME SumInv PROVE FL!TypeOK
<1>1. TLen \in Nat /\ TLen > 0
  BY SumSizes
<1>2. sum.n \in 0..(TLen - 1) /\ sum.sum1 \in Nat /\ sum.sum2 \in Nat
  BY DEF SumInv, SumFields
<1> QED
  BY <1>1, <1>2 DEF FL!TypeOK, FL!Block

\* What fletcher32 returns are the sums modulo 65535, each below 65536.
LEMMA SumChecks == ASSUME SumInv PROVE FL!ChecksumExact
<1> DEFINE m == Base - 1
           t == FL!Sums
           s == IF sum.n > 0 THEN FL!Folded(sum) ELSE sum
<1>1. /\ sum.sum1 \in Nat /\ sum.sum2 \in Nat /\ sum.n \in Nat /\ sum.sum1 < Base * Base /\ sum.sum2 < Base * Base
      /\ sum.sum1 % m = t[1] % m /\ sum.sum2 % m = t[2] % m
      /\ sum.n = 0 => sum.sum1 <= 2 * Base - 2 /\ sum.sum2 <= 2 * Base - 2
  BY SumSizes DEF SumInv, SumFields, SumSmall, SumTrue
<1>2. s.sum1 \in Nat /\ s.sum2 \in Nat /\ s.sum1 <= 2 * Base - 2 /\ s.sum2 <= 2 * Base - 2
      /\ s.sum1 % m = t[1] % m /\ s.sum2 % m = t[2] % m
  <2>1. CASE sum.n > 0
    <3>1. s = [sum1 |-> FL!Fold(sum.sum1), sum2 |-> FL!Fold(sum.sum2), n |-> 0]
      BY <2>1 DEF FL!Folded
    <3>2. s.sum1 = FL!Fold(sum.sum1) /\ s.sum2 = FL!Fold(sum.sum2)
      BY <3>1
    <3> DEFINE v == sum.sum1
               w == sum.sum2
    <3>3. v \in Nat /\ w \in Nat /\ v < Base * Base /\ w < Base * Base
      BY <1>1
    <3> HIDE DEF v, w
    <3>4. /\ FL!Fold(v) \in Nat /\ FL!Fold(w) \in Nat
          /\ FL!Fold(v) <= 2 * Base - 2 /\ FL!Fold(w) <= 2 * Base - 2
          /\ FL!Fold(v) % m = v % m /\ FL!Fold(w) % m = w % m
      BY <3>3, FoldedTrue
    <3> HIDE DEF s, t, m
    <3> QED
      BY <1>1, <3>2, <3>4 DEF v, w
  <2>2. CASE ~(sum.n > 0)
    <3>1. s = sum /\ sum.n = 0
      BY <1>1, <2>2
    <3> HIDE DEF s, t, m
    <3> QED
      BY <1>1, <3>1
  <2> QED
    BY <2>1, <2>2
<1>3. FL!Last = FL!Folded(s)
  BY DEF FL!Last
<1> HIDE DEF s, t
<1>4. FL!Last.sum1 = FL!Fold(s.sum1) /\ FL!Last.sum2 = FL!Fold(s.sum2)
  BY <1>3 DEF FL!Folded
<1>5. s.sum1 < Base * Base /\ s.sum2 < Base * Base
  <2> DEFINE bb == Base * Base
  <2>1. Base \in Nat /\ 2 <= Base /\ Base * Base \in Nat
    BY SumSizes
  <2>2. Base * 2 <= bb
    BY <2>1, Times
  <2>3. bb \in Nat
    BY <2>1
  <2> HIDE DEF bb
  <2>4. s.sum1 < bb /\ s.sum2 < bb
    BY <1>2, <2>1, <2>2, <2>3
  <2> QED
    BY <2>4 DEF bb
<1>6. /\ FL!Fold(s.sum1) < Base /\ FL!Fold(s.sum2) < Base
      /\ FL!Fold(s.sum1) % m = s.sum1 % m /\ FL!Fold(s.sum2) % m = s.sum2 % m
  BY <1>2, <1>5, FoldedTrue
<1> QED
  BY <1>2, <1>4, <1>6, Zenon DEF FL!ChecksumExact, t

\* What was fed and what the algorithm kept of it.
IsAverage(a, s) ==
  /\ a \in [kind : {"average"}, buffer : {a.buffer}, sum : {a.sum}, count : {a.count}, index : {a.index}]
  /\ AverageOf(a.buffer, a.index, a.count, a.sum, s, windowSize)
IsMedian(a, s) ==
  /\ a \in [kind : {"median"}, buffer : {a.buffer}, count : {a.count}, index : {a.index}]
  /\ RingOf(a.buffer, a.index, a.count, s, windowSize)
IsCrc8(a, s) == a \in [kind : {"crc8"}, crc : {a.crc}] /\ s \in Seq(EightBits) /\ Crc8Of(s, a.crc)
IsDallas(a, s) == a \in [kind : {"crc8Dallas"}, crc : {a.crc}] /\ s \in Seq(EightBits) /\ DallasOf(s, a.crc)
IsReverse(a, s) ==
  /\ a \in [kind : {"reverse"}, width : {8, 16, 32}, x : {a.x}]
  /\ s # <<>> => Len(s) = 1 /\ a.x = MW!Mirror(s[1], a.width)

AlgInv == IsAverage(acc, input) \/ IsMedian(acc, input) \/ IsCrc8(acc, input) \/ IsDallas(acc, input) \/ IsReverse(acc, input)

LEMMA AlgSizes ==
  /\ windowSize \in Nat /\ windowSize > 0 /\ AL!Window = [i \in 0..(windowSize - 1) |-> 0]
  /\ Values \subseteq Int /\ Octets \subseteq EightBits
<1>1. windowSize \in Nat \ {0} /\ Values \subseteq Int /\ Octets \subseteq SUBSET (0..7)
  BY ServicesAssumption DEF AL!Parameters
<1> QED
  BY <1>1 DEF AL!Window, EightBits

\* The words of the algorithms are those of the lemmas.
LEMMA AlgWords ==
  /\ \A c, b : AL!Xor(c, b) = MW!Xor(c, b)
  /\ \A x : AL!Bits(x, AL!ShiftLeft) = MW!Bits(x, MW!ShiftLeft) /\ AL!Bits(x, AL!ShiftRight) = MW!Bits(x, MW!ShiftRight)
  /\ \A x, w : AL!Mirror(x, w) = MW!Mirror(x, w) /\ AL!reverse_bits(x, w) = MW!reverse_bits(x, w)
  /\ \A p, m : AL!Remainder(p, m) = MW!Remainder(p, m)
  /\ \A s : AL!Message(s) = MW!Message(s)
<1>1. \A c, b : AL!Xor(c, b) = MW!Xor(c, b)
  BY DEF AL!Xor, MW!Xor
<1>2. \A x : AL!ShiftLeft(x) = MW!ShiftLeft(x) /\ AL!ShiftRight(x) = MW!ShiftRight(x)
  BY <1>1 DEF AL!ShiftLeft, AL!ShiftRight, MW!ShiftLeft, MW!ShiftRight, AL!Left, AL!Right, MW!Left, MW!Right
<1>3. \A x : AL!Bits(x, AL!ShiftLeft) = MW!Bits(x, MW!ShiftLeft) /\ AL!Bits(x, AL!ShiftRight) = MW!Bits(x, MW!ShiftRight)
  BY DEF AL!Bits, MW!Bits, AL!ShiftLeft, AL!ShiftRight, MW!ShiftLeft, MW!ShiftRight,
         AL!Left, AL!Right, MW!Left, MW!Right, AL!Xor, MW!Xor
<1>4. \A x, w : AL!Mirror(x, w) = MW!Mirror(x, w)
  BY DEF AL!Mirror, MW!Mirror
<1>5. \A x, w : AL!reverse_bits(x, w) = MW!reverse_bits(x, w)
  BY DEF AL!reverse_bits, MW!reverse_bits, AL!Swap, MW!Swap, AL!Even, MW!Even, AL!Left, AL!Right, MW!Left, MW!Right
<1>6. \A p, m : AL!Remainder(p, m) = MW!Remainder(p, m)
  BY DEF AL!Remainder, MW!Remainder, AL!Xor, MW!Xor
<1>7. \A s : AL!Message(s) = MW!Message(s)
  BY DEF AL!Message, MW!Message
<1> QED
  BY <1>1, <1>3, <1>4, <1>5, <1>6, <1>7

LEMMA AlgBegins == ASSUME AL!Init PROVE AlgInv
<1> DEFINE b == AL!Window
           no == {}
           all == 0..7
           none == <<>>
<1>1. \/ acc \in [kind : {"average"}, buffer : {b}, sum : {0}, count : {0}, index : {0}]
      \/ acc \in [kind : {"median"}, buffer : {b}, count : {0}, index : {0}]
      \/ acc \in [kind : {"crc8"}, crc : {all}]
      \/ acc \in [kind : {"crc8Dallas"}, crc : {no}]
      \/ acc \in [kind : {"reverse"}, width : {8, 16, 32}, x : {no}]
  BY DEF AL!Init
<1>2. AverageOf(b, 0, 0, 0, none, windowSize) /\ RingOf(b, 0, 0, none, windowSize)
  <2>1. AverageOf(b, 0, 0, 0, <<>>, windowSize)
    BY AlgSizes, AverageBegins
  <2> QED
    BY <2>1, Zenon DEF AverageOf
<1>3. Crc8Of(none, all) /\ DallasOf(none, no) /\ none \in Seq(EightBits)
  BY Crc8Starts
<1>4. input = none
  BY DEF AL!Init
<1> HIDE DEF b, no, all, none
<1>6. CASE acc \in [kind : {"average"}, buffer : {b}, sum : {0}, count : {0}, index : {0}]
  BY <1>2, <1>4, <1>6 DEF AlgInv, IsAverage
<1>7. CASE acc \in [kind : {"median"}, buffer : {b}, count : {0}, index : {0}]
  BY <1>2, <1>4, <1>7 DEF AlgInv, IsMedian
<1>8. CASE acc \in [kind : {"crc8"}, crc : {all}]
  BY <1>3, <1>4, <1>8 DEF AlgInv, IsCrc8
<1>9. CASE acc \in [kind : {"crc8Dallas"}, crc : {no}]
  BY <1>3, <1>4, <1>9 DEF AlgInv, IsDallas
<1>10. CASE acc \in [kind : {"reverse"}, width : {8, 16, 32}, x : {no}]
  <2>1. acc \in [kind : {"reverse"}, width : {8, 16, 32}, x : {acc.x}]
    BY <1>10
  <2>2. IsReverse(acc, input)
    BY <1>4, <2>1, Zenon DEF IsReverse, none
  <2> QED
    BY <2>2 DEF AlgInv
<1> QED
  BY <1>1, <1>6, <1>7, <1>8, <1>9, <1>10

LEMMA AlgKinds ==
  ASSUME AlgInv
  PROVE  /\ acc.kind = "average" => IsAverage(acc, input)
         /\ acc.kind = "median" => IsMedian(acc, input)
         /\ acc.kind = "crc8" => IsCrc8(acc, input)
         /\ acc.kind = "crc8Dallas" => IsDallas(acc, input)
         /\ acc.kind = "reverse" => IsReverse(acc, input)
BY DEF AlgInv, IsAverage, IsMedian, IsCrc8, IsDallas, IsReverse

LEMMA AlgAverages == ASSUME AlgInv, NEW v \in Values, AL!UpdateAverage(v) PROVE IsAverage(acc', input')
<1> DEFINE c == AL!Counted(acc)
           i == (acc.index + 1) % windowSize
           t == AL!SumWithout(acc) + v
           b == [acc.buffer EXCEPT ![acc.index] = v]
           z == acc'
           y == input'
<1>1. IsAverage(acc, input) /\ acc' = [acc EXCEPT !.buffer[acc.index] = v, !.sum = t, !.index = i, !.count = c]
      /\ y = Append(input, v)
  BY AlgKinds DEF AL!UpdateAverage, AL!Fed
<1>2. AverageOf(b, i, c, t, y, windowSize)
  <2>1. AverageOf(acc.buffer, acc.index, acc.count, acc.sum, input, windowSize) /\ v \in Int
        /\ windowSize \in Nat /\ windowSize > 0
    BY <1>1, AlgSizes DEF IsAverage
  <2>2. c = (IF acc.count < windowSize THEN acc.count + 1 ELSE acc.count) /\ t = acc.sum - acc.buffer[acc.index] + v
    BY DEF AL!Counted, AL!SumWithout
  <2> DEFINE r == acc.buffer
             g == acc.index
             h == acc.count
             u == acc.sum
  <2>3. AverageOf(r, g, h, u, input, windowSize) /\ b = [r EXCEPT ![g] = v] /\ i = (g + 1) % windowSize
        /\ c = (IF h < windowSize THEN h + 1 ELSE h) /\ t = u - r[g] + v
    BY <2>1, <2>2
  <2> HIDE DEF r, g, h, u, b, y, c, i, t
  <2>4. AverageOf(b, (g + 1) % windowSize, IF h < windowSize THEN h + 1 ELSE h, u - r[g] + v, y, windowSize)
    BY <1>1, <2>1, <2>3, AverageMoves, Zenon
  <2> QED
    BY <2>3, <2>4, Zenon
<1> HIDE DEF c, i, t, y
<1>3. z \in [kind : {"average"}, buffer : {b}, sum : {t}, count : {c}, index : {i}]
  BY <1>1, Zenon DEF IsAverage
<1> HIDE DEF b, z
<1>4. z.buffer = b /\ z.sum = t /\ z.count = c /\ z.index = i
  BY <1>3
<1>5. IsAverage(z, y)
  BY <1>2, <1>3, <1>4 DEF IsAverage
<1> QED
  BY <1>5 DEF z, y

LEMMA AlgUpdatesMedian == ASSUME AlgInv, NEW v \in Values, AL!UpdateMedian(v) PROVE IsMedian(acc', input')
<1> DEFINE c == AL!Counted(acc)
           i == (acc.index + 1) % windowSize
           b == [acc.buffer EXCEPT ![acc.index] = v]
           z == acc'
           y == input'
<1>1. IsMedian(acc, input) /\ acc' = [acc EXCEPT !.buffer[acc.index] = v, !.index = i, !.count = c]
      /\ y = Append(input, v)
  BY AlgKinds DEF AL!UpdateMedian, AL!Fed
<1>2. RingOf(b, i, c, y, windowSize)
  <2>1. RingOf(acc.buffer, acc.index, acc.count, input, windowSize) /\ v \in Int
        /\ windowSize \in Nat /\ windowSize > 0
    BY <1>1, AlgSizes DEF IsMedian
  <2>2. c = (IF acc.count < windowSize THEN acc.count + 1 ELSE acc.count)
    BY DEF AL!Counted
  <2> DEFINE r == acc.buffer
             g == acc.index
             h == acc.count
  <2>3. RingOf(r, g, h, input, windowSize) /\ b = [r EXCEPT ![g] = v] /\ i = (g + 1) % windowSize
        /\ c = (IF h < windowSize THEN h + 1 ELSE h)
    BY <2>1, <2>2
  <2> HIDE DEF r, g, h, b, y, c, i
  <2>4. RingOf(b, (g + 1) % windowSize, IF h < windowSize THEN h + 1 ELSE h, y, windowSize)
    BY <1>1, <2>1, <2>3, RingTurns, Zenon
  <2> QED
    BY <2>3, <2>4, Zenon
<1> HIDE DEF c, i, y
<1>3. z \in [kind : {"median"}, buffer : {b}, count : {c}, index : {i}]
  BY <1>1, Zenon DEF IsMedian
<1> HIDE DEF b, z
<1>4. z.buffer = b /\ z.count = c /\ z.index = i
  BY <1>3
<1>5. IsMedian(z, y)
  BY <1>2, <1>3, <1>4 DEF IsMedian
<1> QED
  BY <1>5 DEF z, y

LEMMA AlgResetsMedian == ASSUME AlgInv, NEW v \in Values, AL!ResetMedian(v) PROVE IsMedian(acc', input')
<1> DEFINE b == [i \in DOMAIN AL!Window |-> v]
           z == acc'
           y == input'
           none == <<>>
<1>1. IsMedian(acc, input) /\ acc' = [acc EXCEPT !.buffer = b, !.index = 0, !.count = 0] /\ y = none
  BY AlgKinds DEF AL!ResetMedian
<1>2. RingOf(b, 0, 0, none, windowSize)
  <2>1. b \in [0..(windowSize - 1) -> Int]
    BY AlgSizes
  <2> QED
    BY <2>1, AlgSizes, RingBegins
<1> HIDE DEF b, y, none
<1>3. z \in [kind : {"median"}, buffer : {b}, count : {0}, index : {0}]
  BY <1>1, Zenon DEF IsMedian
<1> HIDE DEF z
<1>4. z.buffer = b /\ z.count = 0 /\ z.index = 0
  BY <1>3
<1>5. IsMedian(z, y)
  BY <1>1, <1>2, <1>3, <1>4 DEF IsMedian
<1> QED
  BY <1>5 DEF z, y

LEMMA AlgCrcs == ASSUME AlgInv, NEW e \in Octets, AL!Crc(e) PROVE IsCrc8(acc', input') \/ IsDallas(acc', input')
<1> DEFINE c == AL!CrcByte(acc.crc, e)
           z == acc'
           y == input'
<1>1. /\ \/ IsCrc8(acc, input) /\ acc.kind = "crc8"
         \/ IsDallas(acc, input) /\ acc.kind = "crc8Dallas"
      /\ acc' = [acc EXCEPT !.crc = c] /\ y = Append(input, e) /\ e \in EightBits
  BY AlgKinds, AlgSizes DEF AL!Crc, AL!Fed
<1>2. /\ acc.kind = "crc8" => c = MW!Bits(MW!Xor(acc.crc, e), MW!ShiftLeft)
      /\ acc.kind = "crc8Dallas" => c = MW!Bits(MW!Xor(acc.crc, e), MW!ShiftRight)
  BY AlgWords DEF AL!CrcByte
<1> DEFINE d == acc.crc
<1> HIDE DEF c, y, z, d
<1>3. CASE IsCrc8(acc, input) /\ acc.kind = "crc8"
  <2>1. Crc8Of(input, d) /\ input \in Seq(EightBits) /\ c = MW!Bits(MW!Xor(d, e), MW!ShiftLeft)
    BY <1>2, <1>3 DEF IsCrc8, d
  <2>2. Crc8Of(y, c) /\ y \in Seq(EightBits)
    BY <1>1, <2>1, Crc8Grows, Zenon
  <2>3. z \in [kind : {"crc8"}, crc : {c}] /\ z.crc = c
    BY <1>1, <1>3 DEF IsCrc8, z
  <2>4. IsCrc8(z, y)
    BY <2>2, <2>3 DEF IsCrc8
  <2> QED
    BY <2>4 DEF z, y
<1>4. CASE IsDallas(acc, input) /\ acc.kind = "crc8Dallas"
  <2>1. DallasOf(input, d) /\ input \in Seq(EightBits) /\ c = MW!Bits(MW!Xor(d, e), MW!ShiftRight)
    BY <1>2, <1>4 DEF IsDallas, d
  <2>2. DallasOf(y, c) /\ y \in Seq(EightBits)
    BY <1>1, <2>1, DallasGrows, Zenon
  <2>3. z \in [kind : {"crc8Dallas"}, crc : {c}] /\ z.crc = c
    BY <1>1, <1>4 DEF IsDallas, z
  <2>4. IsDallas(z, y)
    BY <2>2, <2>3 DEF IsDallas
  <2> QED
    BY <2>4 DEF z, y
<1> QED
  BY <1>1, <1>3, <1>4

LEMMA AlgReverses == ASSUME AlgInv, NEW y, AL!ReverseBits(y) PROVE IsReverse(acc', input')
<1> DEFINE c == AL!reverse_bits(y, acc.width)
           z == acc'
           i == input'
<1>1. /\ IsReverse(acc, input) /\ acc' = [acc EXCEPT !.x = c]
      /\ input = <<>> /\ i = Append(input, y) /\ y \subseteq 0..(acc.width - 1)
  BY AlgKinds DEF AL!ReverseBits, AL!Fed
<1>2. acc.width \in {8, 16, 32}
  BY <1>1 DEF IsReverse
<1>3. c = MW!Mirror(y, acc.width)
  <2>1. c = MW!reverse_bits(y, acc.width)
    BY AlgWords
  <2> DEFINE w == acc.width
  <2>2. w \in {8, 16, 32} /\ y \in SUBSET (0..(w - 1))
    BY <1>1, <1>2
  <2> HIDE DEF w
  <2>3. MW!reverse_bits(y, w) = MW!Mirror(y, w)
    BY <2>2, ReverseIsMirror
  <2> QED
    BY <2>1, <2>3 DEF w
<1> HIDE DEF c
<1>4. z \in [kind : {"reverse"}, width : {8, 16, 32}, x : {c}] /\ z.width = acc.width
  BY <1>1 DEF IsReverse
<1>5. Len(i) = 1 /\ i[1] = y
  BY <1>1
<1> HIDE DEF z, i
<1>6. z.x = c
  BY <1>4
<1>7. IsReverse(z, i)
  BY <1>3, <1>4, <1>5, <1>6 DEF IsReverse
<1> QED
  BY <1>7 DEF z, i

LEMMA AlgSteps == ASSUME AlgInv, AL!Next PROVE AlgInv'
<1>1. \/ IsAverage(acc', input') \/ IsMedian(acc', input')
      \/ IsCrc8(acc', input') \/ IsDallas(acc', input') \/ IsReverse(acc', input')
  BY AlgAverages, AlgUpdatesMedian, AlgResetsMedian, AlgCrcs, AlgReverses DEF AL!Next
<1> QED
  BY <1>1 DEF AlgInv

LEMMA AlgImplies == ASSUME AlgInv PROVE AL!TypeOK
<1>1. CASE acc.kind \in {"average", "median"}
  <2>1. RingOf(acc.buffer, acc.index, acc.count, input, windowSize)
    BY <1>1, AlgKinds DEF IsAverage, IsMedian, AverageOf
  <2> QED
    BY <2>1, AlgSizes DEF AL!TypeOK, RingOf
<1> QED
  BY <1>1 DEF AL!TypeOK

\* The window that the properties speak of, and the folds over it.
LEMMA AlgWindow ==
  ASSUME NEW b, NEW i, NEW k, RingOf(b, i, k, input, windowSize)
  PROVE  /\ AL!Recent = Latest(input, windowSize) /\ Latest(input, windowSize) \in Seq(Int)
         /\ Len(Latest(input, windowSize)) = k
<1>1. AL!Recent = Latest(input, windowSize)
  BY DEF AL!Recent, Latest
<1>2. input \in Seq(Int) /\ windowSize \in Nat /\ windowSize > 0
  BY AlgSizes DEF RingOf
<1>3. Latest(input, windowSize) \in Seq(Int)
  BY <1>2, LatestIs
<1>4. Len(Latest(input, windowSize)) = k
  BY <1>2, RingHolds
<1> QED
  BY <1>1, <1>3, <1>4

\* The moving average is that of the window; at least half of the window is not above
\* what the median filter returns, and half not below it.
LEMMA AlgFilters == ASSUME AlgInv PROVE AL!FilterWindow
<1>1. ASSUME acc.kind = "average"
      PROVE  acc.sum = AL!FoldLeft(+, 0, AL!Recent) /\ acc.count = Len(AL!Recent)
  <2>1. RingOf(acc.buffer, acc.index, acc.count, input, windowSize) /\ acc.sum = Total(Latest(input, windowSize))
    BY <1>1, AlgKinds DEF IsAverage, AverageOf
  <2>2. AL!Recent = Latest(input, windowSize) /\ Len(Latest(input, windowSize)) = acc.count
    BY <2>1, AlgWindow
  <2>3. AL!FoldLeft(+, 0, AL!Recent) = Total(AL!Recent)
    BY DEF AL!FoldLeft, AL!MapThenFoldSet, AL!Max, Total, Summed, Greatest
  <2> QED
    BY <2>1, <2>2, <2>3, Zenon
<1>2. ASSUME acc.kind = "median", input # <<>>
      PROVE  /\ 2 * AL!Cardinality({i \in DOMAIN AL!Recent : 2 * AL!Recent[i] <= AL!Median2}) >= Len(AL!Recent)
             /\ 2 * AL!Cardinality({i \in DOMAIN AL!Recent : 2 * AL!Recent[i] >= AL!Median2}) >= Len(AL!Recent)
  <2> DEFINE r == Latest(input, windowSize)
             n == acc.count
             g == Slots(acc.buffer, n)
             p == AL!Order(g)
             m2 == AL!Median2
  <2>1. RingOf(acc.buffer, acc.index, n, input, windowSize)
    BY <1>2, AlgKinds DEF IsMedian
  <2>2. AL!Recent = r /\ r \in Seq(Int) /\ Len(r) = n
    BY <2>1, AlgWindow
  <2>3. p = CHOOSE q \in Orders(n) : \A i, j \in 1..n : i < j => g[q[i]] <= g[q[j]]
    <3>1. DOMAIN g = 1..n
      BY DEF Slots
    <3>2. AL!Bijection(1..n, 1..n) = Orders(n)
      BY Zenon DEF AL!Bijection, AL!Injection, AL!Surjection, AL!IsInjective, Orders
    <3> HIDE DEF g, n
    <3> QED
      BY <3>1, <3>2 DEF AL!Order
  <2>4. m2 = Middle2(g, p, n)
    BY DEF AL!Median2, AL!Middle, Middle2, Slots
  <2>5. Halves(r, n, m2)
    <3> DEFINE b == acc.buffer
               k == acc.index
    <3>1. RingOf(b, k, n, input, windowSize) /\ g = Slots(b, n) /\ input # <<>> /\ windowSize \in Nat /\ windowSize > 0
      BY <1>2, <2>1, AlgSizes
    <3> HIDE DEF b, k, n, g, p, m2
    <3>2. /\ p = CHOOSE q \in Orders(n) : \A i, j \in 1..n : i < j => Slots(b, n)[q[i]] <= Slots(b, n)[q[j]]
          /\ m2 = Middle2(Slots(b, n), p, n)
      BY <2>3, <2>4, <3>1
    <3> QED
      BY <3>1, <3>2, RingMedian
  <2>6. DOMAIN r = 1..n
    BY <2>2
  <2> HIDE DEF r, n, g, p, m2
  <2>7. \A S : AL!Cardinality(S) = Cardinality(S)
    BY DEF AL!Cardinality, Cardinality
  <2>8. /\ 2 * AL!Cardinality({i \in DOMAIN r : 2 * r[i] <= m2}) >= Len(r)
        /\ 2 * AL!Cardinality({i \in DOMAIN r : 2 * r[i] >= m2}) >= Len(r)
    BY <2>2, <2>5, <2>6, <2>7, Zenon DEF Halves
  <2> QED
    BY <2>2, <2>8, Zenon DEF m2
<1> QED
  BY <1>1, <1>2, Zenon DEF AL!FilterWindow

\* The checksums are remainders, and the reversed word is its mirror image.
LEMMA AlgChecks == ASSUME AlgInv PROVE AL!CrcIsRemainder /\ AL!ReverseExact
<1>1. ASSUME acc.kind = "crc8", input # <<>>
      PROVE  acc.crc = AL!Remainder(AL!Message([input EXCEPT ![1] = AL!Xor(@, 0..7)]), 8 * Len(input) + 7)
  <2>1. Crc8Of(input, acc.crc) /\ input \in Seq(EightBits)
    BY <1>1, AlgKinds DEF IsCrc8
  <2>2. acc.crc = MW!Remainder(MW!Message(Inverted(input)), 8 * Len(input) + 7)
    BY <1>1, <2>1, CrcsAre
  <2>3. [input EXCEPT ![1] = AL!Xor(@, 0..7)] = Inverted(input)
    BY AlgWords, Zenon DEF Inverted
  <2> QED
    BY <2>2, <2>3, AlgWords, Zenon
<1>2. ASSUME acc.kind = "crc8Dallas", input # <<>>
      PROVE  acc.crc = AL!Mirror(AL!Remainder(AL!Message([k \in DOMAIN input |-> AL!Mirror(input[k], 8)]), 8 * Len(input) + 7), 8)
  <2>1. DallasOf(input, acc.crc) /\ input \in Seq(EightBits)
    BY <1>2, AlgKinds DEF IsDallas
  <2>2. acc.crc = MW!Mirror(MW!Remainder(MW!Message(Mirrored(input)), 8 * Len(input) + 7), 8)
    BY <1>2, <2>1, CrcsAre
  <2>3. [k \in DOMAIN input |-> AL!Mirror(input[k], 8)] = Mirrored(input)
    BY AlgWords DEF Mirrored
  <2> QED
    BY <2>2, <2>3, AlgWords
<1>3. ASSUME acc.kind = "reverse", input # <<>> PROVE acc.x = AL!Mirror(input[Len(input)], acc.width)
  <2>1. Len(input) = 1 /\ acc.x = MW!Mirror(input[1], acc.width)
    BY <1>3, AlgKinds DEF IsReverse
  <2> QED
    BY <2>1, AlgWords
<1> QED
  BY <1>1, <1>2, <1>3, Zenon DEF AL!CrcIsRemainder, AL!ReverseExact

-----------------------------------------------------------------------------
(***************************************************************************)
(* All components.                                                         *)
(***************************************************************************)
ServicesInv ==
  /\ part = "cpp" => CppInv
  /\ part = "udp" => UdpInv
  /\ part = "ota" => OtaInv
  /\ part = "log" => LogInv
  /\ part = "file" => FileInv /\ TextInv
  /\ part = "lcd" => LcdInv
  /\ part = "panel" => PanelInv /\ ShowInv
  /\ part = "pid" => PidInv
  /\ part = "sum" => SumInv
  /\ part = "alg" => AlgInv

LEMMA ServicesBegin == ASSUME Init PROVE ServicesInv
BY CppBegins, UdpBegins, OtaBegins, LogBegins, FileBegins, TextBegins, LcdBegins, PanelBegins, ShowBegins,
   PidBegins, SumBegins, AlgBegins
   DEF Init, ServicesInv

\* The invariant of a component speaks of its own variables.
LEMMA ServicesStay ==
  /\ CppInv /\ UNCHANGED cppVars => CppInv'
  /\ UdpInv /\ UNCHANGED udpVars => UdpInv'
  /\ OtaInv /\ UNCHANGED otaVars => OtaInv'
  /\ LogInv /\ UNCHANGED logVars => LogInv'
  /\ FileInv /\ TextInv /\ UNCHANGED fileVars => FileInv' /\ TextInv'
  /\ LcdInv /\ UNCHANGED lcdVars => LcdInv'
  /\ PanelInv /\ ShowInv /\ UNCHANGED panelVars => PanelInv' /\ ShowInv'
  /\ PidInv /\ UNCHANGED pidVars => PidInv'
  /\ SumInv /\ UNCHANGED sumVars => SumInv'
  /\ AlgInv /\ UNCHANGED algVars => AlgInv'
<1>1. CppInv /\ UNCHANGED cppVars => CppInv'
  BY DEF cppVars, CppInv, CppTypes, SocketLives, FdsOwned, ThreadServes, ListExact, StopShuts, Running, CS!Released
<1>2. UdpInv /\ UNCHANGED udpVars => UdpInv'
  BY DEF udpVars, UdpInv, US!TypeOK
<1>3. OtaInv /\ UNCHANGED otaVars => OtaInv'
  BY DEF otaVars, OtaInv, OtaTypes, ImageLoaded, CleanServed, Clean, Served, BadSeen
<1>4. LogInv /\ UNCHANGED logVars => LogInv'
  BY DEF logVars, LogInv, LogTypes, OneWriter, AtTheEnd, PiecesFollow, EntriesHeld, Appends
<1>5. FileInv /\ TextInv /\ UNCHANGED fileVars => FileInv' /\ TextInv'
  BY DEF fileVars, FileInv, TextInv
<1>6. LcdInv /\ UNCHANGED lcdVars => LcdInv'
  BY DEF lcdVars, LcdInv
<1>7. PanelInv /\ ShowInv /\ UNCHANGED panelVars => PanelInv' /\ ShowInv'
  BY DEF panelVars, PanelInv, ShowInv
<1>8. PidInv /\ UNCHANGED pidVars => PidInv'
  BY DEF pidVars, PidInv, PD!NoKick, PD!NoWindup, PD!Limited
<1>9. SumInv /\ UNCHANGED sumVars => SumInv'
  BY Zenon DEF sumVars, SumInv, SumFields, SumSmall, SumTrue, FL!Sums
<1>10. AlgInv /\ UNCHANGED algVars => AlgInv'
  BY DEF algVars, AlgInv
<1> QED
  BY <1>1, <1>2, <1>3, <1>4, <1>5, <1>6, <1>7, <1>8, <1>9, <1>10

LEMMA ServicesMove == ASSUME ServicesInv, Next PROVE ServicesInv'
<1>1. CASE CppStep
  BY <1>1, CppSteps DEF CppStep, RestCpp, ServicesInv
<1>2. CASE UdpStep
  BY <1>2, UdpSteps DEF UdpStep, RestUdp, ServicesInv
<1>3. CASE OtaStep
  BY <1>3, OtaSteps DEF OtaStep, RestOta, ServicesInv
<1>4. CASE LogStep
  BY <1>4, LogSteps DEF LogStep, RestLog, ServicesInv
<1>5. CASE FileStep
  BY <1>5, FileSteps, TextSteps DEF FileStep, RestFile, ServicesInv
<1>6. CASE LcdStep
  BY <1>6, LcdSteps DEF LcdStep, RestLcd, ServicesInv
<1>7. CASE PanelStep
  BY <1>7, PanelSteps, ShowSteps DEF PanelStep, RestPanel, ServicesInv
<1>8. CASE PidStep
  BY <1>8, PidSteps DEF PidStep, RestPid, ServicesInv
<1>9. CASE SumStep
  BY <1>9, SumSteps DEF SumStep, RestSum, ServicesInv
<1>10. CASE AlgStep
  BY <1>10, AlgSteps DEF AlgStep, RestAlg, ServicesInv
<1> QED
  BY <1>1, <1>2, <1>3, <1>4, <1>5, <1>6, <1>7, <1>8, <1>9, <1>10 DEF Next

LEMMA ServicesImply ==
  ASSUME ServicesInv
  PROVE  TypeOK /\ TextKept /\ InStep /\ TextLands /\ PanelWhole /\ PanelInside /\ AlgorithmsExact
<1>1. part = "cpp" => CS!TypeOK
  BY DEF ServicesInv, CppInv, CppTypes, FdsOwned, CS!TypeOK
<1>2. part = "udp" => US!TypeOK
  BY DEF ServicesInv, UdpInv
<1>3. part = "ota" => OT!TypeOK
  BY DEF ServicesInv, OtaInv, OtaTypes, Link, OT!TypeOK
<1>4. part = "log" => LG!TypeOK
  BY LogImplies DEF ServicesInv
<1>5. part = "pid" => PD!TypeOK
  BY DEF ServicesInv, PidInv, PidType, PD!TypeOK
<1>6. ChecksumExact /\ FilterWindow /\ CrcIsRemainder /\ ReverseExact
  BY SumChecks, AlgFilters, AlgChecks DEF ServicesInv, ChecksumExact, FilterWindow, CrcIsRemainder, ReverseExact
<1>7. NoWindup /\ NoKick
  BY DEF ServicesInv, PidInv, NoWindup, NoKick
<1>8. TypeOK /\ InStep /\ TextLands /\ PanelWhole /\ PanelInside /\ AlgorithmsExact
  BY <1>1, <1>2, <1>3, <1>4, <1>5, <1>6, <1>7, FileImplies, LcdImplies, PanelImplies, SumImplies, AlgImplies
  DEF ServicesInv, TypeOK, InStep, TextLands, PanelWhole, PanelInside, AlgorithmsExact
<1>9. EntryIntact /\ EntryKept
  BY LogImplies DEF ServicesInv, EntryIntact, EntryKept
<1>10. LinesWhole /\ ColumnsExact /\ StreamedBack
  BY TextImplies DEF ServicesInv, LinesWhole, ColumnsExact, StreamedBack
<1>11. PanelReadsBack
  BY ShowImplies DEF ServicesInv, PanelReadsBack
<1> QED
  BY <1>8, <1>9, <1>10, <1>11 DEF TextKept

\* Every component's invariant, the display's and the file display's included, holds
\* in every state: for any number of clients, threads, entries, calls, restarts and data.
THEOREM ServicesInvariance == Spec => []ServicesInv
<1>1. ServicesInv /\ UNCHANGED vars => ServicesInv'
  BY ServicesStay DEF ServicesInv, vars
<1> QED
  BY <1>1, ServicesBegin, ServicesMove, PTL DEF Spec

\* Every component's variables stay in their types: descriptors, offsets, counters and
\* addresses in their ranges, whatever the sizes and however many the calls.
THEOREM ServicesTyped == Spec => []TypeOK
BY ServicesInvariance, ServicesImply, PTL

\* The character displays.  Between two operations of hd44780.c the controller is on the
\* narrow bus, waits for no half byte and holds the text of the calls, with its cursor
\* where they put it, after any number of resets in the middle of an operation.  Exception:
\* after hd44780_update the cursor is elsewhere until a call sets it, and the characters
\* put there are missing until the next clear.  And a
\* display in a file is stored inside its mapping and, below four rows, complete when
\* it is mapped, wherever a program died before.
THEOREM DisplaysShow == Spec => [](InStep /\ TextLands /\ PanelWhole /\ PanelInside)
BY ServicesInvariance, ServicesImply, PTL

\* Text is kept, whatever its length, however often it is opened, read, cleared or
\* printed, and wherever a program died: an entry of a log is in it in one piece and
\* stays; the lines a file is taken apart into are the file, their columns, joined with
\* commas, are the line; operator>> at the start of a file leaves what was put in; a
\* display shows the text of the calls, and the one in a file reads back cell by cell.
\* Exceptions, as at each property: LoggerServer keeps entries during one run only; a
\* file that was changed while it was mapped; the columns of a last line without a line
\* feed; operator>> elsewhere; text after hd44780_update; and in the display in a file
\* texts that do not fit, and rows from the third on.
THEOREM TextIsKept == Spec => []TextKept
BY ServicesInvariance, ServicesImply, PTL

\* The algorithms compute what their definitions say, for every input of any length: the
\* Fletcher sums modulo Base - 1 whatever the block length that the widths allow, the
\* moving average and the median of the last windowSize samples, the remainders of the
\* polynomial division, the reversed words; and the controllers neither wind up nor kick.
THEOREM AlgorithmsAreExact == Spec => []AlgorithmsExact
BY ServicesInvariance, ServicesImply, PTL

=============================================================================
