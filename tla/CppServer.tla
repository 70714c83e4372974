------------------------------ MODULE CppServer -----------------------------
(***************************************************************************)
(* The header-only server of Linux/server_cpp.h: Start and Stop by the     *)
(* owner, the thread of server_handler that accepts (TCP) or receives      *)
(* (UDP), and one client_handler per connection, in a detached thread, or  *)
(* in the accepting thread when _max_connections is 1.  close_socket only  *)
(* shuts a socket down; the number stays in use until it is closed.        *)
(***************************************************************************)
EXTENDS Naturals, FiniteSets, Sequences

CONSTANTS
  Fds,        \* descriptors the process may have open
  MaxStarts,  \* bound: calls of Start
  MaxConns,   \* bound: connections that are made
  NoFd        \* std::nullopt

VARIABLES
  server,  \* single, udp; sockfd, list: clients_list; joinable: _server_thread
  owner,   \* the thread that calls Start, Stop and the destructor
  acceptor,\* server_handler: pc and the connection it serves
  conns,   \* a record per connection: fd, pc of its client_handler, peer: still connected
  kernel,  \* open and shut descriptors; socks: server sockets
  trace    \* history: starts; failed: a Start failed after socket();
           \* late: connections registered after Stop shut the others down

vars == <<server, owner, acceptor, conns, kernel, trace>>

Parameters == IsFiniteSet(Fds) /\ Fds \subseteq Nat /\ NoFd \notin Fds /\ MaxStarts \in Nat /\ MaxConns \in Nat

Init ==
  /\ server \in [single : BOOLEAN, udp : BOOLEAN, sockfd : {NoFd}, list : {{}}, joinable : {FALSE}]
  /\ owner = "idle"
  /\ acceptor = [pc |-> "none", conn |-> 0]
  /\ conns = <<>>
  /\ kernel = [open |-> {}, shut |-> {}, socks |-> {}]
  /\ trace = [starts |-> 0, failed |-> FALSE, late |-> {}]

Free == Fds \ kernel.open
NewFd == CHOOSE fd \in Free : \A g \in Free : fd <= g   \* POSIX: the lowest one

\* Start while _sockfd has a value returns EALREADY and changes nothing; without
\* a free descriptor socket() fails and _sockfd is reset.
Start(result) ==
  /\ owner = "idle" /\ trace.starts < MaxStarts
  /\ trace' = [trace EXCEPT !.starts = @ + 1,
       !.failed = @ \/ (server.sockfd = NoFd /\ Free # {} /\ result # "ok")]
  /\ IF server.sockfd # NoFd \/ Free = {}
     THEN UNCHANGED <<server, acceptor, kernel>>
     ELSE LET fd == NewFd IN
       /\ result = "listen" => ~server.udp
       /\ server' = [server EXCEPT !.sockfd = fd, !.joinable = result = "ok"]
       /\ acceptor' = IF result = "ok" THEN [pc |-> "accept", conn |-> 0] ELSE acceptor
       /\ kernel' = [open |-> kernel.open \cup {fd}, socks |-> kernel.socks \cup {fd},
                     shut |-> IF result = "bind" THEN kernel.shut \cup {fd} ELSE kernel.shut]
  /\ UNCHANGED <<owner, conns>>

\* unregister_clients, under the mutex.
Unregistered == [kernel EXCEPT !.shut = @ \cup server.list]

\* Mutant: Stop shuts down the server's socket only.
StopClientsNot ==
  /\ owner = "idle"
  /\ owner' = IF server.sockfd = NoFd THEN owner ELSE "close"
  /\ UNCHANGED <<server, acceptor, conns, kernel, trace>>

\* Stop returns at once when the server is not started.
StopClients ==
  /\ owner = "idle" /\ server.sockfd # NoFd
  /\ kernel' = Unregistered
  /\ owner' = "close"
  /\ UNCHANGED <<server, acceptor, conns, trace>>

\* Mutant: the server's socket is not shut down.
StopSocketNot ==
  /\ owner = "close"
  /\ owner' = "join"
  /\ UNCHANGED <<server, acceptor, conns, kernel, trace>>

StopSocket ==
  /\ owner = "close"
  /\ kernel' = [kernel EXCEPT !.shut = @ \cup {server.sockfd}]
  /\ owner' = "join"
  /\ UNCHANGED <<server, acceptor, conns, trace>>

\* Mutant: _sockfd keeps its value.
StoppedKeepsSockfd == [server EXCEPT !.joinable = FALSE]

Stopped == [server EXCEPT !.joinable = FALSE, !.sockfd = NoFd]

\* join() of a thread that was never started throws, and the process ends.
StopJoin ==
  /\ owner = "join" /\ (server.joinable => acceptor.pc = "ended")
  /\ IF server.joinable THEN owner' = "idle" /\ server' = Stopped
     ELSE owner' = "terminated" /\ UNCHANGED server
  /\ UNCHANGED <<acceptor, conns, kernel, trace>>

\* ~Server: Stop, then the members are gone.
Destroy ==
  /\ owner = "idle" /\ server.sockfd = NoFd
  /\ owner' = "destroyed"
  /\ UNCHANGED <<server, acceptor, conns, kernel, trace>>

-----------------------------------------------------------------------------
\* accept() returns a connection.
Accept ==
  /\ acceptor.pc = "accept" /\ ~server.udp /\ server.sockfd \notin kernel.shut
  /\ Len(conns) < MaxConns
  /\ Free # {}
  /\ LET fd == NewFd IN
       /\ kernel' = [kernel EXCEPT !.open = @ \cup {fd}]
       /\ conns' = Append(conns, [fd |-> fd, pc |-> "new", peer |-> TRUE])
       /\ acceptor' = [pc |-> "register", conn |-> Len(conns) + 1]
  /\ UNCHANGED <<server, owner, trace>>

\* It must fail: the socket was shut down, or there is no free descriptor.
AcceptFails ==
  /\ acceptor.pc = "accept" /\ ~server.udp
  /\ server.sockfd \in kernel.shut \/ Free = {}
  /\ acceptor' = [acceptor EXCEPT !.pc = "final"]
  /\ UNCHANGED <<server, owner, conns, kernel, trace>>

\* It fails for any other reason, at any time: the thread takes that for termination.
AcceptError ==
  /\ acceptor.pc = "accept" /\ ~server.udp
  /\ acceptor' = [acceptor EXCEPT !.pc = "final"]
  /\ UNCHANGED <<server, owner, conns, kernel, trace>>

\* on_connect, and the entry in clients_list.
Register ==
  /\ acceptor.pc = "register"
  /\ server' = [server EXCEPT !.list = @ \cup {conns[acceptor.conn].fd}]
  /\ trace' = [trace EXCEPT !.late = IF owner \in {"close", "join"} THEN @ \cup {acceptor.conn} ELSE @]
  /\ acceptor' = [acceptor EXCEPT !.pc = IF server.single THEN "serve" ELSE "accept"]
  /\ conns' = [conns EXCEPT ![acceptor.conn].pc = "read"]
  /\ UNCHANGED <<owner, kernel>>

Served ==
  /\ acceptor.pc = "serve" /\ conns[acceptor.conn].pc = "done"
  /\ acceptor' = [acceptor EXCEPT !.pc = "accept"]
  /\ UNCHANGED <<server, owner, conns, kernel, trace>>

\* The UDP loop: data is handed on; no data, of a shutdown or of an empty
\* datagram, ends it.
ReceiveUdp(size) ==
  /\ acceptor.pc = "accept" /\ server.udp
  /\ server.sockfd \in kernel.shut => size = 0
  /\ acceptor' = IF size > 0 THEN acceptor ELSE [acceptor EXCEPT !.pc = "final"]
  /\ UNCHANGED <<server, owner, conns, kernel, trace>>

\* Mutant: the thread ends without a look at the clients.
HandlerEndKeeps ==
  /\ acceptor.pc = "final"
  /\ acceptor' = [acceptor EXCEPT !.pc = "ended"]
  /\ UNCHANGED <<server, owner, conns, kernel, trace>>

HandlerEnd ==
  /\ acceptor.pc = "final"
  /\ kernel' = Unregistered
  /\ acceptor' = [acceptor EXCEPT !.pc = "ended"]
  /\ UNCHANGED <<server, owner, conns, trace>>

-----------------------------------------------------------------------------
\* client_handler.  Data is handed to on_receive and changes nothing here.
ReadEnds(k) ==
  /\ conns[k].pc = "read"
  /\ conns[k].fd \in kernel.shut \/ ~conns[k].peer
  /\ conns' = [conns EXCEPT ![k].pc = "erase"]
  /\ UNCHANGED <<server, owner, acceptor, kernel, trace>>

\* Mutant: close before the entry is erased.
EraseAfterClose(k) ==
  /\ conns[k].pc = "erase"
  /\ kernel' = [kernel EXCEPT !.open = @ \ {conns[k].fd}, !.shut = @ \ {conns[k].fd}]
  /\ conns' = [conns EXCEPT ![k].pc = "close"]
  /\ UNCHANGED <<server, owner, acceptor, trace>>

Erase(k) ==
  /\ conns[k].pc = "erase"
  /\ server' = [server EXCEPT !.list = @ \ {conns[k].fd}]
  /\ conns' = [conns EXCEPT ![k].pc = "close"]
  /\ UNCHANGED <<owner, acceptor, kernel, trace>>

\* close, and on_disconnect.
Close(k) ==
  /\ conns[k].pc = "close"
  /\ kernel' = [kernel EXCEPT !.open = @ \ {conns[k].fd}, !.shut = @ \ {conns[k].fd}]
  /\ conns' = [conns EXCEPT ![k].pc = "done"]
  /\ UNCHANGED <<server, owner, acceptor, trace>>

\* External: the peer of a connection closes it.
PeerCloses(k) ==
  /\ conns[k].peer
  /\ conns' = [conns EXCEPT ![k].peer = FALSE]
  /\ UNCHANGED <<server, owner, acceptor, kernel, trace>>

Owner == (\E r \in {"ok", "bind", "listen"} : Start(r)) \/ StopClients \/ Destroy
Threads ==
  \/ StopSocket \/ StopJoin \/ AcceptFails \/ Register \/ Served \/ HandlerEnd
  \/ (server.sockfd \in kernel.shut /\ ReceiveUdp(0))
  \/ \E k \in DOMAIN conns : ReadEnds(k) \/ Erase(k) \/ Close(k)

Next ==
  \/ Owner \/ Threads \/ Accept \/ AcceptError
  \/ \E size \in 0..1 : ReceiveUdp(size)
  \/ \E k \in DOMAIN conns : PeerCloses(k)

-----------------------------------------------------------------------------
TypeOK ==
  /\ server.sockfd \in Fds \cup {NoFd} /\ server.list \subseteq Fds
  /\ kernel.shut \subseteq kernel.open /\ kernel.open \subseteq Fds
  /\ acceptor.conn \in 0..Len(conns)

Reading == {k \in DOMAIN conns : conns[k].pc = "read"}
Released(k) == conns[k].fd \in kernel.shut \/ ~conns[k].peer

StopReleases == owner = "join" => \A k \in Reading : Released(k) \/ k \in trace.late

NobodyLeftConnected ==
  /\ acceptor.pc = "ended" => \A k \in Reading : Released(k)
  /\ owner = "destroyed" /\ server.single => Reading = {}

RegisteredOpen ==
  /\ \A fd \in server.list : \E k \in DOMAIN conns : conns[k].fd = fd /\ conns[k].pc \in {"read", "erase"}
  /\ kernel.open = kernel.socks \cup {conns[k].fd : k \in {j \in DOMAIN conns : conns[j].pc # "done"}}

OnlyFailedStartTerminates == owner = "terminated" => trace.failed
=============================================================================
