---------------------------- MODULE NetworkServer ----------------------------
(***************************************************************************)
(* Network::ServerBase over TCP (Linux/server/server.cpp, server.h).       *)
(*                                                                         *)
(* Three kinds of threads share one ServerSocket object and the process's  *)
(* descriptor table: the owner (Start, Stop, the destructors), the accept  *)
(* thread (tcp_handler) and one client_handler per registered connection,  *)
(* which runs in a detached thread or in the accept thread itself.         *)
(*                                                                         *)
(* The kernel is external and modelled by what the code relies on: a       *)
(* descriptor is a number that close() frees at once and the next accept() *)
(* may return again; a read() that is already waiting keeps its connection *)
(* and is not woken by a close(); shutdown() of a listening socket makes   *)
(* accept() fail, refuses the pending connections and leaves the           *)
(* descriptor open and the port bound.                                     *)
(*                                                                         *)
(* A message is one unit in the peer's inbox.  The owner calls Start and   *)
(* Stop from one thread and never calls Start on a running server.         *)
(***************************************************************************)
EXTENDS Naturals, FiniteSets

CONSTANTS
  Conn,            \* the connections peers may open, each at most once
  Fd,              \* the descriptor numbers of the process
  Limits,          \* the values max_connections may have
  MaxMessages,     \* bound: messages waiting in one connection
  MaxCalls,        \* bound: calls of Start and Stop the owner makes
  Free,            \* descriptor table: a free number
  Listener,        \* descriptor table: the server's listening socket
  NoFd,            \* the descriptor value -1
  NoConn           \* no connection

ASSUME ConstantsAssumption ==
  /\ Limits \subseteq Nat
  /\ MaxMessages \in Nat
  /\ MaxCalls \in Nat
  /\ Free # Listener
  /\ {Free, Listener, NoConn} \cap Conn = {}
  /\ NoFd \notin Fd
  /\ IsFiniteSet(Fd)

VARIABLES
  max_connections,  \* ServerBase::_max_connections, set by the constructor
  owner,      \* where the thread that owns the server object is
  calls,      \* calls of Start and Stop so far
  toClose,    \* CloseAllClients: descriptors its loop has still to close
  sockfd,     \* ServerSocket::_sockfd
  clients,    \* ServerSocket::clients_list
  acceptor,   \* where the accept thread is
  cur,        \* the connection the accept thread last took
  num,        \* tcp_handler's local num_clients
  handler,    \* where the client_handler of each connection is
  hfd,        \* client_handler's argument sockfd, per connection
  reading,    \* the connection a waiting read() holds, per handler
  fdt,        \* kernel: the descriptor table
  listening,  \* kernel: the listening socket accepts connections
  queue,      \* kernel: established connections not yet accepted
  peer,       \* the remote end of each connection
  inbox       \* kernel: messages waiting in each connection

ownerVars == <<owner, calls, toClose, sockfd>>
acceptVars == <<acceptor, cur, num>>
handlerVars == <<handler, reading>>
peerVars == <<queue, peer, inbox>>
vars == <<max_connections, owner, calls, toClose, sockfd, clients, acceptor,
          cur, num, handler, hfd, reading, fdt, listening, queue, peer, inbox>>

OwnerStates == {"new", "running", "failed", "closing", "shutdown", "joining",
                "stopped", "crashed"}
AcceptorStates == {"none", "accept", "count", "decide", "handoff", "serving",
                   "done"}
HandlerStates == {"none", "rejected", "read", "reading", "remove", "close",
                  "done"}
PeerStates == {"idle", "connected", "left", "refused"}

TypeOK ==
  /\ max_connections \in Limits
  /\ owner \in OwnerStates
  /\ calls \in 0..MaxCalls
  /\ toClose \in SUBSET Fd
  /\ sockfd \in Fd \cup {NoFd}
  /\ clients \in SUBSET Fd
  /\ acceptor \in AcceptorStates
  /\ cur \in Conn \cup {NoConn}
  /\ num \in Nat
  /\ handler \in [Conn -> HandlerStates]
  /\ hfd \in [Conn -> Fd \cup {NoFd}]
  /\ reading \in [Conn -> Conn \cup {NoConn}]
  /\ fdt \in [Fd -> Conn \cup {Free, Listener}]
  /\ listening \in BOOLEAN
  /\ queue \in SUBSET Conn
  /\ peer \in [Conn -> PeerStates]
  /\ inbox \in [Conn -> 0..MaxMessages]

(***************************************************************************)
(* The object after its constructor: no ServerSocket yet.                  *)
(***************************************************************************)
Init ==
  /\ max_connections \in Limits
  /\ owner = "new"
  /\ calls = 0
  /\ toClose = {}
  /\ sockfd = NoFd
  /\ clients = {}
  /\ acceptor = "none"
  /\ cur = NoConn
  /\ num = 0
  /\ handler = [c \in Conn |-> "none"]
  /\ hfd = [c \in Conn |-> NoFd]
  /\ reading = [c \in Conn |-> NoConn]
  /\ fdt = [f \in Fd |-> Free]
  /\ listening = FALSE
  /\ queue = {}
  /\ peer = [c \in Conn |-> "idle"]
  /\ inbox = [c \in Conn |-> 0]

FreeFds == {f \in Fd : fdt[f] = Free}

\* close(): the number is free again whoever holds it; -1 is EBADF.
CloseFd(f) == fdt' = [g \in Fd |-> IF g = f THEN Free ELSE fdt[g]]

\* ServerSocket::guard is only held across steps by CloseAllClients.
GuardFree == owner # "closing"

-----------------------------------------------------------------------------
(***************************************************************************)
(* The owner.                                                              *)
(***************************************************************************)
\* One more call of the owner.
Call ==
  /\ calls < MaxCalls
  /\ calls' = calls + 1

StartAllowed == owner \in {"new", "failed", "stopped"}

\* bind() finds the port free: no socket of this process still holds it.
PortFree == \A f \in Fd : fdt[f] # Listener

\* ServerBase::Start: a new ServerSocket replaces the old one, its socket is
\* bound and listens, and the accept thread is created.
Start ==
  /\ Call
  /\ StartAllowed
  /\ PortFree
  /\ \E f \in FreeFds :
       /\ fdt' = [fdt EXCEPT ![f] = Listener]
       /\ sockfd' = f
  /\ owner' = "running"
  /\ clients' = {}
  /\ listening' = TRUE
  /\ acceptor' = "accept"
  /\ UNCHANGED <<toClose, cur, num, handler, hfd, reading, peerVars>>

\* ServerSocket::Start throws: without a descriptor socket() returned -1;
\* when bind or listen failed the socket is closed, but _sockfd keeps its
\* number.  The new ServerSocket stays in place either way.
StartFails ==
  /\ Call
  /\ StartAllowed
  /\ IF FreeFds = {} THEN sockfd' = NoFd ELSE sockfd' \in FreeFds
  /\ owner' = "failed"
  /\ clients' = {}
  /\ acceptor' = "none"
  /\ UNCHANGED <<toClose, cur, num, handler, hfd, reading, fdt, listening,
                 peerVars>>

\* Stop or the destructor before any Start dereferences a null _socket.
StopNeverStarted ==
  /\ Call
  /\ owner = "new"
  /\ owner' = "crashed"
  /\ UNCHANGED <<toClose, sockfd, clients, acceptVars, handlerVars, hfd, fdt,
                 listening, peerVars>>

\* ServerSocket::Stop takes the guard for CloseAllClients.  Stop, ~ServerBase
\* and ~ServerSocket all come here, so it also runs on a stopped server.
Stop ==
  /\ Call
  /\ owner \in {"running", "failed", "stopped"}
  /\ owner' = "closing"
  /\ toClose' = clients
  /\ UNCHANGED <<sockfd, clients, acceptVars, handlerVars, hfd, fdt,
                 listening, peerVars>>

\* CloseAllClients closes every descriptor of the list and keeps the list.
CloseAllClients ==
  /\ owner = "closing"
  /\ \/ \E f \in toClose :
          /\ CloseFd(f)
          /\ toClose' = toClose \ {f}
          /\ UNCHANGED owner
     \/ /\ toClose = {}
        /\ owner' = "shutdown"
        /\ UNCHANGED <<toClose, fdt>>
  /\ UNCHANGED <<calls, sockfd, clients, acceptVars, handlerVars, hfd,
                 listening, peerVars>>

\* shutdown(_sockfd, SHUT_RD); _sockfd = -1: the accept thread fails either
\* way, so the two are one step.  The descriptor itself is never closed.
ShutdownListener ==
  /\ owner = "shutdown"
  /\ owner' = "joining"
  /\ IF sockfd # NoFd /\ fdt[sockfd] = Listener
       THEN /\ listening' = FALSE
            /\ queue' = {}
            /\ peer' = [c \in Conn |-> IF c \in queue THEN "refused" ELSE peer[c]]
       ELSE UNCHANGED <<listening, queue, peer>>
  /\ sockfd' = NoFd
  /\ UNCHANGED <<calls, toClose, clients, acceptVars, handlerVars, hfd, fdt,
                 inbox>>

\* The server thread is joined if there is one.
JoinServerThread ==
  /\ owner = "joining"
  /\ acceptor \in {"none", "done"}
  /\ owner' = "stopped"
  /\ UNCHANGED <<calls, toClose, sockfd, clients, acceptVars, handlerVars, hfd,
                 fdt, listening, peerVars>>

-----------------------------------------------------------------------------
(***************************************************************************)
(* The accept thread, tcp_handler.                                         *)
(***************************************************************************)

\* AcceptClient returns -1 because it must: the socket was stopped, or no
\* descriptor is left, also with connections pending.
AcceptFails ==
  /\ acceptor = "accept"
  /\ sockfd = NoFd \/ ~listening \/ FreeFds = {}
  /\ acceptor' = "done"
  /\ UNCHANGED <<ownerVars, clients, cur, num, handlerVars, hfd, fdt,
                 listening, peerVars>>

\* AcceptClient returns -1 for any other reason accept() has (ECONNABORTED,
\* EINTR, ENFILE, or EINVAL for the socklen that is never set), at any time.
\* tcp_handler takes it for termination.
AcceptError ==
  /\ acceptor = "accept"
  /\ acceptor' = "done"
  /\ UNCHANGED <<ownerVars, clients, cur, num, handlerVars, hfd, fdt,
                 listening, peerVars>>

\* accept() returns a free descriptor for a pending connection; OnConnect.
AcceptClient(c) ==
  /\ acceptor = "accept"
  /\ sockfd # NoFd /\ listening
  /\ c \in queue
  /\ \E f \in FreeFds :
       /\ fdt' = [fdt EXCEPT ![f] = c]
       /\ hfd' = [hfd EXCEPT ![c] = f]
  /\ queue' = queue \ {c}
  /\ cur' = c
  /\ acceptor' = "count"
  /\ UNCHANGED <<ownerVars, clients, num, handlerVars, listening, peer, inbox>>

\* num_clients = GetNumberOfClients(), under the guard.
CountClients ==
  /\ acceptor = "count"
  /\ GuardFree
  /\ num' = Cardinality(clients)
  /\ acceptor' = "decide"
  /\ UNCHANGED <<ownerVars, clients, cur, handlerVars, hfd, fdt, listening,
                 peerVars>>

\* Mutant: the limit is compared with > instead of >=.
TooManyConnectionsOffByOne == num > max_connections

TooManyConnections == num >= max_connections

\* Mutant: the `continue` after the close is missing.
RejectClientFallsThrough ==
  /\ acceptor = "decide"
  /\ TooManyConnections
  /\ CloseFd(hfd[cur])
  /\ handler' = handler
  /\ acceptor' = "handoff"
  /\ UNCHANGED <<ownerVars, clients, cur, num, hfd, reading, listening,
                 peerVars>>

\* "Too many connections, close socket", and accept the next one.
RejectClient ==
  /\ acceptor = "decide"
  /\ TooManyConnections
  /\ CloseFd(hfd[cur])
  /\ handler' = [handler EXCEPT ![cur] = "rejected"]
  /\ acceptor' = "accept"
  /\ UNCHANGED <<ownerVars, clients, cur, num, hfd, reading, listening,
                 peerVars>>

\* AddClient, under the guard.
AddClient ==
  /\ acceptor = "decide"
  /\ ~TooManyConnections
  /\ GuardFree
  /\ clients' = clients \cup {hfd[cur]}
  /\ acceptor' = "handoff"
  /\ UNCHANGED <<ownerVars, cur, num, handlerVars, hfd, fdt, listening,
                 peerVars>>

\* Mutant: a server without clients serves the first one in the accept thread.
StartHandlerInThread ==
  /\ acceptor = "handoff"
  /\ handler' = [handler EXCEPT ![cur] = "read"]
  /\ acceptor' = IF num = 0 THEN "serving" ELSE "accept"
  /\ UNCHANGED <<ownerVars, clients, cur, num, hfd, reading, fdt, listening,
                 peerVars>>

\* Mutant: every client gets a thread of its own.
StartHandlerAlwaysThread ==
  /\ acceptor = "handoff"
  /\ handler' = [handler EXCEPT ![cur] = "read"]
  /\ acceptor' = "accept"
  /\ UNCHANGED <<ownerVars, clients, cur, num, hfd, reading, fdt, listening,
                 peerVars>>

\* Mutant: the client thread is not created.
StartHandlerForgotten ==
  /\ acceptor = "handoff"
  /\ acceptor' = "accept"
  /\ UNCHANGED <<ownerVars, clients, cur, num, handlerVars, hfd, fdt,
                 listening, peerVars>>

\* client_handler starts: in this thread when one client was registered
\* before this one, else in a detached thread.
StartHandler ==
  /\ acceptor = "handoff"
  /\ handler' = [handler EXCEPT ![cur] = "read"]
  /\ acceptor' = IF num = 1 THEN "serving" ELSE "accept"
  /\ UNCHANGED <<ownerVars, clients, cur, num, hfd, reading, fdt, listening,
                 peerVars>>

\* The handler that ran in this thread has returned.
ResumeAccept ==
  /\ acceptor = "serving"
  /\ handler[cur] = "done"
  /\ acceptor' = "accept"
  /\ UNCHANGED <<ownerVars, clients, cur, num, handlerVars, hfd, fdt,
                 listening, peerVars>>

-----------------------------------------------------------------------------
(***************************************************************************)
(* client_handler of connection c.                                         *)
(***************************************************************************)

\* read(): the number is looked up anew on every call, so it may be free or
\* name another connection by now.
Read(c) ==
  /\ handler[c] = "read"
  /\ IF fdt[hfd[c]] \in Conn
       THEN /\ handler' = [handler EXCEPT ![c] = "reading"]
            /\ reading' = [reading EXCEPT ![c] = fdt[hfd[c]]]
       ELSE /\ handler' = [handler EXCEPT ![c] = "remove"]
            /\ UNCHANGED reading
  /\ UNCHANGED <<ownerVars, clients, acceptVars, hfd, fdt, listening, peerVars>>

\* Mutant: the loop ends on size < 0 only, an empty read is delivered.
ReceiveEmpty(c) ==
  /\ handler[c] = "reading"
  /\ inbox[reading[c]] > 0 \/ peer[reading[c]] = "left"
  /\ inbox' = [inbox EXCEPT ![reading[c]] = @ - 1]
  /\ handler' = [handler EXCEPT ![c] = "read"]
  /\ reading' = [reading EXCEPT ![c] = NoConn]
  /\ UNCHANGED <<ownerVars, clients, acceptVars, hfd, fdt, listening, queue,
                 peer>>

\* read() returns a message and OnReceive takes it.
Receive(c) ==
  /\ handler[c] = "reading"
  /\ inbox[reading[c]] > 0
  /\ inbox' = [inbox EXCEPT ![reading[c]] = @ - 1]
  /\ handler' = [handler EXCEPT ![c] = "read"]
  /\ reading' = [reading EXCEPT ![c] = NoConn]
  /\ UNCHANGED <<ownerVars, clients, acceptVars, hfd, fdt, listening, queue,
                 peer>>

\* read() returns 0: the peer has left and everything it sent was read.
EndOfFile(c) ==
  /\ handler[c] = "reading"
  /\ inbox[reading[c]] = 0
  /\ peer[reading[c]] = "left"
  /\ handler' = [handler EXCEPT ![c] = "remove"]
  /\ reading' = [reading EXCEPT ![c] = NoConn]
  /\ UNCHANGED <<ownerVars, clients, acceptVars, hfd, fdt, listening, peerVars>>

\* Mutant: the descriptor is not erased from the list.
RemoveClientForgotten(c) ==
  /\ handler[c] = "remove"
  /\ GuardFree
  /\ handler' = [handler EXCEPT ![c] = "close"]
  /\ UNCHANGED <<ownerVars, clients, acceptVars, hfd, reading, fdt, listening,
                 peerVars>>

\* RemoveClient, under the guard.
RemoveClient(c) ==
  /\ handler[c] = "remove"
  /\ GuardFree
  /\ clients' = clients \ {hfd[c]}
  /\ handler' = [handler EXCEPT ![c] = "close"]
  /\ UNCHANGED <<ownerVars, acceptVars, hfd, reading, fdt, listening, peerVars>>

\* Mutant: the descriptor is closed twice.
CloseClientTwice(c) ==
  /\ handler[c] = "close"
  /\ CloseFd(hfd[c])
  /\ handler' \in {[handler EXCEPT ![c] = "done"], handler}
  /\ UNCHANGED <<ownerVars, clients, acceptVars, hfd, reading, listening,
                 peerVars>>

\* Mutant: the handler returns without closing the descriptor.
CloseClientForgotten(c) ==
  /\ handler[c] = "close"
  /\ handler' = [handler EXCEPT ![c] = "done"]
  /\ UNCHANGED <<ownerVars, clients, acceptVars, hfd, reading, fdt, listening,
                 peerVars>>

\* "Gently close", then OnDisconnect.
CloseClient(c) ==
  /\ handler[c] = "close"
  /\ CloseFd(hfd[c])
  /\ handler' = [handler EXCEPT ![c] = "done"]
  /\ UNCHANGED <<ownerVars, clients, acceptVars, hfd, reading, listening,
                 peerVars>>

-----------------------------------------------------------------------------
(***************************************************************************)
(* The remote ends.                                                        *)
(***************************************************************************)
Connect(c) ==
  /\ peer[c] = "idle"
  /\ listening
  /\ peer' = [peer EXCEPT ![c] = "connected"]
  /\ queue' = queue \cup {c}
  /\ UNCHANGED <<ownerVars, clients, acceptVars, handlerVars, hfd, fdt,
                 listening, inbox>>

Send(c) ==
  /\ peer[c] = "connected"
  /\ inbox[c] < MaxMessages
  /\ inbox' = [inbox EXCEPT ![c] = @ + 1]
  /\ UNCHANGED <<ownerVars, clients, acceptVars, handlerVars, hfd, fdt,
                 listening, queue, peer>>

Leave(c) ==
  /\ peer[c] = "connected"
  /\ peer' = [peer EXCEPT ![c] = "left"]
  /\ UNCHANGED <<ownerVars, clients, acceptVars, handlerVars, hfd, fdt,
                 listening, queue, inbox>>

-----------------------------------------------------------------------------
OwnerFinishesStop == CloseAllClients \/ ShutdownListener \/ JoinServerThread

OwnerStep == Start \/ StartFails \/ StopNeverStarted \/ Stop \/ OwnerFinishesStop

AcceptStep ==
  \/ AcceptFails
  \/ \E c \in Conn : AcceptClient(c)
  \/ CountClients
  \/ RejectClient
  \/ AddClient
  \/ StartHandler
  \/ ResumeAccept

HandlerStep(c) ==
  Read(c) \/ Receive(c) \/ EndOfFile(c) \/ RemoveClient(c) \/ CloseClient(c)

PeerStep(c) == Connect(c) \/ Send(c) \/ Leave(c)

Next ==
  /\ \/ OwnerStep
     \/ AcceptStep
     \/ AcceptError
     \/ \E c \in Conn : HandlerStep(c) \/ PeerStep(c)
  /\ UNCHANGED max_connections

Spec == Init /\ [][Next]_vars

\* Every thread that can run does; a Stop that has begun is carried on.  The
\* owner need not call anything, the peers need not send or leave, and accept()
\* need not fail without cause.
Fairness ==
  /\ WF_vars(OwnerFinishesStop /\ UNCHANGED max_connections)
  /\ WF_vars(AcceptStep /\ UNCHANGED max_connections)
  /\ \A c \in Conn : WF_vars(HandlerStep(c) /\ UNCHANGED max_connections)

FairSpec == Spec /\ Fairness
-----------------------------------------------------------------------------
(***************************************************************************)
(* Properties.                                                             *)
(***************************************************************************)

\* Connection c was accepted and tcp_handler has not handed it over yet.
Pending(c) == cur = c /\ acceptor \in {"count", "decide", "handoff"}

\* Some thread of the server still works with the descriptor of c.
Holds(c) == Pending(c) \/ handler[c] \in {"read", "reading", "remove", "close"}

\* c has been through AddClient and not yet through RemoveClient.
Registered(c) ==
  \/ cur = c /\ acceptor = "handoff"
  \/ handler[c] \in {"read", "reading", "remove"}

\* The registry never holds more than max_connections descriptors, although
\* tcp_handler counts (GetNumberOfClients) and registers (AddClient) under two
\* separate acquisitions of the guard while handlers come and go.
BoundedRegistry == Cardinality(clients) <= max_connections

\* Whatever max_connections is, at most two clients are ever registered: the
\* second one is served by the accept thread, which accepts nobody meanwhile.
AtMostTwoClients == Cardinality(clients) <= 2

\* Until Stop begins, the descriptor a thread works with names its own
\* connection: no handler reads, answers or closes somebody else's connection
\* through a number that close() freed and accept() returned again.
ExclusiveDescriptors ==
  owner = "running" =>
    \A c \in Conn :
      /\ Holds(c) => hfd[c] \in Fd /\ fdt[hfd[c]] = c
      /\ handler[c] = "reading" => reading[c] = c

\* Until Stop begins, clients_list is exactly the descriptors of the registered
\* connections, so GetNumberOfClients is the number of active connections.
RegistryExact ==
  owner = "running" => clients = {hfd[c] : c \in {d \in Conn : Registered(d)}}

\* Until Stop begins, a connection loses its descriptor only when its own
\* handler closes it or tcp_handler rejects it: no close() hits a number that
\* meanwhile belongs to somebody else.
NoForeignClose ==
  [][owner = "running" =>
       \A c \in Conn, f \in Fd :
         fdt[f] = c /\ fdt'[f] # c =>
           /\ hfd[c] = f
           /\ handler[c] = "close" \/ (cur = c /\ acceptor = "decide")]_vars

\* "Socket failed due to termination": as long as nobody calls Stop, the accept
\* thread lives, whatever accept() returns.
EndsByStopOnly == owner = "running" => acceptor # "done"

-----------------------------------------------------------------------------
(***************************************************************************)
(* The inductive invariant behind the safety properties.                   *)
(***************************************************************************)

\* A thread that works with a connection has its descriptor number, and a
\* waiting read() holds some connection.
ThreadsHaveDescriptors ==
  /\ acceptor \in {"count", "decide", "handoff", "serving"} =>
       cur \in Conn /\ hfd[cur] \in Fd
  /\ acceptor \in {"count", "decide", "handoff"} => handler[cur] = "none"
  /\ \A c \in Conn :
       /\ handler[c] # "none" => hfd[c] \in Fd
       /\ handler[c] = "reading" => reading[c] \in Conn

\* Only RemoveClient runs between CountClients and AddClient.
CountIsUpperBound == acceptor = "decide" => Cardinality(clients) <= num

\* The accept thread goes on accepting only beside at most one client; next
\* to it there is only the client it is about to serve, or serves, itself.
OneBesideAcceptor ==
  /\ acceptor \in {"none", "accept", "count", "decide", "done"} =>
       Cardinality(clients) <= 1
  /\ acceptor = "decide" => num <= 1
  /\ acceptor = "handoff" =>
       num \in {0, 1} /\ (num = 0 => Cardinality(clients) <= 1)
  /\ acceptor \in {"handoff", "serving"} =>
       Cardinality(clients \ {hfd[cur]}) <= 1
  /\ acceptor = "serving" /\ handler[cur] \in {"close", "done"} =>
       hfd[cur] \notin clients
  /\ acceptor = "serving" => handler[cur] # "none"

\* A connection is queued once and gets a descriptor once.
AcceptedOnce ==
  \A c \in Conn :
    /\ peer[c] = "idle" => c \notin queue
    /\ c \in queue \/ peer[c] = "idle" => hfd[c] = NoFd

\* The listening socket keeps its descriptor for ever: no number a handler,
\* the registry or CloseAllClients knows is the listener's.  So Start can only
\* succeed while no connection has ever been accepted.
ListenerPinned ==
  /\ listening \/ (\E c \in Conn : hfd[c] # NoFd) => ~PortFree
  /\ \A c \in Conn : hfd[c] \in Fd => fdt[hfd[c]] # Listener
  /\ \A f \in clients \cup toClose : fdt[f] # Listener
  /\ owner # "closing" => toClose = {}

IInv ==
  /\ TypeOK
  /\ ThreadsHaveDescriptors
  /\ BoundedRegistry
  /\ CountIsUpperBound
  /\ OneBesideAcceptor
  /\ AcceptedOnce
  /\ ListenerPinned
  /\ ExclusiveDescriptors
  /\ RegistryExact

-----------------------------------------------------------------------------
\* A connection whose peer has left is closed by the server sooner or later,
\* even if Stop closes descriptors under the running handlers.
AbandonedIsClosed ==
  \A c \in Conn :
    (hfd[c] # NoFd /\ peer[c] = "left") ~> (\A f \in Fd : fdt[f] # c)

\* "Maximum amount of incoming connections": a pending connection is taken from
\* the queue (accepted or refused), also while others are being served.
\* Exception: after any error of accept() the accept thread has ended, and
\* nobody takes a pending connection (see EndsByStopOnly).
AcceptProgress ==
  \A c \in Conn : c \in queue ~> (c \notin queue \/ acceptor = "done")

\* The same, with the same exception, for a server with max_connections = 1,
\* whose accept thread never serves a client itself.
SingleAcceptProgress ==
  \A c \in Conn :
    (max_connections = 1 /\ c \in queue) ~> (c \notin queue \/ acceptor = "done")

\* "Stop server thread": Stop returns.
StopReturns == owner = "closing" ~> owner = "stopped"

\* The same for max_connections = 1: the thread Stop joins is never inside
\* client_handler.
SingleStopReturns ==
  (max_connections = 1 /\ owner = "closing") ~> owner = "stopped"

\* A message a peer sent on a registered connection is received, unless Stop
\* begins.
MessageReceived ==
  \A c \in Conn :
    (owner = "running" /\ Registered(c) /\ inbox[c] = MaxMessages)
      ~> (inbox[c] < MaxMessages \/ owner # "running")
=============================================================================
