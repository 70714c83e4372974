------------------------------- MODULE CServer -------------------------------
(***************************************************************************)
(* The C server of Linux/server.c: server_start, server_handler (accept    *)
(* thread), client_handler (one thread per client) and server_stop.        *)
(*                                                                         *)
(* All servers of a process share client_socket_list and its lock.  A      *)
(* Server is a server_t; it is started once.  The kernel is modelled by    *)
(* what the code relies on: close() frees a number at once and the next    *)
(* accept() may return it again; read() and accept() calls in progress     *)
(* keep their socket and are not woken by close(), only by shutdown().     *)
(*                                                                         *)
(* Memory failures, refusing callbacks and read timeouts are               *)
(* nondeterministic choices; message contents are left out.  Descriptor 0  *)
(* (standard input) is never closed, so accept() does not return it.       *)
(***************************************************************************)
EXTENDS Naturals, FiniteSets, FiniteSetsExt

CONSTANTS
  Server,       \* the server_t objects
  Conn,         \* the connections peers may open, each at most once
  Fd,           \* the descriptor numbers of the process (all > 0)
  MaxClients,   \* the values of MAX_CLIENTS, a compile time option
  Free,         \* descriptor table: a free number
  NoFd,         \* the value 0 of an empty slot, and no descriptor
  None          \* no connection, no server

ASSUME CServerAssumption ==
  /\ MaxClients \subseteq Nat \ {0}
  /\ Server \cap Conn = {}
  /\ {Free, None} \cap (Server \cup Conn) = {}
  /\ NoFd \notin Fd

VARIABLES
  owner,      \* per server: where its owner is in server_start / server_stop
  index,      \* per server: the loop index of terminate_all_clients
  sock,       \* per server: server->socket
  acceptor,   \* per server: where server_handler is
  lis,        \* per server: the listening socket its accept() waits on
  cur,        \* per server: the client being set up
  handler,    \* per connection: where its client_handler is
  hfd,        \* per connection: client->socket
  reading,    \* per connection: the connection its read() waits on
  slots,      \* client_socket_list
  fdt,        \* kernel: the descriptor table
  listening,  \* kernel: the sockets that listen
  queue,      \* kernel: pending connections of each listening socket
  rdshut,     \* kernel: connections shut down for reading
  peer        \* the remote end of each connection

serverVars == <<owner, index, sock>>
acceptVars == <<acceptor, lis, cur>>
handlerVars == <<handler, reading>>
peerVars == <<queue, peer>>
vars == <<owner, index, sock, acceptor, lis, cur, handler, hfd, reading,
          slots, fdt, listening, queue, rdshut, peer>>

Slot == DOMAIN slots
MAX_CLIENTS == Cardinality(Slot)

TypeOK ==
  /\ owner \in [Server -> {"new", "failed", "running", "terminating",
                           "closing", "joining", "stopped"}]
  /\ MAX_CLIENTS \in MaxClients
  /\ index \in [Server -> 1..(MAX_CLIENTS + 1)]
  /\ sock \in [Server -> Fd \cup {NoFd}]
  /\ acceptor \in [Server -> {"none", "listen", "alloc", "accepting", "add",
                              "create", "drop", "err", "done"}]
  /\ lis \in [Server -> Server \cup {None}]
  /\ cur \in [Server -> Conn \cup {None}]
  /\ handler \in [Conn -> {"none", "start", "read", "reading", "close",
                           "remove", "done", "dropped", "leaked"}]
  /\ hfd \in [Conn -> Fd \cup {NoFd}]
  /\ reading \in [Conn -> Conn \cup {None}]
  /\ slots \in [Slot -> Fd \cup {NoFd}]
  /\ fdt \in [Fd -> {Free} \cup Conn \cup Server]
  /\ listening \subseteq Server
  /\ queue \in [Server -> SUBSET Conn]
  /\ rdshut \subseteq Conn
  /\ peer \in [Conn -> {"idle", "connected", "left", "refused"}]

Init ==
  /\ owner = [s \in Server |-> "new"]
  /\ index = [s \in Server |-> 1]
  /\ sock = [s \in Server |-> NoFd]
  /\ acceptor = [s \in Server |-> "none"]
  /\ lis = [s \in Server |-> None]
  /\ cur = [s \in Server |-> None]
  /\ handler = [c \in Conn |-> "none"]
  /\ hfd = [c \in Conn |-> NoFd]
  /\ reading = [c \in Conn |-> None]
  /\ \E max \in MaxClients : slots = [i \in 1..max |-> NoFd]
  /\ fdt = [f \in Fd |-> Free]
  /\ listening = {}
  /\ queue = [s \in Server |-> {}]
  /\ rdshut = {}
  /\ peer = [c \in Conn |-> "idle"]

FreeFds == {f \in Fd : fdt[f] = Free}
CloseFd(f) == fdt' = [fdt EXCEPT ![f] = Free]

\* shutdown(f, SHUT_RD): whatever the number names by now.
ShutdownRead(f) ==
  /\ rdshut' = rdshut \cup ({fdt[f]} \cap Conn)
  /\ listening' = listening \ {fdt[f]}

\* terminate_all_clients is the only holder of `lock` across steps.
LockFree == \A s \in Server : owner[s] # "terminating"

-----------------------------------------------------------------------------
(***************************************************************************)
(* client_socket_list.                                                     *)
(***************************************************************************)
EmptySlots == {i \in Slot : slots[i] = NoFd}
SlotsOf(f) == {i \in Slot : slots[i] = f}

\* Mutant: every slot with this number is cleared.
RemoveEverySlot(f) == slots' = [i \in Slot |-> IF slots[i] = f THEN NoFd ELSE slots[i]]

add_client_to_list(f) == slots' = [slots EXCEPT ![Min(EmptySlots)] = f]

remove_client_from_list(f) ==
  slots' = IF SlotsOf(f) = {} THEN slots ELSE [slots EXCEPT ![Min(SlotsOf(f))] = NoFd]

-----------------------------------------------------------------------------
(***************************************************************************)
(* server_start and server_stop.                                           *)
(***************************************************************************)
server_start(s) ==
  /\ owner[s] = "new"
  /\ \/ \E f \in FreeFds :
          /\ fdt' = [fdt EXCEPT ![f] = s]
          /\ sock' = [sock EXCEPT ![s] = f]
          /\ owner' = [owner EXCEPT ![s] = "running"]
          /\ acceptor' = [acceptor EXCEPT ![s] = "listen"]
     \/ /\ owner' = [owner EXCEPT ![s] = "failed"]
        /\ UNCHANGED <<fdt, sock, acceptor>>
  /\ UNCHANGED <<index, lis, cur, handlerVars, hfd, slots, listening, rdshut,
                 peerVars>>

server_stop(s) ==
  /\ owner[s] = "running"
  /\ LockFree
  /\ owner' = [owner EXCEPT ![s] = "terminating"]
  /\ UNCHANGED <<index, sock, acceptVars, handlerVars, hfd, slots, fdt,
                 listening, rdshut, peerVars>>

\* One turn of the loop: the socket in the slot is shut down and closed, the
\* slot keeps its number.
terminate_all_clients(s) ==
  /\ owner[s] = "terminating"
  /\ IF index[s] > MAX_CLIENTS
       THEN /\ owner' = [owner EXCEPT ![s] = "closing"]
            /\ UNCHANGED <<index, fdt, listening, rdshut>>
       ELSE /\ index' = [index EXCEPT ![s] = @ + 1]
            /\ IF slots[index[s]] = NoFd
                 THEN UNCHANGED <<fdt, listening, rdshut>>
                 ELSE ShutdownRead(slots[index[s]]) /\ CloseFd(slots[index[s]])
            /\ UNCHANGED owner
  /\ UNCHANGED <<sock, acceptVars, handlerVars, hfd, slots, peerVars>>

CloseServer(s) ==
  /\ owner[s] = "closing"
  /\ CloseFd(sock[s])
  /\ owner' = [owner EXCEPT ![s] = "joining"]
  /\ UNCHANGED <<index, sock, acceptVars, handlerVars, hfd, slots, listening,
                 rdshut, peerVars>>

server_wait_for_err(s) ==
  /\ owner[s] = "joining"
  /\ acceptor[s] = "done"
  /\ owner' = [owner EXCEPT ![s] = "stopped"]
  /\ UNCHANGED <<index, sock, acceptVars, handlerVars, hfd, slots, fdt,
                 listening, rdshut, peerVars>>

-----------------------------------------------------------------------------
(***************************************************************************)
(* server_handler.                                                         *)
(***************************************************************************)
Goto(s, label) == acceptor' = [acceptor EXCEPT ![s] = label]

\* listen() fails when the number is no longer the server's socket.
Listen(s) ==
  /\ acceptor[s] = "listen"
  /\ IF fdt[sock[s]] = s
       THEN listening' = listening \cup {s} /\ Goto(s, "alloc")
       ELSE UNCHANGED listening /\ Goto(s, "err")
  /\ UNCHANGED <<serverVars, lis, cur, handlerVars, hfd, slots, fdt, rdshut,
                 peerVars>>

\* malloc, then accept() is called on whatever listening socket the number
\* names; without memory or a listening socket the loop ends (the callback asks
\* for it, or `continue` meets a clientfd that is negative or not yet set; with
\* the last client's number in clientfd malloc is tried again: no step).
CallAccept(s) ==
  /\ acceptor[s] = "alloc"
  /\ \/ /\ fdt[sock[s]] \in Server
        /\ lis' = [lis EXCEPT ![s] = fdt[sock[s]]]
        /\ Goto(s, "accepting")
     \/ /\ Goto(s, "err")
        /\ UNCHANGED lis
  /\ UNCHANGED <<serverVars, cur, handlerVars, hfd, slots, fdt, listening,
                 rdshut, peerVars>>

AcceptReturns(s, c) ==
  /\ acceptor[s] = "accepting"
  /\ lis[s] \in listening
  /\ c \in queue[lis[s]]
  /\ \E f \in FreeFds :
       /\ fdt' = [fdt EXCEPT ![f] = c]
       /\ hfd' = [hfd EXCEPT ![c] = f]
  /\ queue' = [queue EXCEPT ![lis[s]] = @ \ {c}]
  /\ lis' = [lis EXCEPT ![s] = None]
  /\ cur' = [cur EXCEPT ![s] = c]
  /\ Goto(s, "add")
  /\ UNCHANGED <<serverVars, handlerVars, slots, listening, rdshut, peer>>

\* Any error of accept() ends the loop: the callback asks for it, or clientfd
\* is negative when `continue` evaluates the loop's condition.
AcceptFails(s) ==
  /\ acceptor[s] = "accepting"
  /\ lis[s] \notin listening \/ FreeFds = {}
  /\ lis' = [lis EXCEPT ![s] = None]
  /\ Goto(s, "err")
  /\ UNCHANGED <<serverVars, cur, handlerVars, hfd, slots, fdt, listening,
                 rdshut, peerVars>>

\* add_client_to_list; a full list ends the server and leaks the descriptor.
RegisterClient(s) ==
  /\ acceptor[s] = "add"
  /\ LockFree
  /\ \/ /\ EmptySlots # {}
        /\ add_client_to_list(hfd[cur[s]])
        /\ Goto(s, "create")
        /\ UNCHANGED handler
     \/ /\ EmptySlots = {}
        /\ handler' = [handler EXCEPT ![cur[s]] = "leaked"]
        /\ Goto(s, "err")
        /\ UNCHANGED slots
  /\ UNCHANGED <<serverVars, lis, cur, hfd, reading, fdt, listening, rdshut,
                 peerVars>>

\* pthread_create; the loop's condition holds, server->socket is never reset.
CreateThread(s) ==
  /\ acceptor[s] = "create"
  /\ handler' = [handler EXCEPT ![cur[s]] = "start"]
  /\ Goto(s, "alloc")
  /\ UNCHANGED <<serverVars, lis, cur, hfd, reading, slots, fdt, listening,
                 rdshut, peerVars>>

\* pthread_create fails: close ...
CreateFails(s) ==
  /\ acceptor[s] = "create"
  /\ CloseFd(hfd[cur[s]])
  /\ Goto(s, "drop")
  /\ UNCHANGED <<serverVars, lis, cur, handlerVars, hfd, slots, listening,
                 rdshut, peerVars>>

\* Mutant: the slot of the client without a thread is kept.
DropClientForgotten(s) ==
  /\ acceptor[s] = "drop"
  /\ handler' = [handler EXCEPT ![cur[s]] = "dropped"]
  /\ Goto(s, "err")
  /\ UNCHANGED <<serverVars, lis, cur, hfd, reading, slots, fdt, listening,
                 rdshut, peerVars>>

\* ... and remove_client_from_list.
DropClient(s) ==
  /\ acceptor[s] = "drop"
  /\ LockFree
  /\ remove_client_from_list(hfd[cur[s]])
  /\ handler' = [handler EXCEPT ![cur[s]] = "dropped"]
  /\ Goto(s, "err")
  /\ UNCHANGED <<serverVars, lis, cur, hfd, reading, fdt, listening, rdshut,
                 peerVars>>

\* err: the server's number is shut down, whatever it names by now.
EndServer(s) ==
  /\ acceptor[s] = "err"
  /\ ShutdownRead(sock[s])
  /\ Goto(s, "done")
  /\ UNCHANGED <<serverVars, lis, cur, handlerVars, hfd, slots, fdt, peerVars>>

-----------------------------------------------------------------------------
(***************************************************************************)
(* client_handler of connection c.                                         *)
(***************************************************************************)
Become(c, label) == handler' = [handler EXCEPT ![c] = label]

\* malloc, the connected callback and setsockopt, each of which may fail.
StartClient(c) ==
  /\ handler[c] = "start"
  /\ Become(c, "read") \/ Become(c, "close")
  /\ UNCHANGED <<serverVars, acceptVars, hfd, reading, slots, fdt, listening,
                 rdshut, peerVars>>

\* Mutant: the failure of read() on a closed number is not noticed.
CallReadUnchecked(c) ==
  /\ handler[c] = "read"
  /\ Become(c, "reading")
  /\ reading' = [reading EXCEPT ![c] = fdt[hfd[c]]]
  /\ UNCHANGED <<serverVars, acceptVars, hfd, slots, fdt, listening, rdshut,
                 peerVars>>

CallRead(c) ==
  /\ handler[c] = "read"
  /\ IF fdt[hfd[c]] \in Conn
       THEN Become(c, "reading") /\ reading' = [reading EXCEPT ![c] = fdt[hfd[c]]]
       ELSE Become(c, "close") /\ UNCHANGED reading
  /\ UNCHANGED <<serverVars, acceptVars, hfd, slots, fdt, listening, rdshut,
                 peerVars>>

\* read() returns data; the receive callback asks for more or for the end.
Receive(c) ==
  /\ handler[c] = "reading"
  /\ peer[reading[c]] = "connected"
  /\ Become(c, "read") \/ Become(c, "close")
  /\ reading' = [reading EXCEPT ![c] = None]
  /\ UNCHANGED <<serverVars, acceptVars, hfd, slots, fdt, listening, rdshut,
                 peerVars>>

\* read() returns 0: the peer has left, or the socket was shut down.
EndOfFile(c) ==
  /\ handler[c] = "reading"
  /\ peer[reading[c]] = "left" \/ reading[c] \in rdshut
  /\ Become(c, "close")
  /\ reading' = [reading EXCEPT ![c] = None]
  /\ UNCHANGED <<serverVars, acceptVars, hfd, slots, fdt, listening, rdshut,
                 peerVars>>

\* Mutant: the descriptor stays open.
CloseClientForgotten(c) ==
  /\ handler[c] = "close"
  /\ Become(c, "remove")
  /\ UNCHANGED <<serverVars, acceptVars, hfd, reading, slots, fdt, listening,
                 rdshut, peerVars>>

\* Mutant: the descriptor is closed twice.
CloseClientTwice(c) ==
  /\ handler[c] = "close"
  /\ CloseFd(hfd[c])
  /\ Become(c, "remove") \/ UNCHANGED handler
  /\ UNCHANGED <<serverVars, acceptVars, hfd, reading, slots, listening,
                 rdshut, peerVars>>

\* The socket is closed before it is taken from the list.
CloseClient(c) ==
  /\ handler[c] = "close"
  /\ CloseFd(hfd[c])
  /\ Become(c, "remove")
  /\ UNCHANGED <<serverVars, acceptVars, hfd, reading, slots, listening,
                 rdshut, peerVars>>

UnregisterClient(c) ==
  /\ handler[c] = "remove"
  /\ LockFree
  /\ remove_client_from_list(hfd[c])
  /\ Become(c, "done")
  /\ UNCHANGED <<serverVars, acceptVars, hfd, reading, fdt, listening, rdshut,
                 peerVars>>

-----------------------------------------------------------------------------
(***************************************************************************)
(* The kernel and the remote ends.                                         *)
(***************************************************************************)

\* A listening socket without descriptor and without waiting accept() is gone.
ReleaseListener(l) ==
  /\ l \in listening
  /\ \A f \in Fd : fdt[f] # l
  /\ \A s \in Server : lis[s] # l
  /\ listening' = listening \ {l}
  /\ UNCHANGED <<serverVars, acceptVars, handlerVars, hfd, slots, fdt, rdshut,
                 peerVars>>

\* Pending connections of a socket that no longer listens are reset.
RefusePending(l) ==
  /\ l \notin listening
  /\ queue[l] # {}
  /\ queue' = [queue EXCEPT ![l] = {}]
  /\ peer' = [c \in Conn |-> IF c \in queue[l] THEN "refused" ELSE peer[c]]
  /\ UNCHANGED <<serverVars, acceptVars, handlerVars, hfd, slots, fdt,
                 listening, rdshut>>

Connect(c, l) ==
  /\ peer[c] = "idle"
  /\ l \in listening
  /\ peer' = [peer EXCEPT ![c] = "connected"]
  /\ queue' = [queue EXCEPT ![l] = @ \cup {c}]
  /\ UNCHANGED <<serverVars, acceptVars, handlerVars, hfd, slots, fdt,
                 listening, rdshut>>

Leave(c) ==
  /\ peer[c] = "connected"
  /\ peer' = [peer EXCEPT ![c] = "left"]
  /\ UNCHANGED <<serverVars, acceptVars, handlerVars, hfd, slots, fdt,
                 listening, rdshut, queue>>

-----------------------------------------------------------------------------
StopSteps(s) ==
  terminate_all_clients(s) \/ CloseServer(s) \/ server_wait_for_err(s)

AcceptStep(s) ==
  \/ Listen(s)
  \/ CallAccept(s)
  \/ \E c \in Conn : AcceptReturns(s, c)
  \/ AcceptFails(s)
  \/ RegisterClient(s)
  \/ CreateThread(s)
  \/ CreateFails(s)
  \/ DropClient(s)
  \/ EndServer(s)

HandlerStep(c) ==
  \/ StartClient(c)
  \/ CallRead(c)
  \/ Receive(c)
  \/ EndOfFile(c)
  \/ CloseClient(c)
  \/ UnregisterClient(c)

KernelStep(l) == ReleaseListener(l) \/ RefusePending(l)

Next ==
  \/ \E s \in Server : server_start(s) \/ server_stop(s) \/ StopSteps(s) \/ AcceptStep(s)
  \/ \E c \in Conn : HandlerStep(c) \/ Leave(c)
  \/ \E c \in Conn, l \in Server : Connect(c, l)
  \/ \E l \in Server : KernelStep(l)

Spec == Init /\ [][Next]_vars

\* Threads that can run do; a begun stop is carried on; read() reports the end
\* of a connection.  Nobody has to connect, send or leave.
Fairness ==
  /\ \A s \in Server : WF_vars(StopSteps(s)) /\ WF_vars(AcceptStep(s))
  /\ \A c \in Conn : WF_vars(HandlerStep(c)) /\ SF_vars(EndOfFile(c))
  /\ \A l \in Server : WF_vars(KernelStep(l))

FairSpec == Spec /\ Fairness

-----------------------------------------------------------------------------
(***************************************************************************)
(* Properties.                                                             *)
(***************************************************************************)

\* The client of c has a slot: from add_client_to_list to
\* remove_client_from_list.
Registered(c) ==
  \/ handler[c] \in {"start", "read", "reading", "close", "remove"}
  \/ \E s \in Server : cur[s] = c /\ acceptor[s] \in {"create", "drop"}

\* Every number occurs in client_socket_list once for each registered client
\* that has it, although a handler closes its socket before it gives up the
\* slot, and accept() may return the number again in between.  So no slot is
\* lost and none is freed too early, also while and after servers stop.
SlotAccounting ==
  \A f \in Fd :
    Cardinality(SlotsOf(f)) =
      Cardinality({c \in Conn : Registered(c) /\ hfd[c] = f})

NoneStopped == \A s \in Server : owner[s] \in {"new", "failed", "running"}

\* As long as no server of the process is stopped, a connection loses its
\* descriptor only through its own handler, or because it got no thread.
NoForeignClose ==
  [][NoneStopped =>
       \A c \in Conn, f \in Fd :
         fdt[f] = c /\ fdt'[f] # c =>
           /\ hfd[c] = f
           /\ \/ handler[c] = "close"
              \/ \E s \in Server : cur[s] = c /\ acceptor[s] = "create"]_vars

\* The connection of a peer that has left is closed sooner or later, unless the
\* full list leaked it; a stop of any server does not prevent it.
AbandonedIsClosed ==
  \A c \in Conn :
    (hfd[c] # NoFd /\ peer[c] = "left")
      ~> (handler[c] = "leaked" \/ \A f \in Fd : fdt[f] # c)
=============================================================================
