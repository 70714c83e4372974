--------------------------- MODULE CServer_proofs ---------------------------
(***************************************************************************)
(* Proofs about the C server of Linux/server.c, for every number of        *)
(* servers, connections, descriptors and slots: the global list holds      *)
(* exactly the registered clients' numbers, and before a stop nobody       *)
(* closes somebody else's connection.                                      *)
(***************************************************************************)
EXTENDS CServer, Arithmetic, FiniteSetTheorems, TLAPS

-----------------------------------------------------------------------------
(***************************************************************************)
(* The inductive invariant.                                                *)
(***************************************************************************)
SettingUp(s) == acceptor[s] \in {"add", "create", "drop"}

\* client_socket_list is an array.
SlotsNumbered == \E max \in MaxClients : Slot = 1..max

\* A started server has had a socket; its threads know what they work on.
ServersReady ==
  \A s \in Server :
    /\ owner[s] \in {"new", "failed"} => acceptor[s] = "none"
    /\ owner[s] \notin {"new", "failed"} => sock[s] \in Fd
    /\ acceptor[s] = "accepting" => lis[s] \in Server
    /\ SettingUp(s) => /\ cur[s] \in Conn
                       /\ handler[cur[s]] = "none"
                       /\ hfd[cur[s]] \in Fd

\* No two accept threads set up the same client.
SetUpOnce ==
  \A s, t \in Server : SettingUp(s) /\ SettingUp(t) /\ cur[s] = cur[t] => s = t

\* A pending connection is in one queue, and nobody knows it yet.
PendingUnknown ==
  \A c \in Conn :
    /\ hfd[c] = NoFd => handler[c] = "none"
    /\ handler[c] = "reading" => reading[c] \in Conn
    /\ peer[c] = "idle" => hfd[c] = NoFd
    /\ \A s \in Server : c \in queue[s] => peer[c] # "idle" /\ hfd[c] = NoFd
    /\ \A s, t \in Server : c \in queue[s] /\ c \in queue[t] => s = t

\* The clients registered with number f.
ClientsOf(f) == {c \in Conn : Registered(c) /\ hfd[c] = f}
FinitelyMany == \A f \in Fd : IsFiniteSet(ClientsOf(f))

\* Until a server is stopped, a client's number is its own until it is closed.
Live(c) ==
  \/ handler[c] \in {"start", "read", "reading", "close"}
  \/ \E s \in Server : cur[s] = c /\ acceptor[s] \in {"add", "create"}
OwnNumbers == NoneStopped => \A c \in Conn : Live(c) => fdt[hfd[c]] = c

Shape == TypeOK /\ SlotsNumbered /\ ServersReady /\ SetUpOnce /\ PendingUnknown
IInv == Shape /\ SlotAccounting /\ FinitelyMany /\ OwnNumbers

-----------------------------------------------------------------------------
(***************************************************************************)
(* The first match in client_socket_list.                                  *)
(***************************************************************************)

\* The loops over client_socket_list stop at a slot of the kind they look for.
LEMMA MinIsElement ==
  ASSUME NEW S \in SUBSET Nat, S # {}
  PROVE  Min(S) \in S
  BY LeastElement DEF Min

\* The list keeps its length, and takes or clears one slot at a time.
LEMMA ListStep ==
  ASSUME Shape, NEW f \in Fd
  PROVE  /\ EmptySlots # {} /\ add_client_to_list(f) =>
              \E i \in EmptySlots : slots' = [slots EXCEPT ![i] = f]
         /\ remove_client_from_list(f) =>
              \/ SlotsOf(f) = {} /\ slots' = slots
              \/ \E i \in SlotsOf(f) : slots' = [slots EXCEPT ![i] = NoFd]
<1>1. Slot \subseteq Nat
  BY CServerAssumption DEF Shape, SlotsNumbered
<1>2. EmptySlots # {} => Min(EmptySlots) \in EmptySlots
  BY <1>1, MinIsElement DEF EmptySlots
<1>3. SlotsOf(f) # {} => Min(SlotsOf(f)) \in SlotsOf(f)
  BY <1>1, MinIsElement DEF SlotsOf
<1> QED
  BY <1>2, <1>3 DEF add_client_to_list, remove_client_from_list

\* The number of slots is the length of the array.
LEMMA SlotCount ==
  ASSUME SlotsNumbered
  PROVE  MAX_CLIENTS \in MaxClients /\ Slot = 1..MAX_CLIENTS
<1>1. PICK max \in MaxClients : Slot = 1..max
  BY DEF SlotsNumbered
<1>2. max \in Nat /\ max > 0
  BY CServerAssumption
<1>3. Cardinality(1..max) = max
  BY <1>2, FS_Interval
<1> QED
  BY <1>1, <1>3 DEF MAX_CLIENTS

\* Every step keeps the array, its length and the type of its slots.
LEMMA SlotsStep ==
  Shape /\ [Next]_vars => Slot' = Slot /\ slots' \in [Slot -> Fd \cup {NoFd}]
<1> SUFFICES ASSUME Shape, [Next]_vars
             PROVE  Slot' = Slot /\ slots' \in [Slot -> Fd \cup {NoFd}]
  OBVIOUS
<1>0. slots \in [Slot -> Fd \cup {NoFd}]
  BY DEF Shape, TypeOK
<1> DEFINE Cleared(f) == slots' = slots \/ \E i \in Slot : slots' = [slots EXCEPT ![i] = f]
<1>1. ASSUME NEW s \in Server, RegisterClient(s) PROVE \E f \in Fd : Cleared(f)
  BY <1>1, ListStep
     DEF Shape, ServersReady, SettingUp, RegisterClient, EmptySlots
<1>2. ASSUME NEW s \in Server, DropClient(s) PROVE Cleared(NoFd)
  BY <1>2, ListStep DEF Shape, ServersReady, SettingUp, DropClient, SlotsOf
<1>3. ASSUME NEW c \in Conn, UnregisterClient(c) PROVE Cleared(NoFd)
  <2>1. hfd[c] \in Fd
    BY <1>3 DEF UnregisterClient, Shape, PendingUnknown, TypeOK
  <2> QED
    BY <1>3, <2>1, ListStep DEF UnregisterClient, SlotsOf
<1>4. \/ slots' = slots
      \/ \E s \in Server : RegisterClient(s) \/ DropClient(s)
      \/ \E c \in Conn : UnregisterClient(c)
  BY DEF Next, StopSteps, AcceptStep, HandlerStep, KernelStep, vars,
         server_start, server_stop, terminate_all_clients, CloseServer,
         server_wait_for_err, Listen, CallAccept, AcceptReturns, AcceptFails,
         CreateThread, CreateFails, EndServer, StartClient, CallRead, Receive,
         EndOfFile, CloseClient, ReleaseListener, RefusePending, Connect, Leave
<1>5. \E f \in Fd \cup {NoFd} : Cleared(f)
  BY <1>1, <1>2, <1>3, <1>4
<1> QED
  BY <1>0, <1>5 DEF Slot

\* Every action keeps every variable in its type.
LEMMA TypeStep == Shape /\ [Next]_vars => TypeOK' /\ SlotsNumbered'
<1> SUFFICES ASSUME Shape, [Next]_vars PROVE TypeOK' /\ SlotsNumbered'
  OBVIOUS
<1>a. Slot' = Slot /\ slots' \in [Slot -> Fd \cup {NoFd}]
  BY SlotsStep
<1>b. MAX_CLIENTS' = MAX_CLIENTS
  BY <1>a DEF MAX_CLIENTS
<1>c. SlotsNumbered'
  BY <1>a DEF Shape, SlotsNumbered
<1>d. MAX_CLIENTS \in Nat
  BY SlotCount, CServerAssumption DEF Shape
<1> SUFFICES TypeOK'
  BY <1>c
<1> USE <1>a, <1>b, <1>d
<1> USE CServerAssumption
    DEF Shape, TypeOK, ServersReady, PendingUnknown, SettingUp, vars, serverVars, acceptVars, handlerVars, peerVars
<1>1. ASSUME NEW s \in Server, server_start(s) PROVE TypeOK'
  <2>1. CASE owner' = [owner EXCEPT ![s] = "failed"]
    BY <1>1, <2>1 DEF server_start
  <2>2. ASSUME NEW f \in FreeFds, fdt' = [fdt EXCEPT ![f] = s],
               sock' = [sock EXCEPT ![s] = f],
               owner' = [owner EXCEPT ![s] = "running"],
               acceptor' = [acceptor EXCEPT ![s] = "listen"]
        PROVE  TypeOK'
    BY <1>1, <2>2 DEF server_start, FreeFds
  <2> QED
    BY <1>1, <2>1, <2>2 DEF server_start
<1>2. ASSUME NEW s \in Server, server_stop(s) PROVE TypeOK'
  BY <1>2 DEF server_stop
<1>3. ASSUME NEW s \in Server, terminate_all_clients(s) PROVE TypeOK'
  <2>1. CASE index[s] > MAX_CLIENTS
    BY <1>3, <2>1 DEF terminate_all_clients
  <2>2. CASE ~(index[s] > MAX_CLIENTS)
    <3>1. index[s] \in Slot /\ index[s] + 1 \in 1..(MAX_CLIENTS + 1)
      BY <2>2, SlotCount
    <3>2. slots[index[s]] \in Fd \cup {NoFd}
      BY <3>1
    <3>3. index' \in [Server -> 1..(MAX_CLIENTS + 1)]
      BY <1>3, <2>2, <3>1, SMTT(60) DEF terminate_all_clients
    <3> QED
      BY <1>3, <2>2, <3>2, <3>3
         DEF terminate_all_clients, ShutdownRead, CloseFd
  <2> QED
    BY <2>1, <2>2
<1>4. ASSUME NEW s \in Server, CloseServer(s) PROVE TypeOK'
  BY <1>4 DEF CloseServer, CloseFd
<1>5. ASSUME NEW s \in Server, server_wait_for_err(s) PROVE TypeOK'
  BY <1>5 DEF server_wait_for_err
<1>6. ASSUME NEW s \in Server, Listen(s) PROVE TypeOK'
  BY <1>6, SMTT(60) DEF Listen, Goto
<1>7. ASSUME NEW s \in Server, CallAccept(s) PROVE TypeOK'
  BY <1>7, SMTT(60) DEF CallAccept, Goto
<1>8. ASSUME NEW s \in Server, NEW c \in Conn, AcceptReturns(s, c) PROVE TypeOK'
  BY <1>8 DEF AcceptReturns, Goto, FreeFds
<1>9. ASSUME NEW s \in Server, AcceptFails(s) PROVE TypeOK'
  BY <1>9 DEF AcceptFails, Goto
<1>10. ASSUME NEW s \in Server, RegisterClient(s) PROVE TypeOK'
  <2>1. CASE UNCHANGED handler
    BY <1>10, <2>1 DEF RegisterClient, Goto
  <2>2. CASE handler' = [handler EXCEPT ![cur[s]] = "leaked"]
    BY <1>10, <2>2 DEF RegisterClient, Goto
  <2> QED
    BY <1>10, <2>1, <2>2 DEF RegisterClient
<1>11. ASSUME NEW s \in Server, CreateThread(s) PROVE TypeOK'
  BY <1>11 DEF CreateThread, Goto
<1>12. ASSUME NEW s \in Server, CreateFails(s) PROVE TypeOK'
  BY <1>12 DEF CreateFails, Goto, CloseFd
<1>13. ASSUME NEW s \in Server, DropClient(s) PROVE TypeOK'
  BY <1>13 DEF DropClient, Goto
<1>14. ASSUME NEW s \in Server, EndServer(s) PROVE TypeOK'
  BY <1>14 DEF EndServer, Goto, ShutdownRead
<1>15. ASSUME NEW c \in Conn, StartClient(c) PROVE TypeOK'
  BY <1>15 DEF StartClient, Become
<1>16. ASSUME NEW c \in Conn, CallRead(c) PROVE TypeOK'
  <2>1. CASE fdt[hfd[c]] \in Conn
    <3>1. reading' \in [Conn -> Conn \cup {None}]
      BY <1>16, <2>1 DEF CallRead
    <3>2. handler' = [handler EXCEPT ![c] = "reading"]
      BY <1>16, <2>1 DEF CallRead, Become
    <3> QED
      BY <1>16, <3>1, <3>2 DEF CallRead
  <2>2. CASE fdt[hfd[c]] \notin Conn
    BY <1>16, <2>2 DEF CallRead, Become
  <2> QED
    BY <2>1, <2>2
<1>17. ASSUME NEW c \in Conn, Receive(c) PROVE TypeOK'
  BY <1>17 DEF Receive, Become
<1>18. ASSUME NEW c \in Conn, EndOfFile(c) PROVE TypeOK'
  BY <1>18 DEF EndOfFile, Become
<1>19. ASSUME NEW c \in Conn, CloseClient(c) PROVE TypeOK'
  BY <1>19 DEF CloseClient, Become, CloseFd
<1>20. ASSUME NEW c \in Conn, UnregisterClient(c) PROVE TypeOK'
  BY <1>20 DEF UnregisterClient, Become
<1>21. ASSUME NEW s \in Server, ReleaseListener(s) PROVE TypeOK'
  BY <1>21 DEF ReleaseListener
<1>22. ASSUME NEW s \in Server, RefusePending(s) PROVE TypeOK'
  BY <1>22 DEF RefusePending
<1>23. ASSUME NEW c \in Conn, NEW s \in Server, Connect(c, s) PROVE TypeOK'
  BY <1>23 DEF Connect
<1>24. ASSUME NEW c \in Conn, Leave(c) PROVE TypeOK'
  BY <1>24 DEF Leave
<1>25. CASE UNCHANGED vars
  BY <1>25
<1> QED
  BY <1>1, <1>2, <1>3, <1>4, <1>5, <1>6, <1>7, <1>8, <1>9, <1>10, <1>11, <1>12, <1>13, <1>14, <1>15, <1>16, <1>17, <1>18, <1>19, <1>20, <1>21, <1>22, <1>23, <1>24, <1>25
     DEF Next, StopSteps, AcceptStep, HandlerStep, KernelStep

\* A thread that moves on has what the next state needs.
LEMMA ReadyStep == Shape /\ [Next]_vars => ServersReady'
<1> SUFFICES ASSUME Shape, [Next]_vars PROVE ServersReady'
  OBVIOUS
<1> USE CServerAssumption
    DEF Shape, ServersReady, SettingUp, SetUpOnce, PendingUnknown, TypeOK, vars, serverVars, acceptVars, handlerVars, peerVars
<1>1. ASSUME NEW s \in Server, server_start(s) PROVE ServersReady'
  BY <1>1 DEF server_start, FreeFds
<1>2. ASSUME NEW s \in Server, server_stop(s) PROVE ServersReady'
  BY <1>2 DEF server_stop
<1>3. ASSUME NEW s \in Server, terminate_all_clients(s) PROVE ServersReady'
  BY <1>3 DEF terminate_all_clients, ShutdownRead, CloseFd
<1>4. ASSUME NEW s \in Server, CloseServer(s) PROVE ServersReady'
  BY <1>4 DEF CloseServer, CloseFd
<1>5. ASSUME NEW s \in Server, server_wait_for_err(s) PROVE ServersReady'
  BY <1>5 DEF server_wait_for_err
<1>6. ASSUME NEW s \in Server, Listen(s) PROVE ServersReady'
  BY <1>6 DEF Listen, Goto
<1>7. ASSUME NEW s \in Server, CallAccept(s) PROVE ServersReady'
  BY <1>7 DEF CallAccept, Goto
<1>8. ASSUME NEW s \in Server, NEW c \in Conn, AcceptReturns(s, c) PROVE ServersReady'
  BY <1>8 DEF AcceptReturns, Goto, FreeFds
<1>9. ASSUME NEW s \in Server, AcceptFails(s) PROVE ServersReady'
  BY <1>9 DEF AcceptFails, Goto
<1>10. ASSUME NEW s \in Server, RegisterClient(s) PROVE ServersReady'
  BY <1>10 DEF RegisterClient, Goto
<1>11. ASSUME NEW s \in Server, CreateThread(s) PROVE ServersReady'
  BY <1>11 DEF CreateThread, Goto
<1>12. ASSUME NEW s \in Server, CreateFails(s) PROVE ServersReady'
  BY <1>12 DEF CreateFails, Goto, CloseFd
<1>13. ASSUME NEW s \in Server, DropClient(s) PROVE ServersReady'
  BY <1>13 DEF DropClient, Goto
<1>14. ASSUME NEW s \in Server, EndServer(s) PROVE ServersReady'
  BY <1>14 DEF EndServer, Goto, ShutdownRead
<1>15. ASSUME NEW c \in Conn, StartClient(c) PROVE ServersReady'
  BY <1>15 DEF StartClient, Become
<1>16. ASSUME NEW c \in Conn, CallRead(c) PROVE ServersReady'
  BY <1>16 DEF CallRead, Become
<1>17. ASSUME NEW c \in Conn, Receive(c) PROVE ServersReady'
  BY <1>17 DEF Receive, Become
<1>18. ASSUME NEW c \in Conn, EndOfFile(c) PROVE ServersReady'
  BY <1>18 DEF EndOfFile, Become
<1>19. ASSUME NEW c \in Conn, CloseClient(c) PROVE ServersReady'
  BY <1>19 DEF CloseClient, Become, CloseFd
<1>20. ASSUME NEW c \in Conn, UnregisterClient(c) PROVE ServersReady'
  BY <1>20 DEF UnregisterClient, Become
<1>21. ASSUME NEW s \in Server, ReleaseListener(s) PROVE ServersReady'
  BY <1>21 DEF ReleaseListener
<1>22. ASSUME NEW s \in Server, RefusePending(s) PROVE ServersReady'
  BY <1>22 DEF RefusePending
<1>23. ASSUME NEW c \in Conn, NEW s \in Server, Connect(c, s) PROVE ServersReady'
  BY <1>23 DEF Connect
<1>24. ASSUME NEW c \in Conn, Leave(c) PROVE ServersReady'
  BY <1>24 DEF Leave
<1>25. CASE UNCHANGED vars
  BY <1>25
<1> QED
  BY <1>1, <1>2, <1>3, <1>4, <1>5, <1>6, <1>7, <1>8, <1>9, <1>10, <1>11, <1>12, <1>13, <1>14, <1>15, <1>16, <1>17, <1>18, <1>19, <1>20, <1>21, <1>22, <1>23, <1>24, <1>25
     DEF Next, StopSteps, AcceptStep, HandlerStep, KernelStep

\* accept() returns a connection nobody else has.
LEMMA OnceStep == Shape /\ [Next]_vars => SetUpOnce'
<1> SUFFICES ASSUME Shape, [Next]_vars PROVE SetUpOnce'
  OBVIOUS
<1> USE CServerAssumption
    DEF Shape, SetUpOnce, SettingUp, ServersReady, PendingUnknown, TypeOK, vars, serverVars, acceptVars, handlerVars, peerVars
<1>1. ASSUME NEW s \in Server, server_start(s) PROVE SetUpOnce'
  BY <1>1 DEF server_start, FreeFds
<1>2. ASSUME NEW s \in Server, server_stop(s) PROVE SetUpOnce'
  BY <1>2 DEF server_stop
<1>3. ASSUME NEW s \in Server, terminate_all_clients(s) PROVE SetUpOnce'
  BY <1>3 DEF terminate_all_clients, ShutdownRead, CloseFd
<1>4. ASSUME NEW s \in Server, CloseServer(s) PROVE SetUpOnce'
  BY <1>4 DEF CloseServer, CloseFd
<1>5. ASSUME NEW s \in Server, server_wait_for_err(s) PROVE SetUpOnce'
  BY <1>5 DEF server_wait_for_err
<1>6. ASSUME NEW s \in Server, Listen(s) PROVE SetUpOnce'
  BY <1>6 DEF Listen, Goto
<1>7. ASSUME NEW s \in Server, CallAccept(s) PROVE SetUpOnce'
  BY <1>7 DEF CallAccept, Goto
<1>8. ASSUME NEW s \in Server, NEW c \in Conn, AcceptReturns(s, c) PROVE SetUpOnce'
  BY <1>8 DEF AcceptReturns, Goto, FreeFds
<1>9. ASSUME NEW s \in Server, AcceptFails(s) PROVE SetUpOnce'
  BY <1>9 DEF AcceptFails, Goto
<1>10. ASSUME NEW s \in Server, RegisterClient(s) PROVE SetUpOnce'
  BY <1>10 DEF RegisterClient, Goto
<1>11. ASSUME NEW s \in Server, CreateThread(s) PROVE SetUpOnce'
  BY <1>11 DEF CreateThread, Goto
<1>12. ASSUME NEW s \in Server, CreateFails(s) PROVE SetUpOnce'
  BY <1>12 DEF CreateFails, Goto, CloseFd
<1>13. ASSUME NEW s \in Server, DropClient(s) PROVE SetUpOnce'
  BY <1>13 DEF DropClient, Goto
<1>14. ASSUME NEW s \in Server, EndServer(s) PROVE SetUpOnce'
  BY <1>14 DEF EndServer, Goto, ShutdownRead
<1>15. ASSUME NEW c \in Conn, StartClient(c) PROVE SetUpOnce'
  BY <1>15 DEF StartClient, Become
<1>16. ASSUME NEW c \in Conn, CallRead(c) PROVE SetUpOnce'
  BY <1>16 DEF CallRead, Become
<1>17. ASSUME NEW c \in Conn, Receive(c) PROVE SetUpOnce'
  BY <1>17 DEF Receive, Become
<1>18. ASSUME NEW c \in Conn, EndOfFile(c) PROVE SetUpOnce'
  BY <1>18 DEF EndOfFile, Become
<1>19. ASSUME NEW c \in Conn, CloseClient(c) PROVE SetUpOnce'
  BY <1>19 DEF CloseClient, Become, CloseFd
<1>20. ASSUME NEW c \in Conn, UnregisterClient(c) PROVE SetUpOnce'
  BY <1>20 DEF UnregisterClient, Become
<1>21. ASSUME NEW s \in Server, ReleaseListener(s) PROVE SetUpOnce'
  BY <1>21 DEF ReleaseListener
<1>22. ASSUME NEW s \in Server, RefusePending(s) PROVE SetUpOnce'
  BY <1>22 DEF RefusePending
<1>23. ASSUME NEW c \in Conn, NEW s \in Server, Connect(c, s) PROVE SetUpOnce'
  BY <1>23 DEF Connect
<1>24. ASSUME NEW c \in Conn, Leave(c) PROVE SetUpOnce'
  BY <1>24 DEF Leave
<1>25. CASE UNCHANGED vars
  BY <1>25
<1> QED
  BY <1>1, <1>2, <1>3, <1>4, <1>5, <1>6, <1>7, <1>8, <1>9, <1>10, <1>11, <1>12, <1>13, <1>14, <1>15, <1>16, <1>17, <1>18, <1>19, <1>20, <1>21, <1>22, <1>23, <1>24, <1>25
     DEF Next, StopSteps, AcceptStep, HandlerStep, KernelStep

\* A pending connection stays unknown until accept() returns it.
LEMMA PendingStep == Shape /\ [Next]_vars => PendingUnknown'
<1> SUFFICES ASSUME Shape, [Next]_vars PROVE PendingUnknown'
  OBVIOUS
<1> USE CServerAssumption
    DEF Shape, PendingUnknown, SettingUp, ServersReady, TypeOK, vars, serverVars, acceptVars, handlerVars, peerVars
<1>1. ASSUME NEW s \in Server, server_start(s) PROVE PendingUnknown'
  BY <1>1 DEF server_start, FreeFds
<1>2. ASSUME NEW s \in Server, server_stop(s) PROVE PendingUnknown'
  BY <1>2 DEF server_stop
<1>3. ASSUME NEW s \in Server, terminate_all_clients(s) PROVE PendingUnknown'
  BY <1>3 DEF terminate_all_clients, ShutdownRead, CloseFd
<1>4. ASSUME NEW s \in Server, CloseServer(s) PROVE PendingUnknown'
  BY <1>4 DEF CloseServer, CloseFd
<1>5. ASSUME NEW s \in Server, server_wait_for_err(s) PROVE PendingUnknown'
  BY <1>5 DEF server_wait_for_err
<1>6. ASSUME NEW s \in Server, Listen(s) PROVE PendingUnknown'
  BY <1>6 DEF Listen, Goto
<1>7. ASSUME NEW s \in Server, CallAccept(s) PROVE PendingUnknown'
  BY <1>7 DEF CallAccept, Goto
<1>8. ASSUME NEW s \in Server, NEW c \in Conn, AcceptReturns(s, c) PROVE PendingUnknown'
  BY <1>8 DEF AcceptReturns, Goto, FreeFds
<1>9. ASSUME NEW s \in Server, AcceptFails(s) PROVE PendingUnknown'
  BY <1>9 DEF AcceptFails, Goto
<1>10. ASSUME NEW s \in Server, RegisterClient(s) PROVE PendingUnknown'
  BY <1>10 DEF RegisterClient, Goto
<1>11. ASSUME NEW s \in Server, CreateThread(s) PROVE PendingUnknown'
  BY <1>11 DEF CreateThread, Goto
<1>12. ASSUME NEW s \in Server, CreateFails(s) PROVE PendingUnknown'
  BY <1>12 DEF CreateFails, Goto, CloseFd
<1>13. ASSUME NEW s \in Server, DropClient(s) PROVE PendingUnknown'
  BY <1>13 DEF DropClient, Goto
<1>14. ASSUME NEW s \in Server, EndServer(s) PROVE PendingUnknown'
  BY <1>14 DEF EndServer, Goto, ShutdownRead
<1>15. ASSUME NEW c \in Conn, StartClient(c) PROVE PendingUnknown'
  BY <1>15 DEF StartClient, Become
<1>16. ASSUME NEW c \in Conn, CallRead(c) PROVE PendingUnknown'
  BY <1>16 DEF CallRead, Become
<1>17. ASSUME NEW c \in Conn, Receive(c) PROVE PendingUnknown'
  BY <1>17 DEF Receive, Become
<1>18. ASSUME NEW c \in Conn, EndOfFile(c) PROVE PendingUnknown'
  BY <1>18 DEF EndOfFile, Become
<1>19. ASSUME NEW c \in Conn, CloseClient(c) PROVE PendingUnknown'
  BY <1>19 DEF CloseClient, Become, CloseFd
<1>20. ASSUME NEW c \in Conn, UnregisterClient(c) PROVE PendingUnknown'
  BY <1>20 DEF UnregisterClient, Become
<1>21. ASSUME NEW s \in Server, ReleaseListener(s) PROVE PendingUnknown'
  BY <1>21 DEF ReleaseListener
<1>22. ASSUME NEW s \in Server, RefusePending(s) PROVE PendingUnknown'
  BY <1>22 DEF RefusePending
<1>23. ASSUME NEW c \in Conn, NEW s \in Server, Connect(c, s) PROVE PendingUnknown'
  BY <1>23 DEF Connect
<1>24. ASSUME NEW c \in Conn, Leave(c) PROVE PendingUnknown'
  BY <1>24 DEF Leave
<1>25. CASE UNCHANGED vars
  BY <1>25
<1> QED
  BY <1>1, <1>2, <1>3, <1>4, <1>5, <1>6, <1>7, <1>8, <1>9, <1>10, <1>11, <1>12, <1>13, <1>14, <1>15, <1>16, <1>17, <1>18, <1>19, <1>20, <1>21, <1>22, <1>23, <1>24, <1>25
     DEF Next, StopSteps, AcceptStep, HandlerStep, KernelStep

-----------------------------------------------------------------------------
(***************************************************************************)
(* The slots and the registered clients.                                   *)
(***************************************************************************)

\* The slots with one number are finitely many.
LEMMA SlotsFinite == ASSUME Shape, NEW f PROVE IsFiniteSet(SlotsOf(f))
<1>1. PICK max \in MaxClients : Slot = 1..max
  BY DEF Shape, SlotsNumbered
<1>2. max \in Int /\ IsFiniteSet(1..max)
  BY CServerAssumption, FS_Interval
<1> QED
  BY <1>1, <1>2, FS_Subset DEF SlotsOf

\* A step that keeps the list and the registered clients keeps the account.
LEMMA AccountKept ==
  ASSUME SlotAccounting, FinitelyMany, slots' = slots,
         \A c \in Conn : /\ Registered(c)' <=> Registered(c)
                         /\ Registered(c) => hfd'[c] = hfd[c]
  PROVE  SlotAccounting' /\ FinitelyMany'
<1>1. \A f \in Fd : SlotsOf(f)' = SlotsOf(f)
  BY DEF SlotsOf, Slot
<1>2. \A f \in Fd : ClientsOf(f)' = ClientsOf(f)
  BY DEF ClientsOf
<1> QED
  BY <1>1, <1>2, Zenon DEF SlotAccounting, FinitelyMany, ClientsOf

\* A client that enters takes one empty slot with its number.
LEMMA AccountGrows ==
  ASSUME Shape, SlotAccounting, FinitelyMany,
         NEW k \in Conn, ~Registered(k), hfd[k] \in Fd, hfd' = hfd,
         \A c \in Conn : Registered(c)' <=> Registered(c) \/ c = k,
         NEW i \in EmptySlots, slots' = [slots EXCEPT ![i] = hfd[k]]
  PROVE  SlotAccounting' /\ FinitelyMany'
<1> SUFFICES ASSUME NEW f \in Fd
             PROVE  /\ Cardinality(SlotsOf(f)') = Cardinality(ClientsOf(f)')
                    /\ IsFiniteSet(ClientsOf(f)')
  BY DEF SlotAccounting, FinitelyMany, ClientsOf
<1>1. slots \in [Slot -> Fd \cup {NoFd}] /\ i \in Slot /\ slots[i] = NoFd
  BY DEF Shape, TypeOK, EmptySlots
<1>2. Slot' = Slot
  BY <1>1 DEF Slot
<1>3. IsFiniteSet(SlotsOf(f)) /\ IsFiniteSet(ClientsOf(f))
  BY SlotsFinite DEF FinitelyMany
<1>4. Cardinality(SlotsOf(f)) = Cardinality(ClientsOf(f))
  BY DEF SlotAccounting, ClientsOf
<1>5. CASE f = hfd[k]
  <2>1. i \notin SlotsOf(f) /\ k \notin ClientsOf(f)
    BY <1>1, CServerAssumption DEF SlotsOf, ClientsOf
  <2>2. SlotsOf(f)' = SlotsOf(f) \cup {i}
    BY <1>1, <1>2, <1>5 DEF SlotsOf
  <2>3. ClientsOf(f)' = ClientsOf(f) \cup {k}
    BY <1>5 DEF ClientsOf
  <2>4. /\ IsFiniteSet(ClientsOf(f) \cup {k})
        /\ Cardinality(ClientsOf(f) \cup {k}) = Cardinality(ClientsOf(f)) + 1
        /\ Cardinality(SlotsOf(f) \cup {i}) = Cardinality(SlotsOf(f)) + 1
    BY <1>3, <2>1, FS_AddElement
  <2> QED
    BY <1>4, <2>2, <2>3, <2>4
<1>6. CASE f # hfd[k]
  <2>1. SlotsOf(f)' = SlotsOf(f)
    BY <1>1, <1>2, <1>6, CServerAssumption DEF SlotsOf
  <2>2. ClientsOf(f)' = ClientsOf(f)
    BY <1>6 DEF ClientsOf
  <2> QED
    BY <1>3, <1>4, <2>1, <2>2
<1> QED
  BY <1>5, <1>6

\* A client that leaves clears one slot with its number: there is one, the
\* account says, whoever else has the same number.
LEMMA AccountShrinks ==
  ASSUME Shape, SlotAccounting, FinitelyMany,
         NEW k \in Conn, Registered(k), hfd[k] \in Fd, hfd' = hfd,
         \A c \in Conn : Registered(c)' <=> Registered(c) /\ c # k,
         remove_client_from_list(hfd[k])
  PROVE  SlotAccounting' /\ FinitelyMany'
<1> SUFFICES ASSUME NEW f \in Fd
             PROVE  /\ Cardinality(SlotsOf(f)') = Cardinality(ClientsOf(f)')
                    /\ IsFiniteSet(ClientsOf(f)')
  BY DEF SlotAccounting, FinitelyMany, ClientsOf
<1>1. k \in ClientsOf(hfd[k])
  BY DEF ClientsOf
<1>2. Cardinality(ClientsOf(hfd[k])) # 0
  BY <1>1, FS_EmptySet DEF FinitelyMany
<1>3. SlotsOf(hfd[k]) # {}
  BY <1>2, FS_EmptySet DEF SlotAccounting, ClientsOf
<1>4. PICK i \in SlotsOf(hfd[k]) : slots' = [slots EXCEPT ![i] = NoFd]
  BY <1>3, ListStep
<1>5. slots \in [Slot -> Fd \cup {NoFd}] /\ i \in Slot /\ slots[i] = hfd[k]
  BY <1>4 DEF Shape, TypeOK, SlotsOf
<1>6. Slot' = Slot
  BY <1>4, <1>5 DEF Slot
<1>7. IsFiniteSet(SlotsOf(f)) /\ IsFiniteSet(ClientsOf(f))
  BY SlotsFinite DEF FinitelyMany
<1>8. Cardinality(SlotsOf(f)) = Cardinality(ClientsOf(f))
  BY DEF SlotAccounting, ClientsOf
<1>9. CASE f = hfd[k]
  <2>1. SlotsOf(f)' = SlotsOf(f) \ {i}
    BY <1>4, <1>5, <1>6, <1>9, CServerAssumption DEF SlotsOf
  <2>2. ClientsOf(f)' = ClientsOf(f) \ {k}
    BY <1>9 DEF ClientsOf
  <2>3. i \in SlotsOf(f) /\ k \in ClientsOf(f)
    BY <1>1, <1>4, <1>9
  <2>4. /\ IsFiniteSet(ClientsOf(f) \ {k})
        /\ Cardinality(ClientsOf(f) \ {k}) = Cardinality(ClientsOf(f)) - 1
        /\ Cardinality(SlotsOf(f) \ {i}) = Cardinality(SlotsOf(f)) - 1
    BY <1>7, <2>3, FS_RemoveElement
  <2> QED
    BY <1>8, <2>1, <2>2, <2>4
<1>10. CASE f # hfd[k]
  <2>1. SlotsOf(f)' = SlotsOf(f)
    BY <1>4, <1>5, <1>6, <1>10, CServerAssumption DEF SlotsOf
  <2>2. ClientsOf(f)' = ClientsOf(f)
    BY <1>10 DEF ClientsOf
  <2> QED
    BY <1>7, <1>8, <2>1, <2>2
<1> QED
  BY <1>9, <1>10

\* Every step keeps the account.
LEMMA AccountStep ==
  IInv /\ [Next]_vars => SlotAccounting' /\ FinitelyMany'
<1> SUFFICES ASSUME IInv, [Next]_vars
             PROVE  SlotAccounting' /\ FinitelyMany'
  OBVIOUS
<1> DEFINE Same == /\ slots' = slots
                   /\ \A c \in Conn : /\ Registered(c)' <=> Registered(c)
                                      /\ Registered(c) => hfd'[c] = hfd[c]
<1>0. Shape /\ SlotAccounting /\ FinitelyMany
  BY DEF IInv
<1>a. Same => SlotAccounting' /\ FinitelyMany'
  BY <1>0, AccountKept
<1> HIDE DEF Same
<1>1. ASSUME NEW s \in Server, RegisterClient(s)
      PROVE  SlotAccounting' /\ FinitelyMany'
  <2>1. /\ cur[s] \in Conn
        /\ hfd[cur[s]] \in Fd
        /\ hfd' = hfd
        /\ ~Registered(cur[s])
    BY <1>0, <1>1
       DEF RegisterClient, Shape, ServersReady, SettingUp, SetUpOnce, Registered
  <2>2. CASE EmptySlots = {}
    <3>1. Same
      BY <1>0, <1>1, <2>1, <2>2
         DEF Same, RegisterClient, Goto, Registered, Shape, TypeOK
    <3> QED
      BY <1>a, <3>1
  <2>3. CASE EmptySlots # {}
    <3>1. \A c \in Conn : Registered(c)' <=> Registered(c) \/ c = cur[s]
      BY <1>0, <1>1, <2>3 DEF RegisterClient, Goto, Registered, Shape, TypeOK
    <3>2. \E i \in EmptySlots : slots' = [slots EXCEPT ![i] = hfd[cur[s]]]
      BY <1>0, <1>1, <2>1, <2>3, ListStep DEF RegisterClient
    <3> QED
      BY <1>0, <2>1, <3>1, <3>2, AccountGrows
  <2> QED
    BY <2>2, <2>3
<1>2. ASSUME NEW s \in Server, DropClient(s)
      PROVE  SlotAccounting' /\ FinitelyMany'
  <2>1. /\ cur[s] \in Conn
        /\ hfd[cur[s]] \in Fd
        /\ hfd' = hfd
        /\ Registered(cur[s])
        /\ remove_client_from_list(hfd[cur[s]])
    BY <1>0, <1>2 DEF DropClient, Shape, ServersReady, SettingUp, Registered
  <2>2. \A c \in Conn : Registered(c)' <=> Registered(c) /\ c # cur[s]
    BY <1>0, <1>2
       DEF DropClient, Goto, Registered, Shape, TypeOK, ServersReady, SetUpOnce,
           SettingUp
  <2> QED
    BY <1>0, <2>1, <2>2, AccountShrinks
<1>3. ASSUME NEW k \in Conn, UnregisterClient(k)
      PROVE  SlotAccounting' /\ FinitelyMany'
  <2>1. /\ hfd[k] \in Fd
        /\ hfd' = hfd
        /\ Registered(k)
        /\ remove_client_from_list(hfd[k])
    BY <1>0, <1>3
       DEF UnregisterClient, Shape, TypeOK, PendingUnknown, Registered
  <2>2. \A c \in Conn : Registered(c)' <=> Registered(c) /\ c # k
    BY <1>0, <1>3
       DEF UnregisterClient, Become, acceptVars, Registered, Shape, TypeOK,
           ServersReady, SettingUp
  <2> QED
    BY <1>0, <2>1, <2>2, AccountShrinks
<1> USE <1>0
    DEF Same, Registered, Shape, TypeOK, ServersReady, SettingUp,
        PendingUnknown, serverVars, acceptVars, handlerVars, peerVars
<1>4. ASSUME NEW s \in Server, server_start(s) PROVE Same
  BY <1>4 DEF server_start
<1>5. ASSUME NEW s \in Server, server_stop(s) PROVE Same
  BY <1>5 DEF server_stop
<1>6. ASSUME NEW s \in Server, terminate_all_clients(s) PROVE Same
  BY <1>6 DEF terminate_all_clients
<1>7. ASSUME NEW s \in Server, CloseServer(s) PROVE Same
  BY <1>7 DEF CloseServer
<1>8. ASSUME NEW s \in Server, server_wait_for_err(s) PROVE Same
  BY <1>8 DEF server_wait_for_err
<1>9. ASSUME NEW s \in Server, Listen(s) PROVE Same
  BY <1>9 DEF Listen, Goto
<1>10. ASSUME NEW s \in Server, CallAccept(s) PROVE Same
  BY <1>10 DEF CallAccept, Goto
<1>11. ASSUME NEW s \in Server, NEW c \in Conn, AcceptReturns(s, c) PROVE Same
  <2>1. ~Registered(c) /\ hfd[c] = NoFd
    BY <1>11, CServerAssumption DEF AcceptReturns
  <2>2. \A d \in Conn : d # c => hfd'[d] = hfd[d]
    BY <1>11 DEF AcceptReturns
  <2>3. \A d \in Conn : Registered(d)' <=> Registered(d)
    BY <1>11, <2>1 DEF AcceptReturns, Goto
  <2> QED
    BY <1>11, <2>1, <2>2, <2>3 DEF AcceptReturns
<1>12. ASSUME NEW s \in Server, AcceptFails(s) PROVE Same
  BY <1>12 DEF AcceptFails, Goto
<1>13. ASSUME NEW s \in Server, CreateThread(s) PROVE Same
  BY <1>13 DEF CreateThread, Goto
<1>14. ASSUME NEW s \in Server, CreateFails(s) PROVE Same
  BY <1>14 DEF CreateFails, Goto
<1>15. ASSUME NEW s \in Server, EndServer(s) PROVE Same
  BY <1>15 DEF EndServer, Goto
<1>16. ASSUME NEW c \in Conn, StartClient(c) PROVE Same
  BY <1>16 DEF StartClient, Become
<1>17. ASSUME NEW c \in Conn, CallRead(c) PROVE Same
  BY <1>17 DEF CallRead, Become
<1>18. ASSUME NEW c \in Conn, Receive(c) PROVE Same
  BY <1>18 DEF Receive, Become
<1>19. ASSUME NEW c \in Conn, EndOfFile(c) PROVE Same
  BY <1>19 DEF EndOfFile, Become
<1>20. ASSUME NEW c \in Conn, CloseClient(c) PROVE Same
  BY <1>20 DEF CloseClient, Become
<1>21. ASSUME NEW s \in Server, ReleaseListener(s) \/ RefusePending(s) PROVE Same
  BY <1>21 DEF ReleaseListener, RefusePending
<1>22. ASSUME NEW c \in Conn, NEW s \in Server, Connect(c, s) PROVE Same
  BY <1>22 DEF Connect
<1>23. ASSUME NEW c \in Conn, Leave(c) PROVE Same
  BY <1>23 DEF Leave
<1>24. CASE UNCHANGED vars
  <2> Same
    BY <1>24 DEF vars
  <2> QED
    BY <1>a
<1> HIDE DEF Same
<1> QED
  BY <1>a, <1>1, <1>2, <1>3, <1>4, <1>5, <1>6, <1>7, <1>8, <1>9, <1>10, <1>11, <1>12, <1>13, <1>14, <1>15, <1>16, <1>17, <1>18, <1>19, <1>20, <1>21, <1>22,
     <1>23, <1>24 DEF Next, StopSteps, AcceptStep, HandlerStep, KernelStep

-----------------------------------------------------------------------------
(***************************************************************************)
(* The numbers before a stop.                                              *)
(***************************************************************************)

\* A stop is never undone.
LEMMA StopIsForever == Shape /\ [Next]_vars /\ NoneStopped' => NoneStopped
<1> SUFFICES ASSUME Shape, [Next]_vars, NEW t \in Server,
                    owner[t] \notin {"new", "failed", "running"}
             PROVE  owner'[t] \notin {"new", "failed", "running"}
  BY DEF NoneStopped
<1>1. owner \in [Server -> {"new", "failed", "running", "terminating",
                            "closing", "joining", "stopped"}]
  BY DEF Shape, TypeOK
<1>2. ASSUME NEW s \in Server,
             \/ server_start(s) \/ server_stop(s) \/ terminate_all_clients(s)
             \/ CloseServer(s) \/ server_wait_for_err(s)
      PROVE  owner'[t] \notin {"new", "failed", "running"}
  BY <1>1, <1>2
     DEF server_start, server_stop, terminate_all_clients, CloseServer,
         server_wait_for_err
<1>3. CASE UNCHANGED owner
  BY <1>3
<1>4. \/ UNCHANGED owner
      \/ \E s \in Server :
           \/ server_start(s) \/ server_stop(s) \/ terminate_all_clients(s)
           \/ CloseServer(s) \/ server_wait_for_err(s)
  BY DEF Next, StopSteps, AcceptStep, HandlerStep, KernelStep, vars, serverVars,
         Listen, CallAccept, AcceptReturns, AcceptFails, RegisterClient,
         CreateThread, CreateFails, DropClient, EndServer, StartClient, CallRead,
         Receive, EndOfFile, CloseClient, UnregisterClient, ReleaseListener,
         RefusePending, Connect, Leave
<1> QED
  BY <1>2, <1>3, <1>4

\* accept() returns a free number, and only the owner of a number closes it.
LEMMA OwnStep == IInv /\ [Next]_vars => OwnNumbers'
<1> SUFFICES ASSUME IInv, [Next]_vars, NoneStopped'
             PROVE  \A c \in Conn : Live(c)' => fdt'[hfd'[c]] = c
  BY DEF OwnNumbers
<1>0. Shape /\ NoneStopped
  BY StopIsForever DEF IInv
<1>a. \A c \in Conn : Live(c) => fdt[hfd[c]] = c
  BY <1>0 DEF IInv, OwnNumbers
<1>b. \A c \in Conn : Live(c) => hfd[c] \in Fd
  BY <1>0 DEF Shape, TypeOK, ServersReady, SettingUp, PendingUnknown, Live
<1> USE <1>0, <1>a, <1>b, CServerAssumption
    DEF Live, Shape, TypeOK, ServersReady, SettingUp, SetUpOnce, PendingUnknown,
        NoneStopped, vars, serverVars, acceptVars, handlerVars, peerVars
<1>1. ASSUME NEW s \in Server, server_start(s)
      PROVE  \A c \in Conn : Live(c)' => fdt'[hfd'[c]] = c
  BY <1>1 DEF server_start, FreeFds
<1>2. ASSUME NEW s \in Server, server_stop(s)
      PROVE  \A c \in Conn : Live(c)' => fdt'[hfd'[c]] = c
  BY <1>2 DEF server_stop
<1>3. ASSUME NEW s \in Server, terminate_all_clients(s)
      PROVE  \A c \in Conn : Live(c)' => fdt'[hfd'[c]] = c
  BY <1>3 DEF terminate_all_clients, CloseFd
<1>4. ASSUME NEW s \in Server, CloseServer(s)
      PROVE  \A c \in Conn : Live(c)' => fdt'[hfd'[c]] = c
  BY <1>4 DEF CloseServer, CloseFd
<1>5. ASSUME NEW s \in Server, server_wait_for_err(s)
      PROVE  \A c \in Conn : Live(c)' => fdt'[hfd'[c]] = c
  BY <1>5 DEF server_wait_for_err
<1>6. ASSUME NEW s \in Server, Listen(s)
      PROVE  \A c \in Conn : Live(c)' => fdt'[hfd'[c]] = c
  BY <1>6 DEF Listen, Goto
<1>7. ASSUME NEW s \in Server, CallAccept(s)
      PROVE  \A c \in Conn : Live(c)' => fdt'[hfd'[c]] = c
  BY <1>7 DEF CallAccept, Goto
<1>8. ASSUME NEW s \in Server, NEW d \in Conn, AcceptReturns(s, d)
      PROVE  \A c \in Conn : Live(c)' => fdt'[hfd'[c]] = c
  BY <1>8 DEF AcceptReturns, Goto, FreeFds
<1>9. ASSUME NEW s \in Server, AcceptFails(s)
      PROVE  \A c \in Conn : Live(c)' => fdt'[hfd'[c]] = c
  BY <1>9 DEF AcceptFails, Goto
<1>10. ASSUME NEW s \in Server, RegisterClient(s)
      PROVE  \A c \in Conn : Live(c)' => fdt'[hfd'[c]] = c
  BY <1>10 DEF RegisterClient, Goto
<1>11. ASSUME NEW s \in Server, CreateThread(s)
      PROVE  \A c \in Conn : Live(c)' => fdt'[hfd'[c]] = c
  BY <1>11 DEF CreateThread, Goto
<1>12. ASSUME NEW s \in Server, CreateFails(s)
      PROVE  \A c \in Conn : Live(c)' => fdt'[hfd'[c]] = c
  BY <1>12 DEF CreateFails, Goto, CloseFd
<1>13. ASSUME NEW s \in Server, DropClient(s)
      PROVE  \A c \in Conn : Live(c)' => fdt'[hfd'[c]] = c
  BY <1>13 DEF DropClient, Goto
<1>14. ASSUME NEW s \in Server, EndServer(s)
      PROVE  \A c \in Conn : Live(c)' => fdt'[hfd'[c]] = c
  BY <1>14 DEF EndServer, Goto
<1>15. ASSUME NEW d \in Conn, StartClient(d)
      PROVE  \A c \in Conn : Live(c)' => fdt'[hfd'[c]] = c
  BY <1>15 DEF StartClient, Become
<1>16. ASSUME NEW d \in Conn, CallRead(d)
      PROVE  \A c \in Conn : Live(c)' => fdt'[hfd'[c]] = c
  BY <1>16 DEF CallRead, Become
<1>17. ASSUME NEW d \in Conn, Receive(d)
      PROVE  \A c \in Conn : Live(c)' => fdt'[hfd'[c]] = c
  BY <1>17 DEF Receive, Become
<1>18. ASSUME NEW d \in Conn, EndOfFile(d)
      PROVE  \A c \in Conn : Live(c)' => fdt'[hfd'[c]] = c
  BY <1>18 DEF EndOfFile, Become
<1>19. ASSUME NEW d \in Conn, CloseClient(d)
      PROVE  \A c \in Conn : Live(c)' => fdt'[hfd'[c]] = c
  BY <1>19 DEF CloseClient, Become, CloseFd
<1>20. ASSUME NEW d \in Conn, UnregisterClient(d)
      PROVE  \A c \in Conn : Live(c)' => fdt'[hfd'[c]] = c
  BY <1>20 DEF UnregisterClient, Become
<1>21. ASSUME NEW s \in Server, ReleaseListener(s)
      PROVE  \A c \in Conn : Live(c)' => fdt'[hfd'[c]] = c
  BY <1>21 DEF ReleaseListener
<1>22. ASSUME NEW s \in Server, RefusePending(s)
      PROVE  \A c \in Conn : Live(c)' => fdt'[hfd'[c]] = c
  BY <1>22 DEF RefusePending
<1>23. ASSUME NEW d \in Conn, NEW s \in Server, Connect(d, s)
      PROVE  \A c \in Conn : Live(c)' => fdt'[hfd'[c]] = c
  BY <1>23 DEF Connect
<1>24. ASSUME NEW d \in Conn, Leave(d)
      PROVE  \A c \in Conn : Live(c)' => fdt'[hfd'[c]] = c
  BY <1>24 DEF Leave
<1>25. CASE UNCHANGED vars
  BY <1>25
<1> QED
  BY <1>1, <1>2, <1>3, <1>4, <1>5, <1>6, <1>7, <1>8, <1>9, <1>10, <1>11, <1>12, <1>13, <1>14, <1>15, <1>16, <1>17, <1>18, <1>19, <1>20, <1>21, <1>22, <1>23, <1>24, <1>25
     DEF Next, StopSteps, AcceptStep, HandlerStep, KernelStep

-----------------------------------------------------------------------------
(***************************************************************************)
(* Theorems.                                                               *)
(***************************************************************************)

\* The process starts with empty lists and nothing registered.
LEMMA InitInv == Init => IInv
<1> SUFFICES ASSUME Init PROVE IInv
  OBVIOUS
<1>1. PICK max \in MaxClients : slots = [i \in 1..max |-> NoFd]
  BY DEF Init
<1>2. Slot = 1..max
  BY <1>1 DEF Slot
<1>3. SlotsNumbered /\ MAX_CLIENTS \in MaxClients
  BY <1>2, SlotCount DEF SlotsNumbered
<1>4. MAX_CLIENTS \in Nat /\ slots \in [Slot -> Fd \cup {NoFd}]
  BY <1>1, <1>2, <1>3, CServerAssumption
<1>5. TypeOK
  BY <1>3, <1>4 DEF Init, TypeOK
<1>6. ServersReady /\ SetUpOnce /\ PendingUnknown
  BY DEF Init, ServersReady, SetUpOnce, PendingUnknown, SettingUp
<1>7. \A f \in Fd : SlotsOf(f) = {} /\ ClientsOf(f) = {}
  BY <1>1, <1>2, CServerAssumption DEF Init, SlotsOf, ClientsOf, Registered
<1>8. SlotAccounting /\ FinitelyMany
  BY <1>7, FS_EmptySet DEF SlotAccounting, FinitelyMany, ClientsOf
<1>9. OwnNumbers
  BY DEF Init, OwnNumbers, Live
<1> QED
  BY <1>3, <1>5, <1>6, <1>8, <1>9 DEF IInv, Shape

\* The invariant holds in every reachable state.
THEOREM Invariance == Spec => []IInv
<1>1. IInv /\ [Next]_vars => IInv'
  <2> SUFFICES ASSUME IInv, [Next]_vars PROVE IInv'
    OBVIOUS
  <2>1. Shape'
    BY TypeStep, ReadyStep, OnceStep, PendingStep DEF IInv, Shape
  <2> QED
    BY <2>1, AccountStep, OwnStep DEF IInv
<1> QED
  BY <1>1, InitInv, PTL DEF Spec

\* Every variable of server.c and of the kernel's tables keeps its type: among
\* them, a handler's read() always waits on a connection and every loop index
\* of terminate_all_clients stays within the list and one past it.
THEOREM TypeCorrect == Spec => []TypeOK
<1>1. IInv => TypeOK
  BY DEF IInv, Shape
<1> QED
  BY <1>1, Invariance, PTL

\* client_socket_list holds every number once for each registered client that
\* has it, for every number of servers that share the list.
THEOREM SlotsAccounted == Spec => []SlotAccounting
<1>1. IInv => SlotAccounting
  BY DEF IInv
<1> QED
  BY <1>1, Invariance, PTL

\* While no server is stopped, a connection loses its descriptor only through
\* its own handler, or because pthread_create failed for it.
THEOREM ClosesOnlyOwn == Spec => NoForeignClose
<1> DEFINE OwnClose(c, f) == fdt[f] = c /\ fdt'[f] # c =>
           /\ hfd[c] = f
           /\ \/ handler[c] = "close"
              \/ \E s \in Server : cur[s] = c /\ acceptor[s] = "create"
<1>1. ASSUME IInv, [Next]_vars, NoneStopped, NEW c \in Conn, NEW f \in Fd
      PROVE  OwnClose(c, f)
  <2>a. Shape /\ \A d \in Conn : Live(d) => fdt[hfd[d]] = d /\ hfd[d] \in Fd
    BY <1>1 DEF IInv, OwnNumbers, Shape, TypeOK, ServersReady, SettingUp,
                PendingUnknown, Live
  <2>b. fdt \in [Fd -> {Free} \cup Conn \cup Server] /\ Free \notin Conn
    BY <2>a, CServerAssumption DEF Shape, TypeOK
  <2>1. ASSUME NEW s \in Server, server_start(s) PROVE OwnClose(c, f)
    BY <2>1, <2>b DEF server_start, FreeFds
  <2>2. ASSUME NEW s \in Server, NEW d \in Conn, AcceptReturns(s, d)
        PROVE  OwnClose(c, f)
    BY <2>2, <2>b DEF AcceptReturns, FreeFds
  <2>3. ASSUME NEW s \in Server, CreateFails(s) PROVE OwnClose(c, f)
    BY <2>3, <2>a, <2>b
       DEF CreateFails, CloseFd, Live, Shape, ServersReady, SettingUp
  <2>4. ASSUME NEW d \in Conn, CloseClient(d) PROVE OwnClose(c, f)
    BY <2>4, <2>a, <2>b DEF CloseClient, CloseFd, Live
  <2>5. CASE fdt' = fdt
    BY <2>5
  <2>6. \/ fdt' = fdt
        \/ \E s \in Server : server_start(s) \/ CreateFails(s)
        \/ \E s \in Server, d \in Conn : AcceptReturns(s, d)
        \/ \E d \in Conn : CloseClient(d)
    BY <1>1 DEF Next, StopSteps, AcceptStep, HandlerStep, KernelStep, vars,
           NoneStopped, server_stop, terminate_all_clients, CloseServer,
           server_wait_for_err, Listen, CallAccept, AcceptFails, RegisterClient,
           CreateThread, DropClient, EndServer, StartClient, CallRead, Receive,
           EndOfFile, UnregisterClient, ReleaseListener, RefusePending, Connect,
           Leave
  <2> QED
    BY <2>1, <2>2, <2>3, <2>4, <2>5, <2>6
<1>2. IInv /\ [Next]_vars =>
        [NoneStopped => \A c \in Conn, f \in Fd : OwnClose(c, f)]_vars
  BY <1>1
<1> QED
  BY <1>2, Invariance, PTL DEF Spec, NoForeignClose
=============================================================================
