------------------------- MODULE NetworkServer_proofs -------------------------
(***************************************************************************)
(* Proofs that NetworkServer keeps its registry bounded and exact and its  *)
(* descriptors exclusive, for every number of connections, descriptors,    *)
(* messages and calls.                                                     *)
(***************************************************************************)
EXTENDS NetworkServer, FiniteSetTheorems, TLAPS

\* A descriptor set is finite and adding one number adds at most one.
LEMMA DescriptorSets ==
  ASSUME NEW S \in SUBSET Fd, NEW f
  PROVE  /\ Cardinality(S) \in Nat
         /\ Cardinality(S \cup {f}) <= Cardinality(S) + 1
         /\ Cardinality(S \cup {f}) \in Nat
         /\ Cardinality(S \ {f}) <= Cardinality(S)
         /\ Cardinality(S \ {f}) \in Nat
<1>1. IsFiniteSet(S)
  BY FS_Subset, ConstantsAssumption
<1>2. Cardinality(S) \in Nat
  BY <1>1, FS_CardinalityType
<1>3. /\ IsFiniteSet(S \cup {f})
      /\ Cardinality(S \cup {f}) = IF f \in S THEN Cardinality(S)
                                   ELSE Cardinality(S) + 1
  BY <1>1, FS_AddElement
<1>4. /\ IsFiniteSet(S \ {f})
      /\ Cardinality(S \ {f}) = IF f \in S THEN Cardinality(S) - 1
                                ELSE Cardinality(S)
  BY <1>1, FS_RemoveElement
<1>5. Cardinality(S \cup {f}) \in Nat /\ Cardinality(S \ {f}) \in Nat
  BY <1>3, <1>4, FS_CardinalityType
<1> QED
  BY <1>2, <1>3, <1>4, <1>5

\* A smaller descriptor set has no more elements.
LEMMA DescriptorSubsets ==
  ASSUME NEW T \in SUBSET Fd, NEW S \in SUBSET T
  PROVE  Cardinality(S) <= Cardinality(T)
<1>1. IsFiniteSet(T)
  BY FS_Subset, ConstantsAssumption
<1> QED
  BY <1>1, FS_Subset

\* The constructor's state satisfies the invariant.
LEMMA InitInv == Init => IInv
<1> SUFFICES ASSUME Init PROVE IInv
  OBVIOUS
<1> USE ConstantsAssumption DEF Init
<1>1. TypeOK
  <2>1. inbox \in [Conn -> 0..MaxMessages] /\ calls \in 0..MaxCalls
    OBVIOUS
  <2>2. fdt \in [Fd -> Conn \cup {Free, Listener}] /\ listening \in BOOLEAN
    OBVIOUS
  <2> QED
    BY <2>1, <2>2
       DEF TypeOK, OwnerStates, AcceptorStates, HandlerStates, PeerStates
<1>2. ThreadsHaveDescriptors
  BY DEF ThreadsHaveDescriptors
<1>3. BoundedRegistry
  BY FS_EmptySet DEF BoundedRegistry
<1>4. CountIsUpperBound
  BY DEF CountIsUpperBound
<1>9. OneBesideAcceptor
  BY FS_EmptySet DEF OneBesideAcceptor
<1>5. AcceptedOnce
  BY DEF AcceptedOnce
<1>6. ListenerPinned
  BY DEF ListenerPinned
<1>7. ExclusiveDescriptors
  BY DEF ExclusiveDescriptors
<1>8. RegistryExact
  BY DEF RegistryExact
<1> QED
  BY <1>1, <1>2, <1>3, <1>4, <1>5, <1>6, <1>7, <1>8, <1>9 DEF IInv

\* Every action keeps every variable in its type.
LEMMA TypeStep == IInv /\ [Next]_vars => TypeOK'
<1> SUFFICES ASSUME IInv, [Next]_vars PROVE TypeOK'
  OBVIOUS
<1> USE ConstantsAssumption
    DEF IInv, TypeOK, ThreadsHaveDescriptors, OwnerStates, AcceptorStates,
        HandlerStates, PeerStates, vars, ownerVars, acceptVars, handlerVars,
        peerVars
<1>0. max_connections' = max_connections
  BY DEF Next
<1> USE <1>0
<1>1. CASE Start
  BY <1>1 DEF Start, Call, StartAllowed, FreeFds
<1>2. CASE StartFails
  BY <1>2 DEF StartFails, Call, StartAllowed, FreeFds
<1>3. CASE StopNeverStarted
  BY <1>3 DEF StopNeverStarted, Call
<1>4. CASE Stop
  BY <1>4 DEF Stop, Call
<1>5. CASE CloseAllClients
  BY <1>5 DEF CloseAllClients, CloseFd
<1>6. CASE ShutdownListener
  BY <1>6 DEF ShutdownListener
<1>7. CASE JoinServerThread
  BY <1>7 DEF JoinServerThread
<1>8. CASE AcceptFails \/ AcceptError
  BY <1>8 DEF AcceptFails, AcceptError
<1>9. ASSUME NEW c \in Conn, AcceptClient(c) PROVE TypeOK'
  BY <1>9 DEF AcceptClient, FreeFds
<1>10. CASE CountClients
  BY <1>10, DescriptorSets DEF CountClients
<1>11. CASE RejectClient
  BY <1>11 DEF RejectClient, CloseFd
<1>12. CASE AddClient
  BY <1>12 DEF AddClient
<1>13. CASE StartHandler
  BY <1>13 DEF StartHandler
<1>14. CASE ResumeAccept
  BY <1>14 DEF ResumeAccept
<1>15. ASSUME NEW c \in Conn, Read(c) PROVE TypeOK'
  BY <1>15 DEF Read
<1>16. ASSUME NEW c \in Conn, Receive(c) PROVE TypeOK'
  BY <1>16 DEF Receive
<1>17. ASSUME NEW c \in Conn, EndOfFile(c) PROVE TypeOK'
  BY <1>17 DEF EndOfFile
<1>18. ASSUME NEW c \in Conn, RemoveClient(c) PROVE TypeOK'
  BY <1>18 DEF RemoveClient
<1>19. ASSUME NEW c \in Conn, CloseClient(c) PROVE TypeOK'
  BY <1>19 DEF CloseClient, CloseFd
<1>20. ASSUME NEW c \in Conn, Connect(c) PROVE TypeOK'
  BY <1>20 DEF Connect
<1>21. ASSUME NEW c \in Conn, Send(c) PROVE TypeOK'
  BY <1>21 DEF Send
<1>22. ASSUME NEW c \in Conn, Leave(c) PROVE TypeOK'
  BY <1>22 DEF Leave
<1>23. CASE UNCHANGED vars
  BY <1>23
<1>s. \/ OwnerStep \/ AcceptStep \/ AcceptError \/ UNCHANGED vars
      \/ \E c \in Conn : HandlerStep(c) \/ PeerStep(c)
  BY DEF Next
<1> QED
  BY <1>s, <1>1, <1>2, <1>3, <1>4, <1>5, <1>6, <1>7, <1>8, <1>9, <1>10, <1>11, <1>12,
     <1>13, <1>14, <1>15, <1>16, <1>17, <1>18, <1>19, <1>20, <1>21, <1>22, <1>23
     DEF OwnerStep, OwnerFinishesStop, AcceptStep, HandlerStep, PeerStep

\* AddClient runs on a count that is still an upper bound: between the two
\* only Start (which empties the registry) and RemoveClient change it.
LEMMA BoundStep ==
  IInv /\ [Next]_vars => BoundedRegistry' /\ CountIsUpperBound'
<1> SUFFICES ASSUME IInv, [Next]_vars
             PROVE  BoundedRegistry' /\ CountIsUpperBound'
  OBVIOUS
<1> USE ConstantsAssumption
    DEF IInv, BoundedRegistry, CountIsUpperBound, vars, ownerVars, acceptVars,
        handlerVars, peerVars
<1>a. max_connections' = max_connections /\ max_connections \in Nat
  BY DEF Next, TypeOK
<1> USE <1>a
<1>0. /\ clients \in SUBSET Fd
      /\ Cardinality(clients) \in Nat
      /\ num \in Nat
      /\ \A f : /\ Cardinality(clients \cup {f}) <= Cardinality(clients) + 1
                /\ Cardinality(clients \cup {f}) \in Nat
                /\ Cardinality(clients \ {f}) <= Cardinality(clients)
                /\ Cardinality(clients \ {f}) \in Nat
  BY DescriptorSets DEF TypeOK
<1>1. CASE Start \/ StartFails
  <2>1. clients' = {} /\ acceptor' # "decide"
    BY <1>1 DEF Start, StartFails
  <2> QED
    BY <2>1, FS_EmptySet
<1>2. CASE StopNeverStarted \/ Stop \/ OwnerFinishesStop
  BY <1>2, <1>0 DEF StopNeverStarted, Stop, OwnerFinishesStop, CloseAllClients,
                    ShutdownListener, JoinServerThread
<1>3. CASE CountClients
  BY <1>3, <1>0 DEF CountClients
<1>4. CASE AddClient
  <2>1. num < max_connections /\ Cardinality(clients) <= num
    BY <1>4, <1>0 DEF AddClient, TooManyConnections
  <2>2. clients' = clients \cup {hfd[cur]} /\ acceptor' = "handoff"
    BY <1>4 DEF AddClient
  <2>3. Cardinality(clients') <= Cardinality(clients) + 1 /\ Cardinality(clients') \in Nat
    BY <2>2, <1>0
  <2> QED
    BY <2>1, <2>2, <2>3, <1>0
<1>5. CASE AcceptFails \/ AcceptError \/ RejectClient \/ StartHandler \/ ResumeAccept
  BY <1>5, <1>0 DEF AcceptFails, AcceptError, RejectClient, StartHandler, ResumeAccept
<1>6. ASSUME NEW c \in Conn, AcceptClient(c)
      PROVE  BoundedRegistry' /\ CountIsUpperBound'
  BY <1>6, <1>0 DEF AcceptClient
<1>7. ASSUME NEW c \in Conn, RemoveClient(c)
      PROVE  BoundedRegistry' /\ CountIsUpperBound'
  <2>1. clients' = clients \ {hfd[c]} /\ UNCHANGED <<acceptor, num>>
    BY <1>7 DEF RemoveClient
  <2>2. Cardinality(clients') <= Cardinality(clients) /\ Cardinality(clients') \in Nat
    BY <2>1, <1>0
  <2> QED
    BY <2>1, <2>2, <1>0
<1>8. ASSUME NEW c \in Conn,
             Read(c) \/ Receive(c) \/ EndOfFile(c) \/ CloseClient(c) \/ PeerStep(c)
      PROVE  BoundedRegistry' /\ CountIsUpperBound'
  BY <1>8, <1>0 DEF Read, Receive, EndOfFile, CloseClient, PeerStep, Connect,
                    Send, Leave
<1>9. CASE UNCHANGED vars
  BY <1>9, <1>0
<1>s. \/ OwnerStep \/ AcceptStep \/ AcceptError \/ UNCHANGED vars
      \/ \E c \in Conn : HandlerStep(c) \/ PeerStep(c)
  BY DEF Next
<1> QED
  BY <1>s, <1>1, <1>2, <1>3, <1>4, <1>5, <1>6, <1>7, <1>8, <1>9
     DEF OwnerStep, AcceptStep, HandlerStep

\* The accept thread adds a client only beside at most one, and if there is
\* one it serves the new client itself and goes on after that one is removed.
LEMMA OneBesideStep == IInv /\ [Next]_vars => OneBesideAcceptor'
<1> SUFFICES ASSUME IInv, [Next]_vars PROVE OneBesideAcceptor'
  OBVIOUS
<1> USE ConstantsAssumption
    DEF IInv, OneBesideAcceptor, vars, ownerVars, acceptVars, handlerVars,
        peerVars
<1>0. /\ clients \in SUBSET Fd
      /\ Cardinality(clients) \in Nat
      /\ num \in Nat
      /\ handler \in [Conn -> HandlerStates]
      /\ acceptor \in {"count", "decide", "handoff", "serving"} => cur \in Conn
  BY DescriptorSets DEF TypeOK, ThreadsHaveDescriptors
<1>1. CASE Start \/ StartFails
  <2>1. clients' = {} /\ acceptor' \in {"accept", "none"}
    BY <1>1 DEF Start, StartFails
  <2> QED
    BY <2>1, FS_EmptySet
<1>2. CASE StopNeverStarted \/ Stop \/ OwnerFinishesStop
  BY <1>2 DEF StopNeverStarted, Stop, OwnerFinishesStop, CloseAllClients,
              ShutdownListener, JoinServerThread
<1>3. CASE CountClients
  BY <1>3, <1>0 DEF CountClients
<1>4. CASE AddClient
  <2> DEFINE x == hfd[cur]
  <2>1. /\ num \in {0, 1}
        /\ Cardinality(clients) <= 1
        /\ num = 0 => Cardinality(clients) = 0
    BY <1>4, <1>0 DEF AddClient, CountIsUpperBound
  <2>2. /\ clients' = clients \cup {x}
        /\ acceptor' = "handoff"
        /\ UNCHANGED <<num, cur, hfd>>
    BY <1>4 DEF AddClient
  <2>3. Cardinality(clients \cup {x}) <= Cardinality(clients) + 1 /\ Cardinality(clients \cup {x}) \in Nat
    BY <1>0, DescriptorSets
  <2>4. Cardinality((clients \cup {x}) \ {x}) <= 1
    <3>1. (clients \cup {x}) \ {x} = clients \ {x}
      OBVIOUS
    <3>2. Cardinality(clients \ {x}) <= Cardinality(clients) /\ Cardinality(clients \ {x}) \in Nat
      BY <1>0, DescriptorSets
    <3> QED
      BY <3>1, <3>2, <2>1, <1>0
  <2> QED
    BY <2>1, <2>2, <2>3, <2>4, <1>0
<1>5. CASE AcceptFails \/ AcceptError \/ RejectClient
  BY <1>5 DEF AcceptFails, AcceptError, RejectClient
<1>6. CASE StartHandler
  BY <1>6, <1>0 DEF StartHandler
<1>7. CASE ResumeAccept
  <2>1. hfd[cur] \notin clients /\ Cardinality(clients \ {hfd[cur]}) <= 1
    BY <1>7 DEF ResumeAccept
  <2>2. clients \ {hfd[cur]} = clients
    BY <2>1
  <2> QED
    BY <1>7, <2>1, <2>2 DEF ResumeAccept
<1>8. ASSUME NEW c \in Conn, AcceptClient(c) PROVE OneBesideAcceptor'
  BY <1>8 DEF AcceptClient
<1>9. ASSUME NEW c \in Conn, RemoveClient(c) PROVE OneBesideAcceptor'
  <2> DEFINE f == hfd[c]
             x == hfd[cur]
  <2>1. /\ clients' = clients \ {f}
        /\ handler' = [handler EXCEPT ![c] = "close"]
        /\ UNCHANGED <<acceptor, num, cur, hfd>>
    BY <1>9 DEF RemoveClient
  <2>2. Cardinality(clients \ {f}) <= Cardinality(clients) /\ Cardinality(clients \ {f}) \in Nat
    BY <1>0, DescriptorSets
  <2>3. /\ Cardinality((clients \ {f}) \ {x}) <= Cardinality(clients \ {x})
        /\ Cardinality((clients \ {f}) \ {x}) \in Nat
        /\ Cardinality(clients \ {x}) \in Nat
    <3>1. clients \ {x} \in SUBSET Fd /\ clients \ {f} \in SUBSET Fd
      BY <1>0
    <3>2. (clients \ {f}) \ {x} \in SUBSET (clients \ {x})
      OBVIOUS
    <3> QED
      BY <3>1, <3>2, DescriptorSubsets, DescriptorSets
  <2>4. acceptor = "serving" /\ handler'[cur] \in {"close", "done"} =>
          x \notin clients \ {f}
    BY <2>1, <1>0
  <2> QED
    BY <2>1, <2>2, <2>3, <2>4, <1>0
<1>10. ASSUME NEW c \in Conn,
              Read(c) \/ Receive(c) \/ EndOfFile(c) \/ CloseClient(c)
       PROVE  OneBesideAcceptor'
  <2>1. CASE Read(c)
    BY <2>1, <1>0 DEF ThreadsHaveDescriptors, Read
  <2>2. CASE Receive(c)
    BY <2>2, <1>0 DEF ThreadsHaveDescriptors, Receive
  <2>3. CASE EndOfFile(c)
    BY <2>3, <1>0 DEF ThreadsHaveDescriptors, EndOfFile
  <2>4. CASE CloseClient(c)
    BY <2>4, <1>0 DEF ThreadsHaveDescriptors, CloseClient
  <2> QED
    BY <1>10, <2>1, <2>2, <2>3, <2>4
<1>11. ASSUME NEW c \in Conn, PeerStep(c) PROVE OneBesideAcceptor'
  BY <1>11 DEF PeerStep, Connect, Send, Leave
<1>12. CASE UNCHANGED vars
  BY <1>12
<1>s. \/ OwnerStep \/ AcceptStep \/ AcceptError \/ UNCHANGED vars
      \/ \E c \in Conn : HandlerStep(c) \/ PeerStep(c)
  BY DEF Next
<1> QED
  BY <1>s, <1>1, <1>2, <1>3, <1>4, <1>5, <1>6, <1>7, <1>8, <1>9, <1>10, <1>11, <1>12
     DEF OwnerStep, AcceptStep, HandlerStep

\* A connection is taken from the queue with a descriptor and no handler, and
\* its descriptor number is never taken from it.
LEMMA ThreadsStep == IInv /\ [Next]_vars => ThreadsHaveDescriptors'
<1> SUFFICES ASSUME IInv, [Next]_vars PROVE ThreadsHaveDescriptors'
  OBVIOUS
<1> USE ConstantsAssumption
    DEF IInv, ThreadsHaveDescriptors, TypeOK, AcceptedOnce, vars, ownerVars,
        acceptVars, handlerVars, peerVars
<1>1. CASE OwnerStep
  BY <1>1 DEF OwnerStep, OwnerFinishesStop, Start, Call, StartAllowed, FreeFds,
              PortFree, StartFails, StopNeverStarted, Stop, CloseAllClients,
              CloseFd, ShutdownListener, JoinServerThread
<1>2. CASE AcceptStep \/ AcceptError
  BY <1>2 DEF AcceptStep, AcceptFails, AcceptError, AcceptClient, FreeFds, CountClients,
              RejectClient, CloseFd, AddClient, TooManyConnections,
              StartHandler, ResumeAccept
<1>3. ASSUME NEW c \in Conn, HandlerStep(c) PROVE ThreadsHaveDescriptors'
  BY <1>3 DEF HandlerStep, Read, Receive, EndOfFile, RemoveClient, CloseClient,
              CloseFd
<1>4. ASSUME NEW c \in Conn, PeerStep(c) PROVE ThreadsHaveDescriptors'
  BY <1>4 DEF PeerStep, Connect, Send, Leave
<1>5. CASE UNCHANGED vars
  BY <1>5
<1> QED
  BY <1>1, <1>2, <1>3, <1>4, <1>5 DEF Next

\* A queued connection has no descriptor yet, and connects only once.
LEMMA OnceStep == IInv /\ [Next]_vars => AcceptedOnce'
<1> SUFFICES ASSUME IInv, [Next]_vars PROVE AcceptedOnce'
  OBVIOUS
<1> USE ConstantsAssumption
    DEF IInv, AcceptedOnce, TypeOK, vars, ownerVars, acceptVars, handlerVars,
        peerVars
<1>1. CASE OwnerStep
  BY <1>1 DEF OwnerStep, OwnerFinishesStop, Start, Call, StartAllowed, FreeFds,
              PortFree, StartFails, StopNeverStarted, Stop, CloseAllClients,
              CloseFd, ShutdownListener, JoinServerThread
<1>2. CASE AcceptStep \/ AcceptError
  BY <1>2 DEF AcceptStep, AcceptFails, AcceptError, AcceptClient, FreeFds, CountClients,
              RejectClient, CloseFd, AddClient, TooManyConnections,
              StartHandler, ResumeAccept
<1>3. ASSUME NEW c \in Conn, HandlerStep(c) PROVE AcceptedOnce'
  BY <1>3 DEF HandlerStep, Read, Receive, EndOfFile, RemoveClient, CloseClient,
              CloseFd
<1>4. ASSUME NEW c \in Conn, PeerStep(c) PROVE AcceptedOnce'
  BY <1>4 DEF PeerStep, Connect, Send, Leave
<1>5. CASE UNCHANGED vars
  BY <1>5
<1> QED
  BY <1>1, <1>2, <1>3, <1>4, <1>5 DEF Next

\* No step frees the listener's descriptor: everything the server closes came
\* out of accept(), which never returns a number in use.
LEMMA PinStep == IInv /\ [Next]_vars => ListenerPinned'
<1> SUFFICES ASSUME IInv, [Next]_vars PROVE ListenerPinned'
  OBVIOUS
<1> USE ConstantsAssumption
    DEF IInv, ListenerPinned, PortFree, TypeOK, ThreadsHaveDescriptors, vars,
        ownerVars, acceptVars, handlerVars, peerVars
<1>1. CASE OwnerStep
  BY <1>1 DEF OwnerStep, OwnerFinishesStop, Start, Call, StartAllowed, FreeFds,
              StartFails, StopNeverStarted, Stop, CloseAllClients, CloseFd,
              ShutdownListener, JoinServerThread
<1>2. CASE AcceptStep \/ AcceptError
  BY <1>2 DEF AcceptStep, AcceptFails, AcceptError, AcceptClient, FreeFds, CountClients,
              RejectClient, CloseFd, AddClient, TooManyConnections,
              StartHandler, ResumeAccept
<1>3. ASSUME NEW c \in Conn, HandlerStep(c) PROVE ListenerPinned'
  BY <1>3 DEF HandlerStep, Read, Receive, EndOfFile, RemoveClient, CloseClient,
              CloseFd
<1>4. ASSUME NEW c \in Conn, PeerStep(c) PROVE ListenerPinned'
  BY <1>4 DEF PeerStep, Connect, Send, Leave
<1>5. CASE UNCHANGED vars
  BY <1>5
<1> QED
  BY <1>1, <1>2, <1>3, <1>4, <1>5 DEF Next

\* accept() returns a free number, so it is nobody's; a handler closes its own
\* number last; a Start succeeds only before the first connection.
LEMMA ExclusiveStep == IInv /\ [Next]_vars => ExclusiveDescriptors'
<1> SUFFICES ASSUME IInv, [Next]_vars PROVE ExclusiveDescriptors'
  OBVIOUS
<1> USE ConstantsAssumption
    DEF IInv, ExclusiveDescriptors, Holds, Pending, TypeOK,
        ThreadsHaveDescriptors, AcceptedOnce, ListenerPinned, PortFree, vars,
        ownerVars, acceptVars, handlerVars, peerVars
<1>1. CASE OwnerStep
  BY <1>1 DEF OwnerStep, OwnerFinishesStop, Start, Call, StartAllowed, FreeFds,
              StartFails, StopNeverStarted, Stop, CloseAllClients, CloseFd,
              ShutdownListener, JoinServerThread
<1>2. CASE AcceptStep \/ AcceptError
  BY <1>2 DEF AcceptStep, AcceptFails, AcceptError, AcceptClient, FreeFds, CountClients,
              RejectClient, CloseFd, AddClient, TooManyConnections,
              StartHandler, ResumeAccept
<1>3. ASSUME NEW c \in Conn, HandlerStep(c) PROVE ExclusiveDescriptors'
  BY <1>3 DEF HandlerStep, Read, Receive, EndOfFile, RemoveClient, CloseClient,
              CloseFd
<1>4. ASSUME NEW c \in Conn, PeerStep(c) PROVE ExclusiveDescriptors'
  BY <1>4 DEF PeerStep, Connect, Send, Leave
<1>5. CASE UNCHANGED vars
  BY <1>5
<1> QED
  BY <1>1, <1>2, <1>3, <1>4, <1>5 DEF Next

\* Distinct registered connections have distinct descriptors, so erasing one
\* number removes exactly one connection from the registry.
LEMMA ExactStep == IInv /\ [Next]_vars => RegistryExact'
<1> SUFFICES ASSUME IInv, [Next]_vars PROVE RegistryExact'
  OBVIOUS
<1> USE ConstantsAssumption
    DEF IInv, RegistryExact, Registered, ExclusiveDescriptors, Holds, Pending,
        TypeOK, ThreadsHaveDescriptors, AcceptedOnce, ListenerPinned, PortFree,
        vars, ownerVars, acceptVars, handlerVars, peerVars
<1>1. CASE OwnerStep
  BY <1>1 DEF OwnerStep, OwnerFinishesStop, Start, Call, StartAllowed, FreeFds,
              StartFails, StopNeverStarted, Stop, CloseAllClients, CloseFd,
              ShutdownListener, JoinServerThread
<1>2. CASE AcceptStep \/ AcceptError
  BY <1>2 DEF AcceptStep, AcceptFails, AcceptError, AcceptClient, FreeFds, CountClients,
              RejectClient, CloseFd, AddClient, TooManyConnections,
              StartHandler, ResumeAccept
<1>3. ASSUME NEW c \in Conn, HandlerStep(c) PROVE RegistryExact'
  BY <1>3 DEF HandlerStep, Read, Receive, EndOfFile, RemoveClient, CloseClient,
              CloseFd
<1>4. ASSUME NEW c \in Conn, PeerStep(c) PROVE RegistryExact'
  BY <1>4 DEF PeerStep, Connect, Send, Leave
<1>5. CASE UNCHANGED vars
  BY <1>5
<1> QED
  BY <1>1, <1>2, <1>3, <1>4, <1>5 DEF Next

\* The invariant holds of every behaviour.
THEOREM Invariance == Spec => []IInv
<1>1. IInv /\ [Next]_vars => IInv'
  <2> SUFFICES ASSUME IInv, [Next]_vars PROVE IInv'
    OBVIOUS
  <2> QED
    BY TypeStep, BoundStep, OneBesideStep, ThreadsStep, OnceStep, PinStep,
       ExclusiveStep, ExactStep DEF IInv
<1> QED
  BY InitInv, <1>1, PTL DEF Spec

\* Type correctness of the TCP server's state.
THEOREM TypeCorrect == Spec => []TypeOK
<1>1. IInv => TypeOK
  BY DEF IInv
<1> QED
  BY Invariance, <1>1, PTL

\* tcp_handler never registers more than max_connections clients, for every
\* limit and any number of peers, in spite of its check-then-act.
THEOREM RegistryBounded == Spec => []BoundedRegistry
<1>1. IInv => BoundedRegistry
  BY DEF IInv
<1> QED
  BY Invariance, <1>1, PTL

\* At most two clients are ever registered, whatever max_connections is.
THEOREM NeverMoreThanTwo == Spec => []AtMostTwoClients
<1>1. ASSUME IInv PROVE AtMostTwoClients
  <2> USE <1>1 DEF IInv, TypeOK, AtMostTwoClients
  <2>1. Cardinality(clients) \in Nat
    BY DescriptorSets
  <2>2. CASE acceptor \in {"handoff", "serving"}
    <3> DEFINE x == hfd[cur]
    <3>1. Cardinality(clients \ {x}) <= 1 /\ x \in Fd
      BY <2>2 DEF OneBesideAcceptor, ThreadsHaveDescriptors
    <3>2. /\ Cardinality((clients \ {x}) \cup {x}) <= Cardinality(clients \ {x}) + 1
          /\ Cardinality((clients \ {x}) \cup {x}) \in Nat
          /\ Cardinality(clients \ {x}) \in Nat
      BY DescriptorSets
    <3>3. clients \in SUBSET ((clients \ {x}) \cup {x})
      OBVIOUS
    <3>4. Cardinality(clients) <= Cardinality((clients \ {x}) \cup {x})
      BY <3>1, <3>3, DescriptorSubsets
    <3> QED
      BY <3>1, <3>2, <3>4, <2>1
  <2>3. CASE acceptor \notin {"handoff", "serving"}
    BY <2>1, <2>3 DEF OneBesideAcceptor, AcceptorStates
  <2> QED
    BY <2>2, <2>3
<1> QED
  BY Invariance, <1>1, PTL

\* Until Stop begins every thread works with its own connection.
THEOREM DescriptorsExclusive == Spec => []ExclusiveDescriptors
<1>1. IInv => ExclusiveDescriptors
  BY DEF IInv
<1> QED
  BY Invariance, <1>1, PTL

\* Until Stop begins clients_list is exactly the registered connections.
THEOREM RegistryIsExact == Spec => []RegistryExact
<1>1. IInv => RegistryExact
  BY DEF IInv
<1> QED
  BY Invariance, <1>1, PTL

\* Until Stop begins no close() hits a connection of somebody else.
THEOREM ClosesOnlyOwn == Spec => NoForeignClose
<1> DEFINE Own ==
      owner = "running" =>
        \A c \in Conn, f \in Fd :
          fdt[f] = c /\ fdt'[f] # c =>
            /\ hfd[c] = f
            /\ handler[c] = "close" \/ (cur = c /\ acceptor = "decide")
<1>1. IInv /\ [Next]_vars => [Own]_vars
  <2> SUFFICES ASSUME IInv, Next, owner = "running",
                      NEW d \in Conn, NEW f \in Fd, fdt[f] = d, fdt'[f] # d
               PROVE  /\ hfd[d] = f
                      /\ handler[d] = "close" \/ (cur = d /\ acceptor = "decide")
    OBVIOUS
  <2> USE ConstantsAssumption
      DEF IInv, TypeOK, ThreadsHaveDescriptors, ExclusiveDescriptors, Holds,
          Pending, ownerVars, acceptVars, handlerVars, peerVars
  <2>1. CASE OwnerStep
    BY <2>1 DEF OwnerStep, OwnerFinishesStop, Start, StartAllowed, StartFails,
                StopNeverStarted, Stop, CloseAllClients, ShutdownListener,
                JoinServerThread
  <2>2. CASE AcceptStep \/ AcceptError
    BY <2>2 DEF AcceptStep, AcceptFails, AcceptError, AcceptClient, FreeFds, CountClients,
                RejectClient, CloseFd, AddClient, StartHandler, ResumeAccept
  <2>3. ASSUME NEW c \in Conn, HandlerStep(c)
        PROVE  hfd[d] = f /\ handler[d] = "close"
    BY <2>3 DEF HandlerStep, Read, Receive, EndOfFile, RemoveClient,
                CloseClient, CloseFd
  <2>4. ASSUME NEW c \in Conn, PeerStep(c) PROVE FALSE
    BY <2>4 DEF PeerStep, Connect, Send, Leave
  <2> QED
    BY <2>1, <2>2, <2>3, <2>4 DEF Next
<1>2. Spec => [][Own]_vars
  BY Invariance, <1>1, PTL DEF Spec
<1> QED
  BY <1>2 DEF NoForeignClose
=============================================================================
