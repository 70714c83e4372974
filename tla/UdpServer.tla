------------------------------ MODULE UdpServer -----------------------------
(***************************************************************************)
(* The UDP side of Network::ServerBase (Linux/server/server.cpp): the      *)
(* thread of udp_handler receives datagrams until recvfrom fails, and Stop *)
(* shuts the socket down and then replaces the descriptor that the thread  *)
(* reads without a lock.                                                   *)
(***************************************************************************)
EXTENDS Naturals, Sequences

CONSTANTS MaxQueue,   \* bound: datagrams in the socket
          MaxSent     \* bound: datagrams sent

VARIABLES
  socket,  \* valid: _sockfd is not -1; shut; queue: sizes of the datagrams
  loop,    \* udp_handler: pc, and fd: whether the number it read was valid
  stopper, \* the caller of Start and Stop
  told     \* history: sent, and handed: datagrams given to OnReceive; failed: the
           \* thread ended for want of memory or by an error of recvfrom

vars == <<socket, loop, stopper, told>>

Parameters == MaxQueue \in Nat /\ MaxSent \in Nat

\* udp_handler begins, or ends at once because malloc fails.
Init ==
  /\ socket = [valid |-> TRUE, shut |-> FALSE, queue |-> <<>>]
  /\ told \in [sent : {0}, handed : {0}, failed : BOOLEAN]
  /\ loop = [pc |-> IF told.failed THEN "ended" ELSE "load", fd |-> TRUE]
  /\ stopper = "idle"

\* External: a datagram arrives, an empty one too.
Arrive(size) ==
  /\ Len(socket.queue) < MaxQueue /\ told.sent < MaxSent
  /\ socket' = [socket EXCEPT !.queue = Append(@, size)]
  /\ told' = [told EXCEPT !.sent = @ + 1]
  /\ UNCHANGED <<loop, stopper>>

\* ReceiveUDP reads _sockfd and calls recvfrom.
Load ==
  /\ loop.pc = "load"
  /\ loop' = [pc |-> "recv", fd |-> socket.valid]
  /\ UNCHANGED <<socket, stopper, told>>

\* Mutant: an empty datagram ends the loop.
ReceiveStops ==
  /\ loop.pc = "recv"
  /\ loop.fd => socket.queue # <<>> \/ socket.shut
  /\ loop' = [loop EXCEPT !.pc = IF loop.fd /\ socket.queue # <<>> /\ Head(socket.queue) > 0 THEN "load" ELSE "ended"]
  /\ socket' = [socket EXCEPT !.queue = IF @ = <<>> THEN @ ELSE Tail(@)]
  /\ UNCHANGED <<stopper, told>>

\* Without a datagram the call waits; on a socket that is shut down it returns 0,
\* and 0 is no reason to end; -1 as the descriptor is an error, and ends the loop.
Receive ==
  /\ loop.pc = "recv"
  /\ loop.fd => socket.queue # <<>> \/ socket.shut
  /\ LET size == IF socket.queue = <<>> THEN 0 ELSE Head(socket.queue)
     IN  IF ~loop.fd
         THEN loop' = [loop EXCEPT !.pc = "ended"] /\ UNCHANGED <<socket, told>>
         ELSE /\ loop' = [loop EXCEPT !.pc = "load"]
              /\ socket' = [socket EXCEPT !.queue = IF @ = <<>> THEN @ ELSE Tail(@)]
              /\ told' = [told EXCEPT !.handed = IF size > 0 THEN @ + 1 ELSE @]
  /\ UNCHANGED stopper

\* recvfrom fails on a good descriptor (EINTR, ENOMEM, an ICMP error).
ReceiveFails ==
  /\ loop.pc = "recv" /\ loop.fd
  /\ loop' = [loop EXCEPT !.pc = "ended"]
  /\ told' = [told EXCEPT !.failed = TRUE]
  /\ UNCHANGED <<socket, stopper>>

StopShutdown ==
  /\ stopper = "idle"
  /\ socket' = [socket EXCEPT !.shut = TRUE]
  /\ stopper' = "clear"
  /\ UNCHANGED <<loop, told>>

\* Mutant: the descriptor stays, as in the destructor of a socket that is only shut down.
StopKeeps ==
  /\ stopper = "clear"
  /\ stopper' = "join"
  /\ UNCHANGED <<socket, loop, told>>

StopClear ==
  /\ stopper = "clear"
  /\ socket' = [socket EXCEPT !.valid = FALSE]
  /\ stopper' = "join"
  /\ UNCHANGED <<loop, told>>

StopJoin ==
  /\ stopper = "join" /\ loop.pc = "ended"
  /\ stopper' = "done"
  /\ UNCHANGED <<socket, loop, told>>

Threads == Load \/ Receive
Stopping == StopClear \/ StopJoin
Next == Threads \/ ReceiveFails \/ Stopping \/ StopShutdown \/ \E size \in 0..1 : Arrive(size)

-----------------------------------------------------------------------------
TypeOK == Len(socket.queue) <= MaxQueue /\ told.handed <= told.sent

\* A datagram with data waits in the socket of a running server.
Waiting == ~socket.shut /\ \E i \in DOMAIN socket.queue : socket.queue[i] > 0
=============================================================================
