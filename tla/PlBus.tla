-------------------------------- MODULE PlBus --------------------------------
(***************************************************************************)
(* The serial protocol of Common/plbus.c: nodes on one bus, each with an   *)
(* interrupt that calls plbus_put for every byte on the bus, and a main    *)
(* loop that calls plbus_poll and plbus_send.                              *)
(*                                                                         *)
(* A node has one buffer, used for reception and for transmission.  The    *)
(* main loop's calls are split where an interrupt can change what they     *)
(* see.  The layout of the frame is the code's, byte for byte; the CRC     *)
(* table is replaced by another hash of the same bytes.  One node at a     *)
(* time transmits; on its way to a node a byte may be lost or changed.     *)
(***************************************************************************)
EXTENDS Integers, Sequences, FiniteSets

CONSTANTS
  Node,        \* the nodes, named by their own_address
  Sender,      \* the nodes that call plbus_send
  Dst,         \* the addresses frames are sent to
  Payload,     \* the payloads that are sent (sequences of bytes)
  BufSize,     \* rx_buffer_size
  MaxSends,    \* bound: plbus_send calls
  MaxLost,     \* bound: lost bytes
  MaxNoise     \* bound: changed bytes

WORD == 256 * 256   \* the values of a uint16_t

ASSUME PlBusAssumption ==
  /\ Node \subseteq 1..255 /\ Sender \subseteq Node /\ Dst \subseteq 0..255
  /\ BufSize \in 8..(WORD - 1)
  /\ \A p \in Payload : p \in Seq(0..255) /\ 8 + Len(p) <= BufSize
  /\ MaxSends \in Nat /\ MaxLost \in Nat /\ MaxNoise \in Nat

TOKEN == 165        \* PLBUS_TOKEN
BROADCAST == 0      \* PLBUS_BROADCAST
HEADER == 8         \* sizeof(plframe_t)
TRAIL == 4          \* the bytes the CRC takes behind the payload

VARIABLES
  buf,      \* per node: rx_buffer
  rx_cnt,   \* per node: internal.rx_cnt
  in_sync,  \* per node: internal.in_sync
  main,     \* per node: where its main loop is
  wire,     \* the bytes still to be transmitted
  sender,   \* the node that transmits, 0 if none
  sends,    \* plbus_send calls so far
  lost,     \* bytes lost so far
  noise,    \* bytes changed so far
  since,    \* history, per node: the bytes it heard since it found a token
  tokens,   \* history, per node: the tokens it took for a start of frame
  given,    \* history, per node: the calls of on_receive
  sent      \* history: the frames transmitted

vars == <<buf, rx_cnt, in_sync, main, wire, sender, sends, lost, noise, since,
          tokens, given, sent>>
lineVars == <<wire, sender, sends, lost, noise, sent>>
heard == <<since, tokens>>

Byte == 0..255
Index == 0..(BufSize - 1)

TypeOK ==
  /\ buf \in [Node -> [Index -> Byte]]
  /\ rx_cnt \in [Node -> 0..(WORD - 1)]
  /\ in_sync \in [Node -> BOOLEAN]
  /\ main \in [Node -> {"idle", "crc", "callback", "transmit", "sending"}]
  /\ wire \in Seq(Byte)
  /\ sender \in Node \cup {0}
  /\ sends \in 0..MaxSends /\ lost \in 0..MaxLost /\ noise \in 0..MaxNoise
  /\ since \in [Node -> Seq(Byte)]
  /\ tokens \in [Node -> Nat] /\ given \in [Node -> Nat]
  /\ sent \subseteq Seq(Byte)

\* plbus_init; the buffer is static memory.
Init ==
  /\ buf = [n \in Node |-> [i \in Index |-> 0]]
  /\ rx_cnt = [n \in Node |-> 0]
  /\ in_sync = [n \in Node |-> FALSE]
  /\ main = [n \in Node |-> "idle"]
  /\ wire = <<>> /\ sender = 0
  /\ sends = 0 /\ lost = 0 /\ noise = 0
  /\ since = [n \in Node |-> <<>>]
  /\ tokens = [n \in Node |-> 0]
  /\ given = [n \in Node |-> 0]
  /\ sent = {}

-----------------------------------------------------------------------------
(***************************************************************************)
(* The frame in a buffer b.                                                *)
(***************************************************************************)
Address(b) == b[1]
Word(b, i) == b[i] + 256 * b[i + 1]
Crc(b) == Word(b, 2)
Size(b) == Word(b, 4)

\* Stands for the table driven CRC.
crc16(s) ==
  LET crc[i \in 0..Len(s)] ==
        IF i = 0 THEN 0 ELSE (crc[i - 1] * 31 + s[i] + 1) % WORD
  IN crc[Len(s)]

\* The bytes that poll and send pass to crc16: the payload and TRAIL bytes
\* behind it.  Beyond the buffer there is whatever the memory holds.
Covered(b, memory) ==
  [i \in 1..(Size(b) + TRAIL) |->
     IF HEADER + i - 1 \in Index THEN b[HEADER + i - 1] ELSE memory]
Memory == {0, 255}

-----------------------------------------------------------------------------
(***************************************************************************)
(* The interrupt: plbus_put(bus, byte) of node n.                          *)
(***************************************************************************)

PutBuf(n, byte) ==
  IF in_sync[n] /\ rx_cnt[n] < BufSize THEN [buf[n] EXCEPT ![rx_cnt[n]] = byte]
  ELSE buf[n]

PutCnt(n, byte) ==
  IF in_sync[n] THEN (rx_cnt[n] + 1) % WORD
  ELSE IF byte = TOKEN THEN 1 ELSE rx_cnt[n]

PutSync(n, byte) == in_sync[n] \/ byte = TOKEN

\* What the nodes hear of the next byte: it, nothing or another byte.
Hears(n) == IF n = sender THEN {<<>>}
            ELSE {<<>>, <<Head(wire)>>, <<(Head(wire) + 1) % 256>>}
Hearing == {h \in [Node -> UNION {Hears(n) : n \in Node}] : \A n \in Node : h[n] \in Hears(n)}
Losses(h) == Cardinality({n \in Node \ {sender} : h[n] = <<>>})
Changes(h) == Cardinality({n \in Node : h[n] # <<>> /\ h[n] # <<Head(wire)>>})

plbus_put ==
  /\ wire # <<>>
  /\ \E h \in Hearing :
       LET Per(new(_, _), old) ==
             [n \in Node |-> IF h[n] = <<>> THEN old[n] ELSE new(n, h[n][1])]
       IN
       /\ lost + Losses(h) <= MaxLost /\ lost' = lost + Losses(h)
       /\ noise + Changes(h) <= MaxNoise /\ noise' = noise + Changes(h)
       /\ buf' = Per(PutBuf, buf)
       /\ rx_cnt' = Per(PutCnt, rx_cnt)
       /\ in_sync' = Per(PutSync, in_sync)
       /\ since' = Per(LAMBDA n, byte : IF in_sync[n] THEN Append(since[n], byte)
                                        ELSE IF byte = TOKEN THEN <<byte>>
                                        ELSE since[n], since)
       /\ tokens' = Per(LAMBDA n, byte : IF ~in_sync[n] /\ byte = TOKEN
                                         THEN tokens[n] + 1 ELSE tokens[n], tokens)
  /\ wire' = Tail(wire)
  /\ UNCHANGED <<sender, sends, sent, main, given>>

-----------------------------------------------------------------------------
(***************************************************************************)
(* plbus_poll of node n.                                                   *)
(***************************************************************************)

\* Mutant: a frame one byte short is taken for complete.
CompleteEarly(n) == Size(buf[n]) + HEADER = rx_cnt[n] + 1

Complete(n) == Size(buf[n]) + HEADER = rx_cnt[n]

\* Mutant: the address is not looked at.
ForUsAlways(n) == TRUE

ForUs(n) == Address(buf[n]) \in {BROADCAST, n}

\* The three early returns; a poll that takes one of them changes nothing.
PollCheck(n) ==
  /\ main[n] = "idle"
  /\ in_sync[n]
  /\ Complete(n)
  /\ ForUs(n)
  /\ main' = [main EXCEPT ![n] = "crc"]
  /\ UNCHANGED <<buf, rx_cnt, in_sync, lineVars, heard, given>>

CrcOk(n, memory) == crc16(Covered(buf[n], memory)) = Crc(buf[n])

\* Mutant: the frame stays in the buffer as if it had not been taken.
PollCrcKeep(n) ==
  /\ main[n] = "crc"
  /\ main' = [main EXCEPT ![n] = "callback"]
  /\ UNCHANGED <<buf, rx_cnt, in_sync, lineVars, heard, given>>

\* The comparison of the CRC and, if it holds, in_sync = false; otherwise
\* PLBUS_CRC_ERROR is returned.
PollCrc(n) ==
  /\ main[n] = "crc"
  /\ \E memory \in Memory :
       IF CrcOk(n, memory)
         THEN /\ in_sync' = [in_sync EXCEPT ![n] = FALSE]
              /\ main' = [main EXCEPT ![n] = "callback"]
         ELSE /\ main' = [main EXCEPT ![n] = "idle"]
              /\ UNCHANGED in_sync
  /\ UNCHANGED <<buf, rx_cnt, lineVars, heard, given>>

\* on_receive, if there is one; its result (0 or 1) is stored in the header,
\* although the interrupt may have begun to store the next frame there.
PollCallback(n) ==
  /\ main[n] = "callback"
  /\ \/ /\ \E result \in {0, 1} : buf' = [buf EXCEPT ![n][6] = result, ![n][7] = 0]
        /\ given' = [given EXCEPT ![n] = @ + 1]
     \/ UNCHANGED <<buf, given>>
  /\ main' = [main EXCEPT ![n] = "idle"]
  /\ UNCHANGED <<rx_cnt, in_sync, lineVars, heard>>

-----------------------------------------------------------------------------
(***************************************************************************)
(* plbus_send of node n.                                                   *)
(***************************************************************************)

\* Mutant: the word is stored in one byte.
StoreCrcWhole(b, crc) == [b EXCEPT ![2] = crc]

StoreCrc(b, crc) == [b EXCEPT ![2] = crc % 256, ![3] = crc \div 256]

\* The frame is put together in the receive buffer.
plbus_send(n, dst, p) ==
  /\ main[n] = "idle"
  /\ sender = 0
  /\ sends < MaxSends
  /\ LET filled ==
           [i \in Index |->
              CASE i = 0 -> TOKEN
                [] i = 1 -> dst
                [] i = 4 -> Len(p) % 256
                [] i = 5 -> Len(p) \div 256
                [] i \in HEADER..(HEADER + Len(p) - 1) -> p[i - HEADER + 1]
                [] OTHER -> buf[n][i]]
     IN \E memory \in Memory :
          buf' = [buf EXCEPT ![n] = StoreCrc(filled, crc16(Covered(filled, memory)))]
  /\ main' = [main EXCEPT ![n] = "transmit"]
  /\ sender' = n
  /\ sends' = sends + 1
  /\ UNCHANGED <<rx_cnt, in_sync, wire, lost, noise, sent, heard, given>>

\* on_transmit(rx_buffer, sizeof(*frame) + size)
Transmit(n) ==
  /\ main[n] = "transmit"
  /\ wire' = [i \in 1..(HEADER + Size(buf[n])) |-> buf[n][i - 1]]
  /\ sent' = sent \cup {wire'}
  /\ main' = [main EXCEPT ![n] = "sending"]
  /\ UNCHANGED <<buf, rx_cnt, in_sync, sender, sends, lost, noise, heard, given>>

\* on_transmit returns.
Transmitted(n) ==
  /\ main[n] = "sending"
  /\ wire = <<>>
  /\ sender' = 0
  /\ main' = [main EXCEPT ![n] = "idle"]
  /\ UNCHANGED <<buf, rx_cnt, in_sync, wire, sends, lost, noise, sent, heard, given>>

-----------------------------------------------------------------------------
Next ==
  \/ plbus_put
  \/ \E n \in Node : PollCheck(n) \/ PollCrc(n) \/ PollCallback(n)
  \/ \E n \in Sender : \/ \E dst \in Dst, p \in Payload : plbus_send(n, dst, p)
                       \/ Transmit(n) \/ Transmitted(n)

Spec == Init /\ [][Next]_vars

-----------------------------------------------------------------------------
(***************************************************************************)
(* Properties.                                                             *)
(***************************************************************************)
Accepts(n) == main[n] = "crc" /\ main'[n] = "callback"

\* rx_cnt has 16 bits: it counts the bytes since the token until it wraps round.
Counted(n) == Len(since[n]) < WORD

\* The positions of the frame in n's buffer that the interrupt alone writes:
\* not the token, which is not stored, not the error field, and nothing that a
\* size changed on the line puts behind the buffer.
Stored(n) == (Index \cap 1..(HEADER + Size(buf[n]) - 1)) \ {6, 7}

\* A node that does not transmit accepts a frame only when the bytes it heard
\* since the token are that frame, from the address to the last byte of the
\* payload (the error field aside: plbus_poll stores the callback's result there
\* even if the next frame is already coming in).  plbus_poll never takes the
\* size of an older frame, still in the buffer, for the size of the one that is
\* coming in, and the interrupt does not change the frame between the checks.
\* It holds as long as rx_cnt has not wrapped round, after which new bytes are
\* stored over the old ones.
AcceptedWasHeard ==
  [][\A n \in Node \ Sender :
       Accepts(n) /\ Counted(n) =>
         /\ Len(since[n]) >= HEADER + Size(buf[n])
         /\ \A i \in Stored(n) : buf[n][i] = since[n][i + 1]]_vars

\* Whatever the line does to the bytes, a node that does not transmit accepts
\* only frames that carry its own or the broadcast address (again until rx_cnt
\* wraps round).
AcceptedForUs ==
  [][\A n \in Node \ Sender :
       Accepts(n) /\ Counted(n) =>
         Len(since[n]) >= 2 /\ since[n][2] \in {BROADCAST, n}]_vars

\* on_receive is called at most once for every token that started a frame, no
\* matter how often plbus_poll is called.
OncePerToken == \A n \in Node : given[n] <= tokens[n]

\* "CRC16 of the whole message": a frame that arrives as it was sent passes the
\* check.
IntactPasses ==
  [][\A n \in Node \ Sender :
       main[n] = "crc" /\ main'[n] = "idle" => since[n] \notin sent]_vars

\* "crc also covers payload size and error value": the size and the error field of a
\* frame that passes the check are those of a frame that was sent.
HeaderCovered ==
  [][\A n \in Node \ Sender :
       Accepts(n) /\ Counted(n) =>
         \E frame \in sent : \A i \in 5..HEADER : since[n][i] = frame[i]]_vars
=============================================================================
