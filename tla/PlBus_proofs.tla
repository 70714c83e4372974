---------------------------- MODULE PlBus_proofs ----------------------------
(***************************************************************************)
(* Proofs about the serial protocol of Common/plbus.c, for every set of    *)
(* nodes, buffer size, payload, number of frames and of line errors.       *)
(***************************************************************************)
EXTENDS PlBus, Arithmetic, FiniteSetTheorems, TLAPS

-----------------------------------------------------------------------------
(***************************************************************************)
(* The inductive invariant.                                                *)
(***************************************************************************)

\* The node that transmits holds the line, and its frame fits its buffer.
LineHeld ==
  \A n \in Node :
    /\ main[n] \in {"transmit", "sending"} => sender = n
    /\ main[n] = "transmit" => HEADER + Size(buf[n]) <= BufSize

\* Every token that started a frame is still being received, is on its way to
\* on_receive, or was given to it at most once.
Spent(n) ==
  /\ main[n] = "crc" => in_sync[n]
  /\ given[n] + (IF in_sync[n] THEN 1 ELSE 0)
              + (IF main[n] = "callback" THEN 1 ELSE 0) <= tokens[n]

\* Node n has counted and stored what it heard.
HeardBy(n) ==
  in_sync[n] /\ Counted(n) =>
    /\ rx_cnt[n] = Len(since[n])
    /\ rx_cnt[n] >= 1
    /\ \A i \in Index \ {0, 6, 7} : i < rx_cnt[n] => buf[n][i] = since[n][i + 1]

\* Between the checks and the comparison of the CRC the frame stays complete
\* and addressed to the node.
Checked(n) ==
  main[n] = "crc" /\ Counted(n) =>
    ForUs(n) /\ rx_cnt[n] >= HEADER + Size(buf[n])

TokensSpent == \A n \in Node : Spent(n)

\* Of the nodes that do not transmit.
FramesHeard == \A n \in Node \ Sender : HeardBy(n) /\ Checked(n)

IInv == TypeOK /\ LineHeld /\ TokensSpent /\ FramesHeard

-----------------------------------------------------------------------------
(***************************************************************************)
(* The checksum.                                                           *)
(***************************************************************************)

\* What is used of 65536: the remainder has 16 bits and is the number itself
\* when that has 16 bits, and two bytes hold them.
LEMMA Word16 ==
  /\ WORD \in Nat /\ WORD > 255
  /\ \A x \in Nat : x % WORD \in 0..(WORD - 1)
  /\ \A x \in Nat : x < WORD => x % WORD = x
  /\ \A x \in 0..(WORD - 1) : x % 256 \in Byte /\ x \div 256 \in Byte
<1>1. WORD \in Nat /\ WORD > 255
  BY DEF WORD
<1>2. ASSUME NEW x \in Nat PROVE x % WORD \in 0..(WORD - 1)
  BY <1>1
<1>3. ASSUME NEW x \in Nat, x < WORD PROVE x % WORD = x
  BY <1>3 DEF WORD
<1>4. ASSUME NEW x \in 0..(WORD - 1) PROVE x % 256 \in Byte /\ x \div 256 \in Byte
  <2>1. x \in Nat /\ x < 256 * 256
    <3>1. x \in Nat /\ x < WORD
      BY <1>1, <1>4
    <3> QED
      BY <3>1 DEF WORD
  <2>2. x % 256 \in 0..255
    BY <2>1
  <2>3. x \div 256 \in 0..255
    BY <2>1
  <2> QED
    BY <2>2, <2>3 DEF Byte
<1> QED
  BY <1>1, <1>2, <1>3, <1>4

\* A byte is a number below 256.
LEMMA Bytes == \A b \in Byte : b \in Nat /\ b < 256
  BY DEF Byte

\* crc16 yields 16 bits for every sequence of bytes: the loop's value exists
\* after every number of turns, and every turn keeps it within 16 bits.
LEMMA CrcType == ASSUME NEW s \in Seq(Byte) PROVE crc16(s) \in 0..(WORD - 1)
<1> DEFINE L == Len(s)
           Bits == 0..(WORD - 1)
           Turn(c, i) == (c * 31 + s[i] + 1) % WORD
           Run(g, n) == g[0] = 0 /\ \A i \in 1..n : g[i] = Turn(g[i - 1], i)
           Stuck == {n \in 0..L : ~ \E g \in [0..n -> Bits] : Run(g, n)}
<1>0. L \in Nat /\ \A i \in 1..L : s[i] \in Byte
  OBVIOUS
<1>w. 0 \in Bits
  BY Word16
<1>1. ASSUME NEW c \in Bits, NEW i \in 1..L PROVE Turn(c, i) \in Bits
  <2>1. s[i] \in Nat
    BY <1>0, Bytes
  <2>2. c \in Nat
    BY Word16
  <2>3. c * 31 + s[i] + 1 \in Nat
    BY <2>1, <2>2
  <2> QED
    BY <2>3, Word16
<1> HIDE DEF L, Turn, Bits
<1>2. Stuck = {}
  <2> SUFFICES ASSUME Stuck # {} PROVE FALSE
    OBVIOUS
  <2>1. PICK m \in Stuck : \A n \in Stuck : m <= n
    <3>1. Stuck \in SUBSET Nat
      OBVIOUS
    <3> HIDE DEF Stuck
    <3> QED
      BY <3>1, LeastElement
  <2>2. m # 0
    <3>1. [i \in 0..0 |-> 0] \in [0..0 -> Bits]
      BY <1>w
    <3>2. Run([i \in 0..0 |-> 0], 0)
      OBVIOUS
    <3> QED
      BY <2>1, <3>1, <3>2
  <2>3. m \in 1..L /\ m - 1 \in 0..L
    BY <1>0, <2>1, <2>2
  <2>4. m - 1 \notin Stuck
    BY <2>1, <2>3
  <2>5. PICK g \in [0..(m - 1) -> Bits] : Run(g, m - 1)
    BY <2>3, <2>4
  <2> DEFINE h == [i \in 0..m |-> IF i = m THEN Turn(g[m - 1], m) ELSE g[i]]
  <2>6. h \in [0..m -> Bits]
    BY <1>0, <1>1, <2>3
  <2>7. Run(h, m)
    <3>1. h[m] = Turn(g[m - 1], m) /\ \A i \in 0..(m - 1) : h[i] = g[i]
      BY <2>3
    <3> HIDE DEF h
    <3>2. h[0] = 0 /\ h[m] = Turn(h[m - 1], m)
      BY <2>3, <2>5, <3>1
    <3>3. ASSUME NEW i \in 1..(m - 1) PROVE h[i] = Turn(h[i - 1], i)
      BY <2>3, <2>5, <3>1
    <3>4. \A i \in 1..m : i = m \/ i \in 1..(m - 1)
      BY <2>3
    <3> QED
      BY <3>2, <3>3, <3>4
  <2> QED
    BY <2>1, <2>6, <2>7
<1> DEFINE Loop(f) == f = [i \in 0..L |-> IF i = 0 THEN 0 ELSE Turn(f[i - 1], i)]
<1>3. \E f : Loop(f)
  <2>1. PICK g \in [0..L -> Bits] : Run(g, L)
    BY <1>0, <1>2, SMTT(60)
  <2> QED
    BY <1>0, <2>1
<1> DEFINE crc == CHOOSE f : Loop(f)
<1>4. Loop(crc)
  BY <1>3
<1> HIDE DEF crc
<1> DEFINE Wide == {i \in 0..L : crc[i] \notin Bits}
<1>5. Wide = {}
  <2> SUFFICES ASSUME Wide # {} PROVE FALSE
    OBVIOUS
  <2>1. PICK m \in Wide : \A n \in Wide : m <= n
    <3>1. Wide \in SUBSET Nat
      OBVIOUS
    <3> HIDE DEF Wide
    <3> QED
      BY <3>1, LeastElement
  <2>2. m # 0
    BY <1>0, <1>4, <1>w, <2>1
  <2>3. m - 1 \in 0..L /\ crc[m - 1] \in Bits
    BY <1>0, <2>1, <2>2
  <2>4. crc[m] = Turn(crc[m - 1], m)
    BY <1>0, <1>4, <2>1, <2>2
  <2> QED
    BY <1>0, <1>1, <2>1, <2>2, <2>3, <2>4
<1>6. crc[L] \in Bits
  BY <1>0, <1>5
<1>7. crc16(s) = crc[L]
  BY DEF crc16, crc, L, Turn
<1> QED
  BY <1>6, <1>7 DEF Bits

-----------------------------------------------------------------------------
(***************************************************************************)
(* The interrupt.                                                          *)
(***************************************************************************)

\* Node n does not hear the byte on the wire.
Deaf(n) ==
  /\ buf'[n] = buf[n] /\ rx_cnt'[n] = rx_cnt[n] /\ in_sync'[n] = in_sync[n]
  /\ since'[n] = since[n] /\ tokens'[n] = tokens[n]

\* Node n takes a byte as the first of a frame, or ignores it.
Syncs(n, byte) ==
  /\ ~in_sync[n]
  /\ buf'[n] = buf[n]
  /\ IF byte = TOKEN
       THEN /\ rx_cnt'[n] = 1 /\ in_sync'[n] = TRUE
            /\ since'[n] = <<byte>> /\ tokens'[n] = tokens[n] + 1
       ELSE /\ rx_cnt'[n] = rx_cnt[n] /\ in_sync'[n] = in_sync[n]
            /\ since'[n] = since[n] /\ tokens'[n] = tokens[n]

\* Node n stores a byte of a frame.
Stores(n, byte) ==
  /\ in_sync[n]
  /\ buf'[n] = IF rx_cnt[n] < BufSize THEN [buf[n] EXCEPT ![rx_cnt[n]] = byte]
               ELSE buf[n]
  /\ rx_cnt'[n] = (rx_cnt[n] + 1) % WORD
  /\ in_sync'[n] = TRUE
  /\ since'[n] = Append(since[n], byte)
  /\ tokens'[n] = tokens[n]

\* Every node ignores the byte on the wire, syncs on it or stores it, and the
\* node that transmits does not hear it.
LEMMA PutPerNode ==
  ASSUME TypeOK, plbus_put
  PROVE  /\ buf' = [n \in Node |-> buf'[n]]
         /\ rx_cnt' = [n \in Node |-> rx_cnt'[n]]
         /\ in_sync' = [n \in Node |-> in_sync'[n]]
         /\ since' = [n \in Node |-> since'[n]]
         /\ tokens' = [n \in Node |-> tokens'[n]]
         /\ \A n \in Node :
              \/ Deaf(n)
              \/ n # sender /\ \E byte \in Byte : Syncs(n, byte) \/ Stores(n, byte)
<1>1. PICK h \in Hearing :
         /\ buf' = [n \in Node |-> IF h[n] = <<>> THEN buf[n] ELSE PutBuf(n, h[n][1])]
         /\ rx_cnt' = [n \in Node |-> IF h[n] = <<>> THEN rx_cnt[n]
                                      ELSE PutCnt(n, h[n][1])]
         /\ in_sync' = [n \in Node |-> IF h[n] = <<>> THEN in_sync[n]
                                       ELSE PutSync(n, h[n][1])]
         /\ since' = [n \in Node |-> IF h[n] = <<>> THEN since[n]
                        ELSE IF in_sync[n] THEN Append(since[n], h[n][1])
                        ELSE IF h[n][1] = TOKEN THEN <<h[n][1]>>
                        ELSE since[n]]
         /\ tokens' = [n \in Node |-> IF h[n] = <<>> THEN tokens[n]
                        ELSE IF ~in_sync[n] /\ h[n][1] = TOKEN
                             THEN tokens[n] + 1 ELSE tokens[n]]
  BY Zenon DEF plbus_put
<1>2. wire # <<>> /\ wire \in Seq(Byte)
  BY DEF plbus_put, TypeOK
<1>3. Head(wire) \in Byte
  BY <1>2
<1>4. (Head(wire) + 1) % 256 \in Byte
  <2>1. \A x \in Nat : x % 256 \in Byte
    BY DEF Byte
  <2> QED
    BY <1>3, <2>1, Bytes
<1>5. ASSUME NEW n \in Node
      PROVE  \/ Deaf(n)
             \/ n # sender /\ \E byte \in Byte : Syncs(n, byte) \/ Stores(n, byte)
  <2>1. h[n] \in Hears(n)
    BY DEF Hearing
  <2>2. h[n] = <<>> \/ (n # sender /\ h[n][1] \in Byte)
    BY <1>3, <1>4, <2>1 DEF Hears
  <2>3. in_sync[n] \in BOOLEAN
    BY DEF TypeOK
  <2>4. CASE h[n] = <<>>
    BY <1>1, <2>4 DEF Deaf
  <2>5. CASE h[n] # <<>> /\ in_sync[n]
    <3>1. Stores(n, h[n][1])
      BY <1>1, <2>5 DEF Stores, PutBuf, PutCnt, PutSync
    <3> QED
      BY <2>2, <2>5, <3>1
  <2>6. CASE h[n] # <<>> /\ ~in_sync[n]
    <3>1. Syncs(n, h[n][1])
      BY <1>1, <2>3, <2>6 DEF Syncs, PutBuf, PutCnt, PutSync
    <3> QED
      BY <2>2, <2>6, <3>1
  <2> QED
    BY <2>3, <2>4, <2>5, <2>6
<1>6. /\ buf' = [n \in Node |-> buf'[n]]
      /\ rx_cnt' = [n \in Node |-> rx_cnt'[n]]
      /\ in_sync' = [n \in Node |-> in_sync'[n]]
      /\ since' = [n \in Node |-> since'[n]]
      /\ tokens' = [n \in Node |-> tokens'[n]]
  BY <1>1
<1> QED
  BY <1>5, <1>6

\* The bounds on losses and changes are kept.
LEMMA PutCounts ==
  ASSUME TypeOK, plbus_put
  PROVE  lost' \in 0..MaxLost /\ noise' \in 0..MaxNoise
<1>1. IsFiniteSet(Node)
  <2>1. IsFiniteSet(1..255)
    <3>1. 1 \in Int /\ 255 \in Int
      OBVIOUS
    <3> QED
      BY <3>1, FS_Interval, Zenon
  <2>2. Node \in SUBSET (1..255)
    BY PlBusAssumption
  <2> QED
    BY <2>1, <2>2, FS_Subset
<1>2. ASSUME NEW S \in SUBSET Node PROVE Cardinality(S) \in Nat
  BY <1>1, FS_Subset, FS_CardinalityType
<1>3. \A h : Losses(h) \in Nat /\ Changes(h) \in Nat
  BY <1>2 DEF Losses, Changes
<1>4. \E h : /\ lost + Losses(h) <= MaxLost /\ lost' = lost + Losses(h)
             /\ noise + Changes(h) <= MaxNoise /\ noise' = noise + Changes(h)
  BY Zenon DEF plbus_put
<1> QED
  BY <1>3, <1>4, PlBusAssumption, SMTT(60) DEF TypeOK

-----------------------------------------------------------------------------
(***************************************************************************)
(* The steps.                                                              *)
(***************************************************************************)

\* The size field is a number, and what crc16 is given is a sequence of bytes.
LEMMA SizeType ==
  ASSUME NEW b \in [Index -> Byte]
  PROVE  /\ Size(b) \in Nat
         /\ Crc(b) \in Nat
         /\ \A memory \in Memory : Covered(b, memory) \in Seq(Byte)
<1>1. {1, 2, 3, 4, 5} \subseteq Index
  BY PlBusAssumption, Word16 DEF Index
<1>2. b[2] \in Nat /\ b[3] \in Nat /\ b[4] \in Nat /\ b[5] \in Nat
  BY <1>1, Bytes
<1>3. Size(b) \in Nat /\ Crc(b) \in Nat
  BY <1>2 DEF Size, Crc, Word
<1>4. ASSUME NEW memory \in Memory PROVE Covered(b, memory) \in Seq(Byte)
  <2>1. memory \in Byte
    BY DEF Memory, Byte
  <2>2. Size(b) + TRAIL \in Nat
    BY <1>3 DEF TRAIL
  <2> QED
    BY <2>1, <2>2 DEF Covered
<1> QED
  BY <1>3, <1>4

\* The frame plbus_send puts together in buffer b.
Filled(b, dst, p) ==
  [i \in Index |->
     CASE i = 0 -> TOKEN
       [] i = 1 -> dst
       [] i = 4 -> Len(p) % 256
       [] i = 5 -> Len(p) \div 256
       [] i \in HEADER..(HEADER + Len(p) - 1) -> p[i - HEADER + 1]
       [] OTHER -> b[i]]

\* It consists of bytes, and its size field is the length of the payload.
LEMMA SendFills ==
  ASSUME NEW b \in [Index -> Byte], NEW dst \in Dst, NEW p \in Payload,
         NEW memory \in Memory
  PROVE  LET f == StoreCrc(Filled(b, dst, p), crc16(Covered(Filled(b, dst, p), memory)))
         IN  f \in [Index -> Byte] /\ HEADER + Size(f) <= BufSize
<1>1. p \in Seq(Byte) /\ HEADER + Len(p) <= BufSize /\ Len(p) \in Nat
  BY PlBusAssumption DEF Byte, HEADER
<1>2. dst \in Byte /\ TOKEN \in Byte
  BY PlBusAssumption DEF Byte, TOKEN
<1>3. Len(p) % 256 \in Byte /\ Len(p) \div 256 \in Byte
  <2>1. Len(p) \in 0..(WORD - 1)
    BY <1>1, Word16, PlBusAssumption DEF HEADER
  <2> QED
    BY <2>1, Word16
<1>4. \A i \in HEADER..(HEADER + Len(p) - 1) : p[i - HEADER + 1] \in Byte
  BY <1>1 DEF HEADER
<1>5. Filled(b, dst, p) \in [Index -> Byte]
  BY <1>2, <1>3, <1>4 DEF Filled
<1> DEFINE g == Filled(b, dst, p)
           crc == crc16(Covered(g, memory))
<1>6. crc % 256 \in Byte /\ crc \div 256 \in Byte
  BY <1>5, SizeType, CrcType, Word16
<1>7. {2, 3, 4, 5} \subseteq Index
  BY PlBusAssumption, Word16 DEF Index
<1>8. g[4] = Len(p) % 256 /\ g[5] = Len(p) \div 256
  <2>1. 4 \in Index /\ 5 \in Index
    BY <1>7
  <2>2. 4 \notin HEADER..(HEADER + Len(p) - 1) /\ 5 \notin HEADER..(HEADER + Len(p) - 1)
    BY <1>1 DEF HEADER
  <2>3. g[4] = Len(p) % 256
    BY <2>1, <2>2 DEF Filled
  <2>4. g[5] = Len(p) \div 256
    BY <2>1, <2>2 DEF Filled
  <2> QED
    BY <2>3, <2>4
<1> HIDE DEF g, crc
<1>9. StoreCrc(g, crc) \in [Index -> Byte]
  BY <1>5, <1>6, <1>7 DEF StoreCrc, g
<1>10. StoreCrc(g, crc)[4] = g[4] /\ StoreCrc(g, crc)[5] = g[5]
  BY <1>5, <1>7 DEF StoreCrc, g
<1>11. (Len(p) % 256) + 256 * (Len(p) \div 256) = Len(p)
  BY <1>1
<1>12. Size(StoreCrc(g, crc)) = Len(p)
  BY <1>8, <1>10, <1>11 DEF Size, Word
<1> QED
  BY <1>1, <1>9, <1>12 DEF g, crc

\* Every action keeps every variable in its type, and the frame that a node
\* transmits in its buffer.
LEMMA TypeStep == IInv /\ [Next]_vars => TypeOK' /\ LineHeld'
<1> SUFFICES ASSUME IInv, [Next]_vars PROVE TypeOK' /\ LineHeld'
  OBVIOUS
<1>0. /\ TypeOK /\ LineHeld
      /\ Sender \subseteq Node /\ 0 \notin Node
  BY PlBusAssumption DEF IInv
<1>w. WORD \in Nat /\ WORD > 255
  BY Word16
<1>1. CASE plbus_put
  <2>1. wire' \in Seq(Byte)
    BY <1>0, <1>1 DEF plbus_put, TypeOK
  <2>2. lost' \in 0..MaxLost /\ noise' \in 0..MaxNoise
    BY <1>0, <1>1, PutCounts
  <2> DEFINE Typed(n) == /\ buf'[n] \in [Index -> Byte]
                         /\ rx_cnt'[n] \in 0..(WORD - 1)
                         /\ in_sync'[n] \in BOOLEAN
                         /\ since'[n] \in Seq(Byte)
                         /\ tokens'[n] \in Nat
                         /\ n = sender => buf'[n] = buf[n]
  <2>3. ASSUME NEW n \in Node PROVE Typed(n)
    <3>0. /\ buf[n] \in [Index -> Byte] /\ rx_cnt[n] \in 0..(WORD - 1)
          /\ in_sync[n] \in BOOLEAN /\ since[n] \in Seq(Byte) /\ tokens[n] \in Nat
      BY <1>0 DEF TypeOK
    <3>1. CASE Deaf(n)
      BY <3>0, <3>1 DEF Deaf
    <3>2. ASSUME NEW byte \in Byte, n # sender, Syncs(n, byte)
          PROVE  Typed(n)
      <4>1. CASE byte = TOKEN
        <5>1. 1 \in 0..(WORD - 1) /\ <<byte>> \in Seq(Byte)
          BY <1>w
        <5>2. /\ buf'[n] = buf[n] /\ rx_cnt'[n] = 1 /\ in_sync'[n] = TRUE
              /\ since'[n] = <<byte>> /\ tokens'[n] = tokens[n] + 1
          BY <3>2, <4>1 DEF Syncs
        <5>3. tokens'[n] \in Nat
          BY <3>0, <5>2
        <5>4. since'[n] \in Seq(Byte) /\ rx_cnt'[n] \in 0..(WORD - 1)
          BY <5>1, <5>2, Zenon
        <5> QED
          BY <3>0, <5>2, <5>3, <5>4
      <4>2. CASE byte # TOKEN
        BY <3>0, <3>2, <4>2 DEF Syncs
      <4> QED
        BY <4>1, <4>2
    <3>3. ASSUME NEW byte \in Byte, n # sender, Stores(n, byte)
          PROVE  Typed(n)
      <4>1. since'[n] \in Seq(Byte)
        BY <3>0, <3>3 DEF Stores
      <4>2. rx_cnt[n] + 1 \in Nat
        BY <3>0, <1>w
      <4>3. rx_cnt'[n] \in 0..(WORD - 1)
        <5>1. (rx_cnt[n] + 1) % WORD \in 0..(WORD - 1)
          BY <4>2, Word16
        <5> QED
          BY <3>3, <5>1 DEF Stores
      <4>4. buf'[n] \in [Index -> Byte]
        BY <3>0, <3>3 DEF Stores
      <4> QED
        BY <3>0, <3>3, <4>1, <4>3, <4>4 DEF Stores
    <3> QED
      BY <1>0, <1>1, <3>1, <3>2, <3>3, PutPerNode
  <2>4. TypeOK'
    BY <1>0, <1>1, <2>1, <2>2, <2>3, PutPerNode DEF TypeOK, plbus_put
  <2>5. LineHeld'
    BY <1>0, <1>1, <2>3 DEF LineHeld, plbus_put
  <2> QED
    BY <2>4, <2>5
<1>2. ASSUME NEW n \in Node, PollCheck(n) PROVE TypeOK' /\ LineHeld'
  BY <1>0, <1>2 DEF PollCheck, TypeOK, LineHeld, lineVars, heard
<1>3. ASSUME NEW n \in Node, PollCrc(n) PROVE TypeOK' /\ LineHeld'
  <2>1. /\ main' \in [Node -> {"idle", "crc", "callback", "transmit", "sending"}]
        /\ in_sync' \in [Node -> BOOLEAN]
        /\ \A k \in Node : main'[k] \in {"transmit", "sending"} => main'[k] = main[k]
    BY <1>0, <1>3 DEF PollCrc, TypeOK
  <2> QED
    BY <1>0, <1>3, <2>1 DEF PollCrc, TypeOK, LineHeld, lineVars, heard
<1>4. ASSUME NEW n \in Node, PollCallback(n) PROVE TypeOK' /\ LineHeld'
  <2> DEFINE Kept == /\ buf' \in [Node -> [Index -> Byte]]
                     /\ \A k \in Node : k # n => buf'[k] = buf[k]
  <2>1. Kept
    <3>1. {6, 7} \subseteq Index /\ {0, 1} \subseteq Byte
      BY PlBusAssumption, Word16 DEF Index, Byte
    <3>2. ASSUME NEW result \in {0, 1},
                 buf' = [buf EXCEPT ![n][6] = result, ![n][7] = 0]
          PROVE  buf' = [buf EXCEPT ![n] = [@ EXCEPT ![6] = result, ![7] = 0]]
      BY <1>0, <3>1, <3>2 DEF TypeOK
    <3>3. ASSUME NEW result \in {0, 1},
                 buf' = [buf EXCEPT ![n] = [@ EXCEPT ![6] = result, ![7] = 0]]
          PROVE  Kept
      BY <1>0, <3>1, <3>3 DEF TypeOK
    <3>4. CASE buf' = buf
      BY <1>0, <3>4 DEF TypeOK
    <3> QED
      BY <1>4, <3>2, <3>3, <3>4 DEF PollCallback
  <2>2. given' \in [Node -> Nat]
    <3>1. CASE given' = [given EXCEPT ![n] = @ + 1]
      BY <1>0, <3>1 DEF TypeOK
    <3> QED
      BY <1>0, <1>4, <3>1 DEF PollCallback, TypeOK
  <2> QED
    BY <1>0, <1>4, <2>1, <2>2 DEF PollCallback, TypeOK, LineHeld, lineVars, heard
<1>5. ASSUME NEW n \in Sender, NEW dst \in Dst, NEW p \in Payload,
             plbus_send(n, dst, p)
      PROVE  TypeOK' /\ LineHeld'
  <2>0. n \in Node /\ buf[n] \in [Index -> Byte]
    BY <1>0 DEF TypeOK
  <2>1. PICK memory \in Memory :
          buf' = [buf EXCEPT ![n] =
                    StoreCrc(Filled(buf[n], dst, p),
                             crc16(Covered(Filled(buf[n], dst, p), memory)))]
    BY <1>5 DEF plbus_send, Filled
  <2>2. /\ buf' \in [Node -> [Index -> Byte]]
        /\ HEADER + Size(buf'[n]) <= BufSize
        /\ \A k \in Node : k # n => buf'[k] = buf[k]
    BY <1>0, <2>0, <2>1, SendFills DEF TypeOK
  <2>3. sends' \in 0..MaxSends
    BY <1>0, <1>5, PlBusAssumption, SMTT(60) DEF plbus_send, TypeOK
  <2>4. \A k \in Node : main[k] \notin {"transmit", "sending"}
    BY <1>0, <1>5 DEF plbus_send, LineHeld
  <2> QED
    BY <1>0, <1>5, <2>0, <2>2, <2>3, <2>4 DEF plbus_send, TypeOK, LineHeld, heard
<1>6. ASSUME NEW n \in Sender, Transmit(n) PROVE TypeOK' /\ LineHeld'
  <2>0. n \in Node /\ buf[n] \in [Index -> Byte] /\ HEADER + Size(buf[n]) <= BufSize
    BY <1>0, <1>6 DEF TypeOK, LineHeld, Transmit
  <2>1. Size(buf[n]) \in Nat /\ HEADER \in Nat
    BY <2>0, SizeType DEF HEADER
  <2>2. \A i \in 1..(HEADER + Size(buf[n])) : buf[n][i - 1] \in Byte
    <3>1. BufSize \in Nat
      BY PlBusAssumption, Word16
    <3>2. \A i \in 1..(HEADER + Size(buf[n])) : i - 1 \in Index
      BY <2>0, <2>1, <3>1 DEF Index
    <3> QED
      BY <2>0, <3>2
  <2>3. [i \in 1..(HEADER + Size(buf[n])) |-> buf[n][i - 1]] \in Seq(Byte)
    BY <2>1, <2>2
  <2>4. wire' \in Seq(Byte) /\ sent' \subseteq Seq(Byte)
    BY <1>0, <1>6, <2>3 DEF Transmit, TypeOK
  <2> QED
    BY <1>0, <1>6, <2>4 DEF Transmit, TypeOK, LineHeld, heard
<1>7. ASSUME NEW n \in Sender, Transmitted(n) PROVE TypeOK' /\ LineHeld'
  BY <1>0, <1>7 DEF Transmitted, TypeOK, LineHeld, heard
<1>8. CASE UNCHANGED vars
  BY <1>0, <1>8 DEF TypeOK, LineHeld, vars
<1> QED
  BY <1>1, <1>2, <1>3, <1>4, <1>5, <1>6, <1>7, <1>8 DEF Next

\* A token is given to on_receive at most once: in_sync is reset before the
\* callback, and set again only by another token.
LEMMA TokensStep == IInv /\ [Next]_vars => TokensSpent'
<1> SUFFICES ASSUME IInv, [Next]_vars, NEW n \in Node PROVE Spent(n)'
  BY DEF TokensSpent
<1>0. /\ Spent(n)
      /\ given[n] \in Nat /\ tokens[n] \in Nat
      /\ TypeOK /\ Sender \subseteq Node
  BY PlBusAssumption DEF IInv, TokensSpent, TypeOK
<1>1. CASE plbus_put
  <2>1. main'[n] = main[n] /\ given'[n] = given[n]
    BY <1>1 DEF plbus_put
  <2>2. CASE Deaf(n)
    BY <1>0, <2>1, <2>2 DEF Deaf, Spent
  <2>3. ASSUME NEW byte, Syncs(n, byte) PROVE Spent(n)'
    BY <1>0, <2>1, <2>3 DEF Syncs, Spent
  <2>4. ASSUME NEW byte, Stores(n, byte) PROVE Spent(n)'
    BY <1>0, <2>1, <2>4 DEF Stores, Spent
  <2> QED
    BY <1>0, <1>1, <2>2, <2>3, <2>4, PutPerNode
<1>2. ASSUME NEW k \in Node, PollCheck(k) PROVE Spent(n)'
  BY <1>0, <1>2 DEF PollCheck, Spent, TypeOK, heard
<1>3. ASSUME NEW k \in Node, PollCrc(k) PROVE Spent(n)'
  <2>1. CASE k = n
    <3>1. \/ in_sync'[n] = FALSE /\ main'[n] = "callback"
          \/ in_sync'[n] = in_sync[n] /\ main'[n] = "idle"
      BY <1>0, <1>3, <2>1 DEF PollCrc, TypeOK
    <3> QED
      BY <1>0, <1>3, <2>1, <3>1 DEF PollCrc, Spent, heard
  <2>2. CASE k # n
    <3>1. in_sync'[n] = in_sync[n] /\ main'[n] = main[n]
      BY <1>0, <1>3, <2>2 DEF PollCrc, TypeOK
    <3> QED
      BY <1>0, <1>3, <3>1 DEF PollCrc, Spent, heard
  <2> QED
    BY <2>1, <2>2
<1>4. ASSUME NEW k \in Node, PollCallback(k) PROVE Spent(n)'
  <2>1. given'[n] = given[n] \/ (k = n /\ given'[n] = given[n] + 1)
    BY <1>0, <1>4 DEF PollCallback, TypeOK
  <2> QED
    BY <1>0, <1>4, <2>1, SMTT(60) DEF PollCallback, Spent, TypeOK, heard
<1>5. ASSUME NEW k \in Sender, NEW dst \in Dst, NEW p \in Payload,
             plbus_send(k, dst, p)
      PROVE  Spent(n)'
  BY <1>0, <1>5 DEF plbus_send, Spent, TypeOK, heard
<1>6. ASSUME NEW k \in Sender, Transmit(k) \/ Transmitted(k) PROVE Spent(n)'
  BY <1>0, <1>6 DEF Transmit, Transmitted, Spent, TypeOK, heard
<1>7. CASE UNCHANGED vars
  BY <1>0, <1>7 DEF vars, Spent
<1> QED
  BY <1>1, <1>2, <1>3, <1>4, <1>5, <1>6, <1>7 DEF Next

\* A frame is stored as it is heard, and nobody changes it between the checks
\* and the comparison: the interrupt stores behind it.
LEMMA FramesStep == IInv /\ [Next]_vars => FramesHeard'
<1> SUFFICES ASSUME IInv, [Next]_vars, NEW n \in Node \ Sender
             PROVE  HeardBy(n)' /\ Checked(n)'
  BY DEF FramesHeard
<1>0. /\ HeardBy(n) /\ Checked(n) /\ Spent(n)
      /\ TypeOK /\ Sender \subseteq Node
  BY PlBusAssumption DEF IInv, FramesHeard, TokensSpent
<1>t. /\ buf[n] \in [Index -> Byte] /\ rx_cnt[n] \in Nat /\ rx_cnt[n] < WORD
      /\ in_sync[n] \in BOOLEAN /\ since[n] \in Seq(Byte)
      /\ Len(since[n]) \in Nat /\ WORD \in Nat /\ WORD > 255 /\ BufSize \in Nat
      /\ {0, 1, 2, 3, 4, 5, 6, 7} \subseteq Index
  <2>1. WORD \in Nat /\ WORD > 255
    BY Word16
  <2> QED
    BY <1>0, <2>1, PlBusAssumption DEF TypeOK, Index
<1>1. CASE plbus_put
  <2>1. main'[n] = main[n]
    BY <1>1 DEF plbus_put
  <2>2. CASE Deaf(n)
    BY <1>0, <2>1, <2>2 DEF Deaf, HeardBy, Checked, Counted, ForUs
  <2>3. ASSUME NEW byte \in Byte, Syncs(n, byte)
        PROVE  HeardBy(n)' /\ Checked(n)'
    <3>1. main[n] # "crc"
      BY <1>0, <2>3 DEF Spent, Syncs
    <3>2. CASE byte = TOKEN
      <4>1. rx_cnt'[n] = 1 /\ since'[n] = <<byte>>
        BY <2>3, <3>2 DEF Syncs
      <4>2. \A i \in Index \ {0, 6, 7} : ~(i < 1)
        BY <1>t DEF Index
      <4> QED
        BY <2>1, <3>1, <4>1, <4>2 DEF HeardBy, Checked
    <3>3. CASE byte # TOKEN
      BY <1>0, <2>1, <2>3, <3>1, <3>3 DEF Syncs, HeardBy, Checked
    <3> QED
      BY <3>2, <3>3
  <2>4. ASSUME NEW byte \in Byte, Stores(n, byte)
        PROVE  HeardBy(n)' /\ Checked(n)'
    <3>1. since'[n] = Append(since[n], byte) /\ Len(since'[n]) = Len(since[n]) + 1
      BY <1>t, <2>4 DEF Stores
    <3> SUFFICES ASSUME Counted(n)' PROVE HeardBy(n)' /\ Checked(n)'
      BY DEF HeardBy, Checked
    <3>2. Counted(n) /\ Len(since[n]) + 1 < WORD
      BY <1>t, <3>1 DEF Counted
    <3>3. /\ rx_cnt[n] = Len(since[n])
          /\ rx_cnt[n] >= 1
          /\ \A i \in Index \ {0, 6, 7} : i < rx_cnt[n] => buf[n][i] = since[n][i + 1]
      BY <1>0, <2>4, <3>2 DEF HeardBy, Stores
    <3>4. rx_cnt'[n] = rx_cnt[n] + 1
      <4>1. rx_cnt[n] + 1 \in Nat /\ rx_cnt[n] + 1 < WORD
        BY <1>t, <3>2, <3>3
      <4>2. (rx_cnt[n] + 1) % WORD = rx_cnt[n] + 1
        BY <4>1, Word16
      <4> QED
        BY <2>4, <4>2 DEF Stores
    <3>5. \A i \in Index : i < rx_cnt[n] => buf'[n][i] = buf[n][i]
      <4>1. \A i \in Index : i < rx_cnt[n] => i # rx_cnt[n]
        BY <1>t DEF Index
      <4> QED
        BY <1>t, <2>4, <4>1 DEF Stores
    <3>6. rx_cnt[n] \in Index => buf'[n][rx_cnt[n]] = byte
      BY <1>t, <2>4 DEF Stores, Index
    <3>7. HeardBy(n)'
      <4>1. ASSUME NEW i \in Index \ {0, 6, 7}, i < rx_cnt'[n]
            PROVE  buf'[n][i] = since'[n][i + 1]
        <5>1. i \in Nat
          BY <1>t DEF Index
        <5>2. CASE i < rx_cnt[n]
          <6>1. since'[n][i + 1] = since[n][i + 1]
            BY <1>t, <3>1, <3>3, <5>1, <5>2
          <6> QED
            BY <3>3, <3>5, <5>2, <6>1
        <5>3. CASE i = rx_cnt[n]
          <6>1. since'[n][i + 1] = byte
            BY <1>t, <3>1, <3>3, <5>1, <5>3
          <6> QED
            BY <3>6, <5>3, <6>1
        <5> QED
          BY <1>t, <3>4, <4>1, <5>1, <5>2, <5>3
      <4>2. rx_cnt'[n] = Len(since'[n]) /\ rx_cnt'[n] >= 1
        BY <1>t, <3>1, <3>3, <3>4
      <4> QED
        BY <4>1, <4>2 DEF HeardBy
    <3>8. Checked(n)'
      <4> SUFFICES ASSUME main'[n] = "crc"
                   PROVE  ForUs(n)' /\ rx_cnt'[n] >= HEADER + Size(buf'[n])
        BY DEF Checked
      <4>1. ForUs(n) /\ rx_cnt[n] >= HEADER + Size(buf[n]) /\ Size(buf[n]) \in Nat
        BY <1>0, <1>t, <2>1, <3>2, SizeType DEF Checked
      <4>2. rx_cnt[n] >= 8
        BY <1>t, <4>1 DEF HEADER
      <4>3. buf'[n][1] = buf[n][1] /\ buf'[n][4] = buf[n][4] /\ buf'[n][5] = buf[n][5]
        BY <1>t, <3>5, <4>2
      <4>4. Size(buf'[n]) = Size(buf[n]) /\ Address(buf'[n]) = Address(buf[n])
        BY <4>3 DEF Size, Word, Address
      <4> QED
        BY <1>t, <3>4, <4>1, <4>4 DEF ForUs, HEADER
    <3> QED
      BY <3>7, <3>8
  <2> QED
    BY <1>0, <1>1, <2>2, <2>3, <2>4, PutPerNode
<1>2. ASSUME NEW k \in Node, PollCheck(k) PROVE HeardBy(n)' /\ Checked(n)'
  <2>1. UNCHANGED <<buf, rx_cnt, in_sync, since>>
    BY <1>2 DEF PollCheck, heard
  <2>2. CASE k = n
    <3>1. ForUs(n) /\ rx_cnt[n] = HEADER + Size(buf[n])
      BY <1>2, <1>t, <2>2, SizeType DEF PollCheck, Complete, HEADER
    <3> QED
      BY <1>0, <1>t, <2>1, <3>1 DEF HeardBy, Checked, Counted, ForUs
  <2>3. CASE k # n
    BY <1>0, <1>2, <2>1, <2>3
       DEF PollCheck, TypeOK, HeardBy, Checked, Counted, ForUs
  <2> QED
    BY <2>2, <2>3
<1>3. ASSUME NEW k \in Node, PollCrc(k) PROVE HeardBy(n)' /\ Checked(n)'
  <2>1. UNCHANGED <<buf, rx_cnt, since>>
    BY <1>3 DEF PollCrc, heard
  <2>2. /\ in_sync'[n] => in_sync[n]
        /\ main'[n] = "crc" => main[n] = "crc"
    BY <1>0, <1>3 DEF PollCrc, TypeOK
  <2> QED
    BY <1>0, <2>1, <2>2 DEF HeardBy, Checked, Counted, ForUs
<1>4. ASSUME NEW k \in Node, PollCallback(k) PROVE HeardBy(n)' /\ Checked(n)'
  <2>1. UNCHANGED <<rx_cnt, in_sync, since>>
    BY <1>4 DEF PollCallback, heard
  <2>2. /\ \A i \in Index \ {6, 7} : buf'[n][i] = buf[n][i]
        /\ main'[n] = "crc" => main[n] = "crc" /\ buf'[n] = buf[n]
    BY <1>0, <1>4, SMTT(60) DEF PollCallback, TypeOK
  <2> QED
    BY <1>0, <2>1, <2>2 DEF HeardBy, Checked, Counted, ForUs
<1>5. ASSUME NEW k \in Sender, NEW dst \in Dst, NEW p \in Payload,
             plbus_send(k, dst, p)
      PROVE  HeardBy(n)' /\ Checked(n)'
  <2>1. UNCHANGED <<rx_cnt, in_sync, since>> /\ buf'[n] = buf[n] /\ main'[n] = main[n]
    BY <1>0, <1>5 DEF plbus_send, TypeOK, heard
  <2> QED
    BY <1>0, <2>1 DEF HeardBy, Checked, Counted, ForUs
<1>6. ASSUME NEW k \in Sender, Transmit(k) \/ Transmitted(k)
      PROVE  HeardBy(n)' /\ Checked(n)'
  <2>1. UNCHANGED <<buf, rx_cnt, in_sync, since>> /\ main'[n] = main[n]
    BY <1>0, <1>6 DEF Transmit, Transmitted, TypeOK, heard
  <2> QED
    BY <1>0, <2>1 DEF HeardBy, Checked, Counted, ForUs
<1>7. CASE UNCHANGED vars
  BY <1>0, <1>7 DEF vars, HeardBy, Checked, Counted, ForUs
<1> QED
  BY <1>1, <1>2, <1>3, <1>4, <1>5, <1>6, <1>7 DEF Next

-----------------------------------------------------------------------------
(***************************************************************************)
(* Theorems.                                                               *)
(***************************************************************************)

\* plbus_init leaves a node that has heard nothing.
LEMMA InitInv == Init => IInv
<1> SUFFICES ASSUME Init PROVE IInv
  OBVIOUS
<1>0. WORD \in Nat /\ WORD > 255 /\ 0 \in Byte
  BY Word16 DEF Byte
<1>1. TypeOK
  <2>1. <<>> \in Seq(Byte)
    OBVIOUS
  <2>2. rx_cnt \in [Node -> 0..(WORD - 1)]
    BY <1>0 DEF Init
  <2>3. buf \in [Node -> [Index -> Byte]]
    BY <1>0 DEF Init
  <2>4. sends \in 0..MaxSends /\ lost \in 0..MaxLost /\ noise \in 0..MaxNoise
    BY PlBusAssumption DEF Init
  <2> QED
    BY <2>1, <2>2, <2>3, <2>4 DEF Init, TypeOK
<1>2. LineHeld
  BY DEF Init, LineHeld
<1>3. TokensSpent
  BY DEF Init, TokensSpent, Spent
<1>4. FramesHeard
  BY DEF Init, FramesHeard, HeardBy, Checked
<1> QED
  BY <1>1, <1>2, <1>3, <1>4 DEF IInv

\* The invariant holds in every reachable state.
THEOREM Invariance == Spec => []IInv
<1>1. IInv /\ [Next]_vars => IInv'
  BY TypeStep, TokensStep, FramesStep DEF IInv
<1> QED
  BY <1>1, InitInv, PTL DEF Spec

\* Every buffer holds bytes, every counter 16 bits, and only bytes are sent.
THEOREM TypeCorrect == Spec => []TypeOK
<1>1. IInv => TypeOK
  BY DEF IInv
<1> QED
  BY <1>1, Invariance, PTL

\* on_receive is called at most once for every token that started a frame.
THEOREM GivenOnce == Spec => []OncePerToken
<1>1. ASSUME IInv, NEW n \in Node PROVE given[n] <= tokens[n]
  <2>1. Spent(n) /\ given[n] \in Nat /\ tokens[n] \in Nat
    BY <1>1 DEF IInv, TokensSpent, TypeOK
  <2> QED
    BY <2>1 DEF Spent
<1>2. IInv => OncePerToken
  BY <1>1 DEF OncePerToken
<1> QED
  BY <1>2, Invariance, PTL

\* What is accepted was heard: all of it, with the size it says, and with the
\* node's own or the broadcast address.
LEMMA AcceptedFrame ==
  ASSUME IInv, NEW n \in Node \ Sender, main[n] = "crc", Counted(n)
  PROVE  /\ Len(since[n]) >= HEADER + Size(buf[n])
         /\ Size(buf[n]) \in Nat /\ Len(since[n]) \in Nat
         /\ \A i \in Stored(n) : buf[n][i] = since[n][i + 1]
         /\ since[n][2] \in {BROADCAST, n}
<1>1. HeardBy(n) /\ Checked(n) /\ Spent(n) /\ TypeOK
  BY DEF IInv, FramesHeard, TokensSpent
<1>2. in_sync[n] /\ rx_cnt[n] >= HEADER + Size(buf[n]) /\ ForUs(n)
  BY <1>1 DEF Spent, Checked
<1>3. /\ rx_cnt[n] = Len(since[n])
      /\ \A i \in Index \ {0, 6, 7} : i < rx_cnt[n] => buf[n][i] = since[n][i + 1]
  BY <1>1, <1>2 DEF HeardBy
<1>4. Size(buf[n]) \in Nat /\ Len(since[n]) \in Nat
  BY <1>1, SizeType DEF TypeOK
<1>5. \A i \in Stored(n) : i \in Index \ {0, 6, 7} /\ i < rx_cnt[n]
  BY <1>2, <1>3, <1>4 DEF Stored, HEADER
<1>6. 1 \in Stored(n)
  <2>1. 1 \in Index
    BY PlBusAssumption, Word16 DEF Index
  <2> QED
    BY <1>4, <2>1 DEF Stored, HEADER
<1>7. since[n][2] = buf[n][1]
  BY <1>3, <1>5, <1>6
<1> QED
  BY <1>2, <1>3, <1>4, <1>5, <1>7 DEF ForUs, Address

\* A node that does not transmit accepts only frames it has heard completely.
THEOREM AcceptsWhatItHeard == Spec => AcceptedWasHeard
<1>1. IInv /\ [Next]_vars =>
        [\A n \in Node \ Sender :
           Accepts(n) /\ Counted(n) =>
             /\ Len(since[n]) >= HEADER + Size(buf[n])
             /\ \A i \in Stored(n) : buf[n][i] = since[n][i + 1]]_vars
  BY AcceptedFrame DEF Accepts
<1> QED
  BY <1>1, Invariance, PTL DEF Spec, AcceptedWasHeard

\* A node that does not transmit accepts only frames with its own or the
\* broadcast address.
THEOREM AcceptsOwnAddress == Spec => AcceptedForUs
<1>1. ASSUME IInv, NEW n \in Node \ Sender, Accepts(n), Counted(n)
      PROVE  Len(since[n]) >= 2 /\ since[n][2] \in {BROADCAST, n}
  BY <1>1, AcceptedFrame DEF Accepts, HEADER
<1>2. IInv /\ [Next]_vars =>
        [\A n \in Node \ Sender :
           Accepts(n) /\ Counted(n) =>
             Len(since[n]) >= 2 /\ since[n][2] \in {BROADCAST, n}]_vars
  BY <1>1
<1> QED
  BY <1>2, Invariance, PTL DEF Spec, AcceptedForUs
=============================================================================
