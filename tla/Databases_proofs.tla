-------------------------- MODULE Databases_proofs --------------------------
(***************************************************************************)
(* Proofs about the databases of Common/hash_db.cpp and                    *)
(* Common/simple_db.c, for every set of keys, values and sizes.            *)
(***************************************************************************)
EXTENDS Databases, Arithmetic, FiniteSetTheorems, TLAPS

\* Write<T> is always called with the same type for a name.
OneSizePerKey == \A k \in Key : \A v, w \in ValuesOf[k] : Len(v) = Len(w)

\* Only text and 8 bit data are stored in a simple_db.
EightBit == Types \subseteq {0, 1}

-----------------------------------------------------------------------------
(***************************************************************************)
(* HashDB.  The lemmas are about any memory m of max cells; H are the      *)
(* offsets of its entries.                                                 *)
(***************************************************************************)
HashData(m, o) == [i \in 1..m[o + 1] |-> m[o + 1 + i]]
HashEnds(m, H) == [o \in H |-> o + 2 + m[o + 1]]

\* The entries follow each other up to the used size, each holds a value of its
\* key, and no key has two.
HashChain(m, max, H) ==
  /\ max \in Nat
  /\ m \in [0..(max + 2) -> Nat]
  /\ m[1] <= max
  /\ Linked(H, 2, m[1], HashEnds(m, H))
  /\ \A o \in H : m[o] \in Key /\ HashData(m, o) \in ValuesOf[m[o]]
  /\ \A o, x \in H : m[o] = m[x] => o = x

\* The loop over the entries, in memory m.
HashLoop(m, k) ==
  CHOOSE f : f = [o \in Nat |-> IF o >= m[1] \/ m[o] = k THEN o
                                ELSE f[o + 2 + m[o + 1]]]

LEMMA HashCells ==
  ASSUME NEW m, NEW max, NEW H, HashChain(m, max, H)
  PROVE  /\ m[1] \in Nat /\ m[1] >= 2 /\ m[1] <= max /\ max \in Nat
         /\ \A o \in Nat : o < m[1] => m[o] \in Nat /\ m[o + 1] \in Nat
         /\ \A o \in H : /\ o \in Nat /\ o >= 2 /\ o < m[1] /\ m[o + 1] \in Nat
                         /\ o + 2 + m[o + 1] <= m[1]
                         /\ HashEnds(m, H)[o] = o + 2 + m[o + 1]
<1>1. max \in Nat /\ m \in [0..(max + 2) -> Nat] /\ m[1] <= max
  BY DEF HashChain
<1>2. m[1] \in Nat /\ m[1] >= 2
  BY <1>1 DEF HashChain, Linked
<1>3. \A o \in Nat : o < m[1] => o \in 0..(max + 2) /\ o + 1 \in 0..(max + 2)
  BY <1>1, <1>2
<1>4. \A o \in Nat : o < m[1] => m[o] \in Nat /\ m[o + 1] \in Nat
  BY <1>1, <1>3
<1>5. ASSUME NEW o \in H
      PROVE  /\ o \in Nat /\ o >= 2 /\ o < m[1]
             /\ o + 2 + m[o + 1] <= m[1]
             /\ HashEnds(m, H)[o] = o + 2 + m[o + 1]
  <2>1. o \in Nat /\ o >= 2 /\ o < m[1]
    BY <1>2 DEF HashChain, Linked
  <2>2. HashEnds(m, H)[o] = o + 2 + m[o + 1]
    BY DEF HashEnds
  <2>3. HashEnds(m, H)[o] \in H \cup {m[1]} /\ \A x \in H : x \in Nat /\ x < m[1]
    BY <1>2 DEF HashChain, Linked
  <2>4. HashEnds(m, H)[o] <= m[1]
    BY <1>2, <2>3
  <2>5. o + 2 + m[o + 1] <= m[1]
    BY <2>2, <2>4, Zenon
  <2> QED
    BY <2>1, <2>2, <2>5, Zenon
<1>6. \A o \in H : m[o + 1] \in Nat
  BY <1>4, <1>5
<1> QED
  BY <1>1, <1>2, <1>4, <1>5, <1>6

\* The loop is well defined: every step of it goes forward.
LEMMA HashLoops ==
  ASSUME NEW m, NEW max, NEW H, HashChain(m, max, H), NEW k
  PROVE  HashLoop(m, k) = [o \in Nat |-> IF o >= m[1] \/ m[o] = k THEN o
                                         ELSE HashLoop(m, k)[o + 2 + m[o + 1]]]
<1> DEFINE U == m[1]
           stop == {o \in Nat : o >= U \/ m[o] = k}
           next == [o \in Nat |-> IF o < U THEN o + 2 + m[o + 1] ELSE 0]
           base == [o \in Nat |-> o]
           step == [o \in Nat |-> [v \in Nat |-> v]]
           Loop(f) == f = [o \in Nat |-> IF o >= m[1] \/ m[o] = k THEN o
                                         ELSE f[o + 2 + m[o + 1]]]
<1>0. U \in Nat /\ \A o \in Nat : o < U => m[o + 1] \in Nat
  BY HashCells
<1>1. Walk(stop, next, U)
  BY <1>0 DEF Walk
<1>2. base \in [Nat -> Nat] /\ step \in [Nat -> [Nat -> Nat]]
  OBVIOUS
<1>3. PICK f \in [Nat -> Nat] : Computed(f, stop, next, base, step)
  <2> HIDE DEF stop, next, base, step, U
  <2> QED
    BY <1>1, <1>2, WalkDefines
<1>4. \A o \in Nat \ stop : next[o] = o + 2 + m[o + 1] /\ next[o] \in Nat
  BY <1>0
<1>5. \A o \in Nat : f[o] = IF o >= U \/ m[o] = k THEN o ELSE f[o + 2 + m[o + 1]]
  BY <1>3, <1>4 DEF Computed
<1>6. Loop(f)
  BY <1>5
<1> QED
  BY <1>6 DEF HashLoop

\* It ends at the entry of the key, or at the end of the last entry when there
\* is none.
LEMMA HashScan ==
  ASSUME NEW m, NEW max, NEW H, HashChain(m, max, H), NEW k
  PROVE  \/ HashLoop(m, k)[2] = m[1] /\ \A o \in H : m[o] # k
         \/ HashLoop(m, k)[2] \in H /\ m[HashLoop(m, k)[2]] = k
<1> DEFINE U == m[1]
           at == HashLoop(m, k)
           match == {o \in H : m[o] = k}
           ends == HashEnds(m, H)
<1>1. U \in Nat
  BY HashCells
<1>2. \A o \in Nat : at[o] = IF o >= U \/ m[o] = k THEN o ELSE at[o + 2 + m[o + 1]]
  BY HashLoops
<1> HIDE DEF at
<1>3. Linked(H, 2, U, ends)
  BY DEF HashChain
<1>4. Searches(at, H, U, ends, match, U)
  <2> SUFFICES ASSUME NEW o \in H
               PROVE  at[o] = IF m[o] = k THEN o
                              ELSE IF ends[o] = U THEN U ELSE at[ends[o]]
    BY DEF Searches
  <2>1. o \in Nat /\ o < U /\ ends[o] = o + 2 + m[o + 1]
    BY HashCells
  <2>2. at[U] = U
    BY <1>1, <1>2
  <2>3. at[o] = IF m[o] = k THEN o ELSE at[o + 2 + m[o + 1]]
    BY <1>1, <1>2, <2>1
  <2> QED
    BY <2>1, <2>2, <2>3
<1>5. 2 \in H => \/ at[2] = U /\ H \cap match = {}
                 \/ at[2] \in H \cap match
  <2> HIDE DEF match, U, ends
  <2> QED
    BY <1>3, <1>4, ChainSearch
<1>6. CASE 2 \in H
  BY <1>5, <1>6 DEF at
<1>7. CASE 2 \notin H
  <2>1. U = 2 /\ H = {}
    BY <1>1, <1>3, <1>7 DEF Linked
  <2>2. at[2] = U
    BY <1>2, <2>1
  <2> QED
    BY <2>1, <2>2 DEF at
<1> QED
  BY <1>6, <1>7

\* write_int: what it leaves in memory, at offset o.
HashWritten(m, max, o, k, v) ==
  [c \in 0..(max + 2) |->
     CASE c = o -> k
       [] c = o + 1 -> Len(v)
       [] c \in (o + 2)..(o + 2 + Len(v) - 1) -> v[c - o - 1]
       [] c = 1 /\ ~(o < m[1]) -> m[1] + 2 + Len(v)
       [] OTHER -> m[c]]

\* The memory n is m with the entry at o written.
HashPut(m, n, max, o, k, v) ==
  /\ n \in [0..(max + 2) -> Nat]
  /\ n[o] = k /\ n[o + 1] = Len(v)
  /\ n[1] = IF o < m[1] THEN m[1] ELSE m[1] + 2 + Len(v)
  /\ \A i \in 1..Len(v) : n[o + 1 + i] = v[i]
  /\ \A c \in 0..(max + 2) : c # 1 /\ (c < o \/ c >= o + 2 + Len(v)) => n[c] = m[c]

\* The cells write_int changes, and those it leaves alone.
LEMMA HashWrittenCells ==
  ASSUME NEW max \in Nat, NEW m \in [0..(max + 2) -> Nat], NEW o \in Nat, o >= 2,
         NEW k \in Nat, NEW v \in Seq(Nat),
         o + 2 + Len(v) <= max
  PROVE  HashPut(m, HashWritten(m, max, o, k, v), max, o, k, v)
<1> DEFINE n == HashWritten(m, max, o, k, v)
           L == Len(v)
           Cells == 0..(max + 2)
<1>1. L \in Nat /\ m[1] \in Nat
  OBVIOUS
<1>2. \A c \in Cells :
        n[c] = IF c = o THEN k
               ELSE IF c = o + 1 THEN L
               ELSE IF c \in (o + 2)..(o + 2 + L - 1) THEN v[c - o - 1]
               ELSE IF c = 1 /\ ~(o < m[1]) THEN m[1] + 2 + L
               ELSE m[c]
  BY DEF HashWritten
<1>3. n = [c \in Cells |-> n[c]]
  BY DEF HashWritten
<1>4. o \in Cells /\ o + 1 \in Cells /\ 1 \in Cells
  BY <1>1
<1> HIDE DEF n, L
<1>5. n[o] = k
  BY <1>2, <1>4
<1>6. n[o + 1] = L
  BY <1>2, <1>4, o + 1 # o
<1>7. n[1] = IF o < m[1] THEN m[1] ELSE m[1] + 2 + L
  <2>1. 1 # o /\ 1 # o + 1 /\ 1 \notin (o + 2)..(o + 2 + L - 1)
    BY <1>1
  <2> QED
    BY <1>2, <1>4, <2>1
<1>8. ASSUME NEW i \in 1..L PROVE n[o + 1 + i] = v[i]
  <2> DEFINE c == o + 1 + i
  <2>1. c \in Nat /\ c <= o + 1 + L /\ c # o /\ c # o + 1
    BY <1>1
  <2>2. c \in Cells
    BY <1>1, <2>1 DEF L
  <2>3. c \in (o + 2)..(o + 2 + L - 1) /\ c - o - 1 = i
    BY <1>1
  <2> HIDE DEF c
  <2>4. n[c] = v[c - o - 1]
    BY <1>2, <2>1, <2>2, <2>3 DEF c
  <2> QED
    BY <2>3, <2>4 DEF c
<1>9. ASSUME NEW c \in Cells, c # 1, c < o \/ c >= o + 2 + L PROVE n[c] = m[c]
  <2>1. c # o /\ c # o + 1 /\ c \notin (o + 2)..(o + 2 + L - 1)
    BY <1>1, <1>9
  <2> QED
    BY <1>2, <1>9, <2>1
<1>10. \A c \in Cells : n[c] \in Nat
  <2> SUFFICES ASSUME NEW c \in Cells PROVE n[c] \in Nat
    OBVIOUS
  <2>1. CASE c \in (o + 2)..(o + 2 + L - 1)
    <3>1. c - o - 1 \in 1..L /\ c # o /\ c # o + 1
      BY <1>1, <2>1
    <3>2. \A i \in 1..L : v[i] \in Nat
      BY SMTT(60) DEF L
    <3>3. v[c - o - 1] \in Nat
      BY <3>1, <3>2
    <3>4. n[c] = v[c - o - 1]
      BY <1>2, <2>1, <3>1
    <3> QED
      BY <3>3, <3>4
  <2>2. CASE c \notin (o + 2)..(o + 2 + L - 1)
    <3>1. m[c] \in Nat /\ m[1] + 2 + L \in Nat
      BY <1>1, SMTT(60)
    <3>2. n[c] \in {k, L, m[1] + 2 + L, m[c]}
      BY <1>2, <2>2
    <3> QED
      BY <1>1, <3>1, <3>2
  <2> QED
    BY <2>1, <2>2
<1> QED
  BY <1>3, <1>5, <1>6, <1>7, <1>8, <1>9, <1>10 DEF n, L, HashPut

\* The loop for k ended at o.
HashSpot(m, H, k, o) ==
  /\ o < m[1] => o \in H /\ m[o] = k
  /\ ~(o < m[1]) => o = m[1] /\ \A x \in H : m[x] # k

\* The entry at o holds the value, all others are as they were.
HashKept(m, n, H, k, v, o) ==
  /\ n[o] = k /\ HashData(n, o) = v
  /\ \A x \in H : x # o => n[x] = m[x] /\ HashData(n, x) = HashData(m, x)

\* Writing where the loop ended keeps the chain, with the entry at o holding
\* the value and all other entries as they were.
LEMMA HashWrites ==
  ASSUME OneSizePerKey,
         NEW m, NEW n, NEW max, NEW H, HashChain(m, max, H),
         NEW k, k \in Key, NEW v, v \in ValuesOf[k],
         m[1] + 2 + Len(v) <= max,
         NEW o, HashSpot(m, H, k, o), HashPut(m, n, max, o, k, v)
  PROVE  HashChain(n, max, H \cup {o}) /\ HashKept(m, n, H, k, v, o)
<1> DEFINE U == m[1]
           found == o < m[1]
           L == Len(v)
           G == H \cup {o}
           Cells == 0..(max + 2)
<1>0. U \in Nat /\ U >= 2 /\ U <= max /\ max \in Nat /\ U + 2 + L <= max
  BY HashCells
<1>1. \A x \in H : /\ x \in Nat /\ x >= 2 /\ x < U /\ m[x + 1] \in Nat
                   /\ x + 2 + m[x + 1] <= U
                   /\ HashEnds(m, H)[x] = x + 2 + m[x + 1]
  BY HashCells
<1>2. v \in Seq(Nat) /\ L \in Nat
  BY DatabasesAssumption DEF Hash!Parameters
<1>3. \A x, y \in H : x < y => x + 2 + m[x + 1] <= y
  BY <1>1 DEF HashChain, Linked
<1>4. o \in Nat /\ o >= 2 /\ o <= U /\ (IF found THEN o \in H ELSE o = U /\ o \notin H)
  BY <1>0, <1>1 DEF HashSpot
<1>5. found => m[o + 1] = L
  <2>1. found => HashData(m, o) \in ValuesOf[k]
    BY DEF HashChain, HashSpot
  <2>2. found => Len(HashData(m, o)) = L
    BY <2>1 DEF OneSizePerKey
  <2> QED
    BY <1>1, <1>4, <2>2 DEF HashData
<1>6. n \in [Cells -> Nat]
  BY DEF HashPut
<1>7. /\ n[o] = k /\ n[o + 1] = L
      /\ n[1] = IF found THEN U ELSE U + 2 + L
  BY DEF HashPut
<1>8. \A i \in 1..L : n[o + 1 + i] = v[i]
  BY DEF HashPut
<1>9. \A c \in Cells : c # 1 /\ (c < o \/ c >= o + 2 + L) => n[c] = m[c]
  BY DEF HashPut
<1>92. HashData(n, o) = v
  BY <1>2, <1>7, <1>8 DEF HashData
<1>93. /\ \A x \in H : /\ HashEnds(m, H)[x] \in H \cup {U}
                       /\ m[x] \in Key /\ HashData(m, x) \in ValuesOf[m[x]]
       /\ 2 \in H \cup {U}
       /\ \A x, y \in H : m[x] = m[y] => x = y
  BY DEF HashChain, Linked
<1>94. \A x \in H : x # o => m[x] # k
  BY <1>93 DEF HashSpot
<1> HIDE DEF U, L, found
\* The other entries.
<1>10. ASSUME NEW x \in H, x # o
       PROVE  n[x] = m[x] /\ n[x + 1] = m[x + 1] /\ HashData(n, x) = HashData(m, x)
  <2> DEFINE e == x + 2 + m[x + 1]
  <2>0. x \in Nat /\ m[x + 1] \in Nat /\ x >= 2 /\ e <= U
    BY <1>1
  <2>1. e <= o \/ o + 2 + L <= x
    <3>1. CASE x < o /\ o \in H
      BY <1>3, <3>1
    <3>2. CASE x > o /\ o \in H
      <4>1. found
        BY <1>4, <3>2
      <4>2. m[o + 1] = L
        BY <1>5, <4>1
      <4> QED
        BY <1>3, <1>4, <2>0, <3>2, <4>2
    <3>3. CASE o \notin H
      <4>1. o = U
        BY <1>4, <3>3
      <4> QED
        BY <2>0, <4>1
    <3> QED
      BY <1>4, <1>10, <2>0, <3>1, <3>2, <3>3
  <2>2. ASSUME NEW c \in x..(x + 1 + m[x + 1]) PROVE n[c] = m[c]
    <3>1. c \in Nat /\ c >= x /\ c < e
      BY <2>0
    <3>2. c \in Cells /\ c # 1 /\ (c < o \/ c >= o + 2 + L)
      BY <1>0, <1>2, <1>4, <2>0, <2>1, <3>1, SMTT(60)
    <3> QED
      BY <1>9, <3>2
  <2>3. n[x] = m[x] /\ n[x + 1] = m[x + 1]
    BY <2>0, <2>2
  <2>4. \A i \in 1..m[x + 1] : n[x + 1 + i] = m[x + 1 + i]
    BY <2>0, <2>2
  <2> QED
    BY <2>3, <2>4 DEF HashData
<1>12. Linked(G, 2, n[1], HashEnds(n, G))
  <2> DEFINE ends == HashEnds(n, G)
             old == HashEnds(m, H)
  <2>1. \A x \in G : ends[x] = x + 2 + n[x + 1]
    BY DEF HashEnds
  <2>2. ASSUME NEW x \in H, x # o PROVE ends[x] = old[x] /\ x < old[x]
    <3>1. n[x + 1] = m[x + 1] /\ x \in G
      BY <1>10, <2>2
    <3>2. ends[x] = x + 2 + m[x + 1]
      BY <2>1, <3>1
    <3>3. old[x] = x + 2 + m[x + 1] /\ x \in Nat /\ m[x + 1] \in Nat
      BY <1>1
    <3>4. x < x + 2 + m[x + 1]
      BY <3>3
    <3> QED
      BY <3>2, <3>3, <3>4
  <2>3. ends[o] = o + 2 + L
    BY <1>7, <2>1
  <2>4. /\ \A x \in H : old[x] \in Nat /\ x < old[x] /\ old[x] \in H \cup {U}
        /\ H \subseteq 2..(U - 1)
        /\ \A x, y \in H : x < y => old[x] <= y
    <3> HIDE DEF old
    <3>1. \A x \in H : x \in Nat /\ x >= 2 /\ x < U
      BY <1>1
    <3>2. \A x \in H : m[x + 1] \in Nat /\ old[x] = x + 2 + m[x + 1]
      BY <1>1 DEF old
    <3>3. \A x \in H : old[x] \in Nat /\ x < old[x]
      BY <3>1, <3>2
    <3>4. \A x \in H : old[x] \in H \cup {U}
      BY <1>93 DEF old
    <3>5. H \subseteq 2..(U - 1)
      BY <1>0, <3>1
    <3>6. \A x, y \in H : x < y => old[x] <= y
      BY <1>3, <3>2
    <3> QED
      BY <3>3, <3>4, <3>5, <3>6
  <2>5. ends \in [G -> Nat]
    <3>1. \A x \in G : ends[x] \in Nat
      <4> HIDE DEF ends, old
      <4>1. ends[o] \in Nat
        BY <1>2, <1>4, <2>3
      <4>2. \A x \in H : x # o => ends[x] = old[x]
        BY <2>2
      <4>3. \A x \in H : old[x] \in Nat
        BY <2>4
      <4> QED
        BY <4>1, <4>2, <4>3
    <3> QED
      BY <3>1 DEF HashEnds
  <2>6. CASE found
    <3>1. G = H /\ n[1] = U /\ ends[o] = old[o]
      BY <1>1, <1>4, <1>5, <1>7, <2>3, <2>6
    <3>2. \A x \in H : ends[x] = old[x]
      BY <2>2, <3>1
    <3> HIDE DEF ends, old
    <3> QED
      BY <1>0, <1>93, <2>4, <2>5, <3>1, <3>2 DEF Linked, ends
  <2>7. CASE ~found
    <3>1. o = U /\ n[1] = U + 2 + L /\ ends[o] = n[1] /\ n[1] \in Nat
      BY <1>0, <1>2, <1>4, <1>7, <2>3, <2>7
    <3> HIDE DEF ends, old
    <3>21. \A x \in H : x < U /\ x \in Nat
      BY <1>1
    <3>22. \A x \in H : x # o => ends[x] = old[x]
      BY <2>2
    <3>2. \A x \in H : x < U /\ x \in Nat /\ ends[x] = old[x]
      BY <1>4, <2>7, <3>21, <3>22
    <3>3. G \subseteq 2..(n[1] - 1) /\ 2 \in G \cup {n[1]}
      BY <1>0, <1>2, <1>93, <2>4, <3>1
    <3>4. \A x \in G : x < ends[x] /\ ends[x] \in G \cup {n[1]}
      BY <1>0, <1>2, <2>4, <3>1, <3>2
    <3>5. \A x, y \in G : x < y => ends[x] <= y
      BY <1>0, <1>2, <2>4, <3>1, <3>2
    <3> QED
      BY <2>5, <3>1, <3>3, <3>4, <3>5 DEF Linked, ends
  <2> QED
    BY <2>6, <2>7
<1>13. n[1] <= max
  BY <1>0, <1>2, <1>7
<1>14. \A x \in G : n[x] \in Key /\ HashData(n, x) \in ValuesOf[n[x]]
  BY <1>7, <1>10, <1>92, <1>93
<1>15. \A x, y \in G : n[x] = n[y] => x = y
  BY <1>7, <1>10, <1>93, <1>94
<1>16. HashChain(n, max, G)
  BY <1>0, <1>6, <1>12, <1>13, <1>14, <1>15 DEF HashChain
<1> QED
  BY <1>7, <1>10, <1>92, <1>16 DEF HashKept

\* Where read_int and write_int stop, and the map the memory m stands for.
HashAt(m, k) == HashLoop(m, k)[2]
HashMap(m) ==
  [k \in Key |-> IF HashAt(m, k) < m[1] THEN HashData(m, HashAt(m, k)) ELSE Absent]

\* The loop finds the entry of a key exactly when there is one.
LEMMA HashFinds ==
  ASSUME NEW m, NEW max, NEW H, HashChain(m, max, H), NEW k
  PROVE  /\ HashAt(m, k) < m[1] => HashAt(m, k) \in H /\ m[HashAt(m, k)] = k
         /\ ~(HashAt(m, k) < m[1]) => HashAt(m, k) = m[1] /\ \A o \in H : m[o] # k
         /\ \A o \in H : m[o] = k => HashAt(m, k) < m[1] /\ HashAt(m, k) = o
<1>1. m[1] \in Nat /\ \A o \in H : o \in Nat /\ o < m[1]
  BY HashCells
<1>2. \/ HashAt(m, k) = m[1] /\ \A o \in H : m[o] # k
      \/ HashAt(m, k) \in H /\ m[HashAt(m, k)] = k
  BY HashScan DEF HashAt
<1>3. \A o, x \in H : m[o] = m[x] => o = x
  BY DEF HashChain
<1> QED
  BY <1>1, <1>2, <1>3

\* Writing changes the map at the key and nowhere else.
LEMMA HashMapWritten ==
  ASSUME OneSizePerKey,
         NEW m, NEW n, NEW max, NEW H, HashChain(m, max, H),
         NEW k \in Key, NEW v \in ValuesOf[k],
         m[1] + 2 + Len(v) <= max,
         HashPut(m, n, max, HashAt(m, k), k, v)
  PROVE  /\ \E G : HashChain(n, max, G)
         /\ HashMap(n) = [HashMap(m) EXCEPT ![k] = v]
<1> DEFINE o == HashAt(m, k)
<1>1. HashSpot(m, H, k, o)
  BY HashFinds DEF HashSpot
<1>2. HashChain(n, max, H \cup {o}) /\ HashKept(m, n, H, k, v, o)
  <2>1. HashPut(m, n, max, o, k, v)
    OBVIOUS
  <2> HIDE DEF o
  <2> QED
    BY <1>1, <2>1, HashWrites
<1> HIDE DEF o
<1> USE DEF HashKept
<1>3. HashAt(n, k) < n[1] /\ HashAt(n, k) = o
  BY <1>2, HashFinds
<1>4. ASSUME NEW j \in Key, j # k PROVE HashMap(n)[j] = HashMap(m)[j]
  <2>1. CASE HashAt(m, j) < m[1]
    <3>1. HashAt(m, j) \in H /\ m[HashAt(m, j)] = j
      BY <2>1, HashFinds
    <3>2. HashAt(m, j) # o
      <4>1. m[1] \in Nat /\ \A x \in H : x \in Nat /\ x < m[1]
        BY HashCells
      <4> QED
        BY <1>1, <1>4, <3>1, <4>1 DEF HashSpot
    <3>3. n[HashAt(m, j)] = j /\ HashData(n, HashAt(m, j)) = HashData(m, HashAt(m, j))
      BY <1>2, <3>1, <3>2
    <3>4. HashAt(n, j) < n[1] /\ HashAt(n, j) = HashAt(m, j)
      BY <1>2, <3>1, <3>3, HashFinds
    <3> QED
      BY <2>1, <3>3, <3>4 DEF HashMap
  <2>2. CASE ~(HashAt(m, j) < m[1])
    <3>1. \A x \in H : m[x] # j
      BY <2>2, HashFinds
    <3>2. \A x \in H \cup {o} : n[x] # j
      BY <1>2, <1>4, <3>1
    <3>3. ~(HashAt(n, j) < n[1])
      BY <1>2, <3>2, HashFinds
    <3> QED
      BY <2>2, <3>3 DEF HashMap
  <2> QED
    BY <2>1, <2>2
<1>5. HashMap(n)[k] = v
  BY <1>2, <1>3 DEF HashMap
<1>6. HashMap(n) = [HashMap(m) EXCEPT ![k] = v]
  BY <1>4, <1>5 DEF HashMap
<1> QED
  BY <1>2, <1>6

-----------------------------------------------------------------------------
(***************************************************************************)
(* HashDB: every step keeps the chain and is a step of the map.            *)
(***************************************************************************)
HashInv == Hash!TypeOK /\ \E H : HashChain(mem, max_size, H)

\* Hash!Store, for any memory.
HashStore(m, max) ==
  [k \in Key |->
     IF HashAt(m, k) < m[1]
     THEN [i \in 1..m[HashAt(m, k) + 1] |->
             IF HashAt(m, k) + 1 + i \in 0..(max + 2) THEN m[HashAt(m, k) + 1 + i] ELSE 0]
     ELSE Absent]

LEMMA HashScanIs ==
  /\ \A k : Hash!Scan(k) = HashAt(mem, k)
  /\ \A k : Hash!Found(k) <=> HashAt(mem, k) < mem[1]
  /\ Hash!Store = HashStore(mem, max_size)
  /\ Hash!Store' = HashStore(mem', max_size')
<1>1. \A k : Hash!Scan(k) = HashAt(mem, k)
  BY DEF Hash!Scan, Hash!Used, Hash!NameAt, Hash!SizeAt, Hash!HDR, HashAt, HashLoop
<1>2. \A k : Hash!Scan(k)' = HashAt(mem', k)
  BY DEF Hash!Scan, Hash!Used, Hash!NameAt, Hash!SizeAt, Hash!HDR, HashAt, HashLoop
<1>3. \A k : Hash!Found(k) <=> HashAt(mem, k) < mem[1]
  BY <1>1 DEF Hash!Found, Hash!Used
<1>4. \A k : Hash!Found(k)' <=> HashAt(mem', k) < mem'[1]
  BY <1>2 DEF Hash!Found, Hash!Used
<1>5. Hash!Store = HashStore(mem, max_size)
  BY <1>1, <1>3 DEF Hash!Store, Hash!DataAt, Hash!SizeAt, Hash!Cell, Hash!HDR, HashStore
<1>6. Hash!Store' = HashStore(mem', max_size')
  BY <1>2, <1>4 DEF Hash!Store, Hash!DataAt, Hash!SizeAt, Hash!Cell, Hash!HDR, HashStore
<1> QED
  BY <1>1, <1>3, <1>5, <1>6

\* What a read copies lies inside the block.
LEMMA HashStoreIsMap ==
  ASSUME NEW m, NEW max, NEW H, HashChain(m, max, H)
  PROVE  HashStore(m, max) = HashMap(m)
<1> SUFFICES ASSUME NEW k \in Key PROVE HashStore(m, max)[k] = HashMap(m)[k]
  BY DEF HashStore, HashMap
<1>1. CASE HashAt(m, k) < m[1]
  <2> DEFINE o == HashAt(m, k)
  <2>1. o \in H
    BY <1>1, HashFinds
  <2>2. /\ o \in Nat /\ m[o + 1] \in Nat /\ o + 2 + m[o + 1] <= m[1]
        /\ m[1] \in Nat /\ m[1] <= max /\ max \in Nat
    BY <2>1, HashCells
  <2> HIDE DEF o
  <2>3. \A i \in 1..m[o + 1] : o + 1 + i \in 0..(max + 2)
    BY <2>2
  <2> QED
    BY <1>1, <2>3 DEF HashStore, HashMap, HashData, o
<1>2. CASE ~(HashAt(m, k) < m[1])
  BY <1>2 DEF HashStore, HashMap
<1> QED
  BY <1>1, <1>2

\* The map holds values of the keys.
LEMMA HashMapValues ==
  ASSUME NEW m, NEW max, NEW H, HashChain(m, max, H), NEW k \in Key
  PROVE  /\ HashAt(m, k) < m[1] =>
              /\ HashMap(m)[k] = HashData(m, HashAt(m, k))
              /\ HashMap(m)[k] \in HashValue /\ HashMap(m)[k] # Absent
         /\ ~(HashAt(m, k) < m[1]) => HashMap(m)[k] = Absent
<1>1. ValuesOf[k] \subseteq HashValue /\ Absent \notin HashValue
  BY DatabasesAssumption DEF Hash!Parameters
<1>2. HashAt(m, k) < m[1] => HashData(m, HashAt(m, k)) \in ValuesOf[k]
  BY HashFinds, SMTT(60) DEF HashChain
<1> QED
  BY <1>1, <1>2 DEF HashMap

\* The steps of a map whose contents go from s to t.
MapStep(s, t) ==
  \/ answer' = [status |-> "nospace", value |-> Absent] /\ t = s
  \/ \E k \in Key :
       \/ /\ answer' = [status |-> "ok", value |-> Absent]
          /\ \E v \in HashValue \cup Simple!Value : t = [s EXCEPT ![k] = v]
       \/ /\ answer' = [status |-> "exists", value |-> Absent]
          /\ s[k] # Absent /\ t = s
       \/ /\ answer' = [status |-> "ok", value |-> Absent]
          /\ s[k] # Absent /\ t = [s EXCEPT ![k] = Absent]
       \/ /\ answer' = [status |-> "absent", value |-> Absent]
          /\ s[k] = Absent /\ t = s
       \/ /\ s[k] # Absent
          /\ \/ answer' = [status |-> "ok", value |-> s[k]]
             \/ answer' = [status |-> "mismatch", value |-> Absent]
          /\ t = s

LEMMA HashInit ==
  ASSUME Hash!Init
  PROVE  HashInv /\ Hash!Store = [k \in Key |-> Absent]
<1>1. max_size \in Nat /\ max_size >= 2 /\ max_size \in MaxSizes
  BY DatabasesAssumption DEF Hash!Init, Hash!Parameters
<1>2. mem = [c \in 0..(max_size + 2) |-> IF c = 1 THEN 2 ELSE 0]
  BY DEF Hash!Init, Hash!Cell, Hash!HDR
<1>3. mem \in [0..(max_size + 2) -> Nat] /\ mem[1] = 2
  BY <1>1, <1>2
<1>4. HashChain(mem, max_size, {})
  BY <1>1, <1>3 DEF HashChain, HashEnds, Linked
<1>5. \A k : ~(HashAt(mem, k) < mem[1])
  BY <1>4, HashFinds
<1>6. Hash!Store = [k \in Key |-> Absent]
  BY <1>5, HashScanIs DEF HashStore
<1>7. Hash!TypeOK
  BY <1>1, <1>3 DEF Hash!Init, Hash!TypeOK, Hash!Cell, Hash!HDR
<1> QED
  BY <1>4, <1>6, <1>7 DEF HashInv

LEMMA HashSteps ==
  ASSUME OneSizePerKey, HashInv, Hash!Next
  PROVE  HashInv' /\ MapStep(Hash!Store, Hash!Store')
<1>1. PICK H : HashChain(mem, max_size, H)
  BY DEF HashInv
<1>2. Hash!Store = HashMap(mem)
  BY <1>1, HashScanIs, HashStoreIsMap
<1>3. max_size' = max_size /\ max_size \in MaxSizes
  BY DEF Hash!Next, HashInv, Hash!TypeOK
<1>4. max_size \in Nat /\ mem \in [0..(max_size + 2) -> Nat]
  BY <1>1 DEF HashChain
<1>5. ASSUME mem' = mem, NEW st \in {"ok", "nospace", "absent", "mismatch"},
             NEW a \in HashValue \cup {Absent},
             answer' = [status |-> st, value |-> a]
      PROVE  HashInv' /\ Hash!Store' = Hash!Store
  <2>1. HashChain(mem', max_size', H)
    BY <1>1, <1>3, <1>5
  <2>2. Hash!Store' = Hash!Store
    BY <1>3, <1>5, HashScanIs
  <2>3. Hash!TypeOK'
    BY <1>3, <1>4, <1>5 DEF Hash!TypeOK, Hash!Cell, Hash!HDR
  <2> QED
    BY <2>1, <2>2, <2>3 DEF HashInv
<1>6. ASSUME NEW k \in Key, NEW v \in ValuesOf[k], Hash!write_int(k, v)
      PROVE  HashInv' /\ MapStep(Hash!Store, Hash!Store')
  <2>1. CASE ~Hash!Space(v)
    <3>1. mem' = mem /\ answer' = [status |-> "nospace", value |-> Absent]
      BY <1>6, <2>1 DEF Hash!write_int, Hash!Reply
    <3> QED
      BY <1>5, <3>1 DEF MapStep
  <2>2. CASE Hash!Space(v)
    <3>1. /\ mem' = HashWritten(mem, max_size, HashAt(mem, k), k, v)
          /\ answer' = [status |-> "ok", value |-> Absent]
      BY <1>6, <2>2, HashScanIs
      DEF Hash!write_int, Hash!WriteEntry, Hash!Cell, Hash!HDR, Hash!Used,
          Hash!Reply, HashWritten
    <3>2. mem[1] + 2 + Len(v) <= max_size
      BY <2>2 DEF Hash!Space, Hash!Used, Hash!HDR
    <3>3. v \in Seq(Nat) /\ v \in HashValue /\ k \in Nat
      BY DatabasesAssumption DEF Hash!Parameters
    <3>4. HashPut(mem, mem', max_size, HashAt(mem, k), k, v)
      <4> DEFINE o == HashAt(mem, k)
      <4>1. /\ mem[1] \in Nat /\ mem[1] >= 2 /\ \A x \in H : x \in Nat /\ x >= 2
            /\ o \in H \cup {mem[1]}
        BY <1>1, HashCells, HashFinds
      <4>2. o \in Nat /\ o >= 2
        BY <4>1
      <4>3. o <= mem[1]
        <5>1. o < mem[1] \/ o = mem[1]
          BY <1>1, HashFinds
        <5> QED
          BY <4>1, <4>2, <5>1
      <4> HIDE DEF o
      <4>4. Len(v) \in Nat
        BY <3>3
      <4>5. o + 2 + Len(v) <= max_size
        BY <1>4, <3>2, <4>1, <4>2, <4>3, <4>4
      <4> QED
        BY <1>4, <3>1, <3>3, <4>2, <4>5, HashWrittenCells DEF o
    <3>5. /\ \E G : HashChain(mem', max_size, G)
          /\ HashMap(mem') = [HashMap(mem) EXCEPT ![k] = v]
      BY <1>1, <3>2, <3>4, HashMapWritten
    <3>6. Hash!Store' = HashMap(mem')
      BY <1>3, <3>5, HashScanIs, HashStoreIsMap
    <3>7. Hash!TypeOK'
      <4>1. mem' \in [0..(max_size' + 2) -> Nat]
        BY <1>3, <3>4 DEF HashPut
      <4> QED
        BY <1>3, <3>1, <4>1 DEF Hash!TypeOK, Hash!Cell, Hash!HDR
    <3> QED
      BY <1>2, <1>3, <3>1, <3>3, <3>5, <3>6, <3>7 DEF HashInv, MapStep
  <2> QED
    BY <2>1, <2>2
<1>7. ASSUME NEW k \in Key, NEW size, Hash!read_int(k, size)
      PROVE  HashInv' /\ MapStep(Hash!Store, Hash!Store')
  <2> DEFINE S == Hash!Store
  <2>0. mem' = mem
    BY <1>7 DEF Hash!read_int
  <2>1. CASE ~Hash!Found(k)
    <3>1. answer' = [status |-> "absent", value |-> Absent]
      BY <1>7, <2>1 DEF Hash!read_int, Hash!Reply
    <3>2. S[k] = Absent
      BY <1>1, <1>2, <2>1, HashScanIs, HashMapValues
    <3> QED
      BY <1>5, <2>0, <3>1, <3>2 DEF MapStep
  <2>2. CASE Hash!Found(k)
    <3>1. S[k] # Absent /\ S[k] \in HashValue
      BY <1>1, <1>2, <2>2, HashScanIs, HashMapValues
    <3>2. S[k] = Hash!DataAt(Hash!Scan(k))
      BY <2>2 DEF Hash!Store
    <3>3. \/ answer' = [status |-> "mismatch", value |-> Absent]
          \/ answer' = [status |-> "ok", value |-> S[k]]
      BY <1>7, <2>2, <3>2 DEF Hash!read_int, Hash!Reply
    <3> QED
      BY <1>5, <2>0, <3>1, <3>3 DEF MapStep
  <2> QED
    BY <2>1, <2>2
<1> QED
  BY <1>6, <1>7 DEF Hash!Next

-----------------------------------------------------------------------------
(***************************************************************************)
(* HashDB: the list of the entries.                                        *)
(***************************************************************************)
LEMMA PutFirst ==
  ASSUME NEW o \in Nat, NEW s \in Seq(Nat)
  PROVE  /\ <<o>> \o s \in Seq(Nat) /\ Len(<<o>> \o s) = Len(s) + 1
         /\ (<<o>> \o s)[1] = o
         /\ \A i \in 1..Len(s) : (<<o>> \o s)[i + 1] = s[i]
OBVIOUS

\* The list of offsets from o on, as Hash!Entries computes it.
HashList(m) ==
  CHOOSE f : f = [o \in Nat |-> IF o >= m[1] THEN <<o>> ELSE <<o>> \o f[o + 2 + m[o + 1]]]

LEMMA HashLists ==
  ASSUME NEW m, NEW max, NEW H, HashChain(m, max, H)
  PROVE  /\ HashList(m) \in [Nat -> Seq(Nat)]
         /\ \A o \in Nat : HashList(m)[o] = IF o >= m[1] THEN <<o>>
                                            ELSE <<o>> \o HashList(m)[o + 2 + m[o + 1]]
<1> DEFINE U == m[1]
           stop == {o \in Nat : o >= U}
           next == [o \in Nat |-> IF o < U THEN o + 2 + m[o + 1] ELSE 0]
           V == Seq(Nat)
           base == [o \in Nat |-> <<o>>]
           step == [o \in Nat |-> [s \in V |-> <<o>> \o s]]
           Loop(f) == f = [o \in Nat |-> IF o >= m[1] THEN <<o>>
                                         ELSE <<o>> \o f[o + 2 + m[o + 1]]]
<1>0. U \in Nat /\ \A o \in Nat : o < U => m[o + 1] \in Nat
  BY HashCells
<1>1. Walk(stop, next, U)
  BY <1>0 DEF Walk
<1>2. base \in [Nat -> V]
  OBVIOUS
<1>3. step \in [Nat -> [V -> V]]
  BY PutFirst
<1>4. PICK f \in [Nat -> V] : Computed(f, stop, next, base, step)
  <2> HIDE DEF stop, next, base, step, U, V
  <2> QED
    BY <1>1, <1>2, <1>3, WalkDefines
<1>5. \A o \in Nat \ stop : next[o] = o + 2 + m[o + 1] /\ next[o] \in Nat
  <2> HIDE DEF base, step, V
  <2> QED
    BY <1>0
<1>6. ASSUME NEW o \in Nat
      PROVE  f[o] = IF o >= U THEN <<o>> ELSE <<o>> \o f[o + 2 + m[o + 1]]
  <2>1. CASE o >= U
    BY <1>4, <2>1 DEF Computed
  <2>2. CASE ~(o >= U)
    <3>1. o \in Nat \ stop
      BY <2>2
    <3>2. f[o] = step[o][f[next[o]]] /\ f[next[o]] \in V
      BY <1>4, <1>5, <3>1 DEF Computed
    <3>3. step[o][f[next[o]]] = <<o>> \o f[next[o]]
      BY <3>2
    <3> QED
      BY <1>5, <2>2, <3>1, <3>2, <3>3
  <2> QED
    BY <2>1, <2>2
<1>7. Loop(f)
  <2> DEFINE F(o) == IF o >= U THEN <<o>> ELSE <<o>> \o f[o + 2 + m[o + 1]]
  <2>1. \A o \in Nat : f[o] = F(o)
    BY <1>6
  <2> HIDE DEF F
  <2>2. f = [o \in Nat |-> F(o)]
    BY <2>1
  <2> QED
    BY <2>2 DEF F
<1>8. Loop(HashList(m))
  <2> HIDE DEF Loop
  <2>1. HashList(m) = CHOOSE g : Loop(g)
    BY DEF HashList, Loop
  <2> QED
    BY <1>7, <2>1
<1> DEFINE g == HashList(m)
           G == {o \in Nat : g[o] \in V}
<1>9. g = [o \in Nat |-> g[o]]
      /\ \A o \in Nat : g[o] = IF o >= U THEN <<o>> ELSE <<o>> \o g[o + 2 + m[o + 1]]
  BY <1>8
<1> HIDE DEF g
<1>10. \A o \in Nat : o \in G
  <2>1. ASSUME NEW o \in stop PROVE o \in G
    <3>1. o \in Nat /\ g[o] = <<o>>
      BY <1>0, <1>9
    <3>2. <<o>> \in Seq(Nat)
      BY <3>1
    <3> HIDE DEF stop, next, base, step
    <3> QED
      BY <3>1, <3>2
  <2>2. ASSUME NEW o \in Nat \ stop, next[o] \in G PROVE o \in G
    <3>1. g[o] = <<o>> \o g[next[o]]
      BY <1>0, <1>5, <1>9
    <3>2. g[next[o]] \in Seq(Nat)
      BY <2>2
    <3>3. <<o>> \o g[next[o]] \in Seq(Nat)
      BY <3>2, PutFirst
    <3> HIDE DEF stop, next, base, step
    <3> QED
      BY <3>1, <3>3
  <2> HIDE DEF G, stop, next, base, step, U, V
  <2>3. \A o \in Nat \ stop : next[o] \in G => o \in G
    BY <2>2
  <2>4. \A o \in stop : o \in G
    BY <2>1
  <2> QED
    BY <1>1, <2>3, <2>4, WalkInduction
<1> QED
  BY <1>9, <1>10 DEF g

\* The list names the entries in the order of memory and ends at the used size.
ListOk(e, H, o, u) ==
  /\ e \in Seq(Nat) /\ Len(e) >= 1 /\ e[1] = o /\ e[Len(e)] = u
  /\ \A i \in 1..(Len(e) - 1) : e[i] \in H
  /\ \A i, j \in 1..Len(e) : i < j => e[i] < e[j]

LEMMA ListGrows ==
  ASSUME NEW H, NEW u, NEW s, NEW x, ListOk(s, H, x, u), NEW o \in Nat, o \in H, o < x
  PROVE  ListOk(<<o>> \o s, H, o, u)
<1> DEFINE e == <<o>> \o s
           L == Len(s)
<1>1. s \in Seq(Nat) /\ L \in Nat /\ L >= 1 /\ s[1] = x /\ s[L] = u
  BY DEF ListOk
<1>2. e \in Seq(Nat) /\ Len(e) = L + 1 /\ e[1] = o /\ \A i \in 1..L : e[i + 1] = s[i]
  BY <1>1, PutFirst
<1>3. \A i \in 1..L : s[i] \in Nat
  BY <1>1
<1>4. \A i \in 1..(L - 1) : s[i] \in H
  BY DEF ListOk
<1>5. \A i, j \in 1..L : i < j => s[i] < s[j]
  BY DEF ListOk
<1> HIDE DEF e, L
<1>6. \A i \in 2..(L + 1) : i - 1 \in 1..L /\ e[i] = s[i - 1]
  <2> SUFFICES ASSUME NEW i \in 2..(L + 1) PROVE i - 1 \in 1..L /\ e[i] = s[i - 1]
    OBVIOUS
  <2>1. i - 1 \in 1..L /\ (i - 1) + 1 = i
    BY <1>1
  <2> QED
    BY <1>2, <2>1
<1>7. e[L + 1] = u
  BY <1>1, <1>2
<1>8. ASSUME NEW i \in 1..L PROVE e[i] \in H
  <2>1. CASE i = 1
    BY <1>2, <2>1
  <2>2. CASE i # 1
    <3>1. i \in 2..(L + 1) /\ i - 1 \in 1..(L - 1)
      BY <1>1, <2>2
    <3> QED
      BY <1>4, <1>6, <3>1
  <2> QED
    BY <2>1, <2>2
<1>9. ASSUME NEW j \in 1..L PROVE x <= s[j]
  <2>1. CASE j = 1
    BY <1>1, <1>3, <2>1
  <2>2. CASE j # 1
    <3>1. s[1] < s[j]
      BY <1>1, <1>5, <2>2
    <3> QED
      BY <1>1, <1>3, <3>1
  <2> QED
    BY <2>1, <2>2
<1>10. ASSUME NEW i \in 1..(L + 1), NEW j \in 1..(L + 1), i < j PROVE e[i] < e[j]
  <2>1. j \in 2..(L + 1) /\ j - 1 \in 1..L /\ e[j] = s[j - 1]
    <3>1. j \in 2..(L + 1)
      BY <1>1, <1>10
    <3> QED
      BY <1>6, <3>1
  <2>2. CASE i = 1
    <3>1. x <= s[j - 1] /\ s[j - 1] \in Nat /\ x \in Nat
      BY <1>1, <1>3, <1>9, <2>1
    <3> QED
      BY <1>2, <2>1, <2>2, <3>1
  <2>3. CASE i # 1
    <3>1. i \in 2..(L + 1) /\ i - 1 < j - 1
      BY <1>1, <1>10, <2>3
    <3>2. i - 1 \in 1..L /\ e[i] = s[i - 1]
      BY <1>6, <3>1
    <3>3. s[i - 1] < s[j - 1]
      BY <1>5, <2>1, <3>1, <3>2
    <3> QED
      BY <2>1, <3>2, <3>3
  <2> QED
    BY <2>2, <2>3
<1>11. Len(e) - 1 = L /\ Len(e) >= 1
  BY <1>1, <1>2
<1> QED
  BY <1>1, <1>2, <1>7, <1>8, <1>10, <1>11 DEF ListOk, e, L

LEMMA HashListed ==
  ASSUME NEW m, NEW max, NEW H, HashChain(m, max, H)
  PROVE  ListOk(HashList(m)[2], H, 2, m[1])
<1> DEFINE U == m[1]
           ends == HashEnds(m, H)
           g == HashList(m)
           G == {o \in H \cup {U} : ListOk(g[o], H, o, U)}
<1>0. U \in Nat
  BY HashCells
<1>1. Linked(H, 2, U, ends)
  BY DEF HashChain
<1>2. \A o \in Nat : g[o] = IF o >= U THEN <<o>> ELSE <<o>> \o g[o + 2 + m[o + 1]]
  BY HashLists
<1> HIDE DEF g
<1>3. U \in G
  <2>1. g[U] = <<U>>
    <3> HIDE DEF U
    <3>1. U >= U
      BY <1>0
    <3> QED
      BY <1>0, <1>2, <3>1, Zenon
  <2>2. ListOk(<<U>>, H, U, U)
    BY <1>0 DEF ListOk
  <2> QED
    BY <2>1, <2>2
<1>4. ASSUME NEW o \in H, ends[o] \in G PROVE o \in G
  <2>1. o \in Nat /\ ~(o >= U) /\ ends[o] = o + 2 + m[o + 1] /\ o < ends[o]
    BY <1>0, <1>1, HashCells DEF Linked
  <2>2. g[o] = <<o>> \o g[ends[o]]
    BY <1>2, <2>1
  <2>3. ListOk(g[ends[o]], H, ends[o], U)
    BY <1>4
  <2>4. ListOk(g[o], H, o, U)
    <3> HIDE DEF ends, U
    <3> QED
      BY <2>1, <2>2, <2>3, ListGrows
  <2> QED
    BY <2>4
<1>5. \A o \in H \cup {U} : o \in G
  <2>1. \A o \in H : ends[o] \in G => o \in G
    BY <1>4
  <2> HIDE DEF G, U, ends
  <2> QED
    BY <1>1, <1>3, <2>1, ChainInduction
<1>6. 2 \in H \cup {U}
  BY <1>1 DEF Linked
<1> QED
  BY <1>5, <1>6 DEF g

LEMMA HashExact ==
  ASSUME HashInv
  PROVE  Hash!ChainExact
<1>1. PICK H : HashChain(mem, max_size, H)
  BY DEF HashInv
<1> DEFINE e == Hash!Entries
<1>2. e = HashList(mem)[2]
  BY DEF Hash!Entries, Hash!Used, Hash!HDR, Hash!SizeAt, HashList
<1>3. ListOk(e, H, 2, mem[1])
  BY <1>1, <1>2, HashListed
<1> HIDE DEF e
<1>4. ASSUME NEW i \in 1..(Len(e) - 1), NEW j \in 1..(Len(e) - 1), mem[e[i]] = mem[e[j]]
      PROVE  i = j
  <2>1. e[i] = e[j]
    BY <1>1, <1>3, <1>4 DEF HashChain, ListOk
  <2>2. Len(e) \in Nat /\ \A a \in 1..Len(e) : e[a] \in Nat
    BY <1>3 DEF ListOk
  <2>3. i \in 1..Len(e) /\ j \in 1..Len(e) /\ e[i] \in Nat
    BY <2>2
  <2>4. ~(e[i] < e[j]) /\ ~(e[j] < e[i])
    BY <2>1, <2>3
  <2> QED
    BY <1>3, <2>3, <2>4 DEF ListOk
<1>5. mem[1] <= max_size /\ e[Len(e)] = mem[1]
  BY <1>1, <1>3 DEF HashChain, ListOk
<1> QED
  BY <1>4, <1>5 DEF e, Hash!ChainExact, Hash!Used, Hash!NameAt

-----------------------------------------------------------------------------
(***************************************************************************)
(* simple_db.  The lemmas are about any memory m with a database of s      *)
(* bytes; H are the offsets of its entries.                                *)
(***************************************************************************)
Octet == 0..255
Bytes == 0..(Cap + 8)

EntryBytes(m, o) == m[o + 3] + 256 * m[o + 4]
SimpleData(m, o) == <<m[o + 2]>> \o [i \in 1..EntryBytes(m, o) |-> m[o + 4 + i]]
SimpleEnds(m, H) == [o \in H |-> o + 5 + EntryBytes(m, o)]

\* Where the next entry goes.
Top(s) == IF s <= 8 THEN 8 ELSE s

\* The entries follow each other up to the size, each has a tag of one
\* character and a value, and no tag has two.
SimpleChain(m, s, H) ==
  /\ m \in [Bytes -> Octet]
  /\ s \in 0..Cap /\ (s = 0 \/ s >= 8)
  /\ Linked(H, 8, Top(s), SimpleEnds(m, H))
  /\ \A o \in H : m[o] \in Key /\ m[o + 1] = 0 /\ SimpleData(m, o) \in Simple!Value
  /\ \A o, x \in H : m[o] = m[x] => o = x

\* The reading operators of the model, for any memory.
SimpleAt(m, p) == IF p \in 0..(Cap + 8) THEN m[p] ELSE 255
SimpleLen(m, p) ==
  CHOOSE n \in 0..Cap :
    (n = Cap \/ SimpleAt(m, p + n) = 0) /\ \A i \in 0..(n - 1) : SimpleAt(m, p + i) # 0
SimpleSize(m, p) == SimpleAt(m, p) + 256 * SimpleAt(m, p + 1)
SimpleNext(m, p) ==
  p + SimpleLen(m, p) + 4 + SimpleSize(m, p + SimpleLen(m, p) + 2)
SimpleTag(m, t, p) == SimpleAt(m, p) = t /\ SimpleAt(m, p + 1) = 0

LEMMA TwoBytes == \A a, b \in Octet : a \in Nat /\ b \in Nat /\ a + 256 * b \in Nat
  BY DEF Octet

LEMMA SimpleCells ==
  ASSUME NEW m, NEW s, NEW H, SimpleChain(m, s, H)
  PROVE  /\ s \in Nat /\ s <= Cap /\ Cap \in Nat /\ Top(s) \in Nat
         /\ \A o \in H : /\ o \in Nat /\ o >= 8 /\ o < s /\ s > 8
                         /\ EntryBytes(m, o) \in Nat
                         /\ o + 5 + EntryBytes(m, o) <= s
                         /\ SimpleEnds(m, H)[o] = o + 5 + EntryBytes(m, o)
<1>1. s \in Nat /\ s <= Cap /\ Cap \in Nat /\ Top(s) \in Nat
  BY DatabasesAssumption DEF SimpleChain, Simple!Parameters, Top
<1>2. ASSUME NEW o \in H
      PROVE  /\ o \in Nat /\ o >= 8 /\ o < s /\ s > 8
             /\ EntryBytes(m, o) \in Nat
             /\ o + 5 + EntryBytes(m, o) <= s
             /\ SimpleEnds(m, H)[o] = o + 5 + EntryBytes(m, o)
  <2>1. o \in Nat /\ o >= 8 /\ o < Top(s)
    BY <1>1 DEF SimpleChain, Linked
  <2>2. o < s /\ s > 8 /\ Top(s) = s
    BY <1>1, <2>1 DEF Top
  <2>3. SimpleEnds(m, H)[o] = o + 5 + EntryBytes(m, o)
    BY DEF SimpleEnds
  <2>4. o + 3 \in Bytes /\ o + 4 \in Bytes
    BY <1>1, <2>1, <2>2 DEF Bytes
  <2>5. m[o + 3] \in Octet /\ m[o + 4] \in Octet
    BY <2>4 DEF SimpleChain
  <2>6. EntryBytes(m, o) \in Nat
    BY <2>5, TwoBytes DEF EntryBytes
  <2>7. SimpleEnds(m, H)[o] \in H \cup {s} /\ \A x \in H : x \in Nat /\ x < s
    BY <1>1, <2>2 DEF SimpleChain, Linked
  <2>8. SimpleEnds(m, H)[o] <= s
    BY <1>1, <2>7
  <2> QED
    BY <2>1, <2>2, <2>3, <2>6, <2>8
<1> QED
  BY <1>1, <1>2

\* The bytes of an entry are read from memory.
LEMMA SimpleInside ==
  ASSUME NEW m, NEW s, NEW H, SimpleChain(m, s, H), NEW o \in H
  PROVE  \A i \in 0..(EntryBytes(m, o) + 4) :
           o + i \in Bytes /\ SimpleAt(m, o + i) = m[o + i] /\ m[o + i] \in Octet
<1>1. /\ o \in Nat /\ EntryBytes(m, o) \in Nat /\ o + 5 + EntryBytes(m, o) <= s
      /\ s \in Nat /\ s <= Cap /\ Cap \in Nat
  BY SimpleCells
<1> SUFFICES ASSUME NEW i \in 0..(EntryBytes(m, o) + 4)
             PROVE  /\ o + i \in Bytes /\ SimpleAt(m, o + i) = m[o + i]
                    /\ m[o + i] \in Octet
  OBVIOUS
<1>2. o + i \in 0..(Cap + 8)
  BY <1>1
<1> QED
  BY <1>2 DEF SimpleChain, SimpleAt, Bytes

\* strlen of any position is a length.
LEMMA SimpleLenType ==
  ASSUME NEW m, NEW p \in Nat
  PROVE  SimpleLen(m, p) \in 0..Cap
<1> DEFINE Ok(n) == /\ n = Cap \/ SimpleAt(m, p + n) = 0
                    /\ \A i \in 0..(n - 1) : SimpleAt(m, p + i) # 0
           E == {n \in 0..Cap : n = Cap \/ SimpleAt(m, p + n) = 0}
<1>1. Cap \in Nat
  BY DatabasesAssumption DEF Simple!Parameters
<1>2. E \in SUBSET Nat /\ E # {}
  BY <1>1
<1>3. PICK n \in E : \A y \in E : n <= y
  <2> HIDE DEF E
  <2> QED
    BY <1>2, LeastElement
<1>4. n \in 0..Cap /\ (n = Cap \/ SimpleAt(m, p + n) = 0)
  OBVIOUS
<1>5. ASSUME NEW i \in 0..(n - 1) PROVE SimpleAt(m, p + i) # 0
  <2>1. i \in 0..Cap /\ ~(n <= i)
    BY <1>1, <1>4
  <2> QED
    BY <1>3, <2>1
<1>6. Ok(n)
  BY <1>4, <1>5
<1>7. \E x \in 0..Cap : Ok(x)
  BY <1>4, <1>6
<1>8. SimpleLen(m, p) = CHOOSE x \in 0..Cap : Ok(x)
  BY DEF SimpleLen
<1> HIDE DEF Ok
<1> QED
  BY <1>7, <1>8

\* strlen of an entry is the length of its tag, and the walk goes on where the
\* entry ends.
LEMMA SimpleSteps ==
  ASSUME NEW m, NEW s, NEW H, SimpleChain(m, s, H), NEW o \in H
  PROVE  /\ SimpleLen(m, o) = 1
         /\ SimpleNext(m, o) = o + 5 + EntryBytes(m, o)
         /\ \A t : SimpleTag(m, t, o) <=> m[o] = t
<1>1. /\ o \in Nat /\ EntryBytes(m, o) \in Nat /\ o >= 8 /\ o < s
      /\ s \in Nat /\ s <= Cap /\ Cap \in Nat
  BY SimpleCells
<1>2. \A i \in 0..4 : SimpleAt(m, o + i) = m[o + i]
  <2>1. \A i \in 0..4 : i \in 0..(EntryBytes(m, o) + 4)
    BY <1>1
  <2> QED
    BY <2>1, SimpleInside
<1>3. SimpleAt(m, o) = m[o] /\ SimpleAt(m, o + 1) = 0 /\ SimpleAt(m, o + 0) = m[o]
  BY <1>1, <1>2 DEF SimpleChain
<1>4. m[o] # 0
  BY DatabasesAssumption DEF SimpleChain, Simple!Parameters
<1> DEFINE Ok(n) == /\ n = Cap \/ SimpleAt(m, o + n) = 0
                    /\ \A i \in 0..(n - 1) : SimpleAt(m, o + i) # 0
<1>5. \A n \in 0..Cap : Ok(n) <=> n = 1
  <2> SUFFICES ASSUME NEW n \in 0..Cap PROVE Ok(n) <=> n = 1
    OBVIOUS
  <2>1. CASE n = 0
    <3>1. n # Cap
      BY <1>1, <2>1
    <3> QED
      BY <1>3, <1>4, <2>1, <3>1
  <2>2. CASE n = 1
    <3>1. \A i \in 0..(n - 1) : i = 0
      BY <2>2
    <3> QED
      BY <1>3, <1>4, <2>2, <3>1
  <2>3. CASE n > 1
    <3>1. 1 \in 0..(n - 1)
      BY <2>3
    <3> QED
      BY <1>3, <2>3, <3>1
  <2> QED
    BY <1>1, <2>1, <2>2, <2>3
<1>6. SimpleLen(m, o) = CHOOSE n \in 0..Cap : Ok(n)
  BY DEF SimpleLen
<1>7. SimpleLen(m, o) = 1
  <2>1. 1 \in 0..Cap
    BY <1>1
  <2> HIDE DEF Ok
  <2> QED
    BY <1>5, <1>6, <2>1
<1>8. SimpleSize(m, o + 3) = EntryBytes(m, o)
  BY <1>1, <1>2 DEF SimpleSize, EntryBytes
<1>9. SimpleNext(m, o) = o + 5 + EntryBytes(m, o)
  BY <1>1, <1>7, <1>8 DEF SimpleNext
<1> QED
  BY <1>3, <1>7, <1>9 DEF SimpleTag

\* The two loops of the model over the entries, for any memory.
SimpleLoop(m, s, t) ==
  CHOOSE f : f = [p \in Nat |->
                    IF SimpleTag(m, t, p) THEN p
                    ELSE IF SimpleLen(m, p) = 0 \/ SimpleNext(m, p) >= s THEN 0
                    ELSE f[SimpleNext(m, p)]]
SimpleCounter(m, s) ==
  CHOOSE f : f = [p \in Nat |->
                    IF SimpleLen(m, p) = 0 \/ SimpleNext(m, p) >= s THEN 1
                    ELSE 1 + f[SimpleNext(m, p)]]

\* Every step of them goes forward, from wherever it starts.
LEMMA SimpleForward ==
  ASSUME NEW m \in [Bytes -> Octet], NEW p \in Nat
  PROVE  SimpleNext(m, p) \in Nat /\ p < SimpleNext(m, p)
<1>1. Cap \in Nat
  BY DatabasesAssumption DEF Simple!Parameters
<1>2. SimpleLen(m, p) \in Nat
  BY <1>1, SimpleLenType
<1>3. \A q : SimpleAt(m, q) \in Octet
  <2>1. 255 \in Octet
    BY DEF Octet
  <2>2. \A q \in 0..(Cap + 8) : m[q] \in Octet
    BY DEF Bytes
  <2> QED
    BY <2>1, <2>2 DEF SimpleAt
<1>4. \A q : SimpleSize(m, q) \in Nat
  BY <1>3, TwoBytes DEF SimpleSize
<1> QED
  BY <1>2, <1>4 DEF SimpleNext

LEMMA SimpleLoops ==
  ASSUME NEW m \in [Bytes -> Octet], NEW s \in Nat, NEW t
  PROVE  /\ \A p \in Nat : SimpleLoop(m, s, t)[p] =
              IF SimpleTag(m, t, p) THEN p
              ELSE IF SimpleLen(m, p) = 0 \/ SimpleNext(m, p) >= s THEN 0
              ELSE SimpleLoop(m, s, t)[SimpleNext(m, p)]
         /\ \A p \in Nat : SimpleCounter(m, s)[p] =
              IF SimpleLen(m, p) = 0 \/ SimpleNext(m, p) >= s THEN 1
              ELSE 1 + SimpleCounter(m, s)[SimpleNext(m, p)]
<1> DEFINE next == [p \in Nat |-> SimpleNext(m, p)]
           last == {p \in Nat : SimpleLen(m, p) = 0 \/ SimpleNext(m, p) >= s}
           stop == {p \in Nat : SimpleTag(m, t, p)} \cup last
           base == [p \in Nat |-> IF SimpleTag(m, t, p) THEN p ELSE 0]
           step == [p \in Nat |-> [v \in Nat |-> v]]
           one == [p \in Nat |-> 1]
           more == [p \in Nat |-> [v \in Nat |-> 1 + v]]
           Loop(f) == f = [p \in Nat |->
                    IF SimpleTag(m, t, p) THEN p
                    ELSE IF SimpleLen(m, p) = 0 \/ SimpleNext(m, p) >= s THEN 0
                    ELSE f[SimpleNext(m, p)]]
           Counter(f) == f = [p \in Nat |->
                    IF SimpleLen(m, p) = 0 \/ SimpleNext(m, p) >= s THEN 1
                    ELSE 1 + f[SimpleNext(m, p)]]
<1>1. \A p \in Nat : SimpleNext(m, p) \in Nat /\ p < SimpleNext(m, p)
  BY SimpleForward
<1>2. Walk(stop, next, s) /\ Walk(last, next, s)
  BY <1>1 DEF Walk
<1>3. base \in [Nat -> Nat] /\ step \in [Nat -> [Nat -> Nat]]
  OBVIOUS
<1>4. one \in [Nat -> Nat] /\ more \in [Nat -> [Nat -> Nat]]
  OBVIOUS
<1>5. PICK f \in [Nat -> Nat] : Computed(f, stop, next, base, step)
  <2> HIDE DEF stop, last, next, base, step, one, more, Loop, Counter
  <2> QED
    BY <1>2, <1>3, WalkDefines
<1>6. PICK g \in [Nat -> Nat] : Computed(g, last, next, one, more)
  <2> HIDE DEF stop, last, next, base, step, one, more, Loop, Counter
  <2> QED
    BY <1>2, <1>4, WalkDefines
<1>7. Loop(f)
  <2>1. \A p \in Nat : f[p] = IF SimpleTag(m, t, p) THEN p
                    ELSE IF SimpleLen(m, p) = 0 \/ SimpleNext(m, p) >= s THEN 0
                    ELSE f[SimpleNext(m, p)]
    BY <1>1, <1>5 DEF Computed
  <2> QED
    BY <2>1
<1>8. Counter(g)
  <2>1. \A p \in Nat : g[p] = IF SimpleLen(m, p) = 0 \/ SimpleNext(m, p) >= s THEN 1
                    ELSE 1 + g[SimpleNext(m, p)]
    BY <1>1, <1>6 DEF Computed
  <2> QED
    BY <2>1
<1>9. Loop(SimpleLoop(m, s, t))
  <2> HIDE DEF Loop
  <2>1. SimpleLoop(m, s, t) = CHOOSE x : Loop(x)
    BY DEF SimpleLoop, Loop
  <2> QED
    BY <1>7, <2>1
<1>10. Counter(SimpleCounter(m, s))
  <2> HIDE DEF Counter
  <2>1. SimpleCounter(m, s) = CHOOSE x : Counter(x)
    BY DEF SimpleCounter, Counter
  <2> QED
    BY <1>8, <2>1
<1> HIDE DEF next, last, stop, base, step, one, more
<1>11. \A p \in Nat : SimpleLoop(m, s, t)[p] =
              IF SimpleTag(m, t, p) THEN p
              ELSE IF SimpleLen(m, p) = 0 \/ SimpleNext(m, p) >= s THEN 0
              ELSE SimpleLoop(m, s, t)[SimpleNext(m, p)]
  BY <1>9
<1>12. \A p \in Nat : SimpleCounter(m, s)[p] =
              IF SimpleLen(m, p) = 0 \/ SimpleNext(m, p) >= s THEN 1
              ELSE 1 + SimpleCounter(m, s)[SimpleNext(m, p)]
  BY <1>10
<1> QED
  BY <1>11, <1>12

\* find_data, and the map a memory stands for.
SimpleFind(m, s, t) == IF s <= 8 THEN 0 ELSE SimpleLoop(m, s, t)[8]
SimpleMap(m, s) ==
  [t \in Key |-> IF SimpleFind(m, s, t) = 0 THEN Absent
                 ELSE SimpleData(m, SimpleFind(m, s, t))]

\* find_data finds the entry of a tag exactly when there is one.
LEMMA SimpleFinds ==
  ASSUME NEW m, NEW s, NEW H, SimpleChain(m, s, H), NEW t
  PROVE  /\ SimpleFind(m, s, t) # 0 =>
              SimpleFind(m, s, t) \in H /\ m[SimpleFind(m, s, t)] = t
         /\ SimpleFind(m, s, t) = 0 => \A o \in H : m[o] # t
         /\ \A o \in H : m[o] = t => SimpleFind(m, s, t) # 0 /\ SimpleFind(m, s, t) = o
<1> DEFINE at == SimpleLoop(m, s, t)
           ends == SimpleEnds(m, H)
           match == {o \in H : m[o] = t}
<1>1. /\ s \in Nat /\ m \in [Bytes -> Octet]
      /\ \A o \in H : o \in Nat /\ o >= 8 /\ o < s /\ s > 8
  BY SimpleCells DEF SimpleChain
<1>2. \/ SimpleFind(m, s, t) = 0 /\ \A o \in H : m[o] # t
      \/ SimpleFind(m, s, t) \in H /\ m[SimpleFind(m, s, t)] = t
  <2>1. CASE s <= 8
    <3>1. H = {}
      BY <1>1, <2>1
    <3> QED
      BY <2>1, <3>1 DEF SimpleFind
  <2>2. CASE s > 8
    <3>0. Top(s) = s /\ SimpleFind(m, s, t) = at[8]
      BY <1>1, <2>2 DEF Top, SimpleFind
    <3>1. Linked(H, 8, s, ends)
      BY <3>0 DEF SimpleChain
    <3>2. 8 \in H
      BY <2>2, <3>1 DEF Linked
    <3>3. Searches(at, H, s, ends, match, 0)
      <4> SUFFICES ASSUME NEW o \in H
                   PROVE  at[o] = IF m[o] = t THEN o
                                  ELSE IF ends[o] = s THEN 0 ELSE at[ends[o]]
        BY DEF Searches
      <4>1. o \in Nat /\ ends[o] = SimpleNext(m, o) /\ ends[o] <= s /\ ends[o] \in Nat
        BY SimpleCells, SimpleSteps
      <4>2. ~(SimpleLen(m, o) = 0) /\ (SimpleTag(m, t, o) <=> m[o] = t)
        BY SimpleSteps
      <4>3. SimpleNext(m, o) >= s <=> ends[o] = s
        BY <1>1, <4>1
      <4>4. at[o] = IF SimpleTag(m, t, o) THEN o
                    ELSE IF SimpleLen(m, o) = 0 \/ SimpleNext(m, o) >= s THEN 0
                    ELSE at[SimpleNext(m, o)]
        BY <1>1, <4>1, SimpleLoops
      <4> HIDE DEF at, ends
      <4> QED
        BY <4>1, <4>2, <4>3, <4>4
    <3> HIDE DEF at, ends, match
    <3>4. \/ at[8] = 0 /\ H \cap match = {}
          \/ at[8] \in H \cap match
      BY <3>1, <3>2, <3>3, ChainSearch
    <3> QED
      BY <3>0, <3>4 DEF match
  <2> QED
    BY <1>1, <2>1, <2>2
<1>3. \A o, x \in H : m[o] = m[x] => o = x
  BY DEF SimpleChain
<1>4. \A o \in H : o # 0
  BY <1>1
<1> QED
  BY <1>2, <1>3, <1>4

\* db_get_nof_tags, for any memory.
SimpleTags(m, s) == IF s <= 8 THEN 0 ELSE SimpleCounter(m, s)[8]

\* It counts the entries.
LEMMA SimpleCounts ==
  ASSUME NEW m, NEW s, NEW H, SimpleChain(m, s, H)
  PROVE  IsFiniteSet(H) /\ SimpleTags(m, s) = Cardinality(H)
<1> DEFINE count == SimpleCounter(m, s)
           ends == SimpleEnds(m, H)
           Rest(o) == {x \in H : o <= x}
           G == {o \in H \cup {s} : o \in H => count[o] = Cardinality(Rest(o))}
<1>1. s \in Nat /\ m \in [Bytes -> Octet]
  BY SimpleCells DEF SimpleChain
<1>2. \A o \in H : o \in Nat /\ o >= 8 /\ o < s /\ s > 8
  BY SimpleCells
<1>3. IsFiniteSet(H)
  <2>1. H \subseteq 0..s
    BY <1>1, <1>2
  <2>2. IsFiniteSet(0..s)
    BY <1>1, FS_Interval
  <2> QED
    BY <2>1, <2>2, FS_Subset
<1>4. CASE s <= 8
  <2>1. H = {}
    BY <1>1, <1>2, <1>4
  <2> QED
    BY <1>3, <1>4, <2>1, FS_EmptySet DEF SimpleTags
<1>5. CASE s > 8
  <2>0. Top(s) = s /\ SimpleTags(m, s) = count[8]
    BY <1>1, <1>5 DEF Top, SimpleTags
  <2>1. Linked(H, 8, s, ends)
    BY <2>0 DEF SimpleChain
  <2>2. 8 \in H
    BY <1>5, <2>1 DEF Linked
  <2>3. s \in G
    BY <1>1, <1>2
  <2>4. ASSUME NEW o \in H, ends[o] \in G PROVE count[o] = Cardinality(Rest(o))
    <3> DEFINE e == ends[o]
    <3>1. o \in Nat /\ e = SimpleNext(m, o) /\ e <= s /\ e \in Nat /\ o < e
      BY SimpleCells, SimpleSteps
    <3>2. ~(SimpleLen(m, o) = 0)
      BY SimpleSteps
    <3>3. count[o] = IF SimpleLen(m, o) = 0 \/ SimpleNext(m, o) >= s THEN 1
                     ELSE 1 + count[SimpleNext(m, o)]
      BY <1>1, <3>1, SimpleLoops
    <3>4. e \in H \cup {s} /\ \A x \in H : o < x => e <= x
      BY <2>1 DEF Linked
    <3> HIDE DEF count, ends, e
    <3>5. Rest(o) = Rest(e) \cup {o} /\ o \notin Rest(e)
      <4>1. \A x \in H : o <= x <=> e <= x \/ x = o
        BY <1>2, <3>1, <3>4
      <4>2. ~(e <= o)
        BY <3>1
      <4> QED
        BY <4>1, <4>2
    <3>6. IsFiniteSet(Rest(e))
      BY <1>3, FS_Subset
    <3>7. Cardinality(Rest(o)) = Cardinality(Rest(e)) + 1
      BY <3>5, <3>6, FS_AddElement
    <3>8. CASE e = s
      <4>1. Rest(e) = {}
        BY <1>1, <1>2, <3>8
      <4>2. count[o] = 1
        BY <1>1, <3>1, <3>3, <3>8
      <4> QED
        BY <3>7, <4>1, <4>2, FS_EmptySet
    <3>9. CASE e # s
      <4>1. e \in H /\ ~(SimpleNext(m, o) >= s)
        BY <1>1, <3>1, <3>4, <3>9
      <4>2. count[o] = 1 + count[e]
        BY <3>1, <3>2, <3>3, <4>1
      <4>3. count[e] = Cardinality(Rest(e))
        BY <2>4, <4>1 DEF e
      <4>4. Cardinality(Rest(e)) \in Nat
        BY <3>6, FS_CardinalityType
      <4> QED
        BY <3>7, <4>2, <4>3, <4>4
    <3> QED
      BY <3>8, <3>9
  <2>5. \A o \in H \cup {s} : o \in G
    <3>1. \A o \in H : ends[o] \in G => o \in G
      BY <2>4
    <3> HIDE DEF G, ends
    <3> QED
      BY <2>1, <2>3, <3>1, ChainInduction
  <2>6. Rest(8) = H
    BY <1>2
  <2> QED
    BY <1>3, <2>0, <2>2, <2>5, <2>6
<1> QED
  BY <1>1, <1>4, <1>5

\* So it counts the tags that find_data finds.
LEMMA SimpleTagsFound ==
  ASSUME NEW m, NEW s, NEW H, SimpleChain(m, s, H)
  PROVE  SimpleTags(m, s) = Cardinality({t \in Key : SimpleFind(m, s, t) # 0})
<1> DEFINE T == {t \in Key : SimpleFind(m, s, t) # 0}
           f == [o \in H |-> m[o]]
<1>1. IsFiniteSet(H) /\ SimpleTags(m, s) = Cardinality(H)
  BY SimpleCounts
<1>2. \A o \in H : m[o] \in T
  BY SimpleFinds DEF SimpleChain
<1>3. \A t \in T : \E o \in H : m[o] = t
  BY SimpleFinds
<1>4. \A o, x \in H : m[o] = m[x] => o = x
  BY DEF SimpleChain
<1>5. f \in Bijection(H, T)
  <2> HIDE DEF T
  <2> QED
    BY <1>2, <1>3, <1>4 DEF Bijection, Injection, Surjection, IsInjective
<1>6. Cardinality(H) = Cardinality(T)
  <2> HIDE DEF T, f
  <2>1. ExistsBijection(H, T)
    BY <1>5 DEF ExistsBijection
  <2> QED
    BY <1>1, <2>1, FS_Bijection
<1> QED
  BY <1>1, <1>6

\* The entries are the map.
LEMMA SimpleMapIs ==
  ASSUME NEW m, NEW s, NEW H, SimpleChain(m, s, H)
  PROVE  /\ \A o \in H : m[o] \in Key /\ SimpleMap(m, s)[m[o]] = SimpleData(m, o)
         /\ \A t \in Key : (\A o \in H : m[o] # t) => SimpleMap(m, s)[t] = Absent
         /\ \A t \in Key : SimpleFind(m, s, t) # 0 <=> SimpleMap(m, s)[t] # Absent
<1>1. \A o \in H : m[o] \in Key
  BY DEF SimpleChain
<1>2. \A o \in H : SimpleFind(m, s, m[o]) # 0 /\ SimpleFind(m, s, m[o]) = o
  BY SimpleFinds
<1>3. \A o \in H : SimpleData(m, o) # Absent
  BY DatabasesAssumption DEF SimpleChain
<1>4. \A t : SimpleFind(m, s, t) # 0 => SimpleFind(m, s, t) \in H
  BY SimpleFinds
<1>5. \A t \in Key : (\A o \in H : m[o] # t) => SimpleFind(m, s, t) = 0
  BY SimpleFinds
<1>6. \A t \in Key : SimpleMap(m, s)[t] = IF SimpleFind(m, s, t) = 0 THEN Absent
                                          ELSE SimpleData(m, SimpleFind(m, s, t))
  BY DEF SimpleMap
<1> QED
  BY <1>1, <1>2, <1>3, <1>4, <1>5, <1>6

\* What the proofs use of a value: a type and bytes.
LEMMA SimpleValues ==
  ASSUME NEW v \in Simple!Value
  PROVE  /\ v \in Seq(Octet) /\ Len(v) \in Nat /\ Len(v) >= 1
         /\ Head(v) = v[1] /\ v[1] \in Octet /\ v[1] \in Types
         /\ Tail(v) \in Seq(Octet) /\ Len(Tail(v)) = Len(v) - 1
         /\ \A i \in 1..(Len(v) - 1) : Tail(v)[i] = v[i + 1] /\ v[i + 1] \in Octet
         /\ (Len(v) - 1) % 256 \in Octet /\ (Len(v) - 1) \div 256 \in Octet
         /\ ((Len(v) - 1) % 256) + 256 * ((Len(v) - 1) \div 256) = Len(v) - 1
<1>1. PICK ty \in Types, d \in Data : v = <<ty>> \o d
  BY DEF Simple!Value
<1>2. d \in Seq(Octet) /\ Len(d) \div 256 < 256
  BY DatabasesAssumption DEF Simple!Parameters, Octet
<1>3. ty \in Octet
  BY DatabasesAssumption DEF Simple!Parameters, Octet
<1>4. Len(d) \in Nat
  BY <1>2
<1>5. v \in Seq(Octet) /\ Len(v) = Len(d) + 1 /\ v[1] = ty
  BY <1>1, <1>2, <1>3
<1>6. \A i \in 1..Len(d) : v[i + 1] = d[i] /\ d[i] \in Octet
  BY <1>1, <1>2
<1>7. Len(v) \in Nat /\ Len(v) >= 1 /\ Len(v) - 1 = Len(d) /\ v # <<>>
  BY <1>4, <1>5
<1>8. Head(v) = v[1] /\ Tail(v) \in Seq(Octet) /\ Len(Tail(v)) = Len(d)
      /\ \A i \in 1..Len(d) : Tail(v)[i] = v[i + 1]
  BY <1>5, <1>7
<1>9. ASSUME NEW x \in Nat, x \div 256 < 256
      PROVE  /\ x % 256 \in Octet /\ x \div 256 \in Octet
             /\ (x % 256) + 256 * (x \div 256) = x
  BY <1>9 DEF Octet
<1>10. /\ Len(d) % 256 \in Octet /\ Len(d) \div 256 \in Octet
       /\ (Len(d) % 256) + 256 * (Len(d) \div 256) = Len(d)
  BY <1>2, <1>4, <1>9
<1> QED
  BY <1>3, <1>5, <1>6, <1>7, <1>8, <1>10, ZenonT(60)

\* The memory n is m with an entry for t at p.
SimplePut(m, n, p, t, v) ==
  /\ n \in [Bytes -> Octet]
  /\ n[p] = t /\ n[p + 1] = 0 /\ n[p + 2] = v[1]
  /\ EntryBytes(n, p) = Len(v) - 1
  /\ \A i \in 1..(Len(v) - 1) : n[p + 4 + i] = v[i + 1]
  /\ \A c \in Bytes : c < p => n[c] = m[c]

\* What db_write leaves in memory.
SimpleEntry(t, v) ==
  <<t, 0, Head(v), (Len(v) - 1) % 256, (Len(v) - 1) \div 256>> \o Tail(v)
SimpleWritten(m, p, t, v) ==
  [c \in Bytes |-> IF c \in p..(p + Len(SimpleEntry(t, v)) - 1)
                   THEN SimpleEntry(t, v)[c - p + 1] ELSE m[c]]

LEMMA ConcatAt ==
  ASSUME NEW S, NEW a \in Seq(S), NEW b \in Seq(S), NEW i \in 1..Len(b)
  PROVE  (a \o b)[Len(a) + i] = b[i]
<1>1. Len(a) \in Nat /\ Len(b) \in Nat
  OBVIOUS
<1>2. /\ Len(a) + i \in 1..(Len(a) + Len(b)) /\ ~(Len(a) + i <= Len(a))
      /\ Len(a) + i - Len(a) = i
  BY <1>1
<1>3. (a \o b)[Len(a) + i] = b[Len(a) + i - Len(a)]
  BY <1>1, <1>2
<1> QED
  BY <1>2, <1>3

LEMMA SimpleWrittenCells ==
  ASSUME NEW m \in [Bytes -> Octet], NEW p \in Nat, NEW t \in Key,
         NEW v \in Simple!Value, p + 4 + Len(v) <= Cap
  PROVE  /\ SimplePut(m, SimpleWritten(m, p, t, v), p, t, v)
         /\ Len(SimpleEntry(t, v)) = 4 + Len(v)
<1> DEFINE e == SimpleEntry(t, v)
           d == Tail(v)
           L == Len(v)
           n == SimpleWritten(m, p, t, v)
<1>1. /\ L \in Nat /\ L >= 1 /\ Head(v) \in Octet /\ Head(v) = v[1]
      /\ d \in Seq(Octet) /\ Len(d) = L - 1
      /\ \A i \in 1..(L - 1) : d[i] = v[i + 1]
      /\ (L - 1) % 256 \in Octet /\ (L - 1) \div 256 \in Octet
      /\ ((L - 1) % 256) + 256 * ((L - 1) \div 256) = L - 1
  BY SimpleValues
<1>2. t \in Octet /\ 0 \in Octet
  BY DatabasesAssumption DEF Simple!Parameters, Octet
<1>3. Cap \in Nat
  BY DatabasesAssumption DEF Simple!Parameters
<1>4. p + 4 + L <= Cap
  OBVIOUS
<1> DEFINE lo == (L - 1) % 256
           hi == (L - 1) \div 256
<1>5. e = <<t, 0, Head(v), lo, hi>> \o d
  BY DEF SimpleEntry
<1>6. lo \in Octet /\ hi \in Octet /\ lo + 256 * hi = L - 1
  BY <1>1
<1>7. n = [c \in Bytes |-> IF c \in p..(p + Len(e) - 1) THEN e[c - p + 1] ELSE m[c]]
  BY DEF SimpleWritten
<1> HIDE DEF e, d, L, n, lo, hi
<1>8. /\ e \in Seq(Octet) /\ Len(e) = 4 + L
      /\ e[1] = t /\ e[2] = 0 /\ e[3] = Head(v) /\ e[4] = lo /\ e[5] = hi
  BY <1>1, <1>2, <1>5, <1>6
<1>9. ASSUME NEW i \in 1..(L - 1) PROVE e[5 + i] = d[i]
  <2> DEFINE head == <<t, 0, Head(v), lo, hi>>
  <2>1. head \in Seq(Octet) /\ Len(head) = 5
    BY <1>1, <1>2, <1>6
  <2>2. e = head \o d
    BY <1>5
  <2> HIDE DEF head
  <2>3. i \in 1..Len(d) /\ d \in Seq(Octet)
    BY <1>1
  <2>4. (head \o d)[Len(head) + i] = d[i]
    <3>1. \A a, b \in Seq(Octet) : \A j \in 1..Len(b) : (a \o b)[Len(a) + j] = b[j]
      BY ConcatAt
    <3> QED
      BY <2>1, <2>3, <3>1, Zenon
  <2> QED
    BY <2>1, <2>2, <2>4
<1>10. ASSUME NEW j \in 1..(4 + L) PROVE p + j - 1 \in Bytes /\ n[p + j - 1] = e[j]
  <2>1. p + j - 1 \in Bytes
    BY <1>1, <1>3, <1>4 DEF Bytes
  <2>2. p + j - 1 \in p..(p + Len(e) - 1) /\ (p + j - 1) - p + 1 = j
    BY <1>1, <1>8
  <2> QED
    BY <1>7, <2>1, <2>2
<1>11. n \in [Bytes -> Octet]
  <2> SUFFICES ASSUME NEW c \in Bytes
               PROVE  (IF c \in p..(p + Len(e) - 1) THEN e[c - p + 1] ELSE m[c]) \in Octet
    BY <1>7
  <2>1. CASE c \in p..(p + Len(e) - 1)
    <3>1. c - p + 1 \in 1..Len(e)
      BY <1>1, <1>8, <2>1
    <3> QED
      BY <1>8, <2>1, <3>1
  <2> QED
    BY <2>1
<1>12. n[p] = t /\ n[p + 1] = 0 /\ n[p + 2] = v[1] /\ n[p + 3] = lo /\ n[p + 4] = hi
  <2>1. /\ 1 \in 1..(4 + L) /\ 2 \in 1..(4 + L) /\ 3 \in 1..(4 + L)
        /\ 4 \in 1..(4 + L) /\ 5 \in 1..(4 + L)
    BY <1>1
  <2>2. /\ p + 1 - 1 = p /\ p + 2 - 1 = p + 1 /\ p + 3 - 1 = p + 2
        /\ p + 4 - 1 = p + 3 /\ p + 5 - 1 = p + 4
    OBVIOUS
  <2>3. /\ n[p + 1 - 1] = e[1] /\ n[p + 2 - 1] = e[2] /\ n[p + 3 - 1] = e[3]
        /\ n[p + 4 - 1] = e[4] /\ n[p + 5 - 1] = e[5]
    BY <1>10, <2>1
  <2> QED
    BY <1>1, <1>8, <2>2, <2>3
<1>13. ASSUME NEW i \in 1..(L - 1) PROVE n[p + 4 + i] = v[i + 1]
  <2>1. 5 + i \in 1..(4 + L) /\ p + (5 + i) - 1 = p + 4 + i
    BY <1>1
  <2> QED
    <3>1. n[p + (5 + i) - 1] = e[5 + i]
      BY <1>10, <2>1
    <3> QED
      BY <1>1, <1>9, <2>1, <3>1
<1>14. ASSUME NEW c \in Bytes, c < p PROVE n[c] = m[c]
  <2>1. c \notin p..(p + Len(e) - 1)
    BY <1>3, <1>14 DEF Bytes
  <2> QED
    BY <1>7, <2>1
<1>15. EntryBytes(n, p) = L - 1
  BY <1>6, <1>12 DEF EntryBytes
<1> QED
  BY <1>8, <1>11, <1>12, <1>13, <1>14, <1>15 DEF SimplePut, e, L, n

\* The entry at p holds the value, all others are as they were.
SimpleKept(m, n, H, t, v, p) ==
  /\ n[p] = t /\ SimpleData(n, p) = v
  /\ \A x \in H : n[x] = m[x] /\ SimpleData(n, x) = SimpleData(m, x)

\* An entry put behind the last one becomes the last of the chain.
LEMMA SimpleAppends ==
  ASSUME NEW m, NEW n, NEW s, NEW H, SimpleChain(m, s, H),
         NEW t, t \in Key, NEW v, v \in Simple!Value,
         Top(s) + 4 + Len(v) <= Cap, \A o \in H : m[o] # t,
         SimplePut(m, n, Top(s), t, v)
  PROVE  /\ SimpleChain(n, Top(s) + 4 + Len(v), H \cup {Top(s)})
         /\ SimpleKept(m, n, H, t, v, Top(s))
<1> DEFINE p == Top(s)
           L == Len(v)
           u == p + 4 + L
           G == H \cup {p}
           old == SimpleEnds(m, H)
           ends == SimpleEnds(n, G)
<1>1. s \in Nat /\ Cap \in Nat /\ p \in Nat /\ p >= 8
  BY SimpleCells DEF Top
<1>2. /\ L \in Nat /\ L >= 1 /\ v \in Seq(Octet)
      /\ \A i \in 1..(L - 1) : v[i + 1] \in Octet
  BY SimpleValues
<1>3. /\ n \in [Bytes -> Octet]
      /\ n[p] = t /\ n[p + 1] = 0 /\ n[p + 2] = v[1]
      /\ EntryBytes(n, p) = L - 1
      /\ \A i \in 1..(L - 1) : n[p + 4 + i] = v[i + 1]
      /\ \A c \in Bytes : c < p => n[c] = m[c]
  BY DEF SimplePut
<1>4. \A o \in H : o < p /\ Top(s) = s
  BY SimpleCells DEF Top
<1>5. u \in Nat /\ u > 8 /\ u <= Cap
  BY <1>1, <1>2
<1> HIDE DEF L
<1>6. SimpleData(n, p) = v
  <2> DEFINE w == <<n[p + 2]>> \o [i \in 1..(L - 1) |-> n[p + 4 + i]]
  <2>1. SimpleData(n, p) = <<v[1]>> \o [i \in 1..(L - 1) |-> v[i + 1]]
    BY <1>3 DEF SimpleData
  <2>2. [i \in 1..(L - 1) |-> v[i + 1]] \in Seq(Octet)
    BY <1>2
  <2>3. v = <<v[1]>> \o [i \in 1..(L - 1) |-> v[i + 1]]
    BY <1>2, <2>2 DEF L
  <2> QED
    BY <2>1, <2>3
<1>7. ASSUME NEW x \in H
      PROVE  /\ n[x] = m[x] /\ n[x + 1] = m[x + 1]
             /\ EntryBytes(n, x) = EntryBytes(m, x)
             /\ SimpleData(n, x) = SimpleData(m, x)
  <2>1. /\ x \in Nat /\ EntryBytes(m, x) \in Nat /\ x + 5 + EntryBytes(m, x) <= s
        /\ p = s
    BY <1>4, SimpleCells
  <2>2. \A i \in 0..(EntryBytes(m, x) + 4) : x + i \in Bytes /\ x + i < p
    BY <1>1, <2>1, SimpleInside
  <2>3. \A i \in 0..(EntryBytes(m, x) + 4) : n[x + i] = m[x + i]
    BY <1>3, <2>2
  <2>4. /\ n[x + 0] = m[x + 0] /\ n[x + 1] = m[x + 1] /\ n[x + 2] = m[x + 2]
        /\ n[x + 3] = m[x + 3] /\ n[x + 4] = m[x + 4]
    BY <2>1, <2>3, SMTT(60)
  <2>5. EntryBytes(n, x) = EntryBytes(m, x) /\ x + 0 = x
    BY <2>1, <2>4 DEF EntryBytes
  <2>6. ASSUME NEW i \in 1..EntryBytes(m, x) PROVE n[x + 4 + i] = m[x + 4 + i]
    <3>1. 4 + i \in 0..(EntryBytes(m, x) + 4) /\ x + (4 + i) = x + 4 + i
      BY <2>1
    <3> QED
      BY <2>3, <3>1
  <2>7. SimpleData(n, x) = SimpleData(m, x)
    BY <2>4, <2>5, <2>6 DEF SimpleData
  <2> QED
    BY <2>4, <2>5, <2>7
<1>8. /\ \A x \in H : /\ old[x] = x + 5 + EntryBytes(m, x)
                      /\ old[x] \in Nat /\ x < old[x] /\ old[x] \in H \cup {p}
                      /\ x \in Nat /\ x >= 8
      /\ \A x, y \in H : x < y => old[x] <= y
      /\ 8 \in H \cup {p}
  <2>1. \A x \in H : old[x] = x + 5 + EntryBytes(m, x) /\ x \in Nat /\ x >= 8
    BY SimpleCells
  <2> QED
    BY <2>1 DEF SimpleChain, Linked
<1>9. \A x \in H : ends[x] = old[x]
  <2>1. \A x \in H : ends[x] = x + 5 + EntryBytes(n, x)
    BY DEF SimpleEnds
  <2> QED
    BY <1>7, <1>8, <2>1
<1>10. ends[p] = u
  <2>1. ends[p] = p + 5 + (L - 1)
    BY <1>3 DEF SimpleEnds
  <2> QED
    BY <1>1, <1>2, <2>1
<1>11. ends = [x \in G |-> ends[x]]
  BY DEF SimpleEnds
<1> HIDE DEF ends, old
<1>12. Linked(G, 8, u, ends)
  <2>1. p < u
    BY <1>1, <1>2
  <2> HIDE DEF u, p
  <2>2. ends \in [G -> Nat]
    <3>1. \A x \in G : ends[x] \in Nat
      BY <1>5, <1>8, <1>9, <1>10
    <3> QED
      BY <1>11, <3>1
  <2>3. G \subseteq 8..(u - 1) /\ 8 \in G \cup {u}
    <3>1. \A x \in G : x \in Nat /\ x >= 8 /\ x < u
      <4>1. \A x \in H : x \in Nat /\ x >= 8 /\ x < p
        BY <1>4, <1>8
      <4> QED
        BY <1>1, <1>5, <2>1, <4>1
    <3> QED
      BY <1>5, <1>8, <3>1
  <2>4. \A x \in G : x < ends[x] /\ ends[x] \in G \cup {u}
    BY <1>8, <1>9, <1>10, <2>1
  <2>5. \A x, y \in G : x < y => ends[x] <= y
    <3>1. \A x \in H : ends[x] <= p
      BY <1>1, <1>4, <1>8, <1>9, SMTT(60)
    <3>2. \A x \in H : ~(p < x)
      BY <1>1, <1>4, <1>8, SMTT(60)
    <3>3. ~(p < p)
      BY <1>1
    <3> QED
      BY <1>8, <1>9, <3>1, <3>2, <3>3
  <2> QED
    BY <1>5, <2>2, <2>3, <2>4, <2>5 DEF Linked
<1>13. \A x \in G : n[x] \in Key /\ n[x + 1] = 0 /\ SimpleData(n, x) \in Simple!Value
  BY <1>3, <1>6, <1>7 DEF SimpleChain
<1>14. \A x, y \in G : n[x] = n[y] => x = y
  BY <1>3, <1>7 DEF SimpleChain
<1>15. SimpleChain(n, u, G)
  <2>1. Top(u) = u /\ u \in 0..Cap /\ u >= 8
    BY <1>5 DEF Top
  <2> QED
    BY <1>3, <1>12, <1>13, <1>14, <2>1 DEF SimpleChain, ends
<1> QED
  BY <1>3, <1>6, <1>7, <1>15 DEF SimpleKept, L

\* db_delete: the n bytes at p are taken out, what is behind them moves down.
SimpleRemoved(m, s, p, n) ==
  [c \in Bytes |-> IF c >= p /\ c < s - n THEN m[c + n] ELSE m[c]]
Moved(p, n, x) == IF x < p THEN x ELSE x - n
MovedAll(H, p, n) == {Moved(p, n, x) : x \in H \ {p}}

\* All other entries are kept, at their new places.
SimpleShifted(m, r, H, p, n) ==
  \A x \in H \ {p} : /\ r[Moved(p, n, x)] = m[x]
                     /\ SimpleData(r, Moved(p, n, x)) = SimpleData(m, x)

LEMMA SimpleRemoves ==
  ASSUME NEW m, NEW s, NEW H, SimpleChain(m, s, H), NEW p \in H, NEW n, NEW r,
         n = 5 + EntryBytes(m, p), r = SimpleRemoved(m, s, p, n)
  PROVE  /\ SimpleChain(r, s - n, MovedAll(H, p, n))
         /\ SimpleShifted(m, r, H, p, n)
<1> DEFINE mv(x) == Moved(p, n, x)
           G == MovedAll(H, p, n)
           old == SimpleEnds(m, H)
           ends == SimpleEnds(r, G)
           u == s - n
           B(x) == EntryBytes(m, x)
<1>1. s \in Nat /\ s <= Cap /\ Cap \in Nat
  BY SimpleCells
<1>2. \A x \in H : /\ x \in Nat /\ x >= 8 /\ x < s /\ s > 8 /\ B(x) \in Nat
                   /\ x + 5 + B(x) <= s /\ old[x] = x + 5 + B(x)
  BY SimpleCells
<1>3. n \in Nat /\ n >= 5 /\ p \in Nat /\ p >= 8 /\ p + n <= s /\ old[p] = p + n
  <2>1. p \in Nat /\ p >= 8 /\ B(p) \in Nat /\ p + 5 + B(p) <= s /\ old[p] = p + 5 + B(p)
    BY <1>2
  <2>2. n = 5 + B(p)
    OBVIOUS
  <2> HIDE DEF B, old
  <2> QED
    BY <2>1, <2>2
<1>4. Top(s) = s /\ s > 8
  BY <1>1, <1>2 DEF Top
<1>5. /\ \A x \in H : old[x] \in H \cup {s}
      /\ \A x, y \in H : x < y => old[x] <= y
      /\ 8 \in H
  BY <1>4 DEF SimpleChain, Linked
<1>6. u \in Nat /\ u >= p /\ u >= 8 /\ u <= Cap /\ Top(u) = u
  BY <1>1, <1>3 DEF Top
<1>7. m \in [Bytes -> Octet]
  BY DEF SimpleChain
<1>8. \A x \in H : x < p => old[x] <= p
  BY <1>5
<1>9. \A x \in H : x > p => p + n <= x
  BY <1>3, <1>5
<1> HIDE DEF old
\* Where each byte of the new memory comes from.
<1>10. r \in [Bytes -> Octet]
  <2> SUFFICES ASSUME NEW c \in Bytes, c >= p, c < s - n PROVE m[c + n] \in Octet
    BY <1>7 DEF SimpleRemoved
  <2>1. c + n \in Bytes
    BY <1>1, <1>3 DEF Bytes
  <2> QED
    BY <1>7, <2>1
<1>11. ASSUME NEW x \in H \ {p}, NEW i \in 0..(B(x) + 4) PROVE r[mv(x) + i] = m[x + i]
  <2>1. /\ x \in Nat /\ B(x) \in Nat /\ x + 5 + B(x) <= s /\ i \in Nat
        /\ x + i < x + 5 + B(x) /\ old[x] = x + 5 + B(x)
    BY <1>2
  <2> HIDE DEF B
  <2>2. CASE x < p
    <3>1. mv(x) = x /\ x + i < p
      BY <1>3, <1>8, <2>1, <2>2 DEF Moved
    <3>2. x + i \in Bytes /\ ~(x + i >= p)
      BY <1>1, <1>3, <2>1, <3>1 DEF Bytes
    <3> QED
      BY <3>1, <3>2 DEF SimpleRemoved
  <2>3. CASE ~(x < p)
    <3>1. mv(x) = x - n /\ p + n <= x
      BY <1>3, <1>9, <2>1, <2>3 DEF Moved
    <3> DEFINE c == mv(x) + i
    <3>2. c \in Bytes /\ c >= p /\ c < s - n /\ c + n = x + i
      BY <1>1, <1>3, <2>1, <3>1 DEF Bytes
    <3> HIDE DEF c
    <3>3. r[c] = m[c + n]
      BY <3>2 DEF SimpleRemoved
    <3> QED
      BY <3>2, <3>3 DEF c
  <2> QED
    BY <2>2, <2>3
<1>12. ASSUME NEW x \in H \ {p}
       PROVE  /\ r[mv(x)] = m[x] /\ r[mv(x) + 1] = m[x + 1]
              /\ EntryBytes(r, mv(x)) = B(x)
              /\ SimpleData(r, mv(x)) = SimpleData(m, x)
  <2>0. x \in Nat /\ B(x) \in Nat /\ mv(x) \in Int
    BY <1>2, <1>3 DEF Moved
  <2>1. \A i \in 0..(B(x) + 4) : r[mv(x) + i] = m[x + i]
    BY <1>11
  <2>2. /\ 0 \in 0..(B(x) + 4) /\ 1 \in 0..(B(x) + 4) /\ 2 \in 0..(B(x) + 4)
        /\ 3 \in 0..(B(x) + 4) /\ 4 \in 0..(B(x) + 4)
    BY <2>0
  <2> DEFINE y == mv(x)
  <2> HIDE DEF y
  <2>3. /\ r[y + 0] = m[x + 0] /\ r[y + 1] = m[x + 1] /\ r[y + 2] = m[x + 2]
        /\ r[y + 3] = m[x + 3] /\ r[y + 4] = m[x + 4]
    BY <2>1, <2>2 DEF y
  <2>4. y + 0 = y /\ x + 0 = x
    BY <2>0 DEF y
  <2>5. EntryBytes(r, y) = B(x)
    BY <2>3 DEF EntryBytes
  <2>6. ASSUME NEW i \in 1..B(x) PROVE r[y + 4 + i] = m[x + 4 + i]
    <3>1. 4 + i \in 0..(B(x) + 4) /\ y + (4 + i) = y + 4 + i /\ x + (4 + i) = x + 4 + i
      BY <2>0 DEF y
    <3>2. r[y + (4 + i)] = m[x + (4 + i)]
      BY <2>1, <3>1 DEF y
    <3> QED
      BY <3>1, <3>2
  <2>7. SimpleData(r, y) = SimpleData(m, x)
    BY <2>3, <2>5, <2>6 DEF SimpleData
  <2> QED
    BY <2>3, <2>4, <2>5, <2>7 DEF y
<1>13. SimpleShifted(m, r, H, p, n)
  BY <1>12 DEF SimpleShifted
\* The chain at the new places.
<1>14. ASSUME NEW x \in H \ {p}
       PROVE  /\ mv(x) \in Nat /\ mv(x) >= 8 /\ mv(x) < u
              /\ ends[mv(x)] = mv(x) + 5 + B(x) /\ ends[mv(x)] \in Nat
              /\ mv(x) < ends[mv(x)]
              /\ ends[mv(x)] = IF x < p THEN old[x] ELSE old[x] - n
  <2>1. mv(x) \in G
    BY DEF MovedAll
  <2>2. ends[mv(x)] = mv(x) + 5 + B(x)
    <3>1. ends[mv(x)] = mv(x) + 5 + EntryBytes(r, mv(x))
      BY <2>1 DEF SimpleEnds
    <3> QED
      BY <1>12, <3>1
  <2>3. x \in Nat /\ x >= 8 /\ x < s /\ B(x) \in Nat /\ old[x] = x + 5 + B(x)
    BY <1>2
  <2> HIDE DEF ends, B, u
  <2>4. CASE x < p
    <3>1. mv(x) = x
      BY <2>4 DEF Moved
    <3> QED
      BY <1>3, <1>6, <2>2, <2>3, <2>4, <3>1
  <2>5. CASE ~(x < p)
    <3>1. mv(x) = x - n /\ p + n <= x
      BY <1>3, <1>9, <2>3, <2>5 DEF Moved
    <3>2. x - n \in Nat /\ x - n >= 8 /\ x - n < u
      BY <1>1, <1>3, <2>3, <3>1 DEF u
    <3> QED
      BY <1>3, <2>2, <2>3, <2>5, <3>1, <3>2
  <2> QED
    BY <2>4, <2>5
<1>15. \A g \in G : \E x \in H \ {p} : g = mv(x)
  BY DEF MovedAll
<1>16. ends = [g \in G |-> ends[g]]
  BY DEF SimpleEnds
<1> HIDE DEF ends, B
<1>17. p \in G \cup {u}
  <2>1. CASE p + n = s
    BY <1>1, <1>3, <2>1
  <2>2. CASE p + n # s
    <3>1. p + n \in H
      BY <1>3, <1>5, <2>2
    <3>2. p + n # p /\ Moved(p, n, p + n) = p
      BY <1>3 DEF Moved
    <3> QED
      BY <3>1, <3>2 DEF MovedAll
  <2> QED
    BY <2>1, <2>2
<1>18. 8 \in G \cup {u}
  <2>1. CASE p = 8
    BY <1>17, <2>1
  <2>2. CASE p # 8
    <3>1. 8 < p
      BY <1>3, <2>2
    <3>2. Moved(p, n, 8) = 8 /\ 8 \in H \ {p}
      BY <1>5, <2>2, <3>1 DEF Moved
    <3> QED
      BY <3>2 DEF MovedAll
  <2> QED
    BY <2>1, <2>2
<1>19. ASSUME NEW x \in H \ {p} PROVE ends[mv(x)] \in G \cup {u}
  <2>0. /\ x \in Nat /\ old[x] \in Nat /\ old[x] \in H \cup {s} /\ x < old[x]
        /\ \A y \in H : y \in Nat /\ y < s
    <3>1. B(x) \in Nat /\ x \in Nat /\ old[x] = x + 5 + B(x)
      BY <1>2
    <3>2. x < old[x] /\ old[x] \in Nat
      BY <3>1
    <3> QED
      BY <1>2, <1>5, <3>1, <3>2
  <2>1. CASE x < p
    <3>1. ends[mv(x)] = old[x] /\ old[x] <= p
      BY <1>8, <1>14, <2>1
    <3>2. old[x] \in H
      BY <1>1, <1>3, <2>0, <3>1
    <3>3. CASE old[x] = p
      BY <1>17, <3>1, <3>3
    <3>4. CASE old[x] # p
      <4>1. old[x] < p
        <5>1. old[x] \in Nat /\ old[x] <= p /\ old[x] # p
          BY <2>0, <3>1, <3>4
        <5> QED
          BY <1>3, <5>1
      <4>2. Moved(p, n, old[x]) = old[x]
        BY <4>1 DEF Moved
      <4> QED
        BY <3>1, <3>2, <3>4, <4>2 DEF MovedAll
    <3> QED
      BY <3>3, <3>4
  <2>2. CASE ~(x < p)
    <3>1. ends[mv(x)] = old[x] - n
      BY <1>14, <2>2
    <3>2. CASE old[x] = s
      BY <3>1, <3>2
    <3>3. CASE old[x] # s
      <4>0. old[x] \in H /\ x \in Nat /\ old[x] \in Nat /\ x < old[x]
        BY <2>0, <3>3
      <4>1. old[x] \in H /\ ~(old[x] < p) /\ old[x] # p
        BY <1>3, <2>2, <4>0
      <4>2. Moved(p, n, old[x]) = old[x] - n
        BY <4>1 DEF Moved
      <4> QED
        BY <3>1, <4>1, <4>2 DEF MovedAll
    <3> QED
      BY <3>2, <3>3
  <2> QED
    BY <2>1, <2>2
<1>20. ASSUME NEW x \in H \ {p}, NEW y \in H \ {p}, mv(x) < mv(y)
       PROVE  ends[mv(x)] <= mv(y)
  <2>0. x \in Nat /\ y \in Nat
    BY <1>2
  <2>01. old[x] \in Nat
    <3>1. B(x) \in Nat /\ old[x] = x + 5 + B(x)
      BY <1>2
    <3> QED
      BY <2>0, <3>1
  <2>1. (x > p => p + n <= x) /\ (y > p => p + n <= y)
    BY <1>9
  <2>2. x < y
    <3>1. CASE x < p
      BY <1>3, <1>20, <2>0, <2>1, <3>1 DEF Moved
    <3>2. CASE x > p
      BY <1>3, <1>20, <2>0, <2>1, <3>2 DEF Moved
    <3> QED
      BY <1>3, <2>0, <3>1, <3>2
  <2>3. old[x] <= y
    BY <1>5, <2>2
  <2>4. CASE y < p
    <3>1. ends[mv(x)] = old[x] /\ mv(y) = y
      BY <1>3, <1>14, <2>0, <2>2, <2>4 DEF Moved
    <3> QED
      BY <2>3, <3>1
  <2>5. CASE ~(y < p) /\ x < p
    <3>1. ends[mv(x)] = old[x] /\ mv(y) = y - n /\ old[x] <= p
      BY <1>8, <1>14, <2>5 DEF Moved
    <3>2. p + n <= y
      BY <1>3, <2>0, <2>1, <2>5
    <3> QED
      BY <1>3, <2>0, <2>01, <3>1, <3>2
  <2>6. CASE ~(y < p) /\ ~(x < p)
    <3>1. ends[mv(x)] = old[x] - n /\ mv(y) = y - n
      BY <1>14, <2>6 DEF Moved
    <3> QED
      BY <1>3, <2>0, <2>01, <2>3, <3>1
  <2> QED
    BY <2>4, <2>5, <2>6
<1>21. Linked(G, 8, u, ends)
  <2>1. \A g \in G : g \in Nat /\ g >= 8 /\ g < u /\ ends[g] \in Nat /\ g < ends[g]
    BY <1>14, <1>15
  <2>2. \A g \in G : ends[g] \in G \cup {u}
    BY <1>15, <1>19
  <2>3. \A g, h \in G : g < h => ends[g] <= h
    BY <1>15, <1>20
  <2> HIDE DEF G, u
  <2>4. G \subseteq 8..(u - 1)
    BY <1>6, <2>1
  <2>5. ends \in [G -> Nat]
    BY <1>16, <2>1
  <2> QED
    BY <1>6, <1>18, <2>1, <2>2, <2>3, <2>4, <2>5 DEF Linked
<1>22. \A g \in G : r[g] \in Key /\ r[g + 1] = 0 /\ SimpleData(r, g) \in Simple!Value
  BY <1>12, <1>15 DEF SimpleChain
<1>23. \A g, h \in G : r[g] = r[h] => g = h
  <2>1. \A x, y \in H : m[x] = m[y] => x = y
    BY DEF SimpleChain
  <2> QED
    BY <1>12, <1>15, <2>1
<1>24. SimpleChain(r, u, G)
  <2>1. u \in 0..Cap
    BY <1>1, <1>6
  <2> QED
    BY <1>6, <1>10, <1>21, <1>22, <1>23, <2>1 DEF SimpleChain, ends
<1> QED
  BY <1>13, <1>24

\* Putting and taking out change the map at the tag and nowhere else.
Lacks(m, H, t) == \A o \in H : m[o] # t
SimpleWrote(m, s, n, u, t, v) ==
  /\ \E G : SimpleChain(n, u, G)
  /\ SimpleMap(n, u) = [SimpleMap(m, s) EXCEPT ![t] = v]

LEMMA SimpleMapWritten ==
  ASSUME NEW m, NEW n, NEW s, NEW u, NEW H, SimpleChain(m, s, H),
         NEW t, t \in Key, NEW v, v \in Simple!Value,
         u = Top(s) + 4 + Len(v), u <= Cap, Lacks(m, H, t),
         SimplePut(m, n, Top(s), t, v)
  PROVE  SimpleWrote(m, s, n, u, t, v)
<1> DEFINE p == Top(s)
           G == H \cup {p}
<1>1. SimpleChain(n, u, G) /\ SimpleKept(m, n, H, t, v, p)
  BY SimpleAppends DEF Lacks
<1> HIDE DEF p
<1>2. SimpleMap(n, u)[t] = v
  BY <1>1, SimpleMapIs DEF SimpleKept
<1>3. ASSUME NEW j \in Key, j # t PROVE SimpleMap(n, u)[j] = SimpleMap(m, s)[j]
  <2>1. CASE \E o \in H : m[o] = j
    <3>1. PICK o \in H : m[o] = j
      BY <2>1
    <3>2. n[o] = j /\ SimpleData(n, o) = SimpleData(m, o)
      BY <1>1, <3>1 DEF SimpleKept
    <3>3. SimpleMap(m, s)[j] = SimpleData(m, o)
      BY <3>1, SimpleMapIs
    <3>4. SimpleMap(n, u)[j] = SimpleData(n, o)
      BY <1>1, <3>2, SimpleMapIs
    <3> QED
      BY <3>2, <3>3, <3>4
  <2>2. CASE \A o \in H : m[o] # j
    <3>1. \A o \in G : n[o] # j
      BY <1>1, <1>3, <2>2 DEF SimpleKept
    <3>2. SimpleMap(m, s)[j] = Absent
      BY <2>2, SimpleMapIs
    <3>3. SimpleMap(n, u)[j] = Absent
      BY <1>1, <3>1, SimpleMapIs
    <3> QED
      BY <3>2, <3>3
  <2> QED
    BY <2>1, <2>2
<1>4. SimpleMap(n, u) = [SimpleMap(m, s) EXCEPT ![t] = v]
  BY <1>2, <1>3 DEF SimpleMap
<1> QED
  BY <1>1, <1>4 DEF SimpleWrote

LEMMA SimpleMapRemoved ==
  ASSUME NEW m, NEW s, NEW H, SimpleChain(m, s, H), NEW p \in H, NEW n, NEW r,
         n = 5 + EntryBytes(m, p), r = SimpleRemoved(m, s, p, n)
  PROVE  /\ \E G : SimpleChain(r, s - n, G) /\ \A o \in G : r[o] # m[p]
         /\ SimpleMap(r, s - n) = [SimpleMap(m, s) EXCEPT ![m[p]] = Absent]
         /\ s - n \in 8..Cap
<1> DEFINE G == MovedAll(H, p, n)
           t == m[p]
<1>1. SimpleChain(r, s - n, G) /\ SimpleShifted(m, r, H, p, n)
  BY SimpleRemoves
<1>2. t \in Key /\ \A x \in H : m[x] = t => x = p
  BY DEF SimpleChain
<1>3. \A g \in G : \E x \in H \ {p} : g = Moved(p, n, x)
  BY DEF MovedAll
<1>4. \A x \in H \ {p} : Moved(p, n, x) \in G
  BY DEF MovedAll
<1> HIDE DEF G
<1>5. \A x \in H \ {p} : /\ r[Moved(p, n, x)] = m[x]
                         /\ SimpleData(r, Moved(p, n, x)) = SimpleData(m, x)
  BY <1>1 DEF SimpleShifted
<1>6. \A g \in G : r[g] # t
  BY <1>2, <1>3, <1>5
<1>7. SimpleMap(r, s - n)[t] = Absent
  BY <1>1, <1>2, <1>6, SimpleMapIs
<1>8. ASSUME NEW j \in Key, j # t PROVE SimpleMap(r, s - n)[j] = SimpleMap(m, s)[j]
  <2>1. CASE \E o \in H : m[o] = j
    <3>1. PICK o \in H : m[o] = j
      BY <2>1
    <3> DEFINE g == Moved(p, n, o)
    <3>2. g \in G /\ r[g] = j /\ SimpleData(r, g) = SimpleData(m, o)
      BY <1>4, <1>5, <1>8, <3>1
    <3> HIDE DEF g
    <3>3. SimpleMap(m, s)[j] = SimpleData(m, o)
      BY <3>1, SimpleMapIs
    <3>4. SimpleMap(r, s - n)[j] = SimpleData(r, g)
      BY <1>1, <3>2, SimpleMapIs
    <3> QED
      BY <3>2, <3>3, <3>4
  <2>2. CASE \A o \in H : m[o] # j
    <3>1. \A g \in G : r[g] # j
      BY <1>3, <1>5, <2>2
    <3>2. SimpleMap(m, s)[j] = Absent
      BY <2>2, SimpleMapIs
    <3>3. SimpleMap(r, s - n)[j] = Absent
      BY <1>1, <3>1, SimpleMapIs
    <3> QED
      BY <3>2, <3>3
  <2> QED
    BY <2>1, <2>2
<1>9. SimpleMap(r, s - n) = [SimpleMap(m, s) EXCEPT ![t] = Absent]
  BY <1>7, <1>8 DEF SimpleMap
<1>10. s - n \in 8..Cap
  <2>1. /\ s \in Nat /\ s <= Cap /\ Cap \in Nat /\ p \in Nat /\ p >= 8
        /\ EntryBytes(m, p) \in Nat /\ p + 5 + EntryBytes(m, p) <= s
    BY SimpleCells
  <2> QED
    BY <2>1
<1> QED
  BY <1>1, <1>6, <1>9, <1>10

-----------------------------------------------------------------------------
(***************************************************************************)
(* simple_db: every step keeps the chain and is a step of the map.         *)
(***************************************************************************)
SimpleInv == Simple!TypeOK /\ \E H : SimpleChain(mem, dbsize, H)

\* Simple!ValueOf and Simple!Store, for any memory.
SimpleValueAt(m, p) ==
  <<SimpleAt(m, p + 2)>> \o [i \in 1..SimpleSize(m, p + 3) |-> SimpleAt(m, p + 4 + i)]
SimpleStore(m, s) ==
  [t \in Key |-> IF SimpleFind(m, s, t) = 0 THEN Absent
                 ELSE SimpleValueAt(m, SimpleFind(m, s, t))]

LEMMA SimpleReads ==
  /\ \A t : Simple!find_data(t) = SimpleFind(mem, dbsize, t)
  /\ Simple!db_get_nof_tags = SimpleTags(mem, dbsize)
  /\ \A t : Simple!ValueOf(t) = SimpleValueAt(mem, SimpleFind(mem, dbsize, t))
  /\ Simple!Store = SimpleStore(mem, dbsize)
  /\ Simple!Store' = SimpleStore(mem', dbsize')
<1>1. \A p : Simple!At(p) = SimpleAt(mem, p) /\ Simple!At(p)' = SimpleAt(mem', p)
  BY DEF Simple!At, Simple!Cell, SimpleAt
<1>4. \A p : Simple!SizeAt(p) = SimpleSize(mem, p) /\ Simple!SizeAt(p)' = SimpleSize(mem', p)
  BY <1>1 DEF Simple!SizeAt, SimpleSize
<1>7. \A t : Simple!find_data(t) = SimpleFind(mem, dbsize, t)
  BY DEF Simple!find_data, Simple!FIRST, SimpleFind, SimpleLoop, Simple!IsTag, SimpleTag,
      Simple!NextEntry, Simple!strlen, Simple!SizeAt, Simple!At,
      Simple!Cell, SimpleNext, SimpleLen, SimpleSize, SimpleAt
<1>8. \A t : Simple!find_data(t)' = SimpleFind(mem', dbsize', t)
  BY DEF Simple!find_data, Simple!FIRST, SimpleFind, SimpleLoop, Simple!IsTag, SimpleTag,
      Simple!NextEntry, Simple!strlen, Simple!SizeAt, Simple!At,
      Simple!Cell, SimpleNext, SimpleLen, SimpleSize, SimpleAt
<1>9. Simple!db_get_nof_tags = SimpleTags(mem, dbsize)
  BY DEF Simple!db_get_nof_tags, Simple!FIRST, SimpleTags, SimpleCounter,
      Simple!NextEntry, Simple!strlen, Simple!SizeAt, Simple!At,
      Simple!Cell, SimpleNext, SimpleLen, SimpleSize, SimpleAt
<1>10. \A t : Simple!ValueOf(t) = SimpleValueAt(mem, SimpleFind(mem, dbsize, t))
  BY <1>1, <1>4, <1>7 DEF Simple!ValueOf, SimpleValueAt
<1>11. \A t : Simple!ValueOf(t)' = SimpleValueAt(mem', SimpleFind(mem', dbsize', t))
  BY <1>1, <1>4, <1>8 DEF Simple!ValueOf, SimpleValueAt
<1>12. Simple!Store = SimpleStore(mem, dbsize)
  BY <1>7, <1>10 DEF Simple!Store, SimpleStore
<1>13. Simple!Store' = SimpleStore(mem', dbsize')
  BY <1>8, <1>11 DEF Simple!Store, SimpleStore
<1> QED
  BY <1>7, <1>9, <1>10, <1>12, <1>13

LEMMA SimpleStoreIsMap ==
  ASSUME NEW m, NEW s, NEW H, SimpleChain(m, s, H)
  PROVE  /\ \A o \in H : /\ SimpleValueAt(m, o) = SimpleData(m, o)
                         /\ SimpleSize(m, o + 3) = EntryBytes(m, o)
                         /\ SimpleAt(m, o + 2) = m[o + 2]
         /\ SimpleStore(m, s) = SimpleMap(m, s)
<1>1. ASSUME NEW o \in H
      PROVE  /\ SimpleValueAt(m, o) = SimpleData(m, o)
             /\ SimpleSize(m, o + 3) = EntryBytes(m, o)
             /\ SimpleAt(m, o + 2) = m[o + 2]
  <2>1. o \in Nat /\ EntryBytes(m, o) \in Nat
    BY SimpleCells
  <2>2. \A i \in 0..(EntryBytes(m, o) + 4) : SimpleAt(m, o + i) = m[o + i]
    BY SimpleInside
  <2>3. /\ 2 \in 0..(EntryBytes(m, o) + 4) /\ 3 \in 0..(EntryBytes(m, o) + 4)
        /\ 4 \in 0..(EntryBytes(m, o) + 4) /\ o + 3 + 1 = o + 4
    BY <2>1
  <2>4. /\ SimpleAt(m, o + 2) = m[o + 2] /\ SimpleAt(m, o + 3) = m[o + 3]
        /\ SimpleAt(m, o + 3 + 1) = m[o + 4]
    BY <2>2, <2>3
  <2>5. SimpleSize(m, o + 3) = EntryBytes(m, o)
    BY <2>4 DEF SimpleSize, EntryBytes
  <2>6. ASSUME NEW i \in 1..EntryBytes(m, o) PROVE SimpleAt(m, o + 4 + i) = m[o + 4 + i]
    <3>1. 4 + i \in 0..(EntryBytes(m, o) + 4) /\ o + (4 + i) = o + 4 + i
      BY <2>1
    <3>2. SimpleAt(m, o + (4 + i)) = m[o + (4 + i)]
      BY <2>2, <3>1
    <3> QED
      BY <3>1, <3>2
  <2>7. SimpleValueAt(m, o) = SimpleData(m, o)
    BY <2>4, <2>5, <2>6 DEF SimpleValueAt, SimpleData
  <2> QED
    BY <2>4, <2>5, <2>7
<1>2. \A t : SimpleFind(m, s, t) # 0 => SimpleFind(m, s, t) \in H
  BY SimpleFinds
<1>3. SimpleStore(m, s) = SimpleMap(m, s)
  BY <1>1, <1>2 DEF SimpleStore, SimpleMap
<1> QED
  BY <1>1, <1>3

\* db_write to any chain without the tag.
LEMMA SimpleWrites ==
  ASSUME NEW m, NEW s, NEW G, SimpleChain(m, s, G), NEW t, t \in Key,
         NEW v, v \in Simple!Value, Lacks(m, G, t),
         Simple!Appended(m, s, t, v).size <= Cap
  PROVE  LET new == Simple!Appended(m, s, t, v) IN
         new.size \in 8..Cap /\ SimpleWrote(m, s, new.m, new.size, t, v)
<1> DEFINE p == Top(s)
           n == SimpleWritten(m, p, t, v)
           u == p + Len(SimpleEntry(t, v))
<1>1. Simple!Appended(m, s, t, v) = [m |-> n, size |-> u]
  BY DEF Simple!Appended, Simple!Cell, Simple!FIRST, SimpleWritten, SimpleEntry, Top, Bytes
<1> HIDE DEF n, u, p
<1>2. Simple!Appended(m, s, t, v).size = u /\ Simple!Appended(m, s, t, v).m = n
  BY <1>1
<1>3. m \in [Bytes -> Octet] /\ Cap \in Nat /\ s \in Nat
  BY SimpleCells DEF SimpleChain
<1>4. p \in Nat /\ p >= 8
  BY <1>3 DEF p, Top
<1>5. Len(SimpleEntry(t, v)) = 4 + Len(v) /\ Len(v) \in Nat
  <2>1. /\ Len(v) \in Nat /\ Len(v) >= 1 /\ Tail(v) \in Seq(Octet)
        /\ Len(Tail(v)) = Len(v) - 1
    BY SimpleValues
  <2> QED
    BY <2>1 DEF SimpleEntry
<1>6. u = p + 4 + Len(v) /\ u <= Cap
  BY <1>2, <1>4, <1>5 DEF u
<1>7. SimplePut(m, n, p, t, v)
  BY <1>3, <1>4, <1>6, SimpleWrittenCells DEF n
<1>8. SimpleWrote(m, s, n, u, t, v)
  <2>1. u = Top(s) + 4 + Len(v) /\ u <= Cap /\ SimplePut(m, n, Top(s), t, v)
    BY <1>6, <1>7 DEF p
  <2> QED
    BY <2>1, SimpleMapWritten
<1>9. u \in 8..Cap
  BY <1>3, <1>4, <1>5, <1>6
<1> QED
  BY <1>2, <1>8, <1>9

LEMMA SimpleInit ==
  ASSUME Simple!Init
  PROVE  SimpleInv /\ Simple!Store = [k \in Key |-> Absent]
<1>1. Cap \in Nat
  BY DatabasesAssumption DEF Simple!Parameters
<1>2. mem = [c \in Bytes |-> 255] /\ dbsize = 0
  BY DEF Simple!Init, Simple!Cell, Bytes
<1>3. mem \in [Bytes -> Octet]
  BY <1>2 DEF Octet
<1>4. SimpleChain(mem, dbsize, {})
  BY <1>1, <1>2, <1>3 DEF SimpleChain, Linked, SimpleEnds, Top
<1>5. \A t : SimpleFind(mem, dbsize, t) = 0
  BY <1>2 DEF SimpleFind
<1>6. Simple!Store = [k \in Key |-> Absent]
  BY <1>5, SimpleReads DEF SimpleStore
<1>7. Simple!TypeOK
  BY <1>1, <1>3 DEF Simple!Init, Simple!TypeOK, Simple!Cell, Bytes, Octet
<1> QED
  BY <1>4, <1>6, <1>7 DEF SimpleInv

\* The CRC has a byte for each byte behind the header.
LEMMA SimpleCrc ==
  ASSUME NEW m \in [Bytes -> Octet], NEW s \in 8..Cap
  PROVE  Simple!CrcOf(m, s) \in Seq(Octet)
<1>1. Cap \in Nat
  BY DatabasesAssumption DEF Simple!Parameters
<1>2. s - 8 \in Nat
  BY <1>1
<1>3. \A i \in 1..(s - 8) : 8 + i - 1 \in Bytes
  BY <1>1 DEF Bytes
<1>4. \A i \in 1..(s - 8) : m[8 + i - 1] \in Octet
  BY <1>3
<1> QED
  BY <1>2, <1>4 DEF Simple!CrcOf, Simple!FIRST

LEMMA SimpleDbSteps ==
  ASSUME EightBit, SimpleInv, Simple!Next
  PROVE  SimpleInv' /\ MapStep(Simple!Store, Simple!Store')
<1>1. PICK H : SimpleChain(mem, dbsize, H)
  BY DEF SimpleInv
<1> DEFINE S == SimpleMap(mem, dbsize)
<1>2. Simple!Store = S
  BY <1>1, SimpleReads, SimpleStoreIsMap
<1>3. mem \in [Bytes -> Octet] /\ dbsize \in 0..Cap /\ crc \in Seq(Octet) /\ crc_func \in BOOLEAN
  BY DEF SimpleInv, Simple!TypeOK, Simple!Cell, Bytes, Octet
<1>4. ASSUME UNCHANGED <<mem, dbsize, crc, crc_func>>,
             NEW st \in {"ok", "exists", "absent"}, NEW a,
             answer' = [status |-> st, value |-> a]
      PROVE  SimpleInv' /\ Simple!Store' = S
  <2>1. SimpleChain(mem', dbsize', H)
    BY <1>1, <1>4
  <2>2. Simple!Store' = S
    BY <1>2, <1>4, SimpleReads
  <2>3. Simple!TypeOK'
    BY <1>4 DEF SimpleInv, Simple!TypeOK, Simple!Cell
  <2> QED
    BY <2>1, <2>2, <2>3 DEF SimpleInv
\* What update_db leaves, for the memory and size it is given.
<1>5. ASSUME NEW m, NEW s \in 8..Cap, NEW G, SimpleChain(m, s, G),
             Simple!update_db(m, s), crc_func' = crc_func,
             answer' = [status |-> "ok", value |-> Absent]
      PROVE  SimpleInv' /\ Simple!Store' = SimpleMap(m, s)
  <2>1. mem' = m /\ dbsize' = s /\ crc' = IF crc_func THEN Simple!CrcOf(m, s) ELSE crc
    BY <1>5 DEF Simple!update_db
  <2>2. SimpleChain(mem', dbsize', G)
    BY <1>5, <2>1
  <2>3. Simple!Store' = SimpleMap(m, s)
    BY <2>1, <2>2, SimpleReads, SimpleStoreIsMap
  <2>4. m \in [Bytes -> Octet]
    BY <1>5 DEF SimpleChain
  <2>5. crc' \in Seq(Octet)
    BY <1>3, <2>1, <2>4, SimpleCrc
  <2>6. s \in 0..Cap
    OBVIOUS
  <2>7. Simple!TypeOK'
    BY <1>3, <1>5, <2>1, <2>4, <2>5, <2>6 DEF Simple!TypeOK, Simple!Cell, Bytes, Octet
  <2> QED
    BY <2>2, <2>3, <2>7 DEF SimpleInv
\* What db_delete takes out: with elements of one byte, the whole entry.
<1>6. ASSUME NEW t \in Key, Simple!find_data(t) # 0
      PROVE  LET old == Simple!Removed(t) IN
             /\ old.size \in 8..Cap
             /\ \E G : SimpleChain(old.m, old.size, G) /\ Lacks(old.m, G, t)
             /\ SimpleMap(old.m, old.size) = [S EXCEPT ![t] = Absent]
  <2> DEFINE p == SimpleFind(mem, dbsize, t)
             n == 5 + EntryBytes(mem, p)
             r == SimpleRemoved(mem, dbsize, p, n)
  <2>1. Simple!find_data(t) = p /\ p \in H /\ mem[p] = t
    BY <1>1, <1>6, SimpleReads, SimpleFinds
  <2>2. EntryBytes(mem, p) \in Nat
    BY <1>1, <2>1, SimpleCells
  <2>3. Simple!BytesOf(t) = EntryBytes(mem, p) /\ Simple!db_get_type(t) = mem[p + 2]
    <3>1. SimpleSize(mem, p + 3) = EntryBytes(mem, p) /\ SimpleAt(mem, p + 2) = mem[p + 2]
      BY <1>1, <2>1, SimpleStoreIsMap
    <3> HIDE DEF p
    <3> QED
      BY <2>1, <3>1
      DEF Simple!BytesOf, Simple!db_get_type, Simple!SizeAt, Simple!At, Simple!Cell,
          SimpleSize, SimpleAt
  <2>4. mem[p + 2] \in {0, 1}
    <3>1. SimpleData(mem, p) \in Simple!Value
      BY <1>1, <2>1 DEF SimpleChain
    <3>2. SimpleData(mem, p)[1] \in Types
      BY <3>1, SimpleValues
    <3>3. SimpleData(mem, p)[1] = mem[p + 2]
      <4>1. [i \in 1..EntryBytes(mem, p) |-> mem[p + 4 + i]]
              \in Seq({mem[p + 4 + i] : i \in 1..EntryBytes(mem, p)})
        BY <2>2
      <4> HIDE DEF p
      <4> QED
        BY <4>1 DEF SimpleData
    <3> QED
      BY <3>2, <3>3 DEF EightBit
  <2>5. Simple!EntryLength(t) = n
    <3>1. Simple!Width(mem[p + 2]) = 1
      BY <2>4 DEF Simple!Width, Simple!DB_16b, Simple!DB_32b
    <3>2. EntryBytes(mem, p) \div 1 = EntryBytes(mem, p)
      BY <2>2
    <3> HIDE DEF p
    <3> QED
      BY <2>2, <2>3, <3>1, <3>2 DEF Simple!EntryLength, Simple!db_get_entry_size
  <2>6. Simple!Removed(t) = [m |-> r, size |-> dbsize - n]
    <3> HIDE DEF p, n
    <3> QED
      BY <2>1, <2>5 DEF Simple!Removed, Simple!Cell, SimpleRemoved, Bytes
  <2> HIDE DEF p, n, r
  <2>7. Simple!Removed(t).m = r /\ Simple!Removed(t).size = dbsize - n
    BY <2>6
  <2>8. n = 5 + EntryBytes(mem, p) /\ r = SimpleRemoved(mem, dbsize, p, n)
    BY DEF n, r
  <2>9. /\ \E G : SimpleChain(r, dbsize - n, G) /\ \A o \in G : r[o] # mem[p]
        /\ SimpleMap(r, dbsize - n) = [SimpleMap(mem, dbsize) EXCEPT ![mem[p]] = Absent]
        /\ dbsize - n \in 8..Cap
    BY <1>1, <2>1, <2>8, SimpleMapRemoved
  <2> QED
    BY <2>1, <2>7, <2>9 DEF Lacks
<1>7. ASSUME NEW t \in Key
      PROVE  /\ Simple!find_data(t) = 0 => Lacks(mem, H, t) /\ S[t] = Absent
             /\ Simple!find_data(t) # 0 => S[t] # Absent /\ Simple!ValueOf(t) = S[t]
  <2>1. Simple!find_data(t) = SimpleFind(mem, dbsize, t)
    BY SimpleReads
  <2>2. Simple!find_data(t) # 0 => S[t] # Absent
    BY <1>1, <2>1, SimpleMapIs
  <2>3. Simple!find_data(t) # 0 => Simple!ValueOf(t) = S[t]
    BY <1>2 DEF Simple!Store
  <2>4. Simple!find_data(t) = 0 => Lacks(mem, H, t)
    <3>1. \A o \in H : mem[o] = t => SimpleFind(mem, dbsize, t) # 0
      BY <1>1, SimpleFinds
    <3> QED
      BY <2>1, <3>1 DEF Lacks
  <2>5. Simple!find_data(t) = 0 => S[t] = Absent
    BY <2>1 DEF SimpleMap
  <2> QED
    BY <2>2, <2>3, <2>4, <2>5
<1> DEFINE Ok == SimpleInv' /\ MapStep(Simple!Store, Simple!Store')
<1>8. ASSUME NEW t \in Key, NEW v \in Simple!Value, Simple!db_write(t, v) PROVE Ok
  <2>1. CASE Simple!find_data(t) # 0
    <3>1. /\ UNCHANGED <<mem, dbsize, crc, crc_func>>
          /\ answer' = [status |-> "exists", value |-> Absent]
      BY <1>8, <2>1 DEF Simple!db_write, Simple!Reply
    <3> QED
      BY <1>2, <1>4, <1>7, <2>1, <3>1 DEF MapStep
  <2>2. CASE Simple!find_data(t) = 0
    <3> DEFINE new == Simple!Appended(mem, dbsize, t, v)
    <3>1. /\ new.size <= Cap /\ Simple!update_db(new.m, new.size)
          /\ answer' = [status |-> "ok", value |-> Absent] /\ crc_func' = crc_func
      BY <1>8, <2>2 DEF Simple!db_write, Simple!Reply
    <3>2. new.size \in 8..Cap /\ SimpleWrote(mem, dbsize, new.m, new.size, t, v)
      BY <1>1, <1>7, <2>2, <3>1, SimpleWrites
    <3> HIDE DEF new
    <3>3. SimpleInv' /\ Simple!Store' = [S EXCEPT ![t] = v]
      BY <1>5, <3>1, <3>2 DEF SimpleWrote
    <3> QED
      BY <1>2, <3>1, <3>3 DEF MapStep
  <2> QED
    BY <2>1, <2>2
<1>9. ASSUME NEW t \in Key, NEW v \in Simple!Value, Simple!db_overwrite(t, v) PROVE Ok
  <2> DEFINE old == IF Simple!find_data(t) # 0 THEN Simple!Removed(t)
                    ELSE [m |-> mem, size |-> dbsize]
             new == Simple!Appended(old.m, old.size, t, v)
  <2>1. /\ new.size <= Cap /\ Simple!update_db(new.m, new.size)
        /\ answer' = [status |-> "ok", value |-> Absent] /\ crc_func' = crc_func
    BY <1>9 DEF Simple!db_overwrite, Simple!Reply
  <2>2. /\ \E G : SimpleChain(old.m, old.size, G) /\ Lacks(old.m, G, t)
        /\ \A x : [SimpleMap(old.m, old.size) EXCEPT ![t] = x] = [S EXCEPT ![t] = x]
    <3>1. CASE Simple!find_data(t) # 0
      <4>1. old = Simple!Removed(t)
        BY <3>1
      <4> HIDE DEF old
      <4>2. /\ \E G : SimpleChain(old.m, old.size, G) /\ Lacks(old.m, G, t)
            /\ SimpleMap(old.m, old.size) = [S EXCEPT ![t] = Absent]
        BY <1>6, <3>1, <4>1
      <4> QED
        BY <4>2 DEF SimpleMap
    <3>2. CASE Simple!find_data(t) = 0
      <4>1. old.m = mem /\ old.size = dbsize
        BY <3>2
      <4> QED
        BY <1>1, <1>7, <3>2, <4>1
    <3> QED
      BY <3>1, <3>2
  <2>3. PICK G : SimpleChain(old.m, old.size, G) /\ Lacks(old.m, G, t)
    BY <2>2
  <2> HIDE DEF old
  <2>4. new.size \in 8..Cap /\ SimpleWrote(old.m, old.size, new.m, new.size, t, v)
    BY <2>1, <2>3, SimpleWrites
  <2> HIDE DEF new
  <2>5. SimpleInv' /\ Simple!Store' = [S EXCEPT ![t] = v]
    BY <1>5, <2>1, <2>2, <2>4 DEF SimpleWrote
  <2> QED
    BY <1>2, <2>1, <2>5 DEF MapStep
<1>10. ASSUME NEW t \in Key, Simple!db_delete(t) PROVE Ok
  <2>1. CASE Simple!find_data(t) = 0
    <3>1. /\ UNCHANGED <<mem, dbsize, crc, crc_func>>
          /\ answer' = [status |-> "absent", value |-> Absent]
      BY <1>10, <2>1 DEF Simple!db_delete, Simple!Reply
    <3> QED
      BY <1>2, <1>4, <1>7, <2>1, <3>1 DEF MapStep
  <2>2. CASE Simple!find_data(t) # 0
    <3> DEFINE old == Simple!Removed(t)
    <3>1. /\ Simple!update_db(old.m, old.size)
          /\ answer' = [status |-> "ok", value |-> Absent] /\ crc_func' = crc_func
      BY <1>10, <2>2 DEF Simple!db_delete, Simple!Reply
    <3>2. /\ old.size \in 8..Cap /\ \E G : SimpleChain(old.m, old.size, G)
          /\ SimpleMap(old.m, old.size) = [S EXCEPT ![t] = Absent]
      BY <1>6, <2>2
    <3> HIDE DEF old
    <3>3. SimpleInv' /\ Simple!Store' = [S EXCEPT ![t] = Absent]
      BY <1>5, <3>1, <3>2
    <3> QED
      BY <1>2, <1>7, <2>2, <3>1, <3>3 DEF MapStep
  <2> QED
    BY <2>1, <2>2
<1>11. ASSUME NEW t \in Key, Simple!db_read(t) PROVE Ok
  <2>0. UNCHANGED <<mem, dbsize, crc, crc_func>>
    BY <1>11 DEF Simple!db_read
  <2>1. CASE Simple!find_data(t) = 0
    <3>1. answer' = [status |-> "absent", value |-> Absent]
      BY <1>11, <2>1 DEF Simple!db_read, Simple!Reply
    <3> QED
      BY <1>2, <1>4, <1>7, <2>0, <2>1, <3>1 DEF MapStep
  <2>2. CASE Simple!find_data(t) # 0
    <3>1. answer' = [status |-> "ok", value |-> S[t]]
      BY <1>7, <1>11, <2>2 DEF Simple!db_read, Simple!Reply
    <3> QED
      BY <1>2, <1>4, <1>7, <2>0, <2>2, <3>1 DEF MapStep
  <2> QED
    BY <2>1, <2>2
<1> QED
  BY <1>8, <1>9, <1>10, <1>11 DEF Simple!Next

-----------------------------------------------------------------------------
(***************************************************************************)
(* The theorems.                                                           *)
(***************************************************************************)
\* The inductive invariants: the entries of the database form a chain.
HashWhole == kind \in {"hash", "simple"} /\ (kind = "hash" => HashInv)
SimpleWhole == kind \in {"hash", "simple"} /\ (kind = "simple" => SimpleInv)

\* A HashDB in which each name is written with one type keeps its chain of
\* entries whole.
THEOREM HashInvariance ==
  ASSUME OneSizePerKey
  PROVE  Spec => []HashWhole
<1>1. Init => HashWhole
  BY HashInit DEF Init, HashWhole
<1>2. HashWhole /\ [Next]_vars => HashWhole'
  <2> SUFFICES ASSUME HashWhole, [Next]_vars PROVE HashWhole'
    OBVIOUS
  <2>1. CASE HashStep
    <3>1. kind = "hash" /\ kind' = "hash" /\ Hash!Next /\ HashInv
      BY <2>1 DEF HashStep, HashWhole
    <3> QED
      BY <3>1, HashSteps DEF HashWhole
  <2>2. CASE SimpleStep
    BY <2>2 DEF SimpleStep, HashWhole
  <2>3. CASE UNCHANGED vars
    <3>1. UNCHANGED <<kind, max_size, mem, answer>>
      BY <2>3 DEF vars
    <3>2. HashInv' <=> HashInv
      BY <3>1 DEF HashInv, Hash!TypeOK, Hash!Cell, Hash!HDR
    <3> QED
      BY <3>1, <3>2 DEF HashWhole
  <2> QED
    BY <2>1, <2>2, <2>3 DEF Next
<1> QED
  BY <1>1, <1>2, PTL DEF Spec

\* A simple_db that holds text and 8 bit data keeps its chain of entries whole.
THEOREM SimpleInvariance ==
  ASSUME EightBit
  PROVE  Spec => []SimpleWhole
<1>1. Init => SimpleWhole
  BY SimpleInit DEF Init, SimpleWhole
<1>2. SimpleWhole /\ [Next]_vars => SimpleWhole'
  <2> SUFFICES ASSUME SimpleWhole, [Next]_vars PROVE SimpleWhole'
    OBVIOUS
  <2>1. CASE HashStep
    BY <2>1 DEF HashStep, SimpleWhole
  <2>2. CASE SimpleStep
    <3>1. kind = "simple" /\ kind' = "simple" /\ Simple!Next /\ SimpleInv
      BY <2>2 DEF SimpleStep, SimpleWhole
    <3> QED
      BY <3>1, SimpleDbSteps DEF SimpleWhole
  <2>3. CASE UNCHANGED vars
    <3>1. UNCHANGED <<kind, mem, dbsize, crc, crc_func, answer>>
      BY <2>3 DEF vars
    <3>2. SimpleInv' <=> SimpleInv
      BY <3>1 DEF SimpleInv, Simple!TypeOK, Simple!Cell
    <3> QED
      BY <3>1, <3>2 DEF SimpleWhole
  <2> QED
    BY <2>1, <2>2, <2>3 DEF Next
<1> QED
  BY <1>1, <1>2, PTL DEF Spec

\* The memory holds bytes and words, sizes stay in their bounds, and a HashDB
\* returns only values that were written.
THEOREM TypeCorrect ==
  ASSUME OneSizePerKey, EightBit
  PROVE  Spec => []TypeOK
<1>1. HashWhole /\ SimpleWhole => TypeOK
  BY DEF HashWhole, SimpleWhole, TypeOK, HashInv, SimpleInv
<1> QED
  BY <1>1, HashInvariance, SimpleInvariance, PTL

\* The headers of a HashDB form a chain that ends at db_size, within max_size_,
\* and no name has two entries.
THEOREM ChainsExact ==
  ASSUME OneSizePerKey
  PROVE  Spec => []ChainExact
<1>1. HashWhole => ChainExact
  BY HashExact DEF HashWhole, ChainExact
<1> QED
  BY <1>1, HashInvariance, PTL

\* db_get_nof_tags counts exactly the tags that db_read finds.
THEOREM TagsCounted ==
  ASSUME EightBit
  PROVE  Spec => []CountsTags
<1>1. SimpleWhole => CountsTags
  <2> SUFFICES ASSUME SimpleWhole, kind = "simple" PROVE Simple!CountsTags
    BY DEF CountsTags
  <2>1. PICK H : SimpleChain(mem, dbsize, H)
    BY DEF SimpleWhole, SimpleInv
  <2>2. SimpleTags(mem, dbsize) = Cardinality({t \in Key : SimpleFind(mem, dbsize, t) # 0})
    BY <2>1, SimpleTagsFound
  <2>3. {t \in Key : Simple!find_data(t) # 0}
          = {t \in Key : SimpleFind(mem, dbsize, t) # 0}
    BY SimpleReads
  <2> QED
    <3>1. Simple!db_get_nof_tags = SimpleTags(mem, dbsize)
      BY SimpleReads
    <3> DEFINE T == {t \in Key : Simple!find_data(t) # 0}
               F == {t \in Key : SimpleFind(mem, dbsize, t) # 0}
    <3>2. Simple!CountsTags <=> Simple!db_get_nof_tags = Cardinality(T)
      <4> HIDE DEF T
      <4>1. Simple!Cardinality(T) = Cardinality(T)
        BY DEF Simple!Cardinality, Cardinality
      <4> QED
        BY <4>1 DEF Simple!CountsTags, T
    <3>3. T = F /\ SimpleTags(mem, dbsize) = Cardinality(F)
      BY <2>2, <2>3
    <3> HIDE DEF T, F
    <3> QED
      BY <3>1, <3>2, <3>3
<1> QED
  BY <1>1, SimpleInvariance, PTL

\* Both databases are maps: every call changes the entry it names and no other,
\* a refused call changes nothing, and a read returns what was written last.
THEOREM MapImplemented ==
  ASSUME OneSizePerKey, EightBit
  PROVE  Spec => ImplementsMap
<1> DEFINE store == IF kind = "hash" THEN Hash!Store ELSE Simple!Store
<1>1. Init => KV!Init
  <2> SUFFICES ASSUME Init PROVE KV!Init
    OBVIOUS
  <2>1. CASE kind = "hash" /\ Hash!Init
    BY <2>1, HashInit DEF KV!Init, Hash!Init
  <2>2. CASE kind = "simple" /\ Simple!Init
    BY <2>2, SimpleInit DEF KV!Init, Simple!Init
  <2> QED
    BY <2>1, <2>2 DEF Init
<1>2. HashWhole /\ SimpleWhole /\ [Next]_vars => [KV!Next]_(KV!vars)
  <2> SUFFICES ASSUME HashWhole, SimpleWhole, [Next]_vars PROVE [KV!Next]_(KV!vars)
    OBVIOUS
  <2>0. MapStep(store, store') => KV!Next
    BY DEF MapStep, KV!Next, KV!PutRefused, KV!Put, KV!InsertRefused, KV!Delete,
       KV!NotFound, KV!Get, KV!Answer
  <2>1. CASE HashStep
    <3>1. kind = "hash" /\ kind' = "hash" /\ Hash!Next /\ HashInv
      BY <2>1 DEF HashStep, HashWhole
    <3>2. MapStep(Hash!Store, Hash!Store')
      BY <3>1, HashSteps
    <3> QED
      BY <2>0, <3>1, <3>2
  <2>2. CASE SimpleStep
    <3>1. kind = "simple" /\ kind' = "simple" /\ Simple!Next /\ SimpleInv
      BY <2>2 DEF SimpleStep, SimpleWhole
    <3>2. MapStep(Simple!Store, Simple!Store')
      BY <3>1, SimpleDbSteps
    <3> QED
      BY <2>0, <3>1, <3>2
  <2>3. CASE UNCHANGED vars
    <3>1. mem' = mem /\ max_size' = max_size /\ dbsize' = dbsize /\ kind' = kind
          /\ answer' = answer
      BY <2>3 DEF vars
    <3>2. Hash!Store' = Hash!Store /\ Simple!Store' = Simple!Store
      BY <3>1, HashScanIs, SimpleReads
    <3> QED
      BY <3>1, <3>2 DEF KV!vars
  <2> QED
    BY <2>1, <2>2, <2>3 DEF Next
<1> QED
  BY <1>1, <1>2, HashInvariance, SimpleInvariance, PTL DEF Spec, ImplementsMap, KV!Spec

\* db_validate succeeds on a simple_db that had a CRC function from the start,
\* whatever it holds: every operation leaves size and CRC in step.
THEOREM CrcInStep == Spec => []StaysValid
<1> DEFINE Inv == kind \in {"hash", "simple"} /\ StaysValid
<1>1. Init => Inv
  BY DEF Init, StaysValid, Simple!StaysValid, Simple!Init
<1>2. Inv /\ [Next]_vars => Inv'
  <2> SUFFICES ASSUME Inv, [Next]_vars PROVE Inv'
    OBVIOUS
  <2>1. CASE HashStep
    BY <2>1 DEF HashStep, StaysValid
  <2>2. CASE SimpleStep
    <3>0. kind = "simple" /\ kind' = "simple" /\ Simple!Next /\ Simple!StaysValid
      BY <2>2 DEF SimpleStep, StaysValid
    <3>1. ASSUME NEW m, NEW s, Simple!update_db(m, s), crc_func' = crc_func
          PROVE  Simple!StaysValid'
      BY <3>1 DEF Simple!update_db, Simple!StaysValid, Simple!CrcOf
    <3>2. ASSUME UNCHANGED <<mem, dbsize, crc, crc_func>>
          PROVE  Simple!StaysValid'
      BY <3>0, <3>2 DEF Simple!StaysValid, Simple!CrcOf
    <3>3. Simple!StaysValid'
      BY <3>0, <3>1, <3>2
      DEF Simple!Next, Simple!db_write, Simple!db_overwrite, Simple!db_delete,
          Simple!db_read
    <3> QED
      BY <3>0, <3>3 DEF StaysValid
  <2>3. CASE UNCHANGED vars
    BY <2>3 DEF vars, StaysValid, Simple!StaysValid, Simple!CrcOf
  <2> QED
    BY <2>1, <2>2, <2>3 DEF Next
<1>3. Inv => StaysValid
  OBVIOUS
<1> QED
  BY <1>1, <1>2, <1>3, PTL DEF Spec
=============================================================================
