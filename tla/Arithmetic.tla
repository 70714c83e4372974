----------------------------- MODULE Arithmetic -----------------------------
(***************************************************************************)
(* The facts about numbers, loops, lists, words and sums that the proofs   *)
(* of the components share.  An induction over data is replaced by the     *)
(* least-number principle for sets: a set of counterexamples that is not   *)
(* empty has a least element.                                              *)
(***************************************************************************)
EXTENDS Integers, Sequences, FiniteSetTheorems, WellFoundedInduction, TLAPS

MW == INSTANCE MachineWords

LessThan == {p \in Nat \X Nat : p[1] < p[2]}

\* Every set of natural numbers that is not empty has a least element.
LEMMA LeastElement ==
  ASSUME NEW S \in SUBSET Nat, S # {}
  PROVE  \E x \in S : \A y \in S : x <= y
<1>1. IsWellFoundedOn(LessThan, Nat)
  BY NatLessThanWellFounded, Zenon DEF OpToRel, LessThan
<1>2. PICK x \in S : \A y \in S : ~ (<<y, x>> \in LessThan)
  BY <1>1, WFMin, Zenon
<1>3. \A y \in S : ~ (y < x)
  BY <1>2 DEF LessThan
<1> QED
  BY <1>3

-----------------------------------------------------------------------------
(***************************************************************************)
(* Walks over a list: from each position outside stop the walk goes on at  *)
(* a later one, and no position from n on is outside stop.                 *)
(***************************************************************************)
Walk(stop, next, n) ==
  /\ n \in Nat
  /\ stop \subseteq Nat
  /\ next \in [Nat -> Nat]
  /\ \A o \in Nat \ stop : o < n /\ o < next[o]

\* What holds where a walk stops, and at a position if it holds at the next,
\* holds everywhere.
LEMMA WalkInduction ==
  ASSUME NEW stop, NEW next, NEW n, Walk(stop, next, n),
         NEW G, \A o \in stop : o \in G,
         \A o \in Nat \ stop : next[o] \in G => o \in G
  PROVE  \A o \in Nat : o \in G
<1> DEFINE Left == {n - o : o \in Nat \ G}
<1> SUFFICES ASSUME Nat \ G # {} PROVE FALSE
  OBVIOUS
<1>1. \A o \in Nat \ G : o \in Nat \ stop /\ o < n /\ o < next[o] /\ next[o] \in Nat \ G
  BY DEF Walk
<1>2. Left \in SUBSET Nat /\ Left # {}
  BY <1>1 DEF Walk
<1>3. PICK m \in Left : \A k \in Left : m <= k
  <2> HIDE DEF Left
  <2> QED
    BY <1>2, LeastElement
<1>4. PICK o \in Nat \ G : m = n - o
  OBVIOUS
<1>5. n - next[o] \in Left
  BY <1>1, <1>4
<1>6. m <= n - next[o]
  BY <1>3, <1>5
<1>7. o < next[o] /\ next[o] \in Nat /\ n \in Nat
  BY <1>1, <1>4 DEF Walk
<1> QED
  BY <1>4, <1>6, <1>7

\* f is computed by recursion along a walk: base where it stops, step applied
\* to what f is at the next position elsewhere.
Computed(f, stop, next, base, step) ==
  \A o \in Nat : f[o] = IF o \in stop THEN base[o] ELSE step[o][f[next[o]]]

\* A function defined by recursion along a walk exists.
LEMMA WalkDefines ==
  ASSUME NEW stop, NEW next, NEW n, Walk(stop, next, n),
         NEW V, NEW base \in [Nat -> V], NEW step \in [Nat -> [V -> V]]
  PROVE  \E f \in [Nat -> V] : Computed(f, stop, next, base, step)
<1> DEFINE From(g, o) == IF o \in stop THEN base[o] ELSE step[o][g[next[o]]]
           Done(g, m) == \A o \in Nat : o >= n - m => g[o] = From(g, o)
           Stuck == {m \in 0..n : ~ \E g \in [Nat -> V] : Done(g, m)}
<1>0. n \in Nat /\ \A o \in Nat \ stop : o < n /\ o < next[o] /\ next[o] \in Nat
  BY DEF Walk
<1>1. \A g \in [Nat -> V], o \in Nat : From(g, o) \in V
  BY <1>0
<1> HIDE DEF From
<1>2. Stuck = {}
  <2> SUFFICES ASSUME Stuck # {} PROVE FALSE
    OBVIOUS
  <2>1. PICK m \in Stuck : \A k \in Stuck : m <= k
    <3>1. Stuck \in SUBSET Nat
      BY <1>0
    <3> HIDE DEF Stuck
    <3> QED
      BY <3>1, LeastElement
  <2>2. m \in 0..n
    OBVIOUS
  <2>3. m # 0
    <3>1. \A o \in Nat : o >= n => o \in stop
      BY <1>0
    <3>2. Done(base, 0)
      BY <1>0, <3>1 DEF From
    <3> QED
      BY <3>2
  <2>4. m - 1 \in 0..n /\ ~(m <= m - 1)
    BY <1>0, <2>2, <2>3
  <2>5. PICK g \in [Nat -> V] : Done(g, m - 1)
    <3>1. m - 1 \notin Stuck
      <4> HIDE DEF Stuck
      <4> QED
        BY <2>1, <2>4
    <3> QED
      BY <2>4, <3>1
  <2> DEFINE p == n - m
             h == [o \in Nat |-> IF o = p THEN From(g, p) ELSE g[o]]
  <2>6. p \in Nat
    BY <1>0, <2>2
  <2>7. h \in [Nat -> V]
    BY <1>1, <2>6
  <2>8. \A o \in Nat : o >= p => From(h, o) = From(g, o)
    <3>1. \A o \in Nat \ stop : o >= p => next[o] # p /\ next[o] \in Nat
      BY <1>0, <2>6
    <3>2. \A o \in Nat \ stop : o >= p => h[next[o]] = g[next[o]]
      BY <3>1
    <3> QED
      BY <3>2 DEF From
  <2>9. Done(h, m)
    <3> SUFFICES ASSUME NEW o \in Nat, o >= n - m PROVE h[o] = From(h, o)
      OBVIOUS
    <3>1. CASE o = p
      BY <2>6, <2>8, <3>1
    <3>2. CASE o # p
      <4>1. o >= n - (m - 1)
        BY <1>0, <2>2, <3>2
      <4>2. g[o] = From(g, o)
        BY <2>5, <4>1
      <4> QED
        BY <2>8, <3>2, <4>2
    <3> QED
      BY <3>1, <3>2
  <2> QED
    BY <2>7, <2>9
<1>3. PICK f \in [Nat -> V] : Done(f, n)
  <2>1. n \in 0..n
    BY <1>0
  <2>2. n \notin Stuck
    BY <1>2, Zenon
  <2> QED
    BY <2>1, <2>2
<1>4. \A o \in Nat : f[o] = From(f, o)
  BY <1>0, <1>3
<1> QED
  BY <1>4 DEF From, Computed

-----------------------------------------------------------------------------
(***************************************************************************)
(* A chain of entries in memory: H are the offsets of the entries, the     *)
(* first of them at a, each ends where the next one begins, the last at u. *)
(***************************************************************************)
Linked(H, a, u, next) ==
  /\ u \in Nat
  /\ H \subseteq a..(u - 1)
  /\ a \in Nat /\ a \in H \cup {u}
  /\ next \in [H -> Nat]
  /\ \A o \in H : o < next[o] /\ next[o] \in H \cup {u}
  /\ \A o, x \in H : o < x => next[o] <= x

\* What holds at the end of a chain, and at an entry if it holds at the next,
\* holds at every entry.
LEMMA ChainInduction ==
  ASSUME NEW H, NEW a, NEW u, NEW next, Linked(H, a, u, next),
         NEW G, u \in G, \A o \in H : next[o] \in G => o \in G
  PROVE  \A o \in H \cup {u} : o \in G
<1> DEFINE stop == Nat \ H
           nx == [o \in Nat |-> IF o \in H THEN next[o] ELSE 0]
           Good == {o \in Nat : o \in H => o \in G}
<1>1. \A o \in H : o \in Nat /\ o < u
  BY DEF Linked
<1>2. Walk(stop, nx, u)
  BY <1>1 DEF Walk, Linked
<1>3. \A o \in stop : o \in Good
  OBVIOUS
<1>4. \A o \in Nat \ stop : nx[o] \in Good => o \in Good
  <2> SUFFICES ASSUME NEW o \in H, nx[o] \in Good PROVE o \in G
    BY <1>1
  <2>1. nx[o] = next[o] /\ next[o] \in H \cup {u}
    BY <1>1 DEF Linked
  <2> QED
    BY <2>1
<1>5. \A o \in Nat : o \in Good
  <2> HIDE DEF stop, nx, Good
  <2> QED
    BY <1>2, <1>3, <1>4, WalkInduction, Zenon
<1> QED
  BY <1>1, <1>5

\* f searches a chain for the first entry in match.
Searches(f, H, u, next, match, miss) ==
  \A o \in H : f[o] = IF o \in match THEN o
                      ELSE IF next[o] = u THEN miss ELSE f[next[o]]

\* A search along a chain ends at an entry that matches, or with miss if none
\* does.
LEMMA ChainSearch ==
  ASSUME NEW H, NEW a, NEW u, NEW next, Linked(H, a, u, next),
         NEW match, NEW miss, NEW f, Searches(f, H, u, next, match, miss)
  PROVE  a \in H => \/ f[a] = miss /\ H \cap match = {}
                    \/ f[a] \in H \cap match
<1> DEFINE Ok(o) == \/ f[o] = miss /\ \A x \in H : o <= x => x \notin match
                    \/ f[o] \in H \cap match
           G == {o \in H \cup {u} : o \in H => Ok(o)}
<1>0. u \in Nat /\ u \notin H /\ \A o \in H : o \in Nat /\ o < u /\ a <= o
  BY DEF Linked
<1> USE DEF Searches
<1>1. u \in G
  BY <1>0
<1>2. ASSUME NEW o \in H, next[o] \in G PROVE o \in G
  <2>1. next[o] \in H \cup {u} /\ o < next[o] /\ next[o] \in Nat
    BY DEF Linked
  <2>2. \A x \in H : o <= x => x = o \/ next[o] <= x
    BY <1>0 DEF Linked
  <2>3. CASE o \in match
    BY <2>3
  <2>4. CASE o \notin match /\ next[o] = u
    <3>1. \A x \in H : o <= x => x = o
      BY <1>0, <2>2, <2>4
    <3> QED
      BY <2>4, <3>1
  <2>5. CASE o \notin match /\ next[o] # u
    <3>1. f[o] = f[next[o]] /\ Ok(next[o])
      BY <1>2, <2>1, <2>5
    <3> QED
      BY <2>2, <2>5, <3>1
  <2> QED
    BY <2>3, <2>4, <2>5
<1>3. \A o \in H \cup {u} : o \in G
  <2> HIDE DEF G
  <2>1. \A o \in H : next[o] \in G => o \in G
    BY <1>2
  <2> QED
    BY <1>1, <2>1, ChainInduction
<1> QED
  BY <1>0, <1>3

-----------------------------------------------------------------------------
(***************************************************************************)
(* Loops that count: a function on 0..n whose value at k is computed from  *)
(* that at k - 1.                                                          *)
(***************************************************************************)

\* What holds at the beginning, and after a turn if it holds before, holds throughout.
LEMMA CountsUp ==
  ASSUME NEW n \in Nat, NEW G, 0 \in G, \A k \in 1..n : k - 1 \in G => k \in G
  PROVE  \A k \in 0..n : k \in G
<1> DEFINE Bad == {k \in 0..n : k \notin G}
<1> SUFFICES ASSUME Bad # {} PROVE FALSE
  OBVIOUS
<1>1. PICK k \in Bad : \A j \in Bad : k <= j
  <2>1. Bad \in SUBSET Nat
    OBVIOUS
  <2> HIDE DEF Bad
  <2> QED
    BY <2>1, LeastElement
<1>2. k \in 1..n
  OBVIOUS
<1>3. k - 1 \in 0..n /\ k - 1 \notin Bad
  BY <1>1, <1>2
<1> QED
  BY <1>2, <1>3

\* f begins with s, and step[k] is turn k.
Turns(f, n, s, step) == f[0] = s /\ \A k \in 1..n : f[k] = step[k][f[k - 1]]

\* Such a function exists.
LEMMA TurnsDefine ==
  ASSUME NEW n \in Nat, NEW V, NEW s \in V, NEW step, \A k \in 1..n : \A v \in V : step[k][v] \in V
  PROVE  \E f \in [0..n -> V] : Turns(f, n, s, step)
<1> DEFINE G == {m \in 0..n : \E f \in [0..n -> V] : Turns(f, m, s, step)}
<1>1. 0 \in G
  <2> DEFINE f == [k \in 0..n |-> s]
  <2>1. f \in [0..n -> V] /\ f[0] = s
    OBVIOUS
  <2>2. Turns(f, 0, s, step)
    BY <2>1 DEF Turns
  <2> QED
    BY <2>1, <2>2
<1>2. ASSUME NEW m \in 1..n, m - 1 \in G PROVE m \in G
  <2>1. PICK f \in [0..n -> V] : Turns(f, m - 1, s, step)
    BY <1>2
  <2> DEFINE g == [k \in 0..n |-> IF k = m THEN step[m][f[m - 1]] ELSE f[k]]
  <2>2. g \in [0..n -> V]
    OBVIOUS
  <2>3. g[0] = s
    BY <2>1 DEF Turns
  <2>4. ASSUME NEW k \in 1..m PROVE g[k] = step[k][g[k - 1]]
    <3>1. k - 1 \in 0..n /\ k - 1 # m /\ g[k - 1] = f[k - 1]
      OBVIOUS
    <3>2. CASE k = m
      BY <3>1, <3>2
    <3>3. CASE k # m
      <4>1. k \in 1..(m - 1) /\ g[k] = f[k]
        BY <3>3
      <4> QED
        BY <2>1, <3>1, <4>1 DEF Turns
    <3> QED
      BY <3>2, <3>3
  <2> HIDE DEF g
  <2>5. Turns(g, m, s, step)
    BY <2>3, <2>4 DEF Turns
  <2> QED
    BY <2>2, <2>5
<1> HIDE DEF G
<1>3. \A k \in 0..n : k \in G
  BY <1>1, <1>2, CountsUp
<1>4. n \in G
  BY <1>3
<1> QED
  BY <1>4 DEF G

-----------------------------------------------------------------------------
(***************************************************************************)
(* Division with remainder.                                                *)
(***************************************************************************)
LEMMA Times == ASSUME NEW k \in Nat, NEW a \in Int, NEW b \in Int, a <= b PROVE k * a <= k * b /\ k * a \in Int
OBVIOUS

LEMMA Division ==
  ASSUME NEW m \in Nat, m > 0, NEW x \in Nat
  PROVE  x = m * (x \div m) + (x % m) /\ x \div m \in Nat /\ x % m \in 0..(m - 1)
OBVIOUS

LEMMA RemainderOf ==
  ASSUME NEW m \in Nat, m > 0, NEW x \in Nat, NEW q \in Nat, NEW r \in 0..(m - 1), x = m * q + r
  PROVE  x % m = r
OBVIOUS

LEMMA Distributes ==
  ASSUME NEW m \in Nat, NEW q \in Nat, NEW k \in Nat
  PROVE  m * (q + k) = m * q + m * k /\ m * q \in Nat /\ m * k \in Nat /\ q + k \in Nat
OBVIOUS

LEMMA AddMultiple ==
  ASSUME NEW m \in Nat, m > 0, NEW x \in Nat, NEW k \in Nat
  PROVE  (x + m * k) % m = x % m
<1> DEFINE q == x \div m
           r == x % m
           mk == m * k
           mq == m * q
           qk == q + k
           mqk == m * qk
<1>1. x = mq + r /\ q \in Nat /\ r \in 0..(m - 1)
  BY Division
<1> HIDE DEF q, r
<1>2. mqk = mq + mk /\ mk \in Nat /\ mq \in Nat /\ qk \in Nat
  BY <1>1, Distributes
<1> HIDE DEF mk, mq
<1>3. x + mk = mqk + r /\ x + mk \in Nat
  <2> HIDE DEF mqk
  <2> QED
    BY <1>1, <1>2
<1> HIDE DEF qk
<1>4. (x + mk) % m = r
  <2> DEFINE y == x + mk
  <2>1. y = m * qk + r /\ y \in Nat
    BY <1>3
  <2> HIDE DEF y
  <2>2. y % m = r
    BY <1>1, <1>2, <2>1, RemainderOf
  <2> QED
    BY <2>2 DEF y
<1> QED
  BY <1>4 DEF r, mk

\* Equal remainders stay equal when numbers of equal remainders are added.
SameMod(m, x, y) == x % m = y % m

LEMMA SameModAdds ==
  ASSUME NEW m \in Nat, m > 0, NEW x \in Nat, NEW y \in Nat, NEW c \in Nat, NEW d \in Nat,
         SameMod(m, x, y), SameMod(m, c, d)
  PROVE  SameMod(m, x + c, y + d)
<1>0. x % m = y % m /\ c % m = d % m
  BY Zenon DEF SameMod
<1> DEFINE r == x % m
           s == c % m
           a == x \div m
           b == y \div m
           g == c \div m
           h == d \div m
           ma == m * a
           mb == m * b
           mg == m * g
           mh == m * h
<1>1. /\ x = ma + r /\ y = mb + r /\ c = mg + s /\ d = mh + s
      /\ a \in Nat /\ b \in Nat /\ g \in Nat /\ h \in Nat /\ r \in Nat /\ s \in Nat
  <2>1. /\ x = m * (x \div m) + (x % m) /\ x \div m \in Nat /\ x % m \in 0..(m - 1)
        /\ c = m * (c \div m) + (c % m) /\ c \div m \in Nat /\ c % m \in 0..(m - 1)
    BY Division
  <2>2. /\ y = m * (y \div m) + (y % m) /\ y \div m \in Nat
        /\ d = m * (d \div m) + (d % m) /\ d \div m \in Nat
    BY Division
  <2>3. r \in Nat /\ s \in Nat
    BY <2>1
  <2> QED
    BY <1>0, <2>1, <2>2, <2>3
<1> HIDE DEF r, s, a, b, g, h
<1>2. /\ m * (a + g) = ma + mg /\ m * (b + h) = mb + mh
      /\ a + g \in Nat /\ b + h \in Nat
      /\ ma \in Nat /\ mb \in Nat /\ mg \in Nat /\ mh \in Nat
  BY <1>1, Distributes
<1>3. ((r + s) + m * (a + g)) % m = (r + s) % m /\ ((r + s) + m * (b + h)) % m = (r + s) % m
  <2>1. r + s \in Nat
    BY <1>1
  <2> QED
    BY <1>2, <2>1, AddMultiple
<1> DEFINE u == m * (a + g)
           v == m * (b + h)
<1>4. ((r + s) + u) % m = ((r + s) + v) % m /\ u = ma + mg /\ v = mb + mh
  BY <1>2, <1>3
<1> HIDE DEF u, v, ma, mb, mg, mh
<1>5. x + c = (r + s) + u /\ y + d = (r + s) + v
  BY <1>1, <1>2, <1>4
<1>6. (x + c) % m = (y + d) % m
  BY <1>4, <1>5
<1> QED
  BY <1>6, Zenon DEF SameMod

\* Folding the upper part of a number onto the lower one keeps the remainder
\* that matters, and makes the number small.
LEMMA FoldFacts ==
  ASSUME NEW b \in Nat, b > 1, NEW x \in Nat, NEW z, z = (x % b) + (x \div b)
  PROVE  /\ z \in Nat /\ z % (b - 1) = x % (b - 1)
         /\ x < b * b => z <= 2 * b - 2
         /\ x <= 2 * b - 2 => z < b
         /\ \A y \in Nat : x <= y => z <= (b - 1) + (y \div b)
<1> DEFINE q == x \div b
           r == x % b
           f == r + q
           m == b - 1
           mq == m * q
<1>1. x = b * q + r /\ q \in Nat /\ r \in 0..(b - 1)
  BY Division
<1>2. b * q = mq + q /\ mq \in Nat /\ m \in Nat /\ m > 0 /\ b = m + 1
  <2>1. m \in Nat /\ m > 0 /\ b = m + 1
    OBVIOUS
  <2> HIDE DEF m
  <2>2. (m + 1) * q = m * q + q /\ m * q \in Nat
    BY <1>1, <2>1
  <2> QED
    BY <2>1, <2>2
<1>3. x < b * b => q <= b - 1
  BY DEF q
<1>4. x <= 2 * b - 2 => q <= 1
  BY DEF q
<1>5. q = 1 => b * q = b
  OBVIOUS
<1>6. q = 0 => b * q = 0
  OBVIOUS
<1>7. ASSUME NEW y \in Nat, x <= y PROVE q <= y \div b
  <2> DEFINE p == y \div b
  <2>1. p \in Nat /\ y <= b * p + b - 1
    <3>1. y = b * (y \div b) + (y % b) /\ y \div b \in Nat /\ y % b \in 0..(b - 1)
      BY Division
    <3> QED
      BY <3>1
  <2> HIDE DEF p
  <2>2. x <= b * p + b - 1
    BY <1>7, <2>1
  <2>3. q <= p
    BY <2>1, <2>2 DEF q
  <2> QED
    BY <2>3 DEF p
<1> HIDE DEF q, r, m
<1>8. f \in Nat /\ x = f + mq
  <2> DEFINE bq == b * q
  <2>1. bq = mq + q /\ x = bq + r
    BY <1>1, <1>2
  <2> HIDE DEF bq, mq
  <2> QED
    BY <1>1, <1>2, <2>1
<1>9. f % m = x % m
  <2>1. (f + m * q) % m = f % m
    BY <1>1, <1>2, <1>8, AddMultiple
  <2> QED
    BY <1>8, <2>1
<1>10. x < b * b => f <= 2 * b - 2
  <2> DEFINE bb == b * b
  <2>1. x < bb => q <= b - 1
    BY <1>3
  <2> HIDE DEF bb
  <2>2. x < bb => f <= 2 * b - 2
    BY <1>1, <2>1
  <2> QED
    BY <2>2 DEF bb
<1>11. x <= 2 * b - 2 => f < b
  <2> DEFINE bq == b * q
  <2>1. x = bq + r /\ (q = 0 => bq = 0) /\ (q = 1 => bq = b)
    BY <1>1, <1>5, <1>6
  <2> HIDE DEF bq
  <2> QED
    BY <1>1, <1>4, <2>1
<1>12. \A y \in Nat : x <= y => f <= (b - 1) + (y \div b)
  <2> SUFFICES ASSUME NEW y \in Nat, x <= y PROVE f <= (b - 1) + (y \div b)
    OBVIOUS
  <2> DEFINE p == y \div b
  <2>1. q <= p /\ p \in Nat
    <3>1. q <= y \div b
      BY <1>7
    <3>2. y \div b \in Nat
      OBVIOUS
    <3> QED
      BY <3>1, <3>2
  <2> HIDE DEF p
  <2>2. f <= (b - 1) + p
    BY <1>1, <2>1
  <2> QED
    BY <2>2 DEF p
<1> HIDE DEF f
<1>13. f = z /\ m = b - 1
  BY DEF f, q, r, m
<1> QED
  BY <1>8, <1>9, <1>10, <1>11, <1>12, <1>13

-----------------------------------------------------------------------------
(***************************************************************************)
(* The sums of a sequence of words and of its prefixes (Fletcher's).       *)
(***************************************************************************)

\* The reference sums of the words of d and of their prefixes.
Prefixes(d) ==
  CHOOSE s : s = [k \in 0..Len(d) |->
                    IF k = 0 THEN <<0, 0>>
                    ELSE LET a == s[k - 1][1] + d[k] IN <<a, s[k - 1][2] + a>>]

AddsUp(s, d) ==
  /\ s \in [0..Len(d) -> Nat \X Nat]
  /\ s[0] = <<0, 0>>
  /\ \A k \in 1..Len(d) : s[k][1] = s[k - 1][1] + d[k] /\ s[k][2] = s[k - 1][2] + s[k][1]

Totals(d, t) == t = Prefixes(d)[Len(d)]

LEMMA PrefixesAdd ==
  ASSUME NEW d \in Seq(Nat)
  PROVE  AddsUp(Prefixes(d), d)
<1> DEFINE n == Len(d)
           V == Nat \X Nat
           zero == <<0, 0>>
           More(v, w) == LET a == v[1] + w IN <<a, v[2] + a>>
           step == [k \in 1..n |-> [v \in V |-> More(v, d[k])]]
           Loop(s) == s = [k \in 0..n |-> IF k = 0 THEN zero ELSE More(s[k - 1], d[k])]
           c == CHOOSE s : Loop(s)
<1>1. n \in Nat /\ zero \in V /\ \A k \in 1..n : d[k] \in Nat
  OBVIOUS
<1>2. \A v \in V, w \in Nat : /\ More(v, w) \in V /\ More(v, w)[1] = v[1] + w
                              /\ More(v, w)[2] = v[2] + More(v, w)[1]
  OBVIOUS
<1>3. Prefixes(d) = c
  BY DEF Prefixes
<1> HIDE DEF n, V, zero, More
<1>4. \A k \in 1..n : \A v \in V : step[k][v] = More(v, d[k]) /\ step[k][v] \in V
  BY <1>1, <1>2
<1> HIDE DEF step
<1>5. PICK g \in [0..n -> V] : Turns(g, n, zero, step)
  BY <1>1, <1>4, TurnsDefine
<1>6. \A k \in 0..n : g[k] = IF k = 0 THEN zero ELSE More(g[k - 1], d[k])
  <2> SUFFICES ASSUME NEW k \in 0..n PROVE g[k] = IF k = 0 THEN zero ELSE More(g[k - 1], d[k])
    OBVIOUS
  <2>1. CASE k = 0
    BY <1>5, <2>1 DEF Turns
  <2>2. CASE k # 0
    <3>1. k \in 1..n /\ k - 1 \in 0..n
      BY <1>1, <2>2
    <3>2. g[k] = step[k][g[k - 1]] /\ g[k - 1] \in V
      BY <1>5, <3>1 DEF Turns
    <3> QED
      BY <1>4, <2>2, <3>1, <3>2
  <2> QED
    BY <2>1, <2>2
<1>7. Loop(g)
  BY <1>5, <1>6
<1>8. Loop(c)
  BY <1>7
<1> HIDE DEF c
<1>9. 0 \in 0..n /\ c[0] = zero
  BY <1>1, <1>8
<1>10. \A k \in 1..n : k \in 0..n /\ k - 1 \in 0..n /\ c[k] = More(c[k - 1], d[k])
  <2> SUFFICES ASSUME NEW k \in 1..n PROVE k \in 0..n /\ k - 1 \in 0..n /\ c[k] = More(c[k - 1], d[k])
    OBVIOUS
  <2>1. k \in 0..n /\ k # 0 /\ k - 1 \in 0..n
    BY <1>1
  <2> QED
    BY <1>8, <2>1
<1> DEFINE G == {k \in 0..n : c[k] \in V}
<1>11. \A k \in 0..n : k \in G
  <2>1. 0 \in G
    BY <1>1, <1>9
  <2>2. \A k \in 1..n : k - 1 \in G => k \in G
    BY <1>1, <1>2, <1>10
  <2> HIDE DEF G
  <2> QED
    BY <1>1, <2>1, <2>2, CountsUp
<1>12. c \in [0..n -> V]
  BY <1>8, <1>11
<1>13. \A k \in 1..n : c[k][1] = c[k - 1][1] + d[k] /\ c[k][2] = c[k - 1][2] + c[k][1]
  <2> SUFFICES ASSUME NEW k \in 1..n
               PROVE  c[k][1] = c[k - 1][1] + d[k] /\ c[k][2] = c[k - 1][2] + c[k][1]
    OBVIOUS
  <2>1. k - 1 \in 0..n /\ c[k] = More(c[k - 1], d[k]) /\ d[k] \in Nat
    BY <1>1, <1>10
  <2>2. c[k - 1] \in V
    BY <1>11, <2>1
  <2> DEFINE u == c[k - 1]
             w == d[k]
  <2>3. u \in V /\ w \in Nat /\ c[k] = More(u, w)
    BY <2>1, <2>2
  <2> HIDE DEF u, w
  <2>4. More(u, w)[1] = u[1] + w /\ More(u, w)[2] = u[2] + More(u, w)[1]
    BY <1>2, <2>3, Zenon
  <2>5. c[k][1] = u[1] + w /\ c[k][2] = u[2] + c[k][1]
    BY <2>3, <2>4, Zenon
  <2> QED
    BY <2>5, Zenon DEF u, w
<1> QED
  BY <1>3, <1>9, <1>12, <1>13 DEF AddsUp, n, V, zero

\* One word more.
OneMore(s, t, w) == s \in Nat \X Nat /\ t \in Nat \X Nat /\ t[1] = s[1] + w /\ t[2] = s[2] + t[1]

LEMMA SumsGrow ==
  ASSUME NEW d \in Seq(Nat), NEW w \in Nat, NEW e, e = Append(d, w),
         NEW s, Totals(d, s), NEW t, Totals(e, t)
  PROVE  OneMore(s, t, w)
<1> DEFINE n == Len(d)
           f == Prefixes(d)
           g == Prefixes(e)
<1>1. e \in Seq(Nat) /\ Len(e) = n + 1 /\ n \in Nat /\ e[n + 1] = w /\ \A k \in 1..n : e[k] = d[k]
  OBVIOUS
<1>2. AddsUp(f, d) /\ AddsUp(g, e)
  BY <1>1, PrefixesAdd
<1> HIDE DEF f, g
<1> HIDE DEF n
<1>3. f[0] = g[0] /\ \A k \in 0..n : f[k] \in Nat \X Nat /\ g[k] \in Nat \X Nat
  <2>1. f[0] = g[0]
    BY <1>2 DEF AddsUp
  <2>2. \A k \in 0..n : k \in 0..(n + 1)
    BY <1>1
  <2>3. f \in [0..n -> Nat \X Nat] /\ g \in [0..(n + 1) -> Nat \X Nat]
    BY <1>1, <1>2 DEF AddsUp, n
  <2> QED
    BY <2>1, <2>2, <2>3
<1>4. \A k \in 1..n : f[k - 1] = g[k - 1] => f[k] = g[k]
  <2> SUFFICES ASSUME NEW k \in 1..n, f[k - 1] = g[k - 1] PROVE f[k] = g[k]
    OBVIOUS
  <2>1. k \in 1..Len(e) /\ k \in 0..n
    BY <1>1
  <2>2. f[k][1] = f[k - 1][1] + d[k] /\ f[k][2] = f[k - 1][2] + f[k][1]
    BY <1>2 DEF AddsUp, n
  <2>3. g[k][1] = g[k - 1][1] + d[k] /\ g[k][2] = g[k - 1][2] + g[k][1]
    BY <1>1, <1>2, <2>1 DEF AddsUp
  <2>4. f[k][1] = g[k][1] /\ f[k][2] = g[k][2]
    BY <2>2, <2>3
  <2>5. f[k] \in Nat \X Nat /\ g[k] \in Nat \X Nat
    BY <1>3, <2>1
  <2> QED
    BY <2>4, <2>5
<1> DEFINE G == {k \in 0..n : f[k] = g[k]}
<1>5. \A k \in 0..n : k \in G
  <2>1. 0 \in G
    BY <1>1, <1>3
  <2>2. \A k \in 1..n : k - 1 \in G => k \in G
    BY <1>1, <1>4
  <2> HIDE DEF G
  <2> QED
    BY <1>1, <2>1, <2>2, CountsUp
<1>6. f[n] = g[n] /\ f[n] \in Nat \X Nat
  BY <1>1, <1>3, <1>5
<1>7. n + 1 \in 1..Len(e) /\ (n + 1) - 1 = n /\ n + 1 \in 0..Len(e)
  BY <1>1
<1>8. g[n + 1][1] = g[n][1] + w /\ g[n + 1][2] = g[n][2] + g[n + 1][1] /\ g[n + 1] \in Nat \X Nat
  BY <1>1, <1>2, <1>7 DEF AddsUp
<1>9. g[Len(e)] = g[n + 1]
  BY <1>1
<1>10. /\ f[n] \in Nat \X Nat /\ g[Len(e)] \in Nat \X Nat
       /\ g[Len(e)][1] = f[n][1] + w /\ g[Len(e)][2] = f[n][2] + g[Len(e)][1]
  BY <1>6, <1>8, <1>9
<1> QED
  BY <1>10, Zenon DEF OneMore, f, g, n, Totals

-----------------------------------------------------------------------------
(***************************************************************************)
(* The reversal of bits.                                                   *)
(***************************************************************************)
\* Where the bit at j comes from when neighbouring blocks of k change places, and
\* where it comes from when the blocks of m are reversed.
Across(k, j) == IF (j \div k) % 2 = 0 THEN j + k ELSE j - k
Flip(m, j) == m * (j \div m) + (m - 1) - (j % m)

\* One step of reverse_bits exchanges neighbouring blocks.
LEMMA SwapMoves ==
  ASSUME NEW w \in {8, 16, 32}, NEW k \in {1, 2, 4, 8, 16}, 2 * k <= w,
         NEW x \in SUBSET (0..(w - 1))
  PROVE  /\ MW!Swap(x, k, w) \in SUBSET (0..(w - 1))
         /\ \A j \in 0..(w - 1) : j \in MW!Swap(x, k, w) <=> Across(k, j) \in x
<1> DEFINE E == {i \in 0..(w - 1) : (i \div k) % 2 = 0}
           R == {i - k : i \in x} \cap Nat
           L == {i + k : i \in x \cap E} \cap 0..(w - 1)
<1>1. MW!Swap(x, k, w) = (R \cap E) \cup L
  BY DEF MW!Swap, MW!Right, MW!Left, MW!Even
<1>2. R \cap E \in SUBSET (0..(w - 1)) /\ L \in SUBSET (0..(w - 1))
  OBVIOUS
<1>3. ASSUME NEW j \in 0..(w - 1), (j \div k) % 2 = 0
      PROVE  j \in (R \cap E) \cup L <=> j + k \in x
  <2>1. j \in E /\ j \in Nat
    BY <1>3
  <2>2. j \in R <=> j + k \in x
    <3>1. \A i \in x : i - k = j => i = j + k
      OBVIOUS
    <3>2. (j + k) - k = j
      OBVIOUS
    <3> QED
      BY <2>1, <3>1, <3>2
  <2>3. j \notin L
    <3> SUFFICES ASSUME NEW i \in x \cap E, j = i + k PROVE FALSE
      OBVIOUS
    <3>1. i \in 0..31 /\ (i \div k) % 2 = 0
      OBVIOUS
    <3>2. ((i + k) \div k) % 2 = 1
      BY <3>1
    <3> QED
      BY <1>3, <3>2
  <2> QED
    BY <2>1, <2>2, <2>3
<1>4. ASSUME NEW j \in 0..(w - 1), (j \div k) % 2 # 0
      PROVE  j \in (R \cap E) \cup L <=> j - k \in x
  <2>1. j \notin E
    BY <1>4
  <2>2. j - k \in 0..(w - 1) /\ ((j - k) \div k) % 2 = 0
    BY <1>4
  <2>3. j \in L <=> j - k \in x
    <3>1. j - k \in E
      BY <2>2
    <3>2. \A i \in x : i + k = j => i = j - k
      OBVIOUS
    <3>3. (j - k) + k = j
      OBVIOUS
    <3> QED
      BY <3>1, <3>2, <3>3
  <2> QED
    BY <2>1, <2>3
<1>5. \A j \in 0..(w - 1) : j \in (R \cap E) \cup L <=> Across(k, j) \in x
  BY <1>3, <1>4 DEF Across
<1> QED
  BY <1>1, <1>2, <1>5

\* An exchange of the halves of blocks of 2k, and their reversal, reverse the block.
LEMMA FlipGrows ==
  ASSUME NEW k \in {1, 2, 4, 8, 16}, NEW j \in 0..31
  PROVE  Flip(k, Across(k, j)) = Flip(2 * k, j)
<1>1. CASE k = 1
  BY <1>1 DEF Flip, Across
<1>2. CASE k = 2
  BY <1>2 DEF Flip, Across
<1>3. CASE k = 4
  BY <1>3 DEF Flip, Across
<1>4. CASE k = 8
  BY <1>4 DEF Flip, Across
<1>5. CASE k = 16
  BY <1>5 DEF Flip, Across
<1> QED
  BY <1>1, <1>2, <1>3, <1>4, <1>5

LEMMA Powers == 2^0 = 1 /\ 2^1 = 2 /\ 2^2 = 4 /\ 2^3 = 8 /\ 2^4 = 16 /\ 2^5 = 32
OBVIOUS

\* One turn of reverse_bits.
Turned(v, n, w) == IF 2^n > w THEN v ELSE MW!Swap(v, 2^(n - 1), w)

LEMMA ReverseTurns ==
  ASSUME NEW w \in {8, 16, 32}, NEW x \in SUBSET (0..(w - 1))
  PROVE  \E f : /\ f[0] = x /\ MW!reverse_bits(x, w) = f[5]
                /\ \A n \in 1..5 : f[n - 1] \in SUBSET (0..(w - 1)) /\ f[n] = Turned(f[n - 1], n, w)
<1> DEFINE V == SUBSET (0..(w - 1))
           step == [n \in 1..5 |-> [v \in V |-> Turned(v, n, w)]]
           Loop(f) == f = [n \in 0..5 |-> IF n = 0 THEN x ELSE Turned(f[n - 1], n, w)]
           c == CHOOSE f : Loop(f)
<1>1. MW!reverse_bits(x, w) = c[5]
  BY DEF MW!reverse_bits, Turned
<1>2. \A n \in 1..5 : \A v \in V : Turned(v, n, w) \in V
  <2> SUFFICES ASSUME NEW n \in 1..5, NEW v \in V PROVE Turned(v, n, w) \in V
    OBVIOUS
  <2>1. CASE 2^n > w
    BY <2>1 DEF Turned
  <2>2. CASE ~(2^n > w)
    <3>1. 2^(n - 1) \in {1, 2, 4, 8, 16} /\ 2 * 2^(n - 1) <= w
      <4>1. n = 1 \/ n = 2 \/ n = 3 \/ n = 4 \/ n = 5
        OBVIOUS
      <4>2. CASE n = 1
        <5>1. n - 1 = 0 /\ 2^n = 2 /\ 2^(n - 1) = 1
          BY <4>2, Powers
        <5> QED
          BY <2>2, <5>1
      <4>3. CASE n = 2
        <5>1. n - 1 = 1 /\ 2^n = 4 /\ 2^(n - 1) = 2
          BY <4>3, Powers
        <5> QED
          BY <2>2, <5>1
      <4>4. CASE n = 3
        <5>1. n - 1 = 2 /\ 2^n = 8 /\ 2^(n - 1) = 4
          BY <4>4, Powers
        <5> QED
          BY <2>2, <5>1
      <4>5. CASE n = 4
        <5>1. n - 1 = 3 /\ 2^n = 16 /\ 2^(n - 1) = 8
          BY <4>5, Powers
        <5> QED
          BY <2>2, <5>1
      <4>6. CASE n = 5
        <5>1. n - 1 = 4 /\ 2^n = 32 /\ 2^(n - 1) = 16
          BY <4>6, Powers
        <5> QED
          BY <2>2, <5>1
      <4> QED
        BY <4>1, <4>2, <4>3, <4>4, <4>5, <4>6
    <3>2. MW!Swap(v, 2^(n - 1), w) \in V
      BY <3>1, SwapMoves
    <3> QED
      BY <2>2, <3>2 DEF Turned
  <2> QED
    BY <2>1, <2>2
<1>3. x \in V
  OBVIOUS
<1> HIDE DEF V
<1>4. \A n \in 1..5 : \A v \in V : step[n][v] = Turned(v, n, w) /\ step[n][v] \in V
  BY <1>2
<1> HIDE DEF step
<1>5. PICK g \in [0..5 -> V] : Turns(g, 5, x, step)
  BY <1>3, <1>4, TurnsDefine
<1>6. \A n \in 0..5 : g[n] = IF n = 0 THEN x ELSE Turned(g[n - 1], n, w)
  <2> SUFFICES ASSUME NEW n \in 0..5 PROVE g[n] = IF n = 0 THEN x ELSE Turned(g[n - 1], n, w)
    OBVIOUS
  <2>1. CASE n = 0
    BY <1>5, <2>1 DEF Turns
  <2>2. CASE n # 0
    <3>1. n \in 1..5 /\ n - 1 \in 0..5
      BY <2>2
    <3>2. g[n] = step[n][g[n - 1]] /\ g[n - 1] \in V
      BY <1>5, <3>1 DEF Turns
    <3> QED
      BY <1>4, <2>2, <3>1, <3>2
  <2> QED
    BY <2>1, <2>2
<1>7. Loop(g)
  BY <1>5, <1>6
<1>8. Loop(c)
  BY <1>7
<1> HIDE DEF c
<1>9. c[0] = x /\ \A n \in 1..5 : c[n] = Turned(c[n - 1], n, w)
  <2>1. 0 \in 0..5 /\ \A n \in 1..5 : n \in 0..5 /\ n # 0
    OBVIOUS
  <2> QED
    BY <1>8, <2>1
<1> DEFINE G == {n \in 0..5 : c[n] \in V}
<1>10. \A n \in 0..5 : n \in G
  <2>1. 0 \in G
    BY <1>3, <1>9
  <2>2. \A n \in 1..5 : n - 1 \in G => n \in G
    BY <1>2, <1>9
  <2> HIDE DEF G
  <2> QED
    BY <2>1, <2>2, CountsUp
<1>11. \A n \in 1..5 : n - 1 \in 0..5
  OBVIOUS
<1> QED
  BY <1>1, <1>9, <1>10, <1>11 DEF V

\* The last bit comes first.
LEMMA ReverseIsMirror ==
  ASSUME NEW w \in {8, 16, 32}, NEW x \in SUBSET (0..(w - 1))
  PROVE  MW!reverse_bits(x, w) = MW!Mirror(x, w)
<1>1. PICK f : /\ f[0] = x /\ MW!reverse_bits(x, w) = f[5]
               /\ \A n \in 1..5 : f[n - 1] \in SUBSET (0..(w - 1)) /\ f[n] = Turned(f[n - 1], n, w)
  BY ReverseTurns
<1> DEFINE From(s, m) == /\ s \in SUBSET (0..(w - 1))
                         /\ \A j \in 0..(w - 1) : j \in s <=> Flip(m, j) \in x
<1>2. ASSUME NEW s, NEW k \in {1, 2, 4, 8, 16}, 2 * k <= w, From(s, k) PROVE From(MW!Swap(s, k, w), 2 * k)
  <2>1. s \in SUBSET (0..(w - 1))
    BY <1>2
  <2>2. /\ MW!Swap(s, k, w) \in SUBSET (0..(w - 1))
        /\ \A j \in 0..(w - 1) : j \in MW!Swap(s, k, w) <=> Across(k, j) \in s
    BY <1>2, <2>1, SwapMoves
  <2> SUFFICES ASSUME NEW j \in 0..(w - 1) PROVE j \in MW!Swap(s, k, w) <=> Flip(2 * k, j) \in x
    BY <2>2
  <2>3. Across(k, j) \in 0..(w - 1)
    <3>1. j \in 0..31 /\ w % (2 * k) = 0
      BY <1>2
    <3> QED
      BY <1>2, <3>1 DEF Across
  <2>4. Flip(k, Across(k, j)) = Flip(2 * k, j)
    <3>1. j \in 0..31
      OBVIOUS
    <3> QED
      BY <3>1, FlipGrows
  <2> QED
    BY <1>2, <2>2, <2>3, <2>4
<1>3. From(x, 1)
  BY DEF Flip
<1>4. MW!reverse_bits(x, w) = f[5] /\ From(f[5], w)
  <2>1. f[1] = MW!Swap(x, 1, w) /\ f[2] = MW!Swap(f[1], 2, w) /\ f[3] = MW!Swap(f[2], 4, w)
    <3>1. f[1] = Turned(f[0], 1, w) /\ f[2] = Turned(f[1], 2, w) /\ f[3] = Turned(f[2], 3, w)
      <4>1. 1 \in 1..5 /\ 2 \in 1..5 /\ 3 \in 1..5 /\ 1 - 1 = 0 /\ 2 - 1 = 1 /\ 3 - 1 = 2
        OBVIOUS
      <4> QED
        BY <1>1, <4>1
    <3>2. Turned(x, 1, w) = MW!Swap(x, 1, w) /\ Turned(f[1], 2, w) = MW!Swap(f[1], 2, w)
          /\ Turned(f[2], 3, w) = MW!Swap(f[2], 4, w)
      BY Powers DEF Turned
    <3> QED
      BY <1>1, <3>1, <3>2
  <2>2. From(f[3], 8)
    <3> HIDE DEF From
    <3>1. From(f[1], 2)
      BY <1>2, <1>3, <2>1
    <3>2. From(f[2], 4)
      BY <1>2, <2>1, <3>1
    <3> QED
      BY <1>2, <2>1, <3>2
  <2>3. /\ f[4] = IF w = 8 THEN f[3] ELSE MW!Swap(f[3], 8, w)
        /\ f[5] = IF w = 32 THEN MW!Swap(f[4], 16, w) ELSE f[4]
    <3>1. f[4] = Turned(f[3], 4, w) /\ f[5] = Turned(f[4], 5, w)
      <4>1. 4 \in 1..5 /\ 5 \in 1..5 /\ 4 - 1 = 3 /\ 5 - 1 = 4
        OBVIOUS
      <4> QED
        BY <1>1, <4>1
    <3>2. Turned(f[3], 4, w) = IF w = 8 THEN f[3] ELSE MW!Swap(f[3], 8, w)
      BY Powers DEF Turned
    <3>3. Turned(f[4], 5, w) = IF w = 32 THEN MW!Swap(f[4], 16, w) ELSE f[4]
      BY Powers DEF Turned
    <3> QED
      BY <3>1, <3>2, <3>3
  <2> HIDE DEF From
  <2>4. CASE w = 8
    BY <1>1, <2>2, <2>3, <2>4
  <2>5. CASE w = 16
    <3>1. From(f[4], 16)
      BY <1>2, <2>2, <2>3, <2>5
    <3> QED
      BY <1>1, <2>3, <2>5, <3>1
  <2>6. CASE w = 32
    <3>1. From(f[4], 16)
      BY <1>2, <2>2, <2>3, <2>6
    <3>2. From(f[5], 32)
      BY <1>2, <2>3, <2>6, <3>1
    <3> QED
      BY <1>1, <2>6, <3>2
  <2> QED
    BY <2>4, <2>5, <2>6
<1>5. \A j \in 0..(w - 1) : Flip(w, j) = w - 1 - j
  BY DEF Flip
<1>6. f[5] = {w - 1 - i : i \in x}
  <2>1. \A j \in 0..(w - 1) : j \in f[5] <=> w - 1 - j \in x
    BY <1>4, <1>5
  <2>2. f[5] \in SUBSET (0..(w - 1))
    BY <1>4
  <2>3. \A i \in x : w - 1 - i \in 0..(w - 1) /\ w - 1 - (w - 1 - i) = i
    OBVIOUS
  <2>4. \A j \in 0..(w - 1) : w - 1 - (w - 1 - j) = j
    OBVIOUS
  <2> QED
    BY <2>1, <2>2, <2>3, <2>4
<1> QED
  BY <1>4, <1>6 DEF MW!Mirror

-----------------------------------------------------------------------------
(***************************************************************************)
(* Bytes, and the bit loops of the checksums.                              *)
(***************************************************************************)
EightBits == SUBSET (0..7)

LEMMA XorIsByte == ASSUME NEW x \in EightBits, NEW y \in EightBits PROVE MW!Xor(x, y) \in EightBits
BY DEF EightBits, MW!Xor

LEMMA ShiftsAreBytes ==
  ASSUME NEW x \in EightBits
  PROVE  MW!ShiftLeft(x) \in EightBits /\ MW!ShiftRight(x) \in EightBits
<1>1. MW!Left(x, 1, 8) \in EightBits /\ MW!Right(x, 1) \in EightBits
  BY DEF MW!Left, MW!Right, EightBits
<1>2. {0, 4, 5} \in EightBits /\ {2, 3, 7} \in EightBits /\ {} \in EightBits
  BY DEF EightBits
<1> QED
  BY <1>1, <1>2, XorIsByte DEF MW!ShiftLeft, MW!ShiftRight

\* A loop of eight steps that stay within the bytes.
EightSteps(r, x, y) == r[0] = x /\ r[8] = y /\ \A k \in 0..8 : r[k] \in EightBits

LEMMA BitsLeft ==
  ASSUME NEW x \in EightBits
  PROVE  \E r : EightSteps(r, x, MW!Bits(x, MW!ShiftLeft)) /\ \A k \in 1..8 : r[k] = MW!ShiftLeft(r[k - 1])
<1> DEFINE step == [k \in 1..8 |-> [v \in EightBits |-> MW!ShiftLeft(v)]]
           Loop(f) == f = [k \in 0..8 |-> IF k = 0 THEN x ELSE MW!ShiftLeft(f[k - 1])]
           c == CHOOSE f : Loop(f)
<1>1. MW!Bits(x, MW!ShiftLeft) = c[8]
  BY DEF MW!Bits
<1>2. \A k \in 1..8 : \A v \in EightBits : step[k][v] = MW!ShiftLeft(v) /\ step[k][v] \in EightBits
  BY ShiftsAreBytes
<1> HIDE DEF step
<1>3. PICK g \in [0..8 -> EightBits] : Turns(g, 8, x, step)
  BY <1>2, TurnsDefine
<1>4. \A k \in 0..8 : g[k] = IF k = 0 THEN x ELSE MW!ShiftLeft(g[k - 1])
  BY <1>2, <1>3 DEF Turns
<1>5. Loop(g)
  BY <1>3, <1>4
<1>6. Loop(c)
  BY <1>5
<1> HIDE DEF c
<1>7. c[0] = x /\ \A k \in 1..8 : c[k] = MW!ShiftLeft(c[k - 1])
  <2>1. 0 \in 0..8 /\ \A k \in 1..8 : k \in 0..8 /\ k # 0
    OBVIOUS
  <2> QED
    BY <1>6, <2>1
<1> DEFINE G == {k \in 0..8 : c[k] \in EightBits}
<1>8. \A k \in 0..8 : k \in G
  <2>1. 0 \in G
    BY <1>7
  <2>2. \A k \in 1..8 : k - 1 \in G => k \in G
    BY <1>7, ShiftsAreBytes
  <2> HIDE DEF G
  <2> QED
    BY <2>1, <2>2, CountsUp
<1>9. EightSteps(c, x, c[8])
  BY <1>7, <1>8 DEF EightSteps
<1> QED
  BY <1>1, <1>7, <1>9

LEMMA BitsRight ==
  ASSUME NEW x \in EightBits
  PROVE  \E r : EightSteps(r, x, MW!Bits(x, MW!ShiftRight)) /\ \A k \in 1..8 : r[k] = MW!ShiftRight(r[k - 1])
<1> DEFINE step == [k \in 1..8 |-> [v \in EightBits |-> MW!ShiftRight(v)]]
           Loop(f) == f = [k \in 0..8 |-> IF k = 0 THEN x ELSE MW!ShiftRight(f[k - 1])]
           c == CHOOSE f : Loop(f)
<1>1. MW!Bits(x, MW!ShiftRight) = c[8]
  BY DEF MW!Bits
<1>2. \A k \in 1..8 : \A v \in EightBits : step[k][v] = MW!ShiftRight(v) /\ step[k][v] \in EightBits
  BY ShiftsAreBytes
<1> HIDE DEF step
<1>3. PICK g \in [0..8 -> EightBits] : Turns(g, 8, x, step)
  BY <1>2, TurnsDefine
<1>4. \A k \in 0..8 : g[k] = IF k = 0 THEN x ELSE MW!ShiftRight(g[k - 1])
  BY <1>2, <1>3 DEF Turns
<1>5. Loop(g)
  BY <1>3, <1>4
<1>6. Loop(c)
  BY <1>5
<1> HIDE DEF c
<1>7. c[0] = x /\ \A k \in 1..8 : c[k] = MW!ShiftRight(c[k - 1])
  <2>1. 0 \in 0..8 /\ \A k \in 1..8 : k \in 0..8 /\ k # 0
    OBVIOUS
  <2> QED
    BY <1>6, <2>1
<1> DEFINE G == {k \in 0..8 : c[k] \in EightBits}
<1>8. \A k \in 0..8 : k \in G
  <2>1. 0 \in G
    BY <1>7
  <2>2. \A k \in 1..8 : k - 1 \in G => k \in G
    BY <1>7, ShiftsAreBytes
  <2> HIDE DEF G
  <2> QED
    BY <2>1, <2>2, CountsUp
<1>9. EightSteps(c, x, c[8])
  BY <1>7, <1>8 DEF EightSteps
<1> QED
  BY <1>1, <1>7, <1>9

\* The shift to the right is the shift to the left of the mirrored byte.
LEMMA MirrorXor ==
  ASSUME NEW x \in EightBits, NEW y \in EightBits
  PROVE  /\ MW!Mirror(x, 8) \in EightBits /\ MW!Mirror(MW!Mirror(x, 8), 8) = x
         /\ MW!Mirror(MW!Xor(x, y), 8) = MW!Xor(MW!Mirror(x, 8), MW!Mirror(y, 8))
<1>1. \A z \in EightBits : MW!Mirror(z, 8) = {j \in 0..7 : 7 - j \in z}
  <2> SUFFICES ASSUME NEW z \in EightBits PROVE MW!Mirror(z, 8) = {j \in 0..7 : 7 - j \in z}
    OBVIOUS
  <2>1. \A i \in z : 8 - 1 - i \in 0..7 /\ 7 - (8 - 1 - i) = i
    BY DEF EightBits
  <2>2. \A j \in 0..7 : 8 - 1 - (7 - j) = j
    OBVIOUS
  <2> QED
    BY <2>1, <2>2 DEF MW!Mirror
<1>2. MW!Mirror(x, 8) \in EightBits /\ MW!Mirror(y, 8) \in EightBits
  BY <1>1 DEF EightBits
<1>3. \A j \in 0..7 : 7 - j \in 0..7 /\ 7 - (7 - j) = j
  OBVIOUS
<1>4. MW!Mirror(MW!Mirror(x, 8), 8) = x
  <2>1. MW!Mirror(MW!Mirror(x, 8), 8) = {j \in 0..7 : 7 - j \in MW!Mirror(x, 8)}
    BY <1>1, <1>2
  <2>2. \A j \in 0..7 : 7 - j \in MW!Mirror(x, 8) <=> j \in x
    BY <1>1, <1>3
  <2> QED
    BY <2>1, <2>2 DEF EightBits
<1>5. MW!Xor(x, y) \in EightBits
  BY XorIsByte
<1>6. MW!Mirror(MW!Xor(x, y), 8) = MW!Xor(MW!Mirror(x, 8), MW!Mirror(y, 8))
  <2>1. MW!Mirror(MW!Xor(x, y), 8) = {j \in 0..7 : 7 - j \in MW!Xor(x, y)}
    BY <1>1, <1>5
  <2>2. MW!Mirror(x, 8) = {j \in 0..7 : 7 - j \in x} /\ MW!Mirror(y, 8) = {j \in 0..7 : 7 - j \in y}
    BY <1>1
  <2> QED
    BY <2>1, <2>2 DEF MW!Xor
<1> QED
  BY <1>2, <1>4, <1>6

LEMMA MirrorShift ==
  ASSUME NEW x \in EightBits
  PROVE  MW!Mirror(MW!ShiftRight(x), 8) = MW!ShiftLeft(MW!Mirror(x, 8))
<1> DEFINE a == MW!Right(x, 1)
           b == IF 0 \in x THEN {2, 3, 7} ELSE {}
           c == MW!Left(MW!Mirror(x, 8), 1, 8)
           d == IF 7 \in MW!Mirror(x, 8) THEN {0, 4, 5} ELSE {}
<1>1. a \in EightBits /\ b \in EightBits
  BY DEF EightBits, MW!Right
<1>2. MW!Mirror(a, 8) = c
  <2>1. \A i \in x : /\ i - 1 \in Nat => (8 - 1 - i) + 1 \in 0..7 /\ (8 - 1 - i) + 1 = 8 - 1 - (i - 1)
                     /\ (8 - 1 - i) + 1 \in 0..7 => i - 1 \in Nat
    BY DEF EightBits
  <2> QED
    BY <2>1 DEF MW!Right, MW!Left, MW!Mirror
<1>3. MW!Mirror(b, 8) = d
  <2>1. 7 \in MW!Mirror(x, 8) <=> 0 \in x
    BY DEF MW!Mirror, EightBits
  <2>2. MW!Mirror({2, 3, 7}, 8) = {0, 4, 5} /\ MW!Mirror({}, 8) = {}
    BY DEF MW!Mirror
  <2> QED
    BY <2>1, <2>2
<1>4. MW!Mirror(MW!Xor(a, b), 8) = MW!Xor(MW!Mirror(a, 8), MW!Mirror(b, 8))
  BY <1>1, MirrorXor
<1>5. MW!ShiftRight(x) = MW!Xor(a, b) /\ MW!ShiftLeft(MW!Mirror(x, 8)) = MW!Xor(c, d)
  BY DEF MW!ShiftRight, MW!ShiftLeft
<1> QED
  BY <1>2, <1>3, <1>4, <1>5

\* So a step of crc8Dallas is one of crc8 on mirrored bytes.
LEMMA DallasMirrors ==
  ASSUME NEW x \in EightBits
  PROVE  MW!Mirror(MW!Bits(x, MW!ShiftRight), 8) = MW!Bits(MW!Mirror(x, 8), MW!ShiftLeft)
<1> DEFINE y == MW!Mirror(x, 8)
<1>0. y \in EightBits
  BY MirrorXor
<1>1. PICK r : EightSteps(r, x, MW!Bits(x, MW!ShiftRight)) /\ \A k \in 1..8 : r[k] = MW!ShiftRight(r[k - 1])
  BY BitsRight
<1>2. PICK s : EightSteps(s, y, MW!Bits(y, MW!ShiftLeft)) /\ \A k \in 1..8 : s[k] = MW!ShiftLeft(s[k - 1])
  BY <1>0, BitsLeft
<1> DEFINE G == {k \in 0..8 : MW!Mirror(r[k], 8) = s[k]}
<1>3. 0 \in G
  BY <1>1, <1>2 DEF EightSteps
<1>4. \A k \in 1..8 : k - 1 \in G => k \in G
  <2> SUFFICES ASSUME NEW k \in 1..8, MW!Mirror(r[k - 1], 8) = s[k - 1] PROVE MW!Mirror(r[k], 8) = s[k]
    OBVIOUS
  <2>1. r[k - 1] \in EightBits
    BY <1>1 DEF EightSteps
  <2>2. r[k] = MW!ShiftRight(r[k - 1]) /\ s[k] = MW!ShiftLeft(s[k - 1])
    BY <1>1, <1>2
  <2> QED
    BY <2>1, <2>2, MirrorShift
<1>5. \A k \in 0..8 : k \in G
  <2> HIDE DEF G
  <2> QED
    BY <1>3, <1>4, CountsUp
<1> QED
  BY <1>1, <1>2, <1>5 DEF EightSteps

-----------------------------------------------------------------------------
(***************************************************************************)
(* Division of polynomials.                                                *)
(***************************************************************************)
\* One step of the division: the leading term, of degree d, is cancelled.
Cancelled(p, d) == IF d \in p THEN MW!Xor(p, {d, d - 3, d - 4, d - 8}) ELSE p

\* f[d] is what is left of poly, of degree m at most, when its terms from d on are cancelled.
Divides(f, poly, m) ==
  /\ f[m + 1] = poly
  /\ \A d \in 8..m : f[d] = Cancelled(f[d + 1], d)
  /\ \A d \in 8..(m + 1) : f[d] \in SUBSET (0..(d - 1))

LEMMA CancelledBelow ==
  ASSUME NEW d \in Nat, d >= 8, NEW p \in SUBSET (0..d)
  PROVE  Cancelled(p, d) \in SUBSET (0..(d - 1))
<1>1. CASE d \in p
  <2>1. \A i \in MW!Xor(p, {d, d - 3, d - 4, d - 8}) : i \in 0..d /\ i # d
    BY <1>1 DEF MW!Xor
  <2>2. \A i \in MW!Xor(p, {d, d - 3, d - 4, d - 8}) : i \in 0..(d - 1)
    BY <2>1
  <2> QED
    BY <1>1, <2>2, Zenon DEF Cancelled
<1>2. CASE d \notin p
  BY <1>2 DEF Cancelled
<1> QED
  BY <1>1, <1>2

LEMMA RemainderDivides ==
  ASSUME NEW m \in Nat, m >= 7, NEW poly \in SUBSET (0..m)
  PROVE  \E f : Divides(f, poly, m) /\ MW!Remainder(poly, m) = f[8]
<1> DEFINE n == m - 7
           V == SUBSET (0..m)
           step == [k \in 1..n |-> [v \in V |-> Cancelled(v, m + 1 - k)]]
           Loop(f) == f = [d \in 8..(m + 1) |-> IF d = m + 1 THEN poly ELSE Cancelled(f[d + 1], d)]
           c == CHOOSE f : Loop(f)
<1>1. MW!Remainder(poly, m) = c[8]
  BY DEF MW!Remainder, Cancelled
<1>2. n \in Nat /\ poly \in V /\ \A k \in 1..n : m + 1 - k \in 8..m
  OBVIOUS
<1>3. \A d \in 8..m : \A v \in V : Cancelled(v, d) \in V
  BY DEF Cancelled, MW!Xor
<1> HIDE DEF V
<1>4. \A k \in 1..n : \A v \in V : step[k][v] = Cancelled(v, m + 1 - k) /\ step[k][v] \in V
  BY <1>2, <1>3
<1> HIDE DEF step, n
<1>5. PICK g \in [0..n -> V] : Turns(g, n, poly, step)
  BY <1>2, <1>4, TurnsDefine
<1> DEFINE h == [d \in 8..(m + 1) |-> g[m + 1 - d]]
<1>6. \A d \in 8..(m + 1) : h[d] = IF d = m + 1 THEN poly ELSE Cancelled(h[d + 1], d)
  <2> SUFFICES ASSUME NEW d \in 8..(m + 1) PROVE h[d] = IF d = m + 1 THEN poly ELSE Cancelled(h[d + 1], d)
    OBVIOUS
  <2> DEFINE k == m + 1 - d
  <2>1. k \in 0..n /\ h[d] = g[k]
    BY DEF n
  <2>2. CASE d = m + 1
    <3>1. k = 0
      BY <2>2
    <3> HIDE DEF h
    <3> QED
      BY <1>5, <2>1, <2>2, <3>1 DEF Turns
  <2>3. CASE d # m + 1
    <3>1. k \in 1..n /\ d + 1 \in 8..(m + 1) /\ k - 1 = m + 1 - (d + 1) /\ m + 1 - k = d /\ k - 1 \in 0..n
      BY <2>3 DEF n
    <3>2. h[d + 1] = g[k - 1] /\ g[k - 1] \in V
      BY <1>5, <3>1
    <3> HIDE DEF h, k
    <3>3. g[k] = step[k][g[k - 1]]
      BY <1>5, <3>1 DEF Turns
    <3>4. g[k] = Cancelled(g[k - 1], d)
      BY <1>4, <3>1, <3>2, <3>3
    <3> QED
      BY <2>1, <2>3, <3>2, <3>4
  <2> QED
    BY <2>2, <2>3
<1>7. Loop(h)
  BY <1>6
<1>8. Loop(c)
  BY <1>7, Zenon
<1> HIDE DEF c, h
<1>9. c[m + 1] = poly /\ \A d \in 8..m : c[d] = Cancelled(c[d + 1], d)
  <2>1. m + 1 \in 8..(m + 1) /\ \A d \in 8..m : d \in 8..(m + 1) /\ d # m + 1
    OBVIOUS
  <2> QED
    BY <1>8, <2>1
<1> DEFINE Small(k) == c[m + 1 - k] \in SUBSET (0..(m - k))
           G == {k \in 0..n : Small(k)}
<1>10. \A k \in 0..n : k \in G
  <2>1. 0 \in G
    <3>1. m + 1 - 0 = m + 1 /\ m - 0 = m /\ 0 \in 0..n
      BY <1>2
    <3> QED
      BY <1>9, <3>1
  <2>2. ASSUME NEW k \in 1..n, Small(k - 1) PROVE Small(k)
    <3> DEFINE d == m + 1 - k
    <3>1. d \in 8..m /\ m + 1 - (k - 1) = d + 1 /\ m - (k - 1) = d /\ m - k = d - 1 /\ d \in Nat /\ d >= 8
      BY <1>2
    <3>2. c[d + 1] \in SUBSET (0..d) /\ c[d] = Cancelled(c[d + 1], d)
      BY <1>9, <2>2, <3>1
    <3> HIDE DEF d
    <3>3. c[d] \in SUBSET (0..(d - 1))
      BY <3>1, <3>2, CancelledBelow
    <3> QED
      BY <3>1, <3>3 DEF d
  <2>3. \A k \in 1..n : k - 1 \in G => k \in G
    BY <2>2
  <2> HIDE DEF G
  <2> QED
    BY <1>2, <2>1, <2>3, CountsUp
<1>11. ASSUME NEW d \in 8..(m + 1) PROVE c[d] \in SUBSET (0..(d - 1))
  <2> DEFINE k == m + 1 - d
  <2>1. k \in 0..n /\ m + 1 - k = d /\ m - k = d - 1
    BY DEF n
  <2>2. Small(k)
    BY <1>10, <2>1
  <2> QED
    BY <2>1, <2>2
<1> QED
  BY <1>1, <1>9, <1>11 DEF Divides

\* A polynomial times x^k.
Times8(p) == {8 + i : i \in p}

LEMMA MessageGrows ==
  ASSUME NEW bytes \in Seq(EightBits), NEW e \in EightBits
  PROVE  /\ MW!Message(bytes) \in SUBSET (0..(8 * Len(bytes) + 7))
         /\ MW!Message(Append(bytes, e)) = MW!Xor(Times8(MW!Message(bytes)), Times8(e))
<1> DEFINE n == Len(bytes)
           more == Append(bytes, e)
           At(k) == {8 * (n - k + 1) + i : i \in bytes[k]}
           Then(k) == {8 * ((n + 1) - k + 1) + i : i \in more[k]}
<1>1. n \in Nat /\ DOMAIN bytes = 1..n /\ Len(more) = n + 1 /\ DOMAIN more = 1..(n + 1)
      /\ more[n + 1] = e /\ \A k \in 1..n : more[k] = bytes[k] /\ bytes[k] \in EightBits
  OBVIOUS
<1>2. MW!Message(bytes) = UNION {At(k) : k \in 1..n}
  BY <1>1 DEF MW!Message
<1>3. MW!Message(more) = UNION {Then(k) : k \in 1..(n + 1)}
  BY <1>1 DEF MW!Message
<1> HIDE DEF n, more
<1>4. \A k \in 1..n : At(k) \in SUBSET (8..(8 * n + 7)) /\ Then(k) = Times8(At(k)) /\ k \in 1..(n + 1)
  <2> SUFFICES ASSUME NEW k \in 1..n
               PROVE  At(k) \in SUBSET (8..(8 * n + 7)) /\ Then(k) = Times8(At(k)) /\ k \in 1..(n + 1)
    OBVIOUS
  <2>1. \A i \in bytes[k] : /\ i \in 0..7 /\ 8 * (n - k + 1) + i \in 8..(8 * n + 7)
                            /\ 8 * ((n + 1) - k + 1) + i = 8 + (8 * (n - k + 1) + i)
    BY <1>1 DEF EightBits
  <2>2. At(k) \in SUBSET (8..(8 * n + 7))
    BY <2>1
  <2>3. more[k] = bytes[k]
    BY <1>1
  <2>4. Then(k) = Times8(At(k))
    BY <2>1, <2>3 DEF Times8
  <2> QED
    BY <1>1, <2>2, <2>4
<1>5. Then(n + 1) = Times8(e)
  <2>1. \A i \in e : i \in Int /\ 8 * ((n + 1) - (n + 1) + 1) + i = 8 + i
    BY <1>1 DEF EightBits
  <2> QED
    BY <1>1, <2>1 DEF Times8
<1> HIDE DEF At, Then
<1> DEFINE old == MW!Message(bytes)
<1>6. old \in SUBSET (8..(8 * n + 7))
  BY <1>2, <1>4
<1>7. MW!Message(more) = Times8(old) \cup Times8(e)
  <2>1. MW!Message(more) = (UNION {Then(k) : k \in 1..n}) \cup Then(n + 1)
    <3>1. 1..(n + 1) = (1..n) \cup {n + 1}
      BY <1>1
    <3> QED
      BY <1>3, <3>1
  <2>2. UNION {Then(k) : k \in 1..n} = UNION {Times8(At(k)) : k \in 1..n}
    BY <1>4
  <2>3. UNION {Times8(At(k)) : k \in 1..n} = Times8(UNION {At(k) : k \in 1..n})
    <3>1. \A x : x \in UNION {Times8(At(k)) : k \in 1..n} <=> \E k \in 1..n : \E i \in At(k) : x = 8 + i
      BY DEF Times8
    <3>2. \A x : x \in Times8(UNION {At(k) : k \in 1..n}) <=> \E k \in 1..n : \E i \in At(k) : x = 8 + i
      BY DEF Times8
    <3> QED
      BY <3>1, <3>2, Zenon
  <2> QED
    BY <1>2, <1>5, <2>1, <2>2, <2>3
<1> HIDE DEF old
<1>8. Times8(old) \cap Times8(e) = {}
  <2>1. \A i \in old, j \in e : 8 + i # 8 + j
    BY <1>1, <1>6 DEF EightBits
  <2> QED
    BY <2>1 DEF Times8
<1>9. old \in SUBSET (0..(8 * n + 7))
  BY <1>1, <1>6
<1> QED
  BY <1>7, <1>8, <1>9 DEF MW!Xor, old, more, n

\* Cancelling terms commutes with the multiplication, and a byte that is added below
\* the terms that are cancelled does not matter.
LEMMA CancelledAbove ==
  ASSUME NEW d \in Nat, d >= 8, NEW p \in SUBSET (0..d), NEW e \in EightBits
  PROVE  Cancelled(MW!Xor(Times8(p), Times8(e)), d + 8) = MW!Xor(Times8(Cancelled(p, d)), Times8(e))
<1> DEFINE a == Times8(p)
           b == Times8(e)
           t == {d + 8, d + 8 - 3, d + 8 - 4, d + 8 - 8}
           u == {d, d - 3, d - 4, d - 8}
<1>1. d + 8 \notin b
  BY DEF Times8, EightBits
<1>2. d + 8 \in a <=> d \in p
  BY DEF Times8
<1>3. t = Times8(u)
  BY DEF Times8
<1>4. Times8(MW!Xor(p, u)) = MW!Xor(a, Times8(u))
  <2>1. \A i \in p \cup u, j \in p \cup u : 8 + i = 8 + j => i = j
    OBVIOUS
  <2> QED
    BY <2>1 DEF Times8, MW!Xor
<1> HIDE DEF a, b, t, u
<1>5. d + 8 \in MW!Xor(a, b) <=> d \in p
  BY <1>1, <1>2 DEF MW!Xor
<1>6. MW!Xor(MW!Xor(a, b), t) = MW!Xor(MW!Xor(a, t), b)
  BY DEF MW!Xor
<1>7. CASE d \in p
  <2>1. Cancelled(MW!Xor(a, b), d + 8) = MW!Xor(MW!Xor(a, b), t)
    BY <1>5, <1>7 DEF Cancelled, t
  <2>2. Cancelled(p, d) = MW!Xor(p, u)
    BY <1>7 DEF Cancelled, u
  <2> QED
    BY <1>3, <1>4, <1>6, <2>1, <2>2 DEF a, b
<1>8. CASE d \notin p
  BY <1>5, <1>8 DEF Cancelled, a, b
<1> QED
  BY <1>7, <1>8

\* The byte r in the positions from k on.
Raised(r, k) == {i + k : i \in r}

\* Cancelling the leading term of a byte is one shift of it.
LEMMA CancelledByte ==
  ASSUME NEW k \in 0..7, NEW r \in EightBits
  PROVE  Cancelled(Raised(r, k + 1), k + 8) = Raised(MW!ShiftLeft(r), k)
<1> DEFINE a == Raised(r, k + 1)
           t == {k + 8, k + 8 - 3, k + 8 - 4, k + 8 - 8}
           l == MW!Left(r, 1, 8)
           v == IF 7 \in r THEN {0, 4, 5} ELSE {}
<1>1. k + 8 \in a <=> 7 \in r
  BY DEF Raised, EightBits
<1>2. l = {i + 1 : i \in r \ {7}}
  BY DEF MW!Left, EightBits
<1>3. MW!ShiftLeft(r) = MW!Xor(l, v)
  BY DEF MW!ShiftLeft
<1>4. CASE 7 \in r
  <2>1. t = {k + 8, k + 5, k + 4, k} /\ v = {0, 4, 5}
    BY <1>4
  <2>2. Cancelled(a, k + 8) = MW!Xor(a, t)
    BY <1>1, <1>4 DEF Cancelled
  <2>3. \A i \in r : i \in 0..7
    BY DEF EightBits
  <2> HIDE DEF t, v, l
  <2>4. a = {i + (k + 1) : i \in r}
    BY DEF Raised
  <2>5. MW!Xor(a, t) = {j \in k..(k + 7) : j - k \in MW!Xor(l, v)}
    <3>1. \A j \in Int : j \in a <=> j - k - 1 \in r
      BY <2>3, <2>4
    <3>2. \A j \in Int : j \in l <=> j - 1 \in r /\ j - 1 # 7
      BY <1>2, <2>3
    <3>3. \A j \in a \cup t : j \in k..(k + 8)
      BY <2>1, <2>3, <2>4
    <3>4. k + 8 \notin MW!Xor(a, t)
      BY <1>1, <1>4, <2>1 DEF MW!Xor
    <3>5. \A j \in k..(k + 7) : j \in a <=> j - k \in l
      BY <3>1, <3>2
    <3>6. \A j \in k..(k + 7) : j \in t <=> j - k \in v
      BY <2>1
    <3>7. \A j \in MW!Xor(a, t) : j \in k..(k + 7)
      BY <3>3, <3>4 DEF MW!Xor
    <3> QED
      BY <3>5, <3>6, <3>7 DEF MW!Xor
  <2>6. \A i \in MW!Xor(l, v) : i \in 0..7
    BY <1>2, <2>1, <2>3 DEF MW!Xor
  <2>7. Raised(MW!Xor(l, v), k) = {j \in k..(k + 7) : j - k \in MW!Xor(l, v)}
    <3> DEFINE s == MW!Xor(l, v)
    <3>1. \A i \in s : i \in 0..7
      BY <2>6
    <3> HIDE DEF s
    <3>2. \A i \in s : i + k \in k..(k + 7) /\ (i + k) - k = i
      BY <3>1
    <3>3. \A j \in k..(k + 7) : (j - k) + k = j
      OBVIOUS
    <3>4. Raised(s, k) = {j \in k..(k + 7) : j - k \in s}
      BY <3>2, <3>3 DEF Raised
    <3> QED
      BY <3>4 DEF s
  <2> QED
    BY <1>3, <2>2, <2>5, <2>7
<1>5. CASE 7 \notin r
  <2>1. Cancelled(a, k + 8) = a /\ v = {}
    BY <1>1, <1>5 DEF Cancelled
  <2>2. MW!Xor(l, v) = l
    BY <2>1 DEF MW!Xor
  <2>3. Raised(l, k) = a
    <3>1. \A i \in r : i # 7 /\ (i + 1) + k = i + (k + 1)
      BY <1>5 DEF EightBits
    <3> QED
      BY <1>2, <3>1 DEF Raised
  <2> QED
    BY <1>3, <2>1, <2>2, <2>3
<1> QED
  BY <1>4, <1>5

\* c is the remainder that the bytes so far leave.
CrcOf(bytes, c) == c \in EightBits /\ c = MW!Remainder(MW!Message(bytes), 8 * Len(bytes) + 7)

LEMMA CrcOfNothing == CrcOf(<<>>, {})
<1> DEFINE bytes == <<>>
<1>1. bytes \in Seq(EightBits) /\ Len(bytes) = 0 /\ DOMAIN bytes = {}
  OBVIOUS
<1>2. MW!Message(bytes) = {}
  BY <1>1 DEF MW!Message
<1>3. {} \in SUBSET (0..7) /\ {} \in EightBits /\ 8 * 0 + 7 = 7
  BY DEF EightBits
<1> HIDE DEF bytes
<1>4. PICK f : Divides(f, {}, 7) /\ MW!Remainder({}, 7) = f[8]
  BY <1>3, RemainderDivides
<1>5. f[8] = {}
  BY <1>4 DEF Divides
<1>6. MW!Remainder(MW!Message(bytes), 8 * Len(bytes) + 7) = {}
  BY <1>1, <1>2, <1>3, <1>4, <1>5
<1> QED
  BY <1>3, <1>6 DEF CrcOf, bytes

\* The bit loop on the old remainder and the next byte gives the new one.
LEMMA CrcGrows ==
  ASSUME NEW bytes \in Seq(EightBits), NEW e \in EightBits, NEW c, CrcOf(bytes, c)
  PROVE  CrcOf(Append(bytes, e), MW!Bits(MW!Xor(c, e), MW!ShiftLeft))
<1> DEFINE n == Len(bytes)
           m == 8 * n + 7
           old == MW!Message(bytes)
           new == MW!Message(Append(bytes, e))
           x == MW!Xor(c, e)
           b == Times8(e)
<1>1. n \in Nat /\ m \in Nat /\ m >= 7 /\ Len(Append(bytes, e)) = n + 1 /\ 8 * (n + 1) + 7 = m + 8
  OBVIOUS
<1>2. old \in SUBSET (0..m) /\ new = MW!Xor(Times8(old), b)
  BY MessageGrows
<1>3. c \in EightBits /\ c = MW!Remainder(old, m) /\ x \in EightBits
  BY XorIsByte DEF CrcOf
<1> HIDE DEF old, new, x, n, m
<1>4. new \in SUBSET (0..(m + 8))
  <2>1. \A i \in old : 8 + i \in 0..(m + 8)
    BY <1>1, <1>2
  <2>2. \A i \in e : 8 + i \in 0..(m + 8)
    BY <1>1 DEF EightBits
  <2> QED
    BY <1>2, <2>1, <2>2 DEF MW!Xor, Times8
<1>5. PICK f : Divides(f, old, m) /\ MW!Remainder(old, m) = f[8]
  BY <1>1, <1>2, RemainderDivides
<1>6. PICK g : Divides(g, new, m + 8) /\ MW!Remainder(new, m + 8) = g[8]
  <2>1. m + 8 \in Nat /\ m + 8 >= 7
    BY <1>1
  <2> QED
    BY <1>4, <2>1, RemainderDivides
<1>7. PICK r : EightSteps(r, x, MW!Bits(x, MW!ShiftLeft)) /\ \A k \in 1..8 : r[k] = MW!ShiftLeft(r[k - 1])
  BY <1>3, BitsLeft
<1> HIDE DEF b
<1> DEFINE Same(k) == g[m + 9 - k] = MW!Xor(Times8(f[m + 1 - k]), b)
           G == {k \in 0..(m - 7) : Same(k)}
<1>8. \A k \in 0..(m - 7) : k \in G
  <2>1. Same(0)
    <3>1. m + 9 - 0 = m + 8 + 1 /\ m + 1 - 0 = m + 1
      BY <1>1
    <3>2. g[m + 8 + 1] = new /\ f[m + 1] = old
      BY <1>5, <1>6 DEF Divides
    <3> QED
      BY <1>2, <3>1, <3>2
  <2>2. ASSUME NEW k \in 1..(m - 7), Same(k - 1) PROVE Same(k)
    <3> DEFINE d == m + 1 - k
    <3>1. /\ d \in 8..m /\ d + 8 \in 8..(m + 8) /\ d \in Nat /\ d >= 8 /\ d + 1 \in 8..(m + 1) /\ d + 1 - 1 = d
          /\ m + 9 - (k - 1) = d + 8 + 1 /\ m + 1 - (k - 1) = d + 1 /\ m + 9 - k = d + 8 /\ m + 1 - k = d
      BY <1>1
    <3>2. g[d + 8 + 1] = MW!Xor(Times8(f[d + 1]), b)
      BY <2>2, <3>1
    <3> HIDE DEF d
    <3>3. g[d + 8] = Cancelled(g[d + 8 + 1], d + 8) /\ f[d] = Cancelled(f[d + 1], d)
      BY <1>5, <1>6, <3>1 DEF Divides
    <3>4. f[d + 1] \in SUBSET (0..d)
      <4>1. f[d + 1] \in SUBSET (0..(d + 1 - 1))
        BY <1>5, <3>1 DEF Divides
      <4> QED
        BY <3>1, <4>1
    <3>5. Cancelled(MW!Xor(Times8(f[d + 1]), b), d + 8) = MW!Xor(Times8(Cancelled(f[d + 1], d)), b)
      BY <3>1, <3>4, CancelledAbove DEF b
    <3>6. g[d + 8] = MW!Xor(Times8(f[d]), b)
      BY <3>2, <3>3, <3>5
    <3> QED
      BY <3>1, <3>6
  <2>3. 0 \in G
    BY <1>1, <2>1
  <2>4. \A k \in 1..(m - 7) : k - 1 \in G => k \in G
    BY <2>2
  <2>5. m - 7 \in Nat
    BY <1>1
  <2> HIDE DEF G
  <2> QED
    BY <2>3, <2>4, <2>5, CountsUp
<1>9. g[16] = Raised(x, 8)
  <2>1. m - 7 \in 0..(m - 7) /\ m + 9 - (m - 7) = 16 /\ m + 1 - (m - 7) = 8
    BY <1>1
  <2>2. g[16] = MW!Xor(Times8(c), b)
    <3>1. Same(m - 7)
      BY <1>8, <2>1
    <3> QED
      BY <1>3, <1>5, <2>1, <3>1
  <2>3. MW!Xor(Times8(c), Times8(e)) = Raised(MW!Xor(c, e), 8)
    <3>1. \A i \in c \cup e : i \in 0..7 /\ 8 + i = i + 8
      BY <1>3 DEF EightBits
    <3>2. \A i \in c \cup e, j \in c \cup e : 8 + i = 8 + j => i = j
      BY <3>1
    <3> QED
      BY <3>1, <3>2 DEF MW!Xor, Times8, Raised
  <2> QED
    BY <2>2, <2>3 DEF b, x
<1> DEFINE Eq(k) == g[16 - k] = Raised(r[k], 8 - k)
           H == {k \in 0..8 : Eq(k)}
<1>10. \A k \in 0..8 : k \in H
  <2>1. Eq(0)
    <3>1. 16 - 0 = 16 /\ 8 - 0 = 8 /\ r[0] = x
      BY <1>7 DEF EightSteps
    <3> QED
      BY <1>9, <3>1
  <2>2. ASSUME NEW k \in 1..8, Eq(k - 1) PROVE Eq(k)
    <3> DEFINE j == 8 - k
    <3>1. j \in 0..7 /\ 16 - (k - 1) = j + 8 + 1 /\ 8 - (k - 1) = j + 1 /\ 16 - k = j + 8 /\ 8 - k = j
          /\ j + 8 \in 8..(m + 8) /\ k - 1 \in 0..8
      BY <1>1
    <3>2. g[j + 8 + 1] = Raised(r[k - 1], j + 1)
      BY <2>2, <3>1
    <3>3. g[j + 8] = Cancelled(g[j + 8 + 1], j + 8)
      BY <1>6, <3>1 DEF Divides
    <3>4. r[k] = MW!ShiftLeft(r[k - 1]) /\ r[k - 1] \in EightBits
      BY <1>7, <3>1 DEF EightSteps
    <3> HIDE DEF j
    <3>5. Cancelled(Raised(r[k - 1], j + 1), j + 8) = Raised(MW!ShiftLeft(r[k - 1]), j)
      BY <3>1, <3>4, CancelledByte
    <3> QED
      BY <3>1, <3>2, <3>3, <3>4, <3>5
  <2>3. 0 \in H
    BY <2>1
  <2>4. \A k \in 1..8 : k - 1 \in H => k \in H
    <3> HIDE DEF Eq
    <3>1. \A k \in 1..8 : Eq(k - 1) => Eq(k)
      BY <2>2, Zenon
    <3>2. \A k \in 1..8 : k \in 0..8
      OBVIOUS
    <3> QED
      BY <3>1, <3>2
  <2> HIDE DEF H
  <2> QED
    BY <2>3, <2>4, CountsUp
<1>11. g[8] = r[8] /\ r[8] \in EightBits
  <2>1. Eq(8)
    BY <1>10
  <2>2. 16 - 8 = 8 /\ 8 - 8 = 0 /\ r[8] \in EightBits
    BY <1>7 DEF EightSteps
  <2>3. Raised(r[8], 0) = r[8]
    <3>1. \A i \in r[8] : i + 0 = i
      BY <2>2 DEF EightBits
    <3> QED
      BY <3>1 DEF Raised
  <2> QED
    BY <2>1, <2>2, <2>3
<1>12. MW!Bits(x, MW!ShiftLeft) = r[8]
  BY <1>7 DEF EightSteps
<1>13. MW!Remainder(new, 8 * Len(Append(bytes, e)) + 7) = g[8]
  BY <1>1, <1>6
<1> QED
  BY <1>11, <1>12, <1>13 DEF CrcOf, x, new

\* Sequences of the same length with the same elements.
LEMMA SameSequence ==
  ASSUME NEW S, NEW x \in Seq(S), NEW y \in Seq(S), Len(x) = Len(y), \A i \in 1..Len(x) : x[i] = y[i]
  PROVE  x = y
<1>1. x = [i \in 1..Len(x) |-> x[i]] /\ y = [i \in 1..Len(y) |-> y[i]]
  OBVIOUS
<1> QED
  BY <1>1

\* The bytes that the two checksums stand for: one inverts the first byte, the other
\* sends the bits of each byte in the other order.
Inverted(s) == [s EXCEPT ![1] = MW!Xor(@, 0..7)]
Mirrored(s) == [k \in DOMAIN s |-> MW!Mirror(s[k], 8)]

Crc8Of(s, c) == IF s = <<>> THEN c = 0..7 ELSE CrcOf(Inverted(s), c)
DallasOf(s, c) == c \in EightBits /\ CrcOf(Mirrored(s), MW!Mirror(c, 8))

LEMMA InvertedGrows ==
  ASSUME NEW s \in Seq(EightBits), NEW e \in EightBits, NEW t, t = Append(s, e)
  PROVE  /\ s = <<>> => Inverted(t) = Append(<<>>, MW!Xor(e, 0..7))
         /\ s # <<>> => Inverted(t) = Append(Inverted(s), e) /\ Inverted(s) \in Seq(EightBits)
<1> DEFINE all == 0..7
<1>1. all \in EightBits /\ \A x \in EightBits : MW!Xor(x, all) \in EightBits
  <2>1. all \in EightBits
    BY DEF EightBits
  <2> QED
    BY <2>1, XorIsByte
<1>2. t \in Seq(EightBits) /\ Len(t) = Len(s) + 1 /\ t[Len(s) + 1] = e /\ \A k \in 1..Len(s) : t[k] = s[k]
  OBVIOUS
<1> HIDE DEF all
<1>3. \A z \in Seq(EightBits) :
        /\ Inverted(z) \in Seq(EightBits) /\ Len(Inverted(z)) = Len(z)
        /\ \A k \in 1..Len(z) : Inverted(z)[k] = IF k = 1 THEN MW!Xor(z[1], all) ELSE z[k]
  <2> SUFFICES ASSUME NEW z \in Seq(EightBits)
               PROVE  /\ Inverted(z) \in Seq(EightBits) /\ Len(Inverted(z)) = Len(z)
                      /\ \A k \in 1..Len(z) : Inverted(z)[k] = IF k = 1 THEN MW!Xor(z[1], all) ELSE z[k]
    OBVIOUS
  <2> DEFINE n == Len(z)
             y == [k \in 1..n |-> IF k = 1 THEN MW!Xor(z[1], all) ELSE z[k]]
  <2>1. n \in Nat /\ \A k \in 1..n : z[k] \in EightBits
    OBVIOUS
  <2>2. Inverted(z) = y
    <3>1. z = [k \in 1..n |-> z[k]]
      OBVIOUS
    <3> QED
      BY <3>1 DEF Inverted, all
  <2> HIDE DEF n
  <2>3. \A k \in 1..n : y[k] \in EightBits
    BY <1>1, <2>1
  <2>4. y \in Seq(EightBits) /\ Len(y) = n
    BY <2>1, <2>3
  <2> QED
    BY <2>2, <2>4 DEF n
<1>4. Inverted(t) \in Seq(EightBits) /\ Len(Inverted(t)) = Len(s) + 1 /\ MW!Xor(e, all) \in EightBits
  BY <1>1, <1>2, <1>3
<1>5. CASE s = <<>>
  <2> DEFINE x == Append(<<>>, MW!Xor(e, all))
  <2>1. x \in Seq(EightBits) /\ Len(x) = 1 /\ x[1] = MW!Xor(e, all)
    <3> DEFINE f == MW!Xor(e, all)
    <3>1. f \in EightBits
      BY <1>4
    <3> HIDE DEF f
    <3>2. Append(<<>>, f) \in Seq(EightBits) /\ Len(Append(<<>>, f)) = 1 /\ Append(<<>>, f)[1] = f
      BY <3>1
    <3> QED
      BY <3>2 DEF f
  <2>2. Len(s) = 0 /\ t[1] = e
    BY <1>2, <1>5
  <2>3. Inverted(t)[1] = MW!Xor(e, all) /\ Len(Inverted(t)) = 1
    <3>1. 1 \in 1..Len(t) /\ Len(s) + 1 = 1
      BY <1>2, <2>2
    <3>2. Inverted(t)[1] = IF 1 = 1 THEN MW!Xor(t[1], all) ELSE t[1]
      BY <1>2, <1>3, <3>1, Zenon
    <3> QED
      BY <1>4, <2>2, <3>1, <3>2
  <2> HIDE DEF x
  <2>4. \A k \in 1..1 : Inverted(t)[k] = x[k]
    BY <2>1, <2>3
  <2>5. Inverted(t) = x
    BY <1>4, <2>1, <2>3, <2>4, SameSequence
  <2> QED
    BY <1>5, <2>5 DEF x, all
<1>6. CASE s # <<>>
  <2> DEFINE y == Inverted(s)
             x == Append(y, e)
  <2>1. y \in Seq(EightBits) /\ Len(y) = Len(s) /\ \A k \in 1..Len(s) : y[k] = IF k = 1 THEN MW!Xor(s[1], all) ELSE s[k]
    BY <1>3
  <2> HIDE DEF y
  <2>2. x \in Seq(EightBits) /\ Len(x) = Len(s) + 1 /\ x[Len(s) + 1] = e /\ \A k \in 1..Len(s) : x[k] = y[k]
    BY <2>1
  <2> HIDE DEF x
  <2>3. Len(s) > 0 /\ Len(s) \in Nat
    BY <1>6
  <2>4. \A k \in 1..(Len(s) + 1) : Inverted(t)[k] = x[k]
    <3> SUFFICES ASSUME NEW k \in 1..(Len(s) + 1) PROVE Inverted(t)[k] = x[k]
      OBVIOUS
    <3>1. Inverted(t)[k] = IF k = 1 THEN MW!Xor(t[1], all) ELSE t[k]
      BY <1>2, <1>3
    <3>2. t[1] = s[1]
      BY <1>2, <2>3
    <3>3. CASE k = Len(s) + 1
      BY <1>2, <2>2, <2>3, <3>1, <3>3
    <3>4. CASE k # Len(s) + 1
      <4>1. k \in 1..Len(s)
        BY <2>3, <3>4
      <4> QED
        BY <1>2, <2>1, <2>2, <3>1, <3>2, <4>1
    <3> QED
      BY <3>3, <3>4
  <2>5. Inverted(t) = x
    BY <1>4, <2>2, <2>4, SameSequence
  <2> QED
    BY <1>6, <2>1, <2>5 DEF x, y
<1> QED
  BY <1>5, <1>6

LEMMA MirroredGrows ==
  ASSUME NEW s \in Seq(EightBits), NEW e \in EightBits, NEW t, t = Append(s, e)
  PROVE  Mirrored(t) = Append(Mirrored(s), MW!Mirror(e, 8)) /\ Mirrored(s) \in Seq(EightBits)
<1>1. t \in Seq(EightBits) /\ Len(t) = Len(s) + 1 /\ t[Len(s) + 1] = e /\ \A k \in 1..Len(s) : t[k] = s[k]
  OBVIOUS
<1>2. \A z \in Seq(EightBits) :
        /\ Mirrored(z) \in Seq(EightBits) /\ Len(Mirrored(z)) = Len(z)
        /\ \A k \in 1..Len(z) : Mirrored(z)[k] = MW!Mirror(z[k], 8)
  <2> SUFFICES ASSUME NEW z \in Seq(EightBits)
               PROVE  /\ Mirrored(z) \in Seq(EightBits) /\ Len(Mirrored(z)) = Len(z)
                      /\ \A k \in 1..Len(z) : Mirrored(z)[k] = MW!Mirror(z[k], 8)
    OBVIOUS
  <2> DEFINE n == Len(z)
             y == [k \in 1..n |-> MW!Mirror(z[k], 8)]
  <2>1. n \in Nat /\ \A k \in 1..n : z[k] \in EightBits
    OBVIOUS
  <2>2. Mirrored(z) = y
    BY DEF Mirrored
  <2> HIDE DEF n
  <2>3. \A k \in 1..n : MW!Mirror(z[k], 8) \in EightBits
    BY <2>1, MirrorXor
  <2>4. y \in Seq(EightBits) /\ Len(y) = n
    BY <2>1, <2>3
  <2> QED
    BY <2>2, <2>4 DEF n
<1> DEFINE y == Mirrored(s)
           f == MW!Mirror(e, 8)
           x == Append(y, f)
<1>3. y \in Seq(EightBits) /\ Len(y) = Len(s) /\ f \in EightBits /\ \A k \in 1..Len(s) : y[k] = MW!Mirror(s[k], 8)
  BY <1>2, MirrorXor
<1> HIDE DEF y
<1>4. f = MW!Mirror(e, 8)
  OBVIOUS
<1> HIDE DEF f
<1>5. x \in Seq(EightBits) /\ Len(x) = Len(s) + 1 /\ x[Len(s) + 1] = f /\ \A k \in 1..Len(s) : x[k] = y[k]
  BY <1>3
<1> HIDE DEF x
<1>6. Mirrored(t) \in Seq(EightBits) /\ Len(Mirrored(t)) = Len(s) + 1
  BY <1>1, <1>2
<1>7. \A k \in 1..(Len(s) + 1) : Mirrored(t)[k] = x[k]
  <2> SUFFICES ASSUME NEW k \in 1..(Len(s) + 1) PROVE Mirrored(t)[k] = x[k]
    OBVIOUS
  <2>1. Mirrored(t)[k] = MW!Mirror(t[k], 8)
    BY <1>1, <1>2
  <2>2. CASE k = Len(s) + 1
    BY <1>1, <1>4, <1>5, <2>1, <2>2
  <2>3. CASE k # Len(s) + 1
    <3>1. k \in 1..Len(s)
      BY <2>3
    <3> QED
      BY <1>1, <1>3, <1>5, <2>1, <3>1
  <2> QED
    BY <2>2, <2>3
<1>8. Mirrored(t) = x
  BY <1>5, <1>6, <1>7, SameSequence
<1> QED
  BY <1>3, <1>8 DEF x, y, f

LEMMA Crc8Starts == 0..7 \in EightBits /\ Crc8Of(<<>>, 0..7) /\ {} \in EightBits /\ DallasOf(<<>>, {})
<1>1. 0..7 \in EightBits /\ {} \in EightBits
  BY DEF EightBits
<1>2. MW!Mirror({}, 8) = {}
  BY DEF MW!Mirror
<1>3. Mirrored(<<>>) = <<>>
  BY DEF Mirrored
<1> QED
  BY <1>1, <1>2, <1>3, CrcOfNothing DEF Crc8Of, DallasOf

LEMMA Crc8Grows ==
  ASSUME NEW s \in Seq(EightBits), NEW e \in EightBits, NEW c, Crc8Of(s, c), NEW t, t = Append(s, e)
  PROVE  Crc8Of(t, MW!Bits(MW!Xor(c, e), MW!ShiftLeft)) /\ t # <<>> /\ t \in Seq(EightBits)
<1> DEFINE d == MW!Bits(MW!Xor(c, e), MW!ShiftLeft)
<1>1. t \in Seq(EightBits) /\ t # <<>>
  OBVIOUS
<1>2. CASE s = <<>>
  <2> DEFINE g == MW!Xor(e, 0..7)
             none == <<>>
             zero == {}
  <2>1. c = 0..7 /\ c \in EightBits
    BY <1>2 DEF Crc8Of, EightBits
  <2>2. g \in EightBits /\ MW!Xor(c, e) = g
    <3>1. MW!Xor(e, c) \in EightBits /\ MW!Xor(c, e) = MW!Xor(e, c)
      BY <2>1, XorIsByte DEF MW!Xor
    <3> QED
      BY <2>1, <3>1
  <2>3. MW!Xor(zero, g) = g
    BY DEF MW!Xor
  <2>4. none \in Seq(EightBits) /\ CrcOf(none, zero)
    BY CrcOfNothing
  <2>5. Inverted(t) = Append(none, g)
    BY <1>2, InvertedGrows
  <2> HIDE DEF g, none, zero
  <2>6. CrcOf(Append(none, g), MW!Bits(MW!Xor(zero, g), MW!ShiftLeft))
    BY <2>2, <2>4, CrcGrows
  <2>7. CrcOf(Inverted(t), d)
    BY <2>2, <2>3, <2>5, <2>6
  <2> QED
    BY <1>1, <2>7 DEF Crc8Of
<1>3. CASE s # <<>>
  <2>1. CrcOf(Inverted(s), c)
    BY <1>3 DEF Crc8Of
  <2>2. Inverted(t) = Append(Inverted(s), e) /\ Inverted(s) \in Seq(EightBits)
    BY <1>3, InvertedGrows
  <2>3. CrcOf(Inverted(t), d)
    BY <2>1, <2>2, CrcGrows
  <2> QED
    BY <1>1, <2>3 DEF Crc8Of
<1> QED
  BY <1>2, <1>3

LEMMA DallasGrows ==
  ASSUME NEW s \in Seq(EightBits), NEW e \in EightBits, NEW c, DallasOf(s, c), NEW t, t = Append(s, e)
  PROVE  DallasOf(t, MW!Bits(MW!Xor(c, e), MW!ShiftRight)) /\ t # <<>> /\ t \in Seq(EightBits)
<1> DEFINE x == MW!Xor(c, e)
           d == MW!Bits(x, MW!ShiftRight)
           f == MW!Mirror(c, 8)
           g == MW!Mirror(e, 8)
<1>1. t \in Seq(EightBits) /\ t # <<>>
  OBVIOUS
<1>2. c \in EightBits /\ CrcOf(Mirrored(s), f) /\ x \in EightBits
  BY XorIsByte DEF DallasOf
<1>3. d \in EightBits
  <2>1. PICK r : EightSteps(r, x, MW!Bits(x, MW!ShiftRight)) /\ \A k \in 1..8 : r[k] = MW!ShiftRight(r[k - 1])
    BY <1>2, BitsRight
  <2> QED
    BY <2>1 DEF EightSteps
<1>4. Mirrored(t) = Append(Mirrored(s), g) /\ Mirrored(s) \in Seq(EightBits) /\ g \in EightBits
  BY MirroredGrows, MirrorXor
<1>5. CrcOf(Append(Mirrored(s), g), MW!Bits(MW!Xor(f, g), MW!ShiftLeft))
  BY <1>2, <1>4, CrcGrows
<1>6. MW!Mirror(d, 8) = MW!Bits(MW!Mirror(x, 8), MW!ShiftLeft)
  BY <1>2, DallasMirrors
<1>7. MW!Mirror(x, 8) = MW!Xor(f, g)
  BY <1>2, MirrorXor
<1>8. CrcOf(Mirrored(t), MW!Mirror(d, 8))
  BY <1>4, <1>5, <1>6, <1>7
<1> QED
  BY <1>1, <1>3, <1>8 DEF DallasOf

\* What the checksums are in the end.
LEMMA CrcsAre ==
  ASSUME NEW s \in Seq(EightBits), s # <<>>, NEW c
  PROVE  /\ Crc8Of(s, c) => c = MW!Remainder(MW!Message(Inverted(s)), 8 * Len(s) + 7)
         /\ DallasOf(s, c) => c = MW!Mirror(MW!Remainder(MW!Message(Mirrored(s)), 8 * Len(s) + 7), 8)
<1>1. Len(Inverted(s)) = Len(s) /\ Len(Mirrored(s)) = Len(s)
  BY DEF Inverted, Mirrored
<1>2. Crc8Of(s, c) => c = MW!Remainder(MW!Message(Inverted(s)), 8 * Len(s) + 7)
  BY <1>1 DEF Crc8Of, CrcOf
<1>3. ASSUME DallasOf(s, c) PROVE c = MW!Mirror(MW!Remainder(MW!Message(Mirrored(s)), 8 * Len(s) + 7), 8)
  <2>1. MW!Mirror(c, 8) = MW!Remainder(MW!Message(Mirrored(s)), 8 * Len(s) + 7) /\ c \in EightBits
    BY <1>1, <1>3 DEF DallasOf, CrcOf
  <2>2. MW!Mirror(MW!Mirror(c, 8), 8) = c
    BY <2>1, MirrorXor
  <2> QED
    BY <2>1, <2>2
<1> QED
  BY <1>2, <1>3

-----------------------------------------------------------------------------
(***************************************************************************)
(* Numbers in order.                                                       *)
(***************************************************************************)
\* p puts the numbers s[1], ..., s[n] in order.
Sorts(p, s, n) ==
  /\ p \in [1..n -> 1..n]
  /\ \A i, j \in 1..n : p[i] = p[j] => i = j
  /\ \A i, j \in 1..n : i < j => s[p[i]] <= s[p[j]]

LEMMA SortInserts ==
  ASSUME NEW m \in Nat, NEW n \in Nat, n = m + 1, NEW s \in [1..n -> Int], NEW p, Sorts(p, s, m)
  PROVE  \E q : Sorts(q, s, n)
<1> DEFINE Above == {j \in 1..n : j = n \/ s[p[j]] > s[n]}
<1>1. Above \in SUBSET Nat /\ n \in Above
  OBVIOUS
<1>2. PICK k \in Above : \A j \in Above : k <= j
  <2> HIDE DEF Above
  <2> QED
    BY <1>1, LeastElement
<1> DEFINE q == [i \in 1..n |-> IF i < k THEN p[i] ELSE IF i = k THEN n ELSE p[i - 1]]
<1> HIDE DEF q
<1>0. k \in 1..n
  OBVIOUS
<1>3. (k # n => s[p[k]] > s[n]) /\ \A i \in 1..n : i < k => ~(s[p[i]] > s[n])
  <2>1. k = n \/ s[p[k]] > s[n]
    OBVIOUS
  <2>2. ASSUME NEW i \in 1..n, i < k PROVE ~(s[p[i]] > s[n])
    <3>1. i \in Above => k <= i
      BY <1>2
    <3>2. i \notin Above
      <4> HIDE DEF Above
      <4> QED
        BY <1>0, <2>2, <3>1
    <3> QED
      BY <3>2
  <2> QED
    BY <2>1, <2>2
<1> HIDE DEF Above
<1>4. \A i \in 1..m : p[i] \in 1..m /\ s[p[i]] \in Int
  <2> SUFFICES ASSUME NEW i \in 1..m PROVE p[i] \in 1..m /\ s[p[i]] \in Int
    OBVIOUS
  <2>1. p \in [1..m -> 1..m]
    BY Zenon DEF Sorts
  <2>2. p[i] \in 1..m
    BY <2>1
  <2>3. p[i] \in 1..n
    BY <2>2
  <2> QED
    BY <2>2, <2>3
<1>5. \A i \in 1..n : i < k => s[p[i]] <= s[n] /\ i \in 1..m
  <2> SUFFICES ASSUME NEW i \in 1..n, i < k PROVE s[p[i]] <= s[n] /\ i \in 1..m
    OBVIOUS
  <2>1. i \in 1..m /\ ~(s[p[i]] > s[n])
    BY <1>0, <1>3
  <2> QED
    BY <1>4, <2>1
<1>6. \A i \in 1..n : i > k => s[p[i - 1]] >= s[n] /\ i - 1 \in 1..m
  <2> SUFFICES ASSUME NEW i \in 1..n, i > k PROVE s[p[i - 1]] >= s[n] /\ i - 1 \in 1..m
    OBVIOUS
  <2>1. i - 1 \in 1..m /\ k \in 1..m /\ k <= i - 1 /\ k # n
    BY <1>0, <1>3
  <2>2. s[p[k]] > s[n]
    BY <1>0, <1>3, <2>1
  <2>3. s[p[k]] <= s[p[i - 1]]
    <3>1. CASE k = i - 1
      BY <1>4, <2>1, <3>1
    <3>2. CASE k # i - 1
      <4>1. \A x, y \in 1..m : x < y => s[p[x]] <= s[p[y]]
        BY Zenon DEF Sorts
      <4>2. k < i - 1
        BY <1>0, <1>3, <2>1, <3>2
      <4> QED
        BY <2>1, <4>1, <4>2
    <3> QED
      BY <3>1, <3>2
  <2> QED
    BY <1>4, <2>1, <2>2, <2>3
<1>7. q \in [1..n -> 1..n] /\ \A i \in 1..n : q[i] = IF i < k THEN p[i] ELSE IF i = k THEN n ELSE p[i - 1]
  <2>1. \A i \in 1..n : (IF i < k THEN p[i] ELSE IF i = k THEN n ELSE p[i - 1]) \in 1..n
    BY <1>0, <1>3, <1>4, <1>5, <1>6
  <2> QED
    BY <2>1 DEF q
<1>70. q[k] = n /\ \A i \in 1..n : (i < k => q[i] = p[i]) /\ (i > k => q[i] = p[i - 1])
  <2>1. q[k] = n
    BY <1>0, <1>7
  <2>2. ASSUME NEW i \in 1..n, i < k PROVE q[i] = p[i]
    BY <1>7, <2>2
  <2>3. ASSUME NEW i \in 1..n, i > k PROVE q[i] = p[i - 1]
    <3>1. ~(i < k) /\ i # k
      BY <1>0, <2>3
    <3>2. q[i] = IF i < k THEN p[i] ELSE IF i = k THEN n ELSE p[i - 1]
      BY <1>7
    <3> QED
      BY <3>1, <3>2, Zenon
  <2> QED
    BY <2>1, <2>2, <2>3
<1>8. \A i, j \in 1..n : q[i] = q[j] => i = j
  <2> SUFFICES ASSUME NEW i \in 1..n, NEW j \in 1..n, q[i] = q[j] PROVE i = j
    OBVIOUS
  <2>1. \A x, y \in 1..m : p[x] = p[y] => x = y
    BY Zenon DEF Sorts
  <2> DEFINE From(x) == IF x < k THEN x ELSE x - 1
  <2>2. \A x \in 1..n : x # k => From(x) \in 1..m /\ q[x] = p[From(x)] /\ q[x] \in 1..m
    <3> SUFFICES ASSUME NEW x \in 1..n, x # k
                 PROVE  From(x) \in 1..m /\ q[x] = p[From(x)] /\ q[x] \in 1..m
      OBVIOUS
    <3>1. CASE x < k
      BY <1>4, <1>5, <1>70, <3>1
    <3>2. CASE x > k
      <4>1. x - 1 \in 1..m /\ ~(x < k)
        BY <1>0, <3>2
      <4>2. q[x] = p[x - 1] /\ p[x - 1] \in 1..m
        BY <1>4, <1>70, <3>2, <4>1
      <4> QED
        BY <4>1, <4>2, Zenon
    <3> QED
      BY <1>0, <1>3, <3>1, <3>2
  <2>3. q[k] = n
    BY <1>0, <1>3, <1>70
  <2>4. CASE i # k /\ j # k
    <3>1. From(i) = From(j)
      <4> HIDE DEF From
      <4> QED
        BY <2>1, <2>2, <2>4
    <3> QED
      BY <1>0, <1>3, <2>4, <3>1
  <2>5. CASE i = k \/ j = k
    <3> HIDE DEF From
    <3> QED
      BY <2>2, <2>3, <2>5
  <2> QED
    BY <2>4, <2>5
<1>9. \A i, j \in 1..n : i < j => s[q[i]] <= s[q[j]]
  <2> SUFFICES ASSUME NEW i \in 1..n, NEW j \in 1..n, i < j PROVE s[q[i]] <= s[q[j]]
    OBVIOUS
  <2>1. \A x, y \in 1..m : x < y => s[p[x]] <= s[p[y]]
    BY Zenon DEF Sorts
  <2>2. s[n] \in Int
    OBVIOUS
  <2>3. CASE j < k
    <3>1. i \in 1..m /\ j \in 1..m /\ i < k
      BY <1>0, <1>3, <2>3
    <3>2. q[i] = p[i] /\ q[j] = p[j]
      BY <1>70, <2>3, <3>1
    <3> QED
      BY <2>1, <3>1, <3>2
  <2>4. CASE j = k
    <3>1. q[i] = p[i] /\ q[j] = n /\ i < k
      BY <1>70, <2>4
    <3> QED
      BY <1>5, <3>1
  <2>5. CASE j > k /\ i < k
    <3>1. q[i] = p[i] /\ q[j] = p[j - 1] /\ j - 1 \in 1..m /\ i \in 1..m
      BY <1>0, <1>70, <2>5
    <3>2. s[p[i]] <= s[n] /\ s[p[j - 1]] >= s[n]
      BY <1>5, <1>6, <2>5
    <3>3. s[p[i]] \in Int /\ s[p[j - 1]] \in Int
      BY <1>4, <3>1
    <3> QED
      BY <2>2, <3>1, <3>2, <3>3
  <2>6. CASE j > k /\ i = k
    <3>1. q[i] = n /\ q[j] = p[j - 1] /\ j - 1 \in 1..m
      BY <1>0, <1>70, <2>6
    <3>2. s[p[j - 1]] >= s[n]
      BY <1>6, <2>6
    <3>3. s[p[j - 1]] \in Int
      BY <1>4, <3>1
    <3> QED
      BY <2>2, <3>1, <3>2, <3>3
  <2>7. CASE j > k /\ i > k
    <3>1. q[i] = p[i - 1] /\ q[j] = p[j - 1] /\ i - 1 \in 1..m /\ j - 1 \in 1..m /\ i - 1 < j - 1
      BY <1>0, <1>70, <2>7
    <3> QED
      BY <2>1, <3>1
  <2> QED
    BY <1>0, <1>3, <2>3, <2>4, <2>5, <2>6, <2>7
<1> QED
  BY <1>7, <1>8, <1>9 DEF Sorts

\* Numbers can be put in order.
LEMMA SortExists ==
  ASSUME NEW n \in Nat, NEW s \in [1..n -> Int]
  PROVE  \E p : Sorts(p, s, n)
<1> DEFINE G == {k \in 0..n : \E p : Sorts(p, s, k)}
<1>1. 0 \in G
  <2> DEFINE p == [i \in 1..0 |-> i]
  <2>1. Sorts(p, s, 0)
    BY DEF Sorts
  <2> QED
    BY <2>1
<1>2. \A k \in 1..n : k - 1 \in G => k \in G
  <2> SUFFICES ASSUME NEW k \in 1..n, NEW p, Sorts(p, s, k - 1) PROVE \E q : Sorts(q, s, k)
    OBVIOUS
  <2> DEFINE t == [i \in 1..k |-> s[i]]
  <2>1. t \in [1..k -> Int] /\ k \in Nat /\ k - 1 \in Nat /\ k = (k - 1) + 1 /\ \A i \in 1..k : t[i] = s[i]
    OBVIOUS
  <2> HIDE DEF t
  <2>2. Sorts(p, t, k - 1)
    <3>1. \A i \in 1..(k - 1) : p[i] \in 1..k
      BY DEF Sorts
    <3> QED
      BY <2>1, <3>1 DEF Sorts
  <2>3. PICK q : Sorts(q, t, k)
    BY <2>1, <2>2, SortInserts
  <2>4. Sorts(q, s, k)
    BY <2>1, <2>3 DEF Sorts
  <2> QED
    BY <2>4
<1>3. n \in G
  <2> HIDE DEF G
  <2>1. \A k \in 0..n : k \in G
    BY <1>1, <1>2, CountsUp
  <2> QED
    BY <2>1
<1> QED
  BY <1>3

\* An injection of 1..n into itself meets every number.
LEMMA InjectionOnto ==
  ASSUME NEW n \in Nat, NEW p \in [1..n -> 1..n], \A i, j \in 1..n : p[i] = p[j] => i = j
  PROVE  \A k \in 1..n : \E i \in 1..n : p[i] = k
<1>1. IsFiniteSet(1..n)
  BY FS_Interval
<1>2. p \in Injection(1..n, 1..n)
  BY DEF Injection, IsInjective
<1>3. p \in Surjection(1..n, 1..n)
  BY <1>1, <1>2, FS_Injection
<1> QED
  BY <1>3 DEF Surjection

\* A set that holds the values of an injection on a..b has at least b - a + 1 elements.
LEMMA AtLeast ==
  ASSUME NEW n \in Nat, NEW T \in SUBSET (1..n), NEW a \in Nat, NEW b \in Nat, a <= b,
         NEW f, \A i \in a..b : f[i] \in T,
         \A i, j \in a..b : f[i] = f[j] => i = j
  PROVE  Cardinality(T) \in Nat /\ Cardinality(T) >= b - a + 1
<1> DEFINE g == [i \in a..b |-> f[i]]
<1>1. g \in Injection(a..b, T)
  BY DEF Injection, IsInjective
<1>2. IsFiniteSet(T)
  <2>1. IsFiniteSet(1..n)
    BY FS_Interval
  <2> QED
    BY <2>1, FS_Subset
<1>3. Cardinality(a..b) <= Cardinality(T) /\ Cardinality(T) \in Nat
  BY <1>1, <1>2, FS_Injection, FS_CardinalityType
<1>4. Cardinality(a..b) = b - a + 1
  BY FS_Interval
<1> QED
  BY <1>3, <1>4

\* Twice the median of the numbers s, that p puts in order.
Middle2(s, p, n) ==
  LET mid == n \div 2 + 1
  IN  IF n % 2 = 1 THEN 2 * s[p[mid]] ELSE s[p[mid - 1]] + s[p[mid]]

\* r are the numbers s in the order a.
Reordered(r, s, a, n) ==
  /\ r \in [1..n -> Int] /\ a \in [1..n -> 1..n]
  /\ \A i, j \in 1..n : a[i] = a[j] => i = j
  /\ \A i \in 1..n : r[a[i]] = s[i]

LEMMA MiddleBetween ==
  ASSUME NEW n \in Nat, n > 0, NEW s, NEW p, \A i \in 1..n : s[p[i]] \in Int,
         \A i, j \in 1..n : i < j => s[p[i]] <= s[p[j]],
         NEW m2, m2 = Middle2(s, p, n)
  PROVE  \E l, h \in 1..n : 2 * l >= n /\ 2 * (n - h + 1) >= n /\ 2 * s[p[l]] <= m2 /\ 2 * s[p[h]] >= m2 /\ m2 \in Int
<1> DEFINE k == n \div 2
<1>1. CASE n % 2 = 1
  <2>1. k + 1 \in 1..n /\ 2 * (k + 1) >= n /\ 2 * (n - (k + 1) + 1) >= n
    BY <1>1
  <2>2. m2 = 2 * s[p[k + 1]]
    BY <1>1 DEF Middle2
  <2> HIDE DEF k
  <2>3. s[p[k + 1]] \in Int
    BY <2>1
  <2> QED
    BY <2>1, <2>2, <2>3
<1>2. CASE n % 2 # 1
  <2>1. k \in 1..n /\ k + 1 \in 1..n /\ 2 * k >= n /\ 2 * (n - (k + 1) + 1) >= n /\ k < k + 1 /\ k + 1 - 1 = k
    BY <1>2
  <2>2. m2 = s[p[k + 1 - 1]] + s[p[k + 1]]
    BY <1>2 DEF Middle2
  <2> HIDE DEF k
  <2>3. s[p[k]] \in Int /\ s[p[k + 1]] \in Int /\ s[p[k]] <= s[p[k + 1]]
    BY <2>1
  <2>4. 2 * s[p[k]] <= m2 /\ 2 * s[p[k + 1]] >= m2 /\ m2 \in Int
    BY <2>1, <2>2, <2>3
  <2> QED
    BY <2>1, <2>4
<1> QED
  BY <1>1, <1>2

\* On either side of the median are at least half of the numbers, whatever their order.
\* The median: half of the window is not above it, and half not below.
Halves(r, n, m2) ==
  /\ 2 * Cardinality({i \in 1..n : 2 * r[i] <= m2}) >= n
  /\ 2 * Cardinality({i \in 1..n : 2 * r[i] >= m2}) >= n

LEMMA MedianHalves ==
  ASSUME NEW n \in Nat, n > 0, NEW s \in [1..n -> Int], NEW p, Sorts(p, s, n),
         NEW r, NEW a, Reordered(r, s, a, n), NEW m2, m2 = Middle2(s, p, n)
  PROVE  Halves(r, n, m2)
<1> DEFINE f == [i \in 1..n |-> a[p[i]]]
           L == {i \in 1..n : 2 * r[i] <= m2}
           H == {i \in 1..n : 2 * r[i] >= m2}
<1>1. \A i \in 1..n : p[i] \in 1..n /\ s[p[i]] \in Int
  BY DEF Sorts
<1>2. \A i, j \in 1..n : i < j => s[p[i]] <= s[p[j]]
  BY Zenon DEF Sorts
<1>3. \A i \in 1..n : f[i] \in 1..n /\ r[f[i]] = s[p[i]]
  BY <1>1 DEF Reordered
<1>4. \A i, j \in 1..n : f[i] = f[j] => i = j
  <2>1. \A i, j \in 1..n : p[i] = p[j] => i = j
    BY Zenon DEF Sorts
  <2>2. \A i, j \in 1..n : a[i] = a[j] => i = j
    BY Zenon DEF Reordered
  <2>3. \A i \in 1..n : f[i] = a[p[i]]
    OBVIOUS
  <2> SUFFICES ASSUME NEW i \in 1..n, NEW j \in 1..n, f[i] = f[j] PROVE i = j
    OBVIOUS
  <2>4. p[i] \in 1..n /\ p[j] \in 1..n /\ a[p[i]] = a[p[j]]
    BY <1>1, <2>3
  <2>5. p[i] = p[j]
    BY <2>2, <2>4, Zenon
  <2> HIDE DEF f
  <2> QED
    BY <2>1, <2>5, Zenon
<1> HIDE DEF f
<1>5. PICK l \in 1..n, h \in 1..n : 2 * l >= n /\ 2 * (n - h + 1) >= n /\ 2 * s[p[l]] <= m2 /\ 2 * s[p[h]] >= m2 /\ m2 \in Int
  BY <1>1, <1>2, MiddleBetween
<1>6. \A i \in 1..l : f[i] \in L
  <2> SUFFICES ASSUME NEW i \in 1..l PROVE f[i] \in L
    OBVIOUS
  <2>1. i \in 1..n /\ (i = l \/ i < l)
    OBVIOUS
  <2>2. s[p[i]] <= s[p[l]] /\ s[p[i]] \in Int /\ s[p[l]] \in Int
    BY <1>1, <1>2, <2>1
  <2>3. 2 * s[p[i]] <= m2
    BY <1>5, <2>2
  <2> QED
    BY <1>3, <2>1, <2>3
<1>7. \A i \in h..n : f[i] \in H
  <2> SUFFICES ASSUME NEW i \in h..n PROVE f[i] \in H
    OBVIOUS
  <2>1. i \in 1..n /\ (i = h \/ h < i)
    OBVIOUS
  <2>2. s[p[h]] <= s[p[i]] /\ s[p[i]] \in Int /\ s[p[h]] \in Int
    BY <1>1, <1>2, <2>1
  <2>3. 2 * s[p[i]] >= m2
    BY <1>5, <2>2
  <2> QED
    BY <1>3, <2>1, <2>3
<1>8. L \in SUBSET (1..n) /\ H \in SUBSET (1..n)
  OBVIOUS
<1> HIDE DEF L, H
<1>9. Cardinality(L) \in Nat /\ Cardinality(L) >= l - 1 + 1
  <2>1. \A i, j \in 1..l : f[i] = f[j] => i = j
    <3>1. \A i \in 1..l : i \in 1..n
      OBVIOUS
    <3> QED
      BY <1>4, <3>1, Zenon
  <2>2. 1 \in Nat /\ l \in Nat /\ 1 <= l
    OBVIOUS
  <2> QED
    BY <1>6, <1>8, <2>1, <2>2, AtLeast
<1>10. Cardinality(H) \in Nat /\ Cardinality(H) >= n - h + 1
  <2>1. \A i, j \in h..n : f[i] = f[j] => i = j
    <3>1. \A i \in h..n : i \in 1..n
      OBVIOUS
    <3> QED
      BY <1>4, <3>1, Zenon
  <2>2. h \in Nat /\ h <= n
    OBVIOUS
  <2> QED
    BY <1>7, <1>8, <2>1, <2>2, AtLeast
<1>11. 2 * Cardinality(L) >= n /\ 2 * Cardinality(H) >= n
  <2> DEFINE x == Cardinality(L)
             y == Cardinality(H)
  <2>1. x \in Nat /\ y \in Nat /\ x >= l - 1 + 1 /\ y >= n - h + 1
    BY <1>9, <1>10
  <2> HIDE DEF x, y
  <2>2. 2 * x >= n /\ 2 * y >= n
    BY <1>5, <2>1
  <2> QED
    BY <2>2 DEF x, y
<1> QED
  BY <1>11, Zenon DEF Halves, L, H

-----------------------------------------------------------------------------
(***************************************************************************)
(* Sums of the elements of a sequence, as the folds of the community       *)
(* modules compute them: the last element first.                           *)
(***************************************************************************)
Greatest(d) == CHOOSE x \in d : \A y \in d : x >= y

Summed(s) ==
  CHOOSE f : f = [d \in SUBSET DOMAIN s |-> IF d = {} THEN 0 ELSE f[d \ {Greatest(d)}] + s[Greatest(d)]]

Total(s) == Summed(s)[DOMAIN s]

LEMMA GreatestIs ==
  ASSUME NEW n \in Nat, NEW d \in SUBSET (1..n), d # {}
  PROVE  Greatest(d) \in d /\ \A y \in d : Greatest(d) >= y
<1> DEFINE D == {n - x : x \in d}
<1>1. D \in SUBSET Nat /\ D # {}
  <2>1. PICK e \in d : TRUE
    OBVIOUS
  <2>2. \A x \in d : n - x \in Nat
    OBVIOUS
  <2>3. n - e \in D
    BY <2>1
  <2> QED
    BY <2>2, <2>3
<1>2. PICK m \in D : \A y \in D : m <= y
  <2> HIDE DEF D
  <2> QED
    BY <1>1, LeastElement
<1>3. PICK x \in d : m = n - x
  OBVIOUS
<1>4. \A y \in d : x >= y
  <2> SUFFICES ASSUME NEW y \in d PROVE x >= y
    OBVIOUS
  <2>1. n - y \in D
    OBVIOUS
  <2>2. m <= n - y
    BY <1>2, <2>1
  <2> QED
    BY <1>3, <2>2
<1> HIDE DEF D
<1>5. \E z \in d : \A y \in d : z >= y
  BY <1>4
<1> QED
  BY <1>5 DEF Greatest

\* The sums over all sets of positions satisfy the recursion.
SumsOver(f, s, n) ==
  f = [d \in SUBSET (1..n) |-> IF d = {} THEN 0 ELSE f[d \ {Greatest(d)}] + s[Greatest(d)]]

LEMMA SumsExist ==
  ASSUME NEW n \in Nat, NEW s \in [1..n -> Int]
  PROVE  \E f : SumsOver(f, s, n)
<1> DEFINE D == SUBSET (1..n)
           V == [D -> Int]
           zero == [d \in D |-> 0]
           More(k, v) == [d \in D |-> IF k \in d THEN v[d \ {k}] + s[k] ELSE v[d]]
           step == [k \in 1..n |-> [v \in V |-> More(k, v)]]
<1>1. zero \in V /\ \A d \in D : zero[d] = 0
  OBVIOUS
<1>2. ASSUME NEW k \in 1..n, NEW v \in V
      PROVE  /\ step[k][v] \in V
             /\ \A d \in D : /\ k \in d => step[k][v][d] = v[d \ {k}] + s[k]
                             /\ k \notin d => step[k][v][d] = v[d]
  <2>1. \A d \in D : d \ {k} \in D /\ v[d] \in Int /\ v[d \ {k}] \in Int /\ s[k] \in Int
    OBVIOUS
  <2> DEFINE m == More(k, v)
  <2>2. m \in V
    BY <2>1
  <2>3. step[k][v] = m
    OBVIOUS
  <2>4. \A d \in D : m[d] = IF k \in d THEN v[d \ {k}] + s[k] ELSE v[d]
    OBVIOUS
  <2> HIDE DEF m, step
  <2>5. \A d \in D : (k \in d => m[d] = v[d \ {k}] + s[k]) /\ (k \notin d => m[d] = v[d])
    BY <2>4, Zenon
  <2> QED
    BY <2>2, <2>3, <2>5, Zenon
<1> HIDE DEF step, zero
<1>3. PICK g \in [0..n -> V] : Turns(g, n, zero, step)
  <2>1. \A k \in 1..n : \A v \in V : step[k][v] \in V
    BY <1>2
  <2> HIDE DEF V
  <2> QED
    BY <1>1, <2>1, TurnsDefine
<1>4. ASSUME NEW k \in 1..n, NEW d \in D
      PROVE  /\ k - 1 \in 0..n /\ k \in 0..n
             /\ k \in d => g[k][d] = g[k - 1][d \ {k}] + s[k]
             /\ k \notin d => g[k][d] = g[k - 1][d]
  <2>1. g[k] = step[k][g[k - 1]]
    BY <1>3 DEF Turns
  <2>2. k - 1 \in 0..n /\ k \in 0..n
    OBVIOUS
  <2>3. g[k - 1] \in V
    <3> HIDE DEF V
    <3> QED
      BY <1>3, <2>2
  <2> HIDE DEF V, D
  <2>4. /\ k \in d => step[k][g[k - 1]][d] = g[k - 1][d \ {k}] + s[k]
        /\ k \notin d => step[k][g[k - 1]][d] = g[k - 1][d]
    BY <1>2, <2>3, Zenon
  <2> QED
    BY <2>1, <2>2, <2>4, Zenon
<1> DEFINE Good(k) == /\ g[k][{}] = 0
                      /\ \A d \in SUBSET (1..k) : d # {} => g[k][d] = g[k][d \ {Greatest(d)}] + s[Greatest(d)]
           G == {k \in 0..n : Good(k)}
<1>5. \A k \in 0..n : k \in G
  <2>1. 0 \in G
    <3>1. g[0] = zero /\ {} \in D
      BY <1>3 DEF Turns
    <3>2. g[0][{}] = 0
      BY <1>1, <3>1
    <3>3. \A d \in SUBSET (1..0) : d = {}
      OBVIOUS
    <3>4. Good(0)
      BY <3>2, <3>3, Zenon
    <3> HIDE DEF Good
    <3> QED
      BY <3>4
  <2>2. ASSUME NEW k \in 1..n, Good(k - 1) PROVE Good(k)
    <3>0. {} \in D /\ k \notin {}
      OBVIOUS
    <3>1. g[k][{}] = 0
      BY <1>4, <2>2, <3>0
    <3>2. ASSUME NEW d \in SUBSET (1..k), d # {}
          PROVE  g[k][d] = g[k][d \ {Greatest(d)}] + s[Greatest(d)]
      <4> DEFINE x == Greatest(d)
                 r == d \ {x}
      <4>1. x \in d /\ \A y \in d : x >= y
        <5>1. k \in Nat
          OBVIOUS
        <5> HIDE DEF D, V, Good, G
        <5> QED
          BY <3>2, <5>1, GreatestIs
      <4>2. d \in D /\ r \in D /\ (k \notin d => d \in SUBSET (1..(k - 1)))
        <5>1. \A y \in d : y \in 1..n /\ (y # k => y \in 1..(k - 1))
          OBVIOUS
        <5> QED
          BY <5>1
      <4> HIDE DEF x
      <4>3. k \in d => x = k
        <5>1. k \in d => x >= k
          BY <4>1
        <5>2. x \in 1..k
          BY <4>1
        <5> HIDE DEF D, V, Good, G
        <5> QED
          BY <5>1, <5>2
      <4>4. CASE k \in d
        <5>1. g[k][d] = g[k - 1][d \ {k}] + s[k]
          BY <1>4, <4>2, <4>4
        <5>2. k \notin r /\ r = d \ {k} /\ x = k
          BY <4>3, <4>4
        <5>3. g[k][r] = g[k - 1][r]
          <6> HIDE DEF r, D
          <6> QED
            BY <1>4, <4>2, <5>2
        <5> QED
          BY <5>1, <5>2, <5>3 DEF x
      <4>5. CASE k \notin d
        <5>1. k \notin r
          BY <4>5
        <5>2. g[k - 1][d] = g[k - 1][r] + s[x]
          BY <2>2, <3>2, <4>2, <4>5 DEF x
        <5>3. g[k][d] = g[k - 1][d] /\ g[k][r] = g[k - 1][r]
          <6> HIDE DEF r, D
          <6> QED
            BY <1>4, <4>2, <4>5, <5>1
        <5> QED
          BY <5>2, <5>3 DEF x
      <4> QED
        BY <4>4, <4>5
    <3> QED
      BY <3>1, <3>2
  <2>3. \A k \in 1..n : k - 1 \in G => k \in G
    <3> HIDE DEF Good
    <3>1. \A k \in 1..n : Good(k - 1) => Good(k)
      BY <2>2, Zenon
    <3>2. \A k \in 1..n : k \in 0..n
      OBVIOUS
    <3> QED
      BY <3>1, <3>2
  <2> HIDE DEF G
  <2> QED
    BY <2>1, <2>3, CountsUp
<1> DEFINE f == [d \in SUBSET (1..n) |-> g[n][d]]
<1>6. Good(n)
  <2> HIDE DEF Good
  <2> QED
    BY <1>5
<1>7. \A d \in SUBSET (1..n) : f[d] = IF d = {} THEN 0 ELSE f[d \ {Greatest(d)}] + s[Greatest(d)]
  <2> SUFFICES ASSUME NEW d \in SUBSET (1..n), d # {} PROVE f[d] = f[d \ {Greatest(d)}] + s[Greatest(d)]
    BY <1>6
  <2> DEFINE r == d \ {Greatest(d)}
  <2>1. r \in SUBSET (1..n) /\ g[n][d] = g[n][r] + s[Greatest(d)]
    BY <1>6
  <2>2. f[d] = g[n][d] /\ f[r] = g[n][r]
    BY <2>1
  <2> QED
    BY <2>1, <2>2
<1> HIDE DEF Good, G
<1>8. SumsOver(f, s, n)
  <2>1. f = [d \in SUBSET (1..n) |-> f[d]]
    OBVIOUS
  <2> HIDE DEF f
  <2> QED
    BY <1>7, <2>1 DEF SumsOver
<1> QED
  BY <1>8

\* So the sum is the last of the sums that are made one element after the other.
PartialSums(f, s, n) == f[0] = 0 /\ \A k \in 1..n : f[k] = f[k - 1] + s[k]

LEMMA TotalIsLast ==
  ASSUME NEW s \in Seq(Int), NEW f, PartialSums(f, s, Len(s))
  PROVE  Total(s) = f[Len(s)]
<1> DEFINE n == Len(s)
           c == Summed(s)
<1>1. n \in Nat /\ s \in [1..n -> Int] /\ DOMAIN s = 1..n
  OBVIOUS
<1> HIDE DEF n
<1>2. \E h : SumsOver(h, s, n)
  BY <1>1, SumsExist
<1>3. SumsOver(c, s, n)
  <2>1. Summed(s) = CHOOSE h : SumsOver(h, s, n)
    BY <1>1 DEF Summed, SumsOver
  <2> QED
    BY <1>2, <2>1, Zenon
<1> HIDE DEF c
<1>4. \A d \in SUBSET (1..n) : c[d] = IF d = {} THEN 0 ELSE c[d \ {Greatest(d)}] + s[Greatest(d)]
  BY <1>3 DEF SumsOver
<1>5. \A k \in 1..n : c[1..k] = c[1..(k - 1)] + s[k]
  <2> SUFFICES ASSUME NEW k \in 1..n PROVE c[1..k] = c[1..(k - 1)] + s[k]
    OBVIOUS
  <2> DEFINE d == 1..k
             x == Greatest(d)
  <2>1. d \in SUBSET (1..n) /\ d # {} /\ k \in d /\ k \in Nat
    <3>1. k \in 1..k /\ k \in Nat /\ \A y \in 1..k : y \in 1..n
      BY <1>1
    <3> QED
      BY <3>1
  <2>2. x \in d /\ \A y \in d : x >= y
    BY <2>1, GreatestIs
  <2>3. x = k
    <3> HIDE DEF x
    <3> QED
      BY <2>1, <2>2
  <2>4. d \ {k} = 1..(k - 1)
    OBVIOUS
  <2>5. c[d] = c[d \ {x}] + s[x]
    <3> HIDE DEF d
    <3> QED
      BY <1>4, <2>1
  <2> QED
    BY <2>3, <2>4, <2>5
<1> DEFINE G == {k \in 0..n : c[1..k] = f[k]}
<1>6. \A k \in 0..n : k \in G
  <2>1. 0 \in G
    <3>1. 1..0 = {} /\ {} \in SUBSET (1..n) /\ f[0] = 0
      BY DEF PartialSums
    <3>2. c[{}] = 0
      BY <1>4, <3>1
    <3> QED
      BY <1>1, <3>1, <3>2
  <2>2. \A k \in 1..n : k - 1 \in G => k \in G
    BY <1>1, <1>5 DEF PartialSums, n
  <2> HIDE DEF G
  <2> QED
    BY <1>1, <2>1, <2>2, CountsUp
<1>7. c[1..n] = f[n]
  BY <1>1, <1>6
<1> QED
  BY <1>1, <1>7 DEF Total, c, n

LEMMA PartialSumsExist ==
  ASSUME NEW s \in Seq(Int)
  PROVE  \E f \in [0..Len(s) -> Int] : PartialSums(f, s, Len(s))
<1> DEFINE n == Len(s)
           step == [k \in 1..n |-> [v \in Int |-> v + s[k]]]
<1>1. n \in Nat /\ \A k \in 1..n : \A v \in Int : step[k][v] = v + s[k] /\ step[k][v] \in Int
  OBVIOUS
<1> HIDE DEF step, n
<1>2. PICK f \in [0..n -> Int] : Turns(f, n, 0, step)
  <2>1. 0 \in Int /\ n \in Nat /\ \A k \in 1..n : \A v \in Int : step[k][v] \in Int
    BY <1>1
  <2> QED
    BY <2>1, TurnsDefine
<1>3. PartialSums(f, s, n)
  <2> SUFFICES ASSUME NEW k \in 1..n PROVE f[k] = f[k - 1] + s[k]
    BY <1>2 DEF Turns, PartialSums
  <2>1. k - 1 \in 0..n
    BY <1>1
  <2>2. f[k] = step[k][f[k - 1]] /\ f[k - 1] \in Int
    BY <1>2, <2>1 DEF Turns
  <2> QED
    BY <1>1, <2>2
<1> QED
  BY <1>3 DEF n

\* One element more, one less.
LEMMA TotalOfNothing == Total(<<>>) = 0
<1> DEFINE s == <<>>
           f == [k \in 0..0 |-> 0]
<1>1. s \in Seq(Int) /\ Len(s) = 0
  OBVIOUS
<1>2. PartialSums(f, s, Len(s)) /\ f[0] = 0
  BY <1>1 DEF PartialSums
<1> HIDE DEF s, f
<1>3. Total(s) = f[Len(s)]
  BY <1>1, <1>2, TotalIsLast
<1> QED
  BY <1>1, <1>2, <1>3 DEF s

LEMMA TotalAppends ==
  ASSUME NEW s \in Seq(Int), NEW v \in Int
  PROVE  Total(s) \in Int /\ Total(Append(s, v)) = Total(s) + v
<1> DEFINE n == Len(s)
           t == Append(s, v)
<1>1. t \in Seq(Int) /\ Len(t) = n + 1 /\ n \in Nat /\ t[n + 1] = v /\ \A k \in 1..n : t[k] = s[k]
  OBVIOUS
<1> HIDE DEF t
<1>2. PICK f \in [0..Len(t) -> Int] : PartialSums(f, t, Len(t))
  BY <1>1, PartialSumsExist
<1>3. Total(t) = f[Len(t)]
  BY <1>1, <1>2, TotalIsLast
<1>4. PartialSums(f, s, Len(s))
  BY <1>1, <1>2 DEF PartialSums
<1>5. Total(s) = f[n]
  BY <1>4, TotalIsLast
<1>6. f[n + 1] = f[n] + v /\ f[n] \in Int
  <2>1. n + 1 \in 1..Len(t) /\ (n + 1) - 1 = n /\ n \in 0..Len(t)
    BY <1>1
  <2> QED
    BY <1>1, <1>2, <2>1 DEF PartialSums
<1> QED
  BY <1>1, <1>3, <1>5, <1>6 DEF t

LEMMA TotalOfTail ==
  ASSUME NEW s \in Seq(Int), s # <<>>
  PROVE  Total(Tail(s)) = Total(s) - s[1]
<1> DEFINE n == Len(s)
           t == Tail(s)
<1>1. t \in Seq(Int) /\ Len(t) = n - 1 /\ n \in Nat /\ n > 0 /\ s[1] \in Int /\ \A k \in 1..(n - 1) : t[k] = s[k + 1]
  OBVIOUS
<1> HIDE DEF t
<1>2. PICK f \in [0..n -> Int] : PartialSums(f, s, n)
  BY PartialSumsExist
<1>3. Total(s) = f[n]
  BY <1>2, TotalIsLast
<1> HIDE DEF n
<1> DEFINE g == [k \in 0..(n - 1) |-> f[k + 1] - s[1]]
<1>4. PartialSums(g, t, n - 1)
  <2>1. f[0] = 0 /\ f[1] = f[0] + s[1]
    <3>1. 1 \in 1..n /\ 1 - 1 = 0
      BY <1>1
    <3> QED
      BY <1>2, <3>1 DEF PartialSums
  <2>2. g[0] = 0
    BY <1>1, <2>1
  <2>3. ASSUME NEW k \in 1..(n - 1) PROVE g[k] = g[k - 1] + t[k]
    <3>1. k + 1 \in 1..n /\ (k + 1) - 1 = k /\ k \in 0..n /\ k + 1 \in 0..n /\ k \in 0..(n - 1) /\ k - 1 \in 0..(n - 1)
          /\ (k - 1) + 1 = k
      BY <1>1
    <3>2. f[k + 1] = f[k] + s[k + 1] /\ f[k] \in Int /\ f[k + 1] \in Int
      BY <1>2, <3>1 DEF PartialSums
    <3>3. g[k] = f[k + 1] - s[1] /\ g[k - 1] = f[k] - s[1] /\ t[k] = s[k + 1]
      BY <1>1, <3>1
    <3>4. t[k] \in Int /\ s[1] \in Int
      BY <1>1
    <3> DEFINE u == f[k]
               w == f[k + 1]
               x == t[k]
               y == s[1]
    <3>5. w = u + x /\ u \in Int /\ w \in Int /\ g[k] = w - y /\ g[k - 1] = u - y /\ x \in Int /\ y \in Int
      BY <3>2, <3>3, <3>4
    <3> HIDE DEF g, u, w, x, y
    <3>6. g[k] = g[k - 1] + x
      BY <3>5
    <3> QED
      BY <3>6 DEF x
  <2> HIDE DEF g
  <2> QED
    BY <2>2, <2>3 DEF PartialSums
<1>5. Total(t) = g[n - 1]
  BY <1>1, <1>4, TotalIsLast
<1>6. g[n - 1] = f[n] - s[1]
  BY <1>1
<1> QED
  BY <1>3, <1>5, <1>6 DEF t

-----------------------------------------------------------------------------
(***************************************************************************)
(* A ring buffer of w slots that is written at index, and the window that  *)
(* it holds of the sequence s of all that was written.                     *)
(***************************************************************************)
Latest(s, w) == SubSeq(s, IF Len(s) > w THEN Len(s) - w + 1 ELSE 1, Len(s))

RingOf(b, index, count, s, w) ==
  /\ b \in [0..(w - 1) -> Int] /\ s \in Seq(Int)
  /\ index \in 0..(w - 1) /\ count \in 0..w
  /\ Len(s) < w => index = Len(s) /\ count = Len(s)
  /\ Len(s) >= w => count = w
  /\ \A i \in 0..(index - 1) : b[i] = s[Len(s) - index + 1 + i]
  /\ \A i \in index..(count - 1) : b[i] = s[Len(s) - index + 1 + i - w]

LEMMA RingBegins ==
  ASSUME NEW w \in Nat, w > 0, NEW b \in [0..(w - 1) -> Int]
  PROVE  RingOf(b, 0, 0, <<>>, w)
<1> DEFINE s == <<>>
<1>1. s \in Seq(Int) /\ Len(s) = 0
  OBVIOUS
<1> HIDE DEF s
<1>2. RingOf(b, 0, 0, s, w)
  BY <1>1 DEF RingOf
<1> QED
  BY <1>2 DEF s

\* The slot after the one that was written.
LEMMA NextSlot ==
  ASSUME NEW w \in Nat, w > 0, NEW i \in 0..(w - 1)
  PROVE  (i + 1) % w = IF i + 1 = w THEN 0 ELSE i + 1
<1>1. CASE i + 1 = w
  <2>1. w = w * 1 + 0
    OBVIOUS
  <2>2. w % w = 0
    OBVIOUS
  <2> QED
    BY <1>1, <2>2
<1>2. CASE i + 1 # w
  BY <1>2
<1> QED
  BY <1>1, <1>2

LEMMA RingTurns ==
  ASSUME NEW w \in Nat, w > 0, NEW b, NEW index, NEW count, NEW s, RingOf(b, index, count, s, w),
         NEW v \in Int, NEW c, c = [b EXCEPT ![index] = v], NEW t, t = Append(s, v)
  PROVE  RingOf(c, (index + 1) % w, IF count < w THEN count + 1 ELSE count, t, w)
<1> DEFINE n == Len(s)
           j == (index + 1) % w
           k == IF count < w THEN count + 1 ELSE count
<1>1. /\ b \in [0..(w - 1) -> Int] /\ s \in Seq(Int) /\ index \in 0..(w - 1) /\ count \in 0..w /\ n \in Nat
      /\ (n < w => index = n /\ count = n) /\ (n >= w => count = w)
  BY DEF RingOf
<1>2. /\ \A i \in 0..(index - 1) : b[i] = s[n - index + 1 + i]
      /\ \A i \in index..(count - 1) : b[i] = s[n - index + 1 + i - w]
  BY Zenon DEF RingOf
<1>3. j = IF index + 1 = w THEN 0 ELSE index + 1
  BY <1>1, NextSlot
<1>4. /\ c \in [0..(w - 1) -> Int] /\ c[index] = v
      /\ \A i \in 0..(w - 1) : i # index => c[i] = b[i]
  BY <1>1
<1>5. t \in Seq(Int) /\ Len(t) = n + 1 /\ t[n + 1] = v /\ \A i \in 1..n : t[i] = s[i]
  BY <1>1
<1>50. k = IF count < w THEN count + 1 ELSE count
  OBVIOUS
<1> HIDE DEF j, k, n
<1>6. CASE index + 1 = w
  <2>1. j = 0 /\ k = w /\ n >= w - 1
    BY <1>1, <1>3, <1>50, <1>6
  <2>2. ASSUME NEW i \in 0..(w - 1) PROVE c[i] = t[Len(t) - 0 + 1 + i - w]
    <3> DEFINE p == Len(t) - 0 + 1 + i - w
    <3>1. CASE i = index
      <4>1. p = n + 1
        BY <1>1, <1>5, <1>6, <3>1
      <4> QED
        BY <1>4, <1>5, <3>1, <4>1
    <3>2. CASE i # index
      <4>1. i \in 0..(index - 1) /\ p \in 1..n /\ p = n - index + 1 + i
        BY <1>1, <1>5, <1>6, <2>1, <3>2
      <4>2. c[i] = b[i] /\ b[i] = s[n - index + 1 + i]
        BY <1>2, <1>4, <3>2, <4>1
      <4>3. t[p] = s[p]
        BY <1>5, <4>1
      <4>4. c[i] = t[p]
        <5> HIDE DEF p
        <5> QED
          BY <4>1, <4>2, <4>3
      <4> QED
        BY <4>4
    <3> QED
      BY <3>1, <3>2
  <2>3. RingOf(c, 0, w, t, w)
    <3>1. /\ 0 \in 0..(w - 1) /\ w \in 0..w /\ (Len(t) < w => 0 = Len(t) /\ w = Len(t)) /\ (Len(t) >= w => w = w)
      BY <1>1, <1>5, <2>1
    <3>2. \A i \in 0..(0 - 1) : c[i] = t[Len(t) - 0 + 1 + i]
      OBVIOUS
    <3>3. \A i \in 0..(w - 1) : c[i] = t[Len(t) - 0 + 1 + i - w]
      BY <2>2
    <3> QED
      BY <1>4, <1>5, <3>1, <3>2, <3>3, Zenon DEF RingOf
  <2> QED
    BY <2>1, <2>3, Zenon DEF j, k
<1>7. CASE index + 1 # w
  <2>1. /\ j = index + 1 /\ j \in 0..(w - 1) /\ k \in 0..w
        /\ (n + 1 < w => j = n + 1 /\ k = n + 1) /\ (n + 1 >= w => k = w /\ count = w)
        /\ index <= n
    BY <1>1, <1>3, <1>50, <1>7
  <2>2. ASSUME NEW i \in 0..(j - 1) PROVE c[i] = t[Len(t) - j + 1 + i]
    <3>1. CASE i = index
      <4>1. Len(t) - j + 1 + i = n + 1
        BY <1>1, <1>5, <2>1, <3>1
      <4> QED
        BY <1>4, <1>5, <3>1, <4>1
    <3>2. CASE i # index
      <4> DEFINE p == n - index + 1 + i
      <4>1. i \in 0..(index - 1) /\ i \in 0..(w - 1) /\ p \in 1..n /\ Len(t) - j + 1 + i = p
        BY <1>1, <1>5, <2>1, <3>2
      <4>2. c[i] = b[i] /\ b[i] = s[p]
        BY <1>2, <1>4, <3>2, <4>1
      <4>3. t[p] = s[p]
        BY <1>5, <4>1
      <4> HIDE DEF p
      <4> QED
        BY <4>1, <4>2, <4>3
    <3> QED
      BY <3>1, <3>2
  <2>3. ASSUME NEW i \in j..(k - 1) PROVE c[i] = t[Len(t) - j + 1 + i - w]
    <3> DEFINE p == n - index + 1 + i - w
    <3>1. i \in index..(count - 1) /\ i \in 0..(w - 1) /\ i # index /\ p \in 1..n /\ Len(t) - j + 1 + i - w = p
      BY <1>1, <1>5, <2>1
    <3>2. c[i] = b[i] /\ b[i] = s[p]
      BY <1>2, <1>4, <3>1
    <3>3. t[p] = s[p]
      BY <1>5, <3>1
    <3> HIDE DEF p
    <3> QED
      BY <3>1, <3>2, <3>3
  <2>4. RingOf(c, j, k, t, w)
    <3>0. Len(t) = n + 1
      BY <1>5
    <3>1. (Len(t) < w => j = Len(t) /\ k = Len(t)) /\ (Len(t) >= w => k = w)
      BY <2>1, <3>0
    <3>2. \A i \in 0..(j - 1) : c[i] = t[Len(t) - j + 1 + i]
      BY <2>2
    <3>3. \A i \in j..(k - 1) : c[i] = t[Len(t) - j + 1 + i - w]
      BY <2>3
    <3> QED
      BY <1>4, <1>5, <2>1, <3>1, <3>2, <3>3, Zenon DEF RingOf
  <2> QED
    BY <2>4, Zenon DEF j, k
<1> QED
  BY <1>6, <1>7

\* What falls out of the window, and what it holds after a write.
LEMMA LatestIs ==
  ASSUME NEW w \in Nat, w > 0, NEW s \in Seq(Int)
  PROVE  /\ Latest(s, w) \in Seq(Int)
         /\ Len(s) < w => Latest(s, w) = s
         /\ Len(s) >= w => /\ Len(Latest(s, w)) = w
                           /\ \A i \in 1..w : Latest(s, w)[i] = s[Len(s) - w + i]
<1> DEFINE n == Len(s)
           m == IF n > w THEN n - w + 1 ELSE 1
           x == SubSeq(s, m, n)
<1>1. n \in Nat /\ m \in 1..(n + 1)
  OBVIOUS
<1>2. x \in Seq(Int) /\ Len(x) = n - m + 1 /\ \A i \in 1..(n - m + 1) : x[i] = s[m + i - 1]
  <2>1. m \in Int /\ \A i \in m..n : s[i] \in Int
    BY <1>1
  <2> HIDE DEF m
  <2> QED
    BY <1>1, <2>1
<1>3. Latest(s, w) = x
  BY DEF Latest
<1> HIDE DEF x
<1>4. CASE n < w
  <2>1. m = 1 /\ \A i \in 1..n : x[i] = s[i]
    BY <1>1, <1>2, <1>4
  <2>2. x = s
    <3> HIDE DEF m
    <3>1. Len(x) = Len(s)
      BY <1>1, <1>2, <2>1
    <3>2. \A i \in 1..Len(x) : x[i] = s[i]
      BY <2>1, <3>1
    <3> QED
      BY <1>2, <3>1, <3>2, SameSequence
  <2> QED
    BY <1>2, <1>3, <1>4, <2>2
<1>5. CASE n >= w
  <2>1. m = n - w + 1
    BY <1>1, <1>5
  <2> HIDE DEF m
  <2>2. n - m + 1 = w /\ \A i \in 1..w : m + i - 1 = n - w + i
    BY <1>1, <2>1
  <2>3. Len(x) = w /\ \A i \in 1..w : x[i] = s[n - w + i]
    BY <1>2, <2>2
  <2> QED
    BY <1>2, <1>3, <1>5, <2>3
<1> QED
  BY <1>1, <1>4, <1>5

LEMMA LatestMoves ==
  ASSUME NEW w \in Nat, w > 0, NEW s \in Seq(Int), NEW v \in Int, NEW t, t = Append(s, v)
  PROVE  /\ Len(s) < w => Latest(t, w) = Append(Latest(s, w), v)
         /\ Len(s) >= w => /\ Latest(s, w) # <<>>
                           /\ Latest(t, w) = Append(Tail(Latest(s, w)), v)
                           /\ Latest(s, w)[1] = s[Len(s) - w + 1]
<1> DEFINE n == Len(s)
           x == Latest(s, w)
           y == Latest(t, w)
<1>1. t \in Seq(Int) /\ Len(t) = n + 1 /\ t[n + 1] = v /\ n \in Nat /\ \A i \in 1..n : t[i] = s[i]
  OBVIOUS
<1>2. /\ x \in Seq(Int) /\ (n < w => x = s)
      /\ n >= w => Len(x) = w /\ \A i \in 1..w : x[i] = s[n - w + i]
  BY LatestIs
<1>3. /\ y \in Seq(Int) /\ (n + 1 < w => y = t)
      /\ n + 1 >= w => Len(y) = w /\ \A i \in 1..w : y[i] = t[Len(t) - w + i]
  <2>1. /\ Latest(t, w) \in Seq(Int)
        /\ Len(t) < w => Latest(t, w) = t
        /\ Len(t) >= w => /\ Len(Latest(t, w)) = w
                          /\ \A i \in 1..w : Latest(t, w)[i] = t[Len(t) - w + i]
    BY <1>1, LatestIs
  <2>2. Len(t) = n + 1
    BY <1>1
  <2> HIDE DEF n
  <2>3. (n + 1 < w => y = t) /\ (n + 1 >= w => Len(t) >= w)
    BY <2>1, <2>2
  <2> HIDE DEF y
  <2> QED
    BY <2>1, <2>3, Zenon DEF y
<1> HIDE DEF x, y, n
<1>4. CASE n + 1 < w
  BY <1>1, <1>2, <1>3, <1>4 DEF x, y, n
<1>5. CASE n + 1 = w
  <2>0. n + 1 >= w
    BY <1>1, <1>5
  <2>1. Len(y) = w /\ \A i \in 1..w : y[i] = t[Len(t) - w + i]
    BY <1>3, <2>0, Zenon
  <2>2. \A i \in 1..w : Len(t) - w + i = i
    BY <1>1, <1>5
  <2>3. \A i \in 1..Len(y) : y[i] = t[i]
    BY <2>1, <2>2
  <2>4. Len(y) = Len(t)
    BY <1>1, <1>5, <2>1
  <2>5. y = t
    BY <1>1, <1>3, <2>3, <2>4, SameSequence
  <2> QED
    BY <1>1, <1>2, <1>5, <2>5 DEF x, y, n
<1>6. CASE n >= w
  <2> DEFINE z == Append(Tail(x), v)
  <2>1. Len(x) = w /\ x # <<>> /\ x[1] = s[n - w + 1]
    BY <1>2, <1>6
  <2>2. z \in Seq(Int) /\ Len(z) = w /\ z[w] = v /\ \A i \in 1..(w - 1) : z[i] = x[i + 1]
    BY <1>2, <2>1
  <2>3. \A i \in 1..w : y[i] = z[i]
    <3> SUFFICES ASSUME NEW i \in 1..w PROVE y[i] = z[i]
      OBVIOUS
    <3>0. n + 1 >= w
      BY <1>1, <1>6
    <3>1. y[i] = t[n + 1 - w + i]
      <4>1. y[i] = t[Len(t) - w + i]
        BY <1>3, <3>0, Zenon
      <4>2. Len(t) - w + i = n + 1 - w + i
        BY <1>1
      <4> QED
        BY <4>1, <4>2
    <3>2. CASE i = w
      <4>1. n + 1 - w + i = n + 1
        BY <1>1, <3>2
      <4> QED
        BY <1>1, <2>2, <3>1, <3>2, <4>1
    <3>3. CASE i # w
      <4>1. i \in 1..(w - 1) /\ i + 1 \in 1..w /\ n + 1 - w + i \in 1..n /\ n + 1 - w + i = n - w + (i + 1)
        BY <1>1, <1>6, <3>3
      <4>2. z[i] = x[i + 1] /\ x[i + 1] = s[n - w + (i + 1)]
        BY <1>2, <1>6, <2>2, <4>1
      <4>3. t[n + 1 - w + i] = s[n + 1 - w + i]
        BY <1>1, <4>1
      <4> QED
        BY <3>1, <4>1, <4>2, <4>3
    <3> QED
      BY <3>2, <3>3
  <2>4. Len(y) = w
    BY <1>1, <1>3, <1>6
  <2> HIDE DEF z
  <2>5. y = z
    BY <1>3, <2>2, <2>3, <2>4, SameSequence
  <2> QED
    BY <1>1, <1>6, <2>1, <2>5 DEF x, y, n, z
<1> QED
  BY <1>1, <1>4, <1>5, <1>6 DEF n

\* The slots hold the window, in another order.
Slots(b, count) == [i \in 1..count |-> b[i - 1]]
Place(index, count) == [i \in 1..count |-> IF i - 1 < index THEN count - index + i ELSE i - index]

LEMMA RingHolds ==
  ASSUME NEW w \in Nat, w > 0, NEW b, NEW index, NEW count, NEW s, RingOf(b, index, count, s, w)
  PROVE  /\ Len(Latest(s, w)) = count /\ Slots(b, count) \in [1..count -> Int]
         /\ Reordered(Latest(s, w), Slots(b, count), Place(index, count), count)
         /\ Len(s) >= w => b[index] = Latest(s, w)[1] /\ count = w
         /\ Len(s) < w => index = count /\ count = Len(s)
<1> DEFINE n == Len(s)
           x == Latest(s, w)
           a == Place(index, count)
           g == Slots(b, count)
<1>1. /\ b \in [0..(w - 1) -> Int] /\ s \in Seq(Int) /\ index \in 0..(w - 1) /\ count \in 0..w /\ n \in Nat
      /\ (n < w => index = n /\ count = n) /\ (n >= w => count = w)
  BY DEF RingOf
<1>2. /\ \A i \in 0..(index - 1) : b[i] = s[n - index + 1 + i]
      /\ \A i \in index..(count - 1) : b[i] = s[n - index + 1 + i - w]
  BY Zenon DEF RingOf
<1>3. /\ x \in Seq(Int) /\ (n < w => x = s)
      /\ n >= w => Len(x) = w /\ \A i \in 1..w : x[i] = s[n - w + i]
  BY <1>1, LatestIs
<1> HIDE DEF x, n
<1>4. Len(x) = count /\ \A i \in 1..count : x[i] = s[n - count + i]
  <2>1. CASE n < w
    <3>1. x = s /\ count = n /\ Len(s) = n
      BY <1>1, <1>3, <2>1 DEF n
    <3>2. \A i \in 1..n : n - n + i = i
      BY <1>1
    <3> QED
      BY <3>1, <3>2
  <2>2. CASE n >= w
    <3>1. count = w
      BY <1>1, <2>2
    <3> QED
      BY <1>3, <2>2, <3>1, Zenon
  <2>3. n < w \/ n >= w
    BY <1>1
  <2> QED
    BY <2>1, <2>2, <2>3, Zenon
<1>5. \A i \in 1..count : a[i] = IF i - 1 < index THEN count - index + i ELSE i - index
  BY DEF Place
<1>6. \A i \in 1..count : g[i] = b[i - 1] /\ i - 1 \in 0..(w - 1) /\ g[i] \in Int
  <2>1. \A i \in 1..count : i - 1 \in 0..(w - 1)
    BY <1>1
  <2>2. \A i \in 1..count : g[i] = b[i - 1]
    BY DEF Slots
  <2> QED
    BY <1>1, <2>1, <2>2
<1>7. index <= count /\ index <= n /\ count <= n
  BY <1>1
<1>8. ASSUME NEW i \in 1..count PROVE a[i] \in 1..count /\ x[a[i]] = g[i]
  <2>1. CASE i - 1 < index
    <3>1. a[i] = count - index + i /\ count - index + i \in 1..count /\ i - 1 \in 0..(index - 1)
      BY <1>1, <1>5, <1>7, <2>1
    <3>2. n - count + (count - index + i) = n - index + 1 + (i - 1)
      BY <1>1
    <3>3. x[count - index + i] = s[n - count + (count - index + i)]
      BY <1>4, <3>1
    <3>4. b[i - 1] = s[n - index + 1 + (i - 1)]
      BY <1>2, <3>1
    <3> QED
      BY <1>6, <3>1, <3>2, <3>3, <3>4
  <2>2. CASE ~(i - 1 < index)
    <3>1. a[i] = i - index /\ i - index \in 1..count /\ i - 1 \in index..(count - 1) /\ count = w
      BY <1>1, <1>5, <1>7, <2>2
    <3>2. n - count + (i - index) = n - index + 1 + (i - 1) - w
      BY <1>1, <3>1
    <3>3. x[i - index] = s[n - count + (i - index)]
      BY <1>4, <3>1
    <3>4. b[i - 1] = s[n - index + 1 + (i - 1) - w]
      BY <1>2, <3>1
    <3> QED
      BY <1>6, <3>1, <3>2, <3>3, <3>4
  <2> QED
    BY <2>1, <2>2
<1>9. \A i, j \in 1..count : a[i] = a[j] => i = j
  <2> SUFFICES ASSUME NEW i \in 1..count, NEW j \in 1..count, a[i] = a[j] PROVE i = j
    OBVIOUS
  <2>1. /\ i - 1 < index => a[i] = count - index + i
        /\ ~(i - 1 < index) => a[i] = i - index
        /\ j - 1 < index => a[j] = count - index + j
        /\ ~(j - 1 < index) => a[j] = j - index
    BY <1>5
  <2> HIDE DEF a
  <2>2. index <= count /\ index \in Nat /\ count \in Nat
    BY <1>1
  <2>3. CASE i - 1 < index /\ j - 1 < index
    BY <2>1, <2>2, <2>3
  <2>4. CASE i - 1 < index /\ ~(j - 1 < index)
    BY <2>1, <2>2, <2>4
  <2>5. CASE ~(i - 1 < index) /\ j - 1 < index
    BY <2>1, <2>2, <2>5
  <2>6. CASE ~(i - 1 < index) /\ ~(j - 1 < index)
    BY <2>1, <2>2, <2>6
  <2> QED
    BY <2>3, <2>4, <2>5, <2>6, Zenon
<1>10. a \in [1..count -> 1..count]
  <2>1. a = [i \in 1..count |-> a[i]]
    BY DEF Place
  <2> HIDE DEF a
  <2> QED
    BY <1>8, <2>1
<1>11. g \in [1..count -> Int]
  <2>1. g = [i \in 1..count |-> g[i]]
    BY DEF Slots
  <2> HIDE DEF g
  <2> QED
    BY <1>6, <2>1
<1>12. x \in [1..count -> Int]
  BY <1>3, <1>4
<1> HIDE DEF a, g
<1>13. Reordered(x, g, a, count)
  BY <1>8, <1>9, <1>10, <1>12 DEF Reordered
<1>14. n >= w => b[index] = x[1] /\ count = w
  <2> SUFFICES ASSUME n >= w PROVE b[index] = x[1] /\ count = w
    OBVIOUS
  <2>1. count = w /\ index \in index..(count - 1) /\ 1 \in 1..w
    BY <1>1
  <2>2. b[index] = s[n - index + 1 + index - w] /\ x[1] = s[n - w + 1]
    BY <1>2, <1>3, <2>1
  <2>3. n - index + 1 + index - w = n - w + 1
    BY <1>1
  <2> QED
    BY <2>1, <2>2, <2>3
<1> QED
  BY <1>1, <1>4, <1>11, <1>13, <1>14 DEF x, n, a, g

\* The moving average: the slots not written yet are zero, and the sum is the window's.
AverageOf(b, index, count, sum, s, w) ==
  /\ RingOf(b, index, count, s, w)
  /\ \A i \in count..(w - 1) : b[i] = 0
  /\ sum = Total(Latest(s, w))

LEMMA AverageBegins ==
  ASSUME NEW w \in Nat, w > 0, NEW b, b = [i \in 0..(w - 1) |-> 0]
  PROVE  AverageOf(b, 0, 0, 0, <<>>, w)
<1>1. b \in [0..(w - 1) -> Int] /\ \A i \in 0..(w - 1) : b[i] = 0
  OBVIOUS
<1>2. RingOf(b, 0, 0, <<>>, w)
  BY <1>1, RingBegins
<1> DEFINE s == <<>>
<1>3. s \in Seq(Int) /\ Len(s) = 0 /\ Total(s) = 0
  BY TotalOfNothing
<1> HIDE DEF s
<1>4. Latest(s, w) = s
  BY <1>3, LatestIs
<1>5. 0 = Total(Latest(s, w))
  BY <1>3, <1>4
<1> QED
  BY <1>1, <1>2, <1>5 DEF AverageOf, s

LEMMA AverageMoves ==
  ASSUME NEW w \in Nat, w > 0, NEW b, NEW index, NEW count, NEW sum, NEW s, AverageOf(b, index, count, sum, s, w),
         NEW v \in Int, NEW c, c = [b EXCEPT ![index] = v], NEW t, t = Append(s, v)
  PROVE  AverageOf(c, (index + 1) % w, IF count < w THEN count + 1 ELSE count, sum - b[index] + v, t, w)
<1> DEFINE j == (index + 1) % w
           k == IF count < w THEN count + 1 ELSE count
           x == Latest(s, w)
           y == Latest(t, w)
<1>1. RingOf(b, index, count, s, w) /\ sum = Total(x) /\ \A i \in count..(w - 1) : b[i] = 0
  BY DEF AverageOf
<1>2. RingOf(c, j, k, t, w)
  BY <1>1, RingTurns
<1>3. /\ b \in [0..(w - 1) -> Int] /\ s \in Seq(Int) /\ index \in 0..(w - 1) /\ count \in 0..w
      /\ (Len(s) < w => index = Len(s) /\ count = Len(s)) /\ (Len(s) >= w => count = w)
  BY <1>1 DEF RingOf
<1>4. k = IF count < w THEN count + 1 ELSE count
  OBVIOUS
<1>5. x \in Seq(Int) /\ (Len(s) >= w => b[index] = x[1])
  <2>1. Latest(s, w) \in Seq(Int)
    BY <1>3, LatestIs
  <2>2. Len(s) >= w => b[index] = Latest(s, w)[1]
    <3> HIDE DEF j, k, x, y
    <3>1. /\ Len(Latest(s, w)) = count /\ Slots(b, count) \in [1..count -> Int]
          /\ Reordered(Latest(s, w), Slots(b, count), Place(index, count), count)
          /\ Len(s) >= w => b[index] = Latest(s, w)[1] /\ count = w
          /\ Len(s) < w => index = count /\ count = Len(s)
      BY <1>1, RingHolds
    <3> QED
      BY <3>1
  <2> QED
    BY <2>1, <2>2
<1>6. /\ Len(s) < w => y = Append(x, v)
      /\ Len(s) >= w => x # <<>> /\ y = Append(Tail(x), v)
  <2>1. /\ Len(s) < w => Latest(t, w) = Append(Latest(s, w), v)
        /\ Len(s) >= w => /\ Latest(s, w) # <<>>
                          /\ Latest(t, w) = Append(Tail(Latest(s, w)), v)
                          /\ Latest(s, w)[1] = s[Len(s) - w + 1]
    BY <1>3, LatestMoves
  <2> QED
    BY <2>1
<1> HIDE DEF j, k, x, y
<1>7. \A i \in k..(w - 1) : c[i] = 0
  <2> SUFFICES ASSUME NEW i \in k..(w - 1) PROVE c[i] = 0
    OBVIOUS
  <2>1. i \in count..(w - 1) /\ i \in 0..(w - 1) /\ i # index
    BY <1>3, <1>4
  <2> QED
    BY <1>1, <1>3, <2>1
<1>8. sum - b[index] + v = Total(y)
  <2>1. CASE Len(s) < w
    <3>1. b[index] = 0
      <4>1. index \in count..(w - 1)
        BY <1>3, <2>1
      <4> QED
        BY <1>1, <4>1
    <3>2. Total(x) \in Int /\ Total(Append(x, v)) = Total(x) + v
      BY <1>5, TotalAppends
    <3>3. y = Append(x, v)
      BY <1>6, <2>1
    <3>4. Total(y) = sum + v /\ sum \in Int
      BY <1>1, <3>2, <3>3
    <3> QED
      BY <3>1, <3>4
  <2>2. CASE Len(s) >= w
    <3>1. Total(Tail(x)) = Total(x) - x[1] /\ Tail(x) \in Seq(Int)
      BY <1>5, <1>6, <2>2, TotalOfTail
    <3>2. Total(Append(Tail(x), v)) = Total(Tail(x)) + v
      BY <3>1, TotalAppends
    <3> QED
      BY <1>1, <1>5, <1>6, <2>2, <3>1, <3>2
  <2>3. Len(s) < w \/ Len(s) >= w
    BY <1>3
  <2> QED
    BY <2>1, <2>2, <2>3
<1> QED
  BY <1>2, <1>7, <1>8, Zenon DEF AverageOf, j, k, y

\* The orders of n numbers.
Orders(n) ==
  {p \in [1..n -> 1..n] : (\A i, j \in 1..n : p[i] = p[j] => i = j) /\ \A k \in 1..n : \E i \in 1..n : p[i] = k}

LEMMA RingMedian ==
  ASSUME NEW w \in Nat, w > 0, NEW b, NEW index, NEW count, NEW s, RingOf(b, index, count, s, w), s # <<>>,
         NEW p, p = CHOOSE q \in Orders(count) :
                      \A i, j \in 1..count : i < j => Slots(b, count)[q[i]] <= Slots(b, count)[q[j]],
         NEW m2, m2 = Middle2(Slots(b, count), p, count)
  PROVE  Halves(Latest(s, w), count, m2) /\ Len(Latest(s, w)) = count
<1> DEFINE g == Slots(b, count)
           r == Latest(s, w)
           a == Place(index, count)
<1>1. count \in Nat /\ count > 0
  BY DEF RingOf
<1>2. Len(r) = count /\ g \in [1..count -> Int] /\ Reordered(r, g, a, count)
  BY RingHolds
<1> HIDE DEF g, r, a
<1>3. \E q : Sorts(q, g, count)
  BY <1>1, <1>2, SortExists
<1>4. PICK q : Sorts(q, g, count)
  BY <1>3
<1>5. q \in [1..count -> 1..count] /\ \A i, j \in 1..count : q[i] = q[j] => i = j
  BY <1>4, Zenon DEF Sorts
<1>6. \A i, j \in 1..count : i < j => g[q[i]] <= g[q[j]]
  BY <1>4, Zenon DEF Sorts
<1>7. q \in Orders(count)
  <2>1. \A k \in 1..count : \E i \in 1..count : q[i] = k
    BY <1>1, <1>5, InjectionOnto
  <2> QED
    BY <1>5, <2>1 DEF Orders
<1>8. p = CHOOSE z \in Orders(count) : \A i, j \in 1..count : i < j => g[z[i]] <= g[z[j]]
  BY DEF g
<1>9. p \in Orders(count) /\ \A i, j \in 1..count : i < j => g[p[i]] <= g[p[j]]
  BY <1>6, <1>7, <1>8, Zenon
<1>10. p \in [1..count -> 1..count] /\ \A i, j \in 1..count : p[i] = p[j] => i = j
  BY <1>9, Zenon DEF Orders
<1>11. Sorts(p, g, count)
  BY <1>9, <1>10, Zenon DEF Sorts
<1>12. m2 = Middle2(g, p, count)
  BY DEF g
<1>13. Halves(r, count, m2)
  BY <1>1, <1>2, <1>11, <1>12, MedianHalves
<1> QED
  BY <1>2, <1>13 DEF r

-----------------------------------------------------------------------------
(***************************************************************************)
(* The elements of a finite set of positions in their order.               *)
(***************************************************************************)
\* ----- the elements of a set of numbers, counted
Rank(S, i) == Cardinality({j \in S : j <= i})

\* S is a set of positions up to n.
Positions(S, n) == n \in Nat /\ S \subseteq 1..n

LEMMA RankFacts ==
  ASSUME NEW n, NEW S, Positions(S, n)
  PROVE  /\ IsFiniteSet(S) /\ Cardinality(S) \in Nat /\ Rank(S, n) = Cardinality(S) /\ Rank(S, 0) = 0
         /\ \A i \in S : i \in Nat /\ i > 0 /\ i <= n
         /\ \A i \in Nat : Rank(S, i) \in Nat /\ Rank(S, i) <= Cardinality(S)
         /\ \A i \in Nat \ {0} : i \in S => Rank(S, i) = Rank(S, i - 1) + 1
         /\ \A i \in Nat \ {0} : i \notin S => Rank(S, i) = Rank(S, i - 1)
<1>0. n \in Nat /\ 1 \in Int /\ n \in Int /\ S \subseteq 1..n /\ \A j \in S : j \in Nat /\ j > 0 /\ j <= n
  BY DEF Positions
<1>1. IsFiniteSet(S) /\ Cardinality(S) \in Nat
  <2>1. IsFiniteSet(1..n)
    BY <1>0, FS_Interval
  <2> QED
    BY <1>0, <2>1, FS_Subset, FS_CardinalityType
<1>2. {j \in S : j <= n} = S /\ {j \in S : j <= 0} = {}
  <2>1. \A j \in S : j <= n /\ ~(j <= 0)
    BY <1>0
  <2> QED
    BY <2>1
<1>3. Rank(S, n) = Cardinality(S) /\ Rank(S, 0) = 0
  BY <1>2, FS_EmptySet DEF Rank
<1>4. ASSUME NEW i \in Nat PROVE Rank(S, i) \in Nat /\ Rank(S, i) <= Cardinality(S)
  <2> DEFINE T == {j \in S : j <= i}
  <2>1. T \subseteq S
    OBVIOUS
  <2> HIDE DEF T
  <2>2. IsFiniteSet(T) /\ Cardinality(T) \in Nat /\ Cardinality(T) <= Cardinality(S)
    BY <1>1, <2>1, FS_Subset, FS_CardinalityType
  <2> QED
    BY <2>2 DEF T, Rank
<1>5. ASSUME NEW i \in Nat \ {0}
      PROVE  (i \in S => Rank(S, i) = Rank(S, i - 1) + 1) /\ (i \notin S => Rank(S, i) = Rank(S, i - 1))
  <2> DEFINE T == {j \in S : j <= i - 1}
             U == {j \in S : j <= i}
  <2>1. T \subseteq S /\ i \notin T
    OBVIOUS
  <2>2. U = IF i \in S THEN T \cup {i} ELSE T
    <3>1. \A j \in S : j <= i <=> j <= i - 1 \/ j = i
      BY <1>0
    <3>2. i \in S => U = T \cup {i}
      BY <3>1
    <3>3. i \notin S => U = T
      BY <3>1
    <3> QED
      BY <3>2, <3>3
  <2> HIDE DEF T, U
  <2>3. IsFiniteSet(T) /\ Cardinality(T) \in Nat
    BY <1>1, <2>1, FS_Subset, FS_CardinalityType
  <2>4. Cardinality(T \cup {i}) = Cardinality(T) + 1
    BY <2>1, <2>3, FS_AddElement
  <2>5. (i \in S => Cardinality(U) = Cardinality(T) + 1) /\ (i \notin S => Cardinality(U) = Cardinality(T))
    BY <2>2, <2>3, <2>4
  <2> QED
    BY <2>5 DEF T, U, Rank
<1> QED
  BY <1>0, <1>1, <1>3, <1>4, <1>5

LEMMA RankGrows ==
  ASSUME NEW n, NEW S, Positions(S, n), NEW i \in Nat, NEW j \in Nat, i <= j
  PROVE  Rank(S, i) <= Rank(S, j)
<1> DEFINE T == {k \in S : k <= i}
           U == {k \in S : k <= j}
<1>1. IsFiniteSet(S)
  BY RankFacts
<1>2. T \subseteq U /\ U \subseteq S
  <2>1. \A k \in S : k <= i => k <= j
    <3>1. \A k \in S : k \in Nat
      BY RankFacts
    <3> QED
      BY <3>1
  <2> QED
    BY <2>1
<1> HIDE DEF T, U
<1>3. IsFiniteSet(U)
  BY <1>1, <1>2, FS_Subset
<1>4. Cardinality(T) <= Cardinality(U)
  BY <1>2, <1>3, FS_Subset
<1> QED
  BY <1>4 DEF T, U, Rank

\* There is a k-th element.
LEMMA RankReached ==
  ASSUME NEW n, NEW S, Positions(S, n), NEW k \in 1..Cardinality(S)
  PROVE  \E i \in S : Rank(S, i) = k
<1> DEFINE R == {i \in 0..n : Rank(S, i) >= k}
<1>0. n \in Nat /\ k \in Nat
  <2>1. Cardinality(S) \in Nat
    BY RankFacts
  <2> QED
    BY <2>1 DEF Positions
<1>1. n \in R
  <2>1. Rank(S, n) = Cardinality(S) /\ Cardinality(S) \in Nat
    BY RankFacts
  <2> QED
    BY <1>0, <2>1
<1>2. PICK i \in R : \A j \in R : i <= j
  <2>1. R \in SUBSET Nat /\ R # {}
    BY <1>0, <1>1
  <2> HIDE DEF R
  <2> QED
    BY <2>1, LeastElement
<1>3. i \in 0..n /\ Rank(S, i) >= k
  BY <1>2
<1>4. i # 0
  <2>1. Rank(S, 0) = 0 /\ k >= 1
    BY RankFacts
  <2> QED
    BY <1>3, <2>1
<1>5. ~(Rank(S, i - 1) >= k)
  <2>1. i - 1 \in 0..n /\ ~(i <= i - 1)
    BY <1>0, <1>3, <1>4
  <2>2. i - 1 \notin R
    BY <1>2, <2>1
  <2> QED
    BY <2>1, <2>2
<1> HIDE DEF R
<1>6. (i \in S => Rank(S, i) = Rank(S, i - 1) + 1) /\ (i \notin S => Rank(S, i) = Rank(S, i - 1))
  <2>1. i \in Nat \ {0}
    BY <1>0, <1>3, <1>4
  <2> QED
    BY <2>1, RankFacts
<1>7. Rank(S, i) \in Nat /\ Rank(S, i - 1) \in Nat /\ k \in Nat
  <2>1. i \in Nat /\ i - 1 \in Nat
    BY <1>3, <1>4
  <2>2. \A j \in Nat : Rank(S, j) \in Nat
    BY RankFacts
  <2> QED
    BY <1>0, <2>1, <2>2
<1>8. i \in S /\ Rank(S, i) = k
  BY <1>3, <1>5, <1>6, <1>7
<1> QED
  BY <1>8

\* The elements in order: the k-th is before the next.
Nth(S, k) == CHOOSE i \in S : Rank(S, i) = k

LEMMA NthInOrder ==
  ASSUME NEW n, NEW S, Positions(S, n)
  PROVE  /\ \A k \in 1..Cardinality(S) : Nth(S, k) \in S /\ Rank(S, Nth(S, k)) = k
         /\ \A k \in 1..(Cardinality(S) - 1) : Nth(S, k) < Nth(S, k + 1)
<1>1. ASSUME NEW k \in 1..Cardinality(S) PROVE Nth(S, k) \in S /\ Rank(S, Nth(S, k)) = k
  BY RankReached DEF Nth
<1>2. ASSUME NEW k \in 1..(Cardinality(S) - 1) PROVE Nth(S, k) < Nth(S, k + 1)
  <2> DEFINE a == Nth(S, k)
             b == Nth(S, k + 1)
  <2>0. Cardinality(S) \in Nat
    BY RankFacts
  <2>1. k \in 1..Cardinality(S) /\ k + 1 \in 1..Cardinality(S) /\ k \in Nat
    BY <2>0
  <2>2. a \in S /\ b \in S /\ Rank(S, a) = k /\ Rank(S, b) = k + 1
    BY <1>1, <2>1
  <2> HIDE DEF a, b
  <2>3. a \in Nat /\ b \in Nat
    BY <2>2, RankFacts
  <2>4. ~(b <= a)
    <3>1. b <= a => k + 1 <= k
      BY <2>2, <2>3, RankGrows
    <3> QED
      BY <2>1, <3>1
  <2>5. a < b
    BY <2>3, <2>4
  <2> QED
    BY <2>5 DEF a, b
<1> QED
  BY <1>1, <1>2

-----------------------------------------------------------------------------

-----------------------------------------------------------------------------
(***************************************************************************)
(* Pieces of a sequence that follow one another, and their joining.        *)
(***************************************************************************)
\* j is g and then h.
Joins(j, g, h) ==
  /\ Len(j) = Len(g) + Len(h)
  /\ \A k \in 1..Len(g) : j[k] = g[k]
  /\ \A k \in 1..Len(h) : j[Len(g) + k] = h[k]

LEMMA Concat ==
  ASSUME NEW X, NEW g \in Seq(X), NEW h \in Seq(X)
  PROVE  g \o h \in Seq(X) /\ Joins(g \o h, g, h)
BY DEF Joins

\* Consecutive pieces of t, from its beginning: piece k ends at c[k].
Consecutive(s, t, c) ==
  /\ c \in [0..Len(s) -> Nat] /\ c[0] = 0
  /\ \A k \in 1..Len(s) : c[k - 1] <= c[k] /\ c[k] <= Len(t) /\ s[k] = SubSeq(t, c[k - 1] + 1, c[k])

LEMMA PiecesJoin ==
  ASSUME NEW X, NEW s \in Seq(Seq(X)), NEW t \in Seq(X), NEW c, Consecutive(s, t, c), Len(s) > 0,
         NEW f, f[1] = s[1], \A i \in 2..Len(s) : f[i] = f[i - 1] \o s[i]
  PROVE  f[Len(s)] = SubSeq(t, 1, c[Len(s)])
<1> DEFINE n == Len(s)
           G == {k \in 0..n : k = 0 \/ f[k] = SubSeq(t, 1, c[k])}
<1>0. n \in Nat /\ n > 0 /\ Len(t) \in Nat /\ 0 \in G
  OBVIOUS
<1>1. /\ c \in [0..n -> Nat] /\ c[0] = 0
      /\ \A k \in 1..n : c[k - 1] <= c[k] /\ c[k] <= Len(t) /\ s[k] = SubSeq(t, c[k - 1] + 1, c[k])
  BY DEF Consecutive
<1>2. ASSUME NEW k \in 1..n, k - 1 \in G PROVE k \in G
  <2> DEFINE a == c[k - 1]
             b == c[k]
             u == SubSeq(t, 1, a)
             v == SubSeq(t, a + 1, b)
             w == SubSeq(t, 1, b)
  <2>1. a \in Nat /\ b \in Nat /\ a <= b /\ b <= Len(t) /\ s[k] = v /\ k - 1 \in 0..n
    <3>1. k - 1 \in 0..n /\ k \in 0..n
      BY <1>0
    <3> HIDE DEF n
    <3>2. a \in Nat /\ b \in Nat
      BY <1>1, <3>1
    <3> QED
      BY <1>1, <3>1, <3>2
  <2>2. CASE k = 1
    <3>1. a = 0 /\ f[1] = v
      BY <1>1, <2>1, <2>2
    <3> HIDE DEF a
    <3> QED
      BY <2>2, <3>1
  <2>3. CASE k # 1
    <3>1. k \in 2..n /\ f[k - 1] = u
      BY <2>3, <1>2
    <3>2. f[k] = u \o v
      BY <2>1, <3>1
    <3> HIDE DEF a, b, n, G
    <3>3. u \in Seq(X) /\ Len(u) = a /\ \A i \in 1..a : u[i] = t[i]
      BY <2>1
    <3>4. v \in Seq(X) /\ Len(v) = b - a /\ \A i \in 1..(b - a) : v[i] = t[a + i]
      BY <2>1
    <3>5. w \in Seq(X) /\ Len(w) = b /\ \A i \in 1..b : w[i] = t[i]
      BY <2>1
    <3> HIDE DEF u, v, w
    <3>6. u \o v \in Seq(X) /\ Len(u \o v) = b
      BY <2>1, <3>3, <3>4
    <3>7. \A i \in 1..b : (u \o v)[i] = t[i]
      <4> SUFFICES ASSUME NEW i \in 1..b PROVE (u \o v)[i] = t[i]
        OBVIOUS
      <4>1. CASE i <= a
        BY <2>1, <3>3, <3>4, <4>1
      <4>2. CASE i > a
        <5>1. i - a \in 1..(b - a) /\ a + (i - a) = i
          BY <2>1, <4>2
        <5>2. (u \o v)[a + (i - a)] = v[i - a]
          <6>1. \A j \in 1..Len(v) : (u \o v)[Len(u) + j] = v[j]
            BY <3>3, <3>4, Concat DEF Joins
          <6> QED
            BY <3>3, <3>4, <5>1, <6>1
        <5>3. v[i - a] = t[a + (i - a)]
          BY <3>4, <5>1
        <5> QED
          BY <5>1, <5>2, <5>3
      <4>3. i <= a \/ i > a
        BY <2>1
      <4> QED
        BY <4>1, <4>2, <4>3
    <3>8. u \o v = w
      <4> DEFINE y == u \o v
      <4>1. y \in Seq(X) /\ Len(y) = Len(w) /\ \A i \in 1..Len(y) : y[i] = w[i]
        BY <3>5, <3>6, <3>7
      <4> HIDE DEF y
      <4>2. y = w
        BY <3>5, <4>1, SameSequence
      <4> QED
        BY <4>2 DEF y
    <3>9. f[k] = SubSeq(t, 1, c[k])
      BY <3>2, <3>8 DEF w, b
    <3> QED
      BY <3>9 DEF G, n
  <2> QED
    BY <2>2, <2>3
<1> HIDE DEF G
<1>3. n \in G
  <2>1. \A k \in 0..n : k \in G
    BY <1>0, <1>2, CountsUp
  <2> QED
    BY <1>0, <2>1
<1> QED
  BY <1>0, <1>3 DEF G

-----------------------------------------------------------------------------
(***************************************************************************)
(* A line cut at every separator: the pieces, each but the first led by    *)
(* its separator, are the line again.                                      *)
(***************************************************************************)
\* Cuts at the elements of S: the k-th, from 0.
Cut(S, k) == IF k = 0 THEN 0 ELSE Nth(S, k)

LEMMA CutsInOrder ==
  ASSUME NEW n, NEW S, Positions(S, n)
  PROVE  /\ Cut(S, 0) = 0 /\ Cardinality(S) \in Nat
         /\ \A k \in 0..Cardinality(S) : Cut(S, k) \in Nat /\ Cut(S, k) <= n
         /\ \A k \in 1..Cardinality(S) : Cut(S, k) \in S /\ Cut(S, k - 1) < Cut(S, k)
         /\ \A k \in 1..Cardinality(S) : \A i \in S : Cut(S, k - 1) < i => Cut(S, k) <= i
         /\ \A i \in S : i <= Cut(S, Cardinality(S))
<1> DEFINE K == Cardinality(S)
<1>0. K \in Nat /\ \A i \in S : i \in Nat /\ i > 0 /\ i <= n
  BY RankFacts
<1> HIDE DEF K
<1>1. ASSUME NEW k \in 1..K PROVE Cut(S, k) \in S /\ Cut(S, k) \in Nat /\ Cut(S, k) > 0 /\ Cut(S, k) <= n /\ Rank(S, Cut(S, k)) = k
  <2>1. Nth(S, k) \in S /\ Rank(S, Nth(S, k)) = k
    BY NthInOrder DEF K
  <2>2. Cut(S, k) = Nth(S, k)
    BY DEF Cut
  <2> QED
    BY <1>0, <2>1, <2>2
<1>2. Cut(S, 0) = 0 /\ Rank(S, 0) = 0 /\ n \in Nat
  BY RankFacts DEF Cut, Positions
<1>3. ASSUME NEW k \in 0..K PROVE Cut(S, k) \in Nat /\ Cut(S, k) <= n /\ Rank(S, Cut(S, k)) = k
  <2>1. k = 0 \/ k \in 1..K
    BY <1>0
  <2> QED
    BY <1>1, <1>2, <2>1
\* An element behind a cut has a greater rank.
<1>4. ASSUME NEW k \in 0..K, NEW i \in S, Cut(S, k) < i PROVE Rank(S, i) > k /\ Rank(S, i) <= K /\ Rank(S, i) \in Nat
  <2> DEFINE a == Cut(S, k)
             b == Rank(S, i)
             d == Rank(S, i - 1)
  <2>1. a \in Nat /\ i \in Nat /\ i > 0 /\ a <= i - 1 /\ Rank(S, a) = k /\ i - 1 \in Nat
    BY <1>0, <1>3, <1>4
  <2> HIDE DEF a
  <2>2. Rank(S, a) <= Rank(S, i - 1)
    BY <2>1, RankGrows
  <2>3. b = d + 1 /\ d \in Nat /\ b \in Nat /\ b <= K
    <3>1. b = d + 1
      BY <2>1, RankFacts
    <3>2. d \in Nat /\ b <= K
      BY <2>1, RankFacts DEF K
    <3> QED
      BY <3>1, <3>2
  <2> HIDE DEF b, d
  <2>4. k <= d
    BY <2>1, <2>2 DEF d
  <2>5. b > k
    BY <2>3, <2>4
  <2> QED
    BY <2>3, <2>5 DEF b
<1>5. ASSUME NEW k \in 1..K PROVE Cut(S, k - 1) < Cut(S, k)
  <2> DEFINE a == Cut(S, k - 1)
             b == Cut(S, k)
  <2>1. k - 1 \in 0..K /\ k \in 0..K /\ k \in Nat
    BY <1>0
  <2>2. a \in Nat /\ b \in Nat /\ Rank(S, a) = k - 1 /\ Rank(S, b) = k
    BY <1>3, <2>1
  <2> HIDE DEF a, b
  <2>3. b <= a => k <= k - 1
    BY <2>2, RankGrows
  <2>4. a < b
    BY <2>1, <2>2, <2>3
  <2> QED
    BY <2>4 DEF a, b
<1>6. ASSUME NEW k \in 1..K, NEW i \in S, Cut(S, k - 1) < i PROVE Cut(S, k) <= i
  <2> DEFINE b == Cut(S, k)
  <2>1. k - 1 \in 0..K /\ k \in Nat /\ i \in Nat
    BY <1>0
  <2>2. Rank(S, i) > k - 1 /\ Rank(S, i) \in Nat
    BY <1>4, <1>6, <2>1
  <2>3. b \in Nat /\ b \in S /\ b > 0 /\ Rank(S, b) = k /\ b - 1 \in Nat
    BY <1>1
  <2>4. Rank(S, b - 1) = k - 1
    <3>1. Rank(S, b) = Rank(S, b - 1) + 1
      BY <2>3, RankFacts
    <3>2. Rank(S, b - 1) \in Nat
      BY <2>3, RankFacts
    <3> QED
      BY <2>1, <2>3, <3>1, <3>2
  <2> HIDE DEF b
  <2>5. i <= b - 1 => Rank(S, i) <= Rank(S, b - 1)
    BY <2>1, <2>3, RankGrows
  <2>6. b <= i
    BY <2>1, <2>2, <2>3, <2>4, <2>5
  <2> QED
    BY <2>6 DEF b
<1>7. ASSUME NEW i \in S PROVE i <= Cut(S, K)
  <2>1. K \in 0..K /\ i \in Nat
    BY <1>0
  <2>2. Cut(S, K) \in Nat
    BY <1>3, <2>1
  <2>3. ~(Cut(S, K) < i)
    <3>1. Cut(S, K) < i => Rank(S, i) > K /\ Rank(S, i) <= K /\ Rank(S, i) \in Nat
      BY <1>4, <2>1
    <3> QED
      BY <1>0, <3>1
  <2> QED
    BY <2>1, <2>2, <2>3
<1>8. \A k \in 0..K : Cut(S, k) \in Nat /\ Cut(S, k) <= n
  BY <1>3
<1>9. \A k \in 1..K : Cut(S, k) \in S /\ Cut(S, k - 1) < Cut(S, k)
  BY <1>1, <1>5
<1>10. \A k \in 1..K : \A i \in S : Cut(S, k - 1) < i => Cut(S, k) <= i
  BY <1>6
<1> QED
  BY <1>0, <1>2, <1>7, <1>8, <1>9, <1>10 DEF K

\* A line is split at each comma; what is behind the last one ends before the last
\* character.
Places(line, comma) == {i \in DOMAIN line : line[i] = comma}
Split(line, comma) ==
  [k \in 1..(Cardinality(Places(line, comma)) + 1) |->
     SubSeq(line, Cut(Places(line, comma), k - 1) + 1,
            IF k <= Cardinality(Places(line, comma)) THEN Cut(Places(line, comma), k) - 1 ELSE Len(line) - 1)]
Led(cols, comma) == [k \in DOMAIN cols |-> IF k = 1 THEN cols[k] ELSE <<comma>> \o cols[k]]
Borders(line, comma) ==
  [k \in 0..(Cardinality(Places(line, comma)) + 1) |->
     IF k = 0 THEN 0 ELSE IF k <= Cardinality(Places(line, comma)) THEN Cut(Places(line, comma), k) - 1 ELSE Len(line) - 1]

LEMMA SplitExact ==
  ASSUME NEW X, NEW line \in Seq(X), NEW comma \in X, Len(line) > 0, line[Len(line)] # comma
  PROVE  LET cols == Split(line, comma)   parts == Led(cols, comma)   c == Borders(line, comma) IN
         /\ \A k \in DOMAIN cols : \A i \in DOMAIN cols[k] : cols[k][i] # comma
         /\ parts \in Seq(Seq(X)) /\ Len(parts) > 0 /\ Consecutive(parts, line, c) /\ c[Len(parts)] = Len(line) - 1
<1> DEFINE S == Places(line, comma)
           K == Cardinality(S)
           n == Len(line)
           cols == Split(line, comma)
           parts == Led(cols, comma)
           c == Borders(line, comma)
           first(k) == Cut(S, k - 1) + 1
           last(k) == IF k <= K THEN Cut(S, k) - 1 ELSE n - 1
<1>0. n \in Nat /\ n > 0 /\ S \in SUBSET (1..n) /\ (\A i \in 1..n : i \in S <=> line[i] = comma) /\ DOMAIN line = 1..n
  BY DEF Places
<1>1. cols = [k \in 1..(K + 1) |-> SubSeq(line, first(k), last(k))]
  BY DEF Split
<1>2. c = [k \in 0..(K + 1) |-> IF k = 0 THEN 0 ELSE last(k)]
  BY DEF Borders
<1> HIDE DEF S, K, n
<1>3. /\ Cut(S, 0) = 0 /\ K \in Nat
      /\ \A k \in 0..K : Cut(S, k) \in Nat /\ Cut(S, k) <= n
      /\ \A k \in 1..K : Cut(S, k) \in S /\ Cut(S, k - 1) < Cut(S, k)
      /\ \A k \in 1..K : \A i \in S : Cut(S, k - 1) < i => Cut(S, k) <= i
      /\ \A i \in S : i <= Cut(S, K)
  <2>1. Positions(S, n)
    BY <1>0 DEF Positions
  <2> QED
    BY <2>1, CutsInOrder DEF K
<1>4. n \notin S
  BY <1>0 DEF n
<1>5. ASSUME NEW k \in 1..(K + 1)
      PROVE  /\ Cut(S, k - 1) \in Nat /\ last(k) \in Nat /\ first(k) \in Nat /\ last(k) < n /\ Cut(S, k - 1) <= last(k)
             /\ k # 1 => last(k - 1) = Cut(S, k - 1) - 1 /\ Cut(S, k - 1) \in S /\ Cut(S, k - 1) > 0
             /\ \A i \in S : ~(first(k) <= i /\ i <= last(k))
  <2> DEFINE a == Cut(S, k - 1)
             b == Cut(S, k)
             l == last(k)
  <2>1. k \in Nat /\ k > 0 /\ k - 1 \in 0..K /\ (k # 1 => k - 1 \in 1..K) /\ (k <= K => k \in 1..K) /\ (~(k <= K) => k = K + 1 /\ k - 1 = K)
    BY <1>3
  <2>2. a \in Nat /\ a <= n
    BY <1>3, <2>1
  <2>3. \A i \in S : i \in Nat /\ i > 0 /\ i <= n
    BY <1>0
  <2>4. k # 1 => a \in S /\ a > 0 /\ last(k - 1) = a - 1
    <3>1. k # 1 => a \in S /\ a > 0
      BY <1>3, <2>1, <2>3
    <3>2. k # 1 => k - 1 <= K
      BY <2>1
    <3> QED
      BY <3>1, <3>2
  <2>5. a < n
    <3>1. a # n
      <4>1. k = 1 => a = 0
        BY <1>3
      <4> QED
        BY <1>0, <1>4, <2>4, <4>1
    <3> QED
      BY <1>0, <2>2, <3>1
  <2>6. CASE k <= K
    <3>1. b \in S /\ a < b /\ \A i \in S : a < i => b <= i
      BY <1>3, <2>1, <2>6
    <3>2. b \in Nat /\ b <= n /\ l = b - 1
      BY <2>3, <2>6, <3>1
    <3> HIDE DEF a, b
    <3>3. l \in Nat /\ l < n /\ a <= l
      BY <1>0, <2>2, <3>1, <3>2
    <3>4. \A i \in S : ~(a + 1 <= i /\ i <= b - 1)
      BY <2>2, <2>3, <3>1, <3>2
    <3> HIDE DEF l
    <3>5. \A i \in S : ~(a + 1 <= i /\ i <= l)
      BY <3>2, <3>4
    <3> QED
      BY <2>2, <2>4, <3>3, <3>5 DEF a, l
  <2>7. CASE ~(k <= K)
    <3>1. l = n - 1 /\ \A i \in S : i <= a
      BY <1>3, <2>1, <2>7
    <3> HIDE DEF a, l
    <3>2. l \in Nat /\ l < n /\ a <= l
      BY <1>0, <2>2, <2>5, <3>1
    <3>3. \A i \in S : ~(a + 1 <= i /\ i <= l)
      BY <2>2, <2>3, <3>1
    <3> QED
      BY <2>2, <2>4, <3>2, <3>3 DEF a, l
  <2> QED
    BY <2>6, <2>7
<1> DEFINE whole(k) == SubSeq(line, IF k = 1 THEN 1 ELSE Cut(S, k - 1), last(k))
<1>6. ASSUME NEW k \in 1..(K + 1)
      PROVE  /\ cols[k] \in Seq(X) /\ \A i \in DOMAIN cols[k] : cols[k][i] # comma
             /\ (IF k = 1 THEN cols[k] ELSE <<comma>> \o cols[k]) = whole(k) /\ whole(k) \in Seq(X)
  <2> DEFINE a == Cut(S, k - 1)
             l == last(k)
             v == SubSeq(line, a + 1, l)
             w == SubSeq(line, a, l)
  <2>1. cols[k] = v
    BY <1>1
  <2>2. /\ a \in Nat /\ l \in Nat /\ l < n /\ a <= l
        /\ k # 1 => a \in S /\ a > 0
        /\ \A i \in S : ~(a + 1 <= i /\ i <= l)
    BY <1>5
  <2> HIDE DEF a, l
  <2>3. v \in Seq(X) /\ Len(v) = l - a /\ DOMAIN v = 1..(l - a) /\ \A i \in 1..(l - a) : v[i] = line[a + i]
    BY <1>0, <2>2 DEF n
  <2>4. \A i \in DOMAIN v : v[i] # comma
    <3> SUFFICES ASSUME NEW i \in 1..(l - a) PROVE line[a + i] # comma
      BY <2>3
    <3>1. a + i \in 1..n /\ a + 1 <= a + i /\ a + i <= l
      BY <1>0, <2>2
    <3> QED
      BY <1>0, <2>2, <3>1
  <2>5. CASE k = 1
    <3>1. a = 0
      BY <1>3, <2>5 DEF a
    <3>2. v = whole(k)
      BY <2>5, <3>1 DEF l
    <3> HIDE DEF v
    <3> QED
      BY <2>1, <2>3, <2>4, <2>5, <3>2
  <2>6. CASE k # 1
    <3> DEFINE h == <<comma>>
               y == h \o v
    <3>1. w \in Seq(X) /\ Len(w) = l - a + 1 /\ \A i \in 1..(l - a + 1) : w[i] = line[a + i - 1]
      BY <1>0, <2>2, <2>6 DEF n
    <3>2. h \in Seq(X) /\ Len(h) = 1 /\ h[1] = comma
      OBVIOUS
    <3> HIDE DEF h, v, w
    <3>3. y \in Seq(X) /\ Joins(y, h, v)
      BY <2>3, <3>2, Concat
    <3>4. Len(y) = l - a + 1 /\ y[1] = comma /\ \A j \in 1..(l - a) : y[1 + j] = line[a + j]
      BY <2>3, <3>2, <3>3 DEF Joins
    <3>5. line[a] = comma
      BY <1>0, <2>2, <2>6
    <3> HIDE DEF y
    <3>6. \A i \in 1..(l - a + 1) : y[i] = w[i]
      <4> SUFFICES ASSUME NEW i \in 1..(l - a + 1) PROVE y[i] = line[a + i - 1]
        BY <3>1
      <4>1. CASE i = 1
        <5>1. a + 1 - 1 = a
          BY <2>2
        <5> QED
          BY <3>4, <3>5, <4>1, <5>1
      <4>2. CASE i # 1
        <5>1. i - 1 \in 1..(l - a) /\ 1 + (i - 1) = i /\ a + (i - 1) = a + i - 1
          BY <2>2, <4>2
        <5>2. y[1 + (i - 1)] = line[a + (i - 1)]
          BY <3>4, <5>1
        <5> QED
          BY <5>1, <5>2
      <4> QED
        BY <4>1, <4>2
    <3>7. y = w
      <4>1. Len(y) = Len(w) /\ \A i \in 1..Len(y) : y[i] = w[i]
        BY <3>1, <3>4, <3>6
      <4> QED
        BY <3>1, <3>3, <4>1, SameSequence
    <3>8. w = whole(k)
      BY <2>6 DEF w, a, l
    <3>9. (IF k = 1 THEN cols[k] ELSE <<comma>> \o cols[k]) = y
      BY <2>1, <2>6 DEF y, h
    <3> HIDE DEF whole
    <3> QED
      BY <2>1, <2>3, <2>4, <3>1, <3>7, <3>8, <3>9
  <2> QED
    BY <2>5, <2>6
<1>7. DOMAIN cols = 1..(K + 1) /\ DOMAIN parts = 1..(K + 1)
  BY <1>1 DEF Led
<1>8. \A k \in 1..(K + 1) : parts[k] = whole(k)
  <2> SUFFICES ASSUME NEW k \in 1..(K + 1) PROVE parts[k] = whole(k)
    OBVIOUS
  <2>1. parts[k] = IF k = 1 THEN cols[k] ELSE <<comma>> \o cols[k]
    BY <1>7 DEF Led
  <2> HIDE DEF parts, cols, whole
  <2> QED
    BY <1>6, <2>1
<1>9. parts \in Seq(Seq(X)) /\ Len(parts) = K + 1
  <2>1. \A k \in 1..(K + 1) : parts[k] \in Seq(X)
    <3> HIDE DEF parts, cols, whole
    <3> QED
      BY <1>6, <1>8
  <2>2. parts = [k \in 1..(K + 1) |-> parts[k]]
    BY <1>7 DEF Led
  <2> DEFINE g == [k \in 1..(K + 1) |-> parts[k]]
  <2> HIDE DEF parts
  <2>3. K + 1 \in Nat
    BY <1>3
  <2>4. g \in Seq(Seq(X)) /\ Len(g) = K + 1
    BY <2>1, <2>3
  <2> QED
    BY <2>2, <2>4
<1>10. Consecutive(parts, line, c)
  <2>1. c[0] = 0 /\ \A k \in 1..(K + 1) : c[k] = last(k)
    <3>1. \A k \in 1..(K + 1) : k # 0 /\ k \in 0..(K + 1)
      BY <1>3
    <3>2. 0 \in 0..(K + 1)
      BY <1>3
    <3> HIDE DEF last, c
    <3> QED
      BY <1>2, <3>1, <3>2
  <2>2. c \in [0..(K + 1) -> Nat]
    <3>1. \A k \in 0..(K + 1) : (IF k = 0 THEN 0 ELSE last(k)) \in Nat
      <4> SUFFICES ASSUME NEW k \in 0..(K + 1), k # 0 PROVE last(k) \in Nat
        OBVIOUS
      <4>1. k \in 1..(K + 1)
        BY <1>3
      <4> HIDE DEF last
      <4> QED
        BY <1>5, <4>1
    <3> HIDE DEF last, c
    <3> QED
      BY <1>2, <3>1
  <2>3. ASSUME NEW k \in 1..(K + 1)
        PROVE  c[k - 1] <= c[k] /\ c[k] <= n /\ parts[k] = SubSeq(line, c[k - 1] + 1, c[k])
    <3>1. /\ Cut(S, k - 1) \in Nat /\ last(k) \in Nat /\ last(k) < n /\ Cut(S, k - 1) <= last(k)
          /\ k # 1 => last(k - 1) = Cut(S, k - 1) - 1 /\ Cut(S, k - 1) > 0
      BY <1>5
    <3>2. c[k] = last(k) /\ parts[k] = whole(k)
      <4> HIDE DEF last, c, parts, whole
      <4> QED
        BY <1>8, <2>1
    <3>3. CASE k = 1
      <4>1. c[k - 1] = 0 /\ c[k - 1] + 1 = 1
        <5> HIDE DEF c
        <5> QED
          BY <2>1, <3>3
      <4> HIDE DEF last, c, parts
      <4> QED
        BY <1>0, <3>1, <3>2, <3>3, <4>1
    <3>4. CASE k # 1
      <4>1. k - 1 \in 1..(K + 1)
        BY <1>3, <3>4
      <4>2. c[k - 1] = Cut(S, k - 1) - 1 /\ c[k - 1] + 1 = Cut(S, k - 1)
        <5> HIDE DEF last, c
        <5> QED
          BY <2>1, <3>1, <3>4, <4>1
      <4> HIDE DEF last, c, parts
      <4>3. c[k - 1] <= c[k] /\ c[k] <= n
        BY <1>0, <3>1, <3>2, <4>2
      <4>4. parts[k] = SubSeq(line, c[k - 1] + 1, c[k])
        BY <3>2, <3>4, <4>2
      <4> QED
        BY <4>3, <4>4
    <3> QED
      BY <3>3, <3>4
  <2> HIDE DEF last, c, parts
  <2> QED
    BY <1>9, <2>1, <2>2, <2>3 DEF Consecutive, n
<1>11. c[Len(parts)] = n - 1 /\ Len(parts) > 0
  <2>1. K + 1 \in 0..(K + 1) /\ K + 1 # 0 /\ ~(K + 1 <= K) /\ K + 1 > 0
    BY <1>3
  <2>2. c[K + 1] = n - 1
    BY <1>2, <2>1
  <2> HIDE DEF c, parts
  <2> QED
    BY <1>9, <2>1, <2>2
<1>12. \A k \in DOMAIN cols : \A i \in DOMAIN cols[k] : cols[k][i] # comma
  <2> HIDE DEF cols, whole
  <2> QED
    BY <1>6, <1>7
<1> HIDE DEF cols, parts, c
<1> QED
  BY <1>9, <1>10, <1>11, <1>12 DEF n, parts, cols, c

=============================================================================
