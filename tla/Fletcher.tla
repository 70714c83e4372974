------------------------------ MODULE Fletcher ------------------------------
(***************************************************************************)
(* fletcher32 of Common/crc.c: two sums of Base-ary words are kept in      *)
(* integers of two words and reduced once per block of 360 words.          *)
(***************************************************************************)
EXTENDS Naturals, Sequences

CONSTANTS
  Base,      \* values of a word (2^16)
  TLen,      \* words between two reductions (360)
  Words,     \* words that are summed up
  MaxWords   \* bound: words of the data

VARIABLES
  sum,   \* sum1, sum2 and the words of this block
  data   \* history: the words so far

vars == <<sum, data>>

\* Bound of sum1 at the start of a block.
Carry == Base + TLen
Parameters ==
  /\ Base \in Nat /\ Base > 1 /\ TLen \in Nat \ {0} /\ Words \subseteq 0..(Base - 1) /\ MaxWords \in Nat
  /\ (Carry + (Base - 1) * TLen) \div Base <= TLen + 1
  /\ 4 * Base + 2 * TLen * Carry + (Base - 1) * TLen * (TLen + 1) < 2 * Base * Base

Init == sum = [sum1 |-> Base - 1, sum2 |-> Base - 1, n |-> 0] /\ data = <<>>

\* (s & 0xffff) + (s >> 16)
Fold(s) == (s % Base) + (s \div Base)
Folded(s) == [sum1 |-> Fold(s.sum1), sum2 |-> Fold(s.sum2), n |-> 0]

\* Mutant: blocks of two words more.
BlockLonger == TLen + 2

\* Words of a full block.
Block == TLen

\* The body of the inner loop; the sums are kept in integers of two words.
Added(s, w) ==
  LET sum1 == (s.sum1 + w) % (Base * Base)
  IN  [sum1 |-> sum1, sum2 |-> (s.sum2 + sum1) % (Base * Base), n |-> s.n + 1]

Add(w) ==
  /\ Len(data) < MaxWords
  /\ LET s == Added(sum, w) IN sum' = IF s.n = Block THEN Folded(s) ELSE s
  /\ data' = Append(data, w)

\* The end of the data: the block that was begun is reduced, and then the sums.
Last == Folded(IF sum.n > 0 THEN Folded(sum) ELSE sum)

Next == \E w \in Words : Add(w)

-----------------------------------------------------------------------------
TypeOK == sum.n \in 0..Block /\ sum.sum1 \in Nat /\ sum.sum2 \in Nat

\* Reference: the sums modulo Base - 1 of the words and of their prefixes.
Sums == LET s[k \in 0..Len(data)] ==
              IF k = 0 THEN <<0, 0>>
              ELSE LET a == s[k - 1][1] + data[k] IN <<a, s[k - 1][2] + a>>
        IN  s[Len(data)]

ChecksumExact ==
  /\ Last.sum1 < Base /\ Last.sum2 < Base
  /\ Last.sum1 % (Base - 1) = Sums[1] % (Base - 1)
  /\ Last.sum2 % (Base - 1) = Sums[2] % (Base - 1)
=============================================================================
