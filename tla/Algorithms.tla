----------------------------- MODULE Algorithms -----------------------------
(***************************************************************************)
(* The integer algorithms: the windows of MovingAverageFilter and          *)
(* MedianFilter (Common/filters.h) fed with one value after the other, the *)
(* 8 bit checksums of Common/crc.c fed with one byte after the other, and  *)
(* the bit reversal of Common/bitops.c.  A machine word is the set of the  *)
(* positions of its one bits.                                              *)
(***************************************************************************)
EXTENDS MachineWords, SequencesExt, FiniteSets

CONSTANTS
  windowSize,  \* window of the filters
  Values,      \* samples
  Octets,      \* bytes
  MaxInput     \* bound: values fed

VARIABLES
  input,  \* history: what was fed since the last reset, newest last
  acc     \* kind and state of the algorithm

vars == <<input, acc>>

Parameters ==
  windowSize \in Nat \ {0} /\ Values \subseteq Int /\ Octets \subseteq SUBSET (0..7) /\ MaxInput \in Nat

Window == [i \in 0..(windowSize - 1) |-> 0]
Init ==
  /\ input = <<>>
  /\ acc \in [kind : {"average"}, buffer : {Window}, sum : {0}, count : {0}, index : {0}]
       \cup [kind : {"median"}, buffer : {Window}, count : {0}, index : {0}]
       \cup [kind : {"crc8"}, crc : {0..7}] \cup [kind : {"crc8Dallas"}, crc : {{}}]
       \cup [kind : {"reverse"}, width : {8, 16, 32}, x : {{}}]

Fed(v) == Len(input) < MaxInput /\ input' = Append(input, v)

\* Mutant: the sample that falls out of a full window stays in the sum.
SumKept(a) == a.sum

\* The sum without the sample that is replaced.
SumWithout(a) == a.sum - a.buffer[a.index]

\* Mutant: the number of samples grows past the window.
CountedOn(a) == a.count + 1

Counted(a) == IF a.count < windowSize THEN a.count + 1 ELSE a.count

\* The sum is exact, as it is for integers; over a long run of floating point samples,
\* for which the template is meant, it drifts by their rounding.
UpdateAverage(v) ==
  /\ acc.kind = "average" /\ Fed(v)
  /\ acc' = [acc EXCEPT !.buffer[acc.index] = v, !.sum = SumWithout(acc) + v,
                        !.index = (@ + 1) % windowSize, !.count = Counted(acc)]

UpdateMedian(v) ==
  /\ acc.kind = "median" /\ Fed(v)
  /\ acc' = [acc EXCEPT !.buffer[acc.index] = v, !.index = (@ + 1) % windowSize, !.count = Counted(acc)]

\* reset(v) of MedianFilter fills the window and forgets the samples.
ResetMedian(v) ==
  /\ acc.kind = "median" /\ input # <<>>
  /\ acc' = [acc EXCEPT !.buffer = [i \in DOMAIN Window |-> v], !.index = 0, !.count = 0]
  /\ input' = <<>>

\* Mutant: with an even number of samples the middle is one too high.
MiddleHigh(count) == count \div 2 + 1

\* Position of mid in the sorted samples, from 1.
Middle(count) == count \div 2

\* The samples in order: nth_element puts those around the middle there.
Order(samples) ==
  CHOOSE order \in Bijection(DOMAIN samples, DOMAIN samples) :
    \A i, j \in DOMAIN samples : i < j => samples[order[i]] <= samples[order[j]]

\* Twice what update() of MedianFilter returns.
Median2 ==
  LET samples == [i \in 1..acc.count |-> acc.buffer[i - 1]]
      order == Order(samples)
      mid == Middle(acc.count) + 1
  IN  IF acc.count % 2 = 1 THEN 2 * samples[order[mid]] ELSE samples[order[mid - 1]] + samples[order[mid]]

-----------------------------------------------------------------------------
\* Mutant: the Dallas checksum shifts in the other direction.
CrcByteLeft(crc, byte) == Bits(Xor(crc, byte), ShiftLeft)

CrcByte(crc, byte) == IF acc.kind = "crc8" THEN Bits(Xor(crc, byte), ShiftLeft)
                                           ELSE Bits(Xor(crc, byte), ShiftRight)

Crc(byte) ==
  /\ acc.kind \in {"crc8", "crc8Dallas"} /\ Fed(byte)
  /\ acc' = [acc EXCEPT !.crc = CrcByte(acc.crc, byte)]

ReverseBits(x) ==
  /\ acc.kind = "reverse" /\ input = <<>> /\ x \subseteq 0..(acc.width - 1) /\ Fed(x)
  /\ acc' = [acc EXCEPT !.x = reverse_bits(x, acc.width)]

Next ==
  \/ \E v \in Values : UpdateAverage(v) \/ UpdateMedian(v) \/ ResetMedian(v)
  \/ \E b \in Octets : Crc(b)
  \/ \E i, j \in 0..31 : ReverseBits({i, j})

-----------------------------------------------------------------------------
Recent == SubSeq(input, IF Len(input) > windowSize THEN Len(input) - windowSize + 1 ELSE 1, Len(input))

TypeOK == acc.kind \in {"average", "median"} => acc.index \in DOMAIN Window /\ acc.count \in 0..windowSize

FilterWindow ==
  input # <<>> =>
    /\ acc.kind = "average" => acc.sum = FoldLeft(+, 0, Recent) /\ acc.count = Len(Recent)
    /\ acc.kind = "median" =>
         /\ 2 * Cardinality({i \in DOMAIN Recent : 2 * Recent[i] <= Median2}) >= Len(Recent)
         /\ 2 * Cardinality({i \in DOMAIN Recent : 2 * Recent[i] >= Median2}) >= Len(Recent)

\* Reference: the remainder of the message.
CrcIsRemainder ==
  /\ acc.kind = "crc8" /\ input # <<>> =>
       acc.crc = Remainder(Message([input EXCEPT ![1] = Xor(@, 0..7)]), 8 * Len(input) + 7)
  /\ acc.kind = "crc8Dallas" /\ input # <<>> =>
       acc.crc = Mirror(Remainder(Message([k \in DOMAIN input |-> Mirror(input[k], 8)]), 8 * Len(input) + 7), 8)

ReverseExact == acc.kind = "reverse" /\ input # <<>> => acc.x = Mirror(input[Len(input)], acc.width)
=============================================================================
