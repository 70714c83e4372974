---------------------------- MODULE MachineWords ----------------------------
(***************************************************************************)
(* Bits of a machine word (Common/crc.c and Common/bitops.c): a word is    *)
(* the set of the positions of its one bits.                               *)
(***************************************************************************)
EXTENDS Integers, Sequences

Xor(a, b) == (a \ b) \cup (b \ a)
Left(x, k, width) == {i + k : i \in x} \cap 0..(width - 1)
Right(x, k) == {i - k : i \in x} \cap Nat

\* One step of the bit loops: polynomials 0x31 and 0x8C.
ShiftLeft(crc) == Xor(Left(crc, 1, 8), IF 7 \in crc THEN {0, 4, 5} ELSE {})
ShiftRight(crc) == Xor(Right(crc, 1), IF 0 \in crc THEN {2, 3, 7} ELSE {})

Bits(crc, Op(_)) == LET f[n \in 0..8] == IF n = 0 THEN crc ELSE Op(f[n - 1]) IN f[8]

\* The mask of a step: positions whose block of k bits is an even one.
Even(k, width) == {i \in 0..(width - 1) : (i \div k) % 2 = 0}

Swap(x, k, width) ==
  (Right(x, k) \cap Even(k, width)) \cup Left(x \cap Even(k, width), k, width)

\* Mutant: the first swap is left out.
reverse_less(x, width) ==
  LET f[n \in 1..5] == IF n = 1 THEN x ELSE IF 2^n > width THEN f[n - 1] ELSE Swap(f[n - 1], 2^(n - 1), width)
  IN  f[5]

\* reverse_bits8, 16 and 32: neighbours, pairs, nibbles, bytes, halves.
reverse_bits(x, width) ==
  LET f[n \in 0..5] == IF n = 0 THEN x ELSE IF 2^n > width THEN f[n - 1] ELSE Swap(f[n - 1], 2^(n - 1), width)
  IN  f[5]

-----------------------------------------------------------------------------
\* References: the bits in the other order; the remainder of a polynomial, times x^8,
\* divided by x^8 + x^5 + x^4 + 1; the polynomial of a sequence of bytes, times x^8.
Mirror(x, width) == {width - 1 - i : i \in x}

Remainder(poly, degree) ==
  LET f[d \in 8..(degree + 1)] ==
        IF d = degree + 1 THEN poly ELSE LET p == f[d + 1] IN IF d \in p THEN Xor(p, {d, d - 3, d - 4, d - 8}) ELSE p
  IN  f[8]

Message(bytes) == UNION {{8 * (Len(bytes) - k + 1) + i : i \in bytes[k]} : k \in DOMAIN bytes}
=============================================================================
