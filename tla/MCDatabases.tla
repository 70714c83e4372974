----------------------------- MODULE MCDatabases -----------------------------
(* Databases instantiated for TLC. *)
EXTENDS Databases, TLC

\* Values of one, two and no cells; the cells look like hashes and sizes.
One == {<<1>>, <<2>>}
Two == {<<1, 2>>, <<2, 0>>}
MCHashValue == One \cup Two \cup {<<>>}

\* Every key has values of one size: T of Write<T> never changes for a name.
FixedSize == (1 :> One) @@ (2 :> Two) @@ (3 :> {<<>>})
\* Values of any size under every key.
AnySize == [k \in {1, 2, 3} |-> MCHashValue]

\* No data, and bytes that look like a tag's end.
MCData == {<<>>, <<2, 0>>}
=============================================================================
