------------------------------- MODULE MCPlBus -------------------------------
(* PlBus instantiated for TLC. *)
EXTENDS PlBus

\* Payloads: none, and two bytes of which one looks like a token.
MCPayload == {<<>>, <<TOKEN, 2>>}
ShortPayload == {<<>>, <<1, 2>>}
=============================================================================
