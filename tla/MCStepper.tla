------------------------------ MODULE MCStepper ------------------------------
(* Stepper instantiated for TLC. *)
EXTENDS Stepper

MCTask == 1..3

\* Task structures are interchangeable, so it is enough to look at the behaviours in
\* which they are accepted in their order.  Nothing but accepting is held back.
InOrder == \A t \in Task : steps'[t] > 0 => \A u \in 1..(t - 1) : steps'[u] > 0

OrderedSpec == Init /\ [][Next /\ InOrder]_vars /\ WF_vars(stepper_isr1) /\ WF_vars(stepper_isr2)
=============================================================================
