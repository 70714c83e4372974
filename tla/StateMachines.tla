---------------------------- MODULE StateMachines ---------------------------
(***************************************************************************)
(* The state machines of Common/state_machine.c and .cpp.  One step runs   *)
(* the enter, work and exit callbacks of the current state; what each of   *)
(* them returns is arbitrary: stay, a state, and in C++ also a hash that   *)
(* belongs to no state.                                                    *)
(***************************************************************************)
EXTENDS Naturals, Sequences

CONSTANTS
  States,   \* machine states
  First,    \* the state a machine starts in
  Stay,     \* a callback's 0
  Unknown   \* a hash no state has

VARIABLES
  machine,  \* lang; has: the C table's callbacks; cur; entered: enter() is done
  history   \* inside: states entered and not left; missed: exits of a C++ state
            \* whose successor was not found; outside: work() or exit() ran for a
            \* state that was not inside

vars == <<machine, history>>

Parameters == First \in States /\ {Stay, Unknown} \cap States = {}

Callbacks == {"enter", "work", "exit"}
has(s, callback) == machine.lang = "cpp" \/ callback \in machine.has[s]

Init ==
  /\ machine \in [lang : {"c"}, has : [States -> SUBSET Callbacks], cur : {First}, entered : {FALSE}]
                 \cup [lang : {"cpp"}, has : {<<>>}, cur : {First}, entered : {FALSE}]
  /\ history = [inside |-> {}, missed |-> FALSE, outside |-> FALSE]

\* The history after a step that called enter(), then work(), then exit() of s
\* and is done with s.
Record(s, enters, works, exits, done, failed) ==
  LET during == IF enters \/ ~has(s, "enter") THEN history.inside \cup {s} ELSE history.inside
  IN  [inside |-> IF done THEN during \ {s} ELSE during,
       missed |-> history.missed \/ failed,
       outside |-> history.outside \/ (s \notin during /\ (works \/ exits))]

\* Mutant: a state that enter() redirects away from is not left.
LeavesAfterWork(redirect, moves) == moves

\* When state_machine_do_step calls exit().
Leaves(redirect, moves) == redirect \/ moves

state_machine_do_step(enter, work, exit) ==
  LET s == machine.cur
      enters == has(s, "enter") /\ ~machine.entered
      redirect == enters /\ enter # Stay
      works == ~redirect /\ has(s, "work")
      moves == works /\ work # Stay
      exits == has(s, "exit") /\ Leaves(redirect, moves)
      next == IF exits /\ exit # Stay THEN exit ELSE IF redirect THEN enter ELSE work
  IN  /\ machine.lang = "c"
      /\ {enter, work, exit} \subseteq States \cup {Stay}
      /\ machine' = [machine EXCEPT !.cur = IF redirect \/ moves THEN next ELSE @,
                                    !.entered = ~(redirect \/ moves) /\ (@ \/ enters)]
      /\ history' = Record(s, enters, works, exits, exits \/ (moves /\ ~has(s, "exit")), FALSE)

\* Mutant: mode_change_n_ stays false after a transition.
EnteredForever(redirect, changed) == ~redirect

\* ~mode_change_n_ after a step.
Entered(redirect, changed) == ~redirect /\ ~changed

\* The exit at the end of DoStep is left out: it needs mode_change_n_, which is
\* false there.
DoStep(enter, work, exit) ==
  LET s == machine.cur
      enters == ~machine.entered
      redirect == enters /\ enter # Stay
      moves == ~redirect /\ work # Stay
      exits == moves /\ work # Unknown
      next == IF redirect THEN enter ELSE IF exits /\ exit # Stay THEN exit ELSE work
      changed == exits /\ next # Unknown
  IN  /\ machine.lang = "cpp"
      /\ machine' = [machine EXCEPT !.cur = IF (redirect \/ moves) /\ next # Unknown THEN next ELSE @,
                                    !.entered = Entered(redirect, changed)]
      /\ history' = Record(s, enters, ~redirect, exits, exits, exits /\ ~changed)

Next ==
  \E enter, work, exit \in States \cup {Stay, Unknown} :
    \/ state_machine_do_step(enter, work, exit)
    \/ DoStep(enter, work, exit)

-----------------------------------------------------------------------------
TypeOK == machine.cur \in States /\ machine.entered \in BOOLEAN /\ history.inside \subseteq States

InsideCurrent ==
  machine.lang = "c" =>
    {s \in history.inside : has(s, "enter") /\ has(s, "exit")} \subseteq IF machine.entered THEN {machine.cur} ELSE {}

WorksInside == history.outside => machine.lang = "cpp" /\ history.missed
=============================================================================
