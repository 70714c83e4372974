------------------------------- MODULE Stepper -------------------------------
(***************************************************************************)
(* The stepper motor driver of Common/stepper.c: a chain of tasks, each a  *)
(* ramp up, a run and a ramp down, carried out by two timer interrupts.    *)
(*                                                                         *)
(* The owner calls from one thread, and the interrupts come at any time,   *)
(* also within stepper_run and stepper_add_task: each of them is two steps *)
(* with the interrupts open in between.  The two interrupts do not nest.   *)
(* The owner keeps to what the code needs: a task structure starts zeroed  *)
(* and is added once, and not to a chain that has come to its end, which   *)
(* is not run again either.  The lengths of the ramps are inputs (the code *)
(* computes them from speed and acceleration); speeds and timer periods    *)
(* are left out.                                                           *)
(***************************************************************************)
EXTENDS Integers, Sequences, FiniteSets

CONSTANTS
  Task,       \* the task structures
  Null,
  Ramp,       \* lengths of ramps
  Steps,      \* the steps asked for
  StpMod      \* stp_t counts modulo this (65536)

ASSUME StepperAssumption ==
  /\ Null \notin Task
  /\ StpMod \in Nat \ {0}
  /\ Ramp \subseteq 1..(StpMod - 1)
  /\ Steps \subseteq 1..(StpMod - 1)

ASSUME FinitelyManyTasks == IsFiniteSet(Task)

\* enum state_t, in its order.
ACCL == 0
RUNN == 1
DECL == 2
IDLE == 3
STOP == 6

VARIABLES
  next_task,   \* dev->next_task
  pin,         \* dev->prev_state: the level of the step pin
  dirpin,      \* the direction last given to set_dir
  stop,        \* what the stop callback returns; FALSE without one
  state, acc, run, dec, dir, next,   \* the fields of the tasks
  call,        \* the owner's call between its two steps: the function, the
               \* task whose state it will write, and the state it has read
  steps,       \* history: the steps asked for when the task was accepted, or 0
  pulses,      \* history: the pulses made for the task
  started,     \* history: stepper_run was called for the chain
  early        \* history: a task was stepped, or made the current one at the
               \* end of another, while stepper_add_task was still at it

vars == <<next_task, pin, dirpin, stop, state, acc, run, dec, dir, next, call,
          steps, pulses, started, early>>
counters == <<acc, run, dec>>

Stp == 0..(StpMod - 1)
\* n-- of an unsigned number.
Minus1(n) == IF n = 0 THEN StpMod - 1 ELSE n - 1

TypeOK ==
  /\ next_task \in Task \cup {Null}
  /\ pin \in {0, 1} /\ dirpin \in {0, 1}
  /\ stop \in BOOLEAN /\ started \in BOOLEAN
  /\ state \in [Task -> {ACCL, RUNN, DECL, IDLE, STOP}]
  /\ acc \in [Task -> Stp] /\ run \in [Task -> Stp] /\ dec \in [Task -> Stp]
  /\ dir \in [Task -> {0, 1}]
  /\ next \in [Task -> Task \cup {Null}]
  /\ call \in [op : {"none", "add", "run"}, task : Task \cup {Null},
               read : {ACCL, RUNN, DECL, IDLE, STOP}]
  /\ early \in BOOLEAN
  /\ steps \in [Task -> Stp] /\ pulses \in [Task -> Nat]

\* The owner is in no call.
NoCall == [op |-> "none", task |-> Null, read |-> IDLE]

\* stepper_init, and zeroed task structures.
Init ==
  /\ next_task = Null
  /\ pin = 0 /\ dirpin = 0
  /\ stop = FALSE /\ started = FALSE
  /\ state = [t \in Task |-> ACCL]
  /\ acc = [t \in Task |-> 0]
  /\ run = [t \in Task |-> 0]
  /\ dec = [t \in Task |-> 0]
  /\ dir = [t \in Task |-> 0]
  /\ next = [t \in Task |-> Null]
  /\ call = NoCall
  /\ early = FALSE
  /\ steps = [t \in Task |-> 0]
  /\ pulses = [t \in Task |-> 0]

-----------------------------------------------------------------------------
\* The tasks from t on, along next.
From(t) ==
  LET chain[n \in 0..Cardinality(Task)] ==
        [x \in Task \cup {Null} |->
           IF x = Null \/ n = 0 THEN <<>> ELSE <<x>> \o chain[n - 1][next[x]]]
  IN chain[Cardinality(Task)][t]
Chain == From(next_task)
Last == Chain[Len(Chain)]

\* The last task has made its last step; its state is IDLE again.
ChainEnded == next_task # Null /\ state[next_task] = IDLE /\ pulses[next_task] > 0

\* Mutant: a task is linked behind the first one.
LinkSecond(t) ==
  IF next_task = Null THEN next_task' = t /\ UNCHANGED next
  ELSE next' = [next EXCEPT ![next_task] = t] /\ UNCHANGED next_task

\* The end of stepper_add_task's walk over the chain.
Link(t) ==
  IF next_task = Null THEN next_task' = t /\ UNCHANGED next
  ELSE next' = [next EXCEPT ![Last] = t] /\ UNCHANGED next_task

\* Mutant: the steps of the second ramp are not taken off.
RunStepsLong(a, d, n) == n - a

RunSteps(a, d, n) == n - a - d

\* Mutant: only one ramp is compared with the steps.
RampsTooLongHalf(a, d, n) == a >= n

\* The sum is taken in int and does not wrap.
RampsTooLong(a, d, n) == a + d >= n

\* stepper_add_task up to the link.  The writes to t before it touch nothing
\* the interrupts look at.  A task whose ramps are too long is refused, its
\* ramps are stored already.
stepper_add_task(t, a, d, n, direction) ==
  /\ call = NoCall
  /\ steps[t] = 0 /\ pulses[t] = 0 /\ t # next_task
  /\ ~ChainEnded
  /\ acc' = [acc EXCEPT ![t] = a]
  /\ dec' = [dec EXCEPT ![t] = d]
  /\ IF RampsTooLong(a, d, n)
       THEN UNCHANGED <<run, dir, next_task, next, call, steps>>
       ELSE /\ run' = [run EXCEPT ![t] = RunSteps(a, d, n)]
            /\ dir' = [dir EXCEPT ![t] = direction]
            /\ Link(t)
            /\ call' = [op |-> "add", task |-> t, read |-> state[t]]
            /\ steps' = [steps EXCEPT ![t] = n]
  /\ UNCHANGED <<pin, dirpin, stop, state, pulses, started, early>>

\* The end of stepper_add_task: task->state = STEPPER_IDLE, whatever it is now.
stepper_add_task_end ==
  /\ call.op = "add"
  /\ state' = [state EXCEPT ![call.task] = IDLE]
  /\ call' = NoCall
  /\ UNCHANGED <<next_task, pin, dirpin, stop, counters, dir, next, steps,
                 pulses, started, early>>

\* Mutant: a task is started whatever its state.
RunAlways(t, states) == TRUE

\* stepper_run goes on with task t, given the states of the tasks.
Runs(t, states) == states[t] = IDLE

\* stepper_run up to set_dir.
stepper_run ==
  /\ call = NoCall
  /\ next_task # Null
  /\ ~ChainEnded
  /\ IF Runs(next_task, state)
       THEN /\ call' = [op |-> "run", task |-> next_task, read |-> state[next_task]]
            /\ dirpin' = dir[next_task]
       ELSE UNCHANGED <<call, dirpin>>
  /\ started' = TRUE
  /\ UNCHANGED <<next_task, pin, stop, state, counters, dir, next, steps, pulses,
                 early>>

\* The end of stepper_run: task->state = STEPPER_ACCL, whatever it is now.
stepper_run_end ==
  /\ call.op = "run"
  /\ state' = [state EXCEPT ![call.task] = ACCL]
  /\ call' = NoCall
  /\ UNCHANGED <<next_task, pin, dirpin, stop, counters, dir, next, steps,
                 pulses, started, early>>

stepper_clean_tasks ==
  /\ call = NoCall
  /\ next_task' = Null
  /\ started' = FALSE
  /\ UNCHANGED <<pin, dirpin, stop, state, counters, dir, next, call, steps,
                 pulses, early>>

\* stepper_use_stop was called and the switch closes or opens.
Switch ==
  /\ stop' = ~stop
  /\ UNCHANGED <<next_task, pin, dirpin, state, counters, dir, next, call,
                 steps, pulses, started, early>>

-----------------------------------------------------------------------------
(***************************************************************************)
(* stepper_isr1: a level change of the step pin and, on a rising edge, one *)
(* step of the current task.                                               *)
(***************************************************************************)
Moving == next_task # Null /\ state[next_task] <= DECL

Fall ==
  /\ Moving /\ pin = 1
  /\ pin' = 0
  /\ UNCHANGED <<next_task, dirpin, stop, state, counters, dir, next, call,
                 steps, pulses, started>>

\* stepper_add_task has linked t and not yet set its state.
Adding(t) == call.op = "add" /\ call.task = t

Rise(t) ==
  /\ Moving /\ pin = 0 /\ t = next_task
  /\ pin' = 1
  /\ pulses' = [pulses EXCEPT ![t] = @ + 1]
  /\ UNCHANGED call

Accelerate(t) ==
  /\ Rise(t) /\ state[t] = ACCL
  /\ acc' = [acc EXCEPT ![t] = Minus1(@)]
  /\ state' = [state EXCEPT ![t] = IF acc'[t] = 0 THEN RUNN ELSE ACCL]
  /\ UNCHANGED <<next_task, dirpin, stop, run, dec, dir, next, steps, started>>

KeepSpeed(t) ==
  /\ Rise(t) /\ state[t] = RUNN
  /\ run' = [run EXCEPT ![t] = Minus1(@)]
  /\ state' = [state EXCEPT ![t] = IF run'[t] = 0 THEN DECL ELSE RUNN]
  /\ UNCHANGED <<next_task, dirpin, stop, acc, dec, dir, next, steps, started>>

\* Mutant: the next task is started without its direction.
DecelerateNoRun(t) ==
  /\ Rise(t) /\ state[t] = DECL
  /\ dec' = [dec EXCEPT ![t] = Minus1(@)]
  /\ IF dec'[t] # 0
       THEN UNCHANGED <<next_task, state>>
       ELSE IF next[t] # Null
       THEN next_task' = next[t] /\ state' = [state EXCEPT ![next[t]] = ACCL]
       ELSE state' = [state EXCEPT ![t] = IDLE] /\ UNCHANGED next_task
  /\ UNCHANGED <<dirpin, stop, acc, run, dir, next, steps, started>>

\* Mutant: the next task waits for the owner.
DecelerateWaits(t) ==
  /\ Rise(t) /\ state[t] = DECL
  /\ dec' = [dec EXCEPT ![t] = Minus1(@)]
  /\ IF dec'[t] # 0
       THEN UNCHANGED <<next_task, state>>
       ELSE IF next[t] # Null
       THEN next_task' = next[t] /\ UNCHANGED state
       ELSE state' = [state EXCEPT ![t] = IDLE] /\ UNCHANGED next_task
  /\ UNCHANGED <<dirpin, stop, acc, run, dir, next, steps, started>>

\* stepper_run, called by the interrupt for the task it has gone on to.
RunNext(t) ==
  /\ state' = IF Runs(t, state) THEN [state EXCEPT ![t] = ACCL] ELSE state
  /\ dirpin' = IF Runs(t, state) THEN dir[t] ELSE dirpin

\* The last step of a task goes on with the next one, or back to IDLE (the
\* state that follows DECL in the enumeration).
Decelerate(t) ==
  /\ Rise(t) /\ state[t] = DECL
  /\ dec' = [dec EXCEPT ![t] = Minus1(@)]
  /\ IF dec'[t] # 0
       THEN UNCHANGED <<next_task, state, dirpin>>
       ELSE IF next[t] # Null
       THEN next_task' = next[t] /\ RunNext(next[t])
       ELSE state' = [state EXCEPT ![t] = IDLE] /\ UNCHANGED <<next_task, dirpin>>
  /\ UNCHANGED <<stop, acc, run, dir, next, steps, started>>

stepper_isr1 ==
  /\ Fall \/ \E t \in Task : Accelerate(t) \/ KeepSpeed(t) \/ Decelerate(t)
  /\ early' = (early \/ (pulses' # pulses /\ (Adding(next_task) \/ Adding(next_task'))))

\* The part of stepper_isr2 that the chain depends on: the stop switch.
stepper_isr2 ==
  /\ next_task # Null /\ stop
  /\ state' = [state EXCEPT ![next_task] = STOP]
  /\ UNCHANGED <<next_task, pin, dirpin, stop, counters, dir, next, call, steps,
                 pulses, started, early>>

-----------------------------------------------------------------------------
Next ==
  \/ \E t \in Task, a, d \in Ramp, n \in Steps, direction \in {0, 1} :
       stepper_add_task(t, a, d, n, direction)
  \/ stepper_add_task_end
  \/ stepper_run
  \/ stepper_run_end
  \/ stepper_clean_tasks
  \/ Switch
  \/ stepper_isr1
  \/ stepper_isr2

Spec == Init /\ [][Next]_vars

\* Both timers keep interrupting.
FairSpec == Spec /\ WF_vars(stepper_isr1) /\ WF_vars(stepper_isr2)

-----------------------------------------------------------------------------
(***************************************************************************)
(* Properties.                                                             *)
(***************************************************************************)

\* The task has been carried out: the chain went on, or ended with it.
Done(t) == steps[t] > 0 /\ state[t] <= IDLE /\ acc[t] = 0 /\ run[t] = 0 /\ dec[t] = 0

\* The motor makes exactly the steps that were asked for: never more, and a
\* task that is left behind, or at whose end the motor stands, has made all.
\* Exception (early): stepper_isr1 took a task before stepper_add_task had set
\* its state, which is that of a task under way in a zeroed structure.
ExactSteps ==
  ~early =>
    \A t \in Task :
      steps[t] > 0 =>
        /\ pulses[t] <= steps[t]
        /\ Done(t) => pulses[t] = steps[t]
        /\ t = next_task /\ ChainEnded => pulses[t] = steps[t]

\* A step is made only in the direction of its task, after stepper_run was
\* called for the chain, and tasks further down the chain have not begun.
\* Exception (early): as in ExactSteps.
StepsInTurn ==
  [][pulses' # pulses /\ ~early' =>
       /\ started
       /\ dirpin = dir[next_task]
       /\ pulses' = [pulses EXCEPT ![next_task] = @ + 1]
       /\ \A i \in 2..Len(Chain) : pulses[Chain[i]] = 0]_vars

\* Once stepper_isr2 has seen the stop switch, no step is made and the task
\* stays in STOP until the owner cleans the tasks, also when the switch opens
\* again.  Exception: a stepper_run or stepper_add_task of the same task that
\* was under way, and had not read STOP, overwrites it with its last write.
StopHolds ==
  [][next_task # Null /\ state[next_task] = STOP =>
       /\ pulses' = pulses
       /\ \/ next_task' = Null
          \/ state'[next_task'] = STOP
          \/ call.task = next_task /\ call.read # STOP /\ call' = NoCall]_vars

\* "avoid mechanical impact": the same without exception for a chain that
\* stepper_run was called for.
StopKept ==
  [][started /\ next_task # Null /\ state[next_task] = STOP =>
       pulses' = pulses /\ (next_task' = Null \/ state'[next_task'] = STOP)]_vars

\* A chain that was started comes to its end, unless the owner cleans it or the
\* stop switch closes.  Exception (early): as in ExactSteps.
ChainFinishes ==
  (started /\ Moving) ~>
    (ChainEnded \/ next_task = Null \/ state[next_task] = STOP \/ early)

-----------------------------------------------------------------------------
(***************************************************************************)
(* The inductive invariant behind ExactSteps.                              *)
(***************************************************************************)
Ready(t) == acc[t] > 0 /\ run[t] > 0 /\ dec[t] > 0
Spent(t) == acc[t] = 0 /\ run[t] = 0 /\ dec[t] = 0

\* Accepted, not begun, and not yet the current task.
Waiting(t) ==
  /\ steps[t] > 0 /\ t # next_task /\ pulses[t] = 0 /\ Ready(t)
  /\ state[t] = IDLE \/ Adding(t)

\* What a task has still to do and what it has done is what was asked for.
StepBudget ==
  \A t \in Task : steps[t] > 0 => acc[t] + run[t] + dec[t] + pulses[t] = steps[t]

\* The counters that the current state counts down, and those of the states
\* that follow, are not 0; a task that went on to the next one is spent.
PhaseCounters ==
  \A t \in Task :
    steps[t] > 0 =>
      /\ state[t] = ACCL => Ready(t)
      /\ state[t] = RUNN => acc[t] = 0 /\ run[t] > 0 /\ dec[t] > 0
      /\ state[t] = DECL => acc[t] = 0 /\ run[t] = 0
      /\ state[t] = DECL /\ t = next_task => dec[t] > 0
      /\ state[t] = IDLE => Spent(t) \/ (pulses[t] = 0 /\ Ready(t))

\* A task that has not gone on has a fresh successor, and nobody else has it.
FreshSuccessors ==
  /\ \A t \in Task : next[t] # Null => steps[next[t]] > 0
  /\ \A t, u \in Task : next[t] = next[u] /\ next[t] # Null => t = u
  /\ \A t \in Task :
       (steps[t] = 0 \/ ~Spent(t)) /\ next[t] # Null => Waiting(next[t])

\* A structure that was not accepted is zeroed, but for its ramps, and not current.
Unlinked ==
  /\ \A t \in Task : steps[t] = 0 => pulses[t] = 0 /\ state[t] = ACCL
  /\ next_task # Null => steps[next_task] > 0

\* The task of a call under way is accepted and has not begun; that of
\* stepper_run is the current one, which nobody but stepper_isr2 touches.
CallPending ==
  call.op # "none" =>
    LET t == call.task IN
    /\ t \in Task /\ steps[t] > 0 /\ pulses[t] = 0 /\ Ready(t)
    /\ call.op = "run" => t = next_task /\ state[t] \in {IDLE, STOP}

Orderly == StepBudget /\ PhaseCounters /\ FreshSuccessors /\ Unlinked /\ CallPending

IInv == TypeOK /\ (~early => Orderly)

\* With StepsInTurn: the motor moves only in a chain that was started, and in
\* the direction of its current task, unless that is still being added.
RightWay ==
  /\ next_task # Null /\ state[next_task] <= DECL /\ ~Adding(next_task) =>
       started /\ dirpin = dir[next_task]
  /\ call.op = "run" => started /\ dirpin = dir[next_task]
=============================================================================
