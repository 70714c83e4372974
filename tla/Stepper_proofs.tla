--------------------------- MODULE Stepper_proofs ----------------------------
(***************************************************************************)
(* Proofs that the stepper driver makes exactly the steps asked for, and   *)
(* none once it was stopped, for every number of tasks, every length and   *)
(* every width of the counters.                                            *)
(***************************************************************************)
EXTENDS Stepper, Arithmetic, FiniteSetTheorems, TLAPS

\* Zeroed structures and an empty list satisfy the invariant.
LEMMA InitInv == Init => IInv
<1> SUFFICES ASSUME Init PROVE IInv
  OBVIOUS
<1> USE StepperAssumption DEF Init
<1>1. TypeOK
  <2>1. stop \in BOOLEAN /\ started \in BOOLEAN /\ early \in BOOLEAN
    OBVIOUS
  <2>2. 0 \in Stp /\ 0 \in Nat /\ 0 \in {ACCL, RUNN, DECL, IDLE, STOP}
    BY DEF Stp, ACCL
  <2>3. call \in [op : {"none", "add", "run"}, task : Task \cup {Null},
                  read : {ACCL, RUNN, DECL, IDLE, STOP}]
    BY DEF NoCall
  <2> QED
    BY <2>1, <2>2, <2>3 DEF TypeOK, ACCL
<1>2. StepBudget /\ PhaseCounters
  BY DEF StepBudget, PhaseCounters
<1>3. FreshSuccessors /\ Unlinked
  BY DEF FreshSuccessors, Unlinked
<1>4. CallPending
  BY DEF CallPending, NoCall
<1> QED
  BY <1>1, <1>2, <1>3, <1>4 DEF IInv, Orderly

\* An accepted task has steps for its ramps and at least one between them.
LEMMA AcceptedTask ==
  ASSUME NEW a \in Ramp, NEW d \in Ramp, NEW n \in Steps, ~RampsTooLong(a, d, n)
  PROVE  /\ a \in Stp /\ d \in Stp /\ n \in Stp /\ RunSteps(a, d, n) \in Stp
         /\ a > 0 /\ d > 0 /\ RunSteps(a, d, n) > 0
         /\ a + RunSteps(a, d, n) + d = n
BY StepperAssumption DEF RampsTooLong, RunSteps, Stp

\* A counter that is not 0 does not wrap.
LEMMA Minus1Exact ==
  ASSUME NEW n \in Stp, n > 0 PROVE Minus1(n) = n - 1 /\ n - 1 \in Stp
BY StepperAssumption DEF Minus1, Stp

\* And a counter of 0 stays within its width.
LEMMA Minus1Typed == ASSUME NEW n \in Stp PROVE Minus1(n) \in Stp
BY StepperAssumption DEF Minus1, Stp

\* Every step keeps the types, also after a task was taken too early.
LEMMA TypeStep == TypeOK /\ [Next]_vars => TypeOK'
<1> SUFFICES ASSUME TypeOK, [Next]_vars PROVE TypeOK'
  OBVIOUS
<1> USE StepperAssumption DEF counters
<1> DEFINE St == {ACCL, RUNN, DECL, IDLE, STOP}
           Calls == [op : {"none", "add", "run"}, task : Task \cup {Null}, read : St]
<1>0. NoCall \in Calls
  BY DEF NoCall
<1>1. ASSUME NEW t \in Task, NEW a \in Ramp, NEW d \in Ramp, NEW n \in Steps,
             NEW direction \in {0, 1}, stepper_add_task(t, a, d, n, direction)
      PROVE  TypeOK'
  <2>1. a \in Stp /\ d \in Stp /\ n \in Stp
    BY DEF Stp
  <2>2. CASE RampsTooLong(a, d, n)
    BY <1>1, <2>1, <2>2 DEF stepper_add_task, TypeOK
  <2>3. CASE ~RampsTooLong(a, d, n)
    <3>1. RunSteps(a, d, n) \in Stp
      BY <2>3, AcceptedTask
    <3>2. next_task' \in Task \cup {Null} /\ next' \in [Task -> Task \cup {Null}]
      BY <1>1, <2>3 DEF stepper_add_task, Link, TypeOK
    <3>3. call' \in Calls
      <4>1. call' = [op |-> "add", task |-> t, read |-> state[t]] /\ state[t] \in St
        BY <1>1, <2>3 DEF stepper_add_task, TypeOK
      <4> QED
        BY <4>1
    <3>4. /\ acc' = [acc EXCEPT ![t] = a] /\ dec' = [dec EXCEPT ![t] = d]
          /\ run' = [run EXCEPT ![t] = RunSteps(a, d, n)]
          /\ dir' = [dir EXCEPT ![t] = direction]
          /\ steps' = [steps EXCEPT ![t] = n]
          /\ UNCHANGED <<pin, dirpin, stop, state, pulses, started, early>>
      BY <1>1, <2>3 DEF stepper_add_task
    <3>5. /\ acc' \in [Task -> Stp] /\ run' \in [Task -> Stp] /\ dec' \in [Task -> Stp]
          /\ steps' \in [Task -> Stp] /\ dir' \in [Task -> {0, 1}]
      BY <2>1, <3>1, <3>4 DEF TypeOK
    <3> QED
      BY <3>2, <3>3, <3>4, <3>5 DEF TypeOK
  <2> QED
    BY <2>2, <2>3
<1>2. CASE stepper_add_task_end
  BY <1>0, <1>2 DEF stepper_add_task_end, TypeOK
<1>3. CASE stepper_run
  <2>1. next_task \in Task /\ state[next_task] \in St
    BY <1>3 DEF stepper_run, TypeOK
  <2>2. call' \in Calls
    BY <1>3, <2>1 DEF stepper_run, TypeOK
  <2>3. dirpin' \in {0, 1}
    BY <1>3, <2>1 DEF stepper_run, TypeOK
  <2> QED
    BY <1>3, <2>2, <2>3 DEF stepper_run, TypeOK
<1>4. CASE stepper_run_end
  BY <1>0, <1>4 DEF stepper_run_end, TypeOK
<1>5. CASE stepper_clean_tasks
  BY <1>5 DEF stepper_clean_tasks, TypeOK
<1>6. CASE Switch
  BY <1>6 DEF Switch, TypeOK
<1>7. CASE stepper_isr1
  <2>1. early' \in BOOLEAN
    BY <1>7 DEF stepper_isr1, TypeOK
  <2>2. CASE Fall
    BY <2>1, <2>2 DEF Fall, TypeOK
  <2>3. ASSUME NEW t \in Task, Accelerate(t) PROVE TypeOK'
    BY <2>1, <2>3, Minus1Typed DEF Accelerate, Rise, TypeOK
  <2>4. ASSUME NEW t \in Task, KeepSpeed(t) PROVE TypeOK'
    BY <2>1, <2>4, Minus1Typed DEF KeepSpeed, Rise, TypeOK
  <2>5. ASSUME NEW t \in Task, Decelerate(t) PROVE TypeOK'
    <3>1. dec' \in [Task -> Stp]
      BY <2>5, Minus1Typed DEF Decelerate, TypeOK
    <3>2. /\ next_task' \in Task \cup {Null}
          /\ state' \in [Task -> St]
          /\ dirpin' \in {0, 1}
      BY <2>5 DEF Decelerate, RunNext, TypeOK
    <3>3. pin' \in {0, 1} /\ pulses' \in [Task -> Nat] /\ call' = call
      BY <2>5 DEF Decelerate, Rise, TypeOK
    <3> QED
      BY <2>1, <2>5, <3>1, <3>2, <3>3 DEF Decelerate, TypeOK
  <2> QED
    BY <1>7, <2>2, <2>3, <2>4, <2>5 DEF stepper_isr1
<1>8. CASE stepper_isr2
  BY <1>8 DEF stepper_isr2, TypeOK
<1>9. CASE UNCHANGED vars
  BY <1>9 DEF vars, TypeOK
<1> QED
  BY <1>1, <1>2, <1>3, <1>4, <1>5, <1>6, <1>7, <1>8, <1>9 DEF Next

\* Adding a task, accepted or refused, preserves the order of the tasks.
LEMMA AddStep ==
  ASSUME TypeOK, TypeOK', Orderly, NEW t \in Task, NEW a \in Ramp, NEW d \in Ramp,
         NEW n \in Steps, NEW direction \in {0, 1},
         stepper_add_task(t, a, d, n, direction)
  PROVE  Orderly'
<1> USE StepperAssumption DEF Orderly, stepper_add_task
<1>0. call.op = "none" /\ \A u : ~Adding(u)
  BY DEF NoCall, Adding
<1>1. CASE RampsTooLong(a, d, n)
  <2>1. StepBudget' /\ PhaseCounters' /\ Unlinked'
    BY <1>1 DEF TypeOK, StepBudget, PhaseCounters, Unlinked, Ready, Spent
  <2>2. CallPending'
    BY <1>0, <1>1 DEF CallPending
  <2>3. \A u \in Task : Waiting(u) => Waiting(u)'
    BY <1>0, <1>1 DEF Waiting, Ready, TypeOK, Adding
  <2>4. FreshSuccessors'
    BY <1>1, <2>3 DEF TypeOK, FreshSuccessors, Spent
  <2> QED
    BY <2>1, <2>2, <2>4
<1>2. CASE ~RampsTooLong(a, d, n)
  <2> DEFINE r == RunSteps(a, d, n)
  <2>1. /\ a \in Stp /\ d \in Stp /\ n \in Stp /\ r \in Stp
        /\ a > 0 /\ d > 0 /\ r > 0 /\ a + r + d = n
    BY <1>2, AcceptedTask
  <2>2. /\ run' = [run EXCEPT ![t] = r]
        /\ steps' = [steps EXCEPT ![t] = n]
        /\ dir' = [dir EXCEPT ![t] = direction]
        /\ call' = [op |-> "add", task |-> t, read |-> state[t]]
        /\ Link(t)
    BY <1>2
  <2> HIDE DEF r
  <2>3. \/ next_task = Null /\ next_task' = t /\ next' = next
        \/ /\ next_task # Null /\ next_task' = next_task
           /\ next' = [next EXCEPT ![Last] = t]
    BY <2>2 DEF Link
  <2>4. Adding(t)' /\ Ready(t)'
    BY <2>1, <2>2 DEF Adding, Ready, TypeOK, Stp
  <2>5. StepBudget'
    <3>1. acc'[t] + run'[t] + dec'[t] + pulses'[t] = steps'[t]
      BY <2>1, <2>2 DEF TypeOK, Stp
    <3>2. \A u \in Task \ {t} : /\ acc'[u] = acc[u] /\ run'[u] = run[u]
                               /\ dec'[u] = dec[u] /\ pulses'[u] = pulses[u]
                               /\ steps'[u] = steps[u]
      BY <2>2 DEF TypeOK
    <3> QED
      BY <3>1, <3>2 DEF StepBudget
  <2>6. PhaseCounters'
    <3>1. \A u \in Task \ {t} :
            /\ steps'[u] = steps[u] /\ state'[u] = state[u] /\ pulses'[u] = pulses[u]
            /\ acc'[u] = acc[u] /\ run'[u] = run[u] /\ dec'[u] = dec[u]
            /\ u = next_task' => u = next_task
      BY <2>2, <2>3 DEF TypeOK
    <3>2. state'[t] = ACCL
      BY DEF Unlinked, TypeOK
    <3> QED
      BY <2>4, <3>1, <3>2
         DEF PhaseCounters, Ready, Spent, ACCL, RUNN, DECL, IDLE
  <2>7. FreshSuccessors'
    <3>1. steps'[t] > 0 /\ pulses'[t] = 0
      BY <2>1, <2>2 DEF TypeOK, Stp
    <3>2. next_task # Null => Waiting(t)'
      BY <2>3, <2>4, <3>1 DEF Waiting
    <3>3. \A u \in Task : Waiting(u) => u # t /\ Waiting(u)'
      BY <1>0, <2>1, <2>2, <2>3 DEF Waiting, Ready, TypeOK, Adding
    <3>4. \A u \in Task \ {t} : Spent(u)' <=> Spent(u)
      BY <2>2 DEF Spent, TypeOK
    <3>5. \A u \in Task : next[u] # t
      BY DEF FreshSuccessors, TypeOK
    <3>6. \A u \in Task : steps[u] > 0 => steps'[u] > 0
      BY <2>1, <2>2, <3>1 DEF TypeOK
    <3>7. ASSUME NEW u \in Task, next'[u] # Null
          PROVE  \/ next'[u] = next[u]
                 \/ u = Last /\ next'[u] = t /\ next_task # Null
      BY <2>3, <3>7 DEF TypeOK
    <3>8. ASSUME NEW u \in Task, (steps[u] = 0 \/ ~Spent(u))', next'[u] # Null
          PROVE  Waiting(next[u])' \/ next'[u] = t
      BY <3>3, <3>4, <3>7, <3>8, <2>2 DEF FreshSuccessors, TypeOK
    <3> QED
      BY <2>3, <3>1, <3>2, <3>3, <3>5, <3>6, <3>7, <3>8 DEF FreshSuccessors, TypeOK
  <2>8. Unlinked'
    BY <2>1, <2>2, <2>3 DEF TypeOK, Unlinked, Stp
  <2>9. CallPending'
    BY <2>1, <2>2, <2>4 DEF CallPending, TypeOK, Stp
  <2> QED
    BY <2>5, <2>6, <2>7, <2>8, <2>9
<1> QED
  BY <1>1, <1>2

\* The last write of stepper_add_task makes its task wait to be started.
LEMMA AddEndStep ==
  ASSUME TypeOK, TypeOK', Orderly, stepper_add_task_end PROVE Orderly'
<1> USE StepperAssumption DEF Orderly, stepper_add_task_end, counters
<1> DEFINE t == call.task
<1>1. t \in Task /\ steps[t] > 0 /\ pulses[t] = 0 /\ Ready(t) /\ Adding(t)
  BY DEF CallPending, Adding
<1>2. state' = [state EXCEPT ![t] = IDLE] /\ call' = NoCall
  OBVIOUS
<1> HIDE DEF t
<1>3. StepBudget' /\ CallPending'
  BY <1>2 DEF StepBudget, CallPending, NoCall
<1>4. Unlinked'
  BY <1>1, <1>2 DEF Unlinked, TypeOK, Stp
<1>5. PhaseCounters'
  BY <1>1, <1>2 DEF PhaseCounters, Ready, Spent, TypeOK, Stp, ACCL, RUNN, DECL, IDLE
<1>6. \A u \in Task : Waiting(u) => Waiting(u)'
  BY <1>1, <1>2 DEF Waiting, Ready, TypeOK, Adding, t
<1>7. FreshSuccessors'
  BY <1>6 DEF FreshSuccessors, Spent, TypeOK
<1> QED
  BY <1>3, <1>4, <1>5, <1>7

\* stepper_run picks a task only if nothing was done of it.
LEMMA RunStep ==
  ASSUME TypeOK, TypeOK', Orderly, stepper_run PROVE Orderly'
<1> USE StepperAssumption DEF Orderly, stepper_run, counters
<1>1. next_task \in Task /\ steps[next_task] > 0
  BY DEF TypeOK, Unlinked
<1>2. state[next_task] = IDLE => pulses[next_task] = 0 /\ Ready(next_task)
  <2>1. SUFFICES ASSUME state[next_task] = IDLE
                 PROVE  pulses[next_task] = 0 /\ Ready(next_task)
    OBVIOUS
  <2>2. pulses[next_task] = 0
    BY <1>1, <2>1 DEF ChainEnded, TypeOK
  <2>3. ~Spent(next_task)
    BY <1>1, <2>2 DEF StepBudget, Spent, TypeOK, Stp
  <2> QED
    BY <1>1, <2>1, <2>2, <2>3 DEF PhaseCounters
<1>3. StepBudget' /\ PhaseCounters' /\ Unlinked'
  BY DEF StepBudget, PhaseCounters, Unlinked, Ready, Spent
<1>4. CallPending'
  <2>1. CASE state[next_task] = IDLE
    <3>1. call'.task = next_task /\ call'.op = "run"
      BY <2>1 DEF Runs
    <3> QED
      BY <1>1, <1>2, <2>1, <3>1 DEF CallPending, Ready
  <2>2. CASE state[next_task] # IDLE
    BY <2>2 DEF Runs, CallPending, NoCall
  <2> QED
    BY <2>1, <2>2
<1>5. \A u \in Task : Waiting(u) => Waiting(u)'
  BY DEF Waiting, Ready, Adding, NoCall
<1>6. FreshSuccessors'
  BY <1>5 DEF TypeOK, FreshSuccessors, Spent
<1> QED
  BY <1>3, <1>4, <1>6

\* The last write of stepper_run starts the task it picked.
LEMMA RunEndStep ==
  ASSUME TypeOK, TypeOK', Orderly, stepper_run_end PROVE Orderly'
<1> USE StepperAssumption DEF Orderly, stepper_run_end, counters
<1> DEFINE t == call.task
<1>1. t \in Task /\ t = next_task /\ steps[t] > 0 /\ pulses[t] = 0 /\ Ready(t)
  BY DEF CallPending
<1>2. state' = [state EXCEPT ![t] = ACCL] /\ call' = NoCall
  OBVIOUS
<1> HIDE DEF t
<1>3. StepBudget' /\ CallPending'
  BY <1>2 DEF StepBudget, CallPending, NoCall
<1>4. Unlinked'
  BY <1>1, <1>2 DEF Unlinked, TypeOK, Stp
<1>5. PhaseCounters'
  BY <1>1, <1>2 DEF PhaseCounters, Ready, Spent, TypeOK, Stp, ACCL, RUNN, DECL, IDLE
<1>6. \A u \in Task : Waiting(u) => Waiting(u)'
  BY <1>1, <1>2 DEF Waiting, Ready, TypeOK, Adding
<1>7. FreshSuccessors'
  BY <1>6 DEF FreshSuccessors, Spent, TypeOK
<1> QED
  BY <1>3, <1>4, <1>5, <1>7

\* Cleaning, the switch and a falling edge leave the tasks as they are.
LEMMA QuietStep ==
  ASSUME TypeOK, TypeOK', Orderly,
         stepper_clean_tasks \/ Switch \/ (Fall /\ call' = call)
  PROVE  Orderly'
<1> USE StepperAssumption DEF Orderly, stepper_clean_tasks, Switch, Fall, counters
<1>1. /\ UNCHANGED <<state, acc, run, dec, next, steps, pulses, call>>
      /\ next_task' = next_task \/ (next_task' = Null /\ call = NoCall)
  OBVIOUS
<1>2. StepBudget' /\ PhaseCounters' /\ FreshSuccessors' /\ Unlinked'
  BY <1>1 DEF StepBudget, PhaseCounters, FreshSuccessors, Unlinked, Waiting, Ready,
     Spent, Adding, TypeOK
<1>3. CallPending'
  BY <1>1 DEF CallPending, Ready, NoCall
<1> QED
  BY <1>2, <1>3

\* The stop switch changes the state of the current task only.
LEMMA StopStep ==
  ASSUME TypeOK, TypeOK', Orderly, stepper_isr2 PROVE Orderly'
<1> USE StepperAssumption DEF Orderly, stepper_isr2, counters
<1>1. next_task \in Task /\ steps[next_task] > 0
  BY DEF TypeOK, Unlinked
<1>2. StepBudget' /\ PhaseCounters'
  BY DEF StepBudget, PhaseCounters, Ready, Spent, TypeOK, ACCL, RUNN, DECL, IDLE, STOP
<1>3. \A u \in Task : Waiting(u) => Waiting(u)'
  BY DEF Waiting, Ready, Adding, TypeOK
<1>4. FreshSuccessors'
  BY <1>3 DEF FreshSuccessors, Spent, TypeOK
<1>5. Unlinked'
  BY <1>1 DEF Unlinked, TypeOK, Stp
<1>6. CallPending'
  BY <1>1 DEF CallPending, Ready, TypeOK, STOP
<1> QED
  BY <1>2, <1>4, <1>5, <1>6

\* Outside stepper_add_task, the current task that moves has been accepted, and
\* no call is under way for it.
LEMMA CurrentTask ==
  ASSUME TypeOK, Orderly, NEW t \in Task, Rise(t), ~Adding(t)
  PROVE  /\ t = next_task /\ steps[t] > 0
         /\ call.op # "none" => call.task # t
BY DEF Rise, Moving, Orderly, Unlinked, CallPending, Adding, TypeOK, DECL, IDLE, STOP

\* A step while accelerating or at full speed.
LEMMA RampStep ==
  ASSUME TypeOK, TypeOK', Orderly, NEW t \in Task, Accelerate(t) \/ KeepSpeed(t),
         ~Adding(t)
  PROVE  Orderly'
<1> USE StepperAssumption DEF Orderly
<1>0. /\ t = next_task /\ steps[t] > 0
      /\ call.op # "none" => call.task # t
  BY CurrentTask DEF Accelerate, KeepSpeed
<1>a. ASSUME NEW s \in {RUNN, DECL, ACCL},
             \/ UNCHANGED <<run, dec>> /\ \A u \in Task \ {t} : acc'[u] = acc[u]
             \/ UNCHANGED <<acc, dec>> /\ \A u \in Task \ {t} : run'[u] = run[u],
             state' = [state EXCEPT ![t] = s],
             pulses' = [pulses EXCEPT ![t] = @ + 1],
             UNCHANGED <<next_task, next, steps, call>>,
             dec[t] > 0
      PROVE  FreshSuccessors' /\ CallPending' /\ Unlinked'
  <2>1. \A u \in Task \ {t} : /\ acc'[u] = acc[u] /\ run'[u] = run[u] /\ dec'[u] = dec[u]
                              /\ state'[u] = state[u] /\ pulses'[u] = pulses[u]
    BY <1>a DEF TypeOK
  <2>2. \A u \in Task : Waiting(u) => Waiting(u)'
    BY <1>0, <1>a, <2>1 DEF Waiting, Ready, Adding
  <2>3. \A u \in Task \ {t} : Spent(u)' <=> Spent(u)
    BY <2>1 DEF Spent
  <2>4. ~Spent(t) /\ ~Spent(t)'
    BY <1>a DEF Spent, TypeOK, Stp
  <2>5. FreshSuccessors'
    BY <1>a, <2>2, <2>3, <2>4 DEF FreshSuccessors, TypeOK
  <2>6. CallPending'
    BY <1>0, <1>a, <2>1 DEF CallPending, Ready
  <2>7. Unlinked'
    BY <1>0, <1>a, <2>1 DEF Unlinked, TypeOK, Stp
  <2> QED
    BY <2>5, <2>6, <2>7
<1>2. CASE Accelerate(t)
  <2>1. acc[t] > 0 /\ run[t] > 0 /\ dec[t] > 0
    BY <1>0, <1>2 DEF Accelerate, PhaseCounters, Ready
  <2>2. /\ acc' = [acc EXCEPT ![t] = @ - 1]
        /\ state' = [state EXCEPT ![t] = IF acc'[t] = 0 THEN RUNN ELSE ACCL]
    <3>1. Minus1(acc[t]) = acc[t] - 1
      BY <2>1, Minus1Exact DEF TypeOK
    <3> QED
      BY <1>2, <3>1 DEF Accelerate
  <2>3. /\ pulses' = [pulses EXCEPT ![t] = @ + 1]
        /\ UNCHANGED <<next_task, run, dec, next, steps, call>>
    BY <1>2 DEF Accelerate, Rise
  <2>4. StepBudget'
    BY <2>1, <2>2, <2>3 DEF StepBudget, TypeOK, Stp
  <2>5. PhaseCounters'
    BY <1>0, <2>1, <2>2, <2>3
       DEF PhaseCounters, Ready, Spent, TypeOK, Stp, ACCL, RUNN, DECL, IDLE
  <2>6. FreshSuccessors' /\ CallPending' /\ Unlinked'
    <3>1. \A u \in Task \ {t} : acc'[u] = acc[u]
      BY <2>2 DEF TypeOK
    <3>2. CASE acc'[t] = 0
      BY <1>a, <2>1, <2>2, <2>3, <3>1, <3>2
    <3>3. CASE acc'[t] # 0
      BY <1>a, <2>1, <2>2, <2>3, <3>1, <3>3
    <3> QED
      BY <3>2, <3>3
  <2> QED
    BY <2>4, <2>5, <2>6
<1>3. CASE KeepSpeed(t)
  <2>1. acc[t] = 0 /\ run[t] > 0 /\ dec[t] > 0
    BY <1>0, <1>3 DEF KeepSpeed, PhaseCounters
  <2>2. /\ run' = [run EXCEPT ![t] = @ - 1]
        /\ state' = [state EXCEPT ![t] = IF run'[t] = 0 THEN DECL ELSE RUNN]
    <3>1. Minus1(run[t]) = run[t] - 1
      BY <2>1, Minus1Exact DEF TypeOK
    <3> QED
      BY <1>3, <3>1 DEF KeepSpeed
  <2>3. /\ pulses' = [pulses EXCEPT ![t] = @ + 1]
        /\ UNCHANGED <<next_task, acc, dec, next, steps, call>>
    BY <1>3 DEF KeepSpeed, Rise
  <2>4. StepBudget'
    BY <2>1, <2>2, <2>3 DEF StepBudget, TypeOK, Stp
  <2>5. PhaseCounters'
    BY <1>0, <2>1, <2>2, <2>3
       DEF PhaseCounters, Ready, Spent, TypeOK, Stp, ACCL, RUNN, DECL, IDLE
  <2>6. FreshSuccessors' /\ CallPending' /\ Unlinked'
    <3>1. \A u \in Task \ {t} : run'[u] = run[u]
      BY <2>2 DEF TypeOK
    <3>2. CASE run'[t] = 0
      BY <1>a, <2>1, <2>2, <2>3, <3>1, <3>2
    <3>3. CASE run'[t] # 0
      BY <1>a, <2>1, <2>2, <2>3, <3>1, <3>3
    <3> QED
      BY <3>2, <3>3
  <2> QED
    BY <2>4, <2>5, <2>6
<1> QED
  BY <1>2, <1>3

\* A step while decelerating, with the change to the next task or to IDLE.
LEMMA LastRampStep ==
  ASSUME TypeOK, TypeOK', Orderly, NEW t \in Task, Decelerate(t),
         ~Adding(t), ~Adding(next_task')
  PROVE  Orderly'
<1> USE StepperAssumption DEF Orderly
<1>0. Rise(t) /\ state[t] = DECL
  BY DEF Decelerate
<1>1. /\ steps[t] > 0 /\ t = next_task
      /\ call.op # "none" => call.task # t
  BY <1>0, CurrentTask
<1>2. acc[t] = 0 /\ run[t] = 0 /\ dec[t] > 0
  BY <1>0, <1>1 DEF PhaseCounters
<1>3. /\ dec' = [dec EXCEPT ![t] = @ - 1] /\ pulses' = [pulses EXCEPT ![t] = @ + 1]
      /\ UNCHANGED <<acc, run, next, steps, call>>
  <2>1. Minus1(dec[t]) = dec[t] - 1
    BY <1>2, Minus1Exact DEF TypeOK
  <2> QED
    BY <2>1 DEF Decelerate, Rise
<1>4. /\ \A w \in Task \ {t} : dec'[w] = dec[w] /\ pulses'[w] = pulses[w]
      /\ dec'[t] = dec[t] - 1
  BY <1>3 DEF TypeOK
<1>5. StepBudget'
  BY <1>1, <1>2, <1>3 DEF StepBudget, TypeOK, Stp
<1>6. CASE dec'[t] # 0
  <2>0. UNCHANGED <<next_task, state>>
    BY <1>6 DEF Decelerate
  <2>1. PhaseCounters' /\ Unlinked'
    BY <1>0, <1>1, <1>2, <1>3, <1>4, <1>6, <2>0
       DEF PhaseCounters, Unlinked, Ready, Spent, TypeOK, Stp, ACCL, RUNN, DECL, IDLE
  <2>2. \A w \in Task : Waiting(w) => Waiting(w)'
    BY <1>1, <1>3, <1>4, <2>0 DEF Waiting, Ready, Adding
  <2>3. /\ ~Spent(t)' /\ ~Spent(t)
        /\ \A w \in Task \ {t} : Spent(w)' <=> Spent(w)
    BY <1>2, <1>3, <1>4, <1>6 DEF Spent, TypeOK, Stp
  <2>4. FreshSuccessors'
    BY <1>3, <2>2, <2>3 DEF FreshSuccessors, TypeOK
  <2>5. CallPending'
    BY <1>1, <1>3, <1>4, <2>0 DEF CallPending, Ready
  <2> QED
    BY <1>5, <2>1, <2>4, <2>5
<1>7. CASE dec'[t] = 0 /\ next[t] # Null
  <2> DEFINE u == next[t]
  <2>0. next_task' = u /\ RunNext(u)
    BY <1>7 DEF Decelerate
  <2>1. u \in Task /\ Waiting(u) /\ u # t
    BY <1>1, <1>2, <1>7 DEF FreshSuccessors, Spent, TypeOK, Waiting
  <2>2. state' = [state EXCEPT ![u] = ACCL] /\ state[u] = IDLE
    BY <2>0, <2>1 DEF RunNext, Runs, Waiting
  <2>3. \A w \in Task : next[w] = u => w = t
    BY <1>7 DEF FreshSuccessors
  <2> HIDE DEF u
  <2>4. Ready(u)' /\ steps'[u] > 0 /\ pulses'[u] = 0
    <3>1. /\ acc'[u] = acc[u] /\ run'[u] = run[u] /\ dec'[u] = dec[u]
          /\ steps'[u] = steps[u] /\ pulses'[u] = pulses[u]
      BY <1>3, <1>4, <2>1
    <3>2. Ready(u) /\ steps[u] > 0 /\ pulses[u] = 0
      BY <2>1 DEF Waiting
    <3>3. UNCHANGED u
      BY <1>3 DEF u
    <3> QED
      BY <3>1, <3>2, <3>3 DEF Ready
  <2>5. PhaseCounters' /\ Unlinked'
    <3>1. PhaseCounters'
      <4>1. /\ state'[u] = ACCL
            /\ \A w \in Task \ {u} : state'[w] = state[w]
        BY <2>1, <2>2 DEF TypeOK
      <4>2. \A w \in Task \ {t} :
              /\ steps'[w] = steps[w] /\ pulses'[w] = pulses[w]
              /\ acc'[w] = acc[w] /\ run'[w] = run[w] /\ dec'[w] = dec[w]
        BY <1>3, <1>4
      <4>3. acc'[t] = 0 /\ run'[t] = 0 /\ state'[t] = DECL /\ next_task' # t
        BY <1>0, <1>2, <1>3, <2>0, <2>1, <4>1
      <4>4. acc'[u] > 0 /\ run'[u] > 0 /\ dec'[u] > 0
        BY <2>1, <4>2 DEF Waiting, Ready
      <4>5. next_task = t /\ next_task' = u /\ u # t
        BY <1>1, <2>0, <2>1
      <4> QED
        BY <4>1, <4>2, <4>3, <4>4, <4>5
           DEF PhaseCounters, Ready, Spent, ACCL, RUNN, DECL, IDLE
    <3>2. Unlinked'
      BY <1>1, <1>3, <1>4, <2>0, <2>1, <2>2, <2>4 DEF Unlinked, TypeOK, Stp
    <3> QED
      BY <3>1, <3>2
  <2>6. Spent(t)' /\ \A w \in Task \ {t} : Spent(w)' <=> Spent(w)
    BY <1>2, <1>3, <1>4, <1>7 DEF Spent
  <2>7. \A w \in Task \ {u} : Waiting(w) => Waiting(w)'
    BY <1>1, <1>3, <1>4, <2>0, <2>1, <2>2 DEF Waiting, Ready, Adding, TypeOK
  <2>8. FreshSuccessors'
    BY <1>1, <1>3, <2>2, <2>3, <2>6, <2>7 DEF FreshSuccessors, TypeOK
  <2>9. CallPending'
    <3>1. call.op # "run"
      BY <1>1 DEF CallPending
    <3> QED
      BY <1>1, <1>3, <1>4, <3>1 DEF CallPending, Ready
  <2> QED
    BY <1>5, <2>5, <2>8, <2>9
<1>8. CASE dec'[t] = 0 /\ next[t] = Null
  <2>0. next_task' = next_task /\ state' = [state EXCEPT ![t] = IDLE]
    BY <1>8 DEF Decelerate
  <2>1. Spent(t)' /\ \A w \in Task \ {t} : Spent(w)' <=> Spent(w)
    BY <1>2, <1>3, <1>4, <1>8 DEF Spent
  <2>2. Unlinked'
    BY <1>1, <1>3, <1>4, <2>0 DEF Unlinked, TypeOK, Stp
  <2>3. PhaseCounters'
    <3>1. state'[t] = IDLE
      BY <2>0 DEF TypeOK
    <3>2. \A w \in Task \ {t} :
            /\ steps'[w] = steps[w] /\ state'[w] = state[w] /\ pulses'[w] = pulses[w]
            /\ acc'[w] = acc[w] /\ run'[w] = run[w] /\ dec'[w] = dec[w]
      BY <1>3, <1>4, <2>0 DEF TypeOK
    <3> QED
      BY <1>1, <2>0, <2>1, <3>1, <3>2
         DEF PhaseCounters, Ready, Spent, ACCL, RUNN, DECL, IDLE
  <2>4. \A w \in Task : Waiting(w) => Waiting(w)'
    BY <1>1, <1>3, <1>4, <2>0 DEF Waiting, Ready, Adding, TypeOK
  <2>5. FreshSuccessors'
    BY <1>3, <1>8, <2>1, <2>4 DEF FreshSuccessors, TypeOK
  <2>6. CallPending'
    <3>1. call.op # "run"
      BY <1>1 DEF CallPending
    <3> QED
      BY <1>1, <1>3, <1>4, <3>1 DEF CallPending, Ready
  <2> QED
    BY <1>5, <2>2, <2>3, <2>5, <2>6
<1> QED
  BY <1>6, <1>7, <1>8

\* A step that takes no task too early preserves the order of the tasks.
LEMMA OrderlyStep ==
  ASSUME TypeOK, TypeOK', Orderly, [Next]_vars, ~early' PROVE Orderly'
<1>1. CASE stepper_isr1
  <2>1. pulses' = pulses \/ (~Adding(next_task) /\ ~Adding(next_task'))
    BY <1>1 DEF stepper_isr1
  <2>2. CASE Fall
    <3>1. call' = call
      BY <2>2 DEF Fall
    <3> QED
      BY <2>2, <3>1, QuietStep
  <2>3. ASSUME NEW t \in Task, Accelerate(t) \/ KeepSpeed(t) \/ Decelerate(t)
        PROVE  Orderly'
    <3>1. Rise(t)
      BY <2>3 DEF Accelerate, KeepSpeed, Decelerate
    <3>2. t = next_task /\ pulses' # pulses
      BY <3>1 DEF Rise, TypeOK
    <3>3. ~Adding(t) /\ ~Adding(next_task')
      BY <2>1, <3>2
    <3> QED
      BY <2>3, <3>3, RampStep, LastRampStep
  <2> QED
    BY <1>1, <2>2, <2>3 DEF stepper_isr1
<1>2. CASE UNCHANGED vars
  BY <1>2 DEF vars, Orderly, StepBudget, PhaseCounters, FreshSuccessors, Unlinked,
     CallPending, Waiting, Ready, Spent, Adding
<1> QED
  BY <1>1, <1>2, AddStep, AddEndStep, RunStep, RunEndStep, QuietStep, StopStep DEF Next

\* No step takes early back.
LEMMA EarlyStays == ASSUME [Next]_vars, ~early' PROVE ~early
BY DEF Next, vars, stepper_add_task, stepper_add_task_end, stepper_run, stepper_run_end,
   stepper_clean_tasks, Switch, stepper_isr1, stepper_isr2

\* The invariant holds in every behaviour of the driver.
THEOREM Invariance == Spec => []IInv
<1>1. IInv /\ [Next]_vars => IInv'
  BY TypeStep, OrderlyStep, EarlyStays DEF IInv
<1> QED
  BY <1>1, InitInv, PTL DEF Spec

\* No counter of stepper.c leaves its width and no field its type.
THEOREM TypeCorrect == Spec => []TypeOK
<1>1. IInv => TypeOK
  BY DEF IInv
<1> QED
  BY <1>1, Invariance, PTL

\* stepper_isr1 makes exactly the steps that stepper_add_task accepted.
THEOREM StepsAreExact == Spec => []ExactSteps
<1>1. IInv => ExactSteps
  <2> SUFFICES ASSUME TypeOK, Orderly, NEW t \in Task, steps[t] > 0
               PROVE  /\ pulses[t] <= steps[t]
                      /\ Done(t) => pulses[t] = steps[t]
                      /\ t = next_task /\ ChainEnded => pulses[t] = steps[t]
    BY DEF ExactSteps, IInv
  <2>1. acc[t] + run[t] + dec[t] + pulses[t] = steps[t]
    BY DEF Orderly, StepBudget
  <2>2. acc[t] >= 0 /\ run[t] >= 0 /\ dec[t] >= 0 /\ pulses[t] \in Nat
    BY StepperAssumption DEF TypeOK, Stp
  <2>3. t = next_task /\ ChainEnded => Spent(t)
    BY <2>2 DEF Orderly, PhaseCounters, ChainEnded
  <2> QED
    BY <2>1, <2>2, <2>3, StepperAssumption DEF Done, Spent, TypeOK, Stp
<1> QED
  BY <1>1, Invariance, PTL

\* Whatever the interrupts do, the list and the calls only name accepted tasks,
\* and no call under way has read STOP.
OnlyAccepted ==
  /\ next_task # Null => steps[next_task] > 0
  /\ \A t \in Task : next[t] # Null => steps[next[t]] > 0
  /\ \A t \in Task : steps[t] = 0 => state[t] = ACCL
  /\ call.op # "none" =>
       call.task \in Task /\ steps[call.task] > 0 /\ call.read \in {ACCL, IDLE}

LEMMA AcceptedStep == ASSUME TypeOK, OnlyAccepted, [Next]_vars PROVE OnlyAccepted'
<1> USE StepperAssumption DEF OnlyAccepted, counters
<1>1. ASSUME NEW t \in Task, NEW a \in Ramp, NEW d \in Ramp, NEW n \in Steps,
             NEW direction \in {0, 1}, stepper_add_task(t, a, d, n, direction)
      PROVE  OnlyAccepted'
  <2>1. CASE RampsTooLong(a, d, n)
    BY <1>1, <2>1 DEF stepper_add_task
  <2>2. CASE ~RampsTooLong(a, d, n)
    <3>1. n > 0 /\ steps' = [steps EXCEPT ![t] = n] /\ state' = state
      BY <1>1, <2>2 DEF stepper_add_task
    <3>2. steps'[t] > 0 /\ \A u \in Task : steps[u] > 0 => steps'[u] > 0
      BY <3>1 DEF TypeOK
    <3>3. next_task' \in {next_task, t} /\ \A u \in Task : next'[u] \in {next[u], t}
      BY <1>1, <2>2 DEF stepper_add_task, Link, TypeOK
    <3>4. call'.task = t /\ call'.read = ACCL
      BY <1>1, <2>2 DEF stepper_add_task
    <3>5. \A u \in Task : steps'[u] = 0 => steps[u] = 0
      BY <3>1, <3>2 DEF TypeOK
    <3> QED
      BY <3>1, <3>2, <3>3, <3>4, <3>5 DEF TypeOK
  <2> QED
    BY <2>1, <2>2
<1>2. CASE stepper_add_task_end \/ stepper_run_end
  <2>1. steps[call.task] > 0 /\ call.task \in Task
    BY <1>2 DEF stepper_add_task_end, stepper_run_end
  <2>2. \A u \in Task \ {call.task} : state'[u] = state[u]
    BY <1>2, <2>1 DEF stepper_add_task_end, stepper_run_end, TypeOK
  <2>3. steps[call.task] # 0
    BY <2>1 DEF TypeOK, Stp
  <2> QED
    BY <1>2, <2>1, <2>2, <2>3 DEF stepper_add_task_end, stepper_run_end, NoCall
<1>3. CASE stepper_run
  <2>1. /\ next_task # Null /\ UNCHANGED <<next_task, next, steps, state>>
        /\ \/ call' = call
           \/ state[next_task] = IDLE
              /\ call' = [op |-> "run", task |-> next_task, read |-> state[next_task]]
    BY <1>3 DEF stepper_run, Runs
  <2> QED
    BY <2>1 DEF TypeOK
<1>4. CASE stepper_clean_tasks \/ Switch
  BY <1>4 DEF stepper_clean_tasks, Switch
<1>5. CASE stepper_isr1
  <2>1. CASE Fall
    <3>1. call' = call
      BY <2>1 DEF Fall
    <3> QED
      BY <2>1, <3>1 DEF Fall
  <2>2. ASSUME NEW t \in Task, Accelerate(t) \/ KeepSpeed(t) \/ Decelerate(t)
        PROVE  OnlyAccepted'
    <3>1. /\ t = next_task /\ steps[t] > 0 /\ steps[t] # 0
          /\ UNCHANGED <<call, steps, next>>
      <4>1. t = next_task /\ UNCHANGED <<call, steps, next>>
        BY <2>2 DEF Accelerate, KeepSpeed, Decelerate, Rise
      <4> QED
        BY <2>2, <4>1 DEF TypeOK, Stp
    <3>2. /\ next_task' = next_task \/ (next[t] # Null /\ next_task' = next[t])
          /\ \A u \in Task : u = t \/ (next[t] # Null /\ u = next[t]) \/ state'[u] = state[u]
      BY <2>2 DEF Accelerate, KeepSpeed, Decelerate, RunNext, TypeOK
    <3>3. next[t] # Null => steps[next[t]] > 0 /\ steps[next[t]] # 0
      BY DEF TypeOK, Stp
    <3> QED
      BY <3>1, <3>2, <3>3
  <2> QED
    BY <1>5, <2>1, <2>2 DEF stepper_isr1
<1>6. CASE stepper_isr2
  <2>1. /\ next_task \in Task /\ steps[next_task] # 0
        /\ state' = [state EXCEPT ![next_task] = STOP]
        /\ UNCHANGED <<call, steps, next, next_task>>
    BY <1>6 DEF stepper_isr2, TypeOK, Stp
  <2> QED
    BY <2>1 DEF TypeOK
<1>7. CASE UNCHANGED vars
  BY <1>7 DEF vars
<1> QED
  BY <1>1, <1>2, <1>3, <1>4, <1>5, <1>6, <1>7 DEF Next

\* After stepper_isr2 saw the switch no step is made until the list is cleaned,
\* unless a stepper_run or stepper_add_task that was under way for the task, and
\* had not read STOP, overwrites the state.
THEOREM StopIsFinal == Spec => StopHolds
<1> DEFINE Held ==
             \/ next_task' = Null
             \/ state'[next_task'] = STOP
             \/ call.task = next_task /\ call.read # STOP /\ call' = NoCall
<1>1. Init => OnlyAccepted
  BY DEF Init, OnlyAccepted, NoCall
<1>2. Spec => []OnlyAccepted
  BY <1>1, AcceptedStep, TypeCorrect, PTL DEF Spec
<1>3. TypeOK /\ OnlyAccepted /\ [Next]_vars =>
        (next_task # Null /\ state[next_task] = STOP => pulses' = pulses /\ Held)
  <2> SUFFICES ASSUME TypeOK, OnlyAccepted, [Next]_vars, next_task # Null,
                      state[next_task] = STOP
               PROVE  pulses' = pulses /\ Held
    OBVIOUS
  <2> USE DEF STOP, IDLE, DECL, RUNN, ACCL
  <2>1. ASSUME NEW t \in Task, NEW a \in Ramp, NEW d \in Ramp, NEW n \in Steps,
               NEW direction \in {0, 1}, stepper_add_task(t, a, d, n, direction)
        PROVE  pulses' = pulses /\ state'[next_task'] = STOP
    BY <2>1 DEF stepper_add_task, Link
  <2>2. CASE stepper_run \/ stepper_clean_tasks \/ Switch
    BY <2>2 DEF stepper_run, stepper_clean_tasks, Switch
  <2>3. CASE stepper_add_task_end \/ stepper_run_end
    <3>1. /\ pulses' = pulses /\ next_task' = next_task /\ call' = NoCall
          /\ call.task \in Task /\ call.read # STOP
      BY <2>3 DEF stepper_add_task_end, stepper_run_end, OnlyAccepted
    <3>2. call.task = next_task \/ state'[next_task] = state[next_task]
      BY <2>3, <3>1 DEF stepper_add_task_end, stepper_run_end, TypeOK
    <3> QED
      BY <3>1, <3>2
  <2>4. CASE stepper_isr1
    BY <2>4 DEF stepper_isr1, Moving, Fall, Rise, Accelerate, KeepSpeed, Decelerate
  <2>5. CASE stepper_isr2
    BY <2>5 DEF stepper_isr2, TypeOK
  <2>6. CASE UNCHANGED vars
    BY <2>6 DEF vars
  <2> QED
    BY <2>1, <2>2, <2>3, <2>4, <2>5, <2>6 DEF Next
<1> QED
  BY <1>2, <1>3, TypeCorrect, PTL DEF Spec, StopHolds

-----------------------------------------------------------------------------
(***************************************************************************)
(* The order of the chain.                                                 *)
(***************************************************************************)
\* A task in front of a sequence of tasks.
LEMMA Prepended ==
  ASSUME NEW t \in Task, NEW s \in Seq(Task)
  PROVE  /\ <<t>> \o s \in Seq(Task) /\ Len(<<t>> \o s) = 1 + Len(s)
         /\ (<<t>> \o s)[1] = t
         /\ \A i \in 1..Len(s) : (<<t>> \o s)[i + 1] = s[i]
OBVIOUS

\* The chain of at most k tasks from each task on, for every k.
Follows(f) ==
  \A k \in 0..Cardinality(Task) :
    /\ f[k] \in [Task \cup {Null} -> Seq(Task)]
    /\ \A x \in Task \cup {Null} :
         f[k][x] = IF x = Null \/ k = 0 THEN <<>> ELSE <<x>> \o f[k - 1][next[x]]

\* The recursion in From is well defined.
LEMMA ChainFollows ==
  ASSUME next \in [Task -> Task \cup {Null}]
  PROVE  \E f : Follows(f) /\ \A t : From(t) = f[Cardinality(Task)][t]
<1> DEFINE N == Cardinality(Task)
           X == Task \cup {Null}
           V == [X -> Seq(Task)]
           none == <<>>
           zero == [x \in X |-> none]
           Grow(v) == [x \in X |-> IF x = Null THEN none ELSE <<x>> \o v[next[x]]]
           step == [k \in 1..N |-> [v \in V |-> Grow(v)]]
           Loop(f) == f = [n \in 0..N |->
                             [x \in X |-> IF x = Null \/ n = 0 THEN none
                                          ELSE <<x>> \o f[n - 1][next[x]]]]
           c == CHOOSE f : Loop(f)
<1>1. N \in Nat
  BY FinitelyManyTasks, FS_CardinalityType
<1>2. zero \in V
  OBVIOUS
<1>3. \A v \in V : Grow(v) \in V
  <2> SUFFICES ASSUME NEW v \in V, NEW x \in X, x # Null PROVE <<x>> \o v[next[x]] \in Seq(Task)
    OBVIOUS
  <2>1. x \in Task /\ v[next[x]] \in Seq(Task)
    OBVIOUS
  <2> QED
    BY <2>1, Prepended
<1>4. \A k \in 1..N : \A v \in V : step[k][v] = Grow(v) /\ step[k][v] \in V
  BY <1>3
<1> HIDE DEF N, V, zero, Grow, step
<1>5. PICK g \in [0..N -> V] : Turns(g, N, zero, step)
  BY <1>1, <1>2, <1>4, TurnsDefine
<1>6. \A n \in 0..N : g[n] = [x \in X |-> IF x = Null \/ n = 0 THEN none
                                         ELSE <<x>> \o g[n - 1][next[x]]]
  <2> SUFFICES ASSUME NEW n \in 0..N
               PROVE  g[n] = [x \in X |-> IF x = Null \/ n = 0 THEN none
                                         ELSE <<x>> \o g[n - 1][next[x]]]
    OBVIOUS
  <2>1. CASE n = 0
    <3>1. g[n] = zero
      BY <1>5, <2>1 DEF Turns
    <3> QED
      BY <2>1, <3>1 DEF zero
  <2>2. CASE n # 0
    <3>1. n \in 1..N /\ n - 1 \in 0..N
      BY <1>1, <2>2
    <3>2. g[n] = step[n][g[n - 1]] /\ g[n - 1] \in V
      BY <1>5, <3>1 DEF Turns
    <3>3. g[n] = Grow(g[n - 1])
      BY <1>4, <3>1, <3>2
    <3> QED
      BY <2>2, <3>3 DEF Grow
  <2> QED
    BY <2>1, <2>2
<1>7. Loop(g)
  BY <1>5, <1>6
<1>8. Loop(c)
  BY <1>7
<1> HIDE DEF c
<1>9. \A k \in 0..N : c[k] \in V
  <2> DEFINE G == {k \in 0..N : c[k] \in V}
  <2>1. 0 \in G
    <3>1. 0 \in 0..N
      BY <1>1
    <3>2. c[0] = [x \in X |-> IF x = Null \/ 0 = 0 THEN none ELSE <<x>> \o c[0 - 1][next[x]]]
      BY <1>8, <3>1
    <3>3. c[0] = zero
      BY <3>2 DEF zero
    <3> QED
      BY <1>2, <3>1, <3>3
  <2>2. ASSUME NEW k \in 1..N, k - 1 \in G PROVE k \in G
    <3>1. k \in 0..N /\ k # 0
      BY <1>1
    <3>2. c[k] = [x \in X |-> IF x = Null \/ k = 0 THEN none ELSE <<x>> \o c[k - 1][next[x]]]
      BY <1>8, <3>1
    <3>3. c[k] = Grow(c[k - 1])
      BY <3>1, <3>2 DEF Grow
    <3> QED
      BY <1>3, <2>2, <3>1, <3>3
  <2>3. \A k \in 0..N : k \in G
    <3> HIDE DEF G
    <3> QED
      BY <1>1, <2>1, <2>2, CountsUp
  <2> QED
    BY <2>3
<1>10. Follows(c)
  <2> SUFFICES ASSUME NEW k \in 0..N
               PROVE  /\ c[k] \in [X -> Seq(Task)]
                      /\ \A x \in X : c[k][x] = IF x = Null \/ k = 0 THEN <<>>
                                                ELSE <<x>> \o c[k - 1][next[x]]
    BY DEF Follows, N
  <2>1. c[k] = [x \in X |-> IF x = Null \/ k = 0 THEN none ELSE <<x>> \o c[k - 1][next[x]]]
    BY <1>8
  <2> QED
    BY <1>9, <2>1 DEF V
<1>11. \A t : From(t) = c[N][t]
  BY DEF From, c, N
<1> QED
  BY <1>10, <1>11 DEF N

\* The tasks of a sequence have made no step.
Unbegun(s) == \A i \in 1..Len(s) : pulses[s[i]] = 0

\* Behind a task that has not been carried out, no task of the chain has begun.
LEMMA TailUnbegun ==
  ASSUME TypeOK, Orderly, next_task # Null, ~Spent(next_task)
  PROVE  \A i \in 2..Len(Chain) : pulses[Chain[i]] = 0
<1> DEFINE N == Cardinality(Task)
<1>1. N \in Nat
  BY FinitelyManyTasks, FS_CardinalityType
<1>2. next \in [Task -> Task \cup {Null}] /\ next_task \in Task
  BY DEF TypeOK
<1>3. PICK f : Follows(f) /\ \A t : From(t) = f[N][t]
  BY <1>2, ChainFollows
<1>4. ASSUME NEW x \in Task, ~Spent(x), next[x] # Null PROVE Waiting(next[x])
  BY <1>4 DEF Orderly, FreshSuccessors
<1>5. \A x \in Task : Waiting(x) => ~Spent(x) /\ pulses[x] = 0
  BY StepperAssumption DEF Waiting, Ready, Spent, TypeOK, Stp
<1> HIDE DEF N
<1>6. \A k \in 0..N : f[k] \in [Task \cup {Null} -> Seq(Task)]
                      /\ \A x \in Task \cup {Null} :
                           f[k][x] = IF x = Null \/ k = 0 THEN <<>> ELSE <<x>> \o f[k - 1][next[x]]
  BY <1>3 DEF Follows, N
<1> DEFINE Rests(x) == x = Null \/ Waiting(x)
           G == {k \in 0..N : \A x \in Task \cup {Null} : Rests(x) => Unbegun(f[k][x])}
<1>7. \A x \in Task : ~Spent(x) => Rests(next[x])
  BY <1>4
<1>8. 0 \in G
  <2>1. 0 \in 0..N
    BY <1>1
  <2>2. \A x \in Task \cup {Null} : f[0][x] = <<>>
    BY <1>6, <2>1
  <2>3. \A x \in Task \cup {Null} : Unbegun(f[0][x])
    BY <2>2 DEF Unbegun
  <2> QED
    BY <2>1, <2>3
<1>9. ASSUME NEW k \in 1..N, k - 1 \in G PROVE k \in G
  <2>1. k \in 0..N /\ k # 0 /\ k - 1 \in 0..N
    BY <1>1
  <2>2. ASSUME NEW x \in Task \cup {Null}, Rests(x) PROVE Unbegun(f[k][x])
    <3>1. CASE x = Null
      <4>1. f[k][x] = <<>>
        BY <1>6, <2>1, <3>1
      <4> QED
        BY <4>1 DEF Unbegun
    <3>2. CASE x # Null
      <4> DEFINE s == f[k - 1][next[x]]
      <4>1. x \in Task /\ Waiting(x) /\ next[x] \in Task \cup {Null}
        BY <1>2, <2>2, <3>2
      <4>2. ~Spent(x) /\ pulses[x] = 0
        BY <1>5, <4>1
      <4>3. Rests(next[x])
        BY <1>7, <4>1, <4>2
      <4>4. Unbegun(s) /\ s \in Seq(Task)
        BY <1>6, <1>9, <2>1, <4>1, <4>3
      <4>5. f[k][x] = <<x>> \o s
        BY <1>6, <2>1, <3>2
      <4> HIDE DEF s
      <4>6. \A i \in 1..Len(<<x>> \o s) : pulses[(<<x>> \o s)[i]] = 0
        <5> SUFFICES ASSUME NEW i \in 1..Len(<<x>> \o s) PROVE pulses[(<<x>> \o s)[i]] = 0
          OBVIOUS
        <5>1. Len(s) \in Nat
          BY <4>4
        <5>2. i = 1 \/ (i - 1 \in 1..Len(s) /\ (i - 1) + 1 = i)
          BY <4>1, <4>4, <5>1, Prepended
        <5>3. CASE i = 1
          BY <4>1, <4>2, <4>4, <5>3, Prepended
        <5>4. CASE i - 1 \in 1..Len(s) /\ (i - 1) + 1 = i
          <6>1. (<<x>> \o s)[(i - 1) + 1] = s[i - 1]
            BY <4>1, <4>4, <5>4, Prepended
          <6> QED
            BY <4>4, <5>4, <6>1 DEF Unbegun
        <5> QED
          BY <5>2, <5>3, <5>4
      <4> QED
        BY <4>5, <4>6 DEF Unbegun
    <3> QED
      BY <3>1, <3>2
  <2> QED
    BY <2>1, <2>2
<1>10. \A k \in 0..N : k \in G
  <2> HIDE DEF G
  <2> QED
    BY <1>1, <1>8, <1>9, CountsUp
<1> SUFFICES ASSUME NEW i \in 2..Len(Chain) PROVE pulses[Chain[i]] = 0
  OBVIOUS
<1>11. Chain = f[N][next_task] /\ N \in 0..N
  BY <1>1, <1>3 DEF Chain
<1>12. CASE N = 0
  <2>1. Chain = <<>>
    <3>1. \A x \in Task \cup {Null} : f[0][x] = <<>>
      BY <1>6, <1>11, <1>12
    <3> QED
      BY <1>2, <1>11, <1>12, <3>1
  <2> QED
    BY <2>1
<1>13. CASE N # 0
  <2> DEFINE s == f[N - 1][next[next_task]]
  <2>1. N - 1 \in 0..N /\ next[next_task] \in Task \cup {Null}
    BY <1>1, <1>2, <1>13
  <2>2. Chain = <<next_task>> \o s /\ s \in Seq(Task)
    BY <1>2, <1>6, <1>11, <1>13, <2>1
  <2>3. Unbegun(s)
    BY <1>2, <1>7, <1>10, <2>1
  <2> HIDE DEF s
  <2>4. Len(s) \in Nat /\ Len(Chain) = 1 + Len(s)
    BY <1>2, <2>2, Prepended
  <2>5. i - 1 \in 1..Len(s) /\ (i - 1) + 1 = i
    BY <2>4
  <2>6. Chain[(i - 1) + 1] = s[i - 1]
    BY <1>2, <2>2, <2>5, Prepended
  <2> QED
    BY <2>3, <2>5, <2>6 DEF Unbegun
<1> QED
  BY <1>12, <1>13

\* A step of the driver that takes no task too early keeps the direction right.
LEMMA RightWayStep ==
  ASSUME TypeOK, Orderly, RightWay, [Next]_vars, ~early' PROVE RightWay'
<1> USE DEF RightWay, ACCL, RUNN, DECL, IDLE, STOP, counters
<1>1. ASSUME NEW t \in Task, NEW a \in Ramp, NEW d \in Ramp, NEW n \in Steps,
             NEW direction \in {0, 1}, stepper_add_task(t, a, d, n, direction)
      PROVE  RightWay'
  <2>1. call.op = "none" /\ t # next_task /\ UNCHANGED <<state, started, dirpin>>
    BY <1>1 DEF stepper_add_task, NoCall
  <2>2. CASE RampsTooLong(a, d, n)
    BY <1>1, <2>1, <2>2 DEF stepper_add_task, Adding
  <2>3. CASE ~RampsTooLong(a, d, n)
    <3>1. /\ next_task' = t \/ (next_task # Null /\ next_task' = next_task)
          /\ call'.op = "add" /\ call'.task = t
          /\ next_task # Null => dir'[next_task] = dir[next_task]
      BY <1>1, <2>1, <2>3 DEF stepper_add_task, Link, TypeOK
    <3> QED
      BY <2>1, <3>1 DEF Adding
  <2> QED
    BY <2>2, <2>3
<1>2. CASE stepper_add_task_end
  <2>1. call.task \in Task /\ call.op = "add" /\ call'.op = "none"
    BY <1>2 DEF stepper_add_task_end, Orderly, CallPending, NoCall
  <2>2. /\ state'[call.task] = IDLE
        /\ \A u \in Task \ {call.task} : state'[u] = state[u] /\ ~Adding(u)
        /\ UNCHANGED <<next_task, dirpin, dir, started>>
    BY <1>2, <2>1 DEF stepper_add_task_end, TypeOK, Adding
  <2> QED
    BY <2>1, <2>2 DEF TypeOK, Adding
<1>3. CASE stepper_run
  <2>1. /\ started' /\ UNCHANGED <<next_task, dir, state>>
        /\ call = NoCall
        /\ \/ call' = NoCall /\ dirpin' = dirpin /\ state[next_task] # IDLE
           \/ call'.op = "run" /\ dirpin' = dir[next_task]
    BY <1>3 DEF stepper_run, Runs
  <2> QED
    BY <2>1 DEF Adding, NoCall
<1>4. CASE stepper_run_end
  <2>1. /\ call.op = "run" /\ call.task = next_task /\ call' = NoCall
        /\ UNCHANGED <<next_task, dirpin, dir, started>>
    BY <1>4 DEF stepper_run_end, Orderly, CallPending
  <2> QED
    BY <2>1 DEF NoCall
<1>5. CASE stepper_clean_tasks
  BY <1>5 DEF stepper_clean_tasks, NoCall
<1>6. CASE Switch
  BY <1>6 DEF Switch, Adding
<1>7. CASE stepper_isr1
  <2>1. CASE Fall
    BY <2>1 DEF Fall, Adding
  <2>2. ASSUME NEW t \in Task, Accelerate(t) \/ KeepSpeed(t) \/ Decelerate(t)
        PROVE  RightWay'
    <3>1. /\ Rise(t) /\ t = next_task /\ pulses' # pulses
          /\ UNCHANGED <<call, dir, started>>
      BY <2>2 DEF Accelerate, KeepSpeed, Decelerate, Rise, TypeOK
    <3>2. ~Adding(t) /\ ~Adding(next_task')
      BY <1>7, <3>1 DEF stepper_isr1
    <3>3. steps[t] > 0 /\ started /\ dirpin = dir[t] /\ call.op # "run"
      <4>1. state[t] <= DECL /\ next_task # Null
        BY <3>1 DEF Rise, Moving
      <4> QED
        BY <3>1, <3>2, <4>1 DEF Orderly, Unlinked, CallPending, Adding
    <3>4. CASE next_task' = next_task /\ dirpin' = dirpin
      BY <3>1, <3>3, <3>4
    <3>5. CASE ~(next_task' = next_task /\ dirpin' = dirpin)
      <4>1. Decelerate(t) /\ dec'[t] = 0 /\ next[t] # Null
        BY <2>2, <3>1, <3>5 DEF Accelerate, KeepSpeed, Decelerate
      <4>2. next_task' = next[t] /\ RunNext(next[t])
        BY <4>1 DEF Decelerate
      <4>3. dec[t] > 0
        BY <3>1, <3>3, <4>1 DEF Decelerate, Orderly, PhaseCounters
      <4>4. Waiting(next[t])
        BY <4>1, <4>3 DEF Orderly, FreshSuccessors, Spent
      <4>5. state[next[t]] = IDLE
        BY <3>1, <3>2, <4>2, <4>4 DEF Waiting, Adding
      <4>6. dirpin' = dir[next[t]]
        BY <4>2, <4>5 DEF RunNext, Runs
      <4> QED
        BY <3>1, <3>3, <4>2, <4>6
    <3> QED
      BY <3>4, <3>5
  <2> QED
    BY <1>7, <2>1, <2>2 DEF stepper_isr1
<1>8. CASE stepper_isr2
  BY <1>8 DEF stepper_isr2, TypeOK, Adding
<1>9. CASE UNCHANGED vars
  BY <1>9 DEF vars, Adding
<1> QED
  BY <1>1, <1>2, <1>3, <1>4, <1>5, <1>6, <1>7, <1>8, <1>9 DEF Next

\* stepper_isr1 steps only the first task of the chain, in the direction that
\* task asks for and after stepper_run; the tasks behind it have not begun.
\* Exception: it took a task while stepper_add_task was still at it.
THEOREM StepsAreInTurn == Spec => StepsInTurn
<1> DEFINE InTurn ==
             pulses' # pulses /\ ~early' =>
               /\ started
               /\ dirpin = dir[next_task]
               /\ pulses' = [pulses EXCEPT ![next_task] = @ + 1]
               /\ \A i \in 2..Len(Chain) : pulses[Chain[i]] = 0
           OnWay == ~early => RightWay
<1>1. Init => OnWay
  BY DEF Init, RightWay, NoCall
<1>2. IInv /\ OnWay /\ [Next]_vars => OnWay'
  BY RightWayStep, EarlyStays DEF IInv
<1>3. IInv /\ OnWay /\ [Next]_vars => InTurn
  <2> SUFFICES ASSUME IInv, OnWay, [Next]_vars, pulses' # pulses, ~early' PROVE InTurn
    OBVIOUS
  <2>0. TypeOK /\ Orderly /\ RightWay
    BY EarlyStays DEF IInv
  <2>1. stepper_isr1 /\ \E t \in Task : Accelerate(t) \/ KeepSpeed(t) \/ Decelerate(t)
    BY DEF Next, vars, stepper_add_task, stepper_add_task_end, stepper_run,
       stepper_run_end, stepper_clean_tasks, Switch, stepper_isr1, stepper_isr2, Fall
  <2>2. PICK t \in Task : Accelerate(t) \/ KeepSpeed(t) \/ Decelerate(t)
    BY <2>1
  <2>3. Rise(t)
    BY <2>2 DEF Accelerate, KeepSpeed, Decelerate
  <2>4. next_task # Null /\ t = next_task /\ state[t] <= DECL
        /\ pulses' = [pulses EXCEPT ![t] = @ + 1]
    BY <2>3 DEF Rise, Moving
  <2>5. ~Adding(next_task)
    BY <2>1 DEF stepper_isr1
  <2>6. ~Spent(next_task)
    <3>1. steps[t] > 0
      BY <2>0, <2>4 DEF Orderly, Unlinked
    <3>2. state[t] = ACCL \/ state[t] = RUNN \/ state[t] = DECL
      BY <2>2 DEF Accelerate, KeepSpeed, Decelerate
    <3> QED
      BY <2>0, <2>4, <3>1, <3>2 DEF Orderly, PhaseCounters, Ready, Spent
  <2>7. \A i \in 2..Len(Chain) : pulses[Chain[i]] = 0
    BY <2>0, <2>4, <2>6, TailUnbegun
  <2> QED
    BY <2>0, <2>4, <2>5, <2>7 DEF RightWay
<1>4. Spec => []OnWay
  BY <1>1, <1>2, Invariance, PTL DEF Spec
<1> QED
  BY <1>3, <1>4, Invariance, PTL DEF Spec, StepsInTurn
=============================================================================
