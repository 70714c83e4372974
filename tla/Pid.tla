--------------------------------- MODULE Pid --------------------------------
(***************************************************************************)
(* The two PID controllers: the functions of Common/pid.c and the class of *)
(* Common/pid.h.  Gains and samples are small integers, on which floating  *)
(* point is exact; the class has a time step of one and limits, if any,    *)
(* with zero between them and divisible by ki.                             *)
(***************************************************************************)
EXTENDS Integers

CONSTANTS
  Gains,       \* values of kp, ki and kd
  Samples,     \* inputs and targets
  Limits,      \* absolute values of the limits
  MaxSamples   \* bound: calls

VARIABLES
  pid,   \* kind: c or cpp; kp, ki, kd; i: iterm or m_integral; prev: last_input or
         \* m_prev_error; target; lim: limits are on; min; max
  last   \* history of the last calculation: done; error; value: its input (c) or
         \* error (cpp); quiet: that was the value of the one before; output; calls

vars == <<pid, last>>

Parameters == Gains \subseteq Nat /\ Samples \subseteq Int /\ Limits \subseteq Nat /\ MaxSamples \in Nat

Fresh == [done |-> FALSE, error |-> 0, value |-> 0, quiet |-> FALSE, output |-> 0, calls |-> 0]

\* pid_init, with any target, which it does not set; the limits of the class are
\* arguments of its constructor.
Init ==
  /\ pid \in [kind : {"c"}, kp : Gains, ki : Gains, kd : Gains, i : {0}, prev : {0}, target : Samples,
              lim : {FALSE}, min : {0}, max : {0}]
       \cup [kind : {"cpp"}, kp : Gains, ki : Gains, kd : Gains, i : {0}, prev : {0}, target : {0},
              lim : BOOLEAN, min : {-n : n \in Limits}, max : Limits]
  /\ last = Fresh

Called == last.calls < MaxSamples
Clamped(v, min, max) == IF v > max THEN max ELSE IF v < min THEN min ELSE v
Limited(v) == IF pid.lim THEN Clamped(v, pid.min, pid.max) ELSE v

pid_init ==
  /\ pid.kind = "c" /\ Called /\ last.done
  /\ pid' = [pid EXCEPT !.i = 0, !.prev = 0, !.lim = FALSE]
  /\ last' = [Fresh EXCEPT !.calls = last.calls + 1]

pid_set_limits(min, max) ==
  /\ pid.kind = "c" /\ Called
  /\ pid' = [pid EXCEPT !.min = min, !.max = max, !.lim = TRUE]
  /\ last' = [last EXCEPT !.done = FALSE, !.calls = @ + 1]

pid_set_target(v) ==
  /\ pid.kind = "c" /\ Called
  /\ pid' = [pid EXCEPT !.target = v]
  /\ last' = [last EXCEPT !.done = FALSE, !.calls = @ + 1]

\* Mutant: the sum is kept as it is, and only the output is limited.
ItermFree(error) == pid.i + pid.ki * error

\* iterm, after the limits.
Iterm(error) == Limited(pid.i + pid.ki * error)

\* Mutant: the input is not remembered.
ForgetInput(input) == pid.prev

\* last_input for the next time.
RememberInput(input) == input

pid_calc(input) ==
  /\ pid.kind = "c" /\ Called
  /\ LET error == pid.target - input IN
       /\ pid' = [pid EXCEPT !.i = Iterm(error), !.prev = RememberInput(input)]
       /\ last' = [done |-> TRUE, error |-> error, value |-> input, quiet |-> input = last.value,
                   output |-> Limited(pid.kp * error + Iterm(error) - pid.kd * (input - pid.prev)),
                   calls |-> last.calls + 1]

\* m_integral after std::clamp; a gain of zero makes both bounds infinite.
Integral(error) ==
  LET sum == pid.i + error
  IN  IF pid.lim /\ pid.ki > 0 THEN Clamped(sum, -((-pid.min) \div pid.ki), pid.max \div pid.ki) ELSE sum

Calculate(setpoint, current_val) ==
  /\ pid.kind = "cpp" /\ Called
  /\ LET error == setpoint - current_val IN
       /\ pid' = [pid EXCEPT !.i = Integral(error), !.prev = error]
       /\ last' = [done |-> TRUE, error |-> error, value |-> error, quiet |-> error = last.value,
                   output |-> Limited(pid.kp * error + pid.ki * Integral(error) + pid.kd * (error - pid.prev)),
                   calls |-> last.calls + 1]

Reset ==
  /\ pid.kind = "cpp" /\ Called /\ last.done
  /\ pid' = [pid EXCEPT !.i = 0, !.prev = 0]
  /\ last' = [Fresh EXCEPT !.calls = last.calls + 1]

Next ==
  \/ pid_init \/ Reset
  \/ \E m, n \in Limits : pid_set_limits(-m, n)
  \/ \E v \in Samples : pid_set_target(v) \/ pid_calc(v)
  \/ \E s, v \in Samples : Calculate(s, v)

-----------------------------------------------------------------------------
TypeOK == pid.lim => pid.min <= pid.max

\* What the controller may put out at most and at least while the process stands still.
NoWindup ==
  last.done /\ pid.lim /\ (last.quiet \/ pid.kd = 0) =>
    /\ last.output <= Clamped(pid.max + pid.kp * last.error, pid.min, pid.max)
    /\ last.output >= Clamped(pid.min + pid.kp * last.error, pid.min, pid.max)

NoKick ==
  last.done /\ last.quiet =>
    last.output = Limited(pid.kp * last.error + IF pid.kind = "c" THEN pid.i ELSE pid.ki * pid.i)
=============================================================================
