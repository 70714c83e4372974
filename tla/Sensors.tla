------------------------------- MODULE Sensors ------------------------------
(***************************************************************************)
(* Two sensors that measure on their own while the driver reads them:      *)
(* apds9960_gesture of Common/apds9960.c, which empties the gesture FIFO,  *)
(* and mpu6050_get_result and mpu6050_zero_cal of Common/mpu6050.c, which  *)
(* poll the data ready flag over a bus that may fail.  A gesture sample is *)
(* a record of the four photodiodes, a measurement of the accelerometer    *)
(* the 14 bytes that follow the status register: acceleration in three     *)
(* axes, temperature and rotation in three axes, the high byte first.      *)
(***************************************************************************)
EXTENDS Integers, Sequences, FiniteSets

CONSTANTS
  Samples,    \* gesture samples
  Accs,       \* measurements of the accelerometer
  Fifo,       \* bound: gesture samples in the FIFO
  MaxSamples, \* bound: measurements of the accelerometer
  MaxReads    \* bound: calls

VARIABLES
  apds,   \* external: on; irq: GINT; valid: GVALID; fifo: samples
  gest,   \* apds9960_gesture: pc, level: fifo_level, min, max (sequences of at most one), res
  mpu,    \* external: ready: DATA_READY; acc: the latest measurement, num: its number
  acc,    \* mpu6050: pin: a ready callback is given; pc, cal: within mpu6050_zero_cal,
          \* raw, offset: the seven words of an acc_measdata; res
  log     \* history: dev: the sensor of this behaviour; calls; valid: the valid gesture samples
          \* that this call read; got: measurements returned, last: the last one with the flag
          \* that was read with it; rest: the one at which the sensor was calibrated

vars == <<apds, gest, mpu, acc, log>>

Dirs == {"DIR_UP", "DIR_DOWN", "DIR_LEFT", "DIR_RIGHT"}
Parameters ==
  /\ Samples \subseteq [up : 0..255, down : 0..255, left : 0..255, right : 0..255]
  /\ Fifo \in Nat /\ MaxSamples \in Nat /\ MaxReads \in Nat
  /\ Accs \subseteq [1..14 -> 0..255]

Span == 65536                          \* values of an int16_t
Fields == 1..7                         \* x, y, z, temp, ax, ay, az
Temp == 4                              \* the one that has no offset
Zeros == [f \in Fields |-> 0]
Unmeasured == [flag |-> 0, acc |-> [k \in 1..14 |-> 0]]

Init ==
  /\ apds = [on |-> FALSE, irq |-> FALSE, valid |-> FALSE, fifo |-> <<>>]
  /\ gest = [pc |-> "idle", level |-> 0, min |-> <<>>, max |-> <<>>, res |-> "none"]
  /\ mpu = [ready |-> FALSE, acc |-> Unmeasured.acc, num |-> 0]
  /\ acc \in [pin : BOOLEAN, pc : {"idle"}, cal : {FALSE}, raw : {Zeros}, offset : {Zeros}, res : {"none"}]
  /\ log \in [dev : {"apds", "mpu"}, calls : {0}, valid : {<<>>}, got : {<<>>}, last : {Unmeasured}, rest : {Unmeasured}]

-----------------------------------------------------------------------------
\* External: the gesture engine stores samples and raises its flags while it is on;
\* an interrupt may come without data.
Gesture(s) ==
  /\ apds.on /\ Len(apds.fifo) < Fifo
  /\ apds' = [apds EXCEPT !.fifo = Append(@, s), !.irq = TRUE, !.valid = TRUE]
  /\ UNCHANGED <<gest, mpu, acc, log>>

GestureEmpty(valid) ==
  /\ apds.on /\ apds.fifo = <<>> /\ ~apds.irq
  /\ apds' = [apds EXCEPT !.irq = TRUE, !.valid = valid]
  /\ UNCHANGED <<gest, mpu, acc, log>>

GestureStart ==
  /\ gest.pc = "idle" /\ log.dev = "apds" /\ log.calls < MaxReads
  /\ apds' = [apds EXCEPT !.on = TRUE]
  /\ gest' = [pc |-> "wait", level |-> 0, min |-> <<>>, max |-> <<>>, res |-> "NO_ACTIVITY"]
  /\ log' = [log EXCEPT !.calls = @ + 1, !.valid = <<>>]
  /\ UNCHANGED <<mpu, acc>>

\* wait_for_irq returns the flag, or nothing when the caller's own wait gives up.
WaitIrq(given) ==
  /\ gest.pc = "wait" /\ (given => apds.irq)
  /\ gest' = [gest EXCEPT !.pc = IF given THEN "status" ELSE "sleep"]
  /\ UNCHANGED <<apds, mpu, acc, log>>

ReadStatus ==
  /\ gest.pc = "status"
  /\ gest' = IF apds.valid THEN [gest EXCEPT !.pc = "level"]
             ELSE [gest EXCEPT !.pc = "sleep", !.res = "ERR_DATA_INVALID"]
  /\ UNCHANGED <<apds, mpu, acc, log>>

ReadLevel ==
  /\ gest.pc = "level"
  /\ gest' = IF apds.fifo # <<>> THEN [gest EXCEPT !.pc = "read", !.level = Len(apds.fifo)]
             ELSE [gest EXCEPT !.pc = "sleep", !.res = "ERR_FIFO_EMPTY"]
  /\ UNCHANGED <<apds, mpu, acc, log>>

validate_gest_data(s) == \A v \in {s.up, s.down, s.left, s.right} : v > 10 /\ v < 240

\* Mutant: an invalid sample ends the gesture as well.
TakenAny(s) == TRUE

\* Samples that count.
Taken(s) == validate_gest_data(s)

\* One turn of the loop: the first valid sample, and the last one after it.
ReadFifo ==
  /\ gest.pc = "read" /\ gest.level > 0
  /\ LET s == Head(apds.fifo)
     IN  /\ gest' = [gest EXCEPT !.level = @ - 1, !.pc = IF gest.level = 1 THEN "sleep" ELSE "read",
                       !.min = IF Taken(s) /\ @ = <<>> THEN <<s>> ELSE @,
                       !.max = IF Taken(s) /\ gest.min # <<>> THEN <<s>> ELSE @]
         /\ log' = IF validate_gest_data(s) THEN [log EXCEPT !.valid = Append(@, s)] ELSE log
  /\ apds' = [apds EXCEPT !.fifo = Tail(@)]
  /\ UNCHANGED <<mpu, acc>>

\* Division truncates towards zero.
Share(a, b) == LET n == (a - b) * 100 IN IF n < 0 THEN -((-n) \div (a + b)) ELSE n \div (a + b)
MoveUd(min, max) == Share(max.up, max.down) - Share(min.up, min.down)
MoveLr(min, max) == Share(max.left, max.right) - Share(min.left, min.right)

\* Mutant: down and right are compared with the other axis in the other direction.
process_symmetric(min, max) ==
  LET ud == MoveUd(min, max)   lr == MoveLr(min, max)
  IN  CASE ud > lr /\ ud > 10 -> "DIR_UP" [] ud < lr /\ ud < -10 -> "DIR_DOWN"
        [] ud < lr /\ lr > 10 -> "DIR_LEFT" [] ud > lr /\ lr < -10 -> "DIR_RIGHT" [] OTHER -> "ERR_DATA_INVALID"

proccess_gesture(min, max) ==
  LET ud == MoveUd(min, max)   lr == MoveLr(min, max)
  IN  CASE ud > lr /\ ud > 10 -> "DIR_UP"
        [] ud > lr /\ ud < -10 -> "DIR_DOWN"
        [] ud < lr /\ lr > 10 -> "DIR_LEFT"
        [] ud < lr /\ lr < -10 -> "DIR_RIGHT"
        [] OTHER -> "ERR_DATA_INVALID"

\* The device is off; samples that were not read may stay in the FIFO.
sleep_mode == [on : {FALSE}, irq : {FALSE}, valid : {FALSE}, fifo : {<<>>, apds.fifo}]

GestureEnd ==
  /\ gest.pc = "sleep"
  /\ apds' \in sleep_mode
  /\ gest' = [gest EXCEPT !.pc = "idle",
                !.res = IF gest.min # <<>> /\ gest.max # <<>> THEN proccess_gesture(gest.min[1], gest.max[1]) ELSE @]
  /\ UNCHANGED <<mpu, acc, log>>

-----------------------------------------------------------------------------
\* External: a measurement is ready.
Measure(a) ==
  /\ log.dev = "mpu" /\ mpu.num < MaxSamples
  /\ mpu' = [ready |-> TRUE, acc |-> a, num |-> mpu.num + 1]
  /\ UNCHANGED <<apds, gest, acc, log>>

\* Mutant: the old offsets stay during a calibration.
OffsetKept(cal) == acc.offset

\* mpu6050_zero_cal removes the offsets first.
OffsetAt(cal) == IF cal THEN Zeros ELSE acc.offset

\* mpu6050_get_result begins, or mpu6050_zero_cal.
AccStart(cal) ==
  /\ acc.pc = "idle" /\ log.dev = "mpu" /\ log.calls < MaxReads
  /\ acc' = [acc EXCEPT !.pc = "status", !.cal = cal, !.offset = OffsetAt(cal)]
  /\ log' = [log EXCEPT !.calls = @ + 1, !.rest = IF cal THEN Unmeasured ELSE @]
  /\ UNCHANGED <<apds, gest, mpu>>

Returned(res) == [acc EXCEPT !.pc = "idle", !.res = res]

\* The callback, or the status register, which the read clears; a bus error 1 is
\* returned as it is, and is MPU6050_BUSY.  mpu6050_zero_cal tries again when BUSY.
ReadReady(error) ==
  /\ acc.pc = "status" /\ (acc.pin => error = 0)
  /\ mpu' = IF error = 0 /\ ~acc.pin THEN [mpu EXCEPT !.ready = FALSE] ELSE mpu
  /\ acc' = IF error > 1 THEN Returned("error")
            ELSE IF error = 0 /\ mpu.ready THEN [acc EXCEPT !.pc = "data"]
            ELSE IF acc.cal THEN acc ELSE Returned("BUSY")
  /\ UNCHANGED <<apds, gest, log>>

\* Mutant: the burst begins behind the status register and leaves the flag.
BurstKeepsFlag == mpu

\* The burst begins with the status register: a measurement that came after the
\* first read of it is taken, and its flag cleared.
Burst == [mpu EXCEPT !.ready = FALSE]

\* What is read with one measurement: the flag and the registers behind it.
Read == [flag |-> IF mpu.ready THEN 1 ELSE 0, acc |-> mpu.acc]

\* The 14 bytes of the burst: it begins at the status register, so the last one of the
\* measurement is missing.
Bytes(m) == [k \in 1..14 |-> IF k = 1 THEN m.flag ELSE m.acc[k - 1]]

\* They are taken for a struct acc_measdata as they are, on a little-endian host.
Word(bytes, f) == bytes[2 * f - 1] + 256 * bytes[2 * f]

\* raw -= offset in 16 bits.
Corrected(f) == (Word(Bytes(Read), f) + Span - acc.offset[f]) % Span

ReadAcc(error) ==
  /\ acc.pc = "data"
  /\ mpu' = IF error = 0 THEN Burst ELSE mpu
  /\ acc' = IF error > 0 THEN Returned("error")
            ELSE LET raw == [f \in Fields |-> Corrected(f)]
                 IN  [Returned("SUCCESS") EXCEPT !.raw = raw, !.offset = IF acc.cal THEN [raw EXCEPT ![Temp] = 0] ELSE @]
  /\ log' = IF error > 0 THEN log
            ELSE [log EXCEPT !.got = Append(@, mpu.num), !.last = Read, !.rest = IF acc.cal THEN Read ELSE @]
  /\ UNCHANGED <<apds, gest>>

\* The program makes no further calls.
Enough == gest.pc = "idle" /\ acc.pc = "idle" /\ log.calls = MaxReads /\ UNCHANGED vars

Next ==
  \/ Enough
  \/ \E s \in Samples : Gesture(s)
  \/ GestureStart \/ ReadStatus \/ ReadLevel \/ ReadFifo \/ GestureEnd
  \/ \E b \in BOOLEAN : GestureEmpty(b) \/ WaitIrq(b) \/ AccStart(b)
  \/ \E a \in Accs : Measure(a)
  \/ \E e \in 0..2 : ReadReady(e) \/ ReadAcc(e)

-----------------------------------------------------------------------------
TypeOK ==
  /\ gest.level \in 0..Fifo /\ gest.level <= Len(apds.fifo)
  /\ acc.raw \in [Fields -> 0..(Span - 1)] /\ acc.offset \in [Fields -> 0..(Span - 1)]

GestureOfEnds ==
  gest.pc = "idle" /\ gest.res # "none" =>
    /\ ~apds.on
    /\ IF Len(log.valid) > 1 THEN gest.res = proccess_gesture(log.valid[1], log.valid[Len(log.valid)]) ELSE gest.res \notin Dirs

OneAxisOnly ==
  gest.pc = "idle" /\ gest.res \in Dirs =>
    LET first == log.valid[1]   last == log.valid[Len(log.valid)]
        ud == MoveUd(first, last)   lr == MoveLr(first, last)
    IN  CASE gest.res = "DIR_UP" -> ud > 10 [] gest.res = "DIR_LEFT" -> lr > 10
          [] OTHER -> ud < -10 /\ lr < -10

FreshOnce == \A i, j \in DOMAIN log.got : i < j => log.got[i] < log.got[j]

\* Reference: the word in which a field arrives.  Its high byte is the field's own one,
\* its low byte the low one of the field before, or the status register for the first.
Seen(m, f) == (IF f = 1 THEN m.flag ELSE m.acc[2 * f - 2]) + 256 * m.acc[2 * f - 1]

ZeroExact ==
  acc.pc = "idle" /\ acc.res = "SUCCESS" =>
    \A f \in Fields \ {Temp} :
      /\ acc.offset[f] = Seen(log.rest, f)
      /\ acc.raw[f] = IF acc.cal THEN Seen(log.last, f) ELSE (Seen(log.last, f) + Span - Seen(log.rest, f)) % Span

\* Reference: the value the sensor measured, the high byte first.
Measured(m, f) == 256 * m.acc[2 * f - 1] + m.acc[2 * f]

MeasurementRead ==
  acc.pc = "idle" /\ acc.res = "SUCCESS" /\ log.rest = Unmeasured =>
    \A f \in Fields : acc.raw[f] = Measured(log.last, f)
=============================================================================
