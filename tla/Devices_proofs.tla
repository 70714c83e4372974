--------------------------- MODULE Devices_proofs ---------------------------
(***************************************************************************)
(* Proofs about the drivers of Devices.  A behaviour is that of one of     *)
(* them, so each invariant says what holds of its own part.                *)
(***************************************************************************)
EXTENDS Devices, Arithmetic, FiniteSetTheorems, TLAPS

-----------------------------------------------------------------------------
(***************************************************************************)
(* The state machines.                                                     *)
(***************************************************************************)
MachineTypes ==
  /\ machine \in [lang : {"c"}, has : [States -> SUBSET SM!Callbacks], cur : States, entered : BOOLEAN]
                 \cup [lang : {"cpp"}, has : {<<>>}, cur : States, entered : BOOLEAN]
  /\ history \in [inside : SUBSET States, missed : BOOLEAN, outside : BOOLEAN]

\* The state whose enter() is done is inside, unless a C++ exit() named a state
\* that does not exist.
EnteredInside ==
  machine.entered /\ SM!has(machine.cur, "enter")
    => machine.cur \in history.inside \/ (machine.lang = "cpp" /\ history.missed)

MachineInv == MachineTypes /\ EnteredInside /\ SM!InsideCurrent /\ SM!WorksInside

LEMMA MachineBegins == ASSUME SM!Init PROVE MachineInv
<1>1. SM!Parameters
  BY DevicesAssumption
<1> QED
  BY <1>1 DEF SM!Init, SM!Parameters, MachineInv, MachineTypes, EnteredInside, SM!InsideCurrent, SM!WorksInside

LEMMA MachineStepC ==
  ASSUME MachineInv, NEW enter, NEW work, NEW exit, SM!state_machine_do_step(enter, work, exit)
  PROVE  MachineInv'
<1> DEFINE s == machine.cur
           enters == SM!has(s, "enter") /\ ~machine.entered
           redirect == enters /\ enter # Stay
           works == ~redirect /\ SM!has(s, "work")
           moves == works /\ work # Stay
           exits == SM!has(s, "exit") /\ (redirect \/ moves)
           next == IF exits /\ exit # Stay THEN exit ELSE IF redirect THEN enter ELSE work
           during == IF enters \/ ~SM!has(s, "enter") THEN history.inside \cup {s} ELSE history.inside
           left == exits \/ (moves /\ ~SM!has(s, "exit"))
<1>1. /\ machine.lang = "c"
      /\ {enter, work, exit} \subseteq States \cup {Stay}
      /\ machine' = [machine EXCEPT !.cur = IF redirect \/ moves THEN next ELSE @,
                                    !.entered = ~(redirect \/ moves) /\ (@ \/ enters)]
      /\ history' = [inside |-> IF left THEN during \ {s} ELSE during,
                     missed |-> history.missed \/ FALSE,
                     outside |-> history.outside \/ (s \notin during /\ (works \/ exits))]
  BY DEF SM!state_machine_do_step, SM!Record, SM!Leaves
<1>2. machine \in [lang : {"c"}, has : [States -> SUBSET SM!Callbacks], cur : States, entered : BOOLEAN]
  BY <1>1 DEF MachineInv, MachineTypes
<1>3. /\ machine'.lang = "c" /\ machine'.has = machine.has
      /\ machine'.cur = IF redirect \/ moves THEN next ELSE s
      /\ machine'.entered = (~(redirect \/ moves) /\ (machine.entered \/ enters))
      /\ machine'.cur \in States
  BY <1>1, <1>2
<1>4. MachineTypes'
  BY <1>1, <1>2, <1>3 DEF MachineTypes, MachineInv
<1>5. EnteredInside'
  BY <1>1, <1>2, <1>3 DEF EnteredInside, SM!has, MachineInv, MachineTypes
<1>6. SM!InsideCurrent'
  BY <1>1, <1>2, <1>3 DEF SM!InsideCurrent, SM!has, MachineInv, MachineTypes
<1>7. SM!WorksInside'
  BY <1>1, <1>2, <1>3 DEF SM!WorksInside, EnteredInside, SM!has, MachineInv, MachineTypes
<1> QED
  BY <1>4, <1>5, <1>6, <1>7 DEF MachineInv

LEMMA MachineStepCpp ==
  ASSUME MachineInv, NEW enter \in States \cup {Stay, Unknown}, NEW work \in States \cup {Stay, Unknown},
         NEW exit \in States \cup {Stay, Unknown}, SM!DoStep(enter, work, exit)
  PROVE  MachineInv'
<1> DEFINE s == machine.cur
           enters == ~machine.entered
           redirect == enters /\ enter # Stay
           moves == ~redirect /\ work # Stay
           exits == moves /\ work # Unknown
           next == IF redirect THEN enter ELSE IF exits /\ exit # Stay THEN exit ELSE work
           changed == exits /\ next # Unknown
           during == IF enters THEN history.inside \cup {s} ELSE history.inside
<1>1. /\ machine.lang = "cpp"
      /\ machine' = [machine EXCEPT !.cur = IF (redirect \/ moves) /\ next # Unknown THEN next ELSE @,
                                    !.entered = ~redirect /\ ~changed]
      /\ history' = [inside |-> IF exits THEN during \ {s} ELSE during,
                     missed |-> history.missed \/ (exits /\ ~changed),
                     outside |-> history.outside \/ (s \notin during /\ (~redirect \/ exits))]
  BY DEF SM!DoStep, SM!Record, SM!Entered, SM!has
<1>2. machine \in [lang : {"cpp"}, has : {<<>>}, cur : States, entered : BOOLEAN]
  BY <1>1 DEF MachineInv, MachineTypes
<1>3. /\ machine'.lang = "cpp" /\ machine'.has = machine.has
      /\ machine'.cur = IF (redirect \/ moves) /\ next # Unknown THEN next ELSE s
      /\ machine'.entered = (~redirect /\ ~changed)
      /\ machine'.cur \in States
  BY <1>1, <1>2
<1>4. MachineTypes'
  BY <1>1, <1>2, <1>3 DEF MachineTypes, MachineInv
<1>5. EnteredInside'
  BY <1>1, <1>2, <1>3 DEF EnteredInside, SM!has, MachineInv, MachineTypes
<1>6. SM!InsideCurrent'
  BY <1>3 DEF SM!InsideCurrent
<1>7. SM!WorksInside'
  BY <1>1, <1>2, <1>3 DEF SM!WorksInside, EnteredInside, SM!has, MachineInv, MachineTypes
<1> QED
  BY <1>4, <1>5, <1>6, <1>7 DEF MachineInv

LEMMA MachineSteps == ASSUME MachineInv, SM!Next PROVE MachineInv'
<1>1. PICK enter, work, exit \in States \cup {Stay, Unknown} :
        SM!state_machine_do_step(enter, work, exit) \/ SM!DoStep(enter, work, exit)
  BY DEF SM!Next
<1> QED
  BY <1>1, MachineStepC, MachineStepCpp

LEMMA MachineKeeps == Spec => [](part = "machine" => MachineInv)
<1> DEFINE I == part = "machine" => MachineInv
<1>1. Init => I
  BY MachineBegins DEF Init
<1>2. I /\ [Next]_vars => I'
  <2> SUFFICES ASSUME I, [Next]_vars PROVE I'
    OBVIOUS
  <2>1. CASE MachineStep
    <3>1. part = "machine" /\ SM!Next
      BY <2>1 DEF MachineStep, Others
    <3> QED
      BY <3>1, MachineSteps
  <2>2. CASE ~MachineStep
    <3>1. part' = part /\ (part = "machine" => UNCHANGED machineVars)
      BY <2>2 DEF Next, Others, RadioStep, RfidStep, I2CStep, OneWireStep, ClockStep, PinsStep, FrameStep, SensorsStep, vars
    <3> QED
      BY <3>1 DEF machineVars, MachineInv, MachineTypes, EnteredInside, SM!InsideCurrent, SM!WorksInside, SM!has
  <2> QED
    BY <2>1, <2>2
<1> QED
  BY <1>1, <1>2, PTL DEF Spec

\* Both machines run the callbacks of a state between its enter() and its exit(),
\* for every set of states, every table of callbacks and whatever they return.
THEOREM MachinesRunInside == Spec => []MachinesInOrder
<1>1. (part = "machine" => MachineInv) => MachinesInOrder
  BY DEF MachineInv, MachinesInOrder, InsideCurrent, WorksInside
<1> QED
  BY <1>1, MachineKeeps, PTL

-----------------------------------------------------------------------------
(***************************************************************************)
(* The radio drivers, against the chip that works on its own.              *)
(***************************************************************************)
Modes == {"RX", "TX"}
Flags == {"RX_DR", "TX_DS", "MAX_RT"}
Sending == {"s_wait", "s_res", "s_clear", "s_flush"}
Receiving == {"r_irq", "r_stat", "r_read", "r_fifo", "r_clear", "r_flush"}
RadioType == [ver : {"plus", "v4"}, pin : BOOLEAN, retr : BOOLEAN]
ConfType == [mode : Modes, power : BOOLEAN]
ChipType == [mode : Modes, power : BOOLEAN, fifo : Seq(Nat), irq : SUBSET Flags, tx : BOOLEAN, ce : BOOLEAN]
CallType == [pc : {"idle"} \cup Sending \cup Receiving, cnt : 0..PollCount, back : BOOLEAN,
             pipe : {0, RD!NoPipe}, res : BOOLEAN]
SeenType == [n : Nat, got : SUBSET Nat, raced : SUBSET Nat, sent : BOOLEAN, failed : BOOLEAN]

RadioTypes ==
  /\ radio \in RadioType /\ conf \in ConfType /\ chip \in ChipType /\ call \in CallType /\ seen \in SeenType
  /\ Len(chip.fifo) <= RD!FifoDepth
  /\ call.pc = "s_wait" => call.cnt > 0
  /\ ~RD!Plus => call.pc \notin {"r_stat", "r_flush"}

\* The chip is in the mode of the driver's copy also inside a call: it sends in TX
\* and reads in RX.
ModeKept ==
  RD!Plus =>
    /\ chip.mode = conf.mode /\ chip.power = conf.power
    /\ conf.mode = "RX" => chip.ce = conf.power
    /\ call.pc \in Sending => conf.mode = "TX"
    /\ call.pc \in Receiving => conf.mode = "RX"

Elems(f) == {f[i] : i \in DOMAIN f}

\* What the flag RX_DR says about the FIFO at each place of recv.  A flag without a
\* packet stays behind only after a packet came between clear_irq and the flush.
Announced ==
  /\ call.pc \in {"r_clear", "r_flush"} => Elems(chip.fifo) \subseteq seen.raced
  /\ "RX_DR" \notin chip.irq => Elems(chip.fifo) \subseteq seen.raced
  /\ RD!Plus /\ "RX_DR" \notin chip.irq /\ chip.fifo # <<>> => call.pc = "r_flush"
  /\ RD!Plus /\ call.pc = "r_stat" => "RX_DR" \in chip.irq
  /\ RD!Plus /\ "RX_DR" \in chip.irq /\ chip.fifo = <<>> /\ call.pc \notin {"r_fifo", "r_clear"} => seen.raced # {}
  /\ RD!Plus /\ call.pc \in {"r_read", "r_fifo"} /\ call.pipe = RD!NoPipe => seen.raced # {}
  /\ (1..seen.n) \ (seen.got \cup Elems(chip.fifo)) \subseteq seen.raced

\* As long as no send has failed, TX_DS is raised by the send that is under way.
SentTrue ==
  RD!Plus /\ ~seen.failed =>
    /\ "TX_DS" \in chip.irq => ~chip.tx
    /\ call.pc \in {"s_wait", "s_res"} /\ "TX_DS" \in chip.irq => seen.sent
    /\ call.pc = "s_res" /\ call.cnt # 0 => chip.irq \cap RD!TxIrq # {}
    /\ call.pc = "s_clear" => seen.sent /\ ~chip.tx
    /\ call.pc \notin {"s_wait", "s_res", "s_clear"} => "TX_DS" \notin chip.irq /\ ~chip.tx

RadioInv == RadioTypes /\ ModeKept /\ Announced /\ SentTrue

LEMMA RadioImplies == ASSUME RadioInv
  PROVE  RD!LostOnlyWhenRaced /\ RD!NoStranded /\ RD!PipeInRange /\ RD!SendTruthful /\ RD!ModeRestored /\ RD!TypeOK
<1>1. RD!InFifo = Elems(chip.fifo)
  BY DEF RD!InFifo, Elems
<1>2. RD!LostOnlyWhenRaced
  BY <1>1 DEF RadioInv, Announced, RD!LostOnlyWhenRaced
<1>3. RD!NoStranded
  <2> SUFFICES ASSUME RD!At("idle"), chip.fifo # <<>>, "RX_DR" \notin chip.irq
               PROVE  ~RD!Plus /\ RD!InFifo \cap seen.raced # {}
    BY DEF RD!NoStranded
  <2>1. ~RD!Plus
    BY DEF RadioInv, Announced, RD!At
  <2>2. chip.fifo \in Seq(Nat)
    BY DEF RadioInv, RadioTypes, ChipType
  <2>3. chip.fifo[1] \in Elems(chip.fifo)
    BY <2>2 DEF Elems
  <2> QED
    BY <1>1, <2>1, <2>3 DEF RadioInv, Announced
<1>4. RD!PipeInRange
  BY DEF RadioInv, Announced, RD!PipeInRange, RD!At
<1>5. RD!SendTruthful
  BY DEF RadioInv, SentTrue, RD!SendTruthful, RD!At
<1>6. RD!ModeRestored
  BY DEF RadioInv, ModeKept, RD!ModeRestored
<1>7. RD!TypeOK
  BY DEF RadioInv, RadioTypes, ConfType, ChipType, CallType, Flags, Modes, RD!TypeOK
<1> QED
  BY <1>2, <1>3, <1>4, <1>5, <1>6, <1>7

LEMMA EmptyElems == Elems(<<>>) = {} /\ <<>> \in Seq(Nat) /\ Len(<<>>) = 0
BY DEF Elems

LEMMA AppendElems ==
  ASSUME NEW S, NEW f \in Seq(S), NEW x \in S
  PROVE  /\ Append(f, x) \in Seq(S) /\ Len(Append(f, x)) = Len(f) + 1 /\ Append(f, x) # <<>>
         /\ Elems(Append(f, x)) = Elems(f) \cup {x}
<1> DEFINE g == Append(f, x)
<1>1. /\ g \in Seq(S) /\ Len(g) = Len(f) + 1 /\ g # <<>> /\ Len(f) \in Nat
      /\ DOMAIN g = 1..(Len(f) + 1) /\ DOMAIN f = 1..Len(f)
      /\ g[Len(f) + 1] = x /\ \A i \in 1..Len(f) : g[i] = f[i]
  OBVIOUS
<1> HIDE DEF g
<1>2. Elems(g) = Elems(f) \cup {x}
  BY <1>1 DEF Elems
<1> QED
  BY <1>1, <1>2 DEF g

LEMMA TailElems ==
  ASSUME NEW f \in Seq(Nat), f # <<>>
  PROVE  /\ Tail(f) \in Seq(Nat) /\ Len(Tail(f)) < Len(f)
         /\ Elems(f) = Elems(Tail(f)) \cup {Head(f)} /\ Head(f) \in Nat
<1> DEFINE g == Tail(f)
           L == Len(f)
<1>1. /\ g \in Seq(Nat) /\ L \in Nat /\ L > 0 /\ Len(g) = L - 1 /\ DOMAIN g = 1..(L - 1) /\ DOMAIN f = 1..L
      /\ f[1] = Head(f) /\ f[1] \in Nat /\ \A i \in 1..(L - 1) : g[i] = f[i + 1]
  OBVIOUS
<1> HIDE DEF g, L
<1>2. \A i \in 1..L : i = 1 \/ (i - 1 \in 1..(L - 1) /\ f[i] = g[i - 1])
  BY <1>1
<1>3. ASSUME NEW y \in Elems(f) PROVE y \in Elems(g) \cup {f[1]}
  <2>1. PICK i \in 1..L : y = f[i]
    BY <1>1 DEF Elems
  <2> QED
    BY <1>1, <1>2, <2>1 DEF Elems
<1>4. \A i \in 1..(L - 1) : i + 1 \in 1..L
  BY <1>1
<1>5. ASSUME NEW y \in Elems(g) PROVE y \in Elems(f)
  <2>1. PICK i \in 1..(L - 1) : y = g[i]
    BY <1>1 DEF Elems
  <2>2. y = f[i + 1] /\ i + 1 \in DOMAIN f
    BY <1>1, <1>4, <2>1
  <2> QED
    BY <2>2 DEF Elems
<1>6. f[1] \in Elems(f)
  BY <1>1 DEF Elems
<1> QED
  BY <1>1, <1>3, <1>5, <1>6 DEF g, L

LEMMA RadioBegins == ASSUME RD!Init PROVE RadioInv
<1>1. PollCount \in Nat
  BY DevicesAssumption DEF RD!Parameters
<1>2. radio \in RadioType /\ conf \in ConfType
  BY DEF RD!Init, RadioType, ConfType, Modes
<1>3. call \in CallType /\ call.pc = "idle"
  BY <1>1 DEF RD!Init, CallType
<1>4. /\ seen = [n |-> 0, got |-> {}, raced |-> {}, sent |-> FALSE, failed |-> FALSE]
      /\ seen \in SeenType
  BY DEF RD!Init, SeenType
<1> DEFINE e == <<>>
           on == IF RD!Plus THEN RD!nrf24l01_init(conf.mode, conf.power) ELSE RD!RF_Init(conf.mode, conf.power)
<1>5. chip = [mode |-> conf.mode, power |-> conf.power, fifo |-> e, irq |-> {}, tx |-> FALSE, ce |-> on]
  BY DEF RD!Init
<1>6. on \in BOOLEAN /\ (RD!Plus => on = (conf.mode = "RX" /\ conf.power)) /\ e \in Seq(Nat)
  BY EmptyElems, <1>2 DEF RD!nrf24l01_init, RD!RF_Init, ConfType
<1>7. Elems(e) = {} /\ Len(e) = 0 /\ e = <<>>
  BY EmptyElems
<1> HIDE DEF e, on
<1>8. chip \in ChipType
  BY <1>2, <1>5, <1>6 DEF ChipType, ConfType
<1>9. RadioTypes
  BY <1>2, <1>3, <1>4, <1>5, <1>7, <1>8 DEF RadioTypes, RD!FifoDepth
<1>10. ModeKept
  BY <1>2, <1>3, <1>5, <1>6 DEF ModeKept, ConfType, Sending, Receiving
<1>11. Announced
  BY <1>3, <1>4, <1>5, <1>7 DEF Announced
<1>12. SentTrue
  BY <1>3, <1>5 DEF SentTrue
<1> QED
  BY <1>9, <1>10, <1>11, <1>12 DEF RadioInv

LEMMA RadioAirArrive == ASSUME RadioInv, RD!AirArrive PROVE RadioInv'
<1> DEFINE n == seen.n + 1
           f == Append(chip.fifo, n)
           q == chip.irq \cup {"RX_DR"}
           r == IF call.pc \in {"r_clear", "r_flush"} THEN seen.raced \cup {n} ELSE seen.raced
<1>1. /\ Len(chip.fifo) < RD!FifoDepth /\ UNCHANGED <<radio, conf, call>>
      /\ chip' = [chip EXCEPT !.fifo = f, !.irq = q] /\ seen' = [seen EXCEPT !.n = n, !.raced = r]
  BY DEF RD!AirArrive
<1>2. chip \in ChipType /\ seen \in SeenType /\ chip.fifo \in Seq(Nat)
  BY DEF RadioInv, RadioTypes, ChipType
<1>3. n \in Nat /\ q \in SUBSET Flags /\ r \in SUBSET Nat /\ seen.raced \subseteq r
  BY <1>2 DEF ChipType, SeenType, Flags
<1>4. f \in Seq(Nat) /\ Len(f) = Len(chip.fifo) + 1 /\ f # <<>> /\ Elems(f) = Elems(chip.fifo) \cup {n}
  BY <1>2, <1>3, AppendElems
<1>5. 1..n = (1..seen.n) \cup {n}
  BY <1>2 DEF SeenType
<1>6. call.pc \in {"r_clear", "r_flush"} => n \in r
  OBVIOUS
<1>7. "RX_DR" \in q /\ ("TX_DS" \in q => "TX_DS" \in chip.irq) /\ chip.irq \subseteq q
  OBVIOUS
<1>8. Len(f) <= RD!FifoDepth
  BY <1>1, <1>2, <1>4 DEF RD!FifoDepth
<1> HIDE DEF n, f, q, r
<1>9. /\ chip' \in ChipType /\ chip'.fifo = f /\ chip'.irq = q /\ chip'.mode = chip.mode /\ chip'.power = chip.power
      /\ chip'.ce = chip.ce /\ chip'.tx = chip.tx
  BY <1>1, <1>2, <1>3, <1>4 DEF ChipType
<1>10. /\ seen' \in SeenType /\ seen'.n = n /\ seen'.raced = r /\ seen'.got = seen.got /\ seen'.sent = seen.sent
       /\ seen'.failed = seen.failed
  BY <1>1, <1>2, <1>3 DEF SeenType
<1>11. RadioTypes'
  BY <1>1, <1>8, <1>9, <1>10 DEF RadioInv, RadioTypes, RD!Plus, RD!FifoDepth
<1>12. ModeKept'
  BY <1>1, <1>9 DEF RadioInv, ModeKept, RD!Plus
<1>13. Announced'
  BY <1>1, <1>3, <1>4, <1>5, <1>6, <1>7, <1>9, <1>10 DEF RadioInv, Announced, RD!Plus, RD!NoPipe
<1>14. SentTrue'
  BY <1>1, <1>7, <1>9, <1>10 DEF RadioInv, SentTrue, RD!Plus, RD!TxIrq
<1> QED
  BY <1>11, <1>12, <1>13, <1>14 DEF RadioInv

LEMMA RadioTransmit == ASSUME RadioInv, RD!Transmit PROVE RadioInv'
<1>1. /\ chip.mode = "TX" /\ chip.tx /\ UNCHANGED <<radio, conf, call>> /\ chip \in ChipType /\ seen \in SeenType
  BY DEF RD!Transmit, RadioInv, RadioTypes
<1> DEFINE q == chip.irq \cup {"TX_DS"}
           p == chip.irq \cup {"MAX_RT"}
<1>2. \/ chip' = [chip EXCEPT !.tx = FALSE, !.irq = q] /\ seen' = [seen EXCEPT !.sent = TRUE]
      \/ chip' = [chip EXCEPT !.irq = p] /\ seen' = seen
  BY DEF RD!Transmit
<1>3. q \in SUBSET Flags /\ p \in SUBSET Flags
  BY <1>1 DEF ChipType, Flags
<1>4. /\ "RX_DR" \in q <=> "RX_DR" \in chip.irq
      /\ "RX_DR" \in p <=> "RX_DR" \in chip.irq
      /\ "TX_DS" \in p <=> "TX_DS" \in chip.irq
      /\ chip.irq \subseteq p /\ chip.irq \subseteq q /\ "TX_DS" \in q
  OBVIOUS
<1> HIDE DEF q, p
<1>5. /\ chip' \in ChipType /\ chip'.fifo = chip.fifo /\ chip'.mode = chip.mode /\ chip'.power = chip.power
      /\ chip'.ce = chip.ce /\ ("RX_DR" \in chip'.irq <=> "RX_DR" \in chip.irq) /\ chip.irq \subseteq chip'.irq
      /\ seen' \in SeenType /\ seen'.n = seen.n /\ seen'.raced = seen.raced /\ seen'.got = seen.got
      /\ seen'.failed = seen.failed
  BY <1>1, <1>2, <1>3, <1>4 DEF ChipType, SeenType
<1>6. \/ ~chip'.tx /\ seen'.sent
      \/ chip'.tx = chip.tx /\ seen'.sent = seen.sent /\ ("TX_DS" \in chip'.irq <=> "TX_DS" \in chip.irq)
  BY <1>1, <1>2, <1>4 DEF ChipType, SeenType
<1>7. RadioTypes'
  BY <1>1, <1>5 DEF RadioInv, RadioTypes, RD!Plus, RD!FifoDepth
<1>8. ModeKept'
  BY <1>1, <1>5 DEF RadioInv, ModeKept, RD!Plus
<1>9. Announced'
  BY <1>1, <1>5 DEF RadioInv, Announced, RD!Plus, RD!NoPipe
<1>10. SentTrue'
  <2> SUFFICES ASSUME RD!Plus, ~seen.failed PROVE SentTrue'
    BY <1>1, <1>5 DEF SentTrue, RD!Plus
  <2>1. call.pc \in {"s_wait", "s_res"}
    BY <1>1 DEF RadioInv, SentTrue
  <2> QED
    BY <1>1, <1>5, <1>6, <2>1 DEF RadioInv, SentTrue, RD!Plus, RD!TxIrq
<1> QED
  BY <1>7, <1>8, <1>9, <1>10 DEF RadioInv

\* The mode and CE of the chip change between two calls, and nothing else.
LEMMA RadioModeChanges ==
  ASSUME RadioInv, call.pc = "idle", NEW m \in Modes, NEW w \in BOOLEAN, NEW e \in BOOLEAN,
         chip' = [chip EXCEPT !.mode = m, !.power = w, !.ce = e],
         conf' = [mode |-> m, power |-> w], RD!Plus /\ m = "RX" => e = w, UNCHANGED <<radio, call, seen>>
  PROVE  RadioInv'
<1>1. /\ chip' \in ChipType /\ chip'.fifo = chip.fifo /\ chip'.irq = chip.irq /\ chip'.mode = m /\ chip'.power = w
      /\ chip'.ce = e /\ chip'.tx = chip.tx
  BY DEF RadioInv, RadioTypes, ChipType
<1>2. conf' \in ConfType /\ conf'.mode = m /\ conf'.power = w
  BY DEF ConfType
<1>3. RadioTypes'
  BY <1>1, <1>2 DEF RadioInv, RadioTypes, RD!Plus, RD!FifoDepth
<1>4. ModeKept'
  BY <1>1, <1>2 DEF RadioInv, ModeKept, RD!Plus, Sending, Receiving
<1>5. Announced'
  BY <1>1 DEF RadioInv, Announced, RD!Plus, RD!NoPipe
<1>6. SentTrue'
  BY <1>1 DEF RadioInv, SentTrue, RD!Plus, RD!TxIrq
<1> QED
  BY <1>3, <1>4, <1>5, <1>6 DEF RadioInv

\* The older driver's modes do not matter: no invariant of it is about them.
LEMMA RadioForeign ==
  ASSUME RadioInv, ~RD!Plus, UNCHANGED <<radio, call, seen>>, conf' \in ConfType, chip' \in ChipType,
         chip'.fifo = chip.fifo, chip'.irq = chip.irq
  PROVE  RadioInv'
<1>1. RadioTypes' /\ ModeKept' /\ SentTrue'
  BY DEF RadioInv, RadioTypes, ModeKept, SentTrue, RD!Plus, RD!FifoDepth
<1>2. Announced'
  BY DEF RadioInv, Announced, RD!Plus, RD!NoPipe
<1> QED
  BY <1>1, <1>2 DEF RadioInv

LEMMA RadioModes ==
  ASSUME RadioInv,
         \/ \E mode \in Modes, power \in BOOLEAN : RD!SwitchMode(mode, power)
         \/ RD!sleep \/ RD!wakeup
         \/ \E mode \in Modes : RD!RF_Switch_RX_TX(mode)
         \/ \E power \in BOOLEAN : RD!RF_Sleep_WakeUp(power)
  PROVE  RadioInv'
<1>1. /\ conf \in ConfType /\ chip \in ChipType /\ conf.mode \in Modes /\ conf.power \in BOOLEAN
      /\ chip.mode \in Modes /\ chip.power \in BOOLEAN /\ chip.ce \in BOOLEAN
      /\ conf = [mode |-> conf.mode, power |-> conf.power]
  BY DEF RadioInv, RadioTypes, ConfType, ChipType
<1>2. ASSUME NEW mode \in Modes, NEW power \in BOOLEAN, RD!SwitchMode(mode, power) PROVE RadioInv'
  <2> DEFINE e == IF mode = "RX" THEN power ELSE chip.ce
  <2>1. /\ chip' = [chip EXCEPT !.mode = mode, !.power = power, !.ce = e] /\ conf' = [mode |-> mode, power |-> power]
        /\ call.pc = "idle" /\ UNCHANGED <<radio, call, seen>>
    BY <1>2 DEF RD!SwitchMode, RD!switch_mode, RD!At
  <2>2. e \in BOOLEAN /\ (mode = "RX" => e = power)
    BY <1>1
  <2> HIDE DEF e
  <2> QED
    BY <2>1, <2>2, RadioModeChanges
<1>3. ASSUME RD!sleep PROVE RadioInv'
  <2> DEFINE c == [chip EXCEPT !.ce = FALSE]
             e == IF conf.mode = "RX" THEN FALSE ELSE c.ce
  <2>1. /\ chip' = [c EXCEPT !.mode = conf.mode, !.power = FALSE, !.ce = e]
        /\ conf' = [conf EXCEPT !.power = FALSE] /\ call.pc = "idle" /\ UNCHANGED <<radio, call, seen>>
    BY <1>3 DEF RD!sleep, RD!switch_mode, RD!At
  <2>2. /\ chip' = [chip EXCEPT !.mode = conf.mode, !.power = FALSE, !.ce = FALSE]
        /\ conf' = [mode |-> conf.mode, power |-> FALSE]
    BY <1>1, <2>1 DEF ConfType, ChipType
  <2> QED
    BY <1>1, <2>1, <2>2, RadioModeChanges
<1>4. ASSUME RD!wakeup PROVE RadioInv'
  <2> DEFINE e == IF conf.mode = "RX" THEN TRUE ELSE chip.ce
             c == [chip EXCEPT !.mode = conf.mode, !.power = TRUE, !.ce = e]
  <2>1. /\ chip' = [c EXCEPT !.ce = IF conf.mode = "RX" THEN TRUE ELSE c.ce]
        /\ conf' = [conf EXCEPT !.power = TRUE] /\ call.pc = "idle" /\ UNCHANGED <<radio, call, seen>>
    BY <1>4 DEF RD!wakeup, RD!switch_mode, RD!At
  <2>2. e \in BOOLEAN /\ (conf.mode = "RX" => e = TRUE)
    BY <1>1
  <2>3. c.ce = e /\ (IF conf.mode = "RX" THEN TRUE ELSE c.ce) = e
    BY <1>1 DEF ChipType
  <2>4. chip' = [c EXCEPT !.ce = e]
    BY <2>1, <2>3
  <2> HIDE DEF e
  <2>5. chip' = [chip EXCEPT !.mode = conf.mode, !.power = TRUE, !.ce = e]
    BY <1>1, <2>2, <2>4 DEF ChipType
  <2>6. conf' = [mode |-> conf.mode, power |-> TRUE]
    BY <1>1, <2>1 DEF ConfType
  <2> QED
    BY <1>1, <2>1, <2>2, <2>5, <2>6, RadioModeChanges
<1>5. ASSUME NEW mode \in Modes, RD!RF_Switch_RX_TX(mode) PROVE RadioInv'
  <2>1. /\ ~RD!Plus /\ call.pc = "idle" /\ UNCHANGED <<radio, call, seen>>
        /\ chip' = [chip EXCEPT !.mode = mode, !.ce = TRUE] /\ conf' = [conf EXCEPT !.mode = mode]
    BY <1>5 DEF RD!RF_Switch_RX_TX, RD!At
  <2>2. chip' \in ChipType /\ conf' \in ConfType /\ chip'.fifo = chip.fifo /\ chip'.irq = chip.irq
    BY <1>1, <2>1 DEF ChipType, ConfType
  <2> QED
    BY <2>1, <2>2, RadioForeign
<1>6. ASSUME NEW power \in BOOLEAN, RD!RF_Sleep_WakeUp(power) PROVE RadioInv'
  <2>1. /\ ~RD!Plus /\ call.pc = "idle" /\ UNCHANGED <<radio, call, seen>>
        /\ chip' = [chip EXCEPT !.power = power] /\ conf' = [conf EXCEPT !.power = power]
    BY <1>6 DEF RD!RF_Sleep_WakeUp, RD!At
  <2>2. chip' \in ChipType /\ conf' \in ConfType /\ chip'.fifo = chip.fifo /\ chip'.irq = chip.irq
    BY <1>1, <2>1 DEF ChipType, ConfType
  <2> QED
    BY <2>1, <2>2, RadioForeign
<1> QED
  BY <1>2, <1>3, <1>4, <1>5, <1>6

LEMMA RadioSendStart == ASSUME RadioInv, NEW b \in BOOLEAN, RD!SendStart(b) PROVE RadioInv'
<1> DEFINE back == IF RD!Plus THEN conf.mode = "RX" ELSE b
           m == IF RD!Plus THEN "TX" ELSE chip.mode
           w == IF RD!Plus THEN TRUE ELSE chip.power
<1>1. /\ call.pc = "idle" /\ UNCHANGED radio
      /\ call' = [call EXCEPT !.pc = "s_wait", !.cnt = PollCount, !.back = back]
      /\ conf' = IF RD!Plus THEN [mode |-> "TX", power |-> TRUE] ELSE conf
      /\ chip' = RD!Loaded(IF RD!Plus THEN RD!switch_mode(chip, "TX", TRUE) ELSE chip)
      /\ seen' = [seen EXCEPT !.sent = FALSE]
  BY DEF RD!SendStart, RD!At
<1>2. chip \in ChipType /\ call \in CallType /\ seen \in SeenType /\ conf \in ConfType
  BY DEF RadioInv, RadioTypes
<1>3. PollCount \in Nat /\ PollCount > 0 /\ PollCount \in 0..PollCount
  BY DevicesAssumption DEF RD!Parameters
<1>4. back \in BOOLEAN
  OBVIOUS
<1>5. m \in Modes /\ w \in BOOLEAN /\ (RD!Plus => m = "TX" /\ w = TRUE)
  BY <1>2 DEF ChipType, Modes
<1>6. conf' \in ConfType /\ (RD!Plus => conf'.mode = "TX" /\ conf'.power = TRUE)
  BY <1>1, <1>2 DEF ConfType, Modes
<1>7. chip' = [chip EXCEPT !.mode = m, !.power = w, !.tx = TRUE, !.ce = TRUE]
  <2>1. CASE RD!Plus
    <3>1. chip' = [[chip EXCEPT !.mode = "TX", !.power = TRUE, !.ce = chip.ce] EXCEPT !.tx = TRUE, !.ce = TRUE]
      BY <1>1, <2>1 DEF RD!Loaded, RD!switch_mode
    <3>2. chip' = [chip EXCEPT !.mode = "TX", !.power = TRUE, !.tx = TRUE, !.ce = TRUE]
      BY <1>2, <3>1 DEF ChipType
    <3> QED
      BY <2>1, <3>2
  <2>2. CASE ~RD!Plus
    <3>1. chip' = [chip EXCEPT !.tx = TRUE, !.ce = TRUE] /\ m = chip.mode /\ w = chip.power
      BY <1>1, <2>2 DEF RD!Loaded
    <3> QED
      BY <1>2, <3>1 DEF ChipType
  <2> QED
    BY <2>1, <2>2
<1> HIDE DEF m, w, back
<1>8. /\ chip' \in ChipType /\ chip'.fifo = chip.fifo /\ chip'.irq = chip.irq /\ chip'.mode = m /\ chip'.power = w
  BY <1>2, <1>5, <1>7 DEF ChipType
<1>9. call' \in CallType /\ call'.pc = "s_wait" /\ call'.cnt = PollCount /\ call'.pipe = call.pipe
  BY <1>1, <1>2, <1>3, <1>4 DEF CallType, Sending
<1>10. /\ seen' \in SeenType /\ seen'.n = seen.n /\ seen'.raced = seen.raced /\ seen'.got = seen.got
       /\ seen'.failed = seen.failed
  BY <1>1, <1>2 DEF SeenType
<1>11. RadioTypes'
  BY <1>1, <1>3, <1>6, <1>8, <1>9, <1>10 DEF RadioInv, RadioTypes, RD!Plus, RD!FifoDepth
<1>12. ModeKept'
  BY <1>1, <1>5, <1>6, <1>8, <1>9 DEF ModeKept, RD!Plus, Receiving
<1>13. Announced'
  BY <1>1, <1>8, <1>9, <1>10 DEF RadioInv, Announced, RD!Plus, RD!NoPipe
<1>14. SentTrue'
  BY <1>1, <1>8, <1>9, <1>10 DEF RadioInv, SentTrue, RD!Plus, RD!TxIrq
<1> QED
  BY <1>11, <1>12, <1>13, <1>14 DEF RadioInv

LEMMA RadioSendPoll == ASSUME RadioInv, RD!SendPoll PROVE RadioInv'
<1> DEFINE left == IF RD!read_irq(RD!TxIrq) THEN call.cnt ELSE call.cnt - 1
           pc == IF RD!PollEnds(left) THEN "s_res" ELSE "s_wait"
<1>1. /\ call.pc = "s_wait" /\ call' = [call EXCEPT !.cnt = left, !.pc = pc]
      /\ UNCHANGED <<radio, conf, chip, seen>>
  BY DEF RD!SendPoll, RD!At
<1>2. call \in CallType /\ call.cnt \in 0..PollCount /\ call.cnt > 0 /\ PollCount \in Nat
  BY <1>1, DevicesAssumption DEF RadioInv, RadioTypes, CallType, RD!Parameters
<1>3. left \in 0..PollCount
  BY <1>2
<1>4. pc \in {"s_res", "s_wait"} /\ (pc = "s_wait" => left > 0)
  BY <1>2, <1>3 DEF RD!PollEnds
<1>5. pc = "s_res" /\ left # 0 /\ RD!Plus => chip.irq \cap RD!TxIrq # {}
  <2> SUFFICES ASSUME pc = "s_res", left # 0, RD!Plus PROVE chip.irq \cap RD!TxIrq # {}
    OBVIOUS
  <2>1. RD!read_irq(RD!TxIrq)
    BY <1>2 DEF RD!PollEnds
  <2>2. chip.mode = "TX"
    BY <1>1 DEF RadioInv, ModeKept, Sending
  <2> QED
    BY <2>1, <2>2 DEF RD!read_irq, RD!Unmasked
<1> HIDE DEF left, pc
<1>6. call' \in CallType /\ call'.pc = pc /\ call'.cnt = left /\ call'.pipe = call.pipe
  BY <1>1, <1>2, <1>3, <1>4 DEF CallType, Sending
<1>7. RadioTypes'
  BY <1>1, <1>4, <1>6 DEF RadioInv, RadioTypes, RD!Plus, RD!FifoDepth
<1>8. ModeKept'
  BY <1>1, <1>4, <1>6 DEF RadioInv, ModeKept, RD!Plus, Sending, Receiving
<1>9. Announced'
  BY <1>1, <1>4, <1>6 DEF RadioInv, Announced, RD!Plus, RD!NoPipe
<1>10. SentTrue'
  BY <1>1, <1>4, <1>5, <1>6 DEF RadioInv, SentTrue, RD!Plus, RD!TxIrq
<1> QED
  BY <1>7, <1>8, <1>9, <1>10 DEF RadioInv

LEMMA RadioSendResult == ASSUME RadioInv, RD!SendResult PROVE RadioInv'
<1> DEFINE r == IF RD!Plus THEN RD!send ELSE IF radio.retr THEN RD!RF_SendPayloadACK ELSE RD!RF_SendPayload
           e == chip.ce /\ (RD!Plus \/ call.back)
           g == seen.failed \/ call.cnt = 0 \/ "MAX_RT" \in chip.irq
<1>1. /\ call.pc = "s_res" /\ call' = [call EXCEPT !.pc = "s_clear", !.res = r]
      /\ chip' = [chip EXCEPT !.ce = e] /\ seen' = [seen EXCEPT !.failed = g] /\ UNCHANGED <<radio, conf>>
  BY DEF RD!SendResult, RD!At
<1>2. chip \in ChipType /\ call \in CallType /\ seen \in SeenType
  BY DEF RadioInv, RadioTypes
<1>3. r \in BOOLEAN /\ e \in BOOLEAN /\ g \in BOOLEAN
  BY <1>2 DEF ChipType, SeenType, RD!send, RD!RF_SendPayloadACK, RD!RF_SendPayload
<1>4. RD!Plus => e = chip.ce
  BY <1>2 DEF ChipType
<1>5. ~g => ~seen.failed /\ call.cnt # 0 /\ "MAX_RT" \notin chip.irq
  OBVIOUS
<1> HIDE DEF r, e, g
<1>6. /\ chip' \in ChipType /\ chip'.fifo = chip.fifo /\ chip'.irq = chip.irq /\ chip'.mode = chip.mode
      /\ chip'.power = chip.power /\ chip'.ce = e /\ chip'.tx = chip.tx
  BY <1>1, <1>2, <1>3 DEF ChipType
<1>7. call' \in CallType /\ call'.pc = "s_clear" /\ call'.cnt = call.cnt /\ call'.pipe = call.pipe
  BY <1>1, <1>2, <1>3 DEF CallType, Sending
<1>8. /\ seen' \in SeenType /\ seen'.n = seen.n /\ seen'.raced = seen.raced /\ seen'.got = seen.got
      /\ seen'.failed = g /\ seen'.sent = seen.sent
  BY <1>1, <1>2, <1>3 DEF SeenType
<1>9. RadioTypes'
  BY <1>1, <1>6, <1>7, <1>8 DEF RadioInv, RadioTypes, RD!Plus, RD!FifoDepth
<1>10. ModeKept'
  BY <1>1, <1>4, <1>6, <1>7 DEF RadioInv, ModeKept, RD!Plus, Sending, Receiving
<1>11. Announced'
  BY <1>1, <1>6, <1>7, <1>8 DEF RadioInv, Announced, RD!Plus, RD!NoPipe
<1>12. SentTrue'
  <2> SUFFICES ASSUME RD!Plus, ~g PROVE SentTrue'
    BY <1>1, <1>8 DEF SentTrue, RD!Plus
  <2>1. chip.irq \cap RD!TxIrq # {} /\ "MAX_RT" \notin chip.irq /\ ~seen.failed
    BY <1>1, <1>5 DEF RadioInv, SentTrue
  <2>2. "TX_DS" \in chip.irq
    BY <2>1 DEF RD!TxIrq
  <2>3. seen.sent /\ ~chip.tx
    BY <1>1, <2>1, <2>2 DEF RadioInv, SentTrue
  <2> QED
    BY <1>6, <1>7, <1>8, <2>3 DEF SentTrue
<1> QED
  BY <1>9, <1>10, <1>11, <1>12 DEF RadioInv

LEMMA RadioSendClear == ASSUME RadioInv, RD!SendClear PROVE RadioInv'
<1> DEFINE q == chip.irq \ RD!TxIrq
<1>1. /\ call.pc = "s_clear" /\ call' = [call EXCEPT !.pc = "s_flush"]
      /\ chip' = [chip EXCEPT !.irq = q] /\ UNCHANGED <<radio, conf, seen>>
  BY DEF RD!SendClear, RD!Clear, RD!Goto, RD!At
<1>2. chip \in ChipType /\ call \in CallType
  BY DEF RadioInv, RadioTypes
<1>3. q \in SUBSET Flags /\ ("RX_DR" \in q <=> "RX_DR" \in chip.irq) /\ "TX_DS" \notin q
  BY <1>2 DEF ChipType, RD!TxIrq
<1> HIDE DEF q
<1>4. /\ chip' \in ChipType /\ chip'.fifo = chip.fifo /\ chip'.irq = q /\ chip'.mode = chip.mode
      /\ chip'.power = chip.power /\ chip'.ce = chip.ce /\ chip'.tx = chip.tx
  BY <1>1, <1>2, <1>3 DEF ChipType
<1>5. call' \in CallType /\ call'.pc = "s_flush" /\ call'.cnt = call.cnt /\ call'.pipe = call.pipe
  BY <1>1, <1>2 DEF CallType, Sending
<1>6. RadioTypes'
  BY <1>1, <1>4, <1>5 DEF RadioInv, RadioTypes, RD!Plus, RD!FifoDepth
<1>7. ModeKept'
  BY <1>1, <1>4, <1>5 DEF RadioInv, ModeKept, RD!Plus, Sending, Receiving
<1>8. Announced'
  BY <1>1, <1>3, <1>4, <1>5 DEF RadioInv, Announced, RD!Plus, RD!NoPipe
<1>9. SentTrue'
  BY <1>1, <1>3, <1>4, <1>5 DEF RadioInv, SentTrue, RD!Plus, RD!TxIrq
<1> QED
  BY <1>6, <1>7, <1>8, <1>9 DEF RadioInv

LEMMA RadioSendEnd == ASSUME RadioInv, RD!SendEnd PROVE RadioInv'
<1> DEFINE c == [chip EXCEPT !.tx = FALSE]
           e == IF RD!Plus THEN FALSE ELSE chip.ce
<1>1. /\ call.pc = "s_flush" /\ call' = [call EXCEPT !.pc = "idle"] /\ UNCHANGED <<radio, seen>>
      /\ \/ /\ RD!Plus /\ conf' = [mode |-> "RX", power |-> TRUE]
            /\ chip' = [c EXCEPT !.mode = "RX", !.power = TRUE, !.ce = TRUE]
         \/ /\ conf' = conf /\ chip' = [c EXCEPT !.ce = IF RD!Plus THEN FALSE ELSE c.ce]
  BY DEF RD!SendEnd, RD!Goto, RD!At, RD!switch_mode
<1>2. chip \in ChipType /\ call \in CallType /\ conf \in ConfType
  BY DEF RadioInv, RadioTypes
<1>3. c.ce = chip.ce /\ e \in BOOLEAN
  BY <1>2 DEF ChipType
<1>4. \/ /\ RD!Plus /\ conf' = [mode |-> "RX", power |-> TRUE]
         /\ chip' = [c EXCEPT !.mode = "RX", !.power = TRUE, !.ce = TRUE]
      \/ conf' = conf /\ chip' = [c EXCEPT !.ce = e]
  BY <1>1, <1>3
<1>5. c \in ChipType /\ c.fifo = chip.fifo /\ c.irq = chip.irq /\ c.mode = chip.mode /\ c.power = chip.power /\ c.tx = FALSE
  BY <1>2 DEF ChipType
<1> HIDE DEF c, e
<1>6. /\ chip' \in ChipType /\ chip'.fifo = chip.fifo /\ chip'.irq = chip.irq /\ chip'.tx = FALSE /\ conf' \in ConfType
      /\ \/ chip'.mode = "RX" /\ chip'.power = TRUE /\ chip'.ce = TRUE /\ conf'.mode = "RX" /\ conf'.power = TRUE
         \/ chip'.mode = chip.mode /\ chip'.power = chip.power /\ conf' = conf
  <2>1. CASE /\ RD!Plus /\ conf' = [mode |-> "RX", power |-> TRUE]
             /\ chip' = [c EXCEPT !.mode = "RX", !.power = TRUE, !.ce = TRUE]
    <3>1. conf' \in ConfType /\ conf'.mode = "RX" /\ conf'.power = TRUE
      BY <2>1 DEF ConfType, Modes
    <3>2. chip' \in ChipType /\ chip'.fifo = chip.fifo /\ chip'.irq = chip.irq
      BY <1>5, <2>1 DEF ChipType, Modes
    <3>3. chip'.tx = FALSE /\ chip'.mode = "RX" /\ chip'.power = TRUE /\ chip'.ce = TRUE
      BY <1>5, <2>1 DEF ChipType
    <3> QED
      BY <3>1, <3>2, <3>3
  <2>2. CASE conf' = conf /\ chip' = [c EXCEPT !.ce = e]
    <3>1. /\ chip' \in ChipType /\ chip'.fifo = chip.fifo /\ chip'.irq = chip.irq /\ chip'.mode = chip.mode
          /\ chip'.power = chip.power
      BY <1>3, <1>5, <2>2 DEF ChipType
    <3>2. chip'.tx = FALSE
      BY <1>5, <2>2 DEF ChipType
    <3> QED
      BY <1>2, <2>2, <3>1, <3>2
  <2> QED
    BY <1>4, <2>1, <2>2
<1>7. call' \in CallType /\ call'.pc = "idle" /\ call'.cnt = call.cnt /\ call'.pipe = call.pipe
  BY <1>1, <1>2 DEF CallType
<1>8. RadioTypes'
  BY <1>1, <1>6, <1>7 DEF RadioInv, RadioTypes, RD!Plus, RD!FifoDepth
<1>9. ModeKept'
  <2> SUFFICES ASSUME RD!Plus PROVE ModeKept'
    BY <1>1 DEF ModeKept, RD!Plus
  <2>1. conf.mode = "TX" /\ chip.mode = "TX" /\ chip.power = conf.power
    BY <1>1 DEF RadioInv, ModeKept, Sending
  <2> QED
    BY <1>6, <1>7, <2>1 DEF ModeKept, Sending, Receiving
<1>10. Announced'
  BY <1>1, <1>6, <1>7 DEF RadioInv, Announced, RD!Plus, RD!NoPipe
<1>11. SentTrue'
  BY <1>1, <1>6, <1>7 DEF RadioInv, SentTrue, RD!Plus, RD!TxIrq
<1> QED
  BY <1>8, <1>9, <1>10, <1>11 DEF RadioInv

\* A step of recv that goes on to pc, with what it read of STATUS; the FIFO, the flags
\* and the history are given by the step.
LEMMA RadioRecvGoes ==
  ASSUME RadioInv, NEW pc \in {"idle"} \cup Receiving, NEW pipe \in {0, RD!NoPipe},
         call' = [call EXCEPT !.pc = pc, !.pipe = pipe], UNCHANGED <<radio, conf>>,
         chip' \in ChipType, Len(chip'.fifo) <= RD!FifoDepth, chip'.mode = chip.mode, chip'.power = chip.power,
         chip'.ce = chip.ce, chip'.tx = chip.tx, "TX_DS" \in chip'.irq <=> "TX_DS" \in chip.irq,
         seen' \in SeenType, seen'.failed = seen.failed, seen'.sent = seen.sent,
         RD!Plus /\ pc # "idle" => conf.mode = "RX", ~RD!Plus => pc \notin {"r_stat", "r_flush"},
         call.pc \in {"idle"} \cup Receiving, Announced'
  PROVE  RadioInv'
<1>1. call' \in CallType /\ call'.pc = pc /\ call'.cnt = call.cnt
  BY DEF RadioInv, RadioTypes, CallType
<1>2. RadioTypes'
  BY <1>1 DEF RadioInv, RadioTypes, RD!Plus, RD!FifoDepth, Receiving
<1>3. ModeKept'
  BY <1>1 DEF RadioInv, ModeKept, RD!Plus, Sending, Receiving
<1>4. SentTrue'
  BY <1>1 DEF RadioInv, SentTrue, RD!Plus, Receiving
<1> QED
  BY <1>2, <1>3, <1>4 DEF RadioInv

LEMMA RadioTypeFacts == ASSUME RadioInv
  PROVE  /\ radio \in RadioType /\ conf \in ConfType /\ chip \in ChipType /\ call \in CallType /\ seen \in SeenType
         /\ Len(chip.fifo) <= RD!FifoDepth /\ call.pipe \in {0, RD!NoPipe} /\ chip.fifo \in Seq(Nat)
         /\ call = [call EXCEPT !.pipe = call.pipe]
BY DEF RadioInv, RadioTypes, CallType, ChipType

LEMMA RadioFollowing == ASSUME RadioInv, call.pc \in Receiving
  PROVE  /\ RD!Plus => RD!Following = CASE call.pc = "r_irq" -> "r_stat" [] call.pc = "r_stat" -> "r_read"
                                        [] call.pc = "r_read" -> "r_fifo" [] call.pc = "r_fifo" -> "r_clear"
                                        [] call.pc = "r_clear" -> "r_flush" [] call.pc = "r_flush" -> "idle"
         /\ ~RD!Plus => RD!Following = CASE call.pc = "r_irq" -> "r_read" [] call.pc = "r_read" -> "r_fifo"
                                         [] call.pc = "r_fifo" -> "r_clear" [] call.pc = "r_clear" -> "idle"
BY DEF RadioInv, RadioTypes, Receiving, RD!Following, RD!recv, RD!RF_Receive_Data

LEMMA RadioRecvStart == ASSUME RadioInv, RD!RecvStart PROVE RadioInv'
<1>1. /\ call.pc = "idle" /\ call' = [call EXCEPT !.pc = "r_irq"] /\ UNCHANGED <<radio, seen>>
      /\ \/ RD!Plus /\ conf.mode = "TX" /\ conf' = [mode |-> "RX", power |-> TRUE]
            /\ chip' = [[chip EXCEPT !.mode = "RX", !.power = TRUE, !.ce = TRUE] EXCEPT !.ce = TRUE]
         \/ ~(RD!Plus /\ conf.mode = "TX") /\ conf' = conf /\ chip' = chip
  BY DEF RD!RecvStart, RD!At, RD!Goto, RD!switch_mode
<1>2. call' \in CallType /\ call'.pc = "r_irq" /\ call'.cnt = call.cnt /\ call'.pipe = call.pipe
  BY <1>1, RadioTypeFacts DEF CallType, Receiving
<1>3. CASE /\ RD!Plus /\ conf' = [mode |-> "RX", power |-> TRUE]
           /\ chip' = [[chip EXCEPT !.mode = "RX", !.power = TRUE, !.ce = TRUE] EXCEPT !.ce = TRUE]
  <2>1. conf' \in ConfType /\ conf'.mode = "RX" /\ conf'.power = TRUE
    BY <1>3 DEF ConfType, Modes
  <2>2. chip' = [chip EXCEPT !.mode = "RX", !.power = TRUE, !.ce = TRUE]
    BY <1>3, RadioTypeFacts DEF ChipType
  <2>3. chip' \in ChipType /\ chip'.fifo = chip.fifo /\ chip'.irq = chip.irq /\ chip'.tx = chip.tx
    BY <2>2, RadioTypeFacts DEF ChipType, Modes
  <2>4. chip'.mode = "RX" /\ chip'.power = TRUE /\ chip'.ce = TRUE
    BY <2>2, RadioTypeFacts DEF ChipType
  <2>5. RadioTypes'
    BY <1>1, <1>2, <2>1, <2>3 DEF RadioInv, RadioTypes, RD!Plus, RD!FifoDepth
  <2>6. ModeKept'
    BY <1>1, <1>2, <2>1, <2>4 DEF ModeKept, Sending
  <2>7. Announced'
    BY <1>1, <1>2, <2>3 DEF RadioInv, Announced, RD!Plus, RD!NoPipe
  <2>8. SentTrue'
    BY <1>1, <1>2, <2>3 DEF RadioInv, SentTrue, RD!Plus, RD!TxIrq
  <2> QED
    BY <2>5, <2>6, <2>7, <2>8 DEF RadioInv
<1>4. CASE ~(RD!Plus /\ conf.mode = "TX") /\ conf' = conf /\ chip' = chip
  <2>1. RD!Plus => conf.mode = "RX"
    BY <1>4, RadioTypeFacts DEF ConfType, Modes
  <2>2. RadioTypes'
    BY <1>1, <1>2, <1>4 DEF RadioInv, RadioTypes, RD!Plus, RD!FifoDepth
  <2>3. ModeKept'
    BY <1>1, <1>2, <1>4, <2>1 DEF RadioInv, ModeKept, RD!Plus, Sending
  <2>4. Announced'
    BY <1>1, <1>2, <1>4 DEF RadioInv, Announced, RD!Plus, RD!NoPipe
  <2>5. SentTrue'
    BY <1>1, <1>2, <1>4 DEF RadioInv, SentTrue, RD!Plus, RD!TxIrq
  <2> QED
    BY <2>2, <2>3, <2>4, <2>5 DEF RadioInv
<1> QED
  BY <1>1, <1>3, <1>4

\* A step of recv that only goes on.
LEMMA RadioRecvMoves ==
  ASSUME RadioInv, NEW pc \in {"idle"} \cup Receiving, call.pc \in Receiving, call' = [call EXCEPT !.pc = pc],
         UNCHANGED <<radio, conf, chip, seen>>, ~RD!Plus => pc \notin {"r_stat", "r_flush"}, Announced'
  PROVE  RadioInv'
<1>1. call' = [call EXCEPT !.pc = pc, !.pipe = call.pipe]
  BY RadioTypeFacts DEF CallType
<1>2. RD!Plus => conf.mode = "RX"
  BY DEF RadioInv, ModeKept
<1> QED
  BY <1>1, <1>2, RadioTypeFacts, RadioRecvGoes

LEMMA RadioRecvIrq == ASSUME RadioInv, RD!RecvIrq PROVE RadioInv'
<1> DEFINE pc == IF RD!read_irq({"RX_DR"}) THEN RD!Following ELSE "idle"
<1>1. call.pc = "r_irq" /\ call' = [call EXCEPT !.pc = pc] /\ UNCHANGED <<radio, conf, chip, seen>>
  BY DEF RD!RecvIrq, RD!At, RD!Goto
<1>2. /\ pc \in {"idle", "r_stat", "r_read"} /\ (~RD!Plus => pc # "r_stat") /\ (RD!Plus => pc # "r_read")
      /\ pc # "idle" => RD!read_irq({"RX_DR"})
  BY <1>1, RadioFollowing DEF Receiving
<1>3. RD!Plus /\ pc = "r_stat" => "RX_DR" \in chip.irq
  <2> SUFFICES ASSUME RD!Plus, RD!read_irq({"RX_DR"}) PROVE "RX_DR" \in chip.irq
    BY <1>2
  <2>1. chip.mode = "RX"
    BY <1>1 DEF RadioInv, ModeKept, Receiving
  <2> QED
    BY <2>1 DEF RD!read_irq, RD!Unmasked
<1> HIDE DEF pc
<1>4. call'.pc = pc /\ call'.pipe = call.pipe
  BY <1>1, RadioTypeFacts DEF CallType
<1>5. Announced'
  BY <1>1, <1>2, <1>3, <1>4 DEF RadioInv, Announced, RD!Plus, RD!NoPipe
<1> QED
  BY <1>1, <1>2, <1>5, RadioRecvMoves DEF Receiving

LEMMA RadioRecvStatus == ASSUME RadioInv, RD!RecvStatus PROVE RadioInv'
<1> DEFINE pipe == RD!HeadPipe
<1>1. call.pc = "r_stat" /\ call' = [call EXCEPT !.pc = RD!Following, !.pipe = pipe] /\ UNCHANGED <<radio, conf, chip, seen>>
  BY DEF RD!RecvStatus, RD!At
<1>2. RD!Plus
  BY <1>1 DEF RadioInv, RadioTypes
<1>3. RD!Following = "r_read"
  BY <1>1, <1>2, RadioFollowing DEF Receiving
<1>4. pipe \in {0, RD!NoPipe} /\ (pipe = RD!NoPipe => chip.fifo = <<>>)
  BY DEF RD!HeadPipe, RD!NoPipe
<1> HIDE DEF pipe
<1>5. call'.pc = "r_read" /\ call'.pipe = pipe
  BY <1>1, <1>3, RadioTypeFacts DEF CallType
<1>6. Announced'
  BY <1>1, <1>4, <1>5 DEF RadioInv, Announced, RD!Plus, RD!NoPipe
<1>7. conf.mode = "RX"
  BY <1>1, <1>2 DEF RadioInv, ModeKept, Receiving
<1> QED
  BY <1>1, <1>2, <1>3, <1>4, <1>6, <1>7, RadioTypeFacts, RadioRecvGoes DEF Receiving

LEMMA RadioRecvRead == ASSUME RadioInv, RD!RecvRead PROVE RadioInv'
<1> DEFINE pipe == IF RD!Plus THEN call.pipe ELSE RD!HeadPipe
           f == Tail(chip.fifo)
           g == seen.got \cup {Head(chip.fifo)}
<1>1. /\ call.pc = "r_read" /\ call' = [call EXCEPT !.pc = RD!Following, !.pipe = pipe] /\ UNCHANGED <<radio, conf>>
      /\ \/ chip.fifo = <<>> /\ chip' = chip /\ seen' = seen
         \/ chip.fifo # <<>> /\ chip' = [chip EXCEPT !.fifo = f] /\ seen' = [seen EXCEPT !.got = g]
  BY DEF RD!RecvRead, RD!At
<1>2. RD!Following = "r_fifo"
  BY <1>1, RadioFollowing DEF Receiving
<1>3. pipe \in {0, RD!NoPipe} /\ (RD!Plus => pipe = call.pipe)
  BY RadioTypeFacts DEF RD!HeadPipe, RD!NoPipe
<1>4. chip.fifo # <<>> => /\ f \in Seq(Nat) /\ Len(f) < Len(chip.fifo) /\ g \in SUBSET Nat
                          /\ Elems(f) \subseteq Elems(chip.fifo) /\ g \cup Elems(f) = seen.got \cup Elems(chip.fifo)
  BY RadioTypeFacts, TailElems DEF SeenType
<1> HIDE DEF f, g, pipe
<1>5. call'.pc = "r_fifo" /\ call'.pipe = pipe
  BY <1>1, <1>2, RadioTypeFacts DEF CallType
<1>6. /\ conf.mode = "RX" \/ ~RD!Plus
      /\ call' = [call EXCEPT !.pc = "r_fifo", !.pipe = pipe]
      /\ "r_fifo" \in {"idle"} \cup Receiving /\ call.pc \in {"idle"} \cup Receiving
  BY <1>1, <1>2 DEF RadioInv, ModeKept, Receiving
<1>7. CASE chip.fifo = <<>> /\ chip' = chip /\ seen' = seen
  <2>1. Announced'
    BY <1>1, <1>3, <1>5, <1>7 DEF RadioInv, Announced, RD!Plus, RD!NoPipe
  <2> QED
    BY <1>1, <1>3, <1>6, <1>7, <2>1, RadioTypeFacts, RadioRecvGoes
<1>8. CASE chip.fifo # <<>> /\ chip' = [chip EXCEPT !.fifo = f] /\ seen' = [seen EXCEPT !.got = g]
  <2>1. /\ chip' \in ChipType /\ chip'.fifo = f /\ chip'.irq = chip.irq /\ chip'.mode = chip.mode
        /\ chip'.power = chip.power /\ chip'.ce = chip.ce /\ chip'.tx = chip.tx
    BY <1>4, <1>8, RadioTypeFacts DEF ChipType
  <2>2. /\ seen' \in SeenType /\ seen'.got = g /\ seen'.n = seen.n /\ seen'.raced = seen.raced
        /\ seen'.failed = seen.failed /\ seen'.sent = seen.sent
    BY <1>4, <1>8, RadioTypeFacts DEF SeenType
  <2>3. Announced'
    BY <1>1, <1>3, <1>4, <1>5, <1>8, <2>1, <2>2 DEF RadioInv, Announced, RD!Plus, RD!NoPipe
  <2>4. Len(f) <= RD!FifoDepth
    BY <1>4, <1>8, RadioTypeFacts DEF RD!FifoDepth
  <2>5. /\ Len(chip'.fifo) <= RD!FifoDepth /\ ("TX_DS" \in chip'.irq <=> "TX_DS" \in chip.irq)
        /\ UNCHANGED <<radio, conf>>
    BY <1>1, <2>1, <2>4
  <2> QED
    BY <1>3, <1>6, <2>1, <2>2, <2>3, <2>5, RadioRecvGoes
<1> QED
  BY <1>1, <1>7, <1>8

LEMMA RadioRecvFifo == ASSUME RadioInv, RD!RecvFifo PROVE RadioInv'
<1> DEFINE pc == IF chip.fifo = <<>> THEN RD!Following ELSE "idle"
<1>1. call.pc = "r_fifo" /\ call' = [call EXCEPT !.pc = pc] /\ UNCHANGED <<radio, conf, chip, seen>>
  BY DEF RD!RecvFifo, RD!At, RD!Goto
<1>2. pc \in {"idle", "r_clear"} /\ (pc = "r_clear" => chip.fifo = <<>>) /\ (pc = "idle" => chip.fifo # <<>>)
  BY <1>1, RadioFollowing DEF Receiving
<1> HIDE DEF pc
<1>3. call'.pc = pc /\ call'.pipe = call.pipe
  BY <1>1, RadioTypeFacts DEF CallType
<1>4. chip.fifo = <<>> => Elems(chip.fifo) = {}
  BY EmptyElems
<1>5. Announced'
  BY <1>1, <1>2, <1>3, <1>4 DEF RadioInv, Announced, RD!Plus, RD!NoPipe
<1> QED
  BY <1>1, <1>2, <1>5, RadioRecvMoves DEF Receiving

LEMMA RadioRecvClear == ASSUME RadioInv, RD!RecvClear PROVE RadioInv'
<1> DEFINE q == chip.irq \ {"RX_DR"}
           pc == RD!Following
<1>1. /\ call.pc = "r_clear" /\ call' = [call EXCEPT !.pc = pc] /\ chip' = [chip EXCEPT !.irq = q]
      /\ UNCHANGED <<radio, conf, seen>>
  BY DEF RD!RecvClear, RD!At, RD!Goto, RD!Clear
<1>2. pc \in {"idle", "r_flush"} /\ (RD!Plus <=> pc = "r_flush")
  BY <1>1, RadioFollowing DEF Receiving
<1>3. q \in SUBSET Flags /\ "RX_DR" \notin q /\ ("TX_DS" \in q <=> "TX_DS" \in chip.irq)
  BY RadioTypeFacts DEF ChipType
<1> HIDE DEF q, pc
<1>4. call'.pc = pc /\ call'.pipe = call.pipe /\ call' = [call EXCEPT !.pc = pc, !.pipe = call.pipe]
  BY <1>1, RadioTypeFacts DEF CallType
<1>5. /\ chip' \in ChipType /\ chip'.fifo = chip.fifo /\ chip'.irq = q /\ chip'.mode = chip.mode
      /\ chip'.power = chip.power /\ chip'.ce = chip.ce /\ chip'.tx = chip.tx
  BY <1>1, <1>3, RadioTypeFacts DEF ChipType
<1>6. Announced'
  BY <1>1, <1>2, <1>3, <1>4, <1>5 DEF RadioInv, Announced, RD!Plus, RD!NoPipe
<1>7. RD!Plus => conf.mode = "RX"
  BY <1>1 DEF RadioInv, ModeKept, Receiving
<1> QED
  BY <1>1, <1>2, <1>3, <1>4, <1>5, <1>6, <1>7, RadioTypeFacts, RadioRecvGoes DEF Receiving

LEMMA RadioRecvFlush == ASSUME RadioInv, RD!RecvFlush PROVE RadioInv'
<1> DEFINE e == <<>>
<1>1. /\ call.pc = "r_flush" /\ call' = [call EXCEPT !.pc = "idle"] /\ chip' = [chip EXCEPT !.fifo = e]
      /\ UNCHANGED <<radio, conf, seen>>
  BY DEF RD!RecvFlush, RD!At, RD!Goto
<1>2. e \in Seq(Nat) /\ Elems(e) = {} /\ Len(e) = 0 /\ e = <<>>
  BY EmptyElems
<1> HIDE DEF e
<1>3. call'.pc = "idle" /\ call'.pipe = call.pipe /\ call' = [call EXCEPT !.pc = "idle", !.pipe = call.pipe]
  BY <1>1, RadioTypeFacts DEF CallType
<1>4. /\ chip' \in ChipType /\ chip'.fifo = e /\ chip'.irq = chip.irq /\ chip'.mode = chip.mode
      /\ chip'.power = chip.power /\ chip'.ce = chip.ce /\ chip'.tx = chip.tx
  BY <1>1, <1>2, RadioTypeFacts DEF ChipType
<1>5. "RX_DR" \in chip.irq => seen.raced # {}
  <2>1. RD!Plus
    BY <1>1 DEF RadioInv, RadioTypes
  <2>2. CASE chip.fifo = <<>>
    BY <1>1, <2>1, <2>2 DEF RadioInv, Announced
  <2>3. CASE chip.fifo # <<>>
    <3>1. chip.fifo[1] \in Elems(chip.fifo)
      BY <2>3, RadioTypeFacts DEF Elems
    <3> QED
      BY <1>1, <3>1 DEF RadioInv, Announced
  <2> QED
    BY <2>2, <2>3
<1>6. Announced'
  BY <1>1, <1>2, <1>3, <1>4, <1>5 DEF RadioInv, Announced, RD!Plus, RD!NoPipe
<1>7. Len(chip'.fifo) <= RD!FifoDepth
  BY <1>2, <1>4 DEF RD!FifoDepth
<1> QED
  BY <1>1, <1>3, <1>4, <1>6, <1>7, RadioTypeFacts, RadioRecvGoes DEF Receiving

LEMMA RadioSteps == ASSUME RadioInv, RD!Next PROVE RadioInv'
<1>1. CASE \/ \E mode \in Modes, power \in BOOLEAN : RD!SwitchMode(mode, power)
           \/ RD!sleep \/ RD!wakeup
           \/ \E mode \in Modes : RD!RF_Switch_RX_TX(mode)
           \/ \E power \in BOOLEAN : RD!RF_Sleep_WakeUp(power)
  BY <1>1, RadioModes
<1>2. CASE RD!AirArrive \/ RD!Transmit
  BY <1>2, RadioAirArrive, RadioTransmit
<1>3. CASE \/ \E b \in BOOLEAN : RD!SendStart(b)
           \/ RD!SendPoll \/ RD!SendResult \/ RD!SendClear \/ RD!SendEnd
  BY <1>3, RadioSendStart, RadioSendPoll, RadioSendResult, RadioSendClear, RadioSendEnd
<1>4. CASE RD!RecvStart \/ RD!RecvIrq \/ RD!RecvStatus \/ RD!RecvRead \/ RD!RecvFifo \/ RD!RecvClear \/ RD!RecvFlush
  BY <1>4, RadioRecvStart, RadioRecvIrq, RadioRecvStatus, RadioRecvRead, RadioRecvFifo, RadioRecvClear, RadioRecvFlush
<1> QED
  BY <1>1, <1>2, <1>3, <1>4 DEF RD!Next, Modes

LEMMA RadioKeeps == Spec => [](part = "radio" => RadioInv)
<1> DEFINE I == part = "radio" => RadioInv
<1>1. Init => I
  BY RadioBegins DEF Init
<1>2. I /\ [Next]_vars => I'
  <2> SUFFICES ASSUME I, [Next]_vars PROVE I'
    OBVIOUS
  <2>1. CASE RadioStep
    <3>1. part = "radio" /\ RD!Next
      BY <2>1 DEF RadioStep, Others
    <3> QED
      BY <3>1, RadioSteps
  <2>2. CASE ~RadioStep
    <3>1. part' = part /\ (part = "radio" => UNCHANGED radioVars)
      BY <2>2 DEF Next, Others, MachineStep, RfidStep, I2CStep, OneWireStep, ClockStep, PinsStep, FrameStep, SensorsStep, vars
    <3> QED
      BY <3>1 DEF radioVars, RadioInv, RadioTypes, ModeKept, Announced, SentTrue, RD!Plus, RD!TxIrq, RD!FifoDepth, RD!NoPipe
  <2> QED
    BY <2>1, <2>2
<1> QED
  BY <1>1, <1>2, PTL DEF Spec

\* For every number of packets and polls, with packets arriving and transmissions ending
\* between any two SPI accesses: recv loses a packet only if it raced the clearing of the
\* flag, strands none, a send believes no flag of an earlier one, and the chip is in the
\* mode that the driver thinks.
THEOREM RadioIsSound == Spec => []RadioSound
<1>1. (part = "radio" => RadioInv) => RadioSound
  BY RadioImplies DEF RadioSound, LostOnlyWhenRaced, NoStranded, PipeInRange, SendTruthful, ModeRestored
<1> QED
  BY <1>1, RadioKeeps, PTL

-----------------------------------------------------------------------------
(***************************************************************************)
(* The card readers.                                                       *)
(***************************************************************************)
ReaderType == [driver : {"op32", "op16", "mfrc"}, ant : BOOLEAN, crypto : BOOLEAN]
Cards == RF!Block \cup {NoCard}
Failed == {"MI_WRONG_PARAM", "MI_NOCARD", "MI_COLLISION", "MI_WRONG_CARD", "MI_AUTH_ERROR", "MI_READ_ERROR",
           "MI_WRITE_ERROR"}
StaticType == [data : RF!Block, decoded : {"MI_OK", "MI_WRONG_DATA"}]
DoneType == [task : RF!Tasks \cup {"none"}, res : {"MI_OK", "MI_WRONG_DATA"} \cup Failed, before : Cards, after : Cards,
             bad : BOOLEAN]

RfidTypes == reader \in ReaderType /\ card \in Cards /\ static \in StaticType /\ done \in DoneType

\* The static verdict has a reason: a malformed block was read once.
VerdictHasReason == static.decoded = "MI_WRONG_DATA" => done.bad

RfidInv ==
  /\ RfidTypes /\ VerdictHasReason
  /\ RF!FieldOff /\ RF!VerdictSound /\ RF!MalformedKept /\ RF!TailKept

LEMMA RfidBegins == ASSUME RF!Init PROVE RfidInv
<1>1. RF!Zero \in RF!Block
  BY DevicesAssumption DEF RF!Parameters, RF!Zero, RF!Block
<1>2. reader \in ReaderType /\ ~reader.ant /\ ~reader.crypto /\ card \in Cards
  BY DEF RF!Init, ReaderType, Cards
<1>3. static \in StaticType /\ static.decoded = "MI_OK"
  BY <1>1 DEF RF!Init, StaticType
<1>4. done \in DoneType /\ done.before = NoCard
  BY DEF RF!Init, DoneType, Cards
<1> QED
  BY <1>2, <1>3, <1>4
     DEF RfidInv, RfidTypes, VerdictHasReason, RF!FieldOff, RF!VerdictSound, RF!MalformedKept, RF!TailKept, RF!Saw32

\* Whatever fails, a call leaves no encrypted link, and a transmitter only to Operate32.
LEMMA FinishedOff ==
  ASSUME RfidInv, NEW fail \in RF!Failures, reader' = RF!Finished(RF!Busy(fail), fail)
  PROVE  reader' \in ReaderType /\ reader'.driver = reader.driver /\ RF!FieldOff'
<1> DEFINE e == fail \notin RF!Early
           b == [reader EXCEPT !.ant = TRUE, !.crypto = e]
<1>1. reader \in ReaderType /\ RF!FieldOff /\ e \in BOOLEAN
  BY DEF RfidInv, RfidTypes
<1>2. fail \in {"request", "anticoll"} => e = FALSE
  BY DEF RF!Early
<1>3. reader' = CASE fail = "param" -> reader
                  [] fail \in {"request", "anticoll"} /\ b.driver = "op32" -> reader
                  [] fail \in {"request", "anticoll"} /\ b.driver = "op16" -> [b EXCEPT !.ant = FALSE]
                  [] OTHER -> [b EXCEPT !.ant = FALSE, !.crypto = FALSE]
  BY DEF RF!Finished, RF!Busy, RF!Restarted
<1> HIDE DEF e
<1>4. b \in ReaderType /\ b.driver = reader.driver /\ b.crypto = e
  BY <1>1 DEF ReaderType
<1> HIDE DEF b
<1>5. \/ reader' = reader
      \/ fail \in {"request", "anticoll"} /\ reader' = [b EXCEPT !.ant = FALSE]
      \/ reader' = [b EXCEPT !.ant = FALSE, !.crypto = FALSE]
  BY <1>3
<1>6. CASE reader' = reader
  BY <1>1, <1>6 DEF RF!FieldOff
<1>7. CASE fail \in {"request", "anticoll"} /\ reader' = [b EXCEPT !.ant = FALSE]
  BY <1>1, <1>2, <1>4, <1>7 DEF RF!FieldOff, ReaderType
<1>8. CASE reader' = [b EXCEPT !.ant = FALSE, !.crypto = FALSE]
  BY <1>1, <1>4, <1>8 DEF RF!FieldOff, ReaderType
<1> QED
  BY <1>5, <1>6, <1>7, <1>8

LEMMA StatusFails == ASSUME NEW fail \in RF!Failures \ {"none"} PROVE RF!Status(fail) \in Failed
BY DEF RF!Failures, RF!Status, Failed

\* A step that leaves the account of the last call alone.
LEMMA RfidKeepsAccount ==
  ASSUME RfidInv, UNCHANGED <<static, done>>, reader' \in ReaderType, reader'.driver = reader.driver, RF!FieldOff',
         card' \in Cards
  PROVE  RfidInv'
BY DEF RfidInv, RfidTypes, VerdictHasReason, RF!VerdictSound, RF!MalformedKept, RF!TailKept, RF!Saw32, RF!Intact

LEMMA RfidOperate32 ==
  ASSUME RfidInv, NEW task \in RF!Tasks, NEW fail \in RF!Failures, NEW new \in Value,
         RF!MFRC522_Operate32(task, fail, new)
  PROVE  RfidInv'
<1> DEFINE reads == task # "CARD_WRITE"
           verdict == IF reads THEN RF!MFRC522_DecodeData(card) ELSE "MI_OK"
           refused == verdict # "MI_OK" /\ task # "CARD_RW_ANYWAY"
           writes == task # "CARD_READ" /\ ~refused
           from == IF reads THEN card ELSE static.data
           block == [from EXCEPT !.v = new, !.copy = new]
<1>1. /\ reader.driver = "op32" /\ RF!Possible(task, fail, reader.ant) /\ reader' = RF!Finished(RF!Busy(fail), fail)
      /\ IF fail \in RF!Early \cup {"read"}
         THEN /\ IF fail = "read" THEN \E b \in RF!Garbled(static.data) : static' = [static EXCEPT !.data = b]
                                  ELSE UNCHANGED static
              /\ UNCHANGED card
              /\ done' = [done EXCEPT !.task = task, !.res = RF!Status(fail), !.before = card, !.after = card]
         ELSE /\ fail # "none" => writes
              /\ card' \in IF writes THEN RF!Written(block, fail) ELSE {card}
              /\ static' = [static EXCEPT !.decoded = IF reads THEN verdict ELSE @,
                              !.data = IF writes THEN block ELSE IF reads THEN card ELSE @]
              /\ done' = [task |-> task, before |-> card, after |-> card', bad |-> done.bad \/ (reads /\ ~RF!Intact(card)),
                          res |-> IF fail # "none" THEN RF!Status(fail)
                                  ELSE IF refused /\ task # "CARD_READ" THEN "MI_WRONG_DATA" ELSE verdict]
  BY DEF RF!MFRC522_Operate32, RF!MFRC522_EncodeData
<1>2. reader' \in ReaderType /\ reader'.driver = "op32" /\ RF!FieldOff'
  BY <1>1, FinishedOff
<1>3. card \in Cards /\ static \in StaticType /\ done \in DoneType /\ static.data \in RF!Block
      /\ static.decoded \in {"MI_OK", "MI_WRONG_DATA"}
  BY DEF RfidInv, RfidTypes, StaticType
<1>4. CASE fail \in RF!Early \cup {"read"}
  <2> DEFINE c == RF!Status(fail)
  <2>1. c \in Failed
    BY <1>4, StatusFails DEF RF!Early
  <2>2. done' = [done EXCEPT !.task = task, !.res = c, !.before = card, !.after = card] /\ card' = card
    BY <1>1, <1>4
  <2> HIDE DEF c
  <2>3. done' \in DoneType /\ done'.res = c /\ done'.before = card /\ done'.after = card /\ done'.bad = done.bad
    BY <1>3, <2>1, <2>2 DEF DoneType
  <2>4. static' \in StaticType /\ static'.decoded = static.decoded
    <3>1. CASE fail = "read"
      <4>1. PICK v \in Value : static' = [static EXCEPT !.data = [static.data EXCEPT !.v = v]]
        BY <1>1, <1>4, <3>1 DEF RF!Garbled
      <4>2. [static.data EXCEPT !.v = v] \in RF!Block
        BY <1>3 DEF RF!Block
      <4> QED
        BY <1>3, <4>1, <4>2 DEF StaticType
    <3>2. CASE fail # "read"
      BY <1>1, <1>3, <1>4, <3>2
    <3> QED
      BY <3>1, <3>2
  <2>5. c # "MI_OK" /\ c # "MI_WRONG_DATA"
    BY <2>1 DEF Failed
  <2> QED
    BY <1>2, <1>3, <2>2, <2>3, <2>4, <2>5
       DEF RfidInv, RfidTypes, VerdictHasReason, RF!VerdictSound, RF!MalformedKept, RF!TailKept
<1>5. CASE fail \notin RF!Early \cup {"read"}
  <2>1. card # NoCard /\ card \in RF!Block /\ from \in RF!Block
    BY <1>1, <1>3, <1>5 DEF RF!Possible, RF!Early, Cards
  <2>2. verdict \in {"MI_OK", "MI_WRONG_DATA"} /\ (reads /\ verdict = "MI_OK" => RF!Intact(card))
        /\ (verdict = "MI_WRONG_DATA" => done.bad \/ (reads /\ ~RF!Intact(card)))
        /\ (reads /\ ~RF!Intact(card) => verdict = "MI_WRONG_DATA")
    BY <1>3 DEF RF!MFRC522_DecodeData, RfidInv, VerdictHasReason
  <2>3. block \in RF!Block /\ block.tail = from.tail
    BY <2>1 DEF RF!Block
  <2> DEFINE res == IF fail # "none" THEN RF!Status(fail)
                    ELSE IF refused /\ task # "CARD_READ" THEN "MI_WRONG_DATA" ELSE verdict
             bad == done.bad \/ (reads /\ ~RF!Intact(card))
             dec == IF reads THEN verdict ELSE static.decoded
             dat == IF writes THEN block ELSE IF reads THEN card ELSE static.data
  <2>4. res \in {"MI_OK", "MI_WRONG_DATA"} \cup Failed /\ bad \in BOOLEAN
    BY <2>2, StatusFails
  <2>5. /\ reads /\ res = "MI_OK" => RF!Intact(card)
        /\ reads /\ res = "MI_WRONG_DATA" => bad
    <3>1. CASE fail # "none"
      <4>1. res \in Failed
        BY <3>1, StatusFails
      <4> QED
        BY <4>1 DEF Failed
    <3>2. CASE fail = "none"
      BY <2>2, <3>2
    <3> QED
      BY <3>1, <3>2
  <2>6. dec \in {"MI_OK", "MI_WRONG_DATA"} /\ dat \in RF!Block /\ (dec = "MI_WRONG_DATA" => bad)
    BY <1>3, <2>1, <2>2, <2>3 DEF RfidInv, VerdictHasReason
  <2>7. card' \in {card, block} /\ (~writes => card' = card)
    BY <1>1, <1>5 DEF RF!Written
  <2>8. card' \in RF!Block /\ (reads => card'.tail = card.tail)
    BY <2>1, <2>3, <2>7
  <2>9. reads /\ ~RF!Intact(card) /\ card' # card => task = "CARD_RW_ANYWAY"
    BY <2>2, <2>7
  <2>10. /\ static' = [static EXCEPT !.decoded = dec, !.data = dat]
         /\ done' = [task |-> task, before |-> card, after |-> card', bad |-> bad, res |-> res]
    BY <1>1, <1>5
  <2> HIDE DEF res, bad, dec, dat, verdict, refused, writes, block, from
  <2>11. static' \in StaticType /\ static'.decoded = dec
    BY <1>3, <2>6, <2>10 DEF StaticType
  <2>12. /\ done' \in DoneType /\ done'.task = task /\ done'.before = card /\ done'.after = card' /\ done'.bad = bad
         /\ done'.res = res
    BY <1>3, <2>4, <2>8, <2>10 DEF DoneType, Cards
  <2>13. RfidTypes' /\ VerdictHasReason'
    BY <1>2, <2>6, <2>8, <2>11, <2>12 DEF RfidTypes, VerdictHasReason, Cards
  <2>14. RF!VerdictSound' /\ RF!MalformedKept' /\ RF!TailKept'
    BY <2>5, <2>8, <2>9, <2>12 DEF RF!VerdictSound, RF!MalformedKept, RF!TailKept, RF!Intact
  <2> QED
    BY <1>2, <2>13, <2>14 DEF RfidInv
<1> QED
  BY <1>4, <1>5

LEMMA RfidOperate ==
  ASSUME RfidInv, NEW task \in RF!Tasks, NEW fail \in RF!Failures, NEW new \in RF!Block,
         reader.driver # "op32", RF!Operate(task, fail, new)
  PROVE  RfidInv'
<1> DEFINE res == IF fail = "none" THEN "MI_OK" ELSE RF!Status(fail)
<1>1. /\ reader' = RF!Finished(RF!Busy(fail), fail) /\ static' = static
      /\ card' \in IF fail \in RF!Early \cup {"read"} \/ task = "CARD_READ" THEN {card} ELSE RF!Written(new, fail)
      /\ done' = [done EXCEPT !.task = task, !.res = res]
  BY DEF RF!Operate
<1>2. reader' \in ReaderType /\ reader'.driver # "op32" /\ RF!FieldOff'
  BY <1>1, FinishedOff
<1>3. card' \in {card, new} /\ card \in Cards
  BY <1>1 DEF RF!Written, RfidInv, RfidTypes
<1>4. res \in {"MI_OK", "MI_WRONG_DATA"} \cup Failed
  BY StatusFails
<1> HIDE DEF res
<1>5. done' \in DoneType /\ done'.bad = done.bad
  BY <1>1, <1>4 DEF RfidInv, RfidTypes, DoneType
<1> QED
  BY <1>1, <1>2, <1>3, <1>5
     DEF RfidInv, RfidTypes, VerdictHasReason, RF!VerdictSound, RF!MalformedKept, RF!TailKept, RF!Saw32, Cards

LEMMA RfidSteps == ASSUME RfidInv, RF!Next PROVE RfidInv'
<1>1. CASE RF!SwapCard
  BY <1>1, RfidKeepsAccount DEF RF!SwapCard, RfidInv, RfidTypes, Cards, RF!FieldOff
<1>2. ASSUME NEW task \in RF!Tasks, NEW fail \in RF!Failures, NEW new \in Value, RF!MFRC522_Operate32(task, fail, new)
      PROVE  RfidInv'
  BY <1>2, RfidOperate32
<1>3. ASSUME NEW task \in RF!Tasks, NEW fail \in RF!Failures, NEW new \in RF!Block,
             RF!MFRC522_Operate(task, fail, new) \/ RF!mfrc_operate(task, fail, new)
      PROVE  RfidInv'
  BY <1>3, RfidOperate DEF RF!MFRC522_Operate, RF!mfrc_operate
<1>4. CASE RF!MFRC522_AntennaOn
  <2>1. reader' = [reader EXCEPT !.ant = TRUE] /\ reader.driver = "op32" /\ UNCHANGED <<card, static, done>>
    BY <1>4 DEF RF!MFRC522_AntennaOn
  <2>2. reader' \in ReaderType /\ reader'.driver = reader.driver /\ RF!FieldOff'
    BY <2>1 DEF RfidInv, RfidTypes, ReaderType, RF!FieldOff
  <2> QED
    BY <2>1, <2>2, RfidKeepsAccount DEF RfidInv, RfidTypes
<1>5. ASSUME RF!MFRC522_Init \/ \E known \in BOOLEAN : RF!mfrc_init(known) PROVE RfidInv'
  <2>1. (reader' = [reader EXCEPT !.ant = FALSE, !.crypto = FALSE] \/ reader' = reader) /\ UNCHANGED <<card, static, done>>
    BY <1>5 DEF RF!MFRC522_Init, RF!mfrc_init, RF!Restarted
  <2>2. reader' \in ReaderType /\ reader'.driver = reader.driver /\ RF!FieldOff'
    BY <2>1 DEF RfidInv, RfidTypes, ReaderType, RF!FieldOff
  <2> QED
    BY <2>1, <2>2, RfidKeepsAccount DEF RfidInv, RfidTypes
<1> QED
  BY <1>1, <1>2, <1>3, <1>4, <1>5 DEF RF!Next

-----------------------------------------------------------------------------
(***************************************************************************)
(* The software I2C masters.                                               *)
(***************************************************************************)
XferPc == {"idle", "addr", "regs", "raddr", "data", "read", "stop"}
XferRes == {"ok", "busy", "absent", "io", "nack", "timeout"}
XferType == [op : IC!Ops, pc : XferPc, regs : 0..MaxRegs, size : 0..MaxSize, tries : 0..MaxTries, res : XferRes]
WireType == [started : BOOLEAN, driven : BOOLEAN, held : BOOLEAN]
PastType == [nacks : SUBSET {"addr", "regs", "data", "raddr"}, phantom : BOOLEAN, empty : BOOLEAN]

I2CTypes == xfer \in XferType /\ wire \in WireType /\ past \in PastType

\* A byte or an attempt that a step takes from a counter is there; which operations
\* reach which phase.
PhasesRight ==
  /\ xfer.pc = "regs" => xfer.regs > 0
  /\ xfer.pc \in {"addr", "regs", "raddr"} /\ xfer.op \in {"pollR", "flagW"} => xfer.tries > 0
  /\ xfer.pc = "read" /\ xfer.op = "flagW" => xfer.tries > 0
  /\ xfer.pc \in {"raddr", "read"} => xfer.op \in IC!Reads \cup {"flagW"}
  /\ xfer.pc \in {"addr", "regs", "data"} => xfer.op # "fastR"
  /\ xfer.pc # "idle" => xfer.op # "check"

\* The slave sends only while it is read; when a read of no bytes ends it still does,
\* and SDA is held only by such a slave.
LineTrue ==
  /\ wire.started <=> xfer.pc # "idle"
  /\ wire.driven => xfer.pc = "read"
  /\ xfer.op \in IC!Reads /\ xfer.size = 0 /\ xfer.pc \in {"addr", "regs", "raddr", "read"} => past.empty
  /\ wire.held => past.empty

Honest == IC!Gpio \cup {"regR", "pageW", "fastR"}

\* An honest operation goes on only after bytes that were acknowledged.
HonestSoFar ==
  /\ xfer.op \in Honest =>
       /\ xfer.pc \in {"addr", "regs", "raddr", "data", "read"} => past.nacks = {}
       /\ xfer.pc \in {"regs", "data", "read"} => xfer.res = "ok"
       /\ xfer.pc \in {"stop", "idle"} /\ xfer.res = "ok" => past.nacks = {} /\ xfer.size = 0
  /\ past.phantom => xfer.op \in IC!Struct \cup {"check"}

I2CInv == I2CTypes /\ PhasesRight /\ LineTrue /\ HonestSoFar

LEMMA I2CImplies == ASSUME I2CInv PROVE IC!BusReleased /\ IC!HonestResult /\ IC!TypeOK
<1>1. IC!BusReleased
  BY DEF I2CInv, LineTrue, IC!BusReleased, IC!At
<1>2. IC!HonestResult
  BY DEF I2CInv, HonestSoFar, Honest, IC!HonestResult, IC!At, IC!Gpio
<1>3. IC!TypeOK
  BY DEF I2CInv, I2CTypes, XferType, PastType, IC!TypeOK
<1> QED
  BY <1>1, <1>2, <1>3

LEMMA I2CParameters == MaxRegs \in Nat /\ MaxRegs > 0 /\ MaxSize \in Nat /\ MaxTries \in Nat /\ MaxTries > 0
BY DevicesAssumption DEF IC!Parameters

LEMMA I2CBegins == ASSUME IC!Init PROVE I2CInv
<1>1. 0 \in 0..MaxRegs /\ 0 \in 0..MaxSize /\ 0 \in 0..MaxTries
  BY I2CParameters
<1>2. xfer \in XferType /\ xfer.pc = "idle" /\ xfer.op = "gpioW" /\ xfer.size = 0
  BY <1>1 DEF IC!Init, XferType, XferPc, XferRes, IC!Ops
<1>3. wire \in WireType /\ ~wire.started /\ ~wire.driven /\ ~wire.held
  BY DEF IC!Init, WireType
<1>4. past \in PastType /\ past.nacks = {} /\ ~past.phantom
  BY DEF IC!Init, PastType
<1> QED
  BY <1>2, <1>3, <1>4 DEF I2CInv, I2CTypes, PhasesRight, LineTrue, HonestSoFar

LEMMA I2CBegin ==
  ASSUME I2CInv, NEW op \in IC!Ops \ {"check"}, NEW regs \in 0..MaxRegs, NEW size \in 0..MaxSize,
         NEW tries \in 0..MaxTries, op \in {"pollR", "flagW"} => tries > 0,
         IC!Begin(op, regs, size, tries)
  PROVE  I2CInv'
<1> DEFINE busy == IC!Busy(op)
           pc == IF busy THEN "idle" ELSE IF op = "fastR" THEN "raddr" ELSE "addr"
           res == IF busy THEN "busy" ELSE "absent"
           s == ~busy
           ph == wire.held /\ ~busy
           em == past.empty \/ (op \in IC!Reads /\ size = 0)
           none == {}
<1>1. /\ xfer.pc = "idle"
      /\ xfer' = [op |-> op, regs |-> regs, size |-> size, tries |-> tries, pc |-> pc, res |-> res]
      /\ wire' = [wire EXCEPT !.started = s]
      /\ past' = [nacks |-> none, phantom |-> ph, empty |-> em]
  BY DEF IC!Begin, IC!At
<1>2. wire \in WireType /\ past \in PastType /\ wire.held \in BOOLEAN /\ past.empty \in BOOLEAN /\ ~wire.driven
  BY <1>1 DEF I2CInv, I2CTypes, WireType, PastType, LineTrue
<1>3. /\ pc \in {"idle", "addr", "raddr"} /\ (pc = "idle" <=> ~s) /\ (pc = "raddr" <=> op = "fastR" /\ s)
      /\ res \in {"busy", "absent"} /\ s \in BOOLEAN
  BY DEF IC!Busy
<1>4. ph \in BOOLEAN /\ em \in BOOLEAN /\ (ph => op \in IC!Struct) /\ (past.empty => em)
      /\ (op \in IC!Reads /\ size = 0 => em)
  BY <1>2 DEF IC!Busy
<1>5. none \subseteq {"addr", "regs", "data", "raddr"} /\ none = {}
  OBVIOUS
<1> HIDE DEF busy, pc, res, s, ph, em, none
<1>6. /\ xfer' \in XferType /\ xfer'.op = op /\ xfer'.regs = regs /\ xfer'.size = size /\ xfer'.tries = tries
      /\ xfer'.pc = pc /\ xfer'.res = res
  BY <1>1, <1>3 DEF XferType, XferPc, XferRes
<1>7. wire' \in WireType /\ wire'.started = s /\ wire'.driven = wire.driven /\ wire'.held = wire.held
  BY <1>1, <1>2, <1>3 DEF WireType
<1>8. past' \in PastType /\ past'.nacks = {} /\ past'.phantom = ph /\ past'.empty = em
  BY <1>1, <1>4, <1>5 DEF PastType
<1>9. PhasesRight'
  BY <1>3, <1>6 DEF PhasesRight, IC!Reads
<1>10. LineTrue'
  BY <1>2, <1>3, <1>4, <1>6, <1>7, <1>8 DEF I2CInv, LineTrue
<1>11. HonestSoFar'
  BY <1>3, <1>4, <1>6, <1>8 DEF HonestSoFar
<1> QED
  BY <1>6, <1>7, <1>8, <1>9, <1>10, <1>11 DEF I2CInv, I2CTypes

LEMMA I2CBegun ==
  ASSUME I2CInv, NEW regs \in 0..MaxRegs, NEW size \in 0..MaxSize, NEW attempts \in 1..MaxTries,
         \/ IC!I2C_GPIO_Write(regs, size) \/ IC!I2C_GPIO_Read(regs, size)
         \/ IC!SW_I2C_Read_Page(regs, size) \/ IC!SW_I2C_Write_Page(regs, size)
         \/ IC!SW_I2C_WR(regs, size) \/ IC!SW_I2C_RD(regs, size)
         \/ IC!SW_I2C_Read_Reg(size) \/ IC!SW_I2C_Write_Reg(size) \/ IC!SW_I2C_FAST_RD(size)
         \/ IC!SW_I2C_RD_POOLING_ACK(size, attempts) \/ IC!SW_I2C_WriteWithFlagPooling(regs, attempts)
  PROVE  I2CInv'
<1>1. /\ 0 \in 0..MaxRegs /\ 1 \in 0..MaxRegs /\ 0 \in 0..MaxSize /\ 0 \in 0..MaxTries
      /\ attempts \in 0..MaxTries /\ attempts > 0
  BY I2CParameters
<1>2. \E op \in IC!Ops \ {"check"}, r \in 0..MaxRegs, z \in 0..MaxSize, t \in 0..MaxTries :
        (op \in {"pollR", "flagW"} => t > 0) /\ IC!Begin(op, r, z, t)
  BY <1>1 DEF IC!Ops, IC!Reads, IC!I2C_GPIO_Write, IC!I2C_GPIO_Read, IC!SW_I2C_Read_Page, IC!SW_I2C_Write_Page, IC!SW_I2C_WR,
       IC!SW_I2C_RD, IC!SW_I2C_Read_Reg, IC!SW_I2C_Write_Reg, IC!SW_I2C_FAST_RD, IC!SW_I2C_RD_POOLING_ACK,
       IC!SW_I2C_WriteWithFlagPooling
<1> QED
  BY <1>2, I2CBegin

\* The bus between two operations.
LEMMA I2CIdle == ASSUME I2CInv, IC!SW_I2C_RESET_BUS \/ IC!SW_I2C_Check_Bus PROVE I2CInv'
<1>1. PICK held \in {FALSE, wire.held} : wire' = [wire EXCEPT !.held = held]
  BY DEF IC!SW_I2C_RESET_BUS, IC!SW_I2C_Check_Bus
<1> DEFINE res == IF wire.held THEN "busy" ELSE "ok"
<1>2. /\ xfer.pc = "idle" /\ past' = past
      /\ xfer' = xfer \/ xfer' = [xfer EXCEPT !.op = "check", !.res = res]
  BY DEF IC!SW_I2C_RESET_BUS, IC!SW_I2C_Check_Bus, IC!At
<1>3. xfer \in XferType /\ wire \in WireType /\ held \in BOOLEAN /\ res \in XferRes /\ "check" \in IC!Ops
  BY DEF I2CInv, I2CTypes, WireType, XferRes, IC!Ops
<1> HIDE DEF res
<1>4. /\ xfer' \in XferType /\ xfer'.pc = "idle" /\ xfer'.regs = xfer.regs /\ xfer'.size = xfer.size /\ xfer'.tries = xfer.tries
      /\ (xfer'.op = xfer.op /\ xfer'.res = xfer.res) \/ xfer'.op = "check"
  BY <1>2, <1>3 DEF XferType
<1>5. wire' \in WireType /\ wire'.started = wire.started /\ wire'.driven = wire.driven /\ wire'.held = held
  BY <1>1, <1>3 DEF WireType
<1>6. PhasesRight'
  BY <1>4 DEF PhasesRight
<1>7. LineTrue'
  BY <1>2, <1>4, <1>5 DEF I2CInv, LineTrue
<1>8. HonestSoFar'
  BY <1>2, <1>4 DEF I2CInv, HonestSoFar, Honest, IC!Gpio
<1> QED
  BY <1>2, <1>4, <1>5, <1>6, <1>7, <1>8 DEF I2CInv, I2CTypes

\* One byte on the line, with its acknowledge.
LEMMA I2CClocked ==
  ASSUME I2CInv, NEW ack \in BOOLEAN, IC!Clocked(ack), xfer.pc \in {"addr", "regs", "data", "raddr"}
  PROVE  /\ wire' \in WireType /\ wire'.started = wire.started /\ wire'.driven = (ack /\ xfer.pc = "raddr")
         /\ wire'.held => wire.held
         /\ past' \in PastType /\ past'.phantom = past.phantom /\ past'.empty = past.empty
         /\ ack => past'.nacks = past.nacks
<1> DEFINE d == ack /\ xfer.pc = "raddr"
           k == IF ack THEN past.nacks ELSE past.nacks \cup {xfer.pc}
<1>1. PICK held \in IF wire.held THEN BOOLEAN ELSE {FALSE} : wire' = [wire EXCEPT !.held = held, !.driven = d]
  BY DEF IC!Clocked, IC!At
<1>2. past' = [past EXCEPT !.nacks = k]
  BY DEF IC!Clocked
<1>3. wire \in WireType /\ past \in PastType /\ held \in BOOLEAN /\ (held => wire.held) /\ d \in BOOLEAN
  BY <1>1 DEF I2CInv, I2CTypes, WireType
<1>4. k \in SUBSET {"addr", "regs", "data", "raddr"} /\ (ack => k = past.nacks)
  BY <1>3 DEF PastType
<1>5. d = (ack /\ xfer.pc = "raddr")
  OBVIOUS
<1> HIDE DEF d, k
<1>6. wire' \in WireType /\ wire'.started = wire.started /\ wire'.driven = d /\ wire'.held = held
  BY <1>1, <1>3 DEF WireType
<1>7. past' \in PastType /\ past'.phantom = past.phantom /\ past'.empty = past.empty /\ past'.nacks = k
  BY <1>2, <1>3, <1>4 DEF PastType
<1> QED
  BY <1>3, <1>4, <1>5, <1>6, <1>7

LEMMA I2CFields == ASSUME I2CInv
  PROVE  /\ xfer \in XferType /\ wire \in WireType /\ past \in PastType
         /\ xfer.op \in IC!Ops /\ xfer.pc \in XferPc /\ xfer.res \in XferRes
         /\ xfer.regs \in 0..MaxRegs /\ xfer.size \in 0..MaxSize /\ xfer.tries \in 0..MaxTries
BY DEF I2CInv, I2CTypes, XferType

LEMMA I2CRefused == IC!Refused \in {"io", "absent", "nack"}
BY DEF IC!Refused

LEMMA I2CWriteAddress == ASSUME I2CInv, NEW ack \in BOOLEAN, IC!WriteAddress(ack) PROVE I2CInv'
<1> DEFINE res == IF xfer.op = "flagW" THEN "ok" ELSE IC!Result(ack)
           pc == IF ~ack THEN "stop" ELSE IF xfer.regs > 0 THEN "regs"
                 ELSE IF xfer.op \in IC!Reads \cup {"flagW"} THEN "raddr" ELSE "data"
<1>1. xfer.pc = "addr" /\ IC!Clocked(ack) /\ xfer' = [xfer EXCEPT !.res = res, !.pc = pc]
  BY DEF IC!WriteAddress, IC!At
<1>2. /\ res \in {"ok", "io", "absent", "nack"} /\ (ack => res = "ok") /\ (~ack /\ xfer.op \in Honest => res # "ok")
  BY I2CRefused DEF IC!Result, Honest, IC!Gpio
<1>3. /\ pc \in {"stop", "regs", "raddr", "data"} /\ (~ack <=> pc = "stop") /\ (pc = "regs" => xfer.regs > 0)
      /\ pc = "raddr" => xfer.op \in IC!Reads \cup {"flagW"}
  OBVIOUS
<1> HIDE DEF res, pc
<1>4. /\ xfer' \in XferType /\ xfer'.op = xfer.op /\ xfer'.regs = xfer.regs /\ xfer'.size = xfer.size
      /\ xfer'.tries = xfer.tries /\ xfer'.pc = pc /\ xfer'.res = res
  BY <1>1, <1>2, <1>3, I2CFields DEF XferType, XferPc, XferRes
<1>5. /\ wire' \in WireType /\ wire'.started = wire.started /\ ~wire'.driven /\ (wire'.held => wire.held)
      /\ past' \in PastType /\ past'.phantom = past.phantom /\ past'.empty = past.empty
      /\ ack => past'.nacks = past.nacks
  BY <1>1, I2CClocked
<1>6. PhasesRight'
  BY <1>1, <1>3, <1>4 DEF I2CInv, PhasesRight
<1>7. LineTrue'
  BY <1>1, <1>3, <1>4, <1>5 DEF I2CInv, LineTrue
<1>8. HonestSoFar'
  BY <1>1, <1>2, <1>3, <1>4, <1>5 DEF I2CInv, HonestSoFar
<1> QED
  BY <1>4, <1>5, <1>6, <1>7, <1>8 DEF I2CInv, I2CTypes

LEMMA I2CWriteReg == ASSUME I2CInv, NEW ack \in BOOLEAN, IC!WriteReg(ack) PROVE I2CInv'
<1> DEFINE more == xfer.regs > 1 /\ (ack \/ IC!GoesOn)
           ends == IC!RegEnds(ack) \/ (~more /\ ~ack /\ xfer.op = "drvW")
           left == xfer.regs - 1
           res == IF IC!Polls THEN xfer.res ELSE IC!Result(ack)
           pc == IF ends THEN "stop" ELSE IF more THEN "regs"
                 ELSE IF xfer.op \in IC!Reads \cup {"flagW"} THEN "raddr" ELSE "data"
<1>1. xfer.pc = "regs" /\ IC!Clocked(ack) /\ xfer' = [xfer EXCEPT !.regs = left, !.res = res, !.pc = pc]
  BY DEF IC!WriteReg, IC!At
<1>2. /\ res \in XferRes /\ (ack /\ xfer.op \in Honest => res = "ok") /\ (~ack /\ xfer.op \in Honest => res # "ok")
  BY I2CRefused, I2CFields DEF IC!Result, Honest, IC!Gpio, IC!Polls, XferRes
<1>3. xfer.op # "fastR" /\ xfer.regs > 0 /\ left \in 0..MaxRegs /\ (more => left > 0)
  BY <1>1, I2CFields, I2CParameters DEF I2CInv, PhasesRight
<1>4. /\ pc \in {"stop", "regs", "raddr", "data"} /\ (pc = "regs" => left > 0)
      /\ pc = "raddr" => xfer.op \in IC!Reads \cup {"flagW"}
      /\ ~ack /\ xfer.op \in Honest => pc = "stop"
      /\ ack /\ xfer.op \in Honest => pc # "stop"
  BY <1>3 DEF IC!RegEnds, Honest, IC!Gpio
<1> HIDE DEF res, pc, left, more, ends
<1>5. /\ xfer' \in XferType /\ xfer'.op = xfer.op /\ xfer'.regs = left /\ xfer'.size = xfer.size
      /\ xfer'.tries = xfer.tries /\ xfer'.pc = pc /\ xfer'.res = res
  BY <1>1, <1>2, <1>3, <1>4, I2CFields DEF XferType, XferPc
<1>6. /\ wire' \in WireType /\ wire'.started = wire.started /\ ~wire'.driven /\ (wire'.held => wire.held)
      /\ past' \in PastType /\ past'.phantom = past.phantom /\ past'.empty = past.empty
      /\ ack => past'.nacks = past.nacks
  BY <1>1, I2CClocked
<1>7. PhasesRight'
  BY <1>1, <1>3, <1>4, <1>5 DEF I2CInv, PhasesRight
<1>8. LineTrue'
  BY <1>1, <1>4, <1>5, <1>6 DEF I2CInv, LineTrue
<1>9. HonestSoFar'
  BY <1>1, <1>2, <1>4, <1>5, <1>6 DEF I2CInv, HonestSoFar
<1> QED
  BY <1>5, <1>6, <1>7, <1>8, <1>9 DEF I2CInv, I2CTypes

LEMMA I2CWriteData == ASSUME I2CInv, NEW ack \in BOOLEAN, IC!WriteData(ack) PROVE I2CInv'
<1> DEFINE left == xfer.size - 1
           res == IF xfer.op = "regW" THEN xfer.res ELSE IC!Result(ack)
           pc == IF IC!MoreData(ack) THEN "data" ELSE "stop"
<1>1. xfer.pc = "data" /\ xfer.size > 0 /\ IC!Clocked(ack) /\ xfer' = [xfer EXCEPT !.size = left, !.res = res, !.pc = pc]
  BY DEF IC!WriteData, IC!At
<1>2. /\ res \in XferRes /\ (ack /\ xfer.op \in Honest => res = "ok") /\ (~ack /\ xfer.op \in Honest => res # "ok")
  BY I2CRefused, I2CFields DEF IC!Result, Honest, IC!Gpio, XferRes
<1>3. left \in 0..MaxSize
  BY <1>1, I2CFields, I2CParameters
<1>4. /\ pc \in {"stop", "data"} /\ (~ack /\ xfer.op \in Honest => pc = "stop")
      /\ ack /\ pc = "stop" => left = 0
  BY <1>1, I2CFields, I2CParameters DEF IC!MoreData, Honest, IC!Gpio
<1> HIDE DEF res, pc, left
<1>5. /\ xfer' \in XferType /\ xfer'.op = xfer.op /\ xfer'.regs = xfer.regs /\ xfer'.size = left
      /\ xfer'.tries = xfer.tries /\ xfer'.pc = pc /\ xfer'.res = res
  BY <1>1, <1>2, <1>3, <1>4, I2CFields DEF XferType, XferPc
<1>6. /\ wire' \in WireType /\ wire'.started = wire.started /\ ~wire'.driven /\ (wire'.held => wire.held)
      /\ past' \in PastType /\ past'.phantom = past.phantom /\ past'.empty = past.empty
      /\ ack => past'.nacks = past.nacks
  BY <1>1, I2CClocked
<1>7. PhasesRight'
  BY <1>1, <1>4, <1>5 DEF I2CInv, PhasesRight
<1>8. LineTrue'
  BY <1>1, <1>4, <1>5, <1>6 DEF I2CInv, LineTrue
<1>9. HonestSoFar'
  BY <1>1, <1>2, <1>4, <1>5, <1>6 DEF I2CInv, HonestSoFar
<1> QED
  BY <1>5, <1>6, <1>7, <1>8, <1>9 DEF I2CInv, I2CTypes

LEMMA I2CWriteReadAddress == ASSUME I2CInv, NEW ack \in BOOLEAN, IC!WriteReadAddress(ack) PROVE I2CInv'
<1> DEFINE retry == ~ack /\ xfer.op = "pollR" /\ xfer.tries > 1
           left == IF ~ack /\ xfer.op = "pollR" THEN xfer.tries - 1 ELSE xfer.tries
           pc == IF retry THEN "raddr" ELSE IF ack \/ xfer.op = "flagW" THEN "read" ELSE "stop"
           res == IF ack THEN "ok" ELSE IF xfer.op = "pollR" THEN "timeout"
                  ELSE IF xfer.op \in {"pageR", "drvR", "flagW"} THEN xfer.res ELSE IC!Refused
<1>1. xfer.pc = "raddr" /\ IC!Clocked(ack) /\ xfer' = [xfer EXCEPT !.tries = left, !.pc = pc, !.res = res]
  BY DEF IC!WriteReadAddress, IC!At
<1>2. /\ res \in XferRes /\ (ack => res = "ok") /\ (~ack /\ xfer.op \in Honest => res # "ok")
  BY I2CRefused, I2CFields DEF Honest, IC!Gpio, XferRes
<1>3. xfer.op \in {"pollR", "flagW"} => xfer.tries > 0
  BY <1>1 DEF I2CInv, PhasesRight
<1>4. left \in 0..MaxTries
  BY <1>3, I2CFields, I2CParameters
<1>5. /\ pc \in {"stop", "raddr", "read"} /\ (ack => pc = "read") /\ (~ack /\ xfer.op \in Honest => pc = "stop")
      /\ pc = "raddr" => left > 0
      /\ xfer.op = "flagW" => left > 0
      /\ wire.driven => pc = "read"
  BY <1>1, <1>3, I2CFields, I2CParameters DEF Honest, IC!Gpio, I2CInv, LineTrue
<1> HIDE DEF res, pc, left, retry
<1>6. /\ xfer' \in XferType /\ xfer'.op = xfer.op /\ xfer'.regs = xfer.regs /\ xfer'.size = xfer.size
      /\ xfer'.tries = left /\ xfer'.pc = pc /\ xfer'.res = res
  BY <1>1, <1>2, <1>4, <1>5, I2CFields DEF XferType, XferPc
<1>7. /\ wire' \in WireType /\ wire'.started = wire.started /\ (wire'.driven => ack) /\ (wire'.held => wire.held)
      /\ past' \in PastType /\ past'.phantom = past.phantom /\ past'.empty = past.empty
      /\ ack => past'.nacks = past.nacks
  BY <1>1, I2CClocked
<1>8. PhasesRight'
  BY <1>1, <1>5, <1>6 DEF I2CInv, PhasesRight
<1>9. LineTrue'
  BY <1>1, <1>5, <1>6, <1>7 DEF I2CInv, LineTrue
<1>10. HonestSoFar'
  BY <1>1, <1>2, <1>5, <1>6, <1>7 DEF I2CInv, HonestSoFar
<1> QED
  BY <1>6, <1>7, <1>8, <1>9, <1>10 DEF I2CInv, I2CTypes

LEMMA I2CReadData == ASSUME I2CInv, IC!ReadData PROVE I2CInv'
<1> DEFINE left == xfer.size - 1
           pc == IF xfer.size = 1 THEN "stop" ELSE "read"
           d == xfer.size > 1
<1>1. /\ xfer.pc = "read" /\ xfer.op # "flagW" /\ xfer.size > 0 /\ xfer' = [xfer EXCEPT !.size = left, !.pc = pc]
      /\ wire' = [wire EXCEPT !.driven = d] /\ past' = past
  BY DEF IC!ReadData, IC!At, IC!AcksByte
<1>2. /\ left \in 0..MaxSize /\ pc \in {"stop", "read"} /\ (pc = "stop" <=> left = 0) /\ (d => pc = "read") /\ d \in BOOLEAN
  BY <1>1, I2CFields, I2CParameters
<1> HIDE DEF left, pc, d
<1>3. /\ xfer' \in XferType /\ xfer'.op = xfer.op /\ xfer'.regs = xfer.regs /\ xfer'.size = left
      /\ xfer'.tries = xfer.tries /\ xfer'.pc = pc /\ xfer'.res = xfer.res
  BY <1>1, <1>2, I2CFields DEF XferType, XferPc
<1>4. wire' \in WireType /\ wire'.started = wire.started /\ wire'.held = wire.held /\ wire'.driven = d
  BY <1>1, <1>2, I2CFields DEF WireType
<1>5. PhasesRight'
  BY <1>1, <1>2, <1>3 DEF I2CInv, PhasesRight
<1>6. LineTrue'
  BY <1>1, <1>2, <1>3, <1>4 DEF I2CInv, LineTrue
<1>7. HonestSoFar'
  BY <1>1, <1>2, <1>3 DEF I2CInv, HonestSoFar
<1> QED
  BY <1>1, <1>3, <1>4, <1>5, <1>6, <1>7 DEF I2CInv, I2CTypes

LEMMA I2CReadFlag == ASSUME I2CInv, NEW set \in BOOLEAN, IC!ReadFlag(set) PROVE I2CInv'
<1> DEFINE again == xfer.tries > 1 /\ ~set
           left == xfer.tries - 1
           pc == IF again THEN "read" ELSE "stop"
           res == IF xfer.tries = 1 THEN "timeout" ELSE xfer.res
           d == again /\ wire.driven
<1>1. /\ xfer.pc = "read" /\ xfer.op = "flagW" /\ xfer' = [xfer EXCEPT !.tries = left, !.pc = pc, !.res = res]
      /\ wire' = [wire EXCEPT !.driven = d] /\ past' = past
  BY DEF IC!ReadFlag, IC!At
<1>2. xfer.tries > 0 /\ wire.driven \in BOOLEAN
  BY <1>1, I2CFields DEF I2CInv, PhasesRight, WireType
<1>3. /\ left \in 0..MaxTries /\ pc \in {"stop", "read"} /\ (pc = "read" => left > 0) /\ (d => pc = "read")
      /\ d \in BOOLEAN /\ res \in XferRes
  BY <1>2, I2CFields, I2CParameters DEF XferRes
<1> HIDE DEF left, pc, d, res, again
<1>4. /\ xfer' \in XferType /\ xfer'.op = xfer.op /\ xfer'.regs = xfer.regs /\ xfer'.size = xfer.size
      /\ xfer'.tries = left /\ xfer'.pc = pc /\ xfer'.res = res
  BY <1>1, <1>3, I2CFields DEF XferType, XferPc
<1>5. wire' \in WireType /\ wire'.started = wire.started /\ wire'.held = wire.held /\ wire'.driven = d
  BY <1>1, <1>3, I2CFields DEF WireType
<1>6. PhasesRight'
  BY <1>1, <1>3, <1>4 DEF I2CInv, PhasesRight
<1>7. LineTrue'
  BY <1>1, <1>3, <1>4, <1>5 DEF I2CInv, LineTrue, IC!Reads
<1>8. HonestSoFar'
  BY <1>1, <1>4 DEF I2CInv, HonestSoFar, Honest, IC!Gpio
<1> QED
  BY <1>1, <1>4, <1>5, <1>6, <1>7, <1>8 DEF I2CInv, I2CTypes

LEMMA I2CStop == ASSUME I2CInv, IC!Stop PROVE I2CInv'
<1> DEFINE no == FALSE
<1>1. PICK held \in IF wire.driven THEN BOOLEAN ELSE {wire.held} :
        wire' = [wire EXCEPT !.started = no, !.driven = no, !.held = held]
  BY DEF IC!Stop
<1>2. /\ xfer.pc = "stop" \/ (xfer.pc \in {"data", "read"} /\ xfer.op # "flagW" /\ xfer.size = 0)
      /\ xfer' = [xfer EXCEPT !.pc = "idle"] /\ past' = past
  BY DEF IC!Stop, IC!At
<1>3. held \in BOOLEAN /\ no \in BOOLEAN /\ no = FALSE
  BY <1>1, I2CFields DEF WireType
<1> HIDE DEF no
<1>4. /\ xfer' \in XferType /\ xfer'.op = xfer.op /\ xfer'.regs = xfer.regs /\ xfer'.size = xfer.size
      /\ xfer'.tries = xfer.tries /\ xfer'.pc = "idle" /\ xfer'.res = xfer.res
  BY <1>2, I2CFields DEF XferType, XferPc
<1>5. wire' \in WireType /\ ~wire'.started /\ ~wire'.driven /\ wire'.held = held
  BY <1>1, <1>3, I2CFields DEF WireType
<1>6. held => past.empty
  <2>1. CASE wire.driven
    BY <1>2, <2>1 DEF I2CInv, LineTrue, PhasesRight
  <2>2. CASE ~wire.driven
    BY <1>1, <2>2 DEF I2CInv, LineTrue
  <2> QED
    BY <2>1, <2>2
<1>7. PhasesRight'
  BY <1>4 DEF PhasesRight
<1>8. LineTrue'
  BY <1>2, <1>4, <1>5, <1>6 DEF LineTrue
<1>9. HonestSoFar'
  BY <1>2, <1>4 DEF I2CInv, HonestSoFar
<1> QED
  BY <1>2, <1>4, <1>5, <1>7, <1>8, <1>9 DEF I2CInv, I2CTypes

LEMMA I2CSteps == ASSUME I2CInv, IC!Next PROVE I2CInv'
<1> USE I2CParameters
<1>1. CASE \E regs \in 0..MaxRegs, size \in 0..MaxSize :
             \/ IC!I2C_GPIO_Write(regs, size) \/ IC!I2C_GPIO_Read(regs, size)
             \/ IC!SW_I2C_Read_Page(regs, size) \/ IC!SW_I2C_Write_Page(regs, size)
             \/ IC!SW_I2C_WR(regs, size) \/ IC!SW_I2C_RD(regs, size)
  <2>1. 1 \in 1..MaxTries
    OBVIOUS
  <2> QED
    BY <1>1, <2>1, I2CBegun
<1>2. CASE \E size \in 0..MaxSize :
             \/ IC!SW_I2C_Read_Reg(size) \/ IC!SW_I2C_Write_Reg(size) \/ IC!SW_I2C_FAST_RD(size)
             \/ \E attempts \in 1..MaxTries : IC!SW_I2C_RD_POOLING_ACK(size, attempts)
  <2>1. 1 \in 1..MaxTries /\ 0 \in 0..MaxRegs
    OBVIOUS
  <2> QED
    BY <1>2, <2>1, I2CBegun
<1>3. CASE \E regs \in 0..MaxRegs, attempts \in 1..MaxTries : IC!SW_I2C_WriteWithFlagPooling(regs, attempts)
  <2>1. 0 \in 0..MaxSize
    OBVIOUS
  <2> QED
    BY <1>3, <2>1, I2CBegun
<1>4. CASE \E b \in BOOLEAN :
             IC!WriteAddress(b) \/ IC!WriteReg(b) \/ IC!WriteData(b) \/ IC!WriteReadAddress(b) \/ IC!ReadFlag(b)
  BY <1>4, I2CWriteAddress, I2CWriteReg, I2CWriteData, I2CWriteReadAddress, I2CReadFlag
<1>5. CASE IC!ReadData \/ IC!Stop \/ IC!SW_I2C_RESET_BUS \/ IC!SW_I2C_Check_Bus
  BY <1>5, I2CReadData, I2CStop, I2CIdle
<1> QED
  BY <1>1, <1>2, <1>3, <1>4, <1>5 DEF IC!Next

-----------------------------------------------------------------------------
(***************************************************************************)
(* The search on the 1-Wire bus.  O is the set of serial numbers on the    *)
(* bus.  The devices that agree with the bits b read so far split at bit i *)
(* if they have both values there: that is where the search meets a        *)
(* collision, and it numbers them in the order it meets them.              *)
(***************************************************************************)
Agree(d, b, k) == \A i \in 1..k : d[i] = b[i]
Splits(O, b, i) == \E d, e \in O : Agree(d, b, i - 1) /\ Agree(e, b, i - 1) /\ d[i] = 0 /\ e[i] = 1
SplitsTo(O, b, k) == {i \in 1..k : Splits(O, b, i)}
Count(O, b, k) == Cardinality(SplitsTo(O, b, k))

\* The order in which the search finds the serial numbers.
Before(d, b) == \E i \in 1..Width : Agree(d, b, i - 1) /\ d[i] = 0 /\ b[i] = 1

LEMMA SplitsFinite == ASSUME NEW O, NEW b, NEW k \in Nat
  PROVE  IsFiniteSet(SplitsTo(O, b, k)) /\ Count(O, b, k) \in Nat
<1>1. IsFiniteSet(1..k)
  BY FS_Interval
<1>2. SplitsTo(O, b, k) \in SUBSET (1..k)
  BY DEF SplitsTo
<1>3. IsFiniteSet(SplitsTo(O, b, k))
  BY <1>1, <1>2, FS_Subset
<1> QED
  BY <1>3, FS_CardinalityType DEF Count

LEMMA CountNone == ASSUME NEW O, NEW b PROVE Count(O, b, 0) = 0
<1>1. SplitsTo(O, b, 0) = {}
  BY DEF SplitsTo
<1> QED
  BY <1>1, FS_EmptySet DEF Count

LEMMA CountNext == ASSUME NEW O, NEW b, NEW k \in Nat
  PROVE  Count(O, b, k + 1) = IF Splits(O, b, k + 1) THEN Count(O, b, k) + 1 ELSE Count(O, b, k)
<1>1. CASE Splits(O, b, k + 1)
  <2>1. SplitsTo(O, b, k + 1) = SplitsTo(O, b, k) \cup {k + 1} /\ k + 1 \notin SplitsTo(O, b, k)
    BY <1>1 DEF SplitsTo
  <2> QED
    BY <1>1, <2>1, SplitsFinite, FS_AddElement DEF Count
<1>2. CASE ~Splits(O, b, k + 1)
  <2>1. SplitsTo(O, b, k + 1) = SplitsTo(O, b, k)
    BY <1>2 DEF SplitsTo
  <2> QED
    BY <1>2, <2>1 DEF Count
<1> QED
  BY <1>1, <1>2

LEMMA CountRises == ASSUME NEW O, NEW b, NEW i \in Nat, NEW j \in Nat, i < j, Splits(O, b, j)
  PROVE  Count(O, b, i) < Count(O, b, j)
<1> DEFINE S == SplitsTo(O, b, i)
           T == SplitsTo(O, b, j)
<1>1. IsFiniteSet(S) /\ IsFiniteSet(T) /\ Cardinality(S) \in Nat /\ Cardinality(T) \in Nat
  BY SplitsFinite DEF Count
<1>2. S \cup {j} \subseteq T /\ j \notin S
  BY DEF SplitsTo
<1> HIDE DEF S, T
<1>3. Cardinality(S \cup {j}) = Cardinality(S) + 1
  BY <1>1, <1>2, FS_AddElement
<1>4. Cardinality(S \cup {j}) <= Cardinality(T)
  BY <1>1, <1>2, FS_Subset
<1>5. Cardinality(S) < Cardinality(T)
  BY <1>1, <1>3, <1>4
<1> QED
  BY <1>5 DEF S, T, Count

\* Splits and their numbers depend on the bits before them only.
LEMMA AgreeSplits == ASSUME NEW O, NEW b, NEW c, NEW k \in Nat, Agree(b, c, k), NEW i \in 1..(k + 1)
  PROVE  Splits(O, b, i) <=> Splits(O, c, i)
<1>1. \A d : Agree(d, b, i - 1) <=> Agree(d, c, i - 1)
  BY DEF Agree
<1> QED
  BY <1>1, Zenon DEF Splits

LEMMA AgreeCounts == ASSUME NEW O, NEW b, NEW c, NEW k \in Nat, Agree(b, c, k), NEW i \in 0..(k + 1)
  PROVE  Count(O, b, i) = Count(O, c, i)
<1>1. \A m \in 1..i : Splits(O, b, m) <=> Splits(O, c, m)
  <2> TAKE m \in 1..i
  <2>1. m \in 1..(k + 1)
    OBVIOUS
  <2> QED
    BY <2>1, AgreeSplits
<1>2. SplitsTo(O, b, i) = SplitsTo(O, c, i)
  BY <1>1 DEF SplitsTo
<1> QED
  BY <1>2 DEF Count

LEMMA FirstDifference == ASSUME NEW d \in OW!Rom, NEW e \in OW!Rom, NEW i \in 1..Width, d[i] # e[i]
  PROVE  \E m \in 1..i : Agree(d, e, m - 1) /\ d[m] # e[m]
<1>0. Width \in Nat
  BY DevicesAssumption DEF OW!Parameters
<1> DEFINE S == {m \in 1..i : d[m] # e[m]}
<1>1. S \in SUBSET Nat /\ S # {}
  BY <1>0
<1> HIDE DEF S
<1>2. PICK m \in S : \A n \in S : m <= n
  BY <1>1, LeastElement
<1>3. m \in 1..i /\ d[m] # e[m] /\ \A n \in 1..i : d[n] # e[n] => m <= n
  BY <1>2 DEF S
<1>4. Agree(d, e, m - 1)
  BY <1>0, <1>3 DEF Agree
<1> QED
  BY <1>3, <1>4

LEMMA RomBits == ASSUME NEW d \in OW!Rom, NEW i \in 1..Width PROVE d[i] \in {0, 1}
BY DEF OW!Rom

LEMMA RomsDiffer == ASSUME NEW d \in OW!Rom, NEW e \in OW!Rom, d # e PROVE \E n \in 1..Width : d[n] # e[n]
<1>1. d = [n \in 1..Width |-> d[n]] /\ e = [n \in 1..Width |-> e[n]]
  BY DEF OW!Rom
<1> SUFFICES ASSUME \A n \in 1..Width : d[n] = e[n] PROVE FALSE
  OBVIOUS
<1>2. [n \in 1..Width |-> d[n]] = [n \in 1..Width |-> e[n]]
  OBVIOUS
<1> QED
  BY <1>1, <1>2, Zenon

\* Two devices that differ split at their first difference.
LEMMA DifferSplit ==
  ASSUME NEW O \in SUBSET OW!Rom, NEW d \in O, NEW e \in O, NEW m \in 1..Width, Agree(d, e, m - 1), d[m] # e[m]
  PROVE  Splits(O, e, m)
<1>1. d[m] \in {0, 1} /\ e[m] \in {0, 1}
  BY RomBits
<1>2. Agree(e, e, m - 1)
  BY DEF Agree
<1> QED
  BY <1>1, <1>2 DEF Splits

\* What the marker words say: at the splits of b the 1 was taken where the path says so;
\* j is the last split where the 0 was taken; the path leads from the device r that was
\* found last to the branch at j; F are the devices up to r in the order of the search.
Decided(O, path, b, k) == \A i \in 1..k : Splits(O, b, i) => (b[i] = 1 <=> Count(O, b, i) \in path)
NoZero(O, b, k) == \A i \in 1..k : Splits(O, b, i) => b[i] = 1
LastZero(O, b, k, j) ==
  /\ j \in 1..k /\ Splits(O, b, j) /\ b[j] = 0
  /\ \A i \in 1..k : i > j /\ Splits(O, b, i) => b[i] = 1
Leads(O, path, r, j) ==
  /\ LastZero(O, r, Width, j)
  /\ Count(O, r, j) \in path /\ \A p \in path : p <= Count(O, r, j)
  /\ \A i \in 1..Width : i < j /\ Splits(O, r, i) => (r[i] = 1 <=> Count(O, r, i) \in path)
UpTo(O, F, r) == r \in O /\ \A d : d \in F <=> d \in O /\ (d = r \/ Before(d, r))

LEMMA WidthPositive == Width \in Nat /\ Width > 0
BY DevicesAssumption DEF OW!Parameters

\* The first pass takes the 0 at every split, and finds the first device.
LEMMA FirstFound == ASSUME NEW O \in SUBSET OW!Rom, NEW b \in O, Decided(O, {}, b, Width) PROVE UpTo(O, {b}, b)
<1>1. ASSUME NEW d \in O, Before(d, b) PROVE FALSE
  <2>1. PICK i \in 1..Width : Agree(d, b, i - 1) /\ d[i] = 0 /\ b[i] = 1
    BY <1>1 DEF Before
  <2>2. Splits(O, b, i)
    BY <2>1, DifferSplit
  <2> QED
    BY <2>1, <2>2 DEF Decided
<1> QED
  BY <1>1 DEF UpTo

\* If no split of the last device had a 0 there is none behind it.
LEMMA AllFound ==
  ASSUME NEW O \in SUBSET OW!Rom, NEW F, NEW b, UpTo(O, F, b), NoZero(O, b, Width)
  PROVE  F = O
<1>1. b \in O /\ b \in OW!Rom
  BY DEF UpTo
<1>2. ASSUME NEW d \in O PROVE d = b \/ Before(d, b)
  <2> SUFFICES ASSUME d # b PROVE Before(d, b)
    OBVIOUS
  <2>1. PICK n \in 1..Width : d[n] # b[n]
    BY <1>1, RomsDiffer
  <2>2. PICK i \in 1..n : Agree(d, b, i - 1) /\ d[i] # b[i]
    BY <1>1, <2>1, FirstDifference
  <2>3. i \in 1..Width
    BY WidthPositive
  <2>4. Splits(O, b, i)
    BY <1>1, <2>2, <2>3, DifferSplit
  <2>5. b[i] = 1 /\ d[i] = 0
    BY <2>2, <2>3, <2>4, RomBits DEF NoZero
  <2> QED
    BY <2>2, <2>3, <2>5 DEF Before
<1> QED
  BY <1>2 DEF UpTo

\* A pass that follows the path agrees with the last device up to the branch, and takes
\* the 1 there and the 0 at every split behind it.
Follows(O, b, r, j) ==
  /\ Agree(b, r, j - 1) /\ b[j] = 1
  /\ \A i \in 1..Width : i > j /\ Splits(O, b, i) => b[i] # 1

LEMMA PassFollows ==
  ASSUME NEW O \in SUBSET OW!Rom, NEW path \in SUBSET Nat, NEW r \in O, NEW j, Leads(O, path, r, j),
         NEW b \in O, Decided(O, path, b, Width)
  PROVE  Follows(O, b, r, j)
<1>0. j \in 1..Width /\ j \in Nat /\ r \in OW!Rom /\ b \in OW!Rom
  BY WidthPositive DEF Leads, LastZero
<1>1. Agree(b, r, j - 1)
  <2> SUFFICES ASSUME NEW n \in 1..(j - 1), b[n] # r[n] PROVE FALSE
    BY DEF Agree
  <2>1. n \in 1..Width
    BY <1>0, WidthPositive
  <2>2. PICK i \in 1..n : Agree(b, r, i - 1) /\ b[i] # r[i]
    BY <1>0, <2>1, FirstDifference
  <2>3. i \in 1..Width /\ i < j /\ i \in Nat /\ i - 1 \in Nat /\ i \in 1..(i - 1 + 1) /\ i \in 0..(i - 1 + 1)
    BY <1>0, WidthPositive
  <2>4. Splits(O, r, i)
    BY <2>2, <2>3, DifferSplit
  <2>5. Splits(O, b, i) /\ Count(O, b, i) = Count(O, r, i)
    BY <2>2, <2>3, <2>4, AgreeSplits, AgreeCounts
  <2>6. b[i] = 1 <=> r[i] = 1
    BY <2>3, <2>4, <2>5 DEF Decided, Leads
  <2>7. b[i] \in {0, 1} /\ r[i] \in {0, 1}
    BY <1>0, <2>3, RomBits
  <2> QED
    BY <2>2, <2>6, <2>7
<1>2. j - 1 \in Nat /\ j \in 1..(j - 1 + 1) /\ j \in 0..(j - 1 + 1)
  BY <1>0
<1>3. Splits(O, b, j) /\ Count(O, b, j) = Count(O, r, j)
  BY <1>1, <1>2, AgreeSplits, AgreeCounts DEF Leads, LastZero
<1>4. b[j] = 1
  BY <1>0, <1>3 DEF Decided, Leads
<1>5. ASSUME NEW i \in 1..Width, i > j, Splits(O, b, i) PROVE b[i] # 1
  <2>1. Count(O, b, j) < Count(O, b, i) /\ Count(O, b, j) \in Nat /\ Count(O, b, i) \in Nat
    <3>1. i \in Nat
      BY WidthPositive
    <3> QED
      BY <1>0, <1>5, <3>1, CountRises, SplitsFinite
  <2>2. Count(O, b, i) \notin path
    BY <1>3, <2>1 DEF Leads
  <2> QED
    BY <1>5, <2>2 DEF Decided
<1> QED
  BY <1>1, <1>4, <1>5 DEF Follows

\* Hence it finds the device that follows.
LEMMA NextFound ==
  ASSUME NEW O \in SUBSET OW!Rom, NEW path \in SUBSET Nat, NEW r, NEW j, Leads(O, path, r, j),
         NEW F, UpTo(O, F, r), NEW b \in O, Decided(O, path, b, Width)
  PROVE  b \notin F /\ UpTo(O, F \cup {b}, b)
<1>0. j \in 1..Width /\ j \in Nat /\ r \in O /\ r \in OW!Rom /\ b \in OW!Rom /\ r[j] = 0
  BY WidthPositive DEF Leads, LastZero, UpTo
<1>1. /\ \A i \in 1..(j - 1) : b[i] = r[i]
      /\ b[j] = 1
      /\ \A i \in 1..Width : i > j /\ Splits(O, b, i) => b[i] # 1
  <2>1. Follows(O, b, r, j)
    BY <1>0, PassFollows
  <2> QED
    BY <2>1 DEF Follows, Agree
<1>2. b # r
  BY <1>0, <1>1
<1>3. ~Before(b, r)
  <2> SUFFICES ASSUME NEW i \in 1..Width, Agree(b, r, i - 1), b[i] = 0, r[i] = 1 PROVE FALSE
    BY DEF Before
  <2>1. CASE i < j
    BY <1>0, <1>1, <2>1
  <2>2. CASE i = j
    BY <1>0, <2>2
  <2>3. CASE i > j
    <3>1. j \in 1..(i - 1)
      BY <1>0, <2>3
    <3>2. b[j] = r[j]
      BY <3>1 DEF Agree
    <3> QED
      BY <1>0, <1>1, <3>2
  <2>4. i \in Nat
    BY WidthPositive
  <2> QED
    BY <1>0, <2>1, <2>2, <2>3, <2>4
<1>4. b \notin F
  BY <1>2, <1>3 DEF UpTo
<1>5. Before(r, b)
  <2>1. Agree(r, b, j - 1)
    BY <1>1 DEF Agree
  <2> QED
    BY <1>0, <1>1, <2>1 DEF Before
<1>6. ASSUME NEW d \in O, Before(d, r) PROVE Before(d, b)
  <2>1. PICK i \in 1..Width : Agree(d, r, i - 1) /\ d[i] = 0 /\ r[i] = 1
    BY <1>6 DEF Before
  <2>2. i \in Nat
    BY WidthPositive
  <2>3. CASE i < j
    <3>1. Agree(d, b, i - 1) /\ b[i] = 1
      BY <1>0, <1>1, <2>1, <2>2, <2>3 DEF Agree
    <3> QED
      BY <2>1, <3>1 DEF Before
  <2>4. CASE i > j
    <3>1. Agree(d, b, j - 1) /\ d[j] = r[j]
      BY <1>0, <1>1, <2>1, <2>2, <2>4 DEF Agree
    <3> QED
      BY <1>0, <1>1, <3>1 DEF Before
  <2> QED
    BY <1>0, <2>1, <2>2, <2>3, <2>4
<1>7. ASSUME NEW d \in O, Before(d, b) PROVE d = r \/ Before(d, r)
  <2>1. PICK i \in 1..Width : Agree(d, b, i - 1) /\ d[i] = 0 /\ b[i] = 1
    BY <1>7 DEF Before
  <2>2. i \in Nat
    BY WidthPositive
  <2>3. CASE i < j
    <3>1. Agree(d, r, i - 1) /\ r[i] = 1
      BY <1>0, <1>1, <2>1, <2>2, <2>3 DEF Agree
    <3> QED
      BY <2>1, <3>1 DEF Before
  <2>4. CASE i > j
    <3>1. Splits(O, b, i)
      BY <2>1, DifferSplit
    <3> QED
      BY <1>1, <2>1, <2>4, <3>1
  <2>5. CASE i = j
    <3> SUFFICES ASSUME d # r PROVE Before(d, r)
      OBVIOUS
    <3>1. PICK n \in 1..Width : d[n] # r[n]
      BY <1>0, RomsDiffer
    <3>2. PICK m \in 1..n : Agree(d, r, m - 1) /\ d[m] # r[m]
      BY <1>0, <3>1, FirstDifference
    <3>3. m \in 1..Width /\ m \in Nat
      BY WidthPositive
    <3>4. m > j
      <4>1. \A k \in 1..j : d[k] = r[k]
        BY <1>0, <1>1, <2>1, <2>5 DEF Agree
      <4> QED
        BY <1>0, <3>2, <3>3, <4>1
    <3>5. Splits(O, r, m)
      BY <1>0, <3>2, <3>3, DifferSplit
    <3>6. r[m] = 1
      BY <3>3, <3>4, <3>5 DEF Leads, LastZero
    <3>7. d[m] = 0
      BY <3>2, <3>3, <3>6, RomBits
    <3> QED
      BY <3>2, <3>3, <3>6, <3>7 DEF Before
  <2> QED
    BY <1>0, <2>2, <2>3, <2>4, <2>5
<1>8. ASSUME NEW d PROVE d \in F \cup {b} <=> d \in O /\ (d = b \/ Before(d, b))
  BY <1>5, <1>6, <1>7 DEF UpTo
<1> QED
  BY <1>4, <1>8 DEF UpTo

\* And the next path leads on from it.
LEMMA NextLeads ==
  ASSUME NEW O, NEW path \in SUBSET Nat, NEW b, NEW j, Decided(O, path, b, Width), LastZero(O, b, Width, j)
  PROVE  Leads(O, OW!Branch(path, Count(O, b, j)), b, j)
<1> DEFINE c == Count(O, b, j)
<1>0. j \in 1..Width /\ j \in Nat
  BY WidthPositive DEF LastZero
<1>1. c \in Nat
  BY <1>0, SplitsFinite
<1>2. \A p : p \in OW!Branch(path, c) <=> (p \in path /\ p < c) \/ p = c
  BY DEF OW!Branch
<1>3. ASSUME NEW i \in 1..Width, i < j, Splits(O, b, i)
      PROVE  b[i] = 1 <=> Count(O, b, i) \in OW!Branch(path, c)
  <2>1. i \in Nat
    BY WidthPositive
  <2>2. Count(O, b, i) < c /\ Count(O, b, i) \in Nat
    BY <1>0, <1>3, <2>1, CountRises, SplitsFinite DEF LastZero
  <2>3. Count(O, b, i) # c
    BY <1>1, <2>2
  <2>4. b[i] = 1 <=> Count(O, b, i) \in path
    BY <1>3 DEF Decided
  <2> HIDE DEF c
  <2> QED
    BY <1>2, <2>2, <2>3, <2>4
<1>4. ASSUME NEW p \in OW!Branch(path, c) PROVE p <= c
  <2> HIDE DEF c
  <2>1. p \in Nat /\ (p < c \/ p = c)
    BY <1>1, <1>2
  <2> QED
    BY <1>1, <2>1
<1> QED
  BY <1>2, <1>3, <1>4 DEF Leads

\* A pass of the search in which the bits b were read and the devices A still take part.
PassOf(O, A, path, next, pos, b) ==
  /\ A = {d \in O : Agree(d, b, Len(b))} /\ A # {}
  /\ pos = Count(O, b, Len(b)) + 1
  /\ Decided(O, path, b, Len(b))
  /\ next = {} => NoZero(O, b, Len(b))
  /\ next # {} => \E j : LastZero(O, b, Len(b), j) /\ next = OW!Branch(path, Count(O, b, j))

LEMMA PassBegins == ASSUME NEW O, NEW path, O # {} PROVE PassOf(O, O, path, {}, 1, <<>>)
<1> DEFINE e == <<>>
<1>1. Len(e) = 0
  OBVIOUS
<1> HIDE DEF e
<1>2. Count(O, e, 0) = 0
  BY CountNone
<1>3. PassOf(O, O, path, {}, 1, e)
  BY <1>1, <1>2 DEF PassOf, Agree, Decided, NoZero
<1> QED
  BY <1>3 DEF e

LEMMA PassReads ==
  ASSUME NEW O \in SUBSET OW!Rom, NEW A, NEW path, NEW next, NEW pos, NEW b \in Seq({0, 1}), Len(b) < Width,
         PassOf(O, A, path, next, pos, b), NEW t, NEW col \in BOOLEAN,
         col <=> (\E d \in A : d[Len(b) + 1] # 1) /\ (\E d \in A : d[Len(b) + 1] # 0),
         t = IF col /\ pos \in path THEN 1 ELSE IF \A d \in A : d[Len(b) + 1] = 1 THEN 1 ELSE 0
  PROVE  PassOf(O, {d \in A : d[Len(b) + 1] = t}, path,
                IF col /\ pos \notin path THEN OW!Branch(path, pos) ELSE next,
                IF col THEN pos + 1 ELSE pos, Append(b, t))
<1> DEFINE k == Len(b)
           c == Append(b, t)
           B == {d \in A : d[k + 1] = t}
           new == IF col /\ pos \notin path THEN OW!Branch(path, pos) ELSE next
<1>1. k \in Nat /\ k + 1 \in 1..Width /\ t \in {0, 1}
  BY WidthPositive
<1>2. c \in Seq({0, 1}) /\ Len(c) = k + 1 /\ c[k + 1] = t /\ \A i \in 1..k : c[i] = b[i]
  BY <1>1
<1>3. /\ A = {d \in O : Agree(d, b, k)} /\ A # {} /\ pos = Count(O, b, k) + 1 /\ Decided(O, path, b, k)
      /\ next = {} => NoZero(O, b, k)
      /\ next # {} => \E j : LastZero(O, b, k, j) /\ next = OW!Branch(path, Count(O, b, j))
  BY DEF PassOf
<1>4. \A d \in A : d[k + 1] \in {0, 1}
  BY <1>1, <1>3, RomBits
<1>5. col <=> (\E d \in A : d[k + 1] = 0) /\ (\E d \in A : d[k + 1] = 1)
  BY <1>4
<1> HIDE DEF k, c
<1>6. Agree(c, b, k)
  BY <1>1, <1>2 DEF Agree
<1>7. \A d : Agree(d, c, k + 1) <=> Agree(d, b, k) /\ d[k + 1] = t
  <2> TAKE d
  <2>1. 1..(k + 1) = (1..k) \cup {k + 1}
    BY <1>1
  <2> QED
    BY <1>2, <2>1 DEF Agree
<1>8. B = {d \in O : Agree(d, c, k + 1)}
  BY <1>3, <1>7
<1>9. B # {}
  <2>1. CASE col
    BY <1>1, <1>5, <2>1
  <2>2. CASE ~col
    <3>1. t = IF \A d \in A : d[k + 1] = 1 THEN 1 ELSE 0
      BY <2>2 DEF k
    <3>2. CASE \A d \in A : d[k + 1] = 1
      BY <1>3, <3>1, <3>2
    <3>3. CASE ~ \A d \in A : d[k + 1] = 1
      <4>1. t = 0
        BY <3>1, <3>3
      <4> QED
        BY <1>4, <3>3, <4>1
    <3> QED
      BY <3>2, <3>3
  <2> QED
    BY <2>1, <2>2
<1>10. col <=> Splits(O, b, k + 1)
  <2>1. Splits(O, b, k + 1) <=> \E d, e \in O : Agree(d, b, k) /\ Agree(e, b, k) /\ d[k + 1] = 0 /\ e[k + 1] = 1
    <3> DEFINE m == k + 1
    <3>1. m - 1 = k
      BY <1>1
    <3> HIDE DEF m
    <3>2. Splits(O, b, m) <=> \E d, e \in O : Agree(d, b, k) /\ Agree(e, b, k) /\ d[m] = 0 /\ e[m] = 1
      BY <3>1, Zenon DEF Splits
    <3> QED
      BY <3>2 DEF m
  <2> QED
    BY <1>3, <1>5, <2>1, Zenon
<1>11. \A i \in 1..(k + 1) : Splits(O, c, i) <=> Splits(O, b, i)
  BY <1>1, <1>6, AgreeSplits
<1>12. \A i \in 0..(k + 1) : Count(O, c, i) = Count(O, b, i)
  BY <1>1, <1>6, AgreeCounts
<1>13. Count(O, b, k + 1) = (IF col THEN pos ELSE pos - 1) /\ Count(O, b, k) \in Nat /\ pos \in Nat
  <2>1. Count(O, b, k + 1) = IF Splits(O, b, k + 1) THEN Count(O, b, k) + 1 ELSE Count(O, b, k)
    BY <1>1, CountNext
  <2>2. Count(O, b, k) \in Nat
    BY <1>1, SplitsFinite
  <2> QED
    BY <1>3, <1>10, <2>1, <2>2
<1>14. (IF col THEN pos + 1 ELSE pos) = Count(O, c, k + 1) + 1
  BY <1>1, <1>12, <1>13
<1>15. col /\ t = 1 <=> col /\ pos \in path
  <2>1. CASE col /\ pos \notin path
    <3>1. t = IF \A d \in A : d[k + 1] = 1 THEN 1 ELSE 0
      BY <2>1 DEF k
    <3>2. ~ \A d \in A : d[k + 1] = 1
      BY <1>5, <2>1
    <3> QED
      BY <2>1, <3>1, <3>2
  <2> QED
    BY <2>1
<1>16. \A i \in 1..(k + 1) : i \in 1..k \/ i = k + 1
  BY <1>1
<1>17. \A i \in 1..k : i \in 0..(k + 1) /\ i \in 1..(k + 1)
  BY <1>1
<1>18. Decided(O, path, c, k + 1)
  <2> SUFFICES ASSUME NEW i \in 1..(k + 1), Splits(O, c, i) PROVE c[i] = 1 <=> Count(O, c, i) \in path
    BY DEF Decided
  <2>1. CASE i \in 1..k
    BY <1>2, <1>3, <1>11, <1>12, <1>17, <2>1 DEF Decided
  <2>2. CASE i = k + 1
    <3>1. col /\ Count(O, c, i) = pos
      BY <1>1, <1>10, <1>11, <1>12, <1>13, <2>2
    <3> QED
      BY <1>2, <1>15, <2>2, <3>1
  <2> QED
    BY <1>16, <2>1, <2>2
<1>19. CASE col /\ pos \notin path
  <2>1. new = OW!Branch(path, pos) /\ pos \in new
    BY <1>19 DEF OW!Branch
  <2>2. t = 0
    BY <1>1, <1>15, <1>19
  <2>3. k + 1 \in 1..(k + 1) /\ \A i \in 1..(k + 1) : ~ (i > k + 1)
    BY <1>1
  <2>4. LastZero(O, c, k + 1, k + 1)
    BY <1>2, <1>10, <1>11, <1>19, <2>2, <2>3 DEF LastZero
  <2>5. Count(O, c, k + 1) = pos
    BY <1>1, <1>12, <1>13, <1>19
  <2>6. new # {} /\ \E j : LastZero(O, c, k + 1, j) /\ new = OW!Branch(path, Count(O, c, j))
    BY <2>1, <2>4, <2>5
  <2> HIDE DEF B, new
  <2>7. PassOf(O, B, path, new, IF col THEN pos + 1 ELSE pos, c)
    BY <1>2, <1>8, <1>9, <1>14, <1>18, <2>6 DEF PassOf
  <2> QED
    BY <2>7 DEF k, c, B, new
<1>20. CASE ~(col /\ pos \notin path)
  <2>1. new = next
    BY <1>20
  <2>2. Splits(O, c, k + 1) => c[k + 1] = 1
    <3>1. k + 1 \in 1..(k + 1)
      BY <1>1
    <3> QED
      BY <1>2, <1>10, <1>11, <1>15, <1>20, <3>1
  <2>3. new = {} => NoZero(O, c, k + 1)
    BY <1>2, <1>3, <1>11, <1>16, <1>17, <2>1, <2>2 DEF NoZero
  <2>4. ASSUME new # {} PROVE \E j : LastZero(O, c, k + 1, j) /\ new = OW!Branch(path, Count(O, c, j))
    <3>1. PICK j : LastZero(O, b, k, j) /\ next = OW!Branch(path, Count(O, b, j))
      BY <1>3, <2>1, <2>4
    <3>2. j \in 1..k /\ j \in 0..(k + 1) /\ j \in 1..(k + 1)
      BY <1>17, <3>1 DEF LastZero
    <3>3. LastZero(O, c, k + 1, j)
      BY <1>2, <1>11, <1>16, <1>17, <2>2, <3>1, <3>2 DEF LastZero
    <3>4. Count(O, c, j) = Count(O, b, j)
      BY <1>12, <3>2
    <3> QED
      BY <2>1, <3>1, <3>3, <3>4
  <2> HIDE DEF B, new
  <2>5. PassOf(O, B, path, new, IF col THEN pos + 1 ELSE pos, c)
    BY <1>2, <1>8, <1>9, <1>14, <1>18, <2>3, <2>4 DEF PassOf
  <2> QED
    BY <2>5 DEF k, c, B, new
<1> QED
  BY <1>19, <1>20

\* The same with the two reads, the choice and the drop-out named.
Differ(A, i) == (\E d \in A : d[i] # 1) /\ (\E d \in A : d[i] # 0)
WiredAnd(A, i) == IF \A d \in A : d[i] = 1 THEN 1 ELSE 0
Taken(A, i, col, pos, path) == IF col /\ pos \in path THEN 1 ELSE WiredAnd(A, i)
Remain(A, i, t) == {d \in A : d[i] = t}
NextPath(col, pos, path, next) == IF col /\ pos \notin path THEN OW!Branch(path, pos) ELSE next
NextPos(col, pos) == IF col THEN pos + 1 ELSE pos

LEMMA PassReadsOn ==
  ASSUME NEW O \in SUBSET OW!Rom, NEW A, NEW path, NEW next, NEW pos, NEW b \in Seq({0, 1}), Len(b) < Width,
         PassOf(O, A, path, next, pos, b), NEW t, NEW col \in BOOLEAN, col <=> Differ(A, Len(b) + 1),
         t = Taken(A, Len(b) + 1, col, pos, path)
  PROVE  PassOf(O, Remain(A, Len(b) + 1, t), path, NextPath(col, pos, path, next), NextPos(col, pos), Append(b, t))
BY PassReads, ZenonT(60) DEF Differ, WiredAnd, Taken, Remain, NextPath, NextPos

\* The serial numbers stored by this search are different, and all up to the last one
\* in the order of the search; the path leads on from there.
FoundOf(O, stored) ==
  /\ \A k, l \in DOMAIN stored : k # l => stored[k] # stored[l]
  /\ stored # <<>> => UpTo(O, Elems(stored), stored[Len(stored)])
PathOf(O, path, stored) ==
  /\ stored = <<>> => path = {}
  /\ stored # <<>> => \E j : Leads(O, path, stored[Len(stored)], j)

\* What a completed pass leaves.
Ended(O, next, all) ==
  FoundOf(O, all) /\ (next # {} => PathOf(O, next, all)) /\ (next = {} => Elems(all) = O)

LEMMA PassEnds ==
  ASSUME NEW O \in SUBSET OW!Rom, NEW A, NEW path \in SUBSET Nat, NEW next, NEW pos, NEW b \in Seq({0, 1}),
         Len(b) = Width, PassOf(O, A, path, next, pos, b), NEW stored \in Seq(OW!Rom),
         FoundOf(O, stored), PathOf(O, path, stored)
  PROVE  Ended(O, next, Append(stored, b))
<1> DEFINE all == Append(stored, b)
           L == Len(stored)
<1>1. b \in OW!Rom
  BY DEF OW!Rom
<1>2. b \in O
  <2>1. PICK d \in O : Agree(d, b, Width)
    BY DEF PassOf
  <2>2. d \in OW!Rom /\ \A n \in 1..Width : d[n] = b[n]
    BY <2>1 DEF Agree
  <2>3. d = b
    BY <1>1, <2>2, RomsDiffer
  <2> QED
    BY <2>3
<1>3. /\ L \in Nat /\ DOMAIN stored = 1..L /\ all \in Seq(OW!Rom) /\ Len(all) = L + 1 /\ all[L + 1] = b
      /\ DOMAIN all = (1..L) \cup {L + 1} /\ L + 1 \notin 1..L /\ \A i \in 1..L : all[i] = stored[i]
  BY <1>1
<1>4. all # <<>> /\ Elems(all) = Elems(stored) \cup {b}
  BY <1>1, AppendElems
<1>5. Decided(O, path, b, Width)
  BY DEF PassOf
<1>6. b \notin Elems(stored) /\ UpTo(O, Elems(all), b)
  <2>1. CASE stored = <<>>
    <3>1. path = {}
      BY <2>1 DEF PathOf
    <3>2. Elems(stored) = {}
      BY <2>1, EmptyElems
    <3>3. UpTo(O, {b}, b)
      BY <1>2, <1>5, <3>1, FirstFound
    <3>4. Elems(all) = {b}
      BY <1>4, <3>2
    <3> HIDE DEF all
    <3> QED
      BY <3>2, <3>3, <3>4
  <2>2. CASE stored # <<>>
    <3> DEFINE r == stored[L]
               F == Elems(stored)
    <3>1. UpTo(O, F, r) /\ \E j : Leads(O, path, r, j)
      BY <2>2 DEF FoundOf, PathOf
    <3> HIDE DEF r, F
    <3>2. PICK j : Leads(O, path, r, j)
      BY <3>1
    <3>3. b \notin F /\ UpTo(O, F \cup {b}, b)
      BY <1>2, <1>5, <3>1, <3>2, NextFound
    <3>4. Elems(all) = F \cup {b}
      BY <1>4 DEF F
    <3> HIDE DEF all
    <3> QED
      BY <3>3, <3>4 DEF F
  <2> QED
    BY <2>1, <2>2
<1> HIDE DEF all, L
<1>7. ASSUME NEW k \in DOMAIN all, NEW l \in DOMAIN all, k # l PROVE all[k] # all[l]
  <2>1. \A i \in 1..L : stored[i] # b
    BY <1>3, <1>6 DEF Elems
  <2> QED
    BY <1>3, <1>7, <2>1 DEF FoundOf
<1>8. FoundOf(O, all)
  BY <1>3, <1>6, <1>7 DEF FoundOf
<1>9. ASSUME next # {} PROVE PathOf(O, next, all)
  <2>1. PICK j : LastZero(O, b, Width, j) /\ next = OW!Branch(path, Count(O, b, j))
    BY <1>9 DEF PassOf
  <2>2. Leads(O, next, b, j)
    BY <1>5, <2>1, NextLeads
  <2> QED
    BY <1>3, <1>4, <2>2 DEF PathOf
<1>10. ASSUME next = {} PROVE Elems(all) = O
  <2>1. NoZero(O, b, Width)
    BY <1>10 DEF PassOf
  <2> QED
    BY <1>6, <2>1, AllFound
<1> QED
  BY <1>8, <1>9, <1>10 DEF all, Ended

SearchPc == {"idle", "reset", "bit", "done", "failed"}
BusType == [on : SUBSET OW!Rom, active : SUBSET OW!Rom]
SearchType == [drv : {"DS18B20", "DS1822"}, pc : SearchPc, path : SUBSET (1..Width), next : SUBSET (1..Width), pos : Nat,
               bits : Seq({0, 1})]
Counts == 0..(CntSpan - 1)
SensorsType == [cnt : Counts, stored : Seq(OW!Rom)]
DisturbedType == [now : BOOLEAN, again : BOOLEAN]

WireTypes ==
  /\ bus \in BusType /\ search \in SearchType /\ sensors \in SensorsType /\ disturbed \in DisturbedType
  /\ Len(search.bits) <= Width /\ search.pos > 0 /\ search.pos <= Len(search.bits) + 1

\* The counter: DS18B20 starts at 0 and stops before it wraps round, DS1822 counts on.
CountTrue ==
  /\ search.drv = "DS18B20" /\ search.pc \in {"reset", "bit"} =>
       sensors.cnt = Len(sensors.stored) /\ sensors.cnt < max_devices
  /\ search.drv = "DS18B20" /\ search.pc = "done" => sensors.cnt = Len(sensors.stored)
  /\ search.drv = "DS1822" /\ ~disturbed.again =>
       /\ search.pc = "idle" => sensors.cnt = 0
       /\ search.pc \in {"reset", "bit", "done"} => sensors.cnt = Len(sensors.stored) % CntSpan

SearchTrue ==
  ~disturbed.now =>
    /\ search.pc \in {"reset", "bit", "done"} => FoundOf(bus.on, sensors.stored)
    /\ search.pc \in {"reset", "bit"} => PathOf(bus.on, search.path, sensors.stored)
    /\ search.pc = "bit" => PassOf(bus.on, bus.active, search.path, search.next, search.pos, search.bits)
    /\ search.pc = "done" => Elems(sensors.stored) = bus.on
                             \/ (search.drv = "DS18B20" /\ Len(sensors.stored) = max_devices)

WireInv == WireTypes /\ CountTrue /\ SearchTrue

LEMMA WireParameters == CntSpan \in Nat /\ max_devices \in Nat /\ max_devices > 0 /\ max_devices < CntSpan
BY DevicesAssumption DEF OW!Parameters

LEMMA WireFields == ASSUME WireInv
  PROVE  /\ bus \in BusType /\ search \in SearchType /\ sensors \in SensorsType /\ disturbed \in DisturbedType
         /\ bus.on \in SUBSET OW!Rom /\ bus.active \in SUBSET OW!Rom
         /\ search.path \in SUBSET (1..Width) /\ search.next \in SUBSET (1..Width) /\ search.pos \in Nat
         /\ search.bits \in Seq({0, 1}) /\ search.drv \in {"DS18B20", "DS1822"}
         /\ sensors.cnt \in Counts /\ sensors.stored \in Seq(OW!Rom)
         /\ disturbed.now \in BOOLEAN /\ disturbed.again \in BOOLEAN
         /\ Len(search.bits) <= Width /\ search.pos > 0 /\ search.pos <= Len(search.bits) + 1
BY DEF WireInv, WireTypes, BusType, SearchType, SensorsType, DisturbedType

LEMMA WireImplies == ASSUME WireInv PROVE OW!SearchExact /\ OW!CountExact /\ OW!TypeOK
<1>1. OW!SearchExact
  <2> SUFFICES ASSUME search.pc \in {"reset", "bit", "done"}, ~disturbed.now
               PROVE  /\ \A k, l \in DOMAIN sensors.stored : k # l => sensors.stored[k] # sensors.stored[l]
                      /\ OW!Found \subseteq bus.on
                      /\ search.pc = "done" => OW!Found = bus.on \/ (search.drv = "DS18B20" /\ Len(sensors.stored) = max_devices)
    BY DEF OW!SearchExact
  <2>1. FoundOf(bus.on, sensors.stored)
    BY DEF WireInv, SearchTrue
  <2>2. OW!Found = Elems(sensors.stored)
    BY DEF OW!Found, Elems
  <2>3. Elems(sensors.stored) \subseteq bus.on
    <3>1. CASE sensors.stored = <<>>
      BY <3>1, EmptyElems
    <3>2. CASE sensors.stored # <<>>
      BY <2>1, <3>2 DEF FoundOf, UpTo
    <3> QED
      BY <3>1, <3>2
  <2>4. search.pc = "done" => Elems(sensors.stored) = bus.on \/ (search.drv = "DS18B20" /\ Len(sensors.stored) = max_devices)
    BY DEF WireInv, SearchTrue
  <2>5. \A k, l \in DOMAIN sensors.stored : k # l => sensors.stored[k] # sensors.stored[l]
    BY <2>1 DEF FoundOf
  <2> QED
    BY <2>2, <2>3, <2>4, <2>5
<1>2. OW!CountExact
  <2> SUFFICES ASSUME search.pc = "done", ~(search.drv = "DS1822" /\ disturbed.again)
               PROVE  sensors.cnt = Len(sensors.stored) % CntSpan
    BY DEF OW!CountExact
  <2>1. CASE search.drv = "DS1822"
    BY <2>1 DEF WireInv, CountTrue
  <2>2. CASE search.drv = "DS18B20"
    <3>1. sensors.cnt = Len(sensors.stored)
      BY <2>2 DEF WireInv, CountTrue
    <3>2. sensors.cnt \in Nat /\ sensors.cnt < CntSpan
      BY WireFields, WireParameters DEF Counts
    <3>3. sensors.cnt % CntSpan = sensors.cnt
      BY <3>2, WireParameters
    <3> QED
      BY <3>1, <3>3
  <2> QED
    BY <2>1, <2>2, WireFields
<1>3. OW!TypeOK
  <2>1. Len(search.bits) \in Nat
    BY WireFields
  <2>2. search.pos \in 1..(Width + 1)
    BY <2>1, WireFields, WidthPositive
  <2> QED
    BY <2>2, WireFields DEF OW!TypeOK, Counts
<1> QED
  BY <1>1, <1>2, <1>3

LEMMA WireBegins == ASSUME OW!Init PROVE WireInv
<1> DEFINE e == <<>>
<1>1. e \in Seq({0, 1}) /\ e \in Seq(OW!Rom) /\ Len(e) = 0
  OBVIOUS
<1>2. 0 \in Counts
  BY WireParameters DEF Counts
<1>3. /\ bus \in [on : SUBSET OW!Rom, active : {{}}]
      /\ search \in [drv : {"DS18B20", "DS1822"}, pc : {"idle"}, path : {{}}, next : {{}}, pos : {1}, bits : {e}]
      /\ sensors = [cnt |-> 0, stored |-> e] /\ disturbed = [now |-> FALSE, again |-> FALSE]
  BY DEF OW!Init
<1> HIDE DEF e
<1>4. bus \in BusType
  BY <1>3 DEF BusType
<1>5. search \in SearchType /\ search.pc = "idle" /\ search.pos = 1 /\ search.bits = e
  <2>1. {} \in SUBSET (1..Width) /\ 1 \in Nat
    OBVIOUS
  <2> QED
    BY <1>1, <1>3, <2>1 DEF SearchType, SearchPc
<1>6. sensors \in SensorsType /\ sensors.cnt = 0
  BY <1>1, <1>2, <1>3 DEF SensorsType
<1>7. disturbed \in DisturbedType
  BY <1>3 DEF DisturbedType
<1>8. WireTypes
  BY <1>1, <1>4, <1>5, <1>6, <1>7, WidthPositive DEF WireTypes
<1> QED
  BY <1>5, <1>6, <1>8 DEF WireInv, CountTrue, SearchTrue

LEMMA WireSearchStart == ASSUME WireInv, OW!SearchStart PROVE WireInv'
<1> DEFINE e == <<>>
           n == OW!FirstNumber
           none == {}
<1>1. /\ search.pc = "idle" /\ search' = [search EXCEPT !.pc = "reset", !.path = none]
      /\ sensors' = [sensors EXCEPT !.cnt = n, !.stored = e] /\ UNCHANGED <<bus, disturbed>>
  BY DEF OW!SearchStart
<1>2. e \in Seq(OW!Rom) /\ Len(e) = 0 /\ e = <<>> /\ DOMAIN e = {} /\ none \in SUBSET (1..Width) /\ none = {}
  OBVIOUS
<1>3. n \in Counts /\ (search.drv = "DS18B20" => n = 0) /\ (search.drv = "DS1822" => n = sensors.cnt)
  BY WireFields, WireParameters DEF OW!FirstNumber, Counts
<1> HIDE DEF e, n, none
<1>4. /\ search' \in SearchType /\ search'.pc = "reset" /\ search'.path = none /\ search'.drv = search.drv
      /\ search'.bits = search.bits /\ search'.pos = search.pos
  BY <1>1, <1>2, WireFields DEF SearchType, SearchPc
<1>5. sensors' \in SensorsType /\ sensors'.cnt = n /\ sensors'.stored = e
  BY <1>1, <1>2, <1>3, WireFields DEF SensorsType
<1>6. WireTypes'
  BY <1>1, <1>4, <1>5 DEF WireInv, WireTypes
<1>7. 0 % CntSpan = 0
  BY WireParameters
<1>8. CountTrue'
  BY <1>1, <1>2, <1>3, <1>4, <1>5, <1>7, WireParameters DEF WireInv, CountTrue
<1>9. SearchTrue'
  BY <1>2, <1>4, <1>5 DEF SearchTrue, FoundOf, PathOf
<1> QED
  BY <1>6, <1>8, <1>9 DEF WireInv

LEMMA WireResetPulse == ASSUME WireInv, OW!ResetPulse PROVE WireInv'
<1>1. /\ search.pc = "reset" /\ bus' = [bus EXCEPT !.active = bus.on] /\ UNCHANGED <<sensors, disturbed>>
      /\ search' = IF bus.on = {} THEN [search EXCEPT !.pc = "failed"]
                   ELSE [search EXCEPT !.pc = "bit", !.next = {}, !.pos = 1, !.bits = <<>>]
  BY DEF OW!ResetPulse
<1>2. bus' \in BusType /\ bus'.on = bus.on /\ bus'.active = bus.on
  BY <1>1, WireFields DEF BusType
<1>3. CASE bus.on = {}
  <2>1. /\ search' \in SearchType /\ search'.pc = "failed" /\ search'.drv = search.drv
        /\ search'.bits = search.bits /\ search'.pos = search.pos
    BY <1>1, <1>3, WireFields DEF SearchType, SearchPc
  <2>2. WireTypes'
    BY <1>1, <1>2, <2>1 DEF WireInv, WireTypes
  <2>3. CountTrue' /\ SearchTrue'
    BY <1>1, <2>1 DEF CountTrue, SearchTrue
  <2> QED
    BY <2>2, <2>3 DEF WireInv
<1>4. CASE bus.on # {}
  <2> DEFINE e == <<>>
             none == {}
             one == 1
  <2>1. search' = [search EXCEPT !.pc = "bit", !.next = none, !.pos = one, !.bits = e]
    BY <1>1, <1>4
  <2>2. e \in Seq({0, 1}) /\ Len(e) = 0 /\ none \in SUBSET (1..Width) /\ one \in Nat /\ one = 1
    OBVIOUS
  <2>3. PassOf(bus.on, bus.on, search.path, none, one, e)
    BY <1>4, PassBegins
  <2> HIDE DEF e, none, one
  <2>4. /\ search' \in SearchType /\ search'.pc = "bit" /\ search'.drv = search.drv /\ search'.path = search.path
        /\ search'.next = none /\ search'.bits = e /\ search'.pos = one
    BY <2>1, <2>2, WireFields DEF SearchType, SearchPc
  <2>5. WireTypes'
    BY <1>1, <1>2, <2>2, <2>4, WidthPositive DEF WireInv, WireTypes
  <2>6. CountTrue'
    BY <1>1, <2>4 DEF WireInv, CountTrue
  <2>7. SearchTrue'
    BY <1>1, <1>2, <2>3, <2>4 DEF WireInv, SearchTrue
  <2> QED
    BY <2>5, <2>6, <2>7 DEF WireInv
<1> QED
  BY <1>3, <1>4

LEMMA WireReadBit == ASSUME WireInv, OW!ReadBit PROVE WireInv'
<1> DEFINE i == Len(search.bits) + 1
           bit == IF \A d \in bus.active : d[i] = 1 THEN 1 ELSE 0
           chk == IF \A d \in bus.active : d[i] = 0 THEN 1 ELSE 0
           col == bit = 0 /\ chk = 0
           t == IF col /\ search.pos \in search.path THEN 1 ELSE bit
           p == IF col THEN search.pos + 1 ELSE search.pos
           x == IF col /\ search.pos \notin search.path THEN OW!Branch(search.path, search.pos) ELSE search.next
           a == {d \in bus.active : d[i] = t}
           b == Append(search.bits, t)
<1>1. /\ search.pc = "bit" /\ Len(search.bits) < Width /\ UNCHANGED <<sensors, disturbed>>
      /\ search' = [search EXCEPT !.bits = b, !.pos = p, !.next = x]
      /\ bus' = [bus EXCEPT !.active = a]
  BY DEF OW!ReadBit
<1>2. search.bits \in Seq({0, 1}) /\ Len(search.bits) \in Nat /\ t \in {0, 1} /\ col \in BOOLEAN
  BY WireFields
<1>3. b \in Seq({0, 1}) /\ Len(b) = Len(search.bits) + 1
  BY <1>2
<1>4. p \in Nat /\ p > 0 /\ p <= Len(b) + 1
  BY <1>2, <1>3, WireFields
<1>5. search.pos \in 1..Width
  BY <1>1, <1>2, WireFields, WidthPositive
<1>6. x \in SUBSET (1..Width)
  BY <1>5, WireFields DEF OW!Branch
<1>7. a \in SUBSET OW!Rom
  BY WireFields
<1>8. ASSUME PassOf(bus.on, bus.active, search.path, search.next, search.pos, search.bits)
      PROVE  PassOf(bus.on, a, search.path, x, p, b)
  <2> DEFINE A == bus.active
             q == search.path
             f == search.bits
  <2>1. i = Len(f) + 1 /\ (col <=> Differ(A, i)) /\ t = Taken(A, i, col, search.pos, q)
    BY DEF Differ, Taken, WiredAnd
  <2>2. /\ a = Remain(A, i, t) /\ x = NextPath(col, search.pos, q, search.next)
        /\ p = NextPos(col, search.pos) /\ b = Append(f, t)
    BY DEF Remain, NextPath, NextPos
  <2>3. bus.on \in SUBSET OW!Rom /\ Len(f) < Width /\ f \in Seq({0, 1}) /\ col \in BOOLEAN
    BY <1>1, WireFields
  <2>4. PassOf(bus.on, A, q, search.next, search.pos, f)
    BY <1>8
  <2> HIDE DEF col, t, i, a, x, p, b, A, q, f
  <2>5. PassOf(bus.on, Remain(A, Len(f) + 1, t), q, NextPath(col, search.pos, q, search.next),
               NextPos(col, search.pos), Append(f, t))
    BY <2>1, <2>3, <2>4, PassReadsOn
  <2>6. PassOf(bus.on, a, q, x, p, b)
    BY <2>1, <2>2, <2>5
  <2> QED
    BY <2>6 DEF q
<1> HIDE DEF i, bit, chk, col, t, p, x, a, b
<1>9. /\ search' \in SearchType /\ search'.pc = "bit" /\ search'.drv = search.drv /\ search'.path = search.path
      /\ search'.next = x /\ search'.bits = b /\ search'.pos = p
  BY <1>1, <1>3, <1>4, <1>6, WireFields DEF SearchType, SearchPc
<1>10. bus' \in BusType /\ bus'.on = bus.on /\ bus'.active = a
  BY <1>1, <1>7, WireFields DEF BusType
<1>11. Len(b) <= Width
  BY <1>1, <1>2, <1>3, WidthPositive
<1>12. WireTypes'
  BY <1>1, <1>4, <1>9, <1>10, <1>11 DEF WireInv, WireTypes
<1>13. CountTrue'
  BY <1>1, <1>9 DEF WireInv, CountTrue
<1>14. SearchTrue'
  BY <1>1, <1>8, <1>9, <1>10 DEF WireInv, SearchTrue
<1> QED
  BY <1>12, <1>13, <1>14 DEF WireInv

LEMMA CountsOn ==
  ASSUME NEW m \in Nat, NEW s \in Nat, s > 0
  PROVE  ((m % s) + 1) % s = (m + 1) % s
<1> DEFINE q == m \div s
           r == m % s
<1>1. q \in Nat /\ r \in Nat /\ r < s /\ m = s * q + r
  OBVIOUS
<1> HIDE DEF q, r
<1>2. CASE r + 1 < s
  <2>1. m + 1 = s * q + (r + 1)
    BY <1>1
  <2>2. (m + 1) % s = r + 1 /\ (r + 1) % s = r + 1
    BY <1>1, <1>2, <2>1
  <2> QED
    BY <2>2 DEF r
<1>3. CASE r + 1 = s
  <2>1. m + 1 = s * (q + 1)
    BY <1>1, <1>3
  <2>2. (m + 1) % s = 0 /\ (r + 1) % s = 0
    BY <1>1, <1>3, <2>1
  <2> QED
    BY <2>2 DEF r
<1> QED
  BY <1>1, <1>2, <1>3

LEMMA WirePassEnd == ASSUME WireInv, OW!PassEnd PROVE WireInv'
<1> DEFINE n == (sensors.cnt + 1) % CntSpan
           full == search.drv = "DS18B20" /\ n = max_devices
           pc == IF search.next = {} \/ full THEN "done" ELSE "reset"
           all == Append(sensors.stored, search.bits)
<1>1. /\ search.pc = "bit" /\ Len(search.bits) = Width /\ UNCHANGED <<bus, disturbed>>
      /\ search' = [search EXCEPT !.pc = pc, !.path = search.next]
      /\ sensors' = [cnt |-> n, stored |-> all]
  BY DEF OW!PassEnd
<1>2. search.bits \in OW!Rom
  BY <1>1, WireFields DEF OW!Rom
<1>3. all \in Seq(OW!Rom) /\ Len(all) = Len(sensors.stored) + 1 /\ Len(sensors.stored) \in Nat
  BY <1>2, WireFields
<1>4. n \in Counts /\ sensors.cnt \in Nat
  BY WireFields, WireParameters DEF Counts
<1>5. /\ pc \in {"done", "reset"} /\ (pc = "reset" => search.next # {} /\ ~full)
      /\ pc = "done" => search.next = {} \/ full
  OBVIOUS
<1>6. search.drv = "DS18B20" => n = Len(all) /\ n <= max_devices
  <2> SUFFICES ASSUME search.drv = "DS18B20" PROVE n = Len(all) /\ n <= max_devices
    OBVIOUS
  <2>1. sensors.cnt = Len(sensors.stored) /\ sensors.cnt < max_devices
    BY <1>1 DEF WireInv, CountTrue
  <2>2. sensors.cnt + 1 < CntSpan /\ sensors.cnt + 1 \in Nat
    BY <1>4, <2>1, WireParameters
  <2>3. n = sensors.cnt + 1
    BY <2>2, WireParameters
  <2> HIDE DEF n, all
  <2> QED
    BY <1>3, <1>4, <2>1, <2>3, WireParameters
<1>7. search.drv = "DS1822" /\ ~disturbed.again => n = Len(all) % CntSpan
  <2> SUFFICES ASSUME search.drv = "DS1822", ~disturbed.again PROVE n = Len(all) % CntSpan
    OBVIOUS
  <2>1. sensors.cnt = Len(sensors.stored) % CntSpan
    BY <1>1 DEF WireInv, CountTrue
  <2> DEFINE L == Len(sensors.stored)
  <2>2. L \in Nat /\ CntSpan \in Nat /\ CntSpan > 0
    BY <1>3, WireParameters
  <2> HIDE DEF L
  <2>3. ((L % CntSpan) + 1) % CntSpan = (L + 1) % CntSpan
    BY <2>2, CountsOn
  <2>4. n = (L + 1) % CntSpan
    BY <2>1, <2>3, Zenon DEF L
  <2> QED
    BY <1>3, <2>4, Zenon DEF L
<1>8. ~disturbed.now =>
        /\ FoundOf(bus.on, all)
        /\ search.next # {} => PathOf(bus.on, search.next, all)
        /\ search.next = {} => Elems(all) = bus.on
  <2> SUFFICES ASSUME ~disturbed.now
               PROVE  /\ FoundOf(bus.on, all)
                      /\ search.next # {} => PathOf(bus.on, search.next, all)
                      /\ search.next = {} => Elems(all) = bus.on
    OBVIOUS
  <2>1. /\ FoundOf(bus.on, sensors.stored) /\ PathOf(bus.on, search.path, sensors.stored)
        /\ PassOf(bus.on, bus.active, search.path, search.next, search.pos, search.bits)
    BY <1>1 DEF WireInv, SearchTrue
  <2> DEFINE O == bus.on
             y == search.next
             b == search.bits
             s == sensors.stored
  <2>2. /\ search.path \in SUBSET Nat /\ O \in SUBSET OW!Rom /\ b \in Seq({0, 1}) /\ Len(b) = Width
        /\ s \in Seq(OW!Rom) /\ all = Append(s, b)
    BY <1>1, WireFields
  <2>3. FoundOf(O, s) /\ PathOf(O, search.path, s) /\ PassOf(O, bus.active, search.path, y, search.pos, b)
    BY <2>1
  <2> HIDE DEF O, y, b, s, all
  <2>4. Ended(O, y, Append(s, b))
    BY <2>2, <2>3, PassEnds
  <2>5. Ended(O, y, all)
    BY <2>2, <2>4
  <2> QED
    BY <2>5 DEF O, y, Ended
<1>9. full => search.drv = "DS18B20" /\ n = max_devices
  OBVIOUS
<1>10. search.drv = "DS18B20" /\ ~full => n # max_devices
  OBVIOUS
<1> HIDE DEF n, full, pc, all
<1>11. /\ search' \in SearchType /\ search'.pc = pc /\ search'.drv = search.drv /\ search'.path = search.next
       /\ search'.bits = search.bits /\ search'.pos = search.pos
  BY <1>1, <1>5, WireFields DEF SearchType, SearchPc
<1>12. sensors' \in SensorsType /\ sensors'.cnt = n /\ sensors'.stored = all
  BY <1>1, <1>3, <1>4 DEF SensorsType
<1>13. WireTypes'
  BY <1>1, <1>11, <1>12 DEF WireInv, WireTypes
<1>14. n \in Nat
  BY <1>4, WireParameters DEF Counts
<1>15. CountTrue'
  BY <1>1, <1>5, <1>6, <1>7, <1>10, <1>11, <1>12, <1>14, WireParameters DEF CountTrue
<1>16. SearchTrue'
  BY <1>1, <1>5, <1>6, <1>8, <1>9, <1>11, <1>12 DEF SearchTrue
<1> QED
  BY <1>13, <1>15, <1>16 DEF WireInv

LEMMA WireBusChange == ASSUME WireInv, OW!BusChange PROVE WireInv'
<1> DEFINE now == search.pc # "idle"
<1>1. PICK d \in OW!Rom : bus' = IF d \in bus.on THEN [on |-> bus.on \ {d}, active |-> bus.active \ {d}]
                                                 ELSE [bus EXCEPT !.on = @ \cup {d}]
  BY DEF OW!BusChange
<1>2. disturbed' = [disturbed EXCEPT !.now = now] /\ UNCHANGED <<search, sensors>>
  BY DEF OW!BusChange
<1>3. bus' \in BusType
  <2>1. CASE d \in bus.on
    BY <1>1, <2>1, WireFields DEF BusType
  <2>2. CASE d \notin bus.on
    <3> DEFINE o == bus.on \cup {d}
    <3>1. bus' = [bus EXCEPT !.on = o] /\ o \in SUBSET OW!Rom
      BY <1>1, <2>2, WireFields
    <3> HIDE DEF o
    <3> QED
      BY <3>1, WireFields DEF BusType
  <2> QED
    BY <2>1, <2>2
<1>4. now \in BOOLEAN /\ (~now => search.pc = "idle")
  OBVIOUS
<1> HIDE DEF now
<1>5. disturbed' \in DisturbedType /\ disturbed'.now = now /\ disturbed'.again = disturbed.again
  BY <1>2, <1>4, WireFields DEF DisturbedType
<1>6. WireTypes'
  BY <1>2, <1>3, <1>5 DEF WireInv, WireTypes
<1>7. CountTrue'
  BY <1>2, <1>5 DEF WireInv, CountTrue
<1>8. SearchTrue'
  BY <1>2, <1>4, <1>5 DEF SearchTrue
<1> QED
  BY <1>6, <1>7, <1>8 DEF WireInv

LEMMA WireSearchAgain == ASSUME WireInv, OW!SearchAgain PROVE WireInv'
<1>1. /\ search' = [search EXCEPT !.pc = "idle"] /\ disturbed' = [now |-> FALSE, again |-> TRUE]
      /\ UNCHANGED <<bus, sensors>>
  BY DEF OW!SearchAgain
<1>2. /\ search' \in SearchType /\ search'.pc = "idle" /\ search'.drv = search.drv
      /\ search'.bits = search.bits /\ search'.pos = search.pos
  BY <1>1, WireFields DEF SearchType, SearchPc
<1>3. disturbed' \in DisturbedType /\ disturbed'.again = TRUE
  BY <1>1 DEF DisturbedType
<1>4. WireTypes'
  BY <1>1, <1>2, <1>3 DEF WireInv, WireTypes
<1>5. CountTrue' /\ SearchTrue'
  BY <1>2, <1>3 DEF CountTrue, SearchTrue
<1> QED
  BY <1>4, <1>5 DEF WireInv

LEMMA WireSteps == ASSUME WireInv, OW!Next PROVE WireInv'
BY WireSearchStart, WireResetPulse, WireReadBit, WirePassEnd, WireBusChange, WireSearchAgain DEF OW!Next

-----------------------------------------------------------------------------
ExchangeInv ==
  /\ part = "rfid" => RfidInv
  /\ part = "i2c" => I2CInv
  /\ part = "onewire" => WireInv

LEMMA ExchangesKeep == Spec => [](ExchangeInv)
<1> DEFINE I == ExchangeInv
<1> USE DEF ExchangeInv
<1>1. Init => I
  BY RfidBegins, I2CBegins, WireBegins DEF Init
<1>2. I /\ [Next]_vars => I'
  <2> SUFFICES ASSUME I, [Next]_vars PROVE I'
    OBVIOUS
  <2>1. CASE RfidStep
    <3>1. part = "rfid" /\ part' = "rfid" /\ RF!Next
      BY <2>1 DEF RfidStep, Others
    <3> QED
      BY <3>1, RfidSteps
  <2>2. CASE I2CStep
    <3>1. part = "i2c" /\ part' = "i2c" /\ IC!Next
      BY <2>2 DEF I2CStep, Others
    <3> QED
      BY <3>1, I2CSteps
  <2>3. CASE OneWireStep
    <3>1. part = "onewire" /\ part' = "onewire" /\ OW!Next
      BY <2>3 DEF OneWireStep, Others
    <3> QED
      BY <3>1, WireSteps
  <2>4. CASE ~(RfidStep \/ I2CStep \/ OneWireStep)
    <3>1. /\ part' = part
          /\ part = "rfid" => UNCHANGED rfidVars
          /\ part = "i2c" => UNCHANGED i2cVars
          /\ part = "onewire" => UNCHANGED wireVars
      BY <2>4 DEF Next, Others, RadioStep, MachineStep, ClockStep, PinsStep, FrameStep, SensorsStep, vars
    <3>2. part = "rfid" => RfidInv'
      BY <3>1 DEF rfidVars, RfidInv, RfidTypes, VerdictHasReason, RF!FieldOff, RF!VerdictSound, RF!MalformedKept,
                  RF!TailKept, RF!Saw32
    <3>3. part = "i2c" => I2CInv'
      BY <3>1 DEF i2cVars, I2CInv, I2CTypes, PhasesRight, LineTrue, HonestSoFar
    <3>4. part = "onewire" => WireInv'
      BY <3>1 DEF wireVars, WireInv, WireTypes, CountTrue, SearchTrue
    <3> QED
      BY <3>1, <3>2, <3>3, <3>4
  <2> QED
    BY <2>1, <2>2, <2>3, <2>4
<1> QED
  BY <1>1, <1>2, PTL DEF Spec

\* Whatever exchange with a card, an I2C slave or a 1-Wire device fails, and for every
\* transfer length, serial number width and set of devices: no encrypted link stays open,
\* a malformed block is kept, the bus is released, success is reported only for a complete
\* transfer, and the search finds each device once, in all.
THEOREM ExchangesAreSound == Spec => []ExchangesSound
<1>1. (ExchangeInv) => ExchangesSound
  BY I2CImplies, WireImplies DEF ExchangeInv, RfidInv, ExchangesSound, FieldOff, VerdictSound, MalformedKept, TailKept, BusReleased,
       HonestResult, SearchExact, CountExact
<1> QED
  BY <1>1, ExchangesKeep, PTL

-----------------------------------------------------------------------------
(***************************************************************************)
(* The sensors that measure while they are read.                           *)
(***************************************************************************)
Int16 == 0..(SE!Span - 1)
Words == [SE!Fields -> Int16]
Registers == [1..14 -> 0..255]
Measurements == [flag : 0..1, acc : Registers]
ApdsType == [on : BOOLEAN, irq : BOOLEAN, valid : BOOLEAN, fifo : Seq(Samples)]
GestPc == {"idle", "wait", "status", "level", "read", "sleep"}
Results == {"none", "NO_ACTIVITY", "ERR_DATA_INVALID", "ERR_FIFO_EMPTY"} \cup SE!Dirs
GestType == [pc : GestPc, level : Nat, min : Seq(Samples), max : Seq(Samples), res : Results]
LogType == [dev : {"apds", "mpu"}, calls : Nat, valid : Seq(Samples), got : Seq(Nat), last : Measurements, rest : Measurements]
AccType == [pin : BOOLEAN, pc : {"idle", "status", "data"}, cal : BOOLEAN, raw : Words, offset : Words,
            res : {"none", "error", "BUSY", "SUCCESS"}]
MpuType == [ready : BOOLEAN, acc : Registers, num : Nat]

SensorTypes == apds \in ApdsType /\ gest \in GestType /\ mpu \in MpuType /\ acc \in AccType /\ log \in LogType

AllValid(v) == v \in Seq(Samples) /\ \A i \in DOMAIN v : SE!validate_gest_data(v[i])

\* What min and max are after the valid samples v.
EndsOf(v, min, max) ==
  /\ v = <<>> => min = <<>> /\ max = <<>>
  /\ Len(v) = 1 => min = <<v[1]>> /\ max = <<>>
  /\ Len(v) > 1 => min = <<v[1]>> /\ max = <<v[Len(v)]>>

\* A call that is not done has the ends of what it read, and no direction yet; the
\* samples it still wants are in the FIFO, and the device is on only within a call.
GestureRead ==
  /\ AllValid(log.valid)
  /\ gest.level <= Len(apds.fifo) /\ (gest.pc # "read" => gest.level = 0)
  /\ Len(apds.fifo) <= Fifo
  /\ gest.pc # "idle" => EndsOf(log.valid, gest.min, gest.max) /\ gest.res \notin SE!Dirs
  /\ gest.pc = "idle" => ~apds.on

\* The measurement that the flag announces, or that is about to be read, is later than
\* all that were returned.
AccFresh ==
  /\ \A i \in DOMAIN log.got : log.got[i] <= mpu.num
  /\ mpu.ready \/ acc.pc = "data" => \A i \in DOMAIN log.got : log.got[i] < mpu.num

\* Offsets that a calibration with the measurement m leaves.
OffsetsOf(o, m) == \A f \in SE!Fields : o[f] = IF f = SE!Temp THEN 0 ELSE SE!Seen(m, f)

\* The offsets are those of the rest value, and 0 during a calibration.
OffsetTrue ==
  /\ OffsetsOf(acc.offset, log.rest)
  /\ acc.pc # "idle" /\ acc.cal => acc.offset = SE!Zeros

SensorInv ==
  /\ SensorTypes /\ GestureRead /\ AccFresh /\ OffsetTrue
  /\ SE!GestureOfEnds /\ SE!FreshOnce /\ SE!ZeroExact

LEMMA SensorParameters ==
  /\ Samples \subseteq [up : 0..255, down : 0..255, left : 0..255, right : 0..255]
  /\ Accs \subseteq Registers /\ Fifo \in Nat
BY DevicesAssumption DEF SE!Parameters, Registers

LEMMA IntsOf16 == \A n \in Int : n \in Int16 <=> 0 <= n /\ n <= 65535
<1>1. SE!Span - 1 = 65535
  BY DEF SE!Span
<1> QED
  BY <1>1 DEF Int16

LEMMA NothingMeasured ==
  /\ SE!Unmeasured \in Measurements /\ SE!Unmeasured.acc \in Registers
  /\ SE!Zeros \in Words /\ OffsetsOf(SE!Zeros, SE!Unmeasured)
<1>1. SE!Unmeasured \in Measurements /\ SE!Unmeasured.acc \in Registers /\ SE!Zeros \in Words
  <2>1. 0 \in Int16
    BY IntsOf16
  <2> QED
    BY <2>1 DEF SE!Unmeasured, SE!Zeros, Measurements, Registers, Words
<1>2. ASSUME NEW f \in SE!Fields PROVE SE!Seen(SE!Unmeasured, f) = 0
  <2>1. /\ 2 * f - 1 \in 1..14 /\ (f # 1 => 2 * f - 2 \in 1..14)
        /\ SE!Unmeasured.flag = 0 /\ \A k \in 1..14 : SE!Unmeasured.acc[k] = 0
    BY <1>2 DEF SE!Fields, SE!Unmeasured
  <2> QED
    BY <2>1 DEF SE!Seen
<1>3. OffsetsOf(SE!Zeros, SE!Unmeasured)
  BY <1>2 DEF OffsetsOf, SE!Zeros
<1> QED
  BY <1>1, <1>3

LEMMA SensorsBegin == ASSUME SE!Init PROVE SensorInv
<1>1. log.valid = <<>> /\ log.got = <<>> /\ DOMAIN log.valid = {} /\ DOMAIN log.got = {}
  BY DEF SE!Init
<1>2. <<>> \in Seq(Samples) /\ <<>> \in Seq(Nat) 
  OBVIOUS
<1>3. log \in LogType
  <2>1. /\ log = [dev |-> log.dev, calls |-> log.calls, valid |-> log.valid, got |-> log.got, last |-> log.last,
                  rest |-> log.rest]
        /\ log.dev \in {"apds", "mpu"} /\ log.calls = 0 /\ log.last = SE!Unmeasured
        /\ log.rest = SE!Unmeasured
    BY DEF SE!Init
  <2>2. log.valid \in Seq(Samples) /\ log.got \in Seq(Nat)
    BY <1>1, <1>2
  <2> QED
    BY <1>2, <2>1, <2>2, NothingMeasured DEF LogType
<1>4. acc \in AccType
  BY NothingMeasured DEF SE!Init, AccType
<1>5. apds \in ApdsType /\ gest \in GestType /\ mpu \in MpuType
  BY <1>2, NothingMeasured DEF SE!Init, ApdsType, GestType, GestPc, Results, MpuType
<1>6. GestureRead
  BY <1>1, <1>2, SensorParameters DEF SE!Init, GestureRead, AllValid
<1>7. AccFresh /\ SE!FreshOnce
  BY <1>1 DEF AccFresh, SE!FreshOnce
<1>8. OffsetTrue /\ SE!GestureOfEnds /\ SE!ZeroExact
  <2>1. acc.pc = "idle" /\ acc.res = "none" /\ acc.offset = SE!Zeros /\ log.rest = SE!Unmeasured /\ gest.res = "none"
    BY DEF SE!Init
  <2> QED
    BY <2>1, NothingMeasured DEF OffsetTrue, SE!GestureOfEnds, SE!ZeroExact
<1> QED
  BY <1>3, <1>4, <1>5, <1>6, <1>7, <1>8 DEF SensorInv, SensorTypes

\* The gesture sensor and the accelerometer do not touch each other's state.
ApdsPart == apds \in ApdsType /\ gest \in GestType /\ log \in LogType /\ GestureRead /\ SE!GestureOfEnds
AccPart == mpu \in MpuType /\ acc \in AccType /\ AccFresh /\ OffsetTrue /\ SE!FreshOnce /\ SE!ZeroExact

LEMMA ApdsStep ==
  ASSUME SensorInv, UNCHANGED <<mpu, acc>>, log'.got = log.got, log'.last = log.last, log'.rest = log.rest, ApdsPart'
  PROVE  SensorInv'
<1>1. AccPart'
  BY DEF AccPart, SensorInv, SensorTypes, AccFresh, OffsetTrue, SE!FreshOnce, SE!ZeroExact
<1> QED
  BY <1>1 DEF ApdsPart, AccPart, SensorInv, SensorTypes

LEMMA AccStep ==
  ASSUME SensorInv, UNCHANGED <<apds, gest>>, log' \in LogType, log'.valid = log.valid, AccPart'
  PROVE  SensorInv'
<1>1. ApdsPart'
  BY DEF ApdsPart, SensorInv, SensorTypes, GestureRead, SE!GestureOfEnds
<1> QED
  BY <1>1 DEF ApdsPart, AccPart, SensorInv, SensorTypes

LEMMA SensorGesture == ASSUME SensorInv, NEW s \in Samples, SE!Gesture(s) PROVE SensorInv'
<1> DEFINE f == Append(apds.fifo, s)
<1>1. /\ apds.on /\ apds' = [apds EXCEPT !.fifo = f, !.irq = TRUE, !.valid = TRUE]
      /\ Len(apds.fifo) < Fifo /\ UNCHANGED <<gest, mpu, acc, log>>
  BY DEF SE!Gesture
<1>2. apds \in ApdsType /\ gest \in GestType /\ apds.fifo \in Seq(Samples)
  BY DEF SensorInv, SensorTypes, ApdsType
<1>3. f \in Seq(Samples) /\ Len(f) = Len(apds.fifo) + 1 /\ Len(apds.fifo) \in Nat
  BY <1>2
<1> HIDE DEF f
<1>4. apds' \in ApdsType /\ apds'.fifo = f /\ apds'.on = apds.on
  BY <1>1, <1>2, <1>3 DEF ApdsType
<1>5. GestureRead'
  BY <1>1, <1>2, <1>3, <1>4, SensorParameters DEF SensorInv, GestureRead, GestType
<1>6. SE!GestureOfEnds'
  BY <1>1, <1>4 DEF SensorInv, SE!GestureOfEnds
<1>7. ApdsPart'
  BY <1>1, <1>4, <1>5, <1>6 DEF ApdsPart, SensorInv, SensorTypes
<1> QED
  BY <1>1, <1>7, ApdsStep

LEMMA SensorGestureEmpty == ASSUME SensorInv, NEW b \in BOOLEAN, SE!GestureEmpty(b) PROVE SensorInv'
<1>1. apds' = [apds EXCEPT !.irq = TRUE, !.valid = b] /\ UNCHANGED <<gest, mpu, acc, log>>
  BY DEF SE!GestureEmpty
<1>2. apds' \in ApdsType /\ apds'.fifo = apds.fifo /\ apds'.on = apds.on
  BY <1>1 DEF SensorInv, SensorTypes, ApdsType
<1>3. GestureRead' /\ SE!GestureOfEnds'
  BY <1>1, <1>2 DEF SensorInv, GestureRead, SE!GestureOfEnds
<1>4. ApdsPart'
  BY <1>1, <1>2, <1>3 DEF ApdsPart, SensorInv, SensorTypes
<1> QED
  BY <1>1, <1>4, ApdsStep

LEMMA SensorGestureStart == ASSUME SensorInv, SE!GestureStart PROVE SensorInv'
<1>1. /\ gest.pc = "idle" /\ apds' = [apds EXCEPT !.on = TRUE] /\ UNCHANGED <<mpu, acc>>
      /\ gest' = [pc |-> "wait", level |-> 0, min |-> <<>>, max |-> <<>>, res |-> "NO_ACTIVITY"]
      /\ log' = [log EXCEPT !.calls = @ + 1, !.valid = <<>>]
  BY DEF SE!GestureStart
<1>2. <<>> \in Seq(Samples) /\ Len(<<>>) = 0 /\ DOMAIN <<>> = {}
  OBVIOUS
<1>3. apds \in ApdsType /\ log \in LogType
  BY DEF SensorInv, SensorTypes
<1>4. apds' \in ApdsType /\ apds'.fifo = apds.fifo /\ Len(apds.fifo) \in Nat
  <2>1. apds.fifo \in Seq(Samples)
    BY <1>3 DEF ApdsType
  <2>2. apds' \in ApdsType /\ apds'.fifo = apds.fifo
    BY <1>1, <1>3 DEF ApdsType
  <2> QED
    BY <2>1, <2>2
<1>5. gest' \in GestType
  BY <1>1, <1>2 DEF GestType, GestPc, Results
<1>6. /\ log' \in LogType /\ log'.valid = <<>>
      /\ log'.got = log.got /\ log'.last = log.last /\ log'.rest = log.rest
  <2> DEFINE e == <<>>
             c == log.calls + 1
  <2>1. log' = [log EXCEPT !.calls = c, !.valid = e] /\ e \in Seq(Samples) /\ c \in Nat
    BY <1>1, <1>2, <1>3 DEF LogType
  <2> HIDE DEF e, c
  <2>2. /\ log' \in LogType /\ log'.valid = e
        /\ log'.got = log.got /\ log'.last = log.last /\ log'.rest = log.rest
    BY <1>3, <2>1 DEF LogType
  <2> QED
    BY <2>2 DEF e
<1>7. GestureRead'
  <2>1. Len(apds.fifo) <= Fifo
    BY DEF SensorInv, GestureRead
  <2> QED
    BY <1>1, <1>2, <1>4, <1>6, <2>1 DEF GestureRead, AllValid, EndsOf, SE!Dirs
<1>8. SE!GestureOfEnds'
  BY <1>1 DEF SE!GestureOfEnds
<1>9. ApdsPart'
  BY <1>4, <1>5, <1>6, <1>7, <1>8 DEF ApdsPart
<1> QED
  BY <1>1, <1>6, <1>9, ApdsStep

\* A step in which the driver goes on to another place, perhaps with an error.
LEMMA SensorGoesOn ==
  ASSUME SensorInv, NEW pc \in GestPc \ {"idle", "read"}, NEW res \in Results \ SE!Dirs,
         gest.pc \notin {"idle", "read"},
         gest' = [gest EXCEPT !.pc = pc, !.res = res], UNCHANGED <<apds, mpu, acc, log>>
  PROVE  SensorInv'
<1>1. /\ gest' \in GestType /\ gest'.pc = pc /\ gest'.res = res /\ gest'.min = gest.min /\ gest'.max = gest.max
      /\ gest'.level = gest.level
  BY DEF SensorInv, SensorTypes, GestType
<1>2. GestureRead'
  BY <1>1 DEF SensorInv, GestureRead
<1>3. SE!GestureOfEnds'
  BY <1>1 DEF SE!GestureOfEnds
<1>4. ApdsPart'
  BY <1>1, <1>2, <1>3 DEF ApdsPart, SensorInv, SensorTypes
<1> QED
  BY <1>4, ApdsStep

LEMMA SensorWaitIrq == ASSUME SensorInv, NEW b \in BOOLEAN, SE!WaitIrq(b) PROVE SensorInv'
<1> DEFINE pc == IF b THEN "status" ELSE "sleep"
<1>1. gest.pc = "wait" /\ gest' = [gest EXCEPT !.pc = pc] /\ UNCHANGED <<apds, mpu, acc, log>>
  BY DEF SE!WaitIrq
<1>2. gest \in GestType /\ gest.res \in Results \ SE!Dirs /\ pc \in GestPc \ {"idle", "read"}
  BY <1>1 DEF SensorInv, SensorTypes, GestType, GestureRead, GestPc
<1> HIDE DEF pc
<1>3. gest' = [gest EXCEPT !.pc = pc, !.res = gest.res]
  BY <1>1, <1>2 DEF GestType
<1> QED
  BY <1>1, <1>2, <1>3, SensorGoesOn

LEMMA SensorReadStatus == ASSUME SensorInv, SE!ReadStatus PROVE SensorInv'
<1>1. gest.pc = "status" /\ UNCHANGED <<apds, mpu, acc, log>>
  BY DEF SE!ReadStatus
<1>2. gest \in GestType /\ gest.res \in Results \ SE!Dirs
  BY <1>1 DEF SensorInv, SensorTypes, GestType, GestureRead
<1>3. CASE apds.valid
  <2>1. gest' = [gest EXCEPT !.pc = "level"]
    BY <1>3 DEF SE!ReadStatus
  <2>2. gest' = [gest EXCEPT !.pc = "level", !.res = gest.res]
    BY <1>2, <2>1 DEF GestType
  <2>3. "level" \in GestPc \ {"idle", "read"}
    BY DEF GestPc
  <2> QED
    BY <1>1, <1>2, <2>2, <2>3, SensorGoesOn
<1>4. CASE ~apds.valid
  <2>1. gest' = [gest EXCEPT !.pc = "sleep", !.res = "ERR_DATA_INVALID"]
    BY <1>4 DEF SE!ReadStatus
  <2>2. "sleep" \in GestPc \ {"idle", "read"} /\ "ERR_DATA_INVALID" \in Results \ SE!Dirs
    BY DEF GestPc, Results, SE!Dirs
  <2> QED
    BY <1>1, <2>1, <2>2, SensorGoesOn
<1> QED
  BY <1>3, <1>4

LEMMA SensorReadLevel == ASSUME SensorInv, SE!ReadLevel PROVE SensorInv'
<1>1. gest.pc = "level" /\ UNCHANGED <<apds, mpu, acc, log>>
  BY DEF SE!ReadLevel
<1>2. gest \in GestType /\ gest.res \in Results \ SE!Dirs /\ apds.fifo \in Seq(Samples)
  BY <1>1 DEF SensorInv, SensorTypes, GestType, GestureRead, ApdsType
<1>3. CASE apds.fifo # <<>>
  <2>1. gest' = [gest EXCEPT !.pc = "read", !.level = Len(apds.fifo)]
    BY <1>3 DEF SE!ReadLevel
  <2>2. /\ gest' \in GestType /\ gest'.pc = "read" /\ gest'.level = Len(apds.fifo) /\ gest'.min = gest.min
        /\ gest'.max = gest.max /\ gest'.res = gest.res
    <3> DEFINE n == Len(apds.fifo)
    <3>1. n \in Nat
      BY <1>2
    <3> HIDE DEF n
    <3>2. gest' = [gest EXCEPT !.pc = "read", !.level = n]
      BY <2>1 DEF n
    <3>3. /\ gest' \in GestType /\ gest'.pc = "read" /\ gest'.level = n /\ gest'.min = gest.min
          /\ gest'.max = gest.max /\ gest'.res = gest.res
      BY <1>2, <3>1, <3>2 DEF GestType, GestPc
    <3> QED
      BY <3>3 DEF n
  <2>3. GestureRead'
    BY <1>1, <1>2, <2>2 DEF SensorInv, GestureRead
  <2>4. SE!GestureOfEnds'
    BY <2>2 DEF SE!GestureOfEnds
  <2>5. ApdsPart'
    BY <1>1, <2>2, <2>3, <2>4 DEF ApdsPart, SensorInv, SensorTypes
  <2> QED
    BY <1>1, <2>5, ApdsStep
<1>4. CASE apds.fifo = <<>>
  <2>1. gest' = [gest EXCEPT !.pc = "sleep", !.res = "ERR_FIFO_EMPTY"]
    BY <1>4 DEF SE!ReadLevel
  <2>2. "sleep" \in GestPc \ {"idle", "read"} /\ "ERR_FIFO_EMPTY" \in Results \ SE!Dirs
    BY DEF GestPc, Results, SE!Dirs
  <2> QED
    BY <1>1, <2>1, <2>2, SensorGoesOn
<1> QED
  BY <1>3, <1>4

\* One more valid sample moves the ends.
LEMMA EndsMove ==
  ASSUME NEW v \in Seq(Samples), NEW min, NEW max, EndsOf(v, min, max), NEW s \in Samples
  PROVE  EndsOf(Append(v, s), IF min = <<>> THEN <<s>> ELSE min, IF min # <<>> THEN <<s>> ELSE max)
<1> DEFINE w == Append(v, s)
<1>1. Len(v) \in Nat /\ Len(w) = Len(v) + 1 /\ w[Len(w)] = s /\ w # <<>>
  OBVIOUS
<1>2. CASE v = <<>>
  <2>1. min = <<>> /\ max = <<>> /\ Len(w) = 1 /\ w[1] = s
    BY <1>1, <1>2 DEF EndsOf
  <2> HIDE DEF w
  <2>2. EndsOf(w, <<s>>, <<>>)
    <3>1. ~(Len(w) > 1) /\ <<w[1]>> = <<s>>
      BY <2>1
    <3> QED
      BY <1>1, <3>1, Zenon DEF EndsOf
  <2> QED
    BY <2>1, <2>2 DEF w
<1>3. CASE v # <<>>
  <2>1. Len(v) >= 1 /\ w[1] = v[1] /\ min = <<v[1]>>
    <3>1. Len(v) >= 1 /\ w[1] = v[1]
      BY <1>3
    <3>2. Len(v) = 1 \/ Len(v) > 1
      <4> DEFINE L == Len(v)
      <4>1. L \in Nat /\ L >= 1
        BY <1>1, <3>1
      <4> HIDE DEF L
      <4>2. L = 1 \/ L > 1
        BY <4>1
      <4> QED
        BY <4>2 DEF L
    <3>3. min = <<v[1]>>
      BY <3>2, Zenon DEF EndsOf
    <3> QED
      BY <3>1, <3>3
  <2>2. min # <<>>
    BY <2>1
  <2> HIDE DEF w
  <2>3. EndsOf(w, min, <<s>>)
    BY <1>1, <2>1 DEF EndsOf
  <2> QED
    BY <2>2, <2>3 DEF w
<1> QED
  BY <1>2, <1>3

LEMMA SensorReadFifo == ASSUME SensorInv, SE!ReadFifo PROVE SensorInv'
<1> DEFINE s == Head(apds.fifo)
           ok == SE!validate_gest_data(s)
           pc == IF gest.level = 1 THEN "sleep" ELSE "read"
           n == gest.level - 1
           min == IF ok /\ gest.min = <<>> THEN <<s>> ELSE gest.min
           max == IF ok /\ gest.min # <<>> THEN <<s>> ELSE gest.max
           f == Tail(apds.fifo)
           v == IF ok THEN Append(log.valid, s) ELSE log.valid
<1>1. /\ gest.pc = "read" /\ gest.level > 0 /\ UNCHANGED <<mpu, acc>>
      /\ gest' = [gest EXCEPT !.level = n, !.pc = pc, !.min = min, !.max = max]
      /\ apds' = [apds EXCEPT !.fifo = f]
      /\ log' = IF ok THEN [log EXCEPT !.valid = Append(log.valid, s)] ELSE log
  BY DEF SE!ReadFifo, SE!Taken
<1>2. apds \in ApdsType /\ gest \in GestType /\ log \in LogType
  BY DEF SensorInv, SensorTypes
<1>3. /\ apds.fifo \in Seq(Samples) /\ gest.level \in Nat /\ log.valid \in Seq(Samples)
      /\ gest.min \in Seq(Samples) /\ gest.max \in Seq(Samples)
  BY <1>2 DEF ApdsType, GestType, LogType
<1>4. gest.level <= Len(apds.fifo) /\ EndsOf(log.valid, gest.min, gest.max) /\ gest.res \notin SE!Dirs /\ AllValid(log.valid)
  BY <1>1 DEF SensorInv, GestureRead
<1>5. s \in Samples /\ f \in Seq(Samples) /\ Len(f) = Len(apds.fifo) - 1
  BY <1>1, <1>3, <1>4
<1>6. n \in Nat /\ n <= Len(f) /\ pc \in {"read", "sleep"} /\ (pc # "read" => n = 0)
  BY <1>1, <1>3, <1>4, <1>5
<1> HIDE DEF s, f, n, pc
<1>7. min \in Seq(Samples) /\ max \in Seq(Samples) /\ v \in Seq(Samples)
  BY <1>3, <1>5
<1>8. AllValid(v) /\ EndsOf(v, min, max)
  <2>1. CASE ok
    <3>1. EndsOf(Append(log.valid, s), IF gest.min = <<>> THEN <<s>> ELSE gest.min, IF gest.min # <<>> THEN <<s>> ELSE gest.max)
      BY <1>3, <1>4, <1>5, EndsMove
    <3>2. AllValid(Append(log.valid, s))
      <4> DEFINE w == Append(log.valid, s)
      <4>1. w \in Seq(Samples) /\ Len(w) = Len(log.valid) + 1 /\ w[Len(w)] = s /\ Len(log.valid) \in Nat
            /\ \A i \in 1..Len(log.valid) : w[i] = log.valid[i]
        BY <1>3, <1>5
      <4>2. \A i \in DOMAIN w : i \in 1..Len(log.valid) \/ i = Len(w)
        BY <4>1
      <4>3. DOMAIN log.valid = 1..Len(log.valid)
        BY <1>3
      <4> HIDE DEF w
      <4>4. \A i \in DOMAIN w : SE!validate_gest_data(w[i])
        <5> SUFFICES ASSUME NEW i \in DOMAIN w PROVE SE!validate_gest_data(w[i])
          OBVIOUS
        <5>1. CASE i = Len(w)
          BY <2>1, <4>1, <5>1
        <5>2. CASE i \in 1..Len(log.valid)
          <6>1. SE!validate_gest_data(log.valid[i]) /\ w[i] = log.valid[i]
            BY <1>4, <4>1, <4>3, <5>2 DEF AllValid
          <6> QED
            BY <6>1
        <5> QED
          BY <4>2, <5>1, <5>2
      <4> QED
        BY <4>1, <4>4 DEF AllValid, w
    <3> QED
      BY <2>1, <3>1, <3>2
  <2>2. CASE ~ok
    BY <1>4, <2>2
  <2> QED
    BY <2>1, <2>2
<1> HIDE DEF ok, min, max, v
<1>9. /\ gest' \in GestType /\ gest'.pc = pc /\ gest'.level = n /\ gest'.min = min /\ gest'.max = max
      /\ gest'.res = gest.res
  BY <1>1, <1>2, <1>6, <1>7 DEF GestType, GestPc
<1>10. apds' \in ApdsType /\ apds'.fifo = f /\ apds'.on = apds.on
  BY <1>1, <1>2, <1>5 DEF ApdsType
<1>11. /\ log' \in LogType /\ log'.valid = v
       /\ log'.got = log.got /\ log'.last = log.last /\ log'.rest = log.rest
  <2>1. log' = [log EXCEPT !.valid = v]
    BY <1>1, <1>2 DEF v, LogType
  <2> QED
    BY <1>2, <1>7, <2>1 DEF LogType
<1>12. GestureRead'
  <2>1. Len(apds.fifo) <= Fifo /\ Fifo \in Nat /\ Len(apds.fifo) \in Nat
    BY <1>3, SensorParameters DEF SensorInv, GestureRead
  <2>2. Len(f) <= Fifo
    BY <1>5, <2>1
  <2> QED
    BY <1>4, <1>6, <1>8, <1>9, <1>10, <1>11, <2>2 DEF GestureRead
<1>13. SE!GestureOfEnds'
  BY <1>6, <1>9 DEF SE!GestureOfEnds
<1>14. ApdsPart'
  BY <1>9, <1>10, <1>11, <1>12, <1>13 DEF ApdsPart
<1> QED
  BY <1>1, <1>11, <1>14, ApdsStep

LEMMA Directed == ASSUME NEW min, NEW max PROVE SE!proccess_gesture(min, max) \in Results
<1> DEFINE ud == SE!MoveUd(min, max)
           lr == SE!MoveLr(min, max)
<1> HIDE DEF ud, lr
<1>1. SE!proccess_gesture(min, max) =
        CASE ud > lr /\ ud > 10 -> "DIR_UP"
          [] ud > lr /\ ud < -10 -> "DIR_DOWN"
          [] ud < lr /\ lr > 10 -> "DIR_LEFT"
          [] ud < lr /\ lr < -10 -> "DIR_RIGHT"
          [] OTHER -> "ERR_DATA_INVALID"
  BY Zenon DEF SE!proccess_gesture, ud, lr
<1> QED
  BY <1>1 DEF Results, SE!Dirs

LEMMA SensorGestureEnd == ASSUME SensorInv, SE!GestureEnd PROVE SensorInv'
<1> DEFINE r == IF gest.min # <<>> /\ gest.max # <<>> THEN SE!proccess_gesture(gest.min[1], gest.max[1]) ELSE gest.res
           v == log.valid
<1>1. /\ gest.pc = "sleep" /\ UNCHANGED <<mpu, acc, log>>
      /\ apds' \in [on : {FALSE}, irq : {FALSE}, valid : {FALSE}, fifo : {<<>>, apds.fifo}]
      /\ gest' = [gest EXCEPT !.pc = "idle", !.res = r]
  BY DEF SE!GestureEnd, SE!sleep_mode
<1>2. gest \in GestType /\ apds.fifo \in Seq(Samples) /\ log \in LogType /\ v \in Seq(Samples)
  BY DEF SensorInv, SensorTypes, ApdsType, LogType
<1>3. gest.level = 0 /\ EndsOf(v, gest.min, gest.max) /\ gest.res \notin SE!Dirs
  BY <1>1 DEF SensorInv, GestureRead
<1>4. r \in Results
  BY <1>2, Directed DEF GestType
<1>5. IF Len(v) > 1 THEN r = SE!proccess_gesture(v[1], v[Len(v)]) ELSE r \notin SE!Dirs
  <2>1. Len(v) \in Nat /\ (Len(v) = 0 => v = <<>>)
    BY <1>2
  <2>2. CASE Len(v) > 1
    <3>1. gest.min = <<v[1]>> /\ gest.max = <<v[Len(v)]>>
      BY <1>3, <2>2 DEF EndsOf
    <3>2. gest.min # <<>> /\ gest.max # <<>> /\ gest.min[1] = v[1] /\ gest.max[1] = v[Len(v)]
      BY <3>1
    <3> QED
      BY <2>2, <3>2
  <2>3. CASE ~(Len(v) > 1)
    <3>1. gest.max = <<>>
      <4>1. v = <<>> \/ Len(v) = 1
        <5> DEFINE L == Len(v)
        <5>1. L \in Nat /\ ~(L > 1) /\ (L = 0 => v = <<>>)
          BY <2>1, <2>3
        <5> HIDE DEF L
        <5>2. L = 0 \/ L = 1
          BY <5>1
        <5> QED
          BY <5>1, <5>2 DEF L
      <4> QED
        BY <1>3, <4>1, Zenon DEF EndsOf
    <3> QED
      BY <1>3, <2>3, <3>1
  <2> QED
    BY <2>2, <2>3
<1> HIDE DEF r, v
<1>6. /\ gest' \in GestType /\ gest'.pc = "idle" /\ gest'.res = r /\ gest'.level = gest.level
  BY <1>1, <1>2, <1>4 DEF GestType, GestPc
<1>7. apds' \in ApdsType /\ apds'.on = FALSE /\ Len(apds'.fifo) \in Nat
  <2>1. apds'.fifo \in {<<>>, apds.fifo} /\ apds'.on = FALSE
        /\ apds' = [on |-> FALSE, irq |-> FALSE, valid |-> FALSE, fifo |-> apds'.fifo]
    BY <1>1
  <2>2. apds'.fifo \in Seq(Samples)
    <3>1. <<>> \in Seq(Samples)
      OBVIOUS
    <3> QED
      BY <1>2, <2>1, <3>1
  <2>3. Len(apds'.fifo) \in Nat
    BY <2>2
  <2>4. apds' \in ApdsType
    <3> DEFINE f == apds'.fifo
    <3>1. apds' = [on |-> FALSE, irq |-> FALSE, valid |-> FALSE, fifo |-> f] /\ f \in Seq(Samples)
      BY <2>1, <2>2
    <3> HIDE DEF f
    <3> QED
      BY <3>1 DEF ApdsType
  <2> QED
    BY <2>1, <2>3, <2>4
<1>8. GestureRead'
  <2>1. Len(apds'.fifo) <= Fifo
    <3>1. apds'.fifo = <<>> \/ apds'.fifo = apds.fifo
      BY <1>1
    <3>2. Len(<<>>) = 0 /\ Fifo \in Nat
      BY SensorParameters
    <3>3. Len(apds.fifo) <= Fifo
      BY DEF SensorInv, GestureRead
    <3> QED
      BY <3>1, <3>2, <3>3
  <2> QED
    BY <1>1, <1>3, <1>6, <1>7, <2>1 DEF SensorInv, GestureRead
<1>9. SE!GestureOfEnds'
  BY <1>1, <1>5, <1>6, <1>7 DEF SE!GestureOfEnds, v
<1>10. ApdsPart'
  BY <1>1, <1>2, <1>6, <1>7, <1>8, <1>9 DEF ApdsPart
<1> QED
  BY <1>1, <1>10, ApdsStep

LEMMA SensorMeasure == ASSUME SensorInv, NEW a \in Accs, SE!Measure(a) PROVE SensorInv'
<1>1. mpu' = [ready |-> TRUE, acc |-> a, num |-> mpu.num + 1] /\ UNCHANGED <<apds, gest, acc, log>>
  BY DEF SE!Measure
<1>2. a \in Registers
  BY SensorParameters
<1>3. mpu \in MpuType /\ mpu.num \in Nat /\ log \in LogType /\ log.got \in Seq(Nat) /\ acc \in AccType
  BY DEF SensorInv, SensorTypes, MpuType, LogType
<1>4. mpu' \in MpuType /\ mpu'.num = mpu.num + 1
  BY <1>1, <1>2, <1>3 DEF MpuType
<1>5. \A i \in DOMAIN log.got : log.got[i] \in Nat
  BY <1>3
<1>6. AccFresh'
  BY <1>1, <1>3, <1>4, <1>5 DEF SensorInv, AccFresh
<1>7. OffsetTrue' /\ SE!FreshOnce' /\ SE!ZeroExact'
  BY <1>1 DEF SensorInv, OffsetTrue, SE!FreshOnce, SE!ZeroExact
<1>8. AccPart'
  BY <1>1, <1>3, <1>4, <1>6, <1>7 DEF AccPart
<1> QED
  BY <1>1, <1>3, <1>8, AccStep

LEMMA SensorAccStart == ASSUME SensorInv, NEW cal \in BOOLEAN, SE!AccStart(cal) PROVE SensorInv'
<1> DEFINE o == IF cal THEN SE!Zeros ELSE acc.offset
           r == IF cal THEN SE!Unmeasured ELSE log.rest
           c == log.calls + 1
<1>1. /\ acc.pc = "idle" /\ acc' = [acc EXCEPT !.pc = "status", !.cal = cal, !.offset = o]
      /\ log' = [log EXCEPT !.calls = c, !.rest = r] /\ UNCHANGED <<apds, gest, mpu>>
  BY DEF SE!AccStart, SE!OffsetAt
<1>2. log \in LogType /\ acc \in AccType /\ mpu \in MpuType
  BY DEF SensorInv, SensorTypes
<1>3. o \in Words /\ r \in Measurements /\ c \in Nat /\ OffsetsOf(o, r) /\ (cal => o = SE!Zeros)
  BY <1>2, NothingMeasured DEF AccType, LogType, SensorInv, OffsetTrue
<1> HIDE DEF o, r, c
<1>4. /\ log' \in LogType /\ log'.rest = r /\ log'.valid = log.valid /\ log'.got = log.got
  BY <1>1, <1>2, <1>3 DEF LogType
<1>5. /\ acc' \in AccType /\ acc'.pc = "status" /\ acc'.offset = o /\ acc'.cal = cal
  BY <1>1, <1>2, <1>3 DEF AccType
<1>6. AccFresh' /\ SE!FreshOnce'
  BY <1>1, <1>4, <1>5 DEF SensorInv, AccFresh, SE!FreshOnce
<1>7. OffsetTrue' /\ SE!ZeroExact'
  BY <1>3, <1>4, <1>5 DEF OffsetTrue, SE!ZeroExact
<1>8. AccPart'
  BY <1>1, <1>2, <1>5, <1>6, <1>7 DEF AccPart
<1> QED
  BY <1>1, <1>4, <1>8, AccStep

\* The end of a call without a result.
LEMMA AccReturned ==
  ASSUME acc \in AccType, NEW res \in {"error", "BUSY"}, acc' = SE!Returned(res)
  PROVE  /\ acc' \in AccType /\ acc'.pc = "idle" /\ acc'.res = res /\ acc'.offset = acc.offset
BY DEF SE!Returned, AccType

LEMMA SensorReadReady == ASSUME SensorInv, NEW e \in 0..2, SE!ReadReady(e) PROVE SensorInv'
<1>1. acc.pc = "status" /\ UNCHANGED <<apds, gest, log>>
  BY DEF SE!ReadReady
<1>2. log \in LogType /\ acc \in AccType /\ mpu \in MpuType
  BY DEF SensorInv, SensorTypes
<1>3. mpu' \in MpuType /\ mpu'.num = mpu.num /\ (mpu'.ready => mpu.ready)
  <2>1. mpu' = mpu \/ mpu' = [mpu EXCEPT !.ready = FALSE]
    BY DEF SE!ReadReady
  <2> QED
    BY <1>2, <2>1 DEF MpuType
<1>4. /\ acc' \in AccType /\ acc'.offset = acc.offset
      /\ acc'.pc = "data" => mpu.ready
      /\ acc'.pc # "idle" => acc'.cal = acc.cal
      /\ acc'.pc = "idle" => acc'.res # "SUCCESS"
  <2>1. CASE e > 1
    <3>1. acc' = SE!Returned("error")
      BY <2>1 DEF SE!ReadReady
    <3> QED
      BY <1>2, <3>1, AccReturned
  <2>2. CASE ~(e > 1) /\ e = 0 /\ mpu.ready
    <3>1. acc' = [acc EXCEPT !.pc = "data"]
      BY <2>2 DEF SE!ReadReady
    <3> QED
      BY <1>2, <2>2, <3>1 DEF AccType
  <2>3. CASE ~(e > 1) /\ ~(e = 0 /\ mpu.ready) /\ acc.cal
    <3>1. acc' = acc
      BY <2>3 DEF SE!ReadReady
    <3> QED
      BY <1>1, <1>2, <3>1
  <2>4. CASE ~(e > 1) /\ ~(e = 0 /\ mpu.ready) /\ ~acc.cal
    <3>1. acc' = SE!Returned("BUSY")
      BY <2>4 DEF SE!ReadReady
    <3> QED
      BY <1>2, <3>1, AccReturned
  <2> QED
    BY <2>1, <2>2, <2>3, <2>4
<1>5. AccFresh' /\ SE!FreshOnce'
  BY <1>1, <1>3, <1>4 DEF SensorInv, AccFresh, SE!FreshOnce
<1>6. OffsetTrue' /\ SE!ZeroExact'
  BY <1>1, <1>4 DEF SensorInv, OffsetTrue, SE!ZeroExact
<1>7. AccPart'
  BY <1>3, <1>4, <1>5, <1>6 DEF AccPart
<1> QED
  BY <1>1, <1>2, <1>7, AccStep

\* In 16 bits, a value less no offset is the value.
LEMMA ModuloSpan ==
  /\ \A a \in Int16 : (a + SE!Span - 0) % SE!Span = a
  /\ \A a, o \in Int16 : (a + SE!Span - o) % SE!Span \in Int16
<1> DEFINE S == SE!Span
<1>1. S \in Nat /\ S > 0 /\ S - 1 = 65535 /\ \A n \in Int16 : n \in Int /\ 0 <= n /\ n < S
  BY DEF SE!Span, Int16
<1> HIDE DEF S
<1>2. ASSUME NEW a \in Int16 PROVE (a + S - 0) % S = a
  BY <1>1
<1>3. ASSUME NEW a \in Int16, NEW o \in Int16 PROVE (a + S - o) % S \in Int16
  <2> DEFINE x == a + S - o
  <2>1. x \in Int
    BY <1>1
  <2> HIDE DEF x
  <2>2. x % S \in Int /\ 0 <= x % S /\ x % S <= S - 1
    BY <1>1, <2>1
  <2>3. x % S \in Int16
    BY <1>1, <2>2, IntsOf16
  <2> QED
    BY <2>3 DEF x
<1> QED
  BY <1>2, <1>3 DEF S

\* The words of a burst are the ones that a measurement is seen as.
LEMMA WordsSeen ==
  ASSUME NEW m \in Measurements, NEW f \in SE!Fields
  PROVE  SE!Word(SE!Bytes(m), f) = SE!Seen(m, f) /\ SE!Seen(m, f) \in Int16
<1>1. m.flag \in 0..1 /\ m.acc \in Registers
  BY DEF Measurements
<1>2. /\ f \in 1..7 /\ 2 * f \in 2..14 /\ 2 * f - 1 \in 1..14 /\ (f # 1 => 2 * f - 2 \in 1..14)
      /\ (2 * f - 1) - 1 = 2 * f - 2 /\ (2 * f - 1 = 1 <=> f = 1)
  BY DEF SE!Fields
<1> DEFINE low == IF f = 1 THEN m.flag ELSE m.acc[2 * f - 2]
           high == m.acc[2 * f - 1]
<1>3. low \in 0..255 /\ high \in 0..255
  BY <1>1, <1>2 DEF Registers
<1>4. SE!Bytes(m)[2 * f - 1] = low /\ SE!Bytes(m)[2 * f] = high
  BY <1>2 DEF SE!Bytes
<1> HIDE DEF low, high
<1>5. low + 256 * high \in Int16
  <2>1. low + 256 * high \in Int /\ 0 <= low + 256 * high /\ low + 256 * high <= 65535
    BY <1>3
  <2> QED
    BY <2>1, IntsOf16
<1>6. SE!Seen(m, f) = low + 256 * high
  BY DEF SE!Seen, low, high
<1> QED
  BY <1>4, <1>5, <1>6 DEF SE!Word

\* A number larger than all in a rising sequence may be put at its end.
LEMMA RisesOn ==
  ASSUME NEW g \in Seq(Nat), NEW n \in Nat, \A i \in DOMAIN g : g[i] < n,
         \A i, j \in DOMAIN g : i < j => g[i] < g[j]
  PROVE  LET h == Append(g, n) IN
         /\ h \in Seq(Nat) /\ \A i \in DOMAIN h : h[i] <= n
         /\ \A i, j \in DOMAIN h : i < j => h[i] < h[j]
<1> DEFINE h == Append(g, n)
<1>1. /\ h \in Seq(Nat) /\ Len(g) \in Nat /\ DOMAIN h = 1..(Len(g) + 1) /\ DOMAIN g = 1..Len(g)
      /\ h[Len(g) + 1] = n /\ \A i \in 1..Len(g) : h[i] = g[i] /\ g[i] \in Nat
  OBVIOUS
<1> HIDE DEF h
<1>2. \A i \in DOMAIN h : h[i] <= n
  BY <1>1
<1>3. \A i, j \in DOMAIN h : i < j => h[i] < h[j]
  BY <1>1, SMTT(60)
<1> QED
  BY <1>1, <1>2, <1>3 DEF h

LEMMA SensorReadAcc == ASSUME SensorInv, NEW e \in 0..2, SE!ReadAcc(e) PROVE SensorInv'
<1>1. acc.pc = "data" /\ UNCHANGED <<apds, gest>>
  BY DEF SE!ReadAcc
<1>2. log \in LogType /\ acc \in AccType /\ mpu \in MpuType
  BY DEF SensorInv, SensorTypes
<1>3. CASE e > 0
  <2>1. acc' = SE!Returned("error") /\ UNCHANGED <<mpu, log>>
    BY <1>3 DEF SE!ReadAcc
  <2>2. acc' \in AccType /\ acc'.pc = "idle" /\ acc'.res = "error" /\ acc'.offset = acc.offset
    BY <1>2, <2>1, AccReturned
  <2>3. AccPart'
    BY <1>2, <2>1, <2>2 DEF AccPart, SensorInv, AccFresh, OffsetTrue, SE!FreshOnce, SE!ZeroExact
  <2> QED
    BY <1>1, <1>2, <2>1, <2>3, AccStep
<1>4. CASE ~(e > 0)
  <2> DEFINE m == SE!Read
             raw == [f \in SE!Fields |-> SE!Corrected(f)]
             none == [raw EXCEPT ![SE!Temp] = 0]
             o == IF acc.cal THEN none ELSE acc.offset
             r == IF acc.cal THEN m ELSE log.rest
             g == Append(log.got, mpu.num)
  <2>1. /\ mpu' = [mpu EXCEPT !.ready = FALSE]
        /\ acc' = [SE!Returned("SUCCESS") EXCEPT !.raw = raw, !.offset = IF acc.cal THEN none ELSE @]
        /\ log' = [log EXCEPT !.got = g, !.last = m, !.rest = r]
    BY <1>4 DEF SE!ReadAcc, SE!Burst
  <2>2. /\ mpu.acc \in Registers /\ mpu.num \in Nat /\ acc.offset \in Words
        /\ log.rest \in Measurements /\ log.got \in Seq(Nat)
    BY <1>2 DEF MpuType, AccType, LogType
  <2>3. m \in Measurements
    BY <2>2 DEF SE!Read, Measurements
  <2>4. \A f \in SE!Fields : raw[f] = (SE!Seen(m, f) + SE!Span - acc.offset[f]) % SE!Span
    BY <2>3, WordsSeen DEF SE!Corrected
  <2> HIDE DEF m
  <2>5. raw \in Words
    <3>1. ASSUME NEW f \in SE!Fields PROVE SE!Corrected(f) \in Int16
      <4>1. SE!Seen(m, f) \in Int16 /\ acc.offset[f] \in Int16
        BY <2>2, <2>3, WordsSeen DEF Words
      <4> QED
        BY <2>4, <4>1, ModuloSpan
    <3> QED
      BY <3>1 DEF Words
  <2>6. ASSUME acc.cal, NEW f \in SE!Fields PROVE raw[f] = SE!Seen(m, f)
    <3>1. acc.offset[f] = 0
      BY <1>1, <2>6 DEF SensorInv, OffsetTrue, SE!Zeros
    <3>2. SE!Seen(m, f) \in Int16
      BY <2>3, WordsSeen
    <3> QED
      BY <2>4, <3>1, <3>2, ModuloSpan
  <2>7. /\ g \in Seq(Nat) /\ \A i \in DOMAIN g : g[i] <= mpu.num
        /\ \A i, j \in DOMAIN g : i < j => g[i] < g[j]
    <3>1. \A i \in DOMAIN log.got : log.got[i] < mpu.num
      BY <1>1 DEF SensorInv, AccFresh
    <3>2. \A i, j \in DOMAIN log.got : i < j => log.got[i] < log.got[j]
      BY DEF SensorInv, SE!FreshOnce
    <3> QED
      BY <2>2, <3>1, <3>2, RisesOn
  <2> HIDE DEF raw, g
  <2>8. mpu' \in MpuType /\ mpu'.ready = FALSE /\ mpu'.num = mpu.num
    <3>1. mpu' = [mpu EXCEPT !.ready = FALSE] /\ mpu \in MpuType
      BY <1>2, <2>1
    <3> QED
      BY <3>1 DEF MpuType
  <2>9. o \in Words /\ r \in Measurements
    <3>1. 0 \in Int16
      BY IntsOf16
    <3>2. none \in Words
      BY <2>5, <3>1 DEF Words
    <3> QED
      BY <2>2, <2>3, <3>2
  <2>10. OffsetsOf(o, r)
    <3>1. CASE acc.cal
      <4>1. ASSUME NEW f \in SE!Fields PROVE none[f] = IF f = SE!Temp THEN 0 ELSE SE!Seen(m, f)
        BY <2>5, <2>6, <3>1, <4>1 DEF Words
      <4> QED
        BY <3>1, <4>1 DEF OffsetsOf
    <3>2. CASE ~acc.cal
      BY <3>2 DEF SensorInv, OffsetTrue
    <3> QED
      BY <3>1, <3>2
  <2>11. acc' = [acc EXCEPT !.pc = "idle", !.res = "SUCCESS", !.raw = raw, !.offset = o]
    BY <1>2, <2>1 DEF SE!Returned, AccType
  <2>12. ASSUME NEW f \in SE!Fields \ {SE!Temp}
         PROVE  /\ o[f] = SE!Seen(r, f)
                /\ raw[f] = IF acc.cal THEN SE!Seen(m, f)
                            ELSE (SE!Seen(m, f) + SE!Span - SE!Seen(r, f)) % SE!Span
    <3>1. o[f] = SE!Seen(r, f)
      BY <2>10 DEF OffsetsOf
    <3>2. CASE acc.cal
      BY <2>6, <3>1, <3>2
    <3>3. CASE ~acc.cal
      <4>1. acc.offset[f] = SE!Seen(r, f)
        BY <3>1, <3>3
      <4> QED
        BY <2>4, <3>1, <3>3, <4>1
    <3> QED
      BY <3>2, <3>3
  <2> HIDE DEF o, r
  <2>13. /\ acc' \in AccType /\ acc'.pc = "idle" /\ acc'.res = "SUCCESS" /\ acc'.raw = raw /\ acc'.offset = o
         /\ acc'.cal = acc.cal
    BY <1>2, <2>5, <2>9, <2>11 DEF AccType
  <2>14. /\ log' \in LogType /\ log'.valid = log.valid /\ log'.got = g /\ log'.last = m /\ log'.rest = r
    BY <1>2, <2>1, <2>3, <2>7, <2>9 DEF LogType
  <2>15. AccFresh' /\ SE!FreshOnce'
    BY <2>7, <2>8, <2>13, <2>14 DEF AccFresh, SE!FreshOnce
  <2>16. OffsetTrue'
    BY <2>10, <2>13, <2>14 DEF OffsetTrue, OffsetsOf
  <2>17. SE!ZeroExact'
    BY <2>12, <2>13, <2>14 DEF SE!ZeroExact
  <2>18. AccPart'
    BY <2>8, <2>13, <2>15, <2>16, <2>17 DEF AccPart
  <2> QED
    BY <1>1, <2>14, <2>18, AccStep
<1> QED
  BY <1>3, <1>4

LEMMA SensorSteps == ASSUME SensorInv, SE!Next PROVE SensorInv'
<1>1. CASE SE!Enough
  BY <1>1 DEF SE!Enough, SE!vars, SensorInv, SensorTypes, GestureRead, AccFresh, OffsetTrue,
              SE!GestureOfEnds, SE!FreshOnce, SE!ZeroExact
<1>2. CASE \E b \in BOOLEAN : SE!GestureEmpty(b) \/ SE!WaitIrq(b) \/ SE!AccStart(b)
  BY <1>2, SensorGestureEmpty, SensorWaitIrq, SensorAccStart
<1>3. CASE \E e \in 0..2 : SE!ReadReady(e) \/ SE!ReadAcc(e)
  BY <1>3, SensorReadReady, SensorReadAcc
<1> QED
  BY <1>1, <1>2, <1>3, SensorGesture, SensorGestureStart, SensorReadStatus, SensorReadLevel, SensorReadFifo,
     SensorGestureEnd, SensorMeasure
  DEF SE!Next

\* Shares of valid samples are numbers: no division by zero.
LEMMA SharesAreNumbers ==
  ASSUME NEW s \in Samples, SE!validate_gest_data(s)
  PROVE  SE!Share(s.up, s.down) \in Int /\ SE!Share(s.left, s.right) \in Int
<1>1. \A a, b \in 0..255 : a > 10 /\ b > 10 => SE!Share(a, b) \in Int
  <2> SUFFICES ASSUME NEW a \in 0..255, NEW b \in 0..255, a > 10, b > 10 PROVE SE!Share(a, b) \in Int
    OBVIOUS
  <2> DEFINE n == (a - b) * 100
             d == a + b
  <2>1. n \in Int /\ d \in Nat /\ d > 0
    OBVIOUS
  <2>2. SE!Share(a, b) = IF n < 0 THEN -((-n) \div d) ELSE n \div d
    BY DEF SE!Share
  <2> HIDE DEF n, d
  <2>3. (-n) \div d \in Int /\ n \div d \in Int
    BY <2>1
  <2> QED
    BY <2>2, <2>3
<1>2. /\ s.up \in 0..255 /\ s.down \in 0..255 /\ s.left \in 0..255 /\ s.right \in 0..255
      /\ s.up > 10 /\ s.down > 10 /\ s.left > 10 /\ s.right > 10
  BY SensorParameters DEF SE!validate_gest_data
<1> QED
  BY <1>1, <1>2

LEMMA AxisLemma == ASSUME SensorInv PROVE SE!OneAxisOnly
<1> DEFINE v == log.valid
           first == v[1]
           last == v[Len(v)]
           ud == SE!MoveUd(first, last)
           lr == SE!MoveLr(first, last)
<1> SUFFICES ASSUME gest.pc = "idle", gest.res \in SE!Dirs
             PROVE  CASE gest.res = "DIR_UP" -> ud > 10 [] gest.res = "DIR_LEFT" -> lr > 10
                      [] OTHER -> ud < -10 /\ lr < -10
  BY DEF SE!OneAxisOnly
<1>1. gest.res # "none"
  BY DEF SE!Dirs
<1>2. Len(v) > 1 /\ gest.res = SE!proccess_gesture(first, last)
  BY <1>1 DEF SensorInv, SE!GestureOfEnds
<1>3. v \in Seq(Samples) /\ \A i \in DOMAIN v : SE!validate_gest_data(v[i])
  BY DEF SensorInv, GestureRead, AllValid
<1>4. 1 \in DOMAIN v /\ Len(v) \in DOMAIN v /\ first \in Samples /\ last \in Samples
  BY <1>2, <1>3
<1>5. SE!validate_gest_data(first) /\ SE!validate_gest_data(last)
  BY <1>3, <1>4
<1> HIDE DEF v, first, last
<1>6. ud \in Int /\ lr \in Int
  BY <1>4, <1>5, SharesAreNumbers DEF SE!MoveUd, SE!MoveLr
<1>7. gest.res = CASE ud > lr /\ ud > 10 -> "DIR_UP"
                   [] ud > lr /\ ud < -10 -> "DIR_DOWN"
                   [] ud < lr /\ lr > 10 -> "DIR_LEFT"
                   [] ud < lr /\ lr < -10 -> "DIR_RIGHT"
                   [] OTHER -> "ERR_DATA_INVALID"
  BY <1>2, Zenon DEF SE!proccess_gesture
<1> HIDE DEF ud, lr
<1> QED
  BY <1>6, <1>7 DEF SE!Dirs

LEMMA SensorsKeep == Spec => [](part = "sensors" => SensorInv)
<1> DEFINE I == part = "sensors" => SensorInv
<1>1. Init => I
  BY SensorsBegin DEF Init
<1>2. I /\ [Next]_vars => I'
  <2> SUFFICES ASSUME I, [Next]_vars PROVE I'
    OBVIOUS
  <2>1. CASE SensorsStep
    <3>1. part = "sensors" /\ SE!Next
      BY <2>1 DEF SensorsStep, Others
    <3> QED
      BY <3>1, SensorSteps
  <2>2. CASE ~SensorsStep
    <3>1. part' = part /\ (part = "sensors" => UNCHANGED sensorVars)
      BY <2>2 DEF Next, Others, RadioStep, MachineStep, RfidStep, I2CStep, OneWireStep, ClockStep, PinsStep, FrameStep, vars
    <3> QED
      BY <3>1 DEF sensorVars, SensorInv, SensorTypes, GestureRead, AccFresh, OffsetTrue,
              SE!GestureOfEnds, SE!FreshOnce, SE!ZeroExact
  <2> QED
    BY <2>1, <2>2
<1> QED
  BY <1>1, <1>2, PTL DEF Spec

\* Gestures and accelerations come from the samples of their own call, each used once,
\* for every sample, every FIFO and every order of measurements, calls and bus errors.
\* The words of an acceleration are one byte off the measured ones (Seen), because the
\* burst begins at the status register; they are corrected by those of the calibration.
THEOREM SensorsReadTrue == Spec => []SensorsTrue
<1>1. (part = "sensors" => SensorInv) => SensorsTrue
  BY AxisLemma DEF SensorInv, SensorsTrue, GestureOfEnds, OneAxisOnly, FreshOnce, ZeroExact
<1> QED
  BY <1>1, SensorsKeep, PTL

-----------------------------------------------------------------------------
(***************************************************************************)
(* Clocks and delays.                                                      *)
(***************************************************************************)
RatesType == [cpu : Nat, ahb : Nat, apb : Nat]
PllType == [on : BOOLEAN, hse : BOOLEAN, mul : 0..14]
RccType == [crystal : Nat, sws : {"HSI", "HSE", "PLL"}, hpre : {0, 8, 12}, ppre : {0, 4}, pll : PllType]
ClkType == [source : {"HSI", "HSE", "PLL"}, hse : Nat, rates : RatesType, object : RatesType]
TickedType == [ops : Nat, last : {"none", "Run", "EnablePLL", "Update", "DelayUs"}, switched : BOOLEAN, frozen : BOOLEAN,
               us : Nat, ticks : Nat]

\* A frequency in whole MHz.
Whole(f) == \E m \in Nat : f = 1000 * m

ClockTypes ==
  /\ rcc \in RccType /\ clk \in ClkType /\ ticked \in TickedType
  /\ ticked.ops <= MaxOps
  /\ Whole(rcc.crystal) /\ Whole(clk.hse) /\ Whole(clk.rates.cpu)

\* What the software knows of the clock tree: the source that runs, and the crystal
\* as soon as something runs from it.
TreeKnown ==
  /\ clk.source = rcc.sws
  /\ rcc.sws = "HSE" \/ rcc.pll.hse => clk.hse = rcc.crystal
  /\ rcc.sws = "PLL" => rcc.pll.on
  /\ rcc.pll.hse => rcc.pll.on
  /\ ~ticked.switched => rcc.sws = "PLL" \/ ~rcc.pll.on

ClockInv == ClockTypes /\ TreeKnown /\ CK!UpdateTrue /\ CK!StoredTrue /\ CK!DelayLong

LEMMA ClockFields == ASSUME ClockTypes
  PROVE  /\ rcc \in RccType /\ clk \in ClkType /\ ticked \in TickedType
         /\ rcc.crystal \in Nat /\ rcc.sws \in {"HSI", "HSE", "PLL"} /\ rcc.hpre \in {0, 8, 12} /\ rcc.ppre \in {0, 4}
         /\ rcc.pll \in PllType /\ rcc.pll.on \in BOOLEAN /\ rcc.pll.hse \in BOOLEAN /\ rcc.pll.mul \in 0..14
         /\ clk.source \in {"HSI", "HSE", "PLL"} /\ clk.hse \in Nat /\ clk.rates \in RatesType /\ clk.object \in RatesType
         /\ clk.rates.cpu \in Nat /\ ticked.ops \in Nat /\ ticked.switched \in BOOLEAN /\ ticked.frozen \in BOOLEAN
         /\ ticked.us \in Nat /\ ticked.ticks \in Nat
BY DEF ClockTypes, RccType, PllType, ClkType, RatesType, TickedType

LEMMA ClockParameters ==
  /\ MaxOps \in Nat /\ Mults \subseteq Nat /\ Micros \subseteq Nat /\ Crystals \subseteq Nat
  /\ \A f \in Crystals : Whole(f)
<1>1. \A f \in Crystals : f \in Nat /\ f % 1000 = 0
  BY DevicesAssumption DEF CK!Parameters
<1>2. ASSUME NEW f \in Nat, f % 1000 = 0 PROVE Whole(f)
  <2>1. f = 1000 * (f \div 1000) /\ f \div 1000 \in Nat
    BY <1>2
  <2> QED
    BY <2>1 DEF Whole
<1> QED
  BY <1>1, <1>2, DevicesAssumption DEF CK!Parameters

LEMMA WholeTimes == ASSUME NEW f \in Nat, Whole(f), NEW n \in Nat PROVE Whole(f * n) /\ f * n \in Nat
<1>1. PICK m \in Nat : f = 1000 * m
  BY DEF Whole
<1>2. f * n = 1000 * (m * n) /\ m * n \in Nat
  BY <1>1
<1> QED
  BY <1>2 DEF Whole

LEMMA Divided == ASSUME NEW f \in Nat, NEW k \in Nat, k > 0 PROVE f \div k \in Nat /\ f \div k <= f
OBVIOUS

\* The dividers of the buses.
LEMMA Dividers ==
  ASSUME ClockTypes
  PROVE  CK!ahb_mult \in Nat /\ CK!ahb_mult > 0 /\ CK!apb_mult \in Nat /\ CK!apb_mult > 0
<1>1. 2^1 = 2 /\ 2^5 = 32
  OBVIOUS
<1>2. rcc.hpre = 0 \/ rcc.hpre = 8 \/ rcc.hpre = 12
  BY ClockFields
<1>3. rcc.ppre = 0 \/ rcc.ppre = 4
  BY ClockFields
<1>4. CK!ahb_mult \in {1, 2, 32}
  <2>1. CASE rcc.hpre = 0
    BY <2>1 DEF CK!ahb_mult
  <2>2. CASE rcc.hpre = 8
    <3>1. rcc.hpre - 7 = 1 /\ ~(rcc.hpre < 8)
      BY <2>2
    <3> QED
      BY <1>1, <3>1 DEF CK!ahb_mult
  <2>3. CASE rcc.hpre = 12
    <3>1. rcc.hpre - 7 = 5 /\ ~(rcc.hpre < 8)
      BY <2>3
    <3> QED
      BY <1>1, <3>1 DEF CK!ahb_mult
  <2> QED
    BY <1>2, <2>1, <2>2, <2>3
<1>5. CK!apb_mult \in {1, 2}
  <2>1. CASE rcc.ppre = 0
    BY <2>1 DEF CK!apb_mult
  <2>2. CASE rcc.ppre = 4
    <3>1. rcc.ppre - 3 = 1 /\ ~(rcc.ppre < 4)
      BY <2>2
    <3> QED
      BY <1>1, <3>1 DEF CK!apb_mult
  <2> QED
    BY <1>3, <2>1, <2>2
<1> QED
  BY <1>4, <1>5

LEMMA RatesTyped == ASSUME ClockTypes, NEW f \in Nat
  PROVE  CK!Rates(f) \in RatesType /\ CK!Rates(f).cpu = f /\ CK!Rates(f).ahb = f \div CK!ahb_mult
<1> DEFINE a == f \div CK!ahb_mult
           b == a \div CK!apb_mult
<1>1. a \in Nat
  BY Dividers, Divided
<1> HIDE DEF a
<1>2. b \in Nat
  BY <1>1, Dividers, Divided
<1> HIDE DEF b
<1>3. CK!Rates(f) = [cpu |-> f, ahb |-> a, apb |-> b]
  BY DEF CK!Rates, a, b
<1>4. CK!Rates(f) \in RatesType /\ CK!Rates(f).cpu = f /\ CK!Rates(f).ahb = a
  BY <1>1, <1>2, <1>3 DEF RatesType
<1> QED
  BY <1>4 DEF a

\* What the chip runs at.
LEMMA CpuNumber == ASSUME ClockTypes PROVE CK!Cpu \in Nat /\ CK!Ahb \in Nat /\ CK!Ahb <= CK!Cpu
<1>1. CK!Cpu \in Nat
  <2>1. CASE rcc.sws = "HSI"
    BY <2>1 DEF CK!Cpu
  <2>2. CASE rcc.sws = "HSE"
    BY <2>2, ClockFields DEF CK!Cpu
  <2>3. CASE rcc.sws = "PLL"
    <3> DEFINE f == IF rcc.pll.hse THEN rcc.crystal ELSE 4000
               n == rcc.pll.mul + 2
    <3>1. f \in Nat /\ n \in Nat
      BY ClockFields
    <3>2. CK!Cpu = f * n
      BY <2>3 DEF CK!Cpu
    <3> HIDE DEF f, n
    <3> QED
      BY <3>1, <3>2
  <2> QED
    BY <2>1, <2>2, <2>3, ClockFields
<1>2. PICK k \in {1, 2, 64} : CK!Ahb = CK!Cpu \div k
  <2>1. 2^1 = 2 /\ 2^6 = 64
    OBVIOUS
  <2>2. rcc.hpre = 0 \/ rcc.hpre = 8 \/ rcc.hpre = 12
    BY ClockFields
  <2>3. CASE rcc.hpre = 0
    BY <2>3 DEF CK!Ahb
  <2>4. CASE rcc.hpre = 8
    <3>1. rcc.hpre - 7 = 1 /\ ~(rcc.hpre < 8) /\ rcc.hpre < 12
      BY <2>4
    <3> QED
      BY <2>1, <3>1 DEF CK!Ahb
  <2>5. CASE rcc.hpre = 12
    <3>1. rcc.hpre - 6 = 6 /\ ~(rcc.hpre < 8) /\ ~(rcc.hpre < 12)
      BY <2>5
    <3> QED
      BY <2>1, <3>1 DEF CK!Ahb
  <2> QED
    BY <2>2, <2>3, <2>4, <2>5
<1>3. k \in Nat /\ k > 0
  OBVIOUS
<1> QED
  BY <1>1, <1>2, <1>3, Divided

LEMMA ClockBegins == ASSUME CK!Init PROVE ClockInv
<1> DEFINE no == FALSE
           zero == 0
           first == 8000
           p == [on |-> no, hse |-> no, mul |-> zero]
           rr == [cpu |-> first, ahb |-> first, apb |-> first]
<1>1. no \in BOOLEAN /\ ~no /\ zero \in Nat /\ zero \in 0..14 /\ first \in Nat /\ zero = 0 /\ zero <= MaxOps
  BY ClockParameters
<1>2. Whole(first)
  <2>1. first = 1000 * 8 /\ 8 \in Nat
    OBVIOUS
  <2> QED
    BY <2>1 DEF Whole
<1>3. /\ rcc \in [crystal : Crystals, sws : {"HSI"}, hpre : {0, 8, 12}, ppre : {0, 4}, pll : {p}]
      /\ clk = [source |-> "HSI", hse |-> first, rates |-> rr, object |-> rr]
      /\ ticked = [ops |-> zero, last |-> "none", switched |-> no, frozen |-> no, us |-> zero, ticks |-> zero]
  BY DEF CK!Init, CK!Reset, CK!HSI_CLOCK_FREQ, CK!HSE_DEFAULT_CLOCK_FREQ
<1> HIDE DEF no, zero, first
<1>4. p \in PllType /\ ~p.on /\ ~p.hse
  BY <1>1 DEF PllType
<1>5. rr \in RatesType /\ rr.cpu = first
  BY <1>1 DEF RatesType
<1> HIDE DEF p, rr
<1>6. rcc \in RccType /\ rcc.crystal \in Crystals /\ rcc.sws = "HSI" /\ rcc.pll = p
  BY <1>3, <1>4, ClockParameters DEF RccType
<1>7. clk \in ClkType /\ clk.source = "HSI" /\ clk.hse = first /\ clk.rates = rr
  BY <1>1, <1>3, <1>5 DEF ClkType
<1>8. ticked \in TickedType /\ ticked.last = "none" /\ ticked.ops = zero
  BY <1>1, <1>3 DEF TickedType
<1>9. ClockTypes
  BY <1>1, <1>2, <1>5, <1>6, <1>7, <1>8, ClockParameters DEF ClockTypes
<1>10. TreeKnown
  BY <1>4, <1>6, <1>7 DEF TreeKnown
<1>11. CK!UpdateTrue /\ CK!StoredTrue /\ CK!DelayLong
  BY <1>4, <1>6, <1>8 DEF CK!UpdateTrue, CK!StoredTrue, CK!DelayLong
<1> QED
  BY <1>9, <1>10, <1>11 DEF ClockInv

\* The history of a call.
LEMMA CallRecorded ==
  ASSUME ClockTypes, CK!Calls, NEW op \in {"Run", "EnablePLL", "Update", "DelayUs"}
  PROVE  /\ CK!Called(op) \in TickedType /\ CK!Called(op).last = op /\ CK!Called(op).ops <= MaxOps
         /\ CK!Called(op).switched = ticked.switched /\ CK!Called(op).frozen = ticked.frozen
<1> DEFINE n == ticked.ops + 1
<1>1. n \in Nat /\ n <= MaxOps
  BY ClockFields, ClockParameters DEF CK!Calls
<1>2. CK!Called(op) = [ticked EXCEPT !.ops = n, !.last = op]
  BY DEF CK!Called
<1> HIDE DEF n
<1> QED
  BY <1>1, <1>2, ClockFields DEF TickedType

LEMMA ClockRun == ASSUME ClockInv, CK!RunFromHSI \/ CK!RunFromHSE PROVE ClockInv'
<1> DEFINE yes == TRUE
<1>0. ClockTypes /\ TreeKnown /\ yes \in BOOLEAN /\ yes
  BY DEF ClockInv
<1>1. CK!Calls /\ ticked' = [CK!Called("Run") EXCEPT !.switched = yes]
  BY DEF CK!RunFromHSI, CK!RunFromHSE
<1> HIDE DEF yes
<1>2. ticked' \in TickedType /\ ticked'.last = "Run" /\ ticked'.ops <= MaxOps /\ ticked'.switched
  <2>1. CK!Called("Run") \in TickedType /\ CK!Called("Run").last = "Run" /\ CK!Called("Run").ops <= MaxOps
    BY <1>0, <1>1, CallRecorded
  <2> DEFINE c == CK!Called("Run")
  <2> HIDE DEF c
  <2>2. ticked' = [c EXCEPT !.switched = yes] /\ c \in TickedType /\ c.last = "Run" /\ c.ops <= MaxOps
    BY <1>1, <2>1 DEF c
  <2> QED
    BY <1>0, <2>2 DEF TickedType
<1>3. /\ rcc' \in RccType /\ rcc'.crystal = rcc.crystal /\ rcc'.pll = rcc.pll /\ rcc'.sws \in {"HSI", "HSE"}
      /\ clk' \in ClkType /\ clk'.rates = clk.rates /\ clk'.source = rcc'.sws
      /\ ((clk'.hse = clk.hse /\ rcc'.sws = "HSI") \/ clk'.hse = rcc.crystal)
  <2>1. CASE CK!RunFromHSI
    BY <1>0, <2>1, ClockFields DEF CK!RunFromHSI, RccType, ClkType
  <2>2. CASE CK!RunFromHSE
    BY <1>0, <2>2, ClockFields DEF CK!RunFromHSE, RccType, ClkType
  <2> QED
    BY <2>1, <2>2
<1>4. ClockTypes'
  BY <1>0, <1>2, <1>3 DEF ClockTypes
<1>5. TreeKnown'
  BY <1>0, <1>2, <1>3 DEF TreeKnown
<1>6. CK!UpdateTrue' /\ CK!StoredTrue' /\ CK!DelayLong'
  BY <1>2 DEF CK!UpdateTrue, CK!StoredTrue, CK!DelayLong
<1> QED
  BY <1>4, <1>5, <1>6 DEF ClockInv

LEMMA ClockUpdate == ASSUME ClockInv, CK!Update PROVE ClockInv'
<1> DEFINE src == IF rcc.pll.hse THEN clk.hse ELSE CK!HSI_CLOCK_FREQ \div 2
           f == IF rcc.sws = "HSI" THEN CK!HSI_CLOCK_FREQ
                ELSE IF rcc.sws = "HSE" THEN clk.hse
                ELSE src * CK!get_pll_mult(rcc.pll.mul)
           r == CK!Rates(f)
<1>0. ClockTypes /\ TreeKnown
  BY DEF ClockInv
<1>1. CK!Calls /\ clk' = [clk EXCEPT !.object = r] /\ ticked' = CK!Called("Update") /\ rcc' = rcc
  BY DEF CK!Update
<1>2. f \in Nat /\ (f = CK!Cpu \/ (rcc.sws = "PLL" /\ rcc.pll.mul < 2))
  <2>1. 8000 \div 2 = 4000
    OBVIOUS
  <2>2. src = (IF rcc.pll.hse THEN rcc.crystal ELSE 4000) /\ src \in Nat
    BY <1>0, <2>1, ClockFields DEF TreeKnown, CK!HSI_CLOCK_FREQ
  <2>3. CASE rcc.sws = "HSI"
    BY <2>3 DEF CK!Cpu, CK!HSI_CLOCK_FREQ
  <2>4. CASE rcc.sws = "HSE"
    BY <1>0, <2>4, ClockFields DEF CK!Cpu, TreeKnown
  <2>5. CASE rcc.sws = "PLL"
    <3> DEFINE g == CK!get_pll_mult(rcc.pll.mul)
    <3>1. g \in Nat /\ (rcc.pll.mul < 2 \/ g = rcc.pll.mul + 2)
      BY <1>0, ClockFields DEF CK!get_pll_mult
    <3>2. f = src * g
      BY <2>5
    <3>3. CK!Cpu = src * (rcc.pll.mul + 2)
      BY <2>2, <2>5 DEF CK!Cpu
    <3> HIDE DEF g, src, f
    <3> QED
      BY <2>2, <2>5, <3>1, <3>2, <3>3
  <2> QED
    BY <1>0, <2>3, <2>4, <2>5, ClockFields
<1> HIDE DEF f
<1>3. r \in RatesType /\ r.cpu = f /\ r.ahb = f \div CK!ahb_mult
  BY <1>0, <1>2, RatesTyped
<1> HIDE DEF r
<1>4. /\ clk' \in ClkType /\ clk'.rates = clk.rates /\ clk'.source = clk.source /\ clk'.hse = clk.hse /\ clk'.object = r
  BY <1>0, <1>1, <1>3, ClockFields DEF ClkType
<1>5. /\ ticked' \in TickedType /\ ticked'.last = "Update" /\ ticked'.ops <= MaxOps
      /\ ticked'.switched = ticked.switched /\ ticked'.frozen = ticked.frozen
  BY <1>0, <1>1, CallRecorded
<1>6. CK!Cpu' = CK!Cpu /\ CK!Ahb' = CK!Ahb
  BY <1>1 DEF CK!Cpu, CK!Ahb
<1>7. ClockTypes'
  BY <1>0, <1>1, <1>4, <1>5 DEF ClockTypes
<1>8. TreeKnown'
  BY <1>0, <1>1, <1>4, <1>5 DEF TreeKnown
<1>9. CK!UpdateTrue'
  <2>1. rcc.hpre < 12 => CK!Ahb = CK!Cpu \div CK!ahb_mult
    BY DEF CK!Ahb, CK!ahb_mult
  <2>2. clk'.object.cpu = f /\ clk'.object.ahb = f \div CK!ahb_mult
    BY <1>3, <1>4
  <2>3. clk'.object.cpu = CK!Cpu \/ (rcc.sws = "PLL" /\ rcc.pll.mul < 2)
    BY <1>2, <2>2
  <2>4. clk'.object.cpu = CK!Cpu /\ rcc.hpre < 12 => clk'.object.ahb = CK!Ahb
    BY <2>1, <2>2
  <2> QED
    BY <1>1, <1>6, <2>3, <2>4 DEF CK!UpdateTrue
<1>10. CK!StoredTrue' /\ CK!DelayLong'
  BY <1>1, <1>4, <1>5, <1>6 DEF ClockInv, CK!StoredTrue, CK!DelayLong
<1> QED
  BY <1>7, <1>8, <1>9, <1>10 DEF ClockInv

LEMMA ClockEnablePLL == ASSUME ClockInv, NEW m \in Mults, CK!EnablePLL(m) PROVE ClockInv'
<1>0. ClockTypes /\ TreeKnown /\ CK!Calls /\ m \in Nat
  BY ClockParameters DEF ClockInv, CK!EnablePLL
<1> DEFINE c == CK!Called("EnablePLL")
<1>1. /\ c \in TickedType /\ c.last = "EnablePLL" /\ c.ops <= MaxOps
      /\ c.switched = ticked.switched /\ c.frozen = ticked.frozen
  BY <1>0, CallRecorded
<1>2. CASE m \notin 2..16 \/ clk.source = "PLL"
  <2>1. rcc' = rcc /\ clk' = clk /\ ticked' = c
    BY <1>2 DEF CK!EnablePLL
  <2>2. CK!Cpu' = CK!Cpu
    BY <2>1 DEF CK!Cpu
  <2> HIDE DEF c
  <2>3. ClockTypes' /\ TreeKnown'
    BY <1>0, <1>1, <2>1 DEF ClockTypes, TreeKnown
  <2>4. CK!UpdateTrue' /\ CK!StoredTrue' /\ CK!DelayLong'
    BY <1>1, <2>1, <2>2 DEF ClockInv, CK!UpdateTrue, CK!StoredTrue, CK!DelayLong
  <2> QED
    BY <2>3, <2>4 DEF ClockInv
<1>3. CASE m \in 2..16 /\ clk.source # "PLL"
  <2> DEFINE yes == TRUE
             no == FALSE
             hse == rcc.pll.hse \/ clk.source = "HSE"
             mul == m - 2
             p == IF rcc.pll.on THEN rcc.pll ELSE [on |-> yes, hse |-> hse, mul |-> mul]
             f == clk.hse * m
             r == CK!Rates(f)
             z == ticked.frozen \/ rcc.pll.on
  <2>1. /\ rcc' = [rcc EXCEPT !.sws = "PLL", !.pll = p] /\ clk' = [clk EXCEPT !.source = "PLL", !.rates = r]
        /\ ticked' = [c EXCEPT !.switched = no, !.frozen = z]
    BY <1>1, <1>3 DEF CK!EnablePLL, CK!Multiplied
  <2>2. f \in Nat /\ Whole(f)
    BY <1>0, ClockFields, WholeTimes DEF ClockTypes
  <2>3. mul \in 0..14 /\ yes \in BOOLEAN /\ yes /\ no \in BOOLEAN /\ ~no /\ mul + 2 = m
    BY <1>3
  <2>4. hse \in BOOLEAN /\ z \in BOOLEAN
    BY <1>0, ClockFields
  <2>5. hse <=> rcc.pll.hse \/ rcc.sws = "HSE"
    BY <1>0 DEF TreeKnown
  <2>6. z <=> ticked.frozen \/ rcc.pll.on
    OBVIOUS
  <2> HIDE DEF f, yes, no, hse, mul, z, c
  <2>7. r \in RatesType /\ r.cpu = f
    BY <1>0, <2>2, RatesTyped
  <2>8. p \in PllType /\ p.on /\ (rcc.pll.on => p = rcc.pll) /\ (~rcc.pll.on => p.hse = hse /\ p.mul = mul)
    BY <1>0, <2>3, <2>4, ClockFields DEF PllType
  <2> HIDE DEF r, p
  <2>9. rcc' \in RccType /\ rcc'.sws = "PLL" /\ rcc'.pll = p /\ rcc'.crystal = rcc.crystal
    BY <1>0, <2>1, <2>8, ClockFields DEF RccType
  <2>10. clk' \in ClkType /\ clk'.source = "PLL" /\ clk'.rates = r /\ clk'.hse = clk.hse
    BY <1>0, <2>1, <2>7, ClockFields DEF ClkType
  <2>11. ticked' \in TickedType /\ ticked'.last = "EnablePLL" /\ ticked'.ops <= MaxOps /\ ticked'.frozen = z
    BY <1>1, <2>1, <2>3, <2>4 DEF TickedType
  <2>12. ClockTypes'
    BY <1>0, <2>2, <2>7, <2>9, <2>10, <2>11 DEF ClockTypes
  <2>13. p.hse => clk.hse = rcc.crystal
    BY <1>0, <2>5, <2>8 DEF TreeKnown
  <2>14. TreeKnown'
    BY <2>8, <2>9, <2>10, <2>13 DEF TreeKnown
  <2>15. CK!StoredTrue'
    <3> SUFFICES ASSUME ~z, p.hse PROVE clk'.rates.cpu = CK!Cpu'
      BY <2>9, <2>11 DEF CK!StoredTrue
    <3>1. CK!Cpu' = rcc.crystal * (p.mul + 2)
      BY <2>9 DEF CK!Cpu
    <3>2. p.mul + 2 = m
      BY <2>3, <2>6, <2>8
    <3>3. f = rcc.crystal * m
      BY <2>13 DEF f
    <3> QED
      BY <2>7, <2>10, <3>1, <3>2, <3>3
  <2>16. CK!UpdateTrue' /\ CK!DelayLong'
    BY <2>11 DEF CK!UpdateTrue, CK!DelayLong
  <2> QED
    BY <2>12, <2>14, <2>15, <2>16 DEF ClockInv
<1> QED
  BY <1>2, <1>3

\* Below the overflow, DelayUs waits the time it is asked for at the stored frequency.
LEMMA TicksExact ==
  ASSUME NEW f \in Nat, Whole(f), NEW us \in Nat, us * (f \div 1000) < 4295
  PROVE  (((us * (f \div 1000) * 15625) % 2^26) \div 15625) * 1000 = us * f
<1>1. PICK m \in Nat : f = 1000 * m
  BY DEF Whole
<1>2. f \div 1000 = m
  BY <1>1
<1> DEFINE x == us * m
<1>3. x \in Nat /\ x < 4295 /\ us * (f \div 1000) = x
  BY <1>1, <1>2
<1>4. x * 1000 = us * f
  BY <1>1
<1> HIDE DEF x
<1> DEFINE y == x * 15625
<1>5. 2^26 = 67108864
  OBVIOUS
<1>6. y \in Nat /\ y < 2^26 /\ 2^26 \in Nat
  BY <1>3, <1>5, SMT
<1>7. y % 2^26 = y
  <2> DEFINE p == 2^26
  <2>1. y \in Nat /\ p \in Nat /\ y < p
    BY <1>6, SMT
  <2> HIDE DEF y, p
  <2>2. y % p = y
    BY <2>1, SMT
  <2> QED
    BY <2>2, SMT DEF p
<1>8. y \div 15625 = x
  BY <1>3, SMT
<1>9. (y % 2^26) \div 15625 = x
  BY <1>7, <1>8, SMT
<1> QED
  BY <1>3, <1>4, <1>9, SMT

LEMMA ClockDelayUs == ASSUME ClockInv, NEW us \in Micros, CK!DelayUs(us) PROVE ClockInv'
<1> DEFINE c == CK!Called("DelayUs")
           t == CK!Ticks(us)
           f == clk.rates.cpu
           n == us * (f \div 1000) * 15625
<1>0. ClockTypes /\ TreeKnown /\ CK!Calls /\ us \in Nat /\ f \in Nat /\ Whole(f)
  BY ClockParameters, ClockFields DEF ClockInv, CK!DelayUs, ClockTypes
<1>1. ticked' = [c EXCEPT !.us = us, !.ticks = t] /\ rcc' = rcc /\ clk' = clk
  BY DEF CK!DelayUs
<1>2. /\ c \in TickedType /\ c.last = "DelayUs" /\ c.ops <= MaxOps
      /\ c.switched = ticked.switched /\ c.frozen = ticked.frozen
  BY <1>0, CallRecorded
<1>3. t \in Nat
  <2>1. n \in Nat
    <3>1. f \div 1000 \in Nat
      BY <1>0
    <3> QED
      BY <1>0, <3>1
  <2>2. t = (n % 2^26) \div 15625
    BY DEF CK!Ticks
  <2> HIDE DEF n
  <2>3. 2^26 = 67108864
    OBVIOUS
  <2>4. n % 2^26 \in Nat
    BY <2>1, <2>3
  <2> QED
    BY <2>2, <2>4, Divided
<1>4. us * (f \div 1000) < 4295 => t * 1000 = us * f
  <2> SUFFICES ASSUME us * (f \div 1000) < 4295 PROVE t * 1000 = us * f
    OBVIOUS
  <2>1. (((us * (f \div 1000) * 15625) % 2^26) \div 15625) * 1000 = us * f
    <3> HIDE DEF f
    <3> QED
      BY <1>0, TicksExact
  <2> QED
    BY <2>1 DEF CK!Ticks
<1> HIDE DEF c, t
<1>5. /\ ticked' \in TickedType /\ ticked'.last = "DelayUs" /\ ticked'.ops <= MaxOps /\ ticked'.us = us /\ ticked'.ticks = t
      /\ ticked'.switched = ticked.switched /\ ticked'.frozen = ticked.frozen
  BY <1>0, <1>1, <1>2, <1>3 DEF TickedType
<1>6. CK!Cpu' = CK!Cpu /\ CK!Ahb' = CK!Ahb
  BY <1>1 DEF CK!Cpu, CK!Ahb
<1>7. ClockTypes' /\ TreeKnown'
  BY <1>0, <1>1, <1>5 DEF ClockTypes, TreeKnown
<1>8. CK!UpdateTrue' /\ CK!StoredTrue'
  BY <1>1, <1>5, <1>6 DEF ClockInv, CK!UpdateTrue, CK!StoredTrue
<1>9. CK!DelayLong'
  <2> SUFFICES ASSUME ~(f < CK!Cpu), ~(us * (f \div 1000) >= 4295) PROVE ~(t * 1000 < us * CK!Ahb)
    BY <1>1, <1>5, <1>6 DEF CK!DelayLong
  <2> DEFINE q == CK!Cpu
             a == CK!Ahb
             w == us * (f \div 1000)
  <2>1. q \in Nat /\ a \in Nat /\ a <= q
    BY <1>0, CpuNumber
  <2>2. w \in Nat
    <3>1. f \div 1000 \in Nat
      BY <1>0
    <3> QED
      BY <1>0, <3>1
  <2>3. w < 4295
    <3> HIDE DEF w
    <3> QED
      BY <2>2 DEF w
  <2>4. t * 1000 = us * f
    BY <1>4, <2>3
  <2> HIDE DEF q, a, w, f
  <2>5. a <= f
    BY <1>0, <2>1 DEF q
  <2>6. us * a <= us * f /\ us * a \in Nat /\ us * f \in Nat
    BY <1>0, <2>1, <2>5
  <2>7. ~(us * f < us * a)
    BY <2>6
  <2> QED
    BY <2>4, <2>7 DEF a
<1> QED
  BY <1>7, <1>8, <1>9 DEF ClockInv

LEMMA ClockUnchanged == ASSUME ClockInv, UNCHANGED clockVars PROVE ClockInv'
BY DEF clockVars, ClockInv, ClockTypes, TreeKnown, CK!UpdateTrue, CK!StoredTrue, CK!DelayLong, CK!Cpu, CK!Ahb

LEMMA ClockSteps == ASSUME ClockInv, CK!Next PROVE ClockInv'
<1>1. CASE CK!Enough
  BY <1>1, ClockUnchanged DEF CK!Enough, CK!vars, clockVars
<1> QED
  BY <1>1, ClockRun, ClockUpdate, ClockEnablePLL, ClockDelayUs DEF CK!Next

-----------------------------------------------------------------------------
(***************************************************************************)
(* Pins.                                                                   *)
(***************************************************************************)
SocType == [fsel : [Used -> 0..7], high : SUBSET PN!All]
WantType == [calls : Nat, func : [Used -> 0..7], cleared : SUBSET Used, level : [Used -> BOOLEAN]]

\* Among the first 32 pins those that were set are high, and no other.
LowPins(high, level) == \A n \in PN!First32 : n \in high <=> n \in Used /\ level[n]

PinsInv == soc \in SocType /\ want \in WantType /\ PN!FunctionGiven /\ LowPins(soc.high, want.level)

LEMMA PinParameters == Used \subseteq 0..53 /\ Funcs \subseteq 0..7
BY DevicesAssumption DEF PN!Parameters, PN!Last

LEMMA Bits == ASSUME NEW x \in 0..7
  PROVE  /\ PN!Bit(x, 0) = x % 2 /\ PN!Bit(x, 1) = (x \div 2) % 2 /\ PN!Bit(x, 2) = (x \div 4) % 2
<1>1. 2^0 = 1 /\ 2^1 = 2 /\ 2^2 = 4
  OBVIOUS
<1>2. PN!Bit(x, 0) = (x \div 1) % 2 /\ PN!Bit(x, 1) = (x \div 2) % 2 /\ PN!Bit(x, 2) = (x \div 4) % 2
  BY <1>1 DEF PN!Bit
<1>3. x \div 1 = x
  OBVIOUS
<1> QED
  BY <1>2, <1>3

\* A function that is or'ed to a cleared field is the function itself.
LEMMA OrOfField == ASSUME NEW a \in 0..7, NEW b \in 0..7
  PROVE  PN!Or(a, b) \in 0..7 /\ (a = 0 => PN!Or(a, b) = b)
<1> DEFINE or(k) == IF PN!Bit(a, k) + PN!Bit(b, k) > 0 THEN 2^k ELSE 0
<1>1. PN!Or(a, b) = or(0) + or(1) + or(2)
  BY DEF PN!Or
<1>2. 2^0 = 1 /\ 2^1 = 2 /\ 2^2 = 4
  OBVIOUS
<1>3. or(0) \in {0, 1} /\ or(1) \in {0, 2} /\ or(2) \in {0, 4}
  BY <1>2
<1>4. ASSUME a = 0 PROVE or(0) + or(1) + or(2) = b
  <2>1. PN!Bit(a, 0) = 0 /\ PN!Bit(a, 1) = 0 /\ PN!Bit(a, 2) = 0
    BY <1>4, Bits
  <2>2. PN!Bit(b, 0) = b % 2 /\ PN!Bit(b, 1) = (b \div 2) % 2 /\ PN!Bit(b, 2) = (b \div 4) % 2
    BY Bits
  <2>3. /\ or(0) = (IF b % 2 > 0 THEN 1 ELSE 0)
        /\ or(1) = (IF (b \div 2) % 2 > 0 THEN 2 ELSE 0)
        /\ or(2) = (IF (b \div 4) % 2 > 0 THEN 4 ELSE 0)
    BY <1>2, <2>1, <2>2
  <2> HIDE DEF or
  <2> QED
    BY <2>3
<1> HIDE DEF or
<1>5. or(0) + or(1) + or(2) \in 0..7
  BY <1>3
<1> QED
  BY <1>1, <1>4, <1>5

\* A pin writes its own bit in the first register, and none of that register from 32 on.
LEMMA BitOfPin == ASSUME NEW n \in Used
  PROVE  /\ PN!RegisterBit(n) \in PN!All
         /\ n \in PN!First32 => PN!RegisterBit(n) = n
         /\ n \notin PN!First32 => PN!RegisterBit(n) \notin PN!First32
<1>1. n \in 0..53
  BY PinParameters
<1> QED
  BY <1>1 DEF PN!RegisterBit, PN!All, PN!Last, PN!First32

LEMMA PinsBegin == ASSUME PN!Init PROVE PinsInv
<1> DEFINE no == FALSE
           zero == 0
           none == [p \in Used |-> zero]
           low == [p \in Used |-> no]
<1>1. no \in BOOLEAN /\ ~no /\ zero \in Nat /\ zero \in 0..7
  OBVIOUS
<1>2. soc = [fsel |-> none, high |-> {}] /\ want = [calls |-> zero, func |-> none, cleared |-> {}, level |-> low]
  BY DEF PN!Init
<1> HIDE DEF no, zero
<1>3. none \in [Used -> 0..7] /\ low \in [Used -> BOOLEAN] /\ \A n \in Used : ~low[n]
  BY <1>1
<1> HIDE DEF none, low
<1>4. soc \in SocType /\ want \in WantType
  BY <1>1, <1>2, <1>3 DEF SocType, WantType
<1>5. PN!FunctionGiven
  BY <1>2 DEF PN!FunctionGiven, PN!gpio_func
<1>6. LowPins(soc.high, want.level)
  BY <1>2, <1>3 DEF LowPins
<1> QED
  BY <1>4, <1>5, <1>6 DEF PinsInv

LEMMA PinFields == ASSUME PinsInv
  PROVE  /\ soc.fsel \in [Used -> 0..7] /\ soc.high \in SUBSET PN!All
         /\ want.calls \in Nat /\ want.func \in [Used -> 0..7] /\ want.cleared \in SUBSET Used
         /\ want.level \in [Used -> BOOLEAN]
BY DEF PinsInv, SocType, WantType

LEMMA PinInit == ASSUME PinsInv, NEW n \in Used, NEW func \in Funcs, PN!gpio_init(n, func) PROVE PinsInv'
<1> DEFINE new == [p \in Used |-> IF p \div 10 # n \div 10 THEN soc.fsel[p]
                                  ELSE IF p = n THEN PN!Or(PN!Kept(n, p), func) ELSE PN!Kept(n, p)]
           calls == want.calls + 1
           given == [want.func EXCEPT ![n] = func]
           lost == {p \in want.cleared : p # n} \cup {p \in Used : p # n /\ p \div 10 = n \div 10}
                     \cup (IF soc.fsel[n] # 0 THEN {n} ELSE {})
<1>1. soc' = [soc EXCEPT !.fsel = new] /\ want' = [want EXCEPT !.calls = calls, !.func = given, !.cleared = lost]
  BY DEF PN!gpio_init
<1>2. func \in 0..7 /\ soc.fsel[n] \in 0..7
  BY PinParameters, PinFields
<1>3. \A p \in Used : PN!Kept(n, p) \in 0..7
  BY PinFields DEF PN!Kept
<1>4. \A p \in Used : PN!Or(PN!Kept(n, p), func) \in 0..7
  BY <1>2, <1>3, OrOfField
<1>5. new \in [Used -> 0..7]
  BY <1>3, <1>4, PinFields
<1>6. calls \in Nat /\ given \in [Used -> 0..7] /\ lost \in SUBSET Used
  BY <1>2, PinFields
<1>7. \A q \in Used : new[q] = given[q] \/ q \in lost
  <2> SUFFICES ASSUME NEW q \in Used, q \notin lost PROVE new[q] = given[q]
    OBVIOUS
  <2>1. CASE q = n
    <3>1. soc.fsel[n] = 0
      BY <2>1
    <3>2. PN!Kept(n, n) = 0
      BY <3>1 DEF PN!Kept
    <3>3. PN!Or(PN!Kept(n, n), func) = func
      BY <1>2, <3>2, OrOfField
    <3> QED
      BY <2>1, <3>3, PinFields
  <2>2. CASE q # n
    <3>1. q \div 10 # n \div 10 /\ q \notin want.cleared
      BY <2>2
    <3>2. soc.fsel[q] = want.func[q]
      BY <3>1 DEF PinsInv, PN!FunctionGiven, PN!gpio_func
    <3> QED
      BY <2>2, <3>1, <3>2, PinFields
  <2> QED
    BY <2>1, <2>2
<1> HIDE DEF new, calls, given, lost
<1>8. /\ soc' \in SocType /\ soc'.fsel = new /\ soc'.high = soc.high
      /\ want' \in WantType /\ want'.func = given /\ want'.cleared = lost /\ want'.level = want.level
  BY <1>1, <1>5, <1>6, PinFields DEF PinsInv, SocType, WantType
<1>9. PN!FunctionGiven'
  BY <1>7, <1>8 DEF PN!FunctionGiven, PN!gpio_func
<1>10. LowPins(soc'.high, want'.level)
  BY <1>8 DEF PinsInv
<1> QED
  BY <1>8, <1>9, <1>10 DEF PinsInv

\* gpio_set and gpio_clr drive the bit of one pin.
LEMMA PinDriven ==
  ASSUME PinsInv, NEW n \in Used, NEW up \in BOOLEAN, NEW high,
         high = IF up THEN soc.high \cup {PN!RegisterBit(n)} ELSE soc.high \ {PN!RegisterBit(n)},
         soc' = [soc EXCEPT !.high = high], want' = [want EXCEPT !.calls = want.calls + 1, !.level[n] = up]
  PROVE  PinsInv'
<1> DEFINE calls == want.calls + 1
           level == [want.level EXCEPT ![n] = up]
<1>1. want' = [want EXCEPT !.calls = calls, !.level = level]
  OBVIOUS
<1>2. calls \in Nat /\ level \in [Used -> BOOLEAN]
  BY PinFields
<1>3. high \in SUBSET PN!All
  BY PinFields, BitOfPin
<1>4. LowPins(high, level)
  <2> SUFFICES ASSUME NEW q \in PN!First32 PROVE q \in high <=> q \in Used /\ level[q]
    BY DEF LowPins
  <2>1. q \in soc.high <=> q \in Used /\ want.level[q]
    BY DEF PinsInv, LowPins
  <2>2. CASE q = n
    <3>1. PN!RegisterBit(n) = q /\ q \in Used
      BY <2>2, BitOfPin
    <3>2. level[q] = up
      BY <2>2, PinFields
    <3> QED
      BY <3>1, <3>2
  <2>3. CASE q # n
    <3>1. PN!RegisterBit(n) # q
      BY <2>3, BitOfPin
    <3>2. q \in high <=> q \in soc.high
      BY <3>1
    <3>3. level[q] = want.level[q]
      BY <2>3, PinFields
    <3> QED
      BY <2>1, <3>2, <3>3
  <2> QED
    BY <2>2, <2>3
<1> HIDE DEF calls, level
<1>5. /\ soc' \in SocType /\ soc'.fsel = soc.fsel /\ soc'.high = high
      /\ want' \in WantType /\ want'.func = want.func /\ want'.cleared = want.cleared /\ want'.level = level
  BY <1>1, <1>2, <1>3, PinFields DEF PinsInv, SocType, WantType
<1>6. PN!FunctionGiven'
  BY <1>5 DEF PinsInv, PN!FunctionGiven, PN!gpio_func
<1>7. LowPins(soc'.high, want'.level)
  BY <1>4, <1>5
<1> QED
  BY <1>5, <1>6, <1>7 DEF PinsInv

LEMMA PinsUnchanged == ASSUME PinsInv, UNCHANGED pinVars PROVE PinsInv'
BY DEF pinVars, PinsInv, PN!FunctionGiven, PN!gpio_func

LEMMA PinsImply == ASSUME PinsInv PROVE PN!LevelDriven
<1> DEFINE set == {n \in Used \cap PN!First32 : want.level[n]}
<1>1. \A n \in PN!First32 : n \in soc.high <=> n \in Used /\ want.level[n]
  BY DEF PinsInv, LowPins
<1>2. soc.high \cap PN!First32 = set
  <2> SUFFICES ASSUME NEW x PROVE x \in soc.high \cap PN!First32 <=> x \in set
    OBVIOUS
  <2> QED
    BY <1>1
<1>3. ASSUME NEW n \in Used \cap PN!First32 PROVE PN!gpio_read(n) = want.level[n]
  <2>1. n \in 0..31
    BY DEF PN!First32
  <2>2. PN!gpio_read(n) = (n \in soc.high)
    BY <2>1 DEF PN!gpio_read
  <2>3. want.level[n] \in BOOLEAN
    BY PinFields
  <2>4. n \in soc.high <=> want.level[n]
    BY <1>1
  <2> QED
    BY <2>2, <2>3, <2>4
<1> QED
  BY <1>2, <1>3 DEF PN!LevelDriven

LEMMA PinSteps == ASSUME PinsInv, PN!Next PROVE PinsInv'
<1>1. CASE PN!Enough
  BY <1>1, PinsUnchanged DEF PN!Enough, PN!vars, pinVars
<1>2. ASSUME NEW n \in Used, PN!gpio_set(n) PROVE PinsInv'
  <2> DEFINE high == soc.high \cup {PN!RegisterBit(n)}
             up == TRUE
  <2>1. soc' = [soc EXCEPT !.high = high] /\ want' = [want EXCEPT !.calls = want.calls + 1, !.level[n] = up]
    BY <1>2 DEF PN!gpio_set
  <2>2. up \in BOOLEAN /\ high = IF up THEN soc.high \cup {PN!RegisterBit(n)} ELSE soc.high \ {PN!RegisterBit(n)}
    OBVIOUS
  <2> HIDE DEF high, up
  <2> QED
    BY <2>1, <2>2, PinDriven
<1>3. ASSUME NEW n \in Used, PN!gpio_clr(n) PROVE PinsInv'
  <2> DEFINE high == soc.high \ {PN!RegisterBit(n)}
             up == FALSE
  <2>1. soc' = [soc EXCEPT !.high = high] /\ want' = [want EXCEPT !.calls = want.calls + 1, !.level[n] = up]
    BY <1>3 DEF PN!gpio_clr
  <2>2. up \in BOOLEAN /\ high = IF up THEN soc.high \cup {PN!RegisterBit(n)} ELSE soc.high \ {PN!RegisterBit(n)}
    OBVIOUS
  <2> HIDE DEF high, up
  <2> QED
    BY <2>1, <2>2, PinDriven
<1> QED
  BY <1>1, <1>2, <1>3, PinInit DEF PN!Next

-----------------------------------------------------------------------------
(***************************************************************************)
(* The static window of the framebuffer, filled pixel by pixel.            *)
(***************************************************************************)
WinType == [init : BOOLEAN, ptr : Nat, x : 0..XRes, xmax : 0..XRes]
PenType == [win : WinType, got : SUBSET Int]

LEMMA FrameParameters ==
  /\ XRes \in Nat /\ YRes \in Nat /\ MaxDraws \in Nat
  /\ \A s \in Spots : s \in Nat /\ s < XRes /\ s < YRes
  /\ \A d \in Sides \cup Radii : d \in Nat /\ d > 0 /\ 2 * d < XRes /\ 2 * d < YRes
  /\ \A s \in Spots, d \in Sides : s + 2 * d < XRes /\ s + d < YRes
BY DevicesAssumption DEF FR!Parameters

LEMMA PenFields == ASSUME NEW t \in PenType
  PROVE  /\ t.win \in WinType /\ t.got \in SUBSET Int
         /\ t.win.init \in BOOLEAN /\ t.win.ptr \in Nat /\ t.win.x \in 0..XRes /\ t.win.xmax \in 0..XRes
BY DEF PenType, WinType

\* One pixel.
Put(t) == [win |-> FR!FillWindow(t.win), got |-> t.got \cup {t.win.ptr}]

LEMMA PixelPut == ASSUME NEW t \in PenType
  PROVE  /\ Put(t) \in PenType /\ Put(t).got = t.got \cup {t.win.ptr} /\ Put(t).win.xmax = t.win.xmax
         /\ t.win.x + 1 >= t.win.xmax => Put(t).win.x = 0 /\ Put(t).win.ptr = t.win.ptr + 1 + XRes - t.win.xmax
         /\ t.win.x + 1 < t.win.xmax => Put(t).win.x = t.win.x + 1 /\ Put(t).win.ptr = t.win.ptr + 1
<1> DEFINE w == t.win
           x1 == w.x + 1
           p1 == w.ptr + 1
           p2 == w.ptr + 1 + XRes - w.xmax
           zero == 0
           got == t.got \cup {w.ptr}
           v == FR!FillWindow(w)
<1>1. /\ w \in WinType /\ w.ptr \in Nat /\ w.x \in 0..XRes /\ w.xmax \in 0..XRes /\ t.got \in SUBSET Int /\ XRes \in Nat
  BY PenFields, FrameParameters
<1>2. v = IF x1 >= w.xmax THEN [w EXCEPT !.ptr = p2, !.x = zero] ELSE [w EXCEPT !.ptr = p1, !.x = x1]
  BY DEF FR!FillWindow, FR!RowFull
<1>3. p1 \in Nat /\ p2 \in Nat /\ x1 \in Nat /\ zero = 0 /\ zero \in 0..XRes
  BY <1>1
<1>4. x1 < w.xmax => x1 \in 0..XRes
  BY <1>1
<1>5. got \in SUBSET Int
  BY <1>1
<1>6. x1 >= w.xmax \/ x1 < w.xmax
  BY <1>1, <1>3
<1>7. Put(t) = [win |-> v, got |-> got]
  BY DEF Put
<1>8. CASE x1 >= w.xmax
  <2> HIDE DEF x1, p1, p2, zero, w, v, got
  <2>1. v = [w EXCEPT !.ptr = p2, !.x = zero]
    BY <1>2, <1>8
  <2>2. v \in WinType /\ v.xmax = w.xmax /\ v.x = zero /\ v.ptr = p2
    BY <1>1, <1>3, <2>1 DEF WinType
  <2>3. Put(t) \in PenType /\ Put(t).got = got /\ Put(t).win = v
    BY <1>5, <1>7, <2>2 DEF PenType
  <2>4. ~(x1 < w.xmax)
    BY <1>1, <1>3, <1>8
  <2> QED
    BY <1>3, <1>8, <2>2, <2>3, <2>4 DEF x1, p2, w, got
<1>9. CASE x1 < w.xmax
  <2>0. ~(x1 >= w.xmax)
    BY <1>1, <1>3, <1>9
  <2> HIDE DEF x1, p1, p2, zero, w, v, got
  <2>1. v = [w EXCEPT !.ptr = p1, !.x = x1]
    BY <1>2, <2>0
  <2>2. v \in WinType /\ v.xmax = w.xmax /\ v.x = x1 /\ v.ptr = p1
    BY <1>1, <1>3, <1>4, <1>9, <2>1 DEF WinType
  <2>3. Put(t) \in PenType /\ Put(t).got = got /\ Put(t).win = v
    BY <1>5, <1>7, <2>2 DEF PenType
  <2> QED
    BY <2>0, <2>2, <2>3 DEF x1, p1, w, got
<1> QED
  BY <1>6, <1>8, <1>9

LEMMA FilledTurns == ASSUME NEW s \in PenType, NEW n \in Nat
  PROVE  \E f \in [0..n -> PenType] : /\ FR!Filled(s, n) = f[n] /\ f[0] = s
                                      /\ \A k \in 1..n : f[k] = Put(f[k - 1])
<1> DEFINE Loop(f) == f = [k \in 0..n |-> IF k = 0 THEN s ELSE Put(f[k - 1])]
           step == [k \in 1..n |-> [t \in PenType |-> Put(t)]]
           c == CHOOSE f : Loop(f)
<1>1. \A k \in 1..n : \A v \in PenType : step[k][v] = Put(v) /\ Put(v) \in PenType
  BY PixelPut
<1>2. PICK g \in [0..n -> PenType] : Turns(g, n, s, step)
  <2> HIDE DEF step
  <2>1. \A k \in 1..n : \A v \in PenType : step[k][v] \in PenType
    BY <1>1
  <2> QED
    BY <2>1, TurnsDefine, Zenon
<1>3. \A k \in 0..n : g[k] = IF k = 0 THEN s ELSE Put(g[k - 1])
  <2> SUFFICES ASSUME NEW k \in 0..n PROVE g[k] = IF k = 0 THEN s ELSE Put(g[k - 1])
    OBVIOUS
  <2>1. CASE k = 0
    BY <1>2, <2>1 DEF Turns
  <2>2. CASE k # 0
    <3>1. k \in 1..n /\ k - 1 \in 0..n
      BY <2>2
    <3>2. g[k - 1] \in PenType
      BY <1>2, <3>1
    <3>3. g[k] = step[k][g[k - 1]]
      BY <1>2, <3>1 DEF Turns
    <3> HIDE DEF step
    <3> QED
      BY <1>1, <2>2, <3>1, <3>2, <3>3
  <2> QED
    BY <2>1, <2>2
<1>4. Loop(g)
  BY <1>2, <1>3
<1> HIDE DEF step
<1>5. Loop(c)
  <2> HIDE DEF Loop
  <2> QED
    BY <1>4
<1>6. FR!Filled(s, n) = c[n]
  BY DEF FR!Filled, Put
<1> HIDE DEF c
<1>7. c[0] = s /\ \A k \in 1..n : c[k] = Put(c[k - 1])
  <2>1. \A k \in 0..n : c[k] = IF k = 0 THEN s ELSE Put(c[k - 1])
    BY <1>5
  <2>2. \A k \in 1..n : k \in 0..n /\ k # 0
    OBVIOUS
  <2>3. 0 \in 0..n
    OBVIOUS
  <2> HIDE DEF Loop
  <2> QED
    BY <2>1, <2>2, <2>3
<1>8. \A k \in 0..n : k \in {j \in 0..n : c[j] \in PenType}
  <2> DEFINE G == {j \in 0..n : c[j] \in PenType}
  <2>1. 0 \in G
    BY <1>7
  <2>2. \A k \in 1..n : k - 1 \in G => k \in G
    BY <1>7, PixelPut
  <2> HIDE DEF G
  <2>3. \A k \in 0..n : k \in G
    BY <2>1, <2>2, CountsUp
  <2> QED
    BY <2>3 DEF G
<1>9. c = [k \in 0..n |-> c[k]]
  BY <1>5
<1>10. c \in [0..n -> PenType]
  BY <1>8, <1>9
<1> QED
  BY <1>6, <1>7, <1>10

\* The pixel i columns and j rows behind pixel P, and the pixels of q full rows of a
\* window m pixels wide and of x pixels of the next row.
At(P, i, j) == P + i + XRes * j
Block(P, I, J) == {At(P, i, j) : i \in I, j \in J}
Row(P, I, j) == {At(P, i, j) : i \in I}
Rows(P, m, q, x) == Block(P, 0..(m - 1), 0..(q - 1)) \cup Row(P, 0..(x - 1), q)
Area(x, y, I, J) == {FR!Pixel(x + i, y + j) : i \in I, j \in J}

LEMMA AtPixel == ASSUME NEW x \in Int, NEW y \in Int, NEW i \in Int, NEW j \in Int
  PROVE  FR!Pixel(x, y) \in Int /\ FR!Pixel(x + i, y + j) = At(FR!Pixel(x, y), i, j) /\ FR!Pixel(x + i, y + j) \in Int
<1>1. XRes \in Int
  BY FrameParameters
<1>2. XRes * (y + j) = XRes * y + XRes * j /\ XRes * y \in Int /\ XRes * j \in Int
  BY <1>1
<1> QED
  BY <1>2 DEF FR!Pixel, At

LEMMA AreaIsBlock ==
  ASSUME NEW x \in Int, NEW y \in Int, NEW I \in SUBSET Int, NEW J \in SUBSET Int
  PROVE  Area(x, y, I, J) = Block(FR!Pixel(x, y), I, J) /\ Area(x, y, I, J) \in SUBSET Int
<1> DEFINE P == FR!Pixel(x, y)
<1>1. \A i, j \in Int : FR!Pixel(x + i, y + j) = At(P, i, j) /\ FR!Pixel(x + i, y + j) \in Int
  BY AtPixel
<1> HIDE DEF P
<1>2. ASSUME NEW p \in Area(x, y, I, J) PROVE p \in Block(P, I, J) /\ p \in Int
  <2>1. PICK i \in I, j \in J : p = FR!Pixel(x + i, y + j)
    BY <1>2 DEF Area
  <2> QED
    BY <1>1, <2>1 DEF Block
<1>3. ASSUME NEW p \in Block(P, I, J) PROVE p \in Area(x, y, I, J)
  <2>1. PICK i \in I, j \in J : p = At(P, i, j)
    BY <1>3 DEF Block
  <2>2. p = FR!Pixel(x + i, y + j)
    BY <1>1, <2>1
  <2> QED
    BY <2>2 DEF Area
<1>4. Area(x, y, I, J) = Block(P, I, J) /\ Area(x, y, I, J) \in SUBSET Int
  BY <1>2, <1>3, SMT
<1> QED
  BY <1>4 DEF P

LEMMA OneRow == ASSUME NEW P, NEW I, NEW j
  PROVE  Block(P, I, {j}) = Row(P, I, j) /\ Block(P, I, {}) = {} /\ Row(P, {}, j) = {} /\ Block(P, {}, I) = {}
BY DEF Block, Row

LEMMA RowAdded == \A P, I, J, j : Block(P, I, J \cup {j}) = Block(P, I, J) \cup Row(P, I, j)
BY DEF Block, Row

LEMMA RectIsRows == ASSUME NEW x \in Int, NEW y \in Int, NEW m \in Nat, NEW q \in Nat
  PROVE  /\ FR!Rect(x, y, m, q) = Rows(FR!Pixel(x, y), m, q, 0)
         /\ FR!Rect(x, y, q, 1) = Rows(FR!Pixel(x, y), m, 0, q)
         /\ FR!Rect(x, y, m, q) \in SUBSET Int
<1> DEFINE P == FR!Pixel(x, y)
<1>1. 0..(m - 1) \in SUBSET Int /\ 0..(q - 1) \in SUBSET Int /\ 0..(1 - 1) = {0} /\ 0..(0 - 1) = {} /\ {0} \in SUBSET Int
  OBVIOUS
<1>2. FR!Rect(x, y, m, q) = Area(x, y, 0..(m - 1), 0..(q - 1)) /\ FR!Rect(x, y, q, 1) = Area(x, y, 0..(q - 1), {0})
  <2>1. FR!Rect(x, y, q, 1) = Area(x, y, 0..(q - 1), 0..(1 - 1))
    BY DEF FR!Rect, Area
  <2>2. FR!Rect(x, y, m, q) = Area(x, y, 0..(m - 1), 0..(q - 1))
    BY DEF FR!Rect, Area
  <2> QED
    BY <1>1, <2>1, <2>2
<1>3. FR!Rect(x, y, m, q) = Block(P, 0..(m - 1), 0..(q - 1)) /\ FR!Rect(x, y, m, q) \in SUBSET Int
  BY <1>1, <1>2, AreaIsBlock
<1>4. FR!Rect(x, y, q, 1) = Row(P, 0..(q - 1), 0)
  BY <1>1, <1>2, AreaIsBlock, OneRow
<1>5. FR!Rect(x, y, m, q) = Rows(P, m, q, 0)
  BY <1>1, <1>3, OneRow DEF Rows
<1>6. FR!Rect(x, y, q, 1) = Rows(P, m, 0, q)
  BY <1>1, <1>4, OneRow DEF Rows
<1> QED
  BY <1>3, <1>5, <1>6

\* One pixel more.
LEMMA RowsGrow ==
  ASSUME NEW P \in Int, NEW m \in Nat, NEW q \in Nat, NEW x \in Nat, x < m
  PROVE  /\ x + 1 < m => Rows(P, m, q, x) \cup {At(P, x, q)} = Rows(P, m, q, x + 1)
         /\ x + 1 = m => Rows(P, m, q, x) \cup {At(P, x, q)} = Rows(P, m, q + 1, 0)
<1>1. /\ 0..((x + 1) - 1) = (0..(x - 1)) \cup {x} /\ 0..((q + 1) - 1) = (0..(q - 1)) \cup {q} /\ 0..(0 - 1) = {}
      /\ x + 1 = m => 0..((x + 1) - 1) = 0..(m - 1)
  OBVIOUS
<1>2. Rows(P, m, q, x) \cup {At(P, x, q)} = Block(P, 0..(m - 1), 0..(q - 1)) \cup Row(P, 0..((x + 1) - 1), q)
  <2>1. Row(P, 0..((x + 1) - 1), q) = Row(P, 0..(x - 1), q) \cup {At(P, x, q)}
    <3>1. Row(P, (0..(x - 1)) \cup {x}, q) = Row(P, 0..(x - 1), q) \cup {At(P, x, q)}
      <4> DEFINE I == 0..(x - 1)
      <4> HIDE DEF I
      <4>1. Row(P, I \cup {x}, q) = Row(P, I, q) \cup {At(P, x, q)}
        BY DEF Row
      <4> QED
        BY <4>1 DEF I
    <3> QED
      BY <1>1, <3>1, Zenon
  <2> QED
    BY <2>1, Zenon DEF Rows
<1>3. Rows(P, m, q + 1, 0) = Block(P, 0..(m - 1), 0..(q - 1)) \cup Row(P, 0..(m - 1), q)
  <2>1. /\ Block(P, 0..(m - 1), 0..((q + 1) - 1)) = Block(P, 0..(m - 1), 0..(q - 1)) \cup Row(P, 0..(m - 1), q)
        /\ Row(P, 0..(0 - 1), q + 1) = {}
    <3>1. Block(P, 0..(m - 1), (0..(q - 1)) \cup {q}) = Block(P, 0..(m - 1), 0..(q - 1)) \cup Row(P, 0..(m - 1), q)
      BY RowAdded, Zenon
    <3>2. Row(P, {}, q + 1) = {}
      BY OneRow, Zenon
    <3> QED
      BY <1>1, <3>1, <3>2, Zenon
  <2>2. Rows(P, m, q + 1, 0) = Block(P, 0..(m - 1), 0..((q + 1) - 1)) \cup Row(P, 0..(0 - 1), q + 1)
    BY DEF Rows
  <2> QED
    BY <2>1, <2>2
<1> QED
  BY <1>1, <1>2, <1>3 DEF Rows

\* After n pixels of a window that began with column 0.
RowsOf(t, P, m, n, got) ==
  \E q \in Nat, x \in Nat : /\ x < m /\ n = m * q + x
                            /\ t.win.x = x /\ t.win.ptr = At(P, x, q) /\ t.got = got \cup Rows(P, m, q, x)

LEMMA RowsPut ==
  ASSUME NEW t \in PenType, NEW P \in Nat, NEW m \in Nat, m > 0, t.win.xmax = m, NEW n \in Nat, NEW got, RowsOf(t, P, m, n, got)
  PROVE  RowsOf(Put(t), P, m, n + 1, got)
<1>0. XRes \in Nat
  BY FrameParameters
<1>1. PICK q \in Nat, x \in Nat : /\ x < m /\ n = m * q + x
                                  /\ t.win.x = x /\ t.win.ptr = At(P, x, q) /\ t.got = got \cup Rows(P, m, q, x)
  BY DEF RowsOf
<1>2. XRes * (q + 1) = XRes * q + XRes /\ XRes * q \in Nat /\ m * (q + 1) = m * q + m /\ m * q \in Nat
  BY <1>0
<1>3. Put(t).got = got \cup (Rows(P, m, q, x) \cup {At(P, x, q)})
  BY <1>1, PixelPut
<1>4. CASE x + 1 < m
  <2>1. Put(t).win.x = x + 1 /\ Put(t).win.ptr = At(P, x, q) + 1
    BY <1>1, <1>4, PixelPut
  <2>2. At(P, x + 1, q) = At(P, x, q) + 1
    BY <1>2 DEF At
  <2>3. Put(t).got = got \cup Rows(P, m, q, x + 1)
    BY <1>1, <1>3, <1>4, RowsGrow
  <2>4. n + 1 = m * q + (x + 1) /\ x + 1 \in Nat
    BY <1>1, <1>2
  <2> QED
    BY <1>4, <2>1, <2>2, <2>3, <2>4 DEF RowsOf
<1>5. CASE ~(x + 1 < m)
  <2>0. x + 1 = m
    BY <1>1, <1>5
  <2>1. Put(t).win.x = 0 /\ Put(t).win.ptr = At(P, x, q) + 1 + XRes - m
    <3>1. x + 1 >= m
      BY <2>0
    <3> QED
      BY <1>1, <3>1, PixelPut
  <2>2. At(P, 0, q + 1) = At(P, x, q) + 1 + XRes - m
    BY <1>0, <1>2, <2>0 DEF At
  <2>3. Put(t).got = got \cup Rows(P, m, q + 1, 0)
    BY <1>1, <1>3, <2>0, RowsGrow
  <2>4. n + 1 = m * (q + 1) + 0 /\ q + 1 \in Nat /\ 0 \in Nat /\ 0 < m
    BY <1>1, <1>2, <2>0
  <2> QED
    BY <2>1, <2>2, <2>3, <2>4 DEF RowsOf
<1> QED
  BY <1>4, <1>5

LEMMA FilledRows ==
  ASSUME NEW s \in PenType, NEW n \in Nat, NEW m \in Nat, m > 0, s.win.xmax = m, s.win.x = 0
  PROVE  RowsOf(FR!Filled(s, n), s.win.ptr, m, n, s.got)
<1> DEFINE P == s.win.ptr
<1>0. P \in Nat
  BY PenFields
<1>1. PICK f \in [0..n -> PenType] : /\ FR!Filled(s, n) = f[n] /\ f[0] = s
                                     /\ \A k \in 1..n : f[k] = Put(f[k - 1])
  BY FilledTurns, ZenonT(40)
<1> DEFINE G == {k \in 0..n : f[k].win.xmax = m /\ RowsOf(f[k], P, m, k, s.got)}
<1>2. 0 \in G
  <2>1. 0 = m * 0 + 0 /\ 0 \in Nat /\ 0 < m /\ At(P, 0, 0) = P
    BY <1>0, FrameParameters DEF At
  <2>2. Rows(P, m, 0, 0) = {}
    <3>1. 0..(0 - 1) = {}
      OBVIOUS
    <3> QED
      BY <3>1, OneRow DEF Rows
  <2>3. RowsOf(s, P, m, 0, s.got)
    BY <2>1, <2>2 DEF RowsOf
  <2> QED
    BY <1>1, <2>3
<1>3. ASSUME NEW k \in 1..n, k - 1 \in G PROVE k \in G
  <2>1. f[k - 1] \in PenType /\ f[k - 1].win.xmax = m /\ RowsOf(f[k - 1], P, m, k - 1, s.got)
    BY <1>1, <1>3
  <2>2. f[k] = Put(f[k - 1]) /\ k - 1 \in Nat /\ (k - 1) + 1 = k
    <3>1. f[k] = Put(f[k - 1])
      BY <1>1, Zenon
    <3> QED
      BY <3>1
  <2>3. RowsOf(f[k], P, m, (k - 1) + 1, s.got)
    <3> HIDE DEF P
    <3> QED
      BY <1>0, <2>1, <2>2, RowsPut
  <2>4. f[k].win.xmax = m
    BY <2>1, <2>2, PixelPut
  <2> QED
    BY <2>2, <2>3, <2>4
<1> HIDE DEF G
<1>4. \A k \in 0..n : k \in G
  BY <1>2, <1>3, CountsUp
<1>5. n \in G
  BY <1>4
<1> QED
  BY <1>1, <1>5 DEF G

\* The window of PenType that SetWindow leaves.
Moved(s, x0, y0, m) == [s EXCEPT !.win = FR!SetWindow(s.win, x0, y0, m)]

MovedTo(t, s, x0, y0, m) ==
  /\ t \in PenType /\ t.got = s.got /\ t.win.x = s.win.x /\ t.win.xmax = m
  /\ t.win.ptr = FR!Pixel(x0, y0) /\ t.win.ptr \in Nat

LEMMA WindowSet ==
  ASSUME NEW s \in PenType, NEW x0 \in Nat, NEW y0 \in Nat, NEW m \in 0..XRes
  PROVE  MovedTo(Moved(s, x0, y0, m), s, x0, y0, m)
<1> DEFINE t == Moved(s, x0, y0, m)
           p == FR!Pixel(x0, y0)
           yes == TRUE
           v == [s.win EXCEPT !.init = yes, !.ptr = p, !.xmax = m]
<1>1. p \in Nat
  <2>1. XRes * y0 \in Nat
    BY FrameParameters
  <2> QED
    BY <2>1 DEF FR!Pixel
<1>2. s.win \in WinType /\ s.got \in SUBSET Int /\ yes \in BOOLEAN
  BY PenFields
<1>3. t = [s EXCEPT !.win = v]
  BY DEF FR!SetWindow, Moved
<1> HIDE DEF p, yes, t
<1>4. v \in WinType /\ v.x = s.win.x /\ v.xmax = m /\ v.ptr = p
  BY <1>1, <1>2 DEF WinType
<1> HIDE DEF v
<1>5. t \in PenType /\ t.win = v /\ t.got = s.got
  BY <1>3, <1>4 DEF PenType
<1> QED
  BY <1>1, <1>4, <1>5 DEF p, t, MovedTo

LEMMA FilledType == ASSUME NEW s \in PenType, NEW n \in Nat
  PROVE  FR!Filled(s, n) \in PenType /\ (n = 0 => FR!Filled(s, n) = s)
<1>1. PICK f \in [0..n -> PenType] : FR!Filled(s, n) = f[n] /\ f[0] = s
  BY FilledTurns
<1>2. n \in 0..n
  OBVIOUS
<1> QED
  BY <1>1, <1>2

LEMMA StrokeType ==
  ASSUME NEW s \in PenType, NEW x0 \in Nat, NEW y0 \in Nat, NEW m \in 0..XRes, NEW n \in Nat
  PROVE  /\ FR!Stroke(s, x0, y0, m, n) \in PenType
         /\ n = 0 => FR!Stroke(s, x0, y0, m, n).got = s.got /\ FR!Stroke(s, x0, y0, m, n).win.x = s.win.x
<1> DEFINE t == Moved(s, x0, y0, m)
<1>1. t \in PenType /\ t.win.x = s.win.x /\ t.got = s.got
  <2>1. MovedTo(t, s, x0, y0, m)
    BY WindowSet
  <2> HIDE DEF t
  <2> QED
    BY <2>1 DEF MovedTo
<1>2. FR!Stroke(s, x0, y0, m, n) = FR!Filled(t, n)
  BY DEF FR!Stroke, Moved
<1> HIDE DEF t
<1> QED
  BY <1>1, <1>2, FilledType

LEMMA RowCount == ASSUME NEW m \in Nat, NEW h \in Nat, NEW q \in Nat, NEW x \in Nat, x < m, m * h = m * q + x
  PROVE  h = q /\ x = 0
<1>1. CASE h = q
  <2>1. m * h \in Nat /\ m * h = m * q
    BY <1>1
  <2> QED
    BY <1>1, <2>1
<1>2. CASE h < q
  <2>1. PICK d \in Nat : q = h + 1 + d
    <3>1. q - h - 1 \in Nat /\ q = h + 1 + (q - h - 1)
      BY <1>2
    <3> QED
      BY <3>1
  <2>2. m * q = m * h + m + m * d /\ m * d \in Nat /\ m * h \in Nat
    BY <2>1
  <2> QED
    BY <2>2
<1>3. CASE h > q
  <2>1. PICK d \in Nat : h = q + 1 + d
    <3>1. h - q - 1 \in Nat /\ h = q + 1 + (h - q - 1)
      BY <1>3
    <3> QED
      BY <3>1
  <2>2. m * h = m * q + m + m * d /\ m * d \in Nat /\ m * q \in Nat
    BY <2>1
  <2> QED
    BY <2>2
<1> QED
  BY <1>1, <1>2, <1>3

\* From column 0 a stroke fills its window, and leaves column 0.
Fills(t, s, new) == t \in PenType /\ t.win.x = 0 /\ t.got = s.got \cup new

LEMMA StrokeFills ==
  ASSUME NEW s \in PenType, s.win.x = 0, NEW x0 \in Nat, NEW y0 \in Nat, NEW m \in 1..XRes, NEW h \in Nat
  PROVE  Fills(FR!Stroke(s, x0, y0, m, m * h), s, FR!Rect(x0, y0, m, h))
<1> DEFINE t == FR!Stroke(s, x0, y0, m, m * h)
           w == Moved(s, x0, y0, m)
           P == FR!Pixel(x0, y0)
<1>0. m \in 0..XRes /\ m \in Nat /\ m > 0 /\ m * h \in Nat
  BY FrameParameters
<1>1. w \in PenType /\ w.win.x = 0 /\ w.win.xmax = m /\ w.win.ptr = P /\ w.got = s.got
  <2>1. w \in PenType /\ w.win.x = s.win.x /\ w.win.xmax = m /\ w.win.ptr = P /\ w.got = s.got
    <3>1. m \in 0..XRes
      BY <1>0
    <3>2. MovedTo(w, s, x0, y0, m)
      BY <3>1, WindowSet
    <3> HIDE DEF w
    <3> QED
      BY <3>2 DEF MovedTo
  <2> HIDE DEF w, P
  <2> QED
    BY <2>1
<1>2. t = FR!Filled(w, m * h)
  BY DEF FR!Stroke, Moved
<1> HIDE DEF w
<1>3. RowsOf(t, P, m, m * h, s.got)
  BY <1>0, <1>1, <1>2, FilledRows
<1>4. t \in PenType
  BY <1>0, StrokeType
<1> HIDE DEF t
<1>5. PICK q \in Nat, x \in Nat : /\ x < m /\ m * h = m * q + x
                                  /\ t.win.x = x /\ t.got = s.got \cup Rows(P, m, q, x)
  BY <1>3 DEF RowsOf
<1>6. h = q /\ x = 0
  BY <1>0, <1>5, RowCount
<1>7. t.got = s.got \cup FR!Rect(x0, y0, m, h)
  BY <1>0, <1>5, <1>6, RectIsRows
<1> QED
  BY <1>4, <1>5, <1>6, <1>7 DEF t, Fills

\* A part of the first row.
Gains(t, s, new) == t.got = s.got \cup new

LEMMA StrokeStops ==
  ASSUME NEW s \in PenType, s.win.x = 0, NEW x0 \in Nat, NEW y0 \in Nat, NEW m \in 1..XRes, NEW n \in Nat, n < m
  PROVE  Gains(FR!Stroke(s, x0, y0, m, n), s, FR!Rect(x0, y0, n, 1))
<1> DEFINE t == FR!Stroke(s, x0, y0, m, n)
           w == Moved(s, x0, y0, m)
           P == FR!Pixel(x0, y0)
<1>0. m \in 0..XRes /\ m \in Nat /\ m > 0
  BY FrameParameters
<1>1. w \in PenType /\ w.win.x = 0 /\ w.win.xmax = m /\ w.win.ptr = P /\ w.got = s.got
  <2>1. w \in PenType /\ w.win.x = s.win.x /\ w.win.xmax = m /\ w.win.ptr = P /\ w.got = s.got
    <3>1. m \in 0..XRes
      BY <1>0
    <3>2. MovedTo(w, s, x0, y0, m)
      BY <3>1, WindowSet
    <3> HIDE DEF w
    <3> QED
      BY <3>2 DEF MovedTo
  <2> HIDE DEF w, P
  <2> QED
    BY <2>1
<1>2. t = FR!Filled(w, n)
  BY DEF FR!Stroke, Moved
<1> HIDE DEF w
<1>3. RowsOf(t, P, m, n, s.got)
  BY <1>0, <1>1, <1>2, FilledRows
<1> HIDE DEF t
<1>4. PICK q \in Nat, x \in Nat : x < m /\ n = m * q + x /\ t.got = s.got \cup Rows(P, m, q, x)
  BY <1>3 DEF RowsOf
<1>5. q = 0 /\ x = n
  <2>1. CASE q = 0
    <3>1. m * q = 0
      BY <2>1
    <3> QED
      BY <1>4, <2>1, <3>1
  <2>2. CASE q > 0
    <3>1. PICK d \in Nat : q = 1 + d
      <4>1. q - 1 \in Nat /\ q = 1 + (q - 1)
        BY <2>2
      <4> QED
        BY <4>1
    <3>2. m * q = m + m * d /\ m * d \in Nat
      BY <3>1
    <3> QED
      BY <1>4, <3>2
  <2> QED
    BY <2>1, <2>2
<1>6. t.got = s.got \cup FR!Rect(x0, y0, n, 1)
  BY <1>0, <1>4, <1>5, RectIsRows
<1> QED
  BY <1>6 DEF t, Gains

\* An empty rectangle, and two beside each other.
LEMMA RectEmpty == \A x, y, h : FR!Rect(x, y, 0, h) = {} /\ FR!Rect(x, y, h, 0) = {}
<1>1. 0..(0 - 1) = {}
  OBVIOUS
<1> SUFFICES ASSUME NEW x, NEW y, NEW h PROVE FR!Rect(x, y, 0, h) = {} /\ FR!Rect(x, y, h, 0) = {}
  OBVIOUS
<1>2. \A p \in FR!Rect(x, y, 0, h) : \E i \in 0..(0 - 1) : TRUE
  BY DEF FR!Rect
<1>3. \A p \in FR!Rect(x, y, h, 0) : \E i \in 0..(0 - 1) : TRUE
  BY DEF FR!Rect
<1> QED
  BY <1>1, <1>2, <1>3

Joined(A, B, C) == A \cup B = C

LEMMA RectJoins ==
  ASSUME NEW x \in Int, NEW y \in Int, NEW m \in Nat, NEW n \in Nat, NEW h \in Nat
  PROVE  Joined(FR!Rect(x, y, m, h), FR!Rect(x + m, y, n, h), FR!Rect(x, y, m + n, h))
<1> DEFINE I == 0..(m - 1)
           K == 0..((m + n) - 1)
           L == 0..(n - 1)
           J == 0..(h - 1)
<1>1. ASSUME NEW p \in FR!Rect(x, y, m, h) PROVE p \in FR!Rect(x, y, m + n, h)
  <2>1. PICK i \in I, j \in J : p = FR!Pixel(x + i, y + j)
    BY DEF FR!Rect
  <2>2. i \in K
    OBVIOUS
  <2> QED
    BY <2>1, <2>2 DEF FR!Rect
<1>2. ASSUME NEW p \in FR!Rect(x + m, y, n, h) PROVE p \in FR!Rect(x, y, m + n, h)
  <2>1. PICK i \in L, j \in J : p = FR!Pixel((x + m) + i, y + j)
    BY DEF FR!Rect
  <2>2. m + i \in K /\ (x + m) + i = x + (m + i)
    OBVIOUS
  <2>3. p = FR!Pixel(x + (m + i), y + j)
    BY <2>1, <2>2
  <2> QED
    BY <2>2, <2>3 DEF FR!Rect
<1>3. ASSUME NEW p \in FR!Rect(x, y, m + n, h) PROVE p \in FR!Rect(x, y, m, h) \cup FR!Rect(x + m, y, n, h)
  <2>1. PICK k \in K, j \in J : p = FR!Pixel(x + k, y + j)
    BY DEF FR!Rect
  <2>2. CASE k < m
    <3>1. k \in I
      BY <2>2
    <3>2. p \in FR!Rect(x, y, m, h)
      BY <2>1, <3>1 DEF FR!Rect
    <3> QED
      BY <3>2
  <2>3. CASE k >= m
    <3>1. k - m \in L /\ (x + m) + (k - m) = x + k
      BY <2>3
    <3>2. p = FR!Pixel((x + m) + (k - m), y + j)
      BY <2>1, <3>1
    <3>3. p \in FR!Rect(x + m, y, n, h)
      BY <3>1, <3>2 DEF FR!Rect
    <3> QED
      BY <3>3
  <2> QED
    BY <2>2, <2>3
<1>4. FR!Rect(x, y, m, h) \cup FR!Rect(x + m, y, n, h) = FR!Rect(x, y, m + n, h)
  <2> DEFINE A == FR!Rect(x, y, m, h)
             B == FR!Rect(x + m, y, n, h)
             C == FR!Rect(x, y, m + n, h)
  <2>1. (\A p \in A : p \in C) /\ (\A p \in B : p \in C) /\ (\A p \in C : p \in A \cup B)
    BY <1>1, <1>2, <1>3
  <2> HIDE DEF A, B, C
  <2>2. A \cup B = C
    BY <2>1
  <2> QED
    BY <2>2 DEF A, B, C
<1> QED
  BY <1>4 DEF Joined

LEMMA Distance == ASSUME NEW a \in Int, NEW b \in Int
  PROVE  /\ FR!Abs(a - b) \in Nat /\ FR!Least(b, a) \in {a, b}
         /\ a >= b => FR!Abs(a - b) = a - b /\ FR!Least(b, a) = b
         /\ a < b => FR!Abs(a - b) = b - a
BY DEF FR!Abs, FR!Least

\* A line to the right, and one down.
LEMMA HorizontalType ==
  ASSUME NEW s \in PenType, NEW x0 \in Nat, NEW y0 \in Nat, NEW x1 \in Nat, FR!Abs(x1 - x0) \in 0..XRes
  PROVE  FR!Horizontal(s, x0, y0, x1) \in PenType
<1>1. FR!Abs(x1 - x0) \in Nat
  BY Distance
<1> QED
  BY <1>1, StrokeType DEF FR!Horizontal

LEMMA HorizontalDrawn ==
  ASSUME NEW s \in PenType, s.win.x = 0, NEW x0 \in Nat, NEW y0 \in Nat, NEW d \in 0..XRes
  PROVE  /\ FR!Horizontal(s, x0, y0, x0 + d).win.x = 0
         /\ Gains(FR!Horizontal(s, x0, y0, x0 + d), s, FR!Rect(x0, y0, d, 1))
<1>0. d \in Nat /\ d * 1 = d /\ 1 \in Nat
  BY FrameParameters
<1>1. FR!Abs((x0 + d) - x0) = d
  <2>1. x0 + d \in Int /\ x0 \in Int /\ x0 + d >= x0 /\ (x0 + d) - x0 = d
    BY <1>0, FrameParameters
  <2> QED
    BY <2>1, Distance
<1>2. FR!Horizontal(s, x0, y0, x0 + d) = FR!Stroke(s, x0, y0, d, d)
  BY <1>1 DEF FR!Horizontal
<1>3. CASE d = 0
  <2>1. FR!Rect(x0, y0, d, 1) = {}
    BY <1>3, RectEmpty
  <2> QED
    BY SMTT(60), <1>0, <1>2, <1>3, <2>1, StrokeType DEF Gains
<1>4. CASE d > 0
  <2>1. d \in 1..XRes
    BY <1>4, FrameParameters
  <2>2. Fills(FR!Stroke(s, x0, y0, d, d * 1), s, FR!Rect(x0, y0, d, 1))
    BY <1>0, <2>1, StrokeFills
  <2> QED
    BY <1>0, <1>2, <2>2 DEF Fills, Gains
<1> QED
  BY <1>0, <1>3, <1>4

LEMMA VerticalType ==
  ASSUME NEW s \in PenType, NEW x0 \in Nat, NEW y0 \in Nat, NEW y1 \in Nat, XRes > 0
  PROVE  FR!Vertical(s, x0, y0, y1) \in PenType
<1>1. FR!Abs(y1 - y0) \in Nat
  <2>1. y1 \in Int /\ y0 \in Int
    OBVIOUS
  <2> QED
    BY <2>1, Distance, Zenon
<1>2. 1 \in 0..XRes
  BY FrameParameters
<1> QED
  BY <1>1, <1>2, StrokeType DEF FR!Vertical

LEMMA VerticalDrawn ==
  ASSUME NEW s \in PenType, s.win.x = 0, NEW x0 \in Nat, NEW y0 \in Nat, NEW d \in Nat, XRes > 0
  PROVE  /\ FR!Vertical(s, x0, y0, y0 + d).win.x = 0
         /\ Gains(FR!Vertical(s, x0, y0, y0 + d), s, FR!Rect(x0, y0, 1, d))
<1>0. 1 * d = d /\ 1 \in 1..XRes
  BY FrameParameters
<1>1. FR!Abs((y0 + d) - y0) = d
  <2>1. y0 + d \in Int /\ y0 \in Int /\ y0 + d >= y0 /\ (y0 + d) - y0 = d
    BY FrameParameters
  <2> QED
    BY <2>1, Distance
<1>2. FR!Vertical(s, x0, y0, y0 + d) = FR!Stroke(s, x0, y0, 1, d)
  BY <1>1 DEF FR!Vertical
<1>3. Fills(FR!Stroke(s, x0, y0, 1, 1 * d), s, FR!Rect(x0, y0, 1, d))
  BY <1>0, StrokeFills
<1> QED
  BY <1>0, <1>2, <1>3 DEF Fills, Gains

\* Columns and rows of an offset.
LEMMA ColumnRow == ASSUME NEW m \in Nat, m > 0, NEW p \in Nat
  PROVE  /\ p \div m \in Nat /\ p % m \in Nat /\ p % m < m /\ p = m * (p \div m) + (p % m)
<1>1. p % m \in 0..(m - 1) /\ p = m * (p \div m) + (p % m) /\ p \div m \in Nat
  BY SMT
<1> QED
  BY <1>1

LEMMA PixelDecodes == ASSUME NEW m \in Nat, NEW x \in Nat, x < m, NEW y \in Nat
  PROVE  (x + m * y) % m = x /\ (x + m * y) \div m = y
<1> DEFINE p == x + m * y
           q == p \div m
           a == p % m
<1>1. p \in Nat /\ m * y \in Nat
  OBVIOUS
<1> HIDE DEF p
<1>2. q \in Nat /\ a \in Nat /\ a < m /\ p = m * q + a
  BY <1>1, ColumnRow
<1> HIDE DEF q, a
<1>3. CASE a >= x
  <2> DEFINE c == a - x
  <2>1. m * y = m * q + c /\ c \in Nat /\ c < m
    BY <1>1, <1>2, <1>3 DEF p
  <2> HIDE DEF c
  <2>2. y = q /\ c = 0
    BY <1>2, <2>1, RowCount
  <2> QED
    BY <1>2, <2>2 DEF c, q, a, p
<1>4. CASE a < x
  <2> DEFINE c == x - a
  <2>1. m * q = m * y + c /\ c \in Nat /\ c < m
    BY <1>1, <1>2, <1>4 DEF p
  <2> HIDE DEF c
  <2>2. q = y /\ c = 0
    BY <1>2, <2>1, RowCount
  <2> QED
    BY <1>2, <1>4, <2>2 DEF c
<1> QED
  BY <1>2, <1>3, <1>4

LEMMA ScreenIsRect == 0..(XRes * YRes - 1) = FR!Rect(0, 0, XRes, YRes)
<1>0. XRes \in Nat /\ YRes \in Nat
  BY FrameParameters
<1> DEFINE A == 0..(XRes * YRes - 1)
           B == FR!Rect(0, 0, XRes, YRes)
<1>1. ASSUME NEW p \in A PROVE p \in B
  <2> DEFINE i == p % XRes
             j == p \div XRes
  <2>1. XRes > 0 /\ p \in Nat /\ p < XRes * YRes /\ XRes * YRes \in Nat
    <3>1. XRes * YRes \in Nat /\ p \in Nat /\ p < XRes * YRes
      BY <1>0
    <3>2. XRes = 0 => XRes * YRes = 0
      BY <1>0
    <3> QED
      BY <1>0, <3>1, <3>2
  <2>2. i \in Nat /\ j \in Nat /\ i < XRes /\ p = XRes * j + i
    BY <1>0, <2>1, ColumnRow
  <2> HIDE DEF i, j
  <2>3. j < YRes
    <3>1. SUFFICES ASSUME j >= YRes PROVE FALSE
      BY <1>0, <2>2
    <3>2. PICK d \in Nat : j = YRes + d
      <4>1. j - YRes \in Nat /\ j = YRes + (j - YRes)
        BY <1>0, <2>2, <3>1
      <4> QED
        BY <4>1
    <3>3. XRes * j = XRes * YRes + XRes * d /\ XRes * d \in Nat
      BY <1>0, <3>2
    <3> QED
      BY <2>1, <2>2, <3>3
  <2>4. i \in 0..(XRes - 1) /\ j \in 0..(YRes - 1) /\ 0 + i = i /\ 0 + j = j
    BY <1>0, <2>2, <2>3
  <2>5. p = FR!Pixel(0 + i, 0 + j)
    BY <2>2, <2>4, <1>0 DEF FR!Pixel
  <2> QED
    BY <2>4, <2>5 DEF FR!Rect
<1>2. ASSUME NEW p \in B PROVE p \in A
  <2>1. PICK i \in 0..(XRes - 1), j \in 0..(YRes - 1) : p = FR!Pixel(0 + i, 0 + j)
    BY DEF FR!Rect
  <2>2. p = i + XRes * j
    BY <1>0, <2>1 DEF FR!Pixel
  <2>3. PICK d \in Nat : YRes = j + 1 + d
    <3>1. YRes - j - 1 \in Nat /\ YRes = j + 1 + (YRes - j - 1)
      BY <1>0
    <3> QED
      BY <3>1
  <2>4. XRes * YRes = XRes * j + XRes + XRes * d /\ XRes * d \in Nat /\ XRes * j \in Nat
    BY <1>0, <2>3
  <2> QED
    BY <1>0, <2>2, <2>4
<1> HIDE DEF A, B
<1>3. A = B
  BY <1>1, <1>2
<1> QED
  BY <1>3 DEF A, B

LEMMA PictureIsRect == ASSUME NEW x \in Int, NEW y \in Int, NEW m \in Nat, NEW h \in Nat
  PROVE  FR!Picture(x, y, m, h) = FR!Rect(x, y, m, h)
<1> DEFINE A == FR!Picture(x, y, m, h)
           B == FR!Rect(x, y, m, h)
<1>0. XRes \in Nat
  BY FrameParameters
<1>1. ASSUME NEW p \in A PROVE p \in B
  <2>1. PICK i \in 0..(m - 1), j \in 0..(h - 1) : p = (i + x) + XRes * (y + j)
    BY DEF FR!Picture
  <2>2. p = FR!Pixel(x + i, y + j)
    BY <1>0, <2>1 DEF FR!Pixel
  <2> QED
    BY <2>2 DEF FR!Rect
<1>2. ASSUME NEW p \in B PROVE p \in A
  <2>1. PICK i \in 0..(m - 1), j \in 0..(h - 1) : p = FR!Pixel(x + i, y + j)
    BY DEF FR!Rect
  <2> DEFINE at(k, l) == (k + x) + XRes * (y + l)
  <2>2. p = at(i, j)
    BY <1>0, <2>1 DEF FR!Pixel
  <2>3. A = {at(k, l) : k \in 0..(m - 1), l \in 0..(h - 1)}
    BY DEF FR!Picture
  <2> HIDE DEF at, A
  <2> QED
    BY <2>2, <2>3
<1> HIDE DEF A, B
<1>3. A = B
  BY <1>1, <1>2
<1> QED
  BY <1>3 DEF A, B

-----------------------------------------------------------------------------
(***************************************************************************)
(* The loop of the circles.  Its error term is that of the next pixel, and *)
(* the pixels it visits are within half a pixel's ring of the circle.      *)
(***************************************************************************)
ArcType == [x : Int, y : Int, err : Int]
Off(c, r) == c.x * c.x + c.y * c.y - r * r
ArcInv(c, r) ==
  /\ c \in ArcType /\ c.x \in (-r)..1 /\ c.y \in 0..r
  /\ c.err = Off(c, r) + 2 * c.x + 2 * c.y + 2
  /\ c.x =< 0 => -r =< Off(c, r) /\ Off(c, r) < r
  /\ c.x = 0 => c.y > 0

\* One turn: a step to the right, one down, or both.
Onward(c, d) == /\ d.x \in {c.x, c.x + 1} /\ d.y \in {c.y, c.y + 1}
                /\ d.x + d.y > c.x + c.y

LEMMA ArcStep == ASSUME NEW r \in Nat, r > 0, NEW c, ArcInv(c, r), c.x =< 0
  PROVE  ArcInv(FR!CircleStep(c), r) /\ Onward(c, FR!CircleStep(c))
<1> DEFINE x == c.x
           y == c.y
           err == c.err
           down == err =< y
           y1 == IF down THEN y + 1 ELSE y
           err1 == IF down THEN err + y1 * 2 + 1 ELSE err
           e2 == IF down /\ -x = y1 /\ err =< x THEN 0 ELSE err
           right == e2 > x
           x1 == IF right THEN x + 1 ELSE x
           err2 == IF right THEN err1 + x1 * 2 + 1 ELSE err1
           D == Off(c, r)
           D1 == x1 * x1 + y1 * y1 - r * r
           d == FR!CircleStep(c)
<1>1. /\ c \in ArcType /\ x \in Int /\ y \in Int /\ err \in Int /\ x >= -r /\ x =< 0 /\ y >= 0 /\ y =< r
      /\ err = D + 2 * x + 2 * y + 2 /\ -r =< D /\ D < r /\ D = x * x + y * y - r * r
      /\ x = 0 => y > 0
  BY DEF ArcInv, ArcType, Off
<1>2. d = [x |-> x1, y |-> y1, err |-> err2]
  BY DEF FR!CircleStep
<1> HIDE DEF D
<1>3. x1 \in Int /\ y1 \in Int /\ err2 \in Int /\ D \in Int /\ r \in Int
  BY <1>1
<1>4. /\ (x + 1) * (x + 1) = x * x + 2 * x + 1 /\ (y + 1) * (y + 1) = y * y + 2 * y + 1
      /\ x * x \in Int /\ y * y \in Int /\ r * r \in Int
  BY <1>1
<1> DEFINE dx == IF right THEN 2 * x + 1 ELSE 0
           dy == IF down THEN 2 * y + 1 ELSE 0
<1>5. D1 = D + dx + dy
  <2> DEFINE xx == x * x
             yy == y * y
             rr == r * r
             xx1 == x1 * x1
             yy1 == y1 * y1
  <2>1. xx1 = xx + dx
    BY <1>1, <1>4
  <2>2. yy1 = yy + dy
    BY <1>1, <1>4
  <2>3. dx \in Int /\ dy \in Int /\ xx \in Int /\ yy \in Int /\ rr \in Int /\ D = xx + yy - rr /\ D1 = xx1 + yy1 - rr
    BY <1>1, <1>4
  <2> HIDE DEF dx, dy, xx, yy, rr, xx1, yy1, D1
  <2> QED
    BY <2>1, <2>2, <2>3
<1> HIDE DEF D1, d
<1>6. down \/ right
  BY <1>1
<1>7. down => y < r
  <2>1. SUFFICES ASSUME down, y = r PROVE FALSE
    BY <1>1
  <2>2. D = x * x
    BY <1>1, <1>4, <2>1
  <2>3. (x + 1) * (x + 1) >= 0
    BY <1>1
  <2> QED
    BY <1>1, <1>4, <2>1, <2>2, <2>3
<1>8. err2 = D1 + 2 * x1 + 2 * y1 + 2
  <2>1. CASE right /\ down
    <3>1. x1 = x + 1 /\ y1 = y + 1 /\ dx = 2 * x + 1 /\ dy = 2 * y + 1
      BY <2>1
    <3>2. err1 = err + y1 * 2 + 1 /\ err2 = err1 + x1 * 2 + 1
      BY <2>1
    <3> HIDE DEF x1, y1, err1, err2, dx, dy
    <3> QED
      BY <1>1, <1>3, <1>5, <3>1, <3>2
  <2>2. CASE right /\ ~down
    BY <1>1, <1>3, <1>5, <2>2
  <2>3. CASE ~right /\ down
    BY <1>1, <1>3, <1>5, <2>3
  <2> QED
    BY <1>6, <2>1, <2>2, <2>3
<1>9. x1 =< 0 => -r =< D1 /\ D1 < r
  BY <1>1, <1>3, <1>5, <1>7
<1>10. x1 = 0 => y1 > 0
  <2>1. ASSUME x1 = 0, y1 =< 0 PROVE FALSE
    <3>1. ~down /\ y = 0
      <4>1. CASE down
        <5>1. y1 = y + 1
          BY <4>1
        <5> HIDE DEF y1
        <5> QED
          BY <1>1, <2>1, <5>1
      <4>2. CASE ~down
        <5>1. y1 = y
          BY <4>2
        <5> HIDE DEF y1, down
        <5> QED
          BY <1>1, <2>1, <4>2, <5>1
      <4> HIDE DEF down
      <4> QED
        BY <4>1, <4>2
    <3>2. x = -1
      <4>1. x # 0
        BY <1>1, <3>1
      <4>2. CASE right
        <5>1. x1 = x + 1
          BY <4>2
        <5> HIDE DEF x1
        <5> QED
          BY <1>1, <2>1, <5>1
      <4>3. CASE ~right
        <5>1. x1 = x
          BY <4>3
        <5> HIDE DEF x1
        <5> QED
          BY <2>1, <4>1, <5>1
      <4> HIDE DEF right
      <4> QED
        BY <4>2, <4>3
    <3>3. y * y = 0 /\ x * x = 1
      BY <3>1, <3>2
    <3>4. r * r >= r
      BY SMT
    <3> QED
      BY <1>1, <3>1, <3>2, <3>3, <3>4
  <2>2. y1 \in Int
    BY <1>3
  <2> HIDE DEF x1, y1
  <2> QED
    BY <2>1, <2>2
<1>11. x1 >= -r /\ x1 =< 1 /\ y1 >= 0 /\ y1 =< r
  BY <1>1, <1>7
<1>12. x1 \in {x, x + 1} /\ y1 \in {y, y + 1} /\ x1 + y1 > x + y
  BY <1>1, <1>6
<1> HIDE DEF x1, y1, err2
<1>13. d \in ArcType /\ d.x = x1 /\ d.y = y1 /\ d.err = err2
  BY <1>2, <1>3 DEF ArcType
<1>14. Off(d, r) = D1
  BY <1>13 DEF Off, D1
<1>15. ArcInv(d, r)
  <2>1. d.x \in (-r)..1 /\ d.y \in 0..r
    BY <1>3, <1>11, <1>13
  <2> HIDE DEF d
  <2> QED
    BY <1>8, <1>9, <1>10, <1>13, <1>14, <2>1 DEF ArcInv
<1>16. Onward(c, d)
  BY <1>12, <1>13 DEF Onward
<1> QED
  BY <1>15, <1>16 DEF d

ArcNext(t) == IF t.x > 0 THEN t ELSE FR!CircleStep(t)

LEMMA ArcTurns == ASSUME NEW r \in Nat
  PROVE  \E f \in [0..(4 * r + 4) -> ArcType] :
           /\ FR!Arc(r) = f /\ f[0] = [x |-> -r, y |-> 0, err |-> 2 - 2 * r]
           /\ \A k \in 1..(4 * r + 4) : f[k] = ArcNext(f[k - 1])
<1> DEFINE n == 4 * r + 4
           s == [x |-> -r, y |-> 0, err |-> 2 - 2 * r]
           Loop(f) == f = [k \in 0..n |-> IF k = 0 THEN s ELSE ArcNext(f[k - 1])]
           step == [k \in 1..n |-> [t \in ArcType |-> ArcNext(t)]]
           c == CHOOSE f : Loop(f)
<1>0. s \in ArcType /\ n \in Nat
  BY DEF ArcType
<1>1. \A t \in ArcType : ArcNext(t) \in ArcType
  <2> SUFFICES ASSUME NEW t \in ArcType PROVE ArcNext(t) \in ArcType
    OBVIOUS
  <2>1. t.x \in Int /\ t.y \in Int /\ t.err \in Int
    BY DEF ArcType
  <2>2. FR!CircleStep(t) \in ArcType
    BY <2>1 DEF FR!CircleStep, ArcType
  <2> QED
    BY <2>2 DEF ArcNext
<1>2. \A k \in 1..n : \A v \in ArcType : step[k][v] = ArcNext(v) /\ step[k][v] \in ArcType
  BY <1>1
<1>3. FR!Arc(r) = c
  BY DEF FR!Arc, ArcNext
<1> HIDE DEF n, s
<1>4. PICK g \in [0..n -> ArcType] : Turns(g, n, s, step)
  <2> HIDE DEF step
  <2> QED
    BY <1>0, <1>2, TurnsDefine, Zenon
<1>5. \A k \in 0..n : g[k] = IF k = 0 THEN s ELSE ArcNext(g[k - 1])
  <2> SUFFICES ASSUME NEW k \in 0..n PROVE g[k] = IF k = 0 THEN s ELSE ArcNext(g[k - 1])
    OBVIOUS
  <2>1. CASE k = 0
    BY <1>4, <2>1 DEF Turns
  <2>2. CASE k # 0
    <3>1. k \in 1..n /\ k - 1 \in 0..n
      BY <1>0, <2>2
    <3>2. g[k - 1] \in ArcType
      BY <1>4, <3>1
    <3>3. g[k] = step[k][g[k - 1]]
      BY <1>4, <3>1 DEF Turns
    <3> HIDE DEF step
    <3> QED
      BY <1>2, <2>2, <3>1, <3>2, <3>3
  <2> QED
    BY <2>1, <2>2
<1>6. Loop(g)
  BY <1>4, <1>5
<1> HIDE DEF step
<1>7. Loop(c)
  <2> HIDE DEF Loop
  <2> QED
    BY <1>6
<1> HIDE DEF c
<1>8. c[0] = s /\ \A k \in 1..n : c[k] = ArcNext(c[k - 1])
  <2>1. \A k \in 0..n : c[k] = IF k = 0 THEN s ELSE ArcNext(c[k - 1])
    BY <1>7
  <2>2. 0 \in 0..n /\ \A k \in 1..n : k \in 0..n /\ k # 0
    BY <1>0
  <2> HIDE DEF Loop
  <2> QED
    BY <2>1, <2>2
<1>9. \A k \in 0..n : c[k] \in ArcType
  <2> DEFINE G == {j \in 0..n : c[j] \in ArcType}
  <2>1. 0 \in G
    BY <1>0, <1>8
  <2>2. \A k \in 1..n : k - 1 \in G => k \in G
    BY <1>0, <1>1, <1>8
  <2> HIDE DEF G
  <2>3. \A k \in 0..n : k \in G
    BY <1>0, <2>1, <2>2, CountsUp
  <2> QED
    BY <2>3 DEF G
<1>10. c \in [0..n -> ArcType]
  <2>1. c = [k \in 0..n |-> c[k]]
    BY <1>7
  <2> HIDE DEF Loop
  <2> QED
    BY <1>9, <2>1
<1> QED
  BY <1>3, <1>8, <1>10 DEF n, s

\* Every pixel of the loop is as it should be, and the last one ends it.
ArcAt(r, k) == FR!Arc(r)[k]

LEMMA ArcBegins == ASSUME NEW r \in Nat, r > 0 PROVE ArcInv(ArcAt(r, 0), r) /\ ArcAt(r, 0).x = -r /\ ArcAt(r, 0).y = 0
<1> DEFINE c == ArcAt(r, 0)
           e == 2 - 2 * r
           y == 0
           x == -r
<1>1. c = [x |-> x, y |-> y, err |-> e]
  BY ArcTurns DEF ArcAt
<1>2. x \in Int /\ y \in Int /\ e \in Int
  OBVIOUS
<1> HIDE DEF c
<1>3. c \in ArcType /\ c.x = x /\ c.y = y /\ c.err = e
  <2> HIDE DEF x, y, e
  <2> QED
    BY <1>1, <1>2 DEF ArcType
<1>4. Off(c, r) = 0
  <2>1. x * x = r * r /\ y * y = 0 /\ r * r \in Int
    OBVIOUS
  <2> QED
    BY <1>3, <2>1 DEF Off
<1>5. ArcInv(c, r)
  BY <1>3, <1>4 DEF ArcInv
<1> QED
  BY <1>3, <1>5 DEF c

LEMMA ArcTurn == ASSUME NEW r \in Nat, NEW k \in 1..(4 * r + 4) PROVE ArcAt(r, k) = ArcNext(ArcAt(r, k - 1))
BY ArcTurns DEF ArcAt

LEMMA ArcHolds == ASSUME NEW r \in Nat, r > 0
  PROVE  \A k \in 0..(4 * r + 4) : ArcInv(ArcAt(r, k), r) /\ (ArcAt(r, k).x =< 0 => ArcAt(r, k).x + ArcAt(r, k).y >= k - r)
<1> DEFINE n == 4 * r + 4
           Good(k) == ArcInv(ArcAt(r, k), r) /\ (ArcAt(r, k).x =< 0 => ArcAt(r, k).x + ArcAt(r, k).y >= k - r)
           G == {k \in 0..n : Good(k)}
<1>1. 0 \in G
  BY ArcBegins
<1>2. ASSUME NEW k \in 1..n, k - 1 \in G PROVE k \in G
  <2> DEFINE c == ArcAt(r, k - 1)
             d == ArcAt(r, k)
  <2>1. d = ArcNext(c)
    BY ArcTurn
  <2>2. ArcInv(c, r) /\ (c.x =< 0 => c.x + c.y >= (k - 1) - r)
    BY <1>2
  <2> HIDE DEF c
  <2>3. c.x \in Int /\ c.y \in Int
    BY <2>2 DEF ArcInv, ArcType
  <2>4. CASE c.x > 0
    <3>1. d = c
      BY <2>1, <2>4 DEF ArcNext
    <3> HIDE DEF d
    <3>2. ArcInv(d, r) /\ ~(d.x =< 0)
      BY <2>2, <2>3, <2>4, <3>1
    <3> QED
      BY <3>2 DEF d
  <2>5. CASE c.x =< 0
    <3>1. d = FR!CircleStep(c)
      BY <2>1, <2>3, <2>5 DEF ArcNext
    <3>2. ArcInv(d, r) /\ Onward(c, d)
      BY <2>2, <2>5, <3>1, ArcStep
    <3> HIDE DEF d
    <3>3. d.x + d.y >= k - r
      <4>1. d.x \in Int /\ d.y \in Int /\ d.x + d.y > c.x + c.y
        BY <3>2 DEF ArcInv, ArcType, Onward
      <4> QED
        BY <2>2, <2>3, <2>5, <4>1
    <3> QED
      BY <3>2, <3>3 DEF d
  <2> QED
    BY <2>3, <2>4, <2>5
<1>3. n \in Nat
  OBVIOUS
<1> HIDE DEF G, n
<1>4. \A k \in 0..n : k \in G
  BY <1>1, <1>2, <1>3, CountsUp
<1> QED
  BY <1>4 DEF G, n

\* The turns that draw.
Visited(r) == {k \in 0..(4 * r + 4) : ArcAt(r, k).x =< 0}

LEMMA ArcSteps == ASSUME NEW r \in Nat, r > 0, NEW k \in 1..(4 * r + 4)
  PROVE  /\ ArcAt(r, k - 1).x =< 0 => Onward(ArcAt(r, k - 1), ArcAt(r, k))
         /\ ArcAt(r, k - 1).x > 0 => ArcAt(r, k) = ArcAt(r, k - 1)
<1> DEFINE c == ArcAt(r, k - 1)
           d == ArcAt(r, k)
<1>1. k - 1 \in 0..(4 * r + 4)
  OBVIOUS
<1>2. ArcInv(c, r)
  BY <1>1, ArcHolds
<1>3. d = IF c.x > 0 THEN c ELSE FR!CircleStep(c)
  BY ArcTurn DEF ArcNext
<1> HIDE DEF c, d
<1>4. c.x \in Int
  BY <1>2 DEF ArcInv, ArcType
<1>5. ASSUME c.x =< 0 PROVE Onward(c, d)
  <2>1. d = FR!CircleStep(c)
    BY <1>3, <1>4, <1>5
  <2> QED
    BY <1>2, <1>5, <2>1, ArcStep
<1>6. ASSUME c.x > 0 PROVE d = c
  BY <1>3, <1>6
<1> QED
  BY <1>5, <1>6 DEF c, d

LEMMA ArcInside == ASSUME NEW r \in Nat, r > 0, NEW k \in 0..(4 * r + 4)
  PROVE  /\ ArcInv(ArcAt(r, k), r) /\ ArcAt(r, k).x \in Int /\ ArcAt(r, k).y \in Int
         /\ ArcAt(r, k).x \in (-r)..1 /\ ArcAt(r, k).y \in 0..r
BY ArcHolds DEF ArcInv, ArcType

\* The arc ends at the lowest point of the circle.
LEMMA ArcReaches == ASSUME NEW r \in Nat, r > 0
  PROVE  \E k \in Visited(r) : ArcAt(r, k).x = 0 /\ ArcAt(r, k).y = r
<1> DEFINE n == 4 * r + 4
           S == {k \in 0..n : ArcAt(r, k).x > 0}
<1>1. n \in S
  <2>1. n \in 0..n
    OBVIOUS
  <2>2. /\ ArcAt(r, n).x \in (-r)..1 /\ ArcAt(r, n).y \in 0..r
        /\ ArcAt(r, n).x =< 0 => ArcAt(r, n).x + ArcAt(r, n).y >= n - r
    BY <2>1, ArcHolds, ArcInside
  <2>3. ArcAt(r, n).x > 0
    BY <2>2
  <2> QED
    BY <2>1, <2>3
<1>2. PICK k \in S : \A j \in S : k <= j
  <2>1. S \in SUBSET Nat
    OBVIOUS
  <2> HIDE DEF S
  <2> QED
    BY <1>1, <2>1, LeastElement
<1>3. k # 0
  BY ArcBegins
<1>4. k \in 1..n /\ k - 1 \in 0..n /\ k - 1 \notin S
  BY <1>2, <1>3
<1> DEFINE c == ArcAt(r, k - 1)
           d == ArcAt(r, k)
<1>5. ArcInv(c, r) /\ c.x \in Int /\ c.y \in Int /\ c.y \in 0..r /\ d.x \in Int
  BY <1>4, ArcInside
<1>6. c.x =< 0 /\ d.x > 0
  BY <1>4, <1>5
<1>7. Onward(c, d)
  BY <1>4, <1>6, ArcSteps
<1>8. k - 1 \in Visited(r)
  BY <1>4, <1>6 DEF Visited
<1> HIDE DEF c, d
<1>9. c.x = 0
  BY <1>5, <1>6, <1>7 DEF Onward
<1>10. c.y = r
  <2> DEFINE y == c.y
             D == Off(c, r)
  <2>1. -r =< D /\ y > 0 /\ y \in 0..r /\ y \in Int
    BY <1>5, <1>9 DEF ArcInv
  <2>2. D = y * y - r * r
    BY <1>5, <1>9 DEF Off
  <2> HIDE DEF y, D
  <2>3. ASSUME y < r PROVE FALSE
    <3> DEFINE a == r - 1 - y
    <3>1. a \in Nat /\ r = y + 1 + a
      BY <2>1, <2>3
    <3> HIDE DEF a
    <3>2. r * r = (y + 1 + a) * (y + 1 + a)
      BY <3>1
    <3>3. (y + 1 + a) * (y + 1 + a) = y * y + 2 * y + 1 + 2 * (a * y) + 2 * a + a * a /\ a * y >= 0 /\ a * a >= 0
      BY <2>1, <3>1
    <3>4. a * y \in Int /\ a * a \in Int /\ y * y \in Int
      BY <2>1, <3>1
    <3>5. a * y >= a
      BY <2>1, <3>1
    <3> QED
      BY <2>1, <2>2, <3>1, <3>2, <3>3, <3>4, <3>5
  <2>4. y = r
    BY <2>1, <2>3
  <2> QED
    BY <2>4 DEF y
<1> QED
  BY <1>8, <1>9, <1>10 DEF c

\* Every column and every row of the quarter is visited.
LEMMA ArcColumns == ASSUME NEW r \in Nat, r > 0, NEW i \in (-r)..0
  PROVE  \E k \in Visited(r) : ArcAt(r, k).x = i
<1> DEFINE n == 4 * r + 4
           S == {k \in 0..n : ArcAt(r, k).x >= i}
<1>1. S # {}
  BY ArcReaches DEF Visited
<1>2. PICK k \in S : \A j \in S : k <= j
  <2>1. S \in SUBSET Nat
    OBVIOUS
  <2> HIDE DEF S
  <2> QED
    BY <1>1, <2>1, LeastElement
<1>3. ArcAt(r, k).x = i
  <2>1. CASE k = 0
    BY <1>2, <2>1, ArcBegins
  <2>2. CASE k # 0
    <3>1. k \in 1..n /\ k - 1 \in 0..n /\ k - 1 \notin S
      BY <1>2, <2>2
    <3> DEFINE c == ArcAt(r, k - 1)
               d == ArcAt(r, k)
    <3>2. c.x \in Int /\ d.x \in Int
      BY <3>1, ArcInside
    <3>3. c.x < i /\ d.x >= i
      BY <1>2, <3>1, <3>2
    <3>4. Onward(c, d)
      <4>1. c.x =< 0
        BY <3>2, <3>3
      <4> QED
        BY <3>1, <4>1, ArcSteps
    <3> HIDE DEF c, d
    <3>5. d.x = i
      BY <3>2, <3>3, <3>4 DEF Onward
    <3> QED
      BY <3>5 DEF d
  <2> QED
    BY <2>1, <2>2
<1>4. k \in Visited(r)
  BY <1>3 DEF Visited
<1> QED
  BY <1>3, <1>4

LEMMA ArcRows == ASSUME NEW r \in Nat, r > 0, NEW i \in 0..r
  PROVE  \E k \in Visited(r) : ArcAt(r, k).y = i
<1> DEFINE n == 4 * r + 4
           S == {k \in Visited(r) : ArcAt(r, k).y >= i}
<1>1. S # {}
  BY ArcReaches
<1>2. PICK k \in S : \A j \in S : k <= j
  <2>1. S \in SUBSET Nat
    BY DEF Visited
  <2> HIDE DEF S
  <2> QED
    BY <1>1, <2>1, LeastElement
<1>3. ArcAt(r, k).y = i
  <2>1. CASE k = 0
    BY <1>2, <2>1, ArcBegins
  <2>2. CASE k # 0
    <3>1. k \in 1..n /\ k - 1 \in 0..n /\ k - 1 \notin S
      BY <1>2, <2>2 DEF Visited
    <3> DEFINE c == ArcAt(r, k - 1)
               d == ArcAt(r, k)
    <3>2. c.x \in Int /\ d.x \in Int /\ c.y \in Int /\ d.y \in Int
      BY <3>1, ArcInside
    <3>3. c.x =< 0
      <4>1. d.x =< 0
        BY <1>2 DEF Visited
      <4>2. c.x > 0 => d = c
        BY <3>1, ArcSteps
      <4> HIDE DEF c, d
      <4> QED
        BY <3>2, <4>1, <4>2
    <3>4. c.y < i /\ d.y >= i
      <4>1. k - 1 \in Visited(r)
        BY <3>1, <3>3 DEF Visited
      <4> QED
        BY <1>2, <3>1, <3>2, <4>1
    <3>5. Onward(c, d)
      BY <3>1, <3>3, ArcSteps
    <3> HIDE DEF c, d
    <3>6. d.y = i
      BY <3>2, <3>4, <3>5 DEF Onward
    <3> QED
      BY <3>6 DEF d
  <2> QED
    BY <2>1, <2>2
<1> QED
  BY <1>2, <1>3

\* The pixels of a circle around (a, a).
LEMMA PointsVisited == ASSUME NEW r \in Nat
  PROVE  /\ \A p \in FR!Points(r) : \E k \in Visited(r) : p = <<ArcAt(r, k).x, ArcAt(r, k).y>>
         /\ \A k \in Visited(r) : <<ArcAt(r, k).x, ArcAt(r, k).y>> \in FR!Points(r)
<1>1. DOMAIN FR!Arc(r) = 0..(4 * r + 4)
  BY ArcTurns
<1>2. FR!Points(r) = {<<FR!Arc(r)[k].x, FR!Arc(r)[k].y>> : k \in {n \in DOMAIN FR!Arc(r) : FR!Arc(r)[n].x <= 0}}
  BY DEF FR!Points
<1>3. Visited(r) = {n \in DOMAIN FR!Arc(r) : FR!Arc(r)[n].x <= 0}
  BY <1>1 DEF Visited, ArcAt
<1>4. FR!Points(r) = {<<FR!Arc(r)[k].x, FR!Arc(r)[k].y>> : k \in Visited(r)}
  BY <1>2, <1>3
<1> QED
  BY <1>4, Zenon DEF ArcAt

Ring(r, k, sx, sy) == FR!Pixel(r + sx * ArcAt(r, k).x, r + sy * ArcAt(r, k).y)

LEMMA CircleIsRing == ASSUME NEW r \in Nat
  PROVE  /\ \A p \in FR!Circle(r, r, r) : \E k \in Visited(r), sx \in {1, -1}, sy \in {1, -1} : p = Ring(r, k, sx, sy)
         /\ \A k \in Visited(r), sx \in {1, -1}, sy \in {1, -1} : Ring(r, k, sx, sy) \in FR!Circle(r, r, r)
<1> DEFINE at(q, sx, sy) == FR!Pixel(r + sx * q[1], r + sy * q[2])
           C == FR!Circle(r, r, r)
<1>1. C = {at(q, sx, sy) : q \in FR!Points(r), sx \in {1, -1}, sy \in {1, -1}}
  BY DEF FR!Circle
<1>2. \A k, sx, sy : at(<<ArcAt(r, k).x, ArcAt(r, k).y>>, sx, sy) = Ring(r, k, sx, sy)
  BY DEF Ring
<1> HIDE DEF at, C
<1>3. ASSUME NEW p \in C PROVE \E k \in Visited(r), sx \in {1, -1}, sy \in {1, -1} : p = Ring(r, k, sx, sy)
  <2>1. PICK q \in FR!Points(r), sx \in {1, -1}, sy \in {1, -1} : p = at(q, sx, sy)
    BY <1>1
  <2>2. PICK k \in Visited(r) : q = <<ArcAt(r, k).x, ArcAt(r, k).y>>
    BY PointsVisited
  <2>3. p = Ring(r, k, sx, sy)
    BY <1>2, <2>1, <2>2, Zenon
  <2> QED
    BY <2>3, Zenon
<1>4. ASSUME NEW k \in Visited(r), NEW sx \in {1, -1}, NEW sy \in {1, -1} PROVE Ring(r, k, sx, sy) \in C
  <2> DEFINE q == <<ArcAt(r, k).x, ArcAt(r, k).y>>
  <2>1. q \in FR!Points(r)
    BY PointsVisited
  <2>2. Ring(r, k, sx, sy) = at(q, sx, sy)
    BY <1>2, Zenon
  <2> HIDE DEF q
  <2> QED
    BY <1>1, <2>1, <2>2
<1> QED
  BY <1>3, <1>4 DEF C

\* A pixel of the ring, seen from the middle.
LEMMA RingDecodes ==
  ASSUME NEW r \in Nat, r > 0, 2 * r < XRes, NEW k \in Visited(r), NEW sx \in {1, -1}, NEW sy \in {1, -1}
  PROVE  /\ (Ring(r, k, sx, sy) % XRes) - r = sx * ArcAt(r, k).x
         /\ (Ring(r, k, sx, sy) \div XRes) - r = sy * ArcAt(r, k).y
         /\ Ring(r, k, sx, sy) \in Int
<1> DEFINE x == ArcAt(r, k).x
           y == ArcAt(r, k).y
           i == sx * x
           j == sy * y
           a == r + i
           b == r + j
           p == Ring(r, k, sx, sy)
<1>1. x \in Int /\ y \in Int /\ -r =< x /\ x =< 0 /\ 0 =< y /\ y =< r
  <2>1. k \in 0..(4 * r + 4) /\ x =< 0
    BY DEF Visited
  <2> QED
    BY <2>1, ArcInside
<1> HIDE DEF x, y
<1>2. i \in Int /\ -r =< i /\ i =< r /\ j \in Int /\ -r =< j /\ j =< r
  <2>1. sx = 1 \/ sx = -1
    OBVIOUS
  <2>2. sy = 1 \/ sy = -1
    OBVIOUS
  <2>3. 1 * x = x /\ (-1) * x = -x /\ 1 * y = y /\ (-1) * y = -y
    BY <1>1
  <2>4. i = x \/ i = -x
    BY <2>1, <2>3
  <2>5. j = y \/ j = -y
    BY <2>2, <2>3
  <2> HIDE DEF i, j
  <2> QED
    BY <1>1, <2>4, <2>5
<1>3. p = a + XRes * b
  BY DEF Ring, FR!Pixel, x, y
<1> HIDE DEF i, j, p
<1>4. a \in Nat /\ a < XRes /\ b \in Nat /\ XRes \in Nat /\ a - r = i /\ b - r = j
  BY <1>2, FrameParameters
<1> HIDE DEF a, b
<1>5. p % XRes = a /\ p \div XRes = b /\ p \in Int
  <2>1. XRes * b \in Int
    BY <1>4
  <2> QED
    BY <1>3, <1>4, <2>1, PixelDecodes
<1> QED
  BY <1>4, <1>5 DEF x, y, i, j, p

\* What Round says of a circle of radius r with these pixels.
RoundOf(r, got) ==
  LET rel == {<<(p % XRes) - r, (p \div XRes) - r>> : p \in got}
  IN  /\ \A p \in rel : LET d == p[1] * p[1] + p[2] * p[2] IN (r - 1) * (r - 1) < d /\ d < (r + 1) * (r + 1)
      /\ \A i \in (-r)..r : (\E p \in rel : p[1] = i) /\ (\E p \in rel : p[2] = i)

LEMMA NearCircle == ASSUME NEW r \in Nat, r > 0, NEW k \in Visited(r)
  PROVE  LET x == ArcAt(r, k).x
             y == ArcAt(r, k).y
         IN  (r - 1) * (r - 1) < x * x + y * y /\ x * x + y * y < (r + 1) * (r + 1)
<1> DEFINE c == ArcAt(r, k)
           D == Off(c, r)
           x == c.x
           y == c.y
           d == x * x + y * y
<1>1. k \in 0..(4 * r + 4) /\ c.x =< 0
  BY DEF Visited
<1>2. ArcInv(c, r) /\ c.x \in Int /\ c.y \in Int
  BY <1>1, ArcInside
<1> HIDE DEF c
<1>3. -r =< D /\ D < r /\ (c.x = 0 => c.y > 0)
  BY <1>1, <1>2 DEF ArcInv
<1>4. x * x \in Int /\ y * y \in Int /\ r * r \in Int /\ d \in Int
  BY <1>2
<1>5. D = d - r * r
  BY <1>4 DEF Off
<1>6. (r - 1) * (r - 1) = r * r - 2 * r + 1 /\ (r + 1) * (r + 1) = r * r + 2 * r + 1
  OBVIOUS
<1>7. d > 0
  <2>1. x * x >= 0 /\ y * y >= 0
    BY <1>2
  <2>2. x # 0 => x * x > 0
    BY <1>2
  <2>3. x = 0 => y > 0
    BY <1>3
  <2>4. y > 0 => y * y > 0
    BY <1>2
  <2>5. x * x + y * y > 0
    <3> HIDE DEF x, y
    <3>1. CASE x = 0
      BY <1>4, <2>1, <2>3, <2>4, <3>1
    <3>2. CASE x # 0
      BY <1>4, <2>1, <2>2, <3>2
    <3> QED
      BY <3>1, <3>2
  <2> QED
    BY <2>5
<1> HIDE DEF D, d
<1>8. (r - 1) * (r - 1) < d
  <2>1. CASE r = 1
    <3>1. (r - 1) * (r - 1) = 0
      BY <2>1
    <3> QED
      BY <1>4, <1>7, <3>1
  <2>2. CASE r > 1
    BY <1>3, <1>4, <1>5, <1>6, <2>2
  <2> QED
    BY <2>1, <2>2
<1>9. d < (r + 1) * (r + 1)
  BY <1>3, <1>4, <1>5, <1>6
<1> QED
  BY <1>8, <1>9 DEF d, x, y, c

LEMMA CircleIsRound == ASSUME NEW r \in Nat, r > 0, 2 * r < XRes PROVE RoundOf(r, FR!Circle(r, r, r))
<1> DEFINE C == FR!Circle(r, r, r)
           offset(p) == <<(p % XRes) - r, (p \div XRes) - r>>
           rel == {offset(p) : p \in C}
           spot(k, sx, sy) == <<sx * ArcAt(r, k).x, sy * ArcAt(r, k).y>>
<1>1. ASSUME NEW k \in Visited(r), NEW sx \in {1, -1}, NEW sy \in {1, -1}
      PROVE  offset(Ring(r, k, sx, sy)) = spot(k, sx, sy)
  BY RingDecodes
<1>2. \A p \in C : \E k \in Visited(r), sx \in {1, -1}, sy \in {1, -1} : p = Ring(r, k, sx, sy)
  BY CircleIsRing
<1>3. \A k \in Visited(r), sx \in {1, -1}, sy \in {1, -1} : Ring(r, k, sx, sy) \in C
  BY CircleIsRing
<1>4. \A k \in Visited(r) : ArcAt(r, k).x \in Int /\ ArcAt(r, k).y \in Int
  <2>1. \A k \in Visited(r) : k \in 0..(4 * r + 4)
    BY DEF Visited
  <2> QED
    BY <2>1, ArcInside
<1> HIDE DEF offset, C
<1>5. ASSUME NEW q \in rel PROVE (r - 1) * (r - 1) < q[1] * q[1] + q[2] * q[2] /\ q[1] * q[1] + q[2] * q[2] < (r + 1) * (r + 1)
  <2>1. PICK p \in C : q = offset(p)
    OBVIOUS
  <2>2. PICK k \in Visited(r), sx \in {1, -1}, sy \in {1, -1} : p = Ring(r, k, sx, sy)
    BY <1>2
  <2> DEFINE x == ArcAt(r, k).x
             y == ArcAt(r, k).y
  <2>3. q[1] = sx * x /\ q[2] = sy * y
    BY <1>1, <2>1, <2>2
  <2>4. x \in Int /\ y \in Int
    BY <1>4
  <2>5. (r - 1) * (r - 1) < x * x + y * y /\ x * x + y * y < (r + 1) * (r + 1)
    BY NearCircle
  <2> HIDE DEF x, y
  <2>6. q[1] * q[1] = x * x
    <3>1. CASE sx = 1
      BY <2>3, <2>4, <3>1
    <3>2. CASE sx = -1
      BY <2>3, <2>4, <3>2
    <3> QED
      BY <3>1, <3>2
  <2>7. q[2] * q[2] = y * y
    <3>1. CASE sy = 1
      BY <2>3, <2>4, <3>1
    <3>2. CASE sy = -1
      BY <2>3, <2>4, <3>2
    <3> QED
      BY <3>1, <3>2
  <2> QED
    BY <2>5, <2>6, <2>7
<1>6. ASSUME NEW k \in Visited(r), NEW sx \in {1, -1}, NEW sy \in {1, -1} PROVE spot(k, sx, sy) \in rel
  <2>1. Ring(r, k, sx, sy) \in C
    BY <1>3
  <2>2. offset(Ring(r, k, sx, sy)) = spot(k, sx, sy)
    BY <1>1
  <2> HIDE DEF spot
  <2> QED
    BY <2>1, <2>2
<1> HIDE DEF rel
<1>7. ASSUME NEW i \in (-r)..r PROVE (\E q \in rel : q[1] = i) /\ (\E q \in rel : q[2] = i)
  <2>1. CASE i =< 0
    <3>1. PICK k \in Visited(r) : ArcAt(r, k).x = i
      <4>1. i \in (-r)..0
        BY <2>1
      <4> QED
        BY <4>1, ArcColumns
    <3>2. spot(k, 1, 1) \in rel /\ spot(k, 1, 1)[1] = i
      <4>1. 1 * i = i
        OBVIOUS
      <4> QED
        BY <1>6, <3>1, <4>1
    <3>3. PICK j \in Visited(r) : ArcAt(r, j).y = -i
      <4>1. -i \in 0..r
        BY <2>1
      <4> QED
        BY <4>1, ArcRows
    <3>4. spot(j, 1, -1) \in rel /\ spot(j, 1, -1)[2] = i
      <4>1. (-1) * (-i) = i
        OBVIOUS
      <4> QED
        BY <1>6, <3>3, <4>1
    <3> HIDE DEF spot
    <3> QED
      BY <3>2, <3>4
  <2>2. CASE i > 0
    <3>1. PICK k \in Visited(r) : ArcAt(r, k).x = -i
      <4>1. -i \in (-r)..0
        BY <2>2
      <4> QED
        BY <4>1, ArcColumns
    <3>2. spot(k, -1, 1) \in rel /\ spot(k, -1, 1)[1] = i
      <4>1. (-1) * (-i) = i
        OBVIOUS
      <4> QED
        BY <1>6, <3>1, <4>1
    <3>3. PICK j \in Visited(r) : ArcAt(r, j).y = i
      <4>1. i \in 0..r
        BY <2>2
      <4> QED
        BY <4>1, ArcRows
    <3>4. spot(j, 1, 1) \in rel /\ spot(j, 1, 1)[2] = i
      <4>1. 1 * i = i
        OBVIOUS
      <4> QED
        BY <1>6, <3>3, <4>1
    <3> HIDE DEF spot
    <3> QED
      BY <3>2, <3>4
  <2> QED
    BY <2>1, <2>2
<1>8. rel = {<<(p % XRes) - r, (p \div XRes) - r>> : p \in C}
  BY DEF rel, offset
<1> QED
  BY <1>5, <1>7, <1>8 DEF RoundOf, C

\* The two lines of a turn of the filled circle.
Lines(r, k) ==
  LET p == ArcAt(r, k)
  IN  FR!Rect(r + p.x, r + p.y, -2 * p.x, 1) \cup FR!Rect(r + p.x, r - p.y, -2 * p.x, 1)
DiscNext(r, k, s) ==
  LET p == ArcAt(r, k)
  IN  IF p.x > 0 THEN s
      ELSE FR!Horizontal(FR!Horizontal(s, r + p.x, r + p.y, r - p.x), r + p.x, r - p.y, r - p.x)

LEMMA DiscStep == ASSUME NEW r \in Nat, r > 0, 2 * r < XRes, NEW k \in 0..(4 * r + 4), NEW s \in PenType
  PROVE  /\ DiscNext(r, k, s) \in PenType
         /\ s.win.x = 0 => /\ DiscNext(r, k, s).win.x = 0
                           /\ k \in Visited(r) => DiscNext(r, k, s).got = s.got \cup Lines(r, k)
                           /\ k \notin Visited(r) => DiscNext(r, k, s).got = s.got
<1> DEFINE x == ArcAt(r, k).x
           y == ArcAt(r, k).y
           x0 == r + x
           d == -2 * x
           up == r + y
           down == r - y
           t == FR!Horizontal(s, x0, up, x0 + d)
           u == FR!Horizontal(t, x0, down, x0 + d)
           v == DiscNext(r, k, s)
<1>1. x \in Int /\ y \in Int /\ -r =< x /\ 0 =< y /\ y =< r /\ (k \in Visited(r) <=> x =< 0)
  <2>1. x \in Int /\ y \in Int /\ x \in (-r)..1 /\ y \in 0..r
    BY ArcInside
  <2> QED
    BY <2>1 DEF Visited
<1>2. CASE x > 0
  <2>1. v = s /\ k \notin Visited(r)
    BY <1>1, <1>2 DEF DiscNext
  <2> QED
    BY <2>1
<1>3. CASE x =< 0
  <2>1. r - x = x0 + d
    BY <1>1
  <2>2. v = u
    BY <1>1, <1>3, <2>1 DEF DiscNext
  <2>3. x0 \in Nat /\ d \in 0..XRes /\ up \in Nat /\ down \in Nat /\ x0 + d \in Nat /\ FR!Abs((x0 + d) - x0) \in 0..XRes
    <3>1. x0 \in Nat /\ d \in 0..XRes /\ up \in Nat /\ down \in Nat /\ x0 + d \in Nat
      BY <1>1, <1>3, FrameParameters
    <3>2. FR!Abs((x0 + d) - x0) = d
      <4>1. x0 + d \in Int /\ x0 \in Int /\ x0 + d >= x0 /\ (x0 + d) - x0 = d
        BY <3>1, FrameParameters
      <4> HIDE DEF x0, d
      <4> QED
        BY <4>1, Distance
    <3> QED
      BY <3>1, <3>2
  <2>4. Lines(r, k) = FR!Rect(x0, up, d, 1) \cup FR!Rect(x0, down, d, 1)
    BY DEF Lines
  <2> HIDE DEF x0, d, up, down, v
  <2>5. t \in PenType
    BY <2>3, HorizontalType
  <2>6. s.win.x = 0 => t.win.x = 0 /\ Gains(t, s, FR!Rect(x0, up, d, 1))
    BY <2>3, HorizontalDrawn
  <2> HIDE DEF t
  <2>7. u \in PenType
    BY <2>3, <2>5, HorizontalType
  <2>8. t.win.x = 0 => u.win.x = 0 /\ Gains(u, t, FR!Rect(x0, down, d, 1))
    BY <2>3, <2>5, HorizontalDrawn
  <2> HIDE DEF u
  <2>9. k \in Visited(r)
    BY <1>1, <1>3
  <2>10. v \in PenType /\ (s.win.x = 0 => v.win.x = 0 /\ v.got = s.got \cup Lines(r, k))
    BY <2>2, <2>4, <2>6, <2>7, <2>8 DEF Gains
  <2> QED
    BY <2>9, <2>10 DEF v
<1> QED
  BY <1>1, <1>2, <1>3

LEMMA DiscTurns == ASSUME NEW r \in Nat, r > 0, 2 * r < XRes, FR!Now \in PenType
  PROVE  \E f \in [0..(4 * r + 5) -> PenType] :
           /\ FR!FilledCircle(r, r, r) = f[4 * r + 5] /\ f[0] = FR!Now
           /\ \A k \in 1..(4 * r + 5) : f[k] = DiscNext(r, k - 1, f[k - 1])
<1> DEFINE n == 4 * r + 5
           s == FR!Now
           Loop(f) == f = [k \in 0..n |-> IF k = 0 THEN s ELSE DiscNext(r, k - 1, f[k - 1])]
           step == [k \in 1..n |-> [t \in PenType |-> DiscNext(r, k - 1, t)]]
           c == CHOOSE f : Loop(f)
<1>0. n \in Nat /\ n \in 0..n /\ 0 \in 0..n
  OBVIOUS
<1>1. \A k \in 1..n : \A t \in PenType : DiscNext(r, k - 1, t) \in PenType
  BY DiscStep
<1>2. \A k \in 1..n : \A v \in PenType : step[k][v] = DiscNext(r, k - 1, v) /\ step[k][v] \in PenType
  BY <1>1
<1>3. FR!FilledCircle(r, r, r) = c[n]
  BY DEF FR!FilledCircle, DiscNext, ArcAt
<1> HIDE DEF n, s
<1>4. PICK g \in [0..n -> PenType] : Turns(g, n, s, step)
  <2>1. s \in PenType
    BY DEF s
  <2> HIDE DEF step
  <2> QED
    BY <1>0, <1>2, <2>1, TurnsDefine, Zenon
<1>5. \A k \in 0..n : g[k] = IF k = 0 THEN s ELSE DiscNext(r, k - 1, g[k - 1])
  <2> SUFFICES ASSUME NEW k \in 0..n PROVE g[k] = IF k = 0 THEN s ELSE DiscNext(r, k - 1, g[k - 1])
    OBVIOUS
  <2>1. CASE k = 0
    BY <1>4, <2>1 DEF Turns
  <2>2. CASE k # 0
    <3>1. k \in 1..n /\ k - 1 \in 0..n
      BY <1>0, <2>2
    <3>2. g[k - 1] \in PenType
      BY <1>4, <3>1
    <3>3. g[k] = step[k][g[k - 1]]
      BY <1>4, <3>1 DEF Turns
    <3> HIDE DEF step
    <3> QED
      BY <1>2, <2>2, <3>1, <3>2, <3>3
  <2> QED
    BY <2>1, <2>2
<1>6. Loop(g)
  BY <1>4, <1>5
<1> HIDE DEF step
<1>7. Loop(c)
  <2> HIDE DEF Loop
  <2> QED
    BY <1>6
<1> HIDE DEF c
<1>8. c[0] = s /\ \A k \in 1..n : c[k] = DiscNext(r, k - 1, c[k - 1])
  <2>1. \A k \in 0..n : c[k] = IF k = 0 THEN s ELSE DiscNext(r, k - 1, c[k - 1])
    BY <1>7
  <2>2. 0 \in 0..n /\ \A k \in 1..n : k \in 0..n /\ k # 0
    BY <1>0
  <2> HIDE DEF Loop
  <2> QED
    BY <2>1, <2>2
<1>9. \A k \in 0..n : c[k] \in PenType
  <2> DEFINE G == {j \in 0..n : c[j] \in PenType}
  <2>1. 0 \in G
    BY <1>0, <1>8 DEF s
  <2>2. \A k \in 1..n : k - 1 \in G => k \in G
    BY <1>0, <1>1, <1>8
  <2> HIDE DEF G
  <2>3. \A k \in 0..n : k \in G
    BY <1>0, <2>1, <2>2, CountsUp
  <2> QED
    BY <2>3 DEF G
<1>10. c \in [0..n -> PenType]
  <2>1. c = [k \in 0..n |-> c[k]]
    BY <1>7
  <2> HIDE DEF Loop
  <2> QED
    BY <1>9, <2>1
<1> QED
  BY <1>3, <1>8, <1>10 DEF n, s

LEMMA DiscIsLines == ASSUME NEW r \in Nat
  PROVE  FR!Disc(r, r, r) = UNION {Lines(r, k) : k \in Visited(r)}
<1> DEFINE A == FR!Disc(r, r, r)
           B == UNION {Lines(r, k) : k \in Visited(r)}
           rect(q, sy) == FR!Rect(r + q[1], r + sy * q[2], -2 * q[1], 1)
           at(k) == <<ArcAt(r, k).x, ArcAt(r, k).y>>
<1>1. A = UNION {rect(q, sy) : q \in FR!Points(r), sy \in {1, -1}}
  BY DEF FR!Disc
<1>2. \A k \in Visited(r) : Lines(r, k) = rect(at(k), 1) \cup rect(at(k), -1)
  <2> SUFFICES ASSUME NEW k \in Visited(r) PROVE Lines(r, k) = rect(at(k), 1) \cup rect(at(k), -1)
    OBVIOUS
  <2> DEFINE x == ArcAt(r, k).x
             y == ArcAt(r, k).y
  <2>1. y \in Int
    <3>1. k \in 0..(4 * r + 4)
      BY DEF Visited
    <3>2. FR!Arc(r)[k] \in ArcType
      BY <3>1, ArcTurns
    <3> QED
      BY <3>2 DEF ArcAt, ArcType
  <2>2. r + 1 * y = r + y /\ r + (-1) * y = r - y
    BY <2>1
  <2>3. rect(at(k), 1) = FR!Rect(r + x, r + 1 * y, -2 * x, 1) /\ rect(at(k), -1) = FR!Rect(r + x, r + (-1) * y, -2 * x, 1)
    OBVIOUS
  <2>4. Lines(r, k) = FR!Rect(r + x, r + y, -2 * x, 1) \cup FR!Rect(r + x, r - y, -2 * x, 1)
    BY DEF Lines
  <2> HIDE DEF x, y, rect, at
  <2> QED
    BY <2>2, <2>3, <2>4, Zenon
<1>3. (\A q \in FR!Points(r) : \E k \in Visited(r) : q = at(k)) /\ \A k \in Visited(r) : at(k) \in FR!Points(r)
  BY PointsVisited
<1> HIDE DEF rect, at, A
<1>4. ASSUME NEW p \in A PROVE p \in B
  <2>1. PICK q \in FR!Points(r), sy \in {1, -1} : p \in rect(q, sy)
    BY <1>1
  <2>2. PICK k \in Visited(r) : q = at(k)
    BY <1>3
  <2>3. p \in Lines(r, k)
    BY <1>2, <2>1, <2>2
  <2> QED
    BY <2>3
<1>5. ASSUME NEW p \in B PROVE p \in A
  <2>1. PICK k \in Visited(r) : p \in Lines(r, k)
    OBVIOUS
  <2>2. PICK sy \in {1, -1} : p \in rect(at(k), sy)
    BY <1>2, <2>1
  <2>3. at(k) \in FR!Points(r)
    BY <1>3
  <2> QED
    BY <1>1, <2>2, <2>3
<1> HIDE DEF B
<1>6. A = B
  BY <1>4, <1>5
<1> QED
  BY <1>6 DEF A, B

LEMMA DiscDrawn == ASSUME NEW r \in Nat, r > 0, 2 * r < XRes, FR!Now \in PenType
  PROVE  /\ FR!FilledCircle(r, r, r) \in PenType
         /\ FR!Now.win.x = 0 => FR!FilledCircle(r, r, r).got = FR!Now.got \cup FR!Disc(r, r, r)
<1> DEFINE n == 4 * r + 5
           s == FR!Now
           Earlier(k) == {j \in Visited(r) : j < k}
           Sofar(k) == UNION {Lines(r, j) : j \in Earlier(k)}
<1>1. PICK f \in [0..n -> PenType] :
           /\ FR!FilledCircle(r, r, r) = f[n] /\ f[0] = s
           /\ \A k \in 1..n : f[k] = DiscNext(r, k - 1, f[k - 1])
  BY DiscTurns
<1>0. n \in Nat /\ n \in 0..n
  OBVIOUS
<1> HIDE DEF n, s
<1>2. f[n] \in PenType
  BY <1>0
<1>3. ASSUME s.win.x = 0 PROVE f[n].got = s.got \cup Sofar(n)
  <2> DEFINE G == {k \in 0..n : f[k].win.x = 0 /\ f[k].got = s.got \cup Sofar(k)}
  <2>1. 0 \in G
    <3>1. Earlier(0) = {}
      BY DEF Visited
    <3>2. Sofar(0) = {}
      BY <3>1
    <3> HIDE DEF Sofar
    <3> QED
      BY <1>0, <1>1, <1>3, <3>2
  <2>2. ASSUME NEW k \in 1..n, k - 1 \in G PROVE k \in G
    <3> DEFINE v == f[k - 1]
               j == k - 1
    <3>1. v \in PenType /\ v.win.x = 0 /\ v.got = s.got \cup Sofar(j)
      BY <1>0, <2>2
    <3>2. f[k] = DiscNext(r, j, v) /\ j \in 0..(4 * r + 4) /\ k \in 0..n /\ k = j + 1 /\ j \in Nat
      BY <1>1, <1>0 DEF n
    <3> HIDE DEF v, j, G, Sofar
    <3>3. f[k].win.x = 0
      BY <3>1, <3>2, DiscStep
    <3>4. CASE j \in Visited(r)
      <4>1. Earlier(k) = Earlier(j) \cup {j}
        BY <3>2, <3>4 DEF Visited
      <4>2. Sofar(k) = Sofar(j) \cup Lines(r, j)
        <5> HIDE DEF Earlier
        <5> QED
          BY <4>1 DEF Sofar
      <4>3. f[k].got = v.got \cup Lines(r, j)
        BY <3>1, <3>2, <3>4, DiscStep
      <4>4. f[k].got = s.got \cup Sofar(k)
        BY <3>1, <4>2, <4>3
      <4> QED
        BY <3>2, <3>3, <4>4 DEF G
    <3>5. CASE j \notin Visited(r)
      <4>1. Earlier(k) = Earlier(j)
        BY <3>2, <3>5 DEF Visited
      <4>2. Sofar(k) = Sofar(j)
        <5> HIDE DEF Earlier
        <5> QED
          BY <4>1 DEF Sofar
      <4>3. f[k].got = v.got
        BY <3>1, <3>2, <3>5, DiscStep
      <4>4. f[k].got = s.got \cup Sofar(k)
        BY <3>1, <4>2, <4>3
      <4> QED
        BY <3>2, <3>3, <4>4 DEF G
    <3> QED
      BY <3>4, <3>5
  <2> HIDE DEF G
  <2>3. \A k \in 0..n : k \in G
    BY <1>0, <2>1, <2>2, CountsUp
  <2> QED
    BY <1>0, <2>3 DEF G
<1>4. Earlier(n) = Visited(r)
  BY DEF Visited, n
<1>5. Sofar(n) = FR!Disc(r, r, r)
  <2> HIDE DEF Earlier
  <2> QED
    BY <1>4, DiscIsLines
<1> HIDE DEF Sofar
<1> QED
  BY <1>1, <1>2, <1>3, <1>5 DEF s

-----------------------------------------------------------------------------
(***************************************************************************)
(* The framebuffer: its buffer, its window, and what has been drawn.       *)
(***************************************************************************)
FrameInv ==
  /\ fb.dev # "zero" => fb.buf \/ drawn.broken
  /\ {"dev", "buf"} \subseteq DOMAIN fb /\ fb.dev \in {"zero", "open", "failed"}
  /\ {"got", "want", "left", "back", "circle", "said", "broken"} \subseteq DOMAIN drawn
  /\ drawn.said \in {"OK", "already"} => fb.dev # "zero"
  /\ win \in WinType
  /\ drawn.got = drawn.want \/ drawn.left \/ drawn.back
  /\ drawn.circle = 0 \/ RoundOf(drawn.circle, drawn.got)

LEMMA FrameBegins == ASSUME FR!Init PROVE FrameInv
<1> DEFINE no == FALSE
           zero == 0
<1>1. win = [init |-> no, ptr |-> zero, x |-> zero, xmax |-> zero]
  BY DEF FR!Init
<1>2. no \in BOOLEAN /\ zero \in Nat /\ zero \in 0..XRes
  BY FrameParameters
<1>3. win \in WinType
  <2> HIDE DEF no, zero
  <2> QED
    BY <1>1, <1>2 DEF WinType
<1>4. drawn.got = drawn.want /\ drawn.circle = 0
  BY DEF FR!Init
<1> QED
  BY <1>3, <1>4 DEF FR!Init, FrameInv

\* Drawing leaves the buffer and the state of the device as they are.
LEMMA FrameDrawn ==
  ASSUME FrameInv, NEW s \in PenType, NEW asked, NEW back, NEW circle, FR!Drawn(s, asked, back, circle),
         win.x = 0 => s.got = asked \/ back, circle = 0 \/ RoundOf(circle, s.got)
  PROVE  FrameInv'
<1> DEFINE ops == drawn.ops + 1
           left == win.x # 0
           got == s.got
           d == [drawn EXCEPT !.ops = ops, !.got = got, !.want = asked, !.back = back, !.circle = circle, !.left = left]
<1>1. drawn' = d /\ win' = s.win /\ fb' = fb
  BY DEF FR!Drawn
<1>2. got = asked \/ left \/ back
  OBVIOUS
<1> HIDE DEF ops, left
<1>3. {"got", "want", "left", "back", "circle", "said", "broken"} \subseteq DOMAIN drawn
  BY DEF FrameInv
<1>4. /\ d.got = got /\ d.want = asked /\ d.left = left /\ d.back = back /\ d.circle = circle
      /\ d.said = drawn.said /\ d.broken = drawn.broken /\ DOMAIN d = DOMAIN drawn
  <2> HIDE DEF got
  <2> QED
    BY <1>3
<1> HIDE DEF d
<1>5. s.win \in WinType
  BY PenFields
<1>6. d.circle = 0 \/ RoundOf(d.circle, d.got)
  BY <1>4
<1> QED
  BY <1>1, <1>2, <1>3, <1>4, <1>5, <1>6 DEF FrameInv

LEMMA FrameOpened == ASSUME FrameInv, NEW result, NEW multi, FR!FrameBufferInit(result, multi) PROVE FrameInv'
<1> DEFINE bad == result \in {"open", "info"}
           ops == drawn.ops + 1
           already == "already"
<1>0. /\ win' = win /\ win \in WinType
      /\ {"got", "want", "left", "back", "circle", "said", "broken"} \subseteq DOMAIN drawn
  BY DEF FR!FrameBufferInit, FrameInv
<1>1. CASE fb.dev # "zero"
  <2> DEFINE broken == drawn.broken \/ (fb.dev = "zero" /\ bad)
  <2>1. fb' = fb /\ drawn' = [drawn EXCEPT !.ops = ops, !.said = already, !.broken = broken]
    BY <1>1 DEF FR!FrameBufferInit
  <2>2. broken = drawn.broken \/ (broken <=> drawn.broken)
    BY <1>1
  <2>3. drawn.broken => broken
    OBVIOUS
  <2> HIDE DEF ops, broken
  <2>4. /\ drawn'.broken = broken /\ DOMAIN drawn' = DOMAIN drawn
        /\ drawn'.got = drawn.got /\ drawn'.want = drawn.want /\ drawn'.left = drawn.left
        /\ drawn'.back = drawn.back /\ drawn'.circle = drawn.circle
    BY <1>0, <2>1
  <2>5. fb'.dev # "zero" /\ (fb'.buf \/ drawn'.broken)
    BY <1>1, <2>1, <2>3, <2>4 DEF FrameInv
  <2> QED
    BY <1>0, <2>1, <2>4, <2>5 DEF FrameInv
<1>2. CASE fb.dev = "zero"
  <2> DEFINE dev == IF result = "open" THEN "failed" ELSE "open"
             live == ~bad
             broken == drawn.broken \/ bad
  <2>1. fb' = [dev |-> dev, buf |-> live] /\ drawn' = [drawn EXCEPT !.ops = ops, !.said = result, !.broken = broken]
    BY <1>2 DEF FR!FrameBufferInit, FR!Allocated
  <2>2. dev # "zero" /\ dev \in {"zero", "open", "failed"} /\ (live \/ broken)
    OBVIOUS
  <2> HIDE DEF dev, live, ops, broken
  <2>3. fb'.dev = dev /\ fb'.buf = live /\ {"dev", "buf"} \subseteq DOMAIN fb'
    BY <2>1
  <2>4. /\ drawn'.broken = broken /\ DOMAIN drawn' = DOMAIN drawn
        /\ drawn'.got = drawn.got /\ drawn'.want = drawn.want /\ drawn'.left = drawn.left
        /\ drawn'.back = drawn.back /\ drawn'.circle = drawn.circle
    BY <1>0, <2>1
  <2> QED
    BY <1>0, <2>2, <2>3, <2>4 DEF FrameInv
<1> QED
  BY <1>1, <1>2

LEMMA FrameClosed == ASSUME FrameInv, FR!FrameBufferDeInit PROVE FrameInv'
<1> DEFINE ops == drawn.ops + 1
           yes == TRUE
           no == FALSE
<1>0. /\ win' = win /\ win \in WinType
      /\ {"got", "want", "left", "back", "circle", "said", "broken"} \subseteq DOMAIN drawn
      /\ {"dev", "buf"} \subseteq DOMAIN fb
  BY DEF FR!FrameBufferDeInit, FrameInv
<1>1. fb' = [fb EXCEPT !.buf = no] /\ drawn' = [drawn EXCEPT !.ops = ops, !.broken = yes] /\ yes
  BY DEF FR!FrameBufferDeInit
<1> HIDE DEF ops, yes, no
<1>2. fb'.dev = fb.dev /\ DOMAIN fb' = DOMAIN fb
  BY <1>0, <1>1
<1>3. /\ drawn'.broken /\ DOMAIN drawn' = DOMAIN drawn /\ drawn'.said = drawn.said
      /\ drawn'.got = drawn.got /\ drawn'.want = drawn.want /\ drawn'.left = drawn.left
      /\ drawn'.back = drawn.back /\ drawn'.circle = drawn.circle
  BY <1>0, <1>1
<1> QED
  BY <1>0, <1>2, <1>3 DEF FrameInv

LEMMA FrameUnchanged == ASSUME FrameInv, UNCHANGED frameVars PROVE FrameInv'
BY DEF frameVars, FrameInv

\* Nothing is drawn yet.
LEMMA NowType == ASSUME FrameInv PROVE FR!Now \in PenType /\ FR!Now.got = {} /\ FR!Now.win.x = win.x
<1> DEFINE none == {}
<1>1. FR!Now = [win |-> win, got |-> none] /\ win \in WinType /\ none \in SUBSET Int
  BY DEF FR!Now, FrameInv
<1>2. none = {}
  OBVIOUS
<1> HIDE DEF none
<1> QED
  BY <1>1, <1>2 DEF PenType

LEMMA SpotFacts == ASSUME NEW x \in Spots
  PROVE  x \in Nat /\ x < XRes /\ x < YRes /\ XRes > 0 /\ XRes \in Nat
BY FrameParameters

LEMMA SideFacts == ASSUME NEW d \in Sides \cup Radii
  PROVE  d \in Nat /\ d > 0 /\ d \in 1..XRes /\ d \in 0..XRes /\ 2 * d < XRes /\ 2 * d \in 0..XRes /\ XRes > 0
BY FrameParameters

LEMMA WindowFlushed ==
  ASSUME FrameInv, NEW x \in Spots, NEW y \in Spots, NEW sx \in Sides, NEW sy \in Sides, FR!FlushWindow(x, y, sx, sy)
  PROVE  FrameInv'
<1> DEFINE s == FR!Now
           t == FR!Stroke(s, x, y, sx, sx * sy)
           R == FR!Rect(x, y, sx, sy)
           no == FALSE
<1>1. s \in PenType /\ s.got = {} /\ s.win.x = win.x /\ x \in Nat /\ y \in Nat
  BY NowType, SpotFacts
<1>2. sx \in 0..XRes /\ sx \in 1..XRes /\ sy \in Nat /\ sx * sy \in Nat
  BY SideFacts
<1>3. FR!Drawn(t, R, no, 0)
  BY DEF FR!FlushWindow
<1> HIDE DEF s
<1>4. t \in PenType
  BY <1>1, <1>2, StrokeType
<1>5. win.x = 0 => Fills(t, s, R)
  BY <1>1, <1>2, StrokeFills
<1> HIDE DEF t, R, no
<1>6. win.x = 0 => t.got = R
  BY <1>1, <1>5 DEF Fills
<1> QED
  BY <1>3, <1>4, <1>6, FrameDrawn

LEMMA PartFilled ==
  ASSUME FrameInv, NEW x \in Spots, NEW y \in Spots, NEW sx \in Sides, NEW len \in 1..sx, FR!FillPart(x, y, sx, len)
  PROVE  FrameInv'
<1> DEFINE s == FR!Now
           t == FR!Stroke(s, x, y, sx, len)
           R == FR!Rect(x, y, len, 1)
           no == FALSE
<1>1. s \in PenType /\ s.got = {} /\ s.win.x = win.x /\ x \in Nat /\ y \in Nat
  BY NowType, SpotFacts
<1>2. sx \in 0..XRes /\ sx \in 1..XRes /\ len \in Nat /\ len < sx
  BY SideFacts DEF FR!FillPart
<1>3. FR!Drawn(t, R, no, 0)
  BY DEF FR!FillPart
<1> HIDE DEF s
<1>4. t \in PenType
  BY <1>1, <1>2, StrokeType
<1>5. ASSUME win.x = 0 PROVE t.got = s.got \cup R
  <2>1. s.win.x = 0
    BY <1>1, <1>5
  <2>2. Gains(t, s, R)
    BY <1>1, <1>2, <2>1, StrokeStops
  <2> HIDE DEF t, R
  <2> QED
    BY <2>2 DEF Gains
<1> HIDE DEF t, R, no
<1>6. win.x = 0 => t.got = R
  BY <1>1, <1>5
<1> QED
  BY <1>3, <1>4, <1>6, FrameDrawn

LEMMA TextPrinted ==
  ASSUME FrameInv, NEW x \in Spots, NEW y \in Spots, NEW fx \in Sides, NEW fy \in Sides, FR!PrintText(x, y, fx, fy)
  PROVE  FrameInv'
<1> DEFINE s == FR!Now
           area == fx * fy
           x1 == x + fx
           t == FR!Stroke(s, x, y, fx, area)
           u == FR!Stroke(t, x1, y, fx, area)
           R == FR!Rect(x, y, fx, fy)
           R1 == FR!Rect(x1, y, fx, fy)
           W == FR!Rect(x, y, 2 * fx, fy)
           no == FALSE
<1>1. s \in PenType /\ s.got = {} /\ s.win.x = win.x /\ x \in Nat /\ y \in Nat
  BY NowType, SpotFacts
<1>2. fx \in 0..XRes /\ fx \in 1..XRes /\ fx \in Nat /\ fy \in Nat /\ area \in Nat /\ x1 \in Nat
  BY <1>1, SideFacts
<1>3. FR!Drawn(u, W, no, 0)
  BY DEF FR!PrintText
<1>4. R \cup R1 = W
  <2>1. x \in Int /\ y \in Int /\ fx + fx = 2 * fx
    BY <1>1, <1>2
  <2>2. Joined(FR!Rect(x, y, fx, fy), FR!Rect(x + fx, y, fx, fy), FR!Rect(x, y, fx + fx, fy))
    <3>1. fx \in Nat /\ fy \in Nat
      BY <1>2
    <3> QED
      BY <2>1, <3>1, RectJoins
  <2> QED
    BY <2>1, <2>2 DEF Joined
<1> HIDE DEF s, x1
<1>5. t \in PenType /\ (win.x = 0 => Fills(t, s, R))
  BY <1>1, <1>2, StrokeType, StrokeFills
<1>6. win.x = 0 => t.win.x = 0 /\ t.got = R
  <2> HIDE DEF t, R
  <2> QED
    BY <1>1, <1>5 DEF Fills
<1> HIDE DEF t
<1>7. u \in PenType /\ (win.x = 0 => Fills(u, t, R1))
  BY <1>1, <1>2, <1>5, <1>6, StrokeType, StrokeFills
<1> HIDE DEF u, R, R1, W, no
<1>8. win.x = 0 => u.got = W
  BY <1>4, <1>6, <1>7 DEF Fills
<1> QED
  BY <1>3, <1>7, <1>8, FrameDrawn

\* ClearScreen, DrawPic32 and DrawCircle32 leave the window alone.
LEMMA PixelsDrawn ==
  ASSUME FrameInv, NEW got \in SUBSET Int, NEW circle, FR!Drawn([win |-> win, got |-> got], got, FALSE, circle),
         circle = 0 \/ RoundOf(circle, got)
  PROVE  FrameInv'
<1> DEFINE s == [win |-> win, got |-> got]
           no == FALSE
<1>1. win \in WinType
  BY DEF FrameInv
<1>2. s \in PenType /\ s.got = got
  BY <1>1 DEF PenType
<1>3. FR!Drawn(s, got, no, circle)
  OBVIOUS
<1> HIDE DEF s, no
<1> QED
  BY <1>2, <1>3, FrameDrawn

LEMMA ScreenCleared == ASSUME FrameInv, FR!ClearScreen PROVE FrameInv'
<1>1. FR!Drawn([win |-> win, got |-> 0..(XRes * YRes - 1)], 0..(XRes * YRes - 1), FALSE, 0)
  BY ScreenIsRect DEF FR!ClearScreen
<1>2. 0..(XRes * YRes - 1) \in SUBSET Int
  BY FrameParameters
<1> HIDE <1>2
<1> QED
  BY <1>1, <1>2, PixelsDrawn

LEMMA PictureDrawn ==
  ASSUME FrameInv, NEW x \in Spots, NEW y \in Spots, NEW sx \in Sides, NEW sy \in Sides, FR!DrawPic32(x, y, sx, sy)
  PROVE  FrameInv'
<1> DEFINE P == FR!Rect(x, y, sx, sy)
<1>1. x \in Int /\ y \in Int /\ sx \in Nat /\ sy \in Nat
  BY SpotFacts, SideFacts
<1>2. FR!Picture(x, y, sx, sy) = P /\ P \in SUBSET Int
  BY <1>1, PictureIsRect, RectIsRows
<1>3. FR!Drawn([win |-> win, got |-> P], P, FALSE, 0)
  BY <1>2 DEF FR!DrawPic32
<1> HIDE DEF P
<1> QED
  BY <1>2, <1>3, PixelsDrawn

LEMMA CircleDrawn == ASSUME FrameInv, NEW r \in Radii, FR!DrawCircle32(r, r, r) PROVE FrameInv'
<1> DEFINE C == FR!Circle(r, r, r)
<1>1. r \in Nat /\ r > 0 /\ 2 * r < XRes
  BY SideFacts
<1>2. RoundOf(r, C)
  BY <1>1, CircleIsRound
<1>3. C \in SUBSET Int
  <2>1. \A p \in C : \E k \in Visited(r), sx \in {1, -1}, sy \in {1, -1} : p = Ring(r, k, sx, sy)
    BY <1>1, CircleIsRing
  <2>2. \A k \in Visited(r), sx \in {1, -1}, sy \in {1, -1} : Ring(r, k, sx, sy) \in Int
    BY <1>1, RingDecodes
  <2> HIDE DEF C
  <2> QED
    BY <2>1, <2>2
<1>4. FR!Drawn([win |-> win, got |-> C], C, FALSE, r)
  BY DEF FR!DrawCircle32
<1> HIDE DEF C
<1> QED
  BY <1>2, <1>3, <1>4, PixelsDrawn

\* Lines run right and down from their first point.
LEMMA HorizontalLine ==
  ASSUME FrameInv, NEW x \in Spots, NEW y \in Spots, NEW z \in Spots, FR!DrawHorizontalLine32(x, y, z)
  PROVE  FrameInv'
<1> DEFINE s == FR!Now
           t == FR!Horizontal(s, x, y, z)
           R == FR!Rect(FR!Least(x, z), y, FR!Abs(z - x), 1)
           back == z < x
<1>1. s \in PenType /\ s.got = {} /\ s.win.x = win.x
  BY NowType
<1>2. /\ x \in Nat /\ y \in Nat /\ z \in Nat /\ x \in Int /\ z \in Int
      /\ x < XRes /\ z < XRes /\ XRes \in Nat
  BY SpotFacts
<1>3. FR!Drawn(t, R, back, 0)
  BY DEF FR!DrawHorizontalLine32
<1>4. FR!Abs(z - x) \in 0..XRes
  BY <1>2 DEF FR!Abs
<1> HIDE DEF s
<1>5. t \in PenType
  BY <1>1, <1>2, <1>4, HorizontalType
<1>6. ASSUME win.x = 0, z >= x PROVE t.got = R
  <2> DEFINE d == z - x
             S == FR!Rect(x, y, d, 1)
  <2>1. d \in 0..XRes /\ x + d = z /\ s.win.x = 0
    BY <1>1, <1>2, <1>6
  <2>2. FR!Abs(z - x) = d /\ FR!Least(x, z) = x
    <3>1. FR!Abs(z - x) = d
      BY <1>2, <1>6 DEF FR!Abs
    <3>2. FR!Least(x, z) = x
      BY <1>2, <1>6 DEF FR!Least
    <3> QED
      BY <3>1, <3>2
  <2>3. R = S
    BY <2>2
  <2> HIDE DEF d
  <2>4. Gains(FR!Horizontal(s, x, y, x + d), s, S)
    BY <1>1, <1>2, <2>1, HorizontalDrawn
  <2>5. Gains(t, s, S)
    BY <2>1, <2>4
  <2> HIDE DEF t, R, S
  <2> QED
    BY <1>1, <2>3, <2>5 DEF Gains
<1>7. back \/ z >= x
  BY <1>2
<1> HIDE DEF t, R, back
<1> QED
  BY <1>3, <1>5, <1>6, <1>7, FrameDrawn

LEMMA VerticalLine ==
  ASSUME FrameInv, NEW x \in Spots, NEW y \in Spots, NEW z \in Spots, FR!DrawVerticalLine32(x, y, z)
  PROVE  FrameInv'
<1> DEFINE s == FR!Now
           t == FR!Vertical(s, x, y, z)
           R == FR!Rect(x, FR!Least(y, z), 1, FR!Abs(z - y))
           back == z < y
<1>1. s \in PenType /\ s.got = {} /\ s.win.x = win.x
  BY NowType
<1>2. x \in Nat /\ y \in Nat /\ z \in Nat /\ XRes > 0
  BY SpotFacts
<1>3. FR!Drawn(t, R, back, 0)
  BY DEF FR!DrawVerticalLine32
<1> HIDE DEF s
<1>5. t \in PenType
  BY <1>1, <1>2, VerticalType
<1>6. ASSUME win.x = 0, z >= y PROVE t.got = R
  <2> DEFINE d == z - y
             S == FR!Rect(x, y, 1, d)
  <2>1. d \in Nat /\ y + d = z /\ s.win.x = 0
    BY <1>1, <1>2, <1>6
  <2>2. FR!Abs(z - y) = d /\ FR!Least(y, z) = y
    <3>1. FR!Abs(z - y) = d
      BY <1>2, <1>6 DEF FR!Abs
    <3>2. FR!Least(y, z) = y
      BY <1>2, <1>6 DEF FR!Least
    <3> QED
      BY <3>1, <3>2
  <2>3. R = S
    BY <2>2
  <2> HIDE DEF d
  <2>4. Gains(FR!Vertical(s, x, y, y + d), s, S)
    BY <1>1, <1>2, <2>1, VerticalDrawn
  <2>5. Gains(t, s, S)
    BY <2>1, <2>4
  <2> HIDE DEF t, R, S
  <2> QED
    BY <1>1, <2>3, <2>5 DEF Gains
<1>7. back \/ z >= y
  BY <1>2
<1> HIDE DEF t, R, back
<1> QED
  BY <1>3, <1>5, <1>6, <1>7, FrameDrawn

LEMMA CrossDrawn == ASSUME FrameInv, NEW r \in Sides, FR!DrawCross(r, r, r) PROVE FrameInv'
<1> DEFINE s == FR!Now
           d == 2 * r
           t == FR!Horizontal(s, 0, r, 0 + d)
           u == FR!Vertical(t, r, 0, 0 + d)
           H == FR!Rect(0, r, d, 1)
           V == FR!Rect(r, 0, 1, d)
           no == FALSE
           both == H \cup V
<1>1. s \in PenType /\ s.got = {} /\ s.win.x = win.x
  BY NowType
<1>2. r \in Nat /\ d \in Nat /\ d \in 0..XRes /\ XRes > 0 /\ r - r = 0 /\ r + r = 0 + d /\ 0 \in Nat /\ 0 + d \in Nat /\ (0 + d) - 0 = d
  BY SideFacts
<1>3. FR!Drawn(u, both, no, 0)
  BY <1>2 DEF FR!DrawCross
<1>4. FR!Abs((0 + d) - 0) \in 0..XRes
  BY <1>2 DEF FR!Abs
<1> HIDE DEF s, d
<1>5. t \in PenType
  BY <1>1, <1>2, <1>4, HorizontalType
<1>6. ASSUME win.x = 0 PROVE t.win.x = 0 /\ Gains(t, s, H)
  <2>1. s.win.x = 0
    BY <1>1, <1>6
  <2> QED
    BY <1>1, <1>2, <2>1, HorizontalDrawn
<1> HIDE DEF t
<1>7. u \in PenType
  BY <1>2, <1>5, VerticalType
<1>8. ASSUME win.x = 0 PROVE Gains(u, t, V)
  BY <1>2, <1>5, <1>6, <1>8, VerticalDrawn
<1> HIDE DEF u, H, V, no
<1>9. win.x = 0 => u.got = both
  BY <1>1, <1>6, <1>8 DEF Gains
<1> HIDE DEF both
<1> QED
  BY <1>3, <1>7, <1>9, FrameDrawn

LEMMA FilledCircleDrawn == ASSUME FrameInv, NEW r \in Sides, FR!DrawFilledCircle32(r, r, r) PROVE FrameInv'
<1> DEFINE s == FR!Now
           t == FR!FilledCircle(r, r, r)
           D == FR!Disc(r, r, r)
           no == FALSE
<1>1. s \in PenType /\ s.got = {} /\ s.win.x = win.x
  BY NowType
<1>2. r \in Nat /\ r > 0 /\ 2 * r < XRes
  BY SideFacts
<1>3. FR!Drawn(t, D, no, 0)
  BY DEF FR!DrawFilledCircle32
<1>4. t \in PenType /\ (s.win.x = 0 => t.got = s.got \cup D)
  BY <1>1, <1>2, DiscDrawn
<1> HIDE DEF s, t, D, no
<1>5. win.x = 0 => t.got = D
  BY <1>1, <1>4
<1> QED
  BY <1>3, <1>4, <1>5, FrameDrawn

LEMMA FrameSteps == ASSUME FrameInv, FR!Next PROVE FrameInv'
<1>1. CASE FR!Enough
  BY <1>1, FrameUnchanged DEF FR!Enough, FR!vars, frameVars
<1>2. CASE \E result \in {"open", "info", "resolution", "OK"}, multi \in BOOLEAN :
             (result = "resolution" => multi) /\ FR!FrameBufferInit(result, multi)
  BY <1>2, FrameOpened
<1>3. CASE FR!FrameBufferDeInit \/ FR!ClearScreen
  BY <1>3, FrameClosed, ScreenCleared
<1>4. ASSUME NEW x \in Spots, NEW y \in Spots, NEW sx \in Sides, NEW sy \in Sides,
             FR!FlushWindow(x, y, sx, sy) \/ FR!PrintText(x, y, sx, sy) \/ FR!DrawPic32(x, y, sx, sy)
      PROVE  FrameInv'
  BY <1>4, WindowFlushed, TextPrinted, PictureDrawn
<1>5. ASSUME NEW x \in Spots, NEW y \in Spots, NEW sx \in Sides, NEW n \in 1..sx, FR!FillPart(x, y, sx, n) PROVE FrameInv'
  BY <1>5, PartFilled
<1>6. ASSUME NEW x \in Spots, NEW y \in Spots, NEW z \in Spots,
             FR!DrawHorizontalLine32(x, y, z) \/ FR!DrawVerticalLine32(x, y, z)
      PROVE  FrameInv'
  BY <1>6, HorizontalLine, VerticalLine
<1>7. ASSUME NEW r \in Radii, FR!DrawCircle32(r, r, r) PROVE FrameInv'
  BY <1>7, CircleDrawn
<1>8. ASSUME NEW r \in Sides, FR!DrawCross(r, r, r) \/ FR!DrawFilledCircle32(r, r, r) PROVE FrameInv'
  BY <1>8, CrossDrawn, FilledCircleDrawn
<1> QED
  BY <1>1, <1>2, <1>3, <1>4, <1>5, <1>6, <1>7, <1>8 DEF FR!Next

LEMMA FrameIsTrue == ASSUME FrameInv PROVE FR!BufferLive /\ FR!DrawnExact /\ FR!Round /\ FR!TypeOK
<1>1. FR!BufferLive
  BY DEF FrameInv, FR!BufferLive
<1>2. FR!DrawnExact
  BY DEF FrameInv, FR!DrawnExact
<1>3. FR!Round
  <2>1. drawn.circle > 0 => drawn.circle # 0
    OBVIOUS
  <2>2. drawn.circle > 0 => RoundOf(drawn.circle, drawn.got)
    BY <2>1 DEF FrameInv
  <2> QED
    BY <2>2 DEF FR!Round, RoundOf
<1>4. FR!TypeOK
  BY DEF FrameInv, WinType, FR!TypeOK
<1> QED
  BY <1>1, <1>2, <1>3, <1>4

-----------------------------------------------------------------------------
BoardInv == (part = "clock" => ClockInv) /\ (part = "pins" => PinsInv) /\ (part = "frame" => FrameInv)

LEMMA BoardKeeps == Spec => []BoardInv
<1>1. Init => BoardInv
  BY ClockBegins, PinsBegin, FrameBegins DEF Init, BoardInv
<1>2. BoardInv /\ [Next]_vars => BoardInv'
  <2> SUFFICES ASSUME BoardInv, [Next]_vars PROVE BoardInv'
    OBVIOUS
  <2>1. CASE ClockStep
    <3>1. part = "clock" /\ part' = part /\ CK!Next
      BY <2>1 DEF ClockStep, Others
    <3> QED
      BY <3>1, ClockSteps DEF BoardInv
  <2>2. CASE PinsStep
    <3>1. part = "pins" /\ part' = part /\ PN!Next
      BY <2>2 DEF PinsStep, Others
    <3> QED
      BY <3>1, PinSteps DEF BoardInv
  <2>3. CASE FrameStep
    <3>1. part = "frame" /\ part' = part /\ FR!Next
      BY <2>3 DEF FrameStep, Others
    <3> QED
      BY <3>1, FrameSteps DEF BoardInv
  <2>4. CASE ~ClockStep /\ ~PinsStep /\ ~FrameStep
    <3>1. /\ part' = part
          /\ part = "clock" => UNCHANGED clockVars
          /\ part = "pins" => UNCHANGED pinVars
          /\ part = "frame" => UNCHANGED frameVars
      BY <2>4 DEF Next, Others, RadioStep, MachineStep, RfidStep, I2CStep, OneWireStep, SensorsStep, vars
    <3> QED
      BY <3>1, ClockUnchanged, PinsUnchanged, FrameUnchanged DEF BoardInv
  <2> QED
    BY <2>1, <2>2, <2>3, <2>4
<1> QED
  BY <1>1, <1>2, PTL DEF Spec

\* What the library believes of clock, pins and screen is so: the frequencies that
\* Update computes and EnablePLL stores, the time DelayUs waits, the function of a pin and
\* the levels of the pins 0 to 31, the back buffer, the pixels of every figure and the
\* roundness of every circle, for every crystal, multiplier and duration, every set of
\* pins, and every size of the screen and of what is drawn.  Excepted are the factors 2
\* and 3 and AHB dividers of 64 and more in Update; a stored frequency after a change of
\* the source, on HSI or with a running PLL; a delay with such a frequency or whose
\* product wraps; a pin that had another function or shares a register with one that
\* was initialized later; the levels of the pins from 32 on, whose calls act on the pin
\* behind; a screen whose Init failed; and lines to the left or upwards and drawings
\* that begin in an unfinished window.
THEOREM BoardIsAsBelieved == Spec => []BoardTrue
<1>1. BoardInv => BoardTrue
  BY FrameIsTrue, PinsImply
     DEF BoardInv, ClockInv, PinsInv, BoardTrue, UpdateTrue, StoredTrue, DelayLong, FunctionGiven, LevelDriven,
         BufferLive, DrawnExact, Round
<1> QED
  BY <1>1, BoardKeeps, PTL

-----------------------------------------------------------------------------
\* The types of all drivers.
LEMMA ClockTypeOK == ASSUME ClockInv PROVE CK!TypeOK
BY ClockFields, ClockParameters DEF ClockInv, ClockTypes, TreeKnown, CK!TypeOK

LEMMA PinsTypeOK == ASSUME PinsInv PROVE PN!TypeOK
BY DEF PinsInv, SocType, PN!TypeOK

LEMMA SensorsTypeOK == ASSUME SensorInv PROVE SE!TypeOK
<1>1. gest.level \in Nat /\ apds.fifo \in Seq(Samples) /\ Len(apds.fifo) \in Nat
  BY DEF SensorInv, SensorTypes, GestType, ApdsType
<1>2. Fifo \in Nat
  BY DevicesAssumption DEF SE!Parameters
<1>3. acc.raw \in [SE!Fields -> 0..(SE!Span - 1)] /\ acc.offset \in [SE!Fields -> 0..(SE!Span - 1)]
  <2>1. acc.raw \in Words /\ acc.offset \in Words
    BY DEF SensorInv, SensorTypes, AccType
  <2> QED
    BY <2>1 DEF Words, Int16
<1> QED
  BY <1>1, <1>2, <1>3 DEF SensorInv, GestureRead, SE!TypeOK

LEMMA MachineTypeOK == ASSUME MachineInv PROVE SM!TypeOK
BY DEF MachineInv, MachineTypes, SM!TypeOK

LEMMA RfidTypeOK == ASSUME RfidInv PROVE RF!TypeOK
BY DEF RfidInv, RfidTypes, Cards, StaticType, RF!TypeOK

\* Every variable of the driver that runs keeps its type.
THEOREM DevicesTyped == Spec => []TypeOK
<1> DEFINE I == /\ part = "radio" => RadioInv
                /\ part = "machine" => MachineInv
                /\ part = "sensors" => SensorInv
                /\ ExchangeInv /\ BoardInv
<1>1. I => TypeOK
  BY RadioImplies, MachineTypeOK, RfidTypeOK, I2CImplies, WireImplies, ClockTypeOK, PinsTypeOK, FrameIsTrue, SensorsTypeOK
     DEF ExchangeInv, BoardInv, TypeOK
<1>2. Spec => []I
  BY RadioKeeps, MachineKeeps, SensorsKeep, ExchangesKeep, BoardKeeps, PTL
<1> QED
  BY <1>1, <1>2, PTL
=============================================================================
