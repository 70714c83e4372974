------------------------------- MODULE Radio --------------------------------
(***************************************************************************)
(* The nRF24L01 drivers, Common/nrf24l01+.c ("plus") and its predecessor   *)
(* Common/nrf24l01.c ("v4"), one SPI access per step, against a chip that  *)
(* receives and transmits on its own between any two of these accesses.    *)
(* Packets are numbered in the order of their arrival.                     *)
(***************************************************************************)
EXTENDS Integers, Sequences, FiniteSets

CONSTANTS
  MaxPackets,  \* bound: packets that arrive
  PollCount    \* read_cnt, Payload_send_delay: polls before a send gives up

VARIABLES
  radio,   \* which driver, whether read_irq is given, whether retransmission is on
  conf,    \* the driver's copy of the CONFIG register
  chip,    \* external: CONFIG, CE pin, receive FIFO, interrupt flags, payload to send
  call,    \* the driver's position and the local variables of send and recv
  seen     \* history: packets arrived, delivered, raced; payload sent; a send failed

vars == <<radio, conf, chip, call, seen>>

Parameters == MaxPackets \in Nat /\ PollCount \in Nat \ {0}

FifoDepth == 3
NoPipe == 7      \* what STATUS shows for an empty FIFO

Plus == radio.ver = "plus"
TxIrq == IF radio.retr THEN {"TX_DS", "MAX_RT"} ELSE {"TX_DS"}

At(pc) == call.pc = pc
Goto(pc) == call' = [call EXCEPT !.pc = pc]
Clear(flags) == chip' = [chip EXCEPT !.irq = @ \ flags]

\* Whether CE is on after nrf24l01_init, and after RF_Init.
nrf24l01_init(mode, power) == mode = "RX" /\ power
RF_Init(mode, power) == TRUE

Init ==
  /\ radio \in [ver : {"plus"}, pin : BOOLEAN, retr : BOOLEAN]
               \cup [ver : {"v4"}, pin : {TRUE}, retr : BOOLEAN]
  /\ conf \in [mode : {"RX", "TX"}, power : BOOLEAN]
  /\ chip = [mode |-> conf.mode, power |-> conf.power, fifo |-> <<>>, irq |-> {}, tx |-> FALSE,
             ce |-> IF Plus THEN nrf24l01_init(conf.mode, conf.power) ELSE RF_Init(conf.mode, conf.power)]
  /\ call = [pc |-> "idle", cnt |-> 0, back |-> FALSE, pipe |-> 0, res |-> FALSE]
  /\ seen = [n |-> 0, got |-> {}, raced |-> {}, sent |-> FALSE, failed |-> FALSE]

\* The interrupt pin shows the flags CONFIG does not mask: both drivers' masks
\* are those of switch_mode, or all enabled in v4.
Unmasked == IF ~Plus THEN chip.irq
            ELSE chip.irq \cap (IF chip.mode = "TX" THEN TxIrq ELSE {"RX_DR"})

read_irq(flags) == IF radio.pin THEN Unmasked # {} ELSE chip.irq \cap flags # {}

-----------------------------------------------------------------------------
(* The chip *)

AirArrive ==
  /\ chip.mode = "RX" /\ chip.power /\ chip.ce
  /\ Len(chip.fifo) < FifoDepth /\ seen.n < MaxPackets
  /\ chip' = [chip EXCEPT !.fifo = Append(@, seen.n + 1), !.irq = @ \cup {"RX_DR"}]
  /\ seen' = [seen EXCEPT !.n = @ + 1,
                !.raced = IF call.pc \in {"r_clear", "r_flush"} THEN @ \cup {seen.n + 1} ELSE @]
  /\ UNCHANGED <<radio, conf, call>>

Transmit ==
  /\ chip.mode = "TX" /\ chip.power /\ chip.ce /\ chip.tx /\ "MAX_RT" \notin chip.irq
  /\ \/ /\ chip' = [chip EXCEPT !.tx = FALSE, !.irq = @ \cup {"TX_DS"}]
        /\ seen' = [seen EXCEPT !.sent = TRUE]
     \/ /\ radio.retr
        /\ chip' = [chip EXCEPT !.irq = @ \cup {"MAX_RT"}]
        /\ UNCHANGED seen
  /\ UNCHANGED <<radio, conf, call>>

-----------------------------------------------------------------------------
(* Modes *)

\* Mutant: the CE pin is forgotten.
ModeKeepsCe(c, mode, power) == [c EXCEPT !.mode = mode, !.power = power]

switch_mode(c, mode, power) ==
  [c EXCEPT !.mode = mode, !.power = power, !.ce = IF mode = "RX" THEN power ELSE @]

SwitchMode(mode, power) ==
  /\ At("idle") /\ Plus
  /\ conf' = [mode |-> mode, power |-> power]
  /\ chip' = switch_mode(chip, mode, power)
  /\ UNCHANGED <<radio, call, seen>>

sleep ==
  /\ At("idle") /\ Plus
  /\ conf' = [conf EXCEPT !.power = FALSE]
  /\ chip' = switch_mode([chip EXCEPT !.ce = FALSE], conf.mode, FALSE)
  /\ UNCHANGED <<radio, call, seen>>

wakeup ==
  /\ At("idle") /\ Plus
  /\ conf' = [conf EXCEPT !.power = TRUE]
  /\ chip' = [switch_mode(chip, conf.mode, TRUE) EXCEPT !.ce = IF conf.mode = "RX" THEN TRUE ELSE @]
  /\ UNCHANGED <<radio, call, seen>>

\* v4 keeps no copy of CONFIG: it changes what it reads back.
RF_Switch_RX_TX(mode) ==
  /\ At("idle") /\ ~Plus
  /\ chip' = [chip EXCEPT !.mode = mode, !.ce = TRUE]
  /\ conf' = [conf EXCEPT !.mode = mode]
  /\ UNCHANGED <<radio, call, seen>>

RF_Sleep_WakeUp(power) ==
  /\ At("idle") /\ ~Plus
  /\ chip' = [chip EXCEPT !.power = power]
  /\ conf' = [conf EXCEPT !.power = power]
  /\ UNCHANGED <<radio, call, seen>>

-----------------------------------------------------------------------------
(* send; RF_SendPayload, or RF_SendPayloadACK when packets are acknowledged *)

Loaded(c) == [c EXCEPT !.tx = TRUE, !.ce = TRUE]

SendStart(RX_Enable) ==
  /\ At("idle")
  /\ call' = [call EXCEPT !.pc = "s_wait", !.cnt = PollCount,
                          !.back = IF Plus THEN conf.mode = "RX" ELSE RX_Enable]
  /\ conf' = IF Plus THEN [mode |-> "TX", power |-> TRUE] ELSE conf
  /\ chip' = Loaded(IF Plus THEN switch_mode(chip, "TX", TRUE) ELSE chip)
  /\ seen' = [seen EXCEPT !.sent = FALSE]
  /\ UNCHANGED radio

\* Mutant: the polling does not stop at zero.
PollsUntilIrq(left) == left = call.cnt

\* while (!read_irq(tx_irq) && --cnt): cnt is left as it is by the interrupt.
PollEnds(left) == left = call.cnt \/ left = 0

SendPoll ==
  /\ At("s_wait")
  /\ LET left == IF read_irq(TxIrq) THEN call.cnt ELSE call.cnt - 1
     IN  call' = [call EXCEPT !.cnt = left,
                    !.pc = IF PollEnds(left) THEN "s_res" ELSE "s_wait"]
  /\ UNCHANGED <<radio, conf, chip, seen>>

\* What the send functions return.
send == IF radio.retr THEN "MAX_RT" \notin chip.irq ELSE call.cnt # 0
RF_SendPayload == call.cnt # 0
RF_SendPayloadACK == "TX_DS" \in chip.irq /\ call.cnt # 0

SendResult ==
  /\ At("s_res")
  /\ call' = [call EXCEPT !.pc = "s_clear",
                 !.res = IF Plus THEN send ELSE IF radio.retr THEN RF_SendPayloadACK ELSE RF_SendPayload]
  /\ chip' = [chip EXCEPT !.ce = @ /\ (Plus \/ call.back)]
  /\ seen' = [seen EXCEPT !.failed = @ \/ call.cnt = 0 \/ "MAX_RT" \in chip.irq]
  /\ UNCHANGED <<radio, conf>>

\* Mutant: the flags are left set.
SendKeepsFlags ==
  /\ At("s_clear")
  /\ Goto("s_flush")
  /\ UNCHANGED <<radio, conf, chip, seen>>

SendClear ==
  /\ At("s_clear")
  /\ Clear(TxIrq)
  /\ Goto("s_flush")
  /\ UNCHANGED <<radio, conf, seen>>

SendEnd ==
  /\ At("s_flush")
  /\ LET c == [chip EXCEPT !.tx = FALSE]
     IN  IF Plus /\ call.back
         THEN conf' = [mode |-> "RX", power |-> TRUE] /\ chip' = switch_mode(c, "RX", TRUE)
         ELSE UNCHANGED conf /\ chip' = [c EXCEPT !.ce = IF Plus THEN FALSE ELSE @]
  /\ Goto("idle")
  /\ UNCHANGED <<radio, seen>>

-----------------------------------------------------------------------------
(* recv; RF_Receive_Data *)

\* The order of the accesses when a packet is announced.
recv == [r_irq |-> "r_stat", r_stat |-> "r_read", r_read |-> "r_fifo", r_fifo |-> "r_clear",
         r_clear |-> "r_flush", r_flush |-> "idle"]
RF_Receive_Data == [r_irq |-> "r_read", r_read |-> "r_fifo", r_fifo |-> "r_clear", r_clear |-> "idle"]
Following == IF Plus THEN recv[call.pc] ELSE RF_Receive_Data[call.pc]

RecvStart ==
  /\ At("idle")
  /\ IF Plus /\ conf.mode = "TX"
     THEN /\ conf' = [mode |-> "RX", power |-> TRUE]
          /\ chip' = [switch_mode(chip, "RX", TRUE) EXCEPT !.ce = TRUE]
     ELSE UNCHANGED <<conf, chip>>
  /\ Goto("r_irq")
  /\ UNCHANGED <<radio, seen>>

\* Mutant: the interrupt is not asked for.
RecvUnasked ==
  /\ At("r_irq")
  /\ Goto(Following)
  /\ UNCHANGED <<radio, conf, chip, seen>>

RecvIrq ==
  /\ At("r_irq")
  /\ Goto(IF read_irq({"RX_DR"}) THEN Following ELSE "idle")
  /\ UNCHANGED <<radio, conf, chip, seen>>

HeadPipe == IF chip.fifo = <<>> THEN NoPipe ELSE 0

RecvStatus ==
  /\ At("r_stat")
  /\ call' = [call EXCEPT !.pc = Following, !.pipe = HeadPipe]
  /\ UNCHANGED <<radio, conf, chip, seen>>

RecvRead ==
  /\ At("r_read")
  /\ call' = [call EXCEPT !.pc = Following, !.pipe = IF Plus THEN @ ELSE HeadPipe]
  /\ IF chip.fifo = <<>> THEN UNCHANGED <<chip, seen>>
     ELSE /\ chip' = [chip EXCEPT !.fifo = Tail(@)]
          /\ seen' = [seen EXCEPT !.got = @ \cup {Head(chip.fifo)}]
  /\ UNCHANGED <<radio, conf>>

\* Mutant: the FIFO is flushed without a look at FIFO_STATUS.
RecvFifoUnread ==
  /\ At("r_fifo")
  /\ Goto(IF Plus \/ chip.fifo = <<>> THEN Following ELSE "idle")
  /\ UNCHANGED <<radio, conf, chip, seen>>

RecvFifo ==
  /\ At("r_fifo")
  /\ Goto(IF chip.fifo = <<>> THEN Following ELSE "idle")
  /\ UNCHANGED <<radio, conf, chip, seen>>

\* Mutant: the FIFO is not flushed.
RecvClearOnly ==
  /\ At("r_clear")
  /\ Clear({"RX_DR"})
  /\ Goto("idle")
  /\ UNCHANGED <<radio, conf, seen>>

RecvClear ==
  /\ At("r_clear")
  /\ Clear({"RX_DR"})
  /\ Goto(Following)
  /\ UNCHANGED <<radio, conf, seen>>

RecvFlush ==
  /\ At("r_flush")
  /\ chip' = [chip EXCEPT !.fifo = <<>>]
  /\ Goto("idle")
  /\ UNCHANGED <<radio, conf, seen>>

Next ==
  \/ AirArrive \/ Transmit
  \/ \E mode \in {"RX", "TX"}, power \in BOOLEAN : SwitchMode(mode, power)
  \/ sleep \/ wakeup
  \/ \E mode \in {"RX", "TX"} : RF_Switch_RX_TX(mode)
  \/ \E b \in BOOLEAN : RF_Sleep_WakeUp(b) \/ SendStart(b)
  \/ SendPoll \/ SendResult \/ SendClear \/ SendEnd
  \/ RecvStart \/ RecvIrq \/ RecvStatus \/ RecvRead \/ RecvFifo \/ RecvClear \/ RecvFlush

-----------------------------------------------------------------------------
TypeOK ==
  /\ conf \in [mode : {"RX", "TX"}, power : BOOLEAN]
  /\ chip.irq \subseteq {"RX_DR", "TX_DS", "MAX_RT"} /\ Len(chip.fifo) <= FifoDepth
  /\ call.cnt \in 0..PollCount /\ call.pipe \in {0, NoPipe}

InFifo == {chip.fifo[i] : i \in DOMAIN chip.fifo}

LostOnlyWhenRaced == (1..seen.n) \ (seen.got \cup InFifo) \subseteq seen.raced

NoStranded ==
  At("idle") /\ chip.fifo # <<>> /\ "RX_DR" \notin chip.irq => ~Plus /\ InFifo \cap seen.raced # {}

PipeInRange == Plus /\ At("r_fifo") /\ call.pipe = NoPipe => seen.raced # {}

SendTruthful ==
  Plus /\ At("s_clear") /\ call.res /\ ~seen.failed => seen.sent

ModeRestored ==
  Plus /\ At("idle") =>
    /\ chip.mode = conf.mode /\ chip.power = conf.power
    /\ conf.mode = "RX" => chip.ce = conf.power
=============================================================================
