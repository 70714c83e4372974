------------------------------- MODULE SoftI2C ------------------------------
(***************************************************************************)
(* The bit banged I2C masters: I2C_GPIO of Common/I2C_GPIO.cpp (gpioR,     *)
(* gpioW), the register and page transfers of stm32/SW_I2C.c (regR, regW,  *)
(* pageR, pageW) and the driver of stm32/SW_I2C_Driver.c (drvR, drvW,      *)
(* fastR, pollR, flagW).  One byte with its acknowledge is one step.  The  *)
(* slave (external) acknowledges or not, and while it is read it may hold  *)
(* SDA down.  The caller sets sizes and pointers before every call.        *)
(***************************************************************************)
EXTENDS Naturals, FiniteSets

CONSTANTS
  MaxRegs,   \* bound: bytes of a register address
  MaxSize,   \* bound: bytes of data
  MaxTries   \* bound: attempts of the polling operations

VARIABLES
  xfer,   \* the operation: op, pc, regs and size left, tries, res
  wire,   \* started; driven: the slave sends; held: it holds SDA when the master is done
  past    \* history: nacks: phases of the operation with a byte that was refused;
          \* phantom: it began on a line that was held; empty: a read of no bytes was made

vars == <<xfer, wire, past>>

Parameters == MaxRegs \in Nat \ {0} /\ MaxSize \in Nat /\ MaxTries \in Nat \ {0}

Gpio == {"gpioR", "gpioW"}
Struct == {"regR", "regW", "pageR", "pageW"}
Reads == {"gpioR", "regR", "pageR", "drvR", "fastR", "pollR"}
Ops == Reads \cup {"gpioW", "regW", "pageW", "drvW", "flagW", "check"}

Init ==
  /\ xfer = [op |-> "gpioW", pc |-> "idle", regs |-> 0, size |-> 0, tries |-> 0, res |-> "ok"]
  /\ wire = [started |-> FALSE, driven |-> FALSE, held |-> FALSE]
  /\ past = [nacks |-> {}, phantom |-> FALSE, empty |-> FALSE]

At(pc) == xfer.pc = pc

\* The check before a start condition, when a slave holds SDA (SCL is never held
\* here): SW_I2C.c asks for both lines to be low, the others look at SDA.
Busy(op) == wire.held /\ op \notin Struct

Begin(op, regs, size, tries) ==
  /\ At("idle")
  /\ xfer' = [op |-> op, regs |-> regs, size |-> size, tries |-> tries,
              pc |-> IF Busy(op) THEN "idle" ELSE IF op = "fastR" THEN "raddr" ELSE "addr",
              res |-> IF Busy(op) THEN "busy" ELSE "absent"]
  /\ wire' = [wire EXCEPT !.started = ~Busy(op)]
  /\ past' = [nacks |-> {}, phantom |-> wire.held /\ ~Busy(op),
              empty |-> past.empty \/ (op \in Reads /\ size = 0)]

\* The operations, with their numbers of register and data bytes.
I2C_GPIO_Write(regs, size) == Begin("gpioW", regs, size, 0)
I2C_GPIO_Read(regs, size) == Begin("gpioR", regs, size, 0)
SW_I2C_Read_Reg(size) == Begin("regR", 1, size, 0)
SW_I2C_Write_Reg(size) == Begin("regW", 1, size, 0)
SW_I2C_Read_Page(regs, size) == Begin("pageR", regs, size, 0)
SW_I2C_Write_Page(regs, size) == Begin("pageW", regs, size, 0)
SW_I2C_WR(regs, size) == Begin("drvW", regs, size, 0)
SW_I2C_RD(regs, size) == Begin("drvR", regs, size, 0)
SW_I2C_FAST_RD(size) == Begin("fastR", 0, size, 0)
SW_I2C_RD_POOLING_ACK(size, attempts) == Begin("pollR", 1, size, attempts)
SW_I2C_WriteWithFlagPooling(regs, attempts) == Begin("flagW", regs, 0, attempts)

\* One pulse on SCL, which may free a line that is held.
SW_I2C_RESET_BUS ==
  /\ At("idle")
  /\ \E held \in {FALSE, wire.held} : wire' = [wire EXCEPT !.held = held]
  /\ UNCHANGED <<xfer, past>>

\* The same after a look at the lines.
SW_I2C_Check_Bus ==
  /\ At("idle")
  /\ xfer' = [xfer EXCEPT !.op = "check", !.res = IF wire.held THEN "busy" ELSE "ok"]
  /\ \E held \in {FALSE, wire.held} : wire' = [wire EXCEPT !.held = held]
  /\ UNCHANGED past

\* A byte is clocked out; a line that is held down reads as an acknowledge.
Clocked(ack) ==
  /\ wire.held => ack
  /\ \E held \in IF wire.held THEN BOOLEAN ELSE {FALSE} :
       wire' = [wire EXCEPT !.held = held, !.driven = ack /\ At("raddr")]
  /\ past' = [past EXCEPT !.nacks = IF ack THEN @ ELSE @ \cup {xfer.pc}]

\* What an operation returns after a byte that was not acknowledged.
Refused == IF xfer.op \in Gpio THEN "io"
           ELSE IF At("addr") \/ xfer.op \in {"regR", "regW", "fastR"} THEN "absent" ELSE "nack"

Result(ack) == IF ack THEN "ok" ELSE Refused

WriteAddress(ack) ==
  /\ At("addr")
  /\ Clocked(ack)
  /\ xfer' = [xfer EXCEPT !.res = IF xfer.op = "flagW" THEN "ok" ELSE Result(ack),
       !.pc = IF ~ack THEN "stop" ELSE IF xfer.regs > 0 THEN "regs" ELSE IF xfer.op \in Reads \cup {"flagW"} THEN "raddr" ELSE "data"]

\* The register loops of SW_I2C_Driver.c go on after a byte was refused and keep
\* the last answer; a refused register ends the other loops, and the transfer
\* unless SW_I2C_Read_Page is reading.
Polls == xfer.op \in {"pollR", "flagW"}
GoesOn == xfer.op \in {"drvR", "drvW"} \/ Polls

\* Mutant: a refused register byte does not end a transfer of I2C_GPIO.
RegEndsNever(ack) == FALSE

RegEnds(ack) == ~ack /\ xfer.op \in Gpio \cup {"regR", "regW", "pageW"}

WriteReg(ack) ==
  /\ At("regs")
  /\ Clocked(ack)
  /\ LET more == xfer.regs > 1 /\ (ack \/ GoesOn)
         ends == RegEnds(ack) \/ (~more /\ ~ack /\ xfer.op = "drvW")
     IN  xfer' = [xfer EXCEPT !.regs = @ - 1, !.res = IF Polls THEN @ ELSE Result(ack),
           !.pc = IF ends THEN "stop" ELSE IF more THEN "regs"
                  ELSE IF xfer.op \in Reads \cup {"flagW"} THEN "raddr" ELSE "data"]

\* Whether the loop over the data goes on: Write_Reg does not look at the answer.
MoreData(ack) == xfer.size > 1 /\ (ack \/ xfer.op = "regW")

WriteData(ack) ==
  /\ At("data") /\ xfer.size > 0
  /\ Clocked(ack)
  /\ xfer' = [xfer EXCEPT !.size = @ - 1,
       !.res = IF xfer.op = "regW" THEN @ ELSE Result(ack),
       !.pc = IF MoreData(ack) THEN "data" ELSE "stop"]

\* A repeated start and the address for reading.
WriteReadAddress(ack) ==
  /\ At("raddr")
  /\ Clocked(ack)
  /\ LET retry == ~ack /\ xfer.op = "pollR" /\ xfer.tries > 1
     IN  xfer' = [xfer EXCEPT !.tries = IF ~ack /\ xfer.op = "pollR" THEN @ - 1 ELSE @,
           !.pc = IF retry THEN "raddr" ELSE IF ack \/ xfer.op = "flagW" THEN "read" ELSE "stop",
           !.res = IF ack THEN "ok"
                   ELSE IF xfer.op = "pollR" THEN "timeout"
                   ELSE IF xfer.op \in {"pageR", "drvR", "flagW"} THEN @ ELSE Refused]

\* Mutant: the last byte is acknowledged too, so the slave sends another.
AcksAll == TRUE

\* A byte is acknowledged when another one is to follow.
AcksByte == xfer.size > 1

ReadData ==
  /\ At("read") /\ xfer.op # "flagW" /\ xfer.size > 0
  /\ xfer' = [xfer EXCEPT !.size = @ - 1, !.pc = IF xfer.size = 1 THEN "stop" ELSE "read"]
  /\ wire' = [wire EXCEPT !.driven = AcksByte]
  /\ UNCHANGED past

\* SW_I2C_WriteWithFlagPooling reads until the flag is set or the attempts are
\* used up, then one byte more; the last attempt counts as a timeout either way.
ReadFlag(set) ==
  /\ At("read") /\ xfer.op = "flagW"
  /\ LET again == xfer.tries > 1 /\ ~set
     IN  /\ xfer' = [xfer EXCEPT !.tries = @ - 1, !.pc = IF again THEN "read" ELSE "stop",
                                 !.res = IF xfer.tries = 1 THEN "timeout" ELSE @]
         /\ wire' = [wire EXCEPT !.driven = again /\ @]
  /\ UNCHANGED past

\* Nothing to transfer counts too: At("data") or At("read") with size 0.
Stop ==
  /\ At("stop") \/ (xfer.pc \in {"data", "read"} /\ xfer.op # "flagW" /\ xfer.size = 0)
  /\ xfer' = [xfer EXCEPT !.pc = "idle"]
  /\ \E held \in IF wire.driven THEN BOOLEAN ELSE {wire.held} :
       wire' = [wire EXCEPT !.started = FALSE, !.driven = FALSE, !.held = held]
  /\ UNCHANGED past

Next ==
  \/ \E regs \in 0..MaxRegs, size \in 0..MaxSize :
       \/ I2C_GPIO_Write(regs, size) \/ I2C_GPIO_Read(regs, size)
       \/ SW_I2C_Read_Page(regs, size) \/ SW_I2C_Write_Page(regs, size)
       \/ SW_I2C_WR(regs, size) \/ SW_I2C_RD(regs, size)
  \/ \E size \in 0..MaxSize :
       \/ SW_I2C_Read_Reg(size) \/ SW_I2C_Write_Reg(size) \/ SW_I2C_FAST_RD(size)
       \/ \E attempts \in 1..MaxTries : SW_I2C_RD_POOLING_ACK(size, attempts)
  \/ \E regs \in 0..MaxRegs, attempts \in 1..MaxTries : SW_I2C_WriteWithFlagPooling(regs, attempts)
  \/ \E b \in BOOLEAN :
       WriteAddress(b) \/ WriteReg(b) \/ WriteData(b) \/ WriteReadAddress(b) \/ ReadFlag(b)
  \/ ReadData \/ Stop \/ SW_I2C_RESET_BUS \/ SW_I2C_Check_Bus

-----------------------------------------------------------------------------
TypeOK ==
  /\ xfer.op \in Ops /\ xfer.regs \in 0..MaxRegs /\ xfer.size \in 0..MaxSize /\ xfer.tries \in 0..MaxTries
  /\ past.nacks \subseteq {"addr", "regs", "data", "raddr"}

BusReleased == At("idle") => ~wire.started /\ (wire.held => past.empty)

HonestResult ==
  At("idle") /\ xfer.res = "ok" /\ xfer.op \in Gpio \cup {"regR", "pageW", "fastR"} =>
    /\ past.nacks = {} /\ xfer.size = 0
    /\ past.phantom => xfer.op \in Struct
=============================================================================
