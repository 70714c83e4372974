------------------------------- MODULE Devices ------------------------------
(***************************************************************************)
(* The drivers of the library that talk to a device: radio, card reader,   *)
(* I2C slave, 1-Wire sensors, motion sensors, clock tree, pins and frame   *)
(* buffer; and the state machines that application code runs around them.  *)
(* A behaviour is that of one of these components, against every behaviour *)
(* of its device.                                                          *)
(***************************************************************************)
EXTENDS Integers, Sequences, FiniteSets

CONSTANTS
  MaxPackets, PollCount,                             \* Radio
  States, First, Stay, Unknown,                      \* StateMachines
  Value, Tail4, NoCard,                              \* Rfid
  MaxRegs, MaxSize, MaxTries,                        \* SoftI2C
  Width, max_devices, CntSpan,                       \* OneWire
  Crystals, Mults, Micros, MaxOps,                   \* Clock
  Used, Funcs, MaxSets,                              \* Pins
  XRes, YRes, Spots, Sides, Radii, MaxDraws,         \* Frame
  Samples, Accs, Fifo, MaxSamples, MaxReads           \* Sensors

VARIABLES
  part,
  radio, conf, chip, call, seen,
  machine, history,
  reader, card, static, done,
  xfer, wire, past,
  bus, search, sensors, disturbed,
  rcc, clk, ticked,
  soc, want,
  fb, win, drawn,
  apds, gest, mpu, acc, log

radioVars == <<radio, conf, chip, call, seen>>
machineVars == <<machine, history>>
rfidVars == <<reader, card, static, done>>
i2cVars == <<xfer, wire, past>>
wireVars == <<bus, search, sensors, disturbed>>
clockVars == <<rcc, clk, ticked>>
pinVars == <<soc, want>>
frameVars == <<fb, win, drawn>>
sensorVars == <<apds, gest, mpu, acc, log>>
vars == <<part, radioVars, machineVars, rfidVars, i2cVars, wireVars, clockVars, pinVars, frameVars, sensorVars>>

RD == INSTANCE Radio
SM == INSTANCE StateMachines
RF == INSTANCE Rfid
IC == INSTANCE SoftI2C
OW == INSTANCE OneWire
CK == INSTANCE Clock WITH past <- ticked
PN == INSTANCE Pins
FR == INSTANCE Frame
SE == INSTANCE Sensors

ASSUME DevicesAssumption ==
  /\ RD!Parameters
  /\ SM!Parameters
  /\ RF!Parameters
  /\ IC!Parameters
  /\ OW!Parameters
  /\ CK!Parameters
  /\ PN!Parameters
  /\ FR!Parameters
  /\ SE!Parameters

\* A component that is not part of this behaviour.
Absent == "absent"
NoRadio == radio = Absent /\ conf = Absent /\ chip = Absent /\ call = Absent /\ seen = Absent
NoMachine == machine = Absent /\ history = Absent
NoRfid == reader = Absent /\ card = Absent /\ static = Absent /\ done = Absent
NoI2C == xfer = Absent /\ wire = Absent /\ past = Absent
NoOneWire == bus = Absent /\ search = Absent /\ sensors = Absent /\ disturbed = Absent
NoClock == rcc = Absent /\ clk = Absent /\ ticked = Absent
NoPins == soc = Absent /\ want = Absent
NoFrame == fb = Absent /\ win = Absent /\ drawn = Absent
NoSensors == apds = Absent /\ gest = Absent /\ mpu = Absent /\ acc = Absent /\ log = Absent

Parts == {"radio", "machine", "rfid", "i2c", "onewire", "clock", "pins", "frame", "sensors"}

Init ==
  /\ part \in Parts
  /\ IF part = "radio" THEN RD!Init ELSE NoRadio
  /\ IF part = "machine" THEN SM!Init ELSE NoMachine
  /\ IF part = "rfid" THEN RF!Init ELSE NoRfid
  /\ IF part = "i2c" THEN IC!Init ELSE NoI2C
  /\ IF part = "onewire" THEN OW!Init ELSE NoOneWire
  /\ IF part = "clock" THEN CK!Init ELSE NoClock
  /\ IF part = "pins" THEN PN!Init ELSE NoPins
  /\ IF part = "frame" THEN FR!Init ELSE NoFrame
  /\ IF part = "sensors" THEN SE!Init ELSE NoSensors

\* The components other than p stay absent.
Others(p) ==
  /\ part = p /\ UNCHANGED part
  /\ IF p = "radio" THEN TRUE ELSE UNCHANGED radioVars
  /\ IF p = "machine" THEN TRUE ELSE UNCHANGED machineVars
  /\ IF p = "rfid" THEN TRUE ELSE UNCHANGED rfidVars
  /\ IF p = "i2c" THEN TRUE ELSE UNCHANGED i2cVars
  /\ IF p = "onewire" THEN TRUE ELSE UNCHANGED wireVars
  /\ IF p = "clock" THEN TRUE ELSE UNCHANGED clockVars
  /\ IF p = "pins" THEN TRUE ELSE UNCHANGED pinVars
  /\ IF p = "frame" THEN TRUE ELSE UNCHANGED frameVars
  /\ IF p = "sensors" THEN TRUE ELSE UNCHANGED sensorVars

RadioStep == Others("radio") /\ RD!Next
MachineStep == Others("machine") /\ SM!Next
RfidStep == Others("rfid") /\ RF!Next
I2CStep == Others("i2c") /\ IC!Next
OneWireStep == Others("onewire") /\ OW!Next
ClockStep == Others("clock") /\ CK!Next
PinsStep == Others("pins") /\ PN!Next
FrameStep == Others("frame") /\ FR!Next
SensorsStep == Others("sensors") /\ SE!Next

Next ==
  \/ RadioStep
  \/ MachineStep
  \/ RfidStep
  \/ I2CStep
  \/ OneWireStep
  \/ ClockStep
  \/ PinsStep
  \/ FrameStep
  \/ SensorsStep

Spec == Init /\ [][Next]_vars

-----------------------------------------------------------------------------
\* Every component's variables stay in their types: flags are flags, counters
\* stay in their ranges, FIFOs in their depth.
TypeOK ==
  /\ part = "radio" => RD!TypeOK
  /\ part = "machine" => SM!TypeOK
  /\ part = "rfid" => RF!TypeOK
  /\ part = "i2c" => IC!TypeOK
  /\ part = "onewire" => OW!TypeOK
  /\ part = "clock" => CK!TypeOK
  /\ part = "pins" => PN!TypeOK
  /\ part = "frame" => FR!TypeOK
  /\ part = "sensors" => SE!TypeOK

\* recv and RF_Receive_Data lose a packet only if it arrived after they had read
\* FIFO_STATUS and before they were done with the interrupt and the FIFO.
LostOnlyWhenRaced == part = "radio" => RD!LostOnlyWhenRaced

\* Between calls a packet in the FIFO is announced by RX_DR, so the next recv
\* finds it.  Only RF_Receive_Data, which clears the flag and does not flush, can
\* leave one behind that arrived in that window.
NoStranded == part = "radio" => RD!NoStranded

\* recv indexes rx_pipe_size[6] with the pipe number of STATUS.  It is 7, outside
\* the array, only after a packet arrived between clear_irq and the flush.
PipeInRange == part = "radio" => RD!PipeInRange

\* If no send has failed so far, a send that returns true has transmitted its
\* payload: no flag of an earlier send is taken for its own.
SendTruthful == part = "radio" => RD!SendTruthful

\* Between calls the chip is in the mode and power state the driver thinks it is,
\* and in receive mode it listens exactly if it is powered: send restores it.
ModeRestored == part = "radio" => RD!ModeRestored

\* The C machine leaves every state it has entered, by exit(), before it enters
\* another, also when enter() or exit() itself names the next state.
InsideCurrent == part = "machine" => SM!InsideCurrent

\* work() and exit() run only for a state that was entered and not left; in C++
\* there is one exception: after exit() asked for a state that does not exist.
WorksInside == part = "machine" => SM!WorksInside

\* Whatever exchange with the card failed, no encrypted link stays open, and the
\* drivers that turn the transmitter on turn it off.
FieldOff == part = "rfid" => RF!FieldOff

\* MFRC522_Operate32 returns MI_OK after a read only for a block whose copies
\* agree, and MI_WRONG_DATA only if it has once read one that did not.
VerdictSound == part = "rfid" => RF!VerdictSound

\* MFRC522_Operate32 changes a malformed block only when it is told to write
\* without reading or to write anyway.
MalformedKept == part = "rfid" => RF!MalformedKept

\* The four bytes of a block that no value uses change only in a CARD_WRITE,
\* which takes them from the card before.
TailKept == part = "rfid" => RF!TailKept

\* Every transfer that was started ends in a stop condition, on every error path,
\* and leaves SDA free unless a read of no bytes was made.
BusReleased == part = "i2c" => IC!BusReleased

\* I2C_GPIO, SW_I2C_Read_Reg, SW_I2C_Write_Page and SW_I2C_FAST_RD return success
\* only if every byte was acknowledged and all data was transferred.
HonestResult == part = "i2c" => IC!HonestResult

\* A search that the bus does not disturb finds every device once, and no other.
SearchExact == part = "onewire" => OW!SearchExact

\* The reported number of devices is the number found, as far as cnt_num can count,
\* except that DS1822_Search_Rom counts on from its earlier searches.
CountExact == part = "onewire" => OW!CountExact

\* After Update the object holds the frequencies the chip runs at, behind every order
\* of RunFromHSI, RunFromHSE and EnablePLL.  get_pll_mult is wrong for the factors 2
\* and 3, and get_ahb_mult for dividers of 64 and more.
UpdateTrue == part = "clock" => CK!UpdateTrue

\* The static cpu frequency on which the delays rest, which GetCPUFreqHz returns, is
\* the chip's, with three exceptions that clock.h does not name (the next property has
\* none): a source was chosen and no PLL enabled since, the PLL was enabled from HSI, or
\* it was already running when EnablePLL wrote the multiplier, which the chip ignores.
StoredTrue == part = "clock" => CK!StoredTrue

\* What clock.h:108-112 says of GetCPUFreqHz: it is the frequency of the CPU.
FrequencyKnown == part = "clock" => CK!FrequencyKnown

\* DelayUs waits no less than asked, with two exceptions that delays.h does not name:
\* the stored frequency is too low, or us * frequency does not fit in 32 bits.
DelayLong == part = "clock" => CK!DelayLong

\* What delays.h:71-75 says of DelayUs: it waits for the time asked for.  Even where the
\* stored frequency is the chip's it does not, once the product wraps: for 1000 us, the
\* argument that DelayMs gives, at 4.295 MHz and more.
DelayAsAsked == part = "clock" => CK!DelayAsAsked

\* gpio_func returns what gpio_init gave a pin, unless the pin had another function
\* before or gpio_init was called since for a pin of the same register, which it clears.
FunctionGiven == part = "pins" => PN!FunctionGiven

\* Of the pins 0 to 31 those are high for which gpio_set was called last, and no other,
\* and gpio_read sees it, whatever was done with other pins.  The exception are the pins
\* from 32 on: gpio_set, gpio_clr and gpio_read of pin n act on pin n + 1, so nothing is
\* said of their levels, only that they disturb no pin of the first register.
LevelDriven == part = "pins" => PN!LevelDriven

\* After FrameBufferInit said that it is or was initialized the back buffer, into
\* which every operation draws, exists, unless an Init failed or DeInit was called.
BufferLive == part = "frame" => FR!BufferLive

\* An operation changes the pixels of its shape and no other, unless a caller left a
\* window unfinished before, or it is a line to the left or upwards.
DrawnExact == part = "frame" => FR!DrawnExact

\* DrawCircle32 draws a closed curve within one pixel of its radius.
Round == part = "frame" => FR!Round

\* apds9960_gesture leaves the device off and compares the first with the last valid
\* sample of its own call, whichever arrive while it reads; fewer give no direction.
GestureOfEnds == part = "sensors" => SE!GestureOfEnds

\* The direction reported is one the hand moved in.  DIR_DOWN and DIR_RIGHT are
\* returned only if it moved down and right at once: one axis alone is not enough.
OneAxisOnly == part = "sensors" => SE!OneAxisOnly

\* mpu6050_get_result returns no measurement twice, although one may come between its
\* read of the status register and its burst, and either may fail.
FreshOnce == part = "sensors" => SE!FreshOnce

\* A reading is what one burst brought, the flag and one measurement, less what the
\* burst of the last calibration brought, if that succeeded; temp has no offset.  What
\* a burst brings is one byte off: a word has the high byte of its own field and the
\* low byte of the field before it, x the status register.
ZeroExact == part = "sensors" => SE!ZeroExact

\* What mpu6050.h:83-95 says of the words: they are the values that were measured.
MeasurementRead == part = "sensors" => SE!MeasurementRead

-----------------------------------------------------------------------------
\* The radio drivers lose no packet but in one window of recv, believe no flag of an
\* earlier send, and leave the chip as they think it is.
RadioSound ==
  /\ LostOnlyWhenRaced /\ NoStranded /\ PipeInRange
  /\ SendTruthful /\ ModeRestored

\* Both state machines run the callbacks of a state between its enter and its exit.
MachinesInOrder == InsideCurrent /\ WorksInside

\* Whichever exchange with a card, an I2C slave or the devices of a 1-Wire bus fails,
\* the drivers of them report what happened and leave card and bus in order.
ExchangesSound ==
  /\ FieldOff /\ VerdictSound /\ MalformedKept /\ TailKept
  /\ BusReleased /\ HonestResult /\ SearchExact /\ CountExact

\* What the software holds about clock, pins and screen is what the hardware does,
\* after every sequence of calls, with the exceptions that the eight properties name:
\* the frequencies and delays above, pins that had another function or share a register,
\* levels of the pins from 32 on, unfinished windows and lines to the left or upwards.
BoardTrue ==
  /\ UpdateTrue /\ StoredTrue /\ DelayLong /\ FunctionGiven
  /\ LevelDriven /\ BufferLive /\ DrawnExact /\ Round

\* A gesture and an acceleration come from the samples of their own call, each used
\* once, although the sensor measures while it is read; the words of an acceleration
\* are one byte off.
SensorsTrue == GestureOfEnds /\ OneAxisOnly /\ FreshOnce /\ ZeroExact
=============================================================================
