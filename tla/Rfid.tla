-------------------------------- MODULE Rfid --------------------------------
(***************************************************************************)
(* The MFRC522 card readers: MFRC522_Operate32 and MFRC522_Operate of      *)
(* Common/MFRC522.c ("op32", "op16") and mfrc_operate of                   *)
(* Common/mfrc522_rfid.c ("mfrc").  A call is a dialogue with one card     *)
(* whose every exchange may fail; between calls cards come and go.  A      *)
(* block is its value, the copy of the value that is compared with it, and *)
(* the four bytes behind them; what the functions keep in static variables *)
(* is state.                                                               *)
(***************************************************************************)
EXTENDS Naturals

CONSTANTS
  Value,    \* 32 bit values on a card
  Tail4,    \* contents of the last four bytes of a block
  NoCard

VARIABLES
  reader,   \* driver; ant: transmitter on; crypto: authenticated
  card,     \* external: the block of the card in the field, or NoCard
  static,   \* data: of Operate32; decoded: DecodeData's res
  done      \* history: the last call; bad: a malformed block was read before

vars == <<reader, card, static, done>>

Parameters == 0 \in Value /\ 0 \in Tail4

Block == [v : Value, copy : Value, tail : Tail4]
Zero == [v |-> 0, copy |-> 0, tail |-> 0]
Intact(b) == b.v = b.copy

\* The exchanges at which a call may fail: no interrupt within the polls, the
\* chip's timer or an error flag, or an answer of the wrong length.
Failures == {"param", "request", "anticoll", "select", "auth", "read", "write1", "write2", "none"}
Early == {"param", "request", "anticoll", "select", "auth"}
Tasks == {"CARD_READ", "CARD_WRITE", "CARD_RW", "CARD_RW_ANYWAY"}

Init ==
  /\ reader \in [driver : {"op32", "op16", "mfrc"}, ant : {FALSE}, crypto : {FALSE}]
  /\ card \in Block \cup {NoCard}
  /\ static = [data |-> Zero, decoded |-> "MI_OK"]
  /\ done = [task |-> "none", res |-> "MI_OK", before |-> NoCard, after |-> NoCard, bad |-> FALSE]

\* External: a card is put on the reader, exchanged or taken away.
SwapCard ==
  /\ card' \in (Block \cup {NoCard}) \ {card}
  /\ UNCHANGED <<reader, static, done>>

\* MFRC522_Init and mfrc_restart: reset, timer and modulation, transmitter off.
Restarted(r) == [r EXCEPT !.ant = FALSE, !.crypto = FALSE]

\* Mutant: the path of a failed write does not end in MFRC522_Init.
FinishedUnlessWriteFails(r, fail) == IF fail \in {"write1", "write2"} THEN r ELSE Restarted(r)

\* The reader after a call that failed at this exchange.  Up to the anticollision
\* Operate32 leaves the reader alone and Operate only turns the transmitter off.
Finished(r, fail) ==
  CASE fail = "param" -> reader
    [] fail \in {"request", "anticoll"} /\ r.driver = "op32" -> reader
    [] fail \in {"request", "anticoll"} /\ r.driver = "op16" -> [r EXCEPT !.ant = FALSE]
    [] OTHER -> Restarted(r)

\* The reader in the middle of a call: the transmitter is on, and after
\* MFRC522_Auth the link is encrypted.
Busy(fail) == [reader EXCEPT !.ant = TRUE, !.crypto = fail \notin Early]

Status(fail) ==
  CASE fail = "param" -> "MI_WRONG_PARAM"
    [] fail = "request" -> "MI_NOCARD"
    [] fail = "anticoll" -> "MI_COLLISION"
    [] fail = "select" -> "MI_WRONG_CARD"
    [] fail = "auth" -> "MI_AUTH_ERROR"
    [] fail = "read" -> "MI_READ_ERROR"
    [] fail \in {"write1", "write2"} -> "MI_WRITE_ERROR"

\* Only a card in the field answers, and a call fails at an exchange it makes.
Possible(task, fail, ant) ==
  /\ fail \notin {"param", "request"} => ant /\ card # NoCard
  /\ fail = "read" => task # "CARD_WRITE"
  /\ fail \in {"write1", "write2"} => task # "CARD_READ"

\* MFRC522_Write: a command the card acknowledges, then the data.  If the second
\* acknowledge is lost the card has stored the block or not.
Written(b, fail) ==
  CASE fail = "none" -> {b}
    [] fail = "write2" -> {b, card}
    [] OTHER -> {card}

\* A read that fails has put the command bytes over the value already.
Garbled(b) == {[b EXCEPT !.v = v] : v \in Value}

-----------------------------------------------------------------------------
\* Mutant: the two copies of the value are not compared.
DecodeBlind(b) == static.decoded

\* Mutant: with the comparison that is commented out, data[cnt] != ~data[cnt + 4],
\* which is true of any two bytes.
DecodeComplement(b) == "MI_WRONG_DATA"

\* Its static res is set to MI_WRONG_DATA once and never reset.
MFRC522_DecodeData(b) == IF Intact(b) THEN static.decoded ELSE "MI_WRONG_DATA"

\* Mutant: all of the block is set, not only its first twelve bytes.
EncodeAll(value, b) == [v |-> value, copy |-> value, tail |-> CHOOSE t \in Tail4 : TRUE]

MFRC522_EncodeData(value, b) == [b EXCEPT !.v = value, !.copy = value]

\* The handler leaves `new` as the value.
MFRC522_Operate32(task, fail, new) ==
  LET reads == task # "CARD_WRITE"
      verdict == IF reads THEN MFRC522_DecodeData(card) ELSE "MI_OK"
      refused == verdict # "MI_OK" /\ task # "CARD_RW_ANYWAY"
      writes == task # "CARD_READ" /\ ~refused
      block == MFRC522_EncodeData(new, IF reads THEN card ELSE static.data)
  IN
  /\ reader.driver = "op32" /\ Possible(task, fail, reader.ant)
  /\ reader' = Finished(Busy(fail), fail)
  /\ IF fail \in Early \cup {"read"}
     THEN /\ IF fail = "read" THEN \E b \in Garbled(static.data) : static' = [static EXCEPT !.data = b]
                              ELSE UNCHANGED static
          /\ UNCHANGED card
          /\ done' = [done EXCEPT !.task = task, !.res = Status(fail), !.before = card, !.after = card]
     ELSE /\ fail # "none" => writes
          /\ card' \in IF writes THEN Written(block, fail) ELSE {card}
          /\ static' = [static EXCEPT !.decoded = IF reads THEN verdict ELSE @,
                          !.data = IF writes THEN block ELSE IF reads THEN card ELSE @]
          /\ done' = [task |-> task, before |-> card, after |-> card', bad |-> done.bad \/ (reads /\ ~Intact(card)),
                      res |-> IF fail # "none" THEN Status(fail)
                              ELSE IF refused /\ task # "CARD_READ" THEN "MI_WRONG_DATA" ELSE verdict]

\* MFRC522_Operate and mfrc_operate hand the whole block to the handler, which
\* leaves `new` there; they turn the transmitter on themselves.
Operate(task, fail, new) ==
  /\ Possible(task, fail, TRUE)
  /\ reader' = Finished(Busy(fail), fail)
  /\ card' \in IF fail \in Early \cup {"read"} \/ task = "CARD_READ" THEN {card} ELSE Written(new, fail)
  /\ done' = [done EXCEPT !.task = task, !.res = IF fail = "none" THEN "MI_OK" ELSE Status(fail)]
  /\ UNCHANGED static

MFRC522_Operate(task, fail, new) == reader.driver = "op16" /\ Operate(task, fail, new)
mfrc_operate(task, fail, new) == reader.driver = "mfrc" /\ Operate(task, fail, new)

\* Public too: the caller turns the transmitter on, or initialises the reader.
MFRC522_AntennaOn ==
  /\ reader.driver = "op32" /\ ~reader.ant
  /\ reader' = [reader EXCEPT !.ant = TRUE]
  /\ UNCHANGED <<card, static, done>>

MFRC522_Init ==
  /\ reader.driver # "mfrc"
  /\ reader' = Restarted(reader)
  /\ UNCHANGED <<card, static, done>>

\* Only if the version register shows a known chip.
mfrc_init(known) ==
  /\ reader.driver = "mfrc"
  /\ reader' = IF known THEN Restarted(reader) ELSE reader
  /\ UNCHANGED <<card, static, done>>

Next ==
  \/ SwapCard
  \/ \E task \in Tasks, fail \in Failures :
       \/ \E new \in Value : MFRC522_Operate32(task, fail, new)
       \/ \E new \in Block : MFRC522_Operate(task, fail, new) \/ mfrc_operate(task, fail, new)
  \/ MFRC522_AntennaOn \/ MFRC522_Init \/ \E known \in BOOLEAN : mfrc_init(known)

-----------------------------------------------------------------------------
TypeOK == card \in Block \cup {NoCard} /\ static.data \in Block

FieldOff == ~reader.crypto /\ (reader.driver # "op32" => ~reader.ant)

\* The last call was one of Operate32 that saw a card.
Saw32 == reader.driver = "op32" /\ done.before # NoCard

VerdictSound ==
  Saw32 /\ done.task # "CARD_WRITE" =>
    /\ done.res = "MI_OK" => Intact(done.before)
    /\ done.res = "MI_WRONG_DATA" => done.bad

MalformedKept ==
  Saw32 /\ ~Intact(done.before) /\ done.after # done.before => done.task \in {"CARD_WRITE", "CARD_RW_ANYWAY"}

TailKept == Saw32 /\ done.after.tail # done.before.tail => done.task = "CARD_WRITE"
=============================================================================
