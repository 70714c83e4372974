------------------------------- MODULE Display ------------------------------
(***************************************************************************)
(* The character display of Common/HD44780.c on a 4 bit bus.  An operation *)
(* puts nibbles on the bus, one strobe after the other; the controller     *)
(* (external) pairs them up.  The microcontroller may restart between any  *)
(* two strobes while the controller keeps its state, and starts with       *)
(* hd44780_init again.                                                     *)
(***************************************************************************)
EXTENDS Naturals, Sequences, FiniteSets

CONSTANTS
  Chars,      \* characters (codes above 31)
  Columns,    \* columns used
  MaxCalls,   \* bound: calls after an init
  MaxResets   \* bound: restarts of the microcontroller

VARIABLES
  lcd,    \* external: wide: 8 bit bus; high: nibble that waits, rs with it; addr; cgram; mem
  drv,    \* todo: strobes of the operation that runs; ready: hd44780_init was called; type
  shown   \* history: calls, resets; pos: where the next character belongs; cells: what
          \* the text calls since the last hd44780_clear put where; moved: hd44780_update
          \* was called and the cursor not set since; lost: a character was put then

vars == <<lcd, drv, shown>>

None == 16   \* no nibble waits
Cells == 0..39 \cup 64..103   \* addresses of a controller with two lines

Parameters == Chars \subseteq 32..127 /\ Columns \subseteq 0..39 /\ MaxCalls \in Nat /\ MaxResets \in Nat

\* The controller after power on, or in whatever state an earlier program left it.
Init ==
  /\ lcd \in [wide : BOOLEAN, high : {None, 0, 2, 4, 8}, rs : BOOLEAN, addr : {0, 64}, cgram : BOOLEAN, mem : {<<>>}]
  /\ lcd.wide => lcd.high = None
  /\ lcd.high = None => ~lcd.rs
  /\ drv \in [todo : {<<>>}, ready : {FALSE}, type : {"LCD", "OLED"}]
  /\ shown = [calls |-> 0, resets |-> 0, pos |-> 0, cells |-> <<>>, moved |-> FALSE, lost |-> FALSE]

Cmd(byte) == <<[rs |-> FALSE, n |-> byte \div 16], [rs |-> FALSE, n |-> byte % 16]>>
Data(byte) == <<[rs |-> TRUE, n |-> byte \div 16], [rs |-> TRUE, n |-> byte % 16]>>
Half(n) == <<[rs |-> FALSE, n |-> n]>>

CLEAR == 1
HOME == 2
AUTOINCREMENTON == 6
BLANK == 8
CURSOROFF == 12
POWERON == 23
LINES2 == 40

\* Mutant: one strobe of the reset sequence is left out.
ResyncShort == Half(3) \o Half(3) \o Half(2)

\* The strobes that bring the controller to the 4 bit bus from every state.
Resync == Half(3) \o Half(3) \o Half(3) \o Half(2)

hd44780_init ==
  /\ drv.todo = <<>> /\ ~drv.ready
  /\ drv' = [drv EXCEPT !.ready = TRUE, !.todo = Resync \o Cmd(LINES2) \o
       IF drv.type = "LCD" THEN Cmd(HOME) \o Cmd(CLEAR) \o Cmd(CURSOROFF)
       ELSE Cmd(BLANK) \o Cmd(AUTOINCREMENTON) \o Cmd(POWERON) \o Cmd(CLEAR) \o Cmd(HOME) \o Cmd(CURSOROFF)]
  /\ shown' = [shown EXCEPT !.calls = 0, !.pos = 0, !.cells = <<>>, !.moved = FALSE, !.lost = FALSE]
  /\ UNCHANGED lcd

Call(strobes) ==
  /\ drv.todo = <<>> /\ drv.ready /\ shown.calls < MaxCalls
  /\ drv' = [drv EXCEPT !.todo = strobes]
  /\ UNCHANGED lcd

\* The cell after an address: the lines of the controller's memory form a ring.
After(a) == IF a = 39 THEN 64 ELSE IF a = 103 THEN 0 ELSE a + 1

hd44780_set_pos(row, col) ==
  /\ Call(Cmd((IF row > 0 THEN 192 ELSE 128) + col))
  /\ shown' = [shown EXCEPT !.calls = @ + 1, !.pos = (IF row > 0 THEN 64 ELSE 0) + col, !.moved = FALSE]

\* Mutant: a line feed is sent to the controller as a character.
NewlineData == Data(10)

\* The command for a line feed: the start of the second line.
Newline == Cmd(192)

hd44780_put_char(c) ==
  /\ Call(IF c = 10 THEN Newline ELSE Data(c))
  /\ shown' = [shown EXCEPT !.calls = @ + 1, !.pos = IF c = 10 THEN 64 ELSE After(@),
                            !.cells = IF c = 10 THEN @ ELSE [a \in DOMAIN @ \cup {shown.pos} |->
                                                             IF a = shown.pos THEN c ELSE @[a]],
                            !.moved = @ /\ c # 10, !.lost = @ \/ (c # 10 /\ shown.moved)]

hd44780_clear ==
  /\ Call(Cmd(CLEAR) \o Cmd(HOME))
  /\ shown' = [shown EXCEPT !.calls = @ + 1, !.pos = 0, !.cells = <<>>, !.moved = FALSE, !.lost = FALSE]

\* A picture for a character: eight lines, and the cursor goes home.
hd44780_custom_char(num) ==
  /\ Call(Cmd(64 + num * 8) \o Data(1) \o Data(1) \o Data(1) \o Data(1) \o Data(1) \o Data(1) \o Data(1) \o Data(1)
          \o Cmd(HOME))
  /\ shown' = [shown EXCEPT !.calls = @ + 1, !.pos = 0, !.moved = FALSE]

\* hd44780_update sends 0xFF as a command, because the branch for it in wr4b looks
\* at cmd, which is 1.  To the controller 0xFF is an address outside the lines.
hd44780_update ==
  /\ Call(Cmd(255))
  /\ shown' = [shown EXCEPT !.calls = @ + 1, !.moved = TRUE]

\* External: a complete byte at the controller.
Decoded(b, rs) ==
  IF rs THEN IF lcd.cgram \/ lcd.addr \notin Cells THEN lcd
             ELSE [lcd EXCEPT !.mem = [a \in DOMAIN @ \cup {lcd.addr} |-> IF a = lcd.addr THEN b ELSE @[a]],
                              !.addr = After(@)]
  ELSE CASE b >= 128 -> [lcd EXCEPT !.addr = b - 128, !.cgram = FALSE]
         [] b \in 64..127 -> [lcd EXCEPT !.cgram = TRUE]
         [] b \in 32..63 -> [lcd EXCEPT !.wide = (b \div 16) % 2 = 1]
         [] b \in 2..3 -> [lcd EXCEPT !.addr = 0, !.cgram = FALSE]
         [] b = 1 -> [lcd EXCEPT !.addr = 0, !.cgram = FALSE, !.mem = <<>>]
         [] OTHER -> lcd

\* One strobe: a byte on the wide bus (its low half reads as zero), else half a byte.
Strobe ==
  /\ drv.todo # <<>>
  /\ LET s == Head(drv.todo) IN
       lcd' = IF lcd.wide THEN Decoded(16 * s.n, s.rs)
              ELSE IF lcd.high = None THEN [lcd EXCEPT !.high = s.n, !.rs = s.rs]
              ELSE [Decoded(16 * lcd.high + s.n, s.rs) EXCEPT !.high = None, !.rs = FALSE]
  /\ drv' = [drv EXCEPT !.todo = Tail(@)]
  /\ UNCHANGED shown

\* The microcontroller restarts, in the middle of an operation too.
Reset ==
  /\ drv.ready /\ shown.resets < MaxResets
  /\ drv' = [drv EXCEPT !.todo = <<>>, !.ready = FALSE]
  /\ shown' = [shown EXCEPT !.resets = @ + 1]
  /\ UNCHANGED lcd

Next ==
  \/ hd44780_init \/ hd44780_clear \/ hd44780_custom_char(1) \/ hd44780_update
  \/ \E row \in 0..1, col \in Columns : hd44780_set_pos(row, col)
  \/ \E c \in Chars \cup {10} : hd44780_put_char(c)
  \/ Strobe \/ Reset

-----------------------------------------------------------------------------
TypeOK == lcd.high \in 0..16 /\ lcd.addr \in 0..127 /\ DOMAIN lcd.mem \subseteq Cells

InStep == drv.ready /\ drv.todo = <<>> => ~lcd.wide /\ lcd.high = None /\ ~lcd.cgram

TextLands ==
  drv.ready /\ drv.todo = <<>> =>
    /\ ~shown.lost => lcd.mem = shown.cells
    /\ ~shown.moved => lcd.addr = shown.pos

CursorStays == drv.ready /\ drv.todo = <<>> => lcd.addr = shown.pos
=============================================================================
