-------------------------------- MODULE Pins --------------------------------
(***************************************************************************)
(* The pins of Linux/raspberrypi/raspi_gpio.c: ten function fields share a *)
(* GPFSEL register, and two registers hold the levels of pins 0 to 31 and  *)
(* of the others.                                                          *)
(***************************************************************************)
EXTENDS Naturals, FiniteSets

CONSTANTS
  Used,    \* pins a program uses
  Funcs,   \* functions it gives to them
  MaxSets  \* bound: calls

VARIABLES
  soc,   \* external: fsel: the function of each pin; high: pins that are driven high
         \* (32 and the others have the bits 0 and up of the second register)
  want   \* history: calls; func: last function asked for; cleared: pins that were given
         \* another function before, or whose register was used for another pin since;
         \* level: last level asked for

vars == <<soc, want>>

Last == 54
All == 0..Last   \* and the bit behind the last pin
Parameters == Used \subseteq 0..(Last - 1) /\ Funcs \subseteq 0..7 /\ MaxSets \in Nat

Bit(x, k) == (x \div 2^k) % 2
Or(a, b) == LET or(k) == IF Bit(a, k) + Bit(b, k) > 0 THEN 2^k ELSE 0 IN or(0) + or(1) + or(2)

Init ==
  /\ soc = [fsel |-> [p \in Used |-> 0], high |-> {}]
  /\ want = [calls |-> 0, func |-> [p \in Used |-> 0], cleared |-> {}, level |-> [p \in Used |-> FALSE]]

Calls == want.calls < MaxSets

\* Mutant: the field of the pin is set to ones first.
KeptOnes(n, p) == IF p = n THEN 7 ELSE soc.fsel[p]

\* *reg &= 7 << n keeps the field of the pin and clears the others of the register.
Kept(n, p) == IF p = n THEN soc.fsel[p] ELSE 0

gpio_init(n, func) ==
  /\ Calls
  /\ soc' = [soc EXCEPT !.fsel = [p \in Used |->
       IF p \div 10 # n \div 10 THEN @[p] ELSE IF p = n THEN Or(Kept(n, p), func) ELSE Kept(n, p)]]
  /\ want' = [want EXCEPT !.calls = @ + 1, !.func[n] = func,
       !.cleared = {p \in @ : p # n} \cup {p \in Used : p # n /\ p \div 10 = n \div 10}
                     \cup (IF soc.fsel[n] # 0 THEN {n} ELSE {})]

\* Mutant: pin 31 is looked for in the second register.
RegisterBitEarly(n) == IF n < 31 THEN n ELSE n + 1

\* The pin whose bit is written: bit gpio_num - 31 of the second register is that of
\* the pin behind.
RegisterBit(n) == IF n <= 31 THEN n ELSE n + 1

gpio_set(n) ==
  /\ Calls
  /\ soc' = [soc EXCEPT !.high = @ \cup {RegisterBit(n)}]
  /\ want' = [want EXCEPT !.calls = @ + 1, !.level[n] = TRUE]

gpio_clr(n) ==
  /\ Calls
  /\ soc' = [soc EXCEPT !.high = @ \ {RegisterBit(n)}]
  /\ want' = [want EXCEPT !.calls = @ + 1, !.level[n] = FALSE]

gpio_func(n) == soc.fsel[n]

\* gpio_read takes 31 off the number of a pin of the second register as well.
gpio_read(n) == (IF n <= 31 THEN n ELSE (n - 31) + 32) \in soc.high

\* The program makes no further calls.
Enough == ~Calls /\ UNCHANGED vars

Next == Enough \/ \E n \in Used : (\E f \in Funcs : gpio_init(n, f)) \/ gpio_set(n) \/ gpio_clr(n)

-----------------------------------------------------------------------------
TypeOK == soc.high \subseteq All /\ \A p \in Used : soc.fsel[p] \in 0..7

FunctionGiven == \A n \in Used : gpio_func(n) = want.func[n] \/ n \in want.cleared

First32 == 0..31

LevelDriven ==
  /\ soc.high \cap First32 = {n \in Used \cap First32 : want.level[n]}
  /\ \A n \in Used \cap First32 : gpio_read(n) = want.level[n]
=============================================================================
