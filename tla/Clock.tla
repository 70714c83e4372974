-------------------------------- MODULE Clock -------------------------------
(***************************************************************************)
(* Clocks of stm32f10x_cpp/src/clock.cpp and the delays built on it: what  *)
(* the software believes the frequencies to be (static variables, members  *)
(* of a Clocks object) beside the clock tree of the chip (external), which *)
(* takes no new source or multiplier for a PLL that runs.  Frequencies are *)
(* in kHz.  Nothing in the library writes the bus dividers: the program    *)
(* has set them before.                                                    *)
(***************************************************************************)
EXTENDS Naturals

CONSTANTS
  Crystals,  \* crystals of a board
  Mults,     \* arguments of EnablePLL
  Micros,    \* arguments of DelayUs
  MaxOps     \* bound: calls

VARIABLES
  rcc,   \* external: crystal, sws, hpre, ppre; pll: on, hse (source), mul (field)
  clk,   \* static variables: source, hse, rates; object: members of a Clocks object
  past   \* history: ops, last; switched: a source was chosen since the last EnablePLL;
         \* frozen: EnablePLL met a PLL that was running; us, ticks: the last delay

vars == <<rcc, clk, past>>

Parameters ==
  /\ Crystals \subseteq Nat /\ \A f \in Crystals : f > 0 /\ f % 1000 = 0
  /\ Mults \subseteq Nat /\ Micros \subseteq Nat /\ MaxOps \in Nat

HSI_CLOCK_FREQ == 8000
HSE_DEFAULT_CLOCK_FREQ == 8000

ahb_mult == IF rcc.hpre < 8 THEN 1 ELSE 2^(rcc.hpre - 7)
apb_mult == IF rcc.ppre < 4 THEN 1 ELSE 2^(rcc.ppre - 3)
Rates(cpu) == [cpu |-> cpu, ahb |-> cpu \div ahb_mult, apb |-> (cpu \div ahb_mult) \div apb_mult]
Reset == [cpu |-> HSI_CLOCK_FREQ, ahb |-> HSI_CLOCK_FREQ, apb |-> HSI_CLOCK_FREQ]

Init ==
  /\ rcc \in [crystal : Crystals, sws : {"HSI"}, hpre : {0, 8, 12}, ppre : {0, 4},
              pll : {[on |-> FALSE, hse |-> FALSE, mul |-> 0]}]
  /\ clk = [source |-> "HSI", hse |-> HSE_DEFAULT_CLOCK_FREQ, rates |-> Reset, object |-> Reset]
  /\ past = [ops |-> 0, last |-> "none", switched |-> FALSE, frozen |-> FALSE, us |-> 0, ticks |-> 0]

Called(op) == [past EXCEPT !.ops = @ + 1, !.last = op]
Calls == past.ops < MaxOps

RunFromHSI ==
  /\ Calls
  /\ rcc' = [rcc EXCEPT !.sws = "HSI"]
  /\ clk' = [clk EXCEPT !.source = "HSI"]
  /\ past' = [Called("Run") EXCEPT !.switched = TRUE]

\* The caller names the crystal of the board.
RunFromHSE ==
  /\ Calls
  /\ rcc' = [rcc EXCEPT !.sws = "HSE"]
  /\ clk' = [clk EXCEPT !.source = "HSE", !.hse = rcc.crystal]
  /\ past' = [Called("Run") EXCEPT !.switched = TRUE]

\* Mutant: the frequency is computed for the default crystal.
MultipliedDefault(mult) == HSE_DEFAULT_CLOCK_FREQ * mult

\* What EnablePLL stores, whichever the source.
Multiplied(mult) == clk.hse * mult

\* A multiplier out of range, or a system that runs from the PLL already: nothing.
\* On HSI the source bit is left as it is.
EnablePLL(mult) ==
  /\ Calls
  /\ IF mult \notin 2..16 \/ clk.source = "PLL"
     THEN UNCHANGED <<rcc, clk>> /\ past' = Called("EnablePLL")
     ELSE /\ rcc' = [rcc EXCEPT !.sws = "PLL",
                       !.pll = IF @.on THEN @ ELSE [on |-> TRUE, hse |-> @.hse \/ clk.source = "HSE", mul |-> mult - 2]]
          /\ clk' = [clk EXCEPT !.source = "PLL", !.rates = Rates(Multiplied(mult))]
          /\ past' = [Called("EnablePLL") EXCEPT !.switched = FALSE, !.frozen = @ \/ rcc.pll.on]

\* Mutant: one less than the factor.
get_pll_mult_less(field) == IF field >= 2 THEN field + 1 ELSE 1

get_pll_mult(field) == IF field >= 2 THEN field + 2 ELSE 1

\* Update changes the object only; the static variables stay.
Update ==
  /\ Calls
  /\ clk' = [clk EXCEPT !.object = Rates(
       IF rcc.sws = "HSI" THEN HSI_CLOCK_FREQ
       ELSE IF rcc.sws = "HSE" THEN clk.hse
       ELSE (IF rcc.pll.hse THEN clk.hse ELSE HSI_CLOCK_FREQ \div 2) * get_pll_mult(rcc.pll.mul))]
  /\ past' = Called("Update")
  /\ UNCHANGED rcc

\* Mutant: the frequency of the internal oscillator, whatever the clock is.
TicksHSI(us) == us * 8

\* us * freq / 1000000 in 32 bit arithmetic: 10^6 = 15625 * 2^6, and 2^26 is
\* 2^32 divided by 2^6.
Ticks(us) == ((us * (clk.rates.cpu \div 1000) * 15625) % 2^26) \div 15625

DelayUs(us) ==
  /\ Calls
  /\ past' = [Called("DelayUs") EXCEPT !.us = us, !.ticks = Ticks(us)]
  /\ UNCHANGED <<rcc, clk>>

\* The program makes no further calls.
Enough == ~Calls /\ UNCHANGED vars

Next ==
  \/ Enough
  \/ RunFromHSI \/ RunFromHSE \/ Update
  \/ \E m \in Mults : EnablePLL(m)
  \/ \E us \in Micros : DelayUs(us)

-----------------------------------------------------------------------------
TypeOK == past.ops \in 0..MaxOps /\ rcc.pll.mul \in 0..14 /\ clk.rates.cpu \in Nat /\ (rcc.sws = "PLL" => rcc.pll.on)

\* Reference: the frequencies of the chip; its AHB divider has no step for 32.
Cpu == IF rcc.sws = "HSI" THEN 8000 ELSE IF rcc.sws = "HSE" THEN rcc.crystal
       ELSE (IF rcc.pll.hse THEN rcc.crystal ELSE 4000) * (rcc.pll.mul + 2)
Ahb == Cpu \div (IF rcc.hpre < 8 THEN 1 ELSE IF rcc.hpre < 12 THEN 2^(rcc.hpre - 7) ELSE 2^(rcc.hpre - 6))

UpdateTrue ==
  past.last = "Update" =>
    /\ clk.object.cpu = Cpu \/ (rcc.sws = "PLL" /\ rcc.pll.mul < 2)
    /\ clk.object.cpu = Cpu /\ rcc.hpre < 12 => clk.object.ahb = Ahb

StoredTrue ==
  clk.rates.cpu # Cpu => past.switched \/ past.frozen \/ ~rcc.pll.hse

DelayLong ==
  past.last = "DelayUs" /\ past.ticks * 1000 < past.us * Ahb =>
    clk.rates.cpu < Cpu \/ past.us * (clk.rates.cpu \div 1000) >= 4295

FrequencyKnown == clk.rates.cpu = Cpu

DelayAsAsked == past.last = "DelayUs" /\ FrequencyKnown => past.ticks * 1000 >= past.us * Ahb
=============================================================================
