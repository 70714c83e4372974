------------------------------- MODULE OneWire ------------------------------
(***************************************************************************)
(* The search for the serial numbers on a 1-Wire bus, in                   *)
(* DS18B20_Multi::SearchSensors (Common/DS18B20.cpp) and DS1822_Search_Rom *)
(* (stm32/DS1822.c): every pass reads each bit and its complement from all *)
(* devices that still take part, and chooses a branch where they differ.   *)
(* Serial numbers have Width bits; the marker words path and next are the  *)
(* sets of their one bits.  The words have 32 bits on the targets of the   *)
(* code, so that at most 32 branches of one pass can be told apart; the    *)
(* model does not bound them.                                              *)
(***************************************************************************)
EXTENDS Naturals, Sequences

CONSTANTS
  Width,        \* bits of a serial number (64)
  max_devices,  \* serial numbers there is room for
  CntSpan       \* values of the unsigned char cnt_num (256)

VARIABLES
  bus,      \* external: the serial numbers on the bus, and those that take part
  search,   \* driver, pc, path, next, pos, the bits read so far
  sensors,  \* cnt: cnt_num; stored: the entries of this search
  disturbed \* history: the bus changed during a search; a search was made before

vars == <<bus, search, sensors, disturbed>>

Parameters == Width \in Nat \ {0} /\ CntSpan \in Nat /\ max_devices \in 1..(CntSpan - 1)

Rom == [1..Width -> {0, 1}]

Init ==
  /\ bus \in [on : SUBSET Rom, active : {{}}]
  /\ search \in [drv : {"DS18B20", "DS1822"}, pc : {"idle"}, path : {{}}, next : {{}}, pos : {1}, bits : {<<>>}]
  /\ sensors = [cnt |-> 0, stored |-> <<>>]
  /\ disturbed = [now |-> FALSE, again |-> FALSE]

\* Mutant: DS18B20 keeps cnt_num, as DS1822 does.
CountKept == sensors.cnt

\* cnt_num at the start of a search: a static variable of DS1822_Search_Rom.
FirstNumber == IF search.drv = "DS18B20" THEN 0 ELSE sensors.cnt

SearchStart ==
  /\ search.pc = "idle"
  /\ search' = [search EXCEPT !.pc = "reset", !.path = {}]
  /\ sensors' = [sensors EXCEPT !.cnt = FirstNumber, !.stored = <<>>]
  /\ UNCHANGED <<bus, disturbed>>

\* Reset and SEARCH_ROM; without a presence pulse the search ends with an error.
ResetPulse ==
  /\ search.pc = "reset"
  /\ search' = IF bus.on = {} THEN [search EXCEPT !.pc = "failed"]
               ELSE [search EXCEPT !.pc = "bit", !.next = {}, !.pos = 1, !.bits = <<>>]
  /\ bus' = [bus EXCEPT !.active = bus.on]
  /\ UNCHANGED <<sensors, disturbed>>

\* Mutant: the decisions behind the new branch are kept.
BranchKeepsAll(path, pos) == path \cup {pos}

\* The path that takes the new branch: (path & (pos - 1)) | pos.
Branch(path, pos) == {p \in path : p < pos} \cup {pos}

\* The two reads of a bit (wired AND), the choice, and the write that makes the
\* devices with the other bit drop out.
ReadBit ==
  /\ search.pc = "bit" /\ Len(search.bits) < Width
  /\ LET i == Len(search.bits) + 1
         bit == IF \A d \in bus.active : d[i] = 1 THEN 1 ELSE 0
         chk == IF \A d \in bus.active : d[i] = 0 THEN 1 ELSE 0
         collision == bit = 0 /\ chk = 0
         taken == IF collision /\ search.pos \in search.path THEN 1 ELSE bit
     IN  /\ search' = [search EXCEPT !.bits = Append(@, taken),
                         !.pos = IF collision THEN @ + 1 ELSE @,
                         !.next = IF collision /\ search.pos \notin search.path
                                  THEN Branch(search.path, search.pos) ELSE @]
         /\ bus' = [bus EXCEPT !.active = {d \in @ : d[i] = taken}]
  /\ UNCHANGED <<sensors, disturbed>>

\* A completed serial number; DS18B20 stops when its array is full.
PassEnd ==
  /\ search.pc = "bit" /\ Len(search.bits) = Width
  /\ LET cnt == (sensors.cnt + 1) % CntSpan
         full == search.drv = "DS18B20" /\ cnt = max_devices
     IN  /\ search' = [search EXCEPT !.pc = IF search.next = {} \/ full THEN "done" ELSE "reset",
                                     !.path = search.next]
         /\ sensors' = [cnt |-> cnt, stored |-> Append(sensors.stored, search.bits)]
  /\ UNCHANGED <<bus, disturbed>>

\* External: a device is unplugged, or plugged in, while a search runs or between
\* two searches.
BusChange ==
  /\ search.pc \in {"reset", "bit", "idle"} /\ ~disturbed.now /\ ~disturbed.again
  /\ \E d \in Rom : bus' = IF d \in bus.on THEN [on |-> bus.on \ {d}, active |-> bus.active \ {d}]
                                           ELSE [bus EXCEPT !.on = @ \cup {d}]
  /\ disturbed' = [disturbed EXCEPT !.now = search.pc # "idle"]
  /\ UNCHANGED <<search, sensors>>

\* The caller may search again, on the bus as it is then.
SearchAgain ==
  /\ search.pc \in {"done", "failed"}
  /\ search' = [search EXCEPT !.pc = "idle"]
  /\ disturbed' = [now |-> FALSE, again |-> TRUE]
  /\ UNCHANGED <<bus, sensors>>

Next == SearchStart \/ ResetPulse \/ ReadBit \/ PassEnd \/ BusChange \/ SearchAgain

-----------------------------------------------------------------------------
TypeOK ==
  /\ search.pos \in 1..(Width + 1) /\ search.path \cup search.next \subseteq 1..Width
  /\ sensors.cnt \in 0..(CntSpan - 1)

Found == {sensors.stored[k] : k \in DOMAIN sensors.stored}

SearchExact ==
  search.pc \in {"reset", "bit", "done"} /\ ~disturbed.now =>
    /\ \A k, l \in DOMAIN sensors.stored : k # l => sensors.stored[k] # sensors.stored[l]
    /\ Found \subseteq bus.on
    /\ search.pc = "done" => Found = bus.on \/ (search.drv = "DS18B20" /\ Len(sensors.stored) = max_devices)

CountExact ==
  search.pc = "done" => sensors.cnt = Len(sensors.stored) % CntSpan \/ (search.drv = "DS1822" /\ disturbed.again)
=============================================================================
