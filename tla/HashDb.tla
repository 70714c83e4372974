------------------------------- MODULE HashDb --------------------------------
(***************************************************************************)
(* class HashDB of Common/hash_db.cpp: a chain of entries in one block of  *)
(* memory.  The memory is modelled as cells of 32 bits; a header           *)
(* (db_header_t: name_hash, db_size) takes two, and sizes are counted in   *)
(* cells.  Entry names are represented by their hashes.                    *)
(***************************************************************************)
EXTENDS Integers, Sequences, FiniteSets

CONSTANTS
  Key,        \* the hashes of the names of entries (positive numbers)
  Value,      \* the values that are written: sequences of cells
  ValuesOf,   \* which of them are written under a key
  MaxSizes,   \* the sizes of the block
  Absent

Parameters ==
  /\ Key \subseteq Nat
  /\ Value \subseteq Seq(Nat)
  /\ ValuesOf \in [Key -> SUBSET Value]
  /\ \A size \in MaxSizes : size \in Nat /\ size >= 2

HDR == 2      \* sizeof(db_header_t)

VARIABLES
  max_size,   \* max_size_
  mem,        \* *location_
  answer      \* what the last call returned

vars == <<max_size, mem, answer>>

\* Cells the code may look at; those from max_size on are not its own.
Cell == 0..(max_size + HDR)

TypeOK ==
  /\ max_size \in MaxSizes
  /\ mem \in [Cell -> Nat]
  /\ answer \in [status : {"ok", "nospace", "absent", "mismatch"},
                 value : Value \cup {Absent}]

\* HashDB::HashDB, initialize_database
Init ==
  /\ max_size \in MaxSizes
  /\ mem = [c \in Cell |-> IF c = 1 THEN HDR ELSE 0]
  /\ answer = [status |-> "ok", value |-> Absent]

Used == mem[1]                       \* header->db_size
NameAt(o) == mem[o]
SizeAt(o) == mem[o + 1]
DataAt(o) == [i \in 1..SizeAt(o) |-> IF o + 1 + i \in Cell THEN mem[o + 1 + i] ELSE 0]

\* The loop over the entries: the offset of the entry k, or where it ended.
Scan(k) ==
  LET at[o \in Nat] == IF o >= Used \/ NameAt(o) = k THEN o
                       ELSE at[o + HDR + SizeAt(o)]
  IN at[HDR]

Found(k) == Scan(k) < Used

Reply(status, v) == answer' = [status |-> status, value |-> v]

-----------------------------------------------------------------------------
\* Mutant: the place of a new entry's data is not counted.
SpaceForHeader(v) == Used + HDR <= max_size

Space(v) == Used + HDR + Len(v) <= max_size

\* Mutant: the used size grows also when an entry is overwritten.
WriteEntryGrows(k, v) ==
  LET o == Scan(k) IN
  mem' = [c \in Cell |->
            CASE c = o -> k
              [] c = o + 1 -> Len(v)
              [] c \in (o + HDR)..(o + HDR + Len(v) - 1) -> v[c - o - 1]
              [] c = 1 -> Used + HDR + Len(v)
              [] OTHER -> mem[c]]

\* Name, size and data at the offset where the loop stopped.
WriteEntry(k, v) ==
  LET o == Scan(k) IN
  mem' = [c \in Cell |->
            CASE c = o -> k
              [] c = o + 1 -> Len(v)
              [] c \in (o + HDR)..(o + HDR + Len(v) - 1) -> v[c - o - 1]
              [] c = 1 /\ ~Found(k) -> Used + HDR + Len(v)
              [] OTHER -> mem[c]]

write_int(k, v) ==
  \/ /\ ~Space(v)
     /\ Reply("nospace", Absent)
     /\ UNCHANGED mem
  \/ /\ Space(v)
     /\ WriteEntry(k, v)
     /\ Reply("ok", Absent)

\* Mutant: the size of the entry is not compared.
ReadUnchecked(k, size) ==
  /\ \/ ~Found(k) /\ Reply("absent", Absent)
     \/ Found(k) /\ Reply("ok", [i \in 1..size |-> mem[Scan(k) + 1 + i]])
  /\ UNCHANGED mem

read_int(k, size) ==
  /\ \/ ~Found(k) /\ Reply("absent", Absent)
     \/ Found(k) /\ SizeAt(Scan(k)) # size /\ Reply("mismatch", Absent)
     \/ Found(k) /\ SizeAt(Scan(k)) = size /\ Reply("ok", DataAt(Scan(k)))
  /\ UNCHANGED mem

Sizes == {Len(v) : v \in Value}

Next ==
  /\ \E k \in Key :
       \/ \E v \in ValuesOf[k] : write_int(k, v)
       \/ \E size \in Sizes : read_int(k, size)
  /\ UNCHANGED max_size

Spec == Init /\ [][Next]_vars

-----------------------------------------------------------------------------
\* The map the memory stands for: what read_int finds.
Store ==
  [k \in Key |-> IF Found(k) THEN DataAt(Scan(k)) ELSE Absent]

\* The offsets of the headers, and of the end of the last entry.
Entries ==
  LET at[o \in Nat] == IF o >= Used THEN <<o>> ELSE <<o>> \o at[o + HDR + SizeAt(o)]
  IN at[HDR]

\* The chain of headers ends exactly at db_size, within max_size_, so no loop
\* ever reads a header from the middle of data.
ChainExact ==
  /\ Entries[Len(Entries)] = Used
  /\ Used <= max_size
  /\ \A i, j \in 1..(Len(Entries) - 1) :
       NameAt(Entries[i]) = NameAt(Entries[j]) => i = j
=============================================================================
