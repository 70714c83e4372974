------------------------------ MODULE SimpleDb -------------------------------
(***************************************************************************)
(* The tagged database of Common/simple_db.c, byte by byte:                *)
(*    size (4 bytes), CRC (4 bytes), and entries                           *)
(*    tag, 0, type, size (2 bytes), data.                                  *)
(* db_data_type takes one byte, as simple_db.h says and the short enums of *)
(* the ARM EABI make it; where an enum is an int, db_get_type looks at     *)
(* another address (simple_db.c scales the pointer).  Size and CRC are     *)
(* variables of their own; the CRC is the checked bytes themselves.  Tags  *)
(* have one character, a number above 0.  The memory is what the caller    *)
(* provides; Cap bounds what is written, the code does not.                *)
(***************************************************************************)
EXTENDS Integers, Sequences, FiniteSets

CONSTANTS
  Tag,      \* the tags, one character each
  Data,     \* the bytes that are written
  Types,    \* the data types in use, of DB_Text, DB_8b, DB_16b, DB_32b
  Cap,      \* bound: the size of the memory
  Absent

Parameters ==
  /\ Tag \subseteq 1..255
  /\ Data \subseteq Seq(0..255) /\ \A d \in Data : Len(d) \div 256 < 256
  /\ Types \subseteq {0, 1, 2, 4}
  /\ Cap \in Nat

DB_16b == 2
DB_32b == 4
FIRST == 8                        \* offset of the first entry

\* Bytes per element of a type.
Width(type) == IF type \in {DB_16b, DB_32b} THEN type ELSE 1

VARIABLES
  mem,        \* the memory
  dbsize,     \* the word at 0 (0xFFFFFFFF, erased memory, counts as 0)
  crc,        \* the word at 4
  crc_func,   \* whether db_init was called with a function
  answer      \* what the last call returned

vars == <<mem, dbsize, crc, crc_func, answer>>

Cell == 0..(Cap + 8)

\* A value is its type followed by its bytes, a number of whole elements.
Value == {v \in {<<t>> \o d : t \in Types, d \in Data} : (Len(v) - 1) % Width(Head(v)) = 0}

TypeOK ==
  /\ mem \in [Cell -> 0..255]
  /\ dbsize \in 0..Cap
  /\ crc \in Seq(0..255)
  /\ crc_func \in BOOLEAN
  /\ answer.status \in {"ok", "exists", "absent"}

Init ==
  /\ mem = [c \in Cell |-> 255]
  /\ dbsize = 0
  /\ crc = <<>>
  /\ crc_func \in BOOLEAN
  /\ answer = [status |-> "ok", value |-> Absent]

-----------------------------------------------------------------------------
(***************************************************************************)
(* Reading the memory.  A walk reads what is there: after an entry was     *)
(* cut at the wrong place, that need not be an entry.                      *)
(***************************************************************************)
At(p) == IF p \in Cell THEN mem[p] ELSE 255
strlen(p) ==
  CHOOSE n \in 0..Cap :
    (n = Cap \/ At(p + n) = 0) /\ \A m \in 0..(n - 1) : At(p + m) # 0
IsTag(t, p) == At(p) = t /\ At(p + 1) = 0
SizeAt(p) == At(p) + 256 * At(p + 1)

NextEntry(p) == LET n == strlen(p) IN p + n + 4 + SizeAt(p + n + 2)

\* The offset of the tag's entry, 0 if there is none.
find_data(t) ==
  LET at[p \in Nat] ==
        LET q == NextEntry(p) IN
        IF IsTag(t, p) THEN p
        ELSE IF strlen(p) = 0 \/ q >= dbsize THEN 0 ELSE at[q]
  IN IF dbsize <= FIRST THEN 0 ELSE at[FIRST]

\* The number of entries a walk that finds nothing passes.
db_get_nof_tags ==
  LET count[p \in Nat] ==
        LET q == NextEntry(p) IN
        IF strlen(p) = 0 \/ q >= dbsize THEN 1 ELSE 1 + count[q]
  IN IF dbsize <= FIRST THEN 0 ELSE count[FIRST]

db_get_type(t) == At(find_data(t) + 2)
BytesOf(t) == SizeAt(find_data(t) + 3)
db_get_entry_size(t) == BytesOf(t) \div Width(db_get_type(t))
ValueOf(t) ==
  LET p == find_data(t) IN <<At(p + 2)>> \o [i \in 1..SizeAt(p + 3) |-> At(p + 4 + i)]

-----------------------------------------------------------------------------
Reply(status, v) == answer' = [status |-> status, value |-> v]

\* The CRC of a memory m with a database of a given size.
CrcOf(m, size) == [i \in 1..(size - FIRST) |-> m[FIRST + i - 1]]

\* Mutant: the CRC is taken before the size is updated.
UpdateStale(m, size) ==
  /\ mem' = m
  /\ dbsize' = size
  /\ crc' = IF crc_func /\ dbsize >= FIRST THEN CrcOf(m, dbsize) ELSE crc

update_db(m, size) ==
  /\ mem' = m
  /\ dbsize' = size
  /\ crc' = IF crc_func THEN CrcOf(m, size) ELSE crc

\* Where db_write puts a new entry into memory m with a database of a given size.
Appended(m, size, t, v) ==
  LET p == IF size <= FIRST THEN FIRST ELSE size
      bytes == Len(v) - 1
      entry == <<t, 0, Head(v), bytes % 256, bytes \div 256>> \o Tail(v)
  IN [m |-> [c \in Cell |-> IF c \in p..(p + Len(entry) - 1) THEN entry[c - p + 1]
                            ELSE m[c]],
      size |-> p + Len(entry)]

\* Mutant: the header of the database is counted as well.
EntryLengthHeader(t) == db_get_entry_size(t) + 1 + 4 + FIRST

\* The bytes db_delete takes out, counted as the code counts them: elements.
EntryLength(t) == db_get_entry_size(t) + 1 + 4

\* Mutant: the last byte is not moved.
RemovedShort(t) ==
  LET p == find_data(t)
      n == EntryLength(t)
  IN [m |-> [c \in Cell |-> IF c >= p /\ c < dbsize - n - 1 THEN mem[c + n] ELSE mem[c]],
      size |-> dbsize - n]

\* The memory after db_delete.  The code uses memcpy, which leaves open what happens when
\* the regions overlap, as they do whenever more is moved than taken out; the outcome here
\* is that of a copy from the lowest byte up.
Removed(t) ==
  LET p == find_data(t)
      n == EntryLength(t)
  IN [m |-> [c \in Cell |-> IF c >= p /\ c < dbsize - n THEN mem[c + n] ELSE mem[c]],
      size |-> dbsize - n]

-----------------------------------------------------------------------------
\* Mutant: a tag that exists is written once more.
WriteTwice(t, v) ==
  /\ LET new == Appended(mem, dbsize, t, v) IN
     new.size <= Cap /\ update_db(new.m, new.size)
  /\ Reply("ok", Absent)
  /\ UNCHANGED crc_func

db_write(t, v) ==
  /\ \/ /\ find_data(t) # 0
        /\ Reply("exists", Absent)
        /\ UNCHANGED <<mem, dbsize, crc>>
     \/ /\ find_data(t) = 0
        /\ LET new == Appended(mem, dbsize, t, v) IN
           new.size <= Cap /\ update_db(new.m, new.size)
        /\ Reply("ok", Absent)
  /\ UNCHANGED crc_func

\* db_delete if the tag exists, then db_write.
db_overwrite(t, v) ==
  /\ LET old == IF find_data(t) # 0 THEN Removed(t) ELSE [m |-> mem, size |-> dbsize]
         new == Appended(old.m, old.size, t, v)
     IN new.size <= Cap /\ update_db(new.m, new.size)
  /\ Reply("ok", Absent)
  /\ UNCHANGED crc_func

db_delete(t) ==
  /\ \/ /\ find_data(t) = 0
        /\ Reply("absent", Absent)
        /\ UNCHANGED <<mem, dbsize, crc>>
     \/ /\ find_data(t) # 0
        /\ update_db(Removed(t).m, Removed(t).size)
        /\ Reply("ok", Absent)
  /\ UNCHANGED crc_func

db_read(t) ==
  /\ \/ find_data(t) = 0 /\ Reply("absent", Absent)
     \/ /\ find_data(t) # 0
        /\ Reply("ok", ValueOf(t))
  /\ UNCHANGED <<mem, dbsize, crc, crc_func>>

Next ==
  \E t \in Tag :
    \/ \E v \in Value : db_write(t, v) \/ db_overwrite(t, v)
    \/ db_delete(t)
    \/ db_read(t)

Spec == Init /\ [][Next]_vars

-----------------------------------------------------------------------------
\* The map the memory stands for: what db_read finds.
Store == [t \in Tag |-> IF find_data(t) = 0 THEN Absent ELSE ValueOf(t)]

\* db_get_nof_tags counts what db_read can find: no entry is lost behind a cut,
\* none is counted that belongs to no tag.
CountsTags == db_get_nof_tags = Cardinality({t \in Tag : find_data(t) # 0})

\* db_validate succeeds whenever a CRC function was assigned from the start and
\* something has been written: every operation leaves size and CRC in step.
StaysValid == crc_func /\ dbsize # 0 => crc = CrcOf(mem, dbsize)
=============================================================================
