------------------------------ MODULE Databases ------------------------------
(***************************************************************************)
(* The two databases of the library, HashDB (Common/hash_db.cpp) and       *)
(* simple_db (Common/simple_db.c), behind the one interface both promise:  *)
(* a behaviour is that of one database, of either kind.                    *)
(***************************************************************************)
EXTENDS Integers, Sequences, FiniteSets

CONSTANTS
  Key,         \* hashes of names, and tags
  HashValue,   \* what is written to a HashDB
  ValuesOf,    \* which of these are written under a key
  MaxSizes,    \* sizes of a HashDB
  Data,        \* the bytes written to a simple_db
  Types,       \* and their types
  Cap,         \* bound: size of a simple_db
  Absent

VARIABLES kind, max_size, mem, dbsize, crc, crc_func, answer

vars == <<kind, max_size, mem, dbsize, crc, crc_func, answer>>

Hash == INSTANCE HashDb WITH Value <- HashValue
Simple == INSTANCE SimpleDb WITH Tag <- Key

ASSUME DatabasesAssumption ==
  /\ Hash!Parameters
  /\ Simple!Parameters
  /\ Absent \notin HashValue \cup Simple!Value

Init ==
  \/ /\ kind = "hash"
     /\ Hash!Init
     /\ dbsize = 0 /\ crc = <<>> /\ crc_func = FALSE
  \/ kind = "simple" /\ max_size = 0 /\ Simple!Init

HashStep == kind = "hash" /\ Hash!Next /\ UNCHANGED <<kind, dbsize, crc, crc_func>>
SimpleStep == kind = "simple" /\ Simple!Next /\ UNCHANGED <<kind, max_size>>
Next == HashStep \/ SimpleStep

Spec == Init /\ [][Next]_vars

-----------------------------------------------------------------------------
\* The memory holds bytes and words, sizes stay in their bounds, and a read
\* returns only values that can have been written.
TypeOK == IF kind = "hash" THEN Hash!TypeOK ELSE Simple!TypeOK

KV == INSTANCE KVStore
        WITH Value <- HashValue \cup Simple!Value,
             store <- IF kind = "hash" THEN Hash!Store ELSE Simple!Store

\* Both databases are maps ("Write data to hash database", "Store data to
\* database", "Delete entry from DB"): writing, overwriting or deleting an entry
\* changes that entry and no other, a refused call changes nothing, and a read
\* returns what was written last.
ImplementsMap == KV!Spec

\* The chain of a HashDB's headers ends exactly at db_size, within max_size_,
\* so no loop ever reads a header from the middle of data.
ChainExact == kind = "hash" => Hash!ChainExact

\* db_get_nof_tags counts what db_read can find: no entry is lost behind a cut,
\* none is counted that belongs to no tag.
CountsTags == kind = "simple" => Simple!CountsTags

\* db_validate succeeds on a simple_db that had a CRC function from the start:
\* every operation leaves size and CRC in step.
StaysValid == kind = "simple" => Simple!StaysValid
=============================================================================
