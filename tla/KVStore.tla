------------------------------- MODULE KVStore -------------------------------
(***************************************************************************)
(* What the databases of Common/hash_db.cpp and Common/simple_db.c         *)
(* promise: a map from keys to values.  Writing, replacing or deleting one *)
(* key leaves all others as they are, reading returns what was written     *)
(* last, and an operation that is refused changes nothing.                 *)
(***************************************************************************)
CONSTANTS
  Key,
  Value,
  Absent     \* no value

VARIABLES
  store,     \* the value of each key
  answer     \* what the last operation returned: a status and a value

vars == <<store, answer>>

Answer(status, v) == answer' = [status |-> status, value |-> v]

TypeOK ==
  /\ store \in [Key -> Value \cup {Absent}]
  /\ answer \in [status : {"ok", "nospace", "exists", "absent", "mismatch"},
                 value : Value \cup {Absent}]

Init ==
  /\ store = [k \in Key |-> Absent]
  /\ answer = [status |-> "ok", value |-> Absent]

Put(k) ==
  /\ Answer("ok", Absent)
  /\ LET old == store IN store' \in {[old EXCEPT ![k] = v] : v \in Value}

PutRefused == Answer("nospace", Absent) /\ UNCHANGED store

InsertRefused(k) ==
  Answer("exists", Absent) /\ store[k] # Absent /\ UNCHANGED store

Delete(k) ==
  /\ Answer("ok", Absent)
  /\ store[k] # Absent
  /\ store' = [store EXCEPT ![k] = Absent]

\* Also what a read of an absent key returns.
NotFound(k) ==
  Answer("absent", Absent) /\ store[k] = Absent /\ UNCHANGED store

Get(k) ==
  /\ store[k] # Absent
  /\ Answer("ok", store[k]) \/ Answer("mismatch", Absent)
  /\ UNCHANGED store

Next ==
  \/ PutRefused
  \/ \E k \in Key :
       \/ Put(k) \/ InsertRefused(k) \/ Delete(k) \/ NotFound(k) \/ Get(k)

Spec == Init /\ [][Next]_vars
=============================================================================
