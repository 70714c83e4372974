------------------------------- MODULE Loggers ------------------------------
(***************************************************************************)
(* What the loggers write when several clients send at the same time and   *)
(* the program is started again: Linux/logger with log_to_file of          *)
(* Linux/log.c, which opens the file for every entry with O_APPEND and     *)
(* writes it at once, and LoggerServer of Linux/logger2, which keeps the   *)
(* file open and writes an entry in pieces.  Both hold a mutex.  An entry  *)
(* is the client that sent it and the number of its message.               *)
(***************************************************************************)
EXTENDS Naturals, Sequences, FiniteSets

CONSTANTS
  Senders,    \* client handlers
  MaxEntries, \* bound: messages
  MaxRuns,    \* bound: starts of the program
  NoSender

VARIABLES
  log,     \* the file: a sequence of pieces [of, part, last]
  prog,    \* kind: "log" or "logger2"; pos: offset of the open file; lock: holder of the mutex
  sender,  \* per sender: pc and the entry it writes
  count    \* entries begun; runs of the program; done: entries written and synced

vars == <<log, prog, sender, count>>

Parameters == NoSender \notin Senders /\ MaxEntries \in Nat /\ MaxRuns \in Nat

\* Pieces of an entry: one write, or time stamp, separator, data, and a line end
\* of its own when the data end with one.
Parts(newline) == IF prog.kind = "log" THEN 1 ELSE IF newline THEN 4 ELSE 3

Idle == [pc |-> "idle", entry |-> 0, part |-> 0, parts |-> 0]

Init ==
  /\ log = <<>>
  /\ prog \in [kind : {"log", "logger2"}, pos : {0}, lock : {NoSender}]
  /\ sender = [s \in Senders |-> Idle]
  /\ count = [entries |-> 0, runs |-> 1, done |-> {}]

\* A message passed the filter of receive or OnReceive; others change nothing.
Receive(s, newline) ==
  /\ sender[s].pc = "idle" /\ count.entries < MaxEntries
  /\ sender' = [sender EXCEPT ![s] = [pc |-> "lock", entry |-> count.entries + 1, part |-> 1,
                                        parts |-> Parts(newline)]]
  /\ count' = [count EXCEPT !.entries = @ + 1]
  /\ UNCHANGED <<log, prog>>

\* Mutant: the mutex is not asked for.
LockNot(s) ==
  /\ sender[s].pc = "lock"
  /\ sender' = [sender EXCEPT ![s].pc = "write"]
  /\ UNCHANGED <<log, prog, count>>

Lock(s) ==
  /\ sender[s].pc = "lock" /\ prog.lock = NoSender
  /\ prog' = [prog EXCEPT !.lock = s]
  /\ sender' = [sender EXCEPT ![s].pc = "write"]
  /\ UNCHANGED <<log, count>>

\* Mutant: log_to_file opens its file without O_APPEND.
WritePosStart == IF prog.kind = "log" THEN 0 ELSE prog.pos

\* Where a write goes: to the end, or to the offset of the open file.
WritePos == IF prog.kind = "log" THEN Len(log) ELSE prog.pos

\* Entries have equal lengths here: a piece replaces a piece.
Write(s) ==
  /\ sender[s].pc = "write"
  /\ LET at == WritePos + 1
         piece == [of |-> sender[s].entry, part |-> sender[s].part, last |-> sender[s].part = sender[s].parts]
     IN  log' = IF at > Len(log) THEN Append(log, piece) ELSE [log EXCEPT ![at] = piece]
  /\ prog' = [prog EXCEPT !.pos = IF prog.kind = "log" THEN @ ELSE @ + 1]
  /\ sender' = [sender EXCEPT ![s].part = @ + 1, ![s].pc = IF sender[s].part = sender[s].parts THEN "unlock" ELSE "write"]
  /\ UNCHANGED count

\* Sync, and the end of the guard.
Unlock(s) ==
  /\ sender[s].pc = "unlock"
  /\ prog' = [prog EXCEPT !.lock = NoSender]
  /\ sender' = [sender EXCEPT ![s] = Idle]
  /\ count' = [count EXCEPT !.done = @ \cup {sender[s].entry}]
  /\ UNCHANGED log

\* The program is killed, and started again: logger2 opens its file at the start.
Restart ==
  /\ count.runs < MaxRuns
  /\ prog' = [prog EXCEPT !.pos = 0, !.lock = NoSender]
  /\ sender' = [s \in Senders |-> Idle]
  /\ count' = [count EXCEPT !.runs = @ + 1]
  /\ UNCHANGED log

Next ==
  \/ \E s \in Senders : (\E newline \in BOOLEAN : Receive(s, newline)) \/ Lock(s) \/ Write(s) \/ Unlock(s)
  \/ Restart

-----------------------------------------------------------------------------
TypeOK == prog.pos <= Len(log) /\ prog.lock \in Senders \cup {NoSender}

EntryIntact ==
  \A i \in 1..(Len(log) - 1) :
    ~log[i].last /\ log[i].of \in count.done /\ count.runs = 1 =>
      log[i + 1].of = log[i].of /\ log[i + 1].part = log[i].part + 1

EntryKept ==
  prog.kind = "log" \/ count.runs = 1 =>
    \A e \in count.done : \E i \in DOMAIN log : log[i].of = e
=============================================================================
