------------------------------ MODULE TextFile ------------------------------
(***************************************************************************)
(* File, TextFile and CSVFile of Common/file_ops.cpp: the state of an open *)
(* file (descriptor offset, cached mapping), reading it line by line, and  *)
(* splitting a line into columns.  A text is a sequence of a (any other    *)
(* character), the comma, r and n (the line ending characters) and 0 (the  *)
(* bytes of a hole).  Another process may change the file meanwhile.       *)
(***************************************************************************)
EXTENDS Integers, Sequences, FiniteSets, SequencesExt

CONSTANTS
  MaxLen,    \* bound: length of the file at the beginning
  MaxSteps   \* bound: operations on a File

VARIABLES
  disk,    \* the file's contents
  file,    \* kind; flags; pos: offset of the descriptor; map: size of the mapping
  reader,  \* of TextFile: at: readPos, size, count: lineCount, crlf
  result   \* history: lines since Reset; moved: changed by another process; steps;
           \* sent: text of the last operator>>, from: offset at which it began

vars == <<disk, file, reader, result>>

NoMap == -1
Texts(n) == UNION {[1..k -> {"a", ",", "r", "n"}] : k \in 0..n}
Parameters == MaxLen \in Nat /\ MaxSteps \in Nat

Closed == [kind |-> "closed", flags |-> "RW", pos |-> 0, map |-> NoMap]
Init ==
  /\ disk \in Texts(MaxLen)
  /\ file = Closed
  /\ reader = [at |-> 0, size |-> 0, count |-> 0, crlf |-> FALSE]
  /\ result = [lines |-> <<>>, moved |-> FALSE, steps |-> 0, sent |-> <<>>, from |-> NoMap]

Count(c) == Cardinality({i \in DOMAIN disk : disk[i] = c})

\* Operations throw, without a change, when the file is not open.
Raw == file.kind = "file" /\ result.steps < MaxSteps
Step == [result EXCEPT !.steps = @ + 1, !.from = NoMap]

Open(flags) ==
  /\ file.kind = "closed" /\ result.steps = 0
  /\ file' = [Closed EXCEPT !.kind = "file", !.flags = flags]
  /\ UNCHANGED <<disk, reader, result>>

\* TextFile(path): the mapping of an empty file fails, and mixed line endings are
\* refused; either way the object is gone.
OpenText ==
  /\ file.kind = "closed" /\ result.steps = 0
  /\ disk # <<>> /\ (Count("r") > 0 /\ Count("n") > 0 => Count("r") = Count("n"))
  /\ file' = [Closed EXCEPT !.kind = "text", !.flags = "R", !.map = Len(disk)]
  /\ reader' = [at |-> 0, size |-> Len(disk), count |-> Count("n") + 1,
                crlf |-> Count("r") > 0 /\ Count("n") > 0]
  /\ UNCHANGED <<disk, result>>

Close ==
  /\ Raw
  /\ file' = Closed
  /\ result' = Step
  /\ UNCHANGED <<disk, reader>>

\* A negative target is refused by lseek.
Seek(whence, offset) ==
  /\ Raw
  /\ LET base == CASE whence = "SET" -> 0 [] whence = "CURRENT" -> file.pos [] whence = "END" -> Len(disk)
     IN  file' = [file EXCEPT !.pos = base + offset]
  /\ result' = Step
  /\ UNCHANGED <<disk, reader>>

\* write(2) at an offset; what lies between the end and the offset reads as zero.
Put(text, pos, data) ==
  [i \in 1..(IF pos + Len(data) > Len(text) THEN pos + Len(data) ELSE Len(text)) |->
     IF i > pos /\ i <= pos + Len(data) THEN data[i - pos] ELSE IF i <= Len(text) THEN text[i] ELSE "0"]

Write(data) ==
  /\ Raw /\ file.flags # "R"
  /\ disk' = Put(disk, file.pos, data)
  /\ file' = [file EXCEPT !.pos = @ + Len(data)]
  /\ result' = Step
  /\ UNCHANGED reader

\* Fewer bytes than asked for: the offset has moved when the exception is thrown.
Read(n) ==
  /\ Raw /\ file.flags # "W"
  /\ file' = [file EXCEPT !.pos = IF @ >= Len(disk) THEN @ ELSE IF @ + n > Len(disk) THEN Len(disk) ELSE @ + n]
  /\ result' = Step
  /\ UNCHANGED <<disk, reader>>

\* What operator<< puts out: the file up to the first zero byte.
Streamed(text) ==
  LET zeros == {i \in DOMAIN text : text[i] = "0"}
  IN  IF zeros = {} THEN text ELSE SubSeq(text, 1, (CHOOSE i \in zeros : \A j \in zeros : i <= j) - 1)

\* operator<< and File::Read(): the descriptor is left at the start.
ReadAll ==
  /\ Raw
  /\ file' = [file EXCEPT !.pos = 0]
  /\ result' = Step
  /\ UNCHANGED <<disk, reader>>

\* Mutant: the old contents are not truncated.
TruncatedNot(text) == text

\* ftruncate(fd, 0).
Truncated(text) == <<>>

\* operator>>: truncate, lseek(fd, 0, SEEK_CUR), which stays at the current offset,
\* and write character by character.
StreamIn(data) ==
  /\ Raw /\ file.flags # "R"
  /\ disk' = Put(Truncated(disk), file.pos, data)
  /\ file' = [file EXCEPT !.pos = @ + Len(data)]
  /\ result' = [Step EXCEPT !.sent = data, !.from = file.pos]
  /\ UNCHANGED reader

MapFile(size) ==
  /\ Raw /\ disk # <<>> /\ file.flags # "W"
  /\ file' = IF file.map = NoMap THEN [file EXCEPT !.map = IF size = 0 THEN Len(disk) ELSE size] ELSE file
  /\ result' = Step
  /\ UNCHANGED <<disk, reader>>

-----------------------------------------------------------------------------
\* Reset takes the size of now; MapFile returns the mapping that was made first.
Reset ==
  /\ file.kind = "text" /\ disk # <<>> /\ result.lines # <<>>
  /\ reader' = [reader EXCEPT !.at = 0, !.size = Len(disk)]
  /\ result' = [result EXCEPT !.lines = <<>>]
  /\ UNCHANGED <<disk, file>>

\* Mutant: both characters of the ending are looked for in an LF file.
LineEndsEarly(at) ==
  LET hits == {i \in (at + 1)..reader.size : disk[i] \in {"r", "n"}}
  IN  IF hits = {} THEN reader.size ELSE CHOOSE i \in hits : \A j \in hits : i <= j

\* The offset behind the line that begins at an offset.
LineEnd(at) ==
  LET hits == {i \in (at + 1)..reader.size : disk[i] = IF reader.crlf THEN "r" ELSE "n"}
      hit == CHOOSE i \in hits : \A j \in hits : i <= j
  IN  IF hits = {} THEN reader.size ELSE IF reader.crlf /\ hit < reader.size THEN hit + 1 ELSE hit

\* Reads while the bytes are there; ReadLines and Parse repeat it to the end.
ReadLine ==
  /\ file.kind = "text" /\ reader.at < reader.size /\ reader.size <= Len(disk)
  /\ LET end == LineEnd(reader.at)
     IN  /\ reader' = [reader EXCEPT !.at = end]
         /\ result' = [result EXCEPT !.lines = Append(@, SubSeq(disk, reader.at + 1, end))]
  /\ UNCHANGED <<disk, file>>

\* Where the next comma is found: comma k of the line.
Comma(line, k) ==
  LET commas == {i \in DOMAIN line : line[i] = ","}
  IN  IF k = 0 THEN 0 ELSE CHOOSE i \in commas : Cardinality({j \in commas : j <= i}) = k

Commas(line) == Cardinality({i \in DOMAIN line : line[i] = ","})

\* Mutant: the line is split with its line ending.
splitWhole(line) ==
  [k \in 1..(Commas(line) + 1) |->
     SubSeq(line, Comma(line, k - 1) + 1, IF k <= Commas(line) THEN Comma(line, k) - 1 ELSE Len(line))]

\* The columns of a line: the last one ends before the last character.
splitString(line) ==
  [k \in 1..(Commas(line) + 1) |->
     SubSeq(line, Comma(line, k - 1) + 1, IF k <= Commas(line) THEN Comma(line, k) - 1 ELSE Len(line) - 1)]

\* External: another process appends to the file, or cuts it.
Changed ==
  /\ file.kind = "text" /\ ~result.moved
  /\ disk' \in {Append(disk, "a"), Append(disk, "n"), SubSeq(disk, 1, Len(disk) - 1)}
  /\ result' = [result EXCEPT !.moved = TRUE]
  /\ UNCHANGED <<file, reader>>

Next ==
  \/ \E f \in {"R", "W", "RW"} : Open(f)
  \/ OpenText \/ Close \/ ReadAll \/ Reset \/ ReadLine \/ Changed
  \/ \E w \in {"SET", "CURRENT", "END"}, n \in 0..1 : Seek(w, n)
  \/ \E d \in {<<"a">>} : Write(d) \/ StreamIn(d)
  \/ \E n \in 0..2 : Read(n) \/ MapFile(n)

-----------------------------------------------------------------------------
TypeOK ==
  /\ file.kind \in {"closed", "file", "text"} /\ file.pos \in Nat /\ file.map \in Nat \cup {NoMap}
  /\ reader.at \in 0..reader.size

LinesWhole ==
  file.kind = "text" /\ ~result.moved =>
    /\ FlattenSeq(result.lines) = SubSeq(disk, 1, reader.at)
    /\ Len(result.lines) <= reader.count
    /\ \A k \in DOMAIN result.lines : LET l == result.lines[k] IN
         ~reader.crlf => \A i \in DOMAIN l : l[i] = "n" => i = Len(l)

ColumnsExact ==
  \A k \in DOMAIN result.lines : LET line == result.lines[k]   cols == splitString(line) IN
    line[Len(line)] = "n" =>
      /\ \A c \in DOMAIN cols : \A i \in DOMAIN cols[c] : cols[c][i] # ","
      /\ FlattenSeq([c \in DOMAIN cols |-> IF c = 1 THEN cols[c] ELSE <<",">> \o cols[c]]) = SubSeq(line, 1, Len(line) - 1)

StreamedBack == result.from = 0 => Streamed(disk) = result.sent
ReplacesContents == result.from # NoMap => Streamed(disk) = result.sent
=============================================================================
