----------------------------- MODULE FileDisplay ----------------------------
(***************************************************************************)
(* Common/HD44780_ToFile.cpp: a character display whose screen is a file.  *)
(* Clear writes the file, write(2) by write(2); Print stores through a     *)
(* shared mapping of it.  The program may die between any two writes; the  *)
(* file stays, and the next program begins with Init.  A byte is " ", a    *)
(* character, or 0, r, n of the line endings.                              *)
(***************************************************************************)
EXTENDS Integers, Sequences, FiniteSets, Functions

CONSTANTS
  RowCounts,  \* numbers of rows
  RowSize,    \* characters of a row
  Lengths,    \* lengths of the texts that are printed
  MaxOps,     \* bound: calls, of all programs
  MaxPrograms \* bound: programs, one after the other

VARIABLES
  paper,  \* the file
  panel,  \* rows; todo: writes Clear still has to make; pos: offset of the descriptor;
          \* map: length of the mapping; cur: offset of cursor_pos_
  seen    \* history: at: row and column of the cursor; cells: the text by row and column;
          \* fits: no text since Clear went past its row; out: a byte was stored
          \* past the mapping; ops, programs

vars == <<paper, panel, seen>>

None == -1
Parameters == RowCounts \subseteq Nat \ {0} /\ RowSize \in Nat \ {0} /\ Lengths \subseteq Nat /\ MaxOps \in Nat /\ MaxPrograms \in Nat

Init ==
  /\ paper = <<>>
  /\ panel \in [rows : RowCounts, todo : {<<>>}, pos : {0}, map : {None}, cur : {None}]
  /\ seen = [at |-> <<0, 0>>, cells |-> <<>>, fits |-> TRUE, out |-> FALSE, ops |-> 0, programs |-> 1]

Idle == panel.todo = <<>>
Ready == Idle /\ panel.map # None /\ seen.ops < MaxOps

\* The writes of Clear: after the spaces of a row its ending, an array that has a zero of
\* its own and that of the string literal.
Blank(rows) ==
  [k \in 1..(rows * (RowSize + 1)) |-> IF k % (RowSize + 1) = 0 THEN <<"0", "r", "n", "0">> ELSE <<" ">>]

\* Mutant: the line endings are not counted.
ExpectedText(rows) == rows * RowSize

\* expected_size of Init.
Expected(rows) == rows * (RowSize + 3)

\* Mutant: the rows are mapped, without their line endings.
MapLengthText(size) == panel.rows * RowSize

\* MapFile(0) maps the file as it is.
MapLength(size) == size

\* Init: a file that is too short is cleared first.  It may be called again.
Initialize ==
  /\ Idle /\ seen.ops < MaxOps
  /\ panel' = IF Len(paper) < Expected(panel.rows) THEN [panel EXCEPT !.todo = Blank(panel.rows), !.pos = 0]
              ELSE [panel EXCEPT !.map = MapLength(Len(paper)), !.cur = 0]
  /\ seen' = [seen EXCEPT !.at = <<0, 0>>, !.ops = @ + 1]
  /\ UNCHANGED paper

Clear ==
  /\ Ready
  /\ panel' = [panel EXCEPT !.todo = Blank(panel.rows), !.pos = 0]
  /\ seen' = [seen EXCEPT !.at = <<0, 0>>, !.ops = @ + 1]
  /\ UNCHANGED paper

\* One write of Clear; after the last one the cursor is at the start, and Init, if it
\* was Init that cleared, maps the file.
ClearWrite ==
  /\ ~Idle
  /\ LET data == Head(panel.todo)
         last == Len(panel.todo) = 1
         end == panel.pos + Len(data)
     IN  /\ paper' = [i \in 1..(IF end > Len(paper) THEN end ELSE Len(paper)) |->
                        IF i \in (panel.pos + 1)..end THEN data[i - panel.pos] ELSE paper[i]]
         /\ panel' = [panel EXCEPT !.todo = Tail(@), !.pos = end,
                                   !.map = IF last /\ @ = None THEN MapLength(Len(paper')) ELSE @,
                                   !.cur = IF last THEN 0 ELSE @]
         /\ seen' = IF last THEN [seen EXCEPT !.cells = <<>>, !.fits = TRUE, !.out = FALSE] ELSE seen

\* Mutant: one character of the line ending is forgotten.
RowAtShort(row) == row * (RowSize + 2)

\* Where SetCursorPos looks for a row.
RowAt(row) == row * (RowSize + 3)

\* Throws, without a change, beyond rows_ and row_size_; both themselves are accepted.
SetCursorPos(row, col) ==
  /\ Ready /\ row <= panel.rows /\ col <= RowSize
  /\ panel' = [panel EXCEPT !.cur = RowAt(row) + col]
  /\ seen' = [seen EXCEPT !.at = <<row, col>>, !.ops = @ + 1]
  /\ UNCHANGED paper

\* At most a row of characters and a zero are stored, from the cursor on; the cursor
\* moves by the length of the whole text.
PrintText(text) ==
  /\ Ready
  /\ LET n == IF Len(text) > RowSize THEN RowSize ELSE Len(text)
         bytes == Append(SubSeq(text, 1, n), "0")
         row == seen.at[1]
         col == seen.at[2]
         fit == row < panel.rows /\ col + Len(text) <= RowSize
         text_cells == [p \in {row} \X (col..(col + n - 1)) |-> text[p[2] - col + 1]]
         other_cells == Restrict(seen.cells, DOMAIN seen.cells \ ({row} \X (col..(col + n))))
     IN  /\ paper' = [i \in DOMAIN paper |->
                        IF i \in (panel.cur + 1)..(panel.cur + n + 1) THEN bytes[i - panel.cur] ELSE paper[i]]
         /\ seen' = [seen EXCEPT !.at[2] = @ + Len(text), !.ops = @ + 1, !.fits = @ /\ fit,
                                 !.cells = [p \in DOMAIN text_cells \cup DOMAIN other_cells |->
                                              IF p \in DOMAIN text_cells THEN text_cells[p] ELSE other_cells[p]],
                                 !.out = @ \/ panel.cur + n + 1 > panel.map]
  /\ panel' = [panel EXCEPT !.cur = @ + Len(text)]

\* The program dies, in the middle of Clear too; the text that Clear had not reached
\* is still there.
Die ==
  /\ seen.programs < MaxPrograms /\ (panel.map # None \/ ~Idle)
  /\ panel' = [panel EXCEPT !.todo = <<>>, !.pos = 0, !.map = None, !.cur = None]
  /\ seen' = [seen EXCEPT !.programs = @ + 1,
                          !.cells = IF Idle THEN @ ELSE Restrict(@, {p \in DOMAIN @ : RowAt(p[1]) + p[2] >= panel.pos})]
  /\ UNCHANGED paper

Next ==
  \/ Initialize \/ Clear \/ ClearWrite \/ Die
  \/ \E row \in 0..panel.rows, col \in {0, RowSize - 1, RowSize} : SetCursorPos(row, col)
  \/ \E n \in Lengths : PrintText([i \in 1..n |-> IF seen.ops % 2 = 0 THEN "a" ELSE "b"])

-----------------------------------------------------------------------------
TypeOK ==
  /\ panel.pos \in 0..Len(paper) /\ panel.map \in {None} \cup 1..Len(paper)
  /\ (panel.cur = None) <=> (panel.map = None)

\* The offset at which a line of the file begins, for a reader who splits at n.
LineAt(row) ==
  LET ends == {i \in DOMAIN paper : paper[i] = "n"}
  IN  IF row = 0 THEN 0 ELSE CHOOSE i \in ends : Cardinality({j \in ends : j <= i}) = row

PanelReadsBack ==
  Idle /\ panel.map # None /\ seen.fits /\ panel.rows <= 2 =>
    \A p \in DOMAIN seen.cells : paper[LineAt(p[1]) + p[2] + 1] = seen.cells[p]

\* Every row of characters with the four bytes of its ending.
PanelWhole == Idle /\ panel.map # None /\ panel.rows < 4 => Len(paper) = panel.rows * (RowSize + 4)

PanelInside == seen.fits => ~seen.out
=============================================================================
