-------------------------------- MODULE Frame -------------------------------
(***************************************************************************)
(* The drawing operations of Linux/framebuffer.c.  Windows are filled      *)
(* pixel by pixel through one static cursor, which SetWindow moves without *)
(* a reset of its column.  A pixel is its offset in the back buffer.       *)
(***************************************************************************)
EXTENDS Integers

CONSTANTS
  XRes, YRes,  \* the screen
  Spots,       \* coordinates at which is drawn
  Sides,       \* sizes of windows, lengths of lines
  Radii,       \* radii of circles
  MaxDraws     \* bound: operations

VARIABLES
  fb,     \* framebuffer: "zero", "open" or "failed"; buf: bg_buffer is allocated
  win,    \* static window: init, ptr, x, x_max
  drawn   \* history: ops; got: pixels of the last operation, want: what it stands for;
          \* left: it met a window that was left unfinished; back: it was a line to the
          \* left or up; circle: its radius; said: result of the last Init; broken: an
          \* Init failed, or DeInit was called

vars == <<fb, win, drawn>>

\* What is drawn is on the screen.
Parameters ==
  /\ XRes \in Nat /\ YRes \in Nat
  /\ Spots \subseteq 0..(XRes - 1) /\ Spots \subseteq 0..(YRes - 1)
  /\ \A d \in Sides \cup Radii : d \in Nat /\ d > 0 /\ 2 * d < XRes /\ 2 * d < YRes
  /\ \A s \in Spots, d \in Sides : s + 2 * d < XRes /\ s + d < YRes
  /\ MaxDraws \in Nat

Pixel(x, y) == x + XRes * y
Rect(x0, y0, sx, sy) == {Pixel(x0 + i, y0 + j) : i \in 0..(sx - 1), j \in 0..(sy - 1)}

Init ==
  /\ fb = [dev |-> "zero", buf |-> FALSE]
  /\ win = [init |-> FALSE, ptr |-> 0, x |-> 0, xmax |-> 0]
  /\ drawn = [ops |-> 0, got |-> {}, want |-> {}, left |-> FALSE, back |-> FALSE, circle |-> 0,
              said |-> "", broken |-> FALSE]

\* Mutant: the back buffer is allocated only together with a second page.
AllocatedLate(multi) == multi

Allocated(multi) == TRUE

\* A failure leaves framebuffer set, so the next call says "Already initialized!".
FrameBufferInit(result, multi) ==
  /\ drawn.ops < MaxDraws
  /\ IF fb.dev # "zero" THEN UNCHANGED fb
     ELSE fb' = [dev |-> IF result = "open" THEN "failed" ELSE "open",
                 buf |-> result \notin {"open", "info"} /\ Allocated(multi)]
  /\ drawn' = [drawn EXCEPT !.ops = @ + 1, !.said = IF fb.dev # "zero" THEN "already" ELSE result,
       !.broken = @ \/ (fb.dev = "zero" /\ result \in {"open", "info"})]
  /\ UNCHANGED win

FrameBufferDeInit ==
  /\ drawn.ops < MaxDraws /\ fb.buf
  /\ fb' = [fb EXCEPT !.buf = FALSE]
  /\ drawn' = [drawn EXCEPT !.ops = @ + 1, !.broken = TRUE]
  /\ UNCHANGED win

-----------------------------------------------------------------------------
\* Mutant: the column counts one pixel more.
RowFullLate(x, xmax) == x > xmax

\* The end of a row of the window.
RowFull(x, xmax) == x >= xmax

SetWindow(w, x0, y0, sx) == [w EXCEPT !.init = TRUE, !.ptr = Pixel(x0, y0), !.xmax = sx]

FillWindow(w) ==
  IF RowFull(w.x + 1, w.xmax) THEN [w EXCEPT !.ptr = @ + 1 + XRes - w.xmax, !.x = 0]
                              ELSE [w EXCEPT !.ptr = @ + 1, !.x = @ + 1]

\* n pixels with the static window: the window after them, and the pixels so far.
Filled(s, n) ==
  LET f[k \in 0..n] == IF k = 0 THEN s
                       ELSE LET t == f[k - 1] IN [win |-> FillWindow(t.win), got |-> t.got \cup {t.win.ptr}]
  IN  f[n]

Stroke(s, x0, y0, sx, n) == Filled([s EXCEPT !.win = SetWindow(s.win, x0, y0, sx)], n)
Now == [win |-> win, got |-> {}]

Drawn(s, want, back, circle) ==
  /\ fb.buf /\ drawn.ops < MaxDraws
  /\ win' = s.win
  /\ drawn' = [drawn EXCEPT !.ops = @ + 1, !.got = s.got, !.want = want, !.back = back, !.circle = circle,
                            !.left = win.x # 0]
  /\ UNCHANGED fb

\* FlushWindow; a caller of SetWindow and FillWindow may stop before the end.
FlushWindow(x0, y0, sx, sy) == Drawn(Stroke(Now, x0, y0, sx, sx * sy), Rect(x0, y0, sx, sy), FALSE, 0)
FillPart(x0, y0, sx, n) == n < sx /\ Drawn(Stroke(Now, x0, y0, sx, n), Rect(x0, y0, n, 1), FALSE, 0)

\* PrintText of two characters: each fills a window of the font's size.
PrintText(x0, y0, fx, fy) ==
  Drawn(Stroke(Stroke(Now, x0, y0, fx, fx * fy), x0 + fx, y0, fx, fx * fy), Rect(x0, y0, 2 * fx, fy), FALSE, 0)

\* ClearScreen, DrawPic32 and DrawPixel32 do not use the window.
ClearScreen == Drawn([win |-> win, got |-> 0..(XRes * YRes - 1)], Rect(0, 0, XRes, YRes), FALSE, 0)

Picture(x0, y0, sx, sy) == {(x + x0) + XRes * (y0 + y) : x \in 0..(sx - 1), y \in 0..(sy - 1)}
DrawPic32(x0, y0, sx, sy) ==
  Drawn([win |-> win, got |-> Picture(x0, y0, sx, sy)], Rect(x0, y0, sx, sy), FALSE, 0)

Abs(n) == IF n < 0 THEN -n ELSE n
Least(a, b) == IF a < b THEN a ELSE b

\* Lines stop before their end point; they always run right and down from x0, y0.
Horizontal(s, x0, y0, x1) == Stroke(s, x0, y0, Abs(x1 - x0), Abs(x1 - x0))
Vertical(s, x0, y0, y1) == Stroke(s, x0, y0, 1, Abs(y1 - y0))

DrawHorizontalLine32(x0, y0, x1) ==
  Drawn(Horizontal(Now, x0, y0, x1), Rect(Least(x0, x1), y0, Abs(x1 - x0), 1), x1 < x0, 0)

DrawVerticalLine32(x0, y0, y1) ==
  Drawn(Vertical(Now, x0, y0, y1), Rect(x0, Least(y0, y1), 1, Abs(y1 - y0)), y1 < y0, 0)

DrawCross(x0, y0, size) ==
  Drawn(Vertical(Horizontal(Now, x0 - size, y0, x0 + size), x0, y0 - size, y0 + size),
        Rect(x0 - size, y0, 2 * size, 1) \cup Rect(x0, y0 - size, 1, 2 * size), FALSE, 0)

-----------------------------------------------------------------------------
\* Mutant: the error term is not corrected for the step of y.
StepKeepsErr(c) ==
  LET goY == c.err <= c.y
      y1 == IF goY THEN c.y + 1 ELSE c.y
      e2 == IF goY /\ -c.x = y1 /\ c.err <= c.x THEN 0 ELSE c.err
      goX == e2 > c.x
      x1 == IF goX THEN c.x + 1 ELSE c.x
  IN  [x |-> x1, y |-> y1, err |-> c.err + (IF goX THEN x1 * 2 + 1 ELSE 0)]

\* One turn of the loop of DrawCircle32 and DrawFilledCircle32.
CircleStep(c) ==
  LET goY == c.err <= c.y
      y1 == IF goY THEN c.y + 1 ELSE c.y
      err1 == IF goY THEN c.err + y1 * 2 + 1 ELSE c.err
      e2 == IF goY /\ -c.x = y1 /\ c.err <= c.x THEN 0 ELSE c.err
      goX == e2 > c.x
      x1 == IF goX THEN c.x + 1 ELSE c.x
  IN  [x |-> x1, y |-> y1, err |-> IF goX THEN err1 + x1 * 2 + 1 ELSE err1]

\* The points (x, y) that the loop visits: it ends when x is positive.
Arc(r) ==
  LET c[k \in 0..(4 * r + 4)] == IF k = 0 THEN [x |-> -r, y |-> 0, err |-> 2 - 2 * r]
                                 ELSE LET t == c[k - 1] IN IF t.x > 0 THEN t ELSE CircleStep(t)
  IN  c
Points(r) == LET c == Arc(r) IN {<<c[k].x, c[k].y>> : k \in {n \in DOMAIN c : c[n].x <= 0}}

Circle(x0, y0, r) == {Pixel(x0 + sx * p[1], y0 + sy * p[2]) : p \in Points(r), sx \in {1, -1}, sy \in {1, -1}}
DrawCircle32(x0, y0, r) == Drawn([win |-> win, got |-> Circle(x0, y0, r)], Circle(x0, y0, r), FALSE, r)

\* Two lines per turn.
FilledCircle(x0, y0, r) ==
  LET c == Arc(r)
      s[k \in 0..(4 * r + 5)] ==
        IF k = 0 THEN Now
        ELSE LET p == c[k - 1]
             IN  IF p.x > 0 THEN s[k - 1]
                 ELSE Horizontal(Horizontal(s[k - 1], x0 + p.x, y0 + p.y, x0 - p.x), x0 + p.x, y0 - p.y, x0 - p.x)
  IN  s[4 * r + 5]
Disc(x0, y0, r) == UNION {Rect(x0 + p[1], y0 + sy * p[2], -2 * p[1], 1) : p \in Points(r), sy \in {1, -1}}
DrawFilledCircle32(x0, y0, r) == Drawn(FilledCircle(x0, y0, r), Disc(x0, y0, r), FALSE, 0)

\* The program draws no more.
Enough == drawn.ops = MaxDraws /\ UNCHANGED vars

Next ==
  \/ Enough
  \/ \E result \in {"open", "info", "resolution", "OK"}, multi \in BOOLEAN :
       (result = "resolution" => multi) /\ FrameBufferInit(result, multi)
  \/ FrameBufferDeInit \/ ClearScreen
  \/ \E x, y \in Spots :
       \/ \E sx, sy \in Sides : FlushWindow(x, y, sx, sy) \/ PrintText(x, y, sx, sy) \/ DrawPic32(x, y, sx, sy)
       \/ \E sx \in Sides : \E n \in 1..sx : FillPart(x, y, sx, n)
       \/ \E z \in Spots : DrawHorizontalLine32(x, y, z) \/ DrawVerticalLine32(x, y, z)
  \/ \E r \in Radii : DrawCircle32(r, r, r)
  \/ \E r \in Sides : DrawCross(r, r, r) \/ DrawFilledCircle32(r, r, r)

-----------------------------------------------------------------------------
TypeOK == win.x \in 0..XRes /\ win.xmax \in 0..XRes /\ win.ptr \in Nat /\ fb.dev \in {"zero", "open", "failed"}

BufferLive == drawn.said \in {"OK", "already"} => fb.buf \/ drawn.broken

DrawnExact == drawn.got = drawn.want \/ drawn.left \/ drawn.back

\* A pixel of a circle around (r, r), seen from the middle.
Round ==
  drawn.circle > 0 =>
    LET r == drawn.circle
        rel == {<<(p % XRes) - r, (p \div XRes) - r>> : p \in drawn.got}
    IN  /\ \A p \in rel : LET d == p[1] * p[1] + p[2] * p[2] IN (r - 1) * (r - 1) < d /\ d < (r + 1) * (r + 1)
        /\ \A i \in (-r)..r : (\E p \in rel : p[1] = i) /\ (\E p \in rel : p[2] = i)
=============================================================================
