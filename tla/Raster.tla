------------------------------- MODULE Raster -------------------------------
(***************************************************************************)
(* The software build fills polygons and draws lines (polytmpl.h,          *)
(* polyfill.c), in the pixels that gaw_swtnl_drawprim gives them: which    *)
(* pixels are set, whatever their color, texture and depth.                *)
(*                                                                         *)
(* Coordinates are 24.8 fixed point.  The tables of the left and right     *)
(* ends of the rows are kept from one polygon to the next, and nobody      *)
(* clears them.                                                            *)
(***************************************************************************)
EXTENDS CArith, Sequences, SequencesExt, FiniteSetsExt

CONSTANTS
  FbW, FbH,   \* pfill_fb.width, pfill_fb.height
  Quads,      \* quads that are drawn, and then drawn again in two triangles
  Ends,       \* ends of lines
  Nothing     \* no quad was drawn since the background

One == 256
Floor(x) == x \div One

\* What gaw_swtnl_drawprim makes of the vertices that clipping has left.
Vertices == [x : 0 .. FbW * One, y : -One .. (FbH - 1) * One]

ASSUME RasterAssumption ==
  /\ FbW \in Nat \ {0} /\ FbH \in Nat \ {0}
  /\ Quads \subseteq [1 .. 4 -> Vertices]
  /\ Ends \subseteq Vertices

VARIABLES
  left, right,   \* the tables: the column of each row
  drawn,         \* the pixels of a quad and of its two triangles
  line           \* a line: its ends, and where it was written, in order

rasVars == <<left, right, drawn, line>>

Rows == 0 .. FbH - 1

-----------------------------------------------------------------------------
(* Polygons.                                                               *)

\* An edge is traced from its upper end v to its lower end w; these are the
\* rows of which it gives an end.
FirstRow(v) == Floor(v.y + One)
LastRow(w)  == Floor(w.y)

\* Mutant: an edge that goes up is not turned around.
ColumnAt_NoFlip(v, w, row, up) ==
  LET a     == IF up THEN w ELSE v
      slope == Quot((w.x - v.x) * One, w.y - v.y)
      x     == a.x + Floor((row * One - a.y) * slope)
  IN  Min({IF x < 0 THEN 0 ELSE Floor(x), FbW - 1})

\* The column where the edge meets a row.
ColumnAt(v, w, row, up) ==
  LET slope == Quot((w.x - v.x) * One, w.y - v.y)
      first == FirstRow(v)
      x     == v.x + Floor((first * One - v.y) * slope) + (row - first) * slope
  IN  Min({IF x < 0 THEN 0 ELSE Floor(x), FbW - 1})

\* The edge from vertex i to the next, as its two ends.
VNext(p, i) == p[IF i = Len(p) THEN 1 ELSE i + 1]
Upper(p, i) == IF VNext(p, i).y >= p[i].y THEN p[i] ELSE VNext(p, i)
Lower(p, i) == IF VNext(p, i).y >= p[i].y THEN VNext(p, i) ELSE p[i]

Down(p) == {i \in DOMAIN p : VNext(p, i).y > p[i].y}   \* they go to the left table
Up(p)   == {i \in DOMAIN p : VNext(p, i).y < p[i].y}   \* and these to the right

\* The table after the edges E of p: the last one that has a row counts.
Scanned(table, p, E) ==
  [row \in Rows |->
     LET own == {i \in E : row \in FirstRow(Upper(p, i)) .. LastRow(Lower(p, i))} IN
     IF own = {} THEN table[row]
     ELSE LET i == Max(own) IN ColumnAt(Upper(p, i), Lower(p, i), row, i \in Up(p))]

Top(p) == Min({FbH} \cup {FirstRow(Upper(p, i)) : i \in Down(p) \cup Up(p)})
Bot(p) == Max({0} \cup {LastRow(Lower(p, i)) : i \in Down(p) \cup Up(p)})

\* POLYFILL, with the tables l and r that the polygons before have left.
Fill(p, l, r) ==
  LET nl == Scanned(l, p, Down(p))
      nr == Scanned(r, p, Up(p))
  IN  [left |-> nl, right |-> nr,
       pixels |-> UNION {(nl[row] .. nr[row] - 1) \X {row} :
                           row \in Max({0, Top(p)}) .. Min({Bot(p), FbH - 1})}]

-----------------------------------------------------------------------------
(* Lines.                                                                  *)

Sign(n) == IF n < 0 THEN -1 ELSE 1

\* Mutant: half of the error is given back with each step aside.
Stepped_Half(s, long, short, along, aside) ==
  LET turn == s.error >= 0 IN
  [at    |-> s.at + along + (IF turn THEN aside ELSE 0),
   error |-> s.error + 2 * short - (IF turn THEN long ELSE 0)]

\* One round of the loop: a step along the longer side, and one aside when
\* the error says so.
Stepped(s, long, short, along, aside) ==
  LET turn == s.error >= 0 IN
  [at    |-> s.at + along + (IF turn THEN aside ELSE 0),
   error |-> s.error + 2 * short - (IF turn THEN 2 * long ELSE 0)]

\* The rounds of a line that begins at p.
Rounds(p, long, short, along, aside) ==
  LET s[i \in 0 .. long] ==
        IF i = 0 THEN [at |-> p, error |-> 2 * short - long]
        ELSE Stepped(s[i - 1], long, short, along, aside)
  IN  s

\* Where a pixel is in the frame buffer.  Nobody clamps the ends of a line, and
\* gaw_swtnl_drawprim puts some in column FbW or in row -1: then this is in the
\* row below, or before the buffer, or one pixel behind it.
Offset(x, y) == y * FbW + x

\* draw_line, and draw_line_zbuf where nothing is in front: where it writes.
LinePixels(v, w) ==
  LET x0 == Floor(v.x)
      y0 == Floor(v.y)
      dx == Floor(w.x) - x0
      dy == Floor(w.y) - y0
      xInc == Sign(dx)
      yInc == Sign(dy) * FbW
      s == IF Abs(dx) > Abs(dy) THEN Rounds(Offset(x0, y0), Abs(dx), Abs(dy), xInc, yInc)
           ELSE Rounds(Offset(x0, y0), Abs(dy), Abs(dx), yInc, xInc)
  IN  [i \in 1 .. Max({Abs(dx), Abs(dy)}) + 1 |-> s[i - 1].at]

-----------------------------------------------------------------------------
(* Drawing.                                                                *)

\* A rectangle as large as the frame buffer.
Background ==
  LET V(x, y) == [x |-> x * One, y |-> y * One]
      f == Fill(<<V(0, -1), V(0, FbH - 1), V(FbW, FbH - 1), V(FbW, -1)>>, left, right)
  IN /\ left' = f.left /\ right' = f.right
     /\ drawn' = Nothing /\ line' = Nothing

\* Bound: a picture has one quad or one line.
Empty == drawn = Nothing /\ line = Nothing

\* A quad, and the two triangles that one of its diagonals cuts it into.
DrawCut(q) ==
  /\ LET f == Fill(q, left, right)
         a == Fill(<<q[1], q[2], q[3]>>, f.left, f.right)
         b == Fill(<<q[1], q[3], q[4]>>, a.left, a.right)
     IN /\ left' = b.left /\ right' = b.right
        /\ drawn' = [quad |-> q, whole |-> f.pixels, parts |-> <<a.pixels, b.pixels>>]
  /\ UNCHANGED line

DrawLine(v, w) ==
  /\ line' = [from |-> v, to |-> w, pixels |-> LinePixels(v, w)]
  /\ UNCHANGED <<left, right, drawn>>

\* After a background.
RasInit ==
  /\ left = [row \in Rows |-> 0] /\ right = [row \in Rows |-> FbW - 1]
  /\ drawn = Nothing /\ line = Nothing

RasNext ==
  \/ Background
  \/ Empty /\ \E q \in Quads : DrawCut(q)
  \/ Empty /\ \E v, w \in Ends : DrawLine(v, w)

RasSpec == RasInit /\ [][RasNext]_rasVars

-----------------------------------------------------------------------------
(* Properties.                                                             *)

\* A triangle that ends above the first row of the window draws the ends
\* that another polygon left in that row.
ReachesWindow(p) == \E v \in Range(p) : v.y >= 0

Halves(q) == {<<q[1], q[2], q[3]>>, <<q[1], q[3], q[4]>>}

\* Polygons with a common edge fit together: no pixel is drawn by both
\* triangles of a quad, whose common edge each of them traces in another
\* direction, and none of the quad is drawn by neither.
PiecesMeet ==
  drawn # Nothing /\ (\A p \in Halves(drawn.quad) : ReachesWindow(p)) =>
    /\ drawn.parts[1] \cap drawn.parts[2] = {}
    /\ drawn.whole \subseteq drawn.parts[1] \cup drawn.parts[2]

InFrame(x, y) == x \in 0 .. FbW - 1 /\ y \in Rows

\* In whatever direction a line goes, it begins and ends at the offsets of its
\* ends.  When both ends are in the frame, everything that is written is a pixel
\* of the frame, the one of its row or column that is closest to the line.
\* Whatever the ends, nothing is written more than a row before the buffer or
\* more than one pixel behind it.
LineIsClosest ==
  line # Nothing =>
    LET p  == line.pixels
        x0 == Floor(line.from.x)
        y0 == Floor(line.from.y)
        x1 == Floor(line.to.x)
        y1 == Floor(line.to.y)
    IN /\ p[1] = Offset(x0, y0) /\ p[Len(p)] = Offset(x1, y1)
       /\ \A i \in DOMAIN p : p[i] \in -FbW .. FbH * FbW
       /\ InFrame(x0, y0) /\ InFrame(x1, y1) =>
            \A i \in DOMAIN p :
              /\ p[i] \in 0 .. FbH * FbW - 1
              /\ 2 * Abs(((p[i] % FbW) - x0) * (y1 - y0) - ((p[i] \div FbW) - y0) * (x1 - x0))
                   <= Max({Abs(x1 - x0), Abs(y1 - y0)})
=============================================================================
