----------------------------- MODULE DosScreen ------------------------------
(***************************************************************************)
(* How the DOS build brings its frame buffer to the screen                 *)
(* (sys_dos/main.c): what was drawn is collected in one rectangle, which   *)
(* app_swap_buffers copies; the cursor and the rubber band are inverted on *)
(* the screen itself and have to be inverted back where they were, unless  *)
(* a copy has wiped them out already.                                      *)
(*                                                                         *)
(* Pixels are offsets: a rectangle that reaches beyond the left or right   *)
(* edge continues in the next row, as it does in memory; a window that is  *)
(* dragged over the edge (on_window_drag, rtk.c:1096) gives such ones.     *)
(* What lies above or below the screen is left out.  The mode has 32 bits  *)
(* per pixel; in others vid_blit32 copies no parts.  Reach is 3 in the     *)
(* code.                                                                   *)
(***************************************************************************)
EXTENDS Integers, FiniteSetsExt

CONSTANTS
  W, H,      \* win_width, win_height
  Reach,     \* the arms of the cursor
  Areas,     \* rectangles that the program draws in, [x, y, w, h]
  Places,    \* where the mouse goes, <<x, y>>
  Bands,     \* rubber bands that the user drags; their sizes may be negative
  Nowhere    \* no cursor is on the screen (prev_mx = -1)

ASSUME ScreenAssumption ==
  /\ W \in Nat \ {0} /\ H \in Nat \ {0} /\ Reach \in Nat
  /\ Areas \cup Bands \subseteq [x : Int, y : Int, w : Int, h : Int]
  /\ Places \subseteq (0 .. W - 1) \X (0 .. H - 1)
  /\ Nowhere \notin (0 .. W - 1) \X (0 .. H - 1)

VARIABLES
  stale,      \* pixels that were drawn but not copied since
  dirty,      \* the update rectangle, NoRect if none is valid
  curInv,     \* pixels of the screen that the cursor has inverted
  bandInv,    \* pixels that the rubber band has inverted
  mouse,      \* mx, my
  prev,       \* prev_mx, prev_my
  rband, prevRband

scrVars == <<stale, dirty, curInv, bandInv, mouse, prev, rband, prevRband>>

R(x, y, w, h) == [x |-> x, y |-> y, w |-> w, h |-> h]
NoRect == R(0, 0, 0, 0)
Full   == R(0, 0, W, H)
Screen == 0 .. W * H - 1

Span(a, n) == a .. a + n - 1
Offsets(r) == {y * W + x : x \in Span(r.x, r.w), y \in Span(r.y, r.h)} \cap Screen

InColumns(r) == 0 <= r.x /\ r.x + r.w <= W

Least(a, b) == IF a < b THEN a ELSE b
Most(a, b)  == IF a < b THEN b ELSE a

\* Mutant: the larger of the two sizes.
UnionRect_Sizes(a, b) ==
  R(Least(a.x, b.x), Least(a.y, b.y), Most(a.w, b.w), Most(a.h, b.h))

\* rtk_rect_union: the smallest rectangle around both.
UnionRect(a, b) ==
  LET x == Least(a.x, b.x)
      y == Least(a.y, b.y)
  IN  R(x, y, Most(a.x + a.w, b.x + b.w) - x, Most(a.y + a.h, b.y + b.h) - y)

\* rect_rect_test: they overlap, or b begins right after a.
Meets(a, b) ==
  /\ a.x < b.x + b.w /\ a.y < b.y + b.h
  /\ a.x + a.w >= b.x /\ a.y + a.h >= b.y

-----------------------------------------------------------------------------
(* draw_cursor and draw_rband.                                             *)

\* The four arms; none reaches the edge of the screen.
Cross(p) ==
  IF p = Nowhere THEN {}
  ELSE LET x == p[1] y == p[2] o == y * W + x IN
       UNION {   (IF y > k THEN {o - W * k} ELSE {})
            \cup (IF y < H - k - 1 THEN {o + W * k} ELSE {})
            \cup (IF x > k THEN {o - k} ELSE {})
            \cup (IF x < W - k - 1 THEN {o + k} ELSE {}) : k \in 1 .. Reach}

\* Mutant: the box around the cursor ends at its center.
CursorBox_Half(p) == R(p[1] - Reach, p[2] - Reach, Reach + 1, Reach + 1)

CursorBox(p) == R(p[1] - Reach, p[2] - Reach, 2 * Reach + 1, 2 * Reach + 1)

Fixed(r) == R(Least(r.x, r.x + r.w), Least(r.y, r.y + r.h),
              Most(r.w, - r.w), Most(r.h, - r.h))

\* Each pixel of the outline once; in a band of one row or one column the two
\* sides take each other back.
Outline(r) ==
  LET b == Fixed(r) IN
  IF r.w = 0 \/ b.h = 0 THEN {}
  ELSE SymDiff(SymDiff(Offsets(R(b.x, b.y, b.w, 1)),
                       Offsets(R(b.x, b.y + b.h - 1, b.w, 1))),
               SymDiff(Offsets(R(b.x, b.y + 1, 1, b.h - 2)),
                       Offsets(R(b.x + b.w - 1, b.y + 1, 1, b.h - 2))))

-----------------------------------------------------------------------------
\* app_redisplay after something was drawn; no size at all means all of it.
Redisplay(r) ==
  LET area == IF r.w = 0 /\ r.h = 0 THEN Full ELSE r IN
  /\ stale' = stale \cup Offsets(area)
  /\ dirty' = IF dirty = NoRect THEN area ELSE UnionRect(dirty, area)
  /\ UNCHANGED <<curInv, bandInv, mouse, prev, rband, prevRband>>

MoveMouse(p) ==
  /\ p # mouse
  /\ mouse' = p
  /\ UNCHANGED <<stale, dirty, curInv, bandInv, prev, rband, prevRband>>

\* app_rband
SetBand(b) ==
  /\ b # rband
  /\ rband' = b
  /\ UNCHANGED <<stale, dirty, curInv, bandInv, mouse, prev, prevRband>>

-----------------------------------------------------------------------------
(* app_swap_buffers.                                                       *)

CopiesAll == dirty.w >= W /\ dirty.h >= H

\* A part is copied that meets the old cursor, and takes it along.
TakesCursor ==
  ~ CopiesAll /\ dirty # NoRect /\ prev # Nowhere /\ Meets(dirty, CursorBox(prev))

Copied ==
  IF CopiesAll THEN Screen
  ELSE Offsets(IF TakesCursor THEN UnionRect(dirty, CursorBox(prev)) ELSE dirty)

\* Mutant: the old band is taken away only when there is a new one.
BandAfter_KeepsOld(inv) ==
  IF rband.w = 0 THEN inv ELSE SymDiff(SymDiff(inv, Outline(prevRband)), Outline(rband))

BandAfter(inv) == SymDiff(SymDiff(inv, Outline(prevRband)), Outline(rband))

Swap ==
  LET old == IF CopiesAll \/ TakesCursor THEN Nowhere ELSE prev IN
  /\ stale' = stale \ Copied
  /\ curInv' = SymDiff(SymDiff(curInv \ Copied, Cross(old)), Cross(mouse))
  /\ bandInv' = BandAfter(bandInv \ Copied)
  /\ prev' = mouse
  /\ prevRband' = rband
  /\ dirty' = NoRect
  /\ UNCHANGED <<mouse, rband>>

ScrInit ==
  /\ stale = Screen /\ dirty = Full
  /\ curInv = {} /\ bandInv = {}
  /\ mouse = <<W \div 2, H \div 2>> /\ prev = Nowhere
  /\ rband = NoRect /\ prevRband = NoRect

ScrNext ==
  \/ \E r \in Areas \cup {NoRect} : Redisplay(r)
  \/ \E p \in Places : MoveMouse(p)
  \/ \E b \in Bands \cup {NoRect} : SetBand(b)
  \/ Swap

ScrSpec == ScrInit /\ [][ScrNext]_scrVars

-----------------------------------------------------------------------------
(* Properties.                                                             *)

\* What is inverted on the screen besides the cursor that the next swap takes
\* away.
Strays == SymDiff(curInv, Cross(prev))

\* There is one cursor on the screen, where the next swap takes it away,
\* wherever copies cut into the older ones.  Only a rectangle that reaches
\* over the left or right edge, and so is copied into rows where it does not
\* seem to meet the cursor, may leave pixels of it behind; they stay until
\* the whole screen is copied.
OneCursor ==
  /\ Strays = {}
  /\ [][/\ Strays' \subseteq
              Strays \cup (IF InColumns(dirty) THEN {} ELSE Cross(prev) \cap Copied)
        /\ Swap /\ CopiesAll => Strays' = {}]_scrVars

\* Whatever was drawn is on the screen or in the rectangle that the next swap
\* copies.
NothingForgotten == stale \subseteq (IF CopiesAll THEN Screen ELSE Offsets(dirty))

\* What is inverted on the screen besides the present band.
Residue == SymDiff(bandInv, Outline(prevRband))

\* A band leaves pixels behind only where a copy cut into it while it was on
\* the screen (a pass of a render does that), and a copy of the whole screen
\* without a band removes them all.
BandResidue ==
  [][/\ Residue' \subseteq Residue \cup (Outline(prevRband) \cap Copied)
     /\ Swap /\ CopiesAll /\ Outline(prevRband) = {} => Residue' = {}]_scrVars
=============================================================================
