------------------------------- MODULE Render -------------------------------
(***************************************************************************)
(* Progressive rendering: the job kept by rend.c, traced one pass per      *)
(* redraw, and the handlers of scr_mod.c that start, add, cancel and show  *)
(* renders while the scene, the tool and the window change under them.     *)
(*                                                                         *)
(* A pass shades the rectangle of the job in blocks of xstep by ystep      *)
(* pixels, each with the colour traced at its top left corner, and halves  *)
(* the steps.  A traced pixel of the frame buffer is <<v, x, y>>: the      *)
(* colour seen at window pixel (x, y) when the scene was at version v.     *)
(* Pixels are addressed by offset: the renderer's rows are as long as its  *)
(* own buffer, the screen's as long as the window, and a rectangle that    *)
(* reaches out of its buffer wraps into the rows above and below.          *)
(***************************************************************************)
EXTENDS Integers, FiniteSets

CONSTANTS
  Windows,  \* the sizes the window of a GLUT build takes, as <<width, height>>,
  Modes,    \* and the screen modes of the DOS build
  Points,   \* mouse positions, also outside of the window
  Reach,    \* bound on their coordinates
  MaxVer,   \* bound on the changes of the picture
  MaxJobs   \* bound on the renders started

ASSUME RenderAssumption ==
  /\ Windows \subseteq (Nat \ {0}) \X (Nat \ {0})
  /\ Modes \subseteq (Nat \ {0}) \X (Nat \ {0})
  /\ Reach \in Nat
  /\ Points \subseteq (-Reach .. Reach) \X (-Reach .. Reach)
  /\ MaxVer \in Nat
  /\ MaxJobs \in Nat

\* GLUT with OpenGL (GFX_GL: the render is a layer blended over the viewport),
\* GLUT with the software renderer (GFX_SW: the viewport is drawn into the same
\* pixels), and DOS, which has the latter and a screen of a fixed size.
Builds == {"gl", "sw", "dos"}

VARIABLES
  build,      \* which program runs
  win,        \* win_width, win_height
  rb,         \* size of renderbuf
  fbLen,      \* pixels allocated for framebuf
  fb,         \* framebuf, by offset
  rect,       \* rx, ry, rwidth, rheight of rend.c
  step,       \* xstep, ystep
  rendering,  \* a job is unfinished
  band,       \* rband while the left button is held, and what it is dragged to
  shrunk,     \* history: framebuf was made smaller since the job began
  shown,      \* the rectangles of which totalrend is the bounding box
  vpdirty,    \* the viewport must be redrawn
  tool,       \* "area" is TOOL_REND_AREA
  ver,        \* version of the picture: scene, materials and view
  jobs,       \* renders started
  png         \* what the last saved image holds

job  == <<rb, rect, step, rendering, jobs, shrunk>>
vars == <<build, win, fbLen, fb, job, band, shown, vpdirty, tool, ver, png>>

Sizes   == Windows \cup Modes
Offsets == 0 .. fbLen - 1
Screen  == 0 .. win[1] * win[2] - 1
Rect(x, y, w, h) == [x |-> x, y |-> y, w |-> w, h |-> h]
NoRect == Rect(0, 0, 0, 0)
Whole(size) == Rect(0, 0, size[1], size[2])

\* What a pixel of the frame buffer holds when it is not traced: cleared (or
\* never written), or a pixel of the viewport.
None == <<"none">>
View == <<"view">>

\* The rectangle between two corners of a rubber band (rtk_fix_rect).
Lower(a, b) == IF a < b THEN a ELSE b
Upper(a, b) == IF a < b THEN b ELSE a
Between(a, b) ==
  Rect(Lower(a[1], b[1]), Lower(a[2], b[2]),
       Upper(a[1], b[1]) - Lower(a[1], b[1]), Upper(a[2], b[2]) - Lower(a[2], b[2]))

\* The positions the mouse may have.  GLUT goes on reporting a drag that leaves
\* the window, DOS keeps the pointer on the screen.
Mouse ==
  {p \in Points : build = "dos" => p \in (0 .. win[1] - 1) \X (0 .. win[2] - 1)}

\* The left button is up, or was pressed at p.
NoBand == <<>>
BandAt(p) == [from |-> p, to |-> p]

\* rtk_rect_union, folded over the regions: the box that totalrend is.
MinOf(S) == CHOOSE m \in S : \A n \in S : m <= n
MaxOf(S) == CHOOSE m \in S : \A n \in S : m >= n
Total ==
  IF shown = {} THEN NoRect
  ELSE LET x0 == MinOf({r.x : r \in shown})
           y0 == MinOf({r.y : r \in shown})
       IN  Rect(x0, y0, MaxOf({r.x + r.w : r \in shown}) - x0,
                        MaxOf({r.y + r.h : r \in shown}) - y0)

-----------------------------------------------------------------------------
(* rend.c *)

\* Mutant: the buffer keeps the size of an earlier window.
Begin_StaleSize(r) ==
  /\ jobs < MaxJobs
  /\ jobs' = jobs + 1
  /\ rb' = IF rb = <<0, 0>> THEN win ELSE rb
  /\ rect' = r
  /\ step' = <<r.w, r.h>>
  /\ rendering' = TRUE
  /\ shrunk' = FALSE

\* rend_size and rend_begin: the buffer takes the size of the window, the
\* first pass has a single block.
Begin(r) ==
  /\ jobs < MaxJobs
  /\ jobs' = jobs + 1
  /\ rb' = win
  /\ rect' = r
  /\ step' = <<r.w, r.h>>
  /\ rendering' = TRUE
  /\ shrunk' = FALSE

\* Mutant: the last block is not clipped.
Shaded_NoClip(n, s) == 0 .. ((n + s - 1) \div s) * s - 1

\* Distances from the origin of the rectangle that blocks of size s shade: a
\* block is clipped at the far edge, n.
Shaded(n, s) == 0 .. n - 1

\* The pixel that gives the block of distance d its colour.
BlockOf(d, s) == (d \div s) * s

\* Steps below one count as one (render), then they are halved.
AtLeastOne(s) == IF s < 1 THEN 1 ELSE s

\* Mutant: halved upwards, a step never becomes zero.
Halve_RoundsUp(s) == (AtLeastOne(s) + 1) \div 2

\* Halved after the pass.
Halve(s) == AtLeastOne(s) \div 2

\* What ray_trace finds through a window pixel: the lights, the materials and
\* the objects it walks are those of the picture when it runs.
Traced(x, y) == <<ver, x, y>>

\* Mutant: the rows are taken to be as long as the window's.
OffsetOf_WindowRows(d) == (rect.y + d[2]) * win[1] + rect.x + d[1]

\* Where a pixel of the rectangle is written, given its distances from the
\* rectangle's corner (roffs, offs and fillrect).
OffsetOf(d) == (rect.y + d[2]) * rb[1] + rect.x + d[1]

\* When it is written: block rows, blocks, rows of a block, pixels.
Turn(d, xs, ys) ==
  ((BlockOf(d[2], ys) * rect.w + BlockOf(d[1], xs)) * rect.h + d[2]) * rect.w + d[1]

\* The pixels of the rectangle that are written at offset o, and the last one.
WrittenAt(o, xs, ys) ==
  {d \in Shaded(rect.w, xs) \X Shaded(rect.h, ys) : OffsetOf(d) = o}
LastAt(o, xs, ys) ==
  CHOOSE d \in WrittenAt(o, xs, ys) :
    \A e \in WrittenAt(o, xs, ys) : Turn(e, xs, ys) <= Turn(d, xs, ys)

\* One pass over the rectangle, into a frame buffer with contents f.  What the
\* code writes outside of the buffer lands in memory that is not modelled.
Pass(f) ==
  LET xs == AtLeastOne(step[1])
      ys == AtLeastOne(step[2])
  IN  [o \in DOMAIN f |->
        IF WrittenAt(o, xs, ys) = {} THEN f[o]
        ELSE LET d == LastAt(o, xs, ys)
             IN  Traced(rect.x + BlockOf(d[1], xs), rect.y + BlockOf(d[2], ys))]

-----------------------------------------------------------------------------
(* scr_mod.c *)

\* inval_vport(): redraw the viewport, show no render.
InvalVport == vpdirty' = TRUE /\ shown' = {}

\* memset(framebuf, 0, win_width * win_height * sizeof *framebuf)
Cleared == [o \in DOMAIN fb |-> IF o \in Screen THEN None ELSE fb[o]]

InitAt(size) ==
  /\ win = size
  /\ rb = <<0, 0>>
  /\ fbLen = size[1] * size[2]
  /\ fb = [o \in 0 .. size[1] * size[2] - 1 |-> None]
  /\ rect = NoRect
  /\ step = <<0, 0>>
  /\ rendering = FALSE
  /\ shrunk = FALSE
  /\ band = NoBand
  /\ shown = {}
  /\ vpdirty = TRUE
  /\ tool = "other"
  /\ ver = 0
  /\ jobs = 0
  /\ png = "none"

Init ==
  \/ build \in {"gl", "sw"} /\ \E size \in Windows : InitAt(size)
  \/ build = "dos" /\ \E size \in Modes : InitAt(size)

\* act_render: the whole window.
RenderAll ==
  /\ Begin(Whole(win))
  /\ shown' = {Whole(win)}
  /\ fb' = Cleared
  /\ UNCHANGED <<build, win, fbLen, band, vpdirty, tool, ver, png>>

\* A button is pressed in the viewport (mdl_mouse): the left one, or another one
\* while it is held.
Press(p) ==
  /\ band' = BandAt(p)
  /\ UNCHANGED <<build, win, fbLen, fb, job, shown, vpdirty, tool, ver, png>>

\* mdl_motion, with the area or the select tool.
Drag(p) ==
  /\ band # NoBand
  /\ p # band.from
  /\ band' = [band EXCEPT !.to = p]
  /\ UNCHANGED <<build, win, fbLen, fb, job, shown, vpdirty, tool, ver, png>>

\* A button is released (mdl_mouse); the left one may still be held, and goes on
\* from the corner in rband.  With the area tool a band that is no line starts
\* a job, for which one that is still running is dropped.  The corners may be
\* those of a window of another size.
Release ==
  /\ band # NoBand
  /\ LET r      == Between(band.from, band.to)
         starts == tool = "area" /\ r.w # 0 /\ r.h # 0
     IN  /\ band' \in {NoBand, BandAt(IF starts THEN <<r.x, r.y>> ELSE band.from)}
         /\ IF starts
              THEN /\ Begin(r)
                   /\ shown' = shown \cup {r}
                   /\ fb' = IF shown = {} THEN Cleared ELSE fb
              ELSE UNCHANGED <<job, shown, fb>>
  /\ UNCHANGED <<build, win, fbLen, vpdirty, tool, ver, png>>

\* act_viewer: show the whole window's pixels and save them.  Before the first
\* render there is nothing to speak of in it.
ViewRender ==
  /\ shown' = {Whole(win)}
  /\ png' = CASE jobs = 0 -> "none"
              [] jobs > 0 /\ View \in {fb[o] : o \in Screen} -> "viewport"
              [] OTHER -> "render"
  /\ UNCHANGED <<build, win, fbLen, fb, job, band, vpdirty, tool, ver>>

\* An object, the selection or the view changes, or a window of the GUI is
\* hidden (rtk_hide).
Edit ==
  /\ ver' \in {ver, Lower(ver + 1, MaxVer)}
  /\ InvalVport
  /\ UNCHANGED <<build, win, fbLen, fb, job, band, tool, png>>

\* A slider of the material editor changes a material; the viewport is not
\* invalidated.
SlideMaterial ==
  /\ ver < MaxVer
  /\ ver' = ver + 1
  /\ UNCHANGED <<build, win, fbLen, fb, job, band, shown, vpdirty, tool, png>>

\* cancel_op and act_settool(TOOL_SEL): the ESC key; New and Open also change
\* the scene.
Cancel ==
  /\ rendering' = FALSE
  /\ InvalVport
  /\ tool' = "other"
  /\ ver' \in {ver, Lower(ver + 1, MaxVer)}
  /\ UNCHANGED <<build, win, fbLen, fb, rb, rect, step, jobs, shrunk, band, png>>

\* act_settool: leaving the area tool hides the render, and lets it run.
SetTool(t) ==
  /\ tool # t
  /\ tool' = t
  /\ IF tool = "area" THEN InvalVport ELSE UNCHANGED <<vpdirty, shown>>
  /\ UNCHANGED <<build, win, fbLen, fb, job, band, ver, png>>

\* Mutant: the frame buffer is never reallocated.
Reshape_NoRealloc(size) ==
  /\ build # "dos" /\ size # win
  /\ win' = size
  /\ InvalVport
  /\ UNCHANGED <<build, job, band, fbLen, fb, tool, ver, png>>

\* app_reshape: the frame buffer is reallocated for a window of more pixels than
\* the last one, although it may be larger.  A running job is not stopped.  The
\* DOS build keeps the mode it started with.
Reshape(size) ==
  /\ build # "dos" /\ size # win
  /\ win' = size
  /\ LET n == size[1] * size[2]
     IN  IF n > win[1] * win[2]
           THEN /\ fbLen' = n
                /\ fb' = [o \in 0 .. n - 1 |-> IF o < fbLen THEN fb[o] ELSE None]
                /\ shrunk' = (shrunk \/ n < fbLen)
           ELSE UNCHANGED <<fbLen, fb, shrunk>>
  /\ InvalVport
  /\ UNCHANGED <<build, rb, rect, step, rendering, jobs, band, tool, ver, png>>

\* The frame buffer after the viewport was drawn, into it or elsewhere.
Redrawn == [o \in DOMAIN fb |-> IF build # "gl" /\ o \in Screen THEN View ELSE fb[o]]

\* mdl_display: the viewport, then a pass of the render.
Display ==
  /\ vpdirty \/ rendering
  /\ vpdirty' = FALSE
  /\ LET under == IF vpdirty THEN Redrawn ELSE fb
     IN  IF rendering
           THEN /\ fb' = Pass(under)
                /\ step' = <<Halve(step[1]), Halve(step[2])>>
                /\ rendering' = (step' # <<0, 0>>)
           ELSE /\ fb' = under
                /\ UNCHANGED <<step, rendering>>
  /\ UNCHANGED <<build, win, fbLen, rb, rect, shrunk, band, shown, tool, ver, jobs, png>>

Next ==
  \/ RenderAll
  \/ \E p \in Mouse : Press(p) \/ Drag(p)
  \/ Release
  \/ ViewRender \/ Edit \/ SlideMaterial \/ Cancel
  \/ \E t \in {"area", "other"} : SetTool(t)
  \/ \E size \in Windows : Reshape(size)
  \/ Display

\* The display runs as long as there is something to draw: the event loop of
\* DOS calls it in every iteration, and under GLUT inval_vport and every
\* pass of a render post a redisplay.
Spec == Init /\ [][Next]_vars /\ WF_vars(Display)
-----------------------------------------------------------------------------
(* Properties.                                                             *)

TypeOK ==
  /\ build \in Builds
  /\ win \in Sizes
  /\ rb \in Sizes \cup {<<0, 0>>}
  /\ fbLen \in Nat
  /\ DOMAIN fb = Offsets
  /\ rect \in [x : Int, y : Int, w : Nat, h : Nat]
  /\ step \in Nat \X Nat
  /\ rendering \in BOOLEAN
  /\ shrunk \in BOOLEAN
  /\ band \in {NoBand} \cup [from : Int \X Int, to : Int \X Int]
  /\ \A r \in shown : r \in [x : Int, y : Int, w : Nat, h : Nat]
  /\ vpdirty \in BOOLEAN
  /\ tool \in {"area", "other"}
  /\ ver \in 0 .. MaxVer
  /\ jobs \in 0 .. MaxJobs
  /\ png \in {"none", "render", "viewport"}

InRect(r, p) == /\ p[1] \in r.x .. r.x + r.w - 1
                /\ p[2] \in r.y .. r.y + r.h - 1
PixelAt(o, width) == <<o % width, o \div width>>

\* However the scene, the tool and the window changed while the render was
\* refined, the pass that ends it leaves every pixel of the rectangle with
\* the colour traced at that very pixel, all of one version of the picture.  A
\* band dragged wider than the buffer is left out: its rows overwrite others.
FinishedIsSharp ==
  [][rendering /\ ~rendering' /\ ~vpdirty' /\ rect.w <= rb[1] =>
       \A o \in DOMAIN fb :
         LET p == PixelAt(o, rb[1])
         IN  InRect(rect, p) => fb'[o] = <<ver, p[1], p[2]>>]_vars

\* The rectangle lies within the columns of the buffer, as every one does in
\* the DOS build.
InColumns == rect.x >= 0 /\ rect.x + rect.w <= rb[1]

\* A step that does not draw the viewport and starts no job changes only pixels
\* in the rectangle.
PassStaysIn ==
  rendering /\ ~vpdirty /\ step' # step /\ jobs' = jobs =>
    \A o \in DOMAIN fb :
      ~InRect(rect, PixelAt(o, rb[1])) => fb'[o] = fb[o]

\* A pass changes no pixel outside of the rectangle, where other regions and
\* the viewport are: in the DOS build, and in a window for every area within
\* its columns.
PassStaysInside == [][build = "dos" \/ InColumns => PassStaysIn]_vars

\* The window's pixels are in the frame buffer, whatever sizes it had.  So are
\* the pixels a pass writes, in a window or screen of any size and also when
\* it was resized since the job began, if the area lay in the window and the
\* buffer was not made smaller under the job.
FrameInBounds ==
  /\ win[1] * win[2] <= fbLen
  /\ rendering /\ InColumns /\ rect.y >= 0 /\ rect.y + rect.h <= rb[2] /\ ~shrunk =>
       (rect.y + rect.h - 1) * rb[1] + rect.x + rect.w <= fbLen

\* While a render is shown, its rows are as long as those of the window, and
\* the job in progress lies in the part that is shown: resizing hides the old
\* render, and only F7 (act_viewer) brings it back at the wrong row length.
OverlayAligned ==
  rendering /\ Total.w > 0 /\ png = "none" =>
    /\ rb = win
    /\ rect.x >= Total.x /\ rect.x + rect.w <= Total.x + Total.w
    /\ rect.y >= Total.y /\ rect.y + rect.h <= Total.y + Total.h

\* A render comes to an end, or is cancelled.
RenderEnds == rendering ~> ~rendering

\* "To display a previous render and also at the same time save it"
\* (doc/manual.md:58): what is saved after a render is the render.
SavesTheRender == png # "viewport"
=============================================================================
