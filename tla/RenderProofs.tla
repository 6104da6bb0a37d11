---------------------------- MODULE RenderProofs ----------------------------
(***************************************************************************)
(* Proofs about Render, for every set of window sizes and every build.    *)
(***************************************************************************)
EXTENDS Render, WellFoundedInduction, TLAPS

-----------------------------------------------------------------------------
(* Arithmetic.                                                             *)

LEMMA SizeType ==
  ASSUME NEW s \in Sizes
  PROVE  s[1] \in Nat \ {0} /\ s[2] \in Nat \ {0} /\ s = <<s[1], s[2]>>
BY RenderAssumption DEF Sizes

\* A step is halved to a natural number; zero means it counted as one.
LEMMA HalveType ==
  ASSUME NEW s \in Nat
  PROVE  /\ AtLeastOne(s) \in Nat \ {0}
         /\ Halve(s) \in Nat
         /\ Halve(s) = 0 => AtLeastOne(s) = 1
BY DEF AtLeastOne, Halve

\* In a pass with steps of one every pixel is its own block.
LEMMA BlockOfOne ==
  ASSUME NEW d \in Int
  PROVE  BlockOf(d, 1) = d
BY DEF BlockOf

\* The rectangle between two positions has a natural size and ends at them.
LEMMA BetweenType ==
  ASSUME NEW a \in Int \X Int, NEW b \in Int \X Int
  PROVE  LET r == Between(a, b)
         IN  /\ r \in [x : Int, y : Int, w : Nat, h : Nat]
             /\ r.x \in {a[1], b[1]} /\ r.x + r.w \in {a[1], b[1]}
             /\ r.y \in {a[2], b[2]} /\ r.y + r.h \in {a[2], b[2]}
<1>1. a[1] \in Int /\ a[2] \in Int /\ b[1] \in Int /\ b[2] \in Int
  OBVIOUS
<1>2. ASSUME NEW m \in Int, NEW n \in Int
      PROVE  /\ Lower(m, n) \in Int /\ Upper(m, n) - Lower(m, n) \in Nat
             /\ Lower(m, n) \in {m, n}
             /\ Lower(m, n) + (Upper(m, n) - Lower(m, n)) \in {m, n}
  BY DEF Lower, Upper
<1>. QED
  BY <1>1, <1>2 DEF Between, Rect

\* A product with a factor that is not zero is not small.
LEMMA SmallProduct ==
  ASSUME NEW n \in Nat \ {0}, NEW k \in Int, -n < k * n, k * n < n
  PROVE  k = 0
<1>1. CASE k >= 1
  <2>1. k * n = n + (k - 1) * n /\ (k - 1) * n >= 0
    BY <1>1
  <2>. QED BY <2>1
<1>2. CASE k <= -1
  <2>1. k * n = -n - (-1 - k) * n /\ (-1 - k) * n >= 0
    BY <1>2
  <2>. QED BY <2>1
<1>. QED BY <1>1, <1>2

\* An offset is a row and a column.
LEMMA RowAndColumn ==
  ASSUME NEW n \in Nat \ {0}, NEW o \in Nat
  PROVE  o \div n \in Int /\ o % n \in 0 .. n - 1 /\ o = (o \div n) * n + (o % n)
<1>1. o \div n \in Int /\ o % n \in 0 .. n - 1 /\ o = n * (o \div n) + (o % n)
  OBVIOUS
<1> DEFINE a == o \div n
           b == o % n
<1>2. a \in Int /\ b \in Int /\ o = n * a + b
  BY <1>1
<1> HIDE DEF a, b
<1>3. o = a * n + b
  BY <1>2
<1>. QED
  BY <1>1, <1>3 DEF a, b

\* There is one row and one column.
LEMMA OneRowAndColumn ==
  ASSUME NEW n \in Nat \ {0}, NEW o \in Nat, NEW q \in Int, NEW r \in 0 .. n - 1,
         o = q * n + r
  PROVE  q = o \div n /\ r = o % n
<1> DEFINE a == o \div n
           b == o % n
<1>1. a \in Int /\ b \in 0 .. n - 1 /\ o = a * n + b
  BY RowAndColumn
<1> HIDE DEF a, b
<1>2. (q - a) * n = q * n - a * n /\ q * n \in Int /\ a * n \in Int
  BY <1>1
<1>3. (q - a) * n = b - r
  BY <1>1, <1>2
<1>4. q - a = 0
  BY <1>1, <1>3, SmallProduct
<1>. QED
  BY <1>1, <1>3, <1>4 DEF a, b

-----------------------------------------------------------------------------
(* The inductive invariant: the type invariant, and a running job knows the *)
(* row length of the buffer it traces into.                                *)

Rects == [x : Int, y : Int, w : Nat, h : Nat]
Bands == {NoBand} \cup [from : Int \X Int, to : Int \X Int]
RowLength == rendering => rb \in Sizes
RInv == TypeOK /\ RowLength

LEMMA InitRInv == Init => RInv
<1> SUFFICES ASSUME NEW size \in Sizes, InitAt(size), build \in Builds PROVE RInv
  BY DEF Init, Sizes, Builds
<1>1. size[1] \in Nat /\ size[2] \in Nat
  BY SizeType
<1>2. size[1] * size[2] \in Nat
  BY <1>1
<1>3. win \in Sizes /\ rb \in Sizes \cup {<<0, 0>>} /\ fbLen \in Nat
  BY <1>2 DEF InitAt
<1>4. DOMAIN fb = Offsets
  BY DEF InitAt, Offsets
<1>5. rect \in Rects /\ step \in Nat \X Nat /\ shown = {}
  BY DEF InitAt, Rects, NoRect, Rect
<1>6. ver \in 0 .. MaxVer /\ jobs \in 0 .. MaxJobs
  BY RenderAssumption DEF InitAt
<1>7. png \in {"none", "render", "viewport"} /\ tool \in {"area", "other"}
  BY DEF InitAt
<1>8. /\ rendering \in BOOLEAN /\ vpdirty \in BOOLEAN /\ shrunk \in BOOLEAN
      /\ band \in Bands
  BY DEF InitAt, Bands
<1>9. TypeOK
  BY <1>3, <1>4, <1>5, <1>6, <1>7, <1>8 DEF TypeOK, Rects, Bands
<1>. QED
  BY <1>9 DEF RInv, RowLength, InitAt

\* A handler that starts a job in a rectangle of the window.
LEMMA BeginInv ==
  ASSUME RInv, NEW r \in Rects, Begin(r),
         shown' \subseteq shown \cup {r},
         DOMAIN fb' = DOMAIN fb, band' \in Bands,
         UNCHANGED <<build, win, fbLen, vpdirty, tool, ver, png>>
  PROVE  RInv'
<1>1. win \in Sizes /\ fbLen \in Nat /\ DOMAIN fb = Offsets /\ jobs \in 0 .. MaxJobs
  BY DEF RInv, TypeOK
<1>2. /\ jobs' = jobs + 1 /\ jobs < MaxJobs
      /\ rb' = win /\ rect' = r /\ step' = <<r.w, r.h>> /\ rendering' = TRUE
      /\ shrunk' = FALSE
  BY DEF Begin
<1>3. jobs' \in 0 .. MaxJobs
  BY <1>1, <1>2, RenderAssumption
<1>4. step' \in Nat \X Nat
  BY <1>2 DEF Rects
<1>5. \A q \in shown' : q \in Rects
  BY DEF RInv, TypeOK, Rects
<1>6. rendering' \in BOOLEAN /\ shrunk' \in BOOLEAN /\ RowLength'
  BY <1>1, <1>2 DEF RowLength
<1>7. DOMAIN fb' = Offsets'
  BY <1>1 DEF Offsets
<1>8. /\ UNCHANGED <<vpdirty, tool, ver, png>> /\ build' \in Builds
      /\ win' \in Sizes /\ fbLen' \in Nat
  BY <1>1 DEF RInv, TypeOK
<1>9. rb' \in Sizes \cup {<<0, 0>>} /\ rect' \in Rects
  BY <1>1, <1>2
<1>10. TypeOK'
  BY <1>3, <1>4, <1>5, <1>6, <1>7, <1>8, <1>9 DEF RInv, TypeOK, Rects, Bands
<1>. QED
  BY <1>6, <1>10 DEF RInv

\* Mapped over the frame buffer, a pass keeps its domain.
LEMMA PassDomain == ASSUME NEW f PROVE DOMAIN Pass(f) = DOMAIN f
BY DEF Pass

LEMMA RenderAllInv == ASSUME RInv, RenderAll PROVE RInv'
<1>1. Whole(win) \in Rects
  BY SizeType DEF RInv, TypeOK, Whole, Rect, Rects
<1>2. DOMAIN fb' = DOMAIN fb
  BY DEF RenderAll, Cleared
<1>3. Begin(Whole(win)) /\ shown' \subseteq shown \cup {Whole(win)}
  BY DEF RenderAll
<1>4. UNCHANGED <<build, win, fbLen, vpdirty, tool, ver, png>> /\ band' \in Bands
  BY DEF RenderAll, RInv, TypeOK, Bands
<1>. QED
  BY <1>1, <1>2, <1>3, <1>4, BeginInv

\* The handlers that leave the job, and what is traced, alone.
LEMMA JobUntouched ==
  ASSUME RInv, UNCHANGED <<build, win, fbLen, fb, rb, rect, step, jobs, shrunk>>,
         rendering' \in {rendering, FALSE}, band' \in Bands,
         \A r \in shown' : r \in Rects,
         vpdirty' \in BOOLEAN,
         tool' \in {"area", "other"}, ver' \in 0 .. MaxVer,
         png' \in {"none", "render", "viewport"}
  PROVE  RInv'
<1>1. /\ build' \in Builds /\ win' \in Sizes /\ rb' \in Sizes \cup {<<0, 0>>} /\ fbLen' \in Nat
      /\ DOMAIN fb' = Offsets' /\ rect' \in Rects /\ step' \in Nat \X Nat
      /\ jobs' \in 0 .. MaxJobs
  BY DEF RInv, TypeOK, Offsets, Rects
<1>2. rendering' \in BOOLEAN /\ shrunk' \in BOOLEAN
  BY DEF RInv, TypeOK
<1>3. RowLength'
  BY DEF RInv, RowLength
<1>4. TypeOK'
  BY <1>1, <1>2 DEF TypeOK, Rects, Bands
<1>. QED
  BY <1>3, <1>4 DEF RInv

\* The mouse: what a release starts is the rectangle of the band.
LEMMA MouseType ==
  ASSUME NEW p \in Mouse
  PROVE  p \in Int \X Int /\ BandAt(p) \in Bands /\ BandAt(p) # NoBand
<1>1. p \in Int \X Int
  BY RenderAssumption DEF Mouse
<1>2. DOMAIN BandAt(p) = {"from", "to"} /\ DOMAIN NoBand = {}
  BY DEF BandAt, NoBand
<1>. QED
  BY <1>1, <1>2 DEF BandAt, Bands

LEMMA DragType ==
  ASSUME band \in Bands, NEW p \in Mouse, Drag(p)
  PROVE  band' \in Bands
BY MouseType DEF Drag, Bands

LEMMA ReleaseStep ==
  ASSUME band \in Bands, Release
  PROVE  LET r == Between(band.from, band.to)
         IN  /\ band \in [from : Int \X Int, to : Int \X Int]
             /\ r \in Rects
             /\ band' \in {NoBand, BandAt(<<r.x, r.y>>), BandAt(band.from)}
             /\ band' \in Bands
             /\ \/ Begin(r) /\ shown' = shown \cup {r} /\ DOMAIN fb' = DOMAIN fb
                \/ UNCHANGED <<job, shown, fb>>
             /\ UNCHANGED <<build, win, fbLen, vpdirty, tool, ver, png>>
<1> DEFINE r == Between(band.from, band.to)
           starts == tool = "area" /\ r.w # 0 /\ r.h # 0
<1>1. band \in [from : Int \X Int, to : Int \X Int]
  BY DEF Release, Bands
<1>2. r \in Rects
  BY <1>1, BetweenType DEF Rects
<1>3. /\ band' \in {NoBand, BandAt(IF starts THEN <<r.x, r.y>> ELSE band.from)}
      /\ IF starts
           THEN /\ Begin(r)
                /\ shown' = shown \cup {r}
                /\ fb' = IF shown = {} THEN Cleared ELSE fb
           ELSE UNCHANGED <<job, shown, fb>>
      /\ UNCHANGED <<build, win, fbLen, vpdirty, tool, ver, png>>
  BY DEF Release
<1> HIDE DEF r, starts
<1>4. band' \in {NoBand, BandAt(<<r.x, r.y>>), BandAt(band.from)}
  BY <1>3
<1>5. band' \in Bands
  BY <1>1, <1>2, <1>4 DEF BandAt, Bands, Rects
<1>6. \/ Begin(r) /\ shown' = shown \cup {r} /\ DOMAIN fb' = DOMAIN fb
      \/ UNCHANGED <<job, shown, fb>>
  BY <1>3 DEF Cleared
<1>. QED
  BY <1>1, <1>2, <1>3, <1>4, <1>5, <1>6 DEF r

LEMMA MouseInv ==
  ASSUME RInv, (\E p \in Mouse : Press(p) \/ Drag(p)) \/ Release PROVE RInv'
<1>0. /\ vpdirty \in BOOLEAN /\ tool \in {"area", "other"} /\ ver \in 0 .. MaxVer
      /\ png \in {"none", "render", "viewport"} /\ band \in Bands
      /\ \A r \in shown : r \in Rects
  BY DEF RInv, TypeOK, Rects, Bands
<1>1. ASSUME NEW p \in Mouse, Press(p) PROVE RInv'
  BY <1>0, <1>1, MouseType, JobUntouched DEF Press, job
<1>2. ASSUME NEW p \in Mouse, Drag(p) PROVE RInv'
  BY <1>0, <1>2, DragType, JobUntouched DEF Drag, job
<1>3. ASSUME Release PROVE RInv'
  <2> DEFINE r == Between(band.from, band.to)
  <2>1. /\ r \in Rects /\ band' \in Bands
        /\ \/ Begin(r) /\ shown' = shown \cup {r} /\ DOMAIN fb' = DOMAIN fb
           \/ UNCHANGED <<job, shown, fb>>
        /\ UNCHANGED <<build, win, fbLen, vpdirty, tool, ver, png>>
    BY <1>0, <1>3, ReleaseStep
  <2> HIDE DEF r
  <2>2. CASE Begin(r) /\ shown' = shown \cup {r} /\ DOMAIN fb' = DOMAIN fb
    BY <2>1, <2>2, BeginInv
  <2>3. CASE UNCHANGED <<job, shown, fb>>
    BY <1>0, <2>1, <2>3, JobUntouched DEF job
  <2>. QED BY <2>1, <2>2, <2>3
<1>. QED
  BY <1>1, <1>2, <1>3

LEMMA VersionType ==
  ASSUME ver \in 0 .. MaxVer
  PROVE  Lower(ver + 1, MaxVer) \in 0 .. MaxVer
BY RenderAssumption DEF Lower

LEMMA OtherInv ==
  ASSUME RInv,
         \/ ViewRender \/ Edit \/ SlideMaterial \/ Cancel
         \/ \E t \in {"area", "other"} : SetTool(t)
         \/ UNCHANGED vars
  PROVE  RInv'
<1>0. /\ win \in Sizes /\ vpdirty \in BOOLEAN /\ tool \in {"area", "other"}
      /\ ver \in 0 .. MaxVer /\ png \in {"none", "render", "viewport"}
      /\ \A r \in shown : r \in Rects
      /\ band \in Bands
  BY DEF RInv, TypeOK, Rects, Bands
<1>1. CASE ViewRender
  <2>1. Whole(win) \in Rects
    BY <1>0, SizeType DEF Whole, Rect, Rects
  <2>2. png' \in {"none", "render", "viewport"}
    BY <1>1 DEF ViewRender
  <2>. QED BY <1>0, <1>1, <2>1, <2>2, JobUntouched DEF ViewRender, job
<1>2. CASE Edit
  BY <1>0, <1>2, VersionType, JobUntouched DEF Edit, InvalVport, job
<1>3. CASE SlideMaterial
  BY <1>0, <1>3, RenderAssumption, JobUntouched DEF SlideMaterial, job
<1>4. CASE Cancel
  BY <1>0, <1>4, VersionType, JobUntouched DEF Cancel, InvalVport
<1>5. CASE \E t \in {"area", "other"} : SetTool(t)
  <2>1. vpdirty' \in BOOLEAN
    BY <1>0, <1>5 DEF SetTool, InvalVport
  <2>2. \A r \in shown' : r \in Rects
    BY <1>0, <1>5 DEF SetTool, InvalVport
  <2>3. /\ UNCHANGED <<build, win, fbLen, fb, rb, rect, step, rendering, jobs, shrunk,
                       band, ver, png>>
        /\ tool' \in {"area", "other"}
    BY <1>5 DEF SetTool, job
  <2>. QED BY <1>0, <2>1, <2>2, <2>3, JobUntouched
<1>6. CASE UNCHANGED vars
  BY <1>0, <1>6, JobUntouched DEF vars, job
<1>. QED
  BY <1>1, <1>2, <1>3, <1>4, <1>5, <1>6

LEMMA ReshapeInv ==
  ASSUME RInv, NEW size \in Windows, Reshape(size) PROVE RInv'
<1>0. /\ build \in Builds /\ shrunk \in BOOLEAN /\ band \in Bands /\ rb \in Sizes \cup {<<0, 0>>} /\ rect \in Rects /\ step \in Nat \X Nat
      /\ rendering \in BOOLEAN /\ tool \in {"area", "other"}
      /\ ver \in 0 .. MaxVer /\ jobs \in 0 .. MaxJobs
      /\ png \in {"none", "render", "viewport"}
      /\ fbLen \in Nat /\ DOMAIN fb = Offsets
  BY DEF RInv, TypeOK, Rects, Bands
<1>1. UNCHANGED <<build, rb, rect, step, rendering, jobs, band, tool, ver, png>>
  BY DEF Reshape
<1>2. fbLen' \in Nat /\ DOMAIN fb' = Offsets' /\ shrunk' \in BOOLEAN
  <2> DEFINE n == size[1] * size[2]
  <2>1. n \in Nat
    BY SizeType DEF Sizes
  <2> HIDE DEF n
  <2>2. CASE n > win[1] * win[2]
    <3>1. /\ fbLen' = n /\ fb' = [o \in 0 .. n - 1 |-> IF o < fbLen THEN fb[o] ELSE None]
          /\ shrunk' = (shrunk \/ n < fbLen)
      BY <2>2 DEF Reshape, n
    <3>. QED BY <2>1, <3>1 DEF Offsets
  <2>3. CASE ~(n > win[1] * win[2])
    <3>1. UNCHANGED <<fbLen, fb, shrunk>>
      BY <2>3 DEF Reshape, n
    <3>. QED BY <1>0, <3>1 DEF Offsets
  <2>. QED BY <2>2, <2>3
<1>3. win' \in Sizes /\ shown' = {} /\ vpdirty' = TRUE
  BY DEF Reshape, InvalVport, Sizes
<1>4. RowLength'
  BY <1>1 DEF RInv, RowLength
<1>5. \A r \in shown' : r \in Rects
  BY <1>3
<1>6. rendering' \in BOOLEAN /\ vpdirty' \in BOOLEAN
  BY <1>0, <1>1, <1>3
<1>7. TypeOK'
  BY <1>0, <1>1, <1>2, <1>3, <1>5, <1>6 DEF TypeOK, Rects, Bands
<1>. QED
  BY <1>4, <1>7 DEF RInv

\* What a redraw does, without the case distinctions of Display.
LEMMA DisplayStep ==
  ASSUME RInv, Display
  PROVE  /\ DOMAIN fb' = DOMAIN fb
         /\ step' \in Nat \X Nat
         /\ rendering' \in BOOLEAN
         /\ rendering' => rendering
         /\ vpdirty' = FALSE
         /\ UNCHANGED <<build, win, fbLen, rb, rect, shrunk, band, shown, tool, ver, jobs, png>>
         /\ rendering /\ ~vpdirty => fb' = Pass(fb)
         /\ rendering => \E f : DOMAIN f = DOMAIN fb /\ fb' = Pass(f)
         /\ rendering /\ ~rendering' => AtLeastOne(step[1]) = 1 /\ AtLeastOne(step[2]) = 1
<1> DEFINE under == IF vpdirty THEN Redrawn ELSE fb
<1>1. DOMAIN under = DOMAIN fb
  BY DEF Redrawn
<1>2. ~vpdirty => under = fb
  OBVIOUS
<1>3. /\ IF rendering
           THEN /\ fb' = Pass(under)
                /\ step' = <<Halve(step[1]), Halve(step[2])>>
                /\ rendering' = (step' # <<0, 0>>)
           ELSE /\ fb' = under
                /\ UNCHANGED <<step, rendering>>
      /\ vpdirty' = FALSE
      /\ UNCHANGED <<build, win, fbLen, rb, rect, shrunk, band, shown, tool, ver, jobs, png>>
  BY DEF Display
<1> HIDE DEF under
<1>4. step[1] \in Nat /\ step[2] \in Nat /\ step \in Nat \X Nat /\ rendering \in BOOLEAN
  BY DEF RInv, TypeOK
<1>5. CASE rendering
  <2>1. /\ fb' = Pass(under)
        /\ step' = <<Halve(step[1]), Halve(step[2])>>
        /\ rendering' = (step' # <<0, 0>>)
    BY <1>3, <1>5
  <2>2. DOMAIN fb' = DOMAIN fb
    BY <1>1, <2>1, PassDomain
  <2>3. step' \in Nat \X Nat
    BY <1>4, <2>1, HalveType
  <2>4. rendering' \in BOOLEAN
    BY <2>1
  <2>5. ASSUME ~rendering'
        PROVE  AtLeastOne(step[1]) = 1 /\ AtLeastOne(step[2]) = 1
    <3>1. step' = <<0, 0>>
      BY <2>1, <2>5
    <3>2. Halve(step[1]) = 0 /\ Halve(step[2]) = 0
      BY <2>1, <3>1
    <3>. QED BY <1>4, <3>2, HalveType
  <2>6. ~vpdirty => fb' = Pass(fb)
    BY <1>2, <2>1
  <2>7. \E f : DOMAIN f = DOMAIN fb /\ fb' = Pass(f)
    BY <1>1, <2>1
  <2>. QED BY <1>3, <1>5, <2>2, <2>3, <2>4, <2>5, <2>6, <2>7
<1>6. CASE ~rendering
  <2>1. fb' = under /\ step' = step /\ rendering' = rendering
    BY <1>3, <1>6
  <2>. QED BY <1>1, <1>3, <1>4, <1>6, <2>1
<1>. QED BY <1>5, <1>6

LEMMA DisplayInv == ASSUME RInv, Display PROVE RInv'
<1>1. /\ DOMAIN fb' = DOMAIN fb
      /\ step' \in Nat \X Nat
      /\ rendering' \in BOOLEAN
      /\ rendering' => rendering
      /\ vpdirty' = FALSE
      /\ UNCHANGED <<build, win, fbLen, rb, rect, shrunk, band, shown, tool, ver, jobs, png>>
  BY DisplayStep
<1>2. RowLength'
  BY <1>1 DEF RInv, RowLength
<1>3. vpdirty' \in BOOLEAN
  BY <1>1
<1>4. DOMAIN fb' = Offsets'
  BY <1>1 DEF RInv, TypeOK, Offsets
<1>5. TypeOK'
  BY <1>1, <1>3, <1>4 DEF RInv, TypeOK
<1>. QED
  BY <1>2, <1>5 DEF RInv

LEMMA NextRInv == RInv /\ [Next]_vars => RInv'
<1> SUFFICES ASSUME RInv, [Next]_vars PROVE RInv'
  OBVIOUS
<1>1. CASE RenderAll
  BY <1>1, RenderAllInv
<1>2. CASE (\E p \in Mouse : Press(p) \/ Drag(p)) \/ Release
  BY <1>2, MouseInv
<1>3. CASE \/ ViewRender \/ Edit \/ SlideMaterial \/ Cancel
           \/ \E t \in {"area", "other"} : SetTool(t)
           \/ UNCHANGED vars
  BY <1>3, OtherInv
<1>4. CASE \E size \in Windows : Reshape(size)
  BY <1>4, ReshapeInv
<1>5. CASE Display
  BY <1>5, DisplayInv
<1>. QED
  BY <1>1, <1>2, <1>3, <1>4, <1>5 DEF Next

THEOREM RInvHolds == Spec => []RInv
<1>1. Init => RInv
  BY InitRInv
<1>2. RInv /\ [Next]_vars => RInv'
  BY NextRInv
<1>. QED
  BY <1>1, <1>2, PTL DEF Spec

\* Type correctness of the render job, the frame buffer and what is shown.
THEOREM TypeCorrect == Spec => []TypeOK
<1>1. RInv => TypeOK
  BY DEF RInv
<1>. QED
  BY <1>1, RInvHolds, PTL

-----------------------------------------------------------------------------
(* What passes do to the frame buffer.                                     *)

\* Of a rectangle no wider than the buffer's rows, the pixels of one offset are
\* that offset's own pixel: a row that wraps does not meet another.
LEMMA WrittenInside ==
  ASSUME RInv, rendering, rect.w <= rb[1], NEW o \in DOMAIN fb, NEW xs, NEW ys,
         InRect(rect, PixelAt(o, rb[1]))
  PROVE  LET p == PixelAt(o, rb[1])
         IN  /\ p \in Int \X Int
             /\ WrittenAt(o, xs, ys) = {<<p[1] - rect.x, p[2] - rect.y>>}
<1> DEFINE n == rb[1]
           x == rect.x
           y == rect.y
           q == o \div n
           r == o % n
<1>1. /\ o \in Nat /\ n \in Nat \ {0} /\ x \in Int /\ y \in Int
      /\ rect.w \in Nat /\ rect.h \in Nat
  BY SizeType DEF RInv, TypeOK, RowLength, Offsets
<1>2. q \in Int /\ r \in 0 .. n - 1 /\ o = q * n + r
  BY <1>1, RowAndColumn
<1>3. r \in x .. x + rect.w - 1 /\ q \in y .. y + rect.h - 1
  BY DEF InRect, PixelAt
<1>4. WrittenAt(o, xs, ys) =
        {d \in (0 .. rect.w - 1) \X (0 .. rect.h - 1) : (y + d[2]) * n + x + d[1] = o}
  BY DEF WrittenAt, Shaded, OffsetOf
<1>5. PixelAt(o, rb[1]) = <<r, q>>
  BY DEF PixelAt
<1>6. rect.w <= n
  OBVIOUS
<1> HIDE DEF n, x, y, q, r
<1>7. ASSUME NEW d \in (0 .. rect.w - 1) \X (0 .. rect.h - 1)
      PROVE  (y + d[2]) * n + x + d[1] = o <=> d = <<r - x, q - y>>
  <2>1. d[1] \in 0 .. rect.w - 1 /\ d[2] \in 0 .. rect.h - 1 /\ d = <<d[1], d[2]>>
    OBVIOUS
  <2> DEFINE k == y + d[2] - q
  <2>2. k \in Int
    BY <1>1, <1>2, <2>1
  <2>3. (y + d[2]) * n = k * n + q * n /\ k * n \in Int /\ q * n \in Int
    BY <1>1, <1>2, <2>1, <2>2
  <2>4. (y + d[2]) * n + x + d[1] = o <=> k * n = r - x - d[1]
    <3> DEFINE a == (y + d[2]) * n
               b == k * n
               c == q * n
    <3>1. a = b + c /\ b \in Int /\ c \in Int /\ o = c + r
      BY <1>2, <2>3
    <3> HIDE DEF a, b, c, k
    <3>2. a + x + d[1] = o <=> b = r - x - d[1]
      BY <1>1, <1>2, <2>1, <3>1
    <3>. QED BY <3>2 DEF a, b
  <2>5. -n < r - x - d[1] /\ r - x - d[1] < n
    BY <1>1, <1>2, <1>3, <1>6, <2>1
  <2>6. k * n = r - x - d[1] <=> k = 0 /\ d[1] = r - x
    <3>1. CASE k * n = r - x - d[1]
      <4>1. k = 0
        BY <1>1, <2>2, <2>5, <3>1, SmallProduct
      <4>. QED BY <1>1, <1>2, <2>1, <3>1, <4>1
    <3>2. CASE k = 0 /\ d[1] = r - x
      <4>1. k * n = 0
        BY <1>1, <3>2
      <4>. QED BY <1>1, <1>2, <2>1, <3>2, <4>1
    <3>. QED BY <3>1, <3>2
  <2>7. k = 0 <=> d[2] = q - y
    BY <1>1, <1>2, <2>1
  <2>. QED BY <2>1, <2>4, <2>6, <2>7
<1>8. <<r - x, q - y>> \in (0 .. rect.w - 1) \X (0 .. rect.h - 1)
  BY <1>1, <1>2, <1>3
<1>9. WrittenAt(o, xs, ys) = {<<r - x, q - y>>}
  BY <1>4, <1>7, <1>8
<1>. QED
  BY <1>2, <1>5, <1>9 DEF x, y

\* Such a pixel gets the colour of its block.
LEMMA PassPixels ==
  ASSUME RInv, rendering, rect.w <= rb[1], NEW f, DOMAIN f = DOMAIN fb,
         NEW o \in DOMAIN fb, InRect(rect, PixelAt(o, rb[1]))
  PROVE  LET p == PixelAt(o, rb[1])
         IN  /\ p \in Int \X Int
             /\ Pass(f)[o] =
                  <<ver, rect.x + BlockOf(p[1] - rect.x, AtLeastOne(step[1])),
                         rect.y + BlockOf(p[2] - rect.y, AtLeastOne(step[2]))>>
<1> DEFINE p  == PixelAt(o, rb[1])
           xs == AtLeastOne(step[1])
           ys == AtLeastOne(step[2])
           d  == <<p[1] - rect.x, p[2] - rect.y>>
<1>1. p \in Int \X Int /\ WrittenAt(o, xs, ys) = {d}
  BY WrittenInside
<1>2. Pass(f)[o] = IF WrittenAt(o, xs, ys) = {} THEN f[o]
                   ELSE LET e == LastAt(o, xs, ys)
                        IN  Traced(rect.x + BlockOf(e[1], xs), rect.y + BlockOf(e[2], ys))
  BY DEF Pass
<1>3. d[1] = p[1] - rect.x /\ d[2] = p[2] - rect.y
  OBVIOUS
<1>4. Turn(d, xs, ys) <= Turn(d, xs, ys)
  <2>1. /\ rect \in Rects /\ step[1] \in Nat /\ step[2] \in Nat
    BY DEF RInv, TypeOK, Rects
  <2>2. xs \in Nat \ {0} /\ ys \in Nat \ {0}
    BY <2>1, HalveType
  <2>3. d[1] \in Int /\ d[2] \in Int /\ rect.w \in Int /\ rect.h \in Int
    BY <1>1, <1>3, <2>1 DEF Rects
  <2> HIDE DEF xs, ys, d
  <2>4. BlockOf(d[1], xs) \in Int /\ BlockOf(d[2], ys) \in Int
    BY <2>2, <2>3 DEF BlockOf
  <2>5. Turn(d, xs, ys) \in Int
    <3> HIDE DEF BlockOf
    <3>. QED BY <2>3, <2>4 DEF Turn
  <2>. QED BY <2>5
<1> HIDE DEF p, xs, ys, d
<1>5. LastAt(o, xs, ys) = d
  BY <1>1, <1>4, Zenon DEF LastAt
<1>. QED
  BY <1>1, <1>2, <1>3, <1>5 DEF p, xs, ys, Traced

\* Of a rectangle within the columns no pixel is written elsewhere.
LEMMA PassElsewhere ==
  ASSUME RInv, rendering, InColumns, NEW f, DOMAIN f = DOMAIN fb,
         NEW o \in DOMAIN fb, ~InRect(rect, PixelAt(o, rb[1]))
  PROVE  Pass(f)[o] = f[o]
<1> DEFINE n == rb[1]
           xs == AtLeastOne(step[1])
           ys == AtLeastOne(step[2])
<1>1. /\ o \in Nat /\ n \in Nat \ {0} /\ rect.x \in Nat /\ rect.y \in Int
      /\ rect.w \in Nat /\ rect.h \in Nat /\ rect.x + rect.w <= n
  BY SizeType DEF RInv, TypeOK, RowLength, Offsets, InColumns
<1>2. ASSUME NEW d \in (0 .. rect.w - 1) \X (0 .. rect.h - 1), OffsetOf(d) = o
      PROVE  InRect(rect, PixelAt(o, n))
  <2>1. d[1] \in 0 .. rect.w - 1 /\ d[2] \in 0 .. rect.h - 1
    OBVIOUS
  <2>2. (rect.y + d[2]) * n + rect.x + d[1] = o /\ (rect.y + d[2]) * n \in Int
    BY <1>1, <1>2, <2>1 DEF OffsetOf
  <2> DEFINE q == rect.y + d[2]
             r == rect.x + d[1]
  <2>3. q \in Int /\ r \in 0 .. n - 1
    BY <1>1, <2>1
  <2>4. o = q * n + r
    <3> DEFINE a == q * n
    <3>1. a \in Int /\ a + rect.x + d[1] = o
      BY <2>2
    <3> HIDE DEF a, q
    <3>2. o = a + r
      BY <1>1, <2>1, <3>1
    <3>. QED BY <3>2 DEF a
  <2>5. q = o \div n /\ r = o % n
    <3> HIDE DEF q, r, n
    <3>. QED BY <1>1, <2>3, <2>4, OneRowAndColumn
  <2>6. q \in rect.y .. rect.y + rect.h - 1 /\ r \in rect.x .. rect.x + rect.w - 1
    BY <1>1, <2>1
  <2> HIDE DEF q, r
  <2>. QED BY <2>5, <2>6 DEF InRect, PixelAt
<1>3. WrittenAt(o, xs, ys) = {}
  BY <1>2 DEF WrittenAt, Shaded
<1>. QED
  BY <1>3 DEF Pass

\* A render that comes to its end has every pixel of its rectangle traced at
\* the pixel itself, from one version of the picture, for any rectangle no wider
\* than the buffer's rows.
THEOREM FinishedRendersAreSharp == Spec => FinishedIsSharp
<1>1. ASSUME RInv, [Next]_vars, rendering, ~rendering', ~vpdirty', rect.w <= rb[1],
             NEW o \in DOMAIN fb, InRect(rect, PixelAt(o, rb[1]))
      PROVE  fb'[o] = <<ver, PixelAt(o, rb[1])[1], PixelAt(o, rb[1])[2]>>
  <2> DEFINE p == PixelAt(o, rb[1])
  <2>1. Display
    BY <1>1 DEF Next, RenderAll, Press, Drag, Release, Begin, ViewRender, Edit,
                SlideMaterial, Cancel, SetTool, Reshape, InvalVport, vars, job
  <2>2. AtLeastOne(step[1]) = 1 /\ AtLeastOne(step[2]) = 1
    BY <1>1, <2>1, DisplayStep
  <2>3. PICK f : DOMAIN f = DOMAIN fb /\ fb' = Pass(f)
    BY <1>1, <2>1, DisplayStep
  <2>4. /\ p \in Int \X Int
        /\ Pass(f)[o] = <<ver, rect.x + BlockOf(p[1] - rect.x, 1),
                               rect.y + BlockOf(p[2] - rect.y, 1)>>
    BY <1>1, <2>2, <2>3, PassPixels
  <2>5. rect.x \in Int /\ rect.y \in Int
    BY <1>1 DEF RInv, TypeOK
  <2> HIDE DEF p
  <2>6. /\ rect.x + BlockOf(p[1] - rect.x, 1) = p[1]
        /\ rect.y + BlockOf(p[2] - rect.y, 1) = p[2]
    BY <2>4, <2>5, BlockOfOne
  <2>. QED BY <2>3, <2>4, <2>6 DEF p
<1>2. RInv /\ [Next]_vars =>
        [rendering /\ ~rendering' /\ ~vpdirty' /\ rect.w <= rb[1] =>
           \A o \in DOMAIN fb :
             LET p == PixelAt(o, rb[1])
             IN  InRect(rect, p) => fb'[o] = <<ver, p[1], p[2]>>]_vars
  BY <1>1
<1>. QED
  BY <1>2, RInvHolds, PTL DEF Spec, FinishedIsSharp

-----------------------------------------------------------------------------
(* Where bands and rectangles lie.                                         *)

InWindow(r, size) ==
  /\ r \in Rects /\ r.x >= 0 /\ r.y >= 0
  /\ r.x + r.w <= size[1] /\ r.y + r.h <= size[2]

LEMMA WholeInWindow ==
  ASSUME NEW size \in Sizes
  PROVE  InWindow(Whole(size), size)
BY SizeType DEF InWindow, Whole, Rect, Rects

\* A band stays where the mouse is: in any box of columns and rows.
BandsIn(A, B) == {NoBand} \cup [from : A \X B, to : A \X B]

LEMMA BandStays ==
  ASSUME RInv, NEW A \in SUBSET Int, NEW B \in SUBSET Int, Mouse \subseteq A \X B,
         band \in BandsIn(A, B), (\E p \in Mouse : Press(p) \/ Drag(p)) \/ Release
  PROVE  band' \in BandsIn(A, B)
<1>1. ASSUME NEW p \in Mouse, Press(p) PROVE band' \in BandsIn(A, B)
  BY <1>1 DEF Press, BandAt, BandsIn
<1>2. ASSUME NEW p \in Mouse, Drag(p) PROVE band' \in BandsIn(A, B)
  BY <1>2 DEF Drag, BandsIn
<1>3. ASSUME Release PROVE band' \in BandsIn(A, B)
  <2> DEFINE r == Between(band.from, band.to)
  <2>1. /\ band \in [from : Int \X Int, to : Int \X Int] /\ band # NoBand
        /\ band' \in {NoBand, BandAt(<<r.x, r.y>>), BandAt(band.from)}
    BY <1>3, ReleaseStep DEF RInv, TypeOK, Bands, Release
  <2>2. band.from \in A \X B /\ band.to \in A \X B
    BY <2>1 DEF BandsIn
  <2>3. r.x \in A /\ r.y \in B
    BY <2>1, <2>2, BetweenType
  <2> HIDE DEF r
  <2>. QED BY <2>1, <2>2, <2>3 DEF BandAt, BandsIn
<1>. QED
  BY <1>1, <1>2, <1>3

\* Every other step leaves the band alone, and the mode of the DOS build.
LEMMA BandKept ==
  ASSUME [Next]_vars
  PROVE  /\ UNCHANGED build /\ (build = "dos" => UNCHANGED win)
         /\ \/ (\E p \in Mouse : Press(p) \/ Drag(p)) \/ Release
            \/ UNCHANGED band
BY DEF Next, RenderAll, Press, Drag, Release, ViewRender, Edit, SlideMaterial, Cancel,
       SetTool, Reshape, Display, vars

\* The steps that start a job, and those that keep its rectangle and buffer.
LEMMA JobSteps ==
  ASSUME RInv, [Next]_vars
  PROVE  \/ RenderAll
         \/ Release /\ Begin(Between(band.from, band.to))
         \/ UNCHANGED <<rb, rect, jobs>> /\ (rendering' => rendering)
<1>1. CASE RenderAll
  BY <1>1
<1>2. CASE \E p \in Mouse : Press(p) \/ Drag(p)
  BY <1>2 DEF Press, Drag, job
<1>3. CASE Release
  BY <1>3 DEF Release, job
<1>4. CASE \/ ViewRender \/ Edit \/ SlideMaterial \/ Cancel
           \/ \E t \in {"area", "other"} : SetTool(t)
           \/ \E size \in Windows : Reshape(size)
           \/ UNCHANGED vars
  BY <1>4 DEF ViewRender, Edit, SlideMaterial, Cancel, SetTool, Reshape, vars, job
<1>5. CASE Display
  BY <1>5, DisplayStep
<1>. QED
  BY <1>1, <1>2, <1>3, <1>4, <1>5 DEF Next

-----------------------------------------------------------------------------
(* Passes stay inside.                                                     *)

\* On the screen of the DOS build bands stay on it, and so do the jobs.
DosInv ==
  build = "dos" => /\ band \in BandsIn(0 .. win[1] - 1, 0 .. win[2] - 1)
                   /\ rendering => InColumns

LEMMA NextDos ==
  ASSUME RInv, DosInv, [Next]_vars
  PROVE  DosInv'
<1> SUFFICES ASSUME build' = "dos"
             PROVE  /\ band' \in BandsIn(0 .. win'[1] - 1, 0 .. win'[2] - 1)
                    /\ (rendering => InColumns)'
  BY DEF DosInv, BandsIn, NoBand
<1> DEFINE A == 0 .. win[1] - 1
           B == 0 .. win[2] - 1
<1>1. build = "dos" /\ win' = win /\ win \in Sizes
  BY BandKept DEF RInv, TypeOK
<1>2. win[1] \in Nat \ {0} /\ win[2] \in Nat \ {0}
  BY <1>1, SizeType
<1>3. band \in BandsIn(A, B) /\ (rendering => InColumns)
  BY <1>1 DEF DosInv
<1>4. A \in SUBSET Int /\ B \in SUBSET Int /\ Mouse \subseteq A \X B
  BY <1>1, <1>2 DEF Mouse
<1>5. band' \in BandsIn(A, B)
  <2>1. CASE (\E p \in Mouse : Press(p) \/ Drag(p)) \/ Release
    <3> HIDE DEF A, B
    <3>. QED BY <1>3, <1>4, <2>1, BandStays
  <2>2. CASE UNCHANGED band
    BY <1>3, <2>2
  <2>. QED BY <2>1, <2>2, BandKept
<1> HIDE DEF A, B
<1>6. (rendering => InColumns)'
  <2>1. CASE RenderAll
    <3>1. rect' = Whole(win) /\ rb' = win
      BY <2>1 DEF RenderAll, Begin
    <3>2. Whole(win).x = 0 /\ Whole(win).w = win[1]
      BY DEF Whole, Rect
    <3>. QED BY <1>2, <3>1, <3>2 DEF InColumns
  <2>2. CASE Release /\ Begin(Between(band.from, band.to))
    <3> DEFINE r == Between(band.from, band.to)
    <3>1. band \in [from : Int \X Int, to : Int \X Int] /\ band # NoBand
      BY <2>2, ReleaseStep DEF RInv, TypeOK, Bands, Release
    <3>2. band.from[1] \in A /\ band.to[1] \in A
      BY <1>3, <3>1 DEF BandsIn
    <3>3. r.x \in A /\ r.x + r.w \in A
      BY <3>1, <3>2, BetweenType
    <3>4. rect' = r /\ rb' = win
      BY <2>2 DEF Begin
    <3> HIDE DEF r
    <3>. QED BY <1>2, <3>3, <3>4 DEF InColumns, A
  <2>3. CASE UNCHANGED <<rb, rect, jobs>> /\ (rendering' => rendering)
    BY <1>3, <2>3 DEF InColumns
  <2>. QED BY <2>1, <2>2, <2>3, JobSteps
<1>. QED
  BY <1>1, <1>5, <1>6 DEF A, B

\* No pass writes a pixel outside of its rectangle: in any mode of the DOS build,
\* and in any window for the rectangles within its columns.
THEOREM PassesStayInside == Spec => PassStaysInside
<1>1. Init => DosInv
  BY DEF Init, InitAt, DosInv, BandsIn
<1>2. RInv /\ DosInv /\ [Next]_vars => DosInv'
  BY NextDos
<1>3. ASSUME RInv, DosInv, [Next]_vars, build = "dos" \/ InColumns,
             rendering, ~vpdirty, step' # step, jobs' = jobs,
             NEW o \in DOMAIN fb, ~InRect(rect, PixelAt(o, rb[1]))
      PROVE  fb'[o] = fb[o]
  <2>1. jobs \in Nat
    BY <1>3 DEF RInv, TypeOK
  <2>2. Display
    <3>1. ~RenderAll /\ ~(Release /\ Begin(Between(band.from, band.to)))
      BY <1>3, <2>1 DEF RenderAll, Begin
    <3>2. /\ ~Release
          /\ ~(\E p \in Mouse : Press(p) \/ Drag(p))
          /\ ~ViewRender /\ ~Edit /\ ~SlideMaterial /\ ~Cancel
          /\ ~(\E t \in {"area", "other"} : SetTool(t))
          /\ ~(\E size \in Windows : Reshape(size))
          /\ ~(UNCHANGED vars)
      BY <1>3, <3>1
        DEF Release, Press, Drag, ViewRender, Edit, SlideMaterial, Cancel, SetTool, Reshape, vars, job
    <3>. QED BY <1>3, <3>1, <3>2 DEF Next
  <2>3. fb' = Pass(fb)
    BY <1>3, <2>2, DisplayStep
  <2>4. InColumns
    BY <1>3 DEF DosInv
  <2>. QED BY <1>3, <2>3, <2>4, PassElsewhere
<1>4. RInv /\ DosInv /\ [Next]_vars => [build = "dos" \/ InColumns => PassStaysIn]_vars
  BY <1>3 DEF PassStaysIn
<1>. QED
  BY <1>1, <1>2, <1>4, RInvHolds, PTL DEF Spec, PassStaysInside
-----------------------------------------------------------------------------
(* The frame buffer has the pixels of the window and of the running job.   *)

\* A job begins in a buffer that is large enough, and as long as that is not
\* made smaller it stays so.
FrameInv ==
  /\ win[1] * win[2] <= fbLen
  /\ rendering /\ ~shrunk => rb[1] * rb[2] <= fbLen

\* A buffer that is reallocated has the pixels of the new window; one that is
\* kept has those of the last window, which are no fewer.
LEMMA ReshapeFrame ==
  ASSUME RInv, FrameInv, NEW size \in Windows, Reshape(size)
  PROVE  FrameInv'
<1> DEFINE n == size[1] * size[2]
           o == win[1] * win[2]
           k == rb[1] * rb[2]
<1>1. size \in Sizes /\ win \in Sizes /\ fbLen \in Nat /\ (rendering => rb \in Sizes)
  BY DEF RInv, TypeOK, RowLength, Sizes
<1>2. n \in Nat /\ o \in Nat /\ (rendering => k \in Nat)
  BY <1>1, SizeType
<1>3. /\ win' = size /\ UNCHANGED <<rendering, rb>>
      /\ n > o => fbLen' = n /\ (~shrunk' => ~shrunk /\ ~(n < fbLen))
      /\ ~(n > o) => fbLen' = fbLen /\ (~shrunk' => ~shrunk)
  BY DEF Reshape
<1>4. o <= fbLen /\ (rendering /\ ~shrunk => k <= fbLen)
  BY DEF FrameInv
<1>5. win'[1] * win'[2] = n /\ rb'[1] * rb'[2] = k
  BY <1>3
<1> HIDE DEF n, o, k
<1>6. n <= fbLen'
  BY <1>1, <1>2, <1>3, <1>4
<1>7. rendering /\ ~shrunk' => k <= fbLen'
  BY <1>1, <1>2, <1>3, <1>4
<1>. QED
  BY <1>3, <1>5, <1>6, <1>7 DEF FrameInv

LEMMA NextFrame ==
  ASSUME RInv, FrameInv, [Next]_vars
  PROVE  FrameInv'
<1>1. CASE \E size \in Windows : Reshape(size)
  BY <1>1, ReshapeFrame
<1>2. CASE ~(\E size \in Windows : Reshape(size))
  <2>1. UNCHANGED <<win, fbLen>>
    BY <1>2 DEF Next, RenderAll, Press, Drag, Release, ViewRender, Edit, SlideMaterial,
                Cancel, SetTool, Display, vars
  <2>2. \/ Begin(Whole(win)) \/ Begin(Between(band.from, band.to))
        \/ UNCHANGED <<rb, shrunk>> /\ (rendering' => rendering)
    <3>1. CASE RenderAll
      BY <3>1 DEF RenderAll
    <3>2. CASE Release
      BY <3>2 DEF Release, job
    <3>3. CASE Display
      BY <3>3, DisplayStep
    <3>4. CASE \/ \E p \in Mouse : Press(p) \/ Drag(p)
               \/ ViewRender \/ Edit \/ SlideMaterial \/ Cancel
               \/ \E t \in {"area", "other"} : SetTool(t)
               \/ UNCHANGED vars
      BY <3>4 DEF Press, Drag, ViewRender, Edit, SlideMaterial, Cancel, SetTool, vars, job
    <3>. QED BY <1>2, <3>1, <3>2, <3>3, <3>4 DEF Next
  <2>3. CASE Begin(Whole(win)) \/ Begin(Between(band.from, band.to))
    BY <2>1, <2>3 DEF Begin, FrameInv
  <2>4. CASE UNCHANGED <<rb, shrunk>> /\ (rendering' => rendering)
    BY <2>1, <2>4, Zenon DEF FrameInv
  <2>. QED BY <2>2, <2>3, <2>4
<1>. QED
  BY <1>1, <1>2

\* Through any sequence of sizes the frame buffer has the pixels of the window,
\* and those of a job in the window it was started in as long as the buffer is
\* not made smaller under it (app.c:169 compares with the last window only).
THEOREM FrameIsLargeEnough == Spec => []FrameInBounds
<1>1. Init => FrameInv
  <2> SUFFICES ASSUME NEW size \in Sizes, InitAt(size) PROVE FrameInv
    BY DEF Init, Sizes
  <2>1. size[1] * size[2] \in Nat
    BY SizeType
  <2>. QED BY <2>1 DEF InitAt, FrameInv
<1>2. RInv /\ FrameInv /\ [Next]_vars => FrameInv'
  BY NextFrame
<1>3. ASSUME RInv, FrameInv PROVE FrameInBounds
  <2> SUFFICES ASSUME rendering, InColumns, rect.y >= 0, rect.y + rect.h <= rb[2], ~shrunk
               PROVE  (rect.y + rect.h - 1) * rb[1] + rect.x + rect.w <= fbLen
    BY <1>3 DEF FrameInBounds, FrameInv
  <2> DEFINE w == rb[1]
             h == rb[2]
             x == rect.x + rect.w
             y == rect.y + rect.h
  <2>1. w \in Nat /\ h \in Nat /\ fbLen \in Nat
    BY <1>3, SizeType DEF RInv, RowLength, TypeOK
  <2>2. rect \in Rects /\ rect.x >= 0 /\ x <= w /\ y <= h /\ w * h <= fbLen
    BY <1>3 DEF FrameInv, InColumns, RInv, TypeOK, Rects
  <2>3. x \in Nat /\ y \in Nat
    BY <2>2 DEF Rects
  <2>4. (rect.y + rect.h - 1) * rb[1] + rect.x + rect.w = (y - 1) * w + x
    <3>1. (y - 1) * w \in Int /\ rect.x \in Int /\ rect.w \in Int /\ rect.y \in Int /\ rect.h \in Int
      BY <2>1, <2>2, <2>3 DEF Rects
    <3>2. rect.y + rect.h - 1 = y - 1
      BY <3>1
    <3> DEFINE p == (y - 1) * w
    <3>3. (rect.y + rect.h - 1) * rb[1] = p
      BY <3>2
    <3> HIDE DEF p, y, w
    <3>. QED BY <3>1, <3>3 DEF p
  <2> HIDE DEF w, h, x, y
  <2>5. (y - 1) * w <= (h - 1) * w /\ (h - 1) * w = w * h - w /\ w * h \in Nat /\ (y - 1) * w \in Int
    BY <2>1, <2>2, <2>3
  <2>6. (y - 1) * w + x <= fbLen
    BY <2>1, <2>2, <2>3, <2>5
  <2>. QED BY <2>4, <2>6
<1>. QED
  BY <1>1, <1>2, <1>3, RInvHolds, PTL DEF Spec

-----------------------------------------------------------------------------
(* What is shown is the window, and the running job is a part of it.       *)

\* Numbers with a bound have a least one, or a greatest.
LEMMA MinOfIs ==
  ASSUME NEW S \in SUBSET Int, S # {}, NEW b \in Int, \A n \in S : b <= n
  PROVE  MinOf(S) \in S /\ \A n \in S : MinOf(S) <= n
<1> DEFINE T == {n - b : n \in S}
<1>1. \A n \in S : n - b \in Nat
  OBVIOUS
<1>2. T \in SUBSET Nat /\ T # {}
  BY <1>1
<1>3. PICK t \in T : \A k \in T : ~ (<<k, t>> \in OpToRel(<, Nat))
  <2> HIDE DEF T
  <2>. QED BY <1>2, NatLessThanWellFounded, WFMin
<1>4. PICK m \in S : t = m - b
  OBVIOUS
<1>5. ASSUME NEW n \in S PROVE m <= n
  <2>1. n - b \in T /\ t \in T /\ n - b \in Nat /\ m - b \in Nat
    BY <1>1
  <2>2. ~ (<<n - b, t>> \in {p \in Nat \X Nat : p[1] < p[2]})
    BY <1>3, <2>1 DEF OpToRel
  <2>3. ~(n - b < m - b)
    BY <1>4, <2>1, <2>2
  <2>. QED BY <2>3
<1>. QED
  BY <1>5, Zenon DEF MinOf

LEMMA MaxOfIs ==
  ASSUME NEW S \in SUBSET Int, S # {}, NEW b \in Int, \A n \in S : n <= b
  PROVE  MaxOf(S) \in S /\ \A n \in S : MaxOf(S) >= n
<1> DEFINE T == {-n : n \in S}
<1>1. T \in SUBSET Int /\ T # {} /\ -b \in Int /\ \A k \in T : -b <= k
  <2>1. \A n \in S : -n \in Int /\ -b <= -n
    OBVIOUS
  <2>2. T \in SUBSET Int /\ T # {}
    BY <2>1
  <2>3. \A k \in T : -b <= k
    BY <2>1
  <2>4. -b \in Int
    OBVIOUS
  <2> HIDE DEF T
  <2>. QED BY <2>2, <2>3, <2>4
<1>2. MinOf(T) \in T /\ \A k \in T : MinOf(T) <= k
  BY <1>1, MinOfIs
<1>3. PICK m \in S : MinOf(T) = -m
  BY <1>2
<1>4. ASSUME NEW n \in S PROVE m >= n
  <2>1. -m <= -n
    BY <1>2, <1>3
  <2>. QED BY <2>1
<1>. QED
  BY <1>4, Zenon DEF MaxOf

\* Rectangles as far out as the mouse goes.
Near(r, size) ==
  /\ r \in Rects /\ r.x >= -Reach /\ r.y >= -Reach
  /\ r.x + r.w <= Reach + size[1] /\ r.y + r.h <= Reach + size[2]

OverlayInv ==
  /\ band \in BandsIn(-Reach .. Reach, -Reach .. Reach)
  /\ \A r \in shown : Near(r, win)
  /\ jobs = 0 => ~rendering
  /\ rendering /\ shown # {} /\ png = "none" => rb = win /\ rect \in shown

LEMMA WholeIsNear ==
  ASSUME NEW size \in Sizes
  PROVE  Near(Whole(size), size)
<1>1. /\ Whole(size).x = 0 /\ Whole(size).w = size[1]
      /\ Whole(size).y = 0 /\ Whole(size).h = size[2]
  BY DEF Whole, Rect
<1>2. Reach \in Nat /\ size[1] \in Nat /\ size[2] \in Nat /\ Whole(size) \in Rects
  BY SizeType, WholeInWindow, RenderAssumption DEF InWindow
<1>. QED
  BY <1>1, <1>2 DEF Near

LEMMA BandIsNear ==
  ASSUME NEW size \in Sizes, band \in BandsIn(-Reach .. Reach, -Reach .. Reach), band # NoBand
  PROVE  Near(Between(band.from, band.to), size)
<1> DEFINE A == -Reach .. Reach
           r == Between(band.from, band.to)
<1>1. band.from \in A \X A /\ band.to \in A \X A
  BY DEF BandsIn
<1>2. Reach \in Nat /\ size[1] \in Nat /\ size[2] \in Nat
  BY SizeType, RenderAssumption
<1>3. A \in SUBSET Int
  BY <1>2
<1> HIDE DEF A
<1>4. /\ r \in Rects /\ r.x \in A /\ r.x + r.w \in A /\ r.y \in A /\ r.y + r.h \in A
  <2>1. /\ band.from \in Int \X Int /\ band.to \in Int \X Int
        /\ band.from[1] \in A /\ band.from[2] \in A /\ band.to[1] \in A /\ band.to[2] \in A
    BY <1>1, <1>3
  <2>. QED BY <2>1, BetweenType DEF Rects
<1> HIDE DEF r
<1>5. Near(r, size)
  BY <1>2, <1>4 DEF A, Near
<1>. QED
  BY <1>5 DEF r

LEMMA BeginOverlay ==
  ASSUME RInv, OverlayInv, NEW r, Near(r, win), Begin(r), UNCHANGED win,
         band' \in BandsIn(-Reach .. Reach, -Reach .. Reach),
         shown' = {r} \/ shown' = shown \cup {r}
  PROVE  OverlayInv'
<1>1. jobs \in Nat
  BY DEF RInv, TypeOK
<1>2. jobs' # 0 /\ rb' = win /\ rect' = r
  BY <1>1 DEF Begin
<1>3. \A q \in shown' : Near(q, win)
  BY DEF OverlayInv
<1>4. rect' \in shown'
  BY <1>2
<1>. QED
  BY <1>2, <1>3, <1>4, Zenon DEF OverlayInv

LEMMA NextOverlay ==
  ASSUME RInv, OverlayInv, [Next]_vars
  PROVE  OverlayInv'
<1> DEFINE B == BandsIn(-Reach .. Reach, -Reach .. Reach)
<1>1. win \in Sizes /\ band \in B
  BY DEF RInv, TypeOK, OverlayInv
<1>2. band' \in B
  <2>1. Mouse \subseteq (-Reach .. Reach) \X (-Reach .. Reach) /\ -Reach .. Reach \in SUBSET Int
    BY RenderAssumption DEF Mouse
  <2>2. CASE (\E p \in Mouse : Press(p) \/ Drag(p)) \/ Release
    BY <1>1, <2>1, <2>2, BandStays
  <2>3. CASE UNCHANGED band
    BY <1>1, <2>3
  <2>. QED BY <2>2, <2>3, BandKept
<1>3. CASE RenderAll
  BY <1>1, <1>2, <1>3, WholeIsNear, BeginOverlay DEF RenderAll
<1>4. CASE Release /\ ~UNCHANGED <<job, shown, fb>>
  <2> DEFINE r == Between(band.from, band.to)
  <2>1. band # NoBand /\ Begin(r) /\ shown' = shown \cup {r} /\ UNCHANGED win
    BY <1>4 DEF Release
  <2>2. Near(r, win)
    BY <1>1, <2>1, BandIsNear
  <2> HIDE DEF r
  <2>. QED BY <1>2, <2>1, <2>2, BeginOverlay
<1>5. CASE ViewRender
  <2>1. /\ shown' = {Whole(win)} /\ UNCHANGED <<win, rb, rect, rendering, jobs>>
        /\ jobs # 0 => png' # "none"
    <3>1. jobs \in Nat
      BY DEF RInv, TypeOK
    <3>2. jobs # 0 => jobs > 0
      BY <3>1
    <3>. QED BY <1>5, <3>1, <3>2 DEF ViewRender, job
  <2>2. Near(Whole(win), win)
    BY <1>1, WholeIsNear
  <2> HIDE DEF B
  <2>. QED BY <1>2, <2>1, <2>2, Zenon DEF OverlayInv, B
<1>6. CASE \/ \E p \in Mouse : Press(p) \/ Drag(p)
           \/ Release /\ UNCHANGED <<job, shown, fb>>
           \/ Edit \/ SlideMaterial \/ Cancel
           \/ \E t \in {"area", "other"} : SetTool(t)
           \/ \E size \in Windows : Reshape(size)
           \/ UNCHANGED vars
  <2>1. /\ UNCHANGED <<rb, rect, jobs, png>> /\ rendering' \in {rendering, FALSE}
        /\ shown' = {} \/ UNCHANGED <<win, shown>>
    BY <1>6 DEF Press, Drag, Release, Edit, SlideMaterial, Cancel, SetTool, Reshape,
                InvalVport, vars, job
  <2>2. rendering' => rendering
    BY <2>1
  <2>3. CASE shown' = {}
    BY <1>2, <2>1, <2>2, <2>3, Zenon DEF OverlayInv
  <2>4. CASE UNCHANGED <<win, shown>>
    BY <1>2, <2>1, <2>2, <2>4, Zenon DEF OverlayInv
  <2>. QED BY <2>1, <2>3, <2>4
<1>7. CASE Display
  <2>1. UNCHANGED <<win, rb, rect, jobs, png, shown>> /\ (rendering' => rendering)
    BY <1>7, DisplayStep
  <2>. QED BY <1>2, <2>1, Zenon DEF OverlayInv
<1>. QED
  BY <1>3, <1>4, <1>5, <1>6, <1>7 DEF Next

\* What is blended over the window, or shown in it, has rows as long as those of
\* the window, and the job in progress is a part of it: for any sizes of windows.
THEOREM OverlayStaysAligned == Spec => []OverlayAligned
<1>1. Init => OverlayInv
  BY DEF Init, InitAt, OverlayInv, BandsIn
<1>2. RInv /\ OverlayInv /\ [Next]_vars => OverlayInv'
  BY NextOverlay
<1>3. ASSUME RInv, OverlayInv PROVE OverlayAligned
  <2> SUFFICES ASSUME rendering, Total.w > 0, png = "none"
               PROVE  /\ rb = win
                      /\ rect.x >= Total.x /\ rect.x + rect.w <= Total.x + Total.w
                      /\ rect.y >= Total.y /\ rect.y + rect.h <= Total.y + Total.h
    BY DEF OverlayAligned
  <2>1. shown # {}
    <3>1. NoRect.w = 0
      BY DEF NoRect, Rect
    <3>. QED BY <3>1 DEF Total
  <2>2. rb = win /\ rect \in shown
    BY <1>3, <2>1 DEF OverlayInv
  <2>3. win[1] \in Nat /\ win[2] \in Nat /\ Reach \in Nat
        /\ -Reach \in Int /\ Reach + win[1] \in Int /\ Reach + win[2] \in Int
    BY <1>3, SizeType, RenderAssumption DEF RInv, TypeOK
  <2>4. \A r \in shown : /\ r.x \in Int /\ r.x + r.w \in Int /\ -Reach <= r.x
                         /\ r.y \in Int /\ r.y + r.h \in Int /\ -Reach <= r.y
                         /\ r.x + r.w <= Reach + win[1] /\ r.y + r.h <= Reach + win[2]
    <3>1. ASSUME NEW r \in shown PROVE r \in Rects /\ Near(r, win)
      BY <1>3 DEF OverlayInv, Near
    <3>2. ASSUME NEW r \in shown
          PROVE  r.x \in Int /\ r.x + r.w \in Int /\ r.y \in Int /\ r.y + r.h \in Int
      BY <3>1 DEF Rects
    <3>3. ASSUME NEW r \in shown
          PROVE  /\ -Reach <= r.x /\ -Reach <= r.y
                 /\ r.x + r.w <= Reach + win[1] /\ r.y + r.h <= Reach + win[2]
      <4>1. Near(r, win)
        BY <3>1
      <4>2. r.x \in Int /\ r.y \in Int
        BY <3>2
      <4>. QED BY <2>3, <4>1, <4>2 DEF Near
    <3>. QED BY <3>2, <3>3
  <2> DEFINE Lefts == {r.x : r \in shown}
             Tops == {r.y : r \in shown}
             Rights == {r.x + r.w : r \in shown}
             Bottoms == {r.y + r.h : r \in shown}
             x == MinOf(Lefts)
             y == MinOf(Tops)
             p == MaxOf(Rights)
             q == MaxOf(Bottoms)
  <2>5. x \in Int /\ x <= rect.x
    <3>1. Lefts \in SUBSET Int /\ Lefts # {} /\ rect.x \in Lefts /\ \A n \in Lefts : -Reach <= n
      BY <2>1, <2>2, <2>4
    <3> HIDE DEF Lefts
    <3>. QED BY <2>3, <3>1, MinOfIs
  <2>6. y \in Int /\ y <= rect.y
    <3>1. Tops \in SUBSET Int /\ Tops # {} /\ rect.y \in Tops /\ \A n \in Tops : -Reach <= n
      BY <2>1, <2>2, <2>4
    <3> HIDE DEF Tops
    <3>. QED BY <2>3, <3>1, MinOfIs
  <2>7. p \in Int /\ rect.x + rect.w <= p
    <3>1. Rights \in SUBSET Int /\ Rights # {} /\ rect.x + rect.w \in Rights /\ \A n \in Rights : n <= Reach + win[1]
      BY <2>1, <2>2, <2>4
    <3> HIDE DEF Rights
    <3>. QED BY <2>3, <3>1, MaxOfIs
  <2>8. q \in Int /\ rect.y + rect.h <= q
    <3>1. Bottoms \in SUBSET Int /\ Bottoms # {} /\ rect.y + rect.h \in Bottoms /\ \A n \in Bottoms : n <= Reach + win[2]
      BY <2>1, <2>2, <2>4
    <3> HIDE DEF Bottoms
    <3>. QED BY <2>3, <3>1, MaxOfIs
  <2>9. Total.x = x /\ Total.w = p - x /\ Total.y = y /\ Total.h = q - y
    BY <2>1 DEF Total, Rect
  <2> HIDE DEF x, y, p, q
  <2>10. Total.x + Total.w = p /\ Total.y + Total.h = q
    BY <2>5, <2>6, <2>7, <2>8, <2>9
  <2>. QED BY <2>2, <2>4, <2>5, <2>6, <2>7, <2>8, <2>9, <2>10
<1>. QED
  BY <1>1, <1>2, <1>3, RInvHolds, PTL DEF Spec
=============================================================================
