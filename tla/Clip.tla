-------------------------------- MODULE Clip --------------------------------
(***************************************************************************)
(* What the software build clips away (clip_frustum of gaw/polyclip.c, and *)
(* its loop over the six planes in gaw_draw_indexed): the parts of lines   *)
(* and convex polygons outside of the view volume.                         *)
(*                                                                         *)
(* Coordinates are homogeneous, before the division by w; one attribute a  *)
(* stands for color, normal and texture coordinates, which are             *)
(* interpolated alike.  A vertex is scaled to integers, and `one` holds    *)
(* the scale, so that intersections are exact: what rounding of floats     *)
(* adds is not modelled.                                                   *)
(***************************************************************************)
EXTENDS Integers, Sequences, SequencesExt, FiniteSetsExt

CONSTANTS
  Lines,       \* primitives to draw, in clip space: of two vertices,
  Polygons,    \* and convex ones of three or four
  Weights,     \* of the ends and corners in the points where the result is looked at
  NoPrim

Field == {"x", "y", "z", "w", "a", "one"}

ClipSpace == {v \in [Field -> Int] : v["one"] > 0}

\* Which side of the plane through the eye, v and w the point u is on.
Side(v, w, u) ==
  v["x"] * (w["y"] * u["w"] - w["w"] * u["y"])
    + v["y"] * (w["w"] * u["x"] - w["x"] * u["w"])
    + v["w"] * (w["x"] * u["y"] - w["y"] * u["x"])

Turn3(q) == IF Side(q[1], q[2], q[3]) > 0 THEN 1 ELSE -1

Successor(q, i) == q[IF i = Len(q) THEN 1 ELSE i + 1]

\* The eye sees the point u in the convex polygon q.
Covers(q, turn, u) ==
  q # <<>> /\ \A i \in DOMAIN q : turn * Side(q[i], Successor(q, i), u) >= 0

\* The depth and the attribute of v are those of the polygon q at that place.
Interpolated(q, v) ==
  \A f \in {"z", "a", "one"} :
    v[f] * Side(q[1], q[2], q[3])
      = q[1][f] * Side(v, q[2], q[3]) + q[2][f] * Side(q[1], v, q[3]) + q[3][f] * Side(q[1], q[2], v)

\* A line has the attribute 0 where it begins and 1 where it ends; a polygon is
\* flat and convex.
ASSUME ClipAssumption ==
  /\ Weights \subseteq Nat \ {0}
  /\ \A q \in Lines \cup Polygons : q \in Seq(ClipSpace)
  /\ \A q \in Lines : /\ Len(q) = 2 /\ q[1]["one"] = 1 /\ q[2]["one"] = 1
                      /\ q[1]["a"] = 0 /\ q[2]["a"] = 1
  /\ \A q \in Polygons : /\ Len(q) \in {3, 4} /\ Side(q[1], q[2], q[3]) # 0
                         /\ \A i \in DOMAIN q : Covers(q, Turn3(q), q[i]) /\ Interpolated(q, q[i])

VARIABLES
  prim,        \* the primitive that is being drawn
  poly,        \* v and vnum: what is left of it
  plane        \* the next plane, from 0 to 6

clipVars == <<prim, poly, plane>>

-----------------------------------------------------------------------------
(* inside_frustum_plane and intersect_frustum.                             *)

\* How far inside of the plane a vertex lies: left, right, bottom, top, near
\* and far are 0 to 5.
Inside(v, p) ==
  LET c == v[<<"x", "y", "z">>[p \div 2 + 1]]
  IN  IF p % 2 = 0 THEN v["w"] + c ELSE v["w"] - c

\* The same place, in the smallest numbers.
Reduced(v) ==
  LET g == Max({d \in 1 .. v["one"] : \A f \in Field : v[f] % d = 0})
  IN  [f \in Field |-> v[f] \div g]

\* Mutant: the attributes are taken from the other end.
Meet_Swapped(v, w, p) ==
  LET d == Inside(v, p)  e == Inside(w, p)
      s == IF d >= 0 THEN 1 ELSE -1
  IN  Reduced([f \in Field |-> IF f = "a" THEN s * (v[f] * d - w[f] * e)
                                          ELSE s * (w[f] * d - v[f] * e)])

\* Where an edge with one end inside meets the plane: v + (w - v) d / (d - e),
\* times d - e, which has the sign of d unless d is zero.
Meet(v, w, p) ==
  LET d == Inside(v, p)  e == Inside(w, p)
      s == IF d >= 0 THEN 1 ELSE -1
  IN  Reduced([f \in Field |-> s * (w[f] * d - v[f] * e)])

-----------------------------------------------------------------------------
(* clip_edge_frustum and clip_frustum.                                     *)

\* What an edge adds to the polygon: its end, unless that is outside, after
\* the place where it comes in or goes out.
EdgeClipped(v, w, p) ==
  (IF (Inside(v, p) >= 0) # (Inside(w, p) >= 0) THEN <<Meet(v, w, p)>> ELSE <<>>)
    \o (IF Inside(w, p) >= 0 THEN <<w>> ELSE <<>>)

\* A point is never copied to the result, whichever side it is on.
ClipFrustum(q, p) ==
  CASE Len(q) = 1 -> <<>>
    [] Len(q) = 2 -> (IF Inside(q[1], p) >= 0 THEN <<q[1]>> ELSE <<>>) \o EdgeClipped(q[1], q[2], p)
    [] OTHER -> FlattenSeq([i \in DOMAIN q |-> EdgeClipped(q[i], Successor(q, i), p)])

-----------------------------------------------------------------------------
(* gaw_draw_indexed.                                                       *)

ClipInit == prim = NoPrim /\ poly = <<>> /\ plane = 0

Transformed(q) ==
  /\ prim = NoPrim
  /\ prim' = q /\ poly' = q /\ plane' = 0

\* A primitive that is outside of one plane is discarded.
ClipPlane ==
  /\ prim # NoPrim /\ plane < 6
  /\ poly' = ClipFrustum(poly, plane)
  /\ plane' = IF poly' = <<>> THEN 6 ELSE plane + 1
  /\ UNCHANGED prim

NextPrim ==
  /\ prim # NoPrim /\ plane = 6
  /\ prim' = NoPrim /\ poly' = <<>> /\ plane' = 0

ClipNext ==
  \/ \E q \in Lines \cup Polygons : Transformed(q)
  \/ ClipPlane
  \/ NextPrim

ClipSpec == ClipInit /\ [][ClipNext]_clipVars

-----------------------------------------------------------------------------
(* Properties.                                                             *)

InView(v, margin) == \A p \in 0 .. 5 : Inside(v, p) >= margin

\* The point of a line at v's attribute is v.
OnLine(q, v) ==
  \A f \in {"x", "y", "z", "w", "one"} : v[f] = q[1][f] * (v["one"] - v["a"]) + q[2][f] * v["a"]

\* The point m / (m + k) of a line lies between the ends of what is left of it.
Kept(r, m, k) ==
  r # <<>> /\ r[1]["a"] * (m + k) <= m * r[1]["one"]
           /\ m * r[2]["one"] <= r[2]["a"] * (m + k)

\* The mean of the vertices of q with the weights n.
Mean(q, n) ==
  LET part(i, f) == IF i \in DOMAIN q THEN n[i] * q[i][f] ELSE 0
  IN  [f \in Field |-> part(1, f) + part(2, f) + part(3, f) + part(4, f)]

\* After every plane the buffers of gaw_draw_indexed are large enough: v for 16
\* vertices, and tmpv for six times prim (gawswtnl.c:422, 434).
FitsBuffers == poly # <<>> => Len(poly) <= 16 /\ Len(poly) <= 6 * (Len(prim) - 1)

\* What is left of a primitive is what can be seen of it, all of it, and with the
\* depth and colors that it had there.
ClipsToView ==
  /\ FitsBuffers
  /\ plane = 6 => \A v \in Range(poly) : v["one"] > 0 /\ InView(v, 0)
  /\ plane = 6 /\ prim \in Polygons =>
       /\ \A v \in Range(poly) : Covers(prim, Turn3(prim), v) /\ Interpolated(prim, v)
       /\ \A n \in [DOMAIN prim -> Weights] :
            InView(Mean(prim, n), 1) => Covers(poly, Turn3(prim), Mean(prim, n))
  /\ plane = 6 /\ prim \in Lines =>
       /\ \A v \in Range(poly) : OnLine(prim, v)
       /\ \A m, k \in Weights \cup {0} :
            m + k > 0 /\ InView(Mean(prim, <<k, m>>), 0) => Kept(poly, m, k)
=============================================================================
