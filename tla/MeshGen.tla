------------------------------ MODULE MeshGen -------------------------------
(***************************************************************************)
(* The meshes of the primitives (meshgen.c): a grid of vertices, whose     *)
(* first and last columns coincide, and its triangles.                     *)
(*                                                                         *)
(* A vertex stands for its place, and two vertices at one place are told   *)
(* apart by their numbers only.  A place of a round shape is the column it *)
(* lies in, its distance from the axis and its height, in units which      *)
(* depend on the shape; the columns meet on the axis.  The shapes go all   *)
(* the way round (urange and vrange are 1), rounding of floats is left     *)
(* out, and so are the geosphere and the surfaces of a given function.     *)
(***************************************************************************)
EXTENDS Integers, FiniteSets, FiniteSetsExt

CONSTANT Subs     \* subdivisions that are asked for

ASSUME MeshGenAssumption == Subs \subseteq Nat

VARIABLES
  verts,     \* the attribute array, from 0
  tris,      \* the triangles of the index array
  numTri,    \* history: the triangles it was allocated for
  closed     \* history: what was made is to have no border

genVars == <<verts, tris, numTri, closed>>

-----------------------------------------------------------------------------
(* Grids.                                                                  *)

AtLeast(n, low) == Max({n, low})

Cells(us, vs) == (0 .. us - 1) \X (0 .. vs - 1)

\* The triangles of a cell of a grid that has vs + 1 vertices in a column and begins
\* with the vertex first; `step` is the distance of the numbers.  Which vertex of a
\* triangle comes first does not matter.
CellTriangles(c, vs, first, step) ==
  LET at(i, j) == first + ((c[1] + i) * (vs + 1) + c[2] + j) * step
  IN  {<<at(0, 0), at(1, 1), at(0, 1)>>, <<at(0, 0), at(1, 0), at(1, 1)>>}

Grid(us, vs, first, step) == UNION {CellTriangles(c, vs, first, step) : c \in Cells(us, vs)}

Reversed(ts) == {<<t[1], t[3], t[2]>> : t \in ts}

\* The place of a vertex of a round shape of us columns.
Round(us, i, r, y) == IF r = 0 THEN <<0, 0, y>> ELSE <<i % us, r, y>>

Made(v, t, n, full) == verts' = v /\ tris' = t /\ numTri' = n /\ closed' = full

-----------------------------------------------------------------------------
(* Shapes.                                                                 *)

GenSphere(usub, vsub) ==
  LET us == AtLeast(usub, 4)  vs == AtLeast(vsub, 2)
      pos(i, j) == Round(us, i, IF j \in {0, vs} THEN 0 ELSE 1, j)
  IN  Made([n \in 0 .. (us + 1) * (vs + 1) - 1 |-> pos(n \div (vs + 1), n % (vs + 1))],
           Reversed(Grid(us, vs, 0, 1)), 2 * us * vs, TRUE)

\* With two subdivisions the ring is flat, one side of it on the other.
GenTorus(usub, vsub) ==
  LET us == AtLeast(usub, 4)  vs == AtLeast(vsub, 2)
      pos(i, j) == Round(us, i, 1, j % vs)
  IN  Made([n \in 0 .. (us + 1) * (vs + 1) - 1 |-> pos(n \div (vs + 1), n % (vs + 1))],
           Reversed(Grid(us, vs, 0, 1)), 2 * us * vs, vs > 2)

CapVerts(capsub) == IF capsub = 0 THEN 0 ELSE capsub + 1

\* Mutant: the caps have one order of vertices.
CylinderCaps_Alike(us, capsub, body) ==
  Reversed(Grid(us, capsub, body, 2)) \cup Reversed(Grid(us, capsub, body + 1, 2))

\* The vertices of both caps alternate, the one above first.
CylinderCaps(us, capsub, body) ==
  Reversed(Grid(us, capsub, body, 2)) \cup Grid(us, capsub, body + 1, 2)

GenCylinder(usub, vsub, capsub) ==
  LET us == AtLeast(usub, 4)  vs == AtLeast(vsub, 1)
      body == (us + 1) * (vs + 1)
      cv == CapVerts(capsub)
      pos(n) ==
        IF n < body
        THEN Round(us, n \div (vs + 1), AtLeast(capsub, 1), n % (vs + 1))
        ELSE LET m == (n - body) \div 2
             IN  Round(us, m \div cv, m % cv, IF (n - body) % 2 = 0 THEN vs ELSE 0)
  IN  Made([n \in 0 .. body + 2 * (us + 1) * cv - 1 |-> pos(n)],
           Grid(us, vs, 0, 1) \cup CylinderCaps(us, capsub, body),
           2 * us * vs + 4 * us * capsub, capsub # 0)

GenCone(usub, vsub, capsub) ==
  LET us == AtLeast(usub, 4)  vs == AtLeast(vsub, 1)
      body == (us + 1) * (vs + 1)
      cv == CapVerts(capsub)
      pos(n) ==
        IF n < body
        THEN LET j == n % (vs + 1)
             IN  Round(us, n \div (vs + 1), (vs - j) * AtLeast(capsub, 1), j)
        ELSE Round(us, (n - body) \div cv, ((n - body) % cv) * vs, 0)
  IN  Made([n \in 0 .. body + (us + 1) * cv - 1 |-> pos(n)],
           Grid(us, vs, 0, 1) \cup Grid(us, capsub, body, 1),
           2 * us * vs + 2 * us * capsub, capsub # 0)

\* The sides of the box are rotations of the one in front, about the vertical axis
\* and about the one to the right.
Turned(f, p) ==
  CASE f = 0 -> p
    [] f = 1 -> <<p[3], p[2], -p[1]>>
    [] f = 2 -> <<-p[1], p[2], -p[3]>>
    [] f = 3 -> <<-p[3], p[2], p[1]>>
    [] f = 4 -> <<p[1], -p[3], p[2]>>
    [] f = 5 -> <<p[1], p[3], -p[2]>>

\* Six planes, one appended after the other.  Their edges match when they have as
\* many subdivisions in both directions.
GenBox(usub, vsub) ==
  LET us == AtLeast(usub, 1)  vs == AtLeast(vsub, 1)
      size == (us + 1) * (vs + 1)
      pos(i, j) == <<(2 * i - us) * vs, (2 * j - vs) * us, us * vs>>
  IN  Made([n \in 0 .. 6 * size - 1 |->
              Turned(n \div size, pos((n % size) \div (vs + 1), n % (vs + 1)))],
           UNION {Grid(us, vs, f * size, 1) : f \in 0 .. 5}, 12 * us * vs, us = vs)

-----------------------------------------------------------------------------
GenInit == verts = <<>> /\ tris = {} /\ numTri = 0 /\ closed = FALSE

GenNext ==
  \E usub, vsub \in Subs :
    \/ GenSphere(usub, vsub)
    \/ GenTorus(usub, vsub)
    \/ GenBox(usub, vsub)
    \/ \E capsub \in Subs : GenCylinder(usub, vsub, capsub) \/ GenCone(usub, vsub, capsub)

GenSpec == GenInit /\ [][GenNext]_genVars

-----------------------------------------------------------------------------
(* Properties.                                                             *)

Place(t) == <<verts[t[1]], verts[t[2]], verts[t[3]]>>

\* The triangles that have an area.
Faces == {t \in tris : Cardinality({verts[t[k]] : k \in 1 .. 3}) = 3}

EdgesOf(q) == {<<q[1], q[2]>>, <<q[2], q[3]>>, <<q[3], q[1]>>}

\* The indices fill their array and stay within the vertices; and where a shape
\* should be closed, it is, across seam, poles, rims and corners: every edge of a
\* triangle is the edge of exactly one other, which runs along it in the opposite
\* direction, so that all triangles face the same side.
SurfaceIsClosed ==
  /\ Cardinality(tris) = numTri
  /\ \A t \in tris : \A k \in 1 .. 3 : t[k] \in DOMAIN verts
  /\ closed =>
       LET edges == UNION {EdgesOf(Place(t)) : t \in Faces}
       IN  /\ Cardinality(edges) = 3 * Cardinality(Faces)
           /\ edges = {<<e[2], e[1]>> : e \in edges}
=============================================================================
