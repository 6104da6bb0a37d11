-------------------------------- MODULE CMesh -------------------------------
(***************************************************************************)
(* Meshes and the geometries compiled from them (cmesh.c, as it is built,  *)
(* with USE_DLIST and without USE_VBO): cmesh_draw compiles a mesh when it *)
(* is first drawn and from then on draws the compiled copy, so whatever    *)
(* changes the mesh has to throw the copy away.                            *)
(*                                                                         *)
(* The data of a mesh are the points of its triangles, in the order of its *)
(* indices if it has some.  What a function makes of them is left open.    *)
(* Submeshes, and the cached box and sphere, which nobody asks for, are    *)
(* left out.  A copy has the color in which it was compiled.               *)
(***************************************************************************)
EXTENDS Gaw

CONSTANTS
  Meshes,
  Data         \* contents of meshes, sequences of points; <<>> is one

Painted(d, c) == [i \in DOMAIN d |-> <<d[i], c>>]

ASSUME CMeshAssumption ==
  /\ <<>> \in Data
  /\ \A d \in Data : d \in Seq({d[i] : i \in DOMAIN d})
  /\ \A d \in Data, c \in Colors : Primitives(3, Painted(d, c)) # Free

VARIABLES
  data,        \* the contents
  dlist,       \* the compiled copy, or 0
  spoiled      \* history: a mesh was cleared that had a copy

meshVars == <<data, dlist, spoiled>>

PointsOf(prims) == [i \in DOMAIN prims |-> [j \in DOMAIN prims[i] |-> prims[i][j][1]]]
Colored(d) == Painted(d, color)

-----------------------------------------------------------------------------
\* Mutant: the data change and the copy stays.
Changed_KeepsCopy(m, d) ==
  /\ data' = [data EXCEPT ![m] = d]
  /\ UNCHANGED <<comp, dlist, spoiled>>

\* The end of every function that changes attributes or indices.
Changed(m, d) ==
  /\ data' = [data EXCEPT ![m] = d]
  /\ comp' = FreeCompiled(comp, dlist[m])
  /\ dlist' = [dlist EXCEPT ![m] = 0]
  /\ UNCHANGED spoiled

\* cmesh_set_attrib, cmesh_push_attrib, cmesh_set_index, cmesh_push_index, and all
\* that write through cmesh_attrib and cmesh_index: cmesh_vertex, cmesh_flip,
\* cmesh_apply_xform.
Modify(m) ==
  /\ \E d \in Data \ {<<>>} : Changed(m, d)
  /\ UNCHANGED <<immVars, color, seen>>

\* cmesh_explode writes the same triangles without sharing.
Explode(m) ==
  /\ data[m] # <<>>
  /\ Changed(m, data[m])
  /\ UNCHANGED <<immVars, color, seen>>

\* cmesh_free; the next mesh that is allocated takes its place.
FreeMesh(m) ==
  /\ Changed(m, <<>>)
  /\ UNCHANGED <<immVars, color, seen>>

\* cmesh_append to a mesh that is not empty asks for its attributes first.
AppendMesh(m, src) ==
  /\ m # src /\ data[m] # <<>> /\ data[m] \o data[src] \in Data
  /\ Changed(m, data[m] \o data[src])
  /\ UNCHANGED <<immVars, color, seen>>

\* cmesh_clear frees the copy and keeps its number.
ClearMesh(m) ==
  /\ data' = [data EXCEPT ![m] = <<>>]
  /\ comp' = FreeCompiled(comp, dlist[m])
  /\ spoiled' = (spoiled \/ dlist[m] # 0)
  /\ UNCHANGED <<dlist, immVars, color, seen>>

\* cmesh_clone, also by an append to an empty mesh: clears the one, and asks for
\* the attributes of the other, which costs it its copy.
CloneMesh(m, src) ==
  /\ m # src
  /\ data' = [data EXCEPT ![m] = data[src]]
  /\ LET c == FreeCompiled(comp, dlist[m])
         asked == data[src] # <<>>
     IN /\ comp' = IF asked THEN FreeCompiled(c, dlist[src]) ELSE c
        /\ dlist' = IF asked THEN [dlist EXCEPT ![src] = 0] ELSE dlist
  /\ spoiled' = (spoiled \/ dlist[m] # 0)
  /\ UNCHANGED <<immVars, color, seen>>

\* What cmesh_draw shows: the copy, or else the mesh, which is compiled first.  When
\* nothing is free to compile into, the mesh is drawn for that as well.
MeshPicture(m) ==
  LET now == Primitives(3, Colored(data[m]))
  IN  IF dlist[m] # 0 THEN OfCompiled(dlist[m])
      ELSE IF FreeSlot # 0 THEN now
      ELSE now \o now

DrawMesh(m) ==
  /\ seen' = MeshPicture(m)
  /\ IF dlist[m] = 0 /\ FreeSlot # 0
     THEN /\ comp' = Compiled(comp, FreeSlot, 3, Colored(data[m]))
          /\ dlist' = [dlist EXCEPT ![m] = FreeSlot]
     ELSE UNCHANGED <<comp, dlist>>
  /\ UNCHANGED <<immVars, color, data, spoiled>>

-----------------------------------------------------------------------------
MeshInit ==
  /\ data = [m \in Meshes |-> <<>>] /\ dlist = [m \in Meshes |-> 0]
  /\ spoiled = FALSE

MeshNext ==
  \/ \E c \in Colors : SetColor(c) /\ UNCHANGED meshVars
  \/ \E m \in Meshes : Modify(m) \/ Explode(m) \/ FreeMesh(m) \/ ClearMesh(m) \/ DrawMesh(m)
  \/ \E m, src \in Meshes : AppendMesh(m, src) \/ CloneMesh(m, src)

MeshSpec == GawInit /\ MeshInit /\ [][MeshNext]_<<gawVars, meshVars>>

-----------------------------------------------------------------------------
(* Properties.                                                             *)

\* Whenever it is drawn, a mesh is drawn as it is now, however many meshes share
\* the compiled geometries and whatever was done to them since they were compiled;
\* until a mesh is cleared that had a copy, whose number it keeps (cmesh.c:213).
DrawsTheMesh ==
  ~ spoiled =>
    \A m \in Meshes :
      LET prims == PointsOf(Primitives(3, Colored(data[m])))
      IN  PointsOf(MeshPicture(m)) \in {prims, prims \o prims}
=============================================================================
