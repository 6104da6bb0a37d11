-------------------------------- MODULE Gaw ---------------------------------
(***************************************************************************)
(* How the software build collects primitives (gaw/gawswtnl.c): between    *)
(* gaw_begin and gaw_end vertices go through a buffer that is drawn when   *)
(* it is nearly full, and a compiled geometry keeps a copy of what was     *)
(* drawn while it was compiled.                                            *)
(*                                                                         *)
(* A vertex is a point and a color; normals and texture coordinates are    *)
(* handled as the color is.  What transformation, clipping and filling     *)
(* make of a primitive is the subject of Clip and Raster.                  *)
(***************************************************************************)
EXTENDS Integers, Sequences, FiniteSetsExt

CONSTANTS
  PrimKinds,   \* primitives, as their numbers of vertices (prim_vcount)
  Colors,
  VbufSize,    \* IMM_VBUF_SIZE
  MaxGiven,    \* bound on the vertices between gaw_begin and gaw_end
  MaxComp,     \* MAX_COMPILED
  Free         \* no geometry was compiled here

ASSUME GawAssumption ==
  /\ PrimKinds \subseteq 1 .. 4
  /\ VbufSize \in Nat /\ VbufSize > 4
  /\ MaxGiven \in Nat /\ MaxComp \in Nat

VARIABLES
  kind,        \* imm_prim
  vbuf,        \* imm_vbuf and imm_cbuf, imm_numv vertices
  pcount,      \* imm_pcount, vertices that the primitive lacks
  color,       \* imm_curcol
  comp,        \* the compiled geometries
  begun,       \* history: between gaw_begin and gaw_end
  given,       \* history: the vertices since gaw_begin
  seen         \* history: what was drawn since gaw_begin, or by the last mesh

immVars == <<kind, vbuf, pcount, begun, given>>
gawVars == <<immVars, color, comp, seen>>

-----------------------------------------------------------------------------
(* gaw_draw_indexed: primitives of k vertices; what is left over is not    *)
(* drawn, nor recorded.                                                    *)

Primitives(k, verts) ==
  [j \in 1 .. Len(verts) \div k |-> SubSeq(verts, (j - 1) * k + 1, j * k)]

Draws(k, verts) == seen' = seen \o Primitives(k, verts)

-----------------------------------------------------------------------------
(* Immediate mode.                                                         *)

SetColor(c) == color' = c /\ UNCHANGED <<immVars, comp, seen>>

Begin(k) ==
  /\ ~ begun
  /\ begun' = TRUE
  /\ kind' = k /\ pcount' = k /\ vbuf' = <<>>
  /\ given' = <<>> /\ seen' = <<>>
  /\ UNCHANGED <<color, comp>>

\* Mutant: the buffer is drawn whether the primitive is complete or not.
MustFlush_Anywhere(n, missing) == n >= VbufSize - kind

\* gaw_vertex4f draws the buffer after a primitive, when the next might not fit.
MustFlush(n, missing) == missing = 0 /\ n >= VbufSize - kind

\* The vertices are told apart by their number.
Vertex ==
  /\ begun /\ Len(given) < MaxGiven
  /\ LET v == <<Len(given) + 1, color>>
         b == Append(vbuf, v)
     IN /\ given' = Append(given, v)
        /\ IF MustFlush(Len(b), pcount - 1)
           THEN vbuf' = <<>> /\ Draws(kind, b)
           ELSE vbuf' = b /\ UNCHANGED seen
  /\ pcount' = IF pcount = 1 THEN kind ELSE pcount - 1
  /\ UNCHANGED <<kind, begun, color, comp>>

End ==
  /\ begun
  /\ begun' = FALSE
  /\ Draws(kind, vbuf)
  /\ vbuf' = <<>>
  /\ UNCHANGED <<kind, pcount, given, color, comp>>

-----------------------------------------------------------------------------
(* Compiled geometries; their numbers begin with 1, and 0 is none.         *)

\* gaw_compile_begin: the first that is free.
FreeSlot == Min({i \in 1 .. MaxComp : comp[i] = Free} \cup {MaxComp + 1}) % (MaxComp + 1)

\* What is drawn between gaw_compile_begin and gaw_compile_end.
Compiled(c, i, k, verts) == [c EXCEPT ![i] = Primitives(k, verts)]

FreeCompiled(c, i) == IF i = 0 THEN c ELSE [c EXCEPT ![i] = Free]

\* gaw_draw_compiled
OfCompiled(i) == IF comp[i] = Free THEN <<>> ELSE comp[i]

-----------------------------------------------------------------------------
GawInit ==
  /\ kind = 1 /\ pcount = 1 /\ vbuf = <<>>
  /\ color \in Colors
  /\ comp = [i \in 1 .. MaxComp |-> Free]
  /\ begun = FALSE /\ given = <<>> /\ seen = <<>>

GawNext ==
  \/ \E c \in Colors : SetColor(c)
  \/ \E k \in PrimKinds : Begin(k)
  \/ Vertex
  \/ End

GawSpec == GawInit /\ [][GawNext]_gawVars

-----------------------------------------------------------------------------
(* Properties.                                                             *)

\* Between gaw_begin and gaw_end the buffer has room for another vertex, and its
\* size is not to be noticed: what was drawn and what waits are the vertices that
\* were given, in their order and in the colors that they were given in.
BufferIsInvisible ==
  /\ Len(vbuf) < VbufSize
  /\ begun => seen \o Primitives(kind, vbuf) = Primitives(kind, given)
  /\ ~ begun /\ given # <<>> => seen = Primitives(kind, given)
=============================================================================
