--------------------------- MODULE GeometryProofs ---------------------------
(***************************************************************************)
(* Proofs about what the scene and the software build are made of:         *)
(* dynamic arrays (DArray), the vertex buffer of immediate mode (Gaw), the *)
(* meshes with their compiled copies (CMesh) and the shapes (MeshGen), for *)
(* any items, vertices, meshes, sizes and subdivisions.                    *)
(*                                                                         *)
(* An array: a push stores below the capacity it has grown to, and a pop   *)
(* that shrinks the buffer leaves room for what remains. The vertex        *)
(* buffer: what was drawn is a whole number of primitives, so where the    *)
(* vertices are cut cannot be seen. Meshes: a copy was compiled from what  *)
(* its mesh is now, and belongs to no other mesh.  Shapes: every triangle  *)
(* is named by its cell and its half, its corners are neighbours on a      *)
(* spindle, a ring or a box, and those surfaces are closed.                *)
(***************************************************************************)
EXTENDS DArray, CMesh, MeshGen, SequenceTheorems, FunctionTheorems,
        FiniteSetTheorems, WellFoundedInduction, TLAPS

-----------------------------------------------------------------------------
(* Dynamic arrays.                                                         *)

\* The capacity in which a push stores has room for one more item (darray.c:93).
LEMMA GrowthMakesRoom ==
  ASSUME ArrTypeOK, HoldsItems
  PROVE  Grown \in Nat /\ nelem < Grown /\ maxElem <= Grown
  BY SMT DEF ArrTypeOK, HoldsItems, Grown

\* The capacity after a pop has room for the items that remain: where a third
\* is occupied, a half is enough (darray.c:117).
LEMMA ShrinkingKeepsRoom ==
  ASSUME ArrTypeOK, HoldsItems, nelem > 0
  PROVE  Shrunk \in Nat /\ nelem - 1 <= Shrunk /\ Shrunk <= maxElem
  BY SMT DEF ArrTypeOK, HoldsItems, Shrunk

\* Resizing keeps the types of the buffer.
LEMMA ResizedType ==
  ASSUME ArrTypeOK, NEW n \in Nat
  PROVE  Resized(n) \in [0 .. n - 1 -> Items \cup {Rubbish}]
  BY SMT DEF ArrTypeOK, Resized

LEMMA ArrInitInv == ArrInit => ArrTypeOK /\ HoldsItems
  BY SMT DEF ArrInit, ArrTypeOK, HoldsItems

LEMMA PushKeeps ==
  ASSUME ArrTypeOK, HoldsItems, NEW x \in Items, Push(x)
  PROVE  ArrTypeOK' /\ HoldsItems'
<1>1. Grown \in Nat /\ nelem < Grown /\ maxElem <= Grown
  BY GrowthMakesRoom
<1>2. Resized(Grown) \in [0 .. Grown - 1 -> Items \cup {Rubbish}]
  BY <1>1, ResizedType
<1>3. mem' \in [0 .. Grown - 1 -> Items \cup {Rubbish}]
  BY <1>1, <1>2 DEF Push
<1>4. ArrTypeOK'
  BY <1>1, <1>3 DEF ArrTypeOK, Push
<1>5. ASSUME NEW i \in 0 .. nelem' - 1
      PROVE  mem'[i] = items'[i + 1]
  <2>1. CASE i = nelem
    BY <2>1, <1>1, <1>2 DEF Push, ArrTypeOK, HoldsItems
  <2>2. CASE i # nelem
    <3>1. i \in 0 .. nelem - 1 /\ i \in 0 .. Grown - 1 /\ i < maxElem
      BY <2>2, <1>1 DEF Push, ArrTypeOK, HoldsItems
    <3>2. mem'[i] = mem[i]
      BY <3>1, <2>2, <1>1, <1>2 DEF Push, Resized, ArrTypeOK
    <3>3. items'[i + 1] = items[i + 1]
      BY <3>1 DEF Push, ArrTypeOK, HoldsItems
    <3> QED BY <3>1, <3>2, <3>3 DEF HoldsItems
  <2> QED BY <2>1, <2>2
<1> QED BY <1>1, <1>4, <1>5 DEF HoldsItems, Push, ArrTypeOK

LEMMA PopKeeps ==
  ASSUME ArrTypeOK, HoldsItems, Pop
  PROVE  ArrTypeOK' /\ HoldsItems'
<1>1. Shrunk \in Nat /\ nelem - 1 <= Shrunk /\ Shrunk <= maxElem
  BY ShrinkingKeepsRoom DEF Pop
<1>2. mem' \in [0 .. Shrunk - 1 -> Items \cup {Rubbish}]
  BY <1>1, ResizedType DEF Pop
<1>3. items' \in Seq(Items) /\ Len(items') = nelem - 1
      /\ \A k \in 1 .. nelem - 1 : items'[k] = items[k]
  BY DEF Pop, ArrTypeOK, HoldsItems
<1>4. ArrTypeOK'
  BY <1>1, <1>2, <1>3 DEF ArrTypeOK, Pop
<1>5. ASSUME NEW i \in 0 .. nelem' - 1
      PROVE  mem'[i] = items'[i + 1]
  <2>1. i \in 0 .. nelem - 1 /\ i \in 0 .. Shrunk - 1 /\ i < maxElem /\ i + 1 \in 1 .. nelem - 1
    BY <1>1 DEF Pop, ArrTypeOK, HoldsItems
  <2>2. mem'[i] = mem[i]
    BY <2>1, <1>1 DEF Pop, Resized
  <2> QED BY <2>1, <2>2, <1>3 DEF HoldsItems
<1> QED BY <1>1, <1>3, <1>4, <1>5 DEF HoldsItems, Pop, ArrTypeOK

LEMMA StoreKeeps ==
  ASSUME ArrTypeOK, HoldsItems, NEW i \in 0 .. nelem - 1, NEW x \in Items, Store(i, x)
  PROVE  ArrTypeOK' /\ HoldsItems'
<1>1. i \in 0 .. maxElem - 1 /\ i + 1 \in 1 .. Len(items)
  BY DEF ArrTypeOK, HoldsItems
<1>2. mem' \in [0 .. maxElem - 1 -> Items \cup {Rubbish}]
  BY <1>1 DEF Store, ArrTypeOK
<1>3. items' \in Seq(Items) /\ Len(items') = Len(items)
  BY <1>1 DEF Store, ArrTypeOK
<1>4. ASSUME NEW k \in 0 .. nelem' - 1
      PROVE  mem'[k] = items'[k + 1]
  BY <1>1 DEF Store, ArrTypeOK, HoldsItems
<1> QED BY <1>1, <1>2, <1>3, <1>4 DEF ArrTypeOK, HoldsItems, Store

\* A dynamic array keeps its types, stays within its capacity and holds what
\* was put there, after any pushes, pops, stores and clears (darray.c:93-150).
THEOREM ArrayHoldsItems == ArrSpec => [](ArrTypeOK /\ HoldsItems)
<1>1. ArrInit => ArrTypeOK /\ HoldsItems
  BY ArrInitInv
<1>2. ArrTypeOK /\ HoldsItems /\ [ArrNext]_arrVars => (ArrTypeOK /\ HoldsItems)'
  <2> SUFFICES ASSUME ArrTypeOK, HoldsItems, [ArrNext]_arrVars
               PROVE  ArrTypeOK' /\ HoldsItems'
    OBVIOUS
  <2>1. ASSUME NEW x \in Items, Push(x) PROVE ArrTypeOK' /\ HoldsItems'
    BY <2>1, PushKeeps
  <2>2. CASE Pop
    BY <2>2, PopKeeps
  <2>3. CASE Clear
    BY <2>3 DEF Clear, Resized, ArrTypeOK, HoldsItems
  <2>4. ASSUME NEW i \in 0 .. nelem - 1, NEW x \in Items, Store(i, x)
        PROVE  ArrTypeOK' /\ HoldsItems'
    BY <2>4, StoreKeeps
  <2>5. CASE UNCHANGED arrVars
    BY <2>5 DEF arrVars, ArrTypeOK, HoldsItems
  <2> QED BY <2>1, <2>2, <2>3, <2>4, <2>5 DEF ArrNext
<1> QED BY <1>1, <1>2, PTL DEF ArrSpec

-----------------------------------------------------------------------------
(* Primitives of k vertices.                                               *)

\* Groups of k elements.
LEMMA GroupsAre ==
  ASSUME NEW k \in 1 .. 4, NEW n \in Nat
  PROVE  /\ n \div k \in Nat
         /\ \A j \in 1 .. n \div k : (j - 1) * k + 1 \in Nat \ {0} /\ j * k \in Nat /\ j * k <= n
                                     /\ j * k = (j - 1) * k + k
<1>1. CASE k = 1
  BY <1>1, SMT
<1>2. CASE k = 2
  BY <1>2, SMT
<1>3. CASE k = 3
  BY <1>3, SMT
<1>4. CASE k = 4
  BY <1>4, SMT
<1> QED BY <1>1, <1>2, <1>3, <1>4

LEMMA FunctionIsSeq ==
  ASSUME NEW n \in Nat, NEW S, NEW f \in [1 .. n -> S]
  PROVE  f \in Seq(S) /\ Len(f) = n
  OBVIOUS

\* P is s in groups of k, without what is left over.
Grouped(V, k, s, P) ==
  /\ P \in Seq(Seq(V)) /\ Len(P) = Len(s) \div k /\ Len(s) \div k \in Nat
  /\ \A j \in 1 .. Len(s) \div k :
       /\ P[j] = SubSeq(s, (j - 1) * k + 1, j * k)
       /\ P[j] \in Seq(V) /\ Len(P[j]) = k
       /\ \A i \in 1 .. k : (j - 1) * k + i \in 1 .. Len(s) /\ P[j][i] = s[(j - 1) * k + i]

LEMMA PrimitivesAre ==
  ASSUME NEW V, NEW k \in 1 .. 4, NEW s \in Seq(V)
  PROVE  Grouped(V, k, s, Primitives(k, s))
<1> DEFINE n == Len(s) \div k
           P == Primitives(k, s)
<1>1. Len(s) \in Nat /\ n \in Nat
  BY GroupsAre, LenProperties
<1>2. P = [j \in 1 .. n |-> SubSeq(s, (j - 1) * k + 1, j * k)]
  BY DEF Primitives
<1>3. ASSUME NEW j \in 1 .. n
      PROVE  /\ SubSeq(s, (j - 1) * k + 1, j * k) \in Seq(V)
             /\ Len(SubSeq(s, (j - 1) * k + 1, j * k)) = k
             /\ \A i \in 1 .. k : /\ (j - 1) * k + i \in 1 .. Len(s)
                                  /\ SubSeq(s, (j - 1) * k + 1, j * k)[i] = s[(j - 1) * k + i]
  <2> DEFINE a == (j - 1) * k
             b == j * k
  <2>1. a + 1 \in Nat \ {0} /\ b \in Nat /\ b <= Len(s) /\ b = a + k
    BY <1>1, GroupsAre
  <2> HIDE DEF a, b
  <2>2. a \in Int
    <3>1. a = b - k
      BY <2>1, SMT DEF a, b
    <3> QED BY <2>1, <3>1, SMT
  <2>3. \A i \in (a + 1) .. b : s[i] \in V
    BY <1>1, <2>1, <2>2, ElementOfSeq, SMT
  <2>4. /\ SubSeq(s, a + 1, b) \in Seq(V)
        /\ Len(SubSeq(s, a + 1, b)) = IF a + 1 <= b THEN b - (a + 1) + 1 ELSE 0
        /\ \A i \in 1 .. b - (a + 1) + 1 : SubSeq(s, a + 1, b)[i] = s[(a + 1) + i - 1]
    <3>1. a + 1 \in Int /\ b \in Int
      BY <2>1, <2>2
    <3> QED BY <2>3, <3>1, SubSeqProperties
  <2>5. b - (a + 1) + 1 = k /\ a + 1 <= b
    BY <2>1, <2>2, SMT
  <2>6. \A i \in 1 .. k : (a + 1) + i - 1 = a + i /\ a + i \in 1 .. Len(s)
    BY <1>1, <2>1, <2>2, SMT
  <2>7. /\ SubSeq(s, a + 1, b) \in Seq(V) /\ Len(SubSeq(s, a + 1, b)) = k
        /\ \A i \in 1 .. k : a + i \in 1 .. Len(s) /\ SubSeq(s, a + 1, b)[i] = s[a + i]
    BY <2>4, <2>5, <2>6
  <2> QED BY <2>7 DEF a, b
<1> DEFINE W == Seq(V)
<1>4. P \in Seq(W) /\ Len(P) = n /\ \A j \in 1 .. n : P[j] = SubSeq(s, (j - 1) * k + 1, j * k)
  <2> HIDE DEF n
  <2>1. \A j \in 1 .. n : SubSeq(s, (j - 1) * k + 1, j * k) \in W
    BY <1>3
  <2> HIDE DEF P, W
  <2>2. P \in [1 .. n -> W]
    BY <1>2, <2>1
  <2>3. P \in Seq(W) /\ Len(P) = n
    BY <1>1, <2>2, FunctionIsSeq
  <2> QED BY <1>2, <2>3
<1> HIDE DEF n, P
<1>5. /\ P \in Seq(Seq(V)) /\ Len(P) = n /\ n \in Nat
      /\ \A j \in 1 .. n : /\ P[j] = SubSeq(s, (j - 1) * k + 1, j * k)
                           /\ P[j] \in Seq(V) /\ Len(P[j]) = k
                           /\ \A i \in 1 .. k : /\ (j - 1) * k + i \in 1 .. Len(s)
                                                /\ P[j][i] = s[(j - 1) * k + i]
  <2>1. P \in Seq(Seq(V)) /\ Len(P) = n /\ n \in Nat
    BY <1>1, <1>4
  <2> HIDE DEF W
  <2>2. \A j \in 1 .. n : P[j] = SubSeq(s, (j - 1) * k + 1, j * k)
    BY <1>4
  <2>3. ASSUME NEW j \in 1 .. n
        PROVE  /\ P[j] = SubSeq(s, (j - 1) * k + 1, j * k)
               /\ P[j] \in Seq(V) /\ Len(P[j]) = k
               /\ \A i \in 1 .. k : /\ (j - 1) * k + i \in 1 .. Len(s)
                                    /\ P[j][i] = s[(j - 1) * k + i]
    BY <1>3, <2>2
  <2> QED BY <2>1, <2>3, Zenon
<1> QED BY <1>5 DEF n, P, Grouped

\* Where the vertices are cut after a whole number of primitives cannot be noticed.
LEMMA PrimitivesOfConcat ==
  ASSUME NEW V, NEW k \in 1 .. 4, NEW s \in Seq(V), NEW t \in Seq(V), Len(s) % k = 0
  PROVE  Primitives(k, s \o t) = Primitives(k, s) \o Primitives(k, t)
<1> DEFINE u == s \o t
           m == Len(s) \div k
           n == Len(t) \div k
           P == Primitives(k, s)
           Q == Primitives(k, t)
           U == Primitives(k, u)
<1>1. /\ Len(s) \in Nat /\ Len(t) \in Nat
      /\ u \in Seq(V) /\ Len(u) = Len(s) + Len(t)
      /\ \A i \in 1 .. Len(s) + Len(t) : u[i] = IF i <= Len(s) THEN s[i] ELSE t[i - Len(s)]
  BY ConcatProperties, LenProperties
<1>2. m \in Nat /\ n \in Nat /\ Len(s) = m * k /\ Len(u) \div k = m + n
  <2> DEFINE a == Len(s)
             b == Len(t)
  <2>1. a \in Nat /\ b \in Nat /\ a % k = 0
    BY <1>1
  <2> HIDE DEF a, b
  <2>2. a \div k \in Nat /\ b \div k \in Nat /\ a = (a \div k) * k /\ (a + b) \div k = (a \div k) + (b \div k)
    <3>1. CASE k = 1
      BY <2>1, <3>1, SMT
    <3>2. CASE k = 2
      BY <2>1, <3>2, SMT
    <3>3. CASE k = 3
      BY <2>1, <3>3, SMT
    <3>4. CASE k = 4
      BY <2>1, <3>4, SMT
    <3> QED BY <3>1, <3>2, <3>3, <3>4
  <2> QED BY <1>1, <2>2 DEF a, b
<1>3. /\ P \in Seq(Seq(V)) /\ Len(P) = m
      /\ \A j \in 1 .. m : /\ P[j] \in Seq(V) /\ Len(P[j]) = k
                           /\ \A i \in 1 .. k : (j - 1) * k + i \in 1 .. Len(s) /\ P[j][i] = s[(j - 1) * k + i]
  <2>1. Grouped(V, k, s, P)
    BY PrimitivesAre
  <2> QED BY <2>1 DEF Grouped
<1>4. /\ Q \in Seq(Seq(V)) /\ Len(Q) = n
      /\ \A j \in 1 .. n : /\ Q[j] \in Seq(V) /\ Len(Q[j]) = k
                           /\ \A i \in 1 .. k : (j - 1) * k + i \in 1 .. Len(t) /\ Q[j][i] = t[(j - 1) * k + i]
  <2>1. Grouped(V, k, t, Q)
    BY PrimitivesAre
  <2> QED BY <2>1 DEF Grouped
<1>5. /\ U \in Seq(Seq(V)) /\ Len(U) = m + n
      /\ \A j \in 1 .. m + n : /\ U[j] \in Seq(V) /\ Len(U[j]) = k
                           /\ \A i \in 1 .. k : (j - 1) * k + i \in 1 .. Len(u) /\ U[j][i] = u[(j - 1) * k + i]
  <2> HIDE DEF u
  <2>1. Grouped(V, k, u, U)
    BY <1>1, PrimitivesAre
  <2> QED BY <1>2, <2>1, Zenon DEF Grouped
<1>6. /\ P \o Q \in Seq(Seq(V)) /\ Len(P \o Q) = m + n
      /\ \A j \in 1 .. m + n : (P \o Q)[j] = IF j <= m THEN P[j] ELSE Q[j - m]
  <2> DEFINE W == Seq(V)
  <2>1. P \in Seq(W) /\ Len(P) = m /\ Q \in Seq(W) /\ Len(Q) = n
    BY <1>3, <1>4
  <2> HIDE DEF P, Q, W
  <2>2. /\ P \o Q \in Seq(W) /\ Len(P \o Q) = Len(P) + Len(Q)
        /\ \A j \in 1 .. Len(P) + Len(Q) : (P \o Q)[j] = IF j <= Len(P) THEN P[j] ELSE Q[j - Len(P)]
    BY <2>1, ConcatProperties
  <2> QED BY <2>1, <2>2, Zenon DEF W
<1> HIDE DEF u, m, n, P, Q, U
<1>7. ASSUME NEW j \in 1 .. m + n
      PROVE  U[j] = (P \o Q)[j]
  <2>1. CASE j <= m
    <3>1. j \in 1 .. m
      BY <1>2, <2>1, SMT
    <3>2. \A i \in 1 .. k : U[j][i] = P[j][i]
      <4> SUFFICES ASSUME NEW i \in 1 .. k PROVE U[j][i] = P[j][i]
        OBVIOUS
      <4>1. (j - 1) * k + i \in 1 .. Len(s) /\ (j - 1) * k + i \in 1 .. Len(u)
        BY <1>3, <1>5, <3>1
      <4>2. u[(j - 1) * k + i] = s[(j - 1) * k + i]
        BY <1>1, <4>1
      <4> QED BY <1>3, <1>5, <3>1, <4>2
    <3>3. U[j] = P[j]
      BY <1>3, <1>5, <3>1, <3>2, SeqEqual
    <3> QED BY <1>6, <2>1, <3>3
  <2>2. CASE j > m
    <3>1. j - m \in 1 .. n
      BY <1>2, <2>2, SMT
    <3>2. \A i \in 1 .. k : U[j][i] = Q[j - m][i]
      <4> SUFFICES ASSUME NEW i \in 1 .. k PROVE U[j][i] = Q[j - m][i]
        OBVIOUS
      <4> DEFINE a == (j - 1) * k + i
                 b == ((j - m) - 1) * k + i
      <4>1. b \in 1 .. Len(t) /\ a \in 1 .. Len(u) /\ U[j][i] = u[a] /\ Q[j - m][i] = t[b]
        BY <1>4, <1>5, <3>1
      <4>2. a = b + Len(s)
        <5>1. j \in Int /\ m \in Int /\ k \in Int /\ i \in Int
          BY <1>2, SMT
        <5>2. (j - 1) * k = ((j - m) - 1) * k + m * k
          BY <5>1, SMT
        <5>3. (j - 1) * k \in Int /\ ((j - m) - 1) * k \in Int /\ m * k \in Int
          BY <5>1, SMT
        <5> QED BY <1>2, <5>1, <5>2, <5>3, SMT
      <4> HIDE DEF a, b
      <4>3. ~ (a <= Len(s)) /\ a - Len(s) = b /\ a \in 1 .. Len(s) + Len(t)
        BY <1>1, <4>1, <4>2, SMT
      <4> QED BY <1>1, <4>1, <4>3
    <3>3. U[j] = Q[j - m]
      <4> DEFINE a == U[j]
                 b == Q[j - m]
      <4>1. a \in Seq(V) /\ b \in Seq(V) /\ Len(a) = k /\ Len(b) = k /\ \A i \in 1 .. k : a[i] = b[i]
        BY <1>4, <1>5, <3>1, <3>2
      <4> HIDE DEF a, b
      <4>2. a = b
        BY <4>1, SeqEqual
      <4> QED BY <4>2 DEF a, b
    <3>4. ~ (j <= m)
      BY <1>2, <2>2, SMT
    <3> QED BY <1>6, <3>3, <3>4
  <2>3. j <= m \/ j > m
    BY <1>2, SMT
  <2> QED BY <2>1, <2>2, <2>3
<1>8. U = P \o Q
  <2> DEFINE W == Seq(V)
             R == P \o Q
  <2>1. U \in Seq(W) /\ R \in Seq(W) /\ Len(U) = m + n /\ Len(R) = m + n
        /\ \A j \in 1 .. m + n : U[j] = R[j]
    BY <1>5, <1>6, <1>7
  <2> HIDE DEF W, R
  <2>2. U = R
    BY <2>1, SeqEqual
  <2> QED BY <2>2 DEF R
<1> QED BY <1>8 DEF U, P, Q, u

-----------------------------------------------------------------------------
(* The buffer of gaw_begin and gaw_end.                                    *)

Verts == Int \X Colors

GawTypeOK ==
  /\ kind \in 1 .. 4 /\ pcount \in 1 .. kind /\ color \in Colors
  /\ vbuf \in Seq(Verts) /\ given \in Seq(Verts) /\ seen \in Seq(Seq(Verts))
  /\ begun \in BOOLEAN

\* The vertices before those that wait are drawn; what waits begins with a primitive,
\* and the rest of the last one fits.
BufInv ==
  /\ Len(vbuf) + pcount < VbufSize
  /\ begun => /\ (Len(vbuf) + pcount) % kind = 0
              /\ \E d \in Seq(Verts) :
                   given = d \o vbuf /\ Len(d) % kind = 0 /\ seen = Primitives(kind, d)
  /\ ~ begun /\ given # <<>> => seen = Primitives(kind, given)

LEMMA VbufIs == VbufSize \in Nat /\ VbufSize > 4 /\ PrimKinds \subseteq 1 .. 4
  BY GawAssumption, Zenon

\* Whole primitives, and one vertex more of the last one.
LEMMA WholePrimitives ==
  ASSUME NEW k \in 1 .. 4, NEW m \in Nat, NEW p \in 1 .. k, (m + p) % k = 0
  PROVE  /\ k % k = 0 /\ 0 % k = 0
         /\ p = 1 => (m + 1) % k = 0 /\ (m + 1 + k) % k = 0
         /\ p # 1 => (m + 1 + (p - 1)) % k = 0
         /\ \A n \in Nat : n % k = 0 /\ m % k = 0 => (n + m) % k = 0
<1>1. CASE k = 1
  BY <1>1, SMT
<1>2. CASE k = 2
  BY <1>2, SMT
<1>3. CASE k = 3
  BY <1>3, SMT
<1>4. CASE k = 4
  BY <1>4, SMT
<1> QED BY <1>1, <1>2, <1>3, <1>4

LEMMA NoPrimitives ==
  ASSUME NEW k \in 1 .. 4
  PROVE  Primitives(k, <<>>) = <<>>
<1> DEFINE P == Primitives(k, <<>>)
           W == Seq(Verts)
<1>1. <<>> \in Seq(Verts) /\ Len(<<>>) = 0
  BY EmptySeq
<1>2. Grouped(Verts, k, <<>>, P)
  BY <1>1, PrimitivesAre
<1>3. P \in Seq(W) /\ Len(P) = Len(<<>>) \div k
  BY <1>2 DEF Grouped
<1>4. 0 \div k = 0
  BY SMT
<1> HIDE DEF P, W
<1>5. P = <<>>
  BY <1>1, <1>3, <1>4, EmptySeq
<1> QED BY <1>5 DEF P

\* The same of the buffer and the vertices before it.
LEMMA DrawsOn ==
  ASSUME NEW k \in 1 .. 4, NEW d \in Seq(Verts), NEW b \in Seq(Verts), Len(d) % k = 0
  PROVE  Primitives(k, d \o b) = Primitives(k, d) \o Primitives(k, b)
<1> DEFINE V == Verts
<1>1. d \in Seq(V) /\ b \in Seq(V) /\ Len(d) % k = 0
  OBVIOUS
<1> HIDE DEF V
<1>2. Primitives(k, d \o b) = Primitives(k, d) \o Primitives(k, b)
  BY <1>1, PrimitivesOfConcat, Zenon
<1> QED BY <1>2

LEMMA GawInitInv == GawInit => GawTypeOK /\ BufInv
<1> SUFFICES ASSUME GawInit PROVE GawTypeOK /\ BufInv
  OBVIOUS
<1>1. <<>> \in Seq(Verts) /\ <<>> \in Seq(Seq(Verts)) /\ Len(<<>>) = 0
  BY EmptySeq
<1>2. /\ kind = 1 /\ pcount = 1 /\ vbuf = <<>> /\ color \in Colors
      /\ begun = FALSE /\ given = <<>> /\ seen = <<>>
  BY DEF GawInit
<1>3. 0 + 1 < VbufSize
  BY VbufIs, SMT
<1>4. 1 \in 1 .. 4 /\ 1 \in 1 .. 1
  OBVIOUS
<1>5. GawTypeOK
  BY <1>1, <1>2, <1>4, Zenon DEF GawTypeOK
<1> QED BY <1>1, <1>2, <1>3, <1>5, Zenon DEF BufInv

LEMMA BeginKeeps ==
  ASSUME GawTypeOK, BufInv, NEW k \in PrimKinds, Begin(k)
  PROVE  GawTypeOK' /\ BufInv'
<1>1. k \in 1 .. 4 /\ k \in Nat /\ k >= 1
  BY VbufIs
<1>2. <<>> \in Seq(Verts) /\ <<>> \in Seq(Seq(Verts)) /\ Len(<<>>) = 0 /\ <<>> \o <<>> = <<>>
  BY EmptySeq, ConcatEmptySeq
<1>3. /\ begun' = TRUE /\ kind' = k /\ pcount' = k /\ vbuf' = <<>> /\ given' = <<>> /\ seen' = <<>>
      /\ color' = color
  BY DEF Begin
<1>4. GawTypeOK'
  BY <1>1, <1>2, <1>3 DEF GawTypeOK
<1>5. Len(vbuf') + pcount' < VbufSize /\ (Len(vbuf') + pcount') % kind' = 0 /\ 0 % k = 0
  <2>1. 0 + k < VbufSize /\ (0 + k) % k = 0 /\ 0 % k = 0
    BY <1>1, VbufIs, SMT
  <2> QED BY <1>2, <1>3, <2>1
<1>6. given' = <<>> \o vbuf' /\ Len(<<>>) % kind' = 0 /\ seen' = Primitives(kind', <<>>)
  BY <1>1, <1>2, <1>3, <1>5, NoPrimitives
<1> QED BY <1>2, <1>3, <1>4, <1>5, <1>6 DEF BufInv

LEMMA VertexKeeps ==
  ASSUME GawTypeOK, BufInv, Vertex
  PROVE  GawTypeOK' /\ BufInv'
<1> DEFINE v == <<Len(given) + 1, color>>
           b == Append(vbuf, v)
           m == Len(vbuf)
           p == pcount
           k == kind
<1>1. /\ k \in 1 .. 4 /\ p \in 1 .. k /\ vbuf \in Seq(Verts) /\ given \in Seq(Verts)
      /\ color \in Colors /\ seen \in Seq(Seq(Verts)) /\ begun = TRUE
  BY DEF GawTypeOK, Vertex
<1>2. v \in Verts /\ m \in Nat
  BY <1>1, LenProperties DEF Verts
<1>3. /\ given' = Append(given, v)
      /\ IF p - 1 = 0 /\ Len(b) >= VbufSize - k
         THEN vbuf' = <<>> /\ seen' = seen \o Primitives(k, b)
         ELSE vbuf' = b /\ seen' = seen
      /\ pcount' = IF p = 1 THEN k ELSE p - 1
      /\ UNCHANGED <<kind, begun, color>>
  BY DEF Vertex, MustFlush, Draws
<1>4. PICK d \in Seq(Verts) : given = d \o vbuf /\ Len(d) % k = 0 /\ seen = Primitives(k, d)
  BY <1>1 DEF BufInv
<1>5. m + p < VbufSize /\ (m + p) % k = 0
  BY <1>1 DEF BufInv
<1> HIDE DEF v
<1>6. b \in Seq(Verts) /\ Len(b) = m + 1 /\ given' \in Seq(Verts) /\ given' = d \o b
  <2>1. /\ b \in Seq(Verts) /\ Len(b) = m + 1 /\ b = vbuf \o <<v>> /\ <<v>> \in Seq(Verts)
        /\ given' \in Seq(Verts) /\ given' = given \o <<v>>
    BY <1>1, <1>2, <1>3, AppendProperties, AppendIsConcat
  <2>2. (d \o vbuf) \o <<v>> = d \o (vbuf \o <<v>>)
    BY <1>1, <2>1, ConcatAssociative
  <2> QED BY <1>4, <2>1, <2>2
<1>7. Len(d) \in Nat
  BY LenProperties
<1> HIDE DEF b, m, p, k
<1>8. CASE p = 1 /\ Len(b) >= VbufSize - k
  <2>1. vbuf' = <<>> /\ seen' = seen \o Primitives(k, b) /\ pcount' = k /\ kind' = k /\ begun' = TRUE /\ color' = color
    BY <1>1, <1>3, <1>8 DEF k
  <2>2. <<>> \in Seq(Verts) /\ Len(<<>>) = 0
    BY EmptySeq
  <2>3. d \o b \in Seq(Verts) /\ Len(d \o b) = Len(d) + (m + 1) /\ (d \o b) \o <<>> = d \o b
    <3> DEFINE e == d \o b
    <3>1. e \in Seq(Verts) /\ Len(e) = Len(d) + Len(b)
      BY <1>6, ConcatProperties
    <3> HIDE DEF e
    <3>2. e \o <<>> = e
      BY <3>1, ConcatEmptySeq
    <3> QED BY <1>6, <3>1, <3>2 DEF e
  <2>4. (Len(d) + (m + 1)) % k = 0
    <3>1. m + 1 \in Nat /\ k \in 1 .. k /\ (m + 1) % k = 0 /\ ((m + 1) + k) % k = 0
      <4>1. m + 1 \in Nat /\ k \in 1 .. k /\ 1 \in 1 .. k
        BY <1>1, <1>2, SMT
      <4>2. (m + p) % k = 0 /\ p \in 1 .. k /\ m \in Nat /\ k \in 1 .. 4
        BY <1>1, <1>2, <1>5
      <4> QED BY <1>8, <4>1, <4>2, WholePrimitives
    <3> QED BY <1>1, <1>4, <1>7, <3>1, WholePrimitives
  <2>5. seen' = Primitives(k, d \o b)
    <3>1. Primitives(k, d \o b) = Primitives(k, d) \o Primitives(k, b)
      BY <1>1, <1>4, <1>6, DrawsOn
    <3> QED BY <1>4, <2>1, <3>1, Zenon
  <2>6. Grouped(Verts, k, d \o b, Primitives(k, d \o b))
    BY <1>1, <2>3, PrimitivesAre
  <2>7. GawTypeOK'
    BY <1>1, <1>6, <2>1, <2>2, <2>5, <2>6 DEF GawTypeOK, Grouped
  <2>8. 0 + k < VbufSize /\ (0 + k) % k = 0
    BY <1>1, VbufIs, SMT
  <2> QED BY <1>6, <2>1, <2>2, <2>3, <2>4, <2>5, <2>7, <2>8 DEF BufInv
<1>9. CASE ~ (p = 1 /\ Len(b) >= VbufSize - k)
  <2>1. vbuf' = b /\ seen' = seen /\ kind' = k /\ begun' = TRUE /\ color' = color
        /\ pcount' = IF p = 1 THEN k ELSE p - 1
    <3>1. p - 1 = 0 <=> p = 1
      BY <1>1, SMT
    <3> QED BY <1>1, <1>3, <1>9, <3>1 DEF k
  <2>2. Len(b) + pcount' < VbufSize /\ (Len(b) + pcount') % k = 0 /\ pcount' \in 1 .. k
    <3>1. CASE p = 1
      <4>1. ((m + 1) + k) % k = 0
        BY <1>1, <1>2, <1>5, <3>1, WholePrimitives
      <4>2. (m + 1) + k < VbufSize /\ k \in 1 .. k
        BY <1>1, <1>2, <1>6, <1>9, <3>1, VbufIs, SMT
      <4> QED BY <1>6, <2>1, <3>1, <4>1, <4>2
    <3>2. CASE p # 1
      <4>1. (m + 1) + (p - 1) = m + p /\ p - 1 \in 1 .. k
        BY <1>1, <1>2, <3>2, SMT
      <4> QED BY <1>5, <1>6, <2>1, <3>2, <4>1
    <3> QED BY <3>1, <3>2
  <2>3. GawTypeOK'
    BY <1>1, <1>6, <2>1, <2>2 DEF GawTypeOK
  <2> QED BY <1>4, <1>6, <2>1, <2>2, <2>3 DEF BufInv
<1> QED BY <1>8, <1>9

LEMMA EndKeeps ==
  ASSUME GawTypeOK, BufInv, End
  PROVE  GawTypeOK' /\ BufInv'
<1>1. /\ kind \in 1 .. 4 /\ pcount \in 1 .. kind /\ vbuf \in Seq(Verts) /\ given \in Seq(Verts)
      /\ begun = TRUE /\ color \in Colors
  BY DEF GawTypeOK, End
<1>2. /\ begun' = FALSE /\ seen' = seen \o Primitives(kind, vbuf) /\ vbuf' = <<>>
      /\ UNCHANGED <<kind, pcount, given, color>>
  BY DEF End, Draws
<1>3. PICK d \in Seq(Verts) : given = d \o vbuf /\ Len(d) % kind = 0 /\ seen = Primitives(kind, d)
  BY <1>1 DEF BufInv
<1>4. seen' = Primitives(kind, given)
  <2>1. Primitives(kind, d \o vbuf) = Primitives(kind, d) \o Primitives(kind, vbuf)
    BY <1>1, <1>3, DrawsOn
  <2> QED BY <1>2, <1>3, <2>1, Zenon
<1>5. Grouped(Verts, kind, given, Primitives(kind, given))
  BY <1>1, PrimitivesAre
<1>6. <<>> \in Seq(Verts) /\ Len(<<>>) = 0
  BY EmptySeq
<1>7. GawTypeOK'
  BY <1>1, <1>2, <1>4, <1>5, <1>6 DEF GawTypeOK, Grouped
<1>8. 0 + pcount < VbufSize
  BY <1>1, VbufIs, SMT
<1> QED BY <1>2, <1>4, <1>6, <1>7, <1>8 DEF BufInv

\* The size of the buffer is not to be noticed, whatever it is.
THEOREM BufferIsNotNoticed == GawSpec => []BufferIsInvisible
<1>1. ASSUME GawTypeOK, BufInv, [GawNext]_gawVars PROVE GawTypeOK' /\ BufInv'
  <2>1. CASE (\E c \in Colors : SetColor(c)) \/ UNCHANGED gawVars
    <3>1. UNCHANGED <<immVars, seen>> /\ color' \in Colors
      BY <1>1, <2>1 DEF SetColor, gawVars, GawTypeOK
    <3> QED BY <1>1, <3>1 DEF immVars, GawTypeOK, BufInv
  <2> QED BY <1>1, <2>1, BeginKeeps, VertexKeeps, EndKeeps DEF GawNext
<1>2. ASSUME GawTypeOK, BufInv PROVE BufferIsInvisible
  <2>1. kind \in 1 .. 4 /\ pcount \in 1 .. kind /\ vbuf \in Seq(Verts) /\ Len(vbuf) \in Nat
    BY <1>2, LenProperties DEF GawTypeOK
  <2>2. Len(vbuf) < VbufSize
    BY <1>2, <2>1, VbufIs, SMT DEF BufInv
  <2>3. ASSUME begun PROVE seen \o Primitives(kind, vbuf) = Primitives(kind, given)
    <3>1. PICK d \in Seq(Verts) : given = d \o vbuf /\ Len(d) % kind = 0 /\ seen = Primitives(kind, d)
      BY <1>2, <2>3 DEF BufInv
    <3>2. Primitives(kind, d \o vbuf) = Primitives(kind, d) \o Primitives(kind, vbuf)
      BY <2>1, <3>1, DrawsOn
    <3> QED BY <3>1, <3>2
  <2> QED BY <1>2, <2>2, <2>3 DEF BufferIsInvisible, BufInv
<1> QED BY <1>1, <1>2, GawInitInv, PTL DEF GawSpec

-----------------------------------------------------------------------------
(* Meshes and their copies.                                                *)

\* Numbers have a least one.
LEMMA LeastIs ==
  ASSUME NEW S \in SUBSET Nat, S # {}
  PROVE  Min(S) \in S
<1>1. PICK x \in S : \A y \in S : ~ (<<y, x>> \in OpToRel(<, Nat))
  BY NatLessThanWellFounded, WFMin
<1>2. \A y \in S : x =< y
  <2> TAKE y \in S
  <2>1. ~ (<<y, x>> \in {ss \in Nat \X Nat : ss[1] < ss[2]})
    BY <1>1 DEF OpToRel
  <2> QED BY <2>1
<1> QED BY <1>2, Zenon DEF Min

LEMMA RemainderIs ==
  ASSUME NEW n \in Nat, NEW x \in 1 .. n + 1
  PROVE  x % (n + 1) = IF x = n + 1 THEN 0 ELSE x
<1> DEFINE q == n + 1
<1>1. q \in Nat \ {0} /\ x \in 1 .. q
  OBVIOUS
<1> HIDE DEF q
<1>2. x % q = IF x = q THEN 0 ELSE x
  BY <1>1, SMT
<1> QED BY <1>2 DEF q

LEMMA SlotIsFree ==
  ASSUME MaxComp \in Nat
  PROVE  /\ FreeSlot \in 0 .. MaxComp
         /\ FreeSlot # 0 => comp[FreeSlot] = Free
<1> DEFINE S == {i \in 1 .. MaxComp : comp[i] = Free}
           T == S \cup {MaxComp + 1}
           x == Min(T)
<1>1. T \in SUBSET Nat /\ T # {}
  OBVIOUS
<1>2. x \in T
  BY <1>1, LeastIs
<1>3. FreeSlot = x % (MaxComp + 1)
  BY DEF FreeSlot
<1> HIDE DEF x
<1>4. x \in 1 .. MaxComp + 1 /\ (x # MaxComp + 1 => comp[x] = Free)
  BY <1>2
<1>5. FreeSlot = IF x = MaxComp + 1 THEN 0 ELSE x
  BY <1>3, <1>4, RemainderIs
<1> QED BY <1>4, <1>5

\* What can be compiled of a mesh.
Copies(d) == {Primitives(3, Painted(d, c)) : c \in Colors}

\* A mesh in any color has as many primitives, of the same points.
LEMMA PaintedIs ==
  ASSUME NEW d \in Data, NEW c \in Colors
  PROVE  LET S == {d[i] : i \in DOMAIN d}
         IN  /\ d \in Seq(S) /\ Len(d) \in Nat /\ DOMAIN d = 1 .. Len(d)
             /\ Painted(d, c) \in Seq(S \X Colors) /\ Len(Painted(d, c)) = Len(d)
             /\ \A i \in 1 .. Len(d) : Painted(d, c)[i] = <<d[i], c>>
<1> DEFINE S == {d[i] : i \in DOMAIN d}
           n == Len(d)
           V == S \X Colors
           f == Painted(d, c)
<1>1. d \in Seq(S)
  BY CMeshAssumption, Zenon
<1>2. n \in Nat /\ DOMAIN d = 1 .. n /\ \A i \in 1 .. n : d[i] \in S
  <2> HIDE DEF S
  <2> QED BY <1>1, LenProperties, ElementOfSeq
<1>3. f = [i \in 1 .. n |-> <<d[i], c>>]
  BY <1>2 DEF Painted
<1>4. \A i \in 1 .. n : <<d[i], c>> \in V
  BY <1>2
<1> HIDE DEF n, V, f
<1>5. f \in [1 .. n -> V]
  BY <1>3, <1>4
<1>6. f \in Seq(V) /\ Len(f) = n
  BY <1>2, <1>5, FunctionIsSeq
<1>7. \A i \in 1 .. n : f[i] = <<d[i], c>>
  BY <1>3
<1> QED BY <1>1, <1>2, <1>6, <1>7 DEF n, V, f

\* The points of what was compiled are those of the mesh, whatever the color.
LEMMA CopyHasThePoints ==
  ASSUME NEW d \in Data, NEW P \in Copies(d), NEW Q \in Copies(d)
  PROVE  PointsOf(P) = PointsOf(Q)
<1>1. PICK b \in Colors : P = Primitives(3, Painted(d, b))
  BY DEF Copies
<1>2. PICK c \in Colors : Q = Primitives(3, Painted(d, c))
  BY DEF Copies
<1> DEFINE n == Len(d)
           f == Painted(d, b)
           g == Painted(d, c)
           V == {d[i] : i \in DOMAIN d} \X Colors
           m == n \div 3
<1>3. /\ f \in Seq(V) /\ Len(f) = n /\ \A i \in 1 .. n : f[i] = <<d[i], b>>
      /\ g \in Seq(V) /\ Len(g) = n /\ \A i \in 1 .. n : g[i] = <<d[i], c>>
  BY PaintedIs
<1> HIDE DEF n, f, g, V
<1>4. Grouped(V, 3, f, P) /\ Grouped(V, 3, g, Q)
  <2>1. 3 \in 1 .. 4
    OBVIOUS
  <2>2. P = Primitives(3, f) /\ Q = Primitives(3, g)
    BY <1>1, <1>2 DEF f, g
  <2> QED BY <1>3, <2>1, <2>2, PrimitivesAre
<1>5. /\ DOMAIN P = 1 .. m /\ DOMAIN Q = 1 .. m
      /\ \A j \in 1 .. m : /\ DOMAIN P[j] = 1 .. 3 /\ DOMAIN Q[j] = 1 .. 3
                           /\ \A i \in 1 .. 3 : P[j][i][1] = Q[j][i][1]
  <2> DEFINE W == Seq(V)
  <2>1. P \in Seq(W) /\ Len(P) = m /\ Q \in Seq(W) /\ Len(Q) = m
    BY <1>3, <1>4 DEF Grouped
  <2>2. \A j \in 1 .. m :
          /\ P[j] \in Seq(V) /\ Len(P[j]) = 3 /\ Q[j] \in Seq(V) /\ Len(Q[j]) = 3
          /\ \A i \in 1 .. 3 : /\ (j - 1) * 3 + i \in 1 .. n
                               /\ P[j][i] = f[(j - 1) * 3 + i] /\ Q[j][i] = g[(j - 1) * 3 + i]
    BY <1>3, <1>4 DEF Grouped
  <2> HIDE DEF W, m
  <2>3. DOMAIN P = 1 .. m /\ DOMAIN Q = 1 .. m
    BY <2>1, LenProperties
  <2>4. ASSUME NEW j \in 1 .. m
        PROVE  DOMAIN P[j] = 1 .. 3 /\ DOMAIN Q[j] = 1 .. 3
    BY <2>2, LenProperties
  <2>5. ASSUME NEW j \in 1 .. m, NEW i \in 1 .. 3
        PROVE  P[j][i][1] = Q[j][i][1]
    <3> DEFINE x == (j - 1) * 3 + i
    <3>1. x \in 1 .. n /\ P[j][i] = f[x] /\ Q[j][i] = g[x]
      BY <2>2
    <3> HIDE DEF x
    <3>2. P[j][i] = <<d[x], b>> /\ Q[j][i] = <<d[x], c>>
      BY <1>3, <3>1
    <3> QED BY <3>2
  <2> QED BY <2>3, <2>4, <2>5
<1> HIDE DEF m
<1> QED BY <1>5, Zenon DEF PointsOf

\* A mesh may be drawn and compiled: its triangles twice.
LEMMA PointsOfBoth ==
  ASSUME NEW d \in Data, NEW P \in Copies(d)
  PROVE  PointsOf(P \o P) = PointsOf(P) \o PointsOf(P)
<1>1. PICK c \in Colors : P = Primitives(3, Painted(d, c))
  BY DEF Copies
<1> DEFINE V == {d[i] : i \in DOMAIN d} \X Colors
           W == Seq(V)
           n == Len(P)
           R == P \o P
           p == PointsOf(P)
           S == {p[i] : i \in 1 .. n}
<1>2. P \in Seq(W)
  <2>0. 3 \in 1 .. 4
    OBVIOUS
  <2>1. Painted(d, c) \in Seq(V)
    BY PaintedIs
  <2> HIDE DEF V
  <2>2. Grouped(V, 3, Painted(d, c), P)
    BY <1>1, <2>0, <2>1, PrimitivesAre
  <2> QED BY <2>2 DEF Grouped
<1> HIDE DEF W
<1>3. n \in Nat /\ DOMAIN P = 1 .. n
  BY <1>2, LenProperties
<1>4. /\ R \in Seq(W) /\ Len(R) = n + n /\ DOMAIN R = 1 .. n + n
      /\ \A i \in 1 .. n + n : R[i] = IF i <= n THEN P[i] ELSE P[i - n]
  <2>1. /\ R \in Seq(W) /\ Len(R) = n + n
        /\ \A i \in 1 .. n + n : R[i] = IF i <= n THEN P[i] ELSE P[i - n]
    BY <1>2, ConcatProperties
  <2> HIDE DEF R, n
  <2>2. DOMAIN R = 1 .. Len(R)
    BY <2>1, LenProperties
  <2> QED BY <2>1, <2>2
<1> HIDE DEF R, n
<1>5. p = [i \in 1 .. n |-> [j \in DOMAIN P[i] |-> P[i][j][1]]]
  BY <1>3 DEF PointsOf
<1>6. PointsOf(R) = [i \in 1 .. n + n |-> [j \in DOMAIN R[i] |-> R[i][j][1]]]
  BY <1>4 DEF PointsOf
<1>7. \A i \in 1 .. n + n : PointsOf(R)[i] = IF i <= n THEN p[i] ELSE p[i - n]
  <2> SUFFICES ASSUME NEW i \in 1 .. n + n
               PROVE  PointsOf(R)[i] = IF i <= n THEN p[i] ELSE p[i - n]
    OBVIOUS
  <2>1. PointsOf(R)[i] = [j \in DOMAIN R[i] |-> R[i][j][1]]
    BY <1>6, Zenon
  <2>2. CASE i <= n
    <3>1. i \in 1 .. n /\ R[i] = P[i]
      BY <1>3, <1>4, <2>2
    <3>2. p[i] = [j \in DOMAIN P[i] |-> P[i][j][1]]
      BY <1>5, <3>1, Zenon
    <3> QED BY <2>1, <2>2, <3>1, <3>2, Zenon
  <2>3. CASE ~ (i <= n)
    <3>1. i - n \in 1 .. n /\ R[i] = P[i - n]
      BY <1>3, <1>4, <2>3
    <3>2. p[i - n] = [j \in DOMAIN P[i - n] |-> P[i - n][j][1]]
      BY <1>5, <3>1, Zenon
    <3> QED BY <2>1, <2>3, <3>1, <3>2, Zenon
  <2> QED BY <2>2, <2>3
<1> HIDE DEF p
<1>8. p \in Seq(S) /\ Len(p) = n
  <2>1. p \in [1 .. n -> S]
    BY <1>5
  <2> HIDE DEF S
  <2> QED BY <1>3, <2>1, FunctionIsSeq
<1> HIDE DEF S
<1>9. /\ p \o p \in Seq(S) /\ Len(p \o p) = n + n
      /\ \A i \in 1 .. n + n : (p \o p)[i] = IF i <= n THEN p[i] ELSE p[i - n]
  BY <1>8, ConcatProperties
<1>10. \A i \in 1 .. n : p[i] \in S
  BY <1>8, ElementOfSeq
<1>11. PointsOf(R) \in Seq(S) /\ Len(PointsOf(R)) = n + n
  <2>1. PointsOf(R) \in [1 .. n + n -> S]
    <3>1. ASSUME NEW i \in 1 .. n + n PROVE PointsOf(R)[i] \in S
      BY <1>3, <1>7, <1>10
    <3> QED BY <1>6, <3>1
  <2>2. n + n \in Nat
    BY <1>3
  <2> QED BY <2>1, <2>2, FunctionIsSeq
<1>12. PointsOf(R) = p \o p
  <2> DEFINE a == PointsOf(R)
             b == p \o p
  <2>1. a \in Seq(S) /\ b \in Seq(S) /\ Len(a) = Len(b) /\ \A i \in 1 .. Len(a) : a[i] = b[i]
    BY <1>7, <1>9, <1>11
  <2> HIDE DEF a, b
  <2>2. a = b
    BY <2>1, SeqEqual
  <2> QED BY <2>2 DEF a, b
<1> QED BY <1>12 DEF R, p

AnyCopy == {Free} \cup UNION {Copies(d) : d \in Data}

MeshTypeOK ==
  /\ color \in Colors /\ spoiled \in BOOLEAN
  /\ data \in [Meshes -> Data] /\ dlist \in [Meshes -> 0 .. MaxComp]
  /\ comp \in [1 .. MaxComp -> AnyCopy]

\* Until one was spoiled, a copy is of what its mesh is now, and no two meshes have
\* the same.
CopyInv ==
  ~ spoiled =>
    \A m \in Meshes :
      dlist[m] # 0 => /\ comp[dlist[m]] \in Copies(data[m])
                      /\ \A n \in Meshes \ {m} : dlist[n] # dlist[m]

LEMMA CopyIsNotFree ==
  ASSUME NEW d \in Data
  PROVE  Free \notin Copies(d)
  BY CMeshAssumption, Zenon DEF Copies

LEMMA MeshCounts == MaxComp \in Nat /\ <<>> \in Data
  BY GawAssumption, CMeshAssumption, Zenon

LEMMA FreeCompiledIs ==
  ASSUME MeshTypeOK, NEW i \in 0 .. MaxComp
  PROVE  /\ FreeCompiled(comp, i) \in [1 .. MaxComp -> AnyCopy]
         /\ \A j \in 1 .. MaxComp : FreeCompiled(comp, i)[j] = IF j = i THEN Free ELSE comp[j]
  BY MeshCounts DEF FreeCompiled, MeshTypeOK, AnyCopy

LEMMA ChangedKeeps ==
  ASSUME MeshTypeOK, CopyInv, NEW m \in Meshes, NEW d \in Data, Changed(m, d), UNCHANGED color
  PROVE  MeshTypeOK' /\ CopyInv'
<1> DEFINE k == dlist[m]
<1>1. k \in 0 .. MaxComp
  BY DEF MeshTypeOK
<1>2. /\ data' = [data EXCEPT ![m] = d] /\ dlist' = [dlist EXCEPT ![m] = 0]
      /\ comp' = FreeCompiled(comp, k) /\ spoiled' = spoiled /\ color' = color
  BY DEF Changed
<1> HIDE DEF k
<1>3. /\ comp' \in [1 .. MaxComp -> AnyCopy]
      /\ \A j \in 1 .. MaxComp : comp'[j] = IF j = k THEN Free ELSE comp[j]
  BY <1>1, <1>2, FreeCompiledIs
<1>4. MeshTypeOK'
  BY <1>2, <1>3, MeshCounts DEF MeshTypeOK
<1>5. ASSUME ~ spoiled', NEW n \in Meshes, dlist'[n] # 0
      PROVE  /\ comp'[dlist'[n]] \in Copies(data'[n])
             /\ \A o \in Meshes \ {n} : dlist'[o] # dlist'[n]
  <2>1. n # m /\ dlist'[n] = dlist[n] /\ data'[n] = data[n] /\ ~ spoiled
    BY <1>2, <1>5 DEF MeshTypeOK
  <2>2. /\ comp[dlist[n]] \in Copies(data[n])
        /\ \A o \in Meshes \ {n} : dlist[o] # dlist[n]
    BY <1>5, <2>1 DEF CopyInv
  <2>3. dlist[n] \in 1 .. MaxComp /\ dlist[n] # k
    BY <1>5, <2>1, <2>2, MeshCounts DEF MeshTypeOK, k
  <2>4. comp'[dlist'[n]] = comp[dlist[n]]
    BY <1>3, <2>1, <2>3
  <2>5. ASSUME NEW o \in Meshes \ {n} PROVE dlist'[o] # dlist'[n]
    <3>1. dlist'[o] = IF o = m THEN 0 ELSE dlist[o]
      BY <1>2 DEF MeshTypeOK
    <3> QED BY <1>5, <2>1, <2>2, <3>1
  <2> QED BY <2>1, <2>2, <2>4, <2>5
<1> QED BY <1>4, <1>5 DEF CopyInv

LEMMA ClearKeeps ==
  ASSUME MeshTypeOK, CopyInv, NEW m \in Meshes, ClearMesh(m)
  PROVE  MeshTypeOK' /\ CopyInv'
<1> DEFINE k == dlist[m]
<1>1. k \in 0 .. MaxComp
  BY DEF MeshTypeOK
<1>2. /\ data' = [data EXCEPT ![m] = <<>>] /\ dlist' = dlist
      /\ comp' = FreeCompiled(comp, k) /\ spoiled' = (spoiled \/ k # 0) /\ color' = color
  BY DEF ClearMesh
<1> HIDE DEF k
<1>3. comp' \in [1 .. MaxComp -> AnyCopy]
  BY <1>1, <1>2, FreeCompiledIs
<1>4. MeshTypeOK'
  BY <1>2, <1>3, MeshCounts DEF MeshTypeOK
<1>5. ASSUME ~ spoiled', NEW n \in Meshes, dlist'[n] # 0
      PROVE  /\ comp'[dlist'[n]] \in Copies(data'[n])
             /\ \A o \in Meshes \ {n} : dlist'[o] # dlist'[n]
  <2>1. k = 0 /\ ~ spoiled
    BY <1>2, <1>5
  <2>2. comp' = comp /\ n # m
    BY <1>2, <1>5, <2>1 DEF FreeCompiled, k
  <2>3. data'[n] = data[n]
    BY <1>2, <2>2 DEF MeshTypeOK
  <2> QED BY <1>2, <1>5, <2>1, <2>2, <2>3 DEF CopyInv
<1> QED BY <1>4, <1>5 DEF CopyInv

LEMMA CloneKeeps ==
  ASSUME MeshTypeOK, CopyInv, NEW m \in Meshes, NEW src \in Meshes, CloneMesh(m, src)
  PROVE  MeshTypeOK' /\ CopyInv'
<1> DEFINE k == dlist[m]
           l == dlist[src]
           c == FreeCompiled(comp, k)
           asked == data[src] # <<>>
<1>1. k \in 0 .. MaxComp /\ l \in 0 .. MaxComp /\ data[src] \in Data
  BY DEF MeshTypeOK
<1>2. /\ m # src
      /\ data' = [data EXCEPT ![m] = data[src]]
      /\ comp' = IF asked THEN FreeCompiled(c, l) ELSE c
      /\ dlist' = IF asked THEN [dlist EXCEPT ![src] = 0] ELSE dlist
      /\ spoiled' = (spoiled \/ k # 0) /\ color' = color
  BY DEF CloneMesh
<1>3. c \in [1 .. MaxComp -> AnyCopy]
  BY <1>1, FreeCompiledIs
<1> HIDE DEF k, l, c, asked
<1>4. comp' \in [1 .. MaxComp -> AnyCopy]
  BY <1>1, <1>2, <1>3, MeshCounts DEF FreeCompiled, AnyCopy
<1>5. MeshTypeOK'
  BY <1>1, <1>2, <1>4, MeshCounts DEF MeshTypeOK
<1>6. ASSUME ~ spoiled', NEW n \in Meshes, dlist'[n] # 0
      PROVE  /\ comp'[dlist'[n]] \in Copies(data'[n])
             /\ \A o \in Meshes \ {n} : dlist'[o] # dlist'[n]
  <2>1. k = 0 /\ ~ spoiled /\ c = comp
    BY <1>2, <1>6 DEF FreeCompiled, c
  <2>2. /\ \A o \in Meshes : dlist'[o] = IF asked /\ o = src THEN 0 ELSE dlist[o]
        /\ n # m /\ data'[n] = data[n] /\ dlist'[n] = dlist[n]
    BY <1>2, <1>6, <2>1 DEF MeshTypeOK, k
  <2>3. /\ comp[dlist[n]] \in Copies(data[n])
        /\ \A o \in Meshes \ {n} : dlist[o] # dlist[n]
    BY <1>6, <2>1, <2>2 DEF CopyInv
  <2>4. comp'[dlist'[n]] = comp[dlist[n]]
    <3>1. CASE asked
      <4>1. n # src /\ dlist[n] # l /\ dlist[n] \in 1 .. MaxComp
        BY <1>6, <2>2, <2>3, <3>1, MeshCounts DEF MeshTypeOK, l
      <4>2. FreeCompiled(comp, l)[dlist[n]] = comp[dlist[n]]
        BY <1>1, <4>1, FreeCompiledIs
      <4> QED BY <1>2, <2>1, <2>2, <3>1, <4>2
    <3>2. CASE ~ asked
      BY <1>2, <2>1, <2>2, <3>2
    <3> QED BY <3>1, <3>2
  <2>5. ASSUME NEW o \in Meshes \ {n} PROVE dlist'[o] # dlist'[n]
    BY <1>6, <2>2, <2>3
  <2> QED BY <2>2, <2>3, <2>4, <2>5
<1> QED BY <1>5, <1>6 DEF CopyInv

LEMMA DrawKeeps ==
  ASSUME MeshTypeOK, CopyInv, NEW m \in Meshes, DrawMesh(m)
  PROVE  MeshTypeOK' /\ CopyInv'
<1> DEFINE k == FreeSlot
           P == Primitives(3, Colored(data[m]))
<1>1. k \in 0 .. MaxComp /\ (k # 0 => comp[k] = Free)
  BY MeshCounts, SlotIsFree
<1>2. data' = data /\ spoiled' = spoiled /\ color' = color
  BY DEF DrawMesh
<1>3. data[m] \in Data /\ P \in Copies(data[m])
  BY DEF MeshTypeOK, Copies, Colored
<1>4. /\ dlist[m] = 0 /\ k # 0 => comp' = [comp EXCEPT ![k] = P] /\ dlist' = [dlist EXCEPT ![m] = k]
      /\ ~ (dlist[m] = 0 /\ k # 0) => comp' = comp /\ dlist' = dlist
  BY DEF DrawMesh, Compiled
<1> HIDE DEF k, P
<1>5. CASE ~ (dlist[m] = 0 /\ k # 0)
  BY <1>2, <1>4, <1>5 DEF MeshTypeOK, CopyInv
<1>6. CASE dlist[m] = 0 /\ k # 0
  <2>1. k \in 1 .. MaxComp /\ P \in AnyCopy
    BY <1>1, <1>3, <1>6, MeshCounts DEF AnyCopy
  <2>2. /\ \A j \in 1 .. MaxComp : comp'[j] = IF j = k THEN P ELSE comp[j]
        /\ \A n \in Meshes : dlist'[n] = IF n = m THEN k ELSE dlist[n]
    BY <1>4, <1>6 DEF MeshTypeOK
  <2>3. MeshTypeOK'
    BY <1>1, <1>2, <1>4, <1>6, <2>1 DEF MeshTypeOK
  <2>4. ASSUME ~ spoiled, NEW n \in Meshes, n # m PROVE dlist[n] # k
    <3>1. CASE dlist[n] # 0
      <4>1. comp[dlist[n]] \in Copies(data[n]) /\ data[n] \in Data
        BY <2>4, <3>1 DEF CopyInv, MeshTypeOK
      <4> QED BY <1>1, <1>6, <4>1, CopyIsNotFree
    <3>2. CASE dlist[n] = 0
      BY <1>6, <3>2
    <3> QED BY <3>1, <3>2
  <2>5. ASSUME ~ spoiled', NEW n \in Meshes, dlist'[n] # 0
        PROVE  /\ comp'[dlist'[n]] \in Copies(data'[n])
               /\ \A o \in Meshes \ {n} : dlist'[o] # dlist'[n]
    <3>1. ~ spoiled
      BY <1>2, <2>5
    <3>2. CASE n = m
      BY <1>2, <1>3, <2>1, <2>2, <2>4, <3>1, <3>2
    <3>3. CASE n # m
      <4>1. dlist'[n] = dlist[n] /\ dlist[n] # k /\ dlist[n] \in 1 .. MaxComp
        BY <2>2, <2>4, <2>5, <3>1, <3>3, MeshCounts DEF MeshTypeOK
      <4>2. /\ comp[dlist[n]] \in Copies(data[n])
            /\ \A o \in Meshes \ {n} : dlist[o] # dlist[n]
        BY <2>5, <3>1, <4>1 DEF CopyInv
      <4> QED BY <1>2, <2>2, <4>1, <4>2
    <3> QED BY <3>2, <3>3
  <2> QED BY <2>3, <2>5 DEF CopyInv
<1> QED BY <1>5, <1>6

LEMMA MeshStepKeeps ==
  ASSUME MeshTypeOK, CopyInv, [MeshNext]_<<gawVars, meshVars>>
  PROVE  MeshTypeOK' /\ CopyInv'
<1>1. ASSUME NEW c \in Colors, SetColor(c), UNCHANGED meshVars PROVE MeshTypeOK' /\ CopyInv'
  BY <1>1 DEF SetColor, meshVars, MeshTypeOK, CopyInv
<1>2. ASSUME NEW m \in Meshes, NEW d \in Data, Changed(m, d), UNCHANGED color
      PROVE  MeshTypeOK' /\ CopyInv'
  BY <1>2, ChangedKeeps
<1>3. ASSUME NEW m \in Meshes, Modify(m) \/ Explode(m) \/ FreeMesh(m)
      PROVE  MeshTypeOK' /\ CopyInv'
  <2>1. \E d \in Data : Changed(m, d)
    BY <1>3, MeshCounts DEF Modify, Explode, FreeMesh, MeshTypeOK
  <2> QED BY <1>2, <1>3, <2>1 DEF Modify, Explode, FreeMesh
<1>4. ASSUME NEW m \in Meshes, NEW src \in Meshes, AppendMesh(m, src)
      PROVE  MeshTypeOK' /\ CopyInv'
  BY <1>2, <1>4 DEF AppendMesh
<1>5. CASE UNCHANGED <<gawVars, meshVars>>
  BY <1>5 DEF gawVars, meshVars, MeshTypeOK, CopyInv
<1> QED BY <1>1, <1>3, <1>4, <1>5, ClearKeeps, CloneKeeps, DrawKeeps DEF MeshNext

\* A mesh is drawn as it is, for any meshes, contents, colors and number of copies.
THEOREM MeshesAreDrawn == MeshSpec => []DrawsTheMesh
<1>1. ASSUME GawInit, MeshInit PROVE MeshTypeOK /\ CopyInv
  <2>1. /\ color \in Colors /\ comp = [i \in 1 .. MaxComp |-> Free]
        /\ data = [m \in Meshes |-> <<>>] /\ dlist = [m \in Meshes |-> 0] /\ spoiled = FALSE
    BY <1>1 DEF GawInit, MeshInit
  <2>2. 0 \in 0 .. MaxComp /\ Free \in AnyCopy
    BY MeshCounts DEF AnyCopy
  <2>3. MeshTypeOK
    BY <2>1, <2>2, MeshCounts DEF MeshTypeOK
  <2>4. CopyInv
    BY <2>1 DEF CopyInv
  <2> QED BY <2>3, <2>4
<1>2. ASSUME MeshTypeOK, CopyInv PROVE DrawsTheMesh
  <2> SUFFICES ASSUME ~ spoiled, NEW m \in Meshes
               PROVE  LET prims == PointsOf(Primitives(3, Colored(data[m])))
                      IN  PointsOf(MeshPicture(m)) \in {prims, prims \o prims}
    BY DEF DrawsTheMesh
  <2> DEFINE P == Primitives(3, Colored(data[m]))
  <2>1. data[m] \in Data /\ P \in Copies(data[m])
    BY <1>2 DEF MeshTypeOK, Copies, Colored
  <2>2. CASE dlist[m] # 0
    <3>1. comp[dlist[m]] \in Copies(data[m])
      BY <1>2, <2>2 DEF CopyInv
    <3>2. MeshPicture(m) = comp[dlist[m]]
      <4>1. comp[dlist[m]] # Free
        BY <2>1, <3>1, CopyIsNotFree
      <4>2. MeshPicture(m) = OfCompiled(dlist[m])
        BY <2>2 DEF MeshPicture
      <4> QED BY <4>1, <4>2 DEF OfCompiled
    <3> HIDE DEF P
    <3>3. PointsOf(comp[dlist[m]]) = PointsOf(P)
      BY <2>1, <3>1, CopyHasThePoints
    <3> QED BY <3>2, <3>3 DEF P
  <2>3. CASE dlist[m] = 0 /\ FreeSlot # 0
    BY <2>3 DEF MeshPicture
  <2>4. CASE dlist[m] = 0 /\ ~ (FreeSlot # 0)
    <3>1. MeshPicture(m) = P \o P
      BY <2>4, Zenon DEF MeshPicture
    <3> HIDE DEF P
    <3>2. PointsOf(P \o P) = PointsOf(P) \o PointsOf(P)
      BY <2>1, PointsOfBoth
    <3> QED BY <3>1, <3>2 DEF P
  <2> QED BY <2>2, <2>3, <2>4
<1> QED BY <1>1, <1>2, MeshStepKeeps, PTL DEF MeshSpec

-----------------------------------------------------------------------------
(* Shapes.                                                                 *)
(*                                                                         *)
(* Surfaces of triangles.  V are the vertices, and a surface is given by   *)
(* a function tri from labels to triangles.                                *)

After(k) == IF k = 3 THEN 1 ELSE k + 1

\* The edge that begins in corner k, as a pair of places.
Edge(V, t, k) == <<V[t[k]], V[t[After(k)]]>>

Apart(a, b, c) == a # b /\ b # c /\ c # a

HasArea(V, t) == Apart(V[t[1]], V[t[2]], V[t[3]])

\* The last part of SurfaceIsClosed, for given vertices and triangles.
Closed(V, T) ==
  LET faces == {t \in T : Cardinality({V[t[k]] : k \in 1 .. 3}) = 3}
      edges == UNION {EdgesOf(<<V[t[1]], V[t[2]], V[t[3]]>>) : t \in faces}
  IN  /\ Cardinality(edges) = 3 * Cardinality(faces)
      /\ edges = {<<e[2], e[1]>> : e \in edges}

\* Three things are three when no two are the same.
LEMMA ThreeApart ==
  ASSUME NEW a, NEW b, NEW c
  PROVE  Cardinality({a, b, c}) = 3 <=> Apart(a, b, c)
<1>1. IsFiniteSet({a}) /\ Cardinality({a}) = 1
  BY FS_Singleton
<1>2. IsFiniteSet({a} \cup {b})
      /\ Cardinality({a} \cup {b}) = IF b \in {a} THEN Cardinality({a}) ELSE Cardinality({a}) + 1
  BY <1>1, FS_AddElement
<1>3. Cardinality({a} \cup {b} \cup {c})
        = IF c \in {a} \cup {b} THEN Cardinality({a} \cup {b}) ELSE Cardinality({a} \cup {b}) + 1
  BY <1>2, FS_AddElement
<1>4. {a, b, c} = {a} \cup {b} \cup {c}
  OBVIOUS
<1>. QED
  BY <1>1, <1>2, <1>3, <1>4 DEF Apart

LEMMA FacesAre ==
  ASSUME NEW V, NEW T
  PROVE  {t \in T : Cardinality({V[t[k]] : k \in 1 .. 3}) = 3} = {t \in T : HasArea(V, t)}
<1>1. ASSUME NEW t \in T
      PROVE  Cardinality({V[t[k]] : k \in 1 .. 3}) = 3 <=> HasArea(V, t)
  <2>1. {V[t[k]] : k \in 1 .. 3} = {V[t[1]], V[t[2]], V[t[3]]}
    <3>1. 1 .. 3 = {1, 2, 3}
      OBVIOUS
    <3>. QED
      BY <3>1
  <2>2. Cardinality({V[t[1]], V[t[2]], V[t[3]]}) = 3 <=> HasArea(V, t)
    BY ThreeApart DEF HasArea
  <2>. QED
    BY <2>1, <2>2
<1>. QED
  BY <1>1

\* The triangles of a surface.
Surface(Lab, tri) == {tri[l] : l \in Lab}

\* No edge is in two triangles, and every edge of a triangle has one that runs
\* along it in the opposite direction.
NoEdgeTwice(V, Lab, tri) ==
  \A l, p \in Lab : \A k, q \in 1 .. 3 :
    HasArea(V, tri[l]) /\ HasArea(V, tri[p]) /\ Edge(V, tri[l], k) = Edge(V, tri[p], q)
      => l = p /\ k = q

EdgesMeet(V, Lab, tri) ==
  \A l \in Lab : \A k \in 1 .. 3 : HasArea(V, tri[l]) =>
    \E p \in Lab : \E q \in 1 .. 3 :
      HasArea(V, tri[p]) /\ V[tri[p][q]] = V[tri[l][After(k)]]
        /\ V[tri[p][After(q)]] = V[tri[l][k]]

\* Such a surface is closed.
LEMMA ClosedIs ==
  ASSUME NEW V, NEW Lab, NEW tri, NEW T, T = Surface(Lab, tri), IsFiniteSet(T),
         NoEdgeTwice(V, Lab, tri), EdgesMeet(V, Lab, tri)
  PROVE  Closed(V, T)
<1>. DEFINE F == {t \in T : HasArea(V, t)}
            E == UNION {EdgesOf(<<V[t[1]], V[t[2]], V[t[3]]>>) : t \in F}
            f == [x \in F \X (1 .. 3) |-> Edge(V, x[1], x[2])]
<1>1. IsFiniteSet(F) /\ IsFiniteSet(1 .. 3) /\ Cardinality(1 .. 3) = 3
  <2>1. F \in SUBSET T
    OBVIOUS
  <2>2. IsFiniteSet(1 .. 3) /\ Cardinality(1 .. 3) = IF 1 > 3 THEN 0 ELSE 3 - 1 + 1
    <3>1. 1 \in Int /\ 3 \in Int
      OBVIOUS
    <3>. QED
      BY <3>1, FS_Interval, Zenon
  <2>. HIDE DEF F
  <2>3. IsFiniteSet(F)
    BY <2>1, FS_Subset
  <2>. QED
    BY <2>2, <2>3
<1>2. IsFiniteSet(F \X (1 .. 3)) /\ Cardinality(F \X (1 .. 3)) = Cardinality(F) * 3
  <2>. HIDE DEF F
  <2>1. IsFiniteSet(F \X (1 .. 3)) /\ Cardinality(F \X (1 .. 3)) = Cardinality(F) * Cardinality(1 .. 3)
    BY <1>1, FS_Product
  <2>. QED
    BY <1>1, <2>1
<1>3. \A t : EdgesOf(<<V[t[1]], V[t[2]], V[t[3]]>>) = {Edge(V, t, k) : k \in 1 .. 3}
  <2>1. 1 .. 3 = {1, 2, 3} /\ After(1) = 2 /\ After(2) = 3 /\ After(3) = 1
    BY DEF After
  <2>. QED
    BY <2>1 DEF EdgesOf, Edge
<1>4. \A e : e \in E <=> \E t \in F, k \in 1 .. 3 : e = Edge(V, t, k)
  <2>1. \A e : e \in E <=> \E t \in F : e \in EdgesOf(<<V[t[1]], V[t[2]], V[t[3]]>>)
    <3>. HIDE DEF F
    <3>. QED
      OBVIOUS
  <2>. HIDE DEF E, F
  <2>2. \A e, t : e \in EdgesOf(<<V[t[1]], V[t[2]], V[t[3]]>>) <=> \E k \in 1 .. 3 : e = Edge(V, t, k)
    BY <1>3
  <2>3. ASSUME NEW e \in E PROVE \E t \in F, k \in 1 .. 3 : e = Edge(V, t, k)
    <3>1. PICK t \in F : e \in EdgesOf(<<V[t[1]], V[t[2]], V[t[3]]>>)
      BY <2>1
    <3>2. PICK k \in 1 .. 3 : e = Edge(V, t, k)
      BY <2>2, <3>1
    <3>. QED
      BY <3>2
  <2>4. ASSUME NEW t \in F, NEW k \in 1 .. 3 PROVE Edge(V, t, k) \in E
    BY <2>1, <2>2
  <2>. QED
    BY <2>3, <2>4
<1>5. f \in Surjection(F \X (1 .. 3), E)
  <2>1. f \in [F \X (1 .. 3) -> E]
    BY <1>4
  <2>2. ASSUME NEW e \in E PROVE \E x \in F \X (1 .. 3) : f[x] = e
    <3>1. PICK t \in F, k \in 1 .. 3 : e = Edge(V, t, k)
      BY <1>4
    <3>. WITNESS <<t, k>> \in F \X (1 .. 3)
    <3>. QED
      BY <3>1
  <2>. HIDE DEF f, E, F
  <2>. QED
    BY <2>1, <2>2, Fun_IsSurj
<1>6. f \in Injection(F \X (1 .. 3), E)
  <2>1. f \in [F \X (1 .. 3) -> E]
    BY <1>4
  <2>2. ASSUME NEW x \in F \X (1 .. 3), NEW y \in F \X (1 .. 3), f[x] = f[y] PROVE x = y
    <3>1. x[1] \in F /\ y[1] \in F /\ x[2] \in 1 .. 3 /\ y[2] \in 1 .. 3
          /\ x = <<x[1], x[2]>> /\ y = <<y[1], y[2]>>
      OBVIOUS
    <3>2. Edge(V, x[1], x[2]) = Edge(V, y[1], y[2])
      BY <2>2
    <3>3. PICK l \in Lab, p \in Lab : x[1] = tri[l] /\ y[1] = tri[p]
      BY <3>1 DEF Surface
    <3>4. HasArea(V, tri[l]) /\ HasArea(V, tri[p])
      BY <3>1, <3>3
    <3>5. l = p /\ x[2] = y[2]
      BY <3>1, <3>2, <3>3, <3>4 DEF NoEdgeTwice
    <3>. QED
      BY <3>1, <3>3, <3>5
  <2>. HIDE DEF f, E, F
  <2>. QED
    BY <2>1, <2>2, Fun_IsInj
<1>7. Cardinality(E) = Cardinality(F \X (1 .. 3))
  <2>. HIDE DEF f, E, F
  <2>. QED
    BY <1>2, <1>5, <1>6, FS_Surjection
<1>8. Cardinality(E) = 3 * Cardinality(F)
  <2>1. Cardinality(F) \in Nat
    <3>. HIDE DEF F
    <3>. QED
      BY <1>1, FS_CardinalityType
  <2>. HIDE DEF f, E, F
  <2>. QED
    BY <1>2, <1>7, <2>1
<1>9. ASSUME NEW e \in E PROVE <<e[2], e[1]>> \in E
  <2>1. PICK t \in F, k \in 1 .. 3 : e = Edge(V, t, k)
    BY <1>4
  <2>2. PICK l \in Lab : t = tri[l] /\ HasArea(V, tri[l])
    BY <2>1 DEF Surface
  <2>3. PICK p \in Lab, q \in 1 .. 3 :
          HasArea(V, tri[p]) /\ V[tri[p][q]] = V[tri[l][After(k)]]
            /\ V[tri[p][After(q)]] = V[tri[l][k]]
    BY <2>1, <2>2 DEF EdgesMeet
  <2>4. <<e[2], e[1]>> = Edge(V, tri[p], q)
    BY <2>1, <2>2, <2>3 DEF Edge
  <2>5. tri[p] \in F
    BY <2>3 DEF Surface
  <2>. HIDE DEF E, F
  <2>. QED
    BY <1>4, <2>4, <2>5
<1>10. \A e \in E : e = <<e[1], e[2]>>
  <2>. HIDE DEF E, F
  <2>. QED
    BY <1>4 DEF Edge
<1>11. E = {<<e[2], e[1]>> : e \in E}
  <2>1. ASSUME NEW e \in E PROVE e \in {<<d[2], d[1]>> : d \in E}
    <3>1. <<e[2], e[1]>> \in E /\ e = <<<<e[2], e[1]>>[2], <<e[2], e[1]>>[1]>>
      BY <1>9, <1>10
    <3>. HIDE DEF E
    <3>. QED
      BY <3>1
  <2>. HIDE DEF E
  <2>. QED
    BY <2>1, <1>9
<1>12. F = {t \in T : Cardinality({V[t[k]] : k \in 1 .. 3}) = 3}
  BY FacesAre
<1>. QED
  BY <1>8, <1>11, <1>12 DEF Closed

-----------------------------------------------------------------------------
(* Cells and their triangles.  A label is a cell and one of its two        *)
(* triangles.                                                              *)

Labels(us, rows) == Cells(us, rows) \X {0, 1}

LEMMA LabelsAre ==
  ASSUME NEW us \in Nat, NEW rows \in Nat
  PROVE  IsFiniteSet(Labels(us, rows)) /\ Cardinality(Labels(us, rows)) = us * rows * 2
<1>1. IsFiniteSet(0 .. us - 1) /\ Cardinality(0 .. us - 1) = us
  <2>1. 0 \in Int /\ us - 1 \in Int
    OBVIOUS
  <2>2. IsFiniteSet(0 .. us - 1)
        /\ Cardinality(0 .. us - 1) = IF 0 > us - 1 THEN 0 ELSE us - 1 - 0 + 1
    BY <2>1, FS_Interval, Zenon
  <2>. QED
    BY <2>2
<1>2. IsFiniteSet(0 .. rows - 1) /\ Cardinality(0 .. rows - 1) = rows
  <2>1. 0 \in Int /\ rows - 1 \in Int
    OBVIOUS
  <2>2. IsFiniteSet(0 .. rows - 1)
        /\ Cardinality(0 .. rows - 1) = IF 0 > rows - 1 THEN 0 ELSE rows - 1 - 0 + 1
    BY <2>1, FS_Interval, Zenon
  <2>. QED
    BY <2>2
<1>3. IsFiniteSet({0, 1}) /\ Cardinality({0, 1}) = 2
  <2>1. IsFiniteSet({0}) /\ Cardinality({0}) = 1
    BY FS_Singleton
  <2>2. IsFiniteSet({0} \cup {1})
        /\ Cardinality({0} \cup {1}) = IF 1 \in {0} THEN Cardinality({0}) ELSE Cardinality({0}) + 1
    BY <2>1, FS_AddElement
  <2>3. {0, 1} = {0} \cup {1}
    OBVIOUS
  <2>. QED
    BY <2>1, <2>2, <2>3
<1>4. IsFiniteSet(Cells(us, rows))
      /\ Cardinality(Cells(us, rows)) = Cardinality(0 .. us - 1) * Cardinality(0 .. rows - 1)
  BY <1>1, <1>2, FS_Product, Zenon DEF Cells
<1>5. IsFiniteSet(Labels(us, rows))
      /\ Cardinality(Labels(us, rows)) = Cardinality(Cells(us, rows)) * Cardinality({0, 1})
  BY <1>3, <1>4, FS_Product, Zenon DEF Labels
<1>. QED
  BY <1>1, <1>2, <1>3, <1>4, <1>5, Zenon

OnceEach(Lab, tri) == \A l, p \in Lab : tri[l] = tri[p] => l = p

\* As many triangles as labels, when no two labels have the same.
LEMMA Counted ==
  ASSUME NEW Lab, IsFiniteSet(Lab), NEW tri, \A l, p \in Lab : tri[l] = tri[p] => l = p,
         NEW T, T = Surface(Lab, tri)
  PROVE  IsFiniteSet(T) /\ Cardinality(T) = Cardinality(Lab)
<1>. DEFINE f == [l \in Lab |-> tri[l]]
<1>1. f \in [Lab -> T]
  BY DEF Surface
<1>2. \A t \in T : \E l \in Lab : f[l] = t
  BY DEF Surface
<1>3. \A l, p \in Lab : f[l] = f[p] => l = p
  OBVIOUS
<1>. HIDE DEF f
<1>4. f \in Surjection(Lab, T) /\ f \in Injection(Lab, T)
  BY <1>1, <1>2, <1>3, Fun_IsSurj, Fun_IsInj
<1>. QED
  BY <1>4, FS_Surjection

\* Where a cell's triangle has its corners, to the right and above of the first
\* vertex of the cell: kinds 0 and 1 are the triangles of Grid; 2 and 3 are
\* those of its reverse when the rows are counted from above.
Right(y, k) ==
  IF (y = 0 /\ k = 2) \/ (y = 2 /\ k = 3) \/ (y \in {1, 3} /\ k # 1) THEN 1 ELSE 0

Above(y, k) ==
  IF (y = 0 /\ k # 1) \/ (y = 1 /\ k = 3) \/ (y = 2 /\ k = 1) \/ (y = 3 /\ k # 2) THEN 1 ELSE 0

\* The cells are reversed from row m on.
Kind(m, j, b) == IF j >= m THEN b + 2 ELSE b

LEMMA CornersAre ==
  ASSUME NEW y \in 0 .. 3, NEW k \in 1 .. 3
  PROVE  Right(y, k) \in 0 .. 1 /\ Above(y, k) \in 0 .. 1 /\ After(k) \in 1 .. 3
BY DEF Right, Above, After

LEMMA LabelIs ==
  ASSUME NEW us \in Nat, NEW rows \in Nat, NEW l \in Labels(us, rows)
  PROVE  /\ l[1][1] \in 0 .. us - 1 /\ l[1][2] \in 0 .. rows - 1 /\ l[2] \in {0, 1}
         /\ l = <<<<l[1][1], l[1][2]>>, l[2]>>
BY DEF Labels, Cells

-----------------------------------------------------------------------------
(* Round shapes: the columns go round, and the first and the last row are  *)
(* a single place.                                                         *)

Meet(us, rows, i, j, i2, j2) ==
  j = j2 /\ (j \in {0, rows} \/ i = i2 \/ (i = 0 /\ i2 = us) \/ (i = us /\ i2 = 0))

\* Corner k of triangle b of cell (i, j), and corner q of another, are one place.
Touch(us, rows, m, i, j, b, k, i2, j2, b2, q) ==
  Meet(us, rows, i + Right(Kind(m, j, b), k), j + Above(Kind(m, j, b), k),
       i2 + Right(Kind(m, j2, b2), q), j2 + Above(Kind(m, j2, b2), q))

Flat(us, rows, m, i, j, b) ==
  \/ Touch(us, rows, m, i, j, b, 1, i, j, b, 2)
  \/ Touch(us, rows, m, i, j, b, 2, i, j, b, 3)
  \/ Touch(us, rows, m, i, j, b, 3, i, j, b, 1)

\* The edge of corner q of the second runs back along that of corner k of the first.
Opposed(us, rows, m, i, j, b, k, i2, j2, b2, q) ==
  /\ i2 \in 0 .. us - 1 /\ j2 \in 0 .. rows - 1 /\ b2 \in {0, 1} /\ q \in 1 .. 3
  /\ ~ Flat(us, rows, m, i2, j2, b2)
  /\ Touch(us, rows, m, i2, j2, b2, q, i, j, b, After(k))
  /\ Touch(us, rows, m, i2, j2, b2, After(q), i, j, b, k)

ToLeft(us, i)  == IF i = 0 THEN us - 1 ELSE i - 1
ToRight(us, i) == IF i = us - 1 THEN 0 ELSE i + 1

LEMMA OtherTriangle ==
  ASSUME NEW us \in Nat, us >= 3, NEW rows \in Nat, rows >= 2, NEW m \in Nat,
         NEW i \in 0 .. us - 1, NEW j \in 0 .. rows - 1, NEW b \in {0, 1}, NEW k \in {1, 2, 3},
         ~ Flat(us, rows, m, i, j, b)
  PROVE  \E i2, j2, b2, q : Opposed(us, rows, m, i, j, b, k, i2, j2, b2, q)
<1>1. CASE j < m /\ b = 0 /\ k = 1
  <2>1. CASE j # 0
    <3>1. Opposed(us, rows, m, i, j, b, k, i, j, 1, 3)
      BY <1>1, <2>1 DEF Opposed, Flat, Touch, Meet, Right, Above, After, Kind, ToLeft, ToRight
    <3>. QED
      BY <3>1
  <2>2. CASE j = 0
    <3>1. Opposed(us, rows, m, i, j, b, k, ToRight(us, i), j, 0, 3)
      BY <1>1, <2>2 DEF Opposed, Flat, Touch, Meet, Right, Above, After, Kind, ToLeft, ToRight
    <3>. QED
      BY <3>1
  <2>. QED
    BY <2>1, <2>2
<1>2. CASE j < m /\ b = 0 /\ k = 2
  <2>1. CASE j + 1 < m
    <3>1. Opposed(us, rows, m, i, j, b, k, i, j + 1, 1, 1)
      BY <1>2, <2>1 DEF Opposed, Flat, Touch, Meet, Right, Above, After, Kind, ToLeft, ToRight
    <3>. QED
      BY <3>1
  <2>2. CASE j + 1 >= m
    <3>1. Opposed(us, rows, m, i, j, b, k, i, j + 1, 0, 2)
      BY <1>2, <2>2 DEF Opposed, Flat, Touch, Meet, Right, Above, After, Kind, ToLeft, ToRight
    <3>. QED
      BY <3>1
  <2>. QED
    BY <2>1, <2>2
<1>3. CASE j < m /\ b = 0 /\ k = 3
  <2>1. CASE j # 0
    <3>1. Opposed(us, rows, m, i, j, b, k, ToLeft(us, i), j, 1, 2)
      BY <1>3, <2>1 DEF Opposed, Flat, Touch, Meet, Right, Above, After, Kind, ToLeft, ToRight
    <3>. QED
      BY <3>1
  <2>2. CASE j = 0
    <3>1. Opposed(us, rows, m, i, j, b, k, ToLeft(us, i), j, 0, 1)
      BY <1>3, <2>2 DEF Opposed, Flat, Touch, Meet, Right, Above, After, Kind, ToLeft, ToRight
    <3>. QED
      BY <3>1
  <2>. QED
    BY <2>1, <2>2
<1>4. CASE j < m /\ b = 1 /\ k = 1
  <2>1. Opposed(us, rows, m, i, j, b, k, i, j - 1, 0, 2)
    BY <1>4 DEF Opposed, Flat, Touch, Meet, Right, Above, After, Kind, ToLeft, ToRight
  <2>. QED
    BY <2>1
<1>5. CASE j < m /\ b = 1 /\ k = 2
  <2>1. CASE j # rows - 1
    <3>1. Opposed(us, rows, m, i, j, b, k, ToRight(us, i), j, 0, 3)
      BY <1>5, <2>1 DEF Opposed, Flat, Touch, Meet, Right, Above, After, Kind, ToLeft, ToRight
    <3>. QED
      BY <3>1
  <2>2. CASE j = rows - 1
    <3>1. Opposed(us, rows, m, i, j, b, k, ToRight(us, i), j, 1, 3)
      BY <1>5, <2>2 DEF Opposed, Flat, Touch, Meet, Right, Above, After, Kind, ToLeft, ToRight
    <3>. QED
      BY <3>1
  <2>. QED
    BY <2>1, <2>2
<1>6. CASE j < m /\ b = 1 /\ k = 3
  <2>1. CASE j # rows - 1
    <3>1. Opposed(us, rows, m, i, j, b, k, i, j, 0, 1)
      BY <1>6, <2>1 DEF Opposed, Flat, Touch, Meet, Right, Above, After, Kind, ToLeft, ToRight
    <3>. QED
      BY <3>1
  <2>2. CASE j = rows - 1
    <3>1. Opposed(us, rows, m, i, j, b, k, ToLeft(us, i), j, 1, 2)
      BY <1>6, <2>2 DEF Opposed, Flat, Touch, Meet, Right, Above, After, Kind, ToLeft, ToRight
    <3>. QED
      BY <3>1
  <2>. QED
    BY <2>1, <2>2
<1>7. CASE j >= m /\ b = 0 /\ k = 1
  <2>1. CASE j # rows - 1
    <3>1. Opposed(us, rows, m, i, j, b, k, ToLeft(us, i), j, 1, 2)
      BY <1>7, <2>1 DEF Opposed, Flat, Touch, Meet, Right, Above, After, Kind, ToLeft, ToRight
    <3>. QED
      BY <3>1
  <2>2. CASE j = rows - 1
    <3>1. Opposed(us, rows, m, i, j, b, k, ToLeft(us, i), j, 0, 3)
      BY <1>7, <2>2 DEF Opposed, Flat, Touch, Meet, Right, Above, After, Kind, ToLeft, ToRight
    <3>. QED
      BY <3>1
  <2>. QED
    BY <2>1, <2>2
<1>8. CASE j >= m /\ b = 0 /\ k = 2
  <2>1. CASE j - 1 < m
    <3>1. Opposed(us, rows, m, i, j, b, k, i, j - 1, 0, 2)
      BY <1>8, <2>1 DEF Opposed, Flat, Touch, Meet, Right, Above, After, Kind, ToLeft, ToRight
    <3>. QED
      BY <3>1
  <2>2. CASE j - 1 >= m
    <3>1. Opposed(us, rows, m, i, j, b, k, i, j - 1, 1, 3)
      BY <1>8, <2>2 DEF Opposed, Flat, Touch, Meet, Right, Above, After, Kind, ToLeft, ToRight
    <3>. QED
      BY <3>1
  <2>. QED
    BY <2>1, <2>2
<1>9. CASE j >= m /\ b = 0 /\ k = 3
  <2>1. CASE j # rows - 1
    <3>1. Opposed(us, rows, m, i, j, b, k, i, j, 1, 1)
      BY <1>9, <2>1 DEF Opposed, Flat, Touch, Meet, Right, Above, After, Kind, ToLeft, ToRight
    <3>. QED
      BY <3>1
  <2>2. CASE j = rows - 1
    <3>1. Opposed(us, rows, m, i, j, b, k, ToRight(us, i), j, 0, 1)
      BY <1>9, <2>2 DEF Opposed, Flat, Touch, Meet, Right, Above, After, Kind, ToLeft, ToRight
    <3>. QED
      BY <3>1
  <2>. QED
    BY <2>1, <2>2
<1>10. CASE j >= m /\ b = 1 /\ k = 1
  <2>1. CASE j # 0
    <3>1. Opposed(us, rows, m, i, j, b, k, i, j, 0, 3)
      BY <1>10, <2>1 DEF Opposed, Flat, Touch, Meet, Right, Above, After, Kind, ToLeft, ToRight
    <3>. QED
      BY <3>1
  <2>2. CASE j = 0
    <3>1. Opposed(us, rows, m, i, j, b, k, ToLeft(us, i), j, 1, 2)
      BY <1>10, <2>2 DEF Opposed, Flat, Touch, Meet, Right, Above, After, Kind, ToLeft, ToRight
    <3>. QED
      BY <3>1
  <2>. QED
    BY <2>1, <2>2
<1>11. CASE j >= m /\ b = 1 /\ k = 2
  <2>1. CASE j # 0
    <3>1. Opposed(us, rows, m, i, j, b, k, ToRight(us, i), j, 0, 1)
      BY <1>11, <2>1 DEF Opposed, Flat, Touch, Meet, Right, Above, After, Kind, ToLeft, ToRight
    <3>. QED
      BY <3>1
  <2>2. CASE j = 0
    <3>1. Opposed(us, rows, m, i, j, b, k, ToRight(us, i), j, 1, 1)
      BY <1>11, <2>2 DEF Opposed, Flat, Touch, Meet, Right, Above, After, Kind, ToLeft, ToRight
    <3>. QED
      BY <3>1
  <2>. QED
    BY <2>1, <2>2
<1>12. CASE j >= m /\ b = 1 /\ k = 3
  <2>1. Opposed(us, rows, m, i, j, b, k, i, j + 1, 0, 2)
    BY <1>12 DEF Opposed, Flat, Touch, Meet, Right, Above, After, Kind, ToLeft, ToRight
  <2>. QED
    BY <2>1
<1>. QED
  BY <1>1, <1>2, <1>3, <1>4, <1>5, <1>6, <1>7, <1>8, <1>9, <1>10, <1>11, <1>12

-----------------------------------------------------------------------------
(* The torus: rows go round as columns do, and no triangle is flat.        *)

RingMeet(us, rows, i, j, i2, j2) ==
  /\ i = i2 \/ (i = 0 /\ i2 = us) \/ (i = us /\ i2 = 0)
  /\ j = j2 \/ (j = 0 /\ j2 = rows) \/ (j = rows /\ j2 = 0)

RingTouch(us, rows, i, j, b, k, i2, j2, b2, q) ==
  RingMeet(us, rows, i + Right(b + 2, k), j + Above(b + 2, k),
           i2 + Right(b2 + 2, q), j2 + Above(b2 + 2, q))

RingOpposed(us, rows, i, j, b, k, i2, j2, b2, q) ==
  /\ i2 \in 0 .. us - 1 /\ j2 \in 0 .. rows - 1 /\ b2 \in {0, 1} /\ q \in 1 .. 3
  /\ RingTouch(us, rows, i2, j2, b2, q, i, j, b, After(k))
  /\ RingTouch(us, rows, i2, j2, b2, After(q), i, j, b, k)

LEMMA RingOtherTriangle ==
  ASSUME NEW us \in Nat, us >= 3, NEW rows \in Nat, rows >= 3,
         NEW i \in 0 .. us - 1, NEW j \in 0 .. rows - 1, NEW b \in {0, 1}, NEW k \in {1, 2, 3}
  PROVE  \E i2, j2, b2, q : RingOpposed(us, rows, i, j, b, k, i2, j2, b2, q)
<1>1. CASE b = 0 /\ k = 1
  <2>1. RingOpposed(us, rows, i, j, b, k, ToLeft(us, i), j, 1, 2)
    BY <1>1 DEF RingOpposed, RingTouch, RingMeet, Right, Above, After, ToLeft, ToRight
  <2>. QED
    BY <2>1
<1>2. CASE b = 0 /\ k = 2
  <2>1. RingOpposed(us, rows, i, j, b, k, i, ToLeft(rows, j), 1, 3)
    BY <1>2 DEF RingOpposed, RingTouch, RingMeet, Right, Above, After, ToLeft, ToRight
  <2>. QED
    BY <2>1
<1>3. CASE b = 0 /\ k = 3
  <2>1. RingOpposed(us, rows, i, j, b, k, i, j, 1, 1)
    BY <1>3 DEF RingOpposed, RingTouch, RingMeet, Right, Above, After, ToLeft, ToRight
  <2>. QED
    BY <2>1
<1>4. CASE b = 1 /\ k = 1
  <2>1. RingOpposed(us, rows, i, j, b, k, i, j, 0, 3)
    BY <1>4 DEF RingOpposed, RingTouch, RingMeet, Right, Above, After, ToLeft, ToRight
  <2>. QED
    BY <2>1
<1>5. CASE b = 1 /\ k = 2
  <2>1. RingOpposed(us, rows, i, j, b, k, ToRight(us, i), j, 0, 1)
    BY <1>5 DEF RingOpposed, RingTouch, RingMeet, Right, Above, After, ToLeft, ToRight
  <2>. QED
    BY <2>1
<1>6. CASE b = 1 /\ k = 3
  <2>1. RingOpposed(us, rows, i, j, b, k, i, ToRight(rows, j), 0, 2)
    BY <1>6 DEF RingOpposed, RingTouch, RingMeet, Right, Above, After, ToLeft, ToRight
  <2>. QED
    BY <2>1
<1>. QED
  BY <1>1, <1>2, <1>3, <1>4, <1>5, <1>6

-----------------------------------------------------------------------------
(* The box: six planes of n by n cells, whose vertices are compared by     *)
(* coordinates.                                                            *)

BoxX(n, f, i, j) ==
  IF f \in {0, 4, 5} THEN 2 * i - n ELSE IF f = 1 THEN n ELSE IF f = 2 THEN n - 2 * i ELSE -n

BoxY(n, f, i, j) == IF f = 4 THEN -n ELSE IF f = 5 THEN n ELSE 2 * j - n

BoxZ(n, f, i, j) ==
  IF f = 0 THEN n ELSE IF f = 1 THEN n - 2 * i ELSE IF f = 2 THEN -n
  ELSE IF f = 3 THEN 2 * i - n ELSE IF f = 4 THEN 2 * j - n ELSE n - 2 * j

BoxMeet(n, f, i, j, f2, i2, j2) ==
  /\ BoxX(n, f, i, j) = BoxX(n, f2, i2, j2)
  /\ BoxY(n, f, i, j) = BoxY(n, f2, i2, j2)
  /\ BoxZ(n, f, i, j) = BoxZ(n, f2, i2, j2)

BoxTouch(n, f, i, j, b, k, f2, i2, j2, b2, q) ==
  BoxMeet(n, f, i + Right(b, k), j + Above(b, k), f2, i2 + Right(b2, q), j2 + Above(b2, q))

BoxOpposed(n, f, i, j, b, k, f2, i2, j2, b2, q) ==
  /\ f2 \in 0 .. 5 /\ i2 \in 0 .. n - 1 /\ j2 \in 0 .. n - 1 /\ b2 \in {0, 1} /\ q \in 1 .. 3
  /\ BoxTouch(n, f2, i2, j2, b2, q, f, i, j, b, After(k))
  /\ BoxTouch(n, f2, i2, j2, b2, After(q), f, i, j, b, k)

BoxLabels(n) == (0 .. 5) \X Labels(n, n)

LEMMA BoxLabelIs ==
  ASSUME NEW n \in Nat, NEW l \in BoxLabels(n)
  PROVE  /\ l[1] \in {0, 1, 2, 3, 4, 5} /\ l[2][1][1] \in 0 .. n - 1 /\ l[2][1][2] \in 0 .. n - 1
         /\ l[2][2] \in {0, 1} /\ l = <<l[1], <<<<l[2][1][1], l[2][1][2]>>, l[2][2]>>>>
<1>1. l[1] \in 0 .. 5 /\ l[2] \in Labels(n, n) /\ l = <<l[1], l[2]>>
  BY DEF BoxLabels
<1>2. \A f \in 0 .. 5 : f \in {0, 1, 2, 3, 4, 5}
  OBVIOUS
<1>. QED
  BY <1>1, <1>2, LabelIs

\* Which plane lies beside each side of a plane, and how its cells are counted there.
LEMMA BoxOtherTriangle ==
  ASSUME NEW n \in Nat, n >= 1, NEW l \in BoxLabels(n), NEW k \in 1 .. 3
  PROVE  \E f2, i2, j2, b2, q :
           BoxOpposed(n, l[1], l[2][1][1], l[2][1][2], l[2][2], k, f2, i2, j2, b2, q)
<1>. DEFINE f == l[1]  i == l[2][1][1]  j == l[2][1][2]  b == l[2][2]
<1>0. f \in {0, 1, 2, 3, 4, 5} /\ i \in 0 .. n - 1 /\ j \in 0 .. n - 1 /\ b \in {0, 1} /\ k \in {1, 2, 3}
  BY BoxLabelIs
<1>. SUFFICES \E f2, i2, j2, b2, q : BoxOpposed(n, f, i, j, b, k, f2, i2, j2, b2, q)
  OBVIOUS
<1>. HIDE DEF f, i, j, b
<1>1. CASE b = 1 /\ k = 1
  <2>1. CASE j # 0
    <3>1. BoxOpposed(n, f, i, j, b, k, f, i, j - 1, 0, 2)
      BY <1>0, <1>1, <2>1 DEF BoxOpposed, BoxTouch, BoxMeet, BoxX, BoxY, BoxZ, Right, Above, After
    <3>. QED
      BY <3>1
  <2>2. CASE j = 0
    <3>1. \/ f = 0 /\ BoxOpposed(n, f, i, j, b, k, 4, i, n - 1, 0, 2)
          \/ f = 1 /\ BoxOpposed(n, f, i, j, b, k, 4, n - 1, n - 1 - i, 1, 2)
          \/ f = 2 /\ BoxOpposed(n, f, i, j, b, k, 4, n - 1 - i, 0, 1, 1)
          \/ f = 3 /\ BoxOpposed(n, f, i, j, b, k, 4, 0, i, 0, 3)
          \/ f = 4 /\ BoxOpposed(n, f, i, j, b, k, 2, n - 1 - i, 0, 1, 1)
          \/ f = 5 /\ BoxOpposed(n, f, i, j, b, k, 0, i, n - 1, 0, 2)
      BY <1>0, <1>1, <2>2 DEF BoxOpposed, BoxTouch, BoxMeet, BoxX, BoxY, BoxZ, Right, Above, After
    <3>. QED
      BY <3>1
  <2>. QED
    BY <2>1, <2>2
<1>2. CASE b = 1 /\ k = 2
  <2>1. CASE i # n - 1
    <3>1. BoxOpposed(n, f, i, j, b, k, f, i + 1, j, 0, 3)
      BY <1>0, <1>2, <2>1 DEF BoxOpposed, BoxTouch, BoxMeet, BoxX, BoxY, BoxZ, Right, Above, After
    <3>. QED
      BY <3>1
  <2>2. CASE i = n - 1
    <3>1. \/ f = 0 /\ BoxOpposed(n, f, i, j, b, k, 1, 0, j, 0, 3)
          \/ f = 1 /\ BoxOpposed(n, f, i, j, b, k, 2, 0, j, 0, 3)
          \/ f = 2 /\ BoxOpposed(n, f, i, j, b, k, 3, 0, j, 0, 3)
          \/ f = 3 /\ BoxOpposed(n, f, i, j, b, k, 0, 0, j, 0, 3)
          \/ f = 4 /\ BoxOpposed(n, f, i, j, b, k, 1, n - 1 - j, 0, 1, 1)
          \/ f = 5 /\ BoxOpposed(n, f, i, j, b, k, 1, j, n - 1, 0, 2)
      BY <1>0, <1>2, <2>2 DEF BoxOpposed, BoxTouch, BoxMeet, BoxX, BoxY, BoxZ, Right, Above, After
    <3>. QED
      BY <3>1
  <2>. QED
    BY <2>1, <2>2
<1>3. CASE b = 0 /\ k = 2
  <2>1. CASE j # n - 1
    <3>1. BoxOpposed(n, f, i, j, b, k, f, i, j + 1, 1, 1)
      BY <1>0, <1>3, <2>1 DEF BoxOpposed, BoxTouch, BoxMeet, BoxX, BoxY, BoxZ, Right, Above, After
    <3>. QED
      BY <3>1
  <2>2. CASE j = n - 1
    <3>1. \/ f = 0 /\ BoxOpposed(n, f, i, j, b, k, 5, i, 0, 1, 1)
          \/ f = 1 /\ BoxOpposed(n, f, i, j, b, k, 5, n - 1, i, 1, 2)
          \/ f = 2 /\ BoxOpposed(n, f, i, j, b, k, 5, n - 1 - i, n - 1, 0, 2)
          \/ f = 3 /\ BoxOpposed(n, f, i, j, b, k, 5, 0, n - 1 - i, 0, 3)
          \/ f = 4 /\ BoxOpposed(n, f, i, j, b, k, 0, i, 0, 1, 1)
          \/ f = 5 /\ BoxOpposed(n, f, i, j, b, k, 2, n - 1 - i, n - 1, 0, 2)
      BY <1>0, <1>3, <2>2 DEF BoxOpposed, BoxTouch, BoxMeet, BoxX, BoxY, BoxZ, Right, Above, After
    <3>. QED
      BY <3>1
  <2>. QED
    BY <2>1, <2>2
<1>4. CASE b = 0 /\ k = 3
  <2>1. CASE i # 0
    <3>1. BoxOpposed(n, f, i, j, b, k, f, i - 1, j, 1, 2)
      BY <1>0, <1>4, <2>1 DEF BoxOpposed, BoxTouch, BoxMeet, BoxX, BoxY, BoxZ, Right, Above, After
    <3>. QED
      BY <3>1
  <2>2. CASE i = 0
    <3>1. \/ f = 0 /\ BoxOpposed(n, f, i, j, b, k, 3, n - 1, j, 1, 2)
          \/ f = 1 /\ BoxOpposed(n, f, i, j, b, k, 0, n - 1, j, 1, 2)
          \/ f = 2 /\ BoxOpposed(n, f, i, j, b, k, 1, n - 1, j, 1, 2)
          \/ f = 3 /\ BoxOpposed(n, f, i, j, b, k, 2, n - 1, j, 1, 2)
          \/ f = 4 /\ BoxOpposed(n, f, i, j, b, k, 3, j, 0, 1, 1)
          \/ f = 5 /\ BoxOpposed(n, f, i, j, b, k, 3, n - 1 - j, n - 1, 0, 2)
      BY <1>0, <1>4, <2>2 DEF BoxOpposed, BoxTouch, BoxMeet, BoxX, BoxY, BoxZ, Right, Above, After
    <3>. QED
      BY <3>1
  <2>. QED
    BY <2>1, <2>2
<1>5. CASE b = 0 /\ k = 1
  <2>1. BoxOpposed(n, f, i, j, b, k, f, i, j, 1, 3)
    BY <1>0, <1>5 DEF BoxOpposed, BoxTouch, BoxMeet, BoxX, BoxY, BoxZ, Right, Above, After
  <2>. QED
    BY <2>1
<1>6. CASE b = 1 /\ k = 3
  <2>1. BoxOpposed(n, f, i, j, b, k, f, i, j, 0, 1)
    BY <1>0, <1>6 DEF BoxOpposed, BoxTouch, BoxMeet, BoxX, BoxY, BoxZ, Right, Above, After
  <2>. QED
    BY <2>1
<1>. QED
  BY <1>0, <1>1, <1>2, <1>3, <1>4, <1>5, <1>6

-----------------------------------------------------------------------------
(* A surface is closed when its corners touch as those of a round shape,   *)
(* a torus or a box do.                                                    *)

RoundTouching(us, rows, m, V, tri) ==
  \A l, p \in Labels(us, rows) : \A k, q \in 1 .. 3 :
    V[tri[l][k]] = V[tri[p][q]]
      <=> Touch(us, rows, m, l[1][1], l[1][2], l[2], k, p[1][1], p[1][2], p[2], q)

LEMMA RoundIsClosed ==
  ASSUME NEW us \in Nat, us >= 3, NEW rows \in Nat, rows >= 2, NEW m \in Nat,
         NEW V, NEW tri, NEW T, T = Surface(Labels(us, rows), tri), IsFiniteSet(T),
         RoundTouching(us, rows, m, V, tri)
  PROVE  Closed(V, T)
<1>0. \A l, p \in Labels(us, rows) : \A k, q \in 1 .. 3 :
        V[tri[l][k]] = V[tri[p][q]]
          <=> Touch(us, rows, m, l[1][1], l[1][2], l[2], k, p[1][1], p[1][2], p[2], q)
  BY DEF RoundTouching
<1>1. \A k \in 1 .. 3 : After(k) \in 1 .. 3 /\ k \in {1, 2, 3}
  BY DEF After
<1>2. ASSUME NEW l \in Labels(us, rows)
      PROVE  HasArea(V, tri[l]) <=> ~ Flat(us, rows, m, l[1][1], l[1][2], l[2])
  <2>1. 1 \in 1 .. 3 /\ 2 \in 1 .. 3 /\ 3 \in 1 .. 3
    OBVIOUS
  <2>. QED
    BY <1>0, <2>1 DEF HasArea, Apart, Flat
<1>3. ASSUME NEW l \in Labels(us, rows), NEW p \in Labels(us, rows), NEW k \in 1 .. 3, NEW q \in 1 .. 3,
             HasArea(V, tri[l]), HasArea(V, tri[p]), Edge(V, tri[l], k) = Edge(V, tri[p], q)
      PROVE  l = p /\ k = q
  <2>1. V[tri[l][k]] = V[tri[p][q]] /\ V[tri[l][After(k)]] = V[tri[p][After(q)]]
    BY <1>3 DEF Edge
  <2>. DEFINE i == l[1][1]  j == l[1][2]  b == l[2]
              i2 == p[1][1]  j2 == p[1][2]  b2 == p[2]
  <2>2. /\ Touch(us, rows, m, i, j, b, k, i2, j2, b2, q)
        /\ Touch(us, rows, m, i, j, b, After(k), i2, j2, b2, After(q))
        /\ ~ Flat(us, rows, m, i, j, b) /\ ~ Flat(us, rows, m, i2, j2, b2)
    BY <1>0, <1>1, <1>2, <1>3, <2>1
  <2>3. /\ i \in 0 .. us - 1 /\ j \in 0 .. rows - 1 /\ b \in {0, 1}
        /\ i2 \in 0 .. us - 1 /\ j2 \in 0 .. rows - 1 /\ b2 \in {0, 1}
        /\ l = <<<<i, j>>, b>> /\ p = <<<<i2, j2>>, b2>>
    BY LabelIs
  <2>4. k \in {1, 2, 3} /\ q \in {1, 2, 3}
    BY <1>1
  <2>. HIDE DEF i, j, b, i2, j2, b2
  <2>5. i = i2 /\ j = j2 /\ b = b2 /\ k = q
    BY <2>2, <2>3, <2>4, SMTT(60) DEF Flat, Touch, Meet, Right, Above, After, Kind
  <2>. QED
    BY <2>3, <2>5
<1>4. ASSUME NEW l \in Labels(us, rows), NEW k \in 1 .. 3, HasArea(V, tri[l])
      PROVE  \E p \in Labels(us, rows) : \E q \in 1 .. 3 :
               HasArea(V, tri[p]) /\ V[tri[p][q]] = V[tri[l][After(k)]]
                 /\ V[tri[p][After(q)]] = V[tri[l][k]]
  <2>. DEFINE i == l[1][1]  j == l[1][2]  b == l[2]
  <2>1. i \in 0 .. us - 1 /\ j \in 0 .. rows - 1 /\ b \in {0, 1} /\ ~ Flat(us, rows, m, i, j, b)
    BY <1>2, <1>4, LabelIs
  <2>2. PICK i2, j2, b2, q : Opposed(us, rows, m, i, j, b, k, i2, j2, b2, q)
    <3>. HIDE DEF i, j, b
    <3>. QED
      BY <1>1, <2>1, OtherTriangle
  <2>. DEFINE p == <<<<i2, j2>>, b2>>
  <2>3. p \in Labels(us, rows) /\ q \in 1 .. 3 /\ p[1][1] = i2 /\ p[1][2] = j2 /\ p[2] = b2
    BY <2>2 DEF Opposed, Labels, Cells
  <2>. HIDE DEF p
  <2>4. /\ Touch(us, rows, m, p[1][1], p[1][2], p[2], q, l[1][1], l[1][2], l[2], After(k))
        /\ Touch(us, rows, m, p[1][1], p[1][2], p[2], After(q), l[1][1], l[1][2], l[2], k)
        /\ ~ Flat(us, rows, m, p[1][1], p[1][2], p[2])
    BY <2>2, <2>3 DEF Opposed
  <2>5. HasArea(V, tri[p]) /\ V[tri[p][q]] = V[tri[l][After(k)]] /\ V[tri[p][After(q)]] = V[tri[l][k]]
    BY <1>0, <1>1, <1>2, <2>3, <2>4
  <2>. QED
    BY <2>3, <2>5
<1>5. NoEdgeTwice(V, Labels(us, rows), tri)
  BY <1>3 DEF NoEdgeTwice
<1>6. EdgesMeet(V, Labels(us, rows), tri)
  BY <1>4 DEF EdgesMeet
<1>. QED
  BY <1>5, <1>6, ClosedIs

RingTouching(us, rows, V, tri) ==
  \A l, p \in Labels(us, rows) : \A k, q \in 1 .. 3 :
    V[tri[l][k]] = V[tri[p][q]]
      <=> RingTouch(us, rows, l[1][1], l[1][2], l[2], k, p[1][1], p[1][2], p[2], q)

LEMMA RingIsClosed ==
  ASSUME NEW us \in Nat, us >= 3, NEW rows \in Nat, rows >= 3,
         NEW V, NEW tri, NEW T, T = Surface(Labels(us, rows), tri), IsFiniteSet(T),
         RingTouching(us, rows, V, tri)
  PROVE  Closed(V, T)
<1>0. \A l, p \in Labels(us, rows) : \A k, q \in 1 .. 3 :
        V[tri[l][k]] = V[tri[p][q]]
          <=> RingTouch(us, rows, l[1][1], l[1][2], l[2], k, p[1][1], p[1][2], p[2], q)
  BY DEF RingTouching
<1>1. \A k \in 1 .. 3 : After(k) \in 1 .. 3 /\ k \in {1, 2, 3}
  BY DEF After
<1>2. ASSUME NEW l \in Labels(us, rows)
      PROVE  HasArea(V, tri[l])
  <2>1. 1 \in 1 .. 3 /\ 2 \in 1 .. 3 /\ 3 \in 1 .. 3
    OBVIOUS
  <2>. DEFINE i == l[1][1]  j == l[1][2]  b == l[2]
  <2>2. i \in 0 .. us - 1 /\ j \in 0 .. rows - 1 /\ b \in {0, 1}
    BY LabelIs
  <2>3. ~ RingTouch(us, rows, i, j, b, 1, i, j, b, 2) /\ ~ RingTouch(us, rows, i, j, b, 2, i, j, b, 3)
        /\ ~ RingTouch(us, rows, i, j, b, 3, i, j, b, 1)
    <3>. HIDE DEF i, j, b
    <3>. QED
      BY <2>2 DEF RingTouch, RingMeet, Right, Above, After
  <2>. QED
    BY <1>0, <2>1, <2>3 DEF HasArea, Apart
<1>3. ASSUME NEW l \in Labels(us, rows), NEW p \in Labels(us, rows), NEW k \in 1 .. 3, NEW q \in 1 .. 3,
             HasArea(V, tri[l]), HasArea(V, tri[p]), Edge(V, tri[l], k) = Edge(V, tri[p], q)
      PROVE  l = p /\ k = q
  <2>1. V[tri[l][k]] = V[tri[p][q]] /\ V[tri[l][After(k)]] = V[tri[p][After(q)]]
    BY <1>3 DEF Edge
  <2>. DEFINE i == l[1][1]  j == l[1][2]  b == l[2]
              i2 == p[1][1]  j2 == p[1][2]  b2 == p[2]
  <2>2. /\ RingTouch(us, rows, i, j, b, k, i2, j2, b2, q)
        /\ RingTouch(us, rows, i, j, b, After(k), i2, j2, b2, After(q))
    BY <1>0, <1>1, <1>2, <1>3, <2>1
  <2>3. /\ i \in 0 .. us - 1 /\ j \in 0 .. rows - 1 /\ b \in {0, 1}
        /\ i2 \in 0 .. us - 1 /\ j2 \in 0 .. rows - 1 /\ b2 \in {0, 1}
        /\ l = <<<<i, j>>, b>> /\ p = <<<<i2, j2>>, b2>>
    BY LabelIs
  <2>4. k \in {1, 2, 3} /\ q \in {1, 2, 3}
    BY <1>1
  <2>. HIDE DEF i, j, b, i2, j2, b2
  <2>5. i = i2 /\ j = j2 /\ b = b2 /\ k = q
    BY <2>2, <2>3, <2>4, SMTT(60) DEF RingTouch, RingMeet, Right, Above, After
  <2>. QED
    BY <2>3, <2>5
<1>4. ASSUME NEW l \in Labels(us, rows), NEW k \in 1 .. 3, HasArea(V, tri[l])
      PROVE  \E p \in Labels(us, rows) : \E q \in 1 .. 3 :
               HasArea(V, tri[p]) /\ V[tri[p][q]] = V[tri[l][After(k)]]
                 /\ V[tri[p][After(q)]] = V[tri[l][k]]
  <2>. DEFINE i == l[1][1]  j == l[1][2]  b == l[2]
  <2>1. i \in 0 .. us - 1 /\ j \in 0 .. rows - 1 /\ b \in {0, 1}
    BY <1>2, <1>4, LabelIs
  <2>2. PICK i2, j2, b2, q : RingOpposed(us, rows, i, j, b, k, i2, j2, b2, q)
    <3>. HIDE DEF i, j, b
    <3>. QED
      BY <1>1, <2>1, RingOtherTriangle
  <2>. DEFINE p == <<<<i2, j2>>, b2>>
  <2>3. p \in Labels(us, rows) /\ q \in 1 .. 3 /\ p[1][1] = i2 /\ p[1][2] = j2 /\ p[2] = b2
    BY <2>2 DEF RingOpposed, Labels, Cells
  <2>. HIDE DEF p
  <2>4. /\ RingTouch(us, rows, p[1][1], p[1][2], p[2], q, l[1][1], l[1][2], l[2], After(k))
        /\ RingTouch(us, rows, p[1][1], p[1][2], p[2], After(q), l[1][1], l[1][2], l[2], k)
    BY <2>2, <2>3 DEF RingOpposed
  <2>5. HasArea(V, tri[p]) /\ V[tri[p][q]] = V[tri[l][After(k)]] /\ V[tri[p][After(q)]] = V[tri[l][k]]
    BY <1>0, <1>1, <1>2, <2>3, <2>4
  <2>. QED
    BY <2>3, <2>5
<1>5. NoEdgeTwice(V, Labels(us, rows), tri)
  BY <1>3 DEF NoEdgeTwice
<1>6. EdgesMeet(V, Labels(us, rows), tri)
  BY <1>4 DEF EdgesMeet
<1>. QED
  BY <1>5, <1>6, ClosedIs

BoxTouching(n, V, tri) ==
  \A l, p \in BoxLabels(n) : \A k, q \in 1 .. 3 :
    V[tri[l][k]] = V[tri[p][q]]
      <=> BoxTouch(n, l[1], l[2][1][1], l[2][1][2], l[2][2], k, p[1], p[2][1][1], p[2][1][2], p[2][2], q)

LEMMA BoxIsClosed ==
  ASSUME NEW n \in Nat, n >= 1,
         NEW V, NEW tri, NEW T, T = Surface(BoxLabels(n), tri), IsFiniteSet(T),
         BoxTouching(n, V, tri)
  PROVE  Closed(V, T)
<1>0. \A l, p \in BoxLabels(n) : \A k, q \in 1 .. 3 :
        V[tri[l][k]] = V[tri[p][q]]
          <=> BoxTouch(n, l[1], l[2][1][1], l[2][1][2], l[2][2], k, p[1], p[2][1][1], p[2][1][2], p[2][2], q)
  BY DEF BoxTouching
<1>1. \A k \in 1 .. 3 : After(k) \in 1 .. 3 /\ k \in {1, 2, 3}
  BY DEF After
<1>2. ASSUME NEW l \in BoxLabels(n)
      PROVE  HasArea(V, tri[l])
  <2>1. 1 \in 1 .. 3 /\ 2 \in 1 .. 3 /\ 3 \in 1 .. 3
    OBVIOUS
  <2>. DEFINE f == l[1]  i == l[2][1][1]  j == l[2][1][2]  b == l[2][2]
  <2>2. f \in {0, 1, 2, 3, 4, 5} /\ i \in 0 .. n - 1 /\ j \in 0 .. n - 1 /\ b \in {0, 1}
    BY BoxLabelIs
  <2>3. ~ BoxTouch(n, f, i, j, b, 1, f, i, j, b, 2) /\ ~ BoxTouch(n, f, i, j, b, 2, f, i, j, b, 3)
        /\ ~ BoxTouch(n, f, i, j, b, 3, f, i, j, b, 1)
    <3>. HIDE DEF f, i, j, b
    <3>. QED
      BY <2>2 DEF BoxTouch, BoxMeet, BoxX, BoxY, BoxZ, Right, Above, After
  <2>. QED
    BY <1>0, <2>1, <2>3 DEF HasArea, Apart
<1>3. ASSUME NEW l \in BoxLabels(n), NEW p \in BoxLabels(n), NEW k \in 1 .. 3, NEW q \in 1 .. 3,
             HasArea(V, tri[l]), HasArea(V, tri[p]), Edge(V, tri[l], k) = Edge(V, tri[p], q)
      PROVE  l = p /\ k = q
  <2>1. V[tri[l][k]] = V[tri[p][q]] /\ V[tri[l][After(k)]] = V[tri[p][After(q)]]
    BY <1>3 DEF Edge
  <2>. DEFINE f == l[1]  i == l[2][1][1]  j == l[2][1][2]  b == l[2][2]
              f2 == p[1]  i2 == p[2][1][1]  j2 == p[2][1][2]  b2 == p[2][2]
  <2>2. /\ BoxTouch(n, f, i, j, b, k, f2, i2, j2, b2, q)
        /\ BoxTouch(n, f, i, j, b, After(k), f2, i2, j2, b2, After(q))
    BY <1>0, <1>1, <1>2, <1>3, <2>1
  <2>3. /\ f \in {0, 1, 2, 3, 4, 5} /\ i \in 0 .. n - 1 /\ j \in 0 .. n - 1 /\ b \in {0, 1}
        /\ f2 \in {0, 1, 2, 3, 4, 5} /\ i2 \in 0 .. n - 1 /\ j2 \in 0 .. n - 1 /\ b2 \in {0, 1}
        /\ l = <<f, <<<<i, j>>, b>>>> /\ p = <<f2, <<<<i2, j2>>, b2>>>>
    BY BoxLabelIs
  <2>4. k \in {1, 2, 3} /\ q \in {1, 2, 3}
    BY <1>1
  <2>. HIDE DEF f, i, j, b, f2, i2, j2, b2
  <2>5. f = f2 /\ i = i2 /\ j = j2 /\ b = b2 /\ k = q
    BY <2>2, <2>3, <2>4, SMTT(60) DEF BoxTouch, BoxMeet, BoxX, BoxY, BoxZ, Right, Above, After
  <2>. QED
    BY <2>3, <2>5
<1>4. ASSUME NEW l \in BoxLabels(n), NEW k \in 1 .. 3, HasArea(V, tri[l])
      PROVE  \E p \in BoxLabels(n) : \E q \in 1 .. 3 :
               HasArea(V, tri[p]) /\ V[tri[p][q]] = V[tri[l][After(k)]]
                 /\ V[tri[p][After(q)]] = V[tri[l][k]]
  <2>. DEFINE f == l[1]  i == l[2][1][1]  j == l[2][1][2]  b == l[2][2]
  <2>1. f \in {0, 1, 2, 3, 4, 5} /\ i \in 0 .. n - 1 /\ j \in 0 .. n - 1 /\ b \in {0, 1}
    BY <1>2, <1>4, BoxLabelIs
  <2>2. PICK f2, i2, j2, b2, q : BoxOpposed(n, f, i, j, b, k, f2, i2, j2, b2, q)
    BY BoxOtherTriangle
  <2>. DEFINE p == <<f2, <<<<i2, j2>>, b2>>>>
  <2>3. p \in BoxLabels(n) /\ q \in 1 .. 3 /\ p[1] = f2 /\ p[2][1][1] = i2 /\ p[2][1][2] = j2 /\ p[2][2] = b2
    BY <2>2 DEF BoxOpposed, BoxLabels, Labels, Cells
  <2>. HIDE DEF p
  <2>4. /\ BoxTouch(n, p[1], p[2][1][1], p[2][1][2], p[2][2], q, l[1], l[2][1][1], l[2][1][2], l[2][2], After(k))
        /\ BoxTouch(n, p[1], p[2][1][1], p[2][1][2], p[2][2], After(q), l[1], l[2][1][1], l[2][1][2], l[2][2], k)
    BY <2>2, <2>3 DEF BoxOpposed
  <2>5. HasArea(V, tri[p]) /\ V[tri[p][q]] = V[tri[l][After(k)]] /\ V[tri[p][After(q)]] = V[tri[l][k]]
    BY <1>0, <1>1, <1>2, <2>3, <2>4
  <2>. QED
    BY <2>3, <2>5
<1>5. NoEdgeTwice(V, BoxLabels(n), tri)
  BY <1>3 DEF NoEdgeTwice
<1>6. EdgesMeet(V, BoxLabels(n), tri)
  BY <1>4 DEF EdgesMeet
<1>. QED
  BY <1>5, <1>6, ClosedIs

-----------------------------------------------------------------------------
(* The numbers of the vertices of a grid.                                  *)

\* Products.
LEMMA ProductGrows ==
  ASSUME NEW a \in Nat, NEW b \in Nat, a <= b, NEW w \in Nat
  PROVE  a * w \in Nat /\ b * w \in Nat /\ a * w <= b * w /\ (a + 1) * w = a * w + w
<1>1. a * w \in Nat /\ b * w \in Nat /\ (b - a) * w \in Nat
  OBVIOUS
<1>2. (b - a) * w = b * w - a * w /\ (a + 1) * w = a * w + w
  OBVIOUS
<1>. QED
  BY <1>1, <1>2

LEMMA AtLeastIs ==
  ASSUME NEW n \in Nat, NEW low \in Nat
  PROVE  AtLeast(n, low) = IF n >= low THEN n ELSE low
<1>. DEFINE x == IF n >= low THEN n ELSE low
<1>1. x \in {n, low} /\ \A y \in {n, low} : x >= y
  OBVIOUS
<1>2. \A z \in {n, low} : (\A y \in {n, low} : z >= y) => z = x
  OBVIOUS
<1>. HIDE DEF x
<1>3. AtLeast(n, low) = CHOOSE z \in {n, low} : \A y \in {n, low} : z >= y
  BY DEF AtLeast, Max
<1>4. AtLeast(n, low) = x
  BY <1>1, <1>2, <1>3
<1>. QED
  BY <1>4 DEF x

\* A number below (us + 1) * w is a column and a row.
LEMMA NumberIs ==
  ASSUME NEW us \in Nat, NEW w \in Nat, w > 0, NEW i \in Nat, i <= us, NEW j \in Nat, j < w
  PROVE  /\ i * w + j \in Nat /\ i * w + j < (us + 1) * w
         /\ (i * w + j) \div w = i /\ (i * w + j) % w = j
<1>1. i * w \in Nat /\ us * w \in Nat /\ i * w <= us * w /\ (us + 1) * w = us * w + w
  BY ProductGrows
<1>. DEFINE n == i * w + j
            q == n \div w
            r == n % w
<1>2. n \in Nat
  BY <1>1
<1>3. q \in Int /\ r \in Int /\ n = w * q + r /\ 0 <= r /\ r < w
  <2>. HIDE DEF n
  <2>. QED
    BY <1>2
<1>4. (q - i) * w = j - r
  <2>1. (q - i) * w = w * q - i * w
    <3>. HIDE DEF q
    <3>. QED
      BY <1>3
  <2>. HIDE DEF q, r
  <2>. QED
    BY <1>1, <1>3, <2>1
<1>5. q = i
  <2>. HIDE DEF n, q, r
  <2>1. CASE q > i
    <3>1. q - i \in Nat /\ 1 <= q - i /\ 1 \in Nat
      BY <1>3, <2>1
    <3>2. 1 * w <= (q - i) * w
      BY <3>1, ProductGrows
    <3>. QED
      BY <1>3, <1>4, <3>2
  <2>2. CASE q < i
    <3>1. i - q \in Nat /\ 1 <= i - q /\ 1 \in Nat
      BY <1>3, <2>2
    <3>2. 1 * w <= (i - q) * w
      BY <3>1, ProductGrows
    <3>3. (i - q) * w = -((q - i) * w)
      BY <1>3
    <3>. QED
      BY <1>3, <1>4, <3>2, <3>3
  <2>. QED
    BY <1>3, <2>1, <2>2
<1>6. r = j
  <2>. HIDE DEF n, q, r
  <2>1. (q - i) * w = 0
    BY <1>5
  <2>. QED
    BY <1>3, <1>4, <2>1
<1>. QED
  BY <1>1, <1>5, <1>6

Number(vs, i, j) == i * (vs + 1) + j

At(vs, first, step, i, j) == first + Number(vs, i, j) * step

LEMMA NumbersAre ==
  ASSUME NEW us \in Nat, NEW vs \in Nat, NEW i \in 0 .. us, NEW j \in 0 .. vs
  PROVE  /\ Number(vs, i, j) \in Nat /\ Number(vs, i, j) < (us + 1) * (vs + 1)
         /\ Number(vs, i, j) \div (vs + 1) = i /\ Number(vs, i, j) % (vs + 1) = j
<1>. DEFINE w == vs + 1
<1>1. w \in Nat /\ w > 0 /\ i \in Nat /\ i <= us /\ j \in Nat /\ j < w
  OBVIOUS
<1>. HIDE DEF w
<1>2. /\ i * w + j \in Nat /\ i * w + j < (us + 1) * w
      /\ (i * w + j) \div w = i /\ (i * w + j) % w = j
  BY <1>1, NumberIs
<1>. QED
  BY <1>2 DEF w, Number

LEMMA NumberSplits ==
  ASSUME NEW vs \in Nat, NEW i \in Nat, NEW j \in 0 .. vs
  PROVE  /\ Number(vs, i, j) \in Nat
         /\ Number(vs, i, j) \div (vs + 1) = i /\ Number(vs, i, j) % (vs + 1) = j
<1>. DEFINE w == vs + 1
<1>1. w \in Nat /\ w > 0 /\ i <= i /\ j \in Nat /\ j < w
  OBVIOUS
<1>. HIDE DEF w
<1>2. i * w + j \in Nat /\ (i * w + j) \div w = i /\ (i * w + j) % w = j
  BY <1>1, NumberIs
<1>. QED
  BY <1>2 DEF w, Number

LEMMA OneNumber ==
  ASSUME NEW vs \in Nat, NEW first \in Nat, NEW step \in {1, 2},
         NEW i \in Nat, NEW j \in 0 .. vs, NEW i2 \in Nat, NEW j2 \in 0 .. vs,
         At(vs, first, step, i, j) = At(vs, first, step, i2, j2)
  PROVE  i = i2 /\ j = j2
<1>1. /\ Number(vs, i, j) \in Nat /\ Number(vs, i, j) \div (vs + 1) = i
      /\ Number(vs, i, j) % (vs + 1) = j
  BY NumberSplits
<1>2. /\ Number(vs, i2, j2) \in Nat /\ Number(vs, i2, j2) \div (vs + 1) = i2
      /\ Number(vs, i2, j2) % (vs + 1) = j2
  BY NumberSplits
<1>3. Number(vs, i, j) = Number(vs, i2, j2)
  <2>. DEFINE a == Number(vs, i, j)  b == Number(vs, i2, j2)
  <2>1. first + a * step = first + b * step
    BY DEF At
  <2>2. a \in Nat /\ b \in Nat
    BY <1>1, <1>2
  <2>. HIDE DEF a, b
  <2>3. a = b
    <3>1. CASE step = 1
      BY <2>1, <2>2, <3>1
    <3>2. CASE step = 2
      BY <2>1, <2>2, <3>2
    <3>. QED
      BY <3>1, <3>2
  <2>. QED
    BY <2>3 DEF a, b
<1>. QED
  BY <1>1, <1>2, <1>3

\* The same, for the places of a grid.
LEMMA OnePlace ==
  ASSUME NEW vs \in Nat, NEW first \in Nat, NEW step \in {1, 2}
  PROVE  \A p, p2 \in Nat : \A q, q2 \in 0 .. vs :
           At(vs, first, step, p, q) = At(vs, first, step, p2, q2) => p = p2 /\ q = q2
BY OneNumber

-----------------------------------------------------------------------------
(* The triangles of a grid and of its reverse, by their corners.           *)

\* The row of the vertex of a corner: those of the reverse count from above.
Row(vs, j, y, k) == IF y >= 2 THEN vs - (j + Above(y, k)) ELSE j + Above(y, k)

Corner(vs, first, step, i, j, y, k) == At(vs, first, step, i + Right(y, k), Row(vs, j, y, k))

Tri(vs, first, step, i, j, y) ==
  <<Corner(vs, first, step, i, j, y, 1), Corner(vs, first, step, i, j, y, 2),
    Corner(vs, first, step, i, j, y, 3)>>

LEMMA TriIs ==
  ASSUME NEW vs, NEW first, NEW step, NEW i, NEW j, NEW y, NEW k \in 1 .. 3
  PROVE  Tri(vs, first, step, i, j, y)[k] = Corner(vs, first, step, i, j, y, k)
<1>1. k = 1 \/ k = 2 \/ k = 3
  OBVIOUS
<1>. QED
  BY <1>1 DEF Tri

LEMMA CornerIs ==
  ASSUME NEW us \in Nat, NEW vs \in Nat, NEW i \in 0 .. us - 1, NEW j \in 0 .. vs - 1,
         NEW y \in {0, 1, 2, 3}, NEW k \in 1 .. 3
  PROVE  i + Right(y, k) \in 0 .. us /\ j + Above(y, k) \in 0 .. vs /\ Row(vs, j, y, k) \in 0 .. vs
BY DEF Right, Above, Row

\* The triangles of a cell as Grid has them.
CellAt(vs, first, step, i, j, a, b) == first + ((i + a) * (vs + 1) + j + b) * step

LeftOf(vs, first, step, i, j) ==
  <<CellAt(vs, first, step, i, j, 0, 0), CellAt(vs, first, step, i, j, 1, 1), CellAt(vs, first, step, i, j, 0, 1)>>

RightOf(vs, first, step, i, j) ==
  <<CellAt(vs, first, step, i, j, 0, 0), CellAt(vs, first, step, i, j, 1, 0), CellAt(vs, first, step, i, j, 1, 1)>>

Back(t) == <<t[1], t[3], t[2]>>

LEMMA TriOfCell ==
  ASSUME NEW vs \in Nat, NEW first \in Nat, NEW step \in {1, 2}, NEW i \in Nat, NEW j \in 0 .. vs - 1
  PROVE  /\ Tri(vs, first, step, i, j, 0) = LeftOf(vs, first, step, i, j)
         /\ Tri(vs, first, step, i, j, 1) = RightOf(vs, first, step, i, j)
         /\ Tri(vs, first, step, i, j, 2) = Back(LeftOf(vs, first, step, i, vs - 1 - j))
         /\ Tri(vs, first, step, i, j, 3) = Back(RightOf(vs, first, step, i, vs - 1 - j))
<1>. DEFINE at(a, b) == CellAt(vs, first, step, i, j, a, b)
            up(a, b) == CellAt(vs, first, step, i, vs - 1 - j, a, b)
<1>1. /\ Right(0, 1) = 0 /\ Right(0, 2) = 1 /\ Right(0, 3) = 0
      /\ Right(1, 1) = 0 /\ Right(1, 2) = 1 /\ Right(1, 3) = 1
      /\ Right(2, 1) = 0 /\ Right(2, 2) = 0 /\ Right(2, 3) = 1
      /\ Right(3, 1) = 0 /\ Right(3, 2) = 1 /\ Right(3, 3) = 1
  BY DEF Right
<1>2. /\ Row(vs, j, 0, 1) = j + 0 /\ Row(vs, j, 0, 2) = j + 1 /\ Row(vs, j, 0, 3) = j + 1
      /\ Row(vs, j, 1, 1) = j + 0 /\ Row(vs, j, 1, 2) = j + 0 /\ Row(vs, j, 1, 3) = j + 1
      /\ Row(vs, j, 2, 1) = (vs - 1 - j) + 0 /\ Row(vs, j, 2, 2) = (vs - 1 - j) + 1
      /\ Row(vs, j, 2, 3) = (vs - 1 - j) + 1
      /\ Row(vs, j, 3, 1) = (vs - 1 - j) + 0 /\ Row(vs, j, 3, 2) = (vs - 1 - j) + 1
      /\ Row(vs, j, 3, 3) = (vs - 1 - j) + 0
  BY DEF Row, Above
<1>3. \A a, b \in {0, 1} :
        /\ At(vs, first, step, i + a, j + b) = at(a, b)
        /\ At(vs, first, step, i + a, (vs - 1 - j) + b) = up(a, b)
  <2>. TAKE a, b \in {0, 1}
  <2>1. (i + a) * (vs + 1) \in Int
    OBVIOUS
  <2>. QED
    BY <2>1 DEF At, Number, CellAt
<1>. HIDE DEF at, up
<1>4. Tri(vs, first, step, i, j, 0) = <<at(0, 0), at(1, 1), at(0, 1)>>
  BY <1>1, <1>2, <1>3 DEF Tri, Corner
<1>5. Tri(vs, first, step, i, j, 1) = <<at(0, 0), at(1, 0), at(1, 1)>>
  BY <1>1, <1>2, <1>3 DEF Tri, Corner
<1>6. Tri(vs, first, step, i, j, 2) = <<up(0, 0), up(0, 1), up(1, 1)>>
  BY <1>1, <1>2, <1>3 DEF Tri, Corner
<1>7. Tri(vs, first, step, i, j, 3) = <<up(0, 0), up(1, 1), up(1, 0)>>
  BY <1>1, <1>2, <1>3 DEF Tri, Corner
<1>. QED
  BY <1>4, <1>5, <1>6, <1>7 DEF at, up, LeftOf, RightOf, Back

LEMMA GridIs ==
  ASSUME NEW us \in Nat, NEW vs \in Nat, NEW first \in Nat, NEW step \in {1, 2}
  PROVE  Grid(us, vs, first, step)
           = {Tri(vs, first, step, l[1][1], l[1][2], l[2]) : l \in Labels(us, vs)}
<1>1. ASSUME NEW c \in Cells(us, vs)
      PROVE  CellTriangles(c, vs, first, step)
               = {Tri(vs, first, step, c[1], c[2], b) : b \in {0, 1}}
  <2>1. c[1] \in Nat /\ c[2] \in 0 .. vs - 1
    BY DEF Cells
  <2>2. CellTriangles(c, vs, first, step)
          = {LeftOf(vs, first, step, c[1], c[2]), RightOf(vs, first, step, c[1], c[2])}
    BY DEF CellTriangles, LeftOf, RightOf, CellAt
  <2>3. /\ Tri(vs, first, step, c[1], c[2], 0) = LeftOf(vs, first, step, c[1], c[2])
        /\ Tri(vs, first, step, c[1], c[2], 1) = RightOf(vs, first, step, c[1], c[2])
    <3>. DEFINE i == c[1]  j == c[2]
    <3>1. i \in Nat /\ j \in 0 .. vs - 1
      BY <2>1
    <3>. HIDE DEF i, j
    <3>2. /\ Tri(vs, first, step, i, j, 0) = LeftOf(vs, first, step, i, j)
          /\ Tri(vs, first, step, i, j, 1) = RightOf(vs, first, step, i, j)
      BY <3>1, TriOfCell
    <3>. QED
      BY <3>2 DEF i, j
  <2>. QED
    BY <2>2, <2>3
<1>2. ASSUME NEW t
      PROVE  t \in Grid(us, vs, first, step)
               <=> \E c \in Cells(us, vs), b \in {0, 1} : t = Tri(vs, first, step, c[1], c[2], b)
  <2>1. t \in Grid(us, vs, first, step) <=> \E c \in Cells(us, vs) : t \in CellTriangles(c, vs, first, step)
    BY DEF Grid
  <2>. QED
    BY <1>1, <2>1
<1>3. \A c \in Cells(us, vs), b \in {0, 1} : <<c, b>> \in Labels(us, vs)
  BY DEF Labels
<1>4. \A l \in Labels(us, vs) : l[1] \in Cells(us, vs) /\ l[2] \in {0, 1}
  BY DEF Labels
<1>5. ASSUME NEW t \in Grid(us, vs, first, step)
      PROVE  t \in {Tri(vs, first, step, l[1][1], l[1][2], l[2]) : l \in Labels(us, vs)}
  <2>1. PICK c \in Cells(us, vs), b \in {0, 1} : t = Tri(vs, first, step, c[1], c[2], b)
    BY <1>2
  <2>. DEFINE l == <<c, b>>
  <2>2. l \in Labels(us, vs) /\ l[1] = c /\ l[2] = b
    BY <1>3
  <2>. HIDE DEF l
  <2>. QED
    BY <2>1, <2>2
<1>6. ASSUME NEW l \in Labels(us, vs)
      PROVE  Tri(vs, first, step, l[1][1], l[1][2], l[2]) \in Grid(us, vs, first, step)
  BY <1>2, <1>4
<1>. QED
  BY <1>5, <1>6

\* The reverse, whose cells are labelled from above.
LEMMA BackGridIs ==
  ASSUME NEW us \in Nat, NEW vs \in Nat, NEW first \in Nat, NEW step \in {1, 2}
  PROVE  Reversed(Grid(us, vs, first, step))
           = {Tri(vs, first, step, l[1][1], l[1][2], l[2] + 2) : l \in Labels(us, vs)}
<1>. DEFINE up(l) == <<<<l[1][1], vs - 1 - l[1][2]>>, l[2]>>
            tri(l) == Tri(vs, first, step, l[1][1], l[1][2], l[2])
            rev(l) == Tri(vs, first, step, l[1][1], l[1][2], l[2] + 2)
<1>1. \A l \in Labels(us, vs) : up(l) \in Labels(us, vs) /\ up(up(l)) = l
  <2>. TAKE l \in Labels(us, vs)
  <2>1. /\ l[1][1] \in 0 .. us - 1 /\ l[1][2] \in 0 .. vs - 1 /\ l[2] \in {0, 1}
        /\ l = <<<<l[1][1], l[1][2]>>, l[2]>>
    BY LabelIs
  <2>2. vs - 1 - (vs - 1 - l[1][2]) = l[1][2] /\ vs - 1 - l[1][2] \in 0 .. vs - 1
    BY <2>1
  <2>3. up(l) \in Labels(us, vs)
    BY <2>1, <2>2 DEF Labels, Cells
  <2>4. up(up(l)) = <<<<l[1][1], vs - 1 - (vs - 1 - l[1][2])>>, l[2]>>
    OBVIOUS
  <2>. QED
    BY <2>1, <2>2, <2>3, <2>4
<1>2. ASSUME NEW l \in Labels(us, vs) PROVE Back(tri(up(l))) = rev(l)
  <2>1. l[1][1] \in Nat /\ l[1][2] \in 0 .. vs - 1 /\ l[2] \in {0, 1} /\ vs - 1 - l[1][2] \in 0 .. vs - 1
    BY LabelIs
  <2>. DEFINE i == l[1][1]  j == l[1][2]  d == vs - 1 - j  b == l[2]
  <2>2. i \in Nat /\ j \in 0 .. vs - 1 /\ d \in 0 .. vs - 1 /\ b \in {0, 1}
    BY <2>1
  <2>3. Back(Tri(vs, first, step, i, d, b)) = Tri(vs, first, step, i, j, b + 2)
    <3>. HIDE DEF i, d, j, b
    <3>1. /\ Tri(vs, first, step, i, d, 0) = LeftOf(vs, first, step, i, d)
          /\ Tri(vs, first, step, i, d, 1) = RightOf(vs, first, step, i, d)
      BY <2>2, TriOfCell
    <3>2. /\ Tri(vs, first, step, i, j, 2) = Back(LeftOf(vs, first, step, i, d))
          /\ Tri(vs, first, step, i, j, 3) = Back(RightOf(vs, first, step, i, d))
      BY <2>2, TriOfCell DEF d
    <3>. QED
      BY <2>2, <3>1, <3>2
  <2>. QED
    BY <2>3
<1>3. Reversed(Grid(us, vs, first, step)) = {Back(tri(l)) : l \in Labels(us, vs)}
  <2>1. Grid(us, vs, first, step) = {tri(l) : l \in Labels(us, vs)}
    BY GridIs
  <2>. HIDE DEF tri
  <2>2. \A x : x \in Reversed(Grid(us, vs, first, step)) <=> \E t \in Grid(us, vs, first, step) : x = Back(t)
    BY DEF Reversed, Back
  <2>. QED
    BY <2>1, <2>2
<1>. HIDE DEF up, tri, rev
<1>4. {Back(tri(l)) : l \in Labels(us, vs)} = {rev(l) : l \in Labels(us, vs)}
  <2>1. ASSUME NEW l \in Labels(us, vs) PROVE Back(tri(l)) \in {rev(p) : p \in Labels(us, vs)}
    <3>1. up(l) \in Labels(us, vs) /\ Back(tri(up(up(l)))) = rev(up(l)) /\ up(up(l)) = l
      BY <1>1, <1>2
    <3>. QED
      BY <3>1
  <2>2. ASSUME NEW l \in Labels(us, vs) PROVE rev(l) \in {Back(tri(p)) : p \in Labels(us, vs)}
    BY <1>1, <1>2, Zenon
  <2>. QED
    BY <2>1, <2>2, Zenon
<1>. QED
  BY <1>3, <1>4 DEF rev

\* No two triangles of a grid are the same.
TrisApart(us, vs, first, step, d) ==
  \A i, i2 \in 0 .. us - 1 : \A j, j2 \in 0 .. vs - 1 : \A b, b2 \in {0, 1} :
    Tri(vs, first, step, i, j, b + d) = Tri(vs, first, step, i2, j2, b2 + d)
      => i = i2 /\ j = j2 /\ b = b2

LEMMA OneLabel ==
  ASSUME NEW us \in Nat, NEW vs \in Nat, NEW first \in Nat, NEW step \in {1, 2}, NEW d \in {0, 2}
  PROVE  TrisApart(us, vs, first, step, d)
<1>0. \A p, p2 \in Nat : \A q, q2 \in 0 .. vs :
        At(vs, first, step, p, q) = At(vs, first, step, p2, q2) => p = p2 /\ q = q2
  <2>. TAKE p, p2 \in Nat
  <2>. TAKE q, q2 \in 0 .. vs
  <2>. QED
    BY OnePlace
<1>. SUFFICES ASSUME NEW i \in 0 .. us - 1, NEW i2 \in 0 .. us - 1,
                     NEW j \in 0 .. vs - 1, NEW j2 \in 0 .. vs - 1,
                     NEW b \in {0, 1}, NEW b2 \in {0, 1},
                     Tri(vs, first, step, i, j, b + d) = Tri(vs, first, step, i2, j2, b2 + d)
              PROVE  i = i2 /\ j = j2 /\ b = b2
  BY DEF TrisApart
<1>. DEFINE y == b + d  z == b2 + d
<1>1. y \in {0, 1, 2, 3} /\ z \in {0, 1, 2, 3}
  OBVIOUS
<1>2. ASSUME NEW k \in 1 .. 3
      PROVE  i + Right(y, k) = i2 + Right(z, k) /\ Row(vs, j, y, k) = Row(vs, j2, z, k)
  <2>1. Corner(vs, first, step, i, j, y, k) = Corner(vs, first, step, i2, j2, z, k)
    <3>. HIDE DEF y, z
    <3>1. Tri(vs, first, step, i, j, y) = Tri(vs, first, step, i2, j2, z)
      BY DEF y, z
    <3>. QED
      BY <3>1, TriIs
  <2>. DEFINE p == i + Right(y, k)  q == Row(vs, j, y, k)  p2 == i2 + Right(z, k)  q2 == Row(vs, j2, z, k)
  <2>2. p \in 0 .. us /\ q \in 0 .. vs /\ p2 \in 0 .. us /\ q2 \in 0 .. vs
    <3>. HIDE DEF y, z
    <3>. QED
      BY <1>1, CornerIs
  <2>3. At(vs, first, step, p, q) = At(vs, first, step, p2, q2)
    BY <2>1 DEF Corner
  <2>. HIDE DEF p, q, p2, q2
  <2>4. p = p2 /\ q = q2
    <3>1. p \in Nat /\ p2 \in Nat
      BY <2>2
    <3>. QED
      <4>1. At(vs, first, step, p, q) = At(vs, first, step, p2, q2) => p = p2 /\ q = q2
        BY <1>0, <2>2, <3>1
      <4>. QED
        BY <2>3, <4>1
  <2>. QED
    BY <2>4 DEF p, q, p2, q2
<1>3. 1 \in 1 .. 3 /\ 2 \in 1 .. 3 /\ 3 \in 1 .. 3
  OBVIOUS
<1>4. /\ i + Right(y, 1) = i2 + Right(z, 1) /\ Row(vs, j, y, 1) = Row(vs, j2, z, 1)
      /\ i + Right(y, 2) = i2 + Right(z, 2) /\ Row(vs, j, y, 2) = Row(vs, j2, z, 2)
  BY <1>2, <1>3
<1>. QED
  BY <1>4 DEF Right, Row, Above

-----------------------------------------------------------------------------
(* Places of round shapes.                                                 *)

LEMMA ColumnIs ==
  ASSUME NEW us \in Nat, us >= 1, NEW i \in 0 .. us
  PROVE  i % us = IF i = us THEN 0 ELSE i
<1>1. 0 \in Nat /\ 1 \in Nat /\ us > 0 /\ 0 <= 1 /\ 1 <= 1 /\ 0 < us /\ i \in Nat
  OBVIOUS
<1>2. (1 * us + 0) % us = 0
  BY <1>1, NumberIs
<1>3. CASE i < us
  <2>1. (0 * us + i) % us = i
    BY <1>1, <1>3, NumberIs
  <2>2. 0 * us + i = i
    BY <1>1
  <2>. QED
    BY <2>1, <2>2, <1>3
<1>4. 1 * us + 0 = us
  OBVIOUS
<1>. QED
  BY <1>2, <1>3, <1>4

\* Two columns are one: the first and the last.
SameColumn(us, i, i2) == i = i2 \/ (i = 0 /\ i2 = us) \/ (i = us /\ i2 = 0)

SamePlace(us, i, r, y, i2, r2, y2) == y = y2 /\ r = r2 /\ (r = 0 \/ SameColumn(us, i, i2))

LEMMA RoundPlace ==
  ASSUME NEW us \in Nat, us >= 1, NEW i \in 0 .. us, NEW i2 \in 0 .. us,
         NEW r \in Nat, NEW r2 \in Nat, NEW y, NEW y2
  PROVE  Round(us, i, r, y) = Round(us, i2, r2, y2) <=> SamePlace(us, i, r, y, i2, r2, y2)
<1>. DEFINE a == i % us  b == i2 % us
<1>1. a = (IF i = us THEN 0 ELSE i) /\ b = (IF i2 = us THEN 0 ELSE i2)
  BY ColumnIs
<1>2. a = b <=> SameColumn(us, i, i2)
  <2>. HIDE DEF a, b
  <2>. QED
    BY <1>1 DEF SameColumn
<1>3. /\ Round(us, i, r, y) = IF r = 0 THEN <<0, 0, y>> ELSE <<a, r, y>>
      /\ Round(us, i2, r2, y2) = IF r2 = 0 THEN <<0, 0, y2>> ELSE <<b, r2, y2>>
  BY DEF Round
<1>. HIDE DEF a, b
<1>4. CASE r = 0
  BY <1>3, <1>4 DEF SamePlace
<1>5. CASE r # 0
  BY <1>2, <1>3, <1>5 DEF SamePlace
<1>. QED
  BY <1>4, <1>5

\* The column and the row of a corner, in the rows of the whole shape.
Side(m, i, j, b, k) == i + Right(Kind(m, j, b), k)

Up(m, j, b, k) == j + Above(Kind(m, j, b), k)

LEMMA CornerPlaceIs ==
  ASSUME NEW us \in Nat, NEW rows \in Nat, NEW m \in Nat, NEW i \in 0 .. us - 1, NEW j \in 0 .. rows - 1,
         NEW b \in {0, 1}, NEW k \in 1 .. 3
  PROVE  Side(m, i, j, b, k) \in 0 .. us /\ Up(m, j, b, k) \in 0 .. rows
<1>1. Kind(m, j, b) \in 0 .. 3
  BY DEF Kind
<1>. DEFINE y == Kind(m, j, b)
<1>. HIDE DEF y
<1>2. Right(y, k) \in 0 .. 1 /\ Above(y, k) \in 0 .. 1
  BY <1>1, CornersAre DEF y
<1>. QED
  BY <1>2 DEF y, Side, Up

\* Rows that are circles of radius R at height Y, no two the same, and end in a
\* point at either end.
RowsApart(rows, R, Y) ==
  /\ \A j \in 0 .. rows : R[j] \in Nat /\ (R[j] = 0 <=> j \in {0, rows})
  /\ \A j, j2 \in 0 .. rows : R[j] = R[j2] /\ Y[j] = Y[j2] => j = j2

PlacesAre(us, rows, m, V, tri, R, Y) ==
  \A l \in Labels(us, rows) : \A k \in 1 .. 3 :
    V[tri[l][k]] = Round(us, Side(m, l[1][1], l[1][2], l[2], k),
                         R[Up(m, l[1][2], l[2], k)], Y[Up(m, l[1][2], l[2], k)])

LEMMA RoundShapeIsClosed ==
  ASSUME NEW us \in Nat, us >= 3, NEW rows \in Nat, rows >= 2, NEW m \in Nat,
         NEW V, NEW tri, NEW T, T = Surface(Labels(us, rows), tri), IsFiniteSet(T),
         NEW R, NEW Y, RowsApart(rows, R, Y), PlacesAre(us, rows, m, V, tri, R, Y)
  PROVE  Closed(V, T)
<1>0. \A i, i2 \in 0 .. us : \A r, r2 \in Nat : \A y, y2 :
        Round(us, i, r, y) = Round(us, i2, r2, y2) <=> SamePlace(us, i, r, y, i2, r2, y2)
  <2>1. us >= 1
    OBVIOUS
  <2>. QED
    BY <2>1, RoundPlace, Zenon
<1>1. ASSUME NEW l \in Labels(us, rows), NEW p \in Labels(us, rows), NEW k \in 1 .. 3, NEW q \in 1 .. 3
      PROVE  V[tri[l][k]] = V[tri[p][q]]
               <=> Touch(us, rows, m, l[1][1], l[1][2], l[2], k, p[1][1], p[1][2], p[2], q)
  <2>. DEFINE i == l[1][1]  j == l[1][2]  b == l[2]
              i2 == p[1][1]  j2 == p[1][2]  b2 == p[2]
              s == Side(m, i, j, b, k)  u == Up(m, j, b, k)
              s2 == Side(m, i2, j2, b2, q)  u2 == Up(m, j2, b2, q)
  <2>1. /\ i \in 0 .. us - 1 /\ j \in 0 .. rows - 1 /\ b \in {0, 1}
        /\ i2 \in 0 .. us - 1 /\ j2 \in 0 .. rows - 1 /\ b2 \in {0, 1}
    BY LabelIs
  <2>2. V[tri[l][k]] = Round(us, s, R[u], Y[u]) /\ V[tri[p][q]] = Round(us, s2, R[u2], Y[u2])
    BY DEF PlacesAre
  <2>3. Touch(us, rows, m, i, j, b, k, i2, j2, b2, q) <=> Meet(us, rows, s, u, s2, u2)
    BY DEF Touch, Side, Up
  <2>4. s \in 0 .. us /\ u \in 0 .. rows /\ s2 \in 0 .. us /\ u2 \in 0 .. rows
    <3>. HIDE DEF i, j, b, i2, j2, b2
    <3>. QED
      BY <2>1, CornerPlaceIs
  <2>. DEFINE r == R[u]  y == Y[u]  r2 == R[u2]  y2 == Y[u2]
  <2>. HIDE DEF i, j, b, i2, j2, b2, s, u, s2, u2
  <2>5. r \in Nat /\ r2 \in Nat /\ (r = 0 <=> u \in {0, rows}) /\ (r = r2 /\ y = y2 => u = u2)
        /\ (u = u2 => r = r2 /\ y = y2)
    BY <2>4 DEF RowsApart
  <2>6. Round(us, s, r, y) = Round(us, s2, r2, y2) <=> SamePlace(us, s, r, y, s2, r2, y2)
    <3>. HIDE DEF r, y, r2, y2
    <3>. QED
      <4>1. s \in 0 .. us /\ s2 \in 0 .. us /\ r \in Nat /\ r2 \in Nat
        BY <2>4, <2>5
      <4>. QED
        BY <1>0, <4>1, Zenon
  <2>7. Meet(us, rows, s, u, s2, u2) <=> u = u2 /\ (u \in {0, rows} \/ SameColumn(us, s, s2))
    BY DEF Meet, SameColumn
  <2>8. Round(us, s, r, y) = Round(us, s2, r2, y2) <=> Meet(us, rows, s, u, s2, u2)
    <3>. HIDE DEF r, y, r2, y2
    <3>. QED
      BY <2>5, <2>6, <2>7 DEF SamePlace
  <2>9. V[tri[l][k]] = V[tri[p][q]] <=> Touch(us, rows, m, i, j, b, k, i2, j2, b2, q)
    BY <2>2, <2>3, <2>8, Zenon DEF r, y, r2, y2
  <2>. QED
    BY <2>9 DEF i, j, b, i2, j2, b2
<1>2. RoundTouching(us, rows, m, V, tri)
  BY <1>1 DEF RoundTouching
<1>. QED
  BY <1>2, RoundIsClosed

-----------------------------------------------------------------------------
(* A shape is put together from grids, one above the other.  The labels of *)
(* one of them, whose rows begin with row a; it is reversed from row m on. *)

PartLabels(us, a, vs) == {l \in Labels(us, a + vs) : l[1][2] >= a}

IsPart(us, vs, a, m, first, step, tri) ==
  \A l \in PartLabels(us, a, vs) :
    tri[l] = Tri(vs, first, step, l[1][1], l[1][2] - a, Kind(m, l[1][2], l[2]))

LEMMA PartLabelIs ==
  ASSUME NEW us \in Nat, NEW vs \in Nat, NEW a \in Nat, NEW l \in PartLabels(us, a, vs)
  PROVE  /\ l[1][1] \in 0 .. us - 1 /\ l[1][2] \in Nat /\ l[1][2] - a \in 0 .. vs - 1
         /\ l[2] \in {0, 1} /\ l = <<<<l[1][1], l[1][2]>>, l[2]>>
BY LabelIs DEF PartLabels

\* A grid, or its reverse.
GridOrBack(us, vs, first, step, d) ==
  IF d = 2 THEN Reversed(Grid(us, vs, first, step)) ELSE Grid(us, vs, first, step)

LEMMA PartIs ==
  ASSUME NEW us \in Nat, NEW vs \in Nat, NEW a \in Nat, NEW m \in Nat, NEW first \in Nat, NEW step \in {1, 2},
         NEW d \in {0, 2}, IF d = 2 THEN m <= a ELSE m >= a + vs,
         NEW tri, IsPart(us, vs, a, m, first, step, tri)
  PROVE  Surface(PartLabels(us, a, vs), tri) = GridOrBack(us, vs, first, step, d)
<1>. DEFINE t(l) == Tri(vs, first, step, l[1][1], l[1][2], l[2] + d)
            down(l) == <<<<l[1][1], l[1][2] - a>>, l[2]>>
            up(l) == <<<<l[1][1], l[1][2] + a>>, l[2]>>
<1>1. GridOrBack(us, vs, first, step, d) = {t(l) : l \in Labels(us, vs)}
  <2>1. CASE d = 2
    BY <2>1, BackGridIs DEF GridOrBack
  <2>2. CASE d = 0
    <3>1. \A l \in Labels(us, vs) : l[2] + 0 = l[2]
      BY LabelIs
    <3>. QED
      BY <2>2, <3>1, GridIs DEF GridOrBack
  <2>. QED
    BY <2>1, <2>2
<1>2. ASSUME NEW l \in PartLabels(us, a, vs)
      PROVE  down(l) \in Labels(us, vs) /\ tri[l] = t(down(l))
  <2>1. /\ l[1][1] \in 0 .. us - 1 /\ l[1][2] \in Nat /\ l[1][2] - a \in 0 .. vs - 1 /\ l[2] \in {0, 1}
    BY PartLabelIs
  <2>2. Kind(m, l[1][2], l[2]) = l[2] + d
    BY <2>1 DEF Kind
  <2>3. down(l) \in Labels(us, vs)
    BY <2>1 DEF Labels, Cells
  <2>. QED
    BY <2>2, <2>3 DEF IsPart
<1>3. ASSUME NEW l \in Labels(us, vs)
      PROVE  up(l) \in PartLabels(us, a, vs) /\ tri[up(l)] = t(l)
  <2>1. l[1][1] \in 0 .. us - 1 /\ l[1][2] \in 0 .. vs - 1 /\ l[2] \in {0, 1}
        /\ l = <<<<l[1][1], l[1][2]>>, l[2]>>
    BY LabelIs
  <2>2. l[1][2] + a \in 0 .. a + vs - 1 /\ l[1][2] + a >= a /\ (l[1][2] + a) - a = l[1][2]
    BY <2>1
  <2>3. up(l) \in PartLabels(us, a, vs)
    BY <2>1, <2>2 DEF PartLabels, Labels, Cells
  <2>4. down(up(l)) = l
    BY <2>1, <2>2
  <2>5. tri[up(l)] = t(down(up(l)))
    BY <1>2, <2>3
  <2>. QED
    BY <2>3, <2>4, <2>5
<1>. HIDE DEF t, down, up
<1>4. Surface(PartLabels(us, a, vs), tri) = {t(l) : l \in Labels(us, vs)}
  <2>1. ASSUME NEW x \in Surface(PartLabels(us, a, vs), tri) PROVE x \in {t(l) : l \in Labels(us, vs)}
    BY <1>2 DEF Surface
  <2>2. ASSUME NEW x \in {t(l) : l \in Labels(us, vs)} PROVE x \in Surface(PartLabels(us, a, vs), tri)
    BY <1>3 DEF Surface
  <2>. QED
    BY <2>1, <2>2
<1>. QED
  BY <1>1, <1>4

\* No two of its triangles are the same.
LEMMA PartOnce ==
  ASSUME NEW us \in Nat, NEW vs \in Nat, NEW a \in Nat, NEW m \in Nat, NEW first \in Nat, NEW step \in {1, 2},
         NEW d \in {0, 2}, IF d = 2 THEN m <= a ELSE m >= a + vs,
         NEW tri, IsPart(us, vs, a, m, first, step, tri)
  PROVE  OnceEach(PartLabels(us, a, vs), tri)
<1>1. TrisApart(us, vs, first, step, d)
  BY OneLabel
<1>. SUFFICES ASSUME NEW l \in PartLabels(us, a, vs), NEW p \in PartLabels(us, a, vs)
              PROVE  tri[l] = tri[p] => l = p
  BY DEF OnceEach
<1>2. ASSUME NEW x \in PartLabels(us, a, vs)
      PROVE  tri[x] = Tri(vs, first, step, x[1][1], x[1][2] - a, x[2] + d)
  <2>1. x[1][2] \in Nat /\ x[1][2] - a \in 0 .. vs - 1 /\ x[2] \in {0, 1}
    BY PartLabelIs
  <2>2. Kind(m, x[1][2], x[2]) = x[2] + d
    BY <2>1 DEF Kind
  <2>. QED
    BY <2>2 DEF IsPart
<1>3. /\ l[1][1] \in 0 .. us - 1 /\ l[1][2] \in Nat /\ l[1][2] - a \in 0 .. vs - 1 /\ l[2] \in {0, 1}
      /\ l = <<<<l[1][1], l[1][2]>>, l[2]>>
      /\ p[1][1] \in 0 .. us - 1 /\ p[1][2] \in Nat /\ p[1][2] - a \in 0 .. vs - 1 /\ p[2] \in {0, 1}
      /\ p = <<<<p[1][1], p[1][2]>>, p[2]>>
  BY PartLabelIs
<1>4. ASSUME tri[l] = tri[p]
      PROVE  l[1][1] = p[1][1] /\ l[1][2] - a = p[1][2] - a /\ l[2] = p[2]
  <2>1. Tri(vs, first, step, l[1][1], l[1][2] - a, l[2] + d) = Tri(vs, first, step, p[1][1], p[1][2] - a, p[2] + d)
    BY <1>2, <1>4
  <2>. QED
    <3>. DEFINE i == l[1][1]  j == l[1][2] - a  b == l[2]  i2 == p[1][1]  j2 == p[1][2] - a  b2 == p[2]
    <3>1. /\ i \in 0 .. us - 1 /\ j \in 0 .. vs - 1 /\ b \in {0, 1}
          /\ i2 \in 0 .. us - 1 /\ j2 \in 0 .. vs - 1 /\ b2 \in {0, 1}
          /\ Tri(vs, first, step, i, j, b + d) = Tri(vs, first, step, i2, j2, b2 + d)
      BY <1>3, <2>1
    <3>2. i = i2 /\ j = j2 /\ b = b2
      <4>. HIDE DEF i, j, b, i2, j2, b2
      <4>. QED
        BY <1>1, <3>1 DEF TrisApart
    <3>. QED
      BY <3>2
<1>. QED
  <2>. DEFINE j == l[1][2]  j2 == p[1][2]
  <2>1. j \in Nat /\ j2 \in Nat
    BY <1>3
  <2>2. j - a = j2 - a => j = j2
    <3>. HIDE DEF j, j2
    <3>. QED
      BY <2>1
  <2>. QED
    BY <1>3, <1>4, <2>2

\* Where its corners are.
PartRow(vs, a, d, u) == IF d = 2 THEN (a + vs) - u ELSE u - a

CornerFits(us, vs, a, m, first, step, d, tri, l, k) ==
  LET s == Side(m, l[1][1], l[1][2], l[2], k)
      u == Up(m, l[1][2], l[2], k)
  IN  /\ tri[l][k] = At(vs, first, step, s, PartRow(vs, a, d, u))
      /\ s \in 0 .. us /\ u \in Nat /\ u >= a /\ u <= a + vs
      /\ PartRow(vs, a, d, u) \in 0 .. vs

LEMMA PartCorner ==
  ASSUME NEW us \in Nat, NEW vs \in Nat, NEW a \in Nat, NEW m \in Nat, NEW first, NEW step,
         NEW d \in {0, 2}, IF d = 2 THEN m <= a ELSE m >= a + vs,
         NEW tri, IsPart(us, vs, a, m, first, step, tri),
         NEW l \in PartLabels(us, a, vs), NEW k \in 1 .. 3
  PROVE  CornerFits(us, vs, a, m, first, step, d, tri, l, k)
<1>. DEFINE i == l[1][1]  j == l[1][2]  b == l[2]  y == Kind(m, j, b)
<1>1. i \in 0 .. us - 1 /\ j \in Nat /\ j - a \in 0 .. vs - 1 /\ b \in {0, 1}
  BY PartLabelIs
<1>2. tri[l][k] = Corner(vs, first, step, i, j - a, y, k)
  BY TriIs DEF IsPart
<1>. HIDE DEF i, j, b
<1>3. y = b + d
  BY <1>1 DEF Kind
<1>. DEFINE r == Right(y, k)  t == Above(y, k)
<1>4. r \in 0 .. 1 /\ t \in 0 .. 1
  <2>1. y \in 0 .. 3
    BY <1>1, <1>3
  <2>. HIDE DEF y
  <2>. QED
    BY <2>1, CornersAre
<1>5. Row(vs, j - a, y, k) = IF d = 2 THEN vs - ((j - a) + t) ELSE (j - a) + t
  BY <1>1, <1>3 DEF Row
<1>6. Side(m, i, j, b, k) = i + r /\ Up(m, j, b, k) = j + t
  BY DEF Side, Up
<1>. HIDE DEF y, r, t
<1>7. Row(vs, j - a, y, k) = PartRow(vs, a, d, j + t)
  BY <1>1, <1>4, <1>5 DEF PartRow
<1>8. i + r \in 0 .. us /\ j + t \in Nat /\ j + t >= a /\ j + t <= a + vs /\ PartRow(vs, a, d, j + t) \in 0 .. vs
  BY <1>1, <1>4 DEF PartRow
<1>9. tri[l][k] = At(vs, first, step, i + r, Row(vs, j - a, y, k))
  BY <1>2 DEF Corner, r
<1>10. /\ tri[l][k] = At(vs, first, step, Side(m, i, j, b, k), PartRow(vs, a, d, Up(m, j, b, k)))
       /\ Side(m, i, j, b, k) \in 0 .. us /\ Up(m, j, b, k) \in Nat /\ Up(m, j, b, k) >= a /\ Up(m, j, b, k) <= a + vs
       /\ PartRow(vs, a, d, Up(m, j, b, k)) \in 0 .. vs
  BY <1>6, <1>7, <1>8, <1>9
<1>. QED
  BY <1>10 DEF i, j, b, CornerFits

BackFrom(m, a, vs, d) == d \in {0, 2} /\ IF d = 2 THEN m <= a ELSE m >= a + vs

PartFits(us, vs, a, m, first, step, d, tri) ==
  /\ Surface(PartLabels(us, a, vs), tri) = GridOrBack(us, vs, first, step, d)
  /\ OnceEach(PartLabels(us, a, vs), tri)
  /\ \A l \in PartLabels(us, a, vs) : \A k \in 1 .. 3 : CornerFits(us, vs, a, m, first, step, d, tri, l, k)

LEMMA PartAll ==
  ASSUME NEW us \in Nat, NEW vs \in Nat, NEW a \in Nat, NEW m \in Nat, NEW first \in Nat, NEW step \in {1, 2},
         NEW d, BackFrom(m, a, vs, d), NEW tri, IsPart(us, vs, a, m, first, step, tri)
  PROVE  PartFits(us, vs, a, m, first, step, d, tri)
<1>1. d \in {0, 2} /\ IF d = 2 THEN m <= a ELSE m >= a + vs
  BY DEF BackFrom
<1>2. Surface(PartLabels(us, a, vs), tri) = GridOrBack(us, vs, first, step, d)
  BY <1>1, PartIs
<1>3. OnceEach(PartLabels(us, a, vs), tri)
  BY <1>1, PartOnce
<1>4. ASSUME NEW l \in PartLabels(us, a, vs), NEW k \in 1 .. 3
      PROVE  CornerFits(us, vs, a, m, first, step, d, tri, l, k)
  BY <1>1, PartCorner
<1>. QED
  BY <1>2, <1>3, <1>4 DEF PartFits

-----------------------------------------------------------------------------
(* Each of the shapes is as it should be.                                  *)

IndicesFit(V, T) == \A t \in T : \A k \in 1 .. 3 : t[k] \in DOMAIN V

\* What SurfaceIsClosed says of a shape.
Good(V, T, n, full) == Cardinality(T) = n /\ IndicesFit(V, T) /\ (full => Closed(V, T))

InDomain(Lab, tri, V) == \A l \in Lab : \A k \in 1 .. 3 : tri[l][k] \in DOMAIN V

LEMMA CountIs ==
  ASSUME NEW us \in Nat, NEW rows \in Nat, NEW V, NEW tri, NEW T,
         T = Surface(Labels(us, rows), tri), OnceEach(Labels(us, rows), tri), InDomain(Labels(us, rows), tri, V)
  PROVE  IsFiniteSet(T) /\ Cardinality(T) = us * rows * 2 /\ IndicesFit(V, T)
<1>1. IsFiniteSet(Labels(us, rows)) /\ Cardinality(Labels(us, rows)) = us * rows * 2
  BY LabelsAre
<1>2. \A l, p \in Labels(us, rows) : tri[l] = tri[p] => l = p
  BY DEF OnceEach
<1>3. IsFiniteSet(T) /\ Cardinality(T) = Cardinality(Labels(us, rows))
  BY <1>1, <1>2, Counted
<1>4. IndicesFit(V, T)
  BY DEF IndicesFit, InDomain, Surface
<1>. QED
  BY <1>1, <1>3, <1>4

\* The place of a vertex among those of its grid.
AtFits(us, vs, first, p, q, at) ==
  /\ at \in Nat /\ at >= first /\ at - first < (us + 1) * (vs + 1)
  /\ (at - first) \div (vs + 1) = p /\ (at - first) % (vs + 1) = q

LEMMA AtIs ==
  ASSUME NEW us \in Nat, NEW vs \in Nat, NEW first \in Nat, NEW p \in 0 .. us, NEW q \in 0 .. vs
  PROVE  AtFits(us, vs, first, p, q, At(vs, first, 1, p, q))
<1>. DEFINE n == Number(vs, p, q)
<1>1. n \in Nat /\ n < (us + 1) * (vs + 1) /\ n \div (vs + 1) = p /\ n % (vs + 1) = q
  BY NumbersAre
<1>2. At(vs, first, 1, p, q) = first + n * 1
  BY DEF At
<1>. DEFINE at == At(vs, first, 1, p, q)
<1>. HIDE DEF n, at
<1>3. at \in Nat /\ at >= first /\ at - first = n
  BY <1>1, <1>2 DEF at
<1>4. AtFits(us, vs, first, p, q, at)
  BY <1>1, <1>3 DEF AtFits
<1>. QED
  BY <1>4 DEF at

\* The sphere and the torus are the reverse of one grid.
GlobeFits(us, vs, tri) ==
  /\ Reversed(Grid(us, vs, 0, 1)) = Surface(Labels(us, vs), tri)
  /\ OnceEach(Labels(us, vs), tri)
  /\ \A l \in Labels(us, vs) : \A k \in 1 .. 3 :
       LET s == Side(0, l[1][1], l[1][2], l[2], k)
           u == Up(0, l[1][2], l[2], k)
       IN  s \in 0 .. us /\ u \in 0 .. vs /\ AtFits(us, vs, 0, s, vs - u, tri[l][k])

LEMMA GlobeIs ==
  ASSUME NEW us \in Nat, NEW vs \in Nat
  PROVE  \E tri : GlobeFits(us, vs, tri)
<1>. DEFINE Lab == Labels(us, vs)
            tri == [l \in Lab |-> Tri(vs, 0, 1, l[1][1], l[1][2], l[2] + 2)]
            T == Reversed(Grid(us, vs, 0, 1))
<1>1. PartLabels(us, 0, vs) = Lab
  BY LabelIs DEF PartLabels
<1>2. IsPart(us, vs, 0, 0, 0, 1, tri)
  <2>1. ASSUME NEW l \in Lab
        PROVE  tri[l] = Tri(vs, 0, 1, l[1][1], l[1][2] - 0, Kind(0, l[1][2], l[2]))
    <3>1. l[1][2] \in 0 .. vs - 1 /\ l[2] \in {0, 1}
      BY LabelIs
    <3>. DEFINE j == l[1][2]  b == l[2]
    <3>2. j - 0 = j /\ Kind(0, j, b) = b + 2
      <4>1. j \in 0 .. vs - 1 /\ b \in {0, 1}
        BY <3>1
      <4>. HIDE DEF j, b
      <4>. QED
        BY <4>1 DEF Kind
    <3>. QED
      BY <3>2
  <2>. QED
    BY <1>1, <2>1 DEF IsPart
<1>. HIDE DEF tri
<1>0. PartFits(us, vs, 0, 0, 0, 1, 2, tri)
  <2>1. BackFrom(0, 0, vs, 2) /\ 0 \in Nat /\ 1 \in {1, 2}
    BY DEF BackFrom
  <2>. QED
    BY <1>2, <2>1, PartAll
<1>3. T = Surface(Lab, tri)
  BY <1>0, <1>1 DEF PartFits, GridOrBack
<1>4. OnceEach(Lab, tri)
  BY <1>0, <1>1 DEF PartFits, OnceEach
<1>5. ASSUME NEW l \in Lab, NEW k \in 1 .. 3
      PROVE  LET s == Side(0, l[1][1], l[1][2], l[2], k)
                 u == Up(0, l[1][2], l[2], k)
             IN  s \in 0 .. us /\ u \in 0 .. vs /\ AtFits(us, vs, 0, s, vs - u, tri[l][k])
  <2>. DEFINE s == Side(0, l[1][1], l[1][2], l[2], k)  u == Up(0, l[1][2], l[2], k)
  <2>1. /\ tri[l][k] = At(vs, 0, 1, s, PartRow(vs, 0, 2, u)) /\ s \in 0 .. us
        /\ u \in Nat /\ u <= 0 + vs
    BY <1>0, <1>1 DEF PartFits, CornerFits
  <2>. DEFINE n == tri[l][k]
  <2>. HIDE DEF s, u
  <2>2. PartRow(vs, 0, 2, u) = vs - u /\ vs - u \in 0 .. vs /\ u \in 0 .. vs
    BY <2>1 DEF PartRow
  <2>3. AtFits(us, vs, 0, s, vs - u, n)
    <3>. DEFINE q == vs - u
    <3>1. q \in 0 .. vs /\ n = At(vs, 0, 1, s, q)
      BY <2>1, <2>2
    <3>. HIDE DEF q
    <3>2. AtFits(us, vs, 0, s, q, n)
      BY <2>1, <3>1, AtIs
    <3>. QED
      BY <3>2 DEF q
  <2>. QED
    BY <2>1, <2>2, <2>3 DEF n, s, u
<1>6. GlobeFits(us, vs, tri)
  <2>. HIDE DEF T, Lab
  <2>1. T = Surface(Lab, tri) /\ OnceEach(Lab, tri)
    BY <1>3, <1>4
  <2>. QED
    BY <1>5, <2>1 DEF GlobeFits, T, Lab
<1>. QED
  BY <1>6

LEMMA SphereGood ==
  ASSUME NEW us \in Nat, us >= 4, NEW vs \in Nat, vs >= 2, NEW V,
         V = [n \in 0 .. (us + 1) * (vs + 1) - 1 |->
                Round(us, n \div (vs + 1), IF n % (vs + 1) \in {0, vs} THEN 0 ELSE 1, n % (vs + 1))]
  PROVE  Good(V, Reversed(Grid(us, vs, 0, 1)), 2 * us * vs, TRUE)
<1>. DEFINE Lab == Labels(us, vs)
            T == Reversed(Grid(us, vs, 0, 1))
            size == (us + 1) * (vs + 1)
            R == [u \in 0 .. vs |-> IF u \in {0, vs} THEN 0 ELSE 1]
            Y == [u \in 0 .. vs |-> vs - u]
<1>1. PICK tri : GlobeFits(us, vs, tri)
  BY GlobeIs
<1>3. T = Surface(Lab, tri) /\ OnceEach(Lab, tri)
  BY <1>1 DEF GlobeFits
<1>5. ASSUME NEW l \in Lab, NEW k \in 1 .. 3
      PROVE  /\ tri[l][k] \in DOMAIN V
             /\ V[tri[l][k]] = Round(us, Side(0, l[1][1], l[1][2], l[2], k),
                                     R[Up(0, l[1][2], l[2], k)], Y[Up(0, l[1][2], l[2], k)])
  <2>. DEFINE s == Side(0, l[1][1], l[1][2], l[2], k)  u == Up(0, l[1][2], l[2], k)
  <2>. DEFINE n == tri[l][k]
  <2>2. s \in 0 .. us /\ u \in 0 .. vs /\ AtFits(us, vs, 0, s, vs - u, n)
    BY <1>1 DEF GlobeFits
  <2>. HIDE DEF s, u, n, size
  <2>4. n \in Nat /\ n < size /\ n \div (vs + 1) = s /\ n % (vs + 1) = vs - u
    BY <2>2 DEF AtFits, size
  <2>5. size \in Nat
    BY DEF size
  <2>6. n \in 0 .. size - 1
    BY <2>4, <2>5
  <2>7. n \in DOMAIN V /\ V[n] = Round(us, n \div (vs + 1), IF n % (vs + 1) \in {0, vs} THEN 0 ELSE 1, n % (vs + 1))
    BY <2>6 DEF size
  <2>8. V[n] = Round(us, s, IF vs - u \in {0, vs} THEN 0 ELSE 1, vs - u)
    BY <2>4, <2>7
  <2>9. R[u] = (IF vs - u \in {0, vs} THEN 0 ELSE 1) /\ Y[u] = vs - u
    BY <2>2
  <2>10. n \in DOMAIN V /\ V[n] = Round(us, s, R[u], Y[u])
    BY <2>7, <2>8, <2>9
  <2>. QED
    BY <2>10 DEF n, s, u
<1>6. InDomain(Lab, tri, V) /\ PlacesAre(us, vs, 0, V, tri, R, Y)
  <2>. HIDE DEF R, Y
  <2>. QED
    BY <1>5 DEF InDomain, PlacesAre
<1>7. RowsApart(vs, R, Y)
  BY DEF RowsApart
<1>8. IsFiniteSet(T) /\ Cardinality(T) = us * vs * 2 /\ IndicesFit(V, T)
  <2>. HIDE DEF T
  <2>. QED
    BY <1>3, <1>6, CountIs
<1>9. Closed(V, T)
  <2>. HIDE DEF T, R, Y
  <2>1. us >= 3 /\ 0 \in Nat
    OBVIOUS
  <2>. QED
    BY <1>3, <1>6, <1>7, <1>8, <2>1, RoundShapeIsClosed
<1>10. us * vs * 2 = 2 * us * vs
  OBVIOUS
<1>. QED
  BY <1>8, <1>9, <1>10 DEF Good

LEMMA TorusGood ==
  ASSUME NEW us \in Nat, us >= 4, NEW vs \in Nat, vs >= 2, NEW V,
         V = [n \in 0 .. (us + 1) * (vs + 1) - 1 |->
                Round(us, n \div (vs + 1), 1, (n % (vs + 1)) % vs)]
  PROVE  Good(V, Reversed(Grid(us, vs, 0, 1)), 2 * us * vs, vs > 2)
<1>. DEFINE Lab == Labels(us, vs)
            T == Reversed(Grid(us, vs, 0, 1))
            size == (us + 1) * (vs + 1)
<1>1. PICK tri : GlobeFits(us, vs, tri)
  BY GlobeIs
<1>2. T = Surface(Lab, tri) /\ OnceEach(Lab, tri)
  BY <1>1 DEF GlobeFits
<1>3. ASSUME NEW l \in Lab, NEW k \in 1 .. 3
      PROVE  LET s == Side(0, l[1][1], l[1][2], l[2], k)
                 u == Up(0, l[1][2], l[2], k)
             IN  /\ s \in 0 .. us /\ u \in 0 .. vs /\ tri[l][k] \in DOMAIN V
                 /\ V[tri[l][k]] = Round(us, s, 1, (vs - u) % vs)
  <2>. DEFINE s == Side(0, l[1][1], l[1][2], l[2], k)  u == Up(0, l[1][2], l[2], k)
              n == tri[l][k]
  <2>1. s \in 0 .. us /\ u \in 0 .. vs /\ AtFits(us, vs, 0, s, vs - u, n)
    BY <1>1 DEF GlobeFits
  <2>. HIDE DEF s, u, n, size
  <2>2. n \in Nat /\ n < size /\ n \div (vs + 1) = s /\ n % (vs + 1) = vs - u
    BY <2>1 DEF AtFits, size
  <2>3. size \in Nat
    BY DEF size
  <2>4. n \in 0 .. size - 1
    BY <2>2, <2>3
  <2>5. n \in DOMAIN V /\ V[n] = Round(us, n \div (vs + 1), 1, (n % (vs + 1)) % vs)
    BY <2>4 DEF size
  <2>6. V[n] = Round(us, s, 1, (vs - u) % vs)
    BY <2>2, <2>5
  <2>. QED
    BY <2>1, <2>5, <2>6 DEF n, s, u
<1>4. InDomain(Lab, tri, V)
  BY <1>3 DEF InDomain
<1>5. IsFiniteSet(T) /\ Cardinality(T) = us * vs * 2 /\ IndicesFit(V, T)
  <2>. HIDE DEF T
  <2>. QED
    BY <1>2, <1>4, CountIs
<1>6. \A s, s2 \in 0 .. us : \A y, y2 :
        Round(us, s, 1, y) = Round(us, s2, 1, y2) <=> y = y2 /\ SameColumn(us, s, s2)
  <2>. TAKE s, s2 \in 0 .. us
  <2>. TAKE y, y2
  <2>1. us >= 1 /\ 1 \in Nat
    OBVIOUS
  <2>2. Round(us, s, 1, y) = Round(us, s2, 1, y2) <=> SamePlace(us, s, 1, y, s2, 1, y2)
    BY <2>1, RoundPlace
  <2>. QED
    BY <2>2 DEF SamePlace
<1>7. \A u, u2 \in 0 .. vs : (vs - u) % vs = (vs - u2) % vs <=> SameColumn(vs, u, u2)
  <2>. TAKE u, u2 \in 0 .. vs
  <2>. DEFINE w == vs - u  w2 == vs - u2
  <2>1. vs >= 1 /\ w \in 0 .. vs /\ w2 \in 0 .. vs
    OBVIOUS
  <2>. HIDE DEF w, w2
  <2>2. w % vs = (IF w = vs THEN 0 ELSE w) /\ w2 % vs = (IF w2 = vs THEN 0 ELSE w2)
    BY <2>1, ColumnIs
  <2>3. w % vs = w2 % vs <=> SameColumn(vs, w, w2)
    <3>. DEFINE a == w % vs  b == w2 % vs
    <3>. HIDE DEF a, b
    <3>1. a = (IF w = vs THEN 0 ELSE w) /\ b = (IF w2 = vs THEN 0 ELSE w2)
      BY <2>2 DEF a, b
    <3>2. a = b <=> SameColumn(vs, w, w2)
      BY <2>1, <3>1 DEF SameColumn
    <3>. QED
      BY <3>2 DEF a, b
  <2>4. SameColumn(vs, w, w2) <=> SameColumn(vs, u, u2)
    BY DEF SameColumn, w, w2
  <2>. QED
    BY <2>3, <2>4 DEF w, w2
<1>8. RingTouching(us, vs, V, tri)
  <2>. SUFFICES ASSUME NEW l \in Lab, NEW p \in Lab, NEW k \in 1 .. 3, NEW q \in 1 .. 3
                PROVE  V[tri[l][k]] = V[tri[p][q]]
                         <=> RingTouch(us, vs, l[1][1], l[1][2], l[2], k, p[1][1], p[1][2], p[2], q)
    BY DEF RingTouching
  <2>. DEFINE i == l[1][1]  j == l[1][2]  b == l[2]
              i2 == p[1][1]  j2 == p[1][2]  b2 == p[2]
              s == Side(0, i, j, b, k)  u == Up(0, j, b, k)
              s2 == Side(0, i2, j2, b2, q)  u2 == Up(0, j2, b2, q)
  <2>1. j \in 0 .. vs - 1 /\ b \in {0, 1} /\ j2 \in 0 .. vs - 1 /\ b2 \in {0, 1}
    BY LabelIs
  <2>2. /\ s \in 0 .. us /\ u \in 0 .. vs /\ V[tri[l][k]] = Round(us, s, 1, (vs - u) % vs)
        /\ s2 \in 0 .. us /\ u2 \in 0 .. vs /\ V[tri[p][q]] = Round(us, s2, 1, (vs - u2) % vs)
    BY <1>3
  <2>. HIDE DEF i, j, b, i2, j2, b2
  <2>3. Kind(0, j, b) = b + 2 /\ Kind(0, j2, b2) = b2 + 2
    BY <2>1 DEF Kind
  <2>4. RingTouch(us, vs, i, j, b, k, i2, j2, b2, q) <=> RingMeet(us, vs, s, u, s2, u2)
    BY <2>3 DEF RingTouch, Side, Up
  <2>. HIDE DEF s, u, s2, u2
  <2>5. RingMeet(us, vs, s, u, s2, u2) <=> SameColumn(us, s, s2) /\ SameColumn(vs, u, u2)
    BY DEF RingMeet, SameColumn
  <2>6. V[tri[l][k]] = V[tri[p][q]] <=> (vs - u) % vs = (vs - u2) % vs /\ SameColumn(us, s, s2)
    <3>. DEFINE y == (vs - u) % vs  y2 == (vs - u2) % vs
    <3>. HIDE DEF y, y2
    <3>1. s \in 0 .. us /\ s2 \in 0 .. us
      BY <2>2
    <3>2. Round(us, s, 1, y) = Round(us, s2, 1, y2) <=> y = y2 /\ SameColumn(us, s, s2)
      BY <1>6, <3>1
    <3>. QED
      BY <2>2, <3>2 DEF y, y2
  <2>7. (vs - u) % vs = (vs - u2) % vs <=> SameColumn(vs, u, u2)
    BY <1>7, <2>2
  <2>8. V[tri[l][k]] = V[tri[p][q]] <=> RingTouch(us, vs, i, j, b, k, i2, j2, b2, q)
    BY <2>4, <2>5, <2>6, <2>7
  <2>. QED
    BY <2>8 DEF i, j, b, i2, j2, b2
<1>9. ASSUME vs > 2
      PROVE  Closed(V, T)
  <2>. HIDE DEF T
  <2>1. us >= 3 /\ vs >= 3
    BY <1>9
  <2>. QED
    BY <1>2, <1>5, <1>8, <2>1, RingIsClosed
<1>10. us * vs * 2 = 2 * us * vs
  OBVIOUS
<1>. QED
  BY <1>5, <1>9, <1>10 DEF Good

LEMMA TimesApart ==
  ASSUME NEW a \in Nat, NEW b \in Nat, NEW w \in Nat, w >= 1
  PROVE  (a * w = b * w => a = b) /\ (a * w = 0 <=> a = 0) /\ a * w \in Nat
<1>1. ASSUME NEW c \in Nat, NEW e \in Nat, c < e PROVE c * w < e * w
  <2>1. c + 1 \in Nat /\ c + 1 <= e
    BY <1>1
  <2>2. c * w \in Nat /\ e * w \in Nat /\ (c + 1) * w <= e * w
    <3>. DEFINE g == c + 1
    <3>1. g \in Nat /\ g <= e
      BY <2>1
    <3>. HIDE DEF g
    <3>2. g * w <= e * w /\ e * w \in Nat
      BY <3>1, ProductGrows
    <3>3. c * w \in Nat
      OBVIOUS
    <3>. QED
      BY <3>2, <3>3 DEF g
  <2>3. (c + 1) * w = c * w + w
    OBVIOUS
  <2>. QED
    BY <2>2, <2>3
<1>2. a < b \/ b < a \/ a = b
  OBVIOUS
<1>3. a * w \in Nat /\ b * w \in Nat /\ 0 * w = 0
  OBVIOUS
<1>4. a * w = b * w => a = b
  BY <1>1, <1>2, <1>3
<1>5. a > 0 => 0 * w < a * w
  BY <1>1
<1>. QED
  BY <1>3, <1>4, <1>5

\* The labels of a part are those of its rows, from a to before b.
RowsOf(us, rows, a, vs, b) ==
  \A l : l \in PartLabels(us, a, vs) <=> l \in Labels(us, rows) /\ l[1][2] >= a /\ l[1][2] < b

LEMMA PartOf ==
  ASSUME NEW us \in Nat, NEW rows \in Nat, NEW a \in Nat, NEW vs \in Nat, a + vs <= rows, NEW l
  PROVE  l \in PartLabels(us, a, vs) <=> l \in Labels(us, rows) /\ l[1][2] >= a /\ l[1][2] < a + vs
<1>1. ASSUME l \in PartLabels(us, a, vs)
      PROVE  l \in Labels(us, rows) /\ l[1][2] >= a /\ l[1][2] < a + vs
  <2>1. /\ l[1][1] \in 0 .. us - 1 /\ l[1][2] \in Nat /\ l[1][2] - a \in 0 .. vs - 1
        /\ l[2] \in {0, 1} /\ l = <<<<l[1][1], l[1][2]>>, l[2]>>
    BY <1>1, PartLabelIs
  <2>. DEFINE j == l[1][2]
  <2>2. j \in Nat /\ j - a \in 0 .. vs - 1
    BY <2>1
  <2>3. j \in 0 .. rows - 1 /\ j >= a /\ j < a + vs
    <3>. HIDE DEF j
    <3>. QED
      BY <2>2
  <2>. QED
    BY <2>1, <2>3 DEF Labels, Cells
<1>2. ASSUME l \in Labels(us, rows), l[1][2] >= a, l[1][2] < a + vs
      PROVE  l \in PartLabels(us, a, vs)
  <2>1. /\ l[1][1] \in 0 .. us - 1 /\ l[1][2] \in 0 .. rows - 1 /\ l[2] \in {0, 1}
        /\ l = <<<<l[1][1], l[1][2]>>, l[2]>>
    BY <1>2, LabelIs
  <2>. DEFINE j == l[1][2]
  <2>2. j \in 0 .. rows - 1 /\ j < a + vs
    BY <1>2, <2>1
  <2>3. j \in 0 .. (a + vs) - 1
    <3>. HIDE DEF j
    <3>. QED
      BY <2>2
  <2>4. l \in Labels(us, a + vs)
    BY <2>1, <2>3 DEF Labels, Cells
  <2>. QED
    BY <1>2, <2>4 DEF PartLabels
<1>. QED
  BY <1>1, <1>2

LEMMA ConeRows ==
  ASSUME NEW vs \in Nat, vs >= 1, NEW cap \in Nat, cap >= 1,
         NEW R, R = [u \in 0 .. cap + vs |-> IF u <= cap THEN u * vs ELSE (cap + vs - u) * cap],
         NEW Y, Y = [u \in 0 .. cap + vs |-> IF u <= cap THEN 0 ELSE u - cap]
  PROVE  RowsApart(cap + vs, R, Y)
<1>. DEFINE rows == cap + vs
<1>1. ASSUME NEW j \in 0 .. rows PROVE R[j] \in Nat /\ (R[j] = 0 <=> j \in {0, rows})
  <2>1. CASE j <= cap
    <3>1. R[j] = j * vs /\ j \in Nat
      BY <2>1
    <3>2. j * vs \in Nat /\ (j * vs = 0 <=> j = 0)
      BY <3>1, TimesApart
    <3>. QED
      BY <2>1, <3>1, <3>2
  <2>2. CASE j > cap
    <3>. DEFINE g == cap + vs - j
    <3>1. R[j] = g * cap /\ g \in Nat /\ (g = 0 <=> j = rows)
      BY <2>2
    <3>2. g * cap \in Nat /\ (g * cap = 0 <=> g = 0)
      <4>. HIDE DEF g
      <4>. QED
        BY <3>1, TimesApart
    <3>. QED
      BY <2>2, <3>1, <3>2
  <2>. QED
    BY <2>1, <2>2
<1>2. ASSUME NEW j \in 0 .. rows, NEW j2 \in 0 .. rows, R[j] = R[j2], Y[j] = Y[j2]
      PROVE  j = j2
  <2>1. Y[j] = (IF j <= cap THEN 0 ELSE j - cap) /\ Y[j2] = (IF j2 <= cap THEN 0 ELSE j2 - cap)
    OBVIOUS
  <2>2. CASE j <= cap /\ j2 <= cap
    <3>1. j * vs = j2 * vs /\ j \in Nat /\ j2 \in Nat
      BY <1>2, <2>2
    <3>. QED
      BY <3>1, TimesApart
  <2>. QED
    BY <1>2, <2>1, <2>2
<1>. QED
  BY <1>1, <1>2 DEF RowsApart

LEMMA ProductIsNat ==
  ASSUME NEW a \in Nat, NEW b \in Nat
  PROVE  a * b \in Nat
OBVIOUS

LEMMA PartHasRows ==
  ASSUME NEW us \in Nat, NEW rows \in Nat, NEW a \in Nat, NEW vs \in Nat,
         NEW b, b = a + vs, b <= rows
  PROVE  RowsOf(us, rows, a, vs, b)
<1>1. \A l : l \in PartLabels(us, a, vs)
              <=> l \in Labels(us, rows) /\ l[1][2] >= a /\ l[1][2] < a + vs
  <2>. TAKE l
  <2>. QED
    BY PartOf
<1>. QED
  BY <1>1, Zenon DEF RowsOf

LEMMA TwoParts ==
  ASSUME NEW us \in Nat, NEW cap \in Nat, NEW vs \in Nat
  PROVE  LET Lab == Labels(us, cap + vs)
             A == PartLabels(us, 0, cap)
             B == PartLabels(us, cap, vs)
         IN  /\ \A l : l \in A <=> l \in Lab /\ l[1][2] >= 0 /\ l[1][2] < cap
             /\ \A l : l \in B <=> l \in Lab /\ l[1][2] >= cap /\ l[1][2] < cap + vs
             /\ \A l \in Lab : l \in A \/ l \in B
<1>. DEFINE rows == cap + vs
            Lab == Labels(us, rows)
            A == PartLabels(us, 0, cap)
            B == PartLabels(us, cap, vs)
<1>1. \A l : l \in A <=> l \in Lab /\ l[1][2] >= 0 /\ l[1][2] < cap
  <2>1. rows \in Nat /\ cap = 0 + cap /\ cap <= rows
    OBVIOUS
  <2>. HIDE DEF rows
  <2>2. RowsOf(us, rows, 0, cap, cap)
    BY <2>1, PartHasRows
  <2>. QED
    BY <2>2, Zenon DEF RowsOf
<1>2. \A l : l \in B <=> l \in Lab /\ l[1][2] >= cap /\ l[1][2] < cap + vs
  <2>1. rows \in Nat /\ cap + vs <= rows
    OBVIOUS
  <2>. HIDE DEF rows
  <2>2. RowsOf(us, rows, cap, vs, cap + vs)
    BY <2>1, PartHasRows
  <2>. QED
    BY <2>2, Zenon DEF RowsOf
<1>3. ASSUME NEW l \in Lab PROVE l \in A \/ l \in B
  <2>1. l[1][2] \in 0 .. rows - 1
    BY LabelIs
  <2>. DEFINE j == l[1][2]
  <2>2. (j >= 0 /\ j < cap) \/ (j >= cap /\ j < cap + vs)
    <3>1. j \in 0 .. rows - 1
      BY <2>1
    <3>. HIDE DEF j
    <3>. QED
      BY <3>1
  <2>. HIDE DEF A, B
  <2>. QED
    BY <1>1, <1>2, <2>2
<1>4. /\ \A l : l \in A <=> l \in Lab /\ l[1][2] >= 0 /\ l[1][2] < cap
      /\ \A l : l \in B <=> l \in Lab /\ l[1][2] >= cap /\ l[1][2] < cap + vs
      /\ \A l \in Lab : l \in A \/ l \in B
  <2>. HIDE DEF A, B, Lab
  <2>. QED
    BY <1>1, <1>2, <1>3
<1>. QED
  BY <1>4, Zenon DEF A, B, Lab, rows

ConeVerts(us, vs, h, body, cv, last) ==
  [n \in 0 .. last |->
    IF n < body THEN Round(us, n \div (vs + 1), (vs - (n % (vs + 1))) * h, n % (vs + 1))
    ELSE Round(us, (n - body) \div cv, ((n - body) % cv) * vs, 0)]

LEMMA ConeGood ==
  ASSUME NEW us \in Nat, us >= 4, NEW vs \in Nat, vs >= 1, NEW cap \in Nat, NEW h \in Nat, cap >= 1 => h = cap,
         NEW body, body = (us + 1) * (vs + 1), NEW cv, cv = CapVerts(cap),
         NEW size, size = body + (us + 1) * cv, NEW V,
         V = ConeVerts(us, vs, h, body, cv, size - 1)
  PROVE  Good(V, Grid(us, vs, 0, 1) \cup Grid(us, cap, body, 1), 2 * us * vs + 2 * us * cap, cap # 0)
<1>. DEFINE rows == cap + vs
            Lab == Labels(us, rows)
            A == PartLabels(us, 0, cap)
            B == PartLabels(us, cap, vs)
            tri == [l \in Lab |-> IF l[1][2] < cap THEN Tri(cap, body, 1, l[1][1], l[1][2], l[2])
                                  ELSE Tri(vs, 0, 1, l[1][1], l[1][2] - cap, l[2])]
            T == Grid(us, vs, 0, 1) \cup Grid(us, cap, body, 1)
            R == [u \in 0 .. cap + vs |-> IF u <= cap THEN u * vs ELSE (cap + vs - u) * cap]
            Y == [u \in 0 .. cap + vs |-> IF u <= cap THEN 0 ELSE u - cap]
            c == (us + 1) * cv
<1>1. /\ \A l : l \in A <=> l \in Lab /\ l[1][2] >= 0 /\ l[1][2] < cap
      /\ \A l : l \in B <=> l \in Lab /\ l[1][2] >= cap /\ l[1][2] < cap + vs
      /\ \A l \in Lab : l \in A \/ l \in B
  BY TwoParts
<1>2. size = body + c /\ body \in Nat /\ cv \in Nat /\ c \in Nat /\ (cap >= 1 => cv = cap + 1)
  <2>1. body \in Nat
    <3>. DEFINE g == us + 1  e == vs + 1
    <3>1. g \in Nat /\ e \in Nat /\ body = g * e
      OBVIOUS
    <3>. HIDE DEF g, e
    <3>. QED
      BY <3>1, ProductIsNat
  <2>2. cv \in Nat /\ (cap >= 1 => cv = cap + 1)
    BY DEF CapVerts
  <2>3. c \in Nat
    <3>. DEFINE g == us + 1
    <3>1. g \in Nat
      OBVIOUS
    <3>. HIDE DEF g
    <3>2. g * cv \in Nat
      BY <2>2, <3>1, ProductIsNat
    <3>. QED
      BY <3>2 DEF g
  <2>4. size = body + c
    OBVIOUS
  <2>. HIDE DEF c
  <2>. QED
    BY <2>1, <2>2, <2>3, <2>4
<1>14. /\ DOMAIN V = 0 .. size - 1
       /\ \A n \in 0 .. size - 1 :
            V[n] = IF n < body THEN Round(us, n \div (vs + 1), (vs - (n % (vs + 1))) * h, n % (vs + 1))
                   ELSE Round(us, (n - body) \div cv, ((n - body) % cv) * vs, 0)
  BY DEF ConeVerts
<1>3. PartFits(us, cap, 0, rows, body, 1, 0, tri)
  <2>1. BackFrom(rows, 0, cap, 0)
    BY DEF BackFrom
  <2>2. IsPart(us, cap, 0, rows, body, 1, tri)
    <3>1. ASSUME NEW l \in A
          PROVE  tri[l] = Tri(cap, body, 1, l[1][1], l[1][2] - 0, Kind(rows, l[1][2], l[2]))
      <4>. DEFINE j == l[1][2]  b == l[2]
      <4>1. l \in Lab /\ j \in Nat /\ j < cap
        BY <1>1, LabelIs
      <4>2. tri[l] = Tri(cap, body, 1, l[1][1], j, b)
        BY <4>1
      <4>3. j - 0 = j /\ Kind(rows, j, b) = b
        <5>. HIDE DEF j, b
        <5>. QED
          BY <4>1 DEF Kind
      <4>. QED
        BY <4>2, <4>3
    <3>. QED
      BY <3>1 DEF IsPart
  <2>3. 0 \in Nat /\ rows \in Nat /\ 1 \in {1, 2}
    OBVIOUS
  <2>. HIDE DEF tri, rows
  <2>. QED
    BY <1>2, <2>1, <2>2, <2>3, PartAll
<1>4. PartFits(us, vs, cap, rows, 0, 1, 0, tri)
  <2>1. BackFrom(rows, cap, vs, 0)
    BY DEF BackFrom
  <2>2. IsPart(us, vs, cap, rows, 0, 1, tri)
    <3>1. ASSUME NEW l \in B
          PROVE  tri[l] = Tri(vs, 0, 1, l[1][1], l[1][2] - cap, Kind(rows, l[1][2], l[2]))
      <4>. DEFINE j == l[1][2]  b == l[2]
      <4>1. l \in Lab /\ j \in Nat /\ j >= cap /\ j < rows
        BY <1>1, LabelIs
      <4>2. tri[l] = Tri(vs, 0, 1, l[1][1], j - cap, b)
        BY <4>1
      <4>3. Kind(rows, j, b) = b
        <5>. HIDE DEF j, b
        <5>. QED
          BY <4>1 DEF Kind
      <4>. QED
        BY <4>2, <4>3
    <3>. QED
      BY <3>1 DEF IsPart
  <2>3. 0 \in Nat /\ rows \in Nat /\ 1 \in {1, 2}
    OBVIOUS
  <2>. HIDE DEF tri, rows
  <2>. QED
    BY <2>1, <2>2, <2>3, PartAll
<1>. HIDE DEF tri
<1>5. T = Surface(Lab, tri)
  <2>1. Surface(A, tri) = Grid(us, cap, body, 1) /\ Surface(B, tri) = Grid(us, vs, 0, 1)
    BY <1>3, <1>4 DEF PartFits, GridOrBack
  <2>. HIDE DEF A, B, Lab
  <2>2. Surface(Lab, tri) = Surface(A, tri) \cup Surface(B, tri)
    BY <1>1 DEF Surface
  <2>. QED
    BY <2>1, <2>2
\* The vertices of the cap.
<1>6. ASSUME NEW l \in A, NEW k \in 1 .. 3
      PROVE  LET s == Side(rows, l[1][1], l[1][2], l[2], k)
                 u == Up(rows, l[1][2], l[2], k)
                 n == tri[l][k]
             IN  /\ cap >= 1 /\ s \in 0 .. us /\ u \in 0 .. rows
                 /\ n \in 0 .. size - 1 /\ n >= body /\ V[n] = Round(us, s, R[u], Y[u])
  <2>. DEFINE s == Side(rows, l[1][1], l[1][2], l[2], k)  u == Up(rows, l[1][2], l[2], k)
              n == tri[l][k]
  <2>1. /\ n = At(cap, body, 1, s, PartRow(cap, 0, 0, u)) /\ s \in 0 .. us
        /\ u \in Nat /\ u <= 0 + cap /\ PartRow(cap, 0, 0, u) \in 0 .. cap
    BY <1>3 DEF PartFits, CornerFits
  <2>2. cap >= 1
    <3>. DEFINE j == l[1][2]
    <3>1. j \in Nat /\ j < cap
      BY <1>1, LabelIs
    <3>. HIDE DEF j
    <3>. QED
      BY <3>1
  <2>. HIDE DEF s, u, n
  <2>3. PartRow(cap, 0, 0, u) = u /\ u \in 0 .. cap
    BY <2>1 DEF PartRow
  <2>4. AtFits(us, cap, body, s, u, n)
    BY <1>2, <2>1, <2>3, AtIs
  <2>5. n \in Nat /\ n >= body /\ n - body < c /\ (n - body) \div cv = s /\ (n - body) % cv = u
    BY <1>2, <2>2, <2>4 DEF AtFits
  <2>. HIDE DEF c
  <2>6. n \in 0 .. size - 1 /\ ~ (n < body)
    BY <1>2, <2>5
  <2>7. V[n] = Round(us, (n - body) \div cv, ((n - body) % cv) * vs, 0)
    BY <1>14, <2>6
  <2>8. V[n] = Round(us, s, u * vs, 0)
    BY <2>5, <2>7
  <2>9. u \in 0 .. rows /\ R[u] = u * vs /\ Y[u] = 0
    BY <2>3
  <2>. QED
    BY <2>1, <2>2, <2>5, <2>6, <2>8, <2>9 DEF s, u, n
\* Those of the mantle.
<1>7. ASSUME NEW l \in B, NEW k \in 1 .. 3
      PROVE  LET s == Side(rows, l[1][1], l[1][2], l[2], k)
                 u == Up(rows, l[1][2], l[2], k)
                 n == tri[l][k]
             IN  /\ s \in 0 .. us /\ u \in 0 .. rows
                 /\ n \in 0 .. size - 1 /\ n < body
                 /\ (cap >= 1 => V[n] = Round(us, s, R[u], Y[u]))
  <2>. DEFINE s == Side(rows, l[1][1], l[1][2], l[2], k)  u == Up(rows, l[1][2], l[2], k)
              n == tri[l][k]
  <2>1. /\ n = At(vs, 0, 1, s, PartRow(vs, cap, 0, u)) /\ s \in 0 .. us
        /\ u \in Nat /\ u >= cap /\ u <= cap + vs /\ PartRow(vs, cap, 0, u) \in 0 .. vs
    BY <1>4 DEF PartFits, CornerFits
  <2>. DEFINE v == u - cap
  <2>. HIDE DEF s, u, n
  <2>3. PartRow(vs, cap, 0, u) = v /\ v \in 0 .. vs /\ u \in 0 .. rows
    BY <2>1 DEF PartRow
  <2>. HIDE DEF v
  <2>4. AtFits(us, vs, 0, s, v, n)
    BY <2>1, <2>3, AtIs
  <2>5. n \in Nat /\ n < body /\ n \div (vs + 1) = s /\ n % (vs + 1) = v
    <3>1. n - 0 = n
      BY <2>4 DEF AtFits
    <3>. QED
      BY <2>4, <3>1 DEF AtFits
  <2>6. n \in 0 .. size - 1
    <3>. HIDE DEF c
    <3>. QED
      BY <1>2, <2>5
  <2>. HIDE DEF c
  <2>7. V[n] = Round(us, n \div (vs + 1), (vs - (n % (vs + 1))) * h, n % (vs + 1))
    BY <1>14, <2>5, <2>6
  <2>8. V[n] = Round(us, s, (vs - v) * h, v)
    BY <2>5, <2>7
  <2>9. cap >= 1 => R[u] = (vs - v) * cap /\ Y[u] = v
    <3>1. R[u] = (IF u <= cap THEN u * vs ELSE (cap + vs - u) * cap) /\ Y[u] = IF u <= cap THEN 0 ELSE u - cap
      BY <2>3
    <3>2. vs - v = cap + vs - u /\ v = u - cap
      BY <2>1 DEF v
    <3>3. CASE u > cap
      <4>1. ~ (u <= cap)
        BY <2>1, <3>3
      <4>. QED
        BY <3>1, <3>2, <4>1
    <3>4. CASE u = cap
      <4>1. v = 0 /\ u <= cap /\ vs - v = vs
        BY <3>2, <3>4
      <4>2. cap * vs = vs * cap
        OBVIOUS
      <4>. QED
        BY <3>1, <3>4, <4>1, <4>2
    <3>. QED
      BY <2>1, <3>3, <3>4
  <2>10. cap >= 1 => V[n] = Round(us, s, R[u], Y[u])
    BY <2>8, <2>9
  <2>. QED
    BY <2>1, <2>3, <2>5, <2>6, <2>10 DEF s, u, n
<1>8. InDomain(Lab, tri, V)
  <2>. HIDE DEF A, B, Lab
  <2>. QED
    BY <1>1, <1>6, <1>7, <1>14 DEF InDomain
<1>9. OnceEach(Lab, tri)
  <2>1. OnceEach(A, tri) /\ OnceEach(B, tri)
    BY <1>3, <1>4 DEF PartFits
  <2>2. ASSUME NEW l \in A, NEW p \in B PROVE tri[l] # tri[p]
    <3>. DEFINE n == tri[l][1]  g == tri[p][1]
    <3>1. 1 \in 1 .. 3
      OBVIOUS
    <3>2. n >= body /\ g < body /\ n \in 0 .. size - 1 /\ g \in 0 .. size - 1
      <4>. HIDE DEF A, B
      <4>. QED
        BY <1>6, <1>7, <3>1
    <3>3. n # g
      <4>. HIDE DEF n, g
      <4>. QED
        BY <1>2, <3>2
    <3>. QED
      BY <3>3
  <2>. HIDE DEF A, B, Lab
  <2>. QED
    BY <1>1, <2>1, <2>2 DEF OnceEach
<1>10. IsFiniteSet(T) /\ Cardinality(T) = us * rows * 2 /\ IndicesFit(V, T)
  <2>1. rows \in Nat
    OBVIOUS
  <2>. HIDE DEF T, rows
  <2>. QED
    BY <1>5, <1>8, <1>9, <2>1, CountIs
<1>11. ASSUME cap # 0
       PROVE  Closed(V, T)
  <2>1. us >= 3 /\ rows \in Nat /\ rows >= 2 /\ cap >= 1
    BY <1>11
  <2>2. RowsApart(rows, R, Y)
    BY <2>1, ConeRows
  <2>. HIDE DEF T, R, Y, rows, A, B
  <2>3. PlacesAre(us, rows, rows, V, tri, R, Y)
    BY <1>1, <1>6, <1>7, <2>1 DEF PlacesAre
  <2>. QED
    BY <1>5, <1>10, <2>1, <2>2, <2>3, RoundShapeIsClosed
<1>12. us * rows * 2 = 2 * us * vs + 2 * us * cap
  OBVIOUS
<1>. QED
  BY <1>10, <1>11, <1>12 DEF Good

LEMMA HalfIs ==
  ASSUME NEW d \in Nat, NEW e \in Nat, NEW o \in {0, 1}, d = o + e * 2
  PROVE  d \div 2 = e /\ d % 2 = o
OBVIOUS

CapFit(body, o, e, n, size) ==
  /\ n \in 0 .. size - 1 /\ ~ (n < body) /\ n >= body
  /\ n - body \in Nat /\ n - body = o + e * 2

LEMMA CapFits ==
  ASSUME NEW body \in Nat, NEW c \in Nat, NEW e \in Nat, e < c, NEW o \in {0, 1}, NEW first, first = body + o,
         NEW n, n = first + e * 2, NEW size, size = body + 2 * c
  PROVE  CapFit(body, o, e, n, size)
BY DEF CapFit

AtTwice(us, vs, first, p, q, at) ==
  \E n \in Nat : /\ n < (us + 1) * (vs + 1) /\ n \div (vs + 1) = p /\ n % (vs + 1) = q
                /\ at = first + n * 2

LEMMA AtTwiceIs ==
  ASSUME NEW us \in Nat, NEW vs \in Nat, NEW first \in Nat, NEW p \in 0 .. us, NEW q \in 0 .. vs
  PROVE  AtTwice(us, vs, first, p, q, At(vs, first, 2, p, q))
<1>. DEFINE n == Number(vs, p, q)
<1>1. n \in Nat /\ n < (us + 1) * (vs + 1) /\ n \div (vs + 1) = p /\ n % (vs + 1) = q
  BY NumbersAre
<1>2. At(vs, first, 2, p, q) = first + n * 2
  BY DEF At
<1>. HIDE DEF n
<1>. QED
  BY <1>1, <1>2 DEF AtTwice

LEMMA CylinderRows ==
  ASSUME NEW vs \in Nat, vs >= 1, NEW cap \in Nat, cap >= 1,
         NEW R, R = [u \in 0 .. cap + vs + cap |-> IF u <= cap THEN u ELSE IF u <= cap + vs THEN cap
                                                  ELSE cap + vs + cap - u],
         NEW Y, Y = [u \in 0 .. cap + vs + cap |-> IF u <= cap THEN 0 ELSE IF u <= cap + vs THEN u - cap ELSE vs]
  PROVE  RowsApart(cap + vs + cap, R, Y)
<1>1. ASSUME NEW j \in 0 .. cap + vs + cap
      PROVE  /\ R[j] = IF j <= cap THEN j ELSE IF j <= cap + vs THEN cap ELSE cap + vs + cap - j
             /\ Y[j] = IF j <= cap THEN 0 ELSE IF j <= cap + vs THEN j - cap ELSE vs
  OBVIOUS
<1>2. \A j \in 0 .. cap + vs + cap : R[j] \in Nat /\ (R[j] = 0 <=> j \in {0, cap + vs + cap})
  BY <1>1
<1>3. \A j, j2 \in 0 .. cap + vs + cap : R[j] = R[j2] /\ Y[j] = Y[j2] => j = j2
  <2>. TAKE j, j2 \in 0 .. cap + vs + cap
  <2>. DEFINE r == R[j]  r2 == R[j2]  y == Y[j]  y2 == Y[j2]
  <2>1. /\ r = IF j <= cap THEN j ELSE IF j <= cap + vs THEN cap ELSE cap + vs + cap - j
        /\ y = IF j <= cap THEN 0 ELSE IF j <= cap + vs THEN j - cap ELSE vs
        /\ r2 = IF j2 <= cap THEN j2 ELSE IF j2 <= cap + vs THEN cap ELSE cap + vs + cap - j2
        /\ y2 = IF j2 <= cap THEN 0 ELSE IF j2 <= cap + vs THEN j2 - cap ELSE vs
    BY <1>1
  <2>. HIDE DEF r, r2, y, y2
  <2>2. r = r2 /\ y = y2 => j = j2
    BY <2>1
  <2>. QED
    BY <2>2 DEF r, r2, y, y2
<1>. QED
  BY <1>2, <1>3 DEF RowsApart

LEMMA ThreeParts ==
  ASSUME NEW us \in Nat, NEW cap \in Nat, NEW vs \in Nat
  PROVE  LET Lab == Labels(us, cap + vs + cap)
             A == PartLabels(us, 0, cap)
             B == PartLabels(us, cap, vs)
             C == PartLabels(us, cap + vs, cap)
         IN  /\ \A l : l \in A <=> l \in Lab /\ l[1][2] >= 0 /\ l[1][2] < cap
             /\ \A l : l \in B <=> l \in Lab /\ l[1][2] >= cap /\ l[1][2] < cap + vs
             /\ \A l : l \in C <=> l \in Lab /\ l[1][2] >= cap + vs /\ l[1][2] < cap + vs + cap
             /\ \A l \in Lab : l \in A \/ l \in B \/ l \in C
<1>. DEFINE rows == cap + vs + cap
            m == cap + vs
            Lab == Labels(us, rows)
            A == PartLabels(us, 0, cap)
            B == PartLabels(us, cap, vs)
            C == PartLabels(us, m, cap)
<1>0. rows \in Nat /\ 0 \in Nat /\ m \in Nat /\ 0 + cap <= rows /\ 0 + cap = cap /\ cap + vs <= rows
      /\ m + cap <= rows
  OBVIOUS
<1>1. \A l : l \in A <=> l \in Lab /\ l[1][2] >= 0 /\ l[1][2] < cap
  <2>. HIDE DEF rows
  <2>1. RowsOf(us, rows, 0, cap, cap)
    BY <1>0, PartHasRows
  <2>. QED
    BY <2>1, Zenon DEF RowsOf
<1>2. \A l : l \in B <=> l \in Lab /\ l[1][2] >= cap /\ l[1][2] < cap + vs
  <2>. HIDE DEF rows
  <2>1. RowsOf(us, rows, cap, vs, cap + vs)
    BY <1>0, PartHasRows
  <2>. QED
    BY <2>1, Zenon DEF RowsOf
<1>5. \A l : l \in C <=> l \in Lab /\ l[1][2] >= m /\ l[1][2] < m + cap
  <2>. HIDE DEF rows, m
  <2>1. RowsOf(us, rows, m, cap, m + cap)
    BY <1>0, PartHasRows
  <2>. QED
    BY <2>1, Zenon DEF RowsOf
<1>3. ASSUME NEW l \in Lab PROVE l \in A \/ l \in B \/ l \in C
  <2>1. l[1][2] \in 0 .. rows - 1
    BY <1>0, LabelIs
  <2>. DEFINE j == l[1][2]
  <2>2. (j >= 0 /\ j < cap) \/ (j >= cap /\ j < cap + vs) \/ (j >= m /\ j < m + cap)
    <3>1. j \in 0 .. rows - 1
      BY <2>1
    <3>. HIDE DEF j
    <3>. QED
      BY <3>1
  <2>. HIDE DEF A, B, C, Lab, m
  <2>. QED
    BY <1>1, <1>2, <1>5, <2>2
<1>4. /\ \A l : l \in A <=> l \in Lab /\ l[1][2] >= 0 /\ l[1][2] < cap
      /\ \A l : l \in B <=> l \in Lab /\ l[1][2] >= cap /\ l[1][2] < cap + vs
      /\ \A l : l \in C <=> l \in Lab /\ l[1][2] >= m /\ l[1][2] < m + cap
      /\ \A l \in Lab : l \in A \/ l \in B \/ l \in C
  <2>. HIDE DEF A, B, C, Lab, m
  <2>. QED
    BY <1>1, <1>2, <1>3, <1>5
<1>. QED
  BY <1>4, Zenon DEF A, B, C, Lab, rows, m

CylinderVerts(us, vs, h, body, cv, last) ==
  [n \in 0 .. last |->
    IF n < body THEN Round(us, n \div (vs + 1), h, n % (vs + 1))
    ELSE Round(us, ((n - body) \div 2) \div cv, ((n - body) \div 2) % cv,
               IF (n - body) % 2 = 0 THEN vs ELSE 0)]

LEMMA CylinderGood ==
  ASSUME NEW us \in Nat, us >= 4, NEW vs \in Nat, vs >= 1, NEW cap \in Nat, NEW h \in Nat, cap >= 1 => h = cap,
         NEW body, body = (us + 1) * (vs + 1), NEW cv, cv = CapVerts(cap),
         NEW size, size = body + 2 * ((us + 1) * cv), NEW V,
         V = CylinderVerts(us, vs, h, body, cv, size - 1)
  PROVE  Good(V, Grid(us, vs, 0, 1) \cup CylinderCaps(us, cap, body), 2 * us * vs + 4 * us * cap, cap # 0)
<1>. DEFINE rows == cap + vs + cap
            m == cap + vs
            Lab == Labels(us, rows)
            A == PartLabels(us, 0, cap)
            B == PartLabels(us, cap, vs)
            C == PartLabels(us, m, cap)
            tri == [l \in Lab |->
                      IF l[1][2] < cap THEN Tri(cap, body + 1, 2, l[1][1], l[1][2], l[2])
                      ELSE IF l[1][2] < m THEN Tri(vs, 0, 1, l[1][1], l[1][2] - cap, l[2])
                      ELSE Tri(cap, body, 2, l[1][1], l[1][2] - m, l[2] + 2)]
            T == Grid(us, vs, 0, 1) \cup CylinderCaps(us, cap, body)
            R == [u \in 0 .. cap + vs + cap |-> IF u <= cap THEN u ELSE IF u <= cap + vs THEN cap
                                               ELSE cap + vs + cap - u]
            Y == [u \in 0 .. cap + vs + cap |-> IF u <= cap THEN 0 ELSE IF u <= cap + vs THEN u - cap ELSE vs]
            c == (us + 1) * cv
<1>0. rows \in Nat /\ m \in Nat
  OBVIOUS
<1>1. /\ \A l : l \in A <=> l \in Lab /\ l[1][2] >= 0 /\ l[1][2] < cap
      /\ \A l : l \in B <=> l \in Lab /\ l[1][2] >= cap /\ l[1][2] < m
      /\ \A l : l \in C <=> l \in Lab /\ l[1][2] >= m /\ l[1][2] < m + cap
      /\ \A l \in Lab : l \in A \/ l \in B \/ l \in C
  BY ThreeParts
<1>2. size = body + 2 * c /\ body \in Nat /\ cv \in Nat /\ c \in Nat /\ (cap >= 1 => cv = cap + 1)
      /\ body + 1 \in Nat
  <2>1. body \in Nat
    <3>. DEFINE g == us + 1  e == vs + 1
    <3>1. g \in Nat /\ e \in Nat /\ body = g * e
      OBVIOUS
    <3>. HIDE DEF g, e
    <3>. QED
      BY <3>1, ProductIsNat
  <2>2. cv \in Nat /\ (cap >= 1 => cv = cap + 1)
    BY DEF CapVerts
  <2>3. c \in Nat
    <3>. DEFINE g == us + 1
    <3>1. g \in Nat
      OBVIOUS
    <3>. HIDE DEF g
    <3>2. g * cv \in Nat
      BY <2>2, <3>1, ProductIsNat
    <3>. QED
      BY <3>2 DEF g
  <2>4. size = body + 2 * c
    OBVIOUS
  <2>5. body + 1 \in Nat
    BY <2>1
  <2>. HIDE DEF c
  <2>. QED
    BY <2>1, <2>2, <2>3, <2>4, <2>5, Zenon
<1>14. /\ DOMAIN V = 0 .. size - 1
       /\ \A n \in 0 .. size - 1 :
            V[n] = IF n < body THEN Round(us, n \div (vs + 1), h, n % (vs + 1))
                   ELSE Round(us, ((n - body) \div 2) \div cv, ((n - body) \div 2) % cv,
                              IF (n - body) % 2 = 0 THEN vs ELSE 0)
  BY DEF CylinderVerts
<1>3. PartFits(us, cap, 0, m, body + 1, 2, 0, tri)
  <2>1. BackFrom(m, 0, cap, 0)
    BY DEF BackFrom
  <2>2. IsPart(us, cap, 0, m, body + 1, 2, tri)
    <3>1. ASSUME NEW l \in A
          PROVE  tri[l] = Tri(cap, body + 1, 2, l[1][1], l[1][2] - 0, Kind(m, l[1][2], l[2]))
      <4>. DEFINE j == l[1][2]  b == l[2]
      <4>1. l \in Lab /\ j \in Nat /\ j < cap /\ b \in {0, 1}
        <5>1. l \in Lab /\ j \in Nat /\ j < cap /\ b \in {0, 1}
          BY <1>0, <1>1, LabelIs
        <5>. HIDE DEF Lab, j, b
        <5>. QED
          BY <5>1
      <4>2. tri[l] = Tri(cap, body + 1, 2, l[1][1], j, b)
        <5>1. j < cap
          BY <4>1
        <5>. HIDE DEF Lab
        <5>. QED
          BY <4>1, <5>1
      <4>3. j = j - 0 /\ Kind(m, j, b) = b
        <5>. HIDE DEF j, b
        <5>. QED
          BY <4>1 DEF Kind
      <4>. QED
        BY <4>2, <4>3
    <3>. QED
      BY <3>1 DEF IsPart
  <2>3. 0 \in Nat /\ m \in Nat /\ body + 1 \in Nat /\ 2 \in {1, 2}
    BY <1>2
  <2>. HIDE DEF tri, m
  <2>. QED
    BY <1>2, <2>1, <2>2, <2>3, PartAll
<1>4. PartFits(us, vs, cap, m, 0, 1, 0, tri)
  <2>1. BackFrom(m, cap, vs, 0)
    BY DEF BackFrom
  <2>2. IsPart(us, vs, cap, m, 0, 1, tri)
    <3>1. ASSUME NEW l \in B
          PROVE  tri[l] = Tri(vs, 0, 1, l[1][1], l[1][2] - cap, Kind(m, l[1][2], l[2]))
      <4>. DEFINE j == l[1][2]  b == l[2]
      <4>1. l \in Lab /\ j \in Nat /\ j >= cap /\ j < m /\ b \in {0, 1}
        <5>1. l \in Lab /\ j \in Nat /\ j >= cap /\ j < m /\ b \in {0, 1}
          BY <1>0, <1>1, LabelIs
        <5>. HIDE DEF Lab, j, b
        <5>. QED
          BY <5>1
      <4>2. tri[l] = Tri(vs, 0, 1, l[1][1], j - cap, b)
        <5>1. j >= cap /\ j < m
          BY <4>1
        <5>. HIDE DEF Lab
        <5>. QED
          BY <4>1, <5>1
      <4>3. j - cap = j - cap /\ Kind(m, j, b) = b
        <5>. HIDE DEF j, b
        <5>. QED
          BY <4>1 DEF Kind
      <4>. QED
        BY <4>2, <4>3
    <3>. QED
      BY <3>1 DEF IsPart
  <2>3. cap \in Nat /\ m \in Nat /\ 0 \in Nat /\ 1 \in {1, 2}
    BY <1>2
  <2>. HIDE DEF tri, m
  <2>. QED
    BY <1>2, <2>1, <2>2, <2>3, PartAll
<1>5. PartFits(us, cap, m, m, body, 2, 2, tri)
  <2>1. BackFrom(m, m, cap, 2)
    BY DEF BackFrom
  <2>2. IsPart(us, cap, m, m, body, 2, tri)
    <3>1. ASSUME NEW l \in C
          PROVE  tri[l] = Tri(cap, body, 2, l[1][1], l[1][2] - m, Kind(m, l[1][2], l[2]))
      <4>. DEFINE j == l[1][2]  b == l[2]
      <4>1. l \in Lab /\ j \in Nat /\ j >= m /\ ~ (j < m) /\ ~ (j < cap) /\ b \in {0, 1}
        <5>1. l \in Lab /\ j \in Nat /\ j >= m /\ b \in {0, 1}
          BY <1>0, <1>1, LabelIs
        <5>. HIDE DEF Lab, j, b
        <5>. QED
          BY <5>1
      <4>2. tri[l] = Tri(cap, body, 2, l[1][1], j - m, b + 2)
        <5>1. j >= m /\ ~ (j < m) /\ ~ (j < cap)
          BY <4>1
        <5>. HIDE DEF Lab
        <5>. QED
          BY <4>1, <5>1
      <4>3. j - m = j - m /\ Kind(m, j, b) = b + 2
        <5>. HIDE DEF j, b
        <5>. QED
          BY <4>1 DEF Kind
      <4>. QED
        BY <4>2, <4>3
    <3>. QED
      BY <3>1 DEF IsPart
  <2>3. m \in Nat /\ m \in Nat /\ body \in Nat /\ 2 \in {1, 2}
    BY <1>2
  <2>. HIDE DEF tri, m
  <2>. QED
    BY <1>2, <2>1, <2>2, <2>3, PartAll
<1>. HIDE DEF tri
<1>6. T = Surface(Lab, tri)
  <2>1. /\ Surface(A, tri) = Grid(us, cap, body + 1, 2) /\ Surface(B, tri) = Grid(us, vs, 0, 1)
        /\ Surface(C, tri) = Reversed(Grid(us, cap, body, 2))
    BY <1>3, <1>4, <1>5 DEF PartFits, GridOrBack
  <2>. HIDE DEF A, B, C, Lab
  <2>2. Surface(Lab, tri) = Surface(A, tri) \cup Surface(B, tri) \cup Surface(C, tri)
    BY <1>1 DEF Surface
  <2>. QED
    BY <2>1, <2>2 DEF CylinderCaps
\* The vertices of the cap below, of that above and of the mantle.
<1>7. ASSUME NEW l \in A, NEW k \in 1 .. 3
      PROVE  LET s == Side(m, l[1][1], l[1][2], l[2], k)
                 u == Up(m, l[1][2], l[2], k)
                 n == tri[l][k]
             IN  /\ cap >= 1 /\ s \in 0 .. us /\ u \in 0 .. rows
                 /\ n \in 0 .. size - 1 /\ n >= body /\ (n - body) % 2 = 1 /\ V[n] = Round(us, s, R[u], Y[u])
  <2>. DEFINE s == Side(m, l[1][1], l[1][2], l[2], k)  u == Up(m, l[1][2], l[2], k)
              n == tri[l][k]
  <2>1. /\ n = At(cap, (body + 1), 2, s, PartRow(cap, 0, 0, u)) /\ s \in 0 .. us
        /\ u \in Nat /\ u >= 0 /\ u <= 0 + cap /\ PartRow(cap, 0, 0, u) \in 0 .. cap
    BY <1>3 DEF PartFits, CornerFits
  <2>2. cap >= 1
    <3>. DEFINE j == l[1][2]
    <3>1. j \in Nat /\ j < cap
      BY <1>0, <1>1, LabelIs
    <3>. HIDE DEF j
    <3>. QED
      BY <3>1
  <2>. DEFINE q == u
  <2>. HIDE DEF s, u, n
  <2>3. PartRow(cap, 0, 0, u) = q /\ q \in 0 .. cap /\ u \in 0 .. rows
    BY <2>1 DEF PartRow
  <2>. HIDE DEF q
  <2>4. PICK e \in Nat : /\ e < (us + 1) * (cap + 1) /\ e \div (cap + 1) = s /\ e % (cap + 1) = q
                         /\ n = (body + 1) + e * 2
    <3>. DEFINE first == (body + 1)
    <3>1. first \in Nat /\ n = At(cap, first, 2, s, q)
      BY <1>2, <2>1, <2>3
    <3>. HIDE DEF first
    <3>2. AtTwice(us, cap, first, s, q, n)
      BY <2>1, <2>3, <3>1, AtTwiceIs
    <3>. QED
      BY <3>2 DEF AtTwice, first
  <2>5. e < c /\ e \div cv = s /\ e % cv = q
    BY <1>2, <2>2, <2>4
  <2>. DEFINE d == n - body
  <2>. HIDE DEF c
  <2>6. n \in 0 .. size - 1 /\ ~ (n < body) /\ n >= body /\ d \in Nat /\ d = 1 + e * 2
    <3>. DEFINE o == 1  first == (body + 1)
    <3>1. o \in {0, 1} /\ first = body + o
      BY <1>2
    <3>2. n = first + e * 2 /\ size = body + 2 * c
      BY <1>2, <2>4, Zenon
    <3>. HIDE DEF o, first
    <3>3. CapFit(body, o, e, n, size)
      <4>1. body \in Nat /\ c \in Nat /\ e < c
        BY <1>2, <2>5
      <4>. QED
        BY <3>1, <3>2, <4>1, CapFits, Zenon
    <3>. QED
      BY <3>3 DEF o, CapFit
  <2>. HIDE DEF d
  <2>11. d \div 2 = e /\ d % 2 = 1
    BY <2>6, HalfIs
  <2>7. V[n] = Round(us, (d \div 2) \div cv, (d \div 2) % cv, IF d % 2 = 0 THEN vs ELSE 0)
    BY <1>14, <2>6 DEF d
  <2>8. V[n] = Round(us, s, q, 0)
    BY <2>5, <2>7, <2>11
  <2>9. R[u] = q /\ Y[u] = 0
    <3>1. /\ R[u] = IF u <= cap THEN u ELSE IF u <= cap + vs THEN cap ELSE cap + vs + cap - u
          /\ Y[u] = IF u <= cap THEN 0 ELSE IF u <= cap + vs THEN u - cap ELSE vs
      BY <2>3
    <3>. HIDE DEF R, Y
    <3>. QED
      BY <2>1, <3>1 DEF q
  <2>. QED
    BY <2>1, <2>2, <2>3, <2>6, <2>8, <2>9, <2>11 DEF s, u, n, d
<1>8. ASSUME NEW l \in C, NEW k \in 1 .. 3
      PROVE  LET s == Side(m, l[1][1], l[1][2], l[2], k)
                 u == Up(m, l[1][2], l[2], k)
                 n == tri[l][k]
             IN  /\ cap >= 1 /\ s \in 0 .. us /\ u \in 0 .. rows
                 /\ n \in 0 .. size - 1 /\ n >= body /\ (n - body) % 2 = 0 /\ V[n] = Round(us, s, R[u], Y[u])
  <2>. DEFINE s == Side(m, l[1][1], l[1][2], l[2], k)  u == Up(m, l[1][2], l[2], k)
              n == tri[l][k]
  <2>1. /\ n = At(cap, body, 2, s, PartRow(cap, m, 2, u)) /\ s \in 0 .. us
        /\ u \in Nat /\ u >= m /\ u <= m + cap /\ PartRow(cap, m, 2, u) \in 0 .. cap
    BY <1>5 DEF PartFits, CornerFits
  <2>2. cap >= 1
    <3>. DEFINE j == l[1][2]
    <3>1. j \in Nat /\ j >= m /\ j < m + cap
      BY <1>0, <1>1, LabelIs
    <3>. HIDE DEF j
    <3>. QED
      BY <3>1
  <2>. DEFINE q == rows - u
  <2>. HIDE DEF s, u, n
  <2>3. PartRow(cap, m, 2, u) = q /\ q \in 0 .. cap /\ u \in 0 .. rows
    BY <2>1 DEF PartRow
  <2>. HIDE DEF q
  <2>4. PICK e \in Nat : /\ e < (us + 1) * (cap + 1) /\ e \div (cap + 1) = s /\ e % (cap + 1) = q
                         /\ n = body + e * 2
    <3>. DEFINE first == body
    <3>1. first \in Nat /\ n = At(cap, first, 2, s, q)
      BY <1>2, <2>1, <2>3
    <3>. HIDE DEF first
    <3>2. AtTwice(us, cap, first, s, q, n)
      BY <2>1, <2>3, <3>1, AtTwiceIs
    <3>. QED
      BY <3>2 DEF AtTwice, first
  <2>5. e < c /\ e \div cv = s /\ e % cv = q
    BY <1>2, <2>2, <2>4
  <2>. DEFINE d == n - body
  <2>. HIDE DEF c
  <2>6. n \in 0 .. size - 1 /\ ~ (n < body) /\ n >= body /\ d \in Nat /\ d = 0 + e * 2
    <3>. DEFINE o == 0  first == body
    <3>1. o \in {0, 1} /\ first = body + o
      BY <1>2
    <3>2. n = first + e * 2 /\ size = body + 2 * c
      BY <1>2, <2>4, Zenon
    <3>. HIDE DEF o, first
    <3>3. CapFit(body, o, e, n, size)
      <4>1. body \in Nat /\ c \in Nat /\ e < c
        BY <1>2, <2>5
      <4>. QED
        BY <3>1, <3>2, <4>1, CapFits, Zenon
    <3>. QED
      BY <3>3 DEF o, CapFit
  <2>. HIDE DEF d
  <2>11. d \div 2 = e /\ d % 2 = 0
    BY <2>6, HalfIs
  <2>7. V[n] = Round(us, (d \div 2) \div cv, (d \div 2) % cv, IF d % 2 = 0 THEN vs ELSE 0)
    BY <1>14, <2>6 DEF d
  <2>8. V[n] = Round(us, s, q, vs)
    BY <2>5, <2>7, <2>11
  <2>9. R[u] = q /\ Y[u] = vs
    <3>1. /\ R[u] = IF u <= cap THEN u ELSE IF u <= cap + vs THEN cap ELSE cap + vs + cap - u
          /\ Y[u] = IF u <= cap THEN 0 ELSE IF u <= cap + vs THEN u - cap ELSE vs
      BY <2>3
    <3>. HIDE DEF R, Y
    <3>. QED
      BY <2>1, <3>1 DEF q
  <2>. QED
    BY <2>1, <2>2, <2>3, <2>6, <2>8, <2>9, <2>11 DEF s, u, n, d
<1>9. ASSUME NEW l \in B, NEW k \in 1 .. 3
      PROVE  LET s == Side(m, l[1][1], l[1][2], l[2], k)
                 u == Up(m, l[1][2], l[2], k)
                 n == tri[l][k]
             IN  /\ s \in 0 .. us /\ u \in 0 .. rows
                 /\ n \in 0 .. size - 1 /\ n < body
                 /\ (cap >= 1 => V[n] = Round(us, s, R[u], Y[u]))
  <2>. DEFINE s == Side(m, l[1][1], l[1][2], l[2], k)  u == Up(m, l[1][2], l[2], k)
              n == tri[l][k]
  <2>1. /\ n = At(vs, 0, 1, s, PartRow(vs, cap, 0, u)) /\ s \in 0 .. us
        /\ u \in Nat /\ u >= cap /\ u <= cap + vs /\ PartRow(vs, cap, 0, u) \in 0 .. vs
    BY <1>4 DEF PartFits, CornerFits
  <2>. DEFINE v == u - cap
  <2>. HIDE DEF s, u, n
  <2>3. PartRow(vs, cap, 0, u) = v /\ v \in 0 .. vs /\ u \in 0 .. rows
    BY <2>1 DEF PartRow
  <2>. HIDE DEF v
  <2>4. AtFits(us, vs, 0, s, v, n)
    BY <2>1, <2>3, AtIs
  <2>5. n \in Nat /\ n < body /\ n \div (vs + 1) = s /\ n % (vs + 1) = v
    <3>1. n - 0 = n
      BY <2>4 DEF AtFits
    <3>. QED
      BY <2>4, <3>1 DEF AtFits
  <2>6. n \in 0 .. size - 1
    <3>. HIDE DEF c
    <3>. QED
      BY <1>2, <2>5
  <2>7. V[n] = Round(us, n \div (vs + 1), h, n % (vs + 1))
    BY <1>14, <2>5, <2>6
  <2>8. V[n] = Round(us, s, h, v)
    BY <2>5, <2>7
  <2>9. R[u] = cap /\ Y[u] = v
    <3>1. /\ R[u] = IF u <= cap THEN u ELSE IF u <= cap + vs THEN cap ELSE cap + vs + cap - u
          /\ Y[u] = IF u <= cap THEN 0 ELSE IF u <= cap + vs THEN u - cap ELSE vs
      BY <2>3
    <3>. HIDE DEF R, Y
    <3>. QED
      BY <2>1, <3>1 DEF v
  <2>. QED
    BY <2>1, <2>3, <2>5, <2>6, <2>8, <2>9 DEF s, u, n
<1>10. InDomain(Lab, tri, V)
  <2>. HIDE DEF A, B, C, Lab
  <2>. QED
    BY <1>1, <1>7, <1>8, <1>9, <1>14 DEF InDomain
<1>11. OnceEach(Lab, tri)
  <2>1. OnceEach(A, tri) /\ OnceEach(B, tri) /\ OnceEach(C, tri)
    BY <1>3, <1>4, <1>5 DEF PartFits
  <2>2. 1 \in 1 .. 3
    OBVIOUS
  <2>3. ASSUME NEW l \in A \cup C, NEW p \in B PROVE tri[l] # tri[p]
    <3>. DEFINE n == tri[l][1]  g == tri[p][1]
    <3>1. n >= body /\ g < body /\ n \in 0 .. size - 1 /\ g \in 0 .. size - 1
      <4>. HIDE DEF A, B, C
      <4>. QED
        BY <1>7, <1>8, <1>9, <2>2
    <3>2. n # g
      <4>. HIDE DEF n, g
      <4>. QED
        BY <1>2, <3>1
    <3>. QED
      BY <3>2
  <2>4. ASSUME NEW l \in A, NEW p \in C PROVE tri[l] # tri[p]
    <3>. DEFINE n == tri[l][1]  g == tri[p][1]
    <3>1. (n - body) % 2 = 1 /\ (g - body) % 2 = 0
      <4>. HIDE DEF A, C
      <4>. QED
        BY <1>7, <1>8, <2>2
    <3>2. n # g
      <4>. HIDE DEF n, g
      <4>. QED
        BY <3>1
    <3>. QED
      BY <3>2
  <2>. HIDE DEF A, B, C, Lab
  <2>. QED
    BY <1>1, <2>1, <2>3, <2>4 DEF OnceEach
<1>12. IsFiniteSet(T) /\ Cardinality(T) = us * rows * 2 /\ IndicesFit(V, T)
  <2>. HIDE DEF T, rows
  <2>. QED
    BY <1>0, <1>6, <1>10, <1>11, CountIs
<1>13. ASSUME cap # 0
       PROVE  Closed(V, T)
  <2>1. us >= 3 /\ rows >= 2 /\ cap >= 1
    BY <1>13
  <2>2. RowsApart(rows, R, Y)
    BY <2>1, CylinderRows
  <2>. HIDE DEF T, R, Y, rows, A, B, C, m
  <2>3. PlacesAre(us, rows, m, V, tri, R, Y)
    <3>. SUFFICES ASSUME NEW l \in Lab, NEW k \in 1 .. 3
                  PROVE  V[tri[l][k]] = Round(us, Side(m, l[1][1], l[1][2], l[2], k),
                                              R[Up(m, l[1][2], l[2], k)], Y[Up(m, l[1][2], l[2], k)])
      BY DEF PlacesAre
    <3>1. CASE l \in A
      BY <1>7, <3>1
    <3>2. CASE l \in B
      BY <1>9, <2>1, <3>2
    <3>3. CASE l \in C
      BY <1>8, <3>3
    <3>. QED
      BY <1>1, <3>1, <3>2, <3>3
  <2>. QED
    BY <1>0, <1>6, <1>12, <2>1, <2>2, <2>3, RoundShapeIsClosed
<1>15. us * rows * 2 = 2 * us * vs + 4 * us * cap
  OBVIOUS
<1>. QED
  BY <1>12, <1>13, <1>15 DEF Good

\* The numbers of the vertices of the box.
BoxAt(us, vs, f, s, u, n) ==
  LET size == (us + 1) * (vs + 1)
  IN  /\ n \in Nat /\ n < 6 * size
      /\ n \div size = f /\ (n % size) \div (vs + 1) = s /\ n % (vs + 1) = u

LEMMA BoxAtIs ==
  ASSUME NEW us \in Nat, NEW vs \in Nat, NEW f \in 0 .. 5, NEW s \in 0 .. us, NEW u \in 0 .. vs
  PROVE  BoxAt(us, vs, f, s, u, At(vs, f * ((us + 1) * (vs + 1)), 1, s, u))
<1>. DEFINE g == us + 1  w == vs + 1  size == g * w
            a == s * w + u
            n == f * size + a
<1>1. g \in Nat /\ g >= 1 /\ w \in Nat /\ w >= 1 /\ s \in Nat /\ s < g /\ u \in Nat /\ u < w
      /\ f \in Nat /\ f <= 5 /\ s <= us
  OBVIOUS
<1>2. a \in Nat /\ a < size /\ a \div w = s
  <2>1. w > 0 /\ (us + 1) * w = size
    OBVIOUS
  <2>. HIDE DEF w, size
  <2>2. a \in Nat /\ a < (us + 1) * w /\ a \div w = s
    BY <1>1, <2>1, NumberIs
  <2>. QED
    BY <2>1, <2>2
<1>3. size \in Nat /\ size > 0 /\ f * size \in Nat
  <2>. HIDE DEF g, w
  <2>1. size \in Nat
    BY <1>1, ProductIsNat
  <2>. HIDE DEF size, a
  <2>2. size > 0
    BY <1>2, <2>1
  <2>. QED
    BY <1>1, <2>1, <2>2, ProductIsNat
<1>4. n \in Nat /\ n < 6 * size /\ n \div size = f /\ n % size = a
  <2>. HIDE DEF a, size
  <2>1. 5 \in Nat
    OBVIOUS
  <2>2. n \in Nat /\ n < (5 + 1) * size /\ n \div size = f /\ n % size = a
    BY <1>1, <1>2, <1>3, <2>1, NumberIs
  <2>. QED
    BY <1>3, <2>2
<1>5. n % w = u
  <2>. DEFINE e == f * g + s
  <2>1. e \in Nat
    <3>. HIDE DEF g
    <3>1. f * g \in Nat
      BY <1>1, ProductIsNat
    <3>. QED
      BY <1>1, <3>1
  <2>2. n = e * w + u
    <3>. HIDE DEF g, w
    <3>. QED
      BY <1>1
  <2>3. (e * w + u) % w = u
    <3>1. w > 0 /\ e <= e
      BY <1>1, <2>1
    <3>. HIDE DEF w, e
    <3>. QED
      BY <1>1, <2>1, <3>1, NumberIs
  <2>. HIDE DEF n, e
  <2>. QED
    BY <2>2, <2>3
<1>6. At(vs, f * size, 1, s, u) = n
  <2>. DEFINE c == f * size
  <2>1. a = Number(vs, s, u)
    BY DEF Number
  <2>. HIDE DEF a, size
  <2>2. c \in Nat /\ a \in Nat
    BY <1>2, <1>3
  <2>. HIDE DEF c
  <2>3. At(vs, c, 1, s, u) = c + a * 1
    BY <2>1 DEF At
  <2>4. At(vs, c, 1, s, u) = c + a
    BY <2>2, <2>3
  <2>. QED
    BY <2>4 DEF c
<1>7. BoxAt(us, vs, f, s, u, n)
  <2>. HIDE DEF n, a
  <2>1. a \div w = s
    BY <1>2
  <2>. QED
    BY <1>4, <1>5, <2>1 DEF BoxAt
<1>. QED
  <2>. HIDE DEF n
  <2>. QED
    BY <1>6, <1>7

\* The places of its vertices when there are n by n cells to a side.
BoxPos(us, vs, i, j) == <<(2 * i - us) * vs, (2 * j - vs) * us, us * vs>>

LEMMA BoxPlaceIs ==
  ASSUME NEW n \in Nat, n >= 1, NEW f \in {0, 1, 2, 3, 4, 5}, NEW i \in Int, NEW j \in Int
  PROVE  Turned(f, BoxPos(n, n, i, j)) = <<BoxX(n, f, i, j) * n, BoxY(n, f, i, j) * n, BoxZ(n, f, i, j) * n>>
<1>. DEFINE x == 2 * i - n  y == 2 * j - n
            p == BoxPos(n, n, i, j)
<1>1. x \in Int /\ y \in Int /\ n - 2 * i = -x /\ n - 2 * j = -y
  OBVIOUS
<1>2. p = <<x * n, y * n, n * n>>
  BY DEF BoxPos
<1>. HIDE DEF p
<1>3. p[1] = x * n /\ p[2] = y * n /\ p[3] = n * n
  BY <1>2
<1>. HIDE DEF x, y
<1>4. (-x) * n = -(x * n) /\ (-y) * n = -(y * n) /\ (-n) * n = -(n * n)
  BY <1>1
<1>5. CASE f = 0
  <2>1. Turned(f, p) = p
    BY <1>5 DEF Turned
  <2>2. BoxX(n, f, i, j) = x /\ BoxY(n, f, i, j) = y /\ BoxZ(n, f, i, j) = n
    BY <1>5 DEF BoxX, BoxY, BoxZ, x, y
  <2>. QED
    BY <1>2, <2>1, <2>2 DEF p
<1>6. CASE f = 1
  <2>1. Turned(f, p) = <<p[3], p[2], -p[1]>>
    BY <1>6 DEF Turned
  <2>2. BoxX(n, f, i, j) = n /\ BoxY(n, f, i, j) = y /\ BoxZ(n, f, i, j) = -x
    BY <1>6 DEF BoxX, BoxY, BoxZ, x, y
  <2>. QED
    BY <1>3, <1>4, <2>1, <2>2 DEF p
<1>7. CASE f = 2
  <2>1. Turned(f, p) = <<-p[1], p[2], -p[3]>>
    BY <1>7 DEF Turned
  <2>2. BoxX(n, f, i, j) = -x /\ BoxY(n, f, i, j) = y /\ BoxZ(n, f, i, j) = -n
    BY <1>7 DEF BoxX, BoxY, BoxZ, x, y
  <2>. QED
    BY <1>3, <1>4, <2>1, <2>2 DEF p
<1>8. CASE f = 3
  <2>1. Turned(f, p) = <<-p[3], p[2], p[1]>>
    BY <1>8 DEF Turned
  <2>2. BoxX(n, f, i, j) = -n /\ BoxY(n, f, i, j) = y /\ BoxZ(n, f, i, j) = x
    BY <1>8 DEF BoxX, BoxY, BoxZ, x, y
  <2>. QED
    BY <1>3, <1>4, <2>1, <2>2 DEF p
<1>9. CASE f = 4
  <2>1. Turned(f, p) = <<p[1], -p[3], p[2]>>
    BY <1>9 DEF Turned
  <2>2. BoxX(n, f, i, j) = x /\ BoxY(n, f, i, j) = -n /\ BoxZ(n, f, i, j) = y
    BY <1>9 DEF BoxX, BoxY, BoxZ, x, y
  <2>. QED
    BY <1>3, <1>4, <2>1, <2>2 DEF p
<1>10. CASE f = 5
  <2>1. Turned(f, p) = <<p[1], p[3], -p[2]>>
    BY <1>10 DEF Turned
  <2>2. BoxX(n, f, i, j) = x /\ BoxY(n, f, i, j) = n /\ BoxZ(n, f, i, j) = -y
    BY <1>10 DEF BoxX, BoxY, BoxZ, x, y
  <2>. QED
    BY <1>3, <1>4, <2>1, <2>2 DEF p
<1>. QED
  BY <1>5, <1>6, <1>7, <1>8, <1>9, <1>10 DEF p

BoxPlaceAt(n, f, i, j) ==
  Turned(f, BoxPos(n, n, i, j)) = <<BoxX(n, f, i, j) * n, BoxY(n, f, i, j) * n, BoxZ(n, f, i, j) * n>>

LEMMA BoxPlacesAre ==
  ASSUME NEW n \in Nat, n >= 1, NEW f \in {0, 1, 2, 3, 4, 5}, NEW i \in Int, NEW j \in Int
  PROVE  BoxPlaceAt(n, f, i, j)
BY BoxPlaceIs DEF BoxPlaceAt

LEMMA IntTimesApart ==
  ASSUME NEW n \in Nat, n >= 1, NEW a \in Int, NEW b \in Int
  PROVE  a * n = b * n <=> a = b
<1>1. ASSUME NEW c \in Nat, c # 0 PROVE c * n # 0
  BY <1>1, TimesApart
<1>2. (a - b) * n = a * n - b * n /\ (b - a) * n = b * n - a * n /\ a * n \in Int /\ b * n \in Int
  OBVIOUS
<1>3. ASSUME a * n = b * n PROVE a = b
  <2>1. (a - b) * n = 0 /\ (b - a) * n = 0
    BY <1>2, <1>3
  <2>2. CASE a > b
    <3>. DEFINE c == a - b
    <3>1. c \in Nat /\ c # 0
      BY <2>2
    <3>. HIDE DEF c
    <3>2. c * n # 0
      BY <1>1, <3>1
    <3>. QED
      BY <2>1, <3>2 DEF c
  <2>3. CASE a < b
    <3>. DEFINE c == b - a
    <3>1. c \in Nat /\ c # 0
      BY <2>3
    <3>. HIDE DEF c
    <3>2. c * n # 0
      BY <1>1, <3>1
    <3>. QED
      BY <2>1, <3>2 DEF c
  <2>. QED
    BY <2>2, <2>3
<1>. QED
  BY <1>3

SideLabels(us, vs) == (0 .. 5) \X Labels(us, vs)

LEMMA SideLabelsAre ==
  ASSUME NEW us \in Nat, NEW vs \in Nat
  PROVE  IsFiniteSet(SideLabels(us, vs)) /\ Cardinality(SideLabels(us, vs)) = 6 * (us * vs * 2)
<1>1. IsFiniteSet(0 .. 5) /\ Cardinality(0 .. 5) = 6
  <2>1. 0 \in Int /\ 5 \in Int
    OBVIOUS
  <2>2. IsFiniteSet(0 .. 5) /\ Cardinality(0 .. 5) = IF 0 > 5 THEN 0 ELSE 5 - 0 + 1
    BY <2>1, FS_Interval, Zenon
  <2>. QED
    BY <2>2
<1>2. IsFiniteSet(Labels(us, vs)) /\ Cardinality(Labels(us, vs)) = us * vs * 2
  BY LabelsAre
<1>3. IsFiniteSet(SideLabels(us, vs))
      /\ Cardinality(SideLabels(us, vs)) = Cardinality(0 .. 5) * Cardinality(Labels(us, vs))
  BY <1>1, <1>2, FS_Product, Zenon DEF SideLabels
<1>. QED
  BY <1>1, <1>2, <1>3, Zenon

SidesOf(us, vs, size) == UNION {Grid(us, vs, f * size, 1) : f \in 0 .. 5}

AreSides(us, vs, size, tri) ==
  tri = [l \in SideLabels(us, vs) |-> Tri(vs, l[1] * size, 1, l[2][1][1], l[2][1][2], l[2][2])]

LEMMA BoxSides ==
  ASSUME NEW us \in Nat, NEW vs \in Nat, NEW size \in Nat, NEW tri, AreSides(us, vs, size, tri)
  PROVE  SidesOf(us, vs, size) = Surface(SideLabels(us, vs), tri)
<1>. DEFINE G(f) == Grid(us, vs, f * size, 1)
            t(f, l) == Tri(vs, f * size, 1, l[1][1], l[1][2], l[2])
<1>1. ASSUME NEW f \in 0 .. 5 PROVE G(f) = {t(f, l) : l \in Labels(us, vs)}
  <2>. DEFINE c == f * size
  <2>1. c \in Nat /\ 1 \in {1, 2}
    BY ProductIsNat
  <2>. HIDE DEF c
  <2>2. Grid(us, vs, c, 1) = {Tri(vs, c, 1, l[1][1], l[1][2], l[2]) : l \in Labels(us, vs)}
    BY <2>1, GridIs
  <2>. QED
    BY <2>2 DEF c
<1>2. \A x \in SideLabels(us, vs) : x[1] \in 0 .. 5 /\ x[2] \in Labels(us, vs) /\ tri[x] = t(x[1], x[2])
  BY DEF SideLabels, AreSides
<1>3. \A f \in 0 .. 5 : \A l \in Labels(us, vs) : <<f, l>> \in SideLabels(us, vs) /\ tri[<<f, l>>] = t(f, l)
  BY DEF SideLabels, AreSides
<1>. HIDE DEF t, G
<1>4. UNION {G(f) : f \in 0 .. 5} = Surface(SideLabels(us, vs), tri)
  <2>1. ASSUME NEW z \in UNION {G(f) : f \in 0 .. 5} PROVE z \in Surface(SideLabels(us, vs), tri)
    <3>1. PICK f \in 0 .. 5 : z \in G(f)
      OBVIOUS
    <3>2. PICK l \in Labels(us, vs) : z = t(f, l)
      BY <1>1, <3>1
    <3>3. <<f, l>> \in SideLabels(us, vs) /\ z = tri[<<f, l>>]
      BY <1>3, <3>2
    <3>. QED
      BY <3>3 DEF Surface
  <2>2. ASSUME NEW x \in SideLabels(us, vs) PROVE tri[x] \in UNION {G(f) : f \in 0 .. 5}
    BY <1>1, <1>2
  <2>. QED
    BY <2>1, <2>2 DEF Surface
<1>. QED
  BY <1>4 DEF G, SidesOf

BoxVerts(us, vs, size) ==
  [n \in 0 .. 6 * size - 1 |->
    Turned(n \div size, BoxPos(us, vs, (n % size) \div (vs + 1), n % (vs + 1)))]

LEMMA BoxGood ==
  ASSUME NEW us \in Nat, us >= 1, NEW vs \in Nat, vs >= 1, NEW size, size = (us + 1) * (vs + 1), NEW V,
         V = BoxVerts(us, vs, size)
  PROVE  Good(V, SidesOf(us, vs, size), 12 * us * vs, us = vs)
<1>. DEFINE Lab == SideLabels(us, vs)
            tri == [l \in Lab |-> Tri(vs, l[1] * size, 1, l[2][1][1], l[2][1][2], l[2][2])]
            T == SidesOf(us, vs, size)
<1>1. size \in Nat
  <2>. DEFINE g == us + 1  e == vs + 1
  <2>1. g \in Nat /\ e \in Nat /\ size = g * e
    OBVIOUS
  <2>. HIDE DEF g, e
  <2>. QED
    BY <2>1, ProductIsNat
<1>2. T = Surface(Lab, tri)
  <2>1. AreSides(us, vs, size, tri)
    BY DEF AreSides
  <2>. HIDE DEF tri
  <2>2. SidesOf(us, vs, size) = Surface(Lab, tri)
    BY <1>1, <2>1, BoxSides
  <2>. QED
    BY <2>2
<1>3. ASSUME NEW l \in Lab
      PROVE  /\ l[1] \in 0 .. 5 /\ l[2][1][1] \in 0 .. us - 1 /\ l[2][1][2] \in 0 .. vs - 1 /\ l[2][2] \in {0, 1}
             /\ l = <<l[1], <<<<l[2][1][1], l[2][1][2]>>, l[2][2]>>>>
  <2>1. l[1] \in 0 .. 5 /\ l[2] \in Labels(us, vs) /\ l = <<l[1], l[2]>>
    BY DEF SideLabels
  <2>. QED
    BY <2>1, LabelIs
<1>4. ASSUME NEW l \in Lab, NEW k \in 1 .. 3
      PROVE  LET s == l[2][1][1] + Right(l[2][2], k)
                 u == l[2][1][2] + Above(l[2][2], k)
             IN  s \in 0 .. us /\ u \in 0 .. vs /\ BoxAt(us, vs, l[1], s, u, tri[l][k])
  <2>. DEFINE f == l[1]  i == l[2][1][1]  j == l[2][1][2]  b == l[2][2]
              s == i + Right(b, k)  u == j + Above(b, k)
  <2>1. f \in 0 .. 5 /\ i \in 0 .. us - 1 /\ j \in 0 .. vs - 1 /\ b \in {0, 1}
    BY <1>3
  <2>2. tri[l][k] = Corner(vs, f * size, 1, i, j, b, k)
    BY TriIs
  <2>. HIDE DEF f, i, j, b
  <2>3. Row(vs, j, b, k) = u
    BY <2>1 DEF Row
  <2>4. s \in 0 .. us /\ u \in 0 .. vs
    <3>1. b \in 0 .. 3
      BY <2>1
    <3>2. Right(b, k) \in 0 .. 1 /\ Above(b, k) \in 0 .. 1
      BY <3>1, CornersAre
    <3>. QED
      BY <2>1, <3>2
  <2>5. tri[l][k] = At(vs, f * size, 1, s, u)
    BY <2>2, <2>3 DEF Corner
  <2>. HIDE DEF s, u, tri
  <2>6. BoxAt(us, vs, f, s, u, At(vs, f * ((us + 1) * (vs + 1)), 1, s, u))
    BY <2>1, <2>4, BoxAtIs
  <2>7. BoxAt(us, vs, f, s, u, tri[l][k])
    BY <2>5, <2>6, Zenon
  <2>. QED
    BY <2>4, <2>7 DEF f, i, j, b, s, u
<1>. HIDE DEF tri
<1>5. ASSUME NEW l \in Lab, NEW k \in 1 .. 3
      PROVE  LET f == l[1]
                 s == l[2][1][1] + Right(l[2][2], k)
                 u == l[2][1][2] + Above(l[2][2], k)
                 n == tri[l][k]
             IN  /\ s \in 0 .. us /\ u \in 0 .. vs /\ n \in DOMAIN V /\ n \div size = f
                 /\ V[n] = Turned(f, BoxPos(us, vs, s, u))
  <2>. DEFINE f == l[1]
              s == l[2][1][1] + Right(l[2][2], k)
              u == l[2][1][2] + Above(l[2][2], k)
              n == tri[l][k]
  <2>1. s \in 0 .. us /\ u \in 0 .. vs /\ BoxAt(us, vs, f, s, u, n)
    BY <1>4
  <2>. HIDE DEF f, s, u, n
  <2>2. n \in Nat /\ n < 6 * size /\ n \div size = f /\ (n % size) \div (vs + 1) = s /\ n % (vs + 1) = u
    BY <2>1, Zenon DEF BoxAt
  <2>3. n \in 0 .. 6 * size - 1
    BY <1>1, <2>2
  <2>4. n \in DOMAIN V /\ V[n] = Turned(n \div size, BoxPos(us, vs, (n % size) \div (vs + 1), n % (vs + 1)))
    BY <2>3 DEF BoxVerts
  <2>5. V[n] = Turned(f, BoxPos(us, vs, s, u))
    BY <2>2, <2>4
  <2>. QED
    BY <2>1, <2>2, <2>4, <2>5 DEF f, s, u, n
<1>6. OnceEach(Lab, tri)
  <2>. SUFFICES ASSUME NEW l \in Lab, NEW p \in Lab, tri[l] = tri[p] PROVE l = p
    BY DEF OnceEach
  <2>1. l[1] = p[1]
    <3>1. 1 \in 1 .. 3
      OBVIOUS
    <3>2. \A x \in Lab : tri[x][1] \div size = x[1]
      BY <1>5, <3>1
    <3>. QED
      BY <3>2
  <2>. DEFINE c == l[1] * size
              i == l[2][1][1]  j == l[2][1][2]  b == l[2][2]
              i2 == p[2][1][1]  j2 == p[2][1][2]  b2 == p[2][2]
  <2>2. /\ i \in 0 .. us - 1 /\ j \in 0 .. vs - 1 /\ b \in {0, 1}
        /\ i2 \in 0 .. us - 1 /\ j2 \in 0 .. vs - 1 /\ b2 \in {0, 1}
        /\ l = <<l[1], <<<<i, j>>, b>>>> /\ p = <<p[1], <<<<i2, j2>>, b2>>>>
    BY <1>3
  <2>3. Tri(vs, c, 1, i, j, b) = Tri(vs, c, 1, i2, j2, b2)
    BY <2>1 DEF tri
  <2>4. c \in Nat
    <3>. DEFINE f == l[1]
    <3>1. f \in Nat
      <4>1. f \in 0 .. 5
        BY <1>3
      <4>. HIDE DEF f
      <4>. QED
        BY <4>1
    <3>. HIDE DEF f
    <3>2. f * size \in Nat
      BY <1>1, <3>1, ProductIsNat
    <3>. QED
      BY <3>2 DEF f
  <2>. HIDE DEF c, i, j, b, i2, j2, b2
  <2>5. TrisApart(us, vs, c, 1, 0)
    <3>1. 1 \in {1, 2} /\ 0 \in {0, 2}
      OBVIOUS
    <3>. QED
      BY <2>4, <3>1, OneLabel
  <2>6. b + 0 = b /\ b2 + 0 = b2
    BY <2>2
  <2>7. i = i2 /\ j = j2 /\ b = b2
    BY <2>2, <2>3, <2>5, <2>6 DEF TrisApart
  <2>. QED
    BY <2>1, <2>2, <2>7
<1>7. IsFiniteSet(T) /\ Cardinality(T) = 6 * (us * vs * 2)
  <2>1. IsFiniteSet(Lab) /\ Cardinality(Lab) = 6 * (us * vs * 2)
    BY SideLabelsAre
  <2>2. \A l, p \in Lab : tri[l] = tri[p] => l = p
    BY <1>6 DEF OnceEach
  <2>. HIDE DEF Lab, T
  <2>3. IsFiniteSet(T) /\ Cardinality(T) = Cardinality(Lab)
    BY <1>2, <2>1, <2>2, Counted
  <2>. QED
    BY <2>1, <2>3
<1>8. IndicesFit(V, T)
  <2>. HIDE DEF Lab, T
  <2>. QED
    BY <1>2, <1>5 DEF IndicesFit, Surface
<1>9. ASSUME us = vs
      PROVE  Closed(V, T)
  <2>. DEFINE n == us
  <2>1. Lab = BoxLabels(n)
    BY <1>9 DEF SideLabels, BoxLabels
  <2>2. BoxTouching(n, V, tri)
    <3>. SUFFICES ASSUME NEW l \in Lab, NEW p \in Lab, NEW k \in 1 .. 3, NEW q \in 1 .. 3
                  PROVE  V[tri[l][k]] = V[tri[p][q]]
                           <=> BoxTouch(n, l[1], l[2][1][1], l[2][1][2], l[2][2], k,
                                        p[1], p[2][1][1], p[2][1][2], p[2][2], q)
      BY <2>1 DEF BoxTouching
    <3>. DEFINE f == l[1]  i == l[2][1][1]  j == l[2][1][2]  b == l[2][2]
                f2 == p[1]  i2 == p[2][1][1]  j2 == p[2][1][2]  b2 == p[2][2]
                s == i + Right(b, k)  u == j + Above(b, k)
                s2 == i2 + Right(b2, q)  u2 == j2 + Above(b2, q)
                v == V[tri[l][k]]  v2 == V[tri[p][q]]
    <3>1. f \in {0, 1, 2, 3, 4, 5} /\ f2 \in {0, 1, 2, 3, 4, 5}
      <4>1. \A x \in 0 .. 5 : x \in {0, 1, 2, 3, 4, 5}
        OBVIOUS
      <4>. QED
        BY <1>3, <4>1
    <3>2. /\ s \in 0 .. us /\ u \in 0 .. vs /\ v = Turned(f, BoxPos(n, n, s, u))
          /\ s2 \in 0 .. us /\ u2 \in 0 .. vs /\ v2 = Turned(f2, BoxPos(n, n, s2, u2))
      BY <1>5, <1>9
    <3>3. BoxTouch(n, f, i, j, b, k, f2, i2, j2, b2, q) <=> BoxMeet(n, f, s, u, f2, s2, u2)
      BY DEF BoxTouch
    <3>. HIDE DEF f, i, j, b, f2, i2, j2, b2, s, u, s2, u2, v, v2
    <3>. DEFINE x == BoxX(n, f, s, u)  y == BoxY(n, f, s, u)  z == BoxZ(n, f, s, u)
                x2 == BoxX(n, f2, s2, u2)  y2 == BoxY(n, f2, s2, u2)  z2 == BoxZ(n, f2, s2, u2)
    <3>4. s \in Int /\ u \in Int /\ s2 \in Int /\ u2 \in Int
      BY <3>2
    <3>5. v = <<x * n, y * n, z * n>> /\ v2 = <<x2 * n, y2 * n, z2 * n>>
      <4>1. n \in Nat /\ n >= 1
        OBVIOUS
      <4>. HIDE DEF n
      <4>2. Turned(f, BoxPos(n, n, s, u)) = <<x * n, y * n, z * n>>
        <5>1. BoxPlaceAt(n, f, s, u)
          BY <3>1, <3>4, <4>1, BoxPlacesAre
        <5>. QED
          BY <5>1, Zenon DEF BoxPlaceAt, x, y, z
      <4>3. Turned(f2, BoxPos(n, n, s2, u2)) = <<x2 * n, y2 * n, z2 * n>>
        <5>1. BoxPlaceAt(n, f2, s2, u2)
          BY <3>1, <3>4, <4>1, BoxPlacesAre
        <5>. QED
          BY <5>1, Zenon DEF BoxPlaceAt, x2, y2, z2
      <4>. QED
        BY <3>2, <4>2, <4>3, Zenon
    <3>6. x \in Int /\ y \in Int /\ z \in Int /\ x2 \in Int /\ y2 \in Int /\ z2 \in Int
      BY <3>1, <3>4 DEF BoxX, BoxY, BoxZ
    <3>7. BoxMeet(n, f, s, u, f2, s2, u2) <=> x = x2 /\ y = y2 /\ z = z2
      BY DEF BoxMeet
    <3>. HIDE DEF x, y, z, x2, y2, z2
    <3>8. (x * n = x2 * n <=> x = x2) /\ (y * n = y2 * n <=> y = y2) /\ (z * n = z2 * n <=> z = z2)
      <4>1. \A a, c \in Int : a * n = c * n <=> a = c
        BY IntTimesApart
      <4>. QED
        BY <3>6, <4>1
    <3>9. v = v2 <=> BoxTouch(n, f, i, j, b, k, f2, i2, j2, b2, q)
      BY <3>3, <3>5, <3>7, <3>8
    <3>. QED
      BY <3>9 DEF f, i, j, b, f2, i2, j2, b2, v, v2
  <2>3. n \in Nat /\ n >= 1
    OBVIOUS
  <2>. HIDE DEF n, T, Lab
  <2>. QED
    BY <1>2, <1>7, <2>1, <2>2, <2>3, BoxIsClosed
<1>10. 6 * (us * vs * 2) = 12 * us * vs
  OBVIOUS
<1>. QED
  <2>. HIDE DEF T
  <2>1. Good(V, T, 12 * us * vs, us = vs)
    BY <1>7, <1>8, <1>9, <1>10 DEF Good
  <2>. QED
    BY <2>1 DEF T

-----------------------------------------------------------------------------
(* What the generators make.                                               *)

LEMMA MadeIsClosed ==
  ASSUME NEW V, NEW T, NEW n, NEW full, Made(V, T, n, full), Good(V, T, n, full)
  PROVE  SurfaceIsClosed'
<1>1. verts' = V /\ tris' = T /\ numTri' = n /\ closed' = full
  BY DEF Made
<1>2. Cardinality(tris') = numTri' /\ \A t \in tris' : \A k \in 1 .. 3 : t[k] \in DOMAIN verts'
  BY <1>1 DEF Good, IndicesFit
<1>3. ASSUME closed'
      PROVE  (LET edges == UNION {EdgesOf(Place(t)) : t \in Faces}
              IN  /\ Cardinality(edges) = 3 * Cardinality(Faces)
                  /\ edges = {<<e[2], e[1]>> : e \in edges})'
  <2>1. Closed(V, T)
    BY <1>1, <1>3 DEF Good
  <2>2. Closed(verts', tris')
    BY <1>1, <2>1
  <2>. QED
    BY <2>2, Zenon DEF Closed, Faces, Place
<1>. QED
  BY <1>2, <1>3, Zenon DEF SurfaceIsClosed

LEMMA SphereMade ==
  ASSUME NEW usub \in Nat, NEW vsub \in Nat, GenSphere(usub, vsub)
  PROVE  SurfaceIsClosed'
<1>. DEFINE us == AtLeast(usub, 4)  vs == AtLeast(vsub, 2)
            V == [n \in 0 .. (us + 1) * (vs + 1) - 1 |->
                    Round(us, n \div (vs + 1), IF n % (vs + 1) \in {0, vs} THEN 0 ELSE 1, n % (vs + 1))]
            T == Reversed(Grid(us, vs, 0, 1))
<1>1. us \in Nat /\ us >= 4 /\ vs \in Nat /\ vs >= 2
  BY AtLeastIs
<1>2. Made(V, T, 2 * us * vs, TRUE)
  BY Zenon DEF GenSphere
<1>. HIDE DEF us, vs
<1>3. Good(V, T, 2 * us * vs, TRUE)
  BY <1>1, SphereGood
<1>. HIDE DEF V, T
<1>. QED
  BY <1>2, <1>3, MadeIsClosed

LEMMA TorusMade ==
  ASSUME NEW usub \in Nat, NEW vsub \in Nat, GenTorus(usub, vsub)
  PROVE  SurfaceIsClosed'
<1>. DEFINE us == AtLeast(usub, 4)  vs == AtLeast(vsub, 2)
            V == [n \in 0 .. (us + 1) * (vs + 1) - 1 |->
                    Round(us, n \div (vs + 1), 1, (n % (vs + 1)) % vs)]
            T == Reversed(Grid(us, vs, 0, 1))
<1>1. us \in Nat /\ us >= 4 /\ vs \in Nat /\ vs >= 2
  BY AtLeastIs
<1>2. Made(V, T, 2 * us * vs, vs > 2)
  BY Zenon DEF GenTorus
<1>. HIDE DEF us, vs
<1>3. Good(V, T, 2 * us * vs, vs > 2)
  BY <1>1, TorusGood
<1>. HIDE DEF V, T
<1>. QED
  BY <1>2, <1>3, MadeIsClosed

LEMMA CylinderMade ==
  ASSUME NEW usub \in Nat, NEW vsub \in Nat, NEW capsub \in Nat, GenCylinder(usub, vsub, capsub)
  PROVE  SurfaceIsClosed'
<1>. DEFINE us == AtLeast(usub, 4)  vs == AtLeast(vsub, 1)
            body == (us + 1) * (vs + 1)
            cv == CapVerts(capsub)
            h == AtLeast(capsub, 1)
            V(last) == CylinderVerts(us, vs, h, body, cv, last)
            T == Grid(us, vs, 0, 1) \cup CylinderCaps(us, capsub, body)
            count == 2 * us * vs + 4 * us * capsub
            size == body + 2 * ((us + 1) * cv)
<1>1. us \in Nat /\ us >= 4 /\ vs \in Nat /\ vs >= 1 /\ h \in Nat /\ (capsub >= 1 => h = capsub)
  BY AtLeastIs
<1>2. Made(V(body + 2 * (us + 1) * cv - 1), T, count, capsub # 0)
  BY Zenon DEF GenCylinder, CylinderVerts
<1>3. body + 2 * (us + 1) * cv - 1 = size - 1
  <2>. DEFINE c == (us + 1) * cv  d == 2 * (us + 1) * cv
  <2>1. cv \in Int
    BY DEF CapVerts
  <2>2. body \in Int /\ c \in Int /\ d = 2 * c
    <3>. HIDE DEF us, vs, cv
    <3>. QED
      BY <1>1, <2>1
  <2>. HIDE DEF c, d, body
  <2>3. body + d - 1 = body + 2 * c - 1
    BY <2>2
  <2>4. body + d - 1 = (body + 2 * c) - 1
    BY <2>2
  <2>. QED
    BY <2>4 DEF c, d
<1>4. Made(V(size - 1), T, count, capsub # 0)
  BY <1>2, <1>3
<1>5. Good(V(size - 1), T, count, capsub # 0)
  <2>. DEFINE v == V(size - 1)
  <2>1. body = (us + 1) * (vs + 1) /\ cv = CapVerts(capsub) /\ size = body + 2 * ((us + 1) * cv)
    OBVIOUS
  <2>. HIDE DEF us, vs, h, body, cv, size
  <2>2. v = CylinderVerts(us, vs, h, body, cv, size - 1)
    OBVIOUS
  <2>. HIDE DEF v
  <2>3. Good(v, Grid(us, vs, 0, 1) \cup CylinderCaps(us, capsub, body), 2 * us * vs + 4 * us * capsub, capsub # 0)
    BY <1>1, <2>1, <2>2, CylinderGood
  <2>. QED
    BY <2>3 DEF v
<1>. HIDE DEF V, T, count, size
<1>. QED
  BY <1>4, <1>5, MadeIsClosed

LEMMA ConeMade ==
  ASSUME NEW usub \in Nat, NEW vsub \in Nat, NEW capsub \in Nat, GenCone(usub, vsub, capsub)
  PROVE  SurfaceIsClosed'
<1>. DEFINE us == AtLeast(usub, 4)  vs == AtLeast(vsub, 1)
            body == (us + 1) * (vs + 1)
            cv == CapVerts(capsub)
            h == AtLeast(capsub, 1)
            size == body + (us + 1) * cv
            V(last) == ConeVerts(us, vs, h, body, cv, last)
            T == Grid(us, vs, 0, 1) \cup Grid(us, capsub, body, 1)
            count == 2 * us * vs + 2 * us * capsub
<1>1. us \in Nat /\ us >= 4 /\ vs \in Nat /\ vs >= 1 /\ h \in Nat /\ (capsub >= 1 => h = capsub)
  BY AtLeastIs
<1>2. Made(V(body + (us + 1) * cv - 1), T, count, capsub # 0)
  BY Zenon DEF GenCone, ConeVerts
<1>5. body + (us + 1) * cv - 1 = size - 1
  <2>. DEFINE c == (us + 1) * cv
  <2>1. cv \in Int
    BY DEF CapVerts
  <2>2. body \in Int /\ c \in Int
    <3>. HIDE DEF us, vs, cv
    <3>. QED
      BY <1>1, <2>1
  <2>. HIDE DEF c, body
  <2>3. body + c - 1 = (body + c) - 1
    BY <2>2
  <2>. QED
    BY <2>3 DEF c
<1>6. Made(V(size - 1), T, count, capsub # 0)
  BY <1>2, <1>5
<1>3. Good(V(size - 1), T, count, capsub # 0)
  <2>. DEFINE v == V(size - 1)
  <2>1. body = (us + 1) * (vs + 1) /\ cv = CapVerts(capsub) /\ size = body + (us + 1) * cv
    OBVIOUS
  <2>. HIDE DEF us, vs, h, body, cv, size
  <2>2. v = ConeVerts(us, vs, h, body, cv, size - 1)
    OBVIOUS
  <2>. HIDE DEF v
  <2>3. Good(v, T, count, capsub # 0)
    BY <1>1, <2>1, <2>2, ConeGood
  <2>. QED
    BY <2>3 DEF v
<1>. HIDE DEF V, T, count, size
<1>. QED
  BY <1>3, <1>6, MadeIsClosed

LEMMA BoxMade ==
  ASSUME NEW usub \in Nat, NEW vsub \in Nat, GenBox(usub, vsub)
  PROVE  SurfaceIsClosed'
<1>. DEFINE us == AtLeast(usub, 1)  vs == AtLeast(vsub, 1)
            size == (us + 1) * (vs + 1)
            V == BoxVerts(us, vs, size)
            T == SidesOf(us, vs, size)
            count == 12 * us * vs
<1>1. us \in Nat /\ us >= 1 /\ vs \in Nat /\ vs >= 1
  BY AtLeastIs
<1>2. Made(V, T, count, us = vs)
  BY Zenon DEF GenBox, BoxPos, BoxVerts, SidesOf
<1>3. Good(V, T, count, us = vs)
  <2>1. size = (us + 1) * (vs + 1)
    OBVIOUS
  <2>. HIDE DEF us, vs, size
  <2>2. V = BoxVerts(us, vs, size)
    OBVIOUS
  <2>. HIDE DEF V
  <2>. QED
    BY <1>1, <2>1, <2>2, BoxGood
<1>. HIDE DEF V, T, count
<1>. QED
  BY <1>2, <1>3, MadeIsClosed

\* Whatever the subdivisions, every shape fills its index array with indices of
\* its vertices, and a sphere, a torus of more than two subdivisions, a cylinder
\* or a cone with caps and a box of equal subdivisions have no border: across
\* seam, poles, rims and corners every edge is met by exactly one other, which
\* runs the other way (gen_sphere, gen_torus, gen_cylinder, gen_cone, gen_box in
\* meshgen.c).
THEOREM ShapesAreClosed == GenSpec => []SurfaceIsClosed
<1>1. GenInit => SurfaceIsClosed
  <2>. SUFFICES ASSUME GenInit PROVE SurfaceIsClosed
    OBVIOUS
  <2>1. Cardinality(tris) = numTri
    BY FS_EmptySet DEF GenInit
  <2>. QED
    BY <2>1 DEF GenInit, SurfaceIsClosed
<1>2. SurfaceIsClosed /\ [GenNext]_genVars => SurfaceIsClosed'
  <2>. SUFFICES ASSUME SurfaceIsClosed, [GenNext]_genVars PROVE SurfaceIsClosed'
    OBVIOUS
  <2>1. CASE UNCHANGED genVars
    <3>1. verts' = verts /\ tris' = tris /\ numTri' = numTri /\ closed' = closed
      BY <2>1 DEF genVars
    <3>2. Made(verts, tris, numTri, closed)
      BY <3>1 DEF Made
    <3>3. Good(verts, tris, numTri, closed)
      BY Zenon DEF SurfaceIsClosed, Good, IndicesFit, Closed, Faces, Place
    <3>. QED
      BY <3>2, <3>3, MadeIsClosed
  <2>2. ASSUME NEW usub \in Subs, NEW vsub \in Subs, GenSphere(usub, vsub) PROVE SurfaceIsClosed'
    BY <2>2, MeshGenAssumption, SphereMade
  <2>3. ASSUME NEW usub \in Subs, NEW vsub \in Subs, GenTorus(usub, vsub) PROVE SurfaceIsClosed'
    BY <2>3, MeshGenAssumption, TorusMade
  <2>4. ASSUME NEW usub \in Subs, NEW vsub \in Subs, GenBox(usub, vsub) PROVE SurfaceIsClosed'
    BY <2>4, MeshGenAssumption, BoxMade
  <2>5. ASSUME NEW usub \in Subs, NEW vsub \in Subs, NEW capsub \in Subs, GenCylinder(usub, vsub, capsub)
        PROVE  SurfaceIsClosed'
    BY <2>5, MeshGenAssumption, CylinderMade
  <2>6. ASSUME NEW usub \in Subs, NEW vsub \in Subs, NEW capsub \in Subs, GenCone(usub, vsub, capsub)
        PROVE  SurfaceIsClosed'
    BY <2>6, MeshGenAssumption, ConeMade
  <2>. QED
    BY <2>1, <2>2, <2>3, <2>4, <2>5, <2>6 DEF GenNext
<1>. QED
  BY <1>1, <1>2, PTL DEF GenSpec
=============================================================================
