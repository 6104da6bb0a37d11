--------------------------- MODULE SceneFileProofs --------------------------
(***************************************************************************)
(* Any scene with materials of different names is whole after saving and   *)
(* opening, for any names, sizes and files that others wrote.              *)
(*                                                                         *)
(* The reader and the selection of a kind are recursive functions over the *)
(* places of a sequence.  That they have values is proved first, by        *)
(* extending a solution of their equation by one place at a time; then     *)
(* what the reader has made after any number of nodes.                     *)
(***************************************************************************)
EXTENDS SceneFile, SequenceTheorems, WellFoundedInduction, TLAPS

Material == [name : Nat, shin : Shins]
Object   == [kind : Kinds, name : ObjNames, mtl : Nat]

\* The types of a scene, and that its objects have materials of the scene.
FileTypeOK ==
  /\ mtls \in Seq(Material)
  /\ objs \in Seq(Object) /\ \A i \in 1 .. Len(objs) : objs[i].mtl <= Len(mtls)
  /\ view \in Views
  /\ mtlidx \in Nat /\ defUsed \in BOOLEAN /\ objid \in [Kinds -> Nat]
  /\ file \in Seq(Nodes)

-----------------------------------------------------------------------------
(* Recursive functions over the places of a sequence.                      *)

\* A set of natural numbers has a least one.
LEMMA LeastOne ==
  ASSUME NEW S \in SUBSET Nat, S # {}
  PROVE  \E m \in S : \A n \in S : m <= n
<1>1. PICK m \in S : \A n \in S : ~ (<<n, m>> \in OpToRel(<, Nat))
  BY NatLessThanWellFounded, WFMin
<1>2. ASSUME NEW n \in S PROVE m <= n
  <2>1. ~ (<<n, m>> \in {p \in Nat \X Nat : p[1] < p[2]})
    BY <1>1 DEF OpToRel
  <2>. QED
    BY <2>1
<1>. QED
  BY <1>2

\* So a set that has 0, and with a number below n the next, has all up to n.
LEMMA UpTo ==
  ASSUME NEW n \in Nat, NEW S, 0 \in S,
         \A k \in 0 .. n : k < n /\ k \in S => k + 1 \in S
  PROVE  0 .. n \subseteq S
<1>. SUFFICES ASSUME NEW j \in 0 .. n, j \notin S PROVE FALSE
  OBVIOUS
<1>. DEFINE Out == {k \in 0 .. n : k \notin S}
<1>1. Out \in SUBSET Nat /\ Out # {}
  OBVIOUS
<1>2. PICK m \in Out : \A k \in Out : m <= k
  <2>. HIDE DEF Out
  <2>. QED
    BY <1>1, LeastOne
<1>3. m # 0
  BY <1>2
<1>4. m - 1 \in 0 .. n /\ m - 1 < n /\ ~ (m <= m - 1) /\ (m - 1) + 1 = m
  BY <1>2, <1>3
<1>5. m - 1 \in S
  BY <1>2, <1>4
<1>. QED
  BY <1>2, <1>4, <1>5

\* p solves the equation of the selection up to the place n.
IsPicked(p, n, os, kind) ==
  p = [k \in 0 .. n |->
         IF k = 0 THEN <<>>
         ELSE IF os[k].kind = kind THEN Append(p[k - 1], os[k]) ELSE p[k - 1]]

\* The selection has a value at every place.
LEMMA PickedIs ==
  ASSUME NEW os, NEW kind, Len(os) \in Nat
  PROVE  IsPicked(Picked(os, kind), Len(os), os, kind)
<1>. DEFINE S == {n \in Nat : \E p : IsPicked(p, n, os, kind)}
<1>1. 0 \in S
  <2>1. IsPicked([k \in 0 .. 0 |-> <<>>], 0, os, kind)
    BY DEF IsPicked
  <2>. QED
    BY <2>1
<1>2. ASSUME NEW n \in Nat, n \in S PROVE n + 1 \in S
  <2>1. PICK p : IsPicked(p, n, os, kind)
    BY <1>2
  <2>. DEFINE q == [k \in 0 .. n + 1 |->
                      IF k <= n THEN p[k]
                      ELSE IF os[k].kind = kind THEN Append(p[k - 1], os[k]) ELSE p[k - 1]]
  <2>2. \A k \in 0 .. n + 1 :
           q[k] = IF k = 0 THEN <<>>
                  ELSE IF os[k].kind = kind THEN Append(q[k - 1], os[k]) ELSE q[k - 1]
    <3>. TAKE k \in 0 .. n + 1
    <3>1. CASE k = 0
      BY <2>1, <3>1 DEF IsPicked
    <3>2. CASE k # 0 /\ k <= n
      <4>1. k \in 0 .. n /\ k - 1 \in 0 .. n + 1 /\ k - 1 <= n
        BY <3>2
      <4>2. q[k] = p[k] /\ q[k - 1] = p[k - 1]
        BY <4>1, <3>2
      <4>3. p[k] = IF os[k].kind = kind THEN Append(p[k - 1], os[k]) ELSE p[k - 1]
        BY <4>1, <3>2, <2>1 DEF IsPicked
      <4>. QED
        BY <4>2, <4>3, <3>2
    <3>3. CASE k = n + 1
      <4>1. ~ (k <= n) /\ k # 0 /\ k - 1 \in 0 .. n + 1 /\ k - 1 <= n
        BY <3>3
      <4>. QED
        BY <4>1
    <3>. QED
      BY <3>1, <3>2, <3>3
  <2>3. IsPicked(q, n + 1, os, kind)
    <3>1. q = [k \in 0 .. n + 1 |-> q[k]]
      OBVIOUS
    <3>. HIDE DEF q
    <3>. QED
      BY <3>1, <2>2 DEF IsPicked
  <2>. QED
    BY <2>3
<1>3. Len(os) \in S
  <2>. HIDE DEF S
  <2>1. 0 .. Len(os) \subseteq S
    BY <1>1, <1>2, UpTo
  <2>. QED
    BY <2>1
<1>4. PICK p : IsPicked(p, Len(os), os, kind)
  BY <1>3
<1>5. Picked(os, kind) = CHOOSE q : IsPicked(q, Len(os), os, kind)
  BY DEF Picked, IsPicked
<1>. QED
  BY <1>4, <1>5, Zenon

\* s solves the equation of the reader up to the place n.
IsReading(s, n, nodes) ==
  s = [k \in 0 .. n |-> IF k = 0 THEN Cleared ELSE ReadNode(s[k - 1], nodes[k])]

\* The reader has a value after every node.
LEMMA ReadingIs ==
  ASSUME NEW nodes, Len(nodes) \in Nat
  PROVE  IsReading(Reading(nodes), Len(nodes), nodes)
<1>. DEFINE S == {n \in Nat : \E s : IsReading(s, n, nodes)}
<1>1. 0 \in S
  <2>1. IsReading([k \in 0 .. 0 |-> Cleared], 0, nodes)
    BY DEF IsReading
  <2>. QED
    BY <2>1
<1>2. ASSUME NEW n \in Nat, n \in S PROVE n + 1 \in S
  <2>1. PICK s : IsReading(s, n, nodes)
    BY <1>2
  <2>. DEFINE t == [k \in 0 .. n + 1 |-> IF k <= n THEN s[k] ELSE ReadNode(s[k - 1], nodes[k])]
  <2>2. \A k \in 0 .. n + 1 :
           t[k] = IF k = 0 THEN Cleared ELSE ReadNode(t[k - 1], nodes[k])
    <3>. TAKE k \in 0 .. n + 1
    <3>1. CASE k = 0
      BY <2>1, <3>1 DEF IsReading
    <3>2. CASE k # 0 /\ k <= n
      <4>1. k \in 0 .. n /\ k - 1 \in 0 .. n + 1 /\ k - 1 <= n
        BY <3>2
      <4>2. t[k] = s[k] /\ t[k - 1] = s[k - 1]
        BY <4>1, <3>2
      <4>3. s[k] = ReadNode(s[k - 1], nodes[k])
        BY <4>1, <3>2, <2>1 DEF IsReading
      <4>. QED
        BY <4>2, <4>3, <3>2
    <3>3. CASE k = n + 1
      <4>1. ~ (k <= n) /\ k # 0 /\ k - 1 \in 0 .. n + 1 /\ k - 1 <= n
        BY <3>3
      <4>. QED
        BY <4>1
    <3>. QED
      BY <3>1, <3>2, <3>3
  <2>3. IsReading(t, n + 1, nodes)
    <3>1. t = [k \in 0 .. n + 1 |-> t[k]]
      OBVIOUS
    <3>. HIDE DEF t
    <3>. QED
      BY <3>1, <2>2 DEF IsReading
  <2>. QED
    BY <2>3
<1>3. Len(nodes) \in S
  <2>. HIDE DEF S
  <2>1. 0 .. Len(nodes) \subseteq S
    BY <1>1, <1>2, UpTo
  <2>. QED
    BY <2>1
<1>4. PICK s : IsReading(s, Len(nodes), nodes)
  BY <1>3
<1>5. Reading(nodes) = CHOOSE r : IsReading(r, Len(nodes), nodes)
  BY DEF Reading, IsReading
<1>. QED
  BY <1>4, <1>5, Zenon

-----------------------------------------------------------------------------
(* The objects of one kind.                                                *)

\* One place at a time.
LEMMA PickedStep ==
  ASSUME NEW os \in Seq(Object), NEW kind
  PROVE  /\ Picked(os, kind)[0] = <<>>
         /\ \A k \in 1 .. Len(os) :
              Picked(os, kind)[k] =
                IF os[k].kind = kind THEN Append(Picked(os, kind)[k - 1], os[k])
                                     ELSE Picked(os, kind)[k - 1]
<1>. DEFINE p == Picked(os, kind)
<1>1. IsPicked(p, Len(os), os, kind)
  BY PickedIs
<1>. HIDE DEF p
<1>2. p[0] = <<>>
  BY <1>1 DEF IsPicked
<1>3. ASSUME NEW k \in 1 .. Len(os)
      PROVE  p[k] = IF os[k].kind = kind THEN Append(p[k - 1], os[k]) ELSE p[k - 1]
  <2>1. k \in 0 .. Len(os) /\ k # 0
    OBVIOUS
  <2>. QED
    BY <1>1, <2>1, Zenon DEF IsPicked
<1>. QED
  BY <1>2, <1>3 DEF p

\* Every selection is made of objects of the sequence that have the kind.
LEMMA PickedFrom ==
  ASSUME NEW os \in Seq(Object), NEW kind
  PROVE  \A k \in 0 .. Len(os) :
           /\ Picked(os, kind)[k] \in Seq(Object)
           /\ \A i \in 1 .. Len(Picked(os, kind)[k]) :
                \E j \in 1 .. Len(os) : Picked(os, kind)[k][i] = os[j] /\ os[j].kind = kind
<1>. DEFINE p == Picked(os, kind)
            Good(q) == q \in Seq(Object) /\ \A i \in 1 .. Len(q) : \E j \in 1 .. Len(os) : q[i] = os[j] /\ os[j].kind = kind
            S == {k \in 0 .. Len(os) : Good(p[k])}
<1>1. 0 \in S
  <2>1. p[0] = <<>>
    BY PickedStep
  <2>2. Good(<<>>)
    BY EmptySeq
  <2>. HIDE DEF Good
  <2>. QED
    BY <2>1, <2>2
<1>2. ASSUME NEW k \in 0 .. Len(os), k < Len(os) /\ k \in S PROVE k + 1 \in S
  <2>1. k + 1 \in 1 .. Len(os) /\ (k + 1) - 1 = k
    BY <1>2
  <2>2. p[k + 1] = IF os[k + 1].kind = kind THEN Append(p[k], os[k + 1]) ELSE p[k]
    BY <2>1, PickedStep
  <2>3. Good(p[k])
    BY <1>2
  <2>. HIDE DEF p
  <2>4. os[k + 1].kind = kind => Good(Append(p[k], os[k + 1]))
    <3>. HAVE os[k + 1].kind = kind
    <3>. DEFINE a == Append(p[k], os[k + 1])
    <3>1. os[k + 1] \in Object
      BY <2>1
    <3>2. a \in Seq(Object) /\ Len(a) = Len(p[k]) + 1
          /\ (\A i \in 1 .. Len(p[k]) : a[i] = p[k][i]) /\ a[Len(p[k]) + 1] = os[k + 1]
      BY <2>3, <3>1, AppendProperties
    <3>. HIDE DEF a
    <3>3. ASSUME NEW i \in 1 .. Len(a) PROVE \E j \in 1 .. Len(os) : a[i] = os[j] /\ os[j].kind = kind
      <4>1. CASE i = Len(p[k]) + 1
        BY <4>1, <3>2, <2>1
      <4>2. CASE i # Len(p[k]) + 1
        <5>1. i \in 1 .. Len(p[k])
          BY <4>2, <3>2, <2>3
        <5>. QED
          BY <5>1, <3>2, <2>3
      <4>. QED
        BY <4>1, <4>2
    <3>. QED
      BY <3>2, <3>3 DEF a
  <2>5. Good(p[k + 1])
    <3>. HIDE DEF Good
    <3>. QED
      BY <2>2, <2>3, <2>4
  <2>. HIDE DEF Good
  <2>. QED
    BY <2>1, <2>5
<1>3. Len(os) \in Nat
  OBVIOUS
<1>4. 0 .. Len(os) \subseteq S
  <2>. HIDE DEF S
  <2>. QED
    BY <1>1, <1>2, <1>3, UpTo
<1>. QED
  BY <1>4

-----------------------------------------------------------------------------
(* The readers.                                                            *)

\* A scene that is being read.
Scenes == [mtls : Seq(Material), objs : Seq(Object), view : Views, ok : BOOLEAN,
           mtlidx : Nat, defUsed : BOOLEAN, objid : [Kinds -> Nat]]

Scene(s) == s \in Scenes /\ \A i \in 1 .. Len(s.objs) : s.objs[i].mtl <= Len(s.mtls)

LEMMA DefShinIs == DefShin \in Shins /\ MtlNames \subseteq Nat /\ TypedNames \subseteq Nat
BY SceneFileAssumption

\* What is found has the name, or there is none and the default is taken.
LEMMA FindIs ==
  ASSUME NEW ms \in Seq(Material), NEW n
  PROVE  /\ FindMaterial(ms, n) \in 0 .. Len(ms)
         /\ FindMaterial(ms, n) = 0 => \A i \in 1 .. Len(ms) : ms[i].name # n
         /\ FindMaterial(ms, n) # 0 => ms[FindMaterial(ms, n)].name = n
<1>. DEFINE found == {i \in DOMAIN ms : ms[i].name = n}
<1>0. DOMAIN ms = 1 .. Len(ms) /\ Len(ms) \in Nat
  OBVIOUS
<1>1. CASE found = {}
  BY <1>0, <1>1 DEF FindMaterial
<1>2. CASE found # {}
  <2>1. found \in SUBSET Nat
    BY <1>0
  <2>2. PICK m \in found : \A j \in found : m <= j
    <3>. HIDE DEF found
    <3>. QED
      BY <1>2, <2>1, LeastOne
  <2>3. FindMaterial(ms, n) = CHOOSE i \in found : \A j \in found : i <= j
    BY <1>2 DEF FindMaterial
  <2>4. FindMaterial(ms, n) \in found
    <3>. HIDE DEF found
    <3>. QED
      BY <2>2, <2>3
  <2>. QED
    BY <1>0, <2>4
<1>. QED
  BY <1>1, <1>2

\* Each reader in turn: what it leaves alone, and what it adds.
LEMMA MaterialRead ==
  ASSUME NEW s, Scene(s), s.ok, NEW n \in [node : {"material"}, name : Nat, shin : Shins]
  PROVE  LET r == ReadNode(s, n) IN
         /\ Scene(r) /\ r.ok /\ r.view = s.view /\ r.objs = s.objs
         /\ r.mtls = Append(s.mtls, [name |-> n.name, shin |-> DefShin])
         /\ Len(r.mtls) = Len(s.mtls) + 1
<1>. DEFINE m == [name |-> n.name, shin |-> DefShin]
            r == [s EXCEPT !.mtls = Append(@, m), !.mtlidx = @ + 1]
<1>1. ReadNode(s, n) = r
  BY DEF ReadNode, ReadMaterial
<1>2. m \in Material
  BY DefShinIs DEF Material
<1>3. Append(s.mtls, m) \in Seq(Material) /\ Len(Append(s.mtls, m)) = Len(s.mtls) + 1
  <2>1. s.mtls \in Seq(Material)
    BY DEF Scene, Scenes
  <2>. HIDE DEF m
  <2>. QED
    BY <1>2, <2>1, AppendProperties
<1>. HIDE DEF m
<1>4. r \in Scenes /\ r.mtls = Append(s.mtls, m) /\ r.objs = s.objs /\ r.view = s.view /\ r.ok = s.ok
  <2>1. s \in Scenes /\ s.mtlidx + 1 \in Nat
    BY DEF Scene, Scenes
  <2>. DEFINE a == Append(s.mtls, m)
              k == s.mtlidx + 1
  <2>2. r = [s EXCEPT !.mtls = a, !.mtlidx = k]
    OBVIOUS
  <2>3. a \in Seq(Material) /\ k \in Nat
    BY <1>3, <2>1
  <2>. HIDE DEF r, a, k
  <2>4. r \in Scenes /\ r.mtls = a /\ r.objs = s.objs /\ r.view = s.view /\ r.ok = s.ok
    BY <2>1, <2>2, <2>3 DEF Scenes
  <2>. QED
    BY <2>4 DEF a
<1>5. \A i \in 1 .. Len(r.objs) : r.objs[i].mtl <= Len(r.mtls)
  <2>. SUFFICES ASSUME NEW i \in 1 .. Len(s.objs) PROVE s.objs[i].mtl <= Len(s.mtls) + 1
    BY <1>3, <1>4
  <2>1. s.objs[i].mtl <= Len(s.mtls)
    BY DEF Scene
  <2>2. s.objs[i] \in Object /\ Len(s.mtls) \in Nat
    BY DEF Scene, Scenes
  <2>3. s.objs[i].mtl \in Nat
    BY <2>2 DEF Object
  <2>. QED
    BY <2>1, <2>2, <2>3
<1>. HIDE DEF r
<1>. QED
  BY <1>1, <1>3, <1>4, <1>5 DEF Scene, m

\* An object is appended by create_object.
LEMMA Created ==
  ASSUME NEW s, Scene(s), NEW kind \in Kinds, NEW o \in Object, o.mtl <= Len(s.mtls)
  PROVE  LET r == [Create(s, kind) EXCEPT !.objs = Append(@, o)] IN
         /\ Scene(r) /\ r.ok = s.ok /\ r.view = s.view /\ r.mtls = s.mtls
         /\ r.objs = Append(s.objs, o)
         /\ Len(r.objs) = Len(s.objs) + 1
<1>. DEFINE c == Create(s, kind)
            r == [c EXCEPT !.objs = Append(@, o)]
<1>1. c \in Scenes /\ c.objs = s.objs /\ c.ok = s.ok /\ c.view = s.view /\ c.mtls = s.mtls
  <2>. DEFINE ids == [s.objid EXCEPT ![kind] = @ + 1]
              idx == IF s.defUsed THEN s.mtlidx ELSE s.mtlidx + 1
  <2>1. s \in Scenes /\ s.objid \in [Kinds -> Nat] /\ s.mtlidx \in Nat
    BY DEF Scene, Scenes
  <2>2. ids \in [Kinds -> Nat] /\ idx \in Nat
    BY <2>1
  <2>3. c = [s EXCEPT !.objid = ids, !.mtlidx = idx, !.defUsed = TRUE]
    BY <2>1 DEF Create, Scenes
  <2>. HIDE DEF c, ids, idx
  <2>. QED
    BY <2>1, <2>2, <2>3 DEF Scenes
<1>2. s.objs \in Seq(Object) /\ Append(s.objs, o) \in Seq(Object)
      /\ Len(Append(s.objs, o)) = Len(s.objs) + 1
      /\ (\A i \in 1 .. Len(s.objs) : Append(s.objs, o)[i] = s.objs[i])
      /\ Append(s.objs, o)[Len(s.objs) + 1] = o
  <2>1. s.objs \in Seq(Object)
    BY DEF Scene, Scenes
  <2>. QED
    BY <2>1, AppendProperties
<1>. HIDE DEF c
<1>3. r \in Scenes /\ r.objs = Append(s.objs, o) /\ r.ok = s.ok /\ r.view = s.view /\ r.mtls = s.mtls
  BY <1>1, <1>2 DEF Scenes
<1>. HIDE DEF r
<1>4. ASSUME NEW i \in 1 .. Len(r.objs) PROVE r.objs[i].mtl <= Len(r.mtls)
  <2>1. CASE i = Len(s.objs) + 1
    BY <1>2, <1>3, <2>1
  <2>2. CASE i # Len(s.objs) + 1
    <3>1. i \in 1 .. Len(s.objs)
      BY <1>2, <1>3, <2>2
    <3>. QED
      BY <1>2, <1>3, <3>1 DEF Scene
  <2>. QED
    BY <2>1, <2>2
<1>. QED
  BY <1>2, <1>3, <1>4 DEF Scene, r, c

ObjectNodes == [node : {"object"}, type : {"box", "none", "unknown"}, name : ObjNames,
                material : Nat \cup {-1}]

\* The object that is made of a node.
Made(s, n) == [kind |-> IF n.type = "box" THEN "box" ELSE "null", name |-> n.name,
               mtl |-> FindMaterial(s.mtls, n.material)]

LEMMA ObjectRead ==
  ASSUME NEW s, Scene(s), s.ok, NEW n \in ObjectNodes
  PROVE  LET r == ReadNode(s, n) IN
         /\ Scene(r) /\ r.view = s.view /\ r.mtls = s.mtls
         /\ n.type = "unknown" => ~ r.ok
         /\ n.type # "unknown" => /\ r.ok /\ r.objs = Append(s.objs, Made(s, n))
                                  /\ Len(r.objs) = Len(s.objs) + 1
                                  /\ Made(s, n) \in Object
<1>1. ReadNode(s, n) = ReadObject(s, n)
  BY DEF ReadNode, ObjectNodes
<1>2. CASE n.type = "unknown"
  <2>. DEFINE r == [s EXCEPT !.ok = FALSE]
  <2>1. ReadNode(s, n) = r
    BY <1>1, <1>2 DEF ReadObject
  <2>2. r \in Scenes /\ r.ok = FALSE /\ r.view = s.view /\ r.mtls = s.mtls /\ r.objs = s.objs
    BY DEF Scene, Scenes
  <2>. HIDE DEF r
  <2>. QED
    BY <1>2, <2>1, <2>2 DEF Scene
<1>3. CASE n.type # "unknown"
  <2>. DEFINE kind == IF n.type = "box" THEN "box" ELSE "null"
              o == Made(s, n)
  <2>1. ReadNode(s, n) = [Create(s, kind) EXCEPT !.objs = Append(@, o)]
    BY <1>1, <1>3 DEF ReadObject, Made
  <2>2. s.mtls \in Seq(Material)
    BY DEF Scene, Scenes
  <2>3. FindMaterial(s.mtls, n.material) \in 0 .. Len(s.mtls)
    BY <2>2, FindIs
  <2>4. kind \in Kinds /\ o \in Object /\ o.mtl <= Len(s.mtls)
    BY <2>2, <2>3 DEF Made, Object, ObjectNodes, Kinds
  <2>. HIDE DEF kind, o
  <2>5. LET r == [Create(s, kind) EXCEPT !.objs = Append(@, o)] IN
         /\ Scene(r) /\ r.ok = s.ok /\ r.view = s.view /\ r.mtls = s.mtls
         /\ r.objs = Append(s.objs, o)
         /\ Len(r.objs) = Len(s.objs) + 1
    BY <2>4, Created
  <2>. QED
    BY <1>3, <2>1, <2>4, <2>5 DEF o
<1>. QED
  BY <1>2, <1>3

LEMMA LightRead ==
  ASSUME NEW s, Scene(s), s.ok, NEW n \in [node : {"light"}, name : ObjNames]
  PROVE  LET r == ReadNode(s, n) IN
         /\ Scene(r) /\ r.ok /\ r.view = s.view /\ r.mtls = s.mtls
         /\ r.objs = Append(s.objs, [kind |-> "light", name |-> n.name, mtl |-> 0])
         /\ Len(r.objs) = Len(s.objs) + 1
         /\ [kind |-> "light", name |-> n.name, mtl |-> 0] \in Object
<1>. DEFINE o == [kind |-> "light", name |-> n.name, mtl |-> 0]
<1>1. ReadNode(s, n) = [Create(s, "light") EXCEPT !.objs = Append(@, o)]
  BY DEF ReadNode, ReadLight
<1>2. "light" \in Kinds /\ o \in Object /\ o.mtl <= Len(s.mtls)
  BY DEF Kinds, Object, Scene, Scenes
<1>. HIDE DEF o
<1>3. LET r == [Create(s, "light") EXCEPT !.objs = Append(@, o)] IN
       /\ Scene(r) /\ r.ok = s.ok /\ r.view = s.view /\ r.mtls = s.mtls
       /\ r.objs = Append(s.objs, o)
       /\ Len(r.objs) = Len(s.objs) + 1
  BY <1>2, Created
<1>. QED
  BY <1>1, <1>2, <1>3 DEF o

LEMMA ViewRead ==
  ASSUME NEW s, Scene(s), s.ok, NEW n \in [node : {"view"}, view : Views]
  PROVE  LET r == ReadNode(s, n) IN
         Scene(r) /\ r.ok /\ r.view = n.view /\ r.mtls = s.mtls /\ r.objs = s.objs
<1>. DEFINE r == [s EXCEPT !.view = n.view]
<1>1. ReadNode(s, n) = r
  BY DEF ReadNode
<1>2. r \in Scenes /\ r.ok = s.ok /\ r.view = n.view /\ r.mtls = s.mtls /\ r.objs = s.objs
  BY DEF Scene, Scenes
<1>. HIDE DEF r
<1>. QED
  BY <1>1, <1>2 DEF Scene

LEMMA NodeRead ==
  ASSUME NEW s, Scene(s), NEW n \in Nodes
  PROVE  Scene(ReadNode(s, n))
<1>1. CASE ~ s.ok
  BY <1>1 DEF ReadNode
<1>2. CASE s.ok
  BY <1>2, MaterialRead, ObjectRead, LightRead, ViewRead DEF Nodes, ObjectNodes
<1>. QED
  BY <1>1, <1>2

LEMMA ClearedIs ==
  ASSUME FileTypeOK
  PROVE  Scene(Cleared) /\ Cleared.ok /\ Cleared.view = view /\ Cleared.mtls = <<>> /\ Cleared.objs = <<>>
<1>1. Cleared \in Scenes
  BY EmptySeq DEF FileTypeOK, Cleared, Scenes
<1>. QED
  BY <1>1 DEF Cleared, Scene

\* One node at a time, and what is read has the types of a scene.
LEMMA ReadingStep ==
  ASSUME FileTypeOK, NEW nodes \in Seq(Nodes)
  PROVE  /\ Reading(nodes)[0] = Cleared
         /\ \A k \in 1 .. Len(nodes) : Reading(nodes)[k] = ReadNode(Reading(nodes)[k - 1], nodes[k])
         /\ \A k \in 0 .. Len(nodes) : Scene(Reading(nodes)[k])
<1>. DEFINE s == Reading(nodes)
            S == {k \in 0 .. Len(nodes) : Scene(s[k])}
<1>0. IsReading(s, Len(nodes), nodes) /\ Len(nodes) \in Nat
  BY ReadingIs
<1>. HIDE DEF s
<1>1. s[0] = Cleared
  BY <1>0 DEF IsReading
<1>2. ASSUME NEW k \in 1 .. Len(nodes) PROVE s[k] = ReadNode(s[k - 1], nodes[k])
  <2>1. k \in 0 .. Len(nodes) /\ k # 0
    OBVIOUS
  <2>. QED
    BY <1>0, <2>1, Zenon DEF IsReading
<1>3. 0 \in S
  BY <1>0, <1>1, ClearedIs
<1>4. ASSUME NEW k \in 0 .. Len(nodes), k < Len(nodes) /\ k \in S PROVE k + 1 \in S
  <2>1. k + 1 \in 1 .. Len(nodes) /\ (k + 1) - 1 = k /\ k + 1 \in 0 .. Len(nodes)
    BY <1>4
  <2>2. s[k + 1] = ReadNode(s[k], nodes[k + 1])
    BY <1>2, <2>1
  <2>3. Scene(s[k]) /\ nodes[k + 1] \in Nodes
    BY <1>4, <2>1
  <2>. QED
    BY <2>1, <2>2, <2>3, NodeRead
<1>5. 0 .. Len(nodes) \subseteq S
  <2>. HIDE DEF S
  <2>. QED
    BY <1>0, <1>3, <1>4, UpTo
<1>. QED
  BY <1>1, <1>2, <1>5 DEF s

\* What opens is a scene.
LEMMA LoadedIs ==
  ASSUME FileTypeOK, NEW nodes \in Seq(Nodes)
  PROVE  Scene(Loaded(nodes))
<1>1. Len(nodes) \in 0 .. Len(nodes)
  OBVIOUS
<1>. QED
  BY <1>1, ReadingStep DEF Loaded

-----------------------------------------------------------------------------
(* What is written.                                                        *)

LEMMA TypesAre ==
  ASSUME FileTypeOK
  PROVE  /\ mtls \in Seq(Material) /\ Len(mtls) \in Nat /\ DOMAIN mtls = 1 .. Len(mtls)
         /\ objs \in Seq(Object) /\ Len(objs) \in Nat /\ DOMAIN objs = 1 .. Len(objs)
         /\ OfKind(objs, "light") \in Seq(Object) /\ Len(OfKind(objs, "light")) \in Nat
         /\ DOMAIN OfKind(objs, "light") = 1 .. Len(OfKind(objs, "light"))
<1>1. objs \in Seq(Object) /\ mtls \in Seq(Material)
  BY DEF FileTypeOK
<1>2. OfKind(objs, "light") \in Seq(Object)
  <2>1. Len(objs) \in 0 .. Len(objs)
    BY <1>1
  <2>. QED
    BY <1>1, <2>1, PickedFrom DEF OfKind
<1>. QED
  BY <1>1, <1>2

\* The material of an object has a name in the file.
LEMMA ObjNodeIs ==
  ASSUME FileTypeOK, NEW i \in 1 .. Len(objs)
  PROVE  ObjNode(objs[i]) \in ObjectNodes /\ ObjNode(objs[i]).type # "unknown"
<1>1. objs[i] \in Object /\ objs[i].mtl \in 0 .. Len(mtls)
  <2>1. objs[i] \in Object
    BY DEF FileTypeOK
  <2>. QED
    BY <2>1 DEF FileTypeOK, Object
<1>2. objs[i].mtl # 0 => mtls[objs[i].mtl].name \in Nat
  <2>. SUFFICES ASSUME objs[i].mtl # 0 PROVE mtls[objs[i].mtl].name \in Nat
    OBVIOUS
  <2>1. mtls \in Seq(Material) /\ objs[i].mtl \in 1 .. Len(mtls)
    BY <1>1 DEF FileTypeOK
  <2>2. mtls[objs[i].mtl] \in Material
    BY <2>1
  <2>. QED
    BY <2>2 DEF Material
<1>. QED
  BY <1>1, <1>2 DEF ObjNode, ObjectNodes, Object

\* A file is written part by part.
LEMMA TwoParts ==
  ASSUME NEW p \in Seq(Nodes), NEW q \in Seq(Nodes), NEW a, NEW b, Len(p) = a, Len(q) = b
  PROVE  /\ p \o q \in Seq(Nodes) /\ Len(p \o q) = a + b
         /\ \A i \in 1 .. a + b : (p \o q)[i] = IF i <= a THEN p[i] ELSE q[i - a]
BY ConcatProperties

\* The nodes of a saved scene, by their place.
LEMMA SavedIs ==
  ASSUME FileTypeOK
  PROVE  LET m == Len(mtls)  o == Len(objs)  l == Len(OfKind(objs, "light")) IN
         /\ Saved \in Seq(Nodes) /\ Len(Saved) = m + o + l + 1
         /\ \A i \in 1 .. m : Saved[i] = MtlNode(mtls[i])
         /\ \A i \in 1 .. o : Saved[m + i] = ObjNode(objs[i])
         /\ \A i \in 1 .. l : Saved[m + o + i] = LightNode(OfKind(objs, "light")[i])
         /\ Saved[m + o + l + 1] = ViewNode(view)
<1>. DEFINE ls == OfKind(objs, "light")
            m == Len(mtls)
            o == Len(objs)
            l == Len(ls)
            A == [i \in DOMAIN mtls |-> MtlNode(mtls[i])]
            B == [i \in DOMAIN objs |-> ObjNode(objs[i])]
            C == [i \in DOMAIN ls |-> LightNode(ls[i])]
            D == <<ViewNode(view)>>
<1>1. Saved = A \o B \o C \o D
  BY DEF Saved
<1>2. A \in Seq(Nodes) /\ Len(A) = m /\ \A i \in 1 .. m : A[i] = MtlNode(mtls[i])
  <2>1. \A i \in 1 .. m : MtlNode(mtls[i]) \in Nodes
    <3>. TAKE i \in 1 .. m
    <3>1. mtls[i] \in Material
      BY TypesAre
    <3>. QED
      BY <3>1 DEF MtlNode, Nodes, Material
  <2>. QED
    BY <2>1, TypesAre
<1>3. B \in Seq(Nodes) /\ Len(B) = o /\ \A i \in 1 .. o : B[i] = ObjNode(objs[i])
  <2>1. \A i \in 1 .. o : ObjNode(objs[i]) \in Nodes
    BY ObjNodeIs DEF ObjectNodes, Nodes
  <2>. QED
    BY <2>1, TypesAre
<1>4. C \in Seq(Nodes) /\ Len(C) = l /\ \A i \in 1 .. l : C[i] = LightNode(ls[i])
  <2>1. \A i \in 1 .. l : LightNode(ls[i]) \in Nodes
    <3>. TAKE i \in 1 .. l
    <3>1. ls[i] \in Object
      BY TypesAre
    <3>. QED
      BY <3>1 DEF LightNode, Nodes, Object
  <2>. QED
    BY <2>1, TypesAre
<1>5. D \in Seq(Nodes) /\ Len(D) = 1 /\ D[1] = ViewNode(view)
  BY DEF ViewNode, Nodes, FileTypeOK
<1>6. m \in Nat /\ o \in Nat /\ l \in Nat
  BY TypesAre
<1>. HIDE DEF A, B, C, D, m, o, l
<1>. DEFINE AB == A \o B
            ABC == AB \o C
<1>7. AB \in Seq(Nodes) /\ Len(AB) = m + o
      /\ \A i \in 1 .. m + o : AB[i] = IF i <= m THEN A[i] ELSE B[i - m]
  BY <1>2, <1>3, TwoParts
<1>. HIDE DEF AB
<1>8. ABC \in Seq(Nodes) /\ Len(ABC) = m + o + l
      /\ \A i \in 1 .. m + o + l : ABC[i] = IF i <= m + o THEN AB[i] ELSE C[i - (m + o)]
  <2>1. Len(AB) = m + o /\ Len(C) = l /\ AB \in Seq(Nodes) /\ C \in Seq(Nodes)
    BY <1>4, <1>7
  <2>. QED
    BY <2>1, TwoParts DEF ABC
<1>. HIDE DEF ABC
<1>9. Saved \in Seq(Nodes) /\ Len(Saved) = m + o + l + 1
      /\ \A i \in 1 .. m + o + l + 1 :
           Saved[i] = IF i <= m + o + l THEN ABC[i] ELSE D[i - (m + o + l)]
  <2>1. Saved = ABC \o D
    BY <1>1 DEF ABC, AB
  <2>2. Len(ABC) = m + o + l /\ Len(D) = 1 /\ ABC \in Seq(Nodes) /\ D \in Seq(Nodes)
    BY <1>5, <1>8
  <2>3. /\ ABC \o D \in Seq(Nodes) /\ Len(ABC \o D) = Len(ABC) + Len(D)
        /\ \A i \in 1 .. Len(ABC) + Len(D) : (ABC \o D)[i] = IF i <= Len(ABC) THEN ABC[i] ELSE D[i - Len(ABC)]
    BY <2>2, ConcatProperties
  <2>. QED
    BY <2>1, <2>2, <2>3, Zenon
<1>10. ASSUME NEW i \in 1 .. m PROVE Saved[i] = MtlNode(mtls[i])
  <2>1. i \in 1 .. m + o /\ i \in 1 .. m + o + l /\ i \in 1 .. m + o + l + 1
        /\ i <= m /\ i <= m + o /\ i <= m + o + l
    BY <1>6
  <2>. QED
    BY <2>1, <1>2, <1>7, <1>8, <1>9
<1>11. ASSUME NEW i \in 1 .. o PROVE Saved[m + i] = ObjNode(objs[i])
  <2>1. m + i \in 1 .. m + o /\ m + i \in 1 .. m + o + l /\ m + i \in 1 .. m + o + l + 1
        /\ ~ (m + i <= m) /\ m + i <= m + o /\ m + i <= m + o + l /\ (m + i) - m = i
    BY <1>6
  <2>. QED
    BY <2>1, <1>3, <1>7, <1>8, <1>9
<1>12. ASSUME NEW i \in 1 .. l PROVE Saved[m + o + i] = LightNode(ls[i])
  <2>1. m + o + i \in 1 .. m + o + l /\ m + o + i \in 1 .. m + o + l + 1
        /\ ~ (m + o + i <= m + o) /\ m + o + i <= m + o + l /\ (m + o + i) - (m + o) = i
    BY <1>6
  <2>. QED
    BY <2>1, <1>4, <1>8, <1>9
<1>13. Saved[m + o + l + 1] = ViewNode(view)
  <2>1. m + o + l + 1 \in 1 .. m + o + l + 1 /\ ~ (m + o + l + 1 <= m + o + l)
        /\ (m + o + l + 1) - (m + o + l) = 1
    BY <1>6
  <2>. QED
    BY <2>1, <1>5, <1>9
<1>. QED
  BY <1>9, <1>10, <1>11, <1>12, <1>13 DEF m, o, l

-----------------------------------------------------------------------------
(* What comes back.                                                        *)

\* What materials and lights come back as.
NewLooks(m) == [name |-> m.name, shin |-> DefShin]
LitAgain(o) == [kind |-> "light", name |-> o.name, mtl |-> 0]

LEMMA OpenedIs ==
  ASSUME NEW o \in Object
  PROVE  Opened(o) = [kind |-> IF o.kind = "box" THEN "box" ELSE "null", name |-> o.name, mtl |-> o.mtl]
BY DEF Opened, Object

AtMost(a, b) == IF a <= b THEN a ELSE b

\* What the reader has made after k nodes of a saved scene.
ReadSoFar(s, k) ==
  LET m == Len(mtls)  o == Len(objs) IN
  /\ s.ok /\ s.view = view
  /\ Len(s.mtls) = AtMost(k, m)
  /\ \A i \in 1 .. Len(s.mtls) : s.mtls[i] = NewLooks(mtls[i])
  /\ Len(s.objs) = IF k <= m THEN 0 ELSE AtMost(k - m, o + Len(OfKind(objs, "light")))
  /\ \A i \in 1 .. Len(s.objs) : i <= o => s.objs[i] = Opened(objs[i])
  /\ \A i \in 1 .. Len(s.objs) : i > o => s.objs[i] = LitAgain(OfKind(objs, "light")[i - o])

\* The material of an object is found again.
LEMMA FoundAgain ==
  ASSUME FileTypeOK, NamesDiffer, NEW i \in 1 .. Len(objs),
         NEW ms \in Seq(Material), Len(ms) = Len(mtls),
         \A j \in 1 .. Len(ms) : ms[j].name = mtls[j].name
  PROVE  FindMaterial(ms, ObjNode(objs[i]).material) = objs[i].mtl
<1>. DEFINE x == objs[i].mtl
            n == ObjNode(objs[i]).material
            f == FindMaterial(ms, n)
<1>1. x \in 0 .. Len(mtls)
  <2>1. objs[i] \in Object
    BY DEF FileTypeOK
  <2>. QED
    BY <2>1 DEF FileTypeOK, Object
<1>2. n = IF x = 0 THEN -1 ELSE mtls[x].name
  BY DEF ObjNode
<1>3. /\ f \in 0 .. Len(ms)
      /\ f = 0 => \A j \in 1 .. Len(ms) : ms[j].name # n
      /\ f # 0 => ms[f].name = n
  BY FindIs
<1>4. \A j \in 1 .. Len(mtls) : mtls[j].name \in Nat
  <2>. TAKE j \in 1 .. Len(mtls)
  <2>1. mtls[j] \in Material
    BY TypesAre
  <2>. QED
    BY <2>1 DEF Material
<1>. HIDE DEF f, n, x
<1>5. CASE x = 0
  <2>1. n = -1
    BY <1>2, <1>5
  <2>2. ASSUME f # 0 PROVE FALSE
    <3>1. f \in 1 .. Len(mtls) /\ mtls[f].name = n
      BY <1>3, <2>2, TypesAre
    <3>. QED
      BY <1>4, <2>1, <3>1
  <2>. QED
    BY <1>5, <2>2 DEF f, n, x
<1>6. CASE x # 0
  <2>1. x \in 1 .. Len(mtls) /\ n = mtls[x].name
    BY <1>1, <1>2, <1>6
  <2>2. f # 0
    BY <2>1, <1>3
  <2>3. f \in 1 .. Len(mtls) /\ mtls[f].name = n
    BY <1>3, <2>2, TypesAre
  <2>4. f = x
    BY <2>1, <2>3, TypesAre DEF NamesDiffer
  <2>. QED
    BY <2>4 DEF f, n, x
<1>. QED
  BY <1>5, <1>6

\* The sizes of what is saved.
LEMMA SizesAre ==
  ASSUME FileTypeOK
  PROVE  Len(mtls) \in Nat /\ Len(objs) \in Nat /\ Len(OfKind(objs, "light")) \in Nat
BY TypesAre

\* A material is read: it comes before all objects.
LEMMA ReadAMaterial ==
  ASSUME FileTypeOK, NEW s, Scene(s), NEW k \in Nat, k < Len(mtls), ReadSoFar(s, k)
  PROVE  ReadSoFar(ReadNode(s, Saved[k + 1]), k + 1)
<1>. DEFINE r == ReadNode(s, Saved[k + 1])
            n == MtlNode(mtls[k + 1])
            x == NewLooks(n)
<1>1. k + 1 \in 1 .. Len(mtls) /\ Len(mtls) \in Nat
  BY SizesAre
<1>2. Saved[k + 1] = n
  BY <1>1, SavedIs
<1>3. n \in [node : {"material"}, name : Nat, shin : Shins] /\ n.name = mtls[k + 1].name
  <2>1. mtls[k + 1] \in Material
    BY <1>1, TypesAre
  <2>. QED
    BY <2>1 DEF MtlNode, Material
<1>4. s.ok /\ s.view = view /\ Len(s.mtls) = k /\ Len(s.objs) = 0
      /\ \A i \in 1 .. Len(s.mtls) : s.mtls[i] = NewLooks(mtls[i])
  BY <1>1 DEF ReadSoFar, AtMost
<1>. HIDE DEF n
<1>5. Scene(r) /\ r.ok /\ r.view = s.view /\ r.objs = s.objs
      /\ r.mtls = Append(s.mtls, x) /\ Len(r.mtls) = Len(s.mtls) + 1
  BY <1>2, <1>3, <1>4, MaterialRead DEF NewLooks
<1>. HIDE DEF r, x
<1>6. s.mtls \in Seq(Material) /\ x \in Material /\ x = NewLooks(mtls[k + 1])
  BY <1>3, DefShinIs DEF Scene, Scenes, Material, x, NewLooks
<1>7. \A i \in 1 .. Len(r.mtls) : r.mtls[i] = NewLooks(mtls[i])
  <2>. TAKE i \in 1 .. Len(r.mtls)
  <2>1. (\A j \in 1 .. Len(s.mtls) : r.mtls[j] = s.mtls[j]) /\ r.mtls[Len(s.mtls) + 1] = x
    BY <1>5, <1>6, AppendProperties
  <2>2. CASE i = k + 1
    BY <2>1, <2>2, <1>4, <1>6
  <2>3. CASE i # k + 1
    <3>1. i \in 1 .. Len(s.mtls)
      BY <2>3, <1>4, <1>5
    <3>. QED
      BY <2>1, <3>1, <1>4
  <2>. QED
    BY <2>2, <2>3
<1>8. r.ok /\ r.view = view /\ Len(r.mtls) = k + 1 /\ Len(r.objs) = 0
  BY <1>4, <1>5
<1>9. ReadSoFar(r, k + 1)
  BY <1>1, <1>7, <1>8 DEF ReadSoFar, AtMost
<1>. QED
  BY <1>9 DEF r

\* What an object that is appended must be like.
LEMMA ReadsOn ==
  ASSUME FileTypeOK, NEW s, Scene(s), NEW k \in Nat, Len(mtls) <= k,
         k - Len(mtls) < Len(objs) + Len(OfKind(objs, "light")), ReadSoFar(s, k),
         NEW r, r.ok, r.view = s.view, r.mtls = s.mtls,
         NEW x \in Object, r.objs = Append(s.objs, x),
         LET i == k - Len(mtls) + 1 IN
         IF i <= Len(objs) THEN x = Opened(objs[i])
                           ELSE x = LitAgain(OfKind(objs, "light")[i - Len(objs)])
  PROVE  ReadSoFar(r, k + 1)
<1>. DEFINE m == Len(mtls)
            o == Len(objs)
            l == Len(OfKind(objs, "light"))
            i == k - m + 1
<1>1. m \in Nat /\ o \in Nat /\ l \in Nat
  BY SizesAre
<1>2. s.ok /\ s.view = view /\ Len(s.mtls) = m /\ Len(s.objs) = i - 1
      /\ (\A j \in 1 .. Len(s.mtls) : s.mtls[j] = NewLooks(mtls[j]))
      /\ (\A j \in 1 .. Len(s.objs) : j <= o => s.objs[j] = Opened(objs[j]))
      /\ (\A j \in 1 .. Len(s.objs) : j > o => s.objs[j] = LitAgain(OfKind(objs, "light")[j - o]))
  BY <1>1 DEF ReadSoFar, AtMost
<1>3. s.objs \in Seq(Object)
  BY DEF Scene, Scenes
<1>4. Len(r.objs) = Len(s.objs) + 1 /\ (\A j \in 1 .. Len(s.objs) : r.objs[j] = s.objs[j])
      /\ r.objs[Len(s.objs) + 1] = x
  BY <1>3, AppendProperties
<1>5. i \in Nat /\ i >= 1
  BY <1>1
<1>6. IF i <= o THEN x = Opened(objs[i]) ELSE x = LitAgain(OfKind(objs, "light")[i - o])
  OBVIOUS
<1>. HIDE DEF i
<1>7. Len(r.objs) = i /\ r.objs[i] = x
  BY <1>2, <1>4, <1>5
<1>8. ASSUME NEW j \in 1 .. Len(r.objs), j # i PROVE j \in 1 .. Len(s.objs)
  BY <1>2, <1>5, <1>7, <1>8
<1>9. \A j \in 1 .. Len(r.objs) : j <= o => r.objs[j] = Opened(objs[j])
  BY <1>2, <1>4, <1>6, <1>7, <1>8
<1>10. \A j \in 1 .. Len(r.objs) : j > o => r.objs[j] = LitAgain(OfKind(objs, "light")[j - o])
  <2>. SUFFICES ASSUME NEW j \in 1 .. Len(r.objs), j > o
       PROVE r.objs[j] = LitAgain(OfKind(objs, "light")[j - o])
    OBVIOUS
  <2>1. CASE j = i
    <3>1. ~ (i <= o)
      BY <2>1, <1>1, <1>5
    <3>. QED
      BY <2>1, <3>1, <1>6, <1>7
  <2>2. CASE j # i
    BY <2>2, <1>2, <1>4, <1>8
  <2>. QED
    BY <2>1, <2>2
<1>11. Len(r.objs) = IF k + 1 <= m THEN 0 ELSE AtMost(k + 1 - m, o + l)
  BY <1>1, <1>7 DEF AtMost, i
<1>12. r.ok /\ r.view = view /\ Len(r.mtls) = AtMost(k + 1, m)
       /\ \A j \in 1 .. Len(r.mtls) : r.mtls[j] = NewLooks(mtls[j])
  BY <1>1, <1>2 DEF AtMost
<1>. QED
  BY <1>9, <1>10, <1>11, <1>12, SMTT(30) DEF ReadSoFar

\* An object finds its material; all materials have been read.
LEMMA ReadAnObject ==
  ASSUME FileTypeOK, NamesDiffer, NEW s, Scene(s), NEW k \in Nat, Len(mtls) <= k,
         k - Len(mtls) < Len(objs), ReadSoFar(s, k)
  PROVE  ReadSoFar(ReadNode(s, Saved[k + 1]), k + 1)
<1>. DEFINE m == Len(mtls)
            i == k - m + 1
            n == ObjNode(objs[i])
            x == Made(s, n)
            r == ReadNode(s, Saved[k + 1])
<1>1. m \in Nat /\ i \in 1 .. Len(objs) /\ m + i = k + 1
      /\ Len(objs) \in Nat /\ Len(OfKind(objs, "light")) \in Nat
  BY SizesAre
<1>2. Saved[k + 1] = n
  BY <1>1, SavedIs
<1>3. n \in ObjectNodes /\ n.type # "unknown"
  BY <1>1, ObjNodeIs
<1>4. s.ok /\ Len(s.mtls) = m /\ \A j \in 1 .. Len(s.mtls) : s.mtls[j].name = mtls[j].name
  <2>1. s.ok /\ Len(s.mtls) = m /\ \A j \in 1 .. Len(s.mtls) : s.mtls[j] = NewLooks(mtls[j])
    BY <1>1 DEF ReadSoFar, AtMost
  <2>2. \A j : NewLooks(mtls[j]).name = mtls[j].name
    BY DEF NewLooks
  <2>. QED
    BY <2>1, <2>2, Zenon
<1>5. s.mtls \in Seq(Material)
  BY DEF Scene, Scenes
<1>6. FindMaterial(s.mtls, n.material) = objs[i].mtl
  BY <1>1, <1>4, <1>5, FoundAgain
<1>7. x = Opened(objs[i])
  <2>1. objs[i] \in Object
    BY <1>1, TypesAre
  <2>. QED
    BY <1>6, <2>1, OpenedIs DEF Made, ObjNode
<1>. HIDE DEF n, x
<1>8. r.ok /\ r.view = s.view /\ r.mtls = s.mtls /\ r.objs = Append(s.objs, x) /\ x \in Object
  BY <1>2, <1>3, <1>4, ObjectRead DEF x
<1>. HIDE DEF r
<1>9. k - Len(mtls) < Len(objs) + Len(OfKind(objs, "light"))
  BY <1>1
<1>10. LET j == k - Len(mtls) + 1 IN
       IF j <= Len(objs) THEN x = Opened(objs[j]) ELSE x = LitAgain(OfKind(objs, "light")[j - Len(objs)])
  BY <1>1, <1>7
<1>11. ReadSoFar(r, k + 1)
  BY <1>8, <1>9, <1>10, ReadsOn
<1>. QED
  BY <1>11 DEF r

\* Lights come after the objects.
LEMMA ReadALight ==
  ASSUME FileTypeOK, NEW s, Scene(s), NEW k \in Nat, Len(mtls) + Len(objs) <= k,
         k - Len(mtls) < Len(objs) + Len(OfKind(objs, "light")), ReadSoFar(s, k)
  PROVE  ReadSoFar(ReadNode(s, Saved[k + 1]), k + 1)
<1>. DEFINE i == k - Len(mtls) - Len(objs) + 1
            n == LightNode(OfKind(objs, "light")[i])
            x == LitAgain(n)
            r == ReadNode(s, Saved[k + 1])
<1>1. /\ Len(mtls) \in Nat /\ Len(objs) \in Nat
      /\ i \in 1 .. Len(OfKind(objs, "light")) /\ Len(mtls) + Len(objs) + i = k + 1
  BY SizesAre
<1>2. Saved[k + 1] = n
  BY <1>1, SavedIs
<1>3. n \in [node : {"light"}, name : ObjNames]
  <2>1. OfKind(objs, "light")[i] \in Object
    BY <1>1, TypesAre
  <2>. QED
    BY <2>1 DEF LightNode, Object
<1>4. s.ok
  BY DEF ReadSoFar
<1>. HIDE DEF n
<1>5. r.ok /\ r.view = s.view /\ r.mtls = s.mtls /\ r.objs = Append(s.objs, x) /\ x \in Object
  BY <1>2, <1>3, <1>4, LightRead DEF LitAgain
<1>6. x = LitAgain(OfKind(objs, "light")[i])
  BY DEF n, LightNode, LitAgain
<1>. HIDE DEF r, x
<1>7. /\ Len(mtls) <= k /\ ~ (k - Len(mtls) + 1 <= Len(objs))
      /\ (k - Len(mtls) + 1) - Len(objs) = i
  BY <1>1
<1>8. LET j == k - Len(mtls) + 1 IN
      IF j <= Len(objs) THEN x = Opened(objs[j]) ELSE x = LitAgain(OfKind(objs, "light")[j - Len(objs)])
  BY <1>6, <1>7
<1>9. ReadSoFar(r, k + 1)
  BY <1>5, <1>7, <1>8, ReadsOn
<1>. QED
  BY <1>9 DEF r

\* After the last node but one, the scene is complete.
LEMMA ReadAll ==
  ASSUME FileTypeOK, NamesDiffer
  PROVE  LET n == Len(mtls) + Len(objs) + Len(OfKind(objs, "light")) IN
         ReadSoFar(Reading(Saved)[n], n) /\ Scene(Reading(Saved)[n])
<1>. DEFINE m == Len(mtls)
            o == Len(objs)
            l == Len(OfKind(objs, "light"))
            n == m + o + l
            s == Reading(Saved)
            S == {k \in 0 .. n : ReadSoFar(s[k], k)}
<1>1. m \in Nat /\ o \in Nat /\ l \in Nat /\ n \in Nat
  BY SizesAre
<1>2. Saved \in Seq(Nodes) /\ Len(Saved) = n + 1
  BY SavedIs
<1>3. /\ s[0] = Cleared
      /\ \A k \in 1 .. n + 1 : s[k] = ReadNode(s[k - 1], Saved[k])
      /\ \A k \in 0 .. n + 1 : Scene(s[k])
  BY <1>2, ReadingStep
<1>. HIDE DEF s
<1>4. 0 \in S
  <2>1. ReadSoFar(Cleared, 0)
    <3>1. Len(Cleared.mtls) = 0 /\ Len(Cleared.objs) = 0
      BY ClearedIs
    <3>. QED
      BY <3>1, <1>1, ClearedIs DEF ReadSoFar, AtMost
  <2>. QED
    BY <1>1, <1>3, <2>1
<1>5. ASSUME NEW k \in 0 .. n, k < n /\ k \in S PROVE k + 1 \in S
  <2>1. k \in Nat /\ k + 1 \in 1 .. n + 1 /\ (k + 1) - 1 = k /\ k + 1 \in 0 .. n /\ k \in 0 .. n + 1
    BY <1>1, <1>5
  <2>2. s[k + 1] = ReadNode(s[k], Saved[k + 1]) /\ Scene(s[k]) /\ ReadSoFar(s[k], k)
    BY <1>3, <1>5, <2>1
  <2>3. CASE k < m
    BY <2>1, <2>2, <2>3, ReadAMaterial
  <2>4. CASE m <= k /\ k < m + o
    <3>1. k - Len(mtls) < Len(objs)
      BY <1>1, <2>4
    <3>2. ReadSoFar(ReadNode(s[k], Saved[k + 1]), k + 1)
      BY <2>1, <2>2, <2>4, <3>1, ReadAnObject
    <3>. QED
      BY <2>1, <2>2, <3>2
  <2>5. CASE m + o <= k
    <3>1. k - Len(mtls) < Len(objs) + Len(OfKind(objs, "light"))
      BY <1>1, <1>5
    <3>2. ReadSoFar(ReadNode(s[k], Saved[k + 1]), k + 1)
      BY <2>1, <2>2, <2>5, <3>1, ReadALight
    <3>. QED
      BY <2>1, <2>2, <3>2
  <2>. QED
    BY <1>1, <2>1, <2>3, <2>4, <2>5
<1>6. 0 .. n \subseteq S
  <2>. HIDE DEF S
  <2>. QED
    BY <1>1, <1>4, <1>5, UpTo
<1>7. n \in 0 .. n /\ n \in 0 .. n + 1
  BY <1>1
<1>8. ReadSoFar(s[n], n) /\ Scene(s[n])
  BY <1>3, <1>6, <1>7
<1>. QED
  BY <1>8 DEF s

\* The node of the view is the last one.
LEMMA LoadedSaved ==
  ASSUME FileTypeOK, NamesDiffer
  PROVE  LET s == Loaded(Saved) IN
         /\ Scene(s) /\ s.ok /\ s.view = view
         /\ Len(s.mtls) = Len(mtls) /\ \A i \in 1 .. Len(mtls) : s.mtls[i] = NewLooks(mtls[i])
         /\ Len(s.objs) = Len(objs) + Len(OfKind(objs, "light"))
         /\ \A i \in 1 .. Len(objs) : s.objs[i] = Opened(objs[i])
         /\ \A i \in Len(objs) + 1 .. Len(s.objs) :
              s.objs[i] = LitAgain(OfKind(objs, "light")[i - Len(objs)])
<1>. DEFINE n == Len(mtls) + Len(objs) + Len(OfKind(objs, "light"))
            s == Reading(Saved)[n]
            r == Loaded(Saved)
<1>1. Len(mtls) \in Nat /\ Len(objs) \in Nat /\ Len(OfKind(objs, "light")) \in Nat /\ n \in Nat
  BY SizesAre
<1>2. Saved \in Seq(Nodes) /\ Len(Saved) = n + 1 /\ Saved[n + 1] = ViewNode(view)
  BY SavedIs
<1>3. r = ReadNode(s, ViewNode(view))
  <2>1. n + 1 \in 1 .. Len(Saved) /\ (n + 1) - 1 = n
    BY <1>1, <1>2
  <2>. QED
    BY <1>2, <2>1, ReadingStep DEF Loaded
<1>4. ReadSoFar(s, n) /\ Scene(s)
  BY ReadAll
<1>5. ViewNode(view) \in [node : {"view"}, view : Views] /\ ViewNode(view).view = view
  BY DEF ViewNode, FileTypeOK
<1>. HIDE DEF s, r
<1>6. s.ok
  BY <1>4 DEF ReadSoFar
<1>7. Scene(r) /\ r.ok /\ r.view = view /\ r.mtls = s.mtls /\ r.objs = s.objs
  BY <1>3, <1>4, <1>5, <1>6, ViewRead
<1>8. /\ Len(s.mtls) = Len(mtls) /\ \A i \in 1 .. Len(mtls) : s.mtls[i] = NewLooks(mtls[i])
      /\ Len(s.objs) = Len(objs) + Len(OfKind(objs, "light"))
  <2>1. AtMost(n, Len(mtls)) = Len(mtls)
    BY <1>1 DEF AtMost
  <2>2. (IF n <= Len(mtls) THEN 0 ELSE AtMost(n - Len(mtls), Len(objs) + Len(OfKind(objs, "light"))))
         = Len(objs) + Len(OfKind(objs, "light"))
    BY <1>1 DEF AtMost
  <2>. HIDE DEF n
  <2>. QED
    BY <1>4, <2>1, <2>2 DEF ReadSoFar
<1>9. \A i \in 1 .. Len(objs) : s.objs[i] = Opened(objs[i])
  <2>. TAKE i \in 1 .. Len(objs)
  <2>1. i \in 1 .. Len(s.objs) /\ i <= Len(objs)
    BY <1>1, <1>8
  <2>. QED
    BY <1>4, <2>1 DEF ReadSoFar
<1>10. \A i \in Len(objs) + 1 .. Len(s.objs) :
         s.objs[i] = LitAgain(OfKind(objs, "light")[i - Len(objs)])
  <2>. TAKE i \in Len(objs) + 1 .. Len(s.objs)
  <2>1. i \in 1 .. Len(s.objs) /\ i > Len(objs)
    BY <1>1, <1>8
  <2>. QED
    BY <1>4, <2>1 DEF ReadSoFar
<1>. QED
  BY <1>7, <1>8, <1>9, <1>10 DEF r

\* So the scene comes back.
LEMMA ComesBack ==
  ASSUME FileTypeOK
  PROVE  SceneSurvives
<1>. DEFINE s      == Loaded(Saved)
            lights == OfKind(objs, "light")
            o      == Len(objs)
            l      == Len(lights)
            A      == [i \in DOMAIN objs |-> Opened(objs[i])]
            B      == [i \in DOMAIN lights |-> [lights[i] EXCEPT !.mtl = 0]]
<1>. SUFFICES ASSUME NamesDiffer
     PROVE  /\ s.ok
            /\ s.mtls = [i \in DOMAIN mtls |-> [mtls[i] EXCEPT !.shin = DefShin]]
            /\ s.objs = A \o B
            /\ s.view = view
  BY DEF SceneSurvives
<1>1. /\ Scene(s) /\ s.ok /\ s.view = view
      /\ Len(s.mtls) = Len(mtls) /\ \A i \in 1 .. Len(mtls) : s.mtls[i] = NewLooks(mtls[i])
      /\ Len(s.objs) = o + l
      /\ \A i \in 1 .. o : s.objs[i] = Opened(objs[i])
      /\ \A i \in o + 1 .. Len(s.objs) : s.objs[i] = LitAgain(lights[i - o])
  BY LoadedSaved
<1>2. /\ mtls \in Seq(Material) /\ DOMAIN mtls = 1 .. Len(mtls) /\ Len(mtls) \in Nat
      /\ objs \in Seq(Object) /\ DOMAIN objs = 1 .. o /\ o \in Nat
      /\ DOMAIN lights = 1 .. l /\ l \in Nat
  BY TypesAre
<1>3. s.mtls \in Seq(Material) /\ s.objs \in Seq(Object)
  BY <1>1 DEF Scene, Scenes
<1>4. s.mtls = [i \in DOMAIN mtls |-> [mtls[i] EXCEPT !.shin = DefShin]]
  <2>1. ASSUME NEW i \in 1 .. Len(mtls) PROVE s.mtls[i] = [mtls[i] EXCEPT !.shin = DefShin]
    <3>1. mtls[i] \in Material /\ s.mtls[i] = NewLooks(mtls[i])
      BY <1>1, <1>2
    <3>. QED
      BY <3>1 DEF Material, NewLooks
  <2>2. s.mtls = [i \in 1 .. Len(mtls) |-> s.mtls[i]]
    BY <1>1, <1>3
  <2>. QED
    BY <1>2, <2>1, <2>2
<1>5. ASSUME NEW i \in 1 .. l
      PROVE  [lights[i] EXCEPT !.mtl = 0] = LitAgain(lights[i]) /\ LitAgain(lights[i]) \in Object
  <2>1. o \in 0 .. o
    BY <1>2
  <2>2. PICK j \in 1 .. o : lights[i] = objs[j] /\ objs[j].kind = "light"
    BY <1>2, <2>1, PickedFrom DEF OfKind
  <2>3. lights[i] \in Object /\ lights[i].kind = "light"
    BY <1>2, <2>2
  <2>. HIDE DEF lights
  <2>. QED
    BY <2>3 DEF Object, LitAgain
<1>6. A \in Seq(Object) /\ Len(A) = o /\ \A i \in 1 .. o : A[i] = Opened(objs[i])
  <2>1. ASSUME NEW i \in 1 .. o PROVE Opened(objs[i]) \in Object
    BY <1>1, <1>2, <1>3
  <2>. QED
    BY <1>2, <2>1
<1>7. B \in Seq(Object) /\ Len(B) = l /\ \A i \in 1 .. l : B[i] = LitAgain(lights[i])
  <2>. HIDE DEF lights
  <2>. QED
    BY <1>2, <1>5
<1>. HIDE DEF s, A, B, lights, l
<1>8. /\ A \o B \in Seq(Object) /\ Len(A \o B) = o + l
      /\ \A i \in 1 .. o + l : (A \o B)[i] = IF i <= o THEN A[i] ELSE B[i - o]
  <2>1. /\ A \o B \in Seq(Object) /\ Len(A \o B) = Len(A) + Len(B)
        /\ \A i \in 1 .. Len(A) + Len(B) : (A \o B)[i] = IF i <= Len(A) THEN A[i] ELSE B[i - Len(A)]
    BY <1>6, <1>7, ConcatProperties
  <2>. QED
    BY <1>6, <1>7, <2>1, Zenon
<1>9. ASSUME NEW i \in 1 .. o + l PROVE s.objs[i] = (A \o B)[i]
  <2>1. CASE i <= o
    <3>1. i \in 1 .. o
      BY <1>2, <2>1
    <3>. QED
      BY <1>1, <1>6, <1>8, <2>1, <3>1
  <2>2. CASE ~ (i <= o)
    <3>1. i \in o + 1 .. o + l /\ i - o \in 1 .. l
      BY <1>2, <2>2
    <3>. QED
      BY <1>1, <1>7, <1>8, <2>2, <3>1
  <2>. QED
    BY <2>1, <2>2
<1>10. s.objs = A \o B
  BY <1>1, <1>3, <1>8, <1>9, SeqEqual
<1>. QED
  BY <1>1, <1>4, <1>10

-----------------------------------------------------------------------------
(* Sessions.                                                               *)

LEMMA CountersAtZero == [k \in Kinds |-> 0] \in [Kinds -> Nat]
OBVIOUS

LEMMA FileInitTypes == FileInit => FileTypeOK
<1>. SUFFICES ASSUME FileInit PROVE FileTypeOK
  OBVIOUS
<1>1. file \in Seq(Nodes)
  BY SceneFileAssumption, EmptySeq DEF FileInit
<1>2. <<>> \in Seq(Material) /\ <<>> \in Seq(Object) /\ Len(<<>>) = 0
  BY EmptySeq
<1>3. mtls = <<>> /\ objs = <<>> /\ view \in Views /\ mtlidx \in Nat /\ defUsed \in BOOLEAN
      /\ objid \in [Kinds -> Nat]
  BY CountersAtZero DEF FileInit, Fresh
<1>. QED
  BY <1>1, <1>2, <1>3 DEF FileTypeOK

\* A material is appended, or one is changed: there are no fewer than before.
LEMMA MaterialsKeep ==
  ASSUME FileTypeOK, mtls' \in Seq(Material), Len(mtls') >= Len(mtls), mtlidx' \in Nat,
         UNCHANGED <<objs, view, defUsed, objid, file>>
  PROVE  FileTypeOK'
<1>1. \A i \in 1 .. Len(objs) : objs[i].mtl <= Len(mtls')
  <2>. TAKE i \in 1 .. Len(objs)
  <2>1. objs[i] \in Object /\ objs[i].mtl <= Len(mtls)
    BY DEF FileTypeOK
  <2>. QED
    BY <2>1, SizesAre DEF Object
<1>. QED
  BY <1>1 DEF FileTypeOK

LEMMA FileStepTypes ==
  ASSUME FileTypeOK, FileNext
  PROVE  FileTypeOK'
<1>0. mtls \in Seq(Material) /\ objs \in Seq(Object) /\ mtlidx \in Nat
  BY DEF FileTypeOK
<1>1. CASE AddMaterial
  <2>. DEFINE x == [name |-> mtlidx, shin |-> DefShin]
  <2>1. x \in Material /\ mtlidx + 1 \in Nat
    BY <1>0, DefShinIs DEF Material
  <2>. HIDE DEF x
  <2>2. mtls' = Append(mtls, x) /\ mtlidx' = mtlidx + 1 /\ UNCHANGED <<objs, view, defUsed, objid, file>>
    BY <1>1 DEF AddMaterial, x
  <2>3. mtls' \in Seq(Material) /\ Len(mtls') >= Len(mtls)
    BY <1>0, <2>1, <2>2, AppendProperties
  <2>. QED
    BY <2>1, <2>2, <2>3, MaterialsKeep
<1>2. CASE DuplicateMaterial
  <2>1. PICK i \in DOMAIN mtls : mtls' = Append(mtls, [mtls[i] EXCEPT !.name = mtlidx])
    BY <1>2 DEF DuplicateMaterial
  <2>2. mtls[i] \in Material
    BY <1>0
  <2>. DEFINE x == [mtls[i] EXCEPT !.name = mtlidx]
  <2>3. x \in Material
    BY <1>0, <2>2 DEF Material
  <2>. HIDE DEF x
  <2>4. mtls' = Append(mtls, x)
    BY <2>1 DEF x
  <2>5. mtls' \in Seq(Material) /\ Len(mtls') >= Len(mtls)
    BY <1>0, <2>3, <2>4, AppendProperties
  <2>6. mtlidx' \in Nat /\ UNCHANGED <<objs, view, defUsed, objid, file>>
    BY <1>0, <1>2 DEF DuplicateMaterial
  <2>. QED
    BY <2>5, <2>6, MaterialsKeep
<1>3. CASE \E i \in DOMAIN mtls, n \in TypedNames : RenameMaterial(i, n)
  <2>1. PICK i \in DOMAIN mtls, n \in TypedNames : RenameMaterial(i, n)
    BY <1>3
  <2>2. mtls' = [mtls EXCEPT ![i] = [mtls[i] EXCEPT !.name = n]]
        /\ UNCHANGED <<objs, view, mtlidx, defUsed, objid, file>>
    BY <2>1 DEF RenameMaterial, counters
  <2>3. mtls[i] \in Material /\ n \in Nat
    BY <1>0, DefShinIs
  <2>. DEFINE x == [mtls[i] EXCEPT !.name = n]
  <2>4. x \in Material
    BY <2>3 DEF Material
  <2>. HIDE DEF x
  <2>5. mtls' = [mtls EXCEPT ![i] = x]
    BY <2>2 DEF x
  <2>6. mtls' \in Seq(Material) /\ Len(mtls') >= Len(mtls)
    BY <1>0, <2>4, <2>5, ExceptSeq
  <2>. QED
    BY <1>0, <2>2, <2>6, MaterialsKeep
<1>4. CASE \E i \in DOMAIN mtls, v \in Shins : SlideShininess(i, v)
  <2>1. PICK i \in DOMAIN mtls, v \in Shins : SlideShininess(i, v)
    BY <1>4
  <2>2. mtls' = [mtls EXCEPT ![i] = [mtls[i] EXCEPT !.shin = v]]
        /\ UNCHANGED <<objs, view, mtlidx, defUsed, objid, file>>
    BY <2>1 DEF SlideShininess, counters
  <2>3. mtls[i] \in Material
    BY <1>0
  <2>. DEFINE x == [mtls[i] EXCEPT !.shin = v]
  <2>4. x \in Material
    BY <2>3 DEF Material
  <2>. HIDE DEF x
  <2>5. mtls' = [mtls EXCEPT ![i] = x]
    BY <2>2 DEF x
  <2>6. mtls' \in Seq(Material) /\ Len(mtls') >= Len(mtls)
    BY <1>0, <2>4, <2>5, ExceptSeq
  <2>. QED
    BY <1>0, <2>2, <2>6, MaterialsKeep
<1>5. CASE \E kind \in {"box", "light"} : AddObject(kind)
  <2>1. PICK kind \in {"box", "light"} : AddObject(kind)
    BY <1>5
  <2>. DEFINE x == [kind |-> kind, name |-> <<kind, objid[kind]>>, mtl |-> 0]
  <2>2. kind \in Kinds /\ objid \in [Kinds -> Nat]
    BY DEF Kinds, FileTypeOK
  <2>3. x \in Object
    BY <2>2 DEF Object, ObjNames
  <2>4. x.mtl = 0
    OBVIOUS
  <2>5. objs' = Append(objs, x) /\ mtlidx' \in Nat /\ defUsed' = TRUE
        /\ objid' \in [Kinds -> Nat] /\ UNCHANGED <<mtls, view, file>>
    BY <1>0, <2>1, <2>2 DEF AddObject
  <2>. HIDE DEF x
  <2>6. /\ objs' \in Seq(Object) /\ Len(objs') = Len(objs) + 1
        /\ (\A i \in 1 .. Len(objs) : objs'[i] = objs[i]) /\ objs'[Len(objs) + 1] = x
    BY <1>0, <2>3, <2>5, AppendProperties
  <2>7. ASSUME NEW i \in 1 .. Len(objs') PROVE objs'[i].mtl <= Len(mtls)
    <3>1. CASE i = Len(objs) + 1
      BY <2>4, <2>6, <3>1, SizesAre
    <3>2. CASE i # Len(objs) + 1
      <4>1. i \in 1 .. Len(objs)
        BY <3>2, <2>6, SizesAre
      <4>. QED
        BY <4>1, <2>6 DEF FileTypeOK
    <3>. QED
      BY <3>1, <3>2
  <2>. QED
    BY <2>5, <2>6, <2>7 DEF FileTypeOK
<1>6. CASE \E o \in DOMAIN objs, i \in DOMAIN mtls : Assign(o, i)
  <2>1. PICK o \in DOMAIN objs, i \in DOMAIN mtls : Assign(o, i)
    BY <1>6
  <2>2. objs' = [objs EXCEPT ![o] = [objs[o] EXCEPT !.mtl = i]]
        /\ UNCHANGED <<mtls, view, mtlidx, defUsed, objid, file>>
    BY <2>1 DEF Assign, counters
  <2>. DEFINE x == [objs[o] EXCEPT !.mtl = i]
  <2>3. objs[o] \in Object /\ i \in Nat /\ i <= Len(mtls)
    BY <1>0, SizesAre
  <2>4. x \in Object /\ x.mtl = i
    BY <2>3 DEF Object
  <2>. HIDE DEF x
  <2>5. objs' = [objs EXCEPT ![o] = x]
    BY <2>2 DEF x
  <2>6. o \in 1 .. Len(objs)
    BY <1>0
  <2>7. /\ objs' \in Seq(Object) /\ Len(objs') = Len(objs)
        /\ \A j \in 1 .. Len(objs) : objs'[j] = IF j = o THEN x ELSE objs[j]
    BY <1>0, <2>4, <2>5, <2>6, ExceptSeq
  <2>8. \A j \in 1 .. Len(objs') : objs'[j].mtl <= Len(mtls)
    BY <2>3, <2>4, <2>7 DEF FileTypeOK
  <2>. QED
    BY <2>2, <2>7, <2>8 DEF FileTypeOK
<1>7. CASE \E v \in Views : MoveView(v)
  BY <1>7 DEF MoveView, counters, FileTypeOK
<1>8. CASE Save
  <2>1. Saved \in Seq(Nodes)
    BY SavedIs
  <2>. QED
    BY <1>8, <2>1 DEF Save, counters, FileTypeOK
<1>9. CASE Open
  <2>. DEFINE s == Loaded(file)
  <2>1. Scene(s)
    BY LoadedIs DEF FileTypeOK
  <2>2. /\ mtls' = s.mtls /\ objs' = s.objs /\ view' = s.view
        /\ mtlidx' = s.mtlidx /\ defUsed' = s.defUsed /\ objid' = s.objid /\ file' = file
    BY <1>9 DEF Open
  <2>. HIDE DEF s
  <2>. QED
    BY <2>1, <2>2 DEF Scene, Scenes, FileTypeOK
<1>10. CASE New
  BY <1>10 DEF New, counters, FileTypeOK
<1>11. CASE Restart
  <2>1. mtls' = <<>> /\ objs' = <<>> /\ view' \in Views /\ mtlidx' \in Nat /\ defUsed' \in BOOLEAN
        /\ objid' \in [Kinds -> Nat] /\ file' = file
    BY <1>11, CountersAtZero DEF Restart
  <2>2. <<>> \in Seq(Material) /\ <<>> \in Seq(Object) /\ Len(<<>>) = 0
    BY EmptySeq
  <2>. QED
    BY <2>1, <2>2 DEF FileTypeOK
<1>. QED
  BY <1>1, <1>2, <1>3, <1>4, <1>5, <1>6, <1>7, <1>8, <1>9, <1>10, <1>11 DEF FileNext

\* The types of scene and file, whatever is added, opened and started again.
THEOREM FileTypes == FileSpec => []FileTypeOK
<1>1. FileTypeOK /\ [FileNext]_fileVars => FileTypeOK'
  <2>1. CASE FileNext
    BY <2>1, FileStepTypes
  <2>2. CASE UNCHANGED fileVars
    BY <2>2 DEF fileVars, counters, FileTypeOK
  <2>. QED
    BY <2>1, <2>2
<1>. QED
  BY <1>1, FileInitTypes, PTL DEF FileSpec

\* A scene whose materials have different names is opened whole, but for every
\* shininess, and with an invisible object for every light, whatever happened before
\* (scn_save and scn_load).
THEOREM ScenesComeBack == FileSpec => []SceneSurvives
<1>1. FileTypeOK => SceneSurvives
  BY ComesBack
<1>. QED
  BY <1>1, FileTypes, PTL
=============================================================================
