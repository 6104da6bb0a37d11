--------------------------- MODULE ModellerProofs ---------------------------
(***************************************************************************)
(* Proofs about Modeller, for every set of objects and materials.          *)
(***************************************************************************)
EXTENDS Modeller, TLAPS, SequenceTheorems

-----------------------------------------------------------------------------
(* Arrays.                                                                 *)

\* The last element takes the place of the removed one, the rest stays.
LEMMA RemoveSwapElements ==
  ASSUME NEW S, NEW a \in Seq(S), NEW i \in 0 .. Len(a) - 1
  PROVE  /\ RemoveSwap(a, i) \in Seq(S)
         /\ Len(RemoveSwap(a, i)) = Len(a) - 1
         /\ \A j \in 1 .. Len(a) - 1 :
              RemoveSwap(a, i)[j] = IF j = i + 1 THEN a[Len(a)] ELSE a[j]
<1> DEFINE b == [a EXCEPT ![i + 1] = a[Len(a)]]
<1>1. Len(a) \in Nat /\ Len(a) >= 1 /\ DOMAIN a = 1 .. Len(a)
  BY LenProperties
<1>2. a[Len(a)] \in S
  BY <1>1, ElementOfSeq
<1>3. /\ b \in Seq(S)
      /\ Len(b) = Len(a)
      /\ \A j \in 1 .. Len(a) : b[j] = IF j = i + 1 THEN a[Len(a)] ELSE a[j]
  BY <1>1, <1>2, ExceptSeq
<1>4. /\ SubSeq(b, 1, Len(a) - 1) \in Seq(S)
      /\ Len(SubSeq(b, 1, Len(a) - 1)) = Len(a) - 1
      /\ \A j \in 1 .. Len(a) - 1 : SubSeq(b, 1, Len(a) - 1)[j] = b[j]
  BY <1>1, <1>3
<1>5. RemoveSwap(a, i) = SubSeq(b, 1, Len(a) - 1)
  BY <1>3 DEF RemoveSwap, Front
<1>. QED
  BY <1>1, <1>3, <1>4, <1>5

\* Removing keeps an array free of duplicates and removes just one element.
LEMMA RemoveSwapSet ==
  ASSUME NEW S, NEW a \in Seq(S), NEW i \in 0 .. Len(a) - 1, IsInjective(a)
  PROVE  /\ IsInjective(RemoveSwap(a, i))
         /\ ToSet(RemoveSwap(a, i)) = ToSet(a) \ {a[i + 1]}
<1> DEFINE b == RemoveSwap(a, i)
           n == Len(a)
<1>1. n \in Nat /\ n >= 1 /\ DOMAIN a = 1 .. n
  BY LenProperties
<1>2. /\ b \in Seq(S)
      /\ Len(b) = n - 1
      /\ \A j \in 1 .. n - 1 : b[j] = IF j = i + 1 THEN a[n] ELSE a[j]
  BY RemoveSwapElements
<1>3. DOMAIN b = 1 .. n - 1
  BY <1>2, LenProperties
<1>4. \A j, k \in 1 .. n : a[j] = a[k] => j = k
  BY <1>1 DEF IsInjective
<1> HIDE DEF b
<1>5. \A j, k \in 1 .. n - 1 : b[j] = b[k] => j = k
  BY <1>1, <1>2, <1>4
<1>6. IsInjective(b)
  BY <1>3, <1>5 DEF IsInjective
<1>7. ToSet(b) \subseteq ToSet(a) \ {a[i + 1]}
  <2> SUFFICES ASSUME NEW j \in 1 .. n - 1
               PROVE  b[j] \in ToSet(a) \ {a[i + 1]}
    BY <1>3 DEF ToSet
  <2>1. CASE j = i + 1
    BY <2>1, <1>1, <1>2, <1>4 DEF ToSet
  <2>2. CASE j # i + 1
    BY <2>2, <1>1, <1>2, <1>4 DEF ToSet
  <2>. QED BY <2>1, <2>2
<1>8. ToSet(a) \ {a[i + 1]} \subseteq ToSet(b)
  <2> SUFFICES ASSUME NEW k \in 1 .. n, a[k] # a[i + 1]
               PROVE  a[k] \in ToSet(b)
    BY <1>1 DEF ToSet
  <2>1. CASE k = n
    <3>1. i + 1 \in 1 .. n - 1
      BY <2>1, <1>1
    <3>2. b[i + 1] = a[k]
      BY <3>1, <2>1, <1>2
    <3>. QED BY <3>1, <3>2, <1>3 DEF ToSet
  <2>2. CASE k # n
    <3>1. k \in 1 .. n - 1
      <4>1. n \in Nat /\ k \in 1 .. n /\ k # n
        BY <2>2, <1>1
      <4> HIDE DEF n
      <4>. QED BY <4>1
    <3>2. k # i + 1
      OBVIOUS
    <3>3. b[k] = a[k]
      BY <3>1, <3>2, <1>2
    <3>. QED BY <3>1, <3>3, <1>3 DEF ToSet
  <2>. QED BY <2>1, <2>2
<1>. QED
  BY <1>6, <1>7, <1>8 DEF b

\* Appending a new element adds it and makes no duplicate.
LEMMA AppendSet ==
  ASSUME NEW S, NEW a \in Seq(S), NEW e \in S
  PROVE  /\ Append(a, e) \in Seq(S)
         /\ Len(Append(a, e)) = Len(a) + 1
         /\ ToSet(Append(a, e)) = ToSet(a) \cup {e}
         /\ \A j \in 1 .. Len(a) : Append(a, e)[j] = a[j]
         /\ Append(a, e)[Len(a) + 1] = e
         /\ IsInjective(a) /\ e \notin ToSet(a) => IsInjective(Append(a, e))
<1> DEFINE b == Append(a, e)
           n == Len(a)
<1>1. n \in Nat /\ DOMAIN a = 1 .. n
  BY LenProperties
<1>2. /\ b \in Seq(S)
      /\ Len(b) = n + 1
      /\ \A j \in 1 .. n : b[j] = a[j]
      /\ b[n + 1] = e
  BY AppendProperties
<1>3. DOMAIN b = 1 .. n + 1
  BY <1>2, LenProperties
<1> HIDE DEF b
<1>4. ToSet(b) = ToSet(a) \cup {e}
  <2>1. ToSet(b) \subseteq ToSet(a) \cup {e}
    BY <1>1, <1>2, <1>3 DEF ToSet
  <2>2. ToSet(a) \subseteq ToSet(b)
    BY <1>1, <1>2, <1>3 DEF ToSet
  <2>3. e \in ToSet(b)
    BY <1>1, <1>2, <1>3 DEF ToSet
  <2>. QED BY <2>1, <2>2, <2>3
<1>5. ASSUME IsInjective(a), e \notin ToSet(a)
      PROVE  IsInjective(b)
  BY <1>5, <1>1, <1>2, <1>3 DEF IsInjective, ToSet
<1>. QED
  BY <1>2, <1>4, <1>5 DEF b

\* What the elements of DistinctArrays are.
LEMMA DistinctArraysType ==
  ASSUME NEW S, NEW n \in Nat, NEW a \in DistinctArrays(S, n)
  PROVE  /\ a \in Seq(S)
         /\ IsInjective(a)
         /\ ToSet(a) \subseteq S
<1>1. a \in SeqOf(S, n) /\ IsInjective(a)
  BY DEF DistinctArrays
<1>2. PICK m \in 0 .. n : a \in [1 .. m -> S]
  BY <1>1 DEF SeqOf
<1>3. a \in Seq(S)
  BY <1>2, SeqDef
<1>. QED
  BY <1>1, <1>2, <1>3 DEF ToSet

\* An array of indexed elements and its set of elements.
LEMMA ElementInSet ==
  ASSUME NEW S, NEW a \in Seq(S)
  PROVE  /\ ToSet(a) \subseteq S
         /\ \A i \in 1 .. Len(a) : a[i] \in ToSet(a)
         /\ \A x \in ToSet(a) : \E i \in 1 .. Len(a) : a[i] = x
         /\ Len(a) \in Nat
BY LenProperties, ElementOfSeq DEF ToSet
-----------------------------------------------------------------------------
(* The inductive invariant.  No conjunct is inductive alone: a selection    *)
(* stays in range because removing shortens the array by one and resets     *)
(* it, the array stays free of duplicates because a new address comes from  *)
(* those that are not allocated, and materials stay live because the        *)
(* pointer of the editor, which is assigned to an object, tracks the array. *)

Inv ==
  /\ SceneTypeOK
  /\ SelectionInRange
  /\ ObjectsOwned
  /\ EditorTracksScene
  /\ MaterialsLive
  /\ LightsShine

LEMMA DefLookType == DefLook \in Looks
BY ModellerAssumption DEF DefLook, Looks

\* What holds of the scene that a file describes.
LEMMA FileScene ==
  ASSUME NEW os, NEW ms, NEW ls, NEW k, NEW om, NEW lk,
         IsFileScene(os, ms, ls, k, om, lk)
  PROVE  /\ os \in Seq(Objs) /\ IsInjective(os)
         /\ ms \in Seq(Mtls) /\ IsInjective(ms)
         /\ ls \in Seq(Objs)
         /\ k \in [Objs -> Kinds \cup {"free"}]
         /\ om \in [Objs -> Mtls \cup {DefMtl}]
         /\ \A o \in Objs : o \in ToSet(os) <=> k[o] # "free"
         /\ \A o \in ToSet(os) : om[o] \in ToSet(ms) \cup {DefMtl}
         /\ \A o \in ToSet(os) : k[o] = "light" => o \in ToSet(ls)
         /\ lk \in [Mtls -> Looks]
<1>1. /\ os \in Seq(Objs) /\ IsInjective(os) /\ ToSet(os) \subseteq Objs
      /\ ms \in Seq(Mtls) /\ IsInjective(ms) /\ ToSet(ms) \subseteq Mtls
      /\ ls \in Seq(Objs)
  BY ModellerAssumption, DistinctArraysType DEF IsFileScene
<1>2. PICK f \in [ToSet(os) -> Kinds] : k = Complete(os, f, "free")
  BY DEF IsFileScene
<1>3. PICK g \in [ToSet(os) -> ToSet(ms) \cup {DefMtl}] : om = Complete(os, g, DefMtl)
  BY DEF IsFileScene
<1>4. /\ k \in [Objs -> Kinds \cup {"free"}]
      /\ \A o \in Objs : o \in ToSet(os) <=> k[o] # "free"
  BY <1>1, <1>2 DEF Complete, Kinds
<1>5. /\ om \in [Objs -> Mtls \cup {DefMtl}]
      /\ \A o \in ToSet(os) : om[o] \in ToSet(ms) \cup {DefMtl}
  BY <1>1, <1>3 DEF Complete
<1>6. \A o \in ToSet(os) : k[o] = "light" => o \in ToSet(ls)
  BY DEF IsFileScene
<1>7. lk \in [Mtls -> Looks]
  <2>1. PICK h \in [ToSet(ms) -> Looks] :
          lk = [m \in Mtls |-> IF m \in ToSet(ms) THEN h[m] ELSE DefLook]
    BY DEF IsFileScene
  <2>. QED BY <2>1, DefLookType
<1>. QED
  BY <1>1, <1>4, <1>5, <1>6, <1>7

\* What select_material leaves behind tracks the array it was given.
LEMMA SelectMaterialTracks ==
  ASSUME NEW midx \in Int, NEW ms \in Seq(Mtls), SelectMaterial(midx, ms)
  PROVE  /\ curmtl' \in Mtls \cup {Nil}
         /\ curmtlIdx' \in Int
         /\ curmtl' = Nil <=> curmtlIdx' = -1
         /\ curmtl' # Nil => /\ curmtlIdx' \in 0 .. Len(ms) - 1
                             /\ ms[curmtlIdx' + 1] = curmtl'
<1>1. Len(ms) \in Nat
  BY LenProperties
<1>2. CASE midx < 0 \/ midx >= Len(ms)
  BY <1>2 DEF SelectMaterial
<1>3. CASE ~(midx < 0 \/ midx >= Len(ms))
  <2>1. midx \in 0 .. Len(ms) - 1 /\ midx + 1 \in 1 .. Len(ms)
    BY <1>1, <1>3
  <2>2. ms[midx + 1] \in Mtls
    BY <2>1, ElementOfSeq
  <2>3. curmtlIdx' = midx /\ curmtl' = ms[midx + 1]
    BY <1>3 DEF SelectMaterial
  <2>4. curmtl' # Nil /\ midx # -1
    BY <2>1, <2>2, <2>3, ModellerAssumption
  <2>. QED BY <2>1, <2>2, <2>3, <2>4
<1>. QED BY <1>2, <1>3

LEMMA InitInv == Init => Inv
<1> SUFFICES ASSUME Init PROVE Inv
  OBVIOUS
<1>1. SceneTypeOK
  <2>1. /\ objects \in Seq(Objs) /\ lights \in Seq(Objs) /\ mtls \in Seq(Mtls)
        /\ kind \in [Objs -> Kinds \cup {"free"}]
        /\ omtl \in [Objs -> Mtls \cup {DefMtl}]
        /\ look \in [Mtls -> Looks]
    BY FileScene DEF Init
  <2>2. selobj \in Int /\ curmtl \in Mtls \cup {Nil} /\ curmtlIdx \in Int
    BY DEF Init
  <2>3. modal \in Modals /\ curTool \in Tools
    BY DEF Init, Modals, Tools
  <2>4. mtlwin \in BOOLEAN /\ textFocus \in BOOLEAN /\ vpdirty \in BOOLEAN
    BY DEF Init
  <2>. QED BY <2>1, <2>2, <2>3, <2>4 DEF SceneTypeOK
<1>2. Len(objects) \in Nat
  BY <1>1, LenProperties DEF SceneTypeOK
<1>3. SelectionInRange
  BY <1>2 DEF Init, SelectionInRange, NumObj
<1>4. ObjectsOwned
  BY FileScene DEF Init, ObjectsOwned, Allocated
<1>5. EditorTracksScene
  BY FileScene DEF Init, EditorTracksScene
<1>6. MaterialsLive
  BY FileScene DEF Init, MaterialsLive, Allocated
<1>7. LightsShine
  BY FileScene DEF Init, LightsShine, Allocated
<1>. QED
  BY <1>1, <1>3, <1>4, <1>5, <1>6, <1>7 DEF Inv

\* The steps that touch only the windows, the tool or the redraw flag.
LEMMA SceneUntouched ==
  ASSUME Inv, UNCHANGED <<scene, selobj, editor>>,
         modal' \in Modals, mtlwin' \in BOOLEAN, textFocus' \in BOOLEAN,
         curTool' \in Tools, vpdirty' \in BOOLEAN
  PROVE  Inv'
<1> USE DEF scene, editor, Inv
<1>1. SceneTypeOK'
  BY DEF SceneTypeOK
<1>2. SelectionInRange'
  BY DEF SelectionInRange, NumObj
<1>3. ObjectsOwned'
  BY DEF ObjectsOwned, Allocated
<1>4. EditorTracksScene'
  BY DEF EditorTracksScene, NumMtl
<1>5. MaterialsLive'
  BY DEF MaterialsLive, Allocated
<1>6. LightsShine'
  BY DEF LightsShine, Allocated
<1>. QED
  BY <1>1, <1>2, <1>3, <1>4, <1>5, <1>6

LEMMA GuiInv ==
  ASSUME Inv
  PROVE  /\ \A m \in {"objmenu", "other"} : OpenMenu(m) => Inv'
         /\ CloseMenu => Inv'
         /\ \A t \in Tools : ChooseTool(t) => Inv'
         /\ EscapeKey => Inv'
         /\ ToggleMtlWin => Inv'
         /\ Manipulate => Inv'
         /\ ChangeView => Inv'
         /\ Display => Inv'
         /\ FocusName => Inv'
         /\ OpenColor => Inv'
<1>0. /\ modal \in Modals /\ mtlwin \in BOOLEAN /\ textFocus \in BOOLEAN
      /\ curTool \in Tools /\ vpdirty \in BOOLEAN
  BY DEF Inv, SceneTypeOK
<1>1. ASSUME NEW m \in {"objmenu", "other"}, OpenMenu(m) PROVE Inv'
  BY <1>0, <1>1, SceneUntouched DEF OpenMenu, Modals
<1>2. ASSUME CloseMenu PROVE Inv'
  BY <1>0, <1>2, SceneUntouched DEF CloseMenu, Modals
<1>3. ASSUME NEW t \in Tools, ChooseTool(t) PROVE Inv'
  <2>1. vpdirty' \in BOOLEAN
    BY <1>3 DEF ChooseTool
  <2>. QED
    BY <1>0, <1>3, <2>1, SceneUntouched DEF ChooseTool, SetTool
<1>4. ASSUME EscapeKey PROVE Inv'
  BY <1>0, <1>4, SceneUntouched DEF EscapeKey, SetTool, CancelOp, Tools
<1>5. ASSUME ToggleMtlWin PROVE Inv'
  <2>1. vpdirty' \in BOOLEAN /\ mtlwin' \in BOOLEAN
    BY <1>0, <1>5 DEF ToggleMtlWin
  <2>. QED
    BY <1>0, <1>5, <2>1, SceneUntouched DEF ToggleMtlWin
<1>6. ASSUME ChangeView PROVE Inv'
  BY <1>0, <1>6, SceneUntouched DEF ChangeView, gui
<1>7. ASSUME Display PROVE Inv'
  BY <1>0, <1>7, SceneUntouched DEF Display, gui
<1>8. ASSUME FocusName PROVE Inv'
  BY <1>0, <1>8, SceneUntouched DEF FocusName
<1>9. ASSUME Manipulate PROVE Inv'
  BY <1>0, <1>9, SceneUntouched DEF Manipulate, gui
<1>10. ASSUME OpenColor PROVE Inv'
  BY <1>0, <1>10, SceneUntouched DEF OpenColor, Modals
<1>. QED
  BY <1>1, <1>2, <1>3, <1>4, <1>5, <1>6, <1>7, <1>8, <1>9, <1>10

\* New and Open: the whole scene is replaced, and nothing refers to the old one.
LEMMA ReplaceInv ==
  ASSUME Inv,
         IsFileScene(objects', mtls', lights', kind', omtl', look'),
         selobj' = -1, curmtl' = Nil, curmtlIdx' = -1,
         modal' \in Modals, mtlwin' \in BOOLEAN, textFocus' \in BOOLEAN,
         curTool' \in Tools, vpdirty' \in BOOLEAN
  PROVE  Inv'
<1>1. /\ objects' \in Seq(Objs) /\ lights' \in Seq(Objs) /\ mtls' \in Seq(Mtls)
      /\ kind' \in [Objs -> Kinds \cup {"free"}]
      /\ omtl' \in [Objs -> Mtls \cup {DefMtl}]
      /\ look' \in [Mtls -> Looks]
      /\ IsInjective(objects') /\ IsInjective(mtls')
      /\ \A o \in Objs : o \in ToSet(objects') <=> kind'[o] # "free"
      /\ \A o \in ToSet(objects') : omtl'[o] \in ToSet(mtls') \cup {DefMtl}
      /\ \A o \in ToSet(objects') : kind'[o] = "light" => o \in ToSet(lights')
  BY FileScene
<1>2. SceneTypeOK'
  BY <1>1 DEF SceneTypeOK
<1>3. SelectionInRange'
  BY <1>1, LenProperties DEF SelectionInRange, NumObj
<1>4. ObjectsOwned'
  BY <1>1 DEF ObjectsOwned, Allocated
<1>5. EditorTracksScene'
  BY <1>1 DEF EditorTracksScene
<1>6. MaterialsLive'
  BY <1>1 DEF MaterialsLive, Allocated
<1>7. LightsShine'
  BY <1>1 DEF LightsShine, Allocated
<1>. QED
  BY <1>2, <1>3, <1>4, <1>5, <1>6, <1>7 DEF Inv

\* The empty scene is one that a file may describe.
LEMMA EmptyFileScene ==
  IsFileScene(<<>>, <<>>, <<>>, [o \in Objs |-> "free"],
              [o \in Objs |-> DefMtl], [m \in Mtls |-> DefLook])
<1>1. ASSUME NEW S, NEW n \in Nat
      PROVE  <<>> \in DistinctArrays(S, n)
  <2>1. <<>> \in [1 .. 0 -> S] /\ 0 \in 0 .. n
    OBVIOUS
  <2>2. <<>> \in SeqOf(S, n)
    BY <2>1 DEF SeqOf
  <2>3. IsInjective(<<>>)
    BY DEF IsInjective
  <2>. QED BY <2>2, <2>3 DEF DistinctArrays
<1>2. ToSet(<<>>) = {}
  BY DEF ToSet
<1>3. [o \in Objs |-> "free"] = Complete(<<>>, <<>>, "free")
  BY <1>2 DEF Complete
<1>4. [o \in Objs |-> DefMtl] = Complete(<<>>, <<>>, DefMtl)
  BY <1>2 DEF Complete
<1>5. <<>> \in [ToSet(<<>>) -> Kinds] /\ <<>> \in [ToSet(<<>>) -> ToSet(<<>>) \cup {DefMtl}]
  BY <1>2
<1>6. \E f \in [ToSet(<<>>) -> Looks] :
        [m \in Mtls |-> DefLook] =
          [m \in Mtls |-> IF m \in ToSet(<<>>) THEN f[m] ELSE DefLook]
  <2>1. <<>> \in [ToSet(<<>>) -> Looks]
    BY <1>2
  <2>2. [m \in Mtls |-> DefLook] =
          [m \in Mtls |-> IF m \in ToSet(<<>>) THEN <<>>[m] ELSE DefLook]
    BY <1>2
  <2>. QED BY <2>1, <2>2
<1>. QED
  BY <1>1, <1>2, <1>3, <1>4, <1>5, <1>6, ModellerAssumption DEF IsFileScene

LEMMA NewOpenInv == ASSUME Inv, NewScene \/ OpenScene PROVE Inv'
<1>0. modal \in Modals /\ textFocus \in BOOLEAN
  BY DEF Inv, SceneTypeOK
<1>1. CASE NewScene
  <2>1. IsFileScene(objects', mtls', lights', kind', omtl', look')
    BY <1>1, EmptyFileScene DEF NewScene
  <2>2. selobj' = -1 /\ curmtl' = Nil /\ curmtlIdx' = -1
    BY <1>1 DEF NewScene, SelectMaterial
  <2>3. /\ modal' \in Modals /\ mtlwin' \in BOOLEAN /\ textFocus' \in BOOLEAN
        /\ curTool' \in Tools /\ vpdirty' \in BOOLEAN
    BY <1>0, <1>1 DEF NewScene, CancelOp, SetTool, Tools
  <2>. QED BY <2>1, <2>2, <2>3, ReplaceInv
<1>2. CASE OpenScene
  <2>1. IsFileScene(objects', mtls', lights', kind', omtl', look')
    BY <1>2 DEF OpenScene
  <2>2. selobj' = -1 /\ curmtl' = Nil /\ curmtlIdx' = -1
    BY <1>2 DEF OpenScene, SelectMaterial
  <2>3. /\ modal' \in Modals /\ mtlwin' \in BOOLEAN /\ textFocus' \in BOOLEAN
        /\ curTool' \in Tools /\ vpdirty' \in BOOLEAN
    BY <1>0, <1>2 DEF OpenScene, CancelOp, SetTool, Tools
  <2>. QED BY <2>1, <2>2, <2>3, ReplaceInv
<1>. QED BY <1>1, <1>2

\* Deleting: the selected object leaves the array and becomes free.
LEMMA RemoveInv == ASSUME Inv, RemoveObject PROVE Inv'
<1>0. SceneTypeOK /\ SelectionInRange /\ ObjectsOwned /\ EditorTracksScene
      /\ MaterialsLive /\ LightsShine
  BY DEF Inv
<1>1. CASE selobj >= 0
  <2> DEFINE o == objects[selobj + 1]
  <2>1. selobj \in 0 .. Len(objects) - 1 /\ selobj + 1 \in 1 .. Len(objects)
    BY <1>0, <1>1, LenProperties DEF SceneTypeOK, SelectionInRange, NumObj
  <2>2. objects \in Seq(Objs) /\ IsInjective(objects)
    BY <1>0 DEF SceneTypeOK, ObjectsOwned
  <2>3. o \in Objs /\ o \in ToSet(objects)
    BY <2>1, <2>2, ElementInSet, ElementOfSeq
  <2> HIDE DEF o
  <2>4. /\ objects' = RemoveSwap(objects, selobj)
        /\ kind' = [kind EXCEPT ![o] = "free"]
        /\ omtl' = [omtl EXCEPT ![o] = DefMtl]
        /\ selobj' = -1
        /\ vpdirty' = TRUE
        /\ UNCHANGED <<lights, mtls, look, editor, gui>>
    BY <1>1 DEF RemoveObject, o
  <2>5. /\ objects' \in Seq(Objs)
        /\ IsInjective(objects')
        /\ ToSet(objects') = ToSet(objects) \ {o}
    BY <2>1, <2>2, <2>4, RemoveSwapElements, RemoveSwapSet DEF o
  <2>6. SceneTypeOK'
    <3>1. kind' \in [Objs -> Kinds \cup {"free"}] /\ omtl' \in [Objs -> Mtls \cup {DefMtl}]
      BY <1>0, <2>4 DEF SceneTypeOK
    <3>2. selobj' \in Int
      BY <2>4
    <3>3. vpdirty' \in BOOLEAN
      BY <2>4
    <3>4. UNCHANGED <<lights, mtls, look, curmtl, curmtlIdx, modal, mtlwin, textFocus, curTool>>
      BY <2>4 DEF editor, gui
    <3>. QED BY <1>0, <2>5, <3>1, <3>2, <3>3, <3>4 DEF SceneTypeOK
  <2>7. SelectionInRange'
    BY <2>4, <2>5, LenProperties DEF SelectionInRange, NumObj
  <2>8. ObjectsOwned'
    BY <1>0, <2>3, <2>4, <2>5 DEF ObjectsOwned, Allocated, SceneTypeOK
  <2>9. EditorTracksScene'
    BY <1>0, <2>4 DEF EditorTracksScene, NumMtl, editor
  <2>10. MaterialsLive'
    BY <1>0, <2>3, <2>4, <2>5 DEF MaterialsLive, Allocated, SceneTypeOK
  <2>11. LightsShine'
    BY <1>0, <2>3, <2>4, <2>5 DEF LightsShine, Allocated, SceneTypeOK
  <2>. QED
    BY <2>6, <2>7, <2>8, <2>9, <2>10, <2>11 DEF Inv
<1>2. CASE ~(selobj >= 0)
  <2>1. UNCHANGED <<scene, selobj, editor, gui, vpdirty>>
    BY <1>2 DEF RemoveObject, scene
  <2>. QED
    BY <1>0, <2>1, SceneUntouched DEF gui, SceneTypeOK
<1>. QED BY <1>1, <1>2

\* Adding: the new address was in no array, and it is the last of the new one.
LEMMA NewObjectInv ==
  ASSUME Inv, NEW o \in Objs \ Allocated, NEW k \in Kinds, NewObject(o, k),
         lights' \in Seq(Objs), ToSet(lights) \subseteq ToSet(lights'),
         k = "light" => o \in ToSet(lights'),
         UNCHANGED <<mtls, look, editor, mtlwin, textFocus, curTool>>
  PROVE  Inv'
<1>0. SceneTypeOK /\ SelectionInRange /\ ObjectsOwned /\ EditorTracksScene
      /\ MaterialsLive /\ LightsShine
  BY DEF Inv
<1>1. /\ objects' = Append(objects, o)
      /\ kind' = [kind EXCEPT ![o] = k]
      /\ omtl' = [omtl EXCEPT ![o] = DefMtl]
      /\ selobj' = Len(objects)
      /\ modal' = "none"
      /\ vpdirty' = TRUE
  BY DEF NewObject, NumObj
<1>2. /\ objects' \in Seq(Objs)
      /\ Len(objects') = Len(objects) + 1
      /\ ToSet(objects') = ToSet(objects) \cup {o}
      /\ IsInjective(objects')
  BY <1>0, <1>1, AppendSet DEF SceneTypeOK, ObjectsOwned, Allocated
<1>3. Len(objects) \in Nat
  BY <1>0, LenProperties DEF SceneTypeOK
<1>4. SceneTypeOK'
  <2>1. modal' \in Modals
    BY <1>1 DEF Modals
  <2>2. kind' \in [Objs -> Kinds \cup {"free"}] /\ omtl' \in [Objs -> Mtls \cup {DefMtl}]
    BY <1>0, <1>1 DEF SceneTypeOK
  <2>. QED BY <1>0, <1>1, <1>2, <1>3, <2>1, <2>2 DEF SceneTypeOK, editor
<1>5. SelectionInRange'
  BY <1>1, <1>2, <1>3 DEF SelectionInRange, NumObj
<1>6. ObjectsOwned'
  BY <1>0, <1>1, <1>2 DEF ObjectsOwned, Allocated, SceneTypeOK, Kinds
<1>7. EditorTracksScene'
  BY <1>0 DEF EditorTracksScene, NumMtl, editor
<1>8. MaterialsLive'
  BY <1>0, <1>1, <1>2 DEF MaterialsLive, Allocated, SceneTypeOK
<1>9. LightsShine'
  BY <1>0, <1>1, <1>2 DEF LightsShine, Allocated, SceneTypeOK
<1>. QED
  BY <1>4, <1>5, <1>6, <1>7, <1>8, <1>9 DEF Inv

LEMMA AddInv == ASSUME Inv, AddObject \/ AddLight PROVE Inv'
<1>0. lights \in Seq(Objs)
  BY DEF Inv, SceneTypeOK
<1>1. CASE AddObject
  <2>1. PICK o \in Objs \ Allocated : NewObject(o, "geom")
    BY <1>1 DEF AddObject
  <2>2. UNCHANGED <<lights, mtls, look, editor, mtlwin, textFocus, curTool>>
    BY <1>1 DEF AddObject
  <2>. QED BY <1>0, <2>1, <2>2, NewObjectInv DEF Kinds
<1>2. CASE AddLight
  <2>1. PICK o \in Objs \ Allocated :
          NewObject(o, "light") /\ lights' = Append(lights, o)
    BY <1>2 DEF AddLight
  <2>2. lights' \in Seq(Objs) /\ ToSet(lights') = ToSet(lights) \cup {o}
    BY <1>0, <2>1, AppendSet
  <2>3. UNCHANGED <<mtls, look, editor, mtlwin, textFocus, curTool>>
    BY <1>2 DEF AddLight
  <2>. QED BY <2>1, <2>2, <2>3, NewObjectInv DEF Kinds
<1>. QED BY <1>1, <1>2

LEMMA PickInv == ASSUME Inv, Pick PROVE Inv'
<1>0. SceneTypeOK /\ SelectionInRange /\ ObjectsOwned /\ EditorTracksScene
      /\ MaterialsLive /\ LightsShine
  BY DEF Inv
<1>1. Len(objects) \in Nat
  BY <1>0, LenProperties DEF SceneTypeOK
<1>2. /\ selobj' \in -1 .. Len(objects) - 1
      /\ vpdirty' \in BOOLEAN
      /\ UNCHANGED <<scene, editor, gui>>
  <2>1. selobj \in -1 .. Len(objects) - 1
    BY <1>0 DEF SelectionInRange, NumObj
  <2>2. PICK newsel \in -1 .. Len(objects) - 1 :
          IF curTool = "dbg"
            THEN /\ vpdirty' = TRUE
                 /\ UNCHANGED selobj
            ELSE /\ selobj' = newsel
                 /\ vpdirty' = (vpdirty \/ newsel # selobj)
    BY DEF Pick, NumObj
  <2>3. selobj' \in -1 .. Len(objects) - 1
    BY <2>1, <2>2
  <2>4. vpdirty' \in BOOLEAN
    BY <2>2
  <2>. QED BY <2>3, <2>4 DEF Pick
<1>3. SceneTypeOK'
  <2>1. selobj' \in Int
    BY <1>1, <1>2
  <2>. QED BY <1>0, <1>2, <2>1 DEF SceneTypeOK, scene, editor, gui
<1>4. SelectionInRange'
  BY <1>2 DEF SelectionInRange, NumObj, scene
<1>5. ObjectsOwned' /\ MaterialsLive' /\ LightsShine'
  BY <1>0, <1>2 DEF ObjectsOwned, MaterialsLive, LightsShine, Allocated, scene
<1>6. EditorTracksScene'
  BY <1>0, <1>2 DEF EditorTracksScene, NumMtl, scene, editor
<1>. QED
  BY <1>3, <1>4, <1>5, <1>6 DEF Inv

\* The editor: what it shows after a step is an element of the array.
LEMMA BrowseInv ==
  ASSUME Inv, MtlPrev \/ MtlNext
  PROVE  Inv'
<1>0. SceneTypeOK /\ SelectionInRange /\ ObjectsOwned /\ EditorTracksScene
      /\ MaterialsLive /\ LightsShine
  BY DEF Inv
<1>1. Len(mtls) \in Nat /\ curmtlIdx \in Int
  BY <1>0, LenProperties DEF SceneTypeOK
<1>2. PICK midx \in Int : SelectMaterial(midx, mtls)
  <2>1. ASSUME NEW x \in Int, Len(mtls) > 0
        PROVE  CRem(x, Len(mtls)) \in Int
    BY <1>1, <2>1 DEF CRem
  <2>2. CASE MtlPrev
    BY <1>1, <2>1, <2>2 DEF MtlPrev, NumMtl
  <2>3. CASE MtlNext
    BY <1>1, <2>1, <2>3 DEF MtlNext, NumMtl
  <2>. QED BY <2>2, <2>3
<1>3. UNCHANGED <<scene, selobj, gui, vpdirty>>
  BY DEF MtlPrev, MtlNext
<1>4. /\ curmtl' \in Mtls \cup {Nil}
      /\ curmtlIdx' \in Int
      /\ curmtl' = Nil <=> curmtlIdx' = -1
      /\ curmtl' # Nil => /\ curmtlIdx' \in 0 .. Len(mtls) - 1
                          /\ mtls[curmtlIdx' + 1] = curmtl'
  BY <1>0, <1>2, SelectMaterialTracks DEF SceneTypeOK
<1>5. SceneTypeOK'
  BY <1>0, <1>3, <1>4 DEF SceneTypeOK, scene, gui
<1>6. SelectionInRange' /\ ObjectsOwned' /\ MaterialsLive' /\ LightsShine'
  BY <1>0, <1>3
    DEF SelectionInRange, NumObj, ObjectsOwned, MaterialsLive, LightsShine, Allocated, scene
<1>7. EditorTracksScene'
  BY <1>0, <1>3, <1>4 DEF EditorTracksScene, NumMtl, scene
<1>. QED
  BY <1>5, <1>6, <1>7 DEF Inv

LEMMA MtlAddInv == ASSUME Inv, MtlAdd PROVE Inv'
<1>0. SceneTypeOK /\ SelectionInRange /\ ObjectsOwned /\ EditorTracksScene
      /\ MaterialsLive /\ LightsShine
  BY DEF Inv
<1>1. PICK m \in Mtls \ ToSet(mtls), source \in {Nil, curmtl} :
        /\ mtls' = Append(mtls, m)
        /\ look' = [look EXCEPT ![m] = IF source = Nil THEN DefLook ELSE look[source]]
        /\ SelectMaterial(Len(mtls), Append(mtls, m))
  BY DEF MtlAdd, NumMtl
<1>9. look' \in [Mtls -> Looks]
  <2>1. source = Nil \/ source \in Mtls
    BY <1>0 DEF SceneTypeOK
  <2>. QED BY <1>0, <1>1, <2>1, DefLookType DEF SceneTypeOK
<1>2. UNCHANGED <<objects, lights, kind, omtl, selobj, gui, vpdirty>>
  BY DEF MtlAdd
<1>3. /\ mtls' \in Seq(Mtls)
      /\ ToSet(mtls') = ToSet(mtls) \cup {m}
      /\ IsInjective(mtls')
      /\ Len(mtls) \in Int
  BY <1>0, <1>1, AppendSet, LenProperties DEF SceneTypeOK, EditorTracksScene
<1>4. /\ curmtl' \in Mtls \cup {Nil}
      /\ curmtlIdx' \in Int
      /\ curmtl' = Nil <=> curmtlIdx' = -1
      /\ curmtl' # Nil => /\ curmtlIdx' \in 0 .. Len(mtls') - 1
                          /\ mtls'[curmtlIdx' + 1] = curmtl'
  BY <1>1, <1>3, SelectMaterialTracks
<1>5. SceneTypeOK'
  BY <1>0, <1>2, <1>3, <1>4, <1>9 DEF SceneTypeOK, gui
<1>6. SelectionInRange' /\ ObjectsOwned' /\ LightsShine'
  BY <1>0, <1>2
    DEF SelectionInRange, NumObj, ObjectsOwned, LightsShine, Allocated
<1>7. EditorTracksScene'
  BY <1>3, <1>4 DEF EditorTracksScene, NumMtl
<1>8. MaterialsLive'
  BY <1>0, <1>2, <1>3 DEF MaterialsLive, Allocated
<1>. QED
  BY <1>5, <1>6, <1>7, <1>8 DEF Inv

\* Assigning: the pointer of the editor is an element of the array, so the
\* object's material is live.
LEMMA MtlAssignInv == ASSUME Inv, MtlAssign PROVE Inv'
<1>0. SceneTypeOK /\ SelectionInRange /\ ObjectsOwned /\ EditorTracksScene
      /\ MaterialsLive /\ LightsShine
  BY DEF Inv
<1> DEFINE o == objects[selobj + 1]
<1>1. /\ curmtl # Nil
      /\ selobj >= 0
      /\ omtl' = [omtl EXCEPT ![o] = curmtl]
      /\ vpdirty' = TRUE
      /\ UNCHANGED <<objects, lights, mtls, kind, look, selobj, editor, gui>>
  BY DEF MtlAssign
<1>2. curmtl \in ToSet(mtls) /\ curmtl \in Mtls
  <2>1. curmtlIdx + 1 \in 1 .. Len(mtls) /\ mtls[curmtlIdx + 1] = curmtl
    BY <1>0, <1>1, LenProperties DEF EditorTracksScene, NumMtl, SceneTypeOK
  <2>2. curmtl \in ToSet(mtls)
    BY <2>1, <1>0, ElementInSet DEF SceneTypeOK
  <2>. QED BY <1>0, <1>1, <2>2 DEF SceneTypeOK
<1>3. o \in Objs
  <2>1. selobj + 1 \in 1 .. Len(objects)
    BY <1>0, <1>1, LenProperties DEF SelectionInRange, NumObj, SceneTypeOK
  <2>. QED BY <1>0, <2>1, ElementOfSeq DEF SceneTypeOK
<1> HIDE DEF o
<1>4. SceneTypeOK'
  <2>1. omtl' \in [Objs -> Mtls \cup {DefMtl}]
    BY <1>0, <1>1, <1>2 DEF SceneTypeOK
  <2>2. vpdirty' \in BOOLEAN
    BY <1>1
  <2>. QED BY <1>0, <1>1, <2>1, <2>2 DEF SceneTypeOK, editor, gui
<1>5. SelectionInRange' /\ ObjectsOwned' /\ LightsShine' /\ EditorTracksScene'
  BY <1>0, <1>1
    DEF SelectionInRange, NumObj, NumMtl, ObjectsOwned, LightsShine,
        EditorTracksScene, Allocated, editor
<1>6. MaterialsLive'
  BY <1>0, <1>1, <1>2, <1>3 DEF MaterialsLive, Allocated, SceneTypeOK
<1>. QED
  BY <1>4, <1>5, <1>6 DEF Inv

\* The colour dialog and the shininess slider change only what a material
\* looks like.
LEMMA LookInv == ASSUME Inv, ColorOk \/ SlideShininess PROVE Inv'
<1> USE DEF Inv
<1>1. /\ UNCHANGED <<objects, lights, mtls, kind, omtl, selobj, editor,
                     mtlwin, textFocus, curTool>>
      /\ modal' \in Modals
      /\ vpdirty' \in BOOLEAN
  BY DEF ColorOk, SlideShininess, gui, Modals, SceneTypeOK
<1>2. look' \in [Mtls -> Looks]
  <2>1. look \in [Mtls -> Looks]
    BY DEF SceneTypeOK
  <2>2. CASE ColorOk
    <3>1. PICK c \in Colors : look' = [look EXCEPT ![curmtl].color = c]
      BY <2>2 DEF ColorOk
    <3>. QED BY <2>1, <3>1 DEF Looks
  <2>3. CASE SlideShininess
    <3>1. PICK s \in Shins : look' = [look EXCEPT ![curmtl].shin = s]
      BY <2>3 DEF SlideShininess
    <3>. QED BY <2>1, <3>1 DEF Looks
  <2>. QED BY <2>2, <2>3
<1>3. SceneTypeOK'
  BY <1>1, <1>2 DEF SceneTypeOK, editor
<1>4. SelectionInRange' /\ ObjectsOwned' /\ MaterialsLive' /\ LightsShine'
  BY <1>1 DEF SelectionInRange, NumObj, ObjectsOwned, MaterialsLive, LightsShine,
              Allocated
<1>5. EditorTracksScene'
  BY <1>1 DEF EditorTracksScene, NumMtl, editor
<1>. QED
  BY <1>3, <1>4, <1>5

-----------------------------------------------------------------------------
(* The theorems.                                                           *)

LEMMA NextInv == Inv /\ [Next]_vars => Inv'
<1> SUFFICES ASSUME Inv, [Next]_vars PROVE Inv'
  OBVIOUS
<1>1. CASE NewScene \/ OpenScene
  BY <1>1, NewOpenInv
<1>2. CASE RemoveObject
  BY <1>2, RemoveInv
<1>3. CASE \E m \in {"objmenu", "other"} : OpenMenu(m)
  BY <1>3, GuiInv
<1>4. CASE CloseMenu
  BY <1>4, GuiInv
<1>5. CASE AddObject \/ AddLight
  BY <1>5, AddInv
<1>6. CASE \E t \in Tools : ChooseTool(t)
  BY <1>6, GuiInv
<1>7. CASE \/ EscapeKey \/ ToggleMtlWin \/ Manipulate \/ ChangeView
           \/ Display \/ FocusName \/ OpenColor
  BY <1>7, GuiInv
<1>8. CASE Pick
  BY <1>8, PickInv
<1>9. CASE MtlPrev \/ MtlNext
  BY <1>9, BrowseInv
<1>10. CASE MtlAdd
  BY <1>10, MtlAddInv
<1>11. CASE MtlAssign
  BY <1>11, MtlAssignInv
<1>12. CASE UNCHANGED vars
  BY <1>12, SceneUntouched DEF vars, gui, Inv, SceneTypeOK
<1>13. CASE ColorOk \/ SlideShininess
  BY <1>13, LookInv
<1>. QED
  BY <1>1, <1>2, <1>3, <1>4, <1>5, <1>6, <1>7, <1>8, <1>9, <1>10, <1>11, <1>12, <1>13
  DEF Next

\* The invariant holds in every state the program reaches.
THEOREM InvHolds == Spec => []Inv
<1>1. Init => Inv
  BY InitInv
<1>2. Inv /\ [Next]_vars => Inv'
  BY NextInv
<1>. QED
  BY <1>1, <1>2, PTL DEF Spec

\* Matrices are out of date only while they are flagged, and flagged only
\* while the viewport is marked for redraw.
XformInv ==
  /\ flagged \in SUBSET Objs
  /\ outdated \subseteq flagged
  /\ ~vpdirty => flagged = {}

LEMMA XformInit == Init => XformInv
<1> SUFFICES ASSUME Init PROVE XformInv
  OBVIOUS
<1>1. Allocated \subseteq Objs
  BY FileScene, ElementInSet DEF Init, Allocated
<1>. QED
  BY <1>1 DEF Init, XformInv

LEMMA XformNext == Inv /\ Inv' /\ XformInv /\ [Next]_vars => XformInv'
<1> SUFFICES ASSUME Inv, Inv', XformInv, [Next]_vars PROVE XformInv'
  OBVIOUS
<1>0. /\ vpdirty \in BOOLEAN
      /\ objects' \in Seq(Objs)
  BY DEF Inv, SceneTypeOK
<1>1. CASE NewScene
  BY <1>1 DEF NewScene, XformInv
<1>2. CASE OpenScene
  <2>1. ToSet(objects') \subseteq Objs
    BY <1>0, ElementInSet
  <2>. QED BY <1>2, <2>1 DEF OpenScene, CancelOp, XformInv
<1>3. CASE RemoveObject
  BY <1>3 DEF RemoveObject, XformInv, xforms
<1>4. CASE AddObject
  BY <1>4 DEF AddObject, NewObject, XformInv, xforms
<1>5. CASE AddLight
  <2>1. PICK o \in Objs \ Allocated :
          /\ NewObject(o, "light")
          /\ flagged' = flagged \cup {o}
          /\ outdated' = outdated \cup {o}
    BY <1>5 DEF AddLight
  <2>. QED BY <2>1 DEF NewObject, XformInv
<1>6. CASE Manipulate
  <2>1. objects[selobj + 1] \in Objs
    <3>1. selobj + 1 \in 1 .. Len(objects)
      BY <1>6, LenProperties
        DEF Manipulate, Inv, SceneTypeOK, SelectionInRange, NumObj
    <3>. QED BY <3>1, ElementOfSeq DEF Inv, SceneTypeOK
  <2>. QED BY <1>6, <2>1 DEF Manipulate, XformInv
<1>7. CASE Display
  BY <1>7 DEF Display, XformInv
<1>8. CASE \/ \E m \in {"objmenu", "other"} : OpenMenu(m)
           \/ \E t \in Tools : ChooseTool(t)
           \/ CloseMenu \/ EscapeKey \/ ToggleMtlWin \/ Pick \/ ChangeView
           \/ MtlPrev \/ MtlNext \/ MtlAdd \/ MtlAssign \/ FocusName
           \/ OpenColor \/ ColorOk \/ SlideShininess
           \/ UNCHANGED vars
  <2>1. UNCHANGED xforms
    BY <1>8
      DEF OpenMenu, ChooseTool, CloseMenu, EscapeKey, ToggleMtlWin, Pick,
          ChangeView, MtlPrev, MtlNext, MtlAdd, MtlAssign, FocusName,
          OpenColor, ColorOk, SlideShininess, vars
  <2>2. vpdirty => vpdirty'
    BY <1>8
      DEF OpenMenu, ChooseTool, CloseMenu, EscapeKey, CancelOp, ToggleMtlWin,
          Pick, ChangeView, MtlPrev, MtlNext, MtlAdd, MtlAssign, FocusName,
          OpenColor, ColorOk, SlideShininess, vars
  <2>. QED BY <2>1, <2>2 DEF XformInv, xforms
<1>. QED
  BY <1>1, <1>2, <1>3, <1>4, <1>5, <1>6, <1>7, <1>8 DEF Next

LEMMA XformInvHolds == Spec => []XformInv
<1>. QED
  BY XformInit, XformNext, InvHolds, PTL DEF Spec

\* Type correctness of the scene, the selection, the editor, the windows and
\* the flags of the objects.
THEOREM TypeCorrect == Spec => []TypeOK
<1>1. Inv /\ XformInv => TypeOK
  BY DEF Inv, XformInv, TypeOK
<1>. QED
  BY <1>1, InvHolds, XformInvHolds, PTL

\* A pass is traced, and the viewport shown as current, only with the matrices
\* of the pose each object has.
THEOREM MatricesAreFresh == Spec => []MatricesFresh
<1>1. XformInv => MatricesFresh
  BY DEF XformInv, MatricesFresh
<1>. QED
  BY <1>1, XformInvHolds, PTL

\* The index kept as selection never leaves the array of objects.
THEOREM SelectionStaysInRange == Spec => []SelectionInRange
<1>1. Inv => SelectionInRange
  BY DEF Inv
<1>. QED
  BY <1>1, InvHolds, PTL

\* The array of objects owns each of its elements once, and no freed one.
THEOREM ObjectsAreOwned == Spec => []ObjectsOwned
<1>1. Inv => ObjectsOwned
  BY DEF Inv
<1>. QED
  BY <1>1, InvHolds, PTL

\* The material editor's index and pointer always mean the same material.
THEOREM EditorAlwaysTracksScene == Spec => []EditorTracksScene
<1>1. Inv => EditorTracksScene
  BY DEF Inv
<1>. QED
  BY <1>1, InvHolds, PTL

\* No object of the scene has a material that was freed.
THEOREM MaterialsStayLive == Spec => []MaterialsLive
<1>1. Inv => MaterialsLive
  BY DEF Inv
<1>. QED
  BY <1>1, InvHolds, PTL

\* The renderer knows every light of the scene.
THEOREM LightsAlwaysShine == Spec => []LightsShine
<1>1. Inv => LightsShine
  BY DEF Inv
<1>. QED
  BY <1>1, InvHolds, PTL

\* A step that leaves the arrangement and the looks alone draws the same picture.
LEMMA SamePicture ==
  ASSUME UNCHANGED Arrangement, UNCHANGED look PROVE Picture' = Picture
BY DEF Picture, LookOf, Arrangement, Allocated

\* A step that changes what the viewport draws marks the viewport, unless it
\* only moves the shininess slider.
THEOREM PictureAlwaysRedrawn == Spec => PictureIsRedrawn
<1>1. ASSUME Inv, [Next]_vars, Picture' # Picture
      PROVE  vpdirty' \/ ShininessSlid
  <2>1. CASE NewScene
    BY <2>1 DEF NewScene, CancelOp
  <2>2. CASE OpenScene
    BY <2>2 DEF OpenScene, CancelOp
  <2>3. CASE RemoveObject
    <3>1. selobj >= 0
      BY <1>1, <2>3, SamePicture DEF RemoveObject, Arrangement
    <3>. QED BY <2>3, <3>1 DEF RemoveObject
  <2>4. CASE AddObject \/ AddLight
    BY <2>4 DEF AddObject, AddLight, NewObject
  <2>5. CASE Pick
    <3>1. selobj' # selobj
      BY <1>1, <2>5, SamePicture DEF Pick, Arrangement, scene
    <3>2. PICK newsel \in -1 .. NumObj - 1 :
            /\ selobj' = newsel
            /\ vpdirty' = (vpdirty \/ newsel # selobj)
      BY <2>5, <3>1 DEF Pick
    <3>. QED BY <3>1, <3>2
  <2>6. CASE MtlAssign \/ ColorOk
    BY <2>6 DEF MtlAssign, ColorOk
  <2>7. CASE Manipulate \/ ChangeView \/ CloseMenu
    BY <2>7 DEF Manipulate, ChangeView, CloseMenu
  <2>8. CASE \/ \E m \in {"objmenu", "other"} : OpenMenu(m)
             \/ \E t \in Tools : ChooseTool(t)
             \/ EscapeKey \/ ToggleMtlWin \/ Display \/ OpenColor
             \/ MtlPrev \/ MtlNext \/ FocusName \/ UNCHANGED vars
    <3>1. UNCHANGED Arrangement /\ UNCHANGED look
      BY <2>8
        DEF OpenMenu, ChooseTool, EscapeKey, ToggleMtlWin, Display, MtlPrev,
            MtlNext, FocusName, OpenColor, vars, scene, Arrangement
    <3>. QED BY <1>1, <3>1, SamePicture
  <2>9. CASE MtlAdd
    \* The new address is no object's material: those are live.
    <3>1. PICK m \in Mtls \ ToSet(mtls), l \in {DefLook} \cup {look[curmtl]} :
            look' = [look EXCEPT ![m] = l]
      BY <2>9 DEF MtlAdd
    <3>2. UNCHANGED <<objects, kind, omtl, selobj>>
      BY <2>9 DEF MtlAdd
    <3>3. \A o \in Allocated : LookOf(o)' = LookOf(o)
      <4> TAKE o \in Allocated
      <4>1. omtl[o] \in ToSet(mtls) \cup {DefMtl}
        BY <1>1 DEF Inv, MaterialsLive
      <4>2. ToSet(mtls) \subseteq Mtls /\ look \in [Mtls -> Looks]
        BY <1>1, ElementInSet DEF Inv, SceneTypeOK
      <4>. QED BY <3>1, <3>2, <4>1, <4>2 DEF LookOf
    <3>4. Picture' = Picture
      BY <3>2, <3>3 DEF Picture, Arrangement, Allocated
    <3>. QED BY <1>1, <3>4
  <2>10. CASE SlideShininess
    BY <2>10 DEF SlideShininess, ShininessSlid, Arrangement
  <2>. QED
    BY <1>1, <2>1, <2>2, <2>3, <2>4, <2>5, <2>6, <2>7, <2>8, <2>9, <2>10 DEF Next
<1>2. Inv /\ [Next]_vars => [Picture' # Picture => vpdirty' \/ ShininessSlid]_vars
  BY <1>1
<1>. QED
  BY <1>2, InvHolds, PTL DEF Spec, PictureIsRedrawn

-----------------------------------------------------------------------------
(* The arrays and indices implement the scene of sets.                     *)

MtlOf == [o \in Allocated |-> omtl[o]]

\* The mapped selection is an object of the scene, or nothing.
LEMMA SelectedType ==
  ASSUME Inv
  PROVE  /\ selobj = -1 <=> Selected = Nil
         /\ selobj # -1 => /\ selobj + 1 \in 1 .. Len(objects)
                           /\ Selected = objects[selobj + 1]
                           /\ Selected \in Allocated
                           /\ Selected \in Objs
<1>1. objects \in Seq(Objs) /\ Len(objects) \in Nat
  BY LenProperties DEF Inv, SceneTypeOK
<1>2. CASE selobj = -1
  BY <1>2 DEF Selected
<1>3. CASE selobj # -1
  <2>1. selobj + 1 \in 1 .. Len(objects)
    BY <1>1, <1>3 DEF Inv, SelectionInRange, NumObj
  <2>2. /\ objects[selobj + 1] \in ToSet(objects)
        /\ objects[selobj + 1] \in Objs
    BY <1>1, <2>1, ElementInSet, ElementOfSeq
  <2>3. Selected = objects[selobj + 1]
    BY <1>3 DEF Selected
  <2>. QED BY <1>3, <2>1, <2>2, <2>3, ModellerAssumption DEF Allocated
<1>. QED BY <1>2, <1>3

\* The same for the next state, which satisfies the invariant too.
LEMMA SelectedTypeNext ==
  ASSUME Inv'
  PROVE  (Selected \in Allocated \cup {Nil})'
<1>1. objects' \in Seq(Objs) /\ Len(objects') \in Nat
  BY LenProperties DEF Inv, SceneTypeOK
<1>2. CASE selobj' = -1
  BY <1>2 DEF Selected
<1>3. CASE selobj' # -1
  <2>1. selobj' + 1 \in 1 .. Len(objects')
    <3>1. selobj' \in -1 .. Len(objects') - 1
      BY DEF Inv, SelectionInRange, NumObj
    <3>2. ASSUME NEW n \in Nat, NEW i \in -1 .. n - 1, i # -1
          PROVE  i + 1 \in 1 .. n
      BY <3>2
    <3>. QED BY <1>1, <1>3, <3>1, <3>2
  <2>2. objects'[selobj' + 1] \in ToSet(objects')
    BY <1>1, <2>1, ElementInSet
  <2>. QED BY <1>3, <2>2 DEF Selected, Allocated
<1>. QED BY <1>2, <1>3

LEMMA InitImplements == Init => Abs!SInit
<1> SUFFICES ASSUME Init PROVE Abs!SInit
  OBVIOUS
<1>1. Inv
  BY InitInv
<1>2. Allocated \subseteq Objs /\ ToSet(mtls) \subseteq Mtls
  BY <1>1, ElementInSet DEF Inv, SceneTypeOK, Allocated
<1>3. MtlOf \in [Allocated -> ToSet(mtls) \cup {DefMtl}]
  BY <1>1 DEF Inv, MaterialsLive, MtlOf
<1>4. Selected = Nil /\ curmtl = Nil
  BY DEF Init, Selected
<1>. QED
  BY <1>2, <1>3, <1>4 DEF Abs!SInit, MtlOf

LEMMA ReplaceImplements ==
  ASSUME Inv', NewScene \/ OpenScene PROVE Abs!Replace
<1>1. (Allocated \subseteq Objs /\ ToSet(mtls) \subseteq Mtls)'
  BY ElementInSet DEF Inv, SceneTypeOK, Allocated
<1>2. (MtlOf \in [Allocated -> ToSet(mtls) \cup {DefMtl}])'
  BY DEF Inv, MaterialsLive, MtlOf
<1>3. selobj' = -1 /\ curmtl' = Nil
  BY DEF NewScene, OpenScene, SelectMaterial
<1>. QED
  BY <1>1, <1>2, <1>3 DEF Abs!Replace, MtlOf, Selected

LEMMA RemoveImplements ==
  ASSUME Inv, RemoveObject PROVE Abs!Remove \/ UNCHANGED Abs!svars
<1>1. CASE selobj >= 0
  <2>1. selobj \in 0 .. Len(objects) - 1 /\ selobj # -1
    BY <1>1, LenProperties DEF Inv, SelectionInRange, NumObj, SceneTypeOK
  <2>2. objects \in Seq(Objs) /\ IsInjective(objects)
    BY DEF Inv, SceneTypeOK, ObjectsOwned
  <2>3. /\ Selected = objects[selobj + 1]
        /\ Selected \in Objs
        /\ Selected # Nil
    BY <2>1, SelectedType
  <2>4. /\ objects' = RemoveSwap(objects, selobj)
        /\ omtl' = [omtl EXCEPT ![Selected] = DefMtl]
        /\ selobj' = -1
        /\ UNCHANGED <<mtls, curmtl>>
    BY <1>1, <2>3 DEF RemoveObject, editor
  <2>5. Allocated' = Allocated \ {Selected}
    BY <2>1, <2>2, <2>3, <2>4, RemoveSwapSet DEF Allocated
  <2>6. MtlOf' = [p \in Allocated \ {Selected} |-> MtlOf[p]]
    <3>1. \A p \in Allocated \ {Selected} : omtl'[p] = omtl[p] /\ MtlOf[p] = omtl[p]
      BY <2>2, <2>4, ElementInSet DEF Allocated, MtlOf, Inv, SceneTypeOK
    <3>. QED BY <2>5, <3>1 DEF MtlOf
  <2>7. Selected' = Nil
    BY <2>4 DEF Selected
  <2>. QED BY <2>3, <2>4, <2>5, <2>6, <2>7 DEF Abs!Remove, MtlOf
<1>2. CASE ~(selobj >= 0)
  <2>1. UNCHANGED <<objects, mtls, omtl, selobj, curmtl>>
    BY <1>2 DEF RemoveObject, editor
  <2>. QED BY <2>1 DEF Abs!svars, Allocated, Selected
<1>. QED BY <1>1, <1>2

LEMMA AddImplements ==
  ASSUME Inv, AddObject \/ AddLight PROVE Abs!Add
<1>1. PICK o \in Objs \ Allocated, k \in Kinds : NewObject(o, k)
  BY DEF AddObject, AddLight, Kinds
<1>2. UNCHANGED <<mtls, curmtl>>
  BY DEF AddObject, AddLight, editor
<1>3. objects \in Seq(Objs) /\ Len(objects) \in Nat
  BY LenProperties DEF Inv, SceneTypeOK
<1>4. /\ Allocated' = Allocated \cup {o}
      /\ objects'[Len(objects) + 1] = o
  BY <1>1, <1>3, AppendSet DEF NewObject, Allocated
<1>5. MtlOf' = [p \in Allocated \cup {o} |-> IF p = o THEN DefMtl ELSE MtlOf[p]]
  <2>1. omtl' = [omtl EXCEPT ![o] = DefMtl]
    BY <1>1 DEF NewObject
  <2>2. \A p \in Allocated \cup {o} :
          omtl'[p] = IF p = o THEN DefMtl ELSE MtlOf[p]
    BY <1>3, <2>1, ElementInSet DEF Allocated, MtlOf, Inv, SceneTypeOK
  <2>. QED BY <1>4, <2>2 DEF MtlOf
<1>6. Selected' = o
  <2>1. selobj' = Len(objects)
    BY <1>1 DEF NewObject, NumObj
  <2>. QED BY <1>3, <1>4, <2>1 DEF Selected
<1>. QED
  BY <1>2, <1>4, <1>5, <1>6 DEF Abs!Add, MtlOf

LEMMA BrowseImplements ==
  ASSUME Inv, MtlPrev \/ MtlNext PROVE Abs!Browse
<1>1. Len(mtls) \in Nat /\ Len(mtls) > 0 /\ mtls \in Seq(Mtls)
  BY LenProperties DEF Inv, SceneTypeOK, MtlPrev, MtlNext, NumMtl
<1>2. curmtlIdx \in -1 .. Len(mtls) - 1
  BY <1>1 DEF Inv, EditorTracksScene, NumMtl, SceneTypeOK
<1>3. PICK midx \in 0 .. Len(mtls) - 1 : SelectMaterial(midx, mtls)
  <2>1. ASSUME NEW n \in Nat, n > 0, NEW x \in Int, x >= 0 \/ n = 1
        PROVE  CRem(x, n) \in 0 .. n - 1
    <3>1. CASE x >= 0
      BY <2>1, <3>1 DEF CRem
    <3>2. CASE x < 0
      <4>1. (-x) % 1 = 0 /\ n = 1 /\ CRem(x, n) = -((-x) % 1)
        BY <2>1, <3>2 DEF CRem
      <4>. QED BY <4>1
    <3>. QED BY <3>1, <3>2
  <2>2. CASE MtlPrev
    <3> DEFINE x == curmtlIdx + Len(mtls) - 1
    <3>1. x \in Int /\ (x >= 0 \/ Len(mtls) = 1)
      <4>1. ASSUME NEW n \in Nat, n > 0, NEW i \in -1 .. n - 1
            PROVE  i + n - 1 \in Int /\ (i + n - 1 >= 0 \/ n = 1)
        <5>1. CASE n = 1
          BY <4>1, <5>1
        <5>2. CASE n # 1
          BY <4>1, <5>2
        <5>. QED BY <5>1, <5>2
      <4>. QED BY <1>1, <1>2, <4>1
    <3>2. SelectMaterial(CRem(x, Len(mtls)), mtls)
      BY <2>2 DEF MtlPrev, NumMtl
    <3>. QED BY <1>1, <2>1, <3>1, <3>2
  <2>3. CASE MtlNext
    <3> DEFINE x == curmtlIdx + 1
    <3>1. x \in Int /\ x >= 0
      BY <1>1, <1>2
    <3>2. SelectMaterial(CRem(x, Len(mtls)), mtls)
      BY <2>3 DEF MtlNext, NumMtl
    <3>. QED BY <1>1, <2>1, <3>1, <3>2
  <2>. QED BY <2>2, <2>3
<1>4. curmtl' \in ToSet(mtls)
  <2>1. curmtl' = mtls[midx + 1]
    BY <1>1, <1>3 DEF SelectMaterial
  <2>2. midx + 1 \in 1 .. Len(mtls)
    BY <1>1
  <2>. QED BY <1>1, <2>1, <2>2, ElementInSet
<1>5. UNCHANGED <<objects, mtls, omtl, selobj>>
  BY DEF MtlPrev, MtlNext, scene
<1>. QED
  BY <1>4, <1>5 DEF Abs!Browse, Allocated, Selected

LEMMA MtlAddImplements == ASSUME Inv, MtlAdd PROVE Abs!AddMtl
<1>1. PICK m \in Mtls \ ToSet(mtls) :
        mtls' = Append(mtls, m) /\ SelectMaterial(Len(mtls), Append(mtls, m))
  BY DEF MtlAdd, NumMtl
<1>2. mtls \in Seq(Mtls) /\ Len(mtls) \in Nat
  BY LenProperties DEF Inv, SceneTypeOK
<1>3. /\ ToSet(mtls') = ToSet(mtls) \cup {m}
      /\ Len(Append(mtls, m)) = Len(mtls) + 1
      /\ Append(mtls, m)[Len(mtls) + 1] = m
  BY <1>1, <1>2, AppendSet
<1>4. curmtl' = m
  BY <1>1, <1>2, <1>3 DEF SelectMaterial
<1>5. UNCHANGED <<objects, omtl, selobj>>
  BY DEF MtlAdd
<1>. QED
  BY <1>3, <1>4, <1>5 DEF Abs!AddMtl, Allocated, Selected

LEMMA AssignImplements == ASSUME Inv, MtlAssign PROVE Abs!Assign
<1>1. selobj # -1
  BY DEF MtlAssign
<1>2. /\ Selected = objects[selobj + 1]
      /\ Selected \in Allocated
      /\ Selected # Nil
  BY <1>1, SelectedType
<1>3. /\ curmtl # Nil
      /\ omtl' = [omtl EXCEPT ![Selected] = curmtl]
      /\ UNCHANGED <<objects, mtls, selobj, curmtl>>
  BY <1>2 DEF MtlAssign, editor
<1>4. MtlOf' = [MtlOf EXCEPT ![Selected] = curmtl]
  <2>1. Allocated' = Allocated /\ Allocated \subseteq Objs
    BY <1>3, ElementInSet DEF Allocated, Inv, SceneTypeOK
  <2>2. \A p \in Allocated : omtl'[p] = IF p = Selected THEN curmtl ELSE omtl[p]
    BY <1>3, <2>1 DEF Inv, SceneTypeOK
  <2>. QED BY <1>2, <2>1, <2>2 DEF MtlOf
<1>. QED
  BY <1>2, <1>3, <1>4 DEF Abs!Assign, Allocated, Selected, MtlOf

\* Every step of the program is a step of the abstract scene, or none.
LEMMA StepImplements ==
  ASSUME Inv, Inv', [Next]_vars
  PROVE  [Abs!SNext]_(Abs!svars)
<1>1. CASE NewScene \/ OpenScene
  BY <1>1, ReplaceImplements DEF Abs!SNext
<1>2. CASE RemoveObject
  BY <1>2, RemoveImplements DEF Abs!SNext
<1>3. CASE AddObject \/ AddLight
  BY <1>3, AddImplements DEF Abs!SNext
<1>4. CASE Pick
  <2>1. UNCHANGED <<objects, mtls, omtl, curmtl>>
    BY <1>4 DEF Pick, scene, editor
  <2>2. Allocated' = Allocated
    BY <2>1 DEF Allocated
  <2>3. Selected' \in Allocated \cup {Nil}
    BY <2>2, SelectedTypeNext
  <2>4. Abs!Select
    BY <2>1, <2>2, <2>3 DEF Abs!Select
  <2>. QED BY <2>4 DEF Abs!SNext
<1>5. CASE MtlPrev \/ MtlNext
  BY <1>5, BrowseImplements DEF Abs!SNext
<1>6. CASE MtlAdd
  BY <1>6, MtlAddImplements DEF Abs!SNext
<1>7. CASE MtlAssign
  BY <1>7, AssignImplements DEF Abs!SNext
<1>8. CASE \/ \E m \in {"objmenu", "other"} : OpenMenu(m)
           \/ \E t \in Tools : ChooseTool(t)
           \/ CloseMenu \/ EscapeKey \/ ToggleMtlWin
           \/ Manipulate \/ ChangeView \/ Display \/ FocusName \/ OpenColor
           \/ ColorOk \/ SlideShininess \/ UNCHANGED vars
  <2>1. UNCHANGED <<objects, mtls, omtl, selobj, curmtl>>
    BY <1>8
      DEF OpenMenu, ChooseTool, CloseMenu, EscapeKey, ToggleMtlWin, Manipulate,
          ChangeView, Display, FocusName, OpenColor, ColorOk, SlideShininess,
          vars, scene, editor
  <2>. QED BY <2>1 DEF Abs!svars, Allocated, Selected
<1>. QED
  BY <1>1, <1>2, <1>3, <1>4, <1>5, <1>6, <1>7, <1>8 DEF Next

\* The modeller implements the scene of sets: whatever the arrays do, adding,
\* deleting, picking, browsing and assigning mean what SceneSet says.
THEOREM ModellerImplementsSceneSet == Spec => ImplementsSceneSet
<1>1. Init => Abs!SInit
  BY InitImplements
<1>2. Inv /\ Inv' /\ [Next]_vars => [Abs!SNext]_(Abs!svars)
  BY StepImplements
<1>. QED
  BY <1>1, <1>2, InvHolds, PTL DEF Spec, ImplementsSceneSet, Abs!SSpec
=============================================================================
