---------------------------- MODULE WidgetProofs ----------------------------
(***************************************************************************)
(* Proofs about the toolbar, for any tools, either front end and any       *)
(* number of keys that wait in the ring.  The buttons and the icon are     *)
(* true by themselves; that a constraint has a cause also needs the types, *)
(* which say what the keys that wait can be.                               *)
(*                                                                         *)
(* And about the text box, for any characters, texts and lengths: while    *)
(* its length is right, no key leaves the buffer, and the keys are those   *)
(* of the line editor and keep the length right.  Each key is described    *)
(* byte by byte first; the line is then compared character by character.   *)
(*                                                                         *)
(* And about who gets the input, for every set of windows, controls,       *)
(* buttons and points.  The conjunction of the five invariants is          *)
(* inductive: that a modal window only opens while no drag is under way    *)
(* needs to know that it opens from a window that is not modal, which is   *)
(* what ModalIsShown and the search for the widget under the pointer give. *)
(***************************************************************************)
EXTENDS Toolbar, TextBox, RtkInput, SequenceTheorems, TLAPS

-----------------------------------------------------------------------------
(* The toolbar.                                                             *)

\* The masks that keys and menu items ask for: never three single bits.
AskedMasks == {m \in Int : 0 <= m /\ m <= 65535 /\ m # 7}

\* Normal and BnIdx, and the table of the menu, agree on every mask that a key
\* or a menu item can ask for.
LEMMA MaskTables ==
  ASSUME NEW m \in AskedMasks
  PROVE  /\ Normal(m) \in 1 .. 6 \cup {All}
         /\ BnIdx(m) \in MenuItems
         /\ ItemMask[BnIdx(m)] = Normal(m)
<1>1. CASE m = 0 \/ m >= 8
  BY <1>1, SMT DEF Normal, BnIdx, All, MenuItems, ItemMask
<1>2. CASE m = 1
  BY <1>2, SMT DEF Normal, BnIdx, All, MenuItems, ItemMask, MaskIdx
<1>3. CASE m = 2
  BY <1>3, SMT DEF Normal, BnIdx, All, MenuItems, ItemMask, MaskIdx
<1>4. CASE m = 3
  BY <1>4, SMT DEF Normal, BnIdx, All, MenuItems, ItemMask, MaskIdx
<1>5. CASE m = 4
  BY <1>5, SMT DEF Normal, BnIdx, All, MenuItems, ItemMask, MaskIdx
<1>6. CASE m = 5
  BY <1>6, SMT DEF Normal, BnIdx, All, MenuItems, ItemMask, MaskIdx
<1>7. CASE m = 6
  BY <1>7, SMT DEF Normal, BnIdx, All, MenuItems, ItemMask, MaskIdx
<1>8. m = 0 \/ m >= 8 \/ m = 1 \/ m = 2 \/ m = 3 \/ m = 4 \/ m = 5 \/ m = 6
  BY SMT DEF AskedMasks
<1> QED BY <1>1, <1>2, <1>3, <1>4, <1>5, <1>6, <1>7, <1>8

\* The masks of the menu items are among them.
LEMMA ItemMasks ==
  ASSUME NEW i \in MenuItems
  PROVE  ItemMask[i] \in {1, 2, 3, 4, 5, 6, 255}
<1>1. i \in {0, 1, 2, 3, 4, 5, 6}
  BY DEF MenuItems
<1> QED BY <1>1, SMT DEF ItemMask, MenuItems, All

\* The masks of the keys: an axis, or all bits but that of an axis.
LEMMA KeyMasks ==
  ASSUME NEW a \in Axes, NEW mods \in BOOLEAN
  PROVE  /\ KeyMask(a, mods) \in AskedMasks
         /\ mods = FALSE => KeyMask(a, mods) = Bit[a] /\ Normal(KeyMask(a, mods)) = Bit[a]
         /\ mods = TRUE => Normal(KeyMask(a, mods)) = All
<1>1. Bit[a] \in {1, 2, 4}
  BY DEF Axes, Bit
<1>2. ASSUME NEW b \in {1, 2, 4}
      PROVE  /\ b \in AskedMasks /\ Normal(b) = b
             /\ 65535 - b \in AskedMasks /\ Normal(65535 - b) = All
  <2>1. b \in Int /\ 1 <= b /\ b <= 4
    BY SMT
  <2>2. b # 0 /\ ~ (b >= 8) /\ b \in AskedMasks
    BY <2>1, SMT DEF AskedMasks
  <2>3. 65535 - b >= 8 /\ 65535 - b \in AskedMasks
    BY <2>1, SMT DEF AskedMasks
  <2> QED BY <2>2, <2>3 DEF Normal
<1>3. CASE mods = TRUE
  <2>1. KeyMask(a, mods) = 65535 - Bit[a]
    BY <1>3 DEF KeyMask
  <2> QED BY <2>1, <1>1, <1>2, <1>3
<1>4. CASE mods = FALSE
  <2>1. KeyMask(a, mods) = Bit[a]
    BY <1>4 DEF KeyMask
  <2> QED BY <2>1, <1>1, <1>2, <1>4
<1> QED BY <1>3, <1>4

-----------------------------------------------------------------------------
(* The invariant.                                                          *)

AxesTypeOK ==
  /\ mask \in 1 .. 6 \cup {All}
  /\ icon \in MenuItems /\ chosen \subseteq MenuItems
  /\ by \in Axes \cup {"menu", NoKey}
  /\ stuck \in BOOLEAN

AxesTrue == chosen \subseteq {icon} /\ mask = ItemMask[icon]

AxesOK == AxesTypeOK /\ AxesTrue /\ ConstraintHasCause

\* set_axismask leaves the constraint, its icon and its button in step.
LEMMA SetMaskTrue ==
  ASSUME NEW m \in AskedMasks, NEW held, SetMask(m, held)
  PROVE  /\ mask' = Normal(m) /\ mask' \in 1 .. 6 \cup {All}
         /\ icon' \in MenuItems /\ chosen' \subseteq MenuItems
         /\ AxesTrue'
<1>1. /\ Normal(m) \in 1 .. 6 \cup {All}
      /\ BnIdx(m) \in MenuItems
      /\ ItemMask[BnIdx(m)] = Normal(m)
  BY MaskTables
<1>2. mask' = Normal(m) /\ icon' = BnIdx(m) /\ chosen' \subseteq {BnIdx(m)}
  BY DEF SetMask
<1>3. ItemMask' = ItemMask
  BY DEF ItemMask, MenuItems, All
<1> QED BY <1>1, <1>2, <1>3 DEF AxesTrue

\* Pressing an axis key, now or when DOS reads it from the ring.
LEMMA KeyPressedKeeps ==
  ASSUME AxesOK, NEW a \in Axes, NEW small \in BOOLEAN, NEW mods \in BOOLEAN,
         keys \subseteq keys', KeyPressed(a, small, mods)
  PROVE  AxesOK'
<1>1. CASE Heard(small)
  <2>1. /\ SetMask(KeyMask(a, mods), chosen)
        /\ by' = IF mods THEN NoKey ELSE a
        /\ stuck' = (a \notin keys')
    BY <1>1 DEF KeyPressed
  <2>2. /\ KeyMask(a, mods) \in AskedMasks
        /\ mods = FALSE => KeyMask(a, mods) = Bit[a] /\ Normal(KeyMask(a, mods)) = Bit[a]
        /\ mods = TRUE => Normal(KeyMask(a, mods)) = All
    BY KeyMasks
  <2>3. /\ mask' = Normal(KeyMask(a, mods)) /\ mask' \in 1 .. 6 \cup {All}
        /\ icon' \in MenuItems /\ chosen' \subseteq MenuItems
        /\ AxesTrue'
    BY <2>1, <2>2, SetMaskTrue
  <2>4. by' \in Axes \cup {"menu", NoKey} /\ stuck' \in BOOLEAN
    BY <2>1
  <2>5. AxesTypeOK'
    BY <2>3, <2>4 DEF AxesTypeOK
  <2>6. CASE mods = TRUE
    <3>1. mask' = All
      BY <2>2, <2>3, <2>6
    <3> QED BY <3>1, <2>3, <2>5 DEF AxesOK, ConstraintHasCause, All
  <2>7. CASE mods = FALSE
    <3>1. by' = a /\ mask' = Bit[a]
      BY <2>1, <2>2, <2>3, <2>7
    <3>2. by' \in Axes /\ (by' \in keys' \/ stuck')
      BY <3>1, <2>1
    <3> QED BY <3>1, <3>2, <2>3, <2>5 DEF AxesOK, ConstraintHasCause, Bit, All
  <2> QED BY <2>6, <2>7
<1>2. CASE ~Heard(small)
  <2>1. UNCHANGED axes
    BY <1>2 DEF KeyPressed
  <2> QED BY <2>1 DEF AxesOK, AxesTypeOK, AxesTrue, ConstraintHasCause, axes, Bit, ItemMask,
                      MenuItems, All, Axes
<1> QED BY <1>1, <1>2

\* Releasing one.
LEMMA KeyReleasedKeeps ==
  ASSUME AxesOK, NEW a \in Axes, NEW small \in BOOLEAN,
         keys' = keys \ {a}, KeyReleased(a, small)
  PROVE  AxesOK'
<1>1. CASE Heard(small)
  <2>1. SetMask(All, chosen) /\ by' = NoKey /\ stuck' = FALSE
    BY <1>1 DEF KeyReleased
  <2>2. All \in AskedMasks /\ Normal(All) = All
    BY DEF All, Normal, AskedMasks
  <2>3. /\ mask' = All
        /\ icon' \in MenuItems /\ chosen' \subseteq MenuItems /\ AxesTrue'
    BY <2>1, <2>2, SetMaskTrue
  <2> QED BY <2>1, <2>3 DEF AxesOK, AxesTypeOK, ConstraintHasCause
<1>2. CASE ~Heard(small)
  <2>1. UNCHANGED <<mask, icon, chosen, by>> /\ stuck' = (stuck \/ a = by)
    BY <1>2 DEF KeyReleased
  <2>2. AxesTypeOK' /\ AxesTrue'
    BY <2>1 DEF AxesOK, AxesTypeOK, AxesTrue
  <2>3. by \in keys \/ stuck => by' \in keys' \/ stuck'
    BY <2>1
  <2> QED BY <2>1, <2>2, <2>3 DEF AxesOK, ConstraintHasCause
<1> QED BY <1>1, <1>2

\* A click on an item of the menu.
LEMMA ClickItemKeeps ==
  ASSUME AxesOK, NEW i \in MenuItems, ClickItem(i)
  PROVE  AxesOK'
<1>1. SetMask(ItemMask[i], Toggle(i, chosen)) /\ by' = "menu" /\ stuck' = FALSE
  BY DEF ClickItem
<1>2. ItemMask[i] \in AskedMasks
  <2>1. ItemMask[i] \in {1, 2, 3, 4, 5, 6, 255}
    BY ItemMasks
  <2>2. \A m \in {1, 2, 3, 4, 5, 6, 255} : m \in AskedMasks
    BY SMT DEF AskedMasks
  <2> QED BY <2>1, <2>2
<1>3. /\ mask' \in 1 .. 6 \cup {All}
      /\ icon' \in MenuItems /\ chosen' \subseteq MenuItems /\ AxesTrue'
  BY <1>1, <1>2, SetMaskTrue
<1>4. ConstraintHasCause'
  BY <1>1 DEF ConstraintHasCause
<1> QED BY <1>1, <1>3, <1>4 DEF AxesOK, AxesTypeOK

\* A step that leaves the axes alone, and keeps the keys that are held.
LEMMA OtherKeeps ==
  ASSUME AxesOK, UNCHANGED axes, keys \subseteq keys'
  PROVE  AxesOK'
<1>1. /\ mask' = mask /\ icon' = icon /\ chosen' = chosen
      /\ by' = by /\ stuck' = stuck
  BY DEF axes
<1>2. AxesTypeOK' /\ AxesTrue'
  BY <1>1 DEF AxesOK, AxesTypeOK, AxesTrue
<1>3. ConstraintHasCause'
  BY <1>1 DEF AxesOK, ConstraintHasCause
<1> QED BY <1>2, <1>3 DEF AxesOK

\* DOS does not report that a key was released.
LEMMA DosUpKeeps ==
  ASSUME AxesOK, NEW a \in Axes, DosUp(a)
  PROVE  AxesOK'
<1>1. /\ keys' = keys \ {a} /\ stuck' = (stuck \/ a = by)
      /\ mask' = mask /\ icon' = icon /\ chosen' = chosen /\ by' = by
  BY DEF DosUp
<1>2. AxesTypeOK' /\ AxesTrue'
  BY <1>1 DEF AxesOK, AxesTypeOK, AxesTrue
<1>3. by \in keys \/ stuck => by' \in keys' \/ stuck'
  BY <1>1
<1> QED BY <1>1, <1>2, <1>3 DEF AxesOK, ConstraintHasCause

-----------------------------------------------------------------------------
(* The rest of the state.                                                  *)

ToolOK == tool \in Tools \cup {Dbg} /\ pressed \subseteq Tools /\ pressed \subseteq {tool}

RestOK ==
  /\ menu \in BOOLEAN /\ taken \in BOOLEAN
  /\ keys \subseteq Axes
  /\ shift \in BOOLEAN /\ modkeys \in BOOLEAN
  /\ typed \in Seq(Axes \X BOOLEAN)
  /\ front \in {GLUT, DOS}

BarInv == ToolOK /\ AxesOK /\ RestOK

\* act_settool releases the buttons of the other tools, whichever button was
\* toggled before; the current tool's it leaves as the click made it.
LEMMA SetToolKeeps ==
  ASSUME ToolOK, NEW t \in Tools \cup {Dbg}, NEW held, SetTool(t, held),
         t = tool => held \subseteq Tools /\ held \subseteq {t}
  PROVE  ToolOK'
BY DEF ToolOK, SetTool

LEMMA ToolStep ==
  ASSUME ToolOK, BarNext
  PROVE  ToolOK'
<1>1. CASE \E t \in Tools : ClickTool(t)
  <2>1. PICK t \in Tools : ClickTool(t)
    BY <1>1
  <2>2. SetTool(t, Toggle(t, pressed))
    BY <2>1 DEF ClickTool
  <2>3. t = tool => Toggle(t, pressed) \subseteq Tools /\ Toggle(t, pressed) \subseteq {t}
    BY DEF ToolOK, Toggle
  <2> QED BY <2>2, <2>3, SetToolKeeps
<1>2. CASE \E t \in Tools \cup {Dbg} : ChooseTool(t)
  <2>1. PICK t \in Tools \cup {Dbg} : ChooseTool(t)
    BY <1>2
  <2>2. SetTool(t, pressed)
    BY <2>1 DEF ChooseTool
  <2>3. t = tool => pressed \subseteq Tools /\ pressed \subseteq {t}
    BY DEF ToolOK
  <2> QED BY <2>2, <2>3, SetToolKeeps
<1>3. CASE UNCHANGED tools
  BY <1>3 DEF tools, ToolOK
<1> QED
  BY <1>1, <1>2, <1>3 DEF BarNext, OpenMenu, CloseMenu, ClickItem, Take, GlutDown, GlutUp,
     DosDown, DosUp, ReadModifiers, DosKey, Shift, user

\* A character that waits was an axis key and came with its case.
LEMMA TypedPair ==
  ASSUME RestOK, typed # <<>>
  PROVE  /\ Head(typed)[1] \in Axes /\ Head(typed)[2] \in BOOLEAN
         /\ Tail(typed) \in Seq(Axes \X BOOLEAN)
<1>1. Head(typed) \in Axes \X BOOLEAN /\ Tail(typed) \in Seq(Axes \X BOOLEAN)
  BY SMT DEF RestOK
<1> QED BY <1>1

LEMMA AxesStep ==
  ASSUME AxesOK, RestOK, BarNext
  PROVE  AxesOK'
<1>1. ASSUME NEW a \in Axes, GlutDown(a)
      PROVE  AxesOK'
  <2>1. /\ keys \subseteq keys' /\ KeyPressed(a, SmallInGlut, shift)
        /\ SmallInGlut \in BOOLEAN /\ shift \in BOOLEAN
    BY <1>1 DEF GlutDown, SmallInGlut, RestOK
  <2> QED BY <2>1, KeyPressedKeeps
<1>2. ASSUME NEW a \in Axes, GlutUp(a)
      PROVE  AxesOK'
  <2>1. keys' = keys \ {a} /\ KeyReleased(a, SmallInGlut) /\ SmallInGlut \in BOOLEAN
    BY <1>2 DEF GlutUp, SmallInGlut, RestOK
  <2> QED BY <2>1, KeyReleasedKeeps
<1>3. ASSUME DosKey
      PROVE  AxesOK'
  <2>1. KeyPressed(Head(typed)[1], Head(typed)[2], modkeys) /\ keys' = keys /\ typed # <<>>
    BY <1>3 DEF DosKey
  <2>2. Head(typed)[1] \in Axes /\ Head(typed)[2] \in BOOLEAN
    BY <2>1, TypedPair
  <2>3. modkeys \in BOOLEAN /\ keys \subseteq keys'
    BY <2>1 DEF RestOK
  <2> QED BY <2>1, <2>2, <2>3, KeyPressedKeeps
<1>4. ASSUME NEW a \in Axes, DosDown(a)
      PROVE  AxesOK'
  <2>1. UNCHANGED axes /\ keys \subseteq keys'
    BY <1>4 DEF DosDown
  <2> QED BY <2>1, OtherKeeps
<1>5. ASSUME NEW a \in Axes, DosUp(a)
      PROVE  AxesOK'
  BY <1>5, DosUpKeeps
<1>6. ASSUME NEW i \in MenuItems, ClickItem(i)
      PROVE  AxesOK'
  BY <1>6, ClickItemKeeps
<1>7. ASSUME UNCHANGED axes, keys' = keys
      PROVE  AxesOK'
  BY <1>7, OtherKeeps
<1>8. CASE \E t \in Tools : ClickTool(t)
  BY <1>8, <1>7 DEF ClickTool, user
<1>9. CASE \E t \in Tools \cup {Dbg} : ChooseTool(t)
  BY <1>9, <1>7 DEF ChooseTool, user
<1>10. CASE OpenMenu \/ CloseMenu \/ ReadModifiers
  BY <1>10, <1>7 DEF OpenMenu, CloseMenu, ReadModifiers, user
<1>11. CASE \E b \in BOOLEAN : Take(b)
  BY <1>11, <1>7 DEF Take, user
<1>12. CASE Shift
  BY <1>12, <1>7 DEF Shift
<1> QED
  BY <1>1, <1>2, <1>3, <1>4, <1>5, <1>6, <1>8, <1>9, <1>10, <1>11, <1>12 DEF BarNext

LEMMA RestStep ==
  ASSUME RestOK, BarNext
  PROVE  RestOK'
<1>1. CASE \E t \in Tools : ClickTool(t)
  BY <1>1 DEF ClickTool, user, RestOK
<1>2. CASE \E t \in Tools \cup {Dbg} : ChooseTool(t)
  BY <1>2 DEF ChooseTool, user, RestOK
<1>3. CASE OpenMenu \/ CloseMenu
  BY <1>3 DEF OpenMenu, CloseMenu, user, RestOK
<1>4. CASE \E i \in MenuItems : ClickItem(i)
  BY <1>4 DEF ClickItem, user, RestOK
<1>5. CASE \E b \in BOOLEAN : Take(b)
  BY <1>5 DEF Take, user, RestOK
<1>6. CASE \E a \in Axes : GlutDown(a) \/ GlutUp(a)
  BY <1>6 DEF GlutDown, GlutUp, RestOK
<1>7. CASE \E a \in Axes : DosDown(a)
  <2>1. PICK a \in Axes : DosDown(a)
    BY <1>7
  <2>2. <<a, SmallInDos>> \in Axes \X BOOLEAN
    BY DEF RestOK, SmallInDos
  <2>3. typed' \in Seq(Axes \X BOOLEAN)
    BY <2>1, <2>2, SMT DEF DosDown, RestOK
  <2> QED BY <2>1, <2>3 DEF DosDown, RestOK
<1>8. CASE \E a \in Axes : DosUp(a)
  BY <1>8 DEF DosUp, RestOK
<1>9. CASE ReadModifiers
  BY <1>9 DEF ReadModifiers, user, RestOK
<1>10. CASE DosKey
  <2>1. typed # <<>> /\ typed' = Tail(typed)
    BY <1>10 DEF DosKey
  <2>2. typed' \in Seq(Axes \X BOOLEAN)
    BY <2>1, TypedPair
  <2> QED BY <1>10, <2>2 DEF DosKey, RestOK
<1>11. CASE Shift
  BY <1>11 DEF Shift, RestOK
<1> QED
  BY <1>1, <1>2, <1>3, <1>4, <1>5, <1>6, <1>7, <1>8, <1>9, <1>10, <1>11 DEF BarNext

-----------------------------------------------------------------------------
(* The theorems.                                                           *)

LEMMA BarInitInv ==
  ASSUME BarInit
  PROVE  BarInv
<1>1. ToolOK
  BY ToolbarAssumption DEF BarInit, ToolOK
<1>2. AxesTypeOK
  <2>1. 0 \in MenuItems
    BY DEF MenuItems
  <2> QED BY <2>1 DEF BarInit, AxesTypeOK
<1>3. AxesTrue /\ ConstraintHasCause
  BY DEF BarInit, AxesTrue, ConstraintHasCause, ItemMask, MenuItems
<1>4. RestOK
  <2>1. typed \in Seq(Axes \X BOOLEAN)
    BY SMT DEF BarInit
  <2> QED BY <2>1 DEF BarInit, RestOK
<1> QED BY <1>1, <1>2, <1>3, <1>4 DEF BarInv, AxesOK

\* Every state of the toolbar satisfies the invariant.
THEOREM ToolbarSpec == BarSpec => []BarInv
<1>1. BarInit => BarInv
  BY BarInitInv
<1>2. ASSUME BarInv, [BarNext]_barVars
      PROVE  BarInv'
  <2>1. CASE BarNext
    BY <1>2, <2>1, ToolStep, AxesStep, RestStep DEF BarInv
  <2>2. CASE UNCHANGED barVars
    <3>1. UNCHANGED tools /\ UNCHANGED axes /\ UNCHANGED user
          /\ UNCHANGED <<menu, taken, modkeys, front>>
      BY <2>2 DEF barVars
    <3>2. ToolOK'
      BY <3>1, <1>2 DEF tools, ToolOK, BarInv
    <3>3. AxesOK'
      BY <3>1, <1>2, OtherKeeps DEF user, BarInv
    <3>4. RestOK'
      BY <3>1, <1>2 DEF user, RestOK, BarInv
    <3> QED BY <3>2, <3>3, <3>4 DEF BarInv
  <2> QED BY <1>2, <2>1, <2>2
<1> QED BY <1>1, <1>2, PTL DEF BarSpec

\* The state of the toolbar has its types.
THEOREM ToolbarTypes == BarSpec => []BarTypeOK
<1>1. BarInv => BarTypeOK
  BY DEF BarInv, ToolOK, AxesOK, AxesTypeOK, RestOK, BarTypeOK
<1> QED BY <1>1, ToolbarSpec, PTL

\* set_axismask and act_settool leave no button pressed but that of the choice
\* in force, and the icon is that of the mask.
THEOREM ToolbarShowsChoice == BarSpec => []ToolbarIsTrue
<1>1. BarInv => ToolbarIsTrue
  BY DEF BarInv, ToolOK, AxesOK, AxesTrue, ToolbarIsTrue
<1> QED BY <1>1, ToolbarSpec, PTL

\* A constraint was asked for by the menu, or by a key that is held or whose
\* release was ignored.
THEOREM EveryConstraintHasCause == BarSpec => []ConstraintHasCause
<1>1. BarInv => ConstraintHasCause
  BY DEF BarInv, AxesOK
<1> QED BY <1>1, ToolbarSpec, PTL

-----------------------------------------------------------------------------
(* The text box.                                                            *)

BoxInv ==
  /\ bufsz \in Nat \ {0} /\ len \in Nat /\ cursor \in 0 .. len
  /\ text \in [0 .. bufsz - 1 -> Bytes]
  /\ told = Str(text, bufsz)

-----------------------------------------------------------------------------
(* Strings and sequences.                                                  *)

\* A buffer's string ends at its first Nul.
LEMMA StrLenIs ==
  ASSUME NEW t, NEW n \in Nat, NEW k \in 0 .. n - 1,
         t[k] = Nul, \A i \in 0 .. k - 1 : t[i] # Nul
  PROVE  StrLen(t, n) = k
<1> DEFINE P(i) == t[i] = Nul /\ \A j \in 0 .. i - 1 : t[j] # Nul
<1>1. P(k)
  OBVIOUS
<1>2. ASSUME NEW i \in 0 .. n - 1, P(i)
      PROVE  i = k
  <2>1. ~(i < k) /\ ~(k < i)
    BY <1>2, SMT
  <2> QED BY <2>1, SMT
<1>3. (CHOOSE i \in 0 .. n - 1 : P(i)) = k
  BY <1>1, <1>2
<1> QED BY <1>3 DEF StrLen

\* Character i after an insertion at p, and after a removal.
Inserted(s, p, e, i) == IF i < p THEN s[i] ELSE IF i = p THEN e ELSE s[i - 1]
Removed(s, p, i)     == IF i < p THEN s[i] ELSE s[i + 1]

LEMMA InsertAtIs ==
  ASSUME NEW S, NEW s \in Seq(S), NEW p \in 1 .. Len(s) + 1, NEW e \in S
  PROVE  /\ InsertAt(s, p, e) \in Seq(S) /\ Len(InsertAt(s, p, e)) = Len(s) + 1
         /\ \A i \in 1 .. Len(s) + 1 : InsertAt(s, p, e)[i] = Inserted(s, p, e, i)
<1>1. Len(s) \in Nat /\ \A i \in 1 .. Len(s) : s[i] \in S
  BY ElementOfSeq, LenProperties
<1> DEFINE a == SubSeq(s, 1, p - 1)
           b == <<e>>
           c == SubSeq(s, p, Len(s))
<1>2. /\ a \in Seq(S) /\ Len(a) = p - 1
      /\ \A i \in 1 .. p - 1 : a[i] = s[i]
  BY <1>1, SMT
<1>3. /\ c \in Seq(S) /\ Len(c) = Len(s) - p + 1
      /\ \A i \in 1 .. Len(s) - p + 1 : c[i] = s[p + i - 1]
  BY <1>1, SMT
<1>4. b \in Seq(S) /\ Len(b) = 1 /\ b[1] = e
  OBVIOUS
<1> HIDE DEF a, b, c
<1>5. /\ a \o b \in Seq(S) /\ Len(a \o b) = p
      /\ \A i \in 1 .. p : (a \o b)[i] = IF i < p THEN s[i] ELSE e
  <2>1. /\ a \o b \in Seq(S) /\ Len(a \o b) = Len(a) + Len(b)
        /\ \A i \in 1 .. Len(a) + Len(b) :
             (a \o b)[i] = IF i <= Len(a) THEN a[i] ELSE b[i - Len(a)]
    BY <1>2, <1>4, ConcatProperties
  <2>2. Len(a) + Len(b) = p
    BY <1>1, <1>2, <1>4, SMT
  <2>3. ASSUME NEW i \in 1 .. p
        PROVE  (a \o b)[i] = IF i < p THEN s[i] ELSE e
    <3>1. CASE i < p
      BY <1>1, <1>2, <2>1, <2>2, <3>1, SMT
    <3>2. CASE ~(i < p)
      <4>1. i - Len(a) = 1 /\ ~(i <= Len(a))
        BY <1>1, <1>2, <3>2, SMT
      <4> QED BY <1>4, <2>1, <2>2, <3>2, <4>1
    <3> QED BY <3>1, <3>2
  <2> QED BY <2>1, <2>2, <2>3
<1>6. /\ (a \o b) \o c \in Seq(S) /\ Len((a \o b) \o c) = Len(s) + 1
      /\ \A i \in 1 .. Len(s) + 1 :
           ((a \o b) \o c)[i] = IF i < p THEN s[i] ELSE IF i = p THEN e ELSE s[i - 1]
  <2> DEFINE d == a \o b
  <2> HIDE DEF d
  <2>0. /\ d \in Seq(S) /\ Len(d) = p
        /\ \A i \in 1 .. p : d[i] = IF i < p THEN s[i] ELSE e
    BY <1>5 DEF d
  <2>1. /\ d \o c \in Seq(S) /\ Len(d \o c) = Len(d) + Len(c)
        /\ \A i \in 1 .. Len(d) + Len(c) :
             (d \o c)[i] = IF i <= Len(d) THEN d[i] ELSE c[i - Len(d)]
    BY <2>0, <1>3, ConcatProperties
  <2>2. Len(d) + Len(c) = Len(s) + 1
    BY <1>1, <2>0, <1>3, SMT
  <2>3. ASSUME NEW i \in 1 .. Len(s) + 1
        PROVE  (d \o c)[i] = IF i < p THEN s[i] ELSE IF i = p THEN e ELSE s[i - 1]
    <3>1. CASE i <= p
      BY <1>1, <2>0, <2>1, <2>2, <3>1, SMT
    <3>2. CASE ~(i <= p)
      <4>1. /\ i - p \in 1 .. Len(s) - p + 1 /\ p + (i - p) - 1 = i - 1
            /\ ~(i < p) /\ i # p
        BY <1>1, <3>2, SMT
      <4>2. (d \o c)[i] = c[i - p]
        BY <2>0, <2>1, <2>2, <3>2
      <4>3. c[i - p] = s[p + (i - p) - 1]
        BY <1>3, <4>1
      <4> QED BY <4>1, <4>2, <4>3
    <3> QED BY <3>1, <3>2
  <2> QED BY <2>1, <2>2, <2>3 DEF d
<1> QED BY <1>6 DEF InsertAt, Inserted, a, b, c

LEMMA RemoveAtIs ==
  ASSUME NEW S, NEW s \in Seq(S), NEW p \in 1 .. Len(s)
  PROVE  /\ RemoveAt(s, p) \in Seq(S) /\ Len(RemoveAt(s, p)) = Len(s) - 1
         /\ \A i \in 1 .. Len(s) - 1 : RemoveAt(s, p)[i] = Removed(s, p, i)
<1>1. Len(s) \in Nat /\ \A i \in 1 .. Len(s) : s[i] \in S
  BY ElementOfSeq, LenProperties
<1> DEFINE a == SubSeq(s, 1, p - 1)
           c == SubSeq(s, p + 1, Len(s))
<1>2. /\ a \in Seq(S) /\ Len(a) = p - 1
      /\ \A i \in 1 .. p - 1 : a[i] = s[i]
  BY <1>1, SMT
<1>3. /\ c \in Seq(S) /\ Len(c) = Len(s) - p
      /\ \A i \in 1 .. Len(s) - p : c[i] = s[p + i]
  BY <1>1, SMT
<1> HIDE DEF a, c
<1>4. /\ a \o c \in Seq(S) /\ Len(a \o c) = Len(s) - 1
      /\ \A i \in 1 .. Len(s) - 1 : (a \o c)[i] = IF i < p THEN s[i] ELSE s[i + 1]
  <2>1. /\ a \o c \in Seq(S) /\ Len(a \o c) = Len(a) + Len(c)
        /\ \A i \in 1 .. Len(a) + Len(c) :
             (a \o c)[i] = IF i <= Len(a) THEN a[i] ELSE c[i - Len(a)]
    BY <1>2, <1>3, ConcatProperties
  <2>2. Len(a) + Len(c) = Len(s) - 1
    BY <1>1, <1>2, <1>3, SMT
  <2>3. ASSUME NEW i \in 1 .. Len(s) - 1
        PROVE  (a \o c)[i] = IF i < p THEN s[i] ELSE s[i + 1]
    <3>1. CASE i < p
      BY <1>1, <1>2, <2>1, <2>2, <3>1, SMT
    <3>2. CASE ~(i < p)
      <4>1. i - Len(a) \in 1 .. Len(s) - p /\ p + (i - Len(a)) = i + 1 /\ ~(i <= Len(a))
        BY <1>1, <1>2, <3>2, SMT
      <4>2. (a \o c)[i] = c[i - Len(a)]
        BY <2>1, <2>2, <4>1
      <4>3. c[i - Len(a)] = s[p + (i - Len(a))]
        BY <1>3, <4>1
      <4> QED BY <3>2, <4>1, <4>2, <4>3
    <3> QED BY <3>1, <3>2
  <2> QED BY <2>1, <2>2, <2>3
<1> QED BY <1>4 DEF RemoveAt, Removed, a, c

-----------------------------------------------------------------------------
(* An honest box.                                                          *)

\* Its line is what the keys believe it to be.
LEMMA HonestLine ==
  ASSUME BoxInv, Honest
  PROVE  /\ Str(text, bufsz) = [i \in 1 .. len |-> text[i - 1]]
         /\ Str(text, bufsz) \in Seq(Chars) /\ Len(Str(text, bufsz)) = len
         /\ \A i \in 1 .. len : Str(text, bufsz)[i] = text[i - 1]
<1>1. StrLen(text, bufsz) = len
  <2>1. bufsz \in Nat /\ len \in 0 .. bufsz - 1
    BY SMT DEF BoxInv, Honest
  <2> QED BY <2>1, StrLenIs, TextBoxAssumption DEF Honest
<1>2. Str(text, bufsz) = [i \in 1 .. len |-> text[i - 1]]
  BY <1>1 DEF Str
<1>3. \A i \in 1 .. len : text[i - 1] \in Chars
  BY SMT DEF Honest, BoxInv
<1> QED BY <1>2, <1>3, SMT DEF BoxInv

\* Every key fits.
LEMMA HonestFits ==
  ASSUME BoxInv, Honest, NEW key \in Chars \cup {Nul}
  PROVE  Fits(key)
BY SMT DEF BoxInv, Honest, Fits, Reaches, Room

-----------------------------------------------------------------------------
(* The keys, byte by byte.                                                 *)

MovedByte(t, dst, src, k, i) == IF i \in dst .. dst + k - 1 THEN t[i - dst + src] ELSE t[i]

\* memmove copies bytes of the buffer to others of it.
LEMMA MemmoveIs ==
  ASSUME NEW n \in Nat, NEW t \in [0 .. n - 1 -> Bytes],
         NEW dst \in Nat, NEW src \in Nat, NEW k \in Nat, src + k <= n
  PROVE  Memmove(t, dst, src, k) \in [0 .. n - 1 -> Bytes]
<1>1. Memmove(t, dst, src, k) = [i \in 0 .. n - 1 |-> MovedByte(t, dst, src, k, i)]
  BY DEF Memmove, MovedByte
<1>2. ASSUME NEW i \in 0 .. n - 1
      PROVE  MovedByte(t, dst, src, k, i) \in Bytes
  <2>1. i \in dst .. dst + k - 1 => i - dst + src \in 0 .. n - 1
    BY SMT
  <2> QED BY <2>1 DEF MovedByte
<1> QED BY <1>1, <1>2

LEMMA TypedBytes ==
  ASSUME BoxInv, NEW c \in Chars, Typed(c)
  PROVE  /\ bufsz' \in Nat \ {0} /\ bufsz <= bufsz' /\ len + 1 < bufsz'
         /\ text' \in [0 .. bufsz' - 1 -> Bytes]
         /\ Honest => \A i \in 0 .. len + 1 :
              text'[i] = IF i < cursor THEN text[i] ELSE IF i = cursor THEN c ELSE text[i - 1]
<1>1. bufsz' = Room(c) /\ len + 1 < Room(c)
  BY DEF Typed, Fits, Reaches
<1>2. bufsz' \in Nat \ {0} /\ bufsz <= bufsz'
  BY <1>1, SMT DEF BoxInv, Room
<1> DEFINE room == [i \in 0 .. Room(c) - 1 |-> IF i < bufsz THEN text[i] ELSE Junk]
<1>3. room \in [0 .. bufsz' - 1 -> Bytes] /\ \A i \in 0 .. bufsz - 1 : room[i] = text[i]
  BY <1>1, <1>2, SMT DEF BoxInv, Bytes
<1>4. text' = IF len = 0 \/ cursor >= len
              THEN [room EXCEPT ![len] = c, ![len + 1] = Nul]
              ELSE [Memmove(room, cursor + 1, cursor, len - cursor + 1) EXCEPT ![cursor] = c]
  BY DEF Typed
<1> HIDE DEF room
<1>5. CASE len = 0 \/ cursor >= len
  <2>1. text' = [room EXCEPT ![len] = c, ![len + 1] = Nul] /\ cursor = len
    BY <1>4, <1>5, SMT DEF BoxInv
  <2>2. text' \in [0 .. bufsz' - 1 -> Bytes]
    BY <1>1, <1>3, <2>1 DEF Bytes
  <2>3. ASSUME Honest, NEW i \in 0 .. len + 1
        PROVE  text'[i] = IF i < cursor THEN text[i] ELSE IF i = cursor THEN c ELSE text[i - 1]
    <3>1. len \in Nat /\ len + 1 \in 0 .. bufsz' - 1 /\ i \in 0 .. bufsz' - 1 /\ len < bufsz
          /\ bufsz \in Nat
      BY <1>1, <1>2, <2>3, SMT DEF BoxInv, Honest
    <3>2. CASE i < len
      <4>1. text'[i] = room[i] /\ room[i] = text[i]
        BY <1>3, <2>1, <3>1, <3>2, SMT
      <4> QED BY <2>1, <3>2, <4>1
    <3>3. CASE i = len
      <4>1. text'[i] = c
        BY <1>3, <2>1, <3>1, <3>3, SMT
      <4> QED BY <2>1, <3>1, <3>3, <4>1, SMT
    <3>4. CASE i = len + 1
      <4>1. text'[i] = Nul /\ i - 1 = len /\ ~(i < cursor) /\ i # cursor
        BY <1>3, <2>1, <3>1, <3>4, SMT
      <4>2. text[len] = Nul
        BY <2>3 DEF Honest
      <4> QED BY <4>1, <4>2
    <3> QED BY <3>1, <3>2, <3>3, <3>4, SMT
  <2> QED BY <1>1, <1>2, <2>2, <2>3
<1>6. CASE ~(len = 0 \/ cursor >= len)
  <2>1. /\ text' = [Memmove(room, cursor + 1, cursor, len - cursor + 1) EXCEPT ![cursor] = c]
        /\ cursor < len
    BY <1>4, <1>6, SMT DEF BoxInv
  <2> DEFINE mv == Memmove(room, cursor + 1, cursor, len - cursor + 1)
  <2>2. /\ bufsz' \in Nat /\ cursor + 1 \in Nat /\ cursor \in Nat /\ len - cursor + 1 \in Nat
        /\ cursor + (len - cursor + 1) <= bufsz'
    BY <1>1, <1>2, <2>1, SMT DEF BoxInv
  <2>3. /\ mv \in [0 .. bufsz' - 1 -> Bytes]
        /\ \A i \in 0 .. bufsz' - 1 :
             mv[i] = MovedByte(room, cursor + 1, cursor, len - cursor + 1, i)
    <3> DEFINE d == cursor + 1
               k == len - cursor + 1
    <3>1. d \in Nat /\ k \in Nat /\ cursor \in Nat /\ cursor + k <= bufsz' /\ bufsz' \in Nat
      BY <2>2
    <3>2. room \in [0 .. bufsz' - 1 -> Bytes]
      BY <1>3
    <3> HIDE DEF d, k
    <3>3. Memmove(room, d, cursor, k) \in [0 .. bufsz' - 1 -> Bytes]
      BY <3>1, <3>2, MemmoveIs
    <3>4. ASSUME NEW i \in 0 .. bufsz' - 1
          PROVE  Memmove(room, d, cursor, k)[i] = MovedByte(room, d, cursor, k, i)
      BY <3>2 DEF Memmove, MovedByte
    <3> QED BY <3>3, <3>4 DEF d, k
  <2> HIDE DEF mv
  <2>4. text' = [mv EXCEPT ![cursor] = c]
    BY <2>1 DEF mv
  <2>6. text' \in [0 .. bufsz' - 1 -> Bytes]
    BY <2>3, <2>4 DEF Bytes
  <2>5. ASSUME Honest, NEW i \in 0 .. len + 1
        PROVE  text'[i] = IF i < cursor THEN text[i] ELSE IF i = cursor THEN c ELSE text[i - 1]
    <3>1. len \in Nat /\ cursor \in Nat /\ i \in 0 .. bufsz' - 1 /\ len < bufsz /\ bufsz \in Nat
      BY <1>1, <1>2, <2>5, SMT DEF BoxInv, Honest
    <3>2. text'[i] = IF i = cursor THEN c ELSE mv[i]
      BY <2>3, <2>4, <3>1
    <3>3. CASE i < cursor
      <4>1. mv[i] = room[i]
        BY <2>3, <3>1, <3>3, SMT DEF MovedByte
      <4>2. room[i] = text[i]
        BY <1>3, <2>1, <3>1, <3>3, SMT
      <4> QED BY <3>1, <3>2, <3>3, <4>1, <4>2, SMT
    <3>4. CASE i > cursor
      <4>1. /\ i \in cursor + 1 .. (cursor + 1) + (len - cursor + 1) - 1
            /\ i - (cursor + 1) + cursor = i - 1 /\ i - 1 \in 0 .. bufsz - 1
        BY <3>1, <3>4, SMT
      <4>2. mv[i] = room[i - 1] /\ room[i - 1] = text[i - 1]
        BY <1>3, <2>3, <3>1, <4>1 DEF MovedByte
      <4> QED BY <3>1, <3>2, <3>4, <4>2, SMT
    <3>5. CASE i = cursor
      BY <3>1, <3>2, <3>5, SMT
    <3> QED BY <3>1, <3>3, <3>4, <3>5, SMT
  <2> QED BY <1>1, <1>2, <2>6, <2>5
<1> QED BY <1>5, <1>6

LEMMA BackspaceBytes ==
  ASSUME BoxInv, BackspaceKey
  PROVE  /\ text' \in [0 .. bufsz - 1 -> Bytes] /\ len - 1 \in Nat
         /\ Honest => \A i \in 0 .. len - 1 :
              text'[i] = IF i < cursor - 1 THEN text[i] ELSE text[i + 1]
<1>1. /\ text' = Erased /\ cursor \in Nat \ {0} /\ len \in Nat /\ cursor <= len
      /\ bufsz \in Nat /\ text \in [0 .. bufsz - 1 -> Bytes]
      /\ IF cursor < len THEN len < bufsz ELSE len - 1 < bufsz
  BY SMT, TextBoxAssumption DEF BackspaceKey, BoxInv, Fits, Reaches, Room
<1>2. CASE cursor < len
  <2> DEFINE mv == [i \in 0 .. bufsz - 1 |->
                      IF i \in cursor - 1 .. len - 1 THEN text[i + 1] ELSE text[i]]
  <2>1. text' = mv
    BY <1>1, <1>2, SMT DEF Erased, Memmove
  <2>2. mv \in [0 .. bufsz - 1 -> Bytes]
    BY <1>1, <1>2, SMT
  <2>3. \A i \in 0 .. len - 1 : mv[i] = IF i < cursor - 1 THEN text[i] ELSE text[i + 1]
    BY <1>1, <1>2, SMT
  <2> QED BY <1>1, <2>1, <2>2, <2>3, SMT
<1>3. CASE ~(cursor < len)
  <2>0. cursor = len
    BY <1>1, <1>3, SMT
  <2>1. text' = [text EXCEPT ![len - 1] = Nul] /\ cursor = len
    BY <1>1, <1>3, <2>0 DEF Erased
  <2>2. text' \in [0 .. bufsz - 1 -> Bytes]
    BY <1>1, <2>1 DEF Bytes
  <2>3. ASSUME Honest, NEW i \in 0 .. len - 1
        PROVE  text'[i] = IF i < cursor - 1 THEN text[i] ELSE text[i + 1]
    <3>1. text[len] = Nul
      BY <2>3 DEF Honest
    <3>2. CASE i < len - 1
      BY <1>1, <2>1, <3>2, SMT
    <3>3. CASE i = len - 1
      <4>1. text'[i] = Nul /\ i + 1 = len /\ ~(i < cursor - 1)
        BY <1>1, <2>1, <3>3, SMT
      <4> QED BY <3>1, <4>1
    <3> QED BY <1>1, <3>2, <3>3, SMT
  <2> QED BY <1>1, <2>2, <2>3, SMT
<1> QED BY <1>2, <1>3

LEMMA DeleteBytes ==
  ASSUME BoxInv, DeleteKey
  PROVE  /\ text' \in [0 .. bufsz - 1 -> Bytes] /\ cursor <= len - 1
         /\ Honest => \A i \in 0 .. len - 1 :
              text'[i] = IF i < cursor THEN text[i] ELSE text[i + 1]
<1>1. /\ text' = [Memmove(text, cursor, cursor + 1, len - cursor) EXCEPT ![len - 1] = Nul]
      /\ cursor \in Nat /\ len \in Nat /\ cursor < len /\ len < bufsz
      /\ bufsz \in Nat /\ text \in [0 .. bufsz - 1 -> Bytes]
  BY SMT, TextBoxAssumption DEF DeleteKey, BoxInv, Fits, Reaches, Room
<1> DEFINE mv == [i \in 0 .. bufsz - 1 |->
                    IF i \in cursor .. len - 1 THEN text[i + 1] ELSE text[i]]
<1>2. Memmove(text, cursor, cursor + 1, len - cursor) = mv
  BY <1>1, SMT DEF Memmove
<1>3. mv \in [0 .. bufsz - 1 -> Bytes]
  BY <1>1, SMT
<1>4. text' \in [0 .. bufsz - 1 -> Bytes]
  BY <1>1, <1>2, <1>3 DEF Bytes
<1>5. ASSUME Honest, NEW i \in 0 .. len - 1
      PROVE  text'[i] = IF i < cursor THEN text[i] ELSE text[i + 1]
  <2>1. text[len] = Nul /\ i \in 0 .. bufsz - 1
    BY <1>1, <1>5, SMT DEF Honest
  <2>2. CASE i = len - 1
    <3>1. text'[i] = Nul /\ i + 1 = len /\ ~(i < cursor)
      BY <1>1, <1>2, <1>3, <2>1, <2>2, SMT
    <3> QED BY <2>1, <3>1
  <2>3. CASE i # len - 1
    <3>1. text'[i] = mv[i]
      BY <1>1, <1>2, <1>3, <2>1, <2>3, SMT
    <3> QED BY <1>1, <2>1, <3>1, SMT
  <2> QED BY <2>2, <2>3
<1> QED BY <1>1, <1>4, <1>5, SMT

-----------------------------------------------------------------------------
(* The invariant.                                                          *)

\* rtk_set_text stores the text that it is given.
LEMMA StrdupIs ==
  ASSUME NEW s \in Seq(Chars)
  PROVE  /\ Len(s) + 1 \in Nat \ {0} /\ Strdup(s) \in [0 .. Len(s) -> Bytes]
         /\ Str(Strdup(s), Len(s) + 1) = s
<1>1. Len(s) \in Nat /\ \A i \in 1 .. Len(s) : s[i] \in Chars
  BY ElementOfSeq, LenProperties
<1>2. Strdup(s) \in [0 .. Len(s) -> Bytes]
  BY <1>1, SMT DEF Strdup, Bytes
<1>3. Strdup(s)[Len(s)] = Nul /\ \A i \in 0 .. Len(s) - 1 : Strdup(s)[i] = s[i + 1]
  BY <1>1, SMT DEF Strdup
<1>4. StrLen(Strdup(s), Len(s) + 1) = Len(s)
  <2>1. Len(s) + 1 \in Nat /\ Len(s) \in 0 .. (Len(s) + 1) - 1
    BY <1>1, SMT
  <2>2. \A i \in 0 .. Len(s) - 1 : Strdup(s)[i] # Nul
    BY <1>1, <1>3, TextBoxAssumption, SMT
  <2> QED BY <1>3, <2>1, <2>2, StrLenIs
<1>5. Str(Strdup(s), Len(s) + 1) = [i \in 1 .. Len(s) |-> Strdup(s)[i - 1]]
  BY <1>4 DEF Str
<1>6. ASSUME NEW i \in 1 .. Len(s)
      PROVE  Strdup(s)[i - 1] = s[i]
  BY <1>1, <1>3, SMT
<1>7. s = [i \in 1 .. Len(s) |-> s[i]]
  BY <1>1, LenProperties
<1>8. Len(s) + 1 \in Nat \ {0}
  BY <1>1, SMT
<1> QED BY <1>2, <1>5, <1>6, <1>7, <1>8

LEMMA ShowKeeps ==
  ASSUME BoxInv, NEW str \in Shown, Show(str)
  PROVE  BoxInv'
<1>1. /\ text' = Strdup(str) /\ bufsz' = Len(str) + 1 /\ cursor' = 0 /\ told' = str /\ len' = len
      /\ str \in Seq(Chars)
  BY TextBoxAssumption DEF Show
<1>2. /\ Len(str) + 1 \in Nat \ {0} /\ Strdup(str) \in [0 .. Len(str) -> Bytes]
      /\ Str(Strdup(str), Len(str) + 1) = str
  BY <1>1, StrdupIs
<1>3. (Len(str) + 1) - 1 = Len(str) /\ 0 \in 0 .. len
  BY <1>1, SMT DEF BoxInv
<1>4. text' \in [0 .. bufsz' - 1 -> Bytes]
  BY <1>1, <1>2, <1>3
<1> QED BY <1>1, <1>2, <1>3, <1>4 DEF BoxInv

LEMMA KeyKeeps ==
  ASSUME BoxInv, Key
  PROVE  BoxInv'
<1>1. ASSUME NEW c \in Chars, Typed(c)
      PROVE  BoxInv'
  <2>1. bufsz' \in Nat \ {0} /\ text' \in [0 .. bufsz' - 1 -> Bytes]
    BY <1>1, TypedBytes
  <2>2. len' = len + 1 /\ cursor' = cursor + 1 /\ told' = Str(text', bufsz')
    BY <1>1 DEF Typed, Notify
  <2>3. len' \in Nat /\ cursor' \in 0 .. len'
    BY <2>2, SMT DEF BoxInv
  <2> QED BY <2>1, <2>2, <2>3 DEF BoxInv
<1>2. CASE BackspaceKey
  <2>1. text' \in [0 .. bufsz - 1 -> Bytes] /\ len - 1 \in Nat
    BY <1>2, BackspaceBytes
  <2>2. /\ len' = len - 1 /\ cursor' = cursor - 1 /\ bufsz' = bufsz /\ cursor > 0
        /\ told' = Str(text', bufsz')
    BY <1>2 DEF BackspaceKey, Notify
  <2>3. len' \in Nat /\ cursor' \in 0 .. len'
    BY <2>1, <2>2, SMT DEF BoxInv
  <2> QED BY <2>1, <2>2, <2>3 DEF BoxInv
<1>3. CASE DeleteKey
  <2>1. text' \in [0 .. bufsz - 1 -> Bytes] /\ cursor <= len - 1
    BY <1>3, DeleteBytes
  <2>2. len' = len - 1 /\ cursor' = cursor /\ bufsz' = bufsz /\ told' = Str(text', bufsz')
    BY <1>3 DEF DeleteKey, Notify
  <2>3. len' \in Nat /\ cursor' \in 0 .. len'
    BY <2>1, <2>2, SMT DEF BoxInv
  <2> QED BY <2>1, <2>2, <2>3 DEF BoxInv
<1>4. CASE Move
  <2>1. cursor' \in 0 .. len
    BY <1>4, SMT DEF Move, BoxInv
  <2> QED BY <1>4, <2>1 DEF Move, BoxInv
<1> QED BY <1>1, <1>2, <1>3, <1>4 DEF Key

-----------------------------------------------------------------------------
(* The keys of a line editor.                                              *)

\* What is to be shown of every key.
LikeLine == Honest' /\ (Line!Edit \/ UNCHANGED <<text, cursor, told>>)

\* The line after a key, from its bytes.
LEMMA NextLine ==
  ASSUME BoxInv', NEW s \in Seq(Chars), len' = Len(s), len' < bufsz', text'[len'] = Nul,
         \A i \in 1 .. Len(s) : text'[i - 1] = s[i]
  PROVE  Honest' /\ Str(text', bufsz') = s
<1>1. Len(s) \in Nat /\ \A i \in 1 .. Len(s) : s[i] \in Chars
  BY ElementOfSeq, LenProperties
<1>2. ASSUME NEW i \in 0 .. len' - 1
      PROVE  text'[i] \in Chars
  <2>1. i + 1 \in 1 .. Len(s) /\ (i + 1) - 1 = i
    BY <1>1, SMT
  <2> QED BY <1>1, <2>1
<1>3. Honest'
  BY <1>2 DEF Honest
<1>4. StrLen(text', bufsz') = len'
  <2>1. bufsz' \in Nat /\ len' \in 0 .. bufsz' - 1
    BY SMT DEF BoxInv
  <2>2. \A i \in 0 .. len' - 1 : text'[i] # Nul
    BY <1>2, TextBoxAssumption
  <2> QED BY <2>1, <2>2, StrLenIs
<1>5. Str(text', bufsz') = [i \in 1 .. Len(s) |-> text'[i - 1]]
  BY <1>4 DEF Str
<1>6. s = [i \in 1 .. Len(s) |-> s[i]]
  BY LenProperties
<1> QED BY <1>3, <1>5, <1>6

LEMMA TypedLikeLine ==
  ASSUME BoxInv, BoxInv', Honest, NEW c \in Chars, Typed(c)
  PROVE  LikeLine
<1> DEFINE line == Str(text, bufsz)
           new  == InsertAt(line, cursor + 1, c)
<1>1. /\ line \in Seq(Chars) /\ Len(line) = len
      /\ \A i \in 1 .. len : line[i] = text[i - 1]
  BY HonestLine
<1>2. len \in Nat /\ cursor \in 0 .. len
  BY DEF BoxInv
<1> HIDE DEF line
<1>3. /\ new \in Seq(Chars) /\ Len(new) = len + 1
      /\ \A i \in 1 .. len + 1 : new[i] = Inserted(line, cursor + 1, c, i)
  <2>1. cursor + 1 \in 1 .. Len(line) + 1
    BY <1>1, <1>2, SMT
  <2> QED BY <1>1, <2>1, InsertAtIs
<1>4. /\ len + 1 < bufsz'
      /\ \A i \in 0 .. len + 1 :
           text'[i] = IF i < cursor THEN text[i] ELSE IF i = cursor THEN c ELSE text[i - 1]
  BY TypedBytes
<1>5. len' = len + 1 /\ cursor' = cursor + 1 /\ told' = Str(text', bufsz')
  BY DEF Typed, Notify
<1> HIDE DEF new
<1>6. ASSUME NEW i \in 1 .. Len(new)
      PROVE  text'[i - 1] = new[i]
  <2>1. i - 1 \in 0 .. len + 1 /\ i \in 1 .. len + 1 /\ i \in Int
    BY <1>2, <1>3, SMT
  <2>2. CASE i < cursor + 1
    <3>1. text'[i - 1] = text[i - 1] /\ i \in 1 .. len
      BY <1>2, <1>4, <2>1, <2>2, SMT
    <3> QED BY <1>1, <1>3, <2>1, <2>2, <3>1 DEF Inserted
  <2>3. CASE i = cursor + 1
    <3>1. i - 1 = cursor /\ ~(i - 1 < cursor) /\ ~(i < cursor + 1)
      BY <1>2, <2>1, <2>3, SMT
    <3> QED BY <1>3, <1>4, <2>1, <2>3, <3>1 DEF Inserted
  <2>4. CASE i > cursor + 1
    <3>1. /\ ~(i - 1 < cursor) /\ i - 1 # cursor /\ ~(i < cursor + 1) /\ i # cursor + 1
          /\ i - 1 \in 1 .. len
      BY <1>2, <2>1, <2>4, SMT
    <3>2. text'[i - 1] = text[(i - 1) - 1] /\ new[i] = line[i - 1]
      BY <1>3, <1>4, <2>1, <3>1 DEF Inserted
    <3> QED BY <1>1, <3>1, <3>2
  <2> QED BY <1>2, <2>1, <2>2, <2>3, <2>4, SMT
<1>7. text'[len'] = Nul
  <2>1. len + 1 \in 0 .. len + 1 /\ ~(len + 1 < cursor) /\ len + 1 # cursor /\ (len + 1) - 1 = len
    BY <1>2, SMT
  <2> QED BY <1>4, <1>5, <2>1 DEF Honest
<1>8. Honest' /\ Str(text', bufsz') = new
  BY <1>3, <1>4, <1>5, <1>6, <1>7, NextLine
<1>9. Line!Type(c)
  BY <1>5, <1>8 DEF new, line, Line!Type, Line!Becomes, Line!InsertAt, InsertAt
<1> QED BY <1>8, <1>9 DEF LikeLine, Line!Edit

\* BACKSPACE and DEL: the bytes from place p on move down by one.
LEMMA RemovedLikeLine ==
  ASSUME BoxInv, BoxInv', Honest, NEW p \in 1 .. len,
         bufsz' = bufsz, len' = len - 1,
         \A i \in 0 .. len - 1 : text'[i] = IF i < p - 1 THEN text[i] ELSE text[i + 1]
  PROVE  Honest' /\ Str(text', bufsz') = RemoveAt(Str(text, bufsz), p)
<1> DEFINE line == Str(text, bufsz)
           new  == RemoveAt(line, p)
<1>1. /\ line \in Seq(Chars) /\ Len(line) = len
      /\ \A i \in 1 .. len : line[i] = text[i - 1]
  BY HonestLine
<1>2. len \in Nat /\ len < bufsz /\ text[len] = Nul
  BY DEF BoxInv, Honest
<1> HIDE DEF line
<1>3. /\ new \in Seq(Chars) /\ Len(new) = len - 1
      /\ \A i \in 1 .. len - 1 : new[i] = Removed(line, p, i)
  BY <1>1, RemoveAtIs
<1> HIDE DEF new
<1>4. ASSUME NEW i \in 1 .. Len(new)
      PROVE  text'[i - 1] = new[i]
  <2>1. i \in 1 .. len - 1 /\ i - 1 \in 0 .. len - 1 /\ i \in 1 .. len /\ i + 1 \in 1 .. len
        /\ (i + 1) - 1 = i /\ (i - 1) + 1 = i
    BY <1>2, <1>3, SMT
  <2>2. CASE i < p
    <3>1. i - 1 < p - 1
      BY <2>1, <2>2, SMT
    <3>2. text'[i - 1] = text[i - 1] /\ new[i] = line[i]
      BY <1>3, <2>1, <2>2, <3>1 DEF Removed
    <3> QED BY <1>1, <2>1, <3>2
  <2>3. CASE ~(i < p)
    <3>1. ~(i - 1 < p - 1)
      BY <2>1, <2>3, SMT
    <3>2. text'[i - 1] = text[i] /\ new[i] = line[i + 1]
      BY <1>3, <2>1, <2>3, <3>1 DEF Removed
    <3>3. line[i + 1] = text[i]
      BY <1>1, <2>1
    <3> QED BY <3>2, <3>3
  <2> QED BY <2>2, <2>3
<1>5. text'[len'] = Nul /\ len' < bufsz'
  <2>1. /\ len - 1 \in 0 .. len - 1 /\ (len - 1) + 1 = len /\ ~(len - 1 < p - 1)
        /\ len - 1 < bufsz
    BY <1>2, SMT DEF BoxInv
  <2> QED BY <1>2, <2>1
<1>6. Honest' /\ Str(text', bufsz') = new
  BY <1>3, <1>4, <1>5, NextLine
<1> QED BY <1>6 DEF new, line

LEMMA BackspaceLikeLine ==
  ASSUME BoxInv, BoxInv', Honest, BackspaceKey
  PROVE  LikeLine
<1>1. /\ len' = len - 1 /\ cursor' = cursor - 1 /\ bufsz' = bufsz /\ cursor > 0
      /\ told' = Str(text', bufsz')
  BY DEF BackspaceKey, Notify
<1>2. cursor \in 1 .. len
  BY <1>1, SMT DEF BoxInv
<1>3. \A i \in 0 .. len - 1 : text'[i] = IF i < cursor - 1 THEN text[i] ELSE text[i + 1]
  BY BackspaceBytes
<1>4. Honest' /\ Str(text', bufsz') = RemoveAt(Str(text, bufsz), cursor)
  BY <1>1, <1>2, <1>3, RemovedLikeLine
<1>5. Line!Backspace
  BY <1>1, <1>4 DEF Line!Backspace, Line!Becomes, Line!RemoveAt, RemoveAt
<1> QED BY <1>4, <1>5 DEF LikeLine, Line!Edit

LEMMA DeleteLikeLine ==
  ASSUME BoxInv, BoxInv', Honest, DeleteKey
  PROVE  LikeLine
<1>1. /\ len' = len - 1 /\ cursor' = cursor /\ bufsz' = bufsz /\ cursor < len
      /\ told' = Str(text', bufsz')
  BY DEF DeleteKey, Notify
<1>2. cursor + 1 \in 1 .. len /\ (cursor + 1) - 1 = cursor
  BY <1>1, SMT DEF BoxInv
<1>3. \A i \in 0 .. len - 1 : text'[i] = IF i < (cursor + 1) - 1 THEN text[i] ELSE text[i + 1]
  <2>1. \A i \in 0 .. len - 1 : text'[i] = IF i < cursor THEN text[i] ELSE text[i + 1]
    BY DeleteBytes
  <2> QED BY <1>2, <2>1
<1>4. Honest' /\ Str(text', bufsz') = RemoveAt(Str(text, bufsz), cursor + 1)
  BY <1>1, <1>2, <1>3, RemovedLikeLine
<1>5. cursor < Len(Str(text, bufsz))
  BY <1>1, HonestLine
<1>6. Line!Delete
  BY <1>1, <1>4, <1>5 DEF Line!Delete, Line!Becomes, Line!RemoveAt, RemoveAt
<1> QED BY <1>4, <1>6 DEF LikeLine, Line!Edit

LEMMA MoveLikeLine ==
  ASSUME BoxInv, Honest, Move
  PROVE  LikeLine
<1>1. /\ UNCHANGED <<bufsz, text, len, told>>
      /\ cursor' \in {0, len} \cup {i \in {cursor - 1, cursor + 1} : i \in 0 .. len}
  BY DEF Move
<1>2. Honest'
  BY <1>1 DEF Honest
<1>3. Len(Str(text, bufsz)) = len /\ len \in Nat /\ told = Str(text, bufsz)
  BY HonestLine DEF BoxInv
<1>4. cursor' \in {0, cursor - 1, cursor + 1, len} /\ cursor' \in 0 .. len
  BY <1>1, <1>3, SMT
<1>5. Line!GoTo(cursor')
  BY <1>1, <1>3, <1>4 DEF Line!GoTo, Line!Becomes
<1>6. Line!Edit
  BY <1>3, <1>4, <1>5 DEF Line!Edit
<1> QED BY <1>2, <1>6 DEF LikeLine

-----------------------------------------------------------------------------
(* The theorems.                                                           *)

LEMMA BoxInitInv == BoxInit => BoxInv
<1> SUFFICES ASSUME BoxInit PROVE BoxInv
  OBVIOUS
<1>1. bufsz = 1 /\ text = Strdup(<<>>) /\ len = 0 /\ cursor = 0 /\ told = <<>>
  BY DEF BoxInit
<1>2. <<>> \in Seq(Chars) /\ Len(<<>>) = 0
  BY EmptySeq
<1>3. Strdup(<<>>) \in [0 .. 0 -> Bytes] /\ Str(Strdup(<<>>), 1) = <<>>
  <2>1. Strdup(<<>>) \in [0 .. Len(<<>>) -> Bytes] /\ Str(Strdup(<<>>), Len(<<>>) + 1) = <<>>
    BY <1>2, StrdupIs
  <2> QED BY <1>2, <2>1
<1>4. 0 .. 0 = 0 .. bufsz - 1
  BY <1>1, SMT
<1> QED BY <1>1, <1>3, <1>4 DEF BoxInv

THEOREM BoxInvariant == BoxSpec => []BoxInv
<1>1. ASSUME BoxInv, [BoxNext]_boxVars
      PROVE  BoxInv'
  <2>1. CASE \E str \in Shown : Show(str)
    BY <1>1, <2>1, ShowKeeps
  <2>2. CASE Key
    BY <1>1, <2>2, KeyKeeps
  <2>3. CASE UNCHANGED boxVars
    BY <1>1, <2>3 DEF boxVars, BoxInv
  <2> QED BY <1>1, <2>1, <2>2, <2>3 DEF BoxNext
<1> QED BY <1>1, BoxInitInv, PTL DEF BoxSpec

\* While its length is right, no key reads or writes outside the buffer of the
\* text box.
THEOREM KeysStayInside == BoxSpec => []EditsFit
<1>1. BoxInv => EditsFit
  BY HonestFits DEF EditsFit
<1> QED BY <1>1, BoxInvariant, PTL

\* While its length is right, every key is one of the line editor, and leaves
\* the length right: only rtk_set_text can make it wrong.
THEOREM KeysEditALine == BoxSpec => EditsLikeALineEditor
<1>1. ASSUME BoxInv, [BoxNext]_boxVars
      PROVE  [Key /\ Honest => Honest' /\ (Line!Edit \/ UNCHANGED <<text, cursor, told>>)]_boxVars
  <2>1. ASSUME Key, Honest
        PROVE  LikeLine
    <3>1. BoxInv'
      BY <1>1, <2>1, KeyKeeps
    <3> QED
      BY <1>1, <2>1, <3>1, TypedLikeLine, BackspaceLikeLine, DeleteLikeLine, MoveLikeLine DEF Key
  <2> QED BY <2>1 DEF LikeLine
<1> QED BY <1>1, BoxInvariant, PTL DEF BoxSpec, EditsLikeALineEditor

-----------------------------------------------------------------------------
(* Who gets the input.                                                     *)


RInv ==
  /\ TypeOK
  /\ DragsAreHeld
  /\ ModalNotUnderDrag
  /\ ModalIsShown
  /\ CursorShowsFocus

-----------------------------------------------------------------------------
(* What the operators of the toolkit do to the invariant.                  *)

\* Whatever is under the mouse while a modal window is open is part of it.
LEMMA SearchIsModal ==
  ASSUME modal # None, NEW w \in UnderMouse, w # None
  PROVE  WindowOf(w) = modal
BY DEF UnderMouse, Searched

\* Hiding any window keeps the modal windows in step with the modal pointer.
LEMMA HideKeeps ==
  ASSUME RInv, NEW win, Hide(win)
  PROVE  /\ visible' \subseteq Windows
         /\ modal' \in ModalWindows \cup {None}
         /\ visible' \cap ModalWindows = {modal'} \ {None}
         /\ modal # None \/ modal' = None
BY RtkAssumption DEF RInv, TypeOK, ModalIsShown, Hide, ModalWindows

\* A click keeps them in step as well: only a control of a window that is not
\* modal opens a menu or a dialog.
LEMMA ClickKeeps ==
  ASSUME RInv, NEW w \in UnderMouse, w # None, Click(w)
  PROVE  /\ visible' \subseteq Windows
         /\ modal' \in ModalWindows \cup {None}
         /\ visible' \cap ModalWindows = {modal'} \ {None}
         /\ curTool' \in ToolNames
<1> USE RtkAssumption
<1>1. CASE w \in Windows
  BY <1>1 DEF Click, RInv, TypeOK, ModalIsShown
<1>2. CASE w \notin Windows
  <2>1. w \in Controls /\ WindowOf(w) = Parent[w]
    BY <1>2 DEF UnderMouse, Widgets, WindowOf
  <2>2. curTool \in ToolNames /\ "sel" \in ToolNames
    BY DEF RInv, TypeOK, ToolNames
  <2>3. CASE Role[w] \in {"menu", "picker"} /\ ShowModal(Opens[w]) /\ UNCHANGED curTool
    <3>1. modal = None
      BY <2>1, <2>3, SearchIsModal DEF RInv, TypeOK
    <3>2. Opens[w] \in ModalWindows /\ Opens[w] \in Windows
      BY <2>1, <2>3 DEF ModalWindows
    <3>3. QED
      BY <2>2, <2>3, <3>1, <3>2 DEF ShowModal, RInv, TypeOK, ModalIsShown
  <2>4. CASE Hide(Parent[w]) /\ UNCHANGED curTool
    BY <2>2, <2>4, HideKeeps
  <2>5. CASE Hide(Opens[w]) /\ UNCHANGED curTool
    BY <2>2, <2>5, HideKeeps
  <2>6. CASE /\ Role[w] = "toggle"
             /\ visible' = visible \cup {Opens[w]} /\ UNCHANGED <<modal, curTool>>
    BY <2>1, <2>2, <2>6 DEF RInv, TypeOK, ModalIsShown
  <2>7. CASE Hide(Editor) /\ curTool' = "sel"
    BY <2>2, <2>7, HideKeeps
  <2>8. CASE curTool' \in ToolNames /\ UNCHANGED <<visible, modal>>
    BY <2>8 DEF RInv, TypeOK, ModalIsShown
  <2>9. CASE UNCHANGED <<visible, modal, curTool>>
    BY <2>2, <2>9 DEF RInv, TypeOK, ModalIsShown
  <2>10. QED
    BY <1>2, <2>3, <2>4, <2>5, <2>6, <2>7, <2>8, <2>9 DEF Click
<1>3. QED BY <1>1, <1>2

\* The focus moves with its flag.
LEMMA FocusKeeps ==
  ASSUME RInv, NEW w \in Widgets \cup {None}, SetFocus(w)
  PROVE  /\ focus' \in {c \in Controls : Role[c] = "textbox"} \cup {None}
         /\ focused' \subseteq Widgets
         /\ focused' \cap {c \in Controls : Role[c] = "textbox"} \subseteq {focus'}
BY RtkAssumption DEF SetFocus, RInv, TypeOK, WindowOf, Widgets

-----------------------------------------------------------------------------
(* What the viewport does to the invariant.                                *)

LEMMA ViewportPressKeeps ==
  ASSUME RInv, NEW bn \in Buttons, NEW pt \in Points, NEW nav \in BOOLEAN,
         ViewportPress(bn, pt, nav), down' = down \cup {bn}
  PROVE  /\ vpnav' \subseteq Buttons /\ down' \subseteq Buttons
         /\ origin' \in Points /\ rbandValid' \in BOOLEAN
         /\ pick' \in Objects \cup {None}
         /\ vpnav' \subseteq vpdrag' /\ vpdrag' \subseteq down'
BY DEF ViewportPress, RInv, TypeOK, DragsAreHeld

LEMMA ViewportReleaseKeeps ==
  ASSUME RInv, NEW bn \in Buttons, NEW pt \in Points,
         ViewportRelease(bn, pt), down' = down \ {bn}
  PROVE  /\ vpnav' \subseteq Buttons /\ down' \subseteq Buttons
         /\ origin' \in Points /\ rbandValid' \in BOOLEAN
         /\ pick' \in Objects \cup {None}
         /\ vpnav' \subseteq vpdrag' /\ vpdrag' \subseteq down'
         /\ vpdrag' \subseteq vpdrag
BY DEF ViewportRelease, RInv, TypeOK, DragsAreHeld

-----------------------------------------------------------------------------
(* The invariant is inductive.                                             *)

LEMMA InitRInv == Init => RInv
BY RtkAssumption DEF Init, InitAt, RInv, TypeOK, DragsAreHeld, ModalNotUnderDrag,
     ModalIsShown, CursorShowsFocus, ToolNames, Widgets

LEMMA PressKeeps ==
  ASSUME RInv, NEW bn \in Buttons, NEW w \in Widgets \cup {None}, NEW pt \in Points,
         NEW nav \in BOOLEAN, MousePress(bn, w, pt, nav)
  PROVE  RInv'
<1>1. /\ down' = down \cup {bn} /\ asked' = FALSE
      /\ visible' = visible /\ modal' = modal /\ curTool' = curTool
      /\ focus' = focus /\ focused' = focused
      /\ press' \in Widgets \cup {None}
  BY DEF MousePress, WidgetPress, toolkit, RInv, TypeOK
<1>2. CASE ViewportPress(bn, pt, nav) /\ (vpdrag # {} \/ modal = None)
  <2>1. TypeOK' /\ DragsAreHeld'
    BY <1>1, <1>2, ViewportPressKeeps DEF RInv, TypeOK, DragsAreHeld
  <2>2. modal = None
    BY <1>2 DEF RInv, ModalNotUnderDrag
  <2>3. QED
    BY <1>1, <2>1, <2>2 DEF RInv, ModalNotUnderDrag, ModalIsShown, CursorShowsFocus
<1>3. CASE UNCHANGED viewport
  <2>1. TypeOK' /\ DragsAreHeld'
    BY <1>1, <1>3 DEF viewport, RInv, TypeOK, DragsAreHeld
  <2>2. QED
    BY <1>1, <1>3, <2>1 DEF viewport, RInv, ModalNotUnderDrag, ModalIsShown, CursorShowsFocus
<1>4. QED
  BY <1>2, <1>3 DEF MousePress, ToolkitFirst, Handles

LEMMA ReleaseKeeps ==
  ASSUME RInv, NEW bn \in Buttons, NEW w \in Widgets \cup {None}, NEW pt \in Points,
         MouseRelease(bn, w, pt)
  PROVE  RInv'
<1> USE RtkAssumption
<1>1. down' = down \ {bn} /\ asked' = FALSE /\ w \in UnderMouse /\ bn \in down
  BY DEF MouseRelease
\* The viewport's part, whichever branch it is reached by.
<1>2. ASSUME ViewportRelease(bn, pt) \/ (UNCHANGED viewport /\ vpdrag = {})
      PROVE  /\ vpnav' \subseteq Buttons /\ down' \subseteq Buttons
             /\ origin' \in Points /\ rbandValid' \in BOOLEAN
             /\ pick' \in Objects \cup {None}
             /\ vpnav' \subseteq vpdrag' /\ vpdrag' \subseteq down'
             /\ vpdrag' \subseteq vpdrag
  <2>1. CASE ViewportRelease(bn, pt)
    BY <1>1, <2>1, ViewportReleaseKeeps
  <2>2. CASE UNCHANGED viewport /\ vpdrag = {}
    BY <1>1, <2>2 DEF viewport, RInv, TypeOK, DragsAreHeld
  <2>3. QED BY <1>2, <2>1, <2>2
\* The toolkit's part.
<1>3. ASSUME \/ ReleaseBeside(w)
             \/ ReleaseLeft(w)
             \/ UNCHANGED <<toolkit, curTool>>
      PROVE  /\ visible' \subseteq Windows
             /\ modal' \in ModalWindows \cup {None}
             /\ visible' \cap ModalWindows = {modal'} \ {None}
             /\ curTool' \in ToolNames
             /\ press' \in Widgets \cup {None}
             /\ focus' \in {c \in Controls : Role[c] = "textbox"} \cup {None}
             /\ focused' \subseteq Widgets
             /\ focused' \cap {c \in Controls : Role[c] = "textbox"} \subseteq {focus'}
  <2>1. CASE ReleaseBeside(w)
    <3>1. Hide(modal) /\ UNCHANGED <<press, focus, focused, curTool>>
      BY <2>1 DEF ReleaseBeside
    <3>2. QED
      BY <3>1, HideKeeps DEF RInv, TypeOK, CursorShowsFocus
  <2>2. CASE ReleaseLeft(w)
    <3>1. press' = None
      BY <2>2 DEF ReleaseLeft
    <3>2. CASE w # None /\ press = w
      BY <1>1, <2>2, <3>1, <3>2, ClickKeeps, FocusKeeps DEF ReleaseLeft
    <3>3. CASE ~ (w # None /\ press = w)
      <4>1. SetFocus(None) /\ UNCHANGED <<visible, modal, curTool>>
        BY <2>2, <3>3 DEF ReleaseLeft
      <4>2. QED
        BY <3>1, <4>1, FocusKeeps DEF RInv, TypeOK, ModalIsShown
    <3>4. QED BY <3>2, <3>3
  <2>3. CASE UNCHANGED <<toolkit, curTool>>
    BY <2>3 DEF toolkit, RInv, TypeOK, ModalIsShown, CursorShowsFocus
  <2>4. QED BY <1>3, <2>1, <2>2, <2>3
<1>4. /\ ReleaseBeside(w) \/ ReleaseLeft(w) \/ UNCHANGED <<toolkit, curTool>>
      /\ ViewportRelease(bn, pt) \/ (UNCHANGED viewport /\ vpdrag = {})
  BY DEF MouseRelease, ToolkitFirst
<1>5. TypeOK' /\ DragsAreHeld' /\ ModalIsShown' /\ CursorShowsFocus'
  BY <1>1, <1>2, <1>3, <1>4 DEF TypeOK, DragsAreHeld, ModalIsShown, CursorShowsFocus
\* A modal window stays or opens only where the drag is none of the viewport's.
<1>6. ModalNotUnderDrag'
  <2>1. CASE vpdrag # {}
    <3>1. modal = None /\ modal' = modal
      BY <2>1 DEF MouseRelease, ToolkitFirst, toolkit, RInv, ModalNotUnderDrag
    <3>2. QED BY <3>1 DEF ModalNotUnderDrag
  <2>2. CASE vpdrag = {}
    BY <1>2, <1>4, <2>2 DEF ModalNotUnderDrag
  <2>3. QED BY <2>1, <2>2
<1>7. QED BY <1>5, <1>6 DEF RInv

LEMMA StepKeeps ==
  ASSUME RInv, [Next]_vars
  PROVE  RInv'
<1>1. CASE \E bn \in Buttons, w \in Widgets \cup {None}, pt \in Points, nav \in BOOLEAN :
             MousePress(bn, w, pt, nav)
  BY <1>1, PressKeeps
<1>2. CASE \E bn \in Buttons, w \in Widgets \cup {None}, pt \in Points :
             MouseRelease(bn, w, pt)
  BY <1>2, ReleaseKeeps
<1>3. CASE \E w \in Widgets \cup {None}, pt \in Points : MouseMotion(w, pt)
  BY <1>3 DEF MouseMotion, toolkit, RInv, TypeOK, DragsAreHeld, ModalNotUnderDrag,
       ModalIsShown, CursorShowsFocus
<1>4. CASE Escape
  <2>1. /\ UNCHANGED <<press, focus, focused, viewport, down>>
        /\ asked' \in BOOLEAN
    BY <1>4 DEF Escape
  <2>2. /\ visible' \subseteq Windows
        /\ modal' \in ModalWindows \cup {None}
        /\ visible' \cap ModalWindows = {modal'} \ {None}
        /\ modal # None \/ modal' = None
        /\ curTool' \in ToolNames
    <3>1. CASE UNCHANGED <<visible, modal, curTool>>
      BY <3>1 DEF RInv, TypeOK, ModalIsShown
    <3>2. CASE Hide(modal) /\ UNCHANGED curTool
      BY <3>2, HideKeeps DEF RInv, TypeOK
    <3>3. CASE Hide(Editor) /\ curTool' = "sel"
      BY <3>3, HideKeeps DEF ToolNames
    <3>4. QED BY <1>4, <3>1, <3>2, <3>3 DEF Escape
  <2>3. QED
    BY <2>1, <2>2 DEF viewport, RInv, TypeOK, DragsAreHeld, ModalNotUnderDrag,
         ModalIsShown, CursorShowsFocus
<1>5. CASE \E t \in ToolNames : ToolKey(t)
  BY <1>5 DEF ToolKey, toolkit, viewport, RInv, TypeOK, DragsAreHeld, ModalNotUnderDrag,
       ModalIsShown, CursorShowsFocus
<1>6. CASE UNCHANGED vars
  BY <1>6 DEF vars, toolkit, viewport, RInv, TypeOK, DragsAreHeld, ModalNotUnderDrag,
       ModalIsShown, CursorShowsFocus
<1>7. QED
  BY <1>1, <1>2, <1>3, <1>4, <1>5, <1>6 DEF Next

\* The inductive invariant holds in every reachable state.
THEOREM RInvHolds == Spec => []RInv
<1>1. RInv /\ [Next]_vars => RInv'
  BY StepKeeps
<1>2. QED
  BY InitRInv, <1>1, PTL DEF Spec

-----------------------------------------------------------------------------
(* The properties.                                                         *)

\* The records of the toolkit (rtk_screen) and the viewport keep their types.
THEOREM TypeCorrect == Spec => []TypeOK
<1>1. RInv => TypeOK
  BY DEF RInv
<1>2. QED BY RInvHolds, <1>1, PTL

\* mdl_mouse clears the bit of every button that it set (vpdrag, vpnav).
THEOREM DragsEndWithTheirButton == Spec => []DragsAreHeld
<1>1. RInv => DragsAreHeld
  BY DEF RInv
<1>2. QED BY RInvHolds, <1>1, PTL

\* No menu or dialog opens while mdl_mouse keeps the mouse for the viewport.
THEOREM ModalsWaitForDrags == Spec => []ModalNotUnderDrag
<1>1. RInv => ModalNotUnderDrag
  BY DEF RInv
<1>2. QED BY RInvHolds, <1>1, PTL

\* rtk_show_modal and rtk_hide keep scr->modal and the VISIBLE flags together.
THEOREM ModalsAreShown == Spec => []ModalIsShown
<1>1. RInv => ModalIsShown
  BY DEF RInv
<1>2. QED BY RInvHolds, <1>1, PTL

\* setfocus keeps the FOCUS flag of a text box with scr->focus.
THEOREM CursorsShowTheFocus == Spec => []CursorShowsFocus
<1>1. RInv => CursorShowsFocus
  BY DEF RInv
<1>2. QED BY RInvHolds, <1>1, PTL

\* mdl_mouse and mdl_motion leave the viewport alone while a window is modal.
THEOREM ModalsOwnTheMouse == Spec => ModalOwnsMouse
<1>1. ASSUME RInv, [Next]_vars, modal # None
      PROVE  UNCHANGED viewport
  <2>1. vpdrag = {}
    BY <1>1 DEF RInv, ModalNotUnderDrag
  <2>2. CASE \E bn \in Buttons, w \in Widgets \cup {None}, pt \in Points, nav \in BOOLEAN :
               MousePress(bn, w, pt, nav)
    BY <1>1, <2>1, <2>2 DEF MousePress, ToolkitFirst, Handles
  <2>3. CASE \E bn \in Buttons, w \in Widgets \cup {None}, pt \in Points :
               MouseRelease(bn, w, pt)
    <3>1. PICK bn \in Buttons, w \in Widgets \cup {None}, pt \in Points :
            MouseRelease(bn, w, pt)
      BY <2>3
    <3>2. CASE ReleaseLeft(w)
      <4>1. w # None
        BY <1>1, <3>2 DEF ReleaseLeft
      <4>2. QED
        BY <1>1, <2>1, <3>1, <4>1 DEF MouseRelease, ToolkitFirst
    <3>3. CASE ~ ReleaseLeft(w)
      BY <1>1, <2>1, <3>1, <3>3 DEF MouseRelease, ToolkitFirst
    <3>4. QED BY <3>2, <3>3
  <2>4. CASE \E w \in Widgets \cup {None}, pt \in Points : MouseMotion(w, pt)
    BY <1>1, <2>1, <2>4 DEF MouseMotion, ToolkitFirst, Handles
  <2>5. CASE Escape \/ (\E t \in ToolNames : ToolKey(t)) \/ UNCHANGED vars
    BY <2>5 DEF Escape, ToolKey, vars, viewport
  <2>6. QED
    BY <1>1, <2>2, <2>3, <2>4, <2>5 DEF Next
<1>2. RInv /\ [Next]_vars => [modal # None => UNCHANGED viewport]_vars
  BY <1>1
<1>3. QED
  BY RInvHolds, <1>2, PTL DEF Spec, ModalOwnsMouse
=============================================================================
