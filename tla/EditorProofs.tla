---------------------------- MODULE EditorProofs ----------------------------
(***************************************************************************)
(* Proofs about the material editor, for any colours, slider positions and *)
(* materials.  What the window and the colour dialog show of the current   *)
(* material is an inductive invariant once the types are part of it, and   *)
(* that the dialog has a colour while it is open.                          *)
(***************************************************************************)
EXTENDS MtlEditor, SequenceTheorems, TLAPS

Dialogs == [dest : Nat, hue : Hues, sat : {0, 1}]

SceneOK   == mtl \in Seq(Material) /\ curmtl \in -1 .. Len(mtl) - 1
FieldsOK  == label \in Nat \X Nat /\ slider \in Positions
CacheOK   == preview \in [pixels : Material \cup {None}, valid : BOOLEAN]
ColorwOK  == colorw \in Dialogs \cup {None}
PointerOK ==
  /\ press \in {"slider", "huebar", "huebox", None} /\ held \in BOOLEAN
  /\ held => press # None
  /\ focuswin \in Wins \cup {"toolbar"}
ScreenOK ==
  /\ visible \subseteq Wins /\ dirty \subseteq Widgets \cup Wins /\ vpdirty \in BOOLEAN
  /\ DOMAIN shown = Widgets

\* The dialog has a colour, and its target, while it is open.
DialogOK == Modal => colorw \in Dialogs

Core == SceneOK /\ FieldsOK /\ CacheOK /\ ColorwOK /\ DialogOK
        /\ EditorShowsCurrent /\ PickerTargetsCurrent

EditorInv == Core /\ PointerOK /\ ScreenOK

-----------------------------------------------------------------------------
(* What the operations are made of.                                        *)

\* The current material is one.
LEMMA CurIsMaterial ==
  ASSUME SceneOK, curmtl # -1
  PROVE  Cur \in Material /\ curmtl + 1 \in 1 .. Len(mtl)
<1>1. curmtl + 1 \in 1 .. Len(mtl)
  BY SMT DEF SceneOK
<1> QED BY <1>1, ElementOfSeq DEF SceneOK, Cur

\* Colours come back from hue and saturation.
LEMMA ColorTypes ==
  ASSUME NEW c \in Colors, NEW h \in Hues, NEW s \in {0, 1}
  PROVE  /\ HueOf(c) \in Hues /\ SatOf(c) \in {0, 1}
         /\ HsvToRgb(h, s) \in Colors
BY EditorAssumption DEF HueOf, SatOf, HsvToRgb, Colors

\* A remainder is an index.
LEMMA ModIsIndex ==
  ASSUME NEW a \in Int, NEW n \in Nat \ {0}
  PROVE  a % n \in 0 .. n - 1
BY SMT

\* select_material brings label, slider and preview up to date.
LEMMA SelectKeeps ==
  ASSUME FieldsOK, CacheOK, mtl' \in Seq(Material), NEW i \in 0 .. Len(mtl') - 1,
         SelectMaterial(i)
  PROVE  SceneOK' /\ FieldsOK' /\ CacheOK' /\ EditorShowsCurrent'
<1>1. curmtl' = i /\ label' = <<i + 1, Len(mtl')>> /\ slider' = mtl'[i + 1].refl
      /\ preview' = [preview EXCEPT !.valid = FALSE]
  BY DEF SelectMaterial
<1>2. Len(mtl') \in Nat /\ i + 1 \in 1 .. Len(mtl') /\ i \in Nat
  BY SMT
<1>3. mtl'[i + 1] \in Material
  BY <1>2, ElementOfSeq
<1>4. SceneOK'
  BY <1>1, SMT DEF SceneOK
<1>5. FieldsOK'
  BY <1>1, <1>2, <1>3, SMT DEF FieldsOK, Material
<1>6. CacheOK' /\ preview'.valid = FALSE
  BY <1>1 DEF CacheOK
<1>7. EditorShowsCurrent'
  BY <1>1, <1>6 DEF EditorShowsCurrent, Cur
<1> QED BY <1>4, <1>5, <1>6, <1>7

\* A step that touches none of it.
LEMMA CoreUnchanged ==
  ASSUME Core, UNCHANGED <<scene, fields, preview, colorw, visible>>
  PROVE  Core'
<1>1. /\ mtl' = mtl /\ curmtl' = curmtl /\ label' = label /\ slider' = slider
      /\ preview' = preview /\ colorw' = colorw /\ visible' = visible
  BY DEF scene, fields
<1> QED
  BY <1>1 DEF Core, SceneOK, FieldsOK, CacheOK, ColorwOK, DialogOK, Modal, Cur,
     EditorShowsCurrent, PickerTargetsCurrent

\* Hiding a window.
LEMMA HideKeeps ==
  ASSUME Core, NEW win \in Wins, HideWindow(win)
  PROVE  ColorwOK' /\ DialogOK' /\ (Modal' => Modal /\ colorw' = colorw)
<1>1. visible' = visible \ {win}
      /\ colorw' = IF win = "colordlg" THEN None ELSE colorw
  BY DEF HideWindow
<1> QED BY <1>1 DEF Core, ColorwOK, DialogOK, Modal

-----------------------------------------------------------------------------
(* The handlers.                                                           *)

LEMMA StepMaterialKeeps ==
  ASSUME Core, NEW d \in {-1, 1}, StepMaterial(d)
  PROVE  Core'
<1> DEFINE i == (curmtl + (IF d = -1 THEN Len(mtl) - 1 ELSE 1)) % Len(mtl)
<1>1. /\ mtl # <<>> /\ mtl' = mtl /\ SelectMaterial(i) /\ ~Modal
      /\ colorw' = colorw /\ visible' = visible
  BY DEF StepMaterial, Click
<1>2. Len(mtl) \in Nat \ {0} /\ curmtl \in Int
  BY <1>1, EmptySeq DEF Core, SceneOK
<1>3. i \in 0 .. Len(mtl') - 1
  <2>1. curmtl + (IF d = -1 THEN Len(mtl) - 1 ELSE 1) \in Int
    BY <1>2, SMT
  <2> QED BY <1>1, <1>2, <2>1, ModIsIndex
<1>4. SceneOK' /\ FieldsOK' /\ CacheOK' /\ EditorShowsCurrent'
  BY <1>1, <1>3, SelectKeeps DEF Core, SceneOK
<1> QED BY <1>1, <1>4 DEF Core, ColorwOK, DialogOK, Modal, PickerTargetsCurrent

LEMMA AddMaterialKeeps ==
  ASSUME Core, NEW m \in Material, AddMaterial(m)
  PROVE  Core'
<1>1. /\ mtl' = Append(mtl, m) /\ SelectMaterial(Len(mtl)) /\ ~Modal
      /\ colorw' = colorw /\ visible' = visible
  BY DEF AddMaterial, Click
<1>2. mtl' \in Seq(Material) /\ Len(mtl) \in 0 .. Len(mtl') - 1
  BY <1>1, SMT DEF Core, SceneOK
<1>3. SceneOK' /\ FieldsOK' /\ CacheOK' /\ EditorShowsCurrent'
  BY <1>1, <1>2, SelectKeeps DEF Core
<1> QED BY <1>1, <1>3 DEF Core, ColorwOK, DialogOK, Modal, PickerTargetsCurrent

LEMMA PickColorKeeps ==
  ASSUME Core, PickColor
  PROVE  Core'
<1>1. /\ curmtl # -1 /\ UNCHANGED <<scene, fields, preview>>
      /\ colorw' = [dest |-> curmtl, hue |-> HueOf(Cur.kd), sat |-> SatOf(Cur.kd)]
  BY DEF PickColor
<1>2. Cur.kd \in Colors /\ curmtl \in Nat
  <2>1. Cur \in Material
    BY <1>1, CurIsMaterial DEF Core
  <2>2. curmtl \in Nat
    BY <1>1, SMT DEF Core, SceneOK
  <2> QED BY <2>1, <2>2 DEF Material
<1>3. HueOf(Cur.kd) \in Hues /\ SatOf(Cur.kd) \in {0, 1}
  BY <1>2, EditorAssumption, ColorTypes
<1>4. colorw' \in Dialogs /\ colorw'.dest = curmtl
  BY <1>1, <1>2, <1>3 DEF Dialogs
<1>5. mtl' = mtl /\ curmtl' = curmtl /\ label' = label /\ slider' = slider /\ preview' = preview
  BY <1>1 DEF scene, fields
<1> QED
  BY <1>1, <1>4, <1>5 DEF Core, SceneOK, FieldsOK, CacheOK, ColorwOK, DialogOK, Cur,
     EditorShowsCurrent, PickerTargetsCurrent

LEMMA CloseDialogKeeps ==
  ASSUME Core, ScreenOK, NEW ok \in BOOLEAN, CloseDialog(ok)
  PROVE  Core'
<1>1. /\ Modal /\ HideWindow("colordlg") /\ curmtl' = curmtl
      /\ label' = label /\ slider' = slider
  BY DEF CloseDialog, fields
<1>2. ColorwOK' /\ ~Modal'
  BY <1>1, HideKeeps DEF HideWindow, Modal, Wins
<1>3. PickerTargetsCurrent' /\ DialogOK'
  BY <1>2 DEF PickerTargetsCurrent, DialogOK
<1>4. CASE ok = TRUE
  <2> DEFINE new == [Cur EXCEPT !.kd = HsvToRgb(colorw.hue, colorw.sat)]
  <2>1. /\ mtl' = [mtl EXCEPT ![colorw.dest + 1].kd = HsvToRgb(colorw.hue, colorw.sat)]
        /\ preview' = [preview EXCEPT !.valid = FALSE]
    BY <1>4 DEF CloseDialog
  <2>2. colorw \in Dialogs /\ colorw.dest = curmtl /\ curmtl # -1
    BY <1>1 DEF Core, DialogOK, PickerTargetsCurrent
  <2>3. Cur \in Material /\ curmtl + 1 \in 1 .. Len(mtl)
    BY <2>2, CurIsMaterial DEF Core
  <2>4. colorw.hue \in Hues /\ colorw.sat \in {0, 1}
    BY <2>2 DEF Dialogs
  <2>5. HsvToRgb(colorw.hue, colorw.sat) \in Colors
    BY <2>4 DEF HsvToRgb, Colors
  <2>6. new \in Material /\ new.refl = Cur.refl
    BY <2>3, <2>5 DEF Material
  <2>7. mtl' = [mtl EXCEPT ![curmtl + 1] = new]
    BY <2>1, <2>2 DEF Cur
  <2>8. mtl' \in Seq(Material) /\ Len(mtl') = Len(mtl) /\ mtl'[curmtl + 1] = new
    BY <2>3, <2>6, <2>7, ExceptSeq DEF Core, SceneOK
  <2>9. SceneOK' /\ FieldsOK'
    BY <1>1, <2>8 DEF Core, SceneOK, FieldsOK
  <2>10. CacheOK' /\ preview'.valid = FALSE
    BY <2>1 DEF Core, CacheOK
  <2>11. EditorShowsCurrent'
    BY <1>1, <2>2, <2>6, <2>8, <2>10 DEF Core, EditorShowsCurrent, Cur
  <2> QED BY <1>2, <1>3, <2>9, <2>10, <2>11 DEF Core
<1>5. CASE ok = FALSE
  <2>1. mtl' = mtl /\ preview' = preview
    BY <1>5 DEF CloseDialog
  <2> QED BY <1>1, <1>2, <1>3, <2>1 DEF Core, SceneOK, FieldsOK, CacheOK, EditorShowsCurrent, Cur
<1> QED BY <1>4, <1>5

LEMMA ReplaceKeeps ==
  ASSUME Core, NEW file \in Files \cup {<<>>}, Replace(file)
  PROVE  Core'
<1>1. /\ mtl' = file /\ curmtl' = -1 /\ HideWindow("mtlwin") /\ ~Modal
      /\ label' = label /\ slider' = slider /\ preview' = preview
  BY DEF Replace, Click, fields
<1>2. ColorwOK' /\ DialogOK' /\ ~Modal'
  BY <1>1, HideKeeps DEF Wins
<1>3. file \in Seq(Material)
  BY EditorAssumption, EmptySeq DEF Material, Colors
<1>4. SceneOK'
  BY <1>1, <1>3, SMT DEF SceneOK
<1> QED
  BY <1>1, <1>2, <1>4 DEF Core, FieldsOK, CacheOK, EditorShowsCurrent, PickerTargetsCurrent

\* Showing, hiding and drawing change no material and no text.
LEMMA ScreenKeeps ==
  ASSUME Core, UNCHANGED <<scene, fields, preview>>,
         ColorwOK', DialogOK', Modal' => Modal /\ colorw'.dest = colorw.dest
  PROVE  Core'
<1>1. /\ mtl' = mtl /\ curmtl' = curmtl /\ label' = label /\ slider' = slider
      /\ preview' = preview
  BY DEF scene, fields
<1> QED
  BY <1>1 DEF Core, SceneOK, FieldsOK, CacheOK, Cur, EditorShowsCurrent, PickerTargetsCurrent

LEMMA HideOnlyKeeps ==
  ASSUME Core, NEW win \in Wins, HideWindow(win), UNCHANGED <<scene, fields, preview>>
  PROVE  Core'
<1>1. ColorwOK' /\ DialogOK' /\ (Modal' => Modal /\ colorw' = colorw)
  BY HideKeeps
<1> QED BY <1>1, ScreenKeeps

LEMMA ToggleKeeps ==
  ASSUME Core, ToggleWindow
  PROVE  Core'
<1>1. UNCHANGED <<scene, fields, preview>> /\ ~Modal
  BY DEF ToggleWindow, Click
<1>2. CASE "mtlwin" \in visible
  <2>1. HideWindow("mtlwin") /\ "mtlwin" \in Wins
    BY <1>2 DEF ToggleWindow, Wins
  <2> QED BY <1>1, <2>1, HideOnlyKeeps
<1>3. CASE "mtlwin" \notin visible
  <2>1. visible' = visible \cup {"mtlwin"} /\ colorw' = colorw
    BY <1>3 DEF ToggleWindow
  <2>2. ~Modal'
    BY <1>1, <2>1 DEF Modal
  <2>3. ColorwOK' /\ DialogOK'
    BY <2>1, <2>2 DEF Core, ColorwOK, DialogOK
  <2> QED BY <1>1, <2>2, <2>3, ScreenKeeps
<1> QED BY <1>2, <1>3

\* Presses and drags in the dialog choose a colour, not a target.
LEMMA ChosenKeeps ==
  ASSUME Core, NEW w, NEW h \in Hues, NEW s \in {0, 1}, colorw' = Chosen(w, h, s),
         UNCHANGED <<scene, fields, preview, visible>>
  PROVE  Core'
<1>1. Modal' = Modal
  BY DEF Modal
<1>2. CASE ~Modal
  BY <1>1, <1>2, CoreUnchanged DEF Chosen
<1>3. CASE Modal
  <2>1. colorw \in Dialogs
    BY <1>3 DEF Core, DialogOK
  <2>2. colorw' = [colorw EXCEPT !.hue = IF w = "huebar" THEN h ELSE @,
                                 !.sat = IF w = "huebox" THEN s ELSE @]
    BY <1>3 DEF Chosen
  <2>3. colorw' \in Dialogs /\ colorw'.dest = colorw.dest
    BY <2>1, <2>2 DEF Dialogs
  <2> QED BY <1>1, <2>3, ScreenKeeps DEF ColorwOK, DialogOK, Core
<1> QED BY <1>2, <1>3

LEMMA DragSliderKeeps ==
  ASSUME Core, NEW v \in Positions, DragSlider(v)
  PROVE  Core'
<1>1. /\ slider' = v /\ curmtl' = curmtl /\ label' = label
      /\ colorw' = colorw /\ visible' = visible
  BY DEF DragSlider
<1>2. Modal' = Modal
  BY <1>1 DEF Modal
<1>3. CASE curmtl = -1
  <2>1. mtl' = mtl /\ preview' = preview
    BY <1>3 DEF DragSlider
  <2> QED BY <1>1, <1>2, <1>3, <2>1 DEF Core, SceneOK, FieldsOK, CacheOK, ColorwOK, DialogOK,
        EditorShowsCurrent, PickerTargetsCurrent
<1>4. CASE curmtl # -1
  <2> DEFINE new == [Cur EXCEPT !.refl = v]
  <2>1. /\ mtl' = [mtl EXCEPT ![curmtl + 1].refl = v]
        /\ preview' = [preview EXCEPT !.valid = FALSE]
    BY <1>4 DEF DragSlider
  <2>2. Cur \in Material /\ curmtl + 1 \in 1 .. Len(mtl)
    BY <1>4, CurIsMaterial DEF Core
  <2>3. new \in Material /\ new.refl = v
    BY <2>2 DEF Material
  <2>4. mtl' = [mtl EXCEPT ![curmtl + 1] = new]
    BY <2>1 DEF Cur
  <2>5. mtl' \in Seq(Material) /\ Len(mtl') = Len(mtl) /\ mtl'[curmtl + 1] = new
    BY <2>2, <2>3, <2>4, ExceptSeq DEF Core, SceneOK
  <2>6. SceneOK' /\ FieldsOK'
    BY <1>1, <2>5 DEF Core, SceneOK, FieldsOK
  <2>7. CacheOK' /\ preview'.valid = FALSE
    BY <2>1 DEF Core, CacheOK
  <2>8. EditorShowsCurrent'
    BY <1>1, <1>4, <2>3, <2>5, <2>7 DEF Core, EditorShowsCurrent, Cur
  <2> QED BY <1>1, <1>2, <2>6, <2>7, <2>8 DEF Core, ColorwOK, DialogOK, PickerTargetsCurrent
<1> QED BY <1>3, <1>4

\* A display leaves a valid preview only of the current material.
LEMMA DisplayKeeps ==
  ASSUME Core, Display
  PROVE  Core'
<1>1. UNCHANGED <<scene, fields, colorw, visible>>
  BY DEF Display
<1>2. CASE "preview" \notin Redrawn
  <2>1. preview' = preview
    BY <1>2 DEF Display
  <2> QED BY <1>1, <2>1, CoreUnchanged
<1>3. CASE "preview" \in Redrawn
  <2>1. preview' = [pixels |-> IF curmtl = -1 THEN preview.pixels ELSE PreviewDrawn,
                    valid |-> curmtl # -1]
    BY <1>3 DEF Display
  <2>2. curmtl # -1 => PreviewDrawn = Cur /\ Cur \in Material
    BY CurIsMaterial DEF Core, PreviewDrawn, EditorShowsCurrent
  <2>3. CacheOK' /\ (curmtl # -1 => preview'.pixels = Cur)
    BY <2>1, <2>2 DEF Core, CacheOK
  <2>4. /\ mtl' = mtl /\ curmtl' = curmtl /\ label' = label /\ slider' = slider
        /\ colorw' = colorw /\ visible' = visible
    BY <1>1 DEF scene, fields
  <2> QED BY <2>3, <2>4 DEF Core, SceneOK, FieldsOK, ColorwOK, DialogOK, Modal, Cur,
        EditorShowsCurrent, PickerTargetsCurrent
<1> QED BY <1>2, <1>3

\* Clicks and presses that change no material.
LEMMA AssignKeeps ==
  ASSUME Core, Assign
  PROVE  Core'
BY CoreUnchanged DEF Assign

LEMMA InputKeepsCore ==
  ASSUME Core, ScreenOK, Input
  PROVE  Core'
<1>1. CASE \E d \in {-1, 1} : StepMaterial(d)
  BY <1>1, StepMaterialKeeps
<1>2. CASE \E m \in Material : AddMaterial(m)
  BY <1>2, AddMaterialKeeps
<1>3. CASE Assign
  BY <1>3, AssignKeeps
<1>4. CASE PickColor
  BY <1>4, PickColorKeeps
<1>5. CASE ToggleWindow
  BY <1>5, ToggleKeeps
<1>6. CASE Escape
  <2> DEFINE win == IF Modal THEN "colordlg" ELSE "mtlwin"
  <2>1. HideWindow(win) /\ win \in Wins /\ UNCHANGED <<scene, fields, preview>>
    BY <1>6 DEF Escape, Wins
  <2> QED BY <2>1, HideOnlyKeeps
<1>7. CASE \E ok \in BOOLEAN : CloseDialog(ok)
  BY <1>7, CloseDialogKeeps
<1>8. CASE \E file \in Files \cup {<<>>} : Replace(file)
  BY <1>8, ReplaceKeeps
<1>9. CASE \E w \in Widgets, h \in Hues, s \in {0, 1} : Press(w, h, s)
  <2>1. PICK w \in Widgets, h \in Hues, s \in {0, 1} : Press(w, h, s)
    BY <1>9
  <2>2. colorw' = Chosen(w, h, s) /\ UNCHANGED <<scene, fields, preview, visible>>
    BY <2>1 DEF Press
  <2> QED BY <2>2, ChosenKeeps
<1>10. CASE \E h \in Hues, s \in {0, 1} : DragColor(h, s)
  <2>1. PICK h \in Hues, s \in {0, 1} : DragColor(h, s)
    BY <1>10
  <2>2. colorw' = Chosen(press, h, s) /\ UNCHANGED <<scene, fields, preview, visible>>
    BY <2>1 DEF DragColor
  <2> QED BY <2>2, ChosenKeeps
<1>11. CASE \E v \in Positions : DragSlider(v)
  BY <1>11, DragSliderKeeps
<1>12. CASE ReleaseOver \/ ReleaseElsewhere
  BY <1>12, CoreUnchanged DEF ReleaseOver, ReleaseElsewhere
<1>13. CASE ReleaseBeside
  <2>1. HideWindow("colordlg") /\ "colordlg" \in Wins /\ UNCHANGED <<scene, fields, preview>>
    BY <1>13 DEF ReleaseBeside, Wins
  <2> QED BY <2>1, HideOnlyKeeps
<1> QED
  BY <1>1, <1>2, <1>3, <1>4, <1>5, <1>6, <1>7, <1>8, <1>9, <1>10, <1>11, <1>12, <1>13 DEF Input

-----------------------------------------------------------------------------
(* The pointer and the screen keep their types.                            *)

LEMMA MarkedTypes ==
  ASSUME ScreenOK
  PROVE  Marked \subseteq Widgets \cup Wins
BY DEF ScreenOK, Marked

LEMMA ClickTypes ==
  ASSUME PointerOK, ScreenOK, NEW win, NEW marked \in SUBSET (Widgets \cup Wins),
         Click(win, marked)
  PROVE  PointerOK' /\ dirty' \subseteq Widgets \cup Wins
<1>1. win \in Wins \cup {"toolbar"}
  BY DEF Click, ScreenOK
<1> QED BY <1>1 DEF Click, PointerOK, ScreenOK

LEMMA HideTypes ==
  ASSUME ScreenOK, NEW win, HideWindow(win)
  PROVE  visible' \subseteq Wins /\ vpdirty' = TRUE /\ DOMAIN shown' = Widgets
BY DEF HideWindow, ScreenOK

LEMMA NamesAreNames ==
  /\ Widgets \cup Wins = {"label", "slider", "bn_kd", "preview", "huebox", "huebar",
                            "mtlwin", "colordlg"}
  /\ \A w \in Widgets : Win(w) \in Wins
BY DEF Widgets, Wins, InMtlwin, InDialog, Win

LEMMA InputKeepsTypes ==
  ASSUME PointerOK, ScreenOK, Input
  PROVE  PointerOK' /\ ScreenOK'
<1>1. CASE \E d \in {-1, 1} : StepMaterial(d)
  <2>1. Click("mtlwin", {"mtlwin"}) /\ UNCHANGED <<visible, vpdirty, shown>>
    BY <1>1 DEF StepMaterial
  <2> QED BY <2>1, ClickTypes, NamesAreNames DEF ScreenOK
<1>2. CASE \E m \in Material : AddMaterial(m)
  <2>1. Click("mtlwin", {"mtlwin"}) /\ UNCHANGED <<visible, vpdirty, shown>>
    BY <1>2 DEF AddMaterial
  <2> QED BY <2>1, ClickTypes, NamesAreNames DEF ScreenOK
<1>3. CASE Assign
  <2>1. Click("mtlwin", {}) /\ vpdirty' = TRUE /\ UNCHANGED <<visible, shown>>
    BY <1>3 DEF Assign
  <2> QED BY <2>1, ClickTypes DEF ScreenOK
<1>4. CASE PickColor
  <2>1. /\ Click("mtlwin", {"colordlg"}) /\ UNCHANGED <<vpdirty, shown>>
        /\ visible' = visible \cup {"colordlg"} /\ "colordlg" \in Wins
    BY <1>4 DEF PickColor, Wins
  <2> QED BY <2>1, ClickTypes DEF ScreenOK
<1>5. CASE ToggleWindow
  <2>1. Click("toolbar", IF "mtlwin" \in visible THEN {} ELSE {"mtlwin"}) /\ "mtlwin" \in Wins
    BY <1>5 DEF ToggleWindow, Wins
  <2>2. PointerOK' /\ dirty' \subseteq Widgets \cup Wins
    BY <2>1, ClickTypes
  <2>3. CASE "mtlwin" \in visible
    <3>1. HideWindow("mtlwin")
      BY <1>5, <2>3 DEF ToggleWindow
    <3> QED BY <2>2, <3>1, HideTypes DEF ScreenOK
  <2>4. CASE "mtlwin" \notin visible
    <3>1. visible' = visible \cup {"mtlwin"} /\ UNCHANGED <<vpdirty, shown>>
      BY <1>5, <2>4 DEF ToggleWindow
    <3> QED BY <2>1, <2>2, <3>1 DEF ScreenOK
  <2> QED BY <2>3, <2>4
<1>6. CASE Escape
  <2>1. HideWindow(IF Modal THEN "colordlg" ELSE "mtlwin") /\ UNCHANGED <<pointer, dirty>>
    BY <1>6 DEF Escape
  <2> QED BY <2>1, HideTypes DEF ScreenOK, PointerOK, pointer
<1>7. CASE \E ok \in BOOLEAN : CloseDialog(ok)
  <2>1. PICK ok \in BOOLEAN : CloseDialog(ok)
    BY <1>7
  <2>2. Click("colordlg", IF ok THEN {"bn_kd"} ELSE {}) /\ HideWindow("colordlg")
    BY <2>1 DEF CloseDialog
  <2>3. "bn_kd" \in Widgets
    BY DEF Widgets, InMtlwin
  <2>4. PointerOK' /\ dirty' \subseteq Widgets \cup Wins
    BY <2>2, <2>3, ClickTypes
  <2> QED BY <2>2, <2>4, HideTypes DEF ScreenOK
<1>8. CASE \E file \in Files \cup {<<>>} : Replace(file)
  <2>1. Click("toolbar", Wins) /\ HideWindow("mtlwin")
    BY <1>8 DEF Replace
  <2>2. PointerOK' /\ dirty' \subseteq Widgets \cup Wins
    BY <2>1, ClickTypes
  <2> QED BY <2>1, <2>2, HideTypes DEF ScreenOK
<1>9. CASE \E w \in Widgets, h \in Hues, s \in {0, 1} : Press(w, h, s)
  BY <1>9, EditorAssumption DEF Press, PointerOK, ScreenOK
<1>10. CASE \E h \in Hues, s \in {0, 1} : DragColor(h, s)
  BY <1>10, NamesAreNames DEF DragColor, PointerOK, ScreenOK, pointer, InDialog, Widgets
<1>11. CASE \E v \in Positions : DragSlider(v)
  BY <1>11, NamesAreNames DEF DragSlider, PointerOK, ScreenOK, pointer
<1>12. CASE ReleaseOver
  <2>1. press \in Widgets /\ Win(press) \in Wins
    BY <1>12, NamesAreNames DEF ReleaseOver, PointerOK, Widgets, InMtlwin, InDialog
  <2> QED BY <1>12, <2>1 DEF ReleaseOver, PointerOK, ScreenOK
<1>13. CASE ReleaseElsewhere
  <2>1. press \in Widgets
    BY <1>13 DEF ReleaseElsewhere, PointerOK, Widgets, InMtlwin, InDialog
  <2> QED BY <1>13, <2>1 DEF ReleaseElsewhere, PointerOK, ScreenOK
<1>14. CASE ReleaseBeside
  <2>1. HideWindow("colordlg") /\ UNCHANGED <<press, focuswin, dirty>> /\ held' = FALSE
    BY <1>14 DEF ReleaseBeside
  <2> QED BY <2>1, HideTypes DEF ScreenOK, PointerOK
<1> QED
  BY <1>1, <1>2, <1>3, <1>4, <1>5, <1>6, <1>7, <1>8, <1>9, <1>10, <1>11, <1>12, <1>13, <1>14
     DEF Input

LEMMA DisplayKeepsTypes ==
  ASSUME PointerOK, ScreenOK, Display
  PROVE  PointerOK' /\ ScreenOK'
<1>1. /\ UNCHANGED <<pointer, visible>> /\ vpdirty' = FALSE
      /\ dirty' = {x \in Marked : Win(x) \notin visible}
      /\ shown' = [w \in Widgets |-> IF w \in Redrawn THEN Drawn(w) ELSE shown[w]]
  BY DEF Display
<1>2. dirty' \subseteq Widgets \cup Wins
  BY <1>1, MarkedTypes
<1> QED BY <1>1, <1>2 DEF PointerOK, ScreenOK, pointer

-----------------------------------------------------------------------------
(* What is visible and out of date is marked.                              *)

\* The slider is pressed only while the button is down and no dialog is open.
SliderHeld == press = "slider" => held /\ ~Modal

Fresh(w) == Win(w) \in visible => Shows(w) \/ w \in Redrawn

LEMMA SliderHeldStep ==
  ASSUME SliderHeld, EditorNext
  PROVE  SliderHeld'
<1>1. CASE Display
  BY <1>1 DEF Display, SliderHeld, pointer, Modal
<1>2. CASE Input
  BY <1>2, EditorAssumption DEF Input, StepMaterial, AddMaterial, Assign, PickColor, ToggleWindow,
     Escape, CloseDialog, Replace, Press, DragColor, DragSlider, ReleaseOver, ReleaseElsewhere,
     ReleaseBeside, Click, HideWindow, SliderHeld, pointer, Modal, scene, fields, marks
<1> QED BY <1>1, <1>2 DEF EditorNext

LEMMA MarkedIsFresh ==
  ASSUME NEW w \in Widgets, w \in dirty' \/ Win(w) \in dirty' \/ vpdirty'
  PROVE  Fresh(w)'
<1>1. Win(w) \in Wins
  BY NamesAreNames
<1> QED BY <1>1 DEF Fresh, Redrawn, Marked

\* What the widgets should show depends on the material or on the dialog.
LEMMA MtlwinSame ==
  ASSUME NEW w \in InMtlwin, UNCHANGED <<scene, fields>>
  PROVE  Wanted(w)' = Wanted(w)
<1>1. mtl' = mtl /\ curmtl' = curmtl /\ label' = label /\ slider' = slider
  BY DEF scene, fields
<1>2. CASE w = "label"
  BY <1>1, <1>2 DEF Wanted, Drawn
<1>3. CASE w = "slider"
  BY <1>1, <1>3 DEF Wanted, Drawn
<1>4. CASE w = "bn_kd"
  BY <1>1, <1>4 DEF Wanted, Drawn, Cur
<1>5. CASE w = "preview"
  BY <1>1, <1>5 DEF Wanted, Drawn, PreviewDrawn, Cur
<1> QED BY <1>2, <1>3, <1>4, <1>5 DEF InMtlwin

LEMMA DialogSame ==
  ASSUME NEW w \in InDialog, UNCHANGED colorw
  PROVE  Wanted(w)' = Wanted(w)
<1>1. CASE w = "huebar"
  BY <1>1 DEF Wanted, Drawn
<1>2. CASE w = "huebox"
  BY <1>2 DEF Wanted, Drawn
<1> QED BY <1>1, <1>2 DEF InDialog

\* A widget that is left alone.
LEMMA SameIsFresh ==
  ASSUME NEW w \in Widgets, Fresh(w), Win(w) \in visible,
         Wanted(w)' = Wanted(w), shown'[w] = shown[w],
         dirty \subseteq dirty', vpdirty => vpdirty',
         w = "huebox" => colorw' = colorw,
         w = "slider" /\ press = "slider" /\ curmtl = -1 => press' = "slider" /\ curmtl' = -1
  PROVE  Fresh(w)'
<1>1. CASE w \in Redrawn
  <2>1. w \in dirty \/ Win(w) \in dirty \/ vpdirty
    BY <1>1 DEF Redrawn, Marked
  <2> QED BY <2>1, MarkedIsFresh
<1>2. CASE Shows(w)
  <2>1. Shows(w)'
    BY <1>2 DEF Shows
  <2> QED BY <2>1 DEF Fresh
<1> QED BY <1>1, <1>2 DEF Fresh

\* The widgets of one window are of that window.
LEMMA WidgetSplit ==
  ASSUME NEW w \in Widgets
  PROVE  \/ w \in InMtlwin /\ w \notin InDialog /\ Win(w) = "mtlwin"
         \/ w \in InDialog /\ w \notin InMtlwin /\ Win(w) = "colordlg"
BY DEF Widgets, InMtlwin, InDialog, Win

LEMMA InputKeepsFresh ==
  ASSUME EditorInv, SliderHeld, StaleIsMarked, Input, NEW w \in Widgets
  PROVE  Fresh(w)'
<1>0. Fresh(w)
  BY DEF StaleIsMarked, Fresh
<1>1. CASE (\E d \in {-1, 1} : StepMaterial(d)) \/ (\E m \in Material : AddMaterial(m))
  <2>1. "mtlwin" \in dirty' /\ ~Modal /\ visible' = visible
    BY <1>1 DEF StepMaterial, AddMaterial, Click
  <2>2. CASE Win(w) = "mtlwin"
    BY <2>1, <2>2, MarkedIsFresh
  <2>3. CASE Win(w) = "colordlg"
    BY <2>1, <2>3 DEF Modal, Fresh
  <2> QED BY <2>2, <2>3, WidgetSplit
<1>2. CASE \/ Assign \/ Escape \/ ReleaseBeside
           \/ \E ok \in BOOLEAN : CloseDialog(ok)
           \/ \E file \in Files \cup {<<>>} : Replace(file)
  <2>1. vpdirty' = TRUE
    BY <1>2 DEF Assign, Escape, ReleaseBeside, CloseDialog, Replace, HideWindow
  <2> QED BY <2>1, MarkedIsFresh
<1>3. CASE PickColor
  <2>1. /\ UNCHANGED <<scene, fields>> /\ ~held /\ shown' = shown /\ vpdirty' = vpdirty
        /\ "colordlg" \in dirty' /\ dirty \subseteq dirty'
        /\ visible' = visible \cup {"colordlg"}
    BY <1>3 DEF PickColor, Click
  <2>2. press # "slider"
    BY <2>1 DEF SliderHeld
  <2>3. CASE Win(w) = "colordlg"
    BY <2>1, <2>3, MarkedIsFresh
  <2>4. CASE w \in InMtlwin /\ Win(w) = "mtlwin"
    <3>1. Wanted(w)' = Wanted(w) /\ w # "huebox"
      BY <2>1, <2>4, MtlwinSame DEF InMtlwin
    <3>2. CASE Win(w) \in visible
      BY <1>0, <2>1, <2>2, <3>1, <3>2, SameIsFresh
    <3>3. CASE Win(w) \notin visible
      BY <2>1, <2>4, <3>3 DEF Fresh
    <3> QED BY <3>2, <3>3
  <2> QED BY <2>3, <2>4, WidgetSplit
<1>4. CASE ToggleWindow
  <2>1. CASE "mtlwin" \in visible
    <3>1. vpdirty' = TRUE
      BY <1>4, <2>1 DEF ToggleWindow, HideWindow
    <3> QED BY <3>1, MarkedIsFresh
  <2>2. CASE "mtlwin" \notin visible
    <3>1. "mtlwin" \in dirty' /\ ~Modal /\ visible' = visible \cup {"mtlwin"}
      BY <1>4, <2>2 DEF ToggleWindow, Click
    <3>2. CASE Win(w) = "mtlwin"
      BY <3>1, <3>2, MarkedIsFresh
    <3>3. CASE Win(w) = "colordlg"
      BY <3>1, <3>3 DEF Modal, Fresh
    <3> QED BY <3>2, <3>3, WidgetSplit
  <2> QED BY <2>1, <2>2
<1>5. CASE \E x \in Widgets, h \in Hues, s \in {0, 1} : Press(x, h, s)
  <2>1. PICK x \in Widgets, h \in Hues, s \in {0, 1} : Press(x, h, s)
    BY <1>5
  <2>2. /\ UNCHANGED <<scene, fields, visible, vpdirty, shown>> /\ ~held
        /\ x \in {"slider", "huebar", "huebox"} /\ x \in dirty' /\ dirty \subseteq dirty'
        /\ colorw' = Chosen(x, h, s)
    BY <2>1 DEF Press
  <2>3. press # "slider"
    BY <2>2 DEF SliderHeld
  <2>4. CASE w = x
    BY <2>2, <2>4, MarkedIsFresh
  <2>5. CASE Win(w) \notin visible
    BY <2>2, <2>5 DEF Fresh
  <2>6. CASE w # x /\ Win(w) \in visible /\ w \in InMtlwin
    <3>1. Wanted(w)' = Wanted(w) /\ w # "huebox"
      BY <2>2, <2>6, MtlwinSame DEF InMtlwin
    <3> QED BY <1>0, <2>2, <2>3, <2>6, <3>1, SameIsFresh
  <2>7. CASE w # x /\ Win(w) \in visible /\ w \in InDialog
    <3>1. Modal /\ colorw \in Dialogs
      BY <2>7, WidgetSplit DEF Modal, EditorInv, Core, DialogOK
    <3>2. CASE w = "huebar"
      <4>1. colorw'.hue = colorw.hue
        BY <2>2, <2>7, <3>1, <3>2 DEF Chosen, Dialogs
      <4>2. Wanted(w)' = Wanted(w)
        BY <3>2, <4>1 DEF Wanted, Drawn
      <4> QED BY <1>0, <2>2, <2>3, <2>7, <3>2, <4>2, SameIsFresh
    <3>3. CASE w = "huebox"
      <4>1. colorw'.sat = colorw.sat /\ colorw.hue \in Hues
        BY <2>2, <2>7, <3>1, <3>3 DEF Chosen, Dialogs
      <4>2. CASE w \in Redrawn
        <5>1. w \in dirty \/ Win(w) \in dirty \/ vpdirty
          BY <4>2 DEF Redrawn, Marked
        <5> QED BY <2>2, <5>1, MarkedIsFresh
      <4>3. CASE Shows(w)
        <5>1. Wanted(w) = <<colorw.hue, colorw.sat>>
          BY <3>3 DEF Wanted, Drawn
        <5>2. \E hh \in Hues : shown[w] = <<hh, colorw.sat>>
          BY <3>3, <4>1, <4>3, <5>1 DEF Shows
        <5>3. Shows(w)'
          BY <2>2, <3>3, <4>1, <5>2 DEF Shows
        <5> QED BY <5>3 DEF Fresh
      <4> QED BY <1>0, <2>7, <4>2, <4>3 DEF Fresh
    <3> QED BY <2>7, <3>2, <3>3 DEF InDialog
  <2> QED BY <2>4, <2>5, <2>6, <2>7, WidgetSplit
<1>6. CASE \E h \in Hues, s \in {0, 1} : DragColor(h, s)
  <2>1. PICK h \in Hues, s \in {0, 1} : DragColor(h, s)
    BY <1>6
  <2>2. /\ UNCHANGED <<scene, fields, pointer, visible, vpdirty, shown>> /\ press \in InDialog
        /\ {press, "huebox"} \subseteq dirty' /\ dirty \subseteq dirty'
        /\ colorw' = Chosen(press, h, s)
    BY <2>1 DEF DragColor
  <2>3. CASE w = press \/ w = "huebox"
    BY <2>2, <2>3, MarkedIsFresh
  <2>4. CASE Win(w) \notin visible
    BY <2>2, <2>4 DEF Fresh
  <2>5. CASE Win(w) \in visible /\ w \in InMtlwin
    <3>1. Wanted(w)' = Wanted(w) /\ w # "huebox" /\ press # "slider"
      BY <2>2, <2>5, MtlwinSame DEF InMtlwin, InDialog
    <3> QED BY <1>0, <2>2, <2>5, <3>1, SameIsFresh
  <2>6. CASE Win(w) \in visible /\ w \in InDialog /\ w # press /\ w # "huebox"
    <3>1. Modal /\ colorw \in Dialogs /\ w = "huebar" /\ press = "huebox"
      BY <2>2, <2>6, WidgetSplit DEF Modal, EditorInv, Core, DialogOK, InDialog
    <3>2. colorw'.hue = colorw.hue
      BY <2>2, <3>1 DEF Chosen, Dialogs
    <3>3. Wanted(w)' = Wanted(w)
      BY <3>1, <3>2 DEF Wanted, Drawn
    <3> QED BY <1>0, <2>2, <2>6, <3>1, <3>3, SameIsFresh
  <2> QED BY <2>3, <2>4, <2>5, <2>6, WidgetSplit
<1>7. CASE \E v \in Positions : DragSlider(v)
  <2>1. PICK v \in Positions : DragSlider(v)
    BY <1>7
  <2>2. /\ curmtl' = curmtl /\ label' = label /\ press' = press /\ press = "slider"
        /\ UNCHANGED <<colorw, visible, vpdirty, shown>> /\ dirty \subseteq dirty'
        /\ curmtl # -1 => "mtlwin" \in dirty'
        /\ curmtl = -1 => mtl' = mtl
    BY <2>1 DEF DragSlider, pointer
  <2>3. CASE Win(w) \notin visible
    BY <2>2, <2>3 DEF Fresh
  <2>4. CASE Win(w) \in visible /\ w \in InDialog
    BY <1>0, <2>2, <2>4, DialogSame, SameIsFresh
  <2>5. CASE w \in InMtlwin /\ curmtl # -1
    BY <2>2, <2>5, WidgetSplit, MarkedIsFresh
  <2>6. CASE w = "slider" /\ curmtl = -1
    BY <2>2, <2>6 DEF Fresh, Shows
  <2>7. CASE Win(w) \in visible /\ w \in InMtlwin /\ w # "slider" /\ curmtl = -1
    <3>1. Wanted(w)' = Wanted(w) /\ w # "huebox"
      BY <2>2, <2>7 DEF InMtlwin, Wanted, Drawn, PreviewDrawn, Cur
    <3> QED BY <1>0, <2>2, <2>7, <3>1, SameIsFresh
  <2> QED BY <2>3, <2>4, <2>5, <2>6, <2>7, WidgetSplit
<1>8. CASE ReleaseOver \/ ReleaseElsewhere
  <2>1. /\ UNCHANGED <<scene, fields, colorw, visible, vpdirty, shown>>
        /\ press \in dirty' /\ dirty \subseteq dirty'
    BY <1>8 DEF ReleaseOver, ReleaseElsewhere
  <2>2. CASE w = press
    BY <2>1, <2>2, MarkedIsFresh
  <2>3. CASE Win(w) \notin visible
    BY <2>1, <2>3 DEF Fresh
  <2>4. CASE w # press /\ Win(w) \in visible
    <3>1. Wanted(w)' = Wanted(w)
      BY <2>1, WidgetSplit, MtlwinSame, DialogSame
    <3> QED BY <1>0, <2>1, <2>4, <3>1, SameIsFresh
  <2> QED BY <2>2, <2>3, <2>4
<1> QED BY <1>1, <1>2, <1>3, <1>4, <1>5, <1>6, <1>7, <1>8 DEF Input

LEMMA DisplayKeepsFresh ==
  ASSUME EditorInv, StaleIsMarked, Display, NEW w \in Widgets
  PROVE  Fresh(w)'
<1>1. /\ UNCHANGED <<scene, fields, colorw, pointer, visible>>
      /\ shown'[w] = IF w \in Redrawn THEN Drawn(w) ELSE shown[w]
  BY DEF Display
<1>2. Wanted(w)' = Wanted(w)
  BY <1>1, WidgetSplit, MtlwinSame, DialogSame
<1>3. CASE w \in Redrawn
  <2>1. Drawn(w) = Wanted(w)
    <3>1. CASE w = "preview" /\ curmtl # -1
      <4>1. Drawn(w) = PreviewDrawn
        BY <3>1 DEF Drawn
      <4>2. PreviewDrawn = Cur
        BY <3>1 DEF PreviewDrawn, EditorInv, Core, EditorShowsCurrent
      <4> QED BY <3>1, <4>1, <4>2 DEF Wanted
    <3>2. CASE ~(w = "preview" /\ curmtl # -1)
      BY <3>2 DEF Wanted
    <3> QED BY <3>1, <3>2
  <2> QED BY <1>1, <1>2, <1>3, <2>1 DEF Fresh, Shows
<1>4. CASE w \notin Redrawn
  <2>1. Win(w) \in visible => Shows(w)
    BY <1>4 DEF StaleIsMarked
  <2>2. Win(w) \in visible => Shows(w)'
    BY <1>1, <1>2, <1>4, <2>1 DEF Shows, scene, pointer
  <2> QED BY <1>1, <2>2 DEF Fresh
<1> QED BY <1>3, <1>4

-----------------------------------------------------------------------------
(* The theorems.                                                           *)

LEMMA EditorInitInv ==
  ASSUME EditorInit
  PROVE  EditorInv
<1>1. mtl \in Seq(Material)
  BY EditorAssumption, EmptySeq DEF EditorInit, Material, Colors
<1>2. SceneOK
  BY <1>1, SMT DEF EditorInit, SceneOK
<1>3. FieldsOK
  BY EditorAssumption DEF EditorInit, FieldsOK
<1>4. CacheOK /\ ColorwOK
  BY DEF EditorInit, CacheOK, ColorwOK
<1>5. DialogOK /\ PickerTargetsCurrent
  BY DEF EditorInit, DialogOK, PickerTargetsCurrent, Modal
<1>6. EditorShowsCurrent
  BY DEF EditorInit, EditorShowsCurrent
<1>7. PointerOK
  BY DEF EditorInit, PointerOK
<1>8. ScreenOK
  BY DEF EditorInit, ScreenOK
<1> QED BY <1>2, <1>3, <1>4, <1>5, <1>6, <1>7, <1>8 DEF EditorInv, Core

LEMMA EditorUnchanged ==
  ASSUME EditorInv, UNCHANGED editorVars
  PROVE  EditorInv'
<1>1. UNCHANGED <<scene, fields, preview, colorw, visible>> /\ UNCHANGED <<pointer, marks, shown>>
  BY DEF editorVars
<1>2. Core'
  BY <1>1, CoreUnchanged DEF EditorInv
<1>3. PointerOK' /\ ScreenOK'
  BY <1>1 DEF EditorInv, PointerOK, ScreenOK, pointer, marks
<1> QED BY <1>2, <1>3 DEF EditorInv

\* Every state of the editor satisfies the invariant.
THEOREM EditorInvariant == EditorSpec => []EditorInv
<1>1. EditorInit => EditorInv
  BY EditorInitInv
<1>2. ASSUME EditorInv, [EditorNext]_editorVars
      PROVE  EditorInv'
  <2>1. CASE Input
    BY <1>2, <2>1, InputKeepsCore, InputKeepsTypes DEF EditorInv
  <2>2. CASE Display
    BY <1>2, <2>2, DisplayKeeps, DisplayKeepsTypes DEF EditorInv
  <2>3. CASE UNCHANGED editorVars
    BY <1>2, <2>3, EditorUnchanged
  <2> QED BY <1>2, <2>1, <2>2, <2>3 DEF EditorNext
<1> QED BY <1>1, <1>2, PTL DEF EditorSpec

\* The state of the editor has its types.
THEOREM EditorTypes == EditorSpec => []EditorTypeOK
<1>1. EditorInv => EditorTypeOK
  BY DEF EditorInv, Core, SceneOK, FieldsOK, CacheOK, ColorwOK, PointerOK, ScreenOK,
     EditorTypeOK, Dialogs
<1> QED BY <1>1, EditorInvariant, PTL

\* Whatever selects, adds or changes a material leaves the label, the slider
\* and a preview that counts as valid those of the current one.
THEOREM CurrentIsShown == EditorSpec => []EditorShowsCurrent
<1>1. EditorInv => EditorShowsCurrent
  BY DEF EditorInv, Core
<1> QED BY <1>1, EditorInvariant, PTL

\* The pointer of the open colour dialog leads into the current material.
THEOREM PickerHasTarget == EditorSpec => []PickerTargetsCurrent
<1>1. EditorInv => PickerTargetsCurrent
  BY DEF EditorInv, Core
<1> QED BY <1>1, EditorInvariant, PTL

\* Visible pixels that are out of date are marked to be drawn again: no
\* handler forgets to.
THEOREM NothingStaysStale == EditorSpec => []StaleIsMarked
<1> DEFINE Inv == SliderHeld /\ StaleIsMarked
<1>1. EditorInit => Inv
  BY EditorAssumption DEF EditorInit, SliderHeld, StaleIsMarked, Redrawn, Marked
<1>2. ASSUME EditorInv, Inv, [EditorNext]_editorVars
      PROVE  Inv'
  <2>1. CASE Input
    <3>1. SliderHeld'
      BY <1>2, <2>1, SliderHeldStep DEF EditorNext
    <3>2. \A w \in Widgets : Fresh(w)'
      BY <1>2, <2>1, InputKeepsFresh
    <3> QED BY <3>1, <3>2 DEF StaleIsMarked, Fresh
  <2>2. CASE Display
    <3>1. SliderHeld'
      BY <1>2, <2>2, SliderHeldStep DEF EditorNext
    <3>2. \A w \in Widgets : Fresh(w)'
      BY <1>2, <2>2, DisplayKeepsFresh
    <3> QED BY <3>1, <3>2 DEF StaleIsMarked, Fresh
  <2>3. CASE UNCHANGED editorVars
    <3>1. SliderHeld'
      BY <1>2, <2>3 DEF SliderHeld, editorVars, pointer, Modal
    <3>2. StaleIsMarked'
      BY <1>2, <2>3 DEF StaleIsMarked, Shows, Wanted, Drawn, PreviewDrawn, Cur, Redrawn, Marked,
         editorVars, scene, fields, pointer, marks
    <3> QED BY <3>1, <3>2
  <2> QED BY <1>2, <2>1, <2>2, <2>3 DEF EditorNext
<1>3. Inv => StaleIsMarked
  OBVIOUS
<1> QED BY <1>1, <1>2, <1>3, EditorInvariant, PTL DEF EditorSpec

=============================================================================
