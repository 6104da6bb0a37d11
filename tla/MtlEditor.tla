----------------------------- MODULE MtlEditor ------------------------------
(***************************************************************************)
(* The material window and the colour dialog (mtlui.c), over what the      *)
(* toolkit draws again (rtk.c, rtk_draw.c) when the screen of the modeller *)
(* displays itself (scr_mod.c, software build).                            *)
(*                                                                         *)
(* A widget is drawn when it is marked dirty; changed text marks its whole *)
(* window, by a new layout; hiding a window, and all that changes the      *)
(* scene, marks the viewport, whose drawing marks every window.  `shown'   *)
(* is what is left on the screen, so a change that marks nothing is seen.  *)
(*                                                                         *)
(* One colour and one slider stand for three and four: each has the same   *)
(* code.  A colour has a hue, or is grey; brightness behaves as saturation.*)
(* The name of a material is the subject of TextBox and SceneFile.         *)
(***************************************************************************)
EXTENDS Integers, Sequences

CONSTANTS
  Hues, Red,     \* hues; a grey has the hue 0, red
  Grey,
  Positions,     \* positions of the slider
  Files,         \* materials of a scene file
  MaxMtl,        \* bound on the materials of a scene
  None

ASSUME EditorAssumption ==
  /\ Red \in Hues /\ Grey \notin Hues
  /\ 0 \in Positions /\ Positions \subseteq Nat
  /\ MaxMtl \in Nat
  /\ None \notin {"slider", "huebar", "huebox"}
  /\ Files \subseteq Seq([kd : Hues \cup {Grey}, refl : Positions])

VARIABLES
  mtl,        \* scn->mtl
  curmtl,     \* curmtl_idx, from zero; -1 when curmtl is null
  label,      \* text of lb_mtlidx: the material's number, and how many
  slider,     \* value and text of slider_refl
  preview,    \* preview_pixels, and preview_valid
  colorw,     \* the colour dialog: its target and its colour
  press,      \* scr->press, when a drag can do something
  held,       \* the left button is down
  focuswin,   \* scr->focuswin
  visible,    \* windows that are shown; colordlg is modal
  dirty,      \* widgets and windows with the flag DIRTY or GEOMCHG
  vpdirty,
  shown       \* what the pixels of each widget show

scene   == <<mtl, curmtl>>
fields  == <<label, slider>>
pointer == <<press, held, focuswin>>
marks   == <<dirty, vpdirty>>
editorVars == <<scene, fields, preview, colorw, pointer, visible, marks, shown>>

Colors   == Hues \cup {Grey}
Material == [kd : Colors, refl : Positions]

InMtlwin == {"label", "slider", "bn_kd", "preview"}
InDialog == {"huebox", "huebar"}
Widgets  == InMtlwin \cup InDialog
Wins     == {"mtlwin", "colordlg"}

Win(x) == IF x \in InMtlwin \cup {"mtlwin"} THEN "mtlwin" ELSE "colordlg"
Modal  == "colordlg" \in visible
Cur    == mtl[curmtl + 1]

-----------------------------------------------------------------------------
(* Drawing.                                                                *)

\* mtlpreview_draw: the cached pixels, black without a material, or a new picture.
PreviewDrawn ==
  IF curmtl = -1 THEN None ELSE IF preview.valid THEN preview.pixels ELSE Cur

\* The pixels that a widget draws.
Drawn(w) ==
  CASE w = "label"   -> label
    [] w = "slider"  -> slider
    [] w = "bn_kd"   -> IF curmtl = -1 THEN None ELSE Cur.kd
    [] w = "preview" -> PreviewDrawn
    [] w = "huebar"  -> colorw.hue
    [] w = "huebox"  -> <<colorw.hue, colorw.sat>>

Marked == dirty \cup (IF vpdirty THEN Wins ELSE {})

\* The widgets of visible windows that are marked, alone or with their window.
Redrawn == {w \in Widgets : Win(w) \in visible /\ (w \in Marked \/ Win(w) \in Marked)}

\* Mutant: rtk_invalidate does not ask for a display.
Display_OnlyViewport ==
  /\ vpdirty
  /\ shown' = [w \in Widgets |-> IF w \in Redrawn THEN Drawn(w) ELSE shown[w]]
  /\ preview' = IF "preview" \in Redrawn
                THEN [pixels |-> IF curmtl = -1 THEN preview.pixels ELSE PreviewDrawn,
                      valid |-> curmtl # -1]
                ELSE preview
  /\ dirty' = {x \in Marked : Win(x) \notin visible}
  /\ vpdirty' = FALSE
  /\ UNCHANGED <<scene, fields, colorw, pointer, visible>>

\* mdl_display, with rtk_draw_widget of both windows.
Display ==
  /\ vpdirty \/ Redrawn # {}
  /\ shown' = [w \in Widgets |-> IF w \in Redrawn THEN Drawn(w) ELSE shown[w]]
  /\ preview' = IF "preview" \in Redrawn
                THEN [pixels |-> IF curmtl = -1 THEN preview.pixels ELSE PreviewDrawn,
                      valid |-> curmtl # -1]
                ELSE preview
  /\ dirty' = {x \in Marked : Win(x) \notin visible}
  /\ vpdirty' = FALSE
  /\ UNCHANGED <<scene, fields, colorw, pointer, visible>>

\* rtk_hide: the pixels are cleared and the viewport is marked.  What colorw
\* holds is dead: start_color_picker sets all of it.
HideWindow(win) ==
  /\ visible' = visible \ {win}
  /\ shown' = [w \in Widgets |-> IF Win(w) = win THEN None ELSE shown[w]]
  /\ vpdirty' = TRUE
  /\ colorw' = IF win = "colordlg" THEN None ELSE colorw

-----------------------------------------------------------------------------
(* Clicks.                                                                 *)

\* Mutant: a modal window does not keep the mouse from the others.
Click_NotModal(win, marked) ==
  /\ ~held
  /\ win \in visible \cup {"toolbar"}
  /\ dirty' = dirty \cup marked \cup ({win, focuswin} \cap Wins)
  /\ focuswin' = win /\ press' = None
  /\ UNCHANGED held

\* A click on a button of a window: it has the focus, and both windows whose
\* frame changes are drawn again, with what the button's callback marked.
Click(win, marked) ==
  /\ ~held
  /\ win \in visible \cup {"toolbar"}
  /\ Modal => win = "colordlg"
  /\ dirty' = dirty \cup marked \cup ({win, focuswin} \cap Wins)
  /\ focuswin' = win
  /\ press' = None
  /\ UNCHANGED held

\* Mutant: the preview is forgotten.
SelectMaterial_Cached(i) ==
  /\ curmtl' = i /\ label' = <<i + 1, Len(mtl')>> /\ slider' = mtl'[i + 1].refl
  /\ UNCHANGED preview

\* select_material.
SelectMaterial(i) ==
  /\ curmtl' = i
  /\ label' = <<i + 1, Len(mtl')>>
  /\ slider' = mtl'[i + 1].refl
  /\ preview' = [preview EXCEPT !.valid = FALSE]

\* bn_prev (d = -1) and bn_next (d = 1).
StepMaterial(d) ==
  /\ mtl # <<>>
  /\ Click("mtlwin", {"mtlwin"})
  /\ UNCHANGED mtl
  /\ SelectMaterial((curmtl + (IF d = -1 THEN Len(mtl) - 1 ELSE 1)) % Len(mtl))
  /\ UNCHANGED <<colorw, visible, vpdirty, shown>>

\* bn_add adds a grey material, bn_dup a copy of the current one.
AddMaterial(m) ==
  /\ m = [kd |-> Grey, refl |-> 0] \/ (curmtl # -1 /\ m = Cur)
  /\ Len(mtl) < MaxMtl
  /\ Click("mtlwin", {"mtlwin"})
  /\ mtl' = Append(mtl, m)
  /\ SelectMaterial(Len(mtl))
  /\ UNCHANGED <<colorw, visible, vpdirty, shown>>

\* bn_assign, with an object selected.
Assign ==
  /\ curmtl # -1
  /\ Click("mtlwin", {})
  /\ vpdirty' = TRUE
  /\ UNCHANGED <<scene, fields, preview, colorw, visible, shown>>

\* rgb_to_hsv and hsv_to_rgb.
HueOf(c) == IF c = Grey THEN Red ELSE c
SatOf(c) == IF c = Grey THEN 0 ELSE 1
HsvToRgb(h, s) == IF s = 0 THEN Grey ELSE h

\* bn_kd: start_color_picker.
PickColor ==
  /\ curmtl # -1
  /\ Click("mtlwin", {"colordlg"})
  /\ colorw' = [dest |-> curmtl, hue |-> HueOf(Cur.kd), sat |-> SatOf(Cur.kd)]
  /\ visible' = visible \cup {"colordlg"}
  /\ UNCHANGED <<scene, fields, preview, vpdirty, shown>>

\* colbn_handler: Ok stores the colour; both buttons hide the dialog.
CloseDialog(ok) ==
  /\ Modal
  /\ Click("colordlg", IF ok THEN {"bn_kd"} ELSE {})
  /\ IF ok
     THEN /\ mtl' = [mtl EXCEPT ![colorw.dest + 1].kd = HsvToRgb(colorw.hue, colorw.sat)]
          /\ preview' = [preview EXCEPT !.valid = FALSE]
     ELSE UNCHANGED <<mtl, preview>>
  /\ HideWindow("colordlg")
  /\ UNCHANGED <<curmtl, fields>>

\* TBN_NEW and TBN_OPEN: both hide the material window (cancel_op) and select
\* no material; the texts stay.
Replace(file) ==
  /\ Click("toolbar", Wins)
  /\ mtl' = file
  /\ curmtl' = -1
  /\ HideWindow("mtlwin")
  /\ UNCHANGED <<fields, preview>>

\* TBN_MTL.
ToggleWindow ==
  /\ Click("toolbar", IF "mtlwin" \in visible THEN {} ELSE {"mtlwin"})
  /\ IF "mtlwin" \in visible
     THEN HideWindow("mtlwin")
     ELSE /\ visible' = visible \cup {"mtlwin"}
          /\ UNCHANGED <<colorw, vpdirty, shown>>
  /\ UNCHANGED <<scene, fields, preview>>

\* ESC closes the dialog, or cancels and so hides the material window.
Escape ==
  /\ HideWindow(IF Modal THEN "colordlg" ELSE "mtlwin")
  /\ UNCHANGED <<scene, fields, preview, pointer, dirty>>

-----------------------------------------------------------------------------
(* Drags.                                                                  *)

\* The bar chooses a hue, the box the rest.
Chosen(w, h, s) ==
  IF ~Modal THEN colorw
  ELSE [colorw EXCEPT !.hue = IF w = "huebar" THEN h ELSE @,
                      !.sat = IF w = "huebox" THEN s ELSE @]

\* The button goes down on the slider, the bar or the box: colbox_mbutton.
Press(w, h, s) ==
  /\ ~held
  /\ w \in {"slider", "huebar", "huebox"}
  /\ Win(w) \in visible
  /\ Modal => w # "slider"
  /\ colorw' = Chosen(w, h, s)
  /\ press' = w
  /\ held' = TRUE
  /\ dirty' = dirty \cup {w}
  /\ UNCHANGED <<scene, fields, preview, focuswin, visible, vpdirty, shown>>

\* colbox_drag.
DragColor(h, s) ==
  /\ press \in InDialog
  /\ colorw' = Chosen(press, h, s)
  /\ dirty' = dirty \cup {press, "huebox"}
  /\ UNCHANGED <<scene, fields, preview, pointer, visible, vpdirty, shown>>

\* Mutant: the slider's text is not set.
DragSlider_NoText(v) ==
  /\ press = "slider" /\ v # slider
  /\ slider' = v
  /\ IF curmtl # -1
     THEN /\ mtl' = [mtl EXCEPT ![curmtl + 1].refl = v]
          /\ preview' = [preview EXCEPT !.valid = FALSE]
     ELSE UNCHANGED <<mtl, preview>>
  /\ UNCHANGED <<curmtl, label, colorw, pointer, visible, marks, shown>>

\* on_slider_drag and slider_callback: nothing but the new text, by its layout,
\* has the preview drawn again.
DragSlider(v) ==
  /\ press = "slider"
  /\ v # slider
  /\ slider' = v
  /\ IF curmtl # -1
     THEN /\ mtl' = [mtl EXCEPT ![curmtl + 1].refl = v]
          /\ preview' = [preview EXCEPT !.valid = FALSE]
          /\ dirty' = dirty \cup {"slider", "mtlwin"}
     ELSE UNCHANGED <<mtl, preview, dirty>>
  /\ UNCHANGED <<curmtl, label, colorw, pointer, visible, vpdirty, shown>>

\* The button goes up over the pressed widget, over another, or beside all.
ReleaseOver ==
  /\ held
  /\ press # None
  /\ Win(press) \in visible
  /\ dirty' = dirty \cup {press, Win(press)} \cup ({focuswin} \cap Wins)
  /\ focuswin' = Win(press)
  /\ press' = None
  /\ held' = FALSE
  /\ UNCHANGED <<scene, fields, preview, colorw, visible, vpdirty, shown>>

ReleaseElsewhere ==
  /\ held
  /\ dirty' = dirty \cup {press} \cup ({focuswin} \cap Wins)
  /\ press' = None
  /\ held' = FALSE
  /\ UNCHANGED <<scene, fields, preview, colorw, focuswin, visible, vpdirty, shown>>

\* Beside a modal window it hides the window, and the press is kept.
ReleaseBeside ==
  /\ held
  /\ Modal
  /\ held' = FALSE
  /\ HideWindow("colordlg")
  /\ UNCHANGED <<scene, fields, preview, press, focuswin, dirty>>

-----------------------------------------------------------------------------
\* create_mtlwin and create_colordlg, with the scene of the command line.
EditorInit ==
  /\ mtl \in Files \cup {<<>>}
  /\ curmtl = -1
  /\ label = <<0, 0>> /\ slider = 0
  /\ preview = [pixels |-> None, valid |-> FALSE]
  /\ colorw = None
  /\ press = None /\ held = FALSE /\ focuswin = "toolbar"
  /\ visible = {}
  /\ dirty = Widgets \cup Wins /\ vpdirty = TRUE
  /\ shown = [w \in Widgets |-> None]

Input ==
  \/ \E d \in {-1, 1} : StepMaterial(d)
  \/ \E m \in Material : AddMaterial(m)
  \/ Assign \/ PickColor \/ ToggleWindow \/ Escape
  \/ \E ok \in BOOLEAN : CloseDialog(ok)
  \/ \E file \in Files \cup {<<>>} : Replace(file)
  \/ \E w \in Widgets, h \in Hues, s \in {0, 1} : Press(w, h, s)
  \/ \E h \in Hues, s \in {0, 1} : DragColor(h, s)
  \/ \E v \in Positions : DragSlider(v)
  \/ ReleaseOver \/ ReleaseElsewhere \/ ReleaseBeside

EditorNext == Input \/ Display

\* The window system, or the loop under DOS, displays what was asked for.
EditorSpec == EditorInit /\ [][EditorNext]_editorVars /\ WF_editorVars(Display)

-----------------------------------------------------------------------------
(* Properties.                                                             *)

\* The types of the editor's state, which the proofs need.
EditorTypeOK ==
  /\ mtl \in Seq(Material) /\ curmtl \in -1 .. Len(mtl) - 1
  /\ label \in Nat \X Nat /\ slider \in Positions
  /\ preview \in [pixels : Material \cup {None}, valid : BOOLEAN]
  /\ colorw \in [dest : Nat, hue : Hues, sat : {0, 1}] \cup {None}
  /\ press \in {"slider", "huebar", "huebox", None} /\ held \in BOOLEAN
  /\ focuswin \in Wins \cup {"toolbar"}
  /\ visible \subseteq Wins /\ dirty \subseteq Widgets \cup Wins /\ vpdirty \in BOOLEAN
  /\ DOMAIN shown = Widgets

\* The number and the slider are those of the current material, and a preview
\* that counts as valid is its picture: whatever selects a material, adds one
\* or changes it has to bring all three up to date (mtlui.c:183, 423, 500).
EditorShowsCurrent ==
  curmtl # -1 =>
    /\ label = <<curmtl + 1, Len(mtl)>>
    /\ slider = Cur.refl
    /\ preview.valid => preview.pixels = Cur

\* While the colour dialog is open its pointer leads into the current
\* material, which still exists.
PickerTargetsCurrent == Modal => colorw.dest = curmtl /\ curmtl # -1

\* What a widget should show, without regard to caches.
Wanted(w) ==
  IF w = "preview" /\ curmtl # -1 THEN Cur ELSE Drawn(w)

\* The slider can be dragged without a material, and the box misses a hue that
\* a press on the bar chooses: neither is marked.
Shows(w) ==
  \/ shown[w] = Wanted(w)
  \/ w = "slider" /\ curmtl = -1 /\ press = "slider"
  \/ w = "huebox" /\ \E h \in Hues : shown[w] = <<h, colorw.sat>>

\* Visible pixels that are out of date are marked to be drawn again.
StaleIsMarked ==
  \A w \in Widgets : Win(w) \in visible => Shows(w) \/ w \in Redrawn

\* The screen shows the state of the editor again and again.
ScreenCatchesUp == []<>(\A w \in Widgets : Win(w) \in visible => Shows(w))
=============================================================================
