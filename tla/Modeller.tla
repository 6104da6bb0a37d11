------------------------------ MODULE Modeller ------------------------------
(***************************************************************************)
(* The scene of the modeller and the handlers that edit it: the arrays of  *)
(* scene.c, the selection (an index, modui.c), the current material of the *)
(* material editor (an index and a pointer, mtlui.c), the drop-down menus  *)
(* that are modal, the "viewport is out of date" flag of scr_mod.c, the    *)
(* matrices cached in the objects, and of a material's contents what the   *)
(* viewport draws (setup_material): its colours as one value, and its      *)
(* shininess.                                                              *)
(*                                                                         *)
(* Objects and materials are heap addresses.  malloc may return any        *)
(* address that no array of the scene owns, so an address is reused after  *)
(* free(), as it is by the real allocator.  `objects' owns its elements;   *)
(* `lights' only points to some of them.                                   *)
(***************************************************************************)
EXTENDS Integers, Sequences, SequencesExt

CONSTANTS
  Objs,       \* addresses of objects (lights are objects)
  Mtls,       \* addresses of materials
  DefMtl,     \* the static default material (default_material)
  Nil,        \* the null pointer
  Colors,     \* the colours a material may have (kd, ks and ke together)
  Shins,      \* the values of the shininess slider
  DefColor,   \* what mtl_init gives a new material
  DefShin,
  MaxLights,  \* bound on the length of `lights' (its entries outlive objects)
  MaxLoaded   \* bound on the number of objects in a scene file

ASSUME ModellerAssumption ==
  /\ DefMtl \notin Mtls
  /\ Nil \notin Objs \cup Mtls \cup {DefMtl}
  /\ DefColor \in Colors /\ DefShin \in Shins
  /\ MaxLights \in Nat
  /\ MaxLoaded \in Nat

\* "geom" is a sphere, a box or an object of a file that has no type.
Kinds  == {"geom", "light"}
Modals == {"none", "objmenu", "color", "other"}
Looks  == [color : Colors, shin : Shins]
DefLook == [color |-> DefColor, shin |-> DefShin]
\* "sel" stands for every tool that has no branch of its own in a handler.
Tools  == {"sel", "area", "dbg"}

VARIABLES
  objects,    \* scn->objects
  lights,     \* scn->lights
  mtls,       \* scn->mtl
  kind,       \* obj->type of every address, "free" when it is not allocated
  omtl,       \* obj->mtl of every address
  look,       \* what is drawn of the material at every address
  selobj,     \* index of the selected object, -1 for none
  curmtl,     \* pointer to the material shown in the editor
  curmtlIdx,  \* its index, -1 for none
  modal,      \* which modal window is open ("other": the xyz menu)
  mtlwin,     \* the material editor is visible
  textFocus,  \* its name box has the keyboard focus
  curTool,    \* cur_tool
  vpdirty,    \* the viewport must be redrawn
  flagged,    \* the objects with xform_valid = 0
  outdated    \* the objects whose matrices are not those of their pose

scene  == <<objects, lights, mtls, kind, omtl, look>>
editor == <<curmtl, curmtlIdx>>
gui    == <<modal, mtlwin, textFocus, curTool>>
xforms == <<flagged, outdated>>
vars   == <<scene, selobj, editor, gui, vpdirty, xforms>>

-----------------------------------------------------------------------------
(* Arrays of pointers.                                                     *)

\* Mutant: the last element is popped and does not take the free place.
RemoveSwap_NoMove(a, i) == Front(a)

\* The contents of an array after the element at (zero-based) index i is
\* overwritten by the last one and the last one is popped.
RemoveSwap(a, i) == Front([a EXCEPT ![i + 1] = a[Len(a)]])

\* Arrays without duplicates, of at most n elements.
DistinctArrays(S, n) == {a \in SeqOf(S, n) : IsInjective(a)}

Allocated == ToSet(objects)

NumObj == Len(objects)
NumMtl == Len(mtls)

-----------------------------------------------------------------------------
(* Helpers that several handlers call.                                     *)

\* Mutant: only the index is reset, the pointer goes stale.
SelectMaterial_StalePtr(midx, ms) ==
  IF midx < 0 \/ midx >= Len(ms)
    THEN curmtlIdx' = -1 /\ UNCHANGED curmtl
    ELSE curmtlIdx' = midx /\ curmtl' = ms[midx + 1]

\* select_material(midx)
SelectMaterial(midx, ms) ==
  IF midx < 0 \/ midx >= Len(ms)
    THEN curmtlIdx' = -1 /\ curmtl' = Nil
    ELSE curmtlIdx' = midx /\ curmtl' = ms[midx + 1]

\* cancel_op(): the material window is hidden, the viewport invalidated.
CancelOp == mtlwin' = FALSE /\ vpdirty' = TRUE

\* act_settool(tidx): leaving the area tool invalidates the viewport.
SetTool(t) == curTool' = t
LeavesArea(t) == curTool = "area" /\ t # "area"

\* Nothing is modal, so the toolbar, the windows and the viewport get input.
NoModal == modal = "none"

\* A key press reaches the switch of mdl_keyb: rtk_input_key neither gave it
\* to the focused text box nor swallowed it for a modal window.
KeysArrive == NoModal /\ ~textFocus

\* f, defined for the objects of the array os, completed for every address.
Complete(os, f, unused) == [o \in Objs |-> IF o \in ToSet(os) THEN f[o] ELSE unused]

\* The scenes a file can describe: os, ms and ls are the arrays, k and om the
\* kinds and materials of the objects, lk the materials' looks.  scn_load keeps what it read before a
\* bad node, so a file that is rejected half way gives one of them too, and a
\* material name that is not found leaves the default material.  Lights are
\* read without a material.
IsFileScene(os, ms, ls, k, om, lk) ==
  /\ os \in DistinctArrays(Objs, MaxLoaded)
  /\ ms \in DistinctArrays(Mtls, MaxLoaded)
  /\ k \in {Complete(os, f, "free") : f \in [ToSet(os) -> Kinds]}
  /\ om \in {Complete(os, f, DefMtl) : f \in [ToSet(os) -> ToSet(ms) \cup {DefMtl}]}
  /\ ls \in {l \in DistinctArrays(Objs, MaxLoaded) :
              ToSet(l) = {o \in ToSet(os) : k[o] = "light"}}
  /\ \A o \in ToSet(ls) : om[o] = DefMtl
  /\ lk \in {[m \in Mtls |-> IF m \in ToSet(ms) THEN f[m] ELSE DefLook] :
               f \in [ToSet(ms) -> Looks]}

\* Mutant: the new object is not the one selected.
NewObject_SelectsPrevious(o, k) ==
  /\ objects' = Append(objects, o)
  /\ kind' = [kind EXCEPT ![o] = k]
  /\ omtl' = [omtl EXCEPT ![o] = DefMtl]
  /\ selobj' = NumObj - 1
  /\ modal' = "none"
  /\ vpdirty' = TRUE

\* A new object at address o, appended to the array and selected.
NewObject(o, k) ==
  /\ objects' = Append(objects, o)
  /\ kind' = [kind EXCEPT ![o] = k]
  /\ omtl' = [omtl EXCEPT ![o] = DefMtl]
  /\ selobj' = NumObj
  /\ modal' = "none"
  /\ vpdirty' = TRUE

-----------------------------------------------------------------------------
(* The program starts with an empty scene or with the file named on the    *)
(* command line; app_init runs before the modeller screen is initialised.  *)

Init ==
  /\ IsFileScene(objects, mtls, lights, kind, omtl, look)
  /\ selobj = -1
  /\ curmtl = Nil
  /\ curmtlIdx = -1
  /\ modal = "none"
  /\ mtlwin = FALSE
  /\ textFocus = FALSE
  /\ curTool = "sel"
  /\ vpdirty = TRUE
  /\ flagged = Allocated
  /\ outdated = flagged

-----------------------------------------------------------------------------
(* The toolbar (tbn_callback) and the keyboard (mdl_keyb).                 *)

NewScene ==
  /\ NoModal
  /\ CancelOp
  /\ SetTool("sel")
  /\ objects' = <<>> /\ mtls' = <<>> /\ lights' = <<>>
  /\ kind' = [o \in Objs |-> "free"]
  /\ omtl' = [o \in Objs |-> DefMtl]
  /\ look' = [m \in Mtls |-> DefLook]
  /\ selobj' = -1
  /\ SelectMaterial(-1, <<>>)
  /\ flagged' = {} /\ outdated' = {}
  /\ UNCHANGED <<modal, textFocus>>

\* The old scene is cleared before the file is opened: a file that cannot be
\* parsed leaves the empty scene, which a file without nodes also gives.
OpenScene ==
  /\ NoModal
  /\ CancelOp
  /\ SetTool("sel")
  /\ IsFileScene(objects', mtls', lights', kind', omtl', look')
  /\ selobj' = -1
  /\ SelectMaterial(-1, <<>>)
  /\ flagged' = ToSet(objects') /\ outdated' = flagged'
  /\ UNCHANGED <<modal, textFocus>>

\* act_rmobj, from the toolbar or from the DEL key.
RemoveObject ==
  /\ NoModal
  /\ IF selobj >= 0
       THEN /\ objects' = RemoveSwap(objects, selobj)
            /\ kind' = [kind EXCEPT ![objects[selobj + 1]] = "free"]
            /\ omtl' = [omtl EXCEPT ![objects[selobj + 1]] = DefMtl]
            /\ selobj' = -1
            /\ vpdirty' = TRUE
            /\ flagged' = flagged \ {objects[selobj + 1]}
            /\ outdated' = outdated \ {objects[selobj + 1]}
       ELSE UNCHANGED <<objects, kind, omtl, selobj, vpdirty, xforms>>
  /\ UNCHANGED <<lights, mtls, look, editor, gui>>

\* The "+" button and the xyz button show their menus.
OpenMenu(m) ==
  /\ NoModal
  /\ modal' = m
  /\ UNCHANGED <<scene, selobj, editor, mtlwin, textFocus, curTool, vpdirty, xforms>>

\* ESC, a release outside of the window, or a button that only closes it, as
\* the colour dialog's Cancel.
CloseMenu ==
  /\ ~NoModal
  /\ modal' = "none"
  /\ vpdirty' = TRUE
  /\ UNCHANGED <<scene, selobj, editor, mtlwin, textFocus, curTool, xforms>>

\* objadd_handler.  When the allocation fails the menu is closed, no more.
AddObject ==
  /\ modal = "objmenu"
  /\ \E o \in Objs \ Allocated : NewObject(o, "geom")
  /\ UNCHANGED <<lights, mtls, look, editor, mtlwin, textFocus, curTool, xforms>>

\* Mutant: scn_add_object instead of scn_add_light.
AddLight_ObjectOnly ==
  /\ modal = "objmenu"
  /\ \E o \in Objs \ Allocated :
       /\ NewObject(o, "light")
       /\ flagged' = flagged \cup {o}
       /\ outdated' = outdated \cup {o}
  /\ UNCHANGED <<lights, mtls, look, editor, mtlwin, textFocus, curTool>>

\* addlight_handler: scn_add_light appends to both arrays.
AddLight ==
  /\ modal = "objmenu"
  /\ Len(lights) < MaxLights
  /\ \E o \in Objs \ Allocated :
       /\ NewObject(o, "light")
       /\ flagged' = flagged \cup {o}
       /\ outdated' = outdated \cup {o}
       /\ lights' = Append(lights, o)
  /\ UNCHANGED <<mtls, look, editor, mtlwin, textFocus, curTool>>

\* A tool button or one of the keys g, r, s, F6; only a key (F1) selects the
\* ray debugging tool.
ChooseTool(t) ==
  /\ NoModal
  /\ t = "dbg" => KeysArrive
  /\ SetTool(t)
  /\ vpdirty' = (vpdirty \/ LeavesArea(t))
  /\ UNCHANGED <<scene, selobj, editor, modal, mtlwin, textFocus, xforms>>

EscapeKey ==
  /\ KeysArrive
  /\ CancelOp
  /\ SetTool("sel")
  /\ UNCHANGED <<scene, selobj, editor, modal, textFocus, xforms>>

\* The material button shows the editor, or hides it and invalidates.
ToggleMtlWin ==
  /\ NoModal
  /\ mtlwin' = ~mtlwin
  /\ vpdirty' = (vpdirty \/ mtlwin)
  /\ UNCHANGED <<scene, selobj, editor, modal, textFocus, curTool, xforms>>

-----------------------------------------------------------------------------
(* The viewport: a click picks the nearest object under the pointer.       *)

Pick ==
  /\ NoModal
  /\ \E newsel \in -1 .. NumObj - 1 :
       IF curTool = "dbg"
         THEN /\ vpdirty' = TRUE
              /\ UNCHANGED selobj
         ELSE /\ selobj' = newsel
              /\ vpdirty' = (vpdirty \/ newsel # selobj)
  /\ UNCHANGED <<scene, editor, gui, xforms>>

\* Mutant: the pose changes and the matrices still count as valid.
Manipulate_KeepsValid ==
  /\ NoModal
  /\ selobj >= 0
  /\ curTool = "sel"
  /\ outdated' = outdated \cup {objects[selobj + 1]}
  /\ vpdirty' = TRUE
  /\ UNCHANGED <<scene, selobj, editor, gui, flagged>>

\* The selected object is dragged with the move, rotate or scale tool:
\* moveobj, rotobj, scaleobj.
Manipulate ==
  /\ NoModal
  /\ selobj >= 0
  /\ curTool = "sel"
  /\ flagged' = flagged \cup {objects[selobj + 1]}
  /\ outdated' = outdated \cup {objects[selobj + 1]}
  /\ vpdirty' = TRUE
  /\ UNCHANGED <<scene, selobj, editor, gui>>

\* Navigation, zooming or a resized window: the picture changes, the arrays
\* do not.
ChangeView ==
  /\ vpdirty' = TRUE
  /\ UNCHANGED <<scene, selobj, editor, gui, xforms>>

\* mdl_display in the software build: redraw when out of date.  draw_object
\* computes the matrices of the objects that are flagged.
Display ==
  /\ vpdirty
  /\ vpdirty' = FALSE
  /\ flagged' = {}
  /\ outdated' = outdated \ flagged
  /\ UNCHANGED <<scene, selobj, editor, gui>>

-----------------------------------------------------------------------------
(* The buttons of the material editor (mbn_callback).                      *)

EditorInput == NoModal /\ mtlwin

\* The C remainder, which takes the sign of the dividend.
CRem(a, b) == IF a >= 0 THEN a % b ELSE -((-a) % b)

MtlPrev ==
  /\ EditorInput
  /\ NumMtl > 0
  /\ SelectMaterial(CRem(curmtlIdx + NumMtl - 1, NumMtl), mtls)
  /\ UNCHANGED <<scene, selobj, gui, vpdirty, xforms>>

MtlNext ==
  /\ EditorInput
  /\ NumMtl > 0
  /\ SelectMaterial(CRem(curmtlIdx + 1, NumMtl), mtls)
  /\ UNCHANGED <<scene, selobj, gui, vpdirty, xforms>>

\* The add button, and the duplicate button when a material is current.
MtlAdd ==
  /\ EditorInput
  /\ \E m \in Mtls \ ToSet(mtls), source \in {Nil, curmtl} :
       /\ mtls' = Append(mtls, m)
       /\ look' = [look EXCEPT ![m] = IF source = Nil THEN DefLook ELSE look[source]]
       /\ SelectMaterial(NumMtl, Append(mtls, m))
  /\ UNCHANGED <<objects, lights, kind, omtl, selobj, gui, vpdirty, xforms>>

MtlAssign ==
  /\ EditorInput
  /\ curmtl # Nil
  /\ selobj >= 0
  /\ omtl' = [omtl EXCEPT ![objects[selobj + 1]] = curmtl]
  /\ vpdirty' = TRUE
  /\ UNCHANGED <<objects, lights, mtls, kind, look, selobj, editor, gui, xforms>>

\* start_color_picker: a colour button of a current material.
OpenColor ==
  /\ EditorInput
  /\ curmtl # Nil
  /\ modal' = "color"
  /\ UNCHANGED <<scene, selobj, editor, mtlwin, textFocus, curTool, vpdirty, xforms>>

\* Mutant: the dialog is hidden without invalidating the viewport.
ColorOk_NoInval ==
  /\ modal = "color"
  /\ \E c \in Colors : look' = [look EXCEPT ![curmtl].color = c]
  /\ modal' = "none"
  /\ UNCHANGED <<objects, lights, mtls, kind, omtl, selobj, editor, mtlwin,
                 textFocus, curTool, vpdirty, xforms>>

\* The dialog's Ok (colbn_handler) stores the colour into the material it was
\* opened for, the current one since nothing else gets input while it is
\* modal, and hides the dialog, which marks the viewport (rtk_hide).
ColorOk ==
  /\ modal = "color"
  /\ \E c \in Colors : look' = [look EXCEPT ![curmtl].color = c]
  /\ modal' = "none"
  /\ vpdirty' = TRUE
  /\ UNCHANGED <<objects, lights, mtls, kind, omtl, selobj, editor, mtlwin,
                 textFocus, curTool, xforms>>

\* The shininess slider (slider_callback) changes the current material and
\* nothing marks the viewport.  The other sliders change nothing that is drawn.
SlideShininess ==
  /\ EditorInput
  /\ curmtl # Nil
  /\ \E s \in Shins : look' = [look EXCEPT ![curmtl].shin = s]
  /\ UNCHANGED <<objects, lights, mtls, kind, omtl, selobj, editor, gui, vpdirty, xforms>>

\* The name box is clicked; no code path takes the keyboard away from it.
FocusName ==
  /\ EditorInput
  /\ textFocus' = TRUE
  /\ UNCHANGED <<scene, selobj, editor, modal, mtlwin, curTool, vpdirty, xforms>>

-----------------------------------------------------------------------------
Next ==
  \/ NewScene \/ OpenScene \/ RemoveObject
  \/ \E m \in {"objmenu", "other"} : OpenMenu(m)
  \/ CloseMenu \/ AddObject \/ AddLight
  \/ \E t \in Tools : ChooseTool(t)
  \/ EscapeKey \/ ToggleMtlWin \/ Pick \/ Manipulate \/ ChangeView
  \/ Display
  \/ MtlPrev \/ MtlNext \/ MtlAdd \/ MtlAssign
  \/ OpenColor \/ ColorOk \/ SlideShininess \/ FocusName

Spec == Init /\ [][Next]_vars
-----------------------------------------------------------------------------
(* Properties.                                                             *)

SceneTypeOK ==
  /\ objects \in Seq(Objs)
  /\ lights \in Seq(Objs)
  /\ mtls \in Seq(Mtls)
  /\ kind \in [Objs -> Kinds \cup {"free"}]
  /\ omtl \in [Objs -> Mtls \cup {DefMtl}]
  /\ look \in [Mtls -> Looks]
  /\ selobj \in Int
  /\ curmtl \in Mtls \cup {Nil}
  /\ curmtlIdx \in Int
  /\ modal \in Modals
  /\ mtlwin \in BOOLEAN
  /\ textFocus \in BOOLEAN
  /\ curTool \in Tools
  /\ vpdirty \in BOOLEAN

TypeOK ==
  /\ SceneTypeOK
  /\ flagged \in SUBSET Objs
  /\ outdated \in SUBSET Objs

\* The selection indexes an object of the array, whatever was added, removed,
\* cleared or loaded since it was made: act_rmobj, mbn_callback and mdl_motion
\* use objects[selobj] without another check.
SelectionInRange == selobj \in -1 .. NumObj - 1

\* No address is in the array twice (it would be freed twice), and an address
\* is in the array exactly while it is allocated.
ObjectsOwned ==
  /\ IsInjective(objects)
  /\ \A o \in Objs : o \in Allocated <=> kind[o] # "free"

\* The pointer and the index the material editor keeps agree with the array.
EditorTracksScene ==
  /\ IsInjective(mtls)
  /\ curmtl = Nil <=> curmtlIdx = -1
  /\ curmtl # Nil => /\ curmtlIdx \in 0 .. NumMtl - 1
                     /\ mtls[curmtlIdx + 1] = curmtl

\* No object refers to a material that was freed with an earlier scene.
MaterialsLive ==
  \A o \in Allocated : omtl[o] \in ToSet(mtls) \cup {DefMtl}

\* Every light of the scene is known to the renderer, which walks `lights'.
LightsShine ==
  \A o \in Allocated : kind[o] = "light" => o \in ToSet(lights)

\* scn_save writes a "light" node for every element of `lights'; the format
\* asks for unique names, so no light may be listed twice (doc/manual.md:108).
SavedLightsUnique == IsInjective(lights)

\* What the viewport draws: which objects, of which kind and material, which
\* one is selected, and what their materials look like.
LookOf(o) == IF omtl[o] = DefMtl THEN DefLook ELSE look[omtl[o]]
Arrangement == <<objects, kind, omtl, selobj>>
Picture == <<Arrangement, [o \in Allocated |-> LookOf(o)]>>

\* Only the shininess of the material in the editor is another one.
ShininessSlid ==
  /\ UNCHANGED <<Arrangement, mtls, editor>>
  /\ \E s \in Shins : look' = [look EXCEPT ![curmtl].shin = s]

\* Whatever step changes what the viewport draws of the scene, it leaves the
\* viewport marked for redraw, with one exception: after a move of the
\* shininess slider the viewport may keep the old highlights until something
\* else marks it.
PictureIsRedrawn == [][Picture' # Picture => vpdirty' \/ ShininessSlid]_vars

\* While the viewport is up to date no object has the matrices of an older
\* pose.  scn_intersect and scn_pick use inv_xform without a look at
\* xform_valid; mdl_display traces a pass only after the viewport is drawn.
MatricesFresh == ~vpdirty => outdated = {}

\* The program implements the scene of sets: an index stays with its object
\* when the arrays shrink and their elements move.
Selected == IF selobj = -1 THEN Nil ELSE objects[selobj + 1]
Abs == INSTANCE SceneSet WITH
         objs  <- Allocated,
         mats  <- ToSet(mtls),
         mtlOf <- [o \in Allocated |-> omtl[o]],
         sel   <- Selected,
         cur   <- curmtl
ImplementsSceneSet == Abs!SSpec
=============================================================================
