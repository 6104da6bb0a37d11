------------------------------ MODULE SceneSet ------------------------------
(***************************************************************************)
(* What the modeller promises its user about a scene, without saying how   *)
(* the scene is stored: a set of objects, a set of materials, the material *)
(* of every object, at most one selected object and at most one material   *)
(* open in the material editor.  The program keeps arrays and refers to    *)
(* the selection and to the current material by INDEX (scene.c, modui.c,   *)
(* mtlui.c); module Modeller is shown to implement this one.               *)
(***************************************************************************)
CONSTANTS
  Objs,      \* the objects that may ever exist
  Mtls,      \* the materials that may ever exist
  DefMtl,    \* the static default material, which is in no scene
  Nil        \* "no object" and "no material"

VARIABLES
  objs,      \* the objects of the scene
  mats,      \* the materials of the scene
  mtlOf,     \* the material each object of the scene is drawn with
  sel,       \* the selected object, or Nil
  cur        \* the material open in the editor, or Nil

svars == <<objs, mats, mtlOf, sel, cur>>

SInit ==
  /\ objs \subseteq Objs
  /\ mats \subseteq Mtls
  /\ mtlOf \in [objs -> mats \cup {DefMtl}]
  /\ sel = Nil
  /\ cur = Nil

\* A new object joins the scene with the default material and is selected.
Add ==
  \E o \in Objs \ objs :
    /\ objs' = objs \cup {o}
    /\ mtlOf' = [p \in objs \cup {o} |-> IF p = o THEN DefMtl ELSE mtlOf[p]]
    /\ sel' = o
    /\ UNCHANGED <<mats, cur>>

\* The selected object, and no other, leaves the scene.
Remove ==
  /\ sel # Nil
  /\ objs' = objs \ {sel}
  /\ mtlOf' = [p \in objs \ {sel} |-> mtlOf[p]]
  /\ sel' = Nil
  /\ UNCHANGED <<mats, cur>>

\* A click selects an object of the scene, or nothing.
Select ==
  /\ sel' \in objs \cup {Nil}
  /\ UNCHANGED <<objs, mats, mtlOf, cur>>

\* A new material joins the scene and opens in the editor.
AddMtl ==
  \E m \in Mtls \ mats :
    /\ mats' = mats \cup {m}
    /\ cur' = m
    /\ UNCHANGED <<objs, mtlOf, sel>>

\* The editor moves to another material of the scene.
Browse ==
  /\ cur' \in mats
  /\ UNCHANGED <<objs, mats, mtlOf, sel>>

\* The selected object gets the material that is open in the editor.
Assign ==
  /\ sel # Nil
  /\ cur # Nil
  /\ mtlOf' = [mtlOf EXCEPT ![sel] = cur]
  /\ UNCHANGED <<objs, mats, sel, cur>>

\* A new or a loaded scene replaces the old one: nothing is selected, and
\* every object has a material of the new scene or the default one.
Replace ==
  /\ objs' \subseteq Objs
  /\ mats' \subseteq Mtls
  /\ mtlOf' \in [objs' -> mats' \cup {DefMtl}]
  /\ sel' = Nil
  /\ cur' = Nil

SNext == Add \/ Remove \/ Select \/ AddMtl \/ Browse \/ Assign \/ Replace

SSpec == SInit /\ [][SNext]_svars
=============================================================================
