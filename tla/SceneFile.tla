----------------------------- MODULE SceneFile ------------------------------
(***************************************************************************)
(* Saving and opening scenes (scn_save and scn_load of scene.c), and the   *)
(* names that tie a scene file together.  Objects refer to materials by    *)
(* pointer in memory and by NAME in a file.  New materials and objects get *)
(* their names from static counters (mtl_init, create_object) that start   *)
(* at zero in every session and also count what is read from a file.       *)
(*                                                                         *)
(* A generated name is its number; what the user types is one of the same  *)
(* names.  Attributes that are written and read under one name (colors,    *)
(* transformations) are left out; shininess stands for the others.         *)
(***************************************************************************)
EXTENDS Integers, Sequences

CONSTANTS
  MtlNames,  \* the names of materials, some numbers
  TypedNames,\* the names that the user types into the name box
  Shins,     \* values of the shininess slider
  Views,     \* positions of the camera
  MaxMtls, MaxObjs,  \* bounds on the size of a scene
  MaxId,             \* bound on the counters
  Foreign            \* scene files written by hand

DefShin == 50
Kinds   == {"box", "light", "null"}  \* box stands for the sphere as well

\* The nodes of scene files: without a type an object is invisible, and without
\* a material, -1, it has the default.
ObjNames == Kinds \X Nat
Nodes ==
  [node : {"material"}, name : Nat, shin : Shins]
    \cup [node : {"object"}, type : {"box", "none", "unknown"}, name : ObjNames, material : Nat \cup {-1}]
    \cup [node : {"light"}, name : ObjNames]
    \cup [node : {"view"}, view : Views]

ASSUME SceneFileAssumption ==
  /\ MtlNames \subseteq Nat /\ TypedNames \subseteq MtlNames
  /\ DefShin \in Shins
  /\ Foreign \subseteq Seq(Nodes)
  /\ MaxMtls \in Nat /\ MaxObjs \in Nat /\ MaxId \in Nat

VARIABLES
  mtls,     \* scn->mtl: names and shininess
  objs,     \* scn->objects: kinds, names, and the index of the material
            \* in mtls, 0 for default_material; scn->lights has its lights
  view,     \* the camera
  mtlidx,   \* the counter of mtl_init
  defUsed,  \* default_material was called, which counts one material
  objid,    \* the counters of create_object
  file      \* the nodes of the scene file on the disk

counters == <<mtlidx, defUsed, objid>>
fileVars == <<mtls, objs, view, counters, file>>

-----------------------------------------------------------------------------
(* Writing: cons_tsmtl, cons_tsobj, cons_tslight and scn_save.             *)

MtlNode(m) == [node |-> "material", name |-> m.name, shin |-> m.shin]

\* Mutant: the material is written as its index.
ObjNode_Index(o) ==
  [node |-> "object", type |-> IF o.kind = "box" THEN "box" ELSE "none",
   name |-> o.name, material |-> o.mtl]

\* Lights and untyped objects have no type attribute, and the default
\* material is not written.
ObjNode(o) ==
  [node |-> "object", type |-> IF o.kind = "box" THEN "box" ELSE "none",
   name |-> o.name, material |-> IF o.mtl = 0 THEN -1 ELSE mtls[o.mtl].name]

LightNode(o) == [node |-> "light", name |-> o.name]

ViewNode(v) == [node |-> "view", view |-> v]

\* The objects of one kind among the first ones, and among all.
Picked(os, kind) ==
  LET picked[k \in 0 .. Len(os)] ==
        IF k = 0 THEN <<>>
        ELSE IF os[k].kind = kind THEN Append(picked[k - 1], os[k]) ELSE picked[k - 1]
  IN  picked

OfKind(os, kind) == Picked(os, kind)[Len(os)]

Saved ==
  LET lights == OfKind(objs, "light") IN
  [i \in DOMAIN mtls |-> MtlNode(mtls[i])] \o [i \in DOMAIN objs |-> ObjNode(objs[i])]
    \o [i \in DOMAIN lights |-> LightNode(lights[i])] \o <<ViewNode(view)>>

-----------------------------------------------------------------------------
(* Reading: read_material, read_object, read_light and scn_load.  `s' is   *)
(* the scene read so far, with the counters.                               *)

\* The first material of that name, 0 (the default) when there is none.
FindMaterial(ms, n) ==
  LET found == {i \in DOMAIN ms : ms[i].name = n}
  IN IF found = {} THEN 0 ELSE CHOOSE i \in found : \A j \in found : i <= j

\* create_object counts an object of its kind, and the default material once.
Create(s, kind) ==
  [s EXCEPT !.objid[kind] = @ + 1,
            !.mtlidx = IF s.defUsed THEN @ ELSE @ + 1,
            !.defUsed = TRUE]

\* The attribute that is read is "shininess", which no file has: the value
\* of mtl_init stays.
ReadMaterial(s, n) ==
  [s EXCEPT !.mtls = Append(@, [name |-> n.name, shin |-> DefShin]),
            !.mtlidx = @ + 1]

ReadObject(s, n) ==
  IF n.type = "unknown" THEN [s EXCEPT !.ok = FALSE]
  ELSE LET kind == IF n.type = "box" THEN "box" ELSE "null" IN
       [Create(s, kind) EXCEPT !.objs =
          Append(@, [kind |-> kind, name |-> n.name,
                     mtl |-> FindMaterial(s.mtls, n.material)])]

ReadLight(s, n) ==
  [Create(s, "light") EXCEPT !.objs =
     Append(@, [kind |-> "light", name |-> n.name, mtl |-> 0])]

\* A node that cannot be read ends the loop.
ReadNode(s, n) ==
  IF ~ s.ok THEN s
  ELSE CASE n.node = "material" -> ReadMaterial(s, n)
         [] n.node = "object"   -> ReadObject(s, n)
         [] n.node = "light"    -> ReadLight(s, n)
         [] n.node = "view"     -> [s EXCEPT !.view = n.view]

\* The scene before the first node, with a camera and counters that go on.
Cleared == [mtls |-> <<>>, objs |-> <<>>, view |-> view, ok |-> TRUE,
            mtlidx |-> mtlidx, defUsed |-> defUsed, objid |-> objid]

\* The scene after each node, and after the last one.
Reading(nodes) ==
  LET s[k \in 0 .. Len(nodes)] == IF k = 0 THEN Cleared ELSE ReadNode(s[k - 1], nodes[k])
  IN  s

Loaded(nodes) == Reading(nodes)[Len(nodes)]

-----------------------------------------------------------------------------
(* A session.                                                              *)

Counted == mtlidx <= MaxId /\ \A k \in Kinds : objid[k] <= MaxId

\* mtl_init: the add button of the material editor.
AddMaterial ==
  /\ Len(mtls) < MaxMtls /\ mtlidx \in MtlNames
  /\ mtls' = Append(mtls, [name |-> mtlidx, shin |-> DefShin])
  /\ mtlidx' = mtlidx + 1
  /\ UNCHANGED <<objs, view, defUsed, objid, file>>

\* The duplicate button: everything is copied but the name.
DuplicateMaterial ==
  /\ Len(mtls) < MaxMtls /\ mtlidx \in MtlNames
  /\ \E i \in DOMAIN mtls : mtls' = Append(mtls, [mtls[i] EXCEPT !.name = mtlidx])
  /\ mtlidx' = mtlidx + 1
  /\ UNCHANGED <<objs, view, defUsed, objid, file>>

\* The name box (mtx_callback) and the shininess slider.
RenameMaterial(i, n) ==
  /\ mtls' = [mtls EXCEPT ![i].name = n]
  /\ UNCHANGED <<objs, view, counters, file>>

SlideShininess(i, v) ==
  /\ mtls' = [mtls EXCEPT ![i].shin = v]
  /\ UNCHANGED <<objs, view, counters, file>>

\* objadd_handler and addlight_handler.
AddObject(kind) ==
  /\ Len(objs) < MaxObjs /\ Counted
  /\ objs' = Append(objs, [kind |-> kind, name |-> <<kind, objid[kind]>>, mtl |-> 0])
  /\ objid' = [objid EXCEPT ![kind] = @ + 1]
  /\ mtlidx' = IF defUsed THEN mtlidx ELSE mtlidx + 1
  /\ defUsed' = TRUE
  /\ UNCHANGED <<mtls, view, file>>

Assign(o, i) ==
  /\ objs' = [objs EXCEPT ![o].mtl = i]
  /\ UNCHANGED <<mtls, view, counters, file>>

MoveView(v) ==
  /\ view' = v
  /\ UNCHANGED <<mtls, objs, counters, file>>

Save ==
  /\ file' = Saved
  /\ UNCHANGED <<mtls, objs, view, counters>>

Open ==
  /\ file # <<>> /\ Counted
  /\ LET s == Loaded(file) IN
     /\ Len(s.objs) <= MaxObjs
     /\ mtls' = s.mtls /\ objs' = s.objs /\ view' = s.view
     /\ mtlidx' = s.mtlidx /\ defUsed' = s.defUsed /\ objid' = s.objid
  /\ UNCHANGED file

\* A session begins with an empty scene and with counters at zero.
Fresh == /\ mtls = <<>> /\ objs = <<>>
         /\ view \in Views
         /\ mtlidx = 0 /\ defUsed = FALSE
         /\ objid = [k \in Kinds |-> 0]

\* The new button, and the open button when there is no file: the scene is
\* cleared before the file is looked for.
New ==
  /\ mtls' = <<>> /\ objs' = <<>>
  /\ UNCHANGED <<view, counters, file>>

\* The program is left and started again.
Restart ==
  /\ mtls' = <<>> /\ objs' = <<>>
  /\ view' \in Views
  /\ mtlidx' = 0 /\ defUsed' = FALSE
  /\ objid' = [k \in Kinds |-> 0]
  /\ UNCHANGED file

FileInit == Fresh /\ file \in Foreign \cup {<<>>}

FileNext ==
  \/ AddMaterial \/ DuplicateMaterial
  \/ \E i \in DOMAIN mtls, n \in TypedNames : RenameMaterial(i, n)
  \/ \E i \in DOMAIN mtls, v \in Shins : SlideShininess(i, v)
  \/ \E kind \in {"box", "light"} : AddObject(kind)
  \/ \E o \in DOMAIN objs, i \in DOMAIN mtls : Assign(o, i)
  \/ \E v \in Views : MoveView(v)
  \/ Save \/ Open \/ New \/ Restart

FileSpec == FileInit /\ [][FileNext]_fileVars

-----------------------------------------------------------------------------
(* Properties.                                                             *)

NamesDiffer == \A i, j \in DOMAIN mtls : mtls[i].name = mtls[j].name => i = j

\* What becomes of an object that is written as an object: a light, too, is
\* read as one without type, and stays invisible.
Opened(o) == [o EXCEPT !.kind = IF o.kind = "box" THEN "box" ELSE "null"]

\* As long as the names of the materials differ, a saved scene is whole when
\* it is opened, whatever was created, renamed, duplicated, assigned, saved
\* and opened before: the view, the materials and the objects, in order, by
\* their names and each with its material, and the lights, in order, behind
\* them.  Two things are not as they were: every shininess is that of a new
\* material, and of every light there is an invisible object as well, besides
\* those that earlier openings have left.
SceneSurvives ==
  NamesDiffer =>
    LET s      == Loaded(Saved)
        lights == OfKind(objs, "light")
    IN
    /\ s.ok
    /\ s.mtls = [i \in DOMAIN mtls |-> [mtls[i] EXCEPT !.shin = DefShin]]
    /\ s.objs = [i \in DOMAIN objs |-> Opened(objs[i])]
                  \o [i \in DOMAIN lights |-> [lights[i] EXCEPT !.mtl = 0]]
    /\ s.view = view

\* The manual: the name of a material must be unique.  This is what the
\* program's own names do to it, when nobody types one.
MaterialNamesUnique ==
  \A i, j \in DOMAIN file :
    /\ file[i].node = "material" /\ file[j].node = "material"
    /\ file[i].name = file[j].name
    => i = j
=============================================================================
