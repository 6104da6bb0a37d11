---------------------------- MODULE MCSceneFile -----------------------------
(* Sessions that begin without a scene file. *)
EXTENDS SceneFile

NoFile == {}
=============================================================================
