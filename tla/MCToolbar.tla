----------------------------- MODULE MCToolbar ------------------------------
(* Toolbar by itself, for what the manual says about shift. *)
EXTENDS Toolbar
=============================================================================
