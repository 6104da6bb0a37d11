----------------------------- MODULE MCKbdRing ------------------------------
(* Three switches: the minus of the keypad, its slash, which has the same  *)
(* name, and the slash that has the code of that without the prefix.       *)
EXTENDS KbdRing, TLC

CONSTANTS minus, slash

Table    == (74 :> minus) @@ (53 :> slash)
TableExt == (53 :> minus)
=============================================================================
