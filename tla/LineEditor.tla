----------------------------- MODULE LineEditor -----------------------------
(***************************************************************************)
(* What a text box promises: a line, a place in it, and an owner that      *)
(* always knows the line.  Abstract specification of TextBox.              *)
(***************************************************************************)
EXTENDS Naturals, Sequences, SequencesExt

CONSTANT Chars

VARIABLES
  line,   \* the text
  at,     \* the cursor: how many characters are left of it
  told    \* the text as its owner knows it

lineVars == <<line, at, told>>

Becomes(s, a) == line' = s /\ told' = s /\ at' = a

Type(c)   == Becomes(InsertAt(line, at + 1, c), at + 1)
Backspace == at > 0 /\ Becomes(RemoveAt(line, at), at - 1)
Delete    == at < Len(line) /\ Becomes(RemoveAt(line, at + 1), at)
GoTo(a)   == a \in 0 .. Len(line) /\ Becomes(line, a)

Edit ==
  \/ \E c \in Chars : Type(c)
  \/ Backspace
  \/ Delete
  \/ \E a \in {0, at - 1, at + 1, Len(line)} : GoTo(a)
=============================================================================
