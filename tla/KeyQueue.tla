------------------------------ MODULE KeyQueue ------------------------------
(***************************************************************************)
(* What the DOS keyboard driver promises the main loop: a queue of the     *)
(* latest key presses, in order, that forgets the oldest one when it is    *)
(* full, and that the main loop takes from whenever it is not empty.       *)
(***************************************************************************)
EXTENDS Naturals, Sequences, SequencesExt

CONSTANTS
  Keys,      \* keys of the keyboard
  Capacity,  \* keys that the queue remembers
  NoKey

VARIABLES
  queue,     \* the presses that were not taken yet
  got        \* the key that was taken last

qvars == <<queue, got>>

QInit == queue = <<>> /\ got = NoKey

Add(k) ==
  /\ queue' = IF Len(queue) < Capacity THEN Append(queue, k)
                                       ELSE Append(Tail(queue), k)
  /\ UNCHANGED got

Take ==
  /\ queue # <<>>
  /\ got' = Head(queue)
  /\ queue' = Tail(queue)

QNext == Take \/ \E k \in Keys : Add(k)

QSpec == QInit /\ [][QNext]_qvars /\ WF_qvars(Take)
=============================================================================
