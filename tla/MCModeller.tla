----------------------------- MODULE MCModeller -----------------------------
(* Instances of Modeller for TLC. *)
EXTENDS Modeller, TLC

Symmetry == Permutations(Objs) \cup Permutations(Mtls)

\* A bound: three objects and two materials as long as every material looks
\* like a new one, three of both together once one has got another look.
WithinBounds ==
  look' # [m \in Mtls |-> DefLook] => Len(objects') + Len(mtls') <= 3
BoundedSpec == Init /\ [][Next /\ WithinBounds]_vars
=============================================================================
