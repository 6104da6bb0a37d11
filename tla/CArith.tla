------------------------------- MODULE CArith -------------------------------
(* Integer arithmetic of C: division truncates towards zero. *)
EXTENDS Integers

Abs(a) == IF a < 0 THEN -a ELSE a
Quot(a, d) == (IF (a >= 0) = (d > 0) THEN 1 ELSE -1) * (Abs(a) \div Abs(d))
=============================================================================
