---------------------------- MODULE MCMtlEditor -----------------------------
EXTENDS MtlEditor

OneFile == {<<[kd |-> Red, refl |-> 0], [kd |-> Grey, refl |-> 1]>>}
=============================================================================
