--------------------------- MODULE MCRegistration ---------------------------
(* Small instance of Registration for TLC. *)
EXTENDS Registration, TLC

CONSTANTS p1, p2, o1, o2, h1, stop, late

MCPlans  == {p1, p2}
MCKeys   == {stop, late}
MCEvents == {stop, late}
MCLate   == {late}
MCOps    == {o1, o2}
MCHooks  == {h1}

Symmetry == Permutations(MCPlans) \cup Permutations(MCOps)
=============================================================================
