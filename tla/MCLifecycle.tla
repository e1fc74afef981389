---------------------------- MODULE MCLifecycle ----------------------------
(* Small instance of Lifecycle for TLC: an install and two upgrades. *)
EXTENDS Lifecycle, TLC

CONSTANTS p1, p2, p3, o1, stop, late

MCPlans  == {p1, p2, p3}
MCKeys   == {stop, late}
MCLate   == {late}
MCOps    == {o1}

Symmetry == Permutations(MCPlans)
=============================================================================
