------------------------------- MODULE MCDrain -------------------------------
(* Instances of Drain small enough for TLC.                                 *)
EXTENDS Drain

CONSTANTS a, b, c, d

MCIds == {a, b, c, d}
==============================================================================
