------------------------------- MODULE MCDrops -------------------------------
(* An instance of Drops small enough for TLC.                               *)
EXTENDS Drops, TLC

CONSTANTS h1, h2, h3, i1, i2, i3

MCHooks == {h1, h2, h3}
MCInodes == {i1, i2, i3}
Symmetric == Permutations(MCHooks) \cup Permutations(MCInodes)
==============================================================================
