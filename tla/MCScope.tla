------------------------------ MODULE MCScope ------------------------------
(* Small instance of Scope for TLC: two processes and a hook in one         *)
(* directory, for the whole machine or for one repository.                  *)
EXTENDS Scope, TLC

CONSTANTS a1, a2, h1, machine, repository, k1, k2, e1

MCProcs    == {a1, a2}
MCHooks    == {h1}
MCTargets  == {machine, repository}
MCWide     == {machine}
MCPairings == {k1, k2}
MCEntries  == {e1}
MCListing  == {0, 2}
MCAccepting == {1}

\* Bound: the scope is refreshed and read only where the pairing that gave
\* the connection was the first.
FirstPairing ==
    dir.outbox # None => \A k \in Pairings \ {dir.saved} : pairing[k].state = "none"

\* Bound: once the server has replied, nobody is in the part of setup that its
\* lock covers up to a saved connection (it has no part in what follows).
SetupsBefore ==
    replies > 0 => \A p \in Procs : proc[p].cmd = "setup" => proc[p].pc \in {"initialize", "opened", "seed"}

Symmetry == Permutations(MCProcs) \cup Permutations(MCPairings)
=============================================================================
