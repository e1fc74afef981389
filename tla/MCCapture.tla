----------------------------- MODULE MCCapture -----------------------------
EXTENDS Capture, TLC
MCRuns == {"r1", "r2"}
MCSymmetry == Permutations(Flushers)
MCLaunched == {"r1"}
MCSettings ==
  {[mode |-> "off",     keyed |-> TRUE],
   [mode |-> "warn",    keyed |-> TRUE],
   [mode |-> "enforce", keyed |-> TRUE],
   [mode |-> "enforce", keyed |-> FALSE]}
=============================================================================
