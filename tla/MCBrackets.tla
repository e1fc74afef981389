----------------------------- MODULE MCBrackets -----------------------------
(* Instances of Brackets small enough for TLC: two or three calls, the      *)
(* last two of one session.                                                 *)
EXTENDS Brackets, TLC

CONSTANTS c1, c2, c3, h1, h2, main, side, one, two

MCHooks == {h1, h2}
Two == {c1, c2}
Three == {c1, c2, c3}
MCSession == [c \in Calls |-> IF c = c1 THEN one ELSE two]
Swaps == {c1 :> c1 @@ c2 :> c2 @@ one :> one @@ two :> two,
          c1 :> c2 @@ c2 :> c1 @@ one :> two @@ two :> one}
Symmetric == {h @@ k @@ s : h \in Permutations(MCHooks),
                            k \in Permutations(Checkouts), s \in Swaps}

\* No row can change any more once all hooks have been started and none of
\* those left ends a call; what happens then is later than every row.
RowsMayChange ==
  fired < MaxFirings \/ \E h \in Hooks : hook[h].pc \in {"close", "read", "collect"}
=============================================================================
