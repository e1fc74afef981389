------------------------------ MODULE MCOutbox ------------------------------
(* Instances of Outbox small enough for TLC.                                *)
EXTENDS Outbox

CONSTANTS short, long, timer, person

MCBodies == {short, long}
OneBody == {short}
OnePage == [b \in OneBody |-> 1]
MCPages == [b \in MCBodies |-> IF b = short THEN 1 ELSE 2]
AllPoints == Points
WhileSending == {"post"}
=============================================================================
