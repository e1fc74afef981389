------------------------------ MODULE Delivery ------------------------------
(***************************************************************************)
(* What the outbox promises about one observation, without its queue, its  *)
(* cursor, its locks or its processes: an observation is stored once with  *)
(* frozen bytes, stays pending until the server holds exactly those bytes, *)
(* and only then counts as delivered.  A delivered identity may later be   *)
(* forgotten, after which a late duplicate is a new observation.           *)
(***************************************************************************)
CONSTANTS Ids, Bodies, NoBody

VARIABLES
  pending,    \* the body each stored, unacknowledged observation was frozen with
  remembered, \* the body each acknowledged observation is remembered by
  held        \* the body the server holds for each observation

vars == <<pending, remembered, held>>

Slots == [Ids -> Bodies \cup {NoBody}]

TypeOK == pending \in Slots /\ remembered \in Slots /\ held \in Slots

Init ==
  /\ pending    = [id \in Ids |-> NoBody]
  /\ remembered = [id \in Ids |-> NoBody]
  /\ held       = [id \in Ids |-> NoBody]

Store(id, body) ==
  /\ pending[id] = NoBody
  /\ remembered[id] = NoBody
  /\ pending' = [pending EXCEPT ![id] = body]
  /\ UNCHANGED <<remembered, held>>

\* The server takes the first body it is sent for an identity and keeps it.
Take(id) ==
  /\ pending[id] # NoBody
  /\ held[id] = NoBody
  /\ held' = [held EXCEPT ![id] = pending[id]]
  /\ UNCHANGED <<pending, remembered>>

Acknowledge(id) ==
  /\ pending[id] # NoBody
  /\ held[id] = pending[id]
  /\ pending' = [pending EXCEPT ![id] = NoBody]
  /\ remembered' = [remembered EXCEPT ![id] = pending[id]]
  /\ UNCHANGED held

Forget(ids) ==
  /\ remembered' = [id \in Ids |-> IF id \in ids THEN NoBody ELSE remembered[id]]
  /\ UNCHANGED <<pending, held>>

Next ==
  \/ \E id \in Ids, body \in Bodies : Store(id, body)
  \/ \E id \in Ids : Take(id) \/ Acknowledge(id)
  \/ \E ids \in SUBSET Ids : Forget(ids)

Spec == Init /\ [][Next]_vars
=============================================================================
