---------------------------- MODULE OutboxProofs ----------------------------
(***************************************************************************)
(* Proofs about Outbox for every set of observations, bodies and sync      *)
(* processes and every bound.                                              *)
(***************************************************************************)
EXTENDS Outbox, FiniteSetTheorems, TLAPS

(* The parts of the type invariant an action can disturb.                   *)
Keys == \A q, r \in outbox : (q.seq = r.seq \/ q.id = r.id) => q = r

LEMMA LowestSubset ==
  ASSUME NEW rows, NEW n
  PROVE  Lowest(rows, n) \subseteq rows
BY DEF Lowest

LEMMA WrappedSubset ==
  ASSUME NEW rows, NEW c, NEW n, NEW ahead
  PROVE  Wrapped(rows, c, n, ahead) \subseteq rows
BY LowestSubset DEF Wrapped, Behind

LEMMA FailureTypes ==
  /\ Refusal \in Failures
  /\ \A f \in Failures : f.wait \in Nat /\ f.stop \in BOOLEAN /\ f.revoked \in BOOLEAN
  /\ \A f \in Failures : (f.wait > 0 => f.stop) /\ (f.revoked => f.stop)
<1> USE DEF Refusal, Halt, Revocation, Limited
<1>1. Refusal \in Failures
  BY DEF Failures
<1>2. ASSUME NEW f \in Failures
      PROVE  /\ f.wait \in Nat /\ f.stop \in BOOLEAN /\ f.revoked \in BOOLEAN
             /\ f.wait > 0 => f.stop
             /\ f.revoked => f.stop
  <2>1. CASE f = Refusal
    BY <2>1
  <2>2. CASE f = Halt
    BY <2>2
  <2>4. CASE f = Revocation
    BY <2>4
  <2>3. CASE \E w \in Waits : f = Limited(w)
    <3>1. PICK w \in Waits : f = [stop |-> TRUE, revoked |-> FALSE, wait |-> w]
      BY <2>3
    <3>2. w \in Nat
      BY OutboxAssumption DEF OutboxAssumption
    <3> QED BY <3>1, <3>2
  <2> QED BY <1>2, <2>1, <2>2, <2>3, <2>4 DEF Failures
<1> QED BY <1>1, <1>2

LEMMA LeaveTypes ==
  ASSUME TypeOK, NEW s \in Syncers, Leave(s)
  PROVE  /\ pc' \in [Syncers -> Points]
         /\ lock' \in Syncers \cup {NoSyncer}
         /\ todo' \in [Syncers -> SUBSET Rows]
         /\ row' \in [Syncers -> SUBSET Rows]
         /\ reply' \in [Syncers -> Failures]
BY FailureTypes DEF TypeOK, Leave, Goto, Points

-----------------------------------------------------------------------------
\* Every reachable state has the declared types, and no two pending rows share
\* a number or an id (the keys of the table outbox).
THEOREM TypeCorrect == Spec => []TypeOK
<1>1. Init => TypeOK
  <2> SUFFICES ASSUME Init PROVE TypeOK
    OBVIOUS
  <2> USE DEF Init
  <2>1. accepted \in [rows : SUBSET [id : Ids, body : Bodies], stored : Nat]
    OBVIOUS
  <2>2. reply \in [Syncers -> Failures]
    BY FailureTypes
  <2> QED BY <2>1, <2>2 DEF TypeOK, Points
<1>2. TypeOK /\ [Next]_vars => TypeOK'
  <2> SUFFICES ASSUME TypeOK, [Next]_vars PROVE TypeOK'
    OBVIOUS
  <2>1. ASSUME NEW id \in Ids, NEW body \in Bodies, Collect(id, body)
        PROVE  TypeOK'
    <3> USE <2>1 DEF Collect, TypeOK, storeVars, syncVars, hookVars
    <3>1. CASE Duplicate(id, body)
      BY <3>1 DEF Duplicate
    <3>2. CASE Insert(id, body)
      <4>1. PICK last \in {0} \cup {r.seq : r \in outbox} :
              /\ \A r \in outbox : r.seq <= last
              /\ outbox' = outbox \cup {[seq |-> last + 1, id |-> id, body |-> body]}
        BY <3>2 DEF Insert
      <4>2. last \in Nat
        BY DEF Rows
      <4>3. outbox' \subseteq Rows
        BY <4>1, <4>2 DEF Rows
      <4>4. \A r \in outbox : r.id # id /\ r.seq # last + 1
        BY <3>2, <4>1, <4>2 DEF Insert, Known, RowsOf, Rows
      <4>5. Keys'
        BY <4>1, <4>4 DEF Keys
      <4>6. accepted' \in [rows : SUBSET [id : Ids, body : Bodies], stored : Nat]
        BY <3>2 DEF Insert
      <4> QED BY <4>3, <4>5, <4>6 DEF Keys
    <3>3. CASE Reject(id, body)
      BY <3>3 DEF Reject
    <3> QED BY <3>1, <3>2, <3>3
  <2>2. ASSUME NEW s \in Syncers, Step(s) PROVE TypeOK'
    <3> USE DEF TypeOK, storeVars, syncVars, hookVars
    <3>1. CASE Start(s)
      BY <3>1 DEF Start, Goto, Points
    <3>2. CASE Refresh(s)
      <4> USE <3>2 DEF Refresh
      <4>1. retryAfter' \in Nat /\ revoked' \in BOOLEAN
        <5>1. \A w \in Waits : clock + w \in Nat
          BY OutboxAssumption DEF OutboxAssumption
        <5> QED BY <5>1
      <4>2. CASE Goto(s, "ahead") /\ UNCHANGED <<lock, todo, row, reply>>
        BY <4>1, <4>2 DEF Goto, Points
      <4>3. CASE Leave(s)
        BY <4>1, <4>3, LeaveTypes
      <4> QED BY <4>2, <4>3
    <3>3. CASE TakeAhead(s)
      <4>1. Lowest(Ahead(outbox, cursor), Limit) \subseteq Rows
        BY LowestSubset DEF Ahead
      <4> QED BY <3>3, <4>1 DEF TakeAhead, Goto, Points
    <3>4. CASE TakeBehind(s)
      <4>1. Wrapped(outbox, cursor, Limit, todo[s]) \subseteq Rows
        BY WrappedSubset
      <4> QED BY <3>4, <4>1 DEF TakeBehind, Goto, Points
    <3>5. CASE Advance(s)
      BY <3>5 DEF Advance, Goto, Points, Rows
    <3>6. CASE Exhaust(s)
      BY <3>6 DEF Exhaust, Goto, Points
    <3>7. CASE Accept(s)
      BY <3>7 DEF Accept, ServerTakes, Goto, Points, Rows
    <3>8. CASE Fail(s)
      <4>1. held' \in [Ids -> Bodies \cup {NoBody}]
        BY <3>8 DEF Fail, ServerTakes, Rows
      <4> QED BY <3>8, <4>1 DEF Fail, Goto, Points
    <3>9. CASE Deliver(s)
      <4>1. PICK r \in row[s] :
              LET stored == {q \in outbox : q.seq = r.seq}
                  ids    == {q.id : q \in stored}
              IN  /\ tombstone' = [id \in Ids |-> IF id \in ids THEN r.body ELSE tombstone[id]]
                  /\ tombAt' = [id \in Ids |-> IF id \in ids THEN clock ELSE tombAt[id]]
                  /\ outbox' = outbox \ stored
        BY <3>9 DEF Deliver
      <4>2. r.body \in Bodies
        BY DEF Rows
      <4>3. /\ outbox' \subseteq outbox
            /\ tombstone' \in [Ids -> Bodies \cup {NoBody}]
            /\ tombAt' \in [Ids -> Nat]
        BY <4>1, <4>2
      <4> QED BY <3>9, <4>3 DEF Deliver, Goto, Points
    <3>10. CASE RecordFailure(s)
      BY <3>10 DEF RecordFailure, Onward, Goto, Points
    <3>11. CASE SaveWait(s)
      BY <3>11, FailureTypes DEF SaveWait, Onward, Goto, Points
    <3>12. CASE MarkRevoked(s)
      BY <3>12 DEF MarkRevoked, Onward, Goto, Points
    <3>13. CASE Compact(s)
      <4>1. /\ tombstone' \in [Ids -> Bodies \cup {NoBody}]
            /\ tombAt' \in [Ids -> Nat]
        BY <3>13 DEF Compact
      <4> QED BY <3>13, <4>1, LeaveTypes DEF Compact
    <3> QED
      BY <2>2, <3>1, <3>2, <3>3, <3>4, <3>5, <3>6, <3>7, <3>8, <3>9, <3>10, <3>11, <3>12, <3>13 DEF Step
  <2>3. ASSUME NEW s \in Syncers, Crash(s) PROVE TypeOK'
    BY <2>3, LeaveTypes DEF Crash, TypeOK, storeVars, hookVars
  <2>4. CASE Tick
    BY <2>4 DEF Tick, TypeOK, storeVars, syncVars, hookVars
  <2>5. CASE UNCHANGED vars
    BY <2>5 DEF vars, TypeOK, storeVars, syncVars, hookVars
  <2> QED BY <2>1, <2>2, <2>3, <2>4, <2>5 DEF Next
<1> QED BY <1>1, <1>2, PTL DEF Spec

-----------------------------------------------------------------------------
\* A sync process that does not hold the lock, before and after the step of
\* another one, has nothing in its hands.
LEMMA Bystander ==
  ASSUME TypeOK, Custody, NEW s \in Syncers, NEW t \in Syncers, t # s,
         lock \in {s, NoSyncer}, lock' \in {s, NoSyncer},
         pc'[t] = pc[t], todo'[t] = todo[t], row'[t] = row[t]
  PROVE  CustodyOf(t)'
<1>1. lock # t /\ lock' # t
  BY OutboxAssumption DEF OutboxAssumption
<1>2. pc[t] = "idle" /\ todo[t] = {} /\ row[t] = {}
  BY <1>1 DEF Custody, CustodyOf, At
<1> QED BY <1>1, <1>2 DEF CustodyOf, At

LEMMA LeaveKeepsCustody ==
  ASSUME TypeOK, Custody, NEW s \in Syncers, lock = s, Leave(s)
  PROVE  Custody'
<1>1. CustodyOf(s)'
  BY OutboxAssumption DEF TypeOK, Leave, Goto, CustodyOf, At, OutboxAssumption
<1>2. ASSUME NEW t \in Syncers, t # s PROVE CustodyOf(t)'
  <2>1. pc'[t] = pc[t] /\ todo'[t] = todo[t] /\ row'[t] = row[t]
    BY <1>2 DEF TypeOK, Leave, Goto
  <2>2. lock \in {s, NoSyncer} /\ lock' \in {s, NoSyncer}
    BY DEF Leave
  <2> QED BY <1>2, <2>1, <2>2, Bystander
<1> QED BY <1>1, <1>2 DEF Custody

\* The server never gives up or changes a body.
LEMMA HeldStays ==
  ASSUME TypeOK, NEW r \in Rows, ServerTakes(r)
  PROVE  /\ held'[r.id] = r.body
         /\ \A id \in Ids, b \in Bodies : held[id] = b => held'[id] = b
BY OutboxAssumption DEF TypeOK, ServerTakes, Rows, OutboxAssumption

\* Deliver removes the row that was sent and no other, whatever numbers the
\* other rows have.
LEMMA DeliverEffect ==
  ASSUME TypeOK, Custody, NEW s \in Syncers, Deliver(s)
  PROVE  \E r \in outbox :
           /\ row[s] = {r}
           /\ held[r.id] = r.body
           /\ outbox' = outbox \ {r}
           /\ tombstone' = [tombstone EXCEPT ![r.id] = r.body]
<1>1. PICK r \in outbox : row[s] = {r} /\ held[r.id] = r.body
  BY DEF Deliver, Custody, CustodyOf, At
<1>2. {q \in outbox : q.seq = r.seq} = {r}
  BY <1>1 DEF TypeOK
<1>3. /\ tombstone' = [id \in Ids |-> IF id \in {q.id : q \in {r}} THEN r.body ELSE tombstone[id]]
      /\ outbox' = outbox \ {r}
  BY <1>1, <1>2 DEF Deliver
<1>4. tombstone' = [tombstone EXCEPT ![r.id] = r.body]
  BY <1>3 DEF TypeOK
<1> QED BY <1>1, <1>3, <1>4

LEMMA CustodyStep == TypeOK /\ Custody /\ [Next]_vars => Custody'
<1> SUFFICES ASSUME TypeOK, Custody, [Next]_vars PROVE Custody'
  OBVIOUS
<1> USE DEF storeVars, syncVars, hookVars
<1>1. ASSUME NEW id \in Ids, NEW body \in Bodies, Collect(id, body)
      PROVE  Custody'
  <2>1. outbox \subseteq outbox'
    BY <1>1 DEF Collect, Duplicate, Insert, Reject
  <2> QED BY <1>1, <2>1 DEF Collect, Custody, CustodyOf, At
<1>2. ASSUME NEW s \in Syncers, Step(s) PROVE Custody'
  <2>1. CASE Start(s)
    <3>1. CustodyOf(s)'
      BY <2>1, OutboxAssumption DEF Start, MayRun, Goto, At, TypeOK, Custody, CustodyOf, OutboxAssumption
    <3>2. ASSUME NEW t \in Syncers, t # s PROVE CustodyOf(t)'
      BY <2>1, <3>2, Bystander DEF Start, MayRun, Goto, TypeOK
    <3> QED BY <3>1, <3>2 DEF Custody
  <2>2. ASSUME lock = s,
               lock' = s,
               \A t \in Syncers \ {s} : pc'[t] = pc[t] /\ todo'[t] = todo[t] /\ row'[t] = row[t],
               CustodyOf(s)'
        PROVE  Custody'
    BY <2>2, Bystander DEF Custody
  <2>3. ~At(s, "idle") => lock = s
    BY DEF Custody, CustodyOf
  <2>4. CASE Refresh(s)
    <3>1. lock = s
      BY <2>3, <2>4 DEF Refresh, At
    <3>2. CASE Leave(s)
      BY <3>1, <3>2, LeaveKeepsCustody
    <3>3. CASE Goto(s, "ahead") /\ UNCHANGED <<lock, todo, row>>
      <4>1. CustodyOf(s)'
        BY <2>4, <3>1, <3>3 DEF Refresh, Goto, At, TypeOK, Custody, CustodyOf
      <4> QED BY <2>2, <3>1, <3>3, <4>1 DEF Goto, TypeOK
    <3> QED BY <2>4, <3>2, <3>3 DEF Refresh
  <2>5. CASE TakeAhead(s)
    <3>1. Lowest(Ahead(outbox, cursor), Limit) \subseteq outbox
      BY LowestSubset DEF Ahead
    <3>2. CustodyOf(s)' /\ lock = s
      BY <2>3, <2>5, <3>1 DEF TakeAhead, Goto, At, TypeOK, Custody, CustodyOf
    <3> QED BY <2>2, <2>5, <3>2 DEF TakeAhead, Goto, TypeOK
  <2>6. CASE TakeBehind(s)
    <3>1. Wrapped(outbox, cursor, Limit, todo[s]) \subseteq outbox
      BY WrappedSubset
    <3>2. CustodyOf(s)' /\ lock = s
      BY <2>3, <2>6, <3>1 DEF TakeBehind, Goto, At, TypeOK, Custody, CustodyOf
    <3> QED BY <2>2, <2>6, <3>2 DEF TakeBehind, Goto, TypeOK
  <2>7. CASE Advance(s)
    <3>1. CustodyOf(s)' /\ lock = s
      BY <2>3, <2>7 DEF Advance, Goto, At, TypeOK, Custody, CustodyOf
    <3> QED BY <2>2, <2>7, <3>1 DEF Advance, Goto, TypeOK
  <2>8. CASE Exhaust(s)
    <3>1. CustodyOf(s)' /\ lock = s
      BY <2>3, <2>8 DEF Exhaust, Goto, At, TypeOK, Custody, CustodyOf
    <3> QED BY <2>2, <2>8, <3>1 DEF Exhaust, Goto, TypeOK
  <2>9. CASE Accept(s)
    <3>1. PICK r \in outbox : row[s] = {r}
      BY <2>9 DEF Accept, At, Custody, CustodyOf
    <3>2. held'[r.id] = r.body
      BY <2>9, <3>1, HeldStays DEF Accept, TypeOK
    <3>3. CustodyOf(s)' /\ lock = s
      BY <2>3, <2>9, <3>1, <3>2 DEF Accept, Goto, At, TypeOK, Custody, CustodyOf
    <3> QED BY <2>2, <2>9, <3>3 DEF Accept, Goto, TypeOK
  <2>10. CASE Fail(s)
    <3>1. CustodyOf(s)' /\ lock = s
      BY <2>3, <2>10 DEF Fail, Goto, At, TypeOK, Custody, CustodyOf
    <3> QED BY <2>2, <2>10, <3>1 DEF Fail, Goto, TypeOK
  <2>11. CASE Deliver(s)
    <3>1. PICK r \in outbox : row[s] = {r} /\ outbox' = outbox \ {r}
      BY <2>11, DeliverEffect
    <3>2. CustodyOf(s)' /\ lock = s
      BY <2>3, <2>11, <3>1 DEF Deliver, Goto, At, TypeOK, Custody, CustodyOf
    <3> QED BY <2>2, <2>11, <3>2 DEF Deliver, Goto, TypeOK
  <2>12. CASE RecordFailure(s)
    <3>1. CustodyOf(s)' /\ lock = s
      BY <2>3, <2>12 DEF RecordFailure, Onward, Goto, At, TypeOK, Custody, CustodyOf
    <3> QED BY <2>2, <2>12, <3>1 DEF RecordFailure, Goto, TypeOK
  <2>13. CASE SaveWait(s)
    <3>1. CustodyOf(s)' /\ lock = s
      BY <2>3, <2>13 DEF SaveWait, Onward, Goto, At, TypeOK, Custody, CustodyOf
    <3> QED BY <2>2, <2>13, <3>1 DEF SaveWait, Goto, TypeOK
  <2>14. CASE MarkRevoked(s)
    <3>1. CustodyOf(s)' /\ lock = s
      BY <2>3, <2>14 DEF MarkRevoked, Onward, Goto, At, TypeOK, Custody, CustodyOf
    <3> QED BY <2>2, <2>14, <3>1 DEF MarkRevoked, Goto, TypeOK
  <2>15. CASE Compact(s)
    BY <2>3, <2>15, LeaveKeepsCustody DEF Compact, At
  <2> QED
    BY <1>2, <2>1, <2>4, <2>5, <2>6, <2>7, <2>8, <2>9, <2>10, <2>11, <2>12, <2>13, <2>14, <2>15 DEF Step
<1>3. ASSUME NEW s \in Syncers, Crash(s) PROVE Custody'
  <2>1. lock = s
    BY <1>3 DEF Crash, Custody, CustodyOf, At
  <2> QED BY <1>3, <2>1, LeaveKeepsCustody DEF Crash
<1>4. CASE Tick
  BY <1>4 DEF Tick, Custody, CustodyOf, At
<1>5. CASE UNCHANGED vars
  BY <1>5 DEF vars, Custody, CustodyOf, At
<1> QED BY <1>1, <1>2, <1>3, <1>4, <1>5 DEF Next

\* Only the holder of the lock has rows in its hands; they are pending, and a
\* row is deleted only when the server holds its bytes.
THEOREM CustodyHolds == Spec => []Custody
<1>1. Init => Custody
  BY OutboxAssumption DEF Init, Custody, CustodyOf, At, OutboxAssumption
<1> QED BY <1>1, CustodyStep, TypeCorrect, PTL DEF Spec

-----------------------------------------------------------------------------
\* An id is remembered with the bytes the server holds for it.
RememberedIsHeld == \A id \in Ids : tombstone[id] \in {NoBody, held[id]}

\* The four actions that touch rows, bytes held or answers given; every other
\* step leaves all four variables alone but for forgetting ids.
LEMMA QuietStep ==
  ASSUME [Next]_vars,
         ~ \E id \in Ids, body \in Bodies : Collect(id, body),
         ~ \E s \in Syncers : Accept(s) \/ Fail(s) \/ Deliver(s)
  PROVE  /\ UNCHANGED <<outbox, held, accepted, delivered>>
         /\ \/ UNCHANGED tombstone
            \/ tombstone' = [id \in Ids |-> IF id \in Evicted THEN NoBody ELSE tombstone[id]]
<1> USE DEF storeVars, syncVars, hookVars
<1>1. ASSUME NEW s \in Syncers, Step(s)
      PROVE  /\ UNCHANGED <<outbox, held, accepted, delivered>>
             /\ \/ UNCHANGED tombstone
                \/ tombstone' = [id \in Ids |-> IF id \in Evicted THEN NoBody ELSE tombstone[id]]
  <2>1. CASE Compact(s)
    BY <2>1 DEF Compact
  <2>2. CASE ~Compact(s)
    BY <1>1, <2>2 DEF Step, Start, Refresh, TakeAhead, TakeBehind, Advance, Exhaust,
                      RecordFailure, SaveWait, MarkRevoked
  <2> QED BY <2>1, <2>2
<1>2. ASSUME NEW s \in Syncers, Crash(s)
      PROVE  UNCHANGED <<outbox, held, accepted, delivered, tombstone>>
  BY <1>2 DEF Crash
<1>3. CASE Tick
  BY <1>3 DEF Tick
<1>4. CASE UNCHANGED vars
  BY <1>4 DEF vars
<1> QED BY <1>1, <1>2, <1>3, <1>4 DEF Next

LEMMA CollectTypes ==
  ASSUME TypeOK, NEW id \in Ids, NEW body \in Bodies, Collect(id, body)
  PROVE  UNCHANGED <<held, tombstone, delivered>>
BY DEF Collect

\* A post leaves every byte the server holds in place.
LEMMA PostEffect ==
  ASSUME TypeOK, Custody, NEW s \in Syncers, Accept(s) \/ Fail(s)
  PROVE  /\ UNCHANGED <<outbox, tombstone, accepted, delivered>>
         /\ \A id \in Ids, b \in Bodies : held[id] = b => held'[id] = b
         /\ \/ UNCHANGED held
            \/ \E r \in outbox : ServerTakes(r)
<1> USE DEF storeVars, hookVars
<1>1. \E r \in outbox : row[s] = {r}
  BY DEF Accept, Fail, Custody, CustodyOf, At
<1>2. UNCHANGED held \/ \E r \in outbox : ServerTakes(r)
  BY <1>1 DEF Accept, Fail
<1>3. \A id \in Ids, b \in Bodies : held[id] = b => held'[id] = b
  BY <1>2, HeldStays DEF TypeOK
<1> QED BY <1>2, <1>3 DEF Accept, Fail

LEMMA NoRowLostStep ==
  TypeOK /\ Custody /\ RememberedIsHeld /\ NoRowLost /\ [Next]_vars
    => RememberedIsHeld' /\ NoRowLost'
<1> SUFFICES ASSUME TypeOK, Custody, RememberedIsHeld, NoRowLost, [Next]_vars
             PROVE  RememberedIsHeld' /\ NoRowLost'
  OBVIOUS
<1> DEFINE Answered == [id : Ids, body : Bodies]
<1>1. ASSUME NEW id \in Ids, NEW body \in Bodies, Collect(id, body)
      PROVE  RememberedIsHeld' /\ NoRowLost'
  <2>1. UNCHANGED <<held, tombstone>>
    BY <1>1, CollectTypes
  <2>2. \A r \in outbox : r \in outbox'
    BY <1>1 DEF Collect, Duplicate, Insert, Reject
  <2>3. CASE Duplicate(id, body)
    <3>1. accepted'.rows = accepted.rows \cup {[id |-> id, body |-> body]}
      BY <2>3 DEF Duplicate, TypeOK
    <3>2. (\E r \in outbox : r.id = id /\ r.body = body) \/ held[id] = body
      BY <2>3, OutboxAssumption DEF Duplicate, Digests, RowsOf, RememberedIsHeld, OutboxAssumption
    <3> QED BY <2>1, <2>2, <3>1, <3>2 DEF RememberedIsHeld, NoRowLost
  <2>4. CASE Insert(id, body)
    <3>1. accepted'.rows = accepted.rows \cup {[id |-> id, body |-> body]}
      BY <2>4 DEF Insert
    <3>2. \E r \in outbox' : r.id = id /\ r.body = body
      <4>1. PICK last : outbox' = outbox \cup {[seq |-> last + 1, id |-> id, body |-> body]}
        BY <2>4 DEF Insert
      <4>2. [seq |-> last + 1, id |-> id, body |-> body] \in outbox'
        BY <4>1
      <4> QED BY <4>2
    <3> QED BY <2>1, <2>2, <3>1, <3>2 DEF RememberedIsHeld, NoRowLost
  <2>5. CASE Reject(id, body)
    BY <2>1, <2>5 DEF Reject, RememberedIsHeld, NoRowLost
  <2> QED BY <1>1, <2>3, <2>4, <2>5 DEF Collect
<1>2. ASSUME NEW s \in Syncers, Accept(s) \/ Fail(s)
      PROVE  RememberedIsHeld' /\ NoRowLost'
  <2>1. /\ UNCHANGED <<outbox, tombstone, accepted>>
        /\ \A id \in Ids, b \in Bodies : held[id] = b => held'[id] = b
    BY <1>2, PostEffect
  <2>2. ASSUME NEW a \in accepted'.rows
        PROVE  (\E r \in outbox' : r.id = a.id /\ r.body = a.body) \/ held'[a.id] = a.body
    <3>1. a \in accepted.rows /\ a.id \in Ids /\ a.body \in Bodies
      BY <2>1 DEF TypeOK
    <3> QED BY <2>1, <3>1 DEF NoRowLost
  <2>3. ASSUME NEW id \in Ids PROVE tombstone'[id] \in {NoBody, held'[id]}
    BY <2>1 DEF RememberedIsHeld, TypeOK
  <2> QED BY <2>2, <2>3 DEF RememberedIsHeld, NoRowLost
<1>3. ASSUME NEW s \in Syncers, Deliver(s)
      PROVE  RememberedIsHeld' /\ NoRowLost'
  <2>1. UNCHANGED <<held, accepted>>
    BY <1>3 DEF Deliver, hookVars
  <2>2. PICK r \in outbox : /\ held[r.id] = r.body
                            /\ outbox' = outbox \ {r}
                            /\ tombstone' = [tombstone EXCEPT ![r.id] = r.body]
    BY <1>3, DeliverEffect
  <2>3. RememberedIsHeld'
    BY <2>1, <2>2 DEF RememberedIsHeld, TypeOK, Rows
  <2>4. NoRowLost'
    BY <2>1, <2>2 DEF NoRowLost
  <2> QED BY <2>3, <2>4
<1>4. CASE /\ ~ \E id \in Ids, body \in Bodies : Collect(id, body)
           /\ ~ \E s \in Syncers : Accept(s) \/ Fail(s) \/ Deliver(s)
  BY <1>4, QuietStep DEF RememberedIsHeld, NoRowLost
<1> QED BY <1>1, <1>2, <1>3, <1>4

\* Every observation whose collect answered Ok is a pending row or held by the
\* server, with the same bytes, in every reachable state.
THEOREM NoRowIsLost == Spec => []NoRowLost
<1>1. Init => RememberedIsHeld /\ NoRowLost
  BY DEF Init, RememberedIsHeld, NoRowLost
<1> QED BY <1>1, NoRowLostStep, CustodyHolds, TypeCorrect, PTL DEF Spec

-----------------------------------------------------------------------------
\* Rows stored = rows delivered + rows pending; with the finiteness the count
\* needs.
Counted == IsFiniteSet(outbox) /\ Conservation

LEMMA CountedStep == TypeOK /\ Custody /\ Counted /\ [Next]_vars => Counted'
<1> SUFFICES ASSUME TypeOK, Custody, Counted, [Next]_vars PROVE Counted'
  OBVIOUS
<1> USE DEF Counted, Conservation
<1>1. Cardinality(outbox) \in Nat
  BY FS_CardinalityType
<1>2. ASSUME NEW id \in Ids, NEW body \in Bodies, Collect(id, body)
      PROVE  Counted'
  <2>1. UNCHANGED delivered
    BY <1>2, CollectTypes
  <2>2. CASE Insert(id, body)
    <3>1. PICK last \in {0} \cup {r.seq : r \in outbox} :
            outbox' = outbox \cup {[seq |-> last + 1, id |-> id, body |-> body]}
      BY <2>2 DEF Insert
    <3>2. [seq |-> last + 1, id |-> id, body |-> body] \notin outbox
      BY <2>2 DEF Insert, Known, RowsOf
    <3>3. IsFiniteSet(outbox') /\ Cardinality(outbox') = Cardinality(outbox) + 1
      BY <3>1, <3>2, FS_AddElement
    <3>4. accepted'.stored = accepted.stored + 1
      BY <2>2 DEF Insert
    <3> QED BY <1>1, <2>1, <3>3, <3>4 DEF TypeOK
  <2>3. CASE Duplicate(id, body) \/ Reject(id, body)
    BY <2>1, <2>3 DEF Duplicate, Reject, TypeOK
  <2> QED BY <1>2, <2>2, <2>3 DEF Collect
<1>3. ASSUME NEW s \in Syncers, Accept(s) \/ Fail(s) PROVE Counted'
  BY <1>3, PostEffect
<1>4. ASSUME NEW s \in Syncers, Deliver(s) PROVE Counted'
  <2>1. PICK r \in outbox : outbox' = outbox \ {r}
    BY <1>4, DeliverEffect
  <2>2. IsFiniteSet(outbox') /\ Cardinality(outbox') = Cardinality(outbox) - 1
    BY <2>1, FS_RemoveElement
  <2>3. delivered' = delivered + 1 /\ UNCHANGED accepted
    BY <1>4 DEF Deliver, hookVars
  <2> QED BY <1>1, <2>2, <2>3 DEF TypeOK
<1>5. CASE /\ ~ \E id \in Ids, body \in Bodies : Collect(id, body)
           /\ ~ \E s \in Syncers : Accept(s) \/ Fail(s) \/ Deliver(s)
  BY <1>5, QuietStep
<1> QED BY <1>2, <1>3, <1>4, <1>5

\* The counters that health adds up account for every row exactly once.
THEOREM CountsAgree == Spec => []Conservation
<1>1. Init => Counted
  BY FS_EmptySet DEF Init, Counted, Conservation
<1>2. Counted => Conservation
  BY DEF Counted
<1> QED BY <1>1, <1>2, CountedStep, CustodyHolds, TypeCorrect, PTL DEF Spec

-----------------------------------------------------------------------------
LEMMA ClearedStep == TypeOK /\ Custody /\ Cleared /\ [Next]_vars => Cleared'
<1> SUFFICES ASSUME TypeOK, Custody, Cleared, [Next]_vars PROVE Cleared'
  OBVIOUS
<1> USE DEF storeVars, syncVars, hookVars
<1> DEFINE Idle(t) == pc'[t] = "idle"
<1>0. ASSUME NEW t \in Syncers, pc'[t] = "idle" PROVE ClearedOf(t)'
  BY <1>0 DEF ClearedOf
<1>1. ASSUME NEW s \in Syncers, Step(s) PROVE Cleared'
  <2>1. ASSUME NEW t \in Syncers, t # s PROVE pc[t] = "idle" /\ pc'[t] = "idle"
    <3>1. lock \in {s, NoSyncer}
      BY <1>1 DEF Step, Start, MayRun, Refresh, TakeAhead, TakeBehind, Advance, Exhaust, Accept,
                  Fail, Deliver, RecordFailure, SaveWait, MarkRevoked, Compact, At, Custody, CustodyOf
    <3>2. pc[t] = "idle"
      BY <2>1, <3>1, OutboxAssumption DEF Custody, CustodyOf, At, OutboxAssumption
    <3>3. pc'[t] = pc[t]
      BY <1>1, <2>1 DEF Step, Start, Refresh, TakeAhead, TakeBehind, Advance, Exhaust, Accept,
                  Fail, Deliver, RecordFailure, SaveWait, MarkRevoked, Compact, Leave, Goto, TypeOK
    <3> QED BY <3>2, <3>3
  <2>2. ClearedOf(s)'
    <3> USE DEF ClearedOf, Cleared, At, Goto, TypeOK
    <3>1. CASE Start(s)
      BY <3>1 DEF Start, MayRun
    <3>2. CASE Refresh(s)
      BY <3>2 DEF Refresh, Leave
    <3>3. CASE TakeAhead(s) \/ TakeBehind(s)
      BY <3>3 DEF TakeAhead, TakeBehind
    <3>4. CASE Advance(s) \/ Exhaust(s)
      BY <3>4 DEF Advance, Exhaust
    <3>5. CASE Accept(s) \/ Fail(s)
      BY <3>5 DEF Accept, Fail
    <3>6. CASE Deliver(s)
      BY <3>6 DEF Deliver
    <3>7. CASE RecordFailure(s)
      BY <3>7, FailureTypes DEF RecordFailure, Onward
    <3>8. CASE SaveWait(s) \/ MarkRevoked(s)
      BY <3>8 DEF SaveWait, MarkRevoked, Onward
    <3>9. CASE Compact(s)
      BY <3>9 DEF Compact, Leave
    <3> QED BY <1>1, <3>1, <3>2, <3>3, <3>4, <3>5, <3>6, <3>7, <3>8, <3>9 DEF Step
  <2> QED BY <1>0, <2>1, <2>2 DEF Cleared
<1>2. ASSUME NEW s \in Syncers, Crash(s) PROVE Cleared'
  BY <1>2 DEF Crash, Leave, Goto, Cleared, ClearedOf, TypeOK
<1>3. CASE Tick
  BY <1>3 DEF Tick, Cleared, ClearedOf, TypeOK
<1>4. ASSUME NEW id \in Ids, NEW body \in Bodies, Collect(id, body) PROVE Cleared'
  BY <1>4 DEF Collect, Cleared, ClearedOf
<1>5. CASE UNCHANGED vars
  BY <1>5 DEF vars, Cleared, ClearedOf
<1> QED BY <1>1, <1>2, <1>3, <1>4, <1>5 DEF Next

\* No row is sent while a saved wait of the server runs or, by a paired sync,
\* while the connection is marked revoked.
THEOREM BackoffIsRespected == Spec => []BackoffRespected
<1>1. Init => Cleared
  BY DEF Init, Cleared, ClearedOf
<1>2. Cleared => BackoffRespected
  BY DEF Cleared, ClearedOf, BackoffRespected, At
<1> QED BY <1>1, <1>2, ClearedStep, CustodyHolds, TypeCorrect, PTL DEF Spec

-----------------------------------------------------------------------------
(* What the outbox remembers of what it delivered.                          *)

\* The server holds bytes for an id only because the id was sent: its row is
\* still pending with those bytes, or the id is remembered with them.
HeldIsKnown ==
  \A id \in Ids : held[id] # NoBody =>
    tombstone[id] = held[id] \/ \E r \in outbox : r.id = id /\ r.body = held[id]

\* No more ids are remembered than were delivered, none of them has a pending
\* row, and as long as none had to be forgotten all that was sent is known.
Memory ==
  /\ IsFiniteSet(Remembered) /\ Cardinality(Remembered) <= delivered
  /\ \A r \in outbox : tombstone[r.id] = NoBody
  /\ delivered <= Tombstones => HeldIsKnown

\* Compaction forgets nothing while there is room for every remembered id.
LEMMA NothingForgotten ==
  ASSUME TypeOK, IsFiniteSet(Remembered), Cardinality(Remembered) <= Tombstones
  PROVE  Evicted = {}
<1>1. ASSUME NEW id \in Remembered
      PROVE  Cardinality({i \in Remembered : Newer(i, id)}) < Tombstones
  <2> DEFINE newer == {i \in Remembered : Newer(i, id)}
  <2>1. id \notin newer
    BY OutboxAssumption DEF Newer, Remembered, TypeOK, OutboxAssumption
  <2>2. newer \in SUBSET (Remembered \ {id})
    BY <2>1
  <2>3. /\ IsFiniteSet(Remembered \ {id})
        /\ Cardinality(Remembered \ {id}) = Cardinality(Remembered) - 1
    BY FS_RemoveElement
  <2>4. IsFiniteSet(newer) /\ Cardinality(newer) <= Cardinality(Remembered \ {id})
    BY <2>2, <2>3, FS_Subset
  <2>5. Cardinality(newer) \in Nat /\ Cardinality(Remembered) \in Nat
    BY <2>4, FS_CardinalityType
  <2> HIDE DEF newer
  <2>6. Cardinality(newer) < Tombstones
    BY <2>3, <2>4, <2>5, OutboxAssumption DEF OutboxAssumption
  <2> QED BY <2>6 DEF newer
<1>2. ASSUME NEW id \in Evicted PROVE FALSE
  <2>1. id \in Remembered /\ Cardinality({i \in Remembered : Newer(i, id)}) >= Tombstones
    BY DEF Evicted
  <2>2. Cardinality({i \in Remembered : Newer(i, id)}) \in Nat
    BY FS_Subset, FS_CardinalityType
  <2> QED BY <1>1, <2>1, <2>2, OutboxAssumption DEF OutboxAssumption
<1> QED BY <1>2

\* Forgetting ids never makes more of them remembered.
LEMMA FewerRemembered ==
  ASSUME IsFiniteSet(Remembered), Remembered' \subseteq Remembered
  PROVE  IsFiniteSet(Remembered') /\ Cardinality(Remembered') <= Cardinality(Remembered)
BY FS_Subset

LEMMA MemoryStep ==
  TypeOK /\ TypeOK' /\ Custody /\ RememberedIsHeld /\ Memory /\ [Next]_vars => Memory'
<1> SUFFICES ASSUME TypeOK, TypeOK', Custody, RememberedIsHeld, Memory, [Next]_vars
             PROVE  Memory'
  OBVIOUS
<1>1. ASSUME NEW id \in Ids, NEW body \in Bodies, Collect(id, body) PROVE Memory'
  <2>1. UNCHANGED <<held, tombstone, delivered>>
    BY <1>1, CollectTypes
  <2>2. Remembered' = Remembered
    BY <2>1 DEF Remembered
  <2>3. \A r \in outbox : r \in outbox'
    BY <1>1 DEF Collect, Duplicate, Insert, Reject
  <2>4. (\A r \in outbox : tombstone[r.id] = NoBody)'
    <3>1. CASE Insert(id, body)
      BY <2>1, <3>1 DEF Insert, Known, Memory
    <3>2. CASE Duplicate(id, body) \/ Reject(id, body)
      BY <2>1, <3>2 DEF Duplicate, Reject, Memory
    <3> QED BY <1>1, <3>1, <3>2 DEF Collect
  <2>5. HeldIsKnown => HeldIsKnown'
    BY <2>1, <2>3 DEF HeldIsKnown
  <2> QED BY <2>1, <2>2, <2>4, <2>5 DEF Memory
<1>2. ASSUME NEW s \in Syncers, Accept(s) \/ Fail(s) PROVE Memory'
  <2>1. UNCHANGED <<outbox, tombstone, delivered>>
    BY <1>2, PostEffect
  <2>2. Remembered' = Remembered
    BY <2>1 DEF Remembered
  <2>3. UNCHANGED held \/ \E r \in outbox : ServerTakes(r)
    BY <1>2, PostEffect
  <2>4. HeldIsKnown => HeldIsKnown'
    <3>1. CASE UNCHANGED held
      BY <2>1, <3>1 DEF HeldIsKnown
    <3>2. ASSUME NEW r \in outbox, ServerTakes(r), HeldIsKnown PROVE HeldIsKnown'
      <4>1. held' = [held EXCEPT ![r.id] = r.body]
        BY <3>2 DEF ServerTakes
      <4>2. ASSUME NEW i \in Ids, held'[i] # NoBody
            PROVE  tombstone[i] = held'[i] \/ \E q \in outbox : q.id = i /\ q.body = held'[i]
        BY <3>2, <4>1, <4>2 DEF HeldIsKnown, TypeOK
      <4> QED BY <2>1, <4>2 DEF HeldIsKnown
    <3> QED BY <2>3, <3>1, <3>2
  <2> QED BY <2>1, <2>2, <2>4 DEF Memory
<1>3. ASSUME NEW s \in Syncers, Deliver(s) PROVE Memory'
  <2>1. UNCHANGED held /\ delivered' = delivered + 1
    BY <1>3 DEF Deliver
  <2>2. PICK r \in outbox : /\ held[r.id] = r.body
                            /\ outbox' = outbox \ {r}
                            /\ tombstone' = [tombstone EXCEPT ![r.id] = r.body]
    BY <1>3, DeliverEffect
  <2>3. r.id \in Ids /\ r.body \in Bodies
    BY DEF TypeOK, Rows
  <2>4. Remembered' = Remembered \cup {r.id}
    BY <2>2, <2>3, OutboxAssumption DEF Remembered, TypeOK, OutboxAssumption
  <2>5. IsFiniteSet(Remembered') /\ Cardinality(Remembered') <= delivered'
    <3>1. /\ IsFiniteSet(Remembered \cup {r.id})
          /\ \/ Cardinality(Remembered \cup {r.id}) = Cardinality(Remembered)
             \/ Cardinality(Remembered \cup {r.id}) = Cardinality(Remembered) + 1
      BY FS_AddElement DEF Memory
    <3>2. Cardinality(Remembered) \in Nat /\ delivered \in Nat
      BY FS_CardinalityType DEF Memory, TypeOK
    <3> QED BY <2>1, <2>4, <3>1, <3>2 DEF Memory
  <2>6. (\A q \in outbox : tombstone[q.id] = NoBody)'
    <3>1. ASSUME NEW q \in outbox' PROVE tombstone'[q.id] = NoBody
      <4>1. q \in outbox /\ q.id # r.id /\ q.id \in Ids
        BY <2>2 DEF TypeOK, Rows
      <4> QED BY <2>2, <4>1 DEF Memory, TypeOK
    <3> QED BY <3>1
  <2>7. HeldIsKnown => HeldIsKnown'
    <3>1. ASSUME HeldIsKnown, NEW i \in Ids, held'[i] # NoBody
          PROVE  tombstone'[i] = held'[i] \/ \E q \in outbox' : q.id = i /\ q.body = held'[i]
      <4>1. CASE i = r.id
        BY <2>1, <2>2, <4>1 DEF TypeOK
      <4>2. CASE i # r.id
        BY <2>1, <2>2, <3>1, <4>2 DEF HeldIsKnown, TypeOK
      <4> QED BY <4>1, <4>2
    <3> QED BY <3>1 DEF HeldIsKnown
  <2>8. delivered' <= Tombstones => delivered <= Tombstones
    BY <2>1, OutboxAssumption DEF TypeOK, OutboxAssumption
  <2> QED BY <2>5, <2>6, <2>7, <2>8 DEF Memory
<1>4. CASE /\ ~ \E id \in Ids, body \in Bodies : Collect(id, body)
           /\ ~ \E s \in Syncers : Accept(s) \/ Fail(s) \/ Deliver(s)
  <2>1. UNCHANGED <<outbox, held, delivered>>
    BY <1>4, QuietStep
  <2>2. CASE UNCHANGED tombstone
    BY <2>1, <2>2 DEF Memory, HeldIsKnown, Remembered
  <2>3. CASE tombstone' = [id \in Ids |-> IF id \in Evicted THEN NoBody ELSE tombstone[id]]
    <3>1. Remembered' \subseteq Remembered
      BY <2>3 DEF Remembered
    <3>2. IsFiniteSet(Remembered') /\ Cardinality(Remembered') <= Cardinality(Remembered)
      BY <3>1, FewerRemembered DEF Memory
    <3>3. Cardinality(Remembered') \in Nat /\ Cardinality(Remembered) \in Nat /\ delivered \in Nat
      BY <3>2, FS_CardinalityType DEF Memory, TypeOK
    <3>4. Cardinality(Remembered') <= delivered'
      BY <2>1, <3>2, <3>3 DEF Memory
    <3>5. (\A q \in outbox : tombstone[q.id] = NoBody)'
      <4>1. ASSUME NEW q \in outbox PROVE tombstone'[q.id] = NoBody
        BY <2>3 DEF Memory, TypeOK, Rows
      <4> QED BY <2>1, <4>1
    <3>6. ASSUME delivered <= Tombstones PROVE UNCHANGED tombstone
      <4>1. Cardinality(Remembered) <= Tombstones
        BY <3>3, <3>6, OutboxAssumption DEF Memory, OutboxAssumption
      <4>2. Evicted = {}
        BY <4>1, NothingForgotten DEF Memory
      <4> QED BY <2>3, <4>2 DEF TypeOK
    <3>7. delivered' <= Tombstones => HeldIsKnown'
      BY <2>1, <3>6 DEF Memory, HeldIsKnown
    <3> QED BY <3>2, <3>4, <3>5, <3>7 DEF Memory
  <2> QED BY <1>4, <2>2, <2>3, QuietStep
<1> QED BY <1>1, <1>2, <1>3, <1>4

\* While no more ids have been delivered than are remembered, no pending row
\* disagrees with what the server already holds for its id.
THEOREM RememberedNeverConflict == Spec => []NoConflictWhileRemembered
<1>1. Init => RememberedIsHeld /\ NoRowLost
  BY DEF Init, RememberedIsHeld, NoRowLost
<1>2. Init => Memory
  <2> SUFFICES ASSUME Init PROVE Memory
    OBVIOUS
  <2>1. Remembered = {}
    BY DEF Init, Remembered
  <2>2. IsFiniteSet(Remembered) /\ Cardinality(Remembered) = 0
    BY <2>1, FS_EmptySet
  <2> QED BY <2>2 DEF Init, Memory, HeldIsKnown
<1>3. TypeOK /\ Memory => NoConflictWhileRemembered
  <2> SUFFICES ASSUME TypeOK, Memory, delivered <= Tombstones, NEW r \in outbox
               PROVE  held[r.id] \in {NoBody, r.body}
    BY DEF NoConflictWhileRemembered
  <2>1. r.id \in Ids /\ tombstone[r.id] = NoBody
    BY DEF TypeOK, Rows, Memory
  <2>2. CASE held[r.id] # NoBody
    <3>1. PICK q \in outbox : q.id = r.id /\ q.body = held[r.id]
      BY <2>1, <2>2 DEF Memory, HeldIsKnown
    <3>2. q = r
      BY <3>1 DEF TypeOK
    <3> QED BY <3>1, <3>2
  <2> QED BY <2>2
<1> QED BY <1>1, <1>2, <1>3, NoRowLostStep, MemoryStep, CustodyHolds, TypeCorrect, PTL DEF Spec

-----------------------------------------------------------------------------
(* The refinement.                                                          *)

LEMMA BodyInPresent ==
  ASSUME NEW rows \in SUBSET Rows, NEW r \in rows,
         \A q \in rows : q.id = r.id => q = r
  PROVE  BodyIn(rows, r.id) = r.body
<1>1. {q \in rows : q.id = r.id} = {r}
  OBVIOUS
<1> QED BY <1>1 DEF BodyIn

LEMMA BodyInAbsent ==
  ASSUME NEW rows, NEW id, \A q \in rows : q.id # id
  PROVE  BodyIn(rows, id) = NoBody
BY DEF BodyIn

\* Rows of other ids do not matter.
LEMMA BodyInOther ==
  ASSUME NEW rows, NEW new, NEW id, \A q \in (rows \ new) \cup (new \ rows) : q.id # id
  PROVE  BodyIn(new, id) = BodyIn(rows, id)
<1> DEFINE mine(set) == {q \in set : q.id = id}
           body(set) == IF set = {} THEN NoBody ELSE (CHOOSE r \in set : TRUE).body
<1>1. mine(rows) = mine(new)
  OBVIOUS
<1>2. BodyIn(rows, id) = body(mine(rows)) /\ BodyIn(new, id) = body(mine(new))
  BY DEF BodyIn
<1> HIDE DEF mine, body
<1> QED BY <1>1, <1>2

LEMMA RefinedStep ==
  TypeOK /\ TypeOK' /\ Custody /\ RememberedIsHeld /\ [Next]_vars
    => [Promise!Next]_(Promise!vars)
<1> SUFFICES ASSUME TypeOK, TypeOK', Custody, RememberedIsHeld, [Next]_vars
             PROVE  [Promise!Next]_(Promise!vars)
  OBVIOUS
<1> USE DEF Promise!vars, PendingBody
<1>1. ASSUME NEW id \in Ids, NEW body \in Bodies, Collect(id, body)
      PROVE  [Promise!Next]_(Promise!vars)
  <2>1. UNCHANGED <<held, tombstone>>
    BY <1>1, CollectTypes
  <2>2. CASE Insert(id, body)
    <3>1. PICK last \in {0} \cup {r.seq : r \in outbox} :
            outbox' = outbox \cup {[seq |-> last + 1, id |-> id, body |-> body]}
      BY <2>2 DEF Insert
    <3> DEFINE new == [seq |-> last + 1, id |-> id, body |-> body]
    <3>2. tombstone[id] = NoBody /\ \A q \in outbox : q.id # id
      BY <2>2 DEF Insert, Known, RowsOf
    <3>3. PendingBody[id] = NoBody
      BY <3>2, BodyInAbsent
    <3>4. new \in outbox' /\ new.id = id /\ new.body = body
      BY <3>1
    <3>5. BodyIn(outbox', id) = body
      <4> HIDE DEF new
      <4>1. \A q \in outbox' : q.id = new.id => q = new
        BY <3>4 DEF TypeOK
      <4>2. outbox' \in SUBSET Rows
        BY DEF TypeOK
      <4> QED BY <3>4, <4>1, <4>2, BodyInPresent
    <3>6. ASSUME NEW i \in Ids, i # id PROVE BodyIn(outbox', i) = BodyIn(outbox, i)
      BY <3>1, <3>6, BodyInOther
    <3>7. PendingBody' = [PendingBody EXCEPT ![id] = body]
      BY <3>5, <3>6
    <3>8. Promise!Store(id, body)
      BY <2>1, <3>2, <3>3, <3>7 DEF Promise!Store
    <3> QED BY <3>8 DEF Promise!Next
  <2>3. CASE Duplicate(id, body) \/ Reject(id, body)
    BY <2>1, <2>3 DEF Duplicate, Reject
  <2> QED BY <1>1, <2>2, <2>3 DEF Collect
<1>2. ASSUME NEW s \in Syncers, Accept(s) \/ Fail(s)
      PROVE  [Promise!Next]_(Promise!vars)
  <2>1. UNCHANGED <<outbox, tombstone>>
    BY <1>2, PostEffect
  <2>2. CASE UNCHANGED held
    BY <2>1, <2>2
  <2>3. ASSUME NEW r \in outbox, ServerTakes(r)
        PROVE  [Promise!Next]_(Promise!vars)
    <3>1. PendingBody[r.id] = r.body /\ r.id \in Ids /\ r.body \in Bodies
      BY BodyInPresent DEF TypeOK, Rows
    <3>2. CASE held[r.id] = r.body
      BY <2>1, <2>3, <3>2 DEF ServerTakes, TypeOK
    <3>3. CASE held[r.id] = NoBody
      <4>1. Promise!Take(r.id)
        BY <2>1, <2>3, <3>1, <3>3, OutboxAssumption DEF Promise!Take, ServerTakes, OutboxAssumption
      <4> QED BY <3>1, <4>1 DEF Promise!Next
    <3> QED BY <2>3, <3>2, <3>3 DEF ServerTakes
  <2> QED BY <1>2, <2>2, <2>3, PostEffect
<1>3. ASSUME NEW s \in Syncers, Deliver(s)
      PROVE  [Promise!Next]_(Promise!vars)
  <2>1. PICK r \in outbox : /\ held[r.id] = r.body
                            /\ outbox' = outbox \ {r}
                            /\ tombstone' = [tombstone EXCEPT ![r.id] = r.body]
    BY <1>3, DeliverEffect
  <2>2. PendingBody[r.id] = r.body /\ r.id \in Ids /\ r.body \in Bodies
    BY BodyInPresent DEF TypeOK, Rows
  <2>3. BodyIn(outbox', r.id) = NoBody
    BY <2>1, BodyInAbsent DEF TypeOK
  <2>4. ASSUME NEW i \in Ids, i # r.id PROVE BodyIn(outbox', i) = BodyIn(outbox, i)
    BY <2>1, <2>4, BodyInOther
  <2>5. PendingBody' = [PendingBody EXCEPT ![r.id] = NoBody]
    BY <2>3, <2>4
  <2>6. UNCHANGED held
    BY <1>3 DEF Deliver
  <2>7. Promise!Acknowledge(r.id)
    BY <2>1, <2>2, <2>5, <2>6, OutboxAssumption DEF Promise!Acknowledge, OutboxAssumption
  <2> QED BY <2>2, <2>7 DEF Promise!Next
<1>4. CASE /\ ~ \E id \in Ids, body \in Bodies : Collect(id, body)
           /\ ~ \E s \in Syncers : Accept(s) \/ Fail(s) \/ Deliver(s)
  <2>1. UNCHANGED <<outbox, held>>
    BY <1>4, QuietStep
  <2>2. CASE UNCHANGED tombstone
    BY <2>1, <2>2
  <2>3. CASE tombstone' = [id \in Ids |-> IF id \in Evicted THEN NoBody ELSE tombstone[id]]
    <3>1. Promise!Forget(Evicted)
      BY <2>1, <2>3 DEF Promise!Forget
    <3>2. Evicted \in SUBSET Ids
      BY DEF Evicted, Remembered
    <3> QED BY <3>1, <3>2 DEF Promise!Next
  <2> QED BY <1>4, <2>2, <2>3, QuietStep
<1> QED BY <1>1, <1>2, <1>3, <1>4

\* The outbox implements Delivery: an observation is stored once with frozen
\* bytes and acknowledged only when the server holds exactly those bytes.
THEOREM OutboxImplementsDelivery == Spec => ImplementsDelivery
<1>1. Init => Promise!Init
  BY BodyInAbsent DEF Init, Promise!Init, PendingBody
<1>2. Init => RememberedIsHeld
  BY DEF Init, RememberedIsHeld
<1>3. Init => NoRowLost
  BY DEF Init, NoRowLost
<1> QED
  BY <1>1, <1>2, <1>3, RefinedStep, NoRowLostStep, CustodyHolds, TypeCorrect, PTL
     DEF Spec, ImplementsDelivery, Promise!Spec
=============================================================================
