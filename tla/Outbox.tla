------------------------------- MODULE Outbox -------------------------------
(***************************************************************************)
(* The collector's SQLite spool (store.rs).  Hooks store observations with *)
(* `collect'; one or more sync processes deliver the rows over HTTP, under *)
(* the advisory lock sync.lock, one row at a time; the server is external. *)
(* Every action between two commits of the code is one step here, so that  *)
(* hooks, other syncs and crashes fall between any two of them.            *)
(*                                                                         *)
(* A payload is a member of Bodies, its SHA-256 is the body itself.  The   *)
(* column outbox.failure and last_receipt are written and never read by    *)
(* this component, so they are left out; the write of `failure' is kept as *)
(* a step because a crash can follow it.                                   *)
(***************************************************************************)
EXTENDS Rotation, FiniteSetsExt

CONSTANTS
  Ids,         \* observation ids (naturals: compaction breaks ties by id)
  Bodies,      \* frozen payloads
  NoBody,
  Pages,       \* worst-case database pages a row with this body reserves
  PageLimit,   \* pages left for rows: max_page_count minus the fixed share
  MaxRows,     \* 10,000 in the code
  Tombstones,  \* delivered ids remembered: 4,000 in the code
  Limit,       \* rows per sync run
  Syncers,     \* sync processes (the timer, a person)
  Paired,      \* those that run with the `revoked' marker of a pairing
  NoSyncer,
  Poison,      \* ids whose rows the server never takes
  Waits,       \* seconds a server asks to wait
  CrashPoints, \* program points at which a sync may die
  MaxFirings,  \* bound: calls of collect
  MaxClock     \* bound: seconds of clock

ASSUME OutboxAssumption ==
  /\ Ids \subseteq Nat /\ IsFiniteSet(Ids)
  /\ NoBody \notin Bodies
  /\ Pages \in [Bodies -> Nat]
  /\ {PageLimit, MaxRows, Tombstones, Limit, MaxFirings, MaxClock} \subseteq Nat
  /\ Paired \subseteq Syncers /\ NoSyncer \notin Syncers
  /\ Waits \subseteq Nat \ {0}

VARIABLES
  outbox,     \* table outbox: rows [seq, id, body]
  tombstone,  \* table delivered: digest remembered per id
  tombAt,     \* table delivered: second of delivery per id
  cursor,     \* scope.cursor
  delivered,  \* scope.delivered
  retryAfter, \* scope.retry_after
  revoked,    \* the marker file `revoked' exists
  lock,       \* the syncer that holds sync.lock
  pc, todo, row, reply, \* per syncer: next step, rows left in the batch,
                        \* the row being sent, the failure being recorded
  held,       \* server: the body it keeps for each id
  clock,
  fired,      \* calls of collect so far
  accepted    \* history: the [id, body] whose collect answered Ok
              \*          and how many of those calls stored a row

storeVars  == <<outbox, tombstone, tombAt, cursor, delivered, retryAfter>>
syncVars   == <<lock, pc, todo, row, reply>>
hookVars   == <<fired, accepted>>
vars == <<storeVars, revoked, syncVars, held, clock, hookVars>>

Rows == [seq : Nat, id : Ids, body : Bodies]
Refusal    == [stop |-> FALSE, revoked |-> FALSE, wait |-> 0]
Halt       == [stop |-> TRUE,  revoked |-> FALSE, wait |-> 0]
Revocation == [stop |-> TRUE,  revoked |-> TRUE,  wait |-> 0]
Limited(w) == [stop |-> TRUE,  revoked |-> FALSE, wait |-> w]

\* `post': 401/403; 429 with or without Retry-After; 5xx and network errors;
\* every other status and a receipt that does not validate.
Failures == {Refusal, Halt, Revocation} \cup {Limited(w) : w \in Waits}

Points == {"idle", "refresh", "ahead", "behind", "next", "post", "deliver",
           "failed", "wait", "revoke", "compact"}

Init ==
  /\ outbox = {}
  /\ tombstone = [id \in Ids |-> NoBody]
  /\ tombAt = [id \in Ids |-> 0]
  /\ cursor = 0 /\ delivered = 0 /\ retryAfter = 0
  /\ revoked = FALSE
  /\ lock = NoSyncer
  /\ pc = [s \in Syncers |-> "idle"]
  /\ todo = [s \in Syncers |-> {}]
  /\ row = [s \in Syncers |-> {}]
  /\ reply = [s \in Syncers |-> Refusal]
  /\ held = [id \in Ids |-> NoBody]
  /\ clock = 0
  /\ fired = 0
  /\ accepted = [rows |-> {}, stored |-> 0]

-----------------------------------------------------------------------------
(* collect: one immediate transaction of a hook.                            *)

RowsOf(id)  == {r \in outbox : r.id = id}
\* Mutant of Known: pending rows are not consulted.
KnownDelivered(id) == tombstone[id] # NoBody
Known(id)   == RowsOf(id) # {} \/ tombstone[id] # NoBody
Digests(id) == {r.body : r \in RowsOf(id)} \cup ({tombstone[id]} \ {NoBody})
Reserved    == MapThenSumSet(LAMBDA r : Pages[r.body], outbox)
Fits(body)  == /\ Cardinality(outbox) < MaxRows
               /\ Reserved + Pages[body] <= PageLimit

\* The id is stored or remembered with the same digest: Ok, nothing changes.
Duplicate(id, body) ==
  /\ body \in Digests(id)
  /\ accepted' = [accepted EXCEPT !.rows = @ \cup {[id |-> id, body |-> body]}]
  /\ UNCHANGED outbox

\* seq is an INTEGER PRIMARY KEY without AUTOINCREMENT: one more than the
\* largest in the table, so numbers of deleted rows are used again.
Insert(id, body) ==
  /\ ~Known(id)
  /\ Fits(body)
  /\ \E last \in {0} \cup {r.seq : r \in outbox} :
       /\ \A r \in outbox : r.seq <= last
       /\ outbox' = outbox \cup {[seq |-> last + 1, id |-> id, body |-> body]}
  /\ accepted' = [rows   |-> accepted.rows \cup {[id |-> id, body |-> body]},
                  stored |-> accepted.stored + 1]

\* observation_conflict or spool_full: the transaction rolls back.
Reject(id, body) ==
  /\ IF Known(id) THEN body \notin Digests(id) ELSE ~Fits(body)
  /\ UNCHANGED <<outbox, accepted>>

Collect(id, body) ==
  /\ fired < MaxFirings
  /\ fired' = fired + 1
  /\ Duplicate(id, body) \/ Insert(id, body) \/ Reject(id, body)
  /\ UNCHANGED <<tombstone, tombAt, cursor, delivered, retryAfter, revoked,
                 syncVars, held, clock>>

-----------------------------------------------------------------------------
(* sync_report, under sync.lock.                                            *)

At(s, point) == pc[s] = point
Goto(s, point) == pc' = [pc EXCEPT ![s] = point]

\* The process ends, however it ends: the lock goes with it.
Leave(s) ==
  /\ Goto(s, "idle")
  /\ lock' = NoSyncer
  /\ todo' = [todo EXCEPT ![s] = {}]
  /\ row' = [row EXCEPT ![s] = {}]
  /\ reply' = [reply EXCEPT ![s] = Refusal]

\* Mutant of MayRun: sync.lock is not taken.
MayRunUnlocked(s) == (s \in Paired => ~revoked) /\ retryAfter <= clock

\* try_lock, the marker and the saved wait; otherwise the run ends at once.
MayRun(s) ==
  /\ lock = NoSyncer
  /\ s \in Paired => ~revoked
  /\ retryAfter <= clock

Start(s) ==
  /\ At(s, "idle")
  /\ MayRun(s)
  /\ lock' = s
  /\ Goto(s, "refresh")
  /\ UNCHANGED <<storeVars, revoked, todo, row, reply, held, clock, hookVars>>

\* The scope request that precedes the rows: any answer but a revocation or
\* a 429 (which always saves a wait) lets the run go on.
Refresh(s) ==
  /\ At(s, "refresh")
  /\ \/ /\ Goto(s, "ahead")
        /\ UNCHANGED <<retryAfter, revoked, lock, todo, row, reply>>
     \/ /\ revoked' = (revoked \/ s \in Paired)
        /\ Leave(s)
        /\ UNCHANGED retryAfter
     \/ \E w \in Waits :
          /\ clock + w <= MaxClock
          /\ retryAfter' = clock + w
          /\ Leave(s)
          /\ UNCHANGED revoked
  /\ UNCHANGED <<outbox, tombstone, tombAt, cursor, delivered, held, clock, hookVars>>

\* `batch' reads the rows after the cursor, then those before it: two
\* statements outside a transaction, so a hook may store a row in between.
TakeAhead(s) ==
  /\ At(s, "ahead")
  /\ todo' = [todo EXCEPT ![s] = Lowest(Ahead(outbox, cursor), Limit)]
  /\ Goto(s, "behind")
  /\ UNCHANGED <<storeVars, revoked, lock, row, reply, held, clock, hookVars>>

TakeBehind(s) ==
  /\ At(s, "behind")
  /\ todo' = [todo EXCEPT ![s] = @ \cup Wrapped(outbox, cursor, Limit, @)]
  /\ Goto(s, "next")
  /\ UNCHANGED <<storeVars, revoked, lock, row, reply, held, clock, hookVars>>

\* Mutant of Advance: the cursor is left to be saved after the answer.
AdvanceUnsaved(s) ==
  /\ At(s, "next")
  /\ \E r \in todo[s] :
       /\ IsNext(r, todo[s], cursor)
       /\ todo' = [todo EXCEPT ![s] = @ \ {r}]
       /\ row' = [row EXCEPT ![s] = {r}]
  /\ Goto(s, "post")
  /\ UNCHANGED <<storeVars, revoked, lock, reply, held, clock, hookVars>>

\* The cursor is committed before the row is sent.
Advance(s) ==
  /\ At(s, "next")
  /\ \E r \in todo[s] :
       /\ IsNext(r, todo[s], cursor)
       /\ cursor' = r.seq
       /\ todo' = [todo EXCEPT ![s] = @ \ {r}]
       /\ row' = [row EXCEPT ![s] = {r}]
  /\ Goto(s, "post")
  /\ UNCHANGED <<outbox, tombstone, tombAt, delivered, retryAfter, revoked,
                 lock, reply, held, clock, hookVars>>

Exhaust(s) ==
  /\ At(s, "next")
  /\ todo[s] = {}
  /\ Goto(s, "compact")
  /\ UNCHANGED <<storeVars, revoked, lock, todo, row, reply, held, clock, hookVars>>

\* The server takes a body for an id it does not have, and answers again for
\* the very body it has.
ServerTakes(r) ==
  /\ r.id \notin Poison
  /\ held[r.id] \in {NoBody, r.body}
  /\ held' = [held EXCEPT ![r.id] = r.body]

Accept(s) ==
  /\ At(s, "post")
  /\ \E r \in row[s] : ServerTakes(r)
  /\ Goto(s, "deliver")
  /\ UNCHANGED <<storeVars, revoked, lock, todo, row, reply, clock, hookVars>>

\* Mutant of Fail: an answer that does not validate counts as a receipt.
FailUnvalidated(s) ==
  /\ At(s, "post")
  /\ Goto(s, "deliver")
  /\ UNCHANGED <<storeVars, revoked, lock, todo, row, reply, held, clock, hookVars>>

\* The answer is a failure: the server refused the row, or it took it and the
\* answer was lost or did not validate as a receipt.
Fail(s) ==
  /\ At(s, "post")
  /\ \E f \in Failures :
       /\ clock + f.wait <= MaxClock
       /\ reply' = [reply EXCEPT ![s] = f]
       /\ \/ UNCHANGED held
          \/ f \in {Refusal, Halt} /\ \E r \in row[s] : ServerTakes(r)
  /\ Goto(s, "failed")
  /\ UNCHANGED <<storeVars, revoked, lock, todo, row, clock, hookVars>>

\* Mutant of Deliver: the row is counted and remembered but not deleted.
DeliverKeepsRow(s) ==
  /\ At(s, "deliver")
  /\ \E r \in row[s] :
       /\ tombstone' = [tombstone EXCEPT ![r.id] = r.body]
       /\ tombAt' = [tombAt EXCEPT ![r.id] = clock]
  /\ delivered' = delivered + 1
  /\ row' = [row EXCEPT ![s] = {}]
  /\ Goto(s, "next")
  /\ UNCHANGED <<outbox, cursor, retryAfter, revoked, lock, todo, reply, held, clock, hookVars>>

\* One transaction: the tombstone, the row and the counter.
Deliver(s) ==
  /\ At(s, "deliver")
  /\ \E r \in row[s] :
       LET stored == {q \in outbox : q.seq = r.seq}
           ids    == {q.id : q \in stored}
       IN  /\ tombstone' = [id \in Ids |-> IF id \in ids THEN r.body ELSE tombstone[id]]
           /\ tombAt' = [id \in Ids |-> IF id \in ids THEN clock ELSE tombAt[id]]
           /\ outbox' = outbox \ stored
  /\ delivered' = delivered + 1
  /\ row' = [row EXCEPT ![s] = {}]
  /\ Goto(s, "next")
  /\ UNCHANGED <<cursor, retryAfter, revoked, lock, todo, reply, held, clock, hookVars>>

-----------------------------------------------------------------------------
(* A failure is recorded in up to three separate commits.                   *)

\* Mutant of Onward: a failure that should stop the run does not.
OnwardAlways(s) == "next"
Onward(s) == IF reply[s].stop THEN "compact" ELSE "next"

RecordFailure(s) ==
  /\ At(s, "failed")
  /\ row' = [row EXCEPT ![s] = {}]
  /\ Goto(s, CASE reply[s].wait > 0 -> "wait"
               [] reply[s].revoked /\ s \in Paired -> "revoke"
               [] OTHER -> Onward(s))
  /\ UNCHANGED <<storeVars, revoked, lock, todo, reply, held, clock, hookVars>>

SaveWait(s) ==
  /\ At(s, "wait")
  /\ retryAfter' = clock + reply[s].wait
  /\ Goto(s, Onward(s))
  /\ UNCHANGED <<outbox, tombstone, tombAt, cursor, delivered, revoked, lock,
                 todo, row, reply, held, clock, hookVars>>

MarkRevoked(s) ==
  /\ At(s, "revoke")
  /\ revoked' = TRUE
  /\ Goto(s, Onward(s))
  /\ UNCHANGED <<storeVars, lock, todo, row, reply, held, clock, hookVars>>

\* Keeps the newest Tombstones ids: ORDER BY at DESC, observation_id.
Newer(i, j) == tombAt[i] > tombAt[j] \/ (tombAt[i] = tombAt[j] /\ i < j)
Remembered == {id \in Ids : tombstone[id] # NoBody}
\* Mutant of Evicted: one too many.
EvictedOneMore == {id \in Remembered :
  Cardinality({i \in Remembered : Newer(i, id)}) >= Tombstones - 1}
Evicted == {id \in Remembered :
              Cardinality({i \in Remembered : Newer(i, id)}) >= Tombstones}

Compact(s) ==
  /\ At(s, "compact")
  /\ tombstone' = [id \in Ids |-> IF id \in Evicted THEN NoBody ELSE tombstone[id]]
  /\ tombAt' = [id \in Ids |-> IF id \in Evicted THEN 0 ELSE tombAt[id]]
  /\ Leave(s)
  /\ UNCHANGED <<outbox, cursor, delivered, retryAfter, revoked, held, clock, hookVars>>

\* Killed, out of power, or a local error that ends the run through `?'.
Crash(s) ==
  /\ pc[s] \in CrashPoints \ {"idle"}
  /\ Leave(s)
  /\ UNCHANGED <<storeVars, revoked, held, clock, hookVars>>

Tick ==
  /\ clock < MaxClock
  /\ clock' = clock + 1
  /\ UNCHANGED <<storeVars, revoked, syncVars, held, hookVars>>

-----------------------------------------------------------------------------
Step(s) ==
  \/ Start(s) \/ Refresh(s) \/ TakeAhead(s) \/ TakeBehind(s)
  \/ Advance(s) \/ Exhaust(s) \/ Accept(s) \/ Fail(s) \/ Deliver(s)
  \/ RecordFailure(s) \/ SaveWait(s) \/ MarkRevoked(s) \/ Compact(s)

Next ==
  \/ \E id \in Ids, body \in Bodies : Collect(id, body)
  \/ \E s \in Syncers : Step(s) \/ Crash(s)
  \/ Tick

Spec == Init /\ [][Next]_vars

(***************************************************************************)
(* Fairness: a sync process that holds the lock runs on, the timer starts  *)
(* a sync again and again, the clock moves, and a server that is sent the  *)
(* same acceptable row again and again answers it properly some day.       *)
(***************************************************************************)
Fairness ==
  /\ WF_vars(\E s \in Syncers : Step(s))
  /\ WF_vars(Tick)
  /\ \A id \in Ids \ Poison :
       SF_vars(\E s \in Syncers : Accept(s) /\ \E r \in row[s] : r.id = id)

FairSpec == Spec /\ Fairness

-----------------------------------------------------------------------------
(* Properties.                                                              *)

\* Types, and the two keys of the table: no two rows share a number or an id.
TypeOK ==
  /\ outbox \subseteq Rows
  /\ \A q, r \in outbox : (q.seq = r.seq \/ q.id = r.id) => q = r
  /\ tombstone \in [Ids -> Bodies \cup {NoBody}]
  /\ tombAt \in [Ids -> Nat]
  /\ {cursor, delivered, retryAfter, clock, fired} \subseteq Nat
  /\ revoked \in BOOLEAN
  /\ lock \in Syncers \cup {NoSyncer}
  /\ pc \in [Syncers -> Points]
  /\ todo \in [Syncers -> SUBSET Rows]
  /\ row \in [Syncers -> SUBSET Rows]
  /\ reply \in [Syncers -> Failures]
  /\ held \in [Ids -> Bodies \cup {NoBody}]

  /\ accepted \in [rows : SUBSET [id : Ids, body : Bodies], stored : Nat]

\* Every observation whose collect answered Ok is either still a pending row
\* with the same bytes or held by the server with the same bytes: no crash,
\* lost answer, reuse of a row number or second sync process loses one.
NoRowLost ==
  \A a \in accepted.rows :
    (\E r \in outbox : r.id = a.id /\ r.body = a.body) \/ held[a.id] = a.body

\* The two numbers that `health' adds up as observed (pending + delivered)
\* account for every row ever stored, each exactly once.
Conservation == delivered + Cardinality(outbox) = accepted.stored

\* A row is only ever sent while no saved server wait is running and, by a
\* paired sync, while the connection is not marked revoked.
BackoffRespected ==
  \A s \in Syncers :
    At(s, "post") => retryAfter <= clock /\ (s \in Paired => ~revoked)

\* While no more ids have been delivered than are remembered, a late hook with
\* other bytes for a delivered id is refused: no pending row ever disagrees
\* with what the server already holds for its id.
NoConflictWhileRemembered ==
  delivered <= Tombstones =>
    \A r \in outbox : held[r.id] \in {NoBody, r.body}

\* Who holds which rows: only the holder of sync.lock is running, the rows it
\* has taken are still pending, the row being sent is none of those left, and
\* a row is about to be deleted only when the server holds its bytes.
CustodyOf(s) ==
  /\ At(s, "idle") <=> lock # s
  /\ At(s, "idle") => todo[s] = {}
  /\ todo[s] \cup row[s] \subseteq outbox
  /\ todo[s] \cap row[s] = {}
  /\ IF pc[s] \in {"post", "deliver", "failed"}
       THEN \E r \in outbox : row[s] = {r}
       ELSE row[s] = {}
  /\ At(s, "deliver") => \A r \in row[s] : held[r.id] = r.body
Custody == \A s \in Syncers : CustodyOf(s)

\* The refusals a running sync has seen so far were all recorded: from the
\* checks at its start to the first failure that stops it, no saved wait runs
\* and no marker forbids it.
ClearedOf(s) ==
  /\ pc[s] \in {"refresh", "ahead", "behind", "next", "post", "deliver", "failed"}
       => retryAfter <= clock /\ (s \in Paired => ~revoked)
  /\ pc[s] \in {"wait", "revoke"} => reply[s].stop
Cleared == \A s \in Syncers : ClearedOf(s)

\* The outbox implements the abstract promise about one observation: stored
\* once with frozen bytes, acknowledged only when the server holds them.
BodyIn(rows, id) == LET mine == {r \in rows : r.id = id}
                    IN  IF mine = {} THEN NoBody ELSE (CHOOSE r \in mine : TRUE).body
PendingBody == [id \in Ids |-> BodyIn(outbox, id)]
Promise == INSTANCE Delivery WITH pending <- PendingBody, remembered <- tombstone
ImplementsDelivery == Promise!Spec

\* "Row failures do not starve later rows": an observation the server would
\* take is delivered, however often other rows are refused, stop the run or
\* kill the process while they are sent, unless the connection is revoked.
\* (A wait saved beyond the bound of the clock never ends in this model.)
EventuallyDelivered ==
  \A id \in Ids \ Poison, body \in Bodies :
    (\E r \in outbox : r.id = id /\ r.body = body /\ held[id] \in {NoBody, body})
      ~> \/ ~\E r \in outbox : r.id = id /\ r.body = body
         \/ revoked \/ retryAfter > MaxClock
=============================================================================
