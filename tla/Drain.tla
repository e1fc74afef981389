-------------------------------- MODULE Drain --------------------------------
(***************************************************************************)
(* One run of the sync timer (install.rs, drain): up to Batches calls of   *)
(* sync with at most BatchSize rows each, over the rotation of the outbox. *)
(* A budget computed after the first call is meant to stop the run once    *)
(* every row that was pending at its start has been visited.  sync.lock is *)
(* free between two calls, and hooks store rows at any time.               *)
(*                                                                         *)
(* A run starts in any state earlier runs may have left: some rows, each   *)
(* with a number, and a cursor.  What a visit does to the outbox besides   *)
(* moving the cursor and deleting a delivered row is in Outbox.            *)
(***************************************************************************)
EXTENDS Rotation, FiniteSetsExt

CONSTANTS
  Ids,       \* observations, pending at the start or stored meanwhile
  Seqs,      \* row numbers in use at the start
  BatchSize, \* BATCH: 100 in the code
  Batches,   \* BATCHES: 10 in the code
  Late,      \* whether hooks store rows during the run
  Manual     \* whether a person's sync takes the lock between two calls

ASSUME DrainAssumption ==
  /\ IsFiniteSet(Ids)
  /\ Seqs \subseteq Nat \ {0}
  /\ {BatchSize, Batches} \subseteq Nat \ {0}
  /\ {Late, Manual} \subseteq BOOLEAN

VARIABLES
  rows,    \* pending rows [seq, id]
  cursor,
  pc, round, visited, budget, \* of drain
  todo, attempted, refused,   \* of the call of sync
  start,   \* history: the ids pending when the run started
  late,    \* history: the ids stored since
  visits,  \* history: how often the run sent each row
  manual   \* history: a person's sync ran since

batchVars == <<todo, attempted, refused>>
drainVars == <<round, visited, budget>>
history   == <<start, late, visits, manual>>
vars == <<rows, cursor, pc, drainVars, batchVars, history>>

Init ==
  /\ \E ids \in SUBSET Ids : \E number \in Injection(ids, Seqs) :
       /\ rows = {[seq |-> number[id], id |-> id] : id \in ids}
       /\ start = ids
  /\ cursor \in Seqs \cup {0}
  /\ pc = "call" /\ round = 0 /\ visited = 0 /\ budget = BatchSize
  /\ todo = {} /\ attempted = 0 /\ refused = 0
  /\ late = {} /\ manual = FALSE
  /\ visits = [id \in Ids |-> 0]

Max0(numbers) == Max(numbers \cup {0})

\* Mutant of Number: the rows are counted.
NumberByCount == Cardinality(rows) + 1
\* seq of the next row: numbers of deleted rows are used again.
Number == Max0({r.seq : r \in rows}) + 1

Store(id) ==
  /\ Late
  /\ id \notin start \cup late
  /\ pc # "done"
  /\ rows' = rows \cup {[seq |-> Number, id |-> id]}
  /\ late' = late \cup {id}
  /\ UNCHANGED <<cursor, pc, drainVars, batchVars, start, visits, manual>>

\* Another sync run between two calls, as often as a person likes: it may
\* leave the cursor at any row it visited and delete any rows.
ManualSync ==
  /\ Manual
  /\ pc = "call"
  /\ \E gone \in SUBSET rows, last \in rows :
       rows' = rows \ gone /\ cursor' = last.seq
  /\ manual' = TRUE
  /\ UNCHANGED <<pc, drainVars, batchVars, start, late, visits>>

\* Mutant of LimitNow: every call is allowed a full batch.
LimitFull == BatchSize
LimitNow == Min({BatchSize, budget - visited})

\* The rows are read in two statements; a row stored between them gets a
\* number past all others, and is read as if stored before or after both.
Call ==
  /\ pc = "call"
  /\ todo' = Batch(rows, cursor, LimitNow)
  /\ attempted' = 0 /\ refused' = 0
  /\ pc' = "visit"
  /\ UNCHANGED <<rows, cursor, drainVars, history>>

Visiting(r) ==
  /\ pc = "visit"
  /\ IsNext(r, todo, cursor)
  /\ cursor' = r.seq
  /\ todo' = todo \ {r}
  /\ attempted' = attempted + 1
  /\ visits' = [visits EXCEPT ![r.id] = @ + 1]
  /\ UNCHANGED <<drainVars, start, late, manual>>

Delivered(r) == Visiting(r) /\ rows' = rows \ {r} /\ UNCHANGED <<pc, refused>>
Refused(r)   == Visiting(r) /\ refused' = refused + 1 /\ UNCHANGED <<rows, pc>>

\* A failure that stops the call stops the run as well; so does a local error
\* or the death of the process.
Stopped(r)   == Visiting(r) /\ pc' = "stopped" /\ UNCHANGED <<rows, refused>>

\* The rows pending now and those delivered by the first call.
Budget == Cardinality(rows) + attempted - refused

\* Mutant of Enough: one row short.
EnoughOneEarly(seen, allowed) ==
  rows = {} \/ attempted < LimitNow \/ seen + 1 >= allowed

\* Nothing is pending, the call ran out of rows, or the budget is used up.
Enough(seen, allowed) ==
  rows = {} \/ attempted < LimitNow \/ seen >= allowed

Return ==
  /\ pc = "visit" /\ todo = {}
  /\ visited' = visited + attempted
  /\ budget' = IF round = 0 THEN Budget ELSE budget
  /\ round' = round + 1
  /\ pc' = IF Enough(visited', budget') \/ round' = Batches THEN "done" ELSE "call"
  /\ UNCHANGED <<rows, cursor, batchVars, history>>

Next ==
  \/ \E id \in Ids : Store(id)
  \/ ManualSync \/ Call \/ Return
  \/ \E r \in todo : Delivered(r) \/ Refused(r) \/ Stopped(r)

Spec == Init /\ [][Next]_vars

-----------------------------------------------------------------------------
(* Properties.                                                              *)

TypeOK ==
  /\ rows \subseteq [seq : Nat \ {0}, id : Ids]
  /\ \A q, r \in rows : (q.seq = r.seq \/ q.id = r.id) => q = r
  /\ todo \subseteq rows
  /\ {cursor, visited, attempted, refused, budget} \subseteq Nat
  /\ round \in 0..Batches
  /\ pc \in {"call", "visit", "stopped", "done"}
  /\ start \subseteq Ids /\ late \subseteq Ids
  /\ visits \in [Ids -> Nat]

\* "One run visits each row that was pending when it started at most once."
VisitedAtMostOnce == \A id \in start : visits[id] <= 1

\* That is so as long as nobody stores a row or runs another sync meanwhile;
\* and then a run that ends by itself before its last call has tried every
\* row that was pending when it started.
UndisturbedVisitsEachOnce ==
  late = {} /\ ~manual =>
    /\ VisitedAtMostOnce
    /\ pc = "done" /\ round < Batches => \A id \in start : visits[id] >= 1

\* However it is disturbed, a run sends no more requests than its first batch
\* or one for each row that ever was pending.
RequestsBounded ==
  MapThenSumSet(LAMBDA id : visits[id], Ids)
    <= Max({BatchSize, Cardinality(start \cup late)})
=============================================================================
