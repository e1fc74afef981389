------------------------------ MODULE Capture ------------------------------
(***************************************************************************)
(* The durable capture of the Python launcher (capture.py, capture_store.py*)
(* runner.py, spool.py): `devdiary run' opens a capture, runs the command, *)
(* freezes the terminal envelope and delivers it; `capture begin | finish |*)
(* retry' do the same for an orchestrator; `emit pending' flushes the      *)
(* spool.  All are processes of their own and may die at any step.         *)
(*                                                                         *)
(* A transaction that makes no HTTP call is one step; delivery holds its   *)
(* write lock across the call, and a process that waits for the lock too   *)
(* long fails.  Capture and event ids are drawn from a counter.  There is  *)
(* one ingest key; entries signed with another one are left alone.         *)
(* POSIX only: on Windows closing the job object ends the tree.            *)
(***************************************************************************)
EXTENDS Integers, FiniteSets

CONSTANTS
  Runs,      \* run_refs
  Launched,  \* those of `devdiary run'; the launcher is named like its run
  Operators, \* processes of the capture commands
  Flushers,  \* processes of `emit pending'
  Settings,  \* how launchers are started: enforcement mode of the registry,
             \* ingest key present
  None,
  MaxIds     \* bound: capture and event ids minted

ASSUME CaptureAssumption ==
  /\ Launched \subseteq Runs /\ Operators \cap Runs = {}
  /\ None \notin Runs \cup Operators
  /\ Settings \subseteq
       [mode : {"off", "warn", "enforce"}, keyed : BOOLEAN]
  /\ MaxIds \in Nat

VARIABLES
  rec,      \* table captures: the record of each run, or None
  contexts, \* capture ids that have a context file
  db,       \* the process that holds the database's write lock, or None
  job,      \* per launcher and operator: what it is in the middle of
  child,    \* per launched run, the command: "none", "running", "ok", "broke"
  tree,     \* per launched run: its process group is alive
  spool,    \* per launched run: the file of its envelope
  flush,    \* per flusher: files left, the one being sent
  wire,     \* envelopes of each run that were ever sent
  held,     \* envelopes of each run that the server has taken
  minted    \* ids minted

disk   == <<rec, contexts>>
procs  == <<child, tree>>
server == <<wire, held>>
vars == <<disk, db, job, procs, spool, flush, server, minted>>

Outcomes  == {"completed", "failed", "cancelled"}
Claims    == [outcome : Outcomes]
Envelopes == [outcome : Outcomes, event : 1..MaxIds]
Records   == [cap : 1..MaxIds, state : {"open"}]
             \cup [cap : 1..MaxIds, state : {"pending", "delivered"},
                   claim : Claims, envelope : Envelopes]
Jobs      == Launched \cup Operators

ASSUME NamesAssumption == None \notin Records \cup Envelopes

\* heard: a signal the handler has seen.
Idle == [pc |-> "idle", run |-> None, mode |-> "off", keyed |-> FALSE,
         claim |-> [outcome |-> "failed"], heard |-> FALSE,
         replay |-> FALSE, cap |-> 0, emitted |-> FALSE, exit |-> "none"]

Init ==
  /\ rec = [r \in Runs |-> None]
  /\ contexts = {}
  /\ db = None
  /\ job = [p \in Jobs |-> Idle]
  /\ child = [r \in Launched |-> "none"]
  /\ tree = [r \in Launched |-> FALSE]
  /\ spool = [r \in Launched |-> [file |-> "none"]]
  /\ flush = [f \in Flushers |-> [todo |-> {}, run |-> None]]
  /\ wire = [r \in Runs |-> {}]
  /\ held = [r \in Runs |-> {}]
  /\ minted = 0

Open(r)   == rec[r] # None /\ rec[r].state = "open"
Frozen(r) == rec[r] # None /\ rec[r].state # "open"
At(p, pc) == job[p].pc = pc
Goto(p, pc) == job' = [job EXCEPT ![p].pc = pc]
\* A launcher ends with an exit status, a command may be called again.
Ended(p, exit) ==
  IF p \notin Launched THEN Idle
  ELSE IF exit \in {"error", "killed"}
       THEN [Idle EXCEPT !.pc = "exit", !.run = p, !.exit = exit]
       ELSE [job[p] EXCEPT !.pc = "exit", !.exit = exit]
End(p, exit) == job' = [job EXCEPT ![p] = Ended(p, exit)]

-----------------------------------------------------------------------------
(* capture.begin: the context file is on disk before the row.               *)

Launch(r) == \E s \in Settings :
  /\ At(r, "idle")
  /\ job' = [job EXCEPT ![r] = [Idle EXCEPT !.pc = "begin", !.run = r,
               !.mode = s.mode, !.keyed = s.keyed]]
  /\ UNCHANGED <<disk, db, procs, spool, flush, server, minted>>

AskBegin(o, r) ==
  /\ At(o, "idle") /\ r \notin Launched
  /\ job' = [job EXCEPT ![o] = [Idle EXCEPT !.pc = "begin", !.run = r]]
  /\ UNCHANGED <<disk, db, procs, spool, flush, server, minted>>

\* The same request again is answered from the record.
BeginAgain(p) ==
  /\ At(p, "begin") /\ db = None /\ rec[job[p].run] # None
  /\ End(p, "none")
  /\ UNCHANGED <<disk, db, procs, spool, flush, server, minted>>

Written(cap) == contexts \cup {cap}

WriteContext(p) ==
  /\ At(p, "begin") /\ db = None /\ rec[job[p].run] = None
  /\ minted < MaxIds
  /\ minted' = minted + 1
  /\ contexts' = Written(minted + 1)
  /\ job' = [job EXCEPT ![p].pc = "insert", ![p].cap = minted']
  /\ db' = p
  /\ UNCHANGED <<rec, procs, spool, flush, server>>

Insert(p) ==
  /\ At(p, "insert")
  /\ rec' = [rec EXCEPT ![job[p].run] = [cap |-> job[p].cap, state |-> "open"]]
  /\ db' = None
  /\ job' = [job EXCEPT ![p] = IF p \in Launched
               THEN [@ EXCEPT !.pc = "spawn", !.cap = 0] ELSE Idle]
  /\ UNCHANGED <<contexts, procs, spool, flush, server, minted>>

\* Mutant of RolledBack: the transaction is left open.
LeftOpen == db
RolledBack == None

InsertFails(p) ==
  /\ At(p, "insert")
  /\ contexts' = contexts \ {job[p].cap}
  /\ db' = RolledBack
  /\ End(p, "error")
  /\ UNCHANGED <<rec, procs, spool, flush, server, minted>>

-----------------------------------------------------------------------------
(* runner._spawn.  Handlers record a signal until the tree can be stopped,  *)
(* then raise; from the moment it is being stopped they only record.        *)

Spawn(r) ==
  /\ At(r, "spawn")
  /\ child' = [child EXCEPT ![r] = "running"]
  /\ tree' = [tree EXCEPT ![r] = TRUE]
  /\ Goto(r, "born")
  /\ UNCHANGED <<disk, db, spool, flush, server, minted>>

SpawnFails(r) ==
  /\ At(r, "spawn")
  /\ job' = [job EXCEPT ![r].pc = "freeze", ![r].claim.outcome = "failed"]
  /\ UNCHANGED <<disk, db, procs, spool, flush, server, minted>>

Cancelled(r) ==
  [job[r] EXCEPT !.pc = "stop", !.claim.outcome = "cancelled", !.heard = TRUE]

\* Mutant of Attached: a signal that came before is not looked at.
AttachedDeaf(r) == [job[r] EXCEPT !.pc = "ready"]
Attached(r) ==
  IF job[r].heard THEN Cancelled(r) ELSE [job[r] EXCEPT !.pc = "ready"]

Attach(r) ==
  /\ At(r, "born")
  /\ job' = [job EXCEPT ![r] = Attached(r)]
  /\ UNCHANGED <<disk, db, procs, spool, flush, server, minted>>

Reap(r) ==
  /\ At(r, "ready") /\ child[r] # "running"
  /\ job' = [job EXCEPT ![r].pc = "reaped", ![r].claim.outcome =
               IF child[r] = "ok" THEN "completed" ELSE "failed"]
  /\ UNCHANGED <<disk, db, procs, spool, flush, server, minted>>

Signal(r) ==
  /\ job' = [job EXCEPT ![r] = IF At(r, "ready") \/ At(r, "reaped")
               THEN Cancelled(r) ELSE [job[r] EXCEPT !.heard = TRUE]]
  /\ job[r].pc \in {"spawn", "born", "ready", "reaped"}
  /\ UNCHANGED <<disk, db, procs, spool, flush, server, minted>>

Unready(r) ==
  /\ At(r, "reaped")
  /\ Goto(r, "stop")
  /\ UNCHANGED <<disk, db, procs, spool, flush, server, minted>>

\* ProcessTree.stop: SIGTERM to the group, SIGKILL after the grace.
StopTree(r) ==
  /\ At(r, "stop")
  /\ child' = [child EXCEPT ![r] = IF @ = "running" THEN "broke" ELSE @]
  /\ tree' = [tree EXCEPT ![r] = FALSE]
  /\ Goto(r, "freeze")
  /\ UNCHANGED <<disk, db, spool, flush, server, minted>>

\* The command ends, perhaps leaving processes of its group behind.
ChildEnds(r) ==
  /\ child[r] = "running"
  /\ \E end \in {"ok", "broke"}, left \in BOOLEAN :
       child' = [child EXCEPT ![r] = end] /\ tree' = [tree EXCEPT ![r] = left]
  /\ UNCHANGED <<disk, db, job, spool, flush, server, minted>>

-----------------------------------------------------------------------------
(* capture.freeze                                                           *)

AskFinish(o, r) == \E outcome \in Outcomes :
  /\ At(o, "idle") /\ rec[r] # None
  /\ job' = [job EXCEPT ![o] = [Idle EXCEPT !.pc = "freeze", !.run = r,
               !.keyed = TRUE, !.claim.outcome = outcome]]
  /\ UNCHANGED <<disk, db, procs, spool, flush, server, minted>>

\* The claim of the record is repeated: the same outcome, and the same work and
\* end time where they are named.  Commands may name any work and end time, or
\* none, and only a command can have frozen what a launcher finds frozen, so
\* with the same outcome the rest may agree or differ.
SameOutcome(p) == rec[job[p].run].claim.outcome = job[p].claim.outcome

AfterFreeze(p) ==
  Goto(p, IF p \in Launched /\ job[p].mode = "off" THEN "exiting" ELSE "deliver")

\* Mutant of MayFreeze: a frozen capture is frozen again.
FreezeTwice(r) == rec[r].state # "delivered"
MayFreeze(r) == Open(r)

Freeze(p) == LET r == job[p].run IN
  /\ At(p, "freeze") /\ db = None /\ MayFreeze(r)
  /\ minted < MaxIds
  /\ minted' = minted + 1
  /\ rec' = [rec EXCEPT ![r] =
       [cap |-> rec[r].cap, state |-> "pending", claim |-> job[p].claim,
        envelope |-> [outcome |-> job[p].claim.outcome, event |-> minted']]]
  /\ AfterFreeze(p)
  /\ UNCHANGED <<contexts, db, procs, spool, flush, server>>

FreezeAgain(p) ==
  /\ At(p, "freeze") /\ db = None /\ Frozen(job[p].run) /\ SameOutcome(p)
  /\ AfterFreeze(p)
  /\ UNCHANGED <<disk, db, procs, spool, flush, server, minted>>

\* Another outcome, other work or another end time than the record's.
FreezeConflict(p) ==
  /\ At(p, "freeze") /\ db = None /\ Frozen(job[p].run)
  /\ End(p, "error")
  /\ UNCHANGED <<disk, db, procs, spool, flush, server, minted>>

-----------------------------------------------------------------------------
(* capture.deliver: the lock is taken before the record is read and given   *)
(* back after the answer is saved.                                          *)

AskRetry(o, r) ==
  /\ At(o, "idle") /\ Frozen(r)
  /\ job' = [job EXCEPT ![o] = [Idle EXCEPT !.pc = "deliver", !.run = r,
               !.keyed = TRUE, !.replay = TRUE]]
  /\ UNCHANGED <<disk, db, procs, spool, flush, server, minted>>

\* What the caller does with the record deliver returns.
Told(p, emitted) ==
  IF p \in Launched THEN [job[p] EXCEPT !.pc = "exiting", !.emitted = emitted]
  ELSE Idle

DeliverNothing(p) ==
  /\ At(p, "deliver") /\ db = None
  /\ rec[job[p].run].state = "delivered" /\ ~job[p].replay
  /\ job' = [job EXCEPT ![p] = Told(p, TRUE)]
  /\ UNCHANGED <<disk, db, procs, spool, flush, server, minted>>

Deliver(p) ==
  /\ At(p, "deliver") /\ db = None
  /\ rec[job[p].run].state = "pending" \/ job[p].replay
  /\ db' = p
  /\ Goto(p, "post")
  /\ UNCHANGED <<disk, procs, spool, flush, server, minted>>

\* transport.post_envelope: up to three requests, all with the same bytes.
Post(p) == LET r == job[p].run IN
  /\ At(p, "post") /\ job[p].keyed
  /\ wire' = [wire EXCEPT ![r] = @ \cup {rec[r].envelope}]
  /\ UNCHANGED <<disk, db, job, procs, spool, flush, held, minted>>

\* Mutant of Receipt: the receipt is not compared with the envelope.
AnyReceipt(r, envelope) == envelope \in wire[r]
Receipt(r, envelope) == envelope \in held[r]

PostSucceeds(p) == LET r == job[p].run IN
  /\ At(p, "post") /\ Receipt(r, rec[r].envelope)
  /\ rec' = [rec EXCEPT ![r].state = "delivered"]
  /\ db' = None
  /\ job' = [job EXCEPT ![p] = Told(p, TRUE)]
  /\ UNCHANGED <<contexts, procs, spool, flush, server, minted>>

\* Mutant of Failed: a failed attempt is saved as the new state.
FailedState(r) == [rec EXCEPT ![r].state = "pending"]
FailedAttempt(r) == rec

PostFails(p) ==
  /\ At(p, "post")
  /\ rec' = FailedAttempt(job[p].run)
  /\ db' = None
  /\ job' = [job EXCEPT ![p] = Told(p, FALSE)]
  /\ UNCHANGED <<contexts, procs, spool, flush, server, minted>>

\* `database is locked' after the 60 seconds of the connection; in freeze an
\* envelope that is too large or a git failure ends the same way.
Busy(p) ==
  /\ \/ job[p].pc \in {"begin", "freeze", "deliver"} /\ db # None
     \/ At(p, "freeze") /\ Open(job[p].run)
  /\ End(p, "error")
  /\ UNCHANGED <<disk, db, procs, spool, flush, server, minted>>

-----------------------------------------------------------------------------
(* The end of _run_durable, and the spool.                                  *)

Undelivered(r) == job[r].mode # "off" /\ ~job[r].emitted
\* Mutant of ExitCode: enforcement is forgotten.
ExitLenient(r) == IF job[r].claim.outcome = "completed" THEN "ok" ELSE "failed"
ExitCode(r) ==
  IF job[r].claim.outcome # "completed" THEN "failed"
  ELSE IF Undelivered(r) /\ job[r].mode = "enforce" THEN "enforced" ELSE "ok"

Exit(r) ==
  /\ \/ At(r, "exiting") /\ ~(Undelivered(r) /\ job[r].keyed)
     \/ At(r, "queued")
  /\ End(r, ExitCode(r))
  /\ UNCHANGED <<disk, db, procs, spool, flush, server, minted>>

\* spool.enqueue: the name is taken first, the bytes follow.
CreateFile(r) ==
  /\ At(r, "exiting") /\ Undelivered(r) /\ job[r].keyed
  /\ spool' = [spool EXCEPT ![r] = [file |-> "partial"]]
  /\ Goto(r, "enqueue")
  /\ UNCHANGED <<disk, db, procs, flush, server, minted>>

WriteFile(r) ==
  /\ At(r, "enqueue")
  /\ spool' = [spool EXCEPT ![r] =
       [file |-> "whole", envelope |-> rec[r].envelope]]
  /\ Goto(r, "queued")
  /\ UNCHANGED <<disk, db, procs, flush, server, minted>>

\* An error of the spool is reported; the file may be left half-written.
EnqueueFails(r) ==
  /\ \/ At(r, "exiting") /\ Undelivered(r) /\ job[r].keyed
     \/ At(r, "enqueue")
  /\ Goto(r, "queued")
  /\ UNCHANGED <<disk, db, procs, spool, flush, server, minted>>

Listed == {r \in Launched : spool[r].file \in {"partial", "whole"}}

StartFlush(f) ==
  /\ flush[f] = [todo |-> {}, run |-> None] /\ Listed # {}
  /\ flush' = [flush EXCEPT ![f].todo = Listed]
  /\ UNCHANGED <<disk, db, job, procs, spool, server, minted>>

\* An unreadable or missing file is reported and left as it is.
ReadFile(f, r) ==
  /\ flush[f].run = None /\ r \in flush[f].todo
  /\ flush' = [flush EXCEPT ![f] = [todo |-> @.todo \ {r},
                 run |-> IF spool[r].file = "whole" THEN r ELSE None]]
  /\ UNCHANGED <<disk, db, job, procs, spool, server, minted>>

FlushPost(f) == LET r == flush[f].run IN
  /\ r # None
  /\ wire' = [wire EXCEPT ![r] = @ \cup {spool[r].envelope}]
  /\ UNCHANGED <<disk, db, job, procs, spool, flush, held, minted>>

\* Mutant of MayUnlink: the file goes when it has been sent.
UnlinkSent(r) == spool[r].file = "whole" /\ spool[r].envelope \in wire[r]
MayUnlink(r) == spool[r].file = "whole" /\ Receipt(r, spool[r].envelope)

Unlink(f) == LET r == flush[f].run IN
  /\ r # None /\ MayUnlink(r)
  /\ spool' = [spool EXCEPT ![r] = [file |-> "gone", envelope |-> @.envelope]]
  /\ flush' = [flush EXCEPT ![f].run = None]
  /\ UNCHANGED <<disk, db, job, procs, server, minted>>

\* The post or the unlink fails, or the flusher dies with files left.
FlushFails(f) == \E todo \in {flush[f].todo, {}} :
  /\ flush[f].run # None
  /\ flush' = [flush EXCEPT ![f] = [todo |-> todo, run |-> None]]
  /\ UNCHANGED <<disk, db, job, procs, spool, server, minted>>

-----------------------------------------------------------------------------
(* The server takes an envelope whenever it arrives, once per event id.     *)

Take(r) == \E envelope \in wire[r] \ held[r] :
  /\ held' = [held EXCEPT ![r] = @ \cup {envelope}]
  /\ UNCHANGED <<disk, db, job, procs, spool, flush, wire, minted>>

\* A process is killed: its transaction is rolled back, its command lives on.
Die(p) ==
  /\ job[p].pc \notin {"idle", "exit"}
  /\ db' = IF db = p THEN None ELSE db
  /\ End(p, "killed")
  /\ UNCHANGED <<disk, procs, spool, flush, server, minted>>

Launcher(r) ==
  \/ Launch(r) \/ Spawn(r) \/ SpawnFails(r) \/ Attach(r) \/ Reap(r)
  \/ Signal(r) \/ Unready(r) \/ StopTree(r) \/ ChildEnds(r)
  \/ Exit(r) \/ CreateFile(r) \/ WriteFile(r) \/ EnqueueFails(r)

Operator(o) == \E r \in Runs : AskBegin(o, r) \/ AskFinish(o, r) \/ AskRetry(o, r)

Process(p) ==
  \/ BeginAgain(p) \/ WriteContext(p) \/ Insert(p) \/ InsertFails(p)
  \/ Freeze(p) \/ FreezeAgain(p) \/ FreezeConflict(p)
  \/ DeliverNothing(p) \/ Deliver(p) \/ Post(p) \/ PostSucceeds(p)
  \/ PostFails(p) \/ Busy(p) \/ Die(p)

Flusher(f) ==
  \/ StartFlush(f) \/ FlushPost(f) \/ Unlink(f) \/ FlushFails(f)
  \/ \E r \in Launched : ReadFile(f, r)

Next ==
  \/ \E r \in Launched : Launcher(r)
  \/ \E o \in Operators : Operator(o)
  \/ \E p \in Jobs : Process(p)
  \/ \E f \in Flushers : Flusher(f)
  \/ \E r \in Runs : Take(r)

Spec == Init /\ [][Next]_vars
-----------------------------------------------------------------------------
(* Properties                                                               *)

\* Types, and the transaction discipline: the write lock is held by exactly
\* the process that is between the two steps of begin or inside delivery.
TypeOK ==
  /\ rec \in [Runs -> Records \cup {None}]
  /\ contexts \subseteq 1..MaxIds
  /\ \A r \in Runs : rec[r] # None => rec[r].cap \in contexts
  /\ db \in Jobs \cup {None}
  /\ \A p \in Jobs : job[p].pc \in {"insert", "post"} <=> db = p
  /\ \A p \in Jobs : job[p].pc # "idle" => job[p].run \in Runs
  /\ child \in [Launched -> {"none", "running", "ok", "broke"}]
  /\ tree \in [Launched -> BOOLEAN]
  /\ \A r \in Launched : spool[r].file \in {"none", "partial", "whole", "gone"}
  /\ flush \in [Flushers -> [todo : SUBSET Launched, run : Launched \cup {None}]]
  /\ wire \in [Runs -> SUBSET Envelopes] /\ held \in [Runs -> SUBSET Envelopes]
  /\ minted \in 0..MaxIds

\* Every copy of a terminal envelope, on the wire or in the spool, is the one
\* frozen in the record, so that finish, retry, flush and their repetitions
\* after a crash never give a run a second event identity (capture.deliver's
\* comment; README, "without minting a new event identity").
OneEnvelope ==
  \A r \in Runs :
    /\ wire[r] \subseteq (IF Frozen(r) THEN {rec[r].envelope} ELSE {})
    /\ r \in Launched => \/ spool[r].file \in {"none", "partial"}
                         \/ Frozen(r) /\ spool[r].envelope = rec[r].envelope

\* A launcher that exits with 0 has run its command to its own successful end
\* and left it frozen as completed; under `enforce' the server has it too,
\* whoever finished or retried the capture meanwhile (end of _run_durable).
ExitTruth ==
  \A r \in Launched : job[r].exit = "ok" =>
    /\ child[r] = "ok"
    /\ Frozen(r) /\ rec[r].claim.outcome = "completed"
    /\ job[r].mode = "enforce" =>
         rec[r].state = "delivered" /\ rec[r].envelope \in held[r]

\* What a launcher claims is what happened: cancelled only and always when it
\* was interrupted while its command ran, completed only for a command that
\* ended well by itself; and by then no process of the command's group is left
\* to do work that the envelope would miss (_spawn; README, "Wrapped process
\* trees are fail-closed").
Claiming == {"freeze", "deliver", "post", "exiting", "enqueue", "queued"}
OutcomeTruth ==
  \A r \in Launched : job[r].pc \in Claiming \/ job[r].exit \in {"ok", "failed", "enforced"} =>
    /\ ~tree[r] /\ child[r] # "running"
    /\ job[r].claim.outcome = "completed" => child[r] = "ok"
    /\ child[r] # "none" => (job[r].heard <=> job[r].claim.outcome = "cancelled")

\* A spool file goes only when the server has its envelope, whatever becomes
\* of the flushers that share the directory (spool.flush).
SpoolKeeps ==
  \A r \in Launched : spool[r].file = "gone" => spool[r].envelope \in held[r]

\* The captures deliver as the abstract specification says: frozen once,
\* pending until the server has exactly those bytes, then delivered for good.
Promise == INSTANCE Delivery WITH
  Ids <- Runs, Bodies <- Envelopes, NoBody <- None,
  pending <- [r \in Runs |-> IF Frozen(r) /\ rec[r].state = "pending"
                             THEN rec[r].envelope ELSE None],
  remembered <- [r \in Runs |-> IF Frozen(r) /\ rec[r].state = "delivered"
                                THEN rec[r].envelope ELSE None],
  held <- [r \in Runs |-> IF held[r] = {} THEN None
                          ELSE CHOOSE envelope \in held[r] : TRUE]
ImplementsDelivery == Promise!Spec
=============================================================================
