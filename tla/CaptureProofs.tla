---------------------------- MODULE CaptureProofs ----------------------------
(***************************************************************************)
(* Theorems about Capture, for any runs, launchers, operators, flushers    *)
(* and settings.  The inductive invariant has four parts: what a process   *)
(* knows of the record where it is (Place), what a launcher knows of its   *)
(* command (Command), what the spool file is worth (Queue), and where      *)
(* copies of an envelope can be (Copies).                                  *)
(***************************************************************************)
EXTENDS Capture, TLAPS

Opened   == {"spawn", "born", "ready", "reaped", "stop", "freeze", "deliver", "post",
             "exiting", "enqueue", "queued"}
Froze    == {"deliver", "post", "exiting", "enqueue", "queued"}
Truthful == {"ok", "failed", "enforced"}

JobStates == [pc      : {"idle", "begin", "insert", "exit"} \cup Opened,
              run     : Runs \cup {None},
              mode    : {"off", "warn", "enforce"},
              keyed   : BOOLEAN,
              claim   : Claims,
              heard   : BOOLEAN,
              replay  : BOOLEAN,
              cap     : 0..MaxIds,
              emitted : BOOLEAN,
              exit    : {"none", "error", "killed"} \cup Truthful]

Files == [file : {"none", "partial"}] \cup [file : {"whole", "gone"}, envelope : Envelopes]

WorldTyped ==
  /\ rec \in [Runs -> Records \cup {None}]
  /\ contexts \subseteq 1..minted
  /\ db \in Jobs \cup {None}
  /\ child \in [Launched -> {"none", "running", "ok", "broke"}]
  /\ tree \in [Launched -> BOOLEAN]
  /\ spool \in [Launched -> Files]
  /\ flush \in [Flushers -> [todo : SUBSET Launched, run : Launched \cup {None}]]
  /\ wire \in [Runs -> SUBSET Envelopes] /\ held \in [Runs -> SUBSET Envelopes]
  /\ minted \in 0..MaxIds

Typed == WorldTyped /\ job \in [Jobs -> JobStates]

\* Who is inside a transaction that spans steps holds the write lock.
Locked == \A p \in Jobs : job[p].pc \in {"insert", "post"} <=> db = p

Filed == \A r \in Runs : rec[r] # None => rec[r].cap \in contexts

IsFrozen(record) == record # None /\ record.state # "open"

\* What process p knows of the records rs and context files cs in state j.
Place(p, j, rs, cs) ==
  /\ j.pc # "idle" => j.run \in Runs
  /\ p \in Launched => j.pc = "idle" \/ j.run = p
  /\ p \notin Launched => j.pc \in {"idle", "begin", "insert", "freeze", "deliver", "post"}
  /\ j.pc = "insert" => /\ rs[j.run] = None /\ j.cap \in cs
                        /\ \A r \in Runs : rs[r] # None => rs[r].cap # j.cap
  /\ j.pc \in Opened => rs[j.run] # None
  /\ j.pc \in Froze => IsFrozen(rs[j.run])
  /\ j.exit # "none" => j.pc = "exit"
  /\ p \in Launched /\ (j.pc \in Froze \/ j.exit \in Truthful) =>
       IsFrozen(rs[p]) /\ rs[p].claim.outcome = j.claim.outcome
  /\ j.emitted => p \in Launched /\ IsFrozen(rs[p]) /\ rs[p].state = "delivered"
  /\ j.exit = "ok" => j.claim.outcome = "completed" /\ (j.mode = "enforce" => j.emitted)

\* What a launcher in state j knows of its command c and the process group t.
Truth(j, c, t) ==
  /\ ~t /\ c # "running"
  /\ j.claim.outcome = "completed" => c = "ok"
  /\ c # "none" => (j.heard <=> j.claim.outcome = "cancelled")

Command(j, c, t) ==
  /\ j.pc \in {"idle", "begin", "insert", "spawn"} => c = "none" /\ ~t
  /\ j.pc \in {"born", "ready", "reaped", "stop"} => c # "none"
  /\ j.pc \in {"ready", "reaped"} => ~j.heard
  /\ j.pc = "reaped" => c # "running" /\ j.claim.outcome # "cancelled"
  /\ j.pc = "stop" => (j.heard <=> j.claim.outcome = "cancelled")
  /\ j.pc \in {"reaped", "stop"} => (j.claim.outcome = "completed" => c = "ok")
  /\ j.pc \in {"idle", "begin", "insert", "spawn"} => j.claim.outcome = "failed"
  /\ j.pc \in Claiming \/ j.exit \in Truthful => Truth(j, c, t)

\* What the spool file s of a launcher in state j holds of its record.
Queue(j, s, record) ==
  /\ s.file # "none" => j.pc \in {"enqueue", "queued", "exit"}
  /\ j.pc = "enqueue" => s.file = "partial"
  /\ s.file \in {"whole", "gone"} => IsFrozen(record) /\ s.envelope = record.envelope

Places   == \A p \in Jobs : Place(p, job[p], rec, contexts)
Commands == \A r \in Launched : Command(job[r], child[r], tree[r])
Queues   == \A r \in Launched : Queue(job[r], spool[r], rec[r])
Flushing == \A f \in Flushers : flush[f].run # None => spool[flush[f].run].file \in {"whole", "gone"}

\* Every copy sent or taken is of the record's envelope; what was reported to
\* the record or unlinked, the server has.
CopiesOf(record, sent, taken) ==
  /\ \A e \in sent : IsFrozen(record) /\ e = record.envelope
  /\ taken \subseteq sent
  /\ IsFrozen(record) /\ record.state = "delivered" => record.envelope \in taken

Copies ==
  /\ \A r \in Runs : CopiesOf(rec[r], wire[r], held[r])
  /\ \A r \in Launched : spool[r].file = "gone" => spool[r].envelope \in held[r]

CaptureInv ==
  /\ Typed /\ Locked /\ Filed
  /\ Places /\ Commands /\ Queues /\ Flushing /\ Copies
-----------------------------------------------------------------------------
(* A step of one process.                                                  *)

LEMMA IdleJob == Idle \in JobStates /\ Idle.pc = "idle" /\ Idle.exit = "none"
                 /\ ~Idle.emitted /\ Idle.claim.outcome = "failed" /\ ~Idle.heard
BY CaptureAssumption DEF Idle, JobStates, Claims, Outcomes

LEMMA CaptureInitInv == Init => CaptureInv
<1> SUFFICES ASSUME Init PROVE CaptureInv
  OBVIOUS
<1> USE DEF Init
<1>1. WorldTyped
  BY CaptureAssumption DEF WorldTyped, Files
<1>2. \A p \in Jobs : job[p] = Idle
  OBVIOUS
<1>3. Typed /\ Locked
  BY <1>1, <1>2, IdleJob, CaptureAssumption DEF Typed, Locked, Jobs
<1>4. Places
  BY <1>2, IdleJob DEF Places, Place, Opened, Froze, Truthful
<1>5. Commands
  BY <1>2, IdleJob DEF Commands, Command, Claiming, Truthful, Jobs
<1>6. Queues /\ Flushing
  BY <1>2, IdleJob DEF Queues, Queue, Flushing, Jobs
<1>7. Filed /\ Copies
  BY DEF Filed, Copies, CopiesOf, IsFrozen
<1> QED
  BY <1>3, <1>4, <1>5, <1>6, <1>7 DEF CaptureInv

\* A step keeps the invariant if the process knows what it must where it comes
\* to, and what the others know stays so.
LEMMA CaptureStep ==
  ASSUME CaptureInv, NEW p \in Jobs, NEW j \in JobStates, job' = [job EXCEPT ![p] = j],
         WorldTyped', Filed', Flushing', Copies',
         j.pc \in {"insert", "post"} <=> db' = p,
         \A q \in Jobs \ {p} : db' = q <=> db = q,
         Place(p, j, rec', contexts'),
         \A q \in Jobs \ {p} : Place(q, job[q], rec', contexts'),
         p \in Launched => Command(j, child'[p], tree'[p]) /\ Queue(j, spool'[p], rec'[p]),
         \A r \in Launched \ {p} : Command(job[r], child'[r], tree'[r]) /\ Queue(job[r], spool'[r], rec'[r])
  PROVE  CaptureInv'
<1>1. job' \in [Jobs -> JobStates] /\ job'[p] = j /\ \A q \in Jobs \ {p} : job'[q] = job[q]
  BY DEF CaptureInv, Typed
<1>2. Typed'
  BY <1>1 DEF Typed
<1>3. Locked'
  BY <1>1 DEF Locked, CaptureInv
<1>4. Places'
  BY <1>1 DEF Places
<1>5. \A r \in Launched : r \in Jobs
  BY DEF Jobs
<1>6. Commands'
  BY <1>1, <1>5 DEF Commands
<1>7. Queues'
  BY <1>1, <1>5 DEF Queues
<1> QED
  BY <1>2, <1>3, <1>4, <1>6, <1>7 DEF CaptureInv

\* What is there stays: a step that changes one process, and perhaps who holds
\* the lock.
LEMMA JobStep ==
  ASSUME CaptureInv, NEW p \in Jobs, NEW j \in JobStates, job' = [job EXCEPT ![p] = j],
         UNCHANGED <<disk, procs, spool, flush, server, minted>>, db' \in Jobs \cup {None},
         j.pc \in {"insert", "post"} <=> db' = p,
         \A q \in Jobs \ {p} : db' = q <=> db = q,
         Place(p, j, rec, contexts),
         p \in Launched => Command(j, child[p], tree[p]) /\ Queue(j, spool[p], rec[p])
  PROVE  CaptureInv'
<1>1. /\ UNCHANGED <<rec, contexts, child, tree, spool, flush, wire, held, minted>>
  BY DEF disk, procs, server
<1>2. WorldTyped' /\ Filed' /\ Flushing' /\ Copies'
  BY <1>1 DEF CaptureInv, Typed, WorldTyped, Filed, Flushing, Copies
<1>3. \A q \in Jobs \ {p} : Place(q, job[q], rec', contexts')
  BY <1>1 DEF CaptureInv, Places
<1>4. \A r \in Launched \ {p} : Command(job[r], child'[r], tree'[r]) /\ Queue(job[r], spool'[r], rec'[r])
  BY <1>1 DEF CaptureInv, Commands, Queues
<1> QED
  BY <1>1, <1>2, <1>3, <1>4, CaptureStep

LEMMA AtJob ==
  ASSUME CaptureInv, NEW p \in Jobs
  PROVE  /\ job[p] \in JobStates /\ Place(p, job[p], rec, contexts)
         /\ job[p].pc \in {"insert", "post"} <=> db = p
         /\ p \in Launched => Command(job[p], child[p], tree[p]) /\ Queue(job[p], spool[p], rec[p])
BY DEF CaptureInv, Typed, Places, Locked, Commands, Queues

LEMMA Lock ==
  ASSUME CaptureInv
  PROVE  None \notin Jobs /\ db \in Jobs \cup {None}
BY CaptureAssumption DEF CaptureInv, Typed, WorldTyped, Jobs

-----------------------------------------------------------------------------
(* Steps that only move a process.                                         *)

\* One that stays outside the transactions, the lock being with another or free.
LEMMA Outside ==
  ASSUME CaptureInv, NEW p \in Jobs, NEW j \in JobStates, job' = [job EXCEPT ![p] = j],
         UNCHANGED <<disk, db, procs, spool, flush, server, minted>>,
         job[p].pc \notin {"insert", "post"}, j.pc \notin {"insert", "post"},
         Place(p, j, rec, contexts),
         p \in Launched => Command(j, child[p], tree[p]) /\ Queue(j, spool[p], rec[p])
  PROVE  CaptureInv'
<1>1. db # p /\ db' = db /\ db \in Jobs \cup {None}
  BY AtJob, Lock
<1> QED
  BY <1>1, JobStep

\* A process that fails or is killed, and so gives the lock back.
LEMMA EndJob ==
  ASSUME CaptureInv, NEW p \in Jobs, NEW exit \in {"none", "error", "killed"},
         exit = "none" => job[p].pc = "begin"
  PROVE  /\ Ended(p, exit) \in JobStates /\ Ended(p, exit).pc \in {"idle", "exit"}
         /\ \A cs : Place(p, Ended(p, exit), rec, cs)
         /\ p \in Launched => /\ Command(Ended(p, exit), child[p], tree[p])
                              /\ Queue(Ended(p, exit), spool[p], rec[p])
<1> DEFINE j == Ended(p, exit)
<1>1. p \in Jobs /\ job[p] \in JobStates /\ Place(p, job[p], rec, contexts)
  BY AtJob
<1>2. CASE p \notin Launched
  <2>1. j = Idle
    BY <1>2 DEF Ended
  <2> QED
    BY <1>2, <2>1, IdleJob DEF Place, Opened, Froze, Truthful
<1>3. CASE p \in Launched /\ exit # "none"
  <2>1. j = [Idle EXCEPT !.pc = "exit", !.run = p, !.exit = exit]
    BY <1>3 DEF Ended
  <2>2. p \in Runs
    BY <1>3, CaptureAssumption
  <2>3. /\ j \in JobStates /\ j.pc = "exit" /\ j.run = p /\ j.exit = exit /\ ~j.emitted
    BY <2>1, <2>2, IdleJob DEF JobStates
  <2> HIDE DEF j
  <2>4. \A cs : Place(p, j, rec, cs)
    BY <1>3, <2>2, <2>3 DEF Place, Opened, Froze, Truthful
  <2>5. Command(j, child[p], tree[p])
    BY <1>3, <2>3 DEF Command, Claiming, Truthful
  <2>6. Queue(j, spool[p], rec[p])
    BY <1>3, <2>3, AtJob DEF Queue
  <2> QED
    BY <1>3, <2>3, <2>4, <2>5, <2>6 DEF j
<1>4. CASE p \in Launched /\ exit = "none"
  <2>1. j = [job[p] EXCEPT !.pc = "exit", !.exit = exit]
    BY <1>4 DEF Ended
  <2>2. /\ j \in JobStates /\ j.pc = "exit" /\ j.run = job[p].run /\ j.exit = "none"
        /\ j.emitted = job[p].emitted /\ j.claim = job[p].claim
    BY <1>1, <1>4, <2>1 DEF JobStates
  <2>3. p \in Runs /\ job[p].pc = "begin"
    BY <1>4, CaptureAssumption
  <2> HIDE DEF j
  <2>4. \A cs : Place(p, j, rec, cs)
    BY <1>1, <1>4, <2>2, <2>3 DEF Place, Opened, Froze, Truthful
  <2>5. Command(j, child[p], tree[p])
    BY <1>4, <2>2 DEF Command, Claiming, Truthful
  <2>6. Queue(j, spool[p], rec[p])
    BY <1>4, <2>2, AtJob DEF Queue
  <2> QED
    BY <1>4, <2>2, <2>4, <2>5, <2>6 DEF j
<1> QED
  BY <1>2, <1>3, <1>4

LEMMA EndStep ==
  ASSUME CaptureInv, NEW p \in Jobs, NEW exit \in {"none", "error", "killed"},
         exit = "none" => job[p].pc = "begin",
         job[p].pc # "idle", End(p, exit), db' = IF db = p THEN None ELSE db,
         UNCHANGED <<disk, procs, spool, flush, server, minted>>
  PROVE  CaptureInv'
<1> DEFINE j == Ended(p, exit)
<1>1. /\ j \in JobStates /\ j.pc \in {"idle", "exit"} /\ Place(p, j, rec, contexts)
      /\ p \in Launched => Command(j, child[p], tree[p]) /\ Queue(j, spool[p], rec[p])
  BY EndJob, AtJob
<1>2. db' # p /\ \A q \in Jobs \ {p} : db' = q <=> db = q
  BY Lock
<1>3. job' = [job EXCEPT ![p] = j]
  BY DEF End
<1>4. db' \in Jobs \cup {None}
  BY Lock
<1> HIDE DEF j
<1> QED
  BY <1>1, <1>2, <1>3, <1>4, JobStep

LEMMA Endings ==
  ASSUME CaptureInv, NEW p \in Jobs, BeginAgain(p) \/ FreezeConflict(p) \/ Busy(p) \/ Die(p)
  PROVE  CaptureInv'
<1>1. CASE BeginAgain(p) \/ FreezeConflict(p) \/ Busy(p)
  <2>1. job[p].pc \in {"begin", "freeze", "deliver"} /\ db' = db
    BY <1>1 DEF BeginAgain, FreezeConflict, Busy, At
  <2>2. db # p
    BY <2>1, AtJob
  <2> QED
    BY <1>1, <2>1, <2>2, EndStep DEF BeginAgain, FreezeConflict, Busy, At
<1>2. CASE Die(p)
  BY <1>2, EndStep DEF Die
<1> QED
  BY <1>1, <1>2

LEMMA LaunchInv ==
  ASSUME CaptureInv, NEW r \in Launched, Launch(r)
  PROVE  CaptureInv'
<1>1. PICK s \in Settings :
        job' = [job EXCEPT ![r] = [Idle EXCEPT !.pc = "begin", !.run = r,
                  !.mode = s.mode, !.keyed = s.keyed]]
  BY DEF Launch
<1> DEFINE j == [Idle EXCEPT !.pc = "begin", !.run = r, !.mode = s.mode, !.keyed = s.keyed]
<1>2. s \in [mode : {"off", "warn", "enforce"}, keyed : BOOLEAN] /\ r \in Runs /\ r \in Jobs
  BY CaptureAssumption DEF Jobs
<1>3. /\ j \in JobStates /\ j.pc = "begin" /\ j.run = r /\ ~j.emitted /\ j.exit = "none"
      /\ j.claim.outcome = "failed"
  BY <1>2, IdleJob DEF JobStates, Claims, Outcomes
<1> HIDE DEF j
<1>4. job[r].pc = "idle"
  BY DEF Launch, At
<1>5. Place(r, j, rec, contexts)
  BY <1>2, <1>3 DEF Place, Opened, Froze, Truthful
<1>6. Command(j, child[r], tree[r]) /\ Queue(j, spool[r], rec[r])
  BY <1>2, <1>3, <1>4, AtJob DEF Command, Claiming, Truthful, Queue
<1> QED
  BY <1>1, <1>2, <1>3, <1>4, <1>5, <1>6, Outside DEF Launch, j

\* A command of an operator starts with what it was asked.
LEMMA AskInv ==
  ASSUME CaptureInv, NEW o \in Operators, NEW r \in Runs, AskBegin(o, r) \/ AskFinish(o, r) \/ AskRetry(o, r)
  PROVE  CaptureInv'
<1>1. o \in Jobs /\ o \notin Launched /\ job[o].pc = "idle"
  BY CaptureAssumption DEF Jobs, AskBegin, AskFinish, AskRetry, At
<1>2. ASSUME NEW j \in JobStates, job' = [job EXCEPT ![o] = j], j.pc \in {"begin", "freeze", "deliver"},
             j.run = r, ~j.emitted, j.exit = "none",
             j.pc # "begin" => rec[r] # None, j.pc = "deliver" => Frozen(r),
             UNCHANGED <<disk, db, procs, spool, flush, server, minted>>
      PROVE  CaptureInv'
  <2>1. Place(o, j, rec, contexts)
    BY <1>1, <1>2 DEF Place, Opened, Froze, Truthful, IsFrozen, Frozen
  <2> QED
    BY <1>1, <1>2, <2>1, Outside
<1>3. CASE AskBegin(o, r)
  <2> DEFINE j == [Idle EXCEPT !.pc = "begin", !.run = r]
  <2>1. j \in JobStates /\ j.pc = "begin" /\ j.run = r /\ ~j.emitted /\ j.exit = "none"
    BY IdleJob DEF JobStates
  <2> HIDE DEF j
  <2> QED
    BY <1>2, <1>3, <2>1 DEF AskBegin, j
<1>4. CASE AskFinish(o, r)
  <2>1. PICK outcome \in Outcomes :
          job' = [job EXCEPT ![o] = [Idle EXCEPT !.pc = "freeze", !.run = r, !.keyed = TRUE,
                                       !.claim.outcome = outcome]]
    BY <1>4 DEF AskFinish
  <2> DEFINE j == [Idle EXCEPT !.pc = "freeze", !.run = r, !.keyed = TRUE, !.claim.outcome = outcome]
  <2>2. j \in JobStates /\ j.pc = "freeze" /\ j.run = r /\ ~j.emitted /\ j.exit = "none"
    BY IdleJob DEF JobStates, Claims, Opened
  <2> HIDE DEF j
  <2> QED
    BY <1>2, <1>4, <2>1, <2>2 DEF AskFinish, j
<1>5. CASE AskRetry(o, r)
  <2> DEFINE j == [Idle EXCEPT !.pc = "deliver", !.run = r, !.keyed = TRUE, !.replay = TRUE]
  <2>1. j \in JobStates /\ j.pc = "deliver" /\ j.run = r /\ ~j.emitted /\ j.exit = "none"
    BY IdleJob DEF JobStates, Opened
  <2> HIDE DEF j
  <2> QED
    BY <1>2, <1>5, <2>1 DEF AskRetry, Frozen, j
<1> QED
  BY <1>3, <1>4, <1>5

-----------------------------------------------------------------------------
(* A launcher and its command.                                             *)

LEMMA Moved ==
  ASSUME NEW j \in JobStates, NEW pc \in {"idle", "begin", "insert", "exit"} \cup Opened
  PROVE  LET k == [j EXCEPT !.pc = pc]
         IN  /\ k \in JobStates /\ k.pc = pc
             /\ k.run = j.run /\ k.mode = j.mode /\ k.claim = j.claim /\ k.heard = j.heard
             /\ k.cap = j.cap /\ k.emitted = j.emitted /\ k.exit = j.exit
BY DEF JobStates

\* The launcher of an opened capture, before it is frozen.
LEMMA Running ==
  ASSUME CaptureInv, NEW r \in Launched, job[r].pc \in {"spawn", "born", "ready", "reaped", "stop"},
         NEW j \in JobStates, job' = [job EXCEPT ![r] = j],
         j.pc \in {"spawn", "born", "ready", "reaped", "stop", "freeze"}, j.run = job[r].run,
         j.emitted = job[r].emitted, j.exit = job[r].exit,
         UNCHANGED <<disk, db, spool, flush, server, minted>>,
         child' \in [Launched -> {"none", "running", "ok", "broke"}], tree' \in [Launched -> BOOLEAN],
         \A q \in Launched \ {r} : child'[q] = child[q] /\ tree'[q] = tree[q],
         Command(j, child'[r], tree'[r])
  PROVE  CaptureInv'
<1>1. r \in Jobs /\ r \in Runs
  BY CaptureAssumption DEF Jobs
<1>2. UNCHANGED <<rec, contexts, spool, flush, wire, held, minted, db>>
  BY DEF disk, server
<1>3. /\ job[r].exit = "none" /\ Place(r, job[r], rec, contexts) /\ Queue(job[r], spool[r], rec[r])
      /\ db # r
  BY <1>1, AtJob DEF Place
<1>4. Place(r, j, rec', contexts') /\ Queue(j, spool'[r], rec'[r])
  BY <1>1, <1>2, <1>3 DEF Place, Opened, Froze, Truthful, Queue
<1>5. WorldTyped' /\ Filed' /\ Flushing' /\ Copies'
  BY <1>2 DEF CaptureInv, Typed, WorldTyped, Filed, Flushing, Copies
<1>6. \A q \in Jobs \ {r} : Place(q, job[q], rec', contexts')
  BY <1>2 DEF CaptureInv, Places
<1>7. \A q \in Launched \ {r} : Command(job[q], child'[q], tree'[q]) /\ Queue(job[q], spool'[q], rec'[q])
  BY <1>2 DEF CaptureInv, Commands, Queues
<1> QED
  BY <1>1, <1>2, <1>3, <1>4, <1>5, <1>6, <1>7, CaptureStep

LEMMA RunningSteps ==
  ASSUME CaptureInv, NEW r \in Launched,
         \/ Spawn(r) \/ SpawnFails(r) \/ Attach(r) \/ Reap(r) \/ Signal(r) \/ Unready(r) \/ StopTree(r)
  PROVE  CaptureInv'
<1>1. r \in Jobs /\ job[r] \in JobStates /\ Command(job[r], child[r], tree[r])
  BY AtJob DEF Jobs
<1>2. /\ child \in [Launched -> {"none", "running", "ok", "broke"}] /\ tree \in [Launched -> BOOLEAN]
      /\ job[r].exit # "none" => job[r].pc = "exit"
  BY <1>1, AtJob DEF CaptureInv, Typed, WorldTyped, Place
<1> USE DEF At, Goto
<1>3. CASE Spawn(r)
  <2> DEFINE j == [job[r] EXCEPT !.pc = "born"]
  <2>1. j \in JobStates /\ j.pc = "born" /\ j.run = job[r].run /\ j.emitted = job[r].emitted /\ j.exit = job[r].exit
    BY <1>1, Moved DEF Opened
  <2>2. job' = [job EXCEPT ![r] = j] /\ job[r].pc = "spawn"
    BY <1>3 DEF Spawn
  <2> HIDE DEF j
  <2>3. /\ child' \in [Launched -> {"none", "running", "ok", "broke"}] /\ tree' \in [Launched -> BOOLEAN]
        /\ child'[r] = "running" /\ \A q \in Launched \ {r} : child'[q] = child[q] /\ tree'[q] = tree[q]
    BY <1>2, <1>3 DEF Spawn
  <2>4. Command(j, child'[r], tree'[r])
    BY <1>2, <2>1, <2>2, <2>3 DEF Command, Claiming, Truthful
  <2> QED
    BY <1>3, <2>1, <2>2, <2>3, <2>4, Running DEF Spawn
<1>4. ASSUME UNCHANGED procs
      PROVE  /\ child' = child /\ tree' = tree
             /\ child' \in [Launched -> {"none", "running", "ok", "broke"}] /\ tree' \in [Launched -> BOOLEAN]
             /\ \A q \in Launched \ {r} : child'[q] = child[q] /\ tree'[q] = tree[q]
  BY <1>2, <1>4 DEF procs
<1>5. CASE SpawnFails(r)
  <2> DEFINE j == [job[r] EXCEPT !.pc = "freeze", !.claim.outcome = "failed"]
  <2>1. /\ j \in JobStates /\ j.pc = "freeze" /\ j.run = job[r].run /\ j.emitted = job[r].emitted
        /\ j.exit = job[r].exit /\ j.claim.outcome = "failed"
    BY <1>1 DEF JobStates, Opened, Claims, Outcomes
  <2>2. job' = [job EXCEPT ![r] = j] /\ job[r].pc = "spawn" /\ UNCHANGED procs
    BY <1>5 DEF SpawnFails
  <2> HIDE DEF j
  <2>3. Command(j, child'[r], tree'[r])
    BY <1>1, <1>2, <1>4, <2>1, <2>2 DEF Command, Claiming, Truthful, Truth
  <2> QED
    BY <1>4, <1>5, <2>1, <2>2, <2>3, Running DEF SpawnFails
<1>6. Cancelled(r) \in JobStates /\ LET j == Cancelled(r) IN
        /\ j.pc = "stop" /\ j.run = job[r].run /\ j.emitted = job[r].emitted
        /\ j.exit = job[r].exit /\ j.claim.outcome = "cancelled" /\ j.heard
  BY <1>1 DEF Cancelled, JobStates, Opened, Claims, Outcomes
<1>7. ASSUME job' = [job EXCEPT ![r] = Cancelled(r)], job[r].pc \in {"born", "ready", "reaped"},
             UNCHANGED <<disk, db, procs, spool, flush, server, minted>>
      PROVE  CaptureInv'
  <2>1. Command(Cancelled(r), child'[r], tree'[r])
    BY <1>1, <1>2, <1>4, <1>6, <1>7 DEF Command, Claiming, Truthful
  <2> QED
    BY <1>4, <1>6, <1>7, <2>1, Running
<1>8. CASE Attach(r)
  <2>1. CASE job[r].heard
    BY <1>7, <1>8, <2>1 DEF Attach, Attached
  <2>2. CASE ~job[r].heard
    <3> DEFINE j == [job[r] EXCEPT !.pc = "ready"]
    <3>1. /\ j \in JobStates /\ j.pc = "ready" /\ j.run = job[r].run /\ j.emitted = job[r].emitted
          /\ j.exit = job[r].exit /\ j.heard = job[r].heard
      BY <1>1, Moved DEF Opened
    <3>2. job' = [job EXCEPT ![r] = j] /\ job[r].pc = "born" /\ UNCHANGED procs
      BY <1>8, <2>2 DEF Attach, Attached
    <3> HIDE DEF j
    <3>3. Command(j, child'[r], tree'[r])
      BY <1>1, <1>2, <1>4, <2>2, <3>1, <3>2 DEF Command, Claiming, Truthful
    <3> QED
      BY <1>4, <1>8, <3>1, <3>2, <3>3, Running DEF Attach
  <2> QED
    BY <2>1, <2>2
<1>9. CASE Reap(r)
  <2> DEFINE o == IF child[r] = "ok" THEN "completed" ELSE "failed"
             j == [job[r] EXCEPT !.pc = "reaped", !.claim.outcome = o]
  <2>1. /\ j \in JobStates /\ j.pc = "reaped" /\ j.run = job[r].run /\ j.emitted = job[r].emitted
        /\ j.exit = job[r].exit /\ j.claim.outcome = o /\ j.heard = job[r].heard
    BY <1>1 DEF JobStates, Opened, Claims, Outcomes
  <2>2. job' = [job EXCEPT ![r] = j] /\ job[r].pc = "ready" /\ UNCHANGED procs /\ child[r] # "running"
    BY <1>9 DEF Reap
  <2> HIDE DEF j
  <2>3. Command(j, child'[r], tree'[r])
    BY <1>1, <1>2, <1>4, <2>1, <2>2 DEF Command, Claiming, Truthful
  <2> QED
    BY <1>4, <1>9, <2>1, <2>2, <2>3, Running DEF Reap
<1>10. CASE Signal(r)
  <2>1. CASE job[r].pc \in {"ready", "reaped"}
    BY <1>7, <1>10, <2>1 DEF Signal
  <2>2. CASE job[r].pc \in {"spawn", "born"}
    <3> DEFINE j == [job[r] EXCEPT !.heard = TRUE]
    <3>1. /\ j \in JobStates /\ j.pc = job[r].pc /\ j.run = job[r].run /\ j.emitted = job[r].emitted
          /\ j.exit = job[r].exit /\ j.claim = job[r].claim
      BY <1>1 DEF JobStates
    <3>2. job' = [job EXCEPT ![r] = j] /\ UNCHANGED <<disk, db, procs, spool, flush, server, minted>>
      BY <1>10, <2>2 DEF Signal
    <3> HIDE DEF j
    <3>3. Command(j, child'[r], tree'[r])
      BY <1>1, <1>2, <1>4, <2>2, <3>1, <3>2 DEF Command, Claiming, Truthful
    <3> QED
      BY <1>4, <2>2, <3>1, <3>2, <3>3, Running
  <2> QED
    BY <1>10, <2>1, <2>2 DEF Signal
<1>11. CASE Unready(r)
  <2> DEFINE j == [job[r] EXCEPT !.pc = "stop"]
  <2>1. /\ j \in JobStates /\ j.pc = "stop" /\ j.run = job[r].run /\ j.emitted = job[r].emitted
        /\ j.exit = job[r].exit /\ j.heard = job[r].heard /\ j.claim = job[r].claim
    BY <1>1, Moved DEF Opened
  <2>2. job' = [job EXCEPT ![r] = j] /\ job[r].pc = "reaped" /\ UNCHANGED procs
    BY <1>11 DEF Unready
  <2> HIDE DEF j
  <2>3. Command(j, child'[r], tree'[r])
    BY <1>1, <1>2, <1>4, <2>1, <2>2 DEF Command, Claiming, Truthful
  <2> QED
    BY <1>4, <1>11, <2>1, <2>2, <2>3, Running DEF Unready
<1>12. CASE StopTree(r)
  <2> DEFINE j == [job[r] EXCEPT !.pc = "freeze"]
  <2>1. /\ j \in JobStates /\ j.pc = "freeze" /\ j.run = job[r].run /\ j.emitted = job[r].emitted
        /\ j.exit = job[r].exit /\ j.heard = job[r].heard /\ j.claim = job[r].claim
    BY <1>1, Moved DEF Opened
  <2>2. job' = [job EXCEPT ![r] = j] /\ job[r].pc = "stop"
    BY <1>12 DEF StopTree
  <2> HIDE DEF j
  <2>3. /\ child' \in [Launched -> {"none", "running", "ok", "broke"}] /\ tree' \in [Launched -> BOOLEAN]
        /\ child'[r] = (IF child[r] = "running" THEN "broke" ELSE child[r]) /\ ~tree'[r]
        /\ \A q \in Launched \ {r} : child'[q] = child[q] /\ tree'[q] = tree[q]
    BY <1>2, <1>12 DEF StopTree
  <2>4. Command(j, child'[r], tree'[r])
    BY <1>1, <1>2, <2>1, <2>2, <2>3 DEF Command, Claiming, Truthful, Truth
  <2> QED
    BY <1>12, <2>1, <2>2, <2>3, <2>4, Running DEF StopTree
<1> QED
  BY <1>3, <1>5, <1>8, <1>9, <1>10, <1>11, <1>12

\* The launcher is not yet done with its command when that ends.
LEMMA ChildEndsInv ==
  ASSUME CaptureInv, NEW r \in Launched, ChildEnds(r)
  PROVE  CaptureInv'
<1>1. r \in Jobs /\ job[r] \in JobStates /\ Command(job[r], child[r], tree[r])
  BY AtJob DEF Jobs
<1>2. PICK end \in {"ok", "broke"}, left \in BOOLEAN :
        child' = [child EXCEPT ![r] = end] /\ tree' = [tree EXCEPT ![r] = left]
  BY DEF ChildEnds
<1>3. /\ child[r] = "running" /\ UNCHANGED <<rec, contexts, db, job, spool, flush, wire, held, minted>>
  BY DEF ChildEnds, disk, server
<1>4. WorldTyped' /\ child'[r] = end /\ \A q \in Launched \ {r} : child'[q] = child[q] /\ tree'[q] = tree[q]
  BY <1>2, <1>3 DEF CaptureInv, Typed, WorldTyped
<1>5. Command(job[r], child'[r], tree'[r])
  BY <1>1, <1>3, <1>4 DEF Command, Truth
<1>6. Commands'
  BY <1>3, <1>4, <1>5 DEF CaptureInv, Commands
<1> QED
  BY <1>3, <1>4, <1>6 DEF CaptureInv, Typed, Locked, Filed, Places, Queues, Flushing, Copies

\* Where a launcher goes once its capture is frozen and delivery was tried.
LEMMA Further ==
  ASSUME CaptureInv, NEW r \in Launched, job[r].pc \in {"exiting", "enqueue", "queued"},
         NEW pc \in {"enqueue", "queued"}
  PROVE  LET j == [job[r] EXCEPT !.pc = pc]
         IN  /\ j \in JobStates /\ j.pc = pc
             /\ Place(r, j, rec, contexts) /\ Command(j, child[r], tree[r])
<1> DEFINE j == [job[r] EXCEPT !.pc = pc]
<1>1. /\ r \in Jobs /\ r \in Runs /\ job[r] \in JobStates
      /\ Place(r, job[r], rec, contexts) /\ Command(job[r], child[r], tree[r])
  BY CaptureAssumption, AtJob DEF Jobs
<1>2. /\ j \in JobStates /\ j.pc = pc /\ j.run = job[r].run /\ j.claim = job[r].claim /\ j.mode = job[r].mode
      /\ j.heard = job[r].heard /\ j.emitted = job[r].emitted /\ j.exit = job[r].exit
  BY <1>1, Moved DEF Opened
<1> HIDE DEF j
<1>3. Place(r, j, rec, contexts)
  BY <1>1, <1>2 DEF Place, Opened, Froze, Truthful
<1>4. Command(j, child[r], tree[r])
  BY <1>1, <1>2 DEF Command, Claiming, Truthful, Truth
<1> QED
  BY <1>2, <1>3, <1>4 DEF j

\* The spool file of a launcher that is about to have one is made or filled.
LEMMA Filling ==
  ASSUME CaptureInv, NEW r \in Launched, job[r].pc \in {"exiting", "enqueue"},
         NEW pc \in {"enqueue", "queued"}, Goto(r, pc), NEW s \in Files, s.file \in {"partial", "whole"},
         spool' = [spool EXCEPT ![r] = s], pc = "enqueue" => s.file = "partial",
         s.file = "whole" => s.envelope = rec[r].envelope,
         UNCHANGED <<disk, db, procs, flush, server, minted>>
  PROVE  CaptureInv'
<1> DEFINE j == [job[r] EXCEPT !.pc = pc]
<1>1. r \in Jobs /\ r \in Runs /\ Place(r, job[r], rec, contexts) /\ Queue(job[r], spool[r], rec[r]) /\ db # r
  BY CaptureAssumption, AtJob DEF Jobs
<1>2. j \in JobStates /\ j.pc = pc /\ Place(r, j, rec, contexts) /\ Command(j, child[r], tree[r])
  BY Further
<1>3. UNCHANGED <<rec, contexts, db, child, tree, flush, wire, held, minted>>
  BY DEF disk, procs, server
<1>4. job' = [job EXCEPT ![r] = j]
  BY DEF Goto
<1> HIDE DEF j
<1>5. WorldTyped' /\ spool'[r] = s /\ \A q \in Launched \ {r} : spool'[q] = spool[q]
  BY <1>3 DEF CaptureInv, Typed, WorldTyped
<1>6. IsFrozen(rec[r]) /\ spool[r].file \in {"none", "partial"}
  BY <1>1, AtJob DEF Place, Froze, Queue, CaptureInv, Typed, WorldTyped, Files
<1>7. Queue(j, spool'[r], rec'[r])
  BY <1>2, <1>3, <1>5, <1>6 DEF Queue
<1>8. Flushing'
  <2> SUFFICES ASSUME NEW f \in Flushers, flush[f].run # None
               PROVE  spool'[flush[f].run].file \in {"whole", "gone"}
    BY <1>3 DEF Flushing
  <2>1. spool[flush[f].run].file \in {"whole", "gone"} /\ flush[f].run \in Launched
    BY DEF CaptureInv, Typed, WorldTyped, Flushing
  <2> QED
    BY <1>5, <1>6, <2>1
<1>9. Filed' /\ Copies'
  BY <1>3, <1>5 DEF CaptureInv, Filed, Copies
<1>10. \A q \in Jobs \ {r} : Place(q, job[q], rec', contexts')
  BY <1>3 DEF CaptureInv, Places
<1>11. \A q \in Launched \ {r} : Command(job[q], child'[q], tree'[q]) /\ Queue(job[q], spool'[q], rec'[q])
  BY <1>3, <1>5 DEF CaptureInv, Commands, Queues
<1> QED
  BY <1>1, <1>2, <1>3, <1>4, <1>5, <1>7, <1>8, <1>9, <1>10, <1>11, CaptureStep

LEMMA QueueSteps ==
  ASSUME CaptureInv, NEW r \in Launched,
         Exit(r) \/ CreateFile(r) \/ WriteFile(r) \/ EnqueueFails(r)
  PROVE  CaptureInv'
<1>1. /\ r \in Jobs /\ r \in Runs /\ job[r] \in JobStates /\ Place(r, job[r], rec, contexts)
      /\ Command(job[r], child[r], tree[r]) /\ Queue(job[r], spool[r], rec[r])
  BY CaptureAssumption, AtJob DEF Jobs
<1>2. CASE Exit(r)
  <2> DEFINE j == [job[r] EXCEPT !.pc = "exit", !.exit = ExitCode(r)]
  <2>1. ExitCode(r) \in {"ok", "failed", "enforced"} /\ job[r].pc \in {"exiting", "queued"}
    BY <1>2 DEF Exit, ExitCode, At
  <2>2. job' = [job EXCEPT ![r] = j]
    BY <1>2, <2>1 DEF Exit, End, Ended
  <2>3. /\ j \in JobStates /\ j.pc = "exit" /\ j.run = job[r].run /\ j.claim = job[r].claim
        /\ j.mode = job[r].mode /\ j.heard = job[r].heard /\ j.emitted = job[r].emitted
        /\ j.exit = ExitCode(r)
    BY <1>1, <2>1 DEF JobStates, Truthful
  <2> HIDE DEF j
  <2>4. j.exit = "ok" => j.claim.outcome = "completed" /\ (j.mode = "enforce" => j.emitted)
    BY <2>3 DEF ExitCode, Undelivered
  <2>5. IsFrozen(rec[r]) /\ rec[r].claim.outcome = j.claim.outcome
    BY <1>1, <2>1, <2>3 DEF Place, Froze
  <2>6. Place(r, j, rec, contexts)
    BY <1>1, <2>1, <2>3, <2>4, <2>5 DEF Place, Opened, Froze
  <2>7. Command(j, child[r], tree[r])
    BY <1>1, <2>1, <2>3 DEF Command, Claiming, Truth
  <2>8. Queue(j, spool[r], rec[r])
    BY <1>1, <2>3 DEF Queue
  <2> QED
    BY <1>1, <1>2, <2>1, <2>2, <2>3, <2>6, <2>7, <2>8, Outside DEF Exit
<1>3. CASE CreateFile(r)
  <2>1. [file |-> "partial"] \in Files
    BY DEF Files
  <2> QED
    BY <1>3, <2>1, Filling DEF CreateFile, At
<1>4. CASE WriteFile(r)
  <2>1. IsFrozen(rec[r])
    BY <1>1, <1>4 DEF WriteFile, At, Place, Froze
  <2>2. [file |-> "whole", envelope |-> rec[r].envelope] \in Files
    BY <1>1, <2>1 DEF Files, IsFrozen, CaptureInv, Typed, WorldTyped, Records
  <2> QED
    BY <1>4, <2>2, Filling DEF WriteFile, At
<1>5. CASE EnqueueFails(r)
  <2> DEFINE j == [job[r] EXCEPT !.pc = "queued"]
  <2>1. j \in JobStates /\ j.pc = "queued" /\ Place(r, j, rec, contexts) /\ Command(j, child[r], tree[r])
    BY <1>5, Further DEF EnqueueFails, At
  <2>2. job' = [job EXCEPT ![r] = j] /\ job[r].pc \in {"exiting", "enqueue"}
    BY <1>5 DEF EnqueueFails, Goto, At
  <2> HIDE DEF j
  <2>3. Queue(j, spool[r], rec[r])
    BY <1>1, <2>1 DEF Queue
  <2> QED
    BY <1>1, <1>5, <2>1, <2>2, <2>3, Outside DEF EnqueueFails
<1> QED
  BY <1>2, <1>3, <1>4, <1>5

LEMMA LauncherInv ==
  ASSUME CaptureInv, NEW r \in Launched, Launcher(r)
  PROVE  CaptureInv'
BY LaunchInv, RunningSteps, ChildEndsInv, QueueSteps DEF Launcher

-----------------------------------------------------------------------------
(* Steps on a record.                                                      *)

\* A record once made stays, once frozen keeps its claim and its envelope, once
\* delivered stays so.
Grows(a, b) ==
  /\ a # None => b # None
  /\ IsFrozen(a) => /\ IsFrozen(b) /\ b.claim = a.claim /\ b.envelope = a.envelope
                    /\ a.state = "delivered" => b.state = "delivered"

\* No other process is inside a transaction, so what it knows survives.
LEMMA Others ==
  ASSUME CaptureInv, NEW p \in Jobs, db \in {None, p}, NEW rs, NEW cs,
         \A r \in Runs : Grows(rec[r], rs[r])
  PROVE  /\ \A q \in Jobs \ {p} : Place(q, job[q], rs, cs)
         /\ \A r \in Launched : \A j : Queue(j, spool[r], rec[r]) => Queue(j, spool[r], rs[r])
<1>1. ASSUME NEW q \in Jobs \ {p}
      PROVE  Place(q, job[q], rs, cs)
  <2>1. /\ job[q].pc \notin {"insert", "post"} /\ Place(q, job[q], rec, contexts)
        /\ q \in Launched => q \in Runs
    BY AtJob, Lock, CaptureAssumption
  <2>2. job[q].pc \in Opened => rs[job[q].run] # None
    BY <2>1 DEF Place, Grows, Opened
  <2>3. job[q].pc \in Froze => IsFrozen(rs[job[q].run])
    BY <2>1 DEF Place, Grows, Froze
  <2>4. q \in Launched /\ (job[q].pc \in Froze \/ job[q].exit \in Truthful) =>
          IsFrozen(rs[q]) /\ rs[q].claim.outcome = job[q].claim.outcome
    BY <2>1 DEF Place, Grows
  <2>5. job[q].emitted => q \in Launched /\ IsFrozen(rs[q]) /\ rs[q].state = "delivered"
    BY <2>1 DEF Place, Grows
  <2> QED
    BY <2>1, <2>2, <2>3, <2>4, <2>5 DEF Place
<1>2. \A r \in Launched : \A j : Queue(j, spool[r], rec[r]) => Queue(j, spool[r], rs[r])
  BY CaptureAssumption DEF Queue, Grows
<1> QED
  BY <1>1, <1>2

LEMMA RecordStep ==
  ASSUME CaptureInv, NEW p \in Jobs, NEW j \in JobStates, job' = [job EXCEPT ![p] = j],
         db \in {None, p}, db' \in {None, p}, UNCHANGED <<procs, spool, flush, server>>,
         rec' \in [Runs -> Records \cup {None}], contexts' \subseteq 1..minted', minted' \in 0..MaxIds,
         \A r \in Runs : Grows(rec[r], rec'[r]), Filed',
         \A r \in Runs : CopiesOf(rec'[r], wire[r], held[r]),
         j.pc \in {"insert", "post"} <=> db' = p,
         Place(p, j, rec', contexts'),
         p \in Launched => Command(j, child[p], tree[p]) /\ Queue(j, spool[p], rec[p])
  PROVE  CaptureInv'
<1>1. UNCHANGED <<child, tree, spool, flush, wire, held>>
  BY DEF procs, server
<1>2. WorldTyped' /\ Flushing' /\ Copies'
  BY <1>1, Lock DEF CaptureInv, Typed, WorldTyped, Flushing, Copies
<1>3. \A q \in Jobs \ {p} : Place(q, job[q], rec', contexts')
  BY Others
<1>4. p \in Launched => Command(j, child'[p], tree'[p]) /\ Queue(j, spool'[p], rec'[p])
  BY <1>1, Others
<1>5. \A r \in Launched \ {p} : Command(job[r], child'[r], tree'[r]) /\ Queue(job[r], spool'[r], rec'[r])
  BY <1>1, Others DEF CaptureInv, Commands, Queues
<1>6. \A q \in Jobs \ {p} : db' = q <=> db = q
  BY Lock
<1> QED
  BY <1>2, <1>3, <1>4, <1>5, <1>6, CaptureStep

LEMMA Same == \A a : Grows(a, a)
BY DEF Grows

LEMMA WriteContextInv ==
  ASSUME CaptureInv, NEW p \in Jobs, WriteContext(p)
  PROVE  CaptureInv'
<1> DEFINE j == [job[p] EXCEPT !.pc = "insert", !.cap = minted + 1]
<1>1. /\ job[p] \in JobStates /\ Place(p, job[p], rec, contexts) /\ job[p].pc = "begin"
      /\ p \in Launched => Command(job[p], child[p], tree[p]) /\ Queue(job[p], spool[p], rec[p])
  BY AtJob DEF WriteContext, At
<1>2. /\ rec \in [Runs -> Records \cup {None}] /\ contexts \subseteq 1..minted /\ minted \in 0..MaxIds /\ MaxIds \in Nat
      /\ minted < MaxIds /\ contexts' = contexts \cup {minted + 1} /\ minted' = minted + 1 /\ rec' = rec
      /\ rec[job[p].run] = None /\ db = None /\ db' = p
  BY CaptureAssumption DEF WriteContext, Written, CaptureInv, Typed, WorldTyped
<1>3. /\ j \in JobStates /\ j.pc = "insert" /\ j.run = job[p].run /\ j.claim = job[p].claim /\ j.cap = minted + 1
      /\ j.emitted = job[p].emitted /\ j.exit = job[p].exit /\ j.mode = job[p].mode
  <2>1. minted + 1 \in 0..MaxIds
    BY <1>2
  <2> QED
    BY <1>1, <2>1 DEF JobStates
<1>4. job' = [job EXCEPT ![p] = j]
  <2>1. job \in [Jobs -> JobStates]
    BY DEF CaptureInv, Typed
  <2> QED
    BY <1>2, <2>1 DEF WriteContext, JobStates
<1> HIDE DEF j
<1>5. \A r \in Runs : rec[r] # None => rec[r].cap \in contexts /\ rec[r].cap # minted + 1
  BY <1>2 DEF CaptureInv, Filed
<1>6. Filed' /\ \A r \in Runs : Grows(rec[r], rec'[r]) /\ CopiesOf(rec'[r], wire[r], held[r])
  BY <1>2, <1>5, Same DEF Filed, CaptureInv, Copies
<1>7. Place(p, j, rec', contexts')
  BY <1>1, <1>2, <1>3, <1>5 DEF Place, Opened, Froze, Truthful
<1>8. p \in Launched => Command(j, child[p], tree[p]) /\ Queue(j, spool[p], rec[p])
  <2>1. job[p].exit = "none"
    BY <1>1 DEF Place
  <2> QED
    BY <1>1, <1>3, <2>1 DEF Command, Claiming, Truthful, Queue
<1>9. contexts' \subseteq 1..minted' /\ minted' \in 0..MaxIds
  BY <1>2
<1> QED
  BY <1>2, <1>3, <1>4, <1>6, <1>7, <1>8, <1>9, RecordStep DEF WriteContext

LEMMA InsertInv ==
  ASSUME CaptureInv, NEW p \in Jobs, Insert(p)
  PROVE  CaptureInv'
<1> DEFINE r == job[p].run
           a == [cap |-> job[p].cap, state |-> "open"]
           j == IF p \in Launched THEN [job[p] EXCEPT !.pc = "spawn", !.cap = 0] ELSE Idle
<1>1. /\ job[p] \in JobStates /\ Place(p, job[p], rec, contexts) /\ job[p].pc = "insert" /\ db = p
      /\ p \in Launched => /\ Command(job[p], child[p], tree[p]) /\ Queue(job[p], spool[p], rec[p])
                           /\ p \in Runs
  BY AtJob, CaptureAssumption DEF Insert, At
<1>2. r \in Runs /\ rec[r] = None /\ job[p].cap \in contexts
  BY <1>1 DEF Place
<1>3. /\ rec \in [Runs -> Records \cup {None}] /\ contexts \subseteq 1..minted /\ minted \in 0..MaxIds
      /\ contexts' = contexts /\ minted' = minted /\ db' = None
  BY DEF Insert, CaptureInv, Typed, WorldTyped
<1>4. a \in Records /\ a # None
  <2>1. job[p].cap \in 1..minted
    BY <1>2, <1>3
  <2>2. job[p].cap \in 1..MaxIds
    BY <1>3, <2>1, CaptureAssumption
  <2> QED
    BY <2>2, NamesAssumption DEF Records
<1>5. rec' \in [Runs -> Records \cup {None}] /\ rec'[r] = a /\ \A q \in Runs \ {r} : rec'[q] = rec[q]
  BY <1>2, <1>3, <1>4 DEF Insert
<1>6. job' = [job EXCEPT ![p] = j]
  BY DEF Insert, CaptureInv, Typed
<1>7. /\ p \notin Launched => j = Idle
      /\ p \in Launched => /\ j.run = job[p].run /\ j.claim = job[p].claim /\ j.emitted = job[p].emitted
                           /\ j.pc = "spawn" /\ j.exit = job[p].exit
  BY <1>1 DEF JobStates
<1>8. j \in JobStates
  <2>1. 0 \in 0..MaxIds
    BY CaptureAssumption
  <2>2. p \in Launched => [job[p] EXCEPT !.pc = "spawn", !.cap = 0] \in JobStates
    BY <1>1, <2>1 DEF JobStates, Opened
  <2> QED
    BY <2>2, IdleJob
<1> HIDE DEF a, j
<1>9. ~IsFrozen(a) /\ a.cap = job[p].cap
  BY DEF a, IsFrozen
<1>10. \A q \in Runs : Grows(rec[q], rec'[q]) /\ CopiesOf(rec'[q], wire[q], held[q])
  <2>1. Grows(rec[r], rec'[r]) /\ CopiesOf(rec[r], wire[r], held[r])
    BY <1>2, <1>4, <1>5 DEF Grows, IsFrozen, CaptureInv, Copies
  <2>2. CopiesOf(rec'[r], wire[r], held[r])
    BY <1>2, <1>5, <1>9, <2>1 DEF CopiesOf, IsFrozen
  <2> QED
    BY <1>5, <2>1, <2>2, Same DEF CaptureInv, Copies
<1>11. Filed'
  BY <1>2, <1>3, <1>5, <1>9 DEF Filed, CaptureInv
<1>12. Place(p, j, rec', contexts')
  <2>1. CASE p \in Launched
    <3>1. job[p].exit = "none" /\ job[p].run = p /\ ~job[p].emitted
      BY <1>1, <1>2, <2>1 DEF Place, IsFrozen
    <3> QED
      BY <1>1, <1>4, <1>5, <1>7, <2>1, <3>1 DEF Place, Opened, Froze, Truthful
  <2>2. CASE p \notin Launched
    BY <1>7, <2>2, IdleJob DEF Place, Opened, Froze, Truthful
  <2> QED
    BY <2>1, <2>2
<1>13. p \in Launched => Command(j, child[p], tree[p]) /\ Queue(j, spool[p], rec[p])
  <2>1. job[p].exit = "none"
    BY <1>1 DEF Place
  <2> QED
    BY <1>1, <1>7, <2>1 DEF Command, Claiming, Truthful, Queue
<1>14. j.pc \notin {"insert", "post"}
  BY <1>7, IdleJob
<1> QED
  BY <1>1, <1>3, <1>5, <1>6, <1>8, <1>10, <1>11, <1>12, <1>13, <1>14, Lock, RecordStep DEF Insert

LEMMA InsertFailsInv ==
  ASSUME CaptureInv, NEW p \in Jobs, InsertFails(p)
  PROVE  CaptureInv'
<1> DEFINE j == Ended(p, "error")
<1>1. /\ Place(p, job[p], rec, contexts) /\ job[p].pc = "insert" /\ db = p
  BY AtJob DEF InsertFails, At
<1>2. /\ rec \in [Runs -> Records \cup {None}] /\ contexts \subseteq 1..minted /\ minted \in 0..MaxIds
      /\ contexts' = contexts \ {job[p].cap} /\ minted' = minted /\ db' = None /\ rec' = rec
  BY DEF InsertFails, RolledBack, CaptureInv, Typed, WorldTyped
<1>3. /\ j \in JobStates /\ j.pc \in {"idle", "exit"} /\ Place(p, j, rec', contexts')
      /\ p \in Launched => Command(j, child[p], tree[p]) /\ Queue(j, spool[p], rec[p])
  BY <1>2, EndJob
<1>4. job' = [job EXCEPT ![p] = j]
  BY DEF InsertFails, End
<1> HIDE DEF j
<1>5. Filed' /\ \A r \in Runs : Grows(rec[r], rec'[r]) /\ CopiesOf(rec'[r], wire[r], held[r])
  BY <1>1, <1>2, Same DEF Filed, CaptureInv, Copies, Place
<1>6. contexts' \subseteq 1..minted' /\ minted' \in 0..MaxIds
  BY <1>2
<1> QED
  BY <1>1, <1>2, <1>3, <1>4, <1>5, <1>6, Lock, RecordStep DEF InsertFails

\* A process whose capture is frozen with its claim goes on to deliver it, or
\* in mode off ends without.
LEMMA AfterFreezeJob ==
  ASSUME CaptureInv, NEW p \in Jobs, At(p, "freeze"), AfterFreeze(p), NEW rs, NEW cs,
         IsFrozen(rs[job[p].run]), p \in Launched => rs[p].claim.outcome = job[p].claim.outcome,
         \A r \in Runs : Grows(rec[r], rs[r])
  PROVE  \E j \in JobStates :
           /\ job' = [job EXCEPT ![p] = j] /\ j.pc \in {"deliver", "exiting"} /\ Place(p, j, rs, cs)
           /\ p \in Launched => Command(j, child[p], tree[p]) /\ Queue(j, spool[p], rec[p])
<1> DEFINE pc == IF p \in Launched /\ job[p].mode = "off" THEN "exiting" ELSE "deliver"
           j == [job[p] EXCEPT !.pc = pc]
<1>1. /\ job[p] \in JobStates /\ Place(p, job[p], rec, contexts) /\ job[p].pc = "freeze"
      /\ p \in Launched => /\ Command(job[p], child[p], tree[p]) /\ Queue(job[p], spool[p], rec[p])
                           /\ p \in Runs
  BY AtJob, CaptureAssumption DEF At
<1>2. pc \in {"deliver", "exiting"} /\ (pc = "exiting" => p \in Launched)
  OBVIOUS
<1>3. job' = [job EXCEPT ![p] = j]
  BY DEF AfterFreeze, Goto
<1> HIDE DEF pc
<1>4. /\ j \in JobStates /\ j.pc = pc /\ j.run = job[p].run /\ j.claim = job[p].claim /\ j.mode = job[p].mode
      /\ j.heard = job[p].heard /\ j.emitted = job[p].emitted /\ j.exit = job[p].exit
  BY <1>1, <1>2, Moved DEF Opened
<1> HIDE DEF j
<1>5. j.exit = "none" /\ job[p].run \in Runs /\ (p \in Launched => job[p].run = p)
  BY <1>1, <1>4 DEF Place
<1>6. j.emitted => p \in Launched /\ IsFrozen(rs[p]) /\ rs[p].state = "delivered"
  BY <1>1, <1>4 DEF Place, Grows
<1>7. Place(p, j, rs, cs)
  BY <1>1, <1>2, <1>4, <1>5, <1>6 DEF Place, Opened, Froze, Truthful, IsFrozen
<1>8. p \in Launched => Command(j, child[p], tree[p]) /\ Queue(j, spool[p], rec[p])
  BY <1>1, <1>2, <1>4 DEF Command, Claiming, Truth, Queue
<1> QED
  BY <1>2, <1>3, <1>4, <1>7, <1>8

LEMMA FreezeInv ==
  ASSUME CaptureInv, NEW p \in Jobs, Freeze(p)
  PROVE  CaptureInv'
<1> DEFINE r == job[p].run
           a == [cap |-> rec[r].cap, state |-> "pending", claim |-> job[p].claim,
                 envelope |-> [outcome |-> job[p].claim.outcome, event |-> minted + 1]]
<1>1. /\ job[p] \in JobStates /\ Place(p, job[p], rec, contexts) /\ job[p].pc = "freeze"
      /\ p \in Launched => p \in Runs
  BY AtJob, CaptureAssumption DEF Freeze, At
<1>2. r \in Runs /\ rec[r] # None /\ rec[r].state = "open"
  BY <1>1 DEF Place, Freeze, MayFreeze, Open
<1>3. /\ rec \in [Runs -> Records \cup {None}] /\ contexts \subseteq 1..minted /\ minted \in 0..MaxIds
      /\ contexts' = contexts /\ minted' = minted + 1 /\ db = None /\ db' = None /\ minted < MaxIds
      /\ rec' = [rec EXCEPT ![r] = a]
  BY DEF Freeze, CaptureInv, Typed, WorldTyped
<1>4. minted + 1 \in 1..MaxIds /\ contexts' \subseteq 1..minted' /\ minted' \in 0..MaxIds
  BY <1>3, CaptureAssumption
<1>5. rec[r].cap \in 1..MaxIds /\ rec[r].cap \in contexts
  BY <1>2, <1>3 DEF Records, CaptureInv, Filed
<1>6. job[p].claim \in Claims
  BY <1>1 DEF JobStates
<1>7. a \in Records
  BY <1>4, <1>5, <1>6 DEF Records, Envelopes, Claims
<1>8. a # None /\ IsFrozen(a) /\ a.claim = job[p].claim /\ a.cap = rec[r].cap /\ a.state = "pending"
  BY <1>7, NamesAssumption DEF IsFrozen
<1> HIDE DEF a
<1>9. rec' \in [Runs -> Records \cup {None}] /\ rec'[r] = a /\ \A q \in Runs \ {r} : rec'[q] = rec[q]
  BY <1>2, <1>3, <1>7
<1>10. \A q \in Runs : Grows(rec[q], rec'[q]) /\ CopiesOf(rec'[q], wire[q], held[q])
  <2>1. Grows(rec[r], rec'[r]) /\ CopiesOf(rec[r], wire[r], held[r])
    BY <1>2, <1>8, <1>9 DEF Grows, IsFrozen, CaptureInv, Copies
  <2>2. CopiesOf(rec'[r], wire[r], held[r])
    BY <1>2, <1>8, <1>9, <2>1 DEF CopiesOf, IsFrozen
  <2> QED
    BY <1>9, <2>1, <2>2, Same DEF CaptureInv, Copies
<1>11. Filed'
  BY <1>3, <1>5, <1>8, <1>9 DEF Filed, CaptureInv
<1>12. p \in Launched => rec'[p].claim.outcome = job[p].claim.outcome
  BY <1>1, <1>8, <1>9 DEF Place
<1>13. PICK j \in JobStates :
         /\ job' = [job EXCEPT ![p] = j] /\ j.pc \in {"deliver", "exiting"} /\ Place(p, j, rec', contexts')
         /\ p \in Launched => Command(j, child[p], tree[p]) /\ Queue(j, spool[p], rec[p])
  BY <1>8, <1>9, <1>10, <1>12, AfterFreezeJob DEF Freeze
<1> QED
  BY <1>3, <1>4, <1>9, <1>10, <1>11, <1>13, Lock, RecordStep DEF Freeze

LEMMA FreezeAgainInv ==
  ASSUME CaptureInv, NEW p \in Jobs, FreezeAgain(p)
  PROVE  CaptureInv'
<1>1. /\ Place(p, job[p], rec, contexts) /\ job[p].pc = "freeze"
  BY AtJob DEF FreezeAgain, At
<1>2. IsFrozen(rec[job[p].run]) /\ (p \in Launched => rec[p].claim.outcome = job[p].claim.outcome)
  BY <1>1 DEF FreezeAgain, Frozen, IsFrozen, SameOutcome, Place
<1>3. \E j \in JobStates :
         /\ job' = [job EXCEPT ![p] = j] /\ j.pc \in {"deliver", "exiting"} /\ Place(p, j, rec, contexts)
         /\ p \in Launched => Command(j, child[p], tree[p]) /\ Queue(j, spool[p], rec[p])
  BY <1>2, AfterFreezeJob, Same DEF FreezeAgain
<1> QED
  BY <1>1, <1>3, Outside DEF FreezeAgain

-----------------------------------------------------------------------------
(* Delivery.                                                               *)

\* A process that is done with delivery, whatever it reports.
LEMMA ToldJob ==
  ASSUME CaptureInv, NEW p \in Jobs, job[p].pc \in {"deliver", "post"}, NEW emitted \in BOOLEAN, NEW rs, NEW cs,
         \A r \in Runs : Grows(rec[r], rs[r]), emitted => rs[job[p].run].state = "delivered"
  PROVE  LET j == Told(p, emitted)
         IN  /\ j \in JobStates /\ j.pc \in {"idle", "exiting"} /\ Place(p, j, rs, cs)
             /\ p \in Launched => Command(j, child[p], tree[p]) /\ Queue(j, spool[p], rec[p])
<1>1. /\ job[p] \in JobStates /\ Place(p, job[p], rec, contexts)
      /\ p \in Launched => /\ Command(job[p], child[p], tree[p]) /\ Queue(job[p], spool[p], rec[p])
                           /\ p \in Runs
  BY AtJob, CaptureAssumption
<1>2. CASE p \notin Launched
  BY <1>2, IdleJob DEF Told, Place, Opened, Froze, Truthful
<1>3. CASE p \in Launched
  <2> DEFINE j == [job[p] EXCEPT !.pc = "exiting", !.emitted = emitted]
  <2>1. /\ j \in JobStates /\ j.pc = "exiting" /\ j.run = job[p].run /\ j.claim = job[p].claim
        /\ j.mode = job[p].mode /\ j.heard = job[p].heard /\ j.emitted = emitted /\ j.exit = job[p].exit
    BY <1>1 DEF JobStates, Opened
  <2> HIDE DEF j
  <2>2. job[p].run = p /\ j.exit = "none"
    BY <1>1, <1>3, <2>1 DEF Place
  <2>3. IsFrozen(rec[p]) /\ rec[p].claim.outcome = j.claim.outcome
    BY <1>1, <1>3, <2>1, <2>2 DEF Place, Froze
  <2>4. IsFrozen(rs[p]) /\ rs[p].claim.outcome = j.claim.outcome
    BY <1>1, <1>3, <2>3 DEF Grows
  <2>5. Place(p, j, rs, cs)
    BY <1>1, <1>3, <2>1, <2>2, <2>4 DEF Place, Opened, Froze, Truthful, IsFrozen
  <2>6. Command(j, child[p], tree[p]) /\ Queue(j, spool[p], rec[p])
    BY <1>1, <1>3, <2>1 DEF Command, Claiming, Truth, Queue
  <2> QED
    BY <1>3, <2>1, <2>5, <2>6 DEF Told, j
<1> QED
  BY <1>2, <1>3

LEMMA DeliverSteps ==
  ASSUME CaptureInv, NEW p \in Jobs, DeliverNothing(p) \/ Deliver(p) \/ PostFails(p)
  PROVE  CaptureInv'
<1>1. /\ job[p] \in JobStates /\ Place(p, job[p], rec, contexts)
      /\ job[p].pc \in {"insert", "post"} <=> db = p
      /\ p \in Launched => Command(job[p], child[p], tree[p]) /\ Queue(job[p], spool[p], rec[p])
  BY AtJob
<1>2. \A r \in Runs : Grows(rec[r], rec[r])
  BY Same
<1>3. CASE DeliverNothing(p)
  <2>1. job[p].pc = "deliver" /\ rec[job[p].run].state = "delivered" /\ job' = [job EXCEPT ![p] = Told(p, TRUE)]
    BY <1>3 DEF DeliverNothing, At
  <2>2. /\ Told(p, TRUE) \in JobStates /\ Told(p, TRUE).pc \in {"idle", "exiting"} /\ Place(p, Told(p, TRUE), rec, contexts)
        /\ p \in Launched => Command(Told(p, TRUE), child[p], tree[p]) /\ Queue(Told(p, TRUE), spool[p], rec[p])
    BY <1>2, <2>1, ToldJob
  <2> QED
    BY <1>3, <2>1, <2>2, Outside DEF DeliverNothing
<1>4. CASE Deliver(p)
  <2> DEFINE j == [job[p] EXCEPT !.pc = "post"]
  <2>1. /\ j \in JobStates /\ j.pc = "post" /\ j.run = job[p].run /\ j.claim = job[p].claim /\ j.mode = job[p].mode
        /\ j.heard = job[p].heard /\ j.emitted = job[p].emitted /\ j.exit = job[p].exit
    BY <1>1, Moved DEF Opened
  <2>2. /\ job[p].pc = "deliver" /\ db = None /\ db' = p /\ job' = [job EXCEPT ![p] = j]
        /\ UNCHANGED <<disk, procs, spool, flush, server, minted>>
    BY <1>4 DEF Deliver, At, Goto
  <2> HIDE DEF j
  <2>3. Place(p, j, rec, contexts)
    BY <1>1, <2>1, <2>2 DEF Place, Opened, Froze, Truthful
  <2>4. p \in Launched => Command(j, child[p], tree[p]) /\ Queue(j, spool[p], rec[p])
    BY <1>1, <2>1, <2>2 DEF Command, Claiming, Truth, Queue
  <2> QED
    BY <2>1, <2>2, <2>3, <2>4, Lock, JobStep
<1>5. CASE PostFails(p)
  <2>1. /\ job[p].pc = "post" /\ db = p /\ db' = None /\ rec' = rec /\ job' = [job EXCEPT ![p] = Told(p, FALSE)]
        /\ UNCHANGED <<disk, procs, spool, flush, server, minted>>
    BY <1>1, <1>5 DEF PostFails, FailedAttempt, At, disk
  <2>2. /\ Told(p, FALSE) \in JobStates /\ Told(p, FALSE).pc \in {"idle", "exiting"} /\ Place(p, Told(p, FALSE), rec, contexts)
        /\ p \in Launched => Command(Told(p, FALSE), child[p], tree[p]) /\ Queue(Told(p, FALSE), spool[p], rec[p])
    BY <1>2, <2>1, ToldJob
  <2> QED
    BY <2>1, <2>2, Lock, JobStep
<1> QED
  BY <1>3, <1>4, <1>5

LEMMA PostSucceedsInv ==
  ASSUME CaptureInv, NEW p \in Jobs, PostSucceeds(p)
  PROVE  CaptureInv'
<1> DEFINE r == job[p].run
           a == [rec[r] EXCEPT !.state = "delivered"]
<1>1. /\ job[p] \in JobStates /\ Place(p, job[p], rec, contexts) /\ job[p].pc = "post" /\ db = p
  BY AtJob DEF PostSucceeds, At
<1>2. r \in Runs /\ IsFrozen(rec[r]) /\ rec[r].envelope \in held[r]
  BY <1>1 DEF Place, Froze, PostSucceeds, Receipt
<1>3. /\ rec \in [Runs -> Records \cup {None}] /\ contexts \subseteq 1..minted /\ minted \in 0..MaxIds
      /\ contexts' = contexts /\ minted' = minted /\ db' = None
      /\ rec' = [rec EXCEPT ![r] = a] /\ job' = [job EXCEPT ![p] = Told(p, TRUE)]
  BY DEF PostSucceeds, CaptureInv, Typed, WorldTyped
<1>4. /\ a \in Records /\ a.state = "delivered" /\ a.claim = rec[r].claim /\ a.envelope = rec[r].envelope
      /\ a.cap = rec[r].cap
  BY <1>2, <1>3 DEF IsFrozen, Records
<1>5. a # None /\ IsFrozen(a)
  BY <1>4, NamesAssumption DEF IsFrozen
<1> HIDE DEF a
<1>6. rec' \in [Runs -> Records \cup {None}] /\ rec'[r] = a /\ \A q \in Runs \ {r} : rec'[q] = rec[q]
  BY <1>2, <1>3, <1>4
<1>7. \A q \in Runs : Grows(rec[q], rec'[q]) /\ CopiesOf(rec'[q], wire[q], held[q])
  <2>1. Grows(rec[r], rec'[r]) /\ CopiesOf(rec[r], wire[r], held[r])
    BY <1>2, <1>4, <1>5, <1>6 DEF Grows, CaptureInv, Copies
  <2>2. CopiesOf(rec'[r], wire[r], held[r])
    BY <1>2, <1>4, <1>5, <1>6, <2>1 DEF CopiesOf
  <2> QED
    BY <1>6, <2>1, <2>2, Same DEF CaptureInv, Copies
<1>8. Filed'
  BY <1>2, <1>3, <1>4, <1>6 DEF Filed, CaptureInv, IsFrozen
<1>9. /\ Told(p, TRUE) \in JobStates /\ Told(p, TRUE).pc \in {"idle", "exiting"} /\ Place(p, Told(p, TRUE), rec', contexts')
      /\ p \in Launched => Command(Told(p, TRUE), child[p], tree[p]) /\ Queue(Told(p, TRUE), spool[p], rec[p])
  BY <1>1, <1>4, <1>6, <1>7, ToldJob
<1> QED
  BY <1>1, <1>3, <1>6, <1>7, <1>8, <1>9, Lock, RecordStep DEF PostSucceeds

-----------------------------------------------------------------------------
(* The wire and the spool.                                                 *)

\* The frozen envelope of a run is sent, by whoever.
LEMMA Sent ==
  ASSUME CaptureInv, NEW r \in Runs, IsFrozen(rec[r]),
         wire' = [wire EXCEPT ![r] = @ \cup {rec[r].envelope}],
         UNCHANGED <<disk, db, job, procs, spool, flush, held, minted>>
  PROVE  CaptureInv'
<1>1. UNCHANGED <<rec, contexts, child, tree, spool, flush, held, minted, job, db>>
  BY DEF disk, procs
<1>2. rec[r].envelope \in Envelopes /\ wire \in [Runs -> SUBSET Envelopes]
  BY DEF IsFrozen, CaptureInv, Typed, WorldTyped, Records
<1>3. /\ wire' \in [Runs -> SUBSET Envelopes] /\ wire'[r] = wire[r] \cup {rec[r].envelope}
      /\ \A q \in Runs \ {r} : wire'[q] = wire[q]
  BY <1>2
<1>4. CopiesOf(rec[r], wire[r] \cup {rec[r].envelope}, held[r])
  BY DEF CopiesOf, CaptureInv, Copies
<1>5. Copies'
  BY <1>1, <1>3, <1>4 DEF CaptureInv, Copies
<1>6. Typed'
  BY <1>1, <1>3 DEF CaptureInv, Typed, WorldTyped
<1> QED
  BY <1>1, <1>5, <1>6 DEF CaptureInv, Locked, Filed, Places, Commands, Queues, Flushing

LEMMA PostInv ==
  ASSUME CaptureInv, NEW p \in Jobs, Post(p)
  PROVE  CaptureInv'
<1>1. job[p].run \in Runs /\ IsFrozen(rec[job[p].run])
  BY AtJob DEF Post, At, Place, Froze
<1> QED
  BY <1>1, Sent DEF Post

LEMMA TakeInv ==
  ASSUME CaptureInv, NEW r \in Runs, Take(r)
  PROVE  CaptureInv'
<1>1. PICK e \in wire[r] \ held[r] : held' = [held EXCEPT ![r] = @ \cup {e}]
  BY DEF Take
<1>2. UNCHANGED <<rec, contexts, child, tree, spool, flush, wire, minted, job, db>>
  BY DEF Take, disk, procs
<1>3. /\ held \in [Runs -> SUBSET Envelopes] /\ wire \in [Runs -> SUBSET Envelopes]
  BY DEF CaptureInv, Typed, WorldTyped
<1>4. /\ held' \in [Runs -> SUBSET Envelopes] /\ held'[r] = held[r] \cup {e}
      /\ \A q \in Runs \ {r} : held'[q] = held[q]
  BY <1>1, <1>3
<1>5. CopiesOf(rec[r], wire[r], held[r] \cup {e})
  BY DEF CopiesOf, CaptureInv, Copies
<1>6. \A q \in Launched : spool[q].file = "gone" => spool[q].envelope \in held'[q]
  BY <1>4, CaptureAssumption DEF CaptureInv, Copies
<1>7. Copies'
  BY <1>2, <1>4, <1>5, <1>6 DEF CaptureInv, Copies
<1>8. Typed'
  BY <1>2, <1>4 DEF CaptureInv, Typed, WorldTyped
<1> QED
  BY <1>2, <1>7, <1>8 DEF CaptureInv, Locked, Filed, Places, Commands, Queues, Flushing

\* A file that a flusher has read is whole until it is unlinked, and stays
\* readable to it after that: the bytes are in its memory.
LEMMA FlusherInv ==
  ASSUME CaptureInv, NEW f \in Flushers, Flusher(f)
  PROVE  CaptureInv'
<1>1. flush \in [Flushers -> [todo : SUBSET Launched, run : Launched \cup {None}]]
  BY DEF CaptureInv, Typed, WorldTyped
<1>2. ASSUME NEW w \in [todo : SUBSET Launched, run : Launched \cup {None}], flush' = [flush EXCEPT ![f] = w],
             w.run # None => spool[w.run].file \in {"whole", "gone"},
             UNCHANGED <<disk, db, job, procs, spool, server, minted>>
      PROVE  CaptureInv'
  <2>1. UNCHANGED <<rec, contexts, child, tree, spool, wire, held, minted, job, db>>
    BY <1>2 DEF disk, procs, server
  <2>2. /\ flush' \in [Flushers -> [todo : SUBSET Launched, run : Launched \cup {None}]]
        /\ flush'[f] = w /\ \A g \in Flushers \ {f} : flush'[g] = flush[g]
    BY <1>1, <1>2
  <2>3. Typed' /\ Flushing'
    BY <1>2, <2>1, <2>2 DEF CaptureInv, Typed, WorldTyped, Flushing
  <2> QED
    BY <2>1, <2>3 DEF CaptureInv, Locked, Filed, Places, Commands, Queues, Copies
<1>3. CASE StartFlush(f)
  <2> DEFINE w == [flush[f] EXCEPT !.todo = Listed]
  <2>1. w \in [todo : SUBSET Launched, run : Launched \cup {None}] /\ w.run = flush[f].run
    BY <1>1 DEF Listed
  <2>2. flush' = [flush EXCEPT ![f] = w] /\ flush[f].run = None
    BY <1>3 DEF StartFlush
  <2> HIDE DEF w
  <2> QED
    BY <1>2, <1>3, <2>1, <2>2 DEF StartFlush
<1>4. ASSUME NEW r \in Launched, ReadFile(f, r) PROVE CaptureInv'
  <2> DEFINE w == [todo |-> flush[f].todo \ {r}, run |-> IF spool[r].file = "whole" THEN r ELSE None]
  <2>1. w \in [todo : SUBSET Launched, run : Launched \cup {None}]
    BY <1>1
  <2>2. flush' = [flush EXCEPT ![f] = w]
    BY <1>1, <1>4 DEF ReadFile
  <2>3. w.run # None => spool[w.run].file \in {"whole", "gone"}
    OBVIOUS
  <2> HIDE DEF w
  <2> QED
    BY <1>2, <1>4, <2>1, <2>2, <2>3 DEF ReadFile
<1>5. CASE FlushPost(f)
  <2>1. flush[f].run \in Launched /\ flush[f].run \in Runs
    BY <1>1, <1>5, CaptureAssumption DEF FlushPost
  <2>2. spool[flush[f].run].file \in {"whole", "gone"}
    BY <1>5 DEF FlushPost, CaptureInv, Flushing
  <2>3. IsFrozen(rec[flush[f].run]) /\ spool[flush[f].run].envelope = rec[flush[f].run].envelope
    BY <2>1, <2>2 DEF CaptureInv, Queues, Queue
  <2> QED
    BY <1>5, <2>1, <2>3, Sent DEF FlushPost
<1>6. CASE Unlink(f)
  <2> DEFINE r == flush[f].run
             s == [file |-> "gone", envelope |-> spool[r].envelope]
             w == [flush[f] EXCEPT !.run = None]
  <2>1. r \in Launched /\ r \in Runs /\ spool[r].file = "whole" /\ spool[r].envelope \in held[r]
    BY <1>1, <1>6, CaptureAssumption DEF Unlink, MayUnlink, Receipt
  <2>2. UNCHANGED <<rec, contexts, child, tree, wire, held, minted, job, db>>
    BY <1>6 DEF Unlink, disk, procs, server
  <2>3. spool \in [Launched -> Files] /\ spool[r].envelope \in Envelopes
    BY <2>1 DEF CaptureInv, Typed, WorldTyped, Files
  <2>4. s \in Files /\ s.file = "gone" /\ s.envelope = spool[r].envelope
    BY <2>3 DEF Files
  <2>5. w \in [todo : SUBSET Launched, run : Launched \cup {None}] /\ w.run = None
    BY <1>1
  <2>6. spool' = [spool EXCEPT ![r] = s] /\ flush' = [flush EXCEPT ![f] = w]
    BY <1>1, <1>6, <2>1, <2>3 DEF Unlink
  <2> HIDE DEF s, w
  <2>7. spool' \in [Launched -> Files] /\ spool'[r] = s /\ \A q \in Launched \ {r} : spool'[q] = spool[q]
    BY <2>1, <2>3, <2>4, <2>6
  <2>8. /\ flush' \in [Flushers -> [todo : SUBSET Launched, run : Launched \cup {None}]]
        /\ flush'[f] = w /\ \A g \in Flushers \ {f} : flush'[g] = flush[g]
    BY <1>1, <2>5, <2>6
  <2>9. Typed'
    BY <2>2, <2>7, <2>8 DEF CaptureInv, Typed, WorldTyped
  <2>10. Queue(job[r], spool'[r], rec[r])
    BY <2>1, <2>4, <2>7 DEF CaptureInv, Queues, Queue
  <2>11. Queues'
    BY <2>2, <2>7, <2>10 DEF CaptureInv, Queues
  <2>12. \A q \in Launched : spool[q].file \in {"whole", "gone"} => spool'[q].file \in {"whole", "gone"}
    BY <2>4, <2>7
  <2>13. Flushing'
    <3> SUFFICES ASSUME NEW g \in Flushers, flush'[g].run # None
                 PROVE  spool'[flush'[g].run].file \in {"whole", "gone"}
      BY DEF Flushing
    <3>1. g # f /\ flush'[g] = flush[g] /\ flush[g].run \in Launched
      BY <1>1, <2>5, <2>8
    <3> QED
      BY <2>12, <3>1 DEF CaptureInv, Flushing
  <2>14. Copies'
    BY <2>1, <2>2, <2>4, <2>7 DEF CaptureInv, Copies
  <2> QED
    BY <2>2, <2>9, <2>11, <2>13, <2>14 DEF CaptureInv, Locked, Filed, Places, Commands
<1>7. CASE FlushFails(f)
  <2>1. PICK todo \in {flush[f].todo, {}} : flush' = [flush EXCEPT ![f] = [todo |-> todo, run |-> None]]
    BY <1>7 DEF FlushFails
  <2> DEFINE w == [todo |-> todo, run |-> None]
  <2>2. w \in [todo : SUBSET Launched, run : Launched \cup {None}] /\ w.run = None
    BY <1>1
  <2> HIDE DEF w
  <2> QED
    BY <1>2, <1>7, <2>1, <2>2 DEF FlushFails, w
<1> QED
  BY <1>3, <1>4, <1>5, <1>6, <1>7 DEF Flusher

-----------------------------------------------------------------------------
(* The theorems.                                                           *)

LEMMA ProcessInv ==
  ASSUME CaptureInv, NEW p \in Jobs, Process(p)
  PROVE  CaptureInv'
BY Endings, WriteContextInv, InsertInv, InsertFailsInv, FreezeInv, FreezeAgainInv, DeliverSteps, PostInv,
   PostSucceedsInv DEF Process

LEMMA CaptureInvStep == CaptureInv /\ [Next]_vars => CaptureInv'
<1> SUFFICES ASSUME CaptureInv, [Next]_vars PROVE CaptureInv'
  OBVIOUS
<1>1. CASE UNCHANGED vars
  BY <1>1 DEF CaptureInv, Typed, WorldTyped, Locked, Filed, Places, Commands, Queues, Flushing, Copies,
              vars, disk, procs, server
<1>2. ASSUME NEW o \in Operators, Operator(o) PROVE CaptureInv'
  BY <1>2, AskInv DEF Operator
<1> QED
  BY <1>1, <1>2, LauncherInv, ProcessInv, FlusherInv, TakeInv DEF Next

THEOREM CaptureInvariant == Spec => []CaptureInv
BY CaptureInitInv, CaptureInvStep, PTL DEF Spec

\* Types, every record has its context file, and the write lock is with exactly
\* the process that is between the two steps of begin or inside delivery.
THEOREM CaptureTypeCorrect == Spec => []TypeOK
<1>1. CaptureInv => TypeOK
  <2> SUFFICES ASSUME CaptureInv PROVE TypeOK
    OBVIOUS
  <2>1. contexts \subseteq 1..MaxIds
    <3>1. contexts \subseteq 1..minted /\ minted \in 0..MaxIds
      BY DEF CaptureInv, Typed, WorldTyped
    <3> QED
      BY <3>1, CaptureAssumption
  <2>2. \A p \in Jobs : job[p].pc # "idle" => job[p].run \in Runs
    BY DEF CaptureInv, Places, Place
  <2>3. \A r \in Launched : spool[r].file \in {"none", "partial", "whole", "gone"}
    BY DEF CaptureInv, Typed, WorldTyped, Files
  <2> QED
    BY <2>1, <2>2, <2>3 DEF CaptureInv, Typed, WorldTyped, Locked, Filed, TypeOK
<1> QED
  BY <1>1, CaptureInvariant, PTL

\* Every copy of a terminal envelope, on the wire or in the spool, is the one
\* frozen in the record: finish, retry and flush never give a run a second
\* event identity, whatever is repeated and whoever dies.
THEOREM CaptureOneEnvelope == Spec => []OneEnvelope
<1>1. CaptureInv => OneEnvelope
  <2> SUFFICES ASSUME CaptureInv, NEW r \in Runs
               PROVE  /\ wire[r] \subseteq (IF Frozen(r) THEN {rec[r].envelope} ELSE {})
                      /\ r \in Launched => \/ spool[r].file \in {"none", "partial"}
                                           \/ Frozen(r) /\ spool[r].envelope = rec[r].envelope
    BY DEF OneEnvelope
  <2>1. wire[r] \subseteq (IF Frozen(r) THEN {rec[r].envelope} ELSE {})
    BY DEF CaptureInv, Copies, CopiesOf, Frozen, IsFrozen
  <2>2. r \in Launched => spool[r].file \in {"none", "partial", "whole", "gone"}
    BY DEF CaptureInv, Typed, WorldTyped, Files
  <2> QED
    BY <2>1, <2>2 DEF CaptureInv, Queues, Queue, Frozen, IsFrozen
<1> QED
  BY <1>1, CaptureInvariant, PTL

\* A launcher that exits with 0 has run its command to its own successful end,
\* left it frozen as completed and, under `enforce', delivered to the server.
THEOREM CaptureExitTruth == Spec => []ExitTruth
<1>1. CaptureInv => ExitTruth
  <2> SUFFICES ASSUME CaptureInv, NEW r \in Launched, job[r].exit = "ok"
               PROVE  /\ child[r] = "ok"
                      /\ Frozen(r) /\ rec[r].claim.outcome = "completed"
                      /\ job[r].mode = "enforce" => rec[r].state = "delivered" /\ rec[r].envelope \in held[r]
    BY DEF ExitTruth
  <2>1. r \in Jobs /\ r \in Runs
    BY CaptureAssumption DEF Jobs
  <2>2. Place(r, job[r], rec, contexts) /\ Command(job[r], child[r], tree[r])
    BY <2>1, AtJob
  <2>3. /\ IsFrozen(rec[r]) /\ rec[r].claim.outcome = "completed"
        /\ job[r].mode = "enforce" => rec[r].state = "delivered"
    BY <2>2 DEF Place, Truthful
  <2>4. child[r] = "ok"
    BY <2>2 DEF Place, Command, Truth, Truthful
  <2>5. CopiesOf(rec[r], wire[r], held[r])
    BY <2>1 DEF CaptureInv, Copies
  <2> QED
    BY <2>3, <2>4, <2>5 DEF CopiesOf, Frozen, IsFrozen
<1> QED
  BY <1>1, CaptureInvariant, PTL

\* What a launcher claims is what happened to its command, and no process of
\* the command's group is left when it claims it.
THEOREM CaptureOutcomeTruth == Spec => []OutcomeTruth
<1>1. CaptureInv => OutcomeTruth
  BY DEF CaptureInv, Commands, Command, Truth, Truthful, OutcomeTruth
<1> QED
  BY <1>1, CaptureInvariant, PTL

\* A spool file goes only when the server has its envelope.
THEOREM CaptureSpoolKeeps == Spec => []SpoolKeeps
<1>1. CaptureInv => SpoolKeeps
  BY DEF CaptureInv, Copies, SpoolKeeps
<1> QED
  BY <1>1, CaptureInvariant, PTL

-----------------------------------------------------------------------------
(* The refinement.                                                         *)

PendingEnvelope ==
  [r \in Runs |-> IF Frozen(r) /\ rec[r].state = "pending" THEN rec[r].envelope ELSE None]
DeliveredEnvelope ==
  [r \in Runs |-> IF Frozen(r) /\ rec[r].state = "delivered" THEN rec[r].envelope ELSE None]
Any(envelopes) == CHOOSE envelope \in envelopes : TRUE
HeldEnvelope == [r \in Runs |-> IF held[r] = {} THEN None ELSE Any(held[r])]

\* Only these actions touch the records or what the server has.
LEMMA RecordActions ==
  ASSUME Next
  PROVE  \/ UNCHANGED <<rec, held>>
         \/ \E p \in Jobs : Insert(p) \/ Freeze(p) \/ PostSucceeds(p)
         \/ \E r \in Runs : Take(r)
<1> USE DEF disk, server
<1>1. ASSUME NEW r \in Launched, Launcher(r) PROVE UNCHANGED <<rec, held>>
  BY <1>1 DEF Launcher, Launch, Spawn, SpawnFails, Attach, Reap, Signal, Unready, StopTree, ChildEnds,
              Exit, CreateFile, WriteFile, EnqueueFails
<1>2. ASSUME NEW o \in Operators, Operator(o) PROVE UNCHANGED <<rec, held>>
  BY <1>2 DEF Operator, AskBegin, AskFinish, AskRetry
<1>3. ASSUME NEW p \in Jobs, Process(p), ~Insert(p), ~Freeze(p), ~PostSucceeds(p)
      PROVE  UNCHANGED <<rec, held>>
  BY <1>3 DEF Process, BeginAgain, WriteContext, InsertFails, FreezeAgain, FreezeConflict, DeliverNothing,
              Deliver, Post, PostFails, FailedAttempt, Busy, Die
<1>4. ASSUME NEW f \in Flushers, Flusher(f) PROVE UNCHANGED <<rec, held>>
  BY <1>4 DEF Flusher, StartFlush, ReadFile, FlushPost, Unlink, FlushFails
<1> QED
  BY <1>1, <1>2, <1>3, <1>4 DEF Next

LEMMA CaptureRefinedStep == CaptureInv /\ [Next]_vars => [Promise!Next]_(Promise!vars)
<1> SUFFICES ASSUME CaptureInv, [Next]_vars PROVE [Promise!Next]_(Promise!vars)
  OBVIOUS
<1>1. Promise!vars = <<PendingEnvelope, DeliveredEnvelope, HeldEnvelope>>
  BY DEF Promise!vars, PendingEnvelope, DeliveredEnvelope, HeldEnvelope, Any
<1>2. rec \in [Runs -> Records \cup {None}] /\ held \in [Runs -> SUBSET Envelopes]
  BY DEF CaptureInv, Typed, WorldTyped
<1>3. \A r \in Runs : CopiesOf(rec[r], wire[r], held[r])
  BY DEF CaptureInv, Copies
<1>4. ASSUME UNCHANGED <<rec, held>> PROVE UNCHANGED Promise!vars
  BY <1>4 DEF Promise!vars, Frozen
<1>5. ASSUME NEW p \in Jobs, Insert(p) PROVE UNCHANGED Promise!vars
  <2>1. PICK r \in Runs : r = job[p].run /\ rec[r] = None
    BY <1>5, AtJob DEF Insert, At, Place
  <2>2. /\ \A q \in Runs \ {r} : rec'[q] = rec[q]
        /\ rec'[r].state = "open" /\ held' = held
    BY <1>2, <1>5, <2>1 DEF Insert, server
  <2>3. PendingEnvelope' = PendingEnvelope /\ DeliveredEnvelope' = DeliveredEnvelope
    BY <2>1, <2>2 DEF PendingEnvelope, DeliveredEnvelope, Frozen
  <2> QED
    BY <2>2, <2>3 DEF Promise!vars, PendingEnvelope, DeliveredEnvelope
<1>6. ASSUME NEW p \in Jobs, Freeze(p) PROVE Promise!Next
  <2>1. PICK r \in Runs : r = job[p].run /\ rec[r] # None /\ rec[r].state = "open"
    BY <1>6, AtJob DEF Freeze, MayFreeze, Open, At, Place, Opened
  <2>2. PICK e \in Envelopes : e = [outcome |-> job[p].claim.outcome, event |-> minted + 1]
    <3>1. minted + 1 \in 1..MaxIds
      BY <1>6, CaptureAssumption DEF Freeze, CaptureInv, Typed, WorldTyped
    <3>2. job[p].claim.outcome \in Outcomes
      BY AtJob DEF JobStates, Claims
    <3> QED
      BY <3>1, <3>2 DEF Envelopes
  <2>3. /\ \A q \in Runs \ {r} : rec'[q] = rec[q]
        /\ rec'[r] = [cap |-> rec[r].cap, state |-> "pending", claim |-> job[p].claim, envelope |-> e]
        /\ held' = held
    BY <1>2, <1>6, <2>1, <2>2 DEF Freeze, server
  <2>4. rec[r].cap \in 1..MaxIds /\ job[p].claim \in Claims
    BY <1>2, <2>1, AtJob DEF Records, JobStates
  <2>5. rec'[r] # None
    <3>1. rec'[r] \in Records
      BY <2>2, <2>3, <2>4 DEF Records
    <3> QED
      BY <3>1, NamesAssumption
  <2>6. rec'[r].state = "pending" /\ rec'[r].envelope = e
    BY <2>3
  <2>7. PendingEnvelope[r] = None /\ DeliveredEnvelope[r] = None
    BY <2>1 DEF PendingEnvelope, DeliveredEnvelope
  <2>8. PendingEnvelope' = [PendingEnvelope EXCEPT ![r] = e]
    BY <2>1, <2>3, <2>5, <2>6 DEF PendingEnvelope, Frozen
  <2>9. DeliveredEnvelope' = DeliveredEnvelope /\ HeldEnvelope' = HeldEnvelope
    BY <2>1, <2>3, <2>6 DEF DeliveredEnvelope, HeldEnvelope, Frozen
  <2>10. Promise!Store(r, e)
    BY <2>7, <2>8, <2>9 DEF Promise!Store, PendingEnvelope, DeliveredEnvelope, HeldEnvelope, Any
  <2> QED
    BY <2>10 DEF Promise!Next
<1>7. ASSUME NEW p \in Jobs, PostSucceeds(p) PROVE Promise!Next \/ UNCHANGED Promise!vars
  <2>1. PICK r \in Runs : r = job[p].run /\ IsFrozen(rec[r]) /\ rec[r].envelope \in held[r]
    BY <1>7, AtJob DEF PostSucceeds, Receipt, At, Place, Froze
  <2> DEFINE e == rec[r].envelope
  <2>2. /\ rec' = [rec EXCEPT ![r] = [@ EXCEPT !.state = "delivered"]] /\ held' = held
    BY <1>7, <2>1 DEF PostSucceeds, server
  <2>3. rec[r] \in Records /\ rec[r].state \in {"pending", "delivered"}
    BY <1>2, <2>1 DEF IsFrozen, Records
  <2>4. held[r] = {e}
    BY <1>3, <2>1 DEF CopiesOf
  <2>5. HeldEnvelope[r] = e
    <3>1. Any(held[r]) \in held[r]
      BY <2>4 DEF Any
    <3> QED
      BY <2>1, <2>4, <3>1 DEF HeldEnvelope
  <2>6. HeldEnvelope' = HeldEnvelope
    BY <2>2 DEF HeldEnvelope
  <2>7. CASE rec[r].state = "delivered"
    <3>1. rec' = rec
      BY <1>2, <2>1, <2>2, <2>3, <2>7 DEF Records
    <3> QED
      BY <1>4, <2>2, <3>1
  <2>8. CASE rec[r].state = "pending"
    <3>1. /\ \A q \in Runs \ {r} : rec'[q] = rec[q]
          /\ rec'[r].state = "delivered" /\ rec'[r].envelope = e /\ rec'[r] \in Records
      BY <1>2, <2>1, <2>2, <2>3, <2>8 DEF Records
    <3>2. rec'[r] # None /\ e # None
      BY <2>3, <2>8, <3>1, NamesAssumption DEF Records
    <3>3. PendingEnvelope[r] = e
      BY <2>1, <2>8 DEF PendingEnvelope, Frozen, IsFrozen
    <3>4. PendingEnvelope' = [PendingEnvelope EXCEPT ![r] = None]
      BY <2>1, <3>1 DEF PendingEnvelope, Frozen
    <3>5. DeliveredEnvelope' = [DeliveredEnvelope EXCEPT ![r] = e]
      BY <2>1, <3>1, <3>2 DEF DeliveredEnvelope, Frozen
    <3>6. Promise!Acknowledge(r)
      BY <2>5, <2>6, <3>2, <3>3, <3>4, <3>5
         DEF Promise!Acknowledge, PendingEnvelope, DeliveredEnvelope, HeldEnvelope, Any
    <3> QED
      BY <2>1, <3>6 DEF Promise!Next
  <2> QED
    BY <2>3, <2>7, <2>8
<1>8. ASSUME NEW r \in Runs, Take(r) PROVE Promise!Next
  <2>1. PICK e \in wire[r] \ held[r] : held' = [held EXCEPT ![r] = @ \cup {e}]
    BY <1>8 DEF Take
  <2>2. /\ IsFrozen(rec[r]) /\ e = rec[r].envelope /\ held[r] = {} /\ rec[r].state # "delivered"
    BY <1>3, <2>1 DEF CopiesOf
  <2>3. rec' = rec
    BY <1>8 DEF Take, disk
  <2>4. rec[r].state = "pending" /\ e # None
    BY <1>2, <2>2, NamesAssumption DEF IsFrozen, Records
  <2>5. held'[r] = {e} /\ \A q \in Runs \ {r} : held'[q] = held[q]
    BY <1>2, <2>1, <2>2
  <2>6. HeldEnvelope[r] = None /\ PendingEnvelope[r] = e
    BY <2>2, <2>4 DEF HeldEnvelope, PendingEnvelope, Frozen, IsFrozen
  <2>7. Any(held'[r]) = e
    <3>1. Any(held'[r]) \in held'[r]
      BY <2>5 DEF Any
    <3> QED
      BY <2>5, <3>1
  <2>8. HeldEnvelope' = [HeldEnvelope EXCEPT ![r] = e]
    BY <2>5, <2>7 DEF HeldEnvelope
  <2>9. PendingEnvelope' = PendingEnvelope /\ DeliveredEnvelope' = DeliveredEnvelope
    BY <2>3 DEF PendingEnvelope, DeliveredEnvelope, Frozen
  <2>10. Promise!Take(r)
    BY <2>4, <2>6, <2>8, <2>9 DEF Promise!Take, PendingEnvelope, DeliveredEnvelope, HeldEnvelope, Any
  <2> QED
    BY <2>10 DEF Promise!Next
<1>9. CASE UNCHANGED vars
  BY <1>4, <1>9 DEF vars, disk, server
<1> QED
  BY <1>4, <1>5, <1>6, <1>7, <1>8, <1>9, RecordActions

\* The durable capture implements Delivery: an envelope is stored once with
\* frozen bytes and acknowledged only when the server holds exactly those.
THEOREM CaptureImplementsDelivery == Spec => ImplementsDelivery
<1>1. Init => Promise!Init
  BY DEF Init, Promise!Init, Frozen
<1> QED
  BY <1>1, CaptureRefinedStep, CaptureInvariant, PTL DEF Spec, ImplementsDelivery, Promise!Spec
=============================================================================
