---------------------------- MODULE ScopeProofs ----------------------------
(***************************************************************************)
(* Theorems about Pairing and Scope, for any number of processes, hooks,   *)
(* targets, pairings, entries and replies.  First the directory and who is *)
(* inside setup; then sync.lock and what each reply has left; then what an *)
(* approval and a hook have read.                                          *)
(***************************************************************************)
EXTENDS Scope, TLAPS

Fresh(ks) == \A k \in Pairings : ks[k].state = "none"
Inside == {"prepare", "mark", "start", "poll", "save"}
Later  == {"initialize", "opened", "seed", "sync", "scope_now", "asking", "refs", "offer", "switch"}
Opened == {"opened", "seed", "sync", "asking", "refs", "offer", "switch"}
Asking == {"check", "show", "answer", "approve"}

Process == [cmd     : {"none", "setup", "sync", "install", "approve"},
            pc      : {"idle", "naming", "lock"} \cup Guarded \cup Later \cup Asking,
            target  : Targets \cup {None},
            newPair : BOOLEAN,
            pairing : Pairings \cup {None}]

Known == [Pairings -> [state : {"none", "started", "approved", "consumed"},
                         target : Targets \cup {None}]]

PairTyped ==
    /\ dir \in Directories
    /\ pairing \in Known
    /\ proc \in [Procs -> Process]

Alone == \A p, q \in Procs : Holds(p) /\ Holds(q) => p = q

\* What each file of a directory says of the others and of the server.
Agree(d, ks) ==
    /\ d.installation # None => d.lockFile
    /\ d.attempted => d.installation # None
    /\ d.cooldown # "none" \/ d.saved # None => d.attempted
    /\ ~d.attempted => Fresh(ks)
    /\ d.saved # None => ks[d.saved].state = "consumed" /\ ks[d.saved].target = d.installation
    /\ d.outbox # None => d.outbox = d.installation /\ d.saved # None
    /\ d.revoked => d.saved # None

\* What a process knows of them where it is.
Knows(r, d, ks) ==
    /\ r.pc = "idle" => r.cmd # "setup"
    /\ r.pc \in {"naming", "lock"} \cup Guarded => r.cmd = "setup" /\ r.target \in Targets
    /\ r.pc \in {"lock"} \cup Guarded => d.lockFile
    /\ r.pc = "freeze" => d.installation = None
    /\ r.pc \in {"frozen"} \cup Inside => d.installation # None
    /\ r.pc \in Inside => d.saved = None /\ r.target = d.installation
    /\ r.pc = "mark" \/ (r.pc = "start" /\ ~r.newPair) => Fresh(ks)
    /\ r.pc \in {"start", "poll", "save"} => d.attempted
    /\ r.pc \in {"poll", "save"} => r.pairing \in Pairings
    /\ r.pc = "save" => ks[r.pairing].state = "consumed" /\ ks[r.pairing].target = r.target
    /\ r.pc \in Later => d.saved # None
    /\ r.pc \in Opened => d.outbox # None

Places == \A p \in Procs : Knows(proc[p], dir, pairing)

PairInv == PairTyped /\ Alone /\ Agree(dir, pairing) /\ Places

In(r) == r.cmd = "setup" /\ r.pc \notin {"naming", "lock"}

-----------------------------------------------------------------------------
(* Steps of one process.                                                   *)

LEMMA PairInitInv == PairInit => PairInv
BY PairingAssumption
   DEF PairInit, PairInv, PairTyped, Alone, Agree, Places, Knows, Fresh, Known, Directories,
       Empty, Idle, Process, Holds, Guarded, Inside, Later, Opened

\* A step of one process keeps the invariant if the process knows what it must
\* where it comes to, and what the others know stays so.
LEMMA StepInv ==
    ASSUME PairInv, NEW p \in Procs, NEW r \in Process,
           proc' = [proc EXCEPT ![p] = r], dir' \in Directories, pairing' \in Known,
           Agree(dir', pairing'), Knows(r, dir', pairing'),
           \A q \in Procs \ {p} : Knows(proc[q], dir', pairing'),
           In(r) => \A q \in Procs \ {p} : ~Holds(q)
    PROVE  PairInv'
<1>1. /\ proc' \in [Procs -> Process] /\ proc'[p] = r
      /\ \A q \in Procs \ {p} : proc'[q] = proc[q]
  BY DEF PairInv, PairTyped
<1>2. PairTyped' /\ Agree(dir, pairing)'
  BY <1>1 DEF PairTyped, Agree, Fresh
<1>3. Places'
  BY <1>1 DEF Places, Knows, Fresh
<1>4. Alone'
  BY <1>1 DEF PairInv, Alone, Holds, In
<1> QED
  BY <1>2, <1>3, <1>4 DEF PairInv

\* If the files stay as they are, so does what the others know.
LEMMA StillInv ==
    ASSUME PairInv, NEW p \in Procs, NEW r \in Process,
           proc' = [proc EXCEPT ![p] = r], Unmoved, Knows(r, dir, pairing),
           In(r) => Holds(p) \/ \A q \in Procs : ~Holds(q)
    PROVE  PairInv'
<1>1. In(r) => \A q \in Procs \ {p} : ~Holds(q)
  BY DEF PairInv, Alone
<1>2. dir' \in Directories /\ pairing' \in Known /\ dir' = dir /\ pairing' = pairing
  BY DEF Unmoved, PairInv, PairTyped
<1> QED
  BY <1>1, <1>2, StepInv DEF PairInv, Places

LEMMA LeaveInv ==
    ASSUME PairInv, NEW p \in Procs, Leave(p), Unmoved
    PROVE  PairInv'
<1>1. Idle \in Process /\ Knows(Idle, dir, pairing) /\ ~In(Idle)
  BY DEF Idle, Process, Knows, In, Guarded, Inside, Later, Opened
<1> QED
  BY <1>1, StillInv DEF Leave

LEMMA GoInv ==
    ASSUME PairInv, NEW p \in Procs, NEW pc \in {"idle", "naming", "lock"} \cup Guarded \cup Later \cup Asking,
           Go(p, pc), Unmoved, Knows([proc[p] EXCEPT !.pc = pc], dir, pairing),
           Holds(p) \/ proc[p].cmd # "setup" \/ pc = "lock" \/ \A q \in Procs : ~Holds(q)
    PROVE  PairInv'
<1> DEFINE r == [proc[p] EXCEPT !.pc = pc]
<1>1. proc[p] \in Process
  BY DEF PairInv, PairTyped
<1>2. r \in Process
  BY <1>1 DEF Process
<1>3. In(r) => Holds(p) \/ \A q \in Procs : ~Holds(q)
  BY <1>1 DEF In, Process
<1>4. proc' = [proc EXCEPT ![p] = r]
  BY DEF Go
<1> HIDE DEF r
<1> QED
  BY <1>2, <1>3, <1>4, StillInv DEF r

\* Who is inside setup.
LEMMA InsideHolds ==
    ASSUME PairInv, NEW p \in Procs
    PROVE  /\ proc[p] \in Process /\ Knows(proc[p], dir, pairing)
           /\ proc[p].pc \in Guarded => Holds(p)
           /\ Holds(p) => \A q \in Procs \ {p} : ~Holds(q) /\ proc[q].pc \notin Guarded
  BY DEF PairInv, PairTyped, Places, Alone, Knows, Holds, Guarded

LEMMA SetupInv ==
    ASSUME PairInv, NEW p \in Procs, Setup(p)
    PROVE  PairInv'
<1>1. PICK t \in Targets, n \in BOOLEAN :
        proc' = [proc EXCEPT ![p] = [cmd |-> "setup", target |-> t, newPair |-> n, pairing |-> None,
                                     pc |-> IF dir.lockFile THEN "lock" ELSE "naming"]]
  BY DEF Setup
<1> DEFINE r == [cmd |-> "setup", target |-> t, newPair |-> n, pairing |-> None,
                 pc |-> IF dir.lockFile THEN "lock" ELSE "naming"]
<1>2. r \in Process /\ Knows(r, dir, pairing) /\ ~In(r)
  BY DEF Process, Knows, In, Guarded, Inside, Later, Opened
<1>3. Unmoved
  BY DEF Setup
<1> HIDE DEF r
<1> QED
  BY <1>1, <1>2, <1>3, StillInv DEF r

LEMMA NameLockInv ==
    ASSUME PairInv, NEW p \in Procs, NameLock(p)
    PROVE  PairInv'
<1>1. CASE dir.lockFile
  BY <1>1, LeaveInv DEF NameLock, Unmoved
<1>2. CASE ~dir.lockFile
  <2> DEFINE r == [proc[p] EXCEPT !.pc = "lock"]
  <2>1. /\ proc' = [proc EXCEPT ![p] = r] /\ pairing' = pairing
        /\ dir' = [dir EXCEPT !.lockFile = TRUE]
    BY <1>2 DEF NameLock, Go
  <2>2. proc[p] \in Process /\ Knows(proc[p], dir, pairing) /\ proc[p].pc = "naming"
    BY InsideHolds DEF NameLock, At
  <2>3. r \in Process /\ ~In(r) /\ r.pc = "lock" /\ r.cmd = proc[p].cmd /\ r.target = proc[p].target
    BY <2>2 DEF Process, In
  <2>4. dir' \in Directories /\ pairing' \in Known /\ Agree(dir', pairing')
    BY <2>1 DEF PairInv, PairTyped, Directories, Agree
  <2>5. Knows(r, dir', pairing')
    BY <2>1, <2>2, <2>3 DEF Knows, PairInv, PairTyped, Directories, Guarded, Inside, Later, Opened
  <2>6. \A q \in Procs : Knows(proc[q], dir', pairing')
    BY <2>1 DEF PairInv, PairTyped, Directories, Places, Knows
  <2> HIDE DEF r
  <2> QED
    BY <2>1, <2>3, <2>4, <2>5, <2>6, StepInv
<1> QED
  BY <1>1, <1>2

LEMMA TakeLockInv ==
    ASSUME PairInv, NEW p \in Procs, TakeLock(p)
    PROVE  PairInv'
<1>1. CASE \E q \in Procs : Holds(q)
  BY <1>1, LeaveInv DEF TakeLock
<1>2. CASE ~\E q \in Procs : Holds(q)
  <2>1. proc[p] \in Process /\ Knows(proc[p], dir, pairing) /\ proc[p].pc = "lock"
    BY InsideHolds DEF TakeLock, At
  <2>2. Knows([proc[p] EXCEPT !.pc = "locked"], dir, pairing)
    BY <2>1 DEF Process, Knows, Guarded, Inside, Later, Opened
  <2> QED
    BY <1>2, <2>2, GoInv DEF TakeLock, Guarded
<1> QED
  BY <1>1, <1>2

LEMMA CheckNewInv ==
    ASSUME PairInv, NEW p \in Procs, CheckNew(p)
    PROVE  PairInv'
<1>1. /\ proc[p] \in Process /\ Knows(proc[p], dir, pairing) /\ proc[p].pc = "locked"
      /\ Holds(p) /\ Unmoved
  BY InsideHolds DEF CheckNew, At, Guarded
<1>2. CASE dir.installation # None
  <2>1. Knows([proc[p] EXCEPT !.pc = "frozen"], dir, pairing)
    BY <1>1, <1>2 DEF Process, Knows, Guarded, Inside, Later, Opened
  <2> QED
    BY <1>1, <1>2, <2>1, GoInv DEF CheckNew, Guarded
<1>3. CASE dir.installation = None /\ Bare(p)
  <2>1. Knows([proc[p] EXCEPT !.pc = "freeze"], dir, pairing)
    BY <1>1, <1>3 DEF Process, Knows, Guarded, Inside, Later, Opened
  <2> QED
    BY <1>1, <1>3, <2>1, GoInv DEF CheckNew, Guarded
<1>4. CASE dir.installation = None /\ ~Bare(p)
  BY <1>1, <1>4, LeaveInv DEF CheckNew
<1> QED
  BY <1>2, <1>3, <1>4

LEMMA FreezeInv ==
    ASSUME PairInv, NEW p \in Procs, Freeze(p)
    PROVE  PairInv'
<1> DEFINE r == [proc[p] EXCEPT !.pc = "frozen"]
<1>1. /\ proc' = [proc EXCEPT ![p] = r] /\ pairing' = pairing
      /\ dir' = [dir EXCEPT !.installation = proc[p].target]
  BY DEF Freeze, Go
<1>2. /\ proc[p] \in Process /\ Knows(proc[p], dir, pairing) /\ proc[p].pc = "freeze" /\ Holds(p)
      /\ \A q \in Procs \ {p} : ~Holds(q) /\ proc[q].pc \notin Guarded
  BY InsideHolds DEF Freeze, At, Guarded
<1>3. /\ dir.installation = None /\ dir.saved = None /\ dir.outbox = None /\ dir.lockFile
      /\ ~dir.attempted /\ dir.cooldown = "none" /\ Fresh(pairing)
      /\ proc[p].target \in Targets /\ proc[p].target # None
  BY <1>2, PairingAssumption DEF PairInv, Agree, Knows, Guarded
<1>4. dir' \in Directories /\ pairing' \in Known /\ Agree(dir', pairing')
  BY <1>1, <1>3 DEF PairInv, PairTyped, Directories, Agree
<1>5. r \in Process /\ r.pc = "frozen" /\ r.cmd = proc[p].cmd /\ r.target = proc[p].target
  BY <1>2 DEF Process, Guarded
<1>6. Knows(r, dir', pairing')
  BY <1>1, <1>2, <1>3, <1>5 DEF Knows, PairInv, PairTyped, Directories, Guarded, Inside, Later, Opened
<1>7. \A q \in Procs \ {p} : Knows(proc[q], dir', pairing')
  BY <1>1, <1>2, <1>3 DEF PairInv, PairTyped, Directories, Places, Knows, Guarded, Inside
<1> HIDE DEF r
<1> QED
  BY <1>1, <1>2, <1>4, <1>5, <1>6, <1>7, StepInv

LEMMA InitializeInv ==
    ASSUME PairInv, NEW p \in Procs, Initialize(p), Unmoved, Holds(p), dir.saved # None
    PROVE  PairInv'
<1> DEFINE r == [Idle EXCEPT !.cmd = "setup", !.pc = "initialize"]
<1>1. r \in Process /\ Knows(r, dir, pairing)
  BY DEF Idle, Process, Knows, Guarded, Inside, Later, Opened
<1>2. proc' = [proc EXCEPT ![p] = r]
  BY DEF Initialize
<1> HIDE DEF r
<1> QED
  BY <1>1, <1>2, StillInv

LEMMA CheckTargetInv ==
    ASSUME PairInv, NEW p \in Procs, CheckTarget(p)
    PROVE  PairInv'
<1>1. /\ proc[p] \in Process /\ Knows(proc[p], dir, pairing) /\ proc[p].pc = "frozen"
      /\ Holds(p) /\ Unmoved
  BY InsideHolds DEF CheckTarget, At, Guarded
<1>2. CASE Leave(p)
  BY <1>1, <1>2, LeaveInv
<1>3. CASE Matches(p) /\ dir.saved = None /\ Go(p, "prepare")
  <2>1. Knows([proc[p] EXCEPT !.pc = "prepare"], dir, pairing)
    BY <1>1, <1>3 DEF Process, Knows, Matches, Guarded, Inside, Later, Opened
  <2> QED
    BY <1>1, <1>3, <2>1, GoInv DEF Guarded
<1>4. CASE dir.saved # None /\ Initialize(p)
  BY <1>1, <1>4, InitializeInv
<1> QED
  BY <1>2, <1>3, <1>4 DEF CheckTarget

\* While one process is inside, the cooldown and the marker are its own.
LEMMA PrepareInv ==
    ASSUME PairInv, NEW p \in Procs, Prepare(p)
    PROVE  PairInv'
<1> DEFINE r == IF dir.cooldown = "running" \/ (dir.attempted /\ ~proc[p].newPair)
                THEN Idle ELSE [proc[p] EXCEPT !.pc = IF dir.attempted THEN "start" ELSE "mark"]
<1>1. /\ proc' = [proc EXCEPT ![p] = r] /\ pairing' = pairing
      /\ dir' = [dir EXCEPT !.cooldown = IF @ = "over" THEN "none" ELSE @]
  BY DEF Prepare, Go, Leave
<1>2. /\ proc[p] \in Process /\ Knows(proc[p], dir, pairing) /\ proc[p].pc = "prepare" /\ Holds(p)
      /\ \A q \in Procs \ {p} : ~Holds(q) /\ proc[q].pc \notin Guarded
  BY InsideHolds DEF Prepare, At, Guarded
<1>3. dir' \in Directories /\ pairing' \in Known /\ Agree(dir', pairing')
  BY <1>1 DEF PairInv, PairTyped, Directories, Agree
<1>4. \A q \in Procs : Knows(proc[q], dir', pairing')
  BY <1>1 DEF PairInv, PairTyped, Directories, Places, Knows
<1>5. r \in Process /\ Knows(r, dir', pairing')
  <2>1. CASE dir.cooldown = "running" \/ (dir.attempted /\ ~proc[p].newPair)
    <3>1. r = Idle
      BY <2>1
    <3> QED
      BY <3>1 DEF Idle, Process, Knows, Guarded, Inside, Later, Opened
  <2>2. CASE dir.attempted /\ proc[p].newPair /\ dir.cooldown # "running"
    <3>1. r = [proc[p] EXCEPT !.pc = "start"]
      BY <2>2
    <3>2. r \in Process /\ r.pc = "start" /\ r.newPair = proc[p].newPair
          /\ r.cmd = proc[p].cmd /\ r.target = proc[p].target
      BY <3>1, <1>2 DEF Process, Guarded
    <3> HIDE DEF r
    <3> QED
      BY <3>2, <2>2, <1>1, <1>2 DEF Knows, PairInv, PairTyped, Directories, Guarded, Inside, Later, Opened
  <2>3. CASE ~dir.attempted /\ dir.cooldown # "running"
    <3>1. r = [proc[p] EXCEPT !.pc = "mark"]
      BY <2>3
    <3>2. r \in Process /\ r.pc = "mark" /\ r.cmd = proc[p].cmd /\ r.target = proc[p].target
      BY <3>1, <1>2 DEF Process, Guarded
    <3>3. Fresh(pairing)
      BY <2>3 DEF PairInv, Agree
    <3> HIDE DEF r
    <3> QED
      BY <3>2, <3>3, <2>3, <1>1, <1>2 DEF Knows, PairInv, PairTyped, Directories, Guarded, Inside, Later, Opened
  <2> QED
    BY <2>1, <2>2, <2>3
<1> HIDE DEF r
<1> QED
  BY <1>1, <1>2, <1>3, <1>4, <1>5, StepInv

LEMMA MarkInv ==
    ASSUME PairInv, NEW p \in Procs, Mark(p)
    PROVE  PairInv'
<1> DEFINE r == [proc[p] EXCEPT !.pc = "start"]
<1>1. /\ proc' = [proc EXCEPT ![p] = r] /\ pairing' = pairing
      /\ dir' = [dir EXCEPT !.attempted = TRUE]
  BY DEF Mark, Go
<1>2. /\ proc[p] \in Process /\ Knows(proc[p], dir, pairing) /\ proc[p].pc = "mark" /\ Holds(p)
      /\ \A q \in Procs \ {p} : ~Holds(q) /\ proc[q].pc \notin Guarded
  BY InsideHolds DEF Mark, At, Guarded
<1>3. dir' \in Directories /\ pairing' \in Known /\ Agree(dir', pairing')
  BY <1>1, <1>2 DEF PairInv, PairTyped, Directories, Agree, Knows, Inside
<1>4. \A q \in Procs : Knows(proc[q], dir', pairing')
  BY <1>1 DEF PairInv, PairTyped, Directories, Places, Knows
<1>5. r \in Process /\ r.pc = "start" /\ r.cmd = proc[p].cmd /\ r.target = proc[p].target
  BY <1>2 DEF Process, Guarded
<1>6. Knows(r, dir', pairing')
  BY <1>1, <1>2, <1>5 DEF Knows, PairInv, PairTyped, Directories, Guarded, Inside, Later, Opened
<1> HIDE DEF r
<1> QED
  BY <1>1, <1>2, <1>3, <1>4, <1>5, <1>6, StepInv

\* A pairing is started by a process inside, so nobody else knows any are fresh.
LEMMA StartPairingInv ==
    ASSUME PairInv, NEW p \in Procs, StartPairing(p)
    PROVE  PairInv'
<1>1. PICK k \in Pairings :
        /\ pairing[k].state = "none"
        /\ pairing' = [pairing EXCEPT ![k].state = "started"]
        /\ \/ proc' = [proc EXCEPT ![p].pc = "poll", ![p].pairing = k]
           \/ Leave(p)
  BY DEF StartPairing
<1>2. /\ proc[p] \in Process /\ Knows(proc[p], dir, pairing) /\ proc[p].pc = "start" /\ Holds(p)
      /\ dir' = dir /\ \A q \in Procs \ {p} : ~Holds(q) /\ proc[q].pc \notin Guarded
  BY InsideHolds DEF StartPairing, At, Guarded
<1>3. dir' \in Directories /\ pairing' \in Known /\ dir.saved = None /\ dir.attempted
  BY <1>1, <1>2 DEF PairInv, PairTyped, Known, Knows, Inside
<1>4. Agree(dir', pairing')
  BY <1>2, <1>3 DEF PairInv, Agree
<1>5. \A q \in Procs \ {p} : Knows(proc[q], dir', pairing')
  BY <1>2 DEF PairInv, Places, Knows, Guarded, Inside
<1>6. CASE proc' = [proc EXCEPT ![p].pc = "poll", ![p].pairing = k]
  <2> DEFINE r == [proc[p] EXCEPT !.pc = "poll", !.pairing = k]
  <2>1. proc' = [proc EXCEPT ![p] = r]
    BY <1>6
  <2>2. r \in Process /\ r.pc = "poll" /\ r.cmd = proc[p].cmd /\ r.target = proc[p].target /\ r.pairing = k
    BY <1>2 DEF Process, Guarded
  <2>3. Knows(r, dir', pairing')
    BY <1>2, <2>2 DEF Knows, Guarded, Inside, Later, Opened
  <2> HIDE DEF r
  <2> QED
    BY <1>2, <1>3, <1>4, <1>5, <2>1, <2>2, <2>3, StepInv
<1>7. CASE Leave(p)
  <2>1. Idle \in Process /\ Knows(Idle, dir', pairing') /\ ~In(Idle)
    BY DEF Idle, Process, Knows, In, Guarded, Inside, Later, Opened
  <2> QED
    BY <1>7, <1>3, <1>4, <1>5, <2>1, StepInv DEF Leave
<1> QED
  BY <1>1, <1>6, <1>7

LEMMA StartRefusedInv ==
    ASSUME PairInv, NEW p \in Procs, StartRefused(p)
    PROVE  PairInv'
<1>1. PICK c \in {"none", "running"} : dir' = [dir EXCEPT !.cooldown = c]
  BY DEF StartRefused
<1>2. /\ proc[p] \in Process /\ Knows(proc[p], dir, pairing) /\ proc[p].pc = "start"
      /\ pairing' = pairing /\ proc' = [proc EXCEPT ![p] = Idle]
  BY InsideHolds DEF StartRefused, At, Leave
<1>3. dir' \in Directories /\ pairing' \in Known /\ Agree(dir', pairing')
  BY <1>1, <1>2 DEF PairInv, PairTyped, Directories, Agree, Knows
<1>4. \A q \in Procs : Knows(proc[q], dir', pairing')
  BY <1>1, <1>2 DEF PairInv, PairTyped, Directories, Places, Knows
<1>5. Idle \in Process /\ Knows(Idle, dir', pairing') /\ ~In(Idle)
  BY DEF Idle, Process, Knows, In, Guarded, Inside, Later, Opened
<1> QED
  BY <1>2, <1>3, <1>4, <1>5, StepInv

LEMMA ExchangeInv ==
    ASSUME PairInv, NEW p \in Procs, Exchange(p)
    PROVE  PairInv'
<1> DEFINE k == proc[p].pairing
<1>1. /\ pairing[k].state = "approved" /\ pairing' = [pairing EXCEPT ![k].state = "consumed"]
      /\ dir' = dir
      /\ \/ pairing[k].target = proc[p].target /\ Go(p, "save")
         \/ Leave(p)
  BY DEF Exchange, Approved
<1>2. /\ proc[p] \in Process /\ Knows(proc[p], dir, pairing) /\ proc[p].pc = "poll" /\ Holds(p)
      /\ \A q \in Procs \ {p} : ~Holds(q) /\ proc[q].pc \notin Guarded
  BY InsideHolds DEF Exchange, At, Guarded
<1>3. k \in Pairings /\ dir.saved = None /\ dir.attempted
  BY <1>2 DEF Knows, Inside
<1> HIDE DEF k
<1>4. dir' \in Directories /\ pairing' \in Known
  BY <1>1, <1>3 DEF PairInv, PairTyped, Known
<1>5. Agree(dir', pairing')
  BY <1>1, <1>3 DEF PairInv, Agree
<1>6. \A q \in Procs \ {p} : Knows(proc[q], dir', pairing')
  BY <1>1, <1>2 DEF PairInv, Places, Knows, Guarded, Inside
<1>7. CASE pairing[k].target = proc[p].target /\ Go(p, "save")
  <2> DEFINE r == [proc[p] EXCEPT !.pc = "save"]
  <2>1. proc' = [proc EXCEPT ![p] = r]
    BY <1>7 DEF Go
  <2>2. /\ r \in Process /\ r.pc = "save" /\ r.cmd = proc[p].cmd /\ r.target = proc[p].target
        /\ r.pairing = k
    BY <1>2 DEF Process, Guarded, k
  <2>3. pairing'[k].state = "consumed" /\ pairing'[k].target = proc[p].target
    BY <1>1, <1>3, <1>7 DEF PairInv, PairTyped, Known
  <2>4. Knows(r, dir', pairing')
    BY <1>1, <1>2, <1>3, <2>2, <2>3 DEF Knows, Guarded, Inside, Later, Opened
  <2> HIDE DEF r
  <2> QED
    BY <1>2, <1>4, <1>5, <1>6, <2>1, <2>2, <2>4, StepInv
<1>8. CASE Leave(p)
  <2>1. Idle \in Process /\ Knows(Idle, dir', pairing') /\ ~In(Idle)
    BY DEF Idle, Process, Knows, In, Guarded, Inside, Later, Opened
  <2> QED
    BY <1>8, <1>4, <1>5, <1>6, <2>1, StepInv DEF Leave
<1> QED
  BY <1>1, <1>7, <1>8

LEMMA SaveConnectionInv ==
    ASSUME PairInv, NEW p \in Procs, SaveConnection(p)
    PROVE  PairInv'
<1>1. /\ proc[p] \in Process /\ Knows(proc[p], dir, pairing) /\ proc[p].pc = "save" /\ Holds(p)
      /\ \A q \in Procs \ {p} : ~Holds(q) /\ proc[q].pc \notin Guarded
  BY InsideHolds DEF SaveConnection, At, Guarded
<1>2. /\ dir.saved = None /\ proc[p].target = dir.installation /\ proc[p].pairing \in Pairings
      /\ pairing[proc[p].pairing].state = "consumed" /\ dir.attempted
      /\ pairing[proc[p].pairing].target = dir.installation /\ proc[p].pairing # None
  BY <1>1, PairingAssumption DEF Knows, Inside
<1> DEFINE r == [Idle EXCEPT !.cmd = "setup", !.pc = "initialize"]
<1>3. /\ dir' = [dir EXCEPT !.saved = proc[p].pairing] /\ proc' = [proc EXCEPT ![p] = r]
      /\ pairing' = pairing
  BY <1>2 DEF SaveConnection, Initialize
<1>4. /\ dir' \in Directories /\ pairing' \in Known /\ Agree(dir', pairing') /\ dir'.saved # None
  BY <1>2, <1>3 DEF PairInv, PairTyped, Directories, Agree
<1>5. r \in Process /\ Knows(r, dir', pairing')
  BY <1>4 DEF Idle, Process, Knows, Guarded, Inside, Later, Opened
<1>6. \A q \in Procs \ {p} : Knows(proc[q], dir', pairing')
  BY <1>1, <1>3, <1>4 DEF PairInv, PairTyped, Directories, Places, Knows, Guarded, Inside
<1> HIDE DEF r
<1> QED
  BY <1>1, <1>3, <1>4, <1>5, <1>6, StepInv

LEMMA OpenOutboxInv ==
    ASSUME PairInv, NEW p \in Procs, OpenOutbox(p)
    PROVE  PairInv'
<1>1. CASE dir.outbox \notin {None, Scoped}
  BY <1>1, LeaveInv DEF OpenOutbox, Unmoved
<1>2. CASE dir.outbox \in {None, Scoped}
  <2> DEFINE r == [proc[p] EXCEPT !.pc = "opened"]
  <2>1. /\ proc' = [proc EXCEPT ![p] = r] /\ pairing' = pairing
        /\ dir' = [dir EXCEPT !.outbox = Scoped]
    BY <1>2 DEF OpenOutbox, Go
  <2>2. proc[p] \in Process /\ Knows(proc[p], dir, pairing) /\ proc[p].pc = "initialize"
    BY InsideHolds DEF OpenOutbox, At
  <2>3. /\ dir.saved # None /\ Scoped = dir.installation
        /\ dir.installation \in Targets /\ dir.installation # None
    BY <2>2, PairingAssumption DEF PairInv, PairTyped, Directories, Agree, Scoped, Knows, Later
  <2>4. dir' \in Directories /\ pairing' \in Known /\ Agree(dir', pairing') /\ dir'.outbox # None
    BY <2>1, <2>3 DEF PairInv, PairTyped, Directories, Agree
  <2>5. r \in Process /\ r.pc = "opened" /\ r.cmd = proc[p].cmd
    BY <2>2 DEF Process, Later
  <2>6. Knows(r, dir', pairing')
    BY <2>1, <2>2, <2>3, <2>4, <2>5 DEF Knows, PairInv, PairTyped, Directories, Guarded, Inside, Later, Opened
  <2>7. \A q \in Procs : Knows(proc[q], dir', pairing')
    BY <2>1, <2>4 DEF PairInv, PairTyped, Directories, Places, Knows
  <2>8. In(r) => \A q \in Procs \ {p} : ~Holds(q)
    BY <2>2, <2>5, InsideHolds DEF In, Holds
  <2> HIDE DEF r
  <2> QED
    BY <2>1, <2>4, <2>5, <2>6, <2>7, <2>8, StepInv
<1> QED
  BY <1>1, <1>2

LEMMA DieInv ==
    ASSUME PairInv, NEW p \in Procs, Die(p)
    PROVE  PairInv'
<1>1. PICK b \in BOOLEAN : dir' = [dir EXCEPT !.litter = b]
  <2>1. CASE dir' = dir
    BY <2>1 DEF PairInv, PairTyped, Directories
  <2>2. CASE dir' = [dir EXCEPT !.litter = @ \/ At(p, "naming") \/ At(p, "freeze")]
    <3> DEFINE b == dir.litter \/ At(p, "naming") \/ At(p, "freeze")
    <3>1. b \in BOOLEAN
      BY DEF At
    <3>2. dir' = [dir EXCEPT !.litter = b]
      BY <2>2
    <3> QED
      BY <3>1, <3>2
  <2> QED
    BY <2>1, <2>2 DEF Die
<1>2. proc' = [proc EXCEPT ![p] = Idle] /\ pairing' = pairing
  BY DEF Die, Leave
<1>3. dir' \in Directories /\ pairing' \in Known /\ Agree(dir', pairing')
  BY <1>1, <1>2 DEF PairInv, PairTyped, Directories, Agree
<1>4. \A q \in Procs : Knows(proc[q], dir', pairing')
  BY <1>1, <1>2 DEF PairInv, PairTyped, Directories, Places, Knows
<1>5. Idle \in Process /\ Knows(Idle, dir', pairing') /\ ~In(Idle)
  BY DEF Idle, Process, Knows, In, Guarded, Inside, Later, Opened
<1> QED
  BY <1>2, <1>3, <1>4, <1>5, StepInv

LEMMA ApproveInv ==
    ASSUME PairInv, NEW k \in Pairings, Approve(k)
    PROVE  PairInv'
<1>1. PICK t \in Targets :
        pairing' = [pairing EXCEPT ![k].state = "approved", ![k].target = t]
  BY DEF Approve
<1>2. pairing[k].state = "started" /\ dir' = dir /\ proc' = proc
  BY DEF Approve
<1>3. PairTyped'
  BY <1>1, <1>2 DEF PairInv, PairTyped, Known
<1>4. \A j \in Pairings \ {k} : pairing'[j] = pairing[j]
  BY <1>1 DEF PairInv, PairTyped, Known
<1>5. ~Fresh(pairing)
  BY <1>2 DEF Fresh
<1>6. Agree(dir', pairing')
  <2>1. dir.saved # None => dir.saved \in Pairings \ {k}
    BY <1>2 DEF PairInv, PairTyped, Directories, Agree
  <2> QED
    BY <1>2, <1>4, <1>5, <2>1 DEF PairInv, Agree
<1>7. \A q \in Procs : Knows(proc[q], dir', pairing')
  <2> SUFFICES ASSUME NEW q \in Procs PROVE Knows(proc[q], dir', pairing')
    OBVIOUS
  <2>1. Knows(proc[q], dir, pairing)
    BY DEF PairInv, Places
  <2>2. proc[q].pc = "save" => proc[q].pairing \in Pairings \ {k}
    BY <1>2, <2>1 DEF Knows
  <2> QED
    BY <1>2, <1>4, <1>5, <2>1, <2>2 DEF Knows
<1>8. Agree(dir, pairing)' /\ Places'
  BY <1>2, <1>6, <1>7 DEF Places, Agree, Knows, Fresh
<1>9. Alone'
  BY <1>2 DEF PairInv, Alone, Holds
<1> QED
  BY <1>3, <1>8, <1>9 DEF PairInv

LEMMA CooledInv ==
    ASSUME PairInv, Cooled
    PROVE  PairInv'
<1>1. dir' = [dir EXCEPT !.cooldown = "over"] /\ pairing' = pairing /\ proc' = proc
      /\ dir.cooldown = "running"
  BY DEF Cooled
<1>2. PairTyped'
  BY <1>1 DEF PairInv, PairTyped, Directories
<1>3. Agree(dir', pairing') /\ \A q \in Procs : Knows(proc[q], dir', pairing')
  BY <1>1 DEF PairInv, PairTyped, Directories, Places, Agree, Knows
<1>4. Agree(dir, pairing)' /\ Places'
  BY <1>1, <1>3 DEF Places, Agree, Knows, Fresh
<1>5. Alone'
  BY <1>1 DEF PairInv, Alone, Holds
<1> QED
  BY <1>2, <1>4, <1>5 DEF PairInv

LEMMA PairNextInv == PairInv /\ PairNext => PairInv'
<1> SUFFICES ASSUME PairInv, PairNext PROVE PairInv'
  OBVIOUS
<1>1. ASSUME NEW p \in Procs, PairStep(p) PROVE PairInv'
  <2>1. CASE Setup(p) \/ NameLock(p) \/ TakeLock(p) \/ CheckNew(p) \/ Freeze(p) \/ CheckTarget(p)
    BY <2>1, SetupInv, NameLockInv, TakeLockInv, CheckNewInv, FreezeInv, CheckTargetInv
  <2>2. CASE Prepare(p) \/ Mark(p) \/ StartPairing(p) \/ StartRefused(p)
    BY <2>2, PrepareInv, MarkInv, StartPairingInv, StartRefusedInv
  <2>3. CASE Exchange(p) \/ SaveConnection(p) \/ OpenOutbox(p)
    BY <2>3, ExchangeInv, SaveConnectionInv, OpenOutboxInv
  <2>4. CASE GiveUp(p)
    BY <2>4, LeaveInv DEF GiveUp
  <2> QED
    BY <1>1, <2>1, <2>2, <2>3, <2>4 DEF PairStep
<1> QED
  BY <1>1, ApproveInv, CooledInv DEF PairNext

-----------------------------------------------------------------------------
(* The steps of Scope keep it as well.                                     *)

LEMMA OnwardInv ==
    ASSUME PairInv, NEW p \in Procs, NEW pc \in Later \cup Asking, Go(p, pc), Unmoved,
           proc[p].pc \in Later \cup Asking,
           pc \in Later => proc[p].pc \in Later,
           pc \in Opened => dir.outbox # None
    PROVE  PairInv'
<1>1. proc[p] \in Process /\ Knows(proc[p], dir, pairing)
  BY InsideHolds
<1>2. Knows([proc[p] EXCEPT !.pc = pc], dir, pairing)
  BY <1>1 DEF Process, Knows, Guarded, Inside, Later, Opened, Asking
<1>3. Holds(p) \/ proc[p].cmd # "setup"
  BY DEF Holds, Later, Asking
<1> QED
  BY <1>2, <1>3, GoInv

LEMMA BeginInv ==
    ASSUME PairInv, NEW p \in Procs, NEW cmd \in {"sync", "install", "approve"},
           NEW pc \in {"initialize", "scope_now", "check"}, Begin(p, cmd, pc)
    PROVE  PairInv'
<1> DEFINE r == [proc[p] EXCEPT !.cmd = cmd, !.pc = pc]
<1>1. proc' = [proc EXCEPT ![p] = r] /\ Unmoved /\ dir.saved # None
  BY DEF Begin
<1>2. proc[p] \in Process
  BY InsideHolds
<1>3. r \in Process /\ r.pc = pc /\ r.cmd = cmd
  BY <1>2 DEF Process, Later, Asking
<1>4. Knows(r, dir, pairing) /\ ~In(r)
  BY <1>1, <1>3 DEF Knows, In, Guarded, Inside, Later, Opened
<1> HIDE DEF r
<1> QED
  BY <1>1, <1>3, <1>4, StillInv

LEMMA AfterOpeningInv ==
    ASSUME PairInv, NEW p \in Procs, AfterOpening(p), Unmoved, proc[p].pc \in Opened
    PROVE  PairInv'
<1>1. CASE Leave(p)
  BY <1>1, LeaveInv
<1>2. CASE Go(p, "sync")
  <2>1. dir.outbox # None
    BY InsideHolds DEF Knows
  <2> QED
    BY <1>2, <2>1, OnwardInv DEF Later, Opened
<1> QED
  BY <1>1, <1>2 DEF AfterOpening

LEMMA RevokedInv ==
    ASSUME PairInv, NEW p \in Procs, NotAnswered(p)
    PROVE  PairInv'
<1>1. CASE dir' = dir
  BY <1>1, LeaveInv DEF NotAnswered, Unmoved
<1>2. CASE dir' = [dir EXCEPT !.revoked = TRUE]
  <2>1. proc' = [proc EXCEPT ![p] = Idle] /\ pairing' = pairing
    BY DEF NotAnswered, Leave
  <2>2. dir.saved # None
    BY InsideHolds DEF NotAnswered, At, Knows, Later
  <2>3. dir' \in Directories /\ pairing' \in Known /\ Agree(dir', pairing')
    BY <1>2, <2>1, <2>2 DEF PairInv, PairTyped, Directories, Agree
  <2>4. \A q \in Procs : Knows(proc[q], dir', pairing')
    BY <1>2, <2>1 DEF PairInv, PairTyped, Directories, Places, Knows
  <2>5. Idle \in Process /\ Knows(Idle, dir', pairing') /\ ~In(Idle)
    BY DEF Idle, Process, Knows, In, Guarded, Inside, Later, Opened
  <2> QED
    BY <2>1, <2>3, <2>4, <2>5, StepInv
<1> QED
  BY <1>1, <1>2 DEF NotAnswered

LEMMA SavedTarget ==
    ASSUME PairInv, dir.outbox \in Wide
    PROVE  dir.outbox # None
  BY PairingAssumption, ScopeAssumption

LEMMA CommandsKeepPairInv ==
    ASSUME PairInv, NEW p \in Procs,
           \/ NoRefsYet(p) \/ Seed(p) \/ Command(p) \/ TakeSyncLock(p) \/ Answered(p) \/ NotAnswered(p)
           \/ ReplaceRefs(p) \/ SaveOffer(p) \/ NoteDeclaredRun(p)
           \/ ApproveCommand(p) \/ Check(p) \/ Show(p) \/ Answer(p) \/ ApproveShown(p) \/ Dies(p)
    PROVE  PairInv'
<1>1. CASE NoRefsYet(p)
  <2>1. proc[p].pc = "opened" /\ Unmoved /\ (Go(p, "seed") \/ AfterOpening(p))
    BY <1>1 DEF NoRefsYet, Unmoved, At
  <2>2. dir.outbox # None
    BY <2>1, InsideHolds DEF Knows, Opened
  <2>3. CASE Go(p, "seed")
    BY <2>1, <2>2, <2>3, OnwardInv DEF Later
  <2> QED
    BY <2>1, <2>3, AfterOpeningInv DEF Opened
<1>2. CASE Seed(p)
  BY <1>2, AfterOpeningInv DEF Seed, At, Unmoved, Opened
<1>3. CASE Command(p)
  BY <1>3, BeginInv DEF Command
<1>4. CASE TakeSyncLock(p)
  <2>1. /\ proc[p].pc \in {"sync", "scope_now"} /\ Unmoved
        /\ Leave(p) \/ (Go(p, "asking") /\ dir.outbox \in Wide)
    BY <1>4 DEF TakeSyncLock, At, Unmoved
  <2>2. CASE Leave(p)
    BY <2>1, <2>2, LeaveInv
  <2>3. CASE Go(p, "asking") /\ dir.outbox \in Wide
    BY <2>1, <2>3, SavedTarget, OnwardInv DEF Later
  <2> QED
    BY <2>1, <2>2, <2>3
<1>5. CASE Answered(p) \/ ReplaceRefs(p) \/ SaveOffer(p)
  <2>1. \E pc \in {"refs", "offer", "switch"} : Go(p, pc)
    BY <1>5 DEF Answered, ReplaceRefs, SaveOffer
  <2>2. Unmoved /\ proc[p].pc \in {"asking", "refs", "offer"}
    BY <1>5 DEF Answered, ReplaceRefs, SaveOffer, At, Unmoved
  <2>3. dir.outbox # None
    BY <2>2, InsideHolds DEF Knows, Opened
  <2> QED
    BY <2>1, <2>2, <2>3, OnwardInv DEF Later
<1>6. CASE NotAnswered(p)
  BY <1>6, RevokedInv
<1>7. CASE NoteDeclaredRun(p)
  <2>1. proc[p].pc = "switch" /\ Unmoved /\ (Go(p, "check") \/ Leave(p))
    BY <1>7 DEF NoteDeclaredRun, Unmoved, At
  <2>2. CASE Leave(p)
    BY <2>1, <2>2, LeaveInv
  <2>3. CASE Go(p, "check")
    BY <2>1, <2>3, OnwardInv DEF Later, Asking, Opened
  <2> QED
    BY <2>1, <2>2, <2>3
<1>8. CASE ApproveCommand(p)
  BY <1>8, BeginInv DEF ApproveCommand
<1>9. CASE Check(p) \/ Show(p) \/ Answer(p)
  <2>1. Leave(p) \/ \E pc \in {"show", "answer", "approve"} : Go(p, pc)
    BY <1>9 DEF Check, Show, Answer
  <2>2. Unmoved /\ proc[p].pc \in {"check", "show", "answer"}
    BY <1>9 DEF Check, Show, Answer, At, Unmoved
  <2>3. CASE Leave(p)
    BY <2>2, <2>3, LeaveInv
  <2>4. CASE \E pc \in {"show", "answer", "approve"} : Go(p, pc)
    BY <2>2, <2>4, OnwardInv DEF Later, Asking, Opened
  <2> QED
    BY <2>1, <2>3, <2>4
<1>10. CASE ApproveShown(p)
  BY <1>10, LeaveInv DEF ApproveShown, Unmoved
<1>11. CASE Dies(p)
  BY <1>11, DieInv DEF Dies
<1> QED
  BY <1>1, <1>2, <1>3, <1>4, <1>5, <1>6, <1>7, <1>8, <1>9, <1>10, <1>11

LEMMA PairUnchanged == PairInv /\ UNCHANGED pairVars => PairInv'
BY DEF pairVars, PairInv, PairTyped, Alone, Holds, Agree, Places, Knows, Fresh

LEMMA ScopeKeepsPairInv == PairInv /\ [ScopeNext]_allVars => PairInv'
<1> SUFFICES ASSUME PairInv, [ScopeNext]_allVars PROVE PairInv'
  OBVIOUS
<1>1. CASE PairNext
  BY <1>1, PairNextInv
<1>2. CASE UNCHANGED pairVars
  BY <1>2, PairUnchanged
<1>3. CASE \E h \in Hooks :
          \/ HookStart(h) \/ ReadApproved(h) \/ ReadOffered(h) \/ Locate(h) \/ Collected(h) \/ HookEnd(h)
  BY <1>3, <1>2 DEF HookStart, ReadApproved, ReadOffered, Locate, Collected, HookEnd, HookOnly
<1> QED
  BY <1>1, <1>2, <1>3, CommandsKeepPairInv DEF ScopeNext, ScopeStep, Damage, allVars

LEMMA ScopeHasPairInv == ScopeSpec => []PairInv
<1>1. ScopeInit => PairInv
  BY PairInitInv DEF ScopeInit
<1> QED
  BY <1>1, ScopeKeepsPairInv, PTL DEF ScopeSpec

\* Setup, by whomever and for whatever target, never retargets a saved
\* credential or outbox ("Existing saved credentials/outboxes are never
\* retargeted", pairing.rs).
THEOREM TargetIsFrozen == ScopeSpec => []FrozenTarget
<1>1. PairInv => FrozenTarget
  BY DEF PairInv, Agree, FrozenTarget, Scoped
<1> QED
  BY <1>1, ScopeHasPairInv, PTL

\* What a step may do to the pairings the server knows.
Once ==
    \A k \in Pairings :
          /\ pairing[k].state = "none" /\ pairing'[k].state # "none" =>
                /\ dir.saved = None
                /\ \/ \A j \in Pairings : pairing[j].state = "none"
                   \/ \E p \in Procs : Holds(p) /\ proc[p].newPair
          /\ pairing[k].state # "consumed" /\ pairing'[k].state = "consumed" => dir.saved = None

LEMMA StartOnce ==
    ASSUME PairInv, NEW p \in Procs, StartPairing(p)
    PROVE  Once
<1>1. PICK k \in Pairings :
        pairing[k].state = "none" /\ pairing' = [pairing EXCEPT ![k].state = "started"]
  BY DEF StartPairing
<1>2. proc[p].pc = "start" /\ Knows(proc[p], dir, pairing) /\ Holds(p)
  BY InsideHolds DEF StartPairing, At, Guarded
<1>3. dir.saved = None /\ (Fresh(pairing) \/ proc[p].newPair)
  BY <1>2, InsideHolds DEF Knows, Inside, Process
<1> QED
  BY <1>2, <1>3 DEF Once, Fresh

LEMMA ExchangeOnce ==
    ASSUME PairInv, NEW p \in Procs, Exchange(p)
    PROVE  Once
<1> DEFINE k == proc[p].pairing
<1>1. pairing[k].state = "approved" /\ pairing' = [pairing EXCEPT ![k].state = "consumed"]
  BY DEF Exchange
<1>2. proc[p].pc = "poll" /\ Knows(proc[p], dir, pairing)
  BY InsideHolds DEF Exchange, At
<1>3. k \in Pairings /\ dir.saved = None
  BY <1>2 DEF Knows, Inside
<1> HIDE DEF k
<1> QED
  BY <1>1, <1>3 DEF Once, PairInv, PairTyped, Known

LEMMA ApproveOnce ==
    ASSUME PairInv, NEW k \in Pairings, Approve(k)
    PROVE  Once
<1>1. PICK t \in Targets :
        pairing' = [pairing EXCEPT ![k].state = "approved", ![k].target = t]
  BY DEF Approve
<1>2. pairing[k].state = "started"
  BY DEF Approve
<1> QED
  BY <1>1, <1>2 DEF Once, PairInv, PairTyped, Known

LEMMA OtherStepsLeavePairings ==
    ASSUME [ScopeNext]_allVars, ~\E p \in Procs : StartPairing(p) \/ Exchange(p),
           ~\E k \in Pairings : Approve(k)
    PROVE  pairing' = pairing
<1>1. CASE PairNext
  <2>1. ASSUME NEW p \in Procs, PairStep(p) PROVE pairing' = pairing
    BY <2>1 DEF PairStep, Setup, NameLock, TakeLock, CheckNew, Freeze, CheckTarget, Prepare, Mark,
          StartRefused, GiveUp, SaveConnection, OpenOutbox, Unmoved
  <2> QED
    BY <1>1, <2>1 DEF PairNext, Cooled
<1>2. ASSUME NEW p \in Procs,
             \/ NoRefsYet(p) \/ Seed(p) \/ Command(p) \/ TakeSyncLock(p) \/ Answered(p) \/ NotAnswered(p)
             \/ ReplaceRefs(p) \/ SaveOffer(p) \/ NoteDeclaredRun(p)
             \/ ApproveCommand(p) \/ Check(p) \/ Show(p) \/ Answer(p) \/ ApproveShown(p) \/ Dies(p)
      PROVE  pairing' = pairing
  BY <1>2 DEF NoRefsYet, Seed, Command, TakeSyncLock, Answered, NotAnswered, ReplaceRefs, SaveOffer,
        NoteDeclaredRun, ApproveCommand, Check, Show, Answer, ApproveShown, Dies, Die, Begin, Unmoved
<1>3. ASSUME NEW h \in Hooks,
             \/ HookStart(h) \/ ReadApproved(h) \/ ReadOffered(h) \/ Locate(h) \/ Collected(h) \/ HookEnd(h)
      PROVE  pairing' = pairing
  BY <1>3 DEF HookStart, ReadApproved, ReadOffered, Locate, Collected, HookEnd, HookOnly, pairVars
<1> QED
  BY <1>1, <1>2, <1>3 DEF ScopeNext, ScopeStep, Damage, allVars, pairVars

\* Whatever crashed before, no pairing is started once a connection is saved,
\* nor a second one unasked, and none is exchanged twice ("never exchanges
\* again", pairing.rs in setup).
THEOREM PairingHappensOnce == ScopeSpec => PairsOnce
<1>1. PairInv /\ [ScopeNext]_allVars => [Once]_pairVars
  <2> SUFFICES ASSUME PairInv, [ScopeNext]_allVars PROVE Once
    OBVIOUS
  <2>1. CASE \E p \in Procs : StartPairing(p) \/ Exchange(p)
    BY <2>1, StartOnce, ExchangeOnce
  <2>2. CASE \E k \in Pairings : Approve(k)
    BY <2>2, ApproveOnce
  <2>3. CASE pairing' = pairing
    BY <2>3 DEF Once
  <2> QED
    BY <2>1, <2>2, <2>3, OtherStepsLeavePairings
<1> QED
  BY <1>1, ScopeHasPairInv, PTL DEF ScopeSpec, PairsOnce, Once

-----------------------------------------------------------------------------
(* sync.lock, what a reply has left, and what a person has approved.       *)

Talking == {"asking", "refs", "offer", "switch", "answer", "approve"}
Replies == [n : 1..MaxReplies, offer : Offers \cup {None}]
Jobs    == [reply : Replies \cup {None}, shown : (SUBSET Entries) \cup {None}]

\* What is saved is of a reply that was given, and of a person who agreed.
Kept ==
    /\ replies \in 0..MaxReplies
    /\ refs \in (0..replies) \cup {None}
    /\ refs # None => dir.outbox # None
    /\ offered \in {None, Unreadable} \cup SavedOffers
    /\ Readable(offered) => offered.n <= replies
    /\ agreed \subseteq SUBSET Entries
    /\ approved \in {None, Unreadable} \cup SUBSET Entries
    /\ approved \notin {None, Unreadable} => approved \in agreed
    /\ switch \in BOOLEAN /\ offering \in BOOLEAN

SyncAlone == \A p, q \in Procs : Syncing(p) /\ Syncing(q) => p = q

\* What a process holds where it is, after n replies.
Brings(r, j, n, lists) ==
    /\ r.pc \in {"refs", "offer", "switch"} => n # 0 /\ j.reply \in [n : {n}, offer : Offers \cup {None}]
    /\ r.pc \in {"answer", "approve"} => j.shown \in SUBSET Entries
    /\ r.pc = "approve" => j.shown \in lists

Holdings ==
    /\ job \in [Procs -> Jobs]
    /\ \A p \in Procs : Brings(proc[p], job[p], replies, agreed)

SyncInv == Kept /\ SyncAlone /\ Holdings

LEMMA SyncInitInv == ScopeInit => SyncInv
<1> SUFFICES ASSUME ScopeInit PROVE SyncInv
  OBVIOUS
<1>1. Kept
  <2>1. switch \in BOOLEAN /\ offering \in BOOLEAN
    BY DEF ScopeInit
  <2>2. replies \in 0..MaxReplies /\ refs \in (0..replies) \cup {None} /\ refs = None
    BY ScopeAssumption DEF ScopeInit
  <2>3. ~Readable(offered) /\ offered = None
    BY DEF ScopeInit, Readable
  <2>4. agreed = {} /\ approved = None
    BY DEF ScopeInit
  <2> QED
    BY <2>1, <2>2, <2>3, <2>4 DEF Kept
<1>2. \A p \in Procs : proc[p].pc = "idle" /\ job[p] = NoJob
  BY DEF ScopeInit, PairInit, Idle
<1>3. NoJob \in Jobs
  BY DEF NoJob, Jobs
<1>4. Holdings
  BY <1>2, <1>3 DEF ScopeInit, Holdings, Brings
<1> QED
  BY <1>1, <1>2, <1>4 DEF SyncInv, SyncAlone, Syncing

\* A step of one process with what it holds.
LEMMA CommandStep ==
    ASSUME PairInv, SyncInv, NEW p \in Procs, NEW r, NEW j \in Jobs,
           proc' = [proc EXCEPT ![p] = r], job' = [job EXCEPT ![p] = j],
           Kept', Brings(r, j, replies', agreed'),
           \A q \in Procs \ {p} : Brings(proc[q], job[q], replies', agreed'),
           r.pc \in {"asking", "refs", "offer", "switch"} => \A q \in Procs \ {p} : ~Syncing(q)
    PROVE  SyncInv'
<1>1. /\ proc'[p] = r /\ job'[p] = j /\ job' \in [Procs -> Jobs]
      /\ \A q \in Procs \ {p} : proc'[q] = proc[q] /\ job'[q] = job[q]
  BY DEF PairInv, PairTyped, SyncInv, Holdings
<1>2. Holdings'
  BY <1>1 DEF Holdings, Brings
<1>3. SyncAlone'
  BY <1>1 DEF SyncInv, SyncAlone, Syncing
<1> QED
  BY <1>2, <1>3 DEF SyncInv

\* If nothing saved changes, it is enough that the process itself is right.
LEMMA CommandOnly ==
    ASSUME PairInv, SyncInv, NEW p \in Procs, NEW r, NEW j \in Jobs,
           proc' = [proc EXCEPT ![p] = r], job' = [job EXCEPT ![p] = j],
           dir.outbox # None => dir'.outbox # None, UNCHANGED <<saved, replies, agreed, offering>>,
           Brings(r, j, replies, agreed),
           r.pc \in {"asking", "refs", "offer", "switch"} => Syncing(p) \/ SyncFree
    PROVE  SyncInv'
<1>1. Kept'
  BY DEF SyncInv, Kept, saved, Readable
<1>2. \A q \in Procs \ {p} : Brings(proc[q], job[q], replies', agreed')
  BY DEF SyncInv, Holdings
<1>3. r.pc \in {"asking", "refs", "offer", "switch"} => \A q \in Procs \ {p} : ~Syncing(q)
  BY DEF SyncInv, SyncAlone, SyncFree
<1> QED
  BY <1>1, <1>2, <1>3, CommandStep

LEMMA SameJob ==
    ASSUME SyncInv, NEW p \in Procs
    PROVE  job[p] \in Jobs /\ job = [job EXCEPT ![p] = job[p]]
           /\ Brings(proc[p], job[p], replies, agreed)
  BY DEF SyncInv, Holdings

LEMMA ResetJob ==
    ASSUME NEW r, r.pc \notin Talking
    PROVE  NoJob \in Jobs /\ Brings(r, NoJob, replies, agreed) /\ Idle.pc \notin Talking
           /\ \A j : Brings(r, j, replies, agreed)
  BY DEF NoJob, Jobs, Brings, Talking, Idle

\* A step of one process that talks neither before nor after it.
LEMMA SilentStep ==
    ASSUME PairInv, SyncInv, NEW p \in Procs, NEW r, r.pc \notin Talking,
           proc' = [proc EXCEPT ![p] = r], job' = job \/ job' = [job EXCEPT ![p] = NoJob],
           dir.outbox # None => dir'.outbox # None, UNCHANGED <<saved, replies, agreed, offering>>
    PROVE  SyncInv'
<1>1. CASE job' = job
  BY <1>1, SameJob, ResetJob, CommandOnly DEF Talking
<1>2. CASE job' = [job EXCEPT ![p] = NoJob]
  BY <1>2, ResetJob, CommandOnly DEF Talking
<1> QED
  BY <1>1, <1>2

-----------------------------------------------------------------------------

\* Setup talks to nobody about the scope, and an outbox stays.
Silent(p) == /\ \E r : proc' = [proc EXCEPT ![p] = r] /\ r.pc \notin Talking
             /\ dir.outbox # None => dir'.outbox # None

LEMMA LeaveIsSilent ==
    ASSUME NEW p \in Procs, Leave(p), dir.outbox # None => dir'.outbox # None
    PROVE  Silent(p)
<1>1. Idle.pc \notin Talking
  BY DEF Idle, Talking
<1>2. proc' = [proc EXCEPT ![p] = Idle]
  BY DEF Leave
<1> QED
  BY <1>1, <1>2 DEF Silent

LEMMA PlaceOf ==
    ASSUME NEW r \in Process, NEW pc
    PROVE  [r EXCEPT !.pc = pc].pc = pc
  BY DEF Process

LEMMA GoIsSilent ==
    ASSUME PairInv, NEW p \in Procs, NEW pc, pc \notin Talking, Go(p, pc),
           dir.outbox # None => dir'.outbox # None
    PROVE  Silent(p)
<1>1. proc[p] \in Process
  BY InsideHolds
<1>2. [proc[p] EXCEPT !.pc = pc].pc = pc
  BY <1>1, PlaceOf
<1> QED
  BY <1>2 DEF Go, Silent

LEMMA PairStepIsSilent ==
    ASSUME PairInv, NEW p \in Procs, PairStep(p)
    PROVE  Silent(p)
<1>a. dir \in Directories /\ proc[p] \in Process
  BY DEF PairInv, PairTyped
<1>1. dir.outbox # None => dir'.outbox # None
  <2>1. CASE OpenOutbox(p)
    BY <1>a, <2>1 DEF OpenOutbox, Directories
  <2>2. CASE NameLock(p) \/ Freeze(p) \/ SaveConnection(p)
    BY <1>a, <2>2 DEF NameLock, Freeze, SaveConnection, Directories
  <2>3. CASE Prepare(p) \/ Mark(p) \/ StartRefused(p)
    BY <1>a, <2>3 DEF Prepare, Mark, StartRefused, Directories
  <2>4. CASE dir' = dir
    BY <2>4
  <2> QED
    BY <2>1, <2>2, <2>3, <2>4 DEF PairStep, Setup, TakeLock, CheckNew, CheckTarget, StartPairing, Exchange,
          GiveUp, Unmoved
<1>2. CASE Setup(p)
  <2>1. PICK t \in Targets, n \in BOOLEAN :
          proc' = [proc EXCEPT ![p] = [cmd |-> "setup", target |-> t, newPair |-> n, pairing |-> None,
                                       pc |-> IF dir.lockFile THEN "lock" ELSE "naming"]]
    BY <1>2 DEF Setup
  <2> DEFINE r == [cmd |-> "setup", target |-> t, newPair |-> n, pairing |-> None,
                   pc |-> IF dir.lockFile THEN "lock" ELSE "naming"]
  <2>2. r.pc \notin Talking
    BY DEF Talking
  <2>3. proc' = [proc EXCEPT ![p] = r]
    BY <2>1
  <2> HIDE DEF r
  <2> QED
    BY <1>1, <2>2, <2>3 DEF Silent
<1>3. CASE Initialize(p)
  <2>1. [Idle EXCEPT !.cmd = "setup", !.pc = "initialize"].pc = "initialize"
    BY DEF Idle
  <2> QED
    BY <1>1, <1>3, <2>1 DEF Initialize, Silent, Talking
<1>4. CASE \E k \in Pairings : proc' = [proc EXCEPT ![p].pc = "poll", ![p].pairing = k]
  <2>1. PICK k \in Pairings : proc' = [proc EXCEPT ![p].pc = "poll", ![p].pairing = k]
    BY <1>4
  <2>2. [proc[p] EXCEPT !.pc = "poll", !.pairing = k].pc = "poll"
    BY <1>a DEF Process
  <2> QED
    BY <1>1, <2>1, <2>2 DEF Silent, Talking
<1>5. CASE Leave(p)
  BY <1>1, <1>5, LeaveIsSilent
<1>6. CASE \E pc \in {"lock", "locked", "frozen", "freeze", "prepare", "start", "mark", "save", "opened"} :
              Go(p, pc)
  BY <1>1, <1>6, GoIsSilent DEF Talking
<1> QED
  BY <1>2, <1>3, <1>4, <1>5, <1>6 DEF PairStep, NameLock, TakeLock, CheckNew, Freeze, CheckTarget,
        Prepare, Mark, StartPairing, StartRefused, Exchange, GiveUp, SaveConnection, OpenOutbox

LEMMA PairNextKeepsSync ==
    ASSUME PairInv, SyncInv, PairNext, UNCHANGED scopeVars
    PROVE  SyncInv'
<1>1. job' = job /\ UNCHANGED <<saved, replies, agreed, offering>>
  BY DEF scopeVars
<1>2. ASSUME NEW p \in Procs, PairStep(p) PROVE SyncInv'
  BY <1>1, <1>2, PairStepIsSilent, SilentStep DEF Silent
<1>3. CASE proc' = proc /\ dir'.outbox = dir.outbox
  <2>1. Kept'
    BY <1>1, <1>3 DEF SyncInv, Kept, saved, Readable
  <2> QED
    BY <1>1, <1>3, <2>1 DEF SyncInv, SyncAlone, Syncing, Holdings, Brings
<1>4. CASE \E k \in Pairings : Approve(k)
  BY <1>3, <1>4 DEF Approve
<1>5. CASE Cooled
  BY <1>3, <1>5 DEF Cooled, PairInv, PairTyped, Directories
<1> QED
  BY <1>2, <1>4, <1>5 DEF PairNext

-----------------------------------------------------------------------------
(* The steps of a command.                                                 *)

\* Those that hold nothing afterwards, or what they held before.
LEMMA SilentCommand ==
    ASSUME PairInv, SyncInv, NEW p \in Procs, Silent(p),
           job' = job \/ job' = [job EXCEPT ![p] = NoJob],
           UNCHANGED <<saved, replies, agreed, offering>>
    PROVE  SyncInv'
<1>1. PICK r : proc' = [proc EXCEPT ![p] = r] /\ r.pc \notin Talking
  BY DEF Silent
<1> QED
  BY <1>1, SilentStep DEF Silent

LEMMA BeginIsSilent ==
    ASSUME PairInv, NEW p \in Procs, NEW cmd, NEW pc \in {"initialize", "scope_now", "check"}, Begin(p, cmd, pc)
    PROVE  Silent(p)
<1>1. proc[p] \in Process
  BY InsideHolds
<1>2. [proc[p] EXCEPT !.cmd = cmd, !.pc = pc].pc = pc
  BY <1>1 DEF Process
<1> QED
  BY <1>2 DEF Begin, Silent, Talking, Unmoved

LEMMA AfterOpeningIsSilent ==
    ASSUME PairInv, NEW p \in Procs, AfterOpening(p), dir.outbox # None => dir'.outbox # None
    PROVE  Silent(p)
BY LeaveIsSilent, GoIsSilent DEF AfterOpening, Talking

LEMMA SilentCommands ==
    ASSUME PairInv, SyncInv, NEW p \in Procs,
           \/ NoRefsYet(p) \/ Command(p) \/ NotAnswered(p) \/ ApproveCommand(p) \/ Check(p) \/ Dies(p)
    PROVE  SyncInv'
<1>1. CASE NoRefsYet(p)
  BY <1>1, AfterOpeningIsSilent, GoIsSilent, SilentCommand DEF NoRefsYet, scopeVars, Talking
<1>2. CASE Command(p)
  BY <1>2, BeginIsSilent, SilentCommand DEF Command, scopeVars
<1>3. CASE NotAnswered(p)
  <2>1. dir'.outbox = dir.outbox
    BY <1>3 DEF NotAnswered, PairInv, PairTyped, Directories
  <2> QED
    BY <1>3, <2>1, LeaveIsSilent, SilentCommand DEF NotAnswered, saved
<1>4. CASE ApproveCommand(p)
  BY <1>4, BeginIsSilent, SilentCommand DEF ApproveCommand, scopeVars
<1>5. CASE Check(p)
  BY <1>5, LeaveIsSilent, GoIsSilent, SilentCommand DEF Check, scopeVars, Talking
<1>6. CASE Dies(p)
  <2>1. dir'.outbox = dir.outbox
    BY <1>6 DEF Dies, Die, PairInv, PairTyped, Directories
  <2> QED
    BY <1>6, <2>1, LeaveIsSilent, SilentCommand DEF Dies, Die
<1> QED
  BY <1>1, <1>2, <1>3, <1>4, <1>5, <1>6

\* One that goes on and holds something, while nothing saved changes.
LEMMA GoingOn ==
    ASSUME PairInv, SyncInv, NEW p \in Procs, NEW pc \in {"asking", "answer"}, NEW j \in Jobs,
           Go(p, pc), job' = [job EXCEPT ![p] = j], UNCHANGED <<dir, saved, replies, agreed, offering>>,
           pc = "answer" => j.shown \in SUBSET Entries,
           pc = "asking" => SyncFree
    PROVE  SyncInv'
<1> DEFINE r == [proc[p] EXCEPT !.pc = pc]
<1>1. r.pc = pc
  BY InsideHolds, PlaceOf
<1>2. proc' = [proc EXCEPT ![p] = r]
  BY DEF Go
<1> HIDE DEF r
<1>3. Brings(r, j, replies, agreed)
  BY <1>1 DEF Brings
<1> QED
  BY <1>1, <1>2, <1>3, CommandOnly

LEMMA TakeSyncLockKeepsSync ==
    ASSUME PairInv, SyncInv, NEW p \in Procs, TakeSyncLock(p)
    PROVE  SyncInv'
<1>1. CASE Leave(p)
  BY <1>1, LeaveIsSilent, SilentCommand DEF TakeSyncLock, scopeVars
<1>2. CASE SyncFree /\ Go(p, "asking")
  BY <1>2, SameJob, GoingOn DEF TakeSyncLock, scopeVars
<1> QED
  BY <1>1, <1>2 DEF TakeSyncLock

\* What the others hold, they hold still, if no reply was given since.
LEMMA OthersStay ==
    ASSUME SyncInv, NEW p \in Procs, replies' = replies, agreed \subseteq agreed'
    PROVE  \A q \in Procs \ {p} : Brings(proc[q], job[q], replies', agreed')
BY DEF SyncInv, Holdings, Brings

LEMMA SeedKeepsSync ==
    ASSUME PairInv, SyncInv, NEW p \in Procs, Seed(p)
    PROVE  SyncInv'
<1>1. dir.outbox # None /\ dir' = dir
  BY InsideHolds DEF Seed, At, Knows, Opened
<1>2. Kept'
  BY <1>1 DEF Seed, SyncInv, Kept, Readable
<1>3. PICK r : proc' = [proc EXCEPT ![p] = r] /\ r.pc \notin Talking
  BY <1>1, AfterOpeningIsSilent DEF Seed, Silent
<1>4. /\ job[p] \in Jobs /\ job' = [job EXCEPT ![p] = job[p]]
      /\ Brings(r, job[p], replies', agreed')
  BY <1>3, SameJob, ResetJob DEF Seed
<1>5. \A q \in Procs \ {p} : Brings(proc[q], job[q], replies', agreed')
  BY OthersStay DEF Seed
<1> QED
  BY <1>2, <1>3, <1>4, <1>5, CommandStep DEF Talking

\* Who holds sync.lock is alone in waiting for a reply or having one.
LEMMA OthersHoldNoReply ==
    ASSUME SyncInv, NEW p \in Procs, Syncing(p)
    PROVE  \A q \in Procs \ {p} : ~Syncing(q)
BY DEF SyncInv, SyncAlone

LEMMA AnsweredKeepsSync ==
    ASSUME PairInv, SyncInv, NEW p \in Procs, Answered(p)
    PROVE  SyncInv'
<1>1. PICK o \in Offers \cup {None} :
        job' = [job EXCEPT ![p].reply = [n |-> replies + 1, offer |-> o]]
  BY DEF Answered
<1> DEFINE j == [job[p] EXCEPT !.reply = [n |-> replies + 1, offer |-> o]]
           r == [proc[p] EXCEPT !.pc = "refs"]
<1>2. replies \in 0..MaxReplies /\ replies < MaxReplies /\ replies' = replies + 1 /\ MaxReplies \in Nat
  BY ScopeAssumption DEF Answered, SyncInv, Kept
<1>3. [n |-> replies + 1, offer |-> o] \in Replies
  BY <1>2 DEF Replies
<1>4. j \in Jobs /\ j.reply = [n |-> replies', offer |-> o]
  BY <1>2, <1>3, SameJob DEF Jobs
<1>5. Kept'
  BY <1>2 DEF SyncInv, Kept, Answered, saved, Readable, SavedOffers
<1>6. r.pc = "refs"
  BY InsideHolds, PlaceOf
<1>7. Brings(r, j, replies', agreed')
  BY <1>2, <1>4, <1>6 DEF Brings
<1>8. \A q \in Procs \ {p} : ~Syncing(q)
  BY OthersHoldNoReply DEF Answered, At, Syncing
<1>9. \A q \in Procs \ {p} : Brings(proc[q], job[q], replies', agreed')
  BY <1>8 DEF SyncInv, Holdings, Brings, Syncing, Answered
<1>10. proc' = [proc EXCEPT ![p] = r] /\ job' = [job EXCEPT ![p] = j]
  BY <1>1 DEF Answered, Go
<1> HIDE DEF j, r
<1> QED
  BY <1>4, <1>5, <1>6, <1>7, <1>8, <1>9, <1>10, CommandStep

\* The two that save what a reply has brought and keep the lock and the reply.
LEMMA SavingStep ==
    ASSUME PairInv, SyncInv, NEW p \in Procs, Syncing(p), NEW pc \in {"offer", "switch"}, Go(p, pc),
           proc[p].pc \in {"refs", "offer"}, Kept', UNCHANGED <<job, replies, agreed>>
    PROVE  SyncInv'
<1> DEFINE r == [proc[p] EXCEPT !.pc = pc]
<1>1. r.pc = pc
  BY InsideHolds, PlaceOf
<1>2. proc' = [proc EXCEPT ![p] = r]
  BY DEF Go
<1> HIDE DEF r
<1>3. job[p] \in Jobs /\ job' = [job EXCEPT ![p] = job[p]] /\ Brings(r, job[p], replies', agreed')
  BY <1>1, SameJob DEF Brings
<1> QED
  BY <1>1, <1>2, <1>3, OthersStay, OthersHoldNoReply, CommandStep

LEMMA ReplyInHand ==
    ASSUME PairInv, SyncInv, NEW p \in Procs, proc[p].pc \in {"refs", "offer", "switch"}
    PROVE  /\ Syncing(p) /\ dir.outbox # None
           /\ job[p].reply.n = replies /\ job[p].reply.offer \in Offers \cup {None}
           /\ replies \in 1..MaxReplies
<1>1. job[p].reply \in [n : {replies}, offer : Offers \cup {None}] /\ dir.outbox # None
  BY InsideHolds, SameJob DEF Brings, Knows, Opened
<1>2. replies \in 1..MaxReplies
  BY SameJob, ScopeAssumption DEF Brings, SyncInv, Kept
<1> QED
  BY <1>1, <1>2 DEF Syncing

LEMMA ReplaceRefsKeepsSync ==
    ASSUME PairInv, SyncInv, NEW p \in Procs, ReplaceRefs(p)
    PROVE  SyncInv'
<1>1. proc[p].pc = "refs"
  BY DEF ReplaceRefs, At
<1>2. Kept'
  BY <1>1, ReplyInHand DEF ReplaceRefs, SyncInv, Kept, Readable
<1> QED
  BY <1>1, <1>2, ReplyInHand, SavingStep DEF ReplaceRefs

LEMMA SaveOfferKeepsSync ==
    ASSUME PairInv, SyncInv, NEW p \in Procs, SaveOffer(p)
    PROVE  SyncInv'
<1> DEFINE r == job[p].reply
           o == [n |-> r.n, entries |-> r.offer.entries, refused |-> r.offer.refused]
<1>1. proc[p].pc = "offer"
  BY DEF SaveOffer, At
<1>2. r.n = replies /\ r.offer \in Offers \cup {None} /\ replies \in 1..MaxReplies
  BY <1>1, ReplyInHand
<1>3. Keeps(r) => o \in SavedOffers /\ o.n = replies
  BY <1>2 DEF Keeps, Offers, SavedOffers
<1>4. (offered' = o /\ Keeps(r)) \/ offered' = offered
  BY DEF SaveOffer
<1>5. offering' \in BOOLEAN
  BY <1>2 DEF SaveOffer, Offers, SyncInv, Kept
<1> HIDE DEF r, o
<1>6. UNCHANGED <<dir, refs, approved, switch, replies, job, agreed>>
  BY DEF SaveOffer
<1>7. Kept'
  BY <1>2, <1>3, <1>4, <1>5, <1>6 DEF SyncInv, Kept, Readable
<1> QED
  BY <1>1, <1>6, <1>7, ReplyInHand, SavingStep DEF SaveOffer

LEMMA NoteDeclaredRunKeepsSync ==
    ASSUME PairInv, SyncInv, NEW p \in Procs, NoteDeclaredRun(p)
    PROVE  SyncInv'
<1>1. Silent(p)
  BY LeaveIsSilent, GoIsSilent DEF NoteDeclaredRun, Talking
<1>2. PICK r : proc' = [proc EXCEPT ![p] = r] /\ r.pc \notin Talking
  BY <1>1 DEF Silent
<1>3. switch' \in BOOLEAN
  <2>1. switch' = IF Refused(job[p].reply) THEN switch ELSE job[p].reply.n \in Accepting
    BY DEF NoteDeclaredRun
  <2>2. switch \in BOOLEAN
    BY DEF SyncInv, Kept
  <2>3. CASE Refused(job[p].reply)
    BY <2>1, <2>2, <2>3
  <2>4. CASE ~Refused(job[p].reply)
    BY <2>1, <2>4
  <2> QED
    BY <2>3, <2>4
<1>4. Kept'
  BY <1>3 DEF NoteDeclaredRun, SyncInv, Kept, Readable
<1>5. \A q \in Procs \ {p} : Brings(proc[q], job[q], replies', agreed')
  BY OthersStay DEF NoteDeclaredRun
<1>6. NoJob \in Jobs /\ Brings(r, NoJob, replies', agreed') /\ job' = [job EXCEPT ![p] = NoJob]
  BY <1>2, ResetJob DEF NoteDeclaredRun
<1> QED
  BY <1>2, <1>4, <1>5, <1>6, CommandStep DEF Talking

LEMMA ShowKeepsSync ==
    ASSUME PairInv, SyncInv, NEW p \in Procs, Show(p)
    PROVE  SyncInv'
<1>1. CASE Leave(p) /\ UNCHANGED job
  BY <1>1, LeaveIsSilent, SilentCommand DEF Show
<1>2. ASSUME offered # Unreadable, Go(p, "answer"),
             job' = [job EXCEPT ![p].shown = IF offered = None THEN {} ELSE offered.entries]
      PROVE  SyncInv'
  <2> DEFINE list == IF offered = None THEN {} ELSE offered.entries
             j == [job[p] EXCEPT !.shown = list]
  <2>1. list \in SUBSET Entries
    BY <1>2 DEF SyncInv, Kept, SavedOffers
  <2>2. j \in Jobs /\ j.shown = list
    BY <2>1, SameJob DEF Jobs
  <2>3. job' = [job EXCEPT ![p] = j]
    BY <1>2
  <2> HIDE DEF list, j
  <2> QED
    BY <1>2, <2>1, <2>2, <2>3, GoingOn DEF Show
<1> QED
  BY <1>1, <1>2 DEF Show

LEMMA AnswerKeepsSync ==
    ASSUME PairInv, SyncInv, NEW p \in Procs, Answer(p)
    PROVE  SyncInv'
<1>1. CASE Leave(p) /\ job' = [job EXCEPT ![p] = NoJob] /\ UNCHANGED agreed
  BY <1>1, LeaveIsSilent, SilentCommand DEF Answer
<1>2. CASE Go(p, "approve") /\ agreed' = agreed \cup {job[p].shown} /\ UNCHANGED job
  <2> DEFINE r == [proc[p] EXCEPT !.pc = "approve"]
  <2>1. r.pc = "approve"
    BY InsideHolds, PlaceOf
  <2>2. proc' = [proc EXCEPT ![p] = r]
    BY <1>2 DEF Go
  <2> HIDE DEF r
  <2>3. job[p].shown \in SUBSET Entries
    BY SameJob DEF Answer, At, Brings
  <2>4. job[p] \in Jobs /\ job' = [job EXCEPT ![p] = job[p]] /\ Brings(r, job[p], replies', agreed')
    BY <1>2, <2>1, <2>3, SameJob DEF Brings
  <2>5. agreed' \subseteq SUBSET Entries /\ agreed \subseteq agreed'
    BY <1>2, <2>3 DEF SyncInv, Kept
  <2>6. Kept'
    BY <2>5 DEF Answer, SyncInv, Kept, saved, Readable
  <2> QED
    BY <2>1, <2>2, <2>4, <2>5, <2>6, OthersStay, CommandStep DEF Answer
<1> QED
  BY <1>1, <1>2 DEF Answer

LEMMA ApproveShownKeepsSync ==
    ASSUME PairInv, SyncInv, NEW p \in Procs, ApproveShown(p)
    PROVE  SyncInv'
<1>1. PICK r : proc' = [proc EXCEPT ![p] = r] /\ r.pc \notin Talking
  BY LeaveIsSilent DEF ApproveShown, Silent
<1>2. approved' \in SUBSET Entries /\ approved' \in agreed
  BY SameJob DEF ApproveShown, At, ToApprove, Brings
<1>3. Kept'
  BY <1>2 DEF ApproveShown, SyncInv, Kept, Readable
<1>4. \A q \in Procs \ {p} : Brings(proc[q], job[q], replies', agreed')
  BY OthersStay DEF ApproveShown
<1>5. NoJob \in Jobs /\ Brings(r, NoJob, replies', agreed') /\ job' = [job EXCEPT ![p] = NoJob]
  BY <1>1, ResetJob DEF ApproveShown
<1> QED
  BY <1>1, <1>3, <1>4, <1>5, CommandStep DEF Talking

\* Hooks change none of it, and damage leaves what was agreed to.
LEMMA WorldKeepsSync ==
    ASSUME SyncInv, UNCHANGED <<dir, proc, refs, switch, replies, job, agreed, offering>>,
           offered' \in {offered, Unreadable}, approved' \in {approved, Unreadable}
    PROVE  SyncInv'
<1>1. Kept'
  BY DEF SyncInv, Kept, Readable
<1> QED
  BY <1>1 DEF SyncInv, SyncAlone, Syncing, Holdings

LEMMA ScopeKeepsSyncInv ==
    ASSUME PairInv, SyncInv, [ScopeNext]_allVars
    PROVE  SyncInv'
<1>1. CASE PairNext /\ UNCHANGED scopeVars
  BY <1>1, PairNextKeepsSync
<1>2. ASSUME NEW p \in Procs,
             \/ NoRefsYet(p) \/ Seed(p) \/ Command(p) \/ TakeSyncLock(p) \/ Answered(p) \/ NotAnswered(p)
             \/ ReplaceRefs(p) \/ SaveOffer(p) \/ NoteDeclaredRun(p)
             \/ ApproveCommand(p) \/ Check(p) \/ Show(p) \/ Answer(p) \/ ApproveShown(p) \/ Dies(p)
      PROVE  SyncInv'
  BY <1>2, SilentCommands, SeedKeepsSync, TakeSyncLockKeepsSync, AnsweredKeepsSync, ReplaceRefsKeepsSync,
     SaveOfferKeepsSync, NoteDeclaredRunKeepsSync, ShowKeepsSync, AnswerKeepsSync, ApproveShownKeepsSync
<1>3. CASE HookOnly
  BY <1>3, WorldKeepsSync DEF HookOnly, pairVars, saved
<1>4. CASE Damage
  BY <1>4, WorldKeepsSync DEF Damage, pairVars
<1>5. CASE UNCHANGED allVars
  BY <1>5, WorldKeepsSync DEF allVars, pairVars, scopeVars, saved
<1> QED
  BY <1>1, <1>2, <1>3, <1>4, <1>5 DEF ScopeNext, ScopeStep, HookStart, ReadApproved, ReadOffered, Locate,
        Collected, HookEnd

LEMMA ScopeHasSyncInv == ScopeSpec => [](PairInv /\ SyncInv)
<1>1. ScopeInit => SyncInv
  BY SyncInitInv
<1>2. PairInv /\ SyncInv /\ [ScopeNext]_allVars => SyncInv'
  BY ScopeKeepsSyncInv
<1> QED
  BY <1>1, <1>2, ScopeHasPairInv, PTL DEF ScopeSpec

-----------------------------------------------------------------------------
(* The order of the replies. *)

\* What a step may do to references and offer.
InOrder ==
    /\ refs # None => refs' # None /\ refs' >= refs
    /\ Readable(offered) /\ Readable(offered') => offered'.n >= offered.n

\* References only go to a later reply, an offer too.
LEMMA StepsInOrder ==
    ASSUME PairInv, SyncInv, [ScopeNext]_allVars
    PROVE  InOrder
<1>1. /\ refs \in (0..replies) \cup {None} /\ replies \in Nat
      /\ offered \in {None, Unreadable} \cup SavedOffers
      /\ Readable(offered) => offered.n <= replies /\ offered.n \in Nat
  BY ScopeAssumption DEF SyncInv, Kept, Readable, SavedOffers
<1>2. CASE refs' = refs /\ offered' \in {offered, None, Unreadable}
  BY <1>1, <1>2 DEF InOrder, Readable
<1>3. ASSUME NEW p \in Procs, Seed(p) PROVE InOrder
  BY <1>1, <1>3 DEF Seed, InOrder
<1>4. ASSUME NEW p \in Procs, ReplaceRefs(p) PROVE InOrder
  <2>1. refs' = replies /\ offered' = offered
    BY <1>4, ReplyInHand DEF ReplaceRefs, At
  <2> QED
    BY <1>1, <2>1, NamesAssumption DEF InOrder
<1>5. ASSUME NEW p \in Procs, SaveOffer(p) PROVE InOrder
  <2>1. refs' = refs
    BY <1>5 DEF SaveOffer
  <2>2. job[p].reply.n = replies
    BY <1>5, ReplyInHand DEF SaveOffer, At
  <2>3. offered' = offered \/ offered'.n = replies
    BY <1>5, <2>2 DEF SaveOffer
  <2> QED
    BY <1>1, <2>1, <2>3 DEF InOrder
<1>6. ASSUME NEW p \in Procs,
             \/ NoRefsYet(p) \/ Command(p) \/ TakeSyncLock(p) \/ Answered(p) \/ NotAnswered(p) \/ NoteDeclaredRun(p)
             \/ ApproveCommand(p) \/ Check(p) \/ Show(p) \/ Answer(p) \/ ApproveShown(p) \/ Dies(p)
      PROVE  refs' = refs /\ offered' = offered
  BY <1>6 DEF NoRefsYet, Command, TakeSyncLock, Answered, NotAnswered, NoteDeclaredRun, ApproveCommand, Check,
        Show, Answer, ApproveShown, Dies, scopeVars, saved
<1> QED
  BY <1>2, <1>3, <1>4, <1>5, <1>6 DEF ScopeNext, ScopeStep, HookStart, ReadApproved, ReadOffered, Locate,
        Collected, HookEnd, HookOnly, Damage, allVars, scopeVars, saved

\* Whoever asks while others seed, refresh, approve or die, references and
\* offer never go back to an earlier reply (seed_refs, scope_now).
THEOREM RepliesAreInOrder == ScopeSpec => RepliesInOrder
<1>1. PairInv /\ SyncInv /\ [ScopeNext]_allVars => [InOrder]_allVars
  BY StepsInOrder
<1> QED
  BY <1>1, ScopeHasSyncInv, PTL DEF ScopeSpec, RepliesInOrder, InOrder

-----------------------------------------------------------------------------
(* What a hook has read.                                                   *)

HookStates == [pc   : {"idle", "approved", "offered", "locate", "collect"},
               env  : SUBSET Entries,
               saw  : {None, Unreadable},
               orch : Entries \cup {None, "unapproved"},
               run  : BOOLEAN]

Unapproved(list) == list \in {None, Unreadable, {}}

\* What a hook has where it is; d says that its row must have been marked.
Reads(k, d, list, lists, waits) ==
    /\ k.orch \in Entries => k.orch \in UNION lists
    /\ k.pc = "idle" => k.env = {}
    /\ k.pc = "approved" /\ d => MustMark(k.env, list, waits)
    /\ k.pc = "offered" /\ d => waits
    /\ k.pc = "locate" /\ d => k.orch # None

HookInv ==
    /\ hook \in [Hooks -> HookStates]
    /\ offering => OfferUnanswered(offered)
    /\ \A h \in Hooks : Reads(hook[h], due[h], approved, agreed, offering)

LEMMA HookInitInv == ScopeInit => HookInv
<1> SUFFICES ASSUME ScopeInit PROVE HookInv
  OBVIOUS
<1>1. Resting \in HookStates
  BY DEF Resting, HookStates
<1>2. \A h \in Hooks : hook[h] = Resting
  BY DEF ScopeInit
<1>3. Resting.orch \notin Entries /\ Resting.pc = "idle" /\ Resting.env = {}
  BY NamesAssumption DEF Resting
<1> QED
  BY <1>1, <1>2, <1>3 DEF ScopeInit, HookInv, Reads

\* Who leaves the hooks alone, but perhaps not what they read.
LEMMA HooksStay ==
    ASSUME HookInv, Watch, hook' = hook, agreed \subseteq agreed', offering' => OfferUnanswered(offered')
    PROVE  HookInv'
<1>1. ASSUME NEW h \in Hooks
      PROVE  Reads(hook'[h], due'[h], approved', agreed', offering')
  <2>1. Reads(hook[h], due[h], approved, agreed, offering) /\ hook[h] \in HookStates
    BY DEF HookInv
  <2>2. due'[h] = /\ hook[h].pc \notin {"idle", "collect"}
                  /\ hook[h].pc = "idle" \/ due[h]
                  /\ hook[h].pc # "locate" => /\ MustMark(hook[h].env \cup hook[h].env, approved', offering')
                                              /\ hook[h].pc = "offered" => offering'
    BY DEF Watch
  <2>3. hook[h].env \cup hook[h].env = hook[h].env
    OBVIOUS
  <2>4. hook[h].pc = "offered" /\ due'[h] => offering'
    BY <2>2
  <2>5. hook[h].pc = "approved" /\ due'[h] => MustMark(hook[h].env, approved', offering')
    BY <2>2, <2>3
  <2>6. hook[h].orch \in Entries => hook[h].orch \in UNION agreed'
    BY <2>1 DEF Reads
  <2>7. hook[h].pc = "locate" /\ due'[h] => hook[h].orch # None
    BY <2>1, <2>2 DEF Reads
  <2> QED
    BY <2>1, <2>4, <2>5, <2>6, <2>7 DEF Reads
<1> QED
  BY <1>1 DEF HookInv, OfferUnanswered, Readable

\* A step of one hook.
LEMMA HookStep ==
    ASSUME HookInv, Watch, HookOnly, NEW h \in Hooks, NEW k \in HookStates, Hook(h, k),
           Reads(k, due'[h], approved, agreed, offering)
    PROVE  HookInv'
<1>1. UNCHANGED <<approved, offered, offering, agreed>>
  BY DEF HookOnly, saved
<1>2. hook' \in [Hooks -> HookStates] /\ hook'[h] = k /\ \A i \in Hooks \ {h} : hook'[i] = hook[i]
  BY DEF Hook, HookInv
<1>3. ASSUME NEW i \in Hooks \ {h}
      PROVE  Reads(hook[i], due'[i], approved, agreed, offering)
  <2>1. Reads(hook[i], due[i], approved, agreed, offering)
    BY DEF HookInv
  <2>2. due'[i] => due[i] \/ hook[i].pc = "idle"
    BY <1>2 DEF Watch
  <2> QED
    BY <2>1, <2>2 DEF Reads
<1> QED
  BY <1>1, <1>2, <1>3 DEF HookInv, OfferUnanswered, Readable

LEMMA HookAt ==
    ASSUME HookInv, NEW h \in Hooks
    PROVE  hook[h] \in HookStates /\ Reads(hook[h], due[h], approved, agreed, offering)
BY DEF HookInv

\* Setting a field of a resting hook to what it is changes nothing.
LEMMA RestingAgain ==
    /\ Resting = [Resting EXCEPT !.pc = "idle", !.run = FALSE]
    /\ \A pc : [Resting EXCEPT !.pc = pc] = [Resting EXCEPT !.pc = pc, !.orch = None]
<1>1. DOMAIN Resting = {"pc", "env", "saw", "orch", "run"} /\ Resting.pc = "idle" /\ Resting.run = FALSE /\ Resting.orch = None
      /\ Resting = [i \in DOMAIN Resting |-> Resting[i]]
  BY DEF Resting
<1> QED
  BY <1>1

\* At rest, or with a row in hand.
LEMMA HookRests ==
    ASSUME HookInv, Watch, HookOnly, NEW h \in Hooks, NEW pc \in {"idle", "collect"}, NEW run \in BOOLEAN,
           Hook(h, [Resting EXCEPT !.pc = pc, !.run = run])
    PROVE  HookInv'
<1> DEFINE k == [Resting EXCEPT !.pc = pc, !.run = run]
<1>1. k \in HookStates /\ k.pc = pc /\ k.orch = None /\ k.env = {}
  BY DEF Resting, HookStates
<1> HIDE DEF k
<1>2. Reads(k, due'[h], approved, agreed, offering)
  BY <1>1, NamesAssumption DEF Reads
<1> QED
  BY <1>1, <1>2, HookStep DEF k

LEMMA HookStartInv ==
    ASSUME HookInv, Watch, NEW h \in Hooks, HookStart(h)
    PROVE  HookInv'
<1>1. PICK env \in {{}} \cup {{e} : e \in Entries} :
        Hook(h, [Resting EXCEPT !.pc = "approved", !.env = env])
  BY DEF HookStart
<1> DEFINE k == [Resting EXCEPT !.pc = "approved", !.env = env]
<1>2. k \in HookStates /\ k.pc = "approved" /\ k.env = env /\ k.orch = None
  BY <1>1 DEF Resting, HookStates
<1> HIDE DEF k
<1>3. hook'[h] = k /\ approved' = approved /\ offering' = offering
  BY <1>1 DEF k, Hook, HookInv, HookStart, HookOnly, saved
<1>4. hook[h].pc = "idle"
  BY DEF HookStart
<1>5. hook[h].env = {}
  BY <1>4, HookAt DEF Reads
<1>6. due'[h] => MustMark(hook[h].env \cup k.env, approved, offering)
  BY <1>2, <1>3, <1>4 DEF Watch
<1>7. hook[h].env \cup k.env = k.env
  BY <1>5
<1>8. Reads(k, due'[h], approved, agreed, offering)
  BY <1>2, <1>6, <1>7, NamesAssumption DEF Reads
<1> QED
  BY <1>1, <1>2, <1>8, HookStep DEF k, HookStart

LEMMA ReadApprovedInv ==
    ASSUME HookInv, Kept, Watch, NEW h \in Hooks, ReadApproved(h)
    PROVE  HookInv'
<1> DEFINE was == hook[h]
<1>1. was \in HookStates /\ was.pc = "approved" /\ Reads(was, due[h], approved, agreed, offering)
  BY HookAt DEF ReadApproved
<1>2. approved' = approved /\ offering' = offering /\ HookOnly
  BY DEF ReadApproved, HookOnly, saved
<1>3. approved = Unreadable \/ Approval(approved) = {} <=> Unapproved(approved)
  BY DEF Approval, Unapproved
<1>4. approved \in SUBSET Entries \/ Unapproved(approved)
  BY DEF Kept, Unapproved
<1>5. CASE Unapproved(approved)
  <2> DEFINE k == [was EXCEPT !.pc = "offered", !.saw = IF approved = Unreadable THEN Unreadable ELSE None]
  <2>1. k \in HookStates /\ k.pc = "offered" /\ k.env = was.env /\ k.orch = was.orch
    BY <1>1 DEF HookStates
  <2>2. Hook(h, k)
    BY <1>3, <1>5 DEF ReadApproved
  <2> HIDE DEF k
  <2>3. hook'[h] = k
    BY <2>2 DEF Hook, HookInv
  <2>4. due'[h] => due[h] /\ MustMark(was.env \cup k.env, approved, offering)
    BY <1>1, <1>2, <2>1, <2>3 DEF Watch
  <2>5. due'[h] => offering
    BY <1>5, <2>4 DEF MustMark, Unapproved
  <2>6. Reads(k, due'[h], approved, agreed, offering)
    BY <1>1, <1>5, <2>1, <2>5 DEF Reads
  <2> QED
    BY <1>2, <2>1, <2>2, <2>6, HookStep
<1>6. CASE ~Unapproved(approved)
  <2>1. PICK o \in IF Naming(was.env) = {} THEN {None} ELSE Naming(was.env) :
          Hook(h, [Resting EXCEPT !.pc = "locate", !.orch = o])
    BY <1>3, <1>6 DEF ReadApproved
  <2> DEFINE k == [Resting EXCEPT !.pc = "locate", !.orch = o]
  <2>2. approved \in SUBSET Entries /\ approved \in agreed
    BY <1>4, <1>6 DEF Kept, Unapproved
  <2>3. o = None \/ o \in approved
    BY <2>1 DEF Naming
  <2>4. k \in HookStates /\ k.pc = "locate" /\ k.env = {} /\ k.orch = o
    BY <2>2, <2>3 DEF Resting, HookStates
  <2> HIDE DEF k
  <2>5. hook'[h] = k
    BY <2>1 DEF k, Hook, HookInv
  <2>6. due'[h] => MustMark(was.env \cup k.env, approved, offering)
    BY <1>1, <1>2, <2>4, <2>5 DEF Watch
  <2>7. due'[h] => approved \cap was.env # {}
    BY <1>6, <2>4, <2>6 DEF MustMark, Unapproved
  <2>8. due'[h] => o # None
    BY <2>1, <2>2, <2>7, NamesAssumption DEF Naming
  <2>9. Reads(k, due'[h], approved, agreed, offering)
    BY <2>2, <2>3, <2>4, <2>8, NamesAssumption DEF Reads
  <2> QED
    BY <1>2, <2>1, <2>4, <2>9, HookStep DEF k
<1> QED
  BY <1>5, <1>6

LEMMA ReadOfferedInv ==
    ASSUME HookInv, Watch, NEW h \in Hooks, ReadOffered(h)
    PROVE  HookInv'
<1>1. HookOnly /\ hook[h].pc = "offered"
  BY DEF ReadOffered
<1>2. due'[h] => due[h]
  BY <1>1 DEF Watch
<1>3. due'[h] => OfferUnanswered(offered)
  BY <1>1, <1>2, HookAt DEF Reads, HookInv
<1>4. ASSUME NEW pc \in {"idle", "locate"}, NEW o \in {None, "unapproved"},
             Hook(h, [Resting EXCEPT !.pc = pc, !.orch = o]), due'[h] => o # None
      PROVE  HookInv'
  <2> DEFINE k == [Resting EXCEPT !.pc = pc, !.orch = o]
  <2>1. k \in HookStates /\ k.pc = pc /\ k.env = {} /\ k.orch = o
    BY DEF Resting, HookStates
  <2> HIDE DEF k
  <2>2. Reads(k, due'[h], approved, agreed, offering)
    BY <1>4, <2>1, NamesAssumption DEF Reads
  <2> QED
    BY <1>1, <1>4, <2>1, <2>2, HookStep DEF k
<1>5. CASE OfferUnanswered(offered)
  BY <1>4, <1>5, NamesAssumption DEF ReadOffered
<1>6. CASE ~OfferUnanswered(offered)
  <2> DEFINE pc == IF hook[h].saw = Unreadable THEN "idle" ELSE "locate"
  <2>1. Hook(h, [Resting EXCEPT !.pc = pc])
    BY <1>6 DEF ReadOffered
  <2>2. [Resting EXCEPT !.pc = pc] = [Resting EXCEPT !.pc = pc, !.orch = None]
    BY RestingAgain
  <2> QED
    BY <1>3, <1>4, <1>6, <2>1, <2>2
<1> QED
  BY <1>5, <1>6

LEMMA HookStepsInv ==
    ASSUME HookInv, Kept, Watch, NEW h \in Hooks,
           \/ HookStart(h) \/ ReadApproved(h) \/ ReadOffered(h) \/ Locate(h) \/ Collected(h) \/ HookEnd(h)
    PROVE  HookInv'
<1>1. Resting = [Resting EXCEPT !.pc = "idle", !.run = FALSE]
  BY RestingAgain
<1>2. CASE HookOnly /\ Hook(h, Resting)
  BY <1>1, <1>2, HookRests
<1>3. CASE Locate(h)
  <2>1. PICK inside \in BOOLEAN, consent \in BOOLEAN, said \in BOOLEAN :
          Hook(h, IF Located(h, inside, consent)
                  THEN [Resting EXCEPT !.pc = "collect", !.run = said /\ switch] ELSE Resting)
    BY <1>3 DEF Locate
  <2>2. (said /\ switch) \in BOOLEAN
    BY DEF Kept
  <2> QED
    BY <1>2, <1>3, <2>1, <2>2, HookRests DEF Locate
<1> QED
  BY <1>2, <1>3, HookStartInv, ReadApprovedInv, ReadOfferedInv DEF Collected, HookEnd

-----------------------------------------------------------------------------

\* A reply that reaches the offer leaves one that reads as unanswered, if it
\* offered something.
LEMMA SaveOfferInv ==
    ASSUME PairInv, SyncInv, HookInv, NEW p \in Procs, SaveOffer(p)
    PROVE  offering' => OfferUnanswered(offered')
<1> DEFINE r == job[p].reply
           o == [n |-> r.n, entries |-> r.offer.entries, refused |-> r.offer.refused]
<1>1. r.n = replies /\ r.offer \in Offers \cup {None} /\ replies \in 1..MaxReplies
  BY ReplyInHand DEF SaveOffer, At
<1>2. CASE Keeps(r)
  <2>1. o \in SavedOffers
    BY <1>1, <1>2 DEF Keeps, Offers, SavedOffers
  <2>2. Readable(o)
    BY <2>1, NamesAssumption DEF Readable
  <2> QED
    BY <1>2, <2>2 DEF SaveOffer, Keeps, OfferUnanswered
<1>3. CASE ~Keeps(r) /\ r.offer # None
  BY <1>3 DEF SaveOffer, Keeps, EntriesSaved, OfferUnanswered
<1>4. CASE r.offer = None
  BY <1>4 DEF SaveOffer, Keeps, HookInv, OfferUnanswered, Readable
<1> QED
  BY <1>2, <1>3, <1>4

LEMMA ScopeKeepsHookInv ==
    ASSUME PairInv, SyncInv, HookInv, [ScopeNext]_allVars
    PROVE  HookInv'
<1>1. CASE UNCHANGED allVars
  BY <1>1 DEF allVars, scopeVars, saved, HookInv, Reads, MustMark, Unapproved, OfferUnanswered, Readable
<1> SUFFICES ASSUME ScopeStep, Watch PROVE HookInv'
  BY <1>1 DEF ScopeNext
<1>2. CASE UNCHANGED <<hook, agreed, offered, offering>>
  BY <1>2, HooksStay DEF HookInv, OfferUnanswered, Readable
<1>3. ASSUME NEW p \in Procs, SaveOffer(p) PROVE HookInv'
  BY <1>3, SaveOfferInv, HooksStay DEF SaveOffer
<1>4. ASSUME NEW p \in Procs, Answer(p) PROVE HookInv'
  <2>1. hook' = hook /\ agreed \subseteq agreed' /\ UNCHANGED <<offered, offering>>
    BY <1>4 DEF Answer, saved
  <2> QED
    BY <2>1, HooksStay DEF HookInv, OfferUnanswered, Readable
<1>5. ASSUME NEW p \in Procs,
             \/ NoRefsYet(p) \/ Seed(p) \/ Command(p) \/ TakeSyncLock(p) \/ Answered(p) \/ NotAnswered(p)
             \/ ReplaceRefs(p) \/ NoteDeclaredRun(p)
             \/ ApproveCommand(p) \/ Check(p) \/ Show(p) \/ ApproveShown(p) \/ Dies(p)
      PROVE  UNCHANGED <<hook, agreed, offered, offering>>
  BY <1>5 DEF NoRefsYet, Seed, Command, TakeSyncLock, Answered, NotAnswered, ReplaceRefs, NoteDeclaredRun,
        ApproveCommand, Check, Show, ApproveShown, Dies, scopeVars, saved
<1>6. CASE Damage
  <2>1. hook' = hook /\ agreed' = agreed /\ offering' = offering /\ offered' \in {offered, Unreadable}
    BY <1>6 DEF Damage
  <2> QED
    BY <2>1, HooksStay DEF HookInv, OfferUnanswered, Readable
<1>7. CASE PairNext /\ UNCHANGED scopeVars
  BY <1>2, <1>7 DEF scopeVars, saved
<1> QED
  BY <1>2, <1>3, <1>4, <1>5, <1>6, <1>7, HookStepsInv DEF ScopeStep, SyncInv

LEMMA ScopeHasHookInv == ScopeSpec => [](PairInv /\ SyncInv /\ HookInv)
<1>1. ScopeInit => HookInv
  BY HookInitInv
<1>2. PairInv /\ SyncInv /\ HookInv /\ [ScopeNext]_allVars => HookInv'
  BY ScopeKeepsHookInv
<1> QED
  BY <1>1, <1>2, ScopeHasSyncInv, PTL DEF ScopeSpec

\* Every name on the approved list, and every name a hook gives a run, was
\* shown to a person who agreed, whatever the server answers in between.
THEOREM NamesAreShown == ScopeSpec => []NamesWereShown
<1>1. SyncInv /\ HookInv => NamesWereShown
  BY DEF SyncInv, Kept, HookInv, Reads, NamesWereShown
<1> QED
  BY <1>1, ScopeHasHookInv, PTL

\* However the steps of a hook fall between those of the commands, it marks
\* the row of a run which all the while had to be marked.
THEOREM AgentRunsAreMarked == ScopeSpec => []AgentRunsMarked
<1>1. HookInv => AgentRunsMarked
  BY DEF HookInv, Reads, AgentRunsMarked
<1> QED
  BY <1>1, ScopeHasHookInv, PTL

\* The variables keep their types and one process holds sync.lock, with the
\* reply that was given last.
THEOREM ScopeIsTyped == ScopeSpec => []ScopeTypeOK
<1>1. ASSUME PairInv PROVE PairTypeOK
  BY <1>1, InsideHolds DEF PairInv, PairTyped, Known, Alone, Agree, PairTypeOK, Knows
<1>2. ASSUME PairInv, SyncInv, HookInv PROVE ScopeTypeOK
  <2>1. refs \in (0..MaxReplies) \cup {None} /\ (Readable(offered) => offered \in SavedOffers /\ offered.n <= replies)
    BY <1>2, ScopeAssumption DEF SyncInv, Kept, Readable
  <2>2. {switch, offering} \subseteq BOOLEAN
    BY <1>2 DEF SyncInv, Kept
  <2>3. ASSUME NEW p \in Procs
        PROVE  /\ proc[p].pc \in {"refs", "offer", "switch"} => job[p].reply \in [n : {replies}, offer : Offers \cup {None}]
               /\ proc[p].pc \in {"answer", "approve"} => job[p].shown \subseteq Entries
    BY <1>2, SameJob DEF Brings
  <2>4. \A h \in Hooks : hook[h].orch \in Entries \cup {None, "unapproved"}
    BY <1>2 DEF HookInv, HookStates
  <2> QED
    BY <1>1, <1>2, <2>1, <2>2, <2>3, <2>4 DEF SyncInv, Kept, SyncAlone, ScopeTypeOK
<1> QED
  BY <1>1, <1>2, ScopeHasHookInv, PTL
=============================================================================
