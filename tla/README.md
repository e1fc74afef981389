# A TLA+ verification of devdiary-cli

The repository holds two programs that observe an AI coding assistant and send
what they see to a DevDiary server:

* the **collector** (`collector-rs/`, Rust): hooks that the assistant starts at
  every event store an observation in a SQLite outbox; a systemd timer, or a
  person, delivers the outbox over HTTP;
* the **launcher and observer** (`src/devdiary/`, Python): `devdiary run` wraps
  a command, records it durably, and delivers one terminal envelope for it;
  `devdiary observe` is an older sibling of the collector's hooks.

Everything interesting in them happens *between processes*: hooks, timers,
launchers and people share files and databases, any of them can be killed at
any point (a hook kills itself after 700 ms), and the server's answers can be
lost. Unit tests run one process at a time; these models run all of them, and
stop them everywhere.

Paths below are relative to the repository; `PROJECT.json` maps every
definition of the modules to the source lines it stands for.

---

## 1. Inventory

### Collector (Rust)

| Part | State | Operations | Interacts with | What makes it hard | What makes it correct |
|---|---|---|---|---|---|
| **Outbox store and sync** (`store.rs`) | tables `outbox`, `delivered`, `scope`; marker `revoked`; `sync.lock` | `collect`, `counts`, `sync_report` (`batch`, `deliver`, `compact`) | hooks insert; timer and person sync; server | many short commits, killed between any two; lost answers; row numbers reused by SQLite; two syncs | no accepted observation is lost; counts add up; the server's waits are respected; no row starves another |
| **Drop counters** (`drops.rs`) | `drops.log`, `drops.log.folding`, tables `drops`, `drops_folded` | `note`, `fold`, `counts` | hooks append; sync folds; health reads | rename under writers, inode reuse, death between the commit and the unlink, readers without a lock | every drop counted once; the log bounded; status never overstates |
| **Timer drain** (`install.rs` `drain`) | local to a run | up to 10 calls of `sync_report` | outbox, hooks, a manual sync | a budget computed from a count taken after the first call | tries every row; sends none twice |
| **Hook capture, watchdog** (`claude.rs`, `main.rs`) | none of its own | verify registration, take the shared lock, collect | registration, brackets, outbox, drops | the process ends itself after 700 ms wherever it is | a row only for an active registration |
| **Tool-call brackets** (`claude.rs` `bracket`, `store.rs`, `reflog.rs`) | table `bracket_marks`; git's HEAD reflog | open, close, release, prune; read what the reflog gained | hooks of several sessions; git | hooks late, repeated, missing or dead; reflog rewritten; time stamps taken before waits | a call's row names its own commits, nothing older, and says when another session ran too |
| **Hook registration** (`claude.rs`) | plan file, `.registration.json`, the assistant's settings file, lock file in the state directory | `plan`, `apply`, `remove`, `status`, the hook's own verification | customer edits the settings; hooks read; operators | no transaction over three files; compare-and-rename; retry after a stop | removal leaves nothing, gives the customer's JSON back, loses no edit, can be resumed after a stop |
| **Install lifecycle** (`install.rs`, `systemd.rs`) | `install.json`, unit files | install, upgrade, uninstall, timer | registration, pairing | steps of several files in sequence, stopped between any two | the record names the hooks in place |
| **Pairing** (`pairing.rs`) | `setup.lock`, `installation.json`, attempt marker, cooldown, `connection.json`, outbox directory | `setup` (start, poll, exchange, save), opening a saved connection | browser, server; every paired command opens the connection | the exchange is consumed before the connection is saved; a retry with another target; a crash between two files | one credential, for the first target; a second pairing only when asked for |
| **Scope refresh, control planes** (`store.rs`, `orchestrators.rs`, `install.rs`) | references, offer, approved list, declared-run switch, `sync.lock` | seeding, refresh (alone or in a sync), approval in a terminal | server; a person; hooks read without a lock | one reply is several writes; an approval crosses a refresh; hooks read two files one after the other | never back to an older answer; no name used that nobody agreed to; an agent's row never reads as its owner's |
| **Wire format** (`lib.rs`, `ordered.rs`, `vendor.rs`, `outside.rs`, `checkout.rs`) | none | canonical JSON, path classification | — | pure | — |

### Launcher and observer (Python)

| Part | State | Operations | Interacts with | What makes it hard | What makes it correct |
|---|---|---|---|---|---|
| **Durable capture** (`capture.py`, `capture_store.py`) | table `captures`, one context file per capture | begin, freeze, finish, retry, deliver | launchers, commands, server | the write lock is held across HTTP; two processes end one capture with different claims; replays | one envelope per run, ever; delivered only when the server has it |
| **Launcher** (`runner.py`, `process_tree.py`) | the child, its process group | spawn, attach, signals, stop tree, exit code | capture, spool | signals before the tree can be stopped, or as the command ends | claims and exit code tell the truth |
| **Spool, transport** (`spool.py`, `transport.py`) | one file per envelope | enqueue, flush, post | launchers, flushers, server | name first, bytes after; flushers in parallel | a file goes only when the server has its envelope |
| **Observer registration and hook** (`observer.py`, `observer_hook.py`) | manifest, settings, event database | plan, apply, remove, hook | customer, hooks | as the collector's registration | as the collector's registration |
| **Observer upload** (`observer_upload.py`) | freeze cursor, attempt cursor, acknowledgements | freeze, rotate, send | hooks, server | a poison row stops a page | no row lost or sent in two shapes |
| **Git collection, registry, doctor, contract** | configuration | read, validate, report | — | sequential | — |

`PROJECT.json` lists the hazards line by line ("hazards"), with the property
that would catch each one.

---

## 2. The modules

| Module | Models | Composes |
|---|---|---|
| `Delivery` | abstract promise about one observation: stored once with frozen bytes, pending until the server holds these bytes, then acknowledged | — |
| `Rotation` | `batch`: rows ahead of the cursor, then from the start (operators only) | — |
| `Outbox` | outbox store, several syncs, server | `Rotation`; implements `Delivery` |
| `Drops` | drop counters | — |
| `Drain` | one run of the timer over the rotation | `Rotation` |
| `Registration` | plan / apply / remove, hooks, customer edits | — |
| `Lifecycle` | install / upgrade / uninstall / timer | `Registration` (its actions, conjoined) |
| `Brackets` | bracket marks, reflogs, sessions | — |
| `Capture` | captures, launchers, commands, spool, flushers, server | implements `Delivery` |
| `Pairing` | one connection directory: several setups, server, browser | — |
| `Scope` | what the server says after pairing: references, offer, approval, switch, and hooks that read them | `Pairing` (its steps are disjuncts of the whole) |
| `OutboxProofs`, `DropsProofs`, `DrainProofs`, `RegistrationProofs`, `LifecycleProofs`, `BracketsProofs`, `CaptureProofs`, `ScopeProofs` | theorems | each extends the module it is about; `LifecycleProofs` also `RegistrationProofs` |
| `MC*` | instances for TLC | |

Conventions. One action is what the code does between two points at which
another process can see or disturb it: a SQLite transaction, a rename, an
fsynced write, an HTTP request, the taking or releasing of a lock. A process is
a function from its name to a record with a `pc`; a step of the code that only
computes is merged into the action before it. Variables marked *history* in a
module exist for properties only and no guard reads them. A definition that is
introduced as a mutant, and used nowhere, is a deliberately broken variant of its
neighbour, with which the configuration is shown to be able to see the difference
("mutants" in `PROJECT.json`: each property of each run has one that violates it).

### Outbox — `store.rs`

`outbox`, `tombstone`/`tombAt`, `cursor`, `delivered`, `retryAfter` are the
columns of the three tables; `revoked` the marker file; `lock` is `sync.lock`.
`Collect(id, body)` is the one transaction of `collect`, with the duplicate,
conflict and limit checks in the code's order. A sync goes through `Start`
(lock, marker, wait), `Refresh`, `TakeAhead` and `TakeBehind` (the two queries
of `batch`, hooks may insert between them), then per row `Advance` (the cursor
is committed *before* the request), `Accept` or `Fail` (the request; the server
may have taken the row and the answer be lost), `Deliver` or `RecordFailure` /
`SaveWait` / `MarkRevoked` (three commits of one refusal), and `Compact`.
`Crash(s)` is possible at every point in `CrashPoints`. Row numbers follow
SQLite's rule for a key without AUTOINCREMENT (largest in use plus one), so a
number is used again once the largest row is gone. Not in the model: creation
and migration of the database and the self test. A refresh of the scope that
fails stops or delays the sync here; what it reads and writes is in `Scope`.

### Drops — `drops.rs`

A file is an inode with a length. A hook's `note` is `Open`, `LockShared`,
`Inspect` (is the handle still what `drops.log` names, is there room), `Write`;
a fold is `ClearMarker`, `Rename`, `Barrier` (waits for shared holders),
`TallyFile`, `Commit` (count and inode in one transaction), `Unlink`. A reader
takes four steps with no lock. Any hook and the fold can die between any two;
an unlinked inode with no handle may be handed out again.

### Drain — `install.rs` 577-619

`Call` begins one `sync_report`, `Visiting` sends or refuses each row of its
batch, `Return` computes the budget and decides whether to go on. A run starts
in any state earlier runs can leave: any subset of observations with any
numbering, any cursor. Between calls hooks store rows and a person's syncs, any
number of them, move the cursor and deliver. That the run makes at most
`MaxBatches` calls is how its loop is written, and no property says it.

### Registration — `claude.rs` 176-770, 1100-1177

A settings document is what the code compares: the presence of `hooks`, the keys
it has, the customer's entries, ours per plan, a stamp for everything else, and
whether it is spelled as `ordered.rs` writes JSON (`canonical`). A customer's file
need not be: `\u00e9`, `1.50` or an irregular layout come back as `é`, `1.5` and the
regular one (`README.md:313-316`, `531-534`). Everything our code writes is
(`Rendered`), so a file that was not has other bytes, and another hash, after an
apply and a removal, and the comparisons of hashes in `apply` and `remove` see that.
All plans are of one state directory, and so under one lock (`CanLock`).
`Apply` and `Remove` decide, then `SavePrepared` / `SaveRemoving`, `Compare`,
`Rename`, `SaveInstalled` / `SaveRemoved` are the durable steps, with `Stop`
between any two. `Edit` is the customer, at any time, including between
`Compare` and `Rename`. `LoseSpool` deletes the state directory, and only when
nobody is at work in it. A hook takes the shared lock, verifies plan and
manifest, then stores.

### Lifecycle — `install.rs`, `systemd.rs`

Programs over the actions of `Registration`: `cmd` says where a command is,
`Work(o)` is any step of the registration it has started. `Abandon` stops it
anywhere. `EnableTimer` and `ForgetRecord` are the steps of the timer and the
record around them.

### Brackets — `claude.rs` 786-1100, `store.rs` 330-430, `reflog.rs`

`PreToolUse` takes the stamp, `ReadMark` the length of the reflog, `Open` writes the
mark, and the hook can be overtaken before each of them; `PostToolUse` takes its
stamp, `Close` closes the mark, counts overlaps and prunes, `Observation` reads the
reflog, `Collect` stores the row. The harness (external) waits for a hook before it
runs or ends a call, but a hook can die and a hook can be run twice. Anyone may
commit, and a reflog may be rewritten (a new inode). Of the history, `made` and
`began` are the commits and the stamps of calls, and `lost` is every call whose mark
was released, aged out, or dropped by the cap while a bracket open now, or one whose
hook is yet to write it (`Expected`), would still have found it: to the code that is
a call that never ran, and the properties about a call's own commits and about
overlaps except it.

### Capture — `capture.py`, `capture_store.py`, `runner.py`, `spool.py`

`rec` is the table, `contexts` the context files, `db` the holder of SQLite's
write lock, which delivery keeps across its HTTP call: everybody else waits or
gives up after 60 s (`Busy`). A launcher goes through begin (`WriteContext`,
`Insert`), `Spawn`, `Attach`, `Reap`/`Signal`/`StopTree`, `Freeze`, `Deliver`
and `Post`, `CreateFile`/`WriteFile` (the legacy spool), `Exit`. The commands
`capture begin | finish | retry` are `AskBegin`, `AskFinish`, `AskRetry` followed
by the same steps. Of a claim the outcome is kept. Its work and its end time, which
a command may name or leave out, are not: with the same outcome as the record's a
second freeze may be a repetition or a conflict (`SameOutcome`, `FreezeConflict`).
`Take` is the server, which may take an envelope long after the sender gave up on
it. `Die` kills any of them anywhere.

### Pairing — `pairing.rs`

`dir` is the connection directory as the code looks at it: which of its files
exist and which target they are for. `pairing[k]` is a pairing as the server and
the browser have it. A setup goes through `NameLock` and `TakeLock` (the lock
file is created first and locked then), `CheckNew`, `Freeze`, `CheckTarget`
(`installation.json`), `Prepare` and `Mark` (cooldown, attempt marker),
`StartPairing`, `Exchange`, `SaveConnection` and `OpenOutbox`. Answers of the
server may be lost after it acted (`Leave` in `StartPairing` and `Exchange`).
`Die` is a kill or a local failure anywhere; inside `save_new` it leaves a
temporary file, which makes a later setup refuse a directory without
`installation.json`. A target stands for repository or machine with its option as
the server accepted it.

### Scope — `store.rs`, `orchestrators.rs`, `install.rs`, `claude.rs`

Opening a connection goes on to `Seed` (the references of the pairing, under
`sync.lock`, after a second look). A refresh is `TakeSyncLock`, `Answered` or
`NotAnswered`, `ReplaceRefs`, `SaveOffer`, `NoteDeclaredRun`: three writes with a
crash possible between any two, one lock around all of them. An approval is
`Check`, `Show` (one reading of the offer), `Answer`, `ApproveShown`. A hook is
`HookStart`, `ReadApproved`, `ReadOffered`, `Locate`, `Collected`, with no lock at
all; `Damage` makes one of the two lists unreadable. References and offers are
known by the number of the reply they came with. `agreed`, `offering` and `due`
are history: what people agreed to, whether the server's last word offered
something, and whether a hook's row had to be marked at every moment so far
(`Watch`, which leaves one case out: section 3, item 4).

---

## 3. What is model-checked

Run any of them with `tlc -workers 2 -config X.cfg MC<Module>`.

| Run | Instance | States | Question |
|---|---|---|---|
| `outbox` | 3 observations, one never accepted, 2 bodies (1 and 2 pages), 3 pages, 2 rows, batches of 2, 1 tombstone, a paired timer and an unpaired person, crash everywhere, 4 calls of collect | 382,555 | is anything lost, miscounted, sent too early or sent differently? does it implement `Delivery`? |
| `outbox_live` | 3 observations, crash while sending, fairness | 50,771 | is every acceptable row delivered in the end? |
| `drops` | 3 hooks, 3 inodes, cap 1, 4 notes | 2.2 M | is every drop counted once, whoever dies where? |
| `drain` | 4 observations with any numbers in 1..4, batch 2, 3 batches, late rows, manual syncs | 1,504,539 | does an undisturbed run visit every row exactly once, and how many requests can any run make? |
| `drain_revisit` | the same without the manual sync | — | **violation**: finding 1 |
| `registration` | 2 plans, 2 operators, 1 hook, 2 events (one added late), 1 edit, 1 row, files spelled either way | 2,544,232 | what is left, lost or stuck after any interruption? |
| `lifecycle` | 3 plans, 1 edit | 1,216,076 | do record, hooks and timer agree after any stop? |
| `lifecycle_stranded` | the same | — | **violation**: finding 2 |
| `brackets` | 2 calls of 2 sessions, 2 checkouts, 2 hooks, marks live 3 ticks, 4 hook runs, 1 commit, 1 rewrite | 1,374,482 | which commits does a row name, and does it say who else ran? |
| `brackets_shared` | 1 checkout, marks that do not expire | — | **violation**: finding 3 |
| `scope` | 2 processes, each running setup, sync, install or approve, 1 hook, 2 targets, 2 pairings, 1 entry, 2 replies, crash everywhere | 734,847 | is a directory ever retargeted or paired twice, does an older answer win, is an unapproved name read, an agent's row unmarked? |
| `capture` | a launched and an orchestrated run, 1 operator, 2 flushers, 4 launcher settings, 3 ids | 441,186 | one envelope per run, true claims, true exit codes; implements `Delivery` |

### The properties

* **Outbox.** `NoRowLost`: what `collect` accepted is pending or held by the
  server, with the same bytes. `Conservation`: delivered plus pending is the
  number of rows stored. `BackoffRespected`: nothing is sent during a
  wait that has been saved or, by a paired sync, after a revocation that has been
  marked; a kill between the record of a refusal and the record of its wait (two
  commits) loses the wait, and no property speaks of that one. `NoConflictWhileRemembered`:
  within the tombstone window a changed duplicate never becomes a row.
  `ImplementsDelivery`: refinement. `EventuallyDelivered`: "row failures do not
  starve later rows", under fairness.
* **Drops.** `CountedOnce`, `LogBounded` (the cap may be passed by one byte per
  concurrent hook and no more), `StatusSound` (the lock-free status never shows
  more than there is, nor less when no fold interfered).
* **Drain.** `UndisturbedVisitsEachOnce` (a run that nobody disturbs tries every
  row that was pending, and none twice), `RequestsBounded`.
* **Registration.** `CapturedWhileActive` (action property), `RemovedIsClean`,
  `NotStacked`, `EditsSurvive`. `RestoresOriginal`: once no entry of ours is left, a
  file nobody edited since the plan is the file planned for, or that file respelled:
  the same bytes if it was spelled as we render, the same JSON if not. `Recoverable`:
  after a stop anywhere, `remove` accepts what it finds, unless there was an edit,
  another plan's entries are there, or the file is `Respelled` (item 6 below).
* **Lifecycle.** `LiveIsRecorded` (hooks in place, and a timer, are in the
  install record), `Retryable`.
* **Brackets.** `OwnCommitsLinked`: a call's row names the commits it made, however
  its hooks are delayed, repeated or killed, unless its mark was evicted or released
  early (`lost`); that such a call goes without its commits is how the table is
  bounded, and the property does not see it. `NothingOlderLinked`,
  `ForeignCommitsCounted`.
* **Capture.** `OneEnvelope`, `ExitTruth`, `OutcomeTruth`, `SpoolKeeps` (an entry
  goes only when the server has its envelope; an entry left half written by a kill
  stays for good and is not covered), `ImplementsDelivery`; `TypeOK` there also says
  that exactly the processes inside a transaction hold the write lock, and that a
  capture with a row has its context file.
* **Pairing.** `FrozenTarget`: credential and outbox are for the first target,
  whoever runs setup and whatever the browser approves. `PairsOnce` (action
  property): no pairing is started once a connection is saved, none but the first
  unasked, none exchanged twice.
* **Scope.** `RepliesInOrder` (action property): references and offer never go
  back to an earlier reply or to the pairing. `NamesWereShown`: the approved list,
  and every name a hook gives a run, was shown to a person who agreed.
  `AgentRunsMarked`: a hook marks its row if at every moment of its reading an offer
  waited for an answer or an approved entry named its run, through refreshes,
  approvals and damage, except when the offer is both approved and withdrawn between
  its two readings (item 4 below). `ScopeTypeOK` also has who holds `sync.lock` and
  that references stand only beside an outbox.

### Where code and comments disagree

1. `install.rs:611` (`drain_revisit`). "One run visits each row that was pending
   when it started at most once." The budget counts rows hooks stored during the
   first call; when such a row is given the number of one just delivered, below
   the cursor, the next call wraps at once and sends a refused row again.
   Harmless (the server is idempotent), but not what the comment says.
   `UndisturbedVisitsEachOnce` is what does hold.
2. `install.rs:319` (`lifecycle_stranded`). "The old record stays until replaced,
   so uninstall still works on failure." After `apply` and before the record is
   saved, the record names a removed plan: uninstall reports success and leaves
   the new hooks live. `LiveIsRecorded` and `Retryable` hold apart from this window.
3. `claude.rs:1013` (`brackets_shared`). "Closed marks stay until pruned so a
   bracket that closes later still counts this one as overlapping." The stamp is
   taken before the hook waits for the database and reads the reflog; a call of
   another session opened in that window shares a commit with it and neither row
   counts the other.

4. `orchestrators.rs:276` and `README.md:397-401`. "An agent run must never read
   as the machine owner's, so an offer nobody has answered marks every row." The
   hook reads two files one after the other. It reads an approved list that is
   empty; a person approves an entry which names this very run; the server's next
   reply withdraws the offer; the hook reads that there is none, and stores the row
   unmarked, although a mark was due before and after the approval. It takes an
   approval and a refresh between two reads of one hook. `AgentRunsMarked` exempts
   this case and no other: the conjunct `hook'[h].pc = "offered" => offering'` of
   `Watch` asks that the offer a hook is on its way to read still waits when it is
   read. Without it TLC finds this trace; an approval alone, or a refresh alone, is
   in the model and does no harm.
5. `store.rs:776`. "A refused entry holds back only the offer." It holds back the
   declared-run switch as well (`NoteDeclaredRun`), and the offer only if the saved
   one has an entry (`Keeps`).
6. `claude.rs:726` and `README.md:527`. "A prepared-but-unapplied registration can be
   removed." The check is for the hash of the file planned for. Plan p is made for a
   file with an escape or number our code spells otherwise; its apply stops after
   the manifest and before the rename; another plan is applied and removed, which
   gives the file back respelled; removing p then finds neither its hash nor its
   entries and fails, though nobody edited the file and no entry is in it.
   `Recoverable` names this case (`Respelled`) and holds apart from it; without that
   disjunct TLC finds this trace. It does not reach `Lifecycle`: a plan that is in
   the install record has been applied, so `Retryable` holds as it stands.

### Bounds, and why they are enough

* *Outbox.* Three observations are the least with which one is being sent, one
  waits in the batch and one is inserted meanwhile; `MaxRows` 2 and three pages
  make both limits bite separately; one tombstone makes compaction evict at the
  second delivery; `MaxFirings` 4 allows a duplicate of a forgotten id. Two syncs
  are all the lock distinguishes. `MaxClock` 1 lets a saved wait run and end.
* *Drops.* Three hooks: one with an old handle, one at the cap, one that makes
  the next log; with three inodes a number is reused after each unlink. Cap 1 is
  the least length at which two writers overrun the check.
* *Drain.* Four rows are two full batches; a third batch is where wrap-around
  shows. Every subset, numbering and cursor is an initial state.
* *Registration.* Two plans stack or not; two operators contend for the lock; a
  late event exercises the rule for manifests of an older version; one edit can
  fall anywhere, between any two steps of either operator; that any number of
  edits changes nothing is proved for the properties of section 4. The file at the
  start, and after the edit, is spelled either way.
* *Lifecycle.* Install and two upgrades need three plans.
* *Brackets.* Two sessions are the least that overlap; four hook runs are one
  pre and one post each, or a repeated one. With two calls `MaxMarks` 2 never
  evicts by number, so eviction is by age only (`Ttl`). States in which no row can
  change any more are checked but not continued (`RowsMayChange`): all hooks have
  been started and none of those left ends a call, so that whatever is committed
  later is later than every row.
* *Scope.* Two processes are the least that race for either lock and for an
  approval against a refresh; two pairings are the first and an asked-for second;
  two replies are an older and a newer one, which offer nothing, an entry or a
  refused one each, of which one lists the hook's repository and one accepts
  declared runs. `FirstPairing` cuts states with an outbox after a second
  pairing: which pairing gave the connection makes no difference to a refresh.
  `SetupsBefore` cuts states in which, after a reply, a process is in the part of
  setup before the outbox is opened; setups beside an existing outbox are
  explored until then. The theorems of section 4 have none of these bounds.
* *Capture.* The launched run meets the operator, who may finish or retry it, and
  two flushers; a third id lets a begin be repeated after a lost one.

Deadlock is checked in `capture`, where commands can always be given again. The
other runs stop when their bounded inputs are used up, so their configurations
say `CHECK_DEADLOCK FALSE`; what a drain or a sync reaches is said by properties
instead.

### Symmetry

Used for hooks and inodes (`drops`), plans and operators (`registration`,
`lifecycle`), hooks, checkouts and call-session pairs (`brackets`), processes and
pairings (`scope`) and flushers (`capture`). These names are never ordered or
distinguished by a definition. The liveness run uses none.

### Fairness

`FairSpec` of `Outbox` has weak fairness of *some* sync taking a step: the
systemd timer starts a sync again and again (`OnUnitActiveSec`), and a sync that
runs takes its next step. It has weak fairness of the clock. It has strong
fairness of the server's accepting an observation that is sent again and again,
unless the observation is one it never takes (`Poison`): without that, nothing
could promise delivery. Hooks, crashes and refusals have none. The result is
that the cursor's rotation, and its commit before the request, keep a row that
is refused or kills the process from starving the others.

### Assumptions about the environment

* The server is idempotent by observation or event id and keeps the first bytes.
* SQLite transactions are atomic and durable; rename and fsync do what POSIX
  says; advisory locks end with their process.
* Install commands are run one at a time (nothing in the code enforces it).
* The state directory is deleted only when nobody is at work in it.
* All plans on a settings file have the same state directory, as those of one
  installation do, and so the same lock.
* The assistant waits for a hook before it runs or ends the tool call.
* No inode number of a reflog is used again inside one bracket.
* SIGKILL to a process group ends every process in it; Python runs signal
  handlers between bytecodes, so entering an `except` clause and its first
  assignment are one step.
* The server gives out a pairing's credential once, and answers one request for
  the scope after another.
* There is one ingest key; spool entries signed with another are left alone.

---

## 4. What is proved

The proof modules state, with machine-checked proofs, that the safety properties
hold for **every** value of the constants (any number of hooks, operators,
syncs, observations, limits), from the named assumptions of each module, which TLC
evaluates on each instance: `OutboxAssumption`, `DropsAssumption`,
`DrainAssumption`, `SetsAssumption`, `CoreAssumption`, `BoundsAssumption` and
`NoneAssumption` of `Registration`, `BracketsAssumption`, `CaptureAssumption` and
`NamesAssumption` of `Capture`, `PairingAssumption`, `ScopeAssumption` and
`NamesAssumption` of `Scope`. They say that sets which the program keeps in a table
are finite, that bounds are numbers, and that a value standing for "none" is not one
of the values it is told apart from.

Every invariant and every action property of the passing runs is now a theorem, and
so are both refinements of `Delivery`. Each strengthened invariant below was first
given to TLC as an invariant of its run.

**OutboxProofs** — `TypeCorrect`, `CustodyHolds`, `NoRowIsLost`, `CountsAgree`,
`BackoffIsRespected`, `RememberedNeverConflict`, `OutboxImplementsDelivery`.
`NoRowLost` is not inductive: that a deleted row is held by the server depends
on who may delete it. `Custody` says so: only the lock's holder runs, the rows
it took are still pending (nobody else deletes), the row being sent is none of
those left, and a row reaches `deliver` only when the server holds its bytes.
`RememberedIsHeld` adds that a tombstone's bytes are the server's, without
which a duplicate of a delivered id might be accepted and not be held.
`BackoffRespected` needs `Cleared`: all refusals a running sync has seen are of
the kind that does not stop it. `Conservation` needs only that the table is finite.
`NoConflictWhileRemembered` needs `Memory`: no more ids are remembered than were
delivered, none of them has a pending row, and as long as no more were delivered
than can be remembered, whatever the server holds is known here, as a pending row or
a tombstone with those bytes. Compaction then evicts nothing (`NothingForgotten`): an
id is evicted only if `Tombstones` others are newer, and there are too few.
The refinement maps each row to its pending body, tombstones to themselves, and
shows every step a step of `Delivery` or a stutter.

**DropsProofs** — `DropsTypeCorrect`, `EveryDropCountedOnce`, `LogIsBounded`,
`StatusIsSound`.
`Placed` relates the positions of hooks, fold and files: a hook that is about to
write holds the live log, or the folding file *before* the barrier; the marker
never names the folding file while it is still to be counted. With it
`CountedOnce` is inductive. `LogBounded` needs `Bounded`, which counts the hooks
that passed the check as if they had written. `StatusSound` needs `Reading` and
`Complete`, which say what the reader's partial sum is worth at each of its steps.

**DrainProofs** — `DrainTypeCorrect`, `RequestsAreBounded`,
`UndisturbedRunVisitsOnce`.
The first part is about `Rotation`, for any finite set of numbered rows: `LIMIT n`
returns at most n rows, with each all of lower numbers, and fewer than n only when
there are no others (`LowestRows`); the same of a whole batch in the order of the
rotation (`BatchRows`, with `Before`); and once the cursor has moved to the first row,
that row is last and the order of the others is unchanged (`Turn`).
`RequestsBounded` needs `Budgeted`: what the first call delivered and what is pending
after it are different observations, so the budget is at most all there ever were,
and no later call may exceed what is left of it; `Counted` says that these requests
are the sum of the visits. `UndisturbedVisitsEachOnce` needs `Orderly`: in the order
that starts at the cursor, rows not sent yet come before rows sent and the batch under
way before the rest; rows not sent and requests sent add up to the rows at the start,
which is also the budget. A batch is then an initial segment no larger than the set of
rows not sent, and lies in it (`BatchInside`). The library's induction theorems do not
apply (they take an operator); the few facts that need induction on the size of a set
(a greatest number exists, a sum grows by one when one value does) look at a smallest
counterexample instead, which `WFMin` gives.

**RegistrationProofs** — `TypesHold`, `DisciplineHolds`,
`CaptureNeedsRegistration` (an action property), `RemovalLeavesNothing`,
`RegistrationsDoNotStack`, `NoSeenEditIsLost`, `RestoresTheFile`, `RemovalCanResume`.
`Discipline` says who may hold which lock together with whom; `Verified` that a
hook past its check has an active registration; `Tidy` what is known of the
documents that plans, manifests and operators hold copies of (a plan is made
for a clean document; a removal's target is clean); `Kept` that an edit newer
than an operator's copy is one it could not have seen.
`RestoresOriginal` compares the file with a plan made long before. `Restorable` gives
it a history to stand on: every document in play (the file, the copies operators hold,
the targets in manifests) that has the stamp of a plan's document is that document,
that document respelled, or the document with the entries of one plan; and removing
entries undoes adding them up to the spelling (`WithoutUndoesWith`), which is where the
code's care about a `hooks` key it made itself, and about late events, is used. `Recoverable` needs `Recovering`: what the
manifest says at every step of an operator (`Progress`), and that `remove` would
accept the file, or the copy an operator is about to write, for every plan with a
manifest, unless an edit has changed its stamp or other plans' operations its
spelling (`Fine`).

**LifecycleProofs** — `LifecycleInvariant`, `CommandsAreTyped`, `EntriesAreRecorded`,
`CommandsCanBeRetried`.
Every step of `Lifecycle` is a step of `Registration`, but for declining the consent,
so the invariants of `RegistrationProofs` carry over with one lemma. `CommandInv`
adds what the commands know: an operator is at work exactly while its command says so
and for that command's plan (`Working`), what the record says at each program point and
that a recorded plan has a manifest (`Recorded`), that between a new plan and its record
no other plan's entries are in the file (`Fresh`), and that an uninstall disables the
timer first and forgets the record of a removed plan only (`Leaving`). `CommandsCanBeRetried`
also needs that a recorded plan was installed (`WasInstalled`), which leaves the respelled
file of `Recoverable` out. `UninstallLeavesNoHooks` is not among the theorems: it is finding 2.

**BracketsProofs** — `BracketsInvariant`, `BracketsTypeCorrect`, `BracketsOwnCommits`,
`BracketsNothingOlder`, `BracketsForeignCounted`.
`Sound` says what the stamp, offset and file of a mark are worth: as long as the
reflog was not rewritten, all that follows the offset was committed at or after the
stamp; it holds of every mark and of the values a hook carries before it has written
one (`Bracketed`). The converse fails, since commits fall between the stamp and the
reading of the offset; it holds of the call's own commits, which wait for the hook:
they follow the offset as long as the file is the same (`Whole`). `Present`
says of each call that has begun and is not in `lost`, that its mark is in the table,
older than its commits (`Witnessed`), or that the call has ended and no bracket on its
checkout, open or about to be written, reaches back to its commits any more (`Passed`);
`Reading` that a hook which has closed its mark reaches all it must link and has
counted everyone it had to; `Order` that a call's commits come between its marks.
The first attempt failed for a good reason: the invariant was not inductive, because
the cap may drop a mark that no open bracket needs but that a hook, its stamp taken
and its bracket not yet written, would have found; TLC confirmed the counterexample
with a cap of one mark and six hook runs. `lost` has such calls since (`Expected`). The
theorems hold for a cap of any size; the run's instance never reaches its cap.

**CaptureProofs** — `CaptureInvariant`, `CaptureTypeCorrect`, `CaptureOneEnvelope`,
`CaptureExitTruth`, `CaptureOutcomeTruth`, `CaptureSpoolKeeps`,
`CaptureImplementsDelivery`.
`CaptureInv` has four parts: what a process at each program point knows of the row of
its capture (`Place`); what the launcher knows of the command it started, its tree and
the signals so far (`Command`); what it knows of its file in the legacy spool
(`Queue`); and that every envelope sent, queued, spooled or held by the server is the
one frozen in the row (`Copies`). That a row is frozen once and never changes after is
`Grows`, of two successive states. The refinement shows each run to be an observation
of `Delivery`: the frozen envelope is pending until the row says delivered, and the
row says so only after the server took that very envelope.

**ScopeProofs** — `TargetIsFrozen`, `PairingHappensOnce` and `RepliesAreInOrder`
(action properties), `NamesAreShown`, `AgentRunsAreMarked`, `ScopeIsTyped`; they
are all the properties of the run `scope`, for the composition of `Pairing` and
`Scope`.
`PairInv` says what each file of a directory tells of the others (`Agree`) and what
a process knows where it is (`Knows`): inside setup it is alone, the target it asked
for is the frozen one, nothing was saved since it looked, a pairing it has exchanged is
consumed for that target. What another process knows survives a step because the
step either is taken under the lock or only adds files. `SyncInv` says that one
process holds `sync.lock`, that the reply it has is the last one given, that
everything saved is of a reply no later than that, and that a list about to be
approved is one that was agreed to; with it each write keeps the order.
`HookInv` says, for each place of a hook, what its one reading is still worth:
past the approved list, a mark that is due comes from an entry the hook has found or from
an offer that is still there for it to read, and a
saved offer reads as unanswered whenever the server's last word offered something.

### Only model-checked

* Liveness (`EventuallyDelivered`): fairness and ENABLED are beyond the prover. What
  it rests on, the rotation, is proved (`Turn`, `BatchRows`); that every row's turn
  comes is not.
* The three violation runs: what they look for is not so.

No module declares a RECURSIVE operator.

---

## 5. What is not modelled, and why

* **Observer registration**, **observer upload**: protocol parts, planned (below).
* In `Pairing`: setting a revoked connection aside before a new one
  (`install.rs` 254-271), which starts a new directory; the checks of
  the working copy's origin and remote; the registration plan made from a
  connection. In `Scope`: the failure code that a refresh leaves for `doctor`, the
  shape rules of an entry (an entry is taken or refused), and a server without the
  version-2 reply, whose replies offer nothing.
* **Wire format, validation, path classification, git collection, registry,
  doctor, contract**: pure functions or sequential reporting with no protocol;
  what other parts rely on (a digest stands for its bytes, an envelope is a
  function of its claim) is built into their models.
* **SQLite, systemd, git, the assistant and the server** are external, modelled
  from how the code uses them.
* In `Registration`: plans with different state directories on one settings file. The
  lock is a file in the plan's state directory (`claude.rs:176-178`), so their
  operators would not exclude each other; the code does not prevent this, and no
  command of an installation does it.
* In `Brackets`: half-written reflog lines, the byte limit, worktree discovery. A
  mark of a reflog that does not exist yet cannot see a later rewrite
  (`fresh`), and `OwnCommitsLinked` excepts it.
* In `Outbox`: the 1400 ms lock wait against the 700 ms watchdog (a hook killed
  while it waits is a hook that never called `collect`).
* In `Capture`: Windows job objects; the launcher without a state directory,
  which the command line never takes; the three HTTP attempts are requests that
  may be repeated. A spool file half written by a dead launcher stays for good,
  as in the code.

---

## 6. Plan

Done: the collector (`Outbox`, `Drops`, `Drain`, `Registration`, `Lifecycle`,
`Brackets`, `Pairing`, `Scope`) and the launcher (`Capture`), with the proofs of all
their safety properties.

Next, in this order:

1. `Observer`: the Python registration and hook, and `Upload`: freeze cursor and
   attempt cursor over `Rotation`, whose lemmas are in `DrainProofs`. Hazards: a poison
   row stops a page; removal stopped before it deletes the file it created.
2. A bracket instance with three calls, where the cap on marks evicts (the theorems
   cover it, no run does).
3. Theorems with no run behind them yet: between two visits of one row, the cursor of
   `Outbox` passes every other row that was pending throughout.
