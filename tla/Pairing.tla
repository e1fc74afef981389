------------------------------ MODULE Pairing ------------------------------
(***************************************************************************)
(* Pairing a connection directory with the server (pairing.rs): setup, run *)
(* by any number of processes at once, killed at any point, against a      *)
(* server whose answers can be lost and a person who approves in the       *)
(* browser, perhaps for another target than the one asked for.             *)
(*                                                                         *)
(* save_new writes a temporary file and renames it without replacing.  The *)
(* temporary file matters only while the directory has no installation:    *)
(* setup then refuses any entry beside its lock.  So that window is a step *)
(* of its own for the first two files, and the other saves are one step.   *)
(***************************************************************************)
EXTENDS FiniteSets

CONSTANTS Procs,    \* processes that run a command on the directory
          Targets,  \* what a connection can be for: a repository, or the
                    \* whole machine with or without runs outside repositories
          Pairings, \* bound on the pairings the server starts
          None

ASSUME PairingAssumption == None \notin Targets \cup Pairings

VARIABLES dir,      \* the connection directory
          pairing,  \* pairing[k]: a pairing as the server and browser have it
          proc      \* proc[p]: the command a process runs and how far it is

pairVars == <<dir, pairing, proc>>

\* installation.json, connection.json (the pairing its credential is from)
\* and the database of outbox/ hold a target; "cooldown" is the saved
\* Retry-After of a start; "litter" is a temporary file of a killed process.
Directories == [lockFile : BOOLEAN, litter : BOOLEAN, installation : Targets \cup {None},
                attempted : BOOLEAN, cooldown : {"none", "running", "over"},
                saved : Pairings \cup {None}, outbox : Targets \cup {None}, revoked : BOOLEAN]

Empty == [lockFile |-> FALSE, litter |-> FALSE, installation |-> None, attempted |-> FALSE,
          cooldown |-> "none", saved |-> None, outbox |-> None, revoked |-> FALSE]

Idle == [cmd |-> "none", pc |-> "idle", target |-> None, newPair |-> FALSE, pairing |-> None]

PairInit ==
    /\ dir = Empty
    /\ pairing = [k \in Pairings |-> [state |-> "none", target |-> None]]
    /\ proc = [p \in Procs |-> Idle]

At(p, pc)  == proc[p].pc = pc
Go(p, pc)  == proc' = [proc EXCEPT ![p].pc = pc]
Leave(p)   == proc' = [proc EXCEPT ![p] = Idle]
Unmoved    == UNCHANGED <<dir, pairing>>

\* What setup asked for does not matter any more once there is a connection.
Initialize(p) == proc' = [proc EXCEPT ![p] = [Idle EXCEPT !.cmd = "setup", !.pc = "initialize"]]

\* Where setup holds the lock on setup.lock, from try_lock to its end.
Guarded == {"locked", "freeze", "frozen", "prepare", "mark", "start", "poll", "save"}
Holds(p) == proc[p].cmd = "setup" /\ proc[p].pc \notin {"naming", "lock"}

-----------------------------------------------------------------------------
(* setup. *)

Setup(p) ==
    /\ At(p, "idle")
    /\ \E t \in Targets, n \in BOOLEAN :
          proc' = [proc EXCEPT ![p] = [cmd |-> "setup", target |-> t, newPair |-> n, pairing |-> None,
                                       pc |-> IF dir.lockFile THEN "lock" ELSE "naming"]]
    /\ Unmoved

\* save_new of setup.lock: another process may have named its own first.
NameLock(p) ==
    /\ At(p, "naming")
    /\ IF dir.lockFile THEN Leave(p) /\ UNCHANGED dir
       ELSE Go(p, "lock") /\ dir' = [dir EXCEPT !.lockFile = TRUE]
    /\ UNCHANGED pairing

\* Mutant of TakeLock: waits for nobody.
TakeNoLock(p) == At(p, "lock") /\ Go(p, "locked") /\ Unmoved

TakeLock(p) ==
    /\ At(p, "lock")
    /\ IF \E q \in Procs : Holds(q) THEN Leave(p) ELSE Go(p, "locked")
    /\ Unmoved

\* read_dir(root) counts nothing but setup.lock.
Bare(p) == ~dir.litter /\ dir.saved = None /\ dir.outbox = None
           /\ \A q \in Procs \ {p} : ~At(q, "naming")

CheckNew(p) ==
    /\ At(p, "locked")
    /\ IF dir.installation # None THEN Go(p, "frozen")
       ELSE IF Bare(p) THEN Go(p, "freeze") ELSE Leave(p)
    /\ Unmoved

Freeze(p) ==
    /\ At(p, "freeze")
    /\ dir' = [dir EXCEPT !.installation = proc[p].target]
    /\ Go(p, "frozen")
    /\ UNCHANGED pairing

\* Target::matches
Matches(p) == proc[p].target = dir.installation

\* A saved connection is opened again, for the same target only, and never
\* paired anew.
CheckTarget(p) ==
    /\ At(p, "frozen")
    /\ IF ~Matches(p) THEN Leave(p)
       ELSE IF dir.saved = None THEN Go(p, "prepare")
       ELSE IF proc[p].newPair THEN Leave(p) ELSE Initialize(p)
    /\ Unmoved

\* Mutant of Prepare: a cooldown that is over stands for --new-pair.
PrepareAfterCooldown(p) ==
    /\ At(p, "prepare")
    /\ dir' = [dir EXCEPT !.cooldown = IF @ = "over" THEN "none" ELSE @]
    /\ IF dir.cooldown = "running" \/ (dir.attempted /\ ~proc[p].newPair /\ dir.cooldown = "none")
       THEN Leave(p) ELSE Go(p, IF dir.attempted THEN "start" ELSE "mark")
    /\ UNCHANGED pairing

\* The cooldown first, which goes once it is over; then, if a pairing was
\* ever attempted here, the person must ask for a new one.
Prepare(p) ==
    /\ At(p, "prepare")
    /\ dir' = [dir EXCEPT !.cooldown = IF @ = "over" THEN "none" ELSE @]
    /\ IF dir.cooldown = "running" \/ (dir.attempted /\ ~proc[p].newPair)
       THEN Leave(p) ELSE Go(p, IF dir.attempted THEN "start" ELSE "mark")
    /\ UNCHANGED pairing

Mark(p) ==
    /\ At(p, "mark")
    /\ dir' = [dir EXCEPT !.attempted = TRUE]
    /\ Go(p, "start")
    /\ UNCHANGED pairing

\* POST start: a pairing whose answer arrives, or is lost or not understood.
StartPairing(p) ==
    /\ At(p, "start")
    /\ \E k \in Pairings :
          /\ pairing[k].state = "none"
          /\ pairing' = [pairing EXCEPT ![k].state = "started"]
          /\ \/ proc' = [proc EXCEPT ![p].pc = "poll", ![p].pairing = k]
             \/ Leave(p)
    /\ UNCHANGED dir

\* Any other answer; 429 with a valid Retry-After is remembered.
StartRefused(p) ==
    /\ At(p, "start")
    /\ \E c \in {"none", "running"} : dir' = [dir EXCEPT !.cooldown = c]
    /\ Leave(p)
    /\ UNCHANGED pairing

\* The browser: a person approves the pairing, for the target they select.
\* (That of a pairing whose process is gone changes nothing any more.)
Approve(k) ==
    /\ pairing[k].state = "started" /\ \E p \in Procs : proc[p].pairing = k
    /\ \E t \in Targets :
          pairing' = [pairing EXCEPT ![k].state = "approved", ![k].target = t]
    /\ UNCHANGED <<dir, proc>>

\* Mutant of Approved: whatever the browser says.
ApprovedAnything(k, t) == TRUE

\* Target::approved
Approved(k, t) == pairing[k].target = t

\* POST exchange of an approved pairing consumes it; the answer may be lost,
\* or name another target.  A pending answer changes nothing.
Exchange(p) ==
    /\ At(p, "poll")
    /\ LET k == proc[p].pairing
       IN  /\ pairing[k].state = "approved"
           /\ pairing' = [pairing EXCEPT ![k].state = "consumed"]
           /\ \/ Approved(k, proc[p].target) /\ Go(p, "save")
              \/ Leave(p)
    /\ UNCHANGED dir

\* The pairing expires or is terminal, or a request fails.
GiveUp(p) == At(p, "poll") /\ Leave(p) /\ Unmoved

SaveConnection(p) ==
    /\ At(p, "save")
    /\ IF dir.saved = None
       THEN dir' = [dir EXCEPT !.saved = proc[p].pairing] /\ Initialize(p)
       ELSE Leave(p) /\ UNCHANGED dir
    /\ UNCHANGED pairing

-----------------------------------------------------------------------------
(* Opening a saved connection. *)

Scoped == pairing[dir.saved].target

\* connection_sync, setup_plan and connection_status read connection.json,
\* which must agree with installation.json, and initialize as setup does.
Begin(p, cmd, pc) ==
    /\ At(p, "idle") /\ dir.saved # None /\ Scoped = dir.installation
    /\ proc' = [proc EXCEPT ![p].cmd = cmd, ![p].pc = pc]
    /\ Unmoved

\* Store::open with the saved scope: creates the database, or must find it
\* made for the same.
OpenOutbox(p) ==
    /\ At(p, "initialize")
    /\ IF dir.outbox \in {None, Scoped}
       THEN dir' = [dir EXCEPT !.outbox = Scoped] /\ Go(p, "opened")
       ELSE Leave(p) /\ UNCHANGED dir
    /\ UNCHANGED pairing

\* The process dies anywhere, or a local step of it fails; killed inside
\* save_new it leaves the temporary file.
Die(p) ==
    /\ ~At(p, "idle")
    /\ Leave(p)
    /\ dir' \in {dir, [dir EXCEPT !.litter = @ \/ At(p, "naming") \/ At(p, "freeze")]}
    /\ UNCHANGED pairing

Cooled ==
    /\ dir.cooldown = "running"
    /\ dir' = [dir EXCEPT !.cooldown = "over"]
    /\ UNCHANGED <<pairing, proc>>

PairStep(p) ==
    \/ Setup(p) \/ NameLock(p) \/ TakeLock(p) \/ CheckNew(p) \/ Freeze(p) \/ CheckTarget(p)
    \/ Prepare(p) \/ Mark(p) \/ StartPairing(p) \/ StartRefused(p)
    \/ Exchange(p) \/ GiveUp(p) \/ SaveConnection(p) \/ OpenOutbox(p)

PairNext ==
    \/ \E p \in Procs : PairStep(p)
    \/ \E k \in Pairings : Approve(k)
    \/ Cooled

-----------------------------------------------------------------------------
(* Properties. *)

\* The variables keep their types, one process at a time is inside setup,
\* and each file is there only with those that are written before it.
PairTypeOK ==
    /\ dir \in Directories
    /\ pairing \in [Pairings -> [state : {"none", "started", "approved", "consumed"},
                                 target : Targets \cup {None}]]
    /\ \A p, q \in Procs : Holds(p) /\ Holds(q) => p = q
    /\ \A p \in Procs : proc[p].pc \in Guarded => Holds(p) /\ proc[p].target \in Targets
    /\ dir.installation # None => dir.lockFile
    /\ dir.attempted => dir.installation # None
    /\ dir.cooldown # "none" \/ dir.saved # None => dir.attempted
    /\ dir.saved # None => pairing[dir.saved].state = "consumed"
    /\ dir.outbox # None \/ dir.revoked => dir.saved # None

\* "Existing saved credentials/outboxes are never retargeted" (pairing.rs,
\* SETUP_INCOMPLETE): whoever runs setup, for whatever target, and whatever
\* the browser approves, credential and outbox are for the first target.
FrozenTarget ==
    /\ dir.saved # None => Scoped = dir.installation
    /\ dir.outbox # None => dir.outbox = dir.installation

\* A pairing is started only while no connection is saved, and after the
\* first one only if the person asked for it, whatever crashed in between;
\* and setup "never exchanges again" (pairing.rs, in setup).
PairsOnce ==
    [][\A k \in Pairings :
          /\ pairing[k].state = "none" /\ pairing'[k].state # "none" =>
                /\ dir.saved = None
                /\ \/ \A j \in Pairings : pairing[j].state = "none"
                   \/ \E p \in Procs : Holds(p) /\ proc[p].newPair
          /\ pairing[k].state # "consumed" /\ pairing'[k].state = "consumed" => dir.saved = None]_pairVars
=============================================================================
