----------------------------- MODULE Lifecycle -----------------------------
(***************************************************************************)
(* install, upgrade and uninstall (install.rs) as programs over the steps  *)
(* of Registration: which plan the install record names, whether the sync  *)
(* timer's units are in place, and how far a command has come.  A command  *)
(* may stop between any two durable steps.  Commands run one at a time     *)
(* (one person at one terminal; nothing in the code enforces it).  A hook  *)
(* that holds the shared lock only makes a command fail, which is a stop.  *)
(***************************************************************************)
EXTENDS Registration

VARIABLES record,   \* the plan install.json names, or None
          timer,    \* the sync timer's unit files: "absent", "present", or
                    \* "stuck" when uninstall could not delete them
          cmd,      \* the command being run: [name, pc, old, new]
          stranded  \* a command stopped with its entries applied, unrecorded

lifeVars == <<record, timer, cmd, stranded>>

NoCommand == [name |-> "none", pc |-> "idle", old |-> None, new |-> None]

LifeInit == Init /\ record = None /\ timer = "absent" /\ cmd = NoCommand /\ stranded = FALSE

At(pc)   == cmd.pc = pc
To(pc)   == cmd' = [cmd EXCEPT !.pc = pc]
Done     == cmd' = NoCommand
Start(name, pc) ==
    /\ At("idle")
    /\ cmd' = [name |-> name, pc |-> pc, old |-> record, new |-> None]

-----------------------------------------------------------------------------
\* claude::preflight: no entry of ours may be in the file.
Install ==
    /\ record = None /\ \A p \in Plans : Clean(doc, p)
    /\ Start("install", "plan")
    /\ UNCHANGED <<vars, record, timer, stranded>>

\* Mutant of UpgradeAccepts: expects the old entries to be there.
UpgradeOwnedOnly ==
    /\ record # None
    /\ \A p \in Plans : Clean(doc, p) \/ p = record
    /\ Owned(doc, record)

\* claude::preflight_replacing: nor may there be any but the recorded plan's.
UpgradeAccepts ==
    /\ record # None
    /\ \A p \in Plans : Clean(doc, p) \/ (p = record /\ Owned(doc, record))

Upgrade ==
    /\ UpgradeAccepts
    /\ Start("upgrade", "remove")
    /\ UNCHANGED <<vars, record, timer, stranded>>

\* Mutant of Uninstall: the record goes before the hooks.
UninstallForgetfully ==
    /\ timer' = "absent" /\ record' = None
    /\ IF record = None THEN At("idle") /\ UNCHANGED cmd ELSE Start("uninstall", "remove")
    /\ UNCHANGED <<vars, stranded>>

\* systemd::disable_for, first; an error there is reported at the end, after
\* the hooks have been removed all the same.
Uninstall ==
    /\ timer' \in IF timer = "absent" THEN {timer} ELSE {"absent", "stuck"}
    /\ IF record = None THEN At("idle") /\ UNCHANGED cmd ELSE Start("uninstall", "remove")
    /\ UNCHANGED <<vars, record, stranded>>

\* claude::remove(&old.plan)
BeginRemove ==
    /\ At("remove")
    /\ \E o \in Ops : Remove(o, cmd.old)
    /\ To("removing")
    /\ UNCHANGED <<record, timer, stranded>>

\* Mutant of AfterRemove: an uninstall goes on to plan anew.
AlwaysPlan == "plan"

AfterRemove == IF cmd.name = "upgrade" THEN "plan" ELSE "forget"

AlreadyRemoved ==
    /\ At("remove") /\ Status(cmd.old) = "removed"
    /\ To(AfterRemove)
    /\ UNCHANGED <<vars, record, timer, stranded>>

\* Registration::plan: a plan file of its own, never one used before.
MakePlan ==
    /\ At("plan")
    /\ \E p \in Plans :
          /\ Plan(p)
          /\ cmd' = [cmd EXCEPT !.new = p,
                       !.pc = IF cmd.name = "install" THEN "consent" ELSE "apply"]
    /\ UNCHANGED <<record, timer, stranded>>

Consent ==
    /\ At("consent")
    /\ \/ To("apply") /\ UNCHANGED vars
       \/ /\ Done
          /\ plan' = [plan EXCEPT ![cmd.new] = None]
          /\ UNCHANGED <<doc, edits, manifest, spool, op, hook, rows, base, unseen>>
    /\ UNCHANGED <<record, timer, stranded>>

\* Registration::finish: apply, save the record, enable the timer, self-test.
BeginApply ==
    /\ At("apply")
    /\ \E o \in Ops : Apply(o, cmd.new)
    /\ To("applying")
    /\ UNCHANGED <<record, timer, stranded>>

\* The steps of apply and remove, each by its own process; a comparison that
\* fails ends the command with it.
Work(o) ==
    /\ \/ (SavePrepared(o) \/ SaveRemoving(o) \/ Rename(o)) /\ UNCHANGED cmd
       \/ Compare(o) /\ IF op'[o].pc = "idle" THEN Done ELSE UNCHANGED cmd
       \/ SaveInstalled(o) /\ To("record")
       \/ SaveRemoved(o) /\ To(AfterRemove)
    /\ UNCHANGED <<record, timer, stranded>>

SaveRecord ==
    /\ At("record")
    /\ record' = cmd.new
    /\ To("timer")
    /\ UNCHANGED <<vars, timer, stranded>>

\* systemd::enable_for writes the units before it calls systemctl, so that a
\* failure leaves them; the self-test that follows changes nothing here.
EnableTimer ==
    /\ At("timer")
    /\ timer' = "present"
    /\ Done
    /\ UNCHANGED <<vars, record, stranded>>

\* fs::remove_file(RECORD)
ForgetRecord ==
    /\ At("forget")
    /\ record' = None
    /\ Done
    /\ UNCHANGED <<vars, timer, stranded>>

\* Entries are in the file, and the record does not name them yet.
Unrecorded == cmd.new # None /\ record # cmd.new /\ ~Clean(doc, cmd.new)

\* The process ends, or a step of the command fails.
Abandon ==
    /\ ~At("idle")
    /\ Done
    /\ stranded' = (stranded \/ Unrecorded)
    /\ IF Locked THEN \E o \in Ops : Stop(o) ELSE UNCHANGED vars
    /\ UNCHANGED <<record, timer>>

Change == Edit /\ UNCHANGED lifeVars

LifeNext ==
    \/ Install \/ Upgrade \/ Uninstall
    \/ BeginRemove \/ AlreadyRemoved \/ MakePlan \/ Consent \/ BeginApply
    \/ \E o \in Ops : Work(o)
    \/ SaveRecord \/ EnableTimer \/ ForgetRecord
    \/ Abandon
    \/ Change

LifeSpec == LifeInit /\ [][LifeNext]_<<vars, lifeVars>>

-----------------------------------------------------------------------------
(* Properties. *)

\* The variables keep their types, and a command is where its kind can be.
LifeTypeOK ==
    /\ record \in Plans \cup {None}
    /\ timer \in {"absent", "present", "stuck"} /\ stranded \in BOOLEAN
    /\ \/ cmd = NoCommand
       \/ /\ cmd.name = "install" /\ cmd.old = None
          /\ cmd.pc \in {"plan", "consent", "apply", "applying", "record", "timer"}
       \/ /\ cmd.name = "upgrade" /\ cmd.old \in Plans
          /\ cmd.pc \in {"remove", "removing", "plan", "apply", "applying", "record", "timer"}
       \/ /\ cmd.name = "uninstall" /\ cmd.old \in Plans
          /\ cmd.pc \in {"remove", "removing", "forget"}
    /\ cmd.new \in Plans <=> cmd.pc \in {"consent", "apply", "applying", "record", "timer"}
    /\ Locked <=> cmd.pc \in {"removing", "applying"}

\* Every entry of ours in the settings file is the recorded plan's, unless a
\* command is just about to record it or was stopped there; and the timer is
\* in place only beside a record (finish records first, uninstall disables
\* first): install.rs, Registration::finish and uninstall.
LiveIsRecorded ==
    /\ \A p \in Plans : ~Clean(doc, p) => record = p \/ cmd.new = p \/ stranded
    /\ timer = "present" => record # None

\* Whatever a stopped command has left, uninstall accepts it and upgrade can
\* be tried again, short of an edit since or of a stranded registration.
Retryable ==
    /\ At("idle") /\ ~stranded /\ record # None
    /\ doc.other = base[record]
    => RemoveAccepts(record) /\ UpgradeAccepts

\* "The old record stays until replaced, so uninstall still works on
\* failure" (install.rs, above upgrade): an uninstall that gets to the end
\* leaves no hook entry.
UninstallLeavesNoHooks ==
    [][ForgetRecord => \A p \in Plans : Clean(doc, p)]_<<vars, lifeVars>>

=============================================================================
