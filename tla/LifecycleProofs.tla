-------------------------- MODULE LifecycleProofs --------------------------
(***************************************************************************)
(* Theorems about Lifecycle, for any number of plans, events and edits.    *)
(* Every step of a command is a step of Registration but one, the refusal  *)
(* that deletes a plan file again; so Registration's invariant holds, and  *)
(* the one below adds what the commands and the record keep among them.    *)
(***************************************************************************)
EXTENDS Lifecycle, RegistrationProofs

Pcs == {"idle", "plan", "consent", "apply", "applying", "record", "timer",
        "remove", "removing", "forget"}

CmdTyped == cmd \in [name : {"none", "install", "upgrade", "uninstall"}, pc : Pcs,
                     old : Plans \cup {None}, new : Plans \cup {None}]

\* The operator at work is the command's.
Working ==
    \A o \in Ops : op[o].pc # "idle" =>
        \/ At("removing") /\ op[o].plan = cmd.old /\ op[o].pc \in Removing \cup {"save_removed"}
        \/ At("applying") /\ op[o].plan = cmd.new /\ op[o].pc \in Applying

\* The record still names the plan it named when the command began, until
\* the new one replaces it, and a recorded plan has a manifest.
Recorded ==
    /\ At("timer") => record = cmd.new
    /\ ~At("timer") /\ ~At("idle") => record = cmd.old
    /\ record # None => manifest[record] # None

\* Between a new plan and its record only the new plan's entries can be in
\* the file, and not before the rename that applies them.
Fresh ==
    /\ cmd.pc \in {"consent", "apply"} => AllClean(doc) /\ manifest[cmd.new] = None
    /\ cmd.pc \in {"applying", "record", "timer"} => \A p \in Plans \ {cmd.new} : Clean(doc, p)
    /\ \A o \in Ops : op[o].pc \in Forward => Clean(doc, cmd.new)
    /\ At("record") => Status(cmd.new) = "installed"

\* An uninstall has disabled the timer before it touches the hooks, and
\* forgets the record of a removed plan only.
Leaving ==
    /\ cmd.name = "uninstall" => timer # "present"
    /\ At("forget") => Status(cmd.old) = "removed"

\* What the commands keep, on top of what Registration keeps.
CommandInv ==
    /\ CmdTyped /\ LifeTypeOK
    /\ Working /\ Recorded /\ Fresh /\ Leaving
    /\ LiveIsRecorded

LifeInv == RegistrationInv /\ spool /\ CommandInv

LEMMA NoneIsNoPlan == None \notin Plans
  BY NoneAssumption

LEMMA ToParts ==
    ASSUME CmdTyped, NEW s \in Pcs, To(s)
    PROVE  /\ CmdTyped' /\ cmd'.pc = s
           /\ cmd'.name = cmd.name /\ cmd'.old = cmd.old /\ cmd'.new = cmd.new
  BY DEF CmdTyped, To

LEMMA DoneParts ==
    ASSUME Done
    PROVE  /\ CmdTyped' /\ cmd' = NoCommand /\ cmd'.pc = "idle"
           /\ cmd'.name = "none" /\ cmd'.old = None /\ cmd'.new = None
  BY DEF Done, NoCommand, CmdTyped, Pcs

\* The plan file of a refused installation is deleted: nothing uses it.
LEMMA DeclineKeeps ==
    ASSUME RegistrationInv, NEW p \in Plans, ~Locked, AllClean(doc), manifest[p] = None,
           plan' = [plan EXCEPT ![p] = None],
           UNCHANGED <<doc, edits, manifest, spool, op, hook, rows, base, unseen>>
    PROVE  RegistrationInv'
<1> USE DEF RegistrationInv
<1>1. \A o \in Ops : op[o].pc = "idle"
  BY DEF Locked
<1>2. plan'[p] = None /\ \A q \in Plans \ {p} : plan'[q] = plan[q]
  BY DEF Discipline, TypeOK
<1>3. \A q \in Plans : Status(q)' = Status(q)
  BY DEF Status
<1>4. Discipline'
  <2>1. TypeOK'
    BY DEF Discipline, TypeOK
  <2>2. OpsTyped' /\ HooksTyped' /\ Exclusive'
    BY <1>1 DEF Discipline, Guarded, OpsTyped, HooksTyped, Exclusive, SharedHeld, Locked
  <2> QED
    BY <2>1, <2>2 DEF Discipline, Guarded
<1>5. Tidy'
  <2>1. PlansClean'
    BY <1>2 DEF Tidy, PlansClean
  <2>2. NotStacked' /\ RemovedIsClean' /\ Digests'
    BY <1>3 DEF Tidy, NotStacked, RemovedIsClean, Digests
  <2>3. Snapshots'
    BY <1>1 DEF Snapshots, Snapshot, Removing
  <2> QED
    BY <2>1, <2>2, <2>3 DEF Tidy
<1>6. Restorable'
  <2>1. Known(doc)
    BY DEF Restorable, Copies
  <2>2. PICK d : d = doc
    OBVIOUS
  <2>3. Traced(d)'
    <3> SUFFICES ASSUME NEW q \in Plans, plan'[q] # None, plan'[q].other = d.other
                 PROVE  d \in {plan'[q], Rendered(plan'[q])}
      BY DEF Traced
    <3>1. q # p /\ plan'[q] = plan[q]
      BY <1>2
    <3>2. plan[q] \in Docs /\ AllClean(plan[q])
      BY <3>1 DEF Discipline, TypeOK, Tidy, PlansClean
    <3>3. ASSUME NEW r \in Plans, doc = With(plan[q], r) PROVE FALSE
      BY <3>2, <3>3, WithIsOwned DEF AllClean
    <3> QED
      BY <2>1, <2>2, <3>1, <3>3 DEF Known, Traced
  <2>4. Known(doc)'
    BY <2>1, <2>2, <2>3 DEF Known, WellFormed
  <2>5. Copies' = {doc'}
    BY <1>1 DEF Copies, AtWork
  <2>6. PlansKnown'
    BY <1>2 DEF Restorable, PlansKnown, WellFormed
  <2> QED
    BY <1>1, <2>4, <2>5, <2>6 DEF Restorable, Forward
<1>7. Recovering'
  <2> SUFFICES ASSUME spool PROVE Recovering'
    BY DEF Recovering
  <2>1. ASSUME NEW q \in Plans PROVE Resumable(q)' /\ Cleared(q)'
    <3>1. Cleared(q)'
      BY <1>3 DEF Recovering, Cleared, AllClean
    <3>2. ASSUME manifest[q] # None PROVE Resumable(q)'
      <4>1. q # p /\ plan'[q] = plan[q]
        BY <1>2, <3>2
      <4>2. plan[q] # None /\ base[q] \in 0..edits /\ Fine(doc, q)
        BY <3>2 DEF Recovering, Resumable
      <4>3. Accepts(doc, q)' <=> Accepts(doc, q)
        BY <1>3, <4>1 DEF Accepts
      <4>4. Fine(doc, q)'
        BY <4>2, <4>3 DEF Fine, AllClean
      <4>5. AtWork' = {}
        BY <1>1 DEF AtWork
      <4> QED
        BY <4>1, <4>2, <4>4, <4>5 DEF Resumable
    <3> QED
      BY <3>1, <3>2 DEF Resumable
  <2>2. \A o \in Ops : Progress(o)'
    BY <1>1 DEF Progress
  <2> QED
    BY <2>1, <2>2 DEF Recovering
<1> QED
  BY <1>4, <1>5, <1>6, <1>7

-----------------------------------------------------------------------------
(* The steps that write no settings file.                                  *)

LEMMA IdleIsNoCommand ==
    ASSUME LifeInv, At("idle")
    PROVE  cmd = NoCommand /\ ~Locked /\ \A o \in Ops : op[o].pc = "idle"
  BY DEF LifeInv, CommandInv, LifeTypeOK, At, Locked

\* Beginning a command.
LEMMA StartKeeps ==
    ASSUME LifeInv, Install \/ Upgrade \/ Uninstall
    PROVE  CommandInv'
<1> USE DEF LifeInv, CommandInv
<1>1. At("idle") /\ UNCHANGED <<doc, manifest, op>> /\ record' = record /\ stranded' = stranded
  BY DEF Install, Upgrade, Uninstall, Start, vars
<1>2. cmd = NoCommand /\ ~Locked /\ \A o \in Ops : op[o].pc = "idle"
  BY <1>1, IdleIsNoCommand
<1>3. /\ \A q \in Plans : Clean(doc, q)' <=> Clean(doc, q)
      /\ \A q \in Plans : Status(q)' = Status(q)
      /\ ~Locked'
  BY <1>1, <1>2 DEF Status, Locked
<1>4. \/ cmd' = cmd /\ record = None
      \/ cmd' = [name |-> "install", pc |-> "plan", old |-> None, new |-> None] /\ record = None
      \/ /\ record # None
         /\ \/ cmd' = [name |-> "upgrade", pc |-> "remove", old |-> record, new |-> None]
            \/ cmd' = [name |-> "uninstall", pc |-> "remove", old |-> record, new |-> None]
  <2>1. \A name, pc : Start(name, pc) => cmd' = [name |-> name, pc |-> pc, old |-> record, new |-> None]
    BY <1>2 DEF Start, NoCommand
  <2>2. ASSUME Install PROVE cmd' = [name |-> "install", pc |-> "plan", old |-> None, new |-> None] /\ record = None
    BY <2>1, <2>2 DEF Install
  <2>3. ASSUME Upgrade PROVE cmd' = [name |-> "upgrade", pc |-> "remove", old |-> record, new |-> None] /\ record # None
    BY <2>1, <2>3 DEF Upgrade, UpgradeAccepts
  <2>4. ASSUME Uninstall
        PROVE  \/ cmd' = cmd /\ record = None
               \/ cmd' = [name |-> "uninstall", pc |-> "remove", old |-> record, new |-> None] /\ record # None
    BY <2>1, <2>4 DEF Uninstall
  <2> QED
    BY <2>2, <2>3, <2>4
<1>5. /\ timer' \in {"absent", "present", "stuck"}
      /\ timer' = timer \/ timer' # "present"
      /\ cmd'.name = "uninstall" => timer' # "present"
  <2>1. timer \in {"absent", "present", "stuck"} /\ (Install \/ Upgrade => timer' = timer)
    BY DEF LifeTypeOK, Install, Upgrade
  <2>2. Uninstall => timer' \in {"absent", "stuck"}
    BY DEF Uninstall
  <2>3. Install \/ Upgrade => cmd'.name # "uninstall"
    BY DEF Install, Upgrade, Start
  <2> QED
    BY <2>1, <2>2, <2>3
<1>6. cmd'.pc \in {"idle", "plan", "remove"} /\ cmd'.new = None
      /\ (cmd'.pc # "idle" => record = cmd'.old)
  BY <1>2, <1>4 DEF NoCommand
<1>7. record \in Plans \cup {None}
  BY DEF LifeTypeOK
<1>8. CmdTyped'
  BY <1>2, <1>4, <1>7 DEF CmdTyped, Pcs, NoCommand
<1>9. LifeTypeOK'
  <2>1. \/ cmd' = NoCommand
        \/ cmd'.name = "install" /\ cmd'.old = None /\ cmd'.pc = "plan"
        \/ cmd'.name = "upgrade" /\ cmd'.old \in Plans /\ cmd'.pc = "remove"
        \/ cmd'.name = "uninstall" /\ cmd'.old \in Plans /\ cmd'.pc = "remove"
    BY <1>2, <1>4, <1>7
  <2>2. record' \in Plans \cup {None} /\ stranded' \in BOOLEAN
    BY <1>1 DEF LifeTypeOK
  <2> QED
    BY <1>3, <1>5, <1>6, <2>1, <2>2, NoneIsNoPlan DEF LifeTypeOK
<1>10. Working' /\ Recorded'
  BY <1>1, <1>2, <1>6 DEF Working, Recorded, At
<1>11. Fresh' /\ Leaving'
  BY <1>1, <1>2, <1>5, <1>6 DEF Fresh, Leaving, At, Forward
<1>12. LiveIsRecorded'
  BY <1>1, <1>2, <1>3, <1>5, NoneIsNoPlan DEF LiveIsRecorded, NoCommand
<1> QED
  BY <1>8, <1>9, <1>10, <1>11, <1>12

\* The steps between: a removal that is not needed, the record and the timer.
LEMMA BetweenKeeps ==
    ASSUME LifeInv, AlreadyRemoved \/ SaveRecord \/ EnableTimer \/ ForgetRecord
    PROVE  CommandInv'
<1> USE DEF LifeInv, CommandInv
<1>1. UNCHANGED <<doc, manifest, op>> /\ stranded' = stranded
  BY DEF AlreadyRemoved, SaveRecord, EnableTimer, ForgetRecord, vars
<1>2. cmd.pc \in {"remove", "record", "timer", "forget"}
  BY DEF AlreadyRemoved, SaveRecord, EnableTimer, ForgetRecord, At
<1>3. ~Locked /\ \A o \in Ops : op[o].pc = "idle"
  BY <1>2 DEF LifeTypeOK, Locked
<1>4. /\ \A q \in Plans : Clean(doc, q)' <=> Clean(doc, q)
      /\ \A q \in Plans : Status(q)' = Status(q)
      /\ ~Locked'
  BY <1>1, <1>3 DEF Status, Locked
<1>5. Working'
  BY <1>1, <1>3 DEF Working
<1>6. CASE AlreadyRemoved
  <2>1. /\ cmd.pc = "remove" /\ Status(cmd.old) = "removed"
        /\ UNCHANGED <<record, timer>> /\ To(AfterRemove)
    BY <1>6 DEF AlreadyRemoved, At
  <2>2. cmd.name \in {"upgrade", "uninstall"} /\ cmd.old \in Plans /\ cmd.new \notin Plans
    BY <2>1 DEF LifeTypeOK, NoCommand
  <2>3. AfterRemove = IF cmd.name = "upgrade" THEN "plan" ELSE "forget"
    BY DEF AfterRemove
  <2>4. AfterRemove \in Pcs
    BY <2>3 DEF Pcs
  <2>5. /\ CmdTyped' /\ cmd'.pc = AfterRemove
        /\ cmd'.name = cmd.name /\ cmd'.old = cmd.old /\ cmd'.new = cmd.new
    BY <2>1, <2>4, ToParts
  <2>6. LifeTypeOK'
    BY <1>1, <1>4, <2>1, <2>2, <2>3, <2>5 DEF LifeTypeOK
  <2>7. Recorded'
    BY <1>1, <2>1, <2>3, <2>5 DEF Recorded, At
  <2>8. Fresh' /\ Leaving'
    BY <1>1, <1>3, <1>4, <2>1, <2>2, <2>3, <2>5 DEF Fresh, Leaving, At, Forward
  <2>9. LiveIsRecorded'
    BY <1>1, <1>4, <2>1, <2>5 DEF LiveIsRecorded
  <2> QED
    BY <1>5, <2>5, <2>6, <2>7, <2>8, <2>9
<1>7. CASE SaveRecord
  <2>1. cmd.pc = "record" /\ record' = cmd.new /\ timer' = timer /\ To("timer")
    BY <1>7 DEF SaveRecord, At
  <2>2. cmd.name \in {"install", "upgrade"} /\ cmd.new \in Plans
    BY <2>1 DEF LifeTypeOK, NoCommand
  <2>3. /\ CmdTyped' /\ cmd'.pc = "timer"
        /\ cmd'.name = cmd.name /\ cmd'.old = cmd.old /\ cmd'.new = cmd.new
    BY <2>1, ToParts DEF Pcs
  <2>4. LifeTypeOK'
    BY <1>1, <1>4, <2>1, <2>2, <2>3 DEF LifeTypeOK, NoCommand
  <2>5. Status(cmd.new) = "installed" /\ manifest[cmd.new] # None
    BY <2>1 DEF Fresh, At, Status
  <2>6. Recorded'
    BY <1>1, <2>1, <2>3, <2>5 DEF Recorded, At
  <2>7. Fresh' /\ Leaving'
    BY <1>1, <1>3, <1>4, <2>1, <2>2, <2>3 DEF Fresh, Leaving, At, Forward
  <2>8. LiveIsRecorded'
    <3>1. \A q \in Plans : ~Clean(doc, q) => q = cmd.new
      BY <2>1 DEF Fresh
    <3> QED
      BY <1>4, <2>1, <2>2, <2>3, <3>1, NoneIsNoPlan DEF LiveIsRecorded
  <2> QED
    BY <1>5, <2>3, <2>4, <2>6, <2>7, <2>8
<1>8. CASE EnableTimer
  <2>1. cmd.pc = "timer" /\ timer' = "present" /\ record' = record /\ Done
    BY <1>8 DEF EnableTimer, At
  <2>2. record = cmd.new /\ cmd.new \in Plans
    BY <2>1 DEF Recorded, At, LifeTypeOK
  <2>3. CmdTyped' /\ cmd' = NoCommand /\ cmd'.pc = "idle" /\ cmd'.name = "none" /\ cmd'.new = None
    BY <2>1, DoneParts
  <2>4. LifeTypeOK'
    BY <1>1, <1>4, <2>1, <2>3, NoneIsNoPlan DEF LifeTypeOK
  <2>5. Recorded' /\ Leaving'
    BY <1>1, <2>1, <2>3 DEF Recorded, Leaving, At
  <2>6. Fresh'
    BY <1>1, <1>3, <2>3 DEF Fresh, At, Forward
  <2>7. LiveIsRecorded'
    BY <1>1, <1>4, <2>1, <2>2, <2>3, NoneIsNoPlan DEF LiveIsRecorded
  <2> QED
    BY <1>5, <2>3, <2>4, <2>5, <2>6, <2>7
<1>9. CASE ForgetRecord
  <2>1. cmd.pc = "forget" /\ timer' = timer /\ record' = None /\ Done
    BY <1>9 DEF ForgetRecord, At
  <2>2. cmd.name = "uninstall" /\ cmd.old \in Plans /\ cmd.new \notin Plans /\ timer # "present"
    BY <2>1 DEF LifeTypeOK, NoCommand, Leaving
  <2>3. record = cmd.old /\ Clean(doc, cmd.old)
    BY <2>1, <2>2 DEF Recorded, Leaving, At, RegistrationInv, Tidy, RemovedIsClean
  <2>4. CmdTyped' /\ cmd' = NoCommand /\ cmd'.pc = "idle" /\ cmd'.name = "none" /\ cmd'.new = None
    BY <2>1, DoneParts
  <2>5. LifeTypeOK'
    BY <1>1, <1>4, <2>1, <2>4, NoneIsNoPlan DEF LifeTypeOK
  <2>6. Recorded' /\ Leaving'
    BY <1>1, <2>1, <2>4 DEF Recorded, Leaving, At
  <2>7. Fresh'
    BY <1>1, <1>3, <2>4 DEF Fresh, At, Forward
  <2>8. LiveIsRecorded'
    BY <1>1, <1>4, <2>1, <2>2, <2>3, <2>4 DEF LiveIsRecorded
  <2> QED
    BY <1>5, <2>4, <2>5, <2>6, <2>7, <2>8
<1> QED
  BY <1>6, <1>7, <1>8, <1>9

\* A plan for a new registration, and the answer to it.
LEMMA PlanningKeeps ==
    ASSUME LifeInv, MakePlan \/ Consent
    PROVE  CommandInv'
<1> USE DEF LifeInv, CommandInv
<1>1. UNCHANGED <<doc, manifest, op, record, timer, stranded>>
  BY DEF MakePlan, Consent, Plan, vars
<1>2. cmd.pc \in {"plan", "consent"}
  BY DEF MakePlan, Consent, At
<1>3. ~Locked /\ \A o \in Ops : op[o].pc = "idle"
  BY <1>2 DEF LifeTypeOK, Locked
<1>4. /\ \A q \in Plans : Clean(doc, q)' <=> Clean(doc, q)
      /\ ~Locked'
  BY <1>1, <1>3 DEF Locked
<1>5. Working'
  BY <1>1, <1>3 DEF Working
<1>6. CASE MakePlan
  <2>1. PICK p \in Plans :
           /\ Plan(p)
           /\ cmd' = [cmd EXCEPT !.new = p,
                        !.pc = IF cmd.name = "install" THEN "consent" ELSE "apply"]
    BY <1>6 DEF MakePlan
  <2>2. cmd.pc = "plan" /\ cmd.name \in {"install", "upgrade"}
    <3>1. cmd.pc = "plan"
      BY <1>6 DEF MakePlan, At
    <3> QED
      BY <3>1 DEF LifeTypeOK, NoCommand
  <2>3. PICK s : s = IF cmd.name = "install" THEN "consent" ELSE "apply"
    OBVIOUS
  <2>4. cmd'.new = p /\ cmd'.pc = s /\ cmd'.name = cmd.name /\ cmd'.old = cmd.old /\ CmdTyped'
    BY <2>1, <2>3 DEF CmdTyped, Pcs
  <2>5. LifeTypeOK'
    BY <1>1, <1>4, <2>2, <2>3, <2>4 DEF LifeTypeOK, NoCommand
  <2>6. AllClean(doc) /\ plan[p] = None
    BY <2>1 DEF Plan, AllClean
  <2>7. manifest[p] = None
    BY <2>6 DEF RegistrationInv, Recovering, Resumable
  <2>8. Fresh'
    BY <1>1, <1>3, <2>3, <2>4, <2>6, <2>7 DEF Fresh, AllClean, At, Forward
  <2>9. Recorded' /\ Leaving'
    BY <1>1, <2>2, <2>3, <2>4 DEF Recorded, Leaving, At
  <2>10. LiveIsRecorded'
    BY <1>1, <1>4, <2>6 DEF LiveIsRecorded, AllClean
  <2> QED
    BY <1>5, <2>4, <2>5, <2>8, <2>9, <2>10
<1>7. CASE Consent
  <2>1. cmd.pc = "consent" /\ cmd.name = "install" /\ (To("apply") \/ Done)
    <3>1. cmd.pc = "consent" /\ (To("apply") \/ Done)
      BY <1>7 DEF Consent, At
    <3> QED
      BY <3>1 DEF LifeTypeOK, NoCommand
  <2>2. AllClean(doc) /\ manifest[cmd.new] = None
    BY <2>1 DEF Fresh
  <2>3. LiveIsRecorded'
    BY <1>1, <1>4, <2>2 DEF LiveIsRecorded, AllClean
  <2>4. CASE To("apply")
    <3>1. /\ CmdTyped' /\ cmd'.pc = "apply"
          /\ cmd'.name = cmd.name /\ cmd'.old = cmd.old /\ cmd'.new = cmd.new
      BY <2>4, ToParts DEF Pcs
    <3>2. LifeTypeOK'
      BY <1>1, <1>4, <2>1, <3>1 DEF LifeTypeOK, NoCommand
    <3>3. Recorded' /\ Fresh' /\ Leaving'
      BY <1>1, <1>3, <2>1, <2>2, <3>1 DEF Recorded, Fresh, AllClean, Leaving, At, Forward
    <3> QED
      BY <1>5, <2>3, <3>1, <3>2, <3>3
  <2>5. CASE Done
    <3>1. CmdTyped' /\ cmd' = NoCommand /\ cmd'.pc = "idle" /\ cmd'.name = "none" /\ cmd'.new = None
      BY <2>5, DoneParts
    <3>2. LifeTypeOK'
      BY <1>1, <1>4, <3>1, NoneIsNoPlan DEF LifeTypeOK
    <3>3. Recorded' /\ Fresh' /\ Leaving'
      BY <1>1, <1>3, <3>1 DEF Recorded, Fresh, Leaving, At, Forward
    <3> QED
      BY <1>5, <2>3, <3>1, <3>2, <3>3
  <2> QED
    BY <2>1, <2>4, <2>5
<1> QED
  BY <1>6, <1>7

\* An operator takes up the command's work: a removal of the old plan, or the
\* first application of the new one.
LEMMA TakingUpKeeps ==
    ASSUME LifeInv, BeginRemove \/ BeginApply
    PROVE  CommandInv'
<1> USE DEF LifeInv, CommandInv
<1>1. UNCHANGED <<doc, manifest, record, timer, stranded>>
  BY DEF BeginRemove, BeginApply, Remove, Apply
<1>2. cmd.pc \in {"remove", "apply"}
  BY DEF BeginRemove, BeginApply, At
<1>3. ~Locked /\ \A o \in Ops : op[o].pc = "idle"
  BY <1>2 DEF LifeTypeOK, Locked
<1>4. \A q \in Plans : /\ Clean(doc, q)' <=> Clean(doc, q)
                       /\ Status(q)' = Status(q)
  BY <1>1 DEF Status
<1>5. CASE BeginRemove
  <2>1. cmd.pc = "remove" /\ To("removing")
    BY <1>5 DEF BeginRemove, At
  <2>2. PICK o \in Ops : Remove(o, cmd.old)
    BY <1>5 DEF BeginRemove
  <2>3. cmd.name \in {"upgrade", "uninstall"} /\ cmd.old \in Plans /\ cmd.new \notin Plans
    BY <2>1 DEF LifeTypeOK, NoCommand
  <2>4. PICK s \in {"save_removed", "save_removing"} : Begin(o, cmd.old, s)
    BY <2>2 DEF Remove
  <2>5. op'[o].pc = s /\ op'[o].plan = cmd.old /\ \A a \in Ops \ {o} : op'[a] = op[a]
    BY <2>4 DEF Begin, RegistrationInv, Discipline, TypeOK
  <2>6. /\ CmdTyped' /\ cmd'.pc = "removing"
        /\ cmd'.name = cmd.name /\ cmd'.old = cmd.old /\ cmd'.new = cmd.new
    BY <2>1, ToParts DEF Pcs
  <2>7. Locked'
    BY <2>5 DEF Locked
  <2>8. LifeTypeOK'
    BY <1>1, <2>1, <2>3, <2>6, <2>7 DEF LifeTypeOK
  <2>9. Working'
    BY <1>3, <2>5, <2>6 DEF Working, At, Removing
  <2>10. Recorded' /\ Leaving'
    BY <1>1, <1>4, <2>1, <2>6 DEF Recorded, Leaving, At
  <2>11. Fresh'
    BY <1>3, <2>5, <2>6 DEF Fresh, At, Forward
  <2>12. LiveIsRecorded'
    BY <1>1, <1>4, <2>6 DEF LiveIsRecorded
  <2> QED
    BY <2>6, <2>8, <2>9, <2>10, <2>11, <2>12
<1>6. CASE BeginApply
  <2>1. cmd.pc = "apply" /\ To("applying")
    BY <1>6 DEF BeginApply, At
  <2>2. PICK o \in Ops : Apply(o, cmd.new)
    BY <1>6 DEF BeginApply
  <2>3. cmd.name \in {"install", "upgrade"} /\ cmd.new \in Plans /\ AllClean(doc)
    BY <2>1 DEF LifeTypeOK, NoCommand, Fresh
  <2>4. ~Owned(doc, cmd.new)
    BY <2>3, OwnedIsNotClean DEF AllClean
  <2>5. Begin(o, cmd.new, "save_prepared")
    BY <2>2, <2>4 DEF Apply, ReapplyAccepts
  <2>6. op'[o].pc = "save_prepared" /\ op'[o].plan = cmd.new /\ \A a \in Ops \ {o} : op'[a] = op[a]
    BY <2>5 DEF Begin, RegistrationInv, Discipline, TypeOK
  <2>7. /\ CmdTyped' /\ cmd'.pc = "applying"
        /\ cmd'.name = cmd.name /\ cmd'.old = cmd.old /\ cmd'.new = cmd.new
    BY <2>1, ToParts DEF Pcs
  <2>8. Locked'
    BY <2>6 DEF Locked
  <2>9. LifeTypeOK'
    BY <1>1, <2>1, <2>3, <2>7, <2>8 DEF LifeTypeOK, NoCommand
  <2>10. Working'
    BY <1>3, <2>6, <2>7 DEF Working, At, Applying
  <2>11. Recorded' /\ Leaving'
    BY <1>1, <1>4, <2>1, <2>7 DEF Recorded, Leaving, At
  <2>12. Fresh'
    BY <1>4, <2>3, <2>7 DEF Fresh, AllClean, At
  <2>13. LiveIsRecorded'
    BY <1>1, <1>4, <2>3 DEF LiveIsRecorded, AllClean
  <2> QED
    BY <2>7, <2>9, <2>10, <2>11, <2>12, <2>13
<1> QED
  BY <1>5, <1>6

\* The process ends.
LEMMA AbandonKeeps ==
    ASSUME LifeInv, Abandon
    PROVE  CommandInv'
<1> USE DEF LifeInv, CommandInv
<1>1. UNCHANGED <<doc, manifest, record, timer>> /\ stranded' = (stranded \/ Unrecorded)
  BY DEF Abandon, Stop, vars
<1>2. \A q \in Plans : /\ Clean(doc, q)' <=> Clean(doc, q)
                       /\ Status(q)' = Status(q)
  BY <1>1 DEF Status
<1>3. CmdTyped' /\ cmd' = NoCommand /\ cmd'.pc = "idle" /\ cmd'.name = "none" /\ cmd'.new = None
  BY DoneParts DEF Abandon
<1>4. \A o \in Ops : op'[o].pc = "idle"
  <2>1. CASE Locked
    <3>1. PICK o \in Ops : Stop(o)
      BY <2>1 DEF Abandon
    <3>2. \A a \in Ops \ {o} : op[a].pc = "idle"
      BY <3>1, OneAtWork DEF Stop, RegistrationInv
    <3> QED
      BY <3>1, <3>2 DEF Stop, Finish, Resting, RegistrationInv, Discipline, TypeOK
  <2>2. CASE ~Locked
    BY <2>2 DEF Abandon, Locked, vars
  <2> QED
    BY <2>1, <2>2
<1>5. LifeTypeOK'
  BY <1>1, <1>3, <1>4, NoneIsNoPlan DEF LifeTypeOK, Locked
<1>6. Working' /\ Recorded' /\ Leaving'
  BY <1>1, <1>3, <1>4 DEF Working, Recorded, Leaving, At
<1>7. Fresh'
  BY <1>3, <1>4 DEF Fresh, At, Forward
<1>8. LiveIsRecorded'
  <2>1. ASSUME NEW q \in Plans, ~Clean(doc, q), record # q, ~stranded PROVE Unrecorded
    <3>1. cmd.new = q
      BY <2>1 DEF LiveIsRecorded
    <3> QED
      BY <2>1, <3>1, NoneIsNoPlan DEF Unrecorded
  <2> QED
    BY <1>1, <1>2, <2>1 DEF LiveIsRecorded
<1> QED
  BY <1>3, <1>5, <1>6, <1>7, <1>8

-----------------------------------------------------------------------------
(* The steps of apply and remove.                                          *)

\* Only the command's own new plan gets entries, when it is being applied.
LEMMA NoOtherEntries ==
    ASSUME LifeInv, [Next]_vars, NEW q \in Plans, Clean(doc, q), ~Clean(doc', q)
    PROVE  At("applying") /\ q = cmd.new
<1>1. PICK o \in Ops : op[o].pc = "rename_with" /\ op[o].plan = q
  BY FileStep DEF LifeInv, RegistrationInv
<1> QED
  BY <1>1 DEF LifeInv, CommandInv, Working, Removing

\* What every step of an operator at work has in common.
LEMMA WorkParts ==
    ASSUME LifeInv, NEW o \in Ops, Work(o)
    PROVE  /\ [Next]_vars /\ op[o].pc # "idle" /\ UNCHANGED <<record, timer, stranded, spool>>
           /\ \A a \in Ops \ {o} : op[a].pc = "idle" /\ op'[a] = op[a]
           /\ op'[o].pc # "idle" => op'[o].plan = op[o].plan
           /\ \A q \in Plans : manifest[q] # None => manifest'[q] # None
           /\ record # None => manifest'[record] # None
<1> USE DEF LifeInv
<1>1. /\ op[o].pc # "idle" /\ UNCHANGED <<record, timer, stranded, spool>>
      /\ Operator(o)
  BY DEF Work, Operator, SavePrepared, SaveRemoving, Rename, Compare, SaveInstalled, SaveRemoved
<1>2. [Next]_vars
  BY <1>1 DEF Next
<1>3. \A a \in Ops \ {o} : op[a].pc = "idle"
  BY <1>1, OneAtWork DEF RegistrationInv
<1>4. \A a \in Ops \ {o} : op'[a] = op[a]
  BY DEF Work, SavePrepared, SaveRemoving, Rename, Compare, SaveInstalled, SaveRemoved,
     Goto, Finish, RegistrationInv, Discipline, TypeOK
<1>5. op'[o].pc # "idle" => op'[o].plan = op[o].plan
  BY <1>1, <1>2, OpStep DEF RegistrationInv
<1>6. ASSUME NEW q \in Plans, manifest[q] # None PROVE manifest'[q] # None
  <2>1. PICK m : manifest' = manifest \/ (SaveManifest(o, m) /\
             (m = Saved("prepared") \/ m = Saved("installed") \/ m = Saved("removed")
              \/ m = [status |-> "removing", removed |-> Target(o)]))
    BY DEF Work, SavePrepared, SaveRemoving, Rename, Compare, SaveInstalled, SaveRemoved
  <2>2. Target(o) \in Docs
    BY <1>1, TargetIsDoc DEF RegistrationInv
  <2>3. m \in Manifests \/ manifest' = manifest
    BY <2>1, <2>2 DEF Saved, Manifests, Statuses
  <2> QED
    BY <1>6, <2>1, <2>3, NoneAssumption DEF SaveManifest, RegistrationInv, Discipline, TypeOK
<1>7. record # None => record \in Plans /\ manifest[record] # None
  BY DEF CommandInv, LifeTypeOK, Recorded
<1> QED
  BY <1>1, <1>2, <1>3, <1>4, <1>5, <1>6, <1>7

\* The operator goes on, and the command with it.
LEMMA GoingOnKeeps ==
    ASSUME LifeInv, NEW o \in Ops, Work(o), cmd' = cmd, op'[o].pc # "idle"
    PROVE  CommandInv'
<1> USE DEF LifeInv, CommandInv
<1>1. /\ [Next]_vars /\ op[o].pc # "idle" /\ UNCHANGED <<record, timer, stranded>>
      /\ \A a \in Ops \ {o} : op[a].pc = "idle" /\ op'[a] = op[a]
      /\ op'[o].plan = op[o].plan
      /\ record # None => manifest'[record] # None
  BY WorkParts
<1>2. cmd.pc \in {"removing", "applying"}
  BY <1>1 DEF Working, At
<1>3. CmdTyped' /\ LifeTypeOK'
  <2>1. Locked' /\ Locked
    BY <1>1 DEF Locked
  <2> QED
    BY <1>1, <2>1 DEF CmdTyped, LifeTypeOK
<1>4. \/ SavePrepared(o) /\ op[o].pc = "save_prepared" /\ op'[o].pc = "compare_with" /\ doc' = doc
      \/ SaveRemoving(o) /\ op[o].pc = "save_removing" /\ op'[o].pc = "compare_without"
      \/ Compare(o) /\ op[o].pc = "compare_with" /\ op'[o].pc = "rename_with" /\ doc' = doc
      \/ Compare(o) /\ op[o].pc = "compare_without" /\ op'[o].pc = "rename_without"
      \/ Rename(o) /\ op[o].pc = "rename_with" /\ op'[o].pc = "save_installed"
      \/ Rename(o) /\ op[o].pc = "rename_without" /\ op'[o].pc = "save_removed"
  <2>1. ASSUME Finish(o) PROVE FALSE
    BY <1>1, <2>1 DEF Finish, Resting, RegistrationInv, Discipline, TypeOK
  <2>2. SavePrepared(o) \/ SaveRemoving(o) \/ Compare(o) \/ Rename(o)
    BY <2>1 DEF Work, SaveInstalled, SaveRemoved
  <2>3. \A s : Goto(o, s) => op'[o].pc = s
    BY DEF Goto, RegistrationInv, Discipline, TypeOK
  <2>4. CASE SavePrepared(o)
    BY <2>3, <2>4 DEF SavePrepared
  <2>5. CASE SaveRemoving(o)
    BY <2>3, <2>5 DEF SaveRemoving
  <2>6. CASE Compare(o)
    BY <2>1, <2>3, <2>6 DEF Compare
  <2>7. CASE Rename(o)
    BY <2>3, <2>7 DEF Rename
  <2> QED
    BY <2>2, <2>4, <2>5, <2>6, <2>7
<1>5. Working'
  <2>1. ASSUME op[o].pc \in Applying PROVE At("applying") /\ op[o].plan = cmd.new /\ op'[o].pc \in Applying
    BY <1>1, <1>4, <2>1 DEF Working, Removing, Applying
  <2>2. ASSUME op[o].pc \notin Applying
        PROVE  At("removing") /\ op[o].plan = cmd.old /\ op'[o].pc \in Removing \cup {"save_removed"}
    BY <1>1, <1>4, <2>2 DEF Working, Removing, Applying
  <2>3. At("removing")' = At("removing") /\ At("applying")' = At("applying")
    BY DEF At
  <2> QED
    BY <1>1, <2>1, <2>2, <2>3 DEF Working
<1>6. Recorded' /\ Leaving'
  BY <1>1, <1>2 DEF Recorded, Leaving, At
<1>7. Fresh'
  <2>1. At("applying") => \A q \in Plans \ {cmd.new} : Clean(doc', q)
    BY <1>1, NoOtherEntries DEF Fresh, At
  <2>2. \A a \in Ops : op'[a].pc \in Forward => Clean(doc', cmd.new)
    BY <1>1, <1>4 DEF Fresh, Forward
  <2> QED
    BY <1>2, <2>1, <2>2 DEF Fresh, At
<1>8. LiveIsRecorded'
  BY <1>1, NoOtherEntries DEF LiveIsRecorded
<1> QED
  BY <1>3, <1>5, <1>6, <1>7, <1>8

\* The operator ends: its comparison failed, or its work is done.
LEMMA EndingKeeps ==
    ASSUME LifeInv, NEW o \in Ops, Work(o), op'[o].pc = "idle"
    PROVE  CommandInv'
<1> USE DEF LifeInv, CommandInv
<1>1. /\ [Next]_vars /\ op[o].pc # "idle" /\ UNCHANGED <<record, timer, stranded>>
      /\ \A a \in Ops \ {o} : op[a].pc = "idle" /\ op'[a] = op[a]
      /\ record # None => manifest'[record] # None
  BY WorkParts
<1>2. \A a \in Ops : op'[a].pc = "idle"
  BY <1>1
<1>3. ~Locked'
  BY <1>2 DEF Locked
<1>4. \/ Compare(o) /\ Done /\ op[o].pc \in {"compare_with", "compare_without"}
      \/ SaveInstalled(o) /\ To("record") /\ op[o].pc = "save_installed"
      \/ SaveRemoved(o) /\ To(AfterRemove) /\ op[o].pc = "save_removed"
  <2>1. ASSUME SavePrepared(o) \/ SaveRemoving(o) \/ Rename(o) PROVE FALSE
    BY <2>1 DEF SavePrepared, SaveRemoving, Rename, Goto, RegistrationInv, Discipline, TypeOK
  <2>2. Compare(o) => op[o].pc \in {"compare_with", "compare_without"}
    BY DEF Compare
  <2>3. /\ SaveInstalled(o) => op[o].pc = "save_installed"
        /\ SaveRemoved(o) => op[o].pc = "save_removed"
    BY DEF SaveInstalled, SaveRemoved
  <2> QED
    BY <2>1, <2>2, <2>3 DEF Work
<1>5. doc' = doc
  BY <1>4 DEF Compare, SaveInstalled, SaveRemoved
<1>6. \A q \in Plans : Clean(doc, q)' <=> Clean(doc, q)
  BY <1>5
<1>7. Working'
  BY <1>2 DEF Working
<1>8. CASE Done
  <2>1. CmdTyped' /\ cmd' = NoCommand /\ cmd'.pc = "idle" /\ cmd'.name = "none" /\ cmd'.new = None
    BY <1>8, DoneParts
  <2>2. op[o].pc \in {"compare_with", "compare_without"}
    BY <1>4, <1>8, <2>1, ToParts DEF AfterRemove, Pcs
  <2>3. LifeTypeOK'
    BY <1>1, <1>3, <2>1, NoneIsNoPlan DEF LifeTypeOK
  <2>4. Recorded' /\ Leaving'
    BY <1>1, <2>1 DEF Recorded, Leaving, At
  <2>5. Fresh'
    BY <1>2, <2>1 DEF Fresh, At, Forward
  <2>6. cmd.new \in Plans => Clean(doc, cmd.new)
    <3>1. CASE op[o].pc = "compare_with"
      BY <3>1 DEF Fresh, Forward
    <3>2. CASE op[o].pc = "compare_without"
      BY <3>2 DEF Working, Applying, At, LifeTypeOK
    <3> QED
      BY <2>2, <3>1, <3>2
  <2>7. LiveIsRecorded'
    BY <1>1, <1>6, <2>6 DEF LiveIsRecorded
  <2> QED
    BY <1>7, <2>1, <2>3, <2>4, <2>5, <2>7
<1>9. CASE SaveInstalled(o) /\ To("record") /\ op[o].pc = "save_installed"
  <2>1. cmd.pc = "applying" /\ op[o].plan = cmd.new
    BY <1>9 DEF Working, Removing, At
  <2>2. cmd.name \in {"install", "upgrade"} /\ cmd.new \in Plans
    BY <2>1 DEF LifeTypeOK, NoCommand
  <2>3. /\ CmdTyped' /\ cmd'.pc = "record"
        /\ cmd'.name = cmd.name /\ cmd'.old = cmd.old /\ cmd'.new = cmd.new
    BY <1>9, ToParts DEF Pcs
  <2>4. LifeTypeOK'
    BY <1>1, <1>3, <2>1, <2>2, <2>3 DEF LifeTypeOK, NoCommand
  <2>5. manifest'[cmd.new] = Saved("installed")
    BY <1>9, <2>1, <2>2 DEF SaveInstalled, SaveManifest, RegistrationInv, Discipline, TypeOK
  <2>6. Status(cmd.new)' = "installed"
    <3>1. Saved("installed") \in Manifests
      BY DEF Saved, Manifests, Statuses
    <3>2. manifest'[cmd'.new] # None /\ manifest'[cmd'.new].status = "installed"
      BY <2>3, <2>5, <3>1, NoneAssumption DEF Saved
    <3> QED
      BY <3>2 DEF Status
  <2>7. Recorded' /\ Leaving'
    BY <1>1, <2>1, <2>2, <2>3 DEF Recorded, Leaving, At
  <2>8. Fresh'
    BY <1>2, <1>6, <2>1, <2>3, <2>6 DEF Fresh, At, Forward
  <2>9. LiveIsRecorded'
    BY <1>1, <1>6, <2>3 DEF LiveIsRecorded
  <2> QED
    BY <1>7, <2>3, <2>4, <2>7, <2>8, <2>9
<1>10. CASE SaveRemoved(o) /\ To(AfterRemove) /\ op[o].pc = "save_removed"
  <2>1. cmd.pc = "removing" /\ op[o].plan = cmd.old
    BY <1>10 DEF Working, Applying, At
  <2>2. cmd.name \in {"upgrade", "uninstall"} /\ cmd.old \in Plans /\ cmd.new \notin Plans
    BY <2>1 DEF LifeTypeOK, NoCommand
  <2>3. AfterRemove = IF cmd.name = "upgrade" THEN "plan" ELSE "forget"
    BY DEF AfterRemove
  <2>4. AfterRemove \in Pcs
    BY <2>3 DEF Pcs
  <2>5. /\ CmdTyped' /\ cmd'.pc = AfterRemove
        /\ cmd'.name = cmd.name /\ cmd'.old = cmd.old /\ cmd'.new = cmd.new
    BY <1>10, <2>4, ToParts
  <2>6. LifeTypeOK'
    BY <1>1, <1>3, <2>1, <2>2, <2>3, <2>5 DEF LifeTypeOK
  <2>7. manifest'[cmd.old] = Saved("removed")
    BY <1>10, <2>1, <2>2 DEF SaveRemoved, SaveManifest, RegistrationInv, Discipline, TypeOK
  <2>8. Status(cmd.old)' = "removed"
    <3>1. Saved("removed") \in Manifests
      BY DEF Saved, Manifests, Statuses
    <3>2. manifest'[cmd'.old] # None /\ manifest'[cmd'.old].status = "removed"
      BY <2>5, <2>7, <3>1, NoneAssumption DEF Saved
    <3> QED
      BY <3>2 DEF Status
  <2>9. Recorded' /\ Leaving'
    BY <1>1, <2>1, <2>2, <2>3, <2>5, <2>8 DEF Recorded, Leaving, At
  <2>10. Fresh'
    BY <1>2, <2>3, <2>5 DEF Fresh, At, Forward
  <2>11. LiveIsRecorded'
    BY <1>1, <1>6, <2>5 DEF LiveIsRecorded
  <2> QED
    BY <1>7, <2>5, <2>6, <2>9, <2>10, <2>11
<1> QED
  BY <1>4, <1>8, <1>9, <1>10

-----------------------------------------------------------------------------
(* The invariant, and what it says.                                        *)

\* The customer's edits, and the steps that leave everything as it is.
LEMMA ChangeKeeps ==
    ASSUME LifeInv, UNCHANGED <<manifest, op, lifeVars>>, [Next]_vars
    PROVE  CommandInv'
<1> USE DEF LifeInv, CommandInv, lifeVars
<1>1. \A q : Status(q)' = Status(q)
  BY DEF Status
<1>2. ASSUME NEW q \in Plans, Clean(doc, q), ~Clean(doc', q), NEW o \in Ops PROVE FALSE
  <2>1. PICK a \in Ops : op[a].pc = "rename_with" /\ Rename(a)
    BY <1>2, FileStep DEF RegistrationInv
  <2> QED
    BY <2>1 DEF Rename, Goto, RegistrationInv, Discipline, TypeOK
<1>3. \A q \in Plans : Clean(doc, q) => Clean(doc', q)
  BY <1>2, FileStep DEF RegistrationInv
<1>4. CmdTyped' /\ LifeTypeOK'
  BY DEF CmdTyped, LifeTypeOK, Locked
<1>5. Working' /\ Recorded' /\ Leaving'
  BY <1>1 DEF Working, Recorded, Leaving, At
<1>6. Fresh'
  <2>1. ASSUME NEW o \in Ops, op[o].pc \in Forward PROVE Clean(doc', cmd.new)
    <3>1. At("applying")
      BY <2>1 DEF Working, Forward, Removing
    <3>2. cmd.new \in Plans
      BY <3>1 DEF LifeTypeOK, At
    <3> QED
      BY <1>3, <2>1, <3>2 DEF Fresh
  <2> QED
    BY <1>1, <1>3, <2>1 DEF Fresh, AllClean, At
<1>7. LiveIsRecorded'
  BY <1>3 DEF LiveIsRecorded
<1> QED
  BY <1>4, <1>5, <1>6, <1>7

LEMMA CommandsInit == LifeInit => LifeInv
<1> SUFFICES ASSUME LifeInit PROVE LifeInv
  OBVIOUS
<1>1. RegistrationInv /\ spool
  BY RegistrationInit DEF LifeInit, Init
<1>2. /\ record = None /\ timer = "absent" /\ cmd = NoCommand /\ stranded = FALSE
      /\ \A o \in Ops : op[o].pc = "idle"
  BY DEF LifeInit, Init, Resting
<1>3. \A p \in Plans : Clean(doc, p)
  BY DEF LifeInit, Init, Clean
<1>4. CmdTyped /\ LifeTypeOK
  BY <1>2, NoneIsNoPlan DEF CmdTyped, Pcs, LifeTypeOK, NoCommand, Locked
<1>5. Working /\ Recorded /\ Fresh /\ Leaving
  BY <1>2 DEF NoCommand, Working, Recorded, Fresh, Leaving, At, Forward
<1>6. LiveIsRecorded
  BY <1>2, <1>3 DEF LiveIsRecorded
<1> QED
  BY <1>1, <1>4, <1>5, <1>6 DEF LifeInv, CommandInv

LEMMA CommandsNext == LifeInv /\ [LifeNext]_<<vars, lifeVars>> => LifeInv'
<1> SUFFICES ASSUME LifeInv, [LifeNext]_<<vars, lifeVars>> PROVE LifeInv'
  OBVIOUS
<1>1. CommandInv'
  <2>1. ASSUME Change \/ UNCHANGED <<vars, lifeVars>> PROVE CommandInv'
    <3>1. UNCHANGED <<manifest, op, lifeVars>> /\ [Next]_vars
      BY <2>1 DEF Change, Edit, Next, vars
    <3> QED
      BY <3>1, ChangeKeeps
  <2>2. ASSUME NEW o \in Ops, Work(o) PROVE CommandInv'
    <3>1. op'[o].pc # "idle" => cmd' = cmd
      <4>1. Finish(o) => op'[o].pc = "idle"
        BY DEF Finish, Resting, LifeInv, RegistrationInv, Discipline, TypeOK
      <4>2. SaveInstalled(o) \/ SaveRemoved(o) => op'[o].pc = "idle"
        BY <4>1 DEF SaveInstalled, SaveRemoved
      <4> QED
        BY <2>2, <4>2 DEF Work
    <3> QED
      BY <2>2, <3>1, GoingOnKeeps, EndingKeeps
  <2> QED
    BY <2>1, <2>2, StartKeeps, BetweenKeeps, PlanningKeeps, TakingUpKeeps, AbandonKeeps DEF LifeNext
<1>2. CASE Consent /\ ~UNCHANGED vars
  <2>1. /\ cmd.pc = "consent" /\ plan' = [plan EXCEPT ![cmd.new] = None]
        /\ UNCHANGED <<doc, edits, manifest, spool, op, hook, rows, base, unseen>>
    BY <1>2 DEF Consent, At
  <2>2. cmd.new \in Plans /\ ~Locked /\ AllClean(doc) /\ manifest[cmd.new] = None
    BY <2>1 DEF LifeInv, CommandInv, LifeTypeOK, Fresh
  <2>3. PICK p \in Plans : p = cmd.new
    BY <2>2
  <2>4. RegistrationInv'
    BY <2>1, <2>2, <2>3, DeclineKeeps DEF LifeInv
  <2> QED
    BY <1>1, <2>1, <2>4 DEF LifeInv
<1>3. CASE ~Consent \/ UNCHANGED vars
  <2>1. [Next]_vars /\ spool' = spool
    <3>1. ASSUME NEW o \in Ops, Operator(o) PROVE Next /\ spool' = spool
      BY <3>1 DEF Next, Operator, Apply, Remove, SavePrepared, SaveRemoving, Compare, Rename,
         SaveInstalled, SaveRemoved, Stop
    <3>2. ASSUME UNCHANGED vars PROVE [Next]_vars /\ spool' = spool
      BY <3>2 DEF vars
    <3>3. ASSUME MakePlan PROVE [Next]_vars /\ spool' = spool
      BY <3>3 DEF MakePlan, Plan, Next
    <3>4. ASSUME Change PROVE [Next]_vars /\ spool' = spool
      BY <3>4 DEF Change, Edit, Next
    <3>5. ASSUME NEW o \in Ops, Work(o) PROVE Operator(o)
      BY <3>5 DEF Work, Operator
    <3>6. ASSUME BeginRemove PROVE \E o \in Ops : Operator(o)
      <4>1. cmd.old \in Plans
        BY <3>6 DEF BeginRemove, At, LifeInv, CommandInv, LifeTypeOK, NoCommand
      <4> QED
        BY <3>6, <4>1 DEF BeginRemove, Operator
    <3>7. ASSUME BeginApply PROVE \E o \in Ops : Operator(o)
      <4>1. cmd.new \in Plans
        BY <3>7 DEF BeginApply, At, LifeInv, CommandInv, LifeTypeOK
      <4> QED
        BY <3>7, <4>1 DEF BeginApply, Operator
    <3>8. ASSUME Abandon PROVE UNCHANGED vars \/ \E o \in Ops : Operator(o)
      BY <3>8 DEF Abandon, Operator
    <3>9. ASSUME Install \/ Upgrade \/ Uninstall \/ AlreadyRemoved \/ SaveRecord \/ EnableTimer \/ ForgetRecord
          PROVE  UNCHANGED vars
      BY <3>9 DEF Install, Upgrade, Uninstall, AlreadyRemoved, SaveRecord, EnableTimer, ForgetRecord
    <3> QED
      BY <1>3, <3>1, <3>2, <3>3, <3>4, <3>5, <3>6, <3>7, <3>8, <3>9 DEF LifeNext
  <2> QED
    BY <1>1, <2>1, RegistrationNext DEF LifeInv
<1> QED
  BY <1>2, <1>3

\* Every reachable state of an installation satisfies the invariant.
THEOREM LifecycleInvariant == LifeSpec => []LifeInv
  BY CommandsInit, CommandsNext, PTL DEF LifeSpec

\* A plan that is recorded was installed, and its manifest does not go back
\* to "prepared": the plan a command makes is another one.
WasInstalled ==
    /\ cmd.pc \in {"consent", "apply", "applying", "record"} => cmd.new # record
    /\ record # None => Status(record) # "prepared"

LEMMA WasInstalledNext ==
    LifeInv /\ WasInstalled /\ [LifeNext]_<<vars, lifeVars>> => WasInstalled'
<1> SUFFICES ASSUME LifeInv, WasInstalled, [LifeNext]_<<vars, lifeVars>> PROVE WasInstalled'
  OBVIOUS
<1> USE DEF LifeInv, CommandInv
<1>1. ASSUME cmd'.pc \notin {"consent", "apply", "applying", "record"},
             record' \in {record, None}, UNCHANGED manifest
      PROVE  WasInstalled'
  BY <1>1 DEF WasInstalled, Status
<1>2. ASSUME cmd'.new = cmd.new, record' = record, UNCHANGED manifest,
             cmd.pc \in {"consent", "apply", "applying", "record"}
      PROVE  WasInstalled'
  BY <1>2 DEF WasInstalled, Status
<1>3. ASSUME Install \/ Upgrade \/ Uninstall \/ AlreadyRemoved \/ EnableTimer \/
             ForgetRecord \/ BeginRemove \/ Abandon
      PROVE  WasInstalled'
  <2>1. UNCHANGED manifest /\ record' \in {record, None}
    BY <1>3 DEF Install, Upgrade, Uninstall, AlreadyRemoved, EnableTimer, ForgetRecord,
       BeginRemove, Abandon, Remove, Stop, vars
  <2>2. cmd'.pc \notin {"consent", "apply", "applying", "record"} \/ cmd' = cmd
    BY <1>3, DoneParts DEF Install, Upgrade, Uninstall, AlreadyRemoved, EnableTimer, ForgetRecord,
       BeginRemove, Abandon, Start, Done, NoCommand, To, AfterRemove, CmdTyped
  <2>3. ASSUME cmd' = cmd PROVE record' = record
    BY <1>3, <2>3, DoneParts DEF Install, Upgrade, Uninstall, AlreadyRemoved, EnableTimer, ForgetRecord,
       BeginRemove, Abandon, At
  <2> QED
    BY <1>1, <1>2, <2>1, <2>2, <2>3
<1>4. ASSUME MakePlan PROVE WasInstalled'
  <2>1. PICK p \in Plans : Plan(p) /\ cmd'.new = p
    BY <1>4 DEF MakePlan, CmdTyped
  <2>2. UNCHANGED <<manifest, record>> /\ plan[p] = None
    BY <1>4, <2>1 DEF MakePlan, Plan
  <2>3. ASSUME p = record PROVE FALSE
    <3>1. manifest[p] # None
      BY <2>1, <2>3, NoneIsNoPlan DEF Recorded
    <3> QED
      BY <2>2, <3>1 DEF RegistrationInv, Recovering, Resumable
  <2> QED
    BY <2>1, <2>2, <2>3 DEF WasInstalled, Status
<1>5. ASSUME Consent \/ BeginApply PROVE WasInstalled'
  <2>1. UNCHANGED <<manifest, record>> /\ cmd.pc \in {"consent", "apply"}
    BY <1>5 DEF Consent, BeginApply, Apply, At, vars
  <2>2. cmd'.new = cmd.new \/ cmd'.pc = "idle"
    BY <1>5, DoneParts DEF Consent, BeginApply, To, CmdTyped
  <2> QED
    BY <1>1, <1>2, <2>1, <2>2
<1>6. ASSUME NEW o \in Ops, Work(o) PROVE WasInstalled'
  <2>1. op[o].pc # "idle" /\ record' = record
    BY <1>6 DEF Work, SavePrepared, SaveRemoving, Rename, Compare, SaveInstalled, SaveRemoved
  <2>2. cmd.pc \in {"removing", "applying"}
    BY <2>1 DEF Working, At
  <2>3. /\ cmd'.new = cmd.new \/ cmd'.pc = "idle"
        /\ cmd'.pc \in {"consent", "apply", "applying", "record"} => cmd.pc = "applying"
    BY <1>6, <2>2, DoneParts DEF Work, To, CmdTyped, AfterRemove, SaveInstalled, Working, At,
       Removing
  <2>4. ASSUME record # None PROVE Status(record)' # "prepared"
    <3>1. record \in Plans /\ Status(record) # "prepared"
      BY <2>4 DEF WasInstalled, LifeTypeOK
    <3>2. CASE SavePrepared(o)
      <4>1. op[o].plan = cmd.new /\ cmd.pc = "applying"
        BY <3>2 DEF SavePrepared, Working, At, Removing
      <4>2. manifest'[record] = manifest[record]
        BY <3>1, <3>2, <4>1 DEF SavePrepared, SaveManifest, WasInstalled, RegistrationInv, Discipline, TypeOK
      <4> QED
        BY <2>1, <3>1, <4>2 DEF Status
    <3>3. ASSUME NEW m, m.status # "prepared", SaveManifest(o, m) PROVE Status(record)' # "prepared"
      BY <2>1, <3>1, <3>3 DEF SaveManifest, Status, RegistrationInv, Discipline, TypeOK
    <3>4. CASE UNCHANGED manifest
      BY <2>1, <3>1, <3>4 DEF Status
    <3>5. SavePrepared(o) \/ UNCHANGED manifest \/
          \E m : m.status # "prepared" /\ SaveManifest(o, m)
      BY <1>6 DEF Work, SaveRemoving, SaveInstalled, SaveRemoved, Saved, Rename, Compare
    <3> QED
      BY <3>2, <3>3, <3>4, <3>5
  <2> QED
    BY <2>1, <2>2, <2>3, <2>4 DEF WasInstalled
<1>7. ASSUME SaveRecord PROVE WasInstalled'
  <2>1. /\ record' = cmd.new /\ UNCHANGED manifest /\ cmd'.pc = "timer"
        /\ Status(cmd.new) = "installed"
    BY <1>7 DEF SaveRecord, vars, To, CmdTyped, Fresh, At
  <2> QED
    BY <2>1 DEF WasInstalled, Status
<1>8. ASSUME Change \/ UNCHANGED <<vars, lifeVars>> PROVE WasInstalled'
  BY <1>8 DEF Change, Edit, vars, lifeVars, WasInstalled, Status
<1> QED
  BY <1>3, <1>4, <1>5, <1>6, <1>7, <1>8 DEF LifeNext

LEMMA RecordedWasInstalled == LifeSpec => []WasInstalled
<1>1. LifeInit => WasInstalled
  BY DEF LifeInit, NoCommand, WasInstalled
<1> QED
  BY <1>1, WasInstalledNext, LifecycleInvariant, PTL DEF LifeSpec

\* The variables keep their types, and an operator is at work exactly while
\* its command says so.
THEOREM CommandsAreTyped == LifeSpec => []LifeTypeOK
<1>1. LifeInv => LifeTypeOK
  BY DEF LifeInv, CommandInv
<1> QED
  BY <1>1, LifecycleInvariant, PTL

\* Every entry of ours in the settings file is the recorded plan's, or the
\* one a command is applying or was stopped applying; and no timer is left
\* in place without a record.
THEOREM EntriesAreRecorded == LifeSpec => []LiveIsRecorded
<1>1. LifeInv => LiveIsRecorded
  BY DEF LifeInv, CommandInv
<1> QED
  BY <1>1, LifecycleInvariant, PTL

\* Whatever a stopped command has left, the recorded registration can be
\* removed and an upgrade tried again, short of an edit since or of a
\* stranded registration.
THEOREM CommandsCanBeRetried == LifeSpec => []Retryable
<1>1. LifeInv /\ WasInstalled => Retryable
  <2> SUFFICES ASSUME LifeInv, WasInstalled, At("idle"), ~stranded, record # None, doc.other = base[record]
               PROVE  RemoveAccepts(record) /\ UpgradeAccepts
    BY DEF Retryable
  <2> USE DEF LifeInv, CommandInv
  <2>1. PICK p \in Plans : p = record
    BY DEF LifeTypeOK
  <2>2. manifest[p] # None /\ Status(p) # "prepared" /\ doc.other = base[p]
    BY <2>1 DEF Recorded, WasInstalled
  <2>3. \A q \in Plans \ {p} : Clean(doc, q)
    BY <2>1, IdleIsNoCommand, NoneIsNoPlan DEF LiveIsRecorded, NoCommand
  <2>4. Fine(doc, p)
    BY <2>2 DEF RegistrationInv, Recovering, Resumable
  <2>5. AllClean(doc) \/ ~Clean(doc, p)
    BY <2>3 DEF AllClean
  <2>6. Accepts(doc, p)
    BY <2>2, <2>4, <2>5 DEF Fine
  <2>7. Clean(doc, p) \/ Owned(doc, p)
    <3>1. Status(p) = "removed" => Clean(doc, p)
      BY DEF RegistrationInv, Tidy, RemovedIsClean
    <3>2. Status(p) = "removing" /\ doc = manifest[p].removed => Clean(doc, p)
      BY DEF RegistrationInv, Tidy, Digests
    <3> QED
      BY <2>2, <2>6, <3>1, <3>2 DEF Accepts
  <2>8. RemoveAccepts(p)
    BY <2>2, <2>6 DEF Accepts, RemoveAccepts, RemovalIsDone, RemovalIsDue
  <2>9. UpgradeAccepts
    BY <2>1, <2>3, <2>7 DEF UpgradeAccepts
  <2> QED
    BY <2>1, <2>8, <2>9
<1> QED
  BY <1>1, LifecycleInvariant, RecordedWasInstalled, PTL
=============================================================================
