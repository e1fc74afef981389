---------------------------- MODULE Registration ----------------------------
(***************************************************************************)
(* Registering the hooks in the assistant's settings file (claude.rs):     *)
(* plan, apply, remove, and the capture path of a hook, interleaved with   *)
(* the customer's own edits of the same file, with operators that stop     *)
(* between any two durable steps, and with the deletion of the spool.      *)
(*                                                                         *)
(* A settings document is abstracted to what the code compares: whether it *)
(* has a "hooks" object, which event keys that object has, which of them   *)
(* hold entries of the customer's, how many of our entries each holds, a   *)
(* stamp for everything else, new with every edit, and whether the file is *)
(* spelled and laid out as ordered::render writes it.  A file of the       *)
(* customer's need not be (an escape like \u00e9, a number like 1.50, a    *)
(* list on one line of a pretty file); whatever our code writes is.  So a  *)
(* file that apply and remove have been through has its JSON back but not  *)
(* always its bytes, and the code compares bytes: two documents are the    *)
(* same bytes when all of these agree.                                     *)
(*                                                                         *)
(* All plans are of one state directory, the one an installation has: the  *)
(* lock is a file in it (lock), so that operators of plans with different  *)
(* state directories would not exclude each other.  Such plans on one      *)
(* settings file, which no command makes by itself, are not modelled.      *)
(***************************************************************************)
EXTENDS Integers, FiniteSets

CONSTANTS Plans,    \* plan files; each names its own hook entry
          Keys,     \* event keys a settings file may have
          Events,   \* those the vendor's hooks are registered for
          Late,     \* those added in a later version (vendor.added_later())
          Ops,      \* operator processes running apply or remove
          Hooks,    \* hook processes
          MaxEdits, \* bound on the customer's edits
          MaxRows,  \* bound on captured rows, per plan
          None

ASSUME SetsAssumption == Late \subseteq Events /\ Events \subseteq Keys
\* Some event has been registered for since the first version (vendor.rs).
ASSUME CoreAssumption == \E e \in Events : e \notin Late
ASSUME BoundsAssumption == MaxEdits \in Nat /\ MaxRows \in Nat

VARIABLES doc,      \* the settings file
          edits,    \* edits made so far; the last one's stamp
          plan,     \* plan[p]: the document the plan was made for, or None
          manifest, \* manifest[p]: the .registration.json beside it, or None
          spool,    \* the state directory, with the lock file in it, exists
          op,       \* op[o]: what an operator is in the middle of
          hook,     \* hook[h]: how far a hook has come
          rows,     \* rows[p]: rows captured through plan p's entries
          base,     \* base[p]: stamp of the document p's last operation read
          unseen    \* stamps of the edits made after an operator's comparison

vars == <<doc, edits, plan, manifest, spool, op, hook, rows, base, unseen>>

-----------------------------------------------------------------------------
(* Documents. *)

Docs == [other : Nat, canonical : BOOLEAN, hooks : BOOLEAN,
         present : SUBSET Keys, theirs : SUBSET Keys,
         mine : [Plans -> [Events -> Nat]]]

WellFormed(d) ==
    /\ d.theirs \subseteq d.present
    /\ d.present # {} => d.hooks
    /\ \A p \in Plans, e \in Events : d.mine[p][e] > 0 => e \in d.present

Clean(d, p) == \A e \in Events : d.mine[p][e] = 0

\* owned_plan: exactly our one entry under every event, or none under one
\* that an older version did not register.
Owned(d, p) ==
    \A e \in Events : d.mine[p][e] = 1 \/ (e \in Late /\ d.mine[p][e] = 0)

\* parse, then render: the same JSON in the one spelling render has for it.
Rendered(d) == [d EXCEPT !.canonical = TRUE]

\* apply: append the entry under every event, creating what is missing.
With(d, p) ==
    [Rendered(d) EXCEPT !.mine[p] = [e \in Events |-> @[e] + 1],
                        !.hooks = TRUE, !.present = @ \cup Events]

\* Mutant of Without: takes one entry off every event, there or not.
WithoutOne(d, p, orig) == [d EXCEPT !.mine[p] = [e \in Events |-> @[e] - 1]]

\* Mutant of Without: leaves the arrays it emptied.
WithoutTidying(d, p, orig) == [d EXCEPT !.mine[p] = [e \in Events |-> 0]]

\* without: drop the entry; drop an event's empty array if the plan found
\* the event absent, and an empty "hooks" if it found "hooks" absent.
Without(d, p, orig) ==
    LET bare == {e \in Events : /\ e \notin d.theirs
                                /\ \A q \in Plans \ {p} : d.mine[q][e] = 0}
        kept == d.present \ {e \in bare : e \notin orig.present}
    IN  [Rendered(d) EXCEPT !.mine[p] = [e \in Events |-> 0],
                            !.present = kept,
                            !.hooks = @ /\ (kept # {} \/ orig.hooks)]

\* What the customer may do to the file: change something else, add a hook
\* of their own, delete an event with all its entries, repeat our entry.
WithTheirs(d) == {[d EXCEPT !.hooks = TRUE, !.present = @ \cup {k},
                            !.theirs = @ \cup {k}] : k \in Keys}

WithoutKey(d) == {[d EXCEPT !.mine = [p \in Plans |-> [e \in Events |->
                                        IF e = k THEN 0 ELSE @[p][e]]],
                            !.present = @ \ {k}, !.theirs = @ \ {k}] :
                    k \in d.present}

Repeated(d) == {[d EXCEPT !.mine[pe[1]][pe[2]] = 2] :
                  pe \in {q \in Plans : ~Clean(d, q)} \X (d.present \cap Events)}

Edited(d) == {d} \cup WithTheirs(d) \cup WithoutKey(d) \cup Repeated(d)

-----------------------------------------------------------------------------
(* Locks and manifests. *)

Statuses  == {"prepared", "installed", "removing", "removed"}
Manifests == [status : Statuses, removed : Docs \cup {None}]

\* None is neither a plan nor a manifest.
ASSUME NoneAssumption == None \notin Plans \cup Manifests

Status(p) == IF manifest[p] = None THEN "none" ELSE manifest[p].status
Active(p) == Status(p) \in {"prepared", "installed"}
Saved(s)  == [status |-> s, removed |-> None]

Resting     == [pc |-> "idle", plan |-> None, raw |-> None]
Quiet       == [pc |-> "idle", plan |-> None]
Locked      == \E o \in Ops : op[o].pc # "idle"
SharedHeld  == \E h \in Hooks : hook[h].pc \in {"locked", "verified"}
\* The lock file is in the state directory, here the same for every plan.
CanLock     == spool /\ ~Locked /\ ~SharedHeld

Init ==
    /\ doc \in {d \in [other : {0}, canonical : BOOLEAN, hooks : BOOLEAN,
                       present : SUBSET Keys, theirs : SUBSET Keys,
                       mine : {[p \in Plans |-> [e \in Events |-> 0]]}] :
                  WellFormed(d)}
    /\ edits = 0
    /\ plan = [p \in Plans |-> None]
    /\ manifest = [p \in Plans |-> None]
    /\ spool = TRUE
    /\ op = [o \in Ops |-> Resting]
    /\ hook = [h \in Hooks |-> Quiet]
    /\ rows = [p \in Plans |-> 0]
    /\ base = [p \in Plans |-> 0]
    /\ unseen = {}

-----------------------------------------------------------------------------
(* Operators. *)

\* plan_for, under the exclusive lock: refuses while any entry of ours is in
\* the file (already_registered).
Plan(p) ==
    /\ plan[p] = None /\ CanLock
    /\ \A q \in Plans : Clean(doc, q)
    /\ plan' = [plan EXCEPT ![p] = doc]
    /\ UNCHANGED <<doc, edits, manifest, spool, op, hook, rows, base, unseen>>

Begin(o, p, pc) ==
    /\ op' = [op EXCEPT ![o] = [pc |-> pc, plan |-> p, raw |-> doc]]
    /\ base' = [base EXCEPT ![p] = doc.other]

\* The entries are already there: an interrupted apply is completed.
ReapplyAccepts(p) == Owned(doc, p) /\ Active(p)

\* Mutant of ApplyAccepts: applies to whatever the file has become.
ApplyAnywhere(p) ==
    ~Owned(doc, p) /\ plan[p] # None /\ Status(p) \in {"none", "removed", "prepared"}

\* Otherwise the file must be the one planned for, and no earlier
\* registration of this plan may be in use.
ApplyAccepts(p) ==
    /\ ~Owned(doc, p)
    /\ doc = plan[p]
    /\ Status(p) \in {"none", "removed", "prepared"}

Apply(o, p) ==
    /\ op[o].pc = "idle" /\ plan[p] # None /\ CanLock
    /\ \/ ReapplyAccepts(p) /\ Begin(o, p, "save_installed")
       \/ ApplyAccepts(p) /\ Begin(o, p, "save_prepared")
    /\ UNCHANGED <<doc, edits, plan, manifest, spool, hook, rows, unseen>>

\* Mutant of RemovalIsDone: takes "prepared" to mean nothing was written.
PreparedIsDone(p) ==
    \/ Status(p) = "removing" /\ doc = manifest[p].removed
    \/ Status(p) = "prepared"

\* Mutant of RemovalIsDone: does not recognise its own finished rename.
OnlyPreparedIsDone(p) == Status(p) = "prepared" /\ doc = plan[p]

RemovalIsDone(p) ==
    \/ Status(p) = "removing" /\ doc = manifest[p].removed
    \/ Status(p) = "prepared" /\ doc = plan[p]

RemovalIsDue(p) ==
    /\ ~RemovalIsDone(p)
    /\ Status(p) \in {"prepared", "installed", "removing"}
    /\ Owned(doc, p)

RemoveAccepts(p) == Status(p) = "removed" \/ RemovalIsDone(p) \/ RemovalIsDue(p)

\* remove: a removed registration is left alone; without its spool no hook
\* can capture, and removal goes ahead unlocked.
Remove(o, p) ==
    /\ op[o].pc = "idle" /\ plan[p] # None
    /\ spool => CanLock
    /\ \/ RemovalIsDone(p) /\ Begin(o, p, "save_removed")
       \/ RemovalIsDue(p) /\ Begin(o, p, "save_removing")
    /\ UNCHANGED <<doc, edits, plan, manifest, spool, hook, rows, unseen>>

Goto(o, pc) == op' = [op EXCEPT ![o].pc = pc]
Finish(o)   == op' = [op EXCEPT ![o] = Resting]

SaveManifest(o, m) == manifest' = [manifest EXCEPT ![op[o].plan] = m]

\* The document an operator is about to rename into place.
Target(o) ==
    LET p == op[o].plan
    IN  IF op[o].pc \in {"compare_with", "rename_with"}
          THEN With(op[o].raw, p) ELSE Without(op[o].raw, p, plan[p])

SavePrepared(o) ==
    /\ op[o].pc = "save_prepared"
    /\ SaveManifest(o, Saved("prepared"))
    /\ Goto(o, "compare_with")
    /\ UNCHANGED <<doc, edits, plan, spool, hook, rows, base, unseen>>

SaveRemoving(o) ==
    /\ op[o].pc = "save_removing"
    /\ SaveManifest(o, [status |-> "removing", removed |-> Target(o)])
    /\ Goto(o, "compare_without")
    /\ UNCHANGED <<doc, edits, plan, spool, hook, rows, base, unseen>>

\* Mutant of Compare: renames without looking.
CompareNothing(o) ==
    /\ \/ op[o].pc = "compare_with" /\ Goto(o, "rename_with")
       \/ op[o].pc = "compare_without" /\ Goto(o, "rename_without")
    /\ UNCHANGED <<doc, edits, plan, manifest, spool, hook, rows, base, unseen>>

\* atomic_replace: read the file once more, and rename over it only if it is
\* still what the operator read; an edit after this read goes unseen.
Compare(o) ==
    /\ \/ op[o].pc = "compare_with" /\ doc = op[o].raw /\ Goto(o, "rename_with")
       \/ op[o].pc = "compare_without" /\ doc = op[o].raw /\ Goto(o, "rename_without")
       \/ op[o].pc \in {"compare_with", "compare_without"} /\ doc # op[o].raw /\ Finish(o)
    /\ UNCHANGED <<doc, edits, plan, manifest, spool, hook, rows, base, unseen>>

Rename(o) ==
    /\ \/ op[o].pc = "rename_with" /\ Goto(o, "save_installed")
       \/ op[o].pc = "rename_without" /\ Goto(o, "save_removed")
    /\ doc' = Target(o)
    /\ UNCHANGED <<edits, plan, manifest, spool, hook, rows, base, unseen>>

SaveInstalled(o) ==
    /\ op[o].pc = "save_installed"
    /\ SaveManifest(o, Saved("installed"))
    /\ Finish(o)
    /\ UNCHANGED <<doc, edits, plan, spool, hook, rows, base, unseen>>

\* (The digest in a removed manifest is not consulted again.)
SaveRemoved(o) ==
    /\ op[o].pc = "save_removed"
    /\ SaveManifest(o, Saved("removed"))
    /\ Finish(o)
    /\ UNCHANGED <<doc, edits, plan, spool, hook, rows, base, unseen>>

\* The operator's process ends, or one of its file operations fails: the
\* lock goes with it, what was saved stays.
Stop(o) ==
    /\ op[o].pc # "idle"
    /\ Finish(o)
    /\ UNCHANGED <<doc, edits, plan, manifest, spool, hook, rows, base, unseen>>

-----------------------------------------------------------------------------
(* A hook (capture): a cheap look at the manifest, then the shared lock and *)
(* the same look again, together with the entries, under it.               *)

Advance(h, pc) == hook' = [hook EXCEPT ![h].pc = pc]

HookStart(h, p) ==
    /\ hook[h].pc = "idle" /\ plan[p] # None /\ Active(p)
    /\ hook' = [hook EXCEPT ![h] = [pc |-> "started", plan |-> p]]
    /\ UNCHANGED <<doc, edits, plan, manifest, spool, op, rows, base, unseen>>

HookLock(h) ==
    /\ hook[h].pc = "started" /\ spool /\ ~Locked
    /\ Advance(h, "locked")
    /\ UNCHANGED <<doc, edits, plan, manifest, spool, op, rows, base, unseen>>

\* Mutant of HookVerify: relies on the look it took before the lock.
VerifyOwnedOnly(h) ==
    /\ hook[h].pc = "locked" /\ Owned(doc, hook[h].plan)
    /\ Advance(h, "verified")
    /\ UNCHANGED <<doc, edits, plan, manifest, spool, op, rows, base, unseen>>

HookVerify(h) ==
    /\ hook[h].pc = "locked"
    /\ Active(hook[h].plan) /\ Owned(doc, hook[h].plan)
    /\ Advance(h, "verified")
    /\ UNCHANGED <<doc, edits, plan, manifest, spool, op, rows, base, unseen>>

HookCollect(h) ==
    /\ hook[h].pc = "verified" /\ rows[hook[h].plan] < MaxRows
    /\ rows' = [rows EXCEPT ![hook[h].plan] = @ + 1]
    /\ hook' = [hook EXCEPT ![h] = Quiet]
    /\ UNCHANGED <<doc, edits, plan, manifest, spool, op, base, unseen>>

\* A refusal, an error or the 700 ms deadline: the hook ends without a row.
HookEnd(h) ==
    /\ hook[h].pc # "idle"
    /\ hook' = [hook EXCEPT ![h] = Quiet]
    /\ UNCHANGED <<doc, edits, plan, manifest, spool, op, rows, base, unseen>>

-----------------------------------------------------------------------------
(* The customer. *)

Renaming == \E o \in Ops : op[o].pc \in {"rename_with", "rename_without"}

Edit ==
    /\ edits < MaxEdits
    /\ edits' = edits + 1
    /\ \E d \in Edited(doc), asRendered \in BOOLEAN :
          doc' = [d EXCEPT !.other = edits + 1, !.canonical = asRendered]
    /\ unseen' = IF Renaming THEN unseen \cup {edits + 1} ELSE unseen
    /\ UNCHANGED <<plan, manifest, spool, op, hook, rows, base>>

\* The state directory is deleted, with nothing running in it.
LoseSpool ==
    /\ CanLock
    /\ spool' = FALSE
    /\ UNCHANGED <<doc, edits, plan, manifest, op, hook, rows, base, unseen>>

Operator(o) ==
    \/ \E p \in Plans : Apply(o, p) \/ Remove(o, p)
    \/ SavePrepared(o) \/ SaveRemoving(o) \/ Compare(o) \/ Rename(o)
    \/ SaveInstalled(o) \/ SaveRemoved(o) \/ Stop(o)

Capture(h) ==
    \/ \E p \in Plans : HookStart(h, p)
    \/ HookLock(h) \/ HookVerify(h) \/ HookCollect(h) \/ HookEnd(h)

Next ==
    \/ \E p \in Plans : Plan(p)
    \/ \E o \in Ops : Operator(o)
    \/ \E h \in Hooks : Capture(h)
    \/ Edit
    \/ LoseSpool

Spec == Init /\ [][Next]_vars

-----------------------------------------------------------------------------
(* Properties. *)

Steps == {"idle", "save_prepared", "save_removing", "compare_with",
          "compare_without", "rename_with", "rename_without",
          "save_installed", "save_removed"}

\* The variables keep their types.
TypeOK ==
    /\ doc \in Docs /\ edits \in Nat
    /\ plan \in [Plans -> Docs \cup {None}]
    /\ manifest \in [Plans -> Manifests \cup {None}]
    /\ spool \in BOOLEAN
    /\ op \in [Ops -> [pc : Steps, plan : Plans \cup {None}, raw : Docs \cup {None}]]
    /\ hook \in [Hooks -> [pc : {"idle", "started", "locked", "verified"},
                           plan : Plans \cup {None}]]
    /\ rows \in [Plans -> Nat]
    /\ base \in [Plans -> Nat]
    /\ unseen \subseteq Nat

\* A row is captured only while the registration is active, and never while
\* an operator is at work on it: from the moment remove has begun, a hook
\* that is already running adds nothing (capture, under the shared lock).
CapturedWhileActive ==
    [][\A p \in Plans : rows'[p] # rows[p] => Active(p) /\ ~Locked]_vars

\* A removed registration leaves no entry of its own behind, whatever was
\* interrupted or edited on the way (remove, and apply's stale_plan refusal).
RemovedIsClean == \A p \in Plans : Status(p) = "removed" => Clean(doc, p)

\* Two registrations never have entries in the file together ("Do not stack
\* registrations", refusal; and the digest the plan is bound to).
NotStacked ==
    \A p, q \in Plans : p # q => Clean(doc, p) \/ Clean(doc, q)

\* Once no entry of ours is left, a file nobody has edited since the plan has
\* the JSON it was planned for, empty containers included: it is that very
\* file, or that file as render spells it, which is the same bytes if it was
\* spelled so (without; ordered.rs, "removal restores the original bytes of
\* compact and pretty documents").
RestoresOriginal ==
    \A p \in Plans : /\ plan[p] # None /\ doc.other = plan[p].other
                     /\ \A q \in Plans : Clean(doc, q)
                    => doc \in {plan[p], Rendered(plan[p])}

\* An edit of the customer's is missing from the file only if it was made
\* between an operator's comparison and its rename (atomic_replace,
\* settings_changed_replan).
EditsSurvive == \A n \in 1..edits : n > doc.other => n \in unseen

\* An apply of p that stopped before its rename bound p to the bytes of a
\* file that has only been respelled since, which takes another plan's apply
\* and removal: remove finds neither its file nor its entries.
Respelled(p) ==
    /\ Status(p) = "prepared" /\ Clean(doc, p)
    /\ ~plan[p].canonical /\ doc = Rendered(plan[p])

\* Wherever an operator was interrupted, remove accepts what it finds; the
\* only refusals left are an edit made since, another plan's entries, and a
\* file that another plan's operations have respelled.
Recoverable ==
    \A p \in Plans :
        /\ ~Locked /\ spool /\ manifest[p] # None
        /\ doc.other = base[p]
        /\ \A q \in Plans \ {p} : Clean(doc, q)
        => RemoveAccepts(p) \/ Respelled(p)

=============================================================================
