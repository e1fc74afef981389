------------------------- MODULE RegistrationProofs -------------------------
(***************************************************************************)
(* Theorems about Registration, for any number of plans, events, operators *)
(* and hooks.  The documents come first: what an edit, an apply and a      *)
(* removal do to the entries in one.  The inductive invariant then says    *)
(* who may hold which lock together with whom, and what is known of the    *)
(* document each operator holds a copy of.                                 *)
(***************************************************************************)
EXTENDS Registration, TLAPS

AllClean(d)  == \A p \in Plans : Clean(d, p)
Unstacked(d) == \A p, q \in Plans : p # q => Clean(d, p) \/ Clean(d, q)

Applying == {"save_prepared", "compare_with", "rename_with", "save_installed"}
Removing == {"save_removing", "compare_without", "rename_without"}

\* Rendering changes nothing but the spelling.
LEMMA RenderedParts ==
    ASSUME NEW d \in Docs
    PROVE  LET r == Rendered(d)
           IN  /\ r \in Docs /\ r.canonical = TRUE /\ r.other = d.other /\ r.hooks = d.hooks
               /\ r.present = d.present /\ r.theirs = d.theirs /\ r.mine = d.mine
  BY DEF Rendered, Docs

LEMMA RenderedKeeps ==
    ASSUME NEW d \in Docs
    PROVE  /\ \A p \in Plans : Clean(Rendered(d), p) <=> Clean(d, p)
           /\ \A p \in Plans : Owned(Rendered(d), p) <=> Owned(d, p)
           /\ WellFormed(d) => WellFormed(Rendered(d))
           /\ d.canonical => Rendered(d) = d
           /\ Rendered(Rendered(d)) = Rendered(d)
<1>1. PICK r \in Docs : /\ r = Rendered(d) /\ r.mine = d.mine /\ r.present = d.present
                        /\ r.theirs = d.theirs /\ r.hooks = d.hooks
  BY RenderedParts
<1>2. \A p \in Plans : (Clean(r, p) <=> Clean(d, p)) /\ (Owned(r, p) <=> Owned(d, p))
  BY <1>1 DEF Clean, Owned
<1>3. WellFormed(d) => WellFormed(r)
  BY <1>1 DEF WellFormed
<1>4. (d.canonical => Rendered(d) = d) /\ Rendered(Rendered(d)) = Rendered(d)
  BY DEF Rendered, Docs
<1> QED
  BY <1>1, <1>2, <1>3, <1>4

\* Two files that differ in their spelling only.
Alike(d, x) == Rendered(d) = Rendered(x)

LEMMA AlikeParts ==
    ASSUME NEW d \in Docs, NEW x \in Docs, Alike(d, x)
    PROVE  /\ d.other = x.other /\ d.hooks = x.hooks /\ d.present = x.present
           /\ d.theirs = x.theirs /\ d.mine = x.mine
<1>1. PICK r : r = Rendered(d)
  OBVIOUS
<1>2. /\ r.other = d.other /\ r.hooks = d.hooks /\ r.present = d.present
      /\ r.theirs = d.theirs /\ r.mine = d.mine
  BY <1>1, RenderedParts
<1>3. r = Rendered(x)
  BY <1>1 DEF Alike
<1>4. /\ r.other = x.other /\ r.hooks = x.hooks /\ r.present = x.present
      /\ r.theirs = x.theirs /\ r.mine = x.mine
  BY <1>3, RenderedParts
<1> QED
  BY <1>2, <1>4

\* What Edit makes of a document.
Stamped(x, n, c) == [x EXCEPT !.other = n, !.canonical = c]

\* An edit adds no entry of a plan that has none.
LEMMA EditKeepsClean ==
    ASSUME NEW d \in Docs, NEW x \in Edited(d), NEW n \in Nat, NEW c \in BOOLEAN
    PROVE  /\ Stamped(x, n, c) \in Docs
           /\ Stamped(x, n, c).other = n
           /\ \A p \in Plans : Clean(d, p) => Clean(Stamped(x, n, c), p)
<1> USE DEF Stamped
<1>1. CASE x = d
  BY <1>1 DEF Docs, Clean
<1>2. CASE x \in WithTheirs(d)
  <2>1. PICK k \in Keys : x = [d EXCEPT !.hooks = TRUE, !.present = @ \cup {k},
                                        !.theirs = @ \cup {k}]
    BY <1>2 DEF WithTheirs
  <2>2. x \in Docs /\ x.mine = d.mine
    BY <2>1 DEF Docs
  <2> QED
    BY <2>2 DEF Docs, Clean
<1>3. CASE x \in WithoutKey(d)
  <2>1. PICK k \in d.present :
             x = [d EXCEPT !.mine = [p \in Plans |-> [e \in Events |->
                                       IF e = k THEN 0 ELSE @[p][e]]],
                           !.present = @ \ {k}, !.theirs = @ \ {k}]
    BY <1>3 DEF WithoutKey
  <2>2. x.mine = [p \in Plans |-> [e \in Events |->
                                     IF e = k THEN 0 ELSE d.mine[p][e]]]
    BY <2>1 DEF Docs
  <2>3. x.mine \in [Plans -> [Events -> Nat]]
    BY <2>2 DEF Docs
  <2>4. x \in Docs
    BY <2>1, <2>3 DEF Docs
  <2>5. \A p \in Plans : Clean(d, p) => Clean(x, p)
    BY <2>2 DEF Clean
  <2> QED
    BY <2>4, <2>5 DEF Docs, Clean
<1>4. CASE x \in Repeated(d)
  <2>1. PICK p \in {q \in Plans : ~Clean(d, q)}, e \in d.present \cap Events :
             x = [d EXCEPT !.mine[p][e] = 2]
    BY <1>4 DEF Repeated
  <2>2. x.mine = [d.mine EXCEPT ![p] = [d.mine[p] EXCEPT ![e] = 2]]
    BY <2>1 DEF Docs
  <2>3. x.mine \in [Plans -> [Events -> Nat]] /\ \A q \in Plans : q # p => x.mine[q] = d.mine[q]
    BY <2>2 DEF Docs
  <2>4. x \in Docs
    BY <2>1, <2>3 DEF Docs
  <2>5. \A q \in Plans : Clean(d, q) => Clean(x, q)
    BY <2>3 DEF Clean
  <2> QED
    BY <2>4, <2>5 DEF Docs, Clean
<1> QED
  BY <1>1, <1>2, <1>3, <1>4 DEF Edited

\* Applying one plan adds entries of that plan only.
LEMMA WithAddsOnlyMine ==
    ASSUME NEW d \in Docs, NEW p \in Plans
    PROVE  /\ With(d, p) \in Docs
           /\ \A q \in Plans \ {p} : Clean(d, q) => Clean(With(d, p), q)
<1>r. PICK r \in Docs : r = Rendered(d) /\ r.mine = d.mine
  BY RenderedParts
<1> DEFINE more == [e \in Events |-> r.mine[p][e] + 1]
<1>0. With(d, p) = [r EXCEPT !.mine[p] = more, !.hooks = TRUE, !.present = @ \cup Events]
  BY Zenon, <1>r DEF With
<1>a. more \in [Events -> Nat]
  BY DEF Docs
<1> HIDE DEF more
<1>1. With(d, p).mine = [d.mine EXCEPT ![p] = more]
  BY <1>0, <1>r DEF Docs
<1>2. /\ With(d, p).mine \in [Plans -> [Events -> Nat]]
      /\ \A q \in Plans \ {p} : With(d, p).mine[q] = d.mine[q]
  BY <1>1, <1>a DEF Docs
<1>3. With(d, p) \in Docs
  BY <1>0, <1>2, SetsAssumption DEF Docs
<1> QED
  BY <1>2, <1>3 DEF Clean

\* Removing one plan leaves none of its entries, and adds none.
LEMMA WithoutIsClean ==
    ASSUME NEW d \in Docs, NEW p \in Plans, NEW orig \in Docs
    PROVE  /\ Without(d, p, orig) \in Docs
           /\ Clean(Without(d, p, orig), p)
           /\ \A q \in Plans \ {p} : Clean(d, q) => Clean(Without(d, p, orig), q)
<1> DEFINE bare == {e \in Events : /\ e \notin d.theirs
                                   /\ \A q \in Plans \ {p} : d.mine[q][e] = 0}
           kept == d.present \ {e \in bare : e \notin orig.present}
           w    == [Rendered(d) EXCEPT !.mine[p] = [e \in Events |-> 0],
                                       !.present = kept,
                                       !.hooks = @ /\ (kept # {} \/ orig.hooks)]
<1>1. Without(d, p, orig) = w
  BY DEF Without
<1>r. PICK r \in Docs : r = Rendered(d) /\ r.mine = d.mine
  BY RenderedParts
<1>2. kept \in SUBSET Keys
  BY DEF Docs
<1> HIDE DEF kept
<1>3. w.mine = [d.mine EXCEPT ![p] = [e \in Events |-> 0]]
  BY <1>r DEF Docs
<1>4. d.mine \in [Plans -> [Events -> Nat]]
  BY DEF Docs
<1>5. w \in Docs
  <2>1. PICK mine \in [Plans -> [Events -> Nat]] : mine = w.mine
    BY <1>3, <1>4
  <2> QED
    BY <1>2, <1>r, <2>1 DEF Docs
<1>6. Clean(w, p) /\ \A q \in Plans \ {p} : Clean(d, q) => Clean(w, q)
  BY <1>3 DEF Clean, Docs
<1> QED
  BY <1>1, <1>5, <1>6

\* A plan that owns a document has an entry in it.
LEMMA OwnedIsNotClean ==
    ASSUME NEW d, NEW p, Owned(d, p)
    PROVE  ~Clean(d, p)
  BY CoreAssumption DEF Owned, Clean

-----------------------------------------------------------------------------
(* Types, and who may be at work together with whom.                       *)

OpsTyped ==
    \A o \in Ops : op[o].pc # "idle" =>
        /\ op[o].plan \in Plans /\ plan[op[o].plan] # None
        /\ op[o].raw \in Docs

HooksTyped == \A h \in Hooks : hook[h].pc # "idle" => hook[h].plan \in Plans

\* A hook that holds the shared lock excludes every operator; while the
\* spool is there at most one is at work; apply needs the spool.
Exclusive ==
    /\ SharedHeld => spool /\ ~Locked
    /\ spool => \A a, b \in Ops : op[a].pc # "idle" /\ op[b].pc # "idle" => a = b
    /\ \A o \in Ops : op[o].pc \in Applying => spool

Guarded == OpsTyped /\ HooksTyped /\ Exclusive

Discipline == TypeOK /\ Guarded

\* The document an operator renames into place is a document.
LEMMA TargetIsDoc ==
    ASSUME Discipline, NEW o \in Ops, op[o].pc # "idle"
    PROVE  Target(o) \in Docs
<1>1. PICK p \in Plans : p = op[o].plan
  BY DEF Discipline, Guarded, OpsTyped
<1>2. op[o].raw \in Docs /\ plan[p] \in Docs
  BY <1>1 DEF Discipline, Guarded, OpsTyped, TypeOK
<1> QED
  BY <1>1, <1>2, WithAddsOnlyMine, WithoutIsClean DEF Target

LEMMA DisciplineInit == Init => Discipline
<1> SUFFICES ASSUME Init PROVE Discipline
  OBVIOUS
<1> USE DEF Init, Resting, Quiet
<1>1. doc \in Docs
  BY DEF Docs
<1>2. TypeOK
  BY <1>1 DEF TypeOK, Steps
<1>3. OpsTyped /\ HooksTyped
  BY DEF OpsTyped, HooksTyped
<1>4. Exclusive
  BY DEF Exclusive, SharedHeld, Locked, Applying
<1> QED
  BY <1>2, <1>3, <1>4 DEF Discipline, Guarded

OpTypes == [Ops -> [pc : Steps, plan : Plans \cup {None}, raw : Docs \cup {None}]]

\* An operator takes up its work: it needs the lock unless the spool is gone.
LEMMA BeginKeeps ==
    ASSUME Discipline, NEW o \in Ops, NEW p \in Plans, NEW s \in Steps,
           Begin(o, p, s), op[o].pc = "idle", plan[p] # None,
           spool => CanLock, s \in Applying => spool,
           UNCHANGED <<plan, spool, hook>>
    PROVE  Guarded' /\ op' \in OpTypes /\ base' \in [Plans -> Nat]
<1> USE DEF Discipline, Guarded
<1>1. op' = [op EXCEPT ![o] = [pc |-> s, plan |-> p, raw |-> doc]]
  BY DEF Begin
<1>2. op' \in OpTypes
  BY <1>1 DEF TypeOK, OpTypes
<1>3. base' \in [Plans -> Nat]
  BY DEF Begin, TypeOK, Docs
<1>4. OpsTyped' /\ HooksTyped'
  BY <1>1 DEF OpsTyped, HooksTyped, TypeOK
<1>5. Exclusive'
  <2>1. ~SharedHeld'
    BY DEF Exclusive, SharedHeld, CanLock
  <2>2. spool => \A a, b \in Ops : op'[a].pc # "idle" /\ op'[b].pc # "idle" => a = b
    BY <1>1 DEF CanLock, Locked, TypeOK
  <2>3. \A a \in Ops : op'[a].pc \in Applying => spool
    BY <1>1 DEF Exclusive, TypeOK
  <2> QED
    BY <2>1, <2>2, <2>3 DEF Exclusive
<1> QED
  BY <1>2, <1>3, <1>4, <1>5

\* An operator at work goes on, or ends.
LEMMA MoveKeeps ==
    ASSUME Discipline, NEW o \in Ops, op[o].pc # "idle",
           \/ Finish(o)
           \/ \E s \in Steps \ {"idle"} :
                 Goto(o, s) /\ (s \in Applying => op[o].pc \in Applying),
           UNCHANGED <<plan, spool, hook>>
    PROVE  Guarded' /\ op' \in OpTypes
<1> USE DEF Discipline, Guarded
<1>1. ASSUME Finish(o) PROVE Guarded' /\ op' \in OpTypes
  <2>1. op' = [op EXCEPT ![o] = [pc |-> "idle", plan |-> None, raw |-> None]]
    BY <1>1 DEF Finish, Resting
  <2>2. op' \in OpTypes
    BY <2>1 DEF TypeOK, OpTypes, Steps
  <2>3. OpsTyped' /\ HooksTyped'
    BY <2>1 DEF OpsTyped, HooksTyped, TypeOK
  <2>4. Exclusive'
    BY <2>1 DEF Exclusive, SharedHeld, Locked, Applying, TypeOK
  <2> QED
    BY <2>2, <2>3, <2>4
<1>2. ASSUME NEW s \in Steps \ {"idle"}, Goto(o, s),
             s \in Applying => op[o].pc \in Applying
      PROVE Guarded' /\ op' \in OpTypes
  <2>1. op' = [op EXCEPT ![o].pc = s]
    BY <1>2 DEF Goto
  <2>2. op' \in OpTypes
    BY <2>1 DEF TypeOK, OpTypes
  <2>3. OpsTyped' /\ HooksTyped'
    BY <2>1 DEF OpsTyped, HooksTyped, TypeOK
  <2>4. Exclusive'
    BY <2>1, <1>2 DEF Exclusive, SharedHeld, Locked, TypeOK
  <2> QED
    BY <2>2, <2>3, <2>4
<1> QED
  BY <1>1, <1>2

LEMMA OperatorKeeps ==
    ASSUME Discipline, NEW o \in Ops, Operator(o)
    PROVE  Discipline'
<1> USE DEF Discipline
<1>1. ASSUME NEW p \in Plans, Apply(o, p) PROVE Discipline'
  <2>1. \E s \in {"save_installed", "save_prepared"} : Begin(o, p, s)
    BY <1>1 DEF Apply
  <2>2. Guarded' /\ op' \in OpTypes /\ base' \in [Plans -> Nat]
    BY <1>1, <2>1, BeginKeeps DEF Apply, CanLock, Steps
  <2> QED
    BY <1>1, <2>2 DEF Apply, TypeOK, OpTypes
<1>2. ASSUME NEW p \in Plans, Remove(o, p) PROVE Discipline'
  <2>1. \E s \in {"save_removed", "save_removing"} : Begin(o, p, s)
    BY <1>2 DEF Remove
  <2>2. Guarded' /\ op' \in OpTypes /\ base' \in [Plans -> Nat]
    BY <1>2, <2>1, BeginKeeps DEF Remove, Steps, Applying
  <2> QED
    BY <1>2, <2>2 DEF Remove, TypeOK, OpTypes
<1>3. ASSUME SavePrepared(o) PROVE Discipline'
  <2>1. Guarded' /\ op' \in OpTypes
    BY <1>3, MoveKeeps DEF SavePrepared, Steps, Applying
  <2>2. manifest' \in [Plans -> Manifests \cup {None}]
    BY <1>3 DEF SavePrepared, SaveManifest, Saved, Statuses, Manifests, TypeOK
  <2> QED
    BY <1>3, <2>1, <2>2 DEF SavePrepared, TypeOK, OpTypes
<1>4. ASSUME SaveRemoving(o) PROVE Discipline'
  <2>1. Guarded' /\ op' \in OpTypes
    BY <1>4, MoveKeeps DEF SaveRemoving, Steps, Applying
  <2>2. Target(o) \in Docs
    BY <1>4, TargetIsDoc DEF SaveRemoving
  <2>3. manifest' \in [Plans -> Manifests \cup {None}]
    BY <1>4, <2>2 DEF SaveRemoving, SaveManifest, Statuses, Manifests, TypeOK
  <2> QED
    BY <1>4, <2>1, <2>3 DEF SaveRemoving, TypeOK, OpTypes
<1>5. ASSUME Compare(o) PROVE Discipline'
  <2>1. Guarded' /\ op' \in OpTypes
    <3>1. op[o].pc # "idle" /\ UNCHANGED <<plan, spool, hook>>
      BY <1>5 DEF Compare
    <3>2. \/ Finish(o)
          \/ \E s \in Steps \ {"idle"} : Goto(o, s) /\ (s \in Applying => op[o].pc \in Applying)
      BY <1>5 DEF Compare, Steps, Applying
    <3> QED
      BY <3>1, <3>2, MoveKeeps
  <2> QED
    BY <1>5, <2>1 DEF Compare, TypeOK, OpTypes
<1>6. ASSUME Rename(o) PROVE Discipline'
  <2>1. Guarded' /\ op' \in OpTypes
    <3>1. op[o].pc # "idle" /\ UNCHANGED <<plan, spool, hook>>
      BY <1>6 DEF Rename
    <3>2. \E s \in Steps \ {"idle"} : Goto(o, s) /\ (s \in Applying => op[o].pc \in Applying)
      BY <1>6 DEF Rename, Steps, Applying
    <3> QED
      BY <3>1, <3>2, MoveKeeps
  <2>2. doc' \in Docs
    BY <1>6, TargetIsDoc DEF Rename
  <2> QED
    BY <1>6, <2>1, <2>2 DEF Rename, TypeOK, OpTypes
<1>7. ASSUME SaveInstalled(o) \/ SaveRemoved(o) PROVE Discipline'
  <2>1. Guarded' /\ op' \in OpTypes
    BY <1>7, MoveKeeps DEF SaveInstalled, SaveRemoved
  <2>2. manifest' \in [Plans -> Manifests \cup {None}]
    BY <1>7 DEF SaveInstalled, SaveRemoved, SaveManifest, Saved, Statuses, Manifests, TypeOK
  <2> QED
    BY <1>7, <2>1, <2>2 DEF SaveInstalled, SaveRemoved, TypeOK, OpTypes
<1>8. ASSUME Stop(o) PROVE Discipline'
  <2>1. Guarded' /\ op' \in OpTypes
    BY <1>8, MoveKeeps DEF Stop
  <2> QED
    BY <1>8, <2>1 DEF Stop, TypeOK, OpTypes
<1> QED
  BY <1>1, <1>2, <1>3, <1>4, <1>5, <1>6, <1>7, <1>8 DEF Operator

LEMMA CaptureKeeps ==
    ASSUME Discipline, NEW h \in Hooks, Capture(h)
    PROVE  Discipline'
<1> USE DEF Discipline, Guarded
<1>1. ASSUME NEW p \in Plans, HookStart(h, p) PROVE Discipline'
  <2>1. TypeOK' /\ OpsTyped' /\ HooksTyped'
    BY <1>1 DEF HookStart, TypeOK, OpsTyped, HooksTyped
  <2>2. Exclusive'
    BY <1>1 DEF HookStart, Exclusive, SharedHeld, Locked, TypeOK
  <2> QED
    BY <2>1, <2>2
<1>2. ASSUME HookLock(h) PROVE Discipline'
  <2>1. TypeOK' /\ OpsTyped' /\ HooksTyped'
    BY <1>2 DEF HookLock, Advance, TypeOK, OpsTyped, HooksTyped
  <2>2. Exclusive'
    BY <1>2 DEF HookLock, Advance, Exclusive, SharedHeld, Locked, TypeOK
  <2> QED
    BY <2>1, <2>2
<1>3. ASSUME HookVerify(h) PROVE Discipline'
  <2>1. TypeOK' /\ OpsTyped' /\ HooksTyped'
    BY <1>3 DEF HookVerify, Advance, TypeOK, OpsTyped, HooksTyped
  <2>2. Exclusive'
    BY <1>3 DEF HookVerify, Advance, Exclusive, SharedHeld, Locked, TypeOK
  <2> QED
    BY <2>1, <2>2
<1>4. ASSUME HookCollect(h) \/ HookEnd(h) PROVE Discipline'
  <2>1. hook' = [hook EXCEPT ![h] = [pc |-> "idle", plan |-> None]]
        /\ UNCHANGED <<doc, edits, plan, manifest, spool, op, base, unseen>>
    BY <1>4 DEF HookCollect, HookEnd, Quiet
  <2>2. rows' \in [Plans -> Nat]
    <3>1. CASE HookEnd(h)
      BY <3>1 DEF HookEnd, TypeOK
    <3>2. CASE HookCollect(h)
      <4>1. PICK p \in Plans : p = hook[h].plan
        BY <3>2 DEF HookCollect, HooksTyped
      <4>2. rows' = [rows EXCEPT ![p] = rows[p] + 1]
        BY <3>2, <4>1 DEF HookCollect
      <4> QED
        BY <4>2 DEF TypeOK
    <3> QED
      BY <1>4, <3>1, <3>2
  <2>3. TypeOK' /\ OpsTyped' /\ HooksTyped'
    BY <2>1, <2>2 DEF TypeOK, OpsTyped, HooksTyped
  <2>4. Exclusive'
    BY <2>1 DEF Exclusive, SharedHeld, Locked, TypeOK
  <2> QED
    BY <2>3, <2>4
<1> QED
  BY <1>1, <1>2, <1>3, <1>4 DEF Capture

LEMMA DisciplineNext == Discipline /\ [Next]_vars => Discipline'
<1> SUFFICES ASSUME Discipline, [Next]_vars PROVE Discipline'
  OBVIOUS
<1> USE DEF Discipline, Guarded
<1>1. ASSUME NEW p \in Plans, Plan(p) PROVE Discipline'
  <2>1. TypeOK'
    BY <1>1 DEF Plan, TypeOK
  <2>2. OpsTyped' /\ HooksTyped'
    BY <1>1 DEF Plan, CanLock, Locked, OpsTyped, HooksTyped, TypeOK
  <2>3. Exclusive'
    BY <1>1 DEF Plan, Exclusive, SharedHeld, Locked
  <2> QED
    BY <2>1, <2>2, <2>3
<1>2. ASSUME Edit PROVE Discipline'
  <2>1. doc' \in Docs /\ edits' \in Nat
    <3>1. PICK x \in Edited(doc), c \in BOOLEAN : doc' = Stamped(x, edits + 1, c)
      BY <1>2 DEF Edit, Stamped
    <3>2. edits' = edits + 1 /\ edits + 1 \in Nat /\ doc \in Docs
      BY <1>2 DEF Edit, TypeOK
    <3> QED
      BY <3>1, <3>2, EditKeepsClean
  <2>2. unseen' \subseteq Nat
    BY <1>2 DEF Edit, TypeOK
  <2>3. TypeOK'
    BY <1>2, <2>1, <2>2 DEF Edit, TypeOK
  <2>4. OpsTyped' /\ HooksTyped' /\ Exclusive'
    BY <1>2 DEF Edit, OpsTyped, HooksTyped, Exclusive, SharedHeld, Locked
  <2> QED
    BY <2>3, <2>4
<1>3. ASSUME LoseSpool PROVE Discipline'
  <2>1. TypeOK' /\ OpsTyped' /\ HooksTyped'
    BY <1>3 DEF LoseSpool, TypeOK, OpsTyped, HooksTyped
  <2>2. Exclusive'
    BY <1>3 DEF LoseSpool, CanLock, Exclusive, SharedHeld, Locked, Applying
  <2> QED
    BY <2>1, <2>2
<1>4. CASE UNCHANGED vars
  <2>1. TypeOK'
    BY <1>4 DEF vars, TypeOK
  <2>2. OpsTyped' /\ HooksTyped' /\ Exclusive'
    BY <1>4 DEF vars, OpsTyped, HooksTyped, Exclusive, SharedHeld, Locked
  <2> QED
    BY <2>1, <2>2
<1> QED
  BY <1>1, <1>2, <1>3, <1>4, OperatorKeeps, CaptureKeeps DEF Next

\* Every variable keeps its type, and the locks their discipline.
THEOREM DisciplineHolds == Spec => []Discipline
  BY DisciplineInit, DisciplineNext, PTL DEF Spec

\* The type invariant the runs check.
THEOREM TypesHold == Spec => []TypeOK
  BY DisciplineHolds, PTL DEF Discipline

-----------------------------------------------------------------------------
(* What a hook has seen under the shared lock stays true while it holds it. *)

Verified == \A h \in Hooks : hook[h].pc = "verified" => Active(hook[h].plan)

\* Only an operator at work changes a manifest.
LEMMA ManifestsNeedAnOperator ==
    ASSUME [Next]_vars
    PROVE  manifest' = manifest \/ Locked
<1>1. ASSUME NEW o \in Ops, Operator(o) PROVE manifest' = manifest \/ op[o].pc # "idle"
  BY <1>1 DEF Operator, Apply, Remove, SavePrepared, SaveRemoving, Compare, Rename,
              SaveInstalled, SaveRemoved, Stop
<1>2. ASSUME NEW h \in Hooks, Capture(h) PROVE manifest' = manifest
  BY <1>2 DEF Capture, HookStart, HookLock, HookVerify, HookCollect, HookEnd
<1> QED
  BY <1>1, <1>2 DEF Next, Plan, Edit, LoseSpool, vars, Locked

LEMMA VerifiedNext == Discipline /\ Verified /\ [Next]_vars => Verified'
<1> SUFFICES ASSUME Discipline, Verified, [Next]_vars,
                    NEW h \in Hooks, hook'[h].pc = "verified"
             PROVE  Active(hook[h].plan)' 
  BY DEF Verified
<1> USE DEF Discipline, Guarded
<1>1. CASE hook'[h] = hook[h]
  <2>1. ~Locked
    BY <1>1 DEF Exclusive, SharedHeld
  <2>2. manifest' = manifest
    BY <2>1, ManifestsNeedAnOperator
  <2> QED
    BY <1>1, <2>2 DEF Verified, Active, Status
<1>2. CASE hook'[h] # hook[h]
  <2>1. PICK g \in Hooks : Capture(g)
    BY <1>2 DEF Next, vars, Plan, Edit, LoseSpool, Operator, Apply, Remove, SavePrepared,
                SaveRemoving, Compare, Rename, SaveInstalled, SaveRemoved, Stop
  <2>2. HookVerify(h)
    BY <1>2, <2>1 DEF Capture, HookStart, HookLock, HookVerify, HookCollect, HookEnd,
                      Advance, Quiet, TypeOK
  <2>3. Active(hook[h].plan) /\ manifest' = manifest /\ hook'[h].plan = hook[h].plan
    BY <2>2 DEF HookVerify, Advance, TypeOK
  <2> QED
    BY <2>3 DEF Active, Status
<1> QED
  BY <1>1, <1>2

LEMMA VerifiedHolds == Spec => []Verified
<1>1. Init => Verified
  BY DEF Init, Verified, Quiet
<1> QED
  BY <1>1, VerifiedNext, DisciplineHolds, PTL DEF Spec

\* A hook adds a row only while the registration it belongs to is active,
\* and never while an operator is at work.
THEOREM CaptureNeedsRegistration == Spec => CapturedWhileActive
<1>1. ASSUME Discipline, Verified, [Next]_vars
      PROVE  [\A p \in Plans : rows'[p] # rows[p] => Active(p) /\ ~Locked]_vars
  <2> SUFFICES ASSUME NEW p \in Plans, rows'[p] # rows[p]
               PROVE  Active(p) /\ ~Locked
    OBVIOUS
  <2>1. PICK h \in Hooks : HookCollect(h)
    BY <1>1 DEF Next, vars, Plan, Edit, LoseSpool, Operator, Apply, Remove, SavePrepared,
                SaveRemoving, Compare, Rename, SaveInstalled, SaveRemoved, Stop,
                Capture, HookStart, HookLock, HookVerify, HookEnd
  <2>2. hook[h].pc = "verified" /\ hook[h].plan = p
    BY <1>1, <2>1 DEF HookCollect, Discipline, TypeOK
  <2> QED
    BY <1>1, <2>2 DEF Verified, Discipline, Guarded, Exclusive, SharedHeld
<1> QED
  BY <1>1, DisciplineHolds, VerifiedHolds, PTL DEF Spec, CapturedWhileActive

-----------------------------------------------------------------------------
(* Whose entries are where.                                                *)

PlansClean == \A p \in Plans : plan[p] # None => AllClean(plan[p])

\* What an interrupted removal was about to write holds none of its entries.
Digests ==
    \A p \in Plans : Status(p) = "removing" => Clean(manifest[p].removed, p)

\* What an operator knows of the document it read, of its manifest, and of
\* the file as it is.
Snapshot(o) ==
    /\ op[o].pc \in {"save_prepared", "compare_with", "rename_with"}
         => AllClean(op[o].raw)
    /\ op[o].pc \in Removing
         => Unstacked(op[o].raw) /\ Owned(op[o].raw, op[o].plan)
    /\ op[o].pc \in {"compare_with", "rename_with", "save_installed"}
         => Status(op[o].plan) # "removed"
    /\ op[o].pc = "save_removed" => Clean(doc, op[o].plan)

Snapshots == \A o \in Ops : Snapshot(o)

Tidy == PlansClean /\ NotStacked /\ RemovedIsClean /\ Digests /\ Snapshots

\* Nothing but the rename that applies a plan brings its entries into the
\* file, and it finds the file without any.
LEMMA FileStep ==
    ASSUME Discipline, Tidy, [Next]_vars
    PROVE  /\ Unstacked(doc')
           /\ \A p \in Plans : \/ Clean(doc, p) => Clean(doc', p)
                              \/ \E o \in Ops : /\ op[o].pc = "rename_with"
                                              /\ op[o].plan = p /\ Rename(o)
<1>1. Unstacked(doc)
  BY DEF Tidy, NotStacked, Unstacked
<1>2. CASE doc' = doc
  BY <1>1, <1>2
<1>3. CASE Edit
  <2>1. PICK x \in Edited(doc), c \in BOOLEAN : doc' = Stamped(x, edits + 1, c)
    BY <1>3 DEF Edit, Stamped
  <2>2. doc \in Docs /\ edits + 1 \in Nat
    BY DEF Discipline, TypeOK
  <2>3. \A p \in Plans : Clean(doc, p) => Clean(Stamped(x, edits + 1, c), p)
    BY <2>2, EditKeepsClean
  <2>4. \A p \in Plans : Clean(doc, p) => Clean(doc', p)
    BY <2>1, <2>3
  <2> QED
    BY <1>1, <2>4 DEF Unstacked
<1>4. ASSUME NEW o \in Ops, Rename(o), op[o].pc = "rename_with"
      PROVE  /\ Unstacked(doc')
             /\ \A p \in Plans \ {op[o].plan} : Clean(doc', p)
  <2>1. PICK p \in Plans : p = op[o].plan
    BY <1>4 DEF Discipline, Guarded, OpsTyped
  <2>2. op[o].raw \in Docs /\ AllClean(op[o].raw)
    BY <1>4 DEF Discipline, Guarded, OpsTyped, Tidy, Snapshots, Snapshot
  <2>3. doc' = With(op[o].raw, p)
    BY <1>4, <2>1 DEF Rename, Target
  <2>4. \A q \in Plans \ {p} : Clean(doc', q)
    BY <2>2, <2>3, WithAddsOnlyMine DEF AllClean
  <2> QED
    BY <2>1, <2>4 DEF Unstacked
<1>5. ASSUME NEW o \in Ops, Rename(o), op[o].pc = "rename_without"
      PROVE  \A p \in Plans : Clean(doc', p)
  <2>1. PICK p \in Plans : p = op[o].plan
    BY <1>5 DEF Discipline, Guarded, OpsTyped
  <2>2. op[o].raw \in Docs /\ Unstacked(op[o].raw) /\ Owned(op[o].raw, p)
    BY <1>5, <2>1 DEF Discipline, Guarded, OpsTyped, Tidy, Snapshots, Snapshot, Removing
  <2>3. plan[p] \in Docs
    BY <1>5, <2>1 DEF Discipline, Guarded, OpsTyped, TypeOK
  <2>4. doc' = Without(op[o].raw, p, plan[p])
    BY <1>5, <2>1 DEF Rename, Target
  <2>5. \A q \in Plans \ {p} : Clean(op[o].raw, q)
    BY <2>2, OwnedIsNotClean DEF Unstacked
  <2> QED
    BY <2>2, <2>3, <2>4, <2>5, WithoutIsClean
<1>6. \/ doc' = doc
      \/ Edit
      \/ \E o \in Ops : Rename(o)
  BY DEF Next, vars, Plan, LoseSpool, Operator, Apply, Remove, SavePrepared, SaveRemoving,
         Compare, SaveInstalled, SaveRemoved, Stop,
         Capture, HookStart, HookLock, HookVerify, HookCollect, HookEnd
<1>7. ASSUME NEW o \in Ops, Rename(o)
      PROVE  \/ op[o].pc = "rename_with"
             \/ op[o].pc = "rename_without"
  BY <1>7 DEF Rename
<1> QED
  BY <1>2, <1>3, <1>4, <1>5, <1>6, <1>7 DEF Unstacked

LEMMA TidyInit == Init => Tidy
<1> SUFFICES ASSUME Init PROVE Tidy
  OBVIOUS
<1>1. \A p \in Plans : Clean(doc, p)
  BY DEF Init, Clean
<1>2. NotStacked /\ RemovedIsClean
  BY <1>1 DEF NotStacked, RemovedIsClean
<1>3. PlansClean /\ Digests
  BY DEF Init, PlansClean, Digests, Status
<1>4. Snapshots
  BY DEF Init, Resting, Snapshots, Snapshot, Removing
<1> QED
  BY <1>2, <1>3, <1>4 DEF Tidy

\* The operators that do not take this step: their knowledge is rigid, and
\* the file and the manifest they rely on do not change under them.
LEMMA OthersKeepTheirs ==
    ASSUME Discipline, Tidy, [Next]_vars, NEW a \in Ops, op'[a] = op[a]
    PROVE  Snapshot(a)'
<1> USE DEF Discipline, Guarded
<1>1. CASE op[a].pc = "idle"
  BY <1>1 DEF Snapshot, Removing
<1>2. CASE op[a].pc # "idle"
  <2>1. PICK p \in Plans : p = op[a].plan
    BY <1>2 DEF OpsTyped
  <2>2. Snapshot(a)
    BY DEF Tidy, Snapshots
  <2>3. ASSUME op[a].pc \in {"compare_with", "rename_with", "save_installed"}
        PROVE  manifest' = manifest
    <3>1. spool
      BY <2>3 DEF Exclusive, Applying
    <3>2. \A o \in Ops \ {a} : op[o].pc = "idle"
      BY <1>2, <3>1 DEF Exclusive
    <3>3. ASSUME NEW o \in Ops, Operator(o) PROVE manifest' = manifest
      <4>1. CASE o = a
        BY <1>2, <3>3, <4>1 DEF Operator, Apply, Remove, SavePrepared, SaveRemoving, Compare,
             Rename, SaveInstalled, SaveRemoved, Stop, Goto, Finish, Resting, TypeOK
      <4>2. CASE o # a
        BY <3>2, <3>3, <4>2 DEF Operator, Apply, Remove, SavePrepared, SaveRemoving, Compare,
             Rename, SaveInstalled, SaveRemoved, Stop
      <4> QED
        BY <4>1, <4>2
    <3>4. ASSUME NEW h \in Hooks, Capture(h) PROVE manifest' = manifest
      BY <3>4 DEF Capture, HookStart, HookLock, HookVerify, HookCollect, HookEnd
    <3> QED
      BY <3>3, <3>4 DEF Next, Plan, Edit, LoseSpool, vars
  <2>4. ASSUME op[a].pc = "save_removed" PROVE Clean(doc', p)
    <3>1. Clean(doc, p)
      BY <2>1, <2>2, <2>4 DEF Snapshot
    <3>2. ~ \E o \in Ops : op[o].pc = "rename_with"
      BY <1>2, <2>4 DEF Exclusive, Applying
    <3> QED
      BY <3>1, <3>2, FileStep
  <2> QED
    BY <2>1, <2>2, <2>3, <2>4 DEF Snapshot, Status
<1> QED
  BY <1>1, <1>2

\* What is left to show of a step once the file and the others are known.
LEMMA StepIsTidy ==
    ASSUME Discipline, Tidy, [Next]_vars, PlansClean', Digests',
           \A a \in Ops : op'[a] # op[a] => Snapshot(a)',
           \A p \in Plans : manifest'[p] # manifest[p] =>
                (Status(p)' = "removed" => Clean(doc', p))
    PROVE  Tidy'
<1>1. Snapshots'
  BY OthersKeepTheirs DEF Snapshots
<1>2. NotStacked'
  BY FileStep DEF NotStacked, Unstacked
<1>3. RemovedIsClean'
  <2> SUFFICES ASSUME NEW p \in Plans, Status(p)' = "removed" PROVE Clean(doc', p)
    BY DEF RemovedIsClean
  <2>1. CASE manifest'[p] # manifest[p]
    BY <2>1
  <2>2. CASE manifest'[p] = manifest[p]
    <3>1. Status(p) = "removed" /\ Clean(doc, p)
      BY <2>2 DEF Status, Tidy, RemovedIsClean
    <3>2. ~ \E o \in Ops : op[o].pc = "rename_with" /\ op[o].plan = p
      BY <3>1 DEF Tidy, Snapshots, Snapshot
    <3> QED
      BY <3>1, <3>2, FileStep
  <2> QED
    BY <2>1, <2>2
<1> QED
  BY <1>1, <1>2, <1>3 DEF Tidy

LEMMA OperatorTidies ==
    ASSUME Discipline, Tidy, NEW o \in Ops, Operator(o)
    PROVE  Tidy'
<1> USE DEF Discipline, Guarded
<1>0. [Next]_vars
  BY DEF Next
<1>1. ASSUME NEW p \in Plans, Apply(o, p) PROVE Tidy'
  <2>1. PICK s \in {"save_installed", "save_prepared"} :
             /\ op' = [op EXCEPT ![o] = [pc |-> s, plan |-> p, raw |-> doc]]
             /\ s = "save_installed" => ReapplyAccepts(p)
             /\ s = "save_prepared" => ApplyAccepts(p)
    BY <1>1 DEF Apply, Begin
  <2>2. UNCHANGED <<doc, plan, manifest>> /\ plan[p] # None
    BY <1>1 DEF Apply
  <2>3. op'[o] = [pc |-> s, plan |-> p, raw |-> doc]
    BY <2>1 DEF TypeOK
  <2>4. Snapshot(o)'
    <3>1. CASE s = "save_installed"
      BY <2>1, <2>2, <2>3, <3>1 DEF Snapshot, Removing, ReapplyAccepts, Active, Status
    <3>2. CASE s = "save_prepared"
      BY <2>1, <2>2, <2>3, <3>2 DEF Snapshot, Removing, ApplyAccepts, Tidy, PlansClean
    <3> QED
      BY <3>1, <3>2
  <2>5. \A a \in Ops : op'[a] # op[a] => a = o
    BY <2>1 DEF TypeOK
  <2>6. PlansClean' /\ Digests'
    BY <2>2 DEF Tidy, PlansClean, Digests, Status
  <2> QED
    BY <1>0, <2>2, <2>4, <2>5, <2>6, StepIsTidy
<1>2. ASSUME NEW p \in Plans, Remove(o, p) PROVE Tidy'
  <2>1. PICK s \in {"save_removed", "save_removing"} :
             /\ op' = [op EXCEPT ![o] = [pc |-> s, plan |-> p, raw |-> doc]]
             /\ s = "save_removed" => RemovalIsDone(p)
             /\ s = "save_removing" => RemovalIsDue(p)
    BY <1>2 DEF Remove, Begin
  <2>2. UNCHANGED <<doc, plan, manifest>> /\ plan[p] # None
    BY <1>2 DEF Remove
  <2>3. op'[o] = [pc |-> s, plan |-> p, raw |-> doc]
    BY <2>1 DEF TypeOK
  <2>4. Snapshot(o)'
    <3>1. CASE s = "save_removed"
      <4>1. Clean(doc, p)
        BY <2>1, <2>2, <3>1 DEF RemovalIsDone, Tidy, Digests, PlansClean, AllClean
      <4> QED
        BY <2>2, <2>3, <3>1, <4>1 DEF Snapshot, Removing
    <3>2. CASE s = "save_removing"
      <4>1. Owned(doc, p) /\ Unstacked(doc)
        BY <2>1, <3>2 DEF RemovalIsDue, Tidy, NotStacked, Unstacked
      <4> QED
        BY <2>2, <2>3, <3>2, <4>1 DEF Snapshot, Removing
    <3> QED
      BY <3>1, <3>2
  <2>5. \A a \in Ops : op'[a] # op[a] => a = o
    BY <2>1 DEF TypeOK
  <2>6. PlansClean' /\ Digests'
    BY <2>2 DEF Tidy, PlansClean, Digests, Status
  <2> QED
    BY <1>0, <2>2, <2>4, <2>5, <2>6, StepIsTidy
<1>3. ASSUME SavePrepared(o) PROVE Tidy'
  <2>1. PICK p \in Plans : p = op[o].plan
    BY <1>3 DEF SavePrepared, OpsTyped
  <2>2. /\ manifest' = [manifest EXCEPT ![p] = [status |-> "prepared", removed |-> None]]
        /\ op' = [op EXCEPT ![o].pc = "compare_with"]
        /\ op[o].pc = "save_prepared" /\ UNCHANGED <<doc, plan>>
    BY <1>3, <2>1 DEF SavePrepared, SaveManifest, Saved, Goto
  <2>3. \A q \in Plans \ {p} : manifest'[q] = manifest[q]
    BY <2>2 DEF TypeOK
  <2>4. Status(p)' \in {"none", "prepared"}
    BY <2>2 DEF TypeOK, Status
  <2>5. /\ op'[o].pc = "compare_with" /\ op'[o].plan = p /\ op'[o].raw = op[o].raw
        /\ \A a \in Ops : op'[a] # op[a] => a = o
    BY <2>1, <2>2 DEF TypeOK
  <2>6. Snapshot(o)'
    BY <2>2, <2>4, <2>5 DEF Snapshot, Removing, Tidy, Snapshots, Status
  <2>7. PlansClean' /\ Digests'
    BY <2>2, <2>3, <2>4 DEF Tidy, PlansClean, Digests, Status
  <2> QED
    BY <1>0, <2>3, <2>4, <2>5, <2>6, <2>7, StepIsTidy
<1>4. ASSUME SaveRemoving(o) PROVE Tidy'
  <2>1. PICK p \in Plans : p = op[o].plan
    BY <1>4 DEF SaveRemoving, OpsTyped
  <2>2. PICK t : t = Without(op[o].raw, p, plan[p])
    OBVIOUS
  <2>3. /\ manifest' = [manifest EXCEPT ![p] = [status |-> "removing", removed |-> t]]
        /\ op' = [op EXCEPT ![o].pc = "compare_without"]
        /\ op[o].pc = "save_removing" /\ UNCHANGED <<doc, plan>>
    BY <1>4, <2>1, <2>2 DEF SaveRemoving, SaveManifest, Goto, Target
  <2>4. Clean(t, p)
    BY <2>1, <2>2, <2>3, WithoutIsClean DEF OpsTyped, TypeOK
  <2>5. /\ \A q \in Plans \ {p} : manifest'[q] = manifest[q]
        /\ manifest'[p] = [status |-> "removing", removed |-> t]
    BY <2>3 DEF TypeOK
  <2>6. Status(p)' \in {"none", "removing"}
    BY <2>5 DEF Status
  <2>7. /\ op'[o].pc = "compare_without" /\ op'[o].plan = p /\ op'[o].raw = op[o].raw
        /\ \A a \in Ops : op'[a] # op[a] => a = o
    BY <2>1, <2>3 DEF TypeOK
  <2>8. Snapshot(o)'
    BY <2>1, <2>3, <2>7 DEF Snapshot, Removing, Tidy, Snapshots
  <2>9. PlansClean' /\ Digests'
    BY <2>3, <2>4, <2>5 DEF Tidy, PlansClean, Digests, Status
  <2> QED
    BY <1>0, <2>5, <2>6, <2>7, <2>8, <2>9, StepIsTidy
<1>5. ASSUME Compare(o) PROVE Tidy'
  <2>1. UNCHANGED <<doc, plan, manifest>>
    BY <1>5 DEF Compare
  <2>2. PlansClean' /\ Digests'
    BY <2>1 DEF Tidy, PlansClean, Digests, Status
  <2>3. CASE Finish(o)
    <3>1. op'[o].pc = "idle" /\ \A a \in Ops : op'[a] # op[a] => a = o
      BY <2>3 DEF Finish, Resting, TypeOK
    <3>2. Snapshot(o)'
      BY <3>1 DEF Snapshot, Removing
    <3> QED
      BY <1>0, <2>1, <2>2, <3>1, <3>2, StepIsTidy
  <2>4. CASE op[o].pc = "compare_with" /\ Goto(o, "rename_with")
    <3>1. /\ op'[o].pc = "rename_with" /\ op'[o].plan = op[o].plan /\ op'[o].raw = op[o].raw
          /\ \A a \in Ops : op'[a] # op[a] => a = o
      BY <2>4 DEF Goto, TypeOK
    <3>2. Snapshot(o)'
      BY <2>1, <2>4, <3>1 DEF Snapshot, Removing, Tidy, Snapshots, Status
    <3> QED
      BY <1>0, <2>1, <2>2, <3>1, <3>2, StepIsTidy
  <2>5. CASE op[o].pc = "compare_without" /\ Goto(o, "rename_without")
    <3>1. /\ op'[o].pc = "rename_without" /\ op'[o].plan = op[o].plan /\ op'[o].raw = op[o].raw
          /\ \A a \in Ops : op'[a] # op[a] => a = o
      BY <2>5 DEF Goto, TypeOK
    <3>2. Snapshot(o)'
      BY <2>1, <2>5, <3>1 DEF Snapshot, Removing, Tidy, Snapshots
    <3> QED
      BY <1>0, <2>1, <2>2, <3>1, <3>2, StepIsTidy
  <2> QED
    BY <1>5, <2>3, <2>4, <2>5 DEF Compare
<1>6. ASSUME Rename(o) PROVE Tidy'
  <2>1. PICK p \in Plans : p = op[o].plan
    BY <1>6 DEF Rename, OpsTyped
  <2>2. UNCHANGED <<plan, manifest>> /\ doc' = Target(o)
    BY <1>6 DEF Rename
  <2>3. PlansClean' /\ Digests'
    BY <2>2 DEF Tidy, PlansClean, Digests, Status
  <2>4. CASE op[o].pc = "rename_with" /\ Goto(o, "save_installed")
    <3>1. /\ op'[o].pc = "save_installed" /\ op'[o].plan = p
          /\ \A a \in Ops : op'[a] # op[a] => a = o
      BY <2>1, <2>4 DEF Goto, TypeOK
    <3>2. Status(p) # "removed"
      BY <2>1, <2>4 DEF Tidy, Snapshots, Snapshot
    <3>3. Snapshot(o)'
      BY <2>2, <3>1, <3>2 DEF Snapshot, Removing, Status
    <3> QED
      BY <1>0, <2>2, <2>3, <3>1, <3>3, StepIsTidy
  <2>5. CASE op[o].pc = "rename_without" /\ Goto(o, "save_removed")
    <3>1. /\ op'[o].pc = "save_removed" /\ op'[o].plan = p
          /\ \A a \in Ops : op'[a] # op[a] => a = o
      BY <2>1, <2>5 DEF Goto, TypeOK
    <3>2. doc' = Without(op[o].raw, p, plan[p])
      BY <2>1, <2>2, <2>5 DEF Target
    <3>3. Clean(doc', p)
      BY <2>1, <2>5, <3>2, WithoutIsClean DEF OpsTyped, TypeOK
    <3>4. Snapshot(o)'
      BY <3>1, <3>3 DEF Snapshot, Removing
    <3> QED
      BY <1>0, <2>2, <2>3, <3>1, <3>4, StepIsTidy
  <2> QED
    BY <1>6, <2>4, <2>5 DEF Rename
<1>7. ASSUME SaveInstalled(o) \/ SaveRemoved(o) PROVE Tidy'
  <2>1. PICK p \in Plans : p = op[o].plan
    BY <1>7 DEF SaveInstalled, SaveRemoved, OpsTyped
  <2>2. PICK s \in {"installed", "removed"} :
          /\ manifest' = [manifest EXCEPT ![p] = [status |-> s, removed |-> None]]
          /\ s = "removed" => op[o].pc = "save_removed"
    BY <1>7, <2>1 DEF SaveInstalled, SaveRemoved, SaveManifest, Saved
  <2>3. Finish(o) /\ UNCHANGED <<doc, plan>>
    BY <1>7 DEF SaveInstalled, SaveRemoved
  <2>4. op'[o].pc = "idle" /\ \A a \in Ops : op'[a] # op[a] => a = o
    BY <2>3 DEF Finish, Resting, TypeOK
  <2>5. /\ \A q \in Plans \ {p} : manifest'[q] = manifest[q]
        /\ manifest'[p] = [status |-> s, removed |-> None]
    BY <2>2 DEF TypeOK
  <2>6. Status(p)' \in {"none", s}
    BY <2>5 DEF Status
  <2>7. Status(p)' = "removed" => Clean(doc', p)
    BY <2>1, <2>2, <2>3, <2>6 DEF Tidy, Snapshots, Snapshot
  <2>8. Snapshot(o)'
    BY <2>4 DEF Snapshot, Removing
  <2>9. PlansClean' /\ Digests'
    BY <2>3, <2>5, <2>6 DEF Tidy, PlansClean, Digests, Status
  <2> QED
    BY <1>0, <2>4, <2>5, <2>7, <2>8, <2>9, StepIsTidy
<1>8. ASSUME Stop(o) PROVE Tidy'
  <2>1. UNCHANGED <<doc, plan, manifest>> /\ Finish(o)
    BY <1>8 DEF Stop
  <2>2. op'[o].pc = "idle" /\ \A a \in Ops : op'[a] # op[a] => a = o
    BY <2>1 DEF Finish, Resting, TypeOK
  <2>3. Snapshot(o)'
    BY <2>2 DEF Snapshot, Removing
  <2>4. PlansClean' /\ Digests'
    BY <2>1 DEF Tidy, PlansClean, Digests, Status
  <2> QED
    BY <1>0, <2>1, <2>2, <2>3, <2>4, StepIsTidy
<1> QED
  BY <1>1, <1>2, <1>3, <1>4, <1>5, <1>6, <1>7, <1>8 DEF Operator

LEMMA TidyNext == Discipline /\ Tidy /\ [Next]_vars => Tidy'
<1> SUFFICES ASSUME Discipline, Tidy, [Next]_vars PROVE Tidy'
  OBVIOUS
<1>1. ASSUME NEW p \in Plans, Plan(p) PROVE Tidy'
  <2>1. UNCHANGED <<doc, manifest, op>> /\ plan' = [plan EXCEPT ![p] = doc] /\ AllClean(doc)
    BY <1>1 DEF Plan, AllClean
  <2>2. PlansClean'
    BY <2>1 DEF Tidy, PlansClean, Discipline, TypeOK
  <2>3. Digests'
    BY <2>1 DEF Tidy, Digests, Status
  <2> QED
    BY <2>1, <2>2, <2>3, StepIsTidy
<1>2. ASSUME UNCHANGED <<plan, manifest, op>> PROVE Tidy'
  <2>1. PlansClean' /\ Digests'
    BY <1>2 DEF Tidy, PlansClean, Digests, Status
  <2> QED
    BY <1>2, <2>1, StepIsTidy
<1>3. ASSUME NEW h \in Hooks, Capture(h) PROVE UNCHANGED <<plan, manifest, op>>
  BY <1>3 DEF Capture, HookStart, HookLock, HookVerify, HookCollect, HookEnd
<1>4. ASSUME Edit \/ LoseSpool \/ UNCHANGED vars PROVE UNCHANGED <<plan, manifest, op>>
  BY <1>4 DEF Edit, LoseSpool, vars
<1> QED
  BY <1>1, <1>2, <1>3, <1>4, OperatorTidies DEF Next

LEMMA TidyHolds == Spec => []Tidy
  BY TidyInit, TidyNext, DisciplineHolds, PTL DEF Spec

\* A removed registration has no entry in the settings file.
THEOREM RemovalLeavesNothing == Spec => []RemovedIsClean
  BY TidyHolds, PTL DEF Tidy

\* No two registrations have entries in the settings file.
THEOREM RegistrationsDoNotStack == Spec => []NotStacked
  BY TidyHolds, PTL DEF Tidy

-----------------------------------------------------------------------------
(* Which edits an operator can overwrite.                                  *)

\* An operator about to rename has read every edit but those unseen.
Kept ==
    /\ EditsSurvive
    /\ \A o \in Ops : op[o].pc \in {"rename_with", "rename_without"} =>
          \A n \in 1..edits : n > op[o].raw.other => n \in unseen

LEMMA TargetKeepsTheStamp ==
    ASSUME Discipline, NEW o \in Ops, op[o].pc # "idle"
    PROVE  Target(o).other = op[o].raw.other
<1>1. PICK p \in Plans : p = op[o].plan
  BY DEF Discipline, Guarded, OpsTyped
<1>2. op[o].raw \in Docs
  BY DEF Discipline, Guarded, OpsTyped
<1>3. ASSUME NEW d \in Docs PROVE With(d, p).other = d.other
  BY DEF With, Rendered, Docs
<1>4. ASSUME NEW d \in Docs, NEW orig PROVE Without(d, p, orig).other = d.other
  BY DEF Without, Rendered, Docs
<1> QED
  BY <1>1, <1>2, <1>3, <1>4 DEF Target

LEMMA KeptNext == Discipline /\ Kept /\ [Next]_vars => Kept'
<1> SUFFICES ASSUME Discipline, Kept, [Next]_vars PROVE Kept'
  OBVIOUS
<1> USE DEF Discipline, Guarded
<1>1. ASSUME Edit PROVE Kept'
  <2>1. doc \in Docs /\ edits \in Nat /\ edits + 1 \in Nat
    BY DEF TypeOK
  <2>2. PICK x \in Edited(doc), c \in BOOLEAN : doc' = Stamped(x, edits + 1, c)
    BY <1>1 DEF Edit, Stamped
  <2>3. Stamped(x, edits + 1, c).other = edits + 1
    BY <2>1, EditKeepsClean
  <2>4. doc'.other = edits + 1 /\ edits' = edits + 1
    BY <1>1, <2>2, <2>3 DEF Edit
  <2>5. EditsSurvive'
    BY <2>1, <2>4 DEF EditsSurvive
  <2>6. ASSUME NEW o \in Ops, op'[o].pc \in {"rename_with", "rename_without"},
               NEW n \in 1..edits', n > op'[o].raw.other
        PROVE  n \in unseen'
    <3>1. op' = op /\ unseen' = unseen \cup {edits + 1}
      BY <1>1, <2>6 DEF Edit, Renaming
    <3>2. CASE n = edits + 1
      BY <3>1, <3>2
    <3>3. CASE n # edits + 1
      <4>1. n \in 1..edits
        BY <2>1, <2>4, <3>3
      <4> QED
        BY <2>6, <3>1, <4>1 DEF Kept
    <3> QED
      BY <3>2, <3>3
  <2> QED
    BY <2>5, <2>6 DEF Kept
<1>2. ASSUME NEW o \in Ops, Operator(o) PROVE Kept'
  <2>1. UNCHANGED <<edits, unseen>>
    BY <1>2 DEF Operator, Apply, Remove, SavePrepared, SaveRemoving, Compare, Rename,
                SaveInstalled, SaveRemoved, Stop
  <2>2. CASE Compare(o)
    <3>1. doc' = doc
      BY <2>2 DEF Compare
    <3>2. ASSUME NEW a \in Ops, op'[a].pc \in {"rename_with", "rename_without"}
          PROVE  op'[a] = op[a] \/ op'[a].raw = doc
      BY <2>2, <3>2 DEF Compare, Goto, Finish, Resting, TypeOK
    <3> QED
      BY <2>1, <3>1, <3>2 DEF Kept, EditsSurvive
  <2>3. CASE Rename(o)
    <3>1. doc' = Target(o) /\ op[o].pc \in {"rename_with", "rename_without"}
      BY <2>3 DEF Rename
    <3>2. doc'.other = op[o].raw.other
      BY <3>1, TargetKeepsTheStamp
    <3>3. ASSUME NEW a \in Ops, op'[a].pc \in {"rename_with", "rename_without"}
          PROVE  op'[a] = op[a]
      BY <2>3, <3>3 DEF Rename, Goto, TypeOK
    <3> QED
      BY <2>1, <3>1, <3>2, <3>3 DEF Kept, EditsSurvive
  <2>4. CASE ~Compare(o) /\ ~Rename(o)
    <3>1. doc' = doc
      BY <1>2, <2>4 DEF Operator, Apply, Remove, SavePrepared, SaveRemoving,
                SaveInstalled, SaveRemoved, Stop
    <3>2. ASSUME NEW a \in Ops, op'[a].pc \in {"rename_with", "rename_without"}
          PROVE  op'[a] = op[a]
      <4>1. op'[o].pc \notin {"rename_with", "rename_without"} \/ op' = op
        BY <1>2, <2>4 DEF Operator, Apply, Remove, Begin, SavePrepared, SaveRemoving,
                SaveInstalled, SaveRemoved, Stop, Goto, Finish, Resting, TypeOK
      <4>2. \A b \in Ops : op'[b] = op[b] \/ b = o
        BY <1>2, <2>4 DEF Operator, Apply, Remove, Begin, SavePrepared, SaveRemoving,
                SaveInstalled, SaveRemoved, Stop, Goto, Finish, TypeOK
      <4> QED
        BY <3>2, <4>1, <4>2
    <3> QED
      BY <2>1, <3>1, <3>2 DEF Kept, EditsSurvive
  <2> QED
    BY <2>2, <2>3, <2>4
<1>3. ASSUME UNCHANGED <<doc, edits, op, unseen>> PROVE Kept'
  BY <1>3 DEF Kept, EditsSurvive
<1>4. ASSUME NEW h \in Hooks, Capture(h) PROVE UNCHANGED <<doc, edits, op, unseen>>
  BY <1>4 DEF Capture, HookStart, HookLock, HookVerify, HookCollect, HookEnd
<1>5. ASSUME LoseSpool \/ UNCHANGED vars \/ \E p \in Plans : Plan(p)
      PROVE  UNCHANGED <<doc, edits, op, unseen>>
  BY <1>5 DEF LoseSpool, Plan, vars
<1> QED
  BY <1>1, <1>2, <1>3, <1>4, <1>5 DEF Next

\* apply and remove overwrite no edit they could have seen.
THEOREM NoSeenEditIsLost == Spec => []EditsSurvive
<1>1. Init => Kept
  BY DEF Init, Resting, Kept, EditsSurvive
<1>2. Kept => EditsSurvive
  BY DEF Kept
<1> QED
  BY <1>1, <1>2, KeptNext, DisciplineHolds, PTL DEF Spec

-----------------------------------------------------------------------------
(* Where the documents in play come from.                                  *)

AtWork == {o \in Ops : op[o].pc # "idle"}
Copies == {doc} \cup {op[o].raw : o \in AtWork}

\* A document with the stamp of a plan is the one planned for, in its own
\* spelling or in ours, with at most the entries of one plan made for it.
Traced(x) ==
    \A p \in Plans : plan[p] # None /\ plan[p].other = x.other =>
        \/ x \in {plan[p], Rendered(plan[p])}
        \/ \E q \in Plans : /\ plan[q] # None /\ Alike(plan[q], plan[p])
                            /\ x = With(plan[p], q)

Known(x) == x.other \in 0..edits /\ WellFormed(x) /\ Traced(x)

PlansKnown ==
    \A p \in Plans : plan[p] # None =>
        /\ plan[p].other \in 0..edits /\ WellFormed(plan[p])
        /\ \A q \in Plans : plan[q] # None /\ plan[q].other = plan[p].other => Alike(plan[q], plan[p])

Forward == {"save_prepared", "compare_with", "rename_with"}

Restorable ==
    /\ \A x \in Copies : Known(x)
    /\ PlansKnown
    /\ \A o \in Ops : op[o].pc \in Forward => op[o].raw = plan[op[o].plan]

LEMMA EditWellFormed ==
    ASSUME NEW d \in Docs, WellFormed(d), NEW x \in Edited(d), NEW n \in Nat, NEW c \in BOOLEAN
    PROVE  WellFormed(Stamped(x, n, c))
<1> USE DEF Stamped
<1>1. CASE x = d
  BY <1>1 DEF Docs, WellFormed
<1>2. CASE x \in WithTheirs(d)
  <2>1. PICK k \in Keys : x = [d EXCEPT !.hooks = TRUE, !.present = @ \cup {k},
                                        !.theirs = @ \cup {k}]
    BY <1>2 DEF WithTheirs
  <2> QED
    BY <2>1 DEF Docs, WellFormed
<1>3. CASE x \in WithoutKey(d)
  <2>1. PICK k \in d.present :
             x = [d EXCEPT !.mine = [p \in Plans |-> [e \in Events |->
                                       IF e = k THEN 0 ELSE @[p][e]]],
                           !.present = @ \ {k}, !.theirs = @ \ {k}]
    BY <1>3 DEF WithoutKey
  <2>2. /\ x.mine = [p \in Plans |-> [e \in Events |-> IF e = k THEN 0 ELSE d.mine[p][e]]]
        /\ x.present = d.present \ {k} /\ x.theirs = d.theirs \ {k} /\ x.hooks = d.hooks
    BY <2>1 DEF Docs
  <2>3. x = [other |-> x.other, canonical |-> x.canonical, hooks |-> x.hooks, present |-> x.present, theirs |-> x.theirs, mine |-> x.mine]
    BY <2>1 DEF Docs
  <2>4. ASSUME NEW p \in Plans, NEW e \in Events, x.mine[p][e] > 0 PROVE e \in x.present
    BY <2>2, <2>4 DEF WellFormed, Docs
  <2>5. x.theirs \subseteq x.present /\ (x.present # {} => x.hooks)
    BY <2>2 DEF WellFormed
  <2> QED
    BY <2>3, <2>4, <2>5 DEF WellFormed
<1>4. CASE x \in Repeated(d)
  <2>1. PICK p \in {q \in Plans : ~Clean(d, q)}, e \in d.present \cap Events :
             x = [d EXCEPT !.mine[p][e] = 2]
    BY <1>4 DEF Repeated
  <2>2. x.mine = [d.mine EXCEPT ![p] = [d.mine[p] EXCEPT ![e] = 2]]
        /\ x.present = d.present /\ x.theirs = d.theirs /\ x.hooks = d.hooks
    BY <2>1 DEF Docs
  <2>3. x = [other |-> x.other, canonical |-> x.canonical, hooks |-> x.hooks, present |-> x.present, theirs |-> x.theirs, mine |-> x.mine]
    BY <2>1 DEF Docs
  <2>4. ASSUME NEW q \in Plans, NEW k \in Events, x.mine[q][k] > 0 PROVE k \in x.present
    BY <2>1, <2>2, <2>4 DEF WellFormed, Docs
  <2> QED
    BY <2>2, <2>3, <2>4 DEF WellFormed
<1> QED
  BY <1>1, <1>2, <1>3, <1>4 DEF Edited

\* The parts of a document an apply or a removal writes.
LEMMA WithParts ==
    ASSUME NEW d \in Docs, NEW p \in Plans
    PROVE  LET w == With(d, p)
           IN  /\ w.canonical = TRUE /\ w.other = d.other /\ w.hooks /\ w.present = d.present \cup Events
               /\ w.theirs = d.theirs
               /\ w.mine[p] = [e \in Events |-> d.mine[p][e] + 1]
               /\ \A q \in Plans \ {p} : w.mine[q] = d.mine[q]
<1>r. PICK r \in Docs : /\ r = Rendered(d) /\ r.canonical = TRUE /\ r.other = d.other /\ r.hooks = d.hooks
                        /\ r.present = d.present /\ r.theirs = d.theirs /\ r.mine = d.mine
  BY RenderedParts
<1>1. PICK more : more = [e \in Events |-> r.mine[p][e] + 1]
  OBVIOUS
<1>2. With(d, p) = [r EXCEPT !.mine[p] = more, !.hooks = TRUE, !.present = @ \cup Events]
  BY Zenon, <1>1, <1>r DEF With
<1>3. With(d, p).mine = [d.mine EXCEPT ![p] = more]
  BY <1>2, <1>r DEF Docs
<1>4. d.mine \in [Plans -> [Events -> Nat]]
  BY DEF Docs
<1>5. With(d, p).mine[p] = more /\ \A q \in Plans \ {p} : With(d, p).mine[q] = d.mine[q]
  BY <1>3, <1>4
<1>6. /\ With(d, p).canonical = TRUE /\ With(d, p).other = d.other /\ With(d, p).hooks
      /\ With(d, p).present = d.present \cup Events /\ With(d, p).theirs = d.theirs
  BY <1>2, <1>r DEF Docs
<1> QED
  BY <1>1, <1>5, <1>6, <1>r

LEMMA WithOthers ==
    ASSUME NEW d \in Docs, NEW p \in Plans, NEW q \in Plans, q # p
    PROVE  With(d, p).mine[q] = d.mine[q]
<1>1. \A r \in Plans \ {p} : With(d, p).mine[r] = d.mine[r]
  BY WithParts
<1> QED
  BY <1>1

Bare(d, p) == {e \in Events : e \notin d.theirs /\ \A q \in Plans \ {p} : d.mine[q][e] = 0}

LEMMA WithoutParts ==
    ASSUME NEW d \in Docs, NEW p \in Plans, NEW orig \in Docs
    PROVE  LET w == Without(d, p, orig)
           IN  /\ w \in Docs /\ w.other = d.other /\ w.theirs = d.theirs
               /\ w.present = d.present \ {e \in Bare(d, p) : e \notin orig.present}
               /\ w.hooks = (d.hooks /\ (w.present # {} \/ orig.hooks))
               /\ w.mine[p] = [e \in Events |-> 0]
               /\ \A q \in Plans \ {p} : w.mine[q] = d.mine[q]
<1>1. PICK kept : kept = d.present \ {e \in Bare(d, p) : e \notin orig.present}
  OBVIOUS
<1>r. PICK r \in Docs : /\ r = Rendered(d) /\ r.canonical = TRUE /\ r.other = d.other /\ r.hooks = d.hooks
                        /\ r.present = d.present /\ r.theirs = d.theirs /\ r.mine = d.mine
  BY RenderedParts
<1>2. Without(d, p, orig) = [r EXCEPT !.mine[p] = [e \in Events |-> 0], !.present = kept,
                                      !.hooks = @ /\ (kept # {} \/ orig.hooks)]
  BY <1>1, <1>r DEF Without, Bare
<1>3. Without(d, p, orig).mine = [d.mine EXCEPT ![p] = [e \in Events |-> 0]]
  BY <1>2, <1>r DEF Docs
<1>4. d.mine \in [Plans -> [Events -> Nat]]
  BY DEF Docs
<1>5. /\ Without(d, p, orig).mine[p] = [e \in Events |-> 0]
      /\ \A q \in Plans \ {p} : Without(d, p, orig).mine[q] = d.mine[q]
  BY <1>3, <1>4
<1>6. /\ Without(d, p, orig).other = d.other /\ Without(d, p, orig).theirs = d.theirs
      /\ Without(d, p, orig).present = kept
      /\ Without(d, p, orig).hooks = (d.hooks /\ (kept # {} \/ orig.hooks))
  BY <1>2, <1>r DEF Docs
<1> QED
  BY <1>1, <1>5, <1>6, WithoutIsClean

\* Whatever our code writes is spelled as render spells it.
LEMMA WithoutIsCanonical ==
    ASSUME NEW d \in Docs, NEW p \in Plans, NEW orig \in Docs
    PROVE  Without(d, p, orig).canonical = TRUE
<1>1. PICK r \in Docs : r = Rendered(d) /\ r.canonical = TRUE
  BY RenderedParts
<1> QED
  BY <1>1 DEF Without, Docs

LEMMA WrittenWellFormed ==
    ASSUME NEW d \in Docs, NEW p \in Plans, NEW orig \in Docs, WellFormed(d)
    PROVE  WellFormed(With(d, p)) /\ WellFormed(Without(d, p, orig))
<1>1. WellFormed(With(d, p))
  <2>1. PICK w \in Docs : w = With(d, p)
    BY WithAddsOnlyMine
  <2>2. /\ w.hooks /\ w.present = d.present \cup Events /\ w.theirs = d.theirs
    BY <2>1, WithParts
  <2> QED
    BY <2>1, <2>2 DEF WellFormed
<1>2. WellFormed(Without(d, p, orig))
  <2>1. PICK w : w = Without(d, p, orig)
    OBVIOUS
  <2>2. /\ w.theirs = d.theirs
        /\ w.present = d.present \ {e \in Bare(d, p) : e \notin orig.present}
        /\ w.hooks = (d.hooks /\ (w.present # {} \/ orig.hooks))
        /\ w.mine[p] = [e \in Events |-> 0]
        /\ \A q \in Plans \ {p} : w.mine[q] = d.mine[q]
    BY <2>1, WithoutParts
  <2>3. w.theirs \subseteq w.present
    BY <2>2 DEF WellFormed, Bare
  <2>4. w.present # {} => w.hooks
    BY <2>2 DEF WellFormed
  <2>5. ASSUME NEW q \in Plans, NEW e \in Events, w.mine[q][e] > 0 PROVE e \in w.present
    <3>1. q # p /\ d.mine[q][e] > 0
      BY <2>2, <2>5
    <3>2. e \in d.present /\ e \notin Bare(d, p)
      BY <3>1 DEF WellFormed, Bare
    <3> QED
      BY <2>2, <3>2
  <2> QED
    BY <2>1, <2>3, <2>4, <2>5 DEF WellFormed
<1> QED
  BY <1>1, <1>2

\* Removing what was just applied gives the file back, spelled our way.
LEMMA WithoutUndoesWith ==
    ASSUME NEW d \in Docs, NEW p \in Plans, WellFormed(d), Clean(d, p),
           NEW orig \in Docs, Alike(orig, d)
    PROVE  Without(With(d, p), p, orig) = Rendered(d)
<1>a. orig.present = d.present /\ orig.hooks = d.hooks
  BY AlikeParts
<1>r. PICK r \in Docs : /\ r = Rendered(d) /\ r.canonical = TRUE /\ r.other = d.other /\ r.hooks = d.hooks
                        /\ r.present = d.present /\ r.theirs = d.theirs /\ r.mine = d.mine
  BY RenderedParts
<1>1. PICK x \in Docs : x = With(d, p)
  BY WithAddsOnlyMine
<1>2. PICK w \in Docs : w = Without(x, p, orig)
  BY <1>1, WithoutParts
<1>3. /\ x.other = d.other /\ x.hooks /\ x.present = d.present \cup Events /\ x.theirs = d.theirs
      /\ \A q \in Plans \ {p} : x.mine[q] = d.mine[q]
  <2>1. x.other = d.other /\ x.hooks /\ x.present = d.present \cup Events /\ x.theirs = d.theirs
    BY <1>1, WithParts
  <2>2. ASSUME NEW q \in Plans, q # p PROVE x.mine[q] = d.mine[q]
    BY <1>1, <2>2, WithOthers
  <2> QED
    BY <2>1, <2>2
<1>4. /\ w.other = x.other /\ w.theirs = x.theirs
      /\ w.present = x.present \ {e \in Bare(x, p) : e \notin d.present}
      /\ w.hooks = (x.hooks /\ (w.present # {} \/ d.hooks))
      /\ w.mine[p] = [e \in Events |-> 0]
      /\ \A q \in Plans \ {p} : w.mine[q] = x.mine[q]
  <2>1. /\ w.other = x.other /\ w.theirs = x.theirs
        /\ w.present = x.present \ {e \in Bare(x, p) : e \notin orig.present}
        /\ w.hooks = (x.hooks /\ (w.present # {} \/ orig.hooks))
        /\ w.mine[p] = [e \in Events |-> 0]
        /\ \A q \in Plans \ {p} : w.mine[q] = x.mine[q]
    BY <1>2, WithoutParts
  <2> QED
    BY <1>a, <2>1
<1>5. w.present = d.present
  <2>1. ASSUME NEW e \in Events, e \notin d.present PROVE e \in Bare(x, p)
    <3>1. \A q \in Plans : d.mine[q][e] = 0
      BY <2>1 DEF WellFormed, Docs
    <3> QED
      BY <1>3, <2>1, <3>1 DEF WellFormed, Bare
  <2> QED
    BY <1>3, <1>4, <2>1
<1>6. w.hooks = d.hooks
  BY <1>3, <1>4, <1>5 DEF WellFormed, Docs
<1>7. w.mine = d.mine
  <2>1. d.mine \in [Plans -> [Events -> Nat]] /\ w.mine \in [Plans -> [Events -> Nat]]
    BY DEF Docs
  <2>2. d.mine[p] = [e \in Events |-> 0]
    BY <2>1 DEF Clean
  <2>3. \A q \in Plans : w.mine[q] = d.mine[q]
    BY <1>3, <1>4, <2>2
  <2> QED
    BY <2>1, <2>3
<1>8. /\ w = [other |-> w.other, canonical |-> w.canonical, hooks |-> w.hooks,
              present |-> w.present, theirs |-> w.theirs, mine |-> w.mine]
      /\ r = [other |-> r.other, canonical |-> r.canonical, hooks |-> r.hooks,
              present |-> r.present, theirs |-> r.theirs, mine |-> r.mine]
  BY DEF Docs
<1>9. /\ w.canonical = r.canonical /\ w.other = r.other /\ w.theirs = r.theirs
      /\ w.hooks = r.hooks /\ w.present = r.present /\ w.mine = r.mine
  <2>1. w.canonical = r.canonical
    BY <1>2, <1>r, WithoutIsCanonical
  <2> QED
    BY <2>1, <1>r, <1>3, <1>4, <1>5, <1>6, <1>7
<1>10. w = r
  BY <1>8, <1>9
<1> QED
  BY <1>1, <1>2, <1>r, <1>10

\* What is applied is owned.
LEMMA WithIsOwned ==
    ASSUME NEW d \in Docs, NEW p \in Plans, Clean(d, p)
    PROVE  /\ Owned(With(d, p), p) /\ ~Clean(With(d, p), p)
           /\ \A q \in Plans : With(d, q) = With(d, p) => q = p
<1>1. \A e \in Events : With(d, p).mine[p][e] = 1
  <2>1. PICK w \in Docs : w = With(d, p)
    BY WithAddsOnlyMine
  <2>2. w.mine[p] = [e \in Events |-> d.mine[p][e] + 1]
    BY <2>1, WithParts
  <2> QED
    BY <2>1, <2>2 DEF Clean
<1>2. Owned(With(d, p), p)
  BY <1>1 DEF Owned
<1>3. ASSUME NEW q \in Plans, With(d, q) = With(d, p), q # p PROVE FALSE
  <2>1. With(d, q).mine[p] = d.mine[p]
    BY <1>3, WithOthers
  <2> QED
    BY <1>1, <1>3, <2>1, CoreAssumption DEF Clean
<1> QED
  BY <1>2, <1>3, OwnedIsNotClean

\* An operator at work keeps the document it read; one that begins reads
\* the file, and goes forward only with the document of its plan.
LEMMA OpStep ==
    ASSUME Discipline, [Next]_vars, NEW a \in Ops, op'[a].pc # "idle"
    PROVE  \/ /\ op[a].pc # "idle" /\ op'[a].raw = op[a].raw /\ op'[a].plan = op[a].plan
              /\ op'[a].pc \in Forward => op[a].pc \in Forward
           \/ /\ op[a].pc = "idle" /\ op'[a].raw = doc /\ doc' = doc /\ plan' = plan
              /\ op'[a].pc \in Forward => doc = plan[op'[a].plan]
<1> USE DEF Discipline, TypeOK
<1>1. CASE op'[a] = op[a]
  BY <1>1
<1>2. CASE op'[a] # op[a]
  <2>1. PICK o \in Ops : Operator(o)
    BY <1>2 DEF Next, vars, Plan, Edit, LoseSpool, Capture, HookStart, HookLock, HookVerify,
         HookCollect, HookEnd
  <2>2. \A b \in Ops : b # o => op'[b] = op[b]
    BY <2>1 DEF Operator, Apply, Remove, Begin, SavePrepared, SaveRemoving, Compare, Rename,
         SaveInstalled, SaveRemoved, Stop, Goto, Finish
  <2>3. a = o
    BY <1>2, <2>2
  <2>4. ASSUME NEW p \in Plans, Apply(o, p) PROVE
           /\ op[a].pc = "idle" /\ op'[a].raw = doc /\ doc' = doc /\ plan' = plan
           /\ op'[a].pc \in Forward => doc = plan[op'[a].plan]
    BY <2>3, <2>4 DEF Apply, Begin, ApplyAccepts, Forward
  <2>5. ASSUME NEW p \in Plans, Remove(o, p) PROVE
           /\ op[a].pc = "idle" /\ op'[a].raw = doc /\ doc' = doc /\ plan' = plan
           /\ op'[a].pc \notin Forward
    BY <2>3, <2>5 DEF Remove, Begin, Forward
  <2>6. ASSUME SavePrepared(o) \/ SaveRemoving(o) \/ Compare(o) \/ Rename(o) \/
               SaveInstalled(o) \/ SaveRemoved(o) \/ Stop(o)
        PROVE  /\ op[a].pc # "idle" /\ op'[a].raw = op[a].raw /\ op'[a].plan = op[a].plan
               /\ op'[a].pc \in Forward => op[a].pc \in Forward
    <3>1. ASSUME Finish(o) PROVE FALSE
      BY <2>3, <3>1 DEF Finish, Resting
    <3>2. CASE SavePrepared(o)
      BY <2>3, <3>2 DEF SavePrepared, Goto, Forward
    <3>3. CASE SaveRemoving(o)
      BY <2>3, <3>3 DEF SaveRemoving, Goto, Forward
    <3>4. CASE Compare(o)
      BY <2>3, <3>1, <3>4 DEF Compare, Goto, Forward
    <3>5. CASE Rename(o)
      BY <2>3, <3>5 DEF Rename, Goto, Forward
    <3> QED
      BY <2>6, <3>1, <3>2, <3>3, <3>4, <3>5 DEF SaveInstalled, SaveRemoved, Stop
  <2> QED
    BY <2>1, <2>4, <2>5, <2>6 DEF Operator
<1> QED
  BY <1>1, <1>2

\* What a rename writes is as well known as what the operator read.
LEMMA RenameKnown ==
    ASSUME Discipline, Tidy, Restorable, NEW o \in Ops, Rename(o)
    PROVE  Known(doc')
<1>1. PICK p \in Plans : p = op[o].plan
  BY DEF Rename, Discipline, Guarded, OpsTyped
<1>2. PICK raw \in Docs : raw = op[o].raw
  BY DEF Rename, Discipline, Guarded, OpsTyped
<1>3. plan[p] \in Docs /\ op[o].pc # "idle" /\ plan[p] # None
  BY <1>1 DEF Rename, Discipline, Guarded, OpsTyped, TypeOK
<1>4. Known(raw)
  <2>1. raw \in Copies
    BY <1>2, <1>3 DEF Copies, AtWork
  <2> QED
    BY <2>1 DEF Restorable
<1>5. doc' = Target(o) /\ doc'.other = raw.other
  BY <1>2, <1>3, TargetKeepsTheStamp DEF Rename
<1>6. CASE op[o].pc = "rename_with"
  <2>1. doc' = With(raw, p) /\ raw = plan[p]
    BY <1>1, <1>2, <1>5, <1>6 DEF Target, Restorable, Forward
  <2>2. ASSUME NEW q \in Plans, plan[q] # None, plan[q].other = doc'.other
        PROVE  doc' = With(plan[q], p) /\ Alike(plan[p], plan[q])
    <3>1. Alike(plan[q], plan[p]) /\ Alike(plan[p], plan[q])
      BY <1>3, <1>5, <2>1, <2>2 DEF Restorable, PlansKnown
    <3>2. With(plan[q], p) = With(plan[p], p)
      BY <3>1 DEF With, Alike
    <3> QED
      BY <2>1, <3>1, <3>2
  <2>3. Traced(doc')
    BY <1>3, <2>2 DEF Traced
  <2> QED
    BY <1>3, <1>4, <1>5, <2>1, <2>3, WrittenWellFormed DEF Known
<1>7. CASE op[o].pc = "rename_without"
  <2>1. doc' = Without(raw, p, plan[p])
    BY <1>1, <1>2, <1>5, <1>7 DEF Target
  <2>2. Owned(raw, p) /\ ~Clean(raw, p)
    BY <1>1, <1>2, <1>7, OwnedIsNotClean DEF Tidy, Snapshots, Snapshot, Removing
  <2>3. ASSUME NEW q \in Plans, plan[q] # None, plan[q].other = doc'.other
        PROVE  doc' = Rendered(plan[q])
    <3>1. plan[q] \in Docs /\ AllClean(plan[q]) /\ WellFormed(plan[q])
      BY <2>3 DEF Discipline, TypeOK, Tidy, PlansClean, Restorable, PlansKnown
    <3>2. PICK r \in Plans : Alike(plan[r], plan[q]) /\ raw = With(plan[q], r)
      <4>1. Clean(plan[q], p) /\ Clean(Rendered(plan[q]), p)
        BY <3>1, RenderedKeeps DEF AllClean
      <4> QED
        BY <1>4, <1>5, <2>2, <2>3, <4>1 DEF Known, Traced
    <3>3. r = p
      <4>1. ASSUME r # p PROVE Clean(raw, p)
        BY <3>1, <3>2, <4>1, WithAddsOnlyMine DEF AllClean
      <4> QED
        BY <2>2, <4>1
    <3> QED
      BY <1>3, <2>1, <3>1, <3>2, <3>3, WithoutUndoesWith DEF AllClean
  <2>4. Traced(doc')
    BY <2>3 DEF Traced
  <2> QED
    BY <1>3, <1>4, <1>5, <2>1, <2>4, WrittenWellFormed DEF Known
<1> QED
  BY <1>6, <1>7 DEF Rename

\* After an edit every stamp known before is an old one.
LEMMA EditKnown ==
    ASSUME Discipline, Restorable, Edit
    PROVE  Known(doc)' /\ edits' = edits + 1 /\ plan' = plan /\ op' = op
<1>1. doc \in Docs /\ edits \in Nat /\ edits + 1 \in Nat
  BY DEF Discipline, TypeOK
<1>2. PICK x \in Edited(doc), c \in BOOLEAN : doc' = Stamped(x, edits + 1, c)
  BY DEF Edit, Stamped
<1>3. Known(doc)
  BY DEF Restorable, Copies
<1>4. Stamped(x, edits + 1, c).other = edits + 1
  BY <1>1, EditKeepsClean
<1>5. WellFormed(Stamped(x, edits + 1, c))
  BY <1>1, <1>3, EditWellFormed DEF Known
<1>6. edits' = edits + 1 /\ plan' = plan /\ op' = op
  BY DEF Edit
<1>7. doc'.other = edits + 1 /\ WellFormed(doc')
  BY <1>2, <1>4, <1>5
<1>8. \A p \in Plans : plan[p] # None => plan[p].other # edits + 1
  BY <1>1 DEF Restorable, PlansKnown
<1>9. doc'.other \in 0..edits'
  BY <1>1, <1>6, <1>7
<1>10. \A p \in Plans : plan'[p] # None => plan'[p].other # doc'.other
  BY <1>6, <1>7, <1>8
<1>11. Known(doc)'
  BY <1>7, <1>9, <1>10 DEF Known, Traced, WellFormed
<1> QED
  BY <1>6, <1>11

LEMMA RestorableNext ==
    Discipline /\ Tidy /\ Restorable /\ [Next]_vars => Restorable'
<1> SUFFICES ASSUME Discipline, Tidy, Restorable, [Next]_vars PROVE Restorable'
  OBVIOUS
<1>1. ASSUME NEW x \in Copies' PROVE x = doc' \/ x \in Copies
  <2>1. CASE x = doc'
    BY <2>1
  <2>2. CASE x # doc'
    <3>1. PICK a \in Ops : op'[a].pc # "idle" /\ x = op'[a].raw
      BY <1>1, <2>2 DEF Copies, AtWork
    <3> QED
      BY <3>1, OpStep DEF Copies, AtWork
  <2> QED
    BY <2>1, <2>2
<1>2. ASSUME UNCHANGED plan
      PROVE  \A a \in Ops : op'[a].pc \in Forward => op'[a].raw = plan'[op'[a].plan]
  BY <1>2, OpStep DEF Restorable, Forward
<1>3. ASSUME UNCHANGED plan, edits' \in {edits, edits + 1}
      PROVE  PlansKnown' /\ \A x \in Copies : Known(x)'
  <2>1. edits \in Nat
    BY DEF Discipline, TypeOK
  <2>2. PlansKnown'
    BY <1>3, <2>1 DEF Restorable, PlansKnown, WellFormed
  <2>3. ASSUME NEW x \in Copies PROVE Known(x)'
    <3>1. x.other \in 0..edits /\ WellFormed(x) /\ Traced(x)
      BY DEF Restorable, Known
    <3>2. x.other \in 0..edits' /\ Traced(x)'
      BY <1>3, <2>1, <3>1 DEF Traced
    <3> QED
      BY <3>1, <3>2 DEF Known, WellFormed
  <2> QED
    BY <2>2, <2>3
<1>4. ASSUME UNCHANGED <<doc, plan, edits>> PROVE Restorable'
  <2>1. \A x \in Copies' : x \in Copies
    BY <1>1, <1>4 DEF Copies
  <2> QED
    BY <1>2, <1>3, <1>4, <2>1 DEF Restorable
<1>5. ASSUME Edit PROVE Restorable'
  BY <1>1, <1>2, <1>3, <1>5, EditKnown DEF Restorable
<1>6. ASSUME NEW o \in Ops, Rename(o) PROVE Restorable'
  <2>1. PICK d : d = doc'
    OBVIOUS
  <2>2. Known(d)
    BY <1>6, <2>1, RenameKnown
  <2>3. UNCHANGED <<plan, edits>>
    BY <1>6 DEF Rename
  <2>4. Known(doc)'
    BY <2>1, <2>2, <2>3 DEF Known, Traced, WellFormed
  <2> QED
    BY <1>1, <1>2, <1>3, <2>1, <2>3, <2>4 DEF Restorable
<1>7. ASSUME NEW p \in Plans, Plan(p) PROVE Restorable'
  <2>1. /\ \A a \in Ops : op[a].pc = "idle"
        /\ \A q \in Plans : Clean(doc, q)
        /\ plan' = [plan EXCEPT ![p] = doc] /\ UNCHANGED <<doc, edits, op>>
    BY <1>7 DEF Plan, CanLock, Locked
  <2>2. Known(doc)
    BY DEF Restorable, Copies
  <2>3. plan'[p] = doc /\ \A q \in Plans \ {p} : plan'[q] = plan[q]
    BY <2>1 DEF Discipline, TypeOK
  <2>4. ASSUME NEW q \in Plans, plan[q] # None, plan[q].other = doc.other
        PROVE  doc \in {plan[q], Rendered(plan[q])}
    <3>1. plan[q] \in Docs /\ AllClean(plan[q])
      BY <2>4 DEF Discipline, TypeOK, Tidy, PlansClean
    <3>2. ASSUME NEW r \in Plans, doc = With(plan[q], r) PROVE FALSE
      BY <2>1, <3>1, <3>2, WithIsOwned DEF AllClean
    <3> QED
      BY <2>2, <2>4, <3>2 DEF Known, Traced
  <2>5. ASSUME NEW q \in Plans, plan'[q] # None, plan'[q].other = doc.other
        PROVE  doc \in {plan'[q], Rendered(plan'[q])}
    BY <2>3, <2>4, <2>5
  <2>a. ASSUME NEW q \in Plans, plan'[q] # None, plan'[q].other = doc.other
        PROVE  Alike(plan'[q], doc) /\ Alike(doc, plan'[q])
    <3>1. doc \in Docs /\ (plan'[q] = doc \/ plan'[q] \in Docs)
      BY <2>3, <2>a DEF Discipline, TypeOK
    <3> QED
      BY <2>5, <2>a, <3>1, RenderedKeeps DEF Alike
  <2>6. PICK d : d = doc
    OBVIOUS
  <2>7. Known(d)'
    <3>1. Traced(d)'
      BY <2>5, <2>6 DEF Traced
    <3> QED
      BY <2>1, <2>2, <2>6, <3>1 DEF Known, WellFormed
  <2>8. PlansKnown'
    <3>1. \A q \in Plans : plan'[q] # None => plan'[q].other \in 0..edits /\ WellFormed(plan'[q])
      BY <2>2, <2>3 DEF Restorable, PlansKnown, Known
    <3>2. ASSUME NEW q \in Plans, plan'[q] # None, NEW r \in Plans, plan'[r] # None,
                 plan'[r].other = plan'[q].other
          PROVE  Alike(plan'[r], plan'[q])
      <4>1. CASE q # p /\ r # p
        BY <2>3, <3>2, <4>1 DEF Restorable, PlansKnown
      <4>2. CASE q = p
        BY <2>3, <2>a, <3>2, <4>2
      <4>3. CASE r = p
        BY <2>3, <2>a, <3>2, <4>3
      <4> QED
        BY <4>1, <4>2, <4>3
    <3> QED
      BY <2>1, <3>1, <3>2 DEF PlansKnown, WellFormed
  <2>9. \A x \in Copies' : x = d
    BY <2>1, <2>6 DEF Copies, AtWork
  <2> QED
    BY <2>1, <2>7, <2>8, <2>9 DEF Restorable, Forward
<1>8. ASSUME NEW o \in Ops, Operator(o), ~Rename(o) PROVE UNCHANGED <<doc, plan, edits>>
  BY <1>8 DEF Operator, Apply, Remove, SavePrepared, SaveRemoving, Compare, SaveInstalled,
       SaveRemoved, Stop
<1>9. ASSUME NEW h \in Hooks, Capture(h) PROVE UNCHANGED <<doc, plan, edits>>
  BY <1>9 DEF Capture, HookStart, HookLock, HookVerify, HookCollect, HookEnd
<1>10. ASSUME LoseSpool \/ UNCHANGED vars PROVE UNCHANGED <<doc, plan, edits>>
  BY <1>10 DEF LoseSpool, vars
<1> QED
  BY <1>4, <1>5, <1>6, <1>7, <1>8, <1>9, <1>10 DEF Next

LEMMA RestorableInit == Init => Restorable
<1> SUFFICES ASSUME Init PROVE Restorable
  OBVIOUS
<1>1. doc.other = 0 /\ WellFormed(doc) /\ \A p \in Plans : plan[p] = None
  BY DEF Init
<1>2. AtWork = {} /\ edits = 0
  BY DEF Init, Resting, AtWork
<1>3. Known(doc)
  BY <1>1, <1>2 DEF Known, Traced
<1>4. \A x \in Copies : x = doc
  BY <1>2 DEF Copies
<1>5. PlansKnown
  BY <1>1 DEF PlansKnown
<1>6. \A o \in Ops : op[o].pc \notin Forward
  BY DEF Init, Resting, Forward
<1> QED
  BY <1>3, <1>4, <1>5, <1>6 DEF Restorable

\* Once no entry of ours is left, a file nobody has edited since the plan has
\* the JSON it was planned for: what apply created, remove takes away again.
\* Its bytes are the planned ones, or those of the same JSON as render spells
\* it, which are the planned ones too if the file was spelled so.
THEOREM RestoresTheFile == Spec => []RestoresOriginal
<1>1. Discipline /\ Tidy /\ Restorable => RestoresOriginal
  <2> SUFFICES ASSUME Discipline, Tidy, Restorable, NEW p \in Plans, plan[p] # None,
                      doc.other = plan[p].other, \A q \in Plans : Clean(doc, q)
               PROVE  doc \in {plan[p], Rendered(plan[p])}
    BY DEF RestoresOriginal
  <2>1. Traced(doc)
    BY DEF Restorable, Copies, Known
  <2>2. plan[p] \in Docs /\ AllClean(plan[p])
    BY DEF Discipline, TypeOK, Tidy, PlansClean
  <2>3. ASSUME NEW r \in Plans, doc = With(plan[p], r) PROVE FALSE
    BY <2>2, <2>3, WithIsOwned DEF AllClean
  <2> QED
    BY <2>1, <2>3 DEF Traced
<1>2. Spec => []Restorable
  BY RestorableInit, RestorableNext, DisciplineHolds, TidyHolds, PTL DEF Spec
<1> QED
  BY <1>1, <1>2, DisciplineHolds, TidyHolds, PTL

-----------------------------------------------------------------------------
(* Why a removal can always be resumed.                                    *)

\* remove would accept a file x for plan q, unless it is the planned file in
\* another spelling than the planned one.
Accepts(x, q) ==
    \/ Status(q) = "removed"
    \/ Status(q) = "removing" /\ x = manifest[q].removed
    \/ Status(q) = "prepared" /\ x \in {plan[q], Rendered(plan[q])}
    \/ Status(q) \in {"prepared", "installed", "removing"} /\ Owned(x, q)

\* If x is the document q's last operation read, with or without entries,
\* then remove accepts it, unless another plan's entries are in the way: and
\* then it would accept the file without those.
Fine(x, q) ==
    x.other = base[q] =>
        /\ AllClean(x) \/ ~Clean(x, q) => Accepts(x, q)
        /\ \A p \in Plans \ {q} : ~Clean(x, p) =>
              plan[p] # None /\ x = With(plan[p], p) /\ Accepts(plan[p], q)

\* What the manifest of an operator's plan says at each of its steps, and
\* that the file is still what it read, if its stamp is.
ProgressOf(p, raw, pc) ==
    /\ base[p] = raw.other
    /\ pc \notin {"save_installed", "save_removed"} /\ doc.other = raw.other => doc = raw
    /\ pc = "save_prepared" => Status(p) \in {"none", "removed", "prepared"}
    /\ pc \in {"compare_with", "rename_with"} => Status(p) = "prepared"
    /\ pc = "save_installed" =>
          /\ Status(p) \in {"prepared", "installed"}
          /\ doc.other = raw.other => Owned(doc, p)
    /\ pc = "save_removing" => Status(p) \in {"prepared", "installed", "removing"}
    /\ pc \in {"compare_without", "rename_without"} =>
          Status(p) = "removing" /\ manifest[p].removed = Without(raw, p, plan[p])
    /\ pc = "save_removed" => manifest[p] # None

Progress(o) == op[o].pc # "idle" => ProgressOf(op[o].plan, op[o].raw, op[o].pc)

Resumable(q) ==
    manifest[q] # None =>
        /\ plan[q] # None /\ base[q] \in 0..edits
        /\ Fine(doc, q)
        /\ \A o \in AtWork : op[o].plan # q => Fine(op[o].raw, q)

Cleared(q) ==
    Status(q) = "removing" =>
        /\ AllClean(manifest[q].removed)
        /\ Rendered(manifest[q].removed) = manifest[q].removed

Recovering ==
    spool => /\ \A q \in Plans : Resumable(q) /\ Cleared(q)
             /\ \A o \in Ops : Progress(o)

LEMMA FineKeeps ==
    ASSUME NEW x, NEW q \in Plans, Fine(x, q),
           manifest'[q] = manifest[q], base'[q] = base[q], plan' = plan
    PROVE  Fine(x, q)'
<1>1. Status(q)' = Status(q)
  BY DEF Status
<1>2. ASSUME NEW y PROVE Accepts(y, q)' <=> Accepts(y, q)
  BY <1>1 DEF Accepts
<1> QED
  BY <1>2 DEF Fine, AllClean

LEMMA OneAtWork ==
    ASSUME Discipline, spool, NEW o \in Ops, op[o].pc # "idle"
    PROVE  \A a \in Ops \ {o} : op[a].pc = "idle"
  BY DEF Discipline, Guarded, Exclusive

\* A file that remove accepts, with no entries of another plan, is fine.
LEMMA AcceptedIsFine ==
    ASSUME NEW x, NEW q \in Plans, Accepts(x, q), \A p \in Plans \ {q} : Clean(x, p)
    PROVE  Fine(x, q)
  BY DEF Fine

\* Rendering an accepted file leaves it accepted.
LEMMA RenderedIsAccepted ==
    ASSUME NEW x \in Docs, NEW q \in Plans, Accepts(x, q), Cleared(q), plan[q] \in Docs
    PROVE  Accepts(Rendered(x), q)
<1>1. CASE Status(q) = "removed"
  BY <1>1 DEF Accepts
<1>2. CASE Status(q) = "removing" /\ x = manifest[q].removed
  BY <1>2 DEF Accepts, Cleared
<1>3. CASE Status(q) = "prepared" /\ x \in {plan[q], Rendered(plan[q])}
  <2>1. Rendered(Rendered(plan[q])) = Rendered(plan[q])
    BY RenderedKeeps
  <2> QED
    BY <1>3, <2>1 DEF Accepts
<1>4. CASE Status(q) \in {"prepared", "installed", "removing"} /\ Owned(x, q)
  <2>1. Owned(Rendered(x), q)
    BY <1>4, RenderedKeeps
  <2> QED
    BY <1>4, <2>1 DEF Accepts
<1> QED
  BY <1>1, <1>2, <1>3, <1>4 DEF Accepts

\* What is left to show of a step of an operator at work.
LEMMA OperatorRecovers ==
    ASSUME Discipline, Restorable, Recovering, spool, NEW o \in Ops, op[o].pc # "idle",
           NEW p \in Plans, p = op[o].plan, NEW raw, raw = op[o].raw,
           UNCHANGED <<edits, plan, base, spool>>,
           \A a \in Ops : a # o => op'[a] = op[a],
           op'[o].pc # "idle" => op'[o].raw = raw /\ op'[o].plan = p,
           \A q \in Plans \ {p} : manifest'[q] = manifest[q],
           \A q \in Plans \ {p} : manifest[q] # None => Fine(doc, q)',
           manifest'[p] # None => Fine(doc, p)',
           Progress(o)', Cleared(p)'
    PROVE  Recovering'
<1>1. \A a \in Ops \ {o} : op[a].pc = "idle"
  BY OneAtWork
<1>2. \A a \in AtWork' : a = o
  BY <1>1 DEF AtWork
<1>3. Progress(o) /\ plan[p] # None
  BY DEF Recovering, Discipline, Guarded, OpsTyped
<1>4. base[p] \in 0..edits
  <2>1. raw \in Copies
    BY DEF Copies, AtWork
  <2>2. raw.other \in 0..edits
    BY <2>1 DEF Restorable, Known
  <2> QED
    BY <1>3, <2>2 DEF Progress, ProgressOf
<1>5. Resumable(p)'
  <2>1. \A a \in AtWork' : op'[a].plan = p
    BY <1>2 DEF AtWork
  <2> QED
    BY <1>3, <1>4, <2>1 DEF Resumable
<1>6. ASSUME NEW q \in Plans \ {p} PROVE Resumable(q)' /\ Cleared(q)'
  <2>1. Resumable(q) /\ Cleared(q)
    BY DEF Recovering
  <2>2. Cleared(q)'
    BY <2>1 DEF Cleared, Status, AllClean
  <2>3. ASSUME manifest'[q] # None PROVE Resumable(q)'
    <3>1. o \in AtWork /\ op[o].plan # q
      BY DEF AtWork
    <3>2. Fine(raw, q)
      BY <2>1, <2>3, <3>1 DEF Resumable
    <3>3. Fine(raw, q)'
      BY <3>2, FineKeeps
    <3>4. \A a \in AtWork' : op'[a].raw = raw
      BY <1>2 DEF AtWork
    <3>5. (\A a \in AtWork : Fine(op[a].raw, q))'
      BY <3>3, <3>4
    <3>6. plan'[q] # None /\ base'[q] \in 0..edits' /\ Fine(doc, q)'
      BY <2>1, <2>3 DEF Resumable
    <3> QED
      BY <3>5, <3>6 DEF Resumable
  <2> QED
    BY <2>2, <2>3 DEF Resumable
<1>7. ASSUME NEW a \in Ops \ {o} PROVE Progress(a)'
  BY <1>1 DEF Progress
<1> QED
  BY <1>5, <1>6, <1>7 DEF Recovering

\* Beginning: the operator read a file that remove accepts.
LEMMA BeginRecovers ==
    ASSUME Discipline, Tidy, Restorable, Recovering, spool,
           NEW o \in Ops, NEW p \in Plans, op[o].pc = "idle", plan[p] # None, ~Locked,
           Apply(o, p) \/ Remove(o, p)
    PROVE  Recovering'
<1>1. PICK s \in {"save_installed", "save_prepared", "save_removed", "save_removing"} :
          /\ Begin(o, p, s)
          /\ s = "save_installed" => ReapplyAccepts(p)
          /\ s = "save_prepared" => ApplyAccepts(p)
          /\ s = "save_removed" => RemovalIsDone(p)
          /\ s = "save_removing" => RemovalIsDue(p)
  BY DEF Apply, Remove
<1>2. UNCHANGED <<doc, edits, plan, manifest, spool>>
  BY DEF Apply, Remove
<1>3. /\ op'[o] = [pc |-> s, plan |-> p, raw |-> doc]
      /\ \A a \in Ops \ {o} : op'[a] = op[a] /\ op[a].pc = "idle"
      /\ base'[p] = doc.other /\ \A q \in Plans \ {p} : base'[q] = base[q]
  BY <1>1 DEF Begin, Locked, Discipline, TypeOK
<1>4. \A q \in Plans : Status(q)' = Status(q)
  BY <1>2 DEF Status
<1>5. \A a \in AtWork' : a = o
  BY <1>3 DEF AtWork
<1>6. doc.other \in 0..edits
  BY DEF Restorable, Copies, Known
<1>7. plan[p] # None => AllClean(plan[p])
  BY DEF Tidy, PlansClean
<1>8. manifest[p] # None => Accepts(doc, p)
  <2>1. manifest[p] # None => Status(p) \in Statuses
    BY DEF Status, Discipline, TypeOK, Manifests
  <2> QED
    BY <1>1, <2>1 DEF Statuses, ReapplyAccepts, ApplyAccepts, RemovalIsDone, RemovalIsDue, Active, Accepts, Status
<1>9. \A r \in Plans \ {p} : Clean(doc, r)
  <2>1. CASE Owned(doc, p)
    BY <2>1, OwnedIsNotClean DEF Tidy, NotStacked
  <2>2. CASE ~Owned(doc, p)
    <3>1. doc = plan[p] \/ (Status(p) = "removing" /\ doc = manifest[p].removed)
      BY <1>1, <2>2 DEF ReapplyAccepts, ApplyAccepts, RemovalIsDone, RemovalIsDue
    <3>2. AllClean(doc)
      BY <1>7, <3>1 DEF Recovering, Cleared
    <3> QED
      BY <3>2 DEF AllClean
  <2> QED
    BY <2>1, <2>2
<1>10. Resumable(p)'
  <2>1. manifest[p] # None => Fine(doc, p)'
    <3>1. Accepts(doc, p)' <=> Accepts(doc, p)
      BY <1>2, <1>4 DEF Accepts
    <3> QED
      BY <1>2, <1>8, <1>9, <3>1 DEF Fine
  <2>2. \A a \in AtWork' : op'[a].plan = p
    BY <1>3, <1>5
  <2> QED
    BY <1>2, <1>3, <1>6, <2>1, <2>2 DEF Resumable
<1>11. ASSUME NEW q \in Plans \ {p} PROVE Resumable(q)'
  <2>1. ASSUME manifest[q] # None PROVE Fine(doc, q) /\ plan[q] # None /\ base[q] \in 0..edits
    BY <2>1 DEF Recovering, Resumable
  <2>2. PICK raw : raw = doc
    OBVIOUS
  <2>3. ASSUME manifest[q] # None PROVE Fine(raw, q)'
    BY <1>2, <1>3, <2>1, <2>2, <2>3, FineKeeps
  <2>4. \A a \in AtWork' : op'[a].raw = raw
    BY <1>3, <1>5, <2>2
  <2>5. manifest[q] # None => (\A a \in AtWork : Fine(op[a].raw, q))'
    BY <2>3, <2>4
  <2>6. manifest[q] # None => Fine(doc, q)'
    BY <1>2, <2>2, <2>3
  <2> QED
    BY <1>2, <1>3, <2>1, <2>5, <2>6 DEF Resumable
<1>12. ASSUME NEW q \in Plans PROVE Cleared(q)'
  BY <1>2, <1>4 DEF Recovering, Cleared, AllClean
<1>13. Progress(o)'
  <2>1. /\ s = "save_prepared" => Status(p) \in {"none", "removed", "prepared"}
        /\ s = "save_installed" => Status(p) \in {"prepared", "installed"} /\ Owned(doc, p)
        /\ s = "save_removing" => Status(p) \in {"prepared", "installed", "removing"}
        /\ s = "save_removed" => manifest[p] # None
    BY <1>1 DEF ReapplyAccepts, ApplyAccepts, RemovalIsDone, RemovalIsDue, Active, Status
  <2> QED
    BY <1>2, <1>3, <1>4, <2>1 DEF Progress, ProgressOf
<1>14. ASSUME NEW a \in Ops \ {o} PROVE Progress(a)'
  BY <1>3 DEF Progress
<1> QED
  BY <1>10, <1>11, <1>12, <1>13, <1>14 DEF Recovering

\* The manifest is saved first: with the file as it was read, that is a
\* state remove accepts.
LEMMA SavingRecovers ==
    ASSUME Discipline, Tidy, Restorable, Recovering, spool, NEW o \in Ops,
           SavePrepared(o) \/ SaveRemoving(o) \/ SaveInstalled(o) \/ SaveRemoved(o)
    PROVE  Recovering'
<1>1. PICK p \in Plans : p = op[o].plan
  BY DEF SavePrepared, SaveRemoving, SaveInstalled, SaveRemoved, Discipline, Guarded, OpsTyped
<1>2. PICK raw \in Docs : raw = op[o].raw
  BY DEF SavePrepared, SaveRemoving, SaveInstalled, SaveRemoved, Discipline, Guarded, OpsTyped
<1>3. op[o].pc # "idle" /\ UNCHANGED <<doc, edits, plan, base, spool>>
  BY DEF SavePrepared, SaveRemoving, SaveInstalled, SaveRemoved
<1>4. ProgressOf(p, raw, op[o].pc)
  BY <1>1, <1>2, <1>3 DEF Recovering, Progress
<1>5. PICK m : manifest' = [manifest EXCEPT ![p] = m] /\
               \/ op[o].pc = "save_prepared" /\ m = Saved("prepared") /\ Goto(o, "compare_with")
               \/ /\ op[o].pc = "save_removing" /\ m = [status |-> "removing", removed |-> Target(o)]
                  /\ Goto(o, "compare_without")
               \/ op[o].pc = "save_installed" /\ m = Saved("installed") /\ Finish(o)
               \/ op[o].pc = "save_removed" /\ m = Saved("removed") /\ Finish(o)
  BY <1>1 DEF SavePrepared, SaveRemoving, SaveInstalled, SaveRemoved, SaveManifest
<1>6. \A a \in Ops : a # o => op'[a] = op[a]
  BY <1>5 DEF Goto, Finish, Discipline, TypeOK
<1>7. manifest'[p] = m /\ \A q \in Plans \ {p} : manifest'[q] = manifest[q]
  BY <1>5 DEF Discipline, TypeOK
<1>8. plan[p] # None /\ plan[p] \in Docs /\ AllClean(plan[p])
  BY <1>1, <1>3 DEF Discipline, Guarded, OpsTyped, TypeOK, Tidy, PlansClean
<1>9. m \in Manifests /\ m # None /\ Status(p)' = m.status
  <2>1. Target(o) \in Docs
    BY <1>3, TargetIsDoc
  <2>2. m \in Manifests
    BY <1>5, <2>1 DEF Saved, Statuses, Manifests
  <2> QED
    BY <1>7, <2>2, NoneAssumption DEF Status
<1>10. \A q \in Plans \ {p} : manifest[q] # None => Fine(doc, q)'
  <2> SUFFICES ASSUME NEW q \in Plans \ {p}, manifest[q] # None PROVE Fine(doc, q)'
    OBVIOUS
  <2>1. PICK x : x = doc
    OBVIOUS
  <2>2. Fine(x, q)
    BY <2>1 DEF Recovering, Resumable
  <2>3. Fine(x, q)'
    BY <1>3, <1>7, <2>2, FineKeeps
  <2> QED
    BY <1>3, <2>1, <2>3
<1>11. ASSUME doc.other = base[p]
       PROVE  Accepts(doc, p)' /\ \A r \in Plans \ {p} : ~Clean(doc, r) =>
                 plan[r] # None /\ doc = With(plan[r], r) /\ Accepts(plan[r], p)'
  <2>1. doc.other = raw.other
    BY <1>4, <1>11 DEF ProgressOf
  <2>2. ASSUME Owned(doc, p), m.status \in {"prepared", "installed", "removing"}
        PROVE  Accepts(doc, p)' /\ \A r \in Plans \ {p} : Clean(doc, r)
    <3>1. \A r \in Plans \ {p} : Clean(doc, r)
      BY <2>2, OwnedIsNotClean DEF Tidy, NotStacked
    <3> QED
      BY <1>3, <1>9, <2>2, <3>1 DEF Accepts
  <2>3. CASE op[o].pc = "save_prepared"
    <3>1. doc = plan[p] /\ m.status = "prepared"
      BY <1>1, <1>2, <1>4, <1>5, <2>1, <2>3 DEF ProgressOf, Restorable, Forward, Saved
    <3>2. Accepts(doc, p)'
      BY <1>3, <1>9, <3>1 DEF Accepts
    <3> QED
      BY <1>8, <3>1, <3>2 DEF AllClean
  <2>4. CASE op[o].pc = "save_removing"
    <3>1. doc = raw /\ m.status = "removing"
      BY <1>4, <1>5, <2>1, <2>4 DEF ProgressOf
    <3>2. Owned(doc, p)
      BY <1>1, <1>2, <2>4, <3>1 DEF Tidy, Snapshots, Snapshot, Removing
    <3> QED
      BY <2>2, <3>1, <3>2
  <2>5. CASE op[o].pc = "save_installed"
    <3>1. Owned(doc, p) /\ m.status = "installed"
      BY <1>4, <1>5, <2>1, <2>5 DEF ProgressOf, Saved
    <3> QED
      BY <2>2, <3>1
  <2>6. CASE op[o].pc = "save_removed"
    <3>1. \A x : Accepts(x, p)'
      BY <1>5, <1>9, <2>6 DEF Saved, Accepts
    <3>2. manifest[p] # None
      BY <1>4, <2>6 DEF ProgressOf
    <3>3. Fine(doc, p)
      BY <3>2 DEF Recovering, Resumable
    <3> QED
      BY <1>11, <3>1, <3>3 DEF Fine
  <2> QED
    BY <1>5, <2>3, <2>4, <2>5, <2>6
<1>12. Fine(doc, p)'
  BY <1>3, <1>11 DEF Fine
<1>13. Cleared(p)'
  <2> SUFFICES ASSUME m.status = "removing"
               PROVE  AllClean(m.removed) /\ Rendered(m.removed) = m.removed
    BY <1>7, <1>9 DEF Cleared, AllClean
  <2>1. op[o].pc = "save_removing" /\ m.removed = Without(raw, p, plan[p])
    BY <1>1, <1>2, <1>5 DEF Saved, Target
  <2>2. Unstacked(raw) /\ Owned(raw, p)
    BY <1>1, <1>2, <2>1 DEF Tidy, Snapshots, Snapshot, Removing
  <2>3. \A r \in Plans \ {p} : Clean(raw, r)
    BY <2>2, OwnedIsNotClean DEF Unstacked
  <2>4. AllClean(m.removed) /\ m.removed \in Docs
    BY <1>8, <2>1, <2>3, WithoutIsClean DEF AllClean
  <2>5. m.removed.canonical = TRUE
    BY <1>8, <2>1, WithoutIsCanonical
  <2>6. Rendered(m.removed) = m.removed
    BY <2>4, <2>5, RenderedKeeps
  <2> QED
    BY <2>4, <2>6
<1>14. Progress(o)'
  <2>1. CASE op[o].pc = "save_prepared"
    <3>1. op'[o].pc = "compare_with" /\ op'[o].raw = raw /\ op'[o].plan = p /\ m.status = "prepared"
      BY <1>1, <1>2, <1>5, <2>1 DEF Goto, Discipline, TypeOK, Saved
    <3>2. ProgressOf(p, raw, "compare_with")'
      BY <1>3, <1>4, <1>9, <2>1, <3>1 DEF ProgressOf
    <3> QED
      BY <3>1, <3>2 DEF Progress
  <2>2. CASE op[o].pc = "save_removing"
    <3>1. op'[o].pc = "compare_without" /\ op'[o].raw = raw /\ op'[o].plan = p
      BY <1>1, <1>2, <1>5, <2>2 DEF Goto, Discipline, TypeOK
    <3>2. m.status = "removing" /\ m.removed = Without(raw, p, plan[p])
      BY <1>1, <1>2, <1>5, <2>2 DEF Target
    <3>3. ProgressOf(p, raw, "compare_without")'
      BY <1>3, <1>4, <1>7, <1>9, <2>2, <3>2 DEF ProgressOf
    <3> QED
      BY <3>1, <3>3 DEF Progress
  <2>3. CASE Finish(o)
    BY <2>3 DEF Finish, Resting, Discipline, TypeOK, Progress
  <2> QED
    BY <1>5, <2>1, <2>2, <2>3
<1>15. op'[o].pc # "idle" => op'[o].raw = raw /\ op'[o].plan = p
  BY <1>1, <1>2, <1>5 DEF Goto, Finish, Resting, Discipline, TypeOK
<1> QED
  BY <1>1, <1>2, <1>3, <1>6, <1>7, <1>10, <1>12, <1>13, <1>14, <1>15, OperatorRecovers

\* The comparison, and the end of a process, write nothing.
LEMMA PausingRecovers ==
    ASSUME Discipline, Restorable, Recovering, spool, NEW o \in Ops, Compare(o) \/ Stop(o)
    PROVE  Recovering'
<1>1. PICK p \in Plans : p = op[o].plan
  BY DEF Compare, Stop, Discipline, Guarded, OpsTyped
<1>2. PICK raw \in Docs : raw = op[o].raw
  BY DEF Compare, Stop, Discipline, Guarded, OpsTyped
<1>3. op[o].pc # "idle" /\ UNCHANGED <<doc, edits, plan, manifest, base, spool>>
  BY DEF Compare, Stop
<1>4. ProgressOf(p, raw, op[o].pc)
  BY <1>1, <1>2, <1>3 DEF Recovering, Progress
<1>5. \/ op[o].pc = "compare_with" /\ Goto(o, "rename_with")
      \/ op[o].pc = "compare_without" /\ Goto(o, "rename_without")
      \/ Finish(o)
  BY DEF Compare, Stop
<1>6. \A a \in Ops : a # o => op'[a] = op[a]
  BY <1>5 DEF Goto, Finish, Discipline, TypeOK
<1>7. op'[o].pc # "idle" =>
         /\ op'[o].raw = raw /\ op'[o].plan = p
         /\ \/ op[o].pc = "compare_with" /\ op'[o].pc = "rename_with"
            \/ op[o].pc = "compare_without" /\ op'[o].pc = "rename_without"
  BY <1>1, <1>2, <1>5 DEF Goto, Finish, Resting, Discipline, TypeOK
<1>8. Progress(o)'
  <2> SUFFICES ASSUME op'[o].pc # "idle" PROVE ProgressOf(p, raw, op[o].pc)'
    BY <1>7 DEF Progress
  <2>1. Status(p)' = Status(p)
    BY <1>3 DEF Status
  <2> QED
    BY <1>3, <1>4, <1>7, <2>1 DEF ProgressOf
<1>9. ASSUME NEW q \in Plans, manifest[q] # None PROVE Fine(doc, q)'
  <2>1. PICK x : x = doc
    OBVIOUS
  <2>2. Fine(x, q)
    BY <1>9, <2>1 DEF Recovering, Resumable
  <2>3. Fine(x, q)'
    BY <1>3, <2>2, FineKeeps
  <2> QED
    BY <1>3, <2>1, <2>3
<1>10. Cleared(p)'
  BY <1>3 DEF Recovering, Cleared, Status, AllClean
<1> QED
  BY <1>1, <1>2, <1>3, <1>6, <1>7, <1>8, <1>9, <1>10, OperatorRecovers

\* The rename puts in place a file that remove accepts for this plan, and
\* for another one if it accepted what the operator read.
LEMMA RenameRecovers ==
    ASSUME Discipline, Tidy, Restorable, Recovering, spool, NEW o \in Ops, Rename(o)
    PROVE  Recovering'
<1>1. PICK p \in Plans : p = op[o].plan
  BY DEF Rename, Discipline, Guarded, OpsTyped
<1>2. PICK raw \in Docs : raw = op[o].raw
  BY DEF Rename, Discipline, Guarded, OpsTyped
<1>3. op[o].pc # "idle" /\ UNCHANGED <<edits, plan, manifest, base, spool>>
  BY DEF Rename
<1>4. ProgressOf(p, raw, op[o].pc)
  BY <1>1, <1>2, <1>3 DEF Recovering, Progress
<1>5. plan[p] # None /\ plan[p] \in Docs /\ AllClean(plan[p]) /\ WellFormed(plan[p])
  BY <1>1, <1>3 DEF Discipline, Guarded, OpsTyped, TypeOK, Tidy, PlansClean, Restorable, PlansKnown
<1>6. PICK x \in Docs : x = doc' /\ x = Target(o) /\ x.other = raw.other
  BY <1>2, <1>3, TargetIsDoc, TargetKeepsTheStamp DEF Rename
<1>7. \A q \in Plans : Status(q)' = Status(q)
  BY <1>3 DEF Status
<1>8. Cleared(p)'
  BY <1>3, <1>7 DEF Recovering, Cleared, AllClean
<1>9. \A a \in Ops : a # o => op'[a] = op[a]
  BY DEF Rename, Goto, Discipline, TypeOK
<1>10. ASSUME NEW q \in Plans \ {p}, manifest[q] # None PROVE Fine(raw, q)
  <2>1. o \in AtWork /\ op[o].plan # q
    BY <1>1, <1>3 DEF AtWork
  <2> QED
    BY <1>2, <1>10, <2>1 DEF Recovering, Resumable
<1>11. ASSUME NEW q \in Plans, Fine(x, q) PROVE Fine(doc, q)'
  <2>1. Fine(x, q)'
    BY <1>3, <1>11, FineKeeps
  <2> QED
    BY <1>6, <2>1
<1>12. CASE op[o].pc = "rename_with"
  <2>1. op'[o].pc = "save_installed" /\ op'[o].raw = raw /\ op'[o].plan = p
    BY <1>1, <1>2, <1>12 DEF Rename, Goto, Discipline, TypeOK
  <2>2. x = With(raw, p) /\ raw = plan[p] /\ Status(p) = "prepared"
    BY <1>1, <1>2, <1>4, <1>6, <1>12 DEF ProgressOf, Target, Restorable, Forward
  <2>3. /\ Owned(x, p) /\ ~Clean(x, p)
        /\ \A q \in Plans \ {p} : Clean(x, q)
    BY <1>5, <2>2, WithIsOwned, WithAddsOnlyMine DEF AllClean
  <2>4. Accepts(x, p)
    BY <2>2, <2>3 DEF Accepts
  <2>5. Fine(x, p)
    BY <2>3, <2>4, AcceptedIsFine
  <2>6. ASSUME NEW q \in Plans \ {p}, manifest[q] # None PROVE Fine(x, q)
    <3>1. x.other = base[q] => Accepts(plan[p], q)
      BY <1>5, <1>6, <1>10, <2>2, <2>6 DEF Fine
    <3>2. ~AllClean(x) /\ Clean(x, q)
      BY <2>3 DEF AllClean
    <3>3. \A r \in Plans \ {q} : ~Clean(x, r) => r = p
      BY <2>3
    <3> QED
      BY <1>5, <2>2, <3>1, <3>2, <3>3 DEF Fine
  <2>7. ProgressOf(p, raw, "save_installed")'
    BY <1>3, <1>4, <1>6, <1>7, <2>2, <2>3 DEF ProgressOf
  <2>8. Progress(o)'
    BY <2>1, <2>7 DEF Progress
  <2> QED
    BY <1>1, <1>2, <1>3, <1>8, <1>9, <1>11, <2>1, <2>5, <2>6, <2>8, OperatorRecovers
<1>13. CASE op[o].pc = "rename_without"
  <2>1. op'[o].pc = "save_removed" /\ op'[o].raw = raw /\ op'[o].plan = p
    BY <1>1, <1>2, <1>13 DEF Rename, Goto, Discipline, TypeOK
  <2>2. x = Without(raw, p, plan[p]) /\ Status(p) = "removing" /\ manifest[p].removed = x
    BY <1>1, <1>2, <1>4, <1>6, <1>13 DEF ProgressOf, Target
  <2>3. AllClean(x)
    BY <2>2 DEF Recovering, Cleared
  <2>4. Fine(x, p)
    BY <2>2, <2>3, AcceptedIsFine DEF Accepts, AllClean
  <2>5. ~Clean(raw, p)
    BY <1>1, <1>2, <1>13, OwnedIsNotClean DEF Tidy, Snapshots, Snapshot, Removing
  <2>6. ASSUME NEW q \in Plans \ {p}, manifest[q] # None PROVE Fine(x, q)
    <3>1. ASSUME x.other = base[q] PROVE raw = With(plan[p], p) /\ Accepts(plan[p], q)
      BY <1>6, <1>10, <2>5, <2>6, <3>1 DEF Fine
    <3>2. ASSUME x.other = base[q] PROVE x = Rendered(plan[p])
      BY <1>5, <2>2, <3>1, <3>2, WithoutUndoesWith DEF AllClean, Alike
    <3>3. Cleared(q) /\ plan[q] \in Docs
      BY <2>6 DEF Recovering, Resumable, Discipline, TypeOK
    <3>4. ASSUME x.other = base[q] PROVE Accepts(x, q)
      BY <1>5, <3>1, <3>2, <3>3, <3>4, RenderedIsAccepted
    <3> QED
      BY <2>3, <3>4 DEF Fine, AllClean
  <2>7. ProgressOf(p, raw, "save_removed")'
    BY <1>3, <1>4, <2>2 DEF ProgressOf, Status
  <2>8. Progress(o)'
    BY <2>1, <2>7 DEF Progress
  <2> QED
    BY <1>1, <1>2, <1>3, <1>8, <1>9, <1>11, <2>1, <2>4, <2>6, <2>8, OperatorRecovers
<1> QED
  BY <1>12, <1>13 DEF Rename

\* An edit gives the file a stamp that no operation has read.
LEMMA EditRecovers ==
    ASSUME Discipline, Restorable, Recovering, spool, Edit
    PROVE  Recovering'
<1>1. /\ UNCHANGED <<plan, manifest, spool, op, base>>
      /\ edits' = edits + 1 /\ doc'.other = edits + 1 /\ edits \in Nat
  <2>1. doc \in Docs /\ edits + 1 \in Nat /\ edits \in Nat
    BY DEF Discipline, TypeOK
  <2>2. PICK x \in Edited(doc), c \in BOOLEAN : doc' = Stamped(x, edits + 1, c)
    BY DEF Edit, Stamped
  <2>3. Stamped(x, edits + 1, c).other = edits + 1
    BY <2>1, EditKeepsClean
  <2> QED
    BY <2>1, <2>2, <2>3 DEF Edit
<1>2. \A q \in Plans : Status(q)' = Status(q)
  BY <1>1 DEF Status
<1>3. ASSUME NEW q \in Plans PROVE Resumable(q)' /\ Cleared(q)'
  <2>1. Cleared(q)'
    BY <1>1, <1>2 DEF Recovering, Cleared, AllClean
  <2>2. ASSUME manifest[q] # None PROVE Resumable(q)'
    <3>1. /\ plan[q] # None /\ base[q] \in 0..edits
          /\ \A o \in AtWork : op[o].plan # q => Fine(op[o].raw, q)
      BY <2>2 DEF Recovering, Resumable
    <3>2. base'[q] \in 0..edits' /\ base'[q] # doc'.other
      BY <1>1, <3>1
    <3>3. Fine(doc, q)'
      BY <3>2 DEF Fine
    <3>4. ASSUME NEW o \in Ops, op[o].pc # "idle", op[o].plan # q PROVE Fine(op[o].raw, q)'
      <4>1. PICK x : x = op[o].raw
        OBVIOUS
      <4>2. Fine(x, q)
        BY <3>1, <3>4, <4>1 DEF AtWork
      <4>3. Fine(x, q)'
        BY <1>1, <4>2, FineKeeps
      <4> QED
        BY <1>1, <4>1, <4>3
    <3>5. (\A o \in AtWork : op[o].plan # q => Fine(op[o].raw, q))'
      BY <1>1, <3>4 DEF AtWork
    <3> QED
      BY <1>1, <3>1, <3>2, <3>3, <3>5 DEF Resumable
  <2> QED
    BY <1>1, <2>1, <2>2 DEF Resumable
<1>4. ASSUME NEW o \in Ops PROVE Progress(o)'
  <2> SUFFICES ASSUME op[o].pc # "idle" PROVE Progress(o)'
    BY <1>1 DEF Progress
  <2>1. ProgressOf(op[o].plan, op[o].raw, op[o].pc)
    BY DEF Recovering, Progress
  <2>2. op[o].raw \in Copies
    BY DEF Copies, AtWork
  <2>3. op[o].raw.other \in 0..edits
    BY <2>2 DEF Restorable, Known
  <2>4. doc'.other # op[o].raw.other
    BY <1>1, <2>3
  <2>5. PICK p \in Plans, raw \in Docs, pc \in Steps :
             p = op[o].plan /\ raw = op[o].raw /\ pc = op[o].pc
    BY DEF Discipline, Guarded, OpsTyped, TypeOK
  <2>6. ProgressOf(p, raw, pc)'
    BY <1>1, <1>2, <2>1, <2>4, <2>5 DEF ProgressOf
  <2> QED
    BY <1>1, <2>5, <2>6 DEF Progress
<1> QED
  BY <1>3, <1>4 DEF Recovering

\* A plan is made with nobody at work, and with no entry of ours in the file.
LEMMA PlanRecovers ==
    ASSUME Discipline, Restorable, Recovering, spool, NEW p \in Plans, Plan(p)
    PROVE  Recovering'
<1>1. /\ plan[p] = None /\ AllClean(doc) /\ \A o \in Ops : op[o].pc = "idle"
      /\ plan' = [plan EXCEPT ![p] = doc] /\ UNCHANGED <<doc, edits, manifest, spool, op, base>>
  BY DEF Plan, CanLock, Locked, AllClean
<1>2. \A q \in Plans : Status(q)' = Status(q)
  BY <1>1 DEF Status
<1>3. ASSUME NEW q \in Plans PROVE Cleared(q)' /\ Resumable(q)'
  <2>1. Cleared(q)'
    BY <1>1, <1>2 DEF Recovering, Cleared, AllClean
  <2>2. ASSUME manifest[q] # None PROVE Resumable(q)'
    <3>1. plan[q] # None /\ base[q] \in 0..edits /\ Fine(doc, q)
      BY <2>2 DEF Recovering, Resumable
    <3>2. q # p /\ plan'[q] = plan[q]
      BY <1>1, <3>1 DEF Discipline, TypeOK
    <3>3. Accepts(doc, q)' <=> Accepts(doc, q)
      BY <1>1, <1>2, <3>2 DEF Accepts
    <3>4. Fine(doc, q)'
      BY <1>1, <3>1, <3>3 DEF Fine, AllClean
    <3>5. AtWork' = {}
      BY <1>1 DEF AtWork
    <3> QED
      BY <1>1, <3>1, <3>2, <3>4, <3>5 DEF Resumable
  <2> QED
    BY <1>1, <2>1, <2>2 DEF Resumable
<1>4. \A o \in Ops : Progress(o)'
  BY <1>1 DEF Progress
<1> QED
  BY <1>3, <1>4 DEF Recovering

LEMMA RecoveringNext ==
    Discipline /\ Tidy /\ Restorable /\ Recovering /\ [Next]_vars => Recovering'
<1> SUFFICES ASSUME Discipline, Tidy, Restorable, Recovering, [Next]_vars, spool' PROVE Recovering'
  BY DEF Recovering
<1>1. spool
  BY DEF Next, vars, Plan, Edit, LoseSpool, Operator, Apply, Remove, SavePrepared, SaveRemoving,
     Compare, Rename, SaveInstalled, SaveRemoved, Stop,
     Capture, HookStart, HookLock, HookVerify, HookCollect, HookEnd
<1>2. ASSUME NEW o \in Ops, NEW p \in Plans, Apply(o, p) \/ Remove(o, p) PROVE Recovering'
  <2>1. op[o].pc = "idle" /\ plan[p] # None /\ ~Locked
    BY <1>1, <1>2 DEF Apply, Remove, CanLock
  <2> QED
    BY <1>1, <1>2, <2>1, BeginRecovers
<1>3. ASSUME NEW o \in Ops, Operator(o) PROVE Recovering'
  BY <1>1, <1>2, <1>3, SavingRecovers, PausingRecovers, RenameRecovers DEF Operator
<1>4. ASSUME UNCHANGED <<doc, edits, plan, manifest, op, base>> PROVE Recovering'
  BY <1>1, <1>4 DEF Recovering, Resumable, Cleared, Progress, ProgressOf, Fine, Accepts, Status,
     AllClean, AtWork
<1>5. ASSUME NEW h \in Hooks, Capture(h) PROVE UNCHANGED <<doc, edits, plan, manifest, op, base>>
  BY <1>5 DEF Capture, HookStart, HookLock, HookVerify, HookCollect, HookEnd
<1>6. ASSUME LoseSpool \/ UNCHANGED vars PROVE UNCHANGED <<doc, edits, plan, manifest, op, base>>
  BY <1>6 DEF LoseSpool, vars
<1> QED
  BY <1>1, <1>3, <1>4, <1>5, <1>6, EditRecovers, PlanRecovers DEF Next

LEMMA RecoveringInit == Init => Recovering
  BY DEF Init, Resting, Recovering, Resumable, Cleared, Status, Progress

RegistrationInv == Discipline /\ Tidy /\ Restorable /\ Recovering

LEMMA RegistrationInit == Init => RegistrationInv
  BY DisciplineInit, TidyInit, RestorableInit, RecoveringInit DEF RegistrationInv

LEMMA RegistrationNext == RegistrationInv /\ [Next]_vars => RegistrationInv'
  BY DisciplineNext, TidyNext, RestorableNext, RecoveringNext DEF RegistrationInv

LEMMA InvIsRecoverable ==
    ASSUME RegistrationInv
    PROVE  Recoverable
<1> SUFFICES ASSUME NEW p \in Plans, ~Locked, spool, manifest[p] # None, doc.other = base[p],
                    \A q \in Plans \ {p} : Clean(doc, q)
             PROVE  RemoveAccepts(p) \/ Respelled(p)
  BY DEF Recoverable
<1>1. Fine(doc, p)
  BY DEF RegistrationInv, Recovering, Resumable
<1>2. AllClean(doc) \/ ~Clean(doc, p)
  BY DEF AllClean
<1>3. Accepts(doc, p)
  BY <1>1, <1>2 DEF Fine
<1>4. ASSUME Status(p) = "prepared", doc = Rendered(plan[p]), doc # plan[p]
      PROVE  Respelled(p)
  <2>1. plan[p] \in Docs /\ Clean(plan[p], p)
    BY DEF RegistrationInv, Recovering, Resumable, Discipline, TypeOK, Tidy, PlansClean, AllClean
  <2>2. Clean(doc, p) /\ ~plan[p].canonical
    BY <1>4, <2>1, RenderedKeeps
  <2> QED
    BY <1>4, <2>2 DEF Respelled
<1> QED
  BY <1>3, <1>4 DEF Accepts, RemoveAccepts, RemovalIsDone, RemovalIsDue

\* Wherever an operator was interrupted, remove accepts what it finds, unless
\* the customer has edited the file since, another plan's entries are in it,
\* or another plan's operations have respelled the file an interrupted apply
\* was made for.
THEOREM RemovalCanResume == Spec => []Recoverable
<1>1. Spec => []RegistrationInv
  BY RegistrationInit, RegistrationNext, PTL DEF Spec
<1> QED
  BY <1>1, InvIsRecoverable, PTL
=============================================================================
