------------------------------- MODULE Scope -------------------------------
(***************************************************************************)
(* What the server tells a paired connection after pairing, and who reads  *)
(* it: the repository references, the offer of orchestrators (control      *)
(* planes that start agents here) and whether declared runs are accepted   *)
(* (store.rs, orchestrators.rs); the approval of an offer in a terminal    *)
(* (install.rs); and the hook, which stamps each row with the orchestrator *)
(* of its run without taking any of the locks the writers take (claude.rs).*)
(*                                                                         *)
(* An entry of an offer, its key with its environment names, is a model    *)
(* value.  A reply is numbered in the order the server gives it; references*)
(* are known by the reply they came with, those of the pairing by 0.  The  *)
(* failure code that a refresh leaves for doctor is left out: no step here *)
(* reads it.                                                               *)
(***************************************************************************)
EXTENDS Pairing, Integers

CONSTANTS Hooks,      \* hook processes
          Entries,    \* entries the server may offer
          Wide,       \* targets without a repository: scope_kind installation
          Outside,    \* those with record_orchestrated_outside_repos
          MaxReplies, \* bound on the replies of the scope endpoint
          Listing,    \* replies that list the repository the hooks run in
          Accepting,  \* replies that say declared runs are accepted
          Unreadable  \* what a file that fails its check reads as

Offers      == [entries : SUBSET Entries, refused : BOOLEAN]
SavedOffers == [n : 1..MaxReplies, entries : SUBSET Entries, refused : BOOLEAN]

ASSUME ScopeAssumption == Outside \subseteq Wide /\ Wide \subseteq Targets /\ MaxReplies \in Nat

\* No entry may have the key that marks a run nobody has approved ("valid").
ASSUME NamesAssumption ==
    /\ Unreadable # None /\ None \notin Nat
    /\ \A list \in SUBSET Entries : list \notin {None, Unreadable}
    /\ \A offer \in SavedOffers : offer \notin {None, Unreadable}
    /\ {None, "unapproved"} \cap Entries = {} /\ None # "unapproved"

VARIABLES refs,     \* repository-refs: the reply it came with, or None
          offered,  \* the saved offer
          approved, \* the approved list
          switch,   \* the server accepts declared runs
          replies,  \* replies given so far
          job,      \* job[p]: the reply or the list a process holds
          hook,     \* hook[h]: how far a hook has come
          agreed,   \* the lists a person was shown and said yes to
          offering, \* the last reply that reached the offer offered something
          due       \* due[h]: at every moment so far an unmarked row was wrong

saved     == <<refs, offered, approved, switch>>
scopeVars == <<saved, replies, job, hook, agreed, offering>>
allVars   == <<pairVars, scopeVars, due>>

NoJob   == [reply |-> None, shown |-> None]
Resting == [pc |-> "idle", env |-> {}, saw |-> None, orch |-> None, run |-> FALSE]

ScopeInit ==
    /\ PairInit
    /\ refs = None /\ offered = None /\ approved = None
    /\ switch = FALSE
    /\ replies = 0
    /\ job = [p \in Procs |-> NoJob]
    /\ hook = [h \in Hooks |-> Resting]
    /\ agreed = {} /\ offering = FALSE
    /\ due = [h \in Hooks |-> FALSE]

-----------------------------------------------------------------------------
(* Reading what is saved. *)

\* Where a process holds sync.lock.
Syncing(p) == proc[p].pc \in {"asking", "refs", "offer", "switch"}
SyncFree   == \A p \in Procs : ~Syncing(p)

\* orchestrators::approved: a missing file is an empty list.
Approval(list) == IF list = None THEN {} ELSE list

\* orchestrators::offered
Readable(o) == o # None /\ o # Unreadable

EntriesSaved == Readable(offered) /\ offered.entries # {}

\* Mutant of OfferUnanswered: counts only what approval could save.
OfferHasEntries(o) == o = Unreadable \/ (Readable(o) /\ o.entries # {})

OfferUnanswered(o) == o = Unreadable \/ (Readable(o) /\ (o.entries # {} \/ o.refused))

ChangeWaits ==
    approved = Unreadable \/ (Readable(offered) /\ offered.entries # Approval(approved))

-----------------------------------------------------------------------------
(* initialize: the references of the pairing, once.                         *)

\* setup ends here; so would setup_plan and connection_status.
AfterOpening(p) == IF proc[p].cmd = "sync" THEN Go(p, "sync") ELSE Leave(p)

NoRefsYet(p) ==
    /\ At(p, "opened")
    /\ IF refs = None /\ dir.outbox \in Wide THEN Go(p, "seed") ELSE AfterOpening(p)
    /\ UNCHANGED <<dir, pairing, scopeVars>>

\* Mutant of Seed: trusts the look taken before the wait for the lock.
SeedBlindly(p) ==
    /\ At(p, "seed") /\ SyncFree
    /\ refs' = 0
    /\ AfterOpening(p)
    /\ UNCHANGED <<dir, pairing, offered, approved, switch,
                   replies, job, hook, agreed, offering>>

\* seed_refs waits for sync.lock and looks again.
Seed(p) ==
    /\ At(p, "seed") /\ SyncFree
    /\ refs' = IF refs = None THEN 0 ELSE refs
    /\ AfterOpening(p)
    /\ UNCHANGED <<dir, pairing, offered, approved, switch,
                   replies, job, hook, agreed, offering>>

-----------------------------------------------------------------------------
(* A refresh of the scope, under sync.lock, alone or at the head of a sync. *)

Command(p) ==
    /\ Begin(p, "sync", "initialize") \/ Begin(p, "install", "scope_now")
    /\ UNCHANGED scopeVars

\* sync_report gives up when another holds the lock, after a revocation and
\* during a server-requested wait (Outbox); a repository connection has no
\* scope to refresh.  scope_now waits for the lock and asks.
TakeSyncLock(p) ==
    /\ \/ At(p, "sync") /\ IF SyncFree /\ ~dir.revoked /\ dir.outbox \in Wide
                           THEN Go(p, "asking") \/ Leave(p) ELSE Leave(p)
       \/ At(p, "scope_now") /\ IF dir.outbox \in Wide THEN SyncFree /\ Go(p, "asking") ELSE Leave(p)
    /\ UNCHANGED <<dir, pairing, scopeVars>>

\* A good reply.
Answered(p) ==
    /\ At(p, "asking") /\ replies < MaxReplies
    /\ replies' = replies + 1
    /\ \E o \in Offers \cup {None} :
          job' = [job EXCEPT ![p].reply = [n |-> replies + 1, offer |-> o]]
    /\ Go(p, "refs")
    /\ UNCHANGED <<dir, pairing, saved, hook, agreed, offering>>

\* 401 or 403; or another failure: no reply, one that is refused as a whole,
\* or 429, whose wait is saved (Outbox).
NotAnswered(p) ==
    /\ At(p, "asking")
    /\ Leave(p)
    /\ dir' \in {dir, [dir EXCEPT !.revoked = TRUE]}
    /\ UNCHANGED <<pairing, refs, offered, approved, switch, replies, job, hook, agreed, offering>>

Refused(r) == r.offer # None /\ r.offer.refused

ReplaceRefs(p) ==
    /\ At(p, "refs")
    /\ refs' = job[p].reply.n
    /\ Go(p, "offer")
    /\ UNCHANGED <<dir, pairing, offered, approved, switch,
                   replies, job, hook, agreed, offering>>

\* An offer with refused entries replaces only one without any entry.
Keeps(r) == r.offer # None /\ (~r.offer.refused \/ ~EntriesSaved)

SaveOffer(p) ==
    LET r == job[p].reply
    IN  /\ At(p, "offer")
        /\ offered' = IF Keeps(r) THEN [n |-> r.n, entries |-> r.offer.entries, refused |-> r.offer.refused]
                      ELSE offered
        /\ offering' = IF r.offer = None THEN offering ELSE r.offer.entries # {} \/ r.offer.refused
        /\ Go(p, "switch")
        /\ UNCHANGED <<dir, pairing, refs, approved, switch,
                       replies, job, hook, agreed>>

\* The switch, held back with the offer by a refused entry.  Then the lock
\* goes; a sync goes on to deliver (Outbox), an install asks about the offer
\* unless an entry was refused.
NoteDeclaredRun(p) ==
    LET r == job[p].reply
    IN  /\ At(p, "switch")
        /\ switch' = IF Refused(r) THEN switch ELSE r.n \in Accepting
        /\ job' = [job EXCEPT ![p] = NoJob]
        /\ IF proc[p].cmd = "install" /\ ~Refused(r) THEN Go(p, "check") ELSE Leave(p)
        /\ UNCHANGED <<dir, pairing, refs, offered, approved, replies, hook, agreed, offering>>

-----------------------------------------------------------------------------
(* Approval, by a person at a terminal. *)

\* What it reads first is only there once a connection was saved.
ApproveCommand(p) == Begin(p, "approve", "check") /\ UNCHANGED scopeVars

\* An install without a terminal only says that a change waits.
Check(p) ==
    /\ At(p, "check")
    /\ IF offered # Unreadable /\ ChangeWaits THEN Go(p, "show") \/ Leave(p) ELSE Leave(p)
    /\ UNCHANGED <<dir, pairing, scopeVars>>

\* pending: read once, and shown.
Show(p) ==
    /\ At(p, "show")
    /\ IF offered = Unreadable THEN Leave(p) /\ UNCHANGED job
       ELSE /\ job' = [job EXCEPT ![p].shown = IF offered = None THEN {} ELSE offered.entries]
            /\ Go(p, "answer")
    /\ UNCHANGED <<dir, pairing, saved, replies, hook, agreed, offering>>

Answer(p) ==
    /\ At(p, "answer")
    /\ \/ Go(p, "approve") /\ agreed' = agreed \cup {job[p].shown} /\ UNCHANGED job
       \/ Leave(p) /\ job' = [job EXCEPT ![p] = NoJob] /\ UNCHANGED agreed
    /\ UNCHANGED <<dir, pairing, saved, replies, hook, offering>>

\* Mutant of ToApprove: the offer as it is by now.
ToApproveNow(p) == IF Readable(offered) THEN offered.entries ELSE job[p].shown

ToApprove(p) == job[p].shown

\* approve, under sync.lock: "approving never takes a later offer".
ApproveShown(p) ==
    /\ At(p, "approve") /\ SyncFree
    /\ approved' = ToApprove(p)
    /\ job' = [job EXCEPT ![p] = NoJob]
    /\ Leave(p)
    /\ UNCHANGED <<dir, pairing, refs, offered, switch,
                   replies, hook, agreed, offering>>

-----------------------------------------------------------------------------
(* The hook. *)

Hook(h, state) == hook' = [hook EXCEPT ![h] = state]
HookOnly == UNCHANGED <<pairVars, saved, replies, job, agreed, offering>>

\* A run has the variables of at most one entry in its environment.
HookStart(h) ==
    /\ hook[h].pc = "idle"
    /\ dir.saved # None /\ dir.outbox \in Wide /\ ~dir.revoked
    /\ \E env \in {{}} \cup {{e} : e \in Entries} :
          Hook(h, [Resting EXCEPT !.pc = "approved", !.env = env])
    /\ HookOnly

\* declare: the approved entries that name the run.
Naming(env) == approved \cap env

\* declared: an approved list decides; without one the offer is read too.
ReadApproved(h) ==
    LET was == hook[h]
    IN  /\ was.pc = "approved"
        /\ IF approved = Unreadable \/ Approval(approved) = {}
           THEN Hook(h, [was EXCEPT !.pc = "offered", !.saw = IF approved = Unreadable THEN Unreadable ELSE None])
           ELSE \E o \in IF Naming(was.env) = {} THEN {None} ELSE Naming(was.env) :
                   Hook(h, [Resting EXCEPT !.pc = "locate", !.orch = o])
        /\ HookOnly

ReadOffered(h) ==
    LET was == hook[h]
    IN  /\ was.pc = "offered"
        /\ Hook(h, IF OfferUnanswered(offered)
                   THEN [Resting EXCEPT !.pc = "locate", !.orch = "unapproved"]
                   ELSE [Resting EXCEPT !.pc = IF was.saw = Unreadable THEN "idle" ELSE "locate"])
        /\ HookOnly

\* read_refs
Listed == refs \in Listing

\* locate: in a repository the saved references must list it; outside one,
\* an orchestrated run needs the connection's option and any other the
\* owner's consent; an unapproved one is never recorded there.
Located(h, inside, consent) ==
    IF inside THEN Listed
    ELSE \/ hook[h].orch \in Entries /\ dir.outbox \in Outside
         \/ hook[h].orch = None /\ consent

\* Later in capture, the row gets the declared run if there is one and the
\* switch is on.
Locate(h) ==
    /\ hook[h].pc = "locate"
    /\ \E inside, consent, said \in BOOLEAN :
          Hook(h, IF Located(h, inside, consent)
                  THEN [Resting EXCEPT !.pc = "collect", !.run = said /\ switch] ELSE Resting)
    /\ HookOnly

\* collect looks at the switch again, before its transaction (Outbox), and
\* refuses a row whose declared run is not accepted any more (HookEnd).
Collected(h) ==
    /\ hook[h].pc = "collect"
    /\ ~hook[h].run \/ switch
    /\ Hook(h, Resting)
    /\ HookOnly

\* It ends, is stopped by its watchdog, or fails.
HookEnd(h) == hook[h].pc # "idle" /\ Hook(h, Resting) /\ HookOnly

-----------------------------------------------------------------------------
(* The rest of the world. *)

\* One of the two lists becomes unreadable, by someone else's hand.
Damage ==
    /\ Unreadable \notin {offered, approved}
    /\ \/ offered # None /\ offered' = Unreadable /\ UNCHANGED approved
       \/ approved # None /\ approved' = Unreadable /\ UNCHANGED offered
    /\ UNCHANGED <<pairVars, refs, switch, replies, job, hook, agreed, offering>>

Dies(p) == Die(p) /\ job' = [job EXCEPT ![p] = NoJob]
           /\ UNCHANGED <<saved, replies, hook, agreed, offering>>

\* In a state where this holds a row of such a run must be marked: an offer
\* nobody has answered, or an approved entry that names the run.
MustMark(env, list, waits) ==
    IF list \in {None, Unreadable, {}} THEN waits ELSE list \cap env # {}

\* due[h] holds once h has its environment, as long as its row must be marked
\* and, when h found no approved list, until it reads the offer that waited;
\* what it was when h had read the lists stays.
Watch ==
    due' = [h \in Hooks |->
              /\ hook'[h].pc \notin {"idle", "collect"}
              /\ hook[h].pc = "idle" \/ due[h]
              /\ hook[h].pc # "locate" =>
                    /\ MustMark(hook[h].env \cup hook'[h].env, approved', offering')
                    /\ hook'[h].pc = "offered" => offering']

ScopeStep ==
    \/ PairNext /\ UNCHANGED scopeVars
    \/ \E p \in Procs :
          \/ NoRefsYet(p) \/ Seed(p) \/ Command(p) \/ TakeSyncLock(p) \/ Answered(p) \/ NotAnswered(p)
          \/ ReplaceRefs(p) \/ SaveOffer(p) \/ NoteDeclaredRun(p)
          \/ ApproveCommand(p) \/ Check(p) \/ Show(p) \/ Answer(p) \/ ApproveShown(p) \/ Dies(p)
    \/ \E h \in Hooks :
          \/ HookStart(h) \/ ReadApproved(h) \/ ReadOffered(h) \/ Locate(h) \/ Collected(h) \/ HookEnd(h)
    \/ Damage

ScopeNext == ScopeStep /\ Watch

ScopeSpec == ScopeInit /\ [][ScopeNext]_allVars

-----------------------------------------------------------------------------
(* Properties. *)

\* The variables keep their types (with PairTypeOK), one process at a time
\* holds sync.lock, with the last reply, and there are references only beside
\* an outbox.
ScopeTypeOK ==
    /\ PairTypeOK
    /\ refs \in (0..MaxReplies) \cup {None}
    /\ Readable(offered) => offered \in SavedOffers /\ offered.n <= replies
    /\ approved \in {None, Unreadable} \cup SUBSET Entries
    /\ {switch, offering} \subseteq BOOLEAN
    /\ replies \in 0..MaxReplies
    /\ agreed \subseteq SUBSET Entries
    /\ \A p \in Procs :
          /\ proc[p].pc \in {"refs", "offer", "switch"} => job[p].reply \in [n : {replies}, offer : Offers \cup {None}]
          /\ proc[p].pc \in {"answer", "approve"} => job[p].shown \subseteq Entries
          /\ \A q \in Procs : Syncing(p) /\ Syncing(q) => p = q
    /\ \A h \in Hooks : hook[h].orch \in Entries \cup {None, "unapproved"}
    /\ refs # None => dir.outbox # None

\* References and offer never go back to what an earlier reply, or the
\* pairing, said: seeding waits for sync.lock and looks again (seed_refs),
\* and a refresh asks and saves under the same lock (scope_now, sync_report).
RepliesInOrder ==
    [][/\ refs # None => refs' # None /\ refs' >= refs
       /\ Readable(offered) /\ Readable(offered') => offered'.n >= offered.n]_allVars

\* "What approval would save, as read once: approving never takes a later
\* offer" (orchestrators.rs): whatever the server answers meanwhile, the
\* approved list is one that was shown to a person who agreed, and so is
\* every name a hook gives a run.
NamesWereShown ==
    /\ approved \notin {None, Unreadable} => approved \in agreed
    /\ \A h \in Hooks : hook[h].orch \in Entries => hook[h].orch \in UNION agreed

\* "An agent run must never read as the machine owner's" (orchestrators.rs,
\* declared): a hook that reads the lists while, all the time, an offer of
\* the server waits for a first answer, or an approved entry names its run,
\* marks the row; replies, approvals and damage may fall into its reading.
\* Left out is the one case in which the code leaves the row unmarked: between
\* its two readings the offer is approved and then withdrawn.
AgentRunsMarked ==
    \A h \in Hooks : hook[h].pc = "locate" /\ due[h] => hook[h].orch # None
=============================================================================
