------------------------------ MODULE Brackets ------------------------------
(***************************************************************************)
(* Linking commits to the tool call that made them (claude.rs, bracket;    *)
(* store.rs, bracket_marks; reflog.rs).  The hook before a Bash call marks *)
(* the length of the checkout's HEAD reflog, the hook after it reads what  *)
(* was appended since and counts the calls of other sessions that ran on   *)
(* the same checkout meanwhile.  A hook takes its time stamp first, reads  *)
(* the length of the log next, may then wait for the database before its   *)
(* transaction, and may be overtaken or die anywhere in between.           *)
(*                                                                         *)
(* Commits are numbered in the order they are made.  Time is a counter     *)
(* that advances with every stamp and every commit (nanoseconds never tie).*)
(* A reflog is the commits it lists; entries that create none, half-written*)
(* lines and the limit in bytes are left out.                              *)
(***************************************************************************)
EXTENDS Integers, FiniteSets, SequencesExt

CONSTANTS
  Calls,      \* tool calls (session_id, tool_use_id)
  Session,    \* the session of each call
  Checkouts,
  Hooks,      \* hook processes alive at one time
  None,
  MaxMarks,   \* rows kept in bracket_marks: 256 in the code
  Ttl,        \* age at which a mark is pruned: 6 hours in the code
  MaxLinked,  \* commits a row may name: 20 in the code
  MaxCommits, \* bound: commits made
  MaxRewrites,\* bound: reflogs rewritten; no inode number is used twice
  MaxFirings  \* bound: hook processes started

ASSUME BracketsAssumption ==
  /\ None \notin Calls \cup Checkouts
  /\ {MaxMarks, Ttl, MaxLinked, MaxCommits, MaxRewrites, MaxFirings} \subseteq Nat

VARIABLES
  reflog,  \* per checkout: inode (0: no file) and the commits it lists
  marks,   \* table bracket_marks
  hook,    \* what each hook process is in the middle of
  rows,    \* per call: the observation stored for its end, or None
  state,   \* per call, in the harness: "new", "asked", "running" or "ended"
  clock,
  inodes, rewrites, fired,
  made,    \* history: who made each commit, when and where
  lost,    \* history: calls whose mark was released, aged out, or dropped
           \*          while it still had a use
  began    \* history: the checkout of each call that began to run with its
           \*          mark in the table, or None

tables  == <<marks, rows>>
disk    == <<reflog, inodes, rewrites>>
history == <<made, lost, began>>
vars == <<tables, disk, hook, state, clock, fired, history>>

Idle == [pc |-> "idle", call |-> None, key |-> None, at |-> 0, mark |-> None,
         overlap |-> 0]

NoFile == [ino |-> 0, list |-> <<>>]

\* Commit 1 is an old one.
Init ==
  /\ reflog = [k \in Checkouts |-> [ino |-> 1, list |-> <<1>>]]
  /\ marks = {}
  /\ hook = [h \in Hooks |-> Idle]
  /\ rows = [c \in Calls |-> None]
  /\ state = [c \in Calls |-> "new"]
  /\ clock = 0 /\ inodes = 1 /\ rewrites = 0 /\ fired = 0
  /\ made = <<[by |-> None, at |-> 0, key |-> None]>>
  /\ lost = {}
  /\ began = [c \in Calls |-> None]

-----------------------------------------------------------------------------
(* The checkouts: git, and whoever uses it.                                 *)

\* A commit by a running call, or by somebody no hook knows of.  Git creates
\* a missing reflog.
Commit(who, k) ==
  /\ who # None => state[who] = "running"
  /\ Len(made) <= MaxCommits
  /\ made' = Append(made, [by |-> who, at |-> clock + 1, key |-> k])
  /\ clock' = clock + 1
  /\ LET file == reflog[k]
         ino  == IF file.ino = 0 THEN inodes + 1 ELSE file.ino
     IN  /\ reflog' = [reflog EXCEPT ![k] =
                         [ino |-> ino, list |-> Append(file.list, Len(made) + 1)]]
         /\ inodes' = IF file.ino = 0 THEN ino ELSE inodes
  /\ UNCHANGED <<tables, rewrites, hook, state, fired, lost, began>>

\* git reflog expire writes a new file without the oldest entry; or the
\* reflog is deleted.
Rewrite(k) ==
  /\ rewrites < MaxRewrites
  /\ reflog[k].list # <<>>
  /\ rewrites' = rewrites + 1
  /\ \/ reflog' = [reflog EXCEPT ![k] = [ino |-> inodes + 1, list |-> Tail(@.list)]]
     \/ reflog' = [reflog EXCEPT ![k] = NoFile]
  /\ inodes' = inodes + 1
  /\ UNCHANGED <<tables, hook, state, clock, fired, history>>

-----------------------------------------------------------------------------
(* The harness.                                                             *)

\* It waits for the hooks before a call, whether they succeed or not.
Marked(c) == {m \in marks : m.call = c /\ m.closed = 0}
Run(c) ==
  /\ state[c] = "asked"
  /\ \A h \in Hooks : hook[h].call # c
  /\ state' = [state EXCEPT ![c] = "running"]
  /\ began' = [began EXCEPT ![c] =
                 IF Marked(c) = {} THEN None
                 ELSE (CHOOSE m \in Marked(c) : TRUE).key]
  /\ UNCHANGED <<tables, disk, hook, clock, fired, made, lost>>

\* A hook starts and takes its stamp.
Begin(h, pc, c, k, mark) ==
  /\ hook[h].pc = "idle"
  /\ fired < MaxFirings
  /\ fired' = fired + 1
  /\ clock' = clock + 1
  /\ hook' = [hook EXCEPT ![h] = [pc |-> pc, call |-> c, key |-> k,
                                 at |-> clock + 1, mark |-> mark, overlap |-> 0]]

\* The hook before a call, which may be repeated.
PreToolUse(h, c, k) ==
  /\ state[c] \in {"new", "asked", "running"}
  /\ state' = [state EXCEPT ![c] = IF @ = "new" THEN "asked" ELSE @]
  /\ Begin(h, "mark", c, k, None)
  /\ UNCHANGED <<tables, disk, history>>

\* The call has ended, in whatever directory; so may the one after it.
PostToolUse(h, c, k) ==
  /\ state[c] \in {"running", "ended"}
  /\ state' = [state EXCEPT ![c] = "ended"]
  /\ Begin(h, "close", c, k, None)
  /\ UNCHANGED <<tables, disk, history>>

\* Stop, UserPromptSubmit, SessionEnd, Interrupt: a turn of the session ends,
\* and its hook closes every open mark (release_brackets).  No property tells
\* the moment of the stamp from that of the update, so they are one step.
EndTurn(session) ==
  /\ fired < MaxFirings
  /\ fired' = fired + 1
  /\ clock' = clock + 1
  /\ LET mine == {m \in marks : Session[m.call] = session /\ m.closed = 0}
     IN  /\ marks' = (marks \ mine) \cup {[m EXCEPT !.closed = clock + 1] : m \in mine}
         /\ lost' = lost \cup {m.call : m \in mine}
  /\ UNCHANGED <<rows, disk, hook, state, made, began>>

-----------------------------------------------------------------------------
(* The hooks.                                                               *)

At(h, pc) == hook[h].pc = pc
Leave(h)  == hook' = [hook EXCEPT ![h] = Idle]

\* reflog::mark: the length of the log, some time after the stamp; of a log
\* that is not there, 0 of a future one.
ReadMark(h) ==
  /\ At(h, "mark")
  /\ LET file == reflog[hook[h].key]
     IN  hook' = [hook EXCEPT ![h].pc = "open",
                    ![h].mark = [offset |-> Len(file.list), ino |-> file.ino]]
  /\ UNCHANGED <<tables, disk, state, clock, fired, history>>

Young(m, at) == m.opened >= at - Ttl

\* Some open bracket on the same checkout may still have to count m.
Meets(o, m)     == o.key = m.key /\ o.closed = 0 /\ o.opened <= m.closed
Needed(m, all)  == m.closed = 0 \/ \E o \in all : Meets(o, m)
Before(m, n, all) ==
  IF Needed(m, all) = Needed(n, all) THEN m.opened > n.opened ELSE Needed(m, all)

\* The cap: marks that are needed first, then the newest.
Kept(all) == {m \in all : Cardinality({n \in all : Before(n, m, all)}) < MaxMarks}

Crowded(all) == Cardinality({m \in all : Needed(m, all)}) > MaxMarks

\* Another hook, its stamp taken, is yet to open a bracket that would have
\* found m: the cap cannot know of it.
Expected(m, h) == \E g \in Hooks \ {h} :
  /\ hook[g].pc \in {"mark", "open"}
  /\ hook[g].call = m.call \/ (hook[g].key = m.key /\ hook[g].at <= m.closed)

\* Mutant of Inserted: every hook inserts a mark.
InsertedAgain(old, m) == old \cup {m}

\* INSERT OR IGNORE: the first mark of a call stays.
Inserted(old, m) == IF \E n \in old : n.call = m.call THEN old ELSE old \cup {m}

\* open_bracket: prune, insert, cap, in one transaction.
Open(h) ==
  /\ At(h, "open")
  /\ LET young == {m \in marks : Young(m, hook[h].at)}
         all   == Inserted(young, [call |-> hook[h].call, key |-> hook[h].key,
                            offset |-> hook[h].mark.offset, ino |-> hook[h].mark.ino,
                            opened |-> hook[h].at, closed |-> 0])
     IN  /\ marks' = Kept(all)
         /\ lost' = lost \cup {m.call : m \in (marks \ young)}
                         \cup (IF Crowded(all) THEN {m.call : m \in all} ELSE {})
                         \cup {m.call : m \in {n \in all \ Kept(all) : Expected(n, h)}}
  /\ Leave(h)
  /\ UNCHANGED <<rows, disk, state, clock, fired, made, began>>

\* Mutant of Overlaps: a call that is still open does not count.
OverlapsClosed(m, own, at) ==
  /\ m.key = own.key /\ Session[m.call] # Session[own.call]
  /\ m.opened <= at /\ m.closed # 0 /\ m.closed >= own.opened

\* A call of another session on the same checkout that shared some time.
Overlaps(m, own, at) ==
  /\ m.key = own.key /\ Session[m.call] # Session[own.call]
  /\ m.opened <= at
  /\ m.closed = 0 \/ m.closed >= own.opened

\* close_bracket: prune, close, count, in one transaction; nothing to link if
\* there is no open mark or it is another checkout's.
Close(h) ==
  /\ At(h, "close")
  /\ LET at     == hook[h].at
         c      == hook[h].call
         young  == {m \in marks : Young(m, at)}
         closed == {IF m.call = c THEN [m EXCEPT !.closed = at] ELSE m : m \in young}
         own    == {m \in young : m.call = c /\ m.closed = 0 /\ m.key = hook[h].key}
     IN  /\ marks' = closed
         /\ lost' = lost \cup {m.call : m \in marks \ young}
         /\ \/ /\ own = {}
               /\ hook' = [hook EXCEPT ![h].pc = "collect"]
            \/ \E m \in own :
                 hook' = [hook EXCEPT ![h].pc = "read", ![h].mark = m,
                   ![h].overlap = Cardinality({n \in closed : Overlaps(n, m, at)})]
  /\ UNCHANGED <<rows, disk, state, clock, fired, made, began>>

\* Mutant of Rewritten: only the length tells.
RewrittenShorter(file, mark) == Len(file.list) < mark.offset

\* The log the mark was taken of is not there any more, or not all of it.
Rewritten(file, mark) ==
  \/ mark.ino # 0 /\ file.ino # mark.ino
  \/ Len(file.list) < mark.offset

\* Mutant of Added: the whole log is read.
AddedAll(file, mark) == file.list
Added(file, mark) == SubSeq(file.list, mark.offset + 1, Len(file.list))

\* reflog::appended: the commits, or None for a gap.
Appended(file, mark) ==
  IF Rewritten(file, mark) \/ Len(Added(file, mark)) > MaxLinked
    THEN None ELSE ToSet(Added(file, mark))

\* The hook reads the reflog some time after the mark was closed, and stores
\* its observation, unless one was stored for the event before.  (Stamps and
\* `fresh', no reflog at the mark, are kept for the properties only.)
Observation(h) ==
  LET found == IF hook[h].pc = "read" THEN Appended(reflog[hook[h].key], hook[h].mark)
                                     ELSE None
  IN  [linked  |-> found # None,
       commits |-> IF found = None THEN {} ELSE found,
       opened  |-> IF hook[h].pc = "read" THEN hook[h].mark.opened ELSE hook[h].at,
       at      |-> hook[h].at,
       key     |-> hook[h].key,
       overlap |-> hook[h].overlap,
       fresh   |-> hook[h].pc = "read" /\ hook[h].mark.ino = 0]

Collect(h) ==
  /\ hook[h].pc \in {"read", "collect"}
  /\ rows' = [rows EXCEPT ![hook[h].call] = IF @ = None THEN Observation(h) ELSE @]
  /\ Leave(h)
  /\ UNCHANGED <<marks, disk, state, clock, fired, history>>

\* The watchdog, a kill or an error: what was committed stays.
HookGone(h) ==
  /\ ~At(h, "idle")
  /\ Leave(h)
  /\ UNCHANGED <<tables, disk, state, clock, fired, history>>

HookStep(h) ==
  \/ ReadMark(h) \/ Open(h) \/ Close(h) \/ Collect(h) \/ HookGone(h)

Next ==
  \/ \E who \in Calls \cup {None}, k \in Checkouts : Commit(who, k)
  \/ \E k \in Checkouts : Rewrite(k)
  \/ \E c \in Calls : Run(c)
  \/ \E c \in Calls : EndTurn(Session[c])
  \/ \E h \in Hooks, c \in Calls, k \in Checkouts :
       PreToolUse(h, c, k) \/ PostToolUse(h, c, k)
  \/ \E h \in Hooks : HookStep(h)

Spec == Init /\ [][Next]_vars

-----------------------------------------------------------------------------
(* Properties.                                                              *)

Marks == [call : Calls, key : Checkouts, offset : Nat, ino : Nat, opened : Nat,
          closed : Nat]
Numbers == 1..Len(made)

\* Types, and the primary key of bracket_marks.
TypeOK ==
  /\ \A k \in Checkouts : reflog[k].ino \in Nat /\ ToSet(reflog[k].list) \subseteq Numbers
  /\ marks \subseteq Marks
  /\ \A m, n \in marks : m.call = n.call => m = n
  /\ \A h \in Hooks :
       /\ hook[h].pc \in {"idle", "mark", "open", "close", "read", "collect"}
       /\ hook[h].call \in Calls \cup {None} /\ hook[h].key \in Checkouts \cup {None}
       /\ {hook[h].at, hook[h].overlap} \subseteq Nat
  /\ \A c \in Calls : rows[c] # None => rows[c].commits \subseteq Numbers
  /\ state \in [Calls -> {"new", "asked", "running", "ended"}]
  /\ {clock, inodes, rewrites, fired} \subseteq Nat
  /\ lost \subseteq Calls

Linked(c) == IF rows[c] = None THEN {} ELSE rows[c].commits
MadeBy(c) == {n \in Numbers : made[n].by = c}

\* A call that began with its mark in the table and ends with a row that says
\* which commits were made has all its own commits on that checkout in it:
\* neither a repeated hook nor a rewritten reflog makes the bracket shrink,
\* unless the mark was dropped or released meanwhile.  (A mark of a reflog
\* that does not exist yet cannot tell a later rewrite.)
OwnCommitsLinked ==
  \A c \in Calls \ lost :
    /\ rows[c] # None /\ rows[c].linked
    /\ began[c] # None
    /\ ~(rows[c].fresh /\ rewrites > 0)
    => \A n \in MadeBy(c) :
         made[n].key = rows[c].key /\ made[n].at <= rows[c].at => n \in Linked(c)

\* A row never links a commit made before its call's first mark, or one of
\* another checkout ("honestly absent, never inferred").
NothingOlderLinked ==
  \A c \in Calls : \A n \in Linked(c) :
    made[n].key = rows[c].key /\ made[n].at > rows[c].opened

\* A commit that another session's call made before this call ended is linked
\* only with overlap counted, as long as that call's mark was in the table
\* when it began to run, on this checkout, and was not released or dropped.
ForeignCommitsCounted ==
  \A c, d \in Calls :
    Session[c] # Session[d] /\ began[d] # None /\ {c, d} \cap lost = {} =>
      \A n \in Linked(c) \cap MadeBy(d) :
        began[d] = rows[c].key /\ made[n].at <= rows[c].at => rows[c].overlap > 0

\* "Closed marks stay until pruned so a bracket that closes later still counts
\* this one as overlapping": of two rows of different sessions that link the
\* same commit at least one counts the other.
SharedCommitsCounted ==
  \A c, d \in Calls :
    Session[c] # Session[d] /\ {c, d} \cap lost = {}
      /\ Linked(c) \cap Linked(d) # {}
      => rows[c].overlap > 0 \/ rows[d].overlap > 0
=============================================================================
