-------------------------------- MODULE Drops --------------------------------
(***************************************************************************)
(* Counting the hook events that were not stored (drops.rs).  A hook       *)
(* appends one byte per drop to drops.log; the sync process that holds     *)
(* sync.lock folds the log into the table drops: it renames the log,       *)
(* waits for the hooks that still write to it, commits the count together  *)
(* with the inode it counted, and unlinks the file.  Health and status     *)
(* add up table, folding file and log without any lock.  Hooks and the     *)
(* folding process may die between any two system calls.                   *)
(*                                                                         *)
(* The reasons of the drops are not told apart: a file is its length.      *)
(***************************************************************************)
EXTENDS Integers, FiniteSets

CONSTANTS
  Hooks,    \* hook processes alive at one time
  Inodes,   \* inode numbers of the file system
  None,
  Cap,      \* length from which a log takes no more drops: 1 MiB in the code
  MaxNotes  \* bound: calls of note

ASSUME DropsAssumption ==
  /\ None \notin Inodes
  /\ Cap \in Nat \ {0} /\ MaxNotes \in Nat
  /\ IsFiniteSet(Hooks)

VARIABLES
  log, folding, \* inode that drops.log, drops.log.folding names, or None
  bytes,        \* length of each inode
  base,         \* table drops: the count folded so far
  marker,       \* table drops_folded: the inode counted last
  hpc, handle, tries, \* per hook: next step, open inode, attempts left
  fpc, tallied, \* the folding process: next step, what it read
  rpc, seen, looked,  \* the status reader: next step, its sum, the inode it saw
  written,      \* history: bytes appended
  overrun,      \* history: those appended where no tally reaches
  asked,        \* history: `written' when the reader began, until a fold
                \* changes something
  notes

files   == <<log, folding, bytes>>
table   == <<base, marker>>
hooks   == <<hpc, handle, tries, notes>>
folder  == <<fpc, tallied>>
reader  == <<rpc, seen, looked>>
history == <<written, overrun>>
vars == <<files, table, hooks, folder, reader, history, asked>>

Init ==
  /\ log = None /\ folding = None
  /\ bytes = [i \in Inodes |-> 0]
  /\ base = 0 /\ marker = None
  /\ hpc = [h \in Hooks |-> "idle"]
  /\ handle = [h \in Hooks |-> None]
  /\ tries = [h \in Hooks |-> 0]
  /\ fpc = "idle" /\ tallied = 0
  /\ rpc = "idle" /\ seen = 0 /\ looked = None
  /\ written = 0 /\ overrun = 0 /\ notes = 0
  /\ asked = [floor |-> 0, crossed |-> FALSE]

\* An inode number is given to a new file once no name and no handle is left.
Unused(i) == i \notin {log, folding} /\ \A h \in Hooks : handle[h] # i

\* `tally': at most Cap + 1 bytes are read, none if the file is missing.
Tally(i) == IF i = None THEN 0 ELSE IF bytes[i] > Cap + 1 THEN Cap + 1 ELSE bytes[i]

-----------------------------------------------------------------------------
(* note: at most two attempts to append a byte.                             *)

HookAt(h, point) == hpc[h] = point
HookGoto(h, point) == hpc' = [hpc EXCEPT ![h] = point]

\* The handle is closed, and with it goes the shared lock; when no attempt is
\* left, the hook is done.
Close(h, left) ==
  /\ handle' = [handle EXCEPT ![h] = None]
  /\ tries' = [tries EXCEPT ![h] = left]
  /\ HookGoto(h, IF left > 0 THEN "open" ELSE "idle")

Note(h) ==
  /\ HookAt(h, "idle")
  /\ notes < MaxNotes
  /\ notes' = notes + 1
  /\ tries' = [tries EXCEPT ![h] = 2]
  /\ HookGoto(h, "open")
  /\ UNCHANGED <<files, table, handle, folder, reader, history, asked>>

\* O_APPEND | O_CREAT: the log that is there, or a new empty file.
Open(h) ==
  /\ HookAt(h, "open")
  /\ \/ /\ log # None
        /\ handle' = [handle EXCEPT ![h] = log]
        /\ UNCHANGED files
     \/ /\ log = None
        /\ \E i \in Inodes :
             /\ Unused(i)
             /\ log' = i
             /\ bytes' = [bytes EXCEPT ![i] = 0]
             /\ handle' = [handle EXCEPT ![h] = i]
        /\ UNCHANGED folding
  /\ HookGoto(h, "lock")
  /\ UNCHANGED <<table, tries, notes, folder, reader, history, asked>>

\* The folding process holds its exclusive lock only for an instant.
LockShared(h) ==
  /\ HookAt(h, "lock")
  /\ HookGoto(h, "inspect")
  /\ UNCHANGED <<files, table, handle, tries, notes, folder, reader, history, asked>>

Live(h) == handle[h] = log
\* Mutant of Room: one byte too late.
RoomAtCap(h) == bytes[handle[h]] <= Cap
Room(h) == bytes[handle[h]] < Cap

\* A handle that no longer names the log is given up for a second attempt.
Inspect(h) ==
  /\ HookAt(h, "inspect")
  /\ \/ /\ Live(h) /\ Room(h)
        /\ HookGoto(h, "write")
        /\ UNCHANGED <<handle, tries>>
     \/ Live(h) /\ ~Room(h) /\ Close(h, 0)
     \/ ~Live(h) /\ Close(h, tries[h] - 1)
  /\ UNCHANGED <<files, table, notes, folder, reader, history, asked>>

Write(h) ==
  /\ HookAt(h, "write")
  /\ bytes' = [bytes EXCEPT ![handle[h]] = @ + 1]
  /\ written' = written + 1
  /\ overrun' = overrun + (IF bytes[handle[h]] > Cap THEN 1 ELSE 0)
  /\ Close(h, 0)
  /\ UNCHANGED <<log, folding, table, notes, folder, reader, asked>>

\* The watchdog, a kill or an error: the drop is not counted, silently.
HookGone(h) ==
  /\ ~HookAt(h, "idle")
  /\ Close(h, 0)
  /\ UNCHANGED <<files, table, notes, folder, reader, history, asked>>

-----------------------------------------------------------------------------
(* fold, under sync.lock: at most one process runs it.                      *)

Crossing == asked' = [floor |-> 0, crossed |-> TRUE]
FoldGoto(from, to) == fpc = from /\ fpc' = to

FoldStart ==
  /\ fpc = "idle"
  /\ \/ folding # None /\ fpc' = "barrier"
     \/ folding = None /\ log # None /\ fpc' = "clear"
  /\ UNCHANGED <<files, table, hooks, tallied, reader, history, asked>>

\* Mutant of ClearMarker: the marker of the previous fold stays.
ClearNothing ==
  /\ FoldGoto("clear", "rename")
  /\ Crossing
  /\ UNCHANGED <<files, table, hooks, tallied, reader, history>>

\* The next folding file may be given the inode number of the previous one.
ClearMarker ==
  /\ FoldGoto("clear", "rename")
  /\ marker' = None
  /\ Crossing
  /\ UNCHANGED <<files, base, hooks, tallied, reader, history>>

\* Mutant of Rename: a copy that leaves the log in place.
LinkLog ==
  /\ FoldGoto("rename", "barrier")
  /\ folding' = log
  /\ Crossing
  /\ UNCHANGED <<log, bytes, table, hooks, tallied, reader, history>>

Rename ==
  /\ FoldGoto("rename", "barrier")
  /\ folding' = log
  /\ log' = None
  /\ Crossing
  /\ UNCHANGED <<bytes, table, hooks, tallied, reader, history>>

\* The exclusive lock waits for every hook that locked the file while it was
\* still the log; those that lock it later see that it is not.
Barrier ==
  /\ \A h \in Hooks : hpc[h] \in {"inspect", "write"} => handle[h] # folding
  /\ FoldGoto("barrier", "tally")
  /\ UNCHANGED <<files, table, hooks, tallied, reader, history, asked>>

\* Already counted by a fold that died before the unlink, or read now.
TallyFile ==
  /\ IF marker = folding
       THEN FoldGoto("tally", "unlink") /\ UNCHANGED tallied
       ELSE FoldGoto("tally", "commit") /\ tallied' = Tally(folding)
  /\ UNCHANGED <<files, table, hooks, reader, history, asked>>

\* One transaction: the count and the inode it was read from.
Commit ==
  /\ FoldGoto("commit", "unlink")
  /\ base' = base + tallied
  /\ marker' = folding
  /\ tallied' = 0
  /\ Crossing
  /\ UNCHANGED <<files, hooks, reader, history>>

Unlink ==
  /\ FoldGoto("unlink", "idle")
  /\ folding' = None
  /\ Crossing
  /\ UNCHANGED <<log, bytes, table, hooks, tallied, reader, history>>

FoldCrash ==
  /\ fpc # "idle"
  /\ fpc' = "idle" /\ tallied' = 0
  /\ UNCHANGED <<files, table, hooks, reader, history, asked>>

-----------------------------------------------------------------------------
(* counts: four separate reads, under no lock.                              *)

ReadGoto(from, to) == rpc = from /\ rpc' = to
ReaderLeaves == UNCHANGED <<files, table, hooks, folder, history>>

ReadTable ==
  /\ rpc \in {"idle", "shown"} /\ rpc' = "stat"
  /\ seen' = base
  /\ asked' = [floor |-> written, crossed |-> FALSE]
  /\ UNCHANGED looked
  /\ ReaderLeaves

StatFolding ==
  /\ ReadGoto("stat", "query")
  /\ looked' = folding
  /\ UNCHANGED <<seen, asked>>
  /\ ReaderLeaves

\* Mutant of Skips: the marker is not consulted.
SkipsNever == FALSE
Skips == looked # None /\ marker = looked

QueryMarker ==
  /\ rpc = "query"
  /\ rpc' = IF Skips THEN "log" ELSE "folding"
  /\ looked' = None
  /\ UNCHANGED <<seen, asked>>
  /\ ReaderLeaves

ReadFolding ==
  /\ ReadGoto("folding", "log")
  /\ seen' = seen + Tally(folding)
  /\ UNCHANGED <<looked, asked>>
  /\ ReaderLeaves

ReadLog ==
  /\ ReadGoto("log", "shown")
  /\ seen' = seen + Tally(log)
  /\ UNCHANGED <<looked, asked>>
  /\ ReaderLeaves

-----------------------------------------------------------------------------
HookStep(h) == Note(h) \/ Open(h) \/ LockShared(h) \/ Inspect(h) \/ Write(h) \/ HookGone(h)
FoldStep == \/ FoldStart \/ ClearMarker \/ Rename \/ Barrier \/ TallyFile
            \/ Commit \/ Unlink \/ FoldCrash
ReadStep == ReadTable \/ StatFolding \/ QueryMarker \/ ReadFolding \/ ReadLog

Next == (\E h \in Hooks : HookStep(h)) \/ FoldStep \/ ReadStep

Spec == Init /\ [][Next]_vars

-----------------------------------------------------------------------------
(* Properties.                                                              *)

HookPoints == {"idle", "open", "lock", "inspect", "write"}
FoldPoints == {"idle", "clear", "rename", "barrier", "tally", "commit", "unlink"}
ReadPoints == {"idle", "stat", "query", "folding", "log", "shown"}

\* Types, and that the two names never share a file.
TypeOK ==
  /\ {log, folding, marker, looked} \subseteq Inodes \cup {None}
  /\ log = None \/ log # folding
  /\ bytes \in [Inodes -> Nat]
  /\ {base, tallied, seen, written, overrun, notes} \subseteq Nat
  /\ hpc \in [Hooks -> HookPoints]
  /\ handle \in [Hooks -> Inodes \cup {None}]
  /\ tries \in [Hooks -> 0..2]
  /\ fpc \in FoldPoints /\ rpc \in ReadPoints
  /\ asked \in [floor : Nat, crossed : BOOLEAN]

Report == base + (IF marker = folding THEN 0 ELSE Tally(folding)) + Tally(log)

\* Every appended drop is counted exactly once at every moment, in the table
\* or in one of the two files, wherever a fold died before, whichever inode
\* numbers were used again and whichever hook still holds an old handle; the
\* only exception are the bytes beyond what a tally reads.
CountedOnce == Report + overrun = written

\* The length of a log is checked under a shared lock: hooks that pass the
\* check together may each append a byte, and no more than that.
LogBounded == \A i \in Inodes : bytes[i] <= Cap - 1 + Cardinality(Hooks)

\* What health shows, read in four steps without a lock, never exceeds the
\* drops there are; and unless a fold changed something meanwhile, it is no
\* less than the drops there were when the reading began.
StatusSound ==
  /\ seen <= written
  /\ rpc = "shown" /\ ~asked.crossed => seen + overrun >= asked.floor
=============================================================================
