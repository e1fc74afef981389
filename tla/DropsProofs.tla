----------------------------- MODULE DropsProofs -----------------------------
(***************************************************************************)
(* Theorems about Drops, for any number of hooks, any file system and any  *)
(* cap.  Placed says where a hook may still write and what the folding     *)
(* process knows at each of its steps; with it CountedOnce is inductive.   *)
(***************************************************************************)
EXTENDS Drops, FiniteSetTheorems, TLAPS

Holding == {"lock", "inspect", "write"}

\* A hook about to write has the log open, or a folding file that the barrier
\* still waits for; the folding process knows what it works on.
Placed ==
  /\ \A h \in Hooks : hpc[h] \in Holding => handle[h] # None
  /\ \A h \in Hooks : hpc[h] # "idle" => tries[h] > 0
  /\ \A h \in Hooks : hpc[h] = "write" =>
       \/ handle[h] = log
       \/ /\ handle[h] = folding /\ marker # folding
          /\ fpc \notin {"tally", "commit", "unlink"}
  /\ fpc \in {"clear", "rename"} => folding = None /\ log # None
  /\ fpc = "rename" => marker = None
  /\ fpc \in {"barrier", "tally", "commit", "unlink"} => folding # None
  /\ fpc = "commit" => marker # folding /\ tallied = Tally(folding)
  /\ fpc = "unlink" => marker = folding

USE DropsAssumption DEF DropsAssumption

LEMMA TallyType == TypeOK => \A i \in Inodes \cup {None} : Tally(i) \in Nat
BY DEF TypeOK, Tally

-----------------------------------------------------------------------------
LEMMA TypeStep == TypeOK /\ Placed /\ [Next]_vars => TypeOK'
<1> SUFFICES ASSUME TypeOK, Placed, [Next]_vars PROVE TypeOK'
  OBVIOUS
<1> USE DEF TypeOK, files, table, hooks, folder, reader, history, HookPoints,
            FoldPoints, ReadPoints
<1>1. ASSUME NEW h \in Hooks, HookStep(h) PROVE TypeOK'
  <2> USE DEF HookAt, HookGoto, Close
  <2>1. CASE Note(h)
    BY <2>1 DEF Note
  <2>2. CASE Open(h)
    BY <2>2 DEF Open, Unused
  <2>3. CASE LockShared(h)
    BY <2>3 DEF LockShared
  <2>4. CASE Inspect(h)
    BY <2>4 DEF Inspect, Placed
  <2>5. CASE Write(h)
    <3>1. handle[h] \in Inodes
      BY <2>5 DEF Write, Placed, Holding
    <3> QED BY <2>5, <3>1 DEF Write
  <2>6. CASE HookGone(h)
    BY <2>6 DEF HookGone
  <2> QED BY <1>1, <2>1, <2>2, <2>3, <2>4, <2>5, <2>6 DEF HookStep
<1>2. CASE FoldStep
  <2> USE DEF FoldGoto, Crossing
  <2>1. CASE FoldStart \/ Barrier \/ FoldCrash
    BY <2>1 DEF FoldStart, Barrier, FoldCrash
  <2>5. CASE ClearMarker
    BY <2>5 DEF ClearMarker
  <2>6. CASE Unlink
    BY <2>6 DEF Unlink
  <2>2. CASE Rename
    BY <2>2 DEF Rename
  <2>3. CASE TallyFile
    BY <2>3, TallyType DEF TallyFile
  <2>4. CASE Commit
    BY <2>4 DEF Commit
  <2> QED BY <1>2, <2>1, <2>2, <2>3, <2>4, <2>5, <2>6 DEF FoldStep
<1>3. CASE ReadStep
  <2> USE TallyType DEF ReadGoto, ReaderLeaves
  <2>1. CASE ReadTable
    BY <2>1 DEF ReadTable
  <2>4. CASE StatFolding
    BY <2>4 DEF StatFolding
  <2>3. CASE QueryMarker
    BY <2>3 DEF QueryMarker
  <2>2. CASE ReadFolding \/ ReadLog
    BY <2>2 DEF ReadFolding, ReadLog
  <2> QED BY <1>3, <2>1, <2>2, <2>3, <2>4 DEF ReadStep
<1>4. CASE UNCHANGED vars
  BY <1>4 DEF vars
<1> QED BY <1>1, <1>2, <1>3, <1>4 DEF Next

LEMMA PlacedStep == TypeOK /\ Placed /\ [Next]_vars => Placed'
<1> SUFFICES ASSUME TypeOK, Placed, [Next]_vars PROVE Placed'
  OBVIOUS
<1> USE DEF Placed, Tally, TypeOK, files, table, hooks, folder, reader, history, Holding
<1>1. ASSUME NEW h \in Hooks, HookStep(h) PROVE Placed'
  <2> USE DEF HookAt, HookGoto, Close
  <2>1. CASE Note(h)
    BY <2>1 DEF Note
  <2>2. CASE Open(h)
    BY <2>2 DEF Open, Unused
  <2>3. CASE LockShared(h)
    BY <2>3 DEF LockShared
  <2>4. CASE Inspect(h)
    BY <2>4 DEF Inspect, Live
  <2>5. CASE Write(h)
    BY <2>5 DEF Write
  <2>6. CASE HookGone(h)
    BY <2>6 DEF HookGone
  <2> QED BY <1>1, <2>1, <2>2, <2>3, <2>4, <2>5, <2>6 DEF HookStep
<1>2. CASE FoldStep
  <2> USE DEF FoldGoto, Crossing
  <2>1. CASE FoldStart \/ FoldCrash
    BY <2>1 DEF FoldStart, FoldCrash
  <2>2. CASE ClearMarker \/ Rename
    BY <2>2 DEF ClearMarker, Rename
  <2>3. CASE Barrier
    BY <2>3 DEF Barrier
  <2>4. CASE TallyFile
    BY <2>4 DEF TallyFile
  <2>5. CASE Commit
    BY <2>5 DEF Commit
  <2>6. CASE Unlink
    BY <2>6 DEF Unlink
  <2> QED BY <1>2, <2>1, <2>2, <2>3, <2>4, <2>5, <2>6 DEF FoldStep
<1>3. CASE ReadStep
  BY <1>3 DEF ReadStep, ReadTable, StatFolding, QueryMarker, ReadFolding, ReadLog,
              ReadGoto, ReaderLeaves
<1>4. CASE UNCHANGED vars
  BY <1>4 DEF vars
<1> QED BY <1>1, <1>2, <1>3, <1>4 DEF Next

LEMMA PlacedInit == Init => TypeOK /\ Placed
BY DEF Init, TypeOK, Placed, Holding, HookPoints, FoldPoints, ReadPoints

\* Types, and that no file ever has both names.
THEOREM TypesHold == Spec => [](TypeOK /\ Placed)
<1> QED BY PlacedInit, TypeStep, PlacedStep, PTL DEF Spec

\* The names and files of drops.rs keep their types.
THEOREM DropsTypeCorrect == Spec => []TypeOK
BY TypesHold, PTL

-----------------------------------------------------------------------------
(* Every byte is counted once.                                              *)

\* A write lengthens one file by one byte; what lies beyond Cap + 1 no tally
\* reads.
LEMMA WriteTally ==
  ASSUME TypeOK, Placed, NEW h \in Hooks, Write(h)
  PROVE  \A i \in Inodes \cup {None} :
           IF i = handle[h] THEN Tally(i)' + (overrun' - overrun) = Tally(i) + 1
                            ELSE Tally(i)' = Tally(i)
<1>1. handle[h] \in Inodes
  BY DEF Write, HookAt, Placed, Holding, TypeOK
<1>2. bytes' = [bytes EXCEPT ![handle[h]] = @ + 1]
  BY DEF Write
<1>3. overrun' = overrun + (IF bytes[handle[h]] > Cap THEN 1 ELSE 0)
  BY DEF Write
<1> QED BY <1>1, <1>2, <1>3 DEF Tally, TypeOK

LEMMA CountStep ==
  TypeOK /\ TypeOK' /\ Placed /\ CountedOnce /\ [Next]_vars => CountedOnce'
<1> SUFFICES ASSUME TypeOK, TypeOK', Placed, CountedOnce, [Next]_vars PROVE CountedOnce'
  OBVIOUS
<1> USE DEF CountedOnce, Report, files, table, hooks, folder, reader, history
<1>1. ASSUME NEW h \in Hooks, HookStep(h) PROVE CountedOnce'
  <2>1. CASE Note(h) \/ LockShared(h) \/ Inspect(h) \/ HookGone(h)
    BY <2>1 DEF Note, LockShared, Inspect, HookGone, Tally
  <2>2. CASE Open(h)
    BY <2>2 DEF Open, Unused, Tally, TypeOK
  <2>3. CASE Write(h)
    <3> DEFINE Marked == marker = folding
    <3>1. UNCHANGED <<log, folding, base, marker>> /\ written' = written + 1
      BY <2>3 DEF Write
    <3>2. handle[h] = log \/ (handle[h] = folding /\ ~Marked)
      BY <2>3 DEF Write, HookAt, Placed
    <3>3. log # folding \/ log = None
      BY DEF TypeOK
    <3>4. /\ Tally(log) \in Nat /\ Tally(folding) \in Nat
          /\ Tally(log)' \in Nat /\ Tally(folding)' \in Nat
      BY TallyType, <3>1 DEF Tally, TypeOK
    <3>5. {base, overrun, overrun', written} \subseteq Nat
      BY DEF TypeOK
    <3>6. log \in Inodes \cup {None} /\ folding \in Inodes \cup {None}
      BY DEF TypeOK
    <3>7. CASE handle[h] = log
      <4>1. Tally(log)' + (overrun' - overrun) = Tally(log) + 1
        BY <2>3, <3>1, <3>6, <3>7, WriteTally DEF Tally
      <4>2. Tally(folding)' = Tally(folding)
        BY <2>3, <3>1, <3>3, <3>6, <3>7, WriteTally DEF Tally
      <4> QED BY <3>1, <3>4, <3>5, <4>1, <4>2
    <3>8. CASE handle[h] = folding /\ ~Marked
      <4>1. Tally(folding)' + (overrun' - overrun) = Tally(folding) + 1
        BY <2>3, <3>1, <3>6, <3>8, WriteTally DEF Tally
      <4>2. Tally(log)' = Tally(log)
        BY <2>3, <3>1, <3>3, <3>6, <3>8, WriteTally DEF Tally
      <4> QED BY <3>1, <3>4, <3>5, <3>8, <4>1, <4>2
    <3> QED BY <3>2, <3>7, <3>8
  <2> QED BY <1>1, <2>1, <2>2, <2>3 DEF HookStep
<1>2. CASE FoldStep
  <2> USE DEF FoldGoto, Tally, Placed
  <2>1. CASE FoldStart \/ Barrier \/ TallyFile \/ FoldCrash
    BY <2>1 DEF FoldStart, Barrier, TallyFile, FoldCrash
  <2>2. CASE ClearMarker
    BY <2>2 DEF ClearMarker, TypeOK
  <2>3. CASE Rename
    BY <2>3 DEF Rename, TypeOK
  <2>4. CASE Commit
    BY <2>4 DEF Commit, TypeOK
  <2>5. CASE Unlink
    BY <2>5 DEF Unlink, TypeOK
  <2> QED BY <1>2, <2>1, <2>2, <2>3, <2>4, <2>5 DEF FoldStep
<1>3. CASE ReadStep
  BY <1>3 DEF ReadStep, ReadTable, StatFolding, QueryMarker, ReadFolding, ReadLog,
              ReadGoto, ReaderLeaves, Tally
<1>4. CASE UNCHANGED vars
  BY <1>4 DEF vars, Tally
<1> QED BY <1>1, <1>2, <1>3, <1>4 DEF Next

LEMMA CountInit == Init => CountedOnce
BY DEF Init, CountedOnce, Report, Tally

\* Every appended drop is counted exactly once, wherever a fold died before
\* and whichever inode numbers were used again.
THEOREM EveryDropCountedOnce == Spec => []CountedOnce
<1> QED BY TypesHold, CountInit, CountStep, PTL DEF Spec

-----------------------------------------------------------------------------
(* The length of a log.                                                     *)

Writers(i) == {h \in Hooks : hpc[h] = "write" /\ handle[h] = i}
Most == Cap - 1 + Cardinality(Hooks)

\* From Cap on, the only bytes still to come are those of hooks that have
\* already passed the check.
Bounded == \A i \in Inodes : bytes[i] >= Cap => bytes[i] + Cardinality(Writers(i)) <= Most

LEMMA WritersFinite ==
  \A S \in SUBSET Hooks : /\ IsFiniteSet(S) /\ Cardinality(S) \in Nat
                          /\ Cardinality(S) <= Cardinality(Hooks)
BY FS_Subset, FS_CardinalityType

LEMMA FewerWriters ==
  \A S, T \in SUBSET Hooks : S \subseteq T => Cardinality(S) <= Cardinality(T)
BY WritersFinite, FS_Subset

\* A step after which no file is longer and no hook more is about to write.
LEMMA BoundedQuiet ==
  ASSUME TypeOK, Bounded,
         \A i \in Inodes : bytes'[i] = bytes[i] \/ bytes'[i] = 0,
         \A i \in Inodes : Writers(i)' \subseteq Writers(i)
  PROVE  Bounded'
<1>1. \A i \in Inodes : Writers(i)' \in SUBSET Hooks /\ Writers(i) \in SUBSET Hooks
  BY DEF Writers
<1>2. \A i \in Inodes : /\ Cardinality(Writers(i)') <= Cardinality(Writers(i))
                        /\ Cardinality(Writers(i)') \in Nat /\ Cardinality(Writers(i)) \in Nat
  BY <1>1, FewerWriters, WritersFinite
<1>3. Most' = Most /\ Most \in Nat
  BY FS_CardinalityType DEF Most
<1> HIDE DEF Most
<1> QED BY <1>2, <1>3 DEF Bounded, TypeOK

LEMMA BoundedStep ==
  TypeOK /\ Placed /\ Bounded /\ [Next]_vars => Bounded'
<1> SUFFICES ASSUME TypeOK, Placed, Bounded, [Next]_vars PROVE Bounded'
  OBVIOUS
<1> USE DEF TypeOK, files, table, hooks, folder, reader, history, Writers
<1>1. ASSUME NEW h \in Hooks, HookStep(h) PROVE Bounded'
  <2> USE DEF HookAt, HookGoto, Close
  <2>1. CASE Note(h) \/ LockShared(h)
    BY <2>1, BoundedQuiet DEF Note, LockShared
  <2>2. CASE Open(h)
    BY <2>2, BoundedQuiet DEF Open
  <2>3. CASE HookGone(h)
    BY <2>3, BoundedQuiet DEF HookGone
  <2>4. CASE Inspect(h)
    <3>1. CASE hpc'[h] # "write"
      BY <2>4, <3>1, BoundedQuiet DEF Inspect
    <3>2. CASE hpc'[h] = "write"
      <4>1. bytes' = bytes /\ handle' = handle /\ bytes[handle[h]] < Cap
        BY <2>4, <3>2 DEF Inspect, Room
      <4>2. \A i \in Inodes : i # handle[h] => Writers(i)' = Writers(i)
        BY <2>4, <4>1 DEF Inspect
      <4>3. handle[h] \in Inodes
        BY <2>4 DEF Inspect, Placed, Holding
      <4> QED BY <4>1, <4>2, <4>3 DEF Bounded, Most
    <3> QED BY <3>1, <3>2
  <2>5. CASE Write(h)
    <3>1. PICK mine \in Inodes : mine = handle[h] /\ h \in Writers(mine)
      BY <2>5 DEF Write, Placed, Holding
    <3>2. bytes' = [bytes EXCEPT ![mine] = @ + 1]
      BY <2>5, <3>1 DEF Write
    <3>3. Writers(mine)' = Writers(mine) \ {h}
      BY <2>5, <3>1 DEF Write
    <3>4. \A i \in Inodes : i # mine => Writers(i)' = Writers(i)
      BY <2>5, <3>1 DEF Write
    <3>5. Cardinality(Writers(mine) \ {h}) = Cardinality(Writers(mine)) - 1
      BY <3>1, WritersFinite, FS_RemoveElement
    <3>6. Cardinality(Writers(mine)) \in Nat /\ Cardinality(Writers(mine)) <= Cardinality(Hooks)
      BY WritersFinite
    <3>7. Cardinality(Hooks) \in Nat
      BY FS_CardinalityType
    <3>8. bytes'[mine] >= Cap => bytes'[mine] + Cardinality(Writers(mine) \ {h}) <= Most
      BY <3>1, <3>2, <3>5, <3>6, <3>7 DEF Bounded, Most
    <3>9. ASSUME NEW i \in Inodes
          PROVE  bytes'[i] >= Cap => bytes'[i] + Cardinality(Writers(i)') <= Most
      <4>1. CASE i = mine
        BY <3>3, <3>8, <4>1
      <4>2. CASE i # mine
        <5>1. bytes'[i] = bytes[i] /\ Writers(i)' = Writers(i)
          BY <3>2, <3>4, <4>2
        <5> QED BY <5>1 DEF Bounded
      <4> QED BY <4>1, <4>2
    <3> QED BY <3>9 DEF Bounded, Most
  <2> QED BY <1>1, <2>1, <2>2, <2>3, <2>4, <2>5 DEF HookStep
<1>2. CASE FoldStep
  <2>1. UNCHANGED <<bytes, hpc, handle>>
    BY <1>2 DEF FoldStep, FoldStart, ClearMarker, Rename, Barrier, TallyFile, Commit,
                Unlink, FoldCrash
  <2> QED BY <2>1, BoundedQuiet
<1>3. CASE ReadStep
  BY <1>3, BoundedQuiet DEF ReadStep, ReadTable, StatFolding, QueryMarker, ReadFolding,
     ReadLog, ReaderLeaves
<1>4. CASE UNCHANGED vars
  BY <1>4, BoundedQuiet DEF vars
<1> QED BY <1>1, <1>2, <1>3, <1>4 DEF Next

LEMMA BoundedInit == Init => Bounded
BY DEF Init, Bounded

LEMMA BoundedImplies == TypeOK /\ Bounded => LogBounded
<1>1. \A i \in Inodes : Cardinality(Writers(i)) \in Nat
  BY WritersFinite DEF Writers
<1>2. Cardinality(Hooks) \in Nat
  BY FS_CardinalityType
<1> QED BY <1>1, <1>2 DEF Bounded, LogBounded, Most, TypeOK

\* Hooks that check the length together exceed it by no more than a byte each.
THEOREM LogIsBounded == Spec => []LogBounded
<1> QED BY TypesHold, BoundedInit, BoundedStep, BoundedImplies, PTL DEF Spec
-----------------------------------------------------------------------------
(* The status reader.                                                       *)

\* What the reader has added up so far is not about to be counted again: the
\* bytes of a folding file it has yet to read are not in the sum, because they
\* were committed after the table was read.
Reading ==
  /\ rpc \in {"stat", "query", "folding"} => seen <= base
  /\ marker = folding /\ (rpc = "folding" \/ (rpc = "query" /\ looked # folding))
       => seen + Tally(folding) <= base
  /\ rpc = "log" => seen + Tally(log) <= written
  /\ rpc \in {"idle", "shown"} => seen <= written

\* As long as no fold changed anything, the sum misses nothing.
Complete ==
  /\ asked.floor <= written
  /\ ~asked.crossed =>
       /\ rpc \in {"stat", "query", "folding"} => seen = base
       /\ rpc = "query" => looked = folding
       /\ rpc = "folding" => marker # folding \/ folding = None
       /\ rpc = "log" => seen + Tally(log) + overrun >= asked.floor
       /\ rpc = "shown" => seen + overrun >= asked.floor

LEMMA ReadingInit == Init => Reading /\ Complete
BY DEF Init, Reading, Complete

\* A step of a hook: the folding file keeps its tally once it is committed,
\* and the log gains no more than what is appended.
LEMMA HookEffect ==
  ASSUME TypeOK, Placed, NEW h \in Hooks, HookStep(h)
  PROVE  /\ UNCHANGED <<folding, base, marker, reader, asked>>
         /\ marker = folding => Tally(folding)' = Tally(folding)
         /\ written' - written \in 0..1
         /\ Tally(log)' >= Tally(log)
         /\ Tally(log)' - Tally(log) <= written' - written
         /\ overrun' >= overrun
<1> USE DEF TypeOK, table, files, hooks, folder, reader, history
<1>1. CASE Note(h) \/ LockShared(h) \/ Inspect(h) \/ HookGone(h)
  BY <1>1 DEF Note, LockShared, Inspect, HookGone, Tally
<1>2. CASE Open(h)
  BY <1>2 DEF Open, Unused, Tally
<1>3. CASE Write(h)
  <2>1. UNCHANGED <<log, folding, base, marker, reader, asked>> /\ written' = written + 1
    BY <1>3 DEF Write
  <2>2. handle[h] = log \/ (handle[h] = folding /\ marker # folding)
    BY <1>3 DEF Write, HookAt, Placed
  <2>3. bytes' = [bytes EXCEPT ![handle[h]] = @ + 1]
    BY <1>3 DEF Write
  <2>4. overrun' = overrun + (IF bytes[handle[h]] > Cap THEN 1 ELSE 0)
    BY <1>3 DEF Write
  <2>5. marker = folding => handle[h] # folding
    BY <1>3, <2>2 DEF Write, HookAt, Placed, Holding
  <2> QED BY <2>1, <2>3, <2>4, <2>5 DEF Tally
<1> QED BY <1>1, <1>2, <1>3 DEF HookStep

LEMMA ReadingStep ==
  TypeOK /\ TypeOK' /\ Placed /\ CountedOnce /\ Reading /\ Complete /\ [Next]_vars
    => (Reading /\ Complete)'
<1> SUFFICES ASSUME TypeOK, TypeOK', Placed, CountedOnce, Reading, Complete, [Next]_vars
             PROVE  (Reading /\ Complete)'
  OBVIOUS
<1> USE DEF Reading, Complete, table, files, hooks, folder, reader, history
<1>0. /\ {base, written, overrun, seen, asked.floor} \subseteq Nat
      /\ Tally(log) \in Nat /\ Tally(folding) \in Nat
  BY TallyType DEF TypeOK
<1>1. ASSUME NEW h \in Hooks, HookStep(h) PROVE (Reading /\ Complete)'
  <2>1. /\ {base', written', overrun', seen', asked'.floor} \subseteq Nat
        /\ Tally(log)' \in Nat
    BY TallyType DEF TypeOK, Tally
  <2> QED BY <1>0, <1>1, <2>1, HookEffect
<1>2. CASE FoldStep
  <2> USE DEF FoldGoto, Crossing, Tally
  <2>1. CASE FoldStart \/ Barrier \/ TallyFile \/ FoldCrash
    BY <2>1 DEF FoldStart, Barrier, TallyFile, FoldCrash
  <2>2. CASE ClearMarker
    BY <1>0, <2>2 DEF ClearMarker, Placed
  <2>3. CASE Rename
    BY <1>0, <2>3 DEF Rename, Placed, TypeOK
  <2>4. CASE Commit
    BY <1>0, <2>4 DEF Commit, Placed
  <2>5. CASE Unlink
    BY <1>0, <2>5 DEF Unlink, Placed
  <2> QED BY <1>2, <2>1, <2>2, <2>3, <2>4, <2>5 DEF FoldStep
<1>3. CASE ReadStep
  <2> USE DEF ReadGoto, ReaderLeaves
  <2>1. UNCHANGED <<Tally(log), Tally(folding)>>
    BY <1>3 DEF ReadStep, ReadTable, StatFolding, QueryMarker, ReadFolding, ReadLog, Tally
  <2>2. Tally(None) = 0
    BY DEF Tally
  <2>3. base + (IF marker = folding THEN 0 ELSE Tally(folding)) + Tally(log) + overrun = written
    BY DEF CountedOnce, Report
  <2>4. CASE ReadTable
    BY <1>0, <2>1, <2>3, <2>4 DEF ReadTable
  <2>5. CASE StatFolding
    BY <1>0, <2>1, <2>5 DEF StatFolding
  <2>6. CASE QueryMarker
    BY <1>0, <2>1, <2>2, <2>3, <2>6 DEF QueryMarker, Skips
  <2>7. CASE ReadFolding
    BY <1>0, <2>1, <2>2, <2>3, <2>7 DEF ReadFolding
  <2>8. CASE ReadLog
    BY <1>0, <2>1, <2>8 DEF ReadLog
  <2> QED BY <1>3, <2>4, <2>5, <2>6, <2>7, <2>8 DEF ReadStep
<1>4. CASE UNCHANGED vars
  BY <1>4 DEF vars, Tally
<1> QED BY <1>1, <1>2, <1>3, <1>4 DEF Next

LEMMA ReadingSound == TypeOK /\ CountedOnce /\ Reading /\ Complete => StatusSound
<1> SUFFICES ASSUME TypeOK, CountedOnce, Reading, Complete PROVE StatusSound
  OBVIOUS
<1>1. /\ {base, written, overrun, seen} \subseteq Nat
      /\ Tally(log) \in Nat /\ Tally(folding) \in Nat
  BY TallyType DEF TypeOK
<1>2. base <= written
  BY <1>1 DEF CountedOnce, Report
<1>3. rpc \in ReadPoints
  BY DEF TypeOK
<1> QED BY <1>1, <1>2, <1>3 DEF Reading, Complete, StatusSound, ReadPoints

\* Health never shows more drops than there are, and none too few unless a
\* fold changed something while it was reading.
THEOREM StatusIsSound == Spec => []StatusSound
<1> QED BY TypesHold, CountInit, CountStep, ReadingInit, ReadingStep, ReadingSound, PTL DEF Spec
=============================================================================
