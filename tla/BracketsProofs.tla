--------------------------- MODULE BracketsProofs ---------------------------
(***************************************************************************)
(* Theorems about Brackets, for any calls, sessions, checkouts and hooks   *)
(* and any limits.  The inductive invariant says what a mark is worth: all *)
(* that is listed behind its offset is younger than its stamp (Bracketed), *)
(* the commits of its own call are listed there as long as the file is the *)
(* same (Whole), and what is left of the mark of a call that has not lost  *)
(* it (Present).                                                           *)
(***************************************************************************)
EXTENDS Brackets, FiniteSetTheorems, SequenceTheorems, TLAPS

Commits   == [by : Calls \cup {None}, at : Nat, key : Checkouts \cup {None}]
Places    == [offset : Nat, ino : Nat]
Rows      == [linked : BOOLEAN, commits : SUBSET Nat, opened : Nat, at : Nat,
              key : Checkouts, overlap : Nat, fresh : BOOLEAN]
HookStates ==
  [pc : {"idle", "mark", "open", "close", "read", "collect"}, call : Calls \cup {None},
   key : Checkouts \cup {None}, at : Nat, mark : {None} \cup Places \cup Marks,
   overlap : Nat]

Typed ==
  /\ reflog \in [Checkouts -> [ino : Nat, list : Seq(Nat)]]
  /\ marks \subseteq Marks /\ IsFiniteSet(marks)
  /\ hook \in [Hooks -> HookStates]
  /\ rows \in [Calls -> Rows \cup {None}]
  /\ state \in [Calls -> {"new", "asked", "running", "ended"}]
  /\ made \in Seq(Commits) /\ Len(made) >= 1 /\ made[1].at = 0
  /\ began \in [Calls -> Checkouts \cup {None}]
  /\ lost \subseteq Calls
  /\ clock \in Nat /\ inodes \in Nat /\ rewrites \in Nat /\ fired \in Nat

Unique == \A m, n \in marks : m.call = n.call => m = n

Opening == {"mark", "open"}

\* What a hook at work carries.
Carries(s) ==
  /\ s.pc # "idle" => s.call \in Calls /\ s.key \in Checkouts /\ s.at > 0
  /\ s.pc = "open" => s.mark \in Places
  /\ s.pc = "read" => s.mark \in Marks /\ s.mark.call = s.call /\ s.mark.key = s.key

\* No stamp is ahead of the clock.
Timely ==
  /\ \A m \in marks : m.opened <= clock /\ m.closed <= clock
  /\ \A h \in Hooks : hook[h].at <= clock /\ (hook[h].pc = "read" => hook[h].mark.opened <= clock)
  /\ \A n \in Numbers : made[n].at <= clock
  /\ \A c \in Calls : rows[c] # None => rows[c].at <= clock

\* What a log lists behind an offset.
Behind(list, offset) == {list[i] : i \in offset + 1 .. Len(list)}

Logs == \A k \in Checkouts :
  /\ reflog[k].ino <= inodes
  /\ reflog[k].ino = 0 => reflog[k].list = <<>> /\ rewrites > 0
  /\ \A n \in Behind(reflog[k].list, 0) : n \in Numbers /\ (n = 1 \/ made[n].key = k)

\* A place taken after a stamp in the log of k, now the given file: what is
\* listed behind it came later than the stamp.
Sound(k, place, stamp, file, commits, top, expired) ==
  /\ place.ino <= top
  /\ place.ino = 0 => place.offset = 0 /\ expired > 0
  /\ place.ino \in {0, file.ino} =>
       \A n \in Behind(file.list, place.offset) : commits[n].at > stamp
  /\ place.ino # 0 /\ place.ino = file.ino => place.offset <= Len(file.list)

Bracketed(k, place, stamp) == Sound(k, place, stamp, reflog[k], made, inodes, rewrites)

AllBracketed ==
  /\ \A m \in marks : Bracketed(m.key, m, m.opened)
  /\ \A h \in Hooks :
       /\ hook[h].pc = "open" => Bracketed(hook[h].key, hook[h].mark, hook[h].at)
       /\ hook[h].pc = "read" => Bracketed(hook[h].key, hook[h].mark, hook[h].mark.opened)

\* A mark its call began with was read before the call ran, so all that the
\* call committed there is behind it while the file is the same.
Whole(m) ==
  m.call \notin lost /\ began[m.call] # None /\ m.ino # 0 /\ m.ino = reflog[m.key].ino =>
    \A n \in MadeBy(m.call) : made[n].key = m.key => n \in Behind(reflog[m.key].list, m.offset)

AllWhole ==
  /\ \A m \in marks : Whole(m)
  /\ \A h \in Hooks : hook[h].pc = "read" => Whole(hook[h].mark)

\* Commits are made by calls that run; the hook of an ended call, and the
\* closing stamp of a mark that was not released, come after all of them.
Order ==
  /\ \A c \in Calls : state[c] \in {"new", "asked"} => MadeBy(c) = {}
  /\ \A h \in Hooks : hook[h].pc \in {"close", "read", "collect"} =>
       /\ state[hook[h].call] = "ended"
       /\ \A n \in MadeBy(hook[h].call) : made[n].at < hook[h].at
  /\ \A c \in Calls : rows[c] # None => state[c] = "ended"
  /\ \A m \in marks : m.closed # 0 /\ m.call \notin lost =>
       /\ state[m.call] = "ended"
       /\ \A n \in MadeBy(m.call) : made[n].at < m.closed

\* The mark a call began with is there, or no bracket on its checkout can
\* reach back to its commits any more.
Witnessed(c) == \E m \in marks :
  m.call = c /\ m.key = began[c] /\ \A n \in MadeBy(c) : made[n].at > m.opened

Passed(c) ==
  /\ state[c] = "ended"
  /\ \A m \in marks : m.call # c
  /\ \A h \in Hooks : hook[h].pc \in Opening => hook[h].call # c
  /\ \A n \in MadeBy(c) :
       /\ \A m \in marks : m.key = began[c] /\ m.closed = 0 => m.opened > made[n].at
       /\ \A h \in Hooks :
            hook[h].pc \in Opening /\ hook[h].key = began[c] => hook[h].at > made[n].at

Present == \A c \in Calls \ lost : began[c] # None => Witnessed(c) \/ Passed(c)

\* What a hook that is to read the reflog has in its hands.
Reaches(s) ==
  s.call \notin lost /\ began[s.call] # None =>
    \A n \in MadeBy(s.call) : made[n].at > s.mark.opened

Counts(s) ==
  \A d \in Calls :
    Session[s.call] # Session[d] /\ began[d] = s.key /\ {s.call, d} \cap lost = {} =>
      \A n \in MadeBy(d) :
        made[n].at <= s.at /\ made[n].at > s.mark.opened => s.overlap > 0

Reading == \A h \in Hooks : hook[h].pc = "read" => Reaches(hook[h]) /\ Counts(hook[h])

RowsNumbered == \A c \in Calls : rows[c] # None => rows[c].commits \subseteq Numbers

BracketsInv ==
  /\ Typed /\ Unique /\ (\A h \in Hooks : Carries(hook[h]))
  /\ Timely /\ Logs /\ AllBracketed /\ AllWhole /\ Order /\ Present /\ Reading
  /\ RowsNumbered /\ NothingOlderLinked /\ OwnCommitsLinked /\ ForeignCommitsCounted
-----------------------------------------------------------------------------
(* Logs as sequences.                                                      *)

LEMMA BehindAppend ==
  ASSUME NEW list \in Seq(Nat), NEW offset \in Nat, offset <= Len(list), NEW n \in Nat
  PROVE  /\ Append(list, n) \in Seq(Nat) /\ Len(Append(list, n)) = Len(list) + 1
         /\ Behind(Append(list, n), offset) = Behind(list, offset) \cup {n}
<1> DEFINE longer == Append(list, n)
<1>1. longer \in Seq(Nat) /\ Len(longer) = Len(list) + 1 /\ Len(list) \in Nat
  OBVIOUS
<1>2. longer[Len(list) + 1] = n /\ \A i \in 1..Len(list) : longer[i] = list[i]
  OBVIOUS
<1> HIDE DEF longer
<1>3. \A i \in offset + 1 .. Len(longer) : i = Len(list) + 1 \/ i \in offset + 1 .. Len(list)
  BY <1>1
<1>4. \A i \in offset + 1 .. Len(list) : i \in 1..Len(list) /\ i \in offset + 1 .. Len(longer)
  BY <1>1
<1>5. Len(list) + 1 \in offset + 1 .. Len(longer)
  BY <1>1
<1>6. Behind(longer, offset) \subseteq Behind(list, offset) \cup {n}
  BY <1>2, <1>3, <1>4 DEF Behind
<1>7. Behind(list, offset) \cup {n} \subseteq Behind(longer, offset)
  BY <1>2, <1>4, <1>5 DEF Behind
<1> QED
  BY <1>1, <1>6, <1>7 DEF longer

LEMMA BehindTail ==
  ASSUME NEW list \in Seq(Nat), list # <<>>
  PROVE  Tail(list) \in Seq(Nat) /\ Behind(Tail(list), 0) \subseteq Behind(list, 0)
<1>1. /\ Tail(list) \in Seq(Nat) /\ Len(Tail(list)) = Len(list) - 1 /\ Len(list) \in Nat
      /\ \A i \in 1..Len(Tail(list)) : Tail(list)[i] = list[i + 1]
  OBVIOUS
<1>2. \A i \in 1..Len(Tail(list)) : i + 1 \in 1..Len(list)
  BY <1>1
<1> QED
  BY <1>1, <1>2 DEF Behind

LEMMA BehindLess ==
  ASSUME NEW list \in Seq(Nat), NEW offset \in Nat
  PROVE  Behind(list, offset) \subseteq Behind(list, 0)
BY DEF Behind

LEMMA BehindAll ==
  ASSUME NEW list \in Seq(Nat)
  PROVE  Behind(list, Len(list)) = {} /\ Behind(list, 0) = ToSet(list) /\ Behind(<<>>, 0) = {}
<1>1. Len(list) \in Nat /\ DOMAIN list = 1..Len(list) /\ Len(<<>>) = 0
  OBVIOUS
<1>2. Len(list) + 1 .. Len(list) = {} /\ 0 + 1 .. Len(list) = 1..Len(list) /\ 0 + 1 .. 0 = {}
  BY <1>1
<1> QED
  BY <1>1, <1>2 DEF Behind, ToSet

LEMMA BehindAdded ==
  ASSUME NEW list \in Seq(Nat), NEW offset \in Nat, offset <= Len(list)
  PROVE  ToSet(SubSeq(list, offset + 1, Len(list))) = Behind(list, offset)
<1> DEFINE added == SubSeq(list, offset + 1, Len(list))
<1>1. Len(list) \in Nat
  OBVIOUS
<1>2. /\ added \in Seq(Nat) /\ Len(added) = Len(list) - offset
      /\ \A i \in 1..Len(added) : added[i] = list[offset + i]
  BY <1>1
<1>3. DOMAIN added = 1..Len(added)
  BY <1>2
<1> HIDE DEF added
<1>4. \A i \in 1..Len(added) : offset + i \in offset + 1 .. Len(list)
  BY <1>1, <1>2
<1>5. \A i \in offset + 1 .. Len(list) : i - offset \in 1..Len(added) /\ offset + (i - offset) = i
  BY <1>1, <1>2
<1>6. ToSet(added) \subseteq Behind(list, offset)
  BY <1>2, <1>3, <1>4 DEF ToSet, Behind
<1>7. ASSUME NEW i \in offset + 1 .. Len(list) PROVE list[i] \in ToSet(added)
  BY <1>2, <1>3, <1>5 DEF ToSet
<1> QED
  BY <1>6, <1>7 DEF Behind, added

-----------------------------------------------------------------------------
(* The checkouts.                                                          *)

LEMMA BracketsInitInv == Init => BracketsInv
<1> SUFFICES ASSUME Init PROVE BracketsInv
  OBVIOUS
<1> USE DEF Init
<1>1. Idle \in HookStates /\ Idle.pc = "idle" /\ Idle.at = 0
  BY DEF Idle, HookStates
<1>2. \A h \in Hooks : hook[h] = Idle
  OBVIOUS
<1>3. [by |-> None, at |-> 0, key |-> None] \in Commits
  BY DEF Commits
<1>4. made \in Seq(Commits) /\ Len(made) = 1 /\ made[1] = [by |-> None, at |-> 0, key |-> None]
  BY <1>3
<1>5. Typed
  <2>1. <<1>> \in Seq(Nat)
    OBVIOUS
  <2> QED
    BY <1>1, <1>4, <2>1, FS_EmptySet DEF Typed
<1>6. Numbers = {1} /\ \A c \in Calls : MadeBy(c) = {}
  BY <1>4, BracketsAssumption DEF Numbers, MadeBy
<1>7. Behind(<<1>>, 0) = {1}
  <2>1. Len(<<1>>) = 1 /\ <<1>>[1] = 1 /\ 0 + 1 .. 1 = {1}
    OBVIOUS
  <2> QED
    BY <2>1 DEF Behind
<1>8. Logs
  BY <1>6, <1>7 DEF Logs
<1>9. Unique /\ (\A h \in Hooks : Carries(hook[h])) /\ Timely /\ AllBracketed /\ AllWhole
  BY <1>1, <1>2, <1>4, <1>6 DEF Unique, Carries, Timely, AllBracketed, AllWhole
<1>10. Order /\ Present /\ Reading
  BY <1>1, <1>2, <1>6 DEF Order, Present, Reading
<1>11. RowsNumbered /\ NothingOlderLinked /\ OwnCommitsLinked /\ ForeignCommitsCounted
  BY DEF RowsNumbered, NothingOlderLinked, OwnCommitsLinked, ForeignCommitsCounted, Linked
<1> QED
  BY <1>5, <1>8, <1>9, <1>10, <1>11 DEF BracketsInv

LEMMA CommitInv ==
  ASSUME BracketsInv, NEW who \in Calls \cup {None}, NEW k \in Checkouts, Commit(who, k)
  PROVE  BracketsInv'
<1> DEFINE N == Len(made) + 1
           new == [by |-> who, at |-> clock + 1, key |-> k]
           ino == IF reflog[k].ino = 0 THEN inodes + 1 ELSE reflog[k].ino
<1>1. /\ UNCHANGED <<marks, rows, rewrites, hook, state, fired, lost, began>>
      /\ made' = Append(made, new) /\ clock' = clock + 1
      /\ who # None => state[who] = "running"
      /\ reflog' = [reflog EXCEPT ![k] = [ino |-> ino, list |-> Append(reflog[k].list, N)]]
      /\ inodes' = IF reflog[k].ino = 0 THEN ino ELSE inodes
  BY DEF Commit, tables
<1>2. /\ reflog \in [Checkouts -> [ino : Nat, list : Seq(Nat)]] /\ made \in Seq(Commits) /\ Len(made) \in Nat
      /\ Len(made) >= 1 /\ made[1].at = 0 /\ clock \in Nat /\ inodes \in Nat /\ marks \subseteq Marks
      /\ hook \in [Hooks -> HookStates] /\ rows \in [Calls -> Rows \cup {None}]
  BY DEF BracketsInv, Typed
<1>3. new \in Commits /\ new.by = who /\ new.at = clock + 1 /\ new.key = k
  BY <1>2 DEF Commits
<1> HIDE DEF new
<1>4. /\ made' \in Seq(Commits) /\ Len(made') = N /\ made'[N] = new
      /\ \A n \in 1..Len(made) : made'[n] = made[n]
  BY <1>1, <1>2, <1>3
<1>5. Numbers' = Numbers \cup {N} /\ N \notin Numbers /\ 1 \in Numbers /\ N \in Nat
      /\ \A n \in Numbers : made'[n] = made[n]
  BY <1>2, <1>4 DEF Numbers
<1>6. \A c \in Calls : MadeBy(c)' = IF c = who THEN MadeBy(c) \cup {N} ELSE MadeBy(c)
  BY <1>3, <1>4, <1>5 DEF MadeBy
<1>7. \A c \in Calls : state[c] # "running" => MadeBy(c)' = MadeBy(c)
  BY <1>1, <1>6, BracketsAssumption
<1>8. \A c \in Calls : \A n \in MadeBy(c) : n \in Numbers
  BY DEF MadeBy
<1>9. /\ ino \in Nat /\ reflog[k].list \in Seq(Nat)
      /\ reflog'[k].ino = ino /\ reflog'[k].list = Append(reflog[k].list, N)
      /\ \A q \in Checkouts \ {k} : reflog'[q] = reflog[q]
  BY <1>1, <1>2
<1>10. reflog' \in [Checkouts -> [ino : Nat, list : Seq(Nat)]] /\ inodes' \in Nat
  BY <1>1, <1>2, <1>5, <1>9, BehindAppend
<1>11. ino # 0 /\ ino <= inodes' /\ inodes <= inodes'
  BY <1>1, <1>2, <1>9 DEF BracketsInv, Logs
<1> HIDE DEF N, ino
<1>12. Typed'
  BY <1>1, <1>2, <1>4, <1>5, <1>10 DEF BracketsInv, Typed, N
<1>13. Timely'
  <2>1. \A m \in marks : m.opened <= clock' /\ m.closed <= clock'
    BY <1>1, <1>2 DEF BracketsInv, Timely, Marks
  <2>2. ASSUME NEW h \in Hooks
        PROVE  hook[h].at <= clock' /\ (hook[h].pc = "read" => hook[h].mark.opened <= clock')
    <3>1. hook[h].at \in Nat /\ (hook[h].pc = "read" => hook[h].mark.opened \in Nat)
      BY <1>2 DEF BracketsInv, Carries, HookStates, Marks
    <3> QED
      BY <1>1, <1>2, <3>1 DEF BracketsInv, Timely
  <2>3. ASSUME NEW n \in Numbers' PROVE made'[n].at <= clock'
    <3>1. CASE n = N
      BY <1>1, <1>2, <1>3, <1>4, <3>1
    <3>2. CASE n \in Numbers
      <4>1. made[n] \in Commits /\ made'[n] = made[n]
        BY <1>2, <1>5, <3>2 DEF Numbers
      <4>2. made[n].at \in Nat /\ made[n].at <= clock
        BY <3>2, <4>1 DEF Commits, BracketsInv, Timely
      <4> QED
        BY <1>1, <1>2, <4>1, <4>2
    <3> QED
      BY <1>5, <3>1, <3>2
  <2>4. ASSUME NEW c \in Calls, rows[c] # None PROVE rows[c].at <= clock'
    <3>1. rows[c].at \in Nat /\ rows[c].at <= clock
      BY <1>2, <2>4 DEF Rows, BracketsInv, Timely
    <3> QED
      BY <1>1, <1>2, <3>1
  <2> QED
    BY <1>1, <2>1, <2>2, <2>3, <2>4 DEF Timely
<1>14. Logs'
  <2> SUFFICES ASSUME NEW q \in Checkouts
               PROVE  /\ reflog'[q].ino <= inodes'
                      /\ reflog'[q].ino = 0 => reflog'[q].list = <<>> /\ rewrites > 0
                      /\ \A n \in Behind(reflog'[q].list, 0) : n \in Numbers' /\ (n = 1 \/ made'[n].key = q)
    BY <1>1 DEF Logs
  <2>1. /\ reflog[q].ino <= inodes
        /\ reflog[q].ino = 0 => reflog[q].list = <<>> /\ rewrites > 0
        /\ \A n \in Behind(reflog[q].list, 0) : n \in Numbers /\ (n = 1 \/ made[n].key = q)
    BY DEF BracketsInv, Logs
  <2>2. CASE q = k
    <3>1. Behind(reflog'[k].list, 0) = Behind(reflog[k].list, 0) \cup {N}
      BY <1>5, <1>9, BehindAppend
    <3> QED
      <4>1. reflog'[q].ino <= inodes' /\ reflog'[q].ino # 0
        BY <1>9, <1>11, <2>2
      <4>2. ASSUME NEW n \in Behind(reflog'[q].list, 0) PROVE n \in Numbers' /\ (n = 1 \/ made'[n].key = q)
        <5>1. n = N \/ n \in Behind(reflog[k].list, 0)
          BY <2>2, <3>1, <4>2
        <5> QED
          BY <1>3, <1>4, <1>5, <2>1, <2>2, <5>1
      <4> QED
        BY <4>1, <4>2
  <2>3. CASE q # k
    <3>1. reflog'[q] = reflog[q] /\ reflog[q].ino \in Nat
      BY <1>2, <1>9, <2>3
    <3>2. reflog[q].ino <= inodes'
      BY <1>2, <1>10, <1>11, <2>1, <3>1
    <3> QED
      BY <1>5, <2>1, <3>1, <3>2
  <2> QED
    BY <2>2, <2>3
<1>15. ASSUME NEW q \in Checkouts, NEW place, place.ino \in Nat, place.offset \in Nat, NEW stamp \in Nat,
              stamp <= clock, Bracketed(q, place, stamp)
       PROVE  Sound(q, place, stamp, reflog'[q], made', inodes', rewrites)
  <2>1. place.ino <= inodes' /\ (place.ino = 0 => place.offset = 0 /\ rewrites > 0)
    BY <1>2, <1>10, <1>11, <1>15 DEF Bracketed, Sound
  <2>2. \A n \in Behind(reflog[q].list, place.offset) : n \in Numbers
    BY <1>2, <1>15, BehindLess DEF BracketsInv, Logs
  <2>3. CASE q # k
    BY <1>2, <1>3, <1>4, <1>5, <1>9, <1>15, <2>1, <2>2, <2>3 DEF Bracketed, Sound, Numbers
  <2>4. CASE q = k
    <3>1. made'[N].at > stamp
      BY <1>2, <1>3, <1>4, <1>15
    <3>2. Len(reflog'[k].list) = Len(reflog[k].list) + 1 /\ Len(reflog[k].list) \in Nat
      BY <1>5, <1>9, BehindAppend
    <3>3. CASE place.offset <= Len(reflog[k].list)
      <4>1. Behind(reflog'[k].list, place.offset) = Behind(reflog[k].list, place.offset) \cup {N}
        BY <1>5, <1>9, <1>15, <3>3, BehindAppend
      <4>2. place.ino # 0 /\ place.ino = reflog'[k].ino => place.ino = reflog[k].ino
        BY <1>2, <1>9, <1>15 DEF Bracketed, Sound, ino
      <4> QED
        <5>1. place.ino \in {0, reflog'[k].ino} =>
                \A n \in Behind(reflog'[k].list, place.offset) : made'[n].at > stamp
          BY <1>5, <1>15, <2>2, <2>4, <3>1, <4>1, <4>2 DEF Bracketed, Sound
        <5> QED
          BY <2>1, <2>4, <3>2, <3>3, <1>15, <5>1 DEF Sound
    <3>4. CASE place.offset > Len(reflog[k].list)
      <4>1. place.ino # 0 /\ place.ino # reflog[k].ino
        BY <1>15, <2>4, <3>2, <3>4 DEF Bracketed, Sound
      <4>2. place.ino # reflog'[k].ino
        BY <1>2, <1>9, <1>15, <4>1 DEF Bracketed, Sound, ino
      <4> QED
        BY <2>1, <2>4, <4>1, <4>2 DEF Sound
    <3> QED
      BY <1>15, <3>2, <3>3, <3>4
  <2> QED
    BY <2>3, <2>4
<1>16. AllBracketed'
  <2>1. \A m \in marks : m.key \in Checkouts /\ m.ino \in Nat /\ m.offset \in Nat /\ m.opened \in Nat /\ m.opened <= clock
    BY <1>2 DEF Marks, BracketsInv, Timely
  <2>2. \A h \in Hooks : hook[h].pc = "open" =>
          /\ hook[h].key \in Checkouts /\ hook[h].mark.ino \in Nat /\ hook[h].mark.offset \in Nat
          /\ hook[h].at \in Nat /\ hook[h].at <= clock
    BY <1>2 DEF BracketsInv, Carries, Places, HookStates, Timely
  <2>3. \A h \in Hooks : hook[h].pc = "read" =>
          /\ hook[h].key \in Checkouts /\ hook[h].mark.ino \in Nat /\ hook[h].mark.offset \in Nat
          /\ hook[h].mark.opened \in Nat /\ hook[h].mark.opened <= clock
    BY <1>2 DEF BracketsInv, Carries, Marks, HookStates, Timely
  <2>4. \A m \in marks' : Bracketed(m.key, m, m.opened)'
    BY <1>1, <1>15, <2>1 DEF BracketsInv, AllBracketed, Bracketed
  <2>5. \A h \in Hooks : hook'[h].pc = "open" => Bracketed(hook[h].key, hook[h].mark, hook[h].at)'
    BY <1>1, <1>15, <2>2 DEF BracketsInv, AllBracketed, Bracketed
  <2>6. \A h \in Hooks : hook'[h].pc = "read" => Bracketed(hook[h].key, hook[h].mark, hook[h].mark.opened)'
    BY <1>1, <1>15, <2>3 DEF BracketsInv, AllBracketed, Bracketed
  <2> QED
    BY <2>4, <2>5, <2>6 DEF AllBracketed
<1>17. Order'
  <2>1. \A h \in Hooks : hook[h].pc \in {"close", "read", "collect"} => hook[h].call \in Calls
    BY DEF BracketsInv, Carries
  <2>2. \A m \in marks : m.call \in Calls
    BY <1>2 DEF Marks
  <2> QED
    BY <1>1, <1>5, <1>7, <1>8, <2>1, <2>2 DEF BracketsInv, Order
<1>18. Present'
  <2> SUFFICES ASSUME NEW c \in Calls \ lost, began[c] # None
               PROVE  Witnessed(c)' \/ Passed(c)'
    BY <1>1 DEF Present
  <2>1. CASE Witnessed(c)
    <3>1. PICK m \in marks : m.call = c /\ m.key = began[c] /\ \A n \in MadeBy(c) : made[n].at > m.opened
      BY <2>1 DEF Witnessed
    <3>2. m.opened \in Nat /\ m.opened <= clock
      BY <1>2 DEF Marks, BracketsInv, Timely
    <3>3. ASSUME NEW n \in MadeBy(c)' PROVE made'[n].at > m.opened
      <4>1. CASE n = N
        BY <1>2, <1>3, <1>4, <3>2, <4>1
      <4>2. CASE n \in MadeBy(c)
        BY <1>5, <1>8, <3>1, <4>2
      <4> QED
        BY <1>6, <4>1, <4>2
    <3> QED
      BY <1>1, <3>1, <3>3 DEF Witnessed
  <2>2. CASE Passed(c)
    BY <1>1, <1>5, <1>7, <1>8, <2>2 DEF Passed
  <2> QED
    BY <2>1, <2>2 DEF BracketsInv, Present
<1>19. Reading'
  <2> SUFFICES ASSUME NEW h \in Hooks, hook[h].pc = "read"
               PROVE  Reaches(hook[h])' /\ Counts(hook[h])'
    BY <1>1 DEF Reading
  <2>1. Reaches(hook[h]) /\ Counts(hook[h]) /\ hook[h].call \in Calls /\ state[hook[h].call] = "ended"
    BY DEF BracketsInv, Reading, Carries, Order
  <2>2. Reaches(hook[h])'
    BY <1>1, <1>5, <1>7, <1>8, <2>1 DEF Reaches
  <2>3. hook[h].at \in Nat /\ hook[h].at <= clock
    BY <1>2 DEF HookStates, BracketsInv, Timely
  <2>4. ~(made'[N].at <= hook[h].at)
    BY <1>2, <1>3, <1>4, <2>3
  <2>5. Counts(hook[h])'
    <3>1. \A d \in Calls : \A n \in MadeBy(d)' : n = N \/ n \in MadeBy(d)
      BY <1>6
    <3> QED
      BY <1>1, <1>5, <1>8, <2>1, <2>4, <3>1 DEF Counts
  <2> QED
    BY <2>2, <2>5
<1>20. /\ \A c \in Calls : rows[c] # None => MadeBy(c)' = MadeBy(c)
       /\ \A c \in Calls : \A n \in Linked(c) : n \in Numbers
  BY <1>7 DEF BracketsInv, Order, RowsNumbered, Linked
<1>21. \A c \in Calls : Linked(c)' = Linked(c)
  BY <1>1 DEF Linked
<1>22. RowsNumbered' /\ NothingOlderLinked'
  BY <1>1, <1>5, <1>20, <1>21 DEF BracketsInv, RowsNumbered, NothingOlderLinked
<1>23. OwnCommitsLinked'
  <2> SUFFICES ASSUME NEW c \in Calls \ lost, rows[c] # None, rows[c].linked, began[c] # None,
                      ~(rows[c].fresh /\ rewrites > 0), NEW n \in MadeBy(c)',
                      made'[n].key = rows[c].key, made'[n].at <= rows[c].at
               PROVE  n \in Linked(c)
    BY <1>1, <1>21 DEF OwnCommitsLinked
  <2>1. n \in MadeBy(c) /\ made'[n] = made[n]
    BY <1>5, <1>8, <1>20
  <2> QED
    BY <2>1 DEF BracketsInv, OwnCommitsLinked
<1>24. ForeignCommitsCounted'
  <2>1. \A c, d \in Calls : Linked(c) \cap MadeBy(d)' \subseteq Linked(c) \cap MadeBy(d)
    BY <1>5, <1>6, <1>20
  <2> QED
    BY <1>1, <1>5, <1>8, <1>21, <2>1 DEF BracketsInv, ForeignCommitsCounted
<1>25. ASSUME NEW m, m.call \in Calls, m.key \in Checkouts, m.ino \in Nat, m.offset \in Nat,
              Whole(m), Bracketed(m.key, m, m.opened)
       PROVE  Whole(m)'
  <2> SUFFICES ASSUME m.call \notin lost, began[m.call] # None, m.ino # 0, m.ino = reflog'[m.key].ino,
                      NEW n \in MadeBy(m.call)', made'[n].key = m.key
               PROVE  n \in Behind(reflog'[m.key].list, m.offset)
    BY <1>1 DEF Whole
  <2>1. CASE m.key # k
    <3>1. reflog'[m.key] = reflog[m.key]
      BY <1>9, <1>25, <2>1
    <3>2. n # N
      BY <1>3, <1>4, <2>1
    <3>3. n \in MadeBy(m.call) /\ made'[n] = made[n]
      BY <1>5, <1>6, <1>8, <1>25, <3>2
    <3> QED
      BY <3>1, <3>3, <1>25 DEF Whole
  <2>2. CASE m.key = k
    <3>1. m.ino = reflog[k].ino
      BY <1>2, <1>9, <1>25, <2>2 DEF Bracketed, Sound, ino
    <3>2. m.offset <= Len(reflog[k].list)
      BY <1>25, <2>2, <3>1 DEF Bracketed, Sound
    <3>3. Behind(reflog'[k].list, m.offset) = Behind(reflog[k].list, m.offset) \cup {N}
      BY <1>5, <1>9, <1>25, <3>2, BehindAppend
    <3>4. CASE n = N
      BY <2>2, <3>3, <3>4
    <3>5. CASE n # N
      <4>1. n \in MadeBy(m.call) /\ made'[n] = made[n]
        BY <1>5, <1>6, <1>8, <1>25, <3>5
      <4>2. n \in Behind(reflog[k].list, m.offset)
        BY <1>25, <2>2, <3>1, <4>1 DEF Whole
      <4> QED
        BY <2>2, <3>3, <4>2
    <3> QED
      BY <3>4, <3>5
  <2> QED
    BY <2>1, <2>2
<1>26. AllWhole'
  <2>1. ASSUME NEW m \in marks PROVE Whole(m)'
    <3>1. m \in Marks /\ Whole(m) /\ Bracketed(m.key, m, m.opened)
      BY <1>2 DEF BracketsInv, AllWhole, AllBracketed
    <3>2. m.call \in Calls /\ m.key \in Checkouts /\ m.ino \in Nat /\ m.offset \in Nat
      BY <3>1 DEF Marks
    <3> QED
      BY <1>25, <3>1, <3>2
  <2>2. ASSUME NEW h \in Hooks, hook[h].pc = "read" PROVE Whole(hook[h].mark)'
    <3>1. /\ hook[h].mark \in Marks /\ hook[h].mark.key = hook[h].key /\ Whole(hook[h].mark)
          /\ Bracketed(hook[h].key, hook[h].mark, hook[h].mark.opened)
      BY <2>2 DEF BracketsInv, Carries, AllWhole, AllBracketed
    <3>2. /\ hook[h].mark.call \in Calls /\ hook[h].mark.key \in Checkouts
          /\ hook[h].mark.ino \in Nat /\ hook[h].mark.offset \in Nat
      BY <3>1 DEF Marks
    <3>3. Whole(hook[h].mark)'
      <4>1. PICK m : m = hook[h].mark
        OBVIOUS
      <4>2. Whole(m)'
        BY <1>25, <3>1, <3>2, <4>1
      <4> QED
        BY <1>1, <4>1, <4>2 DEF Whole, MadeBy, Numbers
    <3> QED
      BY <3>3
  <2> QED
    BY <1>1, <2>1, <2>2 DEF AllWhole
<1> QED
  BY <1>1, <1>12, <1>13, <1>14, <1>16, <1>17, <1>18, <1>19, <1>22, <1>23, <1>24, <1>26 DEF BracketsInv, Unique

\* What is unchanged in a step that neither commits nor rewrites.
LEMMA Still ==
  ASSUME BracketsInv, UNCHANGED <<reflog, made, inodes, rewrites>>
  PROVE  /\ Numbers' = Numbers /\ Logs'
         /\ \A c \in Calls : MadeBy(c)' = MadeBy(c)
         /\ \A k, place, stamp : Bracketed(k, place, stamp) => Sound(k, place, stamp, reflog'[k], made', inodes', rewrites')
BY DEF Numbers, MadeBy, BracketsInv, Logs, Bracketed

LEMMA RewriteInv ==
  ASSUME BracketsInv, NEW k \in Checkouts, Rewrite(k)
  PROVE  BracketsInv'
<1>1. /\ UNCHANGED <<marks, rows, hook, state, clock, fired, made, lost, began>>
      /\ rewrites' = rewrites + 1 /\ inodes' = inodes + 1 /\ reflog[k].list # <<>>
  BY DEF Rewrite, tables, history
<1>2. /\ reflog \in [Checkouts -> [ino : Nat, list : Seq(Nat)]] /\ inodes \in Nat /\ rewrites \in Nat
      /\ marks \subseteq Marks /\ hook \in [Hooks -> HookStates] /\ rows \in [Calls -> Rows \cup {None}]
  BY DEF BracketsInv, Typed
<1>3. PICK file \in [ino : Nat, list : Seq(Nat)] :
        /\ reflog' = [reflog EXCEPT ![k] = file]
        /\ file.ino \in {0, inodes + 1}
        /\ file.ino = 0 => file.list = <<>>
        /\ Behind(file.list, 0) \subseteq Behind(reflog[k].list, 0)
  <2>1. /\ reflog[k].list \in Seq(Nat) /\ Tail(reflog[k].list) \in Seq(Nat)
        /\ Behind(Tail(reflog[k].list), 0) \subseteq Behind(reflog[k].list, 0)
    BY <1>1, <1>2, BehindTail
  <2>2. Behind(<<>>, 0) = {} /\ <<>> \in Seq(Nat)
    BY <2>1, BehindAll
  <2>3. CASE reflog' = [reflog EXCEPT ![k] = [ino |-> inodes + 1, list |-> Tail(reflog[k].list)]]
    <3> DEFINE file == [ino |-> inodes + 1, list |-> Tail(reflog[k].list)]
    <3>1. file \in [ino : Nat, list : Seq(Nat)] /\ file.ino = inodes + 1 /\ file.list = Tail(reflog[k].list)
      BY <1>2, <2>1
    <3>2. inodes + 1 # 0
      BY <1>2
    <3> QED
      BY <2>1, <2>3, <3>1, <3>2
  <2>4. CASE reflog' = [reflog EXCEPT ![k] = NoFile]
    <3> DEFINE file == [ino |-> 0, list |-> <<>>]
    <3>1. file \in [ino : Nat, list : Seq(Nat)] /\ file.ino = 0 /\ file.list = <<>>
      BY <2>2
    <3>2. Behind(file.list, 0) \subseteq Behind(reflog[k].list, 0)
      BY <2>2, <3>1
    <3>3. reflog' = [reflog EXCEPT ![k] = file]
      BY <2>4 DEF NoFile
    <3> HIDE DEF file
    <3> QED
      BY <3>1, <3>2, <3>3
  <2> QED
    BY <2>3, <2>4 DEF Rewrite
<1>4. Numbers' = Numbers /\ \A c \in Calls : MadeBy(c)' = MadeBy(c)
  BY <1>1 DEF Numbers, MadeBy
<1>5. reflog'[k] = file /\ \A q \in Checkouts \ {k} : reflog'[q] = reflog[q]
  BY <1>2, <1>3
<1>6. Typed'
  BY <1>1, <1>2, <1>3 DEF BracketsInv, Typed
<1>7. Logs'
  <2> SUFFICES ASSUME NEW q \in Checkouts
               PROVE  /\ reflog'[q].ino <= inodes'
                      /\ reflog'[q].ino = 0 => reflog'[q].list = <<>> /\ rewrites' > 0
                      /\ \A n \in Behind(reflog'[q].list, 0) : n \in Numbers /\ (n = 1 \/ made[n].key = q)
    BY <1>1, <1>4 DEF Logs
  <2>1. /\ reflog[q].ino <= inodes
        /\ reflog[q].ino = 0 => reflog[q].list = <<>>
        /\ \A n \in Behind(reflog[q].list, 0) : n \in Numbers /\ (n = 1 \/ made[n].key = q)
    BY DEF BracketsInv, Logs
  <2>2. CASE q = k
    BY <1>1, <1>2, <1>3, <1>5, <2>1, <2>2
  <2>3. CASE q # k
    <3>1. reflog'[q] = reflog[q] /\ reflog[q].ino \in Nat
      BY <1>2, <1>5, <2>3
    <3> QED
      BY <1>1, <1>2, <2>1, <3>1
  <2> QED
    BY <2>2, <2>3
<1>8. ASSUME NEW q \in Checkouts, NEW place, place.ino \in Nat, place.offset \in Nat, NEW stamp, Bracketed(q, place, stamp)
      PROVE  Sound(q, place, stamp, reflog'[q], made', inodes', rewrites')
  <2>1. place.ino <= inodes' /\ (place.ino = 0 => place.offset = 0 /\ rewrites' > 0)
    BY <1>1, <1>2, <1>8 DEF Bracketed, Sound
  <2>2. CASE q # k
    BY <1>1, <1>5, <1>8, <2>1, <2>2 DEF Bracketed, Sound
  <2>3. CASE q = k
    <3>1. ~(place.ino # 0 /\ place.ino = file.ino)
      BY <1>2, <1>3, <1>8 DEF Bracketed, Sound
    <3>2. place.ino = 0 => \A n \in Behind(file.list, place.offset) : made[n].at > stamp
      BY <1>3, <1>8, <2>3 DEF Bracketed, Sound
    <3> QED
      BY <1>1, <1>5, <2>1, <2>3, <3>1, <3>2 DEF Sound
  <2> QED
    BY <2>2, <2>3
<1>9. AllBracketed'
  <2>1. \A m \in marks : m.key \in Checkouts /\ m.ino \in Nat /\ m.offset \in Nat
    BY <1>2 DEF Marks
  <2>2. \A h \in Hooks : hook[h].pc \in {"open", "read"} =>
          hook[h].key \in Checkouts /\ hook[h].mark.ino \in Nat /\ hook[h].mark.offset \in Nat
    BY <1>2 DEF BracketsInv, Carries, Places, Marks, HookStates
  <2>3. \A m \in marks' : Bracketed(m.key, m, m.opened)'
    BY <1>1, <1>8, <2>1 DEF BracketsInv, AllBracketed, Bracketed
  <2>4. \A h \in Hooks : hook'[h].pc = "open" => Bracketed(hook[h].key, hook[h].mark, hook[h].at)'
    BY <1>1, <1>8, <2>2 DEF BracketsInv, AllBracketed, Bracketed
  <2>5. \A h \in Hooks : hook'[h].pc = "read" => Bracketed(hook[h].key, hook[h].mark, hook[h].mark.opened)'
    BY <1>1, <1>8, <2>2 DEF BracketsInv, AllBracketed, Bracketed
  <2> QED
    BY <2>3, <2>4, <2>5 DEF AllBracketed
<1>10. Order' /\ Present' /\ Reading' /\ Timely'
  <2>1. Order' /\ Present' /\ Timely'
    BY <1>1, <1>4 DEF BracketsInv, Order, Present, Witnessed, Passed, Timely, Numbers, MadeBy
  <2> QED
    BY <1>1, <2>1 DEF BracketsInv, Reading, Reaches, Counts, MadeBy, Numbers
<1>11. RowsNumbered' /\ NothingOlderLinked' /\ ForeignCommitsCounted'
  BY <1>1 DEF BracketsInv, RowsNumbered, NothingOlderLinked, ForeignCommitsCounted, Linked, MadeBy, Numbers
<1>12. OwnCommitsLinked'
  <2>1. rewrites' > 0
    BY <1>1, <1>2
  <2> QED
    BY <1>1, <2>1 DEF BracketsInv, OwnCommitsLinked, Linked, MadeBy, Numbers
<1>13. ASSUME NEW m, m.call \in Calls, m.key \in Checkouts, m.ino \in Nat,
              Whole(m), Bracketed(m.key, m, m.opened)
       PROVE  Whole(m)'
  <2>1. CASE m.key # k
    BY <1>1, <1>4, <1>5, <1>13, <2>1 DEF Whole
  <2>2. CASE m.key = k
    <3>1. ~(m.ino # 0 /\ m.ino = file.ino)
      BY <1>2, <1>3, <1>13 DEF Bracketed, Sound
    <3> QED
      BY <1>5, <2>2, <3>1 DEF Whole
  <2> QED
    BY <2>1, <2>2
<1>14. AllWhole'
  <2>1. ASSUME NEW m \in marks PROVE Whole(m)'
    <3>1. m \in Marks /\ Whole(m) /\ Bracketed(m.key, m, m.opened)
      BY <1>2 DEF BracketsInv, AllWhole, AllBracketed
    <3> QED
      BY <1>13, <3>1 DEF Marks
  <2>2. ASSUME NEW h \in Hooks, hook[h].pc = "read" PROVE Whole(hook[h].mark)'
    <3>1. PICK m : m = hook[h].mark
      OBVIOUS
    <3>2. m \in Marks /\ m.key = hook[h].key /\ Whole(m) /\ Bracketed(hook[h].key, m, m.opened)
      BY <2>2, <3>1 DEF BracketsInv, Carries, AllWhole, AllBracketed
    <3>3. Whole(m)'
      BY <1>13, <3>2 DEF Marks
    <3> QED
      BY <1>1, <3>1, <3>3 DEF Whole, MadeBy, Numbers
  <2> QED
    BY <1>1, <2>1, <2>2 DEF AllWhole
<1> QED
  BY <1>1, <1>6, <1>7, <1>9, <1>10, <1>11, <1>12, <1>14 DEF BracketsInv, Unique

-----------------------------------------------------------------------------
(* The harness and the hooks it starts.                                    *)

\* The call has no commits yet when it begins.
LEMMA RunInv ==
  ASSUME BracketsInv, NEW c \in Calls, Run(c)
  PROVE  BracketsInv'
<1>1. /\ UNCHANGED <<reflog, inodes, rewrites, marks, rows, hook, clock, fired, made, lost>>
      /\ state' = [state EXCEPT ![c] = "running"] /\ state[c] = "asked"
      /\ began' = [began EXCEPT ![c] = IF Marked(c) = {} THEN None ELSE (CHOOSE m \in Marked(c) : TRUE).key]
  BY DEF Run, tables, disk
<1>2. /\ marks \subseteq Marks /\ began \in [Calls -> Checkouts \cup {None}]
      /\ state \in [Calls -> {"new", "asked", "running", "ended"}]
  BY DEF BracketsInv, Typed
<1>3. /\ Numbers' = Numbers /\ Logs' /\ \A d \in Calls : MadeBy(d)' = MadeBy(d)
      /\ \A k, place, stamp : Bracketed(k, place, stamp) => Sound(k, place, stamp, reflog'[k], made', inodes', rewrites')
  BY <1>1, Still
<1>4. /\ MadeBy(c) = {} /\ rows[c] = None
  BY <1>1 DEF BracketsInv, Order
<1>5. began'[c] = None \/ \E m \in marks : m.call = c /\ m.key = began'[c]
  <2>1. CASE Marked(c) # {}
    <3>1. (CHOOSE m \in Marked(c) : TRUE) \in Marked(c)
      BY <2>1
    <3> QED
      BY <1>1, <1>2, <2>1, <3>1 DEF Marked
  <2>2. CASE Marked(c) = {}
    BY <1>1, <1>2, <2>2
  <2> QED
    BY <2>1, <2>2
<1>6. /\ began' \in [Calls -> Checkouts \cup {None}] /\ \A d \in Calls \ {c} : began'[d] = began[d]
      /\ state' \in [Calls -> {"new", "asked", "running", "ended"}] /\ state'[c] = "running"
      /\ \A d \in Calls \ {c} : state'[d] = state[d]
  BY <1>1, <1>2, <1>5 DEF Marks
<1>7. Typed' /\ Timely' /\ Unique'
  BY <1>1, <1>3, <1>6 DEF BracketsInv, Typed, Timely, Unique
<1>8. AllBracketed'
  BY <1>1 DEF BracketsInv, AllBracketed, Bracketed
<1>9. Order'
  <2>1. \A d \in Calls : state'[d] \in {"new", "asked"} => MadeBy(d)' = {}
    BY <1>3, <1>6 DEF BracketsInv, Order
  <2>2. \A h \in Hooks : hook[h].pc \in {"close", "read", "collect"} =>
          /\ state'[hook[h].call] = "ended"
          /\ \A n \in MadeBy(hook[h].call)' : made[n].at < hook[h].at
    BY <1>1, <1>3, <1>6 DEF BracketsInv, Order, Carries
  <2>3. \A d \in Calls : rows[d] # None => state'[d] = "ended"
    BY <1>4, <1>6 DEF BracketsInv, Order
  <2>4. \A m \in marks : m.closed # 0 /\ m.call \notin lost =>
          /\ state'[m.call] = "ended"
          /\ \A n \in MadeBy(m.call)' : made[n].at < m.closed
    <3>1. \A m \in marks : m.call \in Calls
      BY <1>2 DEF Marks
    <3> QED
      BY <1>1, <1>3, <1>6, <3>1 DEF BracketsInv, Order
  <2> QED
    BY <1>1, <2>1, <2>2, <2>3, <2>4 DEF Order
<1>10. Present'
  <2> SUFFICES ASSUME NEW d \in Calls \ lost, began'[d] # None PROVE Witnessed(d)' \/ Passed(d)'
    BY <1>1 DEF Present
  <2>1. CASE d = c
    BY <1>1, <1>3, <1>4, <1>5, <2>1 DEF Witnessed
  <2>2. CASE d # c
    BY <1>1, <1>3, <1>6, <2>2 DEF BracketsInv, Present, Witnessed, Passed
  <2> QED
    BY <2>1, <2>2
<1>11. Reading'
  <2> SUFFICES ASSUME NEW h \in Hooks, hook[h].pc = "read" PROVE Reaches(hook[h])' /\ Counts(hook[h])'
    BY <1>1 DEF Reading
  <2>1. Reaches(hook[h]) /\ Counts(hook[h]) /\ hook[h].call \in Calls
    BY DEF BracketsInv, Reading, Carries
  <2>2. Reaches(hook[h])'
    BY <1>1, <1>3, <1>4, <1>6, <2>1 DEF Reaches
  <2> QED
    BY <1>1, <1>3, <1>4, <1>6, <2>1, <2>2 DEF Counts
<1>12. \A d \in Calls : Linked(d)' = Linked(d)
  BY <1>1 DEF Linked
<1>13. RowsNumbered' /\ NothingOlderLinked' /\ OwnCommitsLinked' /\ ForeignCommitsCounted'
  BY <1>1, <1>3, <1>4, <1>6, <1>12 DEF BracketsInv, RowsNumbered, NothingOlderLinked, OwnCommitsLinked, ForeignCommitsCounted
<1>14. AllWhole'
  <2>1. ASSUME NEW m, m.call \in Calls, Whole(m) PROVE Whole(m)'
    <3>1. CASE m.call = c
      BY <1>3, <1>4, <2>1, <3>1 DEF Whole
    <3>2. CASE m.call # c
      BY <1>1, <1>3, <1>6, <2>1, <3>2 DEF Whole
    <3> QED
      BY <3>1, <3>2
  <2>2. ASSUME NEW m \in marks PROVE Whole(m)'
    BY <1>2, <2>1 DEF BracketsInv, AllWhole, Marks
  <2>3. ASSUME NEW h \in Hooks, hook[h].pc = "read" PROVE Whole(hook[h].mark)'
    <3>1. PICK m : m = hook[h].mark
      OBVIOUS
    <3>2. m \in Marks /\ Whole(m)
      BY <2>3, <3>1 DEF BracketsInv, Carries, AllWhole
    <3>3. Whole(m)'
      BY <2>1, <3>2 DEF Marks
    <3> QED
      BY <1>1, <3>1, <3>3 DEF Whole, MadeBy, Numbers
  <2> QED
    BY <1>1, <2>2, <2>3 DEF AllWhole
<1> QED
  BY <1>1, <1>3, <1>7, <1>8, <1>9, <1>10, <1>11, <1>13, <1>14 DEF BracketsInv

\* What a row says of its call.
Told(c, row) ==
  /\ row.at <= clock /\ state[c] = "ended" /\ row.commits \subseteq Numbers
  /\ \A n \in row.commits : made[n].key = row.key /\ made[n].at > row.opened
  /\ c \notin lost /\ row.linked /\ began[c] # None /\ ~(row.fresh /\ rewrites > 0) =>
       \A n \in MadeBy(c) : made[n].key = row.key /\ made[n].at <= row.at => n \in row.commits
  /\ \A d \in Calls :
       Session[c] # Session[d] /\ began[d] # None /\ {c, d} \cap lost = {} =>
         \A n \in row.commits \cap MadeBy(d) :
           began[d] = row.key /\ made[n].at <= row.at => row.overlap > 0

LEMMA RowsStill ==
  ASSUME BracketsInv, UNCHANGED <<made, began, rewrites>>, lost \subseteq lost',
         \A c \in Calls : rows'[c] = rows[c] \/ Told(c, rows'[c])
  PROVE  RowsNumbered' /\ NothingOlderLinked' /\ OwnCommitsLinked' /\ ForeignCommitsCounted'
<1>1. Numbers' = Numbers /\ \A c \in Calls : MadeBy(c)' = MadeBy(c)
  BY DEF Numbers, MadeBy
<1>2. RowsNumbered'
  BY <1>1 DEF BracketsInv, RowsNumbered, Told
<1>3. ASSUME NEW c \in Calls
      PROVE  /\ rows'[c] = rows[c] => Linked(c)' = Linked(c)
             /\ rows'[c] # rows[c] => Told(c, rows'[c]) /\ Linked(c)' \subseteq rows'[c].commits
             /\ rows'[c] # None => Linked(c)' = rows'[c].commits
  BY <1>3 DEF Linked
<1>4. NothingOlderLinked'
  <2> SUFFICES ASSUME NEW c \in Calls, NEW n \in Linked(c)'
               PROVE  made[n].key = rows'[c].key /\ made[n].at > rows'[c].opened
    BY DEF NothingOlderLinked
  <2>1. CASE rows'[c] = rows[c]
    BY <1>3, <2>1 DEF BracketsInv, NothingOlderLinked
  <2>2. CASE rows'[c] # rows[c]
    BY <1>3, <2>2 DEF Told
  <2> QED
    BY <2>1, <2>2
<1>5. OwnCommitsLinked'
  <2> SUFFICES ASSUME NEW c \in Calls \ lost', rows'[c] # None, rows'[c].linked, began[c] # None,
                      ~(rows'[c].fresh /\ rewrites > 0), NEW n \in MadeBy(c),
                      made[n].key = rows'[c].key, made[n].at <= rows'[c].at
               PROVE  n \in Linked(c)'
    BY <1>1 DEF OwnCommitsLinked
  <2>1. CASE rows'[c] = rows[c]
    BY <1>3, <2>1 DEF BracketsInv, OwnCommitsLinked
  <2>2. CASE rows'[c] # rows[c]
    BY <1>3, <2>2 DEF Told
  <2> QED
    BY <2>1, <2>2
<1>6. ForeignCommitsCounted'
  <2> SUFFICES ASSUME NEW c \in Calls, NEW d \in Calls, Session[c] # Session[d], began[d] # None,
                      {c, d} \cap lost' = {}, NEW n \in Linked(c)' \cap MadeBy(d),
                      began[d] = rows'[c].key, made[n].at <= rows'[c].at
               PROVE  rows'[c].overlap > 0
    BY <1>1 DEF ForeignCommitsCounted
  <2>1. {c, d} \cap lost = {}
    OBVIOUS
  <2>2. CASE rows'[c] = rows[c]
    BY <1>3, <2>1, <2>2 DEF BracketsInv, ForeignCommitsCounted
  <2>3. CASE rows'[c] # rows[c]
    BY <1>3, <2>1, <2>3 DEF Told
  <2> QED
    BY <2>2, <2>3
<1> QED
  BY <1>2, <1>4, <1>5, <1>6

\* A hook that starts, ends or goes on by itself, and may store its row.
LEMMA HookChange ==
  ASSUME BracketsInv, NEW h \in Hooks, NEW s \in HookStates, hook' = [hook EXCEPT ![h] = s],
         UNCHANGED <<reflog, inodes, rewrites, made, marks, began, lost>>,
         rows' \in [Calls -> Rows \cup {None}],
         \A c \in Calls : rows'[c] = rows[c] \/ Told(c, rows'[c]),
         clock' \in Nat, clock' >= clock, fired' \in Nat,
         state' \in [Calls -> {"new", "asked", "running", "ended"}],
         \A c \in Calls : /\ state[c] = "ended" => state'[c] = "ended"
                          /\ state'[c] \in {"new", "asked"} => state[c] \in {"new", "asked"},
         Carries(s), s.at <= clock', s.pc # "read",
         s.pc = "open" => Bracketed(s.key, s.mark, s.at),
         s.pc \in Opening =>
           \/ state[s.call] # "ended" /\ \A n \in Numbers : made[n].at < s.at
           \/ /\ hook[h].pc \in Opening
              /\ s.call = hook[h].call /\ s.key = hook[h].key /\ s.at = hook[h].at,
         s.pc \in {"close", "collect"} => /\ state'[s.call] = "ended"
                                          /\ \A n \in MadeBy(s.call) : made[n].at < s.at
  PROVE  BracketsInv'
<1>1. /\ hook \in [Hooks -> HookStates] /\ clock \in Nat /\ marks \subseteq Marks /\ made \in Seq(Commits)
      /\ rows \in [Calls -> Rows \cup {None}]
  BY DEF BracketsInv, Typed
<1>2. hook' \in [Hooks -> HookStates] /\ hook'[h] = s /\ \A g \in Hooks \ {h} : hook'[g] = hook[g]
  BY <1>1
<1>3. /\ Numbers' = Numbers /\ Logs' /\ \A c \in Calls : MadeBy(c)' = MadeBy(c)
  BY Still
<1>4. Typed' /\ Unique' /\ (\A g \in Hooks : Carries(hook'[g]))
  BY <1>2 DEF BracketsInv, Typed, Unique
<1>5. Timely'
  <2>1. \A m \in marks : m.opened <= clock' /\ m.closed <= clock'
    BY <1>1 DEF BracketsInv, Timely, Marks
  <2>2. ASSUME NEW g \in Hooks
        PROVE  hook'[g].at <= clock' /\ (hook'[g].pc = "read" => hook'[g].mark.opened <= clock')
    <3>1. CASE g = h
      BY <1>2, <3>1
    <3>2. CASE g # h
      <4>1. hook[g].at \in Nat /\ (hook[g].pc = "read" => hook[g].mark.opened \in Nat)
        BY <1>1 DEF BracketsInv, Carries, HookStates, Marks
      <4> QED
        BY <1>1, <1>2, <3>2, <4>1 DEF BracketsInv, Timely
    <3> QED
      BY <3>1, <3>2
  <2>3. ASSUME NEW n \in Numbers PROVE made[n].at <= clock'
    <3>1. made[n] \in Commits
      BY <1>1 DEF Numbers
    <3> QED
      BY <1>1, <3>1 DEF Commits, BracketsInv, Timely
  <2>4. ASSUME NEW c \in Calls, rows'[c] # None PROVE rows'[c].at <= clock'
    <3>1. rows'[c].at \in Nat
      BY <2>4 DEF Rows
    <3>2. rows'[c].at <= clock
      BY <2>4 DEF BracketsInv, Timely, Told
    <3> QED
      BY <1>1, <3>1, <3>2
  <2> QED
    BY <1>3, <2>1, <2>2, <2>3, <2>4 DEF Timely
<1>6. AllBracketed'
  <2>1. \A m \in marks' : Bracketed(m.key, m, m.opened)'
    BY DEF BracketsInv, AllBracketed, Bracketed
  <2>2. ASSUME NEW g \in Hooks
        PROVE  /\ hook'[g].pc = "open" => Sound(hook'[g].key, hook'[g].mark, hook'[g].at, reflog[hook'[g].key], made, inodes, rewrites)
               /\ hook'[g].pc = "read" => Sound(hook'[g].key, hook'[g].mark, hook'[g].mark.opened, reflog[hook'[g].key], made, inodes, rewrites)
    <3>1. CASE g = h
      BY <1>2, <3>1 DEF Bracketed
    <3>2. CASE g # h
      BY <1>2, <3>2 DEF BracketsInv, AllBracketed, Bracketed
    <3> QED
      BY <3>1, <3>2
  <2> QED
    BY <2>1, <2>2 DEF AllBracketed, Bracketed
<1>7. Order'
  <2>1. \A g \in Hooks : hook'[g].pc \in {"close", "read", "collect"} =>
          /\ state'[hook'[g].call] = "ended"
          /\ \A n \in MadeBy(hook'[g].call) : made[n].at < hook'[g].at
    BY <1>1, <1>2 DEF BracketsInv, Order, Carries
  <2>2. \A m \in marks : m.call \in Calls
    BY <1>1 DEF Marks
  <2>3. \A g \in Hooks : hook'[g].pc \in {"close", "read", "collect"} => hook'[g].call \in Calls
    BY <1>4 DEF Carries
  <2>4. \A c \in Calls : rows'[c] # None => state'[c] = "ended"
    BY DEF BracketsInv, Order, Told
  <2> QED
    BY <1>3, <2>1, <2>2, <2>3, <2>4 DEF BracketsInv, Order
<1>8. Present'
  <2> SUFFICES ASSUME NEW c \in Calls \ lost, began[c] # None PROVE Witnessed(c)' \/ Passed(c)'
    BY DEF Present
  <2>1. CASE Witnessed(c)
    BY <1>3, <2>1 DEF Witnessed
  <2>2. CASE Passed(c)
    <3>1. \A n \in MadeBy(c) : n \in Numbers
      BY DEF MadeBy
    <3> QED
      BY <1>2, <1>3, <2>2, <3>1 DEF Passed, Opening
  <2> QED
    BY <2>1, <2>2 DEF BracketsInv, Present
<1>9. Reading'
  <2> SUFFICES ASSUME NEW g \in Hooks, hook'[g].pc = "read" PROVE Reaches(hook[g])' /\ Counts(hook[g])'
    BY DEF Reading
  <2>1. g # h /\ hook'[g] = hook[g] /\ hook[g].call \in Calls
    BY <1>2 DEF BracketsInv, Carries
  <2>2. Reaches(hook[g]) /\ Counts(hook[g])
    BY <2>1 DEF BracketsInv, Reading
  <2> QED
    BY <1>3, <2>1, <2>2 DEF Reaches, Counts
<1>10. RowsNumbered' /\ NothingOlderLinked' /\ OwnCommitsLinked' /\ ForeignCommitsCounted'
  BY RowsStill
<1>11. AllWhole'
  <2>1. \A m \in marks' : Whole(m)'
    BY <1>3 DEF BracketsInv, AllWhole, Whole, MadeBy, Numbers
  <2>2. ASSUME NEW g \in Hooks, hook'[g].pc = "read" PROVE Whole(hook[g].mark)'
    <3>1. hook'[g] = hook[g] /\ Whole(hook[g].mark)
      BY <1>2, <2>2 DEF BracketsInv, AllWhole
    <3> QED
      BY <3>1 DEF Whole, MadeBy, Numbers
  <2> QED
    BY <2>1, <2>2 DEF AllWhole
<1> QED
  BY <1>3, <1>4, <1>5, <1>6, <1>7, <1>8, <1>9, <1>10, <1>11 DEF BracketsInv

LEMMA PreToolUseInv ==
  ASSUME BracketsInv, NEW h \in Hooks, NEW c \in Calls, NEW k \in Checkouts, PreToolUse(h, c, k)
  PROVE  BracketsInv'
<1>1. PICK s : s = [pc |-> "mark", call |-> c, key |-> k, at |-> clock + 1, mark |-> None, overlap |-> 0]
  OBVIOUS
<1>2. /\ UNCHANGED <<reflog, inodes, rewrites, made, marks, rows, began, lost>>
      /\ state[c] \in {"new", "asked", "running"}
      /\ state' = [state EXCEPT ![c] = IF state[c] = "new" THEN "asked" ELSE state[c]]
      /\ clock' = clock + 1 /\ fired' = fired + 1 /\ hook' = [hook EXCEPT ![h] = s]
  BY <1>1 DEF PreToolUse, Begin, tables, disk, history
<1>3. /\ clock \in Nat /\ fired \in Nat /\ made \in Seq(Commits)
      /\ state \in [Calls -> {"new", "asked", "running", "ended"}] /\ rows \in [Calls -> Rows \cup {None}]
  BY DEF BracketsInv, Typed
<1>4. s \in HookStates /\ s.pc = "mark" /\ s.call = c /\ s.at = clock + 1 /\ s.key = k
  BY <1>1, <1>3 DEF HookStates
<1>5. clock' \in Nat /\ clock' >= clock /\ fired' \in Nat /\ clock + 1 > 0 /\ s.at <= clock'
  BY <1>2, <1>3, <1>4
<1>6. Carries(s)
  BY <1>4, <1>5 DEF Carries
<1>7. /\ state' \in [Calls -> {"new", "asked", "running", "ended"}]
      /\ \A d \in Calls : /\ state[d] = "ended" => state'[d] = "ended"
                          /\ state'[d] \in {"new", "asked"} => state[d] \in {"new", "asked"}
  BY <1>2, <1>3
<1>8. ASSUME NEW n \in Numbers PROVE made[n].at < s.at
  <2>1. made[n] \in Commits
    BY <1>3 DEF Numbers
  <2>2. made[n].at \in Nat /\ made[n].at <= clock
    BY <2>1 DEF Commits, BracketsInv, Timely
  <2> QED
    BY <1>3, <1>4, <2>2
<1>9. /\ rows' \in [Calls -> Rows \cup {None}]
      /\ \A d \in Calls : rows'[d] = rows[d] \/ Told(d, rows'[d])
  BY <1>2, <1>3
<1>10. /\ s.pc \notin {"open", "read", "close", "collect"}
       /\ state[s.call] # "ended" /\ \A n \in Numbers : made[n].at < s.at
  BY <1>2, <1>4, <1>8
<1> QED
  BY <1>2, <1>4, <1>5, <1>6, <1>7, <1>9, <1>10, HookChange

LEMMA PostToolUseInv ==
  ASSUME BracketsInv, NEW h \in Hooks, NEW c \in Calls, NEW k \in Checkouts, PostToolUse(h, c, k)
  PROVE  BracketsInv'
<1>1. PICK s : s = [pc |-> "close", call |-> c, key |-> k, at |-> clock + 1, mark |-> None, overlap |-> 0]
  OBVIOUS
<1>2. /\ UNCHANGED <<reflog, inodes, rewrites, made, marks, rows, began, lost>>
      /\ state' = [state EXCEPT ![c] = "ended"] /\ state[c] \in {"running", "ended"}
      /\ clock' = clock + 1 /\ fired' = fired + 1 /\ hook' = [hook EXCEPT ![h] = s]
  BY <1>1 DEF PostToolUse, Begin, tables, disk, history
<1>3. /\ clock \in Nat /\ fired \in Nat /\ made \in Seq(Commits)
      /\ state \in [Calls -> {"new", "asked", "running", "ended"}] /\ rows \in [Calls -> Rows \cup {None}]
  BY DEF BracketsInv, Typed
<1>4. s \in HookStates /\ s.pc = "close" /\ s.call = c /\ s.at = clock + 1 /\ s.key = k
  BY <1>1, <1>3 DEF HookStates
<1>5. clock' \in Nat /\ clock' >= clock /\ fired' \in Nat /\ clock + 1 > 0 /\ s.at <= clock'
  BY <1>2, <1>3, <1>4
<1>6. Carries(s)
  BY <1>4, <1>5 DEF Carries
<1>7. /\ state' \in [Calls -> {"new", "asked", "running", "ended"}] /\ state'[c] = "ended"
      /\ \A d \in Calls : /\ state[d] = "ended" => state'[d] = "ended"
                          /\ state'[d] \in {"new", "asked"} => state[d] \in {"new", "asked"}
  BY <1>2, <1>3
<1>8. ASSUME NEW n \in MadeBy(c) PROVE made[n].at < clock + 1
  <2>1. n \in Numbers /\ made[n] \in Commits
    BY <1>3 DEF MadeBy, Numbers
  <2>2. made[n].at \in Nat /\ made[n].at <= clock
    BY <2>1 DEF Commits, BracketsInv, Timely
  <2> QED
    BY <1>3, <2>2
<1>9. /\ rows' \in [Calls -> Rows \cup {None}]
      /\ \A d \in Calls : rows'[d] = rows[d] \/ Told(d, rows'[d])
  BY <1>2, <1>3
<1>10. /\ s.pc # "open" /\ s.pc # "read" /\ s.pc \notin Opening
       /\ state'[s.call] = "ended" /\ \A n \in MadeBy(s.call) : made[n].at < s.at
  BY <1>4, <1>7, <1>8 DEF Opening
<1> QED
  BY <1>2, <1>4, <1>5, <1>6, <1>7, <1>9, <1>10, HookChange

LEMMA IdleFits ==
  ASSUME BracketsInv
  PROVE  /\ Idle \in HookStates /\ Idle.pc = "idle" /\ Idle.pc \notin Opening /\ Carries(Idle) /\ Idle.at <= clock
         /\ clock \in Nat /\ clock >= clock /\ fired \in Nat
         /\ rows \in [Calls -> Rows \cup {None}] /\ state \in [Calls -> {"new", "asked", "running", "ended"}]
<1>1. clock \in Nat /\ fired \in Nat
      /\ rows \in [Calls -> Rows \cup {None}] /\ state \in [Calls -> {"new", "asked", "running", "ended"}]
  BY DEF BracketsInv, Typed
<1> QED
  BY <1>1 DEF Idle, HookStates, Carries, Opening

\* Nothing is listed yet behind the mark a hook has just read.
LEMMA ReadMarkInv ==
  ASSUME BracketsInv, NEW h \in Hooks, ReadMark(h)
  PROVE  BracketsInv'
<1>1. PICK t : t = hook[h]
  OBVIOUS
<1>2. PICK mark : mark = [offset |-> Len(reflog[t.key].list), ino |-> reflog[t.key].ino]
  OBVIOUS
<1>3. /\ UNCHANGED <<reflog, inodes, rewrites, made, marks, rows, began, lost, state, clock, fired>>
      /\ t.pc = "mark" /\ hook' = [hook EXCEPT ![h].pc = "open", ![h].mark = mark]
  BY <1>1, <1>2 DEF ReadMark, At, tables, disk, history
<1>4. /\ reflog \in [Checkouts -> [ino : Nat, list : Seq(Nat)]] /\ hook \in [Hooks -> HookStates]
      /\ t \in HookStates
  BY <1>1 DEF BracketsInv, Typed
<1>5. t.call \in Calls /\ t.key \in Checkouts /\ t.at > 0 /\ t.at <= clock
  BY <1>1, <1>3 DEF BracketsInv, Carries, Timely
<1>6. reflog[t.key].list \in Seq(Nat) /\ Len(reflog[t.key].list) \in Nat /\ reflog[t.key].ino \in Nat
  BY <1>4, <1>5
<1>7. mark \in Places /\ mark.offset = Len(reflog[t.key].list) /\ mark.ino = reflog[t.key].ino
  BY <1>2, <1>6 DEF Places
<1>8. Bracketed(t.key, mark, t.at)
  <2>1. Behind(reflog[t.key].list, mark.offset) = {}
    BY <1>6, <1>7, BehindAll
  <2>2. mark.ino <= inodes /\ mark.offset <= Len(reflog[t.key].list)
    BY <1>5, <1>6, <1>7 DEF BracketsInv, Logs
  <2>3. mark.ino = 0 => mark.offset = 0 /\ rewrites > 0
    BY <1>5, <1>6, <1>7 DEF BracketsInv, Logs
  <2> QED
    BY <2>1, <2>2, <2>3 DEF Bracketed, Sound
<1>9. PICK s : s = [t EXCEPT !.pc = "open", !.mark = mark]
  OBVIOUS
<1>10. /\ s \in HookStates /\ s.pc = "open" /\ s.mark = mark
       /\ s.call = t.call /\ s.key = t.key /\ s.at = t.at
  BY <1>4, <1>7, <1>9 DEF HookStates
<1>11. hook' = [hook EXCEPT ![h] = s]
  BY <1>1, <1>3, <1>4, <1>9
<1>12. Carries(s) /\ s.at <= clock' /\ Bracketed(s.key, s.mark, s.at)
  BY <1>3, <1>5, <1>7, <1>8, <1>10 DEF Carries
<1>13. hook[h].pc \in Opening /\ s.call = hook[h].call /\ s.key = hook[h].key /\ s.at = hook[h].at
  BY <1>1, <1>3, <1>10 DEF Opening
<1>14. s.pc \notin {"read", "close", "collect"}
  BY <1>10
<1>15. \A c \in Calls : rows'[c] = rows[c]
  BY <1>3
<1>16. /\ clock' \in Nat /\ clock' >= clock /\ fired' \in Nat /\ rows' \in [Calls -> Rows \cup {None}]
       /\ state' \in [Calls -> {"new", "asked", "running", "ended"}]
       /\ \A c \in Calls : /\ state[c] = "ended" => state'[c] = "ended"
                           /\ state'[c] \in {"new", "asked"} => state[c] \in {"new", "asked"}
  BY <1>3, IdleFits
<1> QED
  BY <1>3, <1>10, <1>11, <1>12, <1>13, <1>14, <1>15, <1>16, HookChange

LEMMA HookGoneInv ==
  ASSUME BracketsInv, NEW h \in Hooks, HookGone(h)
  PROVE  BracketsInv'
<1>1. /\ UNCHANGED <<reflog, inodes, rewrites, made, marks, rows, began, lost, state, clock, fired>>
      /\ hook' = [hook EXCEPT ![h] = Idle]
  BY DEF HookGone, Leave, tables, disk, history
<1> QED
  BY <1>1, IdleFits, HookChange

\* The row of a hook that has read the reflog.
LEMMA ObservationTold ==
  ASSUME BracketsInv, NEW h \in Hooks, hook[h].pc \in {"read", "collect"}
  PROVE  Observation(h) \in Rows /\ Told(hook[h].call, Observation(h))
<1> DEFINE s == hook[h]
           file == reflog[s.key]
           found == IF s.pc = "read" THEN Appended(file, s.mark) ELSE None
<1>1. /\ s \in HookStates /\ reflog \in [Checkouts -> [ino : Nat, list : Seq(Nat)]] /\ rewrites \in Nat
      /\ made \in Seq(Commits) /\ Len(made) >= 1 /\ made[1].at = 0
  BY DEF BracketsInv, Typed
<1>2. /\ s.call \in Calls /\ s.key \in Checkouts /\ s.at \in Nat /\ s.overlap \in Nat
      /\ s.pc = "read" => s.mark \in Marks /\ s.mark.call = s.call /\ s.mark.key = s.key
  BY <1>1 DEF BracketsInv, Carries, HookStates
<1>3. /\ s.at <= clock /\ state[s.call] = "ended"
  BY DEF BracketsInv, Timely, Order
<1>4. s.pc = "read" => s.mark.opened \in Nat /\ s.mark.ino \in Nat /\ s.mark.offset \in Nat
  BY <1>2 DEF Marks
<1>5. file.list \in Seq(Nat) /\ Len(file.list) \in Nat /\ file.ino \in Nat
  BY <1>1, <1>2
<1>6. ASSUME found # None
      PROVE  /\ s.pc = "read" /\ s.mark.offset <= Len(file.list) /\ s.mark.ino \in {0, file.ino}
             /\ found = Behind(file.list, s.mark.offset)
  <2>1. s.pc = "read" /\ ~Rewritten(file, s.mark) /\ found = ToSet(Added(file, s.mark))
    BY <1>6 DEF Appended
  <2>2. s.mark.offset <= Len(file.list) /\ s.mark.ino \in {0, file.ino}
    BY <1>4, <1>5, <2>1 DEF Rewritten
  <2> QED
    BY <1>4, <1>5, <2>1, <2>2, BehindAdded DEF Added
<1> HIDE DEF found
<1> DEFINE row == Observation(h)
<1>7. /\ row.linked = (found # None) /\ row.commits = IF found = None THEN {} ELSE found
      /\ row.opened = IF s.pc = "read" THEN s.mark.opened ELSE s.at
      /\ row.at = s.at /\ row.key = s.key /\ row.overlap = s.overlap
      /\ row.fresh = (s.pc = "read" /\ s.mark.ino = 0)
  BY DEF Observation, found
<1>8. s.pc = "read" => Bracketed(s.key, s.mark, s.mark.opened)
  BY DEF BracketsInv, AllBracketed
<1>9. ASSUME NEW n \in row.commits
      PROVE  /\ s.pc = "read" /\ n \in Numbers /\ n \in Nat
             /\ made[n].key = s.key /\ made[n].at > s.mark.opened
  <2>1. found # None /\ n \in Behind(file.list, s.mark.offset) /\ s.pc = "read"
    BY <1>6, <1>7
  <2>2. made[n].at > s.mark.opened
    BY <1>6, <1>8, <2>1 DEF Bracketed, Sound
  <2>3. n \in Behind(file.list, 0)
    BY <1>4, <1>5, <2>1, BehindLess
  <2>4. n \in Numbers /\ (n = 1 \/ made[n].key = s.key)
    BY <1>2, <2>3 DEF BracketsInv, Logs
  <2>5. n # 1
    BY <1>1, <1>4, <2>1, <2>2
  <2> QED
    BY <2>1, <2>2, <2>4, <2>5 DEF Numbers
<1>10. row \in Rows
  <2>1. row.opened \in Nat /\ row.commits \in SUBSET Nat /\ row.linked \in BOOLEAN /\ row.fresh \in BOOLEAN
    BY <1>2, <1>4, <1>7, <1>9
  <2>2. row = [linked |-> row.linked, commits |-> row.commits, opened |-> row.opened, at |-> row.at,
               key |-> row.key, overlap |-> row.overlap, fresh |-> row.fresh]
    BY DEF Observation
  <2> QED
    BY <1>2, <1>7, <2>1, <2>2 DEF Rows
<1>11. ASSUME s.call \notin lost, row.linked, began[s.call] # None, ~(row.fresh /\ rewrites > 0),
              NEW n \in MadeBy(s.call), made[n].key = s.key, made[n].at <= s.at
       PROVE  n \in row.commits
  <2>1. found # None /\ s.pc = "read"
    BY <1>6, <1>7, <1>11
  <2>2. s.mark.ino # 0 /\ s.mark.ino = file.ino
    BY <1>6, <1>7, <1>8, <1>11, <2>1 DEF Bracketed, Sound
  <2>3. Whole(s.mark) /\ s.mark.call = s.call /\ s.mark.key = s.key
    BY <1>2, <2>1 DEF BracketsInv, AllWhole
  <2>4. n \in Behind(file.list, s.mark.offset)
    BY <1>11, <2>2, <2>3 DEF Whole
  <2> QED
    BY <1>6, <1>7, <2>1, <2>4
<1>12. ASSUME NEW d \in Calls, Session[s.call] # Session[d], began[d] # None, {s.call, d} \cap lost = {},
              NEW n \in row.commits \cap MadeBy(d), began[d] = s.key, made[n].at <= s.at
       PROVE  row.overlap > 0
  BY <1>7, <1>9, <1>12 DEF BracketsInv, Reading, Counts
<1>13. /\ \A n \in row.commits : n \in Numbers /\ made[n].key = row.key /\ made[n].at > row.opened
  BY <1>7, <1>9
<1> HIDE DEF row
<1>14. Told(s.call, row)
  BY <1>3, <1>7, <1>11, <1>12, <1>13 DEF Told
<1> QED
  BY <1>10, <1>14 DEF row

LEMMA CollectInv ==
  ASSUME BracketsInv, NEW h \in Hooks, Collect(h)
  PROVE  BracketsInv'
<1>1. PICK row : row = Observation(h)
  OBVIOUS
<1>2. /\ UNCHANGED <<reflog, inodes, rewrites, made, marks, began, lost, state, clock, fired>>
      /\ hook' = [hook EXCEPT ![h] = Idle] /\ hook[h].pc \in {"read", "collect"}
      /\ rows' = [rows EXCEPT ![hook[h].call] = IF rows[hook[h].call] = None THEN row ELSE rows[hook[h].call]]
  BY <1>1 DEF Collect, Leave, disk, history
<1>3. row \in Rows /\ Told(hook[h].call, row) /\ rows \in [Calls -> Rows \cup {None}]
  BY <1>1, <1>2, ObservationTold DEF BracketsInv, Typed
<1>4. rows' \in [Calls -> Rows \cup {None}]
  BY <1>2, <1>3
<1>5. \A c \in Calls : rows'[c] = rows[c] \/ Told(c, rows'[c])
  BY <1>2, <1>3
<1> QED
  BY <1>2, <1>4, <1>5, IdleFits, HookChange

-----------------------------------------------------------------------------
(* The table of marks.                                                     *)

\* A hook that does not open a bracket, in the state it has now.
Fits(s) ==
  /\ Carries(s) /\ s.at <= clock /\ s.pc \notin Opening
  /\ s.pc = "read" => /\ s.mark.opened <= clock /\ Bracketed(s.key, s.mark, s.mark.opened)
                      /\ Whole(s.mark) /\ Reaches(s) /\ Counts(s)
  /\ s.pc \in {"close", "read", "collect"} => /\ state[s.call] = "ended"
                                              /\ \A n \in MadeBy(s.call) : made[n].at < s.at

MarkHolds(m) ==
  /\ m.opened <= clock /\ m.closed <= clock /\ Bracketed(m.key, m, m.opened) /\ Whole(m)
  /\ m.closed # 0 /\ m.call \notin lost =>
       state[m.call] = "ended" /\ \A n \in MadeBy(m.call) : made[n].at < m.closed

\* Steps that only touch the table and the hook at work.
LEMMA MarksChange ==
  ASSUME BracketsInv, NEW next \in [Hooks -> HookStates], hook' = next,
         UNCHANGED <<reflog, inodes, rewrites, made, rows, state, began>>,
         clock' \in Nat, clock' >= clock, fired' \in Nat,
         lost \subseteq lost', lost' \subseteq Calls,
         marks' \subseteq Marks, IsFiniteSet(marks'), Unique',
         \A m \in marks' : MarkHolds(m)', Present',
         \A g \in Hooks : next[g] = hook[g] \/ Fits(next[g])'
  PROVE  BracketsInv'
<1>1. /\ hook \in [Hooks -> HookStates] /\ clock \in Nat /\ made \in Seq(Commits)
      /\ rows \in [Calls -> Rows \cup {None}]
  BY DEF BracketsInv, Typed
<1>2. /\ Numbers' = Numbers /\ Logs' /\ \A c \in Calls : MadeBy(c)' = MadeBy(c)
  BY Still
<1>3. RowsNumbered' /\ NothingOlderLinked' /\ OwnCommitsLinked' /\ ForeignCommitsCounted'
  BY RowsStill
<1>4. Typed' /\ \A g \in Hooks : Carries(hook'[g])
  BY DEF BracketsInv, Typed, Fits
<1>5. Timely'
  <2>1. ASSUME NEW g \in Hooks
        PROVE  next[g].at <= clock' /\ (next[g].pc = "read" => next[g].mark.opened <= clock')
    <3>1. CASE next[g] = hook[g]
      <4>1. hook[g].at \in Nat /\ (hook[g].pc = "read" => hook[g].mark.opened \in Nat)
        BY <1>1 DEF BracketsInv, Carries, HookStates, Marks
      <4> QED
        BY <1>1, <3>1, <4>1 DEF BracketsInv, Timely
    <3>2. CASE Fits(next[g])'
      BY <3>2 DEF Fits
    <3> QED
      BY <3>1, <3>2
  <2>2. ASSUME NEW n \in Numbers PROVE made[n].at <= clock'
    <3>1. made[n] \in Commits
      BY <1>1 DEF Numbers
    <3> QED
      BY <1>1, <3>1 DEF Commits, BracketsInv, Timely
  <2>3. ASSUME NEW c \in Calls, rows[c] # None PROVE rows[c].at <= clock'
    <3>1. rows[c].at \in Nat /\ rows[c].at <= clock
      BY <1>1, <2>3 DEF Rows, BracketsInv, Timely
    <3> QED
      BY <1>1, <3>1
  <2> QED
    BY <1>2, <2>1, <2>2, <2>3 DEF Timely, MarkHolds
<1>6. AllBracketed'
  <2>1. ASSUME NEW g \in Hooks
        PROVE  /\ next[g].pc = "open" => Bracketed(next[g].key, next[g].mark, next[g].at)'
               /\ next[g].pc = "read" => Bracketed(next[g].key, next[g].mark, next[g].mark.opened)'
    BY DEF BracketsInv, AllBracketed, Bracketed, Fits, Opening
  <2> QED
    BY <2>1 DEF AllBracketed, MarkHolds
<1>9. AllWhole'
  <2>1. ASSUME NEW g \in Hooks, next[g].pc = "read" PROVE Whole(next[g].mark)'
    <3>1. CASE next[g] = hook[g]
      <4>1. PICK m : m = next[g].mark
        OBVIOUS
      <4>2. Whole(m) /\ m.call \in Calls
        BY <2>1, <3>1, <4>1 DEF BracketsInv, AllWhole, Carries, Marks
      <4> QED
        BY <1>2, <4>1, <4>2 DEF Whole
    <3>2. CASE Fits(next[g])'
      BY <2>1, <3>2 DEF Fits
    <3> QED
      BY <3>1, <3>2
  <2> QED
    BY <2>1 DEF AllWhole, MarkHolds
<1>7. Order'
  <2>1. ASSUME NEW g \in Hooks, next[g].pc \in {"close", "read", "collect"}
        PROVE  state[next[g].call] = "ended" /\ \A n \in MadeBy(next[g].call)' : made[n].at < next[g].at
    <3>1. CASE next[g] = hook[g]
      BY <1>2, <2>1, <3>1 DEF BracketsInv, Order, Carries
    <3>2. CASE Fits(next[g])'
      BY <2>1, <3>2 DEF Fits
    <3> QED
      BY <3>1, <3>2
  <2> QED
    BY <1>2, <2>1 DEF BracketsInv, Order, MarkHolds
<1>8. Reading'
  <2> SUFFICES ASSUME NEW g \in Hooks, next[g].pc = "read" PROVE Reaches(next[g])' /\ Counts(next[g])'
    BY DEF Reading
  <2>1. CASE next[g] = hook[g]
    <3>1. Reaches(next[g]) /\ Counts(next[g]) /\ next[g].call \in Calls
      BY <2>1 DEF BracketsInv, Reading, Carries
    <3>2. Reaches(next[g])'
      BY <1>2, <3>1 DEF Reaches
    <3>3. Counts(next[g])'
      BY <1>2, <3>1 DEF Counts
    <3> QED
      BY <3>2, <3>3
  <2>2. CASE Fits(next[g])'
    BY <2>2 DEF Fits
  <2> QED
    BY <2>1, <2>2
<1> QED
  BY <1>2, <1>3, <1>4, <1>5, <1>6, <1>7, <1>8, <1>9 DEF BracketsInv

\* What is known of a mark in the table.
LEMMA MarkKnown ==
  ASSUME BracketsInv, NEW m \in marks
  PROVE  /\ MarkHolds(m) /\ m \in Marks /\ m.opened \in Nat /\ m.closed \in Nat
         /\ m.call \in Calls /\ m.key \in Checkouts
<1>1. m \in Marks
  BY DEF BracketsInv, Typed
<1> QED
  BY <1>1 DEF BracketsInv, Timely, AllBracketed, AllWhole, Order, MarkHolds, Marks

LEMMA MarkStays ==
  ASSUME BracketsInv, NEW m \in marks, UNCHANGED <<reflog, inodes, rewrites, made, state, began>>,
         clock' \in Nat, clock' >= clock, lost \subseteq lost'
  PROVE  MarkHolds(m)'
<1>1. /\ MarkHolds(m) /\ m.opened \in Nat /\ m.closed \in Nat /\ m.call \in Calls /\ clock \in Nat
  BY MarkKnown DEF BracketsInv, Typed
<1>2. \A c \in Calls : MadeBy(c)' = MadeBy(c)
  BY Still
<1>3. Whole(m)'
  BY <1>1, <1>2 DEF MarkHolds, Whole
<1> QED
  BY <1>1, <1>2, <1>3 DEF MarkHolds, Bracketed

Stamped(stays, shut, stamp) ==
  {IF m \in shut THEN [m EXCEPT !.closed = stamp] ELSE m : m \in stays}

LEMMA StampedKeeps ==
  ASSUME BracketsInv, NEW shut, NEW stays \in SUBSET marks, NEW stamp
  PROVE  \A m \in stays : \E q \in Stamped(stays, shut, stamp) :
           q.call = m.call /\ q.key = m.key /\ q.opened = m.opened
<1> SUFFICES ASSUME NEW m \in stays
             PROVE  \E q \in Stamped(stays, shut, stamp) :
                      q.call = m.call /\ q.key = m.key /\ q.opened = m.opened
  OBVIOUS
<1> DEFINE q == IF m \in shut THEN [m EXCEPT !.closed = stamp] ELSE m
<1>1. m \in Marks
  BY DEF BracketsInv, Typed
<1>2. q.call = m.call /\ q.key = m.key /\ q.opened = m.opened
  BY <1>1 DEF Marks
<1>3. q \in Stamped(stays, shut, stamp)
  BY DEF Stamped
<1> HIDE DEF q
<1> QED
  BY <1>2, <1>3

\* The marks of some calls get a closing stamp, which comes after the end of
\* their calls or counts them as lost; the other marks of lost calls may go.
LEMMA Closing ==
  ASSUME BracketsInv, NEW shut \in SUBSET marks, NEW stays \in SUBSET marks, NEW stamp \in Nat,
         stamp > 0, stamp <= clock', UNCHANGED <<reflog, inodes, rewrites, made, state, began>>,
         clock' \in Nat, clock' >= clock, lost \subseteq lost',
         \A m \in shut : m.call \notin lost' =>
           state[m.call] = "ended" /\ \A n \in MadeBy(m.call) : made[n].at < stamp,
         marks' = Stamped(stays, shut, stamp)
  PROVE  /\ marks' \subseteq Marks /\ IsFiniteSet(marks') /\ Unique'
         /\ \A m \in marks' : MarkHolds(m)'
         /\ \A q \in marks' : \E m \in stays :
              q.call = m.call /\ q.key = m.key /\ q.opened = m.opened /\ (q.closed = 0 => m.closed = 0)
<1> DEFINE Shut(m) == IF m \in shut THEN [m EXCEPT !.closed = stamp] ELSE m
<1>1. marks \subseteq Marks /\ IsFiniteSet(marks) /\ Unique
  BY DEF BracketsInv, Typed
<1>2. ASSUME NEW m \in marks
      PROVE  /\ Shut(m) \in Marks /\ Shut(m).call = m.call /\ Shut(m).key = m.key /\ Shut(m).offset = m.offset
             /\ Shut(m).ino = m.ino /\ Shut(m).opened = m.opened
             /\ Shut(m).closed = IF m \in shut THEN stamp ELSE m.closed
  <2>1. m \in Marks
    BY <1>1
  <2> QED
    BY <2>1 DEF Marks
<1>3. \A q \in marks' : \E m \in stays : q = Shut(m)
  BY DEF Stamped
<1>4. \A m \in stays : Shut(m) \in marks'
  BY DEF Stamped
<1>5. IsFiniteSet(marks')
  <2>1. IsFiniteSet(stays)
    BY <1>1, FS_Subset
  <2>2. PICK f : f = [m \in stays |-> Shut(m)]
    OBVIOUS
  <2>3. f \in Surjection(stays, marks')
    BY <1>3, <1>4, <2>2 DEF Surjection
  <2> QED
    BY <2>1, <2>3, FS_Surjection
<1>6. ASSUME NEW m \in stays PROVE MarkHolds(Shut(m))'
  <2>1. MarkHolds(m)' /\ m.call \in Calls
    BY MarkStays, MarkKnown
  <2>2. CASE m \notin shut
    BY <2>1, <2>2
  <2>3. CASE m \in shut
    <3>1. Bracketed(Shut(m).key, Shut(m), Shut(m).opened)'
      BY <1>2, <2>1 DEF MarkHolds, Bracketed, Sound
    <3>2. \A c \in Calls : MadeBy(c)' = MadeBy(c)
      BY Still
    <3> HIDE DEF Shut
    <3>3. Whole(Shut(m))'
      BY <1>2, <2>1 DEF MarkHolds, Whole
    <3> QED
      BY <1>2, <2>1, <2>3, <3>1, <3>2, <3>3 DEF MarkHolds
  <2> QED
    BY <2>2, <2>3
<1> HIDE DEF Shut
<1>7. marks' \subseteq Marks /\ \A m \in marks' : MarkHolds(m)'
  <2> SUFFICES ASSUME NEW q \in marks' PROVE q \in Marks /\ MarkHolds(q)'
    OBVIOUS
  <2>1. PICK m \in stays : q = Shut(m)
    BY <1>3
  <2> QED
    BY <1>2, <1>6, <2>1
<1>8. Unique'
  BY <1>1, <1>2, <1>3 DEF Unique
<1>9. \A q \in marks' : \E m \in stays :
        q.call = m.call /\ q.key = m.key /\ q.opened = m.opened /\ (q.closed = 0 => m.closed = 0)
  <2> SUFFICES ASSUME NEW q \in marks'
               PROVE  \E m \in stays : q.call = m.call /\ q.key = m.key /\ q.opened = m.opened /\ (q.closed = 0 => m.closed = 0)
    OBVIOUS
  <2>1. PICK m \in stays : q = Shut(m)
    BY <1>3
  <2> QED
    BY <1>2, <2>1
<1> QED
  BY <1>5, <1>7, <1>8, <1>9

LEMMA EndTurnInv ==
  ASSUME BracketsInv, NEW session, EndTurn(session)
  PROVE  BracketsInv'
<1>1. PICK mine : mine = {m \in marks : Session[m.call] = session /\ m.closed = 0}
  OBVIOUS
<1>2. PICK all : all = marks
  OBVIOUS
<1>3. PICK stamp : stamp = clock + 1
  OBVIOUS
<1>4. /\ UNCHANGED <<reflog, inodes, rewrites, made, rows, state, began, hook>>
      /\ clock' = clock + 1 /\ fired' = fired + 1
      /\ lost' = lost \cup {m.call : m \in mine}
      /\ marks' = (marks \ mine) \cup {[m EXCEPT !.closed = clock + 1] : m \in mine}
  BY <1>1 DEF EndTurn, disk
<1>5. /\ hook \in [Hooks -> HookStates] /\ clock \in Nat /\ fired \in Nat /\ lost \subseteq Calls /\ marks \subseteq Marks
  BY DEF BracketsInv, Typed
<1>6. mine \in SUBSET marks /\ all \in SUBSET marks
  BY <1>1, <1>2
<1>7. stamp \in Nat /\ stamp > 0 /\ stamp <= clock' /\ clock' \in Nat /\ clock' >= clock /\ fired' \in Nat
  BY <1>3, <1>4, <1>5
<1>8. marks' = Stamped(all, mine, stamp)
  BY <1>2, <1>3, <1>4, <1>6 DEF Stamped
<1>9. lost \subseteq lost' /\ lost' \subseteq Calls /\ \A m \in mine : m.call \in lost'
  BY <1>4, <1>5, <1>6 DEF Marks
<1>10. /\ marks' \subseteq Marks /\ IsFiniteSet(marks') /\ Unique'
       /\ \A m \in marks' : MarkHolds(m)'
       /\ \A q \in marks' : \E m \in all :
            q.call = m.call /\ q.key = m.key /\ q.opened = m.opened /\ (q.closed = 0 => m.closed = 0)
       /\ \A m \in all : \E q \in marks' : q.call = m.call /\ q.key = m.key /\ q.opened = m.opened
  <2>1. \A m \in mine : m.call \notin lost' =>
          state[m.call] = "ended" /\ \A n \in MadeBy(m.call) : made[n].at < stamp
    BY <1>9
  <2>2. UNCHANGED <<reflog, inodes, rewrites, made, state, began>>
    BY <1>4
  <2> QED
    <3>1. marks' \subseteq Marks /\ IsFiniteSet(marks') /\ Unique' /\ \A m \in marks' : MarkHolds(m)'
      BY <1>6, <1>7, <1>8, <1>9, <2>1, <2>2, Closing
    <3>2. \A q \in marks' : \E m \in all :
            q.call = m.call /\ q.key = m.key /\ q.opened = m.opened /\ (q.closed = 0 => m.closed = 0)
      BY <1>6, <1>7, <1>8, <1>9, <2>1, <2>2, Closing
    <3> QED
      BY <1>6, <1>8, <3>1, <3>2, StampedKeeps
<1>11. Present'
  <2> SUFFICES ASSUME NEW c \in Calls \ lost', began[c] # None PROVE Witnessed(c)' \/ Passed(c)'
    BY <1>4 DEF Present
  <2>1. \A d \in Calls : MadeBy(d)' = MadeBy(d)
    BY <1>4, Still
  <2>2. CASE Witnessed(c)
    BY <1>2, <1>4, <1>10, <2>1, <2>2 DEF Witnessed
  <2>3. CASE Passed(c)
    BY <1>2, <1>4, <1>10, <2>1, <2>3 DEF Passed
  <2> QED
    BY <1>9, <2>2, <2>3 DEF BracketsInv, Present
<1>12. PICK next : next = hook
  OBVIOUS
<1>13. next \in [Hooks -> HookStates] /\ hook' = next /\ \A g \in Hooks : next[g] = hook[g] \/ Fits(next[g])'
  BY <1>4, <1>5, <1>12
<1> QED
  BY <1>4, <1>7, <1>9, <1>10, <1>11, <1>13, MarksChange

\* The marks that are still there after a hook has pruned the table.
LEMMA CloseInv ==
  ASSUME BracketsInv, NEW h \in Hooks, Close(h)
  PROVE  BracketsInv'
<1>1. PICK s : s = hook[h]
  OBVIOUS
<1>2. PICK young : young = {m \in marks : Young(m, s.at)}
  OBVIOUS
<1>3. PICK shut : shut = {m \in marks : m.call = s.call}
  OBVIOUS
<1>4. PICK closed : closed = {IF m.call = s.call THEN [m EXCEPT !.closed = s.at] ELSE m : m \in young}
  OBVIOUS
<1>5. /\ UNCHANGED <<reflog, inodes, rewrites, made, rows, state, began, clock, fired>>
      /\ s.pc = "close" /\ marks' = closed /\ lost' = lost \cup {m.call : m \in marks \ young}
  <2>1. young = {m \in marks : Young(m, hook[h].at)}
    BY <1>1, <1>2
  <2>2. closed = {IF m.call = hook[h].call THEN [m EXCEPT !.closed = hook[h].at] ELSE m : m \in young}
    BY <1>1, <1>4
  <2>3. /\ UNCHANGED <<rows, disk, state, clock, fired, made, began>> /\ hook[h].pc = "close"
        /\ marks' = closed /\ lost' = lost \cup {m.call : m \in marks \ young}
    BY ONLY Close(h), <2>1, <2>2 DEF Close, At
  <2> QED
    BY <1>1, <2>3 DEF disk
<1>50. \/ hook' = [hook EXCEPT ![h].pc = "collect"]
       \/ \E m \in young :
            /\ m.call = s.call /\ m.closed = 0 /\ m.key = s.key
            /\ hook' = [hook EXCEPT ![h].pc = "read", ![h].mark = m,
                 ![h].overlap = Cardinality({n \in closed : Overlaps(n, m, hook[h].at)})]
  <2>1. young = {m \in marks : Young(m, hook[h].at)}
    BY <1>1, <1>2
  <2>2. closed = {IF m.call = hook[h].call THEN [m EXCEPT !.closed = hook[h].at] ELSE m : m \in young}
    BY <1>1, <1>4
  <2>3. PICK own : own = {m \in young : m.call = hook[h].call /\ m.closed = 0 /\ m.key = hook[h].key}
    OBVIOUS
  <2>4. \/ hook' = [hook EXCEPT ![h].pc = "collect"]
        \/ \E m \in own :
             hook' = [hook EXCEPT ![h].pc = "read", ![h].mark = m,
                   ![h].overlap = Cardinality({n \in closed : Overlaps(n, m, hook[h].at)})]
    BY Zenon, <2>1, <2>2, <2>3 DEF Close
  <2> QED
    BY Zenon, <1>1, <2>3, <2>4
<1>6. /\ hook \in [Hooks -> HookStates] /\ clock \in Nat /\ fired \in Nat /\ lost \subseteq Calls /\ marks \subseteq Marks
      /\ s \in HookStates /\ made \in Seq(Commits)
  BY <1>1 DEF BracketsInv, Typed
<1>7. /\ s.call \in Calls /\ s.key \in Checkouts /\ s.at \in Nat /\ s.at > 0 /\ s.at <= clock /\ state[s.call] = "ended"
      /\ \A n \in MadeBy(s.call) : made[n].at < s.at
  BY <1>1, <1>5, <1>6 DEF BracketsInv, Carries, Timely, Order, HookStates
<1>8. /\ young \in SUBSET marks /\ shut \in SUBSET marks
      /\ marks' = Stamped(young, shut, s.at)
  BY <1>2, <1>3, <1>4, <1>5 DEF Stamped
<1>9. lost \subseteq lost' /\ lost' \subseteq Calls /\ \A m \in marks \ young : m.call \in lost'
  BY <1>5, <1>6 DEF Marks
<1>10. /\ marks' \subseteq Marks /\ IsFiniteSet(marks') /\ Unique'
       /\ \A m \in marks' : MarkHolds(m)'
       /\ \A q \in marks' : \E m \in young :
            q.call = m.call /\ q.key = m.key /\ q.opened = m.opened /\ (q.closed = 0 => m.closed = 0)
       /\ \A m \in young : \E q \in marks' : q.call = m.call /\ q.key = m.key /\ q.opened = m.opened
  <2>1. \A m \in shut : m.call \notin lost' =>
          state[m.call] = "ended" /\ \A n \in MadeBy(m.call) : made[n].at < s.at
    BY <1>3, <1>7
  <2>2. s.at <= clock' /\ clock' \in Nat /\ clock' >= clock
    BY <1>5, <1>6, <1>7
  <2>3. marks' = Stamped(young, shut, s.at)
    BY <1>8
  <2>4. UNCHANGED <<reflog, inodes, rewrites, made, state, began>> /\ s.at \in Nat /\ s.at > 0
    BY <1>5, <1>7
  <2> QED
    <3>1. marks' \subseteq Marks /\ IsFiniteSet(marks') /\ Unique' /\ \A m \in marks' : MarkHolds(m)'
      BY <1>8, <1>9, <2>1, <2>2, <2>3, <2>4, Closing
    <3>2. \A q \in marks' : \E m \in young :
            q.call = m.call /\ q.key = m.key /\ q.opened = m.opened /\ (q.closed = 0 => m.closed = 0)
      BY <1>8, <1>9, <2>1, <2>2, <2>3, <2>4, Closing
    <3> QED
      BY <1>8, <2>3, <3>1, <3>2, StampedKeeps
<1>11. \A d \in Calls : MadeBy(d)' = MadeBy(d)
  BY <1>5, Still
<1>12. PICK next \in [Hooks -> HookStates] :
         /\ hook' = next /\ \A g \in Hooks \ {h} : next[g] = hook[g]
         /\ next[h].call = s.call /\ next[h].key = s.key /\ next[h].at = s.at
         /\ next[h].pc \in {"collect", "read"}
         /\ next[h].pc = "read" => \E m \in young :
              /\ m.call = s.call /\ m.closed = 0 /\ m.key = s.key /\ next[h].mark = m
              /\ next[h].overlap = Cardinality({n \in closed : Overlaps(n, m, hook[h].at)})
  <2>1. CASE hook' = [hook EXCEPT ![h].pc = "collect"]
    <3>1. [hook[h] EXCEPT !.pc = "collect"] \in HookStates
      BY <1>1, <1>6 DEF HookStates
    <3>2. hook' \in [Hooks -> HookStates]
      BY <1>6, <2>1, <3>1
    <3> QED
      BY <1>1, <1>6, <2>1, <3>2 DEF HookStates
  <2>2. ASSUME NEW m \in young, m.call = s.call, m.closed = 0, m.key = s.key, NEW count \in Nat,
               count = Cardinality({n \in closed : Overlaps(n, m, hook[h].at)}),
               hook' = [hook EXCEPT ![h].pc = "read", ![h].mark = m, ![h].overlap = count]
        PROVE  /\ hook' \in [Hooks -> HookStates] /\ \A g \in Hooks \ {h} : hook'[g] = hook[g]
               /\ hook'[h].call = s.call /\ hook'[h].key = s.key /\ hook'[h].at = s.at
               /\ hook'[h].pc = "read" /\ hook'[h].mark = m /\ hook'[h].overlap = count
    <3>1. hook' = [hook EXCEPT ![h] = [hook[h] EXCEPT !.pc = "read", !.mark = m, !.overlap = count]]
      BY <1>6, <2>2
    <3>2. m \in Marks
      BY <1>6, <1>8
    <3>3. [hook[h] EXCEPT !.pc = "read", !.mark = m, !.overlap = count] \in HookStates
      BY <1>1, <1>6, <3>2 DEF HookStates
    <3> QED
      BY <1>1, <1>6, <3>1, <3>3 DEF HookStates
  <2>3. ASSUME NEW m PROVE Cardinality({n \in closed : Overlaps(n, m, hook[h].at)}) \in Nat
    <3>1. IsFiniteSet({n \in closed : Overlaps(n, m, hook[h].at)})
      BY <1>5, <1>10, FS_Subset
    <3> QED
      BY <3>1, FS_CardinalityType
  <2>4. CASE \E m \in young :
               /\ m.call = s.call /\ m.closed = 0 /\ m.key = s.key
               /\ hook' = [hook EXCEPT ![h].pc = "read", ![h].mark = m,
                    ![h].overlap = Cardinality({n \in closed : Overlaps(n, m, hook[h].at)})]
    <3>1. PICK m \in young :
               /\ m.call = s.call /\ m.closed = 0 /\ m.key = s.key
               /\ hook' = [hook EXCEPT ![h].pc = "read", ![h].mark = m,
                    ![h].overlap = Cardinality({n \in closed : Overlaps(n, m, hook[h].at)})]
      BY Zenon, <2>4
    <3>2. PICK count \in Nat : count = Cardinality({n \in closed : Overlaps(n, m, hook[h].at)})
      BY <2>3
    <3>3. hook' = [hook EXCEPT ![h].pc = "read", ![h].mark = m, ![h].overlap = count]
      BY Zenon, <3>1, <3>2
    <3>4. m.call = s.call /\ m.closed = 0 /\ m.key = s.key
      BY Zenon, <3>1
    <3>5. /\ hook' \in [Hooks -> HookStates] /\ \A g \in Hooks \ {h} : hook'[g] = hook[g]
          /\ hook'[h].call = s.call /\ hook'[h].key = s.key /\ hook'[h].at = s.at
          /\ hook'[h].pc = "read" /\ hook'[h].mark = m /\ hook'[h].overlap = count
      BY Zenon, <2>2, <3>2, <3>3, <3>4
    <3> QED
      BY Zenon, <3>2, <3>4, <3>5
  <2> QED
    BY <1>50, <2>1, <2>4
<1>13. Present'
  <2> SUFFICES ASSUME NEW c \in Calls \ lost', began[c] # None PROVE Witnessed(c)' \/ Passed(c)'
    BY <1>5 DEF Present
  <2>1. CASE Witnessed(c)
    <3>1. PICK m \in marks : m.call = c /\ m.key = began[c] /\ \A n \in MadeBy(c) : made[n].at > m.opened
      BY <2>1 DEF Witnessed
    <3>2. m \in young
      BY <1>9, <3>1
    <3> QED
      BY <1>5, <1>10, <1>11, <3>1, <3>2 DEF Witnessed
  <2>2. CASE Passed(c)
    <3>1. \A g \in Hooks : next[g].pc \in Opening => next[g] = hook[g]
      BY <1>12 DEF Opening
    <3>2. /\ state'[c] = "ended" /\ \A m \in marks' : m.call # c
          /\ \A g \in Hooks : hook'[g].pc \in Opening => hook'[g].call # c
      <4>1. state[c] = "ended" /\ \A m \in young : m.call # c
        BY <1>8, <2>2 DEF Passed
      <4>2. \A m \in marks' : m.call # c
        BY <1>10, <4>1
      <4>3. \A g \in Hooks : next[g].pc \in Opening => next[g].call # c
        BY <2>2, <3>1 DEF Passed
      <4> QED
        BY <1>5, <1>12, <4>1, <4>2, <4>3
    <3>3. ASSUME NEW n \in MadeBy(c)'
          PROVE  /\ \A m \in marks' : m.key = began'[c] /\ m.closed = 0 => m.opened > made'[n].at
                 /\ \A g \in Hooks : hook'[g].pc \in Opening /\ hook'[g].key = began'[c] => hook'[g].at > made'[n].at
      BY <1>5, <1>8, <1>10, <1>11, <1>12, <2>2, <3>1 DEF Passed
    <3> QED
      BY <3>2, <3>3 DEF Passed
  <2> QED
    BY <1>9, <2>1, <2>2 DEF BracketsInv, Present
<1>14. ASSUME next[h].pc = "read"
       PROVE  /\ next[h].mark \in Marks /\ next[h].mark.call = s.call /\ next[h].mark.key = s.key
              /\ next[h].mark.opened <= clock' /\ Bracketed(s.key, next[h].mark, next[h].mark.opened)'
              /\ Whole(next[h].mark)' /\ Reaches(next[h])' /\ Counts(next[h])'
  <2>1. PICK m \in young : /\ m.call = s.call /\ m.closed = 0 /\ m.key = s.key /\ next[h].mark = m
                           /\ next[h].overlap = Cardinality({n \in closed : Overlaps(n, m, hook[h].at)})
    BY <1>12, <1>14
  <2>2. m \in marks /\ m \in Marks /\ m.opened \in Nat
    BY <1>8, <2>1, MarkKnown
  <2>3. m.opened <= clock' /\ Bracketed(s.key, m, m.opened)'
    BY <1>5, <2>1, <2>2, MarkKnown DEF MarkHolds, Bracketed
  <2>6. Whole(m)'
    BY <1>5, <1>7, <1>9, <1>11, <2>1, <2>2, MarkKnown DEF MarkHolds, Whole
  <2>4. Reaches(next[h])'
    <3> SUFFICES ASSUME s.call \notin lost, began[s.call] # None, NEW n \in MadeBy(s.call)
                 PROVE  made[n].at > m.opened
      BY <1>5, <1>7, <1>9, <1>11, <1>12, <2>1 DEF Reaches
    <3>1. Witnessed(s.call)
      BY <1>7, <2>1, <2>2 DEF BracketsInv, Present, Passed
    <3> QED
      BY <2>1, <2>2, <3>1 DEF BracketsInv, Unique, Witnessed
  <2>5. Counts(next[h])'
    <3> SUFFICES ASSUME NEW d \in Calls, Session[s.call] # Session[d], began[d] = s.key, d \notin lost',
                        NEW n \in MadeBy(d), made[n].at <= s.at, made[n].at > m.opened
                 PROVE  next[h].overlap > 0
      BY <1>5, <1>11, <1>12, <2>1 DEF Counts
    <3>1. n \in Numbers /\ made[n].at \in Nat
      <4>1. n \in Numbers /\ made[n] \in Commits
        BY <1>6 DEF MadeBy, Numbers
      <4> QED
        BY <4>1 DEF Commits
    <3>2. Witnessed(d)
      <4>1. ~Passed(d)
        BY <2>1, <2>2, <3>1 DEF Passed
      <4>2. began[d] # None
        BY <1>7, BracketsAssumption
      <4> QED
        BY <1>9, <4>1, <4>2 DEF BracketsInv, Present
    <3>3. PICK o \in marks : o.call = d /\ o.key = s.key /\ made[n].at > o.opened
      BY <3>2 DEF Witnessed
    <3>4. o \in young /\ o.call # s.call
      BY <1>9, <3>3
    <3>5. o \in closed
      BY <1>4, <3>4
    <3>6. o.opened \in Nat /\ o.closed \in Nat /\ MarkHolds(o) /\ o.call \notin lost
      BY <1>9, <3>3, MarkKnown
    <3>7. o.closed = 0 \/ o.closed >= m.opened
      BY <2>2, <3>1, <3>3, <3>6 DEF MarkHolds
    <3>8. Overlaps(o, m, hook[h].at)
      BY <1>1, <1>7, <2>1, <3>1, <3>3, <3>6, <3>7 DEF Overlaps
    <3> DEFINE over == {q \in closed : Overlaps(q, m, hook[h].at)}
    <3>9. IsFiniteSet(over) /\ o \in over
      BY <1>5, <1>10, <3>5, <3>8, FS_Subset
    <3>10. Cardinality(over) \in Nat /\ Cardinality(over) # 0
      BY <3>9, FS_CardinalityType, FS_EmptySet
    <3> QED
      BY <2>1, <3>10
  <2> QED
    BY <2>1, <2>2, <2>3, <2>4, <2>5, <2>6
<1>15. Fits(next[h])'
  <2>1. Carries(next[h])
    BY <1>7, <1>12, <1>14 DEF Carries
  <2>2. next[h].at <= clock' /\ next[h].pc \notin Opening
    BY <1>5, <1>7, <1>12 DEF Opening
  <2>3. state'[next[h].call] = "ended" /\ \A n \in MadeBy(next[h].call)' : made'[n].at < next[h].at
    BY <1>5, <1>7, <1>11, <1>12
  <2> QED
    BY <1>12, <1>14, <2>1, <2>2, <2>3 DEF Fits
<1>16. \A g \in Hooks : next[g] = hook[g] \/ Fits(next[g])'
  BY <1>12, <1>15
<1>17. clock' \in Nat /\ clock' >= clock /\ fired' \in Nat
  BY <1>5, <1>6
<1> QED
  BY <1>5, <1>9, <1>10, <1>12, <1>13, <1>16, <1>17, MarksChange

\* The cap drops no mark that is needed, unless there are more than it keeps.
LEMMA NeededKept ==
  ASSUME NEW all \in SUBSET Marks, IsFiniteSet(all), ~Crowded(all), NEW m \in all, Needed(m, all)
  PROVE  m \in Kept(all)
<1> DEFINE needed == {n \in all : Needed(n, all)}
           ahead  == {n \in all : Before(n, m, all)}
<1>1. IsFiniteSet(needed) /\ m \in needed /\ Cardinality(needed) \in Nat
  BY FS_Subset, FS_CardinalityType
<1>2. IsFiniteSet(needed \ {m}) /\ Cardinality(needed \ {m}) = Cardinality(needed) - 1
  BY <1>1, FS_RemoveElement
<1>3. Cardinality(needed) <= MaxMarks
  BY <1>1, BracketsAssumption DEF Crowded
<1>4. ASSUME NEW n \in ahead PROVE n \in needed \ {m}
  <2>1. n \in all /\ Before(n, m, all)
    OBVIOUS
  <2>2. Needed(n, all) \in BOOLEAN /\ Needed(m, all) \in BOOLEAN
    BY DEF Needed
  <2>3. Needed(n, all)
    BY <2>1, <2>2 DEF Before
  <2>4. n # m
    <3>1. CASE n = m
      <4>1. m.opened > m.opened
        BY <2>1, <3>1 DEF Before
      <4>2. m.opened \in Nat
        BY DEF Marks
      <4> QED
        BY <4>1, <4>2
    <3> QED
      BY <3>1
  <2> QED
    BY <2>1, <2>3, <2>4
<1>5. ahead \subseteq needed \ {m}
  BY <1>4
<1> HIDE DEF ahead, needed
<1>6. Cardinality(ahead) <= Cardinality(needed \ {m}) /\ Cardinality(ahead) \in Nat
  BY <1>2, <1>5, FS_Subset, FS_CardinalityType
<1>7. Cardinality(ahead) < MaxMarks
  BY <1>1, <1>2, <1>3, <1>6, BracketsAssumption
<1> QED
  BY <1>7 DEF Kept, ahead

LEMMA OpenInv ==
  ASSUME BracketsInv, NEW h \in Hooks, Open(h)
  PROVE  BracketsInv'
<1>1. PICK s : s = hook[h]
  OBVIOUS
<1>2. PICK young : young = {m \in marks : Young(m, hook[h].at)}
  OBVIOUS
<1>3. PICK new : new = [call |-> hook[h].call, key |-> hook[h].key,
                        offset |-> hook[h].mark.offset, ino |-> hook[h].mark.ino,
                        opened |-> hook[h].at, closed |-> 0]
  OBVIOUS
<1>4. PICK all : all = Inserted(young, new)
  OBVIOUS
<1>5. PICK dropped : dropped = {n \in all \ Kept(all) : Expected(n, h)}
  OBVIOUS
<1>6. /\ UNCHANGED <<reflog, inodes, rewrites, made, rows, state, began, clock, fired>>
      /\ s.pc = "open" /\ marks' = Kept(all) /\ hook' = [hook EXCEPT ![h] = Idle]
      /\ lost' = lost \cup {m.call : m \in (marks \ young)}
                      \cup (IF Crowded(all) THEN {m.call : m \in all} ELSE {})
                      \cup {m.call : m \in dropped}
  <2>1. /\ UNCHANGED <<rows, disk, state, clock, fired, made, began>> /\ hook[h].pc = "open"
        /\ marks' = Kept(all) /\ hook' = [hook EXCEPT ![h] = Idle]
        /\ lost' = lost \cup {m.call : m \in (marks \ young)}
                        \cup (IF Crowded(all) THEN {m.call : m \in all} ELSE {})
                        \cup {m.call : m \in dropped}
    BY Zenon, <1>2, <1>3, <1>4, <1>5 DEF Open, At, Leave
  <2> QED
    BY <1>1, <2>1 DEF disk
<1>7. /\ hook \in [Hooks -> HookStates] /\ clock \in Nat /\ fired \in Nat /\ lost \subseteq Calls
      /\ marks \subseteq Marks /\ IsFiniteSet(marks) /\ Unique /\ s \in HookStates /\ made \in Seq(Commits)
  BY <1>1 DEF BracketsInv, Typed
<1>8. /\ s.call \in Calls /\ s.key \in Checkouts /\ s.at \in Nat /\ s.at > 0 /\ s.at <= clock /\ s.mark \in Places
      /\ Bracketed(s.key, s.mark, s.at)
  BY <1>1, <1>6, <1>7 DEF BracketsInv, Carries, Timely, AllBracketed, HookStates
<1>9. /\ new \in Marks /\ new.call = s.call /\ new.key = s.key /\ new.opened = s.at /\ new.closed = 0
      /\ new.offset = s.mark.offset /\ new.ino = s.mark.ino
  BY <1>1, <1>3, <1>8 DEF Marks, Places
<1>10. /\ young \subseteq marks /\ young \subseteq all /\ all \subseteq young \cup {new}
       /\ \A m \in young : m.call = new.call => new \notin all \/ new \in young
  BY <1>2, <1>4 DEF Inserted
<1>11. all \subseteq Marks /\ IsFiniteSet(all) /\ Kept(all) \subseteq all
  <2>1. IsFiniteSet(young \cup {new})
    BY <1>7, <1>10, FS_Subset, FS_AddElement
  <2> QED
    BY <1>7, <1>9, <1>10, <2>1, FS_Subset DEF Kept
<1>12. \A m, n \in all : m.call = n.call => m = n
  BY <1>7, <1>10 DEF Unique
<1>13. /\ lost \subseteq lost' /\ lost' \subseteq Calls /\ \A m \in marks \ young : m.call \in lost'
       /\ (Crowded(all) => \A m \in all : m.call \in lost')
       /\ \A m \in all \ Kept(all) : Expected(m, h) => m.call \in lost'
  <2>1. \A m \in all : m.call \in Calls
    BY <1>11 DEF Marks
  <2>2. \A m \in marks : m.call \in Calls
    BY <1>7 DEF Marks
  <2>3. dropped \subseteq all
    BY <1>5
  <2>4. {m.call : m \in marks \ young} \subseteq Calls /\ {m.call : m \in all} \subseteq Calls
        /\ {m.call : m \in dropped} \subseteq Calls
    BY <2>1, <2>2, <2>3
  <2> QED
    BY <1>5, <1>6, <1>7, <2>4
<1>14. marks' \subseteq Marks /\ IsFiniteSet(marks')
  BY <1>6, <1>11, FS_Subset
<1>15. Unique'
  BY <1>6, <1>11, <1>12 DEF Unique
<1>16. \A c \in Calls : MadeBy(c)' = MadeBy(c)
  BY <1>6, Still
<1>17. new \in marks' => new \in young \/ Whole(new)'
  <2> SUFFICES ASSUME new \in marks', new \notin young, s.call \notin lost', began[s.call] # None
               PROVE  FALSE
    BY <1>6, <1>9 DEF Whole
  <2>1. \A m \in marks : m.call # s.call
    BY <1>6, <1>9, <1>10, <1>11, <1>13
  <2>2. ~Witnessed(s.call) /\ ~Passed(s.call)
    BY <1>1, <1>6, <2>1 DEF Witnessed, Passed, Opening
  <2> QED
    BY <1>8, <1>13, <2>2 DEF BracketsInv, Present
<1>18. ASSUME NEW m \in marks' PROVE MarkHolds(m)'
  <2>1. CASE m \in young
    BY <1>6, <1>7, <1>10, <1>13, <2>1, MarkStays
  <2>2. CASE m = new /\ m \notin young
    <3>1. Bracketed(s.key, new, s.at)
      BY <1>8, <1>9 DEF Bracketed, Sound
    <3>2. m.opened <= clock' /\ m.closed <= clock' /\ m.closed = 0
      BY <1>6, <1>7, <1>8, <1>9, <2>2
    <3>3. Whole(new)'
      BY <1>17, <2>2
    <3> QED
      BY <1>6, <1>9, <2>2, <3>1, <3>2, <3>3 DEF MarkHolds, Bracketed
  <2> QED
    BY <1>6, <1>10, <1>11, <2>1, <2>2
<1>19. PICK next : next = hook'
  OBVIOUS
<1>20. /\ next \in [Hooks -> HookStates] /\ hook' = next /\ next[h] = Idle
       /\ \A g \in Hooks \ {h} : next[g] = hook[g]
  BY <1>6, <1>7, <1>19, IdleFits
<1>21. \A g \in Hooks : next[g] = hook[g] \/ Fits(next[g])'
  <2>1. Fits(Idle)'
    BY <1>6, IdleFits DEF Fits, Opening
  <2> QED
    BY <1>20, <2>1
<1>22. ASSUME NEW c \in Calls \ lost', began[c] # None PROVE Witnessed(c)' \/ Passed(c)'
  <2>1. ASSUME NEW m \in marks, m.call = c, m.key = began[c],
               \A n \in MadeBy(c) : made[n].at > m.opened, m \notin Kept(all)
        PROVE  Passed(c)'
    <3>1. m \in young /\ m \in all /\ m.opened \in Nat /\ m.closed \in Nat /\ MarkHolds(m)
      BY <1>10, <1>13, <2>1, MarkKnown
    <3>2. ~Needed(m, all) /\ ~Expected(m, h)
      BY <1>11, <1>13, <2>1, <3>1, NeededKept
    <3>3. m.closed # 0 /\ \A o \in all : ~Meets(o, m)
      BY <3>2 DEF Needed
    <3>4. state[c] = "ended" /\ \A n \in MadeBy(c) : made[n].at < m.closed
      BY <1>13, <2>1, <3>1, <3>3 DEF MarkHolds
    <3>5. \A q \in marks' : q.call # c
      BY <1>6, <1>11, <1>12, <2>1, <3>1
    <3>6. ASSUME NEW g \in Hooks, next[g].pc \in Opening
          PROVE  /\ g \in Hooks \ {h} /\ next[g] = hook[g] /\ hook[g].call # c /\ hook[g].at \in Nat
                 /\ hook[g].key = m.key => hook[g].at > m.closed
      <4>1. g \in Hooks \ {h} /\ next[g] = hook[g] /\ hook[g].at \in Nat
        BY <1>7, <1>20, <3>6 DEF Idle, HookStates, Opening
      <4>2. ~(hook[g].call = m.call \/ (hook[g].key = m.key /\ hook[g].at <= m.closed))
        BY <3>2, <3>6, <4>1 DEF Expected, Opening
      <4> QED
        BY <2>1, <3>1, <4>1, <4>2
    <3>7. ASSUME NEW n \in MadeBy(c) PROVE made[n].at \in Nat /\ made[n].at < m.closed
      <4>1. made[n] \in Commits
        BY <1>7 DEF MadeBy, Numbers
      <4> QED
        BY <3>4, <4>1 DEF Commits
    <3>8. ASSUME NEW q \in marks', q.key = m.key, q.closed = 0 PROVE q.opened \in Nat /\ q.opened > m.closed
      <4>1. q \in all /\ q \in Marks
        BY <1>6, <1>11
      <4>2. ~(q.opened <= m.closed)
        BY <3>3, <3>8, <4>1 DEF Meets
      <4> QED
        BY <3>1, <4>1, <4>2 DEF Marks
    <3>9. \A g \in Hooks : next[g].pc \in Opening => next[g].call # c
      BY <3>6
    <3>10. ASSUME NEW n \in MadeBy(c)
           PROVE  /\ \A q \in marks' : q.key = began[c] /\ q.closed = 0 => q.opened > made[n].at
                  /\ \A g \in Hooks : next[g].pc \in Opening /\ next[g].key = began[c] => next[g].at > made[n].at
      <4>1. ASSUME NEW q \in marks', q.key = began[c], q.closed = 0 PROVE q.opened > made[n].at
        BY <2>1, <3>1, <3>7, <3>8, <4>1
      <4>2. ASSUME NEW g \in Hooks, next[g].pc \in Opening, next[g].key = began[c] PROVE next[g].at > made[n].at
        BY <2>1, <3>1, <3>6, <3>7, <4>2
      <4> QED
        BY <4>1, <4>2
    <3> QED
      BY <1>6, <1>16, <1>20, <3>4, <3>5, <3>9, <3>10 DEF Passed
  <2>2. CASE Witnessed(c)
    <3>1. PICK m \in marks : m.call = c /\ m.key = began[c] /\ \A n \in MadeBy(c) : made[n].at > m.opened
      BY <2>2 DEF Witnessed
    <3>2. CASE m \in Kept(all)
      BY <1>6, <1>16, <3>1, <3>2 DEF Witnessed
    <3> QED
      BY <2>1, <3>1, <3>2
  <2>3. CASE Passed(c)
    <3>1. /\ state[c] = "ended" /\ s.call # c /\ \A m \in marks : m.call # c
      BY <1>1, <1>6, <2>3 DEF Passed, Opening
    <3>2. \A m \in marks' : m.call # c
      BY <1>6, <1>9, <1>10, <1>11, <3>1
    <3>3. \A g \in Hooks : next[g].pc \in Opening => next[g] = hook[g]
      BY <1>20, IdleFits DEF Opening
    <3>4. \A g \in Hooks : next[g].pc \in Opening => next[g].call # c
      BY <2>3, <3>3 DEF Passed
    <3>5. ASSUME NEW n \in MadeBy(c)
          PROVE  /\ \A m \in marks' : m.key = began[c] /\ m.closed = 0 => m.opened > made[n].at
                 /\ \A g \in Hooks : next[g].pc \in Opening /\ next[g].key = began[c] => next[g].at > made[n].at
      <4>1. ASSUME NEW m \in marks', m.key = began[c], m.closed = 0 PROVE m.opened > made[n].at
        <5>1. CASE m = new
          BY <1>1, <1>6, <1>9, <2>3, <4>1, <5>1 DEF Passed, Opening
        <5>2. CASE m \in marks
          BY <2>3, <4>1, <5>2 DEF Passed
        <5> QED
          BY <1>6, <1>10, <1>11, <5>1, <5>2
      <4> QED
        BY <2>3, <3>3, <4>1 DEF Passed
    <3> QED
      BY <1>6, <1>16, <1>20, <3>1, <3>2, <3>4, <3>5 DEF Passed
  <2>4. c \in Calls \ lost
    BY <1>13, <1>22
  <2>5. Witnessed(c) \/ Passed(c)
    BY <1>22, <2>4 DEF BracketsInv, Present
  <2> QED
    BY <2>2, <2>3, <2>5
<1>23. Present'
  BY <1>6, <1>22 DEF Present
<1>24. clock' \in Nat /\ clock' >= clock /\ fired' \in Nat
  BY <1>6, <1>7
<1> QED
  BY <1>6, <1>13, <1>14, <1>15, <1>18, <1>20, <1>21, <1>23, <1>24, MarksChange

-----------------------------------------------------------------------------
(* The theorems.                                                           *)

LEMMA BracketsInvStep == BracketsInv /\ [Next]_vars => BracketsInv'
<1> SUFFICES ASSUME BracketsInv, [Next]_vars PROVE BracketsInv'
  OBVIOUS
<1>1. CASE UNCHANGED vars
  <2>1. UNCHANGED <<reflog, marks, hook, rows, state, clock, inodes, rewrites, fired, made, lost, began>>
    BY <1>1 DEF vars, tables, disk, history
  <2>2. Typed' /\ Unique' /\ (\A h \in Hooks : Carries(hook'[h])) /\ Timely' /\ Logs'
    BY <2>1 DEF BracketsInv, Typed, Unique, Timely, Logs, Numbers
  <2>3. AllBracketed' /\ AllWhole' /\ Order' /\ Present'
    BY <2>1 DEF BracketsInv, AllBracketed, Bracketed, AllWhole, Whole, Order, Present, Witnessed, Passed, MadeBy, Numbers
  <2>4. Reading'
    BY <2>1 DEF BracketsInv, Reading, Reaches, Counts, MadeBy, Numbers
  <2> QED
    BY <2>1, <2>2, <2>3, <2>4, RowsStill DEF BracketsInv
<1>2. CASE Next
  <2>1. ASSUME NEW who \in Calls \cup {None}, NEW k \in Checkouts, Commit(who, k) PROVE BracketsInv'
    BY <2>1, CommitInv
  <2>2. ASSUME NEW k \in Checkouts, Rewrite(k) PROVE BracketsInv'
    BY <2>2, RewriteInv
  <2>3. ASSUME NEW c \in Calls, Run(c) PROVE BracketsInv'
    BY <2>3, RunInv
  <2>4. ASSUME NEW c \in Calls, EndTurn(Session[c]) PROVE BracketsInv'
    BY <2>4, EndTurnInv
  <2>5. ASSUME NEW h \in Hooks, NEW c \in Calls, NEW k \in Checkouts, PreToolUse(h, c, k) PROVE BracketsInv'
    BY <2>5, PreToolUseInv
  <2>6. ASSUME NEW h \in Hooks, NEW c \in Calls, NEW k \in Checkouts, PostToolUse(h, c, k) PROVE BracketsInv'
    BY <2>6, PostToolUseInv
  <2>7. ASSUME NEW h \in Hooks, HookStep(h) PROVE BracketsInv'
    BY <2>7, ReadMarkInv, OpenInv, CloseInv, CollectInv, HookGoneInv DEF HookStep
  <2> QED
    BY <1>2, <2>1, <2>2, <2>3, <2>4, <2>5, <2>6, <2>7 DEF Next
<1> QED
  BY <1>1, <1>2

\* The inductive invariant of the tool-call brackets, which the theorems
\* below read their results from.
THEOREM BracketsInvariant == Spec => []BracketsInv
<1>1. Init => BracketsInv
  BY BracketsInitInv
<1>2. BracketsInv /\ [Next]_vars => BracketsInv'
  BY BracketsInvStep
<1> QED
  BY <1>1, <1>2, PTL DEF Spec

\* Every table, log and hook has its type, and bracket_marks its primary key.
THEOREM BracketsTypeCorrect == Spec => []TypeOK
<1>1. BracketsInv => TypeOK
  <2> SUFFICES ASSUME BracketsInv PROVE TypeOK
    OBVIOUS
  <2>1. ASSUME NEW k \in Checkouts PROVE reflog[k].ino \in Nat /\ ToSet(reflog[k].list) \subseteq Numbers
    <3>1. reflog[k].ino \in Nat /\ reflog[k].list \in Seq(Nat)
      BY DEF BracketsInv, Typed
    <3> QED
      BY <3>1, BehindAll DEF BracketsInv, Logs
  <2>2. ASSUME NEW h \in Hooks
        PROVE  /\ hook[h].pc \in {"idle", "mark", "open", "close", "read", "collect"}
               /\ hook[h].call \in Calls \cup {None} /\ hook[h].key \in Checkouts \cup {None}
               /\ {hook[h].at, hook[h].overlap} \subseteq Nat
    <3>1. hook[h] \in HookStates
      BY DEF BracketsInv, Typed
    <3> QED
      BY <3>1 DEF HookStates
  <2> QED
    BY <2>1, <2>2 DEF TypeOK, BracketsInv, Typed, Unique, RowsNumbered
<1> QED
  BY <1>1, BracketsInvariant, PTL

\* A row that claims to say which commits its call made has all of those it
\* made on that checkout (claude.rs, bracket; store.rs, close_bracket).
THEOREM BracketsOwnCommits == Spec => []OwnCommitsLinked
<1>1. BracketsInv => OwnCommitsLinked
  BY DEF BracketsInv
<1> QED
  BY <1>1, BracketsInvariant, PTL

\* No row links a commit older than its call's first mark, or of another
\* checkout (reflog.rs, appended).
THEOREM BracketsNothingOlder == Spec => []NothingOlderLinked
<1>1. BracketsInv => NothingOlderLinked
  BY DEF BracketsInv
<1> QED
  BY <1>1, BracketsInvariant, PTL

\* A commit of another session's call is linked only with the overlap counted
\* (store.rs, close_bracket and cap_marks).
THEOREM BracketsForeignCounted == Spec => []ForeignCommitsCounted
<1>1. BracketsInv => ForeignCommitsCounted
  BY DEF BracketsInv
<1> QED
  BY <1>1, BracketsInvariant, PTL
=============================================================================
