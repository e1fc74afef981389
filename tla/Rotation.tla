------------------------------ MODULE Rotation ------------------------------
(***************************************************************************)
(* The order in which a sync run visits the rows of the outbox.  Every row *)
(* has a sequence number; the cursor is the number of the row attempted    *)
(* last.  A batch takes rows after the cursor in ascending order, then     *)
(* wraps round to the rows at or before it.                                *)
(***************************************************************************)
EXTENDS Integers, FiniteSets

Ahead(rows, cursor)  == {r \in rows : r.seq > cursor}
Behind(rows, cursor) == {r \in rows : r.seq <= cursor}

\* ... ORDER BY seq LIMIT n
Lowest(rows, n) ==
  {r \in rows : Cardinality({q \in rows : q.seq < r.seq}) < n}

\* The second half of a batch that already holds the rows of `ahead'.
Wrapped(rows, cursor, n, ahead) ==
  Lowest(Behind(rows, cursor), n - Cardinality(ahead))

Batch(rows, cursor, n) ==
  LET ahead == Lowest(Ahead(rows, cursor), n)
  IN  ahead \cup Wrapped(rows, cursor, n, ahead)

(***************************************************************************)
(* The row of a batch that is visited next.  The code walks a list; as the *)
(* cursor follows each visit, the next element of that list is the least   *)
(* remaining row after the cursor, or the least of all once none is.       *)
(***************************************************************************)
IsNext(r, todo, cursor) ==
  LET ahead == Ahead(todo, cursor)
  IN  r \in Lowest(IF ahead # {} THEN ahead ELSE todo, 1)
=============================================================================
