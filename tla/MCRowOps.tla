------------------------------ MODULE MCRowOps ------------------------------
(* RowOps for TLC: two rows, the second referring to the first through a
   deferred foreign key, and arrays of at most two elements. *)
EXTENDS RowOps, TLC

CONSTANTS r1, r2

Insert(r) == [kind |-> "insert", del |-> {}, add |-> {r}]

MCRows == {r1, r2}
MCWrites ==
  {Insert(r1), Insert(r2),
   [kind |-> "update", del |-> {r1}, add |-> {r2}],
   [kind |-> "delete", del |-> {r1}, add |-> {}]}
MCUpdates == {s \in MCWrites : s.kind = "update"} \union {Unbindable}
MCDeferredFk == {<<r2, r1>>}

MCRowArrays ==
  {<<Insert(r1), Insert(r2)>>,
   <<Insert(r1), NotDictionary>>,
   <<Insert(r1), Unbindable>>}

(* By query() callers delete, in a transaction of their own or in none. *)
MCQueries ==
  {BeginStmt, EndStmt, RollbackStmt, SelectStmt}
    \union {s \in MCWrites : s.kind = "delete"}

(* For liveness: one row that refers to nothing, one array, and the queries
   that leave a transaction or a lock behind. *)
OneRow == {r1}
OneWrite == {Insert(r1), [kind |-> "delete", del |-> {r1}, add |-> {}]}
NoFk == {}
OneArray == {<<Insert(r1), Malformed>>}
OneUpdate == OneWrite \ {Insert(r1)}
LeavingQueries == {BeginStmt, SelectStmt}

(* For the transaction that insert_rows() leaves open: its first element
   fails if the row is there, its second one always, and nothing but a reader
   can refuse its END. *)
OneInsert == {Insert(r1)}
NoUpdate == {}
FailingArray == {<<Insert(r1), Malformed>>}

ConnSymmetry == Permutations(Conns)
=============================================================================
