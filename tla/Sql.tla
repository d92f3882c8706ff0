-------------------------------- MODULE Sql --------------------------------
(***************************************************************************)
(* The SQL statements the wrapper and its callers send to SQLite, and what *)
(* each does to the content of the one table the other modules follow.    *)
(*                                                                         *)
(* A row is a member of Rows: it stands for its key and its values at      *)
(* once, so inserting a row that is present is the UNIQUE or PRIMARY KEY   *)
(* conflict.  A statement is a record: its kind, the rows its WHERE clause *)
(* can match (del) and the rows it writes (add).                           *)
(***************************************************************************)
EXTENDS Integers, Sequences

CONSTANTS Rows,        \* the rows the table may hold
          Writes,      \* the INSERT, UPDATE and DELETE statements in use
          DeferredFk   \* pairs <<child, parent>>: a DEFERRABLE INITIALLY
                       \* DEFERRED foreign key from row child to row parent

(* A statement of Writes deletes what it matches and adds what it writes;
   only an UPDATE does both, and an INSERT matches nothing. *)
ASSUME WritesAssumption ==
  /\ Writes \subseteq [kind : {"insert", "update", "delete"},
                       del : SUBSET Rows, add : SUBSET Rows]
  /\ \A s \in Writes : s.kind = "insert" => s.del = {}

ASSUME DeferredFkAssumption == DeferredFk \subseteq Rows \X Rows

Plain(kind) == [kind |-> kind, del |-> {}, add |-> {}]

BeginStmt    == Plain("begin")       \* BEGIN TRANSACTION;
EndStmt      == Plain("end")         \* END TRANSACTION;
RollbackStmt == Plain("rollback")    \* ROLLBACK;
SelectStmt   == Plain("select")      \* SELECT * FROM the table;
Malformed    == Plain("malformed")   \* names a column the table has not
Unbindable   == Plain("unbindable")  \* has a parameter with no value, or with
                                     \* one of a type that cannot be bound

Statements ==
  Writes \union {BeginStmt, EndStmt, RollbackStmt, SelectStmt, Malformed, Unbindable}

(* An UPDATE that matches no row writes nothing. *)
Matches(content, s) == s.kind # "update" \/ content \intersect s.del # {}

(* A UNIQUE constraint fails on a row that is written while it is there. *)
Conflicts(content, s) ==
  Matches(content, s) /\ (content \ s.del) \intersect s.add # {}

(* The table's content after a statement that does not conflict. *)
Effect(content, s) ==
  IF Matches(content, s) THEN (content \ s.del) \union s.add ELSE content

(* A deferred foreign key is checked at commit, over the whole content. *)
Orphaned(content) ==
  \E fk \in DeferredFk : fk[1] \in content /\ fk[2] \notin content
=============================================================================
