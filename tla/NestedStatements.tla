-------------------------- MODULE NestedStatements --------------------------
(***************************************************************************)
(* One object whose user functions call it again while a statement of its  *)
(* own is in progress: they query, insert rows, and begin and end          *)
(* transactions.  SQLite has one transaction for a connection, whatever    *)
(* the number of its statements: which of them commits, and what a failure *)
(* undoes, depends on all that are in progress.                            *)
(*                                                                         *)
(* A statement writes rows; that a row is present already is the UNIQUE    *)
(* conflict.  A statement of several rows has a statement journal          *)
(* (usesStmtJournal), one of a single row has none.                        *)
(***************************************************************************)
EXTENDS Naturals, FiniteSets, SequencesExt

CONSTANTS Rows,      \* the rows the table may hold
          MaxDepth,  \* bound on the calls in progress
          MaxRows,   \* bound on the rows of a call
          IoFaults   \* may a write of the journal or of the file fail?

ASSUME RowsAssumption == IsFiniteSet(Rows)
ASSUME BoundsAssumption == MaxDepth \in Nat /\ MaxRows \in Nat
ASSUME IoFaultsAssumption == IoFaults \in BOOLEAN

VARIABLES
  file,        \* the rows in the database file
  content,     \* the rows as the connection sees them
  autocommit,  \* sqlite3.autoCommit
  nStatement,  \* sqlite3.nStatement: the open statement transactions
  savepoints,  \* Pager.aSavepoint: what each was opened on
  stack,       \* the calls in progress, the innermost last
  rc,          \* the result of the last statement
  crossed      \* did a transaction begin or end under a write? (history)

vars == <<file, content, autocommit, nStatement, savepoints, stack, rc, crossed>>

(* A call: a SELECT, a write, or insert_rows() between two of its queries.
   "todo" are the rows it has still to write, "own" those it has written
   (history), "begun" whether its BEGIN succeeded (history). *)
Calls == [kind : {"select", "write", "insert_rows"}, todo : SUBSET Rows,
          own : SUBSET Rows, iStatement : 0 .. MaxDepth,
          tripped : BOOLEAN, begun : BOOLEAN]

Call(kind, todo) == [kind |-> kind, todo |-> todo, own |-> {},
                     iStatement |-> 0, tripped |-> FALSE, begun |-> FALSE]

(* sqlite3.nVdbeWrite and sqlite3.nVdbeRead *)
Writing(calls)  == {i \in DOMAIN calls : calls[i].kind = "write"}
Reading(calls)  == {i \in DOMAIN calls : calls[i].kind # "insert_rows"}

Top        == Last(stack)
Return     == Front(stack)
SetTop(c)  == [stack EXCEPT ![Len(stack)] = c]
Runs(kind) == stack # <<>> /\ Top.kind = kind

(* Of types, and: outside a transaction and a call there is no savepoint. *)
TypeOK ==
  /\ file \subseteq Rows /\ content \subseteq Rows
  /\ autocommit \in BOOLEAN /\ crossed \in BOOLEAN
  /\ nStatement \in 0 .. MaxDepth
  /\ savepoints \in Seq(SUBSET Rows) /\ Len(savepoints) <= MaxDepth
  /\ stack \in Seq(Calls) /\ Len(stack) <= MaxDepth
  /\ rc \in {"ok", "error", "abort", "ioerr"}
  /\ autocommit /\ stack = <<>> => savepoints = <<>> /\ nStatement = 0

Init ==
  /\ file \in SUBSET Rows /\ content = file
  /\ autocommit = TRUE /\ nStatement = 0 /\ savepoints = <<>>
  /\ stack = <<>> /\ rc = "ok" /\ crossed = FALSE

(* A user function runs before a row is written, or for a row of a SELECT;
   outside of any statement it is the caller who calls. *)
CanCall == stack = <<>> \/ Runs("select") \/ (Runs("write") /\ Top.todo # {})
CanPush == CanCall /\ Len(stack) < MaxDepth

(* History: kept until the transaction and the calls are over. *)
Cross(happens) ==
  crossed' = /\ crossed \/ (happens /\ Writing(stack) # {})
             /\ stack' # <<>> \/ ~autocommit'

-----------------------------------------------------------------------------
(* Transaction control: OP_AutoCommit, one step each. *)

Savepoints(n, list) == nStatement' = n /\ savepoints' = list

(* sqlite3RollbackAll(SQLITE_ABORT_ROLLBACK): the write cursors are tripped. *)
Tripped(calls) ==
  [i \in DOMAIN calls |-> [calls[i] EXCEPT !.tripped = @ \/ calls[i].kind = "write"]]

RollbackAll ==
  /\ content' = file /\ UNCHANGED file
  /\ autocommit' = TRUE
  /\ Savepoints(0, <<>>)

(* The statement transactions are forgotten (sqlite3CloseSavepoints()), the
   savepoints of the pager are not. *)
BeginTransaction ==
  /\ autocommit' = FALSE
  /\ Savepoints(IF autocommit THEN 0 ELSE nStatement, savepoints)
  /\ UNCHANGED <<file, content>>

Begin ==
  /\ CanCall
  /\ BeginTransaction
  /\ rc' = IF autocommit THEN "ok" ELSE "error"
  /\ UNCHANGED stack
  /\ Cross(autocommit)

(* Mutant: the statements in progress are not counted. *)
EndIsNotRefused == autocommit

(* "cannot commit transaction - SQL statements in progress" *)
EndRefused == autocommit \/ Writing(stack) # {}

CommitAll ==
  /\ file' = content /\ UNCHANGED content
  /\ autocommit' = TRUE
  /\ Savepoints(0, <<>>)

EndTransaction ==
  \/ EndRefused /\ UNCHANGED <<file, content, autocommit, nStatement, savepoints>>
  \/ ~EndRefused /\ CommitAll
  \/ ~EndRefused /\ IoFaults /\ RollbackAll

End ==
  /\ CanCall
  /\ EndTransaction
  /\ rc' = IF autocommit = autocommit' THEN "error"
           ELSE IF file' = content THEN "ok" ELSE "ioerr"
  /\ UNCHANGED stack
  /\ Cross(autocommit # autocommit')

Rollback ==
  /\ CanCall /\ ~autocommit
  /\ RollbackAll
  /\ stack' = Tripped(stack)
  /\ rc' = "ok"
  /\ Cross(TRUE)

-----------------------------------------------------------------------------
(* insert_rows(), whose BEGIN and END are not looked at. *)

InsertRows(rows) ==
  /\ CanPush /\ Len(stack) + 1 < MaxDepth
  /\ BeginTransaction
  /\ stack' = Append(stack, [Call("insert_rows", rows) EXCEPT !.begun = autocommit])
  /\ rc' = "ok"
  /\ Cross(autocommit)

(* Mutant: a failed row ends the call at once. *)
InsertRowsReturnsAtOnce ==
  /\ Runs("insert_rows")
  /\ \/ rc # "ok" /\ UNCHANGED <<file, content, autocommit, nStatement, savepoints>>
     \/ rc = "ok" /\ Top.todo = {} /\ EndTransaction
  /\ stack' = Return
  /\ UNCHANGED rc
  /\ Cross(autocommit # autocommit')

InsertRowsEnds ==
  /\ Runs("insert_rows")
  /\ Top.todo = {} \/ rc # "ok"
  /\ EndTransaction
  /\ stack' = Return
  /\ UNCHANGED rc
  /\ Cross(autocommit # autocommit')

-----------------------------------------------------------------------------
(* Statements. *)

Select ==
  /\ CanPush
  /\ stack' = Append(stack, Call("select", {}))
  /\ UNCHANGED <<file, content, autocommit, nStatement, savepoints, rc, crossed>>

(* OP_Transaction: is a statement transaction opened? *)
Journals(rows) ==
  Cardinality(rows) > 1 /\ (~autocommit \/ Reading(stack) # {})

(* sqlite3BtreeBeginStmt(): the savepoint may be there already. *)
OpenStatement(calls, rows) ==
  IF Journals(rows)
  THEN LET i == nStatement + 1
       IN  /\ stack' = Append(calls, [Call("write", rows) EXCEPT !.iStatement = i])
           /\ nStatement' = i
           /\ savepoints' = IF i > Len(savepoints)
                            THEN savepoints \o [j \in 1 .. i - Len(savepoints) |-> content]
                            ELSE savepoints
  ELSE stack' = Append(calls, Call("write", rows)) /\ UNCHANGED <<nStatement, savepoints>>

Write(rows) ==
  /\ CanPush
  /\ OpenStatement(stack, rows)
  /\ UNCHANGED <<file, content, autocommit, rc, crossed>>

(* insert_row(), as insert_rows() calls it. *)
InsertRow(row) ==
  /\ Runs("insert_rows") /\ rc = "ok" /\ Len(stack) < MaxDepth
  /\ row \in Top.todo
  /\ OpenStatement(SetTop([Top EXCEPT !.todo = @ \ {row}]), {row})
  /\ UNCHANGED <<file, content, autocommit, rc, crossed>>

WriteRow(row) ==
  /\ Runs("write") /\ row \in Top.todo /\ ~Top.tripped /\ row \notin content
  /\ content' = content \union {row}
  /\ stack' = SetTop([Top EXCEPT !.todo = @ \ {row}, !.own = @ \union {row}])
  /\ UNCHANGED <<file, autocommit, nStatement, savepoints, rc, crossed>>

(* The WHERE clause, which calls the function, does not hold for the row. *)
SkipRow(row) ==
  /\ Runs("write") /\ row \in Top.todo
  /\ stack' = SetTop([Top EXCEPT !.todo = @ \ {row}])
  /\ UNCHANGED <<file, content, autocommit, nStatement, savepoints, rc, crossed>>

-----------------------------------------------------------------------------
(* sqlite3VdbeHalt() of the innermost statement. *)

(* sqlite3VdbeCloseStatement(): the savepoints from its own on are released,
   after the content has gone back to it. *)
HasStatement == nStatement > 0 /\ Top.iStatement > 0

CloseStatement(restores) ==
  /\ IF HasStatement /\ Top.iStatement <= Len(savepoints)
     THEN /\ content' = IF restores THEN savepoints[Top.iStatement] ELSE content
          /\ savepoints' = SubSeq(savepoints, 1, Top.iStatement - 1)
     ELSE UNCHANGED <<content, savepoints>>
  /\ nStatement' = IF HasStatement THEN nStatement - 1 ELSE nStatement
  /\ UNCHANGED <<file, autocommit>>

(* Mutant: the other writers are not counted. *)
AnyWriter == autocommit

(* "the auto-commit flag is set and this is the only active writer" *)
OnlyWriter == autocommit /\ Writing(Return) = {}

HaltSelect ==
  /\ Runs("select")
  /\ IF OnlyWriter THEN CommitAll
     ELSE UNCHANGED <<file, content, autocommit, nStatement, savepoints>>
  /\ stack' = Return
  /\ rc' = "ok"
  /\ Cross(FALSE)

(* Mutant: the writes of a statement wait for the end of the call. *)
HaltWriteReleases ==
  /\ Runs("write") /\ Top.todo = {}
  /\ CloseStatement(FALSE)
  /\ rc' = "ok"
  /\ stack' = Return
  /\ Cross(FALSE)

HaltWrite ==
  /\ Runs("write") /\ Top.todo = {}
  /\ \/ OnlyWriter /\ CommitAll /\ rc' = "ok"
     \/ OnlyWriter /\ IoFaults /\ RollbackAll /\ rc' = "ioerr"
     \/ ~OnlyWriter /\ CloseStatement(FALSE) /\ rc' = "ok"
  /\ stack' = Return
  /\ Cross(FALSE)

(* A constraint, or a cursor that is tripped: OE_Abort. *)
HaltAbort ==
  /\ Runs("write") /\ \E row \in Top.todo : Top.tripped \/ row \in content
  /\ IF OnlyWriter THEN RollbackAll ELSE CloseStatement(TRUE)
  /\ stack' = Return
  /\ rc' = "abort"
  /\ Cross(FALSE)

(* A special error: the whole transaction is rolled back. *)
HaltIoError ==
  /\ IoFaults /\ Runs("write") /\ Top.todo # {}
  /\ RollbackAll
  /\ stack' = Tripped(Return)
  /\ rc' = "ioerr"
  /\ Cross(TRUE)

-----------------------------------------------------------------------------
RowSets == {rows \in SUBSET Rows : Cardinality(rows) \in 1 .. MaxRows}

Next ==
  \/ Begin \/ End \/ Rollback
  \/ \E rows \in RowSets : InsertRows(rows) \/ Write(rows)
  \/ InsertRowsEnds
  \/ Select
  \/ \E row \in Rows : InsertRow(row) \/ WriteRow(row) \/ SkipRow(row)
  \/ HaltSelect \/ HaltWrite \/ HaltAbort \/ HaltIoError

Spec == Init /\ [][Next]_vars

-----------------------------------------------------------------------------
(* Properties. *)

(* In autocommit mode, whatever the functions have called: as soon as no
   write is in progress, what the object sees is what the file holds. *)
NothingDangles ==
  /\ TypeOK
  /\ autocommit /\ Writing(stack) = {} => content = file

(* The file never takes up a part of a statement: it does not change while a
   write is in progress, whoever commits. *)
NoCommitMidway == [][file' # file => Writing(stack') = {}]_vars

Returns(kind) == Runs(kind) /\ stack' = Return
Fails         == Runs("write") /\ Len(stack') < Len(stack) /\ rc' # "ok"

(* A failed statement leaves none of its rows, and one that succeeds has all
   of them in the table, whatever the statements it called have done and
   undone, unless a transaction began or ended under a write in progress. *)
StatementsAreAtomic ==
  [][~crossed =>
       /\ Fails => Top.own \intersect content' = {}
       /\ Returns("write") /\ rc' = "ok" => Top.own \subseteq content']_vars

(* insert_rows() leaves no transaction of its own open, whatever failed, with
   the same exception. *)
InsertRowsCloses ==
  [][Returns("insert_rows") /\ Top.begun /\ ~crossed => autocommit']_vars
=============================================================================
