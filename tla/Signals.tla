------------------------------- MODULE Signals -------------------------------
(***************************************************************************)
(* The signals row_inserted, row_updated and row_deleted, which the update *)
(* hook of SQLite emits row by row, while the statement is still running   *)
(* and whatever becomes of it; and a listener that keeps a mirror of the   *)
(* rowids of a table by them.  One object with one table, whose rows have  *)
(* a value that is unique; nobody else writes.                             *)
(***************************************************************************)
EXTENDS Naturals, Sequences, FiniteSets, FiniteSetsExt, SequencesExt, Functions

CONSTANTS ColumnValues, \* the values of the unique column
          MaxRowid,     \* the largest rowid (a bound)
          Inserts,      \* the sequences of values that INSERT and REPLACE add
          Complex       \* has the table a DELETE trigger, or a child?

ASSUME MaxRowidAssumption == MaxRowid \in Nat \ {0}
ASSUME InsertsAssumption == Inserts \subseteq Seq(ColumnValues)
ASSUME ComplexAssumption == Complex \in BOOLEAN

VARIABLES file,         \* the rows in the file: rowid -> value
          work,         \* ... as the connection sees them
          autocommit,   \* sqlite3.autoCommit
          kind,         \* the statement that is running, or "none"
          todo,         \* the values or rowids it has still to go through
          start,        \* the rows when it began
          mirror,       \* the rowids the listener holds for existing
          undone,       \* was a change taken back?        (history)
          silent        \* did a row go without a signal?  (history)

store       == <<file, work, autocommit>>
signalsVars == <<store, kind, todo, start, mirror, undone, silent>>

Rowids == 1 .. MaxRowid
Tables == UNION {[S -> ColumnValues] : S \in SUBSET Rowids}
Kinds  == {"insert", "replace", "update", "move", "delete", "clear"}

SignalsTypeOK ==
  /\ file \in Tables /\ work \in Tables /\ start \in Tables
  /\ autocommit \in BOOLEAN
  /\ kind \in Kinds \union {"none"}
  /\ todo \in Seq(ColumnValues \union Rowids)
  /\ mirror \subseteq Rowids
  /\ undone \in BOOLEAN /\ silent \in BOOLEAN
  /\ IsInjective(work)

NoRows == [r \in {} |-> 0]

SignalsInit ==
  /\ file = NoRows /\ work = NoRows /\ start = NoRows
  /\ autocommit = TRUE
  /\ kind = "none" /\ todo = <<>>
  /\ mirror = {}
  /\ undone = FALSE /\ silent = FALSE

-----------------------------------------------------------------------------
(* The rows. *)

(* OP_NewRowid: one more than the largest. *)
NewRowid(rows)  == IF DOMAIN rows = {} THEN 1 ELSE Max(DOMAIN rows) + 1
Put(rows, r, v) == [x \in DOMAIN rows \union {r} |-> IF x = r THEN v ELSE rows[x]]
Take(rows, S)   == [x \in DOMAIN rows \ S |-> rows[x]]

(* The rows with value v: one at most. *)
With(rows, v) == {r \in DOMAIN rows : rows[r] = v}

-----------------------------------------------------------------------------
(* update_hook_callback(), and what the listener makes of the signal. *)

emit_signal(signal, r) ==
  mirror' = CASE signal = "row_inserted" -> mirror \union {r}
              [] signal = "row_updated"  -> mirror \union {r}
              [] signal = "row_deleted"  -> mirror \ {r}

NoSignal == UNCHANGED mirror

-----------------------------------------------------------------------------
(* A statement begins, goes through its rows, and ends. *)

Starts(k, rows) ==
  /\ kind = "none"
  /\ kind' = k /\ todo' = rows /\ start' = work
  /\ UNCHANGED <<store, mirror, undone, silent>>

(* insert_row(), or a query() that inserts several rows. *)
insert_row  == \E values \in Inserts : Starts("insert", values)
replace     == \E values \in Inserts : Starts("replace", values)

(* The rows that match the condition are found before any is changed. *)
update_rows ==
  \E S \in SUBSET DOMAIN work, k \in {"update", "move"} : Starts(k, SetToSeq(S))

(* delete_rows(): a DELETE without a WHERE clause clears the table as a
   whole, where nothing has to be done for each row. *)
delete_rows ==
  \/ \E S \in SUBSET DOMAIN work : Starts("delete", SetToSeq(S))
  \/ IF Complex THEN Starts("delete", SetToSeq(DOMAIN work))
                ELSE Starts("clear", <<>>)

Rest == todo' = Tail(todo) /\ UNCHANGED <<file, autocommit, kind, start, undone>>
On(kinds) == kind \in kinds /\ todo # <<>>

(* OP_Insert *)
InsertRow ==
  /\ On({"insert"})
  /\ With(work, Head(todo)) = {}
  /\ NewRowid(work) \in Rowids
  /\ work' = Put(work, NewRowid(work), Head(todo))
  /\ emit_signal("row_inserted", NewRowid(work))
  /\ Rest
  /\ UNCHANGED silent

(* The row in the way is deleted with no signal, then the new one inserted;
   its rowid is found first. *)
ReplaceRow ==
  /\ On({"replace"})
  /\ NewRowid(work) \in Rowids
  /\ LET gone == With(work, Head(todo))
     IN  /\ work' = Put(Take(work, gone), NewRowid(work), Head(todo))
         /\ silent' = (silent \/ gone # {})
  /\ emit_signal("row_inserted", NewRowid(work))
  /\ Rest

(* UPDATE of the value, and of the rowid: the signal has the new one. *)
UpdateRow ==
  /\ On({"update"})
  /\ \E v \in ColumnValues :
       /\ With(work, v) = {}
       /\ work' = Put(work, Head(todo), v)
  /\ emit_signal("row_updated", Head(todo))
  /\ Rest
  /\ UNCHANGED silent

MoveRow ==
  /\ On({"move"})
  /\ \E r \in Rowids \ DOMAIN work :
       /\ work' = Put(Take(work, {Head(todo)}), r, work[Head(todo)])
       /\ emit_signal("row_updated", r)
  /\ silent' = TRUE
  /\ Rest

(* Mutant: the hook is not called for a row that is deleted. *)
DeleteRowSilently ==
  /\ On({"delete"})
  /\ work' = Take(work, {Head(todo)})
  /\ NoSignal
  /\ Rest
  /\ UNCHANGED silent

(* OP_Delete *)
DeleteRow ==
  /\ On({"delete"})
  /\ work' = Take(work, {Head(todo)})
  /\ emit_signal("row_deleted", Head(todo))
  /\ Rest
  /\ UNCHANGED silent

(* OP_Clear, and the statement is over. *)
Clear ==
  /\ kind = "clear"
  /\ work' = NoRows
  /\ NoSignal
  /\ silent' = (silent \/ DOMAIN work # {})
  /\ kind' = "delete"
  /\ UNCHANGED <<file, autocommit, todo, start, undone>>

(* A constraint, or a full disk: the statement is rolled back, its signals are not. *)
Fails ==
  /\ On(Kinds)
  /\ work' = start
  /\ undone' = (undone \/ work # start)
  /\ kind' = "none" /\ todo' = <<>>
  /\ UNCHANGED <<file, autocommit, start, mirror, silent>>

(* An interrupt or an I/O error: so is the transaction. *)
Breaks ==
  /\ On(Kinds)
  /\ work' = file /\ autocommit' = TRUE
  /\ undone' = (undone \/ work # file)
  /\ kind' = "none" /\ todo' = <<>>
  /\ UNCHANGED <<file, start, mirror, silent>>

Completes ==
  /\ kind # "none" /\ kind # "clear" /\ todo = <<>>
  /\ file' = IF autocommit THEN work ELSE file
  /\ kind' = "none"
  /\ UNCHANGED <<work, autocommit, todo, start, mirror, undone, silent>>

-----------------------------------------------------------------------------
(* BEGIN, END and ROLLBACK; and close_db() and open_db(), after which the
   hook is there again. *)

BEGIN_TRANSACTION ==
  /\ kind = "none" /\ autocommit
  /\ autocommit' = FALSE
  /\ UNCHANGED <<file, work, kind, todo, start, mirror, undone, silent>>

END_TRANSACTION ==
  /\ kind = "none" /\ ~autocommit
  /\ autocommit' = TRUE /\ file' = work
  /\ UNCHANGED <<work, kind, todo, start, mirror, undone, silent>>

(* close_db() rolls back too. *)
ROLLBACK_or_close ==
  /\ kind = "none" /\ ~autocommit
  /\ autocommit' = TRUE /\ work' = file
  /\ undone' = (undone \/ work # file)
  /\ UNCHANGED <<file, kind, todo, start, mirror, silent>>

SignalsNext ==
  \/ insert_row \/ replace \/ update_rows \/ delete_rows
  \/ InsertRow \/ ReplaceRow \/ UpdateRow \/ MoveRow \/ DeleteRow \/ Clear
  \/ Fails \/ Breaks \/ Completes
  \/ BEGIN_TRANSACTION \/ END_TRANSACTION \/ ROLLBACK_or_close

SignalsSpec == SignalsInit /\ [][SignalsNext]_signalsVars
-----------------------------------------------------------------------------
(* Properties. *)

(* As long as nothing was taken back, every row of the table has been
   signalled, under the rowid it has, also while a statement is running. *)
NoRowIsUnheard == ~undone => DOMAIN work \subseteq mirror

(* ... and as long as no row was replaced, moved or cleared away either, the
   listener holds no row that is gone. *)
NoGhosts == ~undone /\ ~silent => mirror \subseteq DOMAIN work

(* A listener that keeps the rowids it is told of follows the table, at every
   row of every statement, but for what SQLite tells nobody of. *)
ListenerFollows == SignalsTypeOK /\ NoRowIsUnheard /\ NoGhosts
=============================================================================
