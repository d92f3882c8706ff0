------------------------------- MODULE RowOps -------------------------------
(***************************************************************************)
(* The methods of the SQLite class that read and write rows: query(),      *)
(* insert_row(), insert_rows(), select_rows(), update_rows(),              *)
(* delete_rows(), and open_db() and close_db(), for objects that are open  *)
(* on the same file.  A method is a sequence of query() calls; each of     *)
(* them is one statement of Engine, and between any two of its steps the   *)
(* other objects may take steps of their own.                              *)
(***************************************************************************)
EXTENDS Engine

CONSTANTS RowArrays,    \* the arrays passed to insert_rows()
          Updates,      \* the statements of update_rows() and delete_rows()
          Queries       \* the statements passed to query()

(* An element of the array that is not a Dictionary. *)
NotDictionary == Plain("not a dictionary")

(* An element is the INSERT that insert_row() builds from it, a Malformed
   one when a key of the Dictionary is no column, an Unbindable one when a
   value has no type of SQL, or no Dictionary. *)
Elements == {s \in Writes : s.kind = "insert"} \union
            {Malformed, Unbindable, NotDictionary}

(* A condition may be malformed or hold a "?", which nothing is bound to, and
   a new value may have no type of SQL. *)
DmlStatements ==
  {s \in Writes : s.kind \in {"update", "delete"}} \union {Malformed, Unbindable}

ASSUME RowArraysAssumption == RowArrays \subseteq Seq(Elements)
ASSUME UpdatesAssumption == Updates \subseteq DmlStatements
ASSUME QueriesAssumption == Queries \subseteq Statements

VARIABLES db,             \* db[c]: is the object's sqlite3* not null?
          pc,             \* pc[c]: the statement the object waits for
          args,           \* args[c]: the elements, or the one statement
          index,          \* index[c]: i + 1 in the loop of insert_rows()
          success,        \* success[c]: the local of update_/delete_rows()
          previous,       \* previous[c]: the local previous_error_message
          error_message,  \* error_message[c], as a result code
          returned,       \* returned[c]: what the last call returned
          own,            \* own[c]: did this call's BEGIN succeed?  (history)
          durable         \* durable[c]: the rows this call's last commit put
                          \* in the file  (history)

callVars == <<db, pc, args, index, success, previous, error_message,
              returned, own, durable>>
vars == <<engineVars, callVars>>

Labels == {"idle", "query", "begin_rows", "insert", "end_rows",
           "end_not_dictionary", "end_failed", "begin_dml", "dml", "end_dml"}
Messages == (Codes \ {"unbound"}) \union {""}

TypeOK ==
  /\ EngineTypeOK
  /\ db \in [Conns -> BOOLEAN]
  /\ pc \in [Conns -> Labels]
  /\ args \in [Conns -> Seq(Statements \union {NotDictionary})]
  /\ index \in [Conns -> Nat]
  /\ success \in [Conns -> BOOLEAN]
  /\ previous \in [Conns -> Messages]
  /\ error_message \in [Conns -> Messages]
  /\ returned \in [Conns -> {"none", "true", "false"}]
  /\ own \in [Conns -> BOOLEAN]
  /\ durable \in [Conns -> SUBSET Rows]

Init ==
  /\ EngineInit
  /\ db = [c \in Conns |-> FALSE]
  /\ pc = [c \in Conns |-> "idle"]
  /\ args = [c \in Conns |-> <<>>]
  /\ index = [c \in Conns |-> 0]
  /\ success = [c \in Conns |-> FALSE]
  /\ previous = [c \in Conns |-> ""]
  /\ error_message = [c \in Conns |-> ""]
  /\ returned = [c \in Conns |-> "none"]
  /\ own = [c \in Conns |-> FALSE]
  /\ durable = [c \in Conns |-> {}]

-----------------------------------------------------------------------------
(* What the methods are put together from. *)

(* query(): the statement is prepared, and the method waits at label for
   its result.  Without a connection the result is there at once. *)
Query(c, s, label) ==
  /\ IF db[c] THEN Prepare(c, s) ELSE Misuse(c)
  /\ pc' = [pc EXCEPT ![c] = label]

(* The statement the method waits for at label is finalized. *)
Replied(c, label) == pc[c] = label /\ phase[c] = "done"

(* error_message after a statement that ended so: one that is given up unbound
   leaves that of its sqlite3_prepare_v2(), which succeeded. *)
Message(code) == IF code = "unbound" THEN "ok" ELSE code

SetMessage(c, message) == error_message' = [error_message EXCEPT ![c] = message]

Return(c, value) ==
  /\ returned' = [returned EXCEPT ![c] = IF value THEN "true" ELSE "false"]
  /\ pc' = [pc EXCEPT ![c] = "idle"]
  /\ args' = [args EXCEPT ![c] = <<>>]
  /\ index' = [index EXCEPT ![c] = 0]
  /\ success' = [success EXCEPT ![c] = FALSE]
  /\ previous' = [previous EXCEPT ![c] = ""]
  /\ own' = [own EXCEPT ![c] = FALSE]
  /\ durable' = [durable EXCEPT ![c] = {}]
  /\ UNCHANGED <<engineVars, db>>

(* A call begins with arguments a, by sending a first statement. *)
Call(c, a, s, label) ==
  /\ pc[c] = "idle"
  /\ Query(c, s, label)
  /\ args' = [args EXCEPT ![c] = a]
  /\ returned' = [returned EXCEPT ![c] = "none"]
  /\ UNCHANGED <<db, index, success, previous, error_message, own, durable>>

-----------------------------------------------------------------------------
(* open_db() of a closed object and close_db() of an open one; a second
   open_db() or close_db() returns false and changes nothing. *)

open_db(c) ==
  /\ pc[c] = "idle"
  /\ ~db[c]
  /\ db' = [db EXCEPT ![c] = TRUE]
  /\ returned' = [returned EXCEPT ![c] = "true"]
  /\ UNCHANGED <<engineVars, pc, args, index, success, previous,
                 error_message, own, durable>>

close_db(c) ==
  /\ pc[c] = "idle"
  /\ db[c]
  /\ Drop(c)
  /\ db' = [db EXCEPT ![c] = FALSE]
  /\ returned' = [returned EXCEPT ![c] = "true"]
  /\ UNCHANGED <<pc, args, index, success, previous, error_message, own,
                 durable>>

(* The process of c ends, wherever c is; a new object takes its place. *)
crash(c) ==
  /\ Drop(c)
  /\ db' = [db EXCEPT ![c] = FALSE]
  /\ pc' = [pc EXCEPT ![c] = "idle"]
  /\ args' = [args EXCEPT ![c] = <<>>]
  /\ index' = [index EXCEPT ![c] = 0]
  /\ success' = [success EXCEPT ![c] = FALSE]
  /\ previous' = [previous EXCEPT ![c] = ""]
  /\ error_message' = [error_message EXCEPT ![c] = ""]
  /\ returned' = [returned EXCEPT ![c] = "none"]
  /\ own' = [own EXCEPT ![c] = FALSE]
  /\ durable' = [durable EXCEPT ![c] = {}]

-----------------------------------------------------------------------------
(* query(), and insert_row() and select_rows(), which are one query(). *)

query(c) == \E s \in Queries : Call(c, <<s>>, s, "query")

QueryReply(c) ==
  /\ Replied(c, "query")
  /\ SetMessage(c, Message(rc[c]))
  /\ Return(c, rc[c] = "ok")

-----------------------------------------------------------------------------
(* insert_rows() *)

insert_rows(c) ==
  \E rows \in RowArrays : Call(c, rows, BeginStmt, "begin_rows")

(* Mutant: the loop ends one element too early. *)
NextElementButLast(c, k) ==
  /\ index' = [index EXCEPT ![c] = k]
  /\ IF k >= Len(args[c]) THEN Query(c, EndStmt, "end_rows")
     ELSE IF args[c][k] = NotDictionary
          THEN Query(c, EndStmt, "end_not_dictionary")
          ELSE Query(c, args[c][k], "insert")

(* The head of the loop, for the k-th element, and what follows the loop. *)
NextElement(c, k) ==
  /\ index' = [index EXCEPT ![c] = k]
  /\ \/ /\ k > Len(args[c])
        /\ Query(c, EndStmt, "end_rows")
     \/ /\ k <= Len(args[c])
        /\ args[c][k] = NotDictionary
        /\ Query(c, EndStmt, "end_not_dictionary")
     \/ /\ k <= Len(args[c])
        /\ args[c][k] # NotDictionary
        /\ Query(c, args[c][k], "insert")

(* The result of BEGIN is not looked at. *)
BeginRowsReply(c) ==
  /\ Replied(c, "begin_rows")
  /\ SetMessage(c, Message(rc[c]))
  /\ own' = [own EXCEPT ![c] = (rc[c] = "ok")]
  /\ NextElement(c, 1)
  /\ UNCHANGED <<db, args, success, previous, returned, durable>>

(* Mutant: the element is sent once more. *)
InsertRepeated(c) ==
  /\ Replied(c, "insert")
  /\ rc[c] = "ok"
  /\ SetMessage(c, Message(rc[c]))
  /\ NextElement(c, index[c])
  /\ UNCHANGED <<db, args, success, previous, returned, own, durable>>

InsertReply(c) ==
  /\ Replied(c, "insert")
  /\ rc[c] = "ok"
  /\ SetMessage(c, Message(rc[c]))
  /\ NextElement(c, index[c] + 1)
  /\ UNCHANGED <<db, args, success, previous, returned, own, durable>>

(* Mutant: the transaction is not closed. *)
InsertFailedReturns(c) ==
  /\ Replied(c, "insert")
  /\ rc[c] # "ok"
  /\ SetMessage(c, Message(rc[c]))
  /\ Return(c, FALSE)

InsertFailed(c) ==
  /\ Replied(c, "insert")
  /\ rc[c] # "ok"
  /\ SetMessage(c, Message(rc[c]))
  /\ previous' = [previous EXCEPT ![c] = Message(rc[c])]
  /\ Query(c, EndStmt, "end_failed")
  /\ UNCHANGED <<db, args, index, success, returned, own, durable>>

(* The result of END is not looked at either. *)
EndRowsReply(c) ==
  /\ Replied(c, "end_rows")
  /\ SetMessage(c, Message(rc[c]))
  /\ Return(c, TRUE)

EndNotDictionaryReply(c) ==
  /\ Replied(c, "end_not_dictionary")
  /\ SetMessage(c, Message(rc[c]))
  /\ Return(c, FALSE)

(* Mutant: the message of the failure is lost. *)
EndOverwritesMessage(c) ==
  /\ Replied(c, "end_failed")
  /\ SetMessage(c, Message(rc[c]))
  /\ Return(c, FALSE)

EndFailedReply(c) ==
  /\ Replied(c, "end_failed")
  /\ SetMessage(c, previous[c])
  /\ Return(c, FALSE)

-----------------------------------------------------------------------------
(* update_rows() and delete_rows(), which differ in the statement only. *)

(* Mutant: BEGIN is forgotten. *)
update_without_begin(c) ==
  \E s \in Updates : Call(c, <<s>>, s, "dml")

update_or_delete_rows(c) ==
  \E s \in Updates : Call(c, <<s>>, BeginStmt, "begin_dml")

BeginDmlReply(c) ==
  /\ Replied(c, "begin_dml")
  /\ SetMessage(c, Message(rc[c]))
  /\ own' = [own EXCEPT ![c] = (rc[c] = "ok")]
  /\ Query(c, args[c][1], "dml")
  /\ UNCHANGED <<db, args, index, success, previous, returned, durable>>

DmlReply(c) ==
  /\ Replied(c, "dml")
  /\ success' = [success EXCEPT ![c] = (rc[c] = "ok")]
  /\ SetMessage(c, Message(rc[c]))
  /\ previous' = [previous EXCEPT ![c] = Message(rc[c])]
  /\ Query(c, EndStmt, "end_dml")
  /\ UNCHANGED <<db, args, index, returned, own, durable>>

EndDmlReply(c) ==
  /\ Replied(c, "end_dml")
  /\ SetMessage(c, previous[c])
  /\ Return(c, success[c])

-----------------------------------------------------------------------------
(* SQLite works on the statement the method waits for. *)
Work(c) ==
  /\ Progress(c)
  /\ durable' = [durable EXCEPT ![c] =
       IF phase[c] = "commit" /\ rc'[c] = "ok" THEN cache[c] ELSE @]
  /\ UNCHANGED <<db, pc, args, index, success, previous, error_message,
                 returned, own>>

(* What a call that has begun does. *)
Continue(c) ==
  \/ Work(c) \/ QueryReply(c)
  \/ BeginRowsReply(c) \/ InsertReply(c) \/ InsertFailed(c)
  \/ EndRowsReply(c) \/ EndNotDictionaryReply(c) \/ EndFailedReply(c)
  \/ BeginDmlReply(c) \/ DmlReply(c) \/ EndDmlReply(c)

(* What the caller, or the operating system, may do. *)
Environment(c) ==
  \/ open_db(c) \/ close_db(c) \/ crash(c)
  \/ query(c) \/ insert_rows(c) \/ update_or_delete_rows(c)

Next == \E c \in Conns : Environment(c) \/ Continue(c)

(* A call that has begun is run to its end by its thread. *)
Fairness == \A c \in Conns : WF_vars(Continue(c))

Spec == Init /\ [][Next]_vars /\ Fairness
-----------------------------------------------------------------------------
(* Properties. *)

(* A method that opened or found a transaction returns in this step. *)
Returns(c) ==
  pc[c] \notin {"idle", "query"} /\ pc'[c] = "idle" /\ returned'[c] # "none"

(* The commit of a method that is not cut short by a crash. *)
Commits(c) ==
  phase[c] = "commit" /\ rc'[c] = "ok" /\ phase'[c] = "done" /\ pc'[c] # "idle"

InsertsRows(c) == pc[c] \in {"end_rows", "end_not_dictionary", "end_failed"}

(* The rows of the elements that came before the k-th. *)
Accepted(c, k) == UNION {args[c][j].add : j \in {j \in DOMAIN args[c] : j < k}}

(* The results of BEGIN are ignored, and yet no statement of insert_rows(),
   update_rows() or delete_rows() is ever committed on its own: whatever made
   BEGIN fail, a transaction is open when they run. *)
BatchIsTransactional ==
  \A c \in Conns :
    pc[c] \in {"insert", "dml"} /\ db[c] /\ (phase[c] # "done" \/ rc[c] = "ok")
      => ~autocommit[c]

(* When insert_rows(), update_rows() or delete_rows() returns with a
   transaction still open, it is because SQLite refused its END: a reader was
   there, and the rows are written but not committed, or a deferred foreign
   key has no parent. *)
LeavesOpenOnlyIfRefused ==
  [][\A c \in Conns :
       Returns(c) /\ ~autocommit[c]
         => \/ rc[c] = "busy" /\ lock[c] \in {"reserved", "pending"}
            \/ rc[c] = "constraint" /\ Orphaned(cache[c])]_vars

(* insert_rows() ignores the result of END and returns true; with "not an
   error" in error_message its rows have all been committed to the file. *)
CleanReturnIsDurable ==
  [][\A c \in Conns :
       pc[c] = "end_rows" /\ Returns(c) /\ error_message'[c] = "ok"
         => Accepted(c, Len(args[c]) + 1) \subseteq durable[c]]_vars

(* The transaction a method opened itself commits exactly what the method
   did on top of what is in the file at that moment: insert_rows() the rows
   before the element it stopped at, update_rows() and delete_rows() their
   statement or nothing.  Nothing of another object is lost or repeated. *)
OwnTransactionIsExact ==
  [][\A c \in Conns :
       Commits(c) /\ own[c]
         => /\ InsertsRows(c) =>
                 /\ file' = file \union Accepted(c, index[c])
                 /\ file \intersect Accepted(c, index[c]) = {}
            /\ pc[c] = "end_dml" =>
                 file' = IF success[c] THEN Effect(file, args[c][1])
                                       ELSE file]_vars

(* The statement that insert_rows() is, or stopped, at, or the one of update_rows() or
   delete_rows(). *)
Stopped(c) == args[c][IF pc[c] \in {"dml", "end_dml"} THEN 1 ELSE index[c]]

(* When a statement of insert_rows(), update_rows() or delete_rows() fails,
   its message survives the END that follows: false comes with the message of
   a success only when the statement was never executed, because a parameter
   of it could not be bound, and always then on an open object. *)
FailureIsExplained ==
  [][\A c \in Conns :
       Returns(c) /\ returned'[c] = "false" /\ pc[c] # "end_not_dictionary"
         => /\ error_message'[c] # ""
            /\ error_message'[c] = "ok" <=> db[c] /\ Stopped(c) = Unbindable]_vars

(* No call waits for another object: a lock that is not free is an answer,
   so every call returns, whatever transactions the others leave open. *)
CallsReturn == \A c \in Conns : pc[c] # "idle" ~> pc[c] = "idle"

(* "Don't forget to close the transaction!" (the comment in insert_rows()):
   no method returns with a transaction open that it opened itself.  The code
   does not keep this: see LeavesOpenOnlyIfRefused. *)
TransactionClosedOnReturn ==
  [][\A c \in Conns : Returns(c) /\ own[c] => autocommit[c]]_vars
=============================================================================
