--------------------------- MODULE QueryPipeline ---------------------------
(***************************************************************************)
(* One SQLite object and the calls of query(), query_with_bindings() and   *)
(* query_with_named_bindings() on it.  While sqlite3_step() runs, SQLite   *)
(* calls back a function of create_function(), and through it the caller's *)
(* code, which may call any method of the same object: another query, or   *)
(* close_db() and open_db().  The calls in progress form a stack; they     *)
(* share db, query_result and error_message.                               *)
(*                                                                         *)
(* What the statements do to the tables is the matter of Engine; here a    *)
(* statement yields rows and ends with a code.                             *)
(***************************************************************************)
EXTENDS Integers, Sequences, FiniteSets

CONSTANTS Handles,    \* the sqlite3 objects; memory that is freed is reused
          NoHandle,   \* nullptr
          Calls,      \* the calls: the text, and the bindings passed with it
          MaxDepth    \* bound on the calls nested in one another

(* A text is a sequence of statements.  A malformed statement fails to
   prepare; any other has parameters, yields a number of rows, and then ends
   with a code.  A parameter "?" has no name. *)
Statement == [malformed : BOOLEAN, params : Seq({"a", "?"}), rows : Nat,
              code : {"ok", "error"}]

(* A value bind_parameter() has no case for is "unsupported".  Named
   bindings are a function from some names to values. *)
Values == {"supported", "unsupported"}
Named  == UNION {[names -> Values] : names \in SUBSET {"a"}}

ASSUME NoHandleAssumption == NoHandle \notin Handles
ASSUME MaxDepthAssumption == MaxDepth \in Nat \ {0}
ASSUME CallsAssumption ==
  \A call \in Calls :
    /\ call.text \in Seq(Statement) /\ call.text # <<>>
    /\ call.named \in BOOLEAN
    /\ call.bindings \in IF call.named THEN Named ELSE Seq(Values)

VARIABLES db,             \* the object's sqlite3*
          openState,      \* openState[h]: sqlite3.eOpenState
          errCode,        \* errCode[h]: sqlite3.errCode
          statements,     \* statements[h]: the statements not finalized
          stack,          \* the calls in progress, the innermost first
          query_result,   \* the rows, by the call that appended them
          error_message,  \* as a result code, "" before the first query
          returned        \* what the last call to end returned

vars == <<db, openState, errCode, statements, stack, query_result,
          error_message, returned>>

(* A call in progress: the rest of its text, the rest of its bindings, the
   connection of its statement and the rows that are still to come.  call,
   nested and moved are history: the arguments, whether a call was nested
   in it, and whether the object changed its connection under it. *)
FrameOK(frame) ==
  /\ frame.call \in Calls
  /\ frame.tail \in Seq(Statement)
  /\ frame.bindings \in IF frame.call.named THEN Named ELSE Seq(Values)
  /\ frame.at \in {"prepare", "bind", "step"}
  /\ frame.on \in Handles \union {NoHandle}
  /\ frame.left \in Nat
  /\ frame.nested \in BOOLEAN
  /\ frame.moved \in BOOLEAN

Codes == {"ok", "error", "nomem", "cantopen"}
Rows  == [level : 1 .. MaxDepth, row : Nat]

TypeOK ==
  /\ db \in Handles \union {NoHandle}
  /\ openState \in [Handles -> {"none", "open", "sick", "zombie"}]
  /\ errCode \in [Handles -> Codes]
  /\ statements \in [Handles -> Nat]
  /\ Len(stack) <= MaxDepth /\ \A i \in DOMAIN stack : FrameOK(stack[i])
  /\ query_result \in Seq(Rows)
  /\ error_message \in Codes \union {""}
  /\ returned \in {"none", "true", "false"}

Init ==
  /\ db = NoHandle
  /\ openState = [h \in Handles |-> "none"]
  /\ errCode = [h \in Handles |-> "ok"]
  /\ statements = [h \in Handles |-> 0]
  /\ stack = <<>>
  /\ query_result = <<>>
  /\ error_message = ""
  /\ returned = "none"

-----------------------------------------------------------------------------
(* What the steps are put together from. *)

Top == stack[1]
At(label) == stack # <<>> /\ Top.at = label

(* The caller's code runs: outside any call, or inside sqlite3_step(). *)
CallerRuns == stack = <<>> \/ At("step")

(* The connections that sqlite3SafetyCheckOk() accepts. *)
Open == {h \in Handles : openState[h] = "open"}

Replace(frame) == stack' = <<frame>> \o Tail(stack)

Return(value) ==
  /\ stack' = Tail(stack)
  /\ returned' = IF value THEN "true" ELSE "false"

(* sqlite3_errcode() and the code whose text sqlite3_errmsg() returns. *)
ErrorOf(handle, codes) == IF handle = NoHandle THEN "nomem" ELSE codes[handle]

(* Do the bindings of a statement satisfy its parameters? *)
Satisfied(statement, named, bindings) ==
  IF named
  THEN \A i \in DOMAIN statement.params :
         /\ statement.params[i] \in DOMAIN bindings
         /\ bindings[statement.params[i]] = "supported"
  ELSE /\ Len(statement.params) <= Len(bindings)
       /\ \A i \in DOMAIN statement.params : bindings[i] = "supported"

(* Mutant: the next statement gets the same bindings once more. *)
RestUnsliced(named, bindings, count) == bindings

(* What is left for the next statement of the text. *)
Rest(named, bindings, count) ==
  IF named THEN bindings ELSE SubSeq(bindings, count + 1, Len(bindings))

(* sqlite3_finalize(): the statement's code becomes the connection's, and a
   zombie is freed with its last statement. *)
Finalize(h, code) ==
  /\ statements' = [statements EXCEPT ![h] = @ - 1]
  /\ errCode' = [errCode EXCEPT ![h] = code]
  /\ openState' = [openState EXCEPT ![h] =
                     IF @ = "zombie" /\ statements[h] = 1 THEN "none" ELSE @]

-----------------------------------------------------------------------------
(* The caller's code. *)

(* open_db() of a closed object.  When sqlite3_open_v2() fails, db points to
   a sick connection; with db not null open_db() returns false at once. *)
open_db ==
  /\ CallerRuns
  /\ db = NoHandle
  /\ \E h \in Handles :
       /\ openState[h] = "none"
       /\ db' = h
       /\ \/ /\ openState' = [openState EXCEPT ![h] = "open"]
             /\ errCode' = [errCode EXCEPT ![h] = "ok"]
          \/ /\ openState' = [openState EXCEPT ![h] = "sick"]
             /\ errCode' = [errCode EXCEPT ![h] = "cantopen"]
  /\ UNCHANGED <<statements, stack, query_result, error_message, returned>>

(* Every call in progress has lost its connection. *)
Moved(frames) == [i \in DOMAIN frames |-> [frames[i] EXCEPT !.moved = TRUE]]

(* sqlite3_close_v2(): a connection whose statements are not all finalized
   lives on as a zombie. *)
close_db ==
  /\ CallerRuns
  /\ db # NoHandle
  /\ openState' = [openState EXCEPT ![db] =
                     IF statements[db] = 0 THEN "none" ELSE "zombie"]
  /\ db' = NoHandle
  /\ stack' = Moved(stack)
  /\ UNCHANGED <<errCode, statements, query_result, error_message, returned>>

(* query_with_bindings() or query_with_named_bindings() is called. *)
query_with_bindings ==
  /\ CallerRuns
  /\ Len(stack) < MaxDepth
  /\ \E call \in Calls :
       stack' = <<[call |-> call, tail |-> call.text,
                   bindings |-> call.bindings, at |-> "prepare",
                   on |-> NoHandle, left |-> 0,
                   nested |-> FALSE, moved |-> db = NoHandle]>> \o
                [i \in DOMAIN stack |-> [stack[i] EXCEPT !.nested = TRUE]]
  /\ UNCHANGED <<db, openState, errCode, statements, query_result,
                 error_message, returned>>

-----------------------------------------------------------------------------
(* The innermost call. *)

(* prepare_statement() with no connection, or with one that is sick. *)
PrepareMisuse ==
  /\ At("prepare")
  /\ db \notin Open
  /\ query_result' = <<>>
  /\ error_message' = ErrorOf(db, errCode)
  /\ Return(FALSE)
  /\ UNCHANGED <<db, openState, errCode, statements>>

(* Mutant: the result of the previous query is kept when this one fails. *)
PrepareKeepsResult ==
  /\ At("prepare")
  /\ db \in Open
  /\ Head(Top.tail).malformed
  /\ errCode' = [errCode EXCEPT ![db] = "error"]
  /\ error_message' = "error"
  /\ Return(FALSE)
  /\ UNCHANGED <<db, openState, statements, query_result>>

PrepareFailed ==
  /\ At("prepare")
  /\ db \in Open
  /\ Head(Top.tail).malformed
  /\ query_result' = <<>>
  /\ errCode' = [errCode EXCEPT ![db] = "error"]
  /\ error_message' = "error"
  /\ Return(FALSE)
  /\ UNCHANGED <<db, openState, statements>>

Prepare ==
  /\ At("prepare")
  /\ db \in Open
  /\ ~Head(Top.tail).malformed
  /\ query_result' = <<>>
  /\ errCode' = [errCode EXCEPT ![db] = "ok"]
  /\ error_message' = "ok"
  /\ statements' = [statements EXCEPT ![db] = @ + 1]
  /\ Replace([Top EXCEPT !.at = "bind", !.on = db,
                         !.left = Head(Top.tail).rows])
  /\ UNCHANGED <<db, openState, returned>>

(* Mutant: the statement is not finalized. *)
BindLeaks ==
  /\ At("bind")
  /\ ~Satisfied(Head(Top.tail), Top.call.named, Top.bindings)
  /\ Return(FALSE)
  /\ UNCHANGED <<db, openState, errCode, statements, query_result,
                 error_message>>

(* Too few bindings, a name that is missing or a type that is not supported:
   error_message stays what prepare_statement() made it. *)
BindRefused ==
  /\ At("bind")
  /\ ~Satisfied(Head(Top.tail), Top.call.named, Top.bindings)
  /\ Finalize(Top.on, "ok")
  /\ Return(FALSE)
  /\ UNCHANGED <<db, query_result, error_message>>

Bind ==
  /\ At("bind")
  /\ Satisfied(Head(Top.tail), Top.call.named, Top.bindings)
  /\ Replace([Top EXCEPT !.at = "step",
                         !.bindings = Rest(Top.call.named, Top.bindings,
                                           Len(Head(Top.tail).params))])
  /\ UNCHANGED <<db, openState, errCode, statements, query_result,
                 error_message, returned>>

(* sqlite3_step() returns SQLITE_ROW. *)
Row ==
  /\ At("step")
  /\ Top.left > 0
  /\ query_result' = Append(query_result,
                       [level |-> Len(stack),
                        row |-> Head(Top.tail).rows - Top.left + 1])
  /\ Replace([Top EXCEPT !.left = @ - 1])
  /\ UNCHANGED <<db, openState, errCode, statements, error_message, returned>>

(* sqlite3_step() returns anything else.  The statement is finalized on the
   connection it was prepared on, the error is asked of the one db points to
   now, and what is left of the text is a call of its own. *)
Complete ==
  /\ At("step")
  /\ Top.left = 0
  /\ Finalize(Top.on, Head(Top.tail).code)
  /\ error_message' = ErrorOf(db, errCode')
  /\ IF error_message' = "ok" /\ Len(Top.tail) > 1
     THEN /\ Replace([Top EXCEPT !.at = "prepare", !.on = NoHandle,
                                 !.tail = Tail(@)])
          /\ UNCHANGED returned
     ELSE Return(error_message' = "ok")
  /\ UNCHANGED <<db, query_result>>

Next ==
  \/ open_db \/ close_db \/ query_with_bindings
  \/ PrepareMisuse \/ PrepareFailed \/ Prepare
  \/ BindRefused \/ Bind \/ Row \/ Complete

Spec == Init /\ [][Next]_vars

-----------------------------------------------------------------------------
(* Properties. *)

(* Whatever path a call takes, every statement is finalized by the call that
   prepared it, so that a connection closed under its calls is freed when
   the last of them ends, and none outlives the calls as a zombie. *)
NoStatementLeaks ==
  /\ TypeOK
  /\ \A h \in Handles :
       /\ statements[h] = Cardinality({i \in DOMAIN stack : stack[i].on = h})
       /\ openState[h] = "zombie" => statements[h] > 0

Returns == Len(stack') < Len(stack)

(* The reference: what a call does when it has the object for itself.  Its
   statements run up to the first that fails; the i-th takes its positional
   bindings where those before it left off. *)
Taken(call, i) ==
  Cardinality({at \in (1 .. i - 1) \X (1 .. Len(call.bindings)) :
                 at[2] <= Len(call.text[at[1]].params)})
BindingsOf(call, i) ==
  IF call.named THEN call.bindings
  ELSE SubSeq(call.bindings, Taken(call, i) + 1, Len(call.bindings))
BindsAt(call, i) == Satisfied(call.text[i], call.named, BindingsOf(call, i))
Runs(call, i) == ~call.text[i].malformed /\ BindsAt(call, i)
Succeeds(call, i) == Runs(call, i) /\ call.text[i].code = "ok"
LastRun(call) ==
  CHOOSE i \in DOMAIN call.text :
    /\ \A j \in 1 .. i - 1 : Succeeds(call, j)
    /\ i = Len(call.text) \/ ~Succeeds(call, i)
ReferenceValue(call) ==
  IF Succeeds(call, LastRun(call)) THEN "true" ELSE "false"
ReferenceMessage(call) ==
  LET last == call.text[LastRun(call)]
  IN  IF last.malformed THEN "error"
      ELSE IF Runs(call, LastRun(call)) THEN last.code ELSE "ok"
ReferenceRows(call) ==
  IF Runs(call, LastRun(call)) THEN call.text[LastRun(call)].rows ELSE 0

(* Does the object have another connection than the statement of the call that
   returns, because it was closed and opened again under it? *)
Displaced == Top.on \notin {NoHandle, db}

(* What the statement comes to that the call returns at. *)
LastOutcome ==
  LET last == Head(Top.tail)
  IN  /\ error_message' = IF last.malformed THEN "error"
                          ELSE IF Top.at = "step" THEN last.code ELSE "ok"
      /\ returned' = IF Top.at = "step" /\ last.code = "ok"
                     THEN "true" ELSE "false"

(* A call returns, and leaves in error_message, what its own statements and
   bindings come to: the calls a callback nests in it, which fail or succeed
   on the same connection before it ends, change neither.
     A call that ends on a closed object, or on a connection that was never
   opened, reports a failure, even if all its statements were executed.
     A call under whose last statement the object is closed and opened again is
   no longer the judge of its own: true or false, and the message, are what the
   last statement of the new connection came to.  One that has gone on to a
   statement of the new connection reports that one's outcome. *)
OutcomeIsOwn ==
  [][Returns =>
       IF db \notin Open
       THEN returned' = "false" /\ error_message' # "ok"
       ELSE IF Displaced
       THEN /\ error_message' = errCode[db]
            /\ returned' = IF errCode[db] = "ok" THEN "true" ELSE "false"
       ELSE /\ LastOutcome
            /\ ~Top.moved => /\ returned' = ReferenceValue(Top.call)
                             /\ error_message' = ReferenceMessage(Top.call)]_vars

(* A call nothing is nested in leaves in query_result the rows of the last
   statement it came to, all of them and in order, and none of any earlier
   query; so after a failure to prepare or to bind there are none. *)
ResultIsExact ==
  [][Returns /\ ~Top.nested /\ ~Top.moved /\ db \in Open
       => query_result' = [i \in 1 .. ReferenceRows(Top.call) |->
                             [level |-> Len(stack), row |-> i]]]_vars

(* "An empty string corresponds with the case in which the query executed
   succesfully" (README.md of the repository, of error_message), and "setting
   the message to an empty string makes much more sense" (the comment in
   update_error_message()).  The code does not keep this: the empty string is
   overwritten at once, with the text "not an error". *)
EmptyMeansSuccess ==
  [][Returns => (error_message' = "" <=> returned' = "true")]_vars
=============================================================================
