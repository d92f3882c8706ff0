---------------------------- MODULE UserFunctions ----------------------------
(***************************************************************************)
(* create_function() and function_callback(): one SQL function, of any     *)
(* number of arguments, and the Callables that answer it.  The object      *)
(* keeps every Callable it was given in function_registry; the connection  *)
(* keeps the address of one for each number of arguments.  A Callable may  *)
(* run queries, create functions, close and open the object, all while the *)
(* statement that calls it is running.                                     *)
(***************************************************************************)
EXTENDS Integers, Sequences, FiniteSets, SequencesExt

CONSTANTS Handles, NoHandle,    \* the sqlite3 objects, and nullptr
          Callables,            \* what create_function() is given
          Freed,                \* memory that holds no Callable any more
          Null, Numbers, Texts, \* the values of SQL
          Latin1,               \* String(const char *), of the UTF-8 of a text:
                                \*   the text itself if all of it is ASCII
          Lists,                \* the arguments of the calls
          MaxDepth,             \* bound on the calls nested in one another
          MaxCreated            \* bound on the calls of create_function()

Values == {Null} \union Numbers \union Texts

ASSUME NoHandleAssumption == NoHandle \notin Handles
ASSUME FreedAssumption == Freed \notin Callables
ASSUME ListsAssumption == Lists \subseteq Seq(Values) \ {<<>>}
ASSUME ValuesAssumption == Null \notin Numbers \union Texts /\ Numbers \intersect Texts = {}
ASSUME Latin1Assumption == DOMAIN Latin1 = Texts /\ \A t \in Texts : Latin1[t] # Null
ASSUME BoundAssumption == MaxDepth \in Nat \ {0} /\ MaxCreated \in Nat

(* What a Callable may be passed. *)
Arguments == Values \union {Latin1[t] : t \in Texts}

(* The number of arguments of a function; AnyNumber for all. *)
AnyNumber == -1
Arities   == {AnyNumber} \union {Len(l) : l \in Lists}

VARIABLES db,                 \* the object's sqlite3*
          functions,          \* functions[h][n]: FuncDef.pUserData, or 0
          heap,               \* the Callables, by address, oldest first
          function_registry,  \* the addresses the object owns
          valid,              \* the Callables whose object still exists
          stack,              \* the statements in progress, the innermost first
          answer,             \* what the last call returned, and what came out
          created             \* as functions, with the Callable that
                              \*   create_function() returned true for (history)

vars == <<db, functions, heap, function_registry, valid, stack, answer, created>>

NoFunctions == [n \in Arities |-> 0]
NoneCreated == [n \in Arities |-> Freed]

(* A statement in progress: its connection, the function it was compiled to
   call and with what; and the Callable it is calling, Freed between calls. *)
Call == [on : Handles, arity : Arities, given : Lists,
         callable : Callables \union {Freed}, passed : Seq(Arguments)]

TypeOK ==
  /\ db \in Handles \union {NoHandle}
  /\ functions \in [Handles -> [Arities -> 0 .. MaxCreated]]
  /\ heap \in Seq(Callables \union {Freed})
  /\ function_registry \in Seq(1 .. MaxCreated)
  /\ valid \subseteq Callables
  /\ stack \in Seq(Call) /\ Len(stack) <= MaxDepth
  /\ answer.returned \in Values /\ answer.out \in Values
  /\ created \in [Handles -> [Arities -> Callables \union {Freed}]]
  /\ \A h \in Handles : functions[h] # NoFunctions =>
       h = db \/ \E i \in DOMAIN stack : stack[i].on = h

Init ==
  /\ db = NoHandle
  /\ functions = [h \in Handles |-> NoFunctions]
  /\ heap = <<>> /\ function_registry = <<>>
  /\ valid = Callables
  /\ stack = <<>>
  /\ answer = [returned |-> Null, out |-> Null]
  /\ created = [h \in Handles |-> NoneCreated]

-----------------------------------------------------------------------------
(* The connections. *)

(* The caller's code runs: outside any statement, or inside a Callable. *)
Calling    == stack # <<>> /\ stack[1].callable # Freed
CallerRuns == stack = <<>> \/ Calling

(* The connections with a statement that is running. *)
Active(calls) == {calls[i].on : i \in DOMAIN calls}

(* A closed connection lives until its last statement is finalized. *)
Forget(handle, calls) ==
  LET gone == {h \in Handles : h # handle /\ h \notin Active(calls)}
  IN  /\ functions' = [h \in Handles |-> IF h \in gone THEN NoFunctions ELSE functions[h]]
      /\ created'   = [h \in Handles |-> IF h \in gone THEN NoneCreated ELSE created[h]]

open_db ==
  /\ CallerRuns
  /\ db = NoHandle
  /\ db' \in Handles \ Active(stack)
  /\ UNCHANGED <<functions, heap, function_registry, valid, stack, answer, created>>

close_db ==
  /\ CallerRuns
  /\ db # NoHandle
  /\ db' = NoHandle
  /\ Forget(NoHandle, stack)
  /\ UNCHANGED <<heap, function_registry, valid, stack, answer>>

(* ~SQLite(); the next object starts with an empty registry. *)
destroy ==
  /\ stack = <<>>
  /\ heap' = [a \in DOMAIN heap |-> Freed] /\ function_registry' = <<>>
  /\ db' = NoHandle
  /\ Forget(NoHandle, <<>>)
  /\ UNCHANGED <<valid, stack, answer>>

-----------------------------------------------------------------------------
(* create_function() *)

(* Mutant: the Callables are elements of the vector, and move as it grows. *)
PushMoving(callable) ==
  /\ heap' = [a \in DOMAIN heap |-> Freed]
                \o [i \in DOMAIN function_registry |-> heap[function_registry[i]]]
                \o <<callable>>
  /\ function_registry' = [i \in 1 .. Len(function_registry) + 1 |-> Len(heap) + i]

(* push_back(make_unique<Callable>()) *)
Push(callable) ==
  /\ heap' = Append(heap, callable)
  /\ function_registry' = Append(function_registry, Len(heap) + 1)

(* sqlite3CreateFunc(): SQLITE_BUSY, a function in use cannot be replaced. *)
Refused(n) == functions[db][n] # 0 /\ db \in Active(stack)

(* Mutant: true is returned whatever SQLite says. *)
create_function_ignoring(callable, n) ==
  /\ CallerRuns /\ db # NoHandle
  /\ Len(heap) < MaxCreated
  /\ Push(callable)
  /\ functions' = IF Refused(n) THEN functions
                  ELSE [functions EXCEPT ![db][n] = Len(heap')]
  /\ created' = [created EXCEPT ![db][n] = callable]
  /\ UNCHANGED <<db, valid, stack, answer>>

(* The Callable is registered first, and stays when SQLite refuses it. *)
create_function(callable, n) ==
  /\ CallerRuns /\ db # NoHandle
  /\ Len(heap) < MaxCreated
  /\ Push(callable)
  /\ \/ Refused(n) /\ UNCHANGED <<functions, created>>
     \/ ~Refused(n) /\ functions' = [functions EXCEPT ![db][n] = Len(heap')]
                    /\ created' = [created EXCEPT ![db][n] = callable]
  /\ UNCHANGED <<db, valid, stack, answer>>

(* The object of a Callable is freed. *)
free(callable) ==
  /\ valid' = valid \ {callable}
  /\ UNCHANGED <<db, functions, heap, function_registry, stack, answer, created>>

-----------------------------------------------------------------------------
(* A query that calls the function, and function_callback(). *)

(* sqlite3FindFunction(): the exact number of arguments is the better match. *)
Found(n) == IF functions[db][n] # 0 THEN n ELSE AnyNumber

(* The statement is compiled; "no such function" leaves all as it is. *)
prepare_statement(given) ==
  /\ CallerRuns /\ db # NoHandle /\ Len(stack) < MaxDepth
  /\ functions[db][Found(Len(given))] # 0
  /\ stack' = <<[on |-> db, arity |-> Found(Len(given)), given |-> given,
                 callable |-> Freed, passed |-> <<>>]>> \o stack
  /\ UNCHANGED <<db, functions, heap, function_registry, valid, answer, created>>

(* The Variant of a text is made of its bytes, a character for each of them. *)
AsVariant(value) == IF value \in Texts THEN Latin1[value] ELSE value

(* argument_value is declared outside the loop, and NULL leaves it alone: each
   argument is the last one so far that is not NULL. *)
argument_array(given) ==
  [i \in 1 .. Len(given) |->
     LET set == {k \in 1 .. i : given[k] # Null}
     IN  IF set = {} THEN Null ELSE AsVariant(given[Max(set)])]

(* For each row.  A Callable that is not valid is not called, and leaves the
   result NULL. *)
function_callback ==
  /\ ~CallerRuns
  /\ LET callable == heap[functions[stack[1].on][stack[1].arity]]
     IN  \/ /\ callable \in valid
            /\ stack' = [stack EXCEPT ![1].callable = callable,
                                      ![1].passed = argument_array(stack[1].given)]
            /\ UNCHANGED answer
         \/ /\ callable \notin valid
            /\ answer' = [returned |-> Null, out |-> Null]
            /\ UNCHANGED stack
  /\ UNCHANGED <<db, functions, heap, function_registry, valid, created>>

(* The Callable returns; the value becomes the result, and the row is read.
   The memory of a text is freed in between, and may hold another by then. *)
Returns(value) ==
  /\ Calling
  /\ stack' = [stack EXCEPT ![1].callable = Freed, ![1].passed = <<>>]
  /\ \E out \in IF value \in Texts THEN Texts ELSE {value} :
       answer' = [returned |-> value, out |-> out]
  /\ UNCHANGED <<db, functions, heap, function_registry, valid, created>>

(* There are no more rows, and the statement is finalized. *)
finalize ==
  /\ ~CallerRuns
  /\ stack' = Tail(stack)
  /\ Forget(db, Tail(stack))
  /\ UNCHANGED <<db, heap, function_registry, valid, answer>>

Next ==
  \/ open_db \/ close_db \/ destroy
  \/ \E c \in Callables : free(c) \/ \E n \in Arities : create_function(c, n)
  \/ \E given \in Lists : prepare_statement(given)
  \/ function_callback \/ finalize
  \/ \E value \in Values : Returns(value)

Spec == Init /\ [][Next]_vars
-----------------------------------------------------------------------------
(* Properties. *)

(* "Luckily, the pointer to the managed object won't change during
   execution": whatever a query of the open connection calls, or one that is
   still running on a closed one, is a Callable that the object holds, however
   often functions are created, refused and replaced. *)
NoDanglingFunctions ==
  /\ TypeOK
  /\ \A h \in Active(stack) \union ({db} \ {NoHandle}), n \in Arities :
       functions[h][n] # 0 =>
         /\ functions[h][n] \in {function_registry[i] : i \in DOMAIN function_registry}
         /\ heap[functions[h][n]] \in Callables

(* ... and it is the one that create_function() last returned true for on
   this connection: one that was refused answers nothing, later neither. *)
LastCreatedAnswers ==
  \A h \in Handles, n \in Arities :
    (functions[h][n] = 0 /\ created[h][n] = Freed) \/ heap[functions[h][n]] = created[h][n]

(* "Check the value type and do correct casting" (the comment in
   function_callback()): a Callable is passed the arguments of its function, each
   as it is.  The code does not keep this: a NULL is passed as the argument that
   stands before it, and a text that is not ASCII as another text. *)
ArgumentsArrive ==
  \A i \in DOMAIN stack :
    stack[i].callable # Freed => stack[i].passed = stack[i].given
=============================================================================
