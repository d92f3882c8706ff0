------------------------ MODULE UserFunctionsProofs ------------------------
(***************************************************************************)
(* Theorems about what SQLite calls back: UserFunctions, for any           *)
(* Callables, any connections, any arguments and any depth of nesting; and *)
(* Signals, for any values, any number of rows and any statements.         *)
(***************************************************************************)
EXTENDS UserFunctions, Signals, FiniteSetTheorems, WellFoundedInduction, TLAPS

-----------------------------------------------------------------------------
(* UserFunctions. *)

(* A number of arguments of a connection is not taken, or it has the Callable
   that create_function() was last given, at an address the object owns. *)
FunctionFits(h, n) ==
  IF functions[h][n] = 0 THEN created[h][n] = Freed
  ELSE /\ functions[h][n] \in {function_registry[i] : i \in DOMAIN function_registry}
       /\ heap[functions[h][n]] = created[h][n] /\ created[h][n] \in Callables

RegistryInv ==
  /\ Len(heap) <= MaxCreated
  /\ \A i \in DOMAIN function_registry : function_registry[i] \in DOMAIN heap
  /\ \A h \in Handles, n \in Arities : FunctionFits(h, n)

(* What a statement calls is there as long as it runs. *)
StatementsInv ==
  \A i \in DOMAIN stack :
    functions[stack[i].on][stack[i].arity] # 0

FunInv == TypeOK /\ RegistryInv /\ StatementsInv

-----------------------------------------------------------------------------
(* The arguments. *)

(* A set of indices that is not empty has a maximum. *)
LEMMA MaximumOfIndices ==
  ASSUME NEW m \in Nat, NEW S \in SUBSET (1 .. m), S # {}
  PROVE  Max(S) \in S /\ \A k \in S : k <= Max(S)
  <1> DEFINE T == {m - k : k \in S}
  <1>1. T \subseteq Nat /\ T # {}
    <2>1. \A k \in S : k \in Nat /\ m - k \in Nat
      OBVIOUS
    <2>2. QED
      BY <2>1
  <1>2. PICK t \in T : \A u \in T : ~(<<u, t>> \in OpToRel(<, Nat))
    BY <1>1, NatLessThanWellFounded, WFMin
  <1>3. \A u \in T : ~(u < t)
    BY <1>1, <1>2 DEF OpToRel
  <1>4. PICK x \in S : t = m - x
    OBVIOUS
  <1>5. \A k \in S : x >= k
    <2>1. ASSUME NEW k \in S
          PROVE  x >= k
      <3>1. ~(m - k < m - x)
        BY <1>3, <1>4
      <3>2. QED
        BY <3>1
    <2>2. QED
      BY <2>1
  <1>6. Max(S) \in S /\ \A k \in S : Max(S) >= k
    BY <1>5 DEF Max
  <1>7. QED
    BY <1>6

(* What the Callable is passed are arguments. *)
LEMMA ArgumentsArePassed ==
  ASSUME NEW given \in Seq(Values)
  PROVE  argument_array(given) \in Seq(Arguments)
  <1>1. Len(given) \in Nat /\ \A k \in 1 .. Len(given) : given[k] \in Values
    OBVIOUS
  <1>2. Null \in Arguments /\ \A v \in Values : AsVariant(v) \in Arguments
    BY DEF Arguments, Values, AsVariant
  <1>3. ASSUME NEW i \in 1 .. Len(given)
        PROVE  argument_array(given)[i] \in Arguments
    <2> DEFINE set == {k \in 1 .. i : given[k] # Null}
    <2>1. argument_array(given)[i] = IF set = {} THEN Null ELSE AsVariant(given[Max(set)])
      BY DEF argument_array
    <2>2. set \in SUBSET (1 .. i) /\ i \in Nat
      BY <1>1
    <2>3. CASE set = {}
      BY <1>2, <2>1, <2>3
    <2>4. CASE set # {}
      <3>1. Max(set) \in set
        BY <2>2, <2>4, MaximumOfIndices
      <3>2. PICK x : x = Max(set)
        OBVIOUS
      <3>3. x \in 1 .. Len(given)
        BY <1>1, <3>1, <3>2
      <3> HIDE DEF set
      <3>4. given[x] \in Values
        BY <1>1, <3>3
      <3>5. QED
        BY <1>2, <2>1, <2>4, <3>2, <3>4
    <2>5. QED
      BY <2>3, <2>4
  <1>4. argument_array(given) \in [1 .. Len(given) -> Arguments]
    BY <1>3 DEF argument_array
  <1>5. QED
    BY <1>1, <1>4

-----------------------------------------------------------------------------
(* The statements in progress. *)

(* What a statement in progress consists of. *)
LEMMA CallsAre ==
  ASSUME NEW s \in Seq(Call), NEW i \in DOMAIN s
  PROVE  /\ s[i].on \in Handles /\ s[i].arity \in Arities /\ s[i].given \in Seq(Values)
         /\ s[i].callable \in Callables \union {Freed} /\ s[i].passed \in Seq(Arguments)
  <1>1. s[i] \in Call
    OBVIOUS
  <1>2. QED
    BY <1>1, ListsAssumption DEF Call

(* The innermost statement begins or ends a call of its function. *)
Calls(s, c, p) == [s EXCEPT ![1].callable = c, ![1].passed = p]

(* Nothing but that changes. *)
LEMMA CallsOne ==
  ASSUME NEW s \in Seq(Call), s # <<>>, NEW c \in Callables \union {Freed},
         NEW p \in Seq(Arguments)
  PROVE  /\ Calls(s, c, p) \in Seq(Call)
         /\ Len(Calls(s, c, p)) = Len(s)
         /\ DOMAIN Calls(s, c, p) = DOMAIN s
         /\ \A i \in DOMAIN s : /\ Calls(s, c, p)[i].on = s[i].on
                                /\ Calls(s, c, p)[i].arity = s[i].arity
                                /\ Calls(s, c, p)[i].given = s[i].given
                                /\ i # 1 => Calls(s, c, p)[i] = s[i]
         /\ Calls(s, c, p)[1].callable = c /\ Calls(s, c, p)[1].passed = p
  <1>1. 1 \in DOMAIN s /\ s[1] \in Call
    OBVIOUS
  <1>2. PICK f : f = [s[1] EXCEPT !.callable = c, !.passed = p]
    OBVIOUS
  <1>3. /\ f \in Call /\ f.on = s[1].on /\ f.arity = s[1].arity
        /\ f.given = s[1].given /\ f.callable = c /\ f.passed = p
    BY <1>1, <1>2 DEF Call
  <1>4. Calls(s, c, p) = [s EXCEPT ![1] = f]
    BY <1>1, <1>2 DEF Calls
  <1>5. QED
    BY <1>1, <1>3, <1>4

(* What is left of the statements when the innermost ends. *)
LEMMA TailOf ==
  ASSUME NEW s \in Seq(Call), s # <<>>
  PROVE  /\ Tail(s) \in Seq(Call) /\ Len(Tail(s)) <= Len(s)
         /\ \A i \in DOMAIN Tail(s) : i + 1 \in DOMAIN s /\ Tail(s)[i] = s[i + 1]
  OBVIOUS

(* A statement is added to those in progress. *)
LEMMA Prepended ==
  ASSUME NEW s \in Seq(Call), NEW f \in Call
  PROVE  /\ <<f>> \o s \in Seq(Call) /\ Len(<<f>> \o s) = Len(s) + 1
         /\ DOMAIN (<<f>> \o s) = 1 .. Len(s) + 1
         /\ (<<f>> \o s)[1] = f
         /\ \A i \in 2 .. Len(s) + 1 : i - 1 \in DOMAIN s /\ (<<f>> \o s)[i] = s[i - 1]
  OBVIOUS

-----------------------------------------------------------------------------
(* The parts of the invariant, for what an action leaves alone. *)

(* A connection that has functions is the object's or runs a statement. *)
NoneForgotten ==
  \A h \in Handles : functions[h] # NoFunctions =>
    h = db \/ \E i \in DOMAIN stack : stack[i].on = h

(* The other conjuncts of TypeOK. *)
Types ==
  /\ db \in Handles \union {NoHandle}
  /\ functions \in [Handles -> [Arities -> 0 .. MaxCreated]]
  /\ heap \in Seq(Callables \union {Freed})
  /\ function_registry \in Seq(1 .. MaxCreated)
  /\ valid \subseteq Callables
  /\ stack \in Seq(Call) /\ Len(stack) <= MaxDepth
  /\ answer.returned \in Values /\ answer.out \in Values
  /\ created \in [Handles -> [Arities -> Callables \union {Freed}]]

(* They are all. *)
LEMMA TypesAreAll == TypeOK <=> Types /\ NoneForgotten
  BY DEF TypeOK, Types, NoneForgotten

(* A connection with no function fits. *)
LEMMA NoneIsForgotten ==
  \A n \in Arities : NoFunctions[n] = 0 /\ NoneCreated[n] = Freed
  BY DEF NoFunctions, NoneCreated

(* When connections are forgotten, those that remain keep their functions. *)
LEMMA ForgetKeeps ==
  ASSUME Types, RegistryInv, NEW handle, NEW calls, Forget(handle, calls),
         UNCHANGED <<heap, function_registry>>
  PROVE  /\ functions' \in [Handles -> [Arities -> 0 .. MaxCreated]]
         /\ created' \in [Handles -> [Arities -> Callables \union {Freed}]]
         /\ \A h \in Handles :
              \/ h \notin Active(calls) \union {handle} /\ functions'[h] = NoFunctions
              \/ h \in Active(calls) \union {handle} /\ functions'[h] = functions[h]
         /\ RegistryInv'
  <1> DEFINE gone == {h \in Handles : h # handle /\ h \notin Active(calls)}
  <1>1. /\ functions' = [h \in Handles |-> IF h \in gone THEN NoFunctions ELSE functions[h]]
        /\ created' = [h \in Handles |-> IF h \in gone THEN NoneCreated ELSE created[h]]
    BY DEF Forget
  <1>2. NoFunctions \in [Arities -> 0 .. MaxCreated]
        /\ NoneCreated \in [Arities -> Callables \union {Freed}]
    BY BoundAssumption DEF NoFunctions, NoneCreated
  <1>3. functions' \in [Handles -> [Arities -> 0 .. MaxCreated]]
        /\ created' \in [Handles -> [Arities -> Callables \union {Freed}]]
    BY <1>1, <1>2 DEF Types
  <1>4. \A h \in Handles :
          \/ h \notin Active(calls) \union {handle} /\ functions'[h] = NoFunctions
             /\ created'[h] = NoneCreated
          \/ h \in Active(calls) \union {handle} /\ functions'[h] = functions[h]
             /\ created'[h] = created[h]
    BY <1>1
  <1>5. ASSUME NEW h \in Handles, NEW n \in Arities
        PROVE  FunctionFits(h, n)'
    <2>1. CASE functions'[h] = NoFunctions /\ created'[h] = NoneCreated
      BY <2>1, NoneIsForgotten DEF FunctionFits
    <2>2. CASE functions'[h] = functions[h] /\ created'[h] = created[h]
      BY <2>2 DEF FunctionFits, RegistryInv
    <2>3. QED
      BY <1>4, <2>1, <2>2
  <1>6. QED
    BY <1>3, <1>4, <1>5 DEF RegistryInv

(* What an action does not touch keeps what is said of it. *)
LEMMA Untouched ==
  /\ RegistryInv /\ UNCHANGED <<functions, heap, function_registry, created>> => RegistryInv'
  /\ StatementsInv /\ UNCHANGED <<functions, stack>> => StatementsInv'
  /\ NoneForgotten /\ UNCHANGED <<functions, stack, db>> => NoneForgotten'
  BY DEF RegistryInv, FunctionFits, StatementsInv, NoneForgotten

-----------------------------------------------------------------------------
(* The actions. *)

(* A connection is opened with no function. *)
LEMMA OpenPreserves ==
  ASSUME FunInv, open_db
  PROVE  FunInv'
  <1>1. Types /\ NoneForgotten /\ RegistryInv /\ StatementsInv
    BY TypesAreAll DEF FunInv
  <1>2. /\ db = NoHandle /\ db' \in Handles
        /\ UNCHANGED <<functions, heap, function_registry, valid, stack, answer, created>>
    BY DEF open_db
  <1>3. Types'
    BY <1>1, <1>2 DEF Types
  <1>4. NoneForgotten'
    BY <1>1, <1>2, NoHandleAssumption DEF NoneForgotten
  <1>5. RegistryInv' /\ StatementsInv'
    BY <1>1, <1>2, Untouched
  <1>6. QED
    BY <1>3, <1>4, <1>5 DEF FunInv, TypeOK, Types, NoneForgotten

(* A connection that is closed keeps its functions for its statements. *)
LEMMA ClosePreserves ==
  ASSUME FunInv, close_db
  PROVE  FunInv'
  <1>1. Types /\ NoneForgotten /\ RegistryInv /\ StatementsInv
    BY TypesAreAll DEF FunInv
  <1>2. /\ db' = NoHandle /\ Forget(NoHandle, stack)
        /\ UNCHANGED <<heap, function_registry, valid, stack, answer>>
    BY DEF close_db
  <1>3. /\ functions' \in [Handles -> [Arities -> 0 .. MaxCreated]]
        /\ created' \in [Handles -> [Arities -> Callables \union {Freed}]]
        /\ \A h \in Handles :
             \/ h \notin Active(stack) \union {NoHandle} /\ functions'[h] = NoFunctions
             \/ h \in Active(stack) \union {NoHandle} /\ functions'[h] = functions[h]
        /\ RegistryInv'
    BY <1>1, <1>2, ForgetKeeps
  <1>4. Types'
    BY <1>1, <1>2, <1>3 DEF Types
  <1>5. NoneForgotten'
    BY <1>2, <1>3, NoHandleAssumption DEF NoneForgotten, Active
  <1>6. StatementsInv'
    <2>1. \A i \in DOMAIN stack : stack[i].on \in Handles /\ stack[i].on \in Active(stack)
      BY <1>1, CallsAre DEF Types, Active
    <2>2. \A i \in DOMAIN stack : functions'[stack[i].on] = functions[stack[i].on]
      BY <1>3, <2>1
    <2>3. QED
      BY <1>1, <1>2, <2>2 DEF StatementsInv
  <1>7. QED
    BY <1>3, <1>4, <1>5, <1>6 DEF FunInv, TypeOK, Types, NoneForgotten

(* With the object everything goes. *)
LEMMA DestroyPreserves ==
  ASSUME FunInv, destroy
  PROVE  FunInv'
  <1>1. Types /\ NoneForgotten /\ RegistryInv /\ StatementsInv
    BY TypesAreAll DEF FunInv
  <1>2. /\ stack = <<>> /\ heap' = [a \in DOMAIN heap |-> Freed] /\ function_registry' = <<>>
        /\ db' = NoHandle /\ Forget(NoHandle, <<>>)
        /\ UNCHANGED <<valid, stack, answer>>
    BY DEF destroy
  <1>3. \A h \in Handles : h # NoHandle /\ h \notin Active(<<>>)
    BY NoHandleAssumption DEF Active
  <1>4. /\ functions' = [h \in Handles |-> NoFunctions]
        /\ created' = [h \in Handles |-> NoneCreated]
    BY <1>2, <1>3 DEF Forget
  <1>5. NoFunctions \in [Arities -> 0 .. MaxCreated]
        /\ NoneCreated \in [Arities -> Callables \union {Freed}]
    BY BoundAssumption DEF NoFunctions, NoneCreated
  <1>6. heap' \in Seq(Callables \union {Freed}) /\ Len(heap') = Len(heap)
    <2>1. heap \in Seq(Callables \union {Freed})
      BY <1>1 DEF Types
    <2>2. QED
      BY <1>2, <2>1
  <1>7. Types'
    BY <1>1, <1>2, <1>4, <1>5, <1>6 DEF Types
  <1>8. NoneForgotten'
    BY <1>4 DEF NoneForgotten
  <1>9. RegistryInv'
    <2>1. \A h \in Handles, n \in Arities : FunctionFits(h, n)'
      BY <1>4, NoneIsForgotten DEF FunctionFits
    <2>2. QED
      BY <1>1, <1>2, <1>6, <2>1 DEF RegistryInv
  <1>10. StatementsInv'
    BY <1>2 DEF StatementsInv
  <1>11. QED
    BY <1>7, <1>8, <1>9, <1>10 DEF FunInv, TypeOK, Types, NoneForgotten

(* A Callable is added to the registry at an address of its own; a function
   that is refused keeps the Callable it has. *)
LEMMA CreatePreserves ==
  ASSUME FunInv, NEW c \in Callables, NEW n \in Arities, create_function(c, n)
  PROVE  FunInv'
  <1>1. Types /\ NoneForgotten /\ RegistryInv /\ StatementsInv
    BY TypesAreAll DEF FunInv
  <1>2. PICK a : a = Len(heap) + 1
    OBVIOUS
  <1>3. /\ heap \in Seq(Callables \union {Freed}) /\ function_registry \in Seq(1 .. MaxCreated)
        /\ functions \in [Handles -> [Arities -> 0 .. MaxCreated]]
        /\ created \in [Handles -> [Arities -> Callables \union {Freed}]]
    BY <1>1 DEF Types
  <1>4. /\ db \in Handles /\ Len(heap) < MaxCreated
        /\ heap' = Append(heap, c) /\ function_registry' = Append(function_registry, a)
        /\ UNCHANGED <<db, valid, stack, answer>>
    BY <1>1, <1>2 DEF create_function, Push, Types
  <1>5. a \in 1 .. MaxCreated /\ a \notin DOMAIN heap
    BY <1>2, <1>3, <1>4, BoundAssumption
  <1>6. /\ heap' \in Seq(Callables \union {Freed}) /\ Len(heap') = a
        /\ heap'[a] = c /\ DOMAIN heap' = DOMAIN heap \union {a}
        /\ \A b \in DOMAIN heap : heap'[b] = heap[b]
    BY <1>2, <1>3, <1>4
  <1>7. PICK l \in Nat : l = Len(function_registry)
    BY <1>3
  <1>8. /\ function_registry' \in Seq(1 .. MaxCreated)
        /\ DOMAIN function_registry' = DOMAIN function_registry \union {l + 1}
        /\ function_registry'[l + 1] = a
        /\ \A i \in DOMAIN function_registry : function_registry'[i] = function_registry[i]
    BY <1>3, <1>4, <1>5, <1>7
  <1>9. \/ UNCHANGED <<functions, created>>
        \/ /\ functions' = [functions EXCEPT ![db][n] = a]
           /\ created' = [created EXCEPT ![db][n] = c]
    BY <1>6 DEF create_function
  <1>10. /\ functions' \in [Handles -> [Arities -> 0 .. MaxCreated]]
         /\ created' \in [Handles -> [Arities -> Callables \union {Freed}]]
         /\ \A h \in Handles, m \in Arities :
              \/ functions'[h][m] = functions[h][m] /\ created'[h][m] = created[h][m]
              \/ functions'[h][m] = a /\ created'[h][m] = c
         /\ \A h \in Handles : h # db => functions'[h] = functions[h]
    <2>1. CASE UNCHANGED <<functions, created>>
      BY <1>3, <2>1
    <2>2. CASE /\ functions' = [functions EXCEPT ![db][n] = a]
               /\ created' = [created EXCEPT ![db][n] = c]
      <3>1. a \in 0 .. MaxCreated
        BY <1>5
      <3>2. QED
        BY <1>3, <1>4, <2>2, <3>1
    <2>3. QED
      BY <1>9, <2>1, <2>2
  <1>11. Types'
    BY <1>1, <1>4, <1>6, <1>8, <1>10 DEF Types
  <1>12. NoneForgotten'
    BY <1>1, <1>4, <1>10 DEF NoneForgotten
  <1>13. RegistryInv'
    <2>1. Len(heap') <= MaxCreated
      BY <1>5, <1>6
    <2>2. \A i \in DOMAIN function_registry' : function_registry'[i] \in DOMAIN heap'
      BY <1>1, <1>6, <1>8 DEF RegistryInv
    <2>3. ASSUME NEW h \in Handles, NEW m \in Arities
          PROVE  FunctionFits(h, m)'
      <3>1. CASE functions'[h][m] = a /\ created'[h][m] = c
        <4>1. a # 0 /\ a \in {function_registry'[i] : i \in DOMAIN function_registry'}
          BY <1>5, <1>8
        <4>2. QED
          BY <1>6, <3>1, <4>1 DEF FunctionFits
      <3>2. CASE functions'[h][m] = functions[h][m] /\ created'[h][m] = created[h][m]
        <4>1. CASE functions[h][m] = 0
          BY <1>1, <3>2, <4>1 DEF RegistryInv, FunctionFits
        <4>2. CASE functions[h][m] # 0
          <5>1. FunctionFits(h, m)
            BY <1>1 DEF RegistryInv
          <5>2. PICK i \in DOMAIN function_registry : functions[h][m] = function_registry[i]
            BY <4>2, <5>1 DEF FunctionFits
          <5>3. functions[h][m] \in DOMAIN heap
            BY <1>1, <5>2 DEF RegistryInv
          <5>4. heap'[functions[h][m]] = created[h][m] /\ created[h][m] \in Callables
            BY <1>6, <4>2, <5>1, <5>3 DEF FunctionFits
          <5>5. functions[h][m] \in {function_registry'[j] : j \in DOMAIN function_registry'}
            BY <1>8, <5>2
          <5>6. QED
            BY <3>2, <4>2, <5>4, <5>5 DEF FunctionFits
        <4>3. QED
          BY <4>1, <4>2
      <3>3. QED
        BY <1>10, <3>1, <3>2
    <2>4. QED
      BY <2>1, <2>2, <2>3 DEF RegistryInv
  <1>14. StatementsInv'
    <2>1. \A i \in DOMAIN stack : stack[i].on \in Handles /\ stack[i].arity \in Arities
      BY <1>1, CallsAre DEF Types
    <2>2. a # 0
      BY <1>5
    <2>3. \A i \in DOMAIN stack : functions'[stack[i].on][stack[i].arity] # 0
      BY <1>1, <1>10, <2>1, <2>2 DEF StatementsInv
    <2>4. QED
      BY <1>1, <1>4, <2>3 DEF StatementsInv
  <1>15. QED
    BY <1>11, <1>12, <1>13, <1>14 DEF FunInv, TypeOK, Types, NoneForgotten

(* A statement is compiled to call a function that is there. *)
LEMMA PreparePreserves ==
  ASSUME FunInv, NEW given \in Lists, prepare_statement(given)
  PROVE  FunInv'
  <1>1. Types /\ NoneForgotten /\ RegistryInv /\ StatementsInv
    BY TypesAreAll DEF FunInv
  <1>2. PICK f : f = [on |-> db, arity |-> Found(Len(given)), given |-> given,
                      callable |-> Freed, passed |-> <<>>]
    OBVIOUS
  <1>3. /\ db \in Handles /\ Len(stack) < MaxDepth /\ stack' = <<f>> \o stack
        /\ functions[db][Found(Len(given))] # 0
        /\ UNCHANGED <<db, functions, heap, function_registry, valid, answer, created>>
    BY <1>1, <1>2 DEF prepare_statement, Types
  <1>4. Found(Len(given)) \in Arities
    BY DEF Found, Arities
  <1>5. f \in Call
    BY <1>2, <1>3, <1>4 DEF Call
  <1>6. stack \in Seq(Call) /\ MaxDepth \in Nat
    BY <1>1, BoundAssumption DEF Types
  <1>7. PICK l \in Nat : l = Len(stack)
    BY <1>6
  <1>8. /\ stack' \in Seq(Call) /\ Len(stack') = l + 1 /\ DOMAIN stack' = 1 .. l + 1
        /\ stack'[1] = f
        /\ \A i \in 2 .. l + 1 : i - 1 \in DOMAIN stack /\ stack'[i] = stack[i - 1]
    BY <1>3, <1>5, <1>6, <1>7, Prepended
  <1>9. Len(stack') <= MaxDepth
    BY <1>3, <1>6, <1>7, <1>8
  <1>10. Types'
    BY <1>1, <1>3, <1>8, <1>9 DEF Types
  <1>11. NoneForgotten'
    <2>1. \A i \in DOMAIN stack : i + 1 \in DOMAIN stack' /\ stack'[i + 1] = stack[i]
      <3>1. DOMAIN stack = 1 .. l
        BY <1>6, <1>7
      <3>2. QED
        BY <1>8, <3>1
    <2>2. ASSUME NEW h \in Handles, functions'[h] # NoFunctions
          PROVE  h = db' \/ \E i \in DOMAIN stack' : stack'[i].on = h
      <3>1. h = db \/ \E i \in DOMAIN stack : stack[i].on = h
        BY <1>1, <1>3, <2>2 DEF NoneForgotten
      <3>2. CASE h = db
        BY <1>3, <3>2
      <3>3. ASSUME NEW i \in DOMAIN stack, stack[i].on = h
            PROVE  \E j \in DOMAIN stack' : stack'[j].on = h
        BY <2>1, <3>3
      <3>4. QED
        BY <3>1, <3>2, <3>3
    <2>3. QED
      BY <2>2 DEF NoneForgotten, NoFunctions
  <1>12. RegistryInv'
    BY <1>1, <1>3, Untouched
  <1>13. StatementsInv'
    <2>1. /\ f.callable = Freed /\ functions[f.on][f.arity] # 0
      BY <1>2, <1>3
    <2>2. ASSUME NEW i \in DOMAIN stack'
          PROVE  i = 1 \/ i \in 2 .. l + 1
      BY <1>8
    <2>3. QED
      BY <1>1, <1>3, <1>8, <2>1, <2>2 DEF StatementsInv
  <1>14. QED
    BY <1>10, <1>11, <1>12, <1>13 DEF FunInv, TypeOK, Types, NoneForgotten

(* While a statement begins or ends a call, nothing else changes. *)
LEMMA CallPreserves ==
  ASSUME FunInv, stack # <<>>,
         NEW c \in Callables \union {Freed}, NEW p \in Seq(Arguments),
         stack' = Calls(stack, c, p),
         answer' = answer \/ (answer'.returned \in Values /\ answer'.out \in Values),
         UNCHANGED <<db, functions, heap, function_registry, valid, created>>
  PROVE  FunInv'
  <1>1. Types /\ NoneForgotten /\ RegistryInv /\ StatementsInv
    BY TypesAreAll DEF FunInv
  <1>2. stack \in Seq(Call)
    BY <1>1 DEF Types
  <1>3. /\ stack' \in Seq(Call)
        /\ Len(stack') = Len(stack)
        /\ DOMAIN stack' = DOMAIN stack
        /\ \A i \in DOMAIN stack : /\ stack'[i].on = stack[i].on
                                   /\ stack'[i].arity = stack[i].arity
                                   /\ stack'[i].given = stack[i].given
                                   /\ i # 1 => stack'[i] = stack[i]
        /\ stack'[1].callable = c /\ stack'[1].passed = p
    BY ONLY stack # <<>>, <1>2, stack' = Calls(stack, c, p), CallsOne, SMTT(30)
  <1>4. Types'
    <2>1. answer'.returned \in Values /\ answer'.out \in Values
      BY <1>1 DEF Types
    <2>2. QED
      BY <1>1, <1>3, <2>1 DEF Types
  <1>5. NoneForgotten'
    BY <1>1, <1>3 DEF NoneForgotten
  <1>6. RegistryInv'
    BY <1>1, Untouched
  <1>7. StatementsInv'
    BY <1>1, <1>3 DEF StatementsInv
  <1>8. QED
    BY <1>4, <1>5, <1>6, <1>7 DEF FunInv, TypeOK, Types, NoneForgotten

(* The function is called, or answers NULL. *)
LEMMA CallbackPreserves ==
  ASSUME FunInv, function_callback
  PROVE  FunInv'
  <1>1. Types /\ NoneForgotten /\ RegistryInv /\ StatementsInv
    BY TypesAreAll DEF FunInv
  <1>2. stack # <<>> /\ stack \in Seq(Call)
        /\ UNCHANGED <<db, functions, heap, function_registry, valid, created>>
    BY <1>1 DEF function_callback, CallerRuns, Types
  <1>3. stack[1].given \in Seq(Values)
    BY <1>2, CallsAre
  <1>4. CASE answer' = [returned |-> Null, out |-> Null] /\ UNCHANGED stack
    <2>1. answer'.returned \in Values /\ answer'.out \in Values
      BY <1>4 DEF Values
    <2>2. Types'
      BY <1>1, <1>2, <1>4, <2>1 DEF Types
    <2>3. NoneForgotten' /\ RegistryInv' /\ StatementsInv'
      BY <1>1, <1>2, <1>4, Untouched
    <2>4. QED
      BY <2>2, <2>3 DEF FunInv, TypeOK, Types, NoneForgotten
  <1>5. ASSUME NEW c \in valid, answer' = answer,
               stack' = Calls(stack, c, argument_array(stack[1].given))
        PROVE  FunInv'
    <2>1. c \in Callables \union {Freed}
      BY <1>1 DEF Types
    <2>2. argument_array(stack[1].given) \in Seq(Arguments)
      BY <1>3, ArgumentsArePassed
    <2>3. QED
      BY <1>2, <1>5, <2>1, <2>2, CallPreserves
  <1>6. QED
    BY <1>4, <1>5 DEF function_callback, Calls

(* The function returns. *)
LEMMA ReturnsPreserves ==
  ASSUME FunInv, NEW value \in Values, Returns(value)
  PROVE  FunInv'
  <1>1. /\ stack # <<>> /\ stack' = Calls(stack, Freed, <<>>)
        /\ UNCHANGED <<db, functions, heap, function_registry, valid, created>>
    BY DEF Returns, Calling, Calls
  <1>2. answer'.returned \in Values /\ answer'.out \in Values
    BY DEF Returns, Values
  <1>3. <<>> \in Seq(Arguments) /\ Freed \in Callables \union {Freed}
    OBVIOUS
  <1>4. QED
    BY <1>1, <1>2, <1>3, CallPreserves

(* With its last statement a closed connection goes. *)
LEMMA FinalizePreserves ==
  ASSUME FunInv, finalize
  PROVE  FunInv'
  <1>1. Types /\ NoneForgotten /\ RegistryInv /\ StatementsInv
    BY TypesAreAll DEF FunInv
  <1>2. /\ stack # <<>> /\ stack \in Seq(Call) /\ stack' = Tail(stack)
        /\ Forget(db, stack')
        /\ UNCHANGED <<db, heap, function_registry, valid, answer>>
    BY <1>1 DEF finalize, CallerRuns, Types
  <1>3. /\ stack' \in Seq(Call) /\ Len(stack') <= Len(stack)
        /\ \A i \in DOMAIN stack' : i + 1 \in DOMAIN stack /\ stack'[i] = stack[i + 1]
    BY <1>2, TailOf
  <1>4. PICK calls : calls = stack'
    OBVIOUS
  <1>5. /\ functions' \in [Handles -> [Arities -> 0 .. MaxCreated]]
        /\ created' \in [Handles -> [Arities -> Callables \union {Freed}]]
        /\ \A h \in Handles :
             \/ h \notin Active(calls) \union {db} /\ functions'[h] = NoFunctions
             \/ h \in Active(calls) \union {db} /\ functions'[h] = functions[h]
        /\ RegistryInv'
    BY <1>1, <1>2, <1>4, ForgetKeeps
  <1>6. Types'
    <2>1. Len(stack') <= MaxDepth
      <3>1. Len(stack) <= MaxDepth /\ Len(stack) \in Nat /\ Len(stack') \in Nat /\ MaxDepth \in Nat
        BY <1>1, <1>2, <1>3, BoundAssumption DEF Types
      <3>2. QED
        BY <1>3, <3>1
    <2>2. QED
      BY <1>1, <1>2, <1>3, <1>5, <2>1 DEF Types
  <1>7. NoneForgotten'
    BY <1>2, <1>4, <1>5 DEF NoneForgotten, Active
  <1>8. StatementsInv'
    <2>1. \A i \in DOMAIN stack' : stack'[i].on \in Handles /\ stack'[i].on \in Active(calls)
      BY <1>3, <1>4, CallsAre DEF Active
    <2>2. \A i \in DOMAIN stack' : functions'[stack'[i].on] = functions[stack'[i].on]
      BY <1>5, <2>1
    <2>3. QED
      BY <1>1, <1>3, <2>2 DEF StatementsInv
  <1>9. QED
    BY <1>5, <1>6, <1>7, <1>8 DEF FunInv, TypeOK, Types, NoneForgotten

-----------------------------------------------------------------------------
(* The theorems. *)

(* There is no function yet. *)
LEMMA InitFun == Init => FunInv
  <1> SUFFICES ASSUME Init
               PROVE  FunInv
    OBVIOUS
  <1>1. NoFunctions \in [Arities -> 0 .. MaxCreated]
        /\ NoneCreated \in [Arities -> Callables \union {Freed}]
    BY BoundAssumption DEF NoFunctions, NoneCreated
  <1>2. /\ functions = [h \in Handles |-> NoFunctions] /\ created = [h \in Handles |-> NoneCreated]
        /\ heap = <<>> /\ function_registry = <<>> /\ stack = <<>>
        /\ db = NoHandle /\ valid = Callables
        /\ answer.returned = Null /\ answer.out = Null
    BY DEF Init
  <1>3. Len(stack) = 0 /\ Len(heap) = 0
    BY <1>2
  <1>4. Types
    BY <1>1, <1>2, <1>3, BoundAssumption DEF Types, Values
  <1>5. NoneForgotten
    BY <1>2 DEF NoneForgotten
  <1>6. RegistryInv
    <2>1. \A h \in Handles, n \in Arities : FunctionFits(h, n)
      BY <1>2, NoneIsForgotten DEF FunctionFits
    <2>2. QED
      BY <1>2, <1>3, <2>1, BoundAssumption DEF RegistryInv
  <1>7. StatementsInv
    BY <1>2 DEF StatementsInv
  <1>8. QED
    BY <1>4, <1>5, <1>6, <1>7, TypesAreAll DEF FunInv

(* Every action preserves the invariant. *)
LEMMA NextFun == FunInv /\ [Next]_vars => FunInv'
  <1> SUFFICES ASSUME FunInv, [Next]_vars
               PROVE  FunInv'
    OBVIOUS
  <1>1. CASE open_db
    BY <1>1, OpenPreserves
  <1>2. CASE close_db
    BY <1>2, ClosePreserves
  <1>3. CASE destroy
    BY <1>3, DestroyPreserves
  <1>4. ASSUME NEW c \in Callables, free(c)
        PROVE  FunInv'
    BY <1>4, Untouched, TypesAreAll DEF free, FunInv, TypeOK, Types, NoneForgotten
  <1>5. ASSUME NEW c \in Callables, NEW n \in Arities, create_function(c, n)
        PROVE  FunInv'
    BY <1>5, CreatePreserves
  <1>6. ASSUME NEW given \in Lists, prepare_statement(given)
        PROVE  FunInv'
    BY <1>6, PreparePreserves
  <1>7. CASE function_callback
    BY <1>7, CallbackPreserves
  <1>8. CASE finalize
    BY <1>8, FinalizePreserves
  <1>9. ASSUME NEW value \in Values, Returns(value)
        PROVE  FunInv'
    BY <1>9, ReturnsPreserves
  <1>10. CASE UNCHANGED vars
    BY <1>10, Untouched DEF vars, FunInv, TypeOK, NoneForgotten
  <1>11. QED
    BY <1>1, <1>2, <1>3, <1>4, <1>5, <1>6, <1>7, <1>8, <1>9, <1>10 DEF Next

(* The Callable of every function is one the object holds, the last that was
   created for it; and a statement has its function as long as it runs. *)
THEOREM FunInvariant == Spec => []FunInv
  BY InitFun, NextFun, PTL DEF Spec

(* What a query calls is a Callable that the object still holds. *)
THEOREM FunctionsDoNotDangle == Spec => []NoDanglingFunctions
  <1>1. FunInv => NoDanglingFunctions
    <2> SUFFICES ASSUME FunInv
                 PROVE  NoDanglingFunctions
      OBVIOUS
    <2>1. Types
      BY TypesAreAll DEF FunInv
    <2>2. Active(stack) \subseteq Handles
      BY <2>1, CallsAre DEF Types, Active
    <2>3. Active(stack) \union ({db} \ {NoHandle}) \subseteq Handles
      BY <2>1, <2>2 DEF Types
    <2>4. QED
      BY <2>3 DEF FunInv, RegistryInv, FunctionFits, NoDanglingFunctions
  <1>2. QED
    BY <1>1, FunInvariant, PTL

(* A function is answered by the Callable that create_function() returned true
   for last. *)
THEOREM TheLastCreatedAnswers == Spec => []LastCreatedAnswers
  <1>1. FunInv => LastCreatedAnswers
    BY DEF FunInv, RegistryInv, FunctionFits, LastCreatedAnswers
  <1>2. QED
    BY <1>1, FunInvariant, PTL

-----------------------------------------------------------------------------
(* Signals. *)

IsOneToOne(rows) == \A x, y \in DOMAIN rows : rows[x] = rows[y] => x = y

(* What a statement has still to go through; a row that moves is one of the
   table, once. *)
TodoInv ==
  /\ kind \in {"insert", "replace"} => todo \in Seq(ColumnValues)
  /\ kind \in {"update", "move", "delete"} => todo \in Seq(Rowids)
  /\ kind \in {"clear", "none"} => todo = <<>>
  /\ kind = "move" => /\ \A n \in DOMAIN todo : todo[n] \in DOMAIN work
                      /\ \A n, k \in DOMAIN todo : todo[n] = todo[k] => n = k

SignalsInv ==
  /\ SignalsTypeOK /\ NoRowIsUnheard /\ NoGhosts
  /\ IsOneToOne(file) /\ IsOneToOne(work) /\ IsOneToOne(start)
  /\ TodoInv

(* A table is a function from rowids to values. *)
LEMMA TableIs ==
  ASSUME NEW rows
  PROVE  rows \in Tables
           <=> /\ rows = [r \in DOMAIN rows |-> rows[r]]
               /\ DOMAIN rows \subseteq Rowids
               /\ \A r \in DOMAIN rows : rows[r] \in ColumnValues
  <1>1. ASSUME rows \in Tables
        PROVE  /\ rows = [r \in DOMAIN rows |-> rows[r]]
               /\ DOMAIN rows \subseteq Rowids
               /\ \A r \in DOMAIN rows : rows[r] \in ColumnValues
    BY <1>1 DEF Tables
  <1>2. ASSUME /\ rows = [r \in DOMAIN rows |-> rows[r]]
               /\ DOMAIN rows \subseteq Rowids
               /\ \A r \in DOMAIN rows : rows[r] \in ColumnValues
        PROVE  rows \in Tables
    <2>1. rows \in [DOMAIN rows -> ColumnValues]
      BY <1>2
    <2>2. QED
      BY <1>2, <2>1 DEF Tables
  <1>3. QED
    BY <1>1, <1>2

(* A row that is put in a table where no other has its value, and rows that
   are taken from it. *)
LEMMA PutIs ==
  ASSUME NEW rows \in Tables, IsOneToOne(rows), NEW r \in Rowids, NEW v \in ColumnValues,
         \A x \in DOMAIN rows : rows[x] = v => x = r
  PROVE  /\ Put(rows, r, v) \in Tables /\ IsOneToOne(Put(rows, r, v))
         /\ DOMAIN Put(rows, r, v) = DOMAIN rows \union {r}
  <1> DEFINE new == Put(rows, r, v)
  <1>1. /\ new = [x \in DOMAIN new |-> new[x]] /\ DOMAIN new = DOMAIN rows \union {r}
        /\ \A x \in DOMAIN new : new[x] = IF x = r THEN v ELSE rows[x]
    BY DEF Put
  <1>2. DOMAIN rows \subseteq Rowids /\ \A x \in DOMAIN rows : rows[x] \in ColumnValues
    BY TableIs
  <1> HIDE DEF new
  <1>3. new \in Tables
    BY <1>1, <1>2, TableIs
  <1>4. IsOneToOne(new)
    BY <1>1 DEF IsOneToOne
  <1>5. QED
    BY <1>1, <1>3, <1>4 DEF new

(* Rows that are taken from a table. *)
LEMMA TakeIs ==
  ASSUME NEW rows \in Tables, IsOneToOne(rows), NEW S
  PROVE  /\ Take(rows, S) \in Tables /\ IsOneToOne(Take(rows, S))
         /\ DOMAIN Take(rows, S) = DOMAIN rows \ S
         /\ \A x \in DOMAIN rows \ S : Take(rows, S)[x] = rows[x]
  <1> DEFINE new == Take(rows, S)
  <1>1. /\ new = [x \in DOMAIN new |-> new[x]] /\ DOMAIN new = DOMAIN rows \ S
        /\ \A x \in DOMAIN new : new[x] = rows[x]
    BY DEF Take
  <1>2. DOMAIN rows \subseteq Rowids /\ \A x \in DOMAIN rows : rows[x] \in ColumnValues
    BY TableIs
  <1> HIDE DEF new
  <1>3. new \in Tables
    BY <1>1, <1>2, TableIs
  <1>4. IsOneToOne(new)
    BY <1>1 DEF IsOneToOne
  <1>5. QED
    BY <1>1, <1>3, <1>4 DEF new

(* The rows that match a condition are gone through once each. *)
LEMMA RowsInOrder ==
  ASSUME NEW S \in SUBSET Rowids
  PROVE  /\ SetToSeq(S) \in Seq(S) /\ SetToSeq(S) \in Seq(Rowids)
         /\ \A n \in DOMAIN SetToSeq(S) : SetToSeq(S)[n] \in S
         /\ \A n, k \in DOMAIN SetToSeq(S) : SetToSeq(S)[n] = SetToSeq(S)[k] => n = k
  <1> DEFINE m == Cardinality(S)
             s == SetToSeq(S)
  <1>1. IsFiniteSet(S)
    <2>1. IsFiniteSet(Rowids)
      BY MaxRowidAssumption, FS_Interval DEF Rowids
    <2>2. QED
      BY <2>1, FS_Subset
  <1>2. m \in Nat /\ ExistsBijection(1 .. m, S)
    BY <1>1, FS_CardinalityType
  <1>3. \E f \in [1 .. m -> S] : IsInjective(f)
    BY <1>2 DEF ExistsBijection, Bijection, Injection, IsInjective
  <1>4. s \in [1 .. m -> S] /\ IsInjective(s)
    BY <1>3 DEF SetToSeq
  <1>5. s \in Seq(S) /\ DOMAIN s = 1 .. m
    BY <1>2, <1>4
  <1>6. \A n \in DOMAIN s : s[n] \in S
    BY <1>4
  <1>7. s \in Seq(Rowids)
    BY <1>5
  <1>8. \A n, k \in DOMAIN s : s[n] = s[k] => n = k
    BY <1>4 DEF IsInjective
  <1>9. QED
    BY <1>5, <1>6, <1>7, <1>8

(* The rest of a list. *)
LEMMA RestIs ==
  ASSUME NEW S, NEW list \in Seq(S), list # <<>>
  PROVE  /\ Head(list) \in S /\ Tail(list) \in Seq(S) /\ Head(list) = list[1]
         /\ 1 \in DOMAIN list
         /\ \A n \in DOMAIN Tail(list) : /\ n + 1 \in DOMAIN list /\ Tail(list)[n] = list[n + 1]
                                         /\ n \in Nat /\ n + 1 # 1
  OBVIOUS

(* A statement begins with a list of values, or of rows. *)
LEMMA StartsPreserves ==
  ASSUME SignalsInv, NEW k \in Kinds, NEW list, Starts(k, list),
         \/ k \in {"insert", "replace"} /\ list \in Seq(ColumnValues)
         \/ \E S \in SUBSET DOMAIN work : k \in {"update", "move", "delete"} /\ list = SetToSeq(S)
         \/ k = "clear" /\ list = <<>>
  PROVE  SignalsInv'
  <1>1. /\ kind' = k /\ todo' = list /\ start' = work
        /\ UNCHANGED <<file, work, autocommit, mirror, undone, silent>>
    BY DEF Starts, store
  <1>2. DOMAIN work \subseteq Rowids
    BY TableIs DEF SignalsInv, SignalsTypeOK
  <1>3. TodoInv' /\ list \in Seq(ColumnValues \union Rowids)
    <2>1. CASE k \in {"insert", "replace"} /\ list \in Seq(ColumnValues)
      BY <1>1, <2>1 DEF TodoInv
    <2>2. CASE \E S \in SUBSET DOMAIN work : k \in {"update", "move", "delete"} /\ list = SetToSeq(S)
      <3>1. PICK S \in SUBSET DOMAIN work :
              k \in {"update", "move", "delete"} /\ list = SetToSeq(S)
        BY <2>2
      <3>2. /\ list \in Seq(Rowids) /\ \A n \in DOMAIN list : list[n] \in DOMAIN work
            /\ \A n, m \in DOMAIN list : list[n] = list[m] => n = m
        BY <1>2, <3>1, RowsInOrder
      <3>3. list \in Seq(ColumnValues \union Rowids)
        BY <3>2
      <3>4. TodoInv'
        BY <1>1, <3>1, <3>2 DEF TodoInv
      <3>5. QED
        BY <3>3, <3>4
    <2>3. CASE k = "clear" /\ list = <<>>
      BY <1>1, <2>3 DEF TodoInv
    <2>4. QED
      BY <2>1, <2>2, <2>3
  <1>4. SignalsTypeOK'
    <2>1. IsInjective(work)'
      BY <1>1 DEF SignalsInv, SignalsTypeOK, IsInjective
    <2>2. QED
      BY <1>1, <1>3, <2>1 DEF SignalsInv, SignalsTypeOK
  <1>5. QED
    BY <1>1, <1>3, <1>4 DEF SignalsInv, NoRowIsUnheard, NoGhosts, IsOneToOne

(* A row of a statement that is done, and heard of as the listener must. *)
LEMMA RowPreserves ==
  ASSUME SignalsInv, kind \in {"insert", "replace", "update", "move", "delete"}, todo # <<>>, Rest,
         work' \in Tables, IsOneToOne(work'), mirror' \subseteq Rowids, silent' \in BOOLEAN,
         NoRowIsUnheard', NoGhosts',
         kind = "move" => \A r \in DOMAIN work : r # Head(todo) => r \in DOMAIN work'
  PROVE  SignalsInv'
  <1>1. todo' = Tail(todo) /\ UNCHANGED <<file, autocommit, kind, start, undone>>
    BY DEF Rest
  <1>2. todo \in Seq(ColumnValues \union Rowids)
    BY DEF SignalsInv, SignalsTypeOK
  <1>3. todo' \in Seq(ColumnValues \union Rowids)
    BY <1>1, <1>2, RestIs
  <1>4. TodoInv'
    <2>1. kind \in {"insert", "replace"} => todo' \in Seq(ColumnValues)
      BY <1>1, RestIs DEF SignalsInv, TodoInv
    <2>2. kind \in {"update", "move", "delete"} => todo' \in Seq(Rowids)
      BY <1>1, RestIs DEF SignalsInv, TodoInv
    <2>3. kind = "move" => /\ \A n \in DOMAIN todo' : todo'[n] \in DOMAIN work'
                           /\ \A n, k \in DOMAIN todo' : todo'[n] = todo'[k] => n = k
      <3>1. SUFFICES ASSUME kind = "move"
                     PROVE  /\ \A n \in DOMAIN todo' : todo'[n] \in DOMAIN work'
                            /\ \A n, k \in DOMAIN todo' : todo'[n] = todo'[k] => n = k
        OBVIOUS
      <3>2. /\ \A n \in DOMAIN todo : todo[n] \in DOMAIN work
            /\ \A n, k \in DOMAIN todo : todo[n] = todo[k] => n = k
        BY <3>1 DEF SignalsInv, TodoInv
      <3>3. /\ Head(todo) = todo[1] /\ 1 \in DOMAIN todo
            /\ \A n \in DOMAIN todo' : /\ n + 1 \in DOMAIN todo /\ todo'[n] = todo[n + 1]
                                       /\ n \in Nat /\ n + 1 # 1
        BY <1>1, <1>2, RestIs
      <3>4. \A n \in DOMAIN todo' : todo'[n] \in DOMAIN work /\ todo'[n] # Head(todo)
        BY <3>2, <3>3
      <3>5. \A n, k \in DOMAIN todo' : todo'[n] = todo'[k] => n = k
        <4>1. ASSUME NEW n \in DOMAIN todo', NEW k \in DOMAIN todo', todo'[n] = todo'[k]
              PROVE  n = k
          <5>1. n + 1 = k + 1
            BY <3>2, <3>3, <4>1
          <5>2. QED
            BY <3>3, <5>1
        <4>2. QED
          BY <4>1
      <3>6. QED
        BY <3>1, <3>4, <3>5
    <2>4. QED
      BY <1>1, <2>1, <2>2, <2>3 DEF TodoInv
  <1>5. SignalsTypeOK'
    <2>1. IsInjective(work)'
      BY DEF IsInjective, IsOneToOne
    <2>2. QED
      BY <1>1, <1>3, <2>1 DEF SignalsInv, SignalsTypeOK
  <1>6. QED
    BY <1>1, <1>4, <1>5 DEF SignalsInv, IsOneToOne

(* A table that is as it was at a time before, and a statement that is over. *)
LEMMA BackPreserves ==
  ASSUME SignalsInv, work' \in Tables, IsOneToOne(work'), kind' = "none", todo' = <<>>,
         undone' = (undone \/ work # work'), autocommit' \in BOOLEAN,
         file' \in {file, work} , UNCHANGED <<start, mirror, silent>>
  PROVE  SignalsInv'
  <1>1. TodoInv'
    BY DEF TodoInv
  <1>2. SignalsTypeOK'
    <2>1. IsInjective(work)'
      BY DEF IsInjective, IsOneToOne
    <2>2. <<>> \in Seq(ColumnValues \union Rowids)
      OBVIOUS
    <2>3. QED
      BY <2>1, <2>2 DEF SignalsInv, SignalsTypeOK
  <1>3. NoRowIsUnheard' /\ NoGhosts'
    BY DEF SignalsInv, SignalsTypeOK, NoRowIsUnheard, NoGhosts
  <1>4. QED
    BY <1>1, <1>2, <1>3 DEF SignalsInv, IsOneToOne

(* Every step preserves what the listener knows. *)
LEMMA SignalsPreserved == SignalsInv /\ [SignalsNext]_signalsVars => SignalsInv'
  <1> SUFFICES ASSUME SignalsInv, [SignalsNext]_signalsVars PROVE SignalsInv'
    OBVIOUS
  <1>a. /\ work \in Tables /\ IsOneToOne(work) /\ DOMAIN work \subseteq Rowids
        /\ mirror \subseteq Rowids /\ silent \in BOOLEAN /\ undone \in BOOLEAN
        /\ todo \in Seq(ColumnValues \union Rowids)
    BY TableIs DEF SignalsInv, SignalsTypeOK
  <1>b. NoRowIsUnheard /\ NoGhosts
    BY DEF SignalsInv
  <1>1. CASE insert_row \/ replace \/ update_rows \/ delete_rows
    <2>1. CASE insert_row \/ replace
      <3>1. PICK values \in Inserts, k \in {"insert", "replace"} : Starts(k, values)
        BY <2>1 DEF insert_row, replace
      <3>2. k \in Kinds /\ values \in Seq(ColumnValues)
        BY InsertsAssumption DEF Kinds
      <3>3. QED
        BY <3>1, <3>2, StartsPreserves
    <2>2. CASE update_rows
      <3>1. PICK S \in SUBSET DOMAIN work, k \in {"update", "move"} : Starts(k, SetToSeq(S))
        BY <2>2 DEF update_rows
      <3>2. PICK list : list = SetToSeq(S)
        OBVIOUS
      <3>3. k \in Kinds
        BY DEF Kinds
      <3>4. QED
        BY <3>1, <3>2, <3>3, StartsPreserves
    <2>3. CASE delete_rows
      <3>1. CASE \E S \in SUBSET DOMAIN work : Starts("delete", SetToSeq(S))
        <4>1. PICK S \in SUBSET DOMAIN work : Starts("delete", SetToSeq(S))
          BY <3>1
        <4>2. PICK list : list = SetToSeq(S)
          OBVIOUS
        <4>3. "delete" \in Kinds
          BY DEF Kinds
        <4>4. QED
          BY <4>1, <4>2, <4>3, StartsPreserves
      <3>2. CASE Starts("clear", <<>>)
        <4>1. "clear" \in Kinds
          BY DEF Kinds
        <4>2. QED
          BY <3>2, <4>1, StartsPreserves
      <3>3. QED
        BY <2>3, <3>1, <3>2 DEF delete_rows
    <2>4. QED
      BY <1>1, <2>1, <2>2, <2>3
  <1>2. CASE InsertRow
    <2> DEFINE r == NewRowid(work)
               v == Head(todo)
    <2>1. /\ kind = "insert" /\ todo # <<>> /\ Rest /\ silent' = silent
          /\ With(work, v) = {} /\ r \in Rowids /\ work' = Put(work, r, v)
          /\ mirror' = mirror \union {r}
      BY <1>2 DEF InsertRow, On, emit_signal
    <2>2. v \in ColumnValues /\ \A x \in DOMAIN work : work[x] # v
      BY <2>1, RestIs DEF SignalsInv, TodoInv, With
    <2> HIDE DEF r, v
    <2>3. work' \in Tables /\ IsOneToOne(work') /\ DOMAIN work' = DOMAIN work \union {r}
      BY <1>a, <2>1, <2>2, PutIs
    <2>4. NoRowIsUnheard' /\ NoGhosts'
      BY <1>b, <2>1, <2>3 DEF NoRowIsUnheard, NoGhosts, Rest
    <2>5. QED
      BY <1>a, <2>1, <2>3, <2>4, RowPreserves
  <1>3. CASE ReplaceRow
    <2> DEFINE r    == NewRowid(work)
               v    == Head(todo)
               gone == With(work, v)
    <2>1. /\ kind = "replace" /\ todo # <<>> /\ Rest /\ silent' = (silent \/ gone # {})
          /\ r \in Rowids /\ work' = Put(Take(work, gone), r, v)
          /\ mirror' = mirror \union {r}
      BY <1>3 DEF ReplaceRow, On, emit_signal
    <2>2. v \in ColumnValues
      BY <2>1, RestIs DEF SignalsInv, TodoInv
    <2>3. PICK left : /\ left = Take(work, gone) /\ left \in Tables /\ IsOneToOne(left)
                      /\ DOMAIN left = DOMAIN work \ gone
                      /\ \A x \in DOMAIN left : left[x] # v
      <3>1. \A x \in DOMAIN work \ gone : work[x] # v
        BY DEF With
      <3> HIDE DEF gone, v
      <3>2. /\ Take(work, gone) \in Tables /\ IsOneToOne(Take(work, gone))
            /\ DOMAIN Take(work, gone) = DOMAIN work \ gone
            /\ \A x \in DOMAIN work \ gone : Take(work, gone)[x] = work[x]
        BY <1>a, TakeIs
      <3>3. \A x \in DOMAIN Take(work, gone) : Take(work, gone)[x] # v
        BY <3>1, <3>2
      <3>4. QED
        BY <3>2, <3>3
    <2> HIDE DEF r, v, gone
    <2>4. /\ work' \in Tables /\ IsOneToOne(work')
          /\ DOMAIN work' = (DOMAIN work \ gone) \union {r}
      BY <2>1, <2>2, <2>3, PutIs
    <2>5. NoRowIsUnheard' /\ NoGhosts'
      BY <1>b, <2>1, <2>4 DEF NoRowIsUnheard, NoGhosts, Rest
    <2>6. silent' \in BOOLEAN
      BY <1>a, <2>1
    <2>7. QED
      BY <1>a, <2>1, <2>4, <2>5, <2>6, RowPreserves
  <1>4. CASE UpdateRow
    <2> DEFINE r == Head(todo)
    <2>1. PICK v \in ColumnValues : With(work, v) = {} /\ work' = Put(work, r, v)
      BY <1>4 DEF UpdateRow
    <2>2. /\ kind = "update" /\ todo # <<>> /\ Rest /\ silent' = silent
          /\ mirror' = mirror \union {r}
      BY <1>4 DEF UpdateRow, On, emit_signal
    <2>3. r \in Rowids
      BY <2>2, RestIs DEF SignalsInv, TodoInv
    <2>4. \A x \in DOMAIN work : work[x] # v
      BY <2>1 DEF With
    <2> HIDE DEF r
    <2>5. work' \in Tables /\ IsOneToOne(work') /\ DOMAIN work' = DOMAIN work \union {r}
      BY <1>a, <2>1, <2>3, <2>4, PutIs
    <2>6. NoRowIsUnheard' /\ NoGhosts'
      BY <1>b, <2>2, <2>5 DEF NoRowIsUnheard, NoGhosts, Rest
    <2>7. QED
      BY <1>a, <2>2, <2>3, <2>5, <2>6, RowPreserves
  <1>5. CASE MoveRow
    <2> DEFINE h == Head(todo)
    <2>1. PICK r \in Rowids \ DOMAIN work :
            work' = Put(Take(work, {h}), r, work[h]) /\ mirror' = mirror \union {r}
      BY <1>5 DEF MoveRow, emit_signal
    <2>2. kind = "move" /\ todo # <<>> /\ Rest /\ silent' = TRUE
      BY <1>5 DEF MoveRow, On
    <2>3. h \in DOMAIN work
      BY <1>a, <2>2, RestIs DEF SignalsInv, TodoInv
    <2>4. work[h] \in ColumnValues
      BY <1>a, <2>3, TableIs
    <2>5. PICK v \in ColumnValues : v = work[h]
      BY <2>4
    <2>6. PICK left : /\ left = Take(work, {h}) /\ left \in Tables /\ IsOneToOne(left)
                      /\ DOMAIN left = DOMAIN work \ {h}
                      /\ \A x \in DOMAIN left : left[x] # v
      <3>1. \A x \in DOMAIN work \ {h} : work[x] # v
        BY <1>a, <2>3, <2>5 DEF IsOneToOne
      <3> HIDE DEF h
      <3>2. /\ Take(work, {h}) \in Tables /\ IsOneToOne(Take(work, {h}))
            /\ DOMAIN Take(work, {h}) = DOMAIN work \ {h}
            /\ \A x \in DOMAIN work \ {h} : Take(work, {h})[x] = work[x]
        BY <1>a, TakeIs
      <3>3. \A x \in DOMAIN Take(work, {h}) : Take(work, {h})[x] # v
        BY <3>1, <3>2
      <3>4. QED
        BY <3>2, <3>3
    <2> HIDE DEF h
    <2>7. /\ work' \in Tables /\ IsOneToOne(work')
          /\ DOMAIN work' = (DOMAIN work \ {h}) \union {r}
      BY <2>1, <2>5, <2>6, PutIs
    <2>8. NoRowIsUnheard' /\ NoGhosts'
      BY <1>b, <2>1, <2>2, <2>7 DEF NoRowIsUnheard, NoGhosts, Rest
    <2>9. \A x \in DOMAIN work : x # h => x \in DOMAIN work'
      BY <2>7
    <2>10. QED
      BY <1>a, <2>1, <2>2, <2>7, <2>8, <2>9, RowPreserves DEF h
  <1>6. CASE DeleteRow
    <2> DEFINE r == Head(todo)
    <2>1. /\ kind = "delete" /\ todo # <<>> /\ Rest /\ silent' = silent
          /\ work' = Take(work, {r}) /\ mirror' = mirror \ {r}
      BY <1>6 DEF DeleteRow, On, emit_signal
    <2> HIDE DEF r
    <2>2. work' \in Tables /\ IsOneToOne(work') /\ DOMAIN work' = DOMAIN work \ {r}
      BY <1>a, <2>1, TakeIs
    <2>3. NoRowIsUnheard' /\ NoGhosts'
      BY <1>b, <2>1, <2>2 DEF NoRowIsUnheard, NoGhosts, Rest
    <2>4. QED
      BY <1>a, <2>1, <2>2, <2>3, RowPreserves
  <1>7. CASE Clear
    <2>1. /\ kind = "clear" /\ kind' = "delete" /\ work' = NoRows
          /\ silent' = (silent \/ DOMAIN work # {})
          /\ UNCHANGED <<file, autocommit, todo, start, undone, mirror>>
      BY <1>7 DEF Clear, NoSignal
    <2>2. todo = <<>>
      BY <2>1 DEF SignalsInv, TodoInv
    <2>3. work' \in Tables /\ DOMAIN work' = {} /\ IsInjective(work)' /\ IsOneToOne(work)'
      BY <2>1, TableIs DEF NoRows, IsInjective, IsOneToOne
    <2>4. <<>> \in Seq(Rowids)
      OBVIOUS
    <2>5. TodoInv'
      BY <2>1, <2>2, <2>4 DEF TodoInv
    <2>6. silent' \in BOOLEAN
      BY <1>a, <2>1
    <2>7. SignalsTypeOK'
      BY <2>1, <2>3, <2>6 DEF SignalsInv, SignalsTypeOK, Kinds
    <2>8. NoRowIsUnheard' /\ NoGhosts'
      BY <1>b, <2>1, <2>3 DEF NoRowIsUnheard, NoGhosts
    <2>9. QED
      BY <2>1, <2>3, <2>5, <2>7, <2>8 DEF SignalsInv, IsOneToOne
  <1>8. CASE Fails \/ Breaks
    <2>1. /\ work' \in {start, file} /\ kind' = "none" /\ todo' = <<>> /\ autocommit' \in BOOLEAN
          /\ undone' = (undone \/ work # work') /\ UNCHANGED <<file, start, mirror, silent>>
      BY <1>8 DEF Fails, Breaks, SignalsInv, SignalsTypeOK
    <2>2. work' \in Tables /\ IsOneToOne(work')
      BY <2>1 DEF SignalsInv, SignalsTypeOK
    <2>3. QED
      BY <2>1, <2>2, BackPreserves
  <1>9. CASE Completes \/ BEGIN_TRANSACTION \/ END_TRANSACTION
    <2>1. /\ work' = work /\ kind' = "none" /\ file' \in {file, work} /\ autocommit' \in BOOLEAN
          /\ UNCHANGED <<start, mirror, silent, undone>>
      BY <1>9 DEF Completes, BEGIN_TRANSACTION, END_TRANSACTION, SignalsInv, SignalsTypeOK
    <2>2. todo' = <<>>
      BY <1>9 DEF Completes, BEGIN_TRANSACTION, END_TRANSACTION, SignalsInv, TodoInv
    <2>3. undone' = (undone \/ work # work')
      BY <1>a, <2>1
    <2>4. QED
      BY <1>a, <2>1, <2>2, <2>3, BackPreserves
  <1>10. CASE ROLLBACK_or_close
    <2>1. /\ work' = file /\ kind' = "none" /\ autocommit' \in BOOLEAN /\ todo' = todo
          /\ kind = "none"
          /\ undone' = (undone \/ work # work') /\ UNCHANGED <<file, start, mirror, silent>>
      BY <1>10 DEF ROLLBACK_or_close
    <2>2. work' \in Tables /\ IsOneToOne(work') /\ todo' = <<>>
      BY <2>1 DEF SignalsInv, SignalsTypeOK, TodoInv
    <2>3. QED
      BY <2>1, <2>2, BackPreserves
  <1>11. CASE UNCHANGED signalsVars
    BY <1>11 DEF signalsVars, store, SignalsInv, SignalsTypeOK, NoRowIsUnheard, NoGhosts, TodoInv,
                 IsInjective, IsOneToOne
  <1>12. QED
    BY <1>1, <1>2, <1>3, <1>4, <1>5, <1>6, <1>7, <1>8, <1>9, <1>10, <1>11 DEF SignalsNext

(* The inductive invariant of the signals: what the listener knows, the tables
   that a statement or a transaction may go back to, and what is still to do. *)
THEOREM SignalsInvariant == SignalsSpec => []SignalsInv
  <1>1. SignalsInit => SignalsInv
    <2>1. ASSUME SignalsInit PROVE SignalsInv
      <3>1. NoRows \in Tables /\ DOMAIN NoRows = {} /\ IsInjective(NoRows) /\ IsOneToOne(NoRows)
        BY TableIs DEF NoRows, IsInjective, IsOneToOne
      <3>2. <<>> \in Seq(ColumnValues \union Rowids)
        OBVIOUS
      <3>3. QED
        BY <2>1, <3>1, <3>2 DEF SignalsInit, SignalsInv, SignalsTypeOK, NoRowIsUnheard, NoGhosts,
                                TodoInv
    <2>2. QED
      BY <2>1
  <1>2. QED
    BY <1>1, SignalsPreserved, PTL DEF SignalsSpec

(* A listener that keeps the rowids it is told of follows the table, whatever
   the statements, the values and the transactions. *)
THEOREM ListenersFollow == SignalsSpec => []ListenerFollows
  <1>1. SignalsInv => ListenerFollows
    BY DEF SignalsInv, ListenerFollows
  <1>2. QED
    BY <1>1, SignalsInvariant, PTL
=============================================================================
