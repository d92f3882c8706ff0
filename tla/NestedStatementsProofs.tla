----------------------- MODULE NestedStatementsProofs -----------------------
(***************************************************************************)
(* Theorems about NestedStatements, for any table, any number of calls     *)
(* nested in one another and any number of rows in a call, with and        *)
(* without I/O errors.                                                     *)
(***************************************************************************)
EXTENDS NestedStatements, FiniteSetTheorems, TLAPS

(* The calls that have opened a statement transaction. *)
Journaled(calls) == {i \in DOMAIN calls : calls[i].iStatement > 0}

(* Between two writes of autocommit mode nothing is open. *)
IdleIsClean ==
  autocommit /\ Writing(stack) = {}
    => content = file /\ savepoints = <<>> /\ nStatement = 0

(* Rows are only added: the content includes every savepoint, a savepoint
   those opened before it, and all of them the file. *)
ContentGrows ==
  /\ file \subseteq content
  /\ \A i \in DOMAIN savepoints :
       /\ file \subseteq savepoints[i] /\ savepoints[i] \subseteq content
       /\ \A j \in DOMAIN savepoints : j < i => savepoints[j] \subseteq savepoints[i]

OnlyWritesJournal ==
  \A i \in DOMAIN stack : stack[i].kind # "write" => stack[i].iStatement = 0

(* Every statement transaction SQLite counts is one of a call in progress. *)
JournalsAreCounted == nStatement <= Cardinality(Journaled(stack))

StackInv ==
  /\ TypeOK
  /\ IdleIsClean
  /\ ContentGrows
  /\ OnlyWritesJournal
  /\ JournalsAreCounted

-----------------------------------------------------------------------------
(* The stack of calls. *)

(* A call is pushed. *)
LEMMA PushFacts ==
  ASSUME NEW s \in Seq(Calls), NEW e \in Calls
  PROVE  /\ Append(s, e) \in Seq(Calls) /\ Append(s, e) # <<>>
         /\ Len(Append(s, e)) = Len(s) + 1
         /\ DOMAIN Append(s, e) = DOMAIN s \union {Len(s) + 1}
         /\ Append(s, e)[Len(s) + 1] = e
         /\ \A i \in DOMAIN s : Append(s, e)[i] = s[i]
         /\ Writing(Append(s, e)) =
              Writing(s) \union IF e.kind = "write" THEN {Len(s) + 1} ELSE {}
         /\ Journaled(Append(s, e)) =
              Journaled(s) \union IF e.iStatement > 0 THEN {Len(s) + 1} ELSE {}
  <1>1. /\ Append(s, e) \in Seq(Calls) /\ Append(s, e) # <<>>
        /\ Len(Append(s, e)) = Len(s) + 1
        /\ DOMAIN Append(s, e) = DOMAIN s \union {Len(s) + 1}
        /\ Append(s, e)[Len(s) + 1] = e
        /\ \A i \in DOMAIN s : Append(s, e)[i] = s[i]
    OBVIOUS
  <1> QED BY <1>1 DEF Writing, Journaled

(* The innermost call is popped. *)
LEMMA PopFacts ==
  ASSUME NEW s \in Seq(Calls), s # <<>>
  PROVE  /\ Front(s) \in Seq(Calls)
         /\ Len(s) \in DOMAIN s
         /\ Len(Front(s)) = Len(s) - 1
         /\ DOMAIN Front(s) = DOMAIN s \ {Len(s)}
         /\ \A i \in DOMAIN Front(s) : Front(s)[i] = s[i] /\ i < Len(s)
         /\ Last(s) = s[Len(s)] /\ Last(s) \in Calls
         /\ Writing(Front(s)) = Writing(s) \ {Len(s)}
         /\ Journaled(Front(s)) = Journaled(s) \ {Len(s)}
  <1>1. /\ Front(s) \in Seq(Calls)
        /\ Len(s) \in DOMAIN s
        /\ Len(Front(s)) = Len(s) - 1
        /\ DOMAIN Front(s) = DOMAIN s \ {Len(s)}
        /\ \A i \in DOMAIN Front(s) : Front(s)[i] = s[i] /\ i < Len(s)
        /\ Last(s) = s[Len(s)] /\ Last(s) \in Calls
    <2>1. /\ Len(s) \in Nat \ {0} /\ DOMAIN s = 1 .. Len(s)
          /\ Len(s) \in DOMAIN s
      OBVIOUS
    <2>2. 1 - 1 <= Len(s) - 1 /\ Len(s) - 1 \in Nat
      BY <2>1
    <2>3. Front(s) \in Seq(Calls) /\ Len(Front(s)) = Len(s) - 1
      BY <2>1, <2>2 DEF Front
    <2>4. DOMAIN Front(s) = 1 .. Len(s) - 1
      BY <2>3
    <2>5. \A i \in 1 .. Len(s) - 1 : Front(s)[i] = s[i]
      BY <2>1, <2>2 DEF Front
    <2>6. 1 .. Len(s) - 1 = (1 .. Len(s)) \ {Len(s)}
      BY <2>1
    <2> QED BY <2>1, <2>3, <2>4, <2>5, <2>6 DEF Last
  <1> QED BY <1>1 DEF Writing, Journaled

(* A rollback trips the writes, which stay what they are. *)
LEMMA TrippedFacts ==
  ASSUME NEW s \in Seq(Calls)
  PROVE  /\ Tripped(s) \in Seq(Calls) /\ Len(Tripped(s)) = Len(s)
         /\ DOMAIN Tripped(s) = DOMAIN s
         /\ \A i \in DOMAIN s : /\ Tripped(s)[i].kind = s[i].kind
                                /\ Tripped(s)[i].iStatement = s[i].iStatement
         /\ s = <<>> => Tripped(s) = <<>>
         /\ Writing(Tripped(s)) = Writing(s)
         /\ Journaled(Tripped(s)) = Journaled(s)
  <1>1. \A i \in DOMAIN s :
          /\ [s[i] EXCEPT !.tripped = @ \/ s[i].kind = "write"] \in Calls
          /\ [s[i] EXCEPT !.tripped = @ \/ s[i].kind = "write"].kind
               = s[i].kind
          /\ [s[i] EXCEPT !.tripped = @ \/ s[i].kind = "write"].iStatement
               = s[i].iStatement
    <2> SUFFICES ASSUME NEW i \in DOMAIN s
                 PROVE  /\ [s[i] EXCEPT !.tripped = @ \/ s[i].kind = "write"]
                             \in Calls
                        /\ [s[i] EXCEPT !.tripped = @ \/ s[i].kind = "write"]
                             .kind = s[i].kind
                        /\ [s[i] EXCEPT !.tripped = @ \/ s[i].kind = "write"]
                             .iStatement = s[i].iStatement
      OBVIOUS
    <2>1. s[i] \in Calls
      OBVIOUS
    <2> QED BY <2>1 DEF Calls
  <1>2. /\ Tripped(s) \in Seq(Calls) /\ Len(Tripped(s)) = Len(s)
        /\ DOMAIN Tripped(s) = DOMAIN s
    BY <1>1 DEF Tripped
  <1>3. \A i \in DOMAIN s : /\ Tripped(s)[i].kind = s[i].kind
                            /\ Tripped(s)[i].iStatement = s[i].iStatement
    BY <1>1 DEF Tripped
  <1> QED BY <1>2, <1>3 DEF Writing, Journaled

(* The calls with a statement transaction are finitely many. *)
LEMMA JournaledIsFinite ==
  ASSUME NEW s \in Seq(Calls)
  PROVE  /\ IsFiniteSet(Journaled(s))
         /\ Cardinality(Journaled(s)) \in Nat
         /\ Cardinality(Journaled(s)) <= Len(s)
  <1>1. Journaled(s) \subseteq 1 .. Len(s) /\ Len(s) \in Nat
    BY DEF Journaled
  <1>2. IsFiniteSet(1 .. Len(s)) /\ Cardinality(1 .. Len(s)) = Len(s)
    <2>1. 1 \in Int /\ Len(s) \in Int
      BY <1>1
    <2>2. Cardinality(1 .. Len(s)) = IF 1 > Len(s) THEN 0 ELSE Len(s) - 1 + 1
      BY <2>1, FS_Interval
    <2> QED BY <1>1, <2>1, <2>2, FS_Interval
  <1>3. /\ IsFiniteSet(Journaled(s))
        /\ Cardinality(Journaled(s)) <= Cardinality(1 .. Len(s))
    BY <1>1, <1>2, FS_Subset
  <1>4. Cardinality(Journaled(s)) \in Nat
    BY <1>3, FS_CardinalityType
  <1> QED BY <1>1, <1>2, <1>3, <1>4

(* A table has finitely many rows, so a set of one row is what its
   Cardinality says. *)
LEMMA RowsAreFinite ==
  ASSUME NEW rows \in SUBSET Rows
  PROVE  IsFiniteSet(rows) /\ Cardinality(rows) \in Nat
  BY RowsAssumption, FS_Subset, FS_CardinalityType

-----------------------------------------------------------------------------
(* StackInv is inductive. *)

(* A step that keeps the data, or opens a transaction, or commits or rolls
   back everything, keeps StackInv if the stack it leaves fits. *)
LEMMA DataKeepsStackInv ==
  ASSUME StackInv,
         \/ UNCHANGED <<file, content, autocommit, nStatement, savepoints>>
         \/ BeginTransaction \/ CommitAll \/ RollbackAll,
         stack' \in Seq(Calls), Len(stack') <= MaxDepth,
         OnlyWritesJournal',
         Journaled(stack) = Journaled(stack')
           \/ CommitAll \/ RollbackAll,
         Writing(stack') = {} =>
           Writing(stack) = {} \/ ~autocommit' \/ CommitAll \/ RollbackAll,
         rc' \in {"ok", "error", "abort", "ioerr"}, crossed' \in BOOLEAN
  PROVE  StackInv'
  <1> USE DEF StackInv, TypeOK, BoundsAssumption
  <1>1. Cardinality(Journaled(stack')) \in Nat
    BY JournaledIsFinite
  <1>2. stack' = <<>> => Writing(stack') = {}
    BY DEF Writing
  <1>3. CASE CommitAll \/ RollbackAll
    <2>1. /\ file' \subseteq Rows /\ content' = file' /\ autocommit' = TRUE
          /\ nStatement' = 0 /\ savepoints' = <<>>
      BY <1>3 DEF CommitAll, RollbackAll, Savepoints
    <2>2. /\ savepoints' \in Seq(SUBSET Rows) /\ Len(savepoints') = 0
          /\ DOMAIN savepoints' = {}
      BY <2>1
    <2>3. JournalsAreCounted'
      BY <1>1, <2>1 DEF JournalsAreCounted
    <2> QED BY <2>1, <2>2, <2>3, BoundsAssumption
            DEF IdleIsClean, ContentGrows
  <1>4. CASE UNCHANGED <<file, content, autocommit, nStatement, savepoints>>
             /\ ~CommitAll /\ ~RollbackAll
    <2>1. JournalsAreCounted'
      BY <1>4 DEF JournalsAreCounted
    <2>2. IdleIsClean' /\ ContentGrows'
      BY <1>4 DEF IdleIsClean, ContentGrows
    <2> QED BY <1>2, <1>4, <2>1, <2>2 DEF IdleIsClean
  <1>5. CASE BeginTransaction /\ ~CommitAll /\ ~RollbackAll
    <2>1. /\ UNCHANGED <<file, content, savepoints>> /\ autocommit' = FALSE
          /\ nStatement' \in {0, nStatement}
      BY <1>5 DEF BeginTransaction, Savepoints
    <2>2. JournalsAreCounted'
      BY <1>1, <1>5, <2>1 DEF JournalsAreCounted
    <2>3. IdleIsClean' /\ ContentGrows'
      BY <2>1 DEF IdleIsClean, ContentGrows
    <2>4. nStatement' \in 0 .. MaxDepth
      BY <2>1, BoundsAssumption
    <2>5. TypeOK'
      BY <2>1, <2>4
    <2> QED BY <2>2, <2>3, <2>5
  <1> QED BY <1>3, <1>4, <1>5

(* The frame of a write, with its statement transaction. *)
Frame(rows, i) == IF i = 0 THEN Call("write", rows)
                           ELSE [Call("write", rows) EXCEPT !.iStatement = i]

(* The savepoints after the i-th statement transaction is opened. *)
Opened(i) ==
  IF i > Len(savepoints)
  THEN savepoints \o [j \in 1 .. i - Len(savepoints) |-> content]
  ELSE savepoints

(* A frame is a call, of a write. *)
LEMMA FrameType ==
  ASSUME NEW rows \in SUBSET Rows, NEW i \in 0 .. MaxDepth
  PROVE  /\ Frame(rows, i) \in Calls /\ Frame(rows, i).kind = "write"
         /\ Frame(rows, i).iStatement = i /\ Frame(rows, i).own = {}
         /\ Frame(rows, i).todo = rows /\ ~Frame(rows, i).begun
         /\ ~Frame(rows, i).tripped
  <1>1. Call("write", rows) \in Calls
    BY BoundsAssumption DEF Call, Calls
  <1> QED BY <1>1 DEF Frame, Call, Calls

(* A write is pushed on the stack, with or without a statement journal. *)
LEMMA OpenStatementFacts ==
  ASSUME StackInv, NEW calls \in Seq(Calls), NEW rows \in SUBSET Rows,
         Len(stack) < MaxDepth, OpenStatement(calls, rows)
  PROVE  \E i \in 0 .. MaxDepth :
           /\ Frame(rows, i) \in Calls /\ stack' = Append(calls, Frame(rows, i))
           /\ \/ /\ ~Journals(rows) /\ i = 0
                 /\ UNCHANGED <<nStatement, savepoints>>
              \/ /\ Journals(rows) /\ i = nStatement + 1 /\ i > 0
                 /\ nStatement' = i /\ savepoints' = Opened(i)
  <1> USE DEF StackInv, TypeOK
  <1>2. CASE Journals(rows)
    <2>1. PICK i : i = nStatement + 1
      OBVIOUS
    <2>2. i \in 0 .. MaxDepth /\ i > 0
      <3>1. /\ Cardinality(Journaled(stack)) \in Nat
            /\ Cardinality(Journaled(stack)) <= Len(stack)
        BY JournaledIsFinite
      <3> QED BY <2>1, <3>1, BoundsAssumption DEF JournalsAreCounted
    <2>3. /\ stack' = Append(calls, Frame(rows, i))
          /\ nStatement' = i /\ savepoints' = Opened(i)
      BY <1>2, <2>1 DEF OpenStatement, Frame, Opened
    <2> QED BY <1>2, <2>1, <2>2, <2>3, FrameType
  <1>3. CASE ~Journals(rows)
    <2>1. 0 \in 0 .. MaxDepth /\ Frame(rows, 0) = Call("write", rows)
      BY BoundsAssumption DEF Frame
    <2>2. /\ Frame(rows, 0) \in Calls /\ stack' = Append(calls, Frame(rows, 0))
          /\ UNCHANGED <<nStatement, savepoints>>
      BY <1>3, <2>1, FrameType DEF OpenStatement
    <2> QED BY <1>3, <2>1, <2>2
  <1> QED BY <1>2, <1>3

(* What the new savepoints are. *)
LEMMA OpenedFacts ==
  ASSUME StackInv, NEW i \in 1 .. MaxDepth
  PROVE  /\ Opened(i) \in Seq(SUBSET Rows)
         /\ Len(Opened(i)) = IF i > Len(savepoints) THEN i ELSE Len(savepoints)
         /\ \A k \in DOMAIN savepoints : Opened(i)[k] = savepoints[k]
         /\ \A k \in DOMAIN Opened(i) : k \notin DOMAIN savepoints
              => Opened(i)[k] = content
  <1> USE DEF StackInv, TypeOK
  <1>1. CASE i > Len(savepoints)
    <2> DEFINE new == [j \in 1 .. i - Len(savepoints) |-> content]
    <2>1. i - Len(savepoints) \in Nat
      BY <1>1, BoundsAssumption
    <2>2. new \in Seq(SUBSET Rows) /\ Len(new) = i - Len(savepoints)
      BY <2>1
    <2>3. \A j \in 1 .. Len(new) : new[j] = content
      BY <2>2
    <2>4. Opened(i) = savepoints \o new
      BY <1>1 DEF Opened
    <2> HIDE DEF new
    <2>5. /\ Len(savepoints) \in Nat /\ DOMAIN savepoints = 1 .. Len(savepoints)
          /\ savepoints \in Seq(SUBSET Rows)
      OBVIOUS
    <2>6. savepoints \o new \in Seq(SUBSET Rows)
      BY <2>2, <2>5
    <2>7. Len(savepoints \o new) = Len(savepoints) + Len(new)
      BY <2>2, <2>5
    <2>8. Len(Opened(i)) = i
      BY <1>1, <2>2, <2>4, <2>5, <2>7
    <2>9. ASSUME NEW k \in 1 .. i
          PROVE  Opened(i)[k] = IF k <= Len(savepoints) THEN savepoints[k]
                                                        ELSE content
      <3>1. k \in 1 .. Len(savepoints) + Len(new)
        BY <1>1, <2>2, <2>5
      <3>2. (savepoints \o new)[k] =
              IF k <= Len(savepoints) THEN savepoints[k]
                                      ELSE new[k - Len(savepoints)]
        BY <2>2, <2>5, <3>1
      <3>3. k > Len(savepoints) => k - Len(savepoints) \in 1 .. Len(new)
        BY <2>2, <2>5, <3>1
      <3> QED BY <2>3, <2>4, <3>2, <3>3
    <2> QED BY <1>1, <2>4, <2>5, <2>6, <2>8, <2>9
  <1>2. CASE ~(i > Len(savepoints))
    BY <1>2, BoundsAssumption DEF Opened
  <1> QED BY <1>1, <1>2

(* StackInv, part by part. *)
LEMMA StackInvFacts ==
  ASSUME StackInv
  PROVE  /\ stack \in Seq(Calls) /\ Len(stack) \in Nat /\ Len(stack) <= MaxDepth
         /\ savepoints \in Seq(SUBSET Rows) /\ Len(savepoints) \in Nat
         /\ Len(savepoints) <= MaxDepth /\ MaxDepth \in Nat
         /\ nStatement \in Nat /\ nStatement <= MaxDepth
         /\ file \subseteq Rows /\ content \subseteq Rows
         /\ autocommit \in BOOLEAN /\ crossed \in BOOLEAN
         /\ nStatement <= Cardinality(Journaled(stack))
         /\ IsFiniteSet(Journaled(stack))
         /\ Cardinality(Journaled(stack)) \in Nat
         /\ \A i \in DOMAIN stack : stack[i] \in Calls
  <1>1. TypeOK /\ JournalsAreCounted
    BY DEF StackInv
  <1>2. stack \in Seq(Calls)
    BY <1>1 DEF TypeOK
  <1>3. /\ IsFiniteSet(Journaled(stack))
        /\ Cardinality(Journaled(stack)) \in Nat
    BY <1>2, JournaledIsFinite
  <1>4. nStatement \in Nat /\ nStatement <= MaxDepth
    BY <1>1, BoundsAssumption DEF TypeOK
  <1> QED BY <1>1, <1>2, <1>3, <1>4, BoundsAssumption
          DEF TypeOK, JournalsAreCounted

(* ... and put together again after a step. *)
LEMMA StackInvFromParts ==
  ASSUME stack' \in Seq(Calls), Len(stack') <= MaxDepth,
         savepoints' \in Seq(SUBSET Rows), Len(savepoints') <= MaxDepth,
         nStatement' \in Nat, nStatement' <= MaxDepth,
         file' \subseteq Rows, content' \subseteq Rows,
         autocommit' \in BOOLEAN, crossed' \in BOOLEAN,
         rc' \in {"ok", "error", "abort", "ioerr"},
         IdleIsClean', ContentGrows', OnlyWritesJournal', JournalsAreCounted'
  PROVE  StackInv'
  <1>1. stack' = <<>> => Writing(stack') = {}
    BY DEF Writing
  <1>2. nStatement' \in 0 .. MaxDepth
    BY BoundsAssumption
  <1>3. TypeOK'
    BY <1>1, <1>2 DEF TypeOK, IdleIsClean
  <1> QED BY <1>3 DEF StackInv

(* Closing a statement keeps StackInv, unless it is the last write. *)
LEMMA CloseKeepsStackInv ==
  ASSUME StackInv, Runs("write"), NEW restores \in BOOLEAN,
         CloseStatement(restores), ~OnlyWriter, stack' = Return,
         rc' \in {"ok", "error", "abort", "ioerr"}, crossed' \in BOOLEAN
  PROVE  StackInv'
  <1> DEFINE i == Top.iStatement
  <1>0. stack # <<>> /\ Top = Last(stack)
    BY DEF Runs, Top
  <1>1. /\ Top \in Calls /\ Top = stack[Len(stack)]
        /\ i \in Nat /\ Len(stack) \in DOMAIN stack
        /\ stack' \in Seq(Calls) /\ Len(stack') = Len(stack) - 1
        /\ DOMAIN stack' = DOMAIN stack \ {Len(stack)}
        /\ \A j \in DOMAIN stack' : stack'[j] = stack[j]
        /\ Journaled(stack') = Journaled(stack) \ {Len(stack)}
    <2>1. stack \in Seq(Calls)
      BY StackInvFacts
    <2>2. /\ Top \in Calls /\ Top = stack[Len(stack)]
          /\ Len(stack) \in DOMAIN stack
          /\ stack' \in Seq(Calls) /\ Len(stack') = Len(stack) - 1
          /\ DOMAIN stack' = DOMAIN stack \ {Len(stack)}
          /\ \A j \in DOMAIN stack' : stack'[j] = stack[j]
          /\ Journaled(stack') = Journaled(stack) \ {Len(stack)}
      BY <1>0, <2>1, PopFacts DEF Return
    <2>3. i \in Nat
      BY <2>2, BoundsAssumption DEF Calls
    <2> QED BY <2>2, <2>3
  <1>2. /\ UNCHANGED <<file, autocommit>>
        /\ nStatement' = IF nStatement > 0 /\ i > 0 THEN nStatement - 1
                                                    ELSE nStatement
        /\ \/ UNCHANGED <<content, savepoints>>
           \/ /\ i > 0 /\ i <= Len(savepoints)
              /\ content' \in {content, savepoints[i]}
              /\ savepoints' = SubSeq(savepoints, 1, i - 1)
    BY <1>1 DEF CloseStatement, HasStatement
  <1>3. /\ savepoints' \in Seq(SUBSET Rows) /\ Len(savepoints') <= MaxDepth
        /\ \A k \in DOMAIN savepoints' : /\ k \in DOMAIN savepoints
                                         /\ savepoints'[k] = savepoints[k]
    <2>1. CASE UNCHANGED savepoints
      BY <2>1, StackInvFacts
    <2>2. CASE /\ i > 0 /\ i <= Len(savepoints)
               /\ savepoints' = SubSeq(savepoints, 1, i - 1)
      <3>1. /\ i - 1 \in Nat /\ i - 1 <= Len(savepoints)
            /\ savepoints \in Seq(SUBSET Rows)
        BY <1>1, <2>2, StackInvFacts
      <3>2. savepoints' \in Seq(SUBSET Rows) /\ Len(savepoints') = i - 1
        BY <2>2, <3>1
      <3>3. \A k \in 1 .. i - 1 : savepoints'[k] = savepoints[k]
        BY <2>2, <3>1
      <3> QED BY <3>1, <3>2, <3>3, StackInvFacts
    <2> QED BY <1>2, <2>1, <2>2
  <1>4. /\ nStatement' \in Nat /\ nStatement' <= MaxDepth
        /\ content' \subseteq Rows /\ file' \subseteq Rows
        /\ autocommit' \in BOOLEAN
    <2>1. i > 0 /\ i <= Len(savepoints) => savepoints[i] \subseteq Rows
      BY <1>1, StackInvFacts
    <2> QED BY <1>2, <2>1, StackInvFacts
  <1>5. IdleIsClean'
    BY <1>2 DEF OnlyWriter, IdleIsClean
  <1>6. ContentGrows'
    <2>1. i > 0 /\ i <= Len(savepoints) => i \in DOMAIN savepoints
      BY <1>1, StackInvFacts
    <2>2. ContentGrows
      BY DEF StackInv
    <2> QED BY <1>2, <1>3, <2>1, <2>2 DEF ContentGrows
  <1>7. OnlyWritesJournal'
    BY <1>1 DEF OnlyWritesJournal, StackInv
  <1>8. JournalsAreCounted'
    <2>1. Len(stack) \in Journaled(stack) <=> i > 0
      BY <1>1 DEF Journaled
    <2>2. Cardinality(Journaled(stack) \ {Len(stack)}) =
            IF i > 0 THEN Cardinality(Journaled(stack)) - 1
                     ELSE Cardinality(Journaled(stack))
      BY <2>1, StackInvFacts, FS_RemoveElement
    <2>3. Cardinality(Journaled(stack) \ {Len(stack)}) \in Nat
      BY <1>1, JournaledIsFinite
    <2>4. nStatement' <= Cardinality(Journaled(stack) \ {Len(stack)})
      BY <1>1, <1>2, <2>2, <2>3, StackInvFacts
    <2> QED BY <1>1, <2>4 DEF JournalsAreCounted
  <1>9. Len(stack') <= MaxDepth
    BY <1>1, StackInvFacts
  <1> QED BY <1>1, <1>3, <1>4, <1>5, <1>6, <1>7, <1>8, <1>9, StackInvFromParts

(* Before any call nothing is open. *)
LEMMA StackInit == Init => StackInv
  <1> SUFFICES ASSUME Init PROVE StackInv
    OBVIOUS
  <1>1. /\ stack \in Seq(Calls) /\ Len(stack) = 0
        /\ savepoints \in Seq(SUBSET Rows) /\ Len(savepoints) = 0
        /\ DOMAIN stack = {} /\ DOMAIN savepoints = {}
    BY DEF Init
  <1>2. JournalsAreCounted
    <2>1. Journaled(stack) = {}
      BY <1>1 DEF Journaled
    <2> QED BY <2>1, FS_EmptySet DEF JournalsAreCounted, Init
  <1>3. IdleIsClean /\ ContentGrows /\ OnlyWritesJournal
    BY <1>1 DEF Init, IdleIsClean, ContentGrows, OnlyWritesJournal
  <1>4. TypeOK
    <2>1. /\ file \subseteq Rows /\ content \subseteq Rows
          /\ autocommit \in BOOLEAN /\ crossed \in BOOLEAN
          /\ rc \in {"ok", "error", "abort", "ioerr"}
      BY DEF Init
    <2>2. nStatement \in 0 .. MaxDepth /\ savepoints = <<>> /\ nStatement = 0
      BY BoundsAssumption DEF Init
    <2>3. Len(savepoints) <= MaxDepth /\ Len(stack) <= MaxDepth
      BY <1>1, BoundsAssumption
    <2> QED BY <1>1, <2>1, <2>2, <2>3 DEF TypeOK
  <1> QED BY <1>2, <1>3, <1>4 DEF StackInv

(* A statement that is opened keeps StackInv. *)
LEMMA OpenKeepsStackInv ==
  ASSUME StackInv, NEW calls \in Seq(Calls), NEW rows \in SUBSET Rows,
         Len(calls) = Len(stack), Len(stack) < MaxDepth,
         Journaled(calls) = Journaled(stack),
         \A i \in DOMAIN calls :
           calls[i].kind # "write" => calls[i].iStatement = 0,
         OpenStatement(calls, rows),
         UNCHANGED <<file, content, autocommit, rc, crossed>>
  PROVE  StackInv'
  <1>1. PICK i \in 0 .. MaxDepth :
           /\ Frame(rows, i) \in Calls /\ stack' = Append(calls, Frame(rows, i))
           /\ \/ /\ ~Journals(rows) /\ i = 0
                 /\ UNCHANGED <<nStatement, savepoints>>
              \/ /\ Journals(rows) /\ i = nStatement + 1 /\ i > 0
                 /\ nStatement' = i /\ savepoints' = Opened(i)
    BY OpenStatementFacts
  <1>2. Frame(rows, i).kind = "write" /\ Frame(rows, i).iStatement = i
    BY FrameType
  <1>3. /\ stack' \in Seq(Calls) /\ stack' # <<>>
        /\ Len(stack') = Len(stack) + 1
        /\ DOMAIN stack' = DOMAIN calls \union {Len(calls) + 1}
        /\ stack'[Len(calls) + 1] = Frame(rows, i)
        /\ \A k \in DOMAIN calls : stack'[k] = calls[k]
        /\ Writing(stack') # {}
        /\ Journaled(stack') =
             Journaled(stack) \union IF i > 0 THEN {Len(stack) + 1} ELSE {}
    <2>1. PICK f \in Calls : f = Frame(rows, i)
      BY <1>1
    <2>2. /\ Append(calls, f) \in Seq(Calls) /\ Append(calls, f) # <<>>
          /\ Len(Append(calls, f)) = Len(calls) + 1
          /\ DOMAIN Append(calls, f) = DOMAIN calls \union {Len(calls) + 1}
          /\ Append(calls, f)[Len(calls) + 1] = f
          /\ \A k \in DOMAIN calls : Append(calls, f)[k] = calls[k]
          /\ Writing(Append(calls, f)) = Writing(calls) \union
               IF f.kind = "write" THEN {Len(calls) + 1} ELSE {}
          /\ Journaled(Append(calls, f)) = Journaled(calls) \union
               IF f.iStatement > 0 THEN {Len(calls) + 1} ELSE {}
      BY PushFacts
    <2>3. stack' = Append(calls, f)
      BY <1>1, <2>1
    <2> QED BY <1>2, <2>1, <2>2, <2>3
  <1>4. Len(stack') <= MaxDepth
    BY <1>3, StackInvFacts
  <1>5. JournalsAreCounted'
    <2>1. Len(stack) + 1 \notin Journaled(stack)
      BY StackInvFacts DEF Journaled
    <2>2. CASE i > 0
      <3>1. Cardinality(Journaled(stack) \union {Len(stack) + 1})
              = Cardinality(Journaled(stack)) + 1
        BY <2>1, StackInvFacts, FS_AddElement
      <3> QED BY <1>1, <1>3, <2>2, <3>1, StackInvFacts DEF JournalsAreCounted
    <2>3. CASE ~(i > 0)
      <3>1. Journaled(stack') = Journaled(stack) /\ nStatement' = nStatement
        BY <1>1, <1>3, <2>3
      <3> QED BY <3>1, StackInvFacts DEF JournalsAreCounted
    <2> QED BY <2>2, <2>3
  <1>6. /\ savepoints' \in Seq(SUBSET Rows) /\ Len(savepoints') <= MaxDepth
        /\ nStatement' \in Nat /\ nStatement' <= MaxDepth
        /\ ContentGrows'
    <2>1. ContentGrows
      BY DEF StackInv
    <2>2. CASE UNCHANGED <<nStatement, savepoints>>
      BY <2>1, <2>2, StackInvFacts DEF ContentGrows
    <2>3. CASE i > 0 /\ nStatement' = i /\ savepoints' = Opened(i)
      <3>1. i \in 1 .. MaxDepth /\ i \in Nat
        BY <2>3, StackInvFacts
      <3>2. /\ savepoints' \in Seq(SUBSET Rows)
            /\ Len(savepoints') =
                 IF i > Len(savepoints) THEN i ELSE Len(savepoints)
            /\ \A k \in DOMAIN savepoints : savepoints'[k] = savepoints[k]
            /\ \A k \in DOMAIN savepoints' : k \notin DOMAIN savepoints
                 => savepoints'[k] = content
        BY <2>3, <3>1, OpenedFacts
      <3>3. ContentGrows'
        BY <2>1, <3>2 DEF ContentGrows
      <3> QED BY <2>3, <3>1, <3>2, <3>3, StackInvFacts
    <2> QED BY <1>1, <2>2, <2>3
  <1>7. OnlyWritesJournal'
    BY <1>2, <1>3 DEF OnlyWritesJournal
  <1>8. IdleIsClean'
    BY <1>3 DEF IdleIsClean
  <1>9. /\ file' \subseteq Rows /\ content' \subseteq Rows
        /\ autocommit' \in BOOLEAN /\ crossed' \in BOOLEAN
        /\ rc' \in {"ok", "error", "abort", "ioerr"}
    BY DEF StackInv, TypeOK
  <1> QED BY <1>3, <1>4, <1>5, <1>6, <1>7, <1>8, <1>9, StackInvFromParts

(* A call that begins is one of Calls. *)
LEMMA CallType ==
  ASSUME NEW rows \in SUBSET Rows, NEW kind \in {"select", "insert_rows"}
  PROVE  /\ Call(kind, rows) \in Calls
         /\ Call(kind, rows).kind = kind /\ Call(kind, rows).iStatement = 0
         /\ ~Call(kind, rows).begun
         /\ \A begun \in BOOLEAN :
              /\ [Call(kind, rows) EXCEPT !.begun = begun] \in Calls
              /\ [Call(kind, rows) EXCEPT !.begun = begun].kind = kind
              /\ [Call(kind, rows) EXCEPT !.begun = begun].iStatement = 0
              /\ [Call(kind, rows) EXCEPT !.begun = begun].begun = begun
  <1>1. Call(kind, rows) \in Calls
    BY BoundsAssumption DEF Call, Calls
  <1>2. /\ Call(kind, rows).kind = kind /\ Call(kind, rows).iStatement = 0
        /\ ~Call(kind, rows).begun
    BY DEF Call
  <1>3. ASSUME NEW begun \in BOOLEAN
        PROVE  /\ [Call(kind, rows) EXCEPT !.begun = begun] \in Calls
               /\ [Call(kind, rows) EXCEPT !.begun = begun].begun = begun
               /\ [Call(kind, rows) EXCEPT !.begun = begun].kind = kind
               /\ [Call(kind, rows) EXCEPT !.begun = begun].iStatement = 0
    BY <1>1, <1>2 DEF Calls
  <1> QED BY <1>1, <1>2, <1>3

(* A call that is no write returns. *)
LEMMA PopKeeps ==
  ASSUME StackInv, stack # <<>>, Top.kind # "write", stack' = Return
  PROVE  /\ stack' \in Seq(Calls) /\ Len(stack') <= MaxDepth
         /\ OnlyWritesJournal' /\ Journaled(stack') = Journaled(stack)
         /\ Writing(stack') = Writing(stack)
  <1>1. stack \in Seq(Calls) /\ OnlyWritesJournal
    BY StackInvFacts DEF StackInv
  <1>2. /\ Top = stack[Len(stack)] /\ Len(stack) \in DOMAIN stack
        /\ stack' \in Seq(Calls) /\ Len(stack') = Len(stack) - 1
        /\ DOMAIN stack' = DOMAIN stack \ {Len(stack)}
        /\ \A j \in DOMAIN stack' : stack'[j] = stack[j]
        /\ Journaled(stack') = Journaled(stack) \ {Len(stack)}
        /\ Writing(stack') = Writing(stack) \ {Len(stack)}
    BY <1>1, PopFacts DEF Return, Top
  <1>3. Len(stack) \notin Writing(stack) /\ Len(stack) \notin Journaled(stack)
    BY <1>1, <1>2 DEF Writing, Journaled, OnlyWritesJournal
  <1>4. OnlyWritesJournal'
    BY <1>1, <1>2 DEF OnlyWritesJournal
  <1>5. Len(stack') <= MaxDepth
    BY <1>2, StackInvFacts
  <1> QED BY <1>2, <1>3, <1>4, <1>5

(* What the innermost call leaves when it returns, tripped or not. *)
LEMMA PopType ==
  ASSUME StackInv, stack # <<>>, stack' \in {Return, Tripped(Return)}
  PROVE  /\ stack' \in Seq(Calls) /\ Len(stack') <= MaxDepth
         /\ OnlyWritesJournal'
  <1>1. stack \in Seq(Calls) /\ OnlyWritesJournal
    BY StackInvFacts DEF StackInv
  <1>2. /\ Return \in Seq(Calls) /\ Len(Return) = Len(stack) - 1
        /\ DOMAIN Return = DOMAIN stack \ {Len(stack)}
        /\ \A j \in DOMAIN Return : Return[j] = stack[j]
    BY <1>1, PopFacts DEF Return
  <1>3. /\ Tripped(Return) \in Seq(Calls)
        /\ Len(Tripped(Return)) = Len(Return)
        /\ DOMAIN Tripped(Return) = DOMAIN Return
        /\ \A j \in DOMAIN Return :
             /\ Tripped(Return)[j].kind = Return[j].kind
             /\ Tripped(Return)[j].iStatement = Return[j].iStatement
    BY <1>2, TrippedFacts
  <1>4. /\ stack' \in Seq(Calls) /\ Len(stack') = Len(stack) - 1
        /\ DOMAIN stack' = DOMAIN stack \ {Len(stack)}
        /\ \A j \in DOMAIN stack' : /\ stack'[j].kind = stack[j].kind
                                     /\ stack'[j].iStatement
                                          = stack[j].iStatement
    BY <1>2, <1>3
  <1>5. OnlyWritesJournal'
    BY <1>1, <1>4 DEF OnlyWritesJournal
  <1> QED BY <1>4, <1>5, StackInvFacts

(* The calls in progress stay what they are. *)
LEMMA SameKeeps ==
  ASSUME StackInv, stack' \in {stack, Tripped(stack)}
  PROVE  /\ stack' \in Seq(Calls) /\ Len(stack') <= MaxDepth
         /\ OnlyWritesJournal' /\ Journaled(stack') = Journaled(stack)
         /\ Writing(stack') = Writing(stack)
  <1>1. stack \in Seq(Calls) /\ OnlyWritesJournal /\ Len(stack) <= MaxDepth
    BY StackInvFacts DEF StackInv
  <1>2. /\ Tripped(stack) \in Seq(Calls)
        /\ Len(Tripped(stack)) = Len(stack)
        /\ DOMAIN Tripped(stack) = DOMAIN stack
        /\ \A j \in DOMAIN stack :
             /\ Tripped(stack)[j].kind = stack[j].kind
             /\ Tripped(stack)[j].iStatement = stack[j].iStatement
        /\ Writing(Tripped(stack)) = Writing(stack)
        /\ Journaled(Tripped(stack)) = Journaled(stack)
    BY <1>1, TrippedFacts
  <1>3. OnlyWritesJournal'
    BY <1>1, <1>2 DEF OnlyWritesJournal
  <1> QED BY <1>1, <1>2, <1>3

(* A call that is no write begins. *)
LEMMA PushKeeps ==
  ASSUME StackInv, Len(stack) < MaxDepth, NEW c \in Calls,
         c.kind # "write", c.iStatement = 0, stack' = Append(stack, c)
  PROVE  /\ stack' \in Seq(Calls) /\ Len(stack') <= MaxDepth
         /\ OnlyWritesJournal' /\ Journaled(stack') = Journaled(stack)
         /\ Writing(stack') = Writing(stack)
  <1>1. stack \in Seq(Calls) /\ OnlyWritesJournal
    BY StackInvFacts DEF StackInv
  <1>2. /\ stack' \in Seq(Calls) /\ Len(stack') = Len(stack) + 1
        /\ DOMAIN stack' = DOMAIN stack \union {Len(stack) + 1}
        /\ stack'[Len(stack) + 1] = c
        /\ \A j \in DOMAIN stack : stack'[j] = stack[j]
        /\ Journaled(stack') = Journaled(stack) \union {}
        /\ Writing(stack') = Writing(stack) \union {}
    <2>1. /\ Append(stack, c) \in Seq(Calls)
          /\ Len(Append(stack, c)) = Len(stack) + 1
          /\ DOMAIN Append(stack, c) = DOMAIN stack \union {Len(stack) + 1}
          /\ Append(stack, c)[Len(stack) + 1] = c
          /\ \A i \in DOMAIN stack : Append(stack, c)[i] = stack[i]
          /\ Writing(Append(stack, c)) = Writing(stack) \union
               IF c.kind = "write" THEN {Len(stack) + 1} ELSE {}
          /\ Journaled(Append(stack, c)) = Journaled(stack) \union
               IF c.iStatement > 0 THEN {Len(stack) + 1} ELSE {}
      BY <1>1, PushFacts
    <2>2. ~(c.iStatement > 0)
      OBVIOUS
    <2> QED BY <2>1, <2>2
  <1>3. OnlyWritesJournal'
    BY <1>1, <1>2 DEF OnlyWritesJournal
  <1> QED BY <1>2, <1>3, StackInvFacts

(* The innermost call is now e. *)
LEMMA SetTopKeeps ==
  ASSUME StackInv, stack # <<>>, NEW e \in Calls,
         e.kind = Top.kind, e.iStatement = Top.iStatement
  PROVE  /\ SetTop(e) \in Seq(Calls) /\ SetTop(e) # <<>>
         /\ Len(SetTop(e)) = Len(stack) /\ DOMAIN SetTop(e) = DOMAIN stack
         /\ SetTop(e)[Len(stack)] = e
         /\ \A i \in DOMAIN stack \ {Len(stack)} : SetTop(e)[i] = stack[i]
         /\ Writing(SetTop(e)) = Writing(stack)
         /\ Journaled(SetTop(e)) = Journaled(stack)
         /\ \A i \in DOMAIN SetTop(e) :
              SetTop(e)[i].kind # "write" => SetTop(e)[i].iStatement = 0
  <1> PICK t : t = SetTop(e)
    OBVIOUS
  <1>1. stack \in Seq(Calls) /\ OnlyWritesJournal
    BY StackInvFacts DEF StackInv
  <1>2. /\ t \in Seq(Calls) /\ t # <<>> /\ Len(t) = Len(stack)
        /\ DOMAIN t = DOMAIN stack
        /\ t[Len(stack)] = e
        /\ \A i \in DOMAIN stack \ {Len(stack)} : t[i] = stack[i]
        /\ Writing(t) = Writing(stack) /\ Journaled(t) = Journaled(stack)
    <2>1. /\ t \in Seq(Calls) /\ t # <<>> /\ Len(t) = Len(stack)
          /\ DOMAIN t = DOMAIN stack
          /\ t[Len(stack)] = e
          /\ \A i \in DOMAIN stack \ {Len(stack)} : t[i] = stack[i]
      BY <1>1 DEF SetTop
    <2>2. \A i \in DOMAIN stack : /\ t[i].kind = stack[i].kind
                                  /\ t[i].iStatement = stack[i].iStatement
      BY <2>1 DEF Top, Last
    <2> QED BY <2>1, <2>2 DEF Writing, Journaled
  <1>3. Top = stack[Len(stack)]
    BY DEF Top, Last
  <1> QED BY <1>1, <1>2, <1>3 DEF OnlyWritesJournal

(* A call takes up a row, which changes what is left to write ... *)
LEMMA RowIsTaken ==
  ASSUME NEW c \in Calls, NEW row
  PROVE  \E e \in Calls :
           /\ e = [c EXCEPT !.todo = @ \ {row}]
           /\ e.kind = c.kind /\ e.iStatement = c.iStatement
           /\ e.begun = c.begun /\ e.own = c.own /\ e.todo = c.todo \ {row}
  <1>1. PICK e : e = [c EXCEPT !.todo = @ \ {row}]
    OBVIOUS
  <1>2. /\ e \in Calls
        /\ e.kind = c.kind /\ e.iStatement = c.iStatement
        /\ e.begun = c.begun /\ e.own = c.own /\ e.todo = c.todo \ {row}
    BY <1>1 DEF Calls
  <1> QED BY <1>1, <1>2

(* ... or writes it. *)
LEMMA RowIsWritten ==
  ASSUME NEW c \in Calls, NEW row \in Rows
  PROVE  \E e \in Calls :
           /\ e = [c EXCEPT !.todo = @ \ {row}, !.own = @ \union {row}]
           /\ e.kind = c.kind /\ e.iStatement = c.iStatement
           /\ e.begun = c.begun
           /\ e.own = c.own \union {row} /\ e.todo = c.todo \ {row}
  <1>1. PICK e : e = [c EXCEPT !.todo = @ \ {row}, !.own = @ \union {row}]
    OBVIOUS
  <1>2. /\ e \in Calls
        /\ e.kind = c.kind /\ e.iStatement = c.iStatement
        /\ e.begun = c.begun
        /\ e.own = c.own \union {row} /\ e.todo = c.todo \ {row}
    BY <1>1 DEF Calls
  <1> QED BY <1>1, <1>2

(* Every step keeps StackInv. *)
LEMMA StackInvStep == StackInv /\ [Next]_vars => StackInv'
  <1> SUFFICES ASSUME StackInv, [Next]_vars PROVE StackInv'
    OBVIOUS
  <1>1. /\ stack \in Seq(Calls) /\ crossed \in BOOLEAN
        /\ rc \in {"ok", "error", "abort", "ioerr"}
    BY StackInvFacts DEF StackInv, TypeOK
  <1>2. ASSUME EndTransaction
        PROVE  \/ UNCHANGED <<file, content, autocommit, nStatement, savepoints>>
               \/ CommitAll \/ RollbackAll
    BY <1>2 DEF EndTransaction
  <1>3. CASE Begin
    <2>1. stack' = stack /\ BeginTransaction
      BY <1>3 DEF Begin
    <2>2. rc' \in {"ok", "error", "abort", "ioerr"} /\ crossed' \in BOOLEAN
      BY <1>3 DEF Begin, Cross
    <2> QED BY <2>1, <2>2, SameKeeps, DataKeepsStackInv
  <1>4. CASE End
    <2>1. stack' = stack /\ EndTransaction
      BY <1>4 DEF End
    <2>2. rc' \in {"ok", "error", "abort", "ioerr"} /\ crossed' \in BOOLEAN
      BY <1>4 DEF End, Cross
    <2> QED BY <1>2, <2>1, <2>2, SameKeeps, DataKeepsStackInv
  <1>5. CASE Rollback
    <2>1. stack' = Tripped(stack) /\ RollbackAll
      BY <1>5 DEF Rollback
    <2>2. rc' \in {"ok", "error", "abort", "ioerr"} /\ crossed' \in BOOLEAN
      BY <1>5 DEF Rollback, Cross
    <2> QED BY <2>1, <2>2, SameKeeps, DataKeepsStackInv
  <1>6. ASSUME NEW rows \in RowSets, InsertRows(rows) PROVE StackInv'
    <2>1. PICK begun \in BOOLEAN : begun = autocommit
      BY StackInvFacts
    <2>2. rows \in SUBSET Rows
      BY DEF RowSets
    <2>3. PICK c \in Calls :
            /\ c = [Call("insert_rows", rows) EXCEPT !.begun = begun]
            /\ c.kind = "insert_rows" /\ c.iStatement = 0
      BY <2>2, CallType
    <2>4. stack' = Append(stack, c) /\ BeginTransaction /\ Len(stack) < MaxDepth
      BY <1>6, <2>1, <2>3 DEF InsertRows, CanPush
    <2>5. rc' \in {"ok", "error", "abort", "ioerr"} /\ crossed' \in BOOLEAN
      BY <1>6 DEF InsertRows, Cross
    <2>6. c.kind # "write"
      BY <2>3
    <2> QED BY <2>3, <2>4, <2>5, <2>6, PushKeeps, DataKeepsStackInv
  <1>7. ASSUME NEW rows \in RowSets, Write(rows) PROVE StackInv'
    <2>1. rows \in SUBSET Rows
      BY DEF RowSets
    <2>2. /\ OpenStatement(stack, rows) /\ Len(stack) < MaxDepth
          /\ UNCHANGED <<file, content, autocommit, rc, crossed>>
      BY <1>7 DEF Write, CanPush
    <2>3. OnlyWritesJournal
      BY DEF StackInv
    <2> QED BY <1>1, <2>1, <2>2, <2>3, OpenKeepsStackInv DEF OnlyWritesJournal
  <1>8. CASE InsertRowsEnds
    <2>1. stack' = Return /\ stack # <<>> /\ Top.kind # "write" /\ EndTransaction
      BY <1>8 DEF InsertRowsEnds, Runs
    <2>2. rc' \in {"ok", "error", "abort", "ioerr"} /\ crossed' \in BOOLEAN
      BY <1>1, <1>8 DEF InsertRowsEnds, Cross
    <2> QED BY <1>2, <2>1, <2>2, PopKeeps, DataKeepsStackInv
  <1>9. CASE Select
    <2>1. PICK c \in Calls : /\ c = Call("select", {})
                             /\ c.kind = "select" /\ c.iStatement = 0
      BY CallType
    <2>2. /\ stack' = Append(stack, c) /\ Len(stack) < MaxDepth
          /\ UNCHANGED <<file, content, autocommit, nStatement, savepoints>>
          /\ UNCHANGED <<rc, crossed>>
      BY <1>9, <2>1 DEF Select, CanPush
    <2>3. c.kind # "write"
      BY <2>1
    <2> QED BY <1>1, <2>1, <2>2, <2>3, PushKeeps, DataKeepsStackInv
  <1>10. ASSUME NEW row \in Rows, InsertRow(row) PROVE StackInv'
    <2>1. stack # <<>> /\ Len(stack) < MaxDepth
      BY <1>10 DEF InsertRow, Runs
    <2>2. PICK c \in Calls : c = Top
      BY <1>1, <2>1, PopFacts DEF Top
    <2>3. PICK e \in Calls :
            /\ e = [c EXCEPT !.todo = @ \ {row}]
            /\ e.kind = c.kind /\ e.iStatement = c.iStatement
            /\ e.begun = c.begun /\ e.own = c.own /\ e.todo = c.todo \ {row}
      BY RowIsTaken
    <2>4. PICK calls : calls = SetTop(e)
      OBVIOUS
    <2>5. /\ calls \in Seq(Calls) /\ Len(calls) = Len(stack)
          /\ Journaled(calls) = Journaled(stack)
          /\ \A i \in DOMAIN calls :
               calls[i].kind # "write" => calls[i].iStatement = 0
      <3>1. e.kind = Top.kind /\ e.iStatement = Top.iStatement
        BY <2>2, <2>3
      <3> QED BY <2>1, <2>4, <3>1, SetTopKeeps
    <2>6. /\ OpenStatement(calls, {row})
          /\ UNCHANGED <<file, content, autocommit, rc, crossed>>
      BY <1>10, <2>2, <2>3, <2>4 DEF InsertRow
    <2> QED BY <2>1, <2>5, <2>6, OpenKeepsStackInv
  <1>11. ASSUME NEW row \in Rows, WriteRow(row) PROVE StackInv'
    <2>1. stack # <<>> /\ Top.kind = "write"
      BY <1>11 DEF WriteRow, Runs
    <2>2. PICK c \in Calls : c = Top
      BY <1>1, <2>1, PopFacts DEF Top
    <2>3. PICK e \in Calls :
            /\ e = [c EXCEPT !.todo = @ \ {row}, !.own = @ \union {row}]
            /\ e.kind = c.kind /\ e.iStatement = c.iStatement
            /\ e.begun = c.begun
            /\ e.own = c.own \union {row} /\ e.todo = c.todo \ {row}
      BY RowIsWritten
    <2>4. /\ stack' = SetTop(e) /\ content' = content \union {row}
          /\ UNCHANGED <<file, autocommit, nStatement, savepoints, rc, crossed>>
      BY <1>11, <2>2, <2>3 DEF WriteRow
    <2>5. /\ stack' \in Seq(Calls) /\ Len(stack') = Len(stack)
          /\ Writing(stack') = Writing(stack)
          /\ Journaled(stack') = Journaled(stack)
          /\ \A i \in DOMAIN stack' :
               stack'[i].kind # "write" => stack'[i].iStatement = 0
      <3>1. e.kind = Top.kind /\ e.iStatement = Top.iStatement
        BY <2>2, <2>3
      <3> QED BY <2>1, <2>4, <3>1, SetTopKeeps
    <2>6. IdleIsClean'
      <3>1. Writing(stack) # {}
        BY <1>1, <2>1, PopFacts DEF Writing, Top
      <3> QED BY <2>5, <3>1 DEF IdleIsClean
    <2>7. ContentGrows' /\ OnlyWritesJournal' /\ JournalsAreCounted'
      BY <2>4, <2>5
         DEF StackInv, ContentGrows, OnlyWritesJournal, JournalsAreCounted
    <2>8. content' \subseteq Rows
      BY <2>4, StackInvFacts
    <2> QED BY <1>1, <2>4, <2>5, <2>6, <2>7, <2>8, StackInvFacts,
               StackInvFromParts
  <1>12. ASSUME NEW row \in Rows, SkipRow(row) PROVE StackInv'
    <2>1. stack # <<>> /\ Top.kind = "write"
      BY <1>12 DEF SkipRow, Runs
    <2>2. PICK c \in Calls : c = Top
      BY <1>1, <2>1, PopFacts DEF Top
    <2>3. PICK e \in Calls :
            /\ e = [c EXCEPT !.todo = @ \ {row}]
            /\ e.kind = c.kind /\ e.iStatement = c.iStatement
            /\ e.begun = c.begun /\ e.own = c.own /\ e.todo = c.todo \ {row}
      BY RowIsTaken
    <2>4. /\ stack' = SetTop(e)
          /\ UNCHANGED <<file, content, autocommit, nStatement, savepoints>>
          /\ UNCHANGED <<rc, crossed>>
      BY <1>12, <2>2, <2>3 DEF SkipRow
    <2>5. /\ stack' \in Seq(Calls) /\ Len(stack') = Len(stack)
          /\ Writing(stack') = Writing(stack)
          /\ Journaled(stack') = Journaled(stack)
          /\ \A i \in DOMAIN stack' :
               stack'[i].kind # "write" => stack'[i].iStatement = 0
      <3>1. e.kind = Top.kind /\ e.iStatement = Top.iStatement
        BY <2>2, <2>3
      <3> QED BY <2>1, <2>4, <3>1, SetTopKeeps
    <2>6. OnlyWritesJournal' /\ Len(stack') <= MaxDepth
      BY <2>5, StackInvFacts DEF OnlyWritesJournal
    <2> QED BY <1>1, <2>4, <2>5, <2>6, DataKeepsStackInv
  <1>13. CASE HaltSelect
    <2>1. /\ stack' = Return /\ stack # <<>> /\ Top.kind # "write"
          /\ \/ UNCHANGED <<file, content, autocommit, nStatement, savepoints>>
             \/ CommitAll
      BY <1>13 DEF HaltSelect, Runs
    <2>2. rc' \in {"ok", "error", "abort", "ioerr"} /\ crossed' \in BOOLEAN
      BY <1>13 DEF HaltSelect, Cross
    <2> QED BY <2>1, <2>2, PopKeeps, DataKeepsStackInv
  <1>14. CASE HaltWrite
    <2>1. stack' = Return /\ stack # <<>> /\ Runs("write")
      BY <1>14 DEF HaltWrite, Runs
    <2>2. rc' \in {"ok", "error", "abort", "ioerr"} /\ crossed' \in BOOLEAN
      BY <1>14 DEF HaltWrite, Cross
    <2>3. CommitAll \/ RollbackAll \/ (~OnlyWriter /\ CloseStatement(FALSE))
      BY <1>14 DEF HaltWrite
    <2>4. CASE CommitAll \/ RollbackAll
      BY <2>1, <2>2, <2>4, PopType, DataKeepsStackInv
    <2>5. CASE ~OnlyWriter /\ CloseStatement(FALSE)
      BY <2>1, <2>2, <2>5, CloseKeepsStackInv
    <2> QED BY <2>3, <2>4, <2>5
  <1>15. CASE HaltAbort
    <2>1. stack' = Return /\ stack # <<>> /\ Runs("write")
      BY <1>15 DEF HaltAbort, Runs
    <2>2. rc' \in {"ok", "error", "abort", "ioerr"} /\ crossed' \in BOOLEAN
      BY <1>15 DEF HaltAbort, Cross
    <2>3. RollbackAll \/ (~OnlyWriter /\ CloseStatement(TRUE))
      BY <1>15 DEF HaltAbort
    <2>4. CASE RollbackAll
      BY <2>1, <2>2, <2>4, PopType, DataKeepsStackInv
    <2>5. CASE ~OnlyWriter /\ CloseStatement(TRUE)
      BY <2>1, <2>2, <2>5, CloseKeepsStackInv
    <2> QED BY <2>3, <2>4, <2>5
  <1>16. CASE HaltIoError
    <2>1. stack' = Tripped(Return) /\ stack # <<>> /\ RollbackAll
      BY <1>16 DEF HaltIoError, Runs
    <2>2. rc' \in {"ok", "error", "abort", "ioerr"} /\ crossed' \in BOOLEAN
      BY <1>16 DEF HaltIoError, Cross
    <2> QED BY <2>1, <2>2, PopType, DataKeepsStackInv
  <1>17. CASE UNCHANGED vars
    <2>1. /\ stack' \in {stack, Tripped(stack)}
          /\ UNCHANGED <<file, content, autocommit, nStatement, savepoints>>
          /\ UNCHANGED <<rc, crossed>>
      BY <1>17 DEF vars
    <2> QED BY <1>1, <2>1, SameKeeps, DataKeepsStackInv
  <1> QED BY <1>3, <1>4, <1>5, <1>6, <1>7, <1>8, <1>9, <1>10, <1>11, <1>12,
             <1>13, <1>14, <1>15, <1>16, <1>17 DEF Next

(* The calls in progress, the savepoints and the statement transactions fit
   together whatever the functions call and whatever fails, and an idle
   connection has nothing open. *)
THEOREM StackInvariant == Spec => []StackInv
  <1> QED BY StackInit, StackInvStep, PTL DEF Spec

(* Whatever the functions have called: as soon as no write is in progress in
   autocommit mode, what the object sees is what the file holds. *)
THEOREM NothingIsLeftDangling == Spec => []NothingDangles
  <1>1. StackInv => NothingDangles
    BY DEF StackInv, IdleIsClean, NothingDangles
  <1> QED BY <1>1, StackInvariant, PTL

(* The file never takes up a part of a statement: when it changes no write is
   in progress, whoever commits. *)
THEOREM StatementsCommitWhole == Spec => NoCommitMidway
  <1> DEFINE Whole == file' # file => Writing(stack') = {}
  <1>1. StackInv /\ [Next]_vars => [Whole]_vars
    <2> SUFFICES ASSUME StackInv, Next, file' # file
                 PROVE  Writing(stack') = {}
      OBVIOUS
    <2>1. EndTransaction => ~EndRefused
      BY DEF EndTransaction, RollbackAll
    <2>2. CASE End
      BY <2>1, <2>2 DEF End, EndRefused
    <2>3. CASE InsertRowsEnds
      <3>1. stack # <<>> /\ Top.kind # "write" /\ stack' = Return
        BY <2>3 DEF InsertRowsEnds, Runs
      <3> QED BY <2>1, <2>3, <3>1, PopKeeps DEF InsertRowsEnds, EndRefused
    <2>4. CASE HaltSelect \/ HaltWrite
      BY <2>4 DEF HaltSelect, HaltWrite, OnlyWriter, CloseStatement, RollbackAll
    <2>5. CASE \/ Begin \/ Rollback \/ Select \/ HaltAbort \/ HaltIoError
               \/ \E rows \in RowSets : InsertRows(rows) \/ Write(rows)
      BY <2>5 DEF Begin, BeginTransaction, Rollback, RollbackAll, Select,
                  HaltAbort, CloseStatement, HaltIoError, InsertRows, Write
    <2>6. CASE \E row \in Rows : InsertRow(row) \/ WriteRow(row) \/ SkipRow(row)
      BY <2>6 DEF InsertRow, WriteRow, SkipRow
    <2> QED BY <2>2, <2>3, <2>4, <2>5, <2>6 DEF Next
  <1> QED BY <1>1, StackInvariant, PTL DEF Spec, NoCommitMidway

-----------------------------------------------------------------------------
(* Statements are atomic as long as no transaction begins or ends under a     *)
(* write: what each write in progress has written is in the content and not   *)
(* in what it goes back to.                                                   *)

(* All that a call has written and will write is one row. *)
Within(c) == c.own \union c.todo
Alone(c)  == \A a, b \in Within(c) : a = b

(* What a write has written is seen and not committed. *)
WritesHold ==
  \A i \in Writing(stack) :
    /\ stack[i].own \subseteq content /\ stack[i].own \intersect file = {}
    /\ stack[i].own \intersect stack[i].todo = {}

(* The savepoint of a write was taken before its own rows were written and
   after those of the writes that have called it. *)
IsJournaled(i) ==
  /\ stack[i].iStatement <= Len(savepoints)
  /\ stack[i].own \intersect savepoints[stack[i].iStatement] = {}
  /\ \A j \in Writing(stack) : j < i =>
       /\ stack[j].own \subseteq savepoints[stack[i].iStatement]
       /\ stack[j].iStatement < stack[i].iStatement

(* A write without a savepoint is of one row, or is the one that rolls back
   the whole transaction. *)
NeedsNone(i) ==
  Alone(stack[i]) \/ (autocommit /\ \A j \in Writing(stack) : j >= i)

JournalsHold ==
  /\ Len(savepoints) <= nStatement
  /\ \A i \in Writing(stack) :
       IF stack[i].iStatement > 0 THEN IsJournaled(i) ELSE NeedsNone(i)

(* The transaction of insert_rows() began before any write in progress. *)
BegunAlone ==
  \A i \in DOMAIN stack : stack[i].begun => \A j \in Writing(stack) : j > i

AtomicInv == ~crossed => WritesHold /\ JournalsHold /\ BegunAlone

(* Without a write in progress there is only the count to keep. *)
LEMMA NoWriteIsAtomic ==
  ASSUME Writing(stack') = {}, Len(savepoints') <= nStatement'
  PROVE  AtomicInv'
  BY DEF AtomicInv, WritesHold, JournalsHold, BegunAlone

(* A step that changes no write and nothing of the data. *)
LEMMA SameWritesAreAtomic ==
  ASSUME AtomicInv, crossed' \/ ~crossed,
         UNCHANGED <<file, content, autocommit, nStatement, savepoints>>,
         Writing(stack') = Writing(stack),
         \A i \in Writing(stack) : stack'[i] = stack[i],
         \A i \in DOMAIN stack' :
           stack'[i].begun =>
             \/ i \in DOMAIN stack /\ stack[i].begun
             \/ \A j \in Writing(stack) : j > i
  PROVE  AtomicInv'
  <1> SUFFICES ASSUME ~crossed' PROVE WritesHold' /\ JournalsHold' /\ BegunAlone'
    BY DEF AtomicInv
  <1>1. ~crossed /\ WritesHold /\ JournalsHold /\ BegunAlone
    BY DEF AtomicInv
  <1>2. WritesHold'
    BY <1>1 DEF WritesHold
  <1>3. JournalsHold'
    BY <1>1 DEF JournalsHold, IsJournaled, NeedsNone
  <1>4. BegunAlone'
    BY <1>1 DEF BegunAlone
  <1> QED BY <1>2, <1>3, <1>4

(* A transaction that begins or ends while no write is in progress. *)
LEMMA NewTransactionIsAtomic ==
  ASSUME StackInv, Writing(stack) = {}, Writing(stack') = {},
         \/ BeginTransaction /\ autocommit
         \/ CommitAll \/ RollbackAll
  PROVE  AtomicInv'
  <1>1. \/ savepoints = <<>> /\ nStatement = 0
        \/ CommitAll \/ RollbackAll
    BY DEF StackInv, IdleIsClean
  <1>2. savepoints' = <<>> /\ nStatement' = 0
    BY <1>1 DEF BeginTransaction, CommitAll, RollbackAll, Savepoints
  <1>3. Len(savepoints') <= nStatement'
    BY <1>2
  <1> QED BY <1>3, NoWriteIsAtomic

(* When everything is over nothing is open. *)
LEMMA ClosedIsAtomic ==
  ASSUME StackInv', autocommit', stack' = <<>>
  PROVE  AtomicInv'
  <1>1. Writing(stack') = {}
    BY DEF Writing
  <1>2. savepoints' = <<>> /\ nStatement' = 0
    BY <1>1 DEF StackInv, IdleIsClean
  <1>3. Len(savepoints') <= nStatement'
    BY <1>2
  <1> QED BY <1>1, <1>3, NoWriteIsAtomic

(* A write is pushed, with or without a savepoint. *)
LEMMA OpenKeepsAtomicInv ==
  ASSUME StackInv, ~crossed, AtomicInv,
         NEW calls \in Seq(Calls), NEW rows \in SUBSET Rows,
         Len(calls) = Len(stack), Len(stack) < MaxDepth,
         Writing(calls) = Writing(stack),
         \A i \in Writing(calls) : calls[i] = stack[i],
         \A i \in DOMAIN calls : calls[i].begun = stack[i].begun,
         OpenStatement(calls, rows),
         UNCHANGED <<file, content, autocommit, rc, crossed>>
  PROVE  AtomicInv'
  <1>1. PICK i \in 0 .. MaxDepth :
           /\ Frame(rows, i) \in Calls /\ stack' = Append(calls, Frame(rows, i))
           /\ \/ /\ ~Journals(rows) /\ i = 0
                 /\ UNCHANGED <<nStatement, savepoints>>
              \/ /\ Journals(rows) /\ i = nStatement + 1 /\ i > 0
                 /\ nStatement' = i /\ savepoints' = Opened(i)
    BY OpenStatementFacts
  <1> PICK n : n = Len(stack) + 1
    OBVIOUS
  <1>2. PICK f \in Calls : /\ f = Frame(rows, i) /\ f.kind = "write"
                           /\ f.iStatement = i /\ f.own = {} /\ f.todo = rows
                           /\ ~f.begun
    BY <1>1, FrameType
  <1>3. /\ DOMAIN stack' = DOMAIN calls \union {n} /\ stack'[n] = f
        /\ \A k \in DOMAIN calls : stack'[k] = calls[k]
        /\ Writing(stack') = Writing(stack) \union {n}
    <2>1. /\ DOMAIN Append(calls, f) = DOMAIN calls \union {Len(calls) + 1}
          /\ Append(calls, f)[Len(calls) + 1] = f
          /\ \A k \in DOMAIN calls : Append(calls, f)[k] = calls[k]
          /\ Writing(Append(calls, f)) = Writing(calls) \union
               IF f.kind = "write" THEN {Len(calls) + 1} ELSE {}
      BY PushFacts
    <2> QED BY <1>1, <1>2, <2>1
  <1>4. /\ n \in Nat /\ \A k \in DOMAIN calls : k \in Nat /\ k < n
        /\ DOMAIN calls = DOMAIN stack /\ Writing(stack) \subseteq DOMAIN stack
        /\ \A k \in Writing(stack) : stack'[k] = stack[k]
    <2>1. stack \in Seq(Calls)
      BY StackInvFacts
    <2> QED BY <1>3, <2>1 DEF Writing
  <1>5. WritesHold /\ JournalsHold /\ BegunAlone
    BY DEF AtomicInv
  <1>6. WritesHold'
    BY <1>2, <1>3, <1>4, <1>5 DEF WritesHold
  <1>7. BegunAlone'
    BY <1>2, <1>3, <1>4, <1>5 DEF BegunAlone
  <1>8. /\ Len(savepoints') <= nStatement'
        /\ Len(savepoints') >= i /\ Len(savepoints') >= Len(savepoints)
        /\ \A k \in DOMAIN savepoints : savepoints'[k] = savepoints[k]
        /\ i > 0 => i \in DOMAIN savepoints' /\ savepoints'[i] = content
    <2>1. /\ Len(savepoints) <= nStatement /\ nStatement \in Nat
          /\ Len(savepoints) \in Nat /\ i \in Nat
          /\ savepoints \in Seq(SUBSET Rows)
      BY <1>5, StackInvFacts DEF JournalsHold
    <2>2. CASE i = 0 /\ UNCHANGED <<nStatement, savepoints>>
      BY <2>1, <2>2
    <2>3. CASE /\ i = nStatement + 1 /\ i > 0
               /\ nStatement' = i /\ savepoints' = Opened(i)
      <3>1. i \in 1 .. MaxDepth /\ i > Len(savepoints)
        BY <2>1, <2>3, StackInvFacts
      <3>2. /\ Opened(i) \in Seq(SUBSET Rows) /\ Len(Opened(i)) = i
            /\ \A k \in DOMAIN savepoints : Opened(i)[k] = savepoints[k]
            /\ \A k \in DOMAIN Opened(i) : k \notin DOMAIN savepoints
                 => Opened(i)[k] = content
        BY <3>1, OpenedFacts
      <3>3. i \in DOMAIN Opened(i) /\ i \notin DOMAIN savepoints
        BY <2>1, <3>1, <3>2
      <3> QED BY <2>1, <2>3, <3>1, <3>2, <3>3
    <2> QED BY <1>1, <2>2, <2>3
  <1>9. ASSUME NEW k \in Writing(stack)
        PROVE  IF stack'[k].iStatement > 0 THEN IsJournaled(k)'
                                           ELSE NeedsNone(k)'
    <2>1. /\ stack'[k] = stack[k] /\ k < n /\ k \in Nat /\ stack[k] \in Calls
          /\ stack[k].iStatement \in Nat
      BY <1>4, StackInvFacts DEF Calls
    <2>2. CASE stack[k].iStatement > 0
      <3>1. IsJournaled(k)
        BY <1>5, <2>2 DEF JournalsHold
      <3>2. /\ stack[k].iStatement \in DOMAIN savepoints
            /\ stack[k].iStatement <= Len(savepoints')
        BY <1>8, <2>1, <2>2, <3>1, StackInvFacts DEF IsJournaled
      <3>3. \A j \in Writing(stack') : j < k => j \in Writing(stack)
        BY <1>3, <1>4, <2>1
      <3> QED BY <1>4, <1>8, <2>1, <2>2, <3>1, <3>2, <3>3 DEF IsJournaled
    <2>3. CASE ~(stack[k].iStatement > 0)
      <3>1. NeedsNone(k)
        BY <1>5, <2>3 DEF JournalsHold
      <3> QED BY <1>3, <1>4, <2>1, <2>3, <3>1 DEF NeedsNone
    <2> QED BY <2>2, <2>3
  <1>10. IF stack'[n].iStatement > 0 THEN IsJournaled(n)' ELSE NeedsNone(n)'
    <2>1. CASE i > 0
      <3>1. \A j \in Writing(stack') : j < n =>
              /\ stack'[j].own \subseteq content
              /\ stack'[j].iStatement < i
        <4> SUFFICES ASSUME NEW j \in Writing(stack)
                     PROVE  /\ stack[j].own \subseteq content
                            /\ stack[j].iStatement < i
          BY <1>3, <1>4
        <4>1. stack[j] \in Calls /\ stack[j].iStatement \in Nat
          BY <1>4, StackInvFacts DEF Calls
        <4>2. stack[j].iStatement > 0 =>
                stack[j].iStatement <= Len(savepoints)
          BY <1>5 DEF JournalsHold, IsJournaled
        <4>3. i > Len(savepoints)
          BY <1>1, <1>5, <2>1, StackInvFacts DEF JournalsHold
        <4> QED BY <1>5, <2>1, <4>1, <4>2, <4>3, StackInvFacts DEF WritesHold
      <3> QED BY <1>2, <1>3, <1>8, <2>1, <3>1 DEF IsJournaled
    <2>2. CASE ~(i > 0)
      <3>1. \/ Cardinality(rows) <= 1
            \/ autocommit /\ Reading(stack) = {}
        BY <1>1, <2>2, RowsAreFinite DEF Journals
      <3>2. CASE Cardinality(rows) <= 1
        <4>1. IsFiniteSet(rows) /\ Cardinality(rows) \in {0, 1}
          BY <3>2, RowsAreFinite
        <4>2. rows = {} \/ \E r : rows = {r}
          BY <4>1, FS_EmptySet, FS_Singleton
        <4>3. Alone(f)
          BY <1>2, <4>2 DEF Alone, Within
        <4> QED BY <1>2, <1>3, <2>2, <4>3 DEF NeedsNone
      <3>3. CASE autocommit /\ Reading(stack) = {}
        <4>1. Writing(stack) = {}
          BY <3>3 DEF Writing, Reading
        <4>2. \A j \in Writing(stack') : j >= n
          BY <1>3, <1>4, <4>1
        <4> QED BY <1>2, <1>3, <2>2, <3>3, <4>2 DEF NeedsNone
      <3> QED BY <3>1, <3>2, <3>3
    <2> QED BY <2>1, <2>2
  <1>11. JournalsHold'
    BY <1>3, <1>8, <1>9, <1>10 DEF JournalsHold
  <1> QED BY <1>6, <1>7, <1>11 DEF AtomicInv

(* The number of a statement transaction is a number. *)
LEMMA JournalType == \A c \in Calls : c.iStatement \in Nat
  BY BoundsAssumption DEF Calls

(* What the statement that is closed leaves: with a savepoint the content is
   kept or goes back to it, and it is released. *)
LEMMA CloseFacts ==
  ASSUME StackInv, ~crossed, AtomicInv, Runs("write"),
         NEW restores \in BOOLEAN, CloseStatement(restores)
  PROVE  /\ Len(stack) \in Writing(stack) /\ Top = stack[Len(stack)]
         /\ UNCHANGED <<file, autocommit>>
         /\ Top.iStatement = 0 => UNCHANGED <<content, nStatement, savepoints>>
         /\ Top.iStatement > 0 =>
              /\ Top.iStatement \in DOMAIN savepoints
              /\ content' = IF restores THEN savepoints[Top.iStatement] ELSE content
              /\ Len(savepoints') = Top.iStatement - 1
              /\ Len(savepoints') <= nStatement'
              /\ \A k \in DOMAIN savepoints : k < Top.iStatement =>
                   savepoints'[k] = savepoints[k]
  <1>1. /\ stack \in Seq(Calls) /\ stack # <<>> /\ Top.kind = "write"
        /\ JournalsHold
    BY StackInvFacts DEF Runs, AtomicInv
  <1>2. /\ Len(stack) \in DOMAIN stack /\ Top = stack[Len(stack)] /\ Top \in Calls
    BY <1>1, PopFacts DEF Top
  <1>3. Len(stack) \in Writing(stack)
    BY <1>1, <1>2 DEF Writing
  <1>4. PICK i \in Nat : i = Top.iStatement
    BY <1>2, BoundsAssumption DEF Calls
  <1>5. CASE i > 0
    <2>1. i <= Len(savepoints) /\ Len(savepoints) <= nStatement
      BY <1>1, <1>2, <1>3, <1>4, <1>5 DEF JournalsHold, IsJournaled
    <2>2. nStatement > 0 /\ i \in DOMAIN savepoints
      BY <1>5, <2>1, StackInvFacts
    <2>3. /\ content' = IF restores THEN savepoints[i] ELSE content
          /\ savepoints' = SubSeq(savepoints, 1, i - 1)
          /\ nStatement' = nStatement - 1 /\ UNCHANGED <<file, autocommit>>
      BY <1>4, <1>5, <2>1, <2>2 DEF CloseStatement, HasStatement
    <2>4. /\ savepoints \in Seq(SUBSET Rows) /\ Len(savepoints) \in Nat
          /\ i - 1 \in Nat /\ i - 1 <= Len(savepoints) /\ nStatement \in Nat
      BY <1>5, <2>1, StackInvFacts
    <2>5. Len(savepoints') = i - 1 /\ Len(savepoints') <= nStatement'
      BY <2>1, <2>3, <2>4
    <2>6. \A k \in 1 .. i - 1 : savepoints'[k] = savepoints[k]
      BY <2>3, <2>4
    <2>7. \A k \in DOMAIN savepoints : k < i => k \in 1 .. i - 1
      BY <2>4
    <2> QED BY <1>2, <1>3, <1>4, <1>5, <2>2, <2>3, <2>5, <2>6, <2>7
  <1>6. CASE ~(i > 0)
    BY <1>2, <1>3, <1>4, <1>6 DEF CloseStatement, HasStatement
  <1> QED BY <1>5, <1>6

(* Closing a statement keeps the writes that have called it atomic. *)
LEMMA CloseKeepsAtomicInv ==
  ASSUME StackInv, ~crossed, AtomicInv, Runs("write"),
         NEW restores \in BOOLEAN, CloseStatement(restores),
         ~OnlyWriter, stack' = Return
  PROVE  AtomicInv'
  <1>1. WritesHold /\ JournalsHold /\ BegunAlone
    BY DEF AtomicInv
  <1>2. PICK n \in Nat : n = Len(stack)
    BY StackInvFacts
  <1>3. /\ DOMAIN stack' = DOMAIN stack \ {n}
        /\ \A j \in DOMAIN stack' : stack'[j] = stack[j] /\ j < n /\ j \in Nat
        /\ Writing(stack') = Writing(stack) \ {n}
    <2>1. stack \in Seq(Calls) /\ stack # <<>>
      BY StackInvFacts DEF Runs
    <2>2. /\ DOMAIN Return = DOMAIN stack \ {Len(stack)}
          /\ \A j \in DOMAIN Return : Return[j] = stack[j] /\ j < Len(stack)
          /\ Writing(Return) = Writing(stack) \ {Len(stack)}
      BY <2>1, PopFacts DEF Return
    <2>3. \A j \in DOMAIN stack : j \in Nat
      BY <2>1
    <2> QED BY <1>2, <2>2, <2>3
  <1>4. /\ n \in Writing(stack) /\ Top = stack[n] /\ stack[n] \in Calls
        /\ UNCHANGED <<file, autocommit>>
    BY <1>2, CloseFacts, StackInvFacts DEF Writing
  <1>5. PICK i \in Nat : i = stack[n].iStatement
    BY <1>4, BoundsAssumption DEF Calls
  <1>6. \A j \in Writing(stack') :
          /\ j \in Writing(stack) /\ stack'[j] = stack[j] /\ j < n
          /\ stack[j] \in Calls /\ stack[j].iStatement \in Nat
    BY <1>3, StackInvFacts DEF Writing, Calls
  <1>7. BegunAlone'
    BY <1>1, <1>3, <1>6 DEF BegunAlone
  <1>8. \A j \in Writing(stack') : NeedsNone(j) => NeedsNone(j)'
    BY <1>4, <1>6 DEF NeedsNone
  <1>9. CASE i = 0
    <2>1. UNCHANGED <<content, nStatement, savepoints>>
      BY <1>4, <1>5, <1>9, CloseFacts
    <2>2. WritesHold'
      BY <1>1, <1>4, <1>6, <2>1 DEF WritesHold
    <2>3. JournalsHold'
      BY <1>1, <1>6, <1>8, <2>1 DEF JournalsHold, IsJournaled
    <2> QED BY <1>7, <2>2, <2>3 DEF AtomicInv
  <1>10. CASE i > 0
    <2>1. /\ i \in DOMAIN savepoints
          /\ content' = IF restores THEN savepoints[i] ELSE content
          /\ Len(savepoints') = i - 1 /\ Len(savepoints') <= nStatement'
          /\ \A k \in DOMAIN savepoints : k < i =>
               savepoints'[k] = savepoints[k]
      BY <1>4, <1>5, <1>10, CloseFacts
    <2>2. IsJournaled(n)
      BY <1>1, <1>4, <1>5, <1>10 DEF JournalsHold
    <2>3. \A j \in Writing(stack') : /\ stack[j].own \subseteq savepoints[i]
                                      /\ stack[j].iStatement < i
      BY <1>5, <1>6, <2>2 DEF IsJournaled
    <2>4. WritesHold'
      BY <1>1, <1>4, <1>6, <2>1, <2>3 DEF WritesHold
    <2>5. ASSUME NEW j \in Writing(stack'), stack[j].iStatement > 0
          PROVE  IsJournaled(j)'
      <3>1. IsJournaled(j)
        BY <1>1, <1>6, <2>5 DEF JournalsHold
      <3>2. PICK k \in Nat : k = stack[j].iStatement
        BY <1>6
      <3>3. /\ k \in DOMAIN savepoints /\ k < i /\ k <= i - 1
        BY <2>3, <2>5, <3>1, <3>2, StackInvFacts DEF IsJournaled
      <3>4. savepoints'[k] = savepoints[k] /\ k <= Len(savepoints')
        BY <2>1, <3>3
      <3> QED BY <1>6, <3>1, <3>2, <3>4 DEF IsJournaled
    <2>6. JournalsHold'
      BY <1>1, <1>6, <1>8, <2>1, <2>5 DEF JournalsHold
    <2> QED BY <1>7, <2>4, <2>6 DEF AtomicInv
  <1> QED BY <1>5, <1>9, <1>10

(* The innermost write goes on, and has perhaps written a row. *)
LEMMA RowKeepsAtomicInv ==
  ASSUME StackInv, ~crossed, AtomicInv, Runs("write"),
         NEW e \in Calls, NEW new \in SUBSET Top.todo,
         new \intersect content = {}, e.kind = Top.kind,
         e.iStatement = Top.iStatement, e.begun = Top.begun,
         e.own = Top.own \union new, e.todo \subseteq Top.todo \ new,
         stack' = SetTop(e), content' = content \union new,
         UNCHANGED <<file, autocommit, nStatement, savepoints>>
  PROVE  AtomicInv'
  <1>1. WritesHold /\ JournalsHold /\ BegunAlone
    BY DEF AtomicInv
  <1>2. stack # <<>> /\ stack \in Seq(Calls) /\ ContentGrows
    BY StackInvFacts DEF Runs, StackInv
  <1>3. PICK n \in Nat : n = Len(stack)
    BY StackInvFacts
  <1>4. /\ DOMAIN stack' = DOMAIN stack /\ stack'[n] = e
        /\ \A j \in DOMAIN stack \ {n} : stack'[j] = stack[j]
        /\ Writing(stack') = Writing(stack)
    BY <1>2, <1>3, SetTopKeeps
  <1>5. /\ n \in Writing(stack) /\ Top = stack[n] /\ stack[n] \in Calls
        /\ \A j \in Writing(stack) : j \in DOMAIN stack /\ j \in Nat /\ j <= n
    <2>1. /\ n \in DOMAIN stack /\ Top = stack[n] /\ stack[n] \in Calls
      BY <1>2, <1>3, PopFacts DEF Top
    <2>2. \A j \in DOMAIN stack : j \in Nat /\ j <= n
      BY <1>2, <1>3
    <2>3. Top.kind = "write"
      BY DEF Runs
    <2> QED BY <2>1, <2>2, <2>3 DEF Writing
  <1>6. \A j \in DOMAIN stack : /\ stack'[j].iStatement = stack[j].iStatement
                                /\ stack'[j].begun = stack[j].begun
                                /\ Within(stack'[j]) \subseteq Within(stack[j])
    BY <1>4, <1>5 DEF Within
  <1>7. BegunAlone'
    BY <1>1, <1>4, <1>6 DEF BegunAlone
  <1>8. WritesHold'
    BY <1>1, <1>2, <1>4, <1>5 DEF WritesHold, ContentGrows
  <1>9. ASSUME NEW j \in Writing(stack)
        PROVE  IF stack'[j].iStatement > 0 THEN IsJournaled(j)'
                                           ELSE NeedsNone(j)'
    <2>1. CASE stack[j].iStatement > 0
      <3>1. IsJournaled(j)
        BY <1>1, <2>1 DEF JournalsHold
      <3>2. PICK k \in Nat : k = stack[j].iStatement
        BY <1>5, StackInvFacts, JournalType
      <3>3. k \in DOMAIN savepoints /\ k <= Len(savepoints)
        BY <2>1, <3>1, <3>2, StackInvFacts DEF IsJournaled
      <3>4. savepoints[k] \subseteq content
        BY <1>2, <3>3 DEF ContentGrows
      <3>5. stack'[j].own \intersect savepoints[k] = {}
        BY <1>4, <1>5, <3>1, <3>2, <3>4 DEF IsJournaled
      <3>6. \A m \in Writing(stack') : m < j =>
              stack'[m] = stack[m] /\ m \in Writing(stack)
        <4> SUFFICES ASSUME NEW m \in Writing(stack), m < j
                     PROVE  stack'[m] = stack[m]
          BY <1>4
        <4>1. m \in DOMAIN stack /\ m \in Nat /\ j \in Nat /\ j <= n
          BY <1>5
        <4>2. m # n
          BY <4>1
        <4> QED BY <1>4, <4>1, <4>2
      <3> QED BY <1>5, <1>6, <2>1, <3>1, <3>2, <3>3, <3>5, <3>6 DEF IsJournaled
    <2>2. CASE ~(stack[j].iStatement > 0)
      <3>1. NeedsNone(j)
        BY <1>1, <2>2 DEF JournalsHold
      <3>2. Alone(stack[j]) => Alone(stack[j])'
        BY <1>5, <1>6 DEF Alone
      <3> QED BY <1>4, <1>5, <1>6, <2>2, <3>1, <3>2 DEF NeedsNone
    <2> QED BY <2>1, <2>2
  <1>10. JournalsHold'
    BY <1>1, <1>4, <1>9 DEF JournalsHold
  <1> QED BY <1>7, <1>8, <1>10 DEF AtomicInv

(* A call that is no write is pushed. *)
LEMMA PushedCall ==
  ASSUME stack \in Seq(Calls), NEW c \in Calls, c.kind # "write",
         stack' = Append(stack, c)
  PROVE  /\ DOMAIN stack' = DOMAIN stack \union {Len(stack) + 1}
         /\ stack'[Len(stack) + 1] = c
         /\ \A i \in DOMAIN stack : stack'[i] = stack[i]
         /\ Writing(stack') = Writing(stack)
  <1>1. /\ DOMAIN Append(stack, c) = DOMAIN stack \union {Len(stack) + 1}
        /\ Append(stack, c)[Len(stack) + 1] = c
        /\ \A i \in DOMAIN stack : Append(stack, c)[i] = stack[i]
        /\ Writing(Append(stack, c)) = Writing(stack) \union
             IF c.kind = "write" THEN {Len(stack) + 1} ELSE {}
    BY PushFacts
  <1> QED BY <1>1

(* A call that is no write returns and leaves the data alone. *)
LEMMA ReturnIsAtomic ==
  ASSUME StackInv, AtomicInv, ~crossed, stack # <<>>, Top.kind # "write",
         stack' = Return,
         UNCHANGED <<file, content, autocommit, nStatement, savepoints>>
  PROVE  AtomicInv'
  <1>1. Writing(stack') = Writing(stack)
    BY PopKeeps
  <1>2. /\ DOMAIN stack' \subseteq DOMAIN stack
        /\ \A i \in DOMAIN stack' : stack'[i] = stack[i]
    BY StackInvFacts, PopFacts DEF Return
  <1>3. \A i \in Writing(stack) : i \in DOMAIN stack'
    BY <1>1 DEF Writing
  <1> QED BY <1>1, <1>2, <1>3, SameWritesAreAtomic

(* Every step keeps AtomicInv. *)
LEMMA AtomicStep == StackInv /\ StackInv' /\ AtomicInv /\ [Next]_vars => AtomicInv'
  <1> SUFFICES ASSUME StackInv, StackInv', AtomicInv, [Next]_vars, ~crossed',
                      ~(autocommit' /\ stack' = <<>>)
               PROVE  AtomicInv'
    BY ClosedIsAtomic DEF AtomicInv
  <1>0. ASSUME NEW happens \in BOOLEAN, Cross(happens)
        PROVE  ~crossed /\ (happens => Writing(stack) = {})
    BY <1>0 DEF Cross, StackInv, TypeOK
  <1>1. /\ stack \in Seq(Calls) /\ autocommit \in BOOLEAN /\ autocommit' \in BOOLEAN
        /\ \A i \in Writing(stack) : i \in DOMAIN stack
    BY StackInvFacts DEF StackInv, TypeOK, Writing
  <1>2. CASE Begin
    <2>1. /\ stack' = stack /\ BeginTransaction /\ ~crossed
          /\ autocommit => Writing(stack) = {}
      BY <1>0, <1>1, <1>2 DEF Begin
    <2>2. CASE autocommit
      BY <2>1, <2>2, NewTransactionIsAtomic
    <2>3. CASE ~autocommit
      <3>1. UNCHANGED <<file, content, autocommit, nStatement, savepoints>>
        BY <1>1, <2>1, <2>3 DEF BeginTransaction, Savepoints
      <3> QED BY <2>1, <3>1, SameWritesAreAtomic
    <2> QED BY <2>2, <2>3
  <1>3. CASE End
    <2>1. /\ stack' = stack /\ EndTransaction /\ ~crossed
      BY <1>0, <1>1, <1>3 DEF End
    <2>2. CASE UNCHANGED <<file, content, autocommit, nStatement, savepoints>>
      BY <2>1, <2>2, SameWritesAreAtomic
    <2>3. CASE ~EndRefused /\ (CommitAll \/ RollbackAll)
      BY <2>1, <2>3, NewTransactionIsAtomic DEF EndRefused
    <2> QED BY <2>1, <2>2, <2>3 DEF EndTransaction
  <1>4. CASE Rollback
    <2>1. /\ stack' = Tripped(stack) /\ RollbackAll /\ Writing(stack) = {}
      BY <1>0, <1>4 DEF Rollback
    <2> QED BY <1>1, <2>1, TrippedFacts, NewTransactionIsAtomic
  <1>5. ASSUME NEW rows \in RowSets, InsertRows(rows) PROVE AtomicInv'
    <2>1. PICK begun \in BOOLEAN : begun = autocommit
      BY <1>1
    <2>2. PICK c \in Calls :
            /\ c = [Call("insert_rows", rows) EXCEPT !.begun = begun]
            /\ c.kind = "insert_rows" /\ c.begun = begun /\ c.iStatement = 0
      BY CallType DEF RowSets
    <2>3. /\ stack' = Append(stack, c) /\ BeginTransaction /\ ~crossed
          /\ autocommit => Writing(stack) = {}
      BY <1>0, <1>1, <1>5, <2>1, <2>2 DEF InsertRows
    <2>4. /\ DOMAIN stack' = DOMAIN stack \union {Len(stack) + 1}
          /\ stack'[Len(stack) + 1] = c
          /\ \A i \in DOMAIN stack : stack'[i] = stack[i]
          /\ Writing(stack') = Writing(stack)
      BY <1>1, <2>2, <2>3, PushedCall
    <2>5. CASE autocommit
      BY <2>3, <2>4, <2>5, NewTransactionIsAtomic
    <2>6. CASE ~autocommit
      <3>1. UNCHANGED <<file, content, autocommit, nStatement, savepoints>>
        BY <1>1, <2>3, <2>6 DEF BeginTransaction, Savepoints
      <3>2. \A i \in DOMAIN stack' :
              stack'[i].begun => i \in DOMAIN stack /\ stack[i].begun
        BY <2>1, <2>2, <2>4, <2>6
      <3> QED BY <1>1, <2>3, <2>4, <3>1, <3>2, SameWritesAreAtomic
    <2> QED BY <2>5, <2>6
  <1>6. ASSUME NEW rows \in RowSets, Write(rows) PROVE AtomicInv'
    <2>1. rows \in SUBSET Rows
      BY DEF RowSets
    <2>2. /\ OpenStatement(stack, rows) /\ Len(stack) < MaxDepth /\ ~crossed
          /\ UNCHANGED <<file, content, autocommit, rc, crossed>>
      BY <1>6 DEF Write, CanPush
    <2> QED BY <1>1, <2>1, <2>2, OpenKeepsAtomicInv
  <1>7. CASE InsertRowsEnds
    <2>1. /\ stack' = Return /\ stack # <<>> /\ Top.kind # "write"
          /\ EndTransaction /\ ~crossed
      BY <1>0, <1>1, <1>7 DEF InsertRowsEnds, Runs
    <2>2. CASE UNCHANGED <<file, content, autocommit, nStatement, savepoints>>
      BY <2>1, <2>2, ReturnIsAtomic
    <2>3. CASE ~EndRefused /\ (CommitAll \/ RollbackAll)
      BY <2>1, <2>3, PopKeeps, NewTransactionIsAtomic DEF EndRefused
    <2> QED BY <2>1, <2>2, <2>3 DEF EndTransaction
  <1>8. CASE Select
    <2>1. PICK c \in Calls : /\ c = Call("select", {}) /\ ~c.begun
                             /\ c.kind = "select" /\ c.iStatement = 0
      BY CallType
    <2>2. /\ stack' = Append(stack, c) /\ ~crossed
          /\ UNCHANGED <<file, content, autocommit, nStatement, savepoints>>
      BY <1>8, <2>1 DEF Select
    <2>3. /\ DOMAIN stack' = DOMAIN stack \union {Len(stack) + 1}
          /\ stack'[Len(stack) + 1] = c
          /\ \A i \in DOMAIN stack : stack'[i] = stack[i]
          /\ Writing(stack') = Writing(stack)
      BY <1>1, <2>1, <2>2, PushedCall
    <2>4. \A i \in DOMAIN stack' :
            stack'[i].begun => i \in DOMAIN stack /\ stack[i].begun
      BY <2>1, <2>3
    <2> QED BY <1>1, <2>2, <2>3, <2>4, SameWritesAreAtomic
  <1>9. ASSUME NEW row \in Rows, InsertRow(row) PROVE AtomicInv'
    <2>1. /\ stack # <<>> /\ Len(stack) < MaxDepth /\ Top.kind = "insert_rows"
          /\ ~crossed
      BY <1>9 DEF InsertRow, Runs
    <2>2. PICK c \in Calls : c = Top /\ c = stack[Len(stack)]
      BY <1>1, <2>1, PopFacts DEF Top
    <2>3. PICK e \in Calls :
            /\ e = [c EXCEPT !.todo = @ \ {row}]
            /\ e.kind = c.kind /\ e.iStatement = c.iStatement
            /\ e.begun = c.begun /\ e.own = c.own /\ e.todo = c.todo \ {row}
      BY RowIsTaken
    <2>4. PICK calls : calls = SetTop(e)
      OBVIOUS
    <2>5. /\ calls \in Seq(Calls) /\ Len(calls) = Len(stack)
          /\ DOMAIN calls = DOMAIN stack /\ calls[Len(stack)] = e
          /\ \A i \in DOMAIN stack \ {Len(stack)} : calls[i] = stack[i]
          /\ Writing(calls) = Writing(stack)
      <3>1. e.kind = Top.kind /\ e.iStatement = Top.iStatement
        BY <2>2, <2>3
      <3> QED BY <2>1, <2>4, <3>1, SetTopKeeps
    <2>6. /\ OpenStatement(calls, {row})
          /\ UNCHANGED <<file, content, autocommit, rc, crossed>>
      BY <1>9, <2>2, <2>3, <2>4 DEF InsertRow
    <2>7. Len(stack) \notin Writing(stack)
      BY <2>1, <2>2 DEF Writing
    <2>8. /\ \A i \in Writing(calls) : calls[i] = stack[i]
          /\ \A i \in DOMAIN calls : calls[i].begun = stack[i].begun
      BY <1>1, <2>2, <2>3, <2>5, <2>7
    <2> QED BY <2>1, <2>5, <2>6, <2>8, OpenKeepsAtomicInv
  <1>10. ASSUME NEW row \in Rows, WriteRow(row) PROVE AtomicInv'
    <2>1. /\ Runs("write") /\ row \in Top.todo /\ row \notin content /\ ~crossed
          /\ stack # <<>>
      BY <1>10 DEF WriteRow, Runs
    <2>2. PICK c \in Calls : c = Top
      BY <1>1, <2>1, PopFacts DEF Top
    <2>3. PICK e \in Calls :
            /\ e = [c EXCEPT !.todo = @ \ {row}, !.own = @ \union {row}]
            /\ e.kind = c.kind /\ e.iStatement = c.iStatement
            /\ e.begun = c.begun
            /\ e.own = c.own \union {row} /\ e.todo = c.todo \ {row}
      BY RowIsWritten
    <2>4. /\ stack' = SetTop(e) /\ content' = content \union {row}
          /\ UNCHANGED <<file, autocommit, nStatement, savepoints>>
      BY <1>10, <2>2, <2>3 DEF WriteRow
    <2>5. /\ e.kind = Top.kind /\ e.iStatement = Top.iStatement
          /\ e.begun = Top.begun /\ e.own = Top.own \union {row}
          /\ e.todo \subseteq Top.todo \ {row} /\ {row} \in SUBSET Top.todo
          /\ {row} \intersect content = {}
      BY <2>1, <2>2, <2>3
    <2> QED BY <2>1, <2>4, <2>5, RowKeepsAtomicInv
  <1>11. ASSUME NEW row \in Rows, SkipRow(row) PROVE AtomicInv'
    <2>1. Runs("write") /\ row \in Top.todo /\ ~crossed /\ stack # <<>>
      BY <1>11 DEF SkipRow, Runs
    <2>2. PICK c \in Calls : c = Top
      BY <1>1, <2>1, PopFacts DEF Top
    <2>3. PICK e \in Calls :
            /\ e = [c EXCEPT !.todo = @ \ {row}]
            /\ e.kind = c.kind /\ e.iStatement = c.iStatement
            /\ e.begun = c.begun /\ e.own = c.own /\ e.todo = c.todo \ {row}
      BY RowIsTaken
    <2>4. /\ stack' = SetTop(e) /\ content' = content \union {}
          /\ UNCHANGED <<file, autocommit, nStatement, savepoints>>
      BY <1>11, <2>2, <2>3 DEF SkipRow
    <2>5. /\ e.kind = Top.kind /\ e.iStatement = Top.iStatement
          /\ e.begun = Top.begun /\ e.own = Top.own \union {}
          /\ e.todo \subseteq Top.todo \ {} /\ {} \in SUBSET Top.todo
          /\ {} \intersect content = {}
      BY <2>2, <2>3
    <2> QED BY <2>1, <2>4, <2>5, RowKeepsAtomicInv
  <1>12. CASE HaltSelect
    <2>1. /\ stack' = Return /\ stack # <<>> /\ Top.kind # "write" /\ ~crossed
      BY <1>0, <1>12 DEF HaltSelect, Runs
    <2>2. CASE OnlyWriter /\ CommitAll
      BY <2>1, <2>2, PopKeeps, NewTransactionIsAtomic DEF OnlyWriter
    <2>3. CASE UNCHANGED <<file, content, autocommit, nStatement, savepoints>>
      BY <2>1, <2>3, ReturnIsAtomic
    <2> QED BY <1>12, <2>2, <2>3 DEF HaltSelect
  <1>13. ASSUME NEW restores \in BOOLEAN, Runs("write"), Cross(FALSE),
                stack' = Return,
                \/ OnlyWriter /\ (CommitAll \/ RollbackAll)
                \/ ~OnlyWriter /\ CloseStatement(restores)
         PROVE  AtomicInv'
    <2>1. ~crossed
      BY <1>0, <1>13
    <2>2. CASE OnlyWriter /\ (CommitAll \/ RollbackAll)
      <3>1. Writing(stack') = {}
        BY <1>13, <2>2 DEF OnlyWriter
      <3>2. savepoints' = <<>> /\ nStatement' = 0
        BY <2>2 DEF CommitAll, RollbackAll, Savepoints
      <3>3. Len(savepoints') <= nStatement'
        BY <3>2
      <3> QED BY <3>1, <3>3, NoWriteIsAtomic
    <2>3. CASE ~OnlyWriter /\ CloseStatement(restores)
      BY <1>13, <2>1, <2>3, CloseKeepsAtomicInv
    <2> QED BY <1>13, <2>2, <2>3
  <1>14. CASE HaltWrite
    <2>1. /\ Runs("write") /\ Cross(FALSE) /\ stack' = Return
          /\ \/ OnlyWriter /\ (CommitAll \/ RollbackAll)
             \/ ~OnlyWriter /\ CloseStatement(FALSE)
      BY <1>14 DEF HaltWrite
    <2> QED BY <1>13, <2>1
  <1>15. CASE HaltAbort
    <2>1. /\ Runs("write") /\ Cross(FALSE) /\ stack' = Return
          /\ \/ OnlyWriter /\ (CommitAll \/ RollbackAll)
             \/ ~OnlyWriter /\ CloseStatement(TRUE)
      BY <1>15 DEF HaltAbort
    <2> QED BY <1>13, <2>1
  <1>16. CASE HaltIoError
    <2>1. Writing(stack) = {} /\ stack # <<>> /\ Top.kind = "write"
      BY <1>0, <1>16 DEF HaltIoError, Runs
    <2>2. Len(stack) \in Writing(stack)
      BY <1>1, <2>1, PopFacts DEF Writing, Top
    <2> QED BY <2>1, <2>2
  <1>17. CASE UNCHANGED vars
    <2>1. /\ UNCHANGED <<file, content, autocommit, nStatement, savepoints>>
          /\ stack' = stack /\ ~crossed
      BY <1>17 DEF vars
    <2> QED BY <2>1, SameWritesAreAtomic
  <1> QED BY <1>2, <1>3, <1>4, <1>5, <1>6, <1>7, <1>8, <1>9, <1>10, <1>11,
             <1>12, <1>14, <1>15, <1>16, <1>17 DEF Next

(* Before any call there is no write. *)
LEMMA AtomicInit == Init => AtomicInv
  <1> SUFFICES ASSUME Init PROVE AtomicInv
    OBVIOUS
  <1>1. Writing(stack) = {} /\ Len(savepoints) = 0 /\ nStatement = 0
    BY DEF Init, Writing
  <1> QED BY <1>1 DEF AtomicInv, WritesHold, JournalsHold, BegunAlone

(* The savepoints that are open are those of the writes in progress, and each
   of them has been taken where its statement began. *)
THEOREM AtomicInvariant == Spec => []AtomicInv
  <1> QED BY AtomicInit, AtomicStep, StackInvariant, PTL DEF Spec

(* A call returns in the steps that end one, and in no other. *)
LEMMA OnlyEndsReturn ==
  ASSUME StackInv, Next, stack # <<>>,
         stack' = Return \/ Len(stack') < Len(stack)
  PROVE  InsertRowsEnds \/ HaltSelect \/ HaltWrite \/ HaltAbort \/ HaltIoError
  <1>1. /\ stack \in Seq(Calls) /\ Len(stack) \in Nat
        /\ Len(stack') < Len(stack)
    <2>1. stack \in Seq(Calls) /\ Len(stack) \in Nat
      BY StackInvFacts
    <2>2. Len(Return) = Len(stack) - 1
      BY <2>1, PopFacts DEF Return
    <2> QED BY <2>1, <2>2
  <1>2. stack' # stack /\ stack' # Tripped(stack)
    BY <1>1, TrippedFacts
  <1>3. ~Begin /\ ~End /\ ~Rollback
    BY <1>2 DEF Begin, End, Rollback
  <1>4. ASSUME NEW calls \in Seq(Calls), NEW c \in Calls,
               Len(calls) = Len(stack), stack' = Append(calls, c)
        PROVE  FALSE
    BY <1>1, <1>4, PushFacts
  <1>5. ASSUME NEW rows \in RowSets, InsertRows(rows) PROVE FALSE
    <2>1. PICK begun \in BOOLEAN : begun = autocommit
      BY StackInvFacts
    <2>2. [Call("insert_rows", rows) EXCEPT !.begun = begun] \in Calls
      BY CallType DEF RowSets
    <2> QED BY <1>1, <1>4, <1>5, <2>1, <2>2 DEF InsertRows
  <1>6. ASSUME NEW calls \in Seq(Calls), NEW rows \in SUBSET Rows,
               Len(calls) = Len(stack), Len(stack) < MaxDepth,
               OpenStatement(calls, rows)
        PROVE  FALSE
    <2>1. PICK i \in 0 .. MaxDepth :
            /\ Frame(rows, i) \in Calls
            /\ stack' = Append(calls, Frame(rows, i))
      BY <1>6, OpenStatementFacts
    <2> QED BY <1>4, <1>6, <2>1
  <1>7. ASSUME NEW rows \in RowSets, Write(rows) PROVE FALSE
    BY <1>1, <1>6, <1>7 DEF Write, CanPush, RowSets
  <1>8. ~Select
    <2>1. Call("select", {}) \in Calls
      BY CallType
    <2> QED BY <1>1, <1>4, <2>1 DEF Select
  <1>9. ASSUME NEW e \in Calls, e.kind = Top.kind, e.iStatement = Top.iStatement
        PROVE  SetTop(e) \in Seq(Calls) /\ Len(SetTop(e)) = Len(stack)
    BY <1>9, SetTopKeeps
  <1>10. PICK c \in Calls : c = Top
    BY <1>1, PopFacts DEF Top
  <1>11. ASSUME NEW row \in Rows, InsertRow(row) PROVE FALSE
    <2>1. PICK e \in Calls :
            /\ e = [c EXCEPT !.todo = @ \ {row}]
            /\ e.kind = c.kind /\ e.iStatement = c.iStatement
            /\ e.begun = c.begun /\ e.own = c.own /\ e.todo = c.todo \ {row}
      BY RowIsTaken
    <2>2. PICK calls : calls = SetTop(e)
      OBVIOUS
    <2>3. calls \in Seq(Calls) /\ Len(calls) = Len(stack)
      BY <1>9, <1>10, <2>1, <2>2
    <2>4. OpenStatement(calls, {row}) /\ Len(stack) < MaxDepth
      BY <1>10, <1>11, <2>1, <2>2 DEF InsertRow
    <2> QED BY <1>6, <2>3, <2>4
  <1>12. ASSUME NEW row \in Rows, WriteRow(row) \/ SkipRow(row) PROVE FALSE
    <2>1. PICK e \in Calls :
            /\ e = [c EXCEPT !.todo = @ \ {row}]
            /\ e.kind = c.kind /\ e.iStatement = c.iStatement
            /\ e.begun = c.begun /\ e.own = c.own /\ e.todo = c.todo \ {row}
      BY RowIsTaken
    <2>2. PICK w \in Calls :
            /\ w = [c EXCEPT !.todo = @ \ {row}, !.own = @ \union {row}]
            /\ w.kind = c.kind /\ w.iStatement = c.iStatement
            /\ w.begun = c.begun
            /\ w.own = c.own \union {row} /\ w.todo = c.todo \ {row}
      BY RowIsWritten
    <2>3. stack' = SetTop(e) \/ stack' = SetTop(w)
      BY <1>10, <1>12, <2>1, <2>2 DEF WriteRow, SkipRow
    <2>4. Len(SetTop(e)) = Len(stack) /\ Len(SetTop(w)) = Len(stack)
      BY <1>9, <1>10, <2>1, <2>2
    <2> QED BY <1>1, <2>3, <2>4
  <1> QED BY <1>3, <1>5, <1>7, <1>8, <1>11, <1>12 DEF Next

(* A failed statement leaves none of its rows and one that succeeds has all of
   them in the table, whatever the statements it called have done and undone,
   unless a transaction began or ended under a write in progress. *)
THEOREM StatementsAllOrNothing == Spec => StatementsAreAtomic
  <1> DEFINE Atomic ==
        ~crossed =>
          /\ Fails => Top.own \intersect content' = {}
          /\ Returns("write") /\ rc' = "ok" => Top.own \subseteq content'
  <1>1. StackInv /\ AtomicInv /\ [Next]_vars => [Atomic]_vars
    <2> SUFFICES ASSUME StackInv, AtomicInv, Next, ~crossed, Runs("write"),
                        stack' = Return \/ Len(stack') < Len(stack)
                 PROVE  /\ rc' # "ok" => Top.own \intersect content' = {}
                        /\ rc' = "ok" => Top.own \subseteq content'
      BY DEF Fails, Returns
    <2>1. /\ stack # <<>> /\ Top.kind = "write" /\ stack \in Seq(Calls)
          /\ WritesHold /\ JournalsHold
      BY StackInvFacts DEF Runs, AtomicInv
    <2>2. PICK n : n = Len(stack)
      OBVIOUS
    <2>3. /\ Top = stack[n] /\ n \in Writing(stack) /\ stack[n] \in Calls
      BY <2>1, <2>2, PopFacts DEF Top, Writing
    <2>4. /\ Top.own \subseteq content /\ Top.own \intersect file = {}
          /\ Top.own \intersect Top.todo = {}
      BY <2>1, <2>3 DEF WritesHold
    <2>5. RollbackAll => Top.own \intersect content' = {}
      BY <2>4 DEF RollbackAll
    <2>6. CASE HaltWrite
      <3>1. rc' # "ok" => RollbackAll
        BY <2>6 DEF HaltWrite
      <3>2. rc' = "ok" => CommitAll \/ CloseStatement(FALSE)
        BY <2>6 DEF HaltWrite
      <3>3. CommitAll \/ CloseStatement(FALSE) => content' = content
        BY DEF CommitAll, CloseStatement
      <3> QED BY <2>4, <2>5, <3>1, <3>2, <3>3
    <2>7. CASE HaltIoError
      BY <2>5, <2>7 DEF HaltIoError
    <2>8. CASE HaltAbort
      <3>1. rc' # "ok" /\ (RollbackAll \/ (~OnlyWriter /\ CloseStatement(TRUE)))
        BY <2>8 DEF HaltAbort
      <3>2. CASE ~OnlyWriter /\ CloseStatement(TRUE) /\ Top.iStatement > 0
        <4>1. content' = savepoints[Top.iStatement]
          BY <3>2, CloseFacts
        <4>2. Top.own \intersect savepoints[Top.iStatement] = {}
          BY <2>1, <2>3, <3>2 DEF JournalsHold, IsJournaled
        <4> QED BY <3>1, <4>1, <4>2
      <3>3. CASE ~OnlyWriter /\ CloseStatement(TRUE) /\ ~(Top.iStatement > 0)
        <4>1. NeedsNone(n)
          BY <2>1, <2>3, <3>3 DEF JournalsHold
        <4>2. ~(autocommit /\ \A j \in Writing(stack) : j >= n)
          <5> SUFFICES ASSUME autocommit, \A j \in Writing(stack) : j >= n
                       PROVE  Writing(Return) = {}
            BY <3>3 DEF OnlyWriter
          <5>1. /\ Writing(Return) = Writing(stack) \ {n}
                /\ \A j \in DOMAIN stack : j <= n /\ j \in Nat
            <6>1. Writing(Return) = Writing(stack) \ {n}
              BY <2>1, <2>2, PopFacts DEF Return
            <6>2. \A j \in DOMAIN stack : j <= n /\ j \in Nat
              BY <2>1, <2>2
            <6> QED BY <6>1, <6>2
          <5>2. n \in Nat /\ \A j \in Writing(stack) : j \in DOMAIN stack
            BY <2>1, <2>2 DEF Writing
          <5>3. \A j \in Writing(stack) : j = n
            BY <5>1, <5>2
          <5> QED BY <5>1, <5>3
        <4>3. Alone(Top)
          BY <2>3, <4>1, <4>2 DEF NeedsNone
        <4>4. PICK row \in Top.todo : TRUE
          BY <2>8 DEF HaltAbort
        <4>5. Top.own = {}
          BY <2>4, <4>3 DEF Alone, Within
        <4> QED BY <3>1, <4>5
      <3> QED BY <2>5, <3>1, <3>2, <3>3
    <2>9. ~InsertRowsEnds /\ ~HaltSelect
      BY <2>1 DEF InsertRowsEnds, HaltSelect, Runs
    <2> QED BY <2>1, <2>6, <2>7, <2>8, <2>9, OnlyEndsReturn
  <1> QED BY <1>1, StackInvariant, AtomicInvariant, PTL DEF Spec, StatementsAreAtomic

(* insert_rows() leaves no transaction of its own open, whatever failed, with
   the same exception: no write that began before it stands in the way of its
   END. *)
THEOREM InsertRowsEndsItsTransaction == Spec => InsertRowsCloses
  <1> DEFINE Closes ==
        Returns("insert_rows") /\ Top.begun /\ ~crossed => autocommit'
  <1>1. StackInv /\ AtomicInv /\ [Next]_vars => [Closes]_vars
    <2> SUFFICES ASSUME StackInv, AtomicInv, Next, ~crossed,
                        Runs("insert_rows"), stack' = Return, Top.begun
                 PROVE  autocommit'
      BY DEF Returns
    <2>1. /\ stack # <<>> /\ Top.kind = "insert_rows" /\ stack \in Seq(Calls)
          /\ BegunAlone
      BY StackInvFacts DEF Runs, AtomicInv
    <2>2. InsertRowsEnds
      BY <2>1, OnlyEndsReturn DEF HaltSelect, HaltWrite, HaltAbort, HaltIoError,
                                  Runs
    <2>3. PICK n : n = Len(stack)
      OBVIOUS
    <2>4. n \in DOMAIN stack /\ Top = stack[n]
      BY <2>1, <2>3, PopFacts DEF Top
    <2>5. \A j \in Writing(stack) : j > n /\ j \in DOMAIN stack
      BY <2>1, <2>4 DEF BegunAlone, Writing
    <2>6. Writing(stack) = {}
      <3>1. \A j \in DOMAIN stack : ~(j > n)
        BY <2>1, <2>3
      <3> QED BY <2>5, <3>1
    <2> QED BY <2>2, <2>6 DEF InsertRowsEnds, EndTransaction, EndRefused,
                              CommitAll, RollbackAll
  <1> QED BY <1>1, StackInvariant, AtomicInvariant, PTL DEF Spec, InsertRowsCloses
=============================================================================
