------------------------- MODULE ImportExportProofs -------------------------
(***************************************************************************)
(* Proofs about ImportExport, the calls, and JsonCodec, the values.        *)
(***************************************************************************)
EXTENDS ImportExport, JsonCodec, Integers, FiniteSetTheorems, WellFoundedInduction, TLAPS

-----------------------------------------------------------------------------
(* The invariant of ImportExport. *)

(* Without a reserved lock the connection sees the file; what it has changed it
   has in a transaction, and foreign keys are deferred in one only. *)
StoreInv ==
  /\ IsContent(file) /\ IsSchema(file) /\ ~Orphaned(file)
  /\ IsContent(work) /\ IsSchema(work)
  /\ tx \in Transactions
  /\ tx # "reserved" => work = file
  /\ deferred => tx # "none"
  /\ tx # "none" => db

Filling   == {"create", "end_create", "rows", "end_row", "end"}
Importing == Labels \ {"idle", "list", "list_shadows", "export"}

(* The counters, the names and the history of a call, where it is. *)
CallInv ==
  /\ pc \in Importing => db
  /\ pc \notin {"drop_views", "shadows", "drop_tables", "list_shadows", "export"} => todo = {}
  /\ pc = "drop_views" => \A v \in todo : Kind[v] = "view"
  /\ pc \in {"idle", "list", "list_shadows"} => archive = <<>>
  /\ pc \notin Filling => i = 0 /\ j = 0 /\ ~broken /\ ~refused
  /\ pc = "create" => i # 0
  /\ pc = "end_create" => i \in DOMAIN archive /\ broken
  /\ pc = "rows" => /\ i # 0 /\ j # 0
                    /\ i \in DOMAIN archive /\ archive[i].type = "table" =>
                         j <= Len(archive[i].rows) + 1
  /\ pc = "end_row" => HasRow
  /\ pc = "end" => i = Len(archive) + 1

(* The transaction of an import, as long as no object's SQL failed; after that
   there is none, unless an END was refused. *)
TransactionInv ==
  /\ pc \in {"defer", "create", "rows", "end"} /\ ~broken => tx # "none"
  /\ pc = "create" /\ ~broken /\ i > 1 => tx = "reserved"
  /\ pc \in {"rows", "end_row", "end"} /\ ~broken /\ archive # <<>> => tx \in {"none", "reserved"}
  /\ pc \in Filling \ {"end_create"} /\ broken /\ ~refused => tx = "none"

(* The names of the objects of a before the one at n; and no trigger on one of
   them is a stranger. *)
Made(a, n) == {a[k].name : k \in {k \in DOMAIN a : k < n}}

TriggersAreNew(c, names) ==
  \A g \in DOMAIN c : Kind[g] = "trigger" /\ On[g] \in names => g \in names

(* The rows of the element at k that are inserted when the loops of an import
   of a are at m and n; those of o; and what the triggers made of the others. *)
DoneOf(a, m, n, k) ==
  IF k < m THEN RowKeys(a[k])
  ELSE {a[k].rows[x] : x \in {x \in DOMAIN a[k].rows : k = m /\ a[k].type = "table" /\ x < n}}

DoneRows(a, m, n, o) == UNION {DoneOf(a, m, n, k) : k \in {k \in DOMAIN a : a[k].name = o}}

DoneFired(a, m, n, o) ==
  UNION {DoneRows(a, m, n, On[g]) : g \in {g \in Names(a) : Kind[g] = "trigger" /\ Fires[g] = o}}

(* What the objects made so far are, and what they hold while they are filled. *)
Created(c, a, n) ==
  /\ \A o \in Made(a, n) : o \in DOMAIN c /\ c[o] = {}
  /\ TriggersAreNew(c, Made(a, n))

HasDone(c, a, m, n) ==
  /\ \A o \in Names(a) : o \in DOMAIN c /\ c[o] = DoneRows(a, m, n, o) \union DoneFired(a, m, n, o)
  /\ TriggersAreNew(c, Names(a))

(* While an import goes well the connection has what it has done. *)
ProgressInv ==
  /\ pc = "create" /\ ~broken => Created(work, archive, i)
  /\ pc \in {"rows", "end_row", "end"} /\ ~broken /\ tx # "none" => HasDone(work, archive, i, j)

IsParent(t) == \E child \in Objects : <<child, t>> \in References

(* The tables left, when nothing has come in between. *)
LeftInv ==
  faults = 0 =>
    /\ pc = "shadows" => todo = Tables(work) \ Hidden
    /\ pc = "drop_tables" =>
         \A t \in Tables(work) \ Hidden :
           t \in todo \/ IsParent(t) \/ \E o \in todo \intersect DOMAIN work : t \in Shadows[o]
    /\ pc \in {"begin", "defer"} => \A t \in Tables(work) \ Hidden : IsParent(t)
    /\ pc \in Filling =>
         \A t \in Tables(work) \ (Names(archive) \union Hidden) :
           IsParent(t) \/ \E o \in Names(archive) : t \in Shadows[o]

(* What an export in a transaction has read, and still has to. *)
Locked == tx \in {"shared", "reserved"}

AllRead(c, a) == \A k \in DOMAIN a : RowKeys(a[k]) = c[a[k].name]

ExportInv ==
  /\ pc = "list_shadows" => fts5
  /\ pc = "list_shadows" /\ Locked => todo = DOMAIN work \ Hidden
  /\ pc \in {"list_shadows", "export"} /\ tx = "open" => todo = {} /\ archive = <<>>
  /\ pc = "export" /\ Locked =>
       \/ todo = {} /\ archive = <<>>
       \/ todo \union Names(archive) = Exported(work) /\ AllRead(work, archive)

ImportInv ==
  TypeOK /\ StoreInv /\ CallInv /\ TransactionInv /\ ProgressInv /\ LeftInv /\ ExportInv

-----------------------------------------------------------------------------
(* The content of a database. *)

IsGood(c) == IsContent(c) /\ IsSchema(c)

(* Only tables have shadow tables or foreign keys, and neither of the two has
   the other. *)
LEMMA ShadowsAre ==
  ASSUME NEW o \in Objects
  PROVE  /\ Shadows[o] \subseteq Objects
         /\ \A s \in Shadows[o] : Table(s) /\ Table(o)
         /\ \A child, parent : <<child, parent>> \in References =>
              /\ child \in Objects /\ parent \in Objects /\ Table(child) /\ Table(parent)
              /\ child \notin Shadows[o] /\ parent \notin Shadows[o]
  <1>1. Shadows[o] \subseteq Objects
    BY ShadowsAssumption
  <1>2. \A s \in Shadows[o] : Table(s) /\ Table(o)
    BY ShadowsAssumption DEF Table
  <1>3. ASSUME NEW child, NEW parent, <<child, parent>> \in References
        PROVE  /\ child \in Objects /\ parent \in Objects /\ Table(child) /\ Table(parent)
               /\ child \notin Shadows[o] /\ parent \notin Shadows[o]
    BY <1>3, ShadowsAssumption DEF Table
  <1>4. QED
    BY <1>1, <1>2, <1>3

(* A foreign key that is broken is one of References. *)
LEMMA OrphanedIs ==
  ASSUME NEW c
  PROVE  Orphaned(c) <=> /\ ForeignKeys
                         /\ \E child, parent : <<child, parent>> \in References
                                               /\ ~(RowsOf(c, child) \subseteq RowsOf(c, parent))
  <1>1. \A key \in References : key = <<key[1], key[2]>>
    BY ShadowsAssumption
  <1>2. ASSUME NEW key \in References, ~(RowsOf(c, key[1]) \subseteq RowsOf(c, key[2]))
        PROVE  \E child, parent : <<child, parent>> \in References
                                 /\ ~(RowsOf(c, child) \subseteq RowsOf(c, parent))
    <2>1. <<key[1], key[2]>> \in References
      BY <1>1
    <2>2. QED
      BY <1>2, <2>1
  <1>3. ASSUME NEW child, NEW parent, <<child, parent>> \in References,
               ~(RowsOf(c, child) \subseteq RowsOf(c, parent))
        PROVE  \E key \in References : ~(RowsOf(c, key[1]) \subseteq RowsOf(c, key[2]))
    <2>1. PICK key \in References : key[1] = child /\ key[2] = parent
      BY <1>3
    <2>2. QED
      BY <1>3, <2>1
  <1>4. QED
    BY <1>2, <1>3 DEF Orphaned

(* DROP keeps what is left as it was, and drops what hung on it. *)
LEMMA DropIsGood ==
  ASSUME NEW c, IsGood(c), NEW o \in Objects
  PROVE  IsGood(DropObject(c, o))
  <1> DEFINE gone == {o} \union Shadows[o]
             hung == {x \in DOMAIN c : Kind[x] \in {"index", "trigger"} /\ On[x] \in gone}
             new  == DropObject(c, o)
  <1>1. DOMAIN new = DOMAIN c \ (gone \union hung) /\ \A x \in DOMAIN new : new[x] = c[x]
    BY DEF DropObject, Without
  <1>2. IsContent(new)
    BY <1>1 DEF IsGood, IsContent
  <1>3. ASSUME NEW x \in DOMAIN new, Kind[x] \in {"index", "trigger"}
        PROVE  On[x] \in DOMAIN new
    <2>1. x \in Objects /\ On[x] \in DOMAIN c /\ On[x] \notin gone
      BY <1>1, <1>3 DEF IsGood, IsContent, IsSchema
    <2>2. Kind[On[x]] \in {"table", "view"}
      BY <1>3, <2>1, ObjectsAssumption
    <2>3. On[x] \notin hung
      BY <2>2
    <2>4. QED
      BY <1>1, <2>1, <2>3
  <1>4. IsSchema(new)
    BY <1>1, <1>3 DEF IsGood, IsSchema
  <1>5. QED
    BY <1>2, <1>4 DEF IsGood

(* A table nothing refers to may go. *)
LEMMA DropOrphansNone ==
  ASSUME NEW c, IsGood(c), ~Orphaned(c), NEW o \in Objects, ~DropRefused(c, o), ~deferred
  PROVE  ~Orphaned(DropObject(c, o))
  <1> DEFINE new == DropObject(c, o)
  <1>1. SUFFICES ASSUME ForeignKeys, NEW child, NEW parent, <<child, parent>> \in References
                 PROVE  RowsOf(new, child) \subseteq RowsOf(new, parent)
    BY OrphanedIs
  <1>2. RowsOf(c, child) \subseteq RowsOf(c, parent)
    BY <1>1, OrphanedIs
  <1>3. /\ child \in Objects /\ parent \in Objects /\ Table(child) /\ Table(parent)
        /\ child \notin Shadows[o] /\ parent \notin Shadows[o]
    BY <1>1, ShadowsAre
  <1>4. \A x \in {child, parent} : RowsOf(new, x) = IF x = o THEN {} ELSE RowsOf(c, x)
    BY <1>3 DEF DropObject, Without, RowsOf, Table
  <1>5. CASE child = o
    BY <1>4, <1>5
  <1>6. CASE child # o /\ parent = o
    <2>1. RowsOf(c, child) = {}
      BY <1>1, <1>3, <1>6 DEF DropRefused, Tables, RowsOf
    <2>2. QED
      BY <1>4, <1>6, <2>1
  <1>7. CASE child # o /\ parent # o
    BY <1>2, <1>4, <1>7
  <1>8. QED
    BY <1>5, <1>6, <1>7

(* CREATE adds objects without rows. *)
LEMMA CreateIsGood ==
  ASSUME NEW c, IsGood(c), NEW e \in Elements, ~CreateFails(c, e)
  PROVE  /\ IsGood(CreateObject(c, e.name))
         /\ Orphaned(CreateObject(c, e.name)) <=> Orphaned(c)
         /\ DOMAIN CreateObject(c, e.name) = DOMAIN c \union {e.name} \union Shadows[e.name]
         /\ \A x \in DOMAIN c : CreateObject(c, e.name)[x] = c[x]
         /\ CreateObject(c, e.name)[e.name] = {}
         /\ e.name \notin DOMAIN c
  <1> DEFINE o   == e.name
             new == CreateObject(c, o)
  <1>1. o \in Objects
    BY DEF Elements
  <1>2. /\ DOMAIN new = DOMAIN c \union {o} \union Shadows[o]
        /\ \A x \in DOMAIN new : new[x] = RowsOf(c, x)
    BY DEF CreateObject
  <1>3. ({o} \union Shadows[o]) \intersect DOMAIN c = {}
    BY DEF CreateFails
  <1>4. \A x \in DOMAIN new : new[x] = IF x \in DOMAIN c THEN c[x] ELSE {}
    BY <1>2 DEF RowsOf
  <1>5. IsContent(new)
    BY <1>1, <1>2, <1>4, ShadowsAre, FS_EmptySet DEF IsGood, IsContent
  <1>6. ASSUME NEW x \in DOMAIN new, Kind[x] \in {"index", "trigger"}
        PROVE  On[x] \in DOMAIN new
    <2>1. CASE x \in DOMAIN c
      BY <1>2, <1>6, <2>1 DEF IsGood, IsSchema
    <2>2. CASE x = o
      BY <1>2, <1>6, <2>2 DEF CreateFails
    <2>3. CASE x \in Shadows[o]
      BY <1>1, <1>6, <2>3, ShadowsAre DEF Table
    <2>4. QED
      BY <1>2, <2>1, <2>2, <2>3
  <1>7. IsSchema(new)
    BY <1>4, <1>6 DEF IsGood, IsSchema
  <1>8. \A x : RowsOf(new, x) = RowsOf(c, x)
    BY <1>2, <1>4 DEF RowsOf
  <1>9. Orphaned(new) <=> Orphaned(c)
    BY <1>8 DEF Orphaned
  <1>10. QED
    BY <1>2, <1>3, <1>4, <1>5, <1>7, <1>9 DEF IsGood

(* INSERT adds the row to the tables it fills. *)
LEMMA InsertIsGood ==
  ASSUME NEW c, IsGood(c), NEW t \in Objects, NEW r \in Keys, ~InsertFails(c, t)
  PROVE  /\ IsGood(InsertRow(c, t, r))
         /\ DOMAIN InsertRow(c, t, r) = DOMAIN c
         /\ \A o \in DOMAIN c : InsertRow(c, t, r)[o]
                                  = IF o \in Filled(c, t) THEN c[o] \union {r} ELSE c[o]
  <1> DEFINE new == InsertRow(c, t, r)
  <1>1. /\ DOMAIN new = DOMAIN c
        /\ \A o \in DOMAIN c : new[o] = IF o \in Filled(c, t) THEN c[o] \union {r} ELSE c[o]
    BY DEF InsertRow
  <1>2. \A o \in DOMAIN c : new[o] \subseteq Keys /\ IsFiniteSet(new[o])
    BY <1>1, FS_AddElement DEF IsGood, IsContent
  <1>3. \A o \in DOMAIN c : o \in Filled(c, t) => Table(o)
    BY DEF InsertFails, Tables
  <1>4. QED
    BY <1>1, <1>2, <1>3 DEF IsGood, IsContent, IsSchema

(* ... and is refused where it would be an orphan. *)
LEMMA InsertOrphansNone ==
  ASSUME NEW c, IsGood(c), ~Orphaned(c), NEW t \in Objects, NEW r \in Keys,
         ~InsertFails(c, t), ~InsertRefused(c, t, r), ~deferred
  PROVE  ~Orphaned(InsertRow(c, t, r))
  <1> DEFINE new == InsertRow(c, t, r)
  <1>1. SUFFICES ASSUME ForeignKeys, NEW child, NEW parent, <<child, parent>> \in References
                 PROVE  RowsOf(new, child) \subseteq RowsOf(new, parent)
    BY OrphanedIs
  <1>2. RowsOf(c, child) \subseteq RowsOf(c, parent) /\ parent \in Objects
    BY <1>1, OrphanedIs, ShadowsAssumption
  <1>3. /\ DOMAIN new = DOMAIN c
        /\ \A o \in DOMAIN c : new[o] = IF o \in Filled(c, t) THEN c[o] \union {r} ELSE c[o]
    BY InsertIsGood
  <1>4. RowsOf(c, parent) \subseteq RowsOf(new, parent)
    BY <1>3 DEF RowsOf
  <1>5. CASE child \in DOMAIN c /\ child \in Filled(c, t)
    <2>1. RowsOf(new, child) = RowsOf(c, child) \union {r}
      BY <1>3, <1>5 DEF RowsOf
    <2>2. parent \in DOMAIN c
      BY <1>1, <1>2, <1>5 DEF InsertFails
    <2>3. r \in RowsOf(new, parent)
      BY <1>1, <1>3, <1>5, <2>2 DEF InsertRefused, RowsOf
    <2>4. QED
      BY <1>2, <1>4, <2>1, <2>3
  <1>6. CASE ~(child \in DOMAIN c /\ child \in Filled(c, t))
    <2>1. RowsOf(new, child) = RowsOf(c, child)
      BY <1>3, <1>6 DEF RowsOf
    <2>2. QED
      BY <1>2, <1>4, <2>1
  <1>7. QED
    BY <1>5, <1>6

(* A set that is finite has a sequence of its elements. *)
LEMMA SequenceOfSet ==
  ASSUME NEW S, IsFiniteSet(S)
  PROVE  SetToSeq(S) \in Seq(S) /\ {SetToSeq(S)[n] : n \in DOMAIN SetToSeq(S)} = S
  <1> DEFINE m == Cardinality(S)
             s == SetToSeq(S)
  <1>1. m \in Nat /\ ExistsBijection(1 .. m, S)
    BY FS_CardinalityType
  <1>2. \E f \in [1 .. m -> S] : IsInjective(f)
    BY <1>1 DEF ExistsBijection, Bijection, Injection, IsInjective
  <1>3. s \in [1 .. m -> S] /\ IsInjective(s)
    BY <1>2 DEF SetToSeq
  <1>4. s \in Injection(1 .. m, S)
    BY <1>3 DEF Injection
  <1>5. IsFiniteSet(1 .. m) /\ Cardinality(1 .. m) = m
    BY <1>1, FS_Interval
  <1>6. s \in Surjection(1 .. m, S)
    BY <1>4, <1>5, FS_Injection
  <1>7. \A x \in S : \E n \in 1 .. m : s[n] = x
    BY <1>6 DEF Surjection
  <1>8. QED
    BY <1>1, <1>3, <1>7

-----------------------------------------------------------------------------
(* What a query() comes to. *)

Between == faults' = faults + 1 /\ faults < MaxFaults

Failed ==
  /\ error_message' \in {"error", "constraint", "busy"}
  /\ UNCHANGED <<file, work, deferred>>
  /\ tx' \in {tx, WriteLock}

RolledBack ==
  /\ error_message' = "ioerr"
  /\ UNCHANGED file /\ work' = file
  /\ tx' = "none" /\ deferred' = FALSE

Done(new) == Write(new) /\ NoFault

(* A statement fails by itself, something comes in between, or it is done. *)
LEMMA StatementIs ==
  ASSUME NEW fails \in BOOLEAN, NEW refuses \in BOOLEAN, NEW new, Statement(fails, refuses, new)
  PROVE  \/ (fails \/ refuses) /\ Failed /\ faults' = faults
         \/ (Failed \/ RolledBack) /\ Between
         \/ ~fails /\ ~refuses /\ Done(new)
  BY DEF Statement, Fail, NoFault, Fault, WriteFaults, RollbackAll, Failed, RolledBack, Done,
         Between, Code

(* What may happen to the store, of all that this connection and another do. *)
StoreStep ==
  \/ /\ UNCHANGED <<file, work>> /\ tx' \in Transactions
     /\ tx' # "reserved" => tx # "reserved"
     /\ deferred' => tx' # "none"
     /\ tx' # "none" => db'
  \/ file' = file /\ work' = file /\ tx' = "none" /\ ~deferred'
  \/ IsGood(work') /\ ~Orphaned(work') /\ file' = work' /\ tx' = "none" /\ ~deferred'
  \/ file' = file /\ IsGood(work') /\ tx' = "reserved" /\ db'
  \/ /\ IsGood(work') /\ ~Orphaned(work') /\ file' = work'
     /\ tx \in {"none", "open"} /\ UNCHANGED <<tx, deferred>> /\ db' = db

(* Each preserves the invariant. *)
LEMMA StoreStepPreserves == StoreInv /\ StoreStep => StoreInv'
  BY DEF StoreInv, StoreStep, IsGood, Transactions

(* A statement that makes something good of the content, and no orphan outside
   of a transaction, is such a step. *)
LEMMA StatementSteps ==
  ASSUME StoreInv, db' = db, NEW new,
         \/ Failed \/ RolledBack
         \/ IsGood(new) /\ (tx = "none" => ~Orphaned(new)) /\ Done(new)
  PROVE  StoreStep
  <1>1. CASE Failed
    BY <1>1 DEF Failed, WriteLock, StoreStep, StoreInv, Transactions
  <1>2. CASE RolledBack
    BY <1>2 DEF RolledBack, StoreStep
  <1>3. CASE IsGood(new) /\ (tx = "none" => ~Orphaned(new)) /\ Done(new)
    BY <1>3 DEF Done, Write, WriteLock, StoreStep, StoreInv, Transactions
  <1>4. QED
    BY <1>1, <1>2, <1>3

(* A SELECT takes a lock at most, or rolls back. *)
LEMMA SelectSteps ==
  ASSUME StoreInv, db' = db,
         Read \/ ReadFails \/ ReadCutOff \/ \E lock \in {tx, ReadLock} : Fail("error", lock)
  PROVE  StoreStep
  <1>1. CASE Read \/ ReadFails \/ \E lock \in {tx, ReadLock} : Fail("error", lock)
    BY <1>1 DEF Read, ReadFails, ReadLock, Fail, StoreStep, StoreInv, Transactions
  <1>2. CASE ReadCutOff
    BY <1>2 DEF ReadCutOff, RollbackAll, StoreStep
  <1>3. QED
    BY <1>1, <1>2

(* END commits, rolls back, or does nothing. *)
LEMMA EndSteps ==
  ASSUME StoreInv, db' = db, NEW code, END_TRANSACTION(code)
  PROVE  StoreStep
  <1>1. CASE UNCHANGED <<file, work, tx, deferred>>
    BY <1>1 DEF StoreStep, StoreInv, Transactions
  <1>2. CASE ~Orphaned(work) /\ Commit
    BY <1>2 DEF Commit, StoreStep, StoreInv, IsGood
  <1>3. CASE work' = file /\ tx' = "none" /\ deferred' = FALSE /\ UNCHANGED file
    BY <1>3 DEF StoreStep
  <1>4. QED
    BY <1>1, <1>2, <1>3 DEF END_TRANSACTION, EndRefused, store

(* An element of a list of elements. *)
LEMMA ElementIs ==
  ASSUME NEW a \in Seq(Elements), NEW k \in DOMAIN a
  PROVE  /\ a[k] \in Elements /\ a[k].name \in Objects /\ k \in 1 .. Len(a)
         /\ a[k].rows \in Seq(Keys \union {NotDictionary, Unbindable})
  <1>1. a[k] \in Elements /\ k \in 1 .. Len(a)
    OBVIOUS
  <1>2. \A e \in Elements :
          e.name \in Objects /\ e.rows \in Seq(Keys \union {NotDictionary, Unbindable})
    BY DEF Elements
  <1>3. QED
    BY <1>1, <1>2

-----------------------------------------------------------------------------
(* Every step, of the caller, an import, an export or another connection, is a
   step of the store. *)

(* A call begins, and the caller's own BEGIN and END. *)
LEMMA CallsStep ==
  ASSUME TypeOK, StoreInv, CallInv, Calls
  PROVE  StoreStep
  <1>1. CASE open_db \/ import_refused \/ import_from_buffer \/ export_to_buffer
    <2>1. UNCHANGED <<file, work, tx, deferred>> /\ (db => db')
      BY <1>1 DEF open_db, import_refused, import_from_buffer, export_to_buffer, store, TypeOK
    <2>2. QED
      BY <2>1 DEF StoreStep, StoreInv, Transactions
  <1>2. CASE CallerBegins
    <2>1. UNCHANGED <<file, work, deferred, db>> /\ db /\ tx = "none" /\ tx' = "open"
      BY <1>2 DEF CallerBegins, BEGIN_TRANSACTION, Fail
    <2>2. QED
      BY <2>1 DEF StoreStep, StoreInv, Transactions
  <1>3. CASE CallerEnds
    <2>1. \/ ~Orphaned(work) /\ Commit
          \/ work' = file /\ tx' = "none" /\ deferred' = FALSE /\ UNCHANGED file
      BY <1>3 DEF CallerEnds, RollbackAll
    <2>2. QED
      BY <2>1 DEF Commit, StoreStep, StoreInv, IsGood
  <1>4. QED
    BY <1>1, <1>2, <1>3 DEF Calls

(* Another connection commits. *)
LEMMA OthersStep ==
  ASSUME StoreInv, OthersCommit
  PROVE  StoreStep
  <1>1. /\ file' \in Contents /\ ~Orphaned(file') /\ work' = file'
        /\ tx \in {"none", "open"} /\ UNCHANGED <<tx, deferred, db>>
    BY DEF OthersCommit, Possible
  <1>2. IsGood(work')
    BY <1>1, ContentsAssumption DEF IsGood
  <1>3. QED
    BY <1>1, <1>2 DEF StoreStep

(* What a DROP leaves is no orphan, outside of a transaction. *)
LEMMA DropsStep ==
  ASSUME TypeOK, StoreInv, CallInv, DropView \/ DropTable
  PROVE  StoreStep
  <1>1. db' = db /\ todo \subseteq Objects /\ IsGood(work)
    BY DEF DropView, DropTable, Locals, TypeOK, StoreInv, IsGood
  <1>2. tx = "none" => ~Orphaned(work) /\ ~deferred
    BY DEF StoreInv
  <1>3. ASSUME NEW o \in Objects
        PROVE  /\ IsGood(DropObject(work, o))
               /\ tx = "none" /\ ~DropRefused(work, o) => ~Orphaned(DropObject(work, o))
    BY <1>1, <1>2, DropIsGood, DropOrphansNone
  <1>4. PICK o \in Objects : \/ Failed \/ RolledBack
                             \/ ~DropRefused(work, o) /\ Done(DropObject(work, o))
    <2>1. CASE DropView
      <3>1. PICK v \in todo :
              Statement(v \in Awkward \/ v \notin DOMAIN work, FALSE, DropObject(work, v))
        BY <2>1 DEF DropView
      <3>2. ~DropRefused(work, v)
        <4>1. Kind[v] = "view"
          BY <2>1, <3>1 DEF DropView, CallInv
        <4>2. \A child : <<child, v>> \notin References
          BY <4>1, ShadowsAssumption
        <4>3. QED
          BY <4>2 DEF DropRefused
      <3>3. Failed \/ RolledBack \/ Done(DropObject(work, v))
        BY <3>1, StatementIs
      <3>4. QED
        BY <1>1, <3>2, <3>3
    <2>2. CASE DropTable
      <3>1. PICK t \in todo :
              Statement(t \notin DOMAIN work, DropRefused(work, t), DropObject(work, t))
        BY <2>2 DEF DropTable
      <3>2. DropRefused(work, t) \in BOOLEAN
        BY DEF DropRefused
      <3>3. \/ Failed \/ RolledBack
            \/ ~DropRefused(work, t) /\ Done(DropObject(work, t))
        BY <3>1, <3>2, StatementIs
      <3>4. QED
        BY <1>1, <3>3
    <2>3. QED
      BY <2>1, <2>2
  <1>5. PICK new : new = DropObject(work, o)
    OBVIOUS
  <1>6. QED
    BY <1>1, <1>3, <1>4, <1>5, StatementSteps

(* A CREATE, a row, and an END. *)
LEMMA FillsStep ==
  ASSUME TypeOK, StoreInv, CallInv,
         CreateObjects \/ insert_row \/ EndAfterCreate \/ EndAfterRow \/ EndImport
  PROVE  StoreStep
  <1>1. db' = db /\ IsGood(work)
    BY DEF CreateObjects, insert_row, EndAfterCreate, EndAfterRow, EndImport, Imported, Return,
           StoreInv, IsGood
  <1>2. tx = "none" => ~Orphaned(work) /\ ~deferred
    BY DEF StoreInv
  <1>3. CASE CreateObjects
    <2> DEFINE e == archive[i]
    <2>1. e \in Elements
      BY <1>3 DEF CreateObjects, TypeOK
    <2>2. CreateFails(work, e) \in BOOLEAN
          /\ Statement(CreateFails(work, e), FALSE, CreateObject(work, e.name))
      BY <1>3 DEF CreateObjects, CreateFails
    <2>3. \/ Failed \/ RolledBack
          \/ ~CreateFails(work, e) /\ Done(CreateObject(work, e.name))
      BY <2>2, StatementIs
    <2>4. ~CreateFails(work, e) => /\ IsGood(CreateObject(work, e.name))
                                   /\ tx = "none" => ~Orphaned(CreateObject(work, e.name))
      BY <1>1, <1>2, <2>1, CreateIsGood
    <2>5. PICK new : new = CreateObject(work, e.name)
      OBVIOUS
    <2>6. QED
      BY <1>1, <2>3, <2>4, <2>5, StatementSteps
  <1>4. CASE insert_row
    <2> DEFINE t == archive[i].name
    <2>1. t \in Objects /\ Row \in Keys
      <3>1. archive \in Seq(Elements) /\ i \in DOMAIN archive /\ Row \in Keys
        BY <1>4 DEF insert_row, HasRow, TypeOK
      <3>2. QED
        BY <3>1, ElementIs
    <2>2. /\ InsertFails(work, t) \in BOOLEAN /\ InsertRefused(work, t, Row) \in BOOLEAN
          /\ Statement(InsertFails(work, t), InsertRefused(work, t, Row), InsertRow(work, t, Row))
      BY <1>4 DEF insert_row, InsertFails, InsertRefused
    <2>3. \/ Failed \/ RolledBack
          \/ /\ ~InsertFails(work, t) /\ ~InsertRefused(work, t, Row)
             /\ Done(InsertRow(work, t, Row))
      BY <2>2, StatementIs
    <2>4. ~InsertFails(work, t) /\ ~InsertRefused(work, t, Row) =>
            /\ IsGood(InsertRow(work, t, Row))
            /\ tx = "none" => ~Orphaned(InsertRow(work, t, Row))
      BY <1>1, <1>2, <2>1, InsertIsGood, InsertOrphansNone
    <2>5. PICK new : new = InsertRow(work, t, Row)
      OBVIOUS
    <2>6. QED
      BY <1>1, <2>3, <2>4, <2>5, StatementSteps
  <1>5. CASE EndAfterCreate \/ EndAfterRow \/ EndImport
    <2>1. PICK code : END_TRANSACTION(code)
      BY <1>5 DEF EndAfterCreate, EndAfterRow, EndImport
    <2>2. QED
      BY <1>1, <2>1, EndSteps
  <1>6. QED
    BY <1>3, <1>4, <1>5

(* The rest of an import, and an export, take a lock at most, or roll back. *)
LEMMA OthersOfImportStep ==
  ASSUME TypeOK, StoreInv, CallInv, TransactionInv,
         \/ FindViews \/ FindTables \/ RemoveShadowTables \/ LoopIsOver \/ Begin
         \/ DeferForeignKeys \/ ObjectsAreCreated \/ NextObject \/ RowIsNoDictionary
         \/ RowIsUnbindable \/ RowsAreInserted \/ Export
  PROVE  StoreStep
  <1>1. CASE FindViews \/ FindTables \/ RemoveShadowTables \/ ListObjects \/ ListShadows
             \/ ExportTable
    <2>1. db' = db /\ (Read \/ ReadFails \/ ReadCutOff \/ \E lock \in {tx, ReadLock} : Fail("error", lock))
      BY <1>1 DEF FindViews, FindTables, RemoveShadowTables, ListObjects, ListShadows, Find,
                  remove_shadow_tables, ExportTable, Locals
    <2>2. QED
      BY <2>1, SelectSteps
  <1>2. CASE Begin
    <2>1. db' = db /\ db /\ UNCHANGED <<file, work, deferred>>
          /\ ((tx = "none" /\ tx' = "open") \/ tx' = tx)
      BY <1>2 DEF Begin, BEGIN_TRANSACTION, Fail, CallInv, Importing, Labels
    <2>2. QED
      BY <2>1 DEF StoreStep, StoreInv, Transactions
  <1>3. CASE DeferForeignKeys
    <2>1. db' = db /\ UNCHANGED <<file, work, tx>> /\ tx # "none"
      BY <1>3 DEF DeferForeignKeys, TransactionInv, CallInv, Filling
    <2>2. QED
      BY <2>1 DEF StoreStep, StoreInv, Transactions
  <1>4. CASE LoopIsOver \/ ObjectsAreCreated \/ NextObject \/ RowIsNoDictionary
             \/ RowIsUnbindable \/ RowsAreInserted \/ ExportOther \/ ExportReturns
    <2>1. db' = db /\ UNCHANGED <<file, work, tx, deferred>>
      BY <1>4 DEF LoopIsOver, ObjectsAreCreated, NextObject, RowIsNoDictionary, RowIsUnbindable,
                  RowsAreInserted, ExportOther, ExportReturns, Imported, Return, store, Locals,
                  Fail
    <2>2. QED
      BY <2>1 DEF StoreStep, StoreInv, Transactions
  <1>5. QED
    BY <1>1, <1>2, <1>3, <1>4 DEF Export

(* The store is sound in every state. *)
LEMMA StorePreserved ==
  TypeOK /\ StoreInv /\ CallInv /\ TransactionInv /\ [Next]_vars => StoreInv'
  <1> SUFFICES ASSUME TypeOK, StoreInv, CallInv, TransactionInv, [Next]_vars
               PROVE  StoreInv'
    OBVIOUS
  <1>1. CASE Next
    <2>1. StoreStep
      BY <1>1, CallsStep, OthersStep, DropsStep, FillsStep, OthersOfImportStep DEF Next, Import
    <2>2. QED
      BY <2>1, StoreStepPreserves
  <1>2. CASE UNCHANGED vars
    BY <1>2 DEF vars, store, StoreInv
  <1>3. QED
    BY <1>1, <1>2

-----------------------------------------------------------------------------
(* The types, and where a call is. *)

(* What every step keeps, whatever it does to the lists. *)
PlainTypes ==
  /\ fts5 \in BOOLEAN /\ deferred \in BOOLEAN /\ db \in BOOLEAN
  /\ pc \in Labels
  /\ error_message \in Codes
  /\ returned \in {"none", "true", "false"}
  /\ own \in BOOLEAN /\ broken \in BOOLEAN /\ refused \in BOOLEAN
  /\ faults \in 0 .. MaxFaults

ListTypes ==
  /\ todo \subseteq Objects
  /\ archive \in Seq(Elements) /\ exported \in Seq(Elements)
  /\ i \in 0 .. Len(archive) + 1 /\ j \in Nat

(* The two are TypeOK, but for the store. *)
LEMMA TypesAre == StoreInv => (TypeOK <=> PlainTypes /\ ListTypes)
  BY DEF StoreInv, TypeOK, PlainTypes, ListTypes

(* What a query() leaves in the variables it writes. *)
QueryTypes ==
  error_message' \in Codes /\ deferred' \in BOOLEAN /\ faults' \in 0 .. MaxFaults

(* Every query() leaves a result code, and counts what came in between. *)
LEMMA QueriesAreTyped ==
  ASSUME PlainTypes
  PROVE  /\ \A fails \in BOOLEAN, refuses \in BOOLEAN : \A new :
              Statement(fails, refuses, new) => QueryTypes
         /\ Read \/ ReadFails \/ ReadCutOff => QueryTypes
         /\ BEGIN_TRANSACTION => QueryTypes
         /\ \A code : END_TRANSACTION(code) =>
              deferred' \in BOOLEAN /\ faults' \in 0 .. MaxFaults
  <1> USE DEF Code, Fail, NoFault, Fault
  <1>1. (faults' = faults \/ Between) => faults' \in 0 .. MaxFaults
    <2>1. MaxFaults \in Nat /\ faults \in 0 .. MaxFaults
      BY FaultsAssumption DEF PlainTypes
    <2>2. QED
      BY <2>1 DEF Between
  <1>2. ASSUME NEW fails \in BOOLEAN, NEW refuses \in BOOLEAN, NEW new,
               Statement(fails, refuses, new)
        PROVE  QueryTypes
    <2>1. \/ Failed /\ faults' = faults
          \/ (Failed \/ RolledBack) /\ Between
          \/ Done(new)
      BY <1>2, StatementIs
    <2>2. faults' = faults \/ Between
      BY <2>1 DEF Done
    <2>3. error_message' \in Codes
      BY <2>1 DEF Failed, RolledBack, Done, Write, Codes
    <2>4. deferred' = deferred \/ deferred' = FALSE
      BY <2>1 DEF Failed, RolledBack, Done, Write
    <2>5. QED
      BY <1>1, <2>2, <2>3, <2>4 DEF QueryTypes, PlainTypes
  <1>3. ASSUME Read \/ ReadFails \/ ReadCutOff
        PROVE  QueryTypes
    <2>1. (faults' = faults \/ Between) /\ (deferred' = deferred \/ deferred' = FALSE)
      BY <1>3 DEF Read, ReadFails, ReadCutOff, RollbackAll, Between
    <2>2. error_message' \in Codes
      BY <1>3 DEF Read, ReadFails, ReadCutOff, RollbackAll, Codes
    <2>3. QED
      BY <1>1, <2>1, <2>2 DEF QueryTypes, PlainTypes
  <1>4. ASSUME BEGIN_TRANSACTION
        PROVE  QueryTypes
    BY <1>1, <1>4 DEF BEGIN_TRANSACTION, QueryTypes, PlainTypes, Codes
  <1>5. ASSUME NEW code, END_TRANSACTION(code)
        PROVE  deferred' \in BOOLEAN /\ faults' \in 0 .. MaxFaults
    <2>1. (faults' = faults \/ Between) /\ (deferred' = deferred \/ deferred' = FALSE)
      BY <1>5 DEF END_TRANSACTION, EndRefused, Commit, store, Between
    <2>2. QED
      BY <1>1, <2>1 DEF PlainTypes
  <1>6. QED
    BY <1>2, <1>3, <1>4, <1>5

(* The plain types are preserved. *)
LEMMA PlainTypesPreserved == PlainTypes /\ [Next]_vars => PlainTypes'
  <1> SUFFICES ASSUME PlainTypes, [Next]_vars PROVE PlainTypes'
    OBVIOUS
  <1> USE DEF Goto, Code
  <1>1. CASE Calls \/ OthersCommit
    <2>1. CASE open_db \/ import_refused \/ import_from_buffer \/ export_to_buffer
      BY <2>1 DEF open_db, import_refused, import_from_buffer, export_to_buffer, store, history,
                  PlainTypes, Labels
    <2>2. CASE CallerBegins
      BY <2>2, QueriesAreTyped DEF CallerBegins, history, PlainTypes, QueryTypes
    <2>3. CASE CallerEnds
      BY <2>3 DEF CallerEnds, Commit, RollbackAll, NoFault, history, PlainTypes, Codes
    <2>4. CASE OthersCommit
      <3>1. faults' \in 0 .. MaxFaults
        BY <2>4, FaultsAssumption DEF OthersCommit, Fault, PlainTypes
      <3>2. QED
        BY <2>4, <3>1 DEF OthersCommit, history, PlainTypes
    <2>5. QED
      BY <1>1, <2>1, <2>2, <2>3, <2>4 DEF Calls
  <1>2. CASE FindViews \/ FindTables \/ RemoveShadowTables \/ ListObjects \/ ListShadows
    <2>1. QueryTypes /\ pc' \in Labels
      BY <1>2, QueriesAreTyped DEF FindViews, FindTables, RemoveShadowTables, ListObjects,
                 ListShadows, Find, remove_shadow_tables, PlainTypes, Labels
    <2>2. UNCHANGED Locals
      BY <1>2 DEF FindViews, FindTables, RemoveShadowTables, ListObjects, ListShadows,
                  remove_shadow_tables
    <2>3. QED
      BY <2>1, <2>2 DEF Locals, history, PlainTypes, QueryTypes
  <1>3. CASE DropView \/ DropTable
    <2>1. QueryTypes
      <3>1. CASE DropView
        BY <3>1, QueriesAreTyped DEF DropView
      <3>2. CASE DropTable
        <4>1. \A t : DropRefused(work, t) \in BOOLEAN
          BY DEF DropRefused
        <4>2. QED
          BY <3>2, <4>1, QueriesAreTyped DEF DropTable
      <3>3. QED
        BY <1>3, <3>1, <3>2
    <2>2. UNCHANGED <<pc, Locals>>
      BY <1>3 DEF DropView, DropTable
    <2>3. QED
      BY <2>1, <2>2 DEF Locals, history, PlainTypes, QueryTypes
  <1>4. CASE LoopIsOver \/ Begin \/ DeferForeignKeys
    <2>1. CASE LoopIsOver
      BY <2>1 DEF LoopIsOver, Locals, store, history, PlainTypes, Labels
    <2>2. CASE Begin
      BY <2>2, QueriesAreTyped DEF Begin, PlainTypes, QueryTypes, Labels
    <2>3. CASE DeferForeignKeys
      BY <2>3 DEF DeferForeignKeys, history, PlainTypes, Labels, Codes
    <2>4. QED
      BY <1>4, <2>1, <2>2, <2>3
  <1>5. CASE CreateObjects
    <2>1. CreateFails(work, archive[i]) \in BOOLEAN
      BY DEF CreateFails
    <2>2. QueryTypes
      BY <1>5, <2>1, QueriesAreTyped DEF CreateObjects
    <2>3. pc' \in Labels /\ broken' \in BOOLEAN
      BY <1>5 DEF CreateObjects, PlainTypes, Labels
    <2>4. QED
      BY <1>5, <2>2, <2>3 DEF CreateObjects, Imported, PlainTypes, QueryTypes
  <1>6. CASE insert_row
    <2>1. /\ InsertFails(work, archive[i].name) \in BOOLEAN
          /\ InsertRefused(work, archive[i].name, Row) \in BOOLEAN
      BY DEF InsertFails, InsertRefused
    <2>2. QueryTypes
      BY <1>6, <2>1, QueriesAreTyped DEF insert_row
    <2>3. pc' \in Labels
      BY <1>6 DEF insert_row, Labels
    <2>4. QED
      BY <1>6, <2>2, <2>3 DEF insert_row, Imported, history, PlainTypes, QueryTypes
  <1>7. CASE EndAfterCreate \/ EndAfterRow \/ EndImport
    <2>1. deferred' \in BOOLEAN /\ faults' \in 0 .. MaxFaults
      BY <1>7, QueriesAreTyped DEF EndAfterCreate, EndAfterRow, EndImport
    <2>2. CASE EndAfterCreate
      <3>1. refused' \in BOOLEAN
        BY <2>2 DEF EndAfterCreate, EndRefused, PlainTypes
      <3>2. QED
        BY <2>1, <2>2, <3>1 DEF EndAfterCreate, Imported, PlainTypes, Labels
    <2>3. CASE EndAfterRow \/ EndImport
      BY <2>1, <2>3 DEF EndAfterRow, EndImport, Return, PlainTypes, Labels, Codes
    <2>4. QED
      BY <1>7, <2>2, <2>3
  <1>8. CASE ObjectsAreCreated \/ NextObject \/ RowIsNoDictionary \/ RowsAreInserted
    BY <1>8 DEF ObjectsAreCreated, NextObject, RowIsNoDictionary, RowsAreInserted, Imported,
                Return, store, history, PlainTypes, Labels
  <1>9. CASE RowIsUnbindable
    BY <1>9 DEF RowIsUnbindable, Fail, NoFault, Imported, history, PlainTypes, Labels, Codes
  <1>10. CASE ExportTable
    <2>1. \/ Read \/ ReadFails \/ ReadCutOff
          \/ Fail("error", tx) /\ NoFault
      BY <1>10 DEF ExportTable
    <2>2. QueryTypes
      BY <2>1, QueriesAreTyped DEF Fail, NoFault, QueryTypes, PlainTypes, Codes
    <2>3. QED
      BY <1>10, <2>2 DEF ExportTable, history, PlainTypes, QueryTypes
  <1>11. CASE ExportOther \/ ExportReturns
    BY <1>11 DEF ExportOther, ExportReturns, store, history, PlainTypes, Labels
  <1>12. CASE UNCHANGED vars
    BY <1>12 DEF vars, store, history, PlainTypes
  <1>13. QED
    BY <1>1, <1>2, <1>3, <1>4, <1>5, <1>6, <1>7, <1>8, <1>9, <1>10, <1>11, <1>12
       DEF Next, Import, Export

(* A name that is dropped from the list, and an element that is added. *)
LEMMA AppendedElement ==
  ASSUME NEW a \in Seq(Elements), NEW o \in Objects,
         NEW rows \in Seq(Keys \union {NotDictionary, Unbindable})
  PROVE  /\ AsElement(o, rows) \in Elements
         /\ Append(a, AsElement(o, rows)) \in Seq(Elements)
         /\ Len(Append(a, AsElement(o, rows))) = Len(a) + 1
  <1>1. AsElement(o, rows) \in Elements
    BY ObjectsAssumption DEF AsElement, Elements
  <1>2. QED
    BY <1>1

(* Rows of a table are a sequence of keys. *)
LEMMA ExportedRows ==
  ASSUME NEW c, IsContent(c), NEW t \in DOMAIN c, NEW part \in SUBSET c[t]
  PROVE  /\ SetToSeq(part) \in Seq(Keys \union {NotDictionary, Unbindable})
         /\ {SetToSeq(part)[n] : n \in DOMAIN SetToSeq(part)} = part
  <1>1. part \subseteq Keys /\ IsFiniteSet(part)
    BY FS_Subset DEF IsContent
  <1>2. SetToSeq(part) \in Seq(part) /\ {SetToSeq(part)[n] : n \in DOMAIN SetToSeq(part)} = part
    BY <1>1, SequenceOfSet
  <1>3. \A s \in Seq(part) : s \in Seq(Keys \union {NotDictionary, Unbindable})
    BY <1>1
  <1>4. QED
    BY <1>2, <1>3

(* The lists and the counters are preserved by what begins a call. *)
LEMMA ListsAreKept ==
  ASSUME ListTypes, UNCHANGED <<archive, exported, i, j>>, todo' \subseteq Objects
  PROVE  ListTypes'
  BY DEF ListTypes

(* Every step preserves them. *)
LEMMA ListTypesPreserved ==
  PlainTypes /\ StoreInv /\ ListTypes /\ CallInv /\ [Next]_vars => ListTypes'
  <1> SUFFICES ASSUME PlainTypes, StoreInv, ListTypes, CallInv, [Next]_vars PROVE ListTypes'
    OBVIOUS
  <1>a. todo \subseteq Objects /\ DOMAIN work \subseteq Objects
    BY DEF ListTypes, StoreInv, IsContent
  <1>1. CASE \/ open_db \/ import_refused \/ CallerBegins \/ CallerEnds \/ OthersCommit
             \/ LoopIsOver \/ Begin \/ UNCHANGED vars
    BY <1>1, <1>a, ListsAreKept DEF open_db, import_refused, CallerBegins, CallerEnds,
       OthersCommit, LoopIsOver, Begin, Locals, vars
  <1>2. CASE import_from_buffer
    <2>1. archive' \in Seq(Elements) /\ exported' \in Seq(Elements)
      <3>1. archive' \in Archives \union {exported}
        BY <1>2 DEF import_from_buffer
      <3>2. QED
        BY <1>2, <3>1, ArchivesAssumption DEF import_from_buffer, ListTypes
    <2>2. i' = 0 /\ j' = 0 /\ todo' = todo
      BY <1>2 DEF import_from_buffer, CallInv, Filling
    <2>3. Len(archive') \in Nat
      BY <2>1
    <2>4. i' \in 0 .. Len(archive') + 1 /\ j' \in Nat
      BY <2>2, <2>3
    <2>5. QED
      BY <1>a, <2>1, <2>2, <2>4 DEF ListTypes
  <1>3. CASE export_to_buffer
    <2>1. UNCHANGED <<archive, i, j, todo>> /\ exported' = <<>>
      BY <1>3 DEF export_to_buffer
    <2>2. QED
      BY <2>1 DEF ListTypes
  <1>4. CASE \/ FindViews \/ FindTables \/ RemoveShadowTables \/ ListObjects \/ ListShadows
             \/ DropView \/ DropTable
    <2>1. UNCHANGED Locals
      BY <1>4 DEF FindViews, FindTables, RemoveShadowTables, ListObjects, ListShadows,
                  remove_shadow_tables, DropView, DropTable
    <2>2. todo' \subseteq Objects
      BY <1>4, <1>a DEF FindViews, FindTables, RemoveShadowTables, ListObjects, ListShadows, Find,
                  remove_shadow_tables, ListedWithFts5, DropView, DropTable, Tables
    <2>3. QED
      BY <2>1, <2>2, ListsAreKept DEF Locals
  <1>5. CASE DeferForeignKeys
    <2>1. UNCHANGED <<archive, exported, todo, j>> /\ i' = 1
      BY <1>5 DEF DeferForeignKeys
    <2>2. 1 \in 0 .. Len(archive) + 1
      BY DEF ListTypes
    <2>3. QED
      BY <2>1, <2>2 DEF ListTypes
  <1>6. CASE CreateObjects \/ EndAfterCreate \/ ObjectsAreCreated \/ NextObject
    <2>1. UNCHANGED <<archive, exported, todo>>
      BY <1>6 DEF CreateObjects, EndAfterCreate, ObjectsAreCreated, NextObject, Imported
    <2>2. i' \in {i, 1} \/ (i \in DOMAIN archive /\ i' = i + 1)
      BY <1>6 DEF CreateObjects, EndAfterCreate, ObjectsAreCreated, NextObject, Imported, CallInv
    <2>3. j' \in {j, 1}
      BY <1>6 DEF CreateObjects, EndAfterCreate, ObjectsAreCreated, NextObject, Imported
    <2>4. Len(archive) \in Nat /\ DOMAIN archive = 1 .. Len(archive)
          /\ i \in 0 .. Len(archive) + 1 /\ j \in Nat
      BY DEF ListTypes
    <2>5. i' \in 0 .. Len(archive) + 1 /\ j' \in Nat
      BY <2>2, <2>3, <2>4
    <2>6. QED
      BY <2>1, <2>5 DEF ListTypes
  <1>7. CASE RowIsUnbindable \/ insert_row \/ RowsAreInserted
    <2>1. UNCHANGED <<archive, exported, todo, i>>
      BY <1>7 DEF RowIsUnbindable, insert_row, RowsAreInserted, Imported
    <2>2. j' \in {j, j + 1}
      BY <1>7 DEF RowIsUnbindable, insert_row, RowsAreInserted, Imported
    <2>3. j \in Nat
      BY DEF ListTypes
    <2>4. j' \in Nat
      BY <2>2, <2>3
    <2>5. QED
      BY <2>1, <2>4 DEF ListTypes
  <1>8. CASE RowIsNoDictionary \/ EndAfterRow \/ EndImport
    <2>1. todo' = {} /\ archive' = <<>> /\ i' = 0 /\ j' = 0 /\ exported' = exported
      BY <1>8 DEF RowIsNoDictionary, EndAfterRow, EndImport, Return
    <2>2. QED
      BY <2>1 DEF ListTypes
  <1>9. CASE ExportTable \/ ExportOther
    <2>1. PICK o \in todo, rows \in Seq(Keys \union {NotDictionary, Unbindable}) :
            archive' = Append(archive, AsElement(o, rows)) /\ todo' = todo \ {o}
      <3>0. <<>> \in Seq(Keys \union {NotDictionary, Unbindable})
        OBVIOUS
      <3>1. CASE ExportTable
        <4>1. PICK t \in todo :
                /\ todo' = todo \ {t}
                /\ \/ /\ t \in DOMAIN work
                      /\ \E part \in SUBSET work[t] :
                           archive' = Append(archive, AsElement(t, SetToSeq(part)))
                   \/ archive' = Append(archive, AsElement(t, <<>>))
          <5>1. \A t \in DOMAIN work : work[t] \in SUBSET work[t]
            OBVIOUS
          <5>2. QED
            BY <3>1, <5>1 DEF ExportTable
        <4>3. CASE archive' = Append(archive, AsElement(t, <<>>))
          BY <3>0, <4>1, <4>3
        <4>4. ASSUME t \in DOMAIN work, NEW part \in SUBSET work[t],
                     archive' = Append(archive, AsElement(t, SetToSeq(part)))
              PROVE  \E o \in todo, rows \in Seq(Keys \union {NotDictionary, Unbindable}) :
                       archive' = Append(archive, AsElement(o, rows)) /\ todo' = todo \ {o}
          <5>1. PICK rows \in Seq(Keys \union {NotDictionary, Unbindable}) :
                  rows = SetToSeq(part)
            BY <4>4, ExportedRows DEF StoreInv
          <5>2. archive' = Append(archive, AsElement(t, rows)) /\ todo' = todo \ {t}
            BY <4>1, <4>4, <5>1
          <5>3. QED
            BY <5>2
        <4>5. QED
          BY <4>1, <4>3, <4>4
      <3>2. CASE ExportOther
        <4>1. PICK o \in todo : archive' = Append(archive, AsElement(o, <<>>)) /\ todo' = todo \ {o}
          BY <3>2 DEF ExportOther
        <4>2. QED
          BY <3>0, <4>1
      <3>3. QED
        BY <1>9, <3>1, <3>2
    <2>2. UNCHANGED <<exported, i, j>>
      BY <1>9 DEF ExportTable, ExportOther
    <2>3. o \in Objects /\ archive \in Seq(Elements) /\ i \in 0 .. Len(archive) + 1
      BY <1>a DEF ListTypes
    <2>4. archive' \in Seq(Elements) /\ Len(archive') = Len(archive) + 1
      BY <2>1, <2>3, AppendedElement
    <2>5. i \in 0 .. Len(archive') + 1
      BY <2>3, <2>4
    <2>6. QED
      BY <1>a, <2>1, <2>2, <2>4, <2>5 DEF ListTypes
  <1>10. CASE ExportReturns
    <2>1. UNCHANGED <<todo, i, j>> /\ i = 0 /\ exported' = archive /\ archive' = <<>>
      BY <1>10 DEF ExportReturns, CallInv, Filling
    <2>2. QED
      BY <2>1 DEF ListTypes
  <1>11. QED
    BY <1>1, <1>2, <1>3, <1>4, <1>5, <1>6, <1>7, <1>8, <1>9, <1>10 DEF Next, Calls, Import, Export

-----------------------------------------------------------------------------
(* Where a call is, and in which transaction. *)

(* The place of a call is preserved, with its lists and counters. *)
LEMMA CallPreserved ==
  PlainTypes /\ ListTypes /\ CallInv /\ [Next]_vars => CallInv'
  <1> SUFFICES ASSUME PlainTypes, ListTypes, CallInv, [Next]_vars PROVE CallInv'
    OBVIOUS
  <1> USE DEF Goto
  <1>1. CASE Calls \/ OthersCommit \/ UNCHANGED vars
    <2>1. CASE \/ open_db \/ CallerBegins \/ CallerEnds \/ OthersCommit \/ import_refused
               \/ UNCHANGED vars
      <3>1. UNCHANGED <<pc, todo, archive, i, j, broken, refused>> /\ (db => db')
        BY <2>1 DEF open_db, CallerBegins, CallerEnds, OthersCommit, import_refused, history, vars
      <3>2. QED
        BY <3>1 DEF CallInv, HasRow
    <2>2. CASE import_from_buffer
      BY <2>2 DEF import_from_buffer, history, CallInv, Filling, Importing, Labels
    <2>3. CASE export_to_buffer
      BY <2>3 DEF export_to_buffer, history, CallInv, Filling, Importing, Labels
    <2>4. QED
      BY <1>1, <2>1, <2>2, <2>3 DEF Calls
  <1>2. CASE \/ FindViews \/ FindTables \/ RemoveShadowTables \/ ListObjects \/ ListShadows
             \/ LoopIsOver \/ DropView \/ DropTable
    <2>1. UNCHANGED Locals
      BY <1>2 DEF FindViews, FindTables, RemoveShadowTables, ListObjects, ListShadows,
                  remove_shadow_tables, LoopIsOver, DropView, DropTable
    <2>2. \/ pc = "views" /\ pc' = "drop_views" /\ \A v \in todo' : Kind[v] = "view"
          \/ pc = "tables" /\ pc' \in {"shadows", "drop_tables"}
          \/ pc = "shadows" /\ pc' = "drop_tables"
          \/ pc = "list" /\ pc' \in {"list_shadows", "export"}
          \/ pc = "list_shadows" /\ pc' = "export"
          \/ pc = "drop_views" /\ pc' = "tables" /\ todo' = {}
          \/ pc = "drop_tables" /\ pc' = "begin" /\ todo' = {}
          \/ pc \in {"drop_views", "drop_tables"} /\ pc' = pc /\ todo' \subseteq todo
      BY <1>2 DEF FindViews, FindTables, RemoveShadowTables, ListObjects, ListShadows, Find,
                  remove_shadow_tables, LoopIsOver, DropView, DropTable
    <2>3. QED
      BY <2>1, <2>2 DEF Locals, history, CallInv, Filling, Importing, Labels
  <1>3. CASE Begin
    BY <1>3 DEF Begin, CallInv, Filling, Importing, Labels
  <1>4. CASE DeferForeignKeys
    BY <1>4 DEF DeferForeignKeys, history, CallInv, Filling, Importing, Labels
  <1>5. CASE CreateObjects \/ EndAfterCreate
    <2>1. i \in Nat
      BY DEF ListTypes
    <2>2. UNCHANGED <<db, todo, archive>>
      BY <1>5 DEF CreateObjects, EndAfterCreate, Imported
    <2>3. \/ pc' = "create" /\ i' = i + 1
          \/ pc' = "end_create" /\ i' = i /\ i \in DOMAIN archive /\ broken'
      BY <1>5 DEF CreateObjects, EndAfterCreate
    <2>4. db /\ todo = {}
      BY <1>5 DEF CreateObjects, EndAfterCreate, CallInv, Importing, Labels
    <2>5. CASE pc' = "create" /\ i' = i + 1
      BY <2>1, <2>2, <2>4, <2>5 DEF CallInv, Filling
    <2>6. CASE pc' = "end_create" /\ i' = i /\ i \in DOMAIN archive /\ broken'
      BY <2>2, <2>4, <2>6 DEF CallInv, Filling
    <2>7. QED
      BY <2>3, <2>5, <2>6
  <1>6. CASE ObjectsAreCreated \/ NextObject
    <2>1. i \in Nat /\ \A k \in DOMAIN archive : Len(archive[k].rows) \in Nat
      BY ElementIs DEF ListTypes
    <2>2. UNCHANGED <<db, todo, archive>> /\ pc' = "rows" /\ j' = 1 /\ i' \in {1, i + 1}
      BY <1>6 DEF ObjectsAreCreated, NextObject, Imported
    <2>3. db /\ todo = {}
      BY <1>6 DEF ObjectsAreCreated, NextObject, CallInv, Importing, Labels
    <2>4. i' # 0
      BY <2>1, <2>2
    <2>5. \A k \in DOMAIN archive : 1 <= Len(archive[k].rows) + 1
      BY <2>1
    <2>6. QED
      BY <2>2, <2>3, <2>4, <2>5 DEF CallInv, Filling
  <1>7. CASE insert_row \/ RowIsUnbindable
    <2>1. /\ j \in Nat /\ i \in DOMAIN archive /\ archive[i].type = "table"
          /\ j \in DOMAIN archive[i].rows /\ i # 0 /\ db /\ todo = {}
      BY <1>7 DEF insert_row, RowIsUnbindable, HasRow, CallInv, Importing, Labels, ListTypes
    <2>2. /\ UNCHANGED <<db, todo, archive, i>>
          /\ \/ pc' = "end_row" /\ j' = j
             \/ pc' = "rows" /\ j' = j + 1
      BY <1>7 DEF insert_row, RowIsUnbindable, Imported
    <2>3. j + 1 # 0 /\ j + 1 <= Len(archive[i].rows) + 1
      <3>1. archive[i].rows \in Seq(Keys \union {NotDictionary, Unbindable})
        BY <2>1, ElementIs DEF ListTypes
      <3>2. j \in 1 .. Len(archive[i].rows) /\ Len(archive[i].rows) \in Nat
        BY <2>1, <3>1
      <3>3. QED
        BY <3>2
    <2>4. CASE pc' = "end_row" /\ j' = j
      BY <2>1, <2>2, <2>4 DEF CallInv, Filling, HasRow
    <2>5. CASE pc' = "rows" /\ j' = j + 1
      BY <2>1, <2>2, <2>3, <2>5 DEF CallInv, Filling
    <2>6. QED
      BY <2>2, <2>4, <2>5
  <1>8. CASE RowIsNoDictionary \/ EndAfterRow \/ EndImport
    BY <1>8 DEF RowIsNoDictionary, EndAfterRow, EndImport, Return, CallInv, Filling, Importing
  <1>9. CASE RowsAreInserted
    <2>1. i \in 0 .. Len(archive) + 1 /\ Len(archive) \in Nat
      BY DEF ListTypes
    <2>2. i = Len(archive) + 1
      BY <1>9, <2>1 DEF RowsAreInserted
    <2>3. QED
      BY <1>9, <2>2 DEF RowsAreInserted, Imported, history, CallInv, Filling, Importing, Labels
  <1>10. CASE ExportTable \/ ExportOther \/ ExportReturns
    <2>1. UNCHANGED <<db, i, j, broken, refused>> /\ pc = "export"
      BY <1>10 DEF ExportTable, ExportOther, ExportReturns, history
    <2>2. pc' = "export" \/ (pc' = "idle" /\ todo' = {} /\ archive' = <<>>)
      BY <1>10 DEF ExportTable, ExportOther, ExportReturns
    <2>3. QED
      BY <2>1, <2>2 DEF CallInv, Filling, Importing, Labels
  <1>11. QED
    BY <1>1, <1>2, <1>3, <1>4, <1>5, <1>6, <1>7, <1>8, <1>9, <1>10 DEF Next, Import, Export

(* No object's SQL failed: what is written is in the transaction. *)
LEMMA TransactionPreserved ==
  PlainTypes /\ ListTypes /\ StoreInv /\ CallInv /\ TransactionInv /\ [Next]_vars
    => TransactionInv'
  <1> SUFFICES ASSUME PlainTypes, ListTypes, StoreInv, CallInv, TransactionInv, [Next]_vars
               PROVE  TransactionInv'
    OBVIOUS
  <1> USE DEF Goto
  <1>1. CASE pc' \notin Filling \union {"defer"}
    BY <1>1 DEF TransactionInv, Filling
  <1>2. CASE UNCHANGED vars \/ OthersCommit
    BY <1>2 DEF vars, store, history, OthersCommit, TransactionInv
  <1>3. CASE Begin
    BY <1>3 DEF Begin, BEGIN_TRANSACTION, Fail, TransactionInv, CallInv, Filling
  <1>4. CASE DeferForeignKeys
    BY <1>4 DEF DeferForeignKeys, history, TransactionInv, CallInv, Filling
  <1>5. CASE CreateObjects
    <2>1. CreateFails(work, archive[i]) \in BOOLEAN
      BY DEF CreateFails
    <2>2. (\E new : Done(new)) \/ error_message' # "ok"
      <3>1. Failed \/ RolledBack \/ Done(CreateObject(work, archive[i].name))
        BY <1>5, <2>1, StatementIs DEF CreateObjects
      <3>2. QED
        BY <3>1 DEF Failed, RolledBack
    <2>3. CASE error_message' # "ok"
      BY <1>5, <2>3 DEF CreateObjects, TransactionInv, Filling
    <2>4. CASE error_message' = "ok"
      <3>1. tx' = WriteLock /\ pc' = "create" /\ UNCHANGED <<broken, refused>>
        BY <1>5, <2>2, <2>4 DEF CreateObjects, Imported, Done, Write
      <3>2. QED
        BY <1>5, <3>1 DEF CreateObjects, WriteLock, TransactionInv, Filling
    <2>5. QED
      BY <2>3, <2>4
  <1>6. CASE EndAfterCreate
    <2>1. PICK code \in Codes :
            END_TRANSACTION(code) /\ refused' = (refused \/ EndRefused(code))
      BY <1>6 DEF EndAfterCreate
    <2>2. broken' = broken /\ pc' = "create"
      BY <1>6 DEF EndAfterCreate, Imported
    <2>3. EndRefused(code) \/ tx' = "none"
      BY <2>1 DEF END_TRANSACTION, Commit, store
    <2>4. broken
      BY <1>6 DEF EndAfterCreate, CallInv
    <2>5. QED
      BY <2>1, <2>2, <2>3, <2>4 DEF TransactionInv
  <1>7. CASE ObjectsAreCreated
    <2>1. ~broken /\ archive # <<>> => tx = "reserved"
      <3>1. i > Len(archive) /\ Len(archive) \in Nat /\ i \in Nat
        BY <1>7 DEF ObjectsAreCreated, ListTypes
      <3>2. archive # <<>> => Len(archive) # 0
        BY DEF ListTypes
      <3>3. archive # <<>> => i > 1
        BY <3>1, <3>2
      <3>4. QED
        BY <1>7, <3>3 DEF ObjectsAreCreated, TransactionInv
    <2>2. QED
      BY <1>7, <2>1 DEF ObjectsAreCreated, Imported, store, history, TransactionInv, Filling
  <1>8. CASE NextObject \/ RowsAreInserted
    BY <1>8 DEF NextObject, RowsAreInserted, Imported, store, history, TransactionInv, Filling
  <1>9. CASE RowIsUnbindable
    BY <1>9 DEF RowIsUnbindable, Fail, Imported, history, TransactionInv, Filling
  <1>10. CASE insert_row
    <2>1. /\ InsertFails(work, archive[i].name) \in BOOLEAN
          /\ InsertRefused(work, archive[i].name, Row) \in BOOLEAN
      BY DEF InsertFails, InsertRefused
    <2>2. Failed \/ RolledBack \/ Done(InsertRow(work, archive[i].name, Row))
      BY <1>10, <2>1, StatementIs DEF insert_row
    <2>3. /\ tx' \in {tx, WriteLock} \/ (tx' = "none" /\ error_message' # "ok")
          /\ UNCHANGED <<archive, i, broken, refused>> /\ pc = "rows"
          /\ pc' = "end_row" \/ (pc' = "rows" /\ error_message' = "ok")
      BY <1>10, <2>2 DEF Failed, RolledBack, Done, Write, insert_row, Imported, history
    <2>4. QED
      BY <2>3 DEF WriteLock, TransactionInv, Filling
  <1>11. QED
    <2>1. CASE Calls
      <3>1. pc' \in {"idle", "views", "list"}
        BY <2>1 DEF Calls, open_db, import_refused, import_from_buffer, export_to_buffer,
                    CallerBegins, CallerEnds
      <3>2. QED
        BY <1>1, <3>1 DEF Filling
    <2>2. CASE Export
      <3>1. pc' \in {"list_shadows", "export", "idle"}
        BY <2>2 DEF Export, ListObjects, ListShadows, remove_shadow_tables, ExportTable,
                    ExportOther, ExportReturns
      <3>2. QED
        BY <1>1, <3>1 DEF Filling
    <2>3. CASE \/ FindViews \/ DropView \/ FindTables \/ RemoveShadowTables \/ DropTable
               \/ LoopIsOver
      <3>1. pc' \in {"drop_views", "tables", "shadows", "drop_tables", "begin"}
        BY <2>3 DEF FindViews, DropView, FindTables, RemoveShadowTables, remove_shadow_tables,
                    DropTable, LoopIsOver
      <3>2. QED
        BY <1>1, <3>1 DEF Filling
    <2>4. CASE RowIsNoDictionary \/ EndAfterRow \/ EndImport
      BY <1>1, <2>4 DEF RowIsNoDictionary, EndAfterRow, EndImport, Return, Filling
    <2>5. QED
      BY <1>2, <1>3, <1>4, <1>5, <1>6, <1>7, <1>8, <1>9, <1>10, <2>1, <2>2, <2>3, <2>4
         DEF Next, Import

-----------------------------------------------------------------------------
(* What an import has done. *)

(* The loop over the objects goes on by one. *)
LEMMA MadeGoesOn ==
  ASSUME NEW a \in Seq(Elements), NEW n \in Nat
  PROVE  /\ n \in DOMAIN a => Made(a, n + 1) = Made(a, n) \union {a[n].name}
         /\ n <= 1 => Made(a, n) = {}
         /\ n > Len(a) => Made(a, n) = Names(a)
  <1>1. DOMAIN a = 1 .. Len(a) /\ Len(a) \in Nat
    OBVIOUS
  <1>2. ASSUME n \in DOMAIN a
        PROVE  Made(a, n + 1) = Made(a, n) \union {a[n].name}
    <2>1. {k \in DOMAIN a : k < n + 1} = {k \in DOMAIN a : k < n} \union {n}
      BY <1>1, <1>2
    <2>2. QED
      BY <2>1 DEF Made
  <1>3. ASSUME n <= 1
        PROVE  Made(a, n) = {}
    BY <1>1, <1>3 DEF Made
  <1>4. ASSUME n > Len(a)
        PROVE  Made(a, n) = Names(a)
    <2>1. {k \in DOMAIN a : k < n} = DOMAIN a
      BY <1>1, <1>4
    <2>2. QED
      BY <2>1 DEF Made, Names
  <1>5. QED
    BY <1>2, <1>3, <1>4

(* The rows of o, and of the tables whose triggers write to it, grow as the
   rows of each element do. *)
LEMMA DoneIsOfElements ==
  ASSUME NEW a, NEW m, NEW n, NEW p, NEW q,
         \A k \in DOMAIN a : DoneOf(a, p, q, k) = DoneOf(a, m, n, k)
  PROVE  \A o : /\ DoneRows(a, p, q, o) = DoneRows(a, m, n, o)
                /\ DoneFired(a, p, q, o) = DoneFired(a, m, n, o)
  <1>1. \A o : DoneRows(a, p, q, o) = DoneRows(a, m, n, o)
    BY DEF DoneRows
  <1>2. QED
    BY <1>1 DEF DoneFired

(* At first there are none. *)
LEMMA NoneIsDone ==
  ASSUME NEW a \in Seq(Elements)
  PROVE  \A o : DoneRows(a, 1, 1, o) = {} /\ DoneFired(a, 1, 1, o) = {}
  <1>1. ASSUME NEW k \in DOMAIN a
        PROVE  DoneOf(a, 1, 1, k) = {}
    <2>1. k \in 1 .. Len(a) /\ a[k].rows \in Seq(Keys \union {NotDictionary, Unbindable})
      BY ElementIs
    <2>2. ~(k < 1) /\ \A x \in DOMAIN a[k].rows : ~(x < 1)
      BY <2>1
    <2>3. QED
      BY <2>2 DEF DoneOf
  <1>2. \A o : DoneRows(a, 1, 1, o) = {}
    BY <1>1 DEF DoneRows
  <1>3. QED
    BY <1>2 DEF DoneFired

(* An object that is through counts as a whole. *)
LEMMA NextIsDone ==
  ASSUME NEW a \in Seq(Elements), NEW m \in DOMAIN a, NEW n \in Nat, n # 0,
         a[m].type = "table" => n = Len(a[m].rows) + 1
  PROVE  \A o : /\ DoneRows(a, m + 1, 1, o) = DoneRows(a, m, n, o)
                /\ DoneFired(a, m + 1, 1, o) = DoneFired(a, m, n, o)
  <1>1. ASSUME NEW k \in DOMAIN a
        PROVE  DoneOf(a, m + 1, 1, k) = DoneOf(a, m, n, k)
    <2>1. /\ k \in Nat /\ m \in Nat
          /\ a[k].rows \in Seq(Keys \union {NotDictionary, Unbindable})
          /\ DOMAIN a[k].rows = 1 .. Len(a[k].rows) /\ Len(a[k].rows) \in Nat
      BY ElementIs
    <2>2. CASE k < m
      BY <2>1, <2>2 DEF DoneOf
    <2>3. CASE k = m
      <3>1. a[k].type = "table" => \A x \in DOMAIN a[k].rows : x < n
        BY <2>1, <2>3
      <3>2. DoneOf(a, m, n, k) = RowKeys(a[k])
        BY <2>1, <2>3, <3>1 DEF DoneOf, RowKeys
      <3>3. DoneOf(a, m + 1, 1, k) = RowKeys(a[k])
        BY <2>1, <2>3 DEF DoneOf
      <3>4. QED
        BY <3>2, <3>3
    <2>4. CASE k > m
      <3>1. ~(k < m) /\ k # m /\ ~(k < m + 1) /\ \A x \in DOMAIN a[k].rows : ~(x < 1)
        BY <2>1, <2>4
      <3>2. QED
        BY <3>1 DEF DoneOf
    <2>5. QED
      BY <2>1, <2>2, <2>3, <2>4
  <1>2. QED
    BY <1>1, DoneIsOfElements

(* The last one is the last. *)
LEMMA AllIsDone ==
  ASSUME NEW a \in Seq(Elements), NEW n
  PROVE  \A o : /\ DoneRows(a, Len(a) + 1, n, o) = ArchiveRows(a, o)
                /\ DoneFired(a, Len(a) + 1, n, o) = Fired(a, o)
  <1>1. ASSUME NEW k \in DOMAIN a
        PROVE  DoneOf(a, Len(a) + 1, n, k) = RowKeys(a[k])
    <2>1. k \in 1 .. Len(a) /\ Len(a) \in Nat
      OBVIOUS
    <2>2. k < Len(a) + 1
      BY <2>1
    <2>3. QED
      BY <2>2 DEF DoneOf
  <1>2. \A o : DoneRows(a, Len(a) + 1, n, o) = ArchiveRows(a, o)
    BY <1>1 DEF DoneRows, ArchiveRows
  <1>3. QED
    BY <1>2 DEF DoneFired, Fired

(* A row that is inserted is one of its table and of the tables that triggers
   write it to. *)
LEMMA RowIsDone ==
  ASSUME NEW a \in Seq(Elements), NEW m \in DOMAIN a, a[m].type = "table",
         NEW n \in DOMAIN a[m].rows
  PROVE  \A o :
           /\ DoneRows(a, m, n + 1, o)
                = DoneRows(a, m, n, o) \union (IF o = a[m].name THEN {a[m].rows[n]} ELSE {})
           /\ DoneFired(a, m, n + 1, o)
                = DoneFired(a, m, n, o)
                  \union (IF \E g \in Names(a) : Kind[g] = "trigger" /\ Fires[g] = o /\ On[g] = a[m].name
                          THEN {a[m].rows[n]} ELSE {})
  <1> DEFINE r == a[m].rows[n]
  <1>1. ASSUME NEW k \in DOMAIN a
        PROVE  DoneOf(a, m, n + 1, k) = DoneOf(a, m, n, k) \union (IF k = m THEN {r} ELSE {})
    <2>1. /\ k \in Nat /\ m \in Nat
          /\ a[k].rows \in Seq(Keys \union {NotDictionary, Unbindable})
          /\ DOMAIN a[k].rows = 1 .. Len(a[k].rows) /\ Len(a[k].rows) \in Nat
      BY ElementIs
    <2>2. CASE k # m
      BY <2>1, <2>2 DEF DoneOf
    <2>3. CASE k = m
      <3>1. {x \in DOMAIN a[k].rows : x < n + 1} = {x \in DOMAIN a[k].rows : x < n} \union {n}
        BY <2>1, <2>3
      <3>2. ~(k < m)
        BY <2>1, <2>3
      <3>3. \A q : DoneOf(a, m, q, k) = {a[k].rows[x] : x \in {x \in DOMAIN a[k].rows : x < q}}
        BY <2>3, <3>2 DEF DoneOf
      <3>4. QED
        BY <2>3, <3>1, <3>3
    <2>4. QED
      BY <2>2, <2>3
  <1>2. ASSUME NEW o
        PROVE  DoneRows(a, m, n + 1, o)
                 = DoneRows(a, m, n, o) \union (IF o = a[m].name THEN {r} ELSE {})
    <2>1. CASE o = a[m].name
      BY <1>1, <2>1 DEF DoneRows
    <2>2. CASE o # a[m].name
      <3>1. \A k \in {k \in DOMAIN a : a[k].name = o} : DoneOf(a, m, n + 1, k) = DoneOf(a, m, n, k)
        BY <1>1, <2>2
      <3>2. QED
        BY <2>2, <3>1 DEF DoneRows
    <2>3. QED
      BY <2>1, <2>2
  <1>3. ASSUME NEW o
        PROVE  DoneFired(a, m, n + 1, o)
                 = DoneFired(a, m, n, o)
                   \union (IF \E g \in Names(a) : Kind[g] = "trigger" /\ Fires[g] = o /\ On[g] = a[m].name
                           THEN {r} ELSE {})
    <2> DEFINE writers == {g \in Names(a) : Kind[g] = "trigger" /\ Fires[g] = o}
    <2>1. \A g \in writers : DoneRows(a, m, n + 1, On[g])
            = DoneRows(a, m, n, On[g]) \union (IF On[g] = a[m].name THEN {r} ELSE {})
      BY <1>2
    <2>2. /\ DoneFired(a, m, n + 1, o) = UNION {DoneRows(a, m, n + 1, On[g]) : g \in writers}
          /\ DoneFired(a, m, n, o) = UNION {DoneRows(a, m, n, On[g]) : g \in writers}
      BY DEF DoneFired
    <2>3. \A x : x \in DoneFired(a, m, n + 1, o)
                   <=> \E g \in writers : x \in DoneRows(a, m, n, On[g]) \/ (On[g] = a[m].name /\ x = r)
      <3>1. \A g \in writers : \A x :
              x \in DoneRows(a, m, n + 1, On[g])
                <=> x \in DoneRows(a, m, n, On[g]) \/ (On[g] = a[m].name /\ x = r)
        BY <2>1
      <3>2. \A x : x \in DoneFired(a, m, n + 1, o)
                     <=> \E g \in writers : x \in DoneRows(a, m, n + 1, On[g])
        BY <2>2
      <3> HIDE DEF writers, r
      <3>3. QED
        BY <3>1, <3>2
    <2>4. \A x : x \in DoneFired(a, m, n, o) <=> \E g \in writers : x \in DoneRows(a, m, n, On[g])
      BY <2>2
    <2>5. (\E g \in Names(a) : Kind[g] = "trigger" /\ Fires[g] = o /\ On[g] = a[m].name)
            <=> \E g \in writers : On[g] = a[m].name
      OBVIOUS
    <2> HIDE DEF writers, r
    <2>6. CASE \E g \in writers : On[g] = a[m].name
      <3>1. \A x : x \in DoneFired(a, m, n + 1, o) <=> x \in DoneFired(a, m, n, o) \/ x = r
        BY <2>3, <2>4, <2>6
      <3>2. DoneFired(a, m, n + 1, o) = DoneFired(a, m, n, o) \union {r}
        BY <3>1
      <3>3. QED
        BY <2>5, <2>6, <3>2 DEF r
    <2>7. CASE ~\E g \in writers : On[g] = a[m].name
      <3>1. \A x : x \in DoneFired(a, m, n + 1, o) <=> x \in DoneFired(a, m, n, o)
        BY <2>3, <2>4, <2>7
      <3>2. DoneFired(a, m, n + 1, o) = DoneFired(a, m, n, o)
        BY <3>1
      <3>3. QED
        BY <2>5, <2>7, <3>2
    <2>8. QED
      BY <2>6, <2>7
  <1>4. QED
    BY <1>2, <1>3

(* An object that is made has no rows yet, and no trigger of before. *)
LEMMA CreatedGoesOn ==
  ASSUME NEW c, IsGood(c), NEW a \in Seq(Elements), NEW n \in DOMAIN a,
         ~CreateFails(c, a[n]), Created(c, a, n)
  PROVE  Created(CreateObject(c, a[n].name), a, n + 1)
  <1> DEFINE name == a[n].name
             new  == CreateObject(c, name)
  <1>1. a[n] \in Elements /\ n \in Nat /\ name \in Objects
    BY ElementIs
  <1>2. Made(a, n + 1) = Made(a, n) \union {name}
    BY <1>1, MadeGoesOn
  <1>3. /\ DOMAIN new = DOMAIN c \union {name} \union Shadows[name]
        /\ \A x \in DOMAIN c : new[x] = c[x]
        /\ new[name] = {} /\ name \notin DOMAIN c
    BY <1>1, CreateIsGood
  <1>4. \A o \in Made(a, n + 1) : o \in DOMAIN new /\ new[o] = {}
    BY <1>2, <1>3 DEF Created
  <1>5. ASSUME NEW g \in DOMAIN new, Kind[g] = "trigger", On[g] \in Made(a, n + 1)
        PROVE  g \in Made(a, n + 1)
    <2>1. CASE g \in DOMAIN c
      <3>1. On[g] \in DOMAIN c
        BY <1>5, <2>1 DEF IsGood, IsSchema
      <3>2. On[g] \in Made(a, n)
        BY <1>2, <1>3, <1>5, <3>1
      <3>3. QED
        BY <1>2, <1>5, <2>1, <3>2 DEF Created, TriggersAreNew
    <2>2. CASE g \in Shadows[name]
      BY <1>1, <1>5, <2>2, ShadowsAre DEF Table
    <2>3. QED
      BY <1>2, <1>3, <2>1, <2>2
  <1>6. QED
    BY <1>4, <1>5 DEF Created, TriggersAreNew

(* A row that is inserted goes where the archive has it: the triggers there are
   those of the archive. *)
LEMMA DoneGoesOn ==
  ASSUME NEW c, IsGood(c), NEW a \in Seq(Elements), NEW m \in DOMAIN a, a[m].type = "table",
         NEW n \in DOMAIN a[m].rows, a[m].rows[n] \in Keys, ~InsertFails(c, a[m].name),
         HasDone(c, a, m, n)
  PROVE  HasDone(InsertRow(c, a[m].name, a[m].rows[n]), a, m, n + 1)
  <1> DEFINE t   == a[m].name
             r   == a[m].rows[n]
             new == InsertRow(c, t, r)
  <1>1. t \in Objects /\ t \in Names(a)
    BY ElementIs DEF Names
  <1>2. /\ DOMAIN new = DOMAIN c
        /\ \A o \in DOMAIN c : new[o] = IF o \in Filled(c, t) THEN c[o] \union {r} ELSE c[o]
    BY <1>1, InsertIsGood
  <1>3. ASSUME NEW o \in Names(a)
        PROVE  o \in Filled(c, t)
                 <=> \/ o = t
                     \/ \E g \in Names(a) : Kind[g] = "trigger" /\ Fires[g] = o /\ On[g] = t
    <2>1. o \in Filled(c, t) <=> o = t \/ \E g \in Triggers(c, t) : Fires[g] = o
      BY DEF Filled
    <2>2. \A g : g \in Triggers(c, t) <=> g \in Names(a) /\ Kind[g] = "trigger" /\ On[g] = t
      BY <1>1 DEF Triggers, HasDone, TriggersAreNew
    <2>3. QED
      BY <2>1, <2>2
  <1>4. ASSUME NEW o \in Names(a)
        PROVE  o \in DOMAIN new /\ new[o] = DoneRows(a, m, n + 1, o) \union DoneFired(a, m, n + 1, o)
    <2> DEFINE fires == \E g \in Names(a) : Kind[g] = "trigger" /\ Fires[g] = o /\ On[g] = t
    <2>1. o \in DOMAIN c /\ c[o] = DoneRows(a, m, n, o) \union DoneFired(a, m, n, o)
      BY DEF HasDone
    <2>2. new[o] = IF o = t \/ fires THEN c[o] \union {r} ELSE c[o]
      BY <1>2, <1>3, <2>1
    <2>3. /\ DoneRows(a, m, n + 1, o) = DoneRows(a, m, n, o) \union (IF o = t THEN {r} ELSE {})
          /\ DoneFired(a, m, n + 1, o) = DoneFired(a, m, n, o) \union (IF fires THEN {r} ELSE {})
      BY RowIsDone
    <2> HIDE DEF fires, r, t, new
    <2>4. QED
      BY <1>2, <2>1, <2>2, <2>3
  <1>5. TriggersAreNew(new, Names(a))
    BY <1>2 DEF HasDone, TriggersAreNew
  <1>6. QED
    BY <1>4, <1>5 DEF HasDone

(* What is done is preserved while no object's SQL fails. *)
LEMMA ProgressPreserved ==
  PlainTypes /\ ListTypes /\ StoreInv /\ CallInv /\ TransactionInv /\ ProgressInv /\ [Next]_vars
    => ProgressInv'
  <1> SUFFICES ASSUME PlainTypes, ListTypes, StoreInv, CallInv, TransactionInv, ProgressInv,
                      [Next]_vars
               PROVE  ProgressInv'
    OBVIOUS
  <1> USE DEF Goto
  <1>a. archive \in Seq(Elements) /\ i \in Nat /\ j \in Nat /\ IsGood(work)
    BY DEF ListTypes, StoreInv, IsGood
  <1>1. CASE pc' \notin {"create", "rows", "end_row", "end"}
    BY <1>1 DEF ProgressInv
  <1>2. CASE UNCHANGED vars
    BY <1>2 DEF vars, store, history, ProgressInv
  <1>3. CASE OthersCommit
    <2>1. UNCHANGED <<pc, archive, i, j, broken, tx>> /\ tx \in {"none", "open"}
      BY <1>3 DEF OthersCommit, history
    <2>2. pc = "create" /\ ~broken => Made(archive, i) = {}
      <3>1. ASSUME pc = "create", ~broken
            PROVE  i <= 1
        BY <1>a, <2>1, <3>1 DEF TransactionInv
      <3>2. QED
        BY <1>a, <3>1, MadeGoesOn
    <2>3. pc \in {"rows", "end_row", "end"} /\ ~broken /\ tx # "none" => Names(archive) = {}
      BY <2>1 DEF TransactionInv, Names
    <2>4. QED
      BY <2>1, <2>2, <2>3 DEF ProgressInv, Created, HasDone, TriggersAreNew
  <1>4. CASE DeferForeignKeys
    <2>1. pc' = "create" /\ i' = 1 /\ archive' = archive
      BY <1>4 DEF DeferForeignKeys
    <2>2. Made(archive', i') = {}
      BY <1>a, <2>1, MadeGoesOn
    <2>3. QED
      BY <2>1, <2>2 DEF ProgressInv, Created, TriggersAreNew
  <1>5. CASE CreateObjects
    <2>1. CreateFails(work, archive[i]) \in BOOLEAN /\ i \in DOMAIN archive /\ pc = "create"
          /\ archive' = archive
      BY <1>5 DEF CreateObjects, CreateFails, Imported
    <2>2. \/ error_message' # "ok"
          \/ ~CreateFails(work, archive[i]) /\ work' = CreateObject(work, archive[i].name)
      <3>1. \/ Failed \/ RolledBack
            \/ ~CreateFails(work, archive[i]) /\ Done(CreateObject(work, archive[i].name))
        BY <1>5, <2>1, StatementIs DEF CreateObjects
      <3>2. QED
        BY <3>1 DEF Failed, RolledBack, Done, Write, Code
    <2>3. CASE error_message' # "ok"
      BY <1>5, <2>3 DEF CreateObjects, ProgressInv
    <2>4. CASE /\ error_message' = "ok"
               /\ ~CreateFails(work, archive[i]) /\ work' = CreateObject(work, archive[i].name)
      <3>1. pc' = "create" /\ broken' = broken /\ i' = i + 1
        BY <1>5, <2>4 DEF CreateObjects
      <3>2. ~broken => Created(work', archive, i + 1)
        BY <1>a, <2>1, <2>4, CreatedGoesOn DEF ProgressInv
      <3>3. QED
        BY <2>1, <3>1, <3>2 DEF ProgressInv
    <2>5. QED
      BY <2>2, <2>3, <2>4
  <1>6. CASE EndAfterCreate
    BY <1>6 DEF EndAfterCreate, Imported, CallInv, ProgressInv
  <1>7. CASE ObjectsAreCreated
    <2>1. /\ UNCHANGED <<archive, work, broken>> /\ pc = "create" /\ pc' = "rows" /\ i' = 1 /\ j' = 1
          /\ i > Len(archive)
      BY <1>7 DEF ObjectsAreCreated, Imported, store, history
    <2>2. Made(archive, i) = Names(archive)
      BY <1>a, <2>1, MadeGoesOn
    <2>3. ~broken => HasDone(work, archive, 1, 1)
      BY <1>a, <2>1, <2>2, NoneIsDone DEF ProgressInv, Created, HasDone
    <2>4. QED
      BY <2>1, <2>3 DEF ProgressInv
  <1>8. CASE NextObject
    <2>1. /\ UNCHANGED <<archive, work, broken, tx>> /\ pc = "rows" /\ pc' = "rows"
          /\ i' = i + 1 /\ j' = 1 /\ i \in DOMAIN archive /\ ~HasRow
      BY <1>8 DEF NextObject, Imported, store, history
    <2>2. archive[i].type = "table" => j = Len(archive[i].rows) + 1
      <3>1. archive[i].rows \in Seq(Keys \union {NotDictionary, Unbindable})
        BY <1>a, <2>1, ElementIs
      <3>2. Len(archive[i].rows) \in Nat /\ DOMAIN archive[i].rows = 1 .. Len(archive[i].rows)
        BY <3>1
      <3>3. archive[i].type = "table" => j \notin DOMAIN archive[i].rows /\ j # 0
                                         /\ j <= Len(archive[i].rows) + 1
        BY <2>1 DEF HasRow, CallInv
      <3>4. QED
        BY <1>a, <3>2, <3>3
    <2>3. j # 0
      BY <2>1 DEF CallInv
    <2>4. HasDone(work, archive, i, j) => HasDone(work, archive, i + 1, 1)
      BY <1>a, <2>1, <2>2, <2>3, NextIsDone DEF HasDone
    <2>5. QED
      BY <2>1, <2>4 DEF ProgressInv
  <1>9. CASE RowIsUnbindable \/ RowsAreInserted
    BY <1>9 DEF RowIsUnbindable, RowsAreInserted, Fail, Imported, store, history, ProgressInv
  <1>10. CASE insert_row
    <2> DEFINE t == archive[i].name
    <2>1. /\ InsertFails(work, t) \in BOOLEAN /\ InsertRefused(work, t, Row) \in BOOLEAN
          /\ HasRow /\ Row \in Keys /\ pc = "rows" /\ UNCHANGED <<archive, i, broken>>
      BY <1>10 DEF insert_row, InsertFails, InsertRefused, Imported, history
    <2>2. \/ Failed \/ RolledBack
          \/ ~InsertFails(work, t) /\ Done(InsertRow(work, t, Row))
      BY <1>10, <2>1, StatementIs DEF insert_row
    <2>3. CASE Failed
      <3>1. work' = work /\ (tx' # "none" => tx # "none") /\ j' = j
        BY <1>10, <2>3 DEF Failed, WriteLock, insert_row
      <3>2. QED
        BY <1>10, <2>1, <3>1 DEF insert_row, ProgressInv
    <2>4. CASE RolledBack
      BY <1>10, <2>4 DEF RolledBack, insert_row, ProgressInv
    <2>5. CASE ~InsertFails(work, t) /\ Done(InsertRow(work, t, Row))
      <3>1. /\ work' = InsertRow(work, t, Row) /\ (tx' # "none" => tx # "none")
            /\ j' = j + 1 /\ pc' = "rows"
        BY <1>10, <2>5 DEF Done, Write, WriteLock, Code, insert_row
      <3>2. HasDone(work, archive, i, j) => HasDone(InsertRow(work, t, Row), archive, i, j + 1)
        BY <1>a, <2>1, <2>5, DoneGoesOn DEF HasRow, Row
      <3>3. QED
        BY <2>1, <3>1, <3>2 DEF ProgressInv
    <2>6. QED
      BY <2>2, <2>3, <2>4, <2>5
  <1>11. QED
    <2>1. CASE Calls \/ Export
      BY <1>1, <2>1 DEF Calls, open_db, import_refused, import_from_buffer, export_to_buffer,
         CallerBegins, CallerEnds, Export, ListObjects, ListShadows, remove_shadow_tables,
         ExportTable, ExportOther, ExportReturns
    <2>2. CASE \/ FindViews \/ DropView \/ FindTables \/ RemoveShadowTables \/ DropTable
               \/ LoopIsOver \/ Begin \/ RowIsNoDictionary \/ EndAfterRow \/ EndImport
      BY <1>1, <2>2 DEF FindViews, DropView, FindTables, RemoveShadowTables, DropTable, LoopIsOver,
         Begin, RowIsNoDictionary, EndAfterRow, EndImport, Return, remove_shadow_tables
    <2>3. QED
      BY <1>2, <1>3, <1>4, <1>5, <1>6, <1>7, <1>8, <1>9, <1>10, <2>1, <2>2 DEF Next, Import

-----------------------------------------------------------------------------
(* What an export has read. *)

(* An element that is added to a list is one more name with its rows. *)
LEMMA AppendedNames ==
  ASSUME NEW a \in Seq(Elements), NEW e \in Elements
  PROVE  /\ Names(Append(a, e)) = Names(a) \union {e.name}
         /\ \A k \in DOMAIN Append(a, e) : Append(a, e)[k] = e \/ \E n \in DOMAIN a : Append(a, e)[k] = a[n]
  <1>1. /\ DOMAIN Append(a, e) = DOMAIN a \union {Len(a) + 1}
        /\ Append(a, e)[Len(a) + 1] = e
        /\ \A k \in DOMAIN a : Append(a, e)[k] = a[k]
    OBVIOUS
  <1>2. QED
    BY <1>1 DEF Names

(* A list of a state is longer by an object of the state with its rows. *)
LEMMA ShownGoesOn ==
  ASSUME NEW a \in Seq(Elements), NEW c, IsGood(c), NEW o \in DOMAIN c, o \in Objects,
         AllRead(c, a),
         NEW rows \in Seq(Keys \union {NotDictionary, Unbindable}),
         Table(o) => {rows[n] : n \in DOMAIN rows} = c[o]
  PROVE  /\ Names(Append(a, AsElement(o, rows))) = Names(a) \union {o}
         /\ AllRead(c, Append(a, AsElement(o, rows)))
  <1>1. PICK e \in Elements : e = AsElement(o, rows)
    BY AppendedElement
  <1>2. e.name = o /\ e.type = Kind[o] /\ e.rows = rows
    BY <1>1 DEF AsElement
  <1>3. RowKeys(e) = c[o]
    <2>1. CASE Table(o)
      BY <1>2, <2>1 DEF RowKeys, Table
    <2>2. CASE ~Table(o)
      BY <1>2, <2>2 DEF RowKeys, Table, IsGood, IsSchema
    <2>3. QED
      BY <2>1, <2>2
  <1>4. AllRead(c, Append(a, e))
    BY <1>2, <1>3, AppendedNames DEF AllRead
  <1>5. Names(Append(a, e)) = Names(a) \union {o}
    BY <1>2, AppendedNames
  <1>6. QED
    BY <1>1, <1>4, <1>5

(* What is exported is in the database, and is what the SELECTs and the filter
   leave: of the four kinds of objects, tables and triggers. *)
LEMMA ExportedAre ==
  ASSUME NEW c, DOMAIN c \subseteq Objects
  PROVE  /\ Exported(c) \subseteq DOMAIN c
         /\ ~fts5 => Exported(c) = DOMAIN c \ Hidden
         /\ fts5 => Exported(c) = ListedWithFts5(DOMAIN c \ Hidden, ShadowTables(DOMAIN c))
  <1>1. Exported(c) \subseteq DOMAIN c
    BY DEF Exported
  <1>2. ~fts5 => Exported(c) = DOMAIN c \ Hidden
    BY DEF Exported
  <1>3. \A o \in DOMAIN c : Kind[o] \in {"table", "index", "view", "trigger"}
    BY ObjectsAssumption
  <1>4. \A o : o \in ShadowTables(DOMAIN c) <=> IsShadow(c, o)
    BY DEF ShadowTables, IsShadow
  <1>5. ASSUME fts5
        PROVE  Exported(c) = ListedWithFts5(DOMAIN c \ Hidden, ShadowTables(DOMAIN c))
    <2>1. ASSUME NEW o
          PROVE  o \in Exported(c)
                   <=> o \in ListedWithFts5(DOMAIN c \ Hidden, ShadowTables(DOMAIN c))
      BY <1>3, <1>4, <1>5 DEF Exported, ListedWithFts5
    <2>2. QED
      BY <2>1
  <1>6. QED
    BY <1>1, <1>2, <1>5

(* A SELECT in a transaction has a lock when it succeeds, fails only before there
   is one, and when it is cut off there is no transaction any more. *)
LEMMA SelectIs ==
  ASSUME StoreInv
  PROVE  /\ Read => tx' = ReadLock /\ tx' # "open" /\ UNCHANGED <<file, work>>
         /\ ReadFails => tx' = tx /\ ~Locked /\ UNCHANGED <<file, work>>
         /\ ReadCutOff => tx' = "none"
  BY DEF StoreInv, Read, ReadFails, ReadCutOff, RollbackAll, ReadLock, Fail, Locked

(* What an export in a transaction has read is preserved. *)
LEMMA ExportPreserved ==
  ListTypes /\ StoreInv /\ CallInv /\ ExportInv /\ [Next]_vars => ExportInv'
  <1> SUFFICES ASSUME ListTypes, StoreInv, CallInv, ExportInv, [Next]_vars PROVE ExportInv'
    OBVIOUS
  <1> USE DEF Goto
  <1>a. archive \in Seq(Elements) /\ todo \subseteq Objects /\ IsGood(work)
    BY DEF ListTypes, StoreInv, IsGood
  <1>1. CASE pc' \notin {"list_shadows", "export"}
    BY <1>1 DEF ExportInv
  <1>b. \A c : DOMAIN c \subseteq Objects => Exported(c) \subseteq DOMAIN c
    BY ExportedAre
  <1>2. CASE UNCHANGED vars
    BY <1>2 DEF vars, store, ExportInv, Locked, Exported, AllRead
  <1>3. CASE OthersCommit
    BY <1>3 DEF OthersCommit, ExportInv, Locked
  <1>4. CASE ListObjects
    <2>1. UNCHANGED <<fts5, archive>> /\ archive = <<>> /\ pc = "list"
          /\ pc' = IF fts5 THEN "list_shadows" ELSE "export"
      BY <1>4 DEF ListObjects, Locals, CallInv
    <2>2. CASE Read /\ todo' = DOMAIN work \ Hidden
      <3>1. work' = work /\ tx' # "open" /\ Names(archive) = {}
        BY <2>1, <2>2, SelectIs DEF Names
      <3>2. ~fts5 => todo' \union Names(archive) = Exported(work)
        BY <1>a, <2>2, <3>1, ExportedAre DEF IsGood, IsContent
      <3>3. QED
        BY <2>1, <2>2, <3>1, <3>2 DEF ExportInv, Locked, Exported, AllRead
    <2>3. CASE ReadFails /\ todo' = {}
      BY <2>1, <2>3, SelectIs DEF ExportInv, Locked
    <2>4. CASE ReadCutOff
      BY <2>1, <2>4, SelectIs DEF ExportInv, Locked
    <2>5. QED
      BY <1>4, <2>2, <2>3, <2>4 DEF ListObjects, Find
  <1>5. CASE ListShadows
    <2>1. UNCHANGED <<fts5, archive>> /\ archive = <<>> /\ pc = "list_shadows" /\ pc' = "export" /\ fts5
      BY <1>5 DEF ListShadows, remove_shadow_tables, Locals, CallInv, ExportInv
    <2>2. CASE Read /\ todo' = ListedWithFts5(todo, ShadowTables(DOMAIN work))
      <3>1. work' = work /\ tx' # "open" /\ Names(archive) = {} /\ tx' = ReadLock
        BY <2>1, <2>2, SelectIs DEF Names
      <3>2. CASE tx = "open"
        BY <2>1, <2>2, <3>1, <3>2 DEF ExportInv, ListedWithFts5
      <3>3. CASE Locked
        <4>1. todo' = Exported(work)
          BY <1>a, <2>1, <2>2, <3>3, ExportedAre DEF ExportInv, IsGood, IsContent
        <4>2. QED
          BY <2>1, <3>1, <4>1 DEF ExportInv, Exported, AllRead
      <3>4. CASE tx # "open" /\ ~Locked
        BY <2>1, <3>1, <3>4 DEF ExportInv, Locked, ReadLock, StoreInv, Transactions
      <3>5. QED
        BY <3>2, <3>3, <3>4
    <2>3. CASE ReadFails /\ todo' = ListedWithFts5(todo, {})
      BY <2>1, <2>3, SelectIs DEF ExportInv, ListedWithFts5, Locked
    <2>4. CASE ReadCutOff
      BY <2>1, <2>4, SelectIs DEF ExportInv, Locked
    <2>5. QED
      BY <1>5, <2>2, <2>3, <2>4 DEF ListShadows, remove_shadow_tables
  <1>6. CASE ExportTable
    <2>1. PICK t \in todo :
            /\ Table(t)
            /\ \/ /\ t \in DOMAIN work /\ Read
                  /\ archive' = Append(archive, AsElement(t, SetToSeq(work[t])))
               \/ ReadFails
               \/ ReadCutOff
               \/ t \notin DOMAIN work /\ tx' = tx /\ work' = work
            /\ todo' = todo \ {t}
      BY <1>6 DEF ExportTable, Fail
    <2>2. UNCHANGED fts5 /\ pc = "export" /\ pc' = "export"
      BY <1>6 DEF ExportTable
    <2>3. tx # "open"
      BY <2>1, <2>2 DEF ExportInv
    <2>4. CASE ~Locked \/ ReadCutOff
      <3>1. tx' \in {tx, "none"} /\ tx' \notin {"shared", "reserved", "open"}
        BY <2>1, <2>3, <2>4, SelectIs DEF ReadLock, Locked
      <3>2. QED
        BY <2>2, <3>1 DEF ExportInv, Locked
    <2>5. CASE Locked /\ ~ReadCutOff
      <3>1. todo \union Names(archive) = Exported(work) /\ AllRead(work, archive)
        BY <2>1, <2>2, <2>5 DEF ExportInv
      <3>2. t \in DOMAIN work
        BY <1>a, <1>b, <2>1, <3>1 DEF IsGood, IsContent
      <3>3. Read /\ archive' = Append(archive, AsElement(t, SetToSeq(work[t])))
        BY <2>1, <2>5, <3>2, SelectIs
      <3>4. work' = work /\ tx' # "open"
        BY <3>3, SelectIs
      <3>5. PICK rows \in Seq(Keys \union {NotDictionary, Unbindable}) :
              rows = SetToSeq(work[t]) /\ {rows[n] : n \in DOMAIN rows} = work[t]
        BY <1>a, <3>2, ExportedRows DEF IsGood
      <3>6. archive' = Append(archive, AsElement(t, rows))
        BY <3>3, <3>5
      <3>7. /\ Names(archive') = Names(archive) \union {t}
            /\ AllRead(work, archive')
        BY <1>a, <3>1, <3>2, <3>5, <3>6, ShownGoesOn
      <3>8. todo' \union Names(archive') = Exported(work')
        BY <2>1, <2>2, <3>1, <3>4, <3>7 DEF Exported
      <3>9. QED
        BY <2>2, <3>4, <3>7, <3>8 DEF ExportInv, Exported
    <2>6. QED
      BY <2>4, <2>5
  <1>7. CASE ExportOther
    <2>1. PICK o \in todo :
            /\ ~Table(o) /\ archive' = Append(archive, AsElement(o, <<>>)) /\ todo' = todo \ {o}
      BY <1>7 DEF ExportOther
    <2>2. UNCHANGED <<fts5, work, tx>> /\ pc = "export" /\ pc' = "export"
      BY <1>7 DEF ExportOther, store
    <2>3. tx # "open"
      BY <2>1, <2>2 DEF ExportInv
    <2>4. CASE ~Locked
      BY <2>2, <2>3, <2>4 DEF ExportInv, Locked
    <2>5. CASE Locked
      <3>1. todo \union Names(archive) = Exported(work) /\ AllRead(work, archive)
        BY <2>1, <2>2, <2>5 DEF ExportInv
      <3>2. o \in DOMAIN work
        BY <1>a, <1>b, <2>1, <3>1 DEF IsGood, IsContent
      <3>0. <<>> \in Seq(Keys \union {NotDictionary, Unbindable})
        OBVIOUS
      <3>3. PICK rows \in Seq(Keys \union {NotDictionary, Unbindable}) : rows = <<>>
        BY <3>0
      <3>4. archive' = Append(archive, AsElement(o, rows))
        BY <2>1, <3>3
      <3>5. /\ Names(archive') = Names(archive) \union {o}
            /\ AllRead(work, archive')
        BY <1>a, <2>1, <3>1, <3>2, <3>4, ShownGoesOn
      <3>6. todo' \union Names(archive') = Exported(work')
        BY <2>1, <2>2, <3>1, <3>5 DEF Exported
      <3>7. QED
        BY <2>2, <2>3, <3>5, <3>6 DEF ExportInv, Exported
    <2>6. QED
      BY <2>4, <2>5
  <1>8. QED
    <2>1. CASE Calls \/ ExportReturns
      BY <1>1, <2>1 DEF Calls, open_db, import_refused, import_from_buffer, export_to_buffer,
         CallerBegins, CallerEnds, ExportReturns
    <2>2. CASE Import
      <3>1. CASE \/ FindViews \/ DropView \/ FindTables \/ RemoveShadowTables \/ DropTable
                 \/ LoopIsOver \/ Begin \/ DeferForeignKeys
        BY <1>1, <3>1 DEF FindViews, DropView, FindTables, RemoveShadowTables, DropTable,
           LoopIsOver, Begin, DeferForeignKeys, remove_shadow_tables
      <3>2. CASE \/ CreateObjects \/ EndAfterCreate \/ ObjectsAreCreated \/ NextObject
                 \/ RowIsNoDictionary \/ RowIsUnbindable \/ insert_row \/ EndAfterRow
                 \/ RowsAreInserted \/ EndImport
        BY <1>1, <3>2 DEF CreateObjects, EndAfterCreate, ObjectsAreCreated, NextObject,
           RowIsNoDictionary, RowIsUnbindable, insert_row, EndAfterRow, RowsAreInserted,
           EndImport, Return
      <3>3. QED
        BY <2>2, <3>1, <3>2 DEF Import
    <2>3. QED
      BY <1>2, <1>3, <1>4, <1>5, <1>6, <1>7, <2>1, <2>2 DEF Next, Export

-----------------------------------------------------------------------------
(* What an import leaves of the old content. *)

(* When nothing has come in between after a step, nothing had before it. *)
LEMMA NothingBetween ==
  ASSUME PlainTypes, faults' = 0
  PROVE  (faults' = faults => faults = 0) /\ ~Between
  BY DEF PlainTypes, Between

(* Then every SELECT of an import succeeds. *)
LEMMA SelectSucceeds ==
  ASSUME PlainTypes, db, faults' = 0
  PROVE  /\ ReadFails \/ ReadCutOff => FALSE
         /\ Read => UNCHANGED work /\ faults = 0
  BY NothingBetween DEF ReadFails, ReadCutOff, Read, NoFault, Fault, Between

(* A virtual table is an ordinary object of the import: it is found, and it is
   no other one's shadow table. *)
LEMMA VirtualIs ==
  ASSUME NEW o \in Objects, Shadows[o] # {}
  PROVE  Table(o) /\ o \notin Hidden /\ ~IsParent(o) /\ \A v \in Objects : o \notin Shadows[v]
  BY ShadowsAssumption DEF Table, IsParent

(* Only what is left of the old content, and what refers to it, is preserved. *)
LEMMA LeftPreserved ==
  PlainTypes /\ ListTypes /\ StoreInv /\ CallInv /\ LeftInv /\ [Next]_vars => LeftInv'
  <1> SUFFICES ASSUME PlainTypes, ListTypes, StoreInv, CallInv, LeftInv, [Next]_vars, faults' = 0
               PROVE  LeftInv'
    BY DEF LeftInv
  <1> USE DEF Goto
  <1>a. IsGood(work) /\ todo \subseteq Objects /\ DOMAIN work \subseteq Objects
        /\ Tables(work) \subseteq DOMAIN work
    BY DEF StoreInv, IsGood, IsContent, ListTypes, Tables
  <1>1. CASE pc' \notin {"shadows", "drop_tables", "begin", "defer"} \union Filling
    BY <1>1 DEF LeftInv
  <1>2. CASE UNCHANGED vars
    BY <1>2 DEF vars, store, LeftInv, Tables
  <1>3. CASE OthersCommit
    BY <1>3, NothingBetween DEF OthersCommit, Fault, Between
  <1>4. CASE FindTables
    <2>1. db /\ pc' \in {"shadows", "drop_tables"}
      BY <1>4 DEF FindTables, CallInv, Importing, Labels
    <2>2. UNCHANGED work /\ todo' = Tables(work) \ Hidden
      BY <1>4, <2>1, SelectSucceeds DEF FindTables, Find
    <2>3. QED
      BY <2>1, <2>2 DEF LeftInv, Tables, Filling
  <1>5. CASE RemoveShadowTables
    <2>1. db /\ pc = "shadows" /\ pc' = "drop_tables"
      BY <1>5 DEF RemoveShadowTables, remove_shadow_tables, CallInv, Importing, Labels
    <2>2. UNCHANGED work /\ faults = 0 /\ todo' = ListedWithFts5(todo, ShadowTables(DOMAIN work))
      BY <1>5, <2>1, SelectSucceeds DEF RemoveShadowTables, remove_shadow_tables
    <2>3. todo = Tables(work) \ Hidden
      BY <2>1, <2>2 DEF LeftInv
    <2>4. ASSUME NEW t \in Tables(work) \ Hidden
          PROVE  t \in todo' \/ \E o \in todo' \intersect DOMAIN work : t \in Shadows[o]
      <3>1. CASE t \notin ShadowTables(DOMAIN work)
        BY <2>2, <2>3, <3>1 DEF ListedWithFts5, Tables, Table
      <3>2. CASE t \in ShadowTables(DOMAIN work)
        <4>1. PICK o \in DOMAIN work : t \in Shadows[o]
          BY <3>2 DEF ShadowTables
        <4>2. Table(o) /\ o \notin Hidden /\ \A v \in Objects : o \notin Shadows[v]
          BY <1>a, <4>1, VirtualIs
        <4>3. o \in todo /\ o \notin ShadowTables(DOMAIN work)
          BY <1>a, <2>3, <4>2 DEF Tables, ShadowTables
        <4>4. o \in todo'
          BY <2>2, <4>2, <4>3 DEF ListedWithFts5, Table
        <4>5. QED
          BY <4>1, <4>4
      <3>3. QED
        BY <3>1, <3>2
    <2>5. QED
      BY <2>1, <2>2, <2>4 DEF LeftInv, Tables, Filling
  <1>6. CASE DropTable
    <2>1. PICK t \in todo :
            /\ Statement(t \notin DOMAIN work, DropRefused(work, t), DropObject(work, t))
            /\ todo' = todo \ {t}
      BY <1>6 DEF DropTable
    <2>2. pc = "drop_tables" /\ pc' = "drop_tables" /\ t \in Objects
      BY <1>6, <1>a DEF DropTable
    <2>3. DropRefused(work, t) \in BOOLEAN
      BY DEF DropRefused
    <2>4. \/ (t \notin DOMAIN work \/ DropRefused(work, t)) /\ Failed /\ faults' = faults
          \/ Done(DropObject(work, t))
      BY <2>1, <2>3, StatementIs, NothingBetween
    <2>5. faults = 0
      BY <2>4, NothingBetween DEF Done, NoFault
    <2>6. \A s \in Tables(work) \ Hidden :
            s \in todo \/ IsParent(s) \/ \E o \in todo \intersect DOMAIN work : s \in Shadows[o]
      BY <2>2, <2>5 DEF LeftInv
    <2>7. CASE (t \notin DOMAIN work \/ DropRefused(work, t)) /\ Failed
      <3>1. t \notin DOMAIN work \/ (IsParent(t) /\ Shadows[t] = {})
        <4>1. DropRefused(work, t) => IsParent(t)
          BY <1>a DEF DropRefused, IsParent
        <4>2. QED
          BY <2>2, <2>7, <4>1, VirtualIs
      <3>2. work' = work
        BY <2>7 DEF Failed
      <3>3. ASSUME NEW s \in Tables(work) \ Hidden
            PROVE  s \in todo' \/ IsParent(s) \/ \E o \in todo' \intersect DOMAIN work : s \in Shadows[o]
        BY <1>a, <2>1, <2>6, <3>1
      <3>4. QED
        BY <2>2, <3>2, <3>3 DEF LeftInv, Tables, Filling
    <2>8. CASE Done(DropObject(work, t))
      <3>1. work' = DropObject(work, t)
        BY <2>8 DEF Done, Write
      <3>2. /\ DOMAIN work' \subseteq DOMAIN work \ ({t} \union Shadows[t])
            /\ \A o \in DOMAIN work : Table(o) /\ o # t /\ o \notin Shadows[t] => o \in DOMAIN work'
        BY <3>1 DEF DropObject, Without, Table
      <3>3. ASSUME NEW s \in Tables(work') \ Hidden
            PROVE  s \in todo' \/ IsParent(s) \/ \E o \in todo' \intersect DOMAIN work' : s \in Shadows[o]
        <4>1. s \in Tables(work) \ Hidden /\ s # t /\ s \notin Shadows[t]
          BY <3>2 DEF Tables
        <4>2. ASSUME NEW o \in todo \intersect DOMAIN work, s \in Shadows[o]
              PROVE  o \in todo' \intersect DOMAIN work'
          <5>1. o # t /\ Table(o) /\ o \notin Shadows[t]
            BY <1>a, <2>2, <4>1, <4>2, VirtualIs
          <5>2. QED
            BY <2>1, <3>2, <5>1
        <4>3. QED
          BY <2>1, <2>6, <4>1, <4>2
      <3>4. QED
        BY <2>2, <3>3 DEF LeftInv, Filling
    <2>9. QED
      BY <2>4, <2>7, <2>8
  <1>7. CASE LoopIsOver
    <2>1. UNCHANGED <<work, faults>> /\ todo = {}
          /\ ((pc = "drop_tables" /\ pc' = "begin") \/ pc' = "tables")
      BY <1>7 DEF LoopIsOver, store
    <2>2. QED
      BY <2>1 DEF LeftInv, Tables, Filling
  <1>8. CASE Begin
    <2>1. UNCHANGED <<work, faults>> /\ pc = "begin" /\ pc' = "defer"
      BY <1>8 DEF Begin, BEGIN_TRANSACTION, NoFault, Fail
    <2>2. QED
      BY <2>1 DEF LeftInv, Tables, Filling
  <1>9. CASE DeferForeignKeys
    <2>1. UNCHANGED <<work, faults, archive>> /\ pc = "defer" /\ pc' = "create"
      BY <1>9 DEF DeferForeignKeys
    <2>2. QED
      BY <2>1 DEF LeftInv, Tables, Filling
  <1>10. CASE pc \in Filling /\ pc' \in Filling /\ Import
    <2> DEFINE new == {archive[i].name} \union Shadows[archive[i].name]
    <2>1. /\ archive' = archive
          /\ faults = 0
          /\ \/ DOMAIN work' \subseteq DOMAIN work
             \/ i \in DOMAIN archive /\ DOMAIN work' \subseteq DOMAIN work \union new
      <3>1. CASE CreateObjects
        <4>1. CreateFails(work, archive[i]) \in BOOLEAN /\ i \in DOMAIN archive /\ archive' = archive
          BY <3>1 DEF CreateObjects, CreateFails, Imported
        <4>2. \/ Failed /\ faults' = faults
              \/ /\ ~CreateFails(work, archive[i])
                 /\ Done(CreateObject(work, archive[i].name))
          BY <3>1, <4>1, StatementIs, NothingBetween DEF CreateObjects
        <4>3. faults = 0
          BY <4>2, NothingBetween DEF Done, NoFault
        <4>4. work' = work \/ work' = CreateObject(work, archive[i].name)
          BY <4>2 DEF Failed, Done, Write
        <4>5. QED
          BY <4>1, <4>3, <4>4 DEF CreateObject
      <3>2. CASE insert_row
        <4>1. /\ InsertFails(work, archive[i].name) \in BOOLEAN
              /\ InsertRefused(work, archive[i].name, Row) \in BOOLEAN
              /\ archive' = archive
          BY <3>2 DEF insert_row, InsertFails, InsertRefused, Imported
        <4>2. \/ Failed /\ faults' = faults
              \/ Done(InsertRow(work, archive[i].name, Row))
          BY <3>2, <4>1, StatementIs, NothingBetween DEF insert_row
        <4>3. faults = 0
          BY <4>2, NothingBetween DEF Done, NoFault
        <4>4. work' = work \/ work' = InsertRow(work, archive[i].name, Row)
          BY <4>2 DEF Failed, Done, Write
        <4>5. QED
          BY <4>1, <4>3, <4>4 DEF InsertRow
      <3>3. CASE EndAfterCreate
        <4>1. PICK code : END_TRANSACTION(code)
          BY <3>3 DEF EndAfterCreate
        <4>2. faults' = faults /\ work' = work
          BY <4>1, NothingBetween DEF END_TRANSACTION, EndRefused, Commit, store, NoFault, Fault,
                                      Between
        <4>3. QED
          BY <3>3, <4>2, NothingBetween DEF EndAfterCreate, Imported
      <3>4. CASE ObjectsAreCreated \/ NextObject \/ RowIsUnbindable \/ RowsAreInserted
        <4>1. UNCHANGED <<archive, work, faults>>
          BY <3>4 DEF ObjectsAreCreated, NextObject, RowIsUnbindable, RowsAreInserted, Imported,
                      store, Fail, NoFault
        <4>2. QED
          BY <4>1, NothingBetween
      <3>5. CASE RowIsNoDictionary \/ EndAfterRow \/ EndImport
        BY <1>10, <3>5 DEF RowIsNoDictionary, EndAfterRow, EndImport, Return, Filling
      <3>6. CASE \/ FindViews \/ DropView \/ FindTables \/ RemoveShadowTables \/ DropTable
                 \/ LoopIsOver \/ Begin \/ DeferForeignKeys
        BY <1>10, <3>6 DEF FindViews, DropView, FindTables, RemoveShadowTables, DropTable,
           LoopIsOver, Begin, DeferForeignKeys, Filling
      <3>7. QED
        BY <1>10, <3>1, <3>2, <3>3, <3>4, <3>5, <3>6 DEF Import
    <2>2. i \in DOMAIN archive => archive[i].name \in Names(archive)
      BY DEF Names
    <2>3. ASSUME NEW t \in Tables(work') \ (Names(archive) \union Hidden)
          PROVE  IsParent(t) \/ \E o \in Names(archive) : t \in Shadows[o]
      <3>1. CASE t \in DOMAIN work
        BY <1>10, <2>1, <3>1 DEF LeftInv, Tables
      <3>2. CASE t \notin DOMAIN work
        BY <2>1, <2>2, <3>2 DEF Tables
      <3>3. QED
        BY <3>1, <3>2
    <2>4. QED
      BY <1>10, <2>1, <2>3 DEF LeftInv, Filling, Names
  <1>11. QED
    <2>1. CASE Calls \/ Export
      BY <1>1, <2>1 DEF Calls, open_db, import_refused, import_from_buffer, export_to_buffer,
         CallerBegins, CallerEnds, Export, ListObjects, ListShadows, remove_shadow_tables,
         ExportTable, ExportOther, ExportReturns, Filling
    <2>2. CASE FindViews \/ DropView \/ RowIsNoDictionary \/ EndAfterRow \/ EndImport
      BY <1>1, <2>2 DEF FindViews, DropView, RowIsNoDictionary, EndAfterRow, EndImport, Return,
         Filling
    <2>3. CASE \/ CreateObjects \/ EndAfterCreate \/ ObjectsAreCreated \/ NextObject
               \/ RowIsUnbindable \/ insert_row \/ RowsAreInserted
      <3>1. pc \in Filling /\ pc' \in Filling /\ Import
        BY <2>3 DEF CreateObjects, EndAfterCreate, ObjectsAreCreated, NextObject, RowIsUnbindable,
           insert_row, RowsAreInserted, Imported, Filling, Import
      <3>2. QED
        BY <1>10, <3>1
    <2>4. QED
      BY <1>2, <1>3, <1>4, <1>5, <1>6, <1>7, <1>8, <1>9, <2>1, <2>2, <2>3 DEF Next, Import

-----------------------------------------------------------------------------
(* The invariant, and what it says of the calls. *)

(* Nothing has happened yet. *)
LEMMA ImportInitially == Init => ImportInv
  <1> SUFFICES ASSUME Init PROVE ImportInv
    OBVIOUS
  <1>1. StoreInv
    BY ContentsAssumption DEF Init, StoreInv, Possible, Transactions
  <1>2. PlainTypes
    <2>1. faults \in 0 .. MaxFaults
      <3>1. MaxFaults \in Nat
        BY FaultsAssumption
      <3>2. faults = 0
        BY DEF Init
      <3>3. QED
        BY <3>1, <3>2
    <2>2. QED
      BY <2>1 DEF Init, PlainTypes, Labels, Codes
  <1>3. ListTypes
    <2>1. <<>> \in Seq(Elements) /\ 0 \in 0 .. Len(<<>>) + 1
      OBVIOUS
    <2>2. QED
      BY <2>1 DEF Init, ListTypes
  <1>4. CallInv /\ TransactionInv /\ ProgressInv /\ LeftInv /\ ExportInv
    BY DEF Init, CallInv, TransactionInv, ProgressInv, LeftInv, ExportInv, Filling, Importing
  <1>5. QED
    BY <1>1, <1>2, <1>3, <1>4, TypesAre DEF ImportInv

(* Every step preserves the invariant. *)
LEMMA ImportPreserved == ImportInv /\ [Next]_vars => ImportInv'
  <1> SUFFICES ASSUME ImportInv, [Next]_vars PROVE ImportInv'
    OBVIOUS
  <1>1. /\ TypeOK /\ StoreInv /\ CallInv /\ TransactionInv /\ ProgressInv /\ LeftInv /\ ExportInv
        /\ PlainTypes /\ ListTypes
    BY TypesAre DEF ImportInv
  <1>2. StoreInv'
    BY <1>1, StorePreserved
  <1>3. PlainTypes' /\ ListTypes'
    BY <1>1, PlainTypesPreserved, ListTypesPreserved
  <1>4. TypeOK'
    BY <1>2, <1>3 DEF StoreInv, TypeOK, PlainTypes, ListTypes
  <1>5. CallInv' /\ TransactionInv' /\ ProgressInv' /\ LeftInv' /\ ExportInv'
    BY <1>1, CallPreserved, TransactionPreserved, ProgressPreserved, LeftPreserved,
       ExportPreserved
  <1>6. QED
    BY <1>2, <1>4, <1>5 DEF ImportInv

(* The inductive invariant of an import and an export, which are sequences of
   query() calls between which another connection may change the file. *)
THEOREM ImportInvariant == Spec => []ImportInv
  BY ImportInitially, ImportPreserved, PTL DEF Spec

(* Foreign keys are off during an import, in several transactions, and what
   it leaves in the file has no orphan: FileIsNotOrphaned, and the types. *)
THEOREM NoOrphanIsLeft == Spec => []FileIsNotOrphaned
  <1>1. ImportInv => FileIsNotOrphaned
    BY DEF ImportInv, StoreInv, FileIsNotOrphaned
  <1>2. QED
    BY <1>1, ImportInvariant, PTL

(* An import returns with its last END, or false at a row. *)
LEMMA ReturnsAre ==
  ASSUME [Next]_vars, Imports, pc' = "idle"
  PROVE  \/ EndImport /\ returned' = "true" /\ pc = "end"
         \/ EndAfterRow /\ returned' = "false" /\ pc = "end_row"
         \/ RowIsNoDictionary /\ returned' = "false" /\ pc = "rows"
  <1> USE DEF Goto
  <1>1. CASE UNCHANGED vars \/ OthersCommit \/ Calls \/ Export
    BY <1>1 DEF vars, OthersCommit, Calls, open_db, import_refused, import_from_buffer,
       export_to_buffer, CallerBegins, CallerEnds, Export, ListObjects, ListShadows, ExportTable,
       ExportOther, ExportReturns, Imports, remove_shadow_tables
  <1>2. CASE \/ FindViews \/ DropView \/ FindTables \/ RemoveShadowTables \/ DropTable
             \/ LoopIsOver \/ Begin \/ DeferForeignKeys
    BY <1>2 DEF FindViews, DropView, FindTables, RemoveShadowTables, remove_shadow_tables,
       DropTable, LoopIsOver, Begin, DeferForeignKeys, Imports
  <1>3. CASE \/ CreateObjects \/ EndAfterCreate \/ ObjectsAreCreated \/ NextObject
             \/ RowIsUnbindable \/ insert_row \/ RowsAreInserted
    BY <1>3 DEF CreateObjects, EndAfterCreate, ObjectsAreCreated, NextObject, RowIsUnbindable,
       insert_row, RowsAreInserted
  <1>4. CASE RowIsNoDictionary \/ EndAfterRow \/ EndImport
    BY <1>4 DEF RowIsNoDictionary, EndAfterRow, EndImport, Return
  <1>5. QED
    BY <1>1, <1>2, <1>3, <1>4 DEF Next, Import

(* When an import returns true with no error in error_message, and no END was
   refused, the file holds what the archive does. *)
THEOREM CleanImportsAreComplete == Spec => CleanImportIsComplete
  <1>1. ASSUME ImportInv, [Next]_vars, ImportReturns("true"), error_message' = "ok", ~refused
        PROVE  \A o \in Names(archive) : Holds(file', archive, o)
    <2>1. EndImport /\ pc = "end"
      BY <1>1, ReturnsAre DEF ImportReturns
    <2>2. END_TRANSACTION("ok")
      BY <1>1, <2>1 DEF EndImport, Code
    <2>3. file' = work /\ tx # "none"
      BY <2>2 DEF END_TRANSACTION, EndRefused, Commit
    <2>4. ~broken
      BY <1>1, <2>1, <2>3 DEF ImportInv, TransactionInv, Filling
    <2>5. HasDone(work, archive, Len(archive) + 1, j)
      BY <1>1, <2>1, <2>3, <2>4 DEF ImportInv, ProgressInv, CallInv
    <2>6. archive \in Seq(Elements)
      BY <1>1 DEF ImportInv, TypeOK
    <2>7. \A o : /\ DoneRows(archive, Len(archive) + 1, j, o) = ArchiveRows(archive, o)
                 /\ DoneFired(archive, Len(archive) + 1, j, o) = Fired(archive, o)
      BY <2>6, AllIsDone
    <2>8. QED
      BY <2>3, <2>5, <2>7 DEF HasDone, Holds
  <1>2. ImportInv /\ [Next]_vars
          => [ImportReturns("true") /\ error_message' = "ok" /\ ~refused
                => \A o \in Names(archive) : Holds(file', archive, o)]_vars
    BY <1>1
  <1>3. QED
    BY <1>2, ImportInvariant, PTL DEF Spec, CleanImportIsComplete

(* What an import writes between its BEGIN and its END does not reach the file,
   unless an object's SQL failed. *)
THEOREM RowsDoAppearTogether == Spec => RowsAppearTogether
  <1>1. ASSUME ImportInv, [Next]_vars, file' # file, pc \in {"create", "rows"}, ~broken
        PROVE  OthersCommit
    <2> USE DEF Goto
    <2>1. tx # "none"
      BY <1>1 DEF ImportInv, TransactionInv
    <2>2. ASSUME NEW fails \in BOOLEAN, NEW refuses \in BOOLEAN, NEW new,
                 Statement(fails, refuses, new)
          PROVE  file' = file
      BY <2>1, <2>2, StatementIs DEF Failed, RolledBack, Done, Write
    <2>3. ~CreateObjects
      <3>1. CreateFails(work, archive[i]) \in BOOLEAN
        BY DEF CreateFails
      <3>2. QED
        BY <1>1, <2>2, <3>1 DEF CreateObjects
    <2>4. ~insert_row
      <3>1. /\ InsertFails(work, archive[i].name) \in BOOLEAN
            /\ InsertRefused(work, archive[i].name, Row) \in BOOLEAN
        BY DEF InsertFails, InsertRefused
      <3>2. QED
        BY <1>1, <2>2, <3>1 DEF insert_row
    <2>5. CASE Calls \/ Export \/ UNCHANGED vars
      BY <1>1, <2>5 DEF Calls, open_db, import_refused, import_from_buffer, export_to_buffer,
         CallerBegins, CallerEnds, Export, ListObjects, ListShadows, remove_shadow_tables,
         ExportTable, ExportOther, ExportReturns, vars, store
    <2>6. CASE \/ FindViews \/ DropView \/ FindTables \/ RemoveShadowTables \/ DropTable
               \/ LoopIsOver \/ Begin \/ DeferForeignKeys \/ EndAfterCreate \/ EndAfterRow
               \/ EndImport
      BY <1>1, <2>6 DEF FindViews, DropView, FindTables, RemoveShadowTables, DropTable, LoopIsOver,
         Begin, DeferForeignKeys, EndAfterCreate, EndAfterRow, EndImport
    <2>7. CASE \/ ObjectsAreCreated \/ NextObject \/ RowIsNoDictionary \/ RowIsUnbindable
               \/ RowsAreInserted
      BY <1>1, <2>7 DEF ObjectsAreCreated, NextObject, RowIsNoDictionary, RowIsUnbindable,
         RowsAreInserted, Fail, store
    <2>8. QED
      BY <1>1, <2>3, <2>4, <2>5, <2>6, <2>7 DEF Next, Import
  <1>2. ImportInv /\ [Next]_vars
          => [file' # file /\ pc \in {"create", "rows"} => broken \/ OthersCommit]_vars
    BY <1>1
  <1>3. QED
    BY <1>2, ImportInvariant, PTL DEF Spec, RowsAppearTogether

(* An import that stops at a row has committed what came before the row. *)
THEOREM StoppedImportsAreCommitted == Spec => StoppedImportIsCommitted
  <1>1. ASSUME ImportInv, [Next]_vars, pc = "end_row", ImportReturns("false"), ~broken,
               file' # file, NEW k \in DOMAIN archive
        PROVE  LET row_array == archive[k].rows
                   inserted  == IF k < i THEN RowKeys(archive[k])
                                ELSE IF k > i THEN {}
                                ELSE {row_array[n] : n \in 1 .. j - 1}
               IN  archive[k].name \in DOMAIN file' /\ inserted \subseteq file'[archive[k].name]
    <2> DEFINE name     == archive[k].name
               inserted == IF k < i THEN RowKeys(archive[k])
                           ELSE IF k > i THEN {}
                           ELSE {archive[k].rows[n] : n \in 1 .. j - 1}
    <2>1. EndAfterRow
      BY <1>1, ReturnsAre DEF ImportReturns
    <2>2. PICK code : END_TRANSACTION(code)
      BY <2>1 DEF EndAfterRow
    <2>3. file' = work /\ tx # "none"
      BY <1>1, <2>2 DEF END_TRANSACTION, EndRefused, Commit, store
    <2>4. HasDone(work, archive, i, j)
      BY <1>1, <2>3 DEF ImportInv, ProgressInv
    <2>5. name \in DOMAIN work /\ DoneRows(archive, i, j, name) \subseteq work[name]
      BY <2>4 DEF HasDone, Names
    <2>6. DoneOf(archive, i, j, k) \subseteq DoneRows(archive, i, j, name)
      BY DEF DoneRows
    <2>7. inserted \subseteq DoneOf(archive, i, j, k)
      <3>1. /\ archive \in Seq(Elements) /\ i \in Nat /\ k \in Nat /\ j \in Nat
            /\ i \in DOMAIN archive /\ archive[i].type = "table" /\ j \in DOMAIN archive[i].rows
        BY <1>1 DEF ImportInv, TypeOK, CallInv, HasRow
      <3>2. CASE k < i
        BY <3>2 DEF DoneOf
      <3>3. CASE k > i
        BY <3>1, <3>3
      <3>4. CASE k = i
        <4>1. archive[i].rows \in Seq(Keys \union {NotDictionary, Unbindable})
          BY <3>1, ElementIs
        <4>2. ~(k < i) /\ \A n \in 1 .. j - 1 : n \in DOMAIN archive[i].rows /\ n < j
          BY <3>1, <3>4, <4>1
        <4>3. ~(k > i)
          BY <3>1, <3>4
        <4>4. QED
          BY <3>1, <3>4, <4>2, <4>3 DEF DoneOf
      <3>5. QED
        BY <3>1, <3>2, <3>3, <3>4
    <2> HIDE DEF inserted
    <2>8. name \in DOMAIN file' /\ inserted \subseteq file'[name]
      BY <2>3, <2>5, <2>6, <2>7
    <2>9. QED
      BY <2>8 DEF inserted
  <1>2. ImportInv /\ [Next]_vars
          => [pc = "end_row" /\ ImportReturns("false") /\ ~broken /\ file' # file
                => \A k \in DOMAIN archive :
                     LET row_array == archive[k].rows
                         inserted  == IF k < i THEN RowKeys(archive[k])
                                      ELSE IF k > i THEN {}
                                      ELSE {row_array[n] : n \in 1 .. j - 1}
                     IN  archive[k].name \in DOMAIN file'
                         /\ inserted \subseteq file'[archive[k].name]]_vars
    BY <1>1
  <1>3. QED
    BY <1>2, ImportInvariant, PTL DEF Spec, StoppedImportIsCommitted

(* A transaction that an import leaves open is one whose END was refused, or
   was not sent for a row that is no Dictionary. *)
THEOREM ImportsLeaveOpenOnlyIf == Spec => ImportLeavesOpenOnlyIf
  <1>1. ASSUME [Next]_vars, ImportReturns("true") \/ ImportReturns("false"), tx' # "none"
        PROVE  \/ pc = "rows" /\ Row = NotDictionary
               \/ pc # "rows" /\ (EndRefused("busy") \/ EndRefused("constraint"))
    <2>1. CASE EndImport \/ EndAfterRow
      <3>1. PICK code : END_TRANSACTION(code)
        BY <2>1 DEF EndImport, EndAfterRow
      <3>2. EndRefused(code) /\ code \in {"busy", "constraint"}
        BY <1>1, <3>1 DEF END_TRANSACTION, EndRefused, Commit, store
      <3>3. pc # "rows"
        BY <2>1 DEF EndImport, EndAfterRow
      <3>4. QED
        BY <3>2, <3>3
    <2>2. CASE RowIsNoDictionary
      BY <2>2 DEF RowIsNoDictionary
    <2>3. QED
      BY <1>1, <2>1, <2>2, ReturnsAre DEF ImportReturns
  <1>2. [Next]_vars
          => [(ImportReturns("true") \/ ImportReturns("false")) /\ tx' # "none"
                => \/ pc = "rows" /\ Row = NotDictionary
                   \/ pc # "rows" /\ (EndRefused("busy") \/ EndRefused("constraint"))]_vars
    BY <1>1
  <1>3. QED
    BY <1>2, PTL DEF Spec, ImportLeavesOpenOnlyIf

(* An export in a transaction that has a lock is of one state. *)
THEOREM ExportsInTransactionsAreSnapshots == Spec => ExportInTransactionIsSnapshot
  <1>1. ImportInv /\ [Next]_vars
          => [ExportReturns /\ tx \in {"shared", "reserved"} /\ archive # <<>>
                => Shows(archive, work, Exported(work))]_vars
    BY DEF ImportInv, ExportInv, ExportReturns, Locked, Shows, AllRead
  <1>2. QED
    BY <1>1, ImportInvariant, PTL DEF Spec, ExportInTransactionIsSnapshot

(* What an import leaves of the old tables, when nothing came in between, is
   what others refer to. *)
THEOREM TablesLeftDoHaveChildren == Spec => TablesLeftAreParents
  <1>1. ASSUME ImportInv, [Next]_vars, ImportReturns("true"), faults' = 0,
               NEW t \in Tables(work') \ (Names(archive) \union Hidden)
        PROVE  \/ \E child \in Objects : <<child, t>> \in References
               \/ \E o \in Names(archive) : t \in Shadows[o]
    <2>1. EndImport /\ pc = "end"
      BY <1>1, ReturnsAre DEF ImportReturns
    <2>2. PICK code : END_TRANSACTION(code)
      BY <2>1 DEF EndImport
    <2>3. PlainTypes
      BY <1>1, TypesAre DEF ImportInv
    <2>4. faults' = faults /\ work' = work
      BY <1>1, <2>2, <2>3, NothingBetween
         DEF END_TRANSACTION, EndRefused, Commit, store, NoFault, Fault, Between
    <2>5. QED
      BY <1>1, <2>1, <2>4 DEF ImportInv, LeftInv, IsParent, Filling
  <1>2. ImportInv /\ [Next]_vars
          => [ImportReturns("true") /\ faults' = 0
                => \A t \in Tables(work') \ (Names(archive) \union Hidden) :
                     \/ \E child \in Objects : <<child, t>> \in References
                     \/ \E o \in Names(archive) : t \in Shadows[o]]_vars
    BY <1>1
  <1>3. QED
    BY <1>2, ImportInvariant, PTL DEF Spec, TablesLeftAreParents

-----------------------------------------------------------------------------
(* JsonCodec: one value. *)

(* A value of a column that is encoded is no array, and comes back if it is a
   BLOB with bytes or NULL. *)
LEMMA EncodedComesBack ==
  ASSUME NEW v \in Stored, NEW kind \in Affinities
  PROVE  /\ Encode(v) \in {Base64, Absent}
         /\ Store(Bind(Decode(Encode(v))), kind) \in {Bytes, Null}
         /\ Store(Bind(Decode(Encode(v))), kind) = v <=> v \in {Bytes, Null}
  BY DEF Encode, Decode, Bind, Store, Base64, Absent, Stored, Affinities, Null, Whole, BigInt,
         Rounded, Real, WholeReal, LongReal, Short, Text, Bytes, NoBytes, Listing

(* A BLOB elsewhere is written as an array or as a text. *)
LEMMA BlobIsLost ==
  ASSUME NEW v \in Blobs, NEW kind \in Affinities, NEW form \in Forms
  PROVE  /\ Stringify(v, form) \in {List, Listing}
         /\ Stringify(v, form) = List \/ Store(Bind(Parse(Stringify(v, form))), kind) # v
  BY DEF Stringify, Parse, Bind, Store, Blobs, Forms, List, Affinities, Whole, BigInt, Null,
         Rounded, WholeReal, LongReal, Short, Bytes, NoBytes, Listing

(* Any other value comes back but for the numbers that JSON changes. *)
LEMMA WrittenComesBack ==
  ASSUME NEW v \in Stored \ Blobs, NEW kind \in Affinities, NEW form \in Forms,
         kind = "integer" => v # WholeReal
  PROVE  /\ Stringify(v, form) \in Stored
         /\ Stringify(v, form) # List
         /\ Store(Bind(Parse(Stringify(v, form))), kind) = v
              <=> v \notin {BigInt, LongReal} /\ (kind = "none" => v # Whole)
  BY DEF Stringify, Parse, Bind, Store, Blobs, Stored, List, Affinities, Null, Whole, BigInt,
         Rounded, Real, WholeReal, LongReal, Short, Text, Bytes, NoBytes, Listing

(* What is stored is a value again, and no whole real in a column of integers. *)
LEMMA StoredAgain ==
  ASSUME NEW cell \in Stored \union {Base64, Absent}, NEW base64 \in BOOLEAN,
         ~base64 => cell \in Stored, NEW kind \in Affinities
  PROVE  LET v == Store(Bind(IF base64 THEN Decode(cell) ELSE Parse(cell)), kind)
         IN  v \in Stored /\ (kind = "integer" => v # WholeReal)
  BY DEF Decode, Parse, Bind, Store, Stored, Base64, Absent, Affinities, Null, Whole, BigInt,
         Rounded, Real, WholeReal, LongReal, Short, Text, Bytes, NoBytes, Listing

-----------------------------------------------------------------------------
(* The column. *)

(* What the column of a table holds. *)
IsColumn(values) ==
  values \in Seq(Stored) /\ (affinity = "integer" => WholeReal \notin Range(values))

(* An archive has the column as it was exported, and the table what came back. *)
ColumnInv ==
  /\ affinity \in Affinities
  /\ at \in {"table", "archive", "imported"}
  /\ IsColumn(column) /\ IsColumn(exported_column)
  /\ \/ at = "table" /\ cells = <<>>
     \/ at # "table" /\ \E form \in Forms : cells = ExportColumn(exported_column, form)
  /\ at = "archive" => column = exported_column
  /\ at = "imported" =>
       column = ImportColumn(cells, IsBase64Column(exported_column), affinity)

(* An exported column has a cell for each value. *)
LEMMA ExportedCells ==
  ASSUME NEW values \in Seq(Stored), NEW form \in Forms
  PROVE  /\ ExportColumn(values, form) \in Seq(Stored \union {Base64, Absent, List})
         /\ DOMAIN ExportColumn(values, form) = DOMAIN values
         /\ \A k \in DOMAIN values :
              ExportColumn(values, form)[k] =
                IF IsBase64Column(values) THEN Encode(values[k]) ELSE Stringify(values[k], form)
  <1>1. ASSUME NEW k \in DOMAIN values
        PROVE  (IF IsBase64Column(values) THEN Encode(values[k]) ELSE Stringify(values[k], form))
                 \in Stored \union {Base64, Absent, List}
    <2>1. values[k] \in Stored
      BY <1>1
    <2>2. Encode(values[k]) \in {Base64, Absent}
      BY DEF Encode
    <2>3. Stringify(values[k], form) \in Stored \union {List}
      BY <2>1 DEF Stringify, Forms, Stored
    <2>4. QED
      BY <2>2, <2>3
  <1>2. ExportColumn(values, form) \in [1 .. Len(values) -> Stored \union {Base64, Absent, List}]
    BY <1>1 DEF ExportColumn
  <1>3. QED
    BY <1>2 DEF ExportColumn

(* The import stops at the first array: it makes the rows before it. *)
LEMMA InsertedIsPrefix ==
  ASSUME NEW json \in Seq(Stored \union {Base64, Absent, List})
  PROVE  \E n \in 0 .. Len(json) :
           {k \in DOMAIN json : \A m \in Arrays(json) : k < m} = 1 .. n
  <1>1. Arrays(json) \subseteq Nat /\ Len(json) \in Nat /\ DOMAIN json = 1 .. Len(json)
    BY DEF Arrays
  <1>2. CASE Arrays(json) = {}
    BY <1>1, <1>2
  <1>3. CASE Arrays(json) # {}
    <2>1. PICK m \in Arrays(json) : \A n \in Arrays(json) : ~(<<n, m>> \in OpToRel(<, Nat))
      BY <1>1, <1>3, WFMin, NatLessThanWellFounded
    <2>2. \A n \in Arrays(json) : m <= n
      <3>1. ASSUME NEW n \in Arrays(json)
            PROVE  m <= n
        <4>1. n \in Nat /\ m \in Nat
          BY <1>1
        <4>2. ~(n < m)
          BY <2>1, <4>1 DEF OpToRel
        <4>3. QED
          BY <4>1, <4>2
      <3>2. QED
        BY <3>1
    <2>3. m \in 1 .. Len(json)
      BY <1>1 DEF Arrays
    <2>4. {k \in DOMAIN json : \A n \in Arrays(json) : k < n} = 1 .. m - 1
      BY <1>1, <2>2, <2>3
    <2>5. QED
      BY <1>1, <2>3, <2>4
  <1>4. QED
    BY <1>2, <1>3

(* What comes back is a column of values, no longer than what was exported, and
   as long if no cell is an array. *)
LEMMA ImportedColumn ==
  ASSUME NEW values \in Seq(Stored), NEW form \in Forms, NEW kind \in Affinities,
         NEW base64 \in BOOLEAN, base64 = IsBase64Column(values)
  PROVE  LET json == ExportColumn(values, form)
             back == ImportColumn(json, base64, kind)
         IN  /\ back \in Seq(Stored) /\ Len(back) <= Len(values)
             /\ kind = "integer" => WholeReal \notin Range(back)
             /\ Succeeds(json) => DOMAIN back = DOMAIN values
             /\ \A k \in DOMAIN back :
                  back[k] = Store(Bind(IF base64 THEN Decode(json[k]) ELSE Parse(json[k])), kind)
  <1> DEFINE json == ExportColumn(values, form)
             back == ImportColumn(json, base64, kind)
             inserted == {k \in DOMAIN json : \A m \in Arrays(json) : k < m}
  <1>1. /\ json \in Seq(Stored \union {Base64, Absent, List})
        /\ DOMAIN json = DOMAIN values /\ Len(json) = Len(values)
        /\ \A k \in DOMAIN values :
             json[k] = IF base64 THEN Encode(values[k]) ELSE Stringify(values[k], form)
    BY ExportedCells
  <1>2. PICK n \in 0 .. Len(json) : inserted = 1 .. n
    BY <1>1, InsertedIsPrefix
  <1>3. /\ DOMAIN back = 1 .. n
        /\ \A k \in 1 .. n :
             back[k] = Store(Bind(IF base64 THEN Decode(json[k]) ELSE Parse(json[k])), kind)
    BY <1>2 DEF ImportColumn
  <1>4. ASSUME NEW k \in 1 .. n
        PROVE  back[k] \in Stored /\ (kind = "integer" => back[k] # WholeReal)
    <2>1. k \in DOMAIN values /\ values[k] \in Stored /\ json[k] # List
      <3>1. k \in DOMAIN json /\ k \in inserted /\ k \in Nat
        BY <1>1, <1>2
      <3>2. k \notin Arrays(json)
        BY <3>1
      <3>3. QED
        BY <1>1, <3>1, <3>2 DEF Arrays
    <2>2. json[k] \in Stored \union {Base64, Absent} /\ (~base64 => json[k] \in Stored)
      <3>1. base64 => json[k] \in {Base64, Absent}
        BY <1>1, <2>1 DEF Encode
      <3>2. ~base64 => json[k] \in Stored \union {List}
        BY <1>1, <2>1 DEF Stringify, Forms, Stored
      <3>3. QED
        BY <2>1, <3>1, <3>2
    <2>3. QED
      BY <1>3, <2>2, StoredAgain
  <1>5. back \in [1 .. n -> Stored]
    <2>1. back = [k \in 1 .. n |-> back[k]]
      BY <1>2 DEF ImportColumn
    <2>2. QED
      BY <1>4, <2>1
  <1>6. back \in Seq(Stored) /\ Len(back) = n /\ n <= Len(values)
    BY <1>1, <1>2, <1>5
  <1>7. kind = "integer" => WholeReal \notin Range(back)
    BY <1>3, <1>4 DEF Range
  <1>8. Succeeds(json) => DOMAIN back = DOMAIN values
    BY <1>1, <1>2, <1>3 DEF Succeeds
  <1>9. QED
    BY <1>3, <1>6, <1>7, <1>8

(* A column begins as one of values, and is not exported yet. *)
LEMMA ColumnInitially == ColumnInit => ColumnInv
  <1> SUFFICES ASSUME ColumnInit PROVE ColumnInv
    OBVIOUS
  <1>1. PICK m \in 0 .. MaxRows : column \in [1 .. m -> {Store(v, affinity) : v \in Values}]
    BY DEF ColumnInit, Columns, BoundedSeq, SeqOf
  <1>2. ASSUME NEW v \in Values
        PROVE  Store(v, affinity) \in Stored
               /\ (affinity = "integer" => Store(v, affinity) # WholeReal)
    BY ValuesAssumption DEF Store, Stored, WholeReal, Whole
  <1>3. m \in Nat
    BY MaxRowsAssumption
  <1>4. column \in [1 .. m -> Stored]
    BY <1>1, <1>2
  <1>5. \A k \in 1 .. m : affinity = "integer" => column[k] # WholeReal
    BY <1>1, <1>2
  <1>6. IsColumn(column)
    BY <1>3, <1>4, <1>5 DEF IsColumn, Range
  <1>7. IsColumn(exported_column)
    BY DEF ColumnInit, IsColumn, Range
  <1>8. QED
    BY <1>6, <1>7 DEF ColumnInit, ColumnInv

(* Each trip, and each half of one, preserves the invariant. *)
LEMMA ColumnPreserved == ColumnInv /\ [ColumnNext]_columnVars => ColumnInv'
  <1> SUFFICES ASSUME ColumnInv, [ColumnNext]_columnVars PROVE ColumnInv'
    OBVIOUS
  <1>1. CASE ColumnExported
    <2>1. IsColumn(column)' /\ IsColumn(exported_column)' /\ (affinity \in Affinities)'
      BY <1>1 DEF ColumnInv, ColumnExported, IsColumn
    <2>2. QED
      BY <1>1, <2>1 DEF ColumnInv, ColumnExported
  <1>2. CASE ColumnImported
    <2> DEFINE base64 == IsBase64Column(exported_column)
    <2>1. PICK form \in Forms : cells = ExportColumn(exported_column, form)
      BY <1>2 DEF ColumnInv, ColumnImported
    <2>2. base64 \in BOOLEAN /\ exported_column \in Seq(Stored) /\ affinity \in Affinities
      BY DEF ColumnInv, IsColumn, IsBase64Column
    <2>3. /\ ImportColumn(cells, base64, affinity) \in Seq(Stored)
          /\ affinity = "integer" => WholeReal \notin Range(ImportColumn(cells, base64, affinity))
      BY <2>1, <2>2, ImportedColumn
    <2>4. IsColumn(column)' /\ IsColumn(exported_column)'
      BY <1>2, <2>3 DEF ColumnInv, ColumnImported, IsColumn
    <2>5. QED
      BY <1>2, <2>1, <2>4 DEF ColumnInv, ColumnImported
  <1>3. CASE UNCHANGED columnVars
    BY <1>3 DEF columnVars, ColumnInv, IsColumn
  <1>4. QED
    BY <1>1, <1>2, <1>3 DEF ColumnNext

(* A value of a column that no step of the trip changes. *)
PlainValue(v) ==
  IF IsBase64Column(exported_column) THEN v \in {Bytes, Null}
  ELSE v \notin Blobs \union {BigInt, LongReal} /\ (affinity = "none" => v # Whole)

(* A column is plain if its values are. *)
LEMMA PlainIsOfValues ==
  ASSUME exported_column \in Seq(Stored), affinity \in Affinities
  PROVE  Plain <=> \A k \in DOMAIN exported_column : PlainValue(exported_column[k])
  <1>1. CASE exported_column = <<>>
    BY <1>1 DEF Plain, Range
  <1>2. CASE exported_column # <<>> /\ Head(exported_column) \in Blobs
    <2>1. Plain <=> /\ Range(exported_column) \subseteq {Bytes, Null}
                    /\ affinity = "none" => Whole \notin Range(exported_column)
      BY <1>2 DEF Plain
    <2>2. \A v : PlainValue(v) <=> v \in {Bytes, Null}
      BY <1>2 DEF PlainValue, IsBase64Column
    <2>3. Whole \notin {Bytes, Null}
      BY DEF Whole, Bytes, Null
    <2>4. QED
      BY <2>1, <2>2, <2>3 DEF Range
  <1>3. CASE exported_column # <<>> /\ Head(exported_column) \notin Blobs
    <2>1. Plain <=> /\ Range(exported_column) \intersect (Blobs \union {BigInt, LongReal}) = {}
                    /\ affinity = "none" => Whole \notin Range(exported_column)
      BY <1>3 DEF Plain
    <2>2. \A v : PlainValue(v) <=> (v \notin Blobs \union {BigInt, LongReal}
                                     /\ (affinity = "none" => v # Whole))
      BY <1>3 DEF PlainValue, IsBase64Column
    <2>3. QED
      BY <2>1, <2>2 DEF Range
  <1>4. QED
    BY <1>1, <1>2, <1>3

(* What comes back is what went, if and only if that is plain. *)
LEMMA PlainAndOnlyPlain ==
  ASSUME ColumnInv, at = "imported"
  PROVE  Plain <=> Succeeds(cells) /\ column = exported_column
  <1> DEFINE base64 == IsBase64Column(exported_column)
  <1>1. PICK form \in Forms : cells = ExportColumn(exported_column, form)
    BY DEF ColumnInv
  <1>2. /\ base64 \in BOOLEAN /\ affinity \in Affinities
        /\ exported_column \in Seq(Stored) /\ column \in Seq(Stored)
        /\ affinity = "integer" => WholeReal \notin Range(exported_column)
    BY DEF ColumnInv, IsColumn, IsBase64Column
  <1>3. /\ Succeeds(cells) => DOMAIN column = DOMAIN exported_column
        /\ \A k \in DOMAIN column :
             column[k] = Store(Bind(IF base64 THEN Decode(cells[k]) ELSE Parse(cells[k])), affinity)
    BY <1>1, <1>2, ImportedColumn DEF ColumnInv
  <1>4. /\ DOMAIN cells = DOMAIN exported_column
        /\ \A k \in DOMAIN exported_column :
             cells[k] = IF base64 THEN Encode(exported_column[k])
                        ELSE Stringify(exported_column[k], form)
    BY <1>1, <1>2, ExportedCells
  <1>5. ASSUME NEW k \in DOMAIN exported_column
        PROVE  PlainValue(exported_column[k])
                 <=> /\ cells[k] # List
                     /\ exported_column[k] =
                          Store(Bind(IF base64 THEN Decode(cells[k]) ELSE Parse(cells[k])), affinity)
    <2>1. exported_column[k] \in Stored /\ (affinity = "integer" => exported_column[k] # WholeReal)
      BY <1>2 DEF Range
    <2>2. CASE base64
      <3>1. cells[k] = Encode(exported_column[k]) /\ cells[k] # List
        BY <1>2, <1>4, <2>1, <2>2, EncodedComesBack DEF List, Base64, Absent
      <3>2. QED
        BY <1>2, <2>1, <2>2, <3>1, EncodedComesBack DEF PlainValue
    <2>3. CASE ~base64 /\ exported_column[k] \in Blobs
      BY <1>2, <1>4, <2>3, BlobIsLost DEF PlainValue
    <2>4. CASE ~base64 /\ exported_column[k] \notin Blobs
      BY <1>2, <1>4, <2>1, <2>4, WrittenComesBack DEF PlainValue
    <2>5. QED
      BY <1>2, <2>2, <2>3, <2>4
  <1>6. Succeeds(cells) <=> \A k \in DOMAIN exported_column : cells[k] # List
    BY <1>4 DEF Succeeds, Arrays
  <1>7. ASSUME DOMAIN column = DOMAIN exported_column
        PROVE  column = exported_column
                 <=> \A k \in DOMAIN exported_column : column[k] = exported_column[k]
    <2>1. column = [k \in DOMAIN column |-> column[k]]
          /\ exported_column = [k \in DOMAIN exported_column |-> exported_column[k]]
      BY <1>2
    <2>2. QED
      BY <1>7, <2>1
  <1>8. ASSUME Succeeds(cells)
        PROVE  column = exported_column
                 <=> \A k \in DOMAIN exported_column : column[k] = exported_column[k]
    BY <1>3, <1>7, <1>8
  <1>9. QED
    BY <1>2, <1>3, <1>5, <1>6, <1>8, PlainIsOfValues

(* The invariant of a column on its trips. *)
THEOREM ColumnInvariant == ColumnSpec => []ColumnInv
  BY ColumnInitially, ColumnPreserved, PTL DEF ColumnSpec

(* A column comes back as it was if and only if it is plain. *)
THEOREM PlainColumnsComeBack == ColumnSpec => []PlainComesBack
  <1>1. ColumnInv => PlainComesBack
    <2> SUFFICES ASSUME ColumnInv PROVE PlainComesBack
      OBVIOUS
    <2>1. cells \in Seq(Stored \union {Base64, Absent, List})
      <3>1. CASE cells = <<>>
        BY <3>1
      <3>2. CASE \E form \in Forms : cells = ExportColumn(exported_column, form)
        <4>1. exported_column \in Seq(Stored)
          BY DEF ColumnInv, IsColumn
        <4>2. QED
          BY <3>2, <4>1, ExportedCells
      <3>3. QED
        BY <3>1, <3>2 DEF ColumnInv
    <2>2. Len(column) <= Len(exported_column) \/ at = "table"
      <3>1. CASE at = "archive"
        BY <3>1 DEF ColumnInv, IsColumn
      <3>2. CASE at = "imported"
        <4>1. PICK form \in Forms : cells = ExportColumn(exported_column, form)
          BY <3>2 DEF ColumnInv
        <4>2. IsBase64Column(exported_column) \in BOOLEAN
          BY DEF IsBase64Column
        <4>3. QED
          BY <3>2, <4>1, <4>2, ImportedColumn DEF ColumnInv, IsColumn
      <3>3. QED
        BY <3>1, <3>2 DEF ColumnInv
    <2>3. ColumnTypeOK
      BY <2>1, <2>2 DEF ColumnTypeOK, ColumnInv, IsColumn
    <2>4. QED
      BY <2>3, PlainAndOnlyPlain DEF PlainComesBack
  <1>2. QED
    BY <1>1, ColumnInvariant, PTL
=============================================================================
