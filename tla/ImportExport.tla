---------------------------- MODULE ImportExport ----------------------------
(***************************************************************************)
(* export_to_buffer() and import_from_buffer() of one object: each is a    *)
(* sequence of query() calls whose results are mostly not looked at, the   *)
(* import with its BEGIN in the middle.  A query() is one step here (its   *)
(* own steps are Engine's); between two of them another connection may     *)
(* change the file, when the lock of this one lets it.                     *)
(*                                                                         *)
(* The content of a database is a function from the names of its objects   *)
(* to their rows, known by their keys; an index, a view and a trigger have *)
(* none.  How a row's values survive the trip is the matter of JsonCodec.  *)
(***************************************************************************)
EXTENDS FiniteSets, Sequences, SequencesExt

CONSTANTS
  Kind,         \* Kind[o]: "table", "index", "view" or "trigger"
  On,           \* On[o]: the table or view of an index or of a trigger
  Shadows,      \* Shadows[o]: the shadow tables of a virtual table
  References,   \* <<child, parent>>: a row refers to the row with its key
  Fires,        \* Fires[g]: the table a trigger g on INSERT copies a row to
  Hidden,       \* the tables whose name is LIKE 'sqlite_%'
  Awkward,      \* the views whose name is no identifier unless quoted
  Keys,         \* the keys of rows
  ForeignKeys,  \* PRAGMA foreign_keys
  Faults,       \* what may come in between: "busy", "ioerr", or a "commit"
                \* of another connection
  MaxFaults,    \* how often, in all (a bound)
  Contents,     \* what the file may hold when nothing has happened yet, and
                \* what another connection may commit
  Archives      \* the archives that are imported

Objects == DOMAIN Kind

(* Elements of a row_array that are no row. *)
NotDictionary == "not a dictionary"
Unbindable    == "a value that no parameter takes"

(* What another object, or a person, may have written.  The SQL of an element
   makes the object of its name, or is malformed. *)
Elements == [name : Objects, type : {"table", "index", "view", "trigger", "?"},
             valid : BOOLEAN, rows : Seq(Keys \union {NotDictionary, Unbindable})]

ASSUME ArchivesAssumption == Archives \subseteq Seq(Elements)
ASSUME FaultsAssumption == Faults \subseteq {"busy", "ioerr", "commit"} /\ MaxFaults \in Nat
ASSUME KeysAssumption == {NotDictionary, Unbindable} \intersect Keys = {}
ASSUME ForeignKeysAssumption == ForeignKeys \in BOOLEAN

(* A trigger copies a row once: there is none on a table a trigger fills. *)
ASSUME ObjectsAssumption ==
  /\ Kind \in [Objects -> {"table", "index", "view", "trigger"}]
  /\ On \in [Objects -> Objects]
  /\ \A o \in Objects : Kind[o] \in {"index", "trigger"} => Kind[On[o]] \in {"table", "view"}
  /\ \A g \in {g \in Objects : Kind[g] = "trigger"} :
       /\ Fires[g] \in Objects /\ Kind[Fires[g]] = "table"
       /\ \A h \in Objects : Kind[h] = "trigger" => On[h] # Fires[g]
  /\ Hidden \subseteq Objects /\ Awkward \subseteq Objects

(* The shadow tables of a virtual table are ordinary ones, and a foreign key
   is between tables that are neither. *)
ASSUME ShadowsAssumption ==
  /\ Shadows \in [Objects -> SUBSET Objects]
  /\ \A o \in Objects : Shadows[o] # {} =>
       /\ Kind[o] = "table" /\ o \notin Hidden
       /\ \A s \in Shadows[o] : Kind[s] = "table" /\ Shadows[s] = {}
  /\ References \subseteq {o \in Objects : Kind[o] = "table"} \X {o \in Objects : Kind[o] = "table"}
  /\ \A child, parent, o \in Objects : <<child, parent>> \in References =>
       /\ Shadows[child] = {} /\ Shadows[parent] = {}
       /\ child \notin Shadows[o] /\ parent \notin Shadows[o]

VARIABLES fts5,           \* compiled with SQLITE_ENABLE_FTS5?
          file,           \* the content of the file
          work,           \* the content as this connection sees it
          tx,             \* its transaction: none, or open with its lock
          deferred,       \* PRAGMA defer_foreign_keys
          db,             \* is the object's sqlite3* not null?
          pc,             \* the query() that comes next
          todo,           \* the names in old_view_array, ... still to be gone
                          \* through
          archive,        \* objects_to_import, or the export as far as it is
          i, j,           \* the counters of the loops, from 1
          error_message,  \* as a result code
          returned,       \* what the last call returned
          exported,       \* the last export
          own,            \* did this import's BEGIN succeed?        (history)
          broken,         \* did an object's SQL fail?               (history)
          refused,        \* was an END refused?                     (history)
          faults          \* how often something has come in between

store   == <<file, work, tx, deferred, faults>>
history == <<own, broken, refused>>
vars    == <<fts5, store, db, pc, todo, archive, i, j, error_message, returned,
             exported, history>>

Transactions == {"none", "open", "shared", "reserved"}
Codes        == {"", "ok", "error", "constraint", "busy", "ioerr", "misuse"}
Labels       == {"idle", "views", "drop_views", "tables", "shadows",
                 "drop_tables", "begin", "defer", "create", "end_create",
                 "rows", "end_row", "end", "list", "list_shadows", "export"}

IsContent(c) ==
  DOMAIN c \subseteq Objects /\ \A o \in DOMAIN c : c[o] \subseteq Keys /\ IsFiniteSet(c[o])

TypeOK ==
  /\ fts5 \in BOOLEAN
  /\ IsContent(file) /\ IsContent(work)
  /\ tx \in Transactions
  /\ deferred \in BOOLEAN /\ db \in BOOLEAN
  /\ pc \in Labels
  /\ todo \subseteq Objects
  /\ archive \in Seq(Elements) /\ exported \in Seq(Elements)
  /\ i \in 0 .. Len(archive) + 1 /\ j \in Nat
  /\ error_message \in Codes
  /\ returned \in {"none", "true", "false"}
  /\ own \in BOOLEAN /\ broken \in BOOLEAN /\ refused \in BOOLEAN
  /\ faults \in 0 .. MaxFaults

-----------------------------------------------------------------------------
(* The content of a database. *)

Table(o)         == Kind[o] = "table"
Tables(c)        == {o \in DOMAIN c : Table(o)}
RowsOf(c, t)     == IF t \in DOMAIN c THEN c[t] ELSE {}
Triggers(c, t)   == {g \in DOMAIN c : Kind[g] = "trigger" /\ On[g] = t}
Without(c, gone) == [o \in DOMAIN c \ gone |-> c[o]]

(* Only tables have rows, and an index or a trigger has a table or a view. *)
IsSchema(c) ==
  /\ \A o \in DOMAIN c : ~Table(o) => c[o] = {}
  /\ \A o \in DOMAIN c : Kind[o] \in {"index", "trigger"} => On[o] \in DOMAIN c

ASSUME ContentsAssumption ==
  \A c \in Contents : IsContent(c) /\ IsSchema(c)

(* A row whose parent is missing. *)
Orphaned(c) ==
  /\ ForeignKeys
  /\ \E key \in References : ~(RowsOf(c, key[1]) \subseteq RowsOf(c, key[2]))

(* What may be in the file: virtual tables are made by FTS5 only. *)
Virtual(o)  == Shadows[o] # {}
Possible(c) == ~Orphaned(c) /\ (fts5 \/ ~\E o \in DOMAIN c : Virtual(o))

(* DROP TABLE takes the indexes and triggers of the table along, and a
   virtual table drops its shadow tables itself. *)
DropObject(c, o) ==
  LET gone == {o} \union Shadows[o]
  IN  Without(c, gone \union
                 {x \in DOMAIN c : Kind[x] \in {"index", "trigger"} /\ On[x] \in gone})

(* sqlite3FkDropTable(): the rows of the table are deleted first, and that
   is refused when a row refers to one of them and must not even for now. *)
DropRefused(c, o) ==
  /\ ForeignKeys /\ ~deferred
  /\ \E child \in Tables(c) \ {o} : <<child, o>> \in References /\ c[child] # {}

CreateObject(c, o) ==
  [x \in DOMAIN c \union {o} \union Shadows[o] |-> RowsOf(c, x)]

CreateFails(c, e) ==
  \/ ~e.valid \/ (Virtual(e.name) /\ ~fts5)
  \/ ({e.name} \union Shadows[e.name]) \intersect DOMAIN c # {}
  \/ Kind[e.name] \in {"index", "trigger"} /\ On[e.name] \notin DOMAIN c

(* The tables a row of t is put in: t and what the triggers on t write to. *)
Filled(c, t) == {t} \union {Fires[g] : g \in Triggers(c, t)}

InsertRow(c, t, r) ==
  [o \in DOMAIN c |-> IF o \in Filled(c, t) THEN c[o] \union {r} ELSE c[o]]

(* The INSERT, or a trigger's, or a foreign key of their tables names a table
   that is missing; then it is not even prepared. *)
InsertFails(c, t) ==
  \/ ~(Filled(c, t) \subseteq Tables(c))
  \/ ForeignKeys /\ \E o \in Filled(c, t), p \in Objects \ DOMAIN c : <<o, p>> \in References

(* The key is there already, or the parent is not when the statement ends. *)
InsertRefused(c, t, r) ==
  \/ \E o \in Filled(c, t) : r \in c[o]
  \/ /\ ForeignKeys /\ ~deferred
     /\ \E o \in Filled(c, t), p \in DOMAIN c :
          <<o, p>> \in References /\ r \notin InsertRow(c, t, r)[p]

-----------------------------------------------------------------------------
(* What a query() may come to, without its effect on the object. *)

Code(code) == error_message' = code

Fault(kind) == kind \in Faults /\ faults < MaxFaults /\ faults' = faults + 1
NoFault     == UNCHANGED faults

(* Nothing has changed but, in a transaction, its lock. *)
Fail(code, lock) ==
  /\ Code(code)
  /\ tx' = lock
  /\ UNCHANGED <<file, work, deferred>>

(* sqlite3RollbackAll() *)
RollbackAll(code) ==
  /\ Code(code)
  /\ tx' = "none" /\ deferred' = FALSE
  /\ work' = file
  /\ UNCHANGED file

(* SELECT: without a lock it asks for SHARED, which another connection may
   stand in the way of.  A transaction keeps the lock. *)
ReadLock == IF tx = "open" THEN "shared" ELSE tx
Read     == db /\ Code("ok") /\ tx' = ReadLock /\ UNCHANGED <<file, work, deferred, faults>>
ReadFails ==
  \/ ~db /\ Fail("misuse", tx) /\ NoFault
  \/ db /\ tx \in {"none", "open"} /\ Fail("busy", tx) /\ Fault("busy")

(* A SELECT that fails after some rows leaves these in query_result; an I/O error
   rolls back although nothing was written. *)
ReadCutOff == db /\ RollbackAll("ioerr") /\ Fault("ioerr")

WriteLock == IF tx = "none" THEN "none" ELSE "reserved"
Write(new) ==
  /\ Code("ok")
  /\ tx' = WriteLock
  /\ work' = new
  /\ file' = IF tx = "none" THEN new ELSE file
  /\ UNCHANGED deferred

(* What may befall any write: another connection has the lock it needs, or
   the journal or the file cannot be written. *)
WriteFaults ==
  \/ tx # "reserved" /\ Fail("busy", tx) /\ Fault("busy")
  \/ RollbackAll("ioerr") /\ Fault("ioerr")

(* A statement that does not prepare, is refused a constraint, or becomes new. *)
Statement(fails, refuses, new) ==
  \/ fails /\ Fail("error", tx) /\ NoFault
  \/ ~fails /\ refuses /\ Fail("constraint", WriteLock) /\ NoFault
  \/ ~fails /\ ~refuses /\ Write(new) /\ NoFault
  \/ ~fails /\ WriteFaults

BEGIN_TRANSACTION ==
  NoFault /\ IF tx = "none" THEN Fail("ok", "open") ELSE Fail("error", tx)

Commit ==
  /\ file' = work
  /\ tx' = "none" /\ deferred' = FALSE
  /\ UNCHANGED work

(* END TRANSACTION, with the code it ends with. *)
EndRefused(code) ==
  /\ \/ code = "constraint" /\ Orphaned(work) /\ NoFault
     \/ code = "busy" /\ tx = "reserved" /\ ~Orphaned(work) /\ Fault(code)
  /\ tx # "none"
  /\ UNCHANGED <<file, work, tx, deferred>>

END_TRANSACTION(code) ==
  \/ EndRefused(code)
  \/ code = "error" /\ tx = "none" /\ UNCHANGED store
  \/ code = "ok" /\ tx # "none" /\ ~Orphaned(work) /\ Commit /\ NoFault
  \/ /\ code = "ioerr" /\ tx = "reserved" /\ ~Orphaned(work) /\ Fault(code)
     /\ work' = file /\ tx' = "none" /\ deferred' = FALSE
     /\ UNCHANGED file

-----------------------------------------------------------------------------
(* The object: a call begins, goes on and returns. *)

Goto(label) == pc' = label

Return(value) ==
  /\ pc' = "idle"
  /\ returned' = IF value THEN "true" ELSE "false"
  /\ todo' = {} /\ archive' = <<>> /\ i' = 0 /\ j' = 0
  /\ own' = FALSE /\ broken' = FALSE /\ refused' = FALSE
  /\ UNCHANGED <<fts5, db, exported>>

Init ==
  /\ fts5 \in BOOLEAN
  /\ file \in {c \in Contents : Possible(c)}
  /\ work = file
  /\ tx = "none" /\ deferred = FALSE
  /\ db = FALSE
  /\ pc = "idle"
  /\ todo = {} /\ archive = <<>> /\ exported = <<>>
  /\ i = 0 /\ j = 0
  /\ error_message = "" /\ returned = "none"
  /\ own = FALSE /\ broken = FALSE /\ refused = FALSE
  /\ faults = 0

(* The caller's own BEGIN, and END or ROLLBACK, and opening the object. *)
CallerBegins ==
  /\ pc = "idle" /\ db /\ tx = "none"
  /\ BEGIN_TRANSACTION
  /\ UNCHANGED <<fts5, db, pc, todo, archive, i, j, returned, exported, history>>

CallerEnds ==
  /\ pc = "idle" /\ tx # "none"
  /\ \/ ~Orphaned(work) /\ Commit /\ Code("ok")
     \/ RollbackAll("ok")
  /\ NoFault
  /\ UNCHANGED <<fts5, db, pc, todo, archive, i, j, returned, exported, history>>

open_db ==
  /\ pc = "idle" /\ ~db
  /\ db' = TRUE
  /\ UNCHANGED <<fts5, store, pc, todo, archive, i, j, error_message, returned,
                 exported, history>>

(* Mutant: a reader does not stand in the way of a commit. *)
OthersCommitUnderShared ==
  /\ Fault("commit")
  /\ tx \in {"none", "open", "shared"}
  /\ file' \in {c \in Contents : Possible(c)} \ {file}
  /\ work' = file'
  /\ UNCHANGED <<tx, deferred, fts5, db, pc, todo, archive, i, j, error_message,
                 returned, exported, history>>

(* Another connection commits; it cannot while this one has a lock. *)
OthersCommit ==
  /\ Fault("commit")
  /\ tx \in {"none", "open"}
  /\ file' \in {c \in Contents : Possible(c)} \ {file}
  /\ work' = file'
  /\ UNCHANGED <<tx, deferred, fts5, db, pc, todo, archive, i, j, error_message,
                 returned, exported, history>>

-----------------------------------------------------------------------------
(* import_from_buffer() *)

(* validate_json(): the elements up to the first one of an unknown type. *)
validate_json(a) == \A k \in DOMAIN a : a[k].type # "?"

import_refused ==
  /\ pc = "idle"
  /\ \E a \in Archives : ~validate_json(a)
  /\ returned' = "false"
  /\ UNCHANGED <<store, fts5, db, pc, todo, archive, i, j, error_message, exported,
                 history>>

(* An export is forgotten (a bound) when something else is imported. *)
import_from_buffer ==
  /\ pc = "idle"
  /\ archive' \in {a \in Archives \union {exported} : validate_json(a)}
  /\ db' = TRUE
  /\ Goto("views")
  /\ returned' = "none"
  /\ exported' = IF archive' = exported THEN exported ELSE <<>>
  /\ UNCHANGED <<fts5, store, todo, i, j, error_message, history>>

Locals == <<fts5, db, archive, i, j, returned, exported, history>>

(* SELECT name FROM sqlite_master WHERE type = ...: found, or what came before
   it failed, whose result is not looked at. *)
Find(found) ==
  \/ Read /\ todo' = found
  \/ ReadFails /\ todo' = {}
  \/ ReadCutOff /\ todo' \in SUBSET found

FindViews ==
  /\ pc = "views"
  /\ Find({o \in DOMAIN work : Kind[o] = "view"})
  /\ Goto("drop_views")
  /\ UNCHANGED Locals

(* DROP VIEW puts the name in as it is. *)
DropView ==
  /\ pc = "drop_views"
  /\ \E v \in todo :
       /\ Statement(v \in Awkward \/ v \notin DOMAIN work, FALSE, DropObject(work, v))
       /\ todo' = todo \ {v}
  /\ UNCHANGED <<pc, Locals>>

FindTables ==
  /\ pc = "tables"
  /\ Find(Tables(work) \ Hidden)
  /\ Goto(IF fts5 THEN "shadows" ELSE "drop_tables")
  /\ UNCHANGED Locals

(* remove_shadow_tables(): without its SELECT none is known, and if it is cut off
   those of some virtual tables are not. *)
ShadowTables(names) == UNION {Shadows[o] : o \in names}
ListedWithFts5(names, shadows) ==
  {o \in names \ shadows : Kind[o] \in {"table", "trigger"}}

remove_shadow_tables(label) ==
  /\ \/ Read /\ todo' = ListedWithFts5(todo, ShadowTables(DOMAIN work))
     \/ ReadFails /\ todo' = ListedWithFts5(todo, {})
     \/ ReadCutOff /\ \E part \in SUBSET DOMAIN work :
                        todo' = ListedWithFts5(todo, ShadowTables(part))
  /\ Goto(label)
  /\ UNCHANGED Locals

RemoveShadowTables == pc = "shadows" /\ remove_shadow_tables("drop_tables")

(* Mutant: a table that cannot be dropped ends the loop. *)
DropTableOrStop ==
  /\ pc = "drop_tables"
  /\ \E t \in todo :
       /\ Statement(t \notin DOMAIN work, DropRefused(work, t), DropObject(work, t))
       /\ todo' = IF error_message' = "ok" THEN todo \ {t} ELSE {}
  /\ UNCHANGED <<pc, Locals>>

(* Mutant: the table is dropped whatever refers to it. *)
DropTableAnyway ==
  /\ pc = "drop_tables"
  /\ \E t \in todo :
       /\ Statement(t \notin DOMAIN work, FALSE, DropObject(work, t))
       /\ todo' = todo \ {t}
  /\ UNCHANGED <<pc, Locals>>

(* drop_table() of the names found, in the order of sqlite_master, which is
   any order.  What it returns is not looked at. *)
DropTable ==
  /\ pc = "drop_tables"
  /\ \E t \in todo :
       /\ Statement(t \notin DOMAIN work, DropRefused(work, t), DropObject(work, t))
       /\ todo' = todo \ {t}
  /\ UNCHANGED <<pc, Locals>>

(* A loop over names is through. *)
LoopIsOver ==
  /\ todo = {}
  /\ \/ pc = "drop_views" /\ Goto("tables")
     \/ pc = "drop_tables" /\ Goto("begin")
  /\ UNCHANGED <<store, todo, error_message, Locals>>

(* Mutant: BEGIN is forgotten. *)
BeginIsForgotten ==
  /\ pc = "begin"
  /\ own' = FALSE
  /\ Goto("defer")
  /\ UNCHANGED <<store, fts5, db, todo, archive, i, j, error_message, returned,
                 exported, broken, refused>>

Begin ==
  /\ pc = "begin"
  /\ BEGIN_TRANSACTION
  /\ own' = (tx = "none")
  /\ Goto("defer")
  /\ UNCHANGED <<fts5, db, todo, archive, i, j, returned, exported, broken, refused>>

(* PRAGMA defer_foreign_keys=on *)
DeferForeignKeys ==
  /\ pc = "defer"
  /\ deferred' = TRUE
  /\ Code("ok")
  /\ Goto("create") /\ i' = 1
  /\ UNCHANGED <<file, work, tx, faults, fts5, db, todo, archive, j, returned,
                 exported, history>>

Imported(fields) == UNCHANGED <<fts5, db, todo, archive, returned, exported, fields>>

(* The SQL of the object at i.  When it fails END is sent, and the loop goes
   on: outside the transaction, unless that END is refused. *)
CreateObjects ==
  /\ pc = "create" /\ i \in DOMAIN archive
  /\ Statement(CreateFails(work, archive[i]), FALSE, CreateObject(work, archive[i].name))
  /\ IF error_message' = "ok"
     THEN i' = i + 1 /\ broken' = broken /\ Goto("create")
     ELSE i' = i     /\ broken' = TRUE   /\ Goto("end_create")
  /\ Imported(<<j, own, refused>>)

(* END, and the message of the failure is put back. *)
EndAfterCreate ==
  /\ pc = "end_create"
  /\ \E code \in Codes :
       END_TRANSACTION(code) /\ refused' = (refused \/ EndRefused(code))
  /\ Goto("create") /\ i' = i + 1
  /\ UNCHANGED error_message
  /\ Imported(<<j, own, broken>>)

ObjectsAreCreated ==
  /\ pc = "create" /\ i > Len(archive)
  /\ Goto("rows") /\ i' = 1 /\ j' = 1
  /\ UNCHANGED <<store, error_message>>
  /\ Imported(history)

HasRow == i \in DOMAIN archive /\ archive[i].type = "table" /\ j \in DOMAIN archive[i].rows
Row    == archive[i].rows[j]

(* Mutant: the loop over the rows ends one row too early. *)
LastRowIsSkipped ==
  /\ pc = "rows" /\ i \in DOMAIN archive
  /\ HasRow => j = Len(archive[i].rows)
  /\ i' = i + 1 /\ j' = 1
  /\ UNCHANGED <<store, pc, error_message>>
  /\ Imported(history)

(* The loop over the rows of an object is through, or it has none. *)
NextObject ==
  /\ pc = "rows" /\ i \in DOMAIN archive /\ ~HasRow
  /\ i' = i + 1 /\ j' = 1
  /\ UNCHANGED <<store, pc, error_message>>
  /\ Imported(history)

(* Mutant: a row that is none is passed over. *)
RowIsPassedOver ==
  /\ pc = "rows" /\ HasRow /\ Row = NotDictionary
  /\ j' = j + 1
  /\ UNCHANGED <<store, pc, error_message>>
  /\ Imported(<<i, history>>)

(* A row that is no Dictionary: return false, with no END. *)
RowIsNoDictionary ==
  /\ pc = "rows" /\ HasRow /\ Row = NotDictionary
  /\ Return(FALSE)
  /\ UNCHANGED <<store, error_message>>

(* insert_row() of a value that cannot be bound: the INSERT was prepared, so
   that the message is that of a success, and is never executed. *)
RowIsUnbindable ==
  /\ pc = "rows" /\ HasRow /\ Row = Unbindable
  /\ Fail(IF InsertFails(work, archive[i].name) THEN "error" ELSE "ok", tx)
  /\ NoFault
  /\ Goto("end_row")
  /\ Imported(<<i, j, history>>)

insert_row ==
  /\ pc = "rows" /\ HasRow /\ Row \in Keys
  /\ LET t == archive[i].name
     IN  Statement(InsertFails(work, t), InsertRefused(work, t, Row), InsertRow(work, t, Row))
  /\ IF error_message' = "ok"
     THEN j' = j + 1 /\ Goto("rows")
     ELSE j' = j     /\ Goto("end_row")
  /\ Imported(<<i, history>>)

(* Mutant: END is forgotten. *)
ReturnAtOnce ==
  /\ pc = "end_row"
  /\ Return(FALSE)
  /\ UNCHANGED <<store, error_message>>

(* A row was refused: END, and the message of the failure is put back. *)
EndAfterRow ==
  /\ pc = "end_row"
  /\ \E code \in Codes : END_TRANSACTION(code)
  /\ Return(FALSE)
  /\ UNCHANGED error_message

RowsAreInserted ==
  /\ pc = "rows" /\ i > Len(archive)
  /\ Goto("end")
  /\ UNCHANGED <<store, error_message>>
  /\ Imported(<<i, j, history>>)

(* The last END; what comes of it is not looked at. *)
EndImport ==
  /\ pc = "end"
  /\ \E code \in Codes : END_TRANSACTION(code) /\ Code(code)
  /\ Return(TRUE)

Import ==
  \/ FindViews \/ DropView \/ FindTables \/ RemoveShadowTables \/ DropTable
  \/ LoopIsOver \/ Begin \/ DeferForeignKeys
  \/ CreateObjects \/ EndAfterCreate \/ ObjectsAreCreated
  \/ NextObject \/ RowIsNoDictionary \/ RowIsUnbindable \/ insert_row
  \/ EndAfterRow \/ RowsAreInserted \/ EndImport

-----------------------------------------------------------------------------
(* export_to_buffer(), and export_to_json(), which writes what it returns to
   a file. *)

export_to_buffer ==
  /\ pc = "idle"
  /\ Goto("list")
  /\ exported' = <<>> /\ returned' = "none"
  /\ UNCHANGED <<store, fts5, db, todo, archive, i, j, error_message, history>>

(* SELECT type, name, sql FROM sqlite_master *)
ListObjects ==
  /\ pc = "list"
  /\ Find(DOMAIN work \ Hidden)
  /\ Goto(IF fts5 THEN "list_shadows" ELSE "export")
  /\ UNCHANGED Locals

ListShadows == pc = "list_shadows" /\ remove_shadow_tables("export")

AsElement(o, rows) == [name |-> o, type |-> Kind[o], valid |-> TRUE, rows |-> rows]

(* The names come in the order the objects were made in: a table before its
   indexes and triggers. *)
IsNext(o) == Kind[o] \in {"index", "trigger"} => On[o] \notin todo

(* SELECT * of a table; when it fails there are the rows that came before. *)
ExportTable ==
  /\ pc = "export"
  /\ \E t \in todo :
       /\ Table(t)
       /\ \/ /\ t \in DOMAIN work
             /\ Read
             /\ archive' = Append(archive, AsElement(t, SetToSeq(work[t])))
          \/ /\ ReadFails \/ (db /\ t \notin DOMAIN work /\ Fail("error", tx) /\ NoFault)
             /\ archive' = Append(archive, AsElement(t, <<>>))
          \/ /\ t \in DOMAIN work
             /\ ReadCutOff
             /\ \E part \in SUBSET work[t] :
                  archive' = Append(archive, AsElement(t, SetToSeq(part)))
       /\ todo' = todo \ {t}
  /\ UNCHANGED <<pc, fts5, db, i, j, returned, exported, history>>

ExportOther ==
  /\ pc = "export"
  /\ \E o \in todo :
       /\ ~Table(o) /\ IsNext(o)
       /\ archive' = Append(archive, AsElement(o, <<>>))
       /\ todo' = todo \ {o}
  /\ UNCHANGED <<store, pc, fts5, db, i, j, error_message, returned, exported, history>>

ExportReturns ==
  /\ pc = "export" /\ todo = {}
  /\ exported' = archive
  /\ pc' = "idle" /\ returned' = "true"
  /\ archive' = <<>>
  /\ UNCHANGED <<store, fts5, db, todo, i, j, error_message, history>>

Export == ListObjects \/ ListShadows \/ ExportTable \/ ExportOther \/ ExportReturns

Calls == open_db \/ import_refused \/ import_from_buffer \/ export_to_buffer
         \/ CallerBegins \/ CallerEnds

Next == Calls \/ Import \/ Export \/ OthersCommit

Spec == Init /\ [][Next]_vars
-----------------------------------------------------------------------------
(* Properties. *)

Imports == pc \in {"rows", "end_row", "end"}
ImportReturns(value) == Imports /\ pc' = "idle" /\ returned' = value

Names(a)       == {a[k].name : k \in DOMAIN a}
RowKeys(e)     == {e.rows[n] : n \in {n \in DOMAIN e.rows : e.type = "table"}}
ArchiveRows(a, t) == UNION {RowKeys(a[k]) : k \in {k \in DOMAIN a : a[k].name = t}}

(* The rows the triggers of an archive put in t while its rows are inserted. *)
Fired(a, t) ==
  UNION {ArchiveRows(a, On[g]) : g \in {g \in Names(a) : Kind[g] = "trigger" /\ Fires[g] = t}}

(* As the archive has the object, and as the triggers left it. *)
Holds(c, a, o) == o \in DOMAIN c /\ c[o] = ArchiveRows(a, o) \union Fired(a, o)

(* import_from_buffer() ignores the result of nearly every query(), and drops
   and creates in three transactions; yet when it returns true with "not an
   error" in error_message, and no END was refused on the way, the file holds
   every object of the archive with its rows and no others. *)
CleanImportIsComplete ==
  [][ImportReturns("true") /\ error_message' = "ok" /\ ~refused
       => \A o \in Names(archive) : Holds(file', archive, o)]_vars

(* No reader sees a half-filled database: the objects and rows of an import
   appear in the file in one step, unless an object's SQL failed, or was cut
   off by an I/O error, and the loops went on in autocommit mode. *)
RowsAppearTogether ==
  [][file' # file /\ pc \in {"create", "rows"} => broken \/ OthersCommit]_vars

(* An import that stops at a row has its END commit what came before: every
   object of the archive, the rows of the objects before, and those before
   the row in its own. *)
StoppedImportIsCommitted ==
  [][pc = "end_row" /\ ImportReturns("false") /\ ~broken /\ file' # file
       => \A k \in DOMAIN archive :
            LET row_array == archive[k].rows
                inserted  == IF k < i THEN RowKeys(archive[k])
                             ELSE IF k > i THEN {}
                             ELSE {row_array[n] : n \in 1 .. j - 1}
            IN  archive[k].name \in DOMAIN file' /\ inserted \subseteq file'[archive[k].name]]_vars

(* An import returns with a transaction open when its last END was refused,
   for a reader or a missing parent, or at a row that is no Dictionary. *)
ImportLeavesOpenOnlyIf ==
  [][(ImportReturns("true") \/ ImportReturns("false")) /\ tx' # "none"
       => \/ pc = "rows" /\ Row = NotDictionary
          \/ pc # "rows" /\ (EndRefused("busy") \/ EndRefused("constraint"))]_vars

(* Foreign keys are switched off for the import, which drops, creates and
   fills tables in any order and in several transactions, and is cut off
   anywhere; what it leaves in the file has no orphan all the same. *)
FileIsNotOrphaned == TypeOK /\ ~Orphaned(file)

(* The objects an export in a transaction is about: not SQLite's own, and with
   FTS5 no index, no view and no table that is the shadow of another. *)
IsShadow(c, o) == \E virtual \in DOMAIN c : o \in Shadows[virtual]

Exported(c) ==
  {o \in DOMAIN c \ Hidden :
     fts5 => Kind[o] \notin {"index", "view"} /\ ~IsShadow(c, o)}

Shows(a, c, names) ==
  /\ Names(a) = names
  /\ \A k \in DOMAIN a : RowKeys(a[k]) = c[a[k].name]

(* An export reads with one SELECT per table, whose failures it ignores.  In
   a transaction of the caller they are all of one state, once the first of
   them has got its lock: the export is then that state's, with every row.  (An
   I/O error ends the transaction: then, as without one, an export may lack what
   could not be read, and a table may have some of its rows only.) *)
ExportInTransactionIsSnapshot ==
  [][ExportReturns /\ tx \in {"shared", "reserved"} /\ archive # <<>>
       => Shows(archive, work, Exported(work))]_vars

(* The old content is dropped table by table, in the order they were made in
   and with the foreign keys on: a table that is left when an import that
   nothing came in between returns true is one whose rows others refer to. *)
TablesLeftAreParents ==
  [][ImportReturns("true") /\ faults' = 0
       => \A t \in Tables(work') \ (Names(archive) \union Hidden) :
            \/ \E child \in Objects : <<child, t>> \in References
            \/ \E o \in Names(archive) : t \in Shadows[o]]_vars
=============================================================================
