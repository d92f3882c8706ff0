# Formal models of godot-sqlite

godot-sqlite is a GDExtension: one C++ class, `SQLite` (`src/src/gdsqlite.cpp`),
through which GDScript uses SQLite. The wrapper itself is sequential and
small. What is hard about it is what happens between its calls of SQLite:
other objects, threads and processes use the same file, any step can be
refused or fail, results of some calls are ignored, and SQLite calls back into
the caller's code while a statement runs. The models follow that.

Line numbers below are those of the repository (`src/` is its root, so
`src/src/gdsqlite.cpp` is the repository's `src/gdsqlite.cpp`).


## 1. Inventory

### Components

| Component | State it keeps | Operations | Modelled in |
|---|---|---|---|
| Query pipeline | `db`, `query_result`, `error_message`; a prepared statement per call | `open_db`, `close_db`, `query`, `query_with_bindings`, `query_with_named_bindings`; inside: `prepare_statement`, `bind_parameter`, `execute_statement`, `update_error_message` | `QueryPipeline` |
| Row operations | locals of a call: loop index, `success`, `previous_error_message` | `insert_row`, `insert_rows`, `select_rows`, `update_rows`, `delete_rows` | `RowOps` |
| SQLite transactions and locks (vendored) | the file, the lock and page cache of each connection, autocommit mode | prepare, step, finalize, close; the end of the process | `Sql`, `Engine`, `TransactionalStore` |
| User functions and signals | `function_registry`; the update hook | `create_function`, `function_callback`, `update_hook_callback` | `UserFunctions`, `Signals`; nested calls in `QueryPipeline` and `NestedStatements` |
| JSON export and import | locals; the database itself | `export_to_json`, `import_from_json`, `export_to_buffer`, `import_from_buffer`, `validate_json`, `remove_shadow_tables` | `ImportExport`, `JsonCodec` |
| Schema helpers | `foreign_keys` | `create_table`, `drop_table`, `validate_table_dict` | `TableDict` |
| Backup and restore | a second connection | `backup_to`, `restore_from`, `backup_database` | `Backup` |
| Read-only VFS | the file, the pager's cache over it | `GodotVfs`, `gdsqlite_file`: `read`, `lock`, `checkReservedLock`, ... | `GodotVfs` |
| Extension loading | flags and libraries of the connection | `enable_load_extension`, `load_extension` | `Extensions` |
| Binding, registration, demo, build | none of their own | | not modelled |

### How they interact

- Every method comes down to `query_with_bindings()`, so that `error_message`
  and `query_result` are shared by all of them, and by calls nested in one
  another.
- A statement is executed by SQLite, which takes locks on the file. The
  wrapper installs no busy handler (there is no call of
  `sqlite3_busy_timeout`): a lock that is not free is `SQLITE_BUSY` at once.
- Inside `sqlite3_step()` SQLite calls `function_callback()`, which calls a
  GDScript `Callable`, which may call any method of the same object.
- The database file is shared with other objects and other processes.

### What is hard, and what makes each component correct

- **Engine.** Interleaving of connections; a refused, failed or crashed
  commit. Correct when it behaves as a store with one writer and consistent
  snapshots (`TransactionalStore`), leaves no lock behind an idle connection,
  and never stores a row whose deferred foreign key has no parent.
- **Row operations.** Partial failure: the result of `BEGIN` (line 701) and
  of `END` (line 720) is ignored. Correct when nothing runs outside a
  transaction all the same, when what is committed is exactly what the method
  was asked, when the caller can tell from `error_message`, and when the
  transaction is closed again.
- **Query pipeline.** Re-entrance and stale state: `sqlite3_errcode(db)` is
  asked after `sqlite3_finalize()`, of whatever `db` points to by then; each
  text of several statements slices the bindings. Correct when a call's result
  is its own, no statement leaks, and rows are those of the query.
- **Import.** Partial failure outside and inside the transaction: it drops
  tables before `BEGIN` and returns from inside the transaction at line 1074.
  Correct when a returned true means that the archive is there, complete, and
  when what another connection sees is never half of it.
- **Export.** What is exported should be what is imported, and of one moment:
  lost indexes when the FTS5 filter runs (line 1245), BLOB columns found from
  the first row only, a SELECT for each table.
- **User functions.** Memory: `function_registry` owns what SQLite points to,
  and is changed while functions run. Correct when every call finds the
  Callable last created for it, alive, and is passed its arguments. A `NULL`
  argument leaves the previous argument's value in `argument_value` (line 820),
  and a text is not decoded (line 835).
- **Nested statements.** All statements of a connection share one transaction:
  a query inside a user function may begin, end or abandon the transaction of
  the statement around it. Correct when nothing is committed midway and each
  failure undoes its own statement only.
- **Signals.** They are emitted row by row before anything is committed.
  Correct, as far as it goes, when a listener can follow the table by them.
- **Backup.** Ignored results of the steps; locks on two files. Correct when
  only committed content is copied, as a whole, and the result tells.
- **VFS.** No-op locks, short reads that are not zero-filled. Correct when a
  reader sees a committed state as long as nobody writes.
- **Schema helpers.** `foreign_keys` counts when the database is opened and
  again when a table is created; types and defaults are pasted into the
  statement. Correct when what SQLite reads is what the dictionary means.
- **Extensions.** Two flags turned on and off by three parties; a library must
  stay mapped as long as a statement may call it.

`PROJECT.json` lists each hazard with its line and the properties about it.


## 2. Modules

    TransactionalStore        what a caller is promised
            ^
            | refinement (checked by TLC, proved)
         Engine  -- EXTENDS --> Sql        SQLite's transactions and locks
            ^
            | EXTENDS; every step is an Engine step (proved)
         RowOps                            the row methods, several objects

    Backup = an Engine for each file + the steps of one backup

    one object and what is around it, each by itself:
      QueryPipeline      nested calls: results, messages, handles
      NestedStatements   nested calls: one transaction for all statements
      UserFunctions      the registry, arguments and results of Callables
      Signals            the update hook and a listener
      ImportExport       export and import, query() by query()
      JsonCodec          the way of a column's values through both
      TableDict          create_table(), references between tables
      GodotVfs           a reader without locks beside a writer
      Extensions         the loading of libraries

The modules `...Proofs` hold the theorems about the component they are named
for; three of them hold those of a second one as well: `RowOpsProofs` of
`Engine`, `UserFunctionsProofs` of `Signals`, `GodotVfsProofs` of `Extensions`
(section 4). For that, the specifications of `Signals` and `Extensions` have
names of their own (`SignalsSpec`, `ExtensionsSpec`, `DictSpec`, ...). The modules
`MC...` give the constants values for TLC. Four of them check two components in
one run: `MCImportExport` also `JsonCodec`, `MCUserFunctions` also `Signals`,
`MCBackup` also `TableDict`, `MCGodotVfs` also `Extensions`. A behaviour there is one of either component, while the other
stays in its initial state: the two share nothing.

### Sql, Engine

`Sql` abstracts the database to one table whose content is a set of rows. A
row stands for its key and values at once, so that inserting a row that is
there is the UNIQUE conflict. A statement is a record of the rows its WHERE
clause can match and the rows it writes. A deferred foreign key is a pair of
rows.

`Engine` models the unix VFS and the pager in rollback-journal mode:

| Variable | In the code |
|---|---|
| `file` | the content of the database file |
| `lock[c]` | `unixFile.eFileLock` |
| `autocommit[c]` | `sqlite3.autoCommit` |
| `cache[c]` | the pager's cache, meaningful while a lock is held |
| `stmt[c]`, `phase[c]`, `rc[c]` | the VDBE in progress, how far it is, its result |

Each action is what one connection does between two requests for a lock.
`StepShared*`, `StepReserved*`, `StepWrite` are the `OP_Transaction` and the
body of a statement; `StepUnbindable` is a statement that is given up before its
first step, because a `?` has no value or one that no parameter takes (lines
303-305 and 393-408); `Halt*` is `sqlite3VdbeHalt()` with its three outcomes in
autocommit mode (release, refused, commit); `Publish` is the end of
`vdbeCommit()`. `StepEnd*` is `OP_AutoCommit`, which is refused with the
transaction still open when a reader is active or a foreign key is orphaned.
`ReaderArrives` is the instant in which a reader of another process holds
`PENDING_BYTE` on its way to SHARED: the writer then stays at RESERVED.
`IoFaults` lets any write of the journal or the file fail. `Drop` is both
`sqlite3_close_v2()` and the end of the process: what a transaction had not
committed is played back from the journal.

### TransactionalStore

The abstract specification: a stored content, snapshots, at most one dirty
snapshot, which is stored as a whole while nobody else looks, or discarded as a
whole. It has no locks, statements, failures or refusals. It models no code; the
refinement mapping is at the end of `Engine` (`active` are the connections with
a lock, `dirty` those with RESERVED or more, `snap` is the cache).

### RowOps

Each object has a program counter `pc`, which is the `query()` call its method
waits for, and the method's locals. `Query(c, s, label)` sends a statement (or
gets the "out of memory" of a null `db`); a `...Reply` action is what the
method does with the result up to its next `query()`. An element of an array may
be good, malformed, unbindable or no Dictionary; `update_rows()` and
`delete_rows()` may be malformed or unbindable as well. `error_message` after an
unbindable statement is what its successful `sqlite3_prepare_v2()` left
(`Message`). Between them SQLite works (`Work`) and other objects take steps. `crash` ends the process at any point.
The history variables `own` and `durable` remember whether the call's own
`BEGIN` succeeded and what its last commit put in the file.

The environment sends any of the modelled methods and, through `query()`,
`BEGIN`, `END`, `ROLLBACK`, `SELECT` and a `DELETE`: a helper can therefore be
called inside the caller's own transaction.

### QueryPipeline

One object, the sqlite3 handles it opens one after the other, and a stack of
calls in progress. A statement yields a number of rows and then a code. While
the innermost call is inside `sqlite3_step()`, its caller's code may run
(`CallerRuns`): another query, `close_db()`, `open_db()`. A frame's `call`,
`nested` and `moved` are history. Handles are reused when freed, like memory.
`open_db()` may fail and leave `db` at a sick connection. A call under whose
statement the object is closed and opened again is `Displaced`: it asks the new
connection how its statement went.

### NestedStatements

One connection with a stack of calls in progress, three deep: SELECTs, writes
of one or several rows, `insert_rows()`, and `BEGIN`, `END` and `ROLLBACK` by
`query()`. `nStatement` and `savepoints` are SQLite's statement transactions.
`WriteRow` and `SkipRow` are the program of a statement; `HaltWrite`,
`HaltAbort` and `HaltIoError` are the ways `sqlite3VdbeHalt()` ends it, by
whether it is the only writer and whether a transaction is open.

### UserFunctions

`heap` is memory: an address once freed is never used again, so a pointer that
dangles shows. `Latin1` is what `Variant(const char *)` makes of the bytes of a
text, the text itself if it is ASCII. `functions[h][n]` is the address the connection has for a number
of arguments, `function_registry` those the object owns. Calls nest: a
Callable may create functions and close and open the object.

### Signals

A table whose rows have a unique value, the statements that change it row by
row, and `mirror`, the rowids a listener believes in. REPLACE, an update of the
rowid and a truncation are as SQLite does them, with and without the hook.

### ImportExport, JsonCodec

A `query()` is one step; its steps are `Engine`'s. `pc` is the query that comes
next, `todo` the list the current loop goes through, `i` and `j` its counters.
`Faults` lets each query() be refused (`busy`), fail (`ioerr`), or another
connection commit in between (`commit`). `fts5`, chosen in the first state, is
whether SQLite was built with FTS5, which decides how shadow tables are found. A
SELECT that fails leaves nothing (`ReadFails`) or, when it is cut off by an I/O
error, the rows that came before, and no transaction (`ReadCutOff`).
A row inserted into a table goes to the tables its triggers fill in the same
statement, which fails as a whole: when one of those tables, or the parent of
one, is missing (`InsertFails`), or when one of the rows is there or has no
parent (`InsertRefused`).

`JsonCodec` follows the values of one column through the conversions, each an
operator (`ExportColumn`, `Stringify`, `Parse`, `Decode`, `Bind`, `Store`), on one
representative for each kind of value that is treated differently, for one trip
after another (`ColumnExported`, `ColumnImported`). `MCImportExport` runs it in
behaviours of their own: nothing the tables do depends on it.

### Backup

Two instances of `Engine`, for the source and the destination, are what others
do with the files; `backup_init`, `Copying` and `backup_finish` are the call.
`opened` says, from the first state on, which of them the call opens itself:
the destination in `backup_to()`, the source in `restore_from()`. The object's
own connection may be in any transaction. Copying the pages is one step, as the
destination is locked EXCLUSIVE; `Commit`, `IoError` and `Crash` end it.

### GodotVfs

A file of three pages, a writer that writes its journal, syncs it, and writes
page after page, may crash between any two of them and recovers later, and a
reader through this VFS. The reader's states are those of
`pagerSharedLock()`: a journal exists, its first byte is read, the change
counter is compared with the cache's.

### TableDict

A dictionary is validated, written as clauses and read as a schema by pure
operators (`Validates`, `Statement`, `Reads`, `Schema`), which `create_table()`
composes. What the README of the repository says a dictionary means is written
down apart from them: `DocumentedTypes`, its table of the data types;
`DefaultMeant`, the value of a default, in quotation marks or not;
`ConstraintsAreMeant` and `ReferencesAreMeant`. Around them: `foreign_keys`, opening and closing, and one row of a
parent and of a child table, inserted, deleted, cascaded and dropped as
SQLite's `fkey.c` does.

### Extensions

The two flags of each connection, the libraries it has opened, the process's
`dlopen()` counts, and a stack of statements and entry points. A closed
connection lives on as a zombie while one of its statements runs; then it
closes its handles (`HandlesOf`).


## 3. Runs

A run is one question. Four are *violated*: they show where the code does not do
what a comment of it, or the README of the repository, says. The type invariant
of a module is a run's property of its own in `row_ops` and the first conjunct of
a state invariant in the others.

| Run | Shows |
|---|---|
| `row_ops` | two objects call every method on one file, two rows with a deferred foreign key, values that cannot be bound, failing writes, crashes. Below: `LocksAreSound`, no orphans in the file, every step is a step of `TransactionalStore`. Above: `BatchIsTransactional` (no statement of a batch runs outside a transaction, although the result of BEGIN is ignored), `LeavesOpenOnlyIfRefused`, `CleanReturnIsDurable`, `OwnTransactionIsExact`, `FailureIsExplained` |
| `row_ops_live` | every call returns, whatever the other object has locked |
| `row_ops_open` | *violated*: `insert_rows()` returns with its own transaction open |
| `pipeline` | nested calls on an object that is closed and opened under them: `NoStatementLeaks`; a call's outcome is that of a reference that has the object for itself, a failure on a closed object, and the new connection's on one that was opened again (`OutcomeIsOwn`); its rows are exact when nothing is nested in it (`ResultIsExact`) |
| `pipeline_message` | *violated*: a success leaves an empty `error_message` |
| `nested` | statements nested three deep, with BEGIN, END, ROLLBACK and I/O errors: no commit midway, no savepoint or journal left, statements are all or nothing, `insert_rows()` closes what it can |
| `functions` | functions created, replaced, refused and destroyed while they run: every call finds the Callable last created for it, alive. And `ListenerFollows`: rowids kept by the signals are those of the table, where nothing is taken back, replaced, moved or cleared |
| `functions_arguments` | *violated*: a Callable is passed the arguments of its function |
| `import_export` | imports and exports, with and without FTS5, of archives that break at each place, with faults, commits of others and a caller's transaction: what true means, when rows appear, what a stopped import leaves, when an export is one state; and which columns come back exactly |
| `backup` | `backup_to()` and `restore_from()` with others on both files, I/O errors, crashes: only committed content is copied, as a whole; the result tells; locks are kept and given back; the call returns. And a parent and a child from dictionaries of one and two columns: the table is the one that was asked for, references hold as long as `foreign_keys` is set at each opening |
| `dictionaries` | *violated*: a table that is created has only documented types, and the defaults that were given |
| `godot_vfs` | a reader without locks beside a writer that crashes and recovers, and a cache that evicts: it begins on a commit, reads one as long as nobody writes, and is never held up. And libraries stay mapped as long as they can be called and no longer; loading is enabled on request only |

The distinct states: `import_export` 3.6 million, `nested` 2.0, `row_ops` 1.3,
`godot_vfs` 0.6, `functions` 0.5, `backup` 0.4, `pipeline` and `row_ops_live` 0.2;
the longest take two to three minutes.

### Findings

`row_ops_open`: `insert_rows()` ignores the result of its `END TRANSACTION`, as
`update_rows()` and `delete_rows()` do (lines 715, 720, 783, 804). In the run an
INSERT fails on a row that is there; the `END` at 715 is answered with
`SQLITE_BUSY`, because another connection is reading, which leaves the transaction
open with its lock; the method returns. The comment at line 712 is "Don't forget
to close the transaction!". The next helper's `BEGIN` then fails, which is ignored
too, and its `END` commits both. `LeavesOpenOnlyIfRefused` and
`BatchIsTransactional` say exactly how far this goes.

`pipeline_message`: `update_error_message()` assigns an empty string after a
success, as the comment there (lines 1301-1302) and `README.md:58` say, and
overwrites it in the next two lines: the message is "not an error".

`functions_arguments`: below "Check the value type and do correct casting" (line
823), `function_callback()` leaves `argument_value` as it is for a NULL, which so
arrives as the argument before it, and makes a Variant of the bytes of a text
without decoding them (line 835; everywhere else it is `String::utf8()`), so that a
text that is not ASCII arrives as another. In the run a function is given both.

`dictionaries`: `README.md:170` says that data types that are not in its table
throw an error. `create_table()` writes any type into the statement (line 517), and
SQLite takes it. `README.md:368-370` asks for quotation marks around a default that
is empty or has commas or spaces in it; a text that looks like a number, or like
NULL, is read as one without them (line 544). In the run one call does both and
returns true.

### What the properties leave out

Modelling met more places where the code does less than one may expect. The
properties say where its promise ends, by the condition named here; each
condition is there because the property fails without it.

| In the code | Property | What it leaves out |
|---|---|---|
| a value or a condition that cannot be bound gives up a statement that was prepared: false is returned with "not an error" (lines 303, 397, 405) | `FailureIsExplained` | says so: exactly then |
| `update_rows()` and `delete_rows()` put their statement's message back over that of `END` (line 784), so that a commit that fails is reported as true | `FailureIsExplained` | it speaks of false only; `CleanReturnIsDurable` of `insert_rows()` only |
| `sqlite3_errcode(db)` is asked of the connection the object has by then (line 373): when it was closed and opened again under the statement, that is not the statement's | `OutcomeIsOwn` | `Displaced`, where it says that the outcome is the new connection's |
| a query of a user function clears the rows of the query around it (line 255) | `ResultIsExact` | calls nothing is nested in |
| BEGIN, END or ROLLBACK under a write take away its own undo, and leave `insert_rows()` with a transaction it cannot end (line 720) | `StatementsAreAtomic`, `InsertRowsCloses` | `crossed` |
| an import returns inside its transaction at a row that is no Dictionary (line 1074) | `ImportLeavesOpenOnlyIf` | that row |
| an import goes on in autocommit mode, after a failed object (line 1045) | `RowsAppearTogether` | `broken` |
| it drops parents before children with foreign keys on and ignores the refusal (line 1033) | `TablesLeftAreParents` | tables others refer to |
| triggers are created before the rows are inserted, and fire (line 1041) | `CleanImportIsComplete` | `Fired` |
| with FTS5 an export leaves out indexes and views (line 1245), and each table is read in a transaction of its own (line 1109) | `ExportInTransactionIsSnapshot` | what is not `Exported`; exports outside a transaction |
| an export ignores failing SELECTs (lines 327-374): it lacks what could not be read, and a table may have some of its rows only | `ExportInTransactionIsSnapshot` | exports whose transaction an I/O error has ended; in one that holds its lock nothing else fails |
| BLOB columns are found by their first row (line 1115); JSON changes large integers and long reals | `PlainComesBack` | columns that are not `Plain`, none of which comes back |
| the update hook tells nothing of truncations and REPLACE, and tells of rows that are then taken back | `ListenerFollows` | `undone`, `silent` |
| the read-only VFS does not zero-fill a short read (`gdsqlite_file.cpp:31`), and its locks are none (line 89), so that a stale cache can be validated | `UndisturbedIsConsistent` | `disturbed`, `clean` |
| `create_table()` returns true for a table that exists with another schema (line 494) and pastes types and defaults (lines 517, 544) | `CreatesWhatIsAsked` | `existed`; types that are not in `DocumentedTypes`, the defaults that are `Misread` |
| `load_extension()` turns off what `enable_load_extension(true)` turned on (line 1381) | `LoadingIsEnabledOnRequest` | says when loading may be enabled, not that it stays so |

Six hazards have no property, because the code always does what they fear and
nothing in the repository says otherwise, so that a property could only describe
it: a nested query clears the outer one's rows (line 255), the import's return
inside its transaction (1074), the indexes and views that are lost with FTS5 (1245),
the rows that triggers make twice when they are imported (1041), signals of what is
taken back or not signalled at all (126), and the text a user function returns: line
879 passes it to SQLite as `SQLITE_STATIC`, that is, as memory that stays, out of a
`CharString` that is freed two lines below, before SQLite reads it. In
`UserFunctions` what is then read is a choice over the texts (`answer.out`), so no
property about it could hold.

### Bounds, and why they are enough

- *Connections*: 2. Every refusal is a condition on one other connection; a
  reader on its way to SHARED is `ReaderArrives`. The proofs are for any set.
- *Rows*: 2, the second a child of the first, which gives all of UNIQUE
  conflicts, updates that match or do not, deletes of a parent, and orphans.
- *Arrays*: at most 2 elements, ending in each of the ways the loop can end:
  all inserted, a conflict at the first or the second element, and, after a
  first element that may be in, an unbindable one or one that is no Dictionary; a
  malformed one, which fails as a conflict does, in `row_ops_live`. Updates are by
  `update_rows()`, which may be unbindable, deletes of the parent by `query()`. In
  `row_ops_open` there is one row, one array and no update.
- *`MaxDepth`* 2 (`pipeline`): a call and one nested in it. What one call sees
  of another is only the shared state, so a third adds another writer of the
  same state.
- *Handles*: 3, so that two zombies and an open connection exist at once.
- *Texts*: one or two statements; the slicing of the bindings has a first and a
  following statement.
- *Nested statements*: 3 rows, at most 2 to a statement (`MaxRows`), 3 deep: a
  statement, one of the same kind inside it, and what the innermost does to
  both.
- *User functions*: two Callables, two connections, arguments of one and two
  values, NULL before and after another, `MaxCreated` 3: the registry grows
  twice while something is in it. In `functions_arguments` one text, which is not
  ASCII, and a NULL after it; in `functions` texts are ASCII.
- *Signals*: two values, `MaxRowid` 3: one more rowid than rows, to move to.
- *Import and export*: a parent, a child and one object of each kind; archives
  that break at each place, and one that is a parent and its child only;
  `MaxFaults` 1 per behaviour: each query has its turn to fail.
- *JsonCodec*: nine kinds of value, `MaxRows` 3: the first row decides, the
  others obey.
- *Backup*: one row, on each file one connection more than the call's;
  `Used[c]`: the statements of connection `c`, which reach every lock.
- *GodotVfs*: `LastPage` 3, the counter's page and two that may differ;
  `MaxAttempts` 3 transactions of the writer: one the cache is filled by, one
  that disturbs, one that makes it stale.
- *TableDict*: one reference and one row of a table. `Dicts` are the
  dictionaries, `Again` those offered for a table that exists: every type of the
  table and some that are not in it, every kind of default, quoted or not. In
  `dictionaries` there is one, of an undocumented type and a misread default.
- *Extensions*: two connections, two libraries, `MaxOpened` 3 and `MaxDepth` 4:
  a statement, an entry point in it, its statement, and an entry point in that.
- Deadlock is checked in every run.
- *Symmetry* of connections and handles is used in runs of safety properties
  only.

### Fairness

`WF_vars(Continue(c))` for each object (`RowOps`): a call that has begun is run
by its thread to the end. The wrapper waits for nothing in between (no busy
handler, no lock of its own, loops bounded by their input), so the thread is all
it needs. `WF_vars(Copying)` (`Backup`) and `WF_vars(Reading)` (`GodotVfs`) say
the same of one call of theirs. No fairness is assumed of callers, crashes or
other processes. `CallsReturn`, `CallReturns` and `ReadsEnd` use it; what they
show is that no lock, transaction or journal that another connection leaves
behind keeps a call from returning.

### Mutants

Each property of a passing run has a mutant in the module it is about, marked
`Mutant:`, a plausible bug put in place of one definition; the property fails
with it. They are not part of any specification.


## 4. Proofs

TLAPS proves these for every value of the constants that meets the assumptions
named in the modules: any number of connections, objects, rows, statements,
nested calls, pages, attempts and dictionaries. What the assumptions ask is
what the code is given: statements are well-formed, an INSERT deletes nothing,
foreign keys relate rows (`Sql`), a table is finite (`NestedStatements`), a
dictionary has finitely many columns whose options are cast to `bool`, and a
number's text is a number (`TableDict`), no text becomes a NULL when it is taken
for another encoding (`UserFunctions`), the contents a file may begin with are schemas, where only tables
have rows and an index or trigger has its table, and a trigger's table has no
triggers of its own (`ImportExport`). Every inductive invariant below was first
an invariant of the component's run.

**RowOpsProofs: Engine.** `EngineInv` is the inductive invariant: types, lock
exclusion, snapshots, no orphans, idle connections without locks, and
`PhasesMatchLocks`, which the properties alone lack: which locks go with which
phase of a statement, and that the content about to be published has no orphan.
Without it, `Publish` could not be shown to happen alone. From it:
`EngineTypeCorrect`, `LocksAreAlwaysSound` (from the four of its parts),
`FileIsNeverOrphaned`, and `EngineImplementsStore`: every step of the engine is a
step of `TransactionalStore` or a stutter.

**RowOpsProofs: RowOps.** `RowOpsImplementsEngine` shows that each step of a method is
a step of the engine or a stutter, so that every theorem about the engine
holds of the methods (`RowOpsImplementsStore`, `RowOpsKeepLocksSound`,
`RowOpsNeverOrphanTheFile`). `RowOpsInv` adds, for each object, what holds at each
`pc`: which statement is in progress, that a transaction is open from the reply
to `BEGIN` on, and what is remembered of a failed statement. It is shown object
by object: the steps of the others do not disturb it (`StepIsLocal`). From it:
`RowOpsTypeCorrect`, `BatchesAreTransactional`, `OpenOnlyIfRefused` and
`FailuresAreExplained`, which also says that the message is a success's exactly
when the statement was unbindable and the object open.

`ExactInv` adds what the caches hold. Until its first write an own transaction
has no lock, so others may still commit; from then on RESERVED keeps them out,
and the cache is the file and the elements accepted so far (`RowsAreInTheCache`)
or the effect of the one statement (`DmlIsInTheCache`). With it:
`OwnTransactionsAreExact`, and `CleanReturnsAreDurable`, which holds in a
caller's transaction as well: there the cache includes the accepted elements,
and that is enough for the END that commits it.

**NestedStatementsProofs.** `StackInv` relates the stack of calls to the
connection: between two writes of autocommit mode nothing is open, the content
includes each savepoint and each savepoint the earlier ones, and there are no
more statement transactions than writes that opened one. `NothingIsLeftDangling`
and `StatementsCommitWhole` follow. Atomicity needs more, and only while no
transaction begins or ends under a write (`crossed`): `AtomicInv` says that the
savepoint of a write was taken before its own rows were written and after those
of the writes that have called it (`IsJournaled`), that a write without one is
of a single row or rolls back the whole transaction (`NeedsNone`), and that the
transaction of `insert_rows()` began before any write in progress. Hence
`StatementsAllOrNothing` and `InsertRowsEndsItsTransaction`.

**QueryPipelineProofs.** `PipeInv` counts: the statements of a connection are
the calls that use it (`Users`), and only a call inside `sqlite3_step()` has
others nested in it. That gives `StatementsAreFinalized`. `OwnInv` compares each
call with its reference: as long as its object stays connected, it has executed
a prefix of its text that succeeded and has the bindings left that the
reference has there (`Follows`), and if nothing was nested in it,
`query_result` is the rows it has taken. Hence `OutcomesAreOwn`, which has a case for
each of what may have become of the object under the call (closed, opened again,
or still connected), and `ResultsAreExact`. The positional bindings a statement takes are counted with a
set, whose size grows by those of one statement at a time.

**GodotVfsProofs: GodotVfs.** The argument rests on the change counter: `CommittedInv`
says that it tells committed states apart and that the last (`Latest`: the
file, or what a hot journal restores) has the highest, so a cache validated by
its counter is of the state in the file. `WriterInv` adds that a journal is hot
whenever the file is half written. From these `ReadsBeginOnACommit` and, with
`ReaderInv`, `UndisturbedReadsAreConsistent`.

**UserFunctionsProofs: UserFunctions.** `FunInv` says of every number of arguments of every
connection that its function is free or the Callable last created for it, at an
address in the registry. From it `FunctionsDoNotDangle` and
`TheLastCreatedAnswers`. That what `argument_array` makes is as many arguments of
the kinds there are (`ArgumentsArePassed`) rests on a position's having a last
argument before it that is not NULL, which needs an induction; it is done by a
minimal counterexample (`WFMin`), which is first-order.

**BackupProofs.** A backup locks both files without running a statement, so
that `PhasesMatchLocks` of the engine does not hold of its two connections.
`BackupInv` keeps the weaker phases that do, lock exclusion and the snapshots
for both files, and adds the lock of each stage of the call and what its result
code says. Since the copy is made under SHARED on the source and EXCLUSIVE on
the destination, `BackupCopiesACommit` follows, and with it
`BackupKeepsTheLocks` and `BackupReturnsCleanly`. The steps of the engines are
shown once for each of the two files.

**TableDictProofs.** `SchemaMeansDictionary` is about the operators alone: the
schema read from the statement means what the README says of the dictionary
(`Means`: columns, key, constraints, references, the documented types, the defaults
that SQL does not misread), for every finite dictionary, and `TablesAreAsAsked`
applies it. `TableInv` adds that a guarded
child's references are enforced whenever the database is open, and that a row
of it has a parent with a key that can be found; without the latter, dropping
the parent would not take the child's row with it. Hence `ForeignKeysAlwaysHold`.

**ImportExportProofs: ImportExport.** `ImportInv` has a part for each thing the
properties rest on. `StoreInv`: both contents are schemas, the file has no
orphan, and only a reserved lock lets the connection's content differ from it;
it gives `NoOrphanIsLeft`. `CallInv` bounds the loops' counters at each `pc`.
`TransactionInv` says that until an object's SQL fails an import has a
transaction (its own or its caller's), reserved from the first object on, and
after a failure none, unless an END was refused; it gives `RowsDoAppearTogether`
and `ImportsLeaveOpenOnlyIf`. `ProgressInv` says what the loops have done by
then: each object up to `i` is made, each table has the rows up to `i` and `j` and
those that the archive's triggers made of others, and no trigger of the old
content is on a table of the archive; it gives `CleanImportsAreComplete` and
`StoppedImportsAreCommitted`. `LeftInv` follows the tables that are still to be
dropped (`TablesLeftDoHaveChildren`), `ExportInv` what an export with a lock has
read and has still to read (`ExportsInTransactionsAreSnapshots`).

**ImportExportProofs: JsonCodec.** `ColumnInv` says that the cells of an archive
are those of one of the forms an export has, and that what is in the table is
what they decode to. `PlainColumnsComeBack` is an equivalence, for columns of
any length: what becomes of a value is shown kind by kind (`EncodedComesBack`,
`BlobIsLost`, `WrittenComesBack`, `StoredAgain`), and being plain is a matter of
each value once the first has decided (`PlainIsOfValues`).

**UserFunctionsProofs: Signals.** `SignalsInv` adds to `ListenerFollows` that the
unique column is unique in `file`, `work` and `start` and that a statement that
moves rows has still to go through rowids that are distinct and in the table
(`TodoInv`); without it a move could follow a row that is gone.
`ListenersFollow` follows.

**GodotVfsProofs: Extensions.** `ExtensionsInv` counts handles as a set of
numbered openings, so that loading adds one element, and closing a connection
takes its subset away; `CountInv` says that the set is finite, however many
connections there are. `Nested` says that SQL that loads is called by a
statement of the same connection, so that an error in it ends that one, and
that `load_extension()` runs on the open connection; `SqlInv` that only
`enable_load_extension()` sets "sql". From it `LibrariesStayCounted` and
`LoadingIsOnRequest`.

**Only model-checked.** `CallsReturn`, `CallReturns` and `ReadsEnd`: liveness
under fairness is out of the prover's reach. Every other property of a passing
run is stated by a theorem. The properties of the violated runs do not hold.


## 5. Not modelled, and why

- *WAL, shared cache, savepoints, attached databases, triggers*: the wrapper
  does not set them up; a caller may, through `query()`, and the models then
  do not apply.
- *The shared lock `sqlite3_prepare_v2()` takes to read the schema*: taken and
  released inside the call; it is a reader like others, and `ReaderArrives` and
  `SELECT` already give its effects on writers.
- *Immediate foreign keys and other constraints*: the same as the UNIQUE
  conflict, a statement that fails and is undone.
- *Deferred foreign keys as a counter*: SQLite counts violations; the model
  looks at the content, which is the same as long as foreign keys are enabled
  before the rows exist.
- *Nested statements beside other connections*: `Engine` has one statement at a
  time per connection, `NestedStatements` many statements on one connection.
- *Values*: rows are numbers except in `JsonCodec` and `UserFunctions`.
- *`PRAGMA foreign_keys` of `open_db()`* failing.
- *The JSON file*: `export_to_json()` and `import_from_json()` read and write it
  whole; it is taken to hold what was written.
- *Text*: names, quoting (`sanitize_identifier()`) and conditions are well
  formed; `create_table()` is modelled by its clauses.
- *Writing through the read-only VFS*, its paths, time and randomness.
- *A handler of a row signal that queries the same object*: SQLite's contract of
  the update hook forbids it, and what then happens is undefined.
- *Destroying the object inside a callback.*
- *Calls of `backup_to()`, `create_function()` or `load_extension()` on an object
  that is not open*: the code passes a null pointer to SQLite.
- *Binding and registration, demo, build*: declarations and examples.
- The rest of the SQLite amalgamation (parser, query planner, B-trees, FTS...):
  vendored, and used as documented.


## 6. Plan

1. **Done**: all components that have state are modelled, and every safety
   property that a run checks is proved, of each of them.
2. What would go further: `NestedStatements` with other connections beside it, as
   a refinement of `Engine`; WAL mode, in which a reader does not stand in the way
   of a commit; and `export_to_json()`'s file, when a process ends while it is
   being written.
