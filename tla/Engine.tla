------------------------------- MODULE Engine -------------------------------
(***************************************************************************)
(* The part of SQLite the wrapper's correctness rests on: the transactions *)
(* of the connections to one database file, their locks on it (rollback    *)
(* journal, no busy handler: the wrapper installs none), and the halt of a *)
(* statement, where it commits, is refused or is rolled back.              *)
(*                                                                         *)
(* Connections are in different objects, threads or processes: a step is   *)
(* what one of them does between two requests for a lock, and the steps of *)
(* different connections interleave freely.  One connection runs one       *)
(* statement at a time here; statements nested by a callback are the       *)
(* matter of QueryPipeline.                                                *)
(***************************************************************************)
EXTENDS Sql

CONSTANTS Conns,        \* the connections to the file
          IoFaults      \* may a write of the journal or of the file fail?

ASSUME IoFaultsAssumption == IoFaults \in BOOLEAN

VARIABLES file,         \* the rows in the database file
          lock,         \* lock[c]: the pager's lock on the file
          autocommit,   \* autocommit[c]: sqlite3.autoCommit
          cache,        \* cache[c]: the rows as c sees them under its lock
          stmt,         \* stmt[c]: the statement c has prepared
          phase,        \* phase[c]: how far sqlite3_step() is with it
          rc            \* rc[c]: its result code

engineVars == <<file, lock, autocommit, cache, stmt, phase, rc>>

Locks   == {"none", "shared", "reserved", "pending", "exclusive"}
Writers == {"reserved", "pending", "exclusive"}

(* What is left of a statement after sqlite3_finalize(). *)
Finalized == Plain("finalized")

(* "backoff": a write was refused RESERVED and still has the SHARED lock it
   took on the way; "halt": the program ended, sqlite3VdbeHalt() is due;
   "commit": the EXCLUSIVE lock is held, the commit is not complete.
   "unbound" is no code of SQLite: the wrapper gave the statement up. *)
Phases  == {"step", "backoff", "halt", "commit", "done"}
Codes   == {"ok", "error", "busy", "constraint", "ioerr", "nomem", "unbound"}

EngineTypeOK ==
  /\ file \in SUBSET Rows
  /\ lock \in [Conns -> Locks]
  /\ autocommit \in [Conns -> BOOLEAN]
  /\ cache \in [Conns -> SUBSET Rows]
  /\ stmt \in [Conns -> Statements \union {Finalized}]
  /\ phase \in [Conns -> Phases]
  /\ rc \in [Conns -> Codes]

EngineInit ==
  /\ file \in {content \in SUBSET Rows : ~Orphaned(content)}
  /\ lock = [c \in Conns |-> "none"]
  /\ autocommit = [c \in Conns |-> TRUE]
  /\ cache = [c \in Conns |-> {}]
  /\ stmt = [c \in Conns |-> Finalized]
  /\ phase = [c \in Conns |-> "done"]
  /\ rc = [c \in Conns |-> "ok"]

-----------------------------------------------------------------------------
(* What the steps below are put together from. *)

Others(c) == Conns \ {c}

Steps(c, kind) == phase[c] = "step" /\ stmt[c].kind = kind
IsWrite(s)     == s.kind \in {"insert", "update", "delete"}
UsesTable(c) ==
  phase[c] = "step" /\ (IsWrite(stmt[c]) \/ stmt[c].kind = "select")

(* The statement is over with this code, and finalized. *)
Finish(c, code) ==
  /\ phase' = [phase EXCEPT ![c] = "done"]
  /\ stmt' = [stmt EXCEPT ![c] = Finalized]
  /\ rc' = [rc EXCEPT ![c] = code]

(* unixLock(SHARED): refused while another connection is PENDING or more.
   A connection that has the lock does not ask again. *)
SharedRefused(c) ==
  lock[c] = "none" /\ \E d \in Others(c) : lock[d] \in {"pending", "exclusive"}

(* Mutant: only a RESERVED lock stands in the way of RESERVED. *)
PendingIsOverlooked(c) == \E d \in Others(c) : lock[d] = "reserved"

(* unixLock(RESERVED): one connection at a time. *)
ReservedRefused(c) == \E d \in Others(c) : lock[d] \in Writers

(* unixLock(EXCLUSIVE): refused while any other connection is reading. *)
ExclusiveRefused(c) == \E d \in Others(c) : lock[d] # "none"

(* Mutant: the cache is not validated. *)
SeenStale(c) == cache[c]

(* ... and while one in another process is on its way to SHARED, for which it
   locks PENDING_BYTE for an instant: then c does not get PENDING either. *)
ReaderArrives(c) ==
  lock[c] = "reserved" /\ \E d \in Others(c) : lock[d] = "none" /\ UsesTable(d)

(* What a statement of c sees: a connection without a lock may have a stale
   cache, and validates it against the file when it gets SHARED. *)
Seen(c) == IF lock[c] = "none" THEN file ELSE cache[c]

Unlock(c) ==
  /\ lock' = [lock EXCEPT ![c] = "none"]
  /\ cache' = [cache EXCEPT ![c] = {}]

(* sqlite3RollbackAll() with autoCommit = 1. *)
RollbackAll(c) ==
  /\ Unlock(c)
  /\ autocommit' = [autocommit EXCEPT ![c] = TRUE]

-----------------------------------------------------------------------------
(* The calls of the API. *)

(* sqlite3_prepare_v2() and the start of sqlite3_step(). *)
Prepare(c, s) ==
  /\ phase[c] = "done"
  /\ stmt' = [stmt EXCEPT ![c] = s]
  /\ phase' = [phase EXCEPT ![c] = "step"]
  /\ rc' = [rc EXCEPT ![c] = "ok"]
  /\ UNCHANGED <<file, lock, autocommit, cache>>

(* sqlite3_prepare_v2() with no connection: SQLITE_MISUSE, and
   sqlite3_errmsg(NULL) is the text of SQLITE_NOMEM. *)
Misuse(c) ==
  /\ phase[c] = "done"
  /\ rc' = [rc EXCEPT ![c] = "nomem"]
  /\ UNCHANGED <<file, lock, autocommit, cache, stmt, phase>>

(* sqlite3_close_v2() or the end of the process: an open transaction is
   rolled back, by the call or from the journal by whoever reads next. *)
Drop(c) ==
  /\ RollbackAll(c)
  /\ Finish(c, "ok")
  /\ UNCHANGED file

-----------------------------------------------------------------------------
(* A statement that reads or writes no table. *)

StepMalformed(c) ==
  /\ Steps(c, "malformed")
  /\ Finish(c, "error")
  /\ UNCHANGED <<file, lock, autocommit, cache>>

(* A parameter cannot be bound: the statement is finalized without a step. *)
StepUnbindable(c) ==
  /\ Steps(c, "unbindable")
  /\ Finish(c, "unbound")
  /\ UNCHANGED <<file, lock, autocommit, cache>>

(* OP_AutoCommit 0: "cannot start a transaction within a transaction". *)
StepBegin(c) ==
  /\ Steps(c, "begin")
  /\ autocommit' = [autocommit EXCEPT ![c] = FALSE]
  /\ Finish(c, IF autocommit[c] THEN "ok" ELSE "error")
  /\ UNCHANGED <<file, lock, cache>>

(* OP_AutoCommit 1 in autocommit mode: "no transaction is active". *)
StepNoTransaction(c) ==
  /\ Steps(c, "end") \/ Steps(c, "rollback")
  /\ autocommit[c]
  /\ Finish(c, "error")
  /\ UNCHANGED <<file, lock, autocommit, cache>>

StepRollback(c) ==
  /\ Steps(c, "rollback")
  /\ ~autocommit[c]
  /\ RollbackAll(c)
  /\ Finish(c, "ok")
  /\ UNCHANGED file

(* END of a transaction that has written nothing. *)
StepEndRead(c) ==
  /\ Steps(c, "end")
  /\ ~autocommit[c]
  /\ lock[c] \notin Writers
  /\ RollbackAll(c)
  /\ Finish(c, "ok")
  /\ UNCHANGED file

(* END refused by a deferred foreign key: the transaction stays open. *)
StepEndOrphaned(c) ==
  /\ Steps(c, "end")
  /\ ~autocommit[c]
  /\ lock[c] \in Writers
  /\ Orphaned(cache[c])
  /\ Finish(c, "constraint")
  /\ UNCHANGED <<file, lock, autocommit, cache>>

(* END refused by a reader: the transaction stays open, with PENDING unless
   the reader was quicker. *)
StepEndBusy(c) ==
  /\ Steps(c, "end")
  /\ ~autocommit[c]
  /\ lock[c] \in Writers
  /\ ~Orphaned(cache[c])
  /\ \/ ExclusiveRefused(c) /\ lock' = [lock EXCEPT ![c] = "pending"]
     \/ ReaderArrives(c) /\ UNCHANGED lock
  /\ Finish(c, "busy")
  /\ UNCHANGED <<file, autocommit, cache>>

(* Mutant: the deferred foreign keys are not looked at. *)
EndUnchecked(c) ==
  /\ Steps(c, "end")
  /\ ~autocommit[c]
  /\ lock[c] \in Writers
  /\ ~ExclusiveRefused(c)
  /\ lock' = [lock EXCEPT ![c] = "exclusive"]
  /\ phase' = [phase EXCEPT ![c] = "commit"]
  /\ UNCHANGED <<file, autocommit, cache, stmt, rc>>

(* END with the file to itself: it goes on to Publish. *)
StepEndExclusive(c) ==
  /\ Steps(c, "end")
  /\ ~autocommit[c]
  /\ lock[c] \in Writers
  /\ ~Orphaned(cache[c])
  /\ ~ExclusiveRefused(c)
  /\ lock' = [lock EXCEPT ![c] = "exclusive"]
  /\ phase' = [phase EXCEPT ![c] = "commit"]
  /\ UNCHANGED <<file, autocommit, cache, stmt, rc>>

-----------------------------------------------------------------------------
(* A statement that reads or writes the table. *)

(* Mutant: the statement waits for the lock, as with a busy handler. *)
StepSharedWaits(c) ==
  /\ UsesTable(c)
  /\ SharedRefused(c)
  /\ UNCHANGED engineVars

StepSharedBusy(c) ==
  /\ UsesTable(c)
  /\ SharedRefused(c)
  /\ Finish(c, "busy")
  /\ UNCHANGED <<file, lock, autocommit, cache>>

StepSelect(c) ==
  /\ Steps(c, "select")
  /\ ~SharedRefused(c)
  /\ lock' = [lock EXCEPT ![c] = IF @ = "none" THEN "shared" ELSE @]
  /\ cache' = [cache EXCEPT ![c] = Seen(c)]
  /\ phase' = [phase EXCEPT ![c] = "halt"]
  /\ UNCHANGED <<file, autocommit, stmt, rc>>

(* A write gets SHARED but not RESERVED: it gives up at once, and SHARED is
   released if this statement had to take it (unlockBtreeIfUnused). *)
StepReservedBusy(c) ==
  /\ phase[c] = "step"
  /\ IsWrite(stmt[c])
  /\ ~SharedRefused(c)
  /\ ReservedRefused(c)
  /\ \/ /\ lock[c] = "none"
        /\ lock' = [lock EXCEPT ![c] = "shared"]
        /\ cache' = [cache EXCEPT ![c] = file]
        /\ phase' = [phase EXCEPT ![c] = "backoff"]
        /\ rc' = [rc EXCEPT ![c] = "busy"]
        /\ UNCHANGED stmt
     \/ /\ lock[c] # "none"
        /\ Finish(c, "busy")
        /\ UNCHANGED <<lock, cache>>
  /\ UNCHANGED <<file, autocommit>>

BackOff(c) ==
  /\ phase[c] = "backoff"
  /\ Unlock(c)
  /\ Finish(c, rc[c])
  /\ UNCHANGED <<file, autocommit>>

(* A write has RESERVED: it changes the cache, or a constraint undoes what
   it did and leaves the transaction as it was, with its lock. *)
StepWrite(c) ==
  /\ phase[c] = "step"
  /\ IsWrite(stmt[c])
  /\ ~SharedRefused(c)
  /\ ~ReservedRefused(c)
  /\ lock' = [lock EXCEPT ![c] = IF @ \in Writers THEN @ ELSE "reserved"]
  /\ phase' = [phase EXCEPT ![c] = "halt"]
  /\ \/ /\ Conflicts(Seen(c), stmt[c])
        /\ cache' = [cache EXCEPT ![c] = Seen(c)]
        /\ rc' = [rc EXCEPT ![c] = "constraint"]
     \/ /\ ~Conflicts(Seen(c), stmt[c])
        /\ cache' = [cache EXCEPT ![c] = Effect(Seen(c), stmt[c])]
        /\ UNCHANGED rc
  /\ UNCHANGED <<file, autocommit, stmt>>

(* A write fails on the journal: the special errors of sqlite3VdbeHalt()
   roll the whole transaction back and return to autocommit mode. *)
StepIoError(c) ==
  /\ IoFaults
  /\ phase[c] = "step"
  /\ IsWrite(stmt[c])
  /\ ~SharedRefused(c)
  /\ ~ReservedRefused(c)
  /\ RollbackAll(c)
  /\ Finish(c, "ioerr")
  /\ UNCHANGED file

(* Mutant: the result is overwritten by the state of the machine. *)
HaltReturnsPhase(c) ==
  /\ phase[c] = "halt"
  /\ ~autocommit[c]
  /\ Finish(c, phase[c])
  /\ UNCHANGED <<file, lock, autocommit, cache>>

(* sqlite3VdbeHalt() inside a transaction: nothing is committed, and the
   transaction keeps its locks. *)
HaltInTransaction(c) ==
  /\ phase[c] = "halt"
  /\ ~autocommit[c]
  /\ Finish(c, rc[c])
  /\ UNCHANGED <<file, lock, autocommit, cache>>

(* ... in autocommit mode, after a SELECT or a failed write. *)
HaltRelease(c) ==
  /\ phase[c] = "halt"
  /\ autocommit[c]
  /\ lock[c] = "shared" \/ rc[c] # "ok"
  /\ Unlock(c)
  /\ Finish(c, rc[c])
  /\ UNCHANGED <<file, autocommit>>

(* ... in autocommit mode, a write whose commit is refused: rolled back. *)
HaltRefused(c) ==
  /\ phase[c] = "halt"
  /\ autocommit[c]
  /\ lock[c] # "shared" /\ rc[c] = "ok"
  /\ \/ Orphaned(cache[c]) /\ Finish(c, "constraint")
     \/ /\ ~Orphaned(cache[c])
        /\ ExclusiveRefused(c) \/ ReaderArrives(c)
        /\ Finish(c, "busy")
  /\ Unlock(c)
  /\ UNCHANGED <<file, autocommit>>

(* ... in autocommit mode, a write that goes on to Publish. *)
HaltExclusive(c) ==
  /\ phase[c] = "halt"
  /\ autocommit[c]
  /\ lock[c] # "shared" /\ rc[c] = "ok"
  /\ ~Orphaned(cache[c])
  /\ ~ExclusiveRefused(c)
  /\ lock' = [lock EXCEPT ![c] = "exclusive"]
  /\ phase' = [phase EXCEPT ![c] = "commit"]
  /\ UNCHANGED <<file, autocommit, cache, stmt, rc>>

(* vdbeCommit(): the file is written and the journal is deleted. *)
Publish(c) ==
  /\ phase[c] = "commit"
  /\ file' = cache[c]
  /\ RollbackAll(c)
  /\ Finish(c, "ok")

(* vdbeCommit() fails: the journal is played back. *)
PublishIoError(c) ==
  /\ IoFaults
  /\ phase[c] = "commit"
  /\ RollbackAll(c)
  /\ Finish(c, "ioerr")
  /\ UNCHANGED file

-----------------------------------------------------------------------------
(* What SQLite does on its own while a statement runs. *)
Progress(c) ==
  \/ StepMalformed(c) \/ StepUnbindable(c)
  \/ StepBegin(c) \/ StepNoTransaction(c)
  \/ StepRollback(c) \/ StepEndRead(c) \/ StepEndOrphaned(c)
  \/ StepEndBusy(c) \/ StepEndExclusive(c)
  \/ StepSharedBusy(c) \/ StepSelect(c)
  \/ StepReservedBusy(c) \/ BackOff(c) \/ StepWrite(c) \/ StepIoError(c)
  \/ HaltInTransaction(c) \/ HaltRelease(c) \/ HaltRefused(c)
  \/ HaltExclusive(c) \/ Publish(c) \/ PublishIoError(c)

EngineNext ==
  \E c \in Conns :
    \/ \E s \in Statements : Prepare(c, s)
    \/ Misuse(c)
    \/ Drop(c)
    \/ Progress(c)

EngineSpec == EngineInit /\ [][EngineNext]_engineVars

-----------------------------------------------------------------------------
(* Safety. *)

(* One connection at a time may have changed its cache, and the one that is
   writing the file is alone with it. *)
LocksExclude ==
  \A c \in Conns : \A d \in Others(c) :
    /\ lock[c] \in Writers => lock[d] \notin Writers
    /\ lock[c] = "exclusive" => lock[d] = "none"

(* A connection that reads keeps seeing what is in the file: nobody can
   change the file under a SHARED lock, however long the caller holds it by
   leaving a transaction open. *)
ReadersSeeTheFile == \A c \in Conns : lock[c] = "shared" => cache[c] = file

(* Whatever the interleaving, refusal, failure or crash, a commit never puts
   a row in the file whose deferred foreign key has no parent there. *)
FileIsNotOrphaned == ~Orphaned(file)

(* A connection outside a transaction has no lock between two statements:
   an idle object never stands in another one's way. *)
IdleHoldsNoLock ==
  \A c \in Conns : autocommit[c] /\ phase[c] \in {"step", "done"}
                     => lock[c] = "none"

(* The only connection that refuses readers for longer than a statement is
   one whose END was refused: PENDING is never taken outside a transaction. *)
PendingIsATransaction ==
  \A c \in Conns : lock[c] = "pending" => ~autocommit[c]

(* The locks do what SQLite takes them for, and none is held for nothing:
   writers exclude each other, readers keep what they read, an idle object
   stands in nobody's way, and PENDING is left behind by a refused END only. *)
LocksAreSound ==
  LocksExclude /\ ReadersSeeTheFile /\ IdleHoldsNoLock /\ PendingIsATransaction

(* The engine is a transactional store: locks and caches are its snapshots. *)
Store == INSTANCE TransactionalStore WITH
           store  <- file,
           active <- {c \in Conns : lock[c] # "none"},
           dirty  <- {c \in Conns : lock[c] \in Writers},
           snap   <- cache

ImplementsStore == Store!StoreSpec
=============================================================================
