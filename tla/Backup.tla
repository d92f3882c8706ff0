------------------------------- MODULE Backup -------------------------------
(***************************************************************************)
(* backup_to() and restore_from(): backup_database() copies the file of    *)
(* one connection over the file of another, in one call of                 *)
(* sqlite3_backup_step().  One of the two is the object's own connection,  *)
(* the other is opened for the call.  Two Engines, one for each file, say  *)
(* what the connections of other objects and processes do meanwhile.       *)
(***************************************************************************)
EXTENDS Sql

CONSTANTS Sources,        \* the connections to the file that is copied
          Destinations,   \* the connections to the file that is overwritten
          From, To,       \* the two that backup_database() is given
          Used            \* Used[c]: the statements connection c runs

ASSUME EndsAssumption == From \in Sources /\ To \in Destinations /\ From # To
ASSUME UsedAssumption == Used \in [Sources \union Destinations -> SUBSET Statements]

VARIABLES sFile, sLock, sAutocommit, sCache, sStmt, sPhase, sRc,
          dFile, dLock, dAutocommit, dCache, dStmt, dPhase, dRc,
          opened,    \* which of the two is opened for the call: To by
                     \* backup_to(), From by restore_from()
          at,        \* how far the call is
          closes,    \* bCloseTrans
          rc,        \* sqlite3_backup.rc, then destination_db->errCode
          returned,  \* what the last call returned, "none" during a call
          copied,    \* was the destination overwritten?     (history)
          before     \* the source's lock when it was called (history)

sVars == <<sFile, sLock, sAutocommit, sCache, sStmt, sPhase, sRc>>
dVars == <<dFile, dLock, dAutocommit, dCache, dStmt, dPhase, dRc>>
call  == <<opened, at, closes, rc, returned, copied, before>>
vars  == <<sVars, dVars, call>>

Source == INSTANCE Engine WITH
  Conns <- Sources, IoFaults <- FALSE,
  file <- sFile, lock <- sLock, autocommit <- sAutocommit, cache <- sCache,
  stmt <- sStmt, phase <- sPhase, rc <- sRc

Destination == INSTANCE Engine WITH
  Conns <- Destinations, IoFaults <- FALSE,
  file <- dFile, lock <- dLock, autocommit <- dAutocommit, cache <- dCache,
  stmt <- dStmt, phase <- dPhase, rc <- dRc

Stages == {"idle", "source", "shared", "reserved", "exclusive", "refused",
           "copy", "commit", "close", "finish"}

TypeOK ==
  /\ Source!EngineTypeOK /\ Destination!EngineTypeOK
  /\ opened \in {From, To}
  /\ at \in Stages
  /\ closes \in BOOLEAN /\ copied \in BOOLEAN
  /\ rc \in {"ok", "busy", "ioerr"}
  /\ returned \in {"none", "true", "false"}
  /\ before \in Source!Locks

Init ==
  /\ Source!EngineInit /\ Destination!EngineInit
  /\ opened \in {From, To}
  /\ at = "idle" /\ closes = FALSE /\ rc = "ok"
  /\ returned = "none" /\ copied = FALSE /\ before = "none"

-----------------------------------------------------------------------------
(* The other connections, and the object's own between two calls. *)

Steps(c) == c \in {From, To} => at = "idle" /\ c # opened

SourceSteps ==
  /\ \E c \in Sources :
       /\ Steps(c)
       /\ \/ \E s \in Used[c] : Source!Prepare(c, s)
          \/ Source!Progress(c) \/ Source!Drop(c)
  /\ UNCHANGED <<dVars, call>>

DestinationSteps ==
  /\ \E c \in Destinations :
       /\ Steps(c)
       /\ \/ \E s \in Used[c] : Destination!Prepare(c, s)
          \/ Destination!Progress(c) \/ Destination!Drop(c)
  /\ UNCHANGED <<sVars, call>>

-----------------------------------------------------------------------------
(* sqlite3_backup_init(): "destination database is in use" if the object is
   in a transaction that has read or written. *)

Goes(stage) == at' = stage /\ UNCHANGED <<opened, closes, rc, returned, copied, before>>
Fails(code, stage) ==
  at' = stage /\ rc' = code /\ UNCHANGED <<opened, closes, returned, copied, before>>

backup_init ==
  /\ at = "idle"
  /\ sPhase[From] = "done" /\ dPhase[To] = "done"
  /\ \/ /\ dLock[To] = "none"
        /\ at' = "source" /\ returned' = "none" /\ before' = sLock[From]
     \/ /\ dLock[To] # "none"
        /\ returned' = "false"
        /\ UNCHANGED <<at, before>>
  /\ UNCHANGED <<sVars, dVars, opened, closes, rc, copied>>

-----------------------------------------------------------------------------
(* sqlite3_backup_step(-1) *)

(* Mutant: a source in the middle of a transaction is copied as well. *)
LockSourceDirty ==
  /\ at = "source"
  /\ ~Source!SharedRefused(From)
  /\ closes' = (sLock[From] = "none")
  /\ sLock' = [sLock EXCEPT ![From] = IF @ = "none" THEN "shared" ELSE @]
  /\ sCache' = [sCache EXCEPT ![From] = Source!Seen(From)]
  /\ at' = "shared"
  /\ UNCHANGED <<sFile, sAutocommit, sStmt, sPhase, sRc, dVars, opened, rc,
                 returned, copied, before>>

(* Mutant: the source's transaction is taken for the call's own. *)
LockSourceCloses ==
  /\ at = "source"
  /\ sLock[From] \notin Source!Writers
  /\ ~Source!SharedRefused(From)
  /\ closes' = TRUE
  /\ sLock' = [sLock EXCEPT ![From] = "shared"]
  /\ sCache' = [sCache EXCEPT ![From] = Source!Seen(From)]
  /\ at' = "shared"
  /\ UNCHANGED <<sFile, sAutocommit, sStmt, sPhase, sRc, dVars, opened, rc,
                 returned, copied, before>>

(* A read transaction, unless the source is in one. *)
LockSource ==
  /\ at = "source"
  /\ sLock[From] \notin Source!Writers
  /\ ~Source!SharedRefused(From)
  /\ closes' = (sLock[From] = "none")
  /\ sLock' = [sLock EXCEPT ![From] = "shared"]
  /\ sCache' = [sCache EXCEPT ![From] = Source!Seen(From)]
  /\ at' = "shared"
  /\ UNCHANGED <<sFile, sAutocommit, sStmt, sPhase, sRc, dVars, opened, rc,
                 returned, copied, before>>

SourceBusy ==
  /\ at = "source"
  /\ sLock[From] \in Source!Writers \/ Source!SharedRefused(From)
  /\ Fails("busy", "finish")
  /\ UNCHANGED <<sVars, dVars>>

(* sqlite3BtreeBeginTrans(2): SHARED, RESERVED and EXCLUSIVE, with no busy
   handler to wait for one. *)
TakeLock(lock, stage) ==
  /\ dLock' = [dLock EXCEPT ![To] = lock]
  /\ dCache' = [dCache EXCEPT ![To] = dFile]
  /\ Goes(stage)
  /\ UNCHANGED <<sVars, dFile, dAutocommit, dStmt, dPhase, dRc>>

LockShared ==
  /\ at = "shared"
  /\ ~Destination!SharedRefused(To)
  /\ TakeLock("shared", "reserved")

LockReserved ==
  /\ at = "reserved"
  /\ ~Destination!ReservedRefused(To)
  /\ TakeLock("reserved", "exclusive")

(* Mutant: the readers of the destination are not waited for. *)
LockExclusiveAtOnce ==
  /\ at = "exclusive"
  /\ TakeLock("exclusive", "copy")

LockExclusive ==
  /\ at = "exclusive"
  /\ ~Destination!ExclusiveRefused(To)
  /\ TakeLock("exclusive", "copy")

(* Mutant: the call waits for the destination. *)
DestinationWaits ==
  /\ at = "shared" /\ Destination!SharedRefused(To)
  /\ UNCHANGED vars

DestinationBusy ==
  /\ \/ at = "shared" /\ Destination!SharedRefused(To) /\ UNCHANGED dLock
     \/ at = "reserved" /\ Destination!ReservedRefused(To) /\ UNCHANGED dLock
     \/ /\ at = "exclusive" /\ Destination!ExclusiveRefused(To)
        /\ dLock' = [dLock EXCEPT ![To] = "pending"]
     \/ at = "exclusive" /\ Destination!ReaderArrives(To) /\ UNCHANGED dLock
  /\ Fails("busy", "refused")
  /\ UNCHANGED <<sVars, dFile, dAutocommit, dCache, dStmt, dPhase, dRc>>

(* unlockBtreeIfUnused() *)
Release ==
  /\ at = "refused"
  /\ Destination!Unlock(To)
  /\ Goes("close")
  /\ UNCHANGED <<sVars, dFile, dAutocommit, dStmt, dPhase, dRc>>

CopyPages ==
  /\ at = "copy"
  /\ dCache' = [dCache EXCEPT ![To] = sCache[From]]
  /\ Goes("commit")
  /\ UNCHANGED <<sVars, dFile, dLock, dAutocommit, dStmt, dPhase, dRc>>

IoError ==
  /\ at \in {"copy", "commit"}
  /\ Fails("ioerr", "close")
  /\ UNCHANGED <<sVars, dVars>>

(* The transaction of the Btree is committed, whatever autoCommit says: a
   transaction that was begun and has not read stays open, with no part in it. *)
Commit ==
  /\ at = "commit"
  /\ dFile' = dCache[To]
  /\ Destination!Unlock(To)
  /\ at' = "close" /\ copied' = TRUE
  /\ UNCHANGED <<sVars, dAutocommit, dStmt, dPhase, dRc, opened, closes, rc,
                 returned, before>>

CloseSource ==
  /\ at = "close"
  /\ \/ closes /\ Source!Unlock(From)
     \/ ~closes /\ UNCHANGED <<sLock, sCache>>
  /\ Goes("finish")
  /\ UNCHANGED <<sFile, sAutocommit, sStmt, sPhase, sRc, dVars>>

-----------------------------------------------------------------------------
(* sqlite3_backup_finish(), which leaves the outcome of the step in the
   destination, where backup_database() asks for it; the results of step and
   finish are not looked at. *)

Idle ==
  at' = "idle" /\ closes' = FALSE /\ rc' = "ok" /\ copied' = FALSE /\ before' = "none"

backup_finish ==
  /\ at = "finish"
  /\ Destination!Unlock(To)
  /\ returned' = IF rc = "ok" THEN "true" ELSE "false"
  /\ Idle
  /\ UNCHANGED <<sVars, dFile, dAutocommit, dStmt, dPhase, dRc, opened>>

(* The process of the call ends; what was written to the destination before
   the commit is played back from the journal by whoever opens it next. *)
Crash ==
  /\ at # "idle"
  /\ Source!Drop(From) /\ Destination!Drop(To)
  /\ Idle /\ UNCHANGED <<opened, returned>>

Copying ==
  \/ LockSource \/ SourceBusy
  \/ LockShared \/ LockReserved \/ LockExclusive \/ DestinationBusy \/ Release
  \/ CopyPages \/ IoError \/ Commit \/ CloseSource \/ backup_finish

Next == SourceSteps \/ DestinationSteps \/ backup_init \/ Copying \/ Crash

(* The call is a plain sequence of calls of SQLite; nothing is said of the
   others: they may stop with their locks. *)
Spec == Init /\ [][Next]_vars /\ WF_vars(Copying)
-----------------------------------------------------------------------------
(* Properties. *)

(* The one step that overwrites the destination makes it what is committed
   in the source at that moment: never a transaction in progress, and never
   content that another process has replaced since. *)
CopiesWhatIsCommitted == [][copied' /\ ~copied => dFile' = sFile]_vars

(* The steps of the call keep the discipline of the locks on both files. *)
LocksAreKept ==
  /\ TypeOK
  /\ Source!LocksExclude /\ Source!ReadersSeeTheFile
  /\ Destination!LocksExclude /\ Destination!ReadersSeeTheFile

(* Although the results of the step and of finish are thrown away, the call
   returns true if and only if the destination was overwritten; and whatever
   the outcome, it gives back what it has locked and nothing else: a
   transaction the object is in goes on with the snapshot it has. *)
ReturnsCleanly ==
  [][at = "finish" /\ returned' # "none" =>
       /\ returned' = "true" <=> copied
       /\ sLock'[From] = before /\ dLock'[To] = "none"]_vars

(* No lock of another process keeps the call from returning. *)
CallReturns == at # "idle" ~> at = "idle"
=============================================================================
