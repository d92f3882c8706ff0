---------------------------- MODULE BackupProofs ----------------------------
(***************************************************************************)
(* Theorems about Backup, for any number of connections to the two files,  *)
(* any rows and any statements.                                            *)
(***************************************************************************)
EXTENDS Backup, TLAPS

(* What relates the phase of a statement to the lock.  It says less than
   PhasesMatchLocks does of Engine: the call takes locks without a statement. *)
SourcePhases ==
  \A c \in Sources :
    /\ sPhase[c] = "step" => sStmt[c] \in Statements
    /\ sPhase[c] = "backoff" => sLock[c] = "shared"
    /\ sPhase[c] = "halt" => sLock[c] # "none"
    /\ sPhase[c] = "commit" => sLock[c] = "exclusive"

DestinationPhases ==
  \A c \in Destinations :
    /\ dPhase[c] = "step" => dStmt[c] \in Statements
    /\ dPhase[c] = "backoff" => dLock[c] = "shared"
    /\ dPhase[c] = "halt" => dLock[c] # "none"
    /\ dPhase[c] = "commit" => dLock[c] = "exclusive"

SourceKept ==
  /\ Source!EngineTypeOK /\ SourcePhases
  /\ Source!LocksExclude /\ Source!ReadersSeeTheFile

DestinationKept ==
  /\ Destination!EngineTypeOK /\ DestinationPhases
  /\ Destination!LocksExclude /\ Destination!ReadersSeeTheFile

(* The stages at which the call has its lock on the source. *)
AfterLock == {"shared", "reserved", "exclusive", "refused", "copy", "commit", "close"}

(* The lock on the source is the one it had, or SHARED and known for the
   call's own if it had none. *)
SourceInv ==
  /\ at # "idle" => sPhase[From] = "done"
  /\ at \in {"source", "finish"} => sLock[From] = before
  /\ at \in AfterLock => /\ sLock[From] = "shared"
                         /\ before = IF closes THEN "none" ELSE "shared"

(* The lock on the destination is that of the stage, and what is committed to
   it is what the source sees. *)
DestinationInv ==
  /\ at # "idle" => dPhase[To] = "done"
  /\ at \in {"source", "shared"} => dLock[To] = "none"
  /\ at = "reserved" => dLock[To] = "shared"
  /\ at = "exclusive" => dLock[To] = "reserved"
  /\ at \in {"copy", "commit"} => dLock[To] = "exclusive"
  /\ at = "commit" => dCache[To] = sCache[From]

(* The result code tells whether the destination was overwritten. *)
OutcomeInv ==
  /\ at # "idle" => returned = "none"
  /\ at \in {"close", "finish"} => (copied <=> rc = "ok")
  /\ at \notin {"close", "finish"} => ~copied
  /\ at \notin {"refused", "close", "finish"} => rc = "ok"
  /\ at = "refused" => rc # "ok"

(* The variables of the call itself. *)
CallTypes ==
  /\ opened \in {From, To}
  /\ at \in Stages
  /\ closes \in BOOLEAN /\ copied \in BOOLEAN
  /\ rc \in {"ok", "busy", "ioerr"}
  /\ returned \in {"none", "true", "false"}
  /\ before \in Source!Locks

BackupInv ==
  /\ SourceKept /\ DestinationKept
  /\ CallTypes
  /\ SourceInv /\ DestinationInv /\ OutcomeInv

-----------------------------------------------------------------------------
(* The statements of the connections. *)

(* The two Engines run the same statements. *)
LEMMA SameStatements ==
  /\ Source!Statements = Statements /\ Destination!Statements = Statements
  BY DEF Statements, Source!Statements, Destination!Statements,
         BeginStmt, Source!BeginStmt, Destination!BeginStmt,
         EndStmt, Source!EndStmt, Destination!EndStmt,
         RollbackStmt, Source!RollbackStmt, Destination!RollbackStmt,
         SelectStmt, Source!SelectStmt, Destination!SelectStmt,
         Malformed, Source!Malformed, Destination!Malformed,
         Unbindable, Source!Unbindable, Destination!Unbindable,
         Plain, Source!Plain, Destination!Plain

(* The statement of a connection keeps the table of the source within Rows. *)
LEMMA SourceEffectType ==
  ASSUME NEW content \in SUBSET Rows, NEW s \in Statements
  PROVE  Source!Effect(content, s) \in SUBSET Rows
  BY WritesAssumption
  DEF Source!Effect, Statements, Plain, BeginStmt, EndStmt, RollbackStmt, SelectStmt,
      Malformed, Unbindable

(* A statement begins, goes on, or goes with its connection: the types. *)
LEMMA SourceTypeStep ==
  ASSUME SourceKept, NEW c \in Sources,
         \/ \E s \in Statements : Source!Prepare(c, s)
         \/ Source!Progress(c) \/ Source!Drop(c)
  PROVE  Source!EngineTypeOK'
  <1> USE DEF SourceKept, Source!EngineTypeOK, Source!Locks, Source!Phases, Source!Codes
  <1>1. ASSUME NEW s \in Statements, Source!Prepare(c, s)
        PROVE  Source!EngineTypeOK'
    BY <1>1, SameStatements DEF Source!Prepare
  <1>2. CASE Source!Drop(c)
    BY <1>2 DEF Source!Drop, Source!RollbackAll, Source!Unlock, Source!Finish
  <1>3. CASE Source!Progress(c)
    <2>0. Source!Seen(c) \in SUBSET Rows
      BY DEF Source!Seen
    <2>1. CASE Source!StepMalformed(c) \/ Source!StepUnbindable(c)
      BY <2>1 DEF Source!StepMalformed, Source!StepUnbindable, Source!Finish
    <2>2. CASE Source!StepBegin(c)
      BY <2>2 DEF Source!StepBegin, Source!Finish
    <2>3. CASE Source!StepNoTransaction(c)
      BY <2>3 DEF Source!StepNoTransaction, Source!Finish
    <2>4. CASE Source!StepRollback(c)
      BY <2>4 DEF Source!StepRollback, Source!RollbackAll, Source!Unlock,
             Source!Finish
    <2>5. CASE Source!StepEndRead(c)
      BY <2>5 DEF Source!StepEndRead, Source!RollbackAll, Source!Unlock,
             Source!Finish
    <2>6. CASE Source!StepEndOrphaned(c)
      BY <2>6 DEF Source!StepEndOrphaned, Source!Finish
    <2>7. CASE Source!StepEndBusy(c)
      BY <2>7 DEF Source!StepEndBusy, Source!Finish
    <2>8. CASE Source!StepEndExclusive(c)
      BY <2>8 DEF Source!StepEndExclusive
    <2>9. CASE Source!StepSharedBusy(c)
      BY <2>9 DEF Source!StepSharedBusy, Source!Finish
    <2>10. CASE Source!StepSelect(c)
      BY <2>0, <2>10 DEF Source!StepSelect
    <2>11. CASE Source!StepReservedBusy(c)
      BY <2>11 DEF Source!StepReservedBusy, Source!Finish
    <2>12. CASE Source!BackOff(c)
      BY <2>12 DEF Source!BackOff, Source!Unlock, Source!Finish
    <2>13. CASE Source!StepWrite(c)
      <3>1. Source!Effect(Source!Seen(c), sStmt[c]) \in SUBSET Rows
        BY <2>0, <2>13, SourceEffectType DEF Source!StepWrite, SourcePhases
      <3>2. QED
        BY <2>0, <2>13, <3>1 DEF Source!StepWrite
    <2>14. CASE Source!StepIoError(c)
      BY <2>14 DEF Source!StepIoError, Source!RollbackAll, Source!Unlock,
             Source!Finish
    <2>15. CASE Source!HaltInTransaction(c)
      BY <2>15 DEF Source!HaltInTransaction, Source!Finish
    <2>16. CASE Source!HaltRelease(c)
      BY <2>16 DEF Source!HaltRelease, Source!Unlock, Source!Finish
    <2>17. CASE Source!HaltRefused(c)
      BY <2>17 DEF Source!HaltRefused, Source!Unlock, Source!Finish
    <2>18. CASE Source!HaltExclusive(c)
      BY <2>18 DEF Source!HaltExclusive
    <2>19. CASE Source!Publish(c)
      BY <2>19 DEF Source!Publish, Source!RollbackAll, Source!Unlock, Source!Finish
    <2>20. CASE Source!PublishIoError(c)
      BY <2>20 DEF Source!PublishIoError, Source!RollbackAll, Source!Unlock,
             Source!Finish
    <2>21. QED
      BY <1>3, <2>1, <2>2, <2>3, <2>4, <2>5, <2>6, <2>7, <2>8, <2>9, <2>10,
         <2>11, <2>12, <2>13, <2>14, <2>15, <2>16, <2>17, <2>18, <2>19, <2>20 DEF Source!Progress
  <1>4. QED
    BY <1>1, <1>2, <1>3

(* ... and the rest of what is kept; the other connections notice nothing. *)
LEMMA SourceStep ==
  ASSUME SourceKept, NEW c \in Sources,
         \/ \E s \in Statements : Source!Prepare(c, s)
         \/ Source!Progress(c) \/ Source!Drop(c)
  PROVE  /\ SourceKept'
         /\ \A d \in Sources \ {c} :
              UNCHANGED <<sLock[d], sCache[d], sPhase[d]>>
  <1> DEFINE Rest == /\ SourcePhases
                     /\ Source!LocksExclude /\ Source!ReadersSeeTheFile
             Others == \A d \in Sources \ {c} :
                         UNCHANGED <<sLock[d], sCache[d], sPhase[d]>>
  <1>0. Source!EngineTypeOK'
    BY SourceTypeStep
  <1> SUFFICES Rest' /\ Others
    BY <1>0 DEF SourceKept
  <1> USE DEF SourceKept, Source!EngineTypeOK, SourcePhases, Source!LocksExclude,
              Source!ReadersSeeTheFile, Source!Others, Source!Writers
  <1>1. ASSUME NEW s \in Statements, Source!Prepare(c, s)
        PROVE  Rest' /\ Others
    BY <1>1 DEF Source!Prepare
  <1>2. CASE Source!Drop(c)
    BY <1>2 DEF Source!Drop, Source!RollbackAll, Source!Unlock, Source!Finish
  <1>3. CASE Source!Progress(c)
    <2>1. CASE Source!StepMalformed(c) \/ Source!StepUnbindable(c)
      BY <2>1 DEF Source!StepMalformed, Source!StepUnbindable, Source!Finish, Source!Steps
    <2>2. CASE Source!StepBegin(c)
      BY <2>2 DEF Source!StepBegin, Source!Finish, Source!Steps
    <2>3. CASE Source!StepNoTransaction(c)
      BY <2>3 DEF Source!StepNoTransaction, Source!Finish, Source!Steps
    <2>4. CASE Source!StepRollback(c)
      BY <2>4 DEF Source!StepRollback, Source!RollbackAll, Source!Unlock,
             Source!Finish
    <2>5. CASE Source!StepEndRead(c)
      BY <2>5 DEF Source!StepEndRead, Source!RollbackAll, Source!Unlock,
             Source!Finish
    <2>6. CASE Source!StepEndOrphaned(c)
      BY <2>6 DEF Source!StepEndOrphaned, Source!Steps, Source!Finish
    <2>7. CASE Source!StepEndBusy(c)
      BY <2>7 DEF Source!StepEndBusy, Source!Steps, Source!Finish,
             Source!ExclusiveRefused
    <2>8. CASE Source!StepEndExclusive(c)
      BY <2>8 DEF Source!StepEndExclusive, Source!Steps, Source!ExclusiveRefused
    <2>9. CASE Source!StepSharedBusy(c)
      BY <2>9 DEF Source!StepSharedBusy, Source!UsesTable, Source!Finish
    <2>10. CASE Source!StepSelect(c)
      BY <2>10 DEF Source!StepSelect, Source!Steps, Source!Seen, Source!SharedRefused
    <2>11. CASE Source!StepReservedBusy(c)
      BY <2>11 DEF Source!StepReservedBusy, Source!Finish, Source!SharedRefused
    <2>12. CASE Source!BackOff(c)
      BY <2>12 DEF Source!BackOff, Source!Unlock, Source!Finish
    <2>13. CASE Source!StepWrite(c)
      BY <2>13 DEF Source!StepWrite, Source!SharedRefused, Source!ReservedRefused
    <2>14. CASE Source!StepIoError(c)
      BY <2>14 DEF Source!StepIoError, Source!RollbackAll, Source!Unlock,
             Source!Finish
    <2>15. CASE Source!HaltInTransaction(c)
      BY <2>15 DEF Source!HaltInTransaction, Source!Finish
    <2>16. CASE Source!HaltRelease(c)
      BY <2>16 DEF Source!HaltRelease, Source!Unlock, Source!Finish
    <2>17. CASE Source!HaltRefused(c)
      BY <2>17 DEF Source!HaltRefused, Source!Unlock, Source!Finish
    <2>18. CASE Source!HaltExclusive(c)
      BY <2>18 DEF Source!HaltExclusive, Source!ExclusiveRefused
    <2>19. CASE Source!Publish(c)
      BY <2>19 DEF Source!Publish, Source!RollbackAll, Source!Unlock, Source!Finish
    <2>20. CASE Source!PublishIoError(c)
      BY <2>20 DEF Source!PublishIoError, Source!RollbackAll, Source!Unlock,
             Source!Finish
    <2>21. QED
      BY <1>3, <2>1, <2>2, <2>3, <2>4, <2>5, <2>6, <2>7, <2>8, <2>9, <2>10,
         <2>11, <2>12, <2>13, <2>14, <2>15, <2>16, <2>17, <2>18, <2>19, <2>20 DEF Source!Progress
  <1>4. QED
    BY <1>0, <1>1, <1>2, <1>3

(* The statement of a connection keeps the table of the destination within Rows. *)
LEMMA DestinationEffectType ==
  ASSUME NEW content \in SUBSET Rows, NEW s \in Statements
  PROVE  Destination!Effect(content, s) \in SUBSET Rows
  BY WritesAssumption
  DEF Destination!Effect, Statements, Plain, BeginStmt, EndStmt, RollbackStmt, SelectStmt,
      Malformed, Unbindable

(* A statement begins, goes on, or goes with its connection: the types. *)
LEMMA DestinationTypeStep ==
  ASSUME DestinationKept, NEW c \in Destinations,
         \/ \E s \in Statements : Destination!Prepare(c, s)
         \/ Destination!Progress(c) \/ Destination!Drop(c)
  PROVE  Destination!EngineTypeOK'
  <1> USE DEF DestinationKept, Destination!EngineTypeOK, Destination!Locks, Destination!Phases, Destination!Codes
  <1>1. ASSUME NEW s \in Statements, Destination!Prepare(c, s)
        PROVE  Destination!EngineTypeOK'
    BY <1>1, SameStatements DEF Destination!Prepare
  <1>2. CASE Destination!Drop(c)
    BY <1>2 DEF Destination!Drop, Destination!RollbackAll, Destination!Unlock, Destination!Finish
  <1>3. CASE Destination!Progress(c)
    <2>0. Destination!Seen(c) \in SUBSET Rows
      BY DEF Destination!Seen
    <2>1. CASE Destination!StepMalformed(c) \/ Destination!StepUnbindable(c)
      BY <2>1 DEF Destination!StepMalformed, Destination!StepUnbindable, Destination!Finish
    <2>2. CASE Destination!StepBegin(c)
      BY <2>2 DEF Destination!StepBegin, Destination!Finish
    <2>3. CASE Destination!StepNoTransaction(c)
      BY <2>3 DEF Destination!StepNoTransaction, Destination!Finish
    <2>4. CASE Destination!StepRollback(c)
      BY <2>4 DEF Destination!StepRollback, Destination!RollbackAll,
             Destination!Unlock, Destination!Finish
    <2>5. CASE Destination!StepEndRead(c)
      BY <2>5 DEF Destination!StepEndRead, Destination!RollbackAll,
             Destination!Unlock, Destination!Finish
    <2>6. CASE Destination!StepEndOrphaned(c)
      BY <2>6 DEF Destination!StepEndOrphaned, Destination!Finish
    <2>7. CASE Destination!StepEndBusy(c)
      BY <2>7 DEF Destination!StepEndBusy, Destination!Finish
    <2>8. CASE Destination!StepEndExclusive(c)
      BY <2>8 DEF Destination!StepEndExclusive
    <2>9. CASE Destination!StepSharedBusy(c)
      BY <2>9 DEF Destination!StepSharedBusy, Destination!Finish
    <2>10. CASE Destination!StepSelect(c)
      BY <2>0, <2>10 DEF Destination!StepSelect
    <2>11. CASE Destination!StepReservedBusy(c)
      BY <2>11 DEF Destination!StepReservedBusy, Destination!Finish
    <2>12. CASE Destination!BackOff(c)
      BY <2>12 DEF Destination!BackOff, Destination!Unlock, Destination!Finish
    <2>13. CASE Destination!StepWrite(c)
      <3>1. Destination!Effect(Destination!Seen(c), dStmt[c]) \in SUBSET Rows
        BY <2>0, <2>13, DestinationEffectType DEF Destination!StepWrite, DestinationPhases
      <3>2. QED
        BY <2>0, <2>13, <3>1 DEF Destination!StepWrite
    <2>14. CASE Destination!StepIoError(c)
      BY <2>14 DEF Destination!StepIoError, Destination!RollbackAll,
             Destination!Unlock, Destination!Finish
    <2>15. CASE Destination!HaltInTransaction(c)
      BY <2>15 DEF Destination!HaltInTransaction, Destination!Finish
    <2>16. CASE Destination!HaltRelease(c)
      BY <2>16 DEF Destination!HaltRelease, Destination!Unlock, Destination!Finish
    <2>17. CASE Destination!HaltRefused(c)
      BY <2>17 DEF Destination!HaltRefused, Destination!Unlock, Destination!Finish
    <2>18. CASE Destination!HaltExclusive(c)
      BY <2>18 DEF Destination!HaltExclusive
    <2>19. CASE Destination!Publish(c)
      BY <2>19 DEF Destination!Publish, Destination!RollbackAll, Destination!Unlock,
             Destination!Finish
    <2>20. CASE Destination!PublishIoError(c)
      BY <2>20 DEF Destination!PublishIoError, Destination!RollbackAll,
             Destination!Unlock, Destination!Finish
    <2>21. QED
      BY <1>3, <2>1, <2>2, <2>3, <2>4, <2>5, <2>6, <2>7, <2>8, <2>9, <2>10,
         <2>11, <2>12, <2>13, <2>14, <2>15, <2>16, <2>17, <2>18, <2>19, <2>20 DEF Destination!Progress
  <1>4. QED
    BY <1>1, <1>2, <1>3

(* ... and the rest of what is kept; the other connections notice nothing. *)
LEMMA DestinationStep ==
  ASSUME DestinationKept, NEW c \in Destinations,
         \/ \E s \in Statements : Destination!Prepare(c, s)
         \/ Destination!Progress(c) \/ Destination!Drop(c)
  PROVE  /\ DestinationKept'
         /\ \A d \in Destinations \ {c} :
              UNCHANGED <<dLock[d], dCache[d], dPhase[d]>>
  <1> DEFINE Rest == /\ DestinationPhases
                     /\ Destination!LocksExclude /\ Destination!ReadersSeeTheFile
             Others == \A d \in Destinations \ {c} :
                         UNCHANGED <<dLock[d], dCache[d], dPhase[d]>>
  <1>0. Destination!EngineTypeOK'
    BY DestinationTypeStep
  <1> SUFFICES Rest' /\ Others
    BY <1>0 DEF DestinationKept
  <1> USE DEF DestinationKept, Destination!EngineTypeOK, DestinationPhases, Destination!LocksExclude,
              Destination!ReadersSeeTheFile, Destination!Others, Destination!Writers
  <1>1. ASSUME NEW s \in Statements, Destination!Prepare(c, s)
        PROVE  Rest' /\ Others
    BY <1>1 DEF Destination!Prepare
  <1>2. CASE Destination!Drop(c)
    BY <1>2 DEF Destination!Drop, Destination!RollbackAll, Destination!Unlock, Destination!Finish
  <1>3. CASE Destination!Progress(c)
    <2>1. CASE Destination!StepMalformed(c) \/ Destination!StepUnbindable(c)
      BY <2>1 DEF Destination!StepMalformed, Destination!StepUnbindable, Destination!Finish, Destination!Steps
    <2>2. CASE Destination!StepBegin(c)
      BY <2>2 DEF Destination!StepBegin, Destination!Finish, Destination!Steps
    <2>3. CASE Destination!StepNoTransaction(c)
      BY <2>3 DEF Destination!StepNoTransaction, Destination!Finish,
             Destination!Steps
    <2>4. CASE Destination!StepRollback(c)
      BY <2>4 DEF Destination!StepRollback, Destination!RollbackAll,
             Destination!Unlock, Destination!Finish
    <2>5. CASE Destination!StepEndRead(c)
      BY <2>5 DEF Destination!StepEndRead, Destination!RollbackAll,
             Destination!Unlock, Destination!Finish
    <2>6. CASE Destination!StepEndOrphaned(c)
      BY <2>6 DEF Destination!StepEndOrphaned, Destination!Steps, Destination!Finish
    <2>7. CASE Destination!StepEndBusy(c)
      BY <2>7 DEF Destination!StepEndBusy, Destination!Steps, Destination!Finish,
             Destination!ExclusiveRefused
    <2>8. CASE Destination!StepEndExclusive(c)
      BY <2>8 DEF Destination!StepEndExclusive, Destination!Steps,
             Destination!ExclusiveRefused
    <2>9. CASE Destination!StepSharedBusy(c)
      BY <2>9 DEF Destination!StepSharedBusy, Destination!UsesTable,
             Destination!Finish
    <2>10. CASE Destination!StepSelect(c)
      BY <2>10 DEF Destination!StepSelect, Destination!Steps, Destination!Seen,
             Destination!SharedRefused
    <2>11. CASE Destination!StepReservedBusy(c)
      BY <2>11 DEF Destination!StepReservedBusy, Destination!Finish,
             Destination!SharedRefused
    <2>12. CASE Destination!BackOff(c)
      BY <2>12 DEF Destination!BackOff, Destination!Unlock, Destination!Finish
    <2>13. CASE Destination!StepWrite(c)
      BY <2>13 DEF Destination!StepWrite, Destination!SharedRefused,
             Destination!ReservedRefused
    <2>14. CASE Destination!StepIoError(c)
      BY <2>14 DEF Destination!StepIoError, Destination!RollbackAll,
             Destination!Unlock, Destination!Finish
    <2>15. CASE Destination!HaltInTransaction(c)
      BY <2>15 DEF Destination!HaltInTransaction, Destination!Finish
    <2>16. CASE Destination!HaltRelease(c)
      BY <2>16 DEF Destination!HaltRelease, Destination!Unlock, Destination!Finish
    <2>17. CASE Destination!HaltRefused(c)
      BY <2>17 DEF Destination!HaltRefused, Destination!Unlock, Destination!Finish
    <2>18. CASE Destination!HaltExclusive(c)
      BY <2>18 DEF Destination!HaltExclusive, Destination!ExclusiveRefused
    <2>19. CASE Destination!Publish(c)
      BY <2>19 DEF Destination!Publish, Destination!RollbackAll, Destination!Unlock,
             Destination!Finish
    <2>20. CASE Destination!PublishIoError(c)
      BY <2>20 DEF Destination!PublishIoError, Destination!RollbackAll,
             Destination!Unlock, Destination!Finish
    <2>21. QED
      BY <1>3, <2>1, <2>2, <2>3, <2>4, <2>5, <2>6, <2>7, <2>8, <2>9, <2>10,
         <2>11, <2>12, <2>13, <2>14, <2>15, <2>16, <2>17, <2>18, <2>19, <2>20 DEF Destination!Progress
  <1>4. QED
    BY <1>0, <1>1, <1>2, <1>3

-----------------------------------------------------------------------------
(* What the call does to the locks, with no statement of its own. *)

(* It reads the source with SHARED. *)
LEMMA SourceIsLocked ==
  ASSUME SourceKept, sPhase[From] = "done", sLock[From] \notin Source!Writers,
         ~Source!SharedRefused(From),
         sLock' = [sLock EXCEPT ![From] = "shared"],
         sCache' = [sCache EXCEPT ![From] = Source!Seen(From)],
         UNCHANGED <<sFile, sAutocommit, sStmt, sPhase, sRc>>
  PROVE  SourceKept' /\ sLock'[From] = "shared"
  <1>1. From \in Sources
    BY EndsAssumption
  <1>2. Source!Seen(From) \in SUBSET Rows /\ Source!Seen(From) = sFile
    BY <1>1 DEF SourceKept, Source!EngineTypeOK, Source!ReadersSeeTheFile, Source!Seen,
                Source!Locks, Source!Writers
  <1>3. Source!EngineTypeOK' /\ sLock'[From] = "shared"
    BY <1>1, <1>2 DEF SourceKept, Source!EngineTypeOK, Source!Locks
  <1>4. SourcePhases'
    BY <1>1 DEF SourceKept, Source!EngineTypeOK, SourcePhases
  <1>5. Source!LocksExclude' /\ Source!ReadersSeeTheFile'
    BY <1>1, <1>2 DEF SourceKept, Source!EngineTypeOK, Source!LocksExclude,
       Source!ReadersSeeTheFile, Source!SharedRefused, Source!Others, Source!Writers
  <1>6. QED
    BY <1>3, <1>4, <1>5 DEF SourceKept

(* It gives the lock back. *)
LEMMA SourceIsUnlocked ==
  ASSUME SourceKept, sPhase[From] = "done", Source!Unlock(From),
         UNCHANGED <<sFile, sAutocommit, sStmt, sPhase, sRc>>
  PROVE  SourceKept' /\ sLock'[From] = "none"
  <1>1. From \in Sources
    BY EndsAssumption
  <1>2. Source!EngineTypeOK' /\ sLock'[From] = "none"
    BY <1>1 DEF SourceKept, Source!EngineTypeOK, Source!Locks, Source!Unlock
  <1>3. SourcePhases'
    BY <1>1 DEF SourceKept, Source!EngineTypeOK, SourcePhases, Source!Unlock
  <1>4. Source!LocksExclude' /\ Source!ReadersSeeTheFile'
    BY <1>1 DEF SourceKept, Source!EngineTypeOK, Source!LocksExclude,
       Source!ReadersSeeTheFile, Source!Others, Source!Writers, Source!Unlock
  <1>5. QED
    BY <1>2, <1>3, <1>4 DEF SourceKept

(* It takes the locks on the destination one after the other. *)
LEMMA DestinationIsLocked ==
  ASSUME DestinationKept, dPhase[To] = "done",
         NEW l \in {"shared", "reserved", "exclusive"},
         l = "shared" => dLock[To] = "none" /\ ~Destination!SharedRefused(To),
         l = "reserved" => dLock[To] = "shared" /\ ~Destination!ReservedRefused(To),
         l = "exclusive" => ~Destination!ExclusiveRefused(To),
         dLock' = [dLock EXCEPT ![To] = l],
         dCache' = [dCache EXCEPT ![To] = dFile],
         UNCHANGED <<dFile, dAutocommit, dStmt, dPhase, dRc>>
  PROVE  DestinationKept' /\ dLock'[To] = l
  <1>1. To \in Destinations
    BY EndsAssumption
  <1>2. Destination!EngineTypeOK' /\ dLock'[To] = l
    BY <1>1 DEF DestinationKept, Destination!EngineTypeOK, Destination!Locks
  <1>3. DestinationPhases'
    BY <1>1 DEF DestinationKept, Destination!EngineTypeOK, DestinationPhases
  <1>4. Destination!LocksExclude'
    <2>1. CASE l = "shared"
      BY <1>1, <2>1 DEF DestinationKept, Destination!EngineTypeOK, Destination!LocksExclude,
         Destination!SharedRefused, Destination!Others, Destination!Writers
    <2>2. CASE l = "reserved"
      BY <1>1, <2>2 DEF DestinationKept, Destination!EngineTypeOK, Destination!LocksExclude,
         Destination!ReservedRefused, Destination!Others, Destination!Writers
    <2>3. CASE l = "exclusive"
      BY <1>1, <2>3 DEF DestinationKept, Destination!EngineTypeOK, Destination!LocksExclude,
         Destination!ExclusiveRefused, Destination!Others, Destination!Writers
    <2>4. QED
      BY <2>1, <2>2, <2>3
  <1>5. Destination!ReadersSeeTheFile'
    BY <1>1 DEF DestinationKept, Destination!EngineTypeOK, Destination!ReadersSeeTheFile
  <1>6. QED
    BY <1>2, <1>3, <1>4, <1>5 DEF DestinationKept

(* PENDING, when a reader keeps it from EXCLUSIVE. *)
LEMMA DestinationIsPending ==
  ASSUME DestinationKept, dPhase[To] = "done", dLock[To] = "reserved",
         dLock' = [dLock EXCEPT ![To] = "pending"],
         UNCHANGED <<dFile, dAutocommit, dCache, dStmt, dPhase, dRc>>
  PROVE  DestinationKept'
  <1>1. To \in Destinations
    BY EndsAssumption
  <1>2. Destination!EngineTypeOK'
    BY <1>1 DEF DestinationKept, Destination!EngineTypeOK, Destination!Locks
  <1>3. DestinationPhases'
    BY <1>1 DEF DestinationKept, Destination!EngineTypeOK, DestinationPhases
  <1>4. Destination!LocksExclude' /\ Destination!ReadersSeeTheFile'
    BY <1>1 DEF DestinationKept, Destination!EngineTypeOK, Destination!LocksExclude,
       Destination!ReadersSeeTheFile, Destination!Others, Destination!Writers
  <1>5. QED
    BY <1>2, <1>3, <1>4 DEF DestinationKept

(* It gives them back, with the file as it was or, from EXCLUSIVE, as it has
   written it. *)
LEMMA DestinationIsUnlocked ==
  ASSUME DestinationKept, dPhase[To] = "done", Destination!Unlock(To),
         \/ UNCHANGED dFile
         \/ dLock[To] = "exclusive" /\ dFile' = dCache[To],
         UNCHANGED <<dAutocommit, dStmt, dPhase, dRc>>
  PROVE  DestinationKept' /\ dLock'[To] = "none"
  <1>1. To \in Destinations
    BY EndsAssumption
  <1>2. Destination!EngineTypeOK' /\ dLock'[To] = "none"
    BY <1>1 DEF DestinationKept, Destination!EngineTypeOK, Destination!Locks, Destination!Unlock
  <1>3. DestinationPhases'
    BY <1>1 DEF DestinationKept, Destination!EngineTypeOK, DestinationPhases, Destination!Unlock
  <1>4. Destination!LocksExclude'
    BY <1>1 DEF DestinationKept, Destination!EngineTypeOK, Destination!LocksExclude,
       Destination!Others, Destination!Writers, Destination!Unlock
  <1>5. Destination!ReadersSeeTheFile'
    BY <1>1 DEF DestinationKept, Destination!EngineTypeOK, Destination!LocksExclude,
       Destination!ReadersSeeTheFile, Destination!Others, Destination!Unlock
  <1>6. QED
    BY <1>2, <1>3, <1>4, <1>5 DEF DestinationKept

(* What does not change is kept. *)
LEMMA Untouched ==
  /\ SourceKept /\ UNCHANGED sVars => SourceKept'
  /\ DestinationKept /\ UNCHANGED dVars => DestinationKept'
  <1>1. SourceKept /\ UNCHANGED sVars => SourceKept'
    BY DEF SourceKept, sVars, Source!EngineTypeOK, SourcePhases, Source!LocksExclude,
           Source!ReadersSeeTheFile
  <1>2. DestinationKept /\ UNCHANGED dVars => DestinationKept'
    BY DEF DestinationKept, dVars, Destination!EngineTypeOK, DestinationPhases,
           Destination!LocksExclude, Destination!ReadersSeeTheFile
  <1>3. QED
    BY <1>1, <1>2

-----------------------------------------------------------------------------
(* The steps. *)

(* While the call is on its way, the other connections leave its two alone. *)
LEMMA SourceStepsPreserve ==
  ASSUME BackupInv, SourceSteps
  PROVE  BackupInv'
  <1>1. PICK c \in Sources : /\ Steps(c)
                             /\ \/ \E s \in Used[c] : Source!Prepare(c, s)
                                \/ Source!Progress(c) \/ Source!Drop(c)
    BY DEF SourceSteps
  <1>2. Used[c] \subseteq Statements
    BY UsedAssumption
  <1>3. /\ SourceKept'
        /\ \A d \in Sources \ {c} : UNCHANGED <<sLock[d], sCache[d], sPhase[d]>>
    BY <1>1, <1>2, SourceStep DEF BackupInv
  <1>4. at # "idle" => c # From /\ From \in Sources
    BY <1>1, EndsAssumption DEF Steps
  <1>5. UNCHANGED dVars /\ UNCHANGED <<opened, at, closes, rc, returned, copied, before>>
    BY DEF SourceSteps, call
  <1>6. DestinationKept' /\ CallTypes' /\ OutcomeInv'
    BY <1>5, Untouched DEF BackupInv, CallTypes, OutcomeInv
  <1>7. SourceInv'
    BY <1>3, <1>4, <1>5 DEF BackupInv, SourceInv, AfterLock
  <1>8. DestinationInv'
    BY <1>3, <1>4, <1>5 DEF BackupInv, DestinationInv, dVars
  <1>9. QED
    BY <1>3, <1>6, <1>7, <1>8 DEF BackupInv

(* The same on the other side. *)
LEMMA DestinationStepsPreserve ==
  ASSUME BackupInv, DestinationSteps
  PROVE  BackupInv'
  <1>1. PICK c \in Destinations : /\ Steps(c)
                                  /\ \/ \E s \in Used[c] : Destination!Prepare(c, s)
                                     \/ Destination!Progress(c) \/ Destination!Drop(c)
    BY DEF DestinationSteps
  <1>2. Used[c] \subseteq Statements
    BY UsedAssumption
  <1>3. /\ DestinationKept'
        /\ \A d \in Destinations \ {c} : UNCHANGED <<dLock[d], dCache[d], dPhase[d]>>
    BY <1>1, <1>2, DestinationStep DEF BackupInv
  <1>4. at # "idle" => c # To /\ To \in Destinations
    BY <1>1, EndsAssumption DEF Steps
  <1>5. UNCHANGED sVars /\ UNCHANGED <<opened, at, closes, rc, returned, copied, before>>
    BY DEF DestinationSteps, call
  <1>6. SourceKept' /\ CallTypes' /\ OutcomeInv'
    BY <1>5, Untouched DEF BackupInv, CallTypes, OutcomeInv
  <1>7. SourceInv'
    BY <1>5 DEF BackupInv, SourceInv, AfterLock, sVars
  <1>8. DestinationInv'
    BY <1>3, <1>4, <1>5 DEF BackupInv, DestinationInv, sVars
  <1>9. QED
    BY <1>3, <1>6, <1>7, <1>8 DEF BackupInv

(* The call begins with no lock on the destination. *)
LEMMA InitPreserves ==
  ASSUME BackupInv, backup_init
  PROVE  BackupInv'
  <1>1. UNCHANGED sVars /\ UNCHANGED dVars /\ UNCHANGED <<opened, closes, rc, copied>>
    BY DEF backup_init
  <1>2. UNCHANGED <<sLock, sCache, sPhase, dLock, dCache, dPhase>>
    BY <1>1 DEF sVars, dVars
  <1>3. SourceKept' /\ DestinationKept'
    BY <1>1, Untouched DEF BackupInv
  <1>4. /\ at = "idle" /\ sPhase[From] = "done" /\ dPhase[To] = "done"
        /\ \/ /\ dLock[To] = "none"
              /\ at' = "source" /\ returned' = "none" /\ before' = sLock[From]
           \/ /\ returned' = "false" /\ UNCHANGED <<at, before>>
    BY DEF backup_init
  <1>5. sLock[From] \in Source!Locks
    BY EndsAssumption DEF BackupInv, SourceKept, Source!EngineTypeOK
  <1>6. CallTypes'
    BY <1>1, <1>4, <1>5 DEF BackupInv, CallTypes, Stages
  <1>7. SourceInv' /\ DestinationInv' /\ OutcomeInv'
    BY <1>1, <1>2, <1>4 DEF BackupInv, SourceInv, DestinationInv, OutcomeInv, AfterLock
  <1>8. QED
    BY <1>3, <1>6, <1>7 DEF BackupInv

(* The source is locked, or busy. *)
LEMMA LockSourcePreserves ==
  ASSUME BackupInv, LockSource \/ SourceBusy
  PROVE  BackupInv'
  <1>1. at = "source" /\ sPhase[From] = "done" /\ sLock[From] = before /\ From \in Sources
    BY EndsAssumption DEF LockSource, SourceBusy, BackupInv, SourceInv
  <1>2. UNCHANGED dVars /\ UNCHANGED <<dLock, dCache, dPhase>>
    BY DEF LockSource, SourceBusy, dVars
  <1>3. DestinationKept'
    BY <1>2, Untouched DEF BackupInv
  <1>4. CASE LockSource
    <2>1. SourceKept' /\ sLock'[From] = "shared"
      BY <1>1, <1>4, SourceIsLocked DEF LockSource, BackupInv
    <2>2. before \in {"none", "shared"}
      BY <1>1, <1>4 DEF LockSource, BackupInv, CallTypes, Source!Locks, Source!Writers
    <2>3. /\ at' = "shared" /\ closes' = (sLock[From] = "none") /\ UNCHANGED sPhase
          /\ UNCHANGED <<opened, rc, returned, copied, before>>
      BY <1>4 DEF LockSource
    <2>4. CallTypes'
      BY <2>3 DEF BackupInv, CallTypes, Stages
    <2>5. SourceInv'
      BY <1>1, <2>1, <2>2, <2>3 DEF SourceInv, AfterLock
    <2>6. DestinationInv' /\ OutcomeInv'
      BY <1>1, <1>2, <2>3 DEF BackupInv, DestinationInv, OutcomeInv
    <2>7. QED
      BY <1>3, <2>1, <2>4, <2>5, <2>6 DEF BackupInv
  <1>5. CASE SourceBusy
    <2>1. UNCHANGED sVars /\ UNCHANGED <<sLock, sPhase>>
      BY <1>5 DEF SourceBusy, sVars
    <2>2. SourceKept'
      BY <2>1, Untouched DEF BackupInv
    <2>3. at' = "finish" /\ rc' = "busy" /\ UNCHANGED <<opened, closes, returned, copied, before>>
      BY <1>5 DEF SourceBusy, Fails
    <2>4. CallTypes'
      BY <2>3 DEF BackupInv, CallTypes, Stages
    <2>5. SourceInv' /\ DestinationInv' /\ OutcomeInv'
      BY <1>1, <1>2, <2>1, <2>3
         DEF BackupInv, SourceInv, DestinationInv, OutcomeInv, AfterLock
    <2>6. QED
      BY <1>3, <2>2, <2>4, <2>5 DEF BackupInv
  <1>6. QED
    BY <1>4, <1>5

(* What the source has does not change with the stages after LockSource. *)
LEMMA SourceInvStays ==
  ASSUME BackupInv, at \in AfterLock, at' \in AfterLock,
         UNCHANGED sVars, UNCHANGED <<closes, before>>
  PROVE  SourceKept' /\ SourceInv'
  <1>1. SourceKept'
    BY Untouched DEF BackupInv
  <1>2. SourceInv'
    BY DEF BackupInv, SourceInv, AfterLock, sVars
  <1>3. QED
    BY <1>1, <1>2

(* The destination is locked, step by step. *)
LEMMA LockDestinationPreserves ==
  ASSUME BackupInv, LockShared \/ LockReserved \/ LockExclusive
  PROVE  BackupInv'
  <1>1. /\ UNCHANGED sVars /\ UNCHANGED <<opened, closes, rc, returned, copied, before>>
        /\ UNCHANGED <<dFile, dAutocommit, dStmt, dPhase, dRc>>
        /\ at \in AfterLock /\ at' \in {"reserved", "exclusive", "copy"}
    BY DEF LockShared, LockReserved, LockExclusive, TakeLock, Goes, AfterLock
  <1>2. SourceKept' /\ SourceInv'
    BY <1>1, SourceInvStays DEF AfterLock
  <1>3. DestinationKept /\ dPhase[To] = "done"
    BY <1>1 DEF BackupInv, DestinationInv, AfterLock
  <1>4. DestinationKept' /\ DestinationInv'
    <2>1. CASE LockShared
      <3>1. DestinationKept' /\ dLock'[To] = "shared"
        BY <1>3, <2>1, DestinationIsLocked
           DEF LockShared, TakeLock, BackupInv, DestinationInv
      <3>2. at' = "reserved"
        BY <2>1 DEF LockShared, TakeLock, Goes
      <3>3. QED
        BY <1>1, <1>3, <3>1, <3>2 DEF DestinationInv
    <2>2. CASE LockReserved
      <3>1. DestinationKept' /\ dLock'[To] = "reserved"
        BY <1>3, <2>2, DestinationIsLocked
           DEF LockReserved, TakeLock, BackupInv, DestinationInv
      <3>2. at' = "exclusive"
        BY <2>2 DEF LockReserved, TakeLock, Goes
      <3>3. QED
        BY <1>1, <1>3, <3>1, <3>2 DEF DestinationInv
    <2>3. CASE LockExclusive
      <3>1. DestinationKept' /\ dLock'[To] = "exclusive"
        BY <1>3, <2>3, DestinationIsLocked
           DEF LockExclusive, TakeLock, BackupInv, DestinationInv
      <3>2. at' = "copy"
        BY <2>3 DEF LockExclusive, TakeLock, Goes
      <3>3. QED
        BY <1>1, <1>3, <3>1, <3>2 DEF DestinationInv
    <2>4. QED
      BY <2>1, <2>2, <2>3
  <1>5. CallTypes' /\ OutcomeInv'
    <2>1. at \in {"shared", "reserved", "exclusive"}
      BY DEF LockShared, LockReserved, LockExclusive
    <2>2. QED
      BY <1>1, <2>1 DEF BackupInv, CallTypes, OutcomeInv, Stages
  <1>6. QED
    BY <1>2, <1>4, <1>5 DEF BackupInv

(* It is busy: the locks so far are kept until Release. *)
LEMMA DestinationBusyPreserves ==
  ASSUME BackupInv, DestinationBusy
  PROVE  BackupInv'
  <1>1. /\ UNCHANGED sVars /\ UNCHANGED <<opened, closes, returned, copied, before>>
        /\ UNCHANGED <<dFile, dAutocommit, dCache, dStmt, dPhase, dRc>>
        /\ at \in {"shared", "reserved", "exclusive"} /\ at' = "refused" /\ rc' = "busy"
        /\ \/ UNCHANGED dLock
           \/ at = "exclusive" /\ dLock' = [dLock EXCEPT ![To] = "pending"]
    BY DEF DestinationBusy, Fails
  <1>2. SourceKept' /\ SourceInv'
    BY <1>1, SourceInvStays DEF AfterLock
  <1>3. DestinationKept /\ dPhase[To] = "done" /\ (at = "exclusive" => dLock[To] = "reserved")
    BY <1>1 DEF BackupInv, DestinationInv
  <1>4. DestinationKept'
    <2>1. CASE UNCHANGED dLock
      BY <1>1, <1>3, <2>1, Untouched DEF dVars
    <2>2. CASE at = "exclusive" /\ dLock' = [dLock EXCEPT ![To] = "pending"]
      BY <1>1, <1>3, <2>2, DestinationIsPending
    <2>3. QED
      BY <1>1, <2>1, <2>2
  <1>5. DestinationInv' /\ CallTypes' /\ OutcomeInv'
    BY <1>1, <1>3 DEF BackupInv, DestinationInv, CallTypes, OutcomeInv, Stages
  <1>6. QED
    BY <1>2, <1>4, <1>5 DEF BackupInv

(* They are released, or the commit releases them with the copy in the file. *)
LEMMA ReleasePreserves ==
  ASSUME BackupInv, Release \/ Commit
  PROVE  BackupInv'
  <1>1. /\ UNCHANGED sVars /\ UNCHANGED <<opened, closes, rc, returned, before>>
        /\ UNCHANGED <<dAutocommit, dStmt, dPhase, dRc>> /\ Destination!Unlock(To)
        /\ at' = "close"
        /\ \/ at = "refused" /\ UNCHANGED <<dFile, copied>>
           \/ at = "commit" /\ dFile' = dCache[To] /\ copied' = TRUE
    BY DEF Release, Commit, Goes
  <1>2. SourceKept' /\ SourceInv'
    BY <1>1, SourceInvStays DEF AfterLock
  <1>3. DestinationKept /\ dPhase[To] = "done" /\ (at = "commit" => dLock[To] = "exclusive")
    BY <1>1 DEF BackupInv, DestinationInv
  <1>4. DestinationKept'
    BY <1>1, <1>3, DestinationIsUnlocked
  <1>5. DestinationInv'
    <2>1. DestinationKept' /\ dPhase'[To] = "done" /\ dLock'[To] = "none"
      BY <1>1, <1>3, <1>4 DEF Destination!Unlock, DestinationKept, Destination!EngineTypeOK
    <2>2. QED
      BY <1>1, <2>1 DEF DestinationInv
  <1>6. CallTypes' /\ OutcomeInv'
    <2>1. CASE at = "refused" /\ UNCHANGED <<dFile, copied>>
      BY <1>1, <2>1 DEF BackupInv, CallTypes, OutcomeInv, Stages
    <2>2. CASE at = "commit" /\ dFile' = dCache[To] /\ copied' = TRUE
      BY <1>1, <2>2 DEF BackupInv, CallTypes, OutcomeInv, Stages
    <2>3. QED
      BY <1>1, <2>1, <2>2
  <1>7. QED
    BY <1>2, <1>4, <1>5, <1>6 DEF BackupInv

(* The pages are copied under EXCLUSIVE, or that fails. *)
LEMMA CopyPreserves ==
  ASSUME BackupInv, CopyPages \/ IoError
  PROVE  BackupInv'
  <1>1. /\ UNCHANGED sVars /\ UNCHANGED <<opened, closes, returned, copied, before>>
        /\ UNCHANGED <<dFile, dLock, dAutocommit, dStmt, dPhase, dRc>>
        /\ at \in {"copy", "commit"}
        /\ \/ /\ at' = "commit" /\ rc' = rc
              /\ dCache' = [dCache EXCEPT ![To] = sCache[From]]
           \/ at' = "close" /\ rc' = "ioerr" /\ UNCHANGED dCache
    BY DEF CopyPages, IoError, Goes, Fails, dVars
  <1>2. SourceKept' /\ SourceInv'
    BY <1>1, SourceInvStays DEF AfterLock
  <1>3. /\ DestinationKept /\ dPhase[To] = "done" /\ dLock[To] = "exclusive"
        /\ To \in Destinations /\ From \in Sources
    BY <1>1, EndsAssumption DEF BackupInv, DestinationInv
  <1>4. sCache[From] \in SUBSET Rows /\ sCache' = sCache
    BY <1>1, <1>3 DEF BackupInv, SourceKept, Source!EngineTypeOK, sVars
  <1>5. Destination!EngineTypeOK'
    BY <1>1, <1>3, <1>4 DEF DestinationKept, Destination!EngineTypeOK
  <1>6. DestinationPhases' /\ Destination!LocksExclude'
    BY <1>1, <1>3 DEF DestinationKept, DestinationPhases, Destination!LocksExclude
  <1>7. Destination!ReadersSeeTheFile'
    BY <1>1, <1>3 DEF DestinationKept, Destination!EngineTypeOK,
       Destination!ReadersSeeTheFile
  <1>8. DestinationInv'
    <2>1. at' = "commit" => dCache'[To] = sCache'[From]
      BY <1>1, <1>3, <1>4 DEF DestinationKept, Destination!EngineTypeOK
    <2>2. QED
      BY <1>1, <1>3, <2>1 DEF DestinationInv
  <1>9. CallTypes' /\ OutcomeInv'
    BY <1>1 DEF BackupInv, CallTypes, OutcomeInv, Stages
  <1>10. QED
    BY <1>2, <1>5, <1>6, <1>7, <1>8, <1>9 DEF BackupInv, DestinationKept

(* The source is unlocked if the call had to lock it. *)
LEMMA CloseSourcePreserves ==
  ASSUME BackupInv, CloseSource
  PROVE  BackupInv'
  <1>1. /\ at = "close" /\ at' = "finish"
        /\ UNCHANGED <<opened, closes, rc, returned, copied, before>>
        /\ UNCHANGED <<sFile, sAutocommit, sStmt, sPhase, sRc>> /\ UNCHANGED dVars
        /\ UNCHANGED <<dLock, dPhase>>
        /\ \/ closes /\ Source!Unlock(From)
           \/ ~closes /\ UNCHANGED <<sLock, sCache>>
    BY DEF CloseSource, Goes, dVars
  <1>2. /\ SourceKept /\ sPhase[From] = "done" /\ sLock[From] = "shared"
        /\ before = IF closes THEN "none" ELSE "shared"
    BY <1>1 DEF BackupInv, SourceInv, AfterLock
  <1>3. SourceKept' /\ sLock'[From] = before
    <2>1. CASE closes /\ Source!Unlock(From)
      BY <1>1, <1>2, <2>1, SourceIsUnlocked
    <2>2. CASE ~closes /\ UNCHANGED <<sLock, sCache>>
      BY <1>1, <1>2, <2>2, Untouched DEF sVars
    <2>3. QED
      BY <1>1, <2>1, <2>2
  <1>4. SourceInv'
    BY <1>1, <1>2, <1>3 DEF SourceInv, AfterLock
  <1>5. DestinationKept' /\ DestinationInv' /\ CallTypes' /\ OutcomeInv'
    BY <1>1, Untouched DEF BackupInv, DestinationInv, CallTypes, OutcomeInv, Stages
  <1>6. QED
    BY <1>3, <1>4, <1>5 DEF BackupInv

(* The call returns with no lock on the destination. *)
LEMMA FinishPreserves ==
  ASSUME BackupInv, backup_finish
  PROVE  BackupInv'
  <1>1. /\ at = "finish" /\ Idle /\ UNCHANGED sVars
        /\ Destination!Unlock(To) /\ returned' \in {"true", "false"}
        /\ UNCHANGED <<dFile, dAutocommit, dStmt, dPhase, dRc, opened>>
    BY DEF backup_finish
  <1>2. DestinationKept /\ dPhase[To] = "done"
    BY <1>1 DEF BackupInv, DestinationInv
  <1>3. SourceKept' /\ DestinationKept'
    BY <1>1, <1>2, DestinationIsUnlocked, Untouched DEF BackupInv
  <1>4. CallTypes' /\ SourceInv' /\ DestinationInv' /\ OutcomeInv'
    BY <1>1 DEF BackupInv, CallTypes, SourceInv, DestinationInv, OutcomeInv, Idle, Stages,
                AfterLock, Source!Locks
  <1>5. QED
    BY <1>3, <1>4 DEF BackupInv

(* Its process ends, and both connections with it. *)
LEMMA CrashPreserves ==
  ASSUME BackupInv, Crash
  PROVE  BackupInv'
  <1>1. /\ Source!Drop(From) /\ Destination!Drop(To) /\ Idle /\ UNCHANGED <<opened, returned>>
        /\ From \in Sources /\ To \in Destinations
    BY EndsAssumption DEF Crash
  <1>2. SourceKept' /\ DestinationKept'
    BY <1>1, SourceStep, DestinationStep DEF BackupInv
  <1>3. CallTypes' /\ SourceInv' /\ DestinationInv' /\ OutcomeInv'
    BY <1>1 DEF BackupInv, CallTypes, SourceInv, DestinationInv, OutcomeInv, Idle, Stages,
                AfterLock, Source!Locks
  <1>4. QED
    BY <1>2, <1>3 DEF BackupInv

-----------------------------------------------------------------------------
(* The theorems. *)

(* No connection has a lock yet. *)
LEMMA InitBackup == Init => BackupInv
  <1> SUFFICES ASSUME Init
               PROVE  BackupInv
    OBVIOUS
  <1>1. Source!EngineTypeOK /\ Destination!EngineTypeOK
    BY DEF Init, Source!EngineInit, Destination!EngineInit, Source!EngineTypeOK,
           Destination!EngineTypeOK, Source!Locks, Destination!Locks, Source!Phases,
           Destination!Phases, Source!Codes, Destination!Codes
  <1>2. SourcePhases /\ Source!LocksExclude /\ Source!ReadersSeeTheFile
    BY DEF Init, Source!EngineInit, SourcePhases, Source!LocksExclude,
           Source!ReadersSeeTheFile, Source!Others, Source!Writers
  <1>3. DestinationPhases /\ Destination!LocksExclude /\ Destination!ReadersSeeTheFile
    BY DEF Init, Destination!EngineInit, DestinationPhases, Destination!LocksExclude,
           Destination!ReadersSeeTheFile, Destination!Others, Destination!Writers
  <1>4. CallTypes /\ SourceInv /\ DestinationInv /\ OutcomeInv
    BY DEF Init, CallTypes, SourceInv, DestinationInv, OutcomeInv, Stages, AfterLock,
           Source!Locks
  <1>5. QED
    BY <1>1, <1>2, <1>3, <1>4 DEF BackupInv, SourceKept, DestinationKept

(* Every step preserves the invariant. *)
LEMMA NextBackup == BackupInv /\ [Next]_vars => BackupInv'
  <1> SUFFICES ASSUME BackupInv, [Next]_vars
               PROVE  BackupInv'
    OBVIOUS
  <1>1. CASE SourceSteps
    BY <1>1, SourceStepsPreserve
  <1>2. CASE DestinationSteps
    BY <1>2, DestinationStepsPreserve
  <1>3. CASE backup_init
    BY <1>3, InitPreserves
  <1>4. CASE LockSource \/ SourceBusy
    BY <1>4, LockSourcePreserves
  <1>5. CASE LockShared \/ LockReserved \/ LockExclusive
    BY <1>5, LockDestinationPreserves
  <1>6. CASE DestinationBusy
    BY <1>6, DestinationBusyPreserves
  <1>7. CASE Release \/ Commit
    BY <1>7, ReleasePreserves
  <1>8. CASE CopyPages \/ IoError
    BY <1>8, CopyPreserves
  <1>9. CASE CloseSource
    BY <1>9, CloseSourcePreserves
  <1>10. CASE backup_finish
    BY <1>10, FinishPreserves
  <1>11. CASE Crash
    BY <1>11, CrashPreserves
  <1>12. CASE UNCHANGED vars
    <2>1. UNCHANGED sVars /\ UNCHANGED dVars
          /\ UNCHANGED <<opened, at, closes, rc, returned, copied, before>>
      BY <1>12 DEF vars, call
    <2>2. SourceKept' /\ DestinationKept'
      BY <2>1, Untouched DEF BackupInv
    <2>3. CallTypes' /\ SourceInv' /\ DestinationInv' /\ OutcomeInv'
      BY <2>1 DEF BackupInv, CallTypes, SourceInv, DestinationInv, OutcomeInv, sVars, dVars
    <2>4. QED
      BY <2>2, <2>3 DEF BackupInv
  <1>13. QED
    BY <1>1, <1>2, <1>3, <1>4, <1>5, <1>6, <1>7, <1>8, <1>9, <1>10, <1>11, <1>12
       DEF Next, Copying

(* In every state the locks of the call on the two files are those of its
   stage, and nobody else's are disturbed. *)
THEOREM BackupInvariant == Spec => []BackupInv
  BY InitBackup, NextBackup, PTL DEF Spec

(* The call keeps the discipline of the locks on both files. *)
THEOREM BackupKeepsTheLocks == Spec => []LocksAreKept
  <1>1. BackupInv => LocksAreKept
    BY DEF BackupInv, SourceKept, DestinationKept, CallTypes, TypeOK, LocksAreKept
  <1>2. QED
    BY <1>1, BackupInvariant, PTL

(* The destination becomes what is committed in the source at that moment. *)
THEOREM BackupCopiesACommit == Spec => CopiesWhatIsCommitted
  <1>1. BackupInv /\ [Next]_vars => [copied' /\ ~copied => dFile' = sFile]_vars
    <2> SUFFICES ASSUME BackupInv, Next, copied', ~copied
                 PROVE  dFile' = sFile
      OBVIOUS
    <2>1. Commit
      BY DEF Next, SourceSteps, DestinationSteps, call, backup_init, Copying, LockSource,
             SourceBusy, LockShared, LockReserved, LockExclusive, TakeLock, DestinationBusy,
             Release, CopyPages, IoError, CloseSource, backup_finish, Crash, Idle, Goes, Fails
    <2>2. at = "commit" /\ dFile' = dCache[To]
      BY <2>1 DEF Commit
    <2>3. dCache[To] = sCache[From] /\ sLock[From] = "shared" /\ From \in Sources
      BY <2>2, EndsAssumption DEF BackupInv, DestinationInv, SourceInv, AfterLock
    <2>4. sCache[From] = sFile
      BY <2>3 DEF BackupInv, SourceKept, Source!ReadersSeeTheFile
    <2>5. QED
      BY <2>2, <2>3, <2>4
  <1>2. QED
    BY <1>1, BackupInvariant, PTL DEF Spec, CopiesWhatIsCommitted

(* The call returns true if and only if it has overwritten the destination,
   and gives back what it has locked and nothing else. *)
THEOREM BackupReturnsCleanly == Spec => ReturnsCleanly
  <1>1. BackupInv /\ [Next]_vars
          => [at = "finish" /\ returned' # "none" =>
                /\ returned' = "true" <=> copied
                /\ sLock'[From] = before /\ dLock'[To] = "none"]_vars
    <2> SUFFICES ASSUME BackupInv, Next, at = "finish", returned' # "none"
                 PROVE  /\ returned' = "true" <=> copied
                        /\ sLock'[From] = before /\ dLock'[To] = "none"
      OBVIOUS
    <2>1. returned = "none"
      BY DEF BackupInv, OutcomeInv
    <2>2. backup_finish
      BY <2>1 DEF Next, SourceSteps, DestinationSteps, call, backup_init, Copying, LockSource,
             SourceBusy, LockShared, LockReserved, LockExclusive, DestinationBusy, Release,
             CopyPages, IoError, Commit, CloseSource, Crash
    <2>3. sLock'[From] = before
      BY <2>2 DEF backup_finish, sVars, BackupInv, SourceInv
    <2>4. dLock'[To] = "none"
      BY <2>2, EndsAssumption DEF backup_finish, Destination!Unlock, BackupInv,
         DestinationKept, Destination!EngineTypeOK
    <2>5. returned' = "true" <=> copied
      BY <2>2 DEF backup_finish, BackupInv, OutcomeInv
    <2>6. QED
      BY <2>3, <2>4, <2>5
  <1>2. QED
    BY <1>1, BackupInvariant, PTL DEF Spec, ReturnsCleanly
=============================================================================
