---------------------------- MODULE RowOpsProofs ----------------------------
(***************************************************************************)
(* Theorems about Engine, for any number of connections, any rows, any     *)
(* statements and any deferred foreign keys, with and without I/O errors;  *)
(* and about RowOps, which is built on it, for any arrays passed to        *)
(* insert_rows() and any queries.                                          *)
(***************************************************************************)
EXTENDS RowOps, TLAPS

-----------------------------------------------------------------------------
(* Engine. *)

(* What relates the phase of a statement to the locks: the strengthening
   that makes the invariants of Engine inductive. *)
PhasesMatchLocks ==
  \A c \in Conns :
    /\ phase[c] = "step" => stmt[c] \in Statements
    /\ phase[c] = "backoff" => lock[c] = "shared"
    /\ phase[c] = "halt" => lock[c] # "none"
    /\ phase[c] = "commit" <=> lock[c] = "exclusive"
    /\ phase[c] = "commit" => ~Orphaned(cache[c])
    /\ lock[c] = "none" => cache[c] = {}

EngineInv ==
  /\ EngineTypeOK
  /\ PhasesMatchLocks
  /\ LocksExclude
  /\ ReadersSeeTheFile
  /\ FileIsNotOrphaned
  /\ IdleHoldsNoLock
  /\ PendingIsATransaction

-----------------------------------------------------------------------------

(* A statement keeps the table within Rows. *)
LEMMA EffectType ==
  ASSUME NEW content \in SUBSET Rows, NEW s \in Statements
  PROVE  Effect(content, s) \in SUBSET Rows
  BY WritesAssumption
  DEF Effect, Statements, Plain, BeginStmt, EndStmt, RollbackStmt,
      SelectStmt, Malformed, Unbindable

(* What a connection sees are rows. *)
LEMMA SeenType ==
  ASSUME EngineTypeOK, NEW c \in Conns
  PROVE  Seen(c) \in SUBSET Rows
  BY DEF EngineTypeOK, Seen

(* Connections that have done nothing satisfy the invariant. *)
LEMMA InitInv == EngineInit => EngineInv
  BY DEF EngineInit, EngineInv, EngineTypeOK, PhasesMatchLocks, LocksExclude,
         ReadersSeeTheFile, FileIsNotOrphaned, IdleHoldsNoLock,
         PendingIsATransaction, Locks, Phases, Codes, Writers, Others

(* The type invariant is inductive by itself but for the statement. *)
LEMMA TypeStep ==
  EngineInv /\ [EngineNext]_engineVars => EngineTypeOK'
  <1> SUFFICES ASSUME EngineInv, [EngineNext]_engineVars
               PROVE  EngineTypeOK'
    OBVIOUS
  <1> USE DEF EngineInv, EngineTypeOK, Locks, Phases, Codes
  <1>1. CASE UNCHANGED engineVars
    BY <1>1 DEF engineVars
  <1>2. ASSUME NEW c \in Conns, NEW s \in Statements, Prepare(c, s)
        PROVE  EngineTypeOK'
    BY <1>2 DEF Prepare
  <1>3. ASSUME NEW c \in Conns, Misuse(c)
        PROVE  EngineTypeOK'
    BY <1>3 DEF Misuse
  <1>4. ASSUME NEW c \in Conns, Drop(c)
        PROVE  EngineTypeOK'
    BY <1>4 DEF Drop, RollbackAll, Unlock, Finish
  <1>5. ASSUME NEW c \in Conns, Progress(c)
        PROVE  EngineTypeOK'
    <2> Seen(c) \in SUBSET Rows
      BY SeenType
    <2>1. CASE \/ StepMalformed(c) \/ StepUnbindable(c) \/ StepBegin(c)
               \/ StepNoTransaction(c)
      BY <2>1 DEF StepMalformed, StepUnbindable, StepBegin, StepNoTransaction, Finish
    <2>2. CASE StepRollback(c) \/ StepEndRead(c)
      BY <2>2 DEF StepRollback, StepEndRead, RollbackAll, Unlock, Finish
    <2>3. CASE StepEndOrphaned(c) \/ StepEndBusy(c)
      BY <2>3 DEF StepEndOrphaned, StepEndBusy, Finish
    <2>4. CASE StepEndExclusive(c) \/ HaltExclusive(c)
      BY <2>4 DEF StepEndExclusive, HaltExclusive
    <2>5. CASE StepSharedBusy(c) \/ HaltInTransaction(c)
      BY <2>5 DEF StepSharedBusy, HaltInTransaction, Finish
    <2>6. CASE StepSelect(c)
      BY <2>6 DEF StepSelect
    <2>7. CASE StepReservedBusy(c)
      BY <2>7 DEF StepReservedBusy, Finish
    <2>8. CASE BackOff(c) \/ HaltRelease(c) \/ HaltRefused(c)
      BY <2>8 DEF BackOff, HaltRelease, HaltRefused, Unlock, Finish
    <2>9. CASE StepWrite(c)
      <3>1. stmt[c] \in Statements
        BY <2>9 DEF StepWrite, PhasesMatchLocks
      <3>2. Effect(Seen(c), stmt[c]) \in SUBSET Rows
        BY <3>1, EffectType
      <3> QED BY <2>9, <3>2 DEF StepWrite
    <2>10. CASE StepIoError(c) \/ PublishIoError(c)
      BY <2>10 DEF StepIoError, PublishIoError, RollbackAll, Unlock, Finish
    <2>11. CASE Publish(c)
      BY <2>11 DEF Publish, RollbackAll, Unlock, Finish
    <2> QED BY <1>5, <2>1, <2>2, <2>3, <2>4, <2>5, <2>6, <2>7, <2>8, <2>9,
               <2>10, <2>11 DEF Progress
  <1> QED BY <1>1, <1>2, <1>3, <1>4, <1>5 DEF EngineNext

(* Every step keeps the rest of the invariant. *)
LEMMA InvStep ==
  EngineInv /\ [EngineNext]_engineVars => EngineInv'
  <1> SUFFICES ASSUME EngineInv, [EngineNext]_engineVars
               PROVE  EngineInv'
    OBVIOUS
  <1>0. EngineTypeOK'
    BY TypeStep
  <1> DEFINE Rest == /\ PhasesMatchLocks
                     /\ LocksExclude
                     /\ ReadersSeeTheFile
                     /\ FileIsNotOrphaned
                     /\ IdleHoldsNoLock
                     /\ PendingIsATransaction
  <1> SUFFICES Rest'
    BY <1>0 DEF EngineInv
  <1> USE DEF EngineInv, EngineTypeOK, PhasesMatchLocks, LocksExclude,
              ReadersSeeTheFile, FileIsNotOrphaned, IdleHoldsNoLock,
              PendingIsATransaction, Others, Writers
  <1>1. CASE UNCHANGED engineVars
    BY <1>1 DEF engineVars, Orphaned
  <1>2. ASSUME NEW c \in Conns, NEW s \in Statements, Prepare(c, s)
        PROVE  Rest'
    BY <1>2 DEF Prepare, Orphaned
  <1>3. ASSUME NEW c \in Conns, Misuse(c)
        PROVE  Rest'
    BY <1>3 DEF Misuse, Orphaned
  <1>4. ASSUME NEW c \in Conns, Drop(c)
        PROVE  Rest'
    BY <1>4 DEF Drop, RollbackAll, Unlock, Finish, Orphaned
  <1>5. ASSUME NEW c \in Conns, Progress(c)
        PROVE  Rest'
    <2>1. CASE StepMalformed(c) \/ StepUnbindable(c)
      BY <2>1 DEF StepMalformed, StepUnbindable, Finish, Steps, Orphaned
    <2>2. CASE StepBegin(c)
      BY <2>2 DEF StepBegin, Finish, Steps, Orphaned
    <2>3. CASE StepNoTransaction(c)
      BY <2>3 DEF StepNoTransaction, Finish, Steps, Orphaned
    <2>4. CASE StepRollback(c)
      BY <2>4 DEF StepRollback, RollbackAll, Unlock, Finish, Orphaned
    <2>5. CASE StepEndRead(c)
      BY <2>5 DEF StepEndRead, RollbackAll, Unlock, Finish, Orphaned
    <2>6. CASE StepEndOrphaned(c)
      BY <2>6 DEF StepEndOrphaned, Steps, Finish, Orphaned
    <2>7. CASE StepEndBusy(c)
      BY <2>7 DEF StepEndBusy, Steps, Finish, ExclusiveRefused, Orphaned
    <2>8. CASE StepEndExclusive(c)
      BY <2>8 DEF StepEndExclusive, Steps, ExclusiveRefused, Orphaned
    <2>9. CASE StepSharedBusy(c)
      BY <2>9 DEF StepSharedBusy, UsesTable, Finish, Orphaned
    <2>10. CASE StepSelect(c)
      BY <2>10 DEF StepSelect, Steps, Seen, SharedRefused, Orphaned
    <2>11. CASE StepReservedBusy(c)
      BY <2>11 DEF StepReservedBusy, Finish, SharedRefused, Orphaned
    <2>12. CASE BackOff(c)
      BY <2>12 DEF BackOff, Unlock, Finish, Orphaned
    <2>13. CASE StepWrite(c)
      BY <2>13 DEF StepWrite, SharedRefused, ReservedRefused, Orphaned
    <2>14. CASE StepIoError(c)
      BY <2>14 DEF StepIoError, RollbackAll, Unlock, Finish, Orphaned
    <2>15. CASE HaltInTransaction(c)
      BY <2>15 DEF HaltInTransaction, Finish, Orphaned
    <2>16. CASE HaltRelease(c)
      BY <2>16 DEF HaltRelease, Unlock, Finish, Orphaned
    <2>17. CASE HaltRefused(c)
      BY <2>17 DEF HaltRefused, Unlock, Finish, Orphaned
    <2>18. CASE HaltExclusive(c)
      BY <2>18 DEF HaltExclusive, ExclusiveRefused, Orphaned
    <2>19. CASE Publish(c)
      BY <2>19 DEF Publish, RollbackAll, Unlock, Finish, Orphaned
    <2>20. CASE PublishIoError(c)
      BY <2>20 DEF PublishIoError, RollbackAll, Unlock, Finish, Orphaned
    <2> QED BY <1>5, <2>1, <2>2, <2>3, <2>4, <2>5, <2>6, <2>7, <2>8, <2>9,
               <2>10, <2>11, <2>12, <2>13, <2>14, <2>15, <2>16, <2>17, <2>18,
               <2>19, <2>20
               DEF Progress
  <1> QED BY <1>1, <1>2, <1>3, <1>4, <1>5 DEF EngineNext

(* EngineInv holds in every state that the connections can reach. *)
THEOREM EngineInvariant == EngineSpec => []EngineInv
  BY InitInv, InvStep, PTL DEF EngineSpec

(* Every variable of the engine keeps its type: an interrupted, refused or
   failed statement leaves no connection in an undefined state. *)
THEOREM EngineTypeCorrect == EngineSpec => []EngineTypeOK
  <1>1. EngineInv => EngineTypeOK
    BY DEF EngineInv
  <1> QED BY <1>1, EngineInvariant, PTL

(* unixLock()'s protocol: one connection changes its cache, and the one that
   writes the file is alone with it. *)
THEOREM LocksAlwaysExclude == EngineSpec => []LocksExclude
  <1>1. EngineInv => LocksExclude
    BY DEF EngineInv
  <1> QED BY <1>1, EngineInvariant, PTL

(* A connection that holds SHARED, for a SELECT or for a transaction left
   open, sees the content of the file however the others interleave. *)
THEOREM ReadersAlwaysSeeTheFile == EngineSpec => []ReadersSeeTheFile
  <1>1. EngineInv => ReadersSeeTheFile
    BY DEF EngineInv
  <1> QED BY <1>1, EngineInvariant, PTL

(* Deferred foreign keys hold in the file after every commit. *)
THEOREM FileIsNeverOrphaned == EngineSpec => []FileIsNotOrphaned
  <1>1. EngineInv => FileIsNotOrphaned
    BY DEF EngineInv
  <1> QED BY <1>1, EngineInvariant, PTL

(* A connection outside a transaction holds no lock between statements. *)
THEOREM IdleNeverHoldsLock == EngineSpec => []IdleHoldsNoLock
  <1>1. EngineInv => IdleHoldsNoLock
    BY DEF EngineInv
  <1> QED BY <1>1, EngineInvariant, PTL

(* PENDING, which refuses every reader, is never held outside a transaction:
   only an END that was refused leaves it behind. *)
THEOREM PendingIsAlwaysATransaction == EngineSpec => []PendingIsATransaction
  <1>1. EngineInv => PendingIsATransaction
    BY DEF EngineInv
  <1> QED
    BY <1>1, EngineInvariant, PTL

(* The four together: what a connection may rely on of the others' locks, and
   they of its own, in every state of every interleaving. *)
THEOREM LocksAreAlwaysSound == EngineSpec => []LocksAreSound
  BY LocksAlwaysExclude, ReadersAlwaysSeeTheFile, IdleNeverHoldsLock,
     PendingIsAlwaysATransaction, PTL
  DEF LocksAreSound

-----------------------------------------------------------------------------
(* Refinement: the engine implements TransactionalStore. *)

(* A file nobody has opened yet is a store nobody works on. *)
LEMMA StoreInitRefined == EngineInit => Store!StoreInit
  BY DEF EngineInit, Store!StoreInit, Writers

(* A step of the engine is a step of the store: Look when SHARED is taken,
   Stage when RESERVED is, Publish for a commit and Discard when the locks
   are released, or it changes nothing the store can see. *)
LEMMA StoreStepRefined ==
  EngineInv /\ [EngineNext]_engineVars => [Store!StoreNext]_(Store!storeVars)
  <1> SUFFICES ASSUME EngineInv, [EngineNext]_engineVars
               PROVE  [Store!StoreNext]_(Store!storeVars)
    OBVIOUS
  <1> DEFINE Stutter == UNCHANGED Store!storeVars
  <1> USE DEF EngineInv, EngineTypeOK, PhasesMatchLocks, Writers, Others
  <1>1. CASE UNCHANGED engineVars
    BY <1>1 DEF engineVars, Store!storeVars
  <1>2. ASSUME NEW c \in Conns, NEW s \in Statements, Prepare(c, s)
        PROVE  Stutter
    BY <1>2 DEF Prepare, Store!storeVars
  <1>3. ASSUME NEW c \in Conns, Misuse(c)
        PROVE  Stutter
    BY <1>3 DEF Misuse, Store!storeVars
  <1>4. ASSUME NEW c \in Conns, RollbackAll(c) \/ Unlock(c), UNCHANGED file
        PROVE  Stutter \/ Store!Discard(c)
    <2>1. CASE lock[c] = "none"
      <3>1. UNCHANGED <<file, lock, cache>>
        BY <1>4, <2>1 DEF RollbackAll, Unlock
      <3> QED BY <3>1 DEF Store!storeVars
    <2>2. CASE lock[c] # "none"
      <3>1. /\ lock' = [lock EXCEPT ![c] = "none"]
            /\ cache' = [cache EXCEPT ![c] = {}]
        BY <1>4 DEF RollbackAll, Unlock
      <3>2. {d \in Conns : lock[d] # "none"}'
              = {d \in Conns : lock[d] # "none"} \ {c}
        BY <3>1
      <3>3. {d \in Conns : lock[d] \in Writers}'
              = {d \in Conns : lock[d] \in Writers} \ {c}
        BY <3>1
      <3>4. c \in {d \in Conns : lock[d] # "none"}
        BY <2>2
      <3> QED BY <1>4, <3>1, <3>2, <3>3, <3>4 DEF Store!Discard, Store!Forget
    <2> QED BY <2>1, <2>2
  <1>5. ASSUME NEW c \in Conns, Drop(c)
        PROVE  Stutter \/ Store!Discard(c)
    BY <1>4, <1>5 DEF Drop
  <1>6. ASSUME NEW c \in Conns, Progress(c)
        PROVE  Stutter \/ Store!Look(c) \/ Store!Stage(c)
                 \/ Store!Publish(c) \/ Store!Discard(c)
    <2>1. CASE \/ StepMalformed(c) \/ StepUnbindable(c)
               \/ StepBegin(c) \/ StepNoTransaction(c)
               \/ StepEndOrphaned(c) \/ StepSharedBusy(c)
               \/ HaltInTransaction(c)
      BY <2>1 DEF StepMalformed, StepUnbindable, StepBegin, StepNoTransaction,
                  StepEndOrphaned, StepSharedBusy, HaltInTransaction,
                  Store!storeVars
    <2>2. CASE StepEndBusy(c) \/ StepEndExclusive(c) \/ HaltExclusive(c)
      <3>1. lock[c] \in Writers
        BY <2>2 DEF StepEndBusy, StepEndExclusive, HaltExclusive, Locks
      <3>2. /\ UNCHANGED <<file, cache>>
            /\ \E l \in Writers : lock' = [lock EXCEPT ![c] = l]
        BY <2>2 DEF StepEndBusy, StepEndExclusive, HaltExclusive
      <3>3. UNCHANGED <<{d \in Conns : lock[d] # "none"},
                        {d \in Conns : lock[d] \in Writers}>>
        BY <3>1, <3>2
      <3> QED BY <3>2, <3>3 DEF Store!storeVars
    <2>3. CASE \/ StepRollback(c) \/ StepEndRead(c) \/ StepIoError(c)
               \/ BackOff(c) \/ HaltRelease(c) \/ HaltRefused(c)
               \/ PublishIoError(c)
      BY <1>4, <2>3 DEF StepRollback, StepEndRead, StepIoError, BackOff,
                        HaltRelease, HaltRefused, PublishIoError
    <2>4. CASE StepSelect(c)
      <3>1. CASE lock[c] = "none"
        BY <2>4, <3>1 DEF StepSelect, Seen, Store!Look
      <3>2. CASE lock[c] # "none"
        BY <2>4, <3>2 DEF StepSelect, Seen, Store!storeVars
      <3> QED BY <3>1, <3>2
    <2>5. CASE StepReservedBusy(c)
      <3>1. CASE lock[c] = "none"
        BY <2>5, <3>1 DEF StepReservedBusy, Store!Look
      <3>2. CASE lock[c] # "none"
        BY <2>5, <3>2 DEF StepReservedBusy, Store!storeVars
      <3> QED BY <3>1, <3>2
    <2>6. CASE StepWrite(c)
      <3>1. Store!Current(c) = Seen(c)
        BY DEF Store!Current, Seen
      <3>2. \A d \in Conns \ {c} : ~(lock[d] \in Writers)
        BY <2>6 DEF StepWrite, ReservedRefused
      <3>3. /\ {d \in Conns : lock[d] # "none"}'
                 = {d \in Conns : lock[d] # "none"} \union {c}
            /\ {d \in Conns : lock[d] \in Writers}' = {c}
        BY <3>2, <2>6 DEF StepWrite
      <3>4. stmt[c] \in Writes
        <4>1. stmt[c] \in Statements /\ IsWrite(stmt[c])
          BY <2>6 DEF StepWrite
        <4> QED BY <4>1 DEF IsWrite, Statements, Plain, BeginStmt, EndStmt,
                            RollbackStmt, SelectStmt, Malformed,
                            Unbindable
      <3>5. \/ cache' = [cache EXCEPT ![c] = Seen(c)]
            \/ /\ ~Conflicts(Seen(c), stmt[c])
               /\ cache' = [cache EXCEPT ![c] = Effect(Seen(c), stmt[c])]
        BY <2>6 DEF StepWrite
      <3>6. UNCHANGED file
        BY <2>6 DEF StepWrite
      <3> QED BY <3>1, <3>2, <3>3, <3>4, <3>5, <3>6 DEF Store!Stage,
                 Store!Conflicts, Store!Effect, Store!Matches,
                 Conflicts, Effect, Matches
    <2>7. CASE Publish(c)
      <3>1. lock[c] = "exclusive" /\ ~Orphaned(cache[c])
        BY <2>7 DEF Publish
      <3>2. \A d \in Conns \ {c} : lock[d] = "none"
        BY <3>1 DEF LocksExclude
      <3>3. file' = cache[c] /\ Unlock(c)
        BY <2>7 DEF Publish, RollbackAll
      <3>4. Store!Forget(c)
        BY <3>3 DEF Unlock, Store!Forget
      <3>5. ~Store!Orphaned(cache[c])
        BY <3>1 DEF Store!Orphaned, Orphaned
      <3> QED BY <3>1, <3>2, <3>3, <3>4, <3>5 DEF Store!Publish
    <2> QED BY <1>6, <2>1, <2>2, <2>3, <2>4, <2>5, <2>6, <2>7 DEF Progress
  <1> QED BY <1>1, <1>2, <1>3, <1>5, <1>6 DEF EngineNext, Store!StoreNext

(* Locks, caches, refusals, rollbacks and crashes add up to a transactional
   store: snapshots of the file, one writer, all of a transaction or none. *)
THEOREM EngineImplementsStore == EngineSpec => ImplementsStore
  BY StoreInitRefined, StoreStepRefined, EngineInvariant, PTL
  DEF EngineSpec, ImplementsStore, Store!StoreSpec

-----------------------------------------------------------------------------
(* RowOps. *)

RowLabels == {"begin_rows", "insert", "end_rows", "end_not_dictionary",
              "end_failed"}
DmlLabels == {"begin_dml", "dml", "end_dml"}
EndLabels == {"end_rows", "end_not_dictionary", "end_failed", "end_dml"}

(* The statements that run between BEGIN and END. *)
DmlsAndRows == Writes \union {Malformed, Unbindable}

(* SQLite answered END with a refusal that leaves the transaction open. *)
Refused(c) ==
  \/ rc[c] = "busy" /\ lock[c] \in {"reserved", "pending"}
  \/ rc[c] = "constraint" /\ Orphaned(cache[c])

(* A closed object is in autocommit mode and runs nothing. *)
ClosedIsQuiet(c) == ~db[c] => autocommit[c] /\ phase[c] = "done"

ArgumentsFit(c) ==
  /\ pc[c] \in RowLabels => args[c] \in Seq(Elements)
  /\ pc[c] \in DmlLabels => Len(args[c]) = 1 /\ args[c][1] \in DmlStatements
  /\ pc[c] = "insert" => index[c] > 0

(* Where the statement of BEGIN, of a row and of END has got to, and whether
   a transaction is open there. *)
BeginOpens(c) ==
  pc[c] \in {"begin_rows", "begin_dml"} /\ db[c] =>
    \/ phase[c] = "step" /\ stmt[c] = BeginStmt
    \/ phase[c] = "done" /\ ~autocommit[c]

BodyStaysOpen(c) ==
  pc[c] \in {"insert", "dml"} /\ db[c] =>
    /\ phase[c] # "commit"
    /\ phase[c] = "step" => stmt[c] \in DmlsAndRows
    /\ phase[c] # "done" \/ rc[c] = "ok" => ~autocommit[c]

EndCloses(c) ==
  pc[c] \in EndLabels =>
    \/ phase[c] = "step" /\ stmt[c] = EndStmt
    \/ phase[c] = "commit"
    \/ phase[c] = "done" /\ (autocommit[c] \/ Refused(c))

(* Which statement it is whose result the method looks at, and that one is
   given up exactly when it cannot be bound. *)
StopIsKnown(c) ==
  /\ pc[c] \in {"insert", "dml"} =>
       /\ phase[c] = "step" => stmt[c] = Stopped(c)
       /\ phase[c] \notin {"step", "done"} => Stopped(c) # Unbindable
       /\ phase[c] = "done" /\ db[c] /\ Stopped(c) = Unbindable
            => rc[c] = "unbound"
  /\ pc[c] \notin {"idle", "query"} /\ rc[c] = "unbound" =>
       /\ pc[c] \in {"insert", "dml"} /\ phase[c] = "done" /\ db[c]
       /\ Stopped(c) = Unbindable

MessageIsSaved(c) ==
  /\ pc[c] = "end_failed" =>
       /\ previous[c] # ""
       /\ previous[c] = "ok" <=> db[c] /\ Stopped(c) = Unbindable
  /\ pc[c] = "end_dml" =>
       /\ previous[c] # ""
       /\ ~success[c] => (previous[c] = "ok" <=>
                            db[c] /\ Stopped(c) = Unbindable)

CallInv(c) ==
  /\ ClosedIsQuiet(c)
  /\ ArgumentsFit(c)
  /\ BeginOpens(c)
  /\ BodyStaysOpen(c)
  /\ EndCloses(c)
  /\ StopIsKnown(c)
  /\ MessageIsSaved(c)

RowOpsInv ==
  /\ TypeOK
  /\ EngineInv
  /\ \A c \in Conns : CallInv(c)

-----------------------------------------------------------------------------

(* Closed objects that have made no call satisfy the invariant. *)
LEMMA RowOpsInit == Init => RowOpsInv
  <1> SUFFICES ASSUME Init PROVE RowOpsInv
    OBVIOUS
  <1>1. EngineInv
    BY InitInv DEF Init
  <1>2. EngineTypeOK
    BY <1>1 DEF EngineInv
  <1>3. TypeOK
    <2>1. <<>> \in Seq(Statements \union {NotDictionary})
      OBVIOUS
    <2> QED BY <1>2, <2>1 DEF Init, TypeOK, Labels, Messages
  <1>4. \A c \in Conns : ClosedIsQuiet(c)
    BY DEF Init, EngineInit, ClosedIsQuiet
  <1>5. \A c \in Conns : pc[c] = "idle"
    BY DEF Init
  <1> QED
    BY <1>1, <1>3, <1>4, <1>5
    DEF RowOpsInv, CallInv, ArgumentsFit, BeginOpens, BodyStaysOpen, EndCloses, StopIsKnown,
        MessageIsSaved, RowLabels, DmlLabels, EndLabels

(* A query() is a call of the engine. *)
LEMMA QueryIsEngineCall ==
  ASSUME NEW c \in Conns, NEW s \in Statements, NEW label, Query(c, s, label)
  PROVE  EngineNext
  BY DEF Query, EngineNext

(* The statement of the k-th element. *)
LEMMA NextElementIsEngineCall ==
  ASSUME RowOpsInv, NEW c \in Conns, NEW k \in Nat \ {0},
         pc[c] \in RowLabels, NextElement(c, k)
  PROVE  EngineNext
  <1>1. EndStmt \in Statements
    BY DEF Statements
  <1>2. k <= Len(args[c]) /\ args[c][k] # NotDictionary
          => args[c][k] \in Statements
    <2>1. args[c] \in Seq(Elements)
      BY DEF RowOpsInv, CallInv, ArgumentsFit
    <2> QED BY <2>1 DEF Elements, Statements
  <1> QED BY <1>1, <1>2, QueryIsEngineCall DEF NextElement

(* Every step of a method is a step of the engine or leaves it alone. *)
LEMMA StepIsEngineStep ==
  RowOpsInv /\ [Next]_vars => [EngineNext]_engineVars
  <1> SUFFICES ASSUME RowOpsInv, [Next]_vars
               PROVE  [EngineNext]_engineVars
    OBVIOUS
  <1>0. /\ BeginStmt \in Statements
        /\ EndStmt \in Statements
        /\ DmlStatements \subseteq Statements
    BY DEF Statements, DmlStatements
  <1>1. CASE UNCHANGED vars
    BY <1>1 DEF vars
  <1>2. ASSUME NEW c \in Conns, Environment(c)
        PROVE  [EngineNext]_engineVars
    <2>1. CASE open_db(c)
      BY <2>1 DEF open_db
    <2>2. CASE close_db(c) \/ crash(c)
      BY <2>2 DEF close_db, crash, EngineNext
    <2>3. CASE query(c)
      BY <2>3, QueryIsEngineCall, QueriesAssumption DEF query, Call
    <2>4. CASE insert_rows(c)
      BY <2>4, <1>0, QueryIsEngineCall DEF insert_rows, Call
    <2>5. CASE update_or_delete_rows(c)
      BY <2>5, <1>0, QueryIsEngineCall DEF update_or_delete_rows, Call
    <2> QED BY <1>2, <2>1, <2>2, <2>3, <2>4, <2>5 DEF Environment
  <1>3. ASSUME NEW c \in Conns, Continue(c)
        PROVE  [EngineNext]_engineVars
    <2>1. CASE Work(c)
      BY <2>1 DEF Work, EngineNext
    <2>2. CASE \/ QueryReply(c) \/ EndRowsReply(c)
               \/ EndNotDictionaryReply(c) \/ EndFailedReply(c)
               \/ EndDmlReply(c)
      BY <2>2 DEF QueryReply, EndRowsReply, EndNotDictionaryReply,
                  EndFailedReply, EndDmlReply, Return
    <2>3. CASE BeginRowsReply(c)
      BY <2>3, NextElementIsEngineCall
      DEF BeginRowsReply, Replied, RowLabels
    <2>4. CASE InsertReply(c)
      <3>1. index[c] + 1 \in Nat \ {0}
        BY DEF RowOpsInv, TypeOK
      <3> QED BY <2>4, <3>1, NextElementIsEngineCall
              DEF InsertReply, Replied, RowLabels
    <2>5. CASE InsertFailed(c)
      BY <2>5, <1>0, QueryIsEngineCall DEF InsertFailed
    <2>6. CASE BeginDmlReply(c)
      <3>1. args[c][1] \in Statements
        BY <2>6, <1>0
        DEF BeginDmlReply, Replied, RowOpsInv, CallInv, ArgumentsFit,
                          DmlLabels
      <3> QED BY <2>6, <3>1, QueryIsEngineCall DEF BeginDmlReply
    <2>7. CASE DmlReply(c)
      BY <2>7, <1>0, QueryIsEngineCall DEF DmlReply
    <2> QED BY <1>3, <2>1, <2>2, <2>3, <2>4, <2>5, <2>6, <2>7 DEF Continue
  <1> QED BY <1>1, <1>2, <1>3 DEF Next

-----------------------------------------------------------------------------
(* RowOpsInv is inductive. *)

(* Every variable keeps its type. *)
LEMMA TypeOKStep ==
  RowOpsInv /\ [Next]_vars => TypeOK'
  <1> SUFFICES ASSUME RowOpsInv, [Next]_vars
               PROVE  TypeOK'
    OBVIOUS
  <1>0. EngineTypeOK'
    BY StepIsEngineStep, TypeStep DEF RowOpsInv
  <1> DEFINE CallTypeOK ==
        /\ db \in [Conns -> BOOLEAN]
        /\ pc \in [Conns -> Labels]
        /\ args \in [Conns -> Seq(Statements \union {NotDictionary})]
        /\ index \in [Conns -> Nat]
        /\ success \in [Conns -> BOOLEAN]
        /\ previous \in [Conns -> Messages]
        /\ error_message \in [Conns -> Messages]
        /\ returned \in [Conns -> {"none", "true", "false"}]
        /\ own \in [Conns -> BOOLEAN]
        /\ durable \in [Conns -> SUBSET Rows]
  <1> SUFFICES CallTypeOK'
    BY <1>0 DEF TypeOK
  <1> USE DEF RowOpsInv, TypeOK, Labels
  <1>1. CASE UNCHANGED vars
    BY <1>1 DEF vars, callVars
  <1>2. ASSUME NEW c \in Conns, Environment(c)
        PROVE  CallTypeOK'
    <2>1. CASE open_db(c)
      BY <2>1 DEF open_db
    <2>2. CASE close_db(c)
      BY <2>2 DEF close_db
    <2>3. CASE crash(c)
      <3>1. <<>> \in Seq(Statements \union {NotDictionary})
        OBVIOUS
      <3>2. "" \in Messages
        BY DEF Messages
      <3> QED BY <2>3, <3>1, <3>2 DEF crash
    <2>4. CASE query(c)
      <3>1. PICK s \in Queries : Call(c, <<s>>, s, "query")
        BY <2>4 DEF query
      <3>2. <<s>> \in Seq(Statements \union {NotDictionary})
        BY QueriesAssumption
      <3> QED BY <3>1, <3>2 DEF Call, Query
    <2>5. CASE insert_rows(c)
      <3>1. PICK rows \in RowArrays : Call(c, rows, BeginStmt, "begin_rows")
        BY <2>5 DEF insert_rows
      <3>2. rows \in Seq(Statements \union {NotDictionary})
        <4>1. rows \in Seq(Elements)
          BY RowArraysAssumption
        <4>2. Elements \subseteq Statements \union {NotDictionary}
          BY DEF Elements, Statements
        <4> QED BY <4>1, <4>2
      <3> QED BY <3>1, <3>2 DEF Call, Query
    <2>6. CASE update_or_delete_rows(c)
      <3>1. PICK s \in Updates : Call(c, <<s>>, BeginStmt, "begin_dml")
        BY <2>6 DEF update_or_delete_rows
      <3>2. <<s>> \in Seq(Statements \union {NotDictionary})
        BY UpdatesAssumption DEF DmlStatements, Statements
      <3> QED BY <3>1, <3>2 DEF Call, Query
    <2> QED BY <1>2, <2>1, <2>2, <2>3, <2>4, <2>5, <2>6 DEF Environment
  <1>3. ASSUME NEW c \in Conns, Continue(c)
        PROVE  CallTypeOK'
    <2>0. /\ Message(rc[c]) \in Messages
          /\ previous[c] \in Messages
          /\ "" \in Messages
          /\ <<>> \in Seq(Statements \union {NotDictionary})
      <3>1. <<>> \in Seq(Statements \union {NotDictionary})
        OBVIOUS
      <3>2. rc[c] \in Codes
        BY DEF EngineTypeOK
      <3> QED BY <3>1, <3>2 DEF Message, Messages, Codes
    <2>1. CASE Work(c)
      <3>1. durable' \in [Conns -> SUBSET Rows]
        <4>1. cache[c] \in SUBSET Rows
          BY DEF EngineTypeOK
        <4> QED BY <2>1, <4>1 DEF Work
      <3>2. UNCHANGED <<db, pc, args, index, success, previous,
                        error_message, returned, own>>
        BY <2>1 DEF Work
      <3> QED BY <3>1, <3>2
    <2>2. ASSUME NEW value \in BOOLEAN, NEW code \in Messages,
                 SetMessage(c, code), Return(c, value)
          PROVE  CallTypeOK'
      BY <2>0, <2>2 DEF Return, SetMessage
    <2>8. CASE QueryReply(c)
      BY <2>0, <2>2, <2>8 DEF QueryReply
    <2>9. CASE EndRowsReply(c) \/ EndNotDictionaryReply(c) \/ EndFailedReply(c)
      BY <2>0, <2>2, <2>9 DEF EndRowsReply, EndNotDictionaryReply,
                              EndFailedReply
    <2>10. CASE EndDmlReply(c)
      BY <2>0, <2>2, <2>10 DEF EndDmlReply
    <2>3. CASE BeginRowsReply(c)
      BY <2>0, <2>3 DEF BeginRowsReply, SetMessage, NextElement, Query
    <2>4. CASE InsertReply(c)
      <3>1. index[c] + 1 \in Nat
        OBVIOUS
      <3> QED BY <2>0, <2>4, <3>1 DEF InsertReply, SetMessage, NextElement,
                                      Query
    <2>5. CASE InsertFailed(c)
      BY <2>0, <2>5 DEF InsertFailed, SetMessage, Query
    <2>6. CASE BeginDmlReply(c)
      BY <2>0, <2>6 DEF BeginDmlReply, SetMessage, Query
    <2>7. CASE DmlReply(c)
      BY <2>0, <2>7 DEF DmlReply, SetMessage, Query
    <2> QED BY <1>3, <2>1, <2>2, <2>3, <2>4, <2>5, <2>6, <2>7, <2>8,
               <2>9, <2>10 DEF Continue
  <1> QED BY <1>1, <1>2, <1>3 DEF Next

(* What a step of another connection may not touch. *)
SameEngine(d) ==
  /\ lock'[d] = lock[d] /\ autocommit'[d] = autocommit[d]
  /\ cache'[d] = cache[d] /\ stmt'[d] = stmt[d]
  /\ phase'[d] = phase[d] /\ rc'[d] = rc[d]

SameCall(d) ==
  /\ db'[d] = db[d] /\ pc'[d] = pc[d] /\ args'[d] = args[d]
  /\ index'[d] = index[d] /\ success'[d] = success[d]
  /\ previous'[d] = previous[d]
  /\ own'[d] = own[d] /\ durable'[d] = durable[d]

(* What SQLite does for one connection leaves the state of the others alone. *)
LEMMA ProgressIsLocal ==
  ASSUME EngineTypeOK, NEW c \in Conns, NEW d \in Conns \ {c}, Progress(c)
  PROVE  SameEngine(d)
  <1> USE DEF EngineTypeOK, SameEngine
  <1>1. CASE StepMalformed(c) \/ StepUnbindable(c)
    BY <1>1 DEF StepMalformed, StepUnbindable, Finish
  <1>2. CASE StepBegin(c)
    BY <1>2 DEF StepBegin, Finish
  <1>3. CASE StepNoTransaction(c)
    BY <1>3 DEF StepNoTransaction, Finish
  <1>4. CASE StepRollback(c)
    BY <1>4 DEF StepRollback, RollbackAll, Unlock, Finish
  <1>5. CASE StepEndRead(c)
    BY <1>5 DEF StepEndRead, RollbackAll, Unlock, Finish
  <1>6. CASE StepEndOrphaned(c)
    BY <1>6 DEF StepEndOrphaned, Finish
  <1>7. CASE StepEndBusy(c)
    BY <1>7 DEF StepEndBusy, Finish
  <1>8. CASE StepEndExclusive(c)
    BY <1>8 DEF StepEndExclusive
  <1>9. CASE StepSharedBusy(c)
    BY <1>9 DEF StepSharedBusy, Finish
  <1>10. CASE StepSelect(c)
    BY <1>10 DEF StepSelect
  <1>11. CASE StepReservedBusy(c)
    BY <1>11 DEF StepReservedBusy, Finish
  <1>12. CASE BackOff(c)
    BY <1>12 DEF BackOff, Unlock, Finish
  <1>13. CASE StepWrite(c)
    BY <1>13 DEF StepWrite
  <1>14. CASE StepIoError(c)
    BY <1>14 DEF StepIoError, RollbackAll, Unlock, Finish
  <1>15. CASE HaltInTransaction(c)
    BY <1>15 DEF HaltInTransaction, Finish
  <1>16. CASE HaltRelease(c)
    BY <1>16 DEF HaltRelease, Unlock, Finish
  <1>17. CASE HaltRefused(c)
    BY <1>17 DEF HaltRefused, Unlock, Finish
  <1>18. CASE HaltExclusive(c)
    BY <1>18 DEF HaltExclusive
  <1>19. CASE Publish(c)
    BY <1>19 DEF Publish, RollbackAll, Unlock, Finish
  <1>20. CASE PublishIoError(c)
    BY <1>20 DEF PublishIoError, RollbackAll, Unlock, Finish
  <1> QED BY <1>1, <1>2, <1>3, <1>4, <1>5, <1>6, <1>7, <1>8, <1>9, <1>10,
             <1>11, <1>12, <1>13, <1>14, <1>15, <1>16, <1>17, <1>18, <1>19,
             <1>20 DEF Progress

(* A step of one object leaves the others alone, their locals and their
   connections, but for the file they share. *)
LEMMA StepIsLocal ==
  ASSUME TypeOK, NEW c \in Conns, NEW d \in Conns \ {c},
         Environment(c) \/ Continue(c)
  PROVE  SameEngine(d) /\ SameCall(d)
  <1> USE DEF TypeOK, EngineTypeOK, SameEngine, SameCall
  <1>1. ASSUME NEW s, NEW label, Query(c, s, label)
        PROVE  SameEngine(d) /\ pc'[d] = pc[d]
    BY <1>1 DEF Query, Prepare, Misuse
  <1>2. CASE open_db(c)
    BY <1>2 DEF open_db, engineVars
  <1>3. CASE close_db(c)
    BY <1>3 DEF close_db, Drop, RollbackAll, Unlock, Finish
  <1>4. CASE crash(c)
    BY <1>4 DEF crash, Drop, RollbackAll, Unlock, Finish
  <1>5. CASE query(c) \/ insert_rows(c) \/ update_or_delete_rows(c)
    <2>1. PICK a, s, label : Call(c, a, s, label)
      BY <1>5 DEF query, insert_rows, update_or_delete_rows
    <2> QED BY <1>1, <2>1 DEF Call
  <1>6. CASE Work(c)
    BY <1>6, ProgressIsLocal DEF Work
  <1>7. CASE \/ QueryReply(c) \/ EndRowsReply(c) \/ EndNotDictionaryReply(c)
             \/ EndFailedReply(c) \/ EndDmlReply(c)
    <2>1. PICK value : Return(c, value)
      BY <1>7 DEF QueryReply, EndRowsReply, EndNotDictionaryReply,
                  EndFailedReply, EndDmlReply
    <2> QED BY <2>1 DEF Return, engineVars
  <1>8. CASE BeginRowsReply(c)
    BY <1>1, <1>8 DEF BeginRowsReply, NextElement
  <1>9. CASE InsertReply(c)
    BY <1>1, <1>9 DEF InsertReply, NextElement
  <1>10. CASE InsertFailed(c)
    BY <1>1, <1>10 DEF InsertFailed
  <1>11. CASE BeginDmlReply(c)
    BY <1>1, <1>11 DEF BeginDmlReply
  <1>12. CASE DmlReply(c)
    BY <1>1, <1>12 DEF DmlReply
  <1> QED BY <1>2, <1>3, <1>4, <1>5, <1>6, <1>7, <1>8, <1>9, <1>10, <1>11,
             <1>12 DEF Environment, Continue

(* A statement that is over takes no further step. *)
LEMMA ProgressNeedsStatement ==
  ASSUME NEW c \in Conns, Progress(c)
  PROVE  phase[c] # "done"
  BY DEF Progress, Steps, UsesTable, StepMalformed, StepUnbindable,
      StepBegin, StepNoTransaction, StepRollback, StepEndRead,
      StepEndOrphaned, StepEndBusy, StepEndExclusive, StepSharedBusy,
      StepSelect, StepReservedBusy, BackOff, StepWrite, StepIoError,
      HaltInTransaction, HaltRelease, HaltRefused, HaltExclusive, Publish,
      PublishIoError

(* The steps SQLite takes for BEGIN. *)
LEMMA BeginSteps ==
  ASSUME NEW c \in Conns, Progress(c),
         phase[c] = "step", stmt[c] = BeginStmt
  PROVE  StepBegin(c)
  <1>1. stmt[c].kind = "begin"
    BY DEF BeginStmt, Plain
  <1> QED BY <1>1 DEF Progress, Steps, UsesTable, IsWrite,
      StepMalformed, StepUnbindable, StepBegin, StepNoTransaction,
      StepRollback, StepEndRead,
      StepEndOrphaned, StepEndBusy, StepEndExclusive, StepSharedBusy,
      StepSelect, StepReservedBusy, BackOff, StepWrite, StepIoError,
      HaltInTransaction, HaltRelease, HaltRefused, HaltExclusive, Publish,
      PublishIoError

(* ... for the statement of a row, in a transaction. *)
LEMMA BodySteps ==
  ASSUME NEW c \in Conns, Progress(c), ~autocommit[c],
         phase[c] # "commit",
         phase[c] = "step" => stmt[c] \in DmlsAndRows
  PROVE  \/ StepMalformed(c) \/ StepUnbindable(c)
         \/ StepSharedBusy(c) \/ StepReservedBusy(c)
         \/ BackOff(c) \/ StepWrite(c) \/ StepIoError(c)
         \/ HaltInTransaction(c)
  <1>1. phase[c] = "step" =>
          stmt[c].kind \in {"insert", "update", "delete", "malformed", "unbindable"}
    BY WritesAssumption DEF DmlsAndRows, Malformed, Unbindable, Plain
  <1> QED BY <1>1 DEF Progress, Steps, UsesTable, IsWrite,
      StepMalformed, StepUnbindable, StepBegin, StepNoTransaction,
      StepRollback, StepEndRead,
      StepEndOrphaned, StepEndBusy, StepEndExclusive, StepSharedBusy,
      StepSelect, StepReservedBusy, BackOff, StepWrite, StepIoError,
      HaltInTransaction, HaltRelease, HaltRefused, HaltExclusive, Publish,
      PublishIoError

(* ... and for END. *)
LEMMA EndSteps ==
  ASSUME NEW c \in Conns, Progress(c),
         \/ phase[c] = "step" /\ stmt[c] = EndStmt
         \/ phase[c] = "commit"
  PROVE  \/ StepNoTransaction(c) \/ StepEndRead(c) \/ StepEndOrphaned(c)
         \/ StepEndBusy(c) \/ StepEndExclusive(c)
         \/ Publish(c) \/ PublishIoError(c)
  <1>1. phase[c] = "step" => stmt[c].kind = "end"
    BY DEF EndStmt, Plain
  <1> QED BY <1>1 DEF Progress, Steps, UsesTable, IsWrite,
      StepMalformed, StepUnbindable, StepBegin, StepNoTransaction,
      StepRollback, StepEndRead,
      StepEndOrphaned, StepEndBusy, StepEndExclusive, StepSharedBusy,
      StepSelect, StepReservedBusy, BackOff, StepWrite, StepIoError,
      HaltInTransaction, HaltRelease, HaltRefused, HaltExclusive, Publish,
      PublishIoError

(* BEGIN leaves a transaction open, whether it succeeds or not. *)
LEMMA BeginRuns ==
  ASSUME EngineTypeOK, NEW c \in Conns, Progress(c),
         phase[c] = "step", stmt[c] = BeginStmt
  PROVE  phase'[c] = "done" /\ ~autocommit'[c]
  BY BeginSteps DEF StepBegin, Finish, EngineTypeOK

(* A row's statement, in a transaction, stays in it unless it fails. *)
LEMMA BodyRuns ==
  ASSUME EngineTypeOK, NEW c \in Conns, Progress(c), ~autocommit[c],
         phase[c] # "commit",
         phase[c] = "step" => stmt[c] \in DmlsAndRows
  PROVE  /\ phase'[c] \notin {"commit", "step"}
         /\ phase'[c] # "done" \/ rc'[c] = "ok" => ~autocommit'[c]
  <1> USE DEF EngineTypeOK
  <1>1. CASE \/ StepMalformed(c) \/ StepUnbindable(c) \/ StepSharedBusy(c)
             \/ HaltInTransaction(c)
    BY <1>1 DEF StepMalformed, StepUnbindable, StepSharedBusy, HaltInTransaction, Finish
  <1>2. CASE StepReservedBusy(c)
    BY <1>2 DEF StepReservedBusy, Finish
  <1>3. CASE BackOff(c)
    BY <1>3 DEF BackOff, Finish
  <1>4. CASE StepWrite(c)
    BY <1>4 DEF StepWrite
  <1>5. CASE StepIoError(c)
    BY <1>5 DEF StepIoError, Finish
  <1> QED BY <1>1, <1>2, <1>3, <1>4, <1>5, BodySteps

(* END commits, or rolls back, or is refused for a reason. *)
LEMMA EndRuns ==
  ASSUME EngineTypeOK, NEW c \in Conns, Progress(c),
         \/ phase[c] = "step" /\ stmt[c] = EndStmt
         \/ phase[c] = "commit"
  PROVE  \/ phase'[c] = "commit"
         \/ phase'[c] = "done" /\ (autocommit'[c] \/ Refused(c)')
  <1> USE DEF EngineTypeOK
  <1>1. CASE StepNoTransaction(c)
    BY <1>1 DEF StepNoTransaction, Finish
  <1>2. CASE StepEndRead(c) \/ Publish(c) \/ PublishIoError(c)
    BY <1>2 DEF StepEndRead, Publish, PublishIoError, RollbackAll, Finish
  <1>3. CASE StepEndOrphaned(c)
    BY <1>3 DEF StepEndOrphaned, Finish, Refused, Orphaned
  <1>4. CASE StepEndBusy(c)
    BY <1>4 DEF StepEndBusy, ReaderArrives, Finish, Refused
  <1>5. CASE StepEndExclusive(c)
    BY <1>5 DEF StepEndExclusive
  <1> QED BY <1>1, <1>2, <1>3, <1>4, <1>5, EndSteps

(* BEGIN and END are never given up. *)
LEMMA BracketsAreBound ==
  ASSUME EngineTypeOK, NEW c \in Conns, Progress(c), rc[c] # "unbound",
         \/ phase[c] = "step" /\ stmt[c] \in {BeginStmt, EndStmt}
         \/ phase[c] = "commit"
  PROVE  rc'[c] # "unbound"
  <1> USE DEF EngineTypeOK
  <1>1. CASE StepBegin(c)
    BY <1>1 DEF StepBegin, Finish
  <1>2. CASE StepNoTransaction(c) \/ StepEndRead(c) \/ Publish(c)
    BY <1>2 DEF StepNoTransaction, StepEndRead, Publish, Finish
  <1>3. CASE StepEndOrphaned(c) \/ StepEndBusy(c) \/ PublishIoError(c)
    BY <1>3 DEF StepEndOrphaned, StepEndBusy, PublishIoError, Finish
  <1>4. CASE StepEndExclusive(c)
    BY <1>4 DEF StepEndExclusive
  <1> QED BY <1>1, <1>2, <1>3, <1>4, BeginSteps, EndSteps

(* The statement of a row is given up exactly when it cannot be bound. *)
LEMMA BodyIsBound ==
  ASSUME EngineTypeOK, NEW c \in Conns, Progress(c), ~autocommit[c],
         phase[c] # "commit", rc[c] # "unbound", NEW s,
         phase[c] = "step" => stmt[c] \in DmlsAndRows /\ stmt[c] = s,
         phase[c] # "step" => s # Unbindable
  PROVE  /\ rc'[c] = "unbound" <=> s = Unbindable
         /\ rc'[c] = "unbound" => phase'[c] = "done"
         /\ phase'[c] # "step"
         /\ phase'[c] # "done" => s # Unbindable
  <1> USE DEF EngineTypeOK
  <1>1. CASE StepUnbindable(c)
    <2>1. phase[c] = "step" /\ s.kind = "unbindable"
      BY <1>1 DEF StepUnbindable, Steps
    <2>2. s = Unbindable
      BY <2>1, WritesAssumption DEF DmlsAndRows, Malformed, Unbindable, Plain
    <2> QED BY <1>1, <2>2 DEF StepUnbindable, Finish
  <1>2. s = Unbindable => s.kind = "unbindable"
    BY DEF Unbindable, Plain
  <1>3. CASE StepMalformed(c) \/ StepSharedBusy(c)
    BY <1>2, <1>3 DEF StepMalformed, StepSharedBusy, Steps, UsesTable,
                      IsWrite, Finish
  <1>4. CASE StepReservedBusy(c)
    BY <1>2, <1>4 DEF StepReservedBusy, IsWrite, Finish
  <1>5. CASE StepWrite(c)
    BY <1>2, <1>5 DEF StepWrite, IsWrite
  <1>6. CASE StepIoError(c)
    BY <1>2, <1>6 DEF StepIoError, IsWrite, Finish
  <1>7. CASE BackOff(c) \/ HaltInTransaction(c)
    BY <1>7 DEF BackOff, HaltInTransaction, Finish
  <1> QED BY <1>1, <1>3, <1>4, <1>5, <1>6, <1>7, BodySteps

(* What SQLite does for a method keeps the method's invariant. *)
LEMMA WorkKeepsCallInv ==
  ASSUME RowOpsInv, NEW c \in Conns, Work(c)
  PROVE  CallInv(c)'
  <1>1. /\ EngineTypeOK /\ Progress(c) /\ phase[c] # "done" /\ CallInv(c)
    BY ProgressNeedsStatement DEF RowOpsInv, TypeOK, Work
  <1>2. UNCHANGED <<db, pc, args, index, success, previous>>
    BY DEF Work
  <1>3. db[c]
    BY <1>1 DEF CallInv, ClosedIsQuiet
  <1>4. ClosedIsQuiet(c)' /\ ArgumentsFit(c)' /\ MessageIsSaved(c)'
    BY <1>1, <1>2, <1>3 DEF CallInv, ClosedIsQuiet, ArgumentsFit,
                            MessageIsSaved, Stopped
  <1>5. BeginOpens(c)'
    BY <1>1, <1>2, <1>3, BeginRuns DEF CallInv, BeginOpens
  <1>6. BodyStaysOpen(c)'
    BY <1>1, <1>2, <1>3, BodyRuns DEF CallInv, BodyStaysOpen
  <1>7. EndCloses(c)'
    BY <1>1, <1>2, EndRuns DEF CallInv, EndCloses
  <1>8. StopIsKnown(c)'
    <2> SUFFICES ASSUME pc[c] \notin {"idle", "query"}
                 PROVE  StopIsKnown(c)'
      BY <1>2 DEF StopIsKnown
    <2>1. Stopped(c)' = Stopped(c)
      BY <1>2 DEF Stopped
    <2>2. rc[c] # "unbound"
      BY <1>1 DEF CallInv, StopIsKnown
    <2>3. CASE pc[c] \in {"insert", "dml"}
      <3>1. /\ ~autocommit[c] /\ phase[c] # "commit"
            /\ phase[c] = "step" =>
                 stmt[c] \in DmlsAndRows /\ stmt[c] = Stopped(c)
            /\ phase[c] # "step" => Stopped(c) # Unbindable
        BY <1>1, <1>3, <2>3 DEF CallInv, BodyStaysOpen, StopIsKnown
      <3>2. PICK s : s = Stopped(c)
        OBVIOUS
      <3>3. /\ rc'[c] = "unbound" <=> s = Unbindable
            /\ rc'[c] = "unbound" => phase'[c] = "done"
            /\ phase'[c] # "step"
            /\ phase'[c] # "done" => s # Unbindable
        BY <1>1, <2>2, <3>1, <3>2, BodyIsBound
      <3> QED BY <1>2, <1>3, <2>1, <2>3, <3>2, <3>3 DEF StopIsKnown
    <2>4. CASE pc[c] \notin {"insert", "dml"}
      <3>1. \/ phase[c] = "step" /\ stmt[c] \in {BeginStmt, EndStmt}
            \/ phase[c] = "commit"
        BY <1>1, <1>3, <2>4 DEF CallInv, BeginOpens, EndCloses, EndLabels,
           RowOpsInv, TypeOK, Labels
      <3>2. rc'[c] # "unbound"
        BY <1>1, <2>2, <3>1, BracketsAreBound
      <3> QED BY <1>2, <2>4, <3>2 DEF StopIsKnown
    <2> QED BY <2>3, <2>4
  <1> QED BY <1>4, <1>5, <1>6, <1>7, <1>8 DEF CallInv

(* What query() leaves behind: the statement in progress, or, on a closed
   object, the code of a missing connection at once. *)
LEMMA QueryLeaves ==
  ASSUME TypeOK, NEW c \in Conns, NEW s, NEW label \in Labels,
         Query(c, s, label)
  PROVE  /\ pc'[c] = label
         /\ autocommit'[c] = autocommit[c]
         /\ phase[c] = "done"
         /\ rc'[c] # "unbound"
         /\ db[c] => phase'[c] = "step" /\ stmt'[c] = s
         /\ ~db[c] => phase'[c] = "done"
  BY DEF TypeOK, EngineTypeOK, Query, Prepare, Misuse

(* A call that returns leaves nothing to relate. *)
LEMMA ReturnKeepsCallInv ==
  ASSUME RowOpsInv, NEW c \in Conns, NEW value, Return(c, value)
  PROVE  CallInv(c)'
  <1>1. pc'[c] = "idle" /\ UNCHANGED <<db, autocommit, phase>>
    BY DEF Return, engineVars, RowOpsInv, TypeOK
  <1>2. ClosedIsQuiet(c)
    BY DEF RowOpsInv, CallInv
  <1> QED
    BY <1>1, <1>2 DEF CallInv, ClosedIsQuiet, ArgumentsFit, BeginOpens,
       BodyStaysOpen, EndCloses, StopIsKnown, MessageIsSaved, RowLabels, DmlLabels,
       EndLabels

(* A call that begins, a close and a crash keep the invariant of the call. *)
LEMMA EnvironmentKeepsCallInv ==
  ASSUME RowOpsInv, NEW c \in Conns, Environment(c)
  PROVE  CallInv(c)'
  <1> USE DEF RowOpsInv, TypeOK, EngineTypeOK
  <1>0. CallInv(c)
    OBVIOUS
  <1>1. ASSUME pc'[c] = "idle", ClosedIsQuiet(c)'
        PROVE  CallInv(c)'
    BY <1>1 DEF CallInv, ArgumentsFit, BeginOpens, BodyStaysOpen, EndCloses, StopIsKnown,
       MessageIsSaved, RowLabels, DmlLabels, EndLabels
  <1>2. CASE open_db(c)
    BY <1>1, <1>2 DEF open_db, ClosedIsQuiet
  <1>3. CASE close_db(c)
    BY <1>1, <1>3 DEF close_db, Drop, RollbackAll, Finish, ClosedIsQuiet
  <1>4. CASE crash(c)
    BY <1>1, <1>4 DEF crash, Drop, RollbackAll, Finish, ClosedIsQuiet
  <1>5. CASE query(c)
    <2>1. PICK s \in Queries : Call(c, <<s>>, s, "query")
      BY <1>5 DEF query
    <2>2. pc'[c] = "query" /\ ClosedIsQuiet(c)'
      BY <1>0, <2>1, QueryLeaves DEF Call, Labels, CallInv, ClosedIsQuiet
    <2> QED BY <2>2 DEF CallInv, ArgumentsFit, BeginOpens, BodyStaysOpen,
               EndCloses, StopIsKnown,
               MessageIsSaved, RowLabels, DmlLabels, EndLabels
  <1>6. CASE insert_rows(c)
    <2>1. PICK rows \in RowArrays : Call(c, rows, BeginStmt, "begin_rows")
      BY <1>6 DEF insert_rows
    <2>2. /\ pc'[c] = "begin_rows" /\ args'[c] = rows /\ rc'[c] # "unbound"
          /\ ClosedIsQuiet(c)' /\ BeginOpens(c)'
      BY <1>0, <2>1, QueryLeaves
      DEF Call, Labels, CallInv, ClosedIsQuiet, BeginOpens
    <2>3. ArgumentsFit(c)'
      BY <2>2, RowArraysAssumption DEF ArgumentsFit, DmlLabels
    <2> QED BY <2>2, <2>3 DEF CallInv, BodyStaysOpen, EndCloses, StopIsKnown,
               MessageIsSaved, EndLabels
  <1>7. CASE update_or_delete_rows(c)
    <2>1. PICK s \in Updates : Call(c, <<s>>, BeginStmt, "begin_dml")
      BY <1>7 DEF update_or_delete_rows
    <2>2. /\ pc'[c] = "begin_dml" /\ args'[c] = <<s>> /\ rc'[c] # "unbound"
          /\ ClosedIsQuiet(c)' /\ BeginOpens(c)'
      BY <1>0, <2>1, QueryLeaves
      DEF Call, Labels, CallInv, ClosedIsQuiet, BeginOpens
    <2>3. ArgumentsFit(c)'
      BY <2>2, UpdatesAssumption DEF ArgumentsFit, RowLabels
    <2> QED BY <2>2, <2>3 DEF CallInv, BodyStaysOpen, EndCloses, StopIsKnown,
               MessageIsSaved, EndLabels
  <1> QED BY <1>2, <1>3, <1>4, <1>5, <1>6, <1>7 DEF Environment

(* END is sent: it will close the transaction, or there is none. *)
LEMMA EndIsSent ==
  ASSUME RowOpsInv, NEW c \in Conns, NEW label \in EndLabels,
         Query(c, EndStmt, label), UNCHANGED <<db, args>>,
         (label = "end_dml" => pc[c] \in DmlLabels) /\
           (label # "end_dml" => pc[c] \in RowLabels),
         MessageIsSaved(c)'
  PROVE  CallInv(c)'
  <1>1. CallInv(c) /\ TypeOK /\ label \in Labels
    BY DEF RowOpsInv, EndLabels, Labels
  <1>2. /\ pc'[c] = label /\ autocommit'[c] = autocommit[c]
        /\ rc'[c] # "unbound"
        /\ db[c] => phase'[c] = "step" /\ stmt'[c] = EndStmt
        /\ ~db[c] => phase'[c] = "done"
    BY <1>1, QueryLeaves
  <1>3. ClosedIsQuiet(c)' /\ EndCloses(c)'
    BY <1>1, <1>2 DEF CallInv, ClosedIsQuiet, EndCloses
  <1>4. ArgumentsFit(c)'
    BY <1>1, <1>2 DEF CallInv, ArgumentsFit, EndLabels, RowLabels, DmlLabels
  <1> QED BY <1>2, <1>3, <1>4 DEF CallInv, BeginOpens, BodyStaysOpen,
             StopIsKnown, EndLabels

(* The statement of a row is sent, in the transaction. *)
LEMMA BodyIsSent ==
  ASSUME RowOpsInv, NEW c \in Conns, NEW s \in DmlsAndRows,
         NEW label \in {"insert", "dml"}, Query(c, s, label),
         UNCHANGED <<db, args>>, db[c] => ~autocommit[c],
         label = "dml" => pc[c] \in DmlLabels,
         label = "insert" => pc[c] \in RowLabels /\ index'[c] > 0,
         s = args[c][IF label = "dml" THEN 1 ELSE index'[c]]
  PROVE  CallInv(c)'
  <1>1. CallInv(c) /\ TypeOK /\ label \in Labels
    BY DEF RowOpsInv, Labels
  <1>2. /\ pc'[c] = label /\ autocommit'[c] = autocommit[c]
        /\ rc'[c] # "unbound"
        /\ db[c] => phase'[c] = "step" /\ stmt'[c] = s
        /\ ~db[c] => phase'[c] = "done"
    BY <1>1, QueryLeaves
  <1>3. ClosedIsQuiet(c)' /\ BodyStaysOpen(c)'
    BY <1>1, <1>2 DEF CallInv, ClosedIsQuiet, BodyStaysOpen
  <1>4. ArgumentsFit(c)'
    BY <1>1, <1>2 DEF CallInv, ArgumentsFit, RowLabels, DmlLabels
  <1>5. StopIsKnown(c)'
    <2>1. Stopped(c)' = s
      BY <1>2 DEF Stopped
    <2> QED BY <1>2, <2>1 DEF StopIsKnown
  <1> QED BY <1>2, <1>3, <1>4, <1>5 DEF CallInv, BeginOpens, EndCloses,
             EndLabels, MessageIsSaved

(* The head of the loop of insert_rows() keeps the invariant of the call. *)
LEMMA NextElementKeepsCallInv ==
  ASSUME RowOpsInv, NEW c \in Conns, NEW k \in Nat \ {0},
         pc[c] \in RowLabels, NextElement(c, k), UNCHANGED <<db, args>>,
         db[c] => ~autocommit[c]
  PROVE  CallInv(c)'
  <1>1. args[c] \in Seq(Elements) /\ index'[c] = k
    BY DEF RowOpsInv, CallInv, ArgumentsFit, NextElement, TypeOK
  <1>2. ASSUME NEW label \in {"end_rows", "end_not_dictionary"},
               Query(c, EndStmt, label)
        PROVE  CallInv(c)'
    <2>1. MessageIsSaved(c)'
      BY <1>2, QueryLeaves DEF MessageIsSaved, RowOpsInv, Labels
    <2> QED BY <1>2, <2>1, EndIsSent DEF EndLabels
  <1>3. ASSUME k <= Len(args[c]), args[c][k] # NotDictionary,
               Query(c, args[c][k], "insert")
        PROVE  CallInv(c)'
    <2>1. args[c][k] \in DmlsAndRows
      BY <1>1, <1>3 DEF Elements, DmlsAndRows
    <2> QED BY <1>1, <1>3, <2>1, BodyIsSent
  <1> QED BY <1>2, <1>3 DEF NextElement

(* Every step of a call that has begun keeps the invariant of the call. *)
LEMMA ContinueKeepsCallInv ==
  ASSUME RowOpsInv, NEW c \in Conns, Continue(c)
  PROVE  CallInv(c)'
  <1>0. CallInv(c) /\ TypeOK /\ rc[c] \in Codes
    BY DEF RowOpsInv, TypeOK, EngineTypeOK
  <1>1. CASE Work(c)
    BY <1>1, WorkKeepsCallInv
  <1>2. CASE \/ QueryReply(c) \/ EndRowsReply(c) \/ EndNotDictionaryReply(c)
             \/ EndFailedReply(c) \/ EndDmlReply(c)
    BY <1>2, ReturnKeepsCallInv
    DEF QueryReply, EndRowsReply, EndNotDictionaryReply, EndFailedReply,
        EndDmlReply
  <1>3. CASE BeginRowsReply(c)
    <2>1. db[c] => ~autocommit[c]
      BY <1>0, <1>3 DEF BeginRowsReply, Replied, CallInv, BeginOpens
    <2>2. pc[c] \in RowLabels
      BY <1>3 DEF BeginRowsReply, Replied, RowLabels
    <2> QED BY <1>3, <2>1, <2>2, NextElementKeepsCallInv DEF BeginRowsReply
  <1>4. CASE InsertReply(c)
    <2>1. db[c] => ~autocommit[c]
      BY <1>0, <1>4 DEF InsertReply, Replied, CallInv, BodyStaysOpen
    <2>2. pc[c] \in RowLabels /\ index[c] + 1 \in Nat \ {0}
      BY <1>0, <1>4 DEF InsertReply, Replied, RowLabels, TypeOK
    <2> QED BY <1>4, <2>1, <2>2, NextElementKeepsCallInv DEF InsertReply
  <1>5. CASE InsertFailed(c)
    <2>1. pc'[c] = "end_failed" /\ previous'[c] = Message(rc[c]) /\ rc[c] # "ok"
      BY <1>0, <1>5, QueryLeaves DEF InsertFailed, Labels, TypeOK
    <2>2. MessageIsSaved(c)'
      <3>1. /\ pc[c] = "insert" /\ phase[c] = "done"
            /\ UNCHANGED <<args, index, db>>
        BY <1>5 DEF InsertFailed, Replied
      <3>2. Stopped(c)' = Stopped(c)
        BY <2>1, <3>1 DEF Stopped
      <3>3. rc[c] = "unbound" <=> db[c] /\ Stopped(c) = Unbindable
        BY <1>0, <3>1 DEF CallInv, StopIsKnown
      <3> QED BY <1>0, <2>1, <3>1, <3>2, <3>3 DEF MessageIsSaved, Message,
                                                  Codes
    <2>3. pc[c] \in RowLabels
      BY <1>5 DEF InsertFailed, Replied, RowLabels
    <2> QED BY <1>5, <2>2, <2>3, EndIsSent DEF InsertFailed, EndLabels
  <1>6. CASE BeginDmlReply(c)
    <2>1. db[c] => ~autocommit[c]
      BY <1>0, <1>6 DEF BeginDmlReply, Replied, CallInv, BeginOpens
    <2>2. pc[c] \in DmlLabels /\ args[c][1] \in DmlsAndRows
      BY <1>0, <1>6 DEF BeginDmlReply, Replied, DmlLabels, CallInv,
                        ArgumentsFit, DmlStatements, DmlsAndRows
    <2> QED BY <1>6, <2>1, <2>2, BodyIsSent DEF BeginDmlReply
  <1>7. CASE DmlReply(c)
    <2>1. /\ pc'[c] = "end_dml" /\ previous'[c] = Message(rc[c])
          /\ success'[c] = (rc[c] = "ok")
      BY <1>0, <1>7, QueryLeaves DEF DmlReply, Labels, TypeOK
    <2>2. MessageIsSaved(c)'
      <3>1. /\ pc[c] = "dml" /\ phase[c] = "done"
            /\ UNCHANGED <<args, index, db>>
        BY <1>7 DEF DmlReply, Replied
      <3>2. Stopped(c)' = Stopped(c)
        BY <2>1, <3>1 DEF Stopped
      <3>3. rc[c] = "unbound" <=> db[c] /\ Stopped(c) = Unbindable
        BY <1>0, <3>1 DEF CallInv, StopIsKnown
      <3> QED BY <1>0, <2>1, <3>1, <3>2, <3>3 DEF MessageIsSaved, Message,
                                                  Codes
    <2>3. pc[c] \in DmlLabels
      BY <1>7 DEF DmlReply, Replied, DmlLabels
    <2> QED BY <1>7, <2>2, <2>3, EndIsSent DEF DmlReply, EndLabels
  <1> QED BY <1>1, <1>2, <1>3, <1>4, <1>5, <1>6, <1>7 DEF Continue

(* RowOpsInv is inductive: the object that takes the step keeps its part,
   and the others do not notice. *)
LEMMA RowOpsInvStep == RowOpsInv /\ [Next]_vars => RowOpsInv'
  <1> SUFFICES ASSUME RowOpsInv, [Next]_vars
               PROVE  RowOpsInv'
    OBVIOUS
  <1>1. TypeOK' /\ EngineInv'
    BY TypeOKStep, StepIsEngineStep, InvStep DEF RowOpsInv
  <1>2. ASSUME NEW d \in Conns, SameEngine(d), SameCall(d)
        PROVE  CallInv(d)'
    <2>1. CallInv(d)
      BY DEF RowOpsInv
    <2>2. Stopped(d)' = Stopped(d)
      BY <1>2 DEF SameCall, Stopped
    <2>3. /\ ClosedIsQuiet(d)' /\ ArgumentsFit(d)' /\ BeginOpens(d)'
          /\ BodyStaysOpen(d)' /\ EndCloses(d)'
      BY <1>2, <2>1 DEF SameEngine, SameCall, CallInv, ClosedIsQuiet,
         ArgumentsFit, BeginOpens, BodyStaysOpen, EndCloses, Refused, Orphaned
    <2>4. StopIsKnown(d)'
      BY <1>2, <2>1, <2>2 DEF SameEngine, SameCall, CallInv, StopIsKnown
    <2>5. MessageIsSaved(d)'
      BY <1>2, <2>1, <2>2 DEF SameCall, CallInv, MessageIsSaved
    <2> QED BY <2>3, <2>4, <2>5 DEF CallInv
  <1>3. CASE UNCHANGED vars
    <2>1. \A d \in Conns : SameEngine(d) /\ SameCall(d)
      BY <1>3 DEF vars, engineVars, callVars, SameEngine, SameCall
    <2> QED BY <1>1, <1>2, <2>1 DEF RowOpsInv
  <1>4. ASSUME NEW c \in Conns, Environment(c) \/ Continue(c)
        PROVE  \A d \in Conns : CallInv(d)'
    <2>1. CallInv(c)'
      BY <1>4, EnvironmentKeepsCallInv, ContinueKeepsCallInv
    <2>2. \A d \in Conns \ {c} : CallInv(d)'
      BY <1>2, <1>4, StepIsLocal DEF RowOpsInv
    <2> QED BY <2>1, <2>2
  <1> QED BY <1>1, <1>3, <1>4 DEF Next, RowOpsInv

-----------------------------------------------------------------------------

(* The strengthened invariant holds in every state the objects can reach. *)
THEOREM RowOpsInvariant == Spec => []RowOpsInv
  BY RowOpsInit, RowOpsInvStep, PTL DEF Spec

(* Every variable of the objects and of the engine keeps its type. *)
THEOREM RowOpsTypeCorrect == Spec => []TypeOK
  <1>1. RowOpsInv => TypeOK
    BY DEF RowOpsInv
  <1> QED BY <1>1, RowOpsInvariant, PTL

(* The methods drive SQLite by legal calls only, so what holds of Engine
   holds of the objects. *)
THEOREM RowOpsImplementsEngine == Spec => EngineSpec
  <1>1. Init => EngineInit
    BY DEF Init
  <1> QED BY <1>1, StepIsEngineStep, RowOpsInvariant, PTL DEF Spec, EngineSpec

(* ... in particular, the objects together are a transactional store. *)
THEOREM RowOpsImplementsStore == Spec => ImplementsStore
  BY RowOpsImplementsEngine, EngineImplementsStore, PTL

(* Whatever the methods and their callers send, the locks of their connections
   are sound ... *)
THEOREM RowOpsKeepLocksSound == Spec => []LocksAreSound
  BY RowOpsImplementsEngine, LocksAreAlwaysSound, PTL

(* ... and the file has no orphan: FileIsNotOrphaned, of the row methods. *)
THEOREM RowOpsNeverOrphanTheFile == Spec => []FileIsNotOrphaned
  BY RowOpsImplementsEngine, FileIsNeverOrphaned, PTL

(* insert_rows(), update_rows() and delete_rows() ignore the result of BEGIN
   and still never run a statement that would be committed on its own. *)
THEOREM BatchesAreTransactional == Spec => []BatchIsTransactional
  <1>1. RowOpsInv => BatchIsTransactional
    BY DEF RowOpsInv, CallInv, BodyStaysOpen, BatchIsTransactional
  <1> QED BY <1>1, RowOpsInvariant, PTL

(* A method returns when its END is over, and not before. *)
LEMMA OnlyEndReturns ==
  ASSUME RowOpsInv, Next, NEW c \in Conns, Returns(c)
  PROVE  EndRowsReply(c) \/ EndNotDictionaryReply(c) \/ EndFailedReply(c)
         \/ EndDmlReply(c)
  <1>1. PICK d \in Conns : Environment(d) \/ Continue(d)
    BY DEF Next
  <1>2. pc[c] \notin {"idle", "query"} /\ pc'[c] = "idle" /\ TypeOK
    BY DEF Returns, RowOpsInv
  <1>3. d = c
    BY <1>1, <1>2, StepIsLocal DEF SameCall
  <1>4. \A s, label : Query(c, s, label) => pc'[c] = label
    BY <1>2 DEF Query, TypeOK
  <1>5. ~Environment(c)
    <2>1. ~crash(c)
      BY DEF crash, Returns, RowOpsInv, TypeOK
    <2> QED BY <1>2, <2>1 DEF Environment, open_db, close_db, query,
               insert_rows, update_or_delete_rows, Call
  <1>6. ~Work(c) /\ ~QueryReply(c)
    BY <1>2 DEF Work, QueryReply, Replied
  <1>7. \A k : ~NextElement(c, k)
    BY <1>2, <1>4 DEF NextElement
  <1>8. ~BeginRowsReply(c) /\ ~InsertReply(c)
    BY <1>7 DEF BeginRowsReply, InsertReply
  <1>9. ~InsertFailed(c) /\ ~BeginDmlReply(c) /\ ~DmlReply(c)
    BY <1>2, <1>4 DEF InsertFailed, BeginDmlReply, DmlReply
  <1> QED BY <1>1, <1>3, <1>5, <1>6, <1>8, <1>9 DEF Continue

(* When one of them returns with a transaction open, SQLite refused its END:
   for a reader, or for a deferred foreign key. *)
THEOREM OpenOnlyIfRefused == Spec => LeavesOpenOnlyIfRefused
  <1> DEFINE P == \A c \in Conns :
                    Returns(c) /\ ~autocommit[c]
                      => Refused(c)
  <1>1. RowOpsInv /\ [Next]_vars => [P]_vars
    <2> SUFFICES ASSUME RowOpsInv, Next, NEW c \in Conns, Returns(c),
                        ~autocommit[c]
                 PROVE  Refused(c)
      OBVIOUS
    <2>1. pc[c] \in EndLabels /\ phase[c] = "done"
      BY OnlyEndReturns DEF EndRowsReply, EndNotDictionaryReply,
         EndFailedReply, EndDmlReply, Replied, EndLabels
    <2> QED BY <2>1 DEF RowOpsInv, CallInv, EndCloses
  <1> QED BY <1>1, RowOpsInvariant, PTL
         DEF Spec, LeavesOpenOnlyIfRefused, Refused

(* false comes with the message of the statement that failed, never with that
   of the END that followed it; it is that of a success exactly when the
   statement was given up because a parameter of it could not be bound. *)
THEOREM FailuresAreExplained == Spec => FailureIsExplained
  <1> DEFINE Explained(c) ==
               /\ error_message'[c] # ""
               /\ error_message'[c] = "ok" <=> db[c] /\ Stopped(c) = Unbindable
             P == \A c \in Conns :
                    Returns(c) /\ returned'[c] = "false"
                    /\ pc[c] # "end_not_dictionary"
                      => Explained(c)
  <1>1. RowOpsInv /\ [Next]_vars => [P]_vars
    <2> SUFFICES ASSUME RowOpsInv, Next, NEW c \in Conns, Returns(c),
                        returned'[c] = "false",
                        pc[c] # "end_not_dictionary"
                 PROVE  Explained(c)
      OBVIOUS
    <2>1. MessageIsSaved(c) /\ TypeOK
      BY DEF RowOpsInv, CallInv
    <2>2. ~EndRowsReply(c) /\ ~EndNotDictionaryReply(c)
      BY <2>1 DEF EndRowsReply, EndNotDictionaryReply, Replied, Return, TypeOK
    <2>3. CASE EndFailedReply(c)
      BY <2>1, <2>3 DEF EndFailedReply, Replied, SetMessage, MessageIsSaved,
                        TypeOK
    <2>4. CASE EndDmlReply(c)
      BY <2>1, <2>4 DEF EndDmlReply, Replied, SetMessage, Return,
                        MessageIsSaved, TypeOK
    <2> QED BY <2>2, <2>3, <2>4, OnlyEndReturns
  <1> QED BY <1>1, RowOpsInvariant, PTL DEF Spec, FailureIsExplained
-----------------------------------------------------------------------------
(* What a method has done so far is in the cache of its connection, and in
   the file once END commits it. *)

StatementIsFresh(c) ==
  /\ phase[c] = "step" => rc[c] = "ok"
  /\ phase[c] = "backoff" => rc[c] # "ok"

ElementIsSent(c) ==
  /\ pc[c] = "insert" =>
       /\ index[c] \in DOMAIN args[c]
       /\ args[c][index[c]] # NotDictionary
       /\ phase[c] = "step" => stmt[c] = args[c][index[c]]
  /\ pc[c] = "dml" /\ phase[c] = "step" => stmt[c] = args[c][1]
  /\ pc[c] = "end_rows" => index[c] = Len(args[c]) + 1

OwnStartsUnlocked(c) ==
  pc[c] \in {"begin_rows", "begin_dml"} /\ db[c] /\ phase[c] = "done"
    /\ rc[c] = "ok" => lock[c] = "none"

CommitsATransaction(c) ==
  pc[c] \in EndLabels /\ phase[c] = "commit" => ~autocommit[c]

(* Has the statement of a row done its work? *)
Wrote(c) == phase[c] \in {"halt", "done"} /\ rc[c] = "ok"

(* The first element that is not in the table yet. *)
Upto(c) == IF pc[c] = "insert" /\ Wrote(c) THEN index[c] + 1 ELSE index[c]

(* The rows before the k-th element are in the transaction; in one of its own
   there is nothing else, and none of them was in the file. *)
CacheHolds(c, k) ==
  /\ lock[c] \notin Writers => Accepted(c, k) = {}
  /\ lock[c] \in Writers =>
       /\ Accepted(c, k) \subseteq cache[c]
       /\ own[c] => /\ cache[c] = file \union Accepted(c, k)
                    /\ file \intersect Accepted(c, k) = {}

RowsAreInTheCache(c) ==
  (pc[c] = "insert" \/ InsertsRows(c)) /\ db[c] /\ ~autocommit[c]
    => \A k \in Nat : k = Upto(c) => CacheHolds(c, k)

DmlIsInTheCache(c) ==
  pc[c] \in {"dml", "end_dml"} /\ own[c] /\ ~autocommit[c]
    /\ lock[c] \in Writers =>
       cache[c] = IF IF pc[c] = "dml" THEN Wrote(c) ELSE success[c]
                  THEN Effect(file, args[c][1]) ELSE file

RowsAreDurable(c) ==
  pc[c] = "end_rows" /\ phase[c] = "done" /\ rc[c] = "ok"
    => Accepted(c, Len(args[c]) + 1) \subseteq durable[c]

ContentInv(c) ==
  /\ StatementIsFresh(c)
  /\ ElementIsSent(c)
  /\ OwnStartsUnlocked(c)
  /\ CommitsATransaction(c)
  /\ RowsAreInTheCache(c)
  /\ DmlIsInTheCache(c)
  /\ RowsAreDurable(c)

ExactInv == RowOpsInv /\ \A c \in Conns : ContentInv(c)

(* The rows accepted grow by those of one element at a time. *)
LEMMA AcceptedGrows ==
  ASSUME NEW c \in Conns, args[c] \in Seq(Elements),
         NEW k \in DOMAIN args[c]
  PROVE  Accepted(c, k + 1) = Accepted(c, k) \union args[c][k].add
  <1>1. DOMAIN args[c] \subseteq Nat
    OBVIOUS
  <1>2. {j \in DOMAIN args[c] : j < k + 1}
          = {j \in DOMAIN args[c] : j < k} \union {k}
    BY <1>1
  <1>3. {args[c][j].add : j \in {j \in DOMAIN args[c] : j < k + 1}}
          = {args[c][j].add : j \in {j \in DOMAIN args[c] : j < k}}
            \union {args[c][k].add}
    BY <1>2
  <1> QED BY <1>3 DEF Accepted

(* ... from none. *)
LEMMA AcceptedFromNone ==
  ASSUME NEW c \in Conns, args[c] \in Seq(Elements)
  PROVE  Accepted(c, 1) = {}
  <1>1. {j \in DOMAIN args[c] : j < 1} = {}
    OBVIOUS
  <1> QED BY <1>1 DEF Accepted

(* Two states of a call that differ in no part the rows are read from. *)
LEMMA CacheHoldsKept ==
  ASSUME NEW c \in Conns, NEW k, CacheHolds(c, k), args'[c] = args[c],
         lock'[c] = lock[c], cache'[c] = cache[c], own'[c] = own[c],
         lock[c] \in Writers => file' = file
  PROVE  CacheHolds(c, k)'
  <1>1. Accepted(c, k)' = Accepted(c, k)
    BY DEF Accepted
  <1> QED BY <1>1 DEF CacheHolds

(* While a connection has a lock, no other one writes the file. *)
LEMMA LockHoldsTheFile ==
  ASSUME RowOpsInv, NEW c \in Conns, NEW d \in Conns \ {c},
         Environment(c) \/ Continue(c), lock[d] # "none"
  PROVE  file' = file
  <1>1. ~Publish(c)
    <2>1. lock[c] # "exclusive"
      BY DEF RowOpsInv, EngineInv, LocksExclude, Others
    <2> QED BY <2>1 DEF Publish, RowOpsInv, EngineInv, PhasesMatchLocks
  <1>2. Progress(c) => file' = file
    BY <1>1 DEF Progress,
      StepMalformed, StepUnbindable, StepBegin, StepNoTransaction,
      StepRollback, StepEndRead,
      StepEndOrphaned, StepEndBusy, StepEndExclusive, StepSharedBusy,
      StepSelect, StepReservedBusy, BackOff, StepWrite, StepIoError,
      HaltInTransaction, HaltRelease, HaltRefused, HaltExclusive,
      PublishIoError
  <1>3. \A s, label : Query(c, s, label) => file' = file
    BY DEF Query, Prepare, Misuse
  <1>4. Environment(c) => file' = file
    BY <1>3 DEF Environment, open_db, close_db, crash, query, insert_rows,
       update_or_delete_rows, Call, Drop, engineVars
  <1>5. ASSUME Continue(c) PROVE file' = file
    BY <1>2, <1>3, <1>5 DEF Continue, Work, QueryReply, BeginRowsReply,
       InsertReply, InsertFailed, EndRowsReply, EndNotDictionaryReply,
       EndFailedReply, BeginDmlReply, DmlReply, EndDmlReply, Return,
       NextElement, engineVars
  <1> QED BY <1>4, <1>5

(* Objects that have made no call satisfy the invariant. *)
LEMMA ExactInit == Init => ExactInv
  <1> SUFFICES ASSUME Init PROVE ExactInv
    OBVIOUS
  <1>1. \A c \in Conns : pc[c] = "idle" /\ phase[c] = "done"
    BY DEF Init, EngineInit
  <1> QED
    BY <1>1, RowOpsInit
    DEF ExactInv, ContentInv, StatementIsFresh, ElementIsSent,
        OwnStartsUnlocked, CommitsATransaction, RowsAreInTheCache,
        InsertsRows, DmlIsInTheCache, RowsAreDurable, EndLabels

(* A step that leaves a call and its connection alone, and the file under
   its lock, is not noticed. *)
LEMMA ContentKept ==
  ASSUME NEW d \in Conns, ContentInv(d), SameEngine(d), SameCall(d),
         lock[d] \in Writers => file' = file
  PROVE  ContentInv(d)'
  <1>1. /\ StatementIsFresh(d)' /\ ElementIsSent(d)'
        /\ OwnStartsUnlocked(d)' /\ CommitsATransaction(d)'
    BY DEF SameEngine, SameCall, ContentInv, StatementIsFresh,
       ElementIsSent, OwnStartsUnlocked, CommitsATransaction
  <1>2. RowsAreInTheCache(d)'
    <2> SUFFICES ASSUME RowsAreInTheCache(d),
                        (InsertsRows(d) \/ pc[d] = "insert")', db'[d],
                        ~autocommit'[d], NEW k \in Nat, k = Upto(d)'
                 PROVE  CacheHolds(d, k)'
      BY DEF RowsAreInTheCache, ContentInv
    <2>1. CacheHolds(d, k)
      BY DEF SameEngine, SameCall, RowsAreInTheCache, Upto, Wrote, InsertsRows
    <2> QED BY <2>1, CacheHoldsKept DEF SameEngine, SameCall
  <1>3. DmlIsInTheCache(d)'
    BY DEF SameEngine, SameCall, ContentInv, DmlIsInTheCache, Wrote
  <1>4. RowsAreDurable(d)'
    BY DEF SameEngine, SameCall, ContentInv, RowsAreDurable, Accepted
  <1> QED BY <1>1, <1>2, <1>3, <1>4 DEF ContentInv

(* What another object does is not noticed. *)
LEMMA OthersKeepContent ==
  ASSUME ExactInv, NEW c \in Conns, NEW d \in Conns \ {c},
         Environment(c) \/ Continue(c)
  PROVE  ContentInv(d)'
  <1>1. SameEngine(d) /\ SameCall(d) /\ ContentInv(d)
    BY StepIsLocal DEF ExactInv, RowOpsInv
  <1>2. lock[d] \in Writers => file' = file
    BY LockHoldsTheFile DEF ExactInv, Writers
  <1> QED BY <1>1, <1>2, ContentKept

(* SQLite works on the statement of an insert_rows(): the cache takes its
   row when it succeeds, and is what it was when it fails. *)
LEMMA RowRuns ==
  ASSUME ExactInv, NEW c \in Conns, Progress(c), pc[c] = "insert",
         pc'[c] = "insert", db[c], ~autocommit[c], ~autocommit'[c],
         UNCHANGED <<args, index, own>>, NEW k \in Nat, k = Upto(c)'
  PROVE  CacheHolds(c, k)'
  <1> USE DEF ExactInv, RowOpsInv, TypeOK, EngineTypeOK
  <1>1. /\ args[c] \in Seq(Elements) /\ index[c] \in DOMAIN args[c]
        /\ index[c] \in Nat
        /\ phase[c] # "commit"
        /\ phase[c] = "step" => stmt[c] = args[c][index[c]] /\ rc[c] = "ok"
        /\ phase[c] = "backoff" => rc[c] # "ok" /\ lock[c] = "shared"
        /\ phase[c] = "step" => stmt[c] \in DmlsAndRows
    BY DEF CallInv, ArgumentsFit, BodyStaysOpen, RowLabels, ContentInv,
           StatementIsFresh, ElementIsSent, EngineInv, PhasesMatchLocks
  <1>2. \A n \in Nat : n = Upto(c) => CacheHolds(c, n)
    BY DEF ContentInv, RowsAreInTheCache
  <1>3. /\ Wrote(c)' => k = index[c] + 1
        /\ ~Wrote(c)' => k = index[c]
    BY DEF Upto
  <1>4. \A n : Accepted(c, n)' = Accepted(c, n)
    BY DEF Accepted
  <1>5. CASE StepMalformed(c) \/ StepUnbindable(c) \/ StepSharedBusy(c)
    <2>1. k = index[c] /\ CacheHolds(c, k)
      BY <1>1, <1>2, <1>3, <1>5 DEF StepMalformed, StepUnbindable,
         StepSharedBusy, Steps, UsesTable, Finish, Upto, Wrote
    <2>2. UNCHANGED <<file, lock, cache, own, args>>
      BY <1>5 DEF StepMalformed, StepUnbindable, StepSharedBusy
    <2> QED BY <2>1, <2>2, CacheHoldsKept
  <1>6. CASE HaltInTransaction(c)
    <2>1. CacheHolds(c, k)
      BY <1>1, <1>2, <1>3, <1>6 DEF HaltInTransaction, Finish, Upto, Wrote
    <2>2. UNCHANGED <<file, lock, cache, own, args>>
      BY <1>6 DEF HaltInTransaction
    <2> QED BY <2>1, <2>2, CacheHoldsKept
  <1>7. CASE StepReservedBusy(c)
    <2>1. k = index[c] /\ CacheHolds(c, k) /\ UNCHANGED file
      BY <1>1, <1>2, <1>3, <1>7 DEF StepReservedBusy, Finish, Upto, Wrote
    <2>2. CASE lock[c] = "none"
      BY <1>4, <1>7, <2>1, <2>2 DEF StepReservedBusy, CacheHolds, Writers
    <2>3. CASE lock[c] # "none"
      <3>1. UNCHANGED <<file, lock, cache, own, args>>
        BY <1>7, <2>3 DEF StepReservedBusy
      <3> QED BY <2>1, <3>1, CacheHoldsKept
    <2> QED BY <2>2, <2>3
  <1>8. CASE BackOff(c)
    <2>1. k = index[c] /\ CacheHolds(c, k)
      BY <1>1, <1>2, <1>3, <1>8 DEF BackOff, Finish, Upto, Wrote
    <2> QED
      BY <1>1, <1>4, <1>8, <2>1 DEF BackOff, Unlock, CacheHolds, Writers
  <1>9. CASE StepWrite(c)
    <2>1. /\ phase[c] = "step" /\ IsWrite(stmt[c])
          /\ lock'[c] \in Writers /\ UNCHANGED file /\ phase'[c] = "halt"
      BY <1>9 DEF StepWrite, Writers
    <2>2. CacheHolds(c, index[c])
      BY <1>1, <1>2, <2>1 DEF Upto, Wrote
    <2>3. lock[c] \notin Writers => Seen(c) = file
      BY DEF Seen, EngineInv, ReadersSeeTheFile, Writers, Locks
    <2>4. lock[c] \in Writers => Seen(c) = cache[c]
      BY DEF Seen, Writers
    <2>5. /\ Accepted(c, index[c]) \subseteq Seen(c)
          /\ own[c] => /\ Seen(c) = file \union Accepted(c, index[c])
                       /\ file \intersect Accepted(c, index[c]) = {}
      BY <2>2, <2>3, <2>4 DEF CacheHolds
    <2>6. CASE Conflicts(Seen(c), stmt[c]) /\ cache'[c] = Seen(c)
               /\ rc'[c] = "constraint"
      <3>1. k = index[c]
        BY <1>3, <2>6 DEF Wrote
      <3> QED BY <1>4, <2>1, <2>5, <2>6, <3>1 DEF CacheHolds
    <2>7. CASE /\ ~Conflicts(Seen(c), stmt[c])
               /\ cache'[c] = Effect(Seen(c), stmt[c])
               /\ rc'[c] = rc[c]
      <3>1. k = index[c] + 1
        BY <1>1, <1>3, <2>1, <2>7 DEF Wrote
      <3>2. stmt[c].kind = "insert" /\ stmt[c].del = {}
        <4>1. stmt[c] \in Elements
          BY <1>1, <2>1
        <4>2. /\ Malformed.kind = "malformed"
              /\ Unbindable.kind = "unbindable"
              /\ NotDictionary.kind = "not a dictionary"
          BY DEF Malformed, Unbindable, NotDictionary, Plain
        <4>3. stmt[c].kind \in {"insert", "update", "delete"}
          BY <2>1 DEF IsWrite
        <4> QED BY <4>1, <4>2, <4>3, WritesAssumption DEF Elements
      <3>3. /\ cache'[c] = Seen(c) \union stmt[c].add
            /\ Seen(c) \intersect stmt[c].add = {}
        BY <2>7, <3>2 DEF Conflicts, Effect, Matches
      <3>4. Accepted(c, k) = Accepted(c, index[c]) \union stmt[c].add
        BY <1>1, <2>1, <3>1, AcceptedGrows
      <3> QED BY <1>4, <2>1, <2>5, <3>3, <3>4 DEF CacheHolds
    <2> QED BY <1>9, <2>6, <2>7 DEF StepWrite
  <1>10. ~StepIoError(c)
    BY DEF StepIoError, RollbackAll
  <1> QED BY <1>1, <1>5, <1>6, <1>7, <1>8, <1>9, <1>10, BodySteps

(* ... and on the statement of an update_rows() or a delete_rows(), in a
   transaction of its own. *)
LEMMA DmlRuns ==
  ASSUME ExactInv, NEW c \in Conns, Progress(c), pc[c] = "dml", db[c],
         own[c], ~autocommit[c], ~autocommit'[c], lock'[c] \in Writers,
         UNCHANGED args
  PROVE  cache'[c] = IF Wrote(c)' THEN Effect(file, args[c][1])' ELSE file'
  <1> USE DEF ExactInv, RowOpsInv, TypeOK, EngineTypeOK
  <1>1. /\ phase[c] # "commit"
        /\ phase[c] = "step" => stmt[c] = args[c][1] /\ rc[c] = "ok"
        /\ phase[c] = "backoff" => rc[c] # "ok"
        /\ phase[c] = "step" => stmt[c] \in DmlsAndRows
    BY DEF CallInv, BodyStaysOpen, ContentInv, StatementIsFresh, ElementIsSent
  <1>2. lock[c] \in Writers =>
          cache[c] = IF Wrote(c) THEN Effect(file, args[c][1]) ELSE file
    BY DEF ContentInv, DmlIsInTheCache
  <1>3. \/ Seen(c) = file
        \/ lock[c] \in Writers /\ Seen(c) = cache[c]
    BY DEF Seen, EngineInv, ReadersSeeTheFile, Writers, Locks
  <1>4. file' = file => Effect(file, args[c][1])' = Effect(file, args[c][1])
    BY DEF Effect, Matches
  <1>5. CASE StepMalformed(c) \/ StepUnbindable(c) \/ StepSharedBusy(c)
    <2>1. UNCHANGED <<file, lock, cache>> /\ ~Wrote(c) /\ ~Wrote(c)'
      BY <1>5 DEF StepMalformed, StepUnbindable, StepSharedBusy, Steps,
                  UsesTable, Finish, Wrote
    <2> QED BY <1>2, <2>1
  <1>6. CASE HaltInTransaction(c)
    <2>1. UNCHANGED <<file, lock, cache>> /\ Wrote(c)' = Wrote(c)
      BY <1>6 DEF HaltInTransaction, Finish, Wrote
    <2> QED BY <1>2, <1>4, <2>1
  <1>7. CASE StepReservedBusy(c)
    <2>1. UNCHANGED <<file, lock, cache>> /\ ~Wrote(c) /\ ~Wrote(c)'
      BY <1>7 DEF StepReservedBusy, Finish, Wrote, Writers
    <2> QED BY <1>2, <2>1
  <1>8. ~BackOff(c) /\ ~StepIoError(c)
    BY DEF BackOff, StepIoError, RollbackAll, Unlock, Writers
  <1>9. CASE StepWrite(c)
    <2>1. phase[c] = "step" /\ UNCHANGED file /\ phase'[c] = "halt"
      BY <1>9 DEF StepWrite
    <2>2. ~Wrote(c) /\ stmt[c] = args[c][1] /\ rc[c] = "ok"
      BY <1>1, <2>1 DEF Wrote
    <2>3. Seen(c) = file
      BY <1>2, <1>3, <2>2
    <2>4. \/ cache'[c] = file /\ rc'[c] = "constraint"
          \/ cache'[c] = Effect(file, args[c][1]) /\ rc'[c] = "ok"
      BY <1>9, <2>2, <2>3 DEF StepWrite
    <2> QED BY <1>4, <2>1, <2>4 DEF Wrote
  <1> QED BY <1>1, <1>5, <1>6, <1>7, <1>8, <1>9, BodySteps

(* No step of SQLite starts a statement afresh, and one that gives up its
   lock has a reason. *)
LEMMA ProgressLeavesStep ==
  ASSUME EngineTypeOK, NEW c \in Conns, Progress(c)
  PROVE  /\ phase'[c] # "step"
         /\ phase'[c] = "backoff" => rc'[c] # "ok"
  <1> USE DEF EngineTypeOK
  <1>1. CASE StepReservedBusy(c)
    BY <1>1 DEF StepReservedBusy, Finish
  <1>2. CASE \/ StepMalformed(c) \/ StepUnbindable(c) \/ StepBegin(c)
             \/ StepNoTransaction(c) \/ StepRollback(c) \/ StepEndRead(c) \/ StepEndOrphaned(c)
             \/ StepEndBusy(c) \/ StepSharedBusy(c) \/ BackOff(c)
             \/ StepIoError(c) \/ HaltInTransaction(c) \/ HaltRelease(c)
             \/ HaltRefused(c) \/ Publish(c) \/ PublishIoError(c)
    <2>1. PICK code : Finish(c, code)
      BY <1>2 DEF StepMalformed, StepUnbindable, StepBegin, StepNoTransaction,
         StepRollback, StepEndRead, StepEndOrphaned, StepEndBusy, StepSharedBusy, BackOff,
         StepIoError, HaltInTransaction, HaltRelease, HaltRefused, Publish,
         PublishIoError
    <2> QED BY <2>1 DEF Finish
  <1>3. CASE StepEndExclusive(c) \/ StepSelect(c) \/ StepWrite(c)
             \/ HaltExclusive(c)
    BY <1>3 DEF StepEndExclusive, StepSelect, StepWrite, HaltExclusive
  <1> QED BY <1>1, <1>2, <1>3 DEF Progress

(* What SQLite does for a method keeps what is known of its rows. *)
LEMMA WorkKeepsContent ==
  ASSUME ExactInv, NEW c \in Conns, Work(c)
  PROVE  ContentInv(c)'
  <1> USE DEF ExactInv, RowOpsInv, TypeOK, EngineTypeOK
  <1>1. /\ Progress(c) /\ phase[c] # "done" /\ CallInv(c) /\ ContentInv(c)
        /\ UNCHANGED <<db, pc, args, index, success, own>>
    BY ProgressNeedsStatement DEF Work
  <1>2. db[c]
    BY <1>1 DEF CallInv, ClosedIsQuiet
  <1>3. StatementIsFresh(c)' /\ ElementIsSent(c)'
    BY <1>1, ProgressLeavesStep
    DEF ContentInv, StatementIsFresh, ElementIsSent
  <1>4. OwnStartsUnlocked(c)'
    <2> SUFFICES ASSUME pc[c] \in {"begin_rows", "begin_dml"}, rc'[c] = "ok"
                 PROVE  lock'[c] = "none"
      BY <1>1 DEF OwnStartsUnlocked
    <2>1. StepBegin(c)
      BY <1>1, <1>2, BeginSteps DEF CallInv, BeginOpens
    <2>2. autocommit[c] /\ phase[c] = "step" /\ UNCHANGED lock
      BY <2>1 DEF StepBegin, Steps, Finish
    <2> QED BY <2>2 DEF EngineInv, IdleHoldsNoLock
  <1>5. ASSUME pc[c] \in EndLabels
        PROVE  \/ StepNoTransaction(c) \/ StepEndRead(c) \/ StepEndOrphaned(c)
               \/ StepEndBusy(c) \/ StepEndExclusive(c)
               \/ Publish(c) \/ PublishIoError(c)
    BY <1>1, <1>5, EndSteps DEF CallInv, EndCloses
  <1>6. CommitsATransaction(c)'
    <2> SUFFICES ASSUME pc[c] \in EndLabels, phase'[c] = "commit"
                 PROVE  ~autocommit'[c]
      BY <1>1 DEF CommitsATransaction
    <2>1. StepEndExclusive(c)
      BY <1>5 DEF StepNoTransaction, StepEndRead, StepEndOrphaned,
         StepEndBusy, Publish, PublishIoError, Finish
    <2> QED BY <2>1 DEF StepEndExclusive
  <1>7. ASSUME pc[c] \in EndLabels, ~autocommit'[c]
        PROVE  /\ ~autocommit[c] /\ UNCHANGED <<file, cache>>
               /\ \/ lock'[c] = lock[c]
                  \/ lock[c] \in Writers /\ lock'[c] \in Writers
    <2>1. StepEndOrphaned(c) \/ StepEndBusy(c) \/ StepEndExclusive(c)
      BY <1>5, <1>7 DEF StepNoTransaction, StepEndRead, Publish,
         PublishIoError, RollbackAll
    <2> QED BY <2>1 DEF StepEndOrphaned, StepEndBusy, StepEndExclusive, Writers
  <1>8. RowsAreInTheCache(c)'
    <2> SUFFICES ASSUME (pc[c] = "insert" \/ InsertsRows(c))', ~autocommit'[c],
                        NEW k \in Nat, k = Upto(c)'
                 PROVE  CacheHolds(c, k)'
      BY DEF RowsAreInTheCache
    <2>1. CASE pc[c] = "insert"
      <3>1. ~autocommit[c]
        BY <1>1, <1>2, <2>1 DEF CallInv, BodyStaysOpen
      <3> QED BY <1>1, <1>2, <2>1, <3>1, RowRuns
    <2>2. CASE pc[c] # "insert"
      <3>1. pc[c] \in EndLabels /\ InsertsRows(c)
        BY <1>1, <2>2 DEF InsertsRows, EndLabels
      <3>2. CacheHolds(c, k)
        BY <1>1, <1>2, <1>7, <2>2, <3>1 DEF ContentInv, RowsAreInTheCache, Upto
      <3>3. Accepted(c, k)' = Accepted(c, k)
        BY <1>1 DEF Accepted
      <3> QED BY <1>1, <1>7, <3>1, <3>2, <3>3 DEF CacheHolds
    <2> QED BY <2>1, <2>2
  <1>9. DmlIsInTheCache(c)'
    <2> SUFFICES ASSUME pc[c] \in {"dml", "end_dml"}, own[c], ~autocommit'[c],
                        lock'[c] \in Writers
                 PROVE  cache'[c] = IF IF pc[c] = "dml" THEN Wrote(c)'
                                                        ELSE success[c]
                                    THEN Effect(file, args[c][1])' ELSE file'
      BY <1>1 DEF DmlIsInTheCache
    <2>1. CASE pc[c] = "dml"
      <3>1. ~autocommit[c]
        BY <1>1, <1>2, <2>1 DEF CallInv, BodyStaysOpen
      <3> QED BY <1>1, <1>2, <2>1, <3>1, DmlRuns
    <2>2. CASE pc[c] = "end_dml"
      <3>1. /\ ~autocommit[c] /\ UNCHANGED <<file, cache>>
            /\ lock[c] \in Writers
        BY <1>7, <2>2 DEF EndLabels
      <3>2. Effect(file, args[c][1])' = Effect(file, args[c][1])
        BY <1>1, <3>1 DEF Effect, Matches
      <3> QED BY <1>1, <2>2, <3>1, <3>2 DEF ContentInv, DmlIsInTheCache
    <2> QED BY <2>1, <2>2
  <1>10. RowsAreDurable(c)'
    <2> SUFFICES ASSUME pc[c] = "end_rows", phase'[c] = "done", rc'[c] = "ok"
                 PROVE  Accepted(c, Len(args[c]) + 1)' \subseteq durable'[c]
      BY <1>1 DEF RowsAreDurable
    <2>1. /\ index[c] = Len(args[c]) + 1 /\ index[c] \in Nat
          /\ ~autocommit[c] => CacheHolds(c, index[c])
      BY <1>1, <1>2 DEF ContentInv, ElementIsSent, RowsAreInTheCache,
                        InsertsRows, Upto
    <2>2. Accepted(c, index[c])' = Accepted(c, index[c])
      BY <1>1 DEF Accepted
    <2>3. StepEndRead(c) \/ Publish(c)
      BY <1>5 DEF EndLabels, StepNoTransaction, StepEndOrphaned, StepEndBusy,
         StepEndExclusive, PublishIoError, Finish
    <2>4. CASE StepEndRead(c)
      <3>1. Accepted(c, index[c]) = {}
        BY <2>1, <2>4 DEF StepEndRead, CacheHolds
      <3> QED BY <1>1, <2>1, <2>2, <3>1
    <2>5. CASE Publish(c)
      <3>1. phase[c] = "commit"
        BY <2>5 DEF Publish
      <3>2. ~autocommit[c] /\ lock[c] \in Writers
        BY <1>1, <3>1 DEF ContentInv, CommitsATransaction, EndLabels,
           EngineInv, PhasesMatchLocks, Writers
      <3>3. durable'[c] = cache[c]
        BY <3>1 DEF Work
      <3> QED BY <1>1, <2>1, <2>2, <3>2, <3>3 DEF CacheHolds
    <2> QED BY <2>3, <2>4, <2>5
  <1> QED BY <1>3, <1>4, <1>6, <1>8, <1>9, <1>10 DEF ContentInv

(* A call that is over, or has not begun, has nothing to relate. *)
LEMMA IdleHasNoContent ==
  ASSUME NEW c \in Conns, pc'[c] \in {"idle", "query", "begin_rows", "begin_dml"},
         StatementIsFresh(c)',
         pc'[c] \in {"begin_rows", "begin_dml"} /\ db'[c]
           => phase'[c] # "done"
  PROVE  ContentInv(c)'
  BY DEF ContentInv, ElementIsSent, OwnStartsUnlocked, CommitsATransaction,
     RowsAreInTheCache, InsertsRows, DmlIsInTheCache, RowsAreDurable, EndLabels

(* What query() leaves is fresh, and the tables, caches and locks as they
   were. *)
LEMMA QueryIsFresh ==
  ASSUME TypeOK, NEW c \in Conns, NEW s, NEW label \in Labels,
         Query(c, s, label)
  PROVE  /\ StatementIsFresh(c)'
         /\ UNCHANGED <<file, lock, cache, autocommit>>
         /\ pc'[c] = label
         /\ phase'[c] \in {"step", "done"}
         /\ db[c] => phase'[c] = "step" /\ stmt'[c] = s
         /\ ~db[c] => phase'[c] = "done" /\ rc'[c] = "nomem"
  <1> USE DEF TypeOK, EngineTypeOK, StatementIsFresh
  <1>1. CASE db[c]
    BY <1>1 DEF Query, Prepare
  <1>2. CASE ~db[c]
    BY <1>2 DEF Query, Misuse
  <1> QED BY <1>1, <1>2

(* A return, a close and a crash leave nothing to relate, and a call that
   begins has nothing yet. *)
LEMMA EnvironmentKeepsContent ==
  ASSUME ExactInv, NEW c \in Conns, Environment(c)
  PROVE  ContentInv(c)'
  <1> USE DEF ExactInv, RowOpsInv, TypeOK, EngineTypeOK
  <1>1. CASE open_db(c)
    BY <1>1, IdleHasNoContent
    DEF open_db, engineVars, ContentInv, StatementIsFresh
  <1>2. CASE close_db(c) \/ crash(c)
    <2>1. pc'[c] = "idle" /\ phase'[c] = "done"
      BY <1>2 DEF close_db, crash, Drop, Finish
    <2> QED BY <2>1, IdleHasNoContent DEF StatementIsFresh
  <1>3. CASE query(c) \/ insert_rows(c) \/ update_or_delete_rows(c)
    <2>1. PICK label \in {"query", "begin_rows", "begin_dml"} :
            \E a, s : Call(c, a, s, label)
      BY <1>3 DEF query, insert_rows, update_or_delete_rows
    <2>2. PICK a, s : Call(c, a, s, label)
      BY <2>1
    <2>3. Query(c, s, label) /\ label \in Labels /\ db'[c] = db[c]
      BY <2>2 DEF Call, Labels
    <2> QED BY <2>3, QueryIsFresh, IdleHasNoContent
  <1> QED BY <1>1, <1>2, <1>3 DEF Environment

(* ... and so does the head of the loop, with what is accepted so far. *)
LEMMA NextElementKeepsContent ==
  ASSUME ExactInv, NEW c \in Conns, NEW k \in Nat \ {0}, NextElement(c, k),
         pc[c] \in RowLabels, UNCHANGED <<db, args>>,
         k <= Len(args[c]) + 1,
         db[c] => CacheHolds(c, k)'
  PROVE  ContentInv(c)'
  <1> USE DEF ExactInv, RowOpsInv, TypeOK, EngineTypeOK
  <1>1. args[c] \in Seq(Elements) /\ index'[c] = k
    BY DEF CallInv, ArgumentsFit, NextElement
  <1>2. PICK label \in {"end_rows", "end_not_dictionary", "insert"} : \E s :
          /\ Query(c, s, label)
          /\ label = "end_rows" => k > Len(args[c])
          /\ label = "insert" => /\ k <= Len(args[c])
                                 /\ args[c][k] # NotDictionary
                                 /\ s = args[c][k]
    BY DEF NextElement
  <1>3. /\ StatementIsFresh(c)' /\ pc'[c] = label
        /\ phase'[c] \in {"step", "done"}
        /\ db[c] => /\ phase'[c] = "step"
                    /\ label = "insert" => stmt'[c] = args[c][k]
        /\ ~db[c] => phase'[c] = "done" /\ rc'[c] = "nomem"
    BY <1>2, QueryIsFresh DEF Labels
  <1>4. ElementIsSent(c)'
    BY <1>1, <1>2, <1>3 DEF ElementIsSent, CallInv, ClosedIsQuiet
  <1>5. OwnStartsUnlocked(c)' /\ CommitsATransaction(c)'
        /\ DmlIsInTheCache(c)' /\ RowsAreDurable(c)'
    BY <1>2, <1>3 DEF OwnStartsUnlocked, CommitsATransaction,
       DmlIsInTheCache, RowsAreDurable
  <1>6. RowsAreInTheCache(c)'
    BY <1>1, <1>3 DEF RowsAreInTheCache, Upto, Wrote
  <1> QED BY <1>3, <1>4, <1>5, <1>6 DEF ContentInv

(* Every step of a call that has begun keeps what is known of its rows. *)
LEMMA ContinueKeepsContent ==
  ASSUME ExactInv, NEW c \in Conns, Continue(c)
  PROVE  ContentInv(c)'
  <1> USE DEF ExactInv, RowOpsInv, TypeOK, EngineTypeOK
  <1>0. CallInv(c) /\ ContentInv(c)
    OBVIOUS
  <1>1. CASE Work(c)
    BY <1>1, WorkKeepsContent
  <1>2. CASE \/ QueryReply(c) \/ EndRowsReply(c) \/ EndNotDictionaryReply(c)
             \/ EndFailedReply(c) \/ EndDmlReply(c)
    <2>1. pc'[c] = "idle" /\ UNCHANGED <<stmt, phase, rc>>
      BY <1>2 DEF QueryReply, EndRowsReply, EndNotDictionaryReply,
         EndFailedReply, EndDmlReply, Return, engineVars
    <2> QED BY <1>0, <2>1, IdleHasNoContent DEF ContentInv, StatementIsFresh
  <1>3. CASE BeginRowsReply(c)
    <2>1. /\ pc[c] = "begin_rows" /\ phase[c] = "done"
          /\ own'[c] = (rc[c] = "ok") /\ NextElement(c, 1)
          /\ UNCHANGED <<db, args>>
      BY <1>3 DEF BeginRowsReply, Replied
    <2>2. UNCHANGED <<lock, cache>>
      BY <2>1, QueryIsFresh DEF NextElement, Labels
    <2>3. args[c] \in Seq(Elements) /\ Accepted(c, 1) = {}
      BY <1>0, <2>1, AcceptedFromNone DEF CallInv, ArgumentsFit, RowLabels
    <2>4. Accepted(c, 1)' = {}
      BY <2>1, <2>3 DEF Accepted
    <2>5. db[c] => CacheHolds(c, 1)'
      BY <1>0, <2>1, <2>2, <2>4
      DEF ContentInv, OwnStartsUnlocked, CacheHolds, Writers
    <2> QED BY <2>1, <2>3, <2>5, NextElementKeepsContent DEF RowLabels
  <1>4. CASE InsertReply(c)
    <2>1. PICK k : k = index[c] + 1
      OBVIOUS
    <2>2. /\ pc[c] = "insert" /\ phase[c] = "done" /\ rc[c] = "ok"
          /\ NextElement(c, k) /\ UNCHANGED <<db, args, own>>
      BY <1>4, <2>1 DEF InsertReply, Replied
    <2>3. UNCHANGED <<file, lock, cache>>
      BY <2>2, QueryIsFresh DEF NextElement, Labels
    <2>4. k \in Nat \ {0} /\ k <= Len(args[c]) + 1
      <3>1. args[c] \in Seq(Elements) /\ index[c] \in DOMAIN args[c]
        BY <1>0, <2>2 DEF ContentInv, ElementIsSent, CallInv, ArgumentsFit,
           RowLabels
      <3> QED BY <2>1, <3>1
    <2>5. db[c] => CacheHolds(c, k)
      BY <1>0, <2>1, <2>2, <2>4 DEF ContentInv, RowsAreInTheCache, Upto,
         Wrote, CallInv, BodyStaysOpen
    <2>6. db[c] => CacheHolds(c, k)'
      BY <2>2, <2>3, <2>5, CacheHoldsKept
    <2> QED BY <2>2, <2>4, <2>6, NextElementKeepsContent DEF RowLabels
  <1>5. CASE InsertFailed(c)
    <2>1. /\ pc[c] = "insert" /\ phase[c] = "done" /\ rc[c] # "ok"
          /\ Query(c, EndStmt, "end_failed")
          /\ UNCHANGED <<db, args, index, own>>
      BY <1>5 DEF InsertFailed, Replied
    <2>2. /\ StatementIsFresh(c)' /\ UNCHANGED <<file, lock, cache, autocommit>>
          /\ pc'[c] = "end_failed" /\ phase'[c] \in {"step", "done"}
      BY <2>1, QueryIsFresh DEF Labels
    <2>3. RowsAreInTheCache(c)'
      <3> SUFFICES ASSUME db'[c], ~autocommit'[c], NEW k \in Nat, k = Upto(c)'
                   PROVE  CacheHolds(c, k)'
        BY DEF RowsAreInTheCache
      <3>1. CacheHolds(c, k)
        BY <1>0, <2>1, <2>2 DEF ContentInv, RowsAreInTheCache, Upto, Wrote
      <3> QED BY <2>1, <2>2, <3>1, CacheHoldsKept
    <2> QED BY <2>2, <2>3 DEF ContentInv, ElementIsSent, OwnStartsUnlocked,
               CommitsATransaction, DmlIsInTheCache, RowsAreDurable
  <1>6. CASE BeginDmlReply(c)
    <2>1. /\ pc[c] = "begin_dml" /\ phase[c] = "done"
          /\ own'[c] = (rc[c] = "ok") /\ Query(c, args[c][1], "dml")
          /\ UNCHANGED <<db, args>>
      BY <1>6 DEF BeginDmlReply, Replied
    <2>2. /\ StatementIsFresh(c)' /\ UNCHANGED <<file, lock, cache, autocommit>>
          /\ pc'[c] = "dml" /\ phase'[c] \in {"step", "done"}
          /\ phase'[c] = "step" => stmt'[c] = args[c][1]
      BY <2>1, QueryIsFresh DEF Labels
    <2>3. DmlIsInTheCache(c)'
      BY <1>0, <2>1, <2>2 DEF ContentInv, OwnStartsUnlocked, DmlIsInTheCache,
         CallInv, ClosedIsQuiet, Writers
    <2> QED BY <2>1, <2>2, <2>3 DEF ContentInv, ElementIsSent,
               OwnStartsUnlocked, CommitsATransaction, RowsAreInTheCache,
               InsertsRows, RowsAreDurable, EndLabels
  <1>7. CASE DmlReply(c)
    <2>1. /\ pc[c] = "dml" /\ phase[c] = "done"
          /\ success'[c] = (rc[c] = "ok") /\ Query(c, EndStmt, "end_dml")
          /\ UNCHANGED <<db, args, own>>
      BY <1>7 DEF DmlReply, Replied
    <2>2. /\ StatementIsFresh(c)' /\ UNCHANGED <<file, lock, cache, autocommit>>
          /\ pc'[c] = "end_dml" /\ phase'[c] \in {"step", "done"}
      BY <2>1, QueryIsFresh DEF Labels
    <2>3. DmlIsInTheCache(c)'
      <3>1. Effect(file, args[c][1])' = Effect(file, args[c][1])
        BY <2>1, <2>2 DEF Effect, Matches
      <3> QED BY <1>0, <2>1, <2>2, <3>1 DEF ContentInv, DmlIsInTheCache, Wrote
    <2> QED BY <2>1, <2>2, <2>3 DEF ContentInv, ElementIsSent,
               OwnStartsUnlocked, CommitsATransaction, RowsAreInTheCache,
               InsertsRows, RowsAreDurable, EndLabels
  <1> QED BY <1>1, <1>2, <1>3, <1>4, <1>5, <1>6, <1>7 DEF Continue

(* ExactInv is inductive. *)
LEMMA ExactInvStep == ExactInv /\ [Next]_vars => ExactInv'
  <1> SUFFICES ASSUME ExactInv, [Next]_vars
               PROVE  ExactInv'
    OBVIOUS
  <1>1. RowOpsInv'
    BY RowOpsInvStep DEF ExactInv
  <1>2. CASE UNCHANGED vars
    <2>1. \A d \in Conns : SameEngine(d) /\ SameCall(d) /\ file' = file
      BY <1>2 DEF vars, engineVars, callVars, SameEngine, SameCall
    <2> QED BY <1>1, <2>1, ContentKept DEF ExactInv
  <1>3. ASSUME NEW c \in Conns, Environment(c) \/ Continue(c)
        PROVE  \A d \in Conns : ContentInv(d)'
    <2>1. ContentInv(c)'
      BY <1>3, EnvironmentKeepsContent, ContinueKeepsContent
    <2>2. \A d \in Conns \ {c} : ContentInv(d)'
      BY <1>3, OthersKeepContent
    <2> QED BY <2>1, <2>2
  <1> QED BY <1>1, <1>2, <1>3 DEF Next, ExactInv

(* What the caches hold is known in every state the objects can reach. *)
THEOREM ExactInvariant == Spec => []ExactInv
  BY ExactInit, ExactInvStep, PTL DEF Spec

(* Only SQLite's Publish completes a commit with success. *)
LEMMA OnlyPublishCommits ==
  ASSUME ExactInv, Next, NEW c \in Conns, Commits(c)
  PROVE  Publish(c) /\ UNCHANGED <<args, index, success, own>>
  <1>1. PICK d \in Conns : Environment(d) \/ Continue(d)
    BY DEF Next
  <1> USE DEF ExactInv, RowOpsInv, TypeOK, EngineTypeOK
  <1>2. phase[c] = "commit" /\ phase'[c] = "done" /\ rc'[c] = "ok"
        /\ pc'[c] # "idle"
    BY DEF Commits
  <1>3. d = c
    BY <1>1, <1>2, StepIsLocal DEF SameEngine
  <1>4. db[c]
    BY <1>2 DEF CallInv, ClosedIsQuiet
  <1>5. \A s, label : ~Query(c, s, label)
    BY <1>2 DEF Query, Prepare, Misuse
  <1>6. ~Environment(c)
    BY <1>2, <1>4, <1>5 DEF Environment, open_db, close_db, crash, query,
       insert_rows, update_or_delete_rows, Call
  <1>7. Work(c)
    BY <1>1, <1>2, <1>3, <1>5, <1>6 DEF Continue, QueryReply, BeginRowsReply,
       InsertReply, InsertFailed, EndRowsReply, EndNotDictionaryReply,
       EndFailedReply, BeginDmlReply, DmlReply, EndDmlReply, Replied
  <1>8. Publish(c)
    BY <1>2, <1>7
    DEF Work, Progress, Steps, UsesTable, IsWrite,
      StepMalformed, StepUnbindable, StepBegin, StepNoTransaction,
      StepRollback, StepEndRead,
      StepEndOrphaned, StepEndBusy, StepEndExclusive, StepSharedBusy,
      StepSelect, StepReservedBusy, BackOff, StepWrite, StepIoError,
      HaltInTransaction, HaltRelease, HaltRefused, HaltExclusive,
      PublishIoError, Finish
  <1> QED BY <1>7, <1>8 DEF Work

(* insert_rows() ignores what END answers; when it returns with "not an
   error" in error_message, all its rows are in the file nevertheless. *)
THEOREM CleanReturnsAreDurable == Spec => CleanReturnIsDurable
  <1> DEFINE P == \A c \in Conns :
                    pc[c] = "end_rows" /\ Returns(c)
                    /\ error_message'[c] = "ok"
                      => Accepted(c, Len(args[c]) + 1) \subseteq durable[c]
  <1>1. ExactInv /\ [Next]_vars => [P]_vars
    <2> SUFFICES ASSUME ExactInv, Next, NEW c \in Conns, pc[c] = "end_rows",
                        Returns(c), error_message'[c] = "ok"
                 PROVE  Accepted(c, Len(args[c]) + 1) \subseteq durable[c]
      OBVIOUS
    <2>1. EndRowsReply(c)
      BY OnlyEndReturns DEF ExactInv, EndNotDictionaryReply, EndFailedReply,
         EndDmlReply, Replied
    <2>2. phase[c] = "done" /\ rc[c] = "ok"
      BY <2>1 DEF EndRowsReply, Replied, SetMessage, Message, ExactInv,
         RowOpsInv, TypeOK, CallInv, StopIsKnown
    <2> QED BY <2>2 DEF ExactInv, ContentInv, RowsAreDurable
  <1> QED BY <1>1, ExactInvariant, PTL DEF Spec, CleanReturnIsDurable

(* The transaction a method opened itself adds to the file exactly what the
   method did, whatever the other objects have committed in the meantime. *)
THEOREM OwnTransactionsAreExact == Spec => OwnTransactionIsExact
  <1> DEFINE P == \A c \in Conns :
       Commits(c) /\ own[c]
         => /\ InsertsRows(c) =>
                 /\ file' = file \union Accepted(c, index[c])
                 /\ file \intersect Accepted(c, index[c]) = {}
            /\ pc[c] = "end_dml" =>
                 file' = IF success[c] THEN Effect(file, args[c][1])
                                       ELSE file
  <1>1. ExactInv /\ [Next]_vars => [P]_vars
    <2> SUFFICES ASSUME ExactInv, Next, NEW c \in Conns, Commits(c), own[c]
                 PROVE  /\ InsertsRows(c) =>
                             /\ file' = file \union Accepted(c, index[c])
                             /\ file \intersect Accepted(c, index[c]) = {}
                        /\ pc[c] = "end_dml" =>
                             file' = IF success[c]
                                     THEN Effect(file, args[c][1]) ELSE file
      OBVIOUS
    <2> USE DEF ExactInv, RowOpsInv, TypeOK
    <2>1. file' = cache[c] /\ phase[c] = "commit"
      BY OnlyPublishCommits DEF Publish
    <2>2. lock[c] \in Writers /\ db[c]
      BY <2>1 DEF EngineInv, PhasesMatchLocks, Writers, CallInv, ClosedIsQuiet
    <2>3. CASE InsertsRows(c)
      <3>1. ~autocommit[c] /\ pc[c] \notin {"insert", "end_dml"}
        BY <2>1, <2>3 DEF ContentInv, CommitsATransaction, InsertsRows,
           EndLabels
      <3>2. CacheHolds(c, index[c])
        BY <2>2, <2>3, <3>1 DEF ContentInv, RowsAreInTheCache, Upto
      <3> QED BY <2>1, <2>2, <3>1, <3>2 DEF CacheHolds
    <2>4. CASE pc[c] = "end_dml"
      <3>1. ~autocommit[c] /\ ~InsertsRows(c)
        BY <2>1, <2>4 DEF ContentInv, CommitsATransaction, InsertsRows,
           EndLabels
      <3> QED BY <2>1, <2>2, <2>4, <3>1 DEF ContentInv, DmlIsInTheCache
    <2> QED BY <2>3, <2>4
  <1> QED BY <1>1, ExactInvariant, PTL DEF Spec, OwnTransactionIsExact
=============================================================================
