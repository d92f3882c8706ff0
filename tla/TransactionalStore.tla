------------------------- MODULE TransactionalStore -------------------------
(***************************************************************************)
(* What a caller of the SQLite class is promised about the database file   *)
(* that several connections share: each connection works on a snapshot of  *)
(* the stored content, one connection at a time may change its snapshot,   *)
(* and a changed snapshot becomes the stored content as a whole, when      *)
(* nobody else is looking, or is thrown away as a whole.                   *)
(*                                                                         *)
(* Locks, statements in progress, autocommit mode and failures are absent: *)
(* Engine, which has them all, implements this specification.              *)
(***************************************************************************)
EXTENDS Sql

CONSTANT Conns          \* the connections to the file

VARIABLES store,        \* the content of the file
          active,       \* the connections that work on a snapshot
          dirty,        \* those that changed their snapshot, or may
          snap          \* snap[c]: the snapshot of an active connection

storeVars == <<store, active, dirty, snap>>

StoreInit ==
  /\ store \in SUBSET Rows
  /\ active = {}
  /\ dirty = {}
  /\ snap = [c \in Conns |-> {}]

Current(c) == IF c \in active THEN snap[c] ELSE store

(* A connection starts to read: it sees what is stored now. *)
Look(c) ==
  /\ c \notin active
  /\ active' = active \union {c}
  /\ snap' = [snap EXCEPT ![c] = store]
  /\ UNCHANGED <<store, dirty>>

(* The only writer becomes one, or stays one, and runs one statement or
   none (the statement failed) on its snapshot. *)
Stage(c) ==
  /\ dirty \subseteq {c}
  /\ active' = active \union {c}
  /\ dirty' = {c}
  /\ \/ snap' = [snap EXCEPT ![c] = Current(c)]
     \/ \E s \in Writes :
          /\ ~Conflicts(Current(c), s)
          /\ snap' = [snap EXCEPT ![c] = Effect(Current(c), s)]
  /\ UNCHANGED store

Forget(c) ==
  /\ active' = active \ {c}
  /\ dirty' = dirty \ {c}
  /\ snap' = [snap EXCEPT ![c] = {}]

(* The writer's snapshot is stored, while no other connection looks. *)
Publish(c) ==
  /\ c \in dirty
  /\ active \subseteq {c}
  /\ ~Orphaned(snap[c])
  /\ store' = snap[c]
  /\ Forget(c)

(* A reader is finished, or a writer's transaction is rolled back. *)
Discard(c) ==
  /\ c \in active
  /\ Forget(c)
  /\ UNCHANGED store

StoreNext == \E c \in Conns : Look(c) \/ Stage(c) \/ Publish(c) \/ Discard(c)

StoreSpec == StoreInit /\ [][StoreNext]_storeVars
=============================================================================
