------------------------------ MODULE MCBackup ------------------------------
(* Backup for TLC: one row, the two connections of the call, and one more
   connection to each file; and TableDict with the dictionaries of MCTableDict.
   One of the two is followed while the other has not begun: a copy and a table
   dictionary do not depend on each other. *)
EXTENDS Backup, MCTableDict, TLC

CONSTANTS row, from, to, reader, other

MCRows   == {row}
MCFk     == {}
Insert   == [kind |-> "insert", del |-> {}, add |-> {row}]

MCWrites == {Insert}

(* The object, which is one of the two, may be inside any transaction; the
   others read, write, and stay in a transaction till they are closed. *)
OfObject == {BeginStmt, EndStmt, Insert, SelectStmt}
MCUsed   == from :> OfObject @@ to :> OfObject @@
            other :> {Insert} @@
            reader :> {BeginStmt, Insert, SelectStmt}

MCInit == Init /\ DictInit
(* Once is enough: both files empty. *)
Unused == at = "idle" /\ opened = From /\ sFile = {} /\ dFile = {} /\ Init

MCNext ==
  \/ DictInit /\ Next /\ UNCHANGED dictVars
  \/ Unused /\ DictNext /\ UNCHANGED vars

MCSpec == MCInit /\ [][MCNext]_<<vars, dictVars>> /\ WF_vars(Copying)
=============================================================================
