-------------------------- MODULE TableDictProofs --------------------------
(***************************************************************************)
(* Theorems about TableDict, for any dictionaries: the schema that SQLite  *)
(* reads means what the dictionary says, and a child keeps its parent.     *)
(***************************************************************************)
EXTENDS TableDict, FiniteSetTheorems, TLAPS

(* While it matters, the foreign keys of an open database are enforced, and a
   row of the child has a parent table whose key can be found. *)
GuardInv ==
  /\ guarded = "opened" => db = "on"
  /\ guarded = "yes" => db \in {"closed", "on"}
  /\ guarded = "yes" /\ "child" \in rows => HasParentKey /\ "parent" \in rows

TableInv == DictTypeOK /\ GuardInv /\ CreatesWhatIsAsked

-----------------------------------------------------------------------------
(* What create_table() writes and SQLite reads. *)

(* DictNext calls create_table() with such dictionaries only. *)
LEMMA GivenDictionaries ==
  ASSUME NEW t \in Tables, NEW dict \in IF Exists(t) THEN Again[t] ELSE Dicts[t]
  PROVE  IsDict(dict)
  BY DictsAssumption, ColumnsAssumption DEF Tables

(* The columns that are (a part of) the key are found, one or several. *)
LEMMA KeyIsRead ==
  ASSUME NEW dict, IsDict(dict), NEW enabled
  PROVE  Schema(Statement(dict, enabled)).key = PrimaryKeys(dict)
  <1> DEFINE keys == PrimaryKeys(dict)
             alone == {n \in DOMAIN dict : dict[n].primary_key /\ Cardinality(keys) = 1}
  <1>1. IsFiniteSet(keys)
    BY FS_Subset DEF IsDict, PrimaryKeys
  <1>2. Cardinality(keys) \in Nat /\ (Cardinality(keys) = 0 <=> keys = {})
    BY <1>1, FS_CardinalityType, FS_EmptySet
  <1>3. Schema(Statement(dict, enabled)).key
          = alone \union (IF Cardinality(keys) > 1 THEN keys ELSE {})
    BY DEF Schema, Statement, ColumnClauses, IsDict, IsColumn
  <1>4. Cardinality(keys) = 1 => alone = keys
    BY DEF PrimaryKeys
  <1>5. Cardinality(keys) # 1 => alone = {}
    OBVIOUS
  <1> HIDE DEF alone, keys
  <1>6. QED
    BY <1>2, <1>3, <1>4, <1>5 DEF keys

(* The other constraints are those of the columns that ask for them. *)
LEMMA ConstraintsAreRead ==
  ASSUME NEW dict, IsDict(dict), NEW enabled
  PROVE  LET table == Schema(Statement(dict, enabled))
         IN  /\ table.not_null = {n \in DOMAIN dict : dict[n].not_null}
             /\ table.unique = {n \in DOMAIN dict : dict[n].unique}
             /\ table.auto = {n \in DOMAIN dict : /\ dict[n].primary_key
                                                  /\ Cardinality(PrimaryKeys(dict)) = 1
                                                  /\ dict[n].auto_increment}
  <1>1. Schema(Statement(dict, enabled)).not_null = {n \in DOMAIN dict : dict[n].not_null}
    BY DEF Schema, Statement, ColumnClauses, IsDict, IsColumn
  <1>2. Schema(Statement(dict, enabled)).unique = {n \in DOMAIN dict : dict[n].unique}
    BY DEF Schema, Statement, ColumnClauses, IsDict, IsColumn
  <1>3. Schema(Statement(dict, enabled)).auto
          = {n \in DOMAIN dict : /\ dict[n].primary_key
                                 /\ Cardinality(PrimaryKeys(dict)) = 1
                                 /\ dict[n].auto_increment}
    BY DEF Schema, Statement, ColumnClauses, IsDict, IsColumn
  <1>4. QED
    BY <1>1, <1>2, <1>3

(* So is every reference whose text can be read, if they are enabled. *)
LEMMA ReferencesAreRead ==
  ASSUME NEW dict, NEW enabled \in BOOLEAN
  PROVE  LET table == Schema(Statement(dict, enabled))
         IN  IF enabled THEN ReferencesAreMeant(dict, table) ELSE table.foreign = {}
  <1>1. Schema(Statement(dict, enabled)).foreign = ForeignClauses(dict, enabled)
    BY DEF Schema, Statement
  <1>2. CASE ~enabled
    BY <1>1, <1>2 DEF ForeignClauses
  <1>3. CASE enabled
    <2> DEFINE clauses == ForeignClauses(dict, enabled)
    <2>1. \A f \in clauses :
            /\ f.column \in {n \in DOMAIN dict : dict[n].foreign_key = "parent.id"}
            /\ f.references = dict[f.column].foreign_key
            /\ f.on_delete = dict[f.column].on_delete
      BY DEF ForeignClauses
    <2>2. \A n \in {n \in DOMAIN dict : dict[n].foreign_key = "parent.id"} :
            \E f \in clauses : f.column = n
      <3> TAKE n \in {n \in DOMAIN dict : dict[n].foreign_key = "parent.id"}
      <3> DEFINE clause == [column |-> n, references |-> dict[n].foreign_key,
                            on_delete |-> dict[n].on_delete]
      <3>1. clause \in clauses
        BY <1>3 DEF ForeignClauses
      <3>2. clause.column = n
        OBVIOUS
      <3>3. QED
        BY <3>1, <3>2
    <2> HIDE DEF clauses
    <2>3. {f.column : f \in clauses} = {n \in DOMAIN dict : dict[n].foreign_key = "parent.id"}
      BY <2>1, <2>2
    <2>4. QED
      BY <1>1, <1>3, <2>1, <2>3 DEF ReferencesAreMeant, clauses
  <1>4. QED
    BY <1>2, <1>3

(* The types of the README are those of the columns, in capitals. *)
LEMMA TypesAreRead ==
  ASSUME NEW data_type \in DOMAIN DocumentedTypes
  PROVE  Capitals(SqlType(data_type)) = DocumentedTypes[data_type]
  <1>1. data_type \in {"int", "real", "text", "blob", "char(9)"}
    BY DEF DocumentedTypes
  <1>2. CASE data_type = "int"
    BY <1>2 DEF DocumentedTypes, Capitals, SqlType
  <1>3. CASE data_type = "real"
    BY <1>3 DEF DocumentedTypes, Capitals, SqlType
  <1>4. CASE data_type = "text"
    BY <1>4 DEF DocumentedTypes, Capitals, SqlType
  <1>5. CASE data_type = "blob"
    BY <1>5 DEF DocumentedTypes, Capitals, SqlType
  <1>6. CASE data_type = "char(9)"
    BY <1>6 DEF DocumentedTypes, Capitals, SqlType
  <1>7. QED
    BY <1>1, <1>2, <1>3, <1>4, <1>5, <1>6

(* The texts that DEFAULT takes, and what they are. *)
LEMMA LiteralsAre ==
  /\ DOMAIN Literals = {"Silver", "null", "007", "7", "1.5", "'Long John'", "''", "[1, 2]"}
  /\ Literals["Silver"] = Value("text", "Silver")
  /\ Literals["7"] = Value("number", "7") /\ Literals["1.5"] = Value("number", "1.5")
  /\ Literals["'Long John'"] = Value("text", "Long John")
  /\ Literals["''"] = Value("text", "")
  BY DEF Literals

(* A default that SQL reads, and does not misread, is what was meant. *)
LEMMA DefaultsAreRead ==
  ASSUME NEW column, IsColumn(column), DefaultReads(column.default), ~Misread(column.default)
  PROVE  DefaultValue(column.default) = DefaultMeant(column.default)
  <1> DEFINE default == column.default
  <1>1. CASE default.type = "none"
    BY <1>1 DEF DefaultValue, DefaultMeant
  <1>2. CASE default.type \in {"INT", "FLOAT"}
    <2>1. default.text \in {"7", "1.5"}
      BY <1>2 DEF IsColumn
    <2>2. DefaultMeant(default) = Value("number", default.text)
      BY <1>2 DEF DefaultMeant
    <2>3. DefaultValue(default) = Literals[default.text]
      BY <1>2 DEF DefaultValue
    <2> HIDE DEF default
    <2>4. QED
      BY <2>1, <2>2, <2>3, LiteralsAre DEF default
  <1>3. CASE default.type = "STRING"
    <2>1. default.text \in {"Silver", "'Long John'", "''"}
      BY <1>3, LiteralsAre DEF DefaultReads, Misread
    <2>2. DefaultMeant(default)
            = Value("text", IF default.text \in DOMAIN Quoted THEN Quoted[default.text]
                                                              ELSE default.text)
      BY <1>3 DEF DefaultMeant
    <2>3. DefaultValue(default) = Literals[default.text]
      BY <1>3 DEF DefaultValue
    <2>4. /\ DOMAIN Quoted = {"'Long John'", "''"}
          /\ Quoted["'Long John'"] = "Long John" /\ Quoted["''"] = ""
      BY DEF Quoted
    <2> HIDE DEF default
    <2>5. QED
      BY <2>1, <2>2, <2>3, <2>4, LiteralsAre DEF default
  <1>4. QED
    BY <1>1, <1>2, <1>3 DEF Misread

(* The statement means what the README says of the dictionary. *)
LEMMA SchemaMeansDictionary ==
  ASSUME NEW dict, IsDict(dict), NEW enabled \in BOOLEAN, NEW exists,
         Reads(Statement(dict, enabled), exists)
  PROVE  Means(dict, enabled, Schema(Statement(dict, enabled)))
  <1> DEFINE table == Schema(Statement(dict, enabled))
  <1>1. /\ DOMAIN table.types = DOMAIN dict
        /\ \A n \in DOMAIN dict : table.types[n] = Capitals(SqlType(dict[n].data_type))
    BY DEF Schema, Statement
  <1>2. table.key = {n \in DOMAIN dict : dict[n].primary_key}
    BY KeyIsRead DEF PrimaryKeys
  <1>3. table.not_null = {n \in DOMAIN dict : dict[n].not_null}
    BY ConstraintsAreRead
  <1>4. table.unique = {n \in DOMAIN dict : dict[n].unique}
    BY ConstraintsAreRead
  <1>5. table.auto = IF Cardinality(table.key) = 1
                     THEN table.key \intersect {n \in DOMAIN dict : dict[n].auto_increment}
                     ELSE {}
    <2>1. table.auto = {n \in DOMAIN dict : /\ dict[n].primary_key
                                            /\ Cardinality(table.key) = 1
                                            /\ dict[n].auto_increment}
      BY ConstraintsAreRead, KeyIsRead
    <2> HIDE DEF table
    <2>2. QED
      BY <1>2, <2>1
  <1>6. IF enabled THEN ReferencesAreMeant(dict, table) ELSE table.foreign = {}
    BY ReferencesAreRead
  <1>7. \A n \in DOMAIN dict : table.defaults[n] = DefaultValue(dict[n].default)
    BY DEF Schema, Statement
  <1>8. \A n \in DOMAIN dict : DefaultReads(dict[n].default) /\ IsColumn(dict[n])
    BY DEF Reads, Statement, IsDict
  <1> HIDE DEF table
  <1>9. ConstraintsAreMeant(dict, table)
    BY <1>2, <1>3, <1>4, <1>5 DEF ConstraintsAreMeant
  <1>10. \A n \in DOMAIN dict :
           /\ dict[n].data_type \in DOMAIN DocumentedTypes
                => table.types[n] = DocumentedTypes[dict[n].data_type]
           /\ ~Misread(dict[n].default) => table.defaults[n] = DefaultMeant(dict[n].default)
    BY <1>1, <1>7, <1>8, TypesAreRead, DefaultsAreRead
  <1>11. Means(dict, enabled, table)
    BY <1>1, <1>6, <1>9, <1>10 DEF Means
  <1>12. QED
    BY <1>11 DEF table

(* A table that was created is there, whatever its columns. *)
LEMMA SchemaIsThere ==
  ASSUME NEW statement
  PROVE  Schema(statement) # None
  <1>1. "key" \in DOMAIN Schema(statement) /\ "key" \notin DOMAIN None
    BY DEF Schema, None
  <1>2. QED
    BY <1>1

(* There is a reference if a column has one that can be read. *)
LEMMA ReferenceIsThere ==
  ASSUME NEW dict, NEW n \in DOMAIN dict, dict[n].foreign_key = "parent.id"
  PROVE  Schema(Statement(dict, TRUE)).foreign # {}
  <1>1. Schema(Statement(dict, TRUE)).foreign = ForeignClauses(dict, TRUE)
    BY DEF Schema, Statement
  <1>2. QED
    BY <1>1 DEF ForeignClauses

-----------------------------------------------------------------------------
(* The steps. *)

(* The member, open_db() and close_db(): a database that is opened without
   the member guards nothing. *)
LEMMA SettingsPreserve ==
  ASSUME TableInv, set_foreign_keys \/ open_db \/ close_db
  PROVE  TableInv'
  <1>1. UNCHANGED <<schema, rows>> /\ asked' = NoCall /\ result' \in BOOLEAN
    BY DEF set_foreign_keys, open_db, close_db, TableInv, DictTypeOK
  <1>2. CreatesWhatIsAsked'
    BY <1>1 DEF CreatesWhatIsAsked
  <1>3. foreign_keys' \in BOOLEAN /\ db' \in {"closed", "off", "on"}
    BY DEF set_foreign_keys, open_db, close_db, TableInv, DictTypeOK
  <1>4. /\ guarded' \in {"no", "opened", "yes"}
        /\ guarded' = "yes" => guarded = "yes"
        /\ guarded' = "opened" => db' = "on"
        /\ guarded' = "yes" => db' \in {"closed", "on"}
    BY DEF set_foreign_keys, open_db, close_db, TableInv, DictTypeOK, GuardInv
  <1>5. DictTypeOK'
    BY <1>1, <1>3, <1>4 DEF TableInv, DictTypeOK, Exists
  <1>6. GuardInv'
    BY <1>1, <1>4 DEF TableInv, GuardInv, HasParentKey, Exists
  <1>7. QED
    BY <1>2, <1>5, <1>6 DEF TableInv

(* create_table(): a table comes without rows, and no table changes. *)
LEMMA CreatePreserves ==
  ASSUME TableInv, NEW t \in Tables, NEW dict, IsDict(dict), create_table(t, dict)
  PROVE  TableInv'
  <1> DEFINE statement == Statement(dict, foreign_keys)
             succeeds  == Validates(dict) /\ db # "closed" /\ Reads(statement, Exists(t))
             creates   == succeeds /\ ~Exists(t)
             guards    == /\ creates /\ t = "child" /\ guarded = "opened" /\ foreign_keys
                          /\ \E n \in DOMAIN dict : dict[n].foreign_key = "parent.id"
  <1>1. /\ result' = succeeds
        /\ schema' = IF creates THEN [schema EXCEPT ![t] = Schema(statement)] ELSE schema
        /\ guarded' = IF guards THEN "yes" ELSE guarded
        /\ asked' = [table |-> t, dict |-> dict, enabled |-> foreign_keys,
                     existed |-> Exists(t)]
        /\ UNCHANGED <<foreign_keys, db, rows>>
    BY DEF create_table
  <1>2. creates \in BOOLEAN /\ succeeds \in BOOLEAN /\ guards \in BOOLEAN
    OBVIOUS
  <1>3. creates => ~Exists(t) /\ db # "closed" /\ (~Exists(t) /\ succeeds => creates)
    OBVIOUS
  <1>4. guards => /\ creates /\ t = "child" /\ guarded = "opened"
                  /\ Schema(statement).foreign # {}
    BY ReferenceIsThere DEF TableInv, DictTypeOK
  <1>5. CreatesWhatIsAsked'
    <2>1. SUFFICES ASSUME result', ~asked'.existed
                   PROVE  Means(asked'.dict, asked'.enabled, schema'[asked'.table])
      BY DEF CreatesWhatIsAsked
    <2>2. creates
      BY <1>1, <2>1
    <2>3. schema'[t] = Schema(statement)
      BY <1>1, <2>2 DEF TableInv, DictTypeOK
    <2>4. Means(dict, foreign_keys, Schema(statement))
      BY <2>2, SchemaMeansDictionary DEF TableInv, DictTypeOK
    <2>5. QED
      BY <1>1, <2>3, <2>4
  <1>6. Schema(statement) # None
    BY SchemaIsThere
  <1> HIDE DEF creates, succeeds, guards, statement
  <1>7. DictTypeOK'
    <2>1. DOMAIN schema' = Tables
      BY <1>1 DEF TableInv, DictTypeOK
    <2>2. \A u \in Tables : Exists(u) => schema'[u] = schema[u] /\ schema'[u] # None
      BY <1>1, <1>3 DEF TableInv, DictTypeOK, Exists
    <2>3. rows' \subseteq {u \in Tables : Exists(u)'}
      BY <1>1, <2>2 DEF TableInv, DictTypeOK, Exists
    <2>4. guarded' = "yes" => Exists("child")' /\ schema'["child"].foreign # {}
      <3>1. CASE guards
        BY <1>1, <1>4, <1>6, <3>1 DEF TableInv, DictTypeOK, Exists
      <3>2. CASE ~guards
        BY <1>1, <2>2, <3>2 DEF TableInv, DictTypeOK, Exists, Tables
      <3>3. QED
        BY <3>1, <3>2
    <2>5. QED
      BY <1>1, <1>2, <2>1, <2>3, <2>4 DEF TableInv, DictTypeOK
  <1>8. GuardInv'
    <2>1. CASE guards
      <3>1. "child" \notin rows
        BY <1>3, <1>4, <2>1 DEF TableInv, DictTypeOK
      <3>2. QED
        BY <1>1, <1>4, <2>1, <3>1 DEF TableInv, GuardInv
    <2>2. CASE ~guards
      <3>1. HasParentKey => HasParentKey'
        BY <1>1, <1>3 DEF TableInv, DictTypeOK, HasParentKey, Exists, Tables
      <3>2. QED
        BY <1>1, <2>2, <3>1 DEF TableInv, GuardInv
    <2>3. QED
      BY <2>1, <2>2
  <1>9. QED
    BY <1>5, <1>7, <1>8 DEF TableInv

(* Calls that only change rows, of tables that are there. *)
LEMMA RowCallPreserves ==
  ASSUME TableInv, NEW succeeds \in BOOLEAN, NEW left, Call(succeeds, left),
         UNCHANGED <<foreign_keys, db, schema, guarded>>,
         succeeds => left \subseteq {t \in Tables : Exists(t)},
         succeeds /\ guarded = "yes" /\ "child" \in left => HasParentKey /\ "parent" \in left
  PROVE  TableInv'
  <1>1. /\ result' = succeeds /\ asked' = NoCall
        /\ rows' = IF succeeds THEN left ELSE rows
    BY DEF Call
  <1>2. DictTypeOK'
    BY <1>1 DEF TableInv, DictTypeOK, Exists
  <1>3. GuardInv'
    BY <1>1 DEF TableInv, GuardInv, HasParentKey, Exists
  <1>4. CreatesWhatIsAsked'
    BY <1>1 DEF CreatesWhatIsAsked
  <1>5. QED
    BY <1>2, <1>3, <1>4 DEF TableInv

(* Where the child is guarded, SQLite enforces its reference. *)
LEMMA GuardedIsEnforced ==
  ASSUME TableInv, guarded = "yes", db # "closed"
  PROVE  Enforced
  BY DEF TableInv, DictTypeOK, GuardInv, Enforced, Reference

(* A row of the child needs one of the parent. *)
LEMMA InsertPreserves ==
  ASSUME TableInv, NEW t \in Tables, insert_row(t)
  PROVE  TableInv'
  <1> DEFINE succeeds == /\ Exists(t)
                         /\ t = "child" /\ Enforced => HasParentKey /\ "parent" \in rows
             left == rows \union {t}
  <1>1. /\ Call(succeeds, left) /\ db # "closed"
        /\ UNCHANGED <<foreign_keys, db, schema, guarded>>
    BY DEF insert_row, Call
  <1>2. succeeds \in BOOLEAN
    OBVIOUS
  <1>3. succeeds => left \subseteq {u \in Tables : Exists(u)}
    BY DEF TableInv, DictTypeOK
  <1>4. succeeds /\ guarded = "yes" /\ "child" \in left => HasParentKey /\ "parent" \in left
    BY <1>1, GuardedIsEnforced DEF TableInv, GuardInv
  <1> HIDE DEF succeeds, left
  <1>5. QED
    BY <1>1, <1>2, <1>3, <1>4, RowCallPreserves

(* A row of the parent goes with that of the child, or not at all. *)
LEMMA DeletePreserves ==
  ASSUME TableInv, delete_parent \/ delete_child
  PROVE  TableInv'
  <1>1. CASE delete_parent
    <2> DEFINE succeeds == ~Refuses /\ (Enforced => HasParentKey)
               left == rows \ Cascading
    <2>1. /\ Call(succeeds, left) /\ db # "closed"
          /\ UNCHANGED <<foreign_keys, db, schema, guarded>>
      BY <1>1 DEF delete_parent, Call
    <2>2. succeeds \in BOOLEAN
      OBVIOUS
    <2>3. left \subseteq {u \in Tables : Exists(u)}
      BY DEF TableInv, DictTypeOK
    <2>4. guarded = "yes" => "child" \notin left
      BY <2>1, GuardedIsEnforced DEF Cascading
    <2> HIDE DEF succeeds, left
    <2>5. QED
      BY <2>1, <2>2, <2>3, <2>4, RowCallPreserves
  <1>2. CASE delete_child
    <2> DEFINE succeeds == Enforced => HasParentKey
               left == rows \ {"child"}
    <2>1. /\ Call(succeeds, left)
          /\ UNCHANGED <<foreign_keys, db, schema, guarded>>
      BY <1>2 DEF delete_child
    <2>2. succeeds \in BOOLEAN
      OBVIOUS
    <2>3. left \subseteq {u \in Tables : Exists(u)} /\ "child" \notin left
      BY DEF TableInv, DictTypeOK
    <2> HIDE DEF succeeds, left
    <2>4. QED
      BY <2>1, <2>2, <2>3, RowCallPreserves
  <1>3. QED
    BY <1>1, <1>2

(* drop_table(): the rows of the parent take those of the child with them,
   whose references were enforced when it came. *)
LEMMA DropPreserves ==
  ASSUME TableInv, NEW t \in Tables, drop_table(t)
  PROVE  TableInv'
  <1>1. /\ db # "closed" /\ UNCHANGED <<foreign_keys, db>> /\ asked' = NoCall
        /\ result' = (Exists(t) /\ ~DropRefused(t))
        /\ rows' = IF result' THEN rows \ Dropped(t) ELSE rows
        /\ schema' = IF result' THEN [schema EXCEPT ![t] = None] ELSE schema
        /\ guarded' = IF result' /\ t = "child" /\ guarded = "yes" THEN "opened" ELSE guarded
    BY DEF drop_table, Call
  <1>2. CreatesWhatIsAsked'
    BY <1>1 DEF CreatesWhatIsAsked
  <1>3. result' \in BOOLEAN
    BY <1>1
  <1>4. t \in Dropped(t)
    BY DEF Dropped, DropsRows, Cascading
  <1>5. CASE ~result'
    <2>1. UNCHANGED <<rows, schema, guarded>>
      BY <1>1, <1>5
    <2>2. DictTypeOK'
      BY <1>1, <1>3, <2>1 DEF TableInv, DictTypeOK, Exists
    <2>3. GuardInv'
      BY <1>1, <2>1 DEF TableInv, GuardInv, HasParentKey, Exists
    <2>4. QED
      BY <1>2, <2>2, <2>3 DEF TableInv
  <1>6. CASE result'
    <2>1. /\ rows' = rows \ Dropped(t) /\ schema' = [schema EXCEPT ![t] = None]
          /\ guarded' = IF t = "child" /\ guarded = "yes" THEN "opened" ELSE guarded
      BY <1>1, <1>6
    <2>2. DictTypeOK'
      <3>1. DOMAIN schema' = Tables
        BY <2>1 DEF TableInv, DictTypeOK
      <3>2. rows' \subseteq {u \in Tables : Exists(u)'}
        BY <1>4, <2>1 DEF TableInv, DictTypeOK, Exists
      <3>3. guarded' = "yes" => Exists("child")' /\ schema'["child"].foreign # {}
        BY <2>1 DEF TableInv, DictTypeOK, Exists, Tables
      <3>4. guarded' \in {"no", "opened", "yes"}
        BY <2>1 DEF TableInv, DictTypeOK
      <3>5. QED
        BY <1>1, <1>3, <3>1, <3>2, <3>3, <3>4 DEF TableInv, DictTypeOK
    <2>3. GuardInv'
      <3>1. guarded' = "opened" => db = "on"
        BY <1>1, <2>1 DEF TableInv, GuardInv
      <3>2. guarded' = "yes" => guarded = "yes" /\ t = "parent" /\ Enforced
        BY <1>1, <2>1, GuardedIsEnforced DEF Tables
      <3>3. guarded' = "yes" => "child" \notin rows'
        BY <2>1, <3>2 DEF TableInv, GuardInv, Dropped, DropsRows, Cascading
      <3>4. QED
        BY <1>1, <3>1, <3>2, <3>3 DEF TableInv, GuardInv
    <2>4. QED
      BY <1>2, <2>2, <2>3 DEF TableInv
  <1>7. QED
    BY <1>3, <1>5, <1>6

-----------------------------------------------------------------------------
(* The theorems. *)

(* The inductive invariant: create_table(), drop_table() and the calls on the
   rows keep the types, the guard and the meaning of what was created. *)
THEOREM TableInvariant == DictSpec => []TableInv
  <1>1. DictInit => TableInv
    <2>1. DictInit => DictTypeOK
      BY DEF DictInit, DictTypeOK, Exists
    <2>2. QED
      BY <2>1 DEF DictInit, TableInv, GuardInv, CreatesWhatIsAsked
  <1>2. TableInv /\ [DictNext]_dictVars => TableInv'
    <2>1. SUFFICES ASSUME TableInv, [DictNext]_dictVars PROVE TableInv'
      OBVIOUS
    <2>2. CASE set_foreign_keys \/ open_db \/ close_db
      BY <2>1, <2>2, SettingsPreserve
    <2>3. ASSUME NEW t \in Tables,
                 \E dict \in IF Exists(t) THEN Again[t] ELSE Dicts[t] : create_table(t, dict)
          PROVE  TableInv'
      BY <2>1, <2>3, GivenDictionaries, CreatePreserves
    <2>4. ASSUME NEW t \in Tables, insert_row(t) PROVE TableInv'
      BY <2>1, <2>4, InsertPreserves
    <2>5. ASSUME NEW t \in Tables, drop_table(t) PROVE TableInv'
      BY <2>1, <2>5, DropPreserves
    <2>6. CASE delete_parent \/ delete_child
      BY <2>1, <2>6, DeletePreserves
    <2>7. CASE UNCHANGED dictVars
      BY <2>1, <2>7 DEF dictVars, TableInv, DictTypeOK, GuardInv, CreatesWhatIsAsked, Exists, HasParentKey
    <2>8. QED
      BY <2>1, <2>2, <2>3, <2>4, <2>5, <2>6, <2>7 DEF DictNext
  <1>3. QED
    BY <1>1, <1>2, PTL DEF DictSpec

(* A guarded child keeps its parent, whatever is inserted, deleted, dropped
   and created again: validate and write as create_table() does, and open the
   database with foreign_keys set. *)
THEOREM ForeignKeysAlwaysHold == DictSpec => []ForeignKeysHold
  <1>1. TableInv => ForeignKeysHold
    BY DEF TableInv, GuardInv, ForeignKeysHold
  <1>2. QED
    BY <1>1, TableInvariant, PTL

(* create_table() that creates a table and returns true has created what the
   dictionary says, for every dictionary. *)
THEOREM TablesAreAsAsked == DictSpec => []CreatesWhatIsAsked
  <1>1. TableInv => CreatesWhatIsAsked
    BY DEF TableInv
  <1>2. QED
    BY <1>1, TableInvariant, PTL
=============================================================================
