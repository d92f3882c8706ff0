----------------------------- MODULE TableDict -----------------------------
(***************************************************************************)
(* create_table() and drop_table(): a table dictionary is validated and    *)
(* turned into a CREATE TABLE statement, from which SQLite reads a schema. *)
(* What the schema then protects is followed for a table "child" with a    *)
(* reference to a table "parent": one row of each, with the same key.      *)
(*                                                                         *)
(* The object's foreign_keys matters twice: when the database is opened,   *)
(* and when a table is created.                                            *)
(***************************************************************************)
EXTENDS Naturals, FiniteSets

CONSTANTS
  Dicts,  \* the table dictionaries in use, for each table
  Again   \* those given for a table that exists (a bound on the states)

ASSUME DictsAssumption == DOMAIN Dicts = {"parent", "child"} /\ DOMAIN Again = DOMAIN Dicts

(* A dictionary is finite, the options of a column are cast to bool, a foreign key
   has one of two actions, and the text of a number is a number. *)
IsColumn(column) ==
  /\ \A option \in {"primary_key", "auto_increment", "not_null", "unique"} :
       column[option] \in BOOLEAN
  /\ column.on_delete \in {"", "CASCADE"}
  /\ column.default.type \in {"INT", "FLOAT"} => column.default.text \in {"7", "1.5"}

IsDict(dict) == IsFiniteSet(DOMAIN dict) /\ \A n \in DOMAIN dict : IsColumn(dict[n])

ASSUME ColumnsAssumption ==
  \A t \in DOMAIN Dicts : \A dict \in Dicts[t] \union Again[t] : IsDict(dict)

VARIABLES
  foreign_keys,  \* the object's member
  db,            \* "closed", or its PRAGMA foreign_keys: "on" or "off"
  schema,        \* schema[t]: the table's schema, or None
  rows,          \* the tables that have their row
  result,        \* what the last call returned
  asked,         \* what the last create_table() was given (history)
  guarded        \* "opened": foreign_keys was set when this connection was
                 \* opened; "yes": and whenever it mattered since the child
                 \* was created with its reference; or "no" (history)

dictVars == <<foreign_keys, db, schema, rows, result, asked, guarded>>

Tables == {"parent", "child"}

(* A column of a dictionary, and what it has unless it says otherwise. *)
Column == [data_type |-> "int", default |-> [type |-> "none"],
           primary_key |-> FALSE, auto_increment |-> FALSE,
           not_null |-> FALSE, unique |-> FALSE,
           foreign_key |-> "", on_delete |-> ""]

-----------------------------------------------------------------------------
(* validate_table_dict() *)

NoDefault(column) == column.default.type = "none"

(* The Godot type a default must have, where there is a rule for it. *)
DefaultTypes == [int |-> "INT", text |-> "STRING", real |-> "FLOAT"]

(* "missing": no data_type; "number": a data_type that is no String. *)
Validates(dict) ==
  \A name \in DOMAIN dict :
    LET column == dict[name]
    IN  /\ column.data_type \notin {"missing", "number"}
        /\ column.data_type \in DOMAIN DefaultTypes =>
             column.default.type \in {"none", DefaultTypes[column.data_type]}

-----------------------------------------------------------------------------
(* create_table(): the text of the statement, as its clauses. *)

PrimaryKeys(dict) == {name \in DOMAIN dict : dict[name].primary_key}

(* Mutant: an AUTOINCREMENT for every column that asks for one. *)
ColumnClausesAlways(dict, name) ==
  LET column == dict[name]
  IN  (IF column.primary_key /\ Cardinality(PrimaryKeys(dict)) = 1
       THEN {"PRIMARY KEY"} ELSE {})
      \union (IF column.auto_increment THEN {"AUTOINCREMENT"} ELSE {})
      \union (IF column.not_null THEN {"NOT NULL"} ELSE {})
      \union (IF column.unique THEN {"UNIQUE"} ELSE {})

ColumnClauses(dict, name) ==
  LET column == dict[name]
      alone  == column.primary_key /\ Cardinality(PrimaryKeys(dict)) = 1
  IN  (IF alone THEN {"PRIMARY KEY"} ELSE {})
      \union (IF alone /\ column.auto_increment THEN {"AUTOINCREMENT"} ELSE {})
      \union (IF column.not_null THEN {"NOT NULL"} ELSE {})
      \union (IF column.unique THEN {"UNIQUE"} ELSE {})

(* A data_type that begins with "int", in capitals or not, is written INTEGER. *)
SqlType(data_type) == IF data_type \in {"int", "integer"} THEN "INTEGER" ELSE data_type

(* A foreign_key that is not of the form table.column is left out. *)
ForeignClauses(dict, enabled) ==
  {[column |-> name, references |-> dict[name].foreign_key, on_delete |-> dict[name].on_delete] :
     name \in {n \in DOMAIN dict : enabled /\ dict[n].foreign_key = "parent.id"}}

Statement(dict, enabled) ==
  [columns |-> [name \in DOMAIN dict |->
                  [type    |-> SqlType(dict[name].data_type),
                   clauses |-> ColumnClauses(dict, name),
                   default |-> dict[name].default]],
   key     |-> IF Cardinality(PrimaryKeys(dict)) > 1 THEN PrimaryKeys(dict) ELSE {},
   foreign |-> ForeignClauses(dict, enabled)]

-----------------------------------------------------------------------------
(* What SQLite reads. *)

(* The value of a default. *)
Value(kind, text) == [kind |-> kind, text |-> text]
NullValue == Value("null", "")

(* DEFAULT takes a literal, a signed number or a name, which is the string it
   spells; other texts are syntax errors. *)
Literals ==
  [text \in {"Silver", "null", "007", "7", "1.5", "'Long John'", "''", "[1, 2]"} |->
     CASE text = "null"          -> NullValue
       [] text \in {"7", "007"}  -> Value("number", "7")
       [] text = "1.5"           -> Value("number", "1.5")
       [] text = "'Long John'"   -> Value("text", "Long John")
       [] text = "''"            -> Value("text", "")
       [] text = "[1, 2]"        -> Value("text", "1, 2")
       [] text = "Silver"        -> Value("text", "Silver")]

DefaultReads(default) == default.type = "none" \/ default.text \in DOMAIN Literals
DefaultValue(default) == IF default.type = "none" THEN NullValue ELSE Literals[default.text]

(* Any words are a type, in capitals or not. *)
Capitals(type) == CASE type = "real" -> "REAL" [] type = "text" -> "TEXT"
                    [] type = "blob" -> "BLOB" [] type = "char(9)" -> "CHAR(9)"
                    [] type = "foo" -> "FOO"   [] OTHER -> type

(* An empty list of columns is a syntax error; AUTOINCREMENT belongs to an
   INTEGER PRIMARY KEY, which is looked at unless the table exists. *)
Reads(statement, exists) ==
  /\ DOMAIN statement.columns # {}
  /\ \A name \in DOMAIN statement.columns :
       LET column == statement.columns[name]
       IN  /\ DefaultReads(column.default)
           /\ ~exists /\ "AUTOINCREMENT" \in column.clauses => column.type = "INTEGER"

Schema(statement) ==
  LET columns == statement.columns
      With(clause) == {n \in DOMAIN columns : clause \in columns[n].clauses}
  IN  [types    |-> [n \in DOMAIN columns |-> Capitals(columns[n].type)],
       defaults |-> [n \in DOMAIN columns |-> DefaultValue(columns[n].default)],
       key      |-> With("PRIMARY KEY") \union statement.key,
       auto     |-> With("AUTOINCREMENT"),
       not_null |-> With("NOT NULL"),
       unique   |-> With("UNIQUE"),
       foreign  |-> statement.foreign]

None == [types |-> <<>>]
Exists(t) == schema[t] # None

-----------------------------------------------------------------------------
(* The object. *)

DictTypeOK ==
  /\ foreign_keys \in BOOLEAN /\ result \in BOOLEAN /\ guarded \in {"no", "opened", "yes"}
  /\ db \in {"closed", "off", "on"}
  /\ DOMAIN schema = Tables
  /\ rows \subseteq {t \in Tables : Exists(t)}
  /\ guarded = "yes" => Exists("child") /\ schema["child"].foreign # {}

NoCall == [table |-> "none"]

DictInit ==
  /\ foreign_keys = FALSE /\ db = "closed"
  /\ schema = [t \in Tables |-> None] /\ rows = {}
  /\ result = TRUE /\ asked = NoCall /\ guarded = "no"

set_foreign_keys ==
  /\ foreign_keys' = ~foreign_keys
  /\ asked' = NoCall
  /\ UNCHANGED <<db, schema, rows, result, guarded>>

(* Mutant: the pragma is left to the caller. *)
open_db_without_pragma ==
  /\ db = "closed"
  /\ db' = "off" /\ result' = TRUE
  /\ guarded' = IF ~foreign_keys THEN "no" ELSE IF guarded = "yes" THEN "yes" ELSE "opened"
  /\ asked' = NoCall
  /\ UNCHANGED <<foreign_keys, schema, rows>>

open_db ==
  /\ db = "closed"
  /\ db' = IF foreign_keys THEN "on" ELSE "off"
  /\ result' = TRUE
  /\ guarded' = IF ~foreign_keys THEN "no" ELSE IF guarded = "yes" THEN "yes" ELSE "opened"
  /\ asked' = NoCall
  /\ UNCHANGED <<foreign_keys, schema, rows>>

close_db ==
  /\ db # "closed"
  /\ db' = "closed" /\ result' = TRUE
  /\ guarded' = IF guarded = "yes" THEN "yes" ELSE "no"
  /\ asked' = NoCall
  /\ UNCHANGED <<foreign_keys, schema, rows>>

(* IF NOT EXISTS: a table that is there is left alone. *)
create_table(t, dict) ==
  /\ LET statement == Statement(dict, foreign_keys)
         succeeds  == Validates(dict) /\ db # "closed" /\ Reads(statement, Exists(t))
         creates   == succeeds /\ ~Exists(t)
     IN  /\ result' = succeeds
         /\ schema' = IF creates THEN [schema EXCEPT ![t] = Schema(statement)] ELSE schema
         /\ guarded' = IF /\ creates /\ t = "child" /\ guarded = "opened" /\ foreign_keys
                          /\ \E n \in DOMAIN dict : dict[n].foreign_key = "parent.id"
                       THEN "yes" ELSE guarded
         /\ asked' = [table |-> t, dict |-> dict, enabled |-> foreign_keys, existed |-> Exists(t)]
  /\ UNCHANGED <<foreign_keys, db, rows>>

-----------------------------------------------------------------------------
(* Rows under the schema. *)

Reference == schema["child"].foreign
Enforced  == db = "on" /\ Exists("child") /\ Reference # {}

(* sqlite3FkLocateIndex(): the parent's column must be unique. *)
HasParentKey ==
  /\ Exists("parent")
  /\ schema["parent"].key = {"id"} \/ "id" \in schema["parent"].unique

(* A call on an open database: it succeeds and leaves these rows, or fails. *)
Call(succeeds, left) ==
  /\ db # "closed"
  /\ result' = succeeds
  /\ rows' = IF succeeds THEN left ELSE rows
  /\ asked' = NoCall

insert_row(t) ==
  /\ t \notin rows
  /\ Call(Exists(t) /\ (t = "child" /\ Enforced => HasParentKey /\ "parent" \in rows),
          rows \union {t})
  /\ UNCHANGED <<foreign_keys, db, schema, guarded>>

Refuses   == Enforced /\ "child" \in rows /\ \A f \in Reference : f.on_delete # "CASCADE"
Cascading == IF Enforced THEN {"parent", "child"} ELSE {"parent"}

delete_parent ==
  /\ "parent" \in rows
  /\ Call(~Refuses /\ (Enforced => HasParentKey), rows \ Cascading)
  /\ UNCHANGED <<foreign_keys, db, schema, guarded>>

delete_child ==
  /\ "child" \in rows
  /\ Call(Enforced => HasParentKey, rows \ {"child"})
  /\ UNCHANGED <<foreign_keys, db, schema, guarded>>

(* The rows of a parent are deleted first, with what its keys refuse and
   cascade; a key that is not unique is overlooked. *)
DropsRows(t)   == t = "parent" /\ "parent" \in rows /\ Enforced /\ HasParentKey
DropRefused(t) == DropsRows(t) /\ Refuses
Dropped(t)     == IF DropsRows(t) THEN Cascading ELSE {t}

drop_table(t) ==
  /\ Call(Exists(t) /\ ~DropRefused(t), rows \ Dropped(t))
  /\ schema' = IF result' THEN [schema EXCEPT ![t] = None] ELSE schema
  /\ guarded' = IF result' /\ t = "child" /\ guarded = "yes" THEN "opened" ELSE guarded
  /\ UNCHANGED <<foreign_keys, db>>

DictNext ==
  \/ set_foreign_keys \/ open_db \/ close_db
  \/ \E t \in Tables : \/ \E dict \in IF Exists(t) THEN Again[t] ELSE Dicts[t] : create_table(t, dict)
                       \/ insert_row(t) \/ drop_table(t)
  \/ delete_parent \/ delete_child

DictSpec == DictInit /\ [][DictNext]_dictVars

-----------------------------------------------------------------------------
(* Properties. *)

(* While foreign_keys is set whenever the database is opened, and was when the
   child was created, no row of the child loses its parent or comes without
   one, whatever is inserted, deleted, dropped and created again, and although
   the member may be unset in between. *)
ForeignKeysHold ==
  DictTypeOK /\ (guarded = "yes" /\ "child" \in rows => "parent" \in rows)

(* The README's table of the data types and what they are in SQLite. *)
DocumentedTypes ==
  [type \in {"int", "real", "text", "blob", "char(9)"} |->
     CASE type = "int"  -> "INTEGER" [] type = "real" -> "REAL" [] type = "text" -> "TEXT"
       [] type = "blob" -> "BLOB"    [] type = "char(9)" -> "CHAR(9)"]

(* "default: The default value of the column if not explicitly given."  Of a
   String, the README says to use single quotation marks when it is empty or has
   commas or spaces in it; of others, nothing. *)
Quoted == [text \in {"'Long John'", "''"} |-> IF text = "''" THEN "" ELSE "Long John"]

DefaultMeant(default) ==
  CASE default.type \in {"none", "NIL"}   -> NullValue
    [] default.type \in {"INT", "FLOAT"}  -> Value("number", default.text)
    [] default.type = "BYTES"             -> Value("blob", default.text)
    [] OTHER -> Value("text", IF default.text \in DOMAIN Quoted THEN Quoted[default.text]
                                                                ELSE default.text)

(* What the README says the options of a table dictionary mean. *)
ConstraintsAreMeant(dict, table) ==
  LET With(option) == {n \in DOMAIN dict : dict[n][option]}
  IN  /\ table.key = With("primary_key")
      /\ table.not_null = With("not_null")
      /\ table.unique = With("unique")
      /\ table.auto = IF Cardinality(table.key) = 1
                      THEN table.key \intersect With("auto_increment") ELSE {}

ReferencesAreMeant(dict, table) ==
  LET Refers(n) == dict[n].foreign_key = "parent.id"
  IN  /\ {f.column : f \in table.foreign} = {n \in DOMAIN dict : Refers(n)}
      /\ \A f \in table.foreign : /\ f.references = dict[f.column].foreign_key
                                  /\ f.on_delete = dict[f.column].on_delete

(* The defaults that SQL reads as something else: a String without quotation marks
   that is NULL, a number or a name in brackets, and what is no number or String. *)
Misread(default) ==
  \/ default.type = "STRING" /\ default.text \in {"null", "007", "7", "1.5", "[1, 2]"}
  \/ default.type \notin {"none", "INT", "FLOAT", "STRING"}

(* The same columns, the key, the constraints, AUTOINCREMENT only where the column
   is the whole key; with foreign_keys set the references and what they do on a
   delete, and none without; the type of every column whose data_type is in the
   README's table, and every default but those that SQL misreads. *)
Means(dict, enabled, table) ==
  /\ DOMAIN table.types = DOMAIN dict
  /\ ConstraintsAreMeant(dict, table)
  /\ IF enabled THEN ReferencesAreMeant(dict, table) ELSE table.foreign = {}
  /\ \A n \in DOMAIN dict :
       /\ dict[n].data_type \in DOMAIN DocumentedTypes
            => table.types[n] = DocumentedTypes[dict[n].data_type]
       /\ ~Misread(dict[n].default) => table.defaults[n] = DefaultMeant(dict[n].default)

(* A call that creates a table and returns true has created what was asked, as
   the README says it, but for the types that the README does not have and the
   defaults that SQL misreads. *)
CreatesWhatIsAsked ==
  asked # NoCall /\ result /\ ~asked.existed
    => Means(asked.dict, asked.enabled, schema[asked.table])

(* "Data types not found in this table throw an error", and a default needs no
   quotation marks unless it is empty or has commas or spaces in it, says the
   README: so a call that creates a table and returns true was given types of its
   table, and its columns have these types and the defaults that were given.  The
   code does not keep this: any word is a type, and SQL reads a text that looks like
   a number, or like NULL, as one. *)
DictionariesMeanWhatTheySay ==
  asked # NoCall /\ result /\ ~asked.existed
    => LET table == schema[asked.table]
       IN  \A n \in DOMAIN asked.dict :
             /\ asked.dict[n].data_type \in DOMAIN DocumentedTypes
             /\ table.types[n] = DocumentedTypes[asked.dict[n].data_type]
             /\ table.defaults[n] = DefaultMeant(asked.dict[n].default)
=============================================================================
