----------------------------- MODULE MCTableDict -----------------------------
(* TableDict for TLC. *)
EXTENDS TableDict

Text(type, text) == [type |-> type, text |-> text]

(* A parent whose id is its key, or not unique. *)
Parents == {[id |-> [Column EXCEPT !.primary_key = k]] : k \in BOOLEAN}

(* A child that refers to it, by itself or as a part of its key. *)
Children ==
  {[id  |-> [Column EXCEPT !.primary_key = TRUE, !.auto_increment = TRUE],
    ref |-> [Column EXCEPT !.foreign_key = f, !.on_delete = d, !.primary_key = k]] :
     f \in {"parent.id", "parent", ""}, d \in {"", "CASCADE"}, k \in BOOLEAN}

(* One column: every type with every default, or every option with a few types. *)
Types == {"int", "integer", "real", "text", "blob", "char(9)", "foo", "missing", "number"}

Defaults ==
  {Text("INT", "7"), Text("FLOAT", "1.5"), Text("NIL", "<null>"), Text("BYTES", "[1, 2]")}
  \union {Text("STRING", text) :
            text \in {"Silver", "null", "007", "Long John", "'Long John'", ""}}

Singles ==
  {[x |-> [Column EXCEPT !.data_type = type, !.default = default]] :
     type \in Types, default \in Defaults}
  \union
  {[x |-> [Column EXCEPT !.data_type = type, !.primary_key = k, !.auto_increment = a,
                         !.not_null = n, !.unique = u]] :
     type \in {"int", "integer", "text"},
     k \in BOOLEAN, a \in BOOLEAN, n \in BOOLEAN, u \in BOOLEAN}

(* Two columns, with every combination of keys. *)
Pairs ==
  {[x |-> [Column EXCEPT !.primary_key = k, !.auto_increment = a, !.data_type = type],
    y |-> [Column EXCEPT !.primary_key = l, !.auto_increment = b, !.foreign_key = f]] :
     k \in BOOLEAN, a \in BOOLEAN, l \in BOOLEAN, b \in BOOLEAN,
     type \in {"int", "text"}, f \in {"", "parent.id"}}

Empty == {[n \in {} |-> Column]}

(* For a table that is there: its own kind, another type, an error in the
   statement that is seen then, and one that is not. *)
Few ==
  {[x |-> Column], [x |-> [Column EXCEPT !.data_type = "text"]],
   [x |-> [Column EXCEPT !.data_type = "text", !.default = Text("STRING", "")]],
   [x |-> [Column EXCEPT !.data_type = "text", !.primary_key = TRUE,
                         !.auto_increment = TRUE]]}

MCDicts == [t \in Tables |-> IF t = "parent" THEN Parents
                             ELSE Children \union Empty \union Singles \union Pairs]

(* A type that the README does not have, and a text that looks like a number. *)
Surprise == [x |-> [Column EXCEPT !.data_type = "foo"],
             y |-> [Column EXCEPT !.data_type = "text", !.default = Text("STRING", "007")]]

SurpriseDicts == [t \in Tables |-> {Surprise}]

MCAgain == [t \in Tables |-> IF t = "parent" THEN Parents ELSE Children \union Few]
=============================================================================
