------------------------------ MODULE JsonCodec ------------------------------
(***************************************************************************)
(* The way of one column's values through export_to_buffer() and           *)
(* import_from_buffer(): out of the table into Variants, the BLOBs of a    *)
(* column whose first row has one into base64, through JSON, and back      *)
(* through base64 and the parameters of the INSERTs.  The values are a few *)
(* representatives of what the steps treat differently.                    *)
(***************************************************************************)
EXTENDS Naturals, Sequences, SequencesExt

CONSTANTS Values,       \* the values of a column
          MaxRows       \* how many rows a table has at most (a bound)

(* What SQLite stores. *)
Null      == "NULL"
Whole     == "integer"            \* a whole number that a double holds
BigInt    == "big integer"        \* one beyond 2^53 that it does not
Rounded   == "rounded integer"    \* the double next to it
Real      == "real"               \* a number of few decimals
WholeReal == "whole real"         \* the number Whole, as a real
LongReal  == "long real"          \* a number of more decimals than are written
Short     == "shortened real"     \* what is written of it
Text      == "text"
Bytes     == "blob"
NoBytes   == "empty blob"
Listing   == "text of a blob"     \* "[1, 2, 3]"

Stored == {Null, Whole, BigInt, Rounded, Real, WholeReal, LongReal, Short, Text,
           Bytes, NoBytes, Listing}
Blobs  == {Bytes, NoBytes}

ASSUME ValuesAssumption == Values \subseteq Stored
ASSUME MaxRowsAssumption == MaxRows \in Nat

(* What a cell of the JSON text holds besides. *)
Base64  == "base64 of the blob"
Absent  == "empty string"
List    == "array of numbers"

(* A column of integers stores a whole number as one. *)
Affinities == {"integer", "none"}
Store(v, kind) == IF v = WholeReal /\ kind = "integer" THEN Whole ELSE v
Columns(kind)  == BoundedSeq({Store(v, kind) : v \in Values}, MaxRows)

-----------------------------------------------------------------------------
(* export_to_buffer() *)

(* Mutant: the BLOBs are looked for in the last row. *)
LastRowTells(values) == values # <<>> /\ Last(values) \in Blobs

(* The columns to encode are those that have a PackedByteArray in the first
   row. *)
IsBase64Column(values) == values # <<>> /\ Head(values) \in Blobs

(* raw_to_base64() of the value, cast to a PackedByteArray: what is none is
   an empty one. *)
Encode(v) == IF v = Bytes THEN Base64 ELSE Absent

(* JSON::stringify(), without full_precision: a real is cut off, and a BLOB
   is an array, or the text of one: versions of Godot differ. *)
Forms == {Listing, List}
Stringify(v, form) ==
  CASE v = LongReal  -> Short
    [] v \in Blobs   -> form
    [] OTHER         -> v

(* The cells of the column in the row_array. *)
ExportColumn(values, form) ==
  [k \in DOMAIN values |-> IF IsBase64Column(values) THEN Encode(values[k])
                           ELSE Stringify(values[k], form)]

-----------------------------------------------------------------------------
(* import_from_buffer() *)

(* base64_to_raw() of a cell of such a column. *)
Decode(cell) == IF cell = Base64 THEN Bytes ELSE NoBytes

(* JSON::parse() has reals only. *)
Parse(cell) ==
  CASE cell = Whole -> WholeReal [] cell = BigInt -> Rounded [] OTHER -> cell

(* bind_parameter(): an empty PackedByteArray is bound as NULL. *)
Bind(v) == IF v = NoBytes THEN Null ELSE v

(* An Array is no parameter: the import ends at it. *)
Arrays(json)   == {k \in DOMAIN json : json[k] = List}
Succeeds(json) == Arrays(json) = {}

(* The column that is inserted. *)
ImportColumn(json, base64, kind) ==
  LET inserted == {k \in DOMAIN json : \A m \in Arrays(json) : k < m}
  IN  [k \in inserted |->
         Store(Bind(IF base64 THEN Decode(json[k]) ELSE Parse(json[k])), kind)]

-----------------------------------------------------------------------------
(* A column of a table that is exported, imported over itself, and so on. *)

VARIABLES affinity,         \* of the column
          column,           \* what the table holds
          exported_column,  \* what it held when it was exported
          cells,            \* the column in the row_array, as JSON
          at                \* "table", "archive", "imported"; "none": no column

columnVars == <<affinity, column, exported_column, cells, at>>

ColumnTypeOK ==
  /\ affinity \in Affinities
  /\ column \in Seq(Stored) /\ exported_column \in Seq(Stored)
  /\ cells \in Seq(Stored \union {Base64, Absent, List})
  /\ Len(column) <= Len(exported_column) \/ at = "table"
  /\ at \in {"none", "table", "archive", "imported"}

NoColumn ==
  /\ affinity = "none" /\ at = "none"
  /\ column = <<>> /\ exported_column = <<>> /\ cells = <<>>

ColumnInit ==
  /\ affinity \in Affinities
  /\ column \in Columns(affinity)
  /\ exported_column = <<>> /\ cells = <<>>
  /\ at = "table"

ColumnExported ==
  /\ at \in {"table", "imported"}
  /\ exported_column' = column
  /\ \E form \in Forms : cells' = ExportColumn(column, form)
  /\ at' = "archive"
  /\ UNCHANGED <<affinity, column>>

ColumnImported ==
  /\ at = "archive"
  /\ column' = ImportColumn(cells, IsBase64Column(exported_column), affinity)
  /\ at' = "imported"
  /\ UNCHANGED <<affinity, exported_column, cells>>

ColumnNext == ColumnExported \/ ColumnImported

ColumnSpec == ColumnInit /\ [][ColumnNext]_columnVars
-----------------------------------------------------------------------------
(* Properties. *)

(* A column of which the first row tells where the BLOBs are, with no empty
   one, and with no number that JSON as Godot writes and reads it changes. *)
Plain ==
  /\ exported_column # <<>> =>
       IF Head(exported_column) \in Blobs
       THEN Range(exported_column) \subseteq {Bytes, Null}
       ELSE Range(exported_column) \intersect (Blobs \union {BigInt, LongReal}) = {}
  /\ affinity = "none" => Whole \notin Range(exported_column)

(* A plain column comes back as it was, and no other does: the import of it
   fails, or returns true with a value changed.  This holds of every later
   trip as well, of what the trips before have made of the column. *)
PlainComesBack ==
  /\ ColumnTypeOK
  /\ at = "imported" => (Plain <=> Succeeds(cells) /\ column = exported_column)
=============================================================================
