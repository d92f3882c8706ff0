--------------------------- MODULE MCImportExport ---------------------------
(* ImportExport for TLC: a table with a child, an index, a view, a trigger that
   copies the parent's rows to a log, and a virtual table with a shadow table;
   or, in behaviours that begin with a column, JsonCodec: what happens to the
   tables and to the values does not depend on each other. *)
EXTENDS ImportExport, JsonCodec

CONSTANTS k1, k2

MCKind ==
  [parent |-> "table", child |-> "table", log |-> "table", index |-> "index",
   trigger |-> "trigger", view |-> "view", fts |-> "table", shadow |-> "table",
   sqlitedata |-> "table"]
MCOn ==
  [o \in DOMAIN MCKind |-> IF o \in {"index", "trigger"} THEN "parent" ELSE o]
NoShadows      == [o \in DOMAIN MCKind |-> {}]
MCShadows      == [NoShadows EXCEPT !["fts"] = {"shadow"}]
MCReferences   == {<<"child", "parent">>}
MCFires        == [trigger |-> "log"]
MCHidden       == {"sqlitedata"}
MCAwkward      == {"view"}
MCKeys         == {k1, k2}

T(name, rows) == [name |-> name, type |-> "table", valid |-> TRUE, rows |-> rows]
O(name, valid) == [name |-> name, type |-> MCKind[name], valid |-> valid, rows |-> <<>>]

Family(p, c) == [parent |-> p, child |-> c]

(* Old contents, and archives to import over them: children before parents,
   without the parent or its row, with a malformed or doubled object, with rows
   that are none, and one that is refused. *)
MCContents ==
  {Family({k1}, {k1}), [child |-> {}, view |-> {}, sqlitedata |-> {k1}]}
MCArchives ==
  {<<T("child", <<k1, k2>>), T("parent", <<k2, k1>>), O("index", TRUE)>>,
   <<T("child", <<k2>>), O("view", TRUE)>>,
   <<T("parent", <<k1>>), T("child", <<k2>>)>>,
   <<O("trigger", TRUE), T("parent", <<k1, k1>>)>>,
   <<T("parent", <<k1, NotDictionary>>)>>,
   <<O("view", FALSE), T("parent", <<k1>>), T("child", <<NotDictionary>>)>>,
   <<T("parent", <<k1, Unbindable>>), T("log", <<>>), O("trigger", TRUE)>>,
   <<[O("view", TRUE) EXCEPT !.type = "?"]>>}

(* Contents with a virtual table, and with what hangs on a table. *)
FtsContents ==
  {[parent |-> {k1}, log |-> {}, index |-> {}, trigger |-> {}, view |-> {}],
   [parent |-> {}, fts |-> {k1}, shadow |-> {}]}
AllContents == MCContents \union FtsContents

(* The values of columns for JsonCodec. *)
MCValues == {Null, Whole, BigInt, Real, WholeReal, LongReal, Text, Bytes, NoBytes}

(* A column is followed beside an object that is never opened. *)
MCInit ==
  \/ Init /\ NoColumn
  \/ Init /\ ~fts5 /\ file = Family({k1}, {k1}) /\ ColumnInit

MCNext ==
  \/ at = "none" /\ Next /\ UNCHANGED columnVars
  \/ ColumnNext /\ UNCHANGED vars

MCSpec == MCInit /\ [][MCNext]_<<vars, columnVars>>
=============================================================================
