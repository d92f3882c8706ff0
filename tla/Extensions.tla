----------------------------- MODULE Extensions -----------------------------
(***************************************************************************)
(* enable_load_extension(), load_extension() and the SQL function          *)
(* load_extension().  A connection has two flags: "api" for loading at all *)
(* and "sql" for the function.  A library is mapped into the process while *)
(* it is opened by some connection; its entry point runs inside the call   *)
(* that loads it and may run SQL of its own.                               *)
(***************************************************************************)
EXTENDS Integers, Sequences, FiniteSets

CONSTANTS Handles, NoHandle,  \* the sqlite3 objects, and nullptr
          Libraries, NoLibrary,
          MaxDepth,           \* bound on the calls nested in one another
          MaxOpened           \* bound on the times a library is opened

ASSUME NamesAssumption == NoHandle \notin Handles /\ NoLibrary \notin Libraries
ASSUME BoundAssumption == MaxDepth \in Nat \ {0} /\ MaxOpened \in Nat

VARIABLES db,         \* the object's sqlite3*
          flags,      \* flags[h] \subseteq {"api", "sql"}
          aExtension, \* aExtension[h][l]: how often h has opened l
          functions,  \* functions[h]: the libraries whose functions h can call
          opened,     \* opened[l]: dlopen()'s count
          stack,      \* statements and entry points that run, innermost first
          enabled     \* enabled[h]: the last enable_load_extension() (history)

extensionsVars == <<db, flags, aExtension, functions, opened, stack, enabled>>

(* A frame is a statement or the entry point of a library, on a connection;
   "object" and "sql" are the two ways to call an entry point. *)
Frame == [kind : {"statement"}, on : Handles, library : {NoLibrary}]
           \union [kind : {"object", "sql"}, on : Handles, library : Libraries]

Statement(h) == [kind |-> "statement", on |-> h, library |-> NoLibrary]

On(calls) == {calls[i].on : i \in DOMAIN calls}

NotOpened == [l \in Libraries |-> 0]

ExtensionsTypeOK ==
  /\ db \in Handles \union {NoHandle}
  /\ flags \in [Handles -> SUBSET {"api", "sql"}]
  /\ aExtension \in [Handles -> [Libraries -> 0 .. MaxOpened]]
  /\ functions \in [Handles -> SUBSET Libraries]
  /\ opened \in [Libraries -> 0 .. MaxOpened]
  /\ stack \in Seq(Frame) /\ Len(stack) <= MaxDepth
  /\ enabled \in [Handles -> BOOLEAN]
  /\ \A h \in Handles : h # db /\ h \notin On(stack) =>
       flags[h] = {} /\ functions[h] = {} /\ aExtension[h] = NotOpened

ExtensionsInit ==
  /\ db = NoHandle
  /\ flags = [h \in Handles |-> {}] /\ enabled = [h \in Handles |-> FALSE]
  /\ aExtension = [h \in Handles |-> NotOpened] /\ opened = NotOpened
  /\ functions = [h \in Handles |-> {}]
  /\ stack = <<>>

-----------------------------------------------------------------------------
(* The caller's code runs outside of all calls, or in a user function that a
   statement calls; the SQL of an entry point calls none. *)
CallerRuns == \A i \in DOMAIN stack : stack[i].kind = "statement"

(* The handles of a library that these connections have from dlopen(). *)
HandlesOf(hs, l) ==
  {opening \in hs \X (1 .. MaxOpened) : opening[2] <= aExtension[opening[1]][l]}

(* A closed connection lives until its last statement is finalized; then it
   closes its libraries. *)
Free(handle, calls, counts) ==
  LET gone == {h \in Handles : h # handle /\ h \notin On(calls)}
  IN  /\ opened'     = [l \in Libraries |-> counts[l] - Cardinality(HandlesOf(gone, l))]
      /\ aExtension' = [h \in Handles |-> IF h \in gone THEN NotOpened ELSE aExtension[h]]
      /\ functions'  = [h \in Handles |-> IF h \in gone THEN {} ELSE functions[h]]
      /\ flags'      = [h \in Handles |-> IF h \in gone THEN {} ELSE flags[h]]
      /\ enabled'    = [h \in Handles |-> h \notin gone /\ enabled[h]]

open_db ==
  /\ CallerRuns /\ db = NoHandle
  /\ db' \in Handles \ On(stack)
  /\ UNCHANGED <<flags, aExtension, functions, opened, stack, enabled>>

close_db ==
  /\ CallerRuns /\ db # NoHandle
  /\ db' = NoHandle
  /\ Free(NoHandle, stack, opened)
  /\ UNCHANGED stack

enable_load_extension(onoff) ==
  /\ CallerRuns /\ db # NoHandle
  /\ flags' = [flags EXCEPT ![db] = IF onoff THEN {"api", "sql"} ELSE {}]
  /\ enabled' = [enabled EXCEPT ![db] = onoff]
  /\ UNCHANGED <<db, aExtension, functions, opened, stack>>

-----------------------------------------------------------------------------
(* Loading. *)

(* sqlite3LoadExtension() up to the call of the entry point.  A file that is
   no library, or has no such entry point, ends as an entry point that fails. *)
EntryPoint(kind, h, library) ==
  /\ Len(stack) < MaxDepth /\ opened[library] < MaxOpened
  /\ opened' = [opened EXCEPT ![library] = @ + 1]
  /\ stack' = <<[kind |-> kind, on |-> h, library |-> library]>> \o stack
  /\ UNCHANGED <<db, aExtension, functions, enabled>>

(* Mutant: it enables both ways of loading. *)
load_extension_enables(library) ==
  /\ CallerRuns /\ db # NoHandle
  /\ EntryPoint("object", db, library)
  /\ flags' = [flags EXCEPT ![db] = {"api", "sql"}]

load_extension(library) ==
  /\ CallerRuns /\ db # NoHandle
  /\ EntryPoint("object", db, library)
  /\ flags' = [flags EXCEPT ![db] = @ \union {"api"}]

(* A statement starts: the caller's, or one of an entry point. *)
Query ==
  /\ Len(stack) < MaxDepth
  /\ IF CallerRuns
     THEN db # NoHandle /\ stack' = <<Statement(db)>> \o stack
     ELSE stack[1].kind # "statement" /\ stack' = <<Statement(stack[1].on)>> \o stack
  /\ UNCHANGED <<db, flags, aExtension, functions, opened, enabled>>

InStatement == stack # <<>> /\ stack[1].kind = "statement"

(* The statement in progress ends, done or failed. *)
StatementEnds ==
  /\ InStatement
  /\ stack' = Tail(stack)
  /\ Free(db, stack', opened)
  /\ UNCHANGED db

Allowed(h) == {"api", "sql"} \subseteq flags[h]

(* SELECT load_extension(...): not authorized without both flags, which ends
   the statement. *)
SqlLoads(library) ==
  /\ InStatement /\ Allowed(stack[1].on)
  /\ EntryPoint("sql", stack[1].on, library)
  /\ UNCHANGED flags

InEntryPoint == stack # <<>> /\ stack[1].kind # "statement"

(* load_extension() disables what it enabled, whatever it was before. *)
Disabled(frame, ok) ==
  IF frame.kind = "object" THEN flags[frame.on] \ {"api"} ELSE flags[frame.on]

EntryPointSucceeds ==
  /\ InEntryPoint
  /\ LET frame == stack[1]
     IN  /\ aExtension' = [aExtension EXCEPT ![frame.on][frame.library] = @ + 1]
         /\ functions'  = [functions EXCEPT ![frame.on] = @ \union {frame.library}]
         /\ flags'      = [flags EXCEPT ![frame.on] = Disabled(frame, TRUE)]
  /\ stack' = Tail(stack)
  /\ UNCHANGED <<db, opened, enabled>>

(* Mutant: the library of an entry point that fails stays open. *)
StaysOpen(library) == opened

(* The library of an entry point that fails is closed again. *)
ClosedOnError(library) == [opened EXCEPT ![library] = @ - 1]

(* load_extension() reports the error; in SQL it is the statement that fails. *)
EntryPointFails ==
  /\ InEntryPoint
  /\ LET frame == stack[1]
     IN  IF frame.kind = "object"
         THEN /\ opened' = ClosedOnError(frame.library)
              /\ flags'  = [flags EXCEPT ![frame.on] = Disabled(frame, FALSE)]
              /\ stack'  = Tail(stack)
              /\ UNCHANGED <<aExtension, functions, enabled>>
         ELSE /\ stack' = Tail(Tail(stack))
              /\ Free(db, stack', ClosedOnError(frame.library))
  /\ UNCHANGED db

ExtensionsNext ==
  \/ open_db \/ close_db \/ Query \/ StatementEnds
  \/ \E onoff \in BOOLEAN : enable_load_extension(onoff)
  \/ \E l \in Libraries : load_extension(l) \/ SqlLoads(l)
  \/ EntryPointSucceeds \/ EntryPointFails

ExtensionsSpec == ExtensionsInit /\ [][ExtensionsNext]_extensionsVars

-----------------------------------------------------------------------------
(* Properties. *)

(* Whatever a connection can call is mapped, as long as the object or a
   statement of the closed connection has it, and other connections come and
   go with the same library. *)
FunctionsAreMapped ==
  \A h \in Handles : \A l \in functions[h] : opened[l] > 0

(* A library is open as often as connections hold it and entry points of it
   run. *)
Held(l) ==
  Cardinality(HandlesOf(Handles, l))
    + Cardinality({i \in DOMAIN stack : stack[i].library = l})

(* A library is mapped exactly as long as something of it can still be called:
   neither an error nor a connection that is gone leaves one behind or takes
   one away. *)
LibrariesAreCounted ==
  ExtensionsTypeOK /\ FunctionsAreMapped /\ \A l \in Libraries : opened[l] = Held(l)

(* SQL loads nothing on a connection that did not enable it, neither while
   load_extension() has the loading enabled, nor after a close_db() and an
   open_db(); and load_extension() "disables it right after": with none in
   progress, loading is enabled by enable_load_extension() only. *)
LoadingIsEnabledOnRequest ==
  /\ \A i \in DOMAIN stack : stack[i].kind = "sql" => enabled[stack[i].on]
  /\ \A h \in Handles :
       "api" \in flags[h] =>
         enabled[h] \/ \E i \in DOMAIN stack : stack[i].kind = "object" /\ stack[i].on = h
=============================================================================
