------------------------------ MODULE GodotVfs ------------------------------
(***************************************************************************)
(* A read-only object, which reads its file through the godot VFS: a lock  *)
(* is a no-op there, and nobody ever seems to hold RESERVED.  Another      *)
(* connection, through SQLite's own VFS, writes the file with a rollback   *)
(* journal, one page after the other, and may crash on the way; its locks  *)
(* keep nobody out here.                                                   *)
(*                                                                         *)
(* A page holds the number of the attempt to write it last; the first page *)
(* holds the change counter as well, which the reader validates its page   *)
(* cache with.                                                             *)
(***************************************************************************)
EXTENDS Naturals, FiniteSets

CONSTANTS LastPage,     \* the number of pages
          MaxAttempts   \* bound on the transactions of the writer

ASSUME PagesAssumption == LastPage \in Nat /\ LastPage >= 2
ASSUME MaxAttemptsAssumption == MaxAttempts \in Nat

VARIABLES
  file,       \* file[p]: the attempt that wrote page p last
  attempts,   \* the attempts so far
  counterOf,  \* counterOf[n]: the change counter attempt n writes to page 1
  writer,     \* how far the writer is
  dirty,      \* the pages it has still to write
  journal,    \* "none", "empty", "zeroed" (its header is), or "hot"
  saved,      \* the pages the journal holds
  reader,     \* how far the reader's transaction is
  cache,      \* the pages it has cached
  fileVers,   \* dbFileVers: the counter of the cache
  got,        \* the pages read in this transaction
  committed,  \* what was in the file after each commit            (history)
  disturbed,  \* was the file written since the transaction began? (history)
  clean       \* was the cache filled by undisturbed transactions? (history)

file_vars   == <<file, journal, saved>>
writer_vars == <<attempts, counterOf, writer, dirty, committed>>
reader_vars == <<reader, cache, fileVers, got>>
history     == <<disturbed, clean>>
vars        == <<file_vars, writer_vars, reader_vars, history>>

Pages    == 1 .. LastPage
Attempts == 0 .. MaxAttempts
Images   == [Pages -> Attempts]
Some     == UNION {[S -> Attempts] : S \in SUBSET Pages}
Nothing  == [p \in {} |-> 0]

(* Of types, and: a hot journal holds a committed file, and the counter the
   cache is validated with is that of the first page in it. *)
TypeOK ==
  /\ file \in Images /\ saved \in Images /\ committed \subseteq Images
  /\ attempts \in Attempts /\ counterOf \in [Attempts -> Attempts]
  /\ writer \in {"idle", "begun", "writing", "crashed"}
  /\ dirty \subseteq Pages
  /\ journal \in {"none", "empty", "zeroed", "hot"}
  /\ reader \in {"none", "exists", "checked", "reading", "refused"}
  /\ cache \in Some /\ got \in Some
  /\ fileVers \in Attempts
  /\ disturbed \in BOOLEAN /\ clean \in BOOLEAN
  /\ journal = "hot" => saved \in committed
  /\ 1 \in DOMAIN cache => counterOf[cache[1]] = fileVers

Init ==
  /\ file = [p \in Pages |-> 0] /\ saved = file /\ committed = {file}
  /\ attempts = 0 /\ counterOf = [n \in Attempts |-> 0]
  /\ writer = "idle" /\ dirty = {}
  /\ journal = "none"
  /\ reader = "none" /\ cache = Nothing /\ got = Nothing /\ fileVers = 0
  /\ disturbed = FALSE /\ clean = TRUE

-----------------------------------------------------------------------------
(* The writer. *)

(* The journal is created with the first page that is changed. *)
Begin ==
  /\ writer = "idle" /\ attempts < MaxAttempts
  /\ writer' = "begun" /\ journal' = "empty"
  /\ attempts' = attempts + 1
  /\ counterOf' = [counterOf EXCEPT ![attempts'] = counterOf[file[1]] + 1]
  /\ \E S \in SUBSET (Pages \ {1}) \ {{}} : dirty' = S \union {1}
  /\ saved' = file
  /\ UNCHANGED <<file, committed, reader_vars, history>>

(* writeJournalHdr(): the magic is left zero until the journal is synced. *)
WriteJournal ==
  /\ journal = "empty" /\ writer = "begun"
  /\ journal' = "zeroed"
  /\ UNCHANGED <<file, saved, writer_vars, reader_vars, history>>

(* syncJournal() *)
SyncJournal ==
  /\ journal = "zeroed" /\ writer = "begun"
  /\ journal' = "hot" /\ writer' = "writing"
  /\ UNCHANGED <<file, saved, attempts, counterOf, dirty, committed, reader_vars, history>>

(* pager_write_pagelist(), in the order of the pages. *)
WritePage ==
  /\ writer = "writing" /\ dirty # {}
  /\ LET page == CHOOSE p \in dirty : \A q \in dirty : p <= q
     IN  /\ file' = [file EXCEPT ![page] = attempts]
         /\ dirty' = dirty \ {page}
  /\ disturbed' = TRUE
  /\ UNCHANGED <<journal, saved, attempts, counterOf, writer, committed, reader_vars, clean>>

(* The journal is deleted. *)
Commit ==
  /\ writer = "writing" /\ dirty = {}
  /\ journal' = "none" /\ writer' = "idle"
  /\ committed' = committed \union {file}
  /\ UNCHANGED <<file, saved, attempts, counterOf, dirty, reader_vars, history>>

Crash ==
  /\ writer \in {"begun", "writing"}
  /\ writer' = "crashed" /\ dirty' = {}
  /\ UNCHANGED <<file_vars, attempts, counterOf, committed, reader_vars, history>>

(* A connection through SQLite's VFS plays the journal back. *)
Recover ==
  /\ writer = "crashed"
  /\ writer' = "idle" /\ journal' = "none"
  /\ file' = IF journal = "hot" THEN saved ELSE file
  /\ disturbed' = (disturbed \/ file' # file)
  /\ UNCHANGED <<saved, attempts, counterOf, dirty, committed, reader_vars, clean>>

-----------------------------------------------------------------------------
(* The reader: sqlite3PagerSharedLock() over the godot VFS. *)

Validate ==
  /\ reader' = "checked"
  /\ UNCHANGED <<cache, fileVers, got>>

(* hasHotJournal(): is there a journal?  xCheckReservedLock() says that no
   process is using it. *)
SharedLock ==
  /\ reader = "none"
  /\ IF journal = "none" THEN Validate
     ELSE reader' = "exists" /\ UNCHANGED <<cache, fileVers, got>>
  /\ disturbed' = FALSE
  /\ UNCHANGED <<file_vars, writer_vars, clean>>

(* ... is its first byte zero?  Of an empty journal, gdsqlite_file::read()
   copies from a buffer that holds nothing: some byte, or the end of the
   process.  A journal that is gone is taken for hot. *)
FirstByteIsZero == journal \in {"zeroed", "empty"}
FirstByteIsNot  == journal \in {"hot", "empty", "none"}

NoHotJournal ==
  /\ reader = "exists" /\ FirstByteIsZero
  /\ Validate
  /\ UNCHANGED <<file_vars, writer_vars, history>>

(* Mutant: the VFS says that the journal is in use, by a writer or not. *)
NeverHot ==
  /\ reader = "exists" /\ FirstByteIsNot
  /\ Validate
  /\ UNCHANGED <<file_vars, writer_vars, history>>

ReadsNothing ==
  /\ reader = "exists" /\ journal = "empty"
  /\ reader' = "none" /\ cache' = Nothing /\ got' = Nothing
  /\ fileVers' = 0 /\ clean' = TRUE
  /\ UNCHANGED <<file_vars, writer_vars, disturbed>>

(* Mutant: it waits for the journal to go. *)
HotJournalWaits ==
  /\ reader = "exists" /\ FirstByteIsNot
  /\ UNCHANGED vars

(* SQLITE_READONLY_ROLLBACK: a read-only pager does not play it back. *)
HotJournal ==
  /\ reader = "exists" /\ FirstByteIsNot
  /\ reader' = "refused" /\ got' = Nothing
  /\ UNCHANGED <<file_vars, writer_vars, cache, fileVers, history>>

(* Mutant: the cache is kept whatever the counter. *)
CacheIsTrusted ==
  /\ reader = "checked"
  /\ reader' = "reading" /\ got' = Nothing
  /\ UNCHANGED <<cache, file_vars, writer_vars, fileVers, history>>

(* The cache is dropped if the counter is another. *)
CheckVersion ==
  /\ reader = "checked"
  /\ reader' = "reading" /\ got' = Nothing
  /\ cache' = IF cache = Nothing \/ counterOf[file[1]] = fileVers THEN cache ELSE Nothing
  /\ clean' = (clean \/ cache' = Nothing)
  /\ UNCHANGED <<file_vars, writer_vars, fileVers, disturbed>>

(* readDbPage(): the first page comes first, and brings the counter. *)
ReadPage(p) ==
  /\ reader = "reading" /\ p \notin DOMAIN got
  /\ p = 1 \/ 1 \in DOMAIN got
  /\ LET content == IF p \in DOMAIN cache THEN cache[p] ELSE file[p]
     IN  /\ got'   = [q \in DOMAIN got \union {p} |-> IF q = p THEN content ELSE got[q]]
         /\ cache' = [q \in DOMAIN cache \union {p} |-> IF q = p THEN content ELSE cache[q]]
         /\ fileVers' = IF p = 1 THEN counterOf[content] ELSE fileVers
  /\ UNCHANGED <<file_vars, writer_vars, reader, history>>

(* A page that is not in use makes room for another. *)
Evict ==
  /\ reader = "none"
  /\ \E p \in DOMAIN cache : cache' = [q \in DOMAIN cache \ {p} |-> cache[q]]
  /\ UNCHANGED <<file_vars, writer_vars, reader, fileVers, got, history>>

EndRead ==
  /\ reader = "refused" \/ (reader = "reading" /\ 1 \in DOMAIN got)
  /\ reader' = "none" /\ got' = Nothing
  /\ clean' = (clean /\ ~disturbed)
  /\ UNCHANGED <<file_vars, writer_vars, cache, fileVers, disturbed>>

Reading ==
  \/ SharedLock \/ NoHotJournal \/ HotJournal \/ ReadsNothing \/ CheckVersion
  \/ \E p \in Pages : ReadPage(p)
  \/ EndRead

Next ==
  \/ Begin \/ WriteJournal \/ SyncJournal \/ WritePage \/ Commit
  \/ Crash \/ Recover
  \/ Reading \/ Evict

(* The reader's query goes on by itself. *)
Spec == Init /\ [][Next]_vars /\ WF_vars(Reading)
-----------------------------------------------------------------------------
(* Properties. *)

Agrees(pages, image) == \A p \in DOMAIN pages : pages[p] = image[p]

(* Although the reader's locks do nothing: a transaction that gets past the
   check for a hot journal begins on a committed file, never on what a crash
   or a commit has left half written. *)
BeginsOnACommit ==
  [][reader' = "checked" /\ reader # "checked" => file \in committed]_vars

Consistent == \E image \in committed : Agrees(got, image)

(* What one transaction reads, from the cache and from the file, is one
   committed state, if no page was written to the file meanwhile and the cache
   was filled by transactions of which this holds. *)
UndisturbedIsConsistent == TypeOK /\ (~disturbed /\ clean => Consistent)

(* A read-only object that gets past the check reads to the end: a query is
   not held up by the writer. *)
ReadsEnd == reader # "none" ~> reader = "none"
=============================================================================
