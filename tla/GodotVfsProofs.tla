--------------------------- MODULE GodotVfsProofs ---------------------------
(***************************************************************************)
(* Theorems about GodotVfs, for any number of pages and of attempts to     *)
(* write the file; and, after them, about Extensions, for any connections, *)
(* libraries and depth of calls.                                           *)
(***************************************************************************)
EXTENDS GodotVfs, Extensions, FiniteSetTheorems, TLAPS

(* The committed state that the file, or a hot journal, holds. *)
Latest == IF journal = "hot" THEN saved ELSE file

(* The change counter in a file. *)
CounterIn(image) == counterOf[image[1]]

(* The writer has a journal from its first change to its commit; until the
   journal is synced, the file is as it was.  The first page, with the
   incremented counter, is written in every transaction. *)
WriterInv ==
  /\ (writer = "idle") <=> (journal = "none")
  /\ writer = "begun" => journal \in {"empty", "zeroed"}
  /\ writer = "writing" => journal = "hot"
  /\ journal \in {"empty", "zeroed"} => saved = file
  /\ writer \in {"begun", "writing"} => counterOf[attempts] = CounterIn(saved) + 1
  /\ writer = "begun" => 1 \in dirty
  /\ writer = "writing" => 1 \in dirty \/ file[1] = attempts

(* Nothing holds what an attempt of the future writes. *)
AttemptsInv ==
  /\ \A n \in Attempts : counterOf[n] <= n
  /\ \A image \in committed \union {file, saved} : image[1] <= attempts
  /\ 1 \in DOMAIN cache => cache[1] <= attempts

(* A change counter tells the committed states apart, and the last has the
   highest. *)
CommittedInv ==
  /\ Latest \in committed
  /\ \A image \in committed : CounterIn(image) <= CounterIn(Latest)
  /\ \A one, other \in committed : CounterIn(one) = CounterIn(other) => one = other

(* The cache is of one committed state, whose counter it is validated with;
   in an undisturbed transaction that is the state of the file. *)
CacheIsOf(image) ==
  Agrees(cache, image) /\ (cache # Nothing => fileVers = CounterIn(image))

ReaderInv ==
  /\ reader # "reading" => got = Nothing
  /\ DOMAIN got \subseteq DOMAIN cache
  /\ reader \in {"checked", "reading"} /\ ~disturbed => file \in committed
  /\ clean /\ reader # "reading" => \E image \in committed : CacheIsOf(image)
  /\ clean /\ reader = "reading" /\ ~disturbed => CacheIsOf(file) /\ Agrees(got, file)

VfsInv == TypeOK /\ WriterInv /\ AttemptsInv /\ CommittedInv /\ ReaderInv

-----------------------------------------------------------------------------
(* The pages in a cache. *)

(* A set of pages is a function from some of the pages. *)
LEMMA SomeAreFunctions ==
  ASSUME NEW f \in Some
  PROVE  /\ DOMAIN f \subseteq Pages
         /\ f \in [DOMAIN f -> Attempts]
  <1>1. PICK S \in SUBSET Pages : f \in [S -> Attempts]
    BY DEF Some
  <1>2. QED
    BY <1>1

(* The other way round. *)
LEMMA FunctionsAreSome ==
  ASSUME NEW S \in SUBSET Pages, NEW f \in [S -> Attempts]
  PROVE  f \in Some
  BY DEF Some

(* No page is a set of pages. *)
LEMMA NothingIsSome == Nothing \in Some /\ DOMAIN Nothing = {}
  <1>1. Nothing \in [{} -> Attempts] /\ {} \in SUBSET Pages
    BY DEF Nothing
  <1>2. QED
    BY <1>1, FunctionsAreSome DEF Nothing

(* A set of pages without a page is nothing. *)
LEMMA EmptyIsNothing ==
  ASSUME NEW f \in Some, DOMAIN f = {}
  PROVE  f = Nothing
  <1>1. f = [p \in DOMAIN f |-> f[p]]
    BY SomeAreFunctions
  <1>2. QED
    BY <1>1 DEF Nothing

(* The first page and the attempts are what they seem. *)
LEMMA PageFacts == 1 \in Pages /\ Attempts \subseteq Nat /\ Pages \subseteq Nat /\ 0 \in Attempts
  BY PagesAssumption, MaxAttemptsAssumption DEF Pages, Attempts

(* What ReadPage() makes of the pages it has. *)
With(f, p, c) == [q \in DOMAIN f \union {p} |-> IF q = p THEN c ELSE f[q]]

(* It is the same with one page more. *)
LEMMA WithOneMore ==
  ASSUME NEW f \in Some, NEW p \in Pages, NEW c \in Attempts
  PROVE  /\ With(f, p, c) \in Some
         /\ DOMAIN With(f, p, c) = DOMAIN f \union {p}
         /\ With(f, p, c)[p] = c
         /\ \A q \in DOMAIN f : q # p => With(f, p, c)[q] = f[q]
  <1>1. With(f, p, c) \in [DOMAIN f \union {p} -> Attempts]
    BY SomeAreFunctions DEF With
  <1>2. DOMAIN f \union {p} \in SUBSET Pages
    BY SomeAreFunctions
  <1>3. With(f, p, c) \in Some
    BY <1>1, <1>2, FunctionsAreSome
  <1>4. QED
    BY <1>1, <1>3 DEF With

(* What Evict makes of the cache. *)
Without(f, p) == [q \in DOMAIN f \ {p} |-> f[q]]

(* It is the same without one page. *)
LEMMA WithOneLess ==
  ASSUME NEW f \in Some, NEW p
  PROVE  /\ Without(f, p) \in Some
         /\ DOMAIN Without(f, p) = DOMAIN f \ {p}
         /\ \A q \in DOMAIN f \ {p} : Without(f, p)[q] = f[q]
  <1>1. Without(f, p) \in [DOMAIN f \ {p} -> Attempts]
    BY SomeAreFunctions DEF Without
  <1>2. DOMAIN f \ {p} \in SUBSET Pages
    BY SomeAreFunctions
  <1>3. Without(f, p) \in Some
    BY <1>1, <1>2, FunctionsAreSome
  <1>4. QED
    BY <1>1, <1>3 DEF Without

-----------------------------------------------------------------------------
(* What an action that leaves the other side alone does not disturb. *)

(* The reader does not disturb what is said of the writer. *)
LEMMA ReaderKeepsTheFile ==
  ASSUME WriterInv, CommittedInv, UNCHANGED <<file_vars, writer_vars>>
  PROVE  WriterInv' /\ CommittedInv'
  <1>1. UNCHANGED <<file, journal, saved, attempts, counterOf, writer, dirty, committed>>
    BY DEF file_vars, writer_vars
  <1>2. WriterInv'
    BY <1>1 DEF WriterInv, CounterIn
  <1>3. CommittedInv'
    BY <1>1 DEF CommittedInv, CounterIn, Latest
  <1>4. QED
    BY <1>2, <1>3

(* Nor, if the first page it caches is one that was written, AttemptsInv. *)
LEMMA ReaderKeepsAttempts ==
  ASSUME AttemptsInv, UNCHANGED <<file_vars, writer_vars>>,
         1 \in DOMAIN cache' => cache'[1] <= attempts
  PROVE  AttemptsInv'
  BY DEF AttemptsInv, file_vars, writer_vars

(* The writer, when it leaves the counters alone, does not disturb what is said
   of the reader, if a change to the file is noted. *)
LEMMA WriterKeepsTheReader ==
  ASSUME ReaderInv, UNCHANGED <<reader_vars, clean, counterOf>>,
         committed \subseteq committed',
         disturbed' \/ (UNCHANGED <<file, disturbed>>)
  PROVE  ReaderInv'
  <1>1. UNCHANGED <<reader, cache, fileVers, got, clean, counterOf>>
    BY DEF reader_vars
  <1>2. /\ reader' # "reading" => got' = Nothing
        /\ DOMAIN got' \subseteq DOMAIN cache'
        /\ reader' \in {"checked", "reading"} /\ ~disturbed' => file' \in committed'
    BY <1>1 DEF ReaderInv
  <1>3. clean' /\ reader' # "reading" => \E image \in committed' : CacheIsOf(image)'
    BY <1>1 DEF ReaderInv, CacheIsOf, Agrees, CounterIn
  <1>4. clean' /\ reader' = "reading" /\ ~disturbed' => CacheIsOf(file)' /\ Agrees(got, file)'
    BY <1>1 DEF ReaderInv, CacheIsOf, Agrees, CounterIn
  <1>5. QED
    BY <1>2, <1>3, <1>4 DEF ReaderInv

-----------------------------------------------------------------------------
(* The writer preserves the invariant. *)

(* Before Begin the file is the last commit; the counter of the attempt to
   come is in no file and no cache. *)
LEMMA BeginPreserves ==
  ASSUME VfsInv, Begin
  PROVE  VfsInv'
  <1>0. TypeOK /\ WriterInv /\ AttemptsInv /\ CommittedInv /\ ReaderInv
    BY DEF VfsInv
  <1>1. /\ writer = "idle" /\ attempts < MaxAttempts
        /\ writer' = "begun" /\ journal' = "empty"
        /\ attempts' = attempts + 1
        /\ counterOf' = [counterOf EXCEPT ![attempts'] = counterOf[file[1]] + 1]
        /\ saved' = file /\ UNCHANGED <<file, committed, disturbed, clean>>
        /\ UNCHANGED <<reader, cache, fileVers, got>>
    BY DEF Begin, reader_vars, history
  <1>2. 1 \in dirty' /\ dirty' \subseteq Pages
    BY PageFacts DEF Begin
  <1>3. /\ file \in Images /\ committed \subseteq Images
        /\ attempts \in Attempts /\ counterOf \in [Attempts -> Attempts]
        /\ cache \in Some /\ fileVers \in Attempts
    BY <1>0 DEF TypeOK
  <1>4. journal = "none" /\ Latest = file /\ file \in committed
    BY <1>0, <1>1 DEF WriterInv, CommittedInv, Latest
  <1>5. attempts + 1 \in Attempts /\ attempts \in Nat
    BY <1>1, <1>3, MaxAttemptsAssumption DEF Attempts
  <1>6. \A n \in Attempts : n <= attempts => counterOf'[n] = counterOf[n]
    BY <1>1, <1>3, <1>5, PageFacts
  <1>7. \A image \in committed : image[1] \in Attempts /\ image[1] <= attempts
    BY <1>0, <1>3, PageFacts DEF AttemptsInv, Images
  <1>8. \A image \in committed : counterOf'[image[1]] = counterOf[image[1]]
    BY <1>6, <1>7
  <1>n. \A n \in Attempts : n \in Nat
    BY PageFacts
  <1>9. 1 \in DOMAIN cache => cache[1] \in Attempts /\ cache[1] <= attempts
    BY <1>0, <1>3, SomeAreFunctions DEF AttemptsInv
  <1>10. counterOf[file[1]] \in Attempts /\ counterOf[file[1]] <= attempts
    <2>1. counterOf[file[1]] <= file[1] /\ file[1] <= attempts /\ file[1] \in Attempts
      BY <1>0, <1>4, <1>7 DEF AttemptsInv
    <2>2. counterOf[file[1]] \in Attempts
      BY <1>3, <2>1
    <2>3. counterOf[file[1]] \in Nat /\ file[1] \in Nat
      BY <1>n, <2>1, <2>2
    <2>4. QED
      BY <1>5, <2>1, <2>2, <2>3
  <1>11. counterOf[file[1]] + 1 \in Attempts /\ counterOf[file[1]] + 1 <= attempts + 1
    BY <1>5, <1>10, MaxAttemptsAssumption DEF Attempts
  <1>12. counterOf'[attempts'] = counterOf[file[1]] + 1 /\ counterOf' \in [Attempts -> Attempts]
    BY <1>1, <1>3, <1>5, <1>11
  <1>13. TypeOK'
    <2>1. 1 \in DOMAIN cache => counterOf'[cache[1]] = fileVers
      BY <1>0, <1>6, <1>9 DEF TypeOK
    <2>2. QED
      BY <1>0, <1>1, <1>2, <1>5, <1>12, <2>1 DEF TypeOK
  <1>14. WriterInv'
    <2>1. counterOf'[attempts'] = counterOf'[file[1]] + 1
      BY <1>4, <1>8, <1>12
    <2>2. QED
      BY <1>1, <1>2, <2>1 DEF WriterInv, CounterIn
  <1>15. AttemptsInv'
    <2>1. \A n \in Attempts : counterOf'[n] <= n
      <3>1. ASSUME NEW n \in Attempts
            PROVE  counterOf'[n] <= n
        <4>1. CASE n = attempts + 1
          BY <1>1, <1>11, <1>12, <4>1
        <4>2. CASE n # attempts + 1
          <5>1. counterOf'[n] = counterOf[n]
            BY <1>1, <1>3, <4>2
          <5>2. QED
            BY <1>0, <5>1 DEF AttemptsInv
        <4>3. QED
          BY <4>1, <4>2
      <3>2. QED
        BY <3>1
    <2>2. \A image \in committed \union {file} : image[1] <= attempts + 1
      BY <1>4, <1>5, <1>7, <1>n
    <2>3. 1 \in DOMAIN cache => cache[1] <= attempts + 1
      BY <1>5, <1>9, <1>n
    <2>4. QED
      BY <1>1, <2>1, <2>2, <2>3 DEF AttemptsInv
  <1>16. CommittedInv'
    <2>1. Latest' = file
      BY <1>1 DEF Latest
    <2>2. \A image \in committed : counterOf'[image[1]] <= counterOf'[file[1]]
      BY <1>0, <1>4, <1>8 DEF CommittedInv, CounterIn
    <2>3. \A one, other \in committed :
            counterOf'[one[1]] = counterOf'[other[1]] => one = other
      BY <1>0, <1>8 DEF CommittedInv, CounterIn
    <2>4. QED
      BY <1>1, <1>4, <2>1, <2>2, <2>3 DEF CommittedInv, CounterIn
  <1>17. ReaderInv'
    <2>1. \A image \in committed : CacheIsOf(image) => CacheIsOf(image)'
      BY <1>1, <1>8 DEF CacheIsOf, Agrees, CounterIn
    <2>2. CacheIsOf(file) => CacheIsOf(file)'
      BY <1>1, <1>4, <1>8 DEF CacheIsOf, Agrees, CounterIn
    <2>3. clean' /\ reader' # "reading" => \E image \in committed' : CacheIsOf(image)'
      BY <1>0, <1>1, <2>1 DEF ReaderInv
    <2>4. clean' /\ reader' = "reading" /\ ~disturbed' => CacheIsOf(file)' /\ Agrees(got, file)'
      BY <1>0, <1>1, <2>2 DEF ReaderInv, Agrees
    <2>5. QED
      BY <1>0, <1>1, <2>3, <2>4 DEF ReaderInv
  <1>18. QED
    BY <1>13, <1>14, <1>15, <1>16, <1>17 DEF VfsInv

(* The journal comes to hold what the file holds until it is synced. *)
LEMMA JournalPreserves ==
  ASSUME VfsInv, WriteJournal \/ SyncJournal
  PROVE  VfsInv'
  <1>0. TypeOK /\ WriterInv /\ AttemptsInv /\ CommittedInv /\ ReaderInv
    BY DEF VfsInv
  <1>1. /\ UNCHANGED <<file, saved, attempts, counterOf, dirty, committed>>
        /\ UNCHANGED <<reader, cache, fileVers, got, disturbed, clean>>
        /\ reader_vars' = reader_vars
    BY DEF WriteJournal, SyncJournal, writer_vars, reader_vars, history
  <1>2. /\ writer = "begun" /\ journal \in {"empty", "zeroed"}
        /\ \/ writer' = "begun" /\ journal' = "zeroed"
           \/ writer' = "writing" /\ journal' = "hot"
    BY DEF WriteJournal, SyncJournal, writer_vars
  <1>3. saved = file /\ Latest = file /\ Latest' = file
    BY <1>0, <1>1, <1>2 DEF WriterInv, Latest
  <1>4. TypeOK'
    BY <1>0, <1>1, <1>2, <1>3 DEF TypeOK, CommittedInv
  <1>5. WriterInv'
    BY <1>0, <1>1, <1>2, <1>3 DEF WriterInv, CounterIn
  <1>6. AttemptsInv'
    BY <1>0, <1>1 DEF AttemptsInv
  <1>7. CommittedInv'
    BY <1>0, <1>1, <1>3 DEF CommittedInv, CounterIn
  <1>8. ReaderInv'
    BY <1>0, <1>1, WriterKeepsTheReader
  <1>9. QED
    BY <1>4, <1>5, <1>6, <1>7, <1>8 DEF VfsInv

(* A page is written while the journal holds the last commit. *)
LEMMA WritePagePreserves ==
  ASSUME VfsInv, WritePage
  PROVE  VfsInv'
  <1>0. TypeOK /\ WriterInv /\ AttemptsInv /\ CommittedInv /\ ReaderInv
    BY DEF VfsInv
  <1>1. /\ writer = "writing" /\ disturbed' = TRUE
        /\ UNCHANGED <<journal, saved, attempts, counterOf, writer, committed>>
        /\ UNCHANGED <<reader, cache, fileVers, got, clean>> /\ reader_vars' = reader_vars
    BY DEF WritePage, reader_vars
  <1>2. PICK page : /\ file' = [file EXCEPT ![page] = attempts]
                    /\ dirty' = dirty \ {page}
    BY DEF WritePage
  <1>3. file \in [Pages -> Attempts] /\ attempts \in Attempts /\ dirty \subseteq Pages
    BY <1>0 DEF TypeOK, Images
  <1>4. file' \in [Pages -> Attempts] /\ dirty' \subseteq Pages
    BY <1>2, <1>3
  <1>5. file'[1] = IF page = 1 THEN attempts ELSE file[1]
    BY <1>2, <1>3, PageFacts
  <1>6. journal = "hot" /\ Latest' = Latest
    BY <1>0, <1>1 DEF WriterInv, Latest
  <1>7. TypeOK'
    BY <1>0, <1>1, <1>4 DEF TypeOK, Images
  <1>8. WriterInv'
    BY <1>0, <1>1, <1>2, <1>5, <1>6 DEF WriterInv, CounterIn
  <1>9. AttemptsInv'
    <2>1. file[1] <= attempts
      BY <1>0 DEF AttemptsInv
    <2>2. file'[1] <= attempts
      BY <1>3, <1>5, <2>1, PageFacts
    <2>3. QED
      BY <1>0, <1>1, <2>2 DEF AttemptsInv
  <1>10. CommittedInv'
    BY <1>0, <1>1, <1>6 DEF CommittedInv, CounterIn
  <1>11. ReaderInv'
    BY <1>0, <1>1, WriterKeepsTheReader
  <1>12. QED
    BY <1>7, <1>8, <1>9, <1>10, <1>11 DEF VfsInv

(* What is committed has a higher counter than what was. *)
LEMMA CommitPreserves ==
  ASSUME VfsInv, Commit
  PROVE  VfsInv'
  <1>0. TypeOK /\ WriterInv /\ AttemptsInv /\ CommittedInv /\ ReaderInv
    BY DEF VfsInv
  <1>1. /\ writer = "writing" /\ dirty = {}
        /\ journal' = "none" /\ writer' = "idle"
        /\ committed' = committed \union {file}
        /\ UNCHANGED <<file, saved, attempts, counterOf, dirty, disturbed, clean>>
        /\ UNCHANGED <<reader, cache, fileVers, got>> /\ reader_vars' = reader_vars
    BY DEF Commit, reader_vars, history
  <1>2. journal = "hot" /\ Latest = saved /\ Latest' = file /\ file[1] = attempts
    BY <1>0, <1>1 DEF WriterInv, Latest
  <1>3. CounterIn(file) = CounterIn(saved) + 1
    BY <1>0, <1>1, <1>2 DEF WriterInv, CounterIn
  <1>4. \A image \in committed \union {saved} : CounterIn(image) \in Nat
    BY <1>0, PageFacts DEF TypeOK, Images, CounterIn
  <1>5. \A image \in committed : CounterIn(image) < CounterIn(file)
    BY <1>0, <1>2, <1>3, <1>4 DEF CommittedInv
  <1>6. TypeOK'
    BY <1>0, <1>1 DEF TypeOK
  <1>7. WriterInv'
    BY <1>1 DEF WriterInv
  <1>8. AttemptsInv'
    BY <1>0, <1>1 DEF AttemptsInv
  <1>9. CommittedInv'
    <2>1. \A image \in committed' : CounterIn(image) <= CounterIn(file)
      BY <1>1, <1>3, <1>4, <1>5
    <2>2. \A one, other \in committed' : CounterIn(one) = CounterIn(other) => one = other
      BY <1>0, <1>1, <1>3, <1>4, <1>5 DEF CommittedInv
    <2>3. QED
      BY <1>1, <1>2, <2>1, <2>2 DEF CommittedInv, CounterIn
  <1>10. ReaderInv'
    BY <1>0, <1>1, WriterKeepsTheReader
  <1>11. QED
    BY <1>6, <1>7, <1>8, <1>9, <1>10 DEF VfsInv

(* A crash leaves the journal as it is. *)
LEMMA CrashPreserves ==
  ASSUME VfsInv, Crash
  PROVE  VfsInv'
  <1>0. TypeOK /\ WriterInv /\ AttemptsInv /\ CommittedInv /\ ReaderInv
    BY DEF VfsInv
  <1>1. /\ writer \in {"begun", "writing"} /\ writer' = "crashed" /\ dirty' = {}
        /\ UNCHANGED <<file, journal, saved, attempts, counterOf, committed>>
        /\ UNCHANGED <<reader, cache, fileVers, got, disturbed, clean>>
        /\ reader_vars' = reader_vars
    BY DEF Crash, file_vars, reader_vars, history
  <1>2. TypeOK'
    BY <1>0, <1>1 DEF TypeOK
  <1>3. WriterInv'
    BY <1>0, <1>1 DEF WriterInv
  <1>4. AttemptsInv'
    BY <1>0, <1>1 DEF AttemptsInv
  <1>5. CommittedInv'
    BY <1>0, <1>1 DEF CommittedInv, CounterIn, Latest
  <1>6. ReaderInv'
    BY <1>0, <1>1, WriterKeepsTheReader
  <1>7. QED
    BY <1>2, <1>3, <1>4, <1>5, <1>6 DEF VfsInv

(* Recovery brings the last commit back. *)
LEMMA RecoverPreserves ==
  ASSUME VfsInv, Recover
  PROVE  VfsInv'
  <1>0. TypeOK /\ WriterInv /\ AttemptsInv /\ CommittedInv /\ ReaderInv
    BY DEF VfsInv
  <1>1. /\ writer = "crashed" /\ writer' = "idle" /\ journal' = "none"
        /\ file' = Latest /\ disturbed' = (disturbed \/ file' # file)
        /\ UNCHANGED <<saved, attempts, counterOf, dirty, committed, clean>>
        /\ UNCHANGED <<reader, cache, fileVers, got>> /\ reader_vars' = reader_vars
    BY DEF Recover, reader_vars, Latest
  <1>2. Latest' = Latest
    BY <1>1 DEF Latest
  <1>3. TypeOK'
    BY <1>0, <1>1 DEF TypeOK, CommittedInv
  <1>4. WriterInv'
    BY <1>1 DEF WriterInv
  <1>5. AttemptsInv'
    BY <1>0, <1>1 DEF AttemptsInv, CommittedInv
  <1>6. CommittedInv'
    BY <1>0, <1>1, <1>2 DEF CommittedInv, CounterIn
  <1>7. ReaderInv'
    BY <1>0, <1>1, WriterKeepsTheReader DEF TypeOK
  <1>8. QED
    BY <1>3, <1>4, <1>5, <1>6, <1>7 DEF VfsInv

-----------------------------------------------------------------------------
(* The reader preserves the invariant. *)

(* A state that was checked when there was no journal, or one whose header is
   zero, is the last commit. *)
LEMMA WithoutHotJournal ==
  ASSUME CommittedInv, journal # "hot"
  PROVE  file \in committed
  BY DEF CommittedInv, Latest

(* Until its transaction begins, the reader has read nothing of the file. *)
LEMMA CheckPreserves ==
  ASSUME VfsInv, SharedLock \/ NoHotJournal \/ HotJournal
  PROVE  VfsInv'
  <1>0. TypeOK /\ WriterInv /\ AttemptsInv /\ CommittedInv /\ ReaderInv
    BY DEF VfsInv
  <1>1. /\ UNCHANGED <<file_vars, writer_vars>>
        /\ UNCHANGED <<file, journal, saved, attempts, counterOf, writer, dirty, committed>>
        /\ UNCHANGED <<cache, fileVers, clean>>
    BY DEF SharedLock, NoHotJournal, HotJournal, Validate, file_vars, writer_vars, history
  <1>2. /\ reader \in {"none", "exists"} /\ reader' \in {"exists", "checked", "refused"}
        /\ disturbed' \in {FALSE, disturbed}
        /\ got' = got \/ got' = Nothing
    BY DEF SharedLock, NoHotJournal, HotJournal, Validate, history
  <1>3. reader' = "checked" => journal # "hot"
    BY DEF SharedLock, NoHotJournal, HotJournal, Validate, FirstByteIsZero
  <1>4. got' = Nothing
    BY <1>0, <1>2 DEF ReaderInv
  <1>5. TypeOK'
    BY <1>0, <1>1, <1>2, <1>4, NothingIsSome DEF TypeOK
  <1>6. WriterInv' /\ CommittedInv'
    BY <1>0, <1>1, ReaderKeepsTheFile
  <1>7. AttemptsInv'
    BY <1>0, <1>1 DEF AttemptsInv
  <1>8. ReaderInv'
    <2>1. reader' = "checked" => file' \in committed'
      BY <1>0, <1>1, <1>3, WithoutHotJournal
    <2>2. clean => \E image \in committed : CacheIsOf(image)
      BY <1>0, <1>2 DEF ReaderInv
    <2>3. clean' => \E image \in committed' : CacheIsOf(image)'
      BY <1>1, <2>2 DEF CacheIsOf, Agrees, CounterIn
    <2>4. QED
      BY <1>2, <1>4, <2>1, <2>3, NothingIsSome DEF ReaderInv
  <1>9. QED
    BY <1>5, <1>6, <1>7, <1>8 DEF VfsInv

(* Of an empty cache everything is true. *)
LEMMA ReadsNothingPreserves ==
  ASSUME VfsInv, ReadsNothing
  PROVE  VfsInv'
  <1>0. TypeOK /\ WriterInv /\ AttemptsInv /\ CommittedInv /\ ReaderInv
    BY DEF VfsInv
  <1>1. /\ UNCHANGED <<file_vars, writer_vars>>
        /\ UNCHANGED <<file, journal, saved, attempts, counterOf, writer, dirty, committed>>
        /\ reader' = "none" /\ cache' = Nothing /\ got' = Nothing
        /\ fileVers' = 0 /\ clean' = TRUE /\ disturbed' = disturbed
    BY DEF ReadsNothing, file_vars, writer_vars
  <1>2. TypeOK'
    BY <1>0, <1>1, NothingIsSome, PageFacts DEF TypeOK
  <1>3. WriterInv' /\ CommittedInv'
    BY <1>0, <1>1, ReaderKeepsTheFile
  <1>4. AttemptsInv'
    BY <1>0, <1>1, NothingIsSome DEF AttemptsInv
  <1>5. ReaderInv'
    <2>1. \E image \in committed' : CacheIsOf(image)'
      BY <1>0, <1>1, NothingIsSome DEF CommittedInv, CacheIsOf, Agrees
    <2>2. QED
      BY <1>1, <2>1, NothingIsSome DEF ReaderInv
  <1>6. QED
    BY <1>2, <1>3, <1>4, <1>5 DEF VfsInv

(* A cache whose counter is that of a committed file is of that file, for
   the counters tell the commits apart. *)
LEMMA CheckVersionPreserves ==
  ASSUME VfsInv, CheckVersion
  PROVE  VfsInv'
  <1>0. TypeOK /\ WriterInv /\ AttemptsInv /\ CommittedInv /\ ReaderInv
    BY DEF VfsInv
  <1>1. /\ UNCHANGED <<file_vars, writer_vars>>
        /\ UNCHANGED <<file, journal, saved, attempts, counterOf, writer, dirty, committed>>
        /\ UNCHANGED <<fileVers, disturbed>>
        /\ reader = "checked" /\ reader' = "reading" /\ got' = Nothing
        /\ cache' = IF cache = Nothing \/ counterOf[file[1]] = fileVers
                    THEN cache ELSE Nothing
        /\ clean' = (clean \/ cache' = Nothing)
    BY DEF CheckVersion, file_vars, writer_vars
  <1>2. cache' = Nothing \/ (cache' = cache /\ CounterIn(file) = fileVers)
    BY <1>1 DEF CounterIn
  <1>3. TypeOK'
    BY <1>0, <1>1, <1>2, NothingIsSome DEF TypeOK
  <1>4. WriterInv' /\ CommittedInv'
    BY <1>0, <1>1, ReaderKeepsTheFile
  <1>5. AttemptsInv'
    BY <1>0, <1>1, <1>2, NothingIsSome DEF AttemptsInv
  <1>6. ReaderInv'
    <2>1. ~disturbed' => file' \in committed'
      BY <1>0, <1>1 DEF ReaderInv
    <2>2. Agrees(got, file)' /\ DOMAIN got' = {}
      BY <1>1, NothingIsSome DEF Agrees
    <2>3. ASSUME clean', ~disturbed'
          PROVE  CacheIsOf(file)'
      <3>1. CASE cache' = Nothing
        BY <1>1, <3>1, NothingIsSome DEF CacheIsOf, Agrees
      <3>2. CASE cache' # Nothing
        <4>1. cache' = cache /\ CounterIn(file) = fileVers /\ clean /\ cache # Nothing
          BY <1>1, <1>2, <2>3, <3>2
        <4>2. PICK image \in committed : CacheIsOf(image)
          BY <1>0, <1>1, <4>1 DEF ReaderInv
        <4>3. CounterIn(file) = CounterIn(image)
          BY <4>1, <4>2 DEF CacheIsOf
        <4>4. file = image
          BY <1>0, <1>1, <2>1, <2>3, <4>3 DEF CommittedInv
        <4>5. QED
          BY <1>1, <4>1, <4>2, <4>4 DEF CacheIsOf, Agrees, CounterIn
      <3>3. QED
        BY <3>1, <3>2
    <2>4. QED
      BY <1>1, <2>1, <2>2, <2>3 DEF ReaderInv
  <1>7. QED
    BY <1>3, <1>4, <1>5, <1>6 DEF VfsInv

(* What is read from an undisturbed file is the file. *)
LEMMA ReadPagePreserves ==
  ASSUME VfsInv, NEW p \in Pages, ReadPage(p)
  PROVE  VfsInv'
  <1>0. TypeOK /\ WriterInv /\ AttemptsInv /\ CommittedInv /\ ReaderInv
    BY DEF VfsInv
  <1>1. PICK content : content = IF p \in DOMAIN cache THEN cache[p] ELSE file[p]
    OBVIOUS
  <1>2. /\ UNCHANGED <<file_vars, writer_vars>>
        /\ UNCHANGED <<file, journal, saved, attempts, counterOf, writer, dirty, committed>>
        /\ UNCHANGED <<reader, disturbed, clean>>
        /\ reader = "reading" /\ (p = 1 \/ 1 \in DOMAIN got)
        /\ got' = With(got, p, content) /\ cache' = With(cache, p, content)
        /\ fileVers' = IF p = 1 THEN counterOf[content] ELSE fileVers
    BY <1>1 DEF ReadPage, With, file_vars, writer_vars, history
  <1>3. /\ file \in [Pages -> Attempts] /\ counterOf \in [Attempts -> Attempts]
        /\ cache \in Some /\ got \in Some /\ fileVers \in Attempts
    BY <1>0 DEF TypeOK, Images
  <1>4. content \in Attempts
    <2>1. p \in DOMAIN cache => cache[p] \in Attempts
      BY <1>3, SomeAreFunctions
    <2>2. QED
      BY <1>1, <1>3, <2>1
  <1>5. /\ cache' \in Some /\ DOMAIN cache' = DOMAIN cache \union {p}
        /\ cache'[p] = content
        /\ \A q \in DOMAIN cache : q # p => cache'[q] = cache[q]
    BY <1>2, <1>3, <1>4, WithOneMore
  <1>6. /\ got' \in Some /\ DOMAIN got' = DOMAIN got \union {p}
        /\ got'[p] = content
        /\ \A q \in DOMAIN got : q # p => got'[q] = got[q]
    BY <1>2, <1>3, <1>4, WithOneMore
  <1>7. TypeOK'
    <2>1. fileVers' \in Attempts
      BY <1>2, <1>3, <1>4
    <2>2. 1 \in DOMAIN cache' => counterOf'[cache'[1]] = fileVers'
      <3>1. CASE p = 1
        BY <1>2, <1>5, <3>1
      <3>2. CASE p # 1
        BY <1>0, <1>2, <1>5, <3>2 DEF TypeOK
      <3>3. QED
        BY <3>1, <3>2
    <2>3. QED
      BY <1>0, <1>2, <1>5, <1>6, <2>1, <2>2 DEF TypeOK
  <1>8. WriterInv' /\ CommittedInv'
    BY <1>0, <1>2, ReaderKeepsTheFile
  <1>9. AttemptsInv'
    <2>1. 1 \in DOMAIN cache' => cache'[1] <= attempts
      BY <1>0, <1>1, <1>5 DEF AttemptsInv
    <2>2. QED
      BY <1>0, <1>2, <2>1, ReaderKeepsAttempts
  <1>10. ReaderInv'
    <2>1. DOMAIN got' \subseteq DOMAIN cache'
      BY <1>0, <1>5, <1>6 DEF ReaderInv
    <2>2. ASSUME clean', ~disturbed'
          PROVE  CacheIsOf(file)' /\ Agrees(got, file)'
      <3>1. CacheIsOf(file) /\ Agrees(got, file)
        BY <1>0, <1>2, <2>2 DEF ReaderInv
      <3>2. content = file[p]
        BY <1>1, <3>1 DEF CacheIsOf, Agrees
      <3>3. Agrees(cache, file)'
        BY <1>2, <1>5, <3>1, <3>2 DEF CacheIsOf, Agrees
      <3>4. Agrees(got, file)'
        BY <1>2, <1>6, <3>1, <3>2 DEF Agrees
      <3>5. fileVers' = CounterIn(file)'
        <4>1. CASE p = 1
          BY <1>2, <3>2, <4>1 DEF CounterIn
        <4>2. CASE p # 1
          <5>1. cache # Nothing
            BY <1>0, <1>2, <4>2, NothingIsSome DEF ReaderInv
          <5>2. QED
            BY <1>2, <3>1, <4>2, <5>1 DEF CacheIsOf, CounterIn
        <4>3. QED
          BY <4>1, <4>2
      <3>6. QED
        BY <3>3, <3>4, <3>5 DEF CacheIsOf
    <2>3. QED
      BY <1>0, <1>2, <2>1, <2>2 DEF ReaderInv
  <1>11. QED
    BY <1>7, <1>8, <1>9, <1>10 DEF VfsInv

(* A cache agrees with what it agreed with when a page of it is gone. *)
LEMMA EvictPreserves ==
  ASSUME VfsInv, Evict
  PROVE  VfsInv'
  <1>0. TypeOK /\ WriterInv /\ AttemptsInv /\ CommittedInv /\ ReaderInv
    BY DEF VfsInv
  <1>1. PICK p \in DOMAIN cache : cache' = Without(cache, p)
    BY DEF Evict, Without
  <1>2. /\ UNCHANGED <<file_vars, writer_vars>>
        /\ UNCHANGED <<file, journal, saved, attempts, counterOf, writer, dirty, committed>>
        /\ UNCHANGED <<reader, fileVers, got, disturbed, clean>> /\ reader = "none"
    BY DEF Evict, file_vars, writer_vars, history
  <1>3. cache \in Some
    BY <1>0 DEF TypeOK
  <1>4. /\ cache' \in Some /\ DOMAIN cache' = DOMAIN cache \ {p}
        /\ \A q \in DOMAIN cache \ {p} : cache'[q] = cache[q]
    BY <1>1, <1>3, WithOneLess
  <1>5. TypeOK'
    BY <1>0, <1>2, <1>4 DEF TypeOK
  <1>6. WriterInv' /\ CommittedInv'
    BY <1>0, <1>2, ReaderKeepsTheFile
  <1>7. AttemptsInv'
    BY <1>0, <1>2, <1>4, ReaderKeepsAttempts DEF AttemptsInv
  <1>8. ReaderInv'
    <2>1. got = Nothing
      BY <1>0, <1>2 DEF ReaderInv
    <2>2. cache # Nothing
      BY <1>1, NothingIsSome
    <2>3. \A image \in committed : CacheIsOf(image) => CacheIsOf(image)'
      BY <1>2, <1>4, <2>2 DEF CacheIsOf, Agrees, CounterIn
    <2>4. clean' => \E image \in committed' : CacheIsOf(image)'
      BY <1>0, <1>2, <2>3 DEF ReaderInv
    <2>5. QED
      BY <1>2, <2>1, <2>4, NothingIsSome DEF ReaderInv
  <1>9. QED
    BY <1>5, <1>6, <1>7, <1>8 DEF VfsInv

(* An undisturbed transaction leaves a cache of the file it has read. *)
LEMMA EndReadPreserves ==
  ASSUME VfsInv, EndRead
  PROVE  VfsInv'
  <1>0. TypeOK /\ WriterInv /\ AttemptsInv /\ CommittedInv /\ ReaderInv
    BY DEF VfsInv
  <1>1. /\ UNCHANGED <<file_vars, writer_vars>>
        /\ UNCHANGED <<file, journal, saved, attempts, counterOf, writer, dirty, committed>>
        /\ UNCHANGED <<cache, fileVers, disturbed>>
        /\ reader \in {"refused", "reading"} /\ reader' = "none" /\ got' = Nothing
        /\ clean' = (clean /\ ~disturbed)
    BY DEF EndRead, file_vars, writer_vars
  <1>2. TypeOK'
    BY <1>0, <1>1, NothingIsSome DEF TypeOK
  <1>3. WriterInv' /\ CommittedInv'
    BY <1>0, <1>1, ReaderKeepsTheFile
  <1>4. AttemptsInv'
    BY <1>0, <1>1, ReaderKeepsAttempts DEF AttemptsInv
  <1>5. ReaderInv'
    <2>1. clean' => \E image \in committed : CacheIsOf(image)
      BY <1>0, <1>1 DEF ReaderInv
    <2>2. clean' => \E image \in committed' : CacheIsOf(image)'
      BY <1>1, <2>1 DEF CacheIsOf, Agrees, CounterIn
    <2>3. QED
      BY <1>1, <2>2, NothingIsSome DEF ReaderInv
  <1>6. QED
    BY <1>2, <1>3, <1>4, <1>5 DEF VfsInv

-----------------------------------------------------------------------------
(* The theorems. *)

(* Nothing was read or written. *)
LEMMA InitVfs == Init => VfsInv
  <1>. SUFFICES ASSUME Init
                PROVE  VfsInv
    OBVIOUS
  <1>1. file \in Images /\ file[1] = 0 /\ counterOf \in [Attempts -> Attempts]
    BY PageFacts DEF Init, Images
  <1>2. \A n \in Attempts : counterOf[n] = 0 /\ 0 <= n
    BY PageFacts DEF Init
  <1>3. TypeOK
    BY <1>1, PageFacts, NothingIsSome DEF Init, TypeOK
  <1>4. WriterInv
    BY DEF Init, WriterInv
  <1>5. AttemptsInv
    BY <1>1, <1>2, NothingIsSome DEF Init, AttemptsInv
  <1>6. CommittedInv
    BY <1>1, <1>2, PageFacts DEF Init, CommittedInv, CounterIn, Latest
  <1>7. ReaderInv
    BY NothingIsSome DEF Init, ReaderInv, CacheIsOf, Agrees
  <1>8. QED
    BY <1>3, <1>4, <1>5, <1>6, <1>7 DEF VfsInv

(* Every action preserves the invariant. *)
LEMMA NextVfs == VfsInv /\ [Next]_vars => VfsInv'
  <1>. SUFFICES ASSUME VfsInv, [Next]_vars
                PROVE  VfsInv'
    OBVIOUS
  <1>1. CASE Begin
    BY <1>1, BeginPreserves
  <1>2. CASE WriteJournal \/ SyncJournal
    BY <1>2, JournalPreserves
  <1>3. CASE WritePage
    BY <1>3, WritePagePreserves
  <1>4. CASE Commit
    BY <1>4, CommitPreserves
  <1>5. CASE Crash
    BY <1>5, CrashPreserves
  <1>6. CASE Recover
    BY <1>6, RecoverPreserves
  <1>7. CASE SharedLock \/ NoHotJournal \/ HotJournal
    BY <1>7, CheckPreserves
  <1>8. CASE ReadsNothing
    BY <1>8, ReadsNothingPreserves
  <1>9. CASE CheckVersion
    BY <1>9, CheckVersionPreserves
  <1>10. CASE \E p \in Pages : ReadPage(p)
    BY <1>10, ReadPagePreserves
  <1>11. CASE Evict
    BY <1>11, EvictPreserves
  <1>12. CASE EndRead
    BY <1>12, EndReadPreserves
  <1>13. CASE UNCHANGED vars
    <2>1. UNCHANGED <<file, journal, saved, attempts, counterOf, writer, dirty, committed>>
      BY <1>13 DEF vars, file_vars, writer_vars
    <2>2. UNCHANGED <<reader, cache, fileVers, got, disturbed, clean>>
      BY <1>13 DEF vars, reader_vars, history
    <2>3. TypeOK' /\ AttemptsInv'
      BY <2>1, <2>2 DEF VfsInv, TypeOK, AttemptsInv
    <2>4. WriterInv' /\ CommittedInv'
      BY <1>13, ReaderKeepsTheFile DEF VfsInv, vars
    <2>5. ReaderInv'
      BY <2>1, <2>2, WriterKeepsTheReader DEF VfsInv, reader_vars
    <2>6. QED
      BY <2>3, <2>4, <2>5 DEF VfsInv
  <1>14. QED
    BY <1>1, <1>2, <1>3, <1>4, <1>5, <1>6, <1>7, <1>8, <1>9, <1>10, <1>11, <1>12, <1>13
       DEF Next, Reading

(* The file, or the hot journal, always holds a committed state, which its
   change counter tells from every other; and a clean cache is of one. *)
THEOREM VfsInvariant == Spec => []VfsInv
  BY InitVfs, NextVfs, PTL DEF Spec

(* A transaction that gets past the check for a hot journal begins on a
   committed file, although the reader's locks keep nobody out. *)
THEOREM ReadsBeginOnACommit == Spec => BeginsOnACommit
  <1>1. VfsInv /\ [Next]_vars
          => [reader' = "checked" /\ reader # "checked" => file \in committed]_vars
    <2>. SUFFICES ASSUME VfsInv, Next, reader' = "checked", reader # "checked"
                  PROVE  file \in committed
      OBVIOUS
    <2>1. SharedLock \/ NoHotJournal
      BY DEF Next, Reading, Begin, WriteJournal, SyncJournal, WritePage, Commit, Crash,
             Recover, HotJournal, ReadsNothing, CheckVersion, ReadPage, EndRead, Evict,
             reader_vars
    <2>2. journal # "hot"
      BY <2>1 DEF SharedLock, NoHotJournal, Validate, FirstByteIsZero
    <2>3. QED
      BY <2>2, WithoutHotJournal DEF VfsInv
  <1>2. QED
    BY <1>1, VfsInvariant, PTL DEF Spec, BeginsOnACommit

(* What an undisturbed transaction with a clean cache reads is one committed
   state of the file. *)
THEOREM UndisturbedReadsAreConsistent == Spec => []UndisturbedIsConsistent
  <1>1. VfsInv => UndisturbedIsConsistent
    <2>. SUFFICES ASSUME VfsInv
                  PROVE  UndisturbedIsConsistent
      OBVIOUS
    <2>1. reader = "reading" /\ ~disturbed /\ clean => Consistent
      BY DEF VfsInv, ReaderInv, Consistent
    <2>2. reader # "reading" => Consistent
      BY NothingIsSome DEF VfsInv, ReaderInv, CommittedInv, Consistent, Agrees
    <2>3. QED
      BY <2>1, <2>2 DEF VfsInv, UndisturbedIsConsistent
  <1>2. QED
    BY <1>1, VfsInvariant, PTL

-----------------------------------------------------------------------------
(***************************************************************************)
(* Extensions: for any connections, libraries and bounds.                  *)
(***************************************************************************)

(* HandlesOf, of any such counts. *)
Opens(counts, hs, l) ==
  {opening \in hs \X (1 .. MaxOpened) : opening[2] <= counts[opening[1]][l]}

(* The frames that are of a library. *)
Running(calls, l) == {i \in DOMAIN calls : calls[i].library = l}

(* What the counts are of is finite, and dlopen() counts just that. *)
CountInv ==
  \A l \in Libraries :
    /\ IsFiniteSet(HandlesOf(Handles, l))
    /\ opened[l] = Held(l)

(* Each function that can be called is of a library that the connection holds. *)
FunctionsInv == \A h \in Handles : \A l \in functions[h] : aExtension[h][l] > 0

(* Whose the calls are: SQL that loads is of the statement around it, and
   load_extension() is called on the open connection. *)
Nested(calls, handle) ==
  \A i \in DOMAIN calls :
    /\ calls[i].kind = "sql" =>
         i + 1 \in DOMAIN calls /\ calls[i + 1] = Statement(calls[i].on)
    /\ calls[i].kind = "object" => calls[i].on = handle

(* Only enable_load_extension() lets SQL load. *)
SqlInv == \A h \in Handles : "sql" \in flags[h] => enabled[h]

ExtensionsInv ==
  /\ ExtensionsTypeOK
  /\ CountInv
  /\ FunctionsInv
  /\ Nested(stack, db)
  /\ SqlInv
  /\ LoadingIsEnabledOnRequest

-----------------------------------------------------------------------------
(* Counting. *)

(* The handles are those of the counts. *)
LEMMA HandlesAreOpens ==
  ASSUME NEW hs, NEW l
  PROVE  HandlesOf(hs, l) = Opens(aExtension, hs, l)
BY DEF HandlesOf, Opens

(* The frames of a call that goes on are finitely many. *)
LEMMA RunningIsFinite ==
  ASSUME NEW s \in Seq(Frame), NEW l
  PROVE  IsFiniteSet(Running(s, l)) /\ Cardinality(Running(s, l)) \in Nat
<1>1. Running(s, l) \in SUBSET (1 .. Len(s))  BY DEF Running
<1>2. IsFiniteSet(1 .. Len(s))  BY FS_Interval
<1>3. IsFiniteSet(Running(s, l))  BY <1>1, <1>2, FS_Subset
<1> QED  BY <1>3, FS_CardinalityType

(* With a frame goes one run of its library. *)
LEMMA RunningOfTail ==
  ASSUME NEW s \in Seq(Frame), s # <<>>, NEW l
  PROVE  Cardinality(Running(s, l)) =
           Cardinality(Running(Tail(s), l)) + (IF s[1].library = l THEN 1 ELSE 0)
<1> DEFINE R == Running(Tail(s), l)
           Rest == Running(s, l) \ {1}
           f == [i \in R |-> i + 1]
<1>1. /\ Len(s) \in Nat \ {0}
      /\ Tail(s) \in Seq(Frame)
      /\ Len(Tail(s)) = Len(s) - 1
      /\ \A i \in 1 .. Len(s) - 1 : Tail(s)[i] = s[i + 1]
  OBVIOUS
<1>2. R \subseteq 1 .. Len(s) - 1
  BY <1>1 DEF Running
<1>3. \A i : i \in Rest <=> i \in 1 .. Len(s) /\ i # 1 /\ s[i].library = l
  BY <1>1 DEF Running
<1>4. \A i : i \in R <=> i \in 1 .. Len(s) - 1 /\ s[i + 1].library = l
  BY <1>1 DEF Running
<1>5. f \in [R -> Rest]
  BY <1>1, <1>3, <1>4
<1>6. \A i, j \in R : f[i] = f[j] => i = j
  BY <1>2
<1>7. \A k \in Rest : \E i \in R : f[i] = k
  <2> TAKE k \in Rest
  <2>1. k - 1 \in R  BY <1>1, <1>3, <1>4
  <2>2. f[k - 1] = k  BY <2>1, <1>3
  <2> QED  BY <2>1, <2>2
<1>8. f \in Bijection(R, Rest)
  BY <1>5, <1>6, <1>7 DEF Bijection, Injection, Surjection, IsInjective
<1>9. ExistsBijection(R, Rest)
  BY <1>8 DEF ExistsBijection
<1>10. Cardinality(Rest) = Cardinality(R)
  BY <1>1, <1>9, RunningIsFinite, FS_Bijection
<1>11. /\ IsFiniteSet(Running(s, l))
       /\ Cardinality(Running(s, l)) \in Nat
  BY RunningIsFinite
<1>12. Cardinality(Rest) = IF 1 \in Running(s, l) THEN Cardinality(Running(s, l)) - 1
                                                  ELSE Cardinality(Running(s, l))
  BY <1>11, FS_RemoveElement
<1>13. 1 \in Running(s, l) <=> s[1].library = l
  BY <1>1 DEF Running
<1> HIDE DEF R, Rest
<1> QED  BY <1>10, <1>11, <1>12, <1>13 DEF R

(* A frame more is one run more of its library. *)
LEMMA RunningOfPush ==
  ASSUME NEW s \in Seq(Frame), NEW frame \in Frame, NEW l
  PROVE  Cardinality(Running(<<frame>> \o s, l)) =
           Cardinality(Running(s, l)) + (IF frame.library = l THEN 1 ELSE 0)
<1>1. /\ <<frame>> \o s \in Seq(Frame)
      /\ <<frame>> \o s # <<>>
      /\ (<<frame>> \o s)[1] = frame
  OBVIOUS
<1>2. Tail(<<frame>> \o s) = s
  OBVIOUS
<1> QED  BY <1>1, <1>2, RunningOfTail

(* A connection that holds a library n times has n of its handles. *)
LEMMA HandlesOfOne ==
  ASSUME NEW counts \in [Handles -> [Libraries -> 0 .. MaxOpened]],
         NEW h \in Handles, NEW l \in Libraries,
         IsFiniteSet(Opens(counts, Handles, l))
  PROVE  /\ Cardinality(Opens(counts, Handles, l)) \in Nat
         /\ counts[h][l] <= Cardinality(Opens(counts, Handles, l))
<1> DEFINE n == counts[h][l]
           Mine == {h} \X (1 .. n)
           f == [i \in 1 .. n |-> <<h, i>>]
<1>1. n \in Nat /\ n <= MaxOpened /\ MaxOpened \in Nat
  BY BoundAssumption
<1>2. Mine \in SUBSET Opens(counts, Handles, l)
  <2>1. SUFFICES ASSUME NEW m \in Mine PROVE m \in Opens(counts, Handles, l)
    OBVIOUS
  <2>2. m[1] = h /\ m[2] \in 1 .. n /\ m = <<m[1], m[2]>>
    OBVIOUS
  <2> QED  BY <2>2, <1>1 DEF Opens
<1>3. IsFiniteSet({h}) /\ Cardinality({h}) = 1
  BY FS_Singleton
<1> HIDE DEF n
<1>4. IsFiniteSet(1 .. n) /\ Cardinality(1 .. n) = n
  <2>1. 1 \in Int /\ n \in Int /\ (1 > n => n = 0)
    BY <1>1
  <2>2. IsFiniteSet(1 .. n) /\ Cardinality(1 .. n) = IF 1 > n THEN 0 ELSE n - 1 + 1
    BY <2>1, FS_Interval, Zenon
  <2> QED  BY <1>1, <2>2
<1>5. Cardinality(Mine) = 1 * n
  <2>1. Cardinality(Mine) = Cardinality({h}) * Cardinality(1 .. n)
    BY <1>3, <1>4, FS_Product, Zenon
  <2> QED  BY <2>1, <1>3, <1>4
<1>6. Cardinality(Mine) <= Cardinality(Opens(counts, Handles, l))
  BY <1>2, FS_Subset
<1>7. Cardinality(Opens(counts, Handles, l)) \in Nat
  BY FS_CardinalityType
<1> HIDE DEF Mine
<1> QED  BY <1>1, <1>5, <1>6, <1>7 DEF n

(* A library that a connection opens once more has one handle more, and the
   others those that they had. *)
LEMMA HandlesOfOpening ==
  ASSUME NEW counts \in [Handles -> [Libraries -> 0 .. MaxOpened]],
         NEW h \in Handles, NEW library \in Libraries, NEW l \in Libraries,
         counts[h][library] < MaxOpened,
         IsFiniteSet(Opens(counts, Handles, l)),
         NEW after,
         \A g \in Handles :
           after[g][l] = IF g = h /\ l = library THEN counts[g][l] + 1 ELSE counts[g][l]
  PROVE  /\ IsFiniteSet(Opens(after, Handles, l))
         /\ Cardinality(Opens(after, Handles, l)) =
              Cardinality(Opens(counts, Handles, l)) + (IF l = library THEN 1 ELSE 0)
<1> DEFINE new == <<h, counts[h][library] + 1>>
<1>1. counts[h][library] \in Nat /\ MaxOpened \in Nat
  BY BoundAssumption
<1>2. \A g \in Handles : counts[g][l] \in Nat
  BY <1>1
<1>3. CASE l # library
  <2>1. Opens(after, Handles, l) = Opens(counts, Handles, l)
    BY <1>3 DEF Opens
  <2>2. Cardinality(Opens(counts, Handles, l)) \in Nat
    BY FS_CardinalityType
  <2> QED  BY <1>3, <2>1, <2>2
<1>4. CASE l = library
  <2>1. \A x \in Handles \X (1 .. MaxOpened) :
          x[2] <= after[x[1]][l] <=> x[2] <= counts[x[1]][l] \/ x = new
    <3> TAKE x \in Handles \X (1 .. MaxOpened)
    <3>1. x[1] \in Handles /\ x[2] \in 1 .. MaxOpened /\ x = <<x[1], x[2]>>
      OBVIOUS
    <3>2. x = new <=> x[1] = h /\ x[2] = counts[h][library] + 1
      BY <3>1
    <3>3. x[2] \in Nat /\ counts[x[1]][l] \in Nat
      BY <3>1, <1>2, <1>1
    <3> HIDE DEF new
    <3>4. CASE x[1] = h
      <4>1. after[x[1]][l] = counts[x[1]][l] + 1
        BY <3>1, <3>4, <1>4
      <4>2. x = new <=> x[2] = counts[x[1]][l] + 1
        BY <3>2, <3>4, <1>4
      <4> QED  BY <3>3, <4>1, <4>2
    <3>5. CASE x[1] # h
      BY <3>1, <3>2, <3>3, <3>5
    <3> QED  BY <3>4, <3>5
  <2>2. new \in Handles \X (1 .. MaxOpened)
    BY <1>1
  <2>3. new \notin Opens(counts, Handles, l)
    BY <1>1, <1>4 DEF Opens
  <2> HIDE DEF new
  <2>4. Opens(after, Handles, l) = Opens(counts, Handles, l) \cup {new}
    BY <2>1, <2>2 DEF Opens
  <2>5. /\ IsFiniteSet(Opens(after, Handles, l))
        /\ Cardinality(Opens(after, Handles, l)) =
             IF new \in Opens(counts, Handles, l) THEN Cardinality(Opens(counts, Handles, l))
             ELSE Cardinality(Opens(counts, Handles, l)) + 1
    BY <2>4, FS_AddElement, Zenon
  <2> QED  BY <1>4, <2>3, <2>5
<1> QED  BY <1>3, <1>4

(* When connections close their libraries, what is left is the others'. *)
LEMMA HandlesOfClosing ==
  ASSUME NEW counts \in [Handles -> [Libraries -> 0 .. MaxOpened]],
         NEW gone \in SUBSET Handles, NEW l \in Libraries,
         IsFiniteSet(Opens(counts, Handles, l)),
         NEW after, after = [h \in Handles |-> IF h \in gone THEN NotOpened ELSE counts[h]]
  PROVE  /\ IsFiniteSet(Opens(after, Handles, l))
         /\ Cardinality(Opens(counts, gone, l)) \in Nat
         /\ Cardinality(Opens(after, Handles, l)) =
              Cardinality(Opens(counts, Handles, l)) - Cardinality(Opens(counts, gone, l))
<1>1. \A g \in Handles : after[g][l] = IF g \in gone THEN 0 ELSE counts[g][l]
  BY DEF NotOpened
<1>2. Opens(counts, gone, l) \in SUBSET Opens(counts, Handles, l)
  BY DEF Opens
<1>3. Opens(after, Handles, l) = Opens(counts, Handles, l) \ Opens(counts, gone, l)
  <2>1. \A x \in Handles \X (1 .. MaxOpened) :
          x[2] <= after[x[1]][l] <=> x[2] <= counts[x[1]][l] /\ x[1] \notin gone
    <3> TAKE x \in Handles \X (1 .. MaxOpened)
    <3>1. x[1] \in Handles /\ x[2] \in 1 .. MaxOpened
      OBVIOUS
    <3> QED  BY <3>1, <1>1
  <2>2. \A x \in Handles \X (1 .. MaxOpened) :
          x \in gone \X (1 .. MaxOpened) <=> x[1] \in gone
    OBVIOUS
  <2> QED  BY <2>1, <2>2, <1>2 DEF Opens
<1>4. Opens(counts, Handles, l) \cap Opens(counts, gone, l) = Opens(counts, gone, l)
  BY <1>2
<1>5. IsFiniteSet(Opens(counts, gone, l))
  BY <1>2, FS_Subset
<1>6. Cardinality(Opens(counts, gone, l)) \in Nat
  BY <1>5, FS_CardinalityType
<1>7. /\ IsFiniteSet(Opens(after, Handles, l))
      /\ Cardinality(Opens(after, Handles, l)) =
           Cardinality(Opens(counts, Handles, l))
             - Cardinality(Opens(counts, Handles, l) \cap Opens(counts, gone, l))
  BY <1>3, FS_Difference, Zenon
<1> QED  BY <1>4, <1>6, <1>7

-----------------------------------------------------------------------------
(* Calls. *)

(* The frames after, and whose they are, are those of s without the innermost. *)
Returned(s, after) ==
  /\ after \in Seq(Frame)
  /\ 1 \in DOMAIN s /\ s[1] \in Frame
  /\ Len(after) = Len(s) - 1 /\ Len(s) \in Nat
  /\ \A i \in DOMAIN after : i + 1 \in DOMAIN s /\ s[i + 1] = after[i]
  /\ \A i \in DOMAIN s : i = 1 \/ (i - 1 \in DOMAIN after /\ s[i] = after[i - 1])
  /\ On(s) = On(after) \union {s[1].on}

(* It is the tail that has returned. *)
LEMMA Popped ==
  ASSUME NEW s \in Seq(Frame), s # <<>>
  PROVE  Returned(s, Tail(s))
<1>0. PICK after : after = Tail(s)  OBVIOUS
<1>1. /\ after \in Seq(Frame)
      /\ 1 \in DOMAIN s /\ s[1] \in Frame
      /\ Len(after) = Len(s) - 1 /\ Len(s) \in Nat
  BY <1>0
<1>2. \A i \in DOMAIN after : i + 1 \in DOMAIN s /\ s[i + 1] = after[i]
  BY <1>0, <1>1
<1>3. \A i \in DOMAIN s : i = 1 \/ (i - 1 \in DOMAIN after /\ s[i] = after[i - 1])
  BY <1>0, <1>1
<1>4. On(s) = On(after) \union {s[1].on}
  <2>1. \A x : x \in On(s) => x \in On(after) \/ x = s[1].on
    BY <1>1, <1>3, Zenon DEF On
  <2>2. \A x : x \in On(after) => x \in On(s)
    BY <1>2, Zenon DEF On
  <2>3. s[1].on \in On(s)
    BY <1>1 DEF On
  <2> QED  BY <2>1, <2>2, <2>3
<1> QED  BY <1>0, <1>1, <1>2, <1>3, <1>4 DEF Returned

(* Calls stay nested when one is added that belongs there. *)
LEMMA NestedAfterPush ==
  ASSUME NEW s \in Seq(Frame), NEW frame \in Frame, NEW handle,
         Nested(s, handle),
         frame.kind = "sql" => s # <<>> /\ s[1] = Statement(frame.on),
         frame.kind = "object" => frame.on = handle
  PROVE  Nested(<<frame>> \o s, handle)
<1>1. PICK after : after = <<frame>> \o s  OBVIOUS
<1>2. /\ after \in Seq(Frame) /\ after[1] = frame
      /\ \A i \in DOMAIN s : i + 1 \in DOMAIN after /\ after[i + 1] = s[i]
      /\ \A i \in DOMAIN after : i = 1 \/ (i - 1 \in DOMAIN s /\ after[i] = s[i - 1])
  <2>1. after \in Seq(Frame) /\ after # <<>> /\ after[1] = frame
    BY <1>1
  <2>2. s = Tail(after)
    BY <1>1
  <2>3. Returned(after, s)
    BY <2>1, <2>2, Popped
  <2> QED  BY <2>1, <2>3 DEF Returned
<1>3. SUFFICES ASSUME NEW i \in DOMAIN after
               PROVE  /\ after[i].kind = "sql" =>
                           i + 1 \in DOMAIN after /\ after[i + 1] = Statement(after[i].on)
                      /\ after[i].kind = "object" => after[i].on = handle
  BY <1>1 DEF Nested
<1>4. CASE i = 1
  <2>1. s # <<>> => 1 \in DOMAIN s
    OBVIOUS
  <2>2. s # <<>> => 2 \in DOMAIN after /\ after[2] = s[1]
    BY <2>1, <1>2
  <2> QED  BY <1>2, <1>4, <2>2
<1>5. CASE i # 1
  <2>1. i - 1 \in DOMAIN s /\ after[i] = s[i - 1] /\ i \in Int
    <3>1. i \in Int  BY <1>2
    <3>2. i - 1 \in DOMAIN s /\ after[i] = s[i - 1]  BY <1>2, <1>5
    <3> QED  BY <3>1, <3>2
  <2>2. i \in DOMAIN s => i + 1 \in DOMAIN after /\ after[i + 1] = s[i]
    BY <1>2
  <2>3. i - 1 + 1 = i
    BY <2>1
  <2> QED  BY <2>1, <2>2, <2>3 DEF Nested
<1> QED  BY <1>4, <1>5

(* Calls stay nested when the innermost returns. *)
LEMMA NestedAfterPop ==
  ASSUME NEW s \in Seq(Frame), s # <<>>, NEW handle, Nested(s, handle)
  PROVE  Nested(Tail(s), handle)
<1>1. PICK after : after = Tail(s)  OBVIOUS
<1>2. /\ after \in Seq(Frame)
      /\ Len(after) = Len(s) - 1 /\ Len(s) \in Nat
      /\ \A i \in DOMAIN after : i + 1 \in DOMAIN s /\ s[i + 1] = after[i]
  BY <1>1, Popped DEF Returned
<1>3. SUFFICES ASSUME NEW i \in DOMAIN after
               PROVE  /\ after[i].kind = "sql" =>
                           i + 1 \in DOMAIN after /\ after[i + 1] = Statement(after[i].on)
                      /\ after[i].kind = "object" => after[i].on = handle
  BY <1>1 DEF Nested
<1>4. i + 1 \in DOMAIN s /\ s[i + 1] = after[i] /\ i \in Nat
  BY <1>2
<1>5. i + 1 + 1 \in DOMAIN s => i + 1 \in DOMAIN after
  BY <1>2, <1>4
<1>6. i + 1 \in DOMAIN after => s[i + 1 + 1] = after[i + 1]
  BY <1>2
<1> QED  BY <1>4, <1>5, <1>6 DEF Nested

(* The frames that there can be. *)
LEMMA Frames ==
  /\ \A h \in Handles : Statement(h) \in Frame
  /\ \A h \in Handles : \A l \in Libraries :
       /\ [kind |-> "object", on |-> h, library |-> l] \in Frame
       /\ [kind |-> "sql", on |-> h, library |-> l] \in Frame
  /\ \A frame \in Frame :
       /\ frame.on \in Handles
       /\ frame.kind = "statement" => frame.library = NoLibrary
       /\ frame.kind # "statement" =>
            frame.kind \in {"object", "sql"} /\ frame.library \in Libraries
BY DEF Frame, Statement

-----------------------------------------------------------------------------
(* Free. *)

(* Of the connections, those that are gone hold nothing any more, and the
   others what they held; dlopen()'s count follows. *)
LEMMA FreeFrees ==
  ASSUME ExtensionsTypeOK, FunctionsInv, SqlInv,
         \A l \in Libraries : IsFiniteSet(HandlesOf(Handles, l)),
         NEW handle, NEW calls \in Seq(Frame),
         NEW counts \in [Libraries -> 0 .. MaxOpened],
         \A l \in Libraries :
           counts[l] = Cardinality(HandlesOf(Handles, l)) + Cardinality(Running(calls, l)),
         Free(handle, calls, counts)
  PROVE  /\ flags' \in [Handles -> SUBSET {"api", "sql"}]
         /\ aExtension' \in [Handles -> [Libraries -> 0 .. MaxOpened]]
         /\ functions' \in [Handles -> SUBSET Libraries]
         /\ opened' \in [Libraries -> 0 .. MaxOpened]
         /\ enabled' \in [Handles -> BOOLEAN]
         /\ \A h \in Handles : h # handle /\ h \notin On(calls) =>
              flags'[h] = {} /\ functions'[h] = {} /\ aExtension'[h] = NotOpened
         /\ \A l \in Libraries :
              /\ IsFiniteSet(Opens(aExtension', Handles, l))
              /\ opened'[l] = Cardinality(Opens(aExtension', Handles, l))
                                + Cardinality(Running(calls, l))
         /\ FunctionsInv' /\ SqlInv'
         /\ \A h \in Handles :
              \/ flags'[h] = flags[h] /\ enabled'[h] = enabled[h]
              \/ flags'[h] = {} /\ h \notin On(calls)
<1> DEFINE gone == {h \in Handles : h # handle /\ h \notin On(calls)}
<1>1. /\ opened' = [l \in Libraries |-> counts[l] - Cardinality(HandlesOf(gone, l))]
      /\ aExtension' = [h \in Handles |-> IF h \in gone THEN NotOpened ELSE aExtension[h]]
      /\ functions' = [h \in Handles |-> IF h \in gone THEN {} ELSE functions[h]]
      /\ flags' = [h \in Handles |-> IF h \in gone THEN {} ELSE flags[h]]
      /\ enabled' = [h \in Handles |-> h \notin gone /\ enabled[h]]
  BY DEF Free
<1>2. /\ flags \in [Handles -> SUBSET {"api", "sql"}]
      /\ aExtension \in [Handles -> [Libraries -> 0 .. MaxOpened]]
      /\ functions \in [Handles -> SUBSET Libraries]
      /\ enabled \in [Handles -> BOOLEAN]
  BY DEF ExtensionsTypeOK
<1>3. gone \in SUBSET Handles /\ (\A h \in gone : h \notin On(calls))
  OBVIOUS
<1>4. \A h \in Handles : h # handle /\ h \notin On(calls) => h \in gone
  OBVIOUS
<1> HIDE DEF gone
<1>5. MaxOpened \in Nat
  BY BoundAssumption
<1>6. NotOpened \in [Libraries -> 0 .. MaxOpened]
  BY <1>5 DEF NotOpened
<1>7. aExtension' \in [Handles -> [Libraries -> 0 .. MaxOpened]]
  BY <1>1, <1>2, <1>6
<1>8. flags' \in [Handles -> SUBSET {"api", "sql"}]
  BY <1>1, <1>2
<1>9. functions' \in [Handles -> SUBSET Libraries]
  BY <1>1, <1>2
<1>10. enabled' \in [Handles -> BOOLEAN]
  BY <1>1, <1>2
<1>11. \A l \in Libraries :
         /\ IsFiniteSet(Opens(aExtension', Handles, l))
         /\ opened'[l] = Cardinality(Opens(aExtension', Handles, l))
                           + Cardinality(Running(calls, l))
         /\ opened'[l] \in 0 .. MaxOpened
  <2> TAKE l \in Libraries
  <2>1. IsFiniteSet(Opens(aExtension, Handles, l))
    BY HandlesAreOpens
  <2>2. /\ IsFiniteSet(Opens(aExtension', Handles, l))
        /\ Cardinality(Opens(aExtension, gone, l)) \in Nat
        /\ Cardinality(Opens(aExtension', Handles, l)) =
             Cardinality(Opens(aExtension, Handles, l)) - Cardinality(Opens(aExtension, gone, l))
    BY <1>1, <1>2, <1>3, <2>1, HandlesOfClosing
  <2>3. /\ Cardinality(Opens(aExtension, Handles, l)) \in Nat
        /\ Cardinality(Opens(aExtension', Handles, l)) \in Nat
    BY <2>1, <2>2, FS_CardinalityType
  <2>4. Cardinality(Running(calls, l)) \in Nat
    BY RunningIsFinite
  <2>5. opened'[l] = counts[l] - Cardinality(Opens(aExtension, gone, l))
    BY <1>1, HandlesAreOpens
  <2>6. counts[l] = Cardinality(Opens(aExtension, Handles, l)) + Cardinality(Running(calls, l))
    BY HandlesAreOpens
  <2>7. counts[l] \in 0 .. MaxOpened
    OBVIOUS
  <2> QED  BY <1>5, <2>2, <2>3, <2>4, <2>5, <2>6, <2>7
<1>12. opened' \in [Libraries -> 0 .. MaxOpened]
  BY <1>1, <1>11
<1>13. FunctionsInv'
  <2>1. SUFFICES ASSUME NEW h \in Handles, NEW l \in functions'[h]
                 PROVE  aExtension'[h][l] > 0
    BY DEF FunctionsInv
  <2>2. h \notin gone
    BY <1>1, <2>1
  <2>3. functions'[h] = functions[h] /\ aExtension'[h] = aExtension[h]
    BY <1>1, <2>2
  <2> QED  BY <2>1, <2>3 DEF FunctionsInv
<1>14. SqlInv'
  BY <1>1 DEF SqlInv
<1>15. \A h \in Handles :
         \/ flags'[h] = flags[h] /\ enabled'[h] = enabled[h]
         \/ flags'[h] = {} /\ h \notin On(calls)
  BY <1>1, <1>2, <1>3
<1>16. \A h \in Handles : h # handle /\ h \notin On(calls) =>
         flags'[h] = {} /\ functions'[h] = {} /\ aExtension'[h] = NotOpened
  BY <1>1, <1>4
<1> QED  BY <1>7, <1>8, <1>9, <1>10, <1>11, <1>12, <1>13, <1>14, <1>15, <1>16

-----------------------------------------------------------------------------
(* The steps. *)

(* What the counts are, said of Opens and Running. *)
LEMMA CountsAre ==
  ASSUME ExtensionsTypeOK, CountInv, NEW l \in Libraries
  PROVE  /\ IsFiniteSet(Opens(aExtension, Handles, l))
         /\ opened[l] = Cardinality(Opens(aExtension, Handles, l))
                          + Cardinality(Running(stack, l))
         /\ Cardinality(Opens(aExtension, Handles, l)) \in Nat
         /\ Cardinality(Running(stack, l)) \in Nat
<1>1. IsFiniteSet(Opens(aExtension, Handles, l))
  BY HandlesAreOpens DEF CountInv
<1>2. opened[l] = Cardinality(Opens(aExtension, Handles, l)) + Cardinality(Running(stack, l))
  BY HandlesAreOpens DEF CountInv, Held, Running
<1>3. stack \in Seq(Frame)
  BY DEF ExtensionsTypeOK
<1> QED  BY <1>1, <1>2, <1>3, RunningIsFinite, FS_CardinalityType

(* Running statements are nobody's entry points. *)
LEMMA StatementsCountNothing ==
  ASSUME NEW frame \in Frame, frame.kind = "statement", NEW l \in Libraries
  PROVE  frame.library # l
BY Frames, NamesAssumption

(* An object that opens a connection gets one that nothing is left of. *)
LEMMA OpenDbKeeps ==
  ASSUME ExtensionsInv, open_db
  PROVE  ExtensionsInv'
<1>1. /\ CallerRuns /\ db = NoHandle /\ db' \in Handles
      /\ UNCHANGED <<flags, aExtension, functions, opened, stack, enabled>>
  BY DEF open_db
<1>2. NoHandle \notin Handles
  BY NamesAssumption
<1>3. ExtensionsTypeOK'
  BY <1>1, <1>2 DEF ExtensionsInv, ExtensionsTypeOK
<1>4. CountInv'
  BY <1>1 DEF ExtensionsInv, CountInv, Held, HandlesOf
<1>5. FunctionsInv' /\ SqlInv' /\ LoadingIsEnabledOnRequest'
  BY <1>1 DEF ExtensionsInv, FunctionsInv, SqlInv, LoadingIsEnabledOnRequest
<1>6. Nested(stack, db)'
  BY <1>1 DEF Nested, CallerRuns
<1> QED  BY <1>3, <1>4, <1>5, <1>6 DEF ExtensionsInv

(* An object that closes its connection leaves what statements of it need. *)
LEMMA CloseDbKeeps ==
  ASSUME ExtensionsInv, close_db
  PROVE  ExtensionsInv'
<1>1. /\ CallerRuns /\ db' = NoHandle
      /\ Free(NoHandle, stack, opened)
      /\ stack' = stack
  BY DEF close_db
<1>2. /\ ExtensionsTypeOK /\ CountInv /\ FunctionsInv /\ SqlInv
      /\ LoadingIsEnabledOnRequest
      /\ stack \in Seq(Frame) /\ Len(stack) <= MaxDepth
      /\ opened \in [Libraries -> 0 .. MaxOpened]
  BY DEF ExtensionsInv, ExtensionsTypeOK
<1>3. \A l \in Libraries : IsFiniteSet(HandlesOf(Handles, l))
  BY <1>2 DEF CountInv
<1>4. \A l \in Libraries :
        opened[l] = Cardinality(HandlesOf(Handles, l)) + Cardinality(Running(stack, l))
  BY <1>2 DEF CountInv, Held, Running
<1>5. /\ flags' \in [Handles -> SUBSET {"api", "sql"}]
      /\ aExtension' \in [Handles -> [Libraries -> 0 .. MaxOpened]]
      /\ functions' \in [Handles -> SUBSET Libraries]
      /\ opened' \in [Libraries -> 0 .. MaxOpened]
      /\ enabled' \in [Handles -> BOOLEAN]
      /\ \A h \in Handles : h # NoHandle /\ h \notin On(stack) =>
           flags'[h] = {} /\ functions'[h] = {} /\ aExtension'[h] = NotOpened
      /\ \A l \in Libraries :
           /\ IsFiniteSet(Opens(aExtension', Handles, l))
           /\ opened'[l] = Cardinality(Opens(aExtension', Handles, l))
                             + Cardinality(Running(stack, l))
      /\ FunctionsInv' /\ SqlInv'
      /\ \A h \in Handles :
           \/ flags'[h] = flags[h] /\ enabled'[h] = enabled[h]
           \/ flags'[h] = {} /\ h \notin On(stack)
  BY <1>1, <1>2, <1>3, <1>4, FreeFrees
<1>6. ExtensionsTypeOK'
  BY <1>1, <1>2, <1>5 DEF ExtensionsTypeOK
<1>7. CountInv'
  BY <1>1, <1>5 DEF CountInv, Held, HandlesOf, Opens, Running
<1>8. LoadingIsEnabledOnRequest'
  <2>1. \A i \in DOMAIN stack : stack[i].kind # "sql"
    BY <1>1 DEF CallerRuns
  <2>2. \A h \in Handles : "api" \in flags'[h] => flags'[h] = flags[h] /\ enabled'[h] = enabled[h]
    BY <1>5
  <2> QED  BY <1>1, <1>2, <2>1, <2>2 DEF LoadingIsEnabledOnRequest
<1>9. Nested(stack, db)'
  BY <1>1 DEF Nested, CallerRuns
<1> QED  BY <1>5, <1>6, <1>7, <1>8, <1>9 DEF ExtensionsInv

(* The flags are those of the object's connection, outside of all loading. *)
LEMMA EnableLoadExtensionKeeps ==
  ASSUME ExtensionsInv, NEW onoff \in BOOLEAN, enable_load_extension(onoff)
  PROVE  ExtensionsInv'
<1>1. /\ CallerRuns /\ db # NoHandle
      /\ flags' = [flags EXCEPT ![db] = IF onoff THEN {"api", "sql"} ELSE {}]
      /\ enabled' = [enabled EXCEPT ![db] = onoff]
      /\ UNCHANGED <<db, aExtension, functions, opened, stack>>
  BY DEF enable_load_extension
<1>2. ExtensionsTypeOK /\ FunctionsInv /\ SqlInv /\ LoadingIsEnabledOnRequest
  BY DEF ExtensionsInv
<1>3. /\ db \in Handles
      /\ flags \in [Handles -> SUBSET {"api", "sql"}]
      /\ enabled \in [Handles -> BOOLEAN]
  BY <1>1, <1>2 DEF ExtensionsTypeOK
<1>4. \A h \in Handles :
        /\ flags'[h] = IF h = db THEN (IF onoff THEN {"api", "sql"} ELSE {}) ELSE flags[h]
        /\ enabled'[h] = IF h = db THEN onoff ELSE enabled[h]
  BY <1>1, <1>3
<1>5. /\ flags' \in [Handles -> SUBSET {"api", "sql"}]
      /\ enabled' \in [Handles -> BOOLEAN]
  BY <1>1, <1>3
<1>6. ExtensionsTypeOK'
  BY <1>1, <1>2, <1>4, <1>5 DEF ExtensionsTypeOK
<1>7. CountInv' /\ FunctionsInv' /\ Nested(stack, db)'
  BY <1>1 DEF ExtensionsInv, CountInv, Held, HandlesOf, FunctionsInv, Nested
<1>8. SqlInv'
  BY <1>2, <1>4 DEF SqlInv
<1>9. LoadingIsEnabledOnRequest'
  <2>1. \A i \in DOMAIN stack' : stack'[i].kind # "sql"
    BY <1>1 DEF CallerRuns
  <2>2. \A h \in Handles :
          "api" \in flags'[h] =>
            enabled'[h] \/ \E i \in DOMAIN stack' : stack'[i].kind = "object" /\ stack'[i].on = h
    BY <1>1, <1>2, <1>4 DEF LoadingIsEnabledOnRequest
  <2> QED  BY <2>1, <2>2 DEF LoadingIsEnabledOnRequest
<1> QED  BY <1>6, <1>7, <1>8, <1>9 DEF ExtensionsInv

(* A library is counted from the call of its entry point on. *)
LEMMA EntryPointKeeps ==
  ASSUME ExtensionsInv, NEW kind \in {"object", "sql"},
         NEW h \in Handles, NEW library \in Libraries,
         EntryPoint(kind, h, library),
         kind = "sql" => stack # <<>> /\ stack[1] = Statement(h) /\ enabled[h],
         kind = "object" => h = db,
         h = db \/ h \in On(stack),
         flags' \in [Handles -> SUBSET {"api", "sql"}],
         \A g \in Handles : g # h => flags'[g] = flags[g],
         "sql" \in flags'[h] => "sql" \in flags[h],
         "api" \in flags'[h] => "api" \in flags[h] \/ kind = "object"
  PROVE  ExtensionsInv'
<1> DEFINE frame == [kind |-> kind, on |-> h, library |-> library]
<1>1. /\ Len(stack) < MaxDepth /\ opened[library] < MaxOpened
      /\ opened' = [opened EXCEPT ![library] = @ + 1]
      /\ stack' = <<frame>> \o stack
      /\ UNCHANGED <<db, aExtension, functions, enabled>>
  BY DEF EntryPoint
<1>2. /\ ExtensionsTypeOK /\ CountInv /\ FunctionsInv /\ SqlInv
      /\ LoadingIsEnabledOnRequest /\ Nested(stack, db)
  BY DEF ExtensionsInv
<1>3. /\ stack \in Seq(Frame)
      /\ opened \in [Libraries -> 0 .. MaxOpened]
  BY <1>2 DEF ExtensionsTypeOK
<1>4. frame \in Frame /\ frame.kind = kind /\ frame.on = h /\ frame.library = library
  BY Frames
<1> HIDE DEF frame
<1>5. /\ stack' \in Seq(Frame)
      /\ Len(stack') = Len(stack) + 1 /\ Len(stack) \in Nat
      /\ stack'[1] = frame
      /\ \A i \in DOMAIN stack : i + 1 \in DOMAIN stack' /\ stack'[i + 1] = stack[i]
      /\ \A i \in DOMAIN stack' : i = 1 \/ (i - 1 \in DOMAIN stack /\ stack'[i] = stack[i - 1])
      /\ On(stack') = On(stack) \union {frame.on}
  <2>1. PICK after : after = <<frame>> \o stack
    OBVIOUS
  <2>2. /\ after \in Seq(Frame)
        /\ Len(after) = Len(stack) + 1 /\ Len(stack) \in Nat
        /\ after[1] = frame
        /\ \A i \in DOMAIN stack : i + 1 \in DOMAIN after /\ after[i + 1] = stack[i]
        /\ \A i \in DOMAIN after : i = 1 \/ (i - 1 \in DOMAIN stack /\ after[i] = stack[i - 1])
        /\ On(after) = On(stack) \union {frame.on}
    <3>1. after \in Seq(Frame) /\ after # <<>> /\ after[1] = frame
      BY <2>1, <1>3, <1>4
    <3>2. stack = Tail(after)
      BY <2>1, <1>3, <1>4
    <3>3. Returned(after, stack)
      BY <3>1, <3>2, Popped
    <3>4. Len(stack) \in Nat
      BY <1>3
    <3> QED  BY <3>1, <3>3, <3>4 DEF Returned
  <2>3. stack' = after
    BY <2>1, <1>1
  <2> QED  BY <2>2, <2>3
<1>6. MaxDepth \in Nat /\ MaxOpened \in Nat
  BY BoundAssumption
<1>7. opened' \in [Libraries -> 0 .. MaxOpened]
  BY <1>1, <1>3, <1>6
<1>8. Len(stack') <= MaxDepth
  BY <1>1, <1>5, <1>6
<1>9. \A g \in Handles : g # db' /\ g \notin On(stack') =>
        flags'[g] = {} /\ functions'[g] = {} /\ aExtension'[g] = NotOpened
  BY <1>1, <1>2, <1>4, <1>5 DEF ExtensionsTypeOK
<1>10. ExtensionsTypeOK'
  BY <1>1, <1>2, <1>5, <1>7, <1>8, <1>9 DEF ExtensionsTypeOK
<1>11. CountInv'
  <2>1. SUFFICES ASSUME NEW l \in Libraries
                 PROVE  /\ IsFiniteSet(Opens(aExtension', Handles, l))
                        /\ opened'[l] = Cardinality(Opens(aExtension', Handles, l))
                                          + Cardinality(Running(stack', l))
    BY DEF CountInv, Held, HandlesOf, Opens, Running
  <2>2. /\ IsFiniteSet(Opens(aExtension, Handles, l))
        /\ opened[l] = Cardinality(Opens(aExtension, Handles, l)) + Cardinality(Running(stack, l))
        /\ Cardinality(Opens(aExtension, Handles, l)) \in Nat
        /\ Cardinality(Running(stack, l)) \in Nat
    BY <1>2, CountsAre
  <2>3. Cardinality(Running(stack', l)) =
          Cardinality(Running(stack, l)) + (IF library = l THEN 1 ELSE 0)
    BY <1>1, <1>3, <1>4, RunningOfPush
  <2>4. opened'[l] = opened[l] + (IF library = l THEN 1 ELSE 0)
    BY <1>1, <1>3
  <2> QED  BY <1>1, <2>2, <2>3, <2>4
<1>12. FunctionsInv'
  BY <1>1, <1>2 DEF FunctionsInv
<1>13. Nested(stack, db)'
  <2>1. Nested(<<frame>> \o stack, db)
    BY <1>2, <1>3, <1>4, NestedAfterPush
  <2> QED  BY <1>1, <2>1 DEF Nested
<1>14. SqlInv'
  BY <1>1, <1>2 DEF SqlInv
<1>15. LoadingIsEnabledOnRequest'
  <2>1. \A i \in DOMAIN stack' : stack'[i].kind = "sql" => enabled'[stack'[i].on]
    <3>1. SUFFICES ASSUME NEW i \in DOMAIN stack', stack'[i].kind = "sql"
                   PROVE  enabled'[stack'[i].on]
      OBVIOUS
    <3>2. CASE i = 1
      BY <1>1, <1>4, <1>5, <3>1, <3>2
    <3>3. CASE i # 1
      <4>1. i - 1 \in DOMAIN stack /\ stack'[i] = stack[i - 1]
        BY <1>5, <3>1, <3>3
      <4> QED  BY <1>1, <1>2, <3>1, <4>1 DEF LoadingIsEnabledOnRequest
    <3> QED  BY <3>2, <3>3
  <2>2. \A g \in Handles :
          "api" \in flags'[g] =>
            enabled'[g] \/ \E i \in DOMAIN stack' : stack'[i].kind = "object" /\ stack'[i].on = g
    <3>1. SUFFICES ASSUME NEW g \in Handles, "api" \in flags'[g], ~enabled[g]
                   PROVE  \E i \in DOMAIN stack' : stack'[i].kind = "object" /\ stack'[i].on = g
      BY <1>1
    <3>2. CASE g = h /\ kind = "object"
      <4>1. 1 \in DOMAIN stack'  BY <1>5
      <4> QED  BY <1>4, <1>5, <3>2, <4>1
    <3>3. CASE ~(g = h /\ kind = "object")
      <4>1. "api" \in flags[g]
        BY <3>1, <3>3
      <4>2. PICK i \in DOMAIN stack : stack[i].kind = "object" /\ stack[i].on = g
        BY <1>2, <3>1, <4>1 DEF LoadingIsEnabledOnRequest
      <4>3. i + 1 \in DOMAIN stack' /\ stack'[i + 1] = stack[i]
        BY <1>5
      <4> QED  BY <4>2, <4>3
    <3> QED  BY <3>2, <3>3
  <2> QED  BY <2>1, <2>2 DEF LoadingIsEnabledOnRequest
<1> QED  BY <1>10, <1>11, <1>12, <1>13, <1>14, <1>15 DEF ExtensionsInv

(* load_extension() is called outside of all loading; it only adds "api". *)
LEMMA LoadExtensionKeeps ==
  ASSUME ExtensionsInv, NEW library \in Libraries, load_extension(library)
  PROVE  ExtensionsInv'
<1>1. /\ CallerRuns /\ db # NoHandle
      /\ EntryPoint("object", db, library)
      /\ flags' = [flags EXCEPT ![db] = @ \union {"api"}]
  BY DEF load_extension
<1>2. db \in Handles /\ flags \in [Handles -> SUBSET {"api", "sql"}]
  BY <1>1 DEF ExtensionsInv, ExtensionsTypeOK
<1>3. /\ flags' \in [Handles -> SUBSET {"api", "sql"}]
      /\ \A g \in Handles : g # db => flags'[g] = flags[g]
      /\ flags'[db] = flags[db] \union {"api"}
  BY <1>1, <1>2
<1>4. "sql" \in flags'[db] => "sql" \in flags[db]
  BY <1>3
<1> QED  BY <1>1, <1>2, <1>3, <1>4, EntryPointKeeps

(* SQL loads only where enable_load_extension() let it. *)
LEMMA SqlLoadsKeeps ==
  ASSUME ExtensionsInv, NEW library \in Libraries, SqlLoads(library)
  PROVE  ExtensionsInv'
<1>1. /\ stack # <<>> /\ stack[1].kind = "statement"
      /\ {"api", "sql"} \subseteq flags[stack[1].on]
      /\ EntryPoint("sql", stack[1].on, library)
      /\ flags' = flags
  BY DEF SqlLoads, InStatement, Allowed
<1>2. stack \in Seq(Frame) /\ flags \in [Handles -> SUBSET {"api", "sql"}]
  BY DEF ExtensionsInv, ExtensionsTypeOK
<1>3. 1 \in DOMAIN stack /\ stack[1] \in Frame
  BY <1>1, <1>2
<1>4. stack[1].on \in Handles /\ stack[1] = Statement(stack[1].on)
  BY <1>1, <1>3 DEF Frame, Statement
<1>5. stack[1].on \in On(stack)
  BY <1>3 DEF On
<1>6. enabled[stack[1].on]
  BY <1>1, <1>4 DEF ExtensionsInv, SqlInv
<1> QED  BY <1>1, <1>2, <1>4, <1>5, <1>6, EntryPointKeeps

(* A statement is nobody's entry point; it runs on a connection that is open
   or has calls. *)
LEMMA QueryKeeps ==
  ASSUME ExtensionsInv, Query
  PROVE  ExtensionsInv'
<1>1. stack \in Seq(Frame) /\ ExtensionsTypeOK
  BY DEF ExtensionsInv, ExtensionsTypeOK
<1>2. PICK h \in Handles : /\ stack' = <<Statement(h)>> \o stack
                           /\ h = db \/ h \in On(stack)
  <2>1. CASE CallerRuns
    <3>1. db # NoHandle /\ stack' = <<Statement(db)>> \o stack
      BY <2>1 DEF Query
    <3>2. db \in Handles
      BY <1>1, <3>1 DEF ExtensionsTypeOK
    <3> QED  BY <3>1, <3>2
  <2>2. CASE ~CallerRuns
    <3>1. stack' = <<Statement(stack[1].on)>> \o stack
      BY <2>2 DEF Query
    <3>2. stack # <<>>
      BY <2>2 DEF CallerRuns
    <3>3. 1 \in DOMAIN stack /\ stack[1] \in Frame
      BY <1>1, <3>2
    <3>4. stack[1].on \in On(stack)
      BY <3>3 DEF On
    <3> QED  BY <3>1, <3>3, <3>4, Frames
  <2> QED  BY <2>1, <2>2
<1>3. /\ Len(stack) < MaxDepth
      /\ UNCHANGED <<db, flags, aExtension, functions, opened, enabled>>
  BY DEF Query
<1>4. /\ Statement(h) \in Frame /\ Statement(h).kind = "statement"
      /\ Statement(h).on = h /\ Statement(h).library = NoLibrary
  BY Frames DEF Statement
<1>5. /\ stack' \in Seq(Frame)
      /\ Len(stack') = Len(stack) + 1 /\ Len(stack) \in Nat
      /\ stack'[1] = Statement(h)
      /\ \A i \in DOMAIN stack : i + 1 \in DOMAIN stack' /\ stack'[i + 1] = stack[i]
      /\ \A i \in DOMAIN stack' : i = 1 \/ (i - 1 \in DOMAIN stack /\ stack'[i] = stack[i - 1])
      /\ On(stack') = On(stack) \union {Statement(h).on}
  <2>1. PICK after : after = <<Statement(h)>> \o stack
    OBVIOUS
  <2>2. /\ after \in Seq(Frame)
        /\ Len(after) = Len(stack) + 1 /\ Len(stack) \in Nat
        /\ after[1] = Statement(h)
        /\ \A i \in DOMAIN stack : i + 1 \in DOMAIN after /\ after[i + 1] = stack[i]
        /\ \A i \in DOMAIN after : i = 1 \/ (i - 1 \in DOMAIN stack /\ after[i] = stack[i - 1])
        /\ On(after) = On(stack) \union {Statement(h).on}
    <3>1. after \in Seq(Frame) /\ after # <<>> /\ after[1] = Statement(h)
      BY <2>1, <1>1, <1>4
    <3>2. stack = Tail(after)
      BY <2>1, <1>1, <1>4
    <3>3. Returned(after, stack)
      BY <3>1, <3>2, Popped
    <3>4. Len(stack) \in Nat
      BY <1>1
    <3> QED  BY <3>1, <3>3, <3>4 DEF Returned
  <2>3. stack' = after
    BY <2>1, <1>2
  <2> QED  BY <2>2, <2>3
<1>6. Len(stack') <= MaxDepth
  BY <1>3, <1>5, BoundAssumption
<1>7. ExtensionsTypeOK'
  BY <1>1, <1>3, <1>4, <1>5, <1>6 DEF ExtensionsTypeOK
<1>8. CountInv'
  <2>1. SUFFICES ASSUME NEW l \in Libraries
                 PROVE  /\ IsFiniteSet(Opens(aExtension', Handles, l))
                        /\ opened'[l] = Cardinality(Opens(aExtension', Handles, l))
                                          + Cardinality(Running(stack', l))
    BY DEF CountInv, Held, HandlesOf, Opens, Running
  <2>2. /\ IsFiniteSet(Opens(aExtension, Handles, l))
        /\ opened[l] = Cardinality(Opens(aExtension, Handles, l)) + Cardinality(Running(stack, l))
        /\ Cardinality(Running(stack, l)) \in Nat
    BY <1>1, CountsAre DEF ExtensionsInv
  <2>3. Cardinality(Running(stack', l)) =
          Cardinality(Running(stack, l)) + (IF Statement(h).library = l THEN 1 ELSE 0)
    BY <1>1, <1>2, <1>4, RunningOfPush
  <2>4. Statement(h).library # l
    BY <1>4, StatementsCountNothing
  <2> QED  BY <1>3, <2>2, <2>3, <2>4
<1>9. FunctionsInv' /\ SqlInv'
  BY <1>3 DEF ExtensionsInv, FunctionsInv, SqlInv
<1>10. Nested(stack, db)'
  <2>1. Nested(<<Statement(h)>> \o stack, db)
    BY <1>1, <1>4, NestedAfterPush DEF ExtensionsInv
  <2> QED  BY <1>2, <1>3, <2>1 DEF Nested
<1>11. LoadingIsEnabledOnRequest'
  <2>1. LoadingIsEnabledOnRequest
    BY DEF ExtensionsInv
  <2>2. \A i \in DOMAIN stack' : stack'[i].kind = "sql" => enabled'[stack'[i].on]
    <3>1. SUFFICES ASSUME NEW i \in DOMAIN stack', stack'[i].kind = "sql"
                   PROVE  enabled'[stack'[i].on]
      OBVIOUS
    <3>2. i # 1
      BY <1>4, <1>5, <3>1
    <3>3. i - 1 \in DOMAIN stack /\ stack'[i] = stack[i - 1]
      BY <1>5, <3>1, <3>2
    <3> QED  BY <1>3, <2>1, <3>1, <3>3 DEF LoadingIsEnabledOnRequest
  <2>3. \A g \in Handles :
          "api" \in flags'[g] =>
            enabled'[g] \/ \E i \in DOMAIN stack' : stack'[i].kind = "object" /\ stack'[i].on = g
    <3>1. SUFFICES ASSUME NEW g \in Handles, "api" \in flags[g], ~enabled[g]
                   PROVE  \E i \in DOMAIN stack' : stack'[i].kind = "object" /\ stack'[i].on = g
      BY <1>3
    <3>2. PICK i \in DOMAIN stack : stack[i].kind = "object" /\ stack[i].on = g
      BY <2>1, <3>1 DEF LoadingIsEnabledOnRequest
    <3>3. i + 1 \in DOMAIN stack' /\ stack'[i + 1] = stack[i]
      BY <1>5
    <3> QED  BY <3>2, <3>3
  <2> QED  BY <2>2, <2>3 DEF LoadingIsEnabledOnRequest
<1> QED  BY <1>7, <1>8, <1>9, <1>10, <1>11 DEF ExtensionsInv

(* A statement that ends, and with it perhaps the last that needs its
   connection, or an error in one: calls is what goes on, and is what the
   counts agree with. *)
LEMMA ReturnKeeps ==
  ASSUME ExtensionsInv, NEW calls \in Seq(Frame),
         Len(calls) <= MaxDepth, Nested(calls, db),
         NEW counts \in [Libraries -> 0 .. MaxOpened],
         \A l \in Libraries :
           counts[l] = Cardinality(HandlesOf(Handles, l)) + Cardinality(Running(calls, l)),
         \A i \in DOMAIN calls : \E j \in DOMAIN stack : stack[j] = calls[i],
         \A j \in DOMAIN stack : stack[j].kind = "object" =>
           \E i \in DOMAIN calls : calls[i] = stack[j],
         Free(db, calls, counts), stack' = calls, db' = db
  PROVE  ExtensionsInv'
<1>1. /\ ExtensionsTypeOK /\ CountInv /\ FunctionsInv /\ SqlInv
      /\ LoadingIsEnabledOnRequest
  BY DEF ExtensionsInv
<1>2. \A l \in Libraries : IsFiniteSet(HandlesOf(Handles, l))
  BY <1>1 DEF CountInv
<1>3. /\ flags' \in [Handles -> SUBSET {"api", "sql"}]
      /\ aExtension' \in [Handles -> [Libraries -> 0 .. MaxOpened]]
      /\ functions' \in [Handles -> SUBSET Libraries]
      /\ opened' \in [Libraries -> 0 .. MaxOpened]
      /\ enabled' \in [Handles -> BOOLEAN]
      /\ \A h \in Handles : h # db /\ h \notin On(calls) =>
           flags'[h] = {} /\ functions'[h] = {} /\ aExtension'[h] = NotOpened
      /\ \A l \in Libraries :
           /\ IsFiniteSet(Opens(aExtension', Handles, l))
           /\ opened'[l] = Cardinality(Opens(aExtension', Handles, l))
                             + Cardinality(Running(calls, l))
      /\ FunctionsInv' /\ SqlInv'
      /\ \A h \in Handles :
           \/ flags'[h] = flags[h] /\ enabled'[h] = enabled[h]
           \/ flags'[h] = {} /\ h \notin On(calls)
  BY <1>1, <1>2, FreeFrees
<1>4. ExtensionsTypeOK'
  BY <1>1, <1>3 DEF ExtensionsTypeOK
<1>5. CountInv'
  BY <1>3 DEF CountInv, Held, HandlesOf, Opens, Running
<1>6. Nested(stack, db)'
  BY DEF Nested
<1>7. LoadingIsEnabledOnRequest'
  <2>1. \A i \in DOMAIN calls : calls[i].kind = "sql" => enabled'[calls[i].on]
    <3>1. SUFFICES ASSUME NEW i \in DOMAIN calls, calls[i].kind = "sql"
                   PROVE  enabled'[calls[i].on]
      OBVIOUS
    <3>2. PICK j \in DOMAIN stack : stack[j] = calls[i]
      BY <3>1
    <3>3. enabled[calls[i].on]
      BY <1>1, <3>1, <3>2 DEF LoadingIsEnabledOnRequest
    <3>4. calls[i].on \in Handles /\ calls[i].on \in On(calls)
      BY Frames DEF On
    <3> QED  BY <1>3, <3>3, <3>4
  <2>2. \A g \in Handles :
          "api" \in flags'[g] =>
            enabled'[g] \/ \E i \in DOMAIN calls : calls[i].kind = "object" /\ calls[i].on = g
    <3>1. SUFFICES ASSUME NEW g \in Handles, "api" \in flags'[g], ~enabled'[g]
                   PROVE  \E i \in DOMAIN calls : calls[i].kind = "object" /\ calls[i].on = g
      OBVIOUS
    <3>2. flags'[g] = flags[g] /\ enabled'[g] = enabled[g]
      BY <1>3, <3>1
    <3>3. PICK j \in DOMAIN stack : stack[j].kind = "object" /\ stack[j].on = g
      BY <1>1, <3>1, <3>2 DEF LoadingIsEnabledOnRequest
    <3> QED  BY <3>3
  <2> QED  BY <2>1, <2>2 DEF LoadingIsEnabledOnRequest
<1> QED  BY <1>3, <1>4, <1>5, <1>6, <1>7 DEF ExtensionsInv

(* The statement in progress has no library. *)
LEMMA StatementEndsKeeps ==
  ASSUME ExtensionsInv, StatementEnds
  PROVE  ExtensionsInv'
<1>1. PICK calls : calls = Tail(stack)
  OBVIOUS
<1>2. /\ stack # <<>> /\ stack[1].kind = "statement"
      /\ stack' = calls /\ Free(db, calls, opened) /\ db' = db
  BY <1>1 DEF StatementEnds, InStatement
<1>3. /\ stack \in Seq(Frame) /\ Len(stack) <= MaxDepth
      /\ opened \in [Libraries -> 0 .. MaxOpened]
      /\ ExtensionsTypeOK /\ CountInv
  BY DEF ExtensionsInv, ExtensionsTypeOK
<1>4. /\ calls \in Seq(Frame)
      /\ 1 \in DOMAIN stack /\ stack[1] \in Frame
      /\ Len(calls) = Len(stack) - 1 /\ Len(stack) \in Nat
      /\ \A i \in DOMAIN calls : i + 1 \in DOMAIN stack /\ stack[i + 1] = calls[i]
      /\ \A i \in DOMAIN stack : i = 1 \/ (i - 1 \in DOMAIN calls /\ stack[i] = calls[i - 1])
  <2>1. Returned(stack, calls)
    BY <1>1, <1>2, <1>3, Popped
  <2> QED  BY <2>1 DEF Returned
<1>5. Len(calls) <= MaxDepth
  BY <1>3, <1>4, BoundAssumption
<1>6. Nested(calls, db)
  BY <1>1, <1>2, <1>3, NestedAfterPop DEF ExtensionsInv
<1>7. \A l \in Libraries :
        opened[l] = Cardinality(HandlesOf(Handles, l)) + Cardinality(Running(calls, l))
  <2> TAKE l \in Libraries
  <2>1. Cardinality(Running(stack, l)) =
          Cardinality(Running(calls, l)) + (IF stack[1].library = l THEN 1 ELSE 0)
    BY <1>1, <1>2, <1>3, RunningOfTail
  <2>2. stack[1].library # l
    BY <1>2, <1>4, StatementsCountNothing
  <2>3. Cardinality(Running(calls, l)) \in Nat
    BY <1>4, RunningIsFinite
  <2>4. opened[l] = Cardinality(Opens(aExtension, Handles, l)) + Cardinality(Running(stack, l))
    BY <1>3, CountsAre
  <2> QED  BY <2>1, <2>2, <2>3, <2>4, HandlesAreOpens
<1>8. \A i \in DOMAIN calls : \E j \in DOMAIN stack : stack[j] = calls[i]
  BY <1>4
<1>9. \A j \in DOMAIN stack : stack[j].kind = "object" =>
        \E i \in DOMAIN calls : calls[i] = stack[j]
  BY <1>2, <1>4
<1> QED  BY <1>2, <1>3, <1>4, <1>5, <1>6, <1>7, <1>8, <1>9, ReturnKeeps

(* An entry point that succeeds turns its run into a handle of its connection,
   which is open or has the statement that loads. *)
LEMMA EntryPointSucceedsKeeps ==
  ASSUME ExtensionsInv, EntryPointSucceeds
  PROVE  ExtensionsInv'
<1>1. PICK frame : frame = stack[1]
  OBVIOUS
<1>2. /\ stack # <<>> /\ frame.kind # "statement"
      /\ aExtension' = [aExtension EXCEPT ![frame.on][frame.library] = @ + 1]
      /\ functions' = [functions EXCEPT ![frame.on] = @ \union {frame.library}]
      /\ flags' = [flags EXCEPT ![frame.on] = Disabled(frame, TRUE)]
      /\ stack' = Tail(stack)
      /\ UNCHANGED <<db, opened, enabled>>
  BY <1>1 DEF EntryPointSucceeds, InEntryPoint
<1>3. /\ ExtensionsTypeOK /\ CountInv /\ FunctionsInv /\ SqlInv
      /\ LoadingIsEnabledOnRequest /\ Nested(stack, db)
  BY DEF ExtensionsInv
<1>4. /\ stack \in Seq(Frame) /\ Len(stack) <= MaxDepth
      /\ flags \in [Handles -> SUBSET {"api", "sql"}]
      /\ aExtension \in [Handles -> [Libraries -> 0 .. MaxOpened]]
      /\ functions \in [Handles -> SUBSET Libraries]
      /\ opened \in [Libraries -> 0 .. MaxOpened]
      /\ MaxOpened \in Nat /\ MaxDepth \in Nat
  BY <1>3, BoundAssumption DEF ExtensionsTypeOK
<1>5. PICK calls : calls = Tail(stack)
  OBVIOUS
<1>6. /\ calls \in Seq(Frame)
      /\ 1 \in DOMAIN stack /\ frame \in Frame
      /\ Len(calls) = Len(stack) - 1 /\ Len(stack) \in Nat
      /\ \A i \in DOMAIN calls : i + 1 \in DOMAIN stack /\ stack[i + 1] = calls[i]
      /\ \A i \in DOMAIN stack : i = 1 \/ (i - 1 \in DOMAIN calls /\ stack[i] = calls[i - 1])
      /\ On(stack) = On(calls) \union {frame.on}
  <2>1. Returned(stack, calls)
    BY <1>2, <1>4, <1>5, Popped
  <2> QED  BY <1>1, <2>1 DEF Returned
<1>7. frame.on \in Handles /\ frame.library \in Libraries /\ frame.kind \in {"object", "sql"}
  BY <1>2, <1>6, Frames
<1>8. frame.on = db \/ frame.on \in On(calls)
  <2>1. CASE frame.kind = "object"
    BY <1>1, <1>3, <1>6, <2>1 DEF Nested
  <2>2. CASE frame.kind = "sql"
    <3>1. 1 + 1 \in DOMAIN stack /\ stack[1 + 1] = Statement(frame.on)
      BY <1>1, <1>3, <1>6, <2>2 DEF Nested
    <3>2. 1 \in DOMAIN calls /\ calls[1] = Statement(frame.on)
      BY <1>6, <3>1
    <3>3. calls[1].on = frame.on
      BY <3>2 DEF Statement
    <3> QED  BY <3>2, <3>3 DEF On
  <2> QED  BY <1>7, <2>1, <2>2
<1>9. \A l \in Libraries :
        /\ IsFiniteSet(Opens(aExtension, Handles, l))
        /\ opened[l] = Cardinality(Opens(aExtension, Handles, l)) + Cardinality(Running(stack, l))
        /\ Cardinality(Opens(aExtension, Handles, l)) \in Nat
        /\ Cardinality(Running(calls, l)) \in Nat
        /\ Cardinality(Running(stack, l)) =
             Cardinality(Running(calls, l)) + (IF frame.library = l THEN 1 ELSE 0)
  <2> TAKE l \in Libraries
  <2>1. Cardinality(Running(stack, l)) =
          Cardinality(Running(calls, l)) + (IF stack[1].library = l THEN 1 ELSE 0)
    BY <1>2, <1>4, <1>5, RunningOfTail
  <2>2. Cardinality(Running(calls, l)) \in Nat
    BY <1>6, RunningIsFinite
  <2> QED  BY <1>1, <1>3, <2>1, <2>2, CountsAre
<1>10. aExtension[frame.on][frame.library] < MaxOpened
  <2>1. aExtension[frame.on][frame.library] <=
          Cardinality(Opens(aExtension, Handles, frame.library))
    BY <1>4, <1>7, <1>9, HandlesOfOne
  <2>2. opened[frame.library] \in 0 .. MaxOpened
    BY <1>4, <1>7
  <2>3. aExtension[frame.on][frame.library] \in 0 .. MaxOpened
    BY <1>4, <1>7
  <2> QED  BY <1>4, <1>7, <1>9, <2>1, <2>2, <2>3
<1>11. CountInv'
  <2>1. SUFFICES ASSUME NEW l \in Libraries
                 PROVE  /\ IsFiniteSet(Opens(aExtension', Handles, l))
                        /\ opened'[l] = Cardinality(Opens(aExtension', Handles, l))
                                          + Cardinality(Running(calls, l))
    BY <1>2, <1>5 DEF CountInv, Held, HandlesOf, Opens, Running
  <2>2. /\ IsFiniteSet(Opens(aExtension', Handles, l))
        /\ Cardinality(Opens(aExtension', Handles, l)) =
             Cardinality(Opens(aExtension, Handles, l)) + (IF l = frame.library THEN 1 ELSE 0)
    <3>1. /\ aExtension \in [Handles -> [Libraries -> 0 .. MaxOpened]]
          /\ frame.on \in Handles /\ frame.library \in Libraries
          /\ aExtension[frame.on][frame.library] < MaxOpened
          /\ IsFiniteSet(Opens(aExtension, Handles, l))
      BY <1>4, <1>7, <1>9, <1>10
    <3>2. \A h \in Handles :
            aExtension'[h][l] =
              IF h = frame.on /\ l = frame.library THEN aExtension[h][l] + 1 ELSE aExtension[h][l]
      BY <1>2, <1>4, <1>7
    <3> QED  BY <3>1, <3>2, HandlesOfOpening
  <2> QED  BY <1>2, <1>9, <2>2
<1>12. aExtension' \in [Handles -> [Libraries -> 0 .. MaxOpened]]
  <2>1. aExtension[frame.on][frame.library] + 1 \in 0 .. MaxOpened
    BY <1>4, <1>7, <1>10
  <2> QED  BY <1>2, <1>4, <1>7, <2>1
<1>13. Disabled(frame, TRUE) \subseteq flags[frame.on]
  BY DEF Disabled
<1>14. flags' \in [Handles -> SUBSET {"api", "sql"}]
  BY <1>2, <1>4, <1>7, <1>13
<1>15. functions' \in [Handles -> SUBSET Libraries]
  BY <1>2, <1>4, <1>7
<1>16. \A h \in Handles : h # frame.on =>
         flags'[h] = flags[h] /\ functions'[h] = functions[h] /\ aExtension'[h] = aExtension[h]
  BY <1>2, <1>4, <1>7
<1>17. ExtensionsTypeOK'
  <2>1. Len(calls) <= MaxDepth
    BY <1>4, <1>6
  <2>2. \A h \in Handles : h # db /\ h \notin On(calls) =>
          flags'[h] = {} /\ functions'[h] = {} /\ aExtension'[h] = NotOpened
    BY <1>3, <1>6, <1>8, <1>16 DEF ExtensionsTypeOK
  <2> QED  BY <1>2, <1>3, <1>5, <1>6, <1>12, <1>14, <1>15, <2>1, <2>2 DEF ExtensionsTypeOK
<1>18. FunctionsInv'
  <2>1. SUFFICES ASSUME NEW h \in Handles, NEW l \in functions'[h]
                 PROVE  aExtension'[h][l] > 0
    BY DEF FunctionsInv
  <2>2. l \in Libraries /\ aExtension[h][l] \in Nat
    BY <1>4, <1>15, <2>1
  <2>3. aExtension'[h][l] =
          IF h = frame.on /\ l = frame.library THEN aExtension[h][l] + 1 ELSE aExtension[h][l]
    BY <1>2, <1>4, <1>7, <2>2
  <2>4. CASE h = frame.on /\ l = frame.library
    BY <2>2, <2>3, <2>4
  <2>5. CASE ~(h = frame.on /\ l = frame.library)
    <3>1. l \in functions[h]
      BY <1>2, <1>4, <1>7, <2>1, <2>5
    <3> QED  BY <1>3, <2>3, <2>5, <3>1 DEF FunctionsInv
  <2> QED  BY <2>4, <2>5
<1>19. Nested(stack, db)'
  <2>1. Nested(calls, db)
    BY <1>2, <1>3, <1>4, <1>5, NestedAfterPop
  <2> QED  BY <1>2, <1>5, <2>1 DEF Nested
<1>20. flags'[frame.on] = Disabled(frame, TRUE)
  BY <1>2, <1>4, <1>7
<1>21. SqlInv'
  BY <1>2, <1>3, <1>13, <1>16, <1>20 DEF SqlInv
<1>22. LoadingIsEnabledOnRequest'
  <2>1. \A i \in DOMAIN calls : calls[i].kind = "sql" => enabled[calls[i].on]
    BY <1>3, <1>6 DEF LoadingIsEnabledOnRequest
  <2>2. \A h \in Handles :
          "api" \in flags'[h] =>
            enabled[h] \/ \E i \in DOMAIN calls : calls[i].kind = "object" /\ calls[i].on = h
    <3>1. SUFFICES ASSUME NEW h \in Handles, "api" \in flags'[h], ~enabled[h]
                   PROVE  \E i \in DOMAIN calls : calls[i].kind = "object" /\ calls[i].on = h
      OBVIOUS
    <3>2. "api" \in flags[h]
      BY <1>13, <1>16, <1>20, <3>1
    <3>3. PICK j \in DOMAIN stack : stack[j].kind = "object" /\ stack[j].on = h
      BY <1>3, <3>1, <3>2 DEF LoadingIsEnabledOnRequest
    <3>4. j # 1
      BY <1>1, <1>20, <3>1, <3>3 DEF Disabled
    <3> QED  BY <1>6, <3>3, <3>4
  <2> QED  BY <1>2, <1>5, <2>1, <2>2 DEF LoadingIsEnabledOnRequest
<1> QED  BY <1>11, <1>17, <1>18, <1>19, <1>21, <1>22 DEF ExtensionsInv

(* An entry point that fails leaves nothing of its run; in SQL, its statement
   ends with it. *)
LEMMA EntryPointFailsKeeps ==
  ASSUME ExtensionsInv, EntryPointFails
  PROVE  ExtensionsInv'
<1>1. PICK frame : frame = stack[1]
  OBVIOUS
<1>2. stack # <<>> /\ frame.kind # "statement" /\ db' = db
  BY <1>1 DEF EntryPointFails, InEntryPoint
<1>3. /\ ExtensionsTypeOK /\ CountInv /\ FunctionsInv /\ SqlInv
      /\ LoadingIsEnabledOnRequest /\ Nested(stack, db)
  BY DEF ExtensionsInv
<1>4. /\ stack \in Seq(Frame) /\ Len(stack) <= MaxDepth
      /\ flags \in [Handles -> SUBSET {"api", "sql"}]
      /\ opened \in [Libraries -> 0 .. MaxOpened]
      /\ MaxOpened \in Nat /\ MaxDepth \in Nat
  BY <1>3, BoundAssumption DEF ExtensionsTypeOK
<1>5. PICK calls : calls = Tail(stack)
  OBVIOUS
<1>6. Returned(stack, calls)
  BY <1>2, <1>4, <1>5, Popped
<1>7. calls \in Seq(Frame) /\ 1 \in DOMAIN stack /\ frame \in Frame
  BY <1>1, <1>6 DEF Returned
<1>8. frame.on \in Handles /\ frame.library \in Libraries /\ frame.kind \in {"object", "sql"}
  BY <1>2, <1>7, Frames
<1>9. Nested(calls, db) /\ Len(calls) <= MaxDepth
  <2>1. Nested(calls, db)
    BY <1>2, <1>3, <1>4, <1>5, NestedAfterPop
  <2> QED  BY <2>1, <1>4, <1>6 DEF Returned
<1>10. PICK counts : counts = ClosedOnError(frame.library)
  OBVIOUS
<1>11. counts = [opened EXCEPT ![frame.library] = @ - 1]
  BY <1>10 DEF ClosedOnError
<1>12. \A l \in Libraries :
         /\ IsFiniteSet(Opens(aExtension, Handles, l))
         /\ Cardinality(Opens(aExtension, Handles, l)) \in Nat
         /\ Cardinality(Running(calls, l)) \in Nat
         /\ counts[l] = Cardinality(Opens(aExtension, Handles, l))
                          + Cardinality(Running(calls, l))
         /\ counts[l] \in 0 .. MaxOpened
  <2> TAKE l \in Libraries
  <2>1. Cardinality(Running(stack, l)) =
          Cardinality(Running(calls, l)) + (IF stack[1].library = l THEN 1 ELSE 0)
    BY <1>2, <1>4, <1>5, RunningOfTail
  <2>2. Cardinality(Running(calls, l)) \in Nat
    BY <1>7, RunningIsFinite
  <2>3. /\ IsFiniteSet(Opens(aExtension, Handles, l))
        /\ opened[l] = Cardinality(Opens(aExtension, Handles, l)) + Cardinality(Running(stack, l))
        /\ Cardinality(Opens(aExtension, Handles, l)) \in Nat
    BY <1>3, CountsAre
  <2>4. counts[l] = opened[l] - (IF frame.library = l THEN 1 ELSE 0) /\ opened[l] \in 0 .. MaxOpened
    BY <1>4, <1>8, <1>11
  <2>5. counts[l] = Cardinality(Opens(aExtension, Handles, l)) + Cardinality(Running(calls, l))
    BY <1>1, <2>1, <2>2, <2>3, <2>4
  <2>6. counts[l] \in 0 .. MaxOpened
    BY <1>4, <2>2, <2>3, <2>4, <2>5
  <2> QED  BY <2>2, <2>3, <2>5, <2>6
<1>13. counts \in [Libraries -> 0 .. MaxOpened]
  BY <1>4, <1>11, <1>12
<1>14. CASE frame.kind = "object"
  <2>1. /\ opened' = counts
        /\ flags' = [flags EXCEPT ![frame.on] = Disabled(frame, FALSE)]
        /\ stack' = calls
        /\ UNCHANGED <<aExtension, functions, enabled>>
    BY <1>1, <1>5, <1>10, <1>14 DEF EntryPointFails
  <2>2. frame.on = db
    BY <1>1, <1>3, <1>7, <1>14 DEF Nested
  <2>3. Disabled(frame, FALSE) = flags[frame.on] \ {"api"}
    BY <1>14 DEF Disabled
  <2>4. /\ flags' \in [Handles -> SUBSET {"api", "sql"}]
        /\ flags'[frame.on] = flags[frame.on] \ {"api"}
        /\ \A h \in Handles : h # frame.on => flags'[h] = flags[h]
    BY <1>4, <1>8, <2>1, <2>3
  <2>5. ExtensionsTypeOK'
    <3>1. \A h \in Handles : h # db /\ h \notin On(calls) =>
            flags'[h] = {} /\ functions[h] = {} /\ aExtension[h] = NotOpened
      BY <1>1, <1>3, <1>6, <2>2, <2>4 DEF ExtensionsTypeOK, Returned
    <3> QED  BY <1>2, <1>3, <1>7, <1>9, <1>13, <2>1, <2>4, <3>1 DEF ExtensionsTypeOK
  <2>6. CountInv'
    BY <1>12, <2>1 DEF CountInv, Held, HandlesOf, Opens, Running
  <2>7. FunctionsInv'
    BY <1>3, <2>1 DEF FunctionsInv
  <2>8. Nested(stack, db)'
    BY <1>2, <1>9, <2>1 DEF Nested
  <2>9. SqlInv'
    BY <1>3, <2>1, <2>4 DEF SqlInv
  <2>10. LoadingIsEnabledOnRequest'
    <3>1. \A i \in DOMAIN calls : calls[i].kind = "sql" => enabled[calls[i].on]
      BY <1>3, <1>6 DEF LoadingIsEnabledOnRequest, Returned
    <3>2. \A h \in Handles :
            "api" \in flags'[h] =>
              enabled[h] \/ \E i \in DOMAIN calls : calls[i].kind = "object" /\ calls[i].on = h
      <4>1. SUFFICES ASSUME NEW h \in Handles, "api" \in flags'[h], ~enabled[h]
                     PROVE  \E i \in DOMAIN calls : calls[i].kind = "object" /\ calls[i].on = h
        OBVIOUS
      <4>2. h # frame.on /\ "api" \in flags[h]
        BY <2>4, <4>1
      <4>3. PICK j \in DOMAIN stack : stack[j].kind = "object" /\ stack[j].on = h
        BY <1>3, <4>1, <4>2 DEF LoadingIsEnabledOnRequest
      <4> QED  BY <1>1, <1>6, <4>2, <4>3 DEF Returned
    <3> QED  BY <2>1, <3>1, <3>2 DEF LoadingIsEnabledOnRequest
  <2> QED  BY <2>5, <2>6, <2>7, <2>8, <2>9, <2>10 DEF ExtensionsInv
<1>15. CASE frame.kind = "sql"
  <2>1. PICK rest : rest = Tail(calls)
    OBVIOUS
  <2>2. stack' = rest /\ Free(db, rest, counts)
    BY <1>1, <1>5, <1>10, <1>15, <2>1 DEF EntryPointFails
  <2>3. 1 \in DOMAIN calls /\ calls[1] = Statement(frame.on)
    <3>1. 1 + 1 \in DOMAIN stack /\ stack[1 + 1] = Statement(frame.on)
      BY <1>1, <1>3, <1>7, <1>15 DEF Nested
    <3> QED  BY <1>6, <3>1 DEF Returned
  <2>4. calls # <<>> /\ calls[1].kind = "statement" /\ calls[1].library = NoLibrary
    BY <2>3 DEF Statement
  <2>5. Returned(calls, rest)
    BY <1>7, <2>1, <2>4, Popped
  <2>6. rest \in Seq(Frame) /\ Len(rest) <= MaxDepth /\ Nested(rest, db)
    <3>1. Nested(rest, db)
      BY <1>7, <1>9, <2>1, <2>4, NestedAfterPop
    <3> QED  BY <1>4, <1>9, <2>5, <3>1 DEF Returned
  <2>7. \A l \in Libraries :
          counts[l] = Cardinality(HandlesOf(Handles, l)) + Cardinality(Running(rest, l))
    <3> TAKE l \in Libraries
    <3>1. Cardinality(Running(calls, l)) =
            Cardinality(Running(rest, l)) + (IF calls[1].library = l THEN 1 ELSE 0)
      BY <1>7, <2>1, <2>4, RunningOfTail
    <3>2. Cardinality(Running(rest, l)) \in Nat
      BY <2>6, RunningIsFinite
    <3>3. calls[1].library # l
      BY <2>4, NamesAssumption
    <3> QED  BY <1>12, <3>1, <3>2, <3>3, HandlesAreOpens
  <2>8. \A i \in DOMAIN rest : \E j \in DOMAIN stack : stack[j] = rest[i]
    <3> TAKE i \in DOMAIN rest
    <3>1. i + 1 \in DOMAIN calls /\ calls[i + 1] = rest[i]
      BY <2>5 DEF Returned
    <3>2. i + 1 + 1 \in DOMAIN stack /\ stack[i + 1 + 1] = calls[i + 1]
      BY <1>6, <3>1 DEF Returned
    <3> QED  BY <3>1, <3>2
  <2>9. \A j \in DOMAIN stack : stack[j].kind = "object" =>
          \E i \in DOMAIN rest : rest[i] = stack[j]
    <3>1. SUFFICES ASSUME NEW j \in DOMAIN stack, stack[j].kind = "object"
                   PROVE  \E i \in DOMAIN rest : rest[i] = stack[j]
      OBVIOUS
    <3>2. j - 1 \in DOMAIN calls /\ stack[j] = calls[j - 1]
      BY <1>1, <1>6, <1>15, <3>1 DEF Returned
    <3>3. j - 1 - 1 \in DOMAIN rest /\ calls[j - 1] = rest[j - 1 - 1]
      BY <2>4, <2>5, <3>1, <3>2 DEF Returned
    <3> QED  BY <3>2, <3>3
  <2> QED  BY <1>2, <1>13, <2>2, <2>6, <2>7, <2>8, <2>9, ReturnKeeps
<1> QED  BY <1>8, <1>14, <1>15

-----------------------------------------------------------------------------
(* The theorems. *)

(* At the start there is no call, and nothing is open. *)
LEMMA ExtensionsInitInv == ExtensionsInit => ExtensionsInv
<1> SUFFICES ASSUME ExtensionsInit PROVE ExtensionsInv
  OBVIOUS
<1>1. /\ db = NoHandle /\ stack = <<>>
      /\ flags = [h \in Handles |-> {}] /\ enabled = [h \in Handles |-> FALSE]
      /\ aExtension = [h \in Handles |-> NotOpened] /\ opened = NotOpened
      /\ functions = [h \in Handles |-> {}]
  BY DEF ExtensionsInit
<1>2. MaxOpened \in Nat /\ MaxDepth \in Nat
  BY BoundAssumption
<1>3. NotOpened \in [Libraries -> 0 .. MaxOpened]
  BY <1>2 DEF NotOpened
<1>4. <<>> \in Seq(Frame) /\ Len(<<>>) = 0
  OBVIOUS
<1>5. ExtensionsTypeOK
  BY <1>1, <1>2, <1>3, <1>4 DEF ExtensionsTypeOK
<1>6. CountInv
  <2> SUFFICES ASSUME NEW l \in Libraries
               PROVE  IsFiniteSet(HandlesOf(Handles, l)) /\ opened[l] = Held(l)
    BY DEF CountInv
  <2>1. HandlesOf(Handles, l) = {}
    <3>1. \A h \in Handles : aExtension[h][l] = 0
      BY <1>1 DEF NotOpened
    <3>2. \A opening \in Handles \X (1 .. MaxOpened) :
            opening[1] \in Handles /\ opening[2] \in 1 .. MaxOpened
      OBVIOUS
    <3> QED  BY <1>2, <3>1, <3>2 DEF HandlesOf
  <2>2. {i \in DOMAIN stack : stack[i].library = l} = {}
    BY <1>1
  <2>3. opened[l] = 0
    BY <1>1 DEF NotOpened
  <2> QED  BY <2>1, <2>2, <2>3, FS_EmptySet DEF Held
<1>7. FunctionsInv /\ SqlInv /\ Nested(stack, db) /\ LoadingIsEnabledOnRequest
  BY <1>1 DEF FunctionsInv, SqlInv, Nested, LoadingIsEnabledOnRequest
<1> QED  BY <1>5, <1>6, <1>7 DEF ExtensionsInv

(* No step breaks the invariant. *)
LEMMA ExtensionsNextInv == ExtensionsInv /\ [ExtensionsNext]_extensionsVars => ExtensionsInv'
<1> SUFFICES ASSUME ExtensionsInv, [ExtensionsNext]_extensionsVars PROVE ExtensionsInv'
  OBVIOUS
<1>1. CASE open_db  BY <1>1, OpenDbKeeps
<1>2. CASE close_db  BY <1>2, CloseDbKeeps
<1>3. CASE Query  BY <1>3, QueryKeeps
<1>4. CASE StatementEnds  BY <1>4, StatementEndsKeeps
<1>5. CASE \E onoff \in BOOLEAN : enable_load_extension(onoff)
  BY <1>5, EnableLoadExtensionKeeps
<1>6. CASE \E l \in Libraries : load_extension(l) \/ SqlLoads(l)
  BY <1>6, LoadExtensionKeeps, SqlLoadsKeeps
<1>7. CASE EntryPointSucceeds  BY <1>7, EntryPointSucceedsKeeps
<1>8. CASE EntryPointFails  BY <1>8, EntryPointFailsKeeps
<1>9. CASE UNCHANGED extensionsVars
  <2>1. /\ UNCHANGED <<db, flags, aExtension, functions>>
        /\ UNCHANGED <<opened, stack, enabled>>
    BY <1>9 DEF extensionsVars
  <2>2. ExtensionsTypeOK'
    BY <2>1 DEF ExtensionsInv, ExtensionsTypeOK
  <2>3. CountInv'
    BY <2>1 DEF ExtensionsInv, CountInv, Held, HandlesOf
  <2>4. FunctionsInv' /\ SqlInv'
    BY <2>1 DEF ExtensionsInv, FunctionsInv, SqlInv
  <2>5. Nested(stack, db)' /\ LoadingIsEnabledOnRequest'
    BY <2>1 DEF ExtensionsInv, Nested, LoadingIsEnabledOnRequest
  <2> QED  BY <2>2, <2>3, <2>4, <2>5 DEF ExtensionsInv
<1> QED  BY <1>1, <1>2, <1>3, <1>4, <1>5, <1>6, <1>7, <1>8, <1>9 DEF ExtensionsNext

(* Whatever is loaded, fails, is nested and is closed, in any order and on any
   connections: dlopen()'s counts are those of the connections and of the
   entry points that run. *)
THEOREM ExtensionsInvariant == ExtensionsSpec => []ExtensionsInv
BY ExtensionsInitInv, ExtensionsNextInv, PTL DEF ExtensionsSpec

(* A function that a connection can call is of a library that is mapped. *)
LEMMA WhatIsCalledIsMapped ==
  ASSUME ExtensionsInv
  PROVE  FunctionsAreMapped
<1> SUFFICES ASSUME NEW h \in Handles, NEW l \in functions[h]
             PROVE  opened[l] > 0
  BY DEF FunctionsAreMapped
<1>1. ExtensionsTypeOK /\ CountInv /\ aExtension[h][l] > 0
  BY DEF ExtensionsInv, FunctionsInv
<1>2. /\ l \in Libraries
      /\ aExtension \in [Handles -> [Libraries -> 0 .. MaxOpened]]
  BY <1>1 DEF ExtensionsTypeOK
<1>3. aExtension[h][l] \in Nat
  BY <1>2
<1>4. /\ IsFiniteSet(Opens(aExtension, Handles, l))
      /\ opened[l] = Cardinality(Opens(aExtension, Handles, l)) + Cardinality(Running(stack, l))
      /\ Cardinality(Opens(aExtension, Handles, l)) \in Nat
      /\ Cardinality(Running(stack, l)) \in Nat
  BY <1>1, <1>2, CountsAre
<1>5. aExtension[h][l] <= Cardinality(Opens(aExtension, Handles, l))
  BY <1>2, <1>4, HandlesOfOne
<1> QED  BY <1>1, <1>3, <1>4, <1>5

(* A library is mapped exactly as long as something of it can be called:
   LibrariesAreCounted, of any connections and libraries. *)
THEOREM LibrariesStayCounted == ExtensionsSpec => []LibrariesAreCounted
<1>1. ExtensionsInv => LibrariesAreCounted
  BY WhatIsCalledIsMapped DEF ExtensionsInv, CountInv, LibrariesAreCounted
<1> QED  BY <1>1, ExtensionsInvariant, PTL

(* SQL loads on request only, and load_extension() leaves nothing enabled:
   LoadingIsEnabledOnRequest, of any connections and nesting. *)
THEOREM LoadingIsOnRequest == ExtensionsSpec => []LoadingIsEnabledOnRequest
<1>1. ExtensionsInv => LoadingIsEnabledOnRequest
  BY DEF ExtensionsInv
<1> QED  BY <1>1, ExtensionsInvariant, PTL
=============================================================================
