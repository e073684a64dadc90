---------------------------- MODULE ContentProofs ----------------------------
(***************************************************************************)
(* Theorems about the components that work on the content of documents:    *)
(* the indexing of workbooks, the structure stores, the deletion by filter *)
(* and the extraction of a text, each for any values of its constants.     *)
(***************************************************************************)
EXTENDS Spreadsheet, Structure, Removal, Extraction, TLAPS, FiniteSetTheorems

-----------------------------------------------------------------------------
(* The difference of a workbook and the latest version.                      *)

\* What a run has to do lies in the difference of the workbook and the manifest.
LEMMA Difference ==
  ASSUME manifest \in Book, NEW book \in Book, NEW mode \in Modes
  PROVE  /\ ToDelete(book, mode) \subseteq Vanished(book)
         /\ ToUpsert(book, mode) \subseteq Held(book)
         /\ \A o \in Vanished(book) : book[o] = Absent
         /\ \A o \in Objects \ Differing(book) : manifest[o] = book[o]
         /\ mode \in {"full", "incremental"} =>
              \A o \in Objects \ (ToDelete(book, mode) \cup ToUpsert(book, mode)) :
                manifest[o] = book[o]
  BY DEF Book, Modes, ToDelete, ToUpsert, Vanished, Changed, Held, Differing

\* A batch of a run that has something to upsert holds something.
LEMMA BatchNotEmpty ==
  ASSUME run \in SheetRuns, run.upsert # {}, NEW batch \in NextBatches
  PROVE  batch \in SUBSET run.upsert /\ batch # {}
<1>1. IsFiniteSet(run.upsert)
  BY SpreadsheetConstants, FS_Subset DEF SheetRuns
<1>2. Cardinality(run.upsert) # 0
  BY <1>1, FS_EmptySet
<1>3. Cardinality(batch) # 0
  BY <1>2, SpreadsheetConstants DEF NextBatches
<1> QED
  BY <1>3, FS_EmptySet DEF NextBatches

-----------------------------------------------------------------------------
(* A run in progress: what it has done already, and what is as it was.       *)

\* The objects that run r has brought to the state of its workbook.
Done(r) ==
  (ToDelete(r.book, r.mode) \ (r.delete \cup r.kept))
    \cup (ToUpsert(r.book, r.mode) \ r.upsert)

\* A tracked run works through its difference, and leaves the rest alone.
Working(r) ==
  r.tracked =>
    /\ r.delete \cup r.kept \subseteq ToDelete(r.book, r.mode)
    /\ r.delete \cap r.kept = {}
    /\ r.upsert \subseteq ToUpsert(r.book, r.mode)
    /\ \A o \in Done(r) : stored[r.coll][o] = r.book[o]
    /\ \A o \in Objects \ Done(r) :
         <<r.coll, o>> \notin stray => stored[r.coll][o] = manifest[o]

Elsewhere(r) ==
  \A c \in Collections \ {r.coll}, o \in Objects :
    <<c, o>> \notin stray => stored[c][o] = manifest[o]

SheetTypes ==
  /\ manifest \in Book
  /\ stored \in [Collections -> Book]
  /\ run \in SheetRuns \cup {Idle}

SheetInv ==
  /\ SheetTypes
  /\ run # Idle => Working(run) /\ Elsewhere(run)
  /\ SheetSynced

\* Before the first run nothing is stored and the manifest is empty.
LEMMA SheetStart == SheetInit => SheetInv
  BY DEF SheetInit, SheetInv, SheetTypes, SheetSynced, Empty, Book

\* The beginning of a run.
LEMMA IndexStep ==
  ASSUME SheetInv, NEW c \in Collections, NEW book \in Book,
         \/ \E mode \in Modes : Index(c, book, mode)
         \/ IndexUntracked(c, book)
  PROVE  SheetInv'
<1> USE DEF SheetInv
<1>1. run = Idle /\ UNCHANGED <<manifest, stored, stray>>
  BY DEF Index, IndexUntracked
<1>2. \A d \in Collections, o \in Objects :
        <<d, o>> \notin stray => stored[d][o] = manifest[o]
  BY <1>1 DEF SheetSynced
<1>3. ASSUME NEW mode \in Modes, Index(c, book, mode) PROVE SheetInv'
  <2> PICK r : r = [coll |-> c, book |-> book, tracked |-> TRUE, mode |-> mode,
                    delete |-> ToDelete(book, mode), upsert |-> ToUpsert(book, mode),
                    kept |-> {}]
    OBVIOUS
  <2>1. run' = r
    BY <1>3 DEF Index
  <2>2. r \in SheetRuns
    BY Difference DEF SheetRuns, SheetTypes, Vanished, Held
  <2>3. r # Idle
    BY <2>2, SpreadsheetConstants
  <2>4. r.delete = ToDelete(r.book, r.mode) /\ r.upsert = ToUpsert(r.book, r.mode)
        /\ r.kept = {} /\ r.coll \in Collections
    OBVIOUS
  <2>5. Done(r) = {}
    BY <2>4 DEF Done
  <2>6. Working(r) /\ Elsewhere(r)
    BY <1>2, <2>4, <2>5 DEF Working, Elsewhere
  <2>7. Working(run)' /\ Elsewhere(run)'
    BY <1>1, <2>1, <2>6 DEF Working, Elsewhere, Done, ToDelete, ToUpsert, Vanished, Changed
  <2> QED
    BY <1>1, <2>1, <2>2, <2>3, <2>7 DEF SheetTypes, SheetSynced
<1>4. CASE IndexUntracked(c, book)
  <2> PICK r : r = [coll |-> c, book |-> book, tracked |-> FALSE, mode |-> "full",
                    delete |-> {}, upsert |-> Held(book), kept |-> {}]
    OBVIOUS
  <2>1. run' = r
    BY <1>4 DEF IndexUntracked
  <2>2. r \in SheetRuns
    BY DEF SheetRuns, Held, Modes
  <2>3. r # Idle
    BY <2>2, SpreadsheetConstants
  <2>4. ~r.tracked /\ r.coll = c
    OBVIOUS
  <2>5. Working(run)' /\ Elsewhere(run)'
    BY <1>1, <1>2, <2>1, <2>4 DEF Working, Elsewhere
  <2> QED
    BY <1>1, <2>1, <2>2, <2>3, <2>5 DEF SheetTypes, SheetSynced
<1> QED
  BY <1>3, <1>4

\* One step of a run in progress brings a set of its objects to the state of
\* its workbook, and takes them from its work.
LEMMA ProgressStep ==
  ASSUME SheetInv, run # Idle, run' \in SheetRuns,
         run'.coll = run.coll, run'.book = run.book, run'.mode = run.mode,
         run'.tracked <=> run.tracked,
         NEW S \in SUBSET Objects,
         stored' = [stored EXCEPT ![run.coll] =
                      [o \in Objects |-> IF o \in S THEN run.book[o] ELSE @[o]]],
         run.tracked =>
           /\ run'.delete \cup run'.kept \subseteq run.delete \cup run.kept
           /\ run'.delete \cap run'.kept = {}
           /\ run'.upsert \subseteq run.upsert
           /\ Done(run)' = Done(run) \cup S,
         UNCHANGED <<manifest, stray>>
  PROVE  SheetInv'
<1> USE DEF SheetInv
<1>1. run \in SheetRuns /\ run.coll \in Collections /\ run.book \in Book
  BY DEF SheetTypes, SheetRuns
<1>2. stored' \in [Collections -> Book]
  BY <1>1 DEF SheetTypes, Book
<1>3. run' # Idle
  BY SpreadsheetConstants
<1>4. /\ \A o \in Objects : stored'[run.coll][o] =
             IF o \in S THEN run.book[o] ELSE stored[run.coll][o]
      /\ \A c \in Collections \ {run.coll} : stored'[c] = stored[c]
  BY <1>1 DEF SheetTypes, Book
<1>5. Elsewhere(run)'
  BY <1>4 DEF Elsewhere
<1>6. ASSUME run.tracked
      PROVE  /\ (run.delete \cup run.kept)' \subseteq ToDelete(run.book, run.mode)'
             /\ (run.delete \cap run.kept)' = {}
             /\ run'.upsert \subseteq ToUpsert(run.book, run.mode)'
             /\ \A o \in Done(run)' : stored'[run.coll][o] = run.book[o]
             /\ \A o \in Objects \ Done(run)' :
                  <<run.coll, o>> \notin stray => stored'[run.coll][o] = manifest[o]
  <2>1. Working(run)
    OBVIOUS
  <2>2. /\ ToDelete(run.book, run.mode)' = ToDelete(run.book, run.mode)
        /\ ToUpsert(run.book, run.mode)' = ToUpsert(run.book, run.mode)
    BY DEF ToDelete, ToUpsert, Vanished, Changed, Held
  <2>3. Done(run) \subseteq Objects
    BY <1>1, Difference DEF Done, SheetTypes, SheetRuns, Vanished, Held
  <2> QED
    BY <1>4, <1>6, <2>1, <2>2, <2>3 DEF Working
<1>7. Working(run)'
  BY <1>6 DEF Working
<1> QED
  BY <1>2, <1>3, <1>5, <1>7 DEF SheetTypes, SheetSynced

\* Deleting a stale record shrinks what the run has left.
LEMMA DeleteRecordStep ==
  ASSUME SheetInv, NEW o \in Objects, DeleteRecord(o)
  PROVE  SheetInv'
<1>1. run \in SheetRuns /\ run # Idle /\ o \in run.delete
  BY DEF DeleteRecord, SheetInv, SheetTypes
<1>2. run' = [run EXCEPT !.delete = @ \ {o}] /\ UNCHANGED <<manifest, stray>>
  BY DEF DeleteRecord
<1>3. /\ run' \in SheetRuns /\ run'.delete = run.delete \ {o}
      /\ run'.coll = run.coll /\ run'.book = run.book /\ run'.mode = run.mode
      /\ run'.upsert = run.upsert /\ run'.kept = run.kept
  BY <1>1, <1>2 DEF SheetRuns
<1>4. run'.tracked <=> run.tracked
  BY <1>1, <1>2 DEF SheetRuns
<1>5. CASE run.tracked
  <2>1. /\ o \in ToDelete(run.book, run.mode) /\ o \notin run.kept
        /\ run.delete \cap run.kept = {}
    BY <1>1, <1>5 DEF SheetInv, Working
  <2>2. run.book[o] = Absent
    BY <1>1, <2>1, Difference DEF SheetInv, SheetTypes, SheetRuns
  <2> PICK S \in SUBSET Objects : S = {o}
    OBVIOUS
  <2>3. stored' = [stored EXCEPT ![run.coll] =
                     [x \in Objects |-> IF x \in S THEN run.book[x] ELSE @[x]]]
    BY <1>1, <2>2 DEF DeleteRecord, SheetInv, SheetTypes, SheetRuns, Book
  <2>4. Done(run)' = Done(run) \cup S
    BY <1>2, <1>3, <2>1 DEF Done, ToDelete, ToUpsert, Vanished, Changed
  <2>5. /\ run'.delete \cup run'.kept \subseteq run.delete \cup run.kept
        /\ run'.delete \cap run'.kept = {}
        /\ run'.upsert \subseteq run.upsert
    BY <1>3, <2>1
  <2> QED
    BY <1>1, <1>2, <1>3, <1>4, <2>3, <2>4, <2>5, ProgressStep
<1>6. CASE ~run.tracked
  <2>1. /\ stored' \in [Collections -> Book]
        /\ \A c \in Collections \ {run.coll} : stored'[c] = stored[c]
    BY <1>1 DEF DeleteRecord, SheetInv, SheetTypes, SheetRuns, Book
  <2>2. run' # Idle
    BY <1>3, SpreadsheetConstants
  <2> QED
    BY <1>2, <1>3, <1>4, <1>6, <2>1, <2>2
    DEF SheetInv, SheetTypes, Working, Elsewhere, SheetSynced
<1> QED
  BY <1>5, <1>6

\* A record that could not be deleted is remembered as kept.
LEMMA DeleteSkippedStep ==
  ASSUME SheetInv, NEW o \in Objects, DeleteSkipped(o)
  PROVE  SheetInv'
<1>1. run \in SheetRuns /\ run # Idle /\ o \in run.delete
  BY DEF DeleteSkipped, SheetInv, SheetTypes
<1>2. run' = [run EXCEPT !.delete = @ \ {o}, !.kept = @ \cup {o}]
      /\ UNCHANGED <<manifest, stored, stray>>
  BY DEF DeleteSkipped
<1>3. /\ run' \in SheetRuns /\ run'.delete = run.delete \ {o} /\ run'.kept = run.kept \cup {o}
      /\ run'.coll = run.coll /\ run'.book = run.book /\ run'.mode = run.mode
      /\ run'.upsert = run.upsert
  BY <1>1, <1>2 DEF SheetRuns
<1>4. run'.tracked <=> run.tracked
  BY <1>1, <1>2 DEF SheetRuns
<1> PICK S \in SUBSET Objects : S = {}
  OBVIOUS
<1>5. stored' = [stored EXCEPT ![run.coll] =
                   [x \in Objects |-> IF x \in S THEN run.book[x] ELSE @[x]]]
  BY <1>1, <1>2 DEF SheetInv, SheetTypes, SheetRuns, Book
<1>6. Done(run)' = Done(run) \cup S
  BY <1>1, <1>2, <1>3 DEF Done, ToDelete, ToUpsert, Vanished, Changed
<1>7. run.tracked =>
        /\ run'.delete \cup run'.kept \subseteq run.delete \cup run.kept
        /\ run'.delete \cap run'.kept = {}
        /\ run'.upsert \subseteq run.upsert
  <2>1. run.tracked => run.delete \cap run.kept = {}
    BY <1>1 DEF SheetInv, Working
  <2> QED
    BY <1>1, <1>3, <2>1
<1> QED
  BY <1>1, <1>2, <1>3, <1>4, <1>5, <1>6, <1>7, ProgressStep

\* Writing a batch shrinks what the run has left.
LEMMA UpsertBatchStep ==
  ASSUME SheetInv, UpsertBatch
  PROVE  SheetInv'
<1>1. run \in SheetRuns /\ run # Idle
  BY DEF UpsertBatch, SheetInv, SheetTypes
<1>2. PICK batch \in NextBatches :
        /\ Write(batch)
        /\ run' = [run EXCEPT !.upsert = IF batch = {} THEN {} ELSE @ \ batch]
  BY DEF UpsertBatch
<1>3. batch \in SUBSET run.upsert /\ batch # {}
  BY <1>1, BatchNotEmpty DEF UpsertBatch
<1>4. UNCHANGED <<manifest, stray>>
  BY DEF UpsertBatch
<1>5. /\ run' \in SheetRuns /\ run'.upsert = run.upsert \ batch
      /\ run'.coll = run.coll /\ run'.book = run.book /\ run'.mode = run.mode
      /\ run'.delete = run.delete /\ run'.kept = run.kept
  BY <1>1, <1>2, <1>3 DEF SheetRuns
<1>6. run'.tracked <=> run.tracked
  BY <1>1, <1>2 DEF SheetRuns
<1>7. ASSUME run.tracked PROVE Done(run)' = Done(run) \cup batch
  <2>1. run.upsert \subseteq ToUpsert(run.book, run.mode)
    BY <1>1, <1>7 DEF SheetInv, Working
  <2> QED
    BY <1>3, <1>4, <1>5, <2>1 DEF Done, ToDelete, ToUpsert, Vanished, Changed
<1>8. run.tracked => run.delete \cap run.kept = {}
  BY <1>1 DEF SheetInv, Working
<1>9. batch \in SUBSET Objects
  BY <1>1, <1>3 DEF SheetRuns
<1> QED
  BY <1>1, <1>2, <1>4, <1>5, <1>6, <1>7, <1>8, <1>9, ProgressStep DEF Write

\* The end of a run that is cut short, or that records nothing.
LEMMA AbandonStep ==
  ASSUME SheetInv, run # Idle, Abandon(run.coll), stored' \in [Collections -> Book],
         \A c \in Collections \ {run.coll} : stored'[c] = stored[c]
  PROVE  SheetInv'
  BY DEF SheetInv, SheetTypes, Elsewhere, SheetSynced, Abandon

\* A run that is cut short leaves the other collections alone.
LEMMA CutShort ==
  ASSUME SheetTypes, UpsertFails \/ RunDies \/ CompleteUntracked
  PROVE  /\ run # Idle /\ Abandon(run.coll) /\ stored' \in [Collections -> Book]
         /\ \A c \in Collections \ {run.coll} : stored'[c] = stored[c]
<1>1. CASE UpsertFails
  <2>1. run \in SheetRuns /\ run # Idle /\ Abandon(run.coll)
    BY <1>1 DEF UpsertFails, SheetTypes
  <2>2. PICK part : Write(part)
    BY <1>1 DEF UpsertFails
  <2> QED
    BY <2>1, <2>2 DEF Write, SheetTypes, SheetRuns, Book
<1>2. CASE RunDies
  BY <1>2 DEF RunDies, SheetTypes
<1>3. CASE CompleteUntracked
  BY <1>3 DEF CompleteUntracked, SheetTypes
<1> QED
  BY <1>1, <1>2, <1>3

\* A run with nothing left has made the manifest true.
LEMMA CompleteStep ==
  ASSUME SheetInv, Complete
  PROVE  SheetInv'
<1>1. /\ run \in SheetRuns /\ run # Idle /\ run.tracked
      /\ run.delete = {} /\ run.upsert = {}
      /\ manifest' = run.book /\ run' = Idle /\ UNCHANGED stored
      /\ stray' = (stray \ {<<run.coll, o>> : o \in Applied}) \cup Unapplied
  BY DEF Complete, SheetInv, SheetTypes
<1>2. Working(run) /\ Elsewhere(run) /\ manifest \in Book
  BY <1>1 DEF SheetInv, SheetTypes
<1>3. run.book \in Book /\ run.mode \in Modes /\ run.coll \in Collections
  BY <1>1 DEF SheetRuns
<1>4. Applied = Done(run)
  <2>1. run.kept \cap ToUpsert(run.book, run.mode) = {}
    BY <1>1, <1>2, <1>3, Difference DEF Working, Vanished
  <2> QED
    BY <1>1, <2>1 DEF Applied, Done
<1>5. ASSUME NEW c \in Collections, NEW o \in Objects, <<c, o>> \notin stray'
      PROVE  stored[c][o] = run.book[o]
  <2>1. CASE c = run.coll /\ o \in Applied
    BY <1>1, <1>2, <1>4, <2>1 DEF Working
  <2>2. CASE c = run.coll /\ o \notin Applied
    <3>1. <<c, o>> \notin stray /\ o \notin Differing(run.book)
      BY <1>1, <1>5, <2>2 DEF Unapplied
    <3> QED
      BY <1>1, <1>2, <1>3, <1>4, <2>2, <3>1, Difference DEF Working
  <2>3. CASE c # run.coll
    <3>1. <<c, o>> \notin stray /\ o \notin Differing(run.book)
      BY <1>1, <1>5, <2>3 DEF Unapplied
    <3> QED
      BY <1>2, <1>3, <2>3, <3>1, Difference DEF Elsewhere
  <2> QED
    BY <2>1, <2>2, <2>3
<1> QED
  BY <1>1, <1>3, <1>5 DEF SheetInv, SheetTypes, SheetSynced

\* Every step keeps the invariant of the runs.
LEMMA SheetStep == SheetInv /\ [SheetNext]_sheetVars => SheetInv'
<1> SUFFICES ASSUME SheetInv, [SheetNext]_sheetVars PROVE SheetInv'
  OBVIOUS
<1>1. CASE IndexUnreadable \/ UNCHANGED sheetVars
  <2>1. UNCHANGED <<manifest, stored, run, stray>>
    BY <1>1 DEF IndexUnreadable, sheetVars
  <2> QED
    BY <2>1 DEF SheetInv, SheetTypes, SheetSynced, Working, Elsewhere, Done, ToDelete,
       ToUpsert, Vanished, Changed
<1>2. CASE UpsertFails \/ RunDies \/ CompleteUntracked
  BY <1>2, CutShort, AbandonStep DEF SheetInv
<1> QED
  BY <1>1, <1>2, IndexStep, DeleteRecordStep, DeleteSkippedStep, UpsertBatchStep,
     CompleteStep DEF SheetNext

\* Between runs every object that no run left out or was cut short at is stored
\* as the latest version says: for any workbooks, collections and batch size,
\* any sequence of refresh modes and any failures.
THEOREM SheetIsSynced == SheetSpec => []SheetSynced
<1>1. SheetInv => SheetSynced
  BY DEF SheetInv
<1> QED
  BY <1>1, SheetStart, SheetStep, PTL DEF SheetSpec

-----------------------------------------------------------------------------
(* Repeating a run.  Since the collections last matched the version, in      *)
(* collection m, all tries were of workbook b for collection c: what c holds *)
(* is what it held then or what b says.                                      *)

Halfway(c, b, m) ==
  /\ c # m => stored[m] = manifest
  /\ \A d \in Collections \ {c, m} : stored[d] = Empty
  /\ \A o \in Objects :
       \/ stored[c][o] = b[o]
       \/ c = m /\ stored[c][o] = manifest[o]
       \/ c # m /\ stored[c][o] = Absent

AllHalfway ==
  \A c \in Collections, b \in Book :
    tries = {<<c, b>>} => \E m \in Collections : Halfway(c, b, m)

\* A run is among the tries; one without a record, or that skipped a delete,
\* left its mark.
RunTried ==
  run # Idle =>
    /\ tries # {}
    /\ Mixed \notin tries =>
         run.tracked /\ run.kept = {} /\ <<run.coll, run.book>> \in tries

RetryInv == SheetInv /\ RunTried /\ AllHalfway /\ RetryRepairs

\* The try of one workbook is not the mark of a mixture.
LEMMA NotMixed == \A c, b : <<c, b>> # Mixed
  BY DEF Mixed

\* Before the first run nothing has been tried.
LEMMA RetryStart == SheetInit => RetryInv
<1> SUFFICES ASSUME SheetInit PROVE RetryInv
  OBVIOUS
<1>1. RunTried /\ AllHalfway
  BY DEF SheetInit, RunTried, AllHalfway
<1>2. RetryRepairs
  BY SpreadsheetConstants DEF SheetInit, RetryRepairs
<1> QED
  BY <1>1, <1>2, SheetStart DEF RetryInv

\* The run in progress, when all tries are of one workbook and collection.
LEMMA TheOneTry ==
  ASSUME RunTried, run # Idle, NEW c, NEW b, tries = {<<c, b>>}
  PROVE  run.tracked /\ run.kept = {} /\ run.coll = c /\ run.book = b
  BY NotMixed DEF RunTried

\* Writing the run's workbook leaves a collection half way.
LEMMA HalfwayKept ==
  ASSUME RetryInv, run # Idle, UNCHANGED <<manifest, tries>>,
         \A c \in Collections \ {run.coll} : stored'[c] = stored[c],
         Mixed \notin tries =>
           \A o \in Objects : stored'[run.coll][o] \in {stored[run.coll][o], run.book[o]}
  PROVE  AllHalfway'
<1> SUFFICES ASSUME NEW c \in Collections, NEW b \in Book, tries = {<<c, b>>}
             PROVE  \E m \in Collections : Halfway(c, b, m)'
  BY DEF AllHalfway
<1>1. run.coll = c /\ run.book = b /\ Mixed \notin tries
  BY TheOneTry, NotMixed DEF RetryInv
<1>2. PICK m \in Collections : Halfway(c, b, m)
  BY DEF RetryInv, AllHalfway
<1> QED
  BY <1>1, <1>2 DEF Halfway

\* A run that starts is one more try of its workbook.
LEMMA RetryIndexStep ==
  ASSUME RetryInv, NEW c \in Collections, NEW book \in Book,
         \/ \E mode \in Modes : Index(c, book, mode)
         \/ IndexUntracked(c, book)
  PROVE  RetryInv'
<1>1. SheetInv'
  BY IndexStep DEF RetryInv
<1>2. run = Idle /\ UNCHANGED <<manifest, stored>>
  BY DEF Index, IndexUntracked
<1>3. run' # Idle
  <2> PICK del \in SUBSET Objects, ups \in SUBSET Objects, mode \in Modes, tr \in BOOLEAN :
         run' = [coll |-> c, book |-> book, tracked |-> tr, mode |-> mode,
                 delete |-> del, upsert |-> ups, kept |-> {}]
    <3>1. ASSUME NEW mode \in Modes, Index(c, book, mode)
          PROVE  /\ ToDelete(book, mode) \in SUBSET Objects
                 /\ ToUpsert(book, mode) \in SUBSET Objects
                 /\ run' = [coll |-> c, book |-> book, tracked |-> TRUE, mode |-> mode,
                            delete |-> ToDelete(book, mode),
                            upsert |-> ToUpsert(book, mode), kept |-> {}]
      BY <3>1, Difference DEF Index, RetryInv, SheetInv, SheetTypes, Vanished, Held
    <3>2. ASSUME IndexUntracked(c, book)
          PROVE  /\ Held(book) \in SUBSET Objects /\ "full" \in Modes
                 /\ run' = [coll |-> c, book |-> book, tracked |-> FALSE, mode |-> "full",
                            delete |-> {}, upsert |-> Held(book), kept |-> {}]
      BY <3>2 DEF IndexUntracked, Held, Modes
    <3>3. TRUE \in BOOLEAN /\ FALSE \in BOOLEAN /\ {} \in SUBSET Objects
      OBVIOUS
    <3> QED
      BY <3>1, <3>2, <3>3, Zenon
  <2> QED
    BY SpreadsheetConstants DEF SheetRuns
<1>4. CASE \E mode \in Modes : Index(c, book, mode)
  <2>1. /\ run'.tracked /\ run'.kept = {} /\ run'.coll = c /\ run'.book = book
        /\ tries' = tries \cup {<<c, book>>}
    BY <1>4 DEF Index
  <2>2. RunTried'
    BY <2>1 DEF RunTried
  <2>3. ASSUME NEW d \in Collections, NEW b \in Book, tries' = {<<d, b>>}
        PROVE  \E m \in Collections : Halfway(d, b, m)
    <3>1. d = c /\ b = book /\ (tries = {} \/ tries = {<<d, b>>})
      <4>1. <<c, book>> = <<d, b>> /\ tries \subseteq {<<d, b>>}
        BY <2>1, <2>3
      <4>2. tries = {} \/ tries = {<<d, b>>}
        BY <4>1
      <4> QED
        BY <4>1, <4>2
    <3>2. CASE tries = {<<d, b>>}
      BY <3>2 DEF RetryInv, AllHalfway
    <3>3. CASE tries = {}
      <4>1. PICK m \in Collections :
              stored[m] = manifest /\ \A e \in Collections \ {m} : stored[e] = Empty
        BY <1>2, <3>3 DEF RetryInv, RetryRepairs
      <4> QED
        BY <4>1 DEF Halfway, Empty
    <3> QED
      BY <3>1, <3>2, <3>3
  <2>4. AllHalfway'
    BY <1>2, <2>3 DEF AllHalfway, Halfway
  <2>5. RetryRepairs'
    BY <1>3 DEF RetryRepairs
  <2> QED
    BY <1>1, <2>2, <2>4, <2>5 DEF RetryInv
<1>5. CASE IndexUntracked(c, book)
  <2>1. Mixed \in tries'
    BY <1>5 DEF IndexUntracked
  <2> QED
    BY <1>1, <2>1, NotMixed DEF RetryInv, RunTried, AllHalfway, RetryRepairs
<1> QED
  BY <1>4, <1>5

\* A run that goes on brings the store nearer to its workbook.
LEMMA RetryRunStep ==
  ASSUME RetryInv,
         (\E o \in Objects : DeleteRecord(o) \/ DeleteSkipped(o)) \/ UpsertBatch
  PROVE  RetryInv'
<1>1. SheetInv'
  BY DeleteRecordStep, DeleteSkippedStep, UpsertBatchStep DEF RetryInv
<1>2. run # Idle /\ run \in SheetRuns
  BY DEF RetryInv, SheetInv, SheetTypes, DeleteRecord, DeleteSkipped, UpsertBatch
<1>3. CASE \E o \in Objects : DeleteSkipped(o)
  <2>1. Mixed \in tries'
    BY <1>3 DEF DeleteSkipped
  <2> QED
    BY <1>1, <2>1, NotMixed DEF RetryInv, RunTried, AllHalfway, RetryRepairs
<1>4. ASSUME NEW o \in Objects, DeleteRecord(o) PROVE RetryInv'
  <2>1. /\ run' # Idle /\ run'.coll = run.coll /\ run'.book = run.book
        /\ run'.kept = run.kept /\ UNCHANGED <<manifest, tries>>
    <3>1. run' = [run EXCEPT !.delete = @ \ {o}] /\ UNCHANGED <<manifest, tries>>
      BY <1>4 DEF DeleteRecord
    <3>2. run' \in SheetRuns
      BY <1>2, <3>1 DEF SheetRuns
    <3> QED
      BY <1>2, <3>1, <3>2, SpreadsheetConstants DEF SheetRuns
  <2>2. run'.tracked <=> run.tracked
    BY <1>2, <1>4 DEF DeleteRecord, SheetRuns
  <2>3. RunTried'
    BY <1>2, <2>1, <2>2 DEF RetryInv, RunTried
  <2>4. ASSUME Mixed \notin tries PROVE run.book[o] = Absent
    <3>1. run.tracked
      BY <1>2, <2>4 DEF RetryInv, RunTried
    <3>2. o \in ToDelete(run.book, run.mode)
      BY <1>2, <1>4, <3>1 DEF RetryInv, SheetInv, Working, DeleteRecord
    <3> QED
      BY <1>2, <3>2, Difference DEF RetryInv, SheetInv, SheetTypes, SheetRuns
  <2>5. AllHalfway'
    <3>1. /\ \A c \in Collections \ {run.coll} : stored'[c] = stored[c]
          /\ \A x \in Objects : x # o => stored'[run.coll][x] = stored[run.coll][x]
          /\ stored'[run.coll][o] = Absent
      BY <1>2, <1>4 DEF DeleteRecord, RetryInv, SheetInv, SheetTypes, SheetRuns, Book
    <3> QED
      BY <1>2, <2>1, <2>4, <3>1, HalfwayKept
  <2> QED
    BY <1>1, <2>1, <2>3, <2>5 DEF RetryInv, RetryRepairs
<1>5. CASE UpsertBatch
  <2>1. PICK batch : /\ Write(batch)
                     /\ run' = [run EXCEPT !.upsert = IF batch = {} THEN {} ELSE @ \ batch]
    BY <1>5 DEF UpsertBatch
  <2>2. /\ run'.coll = run.coll /\ run'.book = run.book /\ run'.kept = run.kept
        /\ UNCHANGED <<manifest, tries>>
    BY <1>2, <1>5, <2>1 DEF UpsertBatch, SheetRuns
  <2>3. run'.tracked <=> run.tracked
    BY <1>2, <2>1 DEF SheetRuns
  <2>4. run' # Idle
    <3>1. run' \in SheetRuns
      BY <1>2, <2>1 DEF SheetRuns
    <3> QED
      BY <3>1, SpreadsheetConstants
  <2>5. RunTried'
    BY <1>2, <2>2, <2>3 DEF RetryInv, RunTried
  <2>6. AllHalfway'
    <3>1. /\ \A c \in Collections \ {run.coll} : stored'[c] = stored[c]
          /\ \A x \in Objects : stored'[run.coll][x] \in {stored[run.coll][x], run.book[x]}
      BY <1>2, <2>1 DEF Write, RetryInv, SheetInv, SheetTypes, SheetRuns, Book
    <3> QED
      BY <1>2, <2>2, <3>1, HalfwayKept
  <2> QED
    BY <1>1, <2>4, <2>5, <2>6 DEF RetryInv, RetryRepairs
<1> QED
  BY <1>3, <1>4, <1>5

\* A run that is cut short leaves a store half way to its workbook.
LEMMA RetryCutShort ==
  ASSUME RetryInv, UpsertFails \/ RunDies \/ CompleteUntracked
  PROVE  RetryInv'
<1>1. /\ run # Idle /\ run \in SheetRuns /\ run' = Idle /\ UNCHANGED <<manifest, tries>>
      /\ \A c \in Collections \ {run.coll} : stored'[c] = stored[c]
  BY CutShort DEF RetryInv, SheetInv, SheetTypes, Abandon
<1>2. SheetInv'
  BY CutShort, AbandonStep DEF RetryInv, SheetInv
<1>3. \A o \in Objects : stored'[run.coll][o] \in {stored[run.coll][o], run.book[o]}
  <2>1. CASE UpsertFails
    <3>1. PICK part : Write(part)
      BY <2>1 DEF UpsertFails
    <3> QED
      BY <1>1, <3>1 DEF Write, RetryInv, SheetInv, SheetTypes, SheetRuns, Book
  <2>2. CASE RunDies \/ CompleteUntracked
    BY <2>2 DEF RunDies, CompleteUntracked
  <2> QED
    BY <2>1, <2>2
<1>4. AllHalfway'
  BY <1>1, <1>3, HalfwayKept
<1>5. RunTried' /\ RetryRepairs'
  BY <1>1 DEF RetryInv, RunTried, RetryRepairs
<1> QED
  BY <1>2, <1>4, <1>5 DEF RetryInv

\* A run that finishes the one workbook tried has repaired the store.
LEMMA RetryCompleteStep ==
  ASSUME RetryInv, Complete
  PROVE  RetryInv'
<1>1. SheetInv' /\ run' = Idle
  BY CompleteStep DEF RetryInv, Complete
<1>2. CASE Thorough /\ tries = {<<run.coll, run.book>>}
  <2> PICK c : c = run.coll
    OBVIOUS
  <2> PICK b : b = run.book
    OBVIOUS
  <2>1. /\ run \in SheetRuns /\ c \in Collections /\ b \in Book
        /\ manifest \in Book /\ stored \in [Collections -> Book]
        /\ run.mode \in Modes /\ run # Idle
    BY DEF Complete, RetryInv, SheetInv, SheetTypes, SheetRuns
  <2>2. /\ run.tracked /\ run.delete = {} /\ run.upsert = {}
        /\ manifest' = b /\ UNCHANGED stored /\ tries' = {}
    BY <1>2 DEF Complete
  <2>3. run.kept = {}
    BY <1>2, <2>1, TheOneTry DEF RetryInv
  <2>4. PICK m \in Collections : Halfway(c, b, m)
    BY <1>2, <2>1 DEF RetryInv, AllHalfway
  <2>5. run.mode \in {"full", "incremental"}
        /\ \A d \in Collections \ {c} : stored[d] = Empty
    BY <1>2 DEF Thorough
  <2>6. ASSUME NEW o \in Objects PROVE stored[c][o] = b[o]
    <3>1. CASE o \in ToDelete(b, run.mode) \cup ToUpsert(b, run.mode)
      <4>1. Working(run)
        BY <2>1 DEF RetryInv, SheetInv
      <4>2. o \in Done(run)
        BY <2>2, <2>3, <3>1 DEF Done
      <4> QED
        BY <2>2, <4>1, <4>2 DEF Working
    <3>2. CASE o \notin ToDelete(b, run.mode) \cup ToUpsert(b, run.mode)
      <4>1. manifest[o] = b[o]
        BY <2>1, <2>5, <3>2, Difference
      <4>2. c # m => manifest[o] = Absent
        BY <2>4, <2>5 DEF Halfway, Empty
      <4> QED
        BY <2>4, <4>1, <4>2 DEF Halfway
    <3> QED
      BY <3>1, <3>2
  <2>7. stored[c] = b
    BY <2>1, <2>6 DEF Book
  <2>8. RetryRepairs'
    BY <2>1, <2>2, <2>5, <2>7 DEF RetryRepairs
  <2>9. AllHalfway' /\ RunTried'
    BY <1>1, <2>2 DEF AllHalfway, RunTried
  <2> QED
    BY <1>1, <2>8, <2>9 DEF RetryInv
<1>3. CASE ~(Thorough /\ tries = {<<run.coll, run.book>>})
  <2>1. Mixed \in tries'
    BY <1>3 DEF Complete
  <2> QED
    BY <1>1, <2>1, NotMixed DEF RetryInv, RunTried, AllHalfway, RetryRepairs
<1> QED
  BY <1>2, <1>3

\* Every step keeps the invariant of the tries.
LEMMA RetryStep == RetryInv /\ [SheetNext]_sheetVars => RetryInv'
<1> SUFFICES ASSUME RetryInv, [SheetNext]_sheetVars PROVE RetryInv'
  OBVIOUS
<1>1. CASE IndexUnreadable \/ UNCHANGED sheetVars
  <2>1. UNCHANGED <<manifest, stored, run, tries>>
    BY <1>1 DEF IndexUnreadable, sheetVars
  <2>2. SheetInv'
    BY <1>1, SheetStep DEF RetryInv, SheetNext
  <2> QED
    BY <2>1, <2>2 DEF RetryInv, RunTried, AllHalfway, Halfway, RetryRepairs
<1> QED
  BY <1>1, RetryIndexStep, RetryRunStep, RetryCutShort, RetryCompleteStep DEF SheetNext

\* Repeating a run that failed until it succeeds leaves exactly its workbook in
\* the collection, wherever and however often it was cut short.
THEOREM RetryAlwaysRepairs == SheetSpec => []RetryRepairs
<1>1. RetryInv => RetryRepairs
  BY DEF RetryInv
<1> QED
  BY <1>1, RetryStart, RetryStep, PTL DEF SheetSpec

-----------------------------------------------------------------------------
(* Structure: the operations in progress.                                    *)

StructureTypes ==
  /\ document \in [Documents -> {Gone} \cup DocumentRecords]
  /\ children \in [Documents -> ChildRows]
  /\ corpus \in {Gone} \cup CorpusRecords
  /\ patterns \in ChildRows
  /\ caller \in [Callers -> {Ready} \cup Links \cup Updates \cup Analyses \cup Generations]

\* No rows at all are rows.
LEMMA NoRowsTyped == NoRows \in ChildRows
  BY DEF NoRows, ChildRows

\* What a thread is in is known by the name of its operation.
LEMMA Operation ==
  ASSUME StructureTypes, NEW c \in Callers
  PROVE  /\ At(c, "link") <=> caller[c] \in Links
         /\ At(c, "update") <=> caller[c] \in Updates
         /\ At(c, "analyse") <=> caller[c] \in Analyses
         /\ At(c, "generate") <=> caller[c] \in Generations
<1>1. caller[c] \in {Ready} \cup Links \cup Updates \cup Analyses \cup Generations
  BY DEF StructureTypes
<1>2. /\ \A o \in Links : o.op = "link" /\ o # Ready
      /\ \A o \in Updates : o.op = "update" /\ o # Ready
      /\ \A o \in Analyses : o.op = "analyse" /\ o # Ready
      /\ \A o \in Generations : o.op = "generate" /\ o # Ready
  BY StructureConstants DEF Links, Updates, Analyses, Generations
<1> QED
  BY <1>1, <1>2 DEF At

\* A copy that is marked as outdated is the same copy otherwise.
LEMMA MarkOutdated ==
  ASSUME NEW b \in BOOLEAN
  PROVE  /\ \A o \in Links : [o EXCEPT !.outdated = b] \in Links
         /\ \A o \in Updates : [o EXCEPT !.outdated = b] \in Updates
         /\ \A o \in Analyses :
              /\ [o EXCEPT !.outdated = b] \in Analyses
              /\ [o EXCEPT !.outdated = b].stored = o.stored
              /\ [o EXCEPT !.outdated = b].left = o.left
         /\ \A o \in Generations : [o EXCEPT !.outdated = b] \in Generations
         /\ \A o \in Links \cup Updates \cup Analyses \cup Generations :
              [o EXCEPT !.outdated = b].outdated = b
  BY DEF Links, Updates, Analyses, Generations

Outdated(o) == [o EXCEPT !.outdated = TRUE]

\* An operation whose copy is outdated is the same operation.
LEMMA OutdatedIs ==
  /\ \A o \in Links : Outdated(o) \in Links
  /\ \A o \in Updates : Outdated(o) \in Updates
  /\ \A o \in Analyses :
       /\ Outdated(o) \in Analyses
       /\ Outdated(o).stored <=> o.stored
       /\ Outdated(o).left = o.left
  /\ \A o \in Generations : Outdated(o) \in Generations
  /\ \A o \in Links \cup Updates \cup Analyses \cup Generations : Outdated(o).outdated
<1>1. TRUE \in BOOLEAN
  OBVIOUS
<1>2. /\ \A o \in Links : Outdated(o) \in Links
      /\ \A o \in Updates : Outdated(o) \in Updates
      /\ \A o \in Analyses : Outdated(o) \in Analyses
      /\ \A o \in Generations : Outdated(o) \in Generations
  BY <1>1, MarkOutdated, Zenon DEF Outdated
<1>3. \A o \in Analyses : (Outdated(o).stored <=> o.stored) /\ Outdated(o).left = o.left
  BY <1>1, MarkOutdated, Zenon DEF Outdated
<1>4. \A o \in Links \cup Updates \cup Analyses \cup Generations : Outdated(o).outdated
  BY <1>1, MarkOutdated, Zenon DEF Outdated
<1> QED
  BY <1>2, <1>3, <1>4

\* A write leaves the other threads as they are, but for a mark on the copies of
\* what was written.
LEMMA WroteEffect ==
  ASSUME StructureTypes, NEW c \in Callers, NEW thing, NEW next, Wrote(c, thing, next)
  PROVE  /\ caller'[c] = next
         /\ DOMAIN caller' = Callers
         /\ \A x \in Callers \ {c} :
              \/ caller'[x] = caller[x] /\ (caller[x] = Ready \/ caller[x].about # thing)
              \/ caller[x] # Ready /\ caller'[x] = Outdated(caller[x])
  BY DEF Wrote, Outdated

\* An operation that goes on leaves those of the other threads alone.
LEMMA GoEffect ==
  ASSUME StructureTypes, NEW c \in Callers, NEW next, Go(c, next)
  PROVE  /\ caller'[c] = next
         /\ DOMAIN caller' = Callers
         /\ \A x \in Callers \ {c} : caller'[x] = caller[x]
  BY DEF Go, StructureTypes

\* What the copies of a thread are good for while they are not outdated.
LinkCopy(o) ==
  ~o.outdated =>
    /\ document[o.about] # Gone
    /\ document[o.about].of = o.of
    /\ \A k \in Kinds \ o.left : o.rows[k] = children[o.about][k]

UpdateCopy(o) == ~o.outdated => corpus = o.copy

AnalyseCopy(o) ==
  o.stored => /\ o.left = {}
              /\ ~o.outdated => patterns = o.found

GenerateCopy(o) ==
  ~o.outdated => patterns \in analyses /\ o.sections = patterns["sections"]

GoodCopy(o) ==
  /\ o \in Links => LinkCopy(o)
  /\ o \in Updates => UpdateCopy(o)
  /\ o \in Analyses => AnalyseCopy(o)
  /\ o \in Generations => GenerateCopy(o)

StructureInv ==
  /\ StructureTypes
  /\ \A c \in Callers : GoodCopy(caller[c])

\* A copy that is outdated is good whatever is stored.
LEMMA OutdatedGood ==
  ASSUME NEW o \in Links \cup Updates \cup Analyses \cup Generations, GoodCopy(o)
  PROVE  GoodCopy(Outdated(o))'
<1>1. Outdated(o).outdated
  BY OutdatedIs
<1>2. Outdated(o) \in Analyses /\ Outdated(o).stored => Outdated(o).left = {}
  <2>1. \A p \in Links \cup Updates \cup Generations : p \notin Analyses
    BY DEF Links, Updates, Analyses, Generations
  <2>2. CASE o \in Analyses
    BY <2>2, OutdatedIs DEF GoodCopy, AnalyseCopy
  <2>3. CASE o \notin Analyses
    BY <2>1, <2>3, OutdatedIs
  <2> QED
    BY <2>2, <2>3
<1> QED
  BY <1>1, <1>2 DEF GoodCopy, LinkCopy, UpdateCopy, AnalyseCopy, GenerateCopy

\* A thread in no operation has no copy.
LEMMA ReadyGood == GoodCopy(Ready)'
  BY StructureConstants DEF GoodCopy

AllOperations == Links \cup Updates \cup Analyses \cup Generations

\* What is the same before and after a step that keeps the copies good.
LEMMA DocumentWritten ==
  ASSUME StructureInv, NEW c \in Callers, NEW d \in Documents,
         NEW r \in {Gone} \cup DocumentRecords, NEW rows \in ChildRows,
         document' = [document EXCEPT ![d] = r],
         children' = [children EXCEPT ![d] = rows],
         Wrote(c, d, Ready), UNCHANGED <<corpus, patterns, analyses>>
  PROVE  StructureInv'
<1> USE DEF StructureInv
<1>1. ASSUME NEW x \in Callers
      PROVE  caller'[x] \in {Ready} \cup AllOperations /\ GoodCopy(caller[x])'
  <2>1. caller[x] \in {Ready} \cup AllOperations /\ GoodCopy(caller[x])
    BY DEF StructureTypes, AllOperations
  <2>2. CASE x = c
    <3>1. caller'[x] = Ready
      BY <2>2, WroteEffect
    <3> QED
      BY <3>1, StructureConstants DEF GoodCopy
  <2>3. CASE caller[x] # Ready /\ caller'[x] = Outdated(caller[x])
    <3> PICK o : o = caller[x]
      OBVIOUS
    <3>1. o \in AllOperations /\ GoodCopy(o) /\ caller'[x] = Outdated(o)
      BY <2>1, <2>3
    <3>2. GoodCopy(Outdated(o))' /\ Outdated(o) \in AllOperations
      BY <3>1, OutdatedGood, OutdatedIs DEF AllOperations
    <3> QED
      BY <3>1, <3>2 DEF GoodCopy, LinkCopy, UpdateCopy, AnalyseCopy, GenerateCopy
  <2>4. CASE caller'[x] = caller[x] /\ (caller[x] = Ready \/ caller[x].about # d)
    <3>1. caller[x] \in Links =>
            /\ caller[x].about \in Documents \ {d}
      BY <2>4, StructureConstants DEF Links
    <3>2. \A e \in Documents \ {d} : document'[e] = document[e] /\ children'[e] = children[e]
      BY DEF StructureTypes
    <3> QED
      BY <2>1, <2>4, <3>1, <3>2
      DEF GoodCopy, LinkCopy, UpdateCopy, AnalyseCopy, GenerateCopy
  <2> QED
    BY <2>2, <2>3, <2>4, WroteEffect
<1>2. caller' \in [Callers -> {Ready} \cup Links \cup Updates \cup Analyses \cup Generations]
  <2>1. caller' = [x \in Callers |-> caller'[x]]
    BY DEF Wrote
  <2> QED
    BY <1>1, <2>1 DEF AllOperations
<1>3. StructureTypes'
  BY <1>2 DEF StructureTypes
<1> QED
  BY <1>1, <1>3

\* A write of the corpus outdates the other copies and keeps the invariant.
LEMMA CorpusWritten ==
  ASSUME StructureInv, NEW c \in Callers, NEW next \in {Ready} \cup Analyses,
         Wrote(c, "corpus", next), GoodCopy(next)',
         corpus' \in {Gone} \cup CorpusRecords, patterns' \in ChildRows,
         UNCHANGED <<document, children>>
  PROVE  StructureInv'
<1> USE DEF StructureInv
<1>1. ASSUME NEW x \in Callers
      PROVE  caller'[x] \in {Ready} \cup AllOperations /\ GoodCopy(caller[x])'
  <2>1. caller[x] \in {Ready} \cup AllOperations /\ GoodCopy(caller[x])
    BY DEF StructureTypes, AllOperations
  <2>2. CASE x = c
    <3>1. caller'[x] = next
      BY <2>2, WroteEffect
    <3> QED
      BY <3>1 DEF GoodCopy, LinkCopy, UpdateCopy, AnalyseCopy, GenerateCopy, AllOperations
  <2>3. CASE caller[x] # Ready /\ caller'[x] = Outdated(caller[x])
    <3> PICK o : o = caller[x]
      OBVIOUS
    <3>1. o \in AllOperations /\ GoodCopy(o) /\ caller'[x] = Outdated(o)
      BY <2>1, <2>3
    <3>2. GoodCopy(Outdated(o))' /\ Outdated(o) \in AllOperations
      BY <3>1, OutdatedGood, OutdatedIs DEF AllOperations
    <3> QED
      BY <3>1, <3>2 DEF GoodCopy, LinkCopy, UpdateCopy, AnalyseCopy, GenerateCopy
  <2>4. CASE caller'[x] = caller[x] /\ (caller[x] = Ready \/ caller[x].about # "corpus")
    <3>1. caller[x] \in {Ready} \cup Links
      BY <2>1, <2>4 DEF AllOperations, Updates, Analyses, Generations
    <3>2. caller[x] \in Links => LinkCopy(caller[x])
      BY <2>1 DEF GoodCopy
    <3>3. \A o \in {Ready} \cup Links : o \notin Updates \cup Analyses \cup Generations
      BY StructureConstants DEF Links, Updates, Analyses, Generations
    <3> QED
      BY <2>4, <3>1, <3>2, <3>3 DEF GoodCopy, LinkCopy, AllOperations
  <2> QED
    BY <2>2, <2>3, <2>4, WroteEffect
<1>2. caller' \in [Callers -> {Ready} \cup Links \cup Updates \cup Analyses \cup Generations]
  <2>1. caller' = [x \in Callers |-> caller'[x]]
    BY DEF Wrote
  <2> QED
    BY <1>1, <2>1 DEF AllOperations
<1>3. StructureTypes'
  BY <1>2 DEF StructureTypes
<1> QED
  BY <1>1, <1>3

\* An operation that writes nothing keeps the invariant if its copy is good.
LEMMA OnlyCaller ==
  ASSUME StructureInv, NEW c \in Callers, NEW next \in {Ready} \cup AllOperations,
         Go(c, next), GoodCopy(next),
         UNCHANGED <<document, children, corpus, patterns, analyses>>
  PROVE  StructureInv'
<1> USE DEF StructureInv
<1>1. StructureTypes'
  BY DEF StructureTypes, Go, AllOperations
<1>2. ASSUME NEW x \in Callers PROVE GoodCopy(caller[x])'
  <2>1. GoodCopy(caller'[x])
    BY GoEffect
  <2> QED
    BY <2>1 DEF GoodCopy, LinkCopy, UpdateCopy, AnalyseCopy, GenerateCopy
<1> QED
  BY <1>1, <1>2

\* Nothing is stored and no operation is under way.
LEMMA StructureStart == StructureInit => StructureInv
<1> SUFFICES ASSUME StructureInit PROVE StructureInv
  OBVIOUS
<1>1. StructureTypes
  BY NoRowsTyped DEF StructureInit, StructureTypes
<1>2. \A c \in Callers : caller[c] = Ready
  BY DEF StructureInit
<1> QED
  BY <1>1, <1>2, StructureConstants DEF StructureInv, GoodCopy

\* Bundles are stored and deleted.
LEMMA BundleStep ==
  ASSUME StructureInv, NEW c \in Callers, NEW d \in Documents,
         (\E content \in Contents : Create(c, d, content)) \/ Delete(c, d)
  PROVE  StructureInv'
<1>1. ASSUME NEW content \in Contents, Create(c, d, content) PROVE StructureInv'
  <2> PICK r : r = [of |-> content, linked |-> FALSE]
    OBVIOUS
  <2> PICK rows : rows = [k \in Kinds |-> {content}]
    OBVIOUS
  <2>1. r \in DocumentRecords /\ rows \in ChildRows
    BY DEF DocumentRecords, ChildRows
  <2>2. /\ document' = [document EXCEPT ![d] = r]
        /\ children' = [children EXCEPT ![d] = rows]
        /\ Wrote(c, d, Ready) /\ UNCHANGED <<corpus, patterns, analyses>>
    BY <1>1 DEF Create, StoredChildren, Wrote
  <2> QED
    BY <2>1, <2>2, DocumentWritten
<1>2. CASE Delete(c, d)
  <2>1. /\ document' = [document EXCEPT ![d] = Gone]
        /\ children' = [children EXCEPT ![d] = NoRows]
        /\ Wrote(c, d, Ready) /\ UNCHANGED <<corpus, patterns, analyses>>
    BY <1>2 DEF Delete, Wrote
  <2> QED
    BY <2>1, NoRowsTyped, DocumentWritten
<1> QED
  BY <1>1, <1>2

\* link_to_vdb_records reads the document row.
LEMMA LinkStep ==
  ASSUME StructureInv, NEW c \in Callers, NEW d \in Documents, Link(c, d)
  PROVE  StructureInv'
<1> PICK next : next = [op |-> "link", about |-> d, outdated |-> FALSE,
                        of |-> document[d].of, rows |-> NoRows, left |-> Kinds]
  OBVIOUS
<1>1. document[d] \in DocumentRecords /\ document[d] # Gone
  BY DEF Link, StructureInv, StructureTypes
<1>2. document[d].of \in Contents
  BY <1>1 DEF DocumentRecords
<1>3. next \in Links
  BY <1>2, NoRowsTyped DEF Links
<1>4. LinkCopy(next)
  BY <1>1 DEF LinkCopy
<1>5. GoodCopy(next)
  BY <1>3, <1>4 DEF GoodCopy, Links, Updates, Analyses, Generations
<1>6. Go(c, next) /\ UNCHANGED <<document, children, corpus, patterns, analyses>>
  BY DEF Link, Go
<1> QED
  BY <1>3, <1>5, <1>6, OnlyCaller DEF AllOperations

\* link_to_vdb_records reads the child rows of a kind.
LEMMA LinkReadsStep ==
  ASSUME StructureInv, NEW c \in Callers, LinkReads(c)
  PROVE  StructureInv'
<1> PICK o : o = caller[c]
  OBVIOUS
<1> PICK k : k = NextKind(o.left)
  OBVIOUS
<1> PICK row : row = children[o.about][k]
  OBVIOUS
<1> PICK next : next = [o EXCEPT !.rows[k] = row, !.left = @ \ {k}]
  OBVIOUS
<1>1. o \in Links /\ GoodCopy(o)
  BY Operation DEF LinkReads, StructureInv
<1>2. k \in Kinds
  BY DEF NextKind, Kinds
<1>3. o.about \in Documents /\ row \in SUBSET Contents
  BY <1>1, <1>2 DEF Links, StructureInv, StructureTypes, ChildRows
<1>4. /\ next \in Links /\ next.about = o.about /\ next.of = o.of
      /\ next.left = o.left \ {k} /\ next.rows = [o.rows EXCEPT ![k] = row]
  BY <1>1, <1>2, <1>3 DEF Links, ChildRows
<1>5. next.outdated = o.outdated
  BY <1>1 DEF Links
<1>6. LinkCopy(next)
  <2>1. LinkCopy(o)
    BY <1>1 DEF GoodCopy
  <2>2. o.rows \in ChildRows
    BY <1>1 DEF Links
  <2> QED
    BY <1>2, <1>4, <1>5, <2>1, <2>2 DEF LinkCopy, ChildRows
<1>7. GoodCopy(next)
  BY <1>4, <1>6 DEF GoodCopy, Links, Updates, Analyses, Generations
<1>8. Go(c, next) /\ UNCHANGED <<document, children, corpus, patterns, analyses>>
  BY DEF LinkReads, Go
<1> QED
  BY <1>4, <1>7, <1>8, OnlyCaller DEF AllOperations

\* link_to_vdb_records stores the bundle it read.
LEMMA LinkWritesStep ==
  ASSUME StructureInv, NEW c \in Callers, LinkWrites(c)
  PROVE  StructureInv'
<1> PICK o : o = caller[c]
  OBVIOUS
<1>1. o \in Links
  BY Operation DEF LinkWrites, StructureInv
<1>2. o.about \in Documents /\ o.of \in Contents /\ o.rows \in ChildRows
  BY <1>1 DEF Links
<1> PICK r : r = [of |-> o.of, linked |-> TRUE]
  OBVIOUS
<1>3. r \in DocumentRecords
  BY <1>2 DEF DocumentRecords
<1> PICK d : d = o.about
  OBVIOUS
<1>4. /\ document' = [document EXCEPT ![d] = r]
      /\ children' = [children EXCEPT ![d] = o.rows]
      /\ Wrote(c, d, Ready) /\ UNCHANGED <<corpus, patterns, analyses>>
  BY DEF LinkWrites, StoredChildren, Wrote
<1> QED
  BY <1>2, <1>3, <1>4, DocumentWritten

\* The corpus is created, updated and deleted.
LEMMA CorpusStep ==
  ASSUME StructureInv, NEW c \in Callers,
         \/ \E members \in SUBSET Documents :
              CorpusCreate(c, members) \/ CorpusUpdateWrites(c, members)
         \/ CorpusDelete(c)
  PROVE  StructureInv'
<1>1. ASSUME NEW members \in SUBSET Documents, CorpusCreate(c, members)
      PROVE  StructureInv'
  <2>1. corpus' \in CorpusRecords
    BY <1>1, NoRowsTyped DEF CorpusCreate, Unanalysed, CorpusRecords
  <2>2. /\ Wrote(c, "corpus", Ready) /\ UNCHANGED <<document, children, patterns>>
    BY <1>1 DEF CorpusCreate, Wrote
  <2> QED
    BY <2>1, <2>2, ReadyGood, CorpusWritten DEF StructureInv, StructureTypes
<1>2. ASSUME NEW members \in SUBSET Documents, CorpusUpdateWrites(c, members)
      PROVE  StructureInv'
  <2>1. caller[c] \in Updates
    BY <1>2, Operation DEF CorpusUpdateWrites, StructureInv
  <2>2. caller[c].copy \in CorpusRecords
    BY <2>1 DEF Updates
  <2>3. corpus' \in CorpusRecords
    <3>1. PICK summary \in {caller[c].copy.summary, Unanalysed} :
            corpus' = [members |-> members, summary |-> summary]
      BY <1>2 DEF CorpusUpdateWrites
    <3>2. summary \in ChildRows
      BY <2>2, NoRowsTyped DEF CorpusRecords, Unanalysed
    <3> QED
      BY <3>1, <3>2 DEF CorpusRecords
  <2>4. Wrote(c, "corpus", Ready) /\ UNCHANGED <<document, children, patterns>>
    BY <1>2 DEF CorpusUpdateWrites, Wrote
  <2> QED
    BY <2>3, <2>4, ReadyGood, CorpusWritten DEF StructureInv, StructureTypes
<1>3. CASE CorpusDelete(c)
  <2>1. /\ Wrote(c, "corpus", Ready) /\ UNCHANGED <<document, children>>
        /\ corpus' = Gone /\ patterns' = NoRows
    BY <1>3 DEF CorpusDelete, PatternsAfterDelete, Wrote
  <2> QED
    BY <2>1, NoRowsTyped, ReadyGood, CorpusWritten
<1> QED
  BY <1>1, <1>2, <1>3

\* An update of the corpus reads it.
LEMMA CorpusUpdateStep ==
  ASSUME StructureInv, NEW c \in Callers, CorpusUpdate(c)
  PROVE  StructureInv'
<1> PICK next : next = [op |-> "update", about |-> "corpus", outdated |-> FALSE,
                        copy |-> corpus]
  OBVIOUS
<1>1. next \in Updates
  BY DEF CorpusUpdate, StructureInv, StructureTypes, Updates
<1>2. UpdateCopy(next)
  BY DEF UpdateCopy
<1>3. GoodCopy(next)
  BY <1>1, <1>2 DEF GoodCopy, Links, Updates, Analyses, Generations
<1>4. Go(c, next) /\ UNCHANGED <<document, children, corpus, patterns, analyses>>
  BY DEF CorpusUpdate, Go
<1> QED
  BY <1>1, <1>3, <1>4, OnlyCaller DEF AllOperations

\* An analysis reads, and stores twice.
LEMMA AnalysisNotStored ==
  ASSUME NEW o \in Analyses, ~o.stored
  PROVE  GoodCopy(o)
  BY DEF GoodCopy, AnalyseCopy, Links, Updates, Analyses, Generations

\* An analysis reads the corpus.
LEMMA AnalyseStep ==
  ASSUME StructureInv, NEW c \in Callers, Analyse(c)
  PROVE  StructureInv'
<1> PICK next : next = [op |-> "analyse", about |-> "corpus", outdated |-> FALSE,
                        copy |-> corpus, left |-> corpus.members \X Kinds,
                        found |-> NoRows, stored |-> FALSE]
  OBVIOUS
<1>1. corpus \in CorpusRecords
  BY DEF Analyse, StructureInv, StructureTypes
<1>2. corpus.members \X Kinds \in SUBSET (Documents \X Kinds)
  BY <1>1 DEF CorpusRecords
<1>3. next \in Analyses
  BY <1>1, <1>2, NoRowsTyped DEF Analyses
<1>4. ~next.stored
  OBVIOUS
<1>5. Go(c, next) /\ UNCHANGED <<document, children, corpus, patterns, analyses>>
  BY DEF Analyse, Go
<1> QED
  BY <1>3, <1>4, <1>5, AnalysisNotStored, OnlyCaller DEF AllOperations

\* An analysis reads the child rows of a member.
LEMMA AnalyseReadsStep ==
  ASSUME StructureInv, NEW c \in Callers, NEW d \in Documents,
         AnalyseReads(c, d) \/ AnalyseReadsOn(c, d)
  PROVE  StructureInv'
<1> PICK o : o = caller[c]
  OBVIOUS
<1>1. o \in Analyses /\ GoodCopy(o)
  BY Operation DEF AnalyseReads, AnalyseReadsOn, StructureInv
<1>2. children[d] \in ChildRows
  BY DEF StructureInv, StructureTypes
<1>3. PICK k \in Kinds, left \in SUBSET o.left :
        caller' = [caller EXCEPT ![c] =
                     [o EXCEPT !.found[k] = @ \cup children[d][k], !.left = left]]
  <2>1. CASE AnalyseReads(c, d)
    <3>1. o.left \ (IF document[d] = Gone THEN {d} \X Kinds ELSE {<<d, "sections">>})
            \in SUBSET o.left
      OBVIOUS
    <3> QED
      BY <2>1, <3>1 DEF AnalyseReads, Go, Kinds
  <2>2. CASE AnalyseReadsOn(c, d)
    BY <2>2 DEF AnalyseReadsOn, Go, Kinds
  <2> QED
    BY <2>1, <2>2
<1> PICK row : row = children[d][k]
  OBVIOUS
<1> PICK next : next = [o EXCEPT !.found[k] = @ \cup row, !.left = left]
  OBVIOUS
<1>4. row \in SUBSET Contents
  BY <1>2 DEF ChildRows
<1>5. next \in Analyses
  BY <1>1, <1>4 DEF Analyses, ChildRows
<1>6. next.stored <=> o.stored
  BY <1>1 DEF Analyses
<1>7. ~o.stored
  <2>1. o.left # {}
    <3>1. CASE AnalyseReads(c, d)
      <4>1. <<d, "sections">> \in {d} \X Kinds
        BY DEF Kinds
      <4> QED
        BY <3>1, <4>1 DEF AnalyseReads
    <3>2. CASE AnalyseReadsOn(c, d)
      <4>1. "styles" \in {x \in Kinds : <<d, x>> \in o.left}
        BY <3>2 DEF AnalyseReadsOn
      <4> QED
        BY <4>1
    <3> QED
      BY <3>1, <3>2
  <2> QED
    BY <1>1, <2>1 DEF GoodCopy, AnalyseCopy
<1>8. Go(c, next) /\ UNCHANGED <<document, children, corpus, patterns, analyses>>
  BY <1>3 DEF AnalyseReads, AnalyseReadsOn, Go
<1> QED
  BY <1>5, <1>6, <1>7, <1>8, AnalysisNotStored, OnlyCaller DEF AllOperations

\* An analysis replaces the patterns.
LEMMA AnalyseStoresStep ==
  ASSUME StructureInv, NEW c \in Callers, AnalyseStores(c)
  PROVE  StructureInv'
<1> PICK o : o = caller[c]
  OBVIOUS
<1>1. o \in Analyses /\ o.left = {}
  BY Operation DEF AnalyseStores, StructureInv
<1> PICK next : next = [o EXCEPT !.stored = TRUE]
  OBVIOUS
<1>2. /\ next \in Analyses /\ next.left = o.left /\ next.found = o.found
      /\ o.found \in ChildRows
  BY <1>1 DEF Analyses
<1>3. /\ patterns' = o.found
      /\ Wrote(c, "corpus", next) /\ UNCHANGED <<document, children, corpus>>
  BY DEF AnalyseStores, Replaced, Wrote
<1>4. GoodCopy(next)'
  BY <1>1, <1>2, <1>3
  DEF GoodCopy, AnalyseCopy, Links, Updates, Analyses, Generations
<1> QED
  BY <1>2, <1>3, <1>4, CorpusWritten DEF StructureInv, StructureTypes

\* An analysis writes the corpus it read.
LEMMA AnalyseFinishesStep ==
  ASSUME StructureInv, NEW c \in Callers, AnalyseFinishes(c)
  PROVE  StructureInv'
<1>1. caller[c] \in Analyses
  BY Operation DEF AnalyseFinishes, StructureInv
<1>2. caller[c].copy \in CorpusRecords /\ caller[c].found \in ChildRows
  BY <1>1 DEF Analyses
<1>3. corpus' \in CorpusRecords
  BY <1>2 DEF AnalyseFinishes, CorpusRecords
<1>4. Wrote(c, "corpus", Ready) /\ UNCHANGED <<document, children, patterns>>
  BY DEF AnalyseFinishes, Wrote
<1> QED
  BY <1>3, <1>4, ReadyGood, CorpusWritten DEF StructureInv, StructureTypes

\* What the patterns are of: nothing, or an analysis that stored them.
PatternsKnown == patterns = NoRows \/ patterns \in analyses

\* A generation reads the patterns of the sections.
LEMMA GenerateStep ==
  ASSUME StructureInv, PatternsKnown, NEW c \in Callers, Generate(c)
  PROVE  StructureInv'
<1> PICK next : next = [op |-> "generate", about |-> "corpus", outdated |-> FALSE,
                        sections |-> patterns["sections"]]
  OBVIOUS
<1>1. next \in Generations
  BY DEF StructureInv, StructureTypes, ChildRows, Kinds, Generations
<1>2. patterns \in analyses
  BY DEF Generate, PatternsKnown, NoRows, Kinds
<1>3. GenerateCopy(next)
  BY <1>2 DEF GenerateCopy
<1>4. GoodCopy(next)
  BY <1>1, <1>3 DEF GoodCopy, Links, Updates, Analyses, Generations
<1>5. Go(c, next) /\ UNCHANGED <<document, children, corpus, patterns, analyses>>
  BY DEF Generate, Go
<1> QED
  BY <1>1, <1>4, <1>5, OnlyCaller DEF AllOperations

\* An operation that ends without a write to what others copy.
LEMMA EndsStep ==
  ASSUME StructureInv, NEW c \in Callers, GenerateStores(c) \/ AnalyseFails(c)
  PROVE  StructureInv'
<1>1. Go(c, Ready) /\ UNCHANGED <<document, children, corpus, patterns, analyses>>
  BY DEF GenerateStores, AnalyseFails, Go
<1>2. GoodCopy(Ready)
  BY StructureConstants DEF GoodCopy
<1> QED
  BY <1>1, <1>2, OnlyCaller

\* The invariant is about the rows and the operations.
LEMMA StructureUnchanged ==
  ASSUME StructureInv, UNCHANGED <<document, children, corpus, patterns, caller, analyses>>
  PROVE  StructureInv'
  BY DEF StructureInv, StructureTypes, GoodCopy, LinkCopy, UpdateCopy, AnalyseCopy,
     GenerateCopy

\* Every step is one of these.
LEMMA StructureSteps ==
  ASSUME [StructureNext]_structureVars
  PROVE  \/ UNCHANGED <<document, children, corpus, patterns, caller, crossed, analyses>>
            /\ templates' \subseteq templates
         \/ \E c \in Callers :
              \/ \E d \in Documents :
                   \/ \E content \in Contents : Create(c, d, content)
                   \/ Delete(c, d) \/ Link(c, d)
                   \/ AnalyseReads(c, d) \/ AnalyseReadsOn(c, d)
              \/ LinkReads(c) \/ LinkWrites(c)
              \/ \E members \in SUBSET Documents :
                   CorpusCreate(c, members) \/ CorpusUpdateWrites(c, members)
              \/ CorpusUpdate(c) \/ CorpusDelete(c)
              \/ Analyse(c) \/ AnalyseStores(c) \/ AnalyseFinishes(c) \/ AnalyseFails(c)
              \/ Generate(c) \/ GenerateStores(c)
<1>1. CASE UNCHANGED structureVars
  BY <1>1 DEF structureVars
<1>2. ASSUME NEW c \in Callers, NEW t, TemplateDelete(c, t)
      PROVE  UNCHANGED <<document, children, corpus, patterns, caller, crossed, analyses>>
             /\ templates' \subseteq templates
  BY <1>2 DEF TemplateDelete
<1> QED
  BY <1>1, <1>2 DEF StructureNext, Begins, Continues

\* Every step keeps the copies that are not outdated true.
LEMMA StructureStep ==
  StructureInv /\ PatternsKnown /\ [StructureNext]_structureVars => StructureInv'
  BY StructureSteps, StructureUnchanged, BundleStep, LinkStep, LinkReadsStep,
     LinkWritesStep, CorpusStep, CorpusUpdateStep, AnalyseStep, AnalyseReadsStep,
     AnalyseStoresStep, AnalyseFinishesStep, GenerateStep, EndsStep

\* The stored patterns are always those of some analysis, or none.
LEMMA PatternsStep ==
  StructureInv /\ PatternsKnown /\ [StructureNext]_structureVars => PatternsKnown'
<1> SUFFICES ASSUME PatternsKnown, [StructureNext]_structureVars PROVE PatternsKnown'
  OBVIOUS
<1>1. ASSUME UNCHANGED patterns, analyses \subseteq analyses' PROVE PatternsKnown'
  BY <1>1 DEF PatternsKnown
<1>2. ASSUME NEW c \in Callers, AnalyseStores(c) PROVE PatternsKnown'
  BY <1>2 DEF AnalyseStores, Replaced, PatternsKnown
<1>3. ASSUME NEW c \in Callers, CorpusDelete(c) PROVE PatternsKnown'
  BY <1>3 DEF CorpusDelete, PatternsAfterDelete, PatternsKnown
<1>4. ASSUME NEW c \in Callers,
             \/ \E d \in Documents :
                  \/ \E content \in Contents : Create(c, d, content)
                  \/ Delete(c, d) \/ Link(c, d)
                  \/ AnalyseReads(c, d) \/ AnalyseReadsOn(c, d)
             \/ LinkReads(c) \/ LinkWrites(c)
             \/ \E members \in SUBSET Documents :
                  CorpusCreate(c, members) \/ CorpusUpdateWrites(c, members)
             \/ CorpusUpdate(c) \/ Analyse(c) \/ AnalyseFinishes(c) \/ AnalyseFails(c)
             \/ Generate(c) \/ GenerateStores(c)
      PROVE  UNCHANGED <<patterns, analyses>>
  BY <1>4 DEF Create, Delete, Link, AnalyseReads, AnalyseReadsOn, LinkReads, LinkWrites,
     CorpusCreate, CorpusUpdateWrites, CorpusUpdate, Analyse, AnalyseFinishes, AnalyseFails,
     Generate, GenerateStores
<1> QED
  BY <1>1, <1>2, <1>3, <1>4, StructureSteps

-----------------------------------------------------------------------------
(* Structure: what the stores hold.                                          *)

\* Every step keeps bundles whole.
LEMMA BundlesStep ==
  ASSUME StructureInv, WholeBundles, [StructureNext]_structureVars
  PROVE  WholeBundles'
<1> USE DEF StructureInv, StructureTypes
<1>1. ASSUME UNCHANGED <<document, children>>, crossed \cap Documents \subseteq crossed'
      PROVE  WholeBundles'
  BY <1>1 DEF WholeBundles
<1>2. ASSUME NEW c \in Callers, NEW d \in Documents, NEW content \in Contents,
             Create(c, d, content)
      PROVE  WholeBundles'
  <2>1. [of |-> content, linked |-> FALSE] # Gone
    <3>1. [of |-> content, linked |-> FALSE] \in DocumentRecords
      BY DEF DocumentRecords
    <3> QED
      BY <3>1, StructureConstants
  <2> QED
    BY <1>2, <2>1 DEF Create, StoredChildren, WholeBundles
<1>3. ASSUME NEW c \in Callers, NEW d \in Documents, Delete(c, d) PROVE WholeBundles'
  BY <1>3 DEF Delete, WholeBundles
<1>4. ASSUME NEW c \in Callers, LinkWrites(c) PROVE WholeBundles'
  <2> PICK o : o = caller[c]
    OBVIOUS
  <2> PICK d : d = o.about
    OBVIOUS
  <2> PICK r : r = [of |-> o.of, linked |-> TRUE]
    OBVIOUS
  <2>1. o \in Links /\ o.left = {} /\ LinkCopy(o)
    BY <1>4, Operation DEF LinkWrites, GoodCopy
  <2>2. d \in Documents /\ o.of \in Contents /\ o.rows \in ChildRows
    BY <2>1 DEF Links
  <2>3. r # Gone /\ r.of = o.of
    <3>1. r \in DocumentRecords
      BY <2>2 DEF DocumentRecords
    <3> QED
      BY <3>1, StructureConstants
  <2>4. /\ document' = [document EXCEPT ![d] = r]
        /\ children' = [children EXCEPT ![d] = o.rows]
        /\ crossed \subseteq crossed'
    BY <1>4 DEF LinkWrites, StoredChildren, Cross
  <2>5. d \in crossed' \/ (d \notin crossed /\ ~o.outdated) \/ d \in crossed
    BY <1>4 DEF LinkWrites, Cross
  <2>6. ASSUME d \notin crossed' PROVE \A k \in Kinds : o.rows[k] = {o.of}
    <3>1. d \notin crossed /\ ~o.outdated
      BY <2>4, <2>5, <2>6
    <3> QED
      BY <2>1, <2>2, <3>1 DEF LinkCopy, WholeBundles
  <2>7. ASSUME NEW e \in Documents
        PROVE  /\ document'[e] = Gone => children'[e] = NoRows
               /\ document'[e] # Gone /\ e \notin crossed' =>
                    \A k \in Kinds : children'[e][k] = {document'[e].of}
    <3>1. CASE e = d
      BY <2>2, <2>3, <2>4, <2>6, <3>1
    <3>2. CASE e # d
      BY <2>4, <3>2 DEF WholeBundles
    <3> QED
      BY <3>1, <3>2
  <2> QED
    BY <2>7 DEF WholeBundles
<1>5. ASSUME NEW c \in Callers, AnalyseFinishes(c) PROVE WholeBundles'
  BY <1>1, <1>5, StructureConstants DEF AnalyseFinishes
<1>6. ASSUME NEW c \in Callers, NEW d \in Documents,
             Link(c, d) \/ AnalyseReads(c, d) \/ AnalyseReadsOn(c, d)
      PROVE  WholeBundles'
  <2>1. UNCHANGED <<document, children>> /\ crossed \subseteq crossed'
    BY <1>6 DEF Link, AnalyseReads, AnalyseReadsOn, Cross
  <2> QED
    BY <1>1, <2>1
<1>7. ASSUME NEW c \in Callers, LinkReads(c) PROVE WholeBundles'
  <2>1. UNCHANGED <<document, children>> /\ crossed \subseteq crossed'
    BY <1>7 DEF LinkReads, Cross
  <2> QED
    BY <1>1, <2>1
<1>8. ASSUME NEW c \in Callers, NEW members \in SUBSET Documents,
             CorpusCreate(c, members) \/ CorpusUpdateWrites(c, members)
      PROVE  WholeBundles'
  <2>1. UNCHANGED <<document, children>> /\ crossed \subseteq crossed'
    BY <1>8 DEF CorpusCreate, CorpusUpdateWrites, Cross
  <2> QED
    BY <1>1, <2>1
<1>9. ASSUME NEW c \in Callers,
             \/ CorpusUpdate(c) \/ CorpusDelete(c) \/ Analyse(c) \/ AnalyseStores(c)
             \/ AnalyseFails(c) \/ Generate(c) \/ GenerateStores(c)
      PROVE  WholeBundles'
  <2>1. UNCHANGED <<document, children>> /\ crossed \subseteq crossed'
    BY <1>9 DEF CorpusUpdate, CorpusDelete, Analyse, AnalyseStores, AnalyseFails,
       Generate, GenerateStores, Cross
  <2> QED
    BY <1>1, <2>1
<1>10. ASSUME UNCHANGED <<document, children, corpus, patterns, caller, crossed, analyses>>
       PROVE  WholeBundles'
  BY <1>1, <1>10
<1> QED
  BY <1>2, <1>3, <1>4, <1>5, <1>6, <1>7, <1>8, <1>9, <1>10, StructureSteps

\* A stored bundle is the outcome of one extraction, and a deleted document
\* leaves no child rows, for any overlap of stores, deletes and links.
THEOREM BundlesAreWhole == StructureSpec => []WholeBundles
<1>1. StructureInit => StructureInv /\ PatternsKnown /\ WholeBundles
  BY StructureStart DEF StructureInit, PatternsKnown, WholeBundles
<1>2. StructureInv /\ PatternsKnown /\ WholeBundles /\ [StructureNext]_structureVars =>
        (StructureInv /\ PatternsKnown /\ WholeBundles)'
  BY StructureStep, PatternsStep, BundlesStep
<1> QED
  BY <1>1, <1>2, PTL DEF StructureSpec

\* No analysis is between its two writes.
Quiet == \A c \in Callers : At(c, "analyse") => ~caller[c].stored

\* If no analysis is between its writes after a step, none was before.
LEMMA QuietBefore ==
  ASSUME StructureInv, NEW c \in Callers, Quiet',
         At(c, "analyse") => ~caller[c].stored,
         \/ \E thing, next : Wrote(c, thing, next)
         \/ \E next : Go(c, next)
  PROVE  Quiet
<1> SUFFICES ASSUME NEW x \in Callers, At(x, "analyse"), caller[x].stored
             PROVE  FALSE
  BY DEF Quiet
<1>1. x # c /\ caller[x] \in Analyses
  BY Operation DEF StructureInv
<1>2. caller'[x] = caller[x] \/ caller'[x] = Outdated(caller[x])
  BY <1>1, WroteEffect, GoEffect DEF StructureInv
<1>3. caller'[x] \in Analyses /\ caller'[x].stored
  <2> PICK o : o = caller[x]
    OBVIOUS
  <2>1. Outdated(o) \in Analyses /\ (Outdated(o).stored <=> o.stored)
    BY <1>1, OutdatedIs
  <2> QED
    BY <1>1, <1>2, <2>1
<1>4. At(x, "analyse")'
  BY <1>3, StructureConstants DEF At, Analyses
<1> QED
  BY <1>3, <1>4 DEF Quiet

\* The summary and the patterns fit together.
Fits ==
  /\ corpus = Gone => patterns = NoRows
  /\ corpus # Gone /\ corpus.summary # Unanalysed => patterns = corpus.summary

\* AnalysisCoherent, with the state it speaks of named.
LEMMA CoherentIs == AnalysisCoherent <=> ("corpus" \notin crossed /\ Quiet => Fits)
  BY DEF AnalysisCoherent, Quiet, Fits

\* Every step keeps the summary and the patterns of one analysis.
LEMMA CoherentStep ==
  ASSUME StructureInv, AnalysisCoherent, [StructureNext]_structureVars
  PROVE  AnalysisCoherent'
<1> SUFFICES ASSUME "corpus" \notin crossed', Quiet' PROVE Fits'
  BY DEF AnalysisCoherent, Quiet, Fits
<1>1. ASSUME "corpus" \notin crossed, Quiet PROVE Fits
  BY <1>1, CoherentIs
<1>2. ASSUME UNCHANGED <<corpus, patterns, caller, crossed>> PROVE Fits'
  BY <1>1, <1>2 DEF Fits, Quiet, At
<1>3. ASSUME NEW c \in Callers, UNCHANGED <<corpus, patterns>>, "corpus" \notin crossed,
             At(c, "analyse") => ~caller[c].stored,
             (\E thing, next : Wrote(c, thing, next)) \/ (\E next : Go(c, next))
      PROVE  Fits'
  BY <1>1, <1>3, QuietBefore DEF Fits
<1>4. ASSUME NEW c \in Callers, NEW d \in Documents,
             \/ \E content \in Contents : Create(c, d, content)
             \/ Delete(c, d)
      PROVE  Fits'
  <2>1. "corpus" \notin crossed
    BY <1>4, StructureConstants DEF Create, Delete
  <2>2. caller[c] = Ready /\ UNCHANGED <<corpus, patterns>>
        /\ \E thing, next : Wrote(c, thing, next)
    BY <1>4 DEF Create, Delete
  <2> QED
    BY <1>3, <2>1, <2>2 DEF At
<1>5. ASSUME NEW c \in Callers, NEW d \in Documents, Link(c, d) \/ AnalyseReads(c, d) \/ AnalyseReadsOn(c, d)
      PROVE  Fits'
  <2>1. UNCHANGED <<corpus, patterns, crossed>> /\ \E next : Go(c, next)
    BY <1>5 DEF Link, AnalyseReads, AnalyseReadsOn
  <2>2. At(c, "analyse") => ~caller[c].stored
    <3>1. CASE Link(c, d)
      BY <3>1 DEF Link, At
    <3>2. CASE AnalyseReads(c, d) \/ AnalyseReadsOn(c, d)
      <4> PICK o : o = caller[c]
        OBVIOUS
      <4>1. o \in Analyses /\ GoodCopy(o)
        BY <3>2, Operation DEF AnalyseReads, AnalyseReadsOn, StructureInv
      <4>2. CASE AnalyseReads(c, d)
        <5>1. <<d, "sections">> \in {d} \X Kinds
          BY DEF Kinds
        <5>2. o.left # {}
          BY <4>2, <5>1 DEF AnalyseReads
        <5> QED
          BY <4>1, <5>2 DEF GoodCopy, AnalyseCopy
      <4>3. CASE AnalyseReadsOn(c, d)
        <5>1. "styles" \in {x \in Kinds : <<d, x>> \in o.left}
          BY <4>3 DEF AnalyseReadsOn
        <5>2. o.left # {}
          BY <5>1
        <5> QED
          BY <4>1, <5>2 DEF GoodCopy, AnalyseCopy
      <4> QED
        BY <3>2, <4>2, <4>3
    <3> QED
      BY <1>5, <3>1, <3>2
  <2> QED
    BY <1>3, <2>1, <2>2
<1>6. ASSUME NEW c \in Callers,
             LinkReads(c) \/ CorpusUpdate(c) \/ Analyse(c) \/ Generate(c) \/ GenerateStores(c)
      PROVE  Fits'
  <2>1. ~At(c, "analyse")
    BY <1>6 DEF LinkReads, CorpusUpdate, Analyse, Generate, GenerateStores, At
  <2>2. UNCHANGED <<corpus, patterns, crossed>> /\ \E next : Go(c, next)
    BY <1>6 DEF LinkReads, CorpusUpdate, Analyse, Generate, GenerateStores
  <2> QED
    BY <1>3, <2>1, <2>2
<1>7. ASSUME NEW c \in Callers, LinkWrites(c) PROVE Fits'
  <2>1. ~At(c, "analyse") /\ "corpus" \notin crossed
    BY <1>7 DEF LinkWrites, At, Cross
  <2>2. UNCHANGED <<corpus, patterns>> /\ \E thing, next : Wrote(c, thing, next)
    BY <1>7 DEF LinkWrites
  <2> QED
    BY <1>3, <2>1, <2>2
<1>8. ASSUME NEW c \in Callers, NEW members \in SUBSET Documents, CorpusCreate(c, members)
      PROVE  Fits'
  <2>1. [members |-> members, summary |-> Unanalysed] \in CorpusRecords
    BY NoRowsTyped DEF CorpusRecords, Unanalysed
  <2> QED
    BY <1>8, <2>1, StructureConstants DEF CorpusCreate, Fits
<1>9. ASSUME NEW c \in Callers, NEW members \in SUBSET Documents,
             CorpusUpdateWrites(c, members)
      PROVE  Fits'
  <2> PICK o : o = caller[c]
    OBVIOUS
  <2>1. o \in Updates /\ UpdateCopy(o) /\ ~At(c, "analyse")
    BY <1>9, Operation DEF CorpusUpdateWrites, StructureInv, GoodCopy, At
  <2>2. "corpus" \notin crossed /\ ~o.outdated
    BY <1>9 DEF CorpusUpdateWrites, Cross
  <2>3. o.copy \in CorpusRecords /\ corpus = o.copy
    BY <2>1, <2>2 DEF Updates, UpdateCopy
  <2>4. Quiet
    BY <1>9, <2>1, QuietBefore DEF CorpusUpdateWrites
  <2>5. PICK summary \in {o.copy.summary, Unanalysed} :
          corpus' = [members |-> members, summary |-> summary]
    BY <1>9 DEF CorpusUpdateWrites
  <2>6. corpus'.summary = summary /\ corpus # Gone /\ UNCHANGED patterns
    BY <1>9, <2>3, <2>5, StructureConstants DEF CorpusUpdateWrites
  <2>7. corpus' # Gone
    <3>1. summary \in ChildRows
      BY <2>3, NoRowsTyped DEF CorpusRecords, Unanalysed
    <3> QED
      BY <2>5, <3>1, StructureConstants DEF CorpusRecords
  <2> QED
    BY <1>1, <2>2, <2>3, <2>4, <2>5, <2>6, <2>7 DEF Fits
<1>10. ASSUME NEW c \in Callers, CorpusDelete(c) PROVE Fits'
  BY <1>10 DEF CorpusDelete, PatternsAfterDelete, Fits
<1>11. ASSUME NEW c \in Callers, AnalyseStores(c) PROVE Fits'
  <2> PICK o : o = caller[c]
    OBVIOUS
  <2>1. o \in Analyses /\ caller'[c] = [o EXCEPT !.stored = TRUE]
    BY <1>11, Operation, WroteEffect DEF AnalyseStores, StructureInv
  <2>2. caller'[c].stored /\ caller'[c].op = "analyse" /\ caller'[c] \in Analyses
    BY <2>1 DEF Analyses
  <2>3. At(c, "analyse")'
    BY <2>2, StructureConstants DEF At
  <2> QED
    BY <2>2, <2>3 DEF Quiet
<1>12. ASSUME NEW c \in Callers, AnalyseFinishes(c) PROVE Fits'
  <2> PICK o : o = caller[c]
    OBVIOUS
  <2>1. o \in Analyses /\ AnalyseCopy(o) /\ o.stored
    BY <1>12, Operation DEF AnalyseFinishes, StructureInv, GoodCopy
  <2>2. ~o.outdated
    BY <1>12 DEF AnalyseFinishes
  <2>3. patterns = o.found /\ UNCHANGED patterns
    BY <1>12, <2>1, <2>2 DEF AnalyseCopy, AnalyseFinishes
  <2>4. o.copy \in CorpusRecords /\ o.found \in ChildRows
    BY <2>1 DEF Analyses
  <2>5. corpus' \in CorpusRecords /\ corpus'.summary = o.found
    BY <1>12, <2>4 DEF AnalyseFinishes, CorpusRecords
  <2> QED
    BY <2>3, <2>5, StructureConstants DEF Fits
<1>13. ASSUME NEW c \in Callers, AnalyseFails(c) PROVE Fits'
  BY <1>13 DEF AnalyseFails
<1> QED
  BY <1>2, <1>4, <1>5, <1>6, <1>7, <1>8, <1>9, <1>10, <1>11, <1>12, <1>13, StructureSteps

\* The scores of the corpus and the patterns are of one analysis, but for one
\* that is between its writes, was overtaken or cut short.
THEOREM AnalysesAreCoherent == StructureSpec => []AnalysisCoherent
<1>1. StructureInit => StructureInv /\ PatternsKnown /\ AnalysisCoherent
  BY StructureStart DEF StructureInit, PatternsKnown, AnalysisCoherent
<1>2. StructureInv /\ PatternsKnown /\ AnalysisCoherent /\ [StructureNext]_structureVars =>
        (StructureInv /\ PatternsKnown /\ AnalysisCoherent)'
  BY StructureStep, PatternsStep, CoherentStep
<1> QED
  BY <1>1, <1>2, PTL DEF StructureSpec

\* Every step keeps the templates of one analysis.
LEMMA TemplatesStep ==
  ASSUME StructureInv, TemplateOfOneAnalysis, [StructureNext]_structureVars
  PROVE  TemplateOfOneAnalysis'
<1>1. ASSUME NEW c \in Callers, GenerateStores(c) PROVE TemplateOfOneAnalysis'
  <2> PICK o : o = caller[c]
    OBVIOUS
  <2>1. o \in Generations /\ GenerateCopy(o)
    BY <1>1, Operation DEF GenerateStores, StructureInv, GoodCopy
  <2> PICK new : new = [sections |-> o.sections, styles |-> patterns["styles"],
                        crossed |-> o.outdated]
    OBVIOUS
  <2>2. templates' = templates \cup {new} /\ analyses' = analyses
    BY <1>1 DEF GenerateStores
  <2>3. ASSUME ~new.crossed PROVE [sections |-> new.sections, styles |-> new.styles] \in analyses
    <3>1. patterns \in analyses /\ o.sections = patterns["sections"]
      BY <2>1, <2>3 DEF GenerateCopy
    <3>2. [sections |-> o.sections, styles |-> patterns["styles"]] = patterns
      BY <3>1 DEF StructureInv, StructureTypes, ChildRows, Kinds
    <3> QED
      BY <3>1, <3>2
  <2> QED
    BY <2>2, <2>3 DEF TemplateOfOneAnalysis
<1>2. ASSUME templates' \subseteq templates, analyses \subseteq analyses'
      PROVE  TemplateOfOneAnalysis'
  BY <1>2 DEF TemplateOfOneAnalysis
<1>3. ASSUME NEW c \in Callers,
             \/ \E d \in Documents :
                  \/ \E content \in Contents : Create(c, d, content)
                  \/ Delete(c, d) \/ Link(c, d)
                  \/ AnalyseReads(c, d) \/ AnalyseReadsOn(c, d)
             \/ LinkReads(c) \/ LinkWrites(c)
             \/ \E members \in SUBSET Documents :
                  CorpusCreate(c, members) \/ CorpusUpdateWrites(c, members)
             \/ CorpusUpdate(c) \/ CorpusDelete(c)
             \/ Analyse(c) \/ AnalyseStores(c) \/ AnalyseFinishes(c) \/ AnalyseFails(c)
             \/ Generate(c)
      PROVE  templates' = templates /\ analyses \subseteq analyses'
  BY <1>3 DEF Create, Delete, Link, AnalyseReads, AnalyseReadsOn, LinkReads, LinkWrites,
     CorpusCreate, CorpusUpdateWrites, CorpusUpdate, CorpusDelete, Analyse, AnalyseStores,
     AnalyseFinishes, AnalyseFails, Generate
<1> QED
  BY <1>1, <1>2, <1>3, StructureSteps

\* A template whose generation was not overlapped has its sections and its
\* style guide from one analysis, whatever else the other threads do.
THEOREM TemplatesAreOfOneAnalysis == StructureSpec => []TemplateOfOneAnalysis
<1>1. StructureInit => StructureInv /\ PatternsKnown /\ TemplateOfOneAnalysis
  BY StructureStart DEF StructureInit, PatternsKnown, TemplateOfOneAnalysis
<1>2. StructureInv /\ PatternsKnown /\ TemplateOfOneAnalysis /\ [StructureNext]_structureVars =>
        (StructureInv /\ PatternsKnown /\ TemplateOfOneAnalysis)'
  BY StructureStep, PatternsStep, TemplatesStep
<1> QED
  BY <1>1, <1>2, PTL DEF StructureSpec

-----------------------------------------------------------------------------
(* A filter delete and the records that ingests store while it runs.         *)

Executions == Jobs \cup Clients

Progress == [phase : {"none", "queued", "ready", "matched", "removed", "done", "failed", "lost"},
             matched : SUBSET Records,
             owed : SUBSET Records]

RecordTypes ==
  /\ local \in [Records -> {"absent", "active", "deleted"}]
  /\ backend \subseteq Records
  /\ handler \in [at : {"none", "inserted", "upserted"},
                  records : SUBSET Records, older : SUBSET Records]
  /\ handler.older \subseteq handler.records
  /\ deletion \in [Executions -> Progress]

\* What the execution x owes, and how much of it is done.  No ingest under way
\* can store it again or put its document back.
Owes(x) ==
  LET d == deletion[x] IN
  /\ d.owed \cap handler.records = {}
  /\ d.owed \subseteq Selected("store")
  /\ d.phase \in {"matched", "removed"} =>
       \A r \in d.owed : r \in Selected("process") /\ local[r] = "active" => r \in d.matched
  /\ d.phase \in {"removed", "done"} => d.owed \cap backend = {}
  /\ d.phase = "done" => \A r \in d.owed : r \in Selected("process") => local[r] # "active"

RemovalInv == RecordTypes /\ \A x \in Executions : Owes(x)

\* At the start no delete has begun.
LEMMA RemovalStart == RemovalInit => RemovalInv
<1> SUFFICES ASSUME RemovalInit PROVE RemovalInv
  OBVIOUS
<1>1. NotBegun \in Progress /\ NotBegun.owed = {} /\ NotBegun.phase = "none"
  BY DEF NotBegun, Progress
<1>2. RecordTypes
  BY <1>1 DEF RemovalInit, RecordTypes, NoIngest, Executions
<1>3. \A x \in Executions : Owes(x)
  BY <1>1 DEF RemovalInit, Owes, Executions
<1> QED
  BY <1>2, <1>3 DEF RemovalInv

\* An ingest begins: what it may store from now on is owed no longer.
LEMMA IngestBegins ==
  ASSUME RemovalInv, NEW r \in Records, NEW older \in SUBSET Records, Ingest(r, older)
  PROVE  RemovalInv'
<1>1. \A x \in Executions :
        LET new == [deletion[x] EXCEPT !.matched = @ \ {r}, !.owed = @ \ ({r} \cup older)] IN
        /\ deletion'[x] = new
        /\ new \in Progress
        /\ new.phase = deletion[x].phase
        /\ new.matched = deletion[x].matched \ {r}
        /\ new.owed = deletion[x].owed \ ({r} \cup older)
  BY DEF Ingest, RemovalInv, RecordTypes, Progress, Executions
<1>2. deletion' \in [Executions -> Progress]
  <2>1. deletion' = [x \in Executions |->
                        [deletion[x] EXCEPT !.matched = @ \ {r}, !.owed = @ \ ({r} \cup older)]]
    BY DEF Ingest, Executions
  <2>2. \A x \in Executions :
          [deletion[x] EXCEPT !.matched = @ \ {r}, !.owed = @ \ ({r} \cup older)] \in Progress
    BY <1>1
  <2> QED
    BY <2>1, <2>2
<1>3. /\ handler'.records = {r} \cup older /\ handler'.older = older
      /\ \A q \in Records \ {r} : local'[q] = local[q]
      /\ backend' = backend /\ selects' = selects
  BY DEF Ingest, RemovalInv, RecordTypes
<1>4. RecordTypes'
  BY <1>2 DEF Ingest, RemovalInv, RecordTypes
<1>5. ASSUME NEW x \in Executions PROVE Owes(x)'
  <2>1. /\ Owes(x) /\ deletion[x] \in Progress
        /\ deletion'[x].phase = deletion[x].phase
        /\ deletion'[x].matched = deletion[x].matched \ {r}
        /\ deletion'[x].owed = deletion[x].owed \ ({r} \cup older)
    BY <1>1 DEF RemovalInv, RecordTypes
  <2> QED
    BY <1>3, <2>1 DEF Owes, Selected, Progress
<1> QED
  BY <1>4, <1>5 DEF RemovalInv

\* An ingest goes on, ends or is rolled back: it touches no debt.
LEMMA IngestGoesOn ==
  ASSUME RemovalInv, IngestUpserts \/ IngestEnds \/ IngestFails
  PROVE  RemovalInv'
<1>1. /\ selects' = selects /\ deletion' = deletion
      /\ handler'.records \subseteq handler.records
      /\ backend' \subseteq backend \cup handler.records
      /\ \A q \in Records :
           local'[q] = "active" => local[q] = "active" \/ q \in handler.records
  BY DEF IngestUpserts, IngestEnds, IngestFails, NoIngest, RemovalInv, RecordTypes
<1>2. RecordTypes'
  BY DEF IngestUpserts, IngestEnds, IngestFails, NoIngest, RemovalInv, RecordTypes
<1>3. ASSUME NEW x \in Executions PROVE Owes(x)'
  <2>1. Owes(x) /\ deletion[x] \in Progress
    BY DEF RemovalInv, RecordTypes
  <2> QED
    BY <1>1, <2>1 DEF Owes, Selected, Progress
<1> QED
  BY <1>2, <1>3 DEF RemovalInv

\* What the step of one execution does to the debts of the others.
LEMMA ExecutionStep ==
  ASSUME RemovalInv, NEW x \in Executions,
         Match(x) \/ RemoveStored(x) \/ RemoveFails(x) \/ Mark(x)
  PROVE  RemovalInv'
<1>1. ASSUME NEW new \in Progress, deletion' = [deletion EXCEPT ![x] = new],
             handler' = handler, selects' = selects, backend' \subseteq backend,
             local' \in [Records -> {"absent", "active", "deleted"}],
             \A r \in Records : local'[r] = "active" => local[r] = "active",
             Owes(x)'
      PROVE  RemovalInv'
  <2>1. RecordTypes'
    BY <1>1 DEF RemovalInv, RecordTypes
  <2>2. ASSUME NEW y \in Executions \ {x} PROVE Owes(y)'
    <3>1. Owes(y) /\ deletion'[y] = deletion[y] /\ deletion[y] \in Progress
      BY <1>1 DEF RemovalInv, RecordTypes
    <3> QED
      BY <1>1, <3>1 DEF Owes, Progress, Selected
  <2> QED
    BY <1>1, <2>1, <2>2 DEF RemovalInv
<1>2. deletion[x] \in Progress /\ Owes(x) /\ RecordTypes
  BY DEF RemovalInv, RecordTypes
<1> PICK old \in Progress : old = deletion[x]
  BY <1>2
<1>3. CASE Match(x)
  <2> PICK new : new = [phase |-> "matched", matched |-> Matched,
                        owed |-> (backend \cap Selected("store")) \ handler.records]
    OBVIOUS
  <2>1. new \in Progress
    BY <1>2 DEF Progress, Matched, Selected, RecordTypes
  <2>2. deletion' = [deletion EXCEPT ![x] = new] /\ deletion'[x] = new
    BY <1>3, <1>2 DEF Match, RecordTypes
  <2>3. Owes(x)'
    BY <1>3, <1>2, <2>2 DEF Match, Matched, Selected, Owes, RecordTypes
  <2> QED
    BY <1>1, <1>2, <1>3, <2>1, <2>2, <2>3 DEF Match, RecordTypes
<1>4. CASE RemoveStored(x)
  <2> PICK new : new = [old EXCEPT !.phase = "removed"]
    OBVIOUS
  <2>1. new \in Progress /\ new.owed = old.owed /\ new.matched = old.matched
          /\ new.phase = "removed"
    BY DEF Progress
  <2>2. deletion' = [deletion EXCEPT ![x] = new] /\ deletion'[x] = new
    BY <1>4, <1>2 DEF RemoveStored, RecordTypes
  <2>3. Owes(x)'
    BY <1>4, <1>2, <2>1, <2>2 DEF RemoveStored, Found, Owes, Selected, RecordTypes
  <2> QED
    BY <1>1, <1>2, <1>4, <2>1, <2>2, <2>3 DEF RemoveStored, Found, RecordTypes
<1>5. CASE RemoveFails(x)
  <2> PICK phase \in {"ready", "failed"} :
             deletion' = [deletion EXCEPT ![x] = [NotBegun EXCEPT !.phase = phase]]
    BY <1>5 DEF RemoveFails
  <2> PICK new : new = [NotBegun EXCEPT !.phase = phase]
    OBVIOUS
  <2>1. new \in Progress /\ new.owed = {} /\ new.matched = {} /\ new.phase = phase
    BY DEF NotBegun, Progress
  <2>2. deletion' = [deletion EXCEPT ![x] = new] /\ deletion'[x] = new
    BY <1>2 DEF RecordTypes
  <2>3. Owes(x)'
    BY <2>1, <2>2 DEF Owes
  <2>4. /\ backend' \subseteq backend
        /\ handler' = handler /\ selects' = selects /\ local' = local
    BY <1>5 DEF RemoveFails
  <2> QED
    BY <1>1, <1>2, <2>1, <2>2, <2>3, <2>4 DEF RecordTypes
<1>6. CASE Mark(x)
  <2> PICK new : new = [old EXCEPT !.phase = "done", !.matched = {}]
    OBVIOUS
  <2>1. new \in Progress /\ new.owed = old.owed /\ new.phase = "done"
    BY DEF Progress
  <2>2. deletion' = [deletion EXCEPT ![x] = new] /\ deletion'[x] = new
    BY <1>6, <1>2 DEF Mark, RecordTypes
  <2>3. Owes(x)'
    BY <1>6, <1>2, <2>1, <2>2 DEF Mark, Owes, Selected, RecordTypes, Progress
  <2> QED
    BY <1>1, <1>2, <1>6, <2>1, <2>2, <2>3 DEF Mark, RecordTypes
<1> QED
  BY <1>3, <1>4, <1>5, <1>6

\* A submission moves no record; an execution it starts owes nothing yet.
LEMMA SubmissionStep ==
  ASSUME RemovalInv, NEW c \in Clients,
         \/ Submit(c) \/ LookUp(c) \/ Enqueue(c) \/ Remember(c)
         \/ Store(c) \/ Dispatch(c) \/ DeleteByFilter(c)
  PROVE  RemovalInv'
<1>1. UNCHANGED <<local, backend, selects, handler>>
  BY DEF Submit, LookUp, Enqueue, Remember, Store, Dispatch, DeleteByFilter
<1>2. ASSUME NEW x,
             NEW phase \in {"queued", "ready"}, deletion' = [deletion EXCEPT ![x].phase = phase]
      PROVE  RemovalInv'
  <2>1. \A y \in Executions :
          /\ deletion'[y] \in Progress
          /\ deletion'[y].owed = deletion[y].owed
          /\ deletion'[y].matched = deletion[y].matched
          /\ deletion'[y].phase \in {deletion[y].phase, phase}
    BY <1>2 DEF RemovalInv, RecordTypes, Progress
  <2>2. RecordTypes'
    BY <1>1, <1>2, <2>1 DEF RemovalInv, RecordTypes
  <2>3. \A y \in Executions : Owes(y)'
    BY <1>1, <1>2, <2>1 DEF RemovalInv, Owes, Selected
  <2> QED
    BY <2>2, <2>3 DEF RemovalInv
<1>3. CASE UNCHANGED deletion
  BY <1>1, <1>3 DEF RemovalInv, RecordTypes, Owes, Selected
<1>4. CASE DeleteByFilter(c)
  <2> PICK new : new = [NotBegun EXCEPT !.phase = "ready"]
    OBVIOUS
  <2>1. new \in Progress /\ new.owed = {} /\ new.phase = "ready"
    BY DEF NotBegun, Progress
  <2>2. deletion' = [deletion EXCEPT ![c] = new]
    BY <1>4 DEF DeleteByFilter
  <2>3. RecordTypes'
    BY <1>1, <2>1, <2>2 DEF RemovalInv, RecordTypes
  <2>4. ASSUME NEW y \in Executions PROVE Owes(y)'
    <3>1. CASE y = c
      BY <3>1, <2>1, <2>2 DEF Owes, RemovalInv, RecordTypes
    <3>2. CASE y # c
      BY <3>2, <1>1, <2>2 DEF Owes, Selected, RemovalInv, RecordTypes
    <3> QED
      BY <3>1, <3>2
  <2> QED
    BY <2>3, <2>4 DEF RemovalInv
<1> QED
  BY <1>2, <1>3, <1>4 DEF Submit, LookUp, Enqueue, Remember, Store, Dispatch

\* A restart ends the deletes under way and empties the documents.
LEMMA RestartStep ==
  ASSUME RemovalInv, Restart
  PROVE  RemovalInv'
<1>1. /\ backend' = backend /\ selects' = selects /\ handler' = NoIngest
      /\ \A r \in Records : local'[r] = "absent"
  BY DEF Restart
<1>2. \A x \in Executions :
        /\ deletion'[x] \in Progress
        /\ \/ deletion'[x] = deletion[x]
           \/ deletion'[x].owed = {} /\ deletion'[x].phase \in {"lost", "none"}
  <2> SUFFICES ASSUME NEW x \in Executions
               PROVE  /\ deletion'[x] \in Progress
                      /\ \/ deletion'[x] = deletion[x]
                         \/ deletion'[x].owed = {} /\ deletion'[x].phase \in {"lost", "none"}
    OBVIOUS
  <2>1. \A phase \in {"lost", "none"} :
          LET new == [NotBegun EXCEPT !.phase = phase] IN
          new \in Progress /\ new.owed = {} /\ new.phase = phase
    BY DEF NotBegun, Progress
  <2>2. deletion[x] \in Progress
    BY DEF RemovalInv, RecordTypes
  <2>3. \/ deletion'[x] = deletion[x]
        \/ \E phase \in {"lost", "none"} : deletion'[x] = [NotBegun EXCEPT !.phase = phase]
    BY DEF Restart, Executions
  <2> QED
    BY <2>1, <2>2, <2>3
<1>3. deletion' \in [Executions -> Progress]
  BY <1>2 DEF Restart, Executions
<1>4. RecordTypes'
  BY <1>3 DEF Restart, RemovalInv, RecordTypes, NoIngest
<1>5. \A x \in Executions : Owes(x)'
  BY <1>1, <1>2 DEF RemovalInv, RecordTypes, Owes, Selected, NoIngest, Progress
<1> QED
  BY <1>4, <1>5 DEF RemovalInv

\* Every step keeps what a delete owes.
LEMMA RemovalStep == RemovalInv /\ [RemovalNext]_removalVars => RemovalInv'
<1> SUFFICES ASSUME RemovalInv, [RemovalNext]_removalVars PROVE RemovalInv'
  OBVIOUS
<1>1. CASE UNCHANGED removalVars
  BY <1>1 DEF removalVars, RemovalInv, RecordTypes, Owes, Selected
<1> QED
  BY <1>1, IngestBegins, IngestGoesOn, ExecutionStep, SubmissionStep, RestartStep
  DEF RemovalNext, Executions

\* A filter delete that ended well has removed every record that was stored
\* and selected when it began, but for those that an ingest was storing then or
\* has begun to store since, for any records, jobs and callers.
THEOREM DeletesHold == RemovalSpec => []DeleteHolds
<1>1. RemovalInv => DeleteHolds
  <2> SUFFICES ASSUME RemovalInv, NEW x \in Executions, deletion[x].phase = "done",
                      NEW r \in deletion[x].owed
               PROVE  r \notin backend /\ ("process" \in selects[r] => local[r] # "active")
    BY DEF DeleteHolds, Executions
  <2>1. Owes(x) /\ r \in Records
    BY DEF RemovalInv, RecordTypes, Progress
  <2> QED
    BY <2>1 DEF Owes, Selected
<1> QED
  BY <1>1, RemovalStart, RemovalStep, PTL DEF RemovalSpec

-----------------------------------------------------------------------------
(* The submissions of one filter: the call that enqueued its job carries it  *)
(* until the table does.                                                     *)

Begun == {j \in Jobs : deletion[j].phase # "none"}

Submissions == [phase : {"idle", "missed", "enqueue", "remember", "store", "dispatch"},
                job : Jobs \cup {NoJob},
                overlapped : BOOLEAN]

SubmissionTypes ==
  /\ \A x \in Executions : deletion[x] \in Progress
  /\ DOMAIN deletion = Executions
  /\ call \in [Clients -> Submissions]
  /\ \A c, d \in Clients :
       c # d /\ call[c].phase # "idle" /\ call[d].phase # "idle" => call[c].overlapped

OneSubmission ==
  /\ \A j, k \in Begun : j = k
  /\ memory \in Begun \cup {NoJob}
  /\ durable \in Begun \cup {NoJob}
  /\ \A c \in Clients :
       call[c].phase \in {"remember", "store", "dispatch"} => call[c].job \in Begun
  /\ durable = NoJob /\ Begun # {} =>
       \E c \in Clients : call[c].phase \in {"remember", "store"}
  /\ \A c \in Clients :
       call[c].phase = "enqueue" /\ ~call[c].overlapped => durable = NoJob /\ Begun = {}

FilterInv == SubmissionTypes /\ (~excused => OneSubmission)

\* At the start no filter was submitted.
LEMMA FilterStart == RemovalInit => FilterInv
  BY DEF RemovalInit, FilterInv, SubmissionTypes, OneSubmission, Begun, NoCall, NotBegun,
     Executions, Progress, Submissions

\* A step that leaves the begun jobs, the keys and the calls as they are.
LEMMA SubmissionsKept ==
  ASSUME FilterInv, UNCHANGED <<memory, durable, call>>, excused' = excused,
         DOMAIN deletion' = Executions,
         \A x \in Executions : deletion'[x] \in Progress,
         \A j \in Jobs : (deletion'[j].phase = "none") <=> (deletion[j].phase = "none")
  PROVE  FilterInv'
<1>1. SubmissionTypes'
  BY DEF FilterInv, SubmissionTypes
<1>2. Begun' = Begun
  BY DEF Begun
<1>3. OneSubmission => OneSubmission'
  BY <1>2 DEF OneSubmission
<1> QED
  BY <1>1, <1>3 DEF FilterInv

\* An execution that goes on stays begun; a direct call is no job.
LEMMA ExecutionsKept ==
  ASSUME FilterInv, RemovalInv,
         \/ \E r \in Records, older \in SUBSET Records : Ingest(r, older)
         \/ IngestUpserts \/ IngestEnds \/ IngestFails
         \/ \E x \in Executions : Match(x) \/ RemoveStored(x) \/ RemoveFails(x) \/ Mark(x)
         \/ \E c \in Clients : DeleteByFilter(c)
  PROVE  FilterInv'
<1>1. ASSUME NEW r \in Records, NEW older \in SUBSET Records, Ingest(r, older)
      PROVE  FilterInv'
  <2>1. UNCHANGED <<memory, durable, call>> /\ excused' = excused /\ DOMAIN deletion' = Executions
    BY <1>1 DEF Ingest, Executions
  <2>2. \A y \in Executions : deletion'[y] \in Progress
    BY <1>1, IngestBegins DEF RemovalInv, RecordTypes
  <2>3. \A j \in Jobs : (deletion'[j].phase = "none") <=> (deletion[j].phase = "none")
    BY <1>1 DEF Ingest, FilterInv, SubmissionTypes, Executions, Progress
  <2> QED
    BY <2>1, <2>2, <2>3, SubmissionsKept
<1>4. CASE IngestUpserts \/ IngestEnds \/ IngestFails
  <2>1. UNCHANGED <<memory, durable, call, deletion, excused>>
    BY <1>4 DEF IngestUpserts, IngestEnds, IngestFails
  <2> QED
    BY <2>1, SubmissionsKept DEF FilterInv, SubmissionTypes, Executions
<1>2. ASSUME NEW x \in Executions,
             Match(x) \/ RemoveStored(x) \/ RemoveFails(x) \/ Mark(x)
      PROVE  FilterInv'
  <2>1. UNCHANGED <<memory, durable, call>> /\ excused' = excused /\ DOMAIN deletion' = Executions
    BY <1>2 DEF Match, RemoveStored, RemoveFails, Mark, FilterInv, SubmissionTypes
  <2>2. \A y \in Executions : deletion'[y] \in Progress
    BY <1>2, ExecutionStep DEF RemovalInv, RecordTypes
  <2>3. \A j \in Jobs : (deletion'[j].phase = "none") <=> (deletion[j].phase = "none")
    BY <1>2 DEF Match, RemoveStored, RemoveFails, Mark, FilterInv, SubmissionTypes, Executions,
       Progress, NotBegun
  <2> QED
    BY <2>1, <2>2, <2>3, SubmissionsKept
<1>3. ASSUME NEW c \in Clients, DeleteByFilter(c)
      PROVE  FilterInv'
  <2>1. UNCHANGED <<memory, durable, call>> /\ excused' = excused /\ DOMAIN deletion' = Executions
    BY <1>3 DEF DeleteByFilter, FilterInv, SubmissionTypes
  <2>2. \A y \in Executions : deletion'[y] \in Progress
    BY <1>3, SubmissionStep DEF RemovalInv, RecordTypes
  <2>3. \A j \in Jobs : deletion'[j] = deletion[j]
    BY <1>3, RemovalConstants DEF DeleteByFilter, FilterInv, SubmissionTypes, Executions
  <2> QED
    BY <2>1, <2>2, <2>3, SubmissionsKept
<1> QED
  BY <1>1, <1>2, <1>3, <1>4

\* The next step of a call in progress.
LEMMA CallGoesOn ==
  ASSUME FilterInv, NEW c \in Clients, NEW new \in Submissions,
         call[c].phase # "idle",
         new.phase = "idle" \/ (new.overlapped <=> call[c].overlapped),
         call' = [call EXCEPT ![c] = new],
         \A x \in Executions : deletion'[x] \in Progress, DOMAIN deletion' = Executions
  PROVE  SubmissionTypes' /\ call'[c] = new /\ \A d \in Clients \ {c} : call'[d] = call[d]
<1>1. call'[c] = new /\ \A d \in Clients \ {c} : call'[d] = call[d]
  BY DEF FilterInv, SubmissionTypes
<1>2. call' \in [Clients -> Submissions]
  BY DEF FilterInv, SubmissionTypes
<1>3. ASSUME NEW a \in Clients, NEW b \in Clients,
             a # b, call'[a].phase # "idle", call'[b].phase # "idle"
      PROVE  call'[a].overlapped
  <2>1. call[a].overlapped
    BY <1>1, <1>3 DEF FilterInv, SubmissionTypes
  <2> QED
    BY <1>1, <1>3, <2>1
<1> QED
  BY <1>1, <1>2, <1>3 DEF SubmissionTypes

\* A call that began while another was in progress, and that other call.
LEMMA OverlapNoted ==
  ASSUME NEW old \in Submissions, NEW o \in BOOLEAN
  PROVE  LET new == [old EXCEPT !.overlapped = o] IN
         new \in Submissions /\ new.phase = old.phase /\ new.job = old.job /\ new.overlapped = o
BY DEF Submissions

\* The steps of one call of delete_by_filter_async.  Alone, it enqueues the
\* first job of the filter; otherwise the overlap is on record.
LEMMA CallStep ==
  ASSUME FilterInv, RemovalInv, NEW c \in Clients,
         \/ Submit(c) \/ LookUp(c) \/ Enqueue(c) \/ Remember(c) \/ Store(c) \/ Dispatch(c)
  PROVE  FilterInv'
<1> USE RemovalConstants
<1>1. \A x \in Executions : deletion'[x] \in Progress
  BY SubmissionStep DEF RemovalInv, RecordTypes
<1>2. DOMAIN deletion' = Executions
  BY DEF Submit, LookUp, Enqueue, Remember, Store, Dispatch, FilterInv, SubmissionTypes
<1>3. CASE Submit(c)
  <2>1. CASE memory # NoJob
    BY <2>1, <1>3, <1>1, <1>2, SubmissionsKept DEF Submit
  <2>2. CASE memory = NoJob
    <3>1. /\ CallBegins(c, "missed") /\ UNCHANGED <<memory, durable, deletion>>
          /\ excused' = excused /\ call[c].phase = "idle"
      BY <1>3, <2>2 DEF Submit, Free
    <3>a. /\ call'[c] = [phase |-> "missed", job |-> NoJob, overlapped |-> Busy(c)]
          /\ \A d \in Clients \ {c} :
               call'[d] = [call[d] EXCEPT !.overlapped = @ \/ call[d].phase # "idle"]
          /\ DOMAIN call' = Clients
      BY <3>1 DEF CallBegins
    <3> PICK busy \in BOOLEAN : busy = Busy(c)
      BY DEF Busy
    <3>b. /\ call'[c] \in Submissions /\ call'[c].phase = "missed"
          /\ call'[c].overlapped <=> Busy(c)
      BY <3>a DEF Submissions
    <3>c. ASSUME NEW d \in Clients \ {c}
          PROVE  /\ call'[d] \in Submissions
                 /\ call'[d].phase = call[d].phase /\ call'[d].job = call[d].job
                 /\ call'[d].overlapped <=> (call[d].overlapped \/ call[d].phase # "idle")
      <4> PICK o \in BOOLEAN : o = (call[d].overlapped \/ call[d].phase # "idle")
        OBVIOUS
      <4>1. call[d] \in Submissions
        BY DEF FilterInv, SubmissionTypes
      <4>2. call'[d] = [call[d] EXCEPT !.overlapped = o]
        BY <3>a
      <4> QED
        BY <4>1, <4>2, OverlapNoted
    <3>d. call' = [d \in Clients |-> call'[d]]
      BY <3>1 DEF CallBegins
    <3>2. /\ call' \in [Clients -> Submissions]
          /\ call'[c].phase = "missed"
          /\ call'[c].overlapped <=> Busy(c)
          /\ \A d \in Clients \ {c} :
               /\ call'[d].phase = call[d].phase /\ call'[d].job = call[d].job
               /\ call'[d].overlapped <=> (call[d].overlapped \/ call[d].phase # "idle")
      BY <3>b, <3>c, <3>d
    <3>3. SubmissionTypes'
      BY <3>1, <3>2, <1>1, <1>2 DEF FilterInv, SubmissionTypes, Busy
    <3>4. OneSubmission => OneSubmission'
      <4>1. Begun' = Begun
        BY <3>1 DEF Begun
      <4> QED
        BY <4>1, <3>1, <3>2 DEF OneSubmission
    <3> QED
      BY <3>1, <3>3, <3>4 DEF FilterInv
  <2> QED
    BY <2>1, <2>2
<1>4. CASE LookUp(c)
  <2>1. UNCHANGED <<durable, deletion>> /\ excused' = excused /\ call[c].phase = "missed"
    BY <1>4 DEF LookUp
  <2>2. Begun' = Begun
    BY <2>1 DEF Begun
  <2>3. SubmissionTypes'
    <3> PICK old \in Submissions : old = call[c]
      BY DEF FilterInv, SubmissionTypes
    <3> PICK new : new = IF durable # NoJob THEN NoCall ELSE [old EXCEPT !.phase = "enqueue"]
      OBVIOUS
    <3>1. call' = [call EXCEPT ![c] = new]
      BY <1>4 DEF LookUp
    <3>2. new \in Submissions
      BY DEF NoCall, Submissions
    <3>3. new.phase = "idle" \/ (new.overlapped <=> call[c].overlapped)
      BY DEF NoCall, Submissions
    <3> QED
      BY <2>1, <3>1, <3>2, <3>3, <1>1, <1>2, CallGoesOn
  <2>4. ASSUME OneSubmission PROVE OneSubmission'
    <3>1. CASE durable # NoJob
      BY <3>1, <1>4, <2>1, <2>2, <2>4 DEF LookUp, NoCall, OneSubmission, FilterInv, SubmissionTypes
    <3>2. CASE durable = NoJob
      <4>1. /\ memory' = memory /\ call'[c].phase = "enqueue"
            /\ call'[c].overlapped <=> call[c].overlapped
            /\ \A d \in Clients \ {c} : call'[d] = call[d]
        BY <3>2, <1>4 DEF LookUp, FilterInv, SubmissionTypes
      <4>2. ~call[c].overlapped => Begun = {}
        BY <3>2, <2>1, <2>4 DEF OneSubmission, FilterInv, SubmissionTypes
      <4> QED
        BY <3>2, <4>1, <4>2, <2>1, <2>2, <2>4 DEF OneSubmission
    <3> QED
      BY <3>1, <3>2
  <2> QED
    BY <2>1, <2>3, <2>4 DEF FilterInv
<1>5. CASE Enqueue(c)
  <2>j. PICK j \in Jobs :
          /\ deletion[j] = NotBegun
          /\ deletion' = [deletion EXCEPT ![j].phase = "queued"]
          /\ call' = [call EXCEPT ![c].phase = "remember", ![c].job = j]
    BY <1>5 DEF Enqueue
  <2> PICK old \in Submissions : old = call[c]
    BY DEF FilterInv, SubmissionTypes
  <2> PICK new : new = [old EXCEPT !.phase = "remember", !.job = j]
    OBVIOUS
  <2>a. /\ call[c].phase = "enqueue" /\ UNCHANGED <<memory, durable>>
        /\ call' = [call EXCEPT ![c] = new]
    BY <1>5, <2>j DEF Enqueue, FilterInv, SubmissionTypes
  <2>b. /\ new \in Submissions /\ new.phase = "remember" /\ new.job = j
        /\ new.overlapped = old.overlapped
    BY DEF Submissions
  <2>2. SubmissionTypes' /\ call'[c] = new /\ \A d \in Clients \ {c} : call'[d] = call[d]
    <3>1. call[c].phase # "idle" /\ (new.overlapped <=> call[c].overlapped)
      BY <2>a, <2>b
    <3> QED
      BY <3>1, <2>a, <2>b, <1>1, <1>2, CallGoesOn
  <2>1. /\ call[c].phase = "enqueue" /\ UNCHANGED <<memory, durable>>
        /\ call'[c].phase = "remember" /\ call'[c].job = j
        /\ \A d \in Clients \ {c} : call'[d] = call[d]
    BY <2>a, <2>b, <2>2
  <2>3. Begun' = Begun \cup {j}
    BY <2>j DEF Begun, FilterInv, SubmissionTypes, Executions, Progress
  <2>4. ASSUME ~excused' PROVE OneSubmission'
    <3>1. ~excused /\ ~call[c].overlapped
      BY <1>5, <2>4 DEF Enqueue
    <3>2. OneSubmission /\ Begun = {} /\ durable = NoJob /\ memory = NoJob
      BY <3>1, <2>1 DEF FilterInv, OneSubmission
    <3>3. \A d \in Clients \ {c} : call[d].phase = "idle"
      BY <3>1, <2>1 DEF FilterInv, SubmissionTypes
    <3>4. \A d \in Clients \ {c} : call'[d].phase = "idle"
      BY <2>1, <3>3
    <3>5. Begun' = {j} /\ memory' = NoJob /\ durable' = NoJob
      BY <2>1, <2>3, <3>2
    <3>6. \A d \in Clients :
            /\ call'[d].phase # "enqueue"
            /\ call'[d].phase \in {"remember", "store", "dispatch"} => call'[d].job \in Begun'
      <4> SUFFICES ASSUME NEW d \in Clients
                   PROVE  /\ call'[d].phase # "enqueue"
                          /\ call'[d].phase \in {"remember", "store", "dispatch"} =>
                               call'[d].job \in Begun'
        OBVIOUS
      <4>1. CASE d = c
        BY <4>1, <2>1, <3>5
      <4>2. CASE d # c
        BY <4>2, <3>4
      <4> QED
        BY <4>1, <4>2
    <3>7. \E d \in Clients : call'[d].phase \in {"remember", "store"}
      BY <2>1
    <3> QED
      BY <3>5, <3>6, <3>7 DEF OneSubmission
  <2> QED
    BY <2>2, <2>4 DEF FilterInv
<1>6. CASE Remember(c) \/ Store(c) \/ Dispatch(c)
  <2> PICK old \in Submissions : old = call[c]
    BY DEF FilterInv, SubmissionTypes
  <2>a. PICK new \in Submissions :
          /\ call' = [call EXCEPT ![c] = new] /\ new.phase \in {"store", "dispatch", "idle"}
          /\ new.phase = "idle" \/ (new.overlapped = old.overlapped)
    <3>1. CASE Remember(c) \/ Store(c)
      <4> PICK next \in {"store", "dispatch"} : call' = [call EXCEPT ![c].phase = next]
        BY <3>1 DEF Remember, Store
      <4>1. /\ [old EXCEPT !.phase = next] \in Submissions
            /\ [old EXCEPT !.phase = next].phase = next
            /\ [old EXCEPT !.phase = next].overlapped = old.overlapped
        BY DEF Submissions
      <4>2. call' = [call EXCEPT ![c] = [old EXCEPT !.phase = next]]
        BY DEF FilterInv, SubmissionTypes
      <4> QED
        BY <4>1, <4>2
    <3>2. CASE Dispatch(c)
      <4>1. NoCall \in Submissions /\ NoCall.phase = "idle"
        BY DEF NoCall, Submissions
      <4> QED
        BY <3>2, <4>1 DEF Dispatch
    <3> QED
      BY <1>6, <3>1, <3>2
  <2>b. call[c].phase \in {"remember", "store", "dispatch"} /\ excused' = excused
    BY <1>6 DEF Remember, Store, Dispatch
  <2>2. SubmissionTypes' /\ call'[c] = new /\ \A d \in Clients \ {c} : call'[d] = call[d]
    <3>1. call[c].phase # "idle" /\ (new.phase = "idle" \/ (new.overlapped <=> call[c].overlapped))
      BY <2>a, <2>b
    <3> QED
      BY <3>1, <2>a, <1>1, <1>2, CallGoesOn
  <2>1. /\ call[c].phase \in {"remember", "store", "dispatch"} /\ excused' = excused
        /\ call'[c].phase # "enqueue" /\ \A d \in Clients \ {c} : call'[d] = call[d]
    BY <2>a, <2>b, <2>2
  <2>3. ASSUME OneSubmission PROVE OneSubmission'
    <3>1. call[c].job \in Begun /\ call[c].job # NoJob
      BY <2>1, <2>3 DEF OneSubmission, Begun
    <3>2. Begun' = Begun
      BY <1>6, <3>1 DEF Remember, Store, Dispatch, Begun, FilterInv, SubmissionTypes, Executions,
         Progress
    <3>3. \A d \in Clients \ {c} : call[d].phase = "enqueue" => call[d].overlapped
      BY <2>1 DEF FilterInv, SubmissionTypes
    <3>4. CASE Remember(c)
      <4>1. /\ durable' = durable /\ memory' = call[c].job
            /\ call'[c].phase = "store" /\ call'[c].job = call[c].job
        BY <3>4 DEF Remember, FilterInv, SubmissionTypes
      <4> QED
        BY <4>1, <2>1, <2>3, <3>1, <3>2, <3>3 DEF OneSubmission
    <3>5. CASE Store(c)
      <4>1. /\ durable' \in Begun /\ memory' = memory
            /\ call'[c].job = call[c].job
        BY <3>5, <2>3, <3>1 DEF Store, KeyStored, OneSubmission, FilterInv, SubmissionTypes
      <4>2. durable' # NoJob
        BY <4>1 DEF Begun
      <4> QED
        BY <4>1, <4>2, <2>1, <2>3, <3>1, <3>2, <3>3 DEF OneSubmission
    <3>6. CASE Dispatch(c)
      <4>1. /\ UNCHANGED <<memory, durable>> /\ call[c].phase = "dispatch"
            /\ call'[c].phase = "idle"
        BY <3>6 DEF Dispatch, NoCall, FilterInv, SubmissionTypes
      <4> QED
        BY <4>1, <2>1, <2>3, <3>2, <3>3 DEF OneSubmission
    <3> QED
      BY <1>6, <3>4, <3>5, <3>6
  <2> QED
    BY <2>1, <2>2, <2>3 DEF FilterInv
<1> QED
  BY <1>3, <1>4, <1>5, <1>6

\* After a restart the table still names the job, or the loss is on record.
LEMMA FilterRestartStep ==
  ASSUME FilterInv, RemovalInv, Restart
  PROVE  FilterInv'
<1>1. /\ \A x \in Executions : deletion'[x] \in Progress
      /\ DOMAIN deletion' = Executions
  BY RestartStep DEF Restart, RemovalInv, RecordTypes, Executions
<1>2. \A c \in Clients : call'[c] = NoCall
  BY DEF Restart
<1>3. SubmissionTypes'
  <2>1. NoCall \in Submissions /\ NoCall.phase = "idle"
    BY DEF NoCall, Submissions
  <2>2. call' \in [Clients -> Submissions]
    BY <2>1 DEF Restart
  <2> QED
    BY <1>1, <1>2, <2>1, <2>2 DEF SubmissionTypes
<1>4. Begun' = Begun
  <2>1. \A j \in Jobs : (deletion'[j].phase = "none") <=> (deletion[j].phase = "none")
    BY DEF Restart, FilterInv, SubmissionTypes, Executions, Progress, NotBegun
  <2> QED
    BY <2>1 DEF Begun
<1>5. ASSUME ~excused' PROVE OneSubmission'
  <2>1. /\ ~excused /\ \A c \in Clients : call[c].phase \notin {"remember", "store"}
        /\ memory' = NoJob /\ durable' = durable
    BY <1>5 DEF Restart
  <2> QED
    BY <2>1, <1>2, <1>4 DEF FilterInv, OneSubmission, NoCall
<1> QED
  BY <1>3, <1>5 DEF FilterInv

\* One filter is one job, for any number of callers, records and restarts,
\* unless two submissions overlapped or the process died before the key was
\* stored.
THEOREM FilterIsOneJob == RemovalSpec => []OneJobPerFilter
<1>1. RemovalInv /\ FilterInv /\ [RemovalNext]_removalVars => (RemovalInv /\ FilterInv)'
  <2> SUFFICES ASSUME RemovalInv, FilterInv, [RemovalNext]_removalVars PROVE FilterInv'
    BY RemovalStep
  <2>1. CASE UNCHANGED removalVars
    BY <2>1, SubmissionsKept DEF removalVars, FilterInv, SubmissionTypes
  <2> QED
    BY <2>1, ExecutionsKept, CallStep, FilterRestartStep DEF RemovalNext, Executions
<1>2. FilterInv => OneJobPerFilter
  <2> SUFFICES ASSUME OneSubmission
               PROVE  /\ Cardinality(Begun) <= 1
                      /\ durable # NoJob => memory \in {NoJob, durable}
    BY DEF FilterInv, OneJobPerFilter, Begun
  <2>1. Begun = {} \/ \E j \in Begun : Begun = {j}
    BY DEF OneSubmission
  <2>2. Cardinality(Begun) <= 1
    BY <2>1, FS_EmptySet, FS_Singleton
  <2> QED
    BY <2>2 DEF OneSubmission
<1> QED
  BY <1>1, <1>2, RemovalStart, FilterStart, PTL DEF RemovalSpec

-----------------------------------------------------------------------------
(* The blocks of a text.                                                     *)

SectionIds == {NoSection, EmptyId}
BlockRecords == [kind : {"table", "title", "heading", "paragraph"}, section : SectionIds,
                 lines : SUBSET (Nat \X Nat), order : Nat]
TableRecords == [section : SectionIds, rows : SUBSET (Nat \X Nat)]
SectionRecords == [level : Levels, at : Nat]

Pairs(bs) == {<<b.lines, b.section>> : b \in ToSet(bs)}
TablePairs(bs) == {<<b.lines, b.section>> : b \in {c \in ToSet(bs) : c.kind = "table"}}
RowPairs(ts) == {<<t.rows, t.section>> : t \in {u \in ToSet(ts) : u.rows # {}}}

\* Blocks in the order of their paragraphs, numbered, no two the same.
InOrder(bs) ==
  /\ bs \in Seq(BlockRecords)
  /\ \A i \in DOMAIN bs : bs[i].order = i - 1
  /\ \A i, j \in DOMAIN bs : i < j =>
       /\ bs[i].lines # bs[j].lines
       /\ \A x \in bs[i].lines, y \in bs[j].lines : x[1] <= y[1]

\* Tables one after the other.
RowsInOrder(ts) ==
  /\ ts \in Seq(TableRecords)
  /\ \A i, j \in DOMAIN ts : i < j =>
       \A x \in ts[i].rows, y \in ts[j].rows : Before(x, y)

\* What appending an element does to a sequence and to the set of its elements.
LEMMA ToSetAppend ==
  ASSUME NEW S, NEW s \in Seq(S), NEW e \in S
  PROVE  /\ Append(s, e) \in Seq(S) /\ Len(Append(s, e)) = Len(s) + 1
         /\ DOMAIN Append(s, e) = DOMAIN s \cup {Len(s) + 1}
         /\ Append(s, e)[Len(s) + 1] = e
         /\ \A i \in DOMAIN s : Append(s, e)[i] = s[i]
         /\ ToSet(Append(s, e)) = ToSet(s) \cup {e}
<1>1. /\ Append(s, e) \in Seq(S) /\ Len(Append(s, e)) = Len(s) + 1 /\ Len(s) \in Nat
      /\ DOMAIN s = 1 .. Len(s) /\ DOMAIN Append(s, e) = 1 .. (Len(s) + 1)
      /\ Append(s, e)[Len(s) + 1] = e
      /\ \A i \in 1 .. Len(s) : Append(s, e)[i] = s[i]
  OBVIOUS
<1>2. DOMAIN Append(s, e) = DOMAIN s \cup {Len(s) + 1}
  BY <1>1
<1> QED
  BY <1>1, <1>2 DEF ToSet

\* A block of the last paragraph, with lines of its own, comes last.
LEMMA BlockAppended ==
  ASSUME NEW bs, InOrder(bs), NEW b \in BlockRecords, b.order = Len(bs),
         \A q \in Pairs(bs) : /\ q[1] # b.lines
                              /\ \A x \in q[1], y \in b.lines : x[1] <= y[1]
  PROVE  /\ InOrder(Append(bs, b)) /\ Pairs(Append(bs, b)) = Pairs(bs) \cup {<<b.lines, b.section>>}
         /\ Len(Append(bs, b)) = Len(bs) + 1
         /\ TablePairs(Append(bs, b)) = TablePairs(bs)
              \cup {q \in {<<b.lines, b.section>>} : b.kind = "table"}
<1> PICK new : new = Append(bs, b)
  OBVIOUS
<1>1. /\ new \in Seq(BlockRecords) /\ Len(new) = Len(bs) + 1 /\ Len(bs) \in Nat
      /\ DOMAIN bs = 1 .. Len(bs) /\ DOMAIN new = 1 .. (Len(bs) + 1)
      /\ new[Len(bs) + 1] = b /\ \A i \in 1 .. Len(bs) : new[i] = bs[i]
      /\ ToSet(new) = ToSet(bs) \cup {b}
  BY ToSetAppend DEF InOrder
<1>2. Pairs(new) = Pairs(bs) \cup {<<b.lines, b.section>>}
  BY <1>1 DEF Pairs
<1>3. TablePairs(new) = TablePairs(bs) \cup {q \in {<<b.lines, b.section>>} : b.kind = "table"}
  BY <1>1 DEF TablePairs
<1>4. \A i \in 1 .. Len(bs) : <<bs[i].lines, bs[i].section>> \in Pairs(bs)
  BY <1>1 DEF Pairs, ToSet
<1>5. ASSUME NEW i \in 1 .. Len(bs)
      PROVE  bs[i].lines # b.lines /\ \A x \in bs[i].lines, y \in b.lines : x[1] <= y[1]
  <2> PICK q : q = <<bs[i].lines, bs[i].section>>
    OBVIOUS
  <2> QED
    BY <1>4
<1>6. InOrder(new)
  BY <1>1, <1>5 DEF InOrder
<1> QED
  BY <1>1, <1>2, <1>3, <1>6

\* A table that stands below all others.
LEMMA TableAppended ==
  ASSUME NEW ts, RowsInOrder(ts), NEW t \in TableRecords,
         \A u \in ToSet(ts) : \A x \in u.rows, y \in t.rows : Before(x, y)
  PROVE  /\ RowsInOrder(Append(ts, t)) /\ ToSet(Append(ts, t)) = ToSet(ts) \cup {t}
         /\ RowPairs(Append(ts, t)) = RowPairs(ts)
              \cup {q \in {<<t.rows, t.section>>} : t.rows # {}}
<1> PICK new : new = Append(ts, t)
  OBVIOUS
<1>1. /\ new \in Seq(TableRecords) /\ Len(ts) \in Nat
      /\ DOMAIN ts = 1 .. Len(ts) /\ DOMAIN new = 1 .. (Len(ts) + 1)
      /\ new[Len(ts) + 1] = t /\ \A i \in 1 .. Len(ts) : new[i] = ts[i]
      /\ ToSet(new) = ToSet(ts) \cup {t}
  BY ToSetAppend DEF RowsInOrder
<1>2. RowPairs(new) = RowPairs(ts) \cup {q \in {<<t.rows, t.section>>} : t.rows # {}}
  BY <1>1 DEF RowPairs
<1>3. \A i \in 1 .. Len(ts) : ts[i] \in ToSet(ts)
  BY <1>1 DEF ToSet
<1>4. RowsInOrder(new)
  BY <1>1, <1>3 DEF RowsInOrder
<1> QED
  BY <1>1, <1>2, <1>4

-----------------------------------------------------------------------------
(* Runs of rows while a paragraph is scanned.                                *)

\* The runs that a later line no longer changes.
Closed(lines) == {r \in TableRuns(lines) : r[2] < Len(lines)}

\* A run of rows, by its first and its last row.
LEMMA TableRunIs ==
  ASSUME NEW lines \in Seq(LineKinds), NEW a, NEW b
  PROVE  <<a, b>> \in TableRuns(lines) <=>
           /\ a \in 1 .. Len(lines) /\ b \in 1 .. Len(lines) /\ a < b
           /\ \A i \in a .. b : lines[i] = RowLine
           /\ a > 1 => lines[a - 1] # RowLine
           /\ b < Len(lines) => lines[b + 1] # RowLine
<1> PICK r : r = <<a, b>>
  OBVIOUS
<1>1. r[1] = a /\ r[2] = b /\ DOMAIN lines = 1 .. Len(lines)
  OBVIOUS
<1>2. r \in (1 .. Len(lines)) \X (1 .. Len(lines)) <=>
        a \in 1 .. Len(lines) /\ b \in 1 .. Len(lines)
  OBVIOUS
<1> QED
  BY <1>1, <1>2 DEF TableRuns

\* A line that is no row closes the run before it; a row closes none.
LEMMA LineAppended ==
  ASSUME NEW lines \in Seq(LineKinds), NEW kind \in LineKinds
  PROVE  /\ Append(lines, kind) \in Seq(LineKinds) /\ Append(lines, kind) # <<>>
         /\ Closed(Append(lines, kind)) = IF kind = RowLine THEN Closed(lines) ELSE TableRuns(lines)
<1>a. Len(lines) \in Nat
  OBVIOUS
<1>b. PICK n \in Nat : n = Len(lines)
  BY <1>a
<1>c. PICK new : new = Append(lines, kind)
  OBVIOUS
<1>n. n = Len(lines) /\ new = Append(lines, kind)
  BY <1>b, <1>c
<1>1. /\ new \in Seq(LineKinds) /\ Len(new) = n + 1
      /\ new[n + 1] = kind /\ \A i \in 1 .. n : new[i] = lines[i]
  BY <1>n, ToSetAppend
<1>2. ASSUME NEW a \in 1 .. n, NEW b \in 1 .. n
      PROVE  <<a, b>> \in TableRuns(new) <=>
               /\ <<a, b>> \in TableRuns(lines)
               /\ b = n => kind # RowLine
  <2>1. /\ \A i \in a .. b : i \in 1 .. n
        /\ a > 1 => a - 1 \in 1 .. n
        /\ b < n => b + 1 \in 1 .. n
        /\ a \in 1 .. (n + 1) /\ b \in 1 .. (n + 1) /\ b < n + 1
        /\ b = n \/ b < n
        /\ ~(b = n /\ b < n)
    OBVIOUS
  <2>2. <<a, b>> \in TableRuns(new) <=>
          /\ a < b
          /\ \A i \in a .. b : lines[i] = RowLine
          /\ a > 1 => lines[a - 1] # RowLine
          /\ new[b + 1] # RowLine
    <3>1. <<a, b>> \in TableRuns(new) <=>
            /\ a \in 1 .. Len(new) /\ b \in 1 .. Len(new) /\ a < b
            /\ \A i \in a .. b : new[i] = RowLine
            /\ a > 1 => new[a - 1] # RowLine
            /\ b < Len(new) => new[b + 1] # RowLine
      BY <1>1, TableRunIs
    <3>2. a > 1 => new[a - 1] = lines[a - 1]
      BY <1>1, <2>1
    <3>3. (\A i \in a .. b : new[i] = RowLine) <=> (\A i \in a .. b : lines[i] = RowLine)
      BY <1>1, <2>1
    <3> QED
      BY <1>1, <2>1, <3>1, <3>2, <3>3, Zenon
  <2>3. <<a, b>> \in TableRuns(lines) <=>
          /\ a < b
          /\ \A i \in a .. b : lines[i] = RowLine
          /\ a > 1 => lines[a - 1] # RowLine
          /\ b < n => lines[b + 1] # RowLine
    BY <1>n, TableRunIs
  <2>4. b < n => new[b + 1] = lines[b + 1]
    BY <1>1, <2>1
  <2> QED
    BY <1>1, <2>1, <2>2, <2>3, <2>4
<1>3. \A r \in Closed(new) : r = <<r[1], r[2]>> /\ r[1] \in 1 .. n /\ r[2] \in 1 .. n
  BY <1>1 DEF Closed, TableRuns
<1>4. \A r \in TableRuns(lines) : r = <<r[1], r[2]>> /\ r[1] \in 1 .. n /\ r[2] \in 1 .. n
  BY <1>n DEF TableRuns
<1>5. CASE kind = RowLine
  <2>1. \A r \in Closed(new) : r \in Closed(lines)
    BY <1>n, <1>1, <1>2, <1>3, <1>5 DEF Closed
  <2>2. \A r \in Closed(lines) : r \in Closed(new)
    BY <1>n, <1>1, <1>2, <1>4, <1>5 DEF Closed
  <2>3. Closed(new) = Closed(lines)
    BY <2>1, <2>2
  <2>4. new # <<>>
    BY <1>1
  <2> QED
    BY <1>n, <1>1, <1>5, <2>3, <2>4
<1>6. CASE kind # RowLine
  <2>1. \A r \in Closed(new) : r \in TableRuns(lines)
    BY <1>n, <1>1, <1>2, <1>3, <1>6 DEF Closed
  <2>2. \A r \in TableRuns(lines) : r \in Closed(new)
    BY <1>n, <1>1, <1>2, <1>4, <1>6 DEF Closed
  <2>3. Closed(new) = TableRuns(lines)
    BY <2>1, <2>2
  <2>4. new # <<>>
    BY <1>1
  <2> QED
    BY <1>n, <1>1, <1>6, <2>3, <2>4
<1> QED
  BY <1>5, <1>6

\* The buffer holds the rows at the end of what is scanned of the paragraph.
Buffered ==
  LET m == Len(buffer)  n == Len(paragraph) IN
  /\ buffer \in Seq(Nat \X Nat) /\ m <= n
  /\ \A i \in 1 .. m : buffer[i] = <<Number, n - m + i>> /\ paragraph[n - m + i] = RowLine
  /\ m < n => paragraph[n - m] # RowLine

\* The buffer holds the one run that may still grow, if it has two rows.
LEMMA TrailingRun ==
  ASSUME Buffered, paragraph \in Seq(LineKinds), paragraphs \in Seq(Seq(LineKinds) \ {<<>>})
  PROVE  IF IsTable(buffer)
         THEN \E a \in 1 .. (Len(paragraph) - 1) :
                /\ TableRuns(paragraph) = Closed(paragraph) \cup {<<a, Len(paragraph)>>}
                /\ ToSet(buffer) = LinesOf(Number, a, Len(paragraph))
                /\ \A r \in Closed(paragraph) : r[2] < a
         ELSE TableRuns(paragraph) = Closed(paragraph)
<1> DEFINE m == Len(buffer)
           n == Len(paragraph)
           a == n - m + 1
<1>1. /\ m \in Nat /\ n \in Nat /\ m <= n /\ DOMAIN buffer = 1 .. m /\ DOMAIN paragraph = 1 .. n
      /\ \A i \in 1 .. m : buffer[i] = <<Number, n - m + i>>
      /\ \A i \in a .. n : paragraph[i] = RowLine
      /\ m < n => paragraph[a - 1] # RowLine
  <2>1. /\ m \in Nat /\ n \in Nat /\ m <= n /\ DOMAIN buffer = 1 .. m
        /\ DOMAIN paragraph = 1 .. n
        /\ \A i \in 1 .. m : buffer[i] = <<Number, n - m + i>> /\ paragraph[n - m + i] = RowLine
        /\ m < n => paragraph[n - m] # RowLine
    <3>1. m \in Nat /\ n \in Nat /\ DOMAIN buffer = 1 .. m /\ DOMAIN paragraph = 1 .. n
      BY DEF Buffered
    <3> QED
      BY <3>1 DEF Buffered
  <2>2. ASSUME NEW i \in a .. n PROVE paragraph[i] = RowLine
    <3> HIDE DEF m, n
    <3> PICK j \in 1 .. m : i = n - m + j
      <4>1. i - (n - m) \in 1 .. m /\ i = n - m + (i - (n - m))
        BY <2>1
      <4> QED
        BY <4>1
    <3> QED
      BY <2>1
  <2>3. a - 1 = n - m
    BY <2>1
  <2> QED
    BY <2>1, <2>2, <2>3
<1> HIDE DEF m, n
<1>2. \A r \in TableRuns(paragraph) :
        /\ r = <<r[1], r[2]>> /\ r[1] \in 1 .. n /\ r[2] \in 1 .. n /\ r[1] < r[2]
        /\ \A i \in r[1] .. r[2] : paragraph[i] = RowLine
        /\ r[1] > 1 => paragraph[r[1] - 1] # RowLine
        /\ r[2] < n => paragraph[r[2] + 1] # RowLine
  BY <1>1 DEF TableRuns, n
<1>3. ASSUME NEW r \in TableRuns(paragraph), r[2] = n PROVE r[1] = a /\ m >= 2
  <2>1. m # 0
    BY <1>1, <1>2, <1>3
  <2>2. ~ r[1] > a
    <3>1. r[1] > a => r[1] - 1 \in a .. n /\ r[1] > 1
      BY <1>1, <1>2
    <3> QED
      BY <1>1, <1>2, <3>1
  <2>3. ~ r[1] < a
    <3>1. r[1] < a => a - 1 \in r[1] .. r[2] /\ m < n
      BY <1>1, <1>2, <1>3
    <3> QED
      BY <1>1, <1>2, <3>1
  <2> QED
    BY <1>1, <1>2, <1>3, <2>1, <2>2, <2>3
<1>4. CASE IsTable(buffer)
  <2>1. m >= 2 /\ a \in 1 .. (n - 1)
    BY <1>1, <1>4 DEF IsTable, m
  <2>2. <<a, n>> \in TableRuns(paragraph)
    <3>1. a > 1 => m < n
      BY <1>1
    <3> QED
      <4>1. a \in 1 .. n /\ n \in 1 .. n /\ a < n
        BY <1>1, <2>1
      <4>2. a > 1 => paragraph[a - 1] # RowLine
        BY <1>1, <3>1
      <4>3. ~(n < n) /\ \A i \in a .. n : paragraph[i] = RowLine
        BY <1>1
      <4> HIDE DEF a
      <4>4. <<a, Len(paragraph)>> \in TableRuns(paragraph) <=>
              /\ a \in 1 .. Len(paragraph) /\ Len(paragraph) \in 1 .. Len(paragraph)
              /\ a < Len(paragraph)
              /\ \A i \in a .. Len(paragraph) : paragraph[i] = RowLine
              /\ a > 1 => paragraph[a - 1] # RowLine
              /\ Len(paragraph) < Len(paragraph) => paragraph[Len(paragraph) + 1] # RowLine
        BY TableRunIs
      <4> QED
        BY <4>1, <4>2, <4>3, <4>4 DEF n
  <2>3. TableRuns(paragraph) = Closed(paragraph) \cup {<<a, n>>}
    <3>1. ASSUME NEW r \in TableRuns(paragraph) PROVE r \in Closed(paragraph) \/ r = <<a, n>>
      <4>1. r[2] = n \/ r[2] < n
        BY <1>1, <1>2
      <4> QED
        BY <1>2, <1>3, <4>1 DEF Closed, n
    <3> QED
      BY <2>2, <3>1 DEF Closed
  <2>4. ToSet(buffer) = LinesOf(Number, a, n)
    <3>1. \A i \in 1 .. m : n - m + i \in a .. n
      BY <1>1
    <3>2. \A i \in a .. n : i - (n - m) \in 1 .. m /\ i = n - m + (i - (n - m))
      BY <1>1
    <3>3. ASSUME NEW x \in ToSet(buffer) PROVE x \in LinesOf(Number, a, n)
      BY <1>1, <3>1 DEF ToSet, LinesOf
    <3>4. ASSUME NEW i \in a .. n PROVE <<Number, i>> \in ToSet(buffer)
      <4> PICK j \in 1 .. m : i = n - m + j
        BY <3>2
      <4>1. buffer[j] = <<Number, i>> /\ j \in DOMAIN buffer
        BY <1>1
      <4> QED
        BY <4>1 DEF ToSet
    <3> QED
      BY <3>3, <3>4 DEF LinesOf
  <2>5. ASSUME NEW r \in Closed(paragraph) PROVE r[2] < a
    <3>1. r \in TableRuns(paragraph) /\ r[2] < n
      BY DEF Closed, n
    <3>2. r[2] >= a => r[2] + 1 \in a .. n
      BY <1>1, <1>2, <3>1
    <3> QED
      BY <1>1, <1>2, <3>1, <3>2
  <2> QED
    BY <1>4, <2>1, <2>3, <2>4, <2>5 DEF n
<1>5. CASE ~IsTable(buffer)
  <2>1. m < 2
    BY <1>1, <1>5 DEF IsTable, m
  <2> QED
    BY <1>1, <1>2, <1>3, <1>5, <2>1 DEF Closed, n
<1> QED
  BY <1>4, <1>5

-----------------------------------------------------------------------------
(* What is filed while a paragraph is scanned.                               *)

DoneBlocks == UNION {Expected(p) : p \in DOMAIN paragraphs}

RunPairs(n, found, above) == {<<LinesOf(n, r[1], r[2]), SectionId(above)>> : r \in found}

TextTypes ==
  /\ paragraphs \in Seq(Seq(LineKinds) \ {<<>>})
  /\ paragraph \in Seq(LineKinds)
  /\ sections \in Seq(SectionRecords)
  /\ Len(sections) = HeadingsAbove(Number)
  /\ Buffered

\* The blocks and the tables are those of the paragraphs that are done and of
\* the given runs of the paragraph being scanned.
Filed(bs, ts, found) ==
  /\ InOrder(bs) /\ RowsInOrder(ts)
  /\ Pairs(bs) = DoneBlocks \cup RunPairs(Number, found, Len(sections))
  /\ RowPairs(ts) = TablePairs(bs)

TextInv ==
  /\ TextTypes
  /\ order = Len(blocks)
  /\ Filed(blocks, tables, Closed(paragraph))

\* A paragraph without lines has no runs.
LEMMA RunsOfNothing == TableRuns(<<>>) = {} /\ Closed(<<>>) = {}
  BY DEF TableRuns, Closed

\* Of an empty text nothing is filed.
LEMMA TextStart == ExtractionInit => TextInv
<1> SUFFICES ASSUME ExtractionInit PROVE TextInv
  OBVIOUS
<1>1. Number = 1 /\ DoneBlocks = {}
  BY DEF ExtractionInit, Number, DoneBlocks
<1>2. HeadingsAbove(1) = 0
  <2>1. {q \in 1 .. 0 : Headed(q)} = {}
    OBVIOUS
  <2> QED
    BY <2>1, FS_EmptySet DEF HeadingsAbove
<1>3. TextTypes
  BY <1>1, <1>2 DEF ExtractionInit, TextTypes, Buffered
<1>4. Filed(<<>>, <<>>, {})
  BY <1>1 DEF Filed, InOrder, RowsInOrder, Pairs, RowPairs, TablePairs, RunPairs, ToSet
<1> QED
  BY <1>3, <1>4, RunsOfNothing DEF ExtractionInit, TextInv

\* The lines of earlier paragraphs.
LEMMA DoneIsAbove ==
  ASSUME TextTypes, NEW q \in DoneBlocks
  PROVE  q[1] # {} /\ \A x \in q[1] : x \in Nat \X Nat /\ x[1] < Number
<1>1. PICK p \in DOMAIN paragraphs : q \in Expected(p)
  BY DEF DoneBlocks
<1>2. /\ p \in Nat /\ p < Number
      /\ paragraphs[p] \in Seq(LineKinds) /\ paragraphs[p] # <<>>
  BY DEF TextTypes, Number
<1>3. PICK a \in Nat, b \in Nat : a <= b /\ q[1] = LinesOf(p, a, b)
  <2>1. Len(paragraphs[p]) \in Nat /\ 1 <= Len(paragraphs[p])
    BY <1>2
  <2>2. \A r \in TableRuns(paragraphs[p]) : r[1] \in Nat /\ r[2] \in Nat /\ r[1] <= r[2]
    BY <1>2 DEF TableRuns
  <2> QED
    BY <1>1, <2>1, <2>2 DEF Expected
<1>4. \A x \in LinesOf(p, a, b) : x \in Nat \X Nat /\ x[1] = p
  BY <1>2 DEF LinesOf
<1>5. <<p, a>> \in LinesOf(p, a, b)
  BY <1>3 DEF LinesOf
<1> QED
  BY <1>2, <1>3, <1>4, <1>5

\* What is filed stands above the runs and in those given.
LEMMA FiledPlaces ==
  ASSUME TextTypes, NEW found \in SUBSET TableRuns(paragraph),
         NEW bs, Pairs(bs) = DoneBlocks \cup RunPairs(Number, found, Len(sections)), NEW q \in Pairs(bs)
  PROVE  /\ q[1] # {} /\ \A x \in q[1] : x \in Nat \X Nat /\ x[1] <= Number
         /\ \/ \A x \in q[1] : x[1] < Number
            \/ \E r \in found : q[1] = LinesOf(Number, r[1], r[2])
<1>1. Number \in Nat
  BY DEF TextTypes, Number
<1>2. CASE q \in DoneBlocks
  BY <1>1, <1>2, DoneIsAbove
<1>3. CASE q \in RunPairs(Number, found, Len(sections))
  <2>1. PICK r \in found : q[1] = LinesOf(Number, r[1], r[2])
    BY <1>3 DEF RunPairs
  <2>2. r[1] \in Nat /\ r[2] \in Nat /\ r[1] <= r[2]
    BY DEF TableRuns, TextTypes
  <2>3. <<Number, r[1]>> \in LinesOf(Number, r[1], r[2])
    BY <2>2 DEF LinesOf
  <2>4. \A x \in LinesOf(Number, r[1], r[2]) : x \in Nat \X Nat /\ x[1] = Number
    BY <1>1, <2>2 DEF LinesOf
  <2> QED
    BY <1>1, <2>1, <2>3, <2>4
<1> QED
  BY <1>2, <1>3

\* _flush_table files the run that the buffer holds.
LEMMA Flush ==
  ASSUME TextInv
  PROVE  /\ Filed(FlushedBlocks, FlushedTables, TableRuns(paragraph))
         /\ FlushedOrder = Len(FlushedBlocks)
<1>1. CASE ~IsTable(buffer)
  BY <1>1, TrailingRun DEF TextInv, TextTypes, FlushedBlocks, FlushedTables, FlushedOrder
<1>2. CASE IsTable(buffer)
  <2> DEFINE L == Len(paragraph)
  <2>1. PICK a \in 1 .. (L - 1) :
          /\ TableRuns(paragraph) = Closed(paragraph) \cup {<<a, L>>}
          /\ ToSet(buffer) = LinesOf(Number, a, L)
          /\ \A r \in Closed(paragraph) : r[2] < a
    BY <1>2, TrailingRun DEF TextInv, TextTypes
  <2>2. PICK b : b = Block("table", CurrentSection, ToSet(buffer), order)
    OBVIOUS
  <2>3. PICK t : t = [section |-> CurrentSection, rows |-> ToSet(buffer)]
    OBVIOUS
  <2>4. L \in Nat /\ Number \in Nat /\ CurrentSection \in SectionIds /\ order \in Nat /\ a \in Nat /\ a < L
    BY <2>1 DEF TextInv, TextTypes, Number, CurrentSection, SectionId, SectionIds, Filed, InOrder
  <2>5. LinesOf(Number, a, L) \in SUBSET (Nat \X Nat)
    BY <2>4 DEF LinesOf
  <2>6. /\ b \in BlockRecords /\ b.order = order /\ b.lines = LinesOf(Number, a, L)
        /\ b.section = CurrentSection /\ b.kind = "table"
        /\ t \in TableRecords /\ t.rows = LinesOf(Number, a, L) /\ t.section = CurrentSection
    BY <2>1, <2>2, <2>3, <2>4, <2>5 DEF Block, BlockRecords, TableRecords
  <2>7. <<Number, L>> \in LinesOf(Number, a, L)
    BY <2>4 DEF LinesOf
  <2>8. ASSUME NEW q \in Pairs(blocks), NEW x \in q[1], NEW y \in LinesOf(Number, a, L)
        PROVE  x[1] <= y[1] /\ Before(x, y)
    <3>1. /\ x \in Nat \X Nat /\ x[1] <= Number
          /\ x[1] < Number \/ \E r \in Closed(paragraph) : x \in LinesOf(Number, r[1], r[2])
      <4>1. Closed(paragraph) \in SUBSET TableRuns(paragraph)
        BY DEF Closed
      <4>2. /\ x \in Nat \X Nat /\ x[1] <= Number
            /\ \/ \A z \in q[1] : z[1] < Number
               \/ \E r \in Closed(paragraph) : q[1] = LinesOf(Number, r[1], r[2])
        BY <2>8, <4>1, FiledPlaces DEF TextInv, Filed
      <4> QED
        BY <2>8, <4>2
    <3>2. y[1] = Number /\ y[2] \in Nat /\ y[2] >= a
      BY <2>4 DEF LinesOf
    <3>3. ASSUME NEW r \in Closed(paragraph), x \in LinesOf(Number, r[1], r[2])
          PROVE  x[1] = Number /\ x[2] < a
      <4>1. r[1] \in Nat /\ r[2] \in Nat /\ r[2] < a
        <5>1. r \in TableRuns(paragraph) /\ DOMAIN paragraph \subseteq Nat
          BY DEF Closed, TextInv, TextTypes
        <5> QED
          BY <2>1, <5>1 DEF TableRuns
      <4> QED
        BY <2>4, <3>3, <4>1 DEF LinesOf
    <3> QED
      BY <2>4, <3>1, <3>2, <3>3 DEF Before
  <2>9. ASSUME NEW q \in Pairs(blocks) PROVE q[1] # b.lines
    <3>1. q[1] = b.lines => Before(<<Number, L>>, <<Number, L>>)
      BY <2>6, <2>7, <2>8
    <3> QED
      BY <2>4, <3>1 DEF Before
  <2>10. FlushedBlocks = Append(blocks, b) /\ FlushedTables = Append(tables, t)
           /\ FlushedOrder = order + 1
    BY <1>2, <2>2, <2>3 DEF FlushedBlocks, FlushedTables, FlushedOrder
  <2>11. /\ InOrder(FlushedBlocks) /\ Len(FlushedBlocks) = Len(blocks) + 1
         /\ Pairs(FlushedBlocks) = Pairs(blocks) \cup {<<b.lines, b.section>>}
         /\ TablePairs(FlushedBlocks) = TablePairs(blocks) \cup {<<b.lines, b.section>>}
    <3>1. \A q \in Pairs(blocks) : /\ q[1] # b.lines
                                   /\ \A x \in q[1], y \in b.lines : x[1] <= y[1]
      BY <2>6, <2>8, <2>9
    <3> QED
      BY <2>6, <2>10, <3>1, BlockAppended DEF TextInv, Filed
  <2>12. /\ RowsInOrder(FlushedTables)
         /\ RowPairs(FlushedTables) = RowPairs(tables) \cup {<<t.rows, t.section>>}
    <3>1. ASSUME NEW u \in ToSet(tables), NEW x \in u.rows, NEW y \in t.rows PROVE Before(x, y)
      <4> PICK q : q = <<u.rows, u.section>>
        OBVIOUS
      <4>1. q \in RowPairs(tables) /\ x \in q[1]
        BY DEF RowPairs
      <4>2. q \in Pairs(blocks)
        BY <4>1 DEF TextInv, Filed, TablePairs, Pairs
      <4> QED
        BY <2>6, <2>8, <4>1, <4>2
    <3>2. t.rows # {}
      BY <2>6, <2>7
    <3> QED
      BY <2>6, <2>10, <3>1, <3>2, TableAppended DEF TextInv, Filed
  <2>13. Pairs(FlushedBlocks) = DoneBlocks \cup RunPairs(Number, TableRuns(paragraph), Len(sections))
    <3>1. RunPairs(Number, Closed(paragraph) \cup {<<a, L>>}, Len(sections)) =
            RunPairs(Number, Closed(paragraph), Len(sections))
              \cup {<<LinesOf(Number, a, L), CurrentSection>>}
      <4> PICK r : r = <<a, L>>
        OBVIOUS
      <4>1. r[1] = a /\ r[2] = L
        OBVIOUS
      <4> QED
        BY <4>1 DEF RunPairs, CurrentSection
    <3> QED
      BY <2>1, <2>6, <2>11, <3>1 DEF TextInv, Filed
  <2>14. RowPairs(FlushedTables) = TablePairs(FlushedBlocks)
    BY <2>6, <2>11, <2>12 DEF TextInv, Filed
  <2> QED
    BY <2>10, <2>11, <2>12, <2>13, <2>14 DEF Filed, TextInv
<1> QED
  BY <1>1, <1>2

\* What is expected changes with the paragraphs that are done only.
LEMMA DoneKept ==
  ASSUME paragraphs' = paragraphs
  PROVE  /\ Number' = Number /\ DoneBlocks' = DoneBlocks
         /\ (HeadingsAbove(Number))' = HeadingsAbove(Number)
<1>1. Number' = Number
  BY DEF Number
<1>2. ASSUME NEW p PROVE HeadingsAbove(p)' = HeadingsAbove(p) /\ Expected(p)' = Expected(p)
  <2>1. HeadingsAbove(p)' = HeadingsAbove(p)
    BY DEF HeadingsAbove, Headed
  <2>2. Headed(p)' <=> Headed(p)
    BY DEF Headed
  <2> QED
    BY <2>1, <2>2 DEF Expected
<1>3. DoneBlocks' = DoneBlocks
  BY <1>2 DEF DoneBlocks
<1>4. (HeadingsAbove(Number))' = HeadingsAbove(Number)
  <2> PICK n : n = Number
    OBVIOUS
  <2>1. Number' = n
    BY <1>1
  <2>2. (HeadingsAbove(Number))' = HeadingsAbove(n)'
    BY <2>1 DEF HeadingsAbove, Headed
  <2> QED
    BY <1>2, <2>2
<1> QED
  BY <1>1, <1>3, <1>4

\* A line that is scanned closes the runs above it, or lengthens the last one.
LEMMA ScanStep ==
  ASSUME TextInv, ScanRow \/ \E kind \in LineKinds : ScanOther(kind)
  PROVE  TextInv'
<1>1. /\ UNCHANGED <<paragraphs, sections>> /\ Number \in Nat
      /\ Number' = Number /\ DoneBlocks' = DoneBlocks
  <2>1. UNCHANGED <<paragraphs, sections>>
    BY DEF ScanRow, ScanOther
  <2>2. Number \in Nat
    BY DEF Number, TextInv, TextTypes
  <2> QED
    BY <2>1, <2>2, DoneKept
<1>2. ASSUME NEW bs, NEW ts, NEW found, Filed(bs, ts, found)
      PROVE  Filed(bs, ts, found)'
  BY <1>1, <1>2 DEF Filed
<1>3. (HeadingsAbove(Number))' = HeadingsAbove(Number)
  BY <1>1, DoneKept
<1>4. CASE ScanRow
  <2>1. /\ paragraph' = Append(paragraph, RowLine) /\ RowLine \in LineKinds
        /\ buffer' = Append(buffer, Here) /\ UNCHANGED <<blocks, tables, order>>
    BY <1>4 DEF ScanRow, LineKinds
  <2>2. paragraph' \in Seq(LineKinds) /\ Closed(paragraph') = Closed(paragraph)
    BY <2>1, LineAppended DEF TextInv, TextTypes
  <2>3. Buffered'
    <3>1. Here \in Nat \X Nat /\ Here = <<Number, Len(paragraph) + 1>>
      BY <1>1 DEF Here, TextInv, TextTypes
    <3>2. /\ Len(buffer') = Len(buffer) + 1 /\ Len(paragraph') = Len(paragraph) + 1
          /\ Len(buffer) \in Nat /\ Len(paragraph) \in Nat
          /\ buffer' \in Seq(Nat \X Nat)
          /\ buffer'[Len(buffer) + 1] = Here /\ paragraph'[Len(paragraph) + 1] = RowLine
          /\ \A i \in 1 .. Len(buffer) : buffer'[i] = buffer[i]
          /\ \A i \in 1 .. Len(paragraph) : paragraph'[i] = paragraph[i]
      BY <2>1, <3>1 DEF TextInv, TextTypes, Buffered
    <3> DEFINE m == Len(buffer)
               n == Len(paragraph)
    <3>3. /\ m <= n /\ \A i \in 1 .. m : /\ buffer[i] = <<Number, n - m + i>>
                                         /\ paragraph[n - m + i] = RowLine
          /\ m < n => paragraph[n - m] # RowLine
      BY DEF TextInv, TextTypes, Buffered
    <3> HIDE DEF m, n
    <3>4. m \in Nat /\ n \in Nat /\ (n + 1) - (m + 1) = n - m
      BY <3>2 DEF m, n
    <3>5. ASSUME NEW i \in 1 .. (m + 1)
          PROVE  buffer'[i] = <<Number, n - m + i>> /\ paragraph'[n - m + i] = RowLine
      <4>1. CASE i = m + 1
        <5>1. n - m + i = n + 1
          BY <3>4, <4>1
        <5> QED
          BY <3>1, <3>2, <4>1, <5>1 DEF m, n
      <4>2. CASE i \in 1 .. m
        <5>1. n - m + i \in 1 .. n
          BY <3>3, <3>4, <4>2
        <5> QED
          BY <3>2, <3>3, <4>2, <5>1 DEF m, n
      <4> QED
        BY <3>4, <4>1, <4>2
    <3>6. m < n => paragraph'[n - m] # RowLine
      <4>1. m < n => n - m \in 1 .. n
        BY <3>4
      <4> QED
        BY <3>2, <3>3, <4>1 DEF m, n
    <3>7. Len(buffer') = m + 1 /\ Len(paragraph') = n + 1
      BY <3>2 DEF m, n
    <3>8. /\ \A i \in 1 .. Len(buffer') :
                 /\ buffer'[i] = <<Number, Len(paragraph') - Len(buffer') + i>>
                 /\ paragraph'[Len(paragraph') - Len(buffer') + i] = RowLine
          /\ Len(buffer') < Len(paragraph') =>
               paragraph'[Len(paragraph') - Len(buffer')] # RowLine
      BY <3>4, <3>5, <3>6, <3>7
    <3>9. Len(buffer') <= Len(paragraph')
      BY <3>3, <3>4, <3>7
    <3> QED
      BY <1>1, <3>2, <3>8, <3>9 DEF Buffered
  <2> QED
    BY <1>1, <1>2, <1>3, <2>1, <2>2, <2>3 DEF TextInv, TextTypes
<1>5. ASSUME NEW kind \in LineKinds, ScanOther(kind) PROVE TextInv'
  <2>1. /\ paragraph' = Append(paragraph, kind) /\ kind # RowLine /\ buffer' = <<>>
        /\ blocks' = FlushedBlocks /\ tables' = FlushedTables /\ order' = FlushedOrder
    BY <1>5 DEF ScanOther, BufferAfter
  <2>2. paragraph' \in Seq(LineKinds) /\ Closed(paragraph') = TableRuns(paragraph)
    BY <2>1, LineAppended DEF TextInv, TextTypes
  <2>3. Buffered'
    <3>1. paragraph'[Len(paragraph')] = kind /\ Len(paragraph') \in Nat
      BY <2>1 DEF TextInv, TextTypes
    <3>2. Len(buffer') = 0 /\ buffer' \in Seq(Nat \X Nat)
      BY <2>1
    <3> QED
      BY <2>1, <3>1, <3>2 DEF Buffered
  <2>4. Filed(blocks', tables', TableRuns(paragraph)) /\ order' = Len(blocks')
    BY <2>1, Flush
  <2>5. Filed(blocks', tables', Closed(paragraph'))
    BY <2>2, <2>4
  <2> QED
    BY <1>1, <1>2, <1>3, <2>2, <2>3, <2>4, <2>5 DEF TextInv, TextTypes, Filed
<1> QED
  BY <1>4, <1>5

\* The blocks that the end of a paragraph adds to its tables.
Closing(n, lines, above) ==
  IF lines[1] \in Levels THEN {<<LinesOf(n, 1, 1), SectionId(above + 1)>>}
  ELSE IF ToSet(lines) = {RowLine} THEN {}
  ELSE {<<LinesOf(n, 1, Len(lines)), SectionId(above)>>}

\* What the end of a paragraph adds to the blocks that are expected.
LEMMA ParagraphDone ==
  ASSUME TextInv, ParagraphEnds
  PROVE  /\ DoneBlocks' = DoneBlocks \cup RunPairs(Number, TableRuns(paragraph), Len(sections))
                         \cup Closing(Number, paragraph, Len(sections))
         /\ paragraphs' \in Seq(Seq(LineKinds) \ {<<>>}) /\ paragraph' = <<>>
         /\ Number' = Number + 1 /\ Number \in Nat /\ Buffered'
         /\ (HeadingsAbove(Number))' =
              Len(sections) + IF paragraph[1] \in Levels THEN 1 ELSE 0
<1> PICK n : n = Number
  OBVIOUS
<1>1. /\ n \in Nat \ {0} /\ DOMAIN paragraphs = 1 .. (n - 1) /\ Len(paragraphs) = n - 1
      /\ paragraphs' = Append(paragraphs, paragraph) /\ paragraph' = <<>> /\ buffer' = <<>>
      /\ paragraph \in Seq(LineKinds) \ {<<>>}
  BY DEF TextInv, TextTypes, ParagraphEnds, Number, BufferAfter
<1>2. /\ paragraphs' \in Seq(Seq(LineKinds) \ {<<>>}) /\ DOMAIN paragraphs' = 1 .. n
      /\ Len(paragraphs') = n
      /\ paragraphs'[n] = paragraph /\ \A p \in 1 .. (n - 1) : paragraphs'[p] = paragraphs[p]
  <2>1. Append(paragraphs, paragraph) \in Seq(Seq(LineKinds) \ {<<>>})
    BY <1>1 DEF TextInv, TextTypes
  <2> QED
    BY <1>1, <2>1 DEF TextInv, TextTypes
<1>3. Number' = n + 1
  BY <1>2 DEF Number
<1>4. \A p \in 1 .. (n - 1) : Headed(p)' <=> Headed(p)
  BY <1>2 DEF Headed
<1>5. \A p \in 1 .. n : HeadingsAbove(p)' = HeadingsAbove(p)
  <2> SUFFICES ASSUME NEW p \in 1 .. n PROVE HeadingsAbove(p)' = HeadingsAbove(p)
    OBVIOUS
  <2>1. \A q \in 1 .. (p - 1) : q \in 1 .. (n - 1)
    BY <1>1
  <2>2. {q \in 1 .. (p - 1) : Headed(q)'} = {q \in 1 .. (p - 1) : Headed(q)}
    BY <1>4, <2>1
  <2> QED
    BY <2>2 DEF HeadingsAbove
<1>6. HeadingsAbove(n) = Len(sections)
  BY DEF TextInv, TextTypes
<1>7. ASSUME NEW p \in 1 .. (n - 1) PROVE Expected(p)' = Expected(p)
  <2>1. p \in 1 .. n /\ paragraphs'[p] = paragraphs[p]
    BY <1>1, <1>2
  <2>2. (Headed(p)' <=> Headed(p)) /\ HeadingsAbove(p)' = HeadingsAbove(p)
    BY <1>4, <1>5, <2>1
  <2> QED
    BY <2>1, <2>2 DEF Expected
<1>8. Expected(n)' = RunPairs(n, TableRuns(paragraph), Len(sections))
                       \cup Closing(n, paragraph, Len(sections))
  <2>1. paragraphs'[n] = paragraph /\ HeadingsAbove(n)' = Len(sections)
        /\ (Headed(n)' <=> paragraph[1] \in Levels)
    BY <1>1, <1>2, <1>5, <1>6 DEF Headed
  <2> QED
    BY <2>1 DEF Expected, RunPairs, Closing
<1>9. DoneBlocks' = DoneBlocks \cup Expected(n)'
  <2>1. DoneBlocks' = UNION {Expected(p)' : p \in 1 .. n}
    BY <1>2 DEF DoneBlocks
  <2>2. DoneBlocks = UNION {Expected(p) : p \in 1 .. (n - 1)}
    BY <1>1 DEF DoneBlocks
  <2>3. 1 .. n = (1 .. (n - 1)) \cup {n}
    BY <1>1
  <2>4. {Expected(p)' : p \in 1 .. n} = {Expected(p) : p \in 1 .. (n - 1)} \cup {Expected(n)'}
    BY <1>7, <2>3
  <2> QED
    BY <2>1, <2>2, <2>4
<1>10. HeadingsAbove(n + 1)' = Len(sections) + IF paragraph[1] \in Levels THEN 1 ELSE 0
  <2> DEFINE above == {q \in 1 .. (n - 1) : Headed(q)}
  <2>1. IsFiniteSet(above) /\ n \notin above /\ Cardinality(above) = Len(sections)
    <3>1. IsFiniteSet(1 .. (n - 1))
      BY <1>1, FS_Interval
    <3>2. IsFiniteSet(above)
      BY <3>1, FS_Subset
    <3> QED
      BY <1>1, <1>6, <3>2 DEF HeadingsAbove
  <2>2. {q \in 1 .. n : Headed(q)'} = above \cup {q \in {n} : paragraph[1] \in Levels}
    <3>1. 1 .. n = (1 .. (n - 1)) \cup {n}
      BY <1>1
    <3>2. Headed(n)' <=> paragraph[1] \in Levels
      BY <1>2 DEF Headed
    <3> QED
      BY <1>4, <3>1, <3>2
  <2>3. HeadingsAbove(n + 1)' = Cardinality({q \in 1 .. n : Headed(q)'})
    <3>1. (n + 1) - 1 = n
      BY <1>1
    <3> QED
      BY <3>1 DEF HeadingsAbove
  <2>4. Cardinality(above \cup {n}) = Cardinality(above) + 1
    BY <2>1, FS_AddElement
  <2>5. Len(sections) \in Nat
    BY DEF TextInv, TextTypes
  <2> HIDE DEF above
  <2>6. CASE paragraph[1] \in Levels
    BY <2>1, <2>2, <2>3, <2>4, <2>6
  <2>7. CASE paragraph[1] \notin Levels
    <3>1. above \cup {q \in {n} : paragraph[1] \in Levels} = above
      BY <2>7
    <3>2. HeadingsAbove(n + 1)' = Len(sections)
      BY <2>1, <2>2, <2>3, <3>1
    <3> PICK k \in Nat : k = Len(sections)
      BY <2>5
    <3>3. k + 0 = k
      OBVIOUS
    <3> QED
      BY <2>7, <3>2, <3>3
  <2> QED
    BY <2>6, <2>7
<1>11. Buffered'
  <2>1. Len(buffer') = 0 /\ Len(paragraph') = 0 /\ buffer' \in Seq(Nat \X Nat)
    BY <1>1
  <2> QED
    BY <2>1 DEF Buffered
<1> QED
  BY <1>1, <1>2, <1>3, <1>8, <1>9, <1>10, <1>11

\* The end of a paragraph files what is left of it.
LEMMA ParagraphStep ==
  ASSUME TextInv, EndTable \/ EndHeading \/ EndProse
  PROVE  TextInv'
<1> DEFINE headed == paragraph[1] \in Levels
<1>1. /\ ParagraphEnds /\ paragraph # <<>> /\ tables' = FlushedTables
      /\ paragraph[1] \in ToSet(paragraph)
  <2>1. ParagraphEnds
    BY DEF EndTable, EndHeading, EndProse
  <2>2. paragraph # <<>> /\ tables' = FlushedTables
    BY <2>1 DEF ParagraphEnds
  <2>3. 1 \in DOMAIN paragraph
    BY <2>2 DEF TextInv, TextTypes
  <2> QED
    BY <2>1, <2>2, <2>3 DEF ToSet
<1>2. /\ Filed(FlushedBlocks, FlushedTables, TableRuns(paragraph))
      /\ FlushedOrder = Len(FlushedBlocks) /\ FlushedOrder \in Nat
  BY Flush DEF Filed, InOrder
<1>3. /\ Number \in Nat /\ Len(sections) \in Nat
      /\ Len(paragraph) \in Nat /\ Len(paragraph) >= 1
      /\ DOMAIN paragraph = 1 .. Len(paragraph)
  BY <1>1, ParagraphDone DEF TextInv, TextTypes
<1>4. ASSUME /\ InOrder(blocks') /\ order' = Len(blocks')
             /\ Pairs(blocks') = Pairs(FlushedBlocks) \cup Closing(Number, paragraph, Len(sections))
             /\ TablePairs(blocks') = TablePairs(FlushedBlocks)
             /\ sections' \in Seq(SectionRecords)
             /\ Len(sections') = Len(sections) + IF headed THEN 1 ELSE 0
      PROVE  TextInv'
  <2>1. Pairs(blocks') = DoneBlocks'
    BY <1>1, <1>2, <1>4, ParagraphDone DEF Filed
  <2>2. RunPairs(Number, Closed(paragraph), Len(sections))' = {}
    BY <1>1, ParagraphDone, RunsOfNothing DEF RunPairs
  <2>3. Filed(blocks, tables, Closed(paragraph))'
    BY <1>1, <1>2, <1>4, <2>1, <2>2 DEF Filed
  <2>4. TextTypes'
    BY <1>1, <1>4, ParagraphDone DEF TextTypes
  <2> QED
    BY <1>4, <2>3, <2>4 DEF TextInv
<1>5. ASSUME NEW kind \in {"title", "heading", "paragraph"}, NEW section \in SectionIds, NEW to \in Nat, to >= 1,
             blocks' = Append(FlushedBlocks, Block(kind, section, LinesOf(Number, 1, to), FlushedOrder)),
             \A r \in TableRuns(paragraph) : LinesOf(Number, r[1], r[2]) # LinesOf(Number, 1, to)
      PROVE  /\ InOrder(blocks') /\ Len(blocks') = FlushedOrder + 1
             /\ Pairs(blocks') = Pairs(FlushedBlocks) \cup {<<LinesOf(Number, 1, to), section>>}
             /\ TablePairs(blocks') = TablePairs(FlushedBlocks)
  <2> PICK b : b = Block(kind, section, LinesOf(Number, 1, to), FlushedOrder)
    OBVIOUS
  <2>1. /\ b \in BlockRecords /\ b.order = FlushedOrder /\ b.lines = LinesOf(Number, 1, to)
        /\ b.section = section /\ b.kind # "table"
    <3>1. LinesOf(Number, 1, to) \in SUBSET (Nat \X Nat)
      BY <1>3 DEF LinesOf
    <3> QED
      BY <1>2, <3>1 DEF Block, BlockRecords
  <2>2. ASSUME NEW q \in Pairs(FlushedBlocks)
        PROVE  q[1] # b.lines /\ \A x \in q[1], y \in b.lines : x[1] <= y[1]
    <3>1. /\ q[1] # {} /\ \A x \in q[1] : x \in Nat \X Nat /\ x[1] <= Number
          /\ \/ \A x \in q[1] : x[1] < Number
             \/ \E r \in TableRuns(paragraph) : q[1] = LinesOf(Number, r[1], r[2])
      BY <1>2, FiledPlaces DEF Filed, TextInv
    <3>2. \A y \in b.lines : y[1] = Number
      BY <2>1 DEF LinesOf
    <3>3. q[1] # b.lines
      BY <1>3, <1>5, <2>1, <3>1, <3>2
    <3> QED
      BY <3>1, <3>2, <3>3
  <2>3. InOrder(FlushedBlocks) /\ b.order = Len(FlushedBlocks)
        /\ blocks' = Append(FlushedBlocks, b)
    BY <1>2, <1>5, <2>1 DEF Filed
  <2>4. {q \in {<<b.lines, b.section>>} : b.kind = "table"} = {}
    BY <2>1
  <2>5. /\ InOrder(Append(FlushedBlocks, b))
        /\ Pairs(Append(FlushedBlocks, b)) = Pairs(FlushedBlocks) \cup {<<b.lines, b.section>>}
        /\ Len(Append(FlushedBlocks, b)) = Len(FlushedBlocks) + 1
        /\ TablePairs(Append(FlushedBlocks, b)) = TablePairs(FlushedBlocks)
             \cup {q \in {<<b.lines, b.section>>} : b.kind = "table"}
    BY <2>1, <2>2, <2>3, BlockAppended
  <2> QED
    BY <1>2, <2>1, <2>3, <2>4, <2>5
<1>6. ASSUME NEW r \in TableRuns(paragraph)
      PROVE  /\ r[1] \in Nat /\ r[2] \in Nat /\ r[1] < r[2]
             /\ \A i \in r[1] .. r[2] : paragraph[i] = RowLine
             /\ \A i \in r[1] .. r[2] : <<Number, i>> \in LinesOf(Number, r[1], r[2])
             /\ \A i : <<Number, i>> \in LinesOf(Number, r[1], r[2]) => i \in r[1] .. r[2]
  BY <1>3 DEF TableRuns, LinesOf
<1>7. CASE EndTable
  <2>1. ~headed /\ ToSet(paragraph) = {RowLine}
    BY <1>1, <1>7, ExtractionConstants DEF EndTable, OnlyRows
  <2>2. Closing(Number, paragraph, Len(sections)) = {}
    BY <2>1 DEF Closing
  <2>3. blocks' = FlushedBlocks /\ order' = FlushedOrder /\ sections' = sections
    BY <1>7 DEF EndTable
  <2> QED
    BY <1>2, <1>3, <1>4, <2>1, <2>2, <2>3 DEF Filed, TextInv, TextTypes
<1>8. CASE EndHeading
  <2>1. headed
    BY <1>8 DEF EndHeading
  <2>2. {<<Number, 1>>} = LinesOf(Number, 1, 1)
    BY DEF LinesOf
  <2>3. PICK kind \in {"title", "heading"} :
          blocks' = Append(FlushedBlocks,
                           Block(kind, SectionId(Len(sections) + 1), LinesOf(Number, 1, 1), FlushedOrder))
    BY <1>8, <2>2 DEF EndHeading
  <2>4. \A r \in TableRuns(paragraph) : LinesOf(Number, r[1], r[2]) # LinesOf(Number, 1, 1)
    <3> SUFFICES ASSUME NEW r \in TableRuns(paragraph),
                        LinesOf(Number, r[1], r[2]) = LinesOf(Number, 1, 1)
                 PROVE  FALSE
      OBVIOUS
    <3>1. r[1] = 1 /\ r[2] = 1
      <4>1. <<Number, r[1]>> \in LinesOf(Number, 1, 1) /\ <<Number, r[2]>> \in LinesOf(Number, 1, 1)
        BY <1>6
      <4> QED
        BY <4>1 DEF LinesOf
    <3> QED
      BY <1>6, <3>1
  <2>5. /\ InOrder(blocks') /\ Len(blocks') = FlushedOrder + 1
        /\ Pairs(blocks') = Pairs(FlushedBlocks) \cup {<<LinesOf(Number, 1, 1), SectionId(Len(sections) + 1)>>}
        /\ TablePairs(blocks') = TablePairs(FlushedBlocks)
    <3>1. SectionId(Len(sections) + 1) \in SectionIds
      BY DEF SectionId, SectionIds
    <3> QED
      BY <1>5, <2>3, <2>4, <3>1
  <2>6. Closing(Number, paragraph, Len(sections)) = {<<LinesOf(Number, 1, 1), SectionId(Len(sections) + 1)>>}
    BY <2>1 DEF Closing
  <2>7. sections' \in Seq(SectionRecords) /\ Len(sections') = Len(sections) + 1
    <3>1. [level |-> paragraph[1], at |-> Number] \in SectionRecords
      BY <1>3, <2>1 DEF SectionRecords
    <3> QED
      BY <1>8, <3>1 DEF EndHeading, TextInv, TextTypes
  <2>8. order' = FlushedOrder + 1
    BY <1>8 DEF EndHeading
  <2> QED
    BY <1>4, <2>1, <2>5, <2>6, <2>7, <2>8
<1>9. CASE EndProse
  <2>1. ~headed /\ ToSet(paragraph) # {RowLine}
    BY <1>9 DEF EndProse, OnlyRows
  <2>2. blocks' = Append(FlushedBlocks, Block("paragraph", CurrentSection,
                                              LinesOf(Number, 1, Len(paragraph)), FlushedOrder))
    BY <1>3, <1>9 DEF EndProse, LinesOf
  <2>3. \A r \in TableRuns(paragraph) :
          LinesOf(Number, r[1], r[2]) # LinesOf(Number, 1, Len(paragraph))
    <3> SUFFICES ASSUME NEW r \in TableRuns(paragraph),
                        LinesOf(Number, r[1], r[2]) = LinesOf(Number, 1, Len(paragraph))
                 PROVE  FALSE
      OBVIOUS
    <3>1. PICK i \in 1 .. Len(paragraph) : paragraph[i] # RowLine
      BY <1>1, <1>3, <2>1 DEF ToSet
    <3>2. <<Number, i>> \in LinesOf(Number, 1, Len(paragraph))
      BY DEF LinesOf
    <3> QED
      BY <1>6, <3>1, <3>2
  <2>4. /\ InOrder(blocks') /\ Len(blocks') = FlushedOrder + 1
        /\ Pairs(blocks') = Pairs(FlushedBlocks)
             \cup {<<LinesOf(Number, 1, Len(paragraph)), CurrentSection>>}
        /\ TablePairs(blocks') = TablePairs(FlushedBlocks)
    <3>1. CurrentSection \in SectionIds
      BY DEF CurrentSection, SectionId, SectionIds
    <3> QED
      BY <1>3, <1>5, <2>2, <2>3, <3>1
  <2>5. Closing(Number, paragraph, Len(sections)) =
          {<<LinesOf(Number, 1, Len(paragraph)), CurrentSection>>}
    BY <2>1 DEF Closing, CurrentSection
  <2>6. sections' = sections /\ order' = FlushedOrder + 1
    BY <1>9 DEF EndProse
  <2> QED
    BY <1>3, <1>4, <2>1, <2>4, <2>5, <2>6 DEF TextInv, TextTypes
<1> QED
  BY <1>7, <1>8, <1>9

\* The invariant is about the text, its blocks and its tables.
LEMMA TextKept ==
  ASSUME TextInv, UNCHANGED <<paragraphs, paragraph, buffer, sections, blocks, order>>,
         RowsInOrder(tables'), RowPairs(tables') = RowPairs(tables)
  PROVE  TextInv'
<1>1. /\ Number' = Number /\ DoneBlocks' = DoneBlocks
      /\ (HeadingsAbove(Number))' = HeadingsAbove(Number)
  BY DoneKept
<1>2. Buffered'
  BY <1>1 DEF TextInv, TextTypes, Buffered
<1>3. TextTypes'
  BY <1>1, <1>2 DEF TextInv, TextTypes
<1>4. Filed(blocks, tables, Closed(paragraph))'
  BY <1>1 DEF TextInv, Filed
<1> QED
  BY <1>3, <1>4 DEF TextInv

\* The tables of the parser come after those of the text and have no rows.
LEMMA ParserStep ==
  ASSUME TextInv, TextEnds \/ ParserTable
  PROVE  TextInv'
<1>1. UNCHANGED <<paragraphs, paragraph, buffer, sections, blocks, order>>
  BY DEF TextEnds, ParserTable
<1>2. RowsInOrder(tables') /\ RowPairs(tables') = RowPairs(tables)
  <2>1. CASE TextEnds
    BY <2>1 DEF TextEnds, TextInv, Filed
  <2>2. CASE ParserTable
    <3>t. PICK t : t = [section |-> NoSection, rows |-> {}]
      OBVIOUS
    <3>1. t \in TableRecords /\ t.rows = {}
      BY <3>t DEF TableRecords, SectionIds
    <3>2. tables' = Append(tables, t)
      BY <2>2, <3>t DEF ParserTable
    <3>3. \A u \in ToSet(tables) : \A x \in u.rows, y \in t.rows : Before(x, y)
      BY <3>1
    <3>4. {q \in {<<t.rows, t.section>>} : t.rows # {}} = {}
      BY <3>1
    <3>5. /\ RowsInOrder(Append(tables, t))
          /\ RowPairs(Append(tables, t)) =
               RowPairs(tables) \cup {q \in {<<t.rows, t.section>>} : t.rows # {}}
      <4>1. RowsInOrder(tables)
        BY DEF TextInv, Filed
      <4> QED
        BY <3>1, <3>3, <4>1, TableAppended, SMTT(60)
    <3> QED
      BY <3>2, <3>4, <3>5
  <2> QED
    BY <2>1, <2>2
<1> QED
  BY <1>1, <1>2, TextKept

\* The blocks and tables of a text are those its lines call for, in their order,
\* and none names its section, however long the text is and whatever stands in it.
THEOREM BlocksAlwaysFollow == ExtractionSpec => []BlocksFollowText
<1>1. TextInv /\ [ExtractionNext]_extractionVars => TextInv'
  <2> SUFFICES ASSUME TextInv, [ExtractionNext]_extractionVars PROVE TextInv'
    OBVIOUS
  <2>1. CASE UNCHANGED extractionVars
    BY <2>1, TextKept DEF extractionVars, TextInv, Filed
  <2> QED
    BY <2>1, ScanStep, ParagraphStep, ParserStep DEF ExtractionNext
<1>2. TextInv => BlocksFollowText
  <2> SUFFICES ASSUME TextInv, paragraph = <<>>
               PROVE  /\ Pairs(blocks) = DoneBlocks /\ InOrder(blocks) /\ RowsInOrder(tables)
                      /\ RowPairs(tables) = TablePairs(blocks)
    BY DEF BlocksFollowText, Pairs, DoneBlocks, InOrder, RowsInOrder, RowPairs, TablePairs
  <2>1. RunPairs(Number, Closed(paragraph), Len(sections)) = {}
    BY RunsOfNothing DEF RunPairs
  <2> QED
    BY <2>1 DEF TextInv, Filed
<1> QED
  BY <1>1, <1>2, TextStart, PTL DEF ExtractionSpec

=============================================================================
