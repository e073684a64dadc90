---------------------------- MODULE Spreadsheet ----------------------------
(***************************************************************************)
(* Indexing a workbook (index_tools/spreadsheet/indexer.py and             *)
(* repository.py, IndexService.index_spreadsheet).  One source (a URI of   *)
(* a profile) is indexed again and again.  Every run compares the workbook *)
(* with the latest version the SQL control plane holds and applies the     *)
(* difference to a collection of the vector store; the version is written  *)
(* in the transaction that ends the run, the vector store at once.         *)
(*                                                                         *)
(* start_job flushes a row, so with the default database (SQLite) a run    *)
(* holds the write lock to its end and runs follow one another.            *)
(***************************************************************************)
EXTENDS Integers, FiniteSets

CONSTANTS
    Collections,    \* collections of the profile a caller may name
    Objects,        \* object keys (sheets, tables, ranges) of the source
    Hashes,         \* contents of an object
    Absent,         \* the object is not there
    Idle,           \* no run is in progress
    BatchSize,      \* records of one upsert call
    MaxRuns         \* bound: runs of a behaviour

Book == [Objects -> Hashes \cup {Absent}]
Modes == {"full", "incremental", "delete_stale", "manifest_only"}

\* A run: its work left, and the stale records it could not delete.
SheetRuns ==
    [coll : Collections, book : Book, tracked : BOOLEAN, mode : Modes,
     delete : SUBSET Objects, upsert : SUBSET Objects, kept : SUBSET Objects]

ASSUME SpreadsheetConstants ==
    /\ IsFiniteSet(Objects)
    /\ Collections # {}
    /\ BatchSize \in Nat \ {0}
    /\ MaxRuns \in Nat
    /\ Absent \notin Hashes
    /\ Idle \notin SheetRuns

VARIABLES
    manifest,   \* objects of the latest committed version
    stored,     \* what the vector store holds, by collection
    run,        \* the run in progress, or Idle
    runs,       \* runs begun
    stray,      \* history: where a stored object may differ from the manifest
    tries       \* history: runs since the collection last matched

sheetVars == <<manifest, stored, run, runs, stray, tries>>

Empty == [o \in Objects |-> Absent]
Held(book) == {o \in Objects : book[o] # Absent}

\* A try that leaves part of its difference unapplied whatever happens.
Mixed == <<>>

SheetInit ==
    /\ manifest = Empty
    /\ stored = [c \in Collections |-> Empty]
    /\ run = Idle
    /\ runs = 0
    /\ stray = {}
    /\ tries = {}

---------------------------------------------------------------------------
\* diff_manifests, then the refresh mode: what the run will delete and upsert.

Vanished(book) == Held(manifest) \ Held(book)
Changed(book) == {o \in Held(book) : book[o] # manifest[o]}

ToDelete(book, mode) == IF mode = "manifest_only" THEN {} ELSE Vanished(book)

ToUpsert(book, mode) ==
    CASE mode = "full" -> Held(book)
      [] mode = "incremental" -> Changed(book)
      [] OTHER -> {}

\* A run that stops with part of its work done: the session is rolled back.
Abandon(c) ==
    /\ run' = Idle
    /\ stray' = stray \cup {<<c, o>> : o \in {x \in Objects : stored'[c][x] # manifest[x]}}
    /\ UNCHANGED <<manifest, runs, tries>>

\* Mutant: the version is committed before its records are applied.
IndexCommitsFirst(c, book, mode) ==
    /\ run = Idle
    /\ runs < MaxRuns
    /\ run' = [coll |-> c, book |-> book, tracked |-> TRUE, mode |-> mode,
               delete |-> ToDelete(book, mode), upsert |-> ToUpsert(book, mode),
               kept |-> {}]
    /\ manifest' = book
    /\ runs' = runs + 1
    /\ tries' = tries \cup {<<c, book>>}
    /\ UNCHANGED <<stored, stray>>

Index(c, book, mode) ==
    /\ run = Idle
    /\ runs < MaxRuns
    /\ run' = [coll |-> c, book |-> book, tracked |-> TRUE, mode |-> mode,
               delete |-> ToDelete(book, mode), upsert |-> ToUpsert(book, mode),
               kept |-> {}]
    /\ runs' = runs + 1
    /\ tries' = tries \cup {<<c, book>>}
    /\ UNCHANGED <<manifest, stored, stray>>

\* A workbook that cannot be parsed ends as a failed job without a version.
IndexUnreadable ==
    /\ run = Idle
    /\ runs < MaxRuns
    /\ runs' = runs + 1
    /\ UNCHANGED <<manifest, stored, run, stray, tries>>

\* Without the control plane every record is upserted and nothing recorded.
IndexUntracked(c, book) ==
    /\ run = Idle
    /\ runs < MaxRuns
    /\ run' = [coll |-> c, book |-> book, tracked |-> FALSE, mode |-> "full",
               delete |-> {}, upsert |-> Held(book), kept |-> {}]
    /\ runs' = runs + 1
    /\ tries' = tries \cup {Mixed}
    /\ UNCHANGED <<manifest, stored, stray>>

DeleteRecord(o) ==
    /\ run # Idle
    /\ o \in run.delete
    /\ stored' = [stored EXCEPT ![run.coll][o] = Absent]
    /\ run' = [run EXCEPT !.delete = @ \ {o}]
    /\ UNCHANGED <<manifest, runs, stray, tries>>

\* An error of delete_record is swallowed and the key is skipped.
DeleteSkipped(o) ==
    /\ run # Idle
    /\ o \in run.delete
    /\ run' = [run EXCEPT !.delete = @ \ {o}, !.kept = @ \cup {o}]
    /\ tries' = tries \cup {Mixed}
    /\ UNCHANGED <<manifest, stored, runs, stray>>

\* Mutant: a last batch that is not full is forgotten.
NextBatchesWhole ==
    {b \in SUBSET run.upsert : Cardinality(b) = BatchSize} \cup
    (IF Cardinality(run.upsert) < BatchSize THEN {{}} ELSE {})

\* The next batch: BatchSize records, or the records that are left.
NextBatches ==
    {b \in SUBSET run.upsert :
        Cardinality(b) = IF Cardinality(run.upsert) < BatchSize
                         THEN Cardinality(run.upsert) ELSE BatchSize}

Write(batch) ==
    stored' = [stored EXCEPT ![run.coll] =
                   [o \in Objects |-> IF o \in batch THEN run.book[o] ELSE @[o]]]

UpsertBatch ==
    /\ run # Idle
    /\ run.delete = {}
    /\ run.upsert # {}
    /\ \E batch \in NextBatches :
        /\ Write(batch)
        /\ run' = [run EXCEPT !.upsert = IF batch = {} THEN {} ELSE @ \ batch]
    /\ UNCHANGED <<manifest, runs, stray, tries>>

\* The upsert raises, or the process dies, with any part of the batch written.
UpsertFails ==
    /\ run # Idle
    /\ run.delete = {}
    /\ run.upsert # {}
    /\ \E batch \in NextBatches : \E part \in SUBSET batch : Write(part)
    /\ Abandon(run.coll)

\* The process dies between two calls, or after the last and before the commit.
RunDies ==
    /\ run # Idle
    /\ UNCHANGED stored
    /\ Abandon(run.coll)

\* What the finished run wrote, and where a collection may now differ from the
\* version it commits: deletes that were skipped, work that the mode leaves
\* out, every other collection.
Differing(book) == Changed(book) \cup Vanished(book)

Applied ==
    (ToDelete(run.book, run.mode) \cup ToUpsert(run.book, run.mode)) \ run.kept

Unapplied ==
    {<<run.coll, o>> : o \in Differing(run.book) \ Applied} \cup
    {<<c, o>> : c \in Collections \ {run.coll}, o \in Differing(run.book)}

\* The run applied all of its difference, and no other collection is in use.
Thorough ==
    /\ run.mode \in {"full", "incremental"}
    /\ \A c \in Collections \ {run.coll} : stored[c] = Empty

Complete ==
    /\ run # Idle
    /\ run.tracked
    /\ run.delete = {}
    /\ run.upsert = {}
    /\ manifest' = run.book
    /\ run' = Idle
    /\ stray' = (stray \ {<<run.coll, o>> : o \in Applied}) \cup Unapplied
    /\ tries' = IF Thorough /\ tries = {<<run.coll, run.book>>} THEN {} ELSE tries \cup {Mixed}
    /\ UNCHANGED <<stored, runs>>

CompleteUntracked ==
    /\ run # Idle
    /\ ~run.tracked
    /\ run.upsert = {}
    /\ UNCHANGED stored
    /\ Abandon(run.coll)

SheetNext ==
    \/ \E c \in Collections, book \in Book :
          \/ \E mode \in Modes : Index(c, book, mode)
          \/ IndexUntracked(c, book)
    \/ IndexUnreadable
    \/ \E o \in Objects : DeleteRecord(o) \/ DeleteSkipped(o)
    \/ UpsertBatch
    \/ UpsertFails
    \/ RunDies
    \/ Complete
    \/ CompleteUntracked

SheetSpec == SheetInit /\ [][SheetNext]_sheetVars

---------------------------------------------------------------------------
(* What the runs promise. *)

\* Between runs an object is stored as the latest version says, except where a
\* run was cut short or left part of its difference out: no run that finishes
\* forgets a batch, a stale record or a change (indexer.py:161-222).
SheetSynced ==
    run = Idle =>
        \A c \in Collections, o \in Objects :
            <<c, o>> \notin stray => stored[c][o] = manifest[o]

\* A run that failed half way is repaired by repeating it: when the tries since
\* the collection last matched were all of one workbook and one of them
\* finished, the collection holds exactly that workbook (the version is
\* committed only after its records, indexer.py:136-222).
RetryRepairs ==
    run = Idle /\ tries = {} =>
        \E c \in Collections :
            /\ stored[c] = manifest
            /\ \A d \in Collections \ {c} : stored[d] = Empty

=============================================================================
