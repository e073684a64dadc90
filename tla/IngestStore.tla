----------------------------- MODULE IngestStore -----------------------------
(***************************************************************************)
(* IndexService's document store (src/src/index_tools/tools/service.py):   *)
(* ingest_text and its idempotency keys, the ingest job handler, which     *)
(* supersedes the previous version of a source, delete_by_id and           *)
(* delete_by_filter, and the two places that hold documents: the           *)
(* self.documents dictionary of the process, keyed by record id alone, and *)
(* the vector store behind it, one collection per place.                   *)
(*                                                                         *)
(* A place is a profile and a collection.  A record id is computed from    *)
(* the source and the content, so it is that pair here.  One action is one *)
(* stretch of code between two waits (for the queue's database, the        *)
(* vector store or the semaphore).  The queue appears by its outcome:      *)
(* JobQueue has its details.                                               *)
(***************************************************************************)
EXTENDS Naturals, FiniteSets

CONSTANTS
  Places,       (* profile and collection pairs                              *)
  Profile,      (* Profile[p]: the profile of place p                        *)
  Sources, Contents,
  Chunked,      (* contents of more than one chunk, which the vector store   *)
                (* gets in two batches, under ids of their own               *)
  Jobs, Clients,
  Permits,      (* max_concurrent per profile                                *)
  MaxAttempts,  (* retry_max_attempts                                        *)
  Faults,       (* which of "vector" and "queue" calls may raise             *)
  MaxFaults,    (* bound: calls that raise                                   *)
  MaxCancels,   (* bound: cancelled jobs                                     *)
  MaxDeletes,   (* bound: delete calls                                       *)
  MaxRestarts,  (* bound: restarts of the process                            *)
  None          (* no job, no place                                          *)

Records == Sources \X Contents

ASSUME IngestStoreAssumption ==
  /\ DOMAIN Profile = Places
  /\ Chunked \subseteq Contents
  /\ Permits \in Nat \ {0}
  /\ MaxAttempts \in Nat \ {0}
  /\ Faults \subseteq {"vector", "queue"}
  /\ None \notin Jobs \cup Places

VARIABLES
  docs,     (* self.documents: record -> document, state "none" if missing   *)
  vdb,      (* the vector store: place, record -> lifecycle_state            *)
  keys,     (* idempotency keys stored                                       *)
  sem,      (* permits left of each profile's ingest semaphore               *)
  pc,       (* pc[j]: where job j stands                                     *)
  req,      (* req[j]: place and record of job j                             *)
  tries,    (* tries[j]: attempts begun                                      *)
  snap,     (* snap[j]: superseded_snapshots                                 *)
  batches,  (* batches[j]: upsert calls still to make                        *)
  cancel,   (* jobs whose row says cancelled                                 *)
  client,   (* client[c]: the request that c has checked but not finished    *)
  deleting, (* the delete calls in flight                                    *)
  stranded, (* history: jobs that left what they superseded superseded       *)
  budget    (* faults, deletes and restarts so far                           *)

vars == <<docs, vdb, keys, sem, pc, req, tries, snap, batches, cancel, client,
          deleting, stranded, budget>>

jobVars == <<pc, req, tries, snap, batches, stranded>>

NoDoc == [state |-> "none", place |-> None, by |-> <<None, 0>>]

NoReq == [place |-> None, record |-> <<None, None>>]

Requests == [place : Places, record : Records]

Idle == [at |-> "idle", req |-> NoReq]

Done == {"succeeded", "cancelled", "dead_lettered"}

\* Done, or queued or being executed when the process stopped: the row of such a
\* job is still there, but no thread of the next process takes it up.
Ended == Done \cup {"abandoned"}

\* the handler holds a permit at these
Inner == {"prepare", "superseded", "upsert", "persisted"}

StoreTypeOK ==
  /\ docs \in [Records -> {NoDoc} \cup
                 [state : {"active", "superseded", "deleted"}, place : Places,
                  by : Jobs \X (1 .. MaxAttempts)]]
  /\ vdb \in [Places \X Records ->
                {"none", "partial", "active", "superseded", "deleted"}]
  /\ keys \subseteq Requests
  /\ sem \in [{Profile[p] : p \in Places} -> 0 .. Permits]
  /\ pc \in [Jobs -> {"new", "queued"} \cup Inner \cup Ended]
  /\ req \in [Jobs -> Requests \cup {NoReq}]
  /\ tries \in [Jobs -> 0 .. MaxAttempts]
  /\ \A j \in Jobs : \A s \in snap[j] : s.record \in Records
  /\ batches \in [Jobs -> 0 .. 2]
  /\ cancel \subseteq Jobs
  /\ client \in [Clients -> [at : {"idle", "enqueue", "store"},
                             req : Requests \cup {NoReq}]]
  /\ \A d \in deleting : d.place \in Places
  /\ stranded \subseteq Jobs
  /\ budget \in [faults : Nat, deletes : Nat, restarts : Nat]

Init ==
  /\ docs = [r \in Records |-> NoDoc]
  /\ vdb = [pr \in Places \X Records |-> "none"]
  /\ keys = {}
  /\ sem = [f \in {Profile[p] : p \in Places} |-> Permits]
  /\ pc = [j \in Jobs |-> "new"]
  /\ req = [j \in Jobs |-> NoReq]
  /\ tries = [j \in Jobs |-> 0]
  /\ snap = [j \in Jobs |-> {}]
  /\ batches = [j \in Jobs |-> 0]
  /\ cancel = {}
  /\ client = [c \in Clients |-> Idle]
  /\ deleting = {}
  /\ stranded = {}
  /\ budget = [faults |-> 0, deletes |-> 0, restarts |-> 0]

-----------------------------------------------------------------------------
(* The documents.                                                            *)

ActiveAt(p, r) == docs[r].state = "active" /\ docs[r].place = p

\* the active versions of source s at place p
Versions(p, s) == {r \in Records : r[1] = s /\ ActiveAt(p, r)}

\* What the supersede loop of job j marks.
Older(j) == Versions(req[j].place, req[j].record[1]) \ {req[j].record}

\* The document that the handler of job j builds.
NewDoc(j) ==
  [state |-> "active", place |-> req[j].place, by |-> <<j, tries[j]>>]

\* Variants of Restored below with a plausible bug, against which the
\* properties are tested, as are those further down: the new document is not
\* popped,
RestoredKeeps(j) ==
  [r \in Records |->
     IF \E s \in snap[j] : s.record = r /\ s.by = docs[r].by
     THEN [docs[r] EXCEPT !.state = "active"] ELSE docs[r]]

\* the snapshots are forgotten,
RestoredForgets(j) == [docs EXCEPT ![req[j].record] = NoDoc]

\* the superseded versions are popped as well.
RestoredClears(j) ==
  [r \in Records |->
     IF r = req[j].record \/ \E s \in snap[j] : s.record = r
     THEN NoDoc ELSE docs[r]]

\* A snapshot holds the document object: putting it back has no effect on a
\* document that has been replaced in the dictionary since.
Restored(j) ==
  [r \in Records |->
     IF r = req[j].record THEN NoDoc
     ELSE IF \E s \in snap[j] : s.record = r /\ s.by = docs[r].by
          THEN [docs[r] EXCEPT !.state = "active"]
          ELSE docs[r]]

-----------------------------------------------------------------------------
(* ingest_text                                                               *)

\* Neither the idempotency key nor an active document with this content is
\* found; otherwise the call returns at once and changes nothing but keys.
IngestText(c, p, r) ==
  LET q == [place |-> p, record |-> r] IN
  /\ client[c] = Idle
  /\ q \notin keys
  /\ IF ActiveAt(p, r)
     THEN keys' = keys \cup {q} /\ UNCHANGED client
     ELSE /\ client' = [client EXCEPT ![c] = [at |-> "enqueue", req |-> q]]
          /\ UNCHANGED keys
  /\ UNCHANGED <<docs, vdb, sem, jobVars, cancel, deleting, budget>>

\* queue.enqueue and _dispatch_job_async
Submit(c, j) ==
  /\ client[c].at = "enqueue"
  /\ pc[j] = "new"
  /\ pc' = [pc EXCEPT ![j] = "queued"]
  /\ req' = [req EXCEPT ![j] = client[c].req]
  /\ client' = [client EXCEPT ![c].at = "store"]
  /\ UNCHANGED <<docs, vdb, keys, sem, tries, snap, batches, cancel, deleting,
                 stranded, budget>>

StoreKey(c) ==
  /\ client[c].at = "store"
  /\ keys' = keys \cup {client[c].req}
  /\ client' = [client EXCEPT ![c] = Idle]
  /\ UNCHANGED <<docs, vdb, sem, jobVars, cancel, deleting, budget>>

\* job_cancel; the handler notices at its next _raise_if_job_cancelled, if there
\* still is one.
JobCancel(j) ==
  /\ pc[j] \in {"queued", "abandoned"} \cup Inner
  /\ Cardinality(cancel) < MaxCancels
  /\ cancel' = cancel \cup {j}
  /\ UNCHANGED <<docs, vdb, keys, sem, jobVars, client, deleting, budget>>

-----------------------------------------------------------------------------
(* The ingest job.                                                           *)

ProfileOf(j) == Profile[req[j].place]

\* variants: released by both finally clauses, or by none
ReleaseTwice(j) == sem' = [sem EXCEPT ![ProfileOf(j)] = @ + 2]
ReleaseNever(j) == UNCHANGED sem

Release(j) == sem' = [sem EXCEPT ![ProfileOf(j)] = @ + 1]

\* How the queue ends an attempt whose handler raised.
AfterFailure(j) ==
  IF j \in cancel THEN "cancelled"
  ELSE IF tries[j] < MaxAttempts THEN "queued" ELSE "dead_lettered"

\* The handler is left, by an exception or not.
Leave(j, label) ==
  /\ pc' = [pc EXCEPT ![j] = label]
  /\ snap' = [snap EXCEPT ![j] = {}]
  /\ batches' = [batches EXCEPT ![j] = 0]
  /\ Release(j)
  /\ UNCHANGED <<req, tries>>

Fault(kind) ==
  /\ kind \in Faults
  /\ budget.faults < MaxFaults
  /\ budget' = [budget EXCEPT !.faults = @ + 1]

\* The queue claims the job, and sem.acquire() succeeds.
Acquire(j) ==
  /\ pc[j] = "queued"
  /\ IF j \in cancel
     THEN /\ pc' = [pc EXCEPT ![j] = "cancelled"]
          /\ UNCHANGED <<sem, tries>>
     ELSE /\ sem[ProfileOf(j)] > 0
          /\ sem' = [sem EXCEPT ![ProfileOf(j)] = @ - 1]
          /\ tries' = [tries EXCEPT ![j] = @ + 1]
          /\ pc' = [pc EXCEPT ![j] = "prepare"]
  /\ UNCHANGED <<docs, vdb, keys, req, snap, batches, cancel, client, deleting,
                 stranded, budget>>

\* Everything up to the end of the supersede loop.
Supersede(j) ==
  /\ pc[j] = "prepare"
  /\ j \notin cancel
  /\ snap' = [snap EXCEPT ![j] = {[record |-> r, by |-> docs[r].by] : r \in Older(j)}]
  /\ docs' = [r \in Records |->
                IF r \in Older(j) THEN [docs[r] EXCEPT !.state = "superseded"]
                ELSE docs[r]]
  /\ pc' = [pc EXCEPT ![j] = "superseded"]
  /\ UNCHANGED <<vdb, keys, sem, req, tries, batches, cancel, client, deleting,
                 stranded, budget>>

\* What the job superseded stays superseded.
Strand(j) ==
  stranded' = IF snap[j] # {} THEN stranded \cup {j} ELSE stranded

\* A check that finds the job cancelled before the try statement, be it before
\* the supersede loop or after it: nothing is rolled back.
AbortCancelled(j) ==
  /\ pc[j] \in {"prepare", "superseded"}
  /\ j \in cancel
  /\ Leave(j, "cancelled")
  /\ Strand(j)
  /\ UNCHANGED <<docs, vdb, keys, cancel, client, deleting, budget>>

\* record_progress raises, before the try statement or after it.
AbortFailed(j) ==
  /\ pc[j] \in {"prepare", "superseded", "persisted"}
  /\ Fault("queue")
  /\ Leave(j, AfterFailure(j))
  /\ Strand(j)
  /\ UNCHANGED <<docs, vdb, keys, cancel, client, deleting>>

\* self.documents[record_id] = document_record, whatever was there.
Insert(j) ==
  /\ pc[j] = "superseded"
  /\ j \notin cancel
  /\ docs' = [docs EXCEPT ![req[j].record] = NewDoc(j)]
  /\ batches' = [batches EXCEPT ![j] = IF req[j].record[2] \in Chunked THEN 2 ELSE 1]
  /\ pc' = [pc EXCEPT ![j] = "upsert"]
  /\ UNCHANGED <<vdb, keys, sem, req, tries, snap, cancel, client, deleting,
                 stranded, budget>>

\* vdb.upsert_records: the first batch begins with the superseded records.
Upsert(j) ==
  LET p == req[j].place IN
  /\ pc[j] = "upsert"
  /\ j \notin cancel
  /\ batches[j] > 0
  /\ vdb' = [pr \in Places \X Records |->
               IF pr = <<p, req[j].record>>
               THEN IF batches[j] = 1 THEN "active" ELSE "partial"
               ELSE IF pr[1] = p /\ \E s \in snap[j] : s.record = pr[2]
                    THEN "superseded"
                    ELSE vdb[pr]]
  /\ batches' = [batches EXCEPT ![j] = @ - 1]
  /\ UNCHANGED <<docs, keys, sem, pc, req, tries, snap, cancel, client,
                 deleting, stranded, budget>>

\* except Exception: the dictionary is put back, the vector store is not.
Rollback(j) ==
  /\ pc[j] = "upsert"
  /\ \/ j \in cancel /\ Leave(j, "cancelled") /\ UNCHANGED budget
     \/ batches[j] > 0 /\ Fault("vector") /\ Leave(j, AfterFailure(j))
  /\ docs' = Restored(j)
  /\ UNCHANGED <<vdb, keys, cancel, client, deleting, stranded>>

Persist(j) ==
  /\ pc[j] = "upsert"
  /\ j \notin cancel
  /\ batches[j] = 0
  /\ pc' = [pc EXCEPT ![j] = "persisted"]
  /\ UNCHANGED <<docs, vdb, keys, sem, req, tries, snap, batches, cancel,
                 client, deleting, stranded, budget>>

\* The handler returns; the queue looks once more for a cancel.
Finish(j) ==
  /\ pc[j] = "persisted"
  /\ Leave(j, IF j \in cancel THEN "cancelled" ELSE "succeeded")
  /\ UNCHANGED <<docs, vdb, keys, cancel, client, deleting, stranded, budget>>

-----------------------------------------------------------------------------
(* delete_by_id and delete_by_filter(source_uri)                             *)

\* The records the call looks up: one, or the undeleted ones of a source.
Matched(p, kind, r) ==
  IF kind = "id" THEN {r}
  ELSE {x \in Records : /\ x[1] = r[1]
                        /\ docs[x].place = p
                        /\ docs[x].state # "deleted"}

Delete(p, kind, r) ==
  /\ budget.deletes < MaxDeletes
  /\ deleting' = deleting \cup
       {[place |-> p, kind |-> kind, record |-> r, at |-> "vdb",
         found |-> {[record |-> x, by |-> docs[x].by] :
                      x \in {y \in Matched(p, kind, r) : docs[y].place = p}}]}
  /\ budget' = [budget EXCEPT !.deletes = @ + 1]
  /\ UNCHANGED <<docs, vdb, keys, sem, jobVars, cancel, client>>

\* delete_record names the record id, which no chunk of a chunked content has;
\* delete by filter finds chunks as well.
DeleteVdb(d) ==
  LET hit(x) == IF d.kind = "id" THEN x = d.record /\ x[2] \notin Chunked
                ELSE x[1] = d.record[1]
  IN
  /\ d \in deleting
  /\ d.at = "vdb"
  /\ vdb' = [pr \in Places \X Records |->
               IF pr[1] = d.place /\ hit(pr[2]) /\ vdb[pr] # "none"
               THEN "deleted" ELSE vdb[pr]]
  /\ deleting' = (deleting \ {d}) \cup {[d EXCEPT !.at = "mark"]}
  /\ UNCHANGED <<docs, keys, sem, jobVars, cancel, client, budget>>

\* variant: the deleted documents are removed
DeleteMarkPops(d) ==
  /\ d \in deleting
  /\ d.at = "mark"
  /\ docs' = [r \in Records |->
                IF \E f \in d.found : f.record = r /\ f.by = docs[r].by
                THEN NoDoc ELSE docs[r]]
  /\ deleting' = deleting \ {d}
  /\ UNCHANGED <<vdb, keys, sem, jobVars, cancel, client, budget>>

\* mark_deleted, on the document objects found by the lookup.
DeleteMark(d) ==
  /\ d \in deleting
  /\ d.at = "mark"
  /\ docs' = [r \in Records |->
                IF \E f \in d.found : f.record = r /\ f.by = docs[r].by
                THEN [docs[r] EXCEPT !.state = "deleted"] ELSE docs[r]]
  /\ deleting' = deleting \ {d}
  /\ UNCHANGED <<vdb, keys, sem, jobVars, cancel, client, budget>>

\* The process stops at any point and starts again.  Documents, semaphores,
\* threads and calls are gone, and nothing reads the documents back or takes up
\* the jobs whose rows are queued or running; rows and keys (in the database)
\* and the vector store stay as they are, whatever was under way.
Restart ==
  /\ budget.restarts < MaxRestarts
  /\ docs' = [r \in Records |-> NoDoc]
  /\ sem' = [f \in DOMAIN sem |-> Permits]
  /\ pc' = [j \in Jobs |-> IF pc[j] \in {"new"} \cup Done THEN pc[j] ELSE "abandoned"]
  /\ snap' = [j \in Jobs |-> {}]
  /\ batches' = [j \in Jobs |-> 0]
  /\ client' = [c \in Clients |-> Idle]
  /\ deleting' = {}
  /\ budget' = [budget EXCEPT !.restarts = @ + 1]
  /\ UNCHANGED <<vdb, keys, req, tries, cancel, stranded>>

-----------------------------------------------------------------------------
JobStep(j) ==
  \/ Acquire(j) \/ Supersede(j) \/ AbortCancelled(j) \/ AbortFailed(j)
  \/ Insert(j) \/ Upsert(j) \/ Rollback(j) \/ Persist(j) \/ Finish(j)

Next ==
  \/ \E c \in Clients, p \in Places, r \in Records : IngestText(c, p, r)
  \/ \E c \in Clients, j \in Jobs : Submit(c, j)
  \/ \E c \in Clients : StoreKey(c)
  \/ \E j \in Jobs : JobCancel(j) \/ JobStep(j)
  \/ \E p \in Places, k \in {"id", "filter"}, r \in Records : Delete(p, k, r)
  \/ \E d \in deleting : DeleteVdb(d) \/ DeleteMark(d)
  \/ Restart

Spec == Init /\ [][Next]_vars

\* A thread that has a job goes on with it, and takes a free permit.  Faults and
\* calls need not happen.
LiveSpec == Spec /\ \A j \in Jobs : WF_vars(JobStep(j))

-----------------------------------------------------------------------------
(* Properties.                                                               *)

\* No ingest and no delete is in flight at place p.
Quiet(p) ==
  /\ \A j \in Jobs : req[j].place = p => pc[j] \in Ended
  /\ \A d \in deleting : d.place # p

\* A source never has two active versions at a place, whatever fails, is
\* cancelled or deleted.  True with one permit per profile.
OneActiveVersion ==
  \A p \in Places, s \in Sources : Cardinality(Versions(p, s)) <= 1

\* A permit of a profile's semaphore is held by a job inside the handler, or
\* free: no exception path loses one, which would stop the profile's ingest.
PermitsConserved ==
  \A f \in DOMAIN sem :
    sem[f] + Cardinality({j \in Jobs : pc[j] \in Inner /\ ProfileOf(j) = f}) = Permits

\* A source with a superseded version has an active or a deleted one.
HasLatest(p, s) ==
  LET lineage == {r \in Records : r[1] = s /\ docs[r].place = p} IN
  (\E r \in lineage : docs[r].state = "superseded") =>
    \E r \in lineage : docs[r].state \in {"active", "deleted"}

\* No other job ingests the record of j.
Alone(j) == \A i \in Jobs \ {j} : req[i].record # req[j].record

\* is_latest names the live version of a lineage: when nothing is in flight, a
\* source has it.  Excepted are sources with a job that left its handler by an
\* exception between the supersede loop and its return but outside the try
\* statement that undoes the loop, or with two jobs for one record.
LineageHasLatest ==
  \A p \in Places, s \in Sources :
    /\ Quiet(p)
    /\ \A j \in Jobs : req[j].record[1] = s => j \notin stranded /\ Alone(j)
    => HasLatest(p, s)

\* The same without the exceptions, as REQUIREMENTS.md states it.  False: a
\* cancel can be noticed in between.
IsLatest == \A p \in Places, s \in Sources : Quiet(p) => HasLatest(p, s)

Kept(j) == docs[req[j].record] # NoDoc /\ docs[req[j].record].place = req[j].place

\* What a succeeded ingest job stored is not lost to other jobs and deletes:
\* its document stays in the dictionary until the process ends, if no other
\* job ingests the same record: of two overlapping ingests of one request, the
\* rollback of the one would pop the document of the other.
CommittedStays ==
  \A j \in Jobs :
    /\ pc[j] = "succeeded"
    /\ budget.restarts = 0
    /\ Alone(j)
    => Kept(j)

\* search at p returns r: a hit of the vector store whose local document, if it
\* is found under the id of the hit, is the latest; or a local document.
Found(p, r) ==
  \/ ActiveAt(p, r)
  \/ /\ vdb[p, r] \in {"partial", "active"}
     /\ \/ r[2] \in Chunked
        \/ docs[r].place # p

\* When nothing is in flight, no job was given up and the process was not
\* restarted, search finds no document that is not active: failed attempts
\* leave no trace once a retry went through.  Contents of several chunks are
\* excepted, as delete_by_id does not reach their chunks.
SearchFindsActive ==
  \A p \in Places :
    /\ Quiet(p)
    /\ budget.restarts = 0
    /\ \A j \in Jobs : pc[j] \notin {"cancelled", "dead_lettered"}
    => \A r \in Records : Found(p, r) /\ r[2] \notin Chunked => ActiveAt(p, r)

\* An ingest job that is queued ends, unless the process stops before it does:
\* no job waits for the semaphore of its profile for ever, whatever failed, was
\* cancelled or was cut off by a restart before it.
JobsFinish == \A j \in Jobs : pc[j] = "queued" ~> pc[j] \in Ended

=============================================================================
