------------------------------ MODULE Removal ------------------------------
(***************************************************************************)
(* Deleting by filter (IndexService.delete_by_filter, directly or as a     *)
(* queued job of delete_by_filter_async).  The documents of the process    *)
(* are matched first, then the vector store deletes what the filter        *)
(* selects there, and then the matched documents are marked.  Ingests go   *)
(* on meanwhile: they store records, store older versions once more, and   *)
(* are rolled back and repeated.  A submission is known by its filter, in  *)
(* a dictionary and in a table that survives a restart.                    *)
(*                                                                         *)
(* The steps of the queue itself are those of JobQueue, and the details of *)
(* superseding those of IngestStore; they are not repeated.                *)
(***************************************************************************)
EXTENDS Integers, FiniteSets

CONSTANTS
    Records,    \* record ids
    Jobs,       \* job ids the queue may give out
    Clients,    \* callers of delete_by_filter and delete_by_filter_async
    NoJob,      \* the key is unknown
    MaxCalls,   \* bound: calls of a behaviour
    MaxRestarts \* bound: restarts of the process

\* An execution belongs to a queued job or to a direct caller, never to both.
ASSUME RemovalConstants ==
    /\ NoJob \notin Jobs
    /\ Jobs \cap Clients = {}

VARIABLES
    local,      \* self.documents: record -> "absent", "active" (superseded or
                \* not) or "deleted"
    backend,    \* records the vector store finds
    selects,    \* record -> which of "process" and "store" take it for a match;
                \* records that neither does are left out, and filters on what
                \* superseding changes
    handler,    \* the ingest of the profile between its insert and its end
    memory,     \* job of the filter in self.idempotency
    durable,    \* job of the filter in the table idempotency_keys
    call,       \* client -> its submission in progress
    deletion,   \* job or client -> its execution of delete_by_filter
    calls,      \* calls begun
    restarts,   \* restarts so far
    excused     \* history: submissions overlapped, or one was cut off

removalVars ==
    <<local, backend, selects, handler, memory, durable, call, deletion, calls, restarts,
      excused>>

NotBegun == [phase |-> "none", matched |-> {}, owed |-> {}]
NoIngest == [at |-> "none", records |-> {}, older |-> {}]
NoCall == [phase |-> "idle", job |-> NoJob, overlapped |-> FALSE]

RemovalInit ==
    /\ local = [r \in Records |-> "absent"]
    /\ backend = {}
    /\ selects \in [Records -> SUBSET {"process", "store"} \ {{}}]
    /\ handler = NoIngest
    /\ memory = NoJob
    /\ durable = NoJob
    /\ call = [c \in Clients |-> NoCall]
    /\ deletion = [x \in Jobs \cup Clients |-> NotBegun]
    /\ calls = 0
    /\ restarts = 0
    /\ excused = FALSE

---------------------------------------------------------------------------
\* One ingest at a time: the semaphore of the profile, with the one permit it
\* has by default.  The new document goes into the dictionary, then the older
\* versions and the chunks go to the vector store in batches.  The record may
\* be there already, of an earlier try that failed or of another job.

\* The older versions are any that the dictionary has.  An execution that holds
\* the previous document of the record has lost it, and none answers for what
\* this ingest stores from now on (history).
Ingest(r, older) ==
    /\ handler = NoIngest
    /\ older \subseteq {q \in Records \ {r} : local[q] = "active"}
    /\ local' = [local EXCEPT ![r] = "active"]
    /\ handler' = [at |-> "inserted", records |-> {r} \cup older, older |-> older]
    /\ deletion' = [x \in Jobs \cup Clients |->
                       [deletion[x] EXCEPT !.matched = @ \ {r},
                                           !.owed = @ \ ({r} \cup older)]]
    /\ UNCHANGED <<backend, selects, memory, durable, call, calls, excused, restarts>>

\* A batch that makes the records found, or a later one with further chunks.
IngestUpserts ==
    /\ handler # NoIngest
    /\ backend' = backend \cup handler.records
    /\ handler' = [handler EXCEPT !.at = "upserted"]
    /\ UNCHANGED <<local, selects, memory, durable, call, deletion, calls, excused, restarts>>

IngestEnds ==
    /\ handler.at = "upserted"
    /\ handler' = NoIngest
    /\ UNCHANGED <<local, backend, selects, memory, durable, call, deletion, calls, excused, restarts>>

\* A failed batch or a cancel: the dictionary is put back, whatever a delete has
\* marked there since, and what was upserted stays.
IngestFails ==
    /\ handler # NoIngest
    /\ local' = [r \in Records |->
                    IF r \in handler.records \ handler.older THEN "absent"
                    ELSE IF r \in handler.older THEN "active" ELSE local[r]]
    /\ handler' = NoIngest
    /\ UNCHANGED <<backend, selects, memory, durable, call, deletion, calls, excused, restarts>>

---------------------------------------------------------------------------
\* delete_by_filter, executed by the thread of a job or by the caller.  Process
\* and vector store decide on their own what matches: a wildcard, for one, is
\* expanded by the process and taken literally by the filter that Qdrant gets.

Selected(by) == {r \in Records : by \in selects[r]}

Matched == {r \in Selected("process") : local[r] = "active"}

\* It owes the deletion of what the store holds and selects, except for what an
\* ingest under way may store again (history).
Match(x) ==
    /\ deletion[x].phase = "ready"
    /\ deletion' = [deletion EXCEPT ![x] =
                       [phase |-> "matched", matched |-> Matched,
                        owed |-> (backend \cap Selected("store")) \ handler.records]]
    /\ UNCHANGED <<local, backend, selects, handler, memory, durable, call, calls, excused, restarts>>

\* Mutant: without a matching document the vector store is not asked.
FoundIfNoneMatched(x) ==
    IF deletion[x].matched = {} THEN backend ELSE backend \ Selected("store")

\* What the vector store still finds after the filter delete.
Found(x) == backend \ Selected("store")

RemoveStored(x) ==
    /\ deletion[x].phase = "matched"
    /\ backend' = Found(x)
    /\ deletion' = [deletion EXCEPT ![x].phase = "removed"]
    /\ UNCHANGED <<local, selects, handler, memory, durable, call, calls, excused, restarts>>

\* The vector store raises, with some of the records gone: nothing is marked.
\* The call fails; the job fails or is tried again.
RemoveFails(x) ==
    /\ deletion[x].phase = "matched"
    /\ \E gone \in SUBSET Selected("store") : backend' = backend \ gone
    /\ \E phase \in IF x \in Jobs THEN {"ready", "failed"} ELSE {"failed"} :
          deletion' = [deletion EXCEPT ![x] = [NotBegun EXCEPT !.phase = phase]]
    /\ UNCHANGED <<local, selects, handler, memory, durable, call, calls, excused, restarts>>

Mark(x) ==
    /\ deletion[x].phase = "removed"
    /\ local' = [r \in Records |->
                    IF r \in deletion[x].matched /\ local[r] = "active" THEN "deleted" ELSE local[r]]
    /\ deletion' = [deletion EXCEPT ![x].phase = "done", ![x].matched = {}]
    /\ UNCHANGED <<backend, selects, handler, memory, durable, call, calls, excused, restarts>>

---------------------------------------------------------------------------
\* delete_by_filter_async: look the key up twice, enqueue, remember, store,
\* start a thread.

\* A client is in one call at a time.
Free(c) ==
    /\ call[c].phase = "idle"
    /\ deletion[c].phase \in {"none", "done", "failed"}

Busy(c) == \E d \in Clients \ {c} : call[d].phase # "idle"

\* The call of c begins: it overlaps the calls in progress, and they overlap it.
CallBegins(c, phase) ==
    call' = [d \in Clients |->
        IF d = c THEN [phase |-> phase, job |-> NoJob, overlapped |-> Busy(c)]
        ELSE [call[d] EXCEPT !.overlapped = @ \/ call[d].phase # "idle"]]

Submit(c) ==
    /\ Free(c)
    /\ calls < MaxCalls
    /\ calls' = calls + 1
    /\ IF memory # NoJob THEN UNCHANGED call ELSE CallBegins(c, "missed")
    /\ UNCHANGED <<local, backend, selects, handler, memory, durable, deletion, excused, restarts>>

LookUp(c) ==
    /\ call[c].phase = "missed"
    /\ memory' = IF durable # NoJob THEN durable ELSE memory
    /\ call' = [call EXCEPT ![c] = IF durable # NoJob THEN NoCall
                                   ELSE [@ EXCEPT !.phase = "enqueue"]]
    /\ UNCHANGED <<local, backend, selects, handler, durable, deletion, calls, excused, restarts>>

Enqueue(c) ==
    /\ call[c].phase = "enqueue"
    /\ \E j \in Jobs :
        /\ deletion[j] = NotBegun
        /\ deletion' = [deletion EXCEPT ![j].phase = "queued"]
        /\ call' = [call EXCEPT ![c].phase = "remember", ![c].job = j]
    /\ excused' = (excused \/ call[c].overlapped)
    /\ UNCHANGED <<local, backend, selects, handler, memory, durable, calls, restarts>>

Remember(c) ==
    /\ call[c].phase = "remember"
    /\ memory' = call[c].job
    /\ call' = [call EXCEPT ![c].phase = "store"]
    /\ UNCHANGED <<local, backend, selects, handler, durable, deletion, calls, excused, restarts>>

\* Mutant: the key is kept in the dictionary only.
KeyStoredNever(j) == durable

\* INSERT OR IGNORE: the first job of a key stays.
KeyStored(j) == IF durable = NoJob THEN j ELSE durable

Store(c) ==
    /\ call[c].phase = "store"
    /\ durable' = KeyStored(call[c].job)
    /\ call' = [call EXCEPT ![c].phase = "dispatch"]
    /\ UNCHANGED <<local, backend, selects, handler, memory, deletion, calls, excused, restarts>>

Dispatch(c) ==
    /\ call[c].phase = "dispatch"
    /\ deletion' = [deletion EXCEPT ![call[c].job].phase = "ready"]
    /\ call' = [call EXCEPT ![c] = NoCall]
    /\ UNCHANGED <<local, backend, selects, handler, memory, durable, calls, excused, restarts>>

\* delete_by_filter called directly.
DeleteByFilter(c) ==
    /\ Free(c)
    /\ calls < MaxCalls
    /\ calls' = calls + 1
    /\ deletion' = [deletion EXCEPT ![c] = [NotBegun EXCEPT !.phase = "ready"]]
    /\ UNCHANGED <<local, backend, selects, handler, memory, durable, call, excused, restarts>>

\* The process restarts: what is in memory is gone, running jobs stay behind.
Restart ==
    /\ restarts < MaxRestarts
    /\ restarts' = restarts + 1
    /\ local' = [r \in Records |-> "absent"]
    /\ handler' = NoIngest
    /\ memory' = NoJob
    /\ call' = [c \in Clients |-> NoCall]
    /\ deletion' = [x \in Jobs \cup Clients |->
                       IF deletion[x].phase \in {"ready", "matched", "removed"}
                       THEN [NotBegun EXCEPT !.phase = IF x \in Jobs THEN "lost" ELSE "none"]
                       ELSE deletion[x]]
    /\ excused' = (excused \/ \E c \in Clients : call[c].phase \in {"remember", "store"})
    /\ UNCHANGED <<backend, selects, durable, calls>>

RemovalNext ==
    \/ \E r \in Records, older \in SUBSET Records : Ingest(r, older)
    \/ IngestUpserts
    \/ IngestEnds
    \/ IngestFails
    \/ \E x \in Jobs \cup Clients : Match(x) \/ RemoveStored(x) \/ RemoveFails(x) \/ Mark(x)
    \/ \E c \in Clients :
          \/ Submit(c)
          \/ LookUp(c)
          \/ Enqueue(c)
          \/ Remember(c)
          \/ Store(c)
          \/ Dispatch(c)
          \/ DeleteByFilter(c)
    \/ Restart

RemovalSpec == RemovalInit /\ [][RemovalNext]_removalVars

---------------------------------------------------------------------------
(* What deleting by filter promises. *)

\* A filter delete that ended well has removed every record that was stored
\* when it began and that the store takes for a match, whether or not the process
\* had a document of it; and if the process takes it for a match as well, no
\* document of it is current.  Excepted are records that an ingest was storing
\* then or has begun to store since: it may store them once more, and its
\* rollback takes back the mark of an older version (service.py:4466-4519).
DeleteHolds ==
    \A x \in Jobs \cup Clients :
        deletion[x].phase = "done" =>
            \A r \in deletion[x].owed :
                /\ r \notin backend
                /\ "process" \in selects[r] => local[r] # "active"

\* One filter is one job, before and after a restart, unless two submissions
\* overlapped or the process died before the key was stored; the dictionary
\* and the table then name the same job (service.py:4538-4566).
OneJobPerFilter ==
    ~excused =>
        /\ Cardinality({j \in Jobs : deletion[j].phase # "none"}) <= 1
        /\ durable # NoJob => memory \in {NoJob, durable}

=============================================================================
