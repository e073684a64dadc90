-------------------------- MODULE IngestStoreProofs -------------------------
(***************************************************************************)
(* Theorems about IngestStore, for any number of places, sources, jobs and *)
(* clients and any bounds on faults, cancels, deletes and restarts.        *)
(***************************************************************************)
EXTENDS IngestStore, FiniteSetTheorems, TLAPS

-----------------------------------------------------------------------------
(* Types.                                                                    *)

Attempts == Jobs \X (1 .. MaxAttempts)

Documents == [state : {"active", "superseded", "deleted"}, place : Places,
              by : Attempts]

\* A document object that a handler or a delete call has kept hold of.
Snapshots == [record : Records, by : Attempts]

Deletes == [place : Places, kind : {"id", "filter"}, record : Records,
            at : {"vdb", "mark"}, found : SUBSET Snapshots]

Semaphores == {Profile[p] : p \in Places}

JobTypes ==
  /\ pc \in [Jobs -> {"new", "queued"} \cup Inner \cup Ended]
  /\ req \in [Jobs -> Requests \cup {NoReq}]
  /\ tries \in [Jobs -> Nat]
  /\ batches \in [Jobs -> Nat]
  /\ client \in [Clients -> [at : {"idle", "enqueue", "store"},
                             req : Requests \cup {NoReq}]]
  /\ sem \in [Semaphores -> Nat]
  /\ cancel \subseteq Jobs
  /\ stranded \subseteq Jobs
  /\ budget \in [faults : Nat, deletes : Nat, restarts : Nat]
  /\ \A j \in Jobs : pc[j] # "new" => req[j] \in Requests
  /\ \A j \in Jobs : pc[j] = "queued" => tries[j] < MaxAttempts
  /\ \A j \in Jobs : pc[j] = "new" => tries[j] = 0
  /\ \A j \in Jobs : pc[j] \in Inner => tries[j] \in 1 .. MaxAttempts
  /\ \A c \in Clients : client[c].at # "idle" => client[c].req \in Requests

\* A job that enters, leaves or goes on keeps the types of the jobs' variables.
LEMMA JobTypesStep == JobTypes /\ [Next]_vars => JobTypes'
<1> SUFFICES ASSUME JobTypes, [Next]_vars PROVE JobTypes'
  OBVIOUS
<1> USE IngestStoreAssumption DEF JobTypes, Inner, Done, Ended
<1>1. ASSUME NEW c \in Clients, NEW p \in Places, NEW r \in Records, IngestText(c, p, r)
      PROVE  JobTypes'
  <2>1. CASE ActiveAt(p, r)
    BY <1>1, <2>1 DEF IngestText, jobVars
  <2>2. CASE ~ ActiveAt(p, r)
    <3>1. [place |-> p, record |-> r] \in Requests
      BY DEF Requests
    <3>2. client' = [client EXCEPT ![c] = [at |-> "enqueue",
                                           req |-> [place |-> p, record |-> r]]]
      BY <1>1, <2>2 DEF IngestText
    <3>3. UNCHANGED <<pc, req, tries, batches, sem, cancel, stranded, budget>>
      BY <1>1 DEF IngestText, jobVars
    <3>4. client' \in [Clients -> [at : {"idle", "enqueue", "store"},
                                   req : Requests \cup {NoReq}]]
      BY <3>1, <3>2
    <3>5. \A x \in Clients : client'[x].at # "idle" => client'[x].req \in Requests
      BY <3>1, <3>2
    <3> QED
      BY <3>3, <3>4, <3>5
  <2> QED
    BY <2>1, <2>2
<1>2. ASSUME NEW c \in Clients, NEW j \in Jobs, Submit(c, j) PROVE JobTypes'
  BY <1>2 DEF Submit
<1>3. ASSUME NEW c \in Clients, StoreKey(c) PROVE JobTypes'
  BY <1>3 DEF StoreKey, jobVars, Idle
<1>4. ASSUME NEW j \in Jobs, JobCancel(j) PROVE JobTypes'
  BY <1>4 DEF JobCancel, jobVars
<1>5. ASSUME NEW j \in Jobs, JobStep(j) PROVE JobTypes'
  <2>0. pc[j] \in Inner => ProfileOf(j) \in Semaphores /\ sem[ProfileOf(j)] \in Nat
    BY DEF ProfileOf, Semaphores, Requests
  <2>1. CASE Acquire(j)
    BY <2>1 DEF Acquire
  <2>2. CASE Supersede(j)
    BY <2>2 DEF Supersede
  <2>3. ASSUME NEW label \in {"queued"} \cup Done, Leave(j, label), pc[j] \in Inner,
               label = "queued" => tries[j] < MaxAttempts,
               UNCHANGED <<cancel, client>>, stranded' \subseteq Jobs,
               budget' \in [faults : Nat, deletes : Nat, restarts : Nat]
        PROVE  JobTypes'
    <3>1. sem' \in [Semaphores -> Nat]
      BY <2>0, <2>3 DEF Leave, Release
    <3> QED
      BY <2>3, <3>1 DEF Leave
  <2>4. AfterFailure(j) \in {"queued"} \cup Done
        /\ (AfterFailure(j) = "queued" => tries[j] < MaxAttempts)
    BY DEF AfterFailure
  <2>5. \A kind : Fault(kind) => budget' \in [faults : Nat, deletes : Nat, restarts : Nat]
    BY DEF Fault
  <2>6. CASE AbortCancelled(j)
    BY <2>3, <2>6 DEF AbortCancelled, Strand
  <2>7. CASE AbortFailed(j)
    BY <2>3, <2>4, <2>5, <2>7 DEF AbortFailed, Strand
  <2>8. CASE Insert(j)
    BY <2>8 DEF Insert
  <2>9. CASE Upsert(j)
    BY <2>9 DEF Upsert
  <2>10. CASE Rollback(j)
    BY <2>3, <2>4, <2>5, <2>10 DEF Rollback
  <2>11. CASE Persist(j)
    BY <2>11 DEF Persist
  <2>12. CASE Finish(j)
    BY <2>3, <2>12 DEF Finish
  <2> QED
    BY <1>5, <2>1, <2>2, <2>6, <2>7, <2>8, <2>9, <2>10, <2>11, <2>12 DEF JobStep
<1>6. ASSUME NEW p \in Places, NEW k \in {"id", "filter"}, NEW r \in Records,
             Delete(p, k, r)
      PROVE  JobTypes'
  BY <1>6 DEF Delete, jobVars
<1>7. ASSUME NEW d \in deleting, DeleteVdb(d) \/ DeleteMark(d) PROVE JobTypes'
  <2>1. UNCHANGED <<sem, jobVars, cancel, client, budget>>
    BY <1>7 DEF DeleteVdb, DeleteMark
  <2> QED
    BY <2>1 DEF jobVars
<1>8. CASE Restart
  <2>1. sem' \in [Semaphores -> Nat]
    BY <1>8 DEF Restart
  <2>2. \A j \in Jobs : pc'[j] \in {"new", "abandoned"} \cup Done /\ (pc'[j] = "new" <=> pc[j] = "new")
    BY <1>8 DEF Restart
  <2>3. pc' \in [Jobs -> {"new", "abandoned"} \cup Done]
    BY <1>8, <2>2 DEF Restart
  <2> QED
    BY <1>8, <2>1, <2>2, <2>3 DEF Restart, Idle
<1>9. CASE UNCHANGED vars
  BY <1>9 DEF vars, jobVars
<1> QED
  BY <1>1, <1>2, <1>3, <1>4, <1>5, <1>6, <1>7, <1>8, <1>9 DEF Next

\* The initial state is well typed.
LEMMA JobTypesStart == Init => JobTypes
  BY IngestStoreAssumption DEF Init, JobTypes, Semaphores, Idle, Inner

-----------------------------------------------------------------------------
(* Permits.                                                                  *)

\* The jobs that hold a permit of profile f.
Held(f) == {j \in Jobs : pc[j] \in Inner /\ ProfileOf(j) = f}

PermitsInv ==
  /\ JobTypes
  /\ \A f \in Semaphores :
       /\ IsFiniteSet(Held(f))
       /\ sem[f] + Cardinality(Held(f)) = Permits

\* What a step does to the permits: nothing, job j takes one or puts it back, or
\* a restart frees them all.
HeldSame ==
  /\ sem' = sem
  /\ \A j \in Jobs : /\ pc'[j] \in Inner <=> pc[j] \in Inner
                     /\ pc[j] \in Inner => req'[j] = req[j]

Takes(j) ==
  /\ pc[j] \notin Inner /\ req[j] \in Requests
  /\ pc' = [pc EXCEPT ![j] = "prepare"]
  /\ req' = req
  /\ sem[ProfileOf(j)] > 0
  /\ sem' = [sem EXCEPT ![ProfileOf(j)] = @ - 1]

Freed ==
  /\ sem' = [f \in DOMAIN sem |-> Permits]
  /\ \A j \in Jobs : pc'[j] \notin Inner

Returns(j) ==
  /\ pc[j] \in Inner /\ req[j] \in Requests
  /\ \E label \in {"queued"} \cup Done : pc' = [pc EXCEPT ![j] = label]
  /\ req' = req
  /\ sem' = [sem EXCEPT ![ProfileOf(j)] = @ + 1]

\* Every exception path of the handler leaves it through Leave, which puts the
\* permit back; otherwise only a restart touches the semaphores.
LEMMA PermitsEffect ==
  ASSUME JobTypes, [Next]_vars
  PROVE  HeldSame \/ Freed \/ \E j \in Jobs : Takes(j) \/ Returns(j)
<1> USE DEF JobTypes, Inner, Done
<1>1. CASE \E c \in Clients, p \in Places, r \in Records : IngestText(c, p, r)
  BY <1>1 DEF IngestText, jobVars, HeldSame
<1>2. CASE \E c \in Clients, j \in Jobs : Submit(c, j)
  BY <1>2 DEF Submit, HeldSame
<1>3. CASE \E c \in Clients : StoreKey(c)
  BY <1>3 DEF StoreKey, jobVars, HeldSame
<1>4. CASE \E j \in Jobs : JobCancel(j)
  BY <1>4 DEF JobCancel, jobVars, HeldSame
<1>5. ASSUME NEW j \in Jobs, JobStep(j)
      PROVE  HeldSame \/ Takes(j) \/ Returns(j)
  <2>1. CASE Acquire(j) /\ j \in cancel
    BY <2>1 DEF Acquire, HeldSame
  <2>2. CASE Acquire(j) /\ j \notin cancel
    BY <2>2 DEF Acquire, Takes
  <2>3. CASE Supersede(j) \/ Insert(j) \/ Upsert(j) \/ Persist(j)
    BY <2>3 DEF Supersede, Insert, Upsert, Persist, HeldSame
  <2>4. ASSUME NEW label \in {"queued"} \cup Done, Leave(j, label), pc[j] \in Inner
        PROVE  Returns(j)
    BY <2>4 DEF Leave, Release, Returns
  <2>5. AfterFailure(j) \in {"queued"} \cup Done
    BY DEF AfterFailure
  <2>6. CASE AbortCancelled(j) \/ AbortFailed(j) \/ Rollback(j) \/ Finish(j)
    BY <2>4, <2>5, <2>6 DEF AbortCancelled, AbortFailed, Rollback, Finish
  <2> QED
    BY <1>5, <2>1, <2>2, <2>3, <2>6 DEF JobStep
<1>6. CASE \E p \in Places, k \in {"id", "filter"}, r \in Records : Delete(p, k, r)
  BY <1>6 DEF Delete, jobVars, HeldSame
<1>7. CASE \E d \in deleting : DeleteVdb(d) \/ DeleteMark(d)
  <2>1. UNCHANGED <<sem, jobVars>>
    BY <1>7 DEF DeleteVdb, DeleteMark
  <2> QED
    BY <2>1 DEF jobVars, HeldSame
<1>8. CASE Restart
  BY <1>8 DEF Restart, Freed
<1>9. CASE UNCHANGED vars
  BY <1>9 DEF vars, HeldSame
<1> QED
  BY <1>1, <1>2, <1>3, <1>4, <1>5, <1>6, <1>7, <1>8, <1>9 DEF Next

\* Whatever a step does to the permits keeps their number.
LEMMA PermitsStep == PermitsInv /\ [Next]_vars => PermitsInv'
<1> SUFFICES ASSUME PermitsInv, [Next]_vars, NEW f \in Semaphores
             PROVE  /\ IsFiniteSet(Held(f)')
                    /\ sem'[f] + Cardinality(Held(f)') = Permits
  BY JobTypesStep DEF PermitsInv
<1>0. /\ JobTypes /\ IsFiniteSet(Held(f)) /\ sem[f] + Cardinality(Held(f)) = Permits
      /\ sem \in [Semaphores -> Nat] /\ Cardinality(Held(f)) \in Nat
  BY FS_CardinalityType DEF PermitsInv, JobTypes
<1>1. CASE HeldSame
  <2>1. Held(f)' = Held(f)
    BY <1>1 DEF HeldSame, Held, ProfileOf
  <2> QED
    BY <1>0, <1>1, <2>1 DEF HeldSame
<1>2. ASSUME NEW j \in Jobs, Takes(j)
      PROVE  /\ IsFiniteSet(Held(f)')
             /\ sem'[f] + Cardinality(Held(f)') = Permits
  <2>1. CASE ProfileOf(j) = f
    <3>1. Held(f)' = Held(f) \cup {j} /\ j \notin Held(f)
      BY <1>0, <1>2, <2>1 DEF Takes, Held, ProfileOf, Inner, JobTypes
    <3>2. sem'[f] = sem[f] - 1
      BY <1>0, <1>2, <2>1 DEF Takes
    <3>3. IsFiniteSet(Held(f) \cup {j})
          /\ Cardinality(Held(f) \cup {j}) = Cardinality(Held(f)) + 1
      BY <1>0, <3>1, FS_AddElement
    <3> QED
      BY <1>0, <3>1, <3>2, <3>3
  <2>2. CASE ProfileOf(j) # f
    <3>1. Held(f)' = Held(f)
      BY <1>0, <1>2, <2>2 DEF Takes, Held, ProfileOf, JobTypes
    <3> QED
      BY <1>0, <1>2, <2>2, <3>1 DEF Takes
  <2> QED
    BY <2>1, <2>2
<1>3. ASSUME NEW j \in Jobs, Returns(j)
      PROVE  /\ IsFiniteSet(Held(f)')
             /\ sem'[f] + Cardinality(Held(f)') = Permits
  <2>1. CASE ProfileOf(j) = f
    <3>1. Held(f)' = Held(f) \ {j} /\ j \in Held(f)
      BY <1>0, <1>3, <2>1 DEF Returns, Held, ProfileOf, Inner, Done, JobTypes
    <3>2. sem'[f] = sem[f] + 1
      BY <1>0, <1>3, <2>1 DEF Returns
    <3>3. IsFiniteSet(Held(f) \ {j})
          /\ Cardinality(Held(f) \ {j}) = Cardinality(Held(f)) - 1
      BY <1>0, <3>1, FS_RemoveElement
    <3> QED
      BY <1>0, <3>1, <3>2, <3>3
  <2>2. CASE ProfileOf(j) # f
    <3>1. Held(f)' = Held(f)
      BY <1>0, <1>3, <2>2 DEF Returns, Held, ProfileOf, JobTypes
    <3> QED
      BY <1>0, <1>3, <2>2, <3>1 DEF Returns
  <2> QED
    BY <2>1, <2>2
<1>4. CASE Freed
  <2>1. Held(f)' = {} /\ sem'[f] = Permits
    BY <1>0, <1>4 DEF Freed, Held
  <2> QED
    BY <2>1, FS_EmptySet, IngestStoreAssumption
<1> QED
  BY <1>0, <1>1, <1>2, <1>3, <1>4, PermitsEffect

\* At the start all permits are free.
LEMMA PermitsStart == Init => PermitsInv
<1> SUFFICES ASSUME Init, NEW f \in Semaphores
             PROVE  IsFiniteSet(Held(f)) /\ sem[f] + Cardinality(Held(f)) = Permits
  BY JobTypesStart DEF PermitsInv
<1>1. Held(f) = {} /\ sem[f] = Permits
  BY DEF Init, Held, Inner, Semaphores
<1> QED
  BY <1>1, FS_EmptySet, IngestStoreAssumption

\* No path out of the ingest handler loses a permit or puts it back twice: for
\* every profile, the free permits and the jobs inside the handler always make
\* up max_concurrent.
THEOREM PermitsAreConserved == Spec => []PermitsConserved
<1>1. PermitsInv => PermitsConserved
  BY DEF PermitsInv, PermitsConserved, JobTypes, Held
<1> QED
  BY <1>1, PermitsStart, PermitsStep, PTL DEF Spec

-----------------------------------------------------------------------------
(* Documents.                                                                *)

\* A document belongs to the attempt of the job that built it, and a snapshot
\* is of a document of another record of the same source, at the same place.
DocTypes ==
  /\ docs \in [Records -> {NoDoc} \cup Documents]
  /\ snap \in [Jobs -> SUBSET Snapshots]
  /\ deleting \subseteq Deletes
  /\ \A r \in Records : docs[r] # NoDoc =>
       /\ pc[docs[r].by[1]] # "new"
       /\ req[docs[r].by[1]].place = docs[r].place
       /\ req[docs[r].by[1]].record = r
  /\ \A j \in Jobs : \A s \in snap[j] :
       /\ pc[s.by[1]] # "new"
       /\ req[s.by[1]].place = req[j].place
       /\ s.record[1] = req[j].record[1]
       /\ s.record # req[j].record
  /\ \A j \in Jobs : snap[j] # {} => pc[j] \in {"superseded", "upsert", "persisted"}

\* A missing document is not a document, and was built by no job.
LEMMA NoDocument ==
  /\ NoDoc \notin Documents
  /\ NoDoc.by \notin Attempts
  /\ NoDoc.place \notin Places
  /\ NoDoc.state = "none"
<1>1. NoDoc.by[1] = None
  BY DEF NoDoc
<1>2. \A x \in Attempts : x[1] \in Jobs
  BY DEF Attempts
<1> QED
  BY <1>1, <1>2, IngestStoreAssumption DEF NoDoc, Documents

\* A job keeps its request once it has one.
LEMMA RequestStays ==
  ASSUME JobTypes, [Next]_vars, NEW j \in Jobs, pc[j] # "new"
  PROVE  req'[j] = req[j] /\ pc'[j] # "new"
<1> USE DEF JobTypes, Inner, Done
<1>1. CASE \E c \in Clients, p \in Places, r \in Records : IngestText(c, p, r)
  BY <1>1 DEF IngestText, jobVars
<1>2. CASE \E c \in Clients, i \in Jobs : Submit(c, i)
  BY <1>2 DEF Submit
<1>3. CASE \E c \in Clients : StoreKey(c)
  BY <1>3 DEF StoreKey, jobVars
<1>4. CASE \E i \in Jobs : JobCancel(i)
  BY <1>4 DEF JobCancel, jobVars
<1>5. ASSUME NEW i \in Jobs, JobStep(i) PROVE req' = req /\ pc'[j] # "new"
  <2>1. CASE Acquire(i) \/ Supersede(i) \/ Insert(i) \/ Upsert(i) \/ Persist(i)
    BY <2>1 DEF Acquire, Supersede, Insert, Upsert, Persist
  <2>2. AfterFailure(i) # "new"
    BY DEF AfterFailure
  <2>3. CASE AbortCancelled(i) \/ AbortFailed(i) \/ Rollback(i) \/ Finish(i)
    BY <2>2, <2>3 DEF AbortCancelled, AbortFailed, Rollback, Finish, Leave
  <2> QED
    BY <1>5, <2>1, <2>3 DEF JobStep
<1>6. CASE \E p \in Places, k \in {"id", "filter"}, r \in Records : Delete(p, k, r)
  BY <1>6 DEF Delete, jobVars
<1>7. CASE \E d \in deleting : DeleteVdb(d) \/ DeleteMark(d)
  <2>1. UNCHANGED jobVars
    BY <1>7 DEF DeleteVdb, DeleteMark
  <2> QED
    BY <2>1 DEF jobVars
<1>8. CASE Restart
  BY <1>8 DEF Restart
<1>9. CASE UNCHANGED vars
  BY <1>9 DEF vars
<1> QED
  BY <1>1, <1>2, <1>3, <1>4, <1>5, <1>6, <1>7, <1>8, <1>9 DEF Next

\* How the document of a record may change: it goes, changes its state only, or
\* is replaced by a handler of its record.
Changed(r) ==
  \/ docs'[r] = NoDoc
  \/ /\ docs[r] \in Documents /\ docs'[r] \in Documents
     /\ docs'[r].place = docs[r].place
     /\ docs'[r].by = docs[r].by
  \/ \E j \in Jobs : Insert(j) /\ r = req[j].record /\ docs'[r] = NewDoc(j)

\* Only an insert or a rollback makes a document active.
Activates(r) ==
  /\ docs'[r].state = "active"
  /\ docs'[r] # docs[r]

\* A step that changes the document of a record changes it in one of these ways.
LEMMA DocumentStep ==
  ASSUME JobTypes, DocTypes, [Next]_vars, NEW r \in Records, docs'[r] # docs[r]
  PROVE  /\ Changed(r)
         /\ Activates(r) => \E j \in Jobs :
              \/ Insert(j) /\ r = req[j].record
              \/ Rollback(j) /\ \E s \in snap[j] : s.record = r /\ s.by = docs[r].by
<1>0. docs \in [Records -> {NoDoc} \cup Documents] /\ snap \in [Jobs -> SUBSET Snapshots]
  BY DEF DocTypes
<1>2. CASE \E c \in Clients, p \in Places, q \in Records : IngestText(c, p, q)
  BY <1>2 DEF IngestText
<1>3. CASE (\E c \in Clients, j \in Jobs : Submit(c, j)) \/ (\E c \in Clients : StoreKey(c))
  BY <1>3 DEF Submit, StoreKey
<1>4. CASE \E j \in Jobs : JobCancel(j)
  BY <1>4 DEF JobCancel
<1>5. ASSUME NEW j \in Jobs, JobStep(j)
      PROVE  /\ Changed(r)
             /\ Activates(r) =>
                  \/ Insert(j) /\ r = req[j].record
                  \/ Rollback(j) /\ \E s \in snap[j] : s.record = r /\ s.by = docs[r].by
  <2>1. CASE Acquire(j) \/ AbortCancelled(j) \/ AbortFailed(j) \/ Upsert(j)
             \/ Persist(j) \/ Finish(j)
    BY <2>1 DEF Acquire, AbortCancelled, AbortFailed, Upsert, Persist, Finish
  <2>2. CASE Supersede(j)
    <3>1. r \in Older(j) /\ docs'[r] = [docs[r] EXCEPT !.state = "superseded"]
      BY <2>2 DEF Supersede
    <3>2. docs[r] \in Documents
      BY <1>0, <3>1, NoDocument DEF Older, Versions, ActiveAt
    <3>3. /\ docs'[r] \in Documents /\ docs'[r].state = "superseded"
          /\ docs'[r].place = docs[r].place /\ docs'[r].by = docs[r].by
      BY <3>1, <3>2 DEF Documents
    <3> QED
      BY <3>2, <3>3 DEF Changed, Activates
  <2>3. CASE Insert(j)
    <3>1. r = req[j].record /\ docs'[r] = NewDoc(j)
      BY <1>0, <2>3 DEF Insert
    <3>2. Changed(r)
      BY <2>3, <3>1 DEF Changed
    <3> QED
      BY <2>3, <3>1, <3>2
  <2>4. CASE Rollback(j)
    <3>1. CASE r = req[j].record
      <4>1. docs'[r] = NoDoc
        BY <2>4, <3>1 DEF Rollback, Restored
      <4> QED
        BY <4>1, NoDocument DEF Changed, Activates
    <3>2. CASE r # req[j].record
      <4>1. PICK s \in snap[j] : s.record = r /\ s.by = docs[r].by
        BY <2>4, <3>2 DEF Rollback, Restored
      <4>2. docs'[r] = [docs[r] EXCEPT !.state = "active"]
        BY <2>4, <3>2, <4>1 DEF Rollback, Restored
      <4>3. docs[r] \in Documents
        BY <1>0, <4>1, NoDocument DEF Snapshots
      <4>4. /\ docs'[r] \in Documents
            /\ docs'[r].place = docs[r].place /\ docs'[r].by = docs[r].by
        BY <4>2, <4>3 DEF Documents
      <4>5. Changed(r)
        BY <4>3, <4>4 DEF Changed
      <4> QED
        BY <2>4, <4>1, <4>5
    <3> QED
      BY <3>1, <3>2
  <2> QED
    BY <1>5, <2>1, <2>2, <2>3, <2>4 DEF JobStep
<1>6. CASE \E p \in Places, k \in {"id", "filter"}, q \in Records : Delete(p, k, q)
  BY <1>6 DEF Delete
<1>7. ASSUME NEW d \in deleting, DeleteVdb(d) \/ DeleteMark(d)
      PROVE  Changed(r) /\ ~ Activates(r)
  <2>1. DeleteMark(d)
    BY <1>7 DEF DeleteVdb
  <2>2. PICK f \in d.found : f.record = r /\ f.by = docs[r].by
    BY <2>1 DEF DeleteMark
  <2>3. docs'[r] = [docs[r] EXCEPT !.state = "deleted"]
    BY <2>1, <2>2 DEF DeleteMark
  <2>4. f.by \in Attempts
    BY <1>7, <2>2 DEF DocTypes, Deletes, Snapshots
  <2>5. docs[r] \in Documents
    BY <1>0, <2>2, <2>4, NoDocument
  <2>6. /\ docs'[r] \in Documents /\ docs'[r].state = "deleted"
        /\ docs'[r].place = docs[r].place /\ docs'[r].by = docs[r].by
    BY <2>3, <2>5 DEF Documents
  <2> QED
    BY <2>5, <2>6 DEF Changed, Activates
<1>8. CASE Restart
  <2>1. docs'[r] = NoDoc
    BY <1>8 DEF Restart
  <2> QED
    BY <2>1, NoDocument DEF Changed, Activates
<1>9. CASE UNCHANGED vars
  BY <1>9 DEF vars
<1> QED
  BY <1>2, <1>3, <1>4, <1>5, <1>6, <1>7, <1>8, <1>9 DEF Next

\* A snapshot taken by the supersede loop is of documents of other records of
\* the source, and every other step keeps or drops the snapshots it finds.
LEMMA SnapshotStep ==
  ASSUME JobTypes, DocTypes, [Next]_vars
  PROVE  /\ snap' \in [Jobs -> SUBSET Snapshots]
         /\ \A j \in Jobs :
              \/ snap'[j] = {}
              \/ /\ snap'[j] = snap[j]
                 /\ pc'[j] \in {"superseded", "upsert", "persisted"}
              \/ /\ Supersede(j)
                 /\ snap'[j] = {[record |-> r, by |-> docs[r].by] : r \in Older(j)}
<1>0. snap \in [Jobs -> SUBSET Snapshots]
      /\ \A j \in Jobs : snap[j] # {} => pc[j] \in {"superseded", "upsert", "persisted"}
  BY DEF DocTypes
<1> USE DEF JobTypes
<1>1. CASE snap' = snap /\ pc' = pc
  BY <1>0, <1>1
<1>2. CASE \E c \in Clients, p \in Places, q \in Records : IngestText(c, p, q)
  BY <1>1, <1>2 DEF IngestText, jobVars
<1>3. CASE \E c \in Clients, j \in Jobs : Submit(c, j)
  BY <1>0, <1>3 DEF Submit
<1>4. CASE \E c \in Clients : StoreKey(c)
  BY <1>1, <1>4 DEF StoreKey, jobVars
<1>5. CASE \E j \in Jobs : JobCancel(j)
  BY <1>1, <1>5 DEF JobCancel, jobVars
<1>6. CASE \E j \in Jobs : JobStep(j)
  <2> PICK j \in Jobs : JobStep(j)
    BY <1>6
  <2>1. CASE Acquire(j)
    BY <1>0, <2>1 DEF Acquire
  <2>2. CASE Supersede(j)
    <3> DEFINE S == {[record |-> r, by |-> docs[r].by] : r \in Older(j)}
    <3>1. S \in SUBSET Snapshots
      <4> SUFFICES ASSUME NEW r \in Older(j)
                   PROVE  [record |-> r, by |-> docs[r].by] \in Snapshots
        OBVIOUS
      <4>1. r \in Records /\ docs[r] \in Documents
        BY NoDocument DEF Older, Versions, ActiveAt, DocTypes
      <4> QED
        BY <4>1 DEF Documents, Snapshots
    <3>2. snap' = [snap EXCEPT ![j] = S] /\ pc' = [pc EXCEPT ![j] = "superseded"]
      BY <2>2 DEF Supersede
    <3>3. snap'[j] = S /\ \A i \in Jobs \ {j} : snap'[i] = snap[i] /\ pc'[i] = pc[i]
      BY <1>0, <3>2
    <3>4. snap' \in [Jobs -> SUBSET Snapshots]
      BY <1>0, <3>1, <3>2
    <3> QED
      BY <1>0, <2>2, <3>3, <3>4
  <2>3. CASE Insert(j) \/ Upsert(j) \/ Persist(j)
    BY <1>0, <2>3 DEF Insert, Upsert, Persist
  <2>4. CASE AbortCancelled(j) \/ AbortFailed(j) \/ Rollback(j) \/ Finish(j)
    <3>1. \E label : Leave(j, label)
      BY <2>4 DEF AbortCancelled, AbortFailed, Rollback, Finish
    <3> QED
      BY <1>0, <3>1 DEF Leave
  <2> QED
    BY <2>1, <2>2, <2>3, <2>4 DEF JobStep
<1>7. CASE \E p \in Places, k \in {"id", "filter"}, q \in Records : Delete(p, k, q)
  BY <1>1, <1>7 DEF Delete, jobVars
<1>8. CASE \E d \in deleting : DeleteVdb(d) \/ DeleteMark(d)
  <2>1. UNCHANGED jobVars
    BY <1>8 DEF DeleteVdb, DeleteMark
  <2> QED
    BY <1>1, <2>1 DEF jobVars
<1>9. CASE Restart
  BY <1>1, <1>9 DEF Restart
<1>10. CASE UNCHANGED vars
  BY <1>1, <1>10 DEF vars
<1> QED
  BY <1>2, <1>3, <1>4, <1>5, <1>6, <1>7, <1>8, <1>9, <1>10 DEF Next

\* A delete call holds on to documents, too.
LEMMA FoundStep ==
  ASSUME DocTypes, [Next]_vars
  PROVE  deleting' \subseteq Deletes
<1>0. deleting \subseteq Deletes
  BY DEF DocTypes
<1>1. CASE deleting' = deleting
  BY <1>0, <1>1
<1>2. CASE \E p \in Places, k \in {"id", "filter"}, q \in Records : Delete(p, k, q)
  <2> PICK p \in Places, k \in {"id", "filter"}, q \in Records : Delete(p, k, q)
    BY <1>2
  <2> DEFINE S == {[record |-> x, by |-> docs[x].by] :
                     x \in {y \in Matched(p, k, q) : docs[y].place = p}}
  <2>1. S \in SUBSET Snapshots
    <3> SUFFICES ASSUME NEW x \in Matched(p, k, q), docs[x].place = p
                 PROVE  [record |-> x, by |-> docs[x].by] \in Snapshots
      OBVIOUS
    <3>1. x \in Records
      BY DEF Matched
    <3>2. docs[x] \in Documents
      BY <3>1, NoDocument DEF DocTypes
    <3> QED
      BY <3>1, <3>2 DEF Documents, Snapshots
  <2>2. deleting' = deleting \cup {[place |-> p, kind |-> k, record |-> q, at |-> "vdb",
                                    found |-> S]}
    BY DEF Delete
  <2> HIDE DEF S
  <2> QED
    BY <1>0, <2>1, <2>2 DEF Deletes
<1>3. CASE \E d \in deleting : DeleteVdb(d)
  <2> PICK d \in deleting : DeleteVdb(d)
    BY <1>3
  <2>1. deleting' = (deleting \ {d}) \cup {[d EXCEPT !.at = "mark"]}
    BY DEF DeleteVdb
  <2>2. [d EXCEPT !.at = "mark"] \in Deletes
    BY <1>0 DEF Deletes
  <2> QED
    BY <1>0, <2>1, <2>2
<1>4. CASE \E d \in deleting : DeleteMark(d)
  BY <1>0, <1>4 DEF DeleteMark
<1>5. CASE \E j \in Jobs : JobCancel(j) \/ JobStep(j)
  BY <1>1, <1>5 DEF JobCancel, JobStep, Acquire, Supersede, AbortCancelled, AbortFailed,
     Insert, Upsert, Rollback, Persist, Finish
<1>6. CASE \/ \E c \in Clients, p \in Places, q \in Records : IngestText(c, p, q)
           \/ \E c \in Clients, j \in Jobs : Submit(c, j)
           \/ \E c \in Clients : StoreKey(c)
  BY <1>1, <1>6 DEF IngestText, Submit, StoreKey
<1>7. CASE Restart \/ UNCHANGED vars
  BY <1>1, <1>7 DEF Restart, vars
<1> QED
  BY <1>2, <1>3, <1>4, <1>5, <1>6, <1>7 DEF Next

\* The document that an insert puts in is of the job's record and place.
LEMMA NewDocument ==
  ASSUME JobTypes, NEW j \in Jobs, Insert(j)
  PROVE  /\ NewDoc(j) \in Documents
         /\ NewDoc(j).by[1] = j
         /\ NewDoc(j).place = req[j].place
         /\ pc[j] # "new"
         /\ req[j] \in Requests
<1>1. pc[j] = "superseded"
  BY DEF Insert
<1>2. req[j] \in Requests /\ tries[j] \in 1 .. MaxAttempts
  BY <1>1 DEF JobTypes, Inner
<1> QED
  BY <1>1, <1>2 DEF NewDoc, Documents, Attempts, Requests

\* Every step leaves a dictionary of documents.
LEMMA DictionaryStep ==
  ASSUME JobTypes, DocTypes, [Next]_vars
  PROVE  docs' \in [Records -> {NoDoc} \cup Documents]
<1> DEFINE Dict == [Records -> {NoDoc} \cup Documents]
<1>0. docs \in Dict
  BY DEF DocTypes
<1>1. \A r \in Records : docs'[r] \in {NoDoc} \cup Documents
  BY <1>0, NewDocument, DocumentStep DEF Changed
<1>3. CASE docs' = docs
  BY <1>0, <1>3
<1>4. CASE \E j \in Jobs : JobStep(j)
  <2> PICK j \in Jobs : JobStep(j)
    BY <1>4
  <2>1. CASE Supersede(j)
    BY <1>1, <2>1 DEF Supersede
  <2>2. CASE Rollback(j)
    BY <1>1, <2>2 DEF Rollback, Restored
  <2>3. CASE Insert(j)
    BY <1>0, <2>3, NewDocument DEF Insert
  <2>4. CASE Acquire(j) \/ AbortCancelled(j) \/ AbortFailed(j) \/ Upsert(j)
             \/ Persist(j) \/ Finish(j)
    BY <1>3, <2>4 DEF Acquire, AbortCancelled, AbortFailed, Upsert, Persist, Finish
  <2> QED
    BY <2>1, <2>2, <2>3, <2>4 DEF JobStep
<1>5. CASE \E d \in deleting : DeleteVdb(d)
  BY <1>3, <1>5 DEF DeleteVdb
<1>6. CASE \E d \in deleting : DeleteMark(d)
  BY <1>1, <1>6 DEF DeleteMark
<1>7. CASE Restart
  BY <1>1, <1>7 DEF Restart
<1>8. CASE \/ \E c \in Clients, p \in Places, r \in Records : IngestText(c, p, r)
           \/ \E c \in Clients, j \in Jobs : Submit(c, j)
           \/ \E c \in Clients : StoreKey(c)
           \/ \E j \in Jobs : JobCancel(j)
           \/ \E p \in Places, k \in {"id", "filter"}, r \in Records : Delete(p, k, r)
           \/ UNCHANGED vars
  BY <1>3, <1>8 DEF IngestText, Submit, StoreKey, JobCancel, Delete, vars
<1> QED
  BY <1>4, <1>5, <1>6, <1>7, <1>8 DEF Next

\* Every step keeps documents and snapshots well typed and owned.
LEMMA DocTypesStep == JobTypes /\ DocTypes /\ [Next]_vars => DocTypes'
<1> SUFFICES ASSUME JobTypes, DocTypes, [Next]_vars PROVE DocTypes'
  OBVIOUS
<1>0. /\ docs \in [Records -> {NoDoc} \cup Documents]
      /\ snap \in [Jobs -> SUBSET Snapshots]
  BY DEF DocTypes
<1>1. ASSUME NEW r \in Records, docs'[r] # NoDoc
      PROVE  /\ pc'[docs'[r].by[1]] # "new"
             /\ req'[docs'[r].by[1]].place = docs'[r].place
             /\ req'[docs'[r].by[1]].record = r
  <2>1. ASSUME docs[r] # NoDoc, docs'[r].by = docs[r].by, docs'[r].place = docs[r].place
        PROVE  /\ pc'[docs'[r].by[1]] # "new"
               /\ req'[docs'[r].by[1]].place = docs'[r].place
               /\ req'[docs'[r].by[1]].record = r
    <3>1. docs[r].by[1] \in Jobs
      BY <1>0, <2>1 DEF Documents, Attempts
    <3>2. /\ pc[docs[r].by[1]] # "new"
          /\ req[docs[r].by[1]].place = docs[r].place
          /\ req[docs[r].by[1]].record = r
      BY <2>1 DEF DocTypes
    <3>3. /\ req'[docs[r].by[1]] = req[docs[r].by[1]]
          /\ pc'[docs[r].by[1]] # "new"
      BY <3>1, <3>2, RequestStays
    <3> QED
      BY <2>1, <3>2, <3>3
  <2>2. CASE docs'[r] = docs[r]
    BY <1>1, <2>1, <2>2
  <2>3. ASSUME NEW j \in Jobs, Insert(j), r = req[j].record, docs'[r] = NewDoc(j)
        PROVE  /\ pc'[docs'[r].by[1]] # "new"
               /\ req'[docs'[r].by[1]].place = docs'[r].place
               /\ req'[docs'[r].by[1]].record = r
    <3>1. /\ NewDoc(j).by[1] = j /\ NewDoc(j).place = req[j].place /\ pc[j] # "new"
      BY <2>3, NewDocument
    <3>2. req'[j] = req[j] /\ pc'[j] # "new"
      BY <3>1, RequestStays
    <3> QED
      BY <2>3, <3>1, <3>2
  <2>4. CASE docs'[r] # docs[r]
    BY <1>1, <2>1, <2>3, <2>4, DocumentStep, NoDocument DEF Changed
  <2> QED
    BY <2>2, <2>4
<1>2. ASSUME NEW j \in Jobs, NEW s \in snap'[j]
      PROVE  /\ pc'[s.by[1]] # "new"
             /\ req'[s.by[1]].place = req'[j].place
             /\ s.record[1] = req'[j].record[1]
             /\ s.record # req'[j].record
  <2>1. s.by[1] \in Jobs
    BY <1>2, SnapshotStep DEF Snapshots, Attempts
  <2>2. /\ pc[s.by[1]] # "new" /\ pc[j] # "new"
        /\ req[s.by[1]].place = req[j].place
        /\ s.record[1] = req[j].record[1]
        /\ s.record # req[j].record
    <3>1. CASE snap'[j] = snap[j]
      <4>1. pc[j] \in {"superseded", "upsert", "persisted"}
        BY <1>2, <3>1 DEF DocTypes
      <4> QED
        BY <1>2, <3>1, <4>1 DEF DocTypes
    <3>2. CASE Supersede(j) /\ snap'[j] = {[record |-> r, by |-> docs[r].by] : r \in Older(j)}
      <4>1. PICK r \in Older(j) : s = [record |-> r, by |-> docs[r].by]
        BY <1>2, <3>2
      <4>2. /\ r \in Records /\ r[1] = req[j].record[1] /\ r # req[j].record
            /\ docs[r].state = "active" /\ docs[r].place = req[j].place
        BY DEF Older, Versions, ActiveAt
      <4>3. docs[r] # NoDoc
        BY <4>2, NoDocument
      <4>4. pc[docs[r].by[1]] # "new" /\ req[docs[r].by[1]].place = docs[r].place
        BY <4>2, <4>3 DEF DocTypes
      <4>5. pc[j] # "new"
        BY <3>2 DEF Supersede
      <4> QED
        BY <4>1, <4>2, <4>4, <4>5
    <3> QED
      BY <1>2, <3>1, <3>2, SnapshotStep
  <2>3. req'[j] = req[j] /\ req'[s.by[1]] = req[s.by[1]] /\ pc'[s.by[1]] # "new"
    BY <2>1, <2>2, RequestStays
  <2> QED
    BY <2>2, <2>3
<1>3. ASSUME NEW j \in Jobs, snap'[j] # {}
      PROVE  pc'[j] \in {"superseded", "upsert", "persisted"}
  <2>1. CASE Supersede(j)
    BY <2>1 DEF Supersede, JobTypes
  <2> QED
    BY <1>3, <2>1, SnapshotStep
<1> QED
  BY <1>1, <1>2, <1>3, DictionaryStep, FoundStep, SnapshotStep DEF DocTypes

\* The dictionary starts empty.
LEMMA DocTypesStart == Init => DocTypes
  BY DEF Init, DocTypes

-----------------------------------------------------------------------------
(* One active version.                                                       *)

\* With one permit per profile, a profile's handlers exclude each other.
LEMMA HandlersExclude ==
  ASSUME Permits = 1, PermitsInv, NEW i \in Jobs, NEW j \in Jobs,
         pc[i] \in Inner, pc[j] \in Inner, req[i].place = req[j].place
  PROVE  i = j
<1> SUFFICES ASSUME i # j PROVE FALSE
  OBVIOUS
<1> DEFINE f == ProfileOf(j)
<1>1. f \in Semaphores /\ {i, j} \subseteq Held(f)
  BY DEF ProfileOf, Held, Semaphores, PermitsInv, JobTypes, Inner, Requests
<1>2. IsFiniteSet(Held(f)) /\ sem[f] + Cardinality(Held(f)) = 1 /\ sem[f] \in Nat
  BY <1>1 DEF PermitsInv, JobTypes
<1>3. Cardinality({i, j}) = 2
  <2>1. IsFiniteSet({i}) /\ Cardinality({i}) = 1
    BY FS_Singleton
  <2>2. Cardinality({i} \cup {j}) = Cardinality({i}) + 1
    <3>1. j \notin {i}
      OBVIOUS
    <3> QED
      BY <2>1, <3>1, FS_AddElement
  <2>3. {i, j} = {i} \cup {j}
    OBVIOUS
  <2> QED
    BY <2>1, <2>2, <2>3
<1>4. Cardinality({i, j}) <= Cardinality(Held(f)) /\ Cardinality(Held(f)) \in Nat
  BY <1>1, <1>2, FS_Subset, FS_CardinalityType
<1> QED
  BY <1>2, <1>3, <1>4

\* Where the supersede loop of a job is done and its handler not yet left.
Critical == {"superseded", "upsert", "persisted"}

\* Two active documents of a source at one place are one; a handler that has
\* superseded the others finds no active version but its own, and has a
\* snapshot of one document at most.
VersionsInv ==
  /\ \A p \in Places, r, q \in Records :
       ActiveAt(p, r) /\ ActiveAt(p, q) /\ r[1] = q[1] => r = q
  /\ \A j \in Jobs, r \in Records :
       /\ pc[j] \in Critical
       /\ ActiveAt(req[j].place, r)
       /\ r[1] = req[j].record[1]
       => r = req[j].record
  /\ \A j \in Jobs : \A s, t \in snap[j] : s.record = t.record

\* A job gets where its snapshots matter by the supersede loop alone.
LEMMA CriticalStep ==
  ASSUME JobTypes, [Next]_vars, NEW j \in Jobs, pc'[j] \in Critical
  PROVE  pc[j] \in Critical \/ Supersede(j)
<1> USE DEF JobTypes, Critical
<1>1. CASE pc' = pc
  BY <1>1
<1>2. CASE \E c \in Clients, i \in Jobs : Submit(c, i)
  BY <1>2 DEF Submit
<1>3. CASE \E i \in Jobs : JobStep(i)
  <2> PICK i \in Jobs : JobStep(i)
    BY <1>3
  <2>1. CASE Acquire(i) \/ Supersede(i) \/ Insert(i) \/ Upsert(i) \/ Persist(i)
    BY <2>1 DEF Acquire, Supersede, Insert, Upsert, Persist
  <2>2. AfterFailure(i) \notin Critical
    BY DEF AfterFailure
  <2>3. CASE AbortCancelled(i) \/ AbortFailed(i) \/ Rollback(i) \/ Finish(i)
    BY <2>2, <2>3 DEF AbortCancelled, AbortFailed, Rollback, Finish, Leave
  <2> QED
    BY <2>1, <2>3 DEF JobStep
<1>4. CASE \E d \in deleting : DeleteVdb(d) \/ DeleteMark(d)
  <2>1. UNCHANGED jobVars
    BY <1>4 DEF DeleteVdb, DeleteMark
  <2> QED
    BY <1>1, <2>1 DEF jobVars
<1>5. CASE \/ \E c \in Clients, p \in Places, r \in Records : IngestText(c, p, r)
           \/ \E c \in Clients : StoreKey(c)
           \/ \E i \in Jobs : JobCancel(i)
           \/ \E p \in Places, k \in {"id", "filter"}, r \in Records : Delete(p, k, r)
           \/ Restart
           \/ UNCHANGED vars
  BY <1>1, <1>5 DEF IngestText, StoreKey, JobCancel, Delete, Restart, vars, jobVars
<1> QED
  BY <1>2, <1>3, <1>4, <1>5 DEF Next

\* A document becomes active by the insert of its job, or by the rollback of a
\* job that has a snapshot of it, and then at that job's place.
Restores(j, r) ==
  /\ Rollback(j)
  /\ \E s \in snap[j] : s.record = r /\ s.by = docs[r].by

\* Who makes the document of a record active at a place.
LEMMA ActiveStep ==
  ASSUME JobTypes, DocTypes, [Next]_vars,
         NEW p, NEW r \in Records, ActiveAt(p, r)', ~ ActiveAt(p, r)
  PROVE  \E j \in Jobs : /\ p = req[j].place
                         /\ \/ Insert(j) /\ r = req[j].record
                            \/ Restores(j, r)
<1>1. docs'[r] # docs[r] /\ docs'[r].state = "active" /\ docs'[r].place = p
  BY DEF ActiveAt
<1>2. CASE \E j \in Jobs : Insert(j) /\ r = req[j].record
  <2> PICK j \in Jobs : Insert(j) /\ r = req[j].record
    BY <1>2
  <2>1. docs'[r] = NewDoc(j)
    BY DEF Insert, DocTypes
  <2> QED
    BY <1>1, <2>1 DEF NewDoc
<1>3. CASE \E j \in Jobs : Restores(j, r)
  <2> PICK j \in Jobs : Restores(j, r)
    BY <1>3
  <2>1. PICK s \in snap[j] : s.record = r /\ s.by = docs[r].by
    BY DEF Restores
  <2>2. s.by \in Attempts
    BY <2>1 DEF DocTypes, Snapshots
  <2>3. docs[r] # NoDoc
    BY <2>1, <2>2, NoDocument
  <2>4. docs[r].place = req[j].place
    BY <2>1, <2>3 DEF DocTypes
  <2>5. docs'[r] # NoDoc
    BY <1>1, NoDocument
  <2>6. docs'[r].place = docs[r].place
    <3>1. docs'[r] = [docs[r] EXCEPT !.state = "active"]
      BY <1>1, <2>1, <2>5 DEF Restores, Rollback, Restored
    <3>2. docs[r] \in Documents
      BY <2>3 DEF DocTypes
    <3> QED
      BY <3>1, <3>2 DEF Documents
  <2> QED
    BY <1>1, <2>4, <2>6
<1> QED
  BY <1>1, <1>2, <1>3, DocumentStep DEF Activates, Restores

\* While a handler of the profile is at work, it alone makes documents active.
LEMMA VersionsStep ==
  ASSUME Permits = 1
  PROVE  PermitsInv /\ DocTypes /\ VersionsInv /\ [Next]_vars => VersionsInv'
<1> SUFFICES ASSUME PermitsInv, DocTypes, VersionsInv, [Next]_vars PROVE VersionsInv'
  OBVIOUS
<1>0. JobTypes /\ docs \in [Records -> {NoDoc} \cup Documents]
  BY DEF PermitsInv, DocTypes
<1>1. ASSUME NEW p \in Places, NEW r \in Records, NEW q \in Records, r[1] = q[1],
             ActiveAt(p, r)', ActiveAt(p, q)', ~ ActiveAt(p, r)
      PROVE  r = q
  <2>1. PICK j \in Jobs : /\ p = req[j].place
                          /\ \/ Insert(j) /\ r = req[j].record
                             \/ Restores(j, r)
    BY <1>0, <1>1, ActiveStep
  <2>2. CASE Insert(j) /\ r = req[j].record
    <3>1. pc[j] \in Critical
      BY <2>2 DEF Insert, Critical
    <3>2. q # r => docs'[q] = docs[q]
      BY <1>0, <2>2 DEF Insert
    <3> QED
      BY <1>1, <2>1, <2>2, <3>1, <3>2 DEF VersionsInv, ActiveAt
  <2>3. CASE Restores(j, r)
    <3>1. PICK s \in snap[j] : s.record = r /\ s.by = docs[r].by
      BY <2>3 DEF Restores
    <3>2. pc[j] \in Critical /\ docs' = Restored(j)
      BY <2>3 DEF Restores, Rollback, Critical
    <3>3. r[1] = req[j].record[1]
      BY <3>1 DEF DocTypes
    <3>4. q # req[j].record
      BY <1>1, <3>2, NoDocument DEF Restored, ActiveAt
    <3>5. ~ ActiveAt(p, q)
      BY <1>1, <2>1, <3>2, <3>3, <3>4 DEF VersionsInv
    <3>6. docs'[q] # docs[q]
      BY <1>1, <3>5 DEF ActiveAt
    <3>7. \E t \in snap[j] : t.record = q
      BY <3>2, <3>4, <3>6 DEF Restored
    <3> QED
      BY <3>1, <3>7 DEF VersionsInv
  <2> QED
    BY <2>1, <2>2, <2>3
<1>2. ASSUME NEW p \in Places, NEW r \in Records, NEW q \in Records, r[1] = q[1],
             ActiveAt(p, r)', ActiveAt(p, q)'
      PROVE  r = q
  BY <1>1, <1>2 DEF VersionsInv
<1>3. ASSUME NEW j \in Jobs, NEW r \in Records, pc'[j] \in Critical,
             ActiveAt(req[j].place, r)', r[1] = req'[j].record[1]
      PROVE  r = req'[j].record
  <2>1. (pc[j] \in Critical \/ Supersede(j)) /\ req'[j] = req[j]
    BY <1>0, <1>3, CriticalStep, RequestStays DEF Critical, Supersede
  <2>2. CASE Supersede(j)
    <3> SUFFICES ASSUME r # req[j].record PROVE FALSE
      BY <2>1
    <3>1. docs'[r].state = "active" /\ docs'[r].place = req[j].place
      BY <1>3, <2>1 DEF ActiveAt
    <3>2. CASE r \in Older(j)
      <4>1. docs'[r] = [docs[r] EXCEPT !.state = "superseded"]
        BY <2>2, <3>2 DEF Supersede
      <4>2. docs[r] \in Documents
        BY <1>0, <3>2, NoDocument DEF Older, Versions, ActiveAt
      <4> QED
        BY <3>1, <4>1, <4>2 DEF Documents
    <3>3. CASE r \notin Older(j)
      <4>1. docs'[r] = docs[r]
        BY <2>2, <3>3 DEF Supersede
      <4> QED
        BY <1>3, <2>1, <3>1, <3>3, <4>1 DEF Older, Versions, ActiveAt
    <3> QED
      BY <3>2, <3>3
  <2>3. CASE pc[j] \in Critical /\ ActiveAt(req[j].place, r)
    BY <1>3, <2>1, <2>3 DEF VersionsInv
  <2>4. CASE pc[j] \in Critical /\ ~ ActiveAt(req[j].place, r)
    <3>0. PICK p : p = req[j].place
      OBVIOUS
    <3>1. ActiveAt(p, r)' /\ ~ ActiveAt(p, r)
      BY <1>3, <2>1, <2>4, <3>0 DEF ActiveAt
    <3>2. PICK i \in Jobs : /\ p = req[i].place
                            /\ \/ Insert(i) /\ r = req[i].record
                               \/ Restores(i, r)
      BY <1>0, <3>1, ActiveStep
    <3>3. pc[i] \in Inner /\ pc[j] \in Inner
      BY <2>4, <3>2 DEF Insert, Restores, Rollback, Inner, Critical
    <3>4. i = j
      BY <3>0, <3>2, <3>3, HandlersExclude
    <3>5. ~ Rollback(j)
      <4> SUFFICES ASSUME Rollback(j) PROVE FALSE
        OBVIOUS
      <4>1. PICK label \in {"queued"} \cup Done : Leave(j, label)
        BY DEF Rollback, AfterFailure, Done
      <4>2. pc'[j] = label
        BY <1>0, <4>1 DEF Leave, JobTypes
      <4> QED
        BY <1>3, <4>2 DEF Critical, Done
    <3> QED
      BY <2>1, <3>2, <3>4, <3>5 DEF Restores
  <2> QED
    BY <2>1, <2>2, <2>3, <2>4
<1>4. ASSUME NEW j \in Jobs, NEW s \in snap'[j], NEW t \in snap'[j]
      PROVE  s.record = t.record
  <2>1. CASE snap'[j] = snap[j]
    BY <1>4, <2>1 DEF VersionsInv
  <2>2. CASE Supersede(j) /\ snap'[j] = {[record |-> r, by |-> docs[r].by] : r \in Older(j)}
    <3>1. PICK r \in Older(j), q \in Older(j) : s.record = r /\ t.record = q
      BY <1>4, <2>2
    <3>2. req[j].place \in Places
      BY <1>0, <2>2 DEF Supersede, JobTypes, Requests
    <3> QED
      BY <3>1, <3>2 DEF Older, Versions, VersionsInv
  <2> QED
    BY <1>0, <1>4, <2>1, <2>2, SnapshotStep
<1> QED
  BY <1>2, <1>3, <1>4 DEF VersionsInv

\* At the start there is no version.
LEMMA VersionsStart == Init => VersionsInv
  BY DEF Init, VersionsInv, Critical, ActiveAt, NoDoc

\* With one permit per profile, a source never has two active versions at a
\* place, whichever attempts fail, are cancelled or roll back in between, and
\* whatever is deleted.  With two permits it may: two handlers then supersede
\* before either inserts.
THEOREM OneVersionIsActive ==
  ASSUME Permits = 1
  PROVE  Spec => []OneActiveVersion
<1> DEFINE Inv == PermitsInv /\ DocTypes /\ VersionsInv
<1>1. Init => Inv
  BY PermitsStart, DocTypesStart, VersionsStart
<1>2. Inv /\ [Next]_vars => Inv'
  BY PermitsStep, DocTypesStep, VersionsStep DEF PermitsInv
<1>3. Inv => OneActiveVersion
  <2> SUFFICES ASSUME VersionsInv, NEW p \in Places, NEW s \in Sources
               PROVE  Cardinality(Versions(p, s)) <= 1
    BY DEF OneActiveVersion
  <2>1. CASE Versions(p, s) = {}
    BY <2>1, FS_EmptySet
  <2>2. CASE Versions(p, s) # {}
    <3>1. PICK r : r \in Versions(p, s)
      BY <2>2
    <3>2. Versions(p, s) = {r}
      BY <3>1 DEF Versions, VersionsInv
    <3> QED
      BY <3>2, FS_Singleton
  <2> QED
    BY <2>1, <2>2
<1> QED
  BY <1>1, <1>2, <1>3, PTL DEF Spec

-----------------------------------------------------------------------------
(* Committed documents.                                                      *)

\* Where the document of a job is in the dictionary.
Stored == {"upsert", "persisted", "succeeded"}

\* No other job that was submitted ingests the record of j.
OnlyOne(j) ==
  \A i \in Jobs \ {j} : pc[i] # "new" => req[i].record # req[j].record

CommitInv ==
  \A j \in Jobs : pc[j] \in Stored /\ budget.restarts = 0 /\ OnlyOne(j) => Kept(j)

\* A document is popped by the rollback of a job of its record, or by a restart.
LEMMA GoneStep ==
  ASSUME JobTypes, DocTypes, [Next]_vars,
         NEW r \in Records, docs[r] # NoDoc, docs'[r] = NoDoc
  PROVE  Restart \/ \E j \in Jobs : Rollback(j) /\ r = req[j].record
<1>0. docs[r] \in Documents
  BY DEF DocTypes
<1>1. \A label \in {"active", "superseded", "deleted"} :
        [docs[r] EXCEPT !.state = label] # NoDoc
  BY <1>0, NoDocument DEF Documents
<1>2. docs'[r] # docs[r]
  OBVIOUS
<1>3. ASSUME NEW j \in Jobs, JobStep(j) PROVE Rollback(j) /\ r = req[j].record
  <2>1. ~ Supersede(j)
    BY <1>1, <1>2 DEF Supersede
  <2>2. ~ Insert(j)
    BY <1>2, NewDocument, NoDocument DEF Insert, DocTypes
  <2>3. Rollback(j)
    BY <1>2, <1>3, <2>1, <2>2 DEF JobStep, Acquire, AbortCancelled, AbortFailed,
       Upsert, Persist, Finish
  <2> QED
    BY <1>1, <1>2, <2>3 DEF Rollback, Restored
<1>4. ASSUME NEW d \in deleting, DeleteVdb(d) \/ DeleteMark(d) PROVE FALSE
  BY <1>1, <1>2, <1>4 DEF DeleteVdb, DeleteMark
<1>5. CASE \/ \E c \in Clients, p \in Places, q \in Records : IngestText(c, p, q)
           \/ \E c \in Clients, j \in Jobs : Submit(c, j)
           \/ \E c \in Clients : StoreKey(c)
           \/ \E j \in Jobs : JobCancel(j)
           \/ \E p \in Places, k \in {"id", "filter"}, q \in Records : Delete(p, k, q)
           \/ UNCHANGED vars
  BY <1>2, <1>5 DEF IngestText, Submit, StoreKey, JobCancel, Delete, vars
<1> QED
  BY <1>3, <1>4, <1>5 DEF Next

\* Restarts are counted.
LEMMA RestartsStep ==
  ASSUME JobTypes, [Next]_vars, budget'.restarts = 0
  PROVE  budget.restarts = 0 /\ ~ Restart
<1> USE DEF JobTypes
<1>1. \A kind : Fault(kind) => budget'.restarts = budget.restarts
  BY DEF Fault
<1>2. CASE Restart
  BY <1>2 DEF Restart
<1>3. CASE \E j \in Jobs : JobCancel(j) \/ JobStep(j)
  BY <1>1, <1>2, <1>3 DEF JobCancel, JobStep, Acquire, Supersede, AbortCancelled,
     AbortFailed, Insert, Upsert, Rollback, Persist, Finish
<1>4. CASE \E p \in Places, k \in {"id", "filter"}, r \in Records : Delete(p, k, r)
  BY <1>2, <1>4 DEF Delete
<1>5. CASE \/ \E c \in Clients, p \in Places, r \in Records : IngestText(c, p, r)
           \/ \E c \in Clients, j \in Jobs : Submit(c, j)
           \/ \E c \in Clients : StoreKey(c)
           \/ \E d \in deleting : DeleteVdb(d) \/ DeleteMark(d)
           \/ UNCHANGED vars
  BY <1>2, <1>5 DEF IngestText, Submit, StoreKey, DeleteVdb, DeleteMark, vars
<1> QED
  BY <1>2, <1>3, <1>4, <1>5 DEF Next

\* A job's document is stored by its insert alone, and no longer is after a
\* rollback.
LEMMA StoredStep ==
  ASSUME JobTypes, [Next]_vars, NEW j \in Jobs, pc'[j] \in Stored
  PROVE  (pc[j] \in Stored \/ Insert(j)) /\ ~ Rollback(j)
<1> USE DEF JobTypes, Stored
<1>1. \A i \in Jobs : AfterFailure(i) \notin Stored
  BY DEF AfterFailure
<1>2. ~ Rollback(j)
  BY <1>1 DEF Rollback, Leave
<1>3. CASE pc' = pc
  BY <1>2, <1>3
<1>4. CASE \E i \in Jobs : JobStep(i)
  <2> PICK i \in Jobs : JobStep(i)
    BY <1>4
  <2>1. CASE Acquire(i) \/ Supersede(i) \/ Insert(i) \/ Upsert(i) \/ Persist(i)
    BY <1>2, <2>1 DEF Acquire, Supersede, Insert, Upsert, Persist
  <2>2. CASE AbortCancelled(i) \/ AbortFailed(i) \/ Rollback(i)
    BY <1>1, <1>2, <2>2 DEF AbortCancelled, AbortFailed, Rollback, Leave
  <2>3. CASE Finish(i)
    BY <1>2, <2>3 DEF Finish, Leave
  <2> QED
    BY <2>1, <2>2, <2>3 DEF JobStep
<1>5. CASE \E c \in Clients, i \in Jobs : Submit(c, i)
  BY <1>2, <1>5 DEF Submit
<1>6. CASE \E d \in deleting : DeleteVdb(d) \/ DeleteMark(d)
  <2>1. UNCHANGED jobVars
    BY <1>6 DEF DeleteVdb, DeleteMark
  <2> QED
    BY <1>3, <2>1 DEF jobVars
<1>7. CASE \/ \E c \in Clients, p \in Places, r \in Records : IngestText(c, p, r)
           \/ \E c \in Clients : StoreKey(c)
           \/ \E i \in Jobs : JobCancel(i)
           \/ \E p \in Places, k \in {"id", "filter"}, r \in Records : Delete(p, k, r)
           \/ UNCHANGED vars
  BY <1>3, <1>7 DEF IngestText, StoreKey, JobCancel, Delete, vars, jobVars
<1>8. CASE Restart
  <2>1. pc'[j] \in {"new", "abandoned"} \/ pc'[j] = pc[j]
    BY <1>8 DEF Restart
  <2>2. ~ Rollback(j)
    <3>1. budget'.restarts # budget.restarts
      BY <1>8 DEF Restart
    <3> QED
      BY <3>1 DEF Rollback, Fault
  <2> QED
    BY <2>1, <2>2
<1> QED
  BY <1>4, <1>5, <1>6, <1>7, <1>8 DEF Next

\* Only a job of its own record takes a stored document out.
LEMMA CommitStep == JobTypes /\ DocTypes /\ CommitInv /\ [Next]_vars => CommitInv'
<1> SUFFICES ASSUME JobTypes, DocTypes, CommitInv, [Next]_vars,
                    NEW j \in Jobs, pc'[j] \in Stored, budget'.restarts = 0, OnlyOne(j)'
             PROVE  Kept(j)'
  BY DEF CommitInv
<1>1. (pc[j] \in Stored \/ Insert(j)) /\ ~ Rollback(j)
      /\ budget.restarts = 0 /\ ~ Restart
  BY StoredStep, RestartsStep
<1>2. pc[j] # "new" /\ req'[j] = req[j] /\ req[j].record \in Records
  BY <1>1, RequestStays DEF Stored, Insert, JobTypes, Requests
<1>3. OnlyOne(j)
  BY <1>2, RequestStays DEF OnlyOne
<1>4. CASE Insert(j)
  <2>1. docs'[req[j].record] = NewDoc(j)
    BY <1>2, <1>4 DEF Insert, DocTypes
  <2>2. NewDoc(j) # NoDoc /\ NewDoc(j).place = req[j].place
    BY <1>4, NewDocument, NoDocument
  <2> QED
    BY <1>2, <2>1, <2>2 DEF Kept
<1>5. CASE pc[j] \in Stored /\ ~ Insert(j)
  <2>1. Kept(j)
    BY <1>1, <1>3, <1>5 DEF CommitInv
  <2>2. ASSUME NEW i \in Jobs, pc[i] \in Inner, req[j].record = req[i].record
        PROVE  i = j
    BY <1>3, <2>2 DEF OnlyOne, Inner
  <2>3. docs'[req[j].record] # NoDoc
    BY <1>1, <1>2, <2>1, <2>2, GoneStep DEF Kept, Rollback, Inner
  <2>4. CASE docs'[req[j].record] = docs[req[j].record]
    BY <1>2, <2>1, <2>4 DEF Kept
  <2>5. CASE docs'[req[j].record] # docs[req[j].record]
    <3>1. Changed(req[j].record)
      BY <1>2, <2>5, DocumentStep
    <3>2. ~ \E i \in Jobs : Insert(i) /\ req[j].record = req[i].record
      BY <1>5, <2>2 DEF Insert, Inner
    <3>3. docs'[req[j].record].place = docs[req[j].record].place
      BY <2>3, <3>1, <3>2 DEF Changed
    <3> QED
      BY <1>2, <2>1, <2>3, <3>3 DEF Kept
  <2> QED
    BY <2>4, <2>5
<1> QED
  BY <1>1, <1>4, <1>5

\* What a succeeded ingest stored stays in the dictionary until the process
\* ends, whatever other jobs supersede, roll back or delete, as long as none of
\* them ingests the same record.
THEOREM CommittedDocumentsStay == Spec => []CommittedStays
<1> DEFINE Inv == JobTypes /\ DocTypes /\ CommitInv
<1>1. Init => Inv
  BY JobTypesStart, DocTypesStart DEF Init, CommitInv, Stored
<1>2. Inv /\ [Next]_vars => Inv'
  BY JobTypesStep, DocTypesStep, CommitStep
<1>3. Inv => CommittedStays
  BY DEF CommitInv, CommittedStays, Stored, Alone, OnlyOne
<1> QED
  BY <1>1, <1>2, <1>3, PTL DEF Spec

-----------------------------------------------------------------------------
(* Search.                                                                   *)

GivenUp == {"cancelled", "dead_lettered"}

\* No job was given up, the process was not restarted, and record r is ingested
\* at place p only.
Undisturbed(p, r) ==
  /\ budget.restarts = 0
  /\ \A j \in Jobs : /\ pc[j] \notin GivenUp
                     /\ pc[j] # "new" /\ req[j].record = r => req[j].place = p

\* Job j is to put record r into the dictionary.
Coming(j, r) ==
  /\ req[j].record = r
  /\ pc[j] \in {"queued", "prepare", "superseded"}

\* A record that the vector store finds, or that a job has stored, is in the
\* dictionary or will be.
SearchInv ==
  \A p \in Places, r \in Records :
    /\ Undisturbed(p, r)
    /\ \/ vdb[p, r] \in {"partial", "active"}
       \/ \E j \in Jobs : req[j].record = r /\ pc[j] \in Stored
    => docs[r] # NoDoc \/ \E j \in Jobs : Coming(j, r)

\* The vector store gets a live record from the handler that ingests it.
LEMMA VectorStep ==
  ASSUME [Next]_vars, NEW p \in Places, NEW r \in Records,
         vdb'[p, r] \in {"partial", "active"}, vdb[p, r] \notin {"partial", "active"}
  PROVE  \E j \in Jobs : Upsert(j) /\ r = req[j].record
<1>0. vdb' # vdb /\ <<p, r>> \in Places \X Records
  OBVIOUS
<1>1. ASSUME NEW j \in Jobs, JobCancel(j) \/ JobStep(j)
      PROVE  Upsert(j) /\ r = req[j].record
  <2>1. Upsert(j)
    BY <1>0, <1>1 DEF JobCancel, JobStep, Acquire, Supersede, AbortCancelled,
       AbortFailed, Insert, Rollback, Persist, Finish
  <2> QED
    BY <1>0, <2>1 DEF Upsert
<1>2. ASSUME NEW d \in deleting, DeleteVdb(d) \/ DeleteMark(d) PROVE FALSE
  <2>1. CASE DeleteMark(d)
    BY <1>0, <2>1 DEF DeleteMark
  <2>2. CASE DeleteVdb(d)
    <3>1. vdb'[p, r] = "deleted" \/ vdb'[p, r] = vdb[p, r]
      BY <1>0, <2>2 DEF DeleteVdb
    <3> QED
      BY <3>1
  <2> QED
    BY <1>2, <2>1, <2>2
<1>3. CASE \/ \E c \in Clients, q \in Places, x \in Records : IngestText(c, q, x)
           \/ \E c \in Clients, j \in Jobs : Submit(c, j)
           \/ \E c \in Clients : StoreKey(c)
           \/ \E q \in Places, k \in {"id", "filter"}, x \in Records : Delete(q, k, x)
           \/ Restart
           \/ UNCHANGED vars
  BY <1>0, <1>3 DEF IngestText, Submit, StoreKey, Delete, Restart, vars
<1> QED
  BY <1>1, <1>2, <1>3 DEF Next

\* A job that is to store its record comes nearer to it, or is given up; a job
\* that rolls back is to come again, or is given up; who is given up stays so.
LEMMA ComingStep ==
  ASSUME JobTypes, [Next]_vars, ~ Restart, NEW j \in Jobs, pc'[j] \notin GivenUp
  PROVE  /\ pc[j] \notin GivenUp
         /\ pc[j] \in {"queued", "prepare", "superseded"} =>
              pc'[j] \in {"queued", "prepare", "superseded"} \/ Insert(j)
         /\ Rollback(j) => pc'[j] = "queued"
<1> USE DEF JobTypes, GivenUp
<1>1. \A i \in Jobs : AfterFailure(i) \in {"queued"} \cup GivenUp
  BY DEF AfterFailure
<1>2. Rollback(j) => pc'[j] = "queued"
  BY <1>1 DEF Rollback, Leave
<1>3. CASE pc' = pc
  BY <1>2, <1>3
<1>4. CASE \E i \in Jobs : JobStep(i)
  <2> PICK i \in Jobs : JobStep(i)
    BY <1>4
  <2>1. CASE Acquire(i) \/ Supersede(i) \/ Insert(i) \/ Upsert(i) \/ Persist(i)
    BY <1>2, <2>1 DEF Acquire, Supersede, Insert, Upsert, Persist
  <2>2. CASE AbortCancelled(i) \/ AbortFailed(i) \/ Rollback(i)
    BY <1>1, <1>2, <2>2 DEF AbortCancelled, AbortFailed, Rollback, Leave
  <2>3. CASE Finish(i)
    BY <1>2, <2>3 DEF Finish, Leave
  <2> QED
    BY <2>1, <2>2, <2>3 DEF JobStep
<1>5. CASE \E c \in Clients, i \in Jobs : Submit(c, i)
  BY <1>2, <1>5 DEF Submit
<1>6. CASE \E d \in deleting : DeleteVdb(d) \/ DeleteMark(d)
  <2>1. UNCHANGED jobVars
    BY <1>6 DEF DeleteVdb, DeleteMark
  <2> QED
    BY <1>3, <2>1 DEF jobVars
<1>7. CASE \/ \E c \in Clients, p \in Places, r \in Records : IngestText(c, p, r)
           \/ \E c \in Clients : StoreKey(c)
           \/ \E i \in Jobs : JobCancel(i)
           \/ \E p \in Places, k \in {"id", "filter"}, r \in Records : Delete(p, k, r)
           \/ UNCHANGED vars
  BY <1>3, <1>7 DEF IngestText, StoreKey, JobCancel, Delete, vars, jobVars
<1> QED
  BY <1>4, <1>5, <1>6, <1>7 DEF Next

\* What is taken out of the dictionary by a rollback is put in again by the
\* next attempt, so that the vector store is never ahead of it for good.
LEMMA SearchStep == JobTypes /\ DocTypes /\ SearchInv /\ [Next]_vars => SearchInv'
<1> SUFFICES ASSUME JobTypes, DocTypes, SearchInv, [Next]_vars,
                    NEW p \in Places, NEW r \in Records, Undisturbed(p, r)',
                    docs'[r] = NoDoc,
                    \/ vdb'[p, r] \in {"partial", "active"}
                    \/ \E j \in Jobs : req'[j].record = r /\ pc'[j] \in Stored
             PROVE  \E j \in Jobs : Coming(j, r)'
  BY DEF SearchInv
<1>0. ASSUME NEW j \in Jobs, pc[j] # "new"
      PROVE  req'[j] = req[j] /\ pc'[j] # "new" /\ pc'[j] \notin GivenUp
  BY <1>0, RequestStays DEF Undisturbed
<1>1. Undisturbed(p, r) /\ ~ Restart
  <2>1. ~ Restart
    BY RestartsStep DEF Undisturbed
  <2>2. \A j \in Jobs : pc[j] \notin GivenUp
    BY <2>1, ComingStep DEF Undisturbed
  <2> QED
    BY <1>0, <2>1, <2>2, RestartsStep DEF Undisturbed
<1>2. CASE docs[r] # NoDoc
  <2>1. PICK j \in Jobs : Rollback(j) /\ r = req[j].record
    BY <1>1, <1>2, GoneStep
  <2>2. pc[j] # "new"
    BY <2>1 DEF Rollback
  <2> QED
    BY <1>0, <1>1, <2>1, <2>2, ComingStep DEF Coming
<1>3. CASE docs[r] = NoDoc
  <2>1. ASSUME NEW j \in Jobs, Insert(j), req[j].record = r PROVE FALSE
    <3>1. docs'[r] = NewDoc(j)
      BY <2>1 DEF Insert, DocTypes
    <3> QED
      BY <2>1, <3>1, NewDocument, NoDocument
  <2>2. \/ vdb[p, r] \in {"partial", "active"}
        \/ \E j \in Jobs : req[j].record = r /\ pc[j] \in Stored
    <3>1. CASE vdb'[p, r] \in {"partial", "active"}
      BY <3>1, VectorStep DEF Upsert, Stored
    <3>2. ASSUME NEW j \in Jobs, req'[j].record = r, pc'[j] \in Stored
          PROVE  req[j].record = r /\ pc[j] \in Stored
      <4>1. pc[j] \in Stored \/ Insert(j)
        BY <3>2, StoredStep
      <4>2. pc[j] # "new"
        BY <4>1 DEF Stored, Insert
      <4> QED
        BY <1>0, <2>1, <3>2, <4>1, <4>2
    <3> QED
      BY <3>1, <3>2
  <2>3. PICK j \in Jobs : Coming(j, r)
    BY <1>1, <1>3, <2>2 DEF SearchInv
  <2>4. pc[j] # "new" /\ ~ Insert(j)
    BY <2>1, <2>3 DEF Coming
  <2> QED
    BY <1>0, <1>1, <2>3, <2>4, ComingStep DEF Coming
<1> QED
  BY <1>2, <1>3

\* With one profile and collection, search finds no outdated document of one
\* chunk once everything submitted has succeeded, however often it had to be
\* retried.  A record id is the same at every place and the dictionary has one
\* document for it, so that with two places an ingest at the one hides the
\* deletion at the other.
THEOREM SearchFindsTheActive ==
  ASSUME \A p, q \in Places : p = q
  PROVE  Spec => []SearchFindsActive
<1> DEFINE Inv == JobTypes /\ DocTypes /\ SearchInv
<1>1. Init => Inv
  <2>1. Init => \A p \in Places, r \in Records : vdb[p, r] = "none"
    BY DEF Init
  <2> QED
    BY <2>1, JobTypesStart, DocTypesStart DEF Init, SearchInv, Stored
<1>2. Inv /\ [Next]_vars => Inv'
  BY JobTypesStep, DocTypesStep, SearchStep
<1>3. Inv => SearchFindsActive
  <2> SUFFICES ASSUME JobTypes, DocTypes, SearchInv, NEW p \in Places, Quiet(p),
                      budget.restarts = 0,
                      \A j \in Jobs : pc[j] \notin {"cancelled", "dead_lettered"},
                      NEW r \in Records, Found(p, r), r[2] \notin Chunked
               PROVE  ActiveAt(p, r)
    BY DEF SearchFindsActive
  <2> SUFFICES ASSUME vdb[p, r] \in {"partial", "active"}, docs[r].place # p
               PROVE  FALSE
    BY DEF Found
  <2>1. Undisturbed(p, r)
    BY DEF Undisturbed, GivenUp, JobTypes, Requests
  <2>2. \A j \in Jobs : ~ Coming(j, r)
    BY <2>1 DEF Undisturbed, Coming, Quiet, Done, Ended
  <2>3. docs[r] # NoDoc
    BY <2>1, <2>2 DEF SearchInv
  <2>4. docs[r].place \in Places
    BY <2>3 DEF DocTypes, Documents
  <2> QED
    BY <2>4
<1> QED
  BY <1>1, <1>2, <1>3, PTL DEF Spec

-----------------------------------------------------------------------------
(* The latest version.                                                       *)

\* How a step changes the document of record r.
Superseded(r) ==
  \E j \in Jobs : Supersede(j) /\ r \in Older(j) /\ docs'[r].state = "superseded"

Keeps(r) ==
  /\ docs[r] \in Documents /\ docs'[r] \in Documents
  /\ docs'[r].place = docs[r].place
  /\ docs'[r].by = docs[r].by

\* The ways in which a step treats the document of a record.
LEMMA DocEffect ==
  ASSUME JobTypes, DocTypes, [Next]_vars, NEW r \in Records, ~ Restart
  PROVE  \/ docs'[r] = docs[r]
         \/ Superseded(r) /\ Keeps(r)
         \/ \E j \in Jobs : Insert(j) /\ r = req[j].record /\ docs'[r] = NewDoc(j)
         \/ \E j \in Jobs : Rollback(j) /\ r = req[j].record
         \/ /\ \E j \in Jobs : Restores(j, r)
            /\ docs'[r].state = "active" /\ Keeps(r)
         \/ docs'[r].state = "deleted" /\ Keeps(r)
<1> SUFFICES ASSUME docs'[r] # docs[r],
                    ~ \E j \in Jobs : Rollback(j) /\ r = req[j].record
             PROVE  \/ Superseded(r) /\ Keeps(r)
                    \/ \E j \in Jobs : Insert(j) /\ r = req[j].record /\ docs'[r] = NewDoc(j)
                    \/ /\ \E j \in Jobs : Restores(j, r)
                       /\ docs'[r].state = "active" /\ Keeps(r)
                    \/ docs'[r].state = "deleted" /\ Keeps(r)
  OBVIOUS
<1>1. CASE \E j \in Jobs : Insert(j) /\ r = req[j].record /\ docs'[r] = NewDoc(j)
  BY <1>1
<1>2. CASE ~ \E j \in Jobs : Insert(j) /\ r = req[j].record /\ docs'[r] = NewDoc(j)
  <2>1. docs'[r] # NoDoc
    BY GoneStep
  <2>2. Keeps(r)
    BY <1>2, <2>1, DocumentStep DEF Changed, Keeps
  <2>3. CASE docs'[r].state = "active"
    <3>1. ~ \E j \in Jobs : Insert(j) /\ r = req[j].record
      BY <1>2 DEF Insert, DocTypes
    <3> QED
      BY <2>2, <2>3, <3>1, DocumentStep DEF Activates, Restores
  <2>4. CASE docs'[r].state = "deleted"
    BY <2>2, <2>4
  <2>5. CASE docs'[r].state = "superseded"
    <3>1. PICK j \in Jobs : Supersede(j)
      <4>1. ~ \E d \in deleting : DeleteVdb(d) \/ DeleteMark(d)
        BY <2>2, <2>5 DEF DeleteVdb, DeleteMark, Documents, Keeps
      <4>2. ~ \E j \in Jobs : Rollback(j)
        BY <2>2, <2>5 DEF Rollback, Restored, Documents, Keeps
      <4>3. ~ \E j \in Jobs : Insert(j)
        BY <1>2 DEF Insert, DocTypes
      <4> QED
        BY <4>1, <4>2, <4>3 DEF Next, JobStep, vars, IngestText, Submit, StoreKey, JobCancel,
           Acquire, AbortCancelled, AbortFailed, Upsert, Persist, Finish, Delete
    <3>2. r \in Older(j)
      BY <3>1 DEF Supersede
    <3> QED
      BY <2>2, <2>5, <3>1, <3>2 DEF Superseded
  <2>6. docs'[r].state \in {"active", "superseded", "deleted"}
    BY <2>2 DEF Keeps, Documents
  <2> QED
    BY <2>3, <2>4, <2>5, <2>6
<1> QED
  BY <1>1, <1>2

\* The sources that LineageHasLatest speaks of.
Orderly(s) ==
  \A j \in Jobs : pc[j] # "new" /\ req[j].record[1] = s =>
    j \notin stranded /\ OnlyOne(j)

\* A handler at place p has record r in its snapshots.
Snapped(p, r) ==
  \E j \in Jobs : req[j].place = p /\ \E t \in snap[j] : t.record = r

\* Superseded, and no rollback can undo it.
Outdated(p, s, r) ==
  /\ r[1] = s /\ docs[r].place = p /\ docs[r].state = "superseded"
  /\ ~ Snapped(p, r)

\* The latest version or one that would be after a rollback, of a job that is
\* done and so cannot take it back.
Settled(p, s, r) ==
  /\ r[1] = s /\ docs[r].place = p
  /\ pc[docs[r].by[1]] \in Done
  /\ docs[r].state \in {"active", "deleted"} \/ Snapped(p, r)

\* A rollback would find what the handler superseded; what the handler stored
\* is not superseded before it returns; an outdated version has a settled one.
LatestInv ==
  /\ \A j \in Jobs : Orderly(req[j].record[1]) =>
       \A t \in snap[j] : docs[t.record].by = t.by
  /\ \A j \in Jobs :
       pc[j] \in {"upsert", "persisted"} /\ Orderly(req[j].record[1]) =>
         /\ docs[req[j].record].by[1] = j
         /\ docs[req[j].record].state \in {"active", "deleted"}
  /\ \A p \in Places, s \in Sources :
       Orderly(s) /\ (\E r \in Records : Outdated(p, s, r)) =>
         \E r \in Records : Settled(p, s, r)

\* A job that leaves what it superseded superseded is remembered, and snapshots
\* are dropped by such a job, or by one that returns or rolls back.
LEMMA SnapshotKept ==
  ASSUME JobTypes, DocTypes, [Next]_vars
  PROVE  /\ stranded \subseteq stranded'
         /\ \A j \in Jobs : snap[j] # {} =>
              \/ snap'[j] = snap[j]
              \/ Finish(j) \/ Rollback(j) \/ j \in stranded' \/ Restart
<1>0. /\ snap \in [Jobs -> SUBSET Snapshots]
      /\ \A j \in Jobs : snap[j] # {} => pc[j] \in {"superseded", "upsert", "persisted"}
  BY DEF DocTypes
<1>1. CASE snap' = snap /\ stranded' = stranded
  BY <1>1
<1>2. CASE \E j \in Jobs : JobStep(j)
  <2> PICK j \in Jobs : JobStep(j)
    BY <1>2
  <2>1. CASE Acquire(j) \/ Insert(j) \/ Upsert(j) \/ Persist(j)
    BY <1>1, <2>1 DEF Acquire, Insert, Upsert, Persist
  <2>2. CASE Supersede(j)
    BY <1>0, <2>2 DEF Supersede
  <2>3. CASE AbortCancelled(j) \/ AbortFailed(j)
    BY <1>0, <2>3 DEF AbortCancelled, AbortFailed, Leave, Strand
  <2>4. CASE Rollback(j)
    BY <1>0, <2>4 DEF Rollback, Leave
  <2>5. CASE Finish(j)
    BY <1>0, <2>5 DEF Finish, Leave
  <2> QED
    BY <2>1, <2>2, <2>3, <2>4, <2>5 DEF JobStep
<1>3. CASE \E d \in deleting : DeleteVdb(d) \/ DeleteMark(d)
  <2>1. UNCHANGED jobVars
    BY <1>3 DEF DeleteVdb, DeleteMark
  <2> QED
    BY <1>1, <2>1 DEF jobVars
<1>4. CASE \/ \E c \in Clients, p \in Places, r \in Records : IngestText(c, p, r)
           \/ \E c \in Clients, i \in Jobs : Submit(c, i)
           \/ \E c \in Clients : StoreKey(c)
           \/ \E i \in Jobs : JobCancel(i)
           \/ \E p \in Places, k \in {"id", "filter"}, r \in Records : Delete(p, k, r)
           \/ UNCHANGED vars
  BY <1>1, <1>4 DEF IngestText, Submit, StoreKey, JobCancel, Delete, vars, jobVars
<1>5. CASE Restart
  BY <1>5 DEF Restart
<1> QED
  BY <1>2, <1>3, <1>4, <1>5 DEF Next

\* A job that is done stays as it is.
LEMMA DoneStep ==
  ASSUME JobTypes, [Next]_vars, NEW j \in Jobs, pc[j] \in Done
  PROVE  pc'[j] = pc[j]
<1> USE DEF JobTypes, Done
<1>1. CASE pc' = pc
  BY <1>1
<1>2. CASE \E i \in Jobs : JobStep(i)
  <2> PICK i \in Jobs : JobStep(i)
    BY <1>2
  <2>1. i # j
    BY DEF JobStep, Acquire, Supersede, AbortCancelled, AbortFailed, Insert,
       Upsert, Rollback, Persist, Finish
  <2>2. pc' = pc \/ \E label : pc' = [pc EXCEPT ![i] = label]
    BY DEF JobStep, Acquire, Supersede, AbortCancelled, AbortFailed, Insert,
       Upsert, Rollback, Persist, Finish, Leave
  <2> QED
    BY <2>1, <2>2
<1>3. CASE \E c \in Clients, i \in Jobs : Submit(c, i)
  BY <1>3 DEF Submit
<1>4. CASE \E d \in deleting : DeleteVdb(d) \/ DeleteMark(d)
  <2>1. UNCHANGED jobVars
    BY <1>4 DEF DeleteVdb, DeleteMark
  <2> QED
    BY <1>1, <2>1 DEF jobVars
<1>5. CASE \/ \E c \in Clients, p \in Places, r \in Records : IngestText(c, p, r)
           \/ \E c \in Clients : StoreKey(c)
           \/ \E i \in Jobs : JobCancel(i)
           \/ \E p \in Places, k \in {"id", "filter"}, r \in Records : Delete(p, k, r)
           \/ UNCHANGED vars
  BY <1>1, <1>5 DEF IngestText, StoreKey, JobCancel, Delete, vars, jobVars
<1>6. CASE Restart
  BY <1>6 DEF Restart
<1> QED
  BY <1>2, <1>3, <1>4, <1>5, <1>6 DEF Next

\* A source that is orderly after a step was so before.
LEMMA OrderlyStep ==
  ASSUME JobTypes, DocTypes, [Next]_vars, NEW s, Orderly(s)'
  PROVE  Orderly(s)
<1> SUFFICES ASSUME NEW j \in Jobs, pc[j] # "new", req[j].record[1] = s
             PROVE  j \notin stranded /\ OnlyOne(j)
  BY DEF Orderly
<1>1. pc'[j] # "new" /\ req'[j] = req[j]
  BY RequestStays
<1>2. j \notin stranded' /\ OnlyOne(j)'
  BY <1>1 DEF Orderly
<1>3. j \notin stranded
  BY <1>2, SnapshotKept
<1>4. OnlyOne(j)
  BY <1>1, <1>2, RequestStays DEF OnlyOne
<1> QED
  BY <1>3, <1>4

\* Of two jobs of an orderly source with one record, there is one.
LEMMA OrderlyOne ==
  ASSUME NEW s, Orderly(s), NEW i \in Jobs, NEW j \in Jobs,
         pc[i] # "new", pc[j] # "new", req[j].record[1] = s,
         req[i].record = req[j].record
  PROVE  i = j
  BY DEF Orderly, OnlyOne

\* A snapshot matches its document as long as no other job has the record.
LEMMA SnapshotMatches ==
  ASSUME Permits = 1, PermitsInv, DocTypes, LatestInv, [Next]_vars,
         NEW j \in Jobs, Orderly(req[j].record[1])', req'[j] = req[j],
         NEW t \in snap'[j]
  PROVE  docs'[t.record].by = t.by
<1>0. JobTypes /\ t.record \in Records /\ t.by \in Attempts
  BY SnapshotStep DEF PermitsInv, Snapshots
<1>1. CASE Supersede(j) /\ snap'[j] = {[record |-> r, by |-> docs[r].by] : r \in Older(j)}
  <2>1. PICK r \in Older(j) : t = [record |-> r, by |-> docs[r].by]
    BY <1>1
  <2>2. docs'[r] = [docs[r] EXCEPT !.state = "superseded"]
    BY <1>1 DEF Supersede, Older, Versions
  <2>3. docs[r] \in Documents
    BY NoDocument DEF DocTypes, Older, Versions, ActiveAt
  <2> QED
    BY <2>1, <2>2, <2>3 DEF Documents
<1>2. CASE snap'[j] = snap[j]
  <2>1. t \in snap[j] /\ pc[j] \in {"superseded", "upsert", "persisted"}
    BY <1>2 DEF DocTypes
  <2>2. PICK s : s = req[j].record[1]
    OBVIOUS
  <2>3. Orderly(s)
    BY <1>0, <2>2, OrderlyStep
  <2>4. docs[t.record].by = t.by
    BY <2>1, <2>2, <2>3 DEF LatestInv
  <2>5. docs[t.record] # NoDoc
    BY <1>0, <2>4, NoDocument
  <2>6. ~ Restart
    BY <2>1 DEF Restart, Done
  <2>7. ASSUME NEW i \in Jobs, Insert(i) \/ Rollback(i), t.record = req[i].record
        PROVE  FALSE
    <3>1. pc[i] \in Inner /\ pc[j] \in Inner
      BY <2>1, <2>7 DEF Insert, Rollback, Inner
    <3>2. t.by[1] \in Jobs /\ pc[t.by[1]] # "new" /\ req[t.by[1]].place = req[j].place
      BY <1>0, <2>1 DEF DocTypes, Attempts
    <3>3. req[t.by[1]].record = t.record
      BY <1>0, <2>4, <2>5 DEF DocTypes
    <3>4. t.record[1] = s /\ t.record # req[j].record
      BY <2>1, <2>2 DEF DocTypes
    <3>5. i = t.by[1]
      BY <2>3, <2>7, <3>1, <3>2, <3>3, <3>4, OrderlyOne DEF Inner
    <3>6. i = j
      BY <3>1, <3>2, <3>5, HandlersExclude
    <3> QED
      BY <2>7, <3>4, <3>6
  <2>8. docs'[t.record] = docs[t.record] \/ Keeps(t.record)
    BY <1>0, <2>6, <2>7, DocEffect
  <2> QED
    BY <2>4, <2>8 DEF Keeps
<1> QED
  BY <1>0, <1>1, <1>2, SnapshotStep

\* No other handler supersedes what a handler has just stored.
LEMMA StoredMatches ==
  ASSUME Permits = 1, PermitsInv, DocTypes, LatestInv, [Next]_vars,
         NEW j \in Jobs, pc'[j] \in {"upsert", "persisted"},
         Orderly(req[j].record[1])', req'[j] = req[j]
  PROVE  /\ docs'[req[j].record].by[1] = j
         /\ docs'[req[j].record].state \in {"active", "deleted"}
<1> DEFINE r == req[j].record
<1>0. JobTypes /\ docs \in [Records -> {NoDoc} \cup Documents]
  BY DEF PermitsInv, DocTypes
<1>1. (pc[j] \in Stored \/ Insert(j)) /\ ~ Rollback(j)
  BY <1>0, StoredStep DEF Stored
<1>2. pc[j] # "new" /\ r \in Records
  BY <1>0, <1>1 DEF Stored, Insert, JobTypes, Requests
<1>3. CASE Insert(j)
  BY <1>0, <1>2, <1>3 DEF Insert, NewDoc
<1>4. CASE ~ Insert(j)
  <2>1. pc[j] \in {"upsert", "persisted"}
    BY <1>0, <1>1, <1>4, DoneStep DEF Stored, Done
  <2>2. PICK s : s = r[1]
    OBVIOUS
  <2>3. Orderly(s)
    BY <1>0, <2>2, OrderlyStep
  <2>4. docs[r].by[1] = j /\ docs[r].state \in {"active", "deleted"}
    BY <2>1, <2>2, <2>3 DEF LatestInv
  <2>5. ~ Restart
    BY <2>1 DEF Restart, Done
  <2>6. ASSUME NEW i \in Jobs, Insert(i) \/ Rollback(i), r = req[i].record
        PROVE  FALSE
    <3>1. pc[i] # "new"
      BY <2>6 DEF Insert, Rollback
    <3>2. i = j
      BY <1>2, <2>2, <2>3, <2>6, <3>1, OrderlyOne
    <3> QED
      BY <1>1, <1>4, <2>6, <3>2
  <2>7. ~ Superseded(r)
    <3> SUFFICES ASSUME NEW i \in Jobs, Supersede(i), r \in Older(i) PROVE FALSE
      BY DEF Superseded
    <3>1. docs[r] # NoDoc /\ docs[r].place = req[i].place
      BY NoDocument DEF Older, Versions, ActiveAt
    <3>2. req[j].place = req[i].place
      BY <1>2, <2>4, <3>1 DEF DocTypes
    <3>3. pc[i] \in Inner /\ pc[j] \in Inner /\ pc[i] # pc[j]
      BY <2>1 DEF Supersede, Inner
    <3> QED
      BY <3>2, <3>3, HandlersExclude
  <2>8. \/ docs'[r] = docs[r]
        \/ docs'[r].by = docs[r].by /\ docs'[r].state \in {"active", "deleted"}
    BY <1>0, <1>2, <2>5, <2>6, <2>7, DocEffect DEF Keeps
  <2> QED
    BY <2>4, <2>8
<1> QED
  BY <1>3, <1>4

\* An outdated version was so before, or its job leaves a settled one; and who
\* is settled stays settled.
LEMMA SettledStep ==
  ASSUME Permits = 1, PermitsInv, DocTypes, LatestInv, [Next]_vars,
         NEW p \in Places, NEW s \in Sources, Orderly(s)',
         NEW r \in Records, Outdated(p, s, r)'
  PROVE  \E q \in Records : Settled(p, s, q)'
<1>0. JobTypes /\ Orderly(s)
  BY OrderlyStep DEF PermitsInv
<1>1. docs'[r].state = "superseded" /\ docs'[r].place = p /\ r[1] = s
      /\ ~ Snapped(p, r)' /\ ~ Restart
  <2>1. ~ Restart
    BY DEF Outdated, Restart, NoDoc
  <2> QED
    BY <2>1 DEF Outdated
<1>2. CASE \E j \in Jobs : Finish(j) /\ req[j].place = p /\ req[j].record[1] = s
  <2> PICK j \in Jobs : Finish(j) /\ req[j].place = p /\ req[j].record[1] = s
    BY <1>2
  <2>0. req[j].record \in Records
    BY <1>0 DEF Finish, JobTypes, Inner, Requests
  <2> PICK q \in Records : q = req[j].record
    BY <2>0
  <2>1. pc[j] = "persisted" /\ docs' = docs /\ pc'[j] \in Done
    BY <1>0 DEF Finish, Leave, Done, JobTypes, Inner
  <2>2. docs[q].by[1] = j /\ docs[q].state \in {"active", "deleted"}
    BY <1>0, <2>1 DEF LatestInv
  <2>3. docs[q] # NoDoc
    BY <2>2, NoDocument
  <2>4. docs[q].place = p
    BY <2>1, <2>2, <2>3 DEF DocTypes
  <2>5. Settled(p, s, q)'
    BY <2>1, <2>2, <2>4 DEF Settled
  <2> QED
    BY <2>1, <2>5
<1>3. CASE ~ \E j \in Jobs : Finish(j) /\ req[j].place = p /\ req[j].record[1] = s
  <2>1. ASSUME NEW q \in Records, q[1] = s, Snapped(p, q), docs'[q].state # "active"
        PROVE  Snapped(p, q)'
    <3>0. PICK j \in Jobs : req[j].place = p /\ \E t \in snap[j] : t.record = q
      BY <2>1 DEF Snapped
    <3>1. PICK t \in snap[j] : req[j].place = p /\ t.record = q
      BY <3>0
    <3>2. pc[j] \in {"superseded", "upsert", "persisted"} /\ req[j].record[1] = s
          /\ q # req[j].record
      BY <2>1, <3>1 DEF DocTypes
    <3>3. req'[j] = req[j] /\ pc'[j] # "new"
      BY <1>0, <3>2, RequestStays
    <3>4. ~ Rollback(j)
      <4> SUFFICES ASSUME Rollback(j) PROVE FALSE
        OBVIOUS
      <4>1. docs[q].by = t.by
        BY <1>0, <3>1, <3>2 DEF LatestInv
      <4>2. docs'[q] = [docs[q] EXCEPT !.state = "active"]
        BY <3>1, <3>2, <4>1 DEF Rollback, Restored
      <4>3. docs[q] \in Documents
        BY <3>1, <4>1, NoDocument DEF DocTypes, Snapshots
      <4> QED
        BY <2>1, <4>2, <4>3 DEF Documents
    <3>5. j \notin stranded'
      BY <3>2, <3>3 DEF Orderly
    <3>6. snap'[j] = snap[j]
      BY <1>0, <1>1, <1>3, <3>1, <3>2, <3>4, <3>5, SnapshotKept
    <3> QED
      BY <3>1, <3>3, <3>6 DEF Snapped
  <2>2. ASSUME NEW q \in Records, Superseded(q), docs[q].place = p
        PROVE  Snapped(p, q)'
    <3>1. PICK j \in Jobs : Supersede(j) /\ q \in Older(j)
      BY <2>2 DEF Superseded
    <3>2. req[j].place = p
      BY <2>2, <3>1 DEF Older, Versions, ActiveAt
    <3>3. req'[j] = req[j]
      BY <3>1 DEF Supersede
    <3>4. snap'[j] = {[record |-> x, by |-> docs[x].by] : x \in Older(j)}
      BY <3>1 DEF Supersede, DocTypes
    <3>5. \E t \in snap'[j] : t.record = q
      <4>1. [record |-> q, by |-> docs[q].by] \in snap'[j]
        BY <3>1, <3>4
      <4> QED
        BY <4>1
    <3> QED
      BY <3>2, <3>3, <3>5 DEF Snapped
  <2>3. Outdated(p, s, r)
    <3>1. ~ \E j \in Jobs : Insert(j) /\ r = req[j].record /\ docs'[r] = NewDoc(j)
      <4>1. \A j \in Jobs : NewDoc(j).state = "active"
        BY DEF NewDoc
      <4> QED
        BY <1>1, <4>1
    <3>2. ~ \E j \in Jobs : Rollback(j) /\ r = req[j].record
      BY <1>1, NoDocument DEF Rollback, Restored
    <3>3. ~ (Superseded(r) /\ Keeps(r))
      BY <1>1, <2>2 DEF Keeps
    <3>4. docs'[r] = docs[r]
      BY <1>0, <1>1, <3>1, <3>2, <3>3, DocEffect
    <3> QED
      BY <1>1, <2>1, <3>4 DEF Outdated
  <2>4. PICK q \in Records : Settled(p, s, q)
    BY <1>0, <2>3 DEF LatestInv
  <2>5. q[1] = s /\ docs[q].place = p /\ pc[docs[q].by[1]] \in Done
        /\ (docs[q].state \in {"active", "deleted"} \/ Snapped(p, q))
    BY <2>4 DEF Settled
  <2>6. docs[q] \in Documents /\ docs[q].by[1] \in Jobs /\ req[docs[q].by[1]].record = q
    <3>1. docs[q] # NoDoc
      BY <2>5, NoDocument
    <3> QED
      BY <3>1 DEF DocTypes, Documents, Attempts
  <2>7. pc'[docs[q].by[1]] \in Done
    BY <1>0, <2>5, <2>6, DoneStep
  <2>8. ASSUME NEW j \in Jobs, Insert(j) \/ Rollback(j), q = req[j].record
        PROVE  FALSE
    <3>1. pc[j] \in Inner
      BY <2>8 DEF Insert, Rollback, Inner
    <3>2. docs[q].by[1] = j
      BY <1>0, <2>5, <2>6, <2>8, <3>1, OrderlyOne DEF Inner, Done
    <3> QED
      BY <2>5, <3>1, <3>2 DEF Inner, Done
  <2>9. CASE docs'[q] = docs[q]
    BY <2>1, <2>5, <2>7, <2>9 DEF Settled
  <2>10. CASE Superseded(q) /\ Keeps(q)
    BY <2>2, <2>5, <2>7, <2>10 DEF Settled, Keeps
  <2>11. CASE docs'[q].state \in {"active", "deleted"} /\ Keeps(q)
    BY <2>5, <2>7, <2>11 DEF Settled, Keeps
  <2> QED
    BY <1>0, <1>1, <2>8, <2>9, <2>10, <2>11, DocEffect
<1> QED
  BY <1>2, <1>3

\* Every step leaves a superseded source with a version or a job to give it one.
LEMMA LatestStep ==
  ASSUME Permits = 1
  PROVE  PermitsInv /\ DocTypes /\ LatestInv /\ [Next]_vars => LatestInv'
<1> SUFFICES ASSUME PermitsInv, DocTypes, LatestInv, [Next]_vars PROVE LatestInv'
  OBVIOUS
<1>0. JobTypes
  BY DEF PermitsInv
<1>1. ASSUME NEW j \in Jobs, Orderly(req[j].record[1])', NEW t \in snap'[j]
      PROVE  docs'[t.record].by = t.by
  <2>1. pc[j] # "new"
    BY <1>0, <1>1, SnapshotStep DEF DocTypes, Supersede
  <2> QED
    BY <1>0, <1>1, <2>1, RequestStays, SnapshotMatches
<1>2. ASSUME NEW j \in Jobs, pc'[j] \in {"upsert", "persisted"},
             Orderly(req[j].record[1])'
      PROVE  /\ docs'[req'[j].record].by[1] = j
             /\ docs'[req'[j].record].state \in {"active", "deleted"}
  <2>1. pc[j] # "new"
    BY <1>0, <1>2, StoredStep DEF Stored, Insert
  <2>2. req'[j] = req[j]
    BY <1>0, <2>1, RequestStays
  <2> QED
    BY <1>2, <2>2, StoredMatches
<1> QED
  BY <1>1, <1>2, SettledStep DEF LatestInv

\* At the start there is nothing to be the latest of.
LEMMA LatestStart == Init => LatestInv
  BY DEF Init, LatestInv, Outdated, NoDoc

\* With one permit per profile, a source with a superseded version has an
\* active or a deleted one whenever nothing is in flight, whatever failed and
\* was rolled back.  Excepted are the sources that LineageHasLatest excepts.
THEOREM LineagesHaveLatest ==
  ASSUME Permits = 1
  PROVE  Spec => []LineageHasLatest
<1> DEFINE Inv == PermitsInv /\ DocTypes /\ LatestInv
<1>1. Init => Inv
  BY PermitsStart, DocTypesStart, LatestStart
<1>2. Inv /\ [Next]_vars => Inv'
  BY PermitsStep, DocTypesStep, LatestStep DEF PermitsInv
<1>3. Inv => LineageHasLatest
  <2> SUFFICES ASSUME PermitsInv, DocTypes, LatestInv,
                      NEW p \in Places, NEW s \in Sources, Quiet(p),
                      \A j \in Jobs : req[j].record[1] = s => j \notin stranded /\ Alone(j)
               PROVE  HasLatest(p, s)
    BY DEF LineageHasLatest
  <2>1. Orderly(s)
    BY DEF Orderly, Alone, OnlyOne
  <2>2. \A r : ~ Snapped(p, r)
    BY DEF Snapped, Quiet, Done, Ended, DocTypes
  <2>3. ASSUME NEW r \in Records, r[1] = s, docs[r].place = p,
               docs[r].state = "superseded"
        PROVE  \E q \in Records : Settled(p, s, q)
    <3>1. Outdated(p, s, r)
      BY <2>2, <2>3 DEF Outdated
    <3> QED
      BY <2>1, <3>1 DEF LatestInv
  <2> QED
    BY <2>2, <2>3 DEF HasLatest, Settled
<1> QED
  BY <1>1, <1>2, <1>3, PTL DEF Spec

=============================================================================
