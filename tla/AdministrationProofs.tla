------------------------ MODULE AdministrationProofs ------------------------
(***************************************************************************)
(* Theorems about a server process under administration, for any users,    *)
(* groups, keys, collections and request threads, any seed file, and any   *)
(* number of requests and restarts; and about what decides on a call of a  *)
(* tool, a route or a skill in every state it reaches (Access).            *)
(***************************************************************************)
EXTENDS Access, TLAPS

-----------------------------------------------------------------------------
(* Access lists.                                                             *)

RoleLists == {Missing, Everyone} \cup AccessLists \cup SUBSET Roles

\* What a thread that has something to write holds.
Calls ==
  [call : {"create", "guard", "guarded"}, k : Collections, roles : RoleLists \ {{}, Missing}]
    \cup [call : {"listing", "ensuring"}, k : Collections, roles : RoleLists,
          current : BOOLEAN]
    \cup [call : {"delete", "unlisted"}, k : Collections]

\* What the first write of a thread has left for the second to complete.
Halfway(c, k) ==
  /\ Listing(c, k) => records[k] = at[c].roles /\ at[c].roles # {}
  /\ at[c].call = "unlisted" /\ at[c].k = k => acl[k] = Missing
  /\ at[c].call = "guarded" /\ at[c].k = k => acl[k] = at[c].roles

\* One thread at most is between two writes, and where none is the tables agree.
Orderly(k) ==
  /\ \A c, d \in Requests : Between(c, k) /\ Between(d, k) => c = d
  /\ \A c \in Requests : Halfway(c, k)
  /\ (\A c \in Requests : ~Between(c, k)) => records[k] = acl[k] /\ acl[k] # {}

CatalogueTypes ==
  /\ records \in [Collections -> RoleLists]
  /\ acl \in [Collections -> RoleLists]
  /\ at \in [Requests -> {Idle} \cup Calls]

CatalogueInv == CatalogueTypes /\ \A k \in Collections \ apart : Orderly(k)

\* No access list that is kept is mistaken for a missing or an empty one.
LEMMA EmptyList ==
  /\ {} # Missing /\ {} \in RoleLists /\ Missing \in RoleLists
  /\ Everyone \in RoleLists \ {{}, Missing}
  /\ \A R \in AccessLists \ {{}} : R \in RoleLists \ {{}, Missing}
  /\ \A R \in SUBSET Roles : R # {} => R \in RoleLists \ {{}, Missing}
<1>1. Everyone # {} /\ Everyone # Missing
  BY AdministrationAssumption DEF Everyone
<1> QED
  BY <1>1, CatalogueAssumption, AdministrationAssumption DEF RoleLists

\* A step of thread c that writes to the tables of k at most.
Touches(c, k) ==
  /\ \A j \in Collections \ {k} :
       /\ records'[j] = records[j] /\ acl'[j] = acl[j] /\ (j \in apart' <=> j \in apart)
       /\ ~Between(c, j) /\ ~Between(c, j)'
  /\ \A d \in Requests \ {c} : at'[d] = at[d] \/ (Listing(d, k) /\ Listing(d, k)')
  /\ k \in apart' \/ \A d \in Requests \ {c} : ~Between(d, k)

\* If nobody else is between writes to k, what counts is what c leaves.
LEMMA TouchesKeepsOrder ==
  ASSUME CatalogueInv, NEW c \in Requests, NEW k \in Collections, Touches(c, k),
         CatalogueTypes',
         k \in apart' \/ /\ Halfway(c, k)'
                         /\ ~Between(c, k)' => records'[k] = acl'[k] /\ acl'[k] # {}
  PROVE  CatalogueInv'
<1>1. ASSUME NEW j \in Collections \ apart', j # k PROVE Orderly(j)'
  <2>1. Orderly(j)
    BY <1>1 DEF CatalogueInv, Touches
  <2>2. ASSUME NEW d \in Requests
        PROVE  /\ Between(d, j)' <=> Between(d, j)
               /\ Halfway(d, j)'
    <3>1. CASE d = c
      BY <1>1, <3>1 DEF Touches, Halfway, Between
    <3>2. CASE d # c /\ at'[d] = at[d]
      BY <1>1, <2>1, <3>2 DEF Touches, Orderly, Halfway, Between, Listing
    <3>3. CASE Listing(d, k) /\ Listing(d, k)'
      BY <1>1, <3>3 DEF Halfway, Between, Listing
    <3> QED
      BY <3>1, <3>2, <3>3 DEF Touches
  <2> QED
    BY <1>1, <2>1, <2>2 DEF Orderly, Touches
<1>2. ASSUME k \notin apart' PROVE Orderly(k)'
  <2>1. ASSUME NEW d \in Requests \ {c} PROVE ~Between(d, k)'
    BY <1>2, <2>1 DEF Touches, Between, Listing
  <2>2. ASSUME NEW d \in Requests \ {c} PROVE Halfway(d, k)'
    BY <2>1, <2>2 DEF Halfway, Between
  <2> QED
    BY <1>2, <2>1, <2>2 DEF Orderly
<1> QED
  BY <1>1, <1>2 DEF CatalogueInv

\* Between two writes, a thread is in one of these calls.
LEMMA CallKinds ==
  ASSUME CatalogueTypes, NEW c \in Requests
  PROVE  /\ at[c].call \in {"idle", "create", "guard", "guarded", "listing", "ensuring",
                            "delete", "unlisted"}
         /\ at[c].call # "idle" => at[c].k \in Collections
         /\ at[c].call \in {"create", "guard", "guarded"} =>
              at[c].roles \in RoleLists \ {{}, Missing}
         /\ at[c].call \in {"listing", "ensuring"} =>
              at[c].roles \in RoleLists /\ at[c].current \in BOOLEAN
<1>1. CASE at[c] = Idle
  BY <1>1 DEF Idle
<1>2. CASE at[c] \in Calls
  BY <1>2 DEF Calls
<1> QED
  BY <1>1, <1>2 DEF CatalogueTypes

\* A thread that lists keeps its place when its record is replaced or changed.
LEMMA ListingCopies ==
  ASSUME CatalogueTypes, NEW d \in Requests, NEW k, Listing(d, k), NEW R \in RoleLists
  PROVE  /\ LET a == [at[d] EXCEPT !.current = FALSE]
            IN a \in Calls /\ a.call = at[d].call /\ a.k = at[d].k
         /\ LET a == [at[d] EXCEPT !.roles = R]
            IN a \in Calls /\ a.call = at[d].call /\ a.k = at[d].k
<1>1. at[d] \in [call : {"listing", "ensuring"}, k : Collections, roles : RoleLists,
                 current : BOOLEAN]
  BY DEF CatalogueTypes, Listing, Idle, Calls
<1> QED
  BY <1>1 DEF Calls

\* What putting or changing a record does.
LEMMA RecordWritten ==
  ASSUME CatalogueTypes, NEW c \in Requests, NEW k \in Collections, NEW R \in RoleLists,
         NEW next \in {Idle} \cup Calls, PutRecord(c, k, R, next) \/ AssignRoles(c, k, R, next)
  PROVE  /\ records' = [records EXCEPT ![k] = R]
         /\ records' \in [Collections -> RoleLists]
         /\ at' \in [Requests -> {Idle} \cup Calls]
         /\ at'[c] = next
         /\ \A d \in Requests \ {c} : at'[d] = at[d] \/ (Listing(d, k) /\ Listing(d, k)')
<1>1. records' = [records EXCEPT ![k] = R] /\ records' \in [Collections -> RoleLists]
  BY DEF CatalogueTypes, PutRecord, AssignRoles
<1>2. at'[c] = next
  BY DEF PutRecord, AssignRoles
<1>3. DOMAIN at' = Requests /\ at' = [d \in Requests |-> at'[d]]
  BY DEF PutRecord, AssignRoles
<1>4. ASSUME NEW d \in Requests \ {c}
      PROVE  /\ at'[d] = at[d] \/ (Listing(d, k) /\ Listing(d, k)')
             /\ at'[d] \in {Idle} \cup Calls
  <2>1. CASE at'[d] = at[d]
    BY <2>1 DEF CatalogueTypes
  <2>2. CASE Listing(d, k) /\ at'[d] = [at[d] EXCEPT !.current = FALSE]
    BY <2>2, ListingCopies DEF Listing
  <2>3. CASE Listing(d, k) /\ at'[d] = [at[d] EXCEPT !.roles = R]
    BY <2>3, ListingCopies DEF Listing
  <2> QED
    BY <1>4, <2>1, <2>2, <2>3 DEF PutRecord, AssignRoles
<1> QED
  BY <1>1, <1>2, <1>3, <1>4

\* A write that knows of the others, and of a record or a list of k alone.
LEMMA Touching ==
  ASSUME CatalogueTypes, NEW c \in Requests, NEW k \in Collections,
         FirstWrite(c, k) \/ LaterWrite(c, k) \/ apart' = apart \cup {k},
         \A j \in Collections \ {k} : records'[j] = records[j] /\ acl'[j] = acl[j],
         at[c] = Idle \/ at[c].k = k, at'[c] = Idle \/ at'[c].k = k,
         \A d \in Requests \ {c} : at'[d] = at[d] \/ (Listing(d, k) /\ Listing(d, k)')
  PROVE  Touches(c, k)
<1>1. \A j \in Collections \ {k} : j \in apart' <=> j \in apart
  BY DEF FirstWrite, LaterWrite
<1>2. \A j \in Collections \ {k} : ~Between(c, j) /\ ~Between(c, j)'
  BY DEF Between, Listing, Idle
<1>3. k \in apart' \/ \A d \in Requests \ {c} : ~Between(d, k)
  BY DEF FirstWrite, LaterWrite
<1> QED
  BY <1>1, <1>2, <1>3 DEF Touches

\* A call that only begins writes nothing.
LEMMA BeginStep ==
  ASSUME CatalogueInv, NEW c \in Requests, NEW call \in Calls, Begin(c, call),
         call.call \in {"create", "guard", "delete"},
         UNCHANGED <<records, acl, apart>>
  PROVE  CatalogueInv'
<1>1. CatalogueTypes'
  BY DEF CatalogueInv, CatalogueTypes, Begin
<1>2. \A d \in Requests, j \in Collections :
        (Between(d, j)' <=> Between(d, j)) /\ (Halfway(d, j) => Halfway(d, j)')
  BY DEF CatalogueInv, CatalogueTypes, Begin, Between, Listing, Halfway, Idle
<1> QED
  BY <1>1, <1>2 DEF CatalogueInv, Orderly

\* A thread that puts or changes a record, and what is left after it.
LEMMA RecordStep ==
  ASSUME CatalogueInv, NEW c \in Requests, NEW k \in Collections, NEW R \in RoleLists,
         NEW next \in {Idle} \cup Calls, PutRecord(c, k, R, next) \/ AssignRoles(c, k, R, next),
         FirstWrite(c, k) \/ LaterWrite(c, k) \/ apart' = apart \cup {k},
         at[c] = Idle \/ at[c].k = k, next = Idle \/ next.k = k,
         acl' \in [Collections -> RoleLists],
         \A j \in Collections \ {k} : acl'[j] = acl[j],
         k \in apart' \/ \/ next.call \in {"listing", "ensuring"} /\ next.roles = R /\ R # {}
                         \/ next = Idle /\ R = acl'[k] /\ R # {}
  PROVE  CatalogueInv'
<1>1. CatalogueTypes
  BY DEF CatalogueInv
<1>2. /\ records' = [records EXCEPT ![k] = R]
      /\ records' \in [Collections -> RoleLists]
      /\ at' \in [Requests -> {Idle} \cup Calls]
      /\ at'[c] = next
      /\ \A d \in Requests \ {c} : at'[d] = at[d] \/ (Listing(d, k) /\ Listing(d, k)')
  BY <1>1, RecordWritten
<1>3. records'[k] = R /\ \A j \in Collections \ {k} : records'[j] = records[j]
  BY <1>1, <1>2 DEF CatalogueTypes
<1>4. Touches(c, k)
  BY <1>1, <1>2, <1>3, Touching
<1>5. CatalogueTypes'
  BY <1>2 DEF CatalogueTypes
<1>6. CASE next.call \in {"listing", "ensuring"} /\ next.roles = R /\ R # {}
  <2>1. next # Idle
    BY <1>6 DEF Idle
  <2>2. Halfway(c, k)' /\ Between(c, k)'
    BY <1>2, <1>3, <1>6, <2>1 DEF Halfway, Between, Listing
  <2> QED
    BY <1>4, <1>5, <2>2, TouchesKeepsOrder
<1>7. CASE next = Idle /\ R = acl'[k] /\ R # {}
  <2>1. Halfway(c, k)'
    BY <1>2, <1>7 DEF Halfway, Listing, Idle
  <2> QED
    BY <1>3, <1>4, <1>5, <1>7, <2>1, TouchesKeepsOrder
<1> QED
  BY <1>4, <1>5, <1>6, <1>7, TouchesKeepsOrder

\* A thread that puts or drops a list, and what is left after it.
LEMMA ListStep ==
  ASSUME CatalogueInv, NEW c \in Requests, NEW k \in Collections, NEW R \in RoleLists,
         NEW next \in {Idle} \cup Calls, PutList(k, R), at' = [at EXCEPT ![c] = next],
         FirstWrite(c, k) \/ LaterWrite(c, k), UNCHANGED records,
         at[c] = Idle \/ at[c].k = k, next = Idle \/ next.k = k,
         k \in apart' \/ \/ next.call = "unlisted" /\ R = Missing
                         \/ next.call = "guarded" /\ next.roles = R
                         \/ next.call \in {"idle", "delete"} /\ R = records[k] /\ R # {}
  PROVE  CatalogueInv'
<1>1. CatalogueTypes /\ CatalogueTypes'
  BY DEF CatalogueInv, CatalogueTypes, PutList
<1>2. acl'[k] = R /\ \A j \in Collections \ {k} : acl'[j] = acl[j]
  BY <1>1 DEF CatalogueTypes, PutList
<1>3. at'[c] = next /\ \A d \in Requests \ {c} : at'[d] = at[d]
  BY <1>1 DEF CatalogueTypes
<1>4. Touches(c, k)
  BY <1>1, <1>2, <1>3, Touching
<1>5. CASE \/ next.call = "unlisted" /\ R = Missing
           \/ next.call = "guarded" /\ next.roles = R
  <2>1. next # Idle
    BY <1>5 DEF Idle
  <2>2. Halfway(c, k)' /\ Between(c, k)'
    BY <1>2, <1>3, <1>5, <2>1 DEF Halfway, Between, Listing
  <2> QED
    BY <1>1, <1>4, <2>2, TouchesKeepsOrder
<1>6. CASE next.call \in {"idle", "delete"} /\ R = records[k] /\ R # {}
  <2>1. Halfway(c, k)'
    BY <1>3, <1>6 DEF Halfway, Listing
  <2> QED
    BY <1>1, <1>2, <1>4, <1>6, <2>1, TouchesKeepsOrder
<1>7. CASE k \in apart'
  BY <1>1, <1>4, <1>7, TouchesKeepsOrder
<1> QED
  BY <1>5, <1>6, <1>7

\* The calls that a thread is put into.
LEMMA NextCalls ==
  ASSUME NEW k \in Collections, NEW R \in RoleLists
  PROVE  /\ HasRecord("listing", k, R) \in Calls /\ HasRecord("ensuring", k, R) \in Calls
         /\ [call |-> "delete", k |-> k] \in Calls /\ [call |-> "unlisted", k |-> k] \in Calls
         /\ R \notin {{}, Missing} =>
              /\ [call |-> "create", k |-> k, roles |-> R] \in Calls
              /\ [call |-> "guard", k |-> k, roles |-> R] \in Calls
              /\ [call |-> "guarded", k |-> k, roles |-> R] \in Calls
  BY DEF Calls, HasRecord

\* A request of the catalogue that begins.
LEMMA CatalogueRequestStep ==
  ASSUME CatalogueInv, CatalogueRequest
  PROVE  CatalogueInv'
<1>1. CASE UNCHANGED <<records, acl, at, apart>>
  BY <1>1 DEF CatalogueInv, CatalogueTypes, Orderly, Halfway, Between, Listing
<1>2. ASSUME NEW k \in Collections, NEW c \in Requests, CollectionCreate(c, k)
      PROVE  CatalogueInv'
  <2>1. PICK R \in RoleLists \ {{}, Missing} : Begin(c, [call |-> "create", k |-> k, roles |-> R])
    BY <1>2, EmptyList DEF CollectionCreate
  <2> QED
    BY <1>2, <2>1, NextCalls, BeginStep DEF CollectionCreate
<1>3. ASSUME NEW k \in Collections, NEW c \in Requests, CollectionGuard(c, k)
      PROVE  CatalogueInv'
  <2>1. PICK R \in RoleLists \ {{}, Missing} : Begin(c, [call |-> "guard", k |-> k, roles |-> R])
    BY <1>3, EmptyList DEF CollectionGuard
  <2> QED
    BY <1>3, <2>1, NextCalls, BeginStep DEF CollectionGuard
<1>4. ASSUME NEW k \in Collections, NEW c \in Requests, CollectionUpdate(c, k)
      PROVE  CatalogueInv'
  <2>1. acl' = acl /\ acl' \in [Collections -> RoleLists] /\ at[c] = Idle
    BY <1>4 DEF CollectionUpdate, CatalogueInv, CatalogueTypes
  <2>2. ASSUME NEW R \in AccessLists \ {{}}, FirstWrite(c, k),
               AssignRoles(c, k, R, HasRecord("listing", k, R))
        PROVE  CatalogueInv'
    <3>1. R \in RoleLists \ {{}, Missing} /\ HasRecord("listing", k, R) \in Calls
      BY EmptyList, NextCalls
    <3>2. HasRecord("listing", k, R).call = "listing" /\ HasRecord("listing", k, R).k = k
          /\ HasRecord("listing", k, R).roles = R
      BY DEF HasRecord
    <3> QED
      BY <2>1, <2>2, <3>1, <3>2, RecordStep
  <2>3. CASE AssignRoles(c, k, {}, Idle) /\ apart' = apart \cup {k}
    BY <2>1, <2>3, EmptyList, RecordStep
  <2> QED
    BY <1>4, <2>2, <2>3 DEF CollectionUpdate
<1>5. ASSUME NEW k \in Collections, NEW c \in Requests, CollectionDelete(c, k)
      PROVE  CatalogueInv'
  <2>1. CASE /\ Begin(c, [call |-> "delete", k |-> k])
             /\ UNCHANGED <<records, apart>>
    BY <1>5, <2>1, EmptyList, NextCalls, BeginStep DEF CollectionDelete
  <2>2. CASE /\ records[k] = Missing /\ at[c] = Idle
             /\ PutRecord(c, k, Defaulted(k), HasRecord("ensuring", k, Defaulted(k)))
             /\ LaterWrite(c, k)
    <3>1. acl' = acl /\ acl' \in [Collections -> RoleLists]
      BY <1>5 DEF CollectionDelete, CatalogueInv, CatalogueTypes
    <3>2. Defaulted(k) \in RoleLists
      BY EmptyList DEF Defaulted, CatalogueInv, CatalogueTypes
    <3>3. HasRecord("ensuring", k, Defaulted(k)) \in Calls
      BY <3>2, NextCalls
    <3>4. HasRecord("ensuring", k, Defaulted(k)).call = "ensuring"
          /\ HasRecord("ensuring", k, Defaulted(k)).k = k
          /\ HasRecord("ensuring", k, Defaulted(k)).roles = Defaulted(k)
      BY DEF HasRecord
    <3>5. ASSUME k \notin apart' PROVE Defaulted(k) # {}
      <4>1. k \notin apart /\ \A d \in Requests : ~Between(d, k)
        BY <2>2, <3>5 DEF LaterWrite, Between, Listing, Idle
      <4> QED
        BY <2>2, <4>1, EmptyList DEF CatalogueInv, Orderly, Defaulted
    <3> QED
      BY <2>2, <3>1, <3>2, <3>3, <3>4, <3>5, RecordStep
  <2> QED
    BY <1>5, <2>1, <2>2 DEF CollectionDelete
<1>6. ASSUME \/ \E p \in Profiles : ProfileCreate(p) \/ ProfileDelete(p)
             \/ \E s \in Sources : SourceCreate(s) \/ SourceUpdate(s) \/ SourceDelete(s)
      PROVE  UNCHANGED <<records, acl, at, apart>>
  BY <1>6 DEF ProfileCreate, ProfileDelete, SourceCreate, SourceUpdate, SourceDelete
<1> QED
  BY <1>1, <1>2, <1>3, <1>4, <1>5, <1>6 DEF CatalogueRequest

\* Whoever is alone between the writes of k finds what it has left itself.
LEMMA AloneBetween ==
  ASSUME CatalogueInv, NEW c \in Requests, NEW k \in Collections, Between(c, k),
         LaterWrite(c, k), k \notin apart'
  PROVE  Halfway(c, k)
  BY DEF LaterWrite, CatalogueInv, Orderly

\* A thread that goes on after a call of the vector store or a write.
LEMMA CatalogueReturnStep ==
  ASSUME CatalogueInv, CatalogueReturn
  PROVE  CatalogueInv'
<1> PICK c \in Requests :
      \/ CollectionCreated(c) \/ ListWritten(c)
      \/ CollectionUnlisted(c) \/ CollectionDeleted(c)
      \/ CollectionGuarded(c) \/ GuardAssigned(c)
  BY DEF CatalogueReturn
<1> DEFINE k == at[c].k
<1>1. CatalogueTypes
  BY DEF CatalogueInv
<1>2. at[c].call # "idle"
  BY DEF CollectionCreated, ListWritten, CollectionUnlisted, CollectionDeleted,
     CollectionGuarded, GuardAssigned
<1>3. k \in Collections
  BY <1>1, <1>2, CallKinds
<1> HIDE DEF k
<1>4. acl \in [Collections -> RoleLists]
  BY <1>1 DEF CatalogueTypes
<1>5. CASE CollectionCreated(c)
  <2> DEFINE R == at[c].roles
             next == HasRecord("listing", k, R)
  <2>1. R \in RoleLists \ {{}, Missing}
    BY <1>1, <1>5, CallKinds DEF CollectionCreated
  <2>2. next \in Calls /\ next.call = "listing" /\ next.k = k /\ next.roles = R
    BY <1>3, <2>1, NextCalls DEF HasRecord
  <2>3. PutRecord(c, k, R, next) /\ FirstWrite(c, k) /\ acl' = acl
    BY <1>5 DEF CollectionCreated, k
  <2> HIDE DEF R, next
  <2> QED
    BY <1>3, <1>4, <2>1, <2>2, <2>3, RecordStep DEF k
<1>6. CASE ListWritten(c)
  <2> DEFINE R == at[c].roles
             next == IF at[c].call = "listing" THEN Idle ELSE [call |-> "delete", k |-> k]
  <2>1. R \in RoleLists /\ Between(c, k)
    BY <1>1, <1>6, CallKinds DEF ListWritten, Between, Listing, k
  <2>2. next \in {Idle} \cup Calls /\ (next = Idle \/ next.k = k)
        /\ next.call \in {"idle", "delete"}
    BY <1>3, EmptyList, NextCalls DEF Idle
  <2>3. PutList(k, R) /\ LaterWrite(c, k) /\ records' = records
        /\ at' = [at EXCEPT ![c] = next]
    BY <1>6 DEF ListWritten, k
  <2>4. k \notin apart' => R = records[k] /\ R # {}
    BY <1>3, <1>6, <2>1, <2>3, AloneBetween DEF Halfway, ListWritten, Listing, k
  <2> HIDE DEF R, next
  <2> QED
    BY <1>3, <2>1, <2>2, <2>3, <2>4, ListStep DEF k
<1>7. CASE CollectionUnlisted(c)
  <2> DEFINE next == [call |-> "unlisted", k |-> k]
  <2>1. next \in Calls /\ next.k = k /\ next.call = "unlisted"
    BY <1>3, EmptyList, NextCalls
  <2>2. PutList(k, Missing) /\ FirstWrite(c, k) /\ records' = records
        /\ at' = [at EXCEPT ![c] = next]
    BY <1>7 DEF CollectionUnlisted, k
  <2> HIDE DEF next
  <2> QED
    BY <1>3, <2>1, <2>2, EmptyList, ListStep DEF k
<1>8. CASE CollectionDeleted(c)
  <2>1. PutRecord(c, k, Missing, Idle) /\ LaterWrite(c, k) /\ acl' = acl
    BY <1>8 DEF CollectionDeleted, k
  <2>2. k \notin apart' => Missing = acl'[k]
    BY <1>3, <1>8, <2>1, AloneBetween DEF Halfway, CollectionDeleted, Between, k
  <2> QED
    BY <1>3, <1>4, <2>1, <2>2, EmptyList, RecordStep DEF k
<1>9. CASE CollectionGuarded(c)
  <2> DEFINE R == at[c].roles
             next == [call |-> "guarded", k |-> k, roles |-> R]
  <2>1. R \in RoleLists \ {{}, Missing}
    BY <1>1, <1>9, CallKinds DEF CollectionGuarded
  <2>2. next \in Calls /\ next.call = "guarded" /\ next.k = k /\ next.roles = R
    BY <1>3, <2>1, NextCalls
  <2>3. [at[c] EXCEPT !.call = "guarded"] = next
    <3>1. at[c] \in [call : {"create", "guard", "guarded"}, k : Collections,
                     roles : RoleLists \ {{}, Missing}]
      BY <1>1, <1>9 DEF CollectionGuarded, CatalogueTypes, Calls, Idle
    <3> QED
      BY <3>1 DEF k
  <2>4. PutList(k, R) /\ FirstWrite(c, k) /\ records' = records
        /\ at' = [at EXCEPT ![c] = next]
    BY <1>1, <1>9, <2>3 DEF CollectionGuarded, CatalogueTypes, k
  <2> HIDE DEF R, next
  <2> QED
    BY <1>3, <2>1, <2>2, <2>4, ListStep DEF k
<1>10. CASE GuardAssigned(c)
  <2> DEFINE R == at[c].roles
  <2>1. R \in RoleLists \ {{}, Missing}
    BY <1>1, <1>10, CallKinds DEF GuardAssigned
  <2>2. AssignRoles(c, k, R, Idle) /\ LaterWrite(c, k)
        /\ acl' = [acl EXCEPT ![k] = IF records[k] = Missing THEN Defaulted(k) ELSE acl[k]]
    BY <1>10 DEF GuardAssigned, PutList, k
  <2>3. Defaulted(k) \in RoleLists
    BY <1>3, <1>4, EmptyList DEF Defaulted
  <2>4. acl' \in [Collections -> RoleLists] /\ \A j \in Collections \ {k} : acl'[j] = acl[j]
    BY <1>3, <1>4, <2>2, <2>3
  <2>5. k \notin apart' => R = acl'[k]
    <3>1. k \notin apart' => acl[k] = R
      BY <1>3, <1>10, <2>2, AloneBetween DEF Halfway, GuardAssigned, Between, k
    <3> QED
      BY <1>3, <1>4, <2>1, <2>2, <3>1 DEF Defaulted
  <2> HIDE DEF R
  <2> QED
    BY <1>3, <2>1, <2>2, <2>4, <2>5, RecordStep DEF k
<1> QED
  BY <1>5, <1>6, <1>7, <1>8, <1>9, <1>10

ProcessInv ==
  /\ entry \in Nat \ {0}
  /\ phase = "starting" => attached = FALSE /\ \A c \in Requests : at[c] = Idle

\* The entry of the seed file that a start is at.
LEMMA SeedEntryIs ==
  ASSUME ProcessInv, SeedEntry
  PROVE  Seed[entry] \in SeedEntries
  BY AdministrationAssumption DEF ProcessInv, SeedEntry

\* No request touches the process; the authoriser is bound after the seed.
LEMMA ProcessStep == ProcessInv /\ [AdminNext]_adminVars => ProcessInv'
<1> SUFFICES ASSUME ProcessInv, [AdminNext]_adminVars PROVE ProcessInv'
  OBVIOUS
<1> USE DEF ProcessInv
<1>1. ASSUME SeedEntry PROVE attached' = attached
  <2>1. CASE UNCHANGED idVars
    BY <2>1 DEF idVars
  <2>2. CASE SeedGroup(Seed[entry])
    BY <2>2 DEF SeedGroup, GroupCreate, GroupUpdate
  <2>3. CASE SeedUser(Seed[entry])
    BY <2>3 DEF SeedUser, UserCreate, UserUpdate
  <2>4. CASE SeedKey(Seed[entry])
    BY <2>1, <2>4 DEF SeedKey
  <2> QED
    BY <1>1, <2>1, <2>2, <2>3, <2>4 DEF SeedEntry
<1>2. CASE SeedEntry
  <2>1. at' = at
    BY <1>2 DEF SeedEntry, SeedCollection, catVars
  <2> QED
    BY <1>1, <1>2, <2>1 DEF SeedEntry
<1>3. CASE SeedFails \/ Return \/ UNCHANGED adminVars
  BY <1>3 DEF SeedFails, Return, adminVars, processVars, idVars, catVars
<1>4. CASE Attach
  <2>1. phase' = "serving" /\ attached' = TRUE /\ entry' = entry
    BY <1>4 DEF Attach
  <2> QED
    BY <2>1
<1>5. CASE Restart
  <2>1. attached' = FALSE /\ entry' = 1 /\ \A c \in Requests : at'[c] = Idle
    BY <1>5 DEF Restart
  <2> QED
    BY <2>1
<1>6. CASE Request
  <2>1. ASSUME IdentityNext PROVE attached' = attached
    BY <2>1 DEF IdentityNext, RestUserCreate, RestUserUpdate, UserCreate, UserUpdate,
       UserDelete, UsersList, RestGroupCreate, RestGroupUpdate, GroupCreate, GroupUpdate,
       GroupDelete, ApiKeyRevoke, ApiKeyCreate, ApiKeyRevokeToken, RevokeIn, RoleCreate,
       RoleDelete, RbacBind, RbacUnbind, ResourceBind, ResourceUnbind, RestBindingUpdate, SignIn
  <2> QED
    BY <1>6, <2>1 DEF Request, idVars
<1> QED
  BY <1>2, <1>3, <1>4, <1>5, <1>6 DEF AdminNext

\* A start writes both tables for each collection of its seed.
LEMMA CatalogueStep ==
  ProcessInv /\ CatalogueInv /\ [AdminNext]_adminVars => CatalogueInv'
<1> SUFFICES ASSUME ProcessInv, CatalogueInv, [AdminNext]_adminVars PROVE CatalogueInv'
  OBVIOUS
<1>1. CASE UNCHANGED catVars
  BY <1>1 DEF catVars, CatalogueInv, CatalogueTypes, Orderly, Halfway, Between, Listing
<1>2. CASE SeedEntry
  <2>1. CASE SeedCollection(Seed[entry]) /\ Seed[entry].kind = "collection"
    <3>1. UNCHANGED <<at, apart>>
      BY <2>1 DEF SeedCollection
    <3>2. ListOf(Seed[entry]) \in RoleLists \ {{}, Missing}
      BY <1>2, <2>1, SeedEntryIs, EmptyList DEF SeedEntries, ListOf
    <3>3. /\ records' = [records EXCEPT ![Seed[entry].name] = ListOf(Seed[entry])]
          /\ acl' = [acl EXCEPT ![Seed[entry].name] = ListOf(Seed[entry])]
          /\ Seed[entry].name \in Collections
      BY <1>2, <2>1, SeedEntryIs DEF SeedCollection, SeedEntries
    <3>4. CatalogueTypes'
      BY <3>1, <3>2, <3>3 DEF CatalogueInv, CatalogueTypes
    <3>5. \A c \in Requests : at[c] = Idle
      BY <1>2 DEF ProcessInv, SeedEntry
    <3>6. ASSUME NEW c \in Requests, NEW k PROVE ~Between(c, k)' /\ Halfway(c, k)'
      BY <3>1, <3>5, <3>6 DEF Between, Listing, Halfway, Idle
    <3>7. ASSUME NEW k \in Collections \ apart'
          PROVE  records'[k] = acl'[k] /\ acl'[k] # {}
      <4>1. CASE k = Seed[entry].name
        BY <3>2, <3>3, <4>1 DEF CatalogueInv, CatalogueTypes
      <4>2. CASE k # Seed[entry].name
        <5>1. records[k] = acl[k] /\ acl[k] # {}
          BY <3>1, <3>5, <3>7 DEF CatalogueInv, Orderly, Between, Listing, Idle
        <5> QED
          BY <3>3, <3>7, <4>2, <5>1 DEF CatalogueInv, CatalogueTypes
      <4> QED
        BY <4>1, <4>2
    <3> QED
      BY <3>4, <3>6, <3>7 DEF CatalogueInv, Orderly
  <2> QED
    BY <1>1, <1>2, <2>1 DEF SeedEntry
<1>3. CASE SeedFails \/ Attach \/ UNCHANGED adminVars
  BY <1>1, <1>3 DEF SeedFails, Attach, adminVars
<1>4. CASE Restart
  <2>1. /\ records' = [k \in Collections |-> Missing] /\ acl' = [k \in Collections |-> Missing]
        /\ at' = [c \in Requests |-> Idle]
    BY <1>4 DEF Restart
  <2> QED
    BY <2>1, EmptyList DEF CatalogueInv, CatalogueTypes, Orderly, Halfway, Between, Listing,
       Idle
<1>5. CASE Request
  BY <1>1, <1>5, CatalogueRequestStep DEF Request
<1>6. CASE Return
  BY <1>6, CatalogueReturnStep DEF Return
<1> QED
  BY <1>2, <1>3, <1>4, <1>5, <1>6 DEF AdminNext

\* A fresh process has no collection and no request.
LEMMA CatalogueStart == AdminInit => ProcessInv /\ CatalogueInv
<1> SUFFICES ASSUME AdminInit PROVE ProcessInv /\ CatalogueInv
  OBVIOUS
<1>1. ProcessInv
  BY DEF AdminInit, IdentityInit, CatalogueInit, ProcessInv
<1>2. CatalogueInv
  BY EmptyList DEF AdminInit, CatalogueInit, CatalogueInv, CatalogueTypes, Orderly, Halfway,
     Between, Listing, Idle
<1> QED
  BY <1>1, <1>2

\* The two tables of a collection agree in whatever order creates, updates, deletes
\* and guards wait for the vector store and write, over starts and restarts, but
\* while a thread is between its two writes and after writes that overlapped or an
\* update that was refused half way, until a later call writes both.
THEOREM AccessListsAlwaysAgree == AdminSpec => []AccessListsAgree
<1>1. ProcessInv /\ CatalogueInv /\ [AdminNext]_adminVars => (ProcessInv /\ CatalogueInv)'
  BY ProcessStep, CatalogueStep
<1>2. CatalogueInv => AccessListsAgree
  BY DEF CatalogueInv, Orderly, AccessListsAgree
<1> QED
  BY <1>1, <1>2, CatalogueStart, PTL DEF AdminSpec

-----------------------------------------------------------------------------
(* Users, groups and keys: types.                                            *)

IdentityTypes ==
  /\ users \in [Users -> {None} \cup UserRecords]
  /\ groups \in [Groups -> {None} \cup GroupRecords]
  /\ idam \in [Users -> {None} \cup LibraryUsers]
  /\ \A u \in Users : users[u] # None => idam[u] # None
  /\ keys \in [KeyIds -> {None} \cup KeyRecords]
  /\ keyStore \in [KeyIds -> {"absent", "active", "revoked"}]
  /\ DOMAIN engine = Users \cup KeyIds

\* Payloads that name some fields of a user or of a group.
UserFields(p) ==
  /\ DOMAIN p \subseteq {"roles", "groups", "enabled"}
  /\ "roles" \in DOMAIN p => p["roles"] \in SUBSET Roles
  /\ "groups" \in DOMAIN p => p["groups"] \in SUBSET Groups
  /\ "enabled" \in DOMAIN p => p["enabled"] \in BOOLEAN

GroupFields(p) ==
  /\ DOMAIN p \subseteq {"roles", "members"}
  /\ "roles" \in DOMAIN p => p["roles"] \in SUBSET Roles
  /\ "members" \in DOMAIN p => p["members"] \in SUBSET Users

\* A payload over a record of a user is a record of a user.
LEMMA OverUser ==
  ASSUME NEW p, UserFields(p), NEW r \in UserRecords
  PROVE  Over(p, r) \in UserRecords
<1>1. r = [roles |-> r.roles, groups |-> r.groups, enabled |-> r.enabled]
      /\ r.roles \in SUBSET Roles /\ r.groups \in SUBSET Groups /\ r.enabled \in BOOLEAN
  BY DEF UserRecords
<1>2. DOMAIN Over(p, r) = {"roles", "groups", "enabled"}
  BY <1>1 DEF Over, UserFields
<1>3. /\ Over(p, r)["roles"] \in SUBSET Roles
      /\ Over(p, r)["groups"] \in SUBSET Groups
      /\ Over(p, r)["enabled"] \in BOOLEAN
  BY <1>1 DEF Over, UserFields
<1>4. Over(p, r) = [f \in DOMAIN Over(p, r) |-> Over(p, r)[f]]
  BY DEF Over
<1> QED
  BY <1>2, <1>3, <1>4 DEF UserRecords

\* A payload over a record of a group is a record of a group.
LEMMA OverGroup ==
  ASSUME NEW p, GroupFields(p), NEW r \in GroupRecords
  PROVE  Over(p, r) \in GroupRecords
<1>1. r = [roles |-> r.roles, members |-> r.members]
      /\ r.roles \in SUBSET Roles /\ r.members \in SUBSET Users
  BY DEF GroupRecords
<1>2. DOMAIN Over(p, r) = {"roles", "members"}
  BY <1>1 DEF Over, GroupFields
<1>3. /\ Over(p, r)["roles"] \in SUBSET Roles
      /\ Over(p, r)["members"] \in SUBSET Users
  BY <1>1 DEF Over, GroupFields
<1>4. Over(p, r) = [f \in DOMAIN Over(p, r) |-> Over(p, r)[f]]
  BY DEF Over
<1> QED
  BY <1>2, <1>3, <1>4 DEF GroupRecords

\* The payloads of requests are such, also after the REST routes.
LEMMA UserPayloadFields ==
  ASSUME NEW p \in UserPayloads \cup PagePayloads
  PROVE  UserFields(RestUser(p))
<1>1. CASE p \in {[roles |-> R] : R \in RoleSets}
  BY <1>1 DEF RestUser, UserFields, Roles
<1>2. CASE p \in {[groups |-> G] : G \in SUBSET Groups}
  BY <1>2 DEF RestUser, UserFields
<1>3. CASE p \in {[enabled |-> FALSE]}
  <2>1. RestUser(p) = p /\ DOMAIN p = {"enabled"} /\ p["enabled"] = FALSE
    BY <1>3 DEF RestUser
  <2>2. "roles" \notin DOMAIN p /\ "groups" \notin DOMAIN p
    BY <2>1
  <2>3. p["enabled"] \in BOOLEAN
    BY <2>1, Zenon
  <2>4. DOMAIN p \subseteq {"roles", "groups", "enabled"}
    BY <2>1
  <2> QED
    BY <2>1, <2>2, <2>3, <2>4 DEF UserFields
<1>4. CASE p \in PagePayloads
  <2>1. RestUser(p) = [roles |-> {"admin"}] \/ RestUser(p) = [roles |-> {"reader"}]
    BY <1>4 DEF RestUser, PagePayloads
  <2> QED
    BY <2>1 DEF UserFields, Roles
<1> QED
  BY <1>1, <1>2, <1>3, <1>4 DEF UserPayloads

\* What a caller or the page of the console sends names fields of a group.
LEMMA GroupPayloadFields ==
  ASSUME NEW p \in GroupPayloads
  PROVE  GroupFields(p) /\ GroupFields(RestGroup(p))
<1>1. CASE p \in {[roles |-> R] : R \in RoleSets}
  BY <1>1 DEF RestGroup, Over, GroupFields, Roles
<1>2. CASE p \in {[members |-> M] : M \in SUBSET Users}
  BY <1>2 DEF RestGroup, Over, GroupFields
<1> QED
  BY <1>1, <1>2 DEF GroupPayloads

\* Records, as the seed file names them, are payloads of all their fields.
LEMMA RecordsAreFields ==
  /\ \A r \in UserRecords : UserFields(r)
  /\ \A r \in GroupRecords : GroupFields(r)
  /\ NewUser \in UserRecords
  /\ NewGroup \in GroupRecords
  BY DEF UserRecords, GroupRecords, UserFields, GroupFields, NewUser, NewGroup, Roles

-----------------------------------------------------------------------------
(* Users, groups and keys: what a call does.                                 *)

rest == <<attached, keys, keyStore>>

UserWritten(u, record) ==
  /\ PutUser(u, record)
  /\ UNCHANGED <<groups, rest>>

\* The authoriser hears of a group from everybody that both records name.
GroupWritten(g, record) ==
  /\ PutGroup(g, record)
  /\ \E S : /\ SyncAuth(users, groups', S)
            /\ Naming(g) \cap record.members \subseteq S
  /\ UNCHANGED <<users, idam, rest>>

KeyCreated ==
  \E k \in KeyIds, o \in Users \cup {None}, t \in Tokens, R \in RoleSets \cup {{}} :
    ApiKeyCreate(k, o, t, R)

IdentityChange ==
  \/ \E u \in Users, r \in UserRecords : UserWritten(u, r)
  \/ \E u \in Users : UserDelete(u)
  \/ UsersList
  \/ \E g \in Groups, r \in GroupRecords : GroupWritten(g, r)
  \/ \E g \in Groups : GroupDelete(g)
  \/ KeyCreated
  \/ \E S \in SUBSET Present(keys) : RevokeIn(S)
  \/ \E u \in Users, r \in UNION RoleSets : SignIn(u, r)
  \/ UNCHANGED <<users, groups, idam, engine, rest>>

\* A call with a payload of fields writes a record.
LEMMA UserCallEffect ==
  ASSUME IdentityTypes, NEW u \in Users, NEW p, UserFields(p),
         UserCreate(u, p) \/ UserUpdate(u, p)
  PROVE  IdentityChange
<1>1. CASE UserCreate(u, p)
  <2>1. Over(p, NewUser) \in UserRecords
    BY OverUser, RecordsAreFields
  <2> QED
    BY <1>1, <2>1 DEF UserCreate, UserWritten, rest, IdentityChange
<1>2. CASE UserUpdate(u, p)
  <2>1. users[u] \in UserRecords
    BY <1>2 DEF UserUpdate, IdentityTypes
  <2>2. Over(p, users[u]) \in UserRecords
    BY <2>1, OverUser
  <2> QED
    BY <1>2, <2>2 DEF UserUpdate, UserWritten, rest, IdentityChange
<1> QED
  BY <1>1, <1>2

\* A call on a group changes users, groups and grants as IdentityChange allows.
LEMMA GroupCallEffect ==
  ASSUME IdentityTypes, NEW g \in Groups, NEW p, GroupFields(p),
         GroupCreate(g, p) \/ GroupUpdate(g, p)
  PROVE  IdentityChange
<1>1. CASE GroupCreate(g, p)
  <2>1. Over(p, NewGroup) \in GroupRecords
    BY OverGroup, RecordsAreFields
  <2> QED
    BY <1>1, <2>1 DEF GroupCreate, GroupWritten, rest, IdentityChange
<1>2. CASE GroupUpdate(g, p)
  <2>1. groups[g] \in GroupRecords
    BY <1>2 DEF GroupUpdate, IdentityTypes
  <2>2. Over(p, groups[g]) \in GroupRecords
    BY <2>1, OverGroup
  <2>3. groups'[g].members = Over(p, groups[g]).members
    BY <1>2 DEF GroupUpdate, PutGroup, IdentityTypes
  <2> QED
    BY <1>2, <2>2, <2>3 DEF GroupUpdate, GroupWritten, rest, IdentityChange
<1> QED
  BY <1>1, <1>2

\* Every request of the identity half is one of these.
LEMMA IdentityEffect ==
  ASSUME IdentityTypes, IdentityNext
  PROVE  IdentityChange
<1> USE DEF IdentityTypes
<1>1. CASE \E u \in Users : RestUserCreate(u) \/ RestUserUpdate(u)
  BY <1>1, UserPayloadFields, UserCallEffect DEF RestUserCreate, RestUserUpdate
<1>2. CASE \E g \in Groups : RestGroupCreate(g) \/ RestGroupUpdate(g)
                              \/ \E p \in GroupPayloads : GroupUpdate(g, p)
  BY <1>2, GroupPayloadFields, GroupCallEffect DEF RestGroupCreate, RestGroupUpdate
<1>3. ASSUME NEW s \in Users \cup Groups, NEW role \in UNION RoleSets,
             RbacBind(s, role) \/ RbacUnbind(s, role)
      PROVE  IdentityChange
  <2>1. role \in Roles
    BY DEF Roles
  <2>2. \/ /\ s \in Users /\ users[s] # None /\ UNCHANGED <<groups, rest>>
           /\ \/ PutUser(s, [users[s] EXCEPT !.roles = @ \cup {role}])
              \/ PutUser(s, [users[s] EXCEPT !.roles = @ \ {role}])
        \/ /\ s \in Groups /\ groups[s] # None /\ UNCHANGED <<users, idam, rest>>
           /\ SyncAuth(users, groups', Naming(s))
           /\ \/ PutGroup(s, [groups[s] EXCEPT !.roles = @ \cup {role}])
              \/ PutGroup(s, [groups[s] EXCEPT !.roles = @ \ {role}])
    BY <1>3 DEF RbacBind, RbacUnbind, rest
  <2>3. ASSUME s \in Users, users[s] # None
        PROVE  /\ [users[s] EXCEPT !.roles = @ \cup {role}] \in UserRecords
               /\ [users[s] EXCEPT !.roles = @ \ {role}] \in UserRecords
    <3>1. users[s] \in UserRecords
      BY <2>3
    <3> QED
      BY <2>1, <3>1 DEF UserRecords
  <2>4. ASSUME s \in Groups, groups[s] # None
        PROVE  /\ [groups[s] EXCEPT !.roles = @ \cup {role}] \in GroupRecords
               /\ [groups[s] EXCEPT !.roles = @ \ {role}] \in GroupRecords
    <3>1. groups[s] \in GroupRecords
      BY <2>4
    <3> QED
      BY <2>1, <3>1 DEF GroupRecords
  <2> QED
    BY <2>2, <2>3, <2>4 DEF UserWritten, GroupWritten, IdentityChange
<1>4. CASE \E k \in KeyIds : ApiKeyRevoke(k)
  BY <1>4 DEF ApiKeyRevoke, Present, IdentityChange
<1>5. CASE \E t \in Tokens : ApiKeyRevokeToken(t)
  BY <1>5 DEF ApiKeyRevokeToken, WithToken, IdentityChange
<1>6. CASE \/ \E n \in RoleNames : RoleCreate(n) \/ RoleDelete(n)
           \/ \E s \in Users \cup Groups, x, y \in Grants :
                ResourceBind(s, x) \/ ResourceUnbind(s, x) \/ RestBindingUpdate(s, x, y)
  BY <1>6 DEF RoleCreate, RoleDelete, ResourceBind, ResourceUnbind, RestBindingUpdate, rest,
     IdentityChange
<1> QED
  BY <1>1, <1>2, <1>3, <1>4, <1>5, <1>6 DEF IdentityNext, KeyCreated, IdentityChange

\* And so is every step of the process, but for a key of the seed, the binding
\* of the authoriser and a restart.
LEMMA ProcessEffect ==
  ASSUME ProcessInv, IdentityTypes, [AdminNext]_adminVars
  PROVE  \/ IdentityChange
         \/ SeedEntry /\ Seed[entry].kind = "key" /\ SeedKey(Seed[entry])
         \/ Attach
         \/ Restart
<1>1. CASE UNCHANGED idVars
  BY <1>1 DEF idVars, IdentityChange, rest
<1>2. CASE SeedEntry
  <2> DEFINE e == Seed[entry]
  <2>1. e \in SeedEntries
    BY <1>2, SeedEntryIs
  <2>2. CASE e.kind = "group" /\ SeedGroup(e)
    <3>1. e.name \in Groups /\ e.payload \in GroupRecords
      BY <2>1, <2>2 DEF SeedEntries
    <3> QED
      BY <2>2, <3>1, RecordsAreFields, GroupCallEffect DEF SeedGroup
  <2>3. CASE e.kind = "user" /\ SeedUser(e)
    <3>1. e.name \in Users /\ e.payload \in UserRecords
      BY <2>1, <2>3 DEF SeedEntries
    <3> QED
      BY <2>3, <3>1, RecordsAreFields, UserCallEffect DEF SeedUser
  <2> QED
    BY <1>1, <1>2, <2>2, <2>3 DEF SeedEntry
<1>3. CASE Request
  BY <1>1, <1>3, IdentityEffect DEF Request
<1>4. CASE SeedFails \/ Return \/ UNCHANGED adminVars
  BY <1>1, <1>4 DEF SeedFails, Return, adminVars
<1> QED
  BY <1>2, <1>3, <1>4 DEF AdminNext

-----------------------------------------------------------------------------
(* Users, groups and keys: the types are kept.                               *)

\* The role passed to the library is one of the user's, or reader.
LEMMA PrimaryRole == \A R \in SUBSET Roles : Primary(R) \in Roles
  BY DEF Primary, Roles

\* What _sync_idam_user passes on is a user of the library.
LEMMA LibraryRecord ==
  ASSUME NEW r \in UserRecords
  PROVE  [role |-> Primary(r.roles), active |-> r.enabled] \in LibraryUsers
<1>1. r.roles \in SUBSET Roles /\ r.enabled \in BOOLEAN
  BY DEF UserRecords
<1>2. Primary(r.roles) \in Roles
  BY <1>1, PrimaryRole
<1> QED
  BY <1>1, <1>2 DEF LibraryUsers

\* A key gets roles that exist, be it its own or its owner's.
LEMMA GrantedRoles ==
  ASSUME IdentityTypes, NEW o \in Users \cup {None}, NEW R \in SUBSET Roles
  PROVE  KeyRoles(o, R) \in SUBSET Roles
<1>1. \/ KeyRoles(o, R) = R
      \/ o # None /\ users[o] # None /\ KeyRoles(o, R) = users[o].roles
      \/ o # None /\ idam[o] # None /\ KeyRoles(o, R) = {idam[o].role}
      \/ KeyRoles(o, R) = {"reader"}
  BY DEF KeyRoles
<1>2. ASSUME o # None, users[o] # None PROVE users[o].roles \in SUBSET Roles
  <2>1. users[o] \in UserRecords
    BY <1>2 DEF IdentityTypes
  <2> QED
    BY <2>1 DEF UserRecords
<1>3. ASSUME o # None, idam[o] # None PROVE idam[o].role \in Roles
  <2>1. idam[o] \in LibraryUsers
    BY <1>3 DEF IdentityTypes
  <2> QED
    BY <2>1 DEF LibraryUsers
<1> QED
  BY <1>1, <1>2, <1>3 DEF Roles

\* Marking a record as revoked leaves it a record.
LEMMA MarkedRecord ==
  ASSUME NEW r \in KeyRecords, NEW b \in BOOLEAN
  PROVE  /\ [r EXCEPT !.revoked = b] \in KeyRecords
         /\ [r EXCEPT !.revoked = b].roles = r.roles
         /\ [r EXCEPT !.revoked = b].revoked = b
  BY DEF KeyRecords

\* Revoking changes nothing else about the record of a key.
LEMMA RevokedRecord ==
  ASSUME NEW r \in KeyRecords
  PROVE  /\ [r EXCEPT !.revoked = TRUE] \in KeyRecords
         /\ [r EXCEPT !.revoked = TRUE].roles = r.roles
         /\ [r EXCEPT !.revoked = TRUE].revoked
<1>1. TRUE \in BOOLEAN
  OBVIOUS
<1> QED
  BY <1>1, MarkedRecord, Zenon

\* A change of users, groups and grants keeps the identity tables well typed.
LEMMA TypesKept ==
  ASSUME IdentityTypes, IdentityChange
  PROVE  IdentityTypes'
<1> USE DEF IdentityTypes
<1>1. ASSUME NEW u \in Users, NEW r \in UserRecords, UserWritten(u, r)
      PROVE  IdentityTypes'
  <2>1. [role |-> Primary(r.roles), active |-> r.enabled] \in LibraryUsers
    BY LibraryRecord
  <2>2. users' \in [Users -> {None} \cup UserRecords]
        /\ idam' \in [Users -> {None} \cup LibraryUsers]
    BY <1>1, <2>1 DEF UserWritten, PutUser
  <2>3. \A v \in Users : users'[v] # None => idam'[v] # None
    BY <1>1, <2>1, IdentityAssumption DEF UserWritten, PutUser
  <2>4. DOMAIN engine' = Users \cup KeyIds
    BY <1>1 DEF UserWritten, PutUser, SyncAuth
  <2> QED
    BY <1>1, <2>2, <2>3, <2>4 DEF UserWritten, rest
<1>2. ASSUME NEW u \in Users, UserDelete(u) PROVE IdentityTypes'
  <2>1. idam[u] \in LibraryUsers
    BY <1>2 DEF UserDelete
  <2>2. [idam[u] EXCEPT !.active = FALSE] \in LibraryUsers
    BY <2>1 DEF LibraryUsers
  <2>3. idam' = [idam EXCEPT ![u] = [idam[u] EXCEPT !.active = FALSE]]
    BY <1>2 DEF UserDelete
  <2>4. \A v \in Users : idam'[v] # None <=> idam[v] # None
    BY <2>1, <2>2, <2>3, IdentityAssumption
  <2> QED
    BY <1>2, <2>2, <2>3, <2>4 DEF UserDelete
<1>3. ASSUME UsersList PROVE IdentityTypes'
  <2>1. users[AdminUser] \in UserRecords
    BY <1>3, IdentityAssumption DEF UsersList
  <2>2. [users[AdminUser] EXCEPT !.roles = @ \cup {"admin"}] \in UserRecords
    BY <2>1 DEF UserRecords, Roles
  <2>3. users' = [users EXCEPT ![AdminUser] =
                    [users[AdminUser] EXCEPT !.roles = @ \cup {"admin"}]]
    BY <1>3 DEF UsersList
  <2>4. \A v \in Users : users'[v] # None <=> users[v] # None
    BY <2>1, <2>2, <2>3, IdentityAssumption
  <2> QED
    BY <1>3, <2>2, <2>3, <2>4 DEF UsersList
<1>4. ASSUME NEW g \in Groups, NEW r \in GroupRecords, GroupWritten(g, r)
      PROVE  IdentityTypes'
  BY <1>4 DEF GroupWritten, PutGroup, SyncAuth, rest
<1>5. ASSUME NEW g \in Groups, GroupDelete(g) PROVE IdentityTypes'
  BY <1>5 DEF GroupDelete, SyncAuth
<1>6. ASSUME NEW k \in KeyIds, NEW o \in Users \cup {None}, NEW t \in Tokens,
             NEW R \in RoleSets \cup {{}}, ApiKeyCreate(k, o, t, R)
      PROVE  IdentityTypes'
  <2>1. R \in SUBSET Roles
    BY DEF Roles
  <2>2. [token |-> t, owner |-> o, roles |-> KeyRoles(o, R), revoked |-> FALSE]
          \in KeyRecords
    BY <2>1, GrantedRoles DEF KeyRecords
  <2> QED
    BY <1>6, <2>2 DEF ApiKeyCreate
<1>7. ASSUME NEW S \in SUBSET Present(keys), RevokeIn(S) PROVE IdentityTypes'
  <2>1. \A k \in S : keys[k] \in KeyRecords
    BY DEF Present
  <2>2. \A k \in S : [keys[k] EXCEPT !.revoked = TRUE] \in KeyRecords
    BY <2>1, RevokedRecord
  <2> QED
    BY <1>7, <2>2 DEF RevokeIn
<1>8. ASSUME NEW u \in Users, NEW r \in UNION RoleSets, SignIn(u, r) PROVE IdentityTypes'
  BY <1>8 DEF SignIn
<1>9. CASE UNCHANGED <<users, groups, idam, engine, rest>>
  BY <1>9 DEF rest
<1> QED
  BY <1>1, <1>2, <1>3, <1>4, <1>5, <1>6, <1>7, <1>8, <1>9 DEF IdentityChange, KeyCreated

\* Every step keeps the identity tables well typed.
LEMMA TypesStep ==
  ProcessInv /\ IdentityTypes /\ [AdminNext]_adminVars => IdentityTypes'
<1> SUFFICES ASSUME ProcessInv, IdentityTypes, [AdminNext]_adminVars
             PROVE  IdentityTypes'
  OBVIOUS
<1>1. ASSUME SeedEntry, Seed[entry].kind = "key", SeedKey(Seed[entry])
      PROVE  IdentityTypes'
  <2> PICK e : e = Seed[entry]
    OBVIOUS
  <2>1. e.owner \in Users /\ e.token \in Tokens /\ e.roles \in SUBSET Roles
    BY <1>1, SeedEntryIs DEF SeedEntries
  <2>2. [token |-> e.token, owner |-> e.owner,
         roles |-> KeyRoles(e.owner, e.roles), revoked |-> FALSE] \in KeyRecords
    BY <2>1, GrantedRoles DEF KeyRecords
  <2>3. \A k \in OthersOf(e) : [keys[k] EXCEPT !.revoked = TRUE] \in KeyRecords
    BY RevokedRecord DEF IdentityTypes, OthersOf, Present
  <2>4. CASE UNCHANGED idVars
    BY <2>4 DEF idVars, IdentityTypes
  <2> DEFINE marked == [j \in KeyIds |-> IF j \in OthersOf(e)
                                           THEN [keys[j] EXCEPT !.revoked = TRUE]
                                           ELSE keys[j]]
             new == [token |-> e.token, owner |-> e.owner,
                     roles |-> KeyRoles(e.owner, e.roles), revoked |-> FALSE]
  <2>5. marked \in [KeyIds -> {None} \cup KeyRecords]
    BY <2>3 DEF IdentityTypes
  <2>6. ASSUME NEW k \in KeyIds, keys' = [marked EXCEPT ![k] = new],
               keyStore' = [keyStore EXCEPT ![k] = "active"],
               UNCHANGED <<users, groups, idam, engine>>
        PROVE  IdentityTypes'
    <3> HIDE DEF marked, new
    <3> QED
      BY <2>2, <2>5, <2>6 DEF IdentityTypes, new
  <2> QED
    BY <1>1, <2>4, <2>6 DEF SeedKey
<1>2. CASE Attach
  BY <1>2 DEF Attach, IdentityTypes
<1>3. CASE Restart
  BY <1>3 DEF Restart, IdentityTypes
<1> QED
  BY <1>1, <1>2, <1>3, ProcessEffect, TypesKept

\* The empty tables of a fresh process are well typed.
LEMMA TypesStart == AdminInit => IdentityTypes
  BY DEF AdminInit, IdentityInit, IdentityTypes

-----------------------------------------------------------------------------
(* Records of keys and the key manager.                                      *)

\* A start has not bound the authoriser when it makes the keys of the seed.
LEMMA SeedKeyDetached ==
  ASSUME ProcessInv, SeedEntry, Seed[entry].kind = "key", SeedKey(Seed[entry])
  PROVE  attached' = FALSE
<1>1. attached = FALSE
  BY DEF ProcessInv, SeedEntry
<1>2. attached' = attached
  BY DEF SeedKey, idVars
<1> QED
  BY <1>1, <1>2

\* Every step keeps the key manager and the records of the keys in agreement.
LEMMA KeysStep ==
  ASSUME ProcessInv, IdentityTypes, KeysMatchStore, [AdminNext]_adminVars
  PROVE  KeysMatchStore'
<1>1. CASE UNCHANGED rest
  BY <1>1 DEF rest, KeysMatchStore
<1>2. ASSUME NEW k \in KeyIds, NEW o \in Users \cup {None}, NEW t \in Tokens,
             NEW R \in RoleSets \cup {{}}, ApiKeyCreate(k, o, t, R)
      PROVE  KeysMatchStore'
  <2> DEFINE new == [token |-> t, owner |-> o, roles |-> KeyRoles(o, R), revoked |-> FALSE]
  <2>1. new \in KeyRecords
    BY GrantedRoles DEF KeyRecords, Roles
  <2>2. new # None /\ ~new.revoked
    BY <2>1, IdentityAssumption
  <2>3. /\ keys' = [keys EXCEPT ![k] = new]
        /\ keyStore' = [keyStore EXCEPT ![k] = "active"]
        /\ UNCHANGED attached
    BY <1>2 DEF ApiKeyCreate
  <2>4. /\ keys'[k] = new /\ keyStore'[k] = "active"
        /\ \A j \in KeyIds \ {k} : keys'[j] = keys[j] /\ keyStore'[j] = keyStore[j]
    BY <2>3 DEF IdentityTypes
  <2> HIDE DEF new
  <2> QED
    BY <2>2, <2>3, <2>4 DEF KeysMatchStore
<1>3. ASSUME NEW S \in SUBSET Present(keys), RevokeIn(S) PROVE KeysMatchStore'
  <2> SUFFICES ASSUME attached', NEW k \in KeyIds, keyStore'[k] # "absent"
               PROVE  keys'[k] # None /\ (keys'[k].revoked <=> keyStore'[k] = "revoked")
    BY DEF KeysMatchStore
  <2>1. attached
    BY <1>3 DEF RevokeIn
  <2>2. CASE k \in S
    <3>1. keys[k] \in KeyRecords
      BY <2>2 DEF Present, IdentityTypes
    <3>2. keys'[k] = [keys[k] EXCEPT !.revoked = TRUE]
      BY <1>3, <2>2 DEF RevokeIn
    <3>3. keys'[k] # None /\ keys'[k].revoked
      BY <3>1, <3>2, RevokedRecord, IdentityAssumption
    <3>4. keyStore'[k] = "revoked"
      BY <1>3, <2>2 DEF RevokeIn, IdentityTypes
    <3> QED
      BY <3>3, <3>4
  <2>3. CASE k \notin S
    BY <1>3, <2>1, <2>3 DEF RevokeIn, KeysMatchStore
  <2> QED
    BY <2>2, <2>3
<1>4. ASSUME SeedEntry, Seed[entry].kind = "key", SeedKey(Seed[entry])
      PROVE  KeysMatchStore'
  BY <1>4, SeedKeyDetached DEF KeysMatchStore
<1>5. CASE Attach
  BY <1>5 DEF Attach, KeysMatchStore
<1>6. CASE Restart
  BY <1>6 DEF Restart, KeysMatchStore
<1>7. ASSUME IdentityChange PROVE KeysMatchStore'
  <2>1. UNCHANGED rest \/ KeyCreated \/ \E S \in SUBSET Present(keys) : RevokeIn(S)
    BY <1>7 DEF IdentityChange, UserWritten, UserDelete, UsersList, GroupWritten,
       GroupDelete, SignIn, rest
  <2> QED
    BY <1>1, <1>2, <1>3, <2>1 DEF KeyCreated
<1> QED
  BY <1>4, <1>5, <1>6, <1>7, ProcessEffect

\* While the server serves, a key that its manager knows is accepted exactly as
\* long as its record is valid: whatever is created and revoked, by id or by
\* token, and however often the server is started anew.
THEOREM KeysAlwaysMatch == AdminSpec => []KeysMatchStore
<1>1. AdminInit => ProcessInv /\ IdentityTypes /\ KeysMatchStore
  BY CatalogueStart, TypesStart DEF AdminInit, IdentityInit, KeysMatchStore
<1>2. ProcessInv /\ IdentityTypes /\ KeysMatchStore /\ [AdminNext]_adminVars =>
        (ProcessInv /\ IdentityTypes /\ KeysMatchStore)'
  BY ProcessStep, TypesStep, KeysStep
<1> QED
  BY <1>1, <1>2, PTL DEF AdminSpec

-----------------------------------------------------------------------------
(* Grants and the authoriser.                                                *)

\* What is assigned for a set of roles contains the canonical form of each.
LEMMA AssignedHolds ==
  ASSUME NEW R, NEW R0 \in SUBSET R
  PROVE  {Canonical(r) : r \in R0} \subseteq Assigned(R)
  BY DEF Assigned

\* The effective roles of a user hold its own and those of its groups.
LEMMA EffectiveHolds ==
  ASSUME NEW us, NEW gs, NEW u
  PROVE  /\ {Canonical(r) : r \in us[u].roles} \subseteq Assigned(EffectiveIn(us, gs, u))
         /\ \A g \in us[u].groups \cap Present(gs) :
              {Canonical(r) : r \in gs[g].roles} \subseteq Assigned(EffectiveIn(us, gs, u))
<1>1. us[u].roles \in SUBSET EffectiveIn(us, gs, u)
  BY DEF EffectiveIn
<1>2. \A g \in us[u].groups \cap Present(gs) :
        gs[g].roles \in SUBSET EffectiveIn(us, gs, u)
  BY DEF EffectiveIn
<1> QED
  BY <1>1, <1>2, AssignedHolds

\* What the authoriser has to know of one user.
Reached(us, gs, eng, u) ==
  /\ {Canonical(r) : r \in us[u].roles} \subseteq eng[u]
  /\ \A g \in us[u].groups \cap Present(gs) :
       u \in gs[g].members => {Canonical(r) : r \in gs[g].roles} \subseteq eng[u]

KeysReached(ks, store, eng) ==
  \A k \in Present(ks) : store[k] # "absent" => Assigned(ks[k].roles) \subseteq eng[k]

\* GrantsReachEngine is a statement about each user and one about the keys.
LEMMA GrantsParts ==
  GrantsReachEngine <=>
    (attached => /\ \A u \in Present(users) \ {AdminUser} :
                      Reached(users, groups, engine, u)
                 /\ KeysReached(keys, keyStore, engine))
  BY DEF GrantsReachEngine, Reached, KeysReached

EngineGrows == \A p \in Users \cup KeyIds : engine[p] \subseteq engine'[p]

\* _sync_auth_user only adds roles, and those a user has by now are among them.
LEMMA SyncGrows ==
  ASSUME IdentityTypes, NEW us, NEW gs, NEW S, SyncAuth(us, gs, S)
  PROVE  /\ EngineGrows
         /\ \A u \in (S \cap Present(us)) \cap Users :
              attached => Assigned(EffectiveIn(us, gs, u)) \subseteq engine'[u]
  BY DEF SyncAuth, EngineGrows, IdentityTypes

\* A synchronised user is reached; so is one whose records are as before.
LEMMA ReachedBySync ==
  ASSUME NEW us, NEW gs, NEW u, NEW eng, Assigned(EffectiveIn(us, gs, u)) \subseteq eng[u]
  PROVE  Reached(us, gs, eng, u)
  BY EffectiveHolds DEF Reached

\* As long as the engine grows, the roles of keys stay known.
LEMMA KeysStayReached ==
  ASSUME IdentityTypes, KeysReached(keys, keyStore, engine), EngineGrows,
         UNCHANGED <<keys, keyStore>>
  PROVE  KeysReached(keys', keyStore', engine')
  BY DEF KeysReached, EngineGrows, IdentityTypes, Present

\* A change of users, groups and grants leaves the authoriser with all grants.
LEMMA GrantsKept ==
  ASSUME IdentityTypes, GrantsReachEngine, IdentityChange
  PROVE  GrantsReachEngine'
<1> SUFFICES ASSUME attached' PROVE GrantsReachEngine'
  BY DEF GrantsReachEngine
<1>1. attached' = attached
  BY DEF IdentityChange, UserWritten, UserDelete, UsersList, GroupWritten,
     GroupDelete, KeyCreated, ApiKeyCreate, RevokeIn, SignIn, rest
<1>2. /\ \A u \in Present(users) \ {AdminUser} : Reached(users, groups, engine, u)
      /\ KeysReached(keys, keyStore, engine)
  BY <1>1, GrantsParts
<1>3. Present(users) \subseteq Users
  BY DEF Present, IdentityTypes
<1>4. ASSUME NEW u \in Users, NEW r \in UserRecords, UserWritten(u, r)
      PROVE  GrantsReachEngine'
  <2>1. SyncAuth(users', groups, {u}) /\ users' = [users EXCEPT ![u] = r]
        /\ UNCHANGED <<groups, keys, keyStore>>
    BY <1>4 DEF UserWritten, PutUser, rest
  <2>2. EngineGrows
        /\ (u \in Present(users') => Assigned(EffectiveIn(users', groups', u)) \subseteq engine'[u])
    BY <1>1, <2>1, SyncGrows
  <2>3. ASSUME NEW v \in Present(users') \ {AdminUser}
        PROVE  Reached(users', groups', engine', v)
    <3>1. CASE v = u
      BY <2>2, <3>1, ReachedBySync
    <3>2. CASE v # u
      <4>1. v \in Present(users) \ {AdminUser} /\ users'[v] = users[v] /\ v \in Users
        BY <2>1, <2>3, <3>2 DEF Present, IdentityTypes
      <4> QED
        BY <1>2, <2>1, <2>2, <4>1 DEF Reached, EngineGrows
    <3> QED
      BY <3>1, <3>2
  <2> QED
    BY <1>2, <2>1, <2>2, <2>3, KeysStayReached DEF GrantsReachEngine, Reached, KeysReached
<1>5. ASSUME NEW u \in Users, UserDelete(u) PROVE GrantsReachEngine'
  <2>1. users' = [users EXCEPT ![u] = None]
        /\ UNCHANGED <<groups, engine, keys, keyStore>>
    BY <1>5 DEF UserDelete
  <2>2. ASSUME NEW v \in Present(users') \ {AdminUser}
        PROVE  v \in Present(users) \ {AdminUser} /\ users'[v] = users[v]
    BY <2>1, <2>2 DEF Present, IdentityTypes
  <2> QED
    BY <1>2, <2>1, <2>2 DEF GrantsReachEngine, Reached, KeysReached
<1>6. ASSUME UsersList PROVE GrantsReachEngine'
  <2>1. /\ \A v \in Present(users') \ {AdminUser} :
             v \in Present(users) /\ users'[v] = users[v]
        /\ UNCHANGED <<groups, engine, keys, keyStore>>
    BY <1>6 DEF UsersList, Present, IdentityTypes
  <2> QED
    BY <1>2, <2>1 DEF GrantsReachEngine, Reached, KeysReached
<1>7. ASSUME NEW g \in Groups, NEW r \in GroupRecords, GroupWritten(g, r)
      PROVE  GrantsReachEngine'
  <2>1. groups' = [groups EXCEPT ![g] = r] /\ UNCHANGED <<users, keys, keyStore>>
    BY <1>7 DEF GroupWritten, PutGroup, rest
  <2>2. PICK S : SyncAuth(users, groups', S) /\ Naming(g) \cap r.members \subseteq S
    BY <1>7 DEF GroupWritten
  <2>3. EngineGrows
        /\ \A u \in (S \cap Present(users)) \cap Users :
             Assigned(EffectiveIn(users', groups', u)) \subseteq engine'[u]
    BY <1>1, <2>1, <2>2, SyncGrows
  <2>4. ASSUME NEW v \in Present(users') \ {AdminUser}
        PROVE  Reached(users', groups', engine', v)
    <3>1. v \in Present(users) /\ v \in Users
      BY <1>3, <2>1
    <3>2. CASE v \in S
      BY <2>3, <3>1, <3>2, ReachedBySync
    <3>3. CASE v \notin S
      <4>1. Reached(users, groups, engine, v) /\ engine[v] \subseteq engine'[v]
        BY <1>2, <2>1, <2>3, <3>1 DEF EngineGrows
      <4>2. ASSUME NEW h \in users[v].groups \cap Present(groups'), v \in groups'[h].members
            PROVE  h \in Present(groups) /\ groups'[h] = groups[h]
        <5>1. h # g
          <6> SUFFICES ASSUME h = g PROVE FALSE
            OBVIOUS
          <6>1. groups'[g] = r
            BY <2>1, <4>2 DEF Present, IdentityTypes
          <6>2. v \in Naming(g) \cap r.members
            BY <3>1, <4>2, <6>1 DEF Naming
          <6> QED
            BY <2>2, <3>3, <6>2
        <5> QED
          BY <2>1, <5>1 DEF Present, IdentityTypes
      <4> QED
        BY <2>1, <4>1, <4>2 DEF Reached
    <3> QED
      BY <3>2, <3>3
  <2> QED
    BY <1>2, <2>1, <2>3, <2>4, KeysStayReached DEF GrantsReachEngine, Reached, KeysReached
<1>8. ASSUME NEW g \in Groups, GroupDelete(g) PROVE GrantsReachEngine'
  <2>1. groups' = [groups EXCEPT ![g] = None] /\ UNCHANGED <<users, keys, keyStore>>
    BY <1>8 DEF GroupDelete
  <2>2. EngineGrows
    BY <1>8, SyncGrows DEF GroupDelete
  <2>3. \A h \in Present(groups') : h \in Present(groups) /\ groups'[h] = groups[h]
    BY <2>1 DEF Present, IdentityTypes
  <2>4. \A v \in Present(users') \ {AdminUser} : Reached(users', groups', engine', v)
    BY <1>2, <1>3, <2>1, <2>2, <2>3 DEF Reached, EngineGrows
  <2> QED
    BY <1>2, <2>1, <2>2, <2>4, KeysStayReached DEF GrantsReachEngine, Reached, KeysReached
<1>9. ASSUME NEW k \in KeyIds, NEW o \in Users \cup {None}, NEW t \in Tokens,
             NEW R \in RoleSets \cup {{}}, ApiKeyCreate(k, o, t, R)
      PROVE  GrantsReachEngine'
  <2> DEFINE new == [token |-> t, owner |-> o, roles |-> KeyRoles(o, R), revoked |-> FALSE]
  <2>1. /\ keys' = [keys EXCEPT ![k] = new]
        /\ keyStore' = [keyStore EXCEPT ![k] = "active"]
        /\ UNCHANGED <<users, groups>>
    BY <1>9 DEF ApiKeyCreate
  <2>2. EngineGrows
    BY <1>9 DEF ApiKeyCreate, EngineGrows, IdentityTypes
  <2>3. Assigned(KeyRoles(o, R)) \subseteq engine'[k]
    <3>1. attached
      BY <1>1
    <3>2. k \in DOMAIN engine
      BY DEF IdentityTypes
    <3>3. engine'[k] = engine[k] \cup Assigned(KeyRoles(o, R))
      BY <1>9, <3>1, <3>2, IdentityAssumption DEF ApiKeyCreate
    <3> QED
      BY <3>3
  <2>4. new.roles = KeyRoles(o, R)
    OBVIOUS
  <2> HIDE DEF new
  <2>5. ASSUME NEW j \in Present(keys'), keyStore'[j] # "absent"
        PROVE  Assigned(keys'[j].roles) \subseteq engine'[j]
    <3>1. CASE j = k
      BY <2>1, <2>3, <2>4, <3>1 DEF IdentityTypes
    <3>2. CASE j # k
      <4>1. j \in KeyIds /\ j \in Present(keys) /\ keys'[j] = keys[j]
            /\ keyStore'[j] = keyStore[j]
        BY <2>1, <2>5, <3>2 DEF Present, IdentityTypes
      <4> QED
        BY <1>2, <2>2, <2>5, <4>1 DEF KeysReached, EngineGrows
    <3> QED
      BY <3>1, <3>2
  <2>6. \A v \in Present(users') \ {AdminUser} : Reached(users', groups', engine', v)
    BY <1>2, <1>3, <2>1, <2>2 DEF Reached, EngineGrows
  <2> QED
    BY <2>5, <2>6 DEF GrantsReachEngine, Reached
<1>10. ASSUME NEW S \in SUBSET Present(keys), RevokeIn(S) PROVE GrantsReachEngine'
  <2>1. UNCHANGED <<users, groups, engine>>
    BY <1>10 DEF RevokeIn
  <2>2. ASSUME NEW j \in Present(keys'), keyStore'[j] # "absent"
        PROVE  j \in Present(keys) /\ keyStore[j] # "absent"
               /\ keys'[j].roles = keys[j].roles
    <3>1. j \in KeyIds
      BY <1>10 DEF RevokeIn, Present
    <3>2. CASE j \in S
      <4>1. keys[j] \in KeyRecords /\ keys'[j] = [keys[j] EXCEPT !.revoked = TRUE]
        BY <1>10, <3>1, <3>2 DEF RevokeIn, Present, IdentityTypes
      <4> QED
        BY <1>10, <2>2, <3>1, <3>2, <4>1, RevokedRecord DEF RevokeIn
    <3>3. CASE j \notin S
      BY <1>10, <2>2, <3>1, <3>3 DEF RevokeIn, Present, IdentityTypes
    <3> QED
      BY <3>2, <3>3
  <2> QED
    BY <1>2, <2>1, <2>2 DEF GrantsReachEngine, Reached, KeysReached
<1>11. ASSUME NEW u \in Users, NEW r \in UNION RoleSets, SignIn(u, r)
       PROVE  GrantsReachEngine'
  <2>1. UNCHANGED <<users, groups, keys, keyStore>> /\ EngineGrows
    BY <1>11 DEF SignIn, EngineGrows, IdentityTypes
  <2>2. \A v \in Present(users') \ {AdminUser} : Reached(users', groups', engine', v)
    BY <1>2, <1>3, <2>1 DEF Reached, EngineGrows
  <2> QED
    BY <1>2, <2>1, <2>2, KeysStayReached DEF GrantsReachEngine, Reached, KeysReached
<1>12. CASE UNCHANGED <<users, groups, idam, engine, rest>>
  BY <1>2, <1>12 DEF GrantsReachEngine, Reached, KeysReached, rest
<1> QED
  BY <1>4, <1>5, <1>6, <1>7, <1>8, <1>9, <1>10, <1>11, <1>12
  DEF IdentityChange, KeyCreated

\* Every step leaves the authoriser with what the records grant.
LEMMA GrantsStep ==
  ASSUME ProcessInv, IdentityTypes, GrantsReachEngine, [AdminNext]_adminVars
  PROVE  GrantsReachEngine'
<1>1. ASSUME SeedEntry, Seed[entry].kind = "key", SeedKey(Seed[entry])
      PROVE  GrantsReachEngine'
  BY <1>1, SeedKeyDetached DEF GrantsReachEngine
<1>2. CASE Attach
  <2>1. /\ UNCHANGED <<users, groups, keys>>
        /\ keyStore' = [k \in KeyIds |-> "absent"]
        /\ \A u \in Present(users) :
             Assigned(EffectiveIn(users, groups, u)) \subseteq engine'[u]
    BY <1>2 DEF Attach, IdentityTypes, Present
  <2>2. \A u \in Present(users) : Reached(users, groups, engine', u)
    BY <2>1, ReachedBySync
  <2>3. KeysReached(keys', keyStore', engine')
    BY <2>1 DEF KeysReached, Present, IdentityTypes
  <2> QED
    BY <2>1, <2>2, <2>3 DEF GrantsReachEngine, Reached, KeysReached
<1>3. CASE Restart
  BY <1>3 DEF Restart, GrantsReachEngine
<1> QED
  BY <1>1, <1>2, <1>3, GrantsKept, ProcessEffect

\* While the server serves, its authoriser knows every role that the records of
\* users, agreed groups and keys grant, whatever is created, updated, bound and
\* deleted, and in whichever order.
THEOREM GrantsAlwaysReachEngine == AdminSpec => []GrantsReachEngine
<1>1. AdminInit => ProcessInv /\ IdentityTypes /\ GrantsReachEngine
  BY CatalogueStart, TypesStart DEF AdminInit, IdentityInit, GrantsReachEngine
<1>2. ProcessInv /\ IdentityTypes /\ GrantsReachEngine /\ [AdminNext]_adminVars =>
        (ProcessInv /\ IdentityTypes /\ GrantsReachEngine)'
  BY ProcessStep, TypesStep, GrantsStep
<1> QED
  BY <1>1, <1>2, PTL DEF AdminSpec

-----------------------------------------------------------------------------
(* A start and its seed file.                                                *)

NoLater(i, n) ==
  \A j \in (i + 1) .. n :
    ~(Seed[j].kind = Seed[i].kind /\ Subject(Seed[j]) = Subject(Seed[i]))

\* The tables say what the entry says.
EntryHolds(e) ==
  /\ e.kind = "user" => \A f \in DOMAIN e.payload : users[e.name][f] = e.payload[f]
  /\ e.kind = "group" => \A f \in DOMAIN e.payload : groups[e.name][f] = e.payload[f]
  /\ e.kind = "collection" => records[e.name] = ListOf(e) /\ acl[e.name] = ListOf(e)
  /\ e.kind = "key" =>
       \E k \in KeyIds : ValidOf(e.owner) = {k} /\ keys[k].token = e.token

OneKeyEach == \A u \in Users : \A j, k \in ValidOf(u) : j = k

Seeding ==
  phase = "starting" =>
    /\ entry <= Len(Seed) + 1
    /\ OneKeyEach
    /\ \A i \in 1 .. (entry - 1) : NoLater(i, entry - 1) => EntryHolds(Seed[i])

\* The fields that a payload names have its values.
LEMMA OverHolds ==
  ASSUME NEW p, NEW r
  PROVE  \A f \in DOMAIN p : Over(p, r)[f] = p[f]
BY DEF Over

\* A key of the seed becomes the one valid key of its owner; the keys of other
\* owners stay as they are.
LEMMA SeedKeyEffect ==
  ASSUME IdentityTypes, NEW e, e.owner \in Users, e.token \in Tokens, e.roles \in SUBSET Roles,
         SeedKey(e), OneKeyEach
  PROVE  /\ \E k \in KeyIds : ValidOf(e.owner)' = {k} /\ keys'[k].token = e.token
         /\ \A u \in Users \ {e.owner} :
              /\ ValidOf(u)' = ValidOf(u)
              /\ \A k \in ValidOf(u) : keys'[k] = keys[k]
<1>1. CASE /\ \E k \in Present(keys) : /\ keys[k].owner = e.owner
                                       /\ keys[k].token = e.token /\ ~keys[k].revoked
           /\ UNCHANGED idVars
  <2>1. keys' = keys
    BY <1>1 DEF idVars
  <2>2. PICK k \in KeyIds : k \in ValidOf(e.owner) /\ keys[k].token = e.token
    BY <1>1 DEF ValidOf, Present, IdentityTypes
  <2>3. ValidOf(e.owner) = {k}
    BY <2>2 DEF OneKeyEach
  <2>4. \A u \in Users : ValidOf(u)' = ValidOf(u)
    BY <2>1 DEF ValidOf, Present
  <2> QED
    BY <2>1, <2>2, <2>3, <2>4
<1>2. CASE ~ \E k \in Present(keys) : /\ keys[k].owner = e.owner
                                      /\ keys[k].token = e.token /\ ~keys[k].revoked
  <2> DEFINE new == [token |-> e.token, owner |-> e.owner,
                     roles |-> KeyRoles(e.owner, e.roles), revoked |-> FALSE]
             marked == [j \in KeyIds |-> IF j \in OthersOf(e)
                                           THEN [keys[j] EXCEPT !.revoked = TRUE]
                                           ELSE keys[j]]
  <2>1. PICK k \in KeyIds : keys[k] = None /\ keys' = [marked EXCEPT ![k] = new]
    BY <1>2 DEF SeedKey
  <2>2. new \in KeyRecords
    BY GrantedRoles DEF KeyRecords
  <2>3. new # None /\ new.owner = e.owner /\ new.token = e.token /\ ~new.revoked
    BY <2>2, IdentityAssumption
  <2>4. ASSUME NEW j \in OthersOf(e) PROVE keys'[j].revoked /\ j \in KeyIds /\ j # k
    <3>1. j \in KeyIds /\ keys[j] \in KeyRecords /\ j # k
      BY <2>1 DEF OthersOf, Present, IdentityTypes
    <3>2. keys'[j] = [keys[j] EXCEPT !.revoked = TRUE]
      BY <2>1, <3>1
    <3> QED
      BY <3>1, <3>2, RevokedRecord
  <2>5. ASSUME NEW j \in KeyIds \ OthersOf(e), j # k PROVE keys'[j] = keys[j]
    BY <2>1, <2>5
  <2>6. keys'[k] = new /\ DOMAIN keys' = KeyIds /\ DOMAIN keys = KeyIds
    BY <2>1 DEF IdentityTypes
  <2> HIDE DEF new, marked
  <2>7. ASSUME NEW j \in ValidOf(e.owner) PROVE j \in OthersOf(e)
    BY <1>2 DEF ValidOf, OthersOf
  <2>8. ValidOf(e.owner)' = {k}
    <3>1. k \in ValidOf(e.owner)'
      BY <2>3, <2>6 DEF ValidOf, Present
    <3>2. ASSUME NEW j \in ValidOf(e.owner)', j # k PROVE FALSE
      <4>1. j \in KeyIds /\ j \notin OthersOf(e)
        BY <2>4, <2>6 DEF ValidOf, Present
      <4>2. j \in ValidOf(e.owner)
        BY <2>5, <2>6, <3>2, <4>1 DEF ValidOf, Present
      <4> QED
        BY <2>7, <4>1, <4>2
    <3> QED
      BY <3>1, <3>2
  <2>9. ASSUME NEW u \in Users, u # e.owner
        PROVE  ValidOf(u)' = ValidOf(u) /\ \A j \in ValidOf(u) : keys'[j] = keys[j]
    <3>1. k \notin ValidOf(u)' /\ k \notin ValidOf(u)
      BY <2>1, <2>3, <2>6, <2>9 DEF ValidOf, Present
    <3>2. ASSUME NEW j \in OthersOf(e) PROVE j \notin ValidOf(u)' /\ j \notin ValidOf(u)
      BY <2>4, <2>9 DEF ValidOf, OthersOf
    <3>3. ASSUME NEW j \in KeyIds \ OthersOf(e), j # k
          PROVE  j \in ValidOf(u)' <=> j \in ValidOf(u)
      BY <2>5, <2>6, <3>3 DEF ValidOf, Present
    <3>4. ValidOf(u)' \subseteq KeyIds /\ ValidOf(u) \subseteq KeyIds
      BY <2>6 DEF ValidOf, Present
    <3> QED
      BY <2>5, <3>1, <3>2, <3>3, <3>4
  <2> QED
    BY <2>3, <2>6, <2>8, <2>9
<1> QED
  BY <1>1, <1>2 DEF SeedKey

\* An entry of a user puts it as the seed says and leaves the others.
LEMMA SeedUserEffect ==
  ASSUME IdentityTypes, NEW e, e.name \in Users, SeedUser(e)
  PROVE  /\ UNCHANGED <<groups, keys>>
         /\ \A f \in DOMAIN e.payload : users'[e.name][f] = e.payload[f]
         /\ \A u \in Users : u # e.name => users'[u] = users[u]
<1>1. PICK r : users' = [users EXCEPT ![e.name] = Over(e.payload, r)]
  BY DEF SeedUser, UserCreate, UserUpdate, PutUser
<1>2. users'[e.name] = Over(e.payload, r)
  BY <1>1 DEF IdentityTypes
<1>3. \A f \in DOMAIN e.payload : users'[e.name][f] = e.payload[f]
  BY <1>2, OverHolds
<1>4. UNCHANGED <<groups, keys>>
  BY DEF SeedUser, UserCreate, UserUpdate
<1> QED
  BY <1>1, <1>3, <1>4 DEF IdentityTypes

\* An entry of a group puts it as the seed says and leaves the others.
LEMMA SeedGroupEffect ==
  ASSUME IdentityTypes, NEW e, e.name \in Groups, SeedGroup(e)
  PROVE  /\ UNCHANGED <<users, keys>>
         /\ \A f \in DOMAIN e.payload : groups'[e.name][f] = e.payload[f]
         /\ \A g \in Groups : g # e.name => groups'[g] = groups[g]
<1>1. PICK r : groups' = [groups EXCEPT ![e.name] = Over(e.payload, r)]
  BY DEF SeedGroup, GroupCreate, GroupUpdate, PutGroup
<1>2. groups'[e.name] = Over(e.payload, r)
  BY <1>1 DEF IdentityTypes
<1>3. \A f \in DOMAIN e.payload : groups'[e.name][f] = e.payload[f]
  BY <1>2, OverHolds
<1>4. UNCHANGED <<users, keys>>
  BY DEF SeedGroup, GroupCreate, GroupUpdate
<1> QED
  BY <1>1, <1>3, <1>4 DEF IdentityTypes

\* An entry holds once it is applied, and what the start has applied of other
\* subjects holds as before.
LEMMA EntryEffect ==
  ASSUME IdentityTypes, CatalogueInv, ProcessInv, OneKeyEach, SeedEntry,
         NEW e \in SeedEntries, e = Seed[entry]
  PROVE  /\ OneKeyEach' /\ EntryHolds(e)'
         /\ \A d \in SeedEntries :
              EntryHolds(d) /\ ~(e.kind = d.kind /\ Subject(e) = Subject(d)) =>
                EntryHolds(d)'
<1> USE DEF SeedEntries, Subject
<1>1. ASSUME UNCHANGED keys
      PROVE  /\ OneKeyEach'
             /\ \A u : ValidOf(u)' = ValidOf(u)
  BY <1>1 DEF OneKeyEach, ValidOf, Present
<1>2. CASE e.kind = "user"
  <2>1. e.name \in Users /\ SeedUser(e) /\ UNCHANGED catVars
    BY <1>2 DEF SeedEntry
  <2>2. /\ UNCHANGED <<groups, keys, records, acl>>
        /\ \A f \in DOMAIN e.payload : users'[e.name][f] = e.payload[f]
        /\ \A u \in Users : u # e.name => users'[u] = users[u]
    BY <2>1, SeedUserEffect DEF catVars
  <2>3. OneKeyEach' /\ \A u : ValidOf(u)' = ValidOf(u)
    BY <1>1, <2>2
  <2>4. EntryHolds(e)'
    BY <1>2, <2>2 DEF EntryHolds
  <2>5. ASSUME NEW d \in SeedEntries, EntryHolds(d),
               ~(e.kind = d.kind /\ Subject(e) = Subject(d))
        PROVE  EntryHolds(d)'
    <3>1. d.kind = "user" => d.name \in Users /\ d.name # e.name
      BY <1>2, <2>5
    <3> QED
      BY <2>2, <2>3, <2>5, <3>1 DEF EntryHolds
  <2> QED
    BY <2>3, <2>4, <2>5
<1>3. CASE e.kind = "group"
  <2>1. e.name \in Groups /\ SeedGroup(e) /\ UNCHANGED catVars
    BY <1>3 DEF SeedEntry
  <2>2. /\ UNCHANGED <<users, keys, records, acl>>
        /\ \A f \in DOMAIN e.payload : groups'[e.name][f] = e.payload[f]
        /\ \A g \in Groups : g # e.name => groups'[g] = groups[g]
    BY <2>1, SeedGroupEffect DEF catVars
  <2>3. OneKeyEach' /\ \A u : ValidOf(u)' = ValidOf(u)
    BY <1>1, <2>2
  <2>4. EntryHolds(e)'
    BY <1>3, <2>2 DEF EntryHolds
  <2>5. ASSUME NEW d \in SeedEntries, EntryHolds(d),
               ~(e.kind = d.kind /\ Subject(e) = Subject(d))
        PROVE  EntryHolds(d)'
    <3>1. d.kind = "group" => d.name \in Groups /\ d.name # e.name
      BY <1>3, <2>5
    <3> QED
      BY <2>2, <2>3, <2>5, <3>1 DEF EntryHolds
  <2> QED
    BY <2>3, <2>4, <2>5
<1>4. CASE e.kind = "collection"
  <2>1. /\ e.name \in Collections /\ UNCHANGED idVars
        /\ records' = [records EXCEPT ![e.name] = ListOf(e)]
        /\ acl' = [acl EXCEPT ![e.name] = ListOf(e)]
    BY <1>4 DEF SeedEntry, SeedCollection
  <2>2. UNCHANGED <<users, groups, keys>>
    BY <2>1 DEF idVars
  <2>3. OneKeyEach' /\ \A u : ValidOf(u)' = ValidOf(u)
    BY <1>1, <2>2
  <2>4. EntryHolds(e)'
    BY <1>4, <2>1 DEF EntryHolds, CatalogueInv, CatalogueTypes
  <2>5. ASSUME NEW d \in SeedEntries, EntryHolds(d),
               ~(e.kind = d.kind /\ Subject(e) = Subject(d))
        PROVE  EntryHolds(d)'
    <3>1. d.kind = "collection" => d.name \in Collections /\ d.name # e.name
      BY <1>4, <2>5
    <3>2. d.kind = "collection" => records'[d.name] = ListOf(d) /\ acl'[d.name] = ListOf(d)
      BY <2>1, <2>5, <3>1 DEF EntryHolds, CatalogueInv, CatalogueTypes
    <3> QED
      BY <2>2, <2>3, <2>5, <3>2 DEF EntryHolds
  <2> QED
    BY <2>3, <2>4, <2>5
<1>5. CASE e.kind = "key"
  <2>1. /\ e.owner \in Users /\ e.token \in Tokens /\ e.roles \in SUBSET Roles
        /\ SeedKey(e) /\ UNCHANGED catVars
    BY <1>5 DEF SeedEntry
  <2>2. UNCHANGED <<users, groups, records, acl>>
    BY <2>1 DEF SeedKey, idVars, catVars
  <2>3. /\ \E k \in KeyIds : ValidOf(e.owner)' = {k} /\ keys'[k].token = e.token
        /\ \A u \in Users \ {e.owner} :
             /\ ValidOf(u)' = ValidOf(u)
             /\ \A k \in ValidOf(u) : keys'[k] = keys[k]
    BY <2>1, SeedKeyEffect
  <2>4. OneKeyEach'
    BY <2>3 DEF OneKeyEach
  <2>5. EntryHolds(e)'
    BY <1>5, <2>3 DEF EntryHolds
  <2>6. ASSUME NEW d \in SeedEntries, EntryHolds(d),
               ~(e.kind = d.kind /\ Subject(e) = Subject(d))
        PROVE  EntryHolds(d)'
    <3>1. d.kind = "key" => d.owner \in Users \ {e.owner}
      BY <1>5, <2>6
    <3>2. ASSUME d.kind = "key"
          PROVE  \E k \in KeyIds : ValidOf(d.owner)' = {k} /\ keys'[k].token = d.token
      <4>1. PICK k \in KeyIds : ValidOf(d.owner) = {k} /\ keys[k].token = d.token
        BY <2>6, <3>2 DEF EntryHolds
      <4> QED
        BY <2>3, <3>1, <3>2, <4>1
    <3> QED
      BY <2>2, <2>6, <3>2 DEF EntryHolds
  <2> QED
    BY <2>4, <2>5, <2>6
<1> QED
  BY <1>2, <1>3, <1>4, <1>5

\* An entry adds its own effect; an earlier one of the same subject loses its.
LEMMA SeedingStep ==
  ASSUME IdentityTypes, CatalogueInv, ProcessInv, Seeding, SeedEntry
  PROVE  Seeding'
<1> PICK n : n = entry
  OBVIOUS
<1>1. /\ phase = "starting" /\ entry' = n + 1
      /\ n \in Nat \ {0} /\ n <= Len(Seed) /\ Len(Seed) \in Nat
  BY AdministrationAssumption DEF SeedEntry, ProcessInv
<1>2. OneKeyEach /\ \A i \in 1 .. (n - 1) : NoLater(i, n - 1) => EntryHolds(Seed[i])
  BY <1>1 DEF Seeding
<1>3. \A i \in 1 .. n : Seed[i] \in SeedEntries
  BY <1>1, AdministrationAssumption
<1>4. /\ OneKeyEach' /\ EntryHolds(Seed[n])'
      /\ \A d \in SeedEntries :
           EntryHolds(d) /\ ~(Seed[n].kind = d.kind /\ Subject(Seed[n]) = Subject(d)) =>
             EntryHolds(d)'
  <2>1. Seed[n] \in SeedEntries
    BY <1>1, <1>3
  <2> QED
    BY <1>2, <2>1, EntryEffect
<1>5. ASSUME NEW i \in 1 .. (n - 1), NoLater(i, n) PROVE EntryHolds(Seed[i])'
  <2>1. /\ NoLater(i, n - 1) /\ Seed[i] \in SeedEntries
        /\ ~(Seed[n].kind = Seed[i].kind /\ Subject(Seed[n]) = Subject(Seed[i]))
    BY <1>1, <1>3, <1>5 DEF NoLater
  <2> QED
    BY <1>2, <1>4, <2>1
<1>6. \A i \in 1 .. n : NoLater(i, n) => EntryHolds(Seed[i])'
  BY <1>1, <1>4, <1>5
<1>7. entry' - 1 = n /\ entry' <= Len(Seed) + 1
  BY <1>1
<1> QED
  BY <1>4, <1>6, <1>7 DEF Seeding, NoLater

\* Every step keeps what the entries of the seed have put so far.
LEMMA SeedingKept ==
  ASSUME IdentityTypes, CatalogueInv, ProcessInv, Seeding, [AdminNext]_adminVars
  PROVE  Seeding'
<1>1. CASE Restart
  <2>1. entry' = 1 /\ keys' = [k \in KeyIds |-> None]
    BY <1>1 DEF Restart
  <2>2. OneKeyEach'
    BY <2>1 DEF OneKeyEach, ValidOf, Present
  <2> QED
    BY <2>1, <2>2, AdministrationAssumption DEF Seeding
<1>2. CASE SeedFails \/ Attach
  <2>1. phase' # "starting"
    BY <1>2 DEF SeedFails, Attach
  <2> QED
    BY <2>1 DEF Seeding
<1>3. CASE Request \/ Return
  <2>1. phase' # "starting"
    BY <1>3 DEF Request, Return, processVars
  <2> QED
    BY <2>1 DEF Seeding
<1>4. CASE UNCHANGED adminVars
  <2>1. UNCHANGED <<phase, entry, users, groups, keys, records, acl>>
    BY <1>4 DEF adminVars, idVars, catVars, processVars
  <2> QED
    BY <2>1 DEF Seeding, OneKeyEach, ValidOf, Present, EntryHolds, NoLater
<1> QED
  BY <1>1, <1>2, <1>3, <1>4, SeedingStep DEF AdminNext

\* Every start converges to the seed file, whatever it names and however often:
\* the last entry about a user, a group or a collection has its fields and roles
\* in the tables, and of the keys that it lists for a user the token of the last
\* is the one that is left valid.
THEOREM SeedAlwaysConverges == AdminSpec => []SeedConverges
<1>1. AdminInit => ProcessInv /\ CatalogueInv /\ IdentityTypes /\ Seeding
  <2> SUFFICES ASSUME AdminInit PROVE Seeding
    BY CatalogueStart, TypesStart
  <2>1. OneKeyEach
    BY DEF AdminInit, IdentityInit, OneKeyEach, ValidOf, Present
  <2> QED
    BY <2>1, AdministrationAssumption DEF AdminInit, Seeding
<1>2. ProcessInv /\ CatalogueInv /\ IdentityTypes /\ Seeding /\ [AdminNext]_adminVars =>
        (ProcessInv /\ CatalogueInv /\ IdentityTypes /\ Seeding)'
  BY ProcessStep, CatalogueStep, TypesStep, SeedingKept
<1>3. ProcessInv /\ Seeding => SeedConverges
  <2> SUFFICES ASSUME ProcessInv, Seeding, phase = "starting", entry > Len(Seed),
                      NEW i \in 1 .. Len(Seed), IsLast(i)
               PROVE  EntryHolds(Seed[i])
    BY DEF SeedConverges, EntryHolds
  <2>1. entry - 1 = Len(Seed) /\ Len(Seed) \in Nat
    BY AdministrationAssumption DEF ProcessInv, Seeding
  <2>2. NoLater(i, Len(Seed))
    BY DEF IsLast, NoLater
  <2> QED
    BY <2>1, <2>2 DEF Seeding
<1> QED
  BY <1>1, <1>2, <1>3, PTL DEF AdminSpec

-----------------------------------------------------------------------------
(* The tables of tools and routes.                                           *)

\* The tools whose operation asks for the role admin.
RoleTools ==
  {"admin_profile_create", "admin_profile_update", "admin_profile_delete",
   "admin_user_create", "admin_user_update", "admin_user_delete",
   "admin_group_create", "admin_group_update", "admin_group_delete",
   "admin_api_key_create", "admin_api_key_revoke", "admin_collection_create",
   "admin_collection_update", "admin_collection_delete",
   "admin_source_config_create", "admin_source_config_update",
   "admin_source_config_delete", "admin_rbac_bind", "admin_rbac_unbind"}

\* The operations that only a route performs.
RoutesOnly ==
  {"logs", "docs_catalogue", "raw_document", "record_docs_action", "roles_list", "role_get",
   "admin_role_create", "admin_role_update", "admin_role_delete", "policies_list",
   "policies_update", "admin_api_key_revoke_token_hash", "index_watch_get",
   "idam_permissions", "idam_resource_registry", "idam_binding_update",
   "structure_extract_job_get"}

\* What the proofs use of the guard of a tool.
Guarded(n, guard) ==
  /\ n \notin RoutesOnly
  /\ guard = "role" <=> n \in RoleTools

GuardTable(f) == \A n \in DOMAIN f : Guarded(n, f[n])

\* Tables are judged entry by entry.
LEMMA EachGuarded ==
  ASSUME NEW S, NEW x, \A n \in S : Guarded(n, x)
  PROVE  GuardTable(Each(S, x))
  BY DEF GuardTable, Each

\* An entry of merged tables is an entry of one of them.
LEMMA MergedEntry ==
  ASSUME NEW T, NEW n \in DOMAIN Merged(T)
  PROVE  \E t \in T : n \in DOMAIN t /\ Merged(T)[n] = t[n]
<1>1. \E t \in T : n \in DOMAIN t
  BY DEF Merged
<1> QED
  BY <1>1 DEF Merged

\* Tables that are right one by one are right when they are merged.
LEMMA MergedGuarded ==
  ASSUME NEW T, \A t \in T : GuardTable(t)
  PROVE  GuardTable(Merged(T))
  BY MergedEntry DEF GuardTable

\* The whole table of guards: "role" guards the tools of the role admin and nothing else.
LEMMA GuardsAre == GuardTable(Guards)
<1> USE DEF Guarded, RoleTools, RoutesOnly
<1>1. GuardTable(AccountTools) /\ GuardTable(CatalogueTools)
  BY EachGuarded, MergedGuarded DEF AccountTools, CatalogueTools
<1>2. GuardTable(IngestTools) /\ GuardTable(ParserTools) /\ GuardTable(SearchTools)
  BY EachGuarded, MergedGuarded DEF IngestTools, ParserTools, SearchTools
<1>3. GuardTable(RemovalTools) /\ GuardTable(JobTools) /\ GuardTable(ServiceTools)
  BY EachGuarded, MergedGuarded DEF RemovalTools, JobTools, ServiceTools
<1>4. GuardTable(DocumentTools) /\ GuardTable(CorpusTools) /\ GuardTable(WatchTools)
  BY EachGuarded, MergedGuarded DEF DocumentTools, CorpusTools, WatchTools
<1> HIDE DEF Guarded, RoleTools, RoutesOnly
<1> QED
  BY <1>1, <1>2, <1>3, <1>4, MergedGuarded DEF Guards

\* The tools whose first check demands the role admin.
AdminTools ==
  RoleTools \cup {"job_delete", "users_list", "user_get", "groups_list", "group_get",
                  "api_keys_list", "rbac_bindings_list"}

\* The sets of names by which RequiredPermission decides do not overlap.
LEMMA PermissionSets ==
  /\ AdminTools \cap Configuring = {} /\ AdminTools \cap Reading = {}
  /\ Configuring \cap Reading = {}
<1>1. AdminTools \cap Configuring = {} /\ Configuring \cap Reading = {}
  BY DEF AdminTools, RoleTools, Configuring, Reading
<1>2. AdminTools \cap Reading = {}
  BY DEF AdminTools, RoleTools, Reading
<1> QED
  BY <1>1, <1>2

\* The permission that the first check demands of a tool.
LEMMA RequiredIs ==
  ASSUME NEW t
  PROVE  /\ t \in Administrative => t \in AdminTools
         /\ t \in Tools /\ t \in AdminTools => t \in Administrative
         /\ RequiredPermission(t) \in
              {"admin", "source.configure", "collection.read", "collection.write"}
         /\ RequiredPermission(t) = "admin" <=> t \in Administrative
         /\ RequiredPermission(t) = "collection.read" <=> t \in Reading
<1>1. t \in Administrative => t \in AdminTools
  BY GuardsAre DEF Administrative, AdminTools, GuardTable, Guarded, Tools
<1>2. t \in Tools /\ t \in AdminTools => t \in Administrative
  BY GuardsAre DEF Administrative, AdminTools, GuardTable, Guarded, Tools
<1>3. /\ t \in Administrative => t \notin Configuring /\ t \notin Reading
      /\ t \in Configuring => t \notin Reading
  BY <1>1, PermissionSets
<1> QED
  BY <1>1, <1>2, <1>3 DEF RequiredPermission

\* A table of two values.
LEMMA TwoValues ==
  ASSUME NEW S, NEW x, NEW R, NEW y, NEW n \in DOMAIN Merged({Each(S, x), Each(R, y)})
  PROVE  LET f == Merged({Each(S, x), Each(R, y)}) IN
         (n \in S /\ f[n] = x) \/ (n \in R /\ f[n] = y)
  BY MergedEntry DEF Each

\* The first check demands the same permission on a collection as without one.
LEMMA PointPermission ==
  ASSUME NEW t \in DOMAIN PointTools
  PROVE  /\ PointTools[t] = RequiredPermission(t)
         /\ t \notin AdminTools
<1> DEFINE reads == {"search", "search_explain", "retrieve", "collection_get", "index_list"}
           writes == {"ingest_text", "ingest_upload", "ingest_reference", "ingest_preview",
                      "bulk_index", "delete_by_id", "delete_by_filter", "reindex_run",
                      "retention_run"}
<1>1. \/ t \in reads /\ PointTools[t] = "collection.read"
      \/ t \in writes /\ PointTools[t] = "collection.write"
  BY TwoValues DEF PointTools
<1>2. /\ reads \cap AdminTools = {} /\ writes \cap AdminTools = {}
      /\ reads \cap Configuring = {} /\ writes \cap Configuring = {}
  BY DEF AdminTools, RoleTools, Configuring
<1>3. reads \subseteq Reading /\ writes \cap Reading = {}
  BY DEF Reading
<1>4. t \notin Administrative
  BY <1>1, <1>2, RequiredIs
<1> QED
  BY <1>1, <1>2, <1>3, <1>4 DEF RequiredPermission

\* A route demands as much as the tool: the role admin, no more than a reader
\* has, or what lies between.
Fits(n, permission) ==
  \/ n \in RoutesOnly \cup {"user_get", "group_get"}
  \/ /\ permission \in {"admin", "source.configure", "collection.read", "collection.write"}
     /\ permission = "admin" <=> n \in AdminTools
     /\ permission = "collection.read" <=> n \in Reading

RouteTable(f) == \A n \in DOMAIN f : Fits(n, f[n])

\* Routes that share a permission are judged by it.
LEMMA EachFits ==
  ASSUME NEW S, NEW x, \A n \in S : Fits(n, x)
  PROVE  RouteTable(Each(S, x))
  BY DEF RouteTable, Each

\* Route tables that fit one by one fit when they are merged.
LEMMA MergedFits ==
  ASSUME NEW T, \A t \in T : RouteTable(t)
  PROVE  RouteTable(Merged(T))
  BY MergedEntry DEF RouteTable

\* The whole table of routes.
LEMMA RoutesFit == RouteTable(RoutePermission)
<1> USE EachFits, MergedFits DEF Fits, AdminTools, RoleTools, RoutesOnly, Reading
<1>1. RouteTable(SystemRoutes)
  BY DEF SystemRoutes
<1>2. RouteTable(AccountRoutes)
  BY DEF AccountRoutes
<1>3. RouteTable(GroupRoutes)
  BY DEF GroupRoutes
<1>4. RouteTable(KeyRoutes)
  BY DEF KeyRoutes
<1>5. RouteTable(CollectionRoutes)
  BY DEF CollectionRoutes
<1>6. RouteTable(WatchRoutes)
  BY DEF WatchRoutes
<1>7. RouteTable(WatchChangeRoutes)
  BY DEF WatchChangeRoutes
<1>8. RouteTable(SourceRoutes)
  BY DEF SourceRoutes
<1>9. RouteTable(BindingRoutes)
  BY DEF BindingRoutes
<1>10. RouteTable(FileRoutes)
  BY DEF FileRoutes
<1>11. RouteTable(DocumentRoutes)
  BY DEF DocumentRoutes
<1>12. RouteTable(ExtractRoutes)
  BY DEF ExtractRoutes
<1>13. RouteTable(CorpusRoutes)
  BY DEF CorpusRoutes
<1>14. RouteTable(TemplateRoutes)
  BY DEF TemplateRoutes
<1> HIDE DEF Fits, AdminTools, RoleTools, RoutesOnly, Reading
<1> QED
  BY <1>1, <1>2, <1>3, <1>4, <1>5, <1>6, <1>7, <1>8, <1>9, <1>10, <1>11, <1>12, <1>13,
     <1>14 DEF RoutePermission

-----------------------------------------------------------------------------
(* The checks of a call.                                                     *)

\* What one role of a table gives.
LEMMA OneTable ==
  ASSUME NEW table, NEW R, NEW permission
  PROVE  Gives(UNION {table[r] : r \in R}, permission) <=>
           \E r \in R : Gives(table[r], permission)
  BY DEF Gives

\* A key is asked for nothing that its roles do not give it, and no more is a
\* session.
LEMMA RequiredOf ==
  ASSUME NEW i \in Identities, NEW permission
  PROVE  /\ RequirePermission(i, permission) <=> Gives(i.permissions, permission)
         /\ RequirePermission(i, permission) <=> ByRole(i, permission)
         /\ ~i.session => i.granted = i.permissions
<1>1. ASSUME NEW p, i = ByKey(p)
      PROVE  /\ RequirePermission(i, permission) <=> Gives(i.permissions, permission)
             /\ RequirePermission(i, permission) <=> ByRole(i, permission)
             /\ i.granted = i.permissions
  <2>1. /\ ~i.session /\ i.roles = engine[p] /\ i.permissions = Granted(p)
        /\ i.granted = Granted(p)
    BY <1>1 DEF ByKey
  <2>2. Gives(Granted(p), permission) <=>
          \E r \in engine[p] \cap DOMAIN overlay : Gives(overlay[r], permission)
    BY OneTable DEF Granted
  <2>3. TableOf(i) = overlay
    BY <2>1 DEF TableOf
  <2> QED
    BY <2>1, <2>2, <2>3 DEF RequirePermission, ByRole
<1>2. ASSUME NEW u, NEW role, i = BySession(u, role)
      PROVE  /\ RequirePermission(i, permission) <=> Gives(i.permissions, permission)
             /\ RequirePermission(i, permission) <=> ByRole(i, permission)
             /\ i.session
  <2>1. /\ i.session /\ i.roles = {role}
        /\ i.permissions = IF role \in DOMAIN policies THEN policies[role] ELSE {}
    BY <1>2 DEF BySession
  <2> QED
    BY <2>1 DEF RequirePermission, ByRole, TableOf, Gives
<1> QED
  BY <1>1, <1>2 DEF Identities

\* What the roles of the start give is graded.
LEMMA StartIsGraded ==
  ASSUME NEW i \in Identities, TableOf(i) = InitialPolicies
  PROVE  Graded(i)
<1> DEFINE start == {"admin", "user", "viewer"}
<1>1. /\ DOMAIN InitialPolicies = start
      /\ InitialPolicies["admin"] = {"*"}
      /\ InitialPolicies["user"] = {"collection.read", "collection.write", "source.configure"}
      /\ InitialPolicies["viewer"] = {"collection.read"}
  BY DEF InitialPolicies
<1>2. \A x : Gives(i.permissions, x) <=> \E r \in i.roles \cap start : Gives(InitialPolicies[r], x)
  BY <1>1, RequiredOf DEF ByRole
<1>3. /\ Gives(i.permissions, "admin") <=> "admin" \in i.roles
      /\ \A x \in {"collection.write", "source.configure"} :
           Gives(i.permissions, x) <=> "admin" \in i.roles \/ "user" \in i.roles
  BY <1>1, <1>2 DEF Gives
<1>4. \A r \in start : Gives(InitialPolicies[r], "collection.read")
  BY <1>1 DEF Gives
<1>5. ASSUME i.permissions # {} PROVE Gives(i.permissions, "collection.read")
  <2>1. PICK x : x \in i.permissions
    BY <1>5
  <2>2. Gives(i.permissions, x)
    BY <2>1 DEF Gives
  <2> QED
    BY <1>2, <1>4, <2>2
<1> QED
  BY <1>3, <1>5 DEF Graded

\* The operations that routes and tools share demand the same by either door.
LEMMA SharedFits ==
  ASSUME NEW o \in SharedOperations, NEW i \in Identities, Graded(i)
  PROVE  /\ RequirePermission(i, RoutePermission[o]) <=>
              RequirePermission(i, RequiredPermission(o))
         /\ RequirePermission(i, RequiredPermission(o)) =>
              RequirePermission(i, "collection.read")
         /\ o \in Tools /\ o \in DOMAIN RoutePermission /\ o \notin DOMAIN PointTools
         /\ Guards[o] \in {"none", "role"} /\ o \notin OpenRoutes
<1>1. /\ o \in Tools /\ o \in DOMAIN RoutePermission /\ o \notin DOMAIN PointTools
      /\ Guards[o] \in {"none", "role"} /\ o \notin {"user_get", "group_get"}
      /\ o \notin OpenRoutes
  BY DEF SharedOperations
<1>2. o \notin RoutesOnly
  BY <1>1, GuardsAre DEF GuardTable, Guarded, Tools
<1> DEFINE four == {"admin", "source.configure", "collection.read", "collection.write"}
<1>3. /\ RoutePermission[o] \in four
      /\ RoutePermission[o] = "admin" <=> o \in AdminTools
      /\ RoutePermission[o] = "collection.read" <=> o \in Reading
  BY <1>1, <1>2, RoutesFit DEF RouteTable, Fits
<1>4. /\ RequiredPermission(o) \in four
      /\ RequiredPermission(o) = "admin" <=> o \in AdminTools
      /\ RequiredPermission(o) = "collection.read" <=> o \in Reading
  BY <1>1, RequiredIs
<1>5. RequirePermission(i, RoutePermission[o]) <=> RequirePermission(i, RequiredPermission(o))
  BY <1>3, <1>4, RequiredOf DEF Graded
<1>6. RequirePermission(i, RequiredPermission(o)) => RequirePermission(i, "collection.read")
  <2>1. \A x : Gives(i.permissions, x) => i.permissions # {}
    BY DEF Gives
  <2> QED
    BY <2>1, RequiredOf DEF Graded
<1> QED
  BY <1>1, <1>5, <1>6

\* The doors agree for whoever has graded permissions.
LEMMA DoorsAgreeAlways == DoorsAgree
<1> SUFFICES ASSUME NEW i \in Identities, Graded(i)
             PROVE  /\ \A o \in SharedOperations : RouteDoor(o, i) <=> ToolDoor(o, i, Anything)
                    /\ \A s \in DOMAIN Skills :
                         Skills[s] \in SharedOperations =>
                           (SkillDoor(s, i, Anything) <=> ~i.session /\ RouteDoor(Skills[s], i))
                    /\ \A o \in {x \in Tools : Guards[x] = "role"} :
                         ToolPermitted(o, i, Anything) => GuardPermitted(o, i, Anything)
  BY StartIsGraded DEF DoorsAgree
<1>1. ASSUME NEW o \in SharedOperations
      PROVE  /\ RouteDoor(o, i) <=> ToolDoor(o, i, Anything)
             /\ Admitted(o, i, Anything) <=> RouteDoor(o, i)
  <2>1. ToolPermitted(o, i, Anything) <=> RequirePermission(i, RequiredPermission(o))
    BY SharedFits DEF ToolPermitted
  <2>2. GuardPermitted(o, i, Anything) <=> (Guards[o] = "role" => "admin" \in i.roles)
    BY SharedFits DEF GuardPermitted
  <2>3. RouteDoor(o, i) <=> /\ RequirePermission(i, RoutePermission[o])
                            /\ Guards[o] = "role" => "admin" \in i.roles
    BY SharedFits DEF RouteDoor
  <2> QED
    BY <2>1, <2>2, <2>3, SharedFits DEF Admitted, ToolDoor, ToolsPathPermission
<1>2. ASSUME NEW o \in Tools, Guards[o] = "role", ToolPermitted(o, i, Anything)
      PROVE  GuardPermitted(o, i, Anything)
  <2>1. o \in AdminTools
    BY <1>2, GuardsAre DEF GuardTable, Guarded, Tools, AdminTools
  <2>2. o \notin DOMAIN PointTools /\ RequiredPermission(o) = "admin"
    BY <2>1, PointPermission, RequiredIs
  <2>3. "admin" \in i.roles
    BY <1>2, <2>2, RequiredOf DEF ToolPermitted, Graded
  <2> QED
    BY <1>2, <2>3 DEF GuardPermitted
<1> QED
  BY <1>1, <1>2 DEF SkillDoor

\* A caller reaches the same operations by route, by tool and by skill, whatever
\* its roles, and no administration call is let in and refused behind the door: by
\* the permissions of the start, and by changed ones where they stay graded.
THEOREM DoorsAlwaysAgree == AdminSpec => []DoorsAgree
BY DoorsAgreeAlways, PTL

-----------------------------------------------------------------------------
(* The two checks of a tool call.                                            *)

\* The two checks of a call on a collection amount to the rule.
LEMMA CollectionGate ==
  ASSUME IdentityTypes, NEW i \in Identities, NEW t \in CollectionTools, NEW k \in Collections
  PROVE  LET permission == RequiredPermission(t)
             bound == \E b \in bindings, s \in {i.id} \cup Groups :
                        /\ b.subject = s /\ b.grant.permission = permission
                        /\ b.grant.on \in {k, Anything}
                        /\ s # i.id => groups[s] # None /\ i.id \in groups[s].members
             listed == \/ acl[k] \in {Missing, {}} \/ "admin" \in i.roles
                       \/ \E r \in acl[k], q \in i.roles : Canonical(r) = Canonical(q)
             rule == IF t \in DOMAIN PointTools
                       THEN bound \/ (ByRole(i, permission) /\ listed)
                       ELSE ByRole(i, permission) /\ (bound \/ listed)
         IN /\ Admitted(t, i, k) => rule
            /\ ~i.session => (rule => Admitted(t, i, k))
<1> DEFINE permission == RequiredPermission(t)
           bound == \E b \in bindings, s \in {i.id} \cup Groups :
                      /\ b.subject = s /\ b.grant.permission = permission
                      /\ b.grant.on \in {k, Anything}
                      /\ s # i.id => groups[s] # None /\ i.id \in groups[s].members
           byRole == ByRole(i, permission)
           listed == \/ acl[k] \in {Missing, {}} \/ "admin" \in i.roles
                     \/ \E r \in acl[k], q \in i.roles : Canonical(r) = Canonical(q)
<1>1. HasBinding(i.id, permission, k) <=> bound
  <2>1. {i.id} \cup GroupsOf(i.id) =
          {s \in {i.id} \cup Groups :
             s # i.id => groups[s] # None /\ i.id \in groups[s].members}
    BY DEF GroupsOf, Present, IdentityTypes
  <2> QED
    BY <2>1 DEF HasBinding
<1>2. RequirePermission(i, permission) <=> byRole
  BY RequiredOf
<1>3. ListAllows(i, k) <=> listed
  BY DEF ListAllows
<1>4. GuardPermitted(t, i, k) <=> bound \/ (byRole /\ listed)
  BY <1>1, <1>2, <1>3 DEF GuardPermitted, CollectionPermitted, CollectionTools
<1>5. CASE t \in DOMAIN PointTools
  <2>1. PointTools[t] = permission
    BY <1>5, PointPermission
  <2>2. ToolPermitted(t, i, k) <=> "*" \in i.permissions \/ Gives(i.granted, permission) \/ bound
    BY <1>1, <1>5, <2>1 DEF ToolPermitted, AuthoriseResource
  <2>3. ~i.session /\ byRole => Gives(i.granted, permission)
    BY <1>2, RequiredOf
  <2> HIDE DEF permission, bound, byRole, listed
  <2>4. Admitted(t, i, k) => bound \/ (byRole /\ listed)
    BY <1>4 DEF Admitted
  <2>5. ~i.session /\ (bound \/ (byRole /\ listed)) => Admitted(t, i, k)
    BY <1>4, <2>2, <2>3 DEF Admitted
  <2> QED
    BY <1>5, <2>4, <2>5 DEF permission, bound, byRole, listed
<1>6. CASE t \notin DOMAIN PointTools
  <2>1. ToolPermitted(t, i, k) <=> byRole
    BY <1>2, <1>6 DEF ToolPermitted
  <2> HIDE DEF permission, bound, byRole, listed
  <2>2. Admitted(t, i, k) <=> byRole /\ (bound \/ listed)
    BY <1>4, <2>1 DEF Admitted
  <2> QED
    BY <1>6, <2>2 DEF permission, bound, byRole, listed
<1> QED
  BY <1>5, <1>6

\* While the server serves, the two checks of a call together are the one rule of
\* bindings, roles and access lists, for every key, bearer token, tool and
\* collection and whatever the roles are given; a session is let in by no more.
THEOREM GateAlwaysMatchesRule == AdminSpec => []GateMatchesRule
<1>1. AdminInit => ProcessInv /\ IdentityTypes
  BY CatalogueStart, TypesStart
<1>2. ProcessInv /\ IdentityTypes /\ [AdminNext]_adminVars => (ProcessInv /\ IdentityTypes)'
  BY ProcessStep, TypesStep
<1>3. IdentityTypes => GateMatchesRule
  <2> SUFFICES ASSUME IdentityTypes PROVE GateMatchesRule
    OBVIOUS
  <2> QED
    BY CollectionGate DEF GateMatchesRule
<1> QED
  BY <1>1, <1>2, <1>3, PTL DEF AdminSpec

=============================================================================
