----------------------------- MODULE Catalogue ------------------------------
(***************************************************************************)
(* The catalogue half of the administration of IndexService                *)
(* (src/src/index_tools/tools/service.py): profiles, collections with      *)
(* their access lists, and source configurations.                          *)
(*                                                                         *)
(* The records and the access lists are two dictionaries that no lock      *)
(* guards, and the handlers run in a pool of threads: a call that writes   *)
(* both is one action for each write.  Creating, deleting and guarding a   *)
(* collection also call the vector store before they write.  at[c] is      *)
(* where request thread c stands.                                          *)
(*                                                                         *)
(* A dictionary is read in the action that goes on to write; what the      *)
(* vector store answers only sets a flag in the record's metadata and is   *)
(* left out, and so is every field but the roles.                          *)
(***************************************************************************)
EXTENDS Naturals, FiniteSets, TLC

CONSTANTS
  Requests,    (* request threads                                            *)
  Profiles,    (* profiles besides "default"                                 *)
  Collections, (* collections, each of some profile                          *)
  Sources,     (* source configuration ids                                   *)
  AccessLists, (* bound: the role sets that requests carry, one of them {}   *)
  Missing      (* no record, no access list                                  *)

ASSUME CatalogueAssumption ==
  {} \in AccessLists /\ AccessLists # {{}} /\ Missing \notin AccessLists

VARIABLES
  profiles,    (* keys of self.profiles besides "default"                    *)
  records,     (* self.collections: the allowed roles of each record         *)
  acl,         (* self.collection_roles                                      *)
  sources,     (* self.source_configs: the type and the scheme of the uri    *)
  at,          (* at[c]: the call that thread c is in, and what it has read  *)
  apart        (* history: collections that were written by calls that       *)
               (* overlapped, or by one that was refused half way            *)

catVars == <<profiles, records, acl, sources, at, apart>>

Everyone == {"reader", "writer", "maintainer", "admin"}

Idle == [call |-> "idle"]

CatalogueInit ==
  /\ profiles = {}
  /\ records = [k \in Collections |-> Missing]
  /\ acl = [k \in Collections |-> Missing]
  /\ sources = [s \in Sources |-> Missing]
  /\ at = [c \in Requests |-> Idle]
  /\ apart = {}

-----------------------------------------------------------------------------
(* Profiles.  Collections and sources may name a profile that is gone.     *)

ProfileCreate(p) ==
  /\ p \notin profiles
  /\ profiles' = profiles \cup {p}
  /\ UNCHANGED <<records, acl, sources, at, apart>>

ProfileDelete(p) ==
  /\ p \in profiles
  /\ profiles' = profiles \ {p}
  /\ UNCHANGED <<records, acl, sources, at, apart>>

-----------------------------------------------------------------------------
(* Collections.  A record is an object: a thread that has one in hand sees *)
(* what others assign to it, until another object takes its place in the   *)
(* dictionary.                                                             *)

Begin(c, call) == at[c] = Idle /\ at' = [at EXCEPT ![c] = call]

\* thread c has put or changed the record of k and is about to write the list
Listing(c, k) == at[c].call \in {"listing", "ensuring"} /\ at[c].k = k

Between(c, k) ==
  Listing(c, k) \/ (at[c].call \in {"unlisted", "guarded"} /\ at[c].k = k)

\* thread c makes the first of its writes of new roles to k; a later one, or one
\* that copies the list
FirstWrite(c, k) ==
  apart' = IF \E d \in Requests \ {c} : Between(d, k) THEN apart \cup {k} ELSE apart \ {k}

LaterWrite(c, k) ==
  apart' = IF \E d \in Requests \ {c} : Between(d, k) THEN apart \cup {k} ELSE apart

\* another object, or none, takes the place of the record of k
PutRecord(c, k, roles, next) ==
  /\ records' = [records EXCEPT ![k] = roles]
  /\ at' = [d \in Requests |->
              IF d = c THEN next
                ELSE IF Listing(d, k) THEN [at[d] EXCEPT !.current = FALSE] ELSE at[d]]

\* the object that is the record of k has its roles changed
AssignRoles(c, k, roles, next) ==
  /\ records' = [records EXCEPT ![k] = roles]
  /\ at' = [d \in Requests |->
              IF d = c THEN next
                ELSE IF Listing(d, k) /\ at[d].current
                  THEN [at[d] EXCEPT !.roles = roles] ELSE at[d]]

PutList(k, roles) == acl' = [acl EXCEPT ![k] = roles]

HasRecord(call, k, roles) == [call |-> call, k |-> k, roles |-> roles, current |-> TRUE]

\* the collection is looked up, or made, in the vector store
CollectionCreate(c, k) ==
  /\ \E roles \in AccessLists :
       Begin(c, [call |-> "create", k |-> k,
                 roles |-> IF roles = {} THEN Everyone ELSE roles])
  /\ UNCHANGED <<profiles, records, acl, sources, apart>>

\* a record made in the meantime is replaced
CollectionCreated(c) ==
  /\ at[c].call = "create"
  /\ PutRecord(c, at[c].k, at[c].roles, HasRecord("listing", at[c].k, at[c].roles))
  /\ FirstWrite(c, at[c].k)
  /\ UNCHANGED <<profiles, acl, sources>>

\* variant: the roles are stored before they are looked at
CollectionUpdateUnchecked(c, k) ==
  /\ at[c] = Idle /\ records[k] # Missing
  /\ \E roles \in AccessLists :
       AssignRoles(c, k, roles, HasRecord("listing", k, roles))
  /\ FirstWrite(c, k)
  /\ UNCHANGED <<profiles, acl, sources>>

\* an empty role set is refused after it has been assigned to the record
CollectionUpdate(c, k) ==
  /\ at[c] = Idle /\ records[k] # Missing
  /\ \/ /\ \E roles \in AccessLists \ {{}} :
             AssignRoles(c, k, roles, HasRecord("listing", k, roles))
        /\ FirstWrite(c, k)
     \/ AssignRoles(c, k, {}, Idle) /\ apart' = apart \cup {k}
  /\ UNCHANGED <<profiles, acl, sources>>

\* the list is copied from the record in hand
ListWritten(c) ==
  /\ at[c].call \in {"listing", "ensuring"}
  /\ PutList(at[c].k, at[c].roles)
  /\ at' = [at EXCEPT ![c] = IF @.call = "listing" THEN Idle
                                                  ELSE [call |-> "delete", k |-> @.k]]
  /\ LaterWrite(c, at[c].k)
  /\ UNCHANGED <<profiles, records, sources>>

\* _ensure_collection_record: the roles of a record that has to be made
Defaulted(k) == IF acl[k] = Missing THEN Everyone ELSE acl[k]

\* a collection without a record gets one first, so that it can be deleted
CollectionDelete(c, k) ==
  /\ \/ /\ records[k] # Missing
        /\ Begin(c, [call |-> "delete", k |-> k])
        /\ UNCHANGED <<records, apart>>
     \/ /\ records[k] = Missing /\ at[c] = Idle
        /\ PutRecord(c, k, Defaulted(k), HasRecord("ensuring", k, Defaulted(k)))
        /\ LaterWrite(c, k)
  /\ UNCHANGED <<profiles, acl, sources>>

\* errors of the vector store are ignored
CollectionUnlisted(c) ==
  /\ at[c].call = "delete"
  /\ PutList(at[c].k, Missing)
  /\ at' = [at EXCEPT ![c] = [call |-> "unlisted", k |-> @.k]]
  /\ FirstWrite(c, at[c].k)
  /\ UNCHANGED <<profiles, records, sources>>

CollectionDeleted(c) ==
  /\ at[c].call = "unlisted"
  /\ PutRecord(c, at[c].k, Missing, Idle)
  /\ LaterWrite(c, at[c].k)
  /\ UNCHANGED <<profiles, acl, sources>>

\* set_collection_roles refuses an empty set before it does anything
CollectionGuard(c, k) ==
  /\ \E roles \in AccessLists \ {{}} :
       Begin(c, [call |-> "guard", k |-> k, roles |-> roles])
  /\ UNCHANGED <<profiles, records, acl, sources, apart>>

CollectionGuarded(c) ==
  /\ at[c].call = "guard"
  /\ PutList(at[c].k, at[c].roles)
  /\ at' = [at EXCEPT ![c].call = "guarded"]
  /\ FirstWrite(c, at[c].k)
  /\ UNCHANGED <<profiles, records, sources>>

\* the record, which is made where there is none, gets the roles after the list
GuardAssigned(c) ==
  /\ at[c].call = "guarded"
  /\ AssignRoles(c, at[c].k, at[c].roles, Idle)
  /\ PutList(at[c].k, IF records[at[c].k] = Missing THEN Defaulted(at[c].k)
                                                    ELSE acl[at[c].k])
  /\ LaterWrite(c, at[c].k)
  /\ UNCHANGED <<profiles, sources>>

-----------------------------------------------------------------------------
(* Source configurations.                                                  *)

SourceTypes == {"filesystem", "text"}

\* the types that _validate_source_config_policy knows go with their scheme
SourceValid(source) == source.type = source.scheme

SourceCreate(s) ==
  /\ sources[s] = Missing
  /\ \E t \in SourceTypes : sources' = [sources EXCEPT ![s] = [type |-> t, scheme |-> t]]
  /\ UNCHANGED <<profiles, records, acl, at, apart>>

\* type and address are assigned before the pair is validated
SourceUpdate(s) ==
  /\ sources[s] # Missing
  /\ \E t \in SourceTypes : \/ sources' = [sources EXCEPT ![s].type = t]
                            \/ sources' = [sources EXCEPT ![s].scheme = t]
  /\ UNCHANGED <<profiles, records, acl, at, apart>>

SourceDelete(s) ==
  /\ sources[s] # Missing
  /\ sources' = [sources EXCEPT ![s] = Missing]
  /\ UNCHANGED <<profiles, records, acl, at, apart>>

-----------------------------------------------------------------------------
\* a request begins; a refused one changes nothing and is no step
CatalogueRequest ==
  \/ \E p \in Profiles : ProfileCreate(p) \/ ProfileDelete(p)
  \/ \E k \in Collections :
       \E c \in Requests :
         \/ CollectionCreate(c, k) \/ CollectionUpdate(c, k)
         \/ CollectionDelete(c, k) \/ CollectionGuard(c, k)
  \/ \E s \in Sources : SourceCreate(s) \/ SourceUpdate(s) \/ SourceDelete(s)

\* a request comes back from the vector store, or makes its next write
CatalogueReturn ==
  \E c \in Requests :
    \/ CollectionCreated(c) \/ ListWritten(c)
    \/ CollectionUnlisted(c) \/ CollectionDeleted(c)
    \/ CollectionGuarded(c) \/ GuardAssigned(c)

-----------------------------------------------------------------------------
(* Properties.                                                             *)

(* The two dictionaries know the same collections (one without a list is   *)
(* open to everyone), with the same roles and never with none, after calls *)
(* that have waited for the vector store in any order: their writes did    *)
(* not overlap, none was refused half way, nobody is between two writes.   *)
(* Calls whose writes overlap leave the list of one and the record of the  *)
(* other, until a later call writes both.                                  *)
AccessListsAgree ==
  \A k \in Collections \ apart :
    (\A c \in Requests : ~Between(c, k)) => records[k] = acl[k] /\ acl[k] # {}

(* A stored source has a type and an address that belong together, as      *)
(* _validate_source_config_policy demands before one can be stored.        *)
StoredSourcesValid ==
  \A s \in Sources : sources[s] # Missing => SourceValid(sources[s])

=============================================================================
