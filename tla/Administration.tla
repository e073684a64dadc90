--------------------------- MODULE Administration ---------------------------
(***************************************************************************)
(* A server process from its start: IndexService seeds its empty tables    *)
(* (src/src/index_tools/bootstrap.py), then the application binds the      *)
(* authoriser (attach_idam_auth), then it serves administration requests,  *)
(* and a restart loses everything but the rows of the database.            *)
(***************************************************************************)
EXTENDS Identity, Catalogue, Sequences

CONSTANTS
  Seed,        (* the entries of the seed file: groups, then users, then     *)
               (* collections, then keys, which is the order of apply_seed   *)
  PolicyChanges, (* bound: role and permissions pairs that policies_update   *)
               (* carries                                                    *)
  MaxRequests, (* bound: requests in all                                     *)
  MaxRestarts  (* bound: restarts of the process                             *)

\* an entry of a group or a user names every field of its record
SeedEntries ==
  [kind : {"group"}, name : Groups, payload : GroupRecords]
    \cup [kind : {"user"}, name : Users, payload : UserRecords]
    \cup [kind : {"collection"}, name : Collections, roles : SUBSET Roles]
    \cup [kind : {"key"}, name : STRING, owner : Users, token : Tokens,
          roles : SUBSET Roles]

ASSUME AdministrationAssumption ==
  /\ MaxRequests \in Nat /\ MaxRestarts \in Nat
  /\ Seed \in Seq(SeedEntries)
  /\ \A R \in SUBSET Roles : R # Missing
  /\ Everyone # Missing

VARIABLES
  policies,  (* INDEX_ROLE_PERMISSIONS                                       *)
  overlay,   (* the permissions of the roles that the library's engine uses  *)
  phase,     (* "starting", "serving", or "failed": the start has raised     *)
  entry,     (* the next entry of the seed                                   *)
  requests,  (* requests begun                                               *)
  restarts   (* restarts made                                                *)

policyVars == <<policies, overlay>>

processVars == <<phase, entry, requests, restarts>>

adminVars == <<idVars, catVars, policyVars, processVars>>

InitialPolicies ==
  [admin  |-> {"*"},
   user   |-> {"collection.read", "collection.write", "source.configure"},
   viewer |-> {"collection.read"}]

AdminInit ==
  /\ IdentityInit /\ DatabaseInit /\ CatalogueInit
  /\ policies = InitialPolicies /\ overlay = InitialPolicies
  /\ phase = "starting" /\ entry = 1 /\ requests = 0 /\ restarts = 0

-----------------------------------------------------------------------------
(* apply_seed, one entry at a time.  Nothing else runs yet.                  *)

SeedGroup(e) ==
  IF groups[e.name] # None THEN GroupUpdate(e.name, e.payload)
                           ELSE GroupCreate(e.name, e.payload)

SeedUser(e) ==
  IF users[e.name] # None THEN UserUpdate(e.name, e.payload)
                          ELSE UserCreate(e.name, e.payload)

\* an entry without roles is open to everyone
ListOf(e) == IF e.roles = {} THEN Everyone ELSE e.roles

\* create or update, whose outcome is the same; no other thread writes yet
SeedCollection(e) ==
  /\ records' = [records EXCEPT ![e.name] = ListOf(e)]
  /\ acl' = [acl EXCEPT ![e.name] = ListOf(e)]
  /\ UNCHANGED <<profiles, sources, at, apart>>

OthersOf(e) ==
  {k \in Present(keys) :
     keys[k].owner = e.owner /\ keys[k].token # e.token /\ ~keys[k].revoked}

\* variant: the keys that the owner had before stay
SeedKeyKeeps(e) ==
  IF \E k \in Present(keys) :
       keys[k].owner = e.owner /\ keys[k].token = e.token /\ ~keys[k].revoked
    THEN UNCHANGED idVars
    ELSE \E k \in KeyIds : ApiKeyCreate(k, e.owner, e.token, e.roles)

\* A user that has the key keeps it; otherwise the other keys of the user are
\* marked, without telling the key manager, and the key is made.
SeedKey(e) ==
  IF \E k \in Present(keys) :
       keys[k].owner = e.owner /\ keys[k].token = e.token /\ ~keys[k].revoked
    THEN UNCHANGED idVars
    ELSE \E k \in KeyIds :
           LET marked == [j \in KeyIds |-> IF j \in OthersOf(e)
                                             THEN [keys[j] EXCEPT !.revoked = TRUE]
                                             ELSE keys[j]]
           IN /\ keys[k] = None
              /\ keys' = [marked EXCEPT ![k] =
                   [token |-> e.token, owner |-> e.owner,
                    roles |-> KeyRoles(e.owner, e.roles), revoked |-> FALSE]]
              /\ keyStore' = [keyStore EXCEPT ![k] = "active"]
              /\ UNCHANGED <<users, groups, idam, idamIn, engine, attached, dbRoles,
                             bindings>>

SeedEntry ==
  /\ phase = "starting" /\ entry <= Len(Seed)
  /\ LET e == Seed[entry] IN
     \/ e.kind = "group" /\ SeedGroup(e) /\ UNCHANGED catVars
     \/ e.kind = "user" /\ SeedUser(e) /\ UNCHANGED catVars
     \/ e.kind = "collection" /\ SeedCollection(e) /\ UNCHANGED idVars
     \/ e.kind = "key" /\ SeedKey(e) /\ UNCHANGED catVars
  /\ entry' = entry + 1
  /\ UNCHANGED <<policyVars, phase, requests, restarts>>

\* EnvTokenResolver finds the variable unset: the start fails
SeedFails ==
  /\ phase = "starting" /\ entry <= Len(Seed) /\ Seed[entry].kind = "key"
  /\ phase' = "failed"
  /\ UNCHANGED <<entry, requests, restarts, idVars, catVars, policyVars>>

\* The server takes the authoriser's key manager for its own and synchronises
\* every user; keys made before stay in the manager that is dropped.
Attach ==
  /\ phase = "starting" /\ entry > Len(Seed)
  /\ phase' = "serving"
  /\ attached' = TRUE
  /\ keyStore' = [k \in KeyIds |-> "absent"]
  /\ engine' = [p \in DOMAIN engine |->
                  IF p \in Present(users)
                    THEN engine[p] \cup Assigned(EffectiveIn(users, groups, p))
                    ELSE engine[p]]
  /\ UNCHANGED <<users, groups, idam, idamIn, keys, dbRoles, bindings, catVars,
                 policyVars, entry, requests, restarts>>

Restart ==
  /\ restarts < MaxRestarts
  /\ users' = [u \in Users |-> None] /\ groups' = [g \in Groups |-> None]
  /\ idam' = [u \in Users |-> None] /\ idamIn' = [g \in Groups |-> {}]
  /\ engine' = [p \in DOMAIN engine |-> {}] /\ attached' = FALSE
  /\ keys' = [k \in KeyIds |-> None] /\ keyStore' = [k \in KeyIds |-> "absent"]
  /\ profiles' = {}
  /\ records' = [k \in Collections |-> Missing] /\ acl' = [k \in Collections |-> Missing]
  /\ sources' = [s \in Sources |-> Missing]
  /\ at' = [c \in Requests |-> Idle] /\ apart' = {}
  /\ policies' = InitialPolicies /\ overlay' = InitialPolicies
  /\ phase' = "starting" /\ entry' = 1 /\ restarts' = restarts + 1
  /\ UNCHANGED <<dbRoles, bindings, requests>>

-----------------------------------------------------------------------------
\* Roles that the request does not name stay.  Whether the engine sees the table
\* that it was built with change is the library's affair.
PoliciesUpdate(change) ==
  /\ policies' = [r \in DOMAIN policies \cup {change.role} |->
                    IF r = change.role THEN change.permissions ELSE policies[r]]
  /\ overlay' \in {overlay, policies'}

Request ==
  /\ phase = "serving" /\ requests < MaxRequests
  /\ requests' = requests + 1
  /\ \/ IdentityNext /\ UNCHANGED <<catVars, policyVars>>
     \/ CatalogueRequest /\ UNCHANGED <<idVars, policyVars>>
     \/ \E change \in PolicyChanges : PoliciesUpdate(change) /\ UNCHANGED <<idVars, catVars>>
  /\ UNCHANGED <<phase, entry, restarts>>

Return ==
  phase = "serving" /\ CatalogueReturn /\ UNCHANGED <<idVars, policyVars, processVars>>

AdminNext ==
  SeedEntry \/ SeedFails \/ Attach \/ Restart \/ Request \/ Return

AdminSpec == AdminInit /\ [][AdminNext]_adminVars

-----------------------------------------------------------------------------
(* Properties.                                                               *)

\* what an entry is about; the keys of a user are one thing
Subject(e) == IF e.kind = "key" THEN e.owner ELSE e.name

\* no later entry is about the same
IsLast(i) ==
  \A j \in (i + 1) .. Len(Seed) :
    ~(Seed[j].kind = Seed[i].kind /\ Subject(Seed[j]) = Subject(Seed[i]))

\* the keys of a user that are valid by their records
ValidOf(u) == {k \in Present(keys) : keys[k].owner = u /\ ~keys[k].revoked}

(* A start that has gone through the seed has applied every entry that no    *)
(* later one overrides: users and groups have the fields of the file and     *)
(* collections its roles, in the record and in the access list; and however  *)
(* many keys the file lists for a user, one record is left valid, which has  *)
(* the token of the last one.  An entry that repeats a key that is valid     *)
(* adds none, any other one revokes those before it.                         *)
SeedConverges ==
  phase = "starting" /\ entry > Len(Seed) =>
    \A i \in {j \in 1 .. Len(Seed) : IsLast(j)} :
      LET e == Seed[i] IN
      /\ e.kind = "user" => \A f \in DOMAIN e.payload : users[e.name][f] = e.payload[f]
      /\ e.kind = "group" => \A f \in DOMAIN e.payload : groups[e.name][f] = e.payload[f]
      /\ e.kind = "collection" => records[e.name] = ListOf(e) /\ acl[e.name] = ListOf(e)
      /\ e.kind = "key" =>
           \E k \in KeyIds : ValidOf(e.owner) = {k} /\ keys[k].token = e.token

(* A key whose record is valid is accepted by the server: admin_api_key_     *)
(* create says that it binds the key into the active auth store.             *)
ValidKeysAccepted ==
  phase = "serving" =>
    \A k \in Present(keys) : ~keys[k].revoked => keyStore[k] = "active"

=============================================================================
