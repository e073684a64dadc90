------------------------------ MODULE Identity ------------------------------
(***************************************************************************)
(* The identity half of the administration of IndexService                 *)
(* (src/src/index_tools/tools/service.py): users, groups, API keys, roles  *)
(* and role bindings, and what each call passes on to the identity library *)
(* and to the authoriser of the server (index_server/auth/middleware.py).  *)
(*                                                                         *)
(* The tables are kept in memory, only the role store and the resource     *)
(* bindings are rows of the database.  None of the calls waits between its *)
(* first and its last write, so each is one action.  A refused call        *)
(* changes nothing and is no step.                                         *)
(***************************************************************************)
EXTENDS Naturals, FiniteSets, TLC

CONSTANTS
  Users,     (* user ids                                                     *)
  AdminUser, (* the user whose id is "admin"                                 *)
  Groups,    (* group ids                                                    *)
  KeyIds,    (* ids of API keys; a principal of the authoriser each          *)
  Tokens,    (* tokens of API keys                                           *)
  RoleSets,  (* bound: the role sets that requests carry                     *)
  RoleNames, (* bound: names in the role store beyond the baseline           *)
  Grants,    (* bound: resource and permission pairs that bindings carry     *)
  None       (* no record, no owner                                          *)

Roles == {"reader", "admin"} \cup UNION RoleSets

\* the records of the tables, and of the library's users
UserRecords == [roles : SUBSET Roles, groups : SUBSET Groups, enabled : BOOLEAN]
GroupRecords == [roles : SUBSET Roles, members : SUBSET Users]
LibraryUsers == [role : Roles, active : BOOLEAN]
KeyRecords == [token : Tokens, owner : Users \cup {None}, roles : SUBSET Roles,
               revoked : BOOLEAN]

ASSUME IdentityAssumption ==
  /\ AdminUser \in Users
  /\ Users \cap KeyIds = {} /\ None \notin Users \cup KeyIds
  /\ None \notin UserRecords /\ None \notin GroupRecords
  /\ None \notin LibraryUsers /\ None \notin KeyRecords

VARIABLES
  users,    (* self.users: roles, groups, enabled                            *)
  groups,   (* self.groups: roles, members                                   *)
  idam,     (* _idam_users: the role and whether the user is active          *)
  idamIn,   (* _idam_groups: the members of each group                       *)
  engine,   (* roles the authoriser's RBAC engine has assigned               *)
  attached, (* whether attach_idam_auth has bound the authoriser             *)
  keys,     (* self.api_keys: token, owner, roles, revoked                   *)
  keyStore, (* the key manager in use: what becomes of a presented key       *)
  dbRoles,  (* names in the role store                                       *)
  bindings  (* rows of RBACBinding: subject and grant, with a copy number    *)

idVars == <<users, groups, idam, idamIn, engine, attached, keys, keyStore,
            dbRoles, bindings>>

Baseline == {"admin", "user"}

IdentityInit ==
  /\ users = [u \in Users |-> None]
  /\ groups = [g \in Groups |-> None]
  /\ idam = [u \in Users |-> None]
  /\ idamIn = [g \in Groups |-> {}]
  /\ engine = [p \in Users \cup KeyIds |-> {}]
  /\ attached = FALSE
  /\ keys = [k \in KeyIds |-> None]
  /\ keyStore = [k \in KeyIds |-> "absent"]

DatabaseInit == dbRoles = {} /\ bindings = {}

-----------------------------------------------------------------------------
(* Roles as the authoriser knows them.                                       *)

Canonical(role) ==
  CASE role \in {"maintainer", "writer", "read-write"} -> "user"
    [] role \in {"reader", "read-only"} -> "viewer"
    [] role = "owner" -> "admin"
    [] OTHER -> role

\* sync_identity_roles never leaves a principal without a role
Assigned(roles) == IF roles = {} THEN {"viewer"} ELSE {Canonical(r) : r \in roles}

Present(table) == {x \in DOMAIN table : table[x] # None}

\* a user's own roles and those of the groups that the user's record names
EffectiveIn(us, gs, u) ==
  us[u].roles \cup UNION {gs[g].roles : g \in us[u].groups \cap Present(gs)}

\* _sync_auth_user for each of names: the engine only ever gains roles
SyncAuth(us, gs, names) ==
  engine' = [p \in DOMAIN engine |->
               IF attached /\ p \in names /\ p \in Present(us)
                 THEN engine[p] \cup Assigned(EffectiveIn(us, gs, p))
                 ELSE engine[p]]

\* the role of the library's user: the first one by name
Primary(roles) ==
  IF roles = {} THEN "reader"
    ELSE IF "admin" \in roles THEN "admin"
      ELSE IF "reader" \in roles THEN "reader" ELSE CHOOSE r \in roles : TRUE

\* _sync_idam_user, which also synchronises the authoriser
PutUser(u, record) ==
  /\ users' = [users EXCEPT ![u] = record]
  /\ idam' = [idam EXCEPT ![u] = [role |-> Primary(record.roles),
                                  active |-> record.enabled]]
  /\ SyncAuth(users', groups, {u})

\* _sync_idam_group: members are added to the library's group, never removed
PutGroup(g, record) ==
  /\ groups' = [groups EXCEPT ![g] = record]
  /\ idamIn' = [idamIn EXCEPT ![g] = @ \cup record.members]

\* the fields that a payload names replace those of a record
Over(payload, record) ==
  [f \in DOMAIN payload \cup DOMAIN record |->
     IF f \in DOMAIN payload THEN payload[f] ELSE record[f]]

\* users whose own record names the group: who _sync_auth_group reaches
Naming(g) == {u \in Present(users) : g \in users[u].groups}

-----------------------------------------------------------------------------
(* Users and groups.  A payload is a function from the fields it names.      *)

UserPayloads ==
  {[roles |-> R] : R \in RoleSets} \cup {[groups |-> G] : G \in SUBSET Groups}
    \cup {[enabled |-> FALSE]}

GroupPayloads ==
  {[roles |-> R] : R \in RoleSets} \cup {[members |-> M] : M \in SUBSET Users}

NewUser == [roles |-> {"reader"}, groups |-> {}, enabled |-> TRUE]

NewGroup == [roles |-> {}, members |-> {}]

UserCreate(u, payload) ==
  /\ users[u] = None
  /\ PutUser(u, Over(payload, NewUser))
  /\ UNCHANGED <<groups, idamIn, attached, keys, keyStore, dbRoles, bindings>>

UserUpdate(u, payload) ==
  /\ users[u] # None
  /\ PutUser(u, Over(payload, users[u]))
  /\ UNCHANGED <<groups, idamIn, attached, keys, keyStore, dbRoles, bindings>>

\* the record goes; groups, keys and the authoriser still know the name
UserDelete(u) ==
  /\ users[u] # None
  /\ users' = [users EXCEPT ![u] = None]
  /\ idam' = [idam EXCEPT ![u].active = FALSE]
  /\ UNCHANGED <<groups, idamIn, engine, attached, keys, keyStore, dbRoles, bindings>>

\* users_list gives the admin user its role back, without any synchronisation
UsersList ==
  /\ users[AdminUser] # None
  /\ "admin" \notin users[AdminUser].roles
  /\ users' = [users EXCEPT ![AdminUser].roles = @ \cup {"admin"}]
  /\ UNCHANGED <<groups, idam, idamIn, engine, attached, keys, keyStore, dbRoles,
                 bindings>>

GroupCreate(g, payload) ==
  /\ groups[g] = None
  /\ PutGroup(g, Over(payload, NewGroup))
  /\ SyncAuth(users, groups', Naming(g))
  /\ UNCHANGED <<users, idam, attached, keys, keyStore, dbRoles, bindings>>

\* variant: only the members that the group had before are synchronised
GroupUpdatePrior(g, payload) ==
  /\ groups[g] # None
  /\ PutGroup(g, Over(payload, groups[g]))
  /\ SyncAuth(users, groups', groups[g].members)
  /\ UNCHANGED <<users, idam, attached, keys, keyStore, dbRoles, bindings>>

\* reaches the members before and after, not the users whose record names g
GroupUpdate(g, payload) ==
  /\ groups[g] # None
  /\ PutGroup(g, Over(payload, groups[g]))
  /\ SyncAuth(users, groups', groups[g].members \cup groups'[g].members)
  /\ UNCHANGED <<users, idam, attached, keys, keyStore, dbRoles, bindings>>

GroupDelete(g) ==
  /\ groups[g] # None
  /\ groups' = [groups EXCEPT ![g] = None]
  /\ SyncAuth(users, groups', groups[g].members)
  /\ UNCHANGED <<users, idam, idamIn, attached, keys, keyStore, dbRoles, bindings>>

-----------------------------------------------------------------------------
(* The REST routes accept the payloads of the shared pages and translate     *)
(* them: a group request without members names no member at all.             *)

RestUser(payload) ==
  IF "is_system_admin" \notin DOMAIN payload THEN payload
    ELSE [roles |-> IF payload.is_system_admin THEN {"admin"} ELSE {"reader"}]

RestGroup(payload) == Over(payload, [members |-> {}])

PagePayloads == {[is_system_admin |-> b] : b \in BOOLEAN}

RestUserCreate(u) ==
  \E p \in UserPayloads \cup PagePayloads : UserCreate(u, RestUser(p))

RestUserUpdate(u) ==
  \E p \in UserPayloads \cup PagePayloads : UserUpdate(u, RestUser(p))

RestGroupCreate(g) == \E p \in GroupPayloads : GroupCreate(g, RestGroup(p))

RestGroupUpdate(g) == \E p \in GroupPayloads : GroupUpdate(g, RestGroup(p))

-----------------------------------------------------------------------------
(* API keys.                                                                 *)

\* explicit roles, else the owner's, else the library's user's, else reader
KeyRoles(owner, roles) ==
  CASE roles # {} -> roles
    [] roles = {} /\ owner # None /\ users[owner] # None /\ users[owner].roles # {} ->
         users[owner].roles
    [] roles = {} /\ owner # None /\ users[owner] = None /\ idam[owner] # None ->
         {idam[owner].role}
    [] OTHER -> {"reader"}

\* the key is a principal of its own, with the roles of the key
ApiKeyCreate(k, owner, token, roles) ==
  LET granted == KeyRoles(owner, roles) IN
  /\ keys[k] = None
  /\ keys' = [keys EXCEPT ![k] = [token |-> token, owner |-> owner,
                                  roles |-> granted, revoked |-> FALSE]]
  /\ keyStore' = [keyStore EXCEPT ![k] = "active"]
  /\ engine' = [p \in DOMAIN engine |->
       CASE attached /\ p = k -> engine[p] \cup Assigned(granted)
         [] attached /\ p = owner /\ users[owner] # None ->
              engine[p] \cup Assigned(EffectiveIn(users, groups, owner))
         [] OTHER -> engine[p]]
  /\ UNCHANGED <<users, groups, idam, idamIn, attached, dbRoles, bindings>>

\* the manager ignores a key that it does not know
RevokeIn(S) ==
  /\ keys' = [k \in KeyIds |-> IF k \in S THEN [keys[k] EXCEPT !.revoked = TRUE]
                                          ELSE keys[k]]
  /\ keyStore' = [k \in KeyIds |-> IF k \in S /\ keyStore[k] = "active"
                                     THEN "revoked" ELSE keyStore[k]]
  /\ UNCHANGED <<users, groups, idam, idamIn, engine, attached, dbRoles, bindings>>

ApiKeyRevoke(k) == keys[k] # None /\ RevokeIn({k})

WithToken(t) == {k \in Present(keys) : keys[k].token = t}

\* variant: the records are marked, the manager is not told
ApiKeyRevokeRecords(t) ==
  /\ WithToken(t) # {}
  /\ keys' = [k \in KeyIds |-> IF k \in WithToken(t)
                                 THEN [keys[k] EXCEPT !.revoked = TRUE] ELSE keys[k]]
  /\ UNCHANGED <<users, groups, idam, idamIn, engine, attached, keyStore, dbRoles,
                 bindings>>

\* every record whose token has the hash
ApiKeyRevokeToken(t) == WithToken(t) # {} /\ RevokeIn(WithToken(t))

-----------------------------------------------------------------------------
(* The role store: every access seeds the baseline first.                    *)

RoleCreate(name) ==
  /\ name \notin dbRoles \cup Baseline
  /\ dbRoles' = dbRoles \cup Baseline \cup {name}
  /\ UNCHANGED <<users, groups, idam, idamIn, engine, attached, keys, keyStore, bindings>>

RoleDelete(name) ==
  /\ name \in dbRoles \ Baseline
  /\ dbRoles' = (dbRoles \cup Baseline) \ {name}
  /\ UNCHANGED <<users, groups, idam, idamIn, engine, attached, keys, keyStore, bindings>>

-----------------------------------------------------------------------------
(* Role bindings are the roles of the record itself; resource bindings are   *)
(* rows of the database that nothing else looks after.                       *)

RbacBind(subject, role) ==
  \/ /\ subject \in Users /\ users[subject] # None
     /\ PutUser(subject, [users[subject] EXCEPT !.roles = @ \cup {role}])
     /\ UNCHANGED <<groups, idamIn, attached, keys, keyStore, dbRoles, bindings>>
  \/ /\ subject \in Groups /\ groups[subject] # None
     /\ PutGroup(subject, [groups[subject] EXCEPT !.roles = @ \cup {role}])
     /\ SyncAuth(users, groups', Naming(subject))
     /\ UNCHANGED <<users, idam, attached, keys, keyStore, dbRoles, bindings>>

RbacUnbind(subject, role) ==
  \/ /\ subject \in Users /\ users[subject] # None
     /\ PutUser(subject, [users[subject] EXCEPT !.roles = @ \ {role}])
     /\ UNCHANGED <<groups, idamIn, attached, keys, keyStore, dbRoles, bindings>>
  \/ /\ subject \in Groups /\ groups[subject] # None
     /\ PutGroup(subject, [groups[subject] EXCEPT !.roles = @ \ {role}])
     /\ SyncAuth(users, groups', Naming(subject))
     /\ UNCHANGED <<users, idam, attached, keys, keyStore, dbRoles, bindings>>

Row(subject, grant, n) == [subject |-> subject, grant |-> grant, n |-> n]

Rows(subject, grant) == {b \in bindings : b.subject = subject /\ b.grant = grant}

\* a second bind of the same grant is a second row
ResourceBind(subject, grant) ==
  /\ bindings' = bindings \cup
       {Row(subject, grant, Cardinality(Rows(subject, grant)))}
  /\ UNCHANGED <<users, groups, idam, idamIn, engine, attached, keys, keyStore, dbRoles>>

\* all rows of the grant go at once
ResourceUnbind(subject, grant) ==
  /\ Rows(subject, grant) # {}
  /\ bindings' = bindings \ Rows(subject, grant)
  /\ UNCHANGED <<users, groups, idam, idamIn, engine, attached, keys, keyStore, dbRoles>>

\* the PUT route: unbind what the id names and bind the other permission
RestBindingUpdate(subject, old, new) ==
  /\ Rows(subject, old) # {}
  /\ LET rest == bindings \ Rows(subject, old) IN
     bindings' = rest \cup {Row(subject, new, Cardinality(
                              {b \in rest : b.subject = subject /\ b.grant = new}))}
  /\ UNCHANGED <<users, groups, idam, idamIn, engine, attached, keys, keyStore, dbRoles>>

-----------------------------------------------------------------------------
(* A request with a session cookie or a bearer token brings a role along,    *)
(* which the authoriser assigns to its user, known or not.                   *)

SignIn(u, role) ==
  /\ Canonical(role) \notin engine[u]
  /\ engine' = [engine EXCEPT ![u] = @ \cup {Canonical(role)}]
  /\ UNCHANGED <<users, groups, idam, idamIn, attached, keys, keyStore, dbRoles,
                 bindings>>

-----------------------------------------------------------------------------
IdentityNext ==
  \/ \E u \in Users : RestUserCreate(u) \/ RestUserUpdate(u) \/ UserDelete(u)
  \/ UsersList
  \/ \E g \in Groups :
       \/ RestGroupCreate(g) \/ RestGroupUpdate(g) \/ GroupDelete(g)
       \/ \E p \in GroupPayloads : GroupUpdate(g, p)
  \/ \E k \in KeyIds : ApiKeyRevoke(k)
       \/ \E o \in Users \cup {None}, t \in Tokens, R \in RoleSets \cup {{}} :
            ApiKeyCreate(k, o, t, R)
  \/ \E t \in Tokens : ApiKeyRevokeToken(t)
  \/ \E n \in RoleNames : RoleCreate(n) \/ RoleDelete(n)
  \/ \E u \in Users, r \in UNION RoleSets : SignIn(u, r)
  \/ \E s \in Users \cup Groups, r \in UNION RoleSets : RbacBind(s, r) \/ RbacUnbind(s, r)
  \/ \E s \in Users \cup Groups, x, y \in Grants :
       ResourceBind(s, x) \/ ResourceUnbind(s, x) \/ RestBindingUpdate(s, x, y)

-----------------------------------------------------------------------------
(* Properties.                                                               *)

(* A key that the manager knows is accepted exactly as long as its record is *)
(* not revoked, by whichever of the two calls: admin_api_key_revoke and      *)
(* admin_api_key_revoke_token_hash write two tables each, of which the       *)
(* bootstrap of a start writes only one.                                     *)
KeysMatchStore ==
  attached =>
    \A k \in KeyIds :
      keyStore[k] # "absent" =>
        /\ keys[k] # None
        /\ keys[k].revoked <=> keyStore[k] = "revoked"

(* What the records grant has reached the authoriser: the roles of every     *)
(* user, those of a group whose membership both records agree on, and those  *)
(* of every key made while serving.  Left out are the admin user, to whom    *)
(* users_list gives a role silently, and groups that only one side names,    *)
(* which an update of the group does not reach.                              *)
GrantsReachEngine ==
  attached =>
    /\ \A u \in Present(users) \ {AdminUser} :
         /\ {Canonical(r) : r \in users[u].roles} \subseteq engine[u]
         /\ \A g \in users[u].groups \cap Present(groups) :
              u \in groups[g].members =>
                {Canonical(r) : r \in groups[g].roles} \subseteq engine[u]
    /\ \A k \in Present(keys) :
         keyStore[k] # "absent" => Assigned(keys[k].roles) \subseteq engine[k]

=============================================================================
