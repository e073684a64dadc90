-------------------------- MODULE MCAdministration --------------------------
(* A small instance of Access: two users, one of them the administrator, a   *)
(* group and a collection, with a seed of its own.                           *)
EXTENDS Access

CONSTANTS admin, gary, team, shared, k1, k2, k3, t1, t2, r1, r2

\* a collection, a user and a key of the file come twice
MCSeed == <<
  [kind |-> "group", name |-> team, payload |-> [roles |-> {}, members |-> {}]],
  [kind |-> "user", name |-> gary,
     payload |-> [roles |-> {"admin", "writer"}, groups |-> {}, enabled |-> TRUE]],
  [kind |-> "user", name |-> gary,
     payload |-> [roles |-> {"writer"}, groups |-> {team}, enabled |-> TRUE]],
  [kind |-> "collection", name |-> shared, roles |-> {}],
  [kind |-> "collection", name |-> shared, roles |-> {"writer"}],
  [kind |-> "key", name |-> "first", owner |-> gary, token |-> t1, roles |-> {}],
  [kind |-> "key", name |-> "second", owner |-> gary, token |-> t2, roles |-> {"reader"}],
  [kind |-> "key", name |-> "again", owner |-> gary, token |-> t2, roles |-> {}]>>

MCRoleSets == {{}, {"admin", "writer"}}

MCSymmetry == Permutations({k1, k2, k3}) \cup Permutations({r1, r2})

MCGrants == {[on |-> shared, permission |-> "collection.read"],
             [on |-> Anything, permission |-> "collection.write"]}

\* the first leaves the roles graded
MCPolicyChanges == {[role |-> "viewer", permissions |-> {}],
                    [role |-> "viewer", permissions |-> {"collection.write"}]}

MCAccessLists == {{}, {"reader"}}

=============================================================================
