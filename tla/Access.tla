------------------------------- MODULE Access -------------------------------
(***************************************************************************)
(* Who may call which tool of the MCP server on which collection, in every *)
(* state that the administration can reach: the flat permissions of the    *)
(* authoriser's roles (src/src/index_server/auth/middleware.py), the       *)
(* bindings of users and groups (auth/cascade.py) and the access lists of  *)
(* the collections, as mcp_server.py consults them one after another.      *)
(***************************************************************************)
EXTENDS Administration, Routes

CONSTANTS
  Anything (* the resource id "*" of a binding                               *)

-----------------------------------------------------------------------------
(* Identities, as the middleware makes them of what a request presents.      *)

\* what the engine grants a principal whatever the resource
Granted(p) == UNION {overlay[r] : r \in engine[p] \cap DOMAIN overlay}

\* An API key, or a bearer token, whose role SignIn has assigned: the engine says
\* what its user may do, and says so again to whoever asks for the user.
ByKey(p) ==
  [session |-> FALSE, id |-> p, roles |-> engine[p], permissions |-> Granted(p),
   granted |-> Granted(p)]

\* a session has the one role it was opened with, by the table of that moment
BySession(u, role) ==
  [session |-> TRUE, id |-> u, roles |-> {role},
   permissions |-> IF role \in DOMAIN policies THEN policies[role] ELSE {},
   granted |-> Granted(u)]

Identities ==
  {ByKey(p) : p \in DOMAIN engine}
    \cup UNION {{BySession(u, r) : r \in engine[u]} : u \in Users}

Gives(permissions, permission) == permission \in permissions \/ "*" \in permissions

\* require_permission: of a session the engine is not asked
RequirePermission(i, permission) ==
  Gives(i.permissions, permission) \/ (~i.session /\ Gives(i.granted, permission))

\* IndexMembershipResolver.groups_of: the records at the moment of the call
GroupsOf(p) == {g \in Present(groups) : p \in groups[g].members}

\* variant: the bindings of groups are not looked at
HasBindingOwn(p, permission, k) ==
  \E b \in bindings :
    b.subject = p /\ b.grant.permission = permission /\ b.grant.on \in {k, Anything}

HasBinding(p, permission, k) ==
  \E b \in bindings :
    /\ b.subject \in {p} \cup GroupsOf(p)
    /\ b.grant.permission = permission
    /\ b.grant.on \in {k, Anything}

\* authorise_resource asks the engine for the user, of a session as well
AuthoriseResource(i, permission, k) ==
  "*" \in i.permissions \/ Gives(i.granted, permission) \/ HasBinding(i.id, permission, k)

-----------------------------------------------------------------------------
(* The two checks of a tool call.  What it is about, on, is a collection, or *)
(* for the tools that guard jobs the owner of the job and the actor that the *)
(* arguments of the call name.                                               *)

\* _enforce_tool_permission
ToolPermitted(t, i, on) ==
  IF t \in DOMAIN PointTools THEN AuthoriseResource(i, PointTools[t], on)
                             ELSE RequirePermission(i, RequiredPermission(t))

\* a missing or empty list is open to everyone
ListAllows(i, k) ==
  \/ acl[k] \in {Missing, {}}
  \/ "admin" \in i.roles
  \/ {Canonical(r) : r \in i.roles} \cap {Canonical(r) : r \in acl[k]} # {}

\* _enforce_collection_permission
CollectionPermitted(i, permission, k) ==
  \/ HasBinding(i.id, permission, k)
  \/ RequirePermission(i, permission) /\ ListAllows(i, k)

\* _enforce_job_owner, and the filter that job_list applies row by row: the
\* servers fill in the actor only where the arguments do not name one
OwnJob(i, job) == RequirePermission(i, "admin") \/ job.owner = job.actor

\* bulk_ingest, which writes, asks for the permission to read
FlatPermission(t) == IF t = "bulk_ingest" THEN "collection.read" ELSE RequiredPermission(t)

GuardPermitted(t, i, on) ==
  CASE Guards[t] = "collection" -> CollectionPermitted(i, RequiredPermission(t), on)
    [] Guards[t] = "flat" -> RequirePermission(i, FlatPermission(t))
    [] Guards[t] = "role" -> "admin" \in i.roles
    [] Guards[t] = "owner" -> OwnJob(i, on)
    [] OTHER -> TRUE

Admitted(t, i, on) == ToolPermitted(t, i, on) /\ GuardPermitted(t, i, on)

-----------------------------------------------------------------------------
(* The doors.  An operation of the administration asks for the role again    *)
(* behind each of them.                                                      *)

ToolDoor(t, i, on) == RequirePermission(i, ToolsPathPermission) /\ Admitted(t, i, on)

RouteDoor(o, i) ==
  \/ o \in OpenRoutes /\ ~i.session
  \/ /\ RequirePermission(i, RoutePermission[o])
     /\ o \in Tools => (Guards[o] = "role" => "admin" \in i.roles)

\* _a2a_auth_or_raise knows no sessions, and of the others API keys only
SkillDoor(s, i, on) == ~i.session /\ Admitted(Skills[s], i, on)

-----------------------------------------------------------------------------
(* Properties.                                                               *)

\* the table that an identity has its permissions from
TableOf(i) == IF i.session THEN policies ELSE overlay

ByRole(i, permission) ==
  \E r \in i.roles \cap DOMAIN TableOf(i) : Gives(TableOf(i)[r], permission)

CollectionTools == {t \in Tools : Guards[t] = "collection"}

(* The two checks of a call agree with the one rule they implement together, *)
(* whatever has become of the permissions of the roles: on a collection that *)
(* a binding names, for the user or a group of which the user is a member    *)
(* now, the binding decides; otherwise the roles of the caller must give the *)
(* permission and be on the list of the collection, if it has one.  A tool   *)
(* that knows no resource in the first check needs the permission from a     *)
(* role even where a binding exists.  Nobody is admitted against the rule,   *)
(* and no key or bearer token is refused against it; a session may be, where *)
(* the engine knows less of its user than the role of the session gives.     *)
GateMatchesRule ==
  phase = "serving" =>
    \A i \in Identities, t \in CollectionTools, k \in Collections :
      LET permission == RequiredPermission(t)
          bound == \E b \in bindings, s \in {i.id} \cup Groups :
                     /\ b.subject = s /\ b.grant.permission = permission
                     /\ b.grant.on \in {k, Anything}
                     /\ s # i.id => groups[s] # None /\ i.id \in groups[s].members
          listed == \/ acl[k] \in {Missing, {}} \/ "admin" \in i.roles
                    \/ \E r \in acl[k], q \in i.roles : Canonical(r) = Canonical(q)
          rule == IF t \in DOMAIN PointTools
                    THEN bound \/ (ByRole(i, permission) /\ listed)
                    ELSE ByRole(i, permission) /\ (bound \/ listed)
      IN /\ Admitted(t, i, k) => rule
         /\ ~i.session => (rule => Admitted(t, i, k))

(* Operations that a caller can reach by a route and by a tool and that are  *)
(* not about one collection, but for the records of one user or group, which *)
(* the routes show to readers, and for the list of events that a route of    *)
(* the A2A interface shows to every key.                                     *)
SharedOperations ==
  {o \in DOMAIN RoutePermission \cap Tools :
     o \notin DOMAIN PointTools /\ Guards[o] \in {"none", "role"}}
    \ ({"user_get", "group_get"} \cup OpenRoutes)

(* As the roles of the start are graded: what gives anything lets read, who  *)
(* may write may configure, and only the role admin may administer.          *)
Graded(i) ==
  /\ i.permissions # {} => Gives(i.permissions, "collection.read")
  /\ Gives(i.permissions, "collection.write") <=> Gives(i.permissions, "source.configure")
  /\ Gives(i.permissions, "admin") <=> "admin" \in i.roles

(* The routes and the tools keep their permissions in two places, with other *)
(* names for some, and the skills call the tools without the middleware of   *)
(* the tools' paths: still every caller that the authoriser can come to know *)
(* reaches the same operations by each of them, as far as its credential is  *)
(* taken there, and an administration call that was let in is not refused by *)
(* the service behind it.  So it is with the permissions that the roles have *)
(* from the start; a change of them may open one door alone, but for callers *)
(* that it leaves graded.                                                    *)
DoorsAgree ==
  phase = "serving" =>
    \A i \in Identities :
      TableOf(i) = InitialPolicies \/ Graded(i) =>
        /\ \A o \in SharedOperations : RouteDoor(o, i) <=> ToolDoor(o, i, Anything)
        /\ \A s \in DOMAIN Skills :
             Skills[s] \in SharedOperations =>
               (SkillDoor(s, i, Anything) <=> ~i.session /\ RouteDoor(Skills[s], i))
        /\ \A o \in {x \in Tools : Guards[x] = "role"} :
             ToolPermitted(o, i, Anything) => GuardPermitted(o, i, Anything)

=============================================================================
