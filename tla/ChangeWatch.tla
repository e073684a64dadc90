----------------------------- MODULE ChangeWatch -----------------------------
(***************************************************************************)
(* WatchService (src/src/index_tools/change_stream/service.py), the fan    *)
(* out of every document change to the change watches of its tenant, and   *)
(* the lazy watch_service property of IndexService through which all       *)
(* threads of the process reach it.                                        *)
(*                                                                         *)
(* The watches here are those of one tenant.  The coordinator is library   *)
(* code: it keeps a state for every watch, raises for a watch it does not  *)
(* have, and its emit raises unless the watch is live.                     *)
(***************************************************************************)
EXTENDS Naturals

CONSTANTS
  Threads,    (* request threads and job threads of the process              *)
  Watches,    (* watch ids; uuids, so a deleted id is never used again       *)
  Changes,    (* kinds of observed change                                    *)
  Matching,   (* Matching[w]: the changes that the criteria of w match       *)
  Ops,        (* which of the operations below the threads call              *)
  MaxCalls,   (* bound: calls per thread                                     *)
  None        (* not a thread                                                *)

ASSUME ChangeWatchAssumption ==
  /\ DOMAIN Matching = Watches
  /\ Ops \subseteq {"create", "pause", "resume", "delete", "observe"}
  /\ MaxCalls \in Nat
  /\ None \notin Threads

VARIABLES
  cached,   (* _watch_service: the thread that built it, or None             *)
  specs,    (* specs[i]: _specs of the instance that thread i built          *)
  state,    (* state[i][w]: what the coordinator of instance i says of w     *)
  at,       (* at[t]: where thread t stands                                  *)
  using,    (* using[t]: the instance that the call of t got                 *)
  request,  (* request[t]: the operation of t, and its watch or change       *)
  targets,  (* targets[t]: watches left of the snapshot of observe_change    *)
  current,  (* current[t]: wid, the watch the loop is at                     *)
  emitted,  (* emitted[t]: the local variable of observe_change              *)
  steady,   (* history: watches live ever since the snapshot                 *)
  calls,    (* calls[t]: calls begun                                         *)
  missed    (* history: watch and change that a finished call left out       *)

vars == <<cached, specs, state, at, using, request, targets, current, emitted,
          steady, calls, missed>>

fan == <<targets, current, emitted, steady, missed>>

Requests ==
  [op : Ops \cap {"create"}, arg : {None}]
    \cup [op : Ops \cap {"pause", "resume", "delete"}, arg : Watches]
    \cup [op : Ops \cap {"observe"}, arg : Changes]

NoRequest == [op |-> "none", arg |-> None]

WatchTypeOK ==
  /\ cached \in Threads \cup {None}
  /\ specs \in [Threads -> SUBSET Watches]
  /\ state \in [Threads -> [Watches -> {"absent", "live", "paused", "gone"}]]
  /\ at \in [Threads -> {"idle", "build", "call", "fan", "emit"}]
  /\ using \in [Threads -> Threads \cup {None}]
  /\ request \in [Threads -> Requests \cup {NoRequest}]
  /\ targets \in [Threads -> SUBSET Watches]
  /\ current \in [Threads -> Watches \cup {None}]
  /\ emitted \in [Threads -> SUBSET Watches]
  /\ steady \in [Threads -> SUBSET Watches]
  /\ calls \in [Threads -> 0 .. MaxCalls]
  /\ missed \subseteq Watches \X Changes

Init ==
  /\ cached = None
  /\ specs = [i \in Threads |-> {}]
  /\ state = [i \in Threads |-> [w \in Watches |-> "absent"]]
  /\ at = [t \in Threads |-> "idle"]
  /\ using = [t \in Threads |-> None]
  /\ request = [t \in Threads |-> NoRequest]
  /\ targets = [t \in Threads |-> {}]
  /\ current = [t \in Threads |-> None]
  /\ emitted = [t \in Threads |-> {}]
  /\ steady = [t \in Threads |-> {}]
  /\ calls = [t \in Threads |-> 0]
  /\ missed = {}

-----------------------------------------------------------------------------
(* The lazy property.                                                        *)

\* getattr(self, "_watch_service", None): a thread that finds none builds one.
Access(t, q) ==
  /\ at[t] = "idle"
  /\ calls[t] < MaxCalls
  /\ calls' = [calls EXCEPT ![t] = @ + 1]
  /\ request' = [request EXCEPT ![t] = q]
  /\ using' = [using EXCEPT ![t] = cached]
  /\ at' = [at EXCEPT ![t] = IF cached = None THEN "build" ELSE "call"]
  /\ UNCHANGED <<cached, specs, state, fan>>

\* The constructor has ended, and the new instance is cached whatever other
\* threads cached meanwhile.  A thread builds at most once, as the cache is
\* never emptied, so its name identifies the instance.
Build(t) ==
  /\ at[t] = "build"
  /\ cached' = t
  /\ using' = [using EXCEPT ![t] = t]
  /\ at' = [at EXCEPT ![t] = "call"]
  /\ UNCHANGED <<specs, state, request, calls, fan>>

-----------------------------------------------------------------------------
(* create_watch, pause, resume, delete                                       *)

Calling(t, op) ==
  /\ at[t] = "call"
  /\ request[t].op = op
  /\ at' = [at EXCEPT ![t] = "idle"]
  /\ using' = [using EXCEPT ![t] = None]
  /\ request' = [request EXCEPT ![t] = NoRequest]
  /\ UNCHANGED <<cached, calls>>

SetState(i, w, s) == state' = [state EXCEPT ![i][w] = s]

\* No call under way may count on w any more.
Unsteady(i, w) ==
  steady' = [t \in Threads |-> IF using[t] = i THEN steady[t] \ {w} ELSE steady[t]]

\* Under the lock: the coordinator's entry, then the spec and the criteria.
CreateWatch(t) ==
  LET i == using[t] IN
  /\ Calling(t, "create")
  /\ \E w \in Watches :
       /\ \A k \in Threads : state[k][w] = "absent"
       /\ specs' = [specs EXCEPT ![i] = @ \cup {w}]
       /\ SetState(i, w, "live")
  /\ UNCHANGED fan

\* WatchNotFound from _require_owner, or from the coordinator if the watch was
\* deleted in between.
NotFound(t) ==
  \E op \in {"pause", "resume", "delete"} :
    /\ Calling(t, op)
    /\ request[t].arg \notin specs[using[t]]
    /\ UNCHANGED <<specs, state, fan>>

Pause(t) ==
  LET i == using[t] w == request[t].arg IN
  /\ Calling(t, "pause")
  /\ w \in specs[i]
  /\ SetState(i, w, "paused")
  /\ Unsteady(i, w)
  /\ UNCHANGED <<specs, targets, current, emitted, missed>>

Resume(t) ==
  LET i == using[t] w == request[t].arg IN
  /\ Calling(t, "resume")
  /\ w \in specs[i]
  /\ SetState(i, w, "live")
  /\ UNCHANGED <<specs, fan>>

\* variant with a plausible bug, against which a property is tested: the spec
\* is not popped
DeleteKeepsSpec(t) ==
  LET i == using[t] w == request[t].arg IN
  /\ Calling(t, "delete")
  /\ w \in specs[i]
  /\ SetState(i, w, "gone")
  /\ Unsteady(i, w)
  /\ UNCHANGED <<specs, targets, current, emitted, missed>>

\* Under the lock, like CreateWatch.
Delete(t) ==
  LET i == using[t] w == request[t].arg IN
  /\ Calling(t, "delete")
  /\ w \in specs[i]
  /\ SetState(i, w, "gone")
  /\ specs' = [specs EXCEPT ![i] = @ \ {w}]
  /\ Unsteady(i, w)
  /\ UNCHANGED <<targets, current, emitted, missed>>

-----------------------------------------------------------------------------
(* observe_change                                                            *)

\* The snapshot of the watches, under the lock.
Snapshot(t) ==
  LET i == using[t] IN
  /\ at[t] = "call"
  /\ request[t].op = "observe"
  /\ targets' = [targets EXCEPT ![t] = specs[i]]
  /\ steady' = [steady EXCEPT ![t] = {w \in specs[i] : state[i][w] = "live"}]
  /\ at' = [at EXCEPT ![t] = "fan"]
  /\ UNCHANGED <<cached, specs, state, using, request, current, emitted, calls,
                 missed>>

Matches(t, w) == request[t].arg \in Matching[w]

\* One turn of the loop, up to emit: get_status, and the criteria.  The order
\* of the snapshot is the order of creation; any order is allowed here.
FanTarget(t) ==
  \E w \in targets[t] :
    /\ at[t] = "fan"
    /\ state[using[t]][w] # "gone"
    /\ targets' = [targets EXCEPT ![t] = @ \ {w}]
    /\ IF state[using[t]][w] = "live" /\ Matches(t, w)
       THEN /\ at' = [at EXCEPT ![t] = "emit"]
            /\ current' = [current EXCEPT ![t] = w]
       ELSE UNCHANGED <<at, current>>
    /\ UNCHANGED <<cached, specs, state, using, request, emitted, steady, calls,
                   missed>>

\* variant: a failing emit ends the loop instead of the turn
EmitBreaks(t) ==
  LET w == current[t] ok == state[using[t]][w] = "live" IN
  /\ at[t] = "emit"
  /\ emitted' = [emitted EXCEPT ![t] = IF ok THEN @ \cup {w} ELSE @]
  /\ targets' = [targets EXCEPT ![t] = IF ok THEN @ ELSE {}]
  /\ current' = [current EXCEPT ![t] = None]
  /\ at' = [at EXCEPT ![t] = "fan"]
  /\ UNCHANGED <<cached, specs, state, using, request, steady, calls, missed>>

\* coordinator.emit, whose failure is caught.
Emit(t) ==
  LET w == current[t] IN
  /\ at[t] = "emit"
  /\ emitted' = [emitted EXCEPT ![t] =
                   IF state[using[t]][w] = "live" THEN @ \cup {w} ELSE @]
  /\ current' = [current EXCEPT ![t] = None]
  /\ at' = [at EXCEPT ![t] = "fan"]
  /\ UNCHANGED <<cached, specs, state, using, request, targets, steady, calls,
                 missed>>

\* The loop is over, or get_status, which no try statement guards, raises for
\* a watch deleted since the snapshot: _emit_change_watch swallows the
\* exception, and with it the rest of the loop.
FanEnds(t) ==
  /\ at[t] = "fan"
  /\ \/ targets[t] = {}
     \/ \E w \in targets[t] : state[using[t]][w] = "gone"
  /\ at' = [at EXCEPT ![t] = "idle"]
  /\ using' = [using EXCEPT ![t] = None]
  /\ request' = [request EXCEPT ![t] = NoRequest]
  /\ missed' = missed \cup
       {<<w, request[t].arg>> : w \in {x \in steady[t] \ emitted[t] : Matches(t, x)}}
  /\ targets' = [targets EXCEPT ![t] = {}]
  /\ emitted' = [emitted EXCEPT ![t] = {}]
  /\ steady' = [steady EXCEPT ![t] = {}]
  /\ UNCHANGED <<cached, specs, state, current, calls>>

-----------------------------------------------------------------------------
Next ==
  \/ \E t \in Threads, q \in Requests : Access(t, q)
  \/ \E t \in Threads :
       \/ Build(t) \/ CreateWatch(t) \/ NotFound(t) \/ Pause(t) \/ Resume(t)
       \/ Delete(t) \/ Snapshot(t) \/ FanTarget(t) \/ Emit(t) \/ FanEnds(t)

Spec == Init /\ [][Next]_vars

-----------------------------------------------------------------------------
(* Properties.                                                               *)

\* The adapter and the coordinator know the same watches, in every instance
\* and at every moment: otherwise list_watches, and every fan out, raises for
\* a watch that one has and the other has not.
SpecsMatchCoordinator ==
  \A i \in Threads, w \in Watches :
    w \in specs[i] <=> state[i][w] \in {"live", "paused"}

\* The promise of observe_change: a change reaches every watch whose criteria
\* match it and that is live for as long as the call lasts, whatever is paused,
\* resumed or created meanwhile.  True until some watch is deleted: a watch that
\* goes during the loop cuts the ones behind it off.
NoMissedEvent ==
  (\A i \in Threads, w \in Watches : state[i][w] # "gone") => missed = {}

\* The promise of the watch_service property: the same watches are shared
\* within the process.  A watch that was created and not deleted is one that
\* later calls find.  False if two first accesses overlap: the second instance
\* replaces the first, with the watches it has.
CreatedWatchStays ==
  \A i \in Threads, w \in Watches :
    state[i][w] \in {"live", "paused"} => i = cached

=============================================================================
