-------------------------- MODULE ChangeWatchProofs --------------------------
(***************************************************************************)
(* Theorems about the watches of a tenant, for any threads, watches,       *)
(* changes, criteria and operations, and any number of calls.              *)
(***************************************************************************)
EXTENDS ChangeWatch, TLAPS

-----------------------------------------------------------------------------
(* A thread that has passed the lazy property has an instance, one in the    *)
(* loop observes a change, and the adapter and the coordinator of every      *)
(* instance know the same watches.                                           *)

Standing ==
  \A t \in Threads :
    /\ at[t] \in {"call", "fan", "emit"} => using[t] \in Threads
    /\ at[t] \in {"fan", "emit"} => request[t].op = "observe"
    /\ at[t] = "emit" => current[t] \in Watches

WatchInv == WatchTypeOK /\ Standing /\ SpecsMatchCoordinator

\* No adapter has a watch at the start.
LEMMA WatchStart == Init => WatchInv
<1> SUFFICES ASSUME Init PROVE WatchInv
  OBVIOUS
<1>1. WatchTypeOK
  BY ChangeWatchAssumption DEF Init, WatchTypeOK
<1>2. Standing /\ SpecsMatchCoordinator
  BY DEF Init, Standing, SpecsMatchCoordinator
<1> QED
  BY <1>1, <1>2 DEF WatchInv

\* What a call names.
LEMMA RequestArgument ==
  ASSUME WatchTypeOK, NEW t \in Threads, request[t].op \in {"pause", "resume", "delete"}
  PROVE  request[t].arg \in Watches
  BY DEF WatchTypeOK, Requests, NoRequest

\* A call that is answered, with what it does to an instance.
LEMMA CallStep ==
  ASSUME WatchInv, NEW t \in Threads, NEW op, Calling(t, op),
         specs' \in [Threads -> SUBSET Watches],
         state' \in [Threads -> [Watches -> {"absent", "live", "paused", "gone"}]],
         SpecsMatchCoordinator',
         steady' \in [Threads -> SUBSET Watches],
         UNCHANGED <<targets, current, emitted, missed>>
  PROVE  WatchInv'
<1>1. WatchTypeOK'
  BY DEF WatchInv, WatchTypeOK, Calling
<1>2. Standing'
  BY DEF WatchInv, WatchTypeOK, Standing, Calling
<1> QED
  BY <1>1, <1>2 DEF WatchInv

\* One watch of one instance changes in both.
LEMMA BothChange ==
  ASSUME WatchInv, NEW i \in Threads, NEW w \in Watches,
         NEW s \in {"absent", "live", "paused", "gone"}, SetState(i, w, s),
         specs' = [specs EXCEPT ![i] =
                     IF s \in {"live", "paused"} THEN @ \cup {w} ELSE @ \ {w}]
  PROVE  /\ specs' \in [Threads -> SUBSET Watches]
         /\ state' \in [Threads -> [Watches -> {"absent", "live", "paused", "gone"}]]
         /\ SpecsMatchCoordinator'
<1> USE DEF WatchInv, WatchTypeOK
<1>1. specs' \in [Threads -> SUBSET Watches]
  OBVIOUS
<1>2. state' \in [Threads -> [Watches -> {"absent", "live", "paused", "gone"}]]
  BY DEF SetState
<1>3. ASSUME NEW j \in Threads, NEW x \in Watches
      PROVE  x \in specs'[j] <=> state'[j][x] \in {"live", "paused"}
  <2>1. CASE j = i /\ x = w
    BY <2>1 DEF SetState
  <2>2. CASE ~(j = i /\ x = w)
    <3>1. state'[j][x] = state[j][x] /\ (x \in specs'[j] <=> x \in specs[j])
      BY <2>2 DEF SetState
    <3> QED
      BY <3>1 DEF SpecsMatchCoordinator
  <2> QED
    BY <2>1, <2>2
<1> QED
  BY <1>1, <1>2, <1>3 DEF SpecsMatchCoordinator

\* Watches that stop being live are taken out of what calls rely on.
LEMMA UnsteadyTyped ==
  ASSUME WatchTypeOK, NEW i, NEW w, Unsteady(i, w)
  PROVE  steady' \in [Threads -> SUBSET Watches]
  BY DEF WatchTypeOK, Unsteady

\* Every step keeps adapter and coordinator in agreement.
LEMMA WatchStep == WatchInv /\ [Next]_vars => WatchInv'
<1> SUFFICES ASSUME WatchInv, [Next]_vars PROVE WatchInv'
  OBVIOUS
<1> USE DEF WatchInv
<1>1. ASSUME NEW t \in Threads, NEW q \in Requests, Access(t, q) PROVE WatchInv'
  <2>1. UNCHANGED <<cached, specs, state, targets, current, emitted, steady, missed>>
    BY <1>1 DEF Access, fan
  <2>2. /\ at' \in [Threads -> {"idle", "build", "call", "fan", "emit"}]
        /\ using' \in [Threads -> Threads \cup {None}]
        /\ request' \in [Threads -> Requests \cup {NoRequest}]
    BY <1>1 DEF Access, WatchTypeOK
  <2>3. calls' \in [Threads -> 0 .. MaxCalls]
    BY <1>1, ChangeWatchAssumption DEF Access, WatchTypeOK
  <2>4. Standing'
    BY <1>1 DEF Access, Standing, WatchTypeOK, fan
  <2> QED
    BY <2>1, <2>2, <2>3, <2>4 DEF WatchTypeOK, SpecsMatchCoordinator
<1>2. ASSUME NEW t \in Threads, Build(t) PROVE WatchInv'
  BY <1>2 DEF Build, fan, WatchTypeOK, Standing, SpecsMatchCoordinator
<1>3. ASSUME NEW t \in Threads, CreateWatch(t) PROVE WatchInv'
  <2> PICK i : i = using[t]
    OBVIOUS
  <2>1. i \in Threads /\ Calling(t, "create") /\ UNCHANGED fan
    BY <1>3 DEF CreateWatch, Calling, Standing
  <2>2. PICK w \in Watches :
          specs' = [specs EXCEPT ![i] = @ \cup {w}] /\ SetState(i, w, "live")
    BY <1>3 DEF CreateWatch, SetState
  <2>3. /\ specs' \in [Threads -> SUBSET Watches]
        /\ state' \in [Threads -> [Watches -> {"absent", "live", "paused", "gone"}]]
        /\ SpecsMatchCoordinator'
    BY <2>1, <2>2, BothChange
  <2> QED
    BY <2>1, <2>3, CallStep DEF fan, WatchTypeOK
<1>4. ASSUME NEW t \in Threads, NotFound(t) PROVE WatchInv'
  <2>1. PICK op : Calling(t, op)
    BY <1>4 DEF NotFound
  <2>2. UNCHANGED <<specs, state, targets, current, emitted, steady, missed>>
    BY <1>4 DEF NotFound, fan
  <2>3. SpecsMatchCoordinator'
    BY <2>2 DEF SpecsMatchCoordinator
  <2>4. /\ specs' \in [Threads -> SUBSET Watches]
        /\ state' \in [Threads -> [Watches -> {"absent", "live", "paused", "gone"}]]
        /\ steady' \in [Threads -> SUBSET Watches]
    BY <2>2 DEF WatchTypeOK
  <2> QED
    BY <2>1, <2>2, <2>3, <2>4, CallStep
<1>5. ASSUME NEW t \in Threads, Pause(t) \/ Resume(t) \/ Delete(t) PROVE WatchInv'
  <2> PICK i : i = using[t]
    OBVIOUS
  <2> PICK w : w = request[t].arg
    OBVIOUS
  <2>1. i \in Threads /\ w \in Watches /\ w \in specs[i]
    BY <1>5, RequestArgument DEF Pause, Resume, Delete, Calling, Standing
  <2>2. CASE Pause(t)
    <3>1. SetState(i, w, "paused") /\ Unsteady(i, w) /\ Calling(t, "pause")
          /\ UNCHANGED <<specs, targets, current, emitted, missed>>
      BY <2>2 DEF Pause, SetState, Unsteady
    <3>2. specs' = [specs EXCEPT ![i] = @ \cup {w}]
      BY <2>1, <3>1 DEF WatchTypeOK
    <3> QED
      BY <2>1, <3>1, <3>2, BothChange, UnsteadyTyped, CallStep
  <2>3. CASE Resume(t)
    <3>1. SetState(i, w, "live") /\ Calling(t, "resume") /\ UNCHANGED <<specs, fan>>
      BY <2>3 DEF Resume, SetState
    <3>2. specs' = [specs EXCEPT ![i] = @ \cup {w}]
      BY <2>1, <3>1 DEF WatchTypeOK
    <3> QED
      BY <2>1, <3>1, <3>2, BothChange, CallStep DEF fan, WatchTypeOK
  <2>4. CASE Delete(t)
    <3>1. SetState(i, w, "gone") /\ Unsteady(i, w) /\ Calling(t, "delete")
          /\ specs' = [specs EXCEPT ![i] = @ \ {w}]
          /\ UNCHANGED <<targets, current, emitted, missed>>
      BY <2>4 DEF Delete, SetState, Unsteady
    <3> QED
      BY <2>1, <3>1, BothChange, UnsteadyTyped, CallStep
  <2> QED
    BY <1>5, <2>2, <2>3, <2>4
<1>6. ASSUME NEW t \in Threads, Snapshot(t) PROVE WatchInv'
  BY <1>6 DEF Snapshot, WatchTypeOK, Standing, SpecsMatchCoordinator
<1>7. ASSUME NEW t \in Threads, FanTarget(t) PROVE WatchInv'
  <2>1. WatchTypeOK'
    BY <1>7 DEF FanTarget, WatchTypeOK
  <2> QED
    BY <1>7, <2>1 DEF FanTarget, WatchTypeOK, Standing, SpecsMatchCoordinator
<1>8. ASSUME NEW t \in Threads, Emit(t) PROVE WatchInv'
  <2>1. at[t] = "emit" /\ current[t] \in Watches
    BY <1>8 DEF Emit, Standing
  <2>2. WatchTypeOK'
    <3>1. emitted' \in [Threads -> SUBSET Watches]
      BY <1>8, <2>1 DEF Emit, WatchTypeOK
    <3>2. /\ current' \in [Threads -> Watches \cup {None}]
          /\ at' \in [Threads -> {"idle", "build", "call", "fan", "emit"}]
      BY <1>8 DEF Emit, WatchTypeOK
    <3> QED
      BY <1>8, <3>1, <3>2 DEF Emit, WatchTypeOK
  <2>3. Standing'
    BY <1>8 DEF Emit, WatchTypeOK, Standing
  <2> QED
    BY <1>8, <2>2, <2>3 DEF Emit, SpecsMatchCoordinator
<1>9. ASSUME NEW t \in Threads, FanEnds(t) PROVE WatchInv'
  <2>1. request[t].arg \in Changes
    <3>1. request[t].op = "observe"
      BY <1>9 DEF FanEnds, Standing
    <3>2. request[t] \in Requests \cup {NoRequest}
      BY DEF WatchTypeOK
    <3> QED
      BY <3>1, <3>2 DEF Requests, NoRequest
  <2>2. missed' \subseteq Watches \X Changes
    BY <1>9, <2>1 DEF FanEnds, WatchTypeOK
  <2> QED
    BY <1>9, <2>2 DEF FanEnds, WatchTypeOK, Standing, SpecsMatchCoordinator
<1>10. CASE UNCHANGED vars
  BY <1>10 DEF vars, fan, WatchTypeOK, Standing, SpecsMatchCoordinator
<1> QED
  BY <1>1, <1>2, <1>3, <1>4, <1>5, <1>6, <1>7, <1>8, <1>9, <1>10 DEF Next

\* The adapter and the coordinator know the same watches, in every instance, at
\* every moment and for any overlap of the operations.
THEOREM SpecsAlwaysMatch == Spec => []SpecsMatchCoordinator
<1>1. WatchInv => SpecsMatchCoordinator
  BY DEF WatchInv
<1> QED
  BY <1>1, WatchStart, WatchStep, PTL DEF Spec

-----------------------------------------------------------------------------
(* A fan out owes a steady watch a change that matches until it has emitted  *)
(* it: the watch is live, and ahead in the loop or already served.           *)

Owed(t, w) ==
  \/ w \in targets[t]
  \/ w \in emitted[t]
  \/ at[t] = "emit" /\ w = current[t]

FanInv ==
  \A t \in Threads : at[t] \in {"fan", "emit"} =>
    \A w \in steady[t] :
      /\ state[using[t]][w] = "live"
      /\ Matches(t, w) => Owed(t, w)

NoneGone == \A i \in Threads, w \in Watches : state[i][w] # "gone"

\* A watch that is gone stays gone.
LEMMA GoneStays ==
  ASSUME WatchInv, [Next]_vars, NoneGone'
  PROVE  NoneGone
<1> SUFFICES ASSUME NEW i \in Threads, NEW w \in Watches, state[i][w] = "gone"
             PROVE  state'[i][w] = "gone"
  BY DEF NoneGone
<1> USE DEF WatchInv
<1>1. w \notin specs[i]
  BY DEF SpecsMatchCoordinator
<1>2. ASSUME NEW t \in Threads, CreateWatch(t) PROVE state'[i][w] = "gone"
  BY <1>2 DEF CreateWatch, SetState, WatchTypeOK
<1>3. ASSUME NEW t \in Threads, Pause(t) \/ Resume(t) \/ Delete(t)
      PROVE  state'[i][w] = "gone"
  <2> PICK j : j = using[t]
    OBVIOUS
  <2> PICK v : v = request[t].arg
    OBVIOUS
  <2>1. v \in specs[j]
        /\ (SetState(j, v, "paused") \/ SetState(j, v, "live") \/ SetState(j, v, "gone"))
    BY <1>3 DEF Pause, Resume, Delete, SetState
  <2>2. ASSUME NEW s, SetState(j, v, s) PROVE state'[i][w] = state[i][w]
    <3>1. ~(i = j /\ w = v)
      BY <1>1, <2>1
    <3> QED
      BY <2>2, <3>1 DEF SetState, WatchTypeOK
  <2> QED
    BY <2>1, <2>2
<1>4. ASSUME UNCHANGED state PROVE state'[i][w] = "gone"
  BY <1>4
<1> QED
  BY <1>2, <1>3, <1>4 DEF Next, Access, Build, NotFound, Snapshot, FanTarget, Emit,
     FanEnds, vars

\* Every step of a fan out still owes the change to the watches it relies on.
LEMMA FanStep == WatchInv /\ FanInv /\ [Next]_vars => FanInv'
<1> SUFFICES ASSUME WatchInv, FanInv, [Next]_vars,
                    NEW x \in Threads, at'[x] \in {"fan", "emit"}, NEW w \in steady'[x]
             PROVE  /\ state'[using'[x]][w] = "live"
                    /\ Matches(x, w)' => Owed(x, w)'
  BY DEF FanInv
<1> USE DEF WatchInv
<1>1. ASSUME NEW t \in Threads, NEW q \in Requests, Access(t, q)
      PROVE  x # t /\ UNCHANGED <<at[x], using[x], request[x], state, fan>>
  BY <1>1 DEF Access, WatchTypeOK
<1>2. ASSUME NEW t \in Threads, Build(t)
      PROVE  x # t /\ UNCHANGED <<at[x], using[x], request[x], state, fan>>
  BY <1>2 DEF Build, WatchTypeOK
<1>3. ASSUME NEW t \in Threads, NEW op, Calling(t, op)
      PROVE  x # t /\ UNCHANGED <<at[x], using[x], request[x]>>
  BY <1>3 DEF Calling, WatchTypeOK
\* a step of another thread that leaves the states of the watches alone
<1>4. ASSUME UNCHANGED <<at[x], using[x], request[x], state, targets[x], current[x],
                         emitted[x], steady[x]>>
      PROVE  /\ state'[using'[x]][w] = "live"
             /\ Matches(x, w)' => Owed(x, w)'
  BY <1>4 DEF FanInv, Matches, Owed
<1>5. ASSUME NEW t \in Threads, CreateWatch(t)
      PROVE  /\ state'[using'[x]][w] = "live"
             /\ Matches(x, w)' => Owed(x, w)'
  <2>1. UNCHANGED <<at[x], using[x], request[x], fan>>
    BY <1>3, <1>5 DEF CreateWatch
  <2>2. state[using[x]][w] = "live" /\ using[x] \in Threads /\ w \in Watches
    BY <2>1 DEF FanInv, fan, WatchTypeOK, Standing
  <2>3. state'[using[x]][w] = "live"
    BY <1>5, <2>2 DEF CreateWatch, SetState, WatchTypeOK
  <2> QED
    BY <2>1, <2>3 DEF FanInv, Matches, Owed, fan
<1>6. ASSUME NEW t \in Threads, Pause(t) \/ Resume(t) \/ Delete(t)
      PROVE  /\ state'[using'[x]][w] = "live"
             /\ Matches(x, w)' => Owed(x, w)'
  <2>1. UNCHANGED <<at[x], using[x], request[x], targets, current, emitted>>
    BY <1>3, <1>6 DEF Pause, Resume, Delete, fan
  <2>2. w \in steady[x] /\ w \in Watches /\ using[x] \in Threads
    BY <1>6, <2>1 DEF Pause, Resume, Delete, Unsteady, fan, WatchTypeOK, Standing
  <2>3. state[using[x]][w] = "live"
    BY <2>1, <2>2 DEF FanInv
  <2>4. state'[using[x]][w] = "live"
    <3> PICK i : i = using[t]
      OBVIOUS
    <3> PICK v : v = request[t].arg
      OBVIOUS
    <3>1. CASE Resume(t)
      BY <2>2, <2>3, <3>1 DEF Resume, SetState, WatchTypeOK
    <3>2. CASE Pause(t) \/ Delete(t)
      <4>1. Unsteady(i, v) /\ (SetState(i, v, "paused") \/ SetState(i, v, "gone"))
        BY <3>2 DEF Pause, Delete, Unsteady, SetState
      <4>2. ~(i = using[x] /\ v = w)
        BY <4>1 DEF Unsteady, WatchTypeOK
      <4> QED
        BY <2>2, <2>3, <4>1, <4>2 DEF SetState, WatchTypeOK
    <3> QED
      BY <1>6, <3>1, <3>2
  <2> QED
    BY <2>1, <2>2, <2>4 DEF FanInv, Matches, Owed
<1>7. ASSUME NEW t \in Threads, Snapshot(t)
      PROVE  /\ state'[using'[x]][w] = "live"
             /\ Matches(x, w)' => Owed(x, w)'
  <2>1. CASE x = t
    BY <1>7, <2>1 DEF Snapshot, WatchTypeOK, Owed
  <2>2. CASE x # t
    BY <1>4, <1>7, <2>2 DEF Snapshot, WatchTypeOK
  <2> QED
    BY <2>1, <2>2
<1>8. ASSUME NEW t \in Threads, FanTarget(t)
      PROVE  /\ state'[using'[x]][w] = "live"
             /\ Matches(x, w)' => Owed(x, w)'
  <2>1. CASE x = t
    <3>1. PICK v \in targets[t] :
            /\ at[t] = "fan"
            /\ targets' = [targets EXCEPT ![t] = @ \ {v}]
            /\ IF state[using[t]][v] = "live" /\ Matches(t, v)
               THEN /\ at' = [at EXCEPT ![t] = "emit"]
                    /\ current' = [current EXCEPT ![t] = v]
               ELSE UNCHANGED <<at, current>>
            /\ UNCHANGED <<state, using, request, emitted, steady>>
      BY <1>8 DEF FanTarget
    <3>2. state[using[x]][w] = "live" /\ (Matches(x, w) => w \in targets[x] \cup emitted[x])
      BY <2>1, <3>1 DEF FanInv, Owed
    <3>3. ASSUME Matches(x, w) PROVE Owed(x, w)'
      BY <2>1, <3>1, <3>2, <3>3 DEF Owed, WatchTypeOK
    <3> QED
      BY <3>1, <3>2, <3>3 DEF Matches
  <2>2. CASE x # t
    BY <1>4, <1>8, <2>2 DEF FanTarget, WatchTypeOK
  <2> QED
    BY <2>1, <2>2
<1>9. ASSUME NEW t \in Threads, Emit(t)
      PROVE  /\ state'[using'[x]][w] = "live"
             /\ Matches(x, w)' => Owed(x, w)'
  <2>1. CASE x = t
    <3>1. w \in steady[x] /\ at[x] = "emit" /\ UNCHANGED <<state, using, request, targets>>
      BY <1>9, <2>1 DEF Emit
    <3>2. state[using[x]][w] = "live" /\ (Matches(x, w) => Owed(x, w))
      BY <3>1 DEF FanInv
    <3>3. ASSUME Matches(x, w) PROVE w \in targets'[x] \/ w \in emitted'[x]
      BY <1>9, <2>1, <3>1, <3>2, <3>3 DEF Owed, Emit, WatchTypeOK
    <3> QED
      BY <3>1, <3>2, <3>3 DEF Matches, Owed
  <2>2. CASE x # t
    BY <1>4, <1>9, <2>2 DEF Emit, WatchTypeOK
  <2> QED
    BY <2>1, <2>2
<1>10. ASSUME NEW t \in Threads, FanEnds(t)
       PROVE  /\ state'[using'[x]][w] = "live"
              /\ Matches(x, w)' => Owed(x, w)'
  BY <1>4, <1>10 DEF FanEnds, WatchTypeOK
<1>11. ASSUME NEW t \in Threads, NotFound(t)
       PROVE  /\ state'[using'[x]][w] = "live"
              /\ Matches(x, w)' => Owed(x, w)'
  BY <1>3, <1>4, <1>11 DEF NotFound, fan
<1>12. CASE UNCHANGED vars
  BY <1>4, <1>12 DEF vars, fan
<1> QED
  BY <1>1, <1>2, <1>4, <1>5, <1>6, <1>7, <1>8, <1>9, <1>10, <1>11, <1>12 DEF Next, fan

\* The end of a loop that met no deleted watch has nothing left to serve.
LEMMA MissedStep == WatchInv /\ FanInv /\ NoMissedEvent /\ [Next]_vars => NoMissedEvent'
<1> SUFFICES ASSUME WatchInv, FanInv, NoMissedEvent, [Next]_vars, NoneGone'
             PROVE  missed' = {}
  BY DEF NoMissedEvent, NoneGone
<1>1. NoneGone
  BY GoneStays
<1>2. missed = {}
  BY <1>1 DEF NoMissedEvent, NoneGone
<1>3. ASSUME NEW t \in Threads, FanEnds(t) PROVE missed' = {}
  <2>1. at[t] = "fan" /\ targets[t] = {}
    BY <1>1, <1>3 DEF FanEnds, NoneGone, WatchInv, WatchTypeOK, Standing
  <2>2. {x \in steady[t] \ emitted[t] : Matches(t, x)} = {}
    BY <2>1 DEF FanInv, Owed
  <2> QED
    BY <1>2, <1>3, <2>2 DEF FanEnds
<1>4. ASSUME UNCHANGED missed PROVE missed' = {}
  BY <1>2, <1>4
<1> QED
  BY <1>3, <1>4 DEF Next, Access, Build, CreateWatch, NotFound, Pause, Resume, Delete,
     Snapshot, FanTarget, Emit, vars, fan

\* Until a watch is deleted, a change reaches every watch that it matches and
\* that is live as long as the call lasts, for any overlap of the operations.
THEOREM EventsReachSteadyWatches == Spec => []NoMissedEvent
<1>1. Init => WatchInv /\ FanInv /\ NoMissedEvent
  BY WatchStart DEF Init, FanInv, NoMissedEvent
<1>2. WatchInv /\ FanInv /\ NoMissedEvent /\ [Next]_vars =>
        (WatchInv /\ FanInv /\ NoMissedEvent)'
  BY WatchStep, FanStep, MissedStep
<1> QED
  BY <1>1, <1>2, PTL DEF Spec

=============================================================================
