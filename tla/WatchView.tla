----------------------------- MODULE WatchView -----------------------------
(***************************************************************************)
(* Moving between tables (src/src/app/lifecycle.rs, app/pickers.rs).       *)
(*                                                                         *)
(* Every view change starts a new generation.  Tasks of earlier            *)
(* generations are aborted, but what they sent, and what they send before  *)
(* the abort reaches them, still arrives on the one event channel.  The    *)
(* rows left behind go to a view cache that a later visit is seeded from;  *)
(* a context switch connects in the background and must throw that cache   *)
(* away when it lands, but keep it when it fails.                          *)
(*                                                                         *)
(* A view is a kind, namespace and selectors within the current context:   *)
(* the context is not part of a ViewKey.  An object knows where it came    *)
(* from: Source[o] is <<context, view>>.                                   *)
(***************************************************************************)
EXTENDS Store, Sequences

CONSTANTS
  Contexts, Views, Source,
  NoContext, NoView,
  DefaultView,     \* the configured default kind
  StableKeys,      \* keys every list returns; the others come and go
  ViewCacheMax,    \* VIEW_CACHE_MAX
  ViewCacheMaxObjects, \* VIEW_CACHE_MAX_OBJECTS
  MaxGen,          \* bound: generations
  ChannelCap       \* EVENT_CHANNEL_CAP

Origins == Contexts \X Views

ASSUME WatchViewAssumption ==
  /\ Source \in [Objects -> Origins]
  /\ NoContext \notin Contexts /\ NoView \notin Views /\ DefaultView \in Views
  /\ Keys # {} /\ StableKeys \subseteq Keys
  /\ ViewCacheMax \in Nat \ {0} /\ ViewCacheMaxObjects \in Nat
  /\ MaxGen \in Nat \ {0} /\ ChannelCap \in Nat \ {0}

VARIABLES
  ctx, view,    \* the cluster and the table shown
  generation,
  worker,       \* worker[g]: the task started for generation g
  chan,         \* the event channel
  store,
  watchKey,     \* the view whose rows the store holds, for stashing
  cache, order, \* view_cache and view_cache_order (oldest first)
  switchTarget, \* [gen, ctx] of the connection in flight
  pending,      \* [ctx, view] to open once a switch lands
  auth          \* context whose plugin the user is asked to run

table == <<store, watchKey, cache, order>>
vars == <<ctx, view, generation, worker, chan, store, watchKey, cache, order,
          switchTarget, pending, auth>>

Gens == 1 .. MaxGen
NoSwitch == [gen |-> 0, ctx |-> NoContext]
NoDest == [ctx |-> NoContext, view |-> NoView]
Dests(c) == {NoDest} \cup {[ctx |-> c, view |-> v] : v \in Views}

Idle == [kind |-> "idle", ctx |-> NoContext, view |-> NoView, phase |-> "done", sent |-> {}]
Watching(c, v) == [kind |-> "watch", ctx |-> c, view |-> v, phase |-> "start", sent |-> {}]
Connecting(c) == [kind |-> "connect", ctx |-> c, view |-> NoView, phase |-> "start", sent |-> {}]

Cached == {v \in Views : KeysOf(cache[v]) # {}}

-----------------------------------------------------------------------------
(* The view cache.                                                         *)

CachedObjects(c, o) ==
  Cardinality({p \in Views \X Keys : (\E i \in DOMAIN o : o[i] = p[1]) /\ c[p[1]][p[2]] # NoObj})

Fits(c, o) ==
  /\ Len(o) <= ViewCacheMax
  /\ Len(o) <= 1 \/ CachedObjects(c, o) <= ViewCacheMaxObjects

\* Mutant: only the number of objects is bounded.
EvictionsByObjects(c, o) ==
  Cardinality({n \in 0 .. Len(o) :
                 \A m \in 0 .. n : CachedObjects(c, SubSeq(o, m + 1, Len(o))) > ViewCacheMaxObjects})

\* evict_view_cache: how many of the oldest entries go before the rest fits.
Evictions(c, o) ==
  Cardinality({n \in 0 .. Len(o) :
                 \A m \in 0 .. n : ~Fits(c, SubSeq(o, m + 1, Len(o)))})

Without(o, v) ==
  IF \A i \in 1 .. Len(o) : o[i] # v THEN o
  ELSE LET i == CHOOSE i \in 1 .. Len(o) : o[i] = v
       IN SubSeq(o, 1, i - 1) \o SubSeq(o, i + 1, Len(o))

\* Mutant: a list in progress is stashed.
StashesPartial == watchKey \in Views /\ KeysOf(store.items) # {}

\* stash_view_snapshot, whose take() of the key has no other effect.
Stashes == watchKey \in Views /\ store.synced /\ KeysOf(store.items) # {}
StashedCache == IF Stashes THEN [cache EXCEPT ![watchKey] = store.items] ELSE cache
StashedOrder == IF Stashes THEN Append(Without(order, watchKey), watchKey) ELSE order

StashViewSnapshot ==
  LET n == IF Stashes THEN Evictions(StashedCache, StashedOrder) ELSE 0
      gone == {StashedOrder[i] : i \in 1 .. n}
  IN /\ order' = SubSeq(StashedOrder, n + 1, Len(StashedOrder))
     /\ cache' = [v \in Views |-> IF v \in gone THEN NoRows ELSE StashedCache[v]]

-----------------------------------------------------------------------------
(* View changes.  Only the event loop takes these steps, one at a time.    *)

\* start_watch for view v of context c: stash the rows shown, then show the
\* snapshot of v while its new watch lists.
StartWatch(c, v, gen) ==
  /\ gen <= MaxGen
  /\ generation' = gen
  /\ worker' = [worker EXCEPT ![gen] = Watching(c, v)]
  /\ view' = v /\ watchKey' = v
  /\ switchTarget' = NoSwitch
  /\ pending' = IF switchTarget # NoSwitch THEN NoDest ELSE pending
  /\ store' = IF KeysOf(cache'[v]) # {} THEN Seed(cache'[v]) ELSE Clear

\* Any table navigation, refresh, or restart after sleep or a new certificate.  The login
\* dialog takes the keys and holds back restarts (restart_pending_watch wants the table's
\* mode), but the lookup of a namespace pattern may land under it; selecting what it found
\* closes the dialog and leaves its destination armed (apply_namespace_selection).
OpenView(v) ==
  /\ StashViewSnapshot
  /\ StartWatch(ctx, v, generation + 1)
  /\ auth' \in {auth, NoContext}
  /\ UNCHANGED <<ctx, chan>>

\* bump_generation: a dashboard or tree stops the watch; the rows stay stored.
OpenDashboard ==
  /\ auth = NoContext
  /\ generation < MaxGen
  /\ generation' = generation + 1
  /\ UNCHANGED <<ctx, view, worker, chan, table, switchTarget, pending, auth>>

\* open_fleet: as a dashboard, but the rows are stashed.
OpenFleet ==
  /\ auth = NoContext
  /\ generation < MaxGen
  /\ generation' = generation + 1
  /\ StashViewSnapshot
  /\ store' = Clear /\ watchKey' = NoView
  /\ UNCHANGED <<ctx, view, worker, chan, switchTarget, pending, auth>>

\* Mutant: a switch without a destination keeps the one before.
ConnectKeepingDestination(c, dest) ==
  /\ generation < MaxGen
  /\ generation' = generation + 1
  /\ worker' = [worker EXCEPT ![generation + 1] = Connecting(c)]
  /\ switchTarget' = [gen |-> generation + 1, ctx |-> c]
  /\ pending' = IF dest = NoDest THEN pending ELSE dest
  /\ StashViewSnapshot
  /\ store' = Clear /\ watchKey' = NoView
  /\ UNCHANGED <<ctx, view, chan>>

\* switch_context_inner, then the caller's destination.
Connect(c, dest) ==
  /\ generation < MaxGen
  /\ generation' = generation + 1
  /\ worker' = [worker EXCEPT ![generation + 1] = Connecting(c)]
  /\ switchTarget' = [gen |-> generation + 1, ctx |-> c]
  /\ pending' = dest
  /\ StashViewSnapshot
  /\ store' = Clear /\ watchKey' = NoView
  /\ UNCHANGED <<ctx, view, chan>>

InFlight(c) == switchTarget = [gen |-> generation, ctx |-> c]

\* The reload a plugin asks for reconnects to the current context.
SwitchContext(c, dest) ==
  /\ auth = NoContext /\ auth' = auth
  /\ c = ctx => dest = NoDest
  /\ ~InFlight(c)
  /\ Connect(c, dest)

\* Selecting the target of the live connection only replaces its destination.
RetargetSwitch(c, dest) ==
  /\ auth = NoContext
  /\ InFlight(c) /\ c # ctx /\ dest # NoDest
  /\ pending' = dest
  /\ UNCHANGED <<ctx, view, generation, worker, chan, table, switchTarget, auth>>

\* The user answers the offer to run the auth plugin.
Authenticated ==
  /\ auth # NoContext
  /\ auth' = NoContext
  /\ Connect(auth, pending)

DeclineAuthentication ==
  /\ auth # NoContext
  /\ auth' = NoContext
  /\ pending' = NoDest
  /\ UNCHANGED <<ctx, view, generation, worker, chan, table, switchTarget>>

-----------------------------------------------------------------------------
(* Background tasks.                                                       *)

NoKey == CHOOSE k \in Keys : TRUE
Message(g, type, k, o) == [gen |-> g, type |-> type, key |-> k, obj |-> o, ctx |-> NoContext]
Answer(g, type) == [gen |-> g, type |-> type, key |-> NoKey, obj |-> NoObj, ctx |-> worker[g].ctx]

Room == Len(chan) < ChannelCap
Sends(g, msg, phase, sent) ==
  /\ Room
  /\ chan' = Append(chan, msg)
  /\ worker' = [worker EXCEPT ![g].phase = phase, ![g].sent = sent]
  /\ UNCHANGED <<ctx, view, generation, table, switchTarget, pending, auth>>

\* A watch: Reset, rows in any order, Synced, then changes; and again.
WatchResets(g) ==
  /\ worker[g].kind = "watch" /\ worker[g].phase \in {"start", "live"}
  /\ Sends(g, Message(g, "Reset", NoKey, NoObj), "list", {})

WatchApplies(g, k, o) ==
  /\ worker[g].kind = "watch" /\ worker[g].phase \in {"list", "live"}
  /\ worker[g].phase = "list" => k \notin worker[g].sent
  /\ Source[o] = <<worker[g].ctx, worker[g].view>>
  /\ Sends(g, Message(g, "Applied", k, o), worker[g].phase,
           IF worker[g].phase = "list" THEN worker[g].sent \cup {k} ELSE {})

WatchDeletes(g, k) ==
  /\ worker[g].kind = "watch" /\ worker[g].phase = "live" /\ k \notin StableKeys
  /\ Sends(g, Message(g, "Deleted", k, NoObj), "live", {})

WatchSyncs(g) ==
  /\ worker[g].kind = "watch" /\ worker[g].phase = "list"
  /\ StableKeys \subseteq worker[g].sent
  /\ Sends(g, Message(g, "Synced", NoKey, NoObj), "live", {})

\* connect_context: connected, failed, or stopped to ask for terminal input.
ConnectReturns(g) ==
  /\ worker[g].kind = "connect" /\ worker[g].phase = "start"
  /\ \E outcome \in {"Connected", "ConnectFailed", "NeedsInput"} :
       Sends(g, Answer(g, outcome), "done", {})

-----------------------------------------------------------------------------
(* handle_msg: the head of the channel, dropped when its generation is old.*)

Receive == chan # <<>> /\ chan' = Tail(chan)
msgHead == Head(chan)
Current == msgHead.gen = generation

HandleStale ==
  /\ Receive /\ ~Current
  /\ UNCHANGED <<ctx, view, generation, worker, table, switchTarget, pending, auth>>

FoldRow(s, m) ==
  CASE m.type = "Reset"   -> BeginReset(s)
    [] m.type = "Applied" -> Apply(s, m.key, m.obj)
    [] m.type = "Deleted" -> Remove(s, m.key)
    [] m.type = "Synced"  -> FinishSync(s)

HandleRow ==
  /\ Receive /\ Current
  /\ msgHead.type \in {"Reset", "Applied", "Deleted", "Synced"}
  /\ store' = FoldRow(store, msgHead)
  /\ UNCHANGED <<ctx, view, generation, worker, watchKey, cache, order,
                 switchTarget, pending, auth>>

LandingViews ==
  IF pending = NoDest THEN {view, DefaultView} \ {NoView} ELSE {pending.view}

\* Mutant: the view cache survives.
HandleConnectedKeepingCache ==
  /\ Receive /\ Current /\ msgHead.type = "Connected"
  /\ ctx' = msgHead.ctx
  /\ UNCHANGED <<order, cache>>
  /\ \E v \in LandingViews : StartWatch(msgHead.ctx, v, generation + 2)
  /\ auth' = auth

\* apply_context_switch forgets everything of the old cluster, then opens the
\* destination, or the same kind as before, or the default one...
HandleConnected ==
  /\ Receive /\ Current /\ msgHead.type = "Connected"
  /\ ctx' = msgHead.ctx
  /\ order' = <<>> /\ cache' = [v \in Views |-> NoRows]
  /\ \E v \in LandingViews : StartWatch(msgHead.ctx, v, generation + 2)
  /\ auth' = auth

\* ... or nothing, when that kind does not exist on the new cluster.
HandleConnectedNowhere ==
  /\ Receive /\ Current /\ msgHead.type = "Connected"
  /\ generation < MaxGen
  /\ generation' = generation + 1
  /\ ctx' = msgHead.ctx /\ view' = NoView
  /\ order' = <<>> /\ cache' = [v \in Views |-> NoRows]
  /\ watchKey' = NoView
  /\ switchTarget' = NoSwitch /\ pending' = NoDest
  /\ UNCHANGED <<worker, store, auth>>

\* A failed switch drops its destination, unless the user is offered to
\* authenticate, which an overlay that is open prevents.
HandleConnectFailed ==
  /\ Receive /\ Current /\ msgHead.type \in {"ConnectFailed", "NeedsInput"}
  /\ switchTarget' = NoSwitch
  /\ \/ msgHead.type = "NeedsInput" /\ auth' = msgHead.ctx /\ UNCHANGED pending
     \/ pending' = NoDest /\ UNCHANGED auth
  /\ UNCHANGED <<ctx, view, generation, worker, table>>

-----------------------------------------------------------------------------
Init ==
  /\ ctx \in Contexts /\ view = DefaultView
  /\ generation = 1
  /\ worker = [g \in Gens |-> IF g = 1 THEN Watching(ctx, view) ELSE Idle]
  /\ chan = <<>>
  /\ store = Clear /\ watchKey = view
  /\ cache = [v \in Views |-> NoRows] /\ order = <<>>
  /\ switchTarget = NoSwitch /\ pending = NoDest /\ auth = NoContext

UserStep ==
  \/ \E v \in Views : OpenView(v)
  \/ OpenDashboard \/ OpenFleet
  \/ \E c \in Contexts : \E dest \in Dests(c) : SwitchContext(c, dest) \/ RetargetSwitch(c, dest)
  \/ Authenticated \/ DeclineAuthentication

WorkerStep(g) ==
  \/ WatchResets(g) \/ WatchSyncs(g) \/ ConnectReturns(g)
  \/ \E k \in Keys, o \in Objects : WatchApplies(g, k, o)
  \/ \E k \in Keys : WatchDeletes(g, k)

HandleMsg ==
  \/ HandleStale \/ HandleRow
  \/ HandleConnected \/ HandleConnectedNowhere \/ HandleConnectFailed

Next == UserStep \/ (\E g \in Gens : WorkerStep(g)) \/ HandleMsg

\* The event loop drains its channel; a current task keeps going.
ListStep(g) ==
  \/ worker[g].phase = "start" /\ WatchResets(g)
  \/ WatchSyncs(g)
  \/ worker[g].phase = "list" /\ \E k \in StableKeys, o \in Objects : WatchApplies(g, k, o)

Fairness == WF_vars(HandleMsg) /\ \A g \in Gens : SF_vars(ListStep(g))

Spec == Init /\ [][Next]_vars
FairSpec == Spec /\ Fairness
=============================================================================
