-------------------------- MODULE NamespaceWatches --------------------------
(***************************************************************************)
(* A view of the namespaces that match a pattern                           *)
(* (src/src/app/namespace_patterns.rs): they are looked up, each gets a    *)
(* watch of its own, and the store keeps their rows apart                  *)
(* (src/src/store.rs); views of several kinds (src/src/app/workloads.rs)   *)
(* use it in the same way.                                                 *)
(*                                                                         *)
(* Partitions are the namespaces whose names match.  One watch is what     *)
(* WatchTask promises: a list, then the changes, with failures between.    *)
(* An answer to a lookup that was overtaken, or of an earlier generation,  *)
(* is dropped, so only the last lookup is followed.                        *)
(***************************************************************************)
EXTENDS Store, Sequences

CONSTANTS
  None,        \* no watch, no notice
  Notice,      \* any text but a failed watch
  MaxGen,      \* bound: generations
  MaxChanges,  \* bound: changes in the cluster
  MaxFailures, \* bound: watches that fail or lose their place
  MaxInFlight  \* EVENT_CHANNEL_CAP

NamespaceAssumption ==
  /\ {None, Notice} \cap Partitions = {} /\ None # Notice /\ \A s \in SUBSET Partitions : None # s
  /\ Home \in [Keys -> Partitions] /\ NoObj \notin Objects /\ Objects # {}
  /\ {MaxGen, MaxChanges, MaxFailures} \subseteq Nat /\ MaxInFlight \in Nat \ {0}

VARIABLES
  existing,    \* matching namespaces the cluster has
  objects,     \* the objects in them
  changes, failures,
  watchers,    \* per namespace: [state, rows, left, failed]
  chan,        \* the event channel
  generation,
  onPattern,   \* namespace_is_pattern
  resolved,    \* namespace_patterns: {} while it has no entry
  looking,     \* a lookup is under way
  watched,     \* watch_key: the namespaces of the current watch, or None
  cache,       \* view_cache, by its set of namespaces: NoRows stands for none
  ui           \* [store, errors, flash, reported]: namespace_errors, and
               \* watch_error_flash in reported

cluster == <<existing, objects, changes>>
screen == <<generation, onPattern, resolved, looking, watched, cache>>
vars == <<cluster, failures, watchers, chan, screen, ui>>

Idle == [state |-> "start", rows |-> NoRows, left |-> {}, failed |-> FALSE]
Msg(type, p, k, row) == [gen |-> generation, type |-> type, space |-> p, key |-> k, obj |-> row]
Signal(type, p) == Msg(type, p, CHOOSE k \in Keys : TRUE, NoObj)
In(p) == [k \in Keys |-> IF Home[k] = p THEN objects[k] ELSE NoObj]

Init ==
  /\ existing \in SUBSET Partitions
  /\ objects \in [Keys -> {NoObj, CHOOSE o \in Objects : TRUE}]
  /\ \A k \in Keys : objects[k] # NoObj => Home[k] \in existing
  /\ changes = 0 /\ failures = 0
  /\ watchers = [p \in Partitions |-> Idle] /\ chan = <<>>
  /\ generation = 0 /\ onPattern = FALSE /\ resolved = {} /\ looking = FALSE
  /\ watched = None /\ cache = [s \in SUBSET Partitions |-> NoRows]
  /\ ui = [store |-> Clear, errors |-> {}, flash |-> None, reported |-> None]

-----------------------------------------------------------------------------
(* The cluster.                                                            *)

Write(k) ==
  /\ changes < MaxChanges /\ changes' = changes + 1
  /\ Home[k] \in existing
  /\ \E row \in (Objects \cup {NoObj}) \ {objects[k]} :
       objects' = [objects EXCEPT ![k] = row]
  /\ UNCHANGED <<existing, failures, watchers, chan, screen, ui>>

NamespaceComesOrGoes(p) ==
  /\ changes < MaxChanges /\ changes' = changes + 1
  /\ KeysOf(In(p)) = {}
  /\ existing' = IF p \in existing THEN existing \ {p} ELSE existing \cup {p}
  /\ UNCHANGED <<objects, failures, watchers, chan, screen, ui>>

-----------------------------------------------------------------------------
(* The watch of a namespace, with the task that wraps its messages.        *)

Running(p, states) == onPattern /\ watched # None /\ p \in watched /\ watchers[p].state \in states
Send(msg) == Len(chan) < MaxInFlight /\ chan' = Append(chan, msg)
Fault == failures < MaxFailures /\ failures' = failures + 1

\* It lists: at first, and again when its place in the history is lost.
BeginList(p) ==
  /\ \/ Running(p, {"start", "down"}) /\ UNCHANGED failures
     \/ Running(p, {"live"}) /\ Fault
  /\ watchers' = [watchers EXCEPT ![p].state = "listing", ![p].rows = In(p),
                                  ![p].left = KeysOf(In(p))]
  /\ Send(Signal("Reset", p))
  /\ UNCHANGED <<cluster, screen, ui>>

ListRow(p, k) ==
  /\ Running(p, {"listing"}) /\ k \in watchers[p].left
  /\ watchers' = [watchers EXCEPT ![p].left = @ \ {k}]
  /\ Send(Msg("Applied", p, k, watchers[p].rows[k]))
  /\ UNCHANGED <<cluster, failures, screen, ui>>

\* The list is complete, or the watch goes on where it was; the end of an outage is
\* told first.
ListDone(p) ==
  /\ Running(p, {"listing"}) /\ watchers[p].left = {} /\ ~watchers[p].failed
  /\ watchers' = [watchers EXCEPT ![p].state = "live"]
  /\ Send(Signal("Synced", p))
  /\ UNCHANGED <<cluster, failures, screen, ui>>

Recovers(p) ==
  /\ \/ Running(p, {"down"})
     \/ Running(p, {"listing"}) /\ watchers[p].left = {} /\ watchers[p].failed
  /\ watchers' = [watchers EXCEPT ![p].failed = FALSE,
                                  ![p].state = IF @ = "down" THEN "live" ELSE @]
  /\ Send(Signal("WatchRecovered", p))
  /\ UNCHANGED <<cluster, failures, screen, ui>>

WatchEvent(p, k) ==
  /\ Running(p, {"live"}) /\ watchers[p].rows[k] # In(p)[k]
  /\ watchers' = [watchers EXCEPT ![p].rows[k] = In(p)[k]]
  /\ Send(IF In(p)[k] = NoObj THEN Msg("Deleted", p, k, NoObj)
                                ELSE Msg("Applied", p, k, In(p)[k]))
  /\ UNCHANGED <<cluster, failures, screen, ui>>

WatchFails(p) ==
  /\ Running(p, {"start", "listing", "live", "down"}) /\ Fault
  /\ watchers' = [watchers EXCEPT ![p].failed = TRUE, ![p].left = {},
                                  ![p].state = IF @ \in {"live", "down"} THEN "down" ELSE "start"]
  /\ Send(Signal("WatchError", p))
  /\ UNCHANGED <<cluster, screen, ui>>

-----------------------------------------------------------------------------
(* The view.                                                               *)

\* clear_watch_error_flash
Cleared(u) ==
  [u EXCEPT !.reported = None, !.flash = IF u.reported # None /\ u.reported = @ THEN None ELSE @]

\* stash_view_snapshot: rows of a finished list, and never none.
Stashed ==
  IF watched # None /\ ui.store.synced /\ KeysOf(ui.store.items) # {}
  THEN [cache EXCEPT ![watched] = ui.store.items] ELSE cache

\* start_watch of the namespaces found, with the rows they had when last seen; then
\* the status bar says what happened.
StartWatches(spaces) ==
  /\ generation < MaxGen /\ generation' = generation + 1
  /\ onPattern' = TRUE /\ resolved' = spaces /\ looking' = FALSE
  /\ cache' = Stashed /\ watched' = spaces
  /\ ui' = [Cleared(ui) EXCEPT !.errors = {}, !.flash = Notice,
                               !.store = SetPartitions(Seed(cache'[spaces]), spaces)]
  /\ watchers' = [p \in Partitions |-> Idle]
  /\ UNCHANGED <<cluster, failures, chan>>

\* refresh_namespace_selection, or a pattern given to a command.
LookUp ==
  /\ generation < MaxGen /\ ~looking /\ looking' = TRUE
  /\ ui' = [ui EXCEPT !.flash = Notice]
  /\ UNCHANGED <<cluster, failures, watchers, chan, generation, onPattern, resolved, watched, cache>>

\* finish_namespace_pattern: some match, ...
LookUpLands == looking /\ existing # {} /\ StartWatches(existing)

\* ... none do, or they cannot be listed.
LookUpFails ==
  /\ looking /\ looking' = FALSE
  /\ IF onPattern /\ resolved = {}
     THEN /\ ui' = [ui EXCEPT !.store = Clear, !.errors = {}, !.flash = Notice]
          /\ watched' = None
     ELSE ui' = [ui EXCEPT !.flash = Notice] /\ UNCHANGED watched
  /\ UNCHANGED <<cluster, failures, watchers, chan, generation, onPattern, resolved, cache>>

\* start_watch of another view, whose rows are left out.
Leave ==
  /\ onPattern /\ generation < MaxGen /\ generation' = generation + 1
  /\ onPattern' = FALSE /\ looking' = FALSE /\ cache' = Stashed /\ watched' = None
  /\ ui' = [Cleared(ui) EXCEPT !.errors = {}, !.store = Clear]
  /\ watchers' = [p \in Partitions |-> Idle]
  /\ UNCHANGED <<cluster, failures, chan, resolved>>

\* Back from it: what the pattern stood for is remembered, or looked up again.
Return ==
  /\ ~onPattern
  /\ \/ resolved # {} /\ StartWatches(resolved)
     \/ /\ resolved = {} /\ generation < MaxGen /\ generation' = generation + 1
        /\ onPattern' = TRUE /\ looking' = TRUE
        /\ ui' = [Cleared(ui) EXCEPT !.flash = Notice]
        /\ UNCHANGED <<cluster, failures, watchers, chan, resolved, watched, cache>>

\* A context switch lands, in a view of the same pattern perhaps: clear_view_cache
\* and bump_generation.
SwitchLands ==
  /\ onPattern /\ generation < MaxGen /\ generation' = generation + 1
  /\ onPattern' \in BOOLEAN /\ looking' = onPattern'
  /\ resolved' = {} /\ watched' = None /\ cache' = [s \in SUBSET Partitions |-> NoRows]
  /\ ui' = [Cleared(ui) EXCEPT !.store = Clear, !.errors = {}, !.flash = Notice]
  /\ watchers' = [p \in Partitions |-> Idle]
  /\ UNCHANGED <<cluster, failures, chan>>

-----------------------------------------------------------------------------
(* Msg::NamespaceWatch.                                                    *)

FoldedStore(s, m) ==
  CASE m.type = "Reset"   -> BeginNamespaceReset(s, m.space)
    [] m.type = "Synced"  -> FinishNamespaceSync(s, m.space)
    [] m.type = "Applied" -> ApplyIn(s, m.space, m.key, m.obj)
    [] m.type = "Deleted" -> RemoveIn(s, m.space, m.key)
    [] OTHER              -> s

\* set_watch_error_flash
Reporting(u, p) == [u EXCEPT !.flash = p, !.reported = p]

\* The notice of a namespace that has recovered gives way to one of another that
\* has not.
FoldedNotice(u, m) ==
  LET left == u.errors \ {m.space}
      without == [Cleared(u) EXCEPT !.errors = left] IN
  CASE m.type = "WatchError" -> Reporting([u EXCEPT !.errors = @ \cup {m.space}], m.space)
    [] m.type = "WatchRecovered" ->
         IF u.reported # None /\ u.reported = u.flash /\ left # {}
         THEN Reporting(without, CHOOSE p \in left : TRUE) ELSE without
    [] OTHER -> u

FoldWatch(u, m) ==
  IF m.gen = generation THEN [FoldedNotice(u, m) EXCEPT !.store = FoldedStore(@, m)] ELSE u

HandleMsg ==
  /\ chan # <<>> /\ chan' = Tail(chan) /\ ui' = FoldWatch(ui, Head(chan))
  /\ UNCHANGED <<cluster, failures, watchers, screen>>

-----------------------------------------------------------------------------
WatchStep(p) ==
  \/ Running(p, {"start", "down"}) /\ BeginList(p)
  \/ ListDone(p) \/ Recovers(p)
  \/ \E k \in Keys : ListRow(p, k) \/ WatchEvent(p, k)

Next ==
  \/ \E k \in Keys : Write(k)
  \/ \E p \in Partitions : \/ NamespaceComesOrGoes(p)
                           \/ BeginList(p) \/ ListDone(p) \/ WatchFails(p) \/ Recovers(p)
                           \/ \E k \in Keys : ListRow(p, k) \/ WatchEvent(p, k)
  \/ LookUp \/ LookUpLands \/ LookUpFails \/ Leave \/ Return \/ SwitchLands
  \/ HandleMsg

-----------------------------------------------------------------------------
Shown == onPattern /\ watched # None

\* The view once the messages ms, and once all in the channel, are handled.
After(u, ms) ==
  LET after[n \in 0 .. Len(ms)] == IF n = 0 THEN u ELSE FoldWatch(after[n - 1], ms[n])
  IN after[Len(ms)]

Settled == After(ui, chan)

\* The rows of each namespace are its own watch's: whatever the others do, fail or
\* list again, once the messages are handled they are what that watch has reached;
\* nothing of a namespace that no longer matches is left; and the view counts as
\* complete exactly when every namespace was listed.
PartitionsMirror ==
  Shown =>
    /\ \A k \in KeysOf(ui.store.items) : Home[k] \in watched
    /\ \A p \in watched : watchers[p].state \in {"live", "down"} =>
         \A k \in Keys : Home[k] = p => Settled.store.items[k] = watchers[p].rows[k]
    /\ Settled.store.synced <=> \A p \in watched : watchers[p].state \in {"live", "down"}

\* "incomplete" stands in the label while a watch of the view fails and no longer, and
\* the notice names a namespace that does.  (namespace_label)
OutageNamed ==
  Shown => /\ Settled.errors = {p \in watched : watchers[p].failed}
           /\ Settled.flash \in Settled.errors \cup {None, Notice}

\* When cluster, network and user come to rest, so does the table.
AtRest ==
  Shown => /\ ui.store.synced /\ ui.errors = {}
           /\ \A k \in Keys : ui.store.items[k] = IF Home[k] \in watched THEN objects[k] ELSE NoObj
=============================================================================
