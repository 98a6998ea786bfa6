---------------------------- MODULE LogSelector -----------------------------
(***************************************************************************)
(* Logs of every pod a label selector matches (SelectorLogs in             *)
(* src/src/app/log_follow.rs): the pod watch decides whose streams run.    *)
(*                                                                         *)
(* A pod is one uid.  kube's watcher is external: it lists (Init, an       *)
(* InitApply for each pod, InitDone), then watches from that list; after a *)
(* failure it goes on from where it was, or (410) lists again.             *)
(***************************************************************************)
EXTENDS Naturals, Sequences, FiniteSets

CONSTANTS Pods, MaxChanges, MaxFailures        \* the two last bound the model

VARIABLES
  pods,      \* pods[p]: does it exist, match the selector, is it terminating
  watch,     \* the watcher: its state, the list it is giving out, events to come
  followed, listed, synced, refused,           \* SelectorLogs::run
  streams,   \* streams[p]: log streams of p that run
  relapsed,  \* history: pods that left the selector while they were terminating
  changes, failures

vars == <<pods, watch, followed, listed, synced, refused, streams, relapsed,
          changes, failures>>
task == <<followed, listed, synced, refused, streams>>
bounds == <<changes, failures>>

Matching == {p \in Pods : pods[p].exists = "yes" /\ pods[p].match}

-----------------------------------------------------------------------------
(* The cluster.                                                            *)

Event(kind, p) ==
  IF watch.state \in {"page", "watch"}
  THEN [watch EXCEPT !.events = Append(@, [kind |-> kind, pod |-> p, term |-> pods[p].term])]
  ELSE watch

Change(p, new) ==
  /\ changes < MaxChanges /\ changes' = changes + 1
  /\ pods' = [pods EXCEPT ![p] = new]
  /\ UNCHANGED <<task, failures>>

Created(p) ==
  /\ pods[p].exists = "no"
  /\ \E m \in BOOLEAN :
       /\ Change(p, [exists |-> "yes", match |-> m, term |-> FALSE])
       /\ watch' = IF m THEN Event("apply", p) ELSE watch
  /\ UNCHANGED relapsed

Relabelled(p) ==
  /\ pods[p].exists = "yes"
  /\ Change(p, [pods[p] EXCEPT !.match = ~@])
  /\ watch' = Event(IF pods[p].match THEN "delete" ELSE "apply", p)
  /\ relapsed' = IF pods[p].term THEN relapsed \cup {p} ELSE relapsed

Terminating(p) ==
  /\ pods[p].exists = "yes" /\ ~pods[p].term
  /\ Change(p, [pods[p] EXCEPT !.term = TRUE])
  /\ watch' = IF pods[p].match THEN Event("apply", p) ELSE watch
  /\ UNCHANGED relapsed

Removed(p) ==
  /\ pods[p].exists = "yes" /\ pods[p].term
  /\ Change(p, [pods[p] EXCEPT !.exists = "gone"])
  /\ watch' = IF pods[p].match THEN Event("delete", p) ELSE watch
  /\ UNCHANGED relapsed

\* LogStream: a stream (one for each container; one here) ends by itself with its
\* pod, and also when the pod has finished or its log is refused.
StreamEnds(p) ==
  /\ streams[p] > 0
  /\ streams' = [streams EXCEPT ![p] = @ - 1]
  /\ UNCHANGED <<pods, watch, followed, listed, synced, refused, relapsed, bounds>>

-----------------------------------------------------------------------------
(* SelectorLogs::run.                                                      *)

Running == watch.state # "over"
Idle == [state |-> "empty", page |-> {}, events |-> <<>>]

Abort(ps) == [p \in Pods |-> IF p \in ps THEN 0 ELSE streams[p]]

\* Mutant: a pod the watch names again gets another stream.
FollowAgain(p) ==
  /\ listed' = listed \cup {p} /\ followed' = followed \cup {p}
  /\ streams' = [streams EXCEPT ![p] = @ + 1]

\* InitApply and Apply.
Follow(p) ==
  /\ listed' = listed \cup {p} /\ followed' = followed \cup {p}
  /\ streams' = IF p \in followed THEN streams ELSE [streams EXCEPT ![p] = @ + 1]

\* Mutant: a pod the new list does not have keeps its streams.
UnfollowNone(ps) == UNCHANGED <<followed, streams>>

Unfollow(ps) == followed' = followed \ ps /\ streams' = Abort(ps)

Init_ ==
  /\ watch.state = "empty"
  /\ watch' = [watch EXCEPT !.state = "init"] /\ listed' = {}
  /\ UNCHANGED <<pods, followed, synced, refused, streams, relapsed, bounds>>

ListAnswers ==
  /\ watch.state = "init"
  /\ watch' = [state |-> "page", page |-> Matching, events |-> <<>>]
  /\ UNCHANGED <<pods, task, relapsed, bounds>>

InitApply(p) ==
  /\ watch.state = "page" /\ p \in watch.page
  /\ watch' = [watch EXCEPT !.page = @ \ {p}] /\ Follow(p)
  /\ UNCHANGED <<pods, synced, refused, relapsed, bounds>>

InitDone ==
  /\ watch.state = "page" /\ watch.page = {}
  /\ watch' = [watch EXCEPT !.state = "watch"]
  /\ Unfollow(followed \ listed) /\ synced' = TRUE
  /\ UNCHANGED <<pods, listed, refused, relapsed, bounds>>

Apply ==
  /\ watch.state = "watch" /\ watch.events # <<>> /\ watch.events[1].kind = "apply"
  /\ watch' = [watch EXCEPT !.events = Tail(@)] /\ Follow(watch.events[1].pod)
  /\ UNCHANGED <<pods, synced, refused, relapsed, bounds>>

\* A pod that is being deleted goes on to its last lines.
Delete ==
  /\ watch.state = "watch" /\ watch.events # <<>> /\ watch.events[1].kind = "delete"
  /\ LET e == watch.events[1]
     IN /\ followed' = followed \ {e.pod}
        /\ streams' = IF e.pod \in followed /\ ~e.term THEN Abort({e.pod}) ELSE streams
  /\ watch' = [watch EXCEPT !.events = Tail(@)]
  /\ UNCHANGED <<pods, listed, synced, refused, relapsed, bounds>>

Over ==
  /\ watch' = [Idle EXCEPT !.state = "over"]
  /\ streams' = Abort(Pods) /\ followed' = {}
  /\ UNCHANGED <<pods, listed, synced, refused, relapsed>>

Failure == failures < MaxFailures /\ failures' = failures + 1 /\ UNCHANGED changes

\* The first list has to work: whatever the server says to it ends the view.
FirstListRefused ==
  /\ watch.state = "init" /\ ~synced /\ Failure /\ Over

\* RBAC will not allow the watch: nothing new is followed.
WatchRefused ==
  /\ watch.state \in {"init", "watch"} /\ (synced \/ watch.state = "watch") /\ Failure
  /\ refused' = TRUE /\ watch' = [Idle EXCEPT !.state = "refused"]
  /\ UNCHANGED <<pods, followed, listed, synced, streams, relapsed>>

\* Any other failure: list again, also in the middle of a list, or (no step) go on.
Relist ==
  /\ watch.state \in {"init", "page", "watch"} /\ Failure
  /\ watch' = Idle
  /\ UNCHANGED <<pods, task, relapsed>>

\* The machine wakes.
Wake ==
  /\ Running /\ ~refused /\ watch.state # "empty" /\ Failure
  /\ watch' = Idle
  /\ UNCHANGED <<pods, task, relapsed>>

\* The view closes or restarts: run returns, and its JoinSet aborts the streams.
Stale == Running /\ Over /\ UNCHANGED bounds

-----------------------------------------------------------------------------
Init ==
  /\ pods \in [Pods -> {[exists |-> "yes", match |-> TRUE, term |-> FALSE],
                        [exists |-> "no", match |-> FALSE, term |-> FALSE]}]
  /\ watch = Idle /\ followed = {} /\ listed = {}
  /\ synced = FALSE /\ refused = FALSE
  /\ streams = [p \in Pods |-> 0] /\ relapsed = {}
  /\ changes = 0 /\ failures = 0

Cluster == \E p \in Pods : Created(p) \/ Relabelled(p) \/ Terminating(p) \/ Removed(p)
Watch == Init_ \/ ListAnswers \/ (\E p \in Pods : InitApply(p)) \/ InitDone \/ Apply \/ Delete
Next ==
  \/ Cluster \/ Watch \/ (\E p \in Pods : StreamEnds(p))
  \/ FirstListRefused \/ WatchRefused \/ Relist \/ Wake \/ Stale

Spec == Init /\ [][Next]_vars
FairSpec == Spec /\ WF_vars(Watch)

-----------------------------------------------------------------------------
(* Properties.                                                             *)

\* However often the pods are listed again, a pod has at most one stream while
\* it is followed and none when it is not, unless it is being deleted and the stream
\* ends with it; a pod that left the selector while being deleted may have more.
StreamsFollow ==
  \A p \in Pods \ relapsed :
    streams[p] <= (IF p \in followed \/ pods[p].term THEN 1 ELSE 0)

\* Rollouts: pods that come join the view and pods that go leave it, whatever the
\* watch missed in between.
UpToDate == watch.state \in {"over", "refused"} \/ followed = Matching

FollowsSelector == []<>UpToDate
=============================================================================
