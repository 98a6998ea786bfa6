----------------------------- MODULE WatchTask -----------------------------
(***************************************************************************)
(* One watch, end to end: the API server's revisions, the kube watcher,    *)
(* the task that turns its events into messages (spawn_watch_task), the    *)
(* polling fallback when RBAC refuses the watch (poll_lists), the bounded  *)
(* event channel, and the UI folding messages into the row store.          *)
(*                                                                         *)
(* A row is its resourceVersion.  hist is the server's sequence of states; *)
(* the watcher and the lists read any prefix of it, since the API server   *)
(* answers resourceVersion=0 requests from a cache that may lag.           *)
(***************************************************************************)
EXTENDS Store, Sequences

CONSTANTS
  MaxRev,            \* bound: revisions of the cluster, the first included
  MaxFaults,         \* bound: failed, broken or lagging requests
  ChannelCap,        \* EVENT_CHANNEL_CAP
  Servers            \* the kinds of API server: those that implement streaming lists,
                     \* and those whose RBAC may come to refuse the watch verb

ASSUME WatchTaskAssumption ==
  /\ MaxRev \in Nat \ {0} /\ MaxFaults \in Nat /\ ChannelCap \in Nat \ {0}
  /\ Servers \subseteq [streaming : BOOLEAN, revocable : BOOLEAN]
  /\ Objects = 1 .. MaxRev /\ IsFiniteSet(Keys)

SeqX == INSTANCE SequencesExt

VARIABLES
  hist,         \* cluster states, oldest first
  apiServer,    \* the one that is watched
  watchAllowed, \* RBAC grants the watch verb
  faults,       \* faults so far
  watcher,      \* [state, at, left, broken]: the kube watcher's position
  task,         \* locals of the watch task and of poll_lists
  outbox,       \* messages the task is still sending
  chan,         \* the event channel
  store,        \* the UI's row store
  notice,       \* a "watch failed; retrying" notice is showing
  counted       \* history: keys sent since the last Reset by a list that is not
                \* finished; those that a poll then lists are its own

server == <<apiServer, hist, watchAllowed>>
ui == <<store, notice>>
vars == <<apiServer, hist, watchAllowed, faults, watcher, task, outbox, chan, store, notice,
          counted>>

Now == Len(hist)
ListedRows(i, ks) == [k \in Keys |-> IF k \in ks THEN hist[i][k] ELSE NoObj]

Applied(k, o) == [type |-> "Applied", key |-> k, obj |-> o]
Deleted(k) == [type |-> "Deleted", key |-> k, obj |-> NoObj]
Note(t) == [type |-> t, key |-> CHOOSE k \in Keys : TRUE, obj |-> NoObj]

MsgTypes == {"Applied", "Deleted", "Reset", "Synced",
             "WatchError", "WatchRecovered", "WatchPolling"}

Init ==
  /\ \E rows \in [Keys -> {NoObj, 1}] : hist = <<rows>>
  /\ apiServer \in Servers /\ watchAllowed = TRUE
  /\ faults = 0
  /\ watcher = [state |-> "empty", at |-> 1, left |-> {}, broken |-> FALSE]
  /\ task = [polling |-> FALSE, usingStreaming |-> TRUE, initializing |-> TRUE,
             listing |-> TRUE, failed |-> FALSE, seen |-> NoRows, synced |-> FALSE]
  /\ outbox = <<Note("Reset")>>
  /\ chan = <<>>
  /\ store \in {Clear, Seed(hist[1])}
  /\ notice = FALSE /\ counted = {}

-----------------------------------------------------------------------------
(* The cluster.                                                            *)

ServerWrite(k) ==
  /\ Now < MaxRev
  /\ \E row \in {Now + 1, NoObj} :
       /\ row # hist[Now][k]
       /\ hist' = Append(hist, [hist[Now] EXCEPT ![k] = row])
  /\ UNCHANGED <<apiServer, watchAllowed, faults, watcher, task, outbox, chan, ui, counted>>

RevokeWatch ==
  /\ apiServer.revocable /\ watchAllowed
  /\ watchAllowed' = FALSE
  /\ UNCHANGED <<apiServer, hist, faults, watcher, task, outbox, chan, ui, counted>>

-----------------------------------------------------------------------------
(* The watch task: one loop iteration of spawn_watch_task per action, once *)
(* the messages of the iteration before are sent.                          *)

Ready == ~task.polling /\ outbox = <<>>
Fault == faults < MaxFaults /\ faults' = faults + 1
Goto(state) == watcher' = [watcher EXCEPT !.state = state, !.left = {}, !.broken = FALSE]

\* Events that end an outage tell the UI first.
Recovered(ends) == IF task.failed /\ ends THEN <<Note("WatchRecovered")>> ELSE <<>>

\* A streaming list, or a plain list, is accepted: Event::Init.
BeginList ==
  /\ Ready /\ watcher.state = "empty"
  /\ task.usingStreaming => apiServer.streaming /\ watchAllowed
  /\ IF task.usingStreaming
     THEN \E i \in 1 .. Now : watcher' = [state |-> "initial", at |-> i,
                                          left |-> KeysOf(hist[i]), broken |-> FALSE]
     ELSE Goto("page")
  /\ task' = [task EXCEPT !.listing = TRUE]
  /\ outbox' = <<Note("Reset")>> /\ counted' = {}
  /\ UNCHANGED <<server, faults, chan, ui>>

\* The server rejects the streaming-list parameters: fall back to a plain list.
StreamingUnsupported ==
  /\ Ready /\ watcher.state = "empty"
  /\ task.usingStreaming /\ task.initializing /\ ~apiServer.streaming
  /\ task' = [task EXCEPT !.usingStreaming = FALSE]
  /\ UNCHANGED <<server, faults, watcher, outbox, chan, ui, counted>>

ListReturns ==
  /\ Ready /\ watcher.state = "page"
  /\ \E i \in 1 .. Now : watcher' = [state |-> "initial", at |-> i,
                                     left |-> KeysOf(hist[i]), broken |-> FALSE]
  /\ UNCHANGED <<server, faults, task, outbox, chan, ui, counted>>

InitApply(k) ==
  /\ Ready /\ watcher.state = "initial" /\ ~watcher.broken
  /\ k \in watcher.left
  /\ watcher' = [watcher EXCEPT !.left = @ \ {k}]
  /\ outbox' = <<Applied(k, hist[watcher.at][k])>>
  /\ counted' = counted \cup {k}
  /\ UNCHANGED <<server, faults, task, chan, ui>>

InitDone ==
  /\ Ready /\ watcher.state = "initial" /\ ~watcher.broken
  /\ watcher.left = {}
  /\ Goto(IF task.usingStreaming THEN "watching" ELSE "listed")
  /\ task' = [task EXCEPT !.initializing = FALSE, !.listing = FALSE,
                          !.failed = @ /\ ~task.usingStreaming]
  /\ counted' = {}
  /\ outbox' = Recovered(task.usingStreaming) \o <<Note("Synced")>>
  /\ UNCHANGED <<server, faults, chan, ui>>

\* A watch resumed from a listed revision reports recovery from the response
\* headers, before any event (watch_status_client).
ResumeWatch ==
  /\ Ready /\ watcher.state = "listed" /\ watchAllowed
  /\ Goto("watching")
  /\ outbox' = <<Note("WatchRecovered")>>
  /\ UNCHANGED <<server, faults, task, chan, ui, counted>>

WatchEvent ==
  /\ Ready /\ watcher.state = "watching" /\ ~watcher.broken /\ watcher.at < Now
  /\ LET next == hist[watcher.at + 1]
         k == CHOOSE k \in Keys : next[k] # hist[watcher.at][k]
     IN outbox' = Recovered(TRUE) \o
                  << IF next[k] = NoObj THEN Deleted(k) ELSE Applied(k, next[k]) >>
  /\ watcher' = [watcher EXCEPT !.at = @ + 1]
  /\ task' = [task EXCEPT !.failed = FALSE]
  /\ UNCHANGED <<server, faults, chan, ui, counted>>

\* A routine or transport end of the stream: the watcher resumes where it was,
\* or lists again when the initial list had not finished.
StreamEnds ==
  /\ Ready
  /\ \/ watcher.state = "watching" /\ Goto("listed")
     \/ watcher.state = "initial" /\ task.usingStreaming /\ Goto("empty")
  /\ IF watcher.broken THEN UNCHANGED faults ELSE Fault
  /\ UNCHANGED <<server, task, outbox, chan, ui, counted>>

\* The revision to resume from was compacted (410): relist, silently.
Desync ==
  /\ Ready /\ watcher.state \in {"listed", "watching"} /\ Fault
  /\ Goto("empty")
  /\ UNCHANGED <<server, task, outbox, chan, ui, counted>>

\* Any other error: tell the UI, back off, let the watcher retry.
WatchFails ==
  /\ Ready /\ Fault
  /\ \/ watcher.state \in {"empty", "listed"} /\ UNCHANGED watcher
     \/ watcher.state = "page" /\ Goto("empty")
     \/ watcher.state = "initial" /\ task.usingStreaming
        /\ watcher' = [watcher EXCEPT !.broken = TRUE]
     \/ watcher.state = "watching" /\ watcher' = [watcher EXCEPT !.broken = TRUE]
  /\ task' = [task EXCEPT !.failed = TRUE]
  /\ outbox' = <<Note("WatchError")>>
  /\ UNCHANGED <<server, chan, ui, counted>>

\* RBAC refuses the watch request.
Forbidden ==
  /\ Ready /\ ~watchAllowed
  /\ \/ watcher.state = "empty" /\ task.usingStreaming /\ apiServer.streaming
     \/ watcher.state = "listed"

\* ... and the list too: an error as any other.
WatchAndListForbidden ==
  /\ Forbidden /\ Fault
  /\ task' = [task EXCEPT !.failed = TRUE]
  /\ outbox' = <<Note("WatchError")>>
  /\ UNCHANGED <<server, watcher, chan, ui, counted>>

-----------------------------------------------------------------------------
(* poll_lists.                                                             *)

\* The messages that take the store from the rows of the last list to rows.
Diff(rows) ==
  LET changed == {k \in KeysOf(rows) : rows[k] # task.seen[k]}
      gone == KeysOf(task.seen) \ KeysOf(rows)
      upserts == SeqX!SetToSeq(changed)
      removes == SeqX!SetToSeq(gone)
  IN [i \in 1 .. Len(upserts) |-> Applied(upserts[i], rows[upserts[i]])]
     \o [i \in 1 .. Len(removes) |-> Deleted(removes[i])]

PollOk(rows, first) ==
  /\ outbox' = first \o Diff(rows)
               \o (IF task.synced THEN <<>> ELSE <<Note("Synced")>>)
  /\ task' = [task EXCEPT !.polling = TRUE, !.seen = rows, !.synced = TRUE,
                          !.failed = FALSE]

\* The list is allowed: it takes over.  Only a finished list is reset, so the rows a
\* streaming list sent before it broke off stay.
StartPolling ==
  /\ Forbidden
  /\ \E i \in 1 .. Now :
       /\ PollOk(hist[i], <<Note("WatchPolling")>> \o
                          (IF task.listing THEN <<>> ELSE <<Note("Reset")>>))
       /\ counted' = (IF task.listing THEN counted ELSE {}) \ KeysOf(hist[i])
  /\ UNCHANGED <<server, faults, watcher, chan, ui>>

\* A list that brings news, the end of an outage included.  One that lags the
\* cluster counts as a fault, so that the lag does not last for ever.
Poll(i) ==
  /\ task.polling /\ outbox = <<>>
  /\ hist[i] # task.seen \/ task.failed
  /\ IF i = Now THEN UNCHANGED faults ELSE Fault
  /\ PollOk(hist[i], Recovered(TRUE))
  /\ counted' = counted \ KeysOf(hist[i])
  /\ UNCHANGED <<server, watcher, chan, ui>>

PollFails ==
  /\ task.polling /\ outbox = <<>> /\ Fault
  /\ task' = [task EXCEPT !.failed = TRUE]
  /\ outbox' = <<Note("WatchError")>>
  /\ UNCHANGED <<server, watcher, chan, ui, counted>>

-----------------------------------------------------------------------------
(* The channel and the UI.                                                 *)

Send ==
  /\ outbox # <<>> /\ Len(chan) < ChannelCap
  /\ chan' = Append(chan, Head(outbox))
  /\ outbox' = Tail(outbox)
  /\ UNCHANGED <<server, faults, watcher, task, ui, counted>>

\* Mutant: a poll does not end the outage that led to it.
FoldKeepingNotice(u, m) ==
  [ store |-> CASE m.type = "Reset"   -> BeginReset(u.store)
                [] m.type = "Applied" -> Apply(u.store, m.key, m.obj)
                [] m.type = "Deleted" -> Remove(u.store, m.key)
                [] m.type = "Synced"  -> FinishSync(u.store)
                [] OTHER              -> u.store,
    notice |-> m.type # "WatchRecovered" /\ (u.notice \/ m.type = "WatchError") ]

Fold(u, m) ==
  [ store |-> CASE m.type = "Reset"   -> BeginReset(u.store)
                [] m.type = "Applied" -> Apply(u.store, m.key, m.obj)
                [] m.type = "Deleted" -> Remove(u.store, m.key)
                [] m.type = "Synced"  -> FinishSync(u.store)
                [] OTHER              -> u.store,
    notice |-> IF m.type \in {"WatchRecovered", "WatchPolling"} THEN FALSE
               ELSE u.notice \/ m.type = "WatchError" ]

HandleMsg ==
  /\ chan # <<>>
  /\ LET u == Fold([store |-> store, notice |-> notice], Head(chan))
     IN store' = u.store /\ notice' = u.notice
  /\ chan' = Tail(chan)
  /\ UNCHANGED <<server, faults, watcher, task, outbox, counted>>

-----------------------------------------------------------------------------
PollFresh == Poll(Now)

TaskStep ==
  \/ BeginList \/ StreamingUnsupported \/ ListReturns
  \/ \E k \in Keys : InitApply(k)
  \/ InitDone \/ ResumeWatch \/ WatchEvent \/ StartPolling
  \/ (watcher.broken /\ StreamEnds)

Next ==
  \/ \E k \in Keys : ServerWrite(k)
  \/ RevokeWatch
  \/ BeginList \/ StreamingUnsupported \/ ListReturns
  \/ \E k \in Keys : InitApply(k)
  \/ InitDone \/ ResumeWatch \/ WatchEvent
  \/ StreamEnds \/ Desync \/ WatchFails \/ WatchAndListForbidden
  \/ StartPolling
  \/ \E i \in 1 .. Now : Poll(i)
  \/ PollFails \/ Send \/ HandleMsg

\* tokio runs every ready task and the event loop keeps draining; a retry is
\* always made, and the API server's cache catches up in the end.
Fairness ==
  /\ WF_vars(TaskStep) /\ SF_vars(PollFresh) /\ WF_vars(Send) /\ WF_vars(HandleMsg)

Spec == Init /\ [][Next]_vars
FairSpec == Spec /\ Fairness
=============================================================================
