# sofka in TLA+

sofka is a terminal UI for Kubernetes: one event loop owns all of the UI's state,
and everything slow (watches, lists, connections, logs, drains, file transfers,
plugins, state files) runs in tasks and threads that send it messages over one
bounded channel. Each message carries the *generation* or the *request id* it
belongs to, and most of what can go wrong is a message that arrives in a state
nobody pictured: after a context switch, after a cancelled request, half-way
through a list, during teardown. This directory models those parts, checks them
with TLC on small instances, and proves the central invariants with TLAPS.

Paths below are relative to the repository's `src/` directory of Rust sources
unless they say otherwise.

## 1. The system and its parts

| Part | State | Operations | Interactions | What makes it correct |
|---|---|---|---|---|
| Row store (`store.rs`) | rows, the buffer of a running list, sync flags, per-namespace partitions, generation | reset, begin/finish a list, apply, delete, clear, stash, restore | fed by the event loop only | a list swaps in at once, nothing of an earlier list survives it |
| Watch task (`k8s.rs` `spawn_watch_task`, `poll_lists`) | stream position, retry/backoff, what the last poll saw | list, watch, resume, re-list, fall back to polling on 403, poll and diff | sends `Reset/Apply/Delete/Synced/Warning` on the channel | the table ends equal to the cluster; a failure notice ends with the failure |
| Views and contexts (`app/lifecycle.rs`, `app/pickers.rs`, `app/bookmarks.rs`, `app/workspaces.rs`) | generation, current view, cluster, pending destination, in-flight switch, snapshot cache | start a watch, open a dashboard, stash and restore a snapshot, switch context, retry, log in | aborts tasks, spawns connections, consumes late answers | rows, snapshots and destinations of one cluster never appear in another |
| State writer (`state_writer.rs`, `atomicfile.rs`) | ordered queue, coalesced burst, pending failures, temp files | save, coalesce, replace atomically, report, drain on exit | `Msg::StateWriteFailed`, teardown | no choice lost or overtaken, no failure forgotten, files never torn, quitting ends |
| Status bar (`app/actions.rs`) | text, error flag, the claim that owns it | claim, update, borrow, clear, expire | every asynchronous operation writes to it | a late operation never overwrites a newer one's status |
| Namespace patterns and workloads (`app/namespace_patterns.rs`, `app/workloads.rs`) | resolved namespaces, one watch each, a partition each | resolve, retarget, merge | the partitioned store | rows of a namespace that left the set go with it |
| Credentials, wake-up, rediscovery (`app/credentials.rs`, `app/resume.rs`, `app/rediscovery.rs`) | request counters, paused watch | renew, log in, resume, rediscover | replace the cluster under the views | at most one renewal; a stale answer changes nothing |
| Node drain (`app/drain.rs`) | run, targets, deadline, cancellation | cordon, evict, wait, finish, cancel | many tasks, one progress stream | never reports a drained node that still has pods |
| PVC explorer (`app/pvcexplore.rs`) | helper pod, session, listing | create, wait, list, delete | pods in the cluster outlive the UI | no helper pod is left behind |
| Plugins (`plugin_install.rs`, `plugin_catalog.rs`, `app/plugins.rs`) | lock file, staged tree, installed tree | install, upgrade, remove, run | files shared by processes | an interrupted install leaves the old or the new plugin |
| Logs (`app/logs.rs`, `app/log_follow.rs`) | streams, ring buffer, reconnect position | follow, reconnect, de-duplicate, trim | one task per container | no line lost or shown twice over a reconnect; what the user reads stays where it is |
| Reports (`app/explain.rs`, `app/rbac.rs`, `app/adjacent.rs`, `app/argocd.rs`) | request counters, partial results | request, cancel, refresh | late answers | an answer reaches only the request it belongs to |
| Navigation (`app/navigation.rs`) | history stacks | push, back, forward, drill down | start_watch | back returns where one came from |
| Guardrails and the manifest browser (`app/guardrails.rs`, `app/dir.rs`, `app/overlays.rs`) | selection, renders under way, the preview, the dialog | render, diff, confirm, run | a context switch in flight, files others edit | what runs is what was shown, where it was shown, under the rules of that place |
| File transfer (`app/transfer.rs`) | the copy, a sampler beside it, a bar | start, sample, size, finish | a destination others measure, late messages | the bar counts what was copied, and goes |
| Secret editing (`app/secret_edit.rs`) | the Secret read, its plaintext on the disk, the dialog | read, edit, confirm, patch; sweep | the cluster, other sofkas, the editor | nothing is overwritten unseen, no plaintext stays |
| Fleet | see `PROJECT.json` | | | |
| Rows, filters, columns (`app/rows.rs`, `filter.rs`, `columns.rs`) | caches keyed by versions | rebuild, sort, select | read by the renderer | the selection stays on its object |
| Rendering, terminal, TLS, config parsing | none of interest, or parsing only | | | not modelled |

The behaviours that are hard to test are listed line by line under `hazards` in
`PROJECT.json`; each names the properties that cover it.

## 2. Plan

Modules are written in this order, the most important behaviour first. Modules
that proofs are written about use no `RECURSIVE` operator.

1. `Store`, `WatchTask` (composed: the task drives the store over the channel) - done, proved
2. `WatchView`: generations, the view cache, context switches - done, proved
3. `StateFiles` (abstract), `StateWriter` (its implementation) - done, proved
4. `StatusBar`: claims and borrowing - done, proved
5. `GuardedActions`: from asking for a change to making it - done, proved
6. `NamespaceWatches`: partitions and retargeting over `Store` - done, proved
7. `Drain`: the worker and its screen - done, proved
8. `PluginSet` (abstract) and `PluginInstall`, `PvcExplore`, `LogFollow`, `LogSelector`,
   `LogView`, `Transfer` - done, all but `LogView` proved; `Journal`
9. `Credentials`: renewal, resume, rediscovery; composition with `WatchView`
10. `TableRows` - done, proved; `History`, reports and their request counters
11. pure algorithms (fuzzy match, thresholds, durations) against reference definitions

Abstract specifications worth stating: `StateFiles` (done); a *mirror* of the
cluster for `WatchTask`; "one answer per request" for the reports. Theorems worth
proving: isolation of clusters (done), the state writer's promise (done), the
ownership of the status bar and that outcomes are seen (done), guarded actions (done),
the drain's verdict (done), the transfer's bar (done), the view cache and its snapshots
(done), helper pods (done), the lines of a log stream and who has one (done), the edit of a Secret and its
plaintext (done), that an interrupted command keeps the plugins (done), that the table
mirrors the server and the partitions their watches (done), what the table lists and where its
cursor is (done).

## 3. The models

### Store, WatchTask, NamespaceWatches

`Store` holds what a `Store` holds: the rows, the buffer of a list that is running,
the flags that say whether a list is in progress and whether one ever finished, and
per partition its rows, buffer and flag. Its operators are the methods of `store.rs`;
the version counter that render caches compare is left out. `WatchTask` is the task of `spawn_watch_task`: the stream's
position in the server's history, the retry it is in, and, after a 403, the set of
rows the last poll saw. The API server is a history of row states; a list or poll
reads a recent state, a stream replays changes from where it stands. `counted` is a
history variable: the keys that a list which never finished has sent since the last
`Reset`. The channel
is the bounded event channel; `Fold` is the arm of `handle_msg_inner` for each
message.

`NamespaceWatches` is a view of the namespaces that match a pattern: `looking` is the
lookup, `resolved` what it found, `watched` the namespaces of the running watches, one
each. A watch is reduced to what `WatchTask` promises: a list, changes, failures,
recovery. `ui` holds the partitioned store, the namespaces that fail and the notice.
The user looks the pattern up again, leaves, comes back, or switches context; the
snapshot of a set of namespaces is shown until each of them is listed.

| Run | Question | Bounds |
|---|---|---|
| `watch` | streaming lists and plain ones, with the watch refused at any moment, in the middle of a list too: the table mirrors what the stream or the last poll reached, but for the rows an interrupted list left over. Several watches: each namespace's rows are its own watch's, nothing of other namespaces is left, and the view is complete when all are listed. Notices name outages that go on, and the table converges once cluster and network settle | two keys, three versions, two faults, a channel of one, servers with and without streaming lists, both of which may come to refuse the watch, a cluster that starts with one row or two, on an empty table or a snapshot; two namespaces of a key each that come and go, three generations, one change, two failures |

Three generations are what a snapshot needs: view, leave, return. Two failures make
two namespaces fail at once. Two keys are enough because every operation treats keys one by one or all alike;
three versions tell an old row from a new one and from a newer; two faults reach every pair of
failure states (failure during recovery from a failure). The fairness is that each
task and the event loop keep running (both are loops in an async runtime whose
every wait has a timeout or an event), that a retry is always made, and that the
API server's cache catches up. Nothing is assumed about the network beyond the
bound on its faults.

*Proved* (`WatchTaskProofs`), for any keys, revisions, namespaces, generations, faults
and size of the channel: `RowsMirror` (`TableMirrored`) and `NoticesTrue`
(`NoticesStandForOutages`).

* Both speak of `Settled`, the table once every message on its way is handled. So do the
  inductive invariants, and they never speak of the table on the screen: sending or
  handling a message then changes nothing (`AfterFirst`), and a step that sends one folds
  it last (`AfterMore`). `After` is computed message by message; that it is what a
  step-by-step account makes of it is an induction on the length of the channel, done with
  least elements of sets of numbers (`Least`, `SameTrace`).
* `TaskInv`, of one watch, adds what the properties leave open while no list is whole: what
  a list has brought so far is the state it reads, less the rows it has `left`; the history
  goes on by one row at a time, so one event brings the table to the next state; and a task
  that has not failed has left no notice. That a poll's changes take the table from the
  last list to this one is `DiffIs` and `AfterRows`.
* `SpacesInv`, of several, says of each namespace where its part of the store is
  (`Follows`): nothing while its watch has not begun, what was listed so far in a buffer of
  its own while it lists, and the rows of its watch from then on; its keys are always
  noted, which is what takes its rows out when its list is replaced. Messages of an earlier
  generation may still come, and those of this one are of a namespace that is watched
  (`Scoped`); a message about one namespace leaves the others' parts alone (`Apart`).
* `TableMirrored` is about every kind of API server, also one that streams a list and
  refuses the watch before the list ends. Then the poll starts without a `Reset`, and
  `PollReplacesList` excepts the rows that the broken list had counted and no poll has
  listed since: that is the finding "Interrupted list", and without the exception the run
  refutes the property in a dozen steps. `Counted` is what carries the exception: while a
  list is not finished, its rows are among the counted ones. `AtRest` excepts the same rows.

### WatchView

The UI's side of all watches: `gen` is `App::generation`, `view` the table, `cluster`
the connection, `dest` the destination a bookmark, workspace or query left for the
connection to open, `target` the in-flight switch, `cache` and `order` the stashed
snapshots. Rows are tagged with the cluster and view they came from, a ghost that
the code does not have; that is what lets a property speak of foreign rows.
Connections and watches send into one bounded channel in any order. `StartWatch`,
`SwitchContext`, `HandleConnected` stand for the whole handlers, including the
stash and the eviction they end in. Left out of a landed switch: history, metrics,
printer columns and credentials, which hold no rows. The login dialog takes the keys, and the code
restarts a pending watch only in table mode, so actions of the user wait for it; only
`OpenView` may happen under it, for the lookup of a namespace pattern that lands then, and
it may close the dialog and leave its destination armed.

| Run | Question | Bounds |
|---|---|---|
| `views` | every order of navigation, dashboards, switches, logins and late messages; the snapshots it leaves are whole, and the current view's list gets through superseded tasks' messages | two clusters, two views of two keys, three generations, a cache of one |
| `switches` | overtaken switches, the destinations armed with them, and the snapshots they leave; both bounds of the cache | a cache of two views and three objects: three clusters, one view of one key, five generations (`Switching`); on one cluster two views of two keys, three generations (`TwoTables`), or three views of one key, four generations (`ThreeTables`) |

Of the cache's bounds, the objects are too many with two views of two keys, and the
views are too many with three of one key; a view is stashed twice when it is returned to.
Two clusters and two views are what foreign rows need; the third and fourth
generation are the "late message after the next one" cases. The proof below does
not depend on them.

*Proved* (`WatchViewProofs`), for every set of clusters, views, keys and every bound:

* `Isolation`: rows and snapshots shown belong to the connected cluster and the view
  they are shown as. The invariant: every message and every task of the current
  generation belongs to the current cluster and view, every cached snapshot belongs to
  its key, and generations only grow - needed because `NoForeignRows` alone says nothing
  of the messages still in the channel.
* `SwitchesLand` (an action property). `SwitchInv` adds what the code never writes down
  in one place: the connection in flight is the one asked for last, answers once, and a
  login and a connection are never waited for at the same time; so the destination that
  is armed belongs to whichever of the two there is.
* `CacheStaysBounded`. The property is inductive by itself; what its proof rests on is
  that evicting from the front of `order` stops with the rest within both bounds
  (`EvictionsFit`), and that a view stashed again is moved, not added (`StashedNames`).
* `SnapshotsWhole`. A snapshot is whole because the table was synced, which it was because
  its list was, which is still in the channel while it is handled. `CompleteInv` says of
  every prefix of the channel what the list under way will have seen by its end
  (`Seen`): a `Synced` still to come is preceded by every row that was there throughout,
  with no `Reset` behind it. Without the half that speaks of the channel nothing is
  inductive.

### StateFiles, StateWriter

`StateFiles` is the promise: a file of remembered choices only moves forward, to a
choice the user made, and the next start reads it. `StateWriter` is the code: the
channel to the worker, the burst it coalesces, the temporary file and the rename,
the failure notices the event loop may or may not get to, `Drop` with its grace
period, and kills and restarts of the process. A snapshot is the number of the
choice it holds. A file system may stall for ever: only teardown's steps are fair.

| Run | Question | Bounds |
|---|---|---|
| `statewriter` | order, coalescing, failures, the exit, and the refinement of `StateFiles` | two files, three choices each (three make a burst whose middle is dropped), one failure, two sessions |

*Proved* (`StateWriterProofs`, 873 obligations): `OrderInv`, `LatestAccounted`,
`FailuresKept`, `CleanExit` and `Spec => KeepsPromise`, for any files and bounds. The
inductive invariant adds `Shape` (where the worker is, given its burst and the
process), `FilesBehind` (no file is ahead of the memory) and `FailuresTold`. Each step
of the refinement is `Choose`, `Save` (the rename), `Stop`, `Restart` or a stutter.

### StatusBar

One text that every operation writes to. An operation claims it when it starts and
presents its claim with its result; notices borrow it, a table change and the
one-second tick take things off it. A text is `[what, by]`, so "which operation does
this confirmation speak for" can be asked. `flashSeen`, `old` and `Notices` keep the
second path the code has: a handler that assigns `self.flash` itself, which the tick
discovers later. `lastActionError` is what `:debug` answers. `displaced` is history: the
claims older than what the user did last.

| Run | Question | Bounds |
|---|---|---|
| `bar` (bar) | who may write the bar, who always gets to, and what may never come off it | two operations of all kinds, a table change, two notices |

*Proved* (`StatusBarProofs`): `StatusInv` and `NewestConfirms` for any number of
operations, tables and notices. The argument: a claim number is never reused, the
owner is the newest claim or nobody, only the owner's text can turn into "done", and
an owner's text is the one the last tick saw. `Outcomes` (an action property: the newest
operation reports, and errors stay) needs more: while the newest operation runs and the
user did nothing else, it owns the bar *and* the last tick has seen its text
(`NewestHolds`), whoever borrows the bar meanwhile; no operation is a drain before it has
a claim; and only progress, never an error, is remembered as shown. Background plugins that borrow the bar
for their output are not modelled.

### GuardedActions

The way from a key to a change of the cluster. `context`, `generation`, `switch` and
`rows` are what `WatchView` models in detail, reduced to "which cluster is connected,
which is being connected, whose rows of which kind are on screen". `lookup` is a view
that waits until the namespaces matching a pattern are found. A `Plan` is a render of one
manifest: `rendered` is the edit of the file it read (one past the last edit while
kubectl has not read it), `base` the context kubectl was given. `Guard` stands for
the configuration: for each context and verb the level the rules combine to, or
"deny". The dialog remembers the context it names. `diffed` and `ran` are history.

| Run | Question | Bounds |
|---|---|---|
| `guarded` | what runs is what was shown, where, under which rules | three contexts (strict, denying, read-only), two manifests, two generations, three renders and moves, one outside edit of each file, one kind |
| `landed` | *violated*: the cluster that is changed is the one that was reviewed (see Findings) | two renders, two kinds |
| `retyped` | *violated*: the kind deleted is the one the dialog named (see Findings) | two renders, two kinds |

*Proved* (`GuardedActionsProofs`): all four state invariants, for any contexts, files
and rules. The inductive invariant adds that rows on screen are those of the connected
cluster, that a render of this generation was made for this context, that an open
dialog obeys the rules of the context it names, that no switch is under way for which
rows could be deleted, and that a preview was diffed. Not modelled: `max_bulk`, the
patterns that select rules, help over a diff, bookmarks and workspaces opened from
the palette (they end like a switch or a view).

### Drain

The worker of `app/drain.rs` against a cluster that others use, and the screen it
runs under. A pod is `[name, uid, node, terminating, finished]`; what it is
(`SortOf`) and who controls it (`OwnerOf`) go with its name, so a replacement has the
same name and another uid. A list is a snapshot (`listed`), and everything the code
decides from it may be out of date. Requests the worker gave up (time limit,
cancellation) sit in `lateCordons` and `lateRemovals` and may still arrive. A removal
carries what had been looked up when it was sent, so that what was removed can be held
against it. The cluster's own rules are assumptions: nothing but a DaemonSet's or a
mirror pod is bound to a cordoned node, nobody uncordons, a uid is never used twice.

| Run | Question | Bounds |
|---|---|---|
| `drain` | what may be removed, when a node is "drained", what the report says, that a canceled drain ends | two nodes, a controlled pod that is replaced once, a DaemonSet pod, one document |

Fairness is on the worker, on a cancellation being seen and on the last message, never
on the server accepting an eviction: a PodDisruptionBudget may refuse for ever.

*Proved* (`PanesProofs`): all the state invariants of `drain`, for any nodes, pods,
controllers, options and numbers of replacements. The inductive invariant needs: where
the worker is (`Place`: no cordon is undecided while it works, and between two nodes it
has none on its conscience that the report does not list), the targets in order and
nothing touched outside them (`InOrder`), that a uid is one pod on one node for as long
as a list, a request or a history mentions it (`Identity`), that no pod for the drain
comes to the node between its list and the verdict (`Covered`: it is cordoned by then),
that completed nodes stay empty (`Emptied`), and that what is about to be asked, is on
its way or was removed is permitted by what had been looked up (`Asked`). That the
targets are all different is an assumption on the constants (`drain_targets` removes
duplicates). The run has neither a bare pod nor one with
an emptyDir: what `RemovesOnlyPermitted` says of those rests on the proof alone.
`CancelEnds` is liveness and only model-checked.

### PluginSet, PluginInstall

`PluginSet` is the promise of `sofka plugin install | update | remove`: every plugin is
what it was, or what a command was asked to make of it in one step, or what its owner
made of it. `PluginInstall` is the code on the file system: a package is staged, marked,
unpacked and recorded, the installed one is set aside, the new one renamed into its
place, and what is left is deleted through `.plugin-trash`, a file at a time
(`remove_dir_all`). At any of these steps the process may be killed, or the step fail;
the next command starts with the recovery of `recover_interrupted`. A directory is
reduced to its package, its record, its marker and whether its files are whole.

Its properties are checked in the run `outside`, below.

Two commands are what a recovery needs (the interrupted one and the next); one crash
and one fault reach every pair of "failed, then killed while cleaning up". The owner is
not held by the lock and may edit a package at any time. A stage that was killed before
it was marked is not sofka's to delete and stays: `Recovered` says so. Not modelled:
archives and their checks, signatures, and running a plugin.

*Proved* (`OutsideProofs`): `RecoveryFinishes`, and that the file system implements
`PluginSet` (`KeepsPlugins`), for any plugins and catalogs and any number of commands,
failures, crashes and edits. The invariant that carries both (`PluginInv`) tells what is
left over apart by its kind, its plugin and the command that left it: a plugin has one
backup at most (`Apart`); what earlier commands left is still to be looked at by
recovery, or an unmarked stage (`Earlier`); and of each stage of the command at work it
is known how far it got - made, marked, unpacked, recorded - by where the command is
(`Own`). What a batch prepares is of different plugins (`OnePerPlugin`), which is why an
activated package cannot meet the backup of another one. A step of the command then is a
step of `PluginSet` exactly when it renames a package into place or takes one out: the
backup that stands for a plugin while it is away has the package that was active. It
rests on `InstallAssumption`: a plugin that is there before the first command is all
there, and nothing is left over then.

### PvcExplore

The volume browser: `pvc` is its state, `tasks` the requests that run beside the event
loop (finding a pod, creating a helper, listing, recovery, copies, cleaning), each with
the run and generation it was begun with. Their answers come in any order and are
chosen when they come. `alive` and `home` are the helper pods in the clusters,
`deletes` the deletions spawned and not yet run: quitting or switching loses neither.
The screen is reduced to what an answer may find there: the table, the browser, an
overlay, a dialog, somewhere else.

`MCOutside` checks the volume browser and the plugin commands in one run, each at rest
while the other moves: the two share no state.

| Run | Question | Bounds |
|---|---|---|
| `outside` | every helper is accounted for and goes in the end; the rows shown are those of the pod and directory acted on; recovery never shows more of a volume, or makes it writable. An interruption leaves the old or the new package, recovery finishes, and what the owner changed is never replaced | one claim, a workload without a shell that mounts it read-only and another, two clusters, three requests for the browser, one helper, two requests under way; two plugins, two indexes, two commands, one fault, one crash, one edit by the owner |

Three requests are "asked, asked again, and again while the first answers"; two clusters
tell a pod from another of the same name. `HelpersGo` assumes that requests are answered
and spawned deletions run (each has a timeout in the code); a helper the user was told
of is excused. The parsing of listings, the local pane and the cursors are not modelled.

The mounts of the run differ in being read-only, not in the
part of the volume they show; for that half `RecoveryNeverWidens` has the proof alone.

*Proved* (`OutsideProofs`): `HelpersAccounted`, `PaneShowsItsOwn` and
`RecoveryNeverWidens`, for any clusters, claims, pods and any number of requests under
way. None is inductive: each may be broken by an answer that is still to come. What
carries them is the run a request is made under. `Inv` says that at most one request
that the browser waits for has its run (`Serving`), and what that one may bring: while
it can bring a helper, none is mounted that it would displace; a listing is of the pod
that is mounted; what a recovery would mount is no wider than what the claim was opened
through, and neither are the candidates it has left (`Sound`). While a question about a
helper is open the browser waits for no pod (`Offered`), and while the cluster changes
nothing is mounted or will be (`Resting`) - this is why a helper is always deleted with
the client of its own cluster.

### LogFollow, LogSelector, LogView

`LogFollow` is one stream (`LogStream::run`): `task` has where its loop is, the pod it
takes the name for, `LogResume`, and the connection; `inbox` holds batches on their way
and `shown` what the view has. The cluster is beside it: a container writes, exits,
restarts, and the name passes to another pod. Two ticks make a second, so that
`sinceTime`, which has a resolution of a second, replays lines. Every request may fail,
every connection break; a wake is a break the code makes itself: of a connection, or of a
request that has not been answered, which goes back to the check (`WokenOpening`).

`LogSelector` is `SelectorLogs::run`: kube's watcher (external: it lists, watches,
resumes or lists again), the pods `followed`, those `listed` since the last `Init`, and
the streams that run. A pod is its uid and has one container here.

`LogView` is the buffer: lines in time order, `markers`, the index of shown rows that
`refresh_index` extends, and the scroll position in display rows. Operators on a record
of the view (`Insert`, `DrainFront`, `Refresh`, ...) are the methods; an action is a
message or a key and ends, as the handlers do, with the trim. A line is its kind: how
many rows it takes, and whether the filter matches it, depend on the modes.

| Run | Question | Bounds |
|---|---|---|
| `logstream` (stream) | the lines of a run come one after the other, once, whatever breaks; a running container's last line arrives | two pods, two runs in all, three lines, one fault; one stop or restart of the view, over two lines |
| `logstream` (selector) | one stream per followed pod, none for others, and the pods followed come to be those that match | two pods, four changes, two failures of the watch |
| `bar` (view) | the extended index is the one that would be built; a paused view stays where it is as lines come and go; timestamps and JSON keep the line in view | two kinds of line, two time stamps, buffers of one and two lines, three lines, two changes of mode |

Three lines are one delivered, one that could be missing, and the next; four ticks let them share a second or not.
Fairness: the stream's loop and the event loop go on (every wait of `run` has a timeout
or an event), and kube's watcher answers; faults are bounded and never required.
What the properties except, they name: pods a stream was opened on in place of another
(`raced`), tails that start in the middle of a time stamp (`TailSplits`), pods that
left the selector while they were being deleted (`relapsed`), views scrolled past their
end. The first two are divergences (see Findings). `JSON` is one formatted view, the
terminal keeps its size, and the log providers, the time anchor, copying and saving are
not modelled.

*Proved* (`LogFollowProofs`): `LinesConsecutive`, for any number of pods, restarts of
their containers, lines, broken connections and generations; the one assumption is
`LogFollowAssumption` (there is a pod and a run, and the tail is a number of lines). The
argument is the one `LogResume` leaves to its reader. Call the lines of this generation,
shown and then on their way, the *trail*. What the stream remembers is the time stamp of
its last line and how many of the lines up to it in the run share that stamp
(`Anchor`, `Counted`); a request from that second repeats lines of the run from some place
on, and as long as it is still behind the last one it has exactly as many left to drop as
it will meet (`Reads`, `Counts`). `Counts` holds when a connection opens (`OpensWell`,
from what `sinceTime` cuts off), while old lines are dropped (`Drops`), and when the next
one is sent (`Sends`), which is then the one after the last. Around it: time stamps grow
along a run and from each run to the next (`TimesInv`), a pod that is followed is never
older than what was sent of it (`UidInv`), and a pod recognised as new is read with
nothing remembered (`Fresh`). `Inv` was checked by TLC on the run's instance before it was
proved, and both exceptions of the property are in it: without `raced` `UidInv`
fails, without `TailSplits` `Counted` does.

*Proved* there as well: `StreamsFollow`, for any number of pods, lists and failures of the
watch.
`SelectorInv` says more than the property: a stream that runs is of a pod that is
followed, or of one that is gone and that nothing the watcher still has to say names
(`Once`). That holds because the event that says a pod went while it was being deleted is
the last one said of it (`SaysLast`), on a list as on a watch that goes on. A pod that left the
selector while it was being deleted can be named again, so `relapsed` is excepted.

### TableRows

The table between the store and the screen (`app/rows.rs`). `app` is a record of what it
reads of `App`, with `rows_cache`: the order `keys`, the rendered `cells` and the
`sorts`, each dropped piecewise by the handler that changes something under it. Handlers
are operators on that record, `Ensure` is `ensure_rows_cache`, and every action that
looks at the list ensures it first, as the code does. The cursor is an index; what keeps
it on an object is `filter_reselect` (a filter typed while rows are still listed) and
the end of `handle_msg_inner` (the faults filter). `Listing` says what the list should
be, with no cache; `RowsAreCurrent` compares pointwise (`Lists`): who is listed, and in
which order any two are. A key is its rank by name; all that columns show of an object is one
number, partly the server's own.

| Run | Question | Bounds |
|---|---|---|
| `panes` (table) | the list, its order and its text are those of now; the faults filter keeps the cursor on its object; a filter typed over rows still coming returns to the object | two names, three events, two keys; two shapes of object; every filter and sort |

Two names let a row appear above the cursor, change places with it, and come back under
another uid. The clock ticks once (`now`), which is what an age filter tells apart. `adopted` (rows whose controller changed) and `Live` (not the workloads
view) except the two bugs under Findings. The lists of several watches come in one
after the other here: which rows a relist replaces is `Store`'s. Nor is the table one of an
owner's children or of helm releases, whose order every change of a row's contents drops.

*Proved* (`PanesProofs`): all three, for any rows, shapes, filters and sort columns
(`TableAssumption`), over any number of events and keys. The inductive invariant `TableInv` has
three parts. `RowsInv` (`RowsListedAreCurrent`): what a cache holds of a row is what the
row shows now (`Cached`), so a rebuild from caches sorts and filters like one from
nothing (`Ensured`, with `Sorting`: a finite set has a listing in that order); a list that
is taken as it is, is right for every row but the adopted ones (`Listed`), which every
handler keeps by marking it dirty or by changing nothing the list depends on; and a list
with an age filter is kept only within its second (`Clocked`). `SelectionStays` is
inductive with it (`FaultsKeepTheSelection`). `Waiting` (`FilterReturns`): the row a filter
was typed over, `filter_reselect` and the cursor agree, or the list became shorter and
drawing it moved the cursor to its last row - in which case the next message drops the
wait. That last part was found by the proof: a draw may leave `filter_reselect` behind a
cursor it no longer matches.

### Transfer

One `kubectl cp` in the background: `dest` is what is at the destination (of old
content, and copied), `task` is `run_transfer`, `sampler` a measurement that was taken
and has not arrived, `bar` the entry in `App::transfers`. The copy replaces files, so
old content shrinks under the measurements; a baseline may be missing; the source's
size may come late; the sampler may retire; the browser may move on.

| Run | Question | Bounds |
|---|---|---|
| `panes` (copy) | the bar counts what was copied and nothing else; no bar is left that nothing will move or take away | three bytes old and three new, two watches, three messages |

*Proved* (`PanesProofs`, which extends the drain, the copy and the table and proves about each alone): both, for any sizes (`SizesAssumption`). For the first (`OnlyTheCopied`) the inductive
invariant `CopyInv` relates a measurement to the state it was taken in: the baseline
and a measurement under way are never below the old content that is left (it only
shrinks), and a measurement is at most the baseline plus what was written. So what lies
between them has been written, and a message that says so stays true. For the second
(`NoBarIdles`) `StillInv` adds what is said *last*: once nothing measures the copy, the
last message on its way, or the bar when there is none, has no size to show; once the
copy is over, the last message takes the bar away, or it is gone; and nothing was said
before the copy ran, so no message of an earlier one is in between.

`MCPanes` runs its two parts (table, copy) one at a time, as `MCLogFollow` does its two
and `MCStatusBar` its four (`part` says which): they share nothing but the screen.

### SecretFiles, SecretEdit

`SecretFiles` is the disk: each edit has a directory with a lock its owner holds, and
every start of sofka sweeps, on a thread, what nobody holds. `private_file`, the drop of
a `SecretEdit` and the sweep are modelled one system call at a time, for processes that
start, quit and are killed in between; `remove_dir_all` removes files in any order. A
directory without a lock is left alone until it is `UNLOCKED_GRACE` old (`aged`); it is
assumed that a directory is set up in less. `sweep[p].owes` is history: what a sweep
found at its start that it alone has to remove.

`SecretEdit` is the rest of an edit: `e` reads the Secret again, the editor shows that
copy, the dialog names the keys, and the patch carries the copy's resourceVersion, while
others write the Secret and the user presses `e` again, leaves, or opens the palette.

| Run | Question | Bounds |
|---|---|---|
| `bar` (plaintext) | no sweep touches a live edit, a running sofka has no plaintext but that of its editor, a finished sweep has removed what it found | two places sofka runs at, any number of sessions, two directories |
| `bar` (editing) | a patch changes only what its editor showed | two Secrets, two values, two presses of `e`, two changes by others |

Two processes are an editor and a sweep; a second directory lets a sweep have something
left to do when the first is taken from it.

*Proved* (in `StatusBarProofs`, for any processes, directories, Secrets, values and
requests; `PartsAssumption` is all they rest on): `NothingUnseenOverwritten` and
`PlaintextAccounted`. For the first (`EditInv`), a resourceVersion tells what the Secret
held: whoever writes raises it, so what was read at a version is still there as long as
the version is (`Held`). That goes with every answer on its way, every open edit and every
patch, and an answer is taken only for the request and the document on screen. For the
second (`FilesInv`), a directory that is being made or used is at no sweep (`Kept`): it is
younger than the grace until it has a lock, and the lock is its owner's from then on. A
plaintext nobody owns is still ahead of the sweep that owes it, with nobody's lock, or the
sweep is at it (`Pays`). `FilesInv` was checked by TLC on this instance before it was proved.

## 4. Findings

Two are shown by runs that TLC finds violated (`landed`, `retyped`); the others were met
while the models were written, at the lines `PROJECT.json` gives.

* Interrupted list (bug): `k8s.rs` 1819-1821 falls back to polling with `relist = !listing`.
  When a *streaming* list breaks off before it ended and its retry is refused, the
  poll starts on top of the rows the interrupted list had put in the buffer and
  never removes those that are gone, although the comment at 1422 says that the
  first list "replaces whatever the refused watch's list counted".
* `landed` (bug): a context switch that is still connecting when `:dir` opens may land
  under a diff or its dialog. `apply_context_switch` closes neither, and `do_manifest`
  (`app/dir.rs` 640) takes the context of the moment: the manifest goes to a cluster
  that was not diffed, that the dialog does not name and whose guardrails and
  read-only setting nobody asked. Actions on rows are safe: the switch clears the
  table first (`RowsDeletedWhereShown`, proved).
* `retyped` (bug): a view of the namespaces that match a pattern opens when they are
  found, up to 15 seconds later, whatever is on screen. A delete dialog opened meanwhile
  keeps its names, but the kind is taken from the view when it is confirmed
  (`app/actions.rs` 143): "Delete pods/web?" deletes the service `web`. Re-discovery,
  which also replaces a kind, waits for the table (`apply_rediscovery`).
* Lost report (bug): `Msg::Detail` opens its document whatever the mode is
  (`app/lifecycle.rs` 1908), so an answer to `:can-i` or a right-sizing takes the
  screen from a running drain. Back from it is the table, where the drain cannot be
  canceled or watched; opening the form again drops its cancel sender, which ends the
  drain, and its report is dropped for its old claim, although "the result lists
  completed, incomplete, and unstarted nodes" and "navigation stays disabled until the
  operation ends" (`docs/features.md` 118-126).
* Replaced question (bug): `offer_pvc_helper` (`app/pvcexplore.rs` 422) asks whatever is
  open, so a confirmation the user has not answered turns into another one.
* Stale listing: the generation-guarded branch of `Msg::PvcListing` only ends "loading"
  (`app/lifecycle.rs` 2066), so the pane is left with the title of one directory over the
  rows of another, or of a volume it never listed.
* Tail in the middle of a time stamp: `LogResume` counts only the lines it saw, so a
  reconnect repeats one and swallows another (`app/log_follow.rs` 49).
* Last lines: a connection that breaks just before the pod completes ends the stream
  without the replay the comment promises (`app/log_follow.rs` 493, 548).
* Identity check: the name may change hands between the check and the request, or the
  check fail, and lines of the new pod are shown as the old one's (`app/log_follow.rs` 407).
* Restyling under a filter: `rerender` keeps the entry's number, which is another line
  when the filter matches only one of its forms (`app/logs.rs` 837).
* Adopted rows (bug): an update does not rebuild the list of the workloads view, so a pod
  that gains or loses its controller stays listed or hidden (`app/rows.rs` 29).
* Moving cursor (bug): messages of several watches come wrapped in `Msg::NamespaceWatch`,
  which `handle_msg_inner` does not count as live updates, so the faults filter does not
  keep the cursor on its object there (`app/lifecycle.rs` 1177).
* Plaintext without a lock: `remove_dir_all` may take `owner.lock` before `secret.yaml`; a
  kill in between leaves the plaintext to be swept an hour later, not by "the next start"
  (`app/secret_edit.rs` 54, `docs/keys.md` 272).

Two smaller divergences are stated as exceptions of the properties they touch. The
recurring poll of a dashboard takes a borrowed error off the bar, although "errors
stay until the next action replaces them" (`app/actions.rs` 2887, 2929). The
progress text "draining nodes..." ends in three full stops and not in the ellipsis
that keeps progress on the bar (`app/drain.rs` 273, `app/actions.rs` 2935-2938).

## 5. What is only checked, and what is left out

Proved for every value of the constants are the properties the theorems in
`PROJECT.json` name; the constants' assumptions (`...Assumption` in the modules) are all
they rest on. The others are model-checked only, within the bounds above:

* Liveness (`TablesConverge`, `TableSyncs`, `QuitEnds`, `CancelEnds`, `HelpersGo`,
  `LinesArrive`, `FollowsSelector`) and whatever needs `ENABLED` are out of the prover's
  reach.
* `LinesStay` compares an index with one that is built from nothing, by selecting from and
  folding a sequence of any length.

A few theorems needed a definition in another form, never another meaning:
`LinesWritten` is a fold over a function, `Ordered` chooses a listing by what it is to
satisfy instead of sorting, `TailSplits` names the first line of a run
instead of choosing it, and `Consecutive` speaks of two lines with none of their run in
between, not of the filtered sequence.

Not modelled: drawing, terminal escapes, TLS and kubeconfig parsing, configuration
parsing, the wording of messages, metrics. Planned parts are marked
`not_modelled` or `partly` in `PROJECT.json` with the reason.

## 6. Running

    tlc -config MCWatchView.cfg MCWatchView
    tlapm WatchViewProofs.tla

`PROJECT.json` lists each run with its configuration, the mutant that shows each
property can fail, the lines each definition models, and the theorems.

