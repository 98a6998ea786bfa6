--------------------------- MODULE WatchTaskProps ---------------------------
(***************************************************************************)
(* What one watch promises the table that shows it.                        *)
(***************************************************************************)
EXTENDS WatchTask

TypeOK ==
  /\ hist \in Seq(Rows) /\ Now \in 1 .. MaxRev
  /\ apiServer \in Servers /\ watchAllowed \in BOOLEAN
  /\ faults \in 0 .. MaxFaults
  /\ watcher \in [state : {"empty", "page", "initial", "listed", "watching"},
                  at : 1 .. Now, left : SUBSET Keys, broken : BOOLEAN]
  /\ task \in [polling : BOOLEAN, usingStreaming : BOOLEAN, initializing : BOOLEAN,
               listing : BOOLEAN, failed : BOOLEAN, seen : Rows, synced : BOOLEAN]
  /\ \A m \in SeqX!ToSet(outbox \o chan) :
       m \in [type : MsgTypes, key : Keys, obj : Objects \cup {NoObj}]
  /\ Len(chan) <= ChannelCap
  /\ store \in StoreType
  /\ notice \in BOOLEAN /\ counted \subseteq Keys

\* The UI once it has handled the messages ms, and once it has handled every message
\* already sent or being sent.
After(u, ms) ==
  LET after[n \in 0 .. Len(ms)] == IF n = 0 THEN u ELSE Fold(after[n - 1], ms[n])
  IN after[Len(ms)]

Settled == After([store |-> store, notice |-> notice], chan \o outbox)

\* Between lists, the messages in flight take the table to exactly the server
\* state the watcher has reached: no row lost, kept too long, or stale, after
\* any mix of relists, resumed watches, fallbacks and failed requests.
WatchMirrorsServer ==
  ~task.polling /\ watcher.state \in {"listed", "watching"} =>
    /\ Settled.store.synced
    /\ Settled.store.items = hist[watcher.at]

\* While polling, every row of the last list is on its way to the screen at the
\* version that list gave it.
PolledRowsShown ==
  task.polling => /\ Settled.store.synced
                  /\ \A k \in KeysOf(task.seen) : Settled.store.items[k] = task.seen[k]

\* ... and nothing else stays in the table, with one exception: rows of a streaming
\* list that broke off, whose retry RBAC refused, and that no poll has listed since.
\* probe_watch and poll_lists say that the poll replaces them, but spawn_watch_task
\* passes relist = !listing, so no Reset takes them out and no poll deletes what it
\* never saw.  A row that a poll did list goes when a later one does not.
PollReplacesList ==
  task.polling =>
    KeysOf(Settled.store.items) \subseteq
      KeysOf(task.seen) \cup (IF task.usingStreaming THEN counted ELSE {})

\* The three together: watching or polling, once every message is handled the table
\* is what the server last showed, but for what an interrupted list left over.
TableMirrors == WatchMirrorsServer /\ PolledRowsShown /\ PollReplacesList

\* An established watch, or a poll that answers, leaves no failure notice behind.
NoticeEndsWithOutage ==
  \/ ~task.polling /\ watcher.state = "watching" /\ ~watcher.broken
  \/ task.polling /\ ~task.failed
  => ~Settled.notice

\* When the cluster and the network settle, the table ends up synced, without
\* a notice, and equal to the cluster, but for what an interrupted list left over.
AtRest ==
  /\ store.synced /\ ~notice
  /\ \A k \in Keys \ counted : store.items[k] = hist[Now][k]
=============================================================================
