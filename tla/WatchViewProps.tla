--------------------------- MODULE WatchViewProps ---------------------------
(***************************************************************************)
(* What moving between tables, and between clusters, must not mix up.      *)
(***************************************************************************)
EXTENDS WatchView

WorkerType == [kind : {"idle", "watch", "connect"}, ctx : Contexts \cup {NoContext},
               view : Views \cup {NoView}, phase : {"start", "list", "live", "done"},
               sent : SUBSET Keys]
MsgType == [gen : Gens, key : Keys, obj : Objects \cup {NoObj},
            ctx : Contexts \cup {NoContext},
            type : {"Reset", "Applied", "Deleted", "Synced",
                    "Connected", "ConnectFailed", "NeedsInput"}]

TypeOK ==
  /\ ctx \in Contexts /\ view \in Views \cup {NoView}
  /\ generation \in Gens
  /\ worker \in [Gens -> WorkerType]
  /\ chan \in Seq(MsgType)
  /\ store \in StoreType
  /\ watchKey \in Views \cup {NoView}
  /\ cache \in [Views -> Rows] /\ order \in Seq(Views)
  /\ switchTarget \in [gen : Gens \cup {0}, ctx : Contexts \cup {NoContext}]
  /\ pending \in {NoDest} \cup [ctx : Contexts, view : Views]
  /\ auth \in Contexts \cup {NoContext}

RowsFrom(rows, c, v) == \A k \in Keys : rows[k] # NoObj => Source[rows[k]] = <<c, v>>

\* Every row on screen, or waiting to be swapped in, belongs to the table shown:
\* no message of an abandoned watch, no snapshot and no other cluster's row
\* slips in, whatever the order of navigation, switches and late messages.
NoForeignRows ==
  RowsFrom(store.items, ctx, view) /\ RowsFrom(store.pending, ctx, view)

\* A cached snapshot holds rows of its own view on the current cluster only, so
\* a visit after a context switch never redisplays the other cluster.
NoForeignSnapshots == \A v \in Views : RowsFrom(cache[v], ctx, v)

\* What makes the two above inductive: the running task is the shown table's, and
\* so is every current message; nothing is shown while a switch connects; the
\* generations to come have no task and no message yet.
RowTypes == {"Reset", "Applied", "Deleted", "Synced"}

CurrentMessage(m) ==
  /\ m.type \in RowTypes => worker[generation].kind = "watch"
  /\ m.type = "Applied" => m.obj \in Objects /\ Source[m.obj] = <<ctx, view>>
  /\ m.type = "Connected" => worker[generation].kind = "connect"

GenerationInv ==
  /\ \A g \in Gens : g > generation => worker[g].kind = "idle"
  /\ \A g \in Gens : worker[g].kind = "connect" => worker[g].ctx \in Contexts
  /\ worker[generation].kind = "watch" =>
       worker[generation].ctx = ctx /\ worker[generation].view = view
  /\ worker[generation].kind = "connect" =>
       KeysOf(store.items) = {} /\ KeysOf(store.pending) = {}
  /\ watchKey \in Views => watchKey = view
  /\ \A i \in DOMAIN chan :
       /\ chan[i].gen <= generation
       /\ chan[i].type \in {"Connected", "NeedsInput"} => chan[i].ctx \in Contexts
       /\ chan[i].gen = generation => CurrentMessage(chan[i])

IsolationInv == TypeOK /\ NoForeignRows /\ NoForeignSnapshots /\ GenerationInv

\* A snapshot is never a partial list: it has every row the server always had
\* (a partial one would read as "resources disappeared").
SnapshotsComplete == \A v \in Cached : StableKeys \subseteq KeysOf(cache[v])

\* The cache stays within both bounds, whatever is stashed over and over, and the
\* eviction order names exactly the cached views, once each.
CacheBounded ==
  /\ Fits(cache, order)
  /\ Cached = {order[i] : i \in DOMAIN order}
  /\ \A i, j \in DOMAIN order : order[i] = order[j] => i = j

\* The cluster changes only to the one the user asked for last, and only while
\* nothing the user did since superseded that switch; a destination armed with a
\* switch opens with it and on its cluster, or not at all.
SwitchLandsAsAsked ==
  [][ctx' # ctx =>
       /\ switchTarget = [gen |-> generation, ctx |-> ctx']
       /\ pending # NoDest => pending.ctx = ctx' /\ view' \in {pending.view, NoView}]_vars

\* A table whose watch runs is synced in the end unless the user moves on, however
\* many superseded tasks keep filling the channel.
TableSyncs ==
  \A g \in Gens :
    (generation = g /\ worker[g].kind = "watch") ~> (store.synced \/ generation # g)
=============================================================================
