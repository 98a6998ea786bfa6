-------------------------- MODULE WatchViewProofs --------------------------
(***************************************************************************)
(* TLAPS proofs about WatchView, for any number of views, contexts, keys,  *)
(* objects and generations: type correctness; no row of another view or    *)
(* cluster is ever shown; a context switch lands where it was asked to;    *)
(* the view cache stays within its bounds, and its order names what is in  *)
(* it; and what is shown as synced, or stashed, is a whole list.           *)
(***************************************************************************)
EXTENDS WatchViewProps, SequenceTheorems, FiniteSetTheorems, TLAPS

USE DEF Gens, Origins

-----------------------------------------------------------------------------
(* The store's operators keep its type.                                    *)

\* An emptied store is well typed.
LEMMA ClearType == Clear \in StoreType
  BY DEF Clear, Unpartitioned, StoreType, NoRows, Rows

\* So is one seeded with a snapshot.
LEMMA SeedType == ASSUME NEW rows \in Rows PROVE Seed(rows) \in StoreType
  BY DEF Seed, Unpartitioned, StoreType, NoRows, Rows

\* Starting a relist keeps the store well typed.
LEMMA BeginResetType == ASSUME NEW s \in StoreType PROVE BeginReset(s) \in StoreType
  BY DEF BeginReset, StoreType, NoRows, Rows, KeysOf

\* Ending one keeps it too.
LEMMA FinishSyncType == ASSUME NEW s \in StoreType PROVE FinishSync(s) \in StoreType
  BY DEF FinishSync, StoreType, NoRows, Rows

\* Storing a row, or its absence, in whichever of the three maps applies.
LEMMA SetRowType ==
  ASSUME NEW s \in StoreType, NEW p, NEW k \in Keys, NEW row \in Objects \cup {NoObj}
  PROVE  SetRow(s, p, k, row) \in StoreType
<1>1. CASE p \in s.nsBuffering
  <2>1. p \in Partitions
    BY <1>1 DEF StoreType
  <2>2. [s.nsPending EXCEPT ![p][k] = row] \in [Partitions -> Rows]
    BY <2>1 DEF StoreType, Rows
  <2> QED
    BY <1>1, <2>2 DEF SetRow, StoreType
<1>2. CASE p \notin s.nsBuffering
  BY <1>2 DEF SetRow, StoreType, Rows
<1> QED
  BY <1>1, <1>2

\* An applied row.
LEMMA ApplyType ==
  ASSUME NEW s \in StoreType, NEW k \in Keys, NEW o \in Objects
  PROVE  Apply(s, k, o) \in StoreType
<1> DEFINE p == Home[k]
<1>1. SetRow(s, p, k, o) \in StoreType
  BY SetRowType
<1>2. CASE p \in s.parts
  <2>1. p \in Partitions
    BY <1>2 DEF StoreType
  <2> QED
    BY <1>1, <2>1 DEF Apply, ApplyIn, StoreType
<1>3. CASE p \notin s.parts
  BY <1>1, <1>3 DEF Apply, ApplyIn
<1> QED
  BY <1>2, <1>3

\* A removed row.
LEMMA RemoveType ==
  ASSUME NEW s \in StoreType, NEW k \in Keys
  PROVE  Remove(s, k) \in StoreType
<1> DEFINE p == Home[k]
<1>1. SetRow(s, p, k, NoObj) \in StoreType
  BY SetRowType
<1>2. CASE p \in s.parts
  <2>1. p \in Partitions
    BY <1>2 DEF StoreType
  <2> QED
    BY <1>1, <2>1 DEF Remove, RemoveIn, StoreType
<1>3. CASE p \notin s.parts
  BY <1>1, <1>3 DEF Remove, RemoveIn
<1> QED
  BY <1>2, <1>3

-----------------------------------------------------------------------------
(* ... and bring in no row but the one applied.                            *)

StoreFrom(s, c, v) == RowsFrom(s.items, c, v) /\ RowsFrom(s.pending, c, v)

\* No row at all is from anywhere.
LEMMA NoRowsFrom == \A c, v : RowsFrom(NoRows, c, v)
  BY DEF RowsFrom, NoRows

\* An emptied store holds nothing foreign.
LEMMA ClearFrom == \A c, v : StoreFrom(Clear, c, v)
  BY NoRowsFrom DEF StoreFrom, Clear, Unpartitioned

\* A seeded one holds what the snapshot held.
LEMMA SeedFrom ==
  ASSUME NEW rows, NEW c, NEW v, RowsFrom(rows, c, v)
  PROVE  StoreFrom(Seed(rows), c, v)
  BY NoRowsFrom DEF StoreFrom, Seed, Unpartitioned

\* A relist that starts, and one that ends, add no row.
LEMMA SyncFrom ==
  ASSUME NEW s \in StoreType, NEW c, NEW v, StoreFrom(s, c, v)
  PROVE  StoreFrom(BeginReset(s), c, v) /\ StoreFrom(FinishSync(s), c, v)
<1>1. /\ BeginReset(s).items = s.items /\ BeginReset(s).pending = NoRows
      /\ FinishSync(s).items \in {s.items, s.pending} /\ FinishSync(s).pending = NoRows
  BY DEF BeginReset, FinishSync, StoreType
<1> QED
  BY <1>1, NoRowsFrom DEF StoreFrom

\* Setting a row adds that row only.
LEMMA SetRowFrom ==
  ASSUME NEW s \in StoreType, NEW p, NEW k \in Keys, NEW row \in Objects \cup {NoObj},
         NEW c, NEW v, StoreFrom(s, c, v), row # NoObj => Source[row] = <<c, v>>
  PROVE  StoreFrom(SetRow(s, p, k, row), c, v)
<1>1. /\ SetRow(s, p, k, row).items \in {s.items, [s.items EXCEPT ![k] = row]}
      /\ SetRow(s, p, k, row).pending \in {s.pending, [s.pending EXCEPT ![k] = row]}
  BY DEF SetRow, StoreType
<1>2. \A rows \in Rows : RowsFrom(rows, c, v) => RowsFrom([rows EXCEPT ![k] = row], c, v)
  BY DEF RowsFrom, Rows
<1>3. s.items \in Rows /\ s.pending \in Rows
  BY DEF StoreType
<1> QED
  BY <1>1, <1>2, <1>3 DEF StoreFrom

\* So applying a row of the view, and removing one, keep the store free of others.
LEMMA RowFrom ==
  ASSUME NEW s \in StoreType, NEW k \in Keys, NEW c, NEW v, StoreFrom(s, c, v)
  PROVE  /\ \A o \in Objects : Source[o] = <<c, v>> => StoreFrom(Apply(s, k, o), c, v)
         /\ StoreFrom(Remove(s, k), c, v)
<1>1. ASSUME NEW row \in Objects \cup {NoObj}, NEW ks
      PROVE  LET t == SetRow(s, Home[k], k, row)
             IN /\ [t EXCEPT !.nsKeys[Home[k]] = ks].items = t.items
                /\ [t EXCEPT !.nsKeys[Home[k]] = ks].pending = t.pending
  BY SetRowType DEF StoreType
<1>2. \A row \in Objects \cup {NoObj} :
        (row # NoObj => Source[row] = <<c, v>>) => StoreFrom(SetRow(s, Home[k], k, row), c, v)
  BY SetRowFrom
<1>3. ASSUME NEW o \in Objects, Source[o] = <<c, v>> PROVE StoreFrom(Apply(s, k, o), c, v)
  BY <1>1, <1>2, <1>3 DEF Apply, ApplyIn, StoreFrom
<1>4. StoreFrom(Remove(s, k), c, v)
  BY <1>1, <1>2 DEF Remove, RemoveIn, StoreFrom
<1> QED
  BY <1>3, <1>4

-----------------------------------------------------------------------------
(* The view cache.                                                         *)

\* A piece of a sequence of views is one.
LEMMA SubSeqType ==
  ASSUME NEW o \in Seq(Views), NEW m \in Nat \ {0}, NEW n \in Nat, n <= Len(o)
  PROVE  SubSeq(o, m, n) \in Seq(Views)
<1>1. \A i \in m .. n : o[i] \in Views
  BY ElementOfSeq, LenProperties
<1> QED
  BY <1>1, SubSeqProperties

\* Dropping a view from the eviction order leaves a sequence of views.
LEMMA WithoutType ==
  ASSUME NEW o \in Seq(Views), NEW v PROVE Without(o, v) \in Seq(Views)
<1>1. CASE \A i \in 1 .. Len(o) : o[i] # v
  BY <1>1 DEF Without
<1>2. CASE ~(\A i \in 1 .. Len(o) : o[i] # v)
  <2> DEFINE i == CHOOSE i \in 1 .. Len(o) : o[i] = v
  <2>1. i \in 1 .. Len(o)
    BY <1>2
  <2>2. Len(o) \in Nat
    BY LenProperties
  <2>3. SubSeq(o, 1, i - 1) \in Seq(Views) /\ SubSeq(o, i + 1, Len(o)) \in Seq(Views)
    <3> HIDE DEF i
    <3> QED
      BY <2>1, <2>2, SubSeqType
  <2>4. SubSeq(o, 1, i - 1) \o SubSeq(o, i + 1, Len(o)) \in Seq(Views)
    BY <2>3, ConcatProperties
  <2> QED
    BY <1>2, <2>4 DEF Without
<1> QED
  BY <1>1, <1>2

\* The number of evictions is a number: eviction stops.
LEMMA EvictionsType ==
  ASSUME NEW c, NEW o \in Seq(Views) PROVE Evictions(c, o) \in Nat
<1>1. Len(o) \in Nat
  BY LenProperties
<1>2. IsFiniteSet(0 .. Len(o))
  BY <1>1, FS_Interval
<1> DEFINE leading == {n \in 0 .. Len(o) : \A m \in 0 .. n : ~Fits(c, SubSeq(o, m + 1, Len(o)))}
<1>3. IsFiniteSet(leading)
  BY <1>2, FS_Subset
<1> QED
  BY <1>3, FS_CardinalityType DEF Evictions

\* Stashing files the visible rows under the view they belong to.
LEMMA StashKeeps ==
  ASSUME IsolationInv, StashViewSnapshot
  PROVE  /\ cache' \in [Views -> Rows] /\ order' \in Seq(Views)
         /\ \A v \in Views : RowsFrom(cache'[v], ctx, v)
<1> USE DEF IsolationInv
<1>1. store.items \in Rows
  BY DEF TypeOK, StoreType
<1>2. StashedCache \in [Views -> Rows]
  BY <1>1 DEF StashedCache, TypeOK
<1>3. NoRows \in Rows
  BY DEF NoRows, Rows
<1>4. cache' \in [Views -> Rows]
  BY <1>2, <1>3 DEF StashViewSnapshot
<1>5. ASSUME NEW v \in Views PROVE RowsFrom(StashedCache[v], ctx, v)
  <2>1. RowsFrom(cache[v], ctx, v)
    BY DEF NoForeignSnapshots
  <2>2. ASSUME Stashes, v = watchKey PROVE RowsFrom(store.items, ctx, v)
    BY <2>2 DEF Stashes, GenerationInv, NoForeignRows
  <2> QED
    BY <2>1, <2>2 DEF StashedCache, TypeOK
<1>6. ASSUME NEW v \in Views PROVE RowsFrom(cache'[v], ctx, v)
  BY <1>5, NoRowsFrom DEF StashViewSnapshot
<1>7. StashedOrder \in Seq(Views)
  <2>1. order \in Seq(Views)
    BY DEF TypeOK
  <2>2. CASE Stashes
    <3>1. Without(order, watchKey) \in Seq(Views) /\ watchKey \in Views
      BY <2>1, <2>2, WithoutType DEF Stashes
    <3> QED
      BY <2>2, <3>1, AppendProperties DEF StashedOrder
  <2>3. CASE ~Stashes
    BY <2>1, <2>3 DEF StashedOrder
  <2> QED
    BY <2>2, <2>3
<1>8. order' \in Seq(Views)
  <2> DEFINE n == IF Stashes THEN Evictions(StashedCache, StashedOrder) ELSE 0
  <2>1. n \in Nat
    BY <1>7, EvictionsType
  <2>2. Len(StashedOrder) \in Nat
    BY <1>7, LenProperties
  <2>3. SubSeq(StashedOrder, n + 1, Len(StashedOrder)) \in Seq(Views)
    <3> HIDE DEF n
    <3> QED
      BY <1>7, <2>1, <2>2, SubSeqType
  <2> QED
    BY <2>3 DEF StashViewSnapshot
<1> QED
  BY <1>4, <1>6, <1>8

-----------------------------------------------------------------------------
(* The channel.                                                            *)

\* Taking the head leaves messages that were there, and the head was the first.
LEMMA ReceiveKeeps ==
  ASSUME chan \in Seq(MsgType), Receive
  PROVE  /\ chan' \in Seq(MsgType)
         /\ 1 \in DOMAIN chan /\ msgHead = chan[1] /\ msgHead \in MsgType
         /\ \A i \in DOMAIN chan' : i + 1 \in DOMAIN chan /\ chan'[i] = chan[i + 1]
<1>1. chan # <<>> /\ chan' = Tail(chan)
  BY DEF Receive
<1>2. Len(chan) \in Nat \ {0} /\ DOMAIN chan = 1 .. Len(chan)
  BY <1>1, EmptySeq, LenProperties
<1>3. /\ Tail(chan) \in Seq(MsgType) /\ Len(Tail(chan)) = Len(chan) - 1
      /\ \A i \in 1 .. Len(Tail(chan)) : Tail(chan)[i] = chan[i + 1]
      /\ Head(chan) \in MsgType
  BY <1>1, HeadTailProperties
<1>4. DOMAIN Tail(chan) = 1 .. Len(Tail(chan))
  BY <1>3, LenProperties
<1>5. msgHead = chan[1]
  BY DEF msgHead
<1> QED
  BY <1>1, <1>2, <1>3, <1>4, <1>5 DEF msgHead

\* A new generation: every message in flight belongs to an older one.
LEMMA NewGeneration ==
  ASSUME IsolationInv, generation' \in Gens, generation' > generation,
         chan' = chan \/ Receive
  PROVE  /\ chan' \in Seq(MsgType)
         /\ \A i \in DOMAIN chan' :
              /\ chan'[i].gen < generation'
              /\ chan'[i].type \in {"Connected", "NeedsInput"} => chan'[i].ctx \in Contexts
<1>1. chan \in Seq(MsgType) /\ generation \in Gens
  BY DEF IsolationInv, TypeOK
<1>2. \A i \in DOMAIN chan :
        /\ chan[i].gen <= generation /\ chan[i].gen \in Nat
        /\ chan[i].type \in {"Connected", "NeedsInput"} => chan[i].ctx \in Contexts
  <2>1. \A i \in DOMAIN chan : chan[i] \in MsgType
    BY <1>1, ElementOfSeq, LenProperties
  <2> QED
    BY <2>1 DEF IsolationInv, GenerationInv, MsgType
<1>3. generation \in Nat /\ generation' \in Nat
  BY <1>1
<1>4. CASE chan' = chan
  BY <1>1, <1>2, <1>3, <1>4
<1>5. CASE Receive
  BY <1>1, <1>2, <1>3, <1>5, ReceiveKeeps
<1> QED
  BY <1>4, <1>5

-----------------------------------------------------------------------------
(* The initial state and the steps, one lemma per action that disturbs the *)
(* invariant.                                                              *)

\* Launch shows one table, running its own watch.
LEMMA InitIsolation == ASSUME Init PROVE IsolationInv
<1> USE WatchViewAssumption DEF Init
<1>1. TypeOK
  <2>1. store \in StoreType
    BY ClearType
  <2>2. worker \in [Gens -> WorkerType]
    BY DEF WorkerType, Watching, Idle
  <2>3. cache \in [Views -> Rows]
    BY DEF NoRows, Rows
  <2>4. chan \in Seq(MsgType) /\ order \in Seq(Views)
    BY EmptySeq
  <2>5. generation \in Gens /\ ctx \in Contexts /\ view \in Views /\ watchKey \in Views
    OBVIOUS
  <2>6. /\ switchTarget \in [gen : Gens \cup {0}, ctx : Contexts \cup {NoContext}]
        /\ pending = NoDest /\ auth = NoContext
    BY DEF NoSwitch
  <2> HIDE DEF Init
  <2> QED
    BY <2>1, <2>2, <2>3, <2>4, <2>5, <2>6 DEF TypeOK
<1>2. NoForeignRows /\ NoForeignSnapshots
  BY ClearFrom, NoRowsFrom DEF NoForeignRows, NoForeignSnapshots, StoreFrom
<1>3. GenerationInv
  BY DEF GenerationInv, Watching, Idle
<1> QED
  BY <1>1, <1>2, <1>3 DEF IsolationInv

\* Starting a watch for view v of context c, over rows that are v's.
LEMMA StartWatchIsolation ==
  ASSUME IsolationInv, NEW c \in Contexts, NEW v \in Views, NEW gen \in Nat,
         StartWatch(c, v, gen), gen > generation, ctx' = c,
         chan' = chan \/ Receive, auth' \in Contexts \cup {NoContext},
         cache' \in [Views -> Rows], order' \in Seq(Views),
         \A w \in Views : RowsFrom(cache'[w], c, w)
  PROVE  IsolationInv'
<1> USE WatchViewAssumption
<1>0. generation \in Gens /\ worker \in [Gens -> WorkerType]
  BY DEF IsolationInv, TypeOK
<1>1. generation' = gen /\ gen \in Gens /\ generation \in Nat
  BY <1>0 DEF StartWatch
<1>2. /\ chan' \in Seq(MsgType)
      /\ \A i \in DOMAIN chan' :
           /\ chan'[i].gen < gen
           /\ chan'[i].type \in {"Connected", "NeedsInput"} => chan'[i].ctx \in Contexts
  BY <1>1, NewGeneration
<1>3. store' \in StoreType /\ StoreFrom(store', c, v)
  BY ClearType, SeedType, ClearFrom, SeedFrom DEF StartWatch
<1>4. worker' = [worker EXCEPT ![gen] = Watching(c, v)] /\ Watching(c, v) \in WorkerType
  BY DEF StartWatch, Watching, WorkerType
<1>5. TypeOK'
  <2>1. pending' \in {NoDest} \cup [ctx : Contexts, view : Views]
    BY DEF StartWatch, IsolationInv, TypeOK
  <2>2. switchTarget' \in [gen : Gens \cup {0}, ctx : Contexts \cup {NoContext}]
    BY DEF StartWatch, NoSwitch
  <2>3. worker' \in [Gens -> WorkerType]
    BY <1>0, <1>4
  <2>4. view' \in Views /\ watchKey' \in Views
    BY DEF StartWatch
  <2> QED
    BY <1>1, <1>2, <1>3, <2>1, <2>2, <2>3, <2>4 DEF TypeOK
<1>6. NoForeignRows' /\ NoForeignSnapshots'
  BY <1>3 DEF NoForeignRows, NoForeignSnapshots, StoreFrom, StartWatch
<1>7. GenerationInv'
  <2>1. worker'[gen] = Watching(c, v) /\ \A g \in Gens \ {gen} : worker'[g] = worker[g]
    BY <1>0, <1>1, <1>4
  <2>2. \A g \in Gens : g > gen => worker'[g].kind = "idle"
    BY <1>1, <2>1 DEF IsolationInv, GenerationInv
  <2>3. \A g \in Gens : worker'[g].kind = "connect" => worker'[g].ctx \in Contexts
    BY <2>1 DEF IsolationInv, GenerationInv, Watching
  <2>4. \A i \in DOMAIN chan' : chan'[i].gen <= gen /\ chan'[i].gen # gen
    <3>1. \A i \in DOMAIN chan' : chan'[i] \in MsgType
      BY <1>2, ElementOfSeq, LenProperties
    <3> QED
      BY <1>2, <3>1 DEF MsgType
  <2> QED
    BY <1>1, <1>2, <2>1, <2>2, <2>3, <2>4 DEF GenerationInv, StartWatch, Watching
<1> QED
  BY <1>5, <1>6, <1>7 DEF IsolationInv

\* A generation without a watch: the connection of a switch, or nothing at all.
LEMMA QuietGenerationIsolation ==
  ASSUME IsolationInv, generation' = generation + 1, generation' \in Gens,
         chan' = chan \/ Receive, NEW w \in WorkerType,
         worker' \in {worker, [worker EXCEPT ![generation'] = w]},
         w.kind = "connect", w.ctx \in Contexts,
         NEW c \in Contexts, NEW v \in Views \cup {NoView}, ctx' = c, view' = v,
         store' \in StoreType, StoreFrom(store', c, v),
         worker' # worker => KeysOf(store'.items) = {} /\ KeysOf(store'.pending) = {},
         watchKey' \in {v, NoView},
         cache' \in [Views -> Rows], order' \in Seq(Views),
         \A u \in Views : RowsFrom(cache'[u], c, u),
         switchTarget' \in [gen : Gens \cup {0}, ctx : Contexts \cup {NoContext}],
         pending' \in {NoDest} \cup [ctx : Contexts, view : Views],
         auth' \in Contexts \cup {NoContext}
  PROVE  IsolationInv'
<1> USE WatchViewAssumption
<1>0. generation \in Gens /\ worker \in [Gens -> WorkerType] /\ generation \in Nat
  BY DEF IsolationInv, TypeOK
<1>1. /\ chan' \in Seq(MsgType)
      /\ \A i \in DOMAIN chan' :
           /\ chan'[i].gen < generation'
           /\ chan'[i].type \in {"Connected", "NeedsInput"} => chan'[i].ctx \in Contexts
  BY <1>0, NewGeneration
<1>2. worker' \in [Gens -> WorkerType]
  BY <1>0
<1>3. TypeOK'
  BY <1>1, <1>2 DEF TypeOK
<1>4. NoForeignRows' /\ NoForeignSnapshots'
  BY DEF NoForeignRows, NoForeignSnapshots, StoreFrom
<1>5. GenerationInv'
  <2>1. \A g \in Gens : g > generation => worker[g].kind = "idle"
    BY DEF IsolationInv, GenerationInv
  <2>2. ASSUME NEW g \in Gens, g > generation' PROVE worker'[g].kind = "idle"
    <3>1. g > generation /\ g # generation'
      BY <1>0, <2>2
    <3>2. worker'[g] = worker[g]
      BY <1>0, <3>1
    <3> QED
      BY <2>1, <3>1, <3>2
  <2>3. \A g \in Gens : worker'[g].kind = "connect" => worker'[g].ctx \in Contexts
    BY <1>0 DEF IsolationInv, GenerationInv
  <2>4. worker'[generation'] \in {w, worker[generation']} /\ worker[generation'].kind = "idle"
    BY <1>0, <2>1
  <2>5. /\ worker'[generation'].kind # "watch"
        /\ worker'[generation'].kind = "connect" => worker' # worker
    BY <2>4
  <2>6. \A i \in DOMAIN chan' : chan'[i].gen <= generation' /\ chan'[i].gen # generation'
    <3>1. \A i \in DOMAIN chan' : chan'[i] \in MsgType
      BY <1>1, ElementOfSeq, LenProperties
    <3> QED
      BY <1>0, <1>1, <3>1 DEF MsgType
  <2> QED
    BY <1>1, <2>2, <2>3, <2>5, <2>6 DEF GenerationInv
<1> QED
  BY <1>3, <1>4, <1>5 DEF IsolationInv

\* Navigation and restarts.
LEMMA OpenViewIsolation ==
  ASSUME IsolationInv, NEW v \in Views, OpenView(v) PROVE IsolationInv'
<1>1. /\ StashViewSnapshot /\ StartWatch(ctx, v, generation + 1)
      /\ ctx' = ctx /\ chan' = chan /\ auth' \in {auth, NoContext}
  BY DEF OpenView
<1>2. ctx \in Contexts /\ generation \in Nat /\ auth' \in Contexts \cup {NoContext}
  BY <1>1 DEF IsolationInv, TypeOK
<1> QED
  BY <1>1, <1>2, StashKeeps, StartWatchIsolation

\* A dashboard keeps the stored rows; the fleet table stashes them.
LEMMA DashboardIsolation ==
  ASSUME IsolationInv, OpenDashboard \/ OpenFleet PROVE IsolationInv'
<1> USE WatchViewAssumption
<1>0. TypeOK /\ generation + 1 \in Gens /\ Contexts # {}
  BY DEF IsolationInv, TypeOK, OpenDashboard, OpenFleet
<1> DEFINE w == [kind |-> "connect", ctx |-> ctx, view |-> NoView, phase |-> "start", sent |-> {}]
<1>1. w \in WorkerType /\ w.kind = "connect" /\ w.ctx \in Contexts
  BY <1>0 DEF WorkerType, TypeOK
<1>2. CASE OpenDashboard
  <2>1. StoreFrom(store, ctx, view) /\ \A u \in Views : RowsFrom(cache[u], ctx, u)
    BY DEF IsolationInv, NoForeignRows, NoForeignSnapshots, StoreFrom
  <2>2. watchKey \in {view, NoView}
    BY <1>0 DEF IsolationInv, GenerationInv, TypeOK
  <2> HIDE DEF w
  <2> QED
    BY <1>0, <1>1, <1>2, <2>1, <2>2, QuietGenerationIsolation DEF OpenDashboard, TypeOK, table
<1>3. CASE OpenFleet
  <2>1. /\ cache' \in [Views -> Rows] /\ order' \in Seq(Views)
        /\ \A u \in Views : RowsFrom(cache'[u], ctx, u)
    BY <1>3, StashKeeps DEF OpenFleet
  <2>2. store' \in StoreType /\ StoreFrom(store', ctx, view)
    BY <1>3, ClearType, ClearFrom DEF OpenFleet
  <2> HIDE DEF w
  <2> QED
    BY <1>0, <1>1, <1>3, <2>1, <2>2, QuietGenerationIsolation DEF OpenFleet, TypeOK
<1> QED
  BY <1>2, <1>3

\* Starting to connect: the table is emptied, so it is nobody's.
LEMMA ConnectIsolation ==
  ASSUME IsolationInv, NEW c \in Contexts, NEW dest \in {NoDest} \cup [ctx : Contexts, view : Views],
         Connect(c, dest), auth' \in Contexts \cup {NoContext}
  PROVE  IsolationInv'
<1> USE WatchViewAssumption
<1>0. TypeOK /\ generation + 1 \in Gens
  BY DEF IsolationInv, TypeOK, Connect
<1>1. Connecting(c) \in WorkerType /\ Connecting(c).kind = "connect" /\ Connecting(c).ctx \in Contexts
  BY DEF Connecting, WorkerType
<1>2. /\ cache' \in [Views -> Rows] /\ order' \in Seq(Views)
      /\ \A u \in Views : RowsFrom(cache'[u], ctx, u)
  BY StashKeeps DEF Connect
<1>3. /\ store' \in StoreType /\ StoreFrom(store', ctx, view)
      /\ KeysOf(store'.items) = {} /\ KeysOf(store'.pending) = {}
  BY ClearType, ClearFrom DEF Connect, Clear, Unpartitioned, KeysOf, NoRows
<1>4. switchTarget' \in [gen : Gens \cup {0}, ctx : Contexts \cup {NoContext}]
  BY <1>0 DEF Connect
<1> QED
  BY <1>0, <1>1, <1>2, <1>3, <1>4, QuietGenerationIsolation DEF Connect, TypeOK

\* A step that leaves the generation, its view, the cache and the channel alone.
LEMMA SlotsIsolation ==
  ASSUME IsolationInv,
         UNCHANGED <<ctx, view, generation, worker, chan, table>>,
         switchTarget' \in [gen : Gens \cup {0}, ctx : Contexts \cup {NoContext}],
         pending' \in {NoDest} \cup [ctx : Contexts, view : Views],
         auth' \in Contexts \cup {NoContext}
  PROVE  IsolationInv'
  BY DEF IsolationInv, TypeOK, NoForeignRows, NoForeignSnapshots, GenerationInv,
         CurrentMessage, table

\* Handling a message of the current generation, or dropping an old one, without a
\* change of view.
LEMMA HandleIsolation ==
  ASSUME IsolationInv, Receive,
         UNCHANGED <<ctx, view, generation, worker, watchKey, cache, order>>,
         store' \in StoreType, StoreFrom(store', ctx, view),
         worker[generation].kind = "connect" => store' = store,
         switchTarget' \in [gen : Gens \cup {0}, ctx : Contexts \cup {NoContext}],
         pending' \in {NoDest} \cup [ctx : Contexts, view : Views],
         auth' \in Contexts \cup {NoContext}
  PROVE  IsolationInv'
<1>1. /\ chan' \in Seq(MsgType)
      /\ \A i \in DOMAIN chan' : i + 1 \in DOMAIN chan /\ chan'[i] = chan[i + 1]
  BY ReceiveKeeps DEF IsolationInv, TypeOK
<1>2. TypeOK'
  BY <1>1 DEF IsolationInv, TypeOK
<1>3. NoForeignRows' /\ NoForeignSnapshots'
  BY DEF IsolationInv, NoForeignRows, NoForeignSnapshots, StoreFrom
<1>4. GenerationInv'
  <2>1. GenerationInv
    BY DEF IsolationInv
  <2>2. \A i \in DOMAIN chan' :
          /\ chan'[i].gen <= generation
          /\ chan'[i].type \in {"Connected", "NeedsInput"} => chan'[i].ctx \in Contexts
          /\ chan'[i].gen = generation => CurrentMessage(chan'[i])
    BY <1>1, <2>1 DEF GenerationInv
  <2>3. \A m : CurrentMessage(m) => CurrentMessage(m)'
    BY DEF CurrentMessage
  <2>4. worker[generation].kind = "connect" =>
          KeysOf(store'.items) = {} /\ KeysOf(store'.pending) = {}
    BY <2>1 DEF GenerationInv
  <2> QED
    BY <2>1, <2>2, <2>3, <2>4 DEF GenerationInv, CurrentMessage
<1> QED
  BY <1>2, <1>3, <1>4 DEF IsolationInv

\* A row message of the current generation carries a row of the table shown.
LEMMA HandleRowIsolation ==
  ASSUME IsolationInv, HandleRow PROVE IsolationInv'
<1>0. TypeOK /\ Receive
  BY DEF IsolationInv, HandleRow
<1>1. 1 \in DOMAIN chan /\ msgHead = chan[1] /\ msgHead \in MsgType
  BY <1>0, ReceiveKeeps DEF TypeOK
<1>2. CurrentMessage(msgHead) /\ msgHead.type \in RowTypes
  BY <1>1 DEF HandleRow, Current, IsolationInv, GenerationInv, RowTypes
<1>3. StoreFrom(store, ctx, view) /\ store \in StoreType /\ msgHead.key \in Keys
  BY <1>1 DEF IsolationInv, TypeOK, NoForeignRows, StoreFrom, MsgType
<1>4. FoldRow(store, msgHead) \in StoreType /\ StoreFrom(FoldRow(store, msgHead), ctx, view)
  <2>1. CASE msgHead.type = "Reset"
    BY <1>3, <2>1, BeginResetType, SyncFrom DEF FoldRow
  <2>2. CASE msgHead.type = "Applied"
    BY <1>2, <1>3, <2>2, ApplyType, RowFrom DEF FoldRow, CurrentMessage
  <2>3. CASE msgHead.type = "Deleted"
    BY <1>3, <2>3, RemoveType, RowFrom DEF FoldRow
  <2>4. CASE msgHead.type = "Synced"
    BY <1>3, <2>4, FinishSyncType, SyncFrom DEF FoldRow
  <2> QED
    BY <1>2, <2>1, <2>2, <2>3, <2>4 DEF RowTypes
<1>5. worker[generation].kind = "watch"
  BY <1>2 DEF CurrentMessage
<1> QED
  BY <1>0, <1>4, <1>5, HandleIsolation DEF HandleRow, TypeOK

\* A connection that lands or fails.
LEMMA HandleSwitchIsolation ==
  ASSUME IsolationInv, HandleConnected \/ HandleConnectedNowhere \/ HandleConnectFailed
  PROVE  IsolationInv'
<1> USE WatchViewAssumption
<1>0. TypeOK /\ Receive /\ Current
  BY DEF IsolationInv, HandleConnected, HandleConnectedNowhere, HandleConnectFailed
<1>1. 1 \in DOMAIN chan /\ msgHead = chan[1] /\ msgHead \in MsgType
  BY <1>0, ReceiveKeeps DEF TypeOK
<1>2. /\ CurrentMessage(msgHead)
      /\ msgHead.type \in {"Connected", "NeedsInput"} => msgHead.ctx \in Contexts
  BY <1>0, <1>1 DEF Current, IsolationInv, GenerationInv
<1>3. NoRows \in Rows /\ \A v, c : RowsFrom(NoRows, c, v)
  BY NoRowsFrom DEF NoRows, Rows
<1>4. generation \in Nat /\ <<>> \in Seq(Views)
  BY <1>0, EmptySeq DEF TypeOK
<1>5. CASE HandleConnected
  <2>0. PICK v \in LandingViews : StartWatch(msgHead.ctx, v, generation + 2)
    BY <1>5 DEF HandleConnected
  <2>1. v \in Views /\ msgHead.ctx \in Contexts
    BY <1>0, <1>2, <1>5, <2>0 DEF TypeOK, HandleConnected, LandingViews
  <2>2. /\ cache' \in [Views -> Rows] /\ order' \in Seq(Views)
        /\ \A u \in Views : RowsFrom(cache'[u], msgHead.ctx, u)
    BY <1>3, <1>4, <1>5 DEF HandleConnected
  <2>3. StartWatch(msgHead.ctx, v, generation + 2) /\ ctx' = msgHead.ctx /\ auth' = auth
    BY <1>5, <2>0 DEF HandleConnected
  <2>4. generation + 2 \in Nat /\ generation + 2 > generation
    BY <1>4
  <2>5. auth' \in Contexts \cup {NoContext}
    BY <1>0, <2>3 DEF TypeOK
  <2> QED
    BY <1>0, <2>1, <2>2, <2>3, <2>4, <2>5, StartWatchIsolation
<1>6. CASE HandleConnectedNowhere
  <2>1. worker[generation].kind = "connect" /\ msgHead.ctx \in Contexts
    BY <1>2, <1>6 DEF HandleConnectedNowhere, CurrentMessage
  <2>2. KeysOf(store.items) = {} /\ KeysOf(store.pending) = {}
    BY <2>1 DEF IsolationInv, GenerationInv
  <2>3. StoreFrom(store, msgHead.ctx, NoView)
    BY <2>2 DEF StoreFrom, RowsFrom, KeysOf
  <2>4. Connecting(msgHead.ctx) \in WorkerType /\ Connecting(msgHead.ctx).kind = "connect"
        /\ Connecting(msgHead.ctx).ctx \in Contexts
    BY <2>1 DEF Connecting, WorkerType
  <2>5. /\ cache' \in [Views -> Rows] /\ order' \in Seq(Views)
        /\ \A u \in Views : RowsFrom(cache'[u], msgHead.ctx, u)
    BY <1>3, <1>4, <1>6 DEF HandleConnectedNowhere
  <2>6. generation' = generation + 1 /\ generation' \in Gens
    BY <1>0, <1>4, <1>6 DEF HandleConnectedNowhere, TypeOK
  <2>7. /\ switchTarget' \in [gen : Gens \cup {0}, ctx : Contexts \cup {NoContext}]
        /\ pending' = NoDest /\ auth' \in Contexts \cup {NoContext}
    BY <1>0, <1>6 DEF HandleConnectedNowhere, NoSwitch, TypeOK
  <2> QED
    BY <1>0, <1>6, <2>1, <2>2, <2>3, <2>4, <2>5, <2>6, <2>7, QuietGenerationIsolation
       DEF HandleConnectedNowhere, TypeOK
<1>7. CASE HandleConnectFailed
  <2>1. StoreFrom(store, ctx, view) /\ store \in StoreType
    BY DEF IsolationInv, TypeOK, NoForeignRows, StoreFrom
  <2>2. auth' \in Contexts \cup {NoContext}
    BY <1>0, <1>2, <1>7 DEF HandleConnectFailed, TypeOK
  <2>3. pending' \in {NoDest} \cup [ctx : Contexts, view : Views]
    BY <1>0, <1>7 DEF HandleConnectFailed, TypeOK
  <2>4. switchTarget' \in [gen : Gens \cup {0}, ctx : Contexts \cup {NoContext}]
    BY <1>7 DEF HandleConnectFailed, NoSwitch
  <2> QED
    BY <1>0, <1>7, <2>1, <2>2, <2>3, <2>4, HandleIsolation DEF HandleConnectFailed, table
<1> QED
  BY <1>5, <1>6, <1>7

\* A task adds a message of its own generation, with rows of its own origin.
LEMMA SendIsolation ==
  ASSUME IsolationInv, NEW g \in Gens, NEW msg \in MsgType, msg.gen = g,
         NEW phase \in {"start", "list", "live", "done"}, NEW sent \in SUBSET Keys,
         Sends(g, msg, phase, sent), worker[g].kind # "idle",
         msg.type \in {"Connected", "NeedsInput"} => msg.ctx \in Contexts,
         msg.type \in RowTypes => worker[g].kind = "watch",
         msg.type = "Connected" => worker[g].kind = "connect",
         msg.type = "Applied" =>
           msg.obj \in Objects /\ Source[msg.obj] = <<worker[g].ctx, worker[g].view>>
  PROVE  IsolationInv'
<1>0. TypeOK /\ GenerationInv
  BY DEF IsolationInv
<1>1. /\ chan' \in Seq(MsgType)
      /\ \A i \in DOMAIN chan' : chan'[i] = msg \/ (i \in DOMAIN chan /\ chan'[i] = chan[i])
  <2>1. chan \in Seq(MsgType) /\ chan' = Append(chan, msg)
    BY <1>0 DEF TypeOK, Sends
  <2>2. Len(chan) \in Nat /\ DOMAIN chan = 1 .. Len(chan)
    BY <2>1, LenProperties
  <2>3. /\ chan' \in Seq(MsgType) /\ Len(chan') = Len(chan) + 1
        /\ \A i \in 1 .. Len(chan) : chan'[i] = chan[i]
        /\ chan'[Len(chan) + 1] = msg
    BY <2>1, AppendProperties
  <2>4. DOMAIN chan' = 1 .. Len(chan) + 1
    BY <2>3, LenProperties
  <2>5. ASSUME NEW i \in DOMAIN chan' PROVE chan'[i] = msg \/ (i \in DOMAIN chan /\ chan'[i] = chan[i])
    <3>1. CASE i \in 1 .. Len(chan)
      BY <2>2, <2>3, <3>1
    <3>2. ASSUME i = Len(chan) + 1 PROVE chan'[i] = msg
      <4>1. chan'[i] = chan'[Len(chan) + 1]
        BY <3>2
      <4>2. chan'[Len(chan) + 1] = msg
        BY <2>3
      <4> QED
        BY <4>1, <4>2
    <3> QED
      BY <2>2, <2>4, <3>1, <3>2
  <2> QED
    BY <2>3, <2>5
<1>2. /\ worker' \in [Gens -> WorkerType]
      /\ \A h \in Gens : /\ worker'[h].kind = worker[h].kind
                         /\ worker'[h].ctx = worker[h].ctx
                         /\ worker'[h].view = worker[h].view
  <2>1. worker \in [Gens -> WorkerType]
    BY <1>0 DEF TypeOK
  <2>2. worker' = [worker EXCEPT ![g] = [worker[g] EXCEPT !.phase = phase, !.sent = sent]]
    BY <2>1 DEF Sends
  <2>3. [worker[g] EXCEPT !.phase = phase, !.sent = sent] \in WorkerType
    <3>1. worker[g] \in WorkerType
      BY <2>1
    <3> QED
      BY <3>1 DEF WorkerType
  <2> QED
    BY <2>1, <2>2, <2>3 DEF WorkerType
<1>3. TypeOK'
  BY <1>0, <1>1, <1>2 DEF TypeOK, Sends, table
<1>4. NoForeignRows' /\ NoForeignSnapshots'
  BY DEF IsolationInv, NoForeignRows, NoForeignSnapshots, Sends, table
<1>5. GenerationInv'
  <2>1. g <= generation /\ generation \in Gens
    BY <1>0 DEF TypeOK, GenerationInv
  <2>2. msg.gen = generation => CurrentMessage(msg)
    BY <1>0, <2>1 DEF GenerationInv, CurrentMessage, RowTypes
  <2>4. generation' = generation /\ ctx' = ctx /\ view' = view /\ store' = store
        /\ watchKey' = watchKey
    BY DEF Sends, table
  <2>5. \A i \in DOMAIN chan' :
          /\ chan'[i].gen <= generation
          /\ chan'[i].type \in {"Connected", "NeedsInput"} => chan'[i].ctx \in Contexts
          /\ chan'[i].gen = generation => CurrentMessage(chan'[i])
    BY <1>0, <1>1, <2>1, <2>2 DEF GenerationInv
  <2>6. /\ \A h \in Gens : h > generation => worker'[h].kind = "idle"
        /\ \A h \in Gens : worker'[h].kind = "connect" => worker'[h].ctx \in Contexts
        /\ worker'[generation].kind = "watch" =>
             worker'[generation].ctx = ctx /\ worker'[generation].view = view
        /\ worker'[generation].kind = "connect" =>
             KeysOf(store.items) = {} /\ KeysOf(store.pending) = {}
    BY <1>0, <1>2, <2>1 DEF GenerationInv
  <2>7. watchKey \in Views => watchKey = view
    BY <1>0 DEF GenerationInv
  <2>8. \A m : CurrentMessage(m) =>
               /\ m.type \in RowTypes => worker'[generation].kind = "watch"
               /\ m.type = "Applied" => m.obj \in Objects /\ Source[m.obj] = <<ctx, view>>
               /\ m.type = "Connected" => worker'[generation].kind = "connect"
    BY <1>2, <2>1 DEF CurrentMessage
  <2> QED
    BY <2>4, <2>5, <2>6, <2>7, <2>8 DEF GenerationInv, CurrentMessage
<1> QED
  BY <1>3, <1>4, <1>5 DEF IsolationInv

\* Every message of every task is such a message.
LEMMA WorkerIsolation ==
  ASSUME IsolationInv, NEW g \in Gens, WorkerStep(g) PROVE IsolationInv'
<1> USE WatchViewAssumption
<1>0. NoKey \in Keys /\ worker[g] \in WorkerType
  BY DEF NoKey, IsolationInv, TypeOK
<1>1. CASE WatchResets(g)
  BY <1>0, <1>1, SendIsolation DEF WatchResets, Message, MsgType, RowTypes
<1>2. CASE WatchSyncs(g)
  BY <1>0, <1>2, SendIsolation DEF WatchSyncs, Message, MsgType, RowTypes
<1>3. ASSUME NEW k \in Keys, NEW o \in Objects, WatchApplies(g, k, o) PROVE IsolationInv'
  <2> DEFINE sent == IF worker[g].phase = "list" THEN worker[g].sent \cup {k} ELSE {}
             m == Message(g, "Applied", k, o)
  <2>1. sent \in SUBSET Keys
    BY <1>0 DEF WorkerType
  <2>2. m \in MsgType /\ m.gen = g /\ m.type = "Applied" /\ m.obj = o
    BY DEF Message, MsgType
  <2>3. /\ Sends(g, m, worker[g].phase, sent) /\ worker[g].kind = "watch"
        /\ worker[g].phase \in {"start", "list", "live", "done"}
        /\ Source[o] = <<worker[g].ctx, worker[g].view>>
    BY <1>3 DEF WatchApplies
  <2> HIDE DEF sent, m
  <2> QED
    BY <2>1, <2>2, <2>3, SendIsolation
<1>4. ASSUME NEW k \in Keys, WatchDeletes(g, k) PROVE IsolationInv'
  BY <1>0, <1>4, SendIsolation DEF WatchDeletes, Message, MsgType, RowTypes
<1>5. CASE ConnectReturns(g)
  <2>1. PICK outcome \in {"Connected", "ConnectFailed", "NeedsInput"} :
          Sends(g, Answer(g, outcome), "done", {})
    BY <1>5 DEF ConnectReturns
  <2>2. worker[g].kind = "connect" /\ worker[g].ctx \in Contexts
    BY <1>5 DEF ConnectReturns, IsolationInv, GenerationInv
  <2>3. Answer(g, outcome) \in MsgType
    BY <1>0, <2>2 DEF Answer, MsgType
  <2> QED
    BY <2>1, <2>2, <2>3, SendIsolation DEF Answer, RowTypes
<1> QED
  BY <1>1, <1>2, <1>3, <1>4, <1>5 DEF WorkerStep

\* No step breaks the invariant.
LEMMA StepIsolation == ASSUME IsolationInv, [Next]_vars PROVE IsolationInv'
<1> USE WatchViewAssumption
<1>0. /\ TypeOK /\ pending \in {NoDest} \cup [ctx : Contexts, view : Views]
      /\ switchTarget \in [gen : Gens \cup {0}, ctx : Contexts \cup {NoContext}]
      /\ auth \in Contexts \cup {NoContext}
  BY DEF IsolationInv, TypeOK
<1>1. ASSUME NEW v \in Views, OpenView(v) PROVE IsolationInv'
  BY <1>1, OpenViewIsolation
<1>2. CASE OpenDashboard \/ OpenFleet
  BY <1>2, DashboardIsolation
<1>3. ASSUME NEW c \in Contexts, NEW dest \in Dests(c), SwitchContext(c, dest)
      PROVE  IsolationInv'
  <2>1. dest \in {NoDest} \cup [ctx : Contexts, view : Views]
    BY DEF Dests
  <2> QED
    BY <1>0, <1>3, <2>1, ConnectIsolation DEF SwitchContext
<1>4. ASSUME NEW c \in Contexts, NEW dest \in Dests(c), RetargetSwitch(c, dest)
      PROVE  IsolationInv'
  <2>1. dest \in {NoDest} \cup [ctx : Contexts, view : Views]
    BY DEF Dests
  <2> QED
    BY <1>0, <1>4, <2>1, SlotsIsolation DEF RetargetSwitch
<1>5. CASE Authenticated
  BY <1>0, <1>5, ConnectIsolation DEF Authenticated
<1>6. CASE DeclineAuthentication
  BY <1>0, <1>6, SlotsIsolation DEF DeclineAuthentication
<1>7. ASSUME NEW g \in Gens, WorkerStep(g) PROVE IsolationInv'
  BY <1>7, WorkerIsolation
<1>8. CASE HandleStale
  <2>1. StoreFrom(store, ctx, view) /\ store \in StoreType
    BY DEF IsolationInv, TypeOK, NoForeignRows, StoreFrom
  <2> QED
    BY <1>0, <1>8, <2>1, HandleIsolation DEF HandleStale, table
<1>9. CASE HandleRow
  BY <1>9, HandleRowIsolation
<1>10. CASE HandleConnected \/ HandleConnectedNowhere \/ HandleConnectFailed
  BY <1>10, HandleSwitchIsolation
<1>11. CASE UNCHANGED vars
  BY <1>0, <1>11, SlotsIsolation DEF vars, table
<1> QED
  BY <1>1, <1>2, <1>3, <1>4, <1>5, <1>6, <1>7, <1>8, <1>9, <1>10, <1>11
     DEF Next, UserStep, HandleMsg

-----------------------------------------------------------------------------
\* The invariant holds in every state.
THEOREM Isolation == Spec => []IsolationInv
  BY InitIsolation, StepIsolation, PTL DEF Spec

\* Every variable keeps its type.
THEOREM TypeCorrect == Spec => []TypeOK
  BY Isolation, PTL DEF IsolationInv

\* No row of another view or cluster is ever shown or buffered.
THEOREM RowsIsolated == Spec => []NoForeignRows
  BY Isolation, PTL DEF IsolationInv

\* No cached snapshot is of another view or cluster.
THEOREM SnapshotsIsolated == Spec => []NoForeignSnapshots
  BY Isolation, PTL DEF IsolationInv

-----------------------------------------------------------------------------
(* A switch lands as it was asked for.                                     *)

IsAnswer(m) == m.gen = generation /\ m.type \in {"Connected", "ConnectFailed", "NeedsInput"}

\* A destination goes with the authentication it waits for, or with the connection.  That
\* of a login dialog closed by a lookup goes with neither, and the next switch drops it.
Armed(dest, login, target) ==
  dest # NoDest => /\ login # NoContext => dest.ctx = login
                   /\ target # NoSwitch => dest.ctx = target.ctx

\* The connection in flight is the one asked for last; it answers once; and what is
\* armed goes with it, or with the authentication it waits for.
SwitchInv ==
  /\ auth # NoContext => switchTarget = NoSwitch
  /\ Armed(pending, auth, switchTarget)
  /\ worker[generation].kind = "connect" /\ worker[generation].phase = "start" =>
       switchTarget = [gen |-> generation, ctx |-> worker[generation].ctx]
  /\ \A i \in DOMAIN chan : IsAnswer(chan[i]) =>
       /\ worker[generation].kind = "connect" /\ worker[generation].phase = "done"
       /\ switchTarget = [gen |-> generation, ctx |-> chan[i].ctx]
  /\ \A i, j \in DOMAIN chan : IsAnswer(chan[i]) /\ IsAnswer(chan[j]) => i = j

\* A new generation has no answer yet.
LEMMA NewGenerationSwitch ==
  ASSUME IsolationInv, generation' \in Gens, generation' > generation,
         chan' = chan \/ Receive,
         auth' # NoContext => switchTarget' = NoSwitch,
         Armed(pending', auth', switchTarget'),
         \/ worker'[generation'].kind # "connect"
         \/ switchTarget' = [gen |-> generation', ctx |-> worker'[generation'].ctx]
  PROVE  SwitchInv'
<1>1. chan' \in Seq(MsgType) /\ \A i \in DOMAIN chan' : chan'[i].gen < generation'
  BY NewGeneration
<1>2. \A i \in DOMAIN chan' : chan'[i].gen # generation'
  <2>1. \A i \in DOMAIN chan' : chan'[i] \in MsgType
    BY <1>1, ElementOfSeq, LenProperties
  <2> QED
    BY <1>1, <2>1 DEF MsgType
<1> QED
  BY <1>2 DEF SwitchInv, IsAnswer

\* Opening a table, from the old ones or on the cluster connected to.
LEMMA StartWatchSwitch ==
  ASSUME IsolationInv, SwitchInv, NEW c, NEW v, NEW gen \in Nat,
         StartWatch(c, v, gen), gen > generation, chan' = chan \/ Receive,
         auth' \in {auth, NoContext}
  PROVE  SwitchInv'
<1>1. generation' = gen /\ gen \in Gens /\ worker \in [Gens -> WorkerType]
  BY DEF StartWatch, IsolationInv, TypeOK
<1>2. worker'[gen].kind = "watch"
  BY <1>1 DEF StartWatch, Watching
<1>3. switchTarget' = NoSwitch /\ Armed(pending', auth', switchTarget')
  BY DEF StartWatch, SwitchInv, Armed
<1> QED
  BY <1>1, <1>2, <1>3, NewGenerationSwitch

\* Asking for a switch.
LEMMA ConnectSwitch ==
  ASSUME IsolationInv, NEW c, NEW dest, Connect(c, dest), auth' = NoContext,
         dest # NoDest => dest.ctx = c
  PROVE  SwitchInv'
<1>0. generation \in Nat /\ MaxGen \in Nat
  BY WatchViewAssumption DEF IsolationInv, TypeOK
<1>1. generation' = generation + 1 /\ generation' \in Gens /\ generation' > generation
  BY <1>0 DEF Connect
<1>2. worker'[generation'] = Connecting(c)
  BY <1>1 DEF Connect, IsolationInv, TypeOK
<1> QED
  BY <1>1, <1>2, NewGenerationSwitch DEF Connect, Connecting, Armed

\* A dashboard or the fleet: an idle generation.
LEMMA DashboardSwitch ==
  ASSUME IsolationInv, SwitchInv, OpenDashboard \/ OpenFleet PROVE SwitchInv'
<1>0. generation \in Nat /\ MaxGen \in Nat
  BY WatchViewAssumption DEF IsolationInv, TypeOK
<1>1. generation' = generation + 1 /\ generation' \in Gens /\ generation' > generation
  BY <1>0 DEF OpenDashboard, OpenFleet
<1>2. worker'[generation'].kind = "idle"
  BY <1>1 DEF OpenDashboard, OpenFleet, IsolationInv, GenerationInv
<1>3. UNCHANGED <<chan, auth, pending, switchTarget>>
  BY DEF OpenDashboard, OpenFleet
<1> QED
  BY <1>1, <1>2, <1>3, NewGenerationSwitch DEF SwitchInv

\* Taking a message off the channel without a change of view.
LEMMA ReceiveSwitch ==
  ASSUME IsolationInv, SwitchInv, Receive, UNCHANGED <<generation, worker>>,
         auth' # NoContext => switchTarget' = NoSwitch,
         Armed(pending', auth', switchTarget'),
         \/ switchTarget' = switchTarget
         \/ IsAnswer(msgHead)
  PROVE  SwitchInv'
<1>1. /\ chan \in Seq(MsgType) /\ 1 \in DOMAIN chan /\ msgHead = chan[1]
      /\ DOMAIN chan = 1 .. Len(chan) /\ Len(chan) \in Nat
      /\ chan' \in Seq(MsgType) /\ DOMAIN chan' = 1 .. Len(chan')
      /\ \A i \in DOMAIN chan' : i + 1 \in DOMAIN chan /\ chan'[i] = chan[i + 1]
  <2>1. chan \in Seq(MsgType)
    BY DEF IsolationInv, TypeOK
  <2> QED
    BY <2>1, ReceiveKeeps, LenProperties
<1>2. \A m : IsAnswer(m)' <=> IsAnswer(m)
  BY DEF IsAnswer
<1>3. \A i, j \in DOMAIN chan' : IsAnswer(chan'[i]) /\ IsAnswer(chan'[j]) => i = j
  <2> SUFFICES ASSUME NEW i \in DOMAIN chan', NEW j \in DOMAIN chan', IsAnswer(chan'[i]), IsAnswer(chan'[j])
               PROVE  i = j
    OBVIOUS
  <2>1. i + 1 = j + 1
    BY <1>1 DEF SwitchInv
  <2>2. i \in Nat /\ j \in Nat
    BY <1>1
  <2> QED
    BY <2>1, <2>2
<1>4. CASE switchTarget' = switchTarget
  BY <1>1, <1>2, <1>3, <1>4 DEF SwitchInv
<1>5. CASE IsAnswer(msgHead)
  <2>1. ASSUME NEW i \in DOMAIN chan' PROVE ~IsAnswer(chan'[i])
    <3>1. i + 1 # 1 /\ i + 1 \in DOMAIN chan /\ chan'[i] = chan[i + 1]
      BY <1>1
    <3> QED
      BY <1>1, <1>5, <3>1 DEF SwitchInv
  <2>2. worker[generation].phase = "done"
    BY <1>1, <1>5 DEF SwitchInv
  <2> QED
    BY <2>1, <2>2 DEF SwitchInv, IsAnswer
<1> QED
  BY <1>4, <1>5

\* A task sends something.
LEMMA SendSwitch ==
  ASSUME IsolationInv, SwitchInv, NEW g \in Gens, NEW msg \in MsgType, msg.gen = g,
         NEW phase \in {"start", "list", "live", "done"}, NEW sent,
         Sends(g, msg, phase, sent),
         \/ worker[g].kind = "watch" /\ msg.type \in RowTypes
         \/ /\ worker[g].kind = "connect" /\ worker[g].phase = "start" /\ phase = "done"
            /\ msg.ctx = worker[g].ctx /\ msg.type \notin RowTypes
  PROVE  SwitchInv'
<1>0. TypeOK /\ UNCHANGED <<generation, switchTarget, pending, auth>>
  BY DEF IsolationInv, Sends
<1>1. /\ chan \in Seq(MsgType) /\ chan' = Append(chan, msg)
      /\ Len(chan) \in Nat /\ DOMAIN chan = 1 .. Len(chan)
  BY <1>0, LenProperties DEF TypeOK, Sends
<1>2. /\ DOMAIN chan' = 1 .. Len(chan) + 1
      /\ \A i \in 1 .. Len(chan) : chan'[i] = chan[i]
      /\ chan'[Len(chan) + 1] = msg
  <2>1. chan' \in Seq(MsgType) /\ Len(chan') = Len(chan) + 1
    BY <1>1, AppendProperties
  <2> QED
    BY <1>1, <2>1, AppendProperties, LenProperties
<1>3. worker'[generation].kind = worker[generation].kind /\ worker'[generation].ctx = worker[generation].ctx
      /\ worker'[generation].phase = IF g = generation THEN phase ELSE worker[generation].phase
  <2>1. worker \in [Gens -> WorkerType] /\ generation \in Gens
    BY <1>0 DEF TypeOK
  <2>2. worker' = [worker EXCEPT ![g] = [worker[g] EXCEPT !.phase = phase, !.sent = sent]]
    BY <2>1 DEF Sends
  <2> QED
    BY <2>1, <2>2 DEF WorkerType
<1>4. CASE g # generation \/ msg.type \in RowTypes
  <2>1. ~IsAnswer(msg)
    BY <1>4 DEF IsAnswer, RowTypes
  <2>2. \A i \in DOMAIN chan' : IsAnswer(chan'[i]) => i \in DOMAIN chan /\ chan'[i] = chan[i]
    <3> SUFFICES ASSUME NEW i \in DOMAIN chan', IsAnswer(chan'[i]) PROVE i \in DOMAIN chan /\ chan'[i] = chan[i]
      OBVIOUS
    <3>1. i # Len(chan) + 1
      BY <1>2, <2>1
    <3> QED
      BY <1>1, <1>2, <3>1
  <2>3. g = generation => worker[generation].kind # "connect"
    BY <1>4
  <2> QED
    BY <1>0, <1>3, <2>2, <2>3 DEF SwitchInv, IsAnswer
<1>5. CASE g = generation /\ worker[g].kind = "connect" /\ worker[g].phase = "start" /\ phase = "done" /\ msg.ctx = worker[g].ctx
  <2>1. \A i \in DOMAIN chan : ~IsAnswer(chan[i])
    BY <1>5 DEF SwitchInv
  <2>2. \A i \in DOMAIN chan' : IsAnswer(chan'[i]) => i = Len(chan) + 1 /\ chan'[i] = msg
    <3> SUFFICES ASSUME NEW i \in DOMAIN chan', IsAnswer(chan'[i]) PROVE i = Len(chan) + 1
      BY <1>2
    <3>1. i \notin 1 .. Len(chan)
      BY <1>1, <1>2, <2>1
    <3> QED
      BY <1>1, <1>2, <3>1
  <2>3. switchTarget = [gen |-> generation, ctx |-> msg.ctx]
    BY <1>5 DEF SwitchInv
  <2> QED
    BY <1>0, <1>3, <1>5, <2>2, <2>3 DEF SwitchInv, IsAnswer
<1> QED
  BY <1>4, <1>5

\* Every step keeps it.
LEMMA SwitchStep == ASSUME IsolationInv, SwitchInv, [Next]_vars PROVE SwitchInv'
<1> USE WatchViewAssumption
<1>0. TypeOK /\ generation \in Nat
  BY DEF IsolationInv, TypeOK
<1>1. ASSUME NEW v \in Views, OpenView(v) PROVE SwitchInv'
  BY <1>0, <1>1, StartWatchSwitch DEF OpenView
<1>2. CASE OpenDashboard \/ OpenFleet
  BY <1>2, DashboardSwitch
<1>3. ASSUME NEW c \in Contexts, NEW dest \in Dests(c), SwitchContext(c, dest)
      PROVE  SwitchInv'
  BY <1>3, ConnectSwitch DEF SwitchContext, Dests
<1>4. CASE UNCHANGED <<generation, worker, chan>>
           /\ (auth' # NoContext => switchTarget' = NoSwitch)
           /\ Armed(pending', auth', switchTarget')
           /\ switchTarget' = switchTarget
  BY <1>4 DEF SwitchInv, IsAnswer
<1>5. ASSUME NEW c \in Contexts, NEW dest \in Dests(c), RetargetSwitch(c, dest)
      PROVE  SwitchInv'
  BY <1>0, <1>4, <1>5 DEF RetargetSwitch, Dests, InFlight, Armed, NoSwitch, TypeOK
<1>6. CASE Authenticated
  <2>1. pending # NoDest => pending.ctx = auth
    BY <1>6 DEF Authenticated, SwitchInv, Armed
  <2> QED
    BY <1>6, <2>1, ConnectSwitch DEF Authenticated
<1>7. CASE DeclineAuthentication
  BY <1>4, <1>7 DEF DeclineAuthentication, Armed, SwitchInv
<1>8. ASSUME NEW g \in Gens, WorkerStep(g) PROVE SwitchInv'
  <2>0. NoKey \in Keys /\ worker[g] \in WorkerType
    BY <1>0 DEF NoKey, TypeOK
  <2>1. CASE WatchResets(g)
    BY <2>0, <2>1, SendSwitch DEF WatchResets, Message, MsgType, RowTypes
  <2>2. CASE WatchSyncs(g)
    BY <2>0, <2>2, SendSwitch DEF WatchSyncs, Message, MsgType, RowTypes
  <2>3. ASSUME NEW k \in Keys, NEW o \in Objects, WatchApplies(g, k, o) PROVE SwitchInv'
    <3> DEFINE sent == IF worker[g].phase = "list" THEN worker[g].sent \cup {k} ELSE {}
               m == Message(g, "Applied", k, o)
    <3>1. m \in MsgType /\ m.gen = g /\ m.type \in RowTypes
      BY DEF Message, MsgType, RowTypes
    <3>2. /\ Sends(g, m, worker[g].phase, sent) /\ worker[g].kind = "watch"
          /\ worker[g].phase \in {"start", "list", "live", "done"}
      BY <2>3 DEF WatchApplies
    <3> HIDE DEF sent, m
    <3> QED
      BY <3>1, <3>2, SendSwitch
  <2>4. ASSUME NEW k \in Keys, WatchDeletes(g, k) PROVE SwitchInv'
    BY <2>0, <2>4, SendSwitch DEF WatchDeletes, Message, MsgType, RowTypes
  <2>5. CASE ConnectReturns(g)
    <3>1. PICK outcome \in {"Connected", "ConnectFailed", "NeedsInput"} :
            Sends(g, Answer(g, outcome), "done", {})
      BY <2>5 DEF ConnectReturns
    <3>2. Answer(g, outcome) \in MsgType
      BY <2>0 DEF Answer, MsgType, WorkerType
    <3> QED
      BY <2>5, <3>1, <3>2, SendSwitch DEF ConnectReturns, Answer, RowTypes
  <2> QED
    BY <1>8, <2>1, <2>2, <2>3, <2>4, <2>5 DEF WorkerStep
<1>9. CASE HandleStale \/ HandleRow
  <2>1. Receive /\ UNCHANGED <<generation, worker, switchTarget, pending, auth>>
    BY <1>9 DEF HandleStale, HandleRow
  <2> QED
    BY <2>1, ReceiveSwitch DEF SwitchInv
<1>10. ASSUME HandleConnected \/ HandleConnectedNowhere \/ HandleConnectFailed
       PROVE  /\ IsAnswer(msgHead) /\ Receive
              /\ switchTarget = [gen |-> generation, ctx |-> msgHead.ctx]
              /\ auth = NoContext
  <2>1. IsAnswer(msgHead) /\ Receive
    BY <1>10 DEF HandleConnected, HandleConnectedNowhere, HandleConnectFailed, Current, IsAnswer
  <2>2. switchTarget = [gen |-> generation, ctx |-> msgHead.ctx]
    BY <1>0, <2>1, ReceiveKeeps DEF TypeOK, SwitchInv
  <2>3. switchTarget # NoSwitch
    BY <1>0, <2>2 DEF NoSwitch, TypeOK
  <2> QED
    BY <2>1, <2>2, <2>3 DEF SwitchInv
<1>11. CASE HandleConnected
  <2>1. PICK v \in LandingViews : StartWatch(msgHead.ctx, v, generation + 2)
    BY <1>11 DEF HandleConnected
  <2>2. auth' = auth /\ generation + 2 \in Nat /\ generation + 2 > generation
    BY <1>0, <1>11 DEF HandleConnected
  <2> QED
    BY <1>10, <1>11, <2>1, <2>2, StartWatchSwitch
<1>12. CASE HandleConnectedNowhere
  <2>1. generation' = generation + 1 /\ generation' \in Gens /\ generation' > generation
    BY <1>0, <1>12 DEF HandleConnectedNowhere, TypeOK
  <2>2. worker'[generation'].kind # "connect"
    BY <1>12, <2>1 DEF HandleConnectedNowhere, IsolationInv, GenerationInv
  <2> QED
    BY <1>10, <1>12, <2>1, <2>2, NewGenerationSwitch DEF HandleConnectedNowhere, Armed
<1>13. CASE HandleConnectFailed
  <2>1. UNCHANGED <<generation, worker>> /\ switchTarget' = NoSwitch
    BY <1>13 DEF HandleConnectFailed
  <2>2. Armed(pending', auth', switchTarget')
    <3>1. CASE auth' = msgHead.ctx /\ pending' = pending
      <4>1. pending # NoDest => pending.ctx = msgHead.ctx
        BY <1>0, <1>10, <1>13 DEF SwitchInv, Armed, NoSwitch, TypeOK
      <4>2. pending # NoDest => pending.ctx \in Contexts
        BY <1>0 DEF TypeOK
      <4> QED
        BY <2>1, <3>1, <4>1, <4>2 DEF Armed
    <3>2. CASE pending' = NoDest
      BY <3>2 DEF Armed
    <3> QED
      BY <1>13, <3>1, <3>2 DEF HandleConnectFailed
  <2> QED
    BY <1>10, <1>13, <2>1, <2>2, ReceiveSwitch
<1>14. CASE UNCHANGED vars
  BY <1>4, <1>14 DEF vars, SwitchInv
<1> QED
  BY <1>1, <1>2, <1>3, <1>5, <1>6, <1>7, <1>8, <1>9, <1>11, <1>12, <1>13, <1>14
     DEF Next, UserStep, HandleMsg

\* The cluster changes only to the one the user asked for last, and an armed
\* destination opens with it or not at all.
THEOREM SwitchesLand == Spec => SwitchLandsAsAsked
<1> DEFINE Landing == ctx' # ctx =>
             /\ switchTarget = [gen |-> generation, ctx |-> ctx']
             /\ pending # NoDest => pending.ctx = ctx' /\ view' \in {pending.view, NoView}
<1>1. Init => SwitchInv
  <2>1. Init => DOMAIN chan = {} /\ worker[generation].kind = "watch"
    BY WatchViewAssumption DEF Init, Watching
  <2> QED
    BY <2>1 DEF Init, SwitchInv, Armed
<1>2. IsolationInv /\ SwitchInv /\ [Next]_vars => SwitchInv'
  BY SwitchStep
<1>3. IsolationInv /\ SwitchInv /\ [Next]_vars => Landing
  <2> SUFFICES ASSUME IsolationInv, SwitchInv, [Next]_vars, ctx' # ctx
               PROVE  /\ switchTarget = [gen |-> generation, ctx |-> ctx']
                      /\ pending # NoDest => pending.ctx = ctx' /\ view' \in {pending.view, NoView}
    OBVIOUS
  <2>1. HandleConnected \/ HandleConnectedNowhere
    BY DEF Next, UserStep, HandleMsg, OpenView, OpenDashboard, OpenFleet, SwitchContext, Connect,
           RetargetSwitch, Authenticated, DeclineAuthentication, WorkerStep, WatchResets,
           WatchApplies, WatchDeletes, WatchSyncs, ConnectReturns, Sends, HandleStale,
           HandleRow, HandleConnectFailed, vars
  <2>2. IsAnswer(msgHead) /\ Receive /\ ctx' = msgHead.ctx
    BY <2>1 DEF HandleConnected, HandleConnectedNowhere, Current, IsAnswer
  <2>3. switchTarget = [gen |-> generation, ctx |-> msgHead.ctx]
    BY <2>2, ReceiveKeeps DEF IsolationInv, TypeOK, SwitchInv
  <2>5. pending # NoDest => pending.ctx = ctx'
    BY <2>2, <2>3 DEF SwitchInv, Armed, NoSwitch, IsolationInv, TypeOK
  <2>6. pending # NoDest => view' \in {pending.view, NoView}
    BY <2>1 DEF HandleConnected, HandleConnectedNowhere, LandingViews, StartWatch
  <2> QED
    BY <2>2, <2>3, <2>5, <2>6
<1>4. Spec => []SwitchInv
  BY <1>1, <1>2, Isolation, PTL DEF Spec
<1> QED
  BY <1>3, <1>4, Isolation, PTL DEF Spec, SwitchLandsAsAsked

-----------------------------------------------------------------------------
(* The view cache stays bounded.                                           *)

Distinct(o) == \A i, j \in 1 .. Len(o) : o[i] = o[j] => i = j
Named(o) == {o[i] : i \in 1 .. Len(o)}

\* The rest of a sequence, in terms of the whole.
LEMMA RestOf ==
  ASSUME NEW o \in Seq(Views), NEW n \in Nat, n <= Len(o)
  PROVE  LET r == SubSeq(o, n + 1, Len(o))
         IN /\ r \in Seq(Views) /\ Len(r) = Len(o) - n
            /\ \A i \in 1 .. Len(r) : r[i] = o[n + i]
<1>1. Len(o) \in Nat
  BY LenProperties
<1>2. \A i \in n + 1 .. Len(o) : o[i] \in Views
  BY <1>1, ElementOfSeq
<1> QED
  BY <1>1, <1>2, SubSeqProperties

\* Evicting makes what is left fit, and evicts no more than there is.
LEMMA EvictionsFit ==
  ASSUME NEW c, NEW o \in Seq(Views)
  PROVE  /\ Evictions(c, o) \in 0 .. Len(o)
         /\ Fits(c, SubSeq(o, Evictions(c, o) + 1, Len(o)))
<1> DEFINE fits(m) == Fits(c, SubSeq(o, m + 1, Len(o)))
           leading == {n \in 0 .. Len(o) : \A m \in 0 .. n : ~fits(m)}
           k == Cardinality(leading)
<1>1. Len(o) \in Nat
  BY LenProperties
<1>2. fits(Len(o))
  <2>1. Len(SubSeq(o, Len(o) + 1, Len(o))) = 0
    BY <1>1, RestOf
  <2> QED
    BY <2>1, WatchViewAssumption DEF Fits
<1>3. k = Evictions(c, o) /\ k = Cardinality(leading)
  BY DEF Evictions
<1> HIDE DEF fits, k
<1>4. IsFiniteSet(leading) /\ k \in Nat
  <2>1. IsFiniteSet(0 .. Len(o))
    BY <1>1, FS_Interval
  <2>2. IsFiniteSet(leading)
    BY <2>1, FS_Subset
  <2> QED
    BY <1>3, <2>2, FS_CardinalityType
<1>5. \A m \in Nat : m \in leading => m < Len(o) /\ 0 .. m \subseteq leading
  BY <1>1, <1>2
<1>6. \A m \in Nat : leading \subseteq 0 .. m - 1 => k <= m
  <2> SUFFICES ASSUME NEW m \in Nat, leading \subseteq 0 .. m - 1 PROVE k <= m
    OBVIOUS
  <2>1. IsFiniteSet(0 .. m - 1) /\ Cardinality(0 .. m - 1) = m
    BY FS_Interval
  <2> QED
    BY <1>3, <2>1, FS_Subset
<1>7. \A m \in Nat : 0 .. m \subseteq leading => m + 1 <= k
  <2> SUFFICES ASSUME NEW m \in Nat, 0 .. m \subseteq leading PROVE m + 1 <= k
    OBVIOUS
  <2>1. Cardinality(0 .. m) = m + 1
    BY FS_Interval
  <2> QED
    BY <1>3, <1>4, <2>1, FS_Subset
<1>8. k <= Len(o)
  BY <1>1, <1>5, <1>6
<1>9. fits(k)
  <2>1. k \notin leading
    BY SMTT(20), <1>4, <1>5, <1>7
  <2>2. PICK m \in 0 .. k : fits(m)
    <3>1. k \in 0 .. Len(o)
      BY <1>1, <1>4, <1>8
    <3> QED
      BY <2>1, <3>1
  <2>3. leading \subseteq 0 .. m - 1
    BY <1>1, <1>4, <2>2
  <2> QED
    BY SMTT(20), <1>4, <1>6, <2>2, <2>3
<1> QED
  BY <1>3, <1>4, <1>8, <1>9 DEF fits

\* What fits depends on the rows of the views in the order only.
LEMMA FitsSame ==
  ASSUME NEW c, NEW d, NEW o \in Seq(Views), \A v \in Named(o) : c[v] = d[v], Fits(c, o)
  PROVE  Fits(d, o)
<1>1. DOMAIN o = 1 .. Len(o)
  BY LenProperties
<1>2. {p \in Views \X Keys : (\E i \in DOMAIN o : o[i] = p[1]) /\ c[p[1]][p[2]] # NoObj}
        = {p \in Views \X Keys : (\E i \in DOMAIN o : o[i] = p[1]) /\ d[p[1]][p[2]] # NoObj}
  BY <1>1 DEF Named
<1> QED
  BY <1>2 DEF Fits, CachedObjects

\* A view leaves the order, which stays one of distinct views.
LEMMA WithoutNames ==
  ASSUME NEW o \in Seq(Views), NEW v, Distinct(o)
  PROVE  Distinct(Without(o, v)) /\ Named(Without(o, v)) = Named(o) \ {v}
<1>1. CASE \A i \in 1 .. Len(o) : o[i] # v
  BY <1>1 DEF Without, Named
<1>2. ASSUME NEW j \in 1 .. Len(o), o[j] = v
      PROVE  Distinct(Without(o, v)) /\ Named(Without(o, v)) = Named(o) \ {v}
  <2> DEFINE i == CHOOSE i \in 1 .. Len(o) : o[i] = v
             w == SubSeq(o, 1, i - 1) \o SubSeq(o, i + 1, Len(o))
  <2>1. i \in 1 .. Len(o) /\ o[i] = v /\ Without(o, v) = w
    BY <1>2 DEF Without
  <2> HIDE DEF i
  <2>2. Len(o) \in Nat /\ \A m \in 1 .. Len(o) : o[m] \in Views
    BY LenProperties, ElementOfSeq
  <2>3. /\ SubSeq(o, 1, i - 1) \in Seq(Views) /\ Len(SubSeq(o, 1, i - 1)) = i - 1
        /\ \A m \in 1 .. i - 1 : SubSeq(o, 1, i - 1)[m] = o[m]
    <3>1. \A m \in 1 .. i - 1 : o[m] \in Views
      BY <2>1, <2>2
    <3>2. 1 \in Int /\ i - 1 \in Int /\ (i - 1) - 1 + 1 = i - 1 /\ (\A m \in 1 .. i - 1 : 1 + m - 1 = m)
      BY <2>1, <2>2
    <3>3. /\ SubSeq(o, 1, i - 1) \in Seq(Views)
          /\ Len(SubSeq(o, 1, i - 1)) = IF 1 <= i - 1 THEN (i - 1) - 1 + 1 ELSE 0
          /\ \A m \in 1 .. (i - 1) - 1 + 1 : SubSeq(o, 1, i - 1)[m] = o[1 + m - 1]
      BY <3>1, <3>2, SubSeqProperties
    <3> QED
      BY <2>1, <2>2, <3>2, <3>3
  <2>4. /\ SubSeq(o, i + 1, Len(o)) \in Seq(Views) /\ Len(SubSeq(o, i + 1, Len(o))) = Len(o) - i
        /\ \A m \in 1 .. Len(o) - i : SubSeq(o, i + 1, Len(o))[m] = o[i + m]
    BY <2>1, <2>2, RestOf
  <2>5. /\ Len(w) = Len(o) - 1
        /\ \A m \in 1 .. Len(o) - 1 : w[m] = IF m < i THEN o[m] ELSE o[m + 1]
    <3>1. /\ Len(w) = (i - 1) + (Len(o) - i)
          /\ \A m \in 1 .. (i - 1) + (Len(o) - i) :
               w[m] = IF m <= i - 1 THEN SubSeq(o, 1, i - 1)[m]
                                    ELSE SubSeq(o, i + 1, Len(o))[m - (i - 1)]
      BY SMTT(20), <2>3, <2>4, ConcatProperties
    <3> HIDE DEF w
    <3>2. (i - 1) + (Len(o) - i) = Len(o) - 1
      BY <2>1, <2>2
    <3>3. ASSUME NEW m \in 1 .. Len(o) - 1, m >= i PROVE w[m] = o[m + 1]
      <4>1. m - (i - 1) \in 1 .. Len(o) - i /\ i + (m - (i - 1)) = m + 1 /\ ~(m <= i - 1)
        BY <2>1, <2>2, <3>3
      <4> QED
        BY <2>4, <3>1, <3>2, <4>1
    <3>4. ASSUME NEW m \in 1 .. Len(o) - 1, m < i PROVE w[m] = o[m]
      <4>1. m <= i - 1 /\ m \in 1 .. i - 1
        BY <2>1, <2>2, <3>4
      <4> QED
        BY <2>3, <3>1, <3>2, <4>1
    <3>5. \A m \in 1 .. Len(o) - 1 : ~(m < i) => m >= i
      BY <2>1, <2>2
    <3> QED
      BY <3>1, <3>2, <3>3, <3>4, <3>5
  <2> HIDE DEF w
  <2>6. Distinct(w)
    <3> SUFFICES ASSUME NEW a \in 1 .. Len(o) - 1, NEW b \in 1 .. Len(o) - 1, w[a] = w[b] PROVE a = b
      BY <2>5 DEF Distinct
    <3> DEFINE at(m) == IF m < i THEN m ELSE m + 1
    <3>1. /\ at(a) \in 1 .. Len(o) /\ at(b) \in 1 .. Len(o)
          /\ w[a] = o[at(a)] /\ w[b] = o[at(b)]
      BY <2>1, <2>2, <2>5
    <3> HIDE DEF at
    <3>2. at(a) = at(b)
      BY <3>1 DEF Distinct
    <3> QED
      BY <2>1, <2>2, <3>2 DEF at
  <2>7. Named(w) \subseteq Named(o) \ {v}
    BY <2>1, <2>2, <2>5 DEF Distinct, Named
  <2>8. ASSUME NEW u \in Named(o), u # v PROVE u \in Named(w)
    <3>1. PICK m \in 1 .. Len(o) : u = o[m]
      BY DEF Named
    <3>2. CASE m < i
      BY <2>1, <2>2, <2>5, <3>1, <3>2 DEF Named
    <3>3. CASE m > i
      <4>1. m - 1 \in 1 .. Len(w) /\ w[m - 1] = o[m]
        BY <2>1, <2>2, <2>5, <3>1, <3>3
      <4> QED
        BY <3>1, <4>1 DEF Named
    <3> QED
      BY <2>1, <2>2, <2>8, <3>1, <3>2, <3>3
  <2> QED
    BY <2>1, <2>6, <2>7, <2>8
<1> QED
  BY <1>1, <1>2

\* Stashing a view files it last, under its own name, and once.
LEMMA StashedNames ==
  ASSUME TypeOK, CacheBounded, Stashes
  PROVE  /\ StashedOrder \in Seq(Views) /\ Distinct(StashedOrder)
         /\ StashedCache \in [Views -> Rows]
         /\ \A v \in Views : KeysOf(StashedCache[v]) # {} <=> v \in Named(StashedOrder)
<1> DEFINE w == Without(order, watchKey)
<1>0. order \in Seq(Views) /\ DOMAIN order = 1 .. Len(order) /\ watchKey \in Views
  BY LenProperties DEF TypeOK, Stashes
<1>1. Distinct(order) /\ Named(order) = Cached
  BY <1>0 DEF CacheBounded, Distinct, Named
<1>2. w \in Seq(Views) /\ Distinct(w) /\ Named(w) = Cached \ {watchKey} /\ Len(w) \in Nat
  BY <1>0, <1>1, WithoutType, WithoutNames, LenProperties
<1> HIDE DEF w
<1>3. /\ StashedOrder \in Seq(Views) /\ Len(StashedOrder) = Len(w) + 1
      /\ \A i \in 1 .. Len(w) : StashedOrder[i] = w[i]
      /\ StashedOrder[Len(w) + 1] = watchKey
  BY <1>0, <1>2, AppendProperties DEF StashedOrder, w
<1>4. Named(StashedOrder) = Named(w) \cup {watchKey}
  <2>1. \A i \in 1 .. Len(w) + 1 : i \in 1 .. Len(w) \/ i = Len(w) + 1
    BY <1>2
  <2>2. Len(w) + 1 \in 1 .. Len(w) + 1 /\ 1 .. Len(w) \subseteq 1 .. Len(w) + 1
    BY <1>2
  <2> QED
    BY <1>3, <2>1, <2>2 DEF Named
<1>5. Distinct(StashedOrder)
  <2> SUFFICES ASSUME NEW i \in 1 .. Len(w) + 1, NEW j \in 1 .. Len(w) + 1,
                      StashedOrder[i] = StashedOrder[j]
               PROVE  i = j
    BY <1>3 DEF Distinct
  <2>1. \A m \in 1 .. Len(w) : w[m] # watchKey
    BY <1>2 DEF Named
  <2>2. \A m \in 1 .. Len(w) + 1 : m \in 1 .. Len(w) \/ m = Len(w) + 1
    BY <1>2
  <2>3. CASE i \in 1 .. Len(w) /\ j \in 1 .. Len(w)
    BY <1>2, <1>3, <2>3 DEF Distinct
  <2> QED
    BY <1>3, <2>1, <2>2, <2>3
<1>6. store.items \in Rows /\ cache \in [Views -> Rows]
  BY DEF TypeOK, StoreType
<1>7. StashedCache = [cache EXCEPT ![watchKey] = store.items]
  BY DEF StashedCache
<1>8. \A v \in Views : KeysOf(StashedCache[v]) # {} <=> v \in Cached \cup {watchKey}
  BY <1>0, <1>6, <1>7 DEF Cached, Stashes
<1> QED
  BY <1>2, <1>3, <1>4, <1>5, <1>6, <1>7, <1>8

\* Stashing keeps the cache bounded and its order exact.
LEMMA StashBounded ==
  ASSUME TypeOK, CacheBounded, StashViewSnapshot
  PROVE  CacheBounded'
<1>1. CASE ~Stashes
  <2>1. order \in Seq(Views) /\ cache \in [Views -> Rows] /\ Len(order) \in Nat
    BY LenProperties DEF TypeOK
  <2>2. order' = SubSeq(order, 1, Len(order)) /\ cache' = cache
    <3>1. StashedOrder = order /\ StashedCache = cache
      BY <1>1 DEF StashedOrder, StashedCache
    <3>2. {StashedOrder[i] : i \in 1 .. 0} = {}
      OBVIOUS
    <3>3. cache' = [v \in Views |-> cache[v]] /\ order' = SubSeq(order, 1, Len(order))
      BY <1>1, <3>1, <3>2 DEF StashViewSnapshot
    <3> QED
      BY <2>1, <3>3
  <2>3. order' = order
    <3>1. order' \in Seq(Views) /\ Len(order') = Len(order) /\ \A i \in 1 .. Len(order') : order'[i] = order[i]
      BY <2>1, <2>2, RestOf
    <3> QED
      BY <2>1, <3>1, SeqEqual
  <2> QED
    BY <2>2, <2>3 DEF CacheBounded, Cached
<1>2. CASE Stashes
  <2> DEFINE o == StashedOrder
             c == StashedCache
             n == Evictions(c, o)
             r == SubSeq(o, n + 1, Len(o))
             gone == {o[i] : i \in 1 .. n}
  <2>1. /\ o \in Seq(Views) /\ Distinct(o) /\ c \in [Views -> Rows]
        /\ \A v \in Views : KeysOf(c[v]) # {} <=> v \in Named(o)
    BY <1>2, StashedNames
  <2>2. n \in 0 .. Len(o) /\ Fits(c, r) /\ Len(o) \in Nat
    BY <2>1, EvictionsFit, LenProperties
  <2>3. order' = r /\ cache' = [v \in Views |-> IF v \in gone THEN NoRows ELSE c[v]]
    BY <1>2 DEF StashViewSnapshot
  <2> HIDE DEF o, c, n
  <2>4. r \in Seq(Views) /\ Len(r) = Len(o) - n /\ \A i \in 1 .. Len(r) : r[i] = o[n + i]
    BY <2>1, <2>2, RestOf
  <2> HIDE DEF r
  <2>5. Distinct(r)
    <3> SUFFICES ASSUME NEW i \in 1 .. Len(r), NEW j \in 1 .. Len(r), r[i] = r[j] PROVE i = j
      BY DEF Distinct
    <3>1. n + i \in 1 .. Len(o) /\ n + j \in 1 .. Len(o)
      BY <2>2, <2>4
    <3>2. n + i = n + j
      BY <2>1, <2>4, <3>1 DEF Distinct
    <3> QED
      BY <2>2, <2>4, <3>2
  <2>6. Named(r) = Named(o) \ gone
    <3>1. ASSUME NEW v \in Named(r) PROVE v \in Named(o) /\ v \notin gone
      <4>1. PICK i \in 1 .. Len(r) : v = o[n + i]
        BY <2>4 DEF Named
      <4>2. n + i \in 1 .. Len(o) /\ \A j \in 1 .. n : j \in 1 .. Len(o) /\ j # n + i
        BY <2>2, <2>4
      <4> QED
        BY <2>1, <4>1, <4>2 DEF Named, Distinct
    <3>2. ASSUME NEW v \in Named(o), v \notin gone PROVE v \in Named(r)
      <4>1. PICK i \in 1 .. Len(o) : v = o[i]
        BY DEF Named
      <4>2. i \notin 1 .. n
        BY <3>2, <4>1
      <4>3. i - n \in 1 .. Len(r) /\ n + (i - n) = i
        BY <2>2, <2>4, <4>2
      <4> QED
        BY <2>4, <4>1, <4>3 DEF Named
    <3> QED
      BY <3>1, <3>2
  <2>7. Fits(cache', r)
    <3>1. \A v \in Named(r) : v \in Views
      BY <2>4, ElementOfSeq DEF Named
    <3>2. \A v \in Named(r) : c[v] = cache'[v]
      BY <2>3, <2>6, <3>1
    <3> QED
      BY <2>2, <2>4, <3>2, FitsSame
  <2>8. Cached' = Named(r)
    <3>1. KeysOf(NoRows) = {}
      BY DEF KeysOf, NoRows
    <3>2. \A v \in Views : KeysOf(cache'[v]) # {} <=> v \in Named(o) /\ v \notin gone
      BY <2>1, <2>3, <3>1
    <3>3. Named(r) \subseteq Views
      BY <2>4, ElementOfSeq DEF Named
    <3> QED
      BY <2>6, <3>2, <3>3 DEF Cached
  <2>9. DOMAIN order' = 1 .. Len(order')
    BY <2>3, <2>4, LenProperties
  <2> QED
    BY <2>3, <2>5, <2>7, <2>8, <2>9 DEF CacheBounded, Distinct, Named
<1> QED
  BY <1>1, <1>2

\* A forgotten cache is bounded.
LEMMA EmptyBounded ==
  ASSUME order' = <<>>, cache' = [v \in Views |-> NoRows]
  PROVE  CacheBounded'
<1>1. DOMAIN order' = {} /\ Len(order') = 0
  OBVIOUS
<1>2. Cached' = {}
  BY DEF Cached, KeysOf, NoRows
<1>3. {order'[i] : i \in DOMAIN order'} = {}
  BY <1>1
<1>4. Fits(cache', order')
  BY <1>1, WatchViewAssumption DEF Fits
<1> QED
  BY <1>1, <1>2, <1>3, <1>4 DEF CacheBounded

\* The cache never outgrows its bounds, and its eviction order names exactly what is
\* in it.
THEOREM CacheStaysBounded == Spec => []CacheBounded
<1>1. Init => CacheBounded
  <2> SUFFICES ASSUME order = <<>>, cache = [v \in Views |-> NoRows] PROVE CacheBounded
    BY DEF Init
  <2>1. DOMAIN order = {} /\ Len(order) = 0
    OBVIOUS
  <2>2. Cached = {} /\ {order[i] : i \in DOMAIN order} = {}
    BY <2>1 DEF Cached, KeysOf, NoRows
  <2>3. Fits(cache, order)
    BY <2>1, WatchViewAssumption DEF Fits
  <2> QED
    BY <2>1, <2>2, <2>3 DEF CacheBounded
<1>2. TypeOK /\ CacheBounded /\ [Next]_vars => CacheBounded'
  <2> SUFFICES ASSUME TypeOK, CacheBounded, [Next]_vars PROVE CacheBounded'
    OBVIOUS
  <2>1. CASE StashViewSnapshot
    BY <2>1, StashBounded
  <2>2. CASE order' = <<>> /\ cache' = [v \in Views |-> NoRows]
    BY <2>2, EmptyBounded
  <2>3. CASE UNCHANGED <<order, cache>>
    BY <2>3 DEF CacheBounded, Cached
  <2> QED
    BY <2>1, <2>2, <2>3
    DEF Next, UserStep, HandleMsg, OpenView, OpenDashboard, OpenFleet, SwitchContext, Connect,
        RetargetSwitch, Authenticated, DeclineAuthentication, WorkerStep, WatchResets,
        WatchApplies, WatchDeletes, WatchSyncs, ConnectReturns, Sends, HandleStale, HandleRow,
        HandleConnected, HandleConnectedNowhere, HandleConnectFailed, table, vars
<1> QED
  BY <1>1, <1>2, TypeCorrect, PTL DEF Spec

-----------------------------------------------------------------------------
(* A snapshot is complete: the list a watch sends between a Reset and its  *)
(* Synced, part of it handled and part of it still in the channel, has     *)
(* every stable key.                                                       *)

\* The rows the list under way goes to.
Listed(s) == IF s.buffering THEN s.pending ELSE s.items

\* The store of a table with one watch.
OneWatch(s) == s.parts = {} /\ s.nsBuffering = {} /\ (s.synced => ~s.buffering)

Adds(m, g, k) == m.gen = g /\ m.type = "Applied" /\ m.key = k
Resets(m, g) == m.gen = g /\ m.type = "Reset"

\* After the first n messages of q the list under way, which is at `rows` now, has k.
Seen(q, g, rows, k, n) ==
  \/ \E j \in 1 .. n : Adds(q[j], g, k) /\ \A l \in j + 1 .. n : ~Resets(q[l], g)
  \/ k \in KeysOf(rows) /\ \A l \in 1 .. n : ~Resets(q[l], g)

CompleteInv ==
  /\ OneWatch(store)
  /\ store.synced => StableKeys \subseteq KeysOf(store.items)
  /\ SnapshotsComplete
  /\ \A i \in 1 .. Len(chan) : chan[i].type = "Deleted" => chan[i].key \notin StableKeys
  /\ \A i \in 1 .. Len(chan) : chan[i].gen = generation /\ chan[i].type = "Synced" =>
       \A k \in StableKeys : Seen(chan, generation, Listed(store), k, i - 1)
  /\ worker[generation].kind = "watch" /\ worker[generation].phase = "list" =>
       \A k \in StableKeys \cap worker[generation].sent :
         Seen(chan, generation, Listed(store), k, Len(chan))

\* A message more at the end.
LEMMA SeenSent ==
  ASSUME NEW q \in Seq(MsgType), NEW m \in MsgType, NEW g, NEW rows, NEW k
  PROVE  /\ \A n \in 0 .. Len(q) : Seen(q, g, rows, k, n) => Seen(Append(q, m), g, rows, k, n)
         /\ Seen(q, g, rows, k, Len(q)) /\ ~Resets(m, g) => Seen(Append(q, m), g, rows, k, Len(q) + 1)
         /\ Adds(m, g, k) => Seen(Append(q, m), g, rows, k, Len(q) + 1)
<1> DEFINE r == Append(q, m)
<1>1. Len(q) \in Nat /\ r[Len(q) + 1] = m /\ \A i \in 1 .. Len(q) : r[i] = q[i]
  BY AppendProperties, LenProperties
<1> HIDE DEF r
<1>2. ASSUME NEW n \in 0 .. Len(q), Seen(q, g, rows, k, n) PROVE Seen(r, g, rows, k, n)
  <2>1. \A i \in 1 .. n : r[i] = q[i]
    BY <1>1
  <2>2. \A j \in 1 .. n : \A l \in j + 1 .. n : l \in 1 .. n
    BY <1>1
  <2> QED
    BY <1>2, <2>1, <2>2 DEF Seen
<1>3. ASSUME Seen(q, g, rows, k, Len(q)), ~Resets(m, g) PROVE Seen(r, g, rows, k, Len(q) + 1)
  <2>1. \A j \in 1 .. Len(q) : \A l \in j + 1 .. Len(q) + 1 : l = Len(q) + 1 \/ (l \in j + 1 .. Len(q) /\ l \in 1 .. Len(q))
    BY <1>1
  <2>2. \A l \in 1 .. Len(q) + 1 : l = Len(q) + 1 \/ l \in 1 .. Len(q)
    BY <1>1
  <2>3. 1 .. Len(q) \subseteq 1 .. Len(q) + 1
    BY <1>1
  <2>4. CASE \E j \in 1 .. Len(q) : Adds(q[j], g, k) /\ \A l \in j + 1 .. Len(q) : ~Resets(q[l], g)
    <3>1. PICK j \in 1 .. Len(q) : Adds(q[j], g, k) /\ \A l \in j + 1 .. Len(q) : ~Resets(q[l], g)
      BY <2>4
    <3>2. Adds(r[j], g, k) /\ \A l \in j + 1 .. Len(q) + 1 : ~Resets(r[l], g)
      BY <1>1, <1>3, <2>1, <3>1
    <3> QED
      BY <2>3, <3>2 DEF Seen
  <2>5. CASE k \in KeysOf(rows) /\ \A l \in 1 .. Len(q) : ~Resets(q[l], g)
    BY <1>1, <1>3, <2>2, <2>5 DEF Seen
  <2> QED
    BY <1>3, <2>4, <2>5 DEF Seen
<1>4. ASSUME Adds(m, g, k) PROVE Seen(r, g, rows, k, Len(q) + 1)
  <2>1. Len(q) + 1 \in 1 .. Len(q) + 1 /\ (Len(q) + 1) + 1 .. Len(q) + 1 = {}
    BY <1>1
  <2> QED
    BY <1>1, <1>4, <2>1 DEF Seen
<1> QED
  BY <1>2, <1>3, <1>4 DEF r

\* The first message is handled: what it adds is in the rows now.
LEMMA SeenReceived ==
  ASSUME NEW q \in Seq(MsgType), q # <<>>, NEW g, NEW rows, NEW rows2, NEW k,
         Adds(q[1], g, k) => k \in KeysOf(rows2),
         k \in KeysOf(rows) /\ ~Resets(q[1], g) => k \in KeysOf(rows2),
         NEW n \in 1 .. Len(q), Seen(q, g, rows, k, n)
  PROVE  Seen(Tail(q), g, rows2, k, n - 1)
<1> DEFINE r == Tail(q)
<1>1. Len(q) \in Nat /\ Len(r) = Len(q) - 1 /\ \A i \in 1 .. Len(r) : r[i] = q[i + 1]
  BY HeadTailProperties, LenProperties
<1> HIDE DEF r
<1>2. \A i \in 1 .. n - 1 : r[i] = q[i + 1] /\ i + 1 \in 1 .. n
  BY <1>1
<1>3. CASE \E j \in 1 .. n : Adds(q[j], g, k) /\ \A l \in j + 1 .. n : ~Resets(q[l], g)
  <2>1. PICK j \in 1 .. n : Adds(q[j], g, k) /\ \A l \in j + 1 .. n : ~Resets(q[l], g)
    BY <1>3
  <2>2. CASE j = 1
    <3>1. \A l \in 1 .. n - 1 : l + 1 \in j + 1 .. n
      BY <1>1, <2>2
    <3>2. \A l \in 1 .. n - 1 : ~Resets(r[l], g)
      BY <1>2, <2>1, <3>1
    <3> QED
      BY <2>1, <2>2, <3>2 DEF Seen, r
  <2>3. CASE j # 1
    <3>1. j - 1 \in 1 .. n - 1 /\ (j - 1) + 1 = j
      BY <1>1, <2>3
    <3>2. \A l \in (j - 1) + 1 .. n - 1 : l \in 1 .. n - 1 /\ l + 1 \in j + 1 .. n
      BY <1>1, <3>1
    <3>3. Adds(r[j - 1], g, k)
      BY <1>2, <2>1, <3>1
    <3>4. \A l \in (j - 1) + 1 .. n - 1 : ~Resets(r[l], g)
      BY <1>2, <2>1, <3>2
    <3> QED
      BY <3>1, <3>3, <3>4 DEF Seen, r
  <2> QED
    BY <2>2, <2>3
<1>4. CASE k \in KeysOf(rows) /\ \A l \in 1 .. n : ~Resets(q[l], g)
  <2>1. 1 \in 1 .. n
    BY <1>1
  <2>2. \A l \in 1 .. n - 1 : ~Resets(r[l], g)
    BY <1>2, <1>4
  <2> QED
    BY <1>4, <2>1, <2>2 DEF Seen, r
<1> QED
  BY <1>3, <1>4 DEF Seen

\* What handling a message does to the list under way.
LEMMA FoldLists ==
  ASSUME NEW s \in StoreType, OneWatch(s), NEW m \in MsgType, m.type \in RowTypes,
         m.type = "Applied" => m.obj \in Objects
  PROVE  /\ OneWatch(FoldRow(s, m))
         /\ m.type = "Applied" => m.key \in KeysOf(Listed(FoldRow(s, m)))
         /\ \A k \in KeysOf(Listed(s)) :
              m.type # "Reset" /\ ~(m.type = "Deleted" /\ m.key = k) => k \in KeysOf(Listed(FoldRow(s, m)))
         /\ m.type = "Synced" => Listed(FoldRow(s, m)) = Listed(s)
         /\ FoldRow(s, m).synced => m.type = "Synced" \/ (s.synced /\ m.type # "Reset")
<1> USE StoreAssumption
<1>0. m.key \in Keys
  BY DEF MsgType
<1>1. ASSUME NEW row \in Objects \cup {NoObj}
      PROVE  /\ ApplyIn(s, Home[m.key], m.key, row) = SetRow(s, Home[m.key], m.key, row)
             /\ RemoveIn(s, Home[m.key], m.key) = SetRow(s, Home[m.key], m.key, NoObj)
             /\ SetRow(s, Home[m.key], m.key, row) =
                  IF s.buffering THEN [s EXCEPT !.pending[m.key] = row] ELSE [s EXCEPT !.items[m.key] = row]
  BY DEF ApplyIn, RemoveIn, SetRow, OneWatch
<1>2. ASSUME NEW row \in Objects \cup {NoObj}, NEW t, t = SetRow(s, Home[m.key], m.key, row)
      PROVE  /\ OneWatch(t) /\ t.synced = s.synced
             /\ Listed(t) = [Listed(s) EXCEPT ![m.key] = row]
  <2>1. CASE s.buffering
    <3>1. t = [s EXCEPT !.pending[m.key] = row]
      BY <1>1, <1>2, <2>1
    <3> QED
      BY <2>1, <3>1 DEF OneWatch, Listed, StoreType
  <2>2. CASE ~s.buffering
    <3>1. t = [s EXCEPT !.items[m.key] = row]
      BY <1>1, <1>2, <2>2
    <3> QED
      BY <2>2, <3>1 DEF OneWatch, Listed, StoreType
  <2> QED
    BY <2>1, <2>2
<1>3. Listed(s) \in Rows
  BY DEF Listed, StoreType
<1>4. CASE m.type = "Applied"
  <2>1. FoldRow(s, m) = SetRow(s, Home[m.key], m.key, m.obj)
    BY <1>1, <1>4 DEF FoldRow, Apply
  <2>2. /\ OneWatch(FoldRow(s, m)) /\ FoldRow(s, m).synced = s.synced
        /\ Listed(FoldRow(s, m)) = [Listed(s) EXCEPT ![m.key] = m.obj]
    BY <1>2, <1>4, <2>1
  <2> QED
    BY <1>0, <1>3, <1>4, <2>2 DEF KeysOf, Rows
<1>5. CASE m.type = "Deleted"
  <2>1. FoldRow(s, m) = SetRow(s, Home[m.key], m.key, NoObj)
    BY <1>1, <1>5 DEF FoldRow, Remove
  <2>2. /\ OneWatch(FoldRow(s, m)) /\ FoldRow(s, m).synced = s.synced
        /\ Listed(FoldRow(s, m)) = [Listed(s) EXCEPT ![m.key] = NoObj]
    BY <1>2, <1>5, <2>1
  <2> QED
    BY <1>0, <1>3, <1>5, <2>2 DEF KeysOf, Rows
<1>6. CASE m.type = "Reset"
  <2>1. FoldRow(s, m) = BeginReset(s)
    BY <1>6 DEF FoldRow
  <2> QED
    BY <1>6, <2>1 DEF BeginReset, OneWatch, StoreType
<1>7. CASE m.type = "Synced"
  <2>1. FoldRow(s, m) = FinishSync(s)
    BY <1>7 DEF FoldRow
  <2>2. Listed(FoldRow(s, m)) = Listed(s) /\ OneWatch(FoldRow(s, m))
    BY <2>1 DEF FinishSync, OneWatch, Listed, StoreType
  <2> QED
    BY <1>7, <2>2
<1> QED
  BY <1>4, <1>5, <1>6, <1>7 DEF RowTypes

\* Only a complete list is stashed.
LEMMA StashComplete ==
  ASSUME TypeOK, CompleteInv, StashViewSnapshot PROVE SnapshotsComplete'
<1> SUFFICES ASSUME NEW v \in Views, KeysOf(cache'[v]) # {}
             PROVE  StableKeys \subseteq KeysOf(cache'[v])
  BY DEF SnapshotsComplete, Cached
<1>1. KeysOf(NoRows) = {}
  BY DEF KeysOf, NoRows
<1>2. cache'[v] = StashedCache[v]
  BY <1>1 DEF StashViewSnapshot
<1>3. CASE Stashes /\ v = watchKey
  BY <1>2, <1>3 DEF StashedCache, Stashes, CompleteInv, TypeOK
<1>4. CASE ~(Stashes /\ v = watchKey)
  <2>1. StashedCache[v] = cache[v]
    BY <1>4 DEF StashedCache, TypeOK
  <2> QED
    BY <1>2, <2>1 DEF CompleteInv, SnapshotsComplete, Cached
<1> QED
  BY <1>3, <1>4

\* A new generation: nothing of its list has been sent.
LEMMA NewGenerationComplete ==
  ASSUME IsolationInv, CompleteInv, generation' \in Gens, generation' > generation,
         chan' = chan \/ Receive, SnapshotsComplete',
         OneWatch(store'), store'.synced => StableKeys \subseteq KeysOf(store'.items),
         worker'[generation'].kind # "watch" \/ worker'[generation'].phase = "start"
  PROVE  CompleteInv'
<1>1. /\ chan' \in Seq(MsgType) /\ DOMAIN chan' = 1 .. Len(chan')
      /\ \A i \in DOMAIN chan' : chan'[i].gen < generation' /\ chan'[i] \in MsgType
  <2>1. chan' \in Seq(MsgType) /\ \A i \in DOMAIN chan' : chan'[i].gen < generation'
    BY NewGeneration
  <2> QED
    BY <2>1, LenProperties, ElementOfSeq
<1>2. \A i \in 1 .. Len(chan') : chan'[i].gen # generation'
  BY <1>1 DEF MsgType
<1>3. \A i \in 1 .. Len(chan') : chan'[i].type = "Deleted" => chan'[i].key \notin StableKeys
  <2>1. CASE chan' = chan
    BY <2>1 DEF CompleteInv
  <2>2. CASE Receive
    <3>1. chan \in Seq(MsgType)
      BY DEF IsolationInv, TypeOK
    <3>2. \A i \in DOMAIN chan' : i + 1 \in 1 .. Len(chan) /\ chan'[i] = chan[i + 1]
      BY <2>2, <3>1, ReceiveKeeps, LenProperties
    <3> QED
      BY <1>1, <3>2 DEF CompleteInv
  <2> QED
    BY <2>1, <2>2
<1> QED
  BY <1>2, <1>3 DEF CompleteInv

\* A table started over, from a snapshot or empty: its list is to come.
LEMMA StartComplete ==
  ASSUME NEW rows PROVE OneWatch(Seed(rows)) /\ ~Seed(rows).synced
  BY DEF OneWatch, Seed, Unpartitioned

\* A task sends a row message.
LEMMA SendComplete ==
  ASSUME IsolationInv, CompleteInv, NEW g \in Gens, NEW msg \in MsgType, msg.gen = g,
         NEW phase \in {"start", "list", "live", "done"}, NEW sent,
         Sends(g, msg, phase, sent),
         msg.type = "Deleted" => msg.key \notin StableKeys,
         msg.type = "Synced" =>
           worker[g].kind = "watch" /\ worker[g].phase = "list" /\ StableKeys \subseteq worker[g].sent,
         worker[g].kind = "watch" /\ phase = "list" =>
           \/ msg.type = "Reset" /\ sent = {}
           \/ /\ worker[g].phase = "list" /\ msg.type = "Applied"
              /\ sent = worker[g].sent \cup {msg.key}
  PROVE  CompleteInv'
<1> DEFINE n == Len(chan)
<1>0. TypeOK /\ UNCHANGED <<generation, store, cache>>
  BY DEF IsolationInv, Sends, table
<1>1. chan \in Seq(MsgType) /\ chan' = Append(chan, msg) /\ n \in Nat
  BY <1>0, LenProperties DEF TypeOK, Sends
<1>2. /\ Len(chan') = n + 1 /\ \A i \in 1 .. n : chan'[i] = chan[i]
      /\ chan'[n + 1] = msg
      /\ \A i \in 1 .. n + 1 : i \in 1 .. n \/ i = n + 1
  BY <1>1, AppendProperties
<1>3. /\ worker'[generation].kind = worker[generation].kind
      /\ worker'[generation].phase = IF g = generation THEN phase ELSE worker[generation].phase
      /\ worker'[generation].sent = IF g = generation THEN sent ELSE worker[generation].sent
  <2>1. worker \in [Gens -> WorkerType] /\ generation \in Gens
    BY <1>0 DEF TypeOK
  <2>2. worker' = [worker EXCEPT ![g] = [worker[g] EXCEPT !.phase = phase, !.sent = sent]]
    BY <2>1 DEF Sends
  <2> QED
    BY <2>1, <2>2 DEF WorkerType
<1>4. \A i \in 1 .. n + 1 : chan'[i].type = "Deleted" => chan'[i].key \notin StableKeys
  BY <1>2 DEF CompleteInv
<1>5. ASSUME NEW i \in 1 .. n + 1, chan'[i].gen = generation, chan'[i].type = "Synced",
             NEW k \in StableKeys
      PROVE  Seen(chan', generation, Listed(store), k, i - 1)
  <2>1. CASE i \in 1 .. n
    <3>1. Seen(chan, generation, Listed(store), k, i - 1)
      BY <1>2, <1>5, <2>1 DEF CompleteInv
    <3>2. i - 1 \in 0 .. n
      BY <1>1, <2>1
    <3> QED
      BY <1>1, <3>1, <3>2, SeenSent
  <2>2. CASE i = n + 1
    <3>1. g = generation /\ msg.type = "Synced"
      BY <1>2, <1>5, <2>2
    <3>2. Seen(chan, generation, Listed(store), k, n)
      BY <3>1 DEF CompleteInv
    <3>3. i - 1 = n /\ n \in 0 .. n
      BY <1>1, <2>2
    <3> HIDE DEF n
    <3>4. \A j \in 0 .. Len(chan) : Seen(chan, generation, Listed(store), k, j) => Seen(Append(chan, msg), generation, Listed(store), k, j)
      BY <1>1, SeenSent
    <3> QED
      BY <1>1, <3>2, <3>3, <3>4 DEF n
  <2> QED
    BY <1>2, <2>1, <2>2
<1>6. ASSUME worker'[generation].kind = "watch", worker'[generation].phase = "list",
             NEW k \in StableKeys \cap worker'[generation].sent
      PROVE  Seen(chan', generation, Listed(store), k, n + 1)
  <2>1. CASE g # generation
    <3>1. Seen(chan, generation, Listed(store), k, n)
      BY <1>3, <1>6, <2>1 DEF CompleteInv
    <3>2. ~Resets(msg, generation)
      BY <2>1 DEF Resets
    <3> QED
      BY <1>1, <3>1, <3>2, SeenSent
  <2>2. CASE g = generation
    <3>1. worker[g].phase = "list" /\ msg.type = "Applied" /\ sent = worker[g].sent \cup {msg.key}
      BY <1>3, <1>6, <2>2
    <3>2. CASE k = msg.key
      <4>1. Adds(msg, generation, k)
        BY <2>2, <3>1, <3>2 DEF Adds
      <4> QED
        BY <1>1, <4>1, SeenSent
    <3>3. CASE k # msg.key
      <4>1. Seen(chan, generation, Listed(store), k, n) /\ ~Resets(msg, generation)
        BY <1>3, <1>6, <2>2, <3>1, <3>3 DEF CompleteInv, Resets
      <4> QED
        BY <1>1, <4>1, SeenSent
    <3> QED
      BY <3>2, <3>3
  <2> QED
    BY <2>1, <2>2
<1>7. SnapshotsComplete'
  BY <1>0 DEF CompleteInv, SnapshotsComplete, Cached
<1> QED
  BY <1>0, <1>2, <1>4, <1>5, <1>6, <1>7 DEF CompleteInv

\* Every message of every task is such a message.
LEMMA WorkerComplete ==
  ASSUME IsolationInv, CompleteInv, NEW g \in Gens, WorkerStep(g) PROVE CompleteInv'
<1> USE WatchViewAssumption
<1>0. NoKey \in Keys /\ worker[g] \in WorkerType
  BY DEF NoKey, IsolationInv, TypeOK
<1>1. CASE WatchResets(g)
  BY <1>0, <1>1, SendComplete DEF WatchResets, Message, MsgType
<1>2. CASE WatchSyncs(g)
  BY <1>0, <1>2, SendComplete DEF WatchSyncs, Message, MsgType
<1>3. ASSUME NEW k \in Keys, NEW o \in Objects, WatchApplies(g, k, o) PROVE CompleteInv'
  <2> DEFINE sent == IF worker[g].phase = "list" THEN worker[g].sent \cup {k} ELSE {}
             m == Message(g, "Applied", k, o)
  <2>1. m \in MsgType /\ m.gen = g /\ m.type = "Applied" /\ m.key = k
    BY DEF Message, MsgType
  <2>2. /\ Sends(g, m, worker[g].phase, sent) /\ worker[g].kind = "watch"
        /\ worker[g].phase \in {"start", "list", "live", "done"}
        /\ worker[g].phase = "list" => sent = worker[g].sent \cup {k}
    BY <1>3 DEF WatchApplies
  <2> HIDE DEF sent, m
  <2> QED
    BY <2>1, <2>2, SendComplete
<1>4. ASSUME NEW k \in Keys, WatchDeletes(g, k) PROVE CompleteInv'
  BY <1>0, <1>4, SendComplete DEF WatchDeletes, Message, MsgType
<1>5. CASE ConnectReturns(g)
  <2>1. PICK outcome \in {"Connected", "ConnectFailed", "NeedsInput"} :
          Sends(g, Answer(g, outcome), "done", {})
    BY <1>5 DEF ConnectReturns
  <2>2. Answer(g, outcome) \in MsgType
    BY <1>0 DEF Answer, MsgType, WorkerType
  <2> QED
    BY <2>1, <2>2, SendComplete DEF Answer
<1> QED
  BY <1>1, <1>2, <1>3, <1>4, <1>5 DEF WorkerStep

\* The head of the channel is handled, into the store if it is a current row.
LEMMA ReceiveComplete ==
  ASSUME IsolationInv, CompleteInv, Receive, UNCHANGED <<generation, worker, cache>>,
         \/ store' = store /\ ~(msgHead.gen = generation /\ msgHead.type \in RowTypes)
         \/ msgHead.gen = generation /\ msgHead.type \in RowTypes /\ store' = FoldRow(store, msgHead)
  PROVE  CompleteInv'
<1> DEFINE n == Len(chan)
           m == msgHead
           q == chan
<1>0. TypeOK /\ q \in Seq(MsgType) /\ q # <<>> /\ chan' = Tail(q)
  BY DEF IsolationInv, TypeOK, Receive
<1>1. /\ n \in Nat /\ 1 \in 1 .. n /\ m = q[1] /\ m \in MsgType
      /\ Len(chan') = n - 1 /\ \A i \in 1 .. n - 1 : chan'[i] = q[i + 1] /\ i + 1 \in 1 .. n
  <2>1. n \in Nat /\ DOMAIN chan = 1 .. n
    BY <1>0, LenProperties
  <2>2. 1 \in DOMAIN chan /\ m = q[1] /\ m \in MsgType
    BY <1>0, ReceiveKeeps
  <2>3. Len(Tail(q)) = n - 1 /\ \A i \in 1 .. n - 1 : Tail(q)[i] = q[i + 1]
    BY <1>0, HeadTailProperties
  <2>4. \A i \in 1 .. n - 1 : i + 1 \in 1 .. n
    BY <2>1
  <2> QED
    BY <1>0, <2>1, <2>2, <2>3, <2>4
<1>m. m.gen = generation => (m.type = "Applied" => m.obj \in Objects)
  <2>1. 1 \in DOMAIN chan /\ msgHead = chan[1]
    BY <1>0, ReceiveKeeps
  <2> QED
    BY <2>1 DEF IsolationInv, GenerationInv, CurrentMessage
<1> HIDE DEF n, m, q
<1>2. store \in StoreType
  BY <1>0 DEF TypeOK
<1>3. ASSUME m.gen = generation, m.type \in RowTypes, store' = FoldRow(store, m)
      PROVE  /\ OneWatch(store')
             /\ m.type = "Applied" => m.key \in KeysOf(Listed(store'))
             /\ \A k \in KeysOf(Listed(store)) :
                  m.type # "Reset" /\ ~(m.type = "Deleted" /\ m.key = k) => k \in KeysOf(Listed(store'))
             /\ m.type = "Synced" => Listed(store') = Listed(store)
             /\ store'.synced => m.type = "Synced" \/ (store.synced /\ m.type # "Reset")
  BY <1>1, <1>2, <1>3, <1>m, FoldLists DEF CompleteInv
<1>4. ASSUME NEW k \in StableKeys
      PROVE  /\ Adds(m, generation, k) => k \in KeysOf(Listed(store'))
             /\ k \in KeysOf(Listed(store)) /\ ~Resets(m, generation) => k \in KeysOf(Listed(store'))
  <2>1. m.type = "Deleted" => m.key # k
    BY <1>1 DEF CompleteInv, q, n
  <2>2. CASE store' = store /\ ~(m.gen = generation /\ m.type \in RowTypes)
    BY <2>2 DEF Adds, RowTypes
  <2>3. CASE m.gen = generation /\ m.type \in RowTypes /\ store' = FoldRow(store, m)
    BY <1>3, <2>1, <2>3 DEF Adds, Resets
  <2> QED
    BY <2>2, <2>3 DEF m
<1>5. ASSUME NEW k \in StableKeys, NEW i \in 1 .. n, Seen(q, generation, Listed(store), k, i)
      PROVE  Seen(chan', generation, Listed(store'), k, i - 1)
  <2>1. /\ Adds(q[1], generation, k) => k \in KeysOf(Listed(store'))
        /\ k \in KeysOf(Listed(store)) /\ ~Resets(q[1], generation) => k \in KeysOf(Listed(store'))
    BY <1>1, <1>4
  <2>2. i \in 1 .. Len(q)
    BY DEF n, q
  <2> QED
    BY <1>0, <1>5, <2>1, <2>2, SeenReceived
<1>6. OneWatch(store') /\ (store'.synced => StableKeys \subseteq KeysOf(store'.items))
  <2>1. CASE store' = store
    BY <2>1 DEF CompleteInv
  <2>2. CASE m.gen = generation /\ m.type \in RowTypes /\ store' = FoldRow(store, m)
    <3>1. OneWatch(store')
      BY <1>3, <2>2
    <3>2. ASSUME store'.synced, NEW k \in StableKeys PROVE k \in KeysOf(Listed(store'))
      <4>1. CASE m.type = "Synced"
        <5>1. Seen(q, generation, Listed(store), k, 1 - 1)
          BY <1>1, <2>2, <4>1 DEF CompleteInv, q, n
        <5>2. k \in KeysOf(Listed(store))
          <6>1. 1 .. 1 - 1 = {}
            OBVIOUS
          <6> QED
            BY <5>1, <6>1 DEF Seen
        <5> QED
          BY <1>3, <2>2, <4>1, <5>2
      <4>2. CASE store.synced /\ m.type # "Reset"
        <5>1. k \in KeysOf(Listed(store))
          BY <4>2 DEF CompleteInv, OneWatch, Listed
        <5> QED
          BY <1>4, <4>2, <5>1 DEF Resets
      <4> QED
        BY <1>3, <2>2, <3>2, <4>1, <4>2
    <3> QED
      BY <3>1, <3>2 DEF OneWatch, Listed
  <2> QED
    BY <2>1, <2>2 DEF m
<1>7. \A i \in 1 .. n - 1 : chan'[i].type = "Deleted" => chan'[i].key \notin StableKeys
  BY <1>1 DEF CompleteInv, q, n
<1>8. ASSUME NEW i \in 1 .. n - 1, chan'[i].gen = generation, chan'[i].type = "Synced", NEW k \in StableKeys
      PROVE  Seen(chan', generation, Listed(store'), k, i - 1)
  <2>1. i + 1 \in 1 .. n /\ (i + 1) - 1 = i /\ i \in 1 .. n
    BY <1>1
  <2>2. Seen(q, generation, Listed(store), k, i)
    BY <1>1, <1>8, <2>1 DEF CompleteInv, q, n
  <2> QED
    BY <1>5, <2>1, <2>2
<1>9. ASSUME worker[generation].kind = "watch", worker[generation].phase = "list",
             NEW k \in StableKeys \cap worker[generation].sent
      PROVE  Seen(chan', generation, Listed(store'), k, n - 1)
  <2>1. Seen(q, generation, Listed(store), k, n)
    BY <1>9 DEF CompleteInv, q, n
  <2>2. n \in 1 .. n
    BY <1>1
  <2> QED
    BY <1>5, <2>1, <2>2
<1>10. SnapshotsComplete'
  BY DEF CompleteInv, SnapshotsComplete, Cached
<1> QED
  BY <1>1, <1>6, <1>7, <1>8, <1>9, <1>10 DEF CompleteInv

\* Every step keeps it.
LEMMA CompleteStep == ASSUME IsolationInv, CompleteInv, [Next]_vars PROVE CompleteInv'
<1> USE WatchViewAssumption
<1>0. TypeOK /\ generation \in Nat /\ worker \in [Gens -> WorkerType]
  BY DEF IsolationInv, TypeOK
<1>e. ASSUME cache' = [v \in Views |-> NoRows] PROVE SnapshotsComplete'
  BY <1>e DEF SnapshotsComplete, Cached, KeysOf, NoRows
<1>w. ASSUME NEW c, NEW v, NEW gen \in Nat, StartWatch(c, v, gen), gen > generation,
             chan' = chan \/ Receive, SnapshotsComplete'
      PROVE  CompleteInv'
  <2>1. generation' = gen /\ generation' \in Gens /\ worker'[gen].phase = "start"
    BY <1>0, <1>w DEF StartWatch, Watching
  <2>2. \E rows : store' = Seed(rows)
    BY <1>w DEF StartWatch, Clear, Seed
  <2> QED
    BY <1>w, <2>1, <2>2, StartComplete, NewGenerationComplete
<1>1. ASSUME NEW v \in Views, OpenView(v) PROVE CompleteInv'
  <2>1. SnapshotsComplete'
    BY <1>0, <1>1, StashComplete DEF OpenView
  <2> QED
    BY <1>0, <1>1, <1>w, <2>1 DEF OpenView
<1>2. CASE OpenDashboard
  <2>1. generation' = generation + 1 /\ generation' \in Gens /\ generation' > generation
    BY <1>0, <1>2 DEF OpenDashboard
  <2>2. worker'[generation'].kind = "idle" /\ UNCHANGED <<chan, store, cache>>
    BY <1>2, <2>1 DEF OpenDashboard, table, IsolationInv, GenerationInv
  <2>3. SnapshotsComplete'
    BY <2>2 DEF CompleteInv, SnapshotsComplete, Cached
  <2> QED
    BY <2>1, <2>2, <2>3, NewGenerationComplete DEF CompleteInv
<1>f. ASSUME generation' = generation + 1, generation < MaxGen, chan' = chan, StashViewSnapshot, store' = Clear,
             worker'[generation'].kind # "watch"
      PROVE  CompleteInv'
  <2>1. generation' \in Gens /\ generation' > generation
    BY <1>0, <1>f
  <2>2. SnapshotsComplete'
    BY <1>0, <1>f, StashComplete
  <2>3. OneWatch(store') /\ ~store'.synced
    BY <1>f, StartComplete DEF Clear, Seed
  <2> QED
    BY <1>f, <2>1, <2>2, <2>3, NewGenerationComplete
<1>3. CASE OpenFleet
  <2>1. generation' \in Gens /\ generation' > generation /\ generation' = generation + 1
    BY <1>0, <1>3 DEF OpenFleet
  <2>2. worker'[generation'].kind = "idle"
    BY <1>3, <2>1 DEF OpenFleet, IsolationInv, GenerationInv
  <2> QED
    BY <1>3, <1>f, <2>2 DEF OpenFleet
<1>c. ASSUME NEW c, NEW dest, Connect(c, dest) PROVE CompleteInv'
  <2>1. generation' \in Gens /\ generation' = generation + 1
    BY <1>0, <1>c DEF Connect
  <2>2. worker'[generation'].kind = "connect"
    BY <1>0, <1>c, <2>1 DEF Connect, Connecting
  <2> QED
    BY <1>c, <1>f, <2>2 DEF Connect
<1>4. ASSUME NEW c \in Contexts, NEW dest \in Dests(c), SwitchContext(c, dest) PROVE CompleteInv'
  BY <1>4, <1>c DEF SwitchContext
<1>5. CASE Authenticated
  BY <1>5, <1>c DEF Authenticated
<1>6. CASE UNCHANGED <<generation, worker, chan, store, cache>>
  BY <1>6 DEF CompleteInv, SnapshotsComplete, Cached
<1>7. ASSUME NEW c \in Contexts, NEW dest \in Dests(c), RetargetSwitch(c, dest) PROVE CompleteInv'
  BY <1>6, <1>7 DEF RetargetSwitch, table
<1>8. CASE DeclineAuthentication
  BY <1>6, <1>8 DEF DeclineAuthentication, table
<1>9. ASSUME NEW g \in Gens, WorkerStep(g) PROVE CompleteInv'
  BY <1>9, WorkerComplete
<1>10. CASE HandleStale
  BY <1>10, ReceiveComplete DEF HandleStale, Current, table
<1>11. CASE HandleRow
  BY <1>11, ReceiveComplete DEF HandleRow, Current, RowTypes
<1>12. CASE HandleConnectFailed
  <2>1. msgHead.type \notin RowTypes
    BY <1>12 DEF HandleConnectFailed, RowTypes
  <2> QED
    BY <1>12, <2>1, ReceiveComplete DEF HandleConnectFailed, table
<1>13. CASE HandleConnected
  <2>1. PICK v \in LandingViews : StartWatch(msgHead.ctx, v, generation + 2)
    BY <1>13 DEF HandleConnected
  <2>2. generation + 2 \in Nat /\ generation + 2 > generation /\ SnapshotsComplete'
    BY <1>0, <1>13, <1>e DEF HandleConnected
  <2> QED
    BY <1>13, <1>w, <2>1, <2>2 DEF HandleConnected
<1>14. CASE HandleConnectedNowhere
  <2>1. generation' \in Gens /\ generation' > generation /\ generation' = generation + 1
    BY <1>0, <1>14 DEF HandleConnectedNowhere
  <2>2. worker'[generation'].kind = "idle"
    BY <1>14, <2>1 DEF HandleConnectedNowhere, IsolationInv, GenerationInv
  <2>3. SnapshotsComplete' /\ store' = store
    BY <1>14, <1>e DEF HandleConnectedNowhere
  <2> QED
    BY <1>14, <2>1, <2>2, <2>3, NewGenerationComplete DEF HandleConnectedNowhere, CompleteInv
<1>15. CASE UNCHANGED vars
  BY <1>6, <1>15 DEF vars
<1> QED
  BY <1>1, <1>2, <1>3, <1>4, <1>5, <1>7, <1>8, <1>9, <1>10, <1>11, <1>12, <1>13, <1>14, <1>15
     DEF Next, UserStep, HandleMsg

\* A snapshot is never a partial list: it has every row the server always had.
THEOREM SnapshotsWhole == Spec => []SnapshotsComplete
<1>1. Init => CompleteInv
  <2> SUFFICES ASSUME Init PROVE CompleteInv
    OBVIOUS
  <2>1. OneWatch(store) /\ ~store.synced
    BY StartComplete DEF Init, Clear, Seed
  <2>2. 1 .. Len(chan) = {} /\ worker[generation].phase = "start"
    BY WatchViewAssumption DEF Init, Watching
  <2>3. SnapshotsComplete
    BY DEF Init, SnapshotsComplete, Cached, KeysOf, NoRows
  <2> QED
    BY <2>1, <2>2, <2>3 DEF CompleteInv
<1>2. IsolationInv /\ CompleteInv /\ [Next]_vars => CompleteInv'
  BY CompleteStep
<1>3. CompleteInv => SnapshotsComplete
  BY DEF CompleteInv
<1> QED
  BY <1>1, <1>2, <1>3, Isolation, PTL DEF Spec
=============================================================================
