----------------------------- MODULE MCWatchView -----------------------------
(* Small instances of WatchView for TLC: one object per context and view. *)
EXTENDS WatchViewProps, TLC

CONSTANTS k1, k2, prod, dev, pods, nodes, jobs

MCObjects == Origins
MCSource == [o \in MCObjects |-> o]
\* The clusters are interchangeable; the views are not (DefaultView).
MCSymmetry == Permutations(Contexts)
MCHome == [k \in Keys |-> NoPartition]

\* Bounds of the run switches, the states it goes on from: one table of one row, over
\* switches that overtake each other; or, on one cluster, two tables of two rows in three
\* generations, or three of one row in four, each listed once, and left before that or after.
Visited(vs) == \A v \in {pending.view} \cup {worker[g].view : g \in Gens} : v \in vs \cup {NoView}
OneRow ==
  /\ \A rows \in {store.items, store.pending} \cup {cache[v] : v \in Views} :
       KeysOf(rows) \subseteq {k1}
  /\ \A g \in Gens : worker[g].sent \subseteq {k1}
  /\ \A i \in DOMAIN chan : chan[i].type # "Deleted"
OneCluster == \A g \in Gens : worker[g].kind # "connect"
ListedOnce ==
  /\ \A g \in Gens : g < generation => worker[g].phase # "list"
  /\ \A i \in DOMAIN chan :
       chan[i].gen = generation /\ (chan[i].type \in {"Reset", "Applied"} => ~store.synced)

Switching == Visited({pods}) /\ OneRow
TwoTables == OneCluster /\ generation <= 3 /\ Visited({pods, nodes})
ThreeTables == OneCluster /\ generation <= 4 /\ OneRow /\ ListedOnce

Explored == Switching \/ TwoTables \/ ThreeTables
==============================================================================
