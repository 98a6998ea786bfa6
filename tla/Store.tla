------------------------------- MODULE Store -------------------------------
(***************************************************************************)
(* The row store behind a resource table (src/src/store.rs).               *)
(*                                                                         *)
(* Every operator takes a store and returns the store the Rust method      *)
(* leaves behind.  A row map is a total function from Keys: NoObj stands   *)
(* for "no entry".  `pending: Option<Items>` is the pair of fields         *)
(* buffering (is it Some?) and pending (the buffered rows); in the same    *)
(* way nsBuffering is the domain of namespace_pending, and parts is the    *)
(* domain of namespace_keys and namespace_ready, which the code fills      *)
(* together.  The `version` counter only feeds render caches and is left   *)
(* out.                                                                    *)
(***************************************************************************)
EXTENDS Naturals, FiniteSets

CONSTANTS
  Keys,        \* row keys ("namespace/name")
  Objects,     \* object versions a watch may deliver
  NoObj,       \* the absent row
  Partitions,  \* namespaces watched separately; {} for a plain view
  NoPartition, \* the key has no namespace
  Home         \* Home[k]: the namespace in the key

ASSUME StoreAssumption ==
  /\ NoObj \notin Objects
  /\ NoPartition \notin Partitions
  /\ Home \in [Keys -> Partitions \cup {NoPartition}]

Rows == [Keys -> Objects \cup {NoObj}]
NoRows == [k \in Keys |-> NoObj]
KeysOf(rows) == {k \in Keys : rows[k] # NoObj}

StoreType ==
  [ items       : Rows,
    buffering   : BOOLEAN,
    pending     : Rows,
    synced      : BOOLEAN,
    parts       : SUBSET Partitions,
    nsBuffering : SUBSET Partitions,
    nsPending   : [Partitions -> Rows],
    nsReady     : SUBSET Partitions,
    nsKeys      : [Partitions -> SUBSET Keys] ]

\* Shared tail of clear, seed and take_items: no partition, no buffer, unsynced.
Unpartitioned(rows) ==
  [ items       |-> rows,
    buffering   |-> FALSE,
    pending     |-> NoRows,
    synced      |-> FALSE,
    parts       |-> {},
    nsBuffering |-> {},
    nsPending   |-> [p \in Partitions |-> NoRows],
    nsReady     |-> {},
    nsKeys      |-> [p \in Partitions |-> {}] ]

Clear == Unpartitioned(NoRows)
Seed(rows) == Unpartitioned(rows)
TakeItems == Unpartitioned(NoRows)

-----------------------------------------------------------------------------
(* One watch: a (re)list is buffered only when there are rows to keep.     *)

BeginReset(s) ==
  [s EXCEPT !.synced = FALSE,
            !.buffering = KeysOf(s.items) # {},
            !.pending = NoRows]

\* Mutants: the fresh list is added to the old rows; the buffer stays open; only
\* an unbuffered list counts as synced.
FinishSyncMerging(s) ==
  [s EXCEPT !.synced = TRUE,
            !.items = [k \in Keys |-> IF s.pending[k] # NoObj THEN s.pending[k] ELSE @[k]],
            !.buffering = FALSE,
            !.pending = NoRows]
FinishSyncLeavesBuffer(s) ==
  [s EXCEPT !.synced = TRUE,
            !.items = IF s.buffering THEN s.pending ELSE @]
FinishSyncUnbuffered(s) ==
  [s EXCEPT !.synced = ~s.buffering,
            !.items = IF s.buffering THEN s.pending ELSE @,
            !.buffering = FALSE,
            !.pending = NoRows]

FinishSync(s) ==
  [s EXCEPT !.synced = TRUE,
            !.items = IF s.buffering THEN s.pending ELSE @,
            !.buffering = FALSE,
            !.pending = NoRows]

-----------------------------------------------------------------------------
(* One watch per namespace: each list is buffered on its own.              *)

SetPartitions(s, parts) ==
  [s EXCEPT !.parts = parts,
            !.nsReady = {},
            !.nsKeys = [p \in Partitions |->
                          {k \in KeysOf(s.items) : p \in parts /\ Home[k] = p}]]

BeginNamespaceReset(s, p) ==
  [s EXCEPT !.synced = FALSE,
            !.parts = @ \cup {p},
            !.nsReady = @ \ {p},
            !.nsBuffering = @ \cup {p},
            !.nsPending[p] = NoRows]

\* The namespace's old rows go, its fresh rows come in, in one step.
FinishNamespaceSync(s, p) ==
  LET swap == p \in s.nsBuffering
      fresh == s.nsPending[p]
      ready == s.nsReady \cup {p}
  IN [s EXCEPT
       !.items = IF swap
                 THEN [k \in Keys |-> IF fresh[k] # NoObj THEN fresh[k]
                                      ELSE IF k \in s.nsKeys[p] THEN NoObj
                                      ELSE s.items[k]]
                 ELSE @,
       !.nsKeys[p] = IF swap THEN KeysOf(fresh) ELSE @,
       !.nsBuffering = @ \ {p},
       !.nsPending[p] = NoRows,
       !.parts = @ \cup {p},
       !.nsReady = ready,
       !.synced = (s.parts \subseteq ready)]

-----------------------------------------------------------------------------
(* A watched row, routed to the namespace's buffer, the plain buffer or    *)
(* the visible rows.  p is the watch's namespace, or Home[k] without one.  *)

SetRow(s, p, k, row) ==
  IF p \in s.nsBuffering THEN [s EXCEPT !.nsPending[p][k] = row]
  ELSE IF s.buffering THEN [s EXCEPT !.pending[k] = row]
  ELSE [s EXCEPT !.items[k] = row]

ApplyIn(s, p, k, obj) ==
  IF p \in s.parts /\ p \notin s.nsBuffering /\ ~s.buffering
  THEN [SetRow(s, p, k, obj) EXCEPT !.nsKeys[p] = @ \cup {k}]
  ELSE SetRow(s, p, k, obj)

RemoveIn(s, p, k) ==
  IF p \in s.parts /\ p \notin s.nsBuffering /\ ~s.buffering
  THEN [SetRow(s, p, k, NoObj) EXCEPT !.nsKeys[p] = @ \ {k}]
  ELSE SetRow(s, p, k, NoObj)

Apply(s, k, obj) == ApplyIn(s, Home[k], k, obj)
Remove(s, k) == RemoveIn(s, Home[k], k)

\* The newest version of a row: the buffered one, else the visible one.
LatestIn(s, p, k) ==
  IF p \in s.nsBuffering /\ s.nsPending[p][k] # NoObj THEN s.nsPending[p][k]
  ELSE IF s.buffering /\ s.pending[k] # NoObj THEN s.pending[k]
  ELSE s.items[k]
=============================================================================
