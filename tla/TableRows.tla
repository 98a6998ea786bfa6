----------------------------- MODULE TableRows ------------------------------
(***************************************************************************)
(* The table (src/src/app/rows.rs): which rows of the store are listed, in *)
(* which order and under which filter, kept in caches that watch events,   *)
(* polls, the server's own columns and keys invalidate piecewise; and the  *)
(* cursor, an index into that list, which a filter, a relist and the       *)
(* faults filter keep on an object.                                        *)
(*                                                                         *)
(* A key is a number, its rank by namespace and name.  What the columns    *)
(* show of an object is one number, `Cell`: its own value and what the     *)
(* server prints for it, which changes on its own.  A filter tests that    *)
(* text, the metrics or the age.  The store is Store's; here a relist      *)
(* replaces rows when it ends, and a new watch starts from nothing or from *)
(* the snapshot of its view.                                               *)
(***************************************************************************)
EXTENDS Naturals, Sequences, FiniteSets

CONSTANTS
  Ranks,                   \* keys of rows, in the order of their names
  Shapes,                  \* [owned, faulty, value] an object may have, value 0 or 1
  Filters,                 \* among them "none"; "text", "load", "age"
  SortKeys,                \* among them "none"; "column", "load"
  None,
  MaxEvents, MaxKeys       \* bounds

ASSUME TableAssumption ==
  /\ Ranks \subseteq Nat /\ IsFiniteSet(Ranks)
  /\ Shapes \subseteq [owned : BOOLEAN, faulty : BOOLEAN, value : {0, 1}]
  /\ Filters \subseteq {"none", "text", "load", "age"}
  /\ SortKeys \subseteq {"none", "column", "load"}
  /\ None \notin Nat
  /\ None \notin [uid : Nat, rev : Nat, born : Nat, owned : BOOLEAN, faulty : BOOLEAN,
                 value : {0, 1}]
  /\ None \notin [rev : Nat, text : Nat]
  /\ None \notin [key : Ranks, uid : Nat]
  /\ None \notin [gen : Nat, key : Ranks, index : Nat]

VARIABLES
  app,      \* the fields of App that the table reads, and rows_cache
  adopted,  \* rows whose controller changed since the list was last built
  chosen,   \* the object the cursor was last put on
  held,     \* the row a filter was typed over, while its watch lists
  events, keyed

tableVars == <<app, adopted, chosen, held, events, keyed>>

-----------------------------------------------------------------------------
(* What is listed                                                          *)

Cell(a, k) == a.objects[k].value + a.printed[k]

\* in_owner_scope, workload_row_visible
Visible(a, k) ==
  a.objects[k] # None /\ (a.workloads /\ ~a.all => ~a.objects[k].owned)

\* matches_filter_cached, given what the row's columns show.
Passes(a, k, text) ==
  /\ a.faults => a.objects[k].faulty
  /\ CASE a.filter = "none" -> TRUE
       [] a.filter = "text" -> text = 1
       [] a.filter = "load" -> a.load[k] = 1
       [] a.filter = "age"  -> a.now > a.objects[k].born

\* By the sort column, then by name.
Comes(primary, x, y) == primary[x] < primary[y] \/ (primary[x] = primary[y] /\ x < y)

InOrder(s, primary) ==
  \A i, j \in DOMAIN s : i < j => Comes(primary, s[i], s[j])

Ordered(S, primary) ==
  CHOOSE s \in [1 .. Cardinality(S) -> S] : InOrder(s, primary)

\* What is listed, and by what it is sorted, with no cache at all.
Shown(a, k) == Visible(a, k) /\ Passes(a, k, Cell(a, k))

Primary(a) ==
  [k \in Ranks |-> CASE a.sort = "none"   -> 0
                     [] a.sort = "column" -> IF a.objects[k] = None THEN 0 ELSE Cell(a, k)
                     [] a.sort = "load"   -> a.load[k]]

Listing(a) == Ordered({k \in Ranks : Shown(a, k)}, Primary(a))

-----------------------------------------------------------------------------
(* The caches                                                              *)

NoEntry == [k \in Ranks |-> None]

Fresh(a, entry, k) == entry # None /\ entry.rev = a.objects[k].rev

\* cell_entry, and the sort keys: valid for a resource version.
Entry(a, entries, k) ==
  IF Fresh(a, entries[k], k) THEN entries[k]
  ELSE [rev |-> a.objects[k].rev, text |-> Cell(a, k)]

Warm(a, entries, S) ==
  [k \in Ranks |-> IF k \in S THEN Entry(a, entries, k) ELSE entries[k]]

UpToDate(a) == ~a.dirty /\ (a.timed => a.second = a.now)

\* ensure_rows_cache
Ensure(a) ==
  IF UpToDate(a) THEN a ELSE
  LET tested == {k \in Ranks : Visible(a, k) /\ (a.faults => a.objects[k].faulty)}
      cells == IF a.filter = "text" THEN Warm(a, a.cells, tested) ELSE a.cells
      kept == {k \in tested :
                 Passes(a, k, IF a.filter = "text" THEN cells[k].text ELSE 0)}
      sorts == IF a.sort = "column" THEN Warm(a, a.sorts, kept) ELSE a.sorts
      primary == [k \in Ranks |-> CASE a.sort = "none"   -> 0
                                    [] a.sort = "column" -> IF k \in kept THEN sorts[k].text ELSE 0
                                    [] a.sort = "load"   -> a.load[k]]
  IN [a EXCEPT !.keys = Ordered(kept, primary), !.cells = cells, !.sorts = sorts,
               !.dirty = FALSE, !.timed = a.filter = "age", !.second = a.now]

\* clear_rows_cache
Clear(a) ==
  [a EXCEPT !.dirty = TRUE, !.keys = <<>>, !.cells = NoEntry, !.sorts = NoEntry]

Invalidate(a) == [a EXCEPT !.dirty = TRUE]
InvalidateRow(a, k) == [a EXCEPT !.dirty = TRUE, !.cells[k] = None, !.sorts[k] = None]

InvalidateContentsUnlessPlain(a, k) ==
  IF a.filter # "none" \/ a.faults \/ a.sort # "none"
  THEN [a EXCEPT !.cells[k] = None, !.dirty = TRUE] ELSE a

\* invalidate_row_contents: the order stands while nothing is filtered or sorted. (The rows
\* of an owner and of helm, which it always marks, are not among this table's views.)
InvalidateContents(a, k) ==
  [a EXCEPT !.cells[k] = None, !.sorts[k] = None,
            !.dirty = @ \/ a.filter # "none" \/ a.faults \/ a.sort # "none"]

-----------------------------------------------------------------------------
(* The cursor                                                              *)

\* row_index: of a row in a list that is up to date, or None.
RowIndex(a, k) ==
  IF \E i \in DOMAIN a.keys : a.keys[i] = k
  THEN CHOOSE i \in DOMAIN a.keys : a.keys[i] = k ELSE None

\* selected_ref: its key and uid.
Selected(a) ==
  IF a.cursor \in DOMAIN a.keys /\ a.objects[a.keys[a.cursor]] # None
  THEN [key |-> a.keys[a.cursor], uid |-> a.objects[a.keys[a.cursor]].uid]
  ELSE None

\* drop_moved_filter_reselect
DropMoved(a) ==
  IF a.reselect # None /\ (a.reselect.gen # a.gen \/ a.reselect.index # a.cursor)
  THEN [a EXCEPT !.reselect = None] ELSE a

\* filter_anchor
Anchor(a) ==
  IF a.reselect # None /\ a.reselect.gen = a.gen /\ a.reselect.index = a.cursor
  THEN a.reselect.key
  ELSE IF Selected(a) = None THEN None ELSE Selected(a).key

ReselectListed(a0, k) ==
  LET a == Ensure(Invalidate(a0))
      found == IF k = None THEN None ELSE RowIndex(a, k)
      index == IF found = None THEN 1 ELSE found
  IN [a EXCEPT !.cursor = index,
       !.reselect = IF k # None /\ ~a.synced /\ found # None
                    THEN [gen |-> a.gen, key |-> k, index |-> index] ELSE None]

\* reselect_after_filter
Reselect(a0, k) ==
  LET a == Ensure(Invalidate(a0))
      found == IF k = None THEN None ELSE RowIndex(a, k)
      index == IF found = None THEN 1 ELSE found
  IN [a EXCEPT !.cursor = index,
       !.reselect = IF k # None /\ ~a.synced /\ (found # None \/ a.objects[k] = None)
                    THEN [gen |-> a.gen, key |-> k, index |-> index] ELSE None]

StillAtName(before, a) ==
  LET was == Selected(before)
  IN IF was = None \/ a.objects[was.key] = None THEN None ELSE RowIndex(a, was.key)

\* Where the object that was selected is now: the same by its name and uid.
StillAt(before, a) ==
  LET was == Selected(before)
  IN IF was = None \/ a.objects[was.key] = None \/ a.objects[was.key].uid # was.uid
     THEN None ELSE RowIndex(a, was.key)

\* finish_filter_reselect
Finish(a, e) ==
  IF ~a.synced THEN a
  ELSE LET at == RowIndex(e, a.reselect.key)
       IN [e EXCEPT !.reselect = None, !.cursor = IF at = None THEN 1 ELSE at]

\* The end of handle_msg: a filter waiting for the list has the cursor, else the
\* faults filter keeps what was selected before the message.
Settle(before, a0, follow) ==
  LET a == DropMoved(a0)
      e == Ensure(a)
  IN IF a.reselect # None THEN Finish(a, e)
     ELSE IF follow THEN [e EXCEPT !.cursor = StillAt(before, e)] ELSE a

\* preserve_selection: the messages of several watches come wrapped in another.
Live(a) == a.faults /\ ~a.workloads

-----------------------------------------------------------------------------
(* What the steps do to the history the properties need.                   *)

Wrong(a) == Ensure(a).keys # Listing(a)

\* A watch message leaves the cursor to the rules above; anything else may put
\* it on another object.
Chosen(kind) ==
  IF kind = "watch" /\ Live(app) /\ app.reselect = None
  THEN UNCHANGED chosen
  ELSE \E e \in {Ensure(app')} : chosen' = Selected(e)

Adopted(S) == \E a \in {app'} : adopted' = IF Wrong(a) THEN adopted \cup S ELSE {}

-----------------------------------------------------------------------------
(* Messages                                                                *)

Object(shape, old) ==
  [uid |-> IF old = None THEN events + 1 ELSE old.uid,
   rev |-> events + 1, born |-> IF old = None THEN app.now ELSE old.born,
   owned |-> shape.owned, faulty |-> shape.faulty, value |-> shape.value]

Event == events < MaxEvents /\ events' = events + 1 /\ UNCHANGED keyed

\* handle_msg looks at the selection first when it is to be kept.
Before == IF Live(app) THEN Ensure(app) ELSE app

Watched(after, changed) ==
  /\ \E before \in {Before}, a \in {after} : app' = Settle(before, a, Live(app))
  /\ Chosen("watch") /\ Adopted(changed)
  /\ held' = IF app'.synced THEN None ELSE held

\* apply_watched; while a relist is buffered, nothing shows.
Applied(k, shape) ==
  \E a \in {Before} :
  LET o == Object(shape, a.objects[k])
      b == [a EXCEPT !.objects[k] = o]
  IN /\ Event
     /\ Watched(IF a.buffered THEN a
                ELSE IF a.objects[k] = None THEN InvalidateRow(b, k)
                ELSE InvalidateContents(b, k),
                IF a.objects[k] # None /\ ~a.buffered THEN {k} ELSE {})

\* delete_watched
Deleted(k) ==
  LET a == Before
  IN /\ Event /\ app.synced /\ app.objects[k] # None
     /\ Watched(InvalidateRow([a EXCEPT !.objects[k] = None, !.printed[k] = 0], k), {})

\* Msg::Reset
Reset ==
  LET a == [Before EXCEPT !.synced = FALSE]
  IN /\ Event /\ app.synced
     /\ Watched(IF \A k \in Ranks : a.objects[k] = None THEN Clear(a)
                ELSE [a EXCEPT !.buffered = TRUE], {})

\* Msg::Synced, with the rows that were buffered: some as they were, some not
\* there any more, and perhaps another object by a name.
Synced ==
  /\ Event /\ ~app.synced
  /\ IF app.buffered
     THEN \E S \in SUBSET Ranks, shape \in Shapes :
            \E N \in {{}} \cup {{k} : k \in Ranks \ S} :
              Watched(Clear([Before EXCEPT !.synced = TRUE, !.buffered = FALSE,
                !.objects = [k \in Ranks |-> IF k \in S THEN @[k]
                                             ELSE IF k \in N THEN Object(shape, None)
                                             ELSE None]]), {})
     ELSE Watched(IF app.workloads THEN Clear([Before EXCEPT !.synced = TRUE])
                  ELSE [Before EXCEPT !.synced = TRUE], {})

Polled(after) ==
  /\ Event
  /\ \E a \in {after} : app' = Settle(a, a, FALSE)
  /\ Chosen("poll") /\ Adopted({}) /\ UNCHANGED held

\* Msg::Metrics, Msg::NodePods
Metrics(k) ==
  LET a == [app EXCEPT !.load[k] = 1 - @]
  IN Polled(IF app.sort = "load" \/ app.filter = "load" THEN Invalidate(a) ELSE a)

\* Msg::ServerTable: other cells, or other columns.
ServerTable(k) ==
  LET a == [app EXCEPT !.printed[k] = 1 - @]
  IN /\ ~app.workloads /\ app.objects[k] # None
     /\ Polled(InvalidateContents(a, k)) \/ Polled(Clear(a))

Tick ==
  /\ Event /\ app.now = 0 /\ app' = [app EXCEPT !.now = 1]
  /\ Chosen("poll") /\ Adopted({}) /\ UNCHANGED held

-----------------------------------------------------------------------------
(* Keys                                                                    *)

Pressed(a) ==
  /\ app' = DropMoved(a) /\ keyed < MaxKeys /\ keyed' = keyed + 1
  /\ Chosen("key") /\ Adopted({}) /\ UNCHANGED events

\* Moving and clicking: onto any row listed.
MoveTo(i) ==
  \E a \in {Ensure(app)} :
     /\ i \in DOMAIN a.keys
     /\ Pressed([a EXCEPT !.cursor = i])
     /\ held' = IF i = app.cursor THEN held ELSE None

\* start_watch: rows of a snapshot of the view, or none yet.
Restart(a, seeded) ==
  Clear([a EXCEPT !.gen = @ + 1, !.synced = FALSE, !.buffered = seeded,
           !.objects = IF seeded THEN @ ELSE [k \in Ranks |-> None],
           !.load = [k \in Ranks |-> 0], !.printed = [k \in Ranks |-> 0],
           !.cursor = IF @ = None THEN 1 ELSE @])

\* A key that changes what is filtered: the object stays selected, when its
\* watch has listed it if need be.
Filtering(a, anchored) ==
  /\ Pressed(Reselect(a, Anchor(anchored)))
  /\ LET under == IF held # None THEN held
                  ELSE IF Selected(anchored) = None THEN None ELSE Selected(anchored).key
         hidden == /\ under # None /\ app'.objects[under] # None
                   /\ RowIndex(app', under) = None
     IN held' = IF app'.synced \/ hidden THEN None ELSE under

\* key_filter; Esc on the table.  Accepting a filter, or dropping one, may
\* change the selectors of the watch (sync_filter_selectors).
TypeFilter(f, restart, seeded) ==
  LET a == Ensure(app)
      b == [a EXCEPT !.filter = f]
  IN /\ restart => f \in {app.filter, "none"} /\ a.keys # <<>>
     /\ Filtering(IF restart THEN Restart(b, seeded) ELSE b, a)

ToggleFaults ==
  LET a == Ensure(app)
  IN Filtering([a EXCEPT !.faults = ~@], a)

\* toggle_workloads_owned
ToggleOwned ==
  /\ app.workloads
  /\ Pressed(Invalidate([app EXCEPT !.all = ~@, !.cursor = 1]))
  /\ held' = IF app.cursor = 1 THEN held ELSE None

\* apply_sort_choice, a click on a header
SortBy(s) ==
  /\ s # app.sort /\ Pressed(Invalidate([app EXCEPT !.sort = s])) /\ UNCHANGED held

\* Another namespace or kind: a new watch, from its first row.
OtherView(seeded) ==
  /\ Pressed(Restart([app EXCEPT !.cursor = 1], seeded)) /\ held' = None

\* draw_table: what is drawn is rendered once, and the cursor is on a row.
Draw ==
  \E e \in {Ensure(app)} :
  LET n == Len(e.keys)
  IN /\ app' = [e EXCEPT !.cells = Warm(e, @, {k \in Ranks : RowIndex(e, k) # None
                                                              /\ e.objects[k] # None}),
                  !.cursor = IF n > 0 /\ @ # None /\ @ > n THEN n ELSE @]
     /\ Chosen(IF app'.cursor = app.cursor THEN "watch" ELSE "key") /\ Adopted({})
     /\ held' = IF app'.cursor = app.cursor THEN held ELSE None
     /\ UNCHANGED <<events, keyed>>

-----------------------------------------------------------------------------
TableInit ==
  /\ \E w \in BOOLEAN :
       app = [objects |-> [k \in Ranks |-> None], printed |-> [k \in Ranks |-> 0],
              load |-> [k \in Ranks |-> 0], now |-> 0, synced |-> FALSE, buffered |-> FALSE,
              gen |-> 0, workloads |-> w, all |-> FALSE, faults |-> FALSE,
              filter |-> "none", sort |-> "none", dirty |-> TRUE, timed |-> FALSE,
              second |-> 0, keys |-> <<>>, cells |-> NoEntry, sorts |-> NoEntry,
              cursor |-> 1, reselect |-> None]
  /\ adopted = {} /\ chosen = None /\ held = None /\ events = 0 /\ keyed = 0

TableNext ==
  \/ \E k \in Ranks, shape \in Shapes : Applied(k, shape)
  \/ \E k \in Ranks : Deleted(k) \/ Metrics(k) \/ ServerTable(k)
  \/ Reset \/ Synced \/ Tick \/ Draw \/ ToggleFaults \/ ToggleOwned
  \/ \E i \in 1..Cardinality(Ranks) : MoveTo(i)
  \/ \E f \in Filters, restart, seeded \in BOOLEAN : TypeFilter(f, restart, seeded)
  \/ \E s \in SortKeys : SortBy(s)
  \/ \E seeded \in BOOLEAN : OtherView(seeded)

TableSpec == TableInit /\ [][TableNext]_tableVars

-----------------------------------------------------------------------------
\* Of the rows of S, what is listed is what should be, in its order.
Lists(a, S) ==
  /\ \A k \in S : (\E i \in DOMAIN a.keys : a.keys[i] = k) <=> Shown(a, k)
  /\ \A i, j \in DOMAIN a.keys :
       i < j /\ {a.keys[i], a.keys[j]} \subseteq S => Comes(Primary(a), a.keys[i], a.keys[j])

\* The rows whose place cannot have become another unnoticed.
Certain == IF app.workloads THEN Ranks \ adopted ELSE Ranks

\* The rows listed, their order and their text are those of the store, the
\* filter and the sort of now, whatever was cached.  Except that a row whose
\* controller changed stays in, or out of, the workloads view.
RowsAreCurrent ==
  LET a == Ensure(app)
  IN /\ Lists(a, Certain)
     /\ \A i \in DOMAIN a.keys :
          LET k == a.keys[i] IN a.objects[k] # None /\ Entry(a, a.cells, k).text = Cell(a, k)

\* Under the faults filter, what the watch of the view brings leaves the
\* cursor on the object it was put on, or on none.
SelectionStays ==
  Live(app) => Selected(Ensure(app)) \in {chosen, None}

\* A filter typed while the rows are still listed leaves the cursor on the
\* object it was on, once they all are.
KeptByFilter ==
  held # None /\ ~app.synced /\ app'.synced =>
    LET a == Ensure(app')
    IN RowIndex(a, held) # None => Selected(a) # None /\ Selected(a).key = held

FilterKeepsObject == [][KeptByFilter]_tableVars
=============================================================================
