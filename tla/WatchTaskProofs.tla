--------------------------- MODULE WatchTaskProofs ---------------------------
(***************************************************************************)
(* TLAPS proofs about one watch (WatchTask) and a view of several          *)
(* namespaces with a watch each (NamespaceWatches), for any keys,          *)
(* revisions, namespaces, failures and channels.                           *)
(*                                                                         *)
(* What carries them is the table once every message on its way is         *)
(* handled (Settled): the invariants relate it, and never the table on the *)
(* screen, to what the watcher has reached, so that sending and handling   *)
(* a message leave it as it is and every other step folds what it sends    *)
(* last.  What is computed message by message (After) is reasoned about by *)
(* induction on sets of numbers (Least, Induction, SameTrace).             *)
(***************************************************************************)
EXTENDS MCWatchTask, SequenceTheorems, FiniteSetTheorems, WellFoundedInduction, TLAPS

-----------------------------------------------------------------------------
\* A set of numbers has a least one.
LEMMA Least ==
  ASSUME NEW T \in SUBSET Nat, T # {}
  PROVE  \E n \in T : \A m \in T : n <= m
<1> DEFINE Below == {p \in Nat \X Nat : p[1] < p[2]}
<1>1. IsWellFoundedOn(Below, Nat)
  <2>1. IsWellFoundedOn(OpToRel(<, Nat), Nat)
    BY NatLessThanWellFounded
  <2> QED
    BY <2>1 DEF OpToRel
<1>2. \A x, y \in Nat : <<x, y>> \in Below <=> x < y
  OBVIOUS
<1> HIDE DEF Below
<1>3. PICK x \in T : \A y \in T : ~ (<<y, x>> \in Below)
  BY <1>1, WFMin
<1>4. \A y \in T : ~(y < x)
  BY <1>2, <1>3
<1> QED
  BY <1>4

\* Induction, for a set of numbers instead of a predicate.
LEMMA Induction ==
  ASSUME NEW T, 0 \in T, \A n \in Nat : n \in T => n + 1 \in T
  PROVE  Nat \subseteq T
<1> SUFFICES ASSUME NEW x \in Nat, x \notin T PROVE FALSE
  OBVIOUS
<1> DEFINE Rest == {n \in Nat : n \notin T}
<1>1. PICK n \in Rest : \A m \in Rest : n <= m
  <2>1. Rest \in SUBSET Nat /\ Rest # {}
    OBVIOUS
  <2> HIDE DEF Rest
  <2> QED
    BY <2>1, Least
<1>2. n # 0 /\ n - 1 \in Nat /\ n - 1 \notin Rest
  BY <1>1
<1>3. (n - 1) + 1 \in T
  BY <1>2
<1> QED
  BY <1>1, <1>2, <1>3

\* Two histories that begin alike and go on alike are alike.
LEMMA SameTrace ==
  ASSUME NEW n \in Nat, NEW f, NEW g, f[0] = g[0],
         \A i \in Nat : i < n /\ f[i] = g[i] => f[i + 1] = g[i + 1]
  PROVE  f[n] = g[n]
<1> DEFINE T == {i \in Nat : i <= n => f[i] = g[i]}
<1>1. 0 \in T
  OBVIOUS
<1>2. \A i \in Nat : i \in T => i + 1 \in T
  OBVIOUS
<1>3. n \in T
  <2> HIDE DEF T
  <2> QED
    BY <1>1, <1>2, Induction
<1> QED
  BY <1>3

-----------------------------------------------------------------------------
\* What the messages handled so far made of the UI: a function that is so exists.
Steps(f, u, ms) ==
  /\ f = [i \in 0 .. Len(ms) |-> f[i]]
  /\ f[0] = u
  /\ \A i \in 1 .. Len(ms) : f[i] = Fold(f[i - 1], ms[i])

\* Such a function exists.
LEMMA StepsExist ==
  ASSUME NEW u, NEW ms, Len(ms) \in Nat
  PROVE  \E f : Steps(f, u, ms)
<1> DEFINE Upto(n) == \E f : /\ f = [i \in 0 .. n |-> f[i]]
                             /\ f[0] = u
                             /\ \A i \in 1 .. n : f[i] = Fold(f[i - 1], ms[i])
           T == {n \in Nat : Upto(n)}
<1>1. Upto(0)
  <2> WITNESS [i \in 0 .. 0 |-> u]
  <2> QED
    OBVIOUS
<1>2. ASSUME NEW n \in Nat, Upto(n) PROVE Upto(n + 1)
  <2>1. PICK f : /\ f = [i \in 0 .. n |-> f[i]]
                 /\ f[0] = u
                 /\ \A i \in 1 .. n : f[i] = Fold(f[i - 1], ms[i])
    BY <1>2
  <2> DEFINE g == [i \in 0 .. n + 1 |-> IF i = n + 1 THEN Fold(f[n], ms[n + 1]) ELSE f[i]]
  <2>2. g = [i \in 0 .. n + 1 |-> g[i]] /\ g[0] = u
    BY <2>1
  <2>3. \A i \in 1 .. n + 1 : g[i] = Fold(g[i - 1], ms[i])
    <3> SUFFICES ASSUME NEW i \in 1 .. n + 1
                 PROVE  g[i] = Fold(g[i - 1], ms[i])
      OBVIOUS
    <3>1. CASE i = n + 1
      <4>1. g[i - 1] = f[n] /\ g[i] = Fold(f[n], ms[n + 1])
        BY <3>1
      <4> QED
        BY <3>1, <4>1
    <3>2. CASE i # n + 1
      <4>1. g[i - 1] = f[i - 1] /\ g[i] = f[i] /\ i \in 1 .. n
        BY <3>2
      <4> QED
        BY <2>1, <4>1
    <3> QED
      BY <3>1, <3>2
  <2> HIDE DEF g
  <2> QED
    BY <2>2, <2>3
<1>3. Len(ms) \in T
  <2>1. 0 \in T /\ \A n \in Nat : n \in T => n + 1 \in T
    <3> HIDE DEF Upto
    <3> QED
      BY <1>1, <1>2
  <2> HIDE DEF T
  <2> QED
    BY <2>1, Induction
<1> QED
  BY <1>3 DEF Steps

\* ... and it is what After computes.
LEMMA AfterIs ==
  ASSUME NEW u, NEW ms, Len(ms) \in Nat
  PROVE  \E f : Steps(f, u, ms) /\ After(u, ms) = f[Len(ms)]
<1> DEFINE Is(f) == f = [n \in 0 .. Len(ms) |-> IF n = 0 THEN u ELSE Fold(f[n - 1], ms[n])]
           after == CHOOSE f : Is(f)
<1>1. \E f : Is(f)
  <2>1. PICK f : Steps(f, u, ms)
    BY StepsExist
  <2>2. \A n \in 0 .. Len(ms) : f[n] = IF n = 0 THEN u ELSE Fold(f[n - 1], ms[n])
    BY <2>1 DEF Steps
  <2>3. f = [n \in 0 .. Len(ms) |-> f[n]]
    BY <2>1 DEF Steps
  <2>4. Is(f)
    BY <2>2, <2>3
  <2> QED
    BY <2>4
<1>2. Is(after)
  <2> HIDE DEF Is
  <2> QED
    BY <1>1
<1>3. After(u, ms) = after[Len(ms)]
  BY DEF After
<1>4. Steps(after, u, ms)
  <2> HIDE DEF after
  <2>1. \A n \in 0 .. Len(ms) : after[n] = IF n = 0 THEN u ELSE Fold(after[n - 1], ms[n])
    BY <1>2
  <2>2. after = [n \in 0 .. Len(ms) |-> after[n]]
    BY <1>2
  <2> QED
    BY <2>1, <2>2 DEF Steps
<1> QED
  BY <1>3, <1>4

\* Whatever goes step by step from u over ms ends in After(u, ms).
Goes(g, u, ms) ==
  /\ g[0] = u
  /\ \A i \in Nat : i < Len(ms) => g[i + 1] = Fold(g[i], ms[i + 1])

\* ... and nothing else does.
LEMMA AfterOf ==
  ASSUME NEW u, NEW ms, Len(ms) \in Nat, NEW g, Goes(g, u, ms)
  PROVE  After(u, ms) = g[Len(ms)]
<1>1. PICK f : Steps(f, u, ms) /\ After(u, ms) = f[Len(ms)]
  BY AfterIs
<1>2. \A i \in Nat : i < Len(ms) => f[i + 1] = Fold(f[i], ms[i + 1])
  <2> SUFFICES ASSUME NEW i \in Nat, i < Len(ms)
               PROVE  f[i + 1] = Fold(f[i], ms[i + 1])
    OBVIOUS
  <2>1. i + 1 \in 1 .. Len(ms) /\ (i + 1) - 1 = i
    OBVIOUS
  <2> QED
    BY <1>1, <2>1 DEF Steps
<1>3. f[0] = g[0]
  BY <1>1 DEF Steps, Goes
<1>4. \A i \in Nat : i < Len(ms) /\ f[i] = g[i] => f[i + 1] = g[i + 1]
  BY <1>2 DEF Goes
<1> QED
  BY <1>1, <1>3, <1>4, SameTrace

\* The messages are handled one list after the other.
LEMMA AfterBoth ==
  ASSUME NEW M, NEW u, NEW ms \in Seq(M), NEW ns \in Seq(M)
  PROVE  After(u, ms \o ns) = After(After(u, ms), ns)
<1>1. PICK f : Steps(f, u, ms) /\ After(u, ms) = f[Len(ms)]
  BY AfterIs
<1>2. PICK h : Steps(h, After(u, ms), ns) /\ After(After(u, ms), ns) = h[Len(ns)]
  BY AfterIs
<1> DEFINE all == ms \o ns
           g == [i \in 0 .. Len(all) |-> IF i <= Len(ms) THEN f[i] ELSE h[i - Len(ms)]]
<1>3. /\ Len(ms) \in Nat /\ Len(ns) \in Nat /\ Len(all) = Len(ms) + Len(ns)
      /\ \A i \in 1 .. Len(all) : all[i] = IF i <= Len(ms) THEN ms[i] ELSE ns[i - Len(ms)]
  OBVIOUS
<1> HIDE DEF all
<1>4. g[0] = u
  BY <1>1, <1>3 DEF Steps
<1>5. ASSUME NEW i \in Nat, i < Len(all)
      PROVE  g[i + 1] = Fold(g[i], all[i + 1])
  <2>1. CASE i + 1 <= Len(ms)
    <3>1. i + 1 \in 1 .. Len(ms) /\ (i + 1) - 1 = i
      BY <1>3, <2>1
    <3>2. f[i + 1] = Fold(f[i], ms[i + 1])
      BY <1>1, <3>1 DEF Steps
    <3>3. g[i + 1] = f[i + 1] /\ g[i] = f[i] /\ all[i + 1] = ms[i + 1]
      BY <1>3, <1>5, <2>1
    <3> QED
      BY <3>2, <3>3
  <2>2. CASE i + 1 > Len(ms)
    <3> DEFINE j == i - Len(ms)
    <3>1. j \in Nat /\ j + 1 \in 1 .. Len(ns) /\ (j + 1) - 1 = j
      BY <1>3, <1>5, <2>2
    <3>2. h[j + 1] = Fold(h[j], ns[j + 1])
      BY <1>2, <3>1 DEF Steps
    <3>3. g[i + 1] = h[j + 1] /\ all[i + 1] = ns[j + 1]
      BY <1>3, <1>5, <2>2
    <3>4. g[i] = h[j]
      <4>1. CASE i = Len(ms)
        BY <1>1, <1>2, <1>3, <1>5, <4>1 DEF Steps
      <4>2. CASE i # Len(ms)
        BY <1>3, <1>5, <2>2, <4>2
      <4> QED
        BY <4>1, <4>2
    <3> HIDE DEF j, g
    <3> QED
      BY <3>2, <3>3, <3>4
  <2> QED
    BY <1>3, <1>5, <2>1, <2>2
<1>6. g[Len(all)] = h[Len(ns)]
  <2>1. CASE Len(ns) = 0
    BY <1>1, <1>2, <1>3, <2>1 DEF Steps
  <2>2. CASE Len(ns) # 0
    BY <1>3, <2>2
  <2> QED
    BY <2>1, <2>2
<1>7. After(u, all) = g[Len(all)]
  <2> HIDE DEF g
  <2>1. Goes(g, u, all)
    BY <1>4, <1>5 DEF Goes
  <2>2. Len(all) \in Nat
    BY <1>3
  <2> QED
    BY <2>1, <2>2, AfterOf
<1> QED
  BY <1>2, <1>6, <1>7 DEF all

\* No message changes nothing, ...
LEMMA AfterNone == ASSUME NEW u PROVE After(u, <<>>) = u
<1> DEFINE g == [i \in 0 .. 0 |-> u]
<1>1. g[0] = u /\ Len(<<>>) = 0 /\ \A i \in Nat : ~(i < 0)
  OBVIOUS
<1> HIDE DEF g
<1>2. Goes(g, u, <<>>)
  BY <1>1 DEF Goes
<1> QED
  BY <1>1, <1>2, AfterOf

\* ... one is folded, ...
LEMMA AfterOne == ASSUME NEW u, NEW m PROVE After(u, <<m>>) = Fold(u, m)
<1> DEFINE g == [i \in 0 .. 1 |-> IF i = 0 THEN u ELSE Fold(u, m)]
           ms == <<m>>
<1>1. g[0] = u /\ g[1] = Fold(u, m) /\ Len(ms) = 1 /\ ms[1] = m
  OBVIOUS
<1>2. \A i \in Nat : i < 1 => i = 0
  OBVIOUS
<1> HIDE DEF g, ms
<1>3. Goes(g, u, ms)
  BY <1>1, <1>2 DEF Goes
<1>4. Len(ms) \in Nat
  BY <1>1
<1>5. After(u, ms) = g[Len(ms)]
  BY <1>3, <1>4, AfterOf
<1> QED
  BY <1>1, <1>5 DEF ms

\* One message more, and one message less.
LEMMA AfterMore ==
  ASSUME NEW M, NEW u, NEW ms \in Seq(M), NEW m \in M
  PROVE  After(u, Append(ms, m)) = Fold(After(u, ms), m)
<1> DEFINE last == <<m>>
<1>1. last \in Seq(M) /\ Append(ms, m) = ms \o last
  OBVIOUS
<1>2. After(After(u, ms), last) = Fold(After(u, ms), m)
  BY AfterOne
<1> HIDE DEF last
<1>3. After(u, ms \o last) = After(After(u, ms), last)
  BY <1>1, AfterBoth
<1> QED
  BY <1>1, <1>2, <1>3

\* ... and the first in the channel may be handled now or later (HandleMsg).
LEMMA AfterFirst ==
  ASSUME NEW M, NEW u, NEW ms \in Seq(M), ms # <<>>
  PROVE  After(Fold(u, Head(ms)), Tail(ms)) = After(u, ms)
<1> DEFINE first == <<Head(ms)>>
           rest == Tail(ms)
<1>1. first \in Seq(M) /\ rest \in Seq(M) /\ ms = first \o rest
  OBVIOUS
<1>2. After(u, first) = Fold(u, Head(ms))
  BY AfterOne
<1> HIDE DEF first, rest
<1>3. After(u, first \o rest) = After(After(u, first), rest)
  BY <1>1, AfterBoth
<1> QED
  BY <1>1, <1>2, <1>3 DEF rest

-----------------------------------------------------------------------------
(* One watch.                                                              *)

AnyKey == CHOOSE k \in Keys : TRUE

\* The messages of one watch (a note names any key).
Message == [type : MsgTypes, key : Keys \cup {AnyKey}, obj : Objects \cup {NoObj}]

\* A store without partitions.
Plain(s) == s \in StoreType /\ s.parts = {} /\ s.nsBuffering = {}

\* Where the kube watcher may be, and the locals of its task and of poll_lists.
Watchers == [state : {"empty", "page", "initial", "listed", "watching"},
             at : 1 .. Now, left : SUBSET Keys, broken : BOOLEAN]
Tasks == [polling : BOOLEAN, usingStreaming : BOOLEAN, initializing : BOOLEAN,
          listing : BOOLEAN, failed : BOOLEAN, seen : Rows, synced : BOOLEAN]

\* Types. The bounds of the runs are no part of them.
TaskTypes ==
  /\ hist \in Seq(Rows) /\ Now \in Nat \ {0}
  /\ apiServer \in Servers /\ watchAllowed \in BOOLEAN
  /\ watcher \in Watchers /\ task \in Tasks
  /\ outbox \in Seq(Message) /\ chan \in Seq(Message)
  /\ notice \in BOOLEAN /\ Plain(store)

\* The cluster changes a row at a time.
OneRow(old, new) ==
  \E k \in Keys, row \in Objects \cup {NoObj} : row # old[k] /\ new = [old EXCEPT ![k] = row]

\* The history goes on by one row at a time.
History == \A i \in 1 .. Now - 1 : OneRow(hist[i], hist[i + 1])

\* The rows that a list which is under way has brought.
Brought(s) == IF s.buffering THEN s.pending ELSE s.items

\* The list was brought, and the table is rows.
Complete(s, rows) == s.synced /\ ~s.buffering /\ s.items = rows

\* The UI of one watch.
UI(s, b) == [store |-> s, notice |-> b]
Shows(u) == u = UI(u.store, u.notice) /\ u.notice \in BOOLEAN /\ Plain(u.store)

\* What the messages on their way make of the table.
Reached ==
  LET s == Settled.store IN
  /\ Shows(Settled)
  /\ ~task.polling =>
       /\ task.seen = NoRows /\ ~task.synced
       /\ watcher.state \in {"listed", "watching"} =>
            Complete(s, hist[watcher.at]) /\ ~task.listing
       /\ watcher.state = "page" => Brought(s) = NoRows
       /\ watcher.state = "initial" =>
            Brought(s) = ListedRows(watcher.at, KeysOf(hist[watcher.at]) \ watcher.left)
  /\ task.polling =>
       /\ task.synced /\ s.synced /\ ~s.buffering
       /\ \A k \in KeysOf(task.seen) : s.items[k] = task.seen[k]

\* ... and of the notice.
Noticed ==
  /\ ~task.failed => ~Settled.notice
  /\ ~task.polling /\ watcher.state = "watching" /\ ~watcher.broken => ~Settled.notice

\* The rows of a list that is not finished were counted, and while polling nothing but these
\* and those of the last poll is in the table.
Counted ==
  LET s == Settled.store IN
  /\ ~task.polling /\ task.listing => KeysOf(Brought(s)) \subseteq counted
  /\ task.polling =>
       KeysOf(s.items) \subseteq
         KeysOf(task.seen) \cup (IF task.usingStreaming THEN counted ELSE {})

\* The inductive invariant of one watch; what was counted is kept apart.
TaskInv == TaskTypes /\ History /\ Reached /\ Noticed

-----------------------------------------------------------------------------
(* What a message does to a store without partitions.                      *)

\* Rows with one set are rows.
LEMMA RowsAre ==
  /\ NoRows \in Rows
  /\ \A k : \A rows \in Rows, row \in Objects \cup {NoObj} : [rows EXCEPT ![k] = row] \in Rows
BY DEF Rows, NoRows

\* A row that comes or goes.
Placed(s, k, row) ==
  IF s.buffering THEN [s EXCEPT !.pending = [@ EXCEPT ![k] = row]]
  ELSE [s EXCEPT !.items = [@ EXCEPT ![k] = row]]

\* A message about a row puts it, or nothing, in its place.
LEMMA FoldRow ==
  ASSUME NEW s, Plain(s), NEW b \in BOOLEAN, NEW m \in Message, m.key \in Keys,
         m.type = "Applied" \/ (m.type = "Deleted" /\ m.obj = NoObj)
  PROVE  /\ Fold(UI(s, b), m) = UI(Placed(s, m.key, m.obj), b)
         /\ Plain(Placed(s, m.key, m.obj))
<1>1. s \in StoreType /\ s.parts = {} /\ s.nsBuffering = {}
  BY DEF Plain
<1>2. Placed(s, m.key, m.obj) \in StoreType /\ Plain(Placed(s, m.key, m.obj))
  BY <1>1, RowsAre DEF Placed, Plain, StoreType, Message
<1>3. Apply(s, m.key, m.obj) = Placed(s, m.key, m.obj)
  BY <1>1 DEF Apply, ApplyIn, SetRow, Placed
<1>4. m.obj = NoObj => Remove(s, m.key) = Placed(s, m.key, m.obj)
  BY <1>1 DEF Remove, RemoveIn, SetRow, Placed
<1> QED
  BY <1>2, <1>3, <1>4 DEF Fold, UI

\* What the other messages of a watch do to the table and the notice.
LEMMA FoldOther ==
  ASSUME NEW s, Plain(s), NEW b \in BOOLEAN
  PROVE  /\ Fold(UI(s, b), Note("Reset")) = UI(BeginReset(s), b)
         /\ Fold(UI(s, b), Note("Synced")) = UI(FinishSync(s), b)
         /\ Fold(UI(s, b), Note("WatchError")) = UI(s, TRUE)
         /\ Fold(UI(s, b), Note("WatchRecovered")) = UI(s, FALSE)
         /\ Fold(UI(s, b), Note("WatchPolling")) = UI(s, FALSE)
         /\ Plain(BeginReset(s)) /\ Plain(FinishSync(s))
         /\ Brought(BeginReset(s)) = NoRows
         /\ Complete(FinishSync(s), Brought(s))
<1>1. s \in StoreType /\ s.parts = {} /\ s.nsBuffering = {}
  BY DEF Plain
<1>2. Plain(BeginReset(s)) /\ Plain(FinishSync(s))
  BY <1>1, RowsAre DEF Plain, BeginReset, FinishSync, StoreType
<1>3. Brought(BeginReset(s)) = NoRows
  <2>1. BeginReset(s).buffering <=> KeysOf(s.items) # {}
    BY <1>1 DEF BeginReset, StoreType
  <2>2. BeginReset(s).pending = NoRows /\ BeginReset(s).items = s.items
    BY <1>1 DEF BeginReset, StoreType
  <2>3. KeysOf(s.items) = {} => s.items = NoRows
    BY <1>1 DEF KeysOf, NoRows, StoreType, Rows
  <2> QED
    BY <2>1, <2>2, <2>3 DEF Brought
<1>4. Complete(FinishSync(s), Brought(s))
  BY <1>1 DEF Complete, Brought, FinishSync, StoreType
<1> QED
  BY <1>2, <1>3, <1>4 DEF Fold, UI, Note

-----------------------------------------------------------------------------
(* Several rows at once.                                                   *)

\* Rows of S laid over old ones, where a store puts them.
Over(old, rows, S) == [k \in Keys |-> IF k \in S THEN rows[k] ELSE old[k]]
With(s, rows, S) ==
  IF s.buffering THEN [s EXCEPT !.pending = Over(s.pending, rows, S)]
  ELSE [s EXCEPT !.items = Over(s.items, rows, S)]

\* Overlaying no row changes nothing, and rows stay rows.
LEMMA OverIs ==
  ASSUME NEW old \in Rows, NEW rows \in Rows
  PROVE  /\ Over(old, rows, {}) = old
         /\ \A S : Over(old, rows, S) \in Rows
BY DEF Over, Rows

\* Overlaying one more row sets it.
LEMMA OverMore ==
  ASSUME NEW old \in Rows, NEW rows \in Rows, NEW S, NEW k \in Keys
  PROVE  Over(old, rows, S \cup {k}) = [Over(old, rows, S) EXCEPT ![k] = rows[k]]
BY DEF Over, Rows

\* So it is for the rows the store is being brought.
LEMMA WithIs ==
  ASSUME NEW s, Plain(s), NEW rows \in Rows
  PROVE  /\ With(s, rows, {}) = s
         /\ \A S : Plain(With(s, rows, S)) /\ With(s, rows, S).buffering = s.buffering
<1>1. /\ s \in StoreType /\ s.parts = {} /\ s.nsBuffering = {}
      /\ s.items \in Rows /\ s.pending \in Rows
  BY DEF Plain, StoreType
<1>2. With(s, rows, {}) = s
  BY <1>1, OverIs DEF With, StoreType
<1>3. ASSUME NEW S
      PROVE  Plain(With(s, rows, S)) /\ With(s, rows, S).buffering = s.buffering
  <2>1. Over(s.items, rows, S) \in Rows /\ Over(s.pending, rows, S) \in Rows
    BY <1>1, OverIs
  <2> QED
    BY <1>1, <2>1 DEF With, Plain, StoreType
<1> QED
  BY <1>2, <1>3

\* ... one row at a time.
LEMMA WithMore ==
  ASSUME NEW s, Plain(s), NEW rows \in Rows, NEW S, NEW k \in Keys
  PROVE  With(s, rows, S \cup {k}) = Placed(With(s, rows, S), k, rows[k])
<1>1. s \in StoreType /\ s.items \in Rows /\ s.pending \in Rows
  BY DEF Plain, StoreType
<1> DEFINE T == S \cup {k}
           t == With(s, rows, S)
<1>2. \A old \in Rows : Over(old, rows, T) = [Over(old, rows, S) EXCEPT ![k] = rows[k]]
  BY OverMore
<1> HIDE DEF T
<1>3. CASE s.buffering
  <2>1. t = [s EXCEPT !.pending = Over(s.pending, rows, S)]
    BY <1>3 DEF With
  <2>2. /\ t.buffering /\ t.pending = Over(s.pending, rows, S)
        /\ \A r : [t EXCEPT !.pending = r] = [s EXCEPT !.pending = r]
    BY <1>1, <1>3, <2>1 DEF StoreType
  <2>3. With(s, rows, T) = [s EXCEPT !.pending = Over(s.pending, rows, T)]
    BY <1>3 DEF With
  <2> HIDE DEF t
  <2>4. Placed(t, k, rows[k]) = [s EXCEPT !.pending = [t.pending EXCEPT ![k] = rows[k]]]
    BY <2>2 DEF Placed
  <2> QED
    BY <1>1, <1>2, <2>2, <2>3, <2>4 DEF t, T
<1>4. CASE ~s.buffering
  <2>1. t = [s EXCEPT !.items = Over(s.items, rows, S)]
    BY <1>4 DEF With
  <2>2. /\ ~t.buffering /\ t.items = Over(s.items, rows, S)
        /\ \A r : [t EXCEPT !.items = r] = [s EXCEPT !.items = r]
    BY <1>1, <1>4, <2>1 DEF StoreType
  <2>3. With(s, rows, T) = [s EXCEPT !.items = Over(s.items, rows, T)]
    BY <1>4 DEF With
  <2> HIDE DEF t
  <2>4. Placed(t, k, rows[k]) = [s EXCEPT !.items = [t.items EXCEPT ![k] = rows[k]]]
    BY <2>2 DEF Placed
  <2> QED
    BY <1>1, <1>2, <2>2, <2>3, <2>4 DEF t, T
<1> QED
  BY <1>3, <1>4

\* Messages that bring rows as they are in `rows`.
Bring(ms, rows) ==
  \A i \in 1 .. Len(ms) :
    /\ ms[i].key \in Keys /\ ms[i].obj = rows[ms[i].key]
    /\ ms[i].type = "Applied" \/ (ms[i].type = "Deleted" /\ ms[i].obj = NoObj)

\* The keys that the first n messages are about.
KeysIn(ms, n) == {ms[i].key : i \in 1 .. n}

\* Messages that each bring a row of rows bring all of those they name.
LEMMA AfterRows ==
  ASSUME NEW s, Plain(s), NEW b \in BOOLEAN, NEW ms \in Seq(Message), NEW rows \in Rows,
         Bring(ms, rows)
  PROVE  After(UI(s, b), ms) = UI(With(s, rows, KeysIn(ms, Len(ms))), b)
<1> DEFINE g == [n \in 0 .. Len(ms) |-> UI(With(s, rows, KeysIn(ms, n)), b)]
<1>1. Len(ms) \in Nat
  OBVIOUS
<1>2. g[0] = UI(s, b)
  <2>1. KeysIn(ms, 0) = {}
    BY DEF KeysIn
  <2> QED
    <3>1. With(s, rows, {}) = s
      BY WithIs
    <3>2. g[0] = UI(With(s, rows, KeysIn(ms, 0)), b)
      BY <1>1
    <3> QED
      BY <2>1, <3>1, <3>2
<1>3. ASSUME NEW i \in Nat, i < Len(ms)
      PROVE  g[i + 1] = Fold(g[i], ms[i + 1])
  <2> DEFINE m == ms[i + 1]
             t == With(s, rows, KeysIn(ms, i))
  <2>1. /\ m \in Message /\ m.key \in Keys /\ m.obj = rows[m.key]
        /\ m.type = "Applied" \/ (m.type = "Deleted" /\ m.obj = NoObj)
    BY <1>1, <1>3 DEF Bring
  <2>2. g[i] = UI(t, b) /\ g[i + 1] = UI(With(s, rows, KeysIn(ms, i + 1)), b)
    BY <1>1, <1>3
  <2>3. KeysIn(ms, i + 1) = KeysIn(ms, i) \cup {m.key}
    <3>1. 1 .. i + 1 = (1 .. i) \cup {i + 1}
      BY <1>3
    <3> QED
      BY <3>1 DEF KeysIn
  <2> HIDE DEF m, g
  <2> DEFINE S == KeysIn(ms, i)
  <2>4. With(s, rows, KeysIn(ms, i + 1)) = Placed(t, m.key, m.obj) /\ Plain(t)
    <3> HIDE DEF S
    <3> DEFINE k == m.key
    <3>1. k \in Keys
      BY <2>1
    <3> HIDE DEF k
    <3>2. With(s, rows, S \cup {k}) = Placed(With(s, rows, S), k, rows[k])
      BY <3>1, WithMore
    <3>3. Plain(With(s, rows, S))
      BY WithIs
    <3> QED
      BY <2>1, <2>3, <3>2, <3>3 DEF S, k
  <2> HIDE DEF t
  <2>5. Fold(UI(t, b), m) = UI(Placed(t, m.key, m.obj), b)
    BY <2>1, <2>4, FoldRow
  <2> QED
    BY <2>2, <2>4, <2>5 DEF m
<1> HIDE DEF g
<1>4. Goes(g, UI(s, b), ms)
  BY <1>2, <1>3 DEF Goes
<1>5. After(UI(s, b), ms) = g[Len(ms)]
  BY <1>1, <1>4, AfterOf
<1> QED
  BY <1>1, <1>5 DEF g

-----------------------------------------------------------------------------
(* What a poll sends.                                                      *)

\* A finite set as a sequence: each element, and no other.
LEMMA SetToSeqIs ==
  ASSUME NEW S, IsFiniteSet(S)
  PROVE  /\ SeqX!SetToSeq(S) \in Seq(S)
         /\ \A x : x \in S <=> \E i \in 1 .. Len(SeqX!SetToSeq(S)) : SeqX!SetToSeq(S)[i] = x
<1> DEFINE n == Cardinality(S)
           q == CHOOSE f \in [1 .. n -> S] : IsInjective(f)
<1>1. n \in Nat /\ IsFiniteSet(1 .. n) /\ Cardinality(1 .. n) = n
  BY FS_CardinalityType, FS_Interval
<1>2. \E f \in [1 .. n -> S] : IsInjective(f)
  BY FS_CardinalityType DEF ExistsBijection, Bijection, Injection
<1>3. q \in [1 .. n -> S] /\ IsInjective(q)
  BY <1>2
<1>4. SeqX!SetToSeq(S) = q
  BY DEF SeqX!SetToSeq, SeqX!IsInjective, IsInjective, SeqX!Cardinality, Cardinality
<1> HIDE DEF q
<1>5. q \in Injection(1 .. n, S)
  BY <1>3 DEF Injection
<1>6. q \in Surjection(1 .. n, S)
  <2> HIDE DEF n
  <2>1. Cardinality(1 .. n) = Cardinality(S)
    BY <1>1 DEF n
  <2> QED
    BY <1>5, <2>1, FS_Injection
<1>7. \A x \in S : \E i \in 1 .. n : q[i] = x
  BY <1>3, <1>6 DEF Surjection
<1> HIDE DEF n
<1>8. q \in Seq(S) /\ Len(q) = n
  BY <1>1, <1>3
<1> QED
  BY <1>3, <1>4, <1>7, <1>8

\* A poll sends the rows that differ from those of the poll before, and only those.
LEMMA DiffIs ==
  ASSUME TaskTypes, NEW rows \in Rows
  PROVE  /\ Diff(rows) \in Seq(Message)
         /\ Bring(Diff(rows), rows)
         /\ KeysIn(Diff(rows), Len(Diff(rows))) = {k \in Keys : rows[k] # task.seen[k]}
<1> DEFINE seen == task.seen
           changed == {k \in KeysOf(rows) : rows[k] # seen[k]}
           gone == KeysOf(seen) \ KeysOf(rows)
           up == SeqX!SetToSeq(changed)
           down == SeqX!SetToSeq(gone)
           ups == [i \in 1 .. Len(up) |-> Applied(up[i], rows[up[i]])]
           downs == [i \in 1 .. Len(down) |-> Deleted(down[i])]
<1>1. Diff(rows) = ups \o downs
  BY DEF Diff
<1>2. IsFiniteSet(changed) /\ IsFiniteSet(gone)
  BY WatchTaskAssumption, FS_Subset DEF KeysOf
<1>3. /\ up \in Seq(changed)
      /\ \A x : x \in changed <=> \E i \in 1 .. Len(up) : up[i] = x
      /\ down \in Seq(gone)
      /\ \A x : x \in gone <=> \E i \in 1 .. Len(down) : down[i] = x
  BY <1>2, SetToSeqIs
<1>4. seen \in Rows
  BY DEF TaskTypes, Tasks
<1>5. /\ \A k \in changed : k \in Keys /\ rows[k] \in Objects /\ rows[k] # seen[k]
      /\ \A k \in gone : k \in Keys /\ rows[k] = NoObj /\ rows[k] # seen[k]
      /\ \A k \in Keys : rows[k] # seen[k] => k \in changed \cup gone
  BY <1>4 DEF Rows, KeysOf
<1> HIDE DEF seen, changed, gone, up, down
<1>6. /\ Len(up) \in Nat /\ \A i \in 1 .. Len(up) : up[i] \in changed
      /\ Len(down) \in Nat /\ \A i \in 1 .. Len(down) : down[i] \in gone
  BY <1>3
<1>7. /\ ups \in Seq(Message) /\ Len(ups) = Len(up)
      /\ \A i \in 1 .. Len(up) :
           /\ ups[i].key = up[i] /\ ups[i].key \in Keys /\ ups[i].obj = rows[ups[i].key]
           /\ ups[i].type = "Applied"
  BY <1>5, <1>6 DEF Applied, Message, MsgTypes
<1>8. /\ downs \in Seq(Message) /\ Len(downs) = Len(down)
      /\ \A i \in 1 .. Len(down) :
           /\ downs[i].key = down[i] /\ downs[i].key \in Keys /\ downs[i].obj = NoObj
           /\ downs[i].obj = rows[downs[i].key] /\ downs[i].type = "Deleted"
  BY <1>5, <1>6 DEF Deleted, Message, MsgTypes
<1> HIDE DEF ups, downs
<1> DEFINE all == ups \o downs
<1>9. /\ all \in Seq(Message) /\ Len(all) = Len(up) + Len(down)
      /\ \A i \in 1 .. Len(up) : i \in 1 .. Len(all) /\ all[i] = ups[i]
      /\ \A i \in 1 .. Len(down) :
           Len(up) + i \in 1 .. Len(all) /\ all[Len(up) + i] = downs[i]
      /\ \A i \in 1 .. Len(all) :
           \/ i \in 1 .. Len(up) /\ all[i] = ups[i]
           \/ i - Len(up) \in 1 .. Len(down) /\ all[i] = downs[i - Len(up)]
  <2> DEFINE m == Len(up)
             n == Len(down)
  <2>1. /\ m \in Nat /\ n \in Nat /\ ups \in Seq(Message) /\ downs \in Seq(Message)
        /\ Len(ups) = m /\ Len(downs) = n
    BY <1>6, <1>7, <1>8
  <2> HIDE DEF m, n
  <2>2. /\ all \in Seq(Message) /\ Len(all) = m + n
        /\ \A i \in 1 .. m + n : all[i] = IF i <= m THEN ups[i] ELSE downs[i - m]
    BY <2>1
  <2> HIDE DEF all
  <2>3. /\ \A i \in 1 .. m : i \in 1 .. m + n
        /\ \A i \in 1 .. n : m + i \in 1 .. m + n /\ ~(m + i <= m) /\ (m + i) - m = i
        /\ \A i \in 1 .. m + n : i \in 1 .. m \/ (i - m \in 1 .. n /\ ~(i <= m))
    BY <2>1
  <2>4. ASSUME NEW i \in 1 .. m PROVE i \in 1 .. Len(all) /\ all[i] = ups[i]
    BY <2>1, <2>2, <2>3
  <2>5. ASSUME NEW i \in 1 .. n PROVE m + i \in 1 .. Len(all) /\ all[m + i] = downs[i]
    <3>1. m + i \in 1 .. m + n /\ ~(m + i <= m) /\ (m + i) - m = i
      BY <2>3
    <3>2. all[m + i] = downs[(m + i) - m]
      BY <2>2, <3>1
    <3> QED
      BY <2>2, <3>1, <3>2
  <2>6. ASSUME NEW i \in 1 .. Len(all)
        PROVE  \/ i \in 1 .. m /\ all[i] = ups[i]
               \/ i - m \in 1 .. n /\ all[i] = downs[i - m]
    <3>1. i \in 1 .. m + n
      BY <2>2
    <3> QED
      BY <2>1, <2>2, <2>3, <3>1
  <2> QED
    BY <2>2, <2>4, <2>5, <2>6 DEF m, n
<1> HIDE DEF all
<1> DEFINE Says(m) ==
             /\ m.key \in Keys /\ m.obj = rows[m.key] /\ rows[m.key] # seen[m.key]
             /\ m.type = "Applied" \/ (m.type = "Deleted" /\ m.obj = NoObj)
<1>19. \A i \in 1 .. Len(all) : Says(all[i])
  <2>1. \A i \in 1 .. Len(up) : Says(ups[i])
    BY <1>5, <1>6, <1>7
  <2>2. \A i \in 1 .. Len(down) : Says(downs[i])
    BY <1>5, <1>6, <1>8
  <2> HIDE DEF Says
  <2> QED
    BY <1>9, <2>1, <2>2
<1>10. Bring(all, rows)
  BY <1>19 DEF Bring
<1>11. KeysIn(all, Len(all)) = {k \in Keys : rows[k] # seen[k]}
  <2>1. ASSUME NEW i \in 1 .. Len(all)
        PROVE  all[i].key \in Keys /\ rows[all[i].key] # seen[all[i].key]
    BY <1>19
  <2>2. ASSUME NEW k \in Keys, rows[k] # seen[k]
        PROVE  \E i \in 1 .. Len(all) : all[i].key = k
    <3>1. CASE k \in changed
      <4>1. PICK i \in 1 .. Len(up) : up[i] = k
        BY <1>3, <3>1
      <4> QED
        BY <1>7, <1>9, <4>1
    <3>2. CASE k \in gone
      <4>1. PICK i \in 1 .. Len(down) : down[i] = k
        BY <1>3, <3>2
      <4> QED
        BY <1>8, <1>9, <4>1
    <3> QED
      BY <1>5, <2>2, <3>1, <3>2
  <2> QED
    BY <2>1, <2>2 DEF KeysIn
<1>12. Diff(rows) = all
  BY <1>1 DEF all
<1> QED
  BY <1>9, <1>10, <1>11, <1>12 DEF seen

-----------------------------------------------------------------------------
(* The messages on their way.                                              *)

\* Any message leaves a store without partitions.
LEMMA FoldAny ==
  ASSUME NEW s, Plain(s), NEW b \in BOOLEAN, NEW m \in Message
  PROVE  Shows(Fold(UI(s, b), m))
<1> DEFINE u == Fold(UI(s, b), m)
<1>1. s \in StoreType /\ s.parts = {} /\ s.nsBuffering = {}
  BY DEF Plain
<1>2. \A k : \A row \in Objects \cup {NoObj} : Plain(Placed(s, k, row))
  BY <1>1, RowsAre DEF Placed, Plain, StoreType
<1>3. m.obj \in Objects \cup {NoObj}
  BY DEF Message
<1>4. Apply(s, m.key, m.obj) = Placed(s, m.key, m.obj)
  BY <1>1 DEF Apply, ApplyIn, SetRow, Placed
<1>5. Remove(s, m.key) = Placed(s, m.key, NoObj)
  BY <1>1 DEF Remove, RemoveIn, SetRow, Placed
<1>6. Plain(BeginReset(s)) /\ Plain(FinishSync(s))
  BY FoldOther
<1>7. Plain(Apply(s, m.key, m.obj)) /\ Plain(Remove(s, m.key))
  BY <1>2, <1>3, <1>4, <1>5
<1>8. Plain(u.store)
  BY <1>6, <1>7 DEF Fold, UI
<1>9. u = UI(u.store, u.notice) /\ u.notice \in BOOLEAN
  BY DEF Fold, UI
<1> QED
  BY <1>8, <1>9 DEF Shows

\* What the task says next is handled after all that is on its way.
LEMMA Told ==
  ASSUME TaskTypes, outbox = <<>>, outbox' \in Seq(Message), UNCHANGED <<chan, store, notice>>
  PROVE  Settled' = After(Settled, outbox')
<1> DEFINE u == UI(store, notice)
<1>1. chan \in Seq(Message) /\ chan \o outbox = chan
  BY DEF TaskTypes
<1>2. Settled = After(u, chan)
  BY <1>1 DEF Settled, UI
<1>3. Settled' = After(u, chan \o outbox')
  BY DEF Settled, UI
<1> HIDE DEF u
<1>4. After(u, chan \o outbox') = After(After(u, chan), outbox')
  BY <1>1, AfterBoth
<1> QED
  BY <1>2, <1>3, <1>4

\* Sending a message only moves it on, ...
LEMMA SendKeeps == ASSUME TaskTypes, Send PROVE Settled' = Settled
<1>1. chan \in Seq(Message) /\ outbox \in Seq(Message) /\ outbox # <<>>
      /\ chan' = Append(chan, Head(outbox)) /\ outbox' = Tail(outbox)
      /\ store' = store /\ notice' = notice
  BY DEF TaskTypes, Send, ui
<1>2. Append(chan, Head(outbox)) \o Tail(outbox) = chan \o outbox
  BY <1>1
<1> QED
  BY <1>1, <1>2 DEF Settled

\* ... and handling it changes the UI only.
LEMMA HandleKeeps ==
  ASSUME TaskTypes, HandleMsg
  PROVE  Settled' = Settled /\ Shows(UI(store', notice'))
<1> DEFINE u == UI(store, notice)
           all == chan \o outbox
<1>1. chan \in Seq(Message) /\ outbox \in Seq(Message) /\ chan # <<>>
      /\ chan' = Tail(chan) /\ outbox' = outbox
      /\ store' = Fold(u, Head(chan)).store /\ notice' = Fold(u, Head(chan)).notice
  BY DEF TaskTypes, HandleMsg, UI
<1>2. Head(chan) \in Message
  BY <1>1
<1>3. Shows(Fold(u, Head(chan)))
  BY <1>2, FoldAny DEF TaskTypes
<1>4. Fold(u, Head(chan)) = UI(store', notice')
  BY <1>1, <1>3 DEF Shows
<1>5. all \in Seq(Message) /\ all # <<>> /\ Head(all) = Head(chan)
      /\ Tail(all) = Tail(chan) \o outbox
  BY <1>1
<1>6. Settled = After(u, all)
  BY DEF Settled, UI
<1>7. Settled' = After(UI(store', notice'), Tail(all))
  BY <1>1, <1>5 DEF Settled, UI
<1> HIDE DEF u, all
<1>8. After(Fold(u, Head(all)), Tail(all)) = After(u, all)
  BY <1>5, AfterFirst
<1>9. Settled' = Settled
  BY <1>4, <1>5, <1>6, <1>7, <1>8
<1> QED
  BY <1>3, <1>4, <1>9

-----------------------------------------------------------------------------
(* The invariant of one watch.                                             *)

\* What the task sends are messages.
LEMMA NotesAre ==
  /\ \A t \in MsgTypes : Note(t) \in Message
  /\ \A k \in Keys : Deleted(k) \in Message
  /\ \A k \in Keys, o \in Objects : Applied(k, o) \in Message
BY DEF Note, Deleted, Applied, Message, AnyKey, MsgTypes

\* The store of a watch has no partitions, empty or seeded.
LEMMA ClearIs ==
  /\ Plain(Clear)
  /\ \A rows \in Rows : Plain(Seed(rows))
BY RowsAre DEF Clear, Seed, Unpartitioned, Plain, StoreType

\* A watch starts so: nothing is shown as complete, and its first message empties the list.
LEMMA TaskInvInit == ASSUME Init PROVE TaskInv
<1>1. PICK rows \in [Keys -> {NoObj, 1}] : hist = <<rows>>
  BY DEF Init
<1>2. rows \in Rows /\ hist \in Seq(Rows) /\ Now = 1 /\ hist[1] = rows
  <2>1. 1 \in Objects
    BY WatchTaskAssumption
  <2>2. rows \in Rows
    BY <2>1 DEF Rows
  <2> QED
    BY <1>1, <2>2 DEF Now
<1>3. Plain(store) /\ notice = FALSE
  BY <1>2, ClearIs DEF Init
<1>4. outbox = <<Note("Reset")>> /\ chan = <<>> /\ Note("Reset") \in Message
  BY NotesAre DEF Init, MsgTypes
<1>5. TaskTypes
  <2>1. hist \in Seq(Rows) /\ Now \in Nat \ {0} /\ 1 \in 1 .. Now
    BY <1>2
  <2>2. outbox \in Seq(Message) /\ chan \in Seq(Message)
    BY <1>4
  <2>3. watcher \in Watchers /\ task \in Tasks
    BY <2>1, RowsAre DEF Init, Watchers, Tasks
  <2> QED
    BY <1>3, <2>1, <2>2, <2>3 DEF Init, TaskTypes
<1>6. History
  BY <1>2 DEF Init, History
<1>7. Settled = UI(BeginReset(store), FALSE) /\ Plain(BeginReset(store))
  <2>1. chan \o outbox = <<Note("Reset")>>
    BY <1>4
  <2>2. Settled = After(UI(store, FALSE), <<Note("Reset")>>)
    BY <1>3, <2>1 DEF Settled, UI
  <2>3. After(UI(store, FALSE), <<Note("Reset")>>) = Fold(UI(store, FALSE), Note("Reset"))
    BY AfterOne
  <2> QED
    BY <1>3, <2>2, <2>3, FoldOther
<1>8. Settled.store = BeginReset(store) /\ Settled.notice = FALSE /\ Shows(Settled)
  BY <1>7 DEF UI, Shows
<1>9. /\ ~task.polling /\ task.seen = NoRows /\ ~task.synced
      /\ watcher.state = "empty"
  BY DEF Init
<1>10. Reached /\ Noticed
  BY <1>8, <1>9 DEF Reached, Noticed
<1> QED
  BY <1>5, <1>6, <1>10 DEF TaskInv

\* ... and with no row counted.
LEMMA CountedInit == ASSUME Init PROVE Counted
<1>1. Plain(store) /\ notice = FALSE
  <2>1. PICK rows \in [Keys -> {NoObj, 1}] : hist = <<rows>>
    BY DEF Init
  <2>2. rows \in Rows /\ hist[1] = rows
    BY <2>1, WatchTaskAssumption DEF Rows
  <2> QED
    BY <2>2, ClearIs DEF Init
<1>2. chan \o outbox = <<Note("Reset")>>
  BY DEF Init
<1>3. Settled = Fold(UI(store, FALSE), Note("Reset"))
  <2>1. Settled = After(UI(store, FALSE), <<Note("Reset")>>)
    BY <1>1, <1>2 DEF Settled, UI
  <2> QED
    BY <2>1, AfterOne
<1>4. Settled.store = BeginReset(store) /\ Brought(BeginReset(store)) = NoRows
  <2>1. /\ Fold(UI(store, FALSE), Note("Reset")) = UI(BeginReset(store), FALSE)
        /\ Brought(BeginReset(store)) = NoRows
    BY <1>1, FoldOther
  <2>2. Settled = UI(BeginReset(store), FALSE)
    BY <1>3, <2>1
  <2> QED
    BY <2>1, <2>2 DEF UI
<1>5. KeysOf(Brought(Settled.store)) = {}
  BY <1>4 DEF KeysOf, NoRows
<1> QED
  BY <1>5 DEF Counted, Init

\* The cluster's changes leave what is known of it, and bring one row.
LEMMA ServerStep == ASSUME TaskInv, NEW k \in Keys, ServerWrite(k) PROVE TaskInv'
<1>1. PICK row \in {Now + 1, NoObj} :
        row # hist[Now][k] /\ hist' = Append(hist, [hist[Now] EXCEPT ![k] = row])
  BY DEF ServerWrite
<1>2. hist \in Seq(Rows) /\ Now \in Nat \ {0} /\ Now = Len(hist)
  BY DEF TaskInv, TaskTypes, Now
<1>3. row \in Objects \cup {NoObj}
  BY <1>2, WatchTaskAssumption DEF ServerWrite
<1>4. [hist[Now] EXCEPT ![k] = row] \in Rows
  <2>1. hist[Now] \in Rows
    BY <1>2
  <2> QED
    BY <1>3, <2>1, RowsAre
<1>5. /\ hist' \in Seq(Rows) /\ Now' = Now + 1
      /\ \A i \in 1 .. Now : hist'[i] = hist[i]
      /\ hist'[Now + 1] = [hist[Now] EXCEPT ![k] = row]
  BY <1>1, <1>2, <1>4 DEF Now
<1>6. UNCHANGED <<apiServer, watchAllowed, watcher, task, outbox, chan, store, notice>>
  BY DEF ServerWrite, ui
<1>7. Settled' = Settled
  BY <1>6 DEF Settled
<1>8. watcher.at \in 1 .. Now
  BY DEF TaskInv, TaskTypes, Watchers
<1>9. TaskTypes'
  BY <1>2, <1>5, <1>6 DEF TaskInv, TaskTypes, Watchers
<1>10. History'
  <2>1. ASSUME NEW i \in 1 .. Now PROVE OneRow(hist'[i], hist'[i + 1])
    <3>1. CASE i = Now
      <4>1. hist'[i] = hist[Now] /\ hist'[i + 1] = [hist[Now] EXCEPT ![k] = row]
        BY <1>2, <1>5, <3>1
      <4> QED
        BY <1>1, <1>3, <4>1 DEF OneRow
    <3>2. CASE i # Now
      <4>1. i \in 1 .. Now - 1 /\ hist'[i] = hist[i] /\ hist'[i + 1] = hist[i + 1]
        BY <1>2, <1>5, <3>2
      <4> QED
        BY <4>1 DEF TaskInv, History
    <3> QED
      BY <3>1, <3>2
  <2>2. 1 .. Now' - 1 = 1 .. Now
    BY <1>2, <1>5
  <2> QED
    BY <2>1, <2>2 DEF History
<1>11. hist'[watcher.at] = hist[watcher.at]
  BY <1>5, <1>8
<1>12. Reached' /\ Noticed'
  BY <1>6, <1>7, <1>11 DEF TaskInv, Reached, Noticed, Shows, Complete, Brought, ListedRows
<1> QED
  BY <1>9, <1>10, <1>12 DEF TaskInv

\* Nothing the invariant speaks of changes but what is still to be handled.
LEMMA ChannelStep == ASSUME TaskInv, Send \/ HandleMsg PROVE TaskInv'
<1>1. Settled' = Settled
  BY SendKeeps, HandleKeeps DEF TaskInv
<1>2. UNCHANGED <<server, watcher, task>>
  BY DEF Send, HandleMsg
<1>3. TaskTypes'
  <2>1. CASE Send
    <3>1. outbox \in Seq(Message) /\ chan \in Seq(Message) /\ outbox # <<>>
          /\ chan' = Append(chan, Head(outbox)) /\ outbox' = Tail(outbox)
      BY <2>1 DEF Send, TaskInv, TaskTypes
    <3>2. outbox' \in Seq(Message) /\ chan' \in Seq(Message)
      BY <3>1
    <3> QED
      BY <1>2, <2>1, <3>2 DEF Send, TaskInv, TaskTypes, server, ui, Now, Watchers
  <2>2. CASE HandleMsg
    <3>1. chan' \in Seq(Message) /\ outbox' = outbox
      BY <2>2 DEF HandleMsg, TaskInv, TaskTypes
    <3>2. Plain(store') /\ notice' \in BOOLEAN
      BY <2>2, HandleKeeps DEF TaskInv, Shows, UI
    <3> QED
      BY <1>2, <3>1, <3>2 DEF TaskInv, TaskTypes, server, Now, Watchers
  <2> QED
    BY <2>1, <2>2
<1>4. History'
  BY <1>2 DEF TaskInv, History, server, Now
<1>5. Reached' /\ Noticed'
  BY <1>1, <1>2 DEF TaskInv, Reached, Noticed, server, Shows, Complete, Brought, ListedRows
<1> QED
  BY <1>3, <1>4, <1>5 DEF TaskInv

\* The task says one thing, or two.
LEMMA ToldOne ==
  ASSUME TaskTypes, outbox = <<>>, UNCHANGED <<chan, store, notice>>,
         NEW m \in Message, outbox' = <<m>>
  PROVE  Settled' = Fold(Settled, m)
<1>1. outbox' \in Seq(Message)
  OBVIOUS
<1>2. Settled' = After(Settled, outbox')
  BY <1>1, Told
<1> QED
  BY <1>2, AfterOne

\* ... or two.
LEMMA ToldTwo ==
  ASSUME TaskTypes, outbox = <<>>, UNCHANGED <<chan, store, notice>>,
         NEW m \in Message, NEW n \in Message, outbox' = <<m, n>>
  PROVE  Settled' = Fold(Fold(Settled, m), n)
<1> DEFINE first == <<m>>
<1>1. outbox' \in Seq(Message) /\ first \in Seq(Message) /\ outbox' = Append(first, n)
  OBVIOUS
<1>2. Settled' = After(Settled, outbox')
  BY <1>1, Told
<1>3. After(Settled, first) = Fold(Settled, m)
  BY AfterOne
<1> HIDE DEF first
<1>4. After(Settled, Append(first, n)) = Fold(After(Settled, first), n)
  BY <1>1, AfterMore
<1> QED
  BY <1>1, <1>2, <1>3, <1>4

\* What is known between two steps of the task.
LEMMA Known ==
  ASSUME TaskInv
  PROVE  /\ Settled = UI(Settled.store, Settled.notice)
         /\ Settled.notice \in BOOLEAN /\ Plain(Settled.store)
         /\ \A i \in 1 .. Now : hist[i] \in Rows
BY DEF TaskInv, TaskTypes, Reached, Shows, Now

\* A step of the task: the cluster and the UI stay.
Quiet == UNCHANGED <<server, chan, ui>>

\* A step that only tells the UI something leaves the cluster and its history alone.
LEMMA QuietStep ==
  ASSUME TaskInv, Quiet, outbox' \in Seq(Message), watcher' \in Watchers, task' \in Tasks
  PROVE  TaskTypes' /\ History'
BY DEF TaskInv, TaskTypes, Watchers, History, Quiet, server, ui, Now

\* A list begins: with Reset on its way, what is brought is nothing.
LEMMA BeginListStep == ASSUME TaskInv, BeginList PROVE TaskInv'
<1> DEFINE s == Settled.store
           b == Settled.notice
<1>1. /\ ~task.polling /\ outbox = <<>> /\ Quiet /\ outbox' = <<Note("Reset")>>
      /\ task' = [task EXCEPT !.listing = TRUE]
      /\ \/ \E i \in 1 .. Now : watcher' = [state |-> "initial", at |-> i,
                                           left |-> KeysOf(hist[i]), broken |-> FALSE]
         \/ watcher' = [watcher EXCEPT !.state = "page", !.left = {}, !.broken = FALSE]
  BY DEF BeginList, Ready, Quiet, Goto
<1>10. watcher' \in Watchers /\ watcher'.state \in {"initial", "page"}
  <2>1. \A i \in 1 .. Now : KeysOf(hist[i]) \in SUBSET Keys
    BY DEF KeysOf
  <2>2. watcher \in Watchers
    BY DEF TaskInv, TaskTypes
  <2>3. CASE watcher' = [watcher EXCEPT !.state = "page", !.left = {}, !.broken = FALSE]
    BY <2>2, <2>3 DEF Watchers
  <2>4. CASE \E i \in 1 .. Now : watcher' = [state |-> "initial", at |-> i,
                                           left |-> KeysOf(hist[i]), broken |-> FALSE]
    BY <2>1, <2>4 DEF Watchers
  <2> QED
    BY <1>1, <2>3, <2>4
<1>2. TaskTypes' /\ History'
  <2>1. outbox' \in Seq(Message)
    BY <1>1, NotesAre DEF MsgTypes
  <2> QED
    BY <1>10, <1>1, <2>1, QuietStep DEF TaskInv, TaskTypes, Watchers, Tasks
<1>3. Settled' = UI(BeginReset(s), b)
  <2>1. Settled' = Fold(Settled, Note("Reset"))
    BY <1>1, NotesAre, ToldOne DEF TaskInv, Quiet, ui, MsgTypes
  <2> QED
    BY <2>1, Known, FoldOther
<1>4. Settled'.store = BeginReset(s) /\ Settled'.notice = b /\ Shows(Settled')
  BY <1>3, Known, FoldOther DEF UI, Shows
<1>5. Brought(BeginReset(s)) = NoRows
  BY Known, FoldOther
<1>6. \A i \in 1 .. Now : ListedRows(i, KeysOf(hist[i]) \ KeysOf(hist[i])) = NoRows
  BY DEF ListedRows, NoRows
<1>7. Reached'
  <2>1. hist' = hist
    BY <1>1 DEF Quiet, server
  <2>2. task'.polling = FALSE /\ task'.seen = NoRows /\ task'.synced = FALSE
    BY <1>1 DEF TaskInv, TaskTypes, Reached, Watchers, Tasks
  <2>3. CASE \E i \in 1 .. Now : watcher' = [state |-> "initial", at |-> i,
                                           left |-> KeysOf(hist[i]), broken |-> FALSE]
    <3>1. /\ watcher'.state = "initial" /\ watcher'.at \in 1 .. Now
          /\ watcher'.left = KeysOf(hist[watcher'.at])
      BY <2>3
    <3>2. ListedRows(watcher'.at, KeysOf(hist[watcher'.at]) \ watcher'.left) = NoRows
      BY <1>6, <3>1
    <3> QED
      BY <1>4, <1>5, <2>1, <2>2, <3>1, <3>2 DEF Reached, ListedRows
  <2>4. CASE watcher' = [watcher EXCEPT !.state = "page", !.left = {}, !.broken = FALSE]
    <3>1. watcher'.state = "page"
      BY <2>4 DEF TaskInv, TaskTypes, Watchers, Tasks
    <3> QED
      BY <1>4, <1>5, <2>2, <3>1 DEF Reached
  <2> QED
    BY <1>1, <2>3, <2>4
<1>8. Noticed'
  BY <1>10, <1>1, <1>4 DEF Noticed, TaskInv, TaskTypes, Watchers, Tasks
<1> QED
  BY <1>2, <1>7, <1>8 DEF TaskInv

\* Falling back to plain lists leaves the table alone.
LEMMA StreamingUnsupportedStep == ASSUME TaskInv, StreamingUnsupported PROVE TaskInv'
<1>1. /\ ~task.polling /\ outbox = <<>> /\ Quiet /\ outbox' = outbox /\ watcher' = watcher
      /\ task' = [task EXCEPT !.usingStreaming = FALSE]
  BY DEF StreamingUnsupported, Ready, Quiet
<1>2. TaskTypes' /\ History'
  BY <1>1, QuietStep DEF TaskInv, TaskTypes, Watchers, Tasks
<1>3. Settled' = Settled
  BY <1>1 DEF Settled, Quiet, ui
<1>4. Reached' /\ Noticed'
  BY <1>1, <1>3 DEF TaskInv, TaskTypes, Tasks, Reached, Noticed, Shows, Complete, Brought,
                    ListedRows,
                    Quiet, server
<1> QED
  BY <1>2, <1>4 DEF TaskInv

\* A list is a state of the history, of which nothing is brought yet.
LEMMA ListReturnsStep == ASSUME TaskInv, ListReturns PROVE TaskInv'
<1>1. /\ ~task.polling /\ outbox = <<>> /\ Quiet /\ outbox' = outbox /\ task' = task
      /\ watcher.state = "page"
  BY DEF ListReturns, Ready, Quiet
<1>2. PICK i \in 1 .. Now : watcher' = [state |-> "initial", at |-> i,
                                     left |-> KeysOf(hist[i]), broken |-> FALSE]
  BY DEF ListReturns
<1>3. watcher' \in Watchers
  BY <1>2 DEF Watchers, KeysOf
<1>4. TaskTypes' /\ History'
  BY <1>1, <1>3, QuietStep DEF TaskInv, TaskTypes
<1>5. Settled' = Settled
  BY <1>1 DEF Settled, Quiet, ui
<1>6. Brought(Settled.store) = NoRows
  BY <1>1 DEF TaskInv, Reached
<1>7. ListedRows(i, KeysOf(hist[i]) \ KeysOf(hist[i])) = NoRows
  BY DEF ListedRows, NoRows
<1>8. hist' = hist
  BY <1>1 DEF Quiet, server
<1>9. Reached'
  BY <1>1, <1>2, <1>5, <1>6, <1>7, <1>8 DEF TaskInv, Reached, Shows, Brought, ListedRows
<1>10. Noticed'
  BY <1>1, <1>2, <1>5 DEF TaskInv, Noticed
<1> QED
  BY <1>4, <1>9, <1>10 DEF TaskInv

\* One row of it is brought.
LEMMA InitApplyStep == ASSUME TaskInv, NEW k \in Keys, InitApply(k) PROVE TaskInv'
<1> DEFINE s == Settled.store
           b == Settled.notice
           row == hist[watcher.at][k]
           m == Applied(k, row)
<1>1. /\ ~task.polling /\ outbox = <<>> /\ Quiet /\ task' = task
      /\ watcher.state = "initial" /\ k \in watcher.left
      /\ watcher' = [watcher EXCEPT !.left = @ \ {k}] /\ outbox' = <<m>>
  BY DEF InitApply, Ready, Quiet
<1>2. watcher \in Watchers /\ watcher' \in Watchers
  BY <1>1 DEF TaskInv, TaskTypes, Watchers
<1>3. hist[watcher.at] \in Rows /\ row \in Objects \cup {NoObj}
  BY <1>2, Known DEF Watchers, Rows
<1>4. m \in Message /\ m.type = "Applied" /\ m.key = k /\ m.obj = row
  BY <1>3 DEF Applied, Message, MsgTypes
<1> HIDE DEF m, row
<1>5. TaskTypes' /\ History'
  <2>1. outbox' \in Seq(Message)
    BY <1>1, <1>4
  <2> QED
    BY <1>1, <1>2, <2>1, QuietStep DEF TaskInv, TaskTypes
<1>6. Settled' = UI(Placed(s, k, row), b) /\ Plain(Placed(s, k, row))
  <2>1. Settled' = Fold(Settled, m)
    BY <1>1, <1>4, ToldOne DEF TaskInv, Quiet, ui
  <2>2. Fold(UI(s, b), m) = UI(Placed(s, k, row), b) /\ Plain(Placed(s, k, row))
    BY <1>4, Known, FoldRow
  <2> QED
    BY <2>1, <2>2, Known
<1>7. Settled'.store = Placed(s, k, row) /\ Settled'.notice = b /\ Shows(Settled')
  BY <1>6, Known DEF UI, Shows
<1>8. Brought(Placed(s, k, row)) = [Brought(s) EXCEPT ![k] = row]
  BY Known DEF Plain, StoreType, Placed, Brought
<1>9. Brought(s) = ListedRows(watcher.at, KeysOf(hist[watcher.at]) \ watcher.left)
  BY <1>1 DEF TaskInv, Reached
<1>10. [ListedRows(watcher.at, KeysOf(hist[watcher.at]) \ watcher.left) EXCEPT ![k] = row]
         = ListedRows(watcher.at, KeysOf(hist[watcher.at]) \ (watcher.left \ {k}))
  BY <1>3 DEF ListedRows, KeysOf, Rows, row
<1>11. /\ watcher'.state = "initial" /\ watcher'.at = watcher.at /\ hist' = hist
       /\ watcher'.left = watcher.left \ {k}
  BY <1>1, <1>2 DEF Watchers, Quiet, server
<1>12. Brought(Settled'.store) =
         ListedRows(watcher.at, KeysOf(hist[watcher.at]) \ watcher'.left)
  BY <1>7, <1>8, <1>9, <1>10, <1>11
<1>13. Reached'
  BY <1>1, <1>7, <1>11, <1>12 DEF TaskInv, Reached, ListedRows
<1>14. Noticed'
  BY <1>1, <1>7, <1>11 DEF TaskInv, Noticed
<1> QED
  BY <1>5, <1>13, <1>14 DEF TaskInv

\* All of it was brought: Synced makes it the table.
LEMMA InitDoneStep == ASSUME TaskInv, InitDone PROVE TaskInv'
<1> DEFINE s == Settled.store
           b == Settled.notice
           told == task.failed /\ task.usingStreaming
<1>1. /\ ~task.polling /\ outbox = <<>> /\ Quiet
      /\ watcher.state = "initial" /\ watcher.left = {}
      /\ watcher' = [watcher EXCEPT !.state = IF task.usingStreaming THEN "watching" ELSE "listed",
                                   !.left = {}, !.broken = FALSE]
      /\ task' = [task EXCEPT !.initializing = FALSE, !.listing = FALSE,
                             !.failed = @ /\ ~task.usingStreaming]
  BY DEF InitDone, Ready, Quiet, Goto
<1>2. outbox' = IF told THEN <<Note("WatchRecovered"), Note("Synced")>> ELSE <<Note("Synced")>>
  BY DEF InitDone, Recovered
<1>3. /\ watcher \in Watchers /\ watcher' \in Watchers /\ task' \in Tasks
      /\ watcher'.at = watcher.at /\ watcher'.state \in {"watching", "listed"}
      /\ ~task'.polling /\ ~task'.listing /\ task'.seen = task.seen /\ task'.synced = task.synced
      /\ task'.failed = (task.failed /\ ~task.usingStreaming)
      /\ watcher'.state = "watching" => task.usingStreaming
  BY <1>1 DEF TaskInv, TaskTypes, Watchers, Tasks
<1>4. Note("WatchRecovered") \in Message /\ Note("Synced") \in Message
  BY NotesAre DEF MsgTypes
<1>5. TaskTypes' /\ History'
  <2>1. outbox' \in Seq(Message)
    BY <1>2, <1>4
  <2> QED
    BY <1>1, <1>3, <2>1, QuietStep
<1>6. Settled' = UI(FinishSync(s), IF told THEN FALSE ELSE b)
  <2>1. Settled = UI(s, b) /\ Plain(s) /\ b \in BOOLEAN
    BY Known
  <2> HIDE DEF told, s, b
  <2>2. CASE told
    <3>1. Settled' = Fold(Fold(Settled, Note("WatchRecovered")), Note("Synced"))
      BY <1>1, <1>2, <1>4, <2>2, ToldTwo DEF TaskInv, Quiet, ui
    <3>2. Fold(UI(s, b), Note("WatchRecovered")) = UI(s, FALSE)
      BY <2>1, FoldOther
    <3>3. Fold(UI(s, FALSE), Note("Synced")) = UI(FinishSync(s), FALSE)
      BY <2>1, FoldOther
    <3> QED
      BY <2>1, <2>2, <3>1, <3>2, <3>3
  <2>3. CASE ~told
    <3>1. Settled' = Fold(Settled, Note("Synced"))
      BY <1>1, <1>2, <1>4, <2>3, ToldOne DEF TaskInv, Quiet, ui
    <3>2. Fold(UI(s, b), Note("Synced")) = UI(FinishSync(s), b)
      BY <2>1, FoldOther
    <3> QED
      BY <2>1, <2>3, <3>1, <3>2
  <2> QED
    BY <2>2, <2>3
<1>7. /\ Settled'.store = FinishSync(s) /\ Settled'.notice = (IF told THEN FALSE ELSE b)
      /\ Shows(Settled')
  <2>1. Plain(FinishSync(s)) /\ b \in BOOLEAN
    BY Known, FoldOther
  <2> QED
    BY <1>6, <2>1 DEF UI, Shows
<1>8. Complete(FinishSync(s), Brought(s))
  BY Known, FoldOther
<1>9. Brought(s) = hist[watcher.at]
  <2>1. Brought(s) = ListedRows(watcher.at, KeysOf(hist[watcher.at]) \ {})
    BY <1>1 DEF TaskInv, Reached
  <2>2. hist[watcher.at] \in Rows
    BY <1>3, Known DEF Watchers
  <2> QED
    BY <2>1, <2>2 DEF ListedRows, KeysOf, Rows
<1>10. Reached'
  <2>1. hist' = hist
    BY <1>1 DEF Quiet, server
  <2> QED
    BY <1>1, <1>3, <1>7, <1>8, <1>9, <2>1 DEF TaskInv, Reached
<1>11. Noticed'
  BY <1>3, <1>7, Known DEF TaskInv, Noticed
<1> QED
  BY <1>5, <1>10, <1>11 DEF TaskInv

\* A watch goes on from there, and the outage, if there was one, is over.
LEMMA ResumeWatchStep == ASSUME TaskInv, ResumeWatch PROVE TaskInv'
<1> DEFINE s == Settled.store
           b == Settled.notice
<1>1. /\ ~task.polling /\ outbox = <<>> /\ Quiet /\ task' = task
      /\ watcher.state = "listed" /\ outbox' = <<Note("WatchRecovered")>>
      /\ watcher' = [watcher EXCEPT !.state = "watching", !.left = {}, !.broken = FALSE]
  BY DEF ResumeWatch, Ready, Quiet, Goto
<1>2. /\ watcher' \in Watchers /\ watcher'.state = "watching" /\ watcher'.at = watcher.at
  BY <1>1 DEF TaskInv, TaskTypes, Watchers
<1>3. Note("WatchRecovered") \in Message
  BY NotesAre DEF MsgTypes
<1>4. TaskTypes' /\ History'
  <2>1. outbox' \in Seq(Message)
    BY <1>1, <1>3
  <2> QED
    BY <1>1, <1>2, <2>1, QuietStep DEF TaskInv, TaskTypes
<1>5. Settled' = UI(s, FALSE)
  <2>1. Settled' = Fold(Settled, Note("WatchRecovered"))
    BY <1>1, <1>3, ToldOne DEF TaskInv, Quiet, ui
  <2> QED
    BY <2>1, Known, FoldOther
<1>6. Settled'.store = s /\ Settled'.notice = FALSE /\ Shows(Settled')
  BY <1>5, Known DEF UI, Shows
<1>7. hist' = hist
  BY <1>1 DEF Quiet, server
<1>8. Reached' /\ Noticed'
  BY <1>1, <1>2, <1>6, <1>7 DEF TaskInv, Reached, Noticed
<1> QED
  BY <1>4, <1>8 DEF TaskInv

\* The event that takes the watcher from one revision to the next.
LEMMA EventIs ==
  ASSUME TaskInv, watcher.state = "watching", watcher.at < Now
  PROVE  \E k \in Keys, m \in Message :
           /\ hist[watcher.at + 1] = [hist[watcher.at] EXCEPT ![k] = m.obj]
           /\ m.key = k /\ (m.type = "Applied" \/ (m.type = "Deleted" /\ m.obj = NoObj))
           /\ k = CHOOSE j \in Keys : hist[watcher.at + 1][j] # hist[watcher.at][j]
           /\ m = IF hist[watcher.at + 1][k] = NoObj THEN Deleted(k)
                  ELSE Applied(k, hist[watcher.at + 1][k])
<1> DEFINE old == hist[watcher.at]
           new == hist[watcher.at + 1]
<1>1. watcher.at \in 1 .. Now - 1 /\ Now \in Nat /\ watcher.at + 1 \in 1 .. Now
  BY DEF TaskInv, TaskTypes, Watchers
<1>2. old \in Rows /\ new \in Rows
  BY <1>1, Known
<1>3. OneRow(old, new)
  BY <1>1 DEF TaskInv, History
<1> HIDE DEF old, new
<1>4. PICK k \in Keys, row \in Objects \cup {NoObj} :
        row # old[k] /\ new = [old EXCEPT ![k] = row]
  BY <1>3 DEF OneRow
<1>5. new[k] = row /\ \A j \in Keys : new[j] # old[j] <=> j = k
  BY <1>2, <1>4 DEF Rows
<1>6. k = CHOOSE j \in Keys : new[j] # old[j]
  BY <1>5
<1> DEFINE m == IF row = NoObj THEN Deleted(k) ELSE Applied(k, row)
<1>7. m \in Message /\ m.key = k /\ m.obj = row
      /\ (m.type = "Applied" \/ (m.type = "Deleted" /\ m.obj = NoObj))
  BY <1>4 DEF Deleted, Applied, Message, MsgTypes
<1> QED
  BY <1>4, <1>5, <1>6, <1>7 DEF old, new

\* One change brings the table to the next state of the history.
LEMMA WatchEventStep == ASSUME TaskInv, WatchEvent PROVE TaskInv'
<1> DEFINE s == Settled.store
           b == Settled.notice
<1>1. /\ ~task.polling /\ outbox = <<>> /\ Quiet
      /\ watcher.state = "watching" /\ ~watcher.broken /\ watcher.at < Now
      /\ watcher' = [watcher EXCEPT !.at = @ + 1]
      /\ task' = [task EXCEPT !.failed = FALSE]
  BY DEF WatchEvent, Ready, Quiet
<1>2. PICK k \in Keys, m \in Message :
        /\ hist[watcher.at + 1] = [hist[watcher.at] EXCEPT ![k] = m.obj]
        /\ m.key = k /\ (m.type = "Applied" \/ (m.type = "Deleted" /\ m.obj = NoObj))
        /\ k = CHOOSE j \in Keys : hist[watcher.at + 1][j] # hist[watcher.at][j]
        /\ m = IF hist[watcher.at + 1][k] = NoObj THEN Deleted(k)
               ELSE Applied(k, hist[watcher.at + 1][k])
  BY <1>1, EventIs
<1>3. outbox' = IF task.failed THEN <<Note("WatchRecovered"), m>> ELSE <<m>>
  <2> DEFINE key == CHOOSE j \in Keys : hist[watcher.at + 1][j] # hist[watcher.at][j]
             next == hist[watcher.at + 1]
             event == IF next[key] = NoObj THEN Deleted(key) ELSE Applied(key, next[key])
  <2>1. outbox' = Recovered(TRUE) \o <<event>>
    BY Zenon DEF WatchEvent
  <2>2. key = k
    BY <1>2
  <2> HIDE DEF key
  <2>3. event = m
    BY <1>2, <2>2
  <2> QED
    BY <2>1, <2>3 DEF Recovered
<1>4. /\ watcher \in Watchers /\ watcher' \in Watchers /\ task' \in Tasks
      /\ watcher'.at = watcher.at + 1 /\ watcher'.state = "watching"
      /\ ~task'.polling /\ ~task'.failed /\ task'.listing = task.listing
      /\ task'.seen = task.seen /\ task'.synced = task.synced
  <2>1. watcher \in Watchers /\ task \in Tasks /\ Now \in Nat
    BY DEF TaskInv, TaskTypes
  <2>2. watcher.at + 1 \in 1 .. Now
    BY <1>1, <2>1 DEF Watchers
  <2>3. watcher' \in Watchers /\ watcher'.at = watcher.at + 1 /\ watcher'.state = "watching"
    BY <1>1, <2>1, <2>2 DEF Watchers
  <2> QED
    BY <1>1, <2>1, <2>3 DEF Tasks
<1>5. Note("WatchRecovered") \in Message
  BY NotesAre DEF MsgTypes
<1>6. TaskTypes' /\ History'
  <2>1. outbox' \in Seq(Message)
    BY <1>3, <1>5
  <2> QED
    BY <1>1, <1>4, <2>1, QuietStep
<1>7. Settled = UI(s, b) /\ Plain(s) /\ b \in BOOLEAN
  BY Known
<1>8. /\ Complete(s, hist[watcher.at]) /\ ~task.listing /\ b = FALSE
      /\ task.seen = NoRows /\ ~task.synced
  BY <1>1 DEF TaskInv, Reached, Noticed
<1> HIDE DEF s, b
<1>9. /\ Settled' = UI(Placed(s, k, m.obj), FALSE) /\ Plain(Placed(s, k, m.obj))
  <2>1. Fold(UI(s, FALSE), m) = UI(Placed(s, k, m.obj), FALSE) /\ Plain(Placed(s, k, m.obj))
    <3> DEFINE f == FALSE
    <3>1. f \in BOOLEAN /\ m.key \in Keys
      BY <1>2
    <3>2. m.type = "Applied" \/ (m.type = "Deleted" /\ m.obj = NoObj)
      BY <1>2
    <3>3. Plain(s)
      BY <1>7
    <3> HIDE DEF f
    <3>4. Fold(UI(s, f), m) = UI(Placed(s, m.key, m.obj), f) /\ Plain(Placed(s, m.key, m.obj))
      BY <3>1, <3>2, <3>3, FoldRow
    <3> QED
      BY <1>2, <3>4 DEF f
  <2>2. CASE task.failed
    <3>1. Settled' = Fold(Fold(Settled, Note("WatchRecovered")), m)
      BY <1>1, <1>3, <1>5, <2>2, ToldTwo DEF TaskInv, Quiet, ui
    <3>2. Fold(UI(s, b), Note("WatchRecovered")) = UI(s, FALSE)
      BY <1>7, FoldOther
    <3> QED
      BY <1>7, <2>1, <3>1, <3>2
  <2>3. CASE ~task.failed
    <3>1. Settled' = Fold(Settled, m)
      BY <1>1, <1>3, <2>3, ToldOne DEF TaskInv, Quiet, ui
    <3> QED
      BY <1>7, <1>8, <2>1, <3>1
  <2> QED
    BY <2>2, <2>3
<1>10. /\ Settled'.store = Placed(s, k, m.obj) /\ Settled'.notice = FALSE /\ Shows(Settled')
  BY <1>9 DEF UI, Shows
<1>11. Complete(Placed(s, k, m.obj), hist[watcher.at + 1])
  BY <1>2, <1>7, <1>8 DEF Complete, Placed, Plain, StoreType
<1>12. hist' = hist
  BY <1>1 DEF Quiet, server
<1>13. Reached' /\ Noticed'
  BY <1>4, <1>8, <1>10, <1>11, <1>12 DEF Reached, Noticed
<1> QED
  BY <1>6, <1>13 DEF TaskInv

\* The watcher turns back without a word.
LEMMA TurnBackStep == ASSUME TaskInv, StreamEnds \/ Desync PROVE TaskInv'
<1>1. /\ ~task.polling /\ outbox' = outbox /\ Quiet /\ task' = task
      /\ \/ watcher.state = "watching"
            /\ watcher' = [watcher EXCEPT !.state = "listed", !.left = {}, !.broken = FALSE]
         \/ watcher' = [watcher EXCEPT !.state = "empty", !.left = {}, !.broken = FALSE]
  BY DEF StreamEnds, Desync, Ready, Quiet, Goto
<1>2. /\ watcher' \in Watchers /\ watcher'.at = watcher.at
      /\ watcher'.state = "empty" \/ (watcher'.state = "listed" /\ watcher.state = "watching")
  BY <1>1 DEF TaskInv, TaskTypes, Watchers
<1>3. TaskTypes' /\ History'
  BY <1>1, <1>2, QuietStep DEF TaskInv, TaskTypes
<1>4. Settled' = Settled
  BY <1>1 DEF Settled, Quiet, ui
<1>5. hist' = hist
  BY <1>1 DEF Quiet, server
<1>6. Reached' /\ Noticed'
  BY <1>1, <1>2, <1>4, <1>5 DEF TaskInv, Reached, Noticed, Shows
<1> QED
  BY <1>3, <1>6 DEF TaskInv

\* A failure is told, and nothing else.
LEMMA FailureStep ==
  ASSUME TaskInv, WatchFails \/ WatchAndListForbidden \/ PollFails
  PROVE  TaskInv'
<1> DEFINE s == Settled.store
           b == Settled.notice
<1>1. /\ outbox = <<>> /\ Quiet /\ outbox' = <<Note("WatchError")>>
      /\ task' = [task EXCEPT !.failed = TRUE]
      /\ \/ watcher' = watcher /\ (task.polling \/ watcher.state \in {"empty", "listed"})
         \/ watcher' = [watcher EXCEPT !.state = "empty", !.left = {}, !.broken = FALSE]
         \/ watcher' = [watcher EXCEPT !.broken = TRUE]
  BY DEF WatchFails, WatchAndListForbidden, Forbidden, PollFails, Ready, Quiet, Goto
<1>2. /\ watcher' \in Watchers /\ watcher'.at = watcher.at /\ task' \in Tasks
      /\ \/ watcher'.state = watcher.state /\ watcher'.left = watcher.left
         \/ watcher'.state = "empty"
      /\ task'.failed /\ task'.polling = task.polling /\ task'.listing = task.listing
      /\ task'.seen = task.seen /\ task'.synced = task.synced
      /\ ~task'.polling /\ watcher'.state = "watching" => watcher'.broken
  BY <1>1 DEF TaskInv, TaskTypes, Watchers, Tasks
<1>3. Note("WatchError") \in Message
  BY NotesAre DEF MsgTypes
<1>4. TaskTypes' /\ History'
  <2>1. outbox' \in Seq(Message)
    BY <1>1, <1>3
  <2> QED
    BY <1>1, <1>2, <2>1, QuietStep
<1>5. Settled' = UI(s, TRUE)
  <2>1. Settled' = Fold(Settled, Note("WatchError"))
    BY <1>1, <1>3, ToldOne DEF TaskInv, Quiet, ui
  <2> QED
    BY <2>1, Known, FoldOther
<1>6. Settled'.store = s /\ Shows(Settled')
  BY <1>5, Known DEF UI, Shows
<1>7. hist' = hist
  BY <1>1 DEF Quiet, server
<1>8. Reached'
  BY <1>2, <1>6, <1>7 DEF TaskInv, Reached, ListedRows
<1>9. Noticed'
  BY <1>2 DEF Noticed
<1> QED
  BY <1>4, <1>8, <1>9 DEF TaskInv

\* RBAC changes nothing that is shown.
LEMMA RevokeWatchStep == ASSUME TaskInv, RevokeWatch PROVE TaskInv'
<1>1. /\ watchAllowed' = FALSE
      /\ UNCHANGED <<apiServer, hist, watcher, task, outbox, chan, store, notice>>
  BY DEF RevokeWatch, ui
<1>2. Settled' = Settled
  BY <1>1 DEF Settled
<1> QED
  BY <1>1, <1>2 DEF TaskInv, TaskTypes, Watchers, Now, History, Reached, Noticed, Shows, Complete,
                    Brought, ListedRows

-----------------------------------------------------------------------------
(* Polling.                                                                *)

\* What a poll that answers makes of the table.
LEMMA PollTold ==
  ASSUME TaskInv, outbox = <<>>, Quiet, watcher' = watcher,
         NEW rows \in Rows, NEW first \in Seq(Message), PollOk(rows, first),
         NEW s, Plain(s), NEW b \in BOOLEAN, After(Settled, first) = UI(s, b),
         NEW t, t = With(s, rows, {k \in Keys : rows[k] # task.seen[k]})
  PROVE  /\ TaskTypes' /\ History'
         /\ task'.polling /\ task'.seen = rows /\ task'.synced /\ ~task'.failed
         /\ Settled' = UI(IF task.synced THEN t ELSE FinishSync(t), b)
         /\ Plain(t)
<1> DEFINE diff == Diff(rows)
           last == IF task.synced THEN <<>> ELSE <<Note("Synced")>>
<1>1. outbox' = (first \o diff) \o last
  BY DEF PollOk
<1>2. diff \in Seq(Message) /\ Bring(diff, rows)
      /\ KeysIn(diff, Len(diff)) = {k \in Keys : rows[k] # task.seen[k]}
  BY DiffIs DEF TaskInv
<1>3. last \in Seq(Message)
  BY NotesAre DEF MsgTypes
<1> HIDE DEF diff
<1>4. After(UI(s, b), diff) = UI(t, b)
  <2>1. diff \in Seq(Message) /\ Bring(diff, rows)
    BY <1>2
  <2>2. After(UI(s, b), diff) = UI(With(s, rows, KeysIn(diff, Len(diff))), b)
    BY <2>1, AfterRows
  <2> QED
    BY <1>2, <2>2
<1>5. Plain(t)
  BY WithIs
<1>6. After(UI(t, b), last) = UI(IF task.synced THEN t ELSE FinishSync(t), b)
  <2>1. CASE task.synced
    BY <2>1, AfterNone
  <2>2. CASE ~task.synced
    <3>1. After(UI(t, b), <<Note("Synced")>>) = Fold(UI(t, b), Note("Synced"))
      BY AfterOne
    <3> QED
      BY <1>5, <2>2, <3>1, FoldOther
  <2> QED
    BY <2>1, <2>2
<1> HIDE DEF last
<1>7. outbox' \in Seq(Message) /\ first \o diff \in Seq(Message)
  BY <1>1, <1>2, <1>3
<1>8. Settled' = After(Settled, outbox')
  BY <1>7, Told DEF TaskInv, Quiet, ui
<1>9. After(Settled, (first \o diff) \o last) = After(After(Settled, first \o diff), last)
  <2> DEFINE most == first \o diff
  <2>1. most \in Seq(Message)
    BY <1>7
  <2> HIDE DEF most
  <2>2. After(Settled, most \o last) = After(After(Settled, most), last)
    BY <1>3, <2>1, AfterBoth
  <2> QED
    BY <2>2 DEF most
<1>10. After(Settled, first \o diff) = After(After(Settled, first), diff)
  <2>1. diff \in Seq(Message)
    BY <1>2
  <2> QED
    BY <2>1, AfterBoth
<1>11. /\ task' \in Tasks
       /\ task'.polling /\ task'.seen = rows /\ task'.synced /\ ~task'.failed
  BY DEF PollOk, TaskInv, TaskTypes, Tasks
<1>12. TaskTypes' /\ History'
  BY <1>7, <1>11, QuietStep DEF TaskInv, TaskTypes
<1> QED
  BY <1>1, <1>4, <1>5, <1>6, <1>8, <1>9, <1>10, <1>11, <1>12

\* Rows that differ from none are all there is.
LEMMA FromNone ==
  ASSUME NEW s, Plain(s), NEW rows \in Rows,
         NEW t, t = With(s, rows, {k \in Keys : rows[k] # NoRows[k]})
  PROVE  /\ \A k \in KeysOf(rows) : Brought(t)[k] = rows[k]
         /\ Brought(s) = NoRows => Brought(t) = rows
         /\ KeysOf(Brought(t)) \subseteq KeysOf(Brought(s)) \cup KeysOf(rows)
<1> DEFINE S == {k \in Keys : rows[k] # NoRows[k]}
<1>1. s \in StoreType /\ s.items \in Rows /\ s.pending \in Rows
  BY DEF Plain, StoreType
<1>2. Brought(t) = Over(Brought(s), rows, S)
  BY <1>1 DEF With, Brought, StoreType
<1>3. Brought(s) \in Rows
  BY <1>1 DEF Brought
<1>4. \A k \in KeysOf(rows) : Over(Brought(s), rows, S)[k] = rows[k]
  BY DEF Over, KeysOf, NoRows
<1>5. Over(NoRows, rows, S) = rows
  BY DEF Over, NoRows, Rows
<1>6. KeysOf(Over(Brought(s), rows, S)) \subseteq KeysOf(Brought(s)) \cup KeysOf(rows)
  BY DEF Over, KeysOf
<1> QED
  BY <1>2, <1>4, <1>5, <1>6

\* The first poll after a refused watch: its whole list is shown, and nothing else but what
\* a list that the refusal cut short had brought.
LEMMA StartPollingStep ==
  ASSUME TaskInv, StartPolling
  PROVE  TaskInv' /\ (Counted => Counted')
<1> DEFINE s == Settled.store
           b == Settled.notice
           first == <<Note("WatchPolling")>> \o (IF task.listing THEN <<>> ELSE <<Note("Reset")>>)
           from == IF task.listing THEN s ELSE BeginReset(s)
<1>1. PICK i \in 1 .. Now :
        /\ PollOk(hist[i], first)
        /\ counted' = (IF task.listing THEN counted ELSE {}) \ KeysOf(hist[i])
  BY DEF StartPolling
<1> DEFINE rows == hist[i]
           t == With(from, rows, {k \in Keys : rows[k] # task.seen[k]})
<1>2. /\ ~task.polling /\ outbox = <<>> /\ Quiet /\ watcher' = watcher
  BY DEF StartPolling, Forbidden, Ready, Quiet
<1>3. rows \in Rows /\ Settled = UI(s, b) /\ Plain(s) /\ b \in BOOLEAN
  BY Known
<1>4. task.seen = NoRows /\ ~task.synced
  BY <1>2 DEF TaskInv, Reached
<1>5. Note("WatchPolling") \in Message /\ Note("Reset") \in Message
  BY NotesAre DEF MsgTypes
<1> HIDE DEF s, b, rows
<1>6. first \in Seq(Message) /\ Plain(from) /\ After(Settled, first) = UI(from, FALSE)
  <2>1. Fold(UI(s, b), Note("WatchPolling")) = UI(s, FALSE)
    BY <1>3, FoldOther
  <2>2. Fold(UI(s, FALSE), Note("Reset")) = UI(BeginReset(s), FALSE) /\ Plain(BeginReset(s))
    BY <1>3, FoldOther
  <2> DEFINE one == <<Note("WatchPolling")>>
  <2>3. one \in Seq(Message) /\ After(Settled, one) = UI(s, FALSE)
    <3>1. After(Settled, one) = Fold(Settled, Note("WatchPolling"))
      BY AfterOne
    <3>2. one \in Seq(Message)
      BY <1>5
    <3> HIDE DEF one
    <3>3. After(Settled, one) = UI(s, FALSE)
      BY <1>3, <2>1, <3>1
    <3> QED
      BY <3>2, <3>3
  <2> HIDE DEF one
  <2>4. CASE task.listing
    <3>1. first = one \o <<>>
      BY <2>4 DEF one
    <3>2. one \o <<>> = one
      BY <2>3
    <3>3. first = one
      BY <3>1, <3>2
    <3> QED
      BY <1>3, <2>3, <2>4, <3>3
  <2>5. CASE ~task.listing
    <3>1. first = one \o <<Note("Reset")>>
      BY <2>5 DEF one
    <3>2. one \o <<Note("Reset")>> = Append(one, Note("Reset"))
      BY <1>5, <2>3
    <3>3. first = Append(one, Note("Reset"))
      BY <3>1, <3>2
    <3>4. After(Settled, Append(one, Note("Reset"))) = Fold(After(Settled, one), Note("Reset"))
      <4>1. one \in Seq(Message) /\ Note("Reset") \in Message
        BY <1>5, <2>3
      <4> QED
        BY <4>1, AfterMore
    <3>5. first \in Seq(Message)
      BY <1>5, <2>3, <3>3
    <3> QED
      BY <2>2, <2>3, <2>5, <3>3, <3>4, <3>5
  <2> QED
    BY <2>4, <2>5
<1>7. PollOk(rows, first)
  BY <1>1 DEF rows
<1> HIDE DEF first, from, t
<1>8. /\ TaskTypes' /\ History'
      /\ task'.polling /\ task'.seen = rows /\ task'.synced /\ ~task'.failed
      /\ Settled' = UI(FinishSync(t), FALSE) /\ Plain(t)
  BY <1>2, <1>3, <1>4, <1>6, <1>7, PollTold DEF t
<1>9. /\ \A k \in KeysOf(rows) : Brought(t)[k] = rows[k]
      /\ Brought(from) = NoRows => Brought(t) = rows
      /\ KeysOf(Brought(t)) \subseteq KeysOf(Brought(from)) \cup KeysOf(rows)
  BY <1>3, <1>4, <1>6, FromNone DEF t
<1>10. Plain(FinishSync(t)) /\ Complete(FinishSync(t), Brought(t))
  BY <1>8, FoldOther
<1>11. Settled'.store = FinishSync(t) /\ Settled'.notice = FALSE /\ Shows(Settled')
  BY <1>8, <1>10 DEF UI, Shows
<1>12. Reached' /\ Noticed'
  BY <1>8, <1>9, <1>10, <1>11 DEF Reached, Noticed, Complete, KeysOf
<1>13. ASSUME Counted PROVE Counted'
  <2>1. task'.polling /\ task'.seen = rows /\ Settled'.store.items = Brought(t)
    BY <1>8, <1>10, <1>11 DEF Complete
  <2>2. CASE task.listing
    <3>1. watcher.state # "listed"
      BY <1>2, <2>2 DEF TaskInv, Reached
    <3>2. task'.usingStreaming
      BY <1>7, <3>1 DEF StartPolling, Forbidden, PollOk, TaskInv, TaskTypes, Tasks
    <3>3. KeysOf(Brought(s)) \subseteq counted
      BY <1>2, <1>13, <2>2 DEF Counted, s
    <3>4. counted' = counted \ KeysOf(rows)
      BY <1>1, <2>2 DEF rows
    <3>5. KeysOf(Brought(t)) \subseteq KeysOf(rows) \cup counted'
      BY <1>9, <2>2, <3>3, <3>4 DEF from
    <3> QED
      BY <2>1, <3>2, <3>5 DEF Counted
  <2>3. CASE ~task.listing
    <3>1. Brought(from) = NoRows
      BY <1>3, <2>3, FoldOther DEF from
    <3> QED
      BY <1>9, <2>1, <3>1 DEF Counted
  <2> QED
    BY <2>2, <2>3
<1> QED
  BY <1>8, <1>12, <1>13 DEF TaskInv

\* Every other poll: its changes take the table from the last list to this one.
LEMMA PollStep ==
  ASSUME TaskInv, NEW i \in 1 .. Now, Poll(i)
  PROVE  TaskInv' /\ (Counted => Counted')
<1> DEFINE s == Settled.store
           b == Settled.notice
           first == Recovered(TRUE)
           rows == hist[i]
           S == {k \in Keys : rows[k] # task.seen[k]}
           t == With(s, rows, S)
<1>1. /\ task.polling /\ outbox = <<>> /\ Quiet /\ watcher' = watcher /\ PollOk(rows, first)
  BY DEF Poll, Quiet
<1>2. rows \in Rows /\ Settled = UI(s, b) /\ Plain(s) /\ b \in BOOLEAN
  BY Known
<1>3. /\ task.synced /\ s.synced /\ ~s.buffering /\ task.seen \in Rows
      /\ \A k \in KeysOf(task.seen) : s.items[k] = task.seen[k]
      /\ ~task.failed => b = FALSE
  BY <1>1, <1>2 DEF TaskInv, TaskTypes, Tasks, Reached, Noticed
<1>4. Note("WatchRecovered") \in Message
  BY NotesAre DEF MsgTypes
<1> HIDE DEF s, b, rows
<1>5. first \in Seq(Message) /\ After(Settled, first) = UI(s, FALSE)
  <2>1. CASE task.failed
    <3>1. first = <<Note("WatchRecovered")>>
      BY <2>1 DEF Recovered
    <3>2. Fold(UI(s, b), Note("WatchRecovered")) = UI(s, FALSE)
      BY <1>2, FoldOther
    <3>3. After(Settled, first) = Fold(Settled, Note("WatchRecovered"))
      BY <3>1, AfterOne
    <3> HIDE DEF first
    <3>4. first \in Seq(Message)
      <4>1. <<Note("WatchRecovered")>> \in Seq(Message)
        BY <1>4
      <4> QED
        BY <3>1, <4>1
    <3>5. After(Settled, first) = UI(s, FALSE)
      BY <1>2, <3>2, <3>3
    <3> QED
      BY <3>4, <3>5
  <2>2. CASE ~task.failed
    <3>1. first = <<>>
      BY <2>2 DEF Recovered
    <3>2. After(Settled, first) = Settled
      BY <3>1, AfterNone
    <3> HIDE DEF first
    <3>3. first \in Seq(Message)
      BY <3>1
    <3>4. After(Settled, first) = UI(s, FALSE)
      BY <1>2, <1>3, <2>2, <3>2
    <3> QED
      BY <3>3, <3>4
  <2> QED
    BY <2>1, <2>2
<1> HIDE DEF first, t
<1>6. /\ TaskTypes' /\ History'
      /\ task'.polling /\ task'.seen = rows /\ task'.synced /\ ~task'.failed
      /\ Settled' = UI(t, FALSE) /\ Plain(t)
  <2>1. rows \in Rows /\ Plain(s)
    BY <1>2
  <2>2. PollOk(rows, first)
    BY <1>1 DEF rows
  <2>3. /\ TaskTypes' /\ History'
        /\ task'.polling /\ task'.seen = rows /\ task'.synced /\ ~task'.failed
        /\ Settled' = UI(IF task.synced THEN t ELSE FinishSync(t), FALSE)
        /\ Plain(t)
    BY <1>1, <1>5, <2>1, <2>2, PollTold DEF t
  <2> QED
    BY <1>3, <2>3
<1>7. t = [s EXCEPT !.items = Over(s.items, rows, S)]
  BY <1>3 DEF t, With
<1>8. t.synced /\ ~t.buffering /\ t.items = Over(s.items, rows, S)
  BY <1>2, <1>3, <1>7 DEF Plain, StoreType
<1>9. \A k \in KeysOf(rows) : t.items[k] = rows[k]
  BY <1>2, <1>3, <1>8 DEF Over, KeysOf, Rows
<1>10. KeysOf(t.items) \subseteq KeysOf(rows) \cup (KeysOf(s.items) \ KeysOf(task.seen))
  BY <1>2, <1>3, <1>8 DEF Over, KeysOf
<1>11. Settled'.store = t /\ Settled'.notice = FALSE /\ Shows(Settled')
  BY <1>6 DEF UI, Shows
<1>12. Reached' /\ Noticed'
  BY <1>6, <1>8, <1>9, <1>11 DEF Reached, Noticed, KeysOf
<1>13. ASSUME Counted PROVE Counted'
  <2>1. counted' = counted \ KeysOf(rows)
    BY DEF Poll, rows
  <2>2. task'.usingStreaming = task.usingStreaming
    BY <1>1 DEF PollOk, TaskInv, TaskTypes, Tasks
  <2>3. KeysOf(s.items) \ KeysOf(task.seen) \subseteq
          (IF task.usingStreaming THEN counted ELSE {})
    BY <1>1, <1>13 DEF Counted, s
  <2> QED
    BY <1>6, <1>10, <1>11, <2>1, <2>2, <2>3 DEF Counted
<1> QED
  BY <1>6, <1>12, <1>13 DEF TaskInv

-----------------------------------------------------------------------------
(* A view of several namespaces: folding at a given generation.             *)

\* FoldWatch and After, of any generation.
FoldAt(G, u, m) ==
  IF m.gen = G THEN [Spaces!FoldedNotice(u, m) EXCEPT !.store = Spaces!FoldedStore(@, m)] ELSE u

AfterAt(G, u, ms) ==
  LET after[n \in 0 .. Len(ms)] == IF n = 0 THEN u ELSE FoldAt(G, after[n - 1], ms[n])
  IN after[Len(ms)]

\* Settled is AfterAt of the generation, the table and the channel.
LEMMA SettledAt ==
  /\ Spaces!Settled = AfterAt(generation, table, events)
  /\ Spaces!Settled' = AfterAt(generation', table', events')
  /\ \A u, m : Spaces!FoldWatch(u, m) = FoldAt(generation, u, m)
BY DEF Spaces!Settled, Spaces!After, Spaces!FoldWatch, AfterAt, FoldAt

\* What the messages handled so far made of the UI: a function that is so exists.
StepsAt(G, f, u, ms) ==
  /\ f = [i \in 0 .. Len(ms) |-> f[i]]
  /\ f[0] = u
  /\ \A i \in 1 .. Len(ms) : f[i] = FoldAt(G, f[i - 1], ms[i])

\* A function that goes from u over the messages exists.
LEMMA SpacesStepsExist ==
  ASSUME NEW G, NEW u, NEW ms, Len(ms) \in Nat
  PROVE  \E f : StepsAt(G, f, u, ms)
<1> DEFINE Upto(n) == \E f : /\ f = [i \in 0 .. n |-> f[i]]
                             /\ f[0] = u
                             /\ \A i \in 1 .. n : f[i] = FoldAt(G, f[i - 1], ms[i])
           T == {n \in Nat : Upto(n)}
<1>1. Upto(0)
  <2> WITNESS [i \in 0 .. 0 |-> u]
  <2> QED
    OBVIOUS
<1>2. ASSUME NEW n \in Nat, Upto(n) PROVE Upto(n + 1)
  <2>1. PICK f : /\ f = [i \in 0 .. n |-> f[i]]
                 /\ f[0] = u
                 /\ \A i \in 1 .. n : f[i] = FoldAt(G, f[i - 1], ms[i])
    BY <1>2
  <2> DEFINE g == [i \in 0 .. n + 1 |-> IF i = n + 1 THEN FoldAt(G, f[n], ms[n + 1]) ELSE f[i]]
  <2>2. g = [i \in 0 .. n + 1 |-> g[i]] /\ g[0] = u
    BY <2>1
  <2>3. \A i \in 1 .. n + 1 : g[i] = FoldAt(G, g[i - 1], ms[i])
    <3> SUFFICES ASSUME NEW i \in 1 .. n + 1
                 PROVE  g[i] = FoldAt(G, g[i - 1], ms[i])
      OBVIOUS
    <3>1. CASE i = n + 1
      <4>1. g[i - 1] = f[n] /\ g[i] = FoldAt(G, f[n], ms[n + 1])
        BY <3>1
      <4> QED
        BY <3>1, <4>1
    <3>2. CASE i # n + 1
      <4>1. g[i - 1] = f[i - 1] /\ g[i] = f[i] /\ i \in 1 .. n
        BY <3>2
      <4> QED
        BY <2>1, <4>1
    <3> QED
      BY <3>1, <3>2
  <2> HIDE DEF g
  <2> QED
    BY <2>2, <2>3
<1>3. Len(ms) \in T
  <2>1. 0 \in T /\ \A n \in Nat : n \in T => n + 1 \in T
    <3> HIDE DEF Upto
    <3> QED
      BY <1>1, <1>2
  <2> HIDE DEF T
  <2> QED
    BY <2>1, Induction
<1> QED
  BY <1>3 DEF StepsAt

\* ... and it is what After computes.
LEMMA SpacesAfterIs ==
  ASSUME NEW G, NEW u, NEW ms, Len(ms) \in Nat
  PROVE  \E f : StepsAt(G, f, u, ms) /\ AfterAt(G, u, ms) = f[Len(ms)]
<1> DEFINE Is(f) == f = [n \in 0 .. Len(ms) |-> IF n = 0 THEN u ELSE FoldAt(G, f[n - 1], ms[n])]
           after == CHOOSE f : Is(f)
<1>1. \E f : Is(f)
  <2>1. PICK f : StepsAt(G, f, u, ms)
    BY SpacesStepsExist
  <2>2. \A n \in 0 .. Len(ms) : f[n] = IF n = 0 THEN u ELSE FoldAt(G, f[n - 1], ms[n])
    BY <2>1 DEF StepsAt
  <2>3. f = [n \in 0 .. Len(ms) |-> f[n]]
    BY <2>1 DEF StepsAt
  <2>4. Is(f)
    BY <2>2, <2>3
  <2> QED
    BY <2>4
<1>2. Is(after)
  <2> HIDE DEF Is
  <2> QED
    BY <1>1
<1>3. AfterAt(G, u, ms) = after[Len(ms)]
  BY DEF AfterAt
<1>4. StepsAt(G, after, u, ms)
  <2> HIDE DEF after
  <2>1. \A n \in 0 .. Len(ms) : after[n] = IF n = 0 THEN u ELSE FoldAt(G, after[n - 1], ms[n])
    BY <1>2
  <2>2. after = [n \in 0 .. Len(ms) |-> after[n]]
    BY <1>2
  <2> QED
    BY <2>1, <2>2 DEF StepsAt
<1> QED
  BY <1>3, <1>4

\* Whatever goes step by step from u over ms ends in AfterAt(G, u, ms).
GoesAt(G, g, u, ms) ==
  /\ g[0] = u
  /\ \A i \in Nat : i < Len(ms) => g[i + 1] = FoldAt(G, g[i], ms[i + 1])

\* ... and nothing else does.
LEMMA SpacesAfterOf ==
  ASSUME NEW G, NEW u, NEW ms, Len(ms) \in Nat, NEW g, GoesAt(G, g, u, ms)
  PROVE  AfterAt(G, u, ms) = g[Len(ms)]
<1>1. PICK f : StepsAt(G, f, u, ms) /\ AfterAt(G, u, ms) = f[Len(ms)]
  BY SpacesAfterIs
<1>2. \A i \in Nat : i < Len(ms) => f[i + 1] = FoldAt(G, f[i], ms[i + 1])
  <2> SUFFICES ASSUME NEW i \in Nat, i < Len(ms)
               PROVE  f[i + 1] = FoldAt(G, f[i], ms[i + 1])
    OBVIOUS
  <2>1. i + 1 \in 1 .. Len(ms) /\ (i + 1) - 1 = i
    OBVIOUS
  <2> QED
    BY <1>1, <2>1 DEF StepsAt
<1>3. f[0] = g[0]
  BY <1>1 DEF StepsAt, GoesAt
<1>4. \A i \in Nat : i < Len(ms) /\ f[i] = g[i] => f[i + 1] = g[i + 1]
  BY <1>2 DEF GoesAt
<1> QED
  BY <1>1, <1>3, <1>4, SameTrace

\* The messages are handled one list after the other.
LEMMA SpacesAfterBoth ==
  ASSUME NEW M, NEW G, NEW u, NEW ms \in Seq(M), NEW ns \in Seq(M)
  PROVE  AfterAt(G, u, ms \o ns) = AfterAt(G, AfterAt(G, u, ms), ns)
<1>1. PICK f : StepsAt(G, f, u, ms) /\ AfterAt(G, u, ms) = f[Len(ms)]
  BY SpacesAfterIs
<1>2. PICK h : /\ StepsAt(G, h, AfterAt(G, u, ms), ns)
               /\ AfterAt(G, AfterAt(G, u, ms), ns) = h[Len(ns)]
  BY SpacesAfterIs
<1> DEFINE all == ms \o ns
           g == [i \in 0 .. Len(all) |-> IF i <= Len(ms) THEN f[i] ELSE h[i - Len(ms)]]
<1>3. /\ Len(ms) \in Nat /\ Len(ns) \in Nat /\ Len(all) = Len(ms) + Len(ns)
      /\ \A i \in 1 .. Len(all) : all[i] = IF i <= Len(ms) THEN ms[i] ELSE ns[i - Len(ms)]
  OBVIOUS
<1> HIDE DEF all
<1>4. g[0] = u
  BY <1>1, <1>3 DEF StepsAt
<1>5. ASSUME NEW i \in Nat, i < Len(all)
      PROVE  g[i + 1] = FoldAt(G, g[i], all[i + 1])
  <2>1. CASE i + 1 <= Len(ms)
    <3>1. i + 1 \in 1 .. Len(ms) /\ (i + 1) - 1 = i
      BY <1>3, <2>1
    <3>2. f[i + 1] = FoldAt(G, f[i], ms[i + 1])
      BY <1>1, <3>1 DEF StepsAt
    <3>3. g[i + 1] = f[i + 1] /\ g[i] = f[i] /\ all[i + 1] = ms[i + 1]
      BY <1>3, <1>5, <2>1
    <3> QED
      BY <3>2, <3>3
  <2>2. CASE i + 1 > Len(ms)
    <3> DEFINE j == i - Len(ms)
    <3>1. j \in Nat /\ j + 1 \in 1 .. Len(ns) /\ (j + 1) - 1 = j
      BY <1>3, <1>5, <2>2
    <3>2. h[j + 1] = FoldAt(G, h[j], ns[j + 1])
      BY <1>2, <3>1 DEF StepsAt
    <3>3. g[i + 1] = h[j + 1] /\ all[i + 1] = ns[j + 1]
      BY <1>3, <1>5, <2>2
    <3>4. g[i] = h[j]
      <4>1. CASE i = Len(ms)
        BY <1>1, <1>2, <1>3, <1>5, <4>1 DEF StepsAt
      <4>2. CASE i # Len(ms)
        BY <1>3, <1>5, <2>2, <4>2
      <4> QED
        BY <4>1, <4>2
    <3> HIDE DEF j, g
    <3> QED
      BY <3>2, <3>3, <3>4
  <2> QED
    BY <1>3, <1>5, <2>1, <2>2
<1>6. g[Len(all)] = h[Len(ns)]
  <2>1. CASE Len(ns) = 0
    BY <1>1, <1>2, <1>3, <2>1 DEF StepsAt
  <2>2. CASE Len(ns) # 0
    BY <1>3, <2>2
  <2> QED
    BY <2>1, <2>2
<1>7. AfterAt(G, u, all) = g[Len(all)]
  <2> HIDE DEF g
  <2>1. GoesAt(G, g, u, all)
    BY <1>4, <1>5 DEF GoesAt
  <2>2. Len(all) \in Nat
    BY <1>3
  <2> QED
    BY <2>1, <2>2, SpacesAfterOf
<1> QED
  BY <1>2, <1>6, <1>7 DEF all

\* No message changes nothing, ...
LEMMA SpacesAfterNone == ASSUME NEW G, NEW u PROVE AfterAt(G, u, <<>>) = u
<1> DEFINE g == [i \in 0 .. 0 |-> u]
<1>1. g[0] = u /\ Len(<<>>) = 0 /\ \A i \in Nat : ~(i < 0)
  OBVIOUS
<1> HIDE DEF g
<1>2. GoesAt(G, g, u, <<>>)
  BY <1>1 DEF GoesAt
<1> QED
  BY <1>1, <1>2, SpacesAfterOf

\* ... one is folded, ...
LEMMA SpacesAfterOne == ASSUME NEW G, NEW u, NEW m PROVE AfterAt(G, u, <<m>>) = FoldAt(G, u, m)
<1> DEFINE g == [i \in 0 .. 1 |-> IF i = 0 THEN u ELSE FoldAt(G, u, m)]
           ms == <<m>>
<1>1. g[0] = u /\ g[1] = FoldAt(G, u, m) /\ Len(ms) = 1 /\ ms[1] = m
  OBVIOUS
<1>2. \A i \in Nat : i < 1 => i = 0
  OBVIOUS
<1> HIDE DEF g, ms
<1>3. GoesAt(G, g, u, ms)
  BY <1>1, <1>2 DEF GoesAt
<1>4. Len(ms) \in Nat
  BY <1>1
<1>5. AfterAt(G, u, ms) = g[Len(ms)]
  BY <1>3, <1>4, SpacesAfterOf
<1> QED
  BY <1>1, <1>5 DEF ms

\* One message more, and one message less.
LEMMA SpacesAfterMore ==
  ASSUME NEW M, NEW G, NEW u, NEW ms \in Seq(M), NEW m \in M
  PROVE  AfterAt(G, u, Append(ms, m)) = FoldAt(G, AfterAt(G, u, ms), m)
<1> DEFINE last == <<m>>
<1>1. last \in Seq(M) /\ Append(ms, m) = ms \o last
  OBVIOUS
<1>2. AfterAt(G, AfterAt(G, u, ms), last) = FoldAt(G, AfterAt(G, u, ms), m)
  BY SpacesAfterOne
<1> HIDE DEF last
<1>3. AfterAt(G, u, ms \o last) = AfterAt(G, AfterAt(G, u, ms), last)
  BY <1>1, SpacesAfterBoth
<1> QED
  BY <1>1, <1>2, <1>3

\* ... and the first in the channel may be handled now or later (HandleMsg).
LEMMA SpacesAfterFirst ==
  ASSUME NEW M, NEW G, NEW u, NEW ms \in Seq(M), ms # <<>>
  PROVE  AfterAt(G, FoldAt(G, u, Head(ms)), Tail(ms)) = AfterAt(G, u, ms)
<1> DEFINE first == <<Head(ms)>>
           rest == Tail(ms)
<1>1. first \in Seq(M) /\ rest \in Seq(M) /\ ms = first \o rest
  OBVIOUS
<1>2. AfterAt(G, u, first) = FoldAt(G, u, Head(ms))
  BY SpacesAfterOne
<1> HIDE DEF first, rest
<1>3. AfterAt(G, u, first \o rest) = AfterAt(G, AfterAt(G, u, first), rest)
  BY <1>1, SpacesAfterBoth
<1> QED
  BY <1>1, <1>2, <1>3 DEF rest

\* Rows of several namespaces, and the messages of their watches.
SpaceRows == [Keys -> Versions \cup {NoObj}]
WatchMessage ==
  [gen : Nat, type : MsgTypes, space : Names, key : Keys \cup {AnyKey}, obj : Versions \cup {NoObj}]

\* The rows of the namespaces W and of no other.
OnlyOf(rows, W) == \A k \in Keys : rows[k] # NoObj => NameOf[k] \in W

\* A store that has rows of W alone, and buffers those of a namespace apart.
ViewStore(s, W) ==
  /\ s \in Spaces!StoreType /\ ~s.buffering
  /\ OnlyOf(s.items, W)
  /\ \A p \in Names : OnlyOf(s.nsPending[p], {p})

\* What the view shows.
ViewUI == [store : Spaces!StoreType, errors : SUBSET Names,
           flash : Names \cup {None, Notice}, reported : Names \cup {None}]

\* The notice on the status bar is of a namespace that fails, or of no watch.
View(u, W) ==
  /\ u \in ViewUI /\ ViewStore(u.store, W)
  /\ u.flash \in u.errors \cup {None, Notice}
  /\ u.flash \in Names => u.reported = u.flash

\* A message of the current watches is of one of them.
Ours(m, G, W) ==
  m.gen = G => /\ m.space \in W
               /\ m.type \in {"Applied", "Deleted"} => m.key \in Keys /\ NameOf[m.key] = m.space

\* No watch and no notice are taken for a namespace, and keys have one.
LEMMA SpacesAre ==
  /\ {None, Notice} \cap Names = {} /\ None # Notice /\ None \notin SUBSET Names
  /\ NameOf \in [Keys -> Names] /\ NoObj \notin Versions /\ Versions # {}
BY SpacesAssumption DEF Spaces!NamespaceAssumption

\* The rows of a view of several namespaces are those of its store.
LEMMA SpaceRowsAre ==
  /\ Spaces!Rows = SpaceRows /\ Spaces!NoRows = NoRows /\ NoRows \in SpaceRows
  /\ \A W : OnlyOf(NoRows, W)
BY DEF Spaces!Rows, SpaceRows, Spaces!NoRows, NoRows, OnlyOf

\* A row of p is put where p's rows go.
SpacePlaced(s, p, k, row) ==
  IF p \in s.nsBuffering
  THEN [s EXCEPT !.nsPending = [s.nsPending EXCEPT ![p] = [s.nsPending[p] EXCEPT ![k] = row]]]
  ELSE [s EXCEPT !.items = [s.items EXCEPT ![k] = row]]

\* A row of a namespace that is watched keeps the store a view of those.
LEMMA SpacePlacedIs ==
  ASSUME NEW W \in SUBSET Names, NEW s, ViewStore(s, W), NEW p \in W, NEW k \in Keys,
         NameOf[k] = p, NEW row \in Versions \cup {NoObj}
  PROVE  ViewStore(SpacePlaced(s, p, k, row), W)
<1>1. s \in Spaces!StoreType /\ s.items \in SpaceRows /\ s.nsPending \in [Names -> SpaceRows]
  BY SpaceRowsAre DEF ViewStore, Spaces!StoreType
<1> DEFINE items == [s.items EXCEPT ![k] = row]
           pending == [s.nsPending EXCEPT ![p] = [s.nsPending[p] EXCEPT ![k] = row]]
<1>2. items \in SpaceRows /\ OnlyOf(items, W)
  BY <1>1 DEF SpaceRows, ViewStore, OnlyOf
<1>3. pending \in [Names -> SpaceRows] /\ \A q \in Names : OnlyOf(pending[q], {q})
  BY <1>1 DEF SpaceRows, ViewStore, OnlyOf
<1>4. CASE p \in s.nsBuffering
  <2>1. SpacePlaced(s, p, k, row) = [s EXCEPT !.nsPending = pending]
    BY <1>4 DEF SpacePlaced
  <2> HIDE DEF pending
  <2> QED
    BY <1>1, <1>3, <2>1, SpaceRowsAre DEF ViewStore, Spaces!StoreType
<1>5. CASE p \notin s.nsBuffering
  <2>1. SpacePlaced(s, p, k, row) = [s EXCEPT !.items = items]
    BY <1>5 DEF SpacePlaced
  <2> HIDE DEF items
  <2> QED
    BY <1>1, <1>2, <2>1, SpaceRowsAre DEF ViewStore, Spaces!StoreType
<1> QED
  BY <1>4, <1>5

\* ... and its namespace's keys become `noted`, unless it only goes into a buffer.
Noted(t, s, p, k, row, noted) ==
  \E keys \in [Names -> SUBSET Keys] :
    /\ t = [SpacePlaced(s, p, k, row) EXCEPT !.nsKeys = keys]
    /\ \A q \in Names :
         keys[q] = IF q = p /\ p \in s.parts /\ p \notin s.nsBuffering THEN noted ELSE s.nsKeys[q]

\* ApplyIn and RemoveIn put a row in its place and note its key.
LEMMA SpaceRowIs ==
  ASSUME NEW s \in Spaces!StoreType, ~s.buffering, NEW p \in Names, NEW k \in Keys,
         NEW row \in Versions \cup {NoObj}
  PROVE  /\ Noted(Spaces!ApplyIn(s, p, k, row), s, p, k, row, s.nsKeys[p] \cup {k})
         /\ Noted(Spaces!RemoveIn(s, p, k), s, p, k, NoObj, s.nsKeys[p] \ {k})
<1>1. ASSUME NEW r \in Versions \cup {NoObj}
      PROVE  /\ Spaces!SetRow(s, p, k, r) = SpacePlaced(s, p, k, r)
             /\ SpacePlaced(s, p, k, r).nsKeys = s.nsKeys
             /\ SpacePlaced(s, p, k, r) = [SpacePlaced(s, p, k, r) EXCEPT !.nsKeys = s.nsKeys]
  <2> DEFINE pending == [s.nsPending EXCEPT ![p] = [s.nsPending[p] EXCEPT ![k] = r]]
             items == [s.items EXCEPT ![k] = r]
  <2>1. CASE p \in s.nsBuffering
    <3>1. Spaces!SetRow(s, p, k, r) = [s EXCEPT !.nsPending = pending]
      BY <2>1 DEF Spaces!SetRow
    <3>2. SpacePlaced(s, p, k, r) = [s EXCEPT !.nsPending = pending]
      BY <2>1 DEF SpacePlaced
    <3> HIDE DEF pending
    <3> QED
      BY <3>1, <3>2 DEF Spaces!StoreType
  <2>2. CASE p \notin s.nsBuffering
    <3>1. Spaces!SetRow(s, p, k, r) = [s EXCEPT !.items = items]
      BY <2>2 DEF Spaces!SetRow
    <3>2. SpacePlaced(s, p, k, r) = [s EXCEPT !.items = items]
      BY <2>2 DEF SpacePlaced
    <3> HIDE DEF items
    <3> QED
      BY <3>1, <3>2 DEF Spaces!StoreType
  <2> QED
    BY <2>1, <2>2
<1>2. s.nsKeys \in [Names -> SUBSET Keys]
  BY DEF Spaces!StoreType
<1>3. \E keys \in [Names -> SUBSET Keys] :
        /\ Spaces!ApplyIn(s, p, k, row) = [SpacePlaced(s, p, k, row) EXCEPT !.nsKeys = keys]
        /\ \A q \in Names :
             keys[q] = IF q = p /\ p \in s.parts /\ p \notin s.nsBuffering
                       THEN s.nsKeys[p] \cup {k} ELSE s.nsKeys[q]
  <2> DEFINE t == SpacePlaced(s, p, k, row)
             more == [s.nsKeys EXCEPT ![p] = @ \cup {k}]
  <2>1. Spaces!SetRow(s, p, k, row) = t /\ t.nsKeys = s.nsKeys
        /\ t = [t EXCEPT !.nsKeys = s.nsKeys]
    BY <1>1
  <2> HIDE DEF t
  <2>2. CASE p \in s.parts /\ p \notin s.nsBuffering
    <3>1. more \in [Names -> SUBSET Keys]
          /\ \A q \in Names : more[q] = IF q = p THEN s.nsKeys[p] \cup {k} ELSE s.nsKeys[q]
      BY <1>2
    <3>2. Spaces!ApplyIn(s, p, k, row) = [t EXCEPT !.nsKeys = more]
      BY <2>1, <2>2 DEF Spaces!ApplyIn
    <3> HIDE DEF more
    <3> QED
      BY <2>2, <3>1, <3>2 DEF t
  <2>3. CASE ~(p \in s.parts /\ p \notin s.nsBuffering)
    <3>1. Spaces!ApplyIn(s, p, k, row) = [t EXCEPT !.nsKeys = s.nsKeys]
      BY <2>1, <2>3 DEF Spaces!ApplyIn
    <3> QED
      BY <1>2, <2>3, <3>1 DEF t
  <2> QED
    BY <2>2, <2>3
<1>4. \E keys \in [Names -> SUBSET Keys] :
        /\ Spaces!RemoveIn(s, p, k) = [SpacePlaced(s, p, k, NoObj) EXCEPT !.nsKeys = keys]
        /\ \A q \in Names :
             keys[q] = IF q = p /\ p \in s.parts /\ p \notin s.nsBuffering
                       THEN s.nsKeys[p] \ {k} ELSE s.nsKeys[q]
  <2> DEFINE t == SpacePlaced(s, p, k, NoObj)
             less == [s.nsKeys EXCEPT ![p] = @ \ {k}]
  <2>1. Spaces!SetRow(s, p, k, NoObj) = t /\ t.nsKeys = s.nsKeys
        /\ t = [t EXCEPT !.nsKeys = s.nsKeys]
    BY <1>1
  <2> HIDE DEF t
  <2>2. CASE p \in s.parts /\ p \notin s.nsBuffering
    <3>1. less \in [Names -> SUBSET Keys]
          /\ \A q \in Names : less[q] = IF q = p THEN s.nsKeys[p] \ {k} ELSE s.nsKeys[q]
      BY <1>2
    <3>2. Spaces!RemoveIn(s, p, k) = [t EXCEPT !.nsKeys = less]
      BY <2>1, <2>2 DEF Spaces!RemoveIn
    <3> HIDE DEF less
    <3> QED
      BY <2>2, <3>1, <3>2 DEF t
  <2>3. CASE ~(p \in s.parts /\ p \notin s.nsBuffering)
    <3>1. Spaces!RemoveIn(s, p, k) = [t EXCEPT !.nsKeys = s.nsKeys]
      BY <2>1, <2>3 DEF Spaces!RemoveIn
    <3> QED
      BY <1>2, <2>3, <3>1 DEF t
  <2> QED
    BY <2>2, <2>3
<1> QED
  BY <1>3, <1>4 DEF Noted

\* A list begins, and is complete.
LEMMA SpaceListIs ==
  ASSUME NEW W \in SUBSET Names, NEW s, ViewStore(s, W), NEW p \in W
  PROVE  /\ ViewStore(Spaces!BeginNamespaceReset(s, p), W)
         /\ ViewStore(Spaces!FinishNamespaceSync(s, p), W)
<1>1. /\ s \in Spaces!StoreType /\ s.items \in SpaceRows /\ s.nsPending \in [Names -> SpaceRows]
      /\ s.nsKeys \in [Names -> SUBSET Keys] /\ p \in Names
  BY SpaceRowsAre DEF ViewStore, Spaces!StoreType
<1> DEFINE empty == [s.nsPending EXCEPT ![p] = NoRows]
           fresh == s.nsPending[p]
           items == IF p \in s.nsBuffering
                    THEN [k \in Keys |-> IF fresh[k] # NoObj THEN fresh[k]
                                         ELSE IF k \in s.nsKeys[p] THEN NoObj ELSE s.items[k]]
                    ELSE s.items
           keys == [s.nsKeys EXCEPT ![p] = IF p \in s.nsBuffering THEN Spaces!KeysOf(fresh) ELSE @]
<1>2. empty \in [Names -> SpaceRows] /\ \A q \in Names : OnlyOf(empty[q], {q})
  BY <1>1, SpaceRowsAre DEF ViewStore
<1>3. items \in SpaceRows /\ OnlyOf(items, W)
  BY <1>1 DEF SpaceRows, ViewStore, OnlyOf
<1>4. keys \in [Names -> SUBSET Keys]
  BY <1>1 DEF Spaces!KeysOf
<1>5. Spaces!BeginNamespaceReset(s, p) =
        [s EXCEPT !.synced = FALSE, !.parts = @ \cup {p}, !.nsReady = @ \ {p},
                  !.nsBuffering = @ \cup {p}, !.nsPending = empty]
  BY SpaceRowsAre DEF Spaces!BeginNamespaceReset
<1>6. Spaces!FinishNamespaceSync(s, p) =
        [s EXCEPT !.items = items, !.nsKeys = keys, !.nsBuffering = @ \ {p}, !.nsPending = empty,
                  !.parts = @ \cup {p}, !.nsReady = @ \cup {p},
                  !.synced = (s.parts \subseteq s.nsReady \cup {p})]
  BY <1>1, SpaceRowsAre DEF Spaces!FinishNamespaceSync, Spaces!StoreType
<1> HIDE DEF empty, items, keys
<1>7. ViewStore(Spaces!BeginNamespaceReset(s, p), W)
  <2> DEFINE t == Spaces!BeginNamespaceReset(s, p)
  <2>1. t \in Spaces!StoreType
    <3> DEFINE parts == s.parts \cup {p}
               ready == s.nsReady \ {p}
               open == s.nsBuffering \cup {p}
    <3>1. /\ parts \in SUBSET Names /\ ready \in SUBSET Names /\ open \in SUBSET Names
          /\ empty \in [Names -> Spaces!Rows]
      BY <1>1, <1>2, SpaceRowsAre DEF Spaces!StoreType
    <3>2. t = [s EXCEPT !.synced = FALSE, !.parts = parts, !.nsReady = ready,
                       !.nsBuffering = open, !.nsPending = empty]
      BY <1>5
    <3> HIDE DEF parts, ready, open, t
    <3> QED
      BY <1>1, <3>1, <3>2 DEF Spaces!StoreType
  <2>2. t.items = s.items /\ t.buffering = s.buffering /\ t.nsPending = empty
    BY <1>1, <1>2, <1>5 DEF Spaces!StoreType
  <2> HIDE DEF t
  <2>3. ViewStore(t, W)
    BY <1>2, <2>1, <2>2 DEF ViewStore
  <2> QED
    BY <2>3 DEF t
<1>8. ViewStore(Spaces!FinishNamespaceSync(s, p), W)
  <2> DEFINE t == Spaces!FinishNamespaceSync(s, p)
  <2>1. t \in Spaces!StoreType
    <3> DEFINE parts == s.parts \cup {p}
               ready == s.nsReady \cup {p}
               open == s.nsBuffering \ {p}
               done == s.parts \subseteq s.nsReady \cup {p}
    <3>1. /\ parts \in SUBSET Names /\ ready \in SUBSET Names /\ open \in SUBSET Names
          /\ empty \in [Names -> Spaces!Rows] /\ done \in BOOLEAN /\ items \in Spaces!Rows
      BY <1>1, <1>2, <1>3, SpaceRowsAre DEF Spaces!StoreType
    <3>2. t = [s EXCEPT !.items = items, !.nsKeys = keys, !.nsBuffering = open,
                       !.nsPending = empty, !.parts = parts, !.nsReady = ready, !.synced = done]
      BY <1>6
    <3> HIDE DEF parts, ready, open, done, t
    <3> QED
      BY <1>1, <1>4, <3>1, <3>2 DEF Spaces!StoreType
  <2>2. t.items = items /\ t.buffering = s.buffering /\ t.nsPending = empty
    BY <1>1, <1>2, <1>3, <1>4, <1>6 DEF Spaces!StoreType
  <2> HIDE DEF t
  <2>3. ViewStore(t, W)
    BY <1>2, <1>3, <2>1, <2>2 DEF ViewStore
  <2> QED
    BY <2>3 DEF t
<1> QED
  BY <1>7, <1>8

\* Whatever is handled, the table shows no namespace but those watched.
LEMMA FoldKeepsView ==
  ASSUME NEW W \in SUBSET Names, NEW G, NEW u, View(u, W),
         NEW m \in WatchMessage, Ours(m, G, W)
  PROVE  View(FoldAt(G, u, m), W)
<1>1. CASE m.gen # G
  BY <1>1 DEF FoldAt
<1>2. CASE m.gen = G
  <2> DEFINE s == u.store
             t == Spaces!FoldedStore(s, m)
             v == Spaces!FoldedNotice(u, m)
  <2>1. /\ u \in ViewUI /\ ViewStore(s, W) /\ s \in Spaces!StoreType /\ ~s.buffering
        /\ m.space \in W /\ m.space \in Names /\ m.obj \in Versions \cup {NoObj}
        /\ m.type \in {"Applied", "Deleted"} => m.key \in Keys /\ NameOf[m.key] = m.space
    BY <1>2 DEF View, ViewStore, Ours, WatchMessage
  <2>2. ViewStore(t, W)
    <3>1. CASE m.type = "Reset"
      BY <2>1, <3>1, SpaceListIs DEF Spaces!FoldedStore
    <3>2. CASE m.type = "Synced"
      BY <2>1, <3>2, SpaceListIs DEF Spaces!FoldedStore
    <3>3. CASE m.type \in {"Applied", "Deleted"}
      <4> DEFINE p == m.space
                 k == m.key
                 row == IF m.type = "Applied" THEN m.obj ELSE NoObj
                 r == SpacePlaced(s, p, k, row)
      <4>1. row \in Versions \cup {NoObj}
        BY <2>1
      <4>2. p \in W /\ p \in Names /\ k \in Keys /\ NameOf[k] = p
        BY <2>1, <3>3
      <4>3. t = IF m.type = "Applied" THEN Spaces!ApplyIn(s, p, k, row)
                ELSE Spaces!RemoveIn(s, p, k)
        BY <3>3 DEF Spaces!FoldedStore
      <4> HIDE DEF p, k, t, s
      <4>4. \E keys \in [Names -> SUBSET Keys] : t = [r EXCEPT !.nsKeys = keys]
        <5>1. CASE m.type = "Applied"
          <6>1. Noted(Spaces!ApplyIn(s, p, k, row), s, p, k, row, s.nsKeys[p] \cup {k})
            <7> HIDE DEF row
            <7>1. s \in Spaces!StoreType /\ ~s.buffering
              BY <2>1
            <7>2. p \in Names /\ k \in Keys
              BY <4>2
            <7> QED
              BY <4>1, <7>1, <7>2, SpaceRowIs
          <6> QED
            BY <4>3, <5>1, <6>1 DEF Noted
        <5>2. CASE m.type # "Applied"
          <6>1. Noted(Spaces!RemoveIn(s, p, k), s, p, k, NoObj, s.nsKeys[p] \ {k})
            <7>1. NoObj \in Versions \cup {NoObj} /\ s \in Spaces!StoreType /\ ~s.buffering
              BY <2>1
            <7>2. p \in Names /\ k \in Keys
              BY <4>2
            <7> QED
              BY <7>1, <7>2, SpaceRowIs
          <6> QED
            BY <4>3, <5>2, <6>1 DEF Noted
        <5> QED
          BY <5>1, <5>2
      <4>5. ViewStore(r, W)
        <5> HIDE DEF row
        <5> QED
          BY <2>1, <4>1, <4>2, SpacePlacedIs
      <4> HIDE DEF r
      <4> QED
        BY <4>4, <4>5 DEF ViewStore, Spaces!StoreType
    <3>4. CASE m.type \notin {"Reset", "Synced", "Applied", "Deleted"}
      BY <2>1, <3>4 DEF Spaces!FoldedStore
    <3> QED
      BY <3>1, <3>2, <3>3, <3>4
  <2>3. /\ v \in ViewUI
        /\ v.flash \in v.errors \cup {None, Notice}
        /\ v.flash \in Names => v.reported = v.flash
    <3>1. /\ u.errors \in SUBSET Names /\ u.flash \in Names \cup {None, Notice}
          /\ u.reported \in Names \cup {None}
          /\ u.flash \in u.errors \cup {None, Notice} /\ (u.flash \in Names => u.reported = u.flash)
      BY <2>1 DEF View, ViewUI
    <3>2. CASE m.type = "WatchError"
      <4> DEFINE errors == u.errors \cup {m.space}
                 p == m.space
      <4>1. v = [u EXCEPT !.errors = errors, !.flash = p, !.reported = p]
        BY <2>1, <3>2 DEF Spaces!FoldedNotice, Spaces!Reporting, ViewUI
      <4>2. errors \in SUBSET Names /\ p \in Names /\ p \in errors
        BY <2>1, <3>1
      <4> HIDE DEF errors, p, v
      <4>3. v \in ViewUI /\ v.errors = errors /\ v.flash = p /\ v.reported = p
        BY <2>1, <4>1, <4>2 DEF ViewUI
      <4> QED
        BY <4>2, <4>3
    <3>3. CASE m.type = "WatchRecovered"
      <4> DEFINE left == u.errors \ {m.space}
                 flash == IF u.reported # None /\ u.reported = u.flash THEN None ELSE u.flash
      <4>1. CASE u.reported # None /\ u.reported = u.flash /\ left # {}
        <5>1. PICK q \in left : q = CHOOSE p \in left : TRUE
          BY <4>1
        <5>2. v = [u EXCEPT !.errors = left, !.flash = q, !.reported = q]
          BY <2>1, <3>3, <4>1, <5>1
             DEF Spaces!FoldedNotice, Spaces!Reporting, Spaces!Cleared, ViewUI
        <5> QED
          BY <2>1, <3>1, <5>1, <5>2 DEF ViewUI
      <4>2. CASE ~(u.reported # None /\ u.reported = u.flash /\ left # {})
        <5>1. v = [u EXCEPT !.errors = left, !.flash = flash, !.reported = None]
          BY <2>1, <3>3, <4>2 DEF Spaces!FoldedNotice, Spaces!Cleared, ViewUI
        <5>2. flash \in {None, Notice}
          BY <3>1, SpacesAre
        <5> HIDE DEF flash
        <5> QED
          BY <2>1, <3>1, <5>1, <5>2, SpacesAre DEF ViewUI
      <4> QED
        BY <4>1, <4>2
    <3>4. CASE m.type \notin {"WatchError", "WatchRecovered"}
      BY <2>1, <3>1, <3>4 DEF Spaces!FoldedNotice
    <3> QED
      BY <3>2, <3>3, <3>4
  <2>4. v.store = s
    BY <2>1 DEF Spaces!FoldedNotice, Spaces!Reporting, Spaces!Cleared, ViewUI
  <2>5. FoldAt(G, u, m) = [v EXCEPT !.store = t]
    BY <1>2, <2>3, <2>4 DEF FoldAt, ViewUI
  <2> HIDE DEF v, t
  <2>6. t \in Spaces!StoreType
    BY <2>2 DEF ViewStore
  <2> QED
    BY <2>2, <2>3, <2>5, <2>6 DEF View, ViewUI
<1> QED
  BY <1>1, <1>2

-----------------------------------------------------------------------------
(* What folding does to the store and to the failed namespaces.              *)

\* The namespaces that fail once m is handled.
FoldedErrors(errors, m) ==
  IF m.type = "WatchError" THEN errors \cup {m.space}
  ELSE IF m.type = "WatchRecovered" THEN errors \ {m.space} ELSE errors

\* What a message does to the rows and to the failures; one of an earlier generation does
\* nothing.
LEMMA FoldAtIs ==
  ASSUME NEW G, NEW u \in ViewUI, NEW m
  PROVE  /\ m.gen # G => FoldAt(G, u, m) = u
         /\ m.gen = G =>
              /\ FoldAt(G, u, m).store = Spaces!FoldedStore(u.store, m)
              /\ FoldAt(G, u, m).errors = FoldedErrors(u.errors, m)
<1> DEFINE v == Spaces!FoldedNotice(u, m)
           t == Spaces!FoldedStore(u.store, m)
           errors == FoldedErrors(u.errors, m)
<1>1. \E flash, reported :
        v = [store |-> u.store, errors |-> errors, flash |-> flash, reported |-> reported]
  <2>1. CASE m.type = "WatchError"
    BY <2>1 DEF Spaces!FoldedNotice, Spaces!Reporting, ViewUI, FoldedErrors
  <2>2. CASE m.type = "WatchRecovered"
    <3> DEFINE left == u.errors \ {m.space}
               w == CHOOSE p \in left : TRUE
    <3>1. CASE u.reported # None /\ u.reported = u.flash /\ left # {}
      <4>1. v = [[[u EXCEPT !.reported = None,
                          !.flash = IF u.reported # None /\ u.reported = u.flash
                                    THEN None ELSE u.flash]
                  EXCEPT !.errors = left] EXCEPT !.flash = w, !.reported = w]
        BY <2>2, <3>1 DEF Spaces!FoldedNotice, Spaces!Reporting, Spaces!Cleared
      <4> HIDE DEF w, v
      <4> QED
        BY <2>2, <4>1 DEF ViewUI, FoldedErrors
    <3>2. CASE ~(u.reported # None /\ u.reported = u.flash /\ left # {})
      BY <2>2, <3>2 DEF Spaces!FoldedNotice, Spaces!Cleared, ViewUI, FoldedErrors
    <3> QED
      BY <3>1, <3>2
  <2>3. CASE m.type \notin {"WatchError", "WatchRecovered"}
    BY <2>3 DEF Spaces!FoldedNotice, ViewUI, FoldedErrors
  <2> QED
    BY <2>1, <2>2, <2>3
<1>2. FoldAt(G, u, m) = IF m.gen = G THEN [v EXCEPT !.store = Spaces!FoldedStore(v.store, m)] ELSE u
  BY DEF FoldAt
<1> HIDE DEF v, errors
<1>3. v.store = u.store /\ v.errors = errors /\ [v EXCEPT !.store = t].store = t
      /\ [v EXCEPT !.store = t].errors = errors
  BY <1>1
<1> QED
  BY <1>2, <1>3 DEF errors

\* The notice has no say in either, ...
LEMMA FoldAlike ==
  ASSUME NEW G, NEW u \in ViewUI, NEW v \in ViewUI, NEW m,
         u.store = v.store, u.errors = v.errors
  PROVE  /\ FoldAt(G, u, m).store = FoldAt(G, v, m).store
         /\ FoldAt(G, u, m).errors = FoldAt(G, v, m).errors
<1>1. /\ m.gen # G => FoldAt(G, u, m) = u
      /\ m.gen = G =>
           /\ FoldAt(G, u, m).store = Spaces!FoldedStore(u.store, m)
           /\ FoldAt(G, u, m).errors = FoldedErrors(u.errors, m)
  BY FoldAtIs
<1>2. /\ m.gen # G => FoldAt(G, v, m) = v
      /\ m.gen = G =>
           /\ FoldAt(G, v, m).store = Spaces!FoldedStore(v.store, m)
           /\ FoldAt(G, v, m).errors = FoldedErrors(v.errors, m)
  BY FoldAtIs
<1>3. CASE m.gen # G
  BY <1>1, <1>2, <1>3
<1>4. CASE m.gen = G
  BY <1>1, <1>2, <1>4
<1> QED
  BY <1>3, <1>4

-----------------------------------------------------------------------------
(* Handling all the messages.                                               *)

\* Handling all that is in the channel keeps the table a view of what is watched.
LEMMA AfterKeepsView ==
  ASSUME NEW W \in SUBSET Names, NEW G, NEW u, View(u, W), NEW ms \in Seq(WatchMessage),
         \A i \in 1 .. Len(ms) : Ours(ms[i], G, W)
  PROVE  View(AfterAt(G, u, ms), W)
<1>1. PICK f : StepsAt(G, f, u, ms) /\ AfterAt(G, u, ms) = f[Len(ms)]
  BY SpacesAfterIs
<1> DEFINE T == {n \in Nat : n <= Len(ms) => View(f[n], W)}
<1>2. 0 \in T
  BY <1>1 DEF StepsAt
<1>3. ASSUME NEW n \in Nat, n \in T PROVE n + 1 \in T
  <2> SUFFICES ASSUME n + 1 <= Len(ms) PROVE View(f[n + 1], W)
    OBVIOUS
  <2>1. n + 1 \in 1 .. Len(ms) /\ n <= Len(ms) /\ (n + 1) - 1 = n
    OBVIOUS
  <2>2. View(f[n], W) /\ ms[n + 1] \in WatchMessage /\ Ours(ms[n + 1], G, W)
    BY <1>3, <2>1
  <2>3. f[n + 1] = FoldAt(G, f[n], ms[n + 1])
    BY <1>1, <2>1 DEF StepsAt
  <2>4. View(FoldAt(G, f[n], ms[n + 1]), W)
    BY <2>2, FoldKeepsView
  <2> QED
    BY <2>3, <2>4
<1>4. Len(ms) \in T
  <2> HIDE DEF T
  <2> QED
    BY <1>2, <1>3, Induction
<1> QED
  BY <1>1, <1>4

\* The notice on the status bar changes neither the rows nor the failed namespaces.
LEMMA AfterAlike ==
  ASSUME NEW W \in SUBSET Names, NEW G, NEW u, View(u, W), NEW v, View(v, W),
         u.store = v.store, u.errors = v.errors, NEW ms \in Seq(WatchMessage),
         \A i \in 1 .. Len(ms) : Ours(ms[i], G, W)
  PROVE  /\ AfterAt(G, u, ms).store = AfterAt(G, v, ms).store
         /\ AfterAt(G, u, ms).errors = AfterAt(G, v, ms).errors
<1>1. PICK f : StepsAt(G, f, u, ms) /\ AfterAt(G, u, ms) = f[Len(ms)]
  BY SpacesAfterIs
<1>2. PICK h : StepsAt(G, h, v, ms) /\ AfterAt(G, v, ms) = h[Len(ms)]
  BY SpacesAfterIs
<1> DEFINE Alike(n) == /\ View(f[n], W) /\ View(h[n], W)
                       /\ f[n].store = h[n].store /\ f[n].errors = h[n].errors
           T == {n \in Nat : n <= Len(ms) => Alike(n)}
<1>3. 0 \in T
  BY <1>1, <1>2 DEF StepsAt
<1>4. ASSUME NEW n \in Nat, n \in T PROVE n + 1 \in T
  <2> SUFFICES ASSUME n + 1 <= Len(ms) PROVE Alike(n + 1)
    OBVIOUS
  <2>1. n + 1 \in 1 .. Len(ms) /\ n <= Len(ms) /\ (n + 1) - 1 = n
    OBVIOUS
  <2>2. Alike(n) /\ ms[n + 1] \in WatchMessage /\ Ours(ms[n + 1], G, W)
    BY <1>4, <2>1
  <2>3. f[n + 1] = FoldAt(G, f[n], ms[n + 1]) /\ h[n + 1] = FoldAt(G, h[n], ms[n + 1])
    BY <1>1, <1>2, <2>1 DEF StepsAt
  <2> DEFINE m == ms[n + 1]
             a == f[n]
             b == h[n]
  <2>4. /\ View(a, W) /\ View(b, W) /\ a \in ViewUI /\ b \in ViewUI
        /\ m \in WatchMessage /\ Ours(m, G, W)
    BY <2>2 DEF View
  <2>5. a.store = b.store /\ a.errors = b.errors
    BY <2>2
  <2> HIDE DEF m, a, b
  <2>6. View(FoldAt(G, a, m), W) /\ View(FoldAt(G, b, m), W)
    BY <2>4, FoldKeepsView
  <2>7. /\ FoldAt(G, a, m).store = FoldAt(G, b, m).store
        /\ FoldAt(G, a, m).errors = FoldAt(G, b, m).errors
    BY <2>4, <2>5, FoldAlike
  <2> QED
    BY <2>3, <2>6, <2>7 DEF m, a, b
<1>5. Len(ms) \in T
  <2> HIDE DEF T
  <2> QED
    BY <1>3, <1>4, Induction
<1> QED
  BY <1>1, <1>2, <1>5

\* Messages of earlier watches are dropped.
LEMMA AfterDropped ==
  ASSUME NEW G, NEW u \in ViewUI, NEW ms \in Seq(WatchMessage),
         \A i \in 1 .. Len(ms) : ms[i].gen # G
  PROVE  AfterAt(G, u, ms) = u
<1> DEFINE g == [n \in 0 .. Len(ms) |-> u]
<1>1. Len(ms) \in Nat
  OBVIOUS
<1>2. g[0] = u /\ g[Len(ms)] = u
  BY <1>1
<1>3. ASSUME NEW n \in Nat, n < Len(ms) PROVE g[n + 1] = FoldAt(G, g[n], ms[n + 1])
  <2>1. n + 1 \in 1 .. Len(ms) /\ n \in 0 .. Len(ms) /\ n + 1 \in 0 .. Len(ms)
    BY <1>1, <1>3
  <2>2. g[n] = u /\ g[n + 1] = u /\ ms[n + 1].gen # G
    BY <2>1
  <2> DEFINE m == ms[n + 1]
  <2>3. m.gen # G
    BY <2>2
  <2> HIDE DEF g, m
  <2>4. FoldAt(G, u, m) = u
    BY <2>3, FoldAtIs
  <2> QED
    BY <2>2, <2>4 DEF m
<1> HIDE DEF g
<1>4. GoesAt(G, g, u, ms)
  BY <1>2, <1>3 DEF GoesAt
<1>5. AfterAt(G, u, ms) = g[Len(ms)]
  BY <1>1, <1>4, SpacesAfterOf
<1> QED
  BY <1>2, <1>5

-----------------------------------------------------------------------------
(* The invariant of a view of several namespaces.                           *)

\* The watch of a namespace.
Watch == [state : {"start", "listing", "live", "down"}, rows : SpaceRows,
          left : SUBSET Keys, failed : BOOLEAN]

\* A watch lists the rows of its namespace.
WatchOf(w, p) ==
  /\ w \in Watch /\ OnlyOf(w.rows, {p}) /\ w.left \subseteq KeysOf(w.rows)
  /\ w.state # "listing" => w.left = {}

\* The namespaces that are watched.
Watching == IF watched = None THEN {} ELSE watched

\* Types. The bounds of the runs are no part of them.
SpacesTypes ==
  /\ existing \in SUBSET Names /\ objects \in SpaceRows
  /\ watchers = [p \in Names |-> watchers[p]] /\ \A p \in Names : WatchOf(watchers[p], p)
  /\ events \in Seq(WatchMessage)
  /\ generation \in Nat /\ onPattern \in BOOLEAN /\ resolved \in SUBSET Names
  /\ watched # None => watched \in SUBSET Names /\ watched # {}
  /\ cache \in [SUBSET Names -> SpaceRows] /\ \A S \in SUBSET Names : OnlyOf(cache[S], S)

\* What is watched is what the pattern stands for; messages are of the past or of that.
Scoped ==
  /\ watched # None => onPattern /\ resolved # {}
  /\ \A i \in 1 .. Len(events) :
       events[i].gen <= generation /\ Ours(events[i], generation, Watching)

\* A namespace's part of the store is where its watch is.
Follows(w, s, p) ==
  /\ s.nsKeys[p] = {k \in Keys : s.items[k] # NoObj /\ NameOf[k] = p}
  /\ w.state = "start" => p \notin s.nsReady
  /\ w.state = "listing" =>
       /\ p \in s.nsBuffering /\ p \notin s.nsReady
       /\ s.nsPending[p] = [k \in Keys |-> IF k \in w.left THEN NoObj ELSE w.rows[k]]
  /\ w.state \in {"live", "down"} =>
       /\ p \in s.nsReady /\ p \notin s.nsBuffering
       /\ \A k \in Keys : NameOf[k] = p => s.items[k] = w.rows[k]

\* Every namespace's part is where its watch is, and exactly those that fail are named.
Mirrors(ws, W, u) ==
  /\ u.store.parts = W
  /\ u.store.synced <=> W \subseteq u.store.nsReady
  /\ \A p \in W : Follows(ws[p], u.store, p)
  /\ u.errors = {p \in W : ws[p].failed}

\* The inductive invariant of a view of several namespaces.
SpacesInv ==
  /\ SpacesTypes /\ Scoped /\ View(table, Watching)
  /\ watched # None => Mirrors(watchers, watched, Spaces!Settled)

\* What is shown once all is handled is a view of what is watched.
LEMMA SpacesKnown ==
  ASSUME SpacesInv
  PROVE  View(Spaces!Settled, Watching) /\ Spaces!Settled \in ViewUI /\ Watching \in SUBSET Names
<1>1. Watching \in SUBSET Names /\ events \in Seq(WatchMessage)
  BY DEF SpacesInv, SpacesTypes, Watching
<1>2. \A i \in 1 .. Len(events) : Ours(events[i], generation, Watching)
  BY DEF SpacesInv, Scoped
<1>3. View(table, Watching)
  BY DEF SpacesInv
<1>4. View(AfterAt(generation, table, events), Watching)
  BY <1>1, <1>2, <1>3, AfterKeepsView
<1> QED
  BY <1>1, <1>4, SettledAt DEF View

\* The view holds the rows a watch of p tells it about, and leaves those of others.
SpaceScreen == <<generation, onPattern, resolved, looking, watched, cache>>

\* A watch sends a message about itself: it is folded last.
LEMMA SpaceTold ==
  ASSUME SpacesInv, onPattern, watched # None, NEW p \in Names, p \in watched,
         NEW m \in WatchMessage, m.gen = generation, m.space = p,
         m.type \in {"Applied", "Deleted"} => m.key \in Keys /\ NameOf[m.key] = p,
         events' = Append(events, m), UNCHANGED <<existing, objects, table, SpaceScreen>>,
         NEW w, WatchOf(w, p), watchers' = [watchers EXCEPT ![p] = w]
  PROVE  /\ SpacesTypes' /\ Scoped' /\ View(table, Watching)'
         /\ Spaces!Settled' = FoldAt(generation, Spaces!Settled, m)
         /\ \A q \in Names : watchers'[q] = IF q = p THEN w ELSE watchers[q]
<1>1. /\ SpacesTypes /\ Scoped /\ View(table, Watching) /\ events \in Seq(WatchMessage)
      /\ Watching = watched
  BY DEF SpacesInv, SpacesTypes, Watching
<1>2. /\ events' \in Seq(WatchMessage) /\ Len(events') = Len(events) + 1
      /\ events'[Len(events) + 1] = m /\ Len(events) \in Nat
      /\ \A i \in 1 .. Len(events) : events'[i] = events[i]
  BY <1>1
<1>3. watchers = [q \in Names |-> watchers[q]]
  BY <1>1 DEF SpacesTypes
<1>4. /\ watchers' = [q \in Names |-> watchers'[q]]
      /\ \A q \in Names : watchers'[q] = IF q = p THEN w ELSE watchers[q]
  BY <1>3
<1>5. \A q \in Names : WatchOf(watchers'[q], q)
  BY <1>1, <1>4 DEF SpacesTypes
<1>6. Watching' = Watching
  BY DEF Watching, SpaceScreen
<1>7. SpacesTypes'
  BY <1>1, <1>2, <1>4, <1>5 DEF SpacesTypes, SpaceScreen
<1>8. Scoped'
  <2>1. ASSUME NEW i \in 1 .. Len(events')
        PROVE  events'[i].gen <= generation /\ Ours(events'[i], generation, Watching)
    <3>1. CASE i \in 1 .. Len(events)
      BY <1>1, <1>2, <3>1 DEF Scoped
    <3>2. CASE i \notin 1 .. Len(events)
      <4>1. events'[i] = m /\ generation \in Nat
        BY <1>1, <1>2, <3>2 DEF SpacesTypes
      <4>2. Ours(m, generation, Watching) /\ m.gen <= generation
        BY <1>1, <4>1 DEF Ours
      <4> QED
        BY <4>1, <4>2
    <3> QED
      BY <3>1, <3>2
  <2>2. watched' = watched /\ onPattern' = onPattern /\ resolved' = resolved
        /\ generation' = generation
    BY DEF SpaceScreen
  <2> QED
    BY <1>1, <1>6, <2>1, <2>2 DEF Scoped
<1>9. View(table, Watching)'
  BY <1>1, <1>6
<1>10. Spaces!Settled' = FoldAt(generation, Spaces!Settled, m)
  <2>1. AfterAt(generation, table, Append(events, m))
          = FoldAt(generation, AfterAt(generation, table, events), m)
    BY <1>1, SpacesAfterMore
  <2>2. Spaces!Settled' = AfterAt(generation, table, Append(events, m))
    BY SettledAt DEF SpaceScreen
  <2>3. Spaces!Settled = AfterAt(generation, table, events)
    BY SettledAt
  <2> QED
    BY <2>1, <2>2, <2>3
<1> QED
  BY <1>4, <1>7, <1>8, <1>9, <1>10

\* Another namespace's part of the store stays as it is.
Apart(s, t, q) ==
  /\ t.nsKeys[q] = s.nsKeys[q] /\ t.nsPending[q] = s.nsPending[q]
  /\ q \in t.nsReady <=> q \in s.nsReady
  /\ q \in t.nsBuffering <=> q \in s.nsBuffering
  /\ \A k \in Keys : NameOf[k] = q => t.items[k] = s.items[k]

\* A watch is followed as long as its own rows are left alone.
LEMMA ApartFollows ==
  ASSUME NEW w, NEW q \in Names, NEW s, NEW t, Apart(s, t, q), Follows(w, s, q)
  PROVE  Follows(w, t, q)
<1>1. {k \in Keys : t.items[k] # NoObj /\ NameOf[k] = q}
        = {k \in Keys : s.items[k] # NoObj /\ NameOf[k] = q}
  BY DEF Apart
<1> QED
  BY <1>1 DEF Apart, Follows

\* So the view still mirrors its watches when one of them has said how it goes on.
LEMMA SpaceMirrors ==
  ASSUME SpacesInv, onPattern, watched # None, NEW p \in Names, p \in watched,
         NEW w, watchers' = [watchers EXCEPT ![p] = w],
         NEW u \in ViewUI, u = Spaces!Settled', watched' = watched,
         NEW s, s = Spaces!Settled.store,
         u.store.parts = watched,
         u.store.synced <=> watched \subseteq u.store.nsReady,
         \A q \in Names \ {p} : Apart(s, u.store, q),
         Follows(w, u.store, p),
         u.errors = IF w.failed THEN Spaces!Settled.errors \cup {p}
                    ELSE Spaces!Settled.errors \ {p}
  PROVE  Mirrors(watchers, watched, Spaces!Settled)'
<1>1. /\ watched \in SUBSET Names /\ Mirrors(watchers, watched, Spaces!Settled)
      /\ watchers = [q \in Names |-> watchers[q]]
  BY DEF SpacesInv, SpacesTypes
<1>2. \A q \in Names : watchers'[q] = IF q = p THEN w ELSE watchers[q]
  BY <1>1
<1>3. ASSUME NEW q \in watched PROVE Follows(watchers'[q], u.store, q)
  <2>1. CASE q = p
    BY <1>2, <2>1
  <2>2. CASE q # p
    <3>1. watchers'[q] = watchers[q] /\ Follows(watchers[q], s, q) /\ Apart(s, u.store, q)
          /\ q \in Names
      BY <1>1, <1>2, <2>2 DEF Mirrors
    <3> QED
      BY <3>1, ApartFollows
  <2> QED
    BY <2>1, <2>2
<1>4. u.errors = {q \in watched : watchers'[q].failed}
  <2>1. Spaces!Settled.errors = {q \in watched : watchers[q].failed}
    BY <1>1 DEF Mirrors
  <2>2. CASE w.failed
    BY <1>1, <1>2, <2>1, <2>2
  <2>3. CASE ~w.failed
    BY <1>1, <1>2, <2>1, <2>3
  <2> QED
    BY <2>2, <2>3
<1> QED
  BY <1>3, <1>4 DEF Mirrors

-----------------------------------------------------------------------------
(* What each message does to its namespace's part of the store.              *)

\* A namespace lists again: its rows stay until the list is whole.
LEMMA ResetIs ==
  ASSUME NEW s \in Spaces!StoreType, NEW p \in Names, NEW t, t = Spaces!BeginNamespaceReset(s, p)
  PROVE  /\ t.parts = s.parts \cup {p} /\ ~t.synced /\ p \notin t.nsReady /\ p \in t.nsBuffering
         /\ t.nsPending[p] = NoRows /\ t.items = s.items /\ t.nsKeys = s.nsKeys
         /\ \A q \in Names \ {p} : Apart(s, t, q)
<1> DEFINE pending == [s.nsPending EXCEPT ![p] = NoRows]
<1>1. t = [s EXCEPT !.synced = FALSE, !.parts = @ \cup {p}, !.nsReady = @ \ {p},
                    !.nsBuffering = @ \cup {p}, !.nsPending = pending]
  BY SpaceRowsAre DEF Spaces!BeginNamespaceReset
<1>2. \A q \in Names : pending[q] = IF q = p THEN NoRows ELSE s.nsPending[q]
  BY DEF Spaces!StoreType
<1> HIDE DEF pending
<1>3. /\ t.parts = s.parts \cup {p} /\ t.synced = FALSE /\ t.nsReady = s.nsReady \ {p}
      /\ t.nsBuffering = s.nsBuffering \cup {p} /\ t.nsPending = pending
      /\ t.items = s.items /\ t.nsKeys = s.nsKeys
  BY <1>1 DEF Spaces!StoreType
<1> QED
  BY <1>2, <1>3 DEF Apart

\* Its list is whole: its rows are what was brought, and those of the others are theirs.
LEMMA SyncedIs ==
  ASSUME NEW s, NEW W \in SUBSET Names, ViewStore(s, W), s.parts = W, NEW p \in W,
         p \in s.nsBuffering,
         s.nsKeys[p] = {k \in Keys : s.items[k] # NoObj /\ NameOf[k] = p},
         \A q \in W : s.nsKeys[q] = {k \in Keys : s.items[k] # NoObj /\ NameOf[k] = q},
         NEW t, t = Spaces!FinishNamespaceSync(s, p)
  PROVE  /\ t.parts = W /\ (t.synced <=> W \subseteq t.nsReady)
         /\ p \in t.nsReady /\ p \notin t.nsBuffering
         /\ \A k \in Keys : NameOf[k] = p => t.items[k] = s.nsPending[p][k]
         /\ t.nsKeys[p] = {k \in Keys : t.items[k] # NoObj /\ NameOf[k] = p}
         /\ \A q \in Names \ {p} : Apart(s, t, q)
<1> DEFINE fresh == s.nsPending[p]
           pending == [s.nsPending EXCEPT ![p] = NoRows]
           items == [k \in Keys |-> IF fresh[k] # NoObj THEN fresh[k]
                                    ELSE IF k \in s.nsKeys[p] THEN NoObj ELSE s.items[k]]
           keys == [s.nsKeys EXCEPT ![p] = Spaces!KeysOf(fresh)]
           ready == s.nsReady \cup {p}
           done == s.parts \subseteq s.nsReady \cup {p}
<1>1. /\ s \in Spaces!StoreType /\ s.items \in SpaceRows /\ p \in Names
      /\ s.nsPending \in [Names -> SpaceRows] /\ s.nsKeys \in [Names -> SUBSET Keys]
      /\ OnlyOf(fresh, {p}) /\ fresh \in SpaceRows
  BY SpaceRowsAre DEF ViewStore, Spaces!StoreType
<1>2. t = [s EXCEPT !.items = items, !.nsKeys = keys, !.nsBuffering = @ \ {p},
                    !.nsPending = pending, !.parts = @ \cup {p}, !.nsReady = ready,
                    !.synced = done]
  BY <1>1, SpaceRowsAre DEF Spaces!FinishNamespaceSync, Spaces!StoreType
<1>3. \A q \in Names : pending[q] = IF q = p THEN NoRows ELSE s.nsPending[q]
  BY <1>1
<1>4. \A q \in Names : keys[q] = IF q = p THEN Spaces!KeysOf(fresh) ELSE s.nsKeys[q]
  BY <1>1
<1>5. \A k \in Keys : NameOf[k] = p => items[k] = fresh[k]
  BY <1>1 DEF SpaceRows
<1>6. \A k \in Keys : NameOf[k] # p => items[k] = s.items[k]
  BY <1>1 DEF SpaceRows, OnlyOf
<1>7. Spaces!KeysOf(fresh) = {k \in Keys : items[k] # NoObj /\ NameOf[k] = p}
  BY <1>1, <1>5 DEF Spaces!KeysOf, OnlyOf
<1> HIDE DEF items, keys, pending, ready, done, fresh
<1>8. /\ t.items = items /\ t.nsKeys = keys /\ t.nsBuffering = s.nsBuffering \ {p}
      /\ t.nsPending = pending /\ t.parts = s.parts \cup {p} /\ t.nsReady = ready
      /\ t.synced = done
  BY <1>1, <1>2 DEF Spaces!StoreType
<1>9. t.parts = W /\ (t.synced <=> W \subseteq t.nsReady)
  <2>1. s.parts \cup {p} = W /\ t.nsReady = ready /\ t.synced = done
    BY <1>8
  <2>2. done <=> W \subseteq ready
    BY DEF done, ready
  <2> HIDE DEF ready, done
  <2> QED
    BY <1>8, <2>1, <2>2
<1>10. p \in t.nsReady /\ p \notin t.nsBuffering
  BY <1>8 DEF ready
<1>11. \A k \in Keys : NameOf[k] = p => t.items[k] = s.nsPending[p][k]
  BY <1>5, <1>8 DEF fresh
<1>12. t.nsKeys[p] = {k \in Keys : t.items[k] # NoObj /\ NameOf[k] = p}
  BY <1>1, <1>4, <1>7, <1>8
<1>13. \A q \in Names \ {p} : Apart(s, t, q)
  BY <1>3, <1>4, <1>6, <1>8 DEF Apart, ready
<1> QED
  BY <1>9, <1>10, <1>11, <1>12, <1>13

\* A row that is placed while its namespace is listed.
LEMMA BufferedRowIs ==
  ASSUME NEW s \in Spaces!StoreType, ~s.buffering, NEW p \in Names, NEW k \in Keys,
         NEW row \in Versions \cup {NoObj}, p \in s.nsBuffering,
         NEW t, t = Spaces!ApplyIn(s, p, k, row)
  PROVE  /\ t.parts = s.parts /\ t.synced = s.synced /\ t.nsReady = s.nsReady
         /\ t.nsBuffering = s.nsBuffering /\ t.items = s.items
         /\ t.nsPending[p] = [s.nsPending[p] EXCEPT ![k] = row]
         /\ \A q \in Names : t.nsKeys[q] = s.nsKeys[q]
         /\ \A q \in Names \ {p} : Apart(s, t, q)
<1> DEFINE pending == [s.nsPending EXCEPT ![p] = [s.nsPending[p] EXCEPT ![k] = row]]
           noted == s.nsKeys[p] \cup {k}
<1>1. Noted(t, s, p, k, row, noted)
  BY SpaceRowIs
<1> HIDE DEF noted
<1>2. PICK keys \in [Names -> SUBSET Keys] :
        /\ t = [SpacePlaced(s, p, k, row) EXCEPT !.nsKeys = keys]
        /\ \A q \in Names :
             keys[q] = IF q = p /\ p \in s.parts /\ p \notin s.nsBuffering
                       THEN noted ELSE s.nsKeys[q]
  BY <1>1 DEF Noted
<1>3. SpacePlaced(s, p, k, row) = [s EXCEPT !.nsPending = pending]
  BY DEF SpacePlaced
<1>4. \A q \in Names :
        pending[q] = IF q = p THEN [s.nsPending[p] EXCEPT ![k] = row] ELSE s.nsPending[q]
  BY DEF Spaces!StoreType
<1> HIDE DEF pending
<1>5. /\ t.parts = s.parts /\ t.synced = s.synced /\ t.nsReady = s.nsReady
      /\ t.nsBuffering = s.nsBuffering /\ t.items = s.items /\ t.nsPending = pending
      /\ t.nsKeys = keys
  BY <1>2, <1>3 DEF Spaces!StoreType
<1>6. \A q \in Names : t.nsKeys[q] = s.nsKeys[q]
  BY <1>2, <1>5
<1> QED
  BY <1>4, <1>5, <1>6 DEF Apart

\* ... and while it is not.
Listed(s, W, p, k) ==
  /\ s \in Spaces!StoreType /\ ViewStore(s, W) /\ s.parts = W
  /\ p \in W /\ NameOf[k] = p /\ p \notin s.nsBuffering
  /\ s.nsKeys[p] = {j \in Keys : s.items[j] # NoObj /\ NameOf[j] = p}

\* The row is shown, or goes.
RowIn(s, p, k, row) ==
  IF row = NoObj THEN Spaces!RemoveIn(s, p, k) ELSE Spaces!ApplyIn(s, p, k, row)

\* It is the only thing that changes.
ShownAs(s, t, p, k, row) ==
  /\ t.parts = s.parts /\ t.synced = s.synced /\ t.nsReady = s.nsReady
  /\ t.nsBuffering = s.nsBuffering
  /\ \A j \in Keys : t.items[j] = IF j = k THEN row ELSE s.items[j]
  /\ t.nsKeys[p] = {j \in Keys : t.items[j] # NoObj /\ NameOf[j] = p}
  /\ \A q \in Names \ {p} : Apart(s, t, q)

\* A row of a namespace whose list is whole is shown at once.
LEMMA ShownRowIs ==
  ASSUME NEW s, NEW W \in SUBSET Names, NEW p, NEW k \in Keys, Listed(s, W, p, k),
         NEW row \in Versions \cup {NoObj}
  PROVE  ShownAs(s, RowIn(s, p, k, row), p, k, row)
<1> DEFINE t == RowIn(s, p, k, row)
           items == [s.items EXCEPT ![k] = row]
           noted == IF row = NoObj THEN s.nsKeys[p] \ {k} ELSE s.nsKeys[p] \cup {k}
<1>1. /\ s \in Spaces!StoreType /\ ViewStore(s, W) /\ s.parts = W
      /\ p \in W /\ NameOf[k] = p /\ p \notin s.nsBuffering
      /\ s.nsKeys[p] = {j \in Keys : s.items[j] # NoObj /\ NameOf[j] = p}
      /\ p \in Names /\ ~s.buffering /\ s.items \in SpaceRows
  BY SpaceRowsAre DEF Listed, ViewStore, Spaces!StoreType
<1>2. Noted(t, s, p, k, row, noted)
  <2>1. CASE row = NoObj
    <3>1. Noted(Spaces!RemoveIn(s, p, k), s, p, k, NoObj, s.nsKeys[p] \ {k})
      BY <1>1, SpaceRowIs
    <3> QED
      BY <2>1, <3>1 DEF RowIn
  <2>2. CASE row # NoObj
    <3>1. Noted(Spaces!ApplyIn(s, p, k, row), s, p, k, row, s.nsKeys[p] \cup {k})
      BY <1>1, SpaceRowIs
    <3> QED
      BY <2>2, <3>1 DEF RowIn
  <2> QED
    BY <2>1, <2>2
<1>3. noted = {j \in Keys : items[j] # NoObj /\ NameOf[j] = p}
  BY <1>1 DEF SpaceRows
<1>4. \A j \in Keys : items[j] = IF j = k THEN row ELSE s.items[j]
  BY <1>1 DEF SpaceRows
<1> HIDE DEF noted, t
<1>5. PICK keys \in [Names -> SUBSET Keys] :
        /\ t = [SpacePlaced(s, p, k, row) EXCEPT !.nsKeys = keys]
        /\ \A q \in Names :
             keys[q] = IF q = p /\ p \in s.parts /\ p \notin s.nsBuffering
                       THEN noted ELSE s.nsKeys[q]
  BY <1>2 DEF Noted
<1>6. SpacePlaced(s, p, k, row) = [s EXCEPT !.items = items]
  BY <1>1 DEF SpacePlaced
<1> HIDE DEF items
<1>7. /\ t.parts = s.parts /\ t.synced = s.synced /\ t.nsReady = s.nsReady
      /\ t.nsBuffering = s.nsBuffering /\ t.items = items /\ t.nsPending = s.nsPending
      /\ t.nsKeys = keys
  <2>1. t = [[s EXCEPT !.items = items] EXCEPT !.nsKeys = keys]
    BY <1>5, <1>6
  <2> QED
    BY <1>1, <2>1 DEF Spaces!StoreType
<1>8. t.nsKeys[p] = noted /\ \A q \in Names \ {p} : t.nsKeys[q] = s.nsKeys[q]
  BY <1>1, <1>5, <1>7
<1>9. \A q \in Names \ {p} : Apart(s, t, q)
  <2>1. \A j \in Keys : NameOf[j] # p => items[j] = s.items[j]
    BY <1>1, <1>4
  <2> QED
    BY <1>7, <1>8, <2>1 DEF Apart
<1> QED
  BY <1>3, <1>4, <1>7, <1>8, <1>9 DEF ShownAs, t

-----------------------------------------------------------------------------
(* The steps of the watches.                                                *)

\* Where a watch of p is, and its part of the store.
LEMMA SpaceNow ==
  ASSUME SpacesInv, watched # None, NEW p \in watched, NEW s, s = Spaces!Settled.store
  PROVE  /\ watched \in SUBSET Names /\ p \in Names
         /\ s \in Spaces!StoreType /\ ViewStore(s, watched) /\ ~s.buffering
         /\ s.parts = watched /\ (s.synced <=> watched \subseteq s.nsReady)
         /\ Follows(watchers[p], s, p) /\ WatchOf(watchers[p], p)
         /\ \A q \in watched : s.nsKeys[q] = {k \in Keys : s.items[k] # NoObj /\ NameOf[k] = q}
         /\ p \in Spaces!Settled.errors <=> watchers[p].failed
<1>1. View(Spaces!Settled, Watching) /\ Watching = watched
  BY SpacesKnown DEF Watching
<1>2. s \in Spaces!StoreType /\ ViewStore(s, watched) /\ ~s.buffering
  BY <1>1 DEF View, ViewStore
<1>3. Mirrors(watchers, watched, Spaces!Settled) /\ watched \in SUBSET Names
  BY DEF SpacesInv, SpacesTypes
<1>4. WatchOf(watchers[p], p)
  BY <1>3 DEF SpacesInv, SpacesTypes
<1>5. s.parts = watched /\ (s.synced <=> watched \subseteq s.nsReady)
  BY <1>3 DEF Mirrors
<1>6. \A q \in watched : Follows(watchers[q], s, q)
  BY <1>3 DEF Mirrors
<1>7. p \in Spaces!Settled.errors <=> watchers[p].failed
  BY <1>3 DEF Mirrors
<1> QED
  BY <1>2, <1>3, <1>4, <1>5, <1>6, <1>7 DEF Follows

\* A watch says how it goes on, and its part of the store follows.
LEMMA SpaceStep ==
  ASSUME SpacesInv, onPattern, watched # None, NEW p \in watched,
         NEW m \in WatchMessage, m.gen = generation, m.space = p,
         m.type \in {"Applied", "Deleted"} => m.key \in Keys /\ NameOf[m.key] = p,
         events' = Append(events, m), UNCHANGED <<existing, objects, table, SpaceScreen>>,
         NEW w, WatchOf(w, p), watchers' = [watchers EXCEPT ![p] = w],
         NEW s, s = Spaces!Settled.store, NEW t, t = Spaces!FoldedStore(s, m),
         t.parts = watched, t.synced <=> watched \subseteq t.nsReady,
         \A q \in Names \ {p} : Apart(s, t, q), Follows(w, t, p),
         w.failed <=> m.type = "WatchError" \/ (watchers[p].failed /\ m.type # "WatchRecovered")
  PROVE  SpacesInv'
<1> DEFINE u == FoldAt(generation, Spaces!Settled, m)
<1>1. p \in Names /\ (p \in Spaces!Settled.errors <=> watchers[p].failed)
  BY SpaceNow
<1>2. SpacesTypes' /\ Scoped' /\ View(table, Watching)' /\ Spaces!Settled' = u
  BY <1>1, SpaceTold
<1>3. View(Spaces!Settled, Watching) /\ Watching \in SUBSET Names /\ Spaces!Settled \in ViewUI
      /\ Watching = watched
  BY SpacesKnown DEF Watching
<1>4. u \in ViewUI
  <2>1. Ours(m, generation, Watching)
    BY <1>3 DEF Ours
  <2>2. View(u, Watching)
    BY <1>3, <2>1, FoldKeepsView
  <2> QED
    BY <2>2 DEF View
<1>5. u.store = t /\ u.errors = FoldedErrors(Spaces!Settled.errors, m)
  BY <1>3, FoldAtIs
<1>6. u.errors = IF w.failed THEN Spaces!Settled.errors \cup {p} ELSE Spaces!Settled.errors \ {p}
  BY <1>1, <1>5 DEF FoldedErrors
<1>7. watched' = watched
  BY DEF SpaceScreen
<1> HIDE DEF u
<1>8. Mirrors(watchers, watched, Spaces!Settled)'
  <2>1. u.store.parts = watched /\ (u.store.synced <=> watched \subseteq u.store.nsReady)
        /\ (\A q \in Names \ {p} : Apart(s, u.store, q)) /\ Follows(w, u.store, p)
    BY <1>5
  <2>2. u = Spaces!Settled'
    BY <1>2
  <2> QED
    BY <1>1, <1>4, <1>6, <1>7, <2>1, <2>2, SpaceMirrors
<1> QED
  BY <1>2, <1>8 DEF SpacesInv

\* What a watch sends carries the generation and its namespace.
LEMMA MessagesAre ==
  ASSUME SpacesInv, NEW p \in Names
  PROVE  /\ \A t \in MsgTypes : /\ Spaces!Signal(t, p) \in WatchMessage
                                /\ Spaces!Signal(t, p).gen = generation
                                /\ Spaces!Signal(t, p).space = p /\ Spaces!Signal(t, p).type = t
         /\ \A t \in MsgTypes, k \in Keys, row \in Versions \cup {NoObj} :
              /\ Spaces!Msg(t, p, k, row) \in WatchMessage
              /\ Spaces!Msg(t, p, k, row).gen = generation
              /\ Spaces!Msg(t, p, k, row).space = p /\ Spaces!Msg(t, p, k, row).type = t
              /\ Spaces!Msg(t, p, k, row).key = k /\ Spaces!Msg(t, p, k, row).obj = row
BY DEF Spaces!Signal, Spaces!Msg, WatchMessage, AnyKey, SpacesInv, SpacesTypes

\* What a namespace holds are its own rows.
LEMMA InIs ==
  ASSUME SpacesInv, NEW p \in Names
  PROVE  /\ Spaces!In(p) \in SpaceRows /\ OnlyOf(Spaces!In(p), {p})
         /\ Spaces!KeysOf(Spaces!In(p)) = KeysOf(Spaces!In(p))
BY DEF Spaces!In, SpaceRows, OnlyOf, SpacesInv, SpacesTypes, Spaces!KeysOf, KeysOf

\* A step of a watch: the cluster, the screen and the view stay.
SpaceQuiet == UNCHANGED <<existing, objects, table, SpaceScreen>>

\* A watch begins to list.
LEMMA SpaceBeginListStep ==
  ASSUME SpacesInv, NEW p \in Names, Spaces!BeginList(p)
  PROVE  SpacesInv'
<1> DEFINE rows == Spaces!In(p)
           w == [watchers[p] EXCEPT !.state = "listing", !.rows = rows,
                                    !.left = Spaces!KeysOf(rows)]
           m == Spaces!Signal("Reset", p)
           s == Spaces!Settled.store
           t == Spaces!FoldedStore(s, m)
<1>1. /\ onPattern /\ watched # None /\ p \in watched
      /\ watchers' = [watchers EXCEPT ![p] = w] /\ events' = Append(events, m) /\ SpaceQuiet
  BY DEF Spaces!BeginList, Spaces!Running, Spaces!Send, Spaces!cluster, Spaces!screen,
         SpaceScreen, SpaceQuiet
<1>2. rows \in SpaceRows /\ OnlyOf(rows, {p}) /\ Spaces!KeysOf(rows) = KeysOf(rows)
  BY InIs
<1>3. /\ s \in Spaces!StoreType /\ s.parts = watched /\ Follows(watchers[p], s, p)
      /\ WatchOf(watchers[p], p)
  BY <1>1, SpaceNow
<1> HIDE DEF rows
<1>4. /\ w.state = "listing" /\ w.rows = rows /\ w.left = KeysOf(rows)
      /\ w.failed = watchers[p].failed /\ WatchOf(w, p)
  BY <1>2, <1>3 DEF WatchOf, Watch, KeysOf
<1>5. m \in WatchMessage /\ m.gen = generation /\ m.space = p /\ m.type = "Reset"
  BY MessagesAre DEF MsgTypes
<1> HIDE DEF w, m, s
<1>6. t = Spaces!BeginNamespaceReset(s, p)
  BY <1>5 DEF Spaces!FoldedStore
<1> HIDE DEF t
<1>7. /\ t.parts = s.parts \cup {p} /\ ~t.synced /\ p \notin t.nsReady /\ p \in t.nsBuffering
      /\ t.nsPending[p] = NoRows /\ t.items = s.items /\ t.nsKeys = s.nsKeys
      /\ \A q \in Names \ {p} : Apart(s, t, q)
  BY <1>3, <1>6, ResetIs
<1>8. [k \in Keys |-> IF k \in w.left THEN NoObj ELSE w.rows[k]] = NoRows
  BY <1>4 DEF KeysOf, NoRows
<1>9. Follows(w, t, p)
  BY <1>3, <1>4, <1>7, <1>8 DEF Follows
<1>10. t.parts = watched /\ (t.synced <=> watched \subseteq t.nsReady)
  BY <1>1, <1>3, <1>7
<1> QED
  BY <1>1, <1>4, <1>5, <1>7, <1>9, <1>10, SpaceStep DEF s, t, SpaceQuiet

\* It brings a row of its list.
LEMMA SpaceListRowStep ==
  ASSUME SpacesInv, NEW p \in Names, NEW k \in Keys, Spaces!ListRow(p, k)
  PROVE  SpacesInv'
<1> DEFINE row == watchers[p].rows[k]
           w == [watchers[p] EXCEPT !.left = @ \ {k}]
           m == Spaces!Msg("Applied", p, k, row)
           s == Spaces!Settled.store
           t == Spaces!FoldedStore(s, m)
<1>1. /\ onPattern /\ watched # None /\ p \in watched /\ watchers[p].state = "listing"
      /\ k \in watchers[p].left
      /\ watchers' = [watchers EXCEPT ![p] = w] /\ events' = Append(events, m) /\ SpaceQuiet
  BY DEF Spaces!ListRow, Spaces!Running, Spaces!Send, Spaces!cluster, Spaces!screen,
         SpaceScreen, SpaceQuiet
<1>2. /\ s \in Spaces!StoreType /\ ~s.buffering /\ s.parts = watched
      /\ (s.synced <=> watched \subseteq s.nsReady)
      /\ Follows(watchers[p], s, p) /\ WatchOf(watchers[p], p)
  BY <1>1, SpaceNow
<1>3. row \in Versions \cup {NoObj} /\ row # NoObj /\ NameOf[k] = p
  BY <1>1, <1>2 DEF WatchOf, Watch, SpaceRows, KeysOf, OnlyOf
<1>4. /\ w.state = "listing" /\ w.rows = watchers[p].rows /\ w.left = watchers[p].left \ {k}
      /\ w.failed = watchers[p].failed /\ WatchOf(w, p)
  BY <1>1, <1>2 DEF WatchOf, Watch
<1> HIDE DEF row
<1>5. /\ m \in WatchMessage /\ m.gen = generation /\ m.space = p /\ m.type = "Applied"
      /\ m.key = k /\ m.obj = row
  BY <1>3, MessagesAre DEF MsgTypes
<1> HIDE DEF w, m, s
<1>6. t = Spaces!ApplyIn(s, p, k, row)
  BY <1>5 DEF Spaces!FoldedStore
<1>7. /\ p \in s.nsBuffering /\ p \notin s.nsReady
      /\ s.nsPending[p] =
           [j \in Keys |-> IF j \in watchers[p].left THEN NoObj ELSE watchers[p].rows[j]]
      /\ s.nsKeys[p] = {j \in Keys : s.items[j] # NoObj /\ NameOf[j] = p}
  BY <1>1, <1>2 DEF Follows
<1> HIDE DEF t
<1>8. /\ t.parts = s.parts /\ t.synced = s.synced /\ t.nsReady = s.nsReady
      /\ t.nsBuffering = s.nsBuffering /\ t.items = s.items
      /\ t.nsPending[p] = [s.nsPending[p] EXCEPT ![k] = row]
      /\ \A q \in Names : t.nsKeys[q] = s.nsKeys[q]
      /\ \A q \in Names \ {p} : Apart(s, t, q)
  <2>1. p \in s.nsBuffering
    BY <1>7
  <2>2. row \in Versions \cup {NoObj}
    BY <1>3
  <2> QED
    BY <1>2, <1>6, <2>1, <2>2, BufferedRowIs
<1>9. t.nsPending[p] = [j \in Keys |-> IF j \in w.left THEN NoObj ELSE w.rows[j]]
  BY <1>1, <1>4, <1>7, <1>8 DEF row
<1>10. Follows(w, t, p)
  BY <1>4, <1>7, <1>8, <1>9 DEF Follows
<1>11. t.parts = watched /\ (t.synced <=> watched \subseteq t.nsReady)
  BY <1>2, <1>8
<1> QED
  BY <1>1, <1>3, <1>4, <1>5, <1>8, <1>10, <1>11, SpaceStep DEF s, t, SpaceQuiet

\* It brought the last one.
LEMMA SpaceListDoneStep ==
  ASSUME SpacesInv, NEW p \in Names, Spaces!ListDone(p)
  PROVE  SpacesInv'
<1> DEFINE w == [watchers[p] EXCEPT !.state = "live"]
           m == Spaces!Signal("Synced", p)
           s == Spaces!Settled.store
           t == Spaces!FoldedStore(s, m)
<1>1. /\ onPattern /\ watched # None /\ p \in watched /\ watchers[p].state = "listing"
      /\ watchers[p].left = {}
      /\ watchers' = [watchers EXCEPT ![p] = w] /\ events' = Append(events, m) /\ SpaceQuiet
  BY DEF Spaces!ListDone, Spaces!Running, Spaces!Send, Spaces!cluster, Spaces!screen,
         SpaceScreen, SpaceQuiet
<1>2. /\ watched \in SUBSET Names /\ ViewStore(s, watched) /\ s.parts = watched
      /\ \A q \in watched : s.nsKeys[q] = {k \in Keys : s.items[k] # NoObj /\ NameOf[k] = q}
      /\ Follows(watchers[p], s, p) /\ WatchOf(watchers[p], p)
  BY <1>1, SpaceNow
<1>3. /\ w.state = "live" /\ w.rows = watchers[p].rows /\ w.left = {}
      /\ w.failed = watchers[p].failed /\ WatchOf(w, p) /\ w.rows \in SpaceRows
  BY <1>1, <1>2 DEF WatchOf, Watch
<1>4. m \in WatchMessage /\ m.gen = generation /\ m.space = p /\ m.type = "Synced"
  BY MessagesAre DEF MsgTypes
<1> HIDE DEF w, m, s
<1>5. t = Spaces!FinishNamespaceSync(s, p)
  BY <1>4 DEF Spaces!FoldedStore
<1>6. p \in s.nsBuffering /\ s.nsPending[p] = w.rows
      /\ s.nsKeys[p] = {k \in Keys : s.items[k] # NoObj /\ NameOf[k] = p}
  BY <1>1, <1>2, <1>3 DEF Follows, SpaceRows
<1> HIDE DEF t
<1>7. /\ t.parts = watched /\ (t.synced <=> watched \subseteq t.nsReady)
      /\ p \in t.nsReady /\ p \notin t.nsBuffering
      /\ \A k \in Keys : NameOf[k] = p => t.items[k] = s.nsPending[p][k]
      /\ t.nsKeys[p] = {k \in Keys : t.items[k] # NoObj /\ NameOf[k] = p}
      /\ \A q \in Names \ {p} : Apart(s, t, q)
  <2>1. ViewStore(s, watched) /\ watched \in SUBSET Names /\ p \in watched
    BY <1>1, <1>2
  <2> QED
    BY <1>2, <1>5, <1>6, <2>1, SyncedIs
<1>8. Follows(w, t, p)
  BY <1>3, <1>6, <1>7 DEF Follows
<1> QED
  BY <1>1, <1>3, <1>4, <1>7, <1>8, SpaceStep DEF s, t, SpaceQuiet

\* A store that nothing is said about stays.
LEMMA SameApart == \A s : \A q \in Names : Apart(s, s, q)
BY DEF Apart

\* It fails, or has recovered, and says so.
LEMMA SpaceOutageStep ==
  ASSUME SpacesInv, NEW p \in Names, Spaces!Recovers(p) \/ Spaces!WatchFails(p)
  PROVE  SpacesInv'
<1> DEFINE fails == Spaces!WatchFails(p)
           old == watchers[p]
           up == [old EXCEPT !.failed = FALSE, !.state = IF @ = "down" THEN "live" ELSE @]
           down == [old EXCEPT !.failed = TRUE, !.left = {},
                               !.state = IF @ \in {"live", "down"} THEN "down" ELSE "start"]
           s == Spaces!Settled.store
<1>1. \E w, m :
        /\ onPattern /\ watched # None /\ p \in watched
        /\ watchers' = [watchers EXCEPT ![p] = w] /\ events' = Append(events, m) /\ SpaceQuiet
        /\ \/ w = up /\ m = Spaces!Signal("WatchRecovered", p) /\ old.state \in {"down", "listing"}
           \/ w = down /\ m = Spaces!Signal("WatchError", p)
  <2>1. CASE Spaces!Recovers(p)
    BY <2>1 DEF Spaces!Recovers, Spaces!Running, Spaces!Send, Spaces!cluster, Spaces!screen,
                SpaceScreen, SpaceQuiet
  <2>2. CASE Spaces!WatchFails(p)
    <3>1. watchers' = [watchers EXCEPT ![p] = down]
      BY <2>2 DEF Spaces!WatchFails
    <3> HIDE DEF down
    <3> QED
      BY <2>2, <3>1 DEF Spaces!WatchFails, Spaces!Running, Spaces!Send, Spaces!cluster,
                        Spaces!screen, SpaceScreen, SpaceQuiet
  <2> QED
    BY <2>1, <2>2
<1>2. PICK w, m :
        /\ onPattern /\ watched # None /\ p \in watched
        /\ watchers' = [watchers EXCEPT ![p] = w] /\ events' = Append(events, m) /\ SpaceQuiet
        /\ \/ w = up /\ m = Spaces!Signal("WatchRecovered", p) /\ old.state \in {"down", "listing"}
           \/ w = down /\ m = Spaces!Signal("WatchError", p)
  BY <1>1
<1>3. /\ s.parts = watched /\ (s.synced <=> watched \subseteq s.nsReady)
      /\ Follows(old, s, p) /\ WatchOf(old, p)
  BY <1>2, SpaceNow
<1>4. /\ m \in WatchMessage /\ m.gen = generation /\ m.space = p
      /\ \/ m.type = "WatchRecovered" /\ w = up /\ old.state \in {"down", "listing"}
         \/ m.type = "WatchError" /\ w = down
  BY <1>2, MessagesAre DEF MsgTypes
<1>5. /\ WatchOf(w, p) /\ w.rows = old.rows
      /\ w.failed <=> m.type = "WatchError" \/ (old.failed /\ m.type # "WatchRecovered")
      /\ \/ w.state = "start" /\ old.state \in {"start", "listing"}
         \/ w.state = "listing" /\ old.state = "listing" /\ w.left = old.left
         \/ w.state \in {"live", "down"} /\ old.state \in {"live", "down"}
  BY <1>3, <1>4 DEF WatchOf, Watch
<1> HIDE DEF s, old, up, down
<1>6. Spaces!FoldedStore(s, m) = s
  BY <1>4 DEF Spaces!FoldedStore
<1>7. Follows(w, s, p)
  BY <1>3, <1>5 DEF Follows
<1>8. \A q \in Names \ {p} : Apart(s, s, q)
  BY SameApart
<1>9. m.type \notin {"Applied", "Deleted"}
  BY <1>4
<1> QED
  BY <1>2, <1>3, <1>4, <1>5, <1>6, <1>7, <1>8, <1>9, SpaceStep DEF s, old, SpaceQuiet

\* It brings a change.
LEMMA SpaceWatchEventStep ==
  ASSUME SpacesInv, NEW p \in Names, NEW k \in Keys, Spaces!WatchEvent(p, k)
  PROVE  SpacesInv'
<1> DEFINE row == Spaces!In(p)[k]
           w == [watchers[p] EXCEPT !.rows = [watchers[p].rows EXCEPT ![k] = row]]
           m == IF row = NoObj THEN Spaces!Msg("Deleted", p, k, NoObj)
                ELSE Spaces!Msg("Applied", p, k, row)
           s == Spaces!Settled.store
           t == Spaces!FoldedStore(s, m)
<1>1. /\ onPattern /\ watched # None /\ p \in watched /\ watchers[p].state = "live"
      /\ watchers[p].rows[k] # row
      /\ events' = Append(events, m) /\ SpaceQuiet
  BY DEF Spaces!WatchEvent, Spaces!Running, Spaces!Send, Spaces!cluster, Spaces!screen,
         SpaceScreen, SpaceQuiet
<1>2. watchers' = [watchers EXCEPT ![p] = w]
  BY DEF Spaces!WatchEvent
<1>3. /\ watched \in SUBSET Names /\ s \in Spaces!StoreType /\ ViewStore(s, watched)
      /\ s.parts = watched /\ (s.synced <=> watched \subseteq s.nsReady)
      /\ Follows(watchers[p], s, p) /\ WatchOf(watchers[p], p)
  BY <1>1, SpaceNow
<1>4. row \in Versions \cup {NoObj} /\ NameOf[k] = p
  <2>1. Spaces!In(p) \in SpaceRows /\ OnlyOf(Spaces!In(p), {p})
    BY InIs
  <2>2. watchers[p].rows \in SpaceRows /\ OnlyOf(watchers[p].rows, {p})
    BY <1>3 DEF WatchOf, Watch
  <2> QED
    BY <1>1, <2>1, <2>2 DEF OnlyOf, SpaceRows
<1> HIDE DEF row
<1>5. /\ w.state = "live" /\ w.rows = [watchers[p].rows EXCEPT ![k] = row]
      /\ w.failed = watchers[p].failed /\ WatchOf(w, p)
  <2>1. /\ watchers[p] \in Watch /\ watchers[p].left = {} /\ watchers[p].rows \in SpaceRows
        /\ OnlyOf(watchers[p].rows, {p})
    BY <1>1, <1>3 DEF WatchOf, Watch
  <2> DEFINE rows == [watchers[p].rows EXCEPT ![k] = row]
  <2>2. rows \in SpaceRows /\ OnlyOf(rows, {p})
    BY <1>4, <2>1 DEF SpaceRows, OnlyOf
  <2>3. w = [watchers[p] EXCEPT !.rows = rows]
    OBVIOUS
  <2> HIDE DEF rows, w
  <2>4. /\ w \in Watch /\ w.state = watchers[p].state /\ w.rows = rows
        /\ w.failed = watchers[p].failed /\ w.left = {}
    BY <2>1, <2>2, <2>3 DEF Watch
  <2> QED
    BY <1>1, <2>2, <2>4 DEF WatchOf, rows
<1>6. /\ m \in WatchMessage /\ m.gen = generation /\ m.space = p
      /\ m.key = k /\ m.type = IF row = NoObj THEN "Deleted" ELSE "Applied"
      /\ m.obj = row
  <2>1. "Applied" \in MsgTypes /\ "Deleted" \in MsgTypes
    BY DEF MsgTypes
  <2>2. CASE row = NoObj
    BY <1>4, <2>1, <2>2, MessagesAre
  <2>3. CASE row # NoObj
    BY <1>4, <2>1, <2>3, MessagesAre
  <2> QED
    BY <2>2, <2>3
<1> HIDE DEF w, m, s
<1>7. t = RowIn(s, p, k, row)
  BY <1>6 DEF Spaces!FoldedStore, RowIn
<1> HIDE DEF t
<1>8. /\ p \in s.nsReady /\ p \notin s.nsBuffering
      /\ \A j \in Keys : NameOf[j] = p => s.items[j] = watchers[p].rows[j]
      /\ s.nsKeys[p] = {j \in Keys : s.items[j] # NoObj /\ NameOf[j] = p}
  BY <1>1, <1>3 DEF Follows
<1>9. /\ t.parts = s.parts /\ t.synced = s.synced /\ t.nsReady = s.nsReady
      /\ t.nsBuffering = s.nsBuffering
      /\ \A j \in Keys : t.items[j] = IF j = k THEN row ELSE s.items[j]
      /\ t.nsKeys[p] = {j \in Keys : t.items[j] # NoObj /\ NameOf[j] = p}
      /\ \A q \in Names \ {p} : Apart(s, t, q)
  <2>1. Listed(s, watched, p, k)
    BY <1>1, <1>3, <1>4, <1>8 DEF Listed
  <2>2. watched \in SUBSET Names
    BY <1>3
  <2>3. row \in Versions \cup {NoObj}
    BY <1>4
  <2>4. ShownAs(s, RowIn(s, p, k, row), p, k, row)
    BY <2>1, <2>2, <2>3, ShownRowIs
  <2>5. ShownAs(s, t, p, k, row)
    BY <1>7, <2>4
  <2> QED
    BY <2>5 DEF ShownAs
<1>10. Follows(w, t, p)
  <2>1. watchers[p].rows \in SpaceRows
    BY <1>3 DEF WatchOf, Watch
  <2>2. \A j \in Keys : w.rows[j] = IF j = k THEN row ELSE watchers[p].rows[j]
    BY <1>5, <2>1 DEF SpaceRows
  <2> QED
    BY <1>5, <1>8, <1>9, <2>2 DEF Follows
<1>11. t.parts = watched /\ (t.synced <=> watched \subseteq t.nsReady)
  BY <1>3, <1>9
<1> QED
  BY <1>1, <1>2, <1>4, <1>5, <1>6, <1>9, <1>10, <1>11, SpaceStep DEF s, t, SpaceQuiet

-----------------------------------------------------------------------------
(* The steps of the view.                                                   *)

\* A view begins with the rows that are remembered, its watches with nothing.
LEMMA SeededIs ==
  ASSUME NEW rows \in SpaceRows, NEW W \in SUBSET Names, OnlyOf(rows, W),
         NEW t, t = Spaces!SetPartitions(Spaces!Seed(rows), W)
  PROVE  /\ ViewStore(t, W) /\ t.parts = W /\ ~t.synced /\ t.nsReady = {}
         /\ \A p \in W : t.nsKeys[p] = {k \in Keys : t.items[k] # NoObj /\ NameOf[k] = p}
<1> DEFINE keys == [p \in Names |-> {k \in Spaces!KeysOf(rows) : p \in W /\ NameOf[k] = p}]
           pending == [q \in Names |-> NoRows]
<1>1. t = [items |-> rows, buffering |-> FALSE, pending |-> NoRows, synced |-> FALSE,
           parts |-> W, nsBuffering |-> {}, nsPending |-> pending, nsReady |-> {}, nsKeys |-> keys]
  BY SpaceRowsAre DEF Spaces!SetPartitions, Spaces!Seed, Spaces!Unpartitioned
<1>2. keys \in [Names -> SUBSET Keys] /\ pending \in [Names -> SpaceRows]
      /\ \A q \in Names : pending[q] = NoRows
      /\ \A p \in W : keys[p] = {k \in Keys : rows[k] # NoObj /\ NameOf[k] = p}
  BY SpaceRowsAre DEF Spaces!KeysOf
<1> HIDE DEF keys, pending
<1>3. t \in Spaces!StoreType
  BY <1>1, <1>2, SpaceRowsAre DEF Spaces!StoreType
<1>4. \A p \in Names : OnlyOf(t.nsPending[p], {p})
  BY <1>1, <1>2, SpaceRowsAre
<1> QED
  BY <1>1, <1>2, <1>3, <1>4 DEF ViewStore

\* Nothing shown is a view of nothing, and a watch that has not begun has nothing to show.
LEMMA ClearedIs ==
  /\ ViewStore(Spaces!Clear, {})
  /\ \A u \in ViewUI : Spaces!Cleared(u) \in ViewUI
  /\ \A p \in Names : WatchOf(Spaces!Idle, p) /\ Spaces!Idle.state = "start" /\ ~Spaces!Idle.failed
<1>1. ViewStore(Spaces!Clear, {})
  BY SpaceRowsAre DEF Spaces!Clear, Spaces!Unpartitioned, ViewStore, Spaces!StoreType
<1>2. \A u \in ViewUI : Spaces!Cleared(u) \in ViewUI
  BY DEF Spaces!Cleared, ViewUI
<1>3. \A p \in Names : WatchOf(Spaces!Idle, p) /\ Spaces!Idle.state = "start" /\ ~Spaces!Idle.failed
  BY SpaceRowsAre DEF Spaces!Idle, WatchOf, Watch
<1> QED
  BY <1>1, <1>2, <1>3

\* What is put by for another time has rows of its namespaces only.
LEMMA StashedIs ==
  ASSUME SpacesInv
  PROVE  /\ Spaces!Stashed \in [SUBSET Names -> SpaceRows]
         /\ \A S \in SUBSET Names : OnlyOf(Spaces!Stashed[S], S)
<1>1. /\ cache \in [SUBSET Names -> SpaceRows] /\ \A S \in SUBSET Names : OnlyOf(cache[S], S)
  BY DEF SpacesInv, SpacesTypes
<1>2. table.store.items \in SpaceRows /\ OnlyOf(table.store.items, Watching)
  BY SpaceRowsAre DEF SpacesInv, View, ViewStore, Spaces!StoreType
<1>3. CASE Spaces!Stashed = cache
  BY <1>1, <1>3
<1>4. CASE Spaces!Stashed # cache
  <2>1. watched # None /\ Spaces!Stashed = [cache EXCEPT ![watched] = table.store.items]
    BY <1>4 DEF Spaces!Stashed
  <2>2. Watching = watched /\ watched \in SUBSET Names
    BY <2>1 DEF Watching, SpacesInv, SpacesTypes
  <2> QED
    BY <1>1, <1>2, <2>1, <2>2
<1> QED
  BY <1>3, <1>4

\* Messages of the generations before are of no watch of this one, and say nothing.
LEMMA Bumped ==
  ASSUME SpacesInv, generation' = generation + 1, events' = events, table' \in ViewUI
  PROVE  /\ Spaces!Settled' = table' /\ generation' \in Nat
         /\ \A W : \A i \in 1 .. Len(events') :
              events'[i].gen <= generation' /\ Ours(events'[i], generation', W)
<1>1. generation \in Nat /\ events \in Seq(WatchMessage)
  BY DEF SpacesInv, SpacesTypes
<1>2. \A i \in 1 .. Len(events) : events[i].gen \in Nat /\ events[i].gen <= generation
  <2> SUFFICES ASSUME NEW i \in 1 .. Len(events)
               PROVE  events[i].gen \in Nat /\ events[i].gen <= generation
    OBVIOUS
  <2>1. events[i] \in WatchMessage
    BY <1>1
  <2> QED
    BY <2>1 DEF SpacesInv, Scoped, WatchMessage
<1>3. \A i \in 1 .. Len(events) : events[i].gen # generation + 1 /\ events[i].gen <= generation + 1
  BY <1>1, <1>2
<1> DEFINE G == generation'
           u == table'
<1>4. \A i \in 1 .. Len(events) : events[i].gen # G /\ events[i].gen <= G
  BY <1>3
<1>5. u \in ViewUI
  OBVIOUS
<1> HIDE DEF G, u
<1>6. AfterAt(G, u, events) = u
  BY <1>1, <1>4, <1>5, AfterDropped
<1>7. Spaces!Settled' = AfterAt(G, u, events)
  BY SettledAt DEF G, u
<1> QED
  BY <1>1, <1>4, <1>6, <1>7 DEF Ours, G, u

\* Watches of a set of namespaces begin, with the rows those had when last seen.
LEMMA StartWatchesStep ==
  ASSUME SpacesInv, NEW W \in SUBSET Names, W # {}, Spaces!StartWatches(W)
  PROVE  SpacesInv'
<1> DEFINE rows == cache'[W]
           t == Spaces!SetPartitions(Spaces!Seed(rows), W)
<1>1. /\ generation' = generation + 1 /\ onPattern' = TRUE /\ resolved' = W /\ looking' = FALSE
      /\ cache' = Spaces!Stashed /\ watched' = W
      /\ watchers' = [p \in Names |-> Spaces!Idle] /\ events' = events
      /\ UNCHANGED <<existing, objects>>
  BY DEF Spaces!StartWatches, Spaces!cluster
<1>2. table' = [Spaces!Cleared(table) EXCEPT !.errors = {}, !.flash = Notice, !.store = t]
  BY DEF Spaces!StartWatches
<1>3. /\ cache' \in [SUBSET Names -> SpaceRows] /\ \A S \in SUBSET Names : OnlyOf(cache'[S], S)
  BY <1>1, StashedIs
<1>4. rows \in SpaceRows /\ OnlyOf(rows, W)
  BY <1>3
<1> HIDE DEF rows
<1>5. /\ ViewStore(t, W) /\ t.parts = W /\ ~t.synced /\ t.nsReady = {}
      /\ \A p \in W : t.nsKeys[p] = {k \in Keys : t.items[k] # NoObj /\ NameOf[k] = p}
  BY <1>4, SeededIs
<1> HIDE DEF t
<1>6. View(table', W) /\ table'.store = t /\ table'.errors = {}
  <2>1. Spaces!Cleared(table) \in ViewUI
    BY ClearedIs DEF SpacesInv, View
  <2>2. t \in Spaces!StoreType
    BY <1>5 DEF ViewStore
  <2>3. /\ table' \in ViewUI /\ table'.store = t /\ table'.errors = {} /\ table'.flash = Notice
    BY <1>2, <2>1, <2>2 DEF ViewUI
  <2> QED
    BY <1>5, <2>3, SpacesAre DEF View
<1>7. /\ Spaces!Settled' = table' /\ generation' \in Nat
      /\ \A S : \A i \in 1 .. Len(events') :
           events'[i].gen <= generation' /\ Ours(events'[i], generation', S)
  BY <1>1, <1>6, Bumped DEF View
<1>8. \A p \in Names : /\ watchers'[p] = Spaces!Idle /\ WatchOf(watchers'[p], p)
                       /\ watchers'[p].state = "start" /\ ~watchers'[p].failed
  BY <1>1, ClearedIs
<1>9. SpacesTypes'
  BY <1>1, <1>3, <1>7, <1>8 DEF SpacesInv, SpacesTypes
<1>10. Scoped'
  BY <1>1, <1>7 DEF Scoped
<1>11. View(table, Watching)'
  <2>1. Watching' = W
    BY <1>1, SpacesAre DEF Watching
  <2> QED
    BY <1>6, <2>1
<1>12. Mirrors(watchers, watched, Spaces!Settled)'
  <2>1. \A p \in W : Follows(watchers'[p], t, p)
    BY <1>5, <1>8 DEF Follows
  <2>2. {p \in W : watchers'[p].failed} = {}
    BY <1>8
  <2> QED
    BY <1>1, <1>5, <1>6, <1>7, <2>1, <2>2 DEF Mirrors
<1> QED
  BY <1>9, <1>10, <1>11, <1>12 DEF SpacesInv

\* The view leaves its namespaces: by another view, or a context switch.
LEMMA SpaceGoneStep ==
  ASSUME SpacesInv, generation' = generation + 1, events' = events, watched' = None,
         watchers' = [p \in Names |-> Spaces!Idle], UNCHANGED <<existing, objects>>,
         onPattern' \in BOOLEAN, resolved' \in SUBSET Names,
         cache' \in [SUBSET Names -> SpaceRows], \A S \in SUBSET Names : OnlyOf(cache'[S], S),
         View(table', {})
  PROVE  SpacesInv'
<1>1. /\ Spaces!Settled' = table' /\ generation' \in Nat
      /\ \A S : \A i \in 1 .. Len(events') :
           events'[i].gen <= generation' /\ Ours(events'[i], generation', S)
  BY Bumped DEF View
<1>2. \A p \in Names : watchers'[p] = Spaces!Idle /\ WatchOf(watchers'[p], p)
  BY ClearedIs
<1>3. Watching' = {}
  BY DEF Watching
<1>4. SpacesTypes'
  BY <1>1, <1>2 DEF SpacesInv, SpacesTypes
<1>5. Scoped'
  BY <1>1 DEF Scoped
<1> QED
  BY <1>3, <1>4, <1>5 DEF SpacesInv

\* The view leaves for another one, or for another cluster.
LEMMA LeaveStep ==
  ASSUME SpacesInv, Spaces!Leave \/ Spaces!SwitchLands
  PROVE  SpacesInv'
<1> DEFINE none == [s \in SUBSET Names |-> NoRows]
<1>1. /\ generation' = generation + 1 /\ events' = events /\ watched' = None
      /\ watchers' = [p \in Names |-> Spaces!Idle] /\ UNCHANGED <<existing, objects>>
      /\ onPattern' \in BOOLEAN /\ (resolved' = resolved \/ resolved' = {})
      /\ cache' = Spaces!Stashed \/ cache' = none
  BY SpaceRowsAre DEF Spaces!Leave, Spaces!SwitchLands, Spaces!cluster
<1>2. \/ table' = [Spaces!Cleared(table) EXCEPT !.errors = {}, !.store = Spaces!Clear]
      \/ table' = [Spaces!Cleared(table) EXCEPT !.store = Spaces!Clear, !.errors = {},
                                                !.flash = Notice]
  BY DEF Spaces!Leave, Spaces!SwitchLands
<1>3. /\ cache' \in [SUBSET Names -> SpaceRows] /\ \A S \in SUBSET Names : OnlyOf(cache'[S], S)
  <2>1. /\ none \in [SUBSET Names -> SpaceRows]
        /\ \A S \in SUBSET Names : OnlyOf(none[S], S)
    BY SpaceRowsAre
  <2> HIDE DEF none
  <2> QED
    BY <1>1, <2>1, StashedIs
<1>4. resolved' \in SUBSET Names
  BY <1>1 DEF SpacesInv, SpacesTypes
<1>5. View(table', {})
  <2> DEFINE u == Spaces!Cleared(table)
             c == Spaces!Clear
  <2>1. u \in ViewUI /\ ViewStore(c, {}) /\ c \in Spaces!StoreType
    BY ClearedIs DEF SpacesInv, View, ViewStore
  <2>2. u.flash \in {None, Notice}
    BY SpacesAre DEF SpacesInv, View, ViewUI, Spaces!Cleared
  <2> HIDE DEF u, c
  <2>3. \/ table' = [u EXCEPT !.errors = {}, !.store = c]
        \/ table' = [u EXCEPT !.store = c, !.errors = {}, !.flash = Notice]
    BY <1>2 DEF u, c
  <2>4. table' \in ViewUI /\ table'.store = c /\ table'.errors = {}
        /\ table'.flash \in {None, Notice}
    BY <2>1, <2>2, <2>3 DEF ViewUI
  <2> QED
    BY <2>1, <2>4, SpacesAre DEF View
<1> HIDE DEF none
<1> QED
  BY <1>1, <1>3, <1>4, <1>5, SpaceGoneStep

\* It comes back to what its pattern stood for, or looks it up again.
LEMMA ReturnStep == ASSUME SpacesInv, Spaces!Return PROVE SpacesInv'
<1>1. CASE resolved # {} /\ Spaces!StartWatches(resolved)
  BY <1>1, StartWatchesStep DEF SpacesInv, SpacesTypes
<1>2. CASE ~(resolved # {} /\ Spaces!StartWatches(resolved))
  <2>1. /\ generation' = generation + 1 /\ onPattern' = TRUE /\ ~onPattern
        /\ table' = [Spaces!Cleared(table) EXCEPT !.flash = Notice]
        /\ UNCHANGED <<existing, objects, watchers, events, resolved, watched, cache>>
    BY <1>2 DEF Spaces!Return, Spaces!cluster
  <2>2. watched = None /\ Watching = {}
    BY <2>1 DEF SpacesInv, Scoped, Watching
  <2>3. View(table', {})
    <3> DEFINE u == Spaces!Cleared(table)
    <3>1. u \in ViewUI /\ u.store = table.store /\ u.errors = table.errors
      BY ClearedIs DEF SpacesInv, View, Spaces!Cleared, ViewUI
    <3>2. ViewStore(table.store, {})
      BY <2>2 DEF SpacesInv, View
    <3> HIDE DEF u
    <3>3. table' = [u EXCEPT !.flash = Notice]
      BY <2>1 DEF u
    <3>4. table' \in ViewUI /\ table'.store = table.store /\ table'.flash = Notice
      BY <3>1, <3>3 DEF ViewUI
    <3> QED
      BY <3>2, <3>4, SpacesAre DEF View
  <2>4. /\ generation' \in Nat
        /\ \A S : \A i \in 1 .. Len(events') :
             events'[i].gen <= generation' /\ Ours(events'[i], generation', S)
    BY <2>1, <2>3, Bumped DEF View
  <2>5. SpacesTypes'
    BY <2>1, <2>4 DEF SpacesInv, SpacesTypes
  <2>6. Watching' = {} /\ watched' = None
    BY <2>1, <2>2 DEF Watching
  <2>7. Scoped'
    BY <2>4, <2>6 DEF Scoped
  <2> QED
    BY <2>3, <2>5, <2>6, <2>7 DEF SpacesInv
<1> QED
  BY <1>1, <1>2

\* A lookup that begins or fails only puts up a notice, unless nothing is shown.
LEMMA NoticeStep ==
  ASSUME SpacesInv, table' = [table EXCEPT !.flash = Notice],
         UNCHANGED <<existing, objects, watchers, events, generation, onPattern, resolved, watched,
                     cache>>
  PROVE  SpacesInv'
<1> DEFINE u == table
           v == table'
           G == generation
           W == Watching
<1>1. View(u, W) /\ W \in SUBSET Names /\ events \in Seq(WatchMessage)
      /\ \A i \in 1 .. Len(events) : Ours(events[i], G, W)
  BY SpacesKnown DEF SpacesInv, SpacesTypes, Scoped
<1>2. View(v, W) /\ v.store = u.store /\ v.errors = u.errors
  <2>1. u \in ViewUI /\ v = [u EXCEPT !.flash = Notice]
    BY <1>1 DEF View
  <2> HIDE DEF u, v
  <2>2. v \in ViewUI /\ v.store = u.store /\ v.errors = u.errors /\ v.flash = Notice
    BY <2>1 DEF ViewUI
  <2> QED
    BY <1>1, <2>2, SpacesAre DEF View
<1>3. Spaces!Settled = AfterAt(G, u, events) /\ Spaces!Settled' = AfterAt(G, v, events)
  BY SettledAt
<1>4. Watching' = W
  BY DEF Watching
<1> HIDE DEF u, v, G, W
<1>5. /\ AfterAt(G, u, events).store = AfterAt(G, v, events).store
      /\ AfterAt(G, u, events).errors = AfterAt(G, v, events).errors
  BY <1>1, <1>2, AfterAlike
<1>6. SpacesTypes' /\ Scoped'
  BY <1>4 DEF SpacesInv, SpacesTypes, Scoped, W
<1>7. watched # None => Mirrors(watchers, watched, Spaces!Settled)'
  <2> SUFFICES ASSUME watched # None PROVE Mirrors(watchers, watched, Spaces!Settled)'
    OBVIOUS
  <2>1. Mirrors(watchers, watched, Spaces!Settled)
    BY DEF SpacesInv
  <2>2. /\ Spaces!Settled'.store = Spaces!Settled.store
        /\ Spaces!Settled'.errors = Spaces!Settled.errors
    BY <1>3, <1>5
  <2> QED
    BY <2>1, <2>2 DEF Mirrors
<1> QED
  BY <1>2, <1>4, <1>6, <1>7 DEF SpacesInv, v

\* A lookup fails: an empty view where nothing was shown, else only a notice.
LEMMA LookUpFailsStep == ASSUME SpacesInv, Spaces!LookUpFails PROVE SpacesInv'
<1>1. UNCHANGED <<existing, objects, watchers, events, generation, onPattern, resolved, cache>>
  BY DEF Spaces!LookUpFails, Spaces!cluster
<1>2. CASE onPattern /\ resolved = {}
  <2>1. /\ table' = [table EXCEPT !.store = Spaces!Clear, !.errors = {}, !.flash = Notice]
        /\ watched' = None
    BY <1>2 DEF Spaces!LookUpFails
  <2>2. watched = None
    BY <1>2 DEF SpacesInv, Scoped
  <2>3. Watching = {} /\ Watching' = {}
    BY <2>1, <2>2 DEF Watching
  <2>4. View(table', {})
    <3> DEFINE c == Spaces!Clear
    <3>1. ViewStore(c, {}) /\ c \in Spaces!StoreType /\ table \in ViewUI
      BY ClearedIs DEF ViewStore, SpacesInv, View
    <3> HIDE DEF c
    <3>2. table' \in ViewUI /\ table'.store = c /\ table'.flash = Notice
      BY <2>1, <3>1 DEF ViewUI, c
    <3> QED
      BY <3>1, <3>2, SpacesAre DEF View
  <2>5. SpacesTypes' /\ Scoped'
    BY <1>1, <2>1, <2>2, <2>3 DEF SpacesInv, SpacesTypes, Scoped
  <2> QED
    BY <2>1, <2>3, <2>4, <2>5 DEF SpacesInv
<1>3. CASE ~(onPattern /\ resolved = {})
  <2>1. table' = [table EXCEPT !.flash = Notice] /\ watched' = watched
    BY <1>3 DEF Spaces!LookUpFails
  <2> QED
    BY <1>1, <2>1, NoticeStep
<1> QED
  BY <1>2, <1>3

\* The cluster changes; the view does not.
LEMMA ClusterStep ==
  ASSUME SpacesInv, (\E k \in Keys : Spaces!Write(k))
                      \/ \E p \in Names : Spaces!NamespaceComesOrGoes(p)
  PROVE  SpacesInv'
<1>1. UNCHANGED <<watchers, events, generation, onPattern, resolved, watched, cache, table>>
  BY DEF Spaces!Write, Spaces!NamespaceComesOrGoes, Spaces!screen
<1>2. existing' \in SUBSET Names /\ objects' \in SpaceRows
  BY DEF Spaces!Write, Spaces!NamespaceComesOrGoes, SpacesInv, SpacesTypes, SpaceRows
<1>3. Spaces!Settled' = Spaces!Settled
  BY <1>1, SettledAt
<1> QED
  BY <1>1, <1>2, <1>3 DEF SpacesInv, SpacesTypes, Scoped, Watching, Mirrors

\* A message is handled: what is shown once all are does not change.
LEMMA SpaceHandleStep == ASSUME SpacesInv, Spaces!HandleMsg PROVE SpacesInv'
<1> DEFINE m == Head(events)
           G == generation
           W == Watching
           u == table
<1>1. /\ events # <<>> /\ events' = Tail(events) /\ table' = FoldAt(G, u, m)
      /\ UNCHANGED <<existing, objects, watchers, generation, onPattern, resolved, watched, cache>>
  BY SettledAt DEF Spaces!HandleMsg, Spaces!cluster, Spaces!screen
<1>2. events \in Seq(WatchMessage) /\ View(u, W) /\ W \in SUBSET Names
      /\ \A i \in 1 .. Len(events) : events[i].gen <= G /\ Ours(events[i], G, W)
  BY SpacesKnown DEF SpacesInv, SpacesTypes, Scoped
<1>3. /\ m \in WatchMessage /\ Ours(m, G, W) /\ events' \in Seq(WatchMessage)
      /\ \A i \in 1 .. Len(events') : events'[i].gen <= G /\ Ours(events'[i], G, W)
  BY <1>1, <1>2
<1>4. Watching' = W /\ generation' = G
  BY <1>1 DEF Watching
<1>5. Spaces!Settled = AfterAt(G, u, events) /\ Spaces!Settled' = AfterAt(G, table', events')
  BY <1>1, SettledAt
<1>6. SpacesTypes' /\ Scoped'
  BY <1>1, <1>3, <1>4 DEF SpacesInv, SpacesTypes, Scoped
<1> HIDE DEF G, W, u
<1>7. AfterAt(G, FoldAt(G, u, Head(events)), Tail(events)) = AfterAt(G, u, events)
  BY <1>1, <1>2, SpacesAfterFirst
<1>8. Spaces!Settled' = Spaces!Settled
  BY <1>1, <1>5, <1>7
<1> HIDE DEF m
<1>9. View(FoldAt(G, u, m), W)
  BY <1>2, <1>3, FoldKeepsView
<1>10. View(table, Watching)'
  BY <1>1, <1>4, <1>9
<1>11. watched # None => Mirrors(watchers, watched, Spaces!Settled)'
  BY <1>1, <1>8 DEF SpacesInv, Mirrors
<1> QED
  BY <1>1, <1>6, <1>10, <1>11 DEF SpacesInv

\* A view of several namespaces starts with none.
LEMMA SpacesInvInit == ASSUME Spaces!Init PROVE SpacesInv
<1>1. existing \in SUBSET Names /\ objects \in SpaceRows
  <2>1. (CHOOSE o \in Versions : TRUE) \in Versions
    BY SpacesAre
  <2> QED
    BY <2>1 DEF Spaces!Init, SpaceRows
<1>2. /\ watchers = [p \in Names |-> Spaces!Idle] /\ events = <<>> /\ generation = 0
      /\ onPattern = FALSE /\ resolved = {} /\ watched = None
      /\ cache = [s \in SUBSET Names |-> NoRows]
      /\ table = [store |-> Spaces!Clear, errors |-> {}, flash |-> None, reported |-> None]
  BY SpaceRowsAre DEF Spaces!Init
<1>3. Watching = {} /\ Len(events) = 0
  BY <1>2 DEF Watching
<1>4. SpacesTypes
  <2>1. \A p \in Names : watchers[p] = Spaces!Idle /\ WatchOf(watchers[p], p)
    BY <1>2, ClearedIs
  <2>2. /\ cache \in [SUBSET Names -> SpaceRows]
        /\ \A S \in SUBSET Names : OnlyOf(cache[S], S)
    BY <1>2, SpaceRowsAre
  <2>3. events \in Seq(WatchMessage) /\ watchers = [p \in Names |-> watchers[p]]
    BY <1>2
  <2> QED
    BY <1>1, <1>2, <2>1, <2>2, <2>3 DEF SpacesTypes
<1>5. Scoped
  BY <1>2, <1>3 DEF Scoped
<1>6. View(table, Watching)
  <2>1. ViewStore(Spaces!Clear, {}) /\ Spaces!Clear \in Spaces!StoreType
    BY ClearedIs DEF ViewStore
  <2> QED
    BY <1>2, <1>3, <2>1, SpacesAre DEF View, ViewUI
<1> QED
  BY <1>2, <1>4, <1>5, <1>6 DEF SpacesInv

\* What was found is watched.
LEMMA LookUpStep == ASSUME SpacesInv, Spaces!LookUp \/ Spaces!LookUpLands PROVE SpacesInv'
<1>1. CASE Spaces!LookUp
  <2>1. /\ table' = [table EXCEPT !.flash = Notice]
        /\ UNCHANGED <<existing, objects, watchers, events, generation, onPattern, resolved,
                       watched, cache>>
    BY <1>1 DEF Spaces!LookUp, Spaces!cluster
  <2> QED
    BY <2>1, NoticeStep
<1>2. CASE Spaces!LookUpLands
  <2>1. existing # {} /\ Spaces!StartWatches(existing)
    BY <1>2 DEF Spaces!LookUpLands
  <2>2. existing \in SUBSET Names
    BY DEF SpacesInv, SpacesTypes
  <2> QED
    BY <2>1, <2>2, StartWatchesStep
<1> QED
  BY <1>1, <1>2

\* The part at rest stays as it is.
LEMMA SpacesStay == ASSUME SpacesInv, UNCHANGED spaces PROVE SpacesInv'
<1>1. /\ UNCHANGED <<existing, objects, watchers, events, generation, onPattern, resolved>>
      /\ UNCHANGED <<watched, cache, table>>
  BY DEF spaces
<1>2. Spaces!Settled' = Spaces!Settled
  BY <1>1, SettledAt
<1> QED
  BY <1>1, <1>2 DEF SpacesInv, SpacesTypes, Scoped, Watching, Mirrors

\* Every step of a view of several namespaces.
LEMMA SpacesStep == ASSUME SpacesInv, Spaces!Next PROVE SpacesInv'
<1>1. CASE (\E k \in Keys : Spaces!Write(k)) \/ \E p \in Names : Spaces!NamespaceComesOrGoes(p)
  BY <1>1, ClusterStep
<1>2. CASE \E p \in Names : Spaces!BeginList(p)
  BY <1>2, SpaceBeginListStep
<1>3. CASE \E p \in Names : Spaces!ListDone(p)
  BY <1>3, SpaceListDoneStep
<1>4. CASE \E p \in Names : Spaces!WatchFails(p) \/ Spaces!Recovers(p)
  BY <1>4, SpaceOutageStep
<1>5. CASE \E p \in Names : \E k \in Keys : Spaces!ListRow(p, k)
  BY <1>5, SpaceListRowStep
<1>6. CASE \E p \in Names : \E k \in Keys : Spaces!WatchEvent(p, k)
  BY <1>6, SpaceWatchEventStep
<1>7. CASE Spaces!LookUp \/ Spaces!LookUpLands
  BY <1>7, LookUpStep
<1>8. CASE Spaces!LookUpFails
  BY <1>8, LookUpFailsStep
<1>9. CASE Spaces!Leave \/ Spaces!SwitchLands
  BY <1>9, LeaveStep
<1>10. CASE Spaces!Return
  BY <1>10, ReturnStep
<1>11. CASE Spaces!HandleMsg
  BY <1>11, SpaceHandleStep
<1> QED
  BY <1>1, <1>2, <1>3, <1>4, <1>5, <1>6, <1>7, <1>8, <1>9, <1>10, <1>11 DEF Spaces!Next

-----------------------------------------------------------------------------
\* The part at rest stays as it is.
LEMMA TaskStays == ASSUME TaskInv, UNCHANGED vars PROVE TaskInv' /\ (Counted => Counted')
<1>1. /\ UNCHANGED <<apiServer, hist, watchAllowed, watcher, task, outbox, chan, store, notice>>
      /\ counted' = counted
  BY DEF vars
<1>2. Settled' = Settled
  BY <1>1 DEF Settled
<1>3. Counted => Counted'
  BY <1>1, <1>2 DEF Counted, Brought
<1> QED
  BY <1>1, <1>2, <1>3 DEF TaskInv, TaskTypes, Watchers, Now, History, Reached, Noticed, Shows,
                          Complete, Brought, ListedRows

\* A step that is no poll counts what it brings.
LEMMA CountedStays ==
  ASSUME TaskInv, TaskInv', Counted,
         \/ \E k \in Keys : ServerWrite(k) \/ InitApply(k)
         \/ RevokeWatch \/ BeginList \/ StreamingUnsupported \/ ListReturns \/ InitDone
         \/ ResumeWatch \/ WatchEvent \/ StreamEnds \/ Desync \/ WatchFails
         \/ WatchAndListForbidden \/ PollFails \/ Send \/ HandleMsg
  PROVE  Counted'
<1>1. CASE \/ \E k \in Keys : ServerWrite(k)
           \/ RevokeWatch \/ StreamingUnsupported \/ ListReturns \/ StreamEnds \/ Desync
           \/ Send \/ HandleMsg
  <2>1. /\ counted' = counted /\ task'.polling = task.polling /\ task'.listing = task.listing
        /\ task'.seen = task.seen
        /\ task.polling => task'.usingStreaming = task.usingStreaming
    BY <1>1 DEF ServerWrite, RevokeWatch, StreamingUnsupported, ListReturns, StreamEnds, Desync,
                Send, HandleMsg, Ready, TaskInv, TaskTypes, Tasks
  <2>2. Settled' = Settled
    <3>1. CASE Send \/ HandleMsg
      BY <3>1, SendKeeps, HandleKeeps DEF TaskInv
    <3>2. CASE ~(Send \/ HandleMsg)
      <4>1. UNCHANGED <<outbox, chan, store, notice>>
        BY <1>1, <3>2 DEF ServerWrite, RevokeWatch, StreamingUnsupported, ListReturns, StreamEnds,
                          Desync, ui
      <4> QED
        BY <4>1 DEF Settled
    <3> QED
      BY <3>1, <3>2
  <2> QED
    BY <2>1, <2>2 DEF Counted, Brought
<1>2. CASE WatchFails \/ WatchAndListForbidden \/ PollFails
  <2>1. /\ outbox = <<>> /\ UNCHANGED <<chan, store, notice, counted>>
        /\ outbox' = <<Note("WatchError")>> /\ task' = [task EXCEPT !.failed = TRUE]
    BY <1>2 DEF WatchFails, WatchAndListForbidden, PollFails, Forbidden, Ready, ui
  <2>2. Note("WatchError") \in Message
    BY NotesAre DEF MsgTypes
  <2>3. Settled' = Fold(Settled, Note("WatchError"))
    BY <2>1, <2>2, ToldOne DEF TaskInv
  <2>4. Settled' = UI(Settled.store, TRUE)
    BY <2>3, Known, FoldOther
  <2>5. Settled'.store = Settled.store
    BY <2>4 DEF UI
  <2>6. /\ task'.seen = task.seen /\ task'.polling = task.polling
        /\ task'.listing = task.listing /\ task'.usingStreaming = task.usingStreaming
    BY <2>1 DEF TaskInv, TaskTypes, Tasks
  <2> QED
    BY <2>1, <2>5, <2>6 DEF Counted, Brought
<1>3. CASE BeginList
  <2>1. /\ ~task'.polling
        /\ \/ watcher'.state = "page"
           \/ watcher'.state = "initial" /\ watcher'.left = KeysOf(hist'[watcher'.at])
    <3>1. /\ ~task.polling /\ task' = [task EXCEPT !.listing = TRUE] /\ hist' = hist
          /\ \/ watcher' = [watcher EXCEPT !.state = "page", !.left = {}, !.broken = FALSE]
             \/ \E i \in 1 .. Now : watcher' = [state |-> "initial", at |-> i,
                                               left |-> KeysOf(hist[i]), broken |-> FALSE]
      BY <1>3 DEF BeginList, Ready, Goto, server
    <3>2. ~task'.polling
      BY <3>1 DEF TaskInv, TaskTypes, Tasks
    <3>3. CASE watcher' = [watcher EXCEPT !.state = "page", !.left = {}, !.broken = FALSE]
      BY <3>2, <3>3 DEF TaskInv, TaskTypes, Watchers
    <3>4. CASE \E i \in 1 .. Now : watcher' = [state |-> "initial", at |-> i,
                                            left |-> KeysOf(hist[i]), broken |-> FALSE]
      BY <3>1, <3>2, <3>4
    <3> QED
      BY <3>1, <3>2, <3>3, <3>4
  <2>2. KeysOf(Brought(Settled'.store)) = {}
    BY <2>1 DEF TaskInv, Reached, Brought, ListedRows, KeysOf, NoRows
  <2> QED
    BY <2>1, <2>2 DEF Counted, Brought
<1>4. CASE \E k \in Keys : InitApply(k)
  <2>1. PICK k \in Keys : InitApply(k)
    BY <1>4
  <2>2. /\ ~task.polling /\ task' = task /\ watcher.state = "initial" /\ hist' = hist
        /\ watcher'.state = "initial" /\ watcher'.at = watcher.at
        /\ watcher'.left = watcher.left \ {k} /\ counted' = counted \cup {k}
    BY <2>1 DEF InitApply, Ready, server, TaskInv, TaskTypes, Watchers
  <2>3. /\ Brought(Settled.store) =
             ListedRows(watcher.at, KeysOf(hist[watcher.at]) \ watcher.left)
        /\ Brought(Settled'.store) =
             ListedRows(watcher.at, KeysOf(hist[watcher.at]) \ (watcher.left \ {k}))
    BY <2>2 DEF TaskInv, Reached, Brought, ListedRows
  <2>4. KeysOf(Brought(Settled'.store)) \subseteq KeysOf(Brought(Settled.store)) \cup {k}
    BY <2>3 DEF ListedRows, KeysOf
  <2> QED
    BY <2>2, <2>4 DEF Counted, Brought
<1>5. CASE InitDone \/ ResumeWatch \/ WatchEvent
  <2>1. ~task'.polling /\ ~task'.listing
    BY <1>5 DEF InitDone, ResumeWatch, WatchEvent, Ready, TaskInv, TaskTypes, Tasks, Reached
  <2> QED
    BY <2>1 DEF Counted
<1> QED
  BY <1>1, <1>2, <1>3, <1>4, <1>5

\* Every step of one watch, and of its polls.
LEMMA TaskNext ==
  ASSUME TaskInv, Next
  PROVE  TaskInv' /\ (Counted => Counted')
<1>1. CASE \E k \in Keys : ServerWrite(k)
  BY <1>1, ServerStep, CountedStays
<1>2. CASE RevokeWatch
  BY <1>2, RevokeWatchStep, CountedStays
<1>3. CASE BeginList
  BY <1>3, BeginListStep, CountedStays
<1>4. CASE StreamingUnsupported
  BY <1>4, StreamingUnsupportedStep, CountedStays
<1>5. CASE ListReturns
  BY <1>5, ListReturnsStep, CountedStays
<1>6. CASE \E k \in Keys : InitApply(k)
  BY <1>6, InitApplyStep, CountedStays
<1>7. CASE InitDone
  BY <1>7, InitDoneStep, CountedStays
<1>8. CASE ResumeWatch
  BY <1>8, ResumeWatchStep, CountedStays
<1>9. CASE WatchEvent
  BY <1>9, WatchEventStep, CountedStays
<1>10. CASE StreamEnds \/ Desync
  BY <1>10, TurnBackStep, CountedStays
<1>11. CASE WatchFails \/ WatchAndListForbidden \/ PollFails
  BY <1>11, FailureStep, CountedStays
<1>12. CASE StartPolling
  BY <1>12, StartPollingStep
<1>13. CASE \E i \in 1 .. Now : Poll(i)
  BY <1>13, PollStep
<1>14. CASE Send \/ HandleMsg
  BY <1>14, ChannelStep, CountedStays
<1> QED
  BY <1>1, <1>2, <1>3, <1>4, <1>5, <1>6, <1>7, <1>8, <1>9, <1>10, <1>11, <1>12, <1>13, <1>14
     DEF Next

-----------------------------------------------------------------------------
\* What the invariants say of the table of one watch.
LEMMA TaskMirrors ==
  ASSUME TaskInv
  PROVE  WatchMirrorsServer /\ PolledRowsShown /\ NoticeEndsWithOutage
<1>1. WatchMirrorsServer
  BY DEF TaskInv, Reached, Complete, WatchMirrorsServer
<1>2. PolledRowsShown
  BY DEF TaskInv, Reached, PolledRowsShown
<1>3. NoticeEndsWithOutage
  BY DEF TaskInv, Noticed, NoticeEndsWithOutage
<1> QED
  BY <1>1, <1>2, <1>3

\* ... and of the table of several.
LEMMA SpacesMirror == ASSUME SpacesInv PROVE Spaces!PartitionsMirror /\ Spaces!OutageNamed
<1> SUFFICES ASSUME Spaces!Shown PROVE Spaces!PartitionsMirror /\ Spaces!OutageNamed
  BY DEF Spaces!PartitionsMirror, Spaces!OutageNamed
<1> DEFINE u == Spaces!Settled
           s == u.store
<1>1. watched # None /\ Watching = watched /\ watched \in SUBSET Names
  BY SpacesAre DEF Spaces!Shown, Watching, SpacesInv, SpacesTypes
<1>2. Mirrors(watchers, watched, u) /\ View(u, watched)
  BY <1>1, SpacesKnown DEF SpacesInv
<1>3. \A k \in Keys : table.store.items[k] # NoObj => NameOf[k] \in watched
  BY <1>1 DEF SpacesInv, View, ViewStore, OnlyOf
<1>4. \A p \in watched : WatchOf(watchers[p], p) /\ Follows(watchers[p], s, p)
  BY <1>1, <1>2 DEF Mirrors, SpacesInv, SpacesTypes
<1> HIDE DEF u, s
<1>5. \A p \in watched : p \in s.nsReady <=> watchers[p].state \in {"live", "down"}
  BY <1>4 DEF Follows, WatchOf, Watch
<1>6. \A p \in watched : watchers[p].state \in {"live", "down"} =>
        \A k \in Keys : NameOf[k] = p => s.items[k] = watchers[p].rows[k]
  BY <1>4 DEF Follows
<1>7. s.synced <=> \A p \in watched : watchers[p].state \in {"live", "down"}
  <2>1. s.synced <=> watched \subseteq s.nsReady
    BY <1>2 DEF Mirrors, s
  <2> QED
    BY <1>5, <2>1
<1>8. Spaces!PartitionsMirror
  BY <1>3, <1>6, <1>7 DEF Spaces!PartitionsMirror, Spaces!KeysOf, s, u
<1>9. Spaces!OutageNamed
  BY <1>2 DEF Spaces!OutageNamed, Mirrors, View, u
<1> QED
  BY <1>8, <1>9

-----------------------------------------------------------------------------
\* One watch, and a view of several namespaces: their invariants together.
WatchesInv == TaskInv /\ Counted /\ SpacesInv

\* They hold at the start, ...
LEMMA WatchesInvInit == ASSUME WatchesInit PROVE WatchesInv
<1>1. Init /\ Spaces!Init
  BY DEF WatchesInit, NoTask, NoSpaces
<1>2. Counted
  BY <1>1, CountedInit
<1> QED
  BY <1>1, <1>2, TaskInvInit, SpacesInvInit DEF WatchesInv

\* ... and every step keeps them.
LEMMA WatchesInvStep == ASSUME WatchesInv, [WatchesNext]_watches PROVE WatchesInv'
<1>1. CASE OfTask /\ Next
  <2>1. UNCHANGED spaces
    BY <1>1 DEF OfTask
  <2> QED
    BY <1>1, <2>1, TaskNext, SpacesStay DEF WatchesInv
<1>2. CASE OfSpaces /\ Spaces!Next
  <2>1. UNCHANGED vars
    BY <1>2 DEF OfSpaces
  <2> QED
    BY <1>2, <2>1, TaskStays, SpacesStep DEF WatchesInv
<1>3. CASE UNCHANGED watches
  <2>1. UNCHANGED spaces /\ UNCHANGED vars
    BY <1>3 DEF watches
  <2> QED
    BY <2>1, TaskStays, SpacesStay DEF WatchesInv
<1> QED
  BY <1>1, <1>2, <1>3 DEF WatchesNext

\* In every reachable state what one watch, or each watch of a view of several namespaces,
\* has brought is known, and what the messages in flight make of the table (WatchesInv);
\* RowsMirror and NoticesTrue are what it says of the table.
THEOREM WatchesInvariant == WatchesSpec => []WatchesInv
<1>1. WatchesInit => WatchesInv
  BY WatchesInvInit
<1>2. WatchesInv /\ [WatchesNext]_watches => WatchesInv'
  BY WatchesInvStep
<1> QED
  BY <1>1, <1>2, PTL DEF WatchesSpec

\* The rows are those of the server, and each namespace's are its own watch's, for any
\* number of keys, revisions, namespaces, failures and messages on their way, and whatever
\* the API server may come to refuse (spawn_watch_task, poll_lists, Msg::NamespaceWatch).
THEOREM TableMirrored == WatchesSpec => []RowsMirror
<1>1. WatchesInv => RowsMirror
  BY TaskMirrors, SpacesMirror
     DEF WatchesInv, Counted, RowsMirror, TableMirrors, PollReplacesList
<1> QED
  BY <1>1, WatchesInvariant, PTL

\* A notice of a failed watch, and the "incomplete" of a view of several namespaces, stand
\* for outages that go on, for any number of either (set_watch_error_flash).
THEOREM NoticesStandForOutages == WatchesSpec => []NoticesTrue
<1>1. WatchesInv => NoticesTrue
  BY TaskMirrors, SpacesMirror DEF WatchesInv, NoticesTrue
<1> QED
  BY <1>1, WatchesInvariant, PTL
=============================================================================
