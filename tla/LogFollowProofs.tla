--------------------------- MODULE LogFollowProofs ---------------------------
(***************************************************************************)
(* TLAPS proofs about LogFollow: whatever breaks and reconnects, the lines *)
(* of a run reach the view one after the other, for any number of pods,    *)
(* runs, lines and connections.                                            *)
(*                                                                         *)
(* The lines of this generation, shown and then still on their way, are    *)
(* the trail.  What LogResume remembers is the time stamp of its last line *)
(* and how many of the lines before it in that run share it; a connection  *)
(* asked for from there repeats those and the older ones, no more.         *)
(*                                                                         *)
(* About LogSelector: a pod of a selector has one stream, for any number   *)
(* of pods.  A deletion of a terminating pod is the last that is said of   *)
(* it, so the stream it leaves to end by itself gets no second.            *)
(***************************************************************************)
EXTENDS MCLogFollow, SequenceTheorems, FiniteSetTheorems, TLAPS

USE DEF None

Line == [uid : Nat, run : Nat, n : Nat]
NoLine == [uid |-> 0, run |-> 0, n |-> 0]
Batch == [gen : Nat, line : Line]
Resumes == [last : Nat, at : Nat, skip : Nat, replaying : BOOLEAN]
Connection == [uid : Nat, run : Nat, pos : Nat]
Tasks ==
  [pc : {"check", "open", "pump", "after", "done"}, gen : Nat, pinned : BOOLEAN, first : Nat,
   uid : Nat, canRead : BOOLEAN, resume : Resumes, tail : BOOLEAN, since : Nat,
   conn : Connection, ended : {"no", "gone", "replaced", "finished", "refused", "stopped"}]

Types ==
  /\ pod \in [uid : 0 .. MaxPods, run : 0 .. MaxRuns, last : 0 .. MaxPods,
              state : {"waiting", "running", "exited", "over"}]
  /\ written \in [Runs -> Seq(Nat)] /\ now \in Nat
  /\ task \in Tasks /\ inbox \in Seq(Batch) /\ gen \in Nat /\ shown \in Seq(Line)

-----------------------------------------------------------------------------
(* The inductive invariant.                                                *)

\* The lines of this generation, in the order they were sent.
Trail ==
  [i \in 1 .. Len(shown) + Len(inbox) |->
     IF i <= Len(shown) THEN shown[i]
     ELSE IF inbox[i - Len(shown)].gen = gen THEN inbox[i - Len(shown)].line ELSE NoLine]

Lines(T) == {T[i] : i \in DOMAIN T} \ {NoLine}
RunOf(l) == <<l.uid, l.run>>
Conn(k) == <<k.conn.uid, k.conn.run>>

\* The run written now, or the last one; and the order in which runs come.
Cur == <<IF pod.uid = None THEN pod.last ELSE pod.uid, pod.run>>
Before(q, r) == q[1] < r[1] \/ (q[1] = r[1] /\ q[2] < r[2])

\* Pods have the name in turn.
PodInv ==
  /\ pod.uid # None => pod.uid = pod.last + 1
  /\ pod.uid = None => pod.last # 0
  /\ pod.uid # None /\ pod.state = "running" => pod.run # 0

Ordered(w) == \A i, j \in DOMAIN w : i < j => w[i] <= w[j]

\* Time stamps grow along a run and from one run to the next.
TimesInv ==
  /\ now > 0
  /\ \A r \in Runs : \A i \in DOMAIN written[r] : 0 < written[r][i] /\ written[r][i] <= now
  /\ \A r \in Runs : Ordered(written[r])
  /\ \A r \in Runs : Before(Cur, r) => written[r] = <<>>
  /\ \A q, r \in Runs : Before(q, r) =>
       \A i \in DOMAIN written[q], j \in DOMAIN written[r] : written[q][i] < written[r][j]
  /\ pod.uid # None /\ pod.state = "running" =>
       \A r \in Runs : Before(r, Cur) => \A i \in DOMAIN written[r] : written[r][i] < now

\* Every line sent was written, and the lines of a run are in turn.
Sent(T) == \A l \in Lines(T) : RunOf(l) \in Runs /\ l.n \in DOMAIN written[RunOf(l)]
InTurn(T) == \A c \in Runs : c[1] \notin raced => TailSplits(T, c) \/ Consecutive(T, c)

\* What stream k knows of the lines it sent.  Those of a pod it has left are earlier.
Earlier(k, l) == k.uid # None /\ l.uid < k.uid
UidInv(k, T) ==
  k.uid # None => \A l \in Lines(T) : l.uid \notin raced => l.uid <= k.uid
Fresh(k, T) ==
  /\ k.resume.at = 0 /\ k.resume.skip = 0
  /\ \A l \in Lines(T) : l.uid \notin raced => Earlier(k, l)

LastIn(T, p) == \A q \in DOMAIN T : q > p => ~Of(T, q, RunOf(T[p]))

\* It counts the lines of its run with the time stamp of the last one, l.
CountedAt(w, n, at, last) ==
  1 <= at /\ at <= n /\ w[n - at + 1] = last /\ (at < n => w[n - at] < last)
Counted(k, l) == CountedAt(written[RunOf(l)], l.n, k.resume.at, k.resume.last)

\* The last line it sent is the one at p.
Anchor(k, T, p) ==
  /\ T[p] # NoLine /\ written[RunOf(T[p])][T[p].n] = k.resume.last
  /\ \A l \in Lines(T) : l.uid \notin raced => Earlier(k, l) \/ ~Before(RunOf(T[p]), RunOf(l))
  /\ T[p].uid \notin raced /\ ~TailSplits(T, RunOf(T[p])) => LastIn(T, p) /\ Counted(k, T[p])

\* A request continues from it ...
Rested(k) ==
  k.resume.last # None => /\ k.resume.replaying /\ k.resume.skip = k.resume.at
                          /\ ~k.tail /\ k.since = Second(k.resume.last)

\* ... and repeats no line without counting it.
Latest(k, T, p) ==
  /\ T[p] # NoLine /\ RunOf(T[p]) = Conn(k) /\ LastIn(T, p)
  /\ T[p].uid \notin raced /\ ~TailSplits(T, Conn(k))
Counts(n, at, pos, skip) ==
  pos <= n + 1 /\ skip = IF pos <= n - at + 1 THEN at ELSE n - pos + 1
Follows(k, l) ==
  IF k.resume.replaying THEN Counts(l.n, k.resume.at, k.conn.pos, k.resume.skip)
  ELSE k.conn.pos = l.n + 1
Reads(k, T) == \A p \in DOMAIN T : Latest(k, T, p) => Follows(k, T[p])

ConnInv(k, T) ==
  /\ Conn(k) \in Runs /\ ~Before(Cur, Conn(k)) /\ k.conn.pos > 0
  /\ k.conn.uid \in raced \/ k.uid = None \/ k.conn.uid = k.uid
  /\ \A l \in Lines(T) : ~Before(Conn(k), RunOf(l))

Knows(k, T) ==
  /\ UidInv(k, T)
  /\ IF k.resume.last = None THEN Fresh(k, T) ELSE \E p \in DOMAIN T : Anchor(k, T, p)

StreamInv(k, T) ==
  /\ k.gen = gen /\ k.uid <= Cur[1] /\ k.first <= Cur[1]
  /\ k.pc # "done" =>
       /\ Knows(k, T)
       /\ k.pc \in {"check", "open"} => Rested(k)
       /\ k.pc = "pump" => ConnInv(k, T) /\ Reads(k, T)

\* The batches on their way are of this generation, or of one before.
Past == \A i \in DOMAIN inbox : inbox[i].gen <= gen

Inv ==
  /\ Types /\ PodInv /\ TimesInv /\ Past
  /\ Sent(Trail) /\ InTurn(Trail) /\ StreamInv(task, Trail)

-----------------------------------------------------------------------------
(* Runs, and the trail.                                                    *)

\* Of two runs that are not in order either way, one is the other.
LEMMA Trichotomy ==
  ASSUME NEW q \in Nat \X Nat, NEW r \in Nat \X Nat, ~Before(q, r), ~Before(r, q)
  PROVE  q = r
  BY DEF Before

\* The order of runs is one.
LEMMA Order ==
  ASSUME NEW p \in Nat \X Nat, NEW q \in Nat \X Nat, NEW r \in Nat \X Nat
  PROVE  /\ ~Before(p, p)
         /\ Before(p, q) /\ Before(q, r) => Before(p, r)
         /\ Before(p, q) /\ ~Before(r, q) => Before(p, r)
         /\ ~Before(q, p) /\ ~Before(r, q) => ~Before(r, p)
  BY DEF Before

\* A run is a pair of numbers.
LEMMA RunsAre == Runs \in SUBSET (Nat \X Nat) /\ \A r \in Runs : r[1] > 0 /\ r[2] > 0
  BY LogFollowAssumption DEF Runs, LogFollowAssumption

\* So are the name's pod and run, now or last.
LEMMA PodIs ==
  Types => pod.uid \in Nat /\ pod.last \in Nat /\ pod.run \in Nat
  BY LogFollowAssumption DEF Types, LogFollowAssumption

\* So is the current one.
LEMMA CurIs == Types => Cur \in Nat \X Nat
  BY LogFollowAssumption DEF Types, Cur, LogFollowAssumption

\* The trail is a sequence of lines.
LEMMA TrailIs ==
  ASSUME Types
  PROVE  /\ Trail \in Seq(Line) /\ Len(Trail) = Len(shown) + Len(inbox)
         /\ DOMAIN Trail = 1 .. Len(shown) + Len(inbox)
         /\ \A i \in 1 .. Len(shown) : Trail[i] = shown[i]
         /\ \A i \in 1 .. Len(inbox) :
              Trail[Len(shown) + i] = IF inbox[i].gen = gen THEN inbox[i].line ELSE NoLine
<1>1. Len(shown) \in Nat /\ Len(inbox) \in Nat /\ NoLine \in Line
  BY DEF Types, NoLine, Line
<1>2. \A i \in 1 .. Len(shown) : shown[i] \in Line
  BY DEF Types
<1>3. \A i \in 1 .. Len(inbox) : inbox[i] \in Batch
  BY DEF Types
<1>4. \A i \in 1 .. Len(inbox) : inbox[i].line \in Line
  BY <1>3 DEF Batch
<1>5. \A i \in 1 .. Len(shown) + Len(inbox) : Trail[i] \in Line
  BY <1>1, <1>2, <1>4 DEF Trail
<1>6. Trail \in Seq(Line)
  BY <1>1, <1>5 DEF Trail
<1>7. DOMAIN Trail = 1 .. Len(shown) + Len(inbox)
  BY DEF Trail
<1>8. Len(Trail) = Len(shown) + Len(inbox)
  BY <1>1, <1>6, <1>7
<1>9. \A i \in 1 .. Len(shown) : Trail[i] = shown[i]
  BY <1>1 DEF Trail
<1>10. \A i \in 1 .. Len(inbox) :
         Trail[Len(shown) + i] = IF inbox[i].gen = gen THEN inbox[i].line ELSE NoLine
  BY <1>1 DEF Trail
<1> QED
  BY <1>6, <1>7, <1>8, <1>9, <1>10

\* A place of the trail is of a run only when a line of it is there.
LEMMA OfIs ==
  ASSUME NEW T \in Seq(Line), NEW i \in DOMAIN T, NEW r \in Runs, Of(T, i, r)
  PROVE  T[i] # NoLine /\ T[i] \in Lines(T) /\ RunOf(T[i]) = r /\ T[i] \in Line
<1>1. T[i] \in Line /\ r \in Nat \X Nat /\ r[1] > 0
  BY RunsAre
<1>2. T[i] # NoLine
  BY <1>1 DEF Of, NoLine
<1> QED
  BY <1>1, <1>2 DEF Of, Lines, RunOf

\* What appending a line does to a trail.
LEMMA Appended ==
  ASSUME NEW T \in Seq(Line), NEW l \in Line, l # NoLine, NEW U, U = Append(T, l)
  PROVE  /\ U \in Seq(Line) /\ Len(T) \in Nat /\ DOMAIN T = 1 .. Len(T)
         /\ DOMAIN U = 1 .. Len(T) + 1 /\ DOMAIN T \subseteq DOMAIN U
         /\ \A i \in DOMAIN T : U[i] = T[i]
         /\ U[Len(T) + 1] = l /\ Lines(U) = Lines(T) \cup {l}
<1>1. /\ U \in Seq(Line) /\ Len(T) \in Nat /\ DOMAIN T = 1 .. Len(T)
      /\ DOMAIN U = 1 .. Len(T) + 1 /\ DOMAIN T \subseteq DOMAIN U
      /\ \A i \in DOMAIN T : U[i] = T[i]
      /\ U[Len(T) + 1] = l
  OBVIOUS
<1>2. Len(T) + 1 \in DOMAIN U /\ \A i \in DOMAIN U : i \in DOMAIN T \/ i = Len(T) + 1
  BY <1>1
<1>3. Lines(U) = Lines(T) \cup {l}
  <2>1. ASSUME NEW x \in Lines(U) PROVE x \in Lines(T) \cup {l}
    BY <1>1, <1>2, <2>1 DEF Lines
  <2>2. ASSUME NEW x \in Lines(T) PROVE x \in Lines(U)
    BY <1>1, <2>2 DEF Lines
  <2>3. l \in Lines(U)
    BY <1>1, <1>2 DEF Lines
  <2> QED
    BY <2>1, <2>2, <2>3
<1> QED
  BY <1>1, <1>3

\* A tail that starts in the middle of a time stamp goes on doing so.
LEMMA StaysSplit ==
  ASSUME NEW T \in Seq(Line), NEW l \in Line, l # NoLine, NEW U, U = Append(T, l),
         NEW r \in Runs, TailSplits(T, r)
  PROVE  TailSplits(U, r)
<1>1. PICK f \in DOMAIN T :
        /\ Of(T, f, r) /\ \A k \in 1 .. f - 1 : ~Of(T, k, r)
        /\ T[f].n > 1 /\ written[r][T[f].n - 1] = written[r][T[f].n]
  BY DEF TailSplits
<1>2. /\ f \in DOMAIN U /\ U[f] = T[f]
      /\ \A k \in 1 .. f - 1 : k \in DOMAIN T /\ U[k] = T[k]
  BY Appended
<1>3. Of(U, f, r) /\ \A k \in 1 .. f - 1 : ~Of(U, k, r)
  BY <1>1, <1>2 DEF Of
<1> QED
  BY <1>1, <1>2, <1>3 DEF TailSplits

\* A line that is the first of its run, and not in the middle of a time stamp.
LEMMA FirstOfRun ==
  ASSUME NEW T \in Seq(Line), NEW l \in Line, l # NoLine, NEW U, U = Append(T, l),
         \A i \in DOMAIN T : ~Of(T, i, RunOf(l)), ~TailSplits(U, RunOf(l))
  PROVE  l.n > 1 => written[RunOf(l)][l.n - 1] # written[RunOf(l)][l.n]
<1> DEFINE p == Len(T) + 1
<1>1. /\ p \in DOMAIN U /\ U[p] = l
      /\ \A k \in 1 .. p - 1 : k \in DOMAIN T /\ U[k] = T[k]
  BY Appended
<1>2. Of(U, p, RunOf(l)) /\ \A k \in 1 .. p - 1 : ~Of(U, k, RunOf(l))
  BY <1>1 DEF Of, RunOf
<1> QED
  BY <1>1, <1>2 DEF TailSplits

\* A line sent keeps the lines of the runs in turn when it comes after the last one
\* of its own.
LEMMA StaysInTurn ==
  ASSUME NEW T \in Seq(Line), NEW l \in Line, l # NoLine, NEW U, U = Append(T, l),
         NEW r \in Runs, Consecutive(T, r),
         RunOf(l) = r => \A p \in DOMAIN T : Of(T, p, r) /\ LastIn(T, p) => l.n = T[p].n + 1
  PROVE  Consecutive(U, r)
<1> SUFFICES ASSUME NEW i \in DOMAIN U, NEW j \in DOMAIN U, i < j, Of(U, i, r), Of(U, j, r),
                    \A k \in i + 1 .. j - 1 : ~Of(U, k, r)
             PROVE  U[j].n = U[i].n + 1
  BY DEF Consecutive
<1>1. /\ Len(T) \in Nat /\ DOMAIN T = 1 .. Len(T) /\ DOMAIN U = 1 .. Len(T) + 1
      /\ \A k \in DOMAIN T : U[k] = T[k]
      /\ U[Len(T) + 1] = l
  BY Appended
<1>2. i \in DOMAIN T /\ U[i] = T[i] /\ Of(T, i, r)
  BY <1>1 DEF Of
<1>3. CASE j \in DOMAIN T
  <2>1. U[j] = T[j] /\ Of(T, j, r) /\ \A k \in i + 1 .. j - 1 : ~Of(T, k, r)
    BY <1>1, <1>3 DEF Of
  <2> QED
    BY <1>2, <1>3, <2>1 DEF Consecutive
<1>4. CASE j = Len(T) + 1
  <2>1. U[j] = l /\ RunOf(l) = r
    BY <1>1, <1>4 DEF Of, RunOf
  <2>2. \A k \in DOMAIN T : k > i => ~Of(T, k, r)
    BY <1>1, <1>4 DEF Of
  <2>3. LastIn(T, i)
    BY <1>2, <2>2 DEF LastIn, Of, RunOf
  <2> QED
    BY <1>2, <2>1, <2>3
<1> QED
  BY <1>1, <1>3, <1>4

\* What is left when the trail is cut is as much in turn as the trail.
LEMMA CutInTurn ==
  ASSUME NEW T \in Seq(Line), NEW U \in Seq(Line), NEW n \in Nat, n <= Len(T), n <= Len(U),
         \A i \in 1 .. n : U[i] = T[i],
         \A i \in DOMAIN U : i > n => U[i] = NoLine,
         NEW r \in Runs, TailSplits(T, r) \/ Consecutive(T, r)
  PROVE  TailSplits(U, r) \/ Consecutive(U, r)
<1>1. /\ Len(T) \in Nat /\ Len(U) \in Nat /\ DOMAIN T = 1 .. Len(T) /\ DOMAIN U = 1 .. Len(U)
      /\ \A i \in 1 .. n : i \in DOMAIN T /\ i \in DOMAIN U
  OBVIOUS
<1>2. \A i \in DOMAIN U : Of(U, i, r) => i \in 1 .. n /\ Of(T, i, r)
  <2> SUFFICES ASSUME NEW i \in DOMAIN U, Of(U, i, r) PROVE i \in 1 .. n /\ Of(T, i, r)
    OBVIOUS
  <2>1. U[i] # NoLine
    BY OfIs
  <2>2. i \in 1 .. n
    BY <1>1, <2>1
  <2> QED
    BY <2>2 DEF Of
<1>3. \A i \in 1 .. n : ~Of(U, i, r) => ~Of(T, i, r)
  BY DEF Of
<1>4. CASE TailSplits(T, r)
  <2>1. PICK f \in DOMAIN T :
          /\ Of(T, f, r) /\ \A k \in 1 .. f - 1 : ~Of(T, k, r)
          /\ T[f].n > 1 /\ written[r][T[f].n - 1] = written[r][T[f].n]
    BY <1>4 DEF TailSplits
  <2>2. CASE f <= n
    <3>1. f \in DOMAIN U /\ U[f] = T[f] /\ Of(U, f, r)
      BY <1>1, <2>1, <2>2 DEF Of
    <3>2. \A k \in 1 .. f - 1 : ~Of(U, k, r)
      BY <1>1, <1>2, <2>1, <2>2
    <3> QED
      BY <2>1, <3>1, <3>2 DEF TailSplits
  <2>3. CASE f > n
    <3>1. \A i \in DOMAIN U : ~Of(U, i, r)
      BY <1>1, <1>2, <2>1, <2>3
    <3> QED
      BY <3>1 DEF Consecutive
  <2> QED
    BY <1>1, <2>2, <2>3
<1>5. CASE Consecutive(T, r)
  <2> SUFFICES ASSUME NEW i \in DOMAIN U, NEW j \in DOMAIN U, i < j, Of(U, i, r), Of(U, j, r),
                      \A k \in i + 1 .. j - 1 : ~Of(U, k, r)
               PROVE  U[j].n = U[i].n + 1
    BY DEF Consecutive
  <2>1. i \in 1 .. n /\ j \in 1 .. n /\ Of(T, i, r) /\ Of(T, j, r)
    BY <1>2
  <2>2. \A k \in i + 1 .. j - 1 : k \in 1 .. n
    BY <2>1
  <2>3. \A k \in i + 1 .. j - 1 : ~Of(T, k, r)
    BY <1>3, <2>2
  <2> QED
    BY <1>1, <1>5, <2>1, <2>3 DEF Consecutive
<1> QED
  BY <1>4, <1>5

-----------------------------------------------------------------------------
(* A batch of an earlier generation handled: the trail closes up.          *)

Skip(d, i) == IF i < d THEN i ELSE i + 1
ClosesUp(T, U, d) ==
  /\ d \in DOMAIN T /\ T[d] = NoLine /\ Len(T) = Len(U) + 1
  /\ \A i \in DOMAIN U : U[i] = T[Skip(d, i)]

\* Every line of the longer trail has its place in the shorter one, in the same order.
LEMMA Closing ==
  ASSUME NEW T \in Seq(Line), NEW U \in Seq(Line), NEW d, ClosesUp(T, U, d)
  PROVE  /\ \A i \in DOMAIN U : Skip(d, i) \in DOMAIN T /\ U[i] = T[Skip(d, i)]
         /\ \A i, j \in DOMAIN U : i < j <=> Skip(d, i) < Skip(d, j)
         /\ \A k \in DOMAIN T : T[k] # NoLine => \E i \in DOMAIN U : k = Skip(d, i)
         /\ Lines(U) = Lines(T)
<1>1. /\ Len(T) \in Nat /\ Len(U) \in Nat /\ DOMAIN T = 1 .. Len(T) /\ DOMAIN U = 1 .. Len(U)
      /\ d \in 1 .. Len(T) /\ Len(T) = Len(U) + 1
  BY DEF ClosesUp
<1>2. \A i \in DOMAIN U : Skip(d, i) \in DOMAIN T /\ U[i] = T[Skip(d, i)]
  BY <1>1 DEF ClosesUp, Skip
<1>3. \A i, j \in DOMAIN U : i < j <=> Skip(d, i) < Skip(d, j)
  BY <1>1 DEF Skip
<1>4. ASSUME NEW k \in DOMAIN T, T[k] # NoLine PROVE \E i \in DOMAIN U : k = Skip(d, i)
  <2>1. k # d
    BY <1>4 DEF ClosesUp
  <2>2. CASE k < d
    BY <1>1, <2>2 DEF Skip
  <2>3. CASE k > d
    <3>1. k - 1 \in DOMAIN U /\ k = Skip(d, k - 1)
      BY <1>1, <2>3 DEF Skip
    <3> QED
      BY <3>1
  <2> QED
    BY <1>1, <2>1, <2>2, <2>3
<1>5. Lines(U) = Lines(T)
  BY <1>2, <1>4 DEF Lines
<1> QED
  BY <1>2, <1>3, <1>4, <1>5

\* The lines of a run stay as they were, and so does the last of them.
LEMMA ClosedUp ==
  ASSUME NEW T \in Seq(Line), NEW U \in Seq(Line), NEW d, ClosesUp(T, U, d), NEW r \in Runs
  PROVE  /\ TailSplits(T, r) <=> TailSplits(U, r)
         /\ Consecutive(T, r) => Consecutive(U, r)
         /\ \A i \in DOMAIN U : RunOf(U[i]) = r =>
              (LastIn(U, i) <=> LastIn(T, Skip(d, i)))
<1> DEFINE f(i) == Skip(d, i)
<1>1. /\ \A i \in DOMAIN U : f(i) \in DOMAIN T /\ U[i] = T[f(i)]
      /\ \A i, j \in DOMAIN U : i < j <=> f(i) < f(j)
      /\ \A k \in DOMAIN T : T[k] # NoLine => \E i \in DOMAIN U : k = f(i)
  BY Closing
<1>2. /\ DOMAIN T = 1 .. Len(T) /\ Len(T) \in Nat /\ DOMAIN U = 1 .. Len(U) /\ Len(U) \in Nat
  OBVIOUS
<1>3. \A i \in DOMAIN U : Of(U, i, r) <=> Of(T, f(i), r)
  BY <1>1 DEF Of
<1>4. \A k \in DOMAIN T : Of(T, k, r) => \E i \in DOMAIN U : k = f(i) /\ Of(U, i, r)
  BY <1>1, <1>3, OfIs
<1> HIDE DEF f
<1>5. TailSplits(T, r) => TailSplits(U, r)
  <2> SUFFICES ASSUME TailSplits(T, r) PROVE TailSplits(U, r)
    OBVIOUS
  <2>1. PICK k \in DOMAIN T :
          /\ Of(T, k, r) /\ \A j \in 1 .. k - 1 : ~Of(T, j, r)
          /\ T[k].n > 1 /\ written[r][T[k].n - 1] = written[r][T[k].n]
    BY DEF TailSplits
  <2>2. PICK i \in DOMAIN U : k = f(i) /\ Of(U, i, r)
    BY <1>4, <2>1
  <2>3. ASSUME NEW j \in 1 .. i - 1 PROVE ~Of(U, j, r)
    <3>1. j \in DOMAIN U /\ j < i
      BY <1>2, <2>2
    <3>2. f(j) \in 1 .. k - 1
      BY <1>1, <1>2, <2>2, <3>1
    <3> QED
      BY <1>3, <2>1, <3>1, <3>2
  <2> QED
    BY <1>1, <2>1, <2>2, <2>3 DEF TailSplits
<1>6. TailSplits(U, r) => TailSplits(T, r)
  <2> SUFFICES ASSUME TailSplits(U, r) PROVE TailSplits(T, r)
    OBVIOUS
  <2>1. PICK i \in DOMAIN U :
          /\ Of(U, i, r) /\ \A j \in 1 .. i - 1 : ~Of(U, j, r)
          /\ U[i].n > 1 /\ written[r][U[i].n - 1] = written[r][U[i].n]
    BY DEF TailSplits
  <2>2. f(i) \in DOMAIN T /\ Of(T, f(i), r) /\ T[f(i)] = U[i]
    BY <1>1, <1>3, <2>1
  <2>3. ASSUME NEW j \in 1 .. f(i) - 1, Of(T, j, r) PROVE FALSE
    <3>1. j \in DOMAIN T
      BY <1>2, <2>2
    <3>2. PICK e \in DOMAIN U : j = f(e) /\ Of(U, e, r)
      BY <1>4, <2>3, <3>1
    <3>3. e < i
      BY <1>1, <1>2, <2>2, <3>2
    <3> QED
      BY <1>2, <2>1, <3>2, <3>3
  <2> QED
    BY <2>1, <2>2, <2>3 DEF TailSplits
<1>7. Consecutive(T, r) => Consecutive(U, r)
  <2> SUFFICES ASSUME Consecutive(T, r),
                      NEW i \in DOMAIN U, NEW j \in DOMAIN U, i < j, Of(U, i, r), Of(U, j, r),
                      \A k \in i + 1 .. j - 1 : ~Of(U, k, r)
               PROVE  U[j].n = U[i].n + 1
    BY DEF Consecutive
  <2>1. f(i) \in DOMAIN T /\ f(j) \in DOMAIN T /\ f(i) < f(j) /\ Of(T, f(i), r) /\ Of(T, f(j), r)
    BY <1>1, <1>3
  <2>2. ASSUME NEW k \in f(i) + 1 .. f(j) - 1, Of(T, k, r) PROVE FALSE
    <3>1. k \in DOMAIN T
      BY <1>2, <2>1
    <3>2. PICK e \in DOMAIN U : k = f(e) /\ Of(U, e, r)
      BY <1>4, <2>2, <3>1
    <3>3. f(i) < f(e) /\ f(e) < f(j)
      BY <1>2, <2>1, <3>2
    <3>4. i < e /\ e < j
      BY <1>1, <3>2, <3>3
    <3> QED
      BY <1>2, <3>2, <3>4
  <2>3. T[f(j)].n = T[f(i)].n + 1
    BY <2>1, <2>2 DEF Consecutive
  <2> QED
    BY <1>1, <2>3
<1>8. ASSUME NEW i \in DOMAIN U, RunOf(U[i]) = r PROVE LastIn(U, i) <=> LastIn(T, f(i))
  <2>1. f(i) \in DOMAIN T /\ RunOf(T[f(i)]) = r
    BY <1>1, <1>8
  <2>2. ASSUME LastIn(U, i), NEW q \in DOMAIN T, q > f(i), Of(T, q, r) PROVE FALSE
    <3>1. PICK e \in DOMAIN U : q = f(e) /\ Of(U, e, r)
      BY <1>4, <2>2
    <3>2. e > i
      BY <1>1, <1>2, <2>2, <3>1
    <3> QED
      BY <1>8, <2>2, <3>1, <3>2 DEF LastIn
  <2>3. ASSUME LastIn(T, f(i)), NEW q \in DOMAIN U, q > i, Of(U, q, r) PROVE FALSE
    <3>1. f(q) \in DOMAIN T /\ f(q) > f(i) /\ Of(T, f(q), r)
      BY <1>1, <1>2, <1>3, <2>3
    <3> QED
      BY <2>1, <2>3, <3>1 DEF LastIn
  <2> QED
    BY <1>8, <2>1, <2>2, <2>3 DEF LastIn
<1> QED
  BY <1>5, <1>6, <1>7, <1>8 DEF f

\* So the stream knows as much of the shorter trail as it did of the longer one.
LEMMA KnowsClosedUp ==
  ASSUME NEW T \in Seq(Line), NEW U \in Seq(Line), NEW d, ClosesUp(T, U, d),
         Sent(T), InTurn(T), NEW k \in Tasks, StreamInv(k, T)
  PROVE  Sent(U) /\ InTurn(U) /\ StreamInv(k, U)
<1>1. /\ \A i \in DOMAIN U : Skip(d, i) \in DOMAIN T /\ U[i] = T[Skip(d, i)]
      /\ \A p \in DOMAIN T : T[p] # NoLine => \E i \in DOMAIN U : p = Skip(d, i)
      /\ Lines(U) = Lines(T)
  BY Closing
<1>2. \A r \in Runs :
        /\ TailSplits(T, r) <=> TailSplits(U, r)
        /\ Consecutive(T, r) => Consecutive(U, r)
        /\ \A i \in DOMAIN U : RunOf(U[i]) = r => (LastIn(U, i) <=> LastIn(T, Skip(d, i)))
  BY ClosedUp
<1>3. Sent(U)
  BY <1>1 DEF Sent
<1>4. InTurn(U)
  BY <1>2 DEF InTurn
<1>5. \A i \in DOMAIN T : T[i] # NoLine => T[i] \in Lines(T) /\ RunOf(T[i]) \in Runs
  BY DEF Sent, Lines
<1>6. Knows(k, T) => Knows(k, U)
  <2> SUFFICES ASSUME Knows(k, T) PROVE Knows(k, U)
    OBVIOUS
  <2>1. UidInv(k, U)
    BY <1>1 DEF Knows, UidInv
  <2>2. CASE k.resume.last = None
    BY <1>1, <2>1, <2>2 DEF Knows, Fresh
  <2>3. CASE k.resume.last # None
    <3>1. PICK p \in DOMAIN T : Anchor(k, T, p)
      BY <2>3 DEF Knows
    <3>2. T[p] # NoLine /\ RunOf(T[p]) \in Runs
      BY <1>5, <3>1 DEF Anchor
    <3>3. PICK i \in DOMAIN U : p = Skip(d, i)
      BY <1>1, <3>2
    <3>4. U[i] = T[p] /\ (LastIn(U, i) <=> LastIn(T, p))
      BY <1>1, <1>2, <3>2, <3>3
    <3>5. Anchor(k, U, i)
      BY <1>1, <1>2, <3>1, <3>2, <3>4 DEF Anchor
    <3> QED
      BY <2>1, <2>3, <3>5 DEF Knows
  <2> QED
    BY <2>2, <2>3
<1>7. ConnInv(k, T) => ConnInv(k, U)
  BY <1>1 DEF ConnInv
<1>8. ConnInv(k, T) /\ Reads(k, T) => Reads(k, U)
  <2> SUFFICES ASSUME ConnInv(k, T), Reads(k, T), NEW i \in DOMAIN U, Latest(k, U, i)
               PROVE  Latest(k, T, Skip(d, i))
    BY <1>1 DEF Reads
  <2>1. Skip(d, i) \in DOMAIN T /\ U[i] = T[Skip(d, i)] /\ Conn(k) \in Runs
    BY <1>1 DEF ConnInv
  <2> QED
    BY <1>2, <2>1 DEF Latest
<1> QED
  BY <1>3, <1>4, <1>6, <1>7, <1>8 DEF StreamInv

-----------------------------------------------------------------------------
(* Steps of the stream that send nothing.                                  *)

\* A time stamp is of its second, and a second is a time.
LEMMA SecondIs == ASSUME NEW t \in Nat PROVE Second(t) \in Nat /\ Second(t) <= t
  BY DEF Second

\* A line sent is of no pod after the one that has the name.
LEMMA SentIsPast ==
  ASSUME Types, TimesInv, NEW T \in Seq(Line), Sent(T), NEW l \in Lines(T)
  PROVE  RunOf(l) \in Runs /\ ~Before(Cur, RunOf(l)) /\ l.uid <= Cur[1] /\ l.uid \in Nat
<1>1. RunOf(l) \in Runs /\ l.n \in DOMAIN written[RunOf(l)]
  BY DEF Sent
<1>2. written[RunOf(l)] # <<>>
  BY <1>1
<1>3. ~Before(Cur, RunOf(l))
  BY <1>1, <1>2 DEF TimesInv
<1>4. l \in Line /\ Cur \in Nat \X Nat
  BY CurIs DEF Lines
<1> QED
  BY <1>1, <1>3, <1>4 DEF Before, RunOf, Line

\* An end leaves nothing to remember.
LEMMA Ends ==
  ASSUME NEW k \in Tasks, NEW T, StreamInv(k, T), NEW w,
         w \in {"gone", "replaced", "finished", "refused"},
         NEW m, m = [k EXCEPT !.pc = "done", !.ended = w, !.conn = NoConn]
  PROVE  m \in Tasks /\ StreamInv(m, T)
<1>1. m \in Tasks
  BY DEF Tasks, NoConn, Connection
<1>2. m.pc = "done" /\ m.gen = k.gen /\ m.uid = k.uid /\ m.first = k.first
  BY DEF Tasks
<1> QED
  BY <1>1, <1>2 DEF StreamInv

\* Moving on to another step, from one where nothing is being read.
LEMMA Moves ==
  ASSUME NEW k \in Tasks, NEW T, StreamInv(k, T), k.pc # "done", NEW pc,
         pc \in {"check", "open", "after"}, pc = "after" \/ k.pc \in {"check", "open"},
         NEW m, \/ m = [k EXCEPT !.pc = pc] \/ m = [k EXCEPT !.pc = pc, !.conn = NoConn]
  PROVE  m \in Tasks /\ StreamInv(m, T)
<1>1. m \in Tasks
  <2>1. CASE m = [k EXCEPT !.pc = pc]
    BY <2>1 DEF Tasks
  <2>2. CASE m = [k EXCEPT !.pc = pc, !.conn = NoConn]
    BY <2>2 DEF Tasks, NoConn, Connection
  <2> QED
    BY <2>1, <2>2
<1>2. /\ m.pc = pc /\ m.gen = k.gen /\ m.uid = k.uid /\ m.first = k.first
      /\ m.resume = k.resume /\ m.tail = k.tail /\ m.since = k.since
  BY DEF Tasks
<1>3. Knows(m, T)
  BY <1>2 DEF StreamInv, Knows, UidInv, Fresh, Earlier, Anchor, Counted
<1>4. pc # "after" => Rested(m)
  BY <1>2 DEF StreamInv, Rested
<1> QED
  BY <1>1, <1>2, <1>3, <1>4 DEF StreamInv

\* The stream learns who has the name: what it knows stays true when it knew nobody.
LEMMA Learns ==
  ASSUME Types, TimesInv, NEW T \in Seq(Line), Sent(T), pod.uid # None,
         NEW k \in Tasks, StreamInv(k, T), k.pc \in {"check", "open", "after"},
         k.uid \in {None, pod.uid}, NEW m, m = [k EXCEPT !.uid = pod.uid]
  PROVE  m \in Tasks /\ StreamInv(m, T) /\ m.pc = k.pc
<1>1. m \in Tasks
  BY PodIs DEF Tasks
<1>2. /\ m.pc = k.pc /\ m.gen = k.gen /\ m.uid = pod.uid /\ m.first = k.first
      /\ m.resume = k.resume /\ m.tail = k.tail /\ m.since = k.since
  BY DEF Tasks
<1>3. UidInv(m, T)
  BY <1>2, SentIsPast DEF UidInv, Cur
<1>4. \A l \in Lines(T) : Earlier(k, l) => Earlier(m, l)
  BY <1>2 DEF Earlier
<1>5. Knows(m, T)
  <2>1. CASE k.resume.last = None
    BY <1>2, <1>3, <1>4, <2>1 DEF StreamInv, Knows, Fresh
  <2>2. CASE k.resume.last # None
    <3>1. PICK p \in DOMAIN T : Anchor(k, T, p)
      BY <2>2 DEF StreamInv, Knows
    <3>2. Anchor(m, T, p)
      BY <1>2, <1>4, <3>1 DEF Anchor, Counted
    <3> QED
      BY <1>2, <1>3, <2>2, <3>2 DEF Knows
  <2> QED
    BY <2>1, <2>2
<1>6. m.pc \in {"check", "open"} => Rested(m)
  BY <1>2 DEF StreamInv, Rested
<1> QED
  BY <1>1, <1>2, <1>5, <1>6, PodIs DEF StreamInv, Cur, Tasks

\* A pod in place of the one it followed: all it sent is of pods before that one.
LEMMA Recreates ==
  ASSUME Types, NEW T \in Seq(Line), Sent(T), pod.uid # None,
         NEW k \in Tasks, StreamInv(k, T), k.pc \in {"check", "open", "after"},
         k.uid # None, k.uid # pod.uid
  PROVE  Recreated(k) \in Tasks /\ StreamInv(Recreated(k), T) /\ Recreated(k).pc = k.pc
<1> DEFINE m == Recreated(k)
<1>1. m \in Tasks
  BY PodIs DEF Recreated, Tasks, NewResume, Resumes
<1>2. /\ m.pc = k.pc /\ m.gen = k.gen /\ m.uid = pod.uid /\ m.first = k.first
      /\ m.resume = NewResume
  BY DEF Recreated, Tasks
<1>3. k.uid < pod.uid
  BY PodIs DEF StreamInv, Cur, Tasks
<1>4. \A l \in Lines(T) : l.uid \notin raced => l.uid \in Nat /\ l.uid <= k.uid
  <2>1. \A l \in Lines(T) : l \in Line
    BY DEF Lines
  <2> QED
    BY <2>1 DEF StreamInv, Knows, UidInv, Line
<1>5. \A l \in Lines(T) : l.uid \notin raced => Earlier(m, l) /\ l.uid <= m.uid
  BY <1>2, <1>3, <1>4, PodIs DEF Earlier, Tasks
<1>6. Fresh(m, T) /\ UidInv(m, T) /\ m.resume.last = None
  BY <1>2, <1>5 DEF Fresh, UidInv, NewResume
<1>7. Rested(m)
  BY <1>6 DEF Rested
<1> HIDE DEF m
<1> QED
  BY <1>1, <1>2, <1>6, <1>7, PodIs DEF StreamInv, Knows, Cur, m, Tasks

\* identity and stream_end keep what the stream knows.
LEMMA Identifies ==
  ASSUME Types, TimesInv, NEW T \in Seq(Line), Sent(T), StreamInv(task, T),
         task.pc \in {"check", "open", "after"}, NEW k, k = Identity \/ k = StreamEnd
  PROVE  k \in Tasks /\ StreamInv(k, T) /\ (k.pc = task.pc \/ k.pc = "done")
<1>0. task \in Tasks
  BY DEF Types
<1>1. ASSUME NEW m, m = Identity
      PROVE  m \in Tasks /\ StreamInv(m, T) /\ (m.pc = task.pc \/ m.pc = "done")
  <2>1. CASE m = End("gone") \/ m = End("replaced")
    BY <1>0, <2>1, Ends DEF End, Tasks
  <2>2. CASE pod.uid # None /\ task.uid # None /\ task.uid # pod.uid /\ m = Recreated(task)
    BY <1>0, <2>2, Recreates
  <2>3. CASE /\ pod.uid # None /\ task.uid \in {None, pod.uid}
             /\ m = [task EXCEPT !.uid = pod.uid]
    BY <1>0, <2>3, Learns
  <2> QED
    BY <1>1, <2>1, <2>2, <2>3 DEF Identity
<1>2. CASE k = End("finished")
  BY <1>0, <1>2, Ends DEF End, Tasks
<1>3. CASE k = Identity
  BY <1>1, <1>3
<1> QED
  BY <1>2, <1>3 DEF StreamEnd

\* The next request continues from the last line, when there is one.
LEMMA Rewinds ==
  ASSUME NEW T, NEW k \in Tasks, StreamInv(k, T), k.pc \in {"after", "done"}
  PROVE  Rewind(k) \in Tasks /\ StreamInv(Rewind(k), T)
<1>1. CASE k.pc = "done"
  BY <1>1 DEF Rewind
<1>2. CASE k.pc = "after"
  <2> DEFINE m == Rewind(k)
  <2>1. k.resume.last \in Nat /\ Second(k.resume.last) \in Nat
    BY SecondIs DEF Tasks, Resumes
  <2>2. /\ m = [k EXCEPT !.pc = "check",
                  !.resume = [k.resume EXCEPT !.replaying = TRUE, !.skip = k.resume.at],
                  !.tail = IF k.resume.last = None THEN k.tail ELSE FALSE,
                  !.since = IF k.resume.last = None THEN k.since ELSE Second(k.resume.last)]
    BY <1>2 DEF Rewind
  <2> HIDE DEF m
  <2>3. m \in Tasks
    BY <2>1, <2>2 DEF Tasks, Resumes
  <2>4. /\ m.pc = "check" /\ m.gen = k.gen /\ m.uid = k.uid /\ m.first = k.first
        /\ m.resume.last = k.resume.last /\ m.resume.at = k.resume.at
        /\ m.resume.skip = k.resume.at /\ m.resume.replaying
        /\ k.resume.last # None => ~m.tail /\ m.since = Second(k.resume.last)
    BY <2>2 DEF Tasks, Resumes
  <2>5. Knows(m, T)
    BY <1>2, <2>4 DEF StreamInv, Knows, UidInv, Fresh, Earlier, Anchor, Counted
  <2>6. Rested(m)
    BY <2>4 DEF Rested
  <2> QED
    BY <2>3, <2>4, <2>5, <2>6 DEF StreamInv, m
<1> QED
  BY <1>1, <1>2

-----------------------------------------------------------------------------
(* Opening a connection.                                                   *)

\* A request starts at a line, and one from a second at none after the lines since.
LEMMA FirstLineIs ==
  ASSUME NEW k \in Tasks, NEW log \in Seq(Nat)
  PROVE  /\ FirstLine(k, log) \in Nat /\ FirstLine(k, log) > 0
         /\ \A a \in DOMAIN log :
              ~k.tail /\ (\A i \in DOMAIN log : a <= i => k.since <= log[i])
                => FirstLine(k, log) <= a
<1> DEFINE older == {i \in DOMAIN log : log[i] < k.since}
<1>1. Len(log) \in Nat /\ DOMAIN log = 1 .. Len(log) /\ k.since \in Nat
  BY DEF Tasks
<1>2. IsFiniteSet(older) /\ Cardinality(older) \in Nat
  <2>1. older \subseteq 1 .. Len(log) /\ IsFiniteSet(1 .. Len(log))
    BY <1>1, FS_Interval
  <2> QED
    BY <2>1, FS_Subset, FS_CardinalityType
<1>3. FirstLine(k, log) \in Nat /\ FirstLine(k, log) > 0
  BY <1>1, <1>2, LogFollowAssumption DEF FirstLine, LogFollowAssumption
<1>4. ASSUME NEW a \in DOMAIN log, ~k.tail, \A i \in DOMAIN log : a <= i => k.since <= log[i]
      PROVE  FirstLine(k, log) <= a
  <2>1. \A i \in DOMAIN log : log[i] \in Nat
    OBVIOUS
  <2>2. older \subseteq 1 .. (a - 1)
    <3>1. a \in Nat
      BY <1>1
    <3>2. ASSUME NEW i \in DOMAIN log, log[i] < k.since PROVE i \in 1 .. (a - 1)
      <4>1. i \in Nat /\ 1 <= i /\ log[i] \in Nat
        BY <1>1, <2>1
      <4>2. ~(a <= i)
        BY <1>1, <1>4, <3>2, <4>1
      <4> QED
        BY ONLY <3>1, <4>1, <4>2
    <3> QED
      BY <3>2
  <2>3. IsFiniteSet(1 .. (a - 1)) /\ Cardinality(1 .. (a - 1)) = a - 1
    <3>1. 1 \in Int /\ a - 1 \in Int /\ a - 1 >= 0
      BY <1>1
    <3>2. /\ IsFiniteSet(1 .. (a - 1))
          /\ Cardinality(1 .. (a - 1)) = IF 1 > a - 1 THEN 0 ELSE (a - 1) - 1 + 1
      BY ONLY <3>1, FS_Interval
    <3> QED
      BY <3>1, <3>2
  <2>4. Cardinality(older) <= a - 1
    BY <2>2, <2>3, FS_Subset
  <2> QED
    BY <1>1, <1>2, <1>4, <2>4 DEF FirstLine
<1> QED
  BY <1>3, <1>4

\* The trail is of the batches and the view alone.
LEMMA TrailStays == UNCHANGED <<inbox, gen, shown>> => Trail' = Trail
  BY DEF Trail

\* A line in the trail was sent.
LEMMA InTrail ==
  ASSUME NEW T \in Seq(Line), Sent(T), NEW p \in DOMAIN T, T[p] # NoLine
  PROVE  /\ T[p] \in Lines(T) /\ T[p] \in Line /\ RunOf(T[p]) \in Runs
         /\ Of(T, p, RunOf(T[p])) /\ T[p].n \in DOMAIN written[RunOf(T[p])]
  BY DEF Lines, Sent, Of, RunOf

\* The anchor when the stream has sent lines of its connection's run, and nothing is
\* wrong with those: it is the last one.
LEMMA Anchored ==
  ASSUME NEW T \in Seq(Line), Sent(T), NEW k \in Tasks, Knows(k, T),
         NEW r \in Runs, r[1] \notin raced, k.uid = None \/ r[1] = k.uid,
         \A l \in Lines(T) : ~Before(r, RunOf(l)),
         NEW i \in DOMAIN T, Of(T, i, r), ~TailSplits(T, r)
  PROVE  /\ k.resume.last # None
         /\ \E p \in DOMAIN T :
              /\ T[p] # NoLine /\ RunOf(T[p]) = r /\ LastIn(T, p)
              /\ Counted(k, T[p]) /\ written[r][T[p].n] = k.resume.last
<1>1. T[i] \in Lines(T) /\ RunOf(T[i]) = r /\ T[i].uid = r[1] /\ r \in Nat \X Nat
  BY OfIs, RunsAre DEF RunOf
<1>2. ~Earlier(k, T[i])
  BY <1>1 DEF Earlier
<1>3. k.resume.last # None
  BY <1>1, <1>2 DEF Knows, Fresh
<1>4. PICK p \in DOMAIN T : Anchor(k, T, p)
  BY <1>3 DEF Knows
<1>5. T[p] # NoLine /\ T[p] \in Lines(T) /\ RunOf(T[p]) \in Nat \X Nat
  BY <1>4, InTrail, RunsAre DEF Anchor
<1>6. ~Before(RunOf(T[p]), r)
  BY <1>1, <1>2, <1>4 DEF Anchor
<1>7. RunOf(T[p]) = r
  BY <1>1, <1>5, <1>6, Trichotomy
<1>8. T[p].uid \notin raced
  BY <1>7 DEF RunOf
<1> QED
  BY <1>3, <1>4, <1>5, <1>7, <1>8 DEF Anchor

\* The last line of a run is one.
LEMMA OneLast ==
  ASSUME NEW T \in Seq(Line), NEW p \in DOMAIN T, NEW q \in DOMAIN T,
         RunOf(T[p]) = RunOf(T[q]), LastIn(T, p), LastIn(T, q)
  PROVE  p = q
<1>1. Of(T, p, RunOf(T[q])) /\ Of(T, q, RunOf(T[p]))
  BY DEF Of, RunOf
<1>2. p \in Int /\ q \in Int /\ ~(p > q) /\ ~(q > p)
  BY <1>1 DEF LastIn
<1> QED
  BY <1>2

\* A connection opened asks for no line of its run it would repeat uncounted.
LEMMA OpensWell ==
  ASSUME Inv, Opened
  PROVE  task' \in Tasks /\ InTurn(Trail)' /\ StreamInv(task, Trail)'
<1> DEFINE T == Trail
           r == <<pod.uid, pod.run>>
           pos == FirstLine(task, Log)
<1>1. /\ T \in Seq(Line) /\ task \in Tasks /\ StreamInv(task, T) /\ Sent(T) /\ InTurn(T)
      /\ Types /\ TimesInv
  BY TrailIs DEF Inv, Types
<1>2. /\ task.pc = "open" /\ pod.uid # None /\ pod.run # 0
      /\ task' = [task EXCEPT !.pc = "pump",
                    !.conn = [uid |-> pod.uid, run |-> pod.run, pos |-> pos]]
      /\ raced' = IF Mistaken THEN raced \cup {pod.uid} ELSE raced
      /\ UNCHANGED <<pod, written, now, inbox, gen, stopped, shown>>
  BY DEF Opened, Task, cluster, view
<1>3. r \in Runs /\ r = Cur /\ r \in Nat \X Nat /\ Log = written[r] /\ Log \in Seq(Nat)
  <2>1. pod.uid \in 1 .. MaxPods /\ pod.run \in 1 .. MaxRuns
    BY <1>1, <1>2, LogFollowAssumption DEF Types, LogFollowAssumption
  <2>2. r \in Runs /\ r = Cur
    BY <1>2, <2>1 DEF Runs, Cur
  <2>3. Log = written[r]
    <3>1. pod.uid # None /\ pod.run # 0
      BY ONLY <1>2
    <3> QED
      BY ONLY <3>1 DEF Log
  <2>4. written \in [Runs -> Seq(Nat)]
    BY <1>1 DEF Types
  <2> QED
    BY <2>2, <2>3, <2>4, RunsAre
<1>4. pos \in Nat /\ pos > 0
  BY <1>1, <1>3, FirstLineIs
<1>5. Trail' = T
  BY <1>2, TrailStays
<1> HIDE DEF T, pos, r
<1>6. task' \in Tasks
  BY <1>1, <1>2, <1>4, PodIs DEF Tasks, Connection
<1>7. /\ task'.pc = "pump" /\ task'.gen = task.gen /\ task'.uid = task.uid
      /\ task'.first = task.first /\ task'.resume = task.resume
      /\ task'.conn = [uid |-> pod.uid, run |-> pod.run, pos |-> pos]
  BY <1>1, <1>2 DEF Tasks
<1>8. Conn(task') = r /\ task'.conn.uid = pod.uid /\ task'.conn.pos = pos
  BY <1>7 DEF Conn, r
<1>9. raced \subseteq raced' /\ (Mistaken => pod.uid \in raced')
  BY <1>2
<1>10. \A c \in Runs : (TailSplits(Trail, c)' <=> TailSplits(T, c))
  BY <1>2, <1>5 DEF TailSplits, Of
<1>11. InTurn(Trail)'
  <2>1. \A c \in Runs : (Consecutive(Trail, c)' <=> Consecutive(T, c))
    BY <1>5 DEF Consecutive, Of
  <2> QED
    BY <1>1, <1>9, <1>10, <2>1 DEF InTurn
<1>12. Knows(task, Trail)'
  <2>0. Knows(task, T)
    BY <1>1, <1>2 DEF StreamInv
  <2>1. UidInv(task, Trail)'
    BY <1>5, <1>7, <1>9, <2>0 DEF Knows, UidInv, Lines
  <2>2. CASE task.resume.last = None
    BY <1>5, <1>7, <1>9, <2>0, <2>1, <2>2 DEF Knows, Fresh, Earlier, Lines
  <2>3. CASE task.resume.last # None
    <3>1. PICK p \in DOMAIN T : Anchor(task, T, p)
      BY <2>0, <2>3 DEF Knows
    <3>2. RunOf(T[p]) \in Runs /\ T[p] # NoLine
      BY <1>1, <3>1, InTrail DEF Anchor
    <3>3. (TailSplits(Trail, RunOf(T[p])))' <=> TailSplits(T, RunOf(T[p]))
      <4>1. RunOf(T[p])' = RunOf(T[p])
        BY <1>5 DEF T
      <4> QED
        BY <1>2, <1>5, <4>1 DEF TailSplits, Of
    <3> QED
      BY <1>2, <1>5, <1>7, <1>9, <1>10, <2>1, <2>3, <3>1, <3>2
      DEF Knows, Anchor, Earlier, Lines, LastIn, Of, Counted, RunOf
  <2> QED
    BY <2>2, <2>3
<1>13. ConnInv(task, Trail)'
  <2>1. ~Before(r, r) /\ \A l \in Lines(T) : ~Before(r, RunOf(l))
    BY <1>1, <1>3, Order, SentIsPast
  <2>2. pod.uid \in raced' \/ task.uid = None \/ pod.uid = task.uid
    BY <1>9 DEF Mistaken
  <2>3. Cur' = r
    BY <1>2, <1>3 DEF Cur
  <2> QED
    BY <1>3, <1>4, <1>5, <1>7, <1>8, <2>1, <2>2, <2>3 DEF ConnInv, Lines, Before, RunOf, Conn
<1>14. ASSUME NEW p \in DOMAIN T, T[p] # NoLine, RunOf(T[p]) = r, LastIn(T, p),
              T[p].uid \notin raced', ~TailSplits(T, r)
       PROVE  /\ task.resume.replaying /\ pos <= T[p].n - task.resume.at + 1
              /\ pos <= T[p].n + 1 /\ task.resume.skip = task.resume.at
  <2>1. T[p] \in Line /\ Of(T, p, r) /\ T[p].uid = pod.uid /\ T[p].uid \notin raced
    BY <1>1, <1>9, <1>14, InTrail DEF RunOf, r
  <2>2. r[1] \notin raced /\ (task.uid = None \/ r[1] = task.uid)
    BY <1>9, <1>14, <2>1 DEF Mistaken, r
  <2>3. \A l \in Lines(T) : ~Before(r, RunOf(l))
    BY <1>1, <1>3, SentIsPast
  <2>4. Knows(task, T) /\ Rested(task)
    BY <1>1, <1>2 DEF StreamInv
  <2>5. /\ task.resume.last # None
        /\ \E q \in DOMAIN T :
             /\ T[q] # NoLine /\ RunOf(T[q]) = r /\ LastIn(T, q)
             /\ Counted(task, T[q]) /\ written[r][T[q].n] = task.resume.last
    BY <1>1, <1>3, <1>14, <2>1, <2>2, <2>3, <2>4, Anchored
  <2>6. Counted(task, T[p])
    BY <1>1, <1>14, <2>5, OneLast
  <2> DEFINE a == T[p].n - task.resume.at + 1
             w == written[r]
  <2>7. T[p].n \in DOMAIN w
    BY <1>1, <1>14, InTrail
  <2>8. /\ task.resume.at \in Nat /\ T[p].n \in Nat /\ task.resume.last \in Nat
        /\ 1 <= task.resume.at /\ task.resume.at <= T[p].n /\ w[a] = task.resume.last
    BY <1>1, <1>14, <2>1, <2>6 DEF Counted, CountedAt, Tasks, Resumes, Line
  <2>9. a \in DOMAIN w /\ w \in Seq(Nat)
    BY <1>3, <2>7, <2>8
  <2>10. \A i \in DOMAIN w : a <= i => w[a] <= w[i]
    BY <1>1, <1>3, <2>9 DEF TimesInv, Ordered
  <2>11. ~task.tail /\ task.since = Second(task.resume.last) /\ task.resume.replaying
         /\ task.resume.skip = task.resume.at
    BY <2>4, <2>5 DEF Rested
  <2>12. task.since \in Nat /\ task.since <= task.resume.last
    BY <2>8, <2>11, SecondIs
  <2>13. \A i \in DOMAIN w : a <= i => task.since <= w[i]
    BY <2>8, <2>9, <2>10, <2>12
  <2>14. pos <= a
    BY <1>1, <1>3, <2>9, <2>11, <2>13, FirstLineIs DEF pos
  <2> QED
    BY <1>4, <2>8, <2>11, <2>14
<1>15. Reads(task, Trail)'
  <2> SUFFICES ASSUME NEW p \in DOMAIN T, Latest(task, Trail, p)'
               PROVE  /\ task'.resume.replaying
                      /\ task'.conn.pos <= T[p].n + 1
                      /\ task'.conn.pos <= T[p].n - task'.resume.at + 1
                      /\ task'.resume.skip = task'.resume.at
    BY <1>5 DEF Reads, Follows, Counts
  <2>1. /\ T[p] # NoLine /\ RunOf(T[p]) = r /\ LastIn(T, p)
        /\ T[p].uid \notin raced' /\ ~TailSplits(T, r)
    <3>1. Conn(task)' = r
      BY <1>8 DEF Conn
    <3>2. TailSplits(Trail, Conn(task))' <=> TailSplits(T, r)
      BY <1>2, <1>5, <3>1 DEF TailSplits, Of
    <3>3. LastIn(Trail, p)' <=> LastIn(T, p)
      BY <1>5 DEF LastIn, Of, RunOf
    <3> QED
      BY <1>5, <3>1, <3>2, <3>3 DEF Latest, RunOf
  <2> QED
    BY <1>7, <1>8, <1>14, <2>1
<1> QED
  BY <1>1, <1>2, <1>6, <1>7, <1>11, <1>12, <1>13, <1>15 DEF StreamInv, Cur

-----------------------------------------------------------------------------
(* Reading a line.                                                         *)

\* Where a connection stands that reads a run it has sent lines of.
LEMMA AtLatest ==
  ASSUME NEW T \in Seq(Line), Sent(T), NEW k \in Tasks, StreamInv(k, T), k.pc = "pump",
         k.conn.uid \notin raced, ~TailSplits(T, Conn(k)),
         NEW i \in DOMAIN T, Of(T, i, Conn(k))
  PROVE  /\ k.resume.last # None
         /\ \E p \in DOMAIN T :
              /\ Latest(k, T, p) /\ Counted(k, T[p]) /\ Follows(k, T[p])
              /\ written[Conn(k)][T[p].n] = k.resume.last
<1>1. ConnInv(k, T) /\ Reads(k, T) /\ Knows(k, T)
  BY DEF StreamInv
<1>2. Conn(k) \in Runs /\ Conn(k)[1] = k.conn.uid
  BY <1>1 DEF ConnInv, Conn
<1>3. k.uid = None \/ Conn(k)[1] = k.uid
  BY <1>1, <1>2 DEF ConnInv
<1>4. \A l \in Lines(T) : ~Before(Conn(k), RunOf(l))
  BY <1>1 DEF ConnInv
<1>5. /\ k.resume.last # None
      /\ \E p \in DOMAIN T :
           /\ T[p] # NoLine /\ RunOf(T[p]) = Conn(k) /\ LastIn(T, p)
           /\ Counted(k, T[p]) /\ written[Conn(k)][T[p].n] = k.resume.last
  BY <1>1, <1>2, <1>3, <1>4, Anchored
<1>6. PICK p \in DOMAIN T :
        /\ T[p] # NoLine /\ RunOf(T[p]) = Conn(k) /\ LastIn(T, p)
        /\ Counted(k, T[p]) /\ written[Conn(k)][T[p].n] = k.resume.last
  BY <1>5
<1>7. T[p].uid = k.conn.uid
  BY <1>6 DEF RunOf, Conn
<1>8. Latest(k, T, p)
  BY <1>6, <1>7 DEF Latest
<1>9. Follows(k, T[p])
  BY <1>1, <1>8 DEF Reads
<1> QED
  BY <1>5, <1>6, <1>8, <1>9

CountsOn(n, at, pos, skip) == Counts(n, at, pos + 1, skip)

\* What is left to skip once the line at pos is dropped, n lines and the last at alike.
LEMMA SkipCounts ==
  ASSUME NEW n \in Nat, NEW pos \in Nat, NEW at \in Nat, NEW skip \in Nat,
         1 <= at, at <= n, Counts(n, at, pos, skip)
  PROVE  /\ pos < n - at + 1 => CountsOn(n, at, pos, skip)
         /\ pos >= n - at + 1 /\ skip > 0 => CountsOn(n, at, pos, skip - 1)
         /\ pos >= n - at + 1 /\ skip = 0 => pos = n + 1
  BY DEF Counts, CountsOn

\* The numbers of it: a line dropped was sent before, and is counted when it has the
\* time stamp of the last one.
LEMMA DropsCounted ==
  ASSUME NEW w \in Seq(Nat), Ordered(w),
         NEW n \in DOMAIN w, NEW pos \in DOMAIN w, NEW at \in Nat, NEW skip \in Nat,
         NEW last \in Nat, 1 <= at, at <= n, w[n - at + 1] = last,
         at < n => w[n - at] < last, Counts(n, at, pos, skip)
  PROVE  /\ w[pos] < last => CountsOn(n, at, pos, skip)
         /\ w[pos] = last /\ skip > 0 => CountsOn(n, at, pos, skip - 1)
         /\ w[pos] = last /\ skip = 0 => pos = n + 1
<1> DEFINE a == n - at + 1
<1>1. DOMAIN w = 1 .. Len(w) /\ Len(w) \in Nat /\ \A i \in DOMAIN w : w[i] \in Nat
  OBVIOUS
<1>2. n \in Nat /\ pos \in Nat /\ a \in Nat /\ a \in DOMAIN w /\ pos > 0
  BY SMTT(20), <1>1
<1>3. w[pos] < last => pos < a
  <2> SUFFICES ASSUME w[pos] < last, pos >= a PROVE FALSE
    BY <1>2
  <2>1. w[a] = last /\ (pos = a \/ a < pos)
    BY <1>2
  <2>2. w[a] <= w[pos]
    BY <1>1, <1>2, <2>1 DEF Ordered
  <2> QED
    BY <1>1, <1>2, <2>1, <2>2
<1>4. w[pos] = last => pos >= a
  <2> SUFFICES ASSUME w[pos] = last, pos < a PROVE FALSE
    BY <1>2
  <2>1. n - at \in DOMAIN w /\ w[n - at] < last /\ pos <= n - at
    BY <1>1, <1>2
  <2>2. w[pos] <= w[n - at]
    BY <1>1, <1>2, <2>1 DEF Ordered
  <2> QED
    BY <1>1, <1>2, <2>1, <2>2
<1>5. /\ pos < a => CountsOn(n, at, pos, skip)
      /\ pos >= a /\ skip > 0 => CountsOn(n, at, pos, skip - 1)
      /\ pos >= a /\ skip = 0 => pos = n + 1
  BY <1>2, SkipCounts
<1> QED
  BY <1>3, <1>4, <1>5

\* The numbers of a line that is sent: it comes after the last one.
LEMMA SendsNext ==
  ASSUME NEW w \in Seq(Nat), Ordered(w),
         NEW n \in DOMAIN w, NEW pos \in DOMAIN w, NEW last \in Nat,
         w[n] = last, pos <= n + 1, w[pos] > last
  PROVE  pos = n + 1
<1>1. DOMAIN w = 1 .. Len(w) /\ Len(w) \in Nat /\ \A i \in DOMAIN w : w[i] \in Nat
  OBVIOUS
<1>2. ASSUME pos <= n PROVE FALSE
  <2>1. w[pos] <= w[n]
    BY <1>1, <1>2 DEF Ordered
  <2> QED
    BY <1>1, <2>1
<1> QED
  BY <1>1, <1>2

Old(r, t) ==
  r.last # None /\ r.replaying /\ (t < r.last \/ (t = r.last /\ r.skip > 0))

\* What it remembers of a line dropped, and of one sent.
Dropping(r, t, q) ==
  /\ q \in Resumes /\ q.last = r.last /\ q.at = r.at /\ q.replaying
  /\ \/ t < r.last /\ q.skip = r.skip
     \/ t = r.last /\ r.skip > 0 /\ q.skip = r.skip - 1
Sending(r, t, q) ==
  /\ q \in Resumes
  /\ r.last = None => q.last = t /\ q.at = 1 /\ q.skip = r.skip /\ q.replaying = r.replaying
  /\ r.last # None /\ t = r.last =>
       /\ q.last = t /\ q.at = r.at + 1 /\ q.skip = r.skip /\ q.replaying = r.replaying
       /\ r.replaying => r.skip = 0
  /\ r.last # None /\ t > r.last => q.last = t /\ q.at = 1 /\ q.replaying = FALSE
  /\ r.last # None /\ t < r.last => q = r /\ ~r.replaying

\* LogResume::admit drops a line it replays that is older than the last one, or as old
\* and still to skip.
LEMMA AdmitsNot ==
  ASSUME NEW r \in Resumes, NEW t \in Nat, t > 0, Old(r, t), NEW a, a = Admit(r, t)
  PROVE  a.ok = FALSE /\ Dropping(r, t, a.r)
<1>1. r.last \in Nat /\ r.at \in Nat /\ r.skip \in Nat /\ r.replaying
  BY DEF Resumes, Old
<1>2. CASE t < r.last
  BY <1>1, <1>2 DEF Admit, Old, Dropping
<1>3. CASE t = r.last
  <2>1. a = [r |-> [r EXCEPT !.skip = r.skip - 1], ok |-> FALSE] /\ r.skip > 0
    BY <1>1, <1>3 DEF Admit, Old
  <2>2. ASSUME NEW s, s = [r EXCEPT !.skip = r.skip - 1]
        PROVE  /\ s \in Resumes /\ s.skip = r.skip - 1 /\ s.last = r.last /\ s.at = r.at
               /\ s.replaying
    BY <1>1, <2>1, <2>2 DEF Resumes
  <2> QED
    BY <1>3, <2>1, <2>2 DEF Dropping
<1> QED
  BY <1>2, <1>3 DEF Old

\* Of the others it remembers the time stamp, and how many have it.
LEMMA AdmitsNew ==
  ASSUME NEW r \in Resumes, NEW t \in Nat, t > 0, ~Old(r, t), NEW a, a = Admit(r, t)
  PROVE  a.ok = TRUE /\ Sending(r, t, a.r)
<1>1. r.last \in Nat /\ r.at \in Nat /\ r.skip \in Nat /\ r.replaying \in BOOLEAN
  BY DEF Resumes
<1>2. ASSUME NEW s, s = [r EXCEPT !.last = t, !.at = 1]
      PROVE  /\ s \in Resumes /\ s.last = t /\ s.at = 1 /\ s.skip = r.skip
             /\ s.replaying = r.replaying
  BY <1>2 DEF Resumes
<1>3. ASSUME NEW s, s = [r EXCEPT !.at = r.at + 1]
      PROVE  /\ s \in Resumes /\ s.last = r.last /\ s.at = r.at + 1 /\ s.skip = r.skip
             /\ s.replaying = r.replaying
  BY <1>1, <1>3 DEF Resumes
<1>4. ASSUME NEW s, s = [r EXCEPT !.last = t, !.at = 1, !.replaying = FALSE]
      PROVE  s \in Resumes /\ s.last = t /\ s.at = 1 /\ s.replaying = FALSE
  BY <1>4 DEF Resumes
<1>5. CASE r.last = None
  <2>1. a.ok = TRUE /\ a.r = [r EXCEPT !.last = t, !.at = 1]
    BY <1>5 DEF Admit
  <2> QED
    BY <1>2, <1>5, <2>1 DEF Sending
<1>6. CASE r.last # None
  <2>0. a.ok = TRUE
    BY <1>1, <1>6 DEF Admit, Old
  <2>1. a.r = IF t = r.last THEN [r EXCEPT !.at = r.at + 1]
              ELSE IF t > r.last THEN [r EXCEPT !.last = t, !.at = 1, !.replaying = FALSE]
              ELSE r
    BY <1>1, <1>6 DEF Admit, Old
  <2>2. CASE t = r.last
    <3>1. a.r = [r EXCEPT !.at = r.at + 1] /\ (r.replaying => r.skip = 0)
      BY <1>1, <1>6, <2>1, <2>2 DEF Old
    <3>2. /\ a.r \in Resumes /\ a.r.last = r.last /\ a.r.at = r.at + 1 /\ a.r.skip = r.skip
          /\ a.r.replaying = r.replaying
      BY <1>3, <3>1
    <3> QED
      BY <1>1, <1>6, <2>0, <2>2, <3>1, <3>2 DEF Sending
  <2>3. CASE t > r.last
    <3>1. a.r = [r EXCEPT !.last = t, !.at = 1, !.replaying = FALSE]
      BY <1>1, <2>1, <2>3
    <3>2. a.r \in Resumes /\ a.r.last = t /\ a.r.at = 1 /\ a.r.replaying = FALSE
      BY <1>4, <3>1
    <3>3. t # r.last /\ ~(t < r.last)
      BY <1>1, <2>3
    <3> QED
      BY <1>6, <2>0, <2>3, <3>2, <3>3 DEF Sending
  <2>4. CASE t < r.last
    <3>1. a.r = r /\ ~r.replaying
      BY <1>1, <1>6, <2>1, <2>4 DEF Old
    <3>2. t # r.last /\ ~(t > r.last)
      BY <1>1, <2>4
    <3> QED
      BY <1>6, <2>0, <2>4, <3>1, <3>2 DEF Sending
  <2> QED
    <3>1. t < r.last \/ t = r.last \/ t > r.last
      BY <1>1
    <3> QED
      BY <2>2, <2>3, <2>4, <3>1
<1> QED
  BY <1>5, <1>6

Further(k, r) == [k EXCEPT !.conn.pos = @ + 1, !.resume = r]

\* One line further.
LEMMA Advances ==
  ASSUME NEW k \in Tasks, NEW r \in Resumes, NEW m, m = Further(k, r)
  PROVE  /\ m \in Tasks /\ m.pc = k.pc /\ m.gen = k.gen /\ m.uid = k.uid /\ m.first = k.first
         /\ m.resume = r /\ Conn(m) = Conn(k) /\ m.conn.uid = k.conn.uid
         /\ m.conn.pos = k.conn.pos + 1 /\ k.conn.pos \in Nat
<1>1. k.conn \in Connection /\ k.conn.pos \in Nat
  BY DEF Tasks, Connection
<1>2. m = [k EXCEPT !.conn = [k.conn EXCEPT !.pos = k.conn.pos + 1], !.resume = r]
  BY DEF Further, Tasks, Connection
<1>3. [k.conn EXCEPT !.pos = k.conn.pos + 1] \in Connection
  BY <1>1 DEF Connection
<1>4. m \in Tasks
  BY <1>2, <1>3 DEF Tasks
<1>5. m.conn = [k.conn EXCEPT !.pos = k.conn.pos + 1]
  BY <1>2 DEF Tasks
<1> QED
  BY <1>1, <1>2, <1>4, <1>5 DEF Tasks, Connection, Conn

\* A line dropped changes nothing of what the stream knows, and it still counts what
\* it repeats.
LEMMA Drops ==
  ASSUME Types, TimesInv, NEW T \in Seq(Line), Sent(T),
         NEW k \in Tasks, StreamInv(k, T), k.pc = "pump",
         NEW w \in Seq(Nat), w = written[Conn(k)], k.conn.pos \in DOMAIN w,
         Old(k.resume, w[k.conn.pos]), NEW a, a = Admit(k.resume, w[k.conn.pos]),
         NEW m, m = Further(k, a.r)
  PROVE  a.ok = FALSE /\ m \in Tasks /\ StreamInv(m, T)
<1> DEFINE pos == k.conn.pos
<1>1. ConnInv(k, T) /\ Reads(k, T) /\ Knows(k, T) /\ Conn(k) \in Runs
  BY DEF StreamInv, ConnInv
<1>2. Ordered(w) /\ w[pos] \in Nat /\ w[pos] > 0 /\ k.resume \in Resumes
  BY <1>1 DEF TimesInv, Tasks
<1>3. /\ a.ok = FALSE
      /\ a.r \in Resumes /\ k.resume.last # None /\ k.resume.replaying /\ a.r.replaying
      /\ a.r.last = k.resume.last /\ a.r.at = k.resume.at
      /\ \/ w[pos] < k.resume.last /\ a.r.skip = k.resume.skip
         \/ w[pos] = k.resume.last /\ k.resume.skip > 0 /\ a.r.skip = k.resume.skip - 1
  <2>1. k.resume.last # None /\ k.resume.replaying
    BY DEF Old
  <2>2. a.ok = FALSE /\ Dropping(k.resume, w[pos], a.r)
    BY <1>2, AdmitsNot
  <2> QED
    BY <2>1, <2>2 DEF Dropping
<1>4. /\ m \in Tasks /\ m.pc = k.pc /\ m.gen = k.gen /\ m.uid = k.uid /\ m.first = k.first
      /\ m.resume = a.r /\ Conn(m) = Conn(k) /\ m.conn.uid = k.conn.uid
      /\ m.conn.pos = pos + 1 /\ pos \in Nat
  <2> DEFINE q == a.r
  <2>1. k \in Tasks /\ q \in Resumes /\ m = Further(k, q)
    BY <1>3
  <2> HIDE DEF q
  <2>2. /\ m \in Tasks /\ m.pc = k.pc /\ m.gen = k.gen /\ m.uid = k.uid /\ m.first = k.first
        /\ m.resume = q /\ Conn(m) = Conn(k) /\ m.conn.uid = k.conn.uid
        /\ m.conn.pos = k.conn.pos + 1 /\ k.conn.pos \in Nat
    BY ONLY <2>1, Advances
  <2> QED
    BY <2>2 DEF q
<1>5. Knows(m, T)
  <2>1. UidInv(m, T)
    BY <1>1, <1>4 DEF Knows, UidInv
  <2>2. PICK p \in DOMAIN T : Anchor(k, T, p)
    BY <1>1, <1>3 DEF Knows
  <2>3. Anchor(m, T, p)
    <3>1. /\ m.uid = k.uid /\ m.resume.last = k.resume.last /\ m.resume.at = k.resume.at
      BY <1>3, <1>4
    <3> QED
      BY ONLY <2>2, <3>1 DEF Anchor, Earlier, Counted
  <2> QED
    BY ZenonT(40), <1>3, <1>4, <2>1, <2>3 DEF Knows
<1>6. ConnInv(m, T)
  <2>1. /\ Conn(m) = Conn(k) /\ m.conn.uid = k.conn.uid /\ m.uid = k.uid
        /\ m.conn.pos = pos + 1 /\ pos \in Nat
    BY ONLY <1>4
  <2> QED
    BY ONLY <1>1, <2>1 DEF ConnInv
<1>7. ASSUME NEW p \in DOMAIN T, Latest(m, T, p) PROVE Follows(m, T[p])
  <2>1. /\ Latest(k, T, p) /\ T[p] # NoLine /\ RunOf(T[p]) = Conn(k) /\ LastIn(T, p)
        /\ k.conn.uid \notin raced /\ ~TailSplits(T, Conn(k))
    BY <1>4, <1>7 DEF Latest, RunOf, Conn
  <2>2. Of(T, p, Conn(k)) /\ T[p] \in Line /\ T[p].n \in DOMAIN w
    BY <2>1, InTrail
  <2>3. PICK q \in DOMAIN T :
          /\ Latest(k, T, q) /\ Counted(k, T[q]) /\ Follows(k, T[q])
          /\ written[Conn(k)][T[q].n] = k.resume.last
    BY <2>1, <2>2, AtLatest
  <2>4. q = p
    BY <2>1, <2>3, OneLast DEF Latest
  <2>5. /\ Counts(T[p].n, k.resume.at, pos, k.resume.skip)
        /\ 1 <= k.resume.at /\ k.resume.at <= T[p].n
        /\ w[T[p].n - k.resume.at + 1] = k.resume.last
        /\ k.resume.at < T[p].n => w[T[p].n - k.resume.at] < k.resume.last
    BY <1>3, <2>1, <2>3, <2>4 DEF Follows, Counted, CountedAt
  <2>6. CountsOn(T[p].n, k.resume.at, pos, a.r.skip)
    <3>1. k.resume.at \in Nat /\ k.resume.skip \in Nat /\ k.resume.last \in Nat
      BY <1>2 DEF Resumes
    <3>2. /\ w[pos] < k.resume.last => CountsOn(T[p].n, k.resume.at, pos, k.resume.skip)
          /\ w[pos] = k.resume.last /\ k.resume.skip > 0 =>
               CountsOn(T[p].n, k.resume.at, pos, k.resume.skip - 1)
      BY <1>2, <2>2, <2>5, <3>1, DropsCounted
    <3> QED
      BY <1>3, <3>2
  <2>7. Counts(T[p].n, m.resume.at, m.conn.pos, m.resume.skip)
    BY <1>3, <1>4, <2>6 DEF CountsOn
  <2> QED
    BY <1>3, <1>4, <2>7 DEF Follows
<1>8. Reads(m, T)
  BY <1>7 DEF Reads
<1> QED
  BY <1>3, <1>4, <1>5, <1>6, <1>8 DEF StreamInv

\* A line sent comes after the last one of its run, unless the tail splits a time stamp
\* or the pod was taken for another.
LEMMA ComesNext ==
  ASSUME Types, TimesInv, NEW T \in Seq(Line), Sent(T),
         NEW k \in Tasks, StreamInv(k, T), k.pc = "pump",
         NEW w \in Seq(Nat), w = written[Conn(k)], k.conn.pos \in DOMAIN w,
         ~Old(k.resume, w[k.conn.pos]), k.conn.uid \notin raced, ~TailSplits(T, Conn(k)),
         NEW i \in DOMAIN T, Of(T, i, Conn(k))
  PROVE  \E p \in DOMAIN T :
           /\ T[p] \in Line /\ RunOf(T[p]) = Conn(k) /\ LastIn(T, p) /\ Counted(k, T[p])
           /\ k.resume.last # None /\ w[T[p].n] = k.resume.last /\ k.conn.pos = T[p].n + 1
<1> DEFINE pos == k.conn.pos
<1>1. PICK p \in DOMAIN T :
        /\ k.resume.last # None /\ Latest(k, T, p) /\ Counted(k, T[p]) /\ Follows(k, T[p])
        /\ w[T[p].n] = k.resume.last
  BY AtLatest
<1>2. /\ T[p] \in Line /\ T[p].n \in DOMAIN w /\ RunOf(T[p]) = Conn(k) /\ LastIn(T, p)
      /\ Conn(k) \in Runs
  BY <1>1, InTrail DEF Latest, StreamInv, ConnInv
<1>3. /\ Ordered(w) /\ w[pos] \in Nat /\ T[p].n \in Nat /\ pos \in Nat
      /\ k.resume.at \in Nat /\ k.resume.skip \in Nat /\ k.resume.last \in Nat
  <2>1. Ordered(w)
    BY <1>2 DEF TimesInv
  <2>2. k.resume \in Resumes /\ k.conn \in Connection
    BY DEF Tasks
  <2>3. k.resume.at \in Nat /\ k.resume.skip \in Nat /\ k.resume.last \in Nat /\ pos \in Nat
    BY <2>2 DEF Resumes, Connection
  <2>4. T[p].n \in Nat
    BY <1>2 DEF Line
  <2>5. w[pos] \in Nat
    OBVIOUS
  <2> QED
    BY <2>1, <2>3, <2>4, <2>5
<1>4. CASE ~k.resume.replaying
  BY <1>1, <1>2, <1>4 DEF Follows
<1>5. CASE k.resume.replaying
  <2>1. Counts(T[p].n, k.resume.at, pos, k.resume.skip) /\ pos <= T[p].n + 1
    BY <1>1, <1>5 DEF Follows, Counts
  <2>2. ~(w[pos] < k.resume.last) /\ ~(w[pos] = k.resume.last /\ k.resume.skip > 0)
    BY <1>1, <1>5 DEF Old
  <2>3. CASE w[pos] = k.resume.last
    <3>1. k.resume.skip = 0
      BY <1>3, <2>2, <2>3
    <3>2. /\ 1 <= k.resume.at /\ k.resume.at <= T[p].n
          /\ w[T[p].n - k.resume.at + 1] = k.resume.last
          /\ k.resume.at < T[p].n => w[T[p].n - k.resume.at] < k.resume.last
      BY <1>1, <1>2 DEF Counted, CountedAt
    <3>3. pos = T[p].n + 1
      <4> DEFINE n == T[p].n
                 at == k.resume.at
                 skip == k.resume.skip
                 last == k.resume.last
      <4>1. /\ n \in DOMAIN w /\ pos \in DOMAIN w /\ at \in Nat /\ skip \in Nat /\ last \in Nat
            /\ 1 <= at /\ at <= n /\ w[n - at + 1] = last /\ (at < n => w[n - at] < last)
            /\ Counts(n, at, pos, skip) /\ w \in Seq(Nat) /\ Ordered(w)
        BY <1>2, <1>3, <2>1, <3>2
      <4>2. w[pos] = last /\ skip = 0
        BY <2>3, <3>1
      <4> HIDE DEF n, at, skip, last, pos
      <4>3. pos = n + 1
        BY ONLY <4>1, <4>2, DropsCounted
      <4> QED
        BY <4>3 DEF n
    <3> QED
      BY <1>1, <1>2, <2>3, <3>1, <3>3
  <2>4. CASE w[pos] > k.resume.last
    <3>1. pos = T[p].n + 1
      BY <1>1, <1>2, <1>3, <2>1, <2>4, SendsNext
    <3> QED
      BY <1>1, <1>2, <3>1
  <2>5. w[pos] \in Nat /\ k.resume.last \in Nat
    BY <1>3
  <2>6. w[pos] < k.resume.last \/ w[pos] = k.resume.last \/ w[pos] > k.resume.last
    BY ONLY <2>5
  <2> QED
    BY <2>2, <2>3, <2>4, <2>6
<1> QED
  BY <1>4, <1>5

\* One line more alike is one more to count.
LEMMA CountsMore ==
  ASSUME NEW w, NEW n \in Nat, NEW at \in Nat, NEW last, CountedAt(w, n, at, last)
  PROVE  CountedAt(w, n + 1, at + 1, last)
<1>1. (n + 1) - (at + 1) + 1 = n - at + 1 /\ (n + 1) - (at + 1) = n - at
  OBVIOUS
<1> QED
  BY <1>1 DEF CountedAt

\* The first line of a time stamp is the only one yet.
LEMMA CountsOne ==
  ASSUME NEW w \in Seq(Nat), Ordered(w), NEW n \in DOMAIN w, n > 1 => w[n - 1] # w[n]
  PROVE  CountedAt(w, n, 1, w[n])
<1>1. /\ DOMAIN w = 1 .. Len(w) /\ Len(w) \in Nat /\ n \in Nat /\ n >= 1
      /\ \A i \in DOMAIN w : w[i] \in Nat
  OBVIOUS
<1>2. n > 1 => n - 1 \in DOMAIN w /\ n - 1 < n
  BY <1>1
<1>3. n > 1 => w[n - 1] <= w[n]
  BY <1>2 DEF Ordered
<1>4. n > 1 => w[n - 1] < w[n]
  BY <1>1, <1>2, <1>3
<1>5. n - 1 + 1 = n
  BY <1>1
<1> QED
  BY <1>1, <1>4, <1>5 DEF CountedAt

\* What is counted of a line sent after one of its run.
LEMMA NextCounted ==
  ASSUME Types, TimesInv, NEW T \in Seq(Line), Sent(T),
         NEW k \in Tasks, StreamInv(k, T), k.pc = "pump",
         NEW w \in Seq(Nat), w = written[Conn(k)], k.conn.pos \in DOMAIN w,
         ~Old(k.resume, w[k.conn.pos]), k.conn.uid \notin raced, ~TailSplits(T, Conn(k)),
         NEW i \in DOMAIN T, Of(T, i, Conn(k)),
         NEW q \in Resumes, Sending(k.resume, w[k.conn.pos], q)
  PROVE  /\ k.resume.last # None /\ w[k.conn.pos] >= k.resume.last
         /\ q.last = w[k.conn.pos] /\ CountedAt(w, k.conn.pos, q.at, q.last)
<1> DEFINE pos == k.conn.pos
           at == k.resume.at
           last == k.resume.last
<1>1. PICK p \in DOMAIN T :
        /\ T[p] \in Line /\ RunOf(T[p]) = Conn(k) /\ LastIn(T, p) /\ Counted(k, T[p])
        /\ last # None /\ w[T[p].n] = last /\ pos = T[p].n + 1
  BY ComesNext
<1> DEFINE n == T[p].n
<1>2. /\ n \in Nat /\ w[n] = last /\ pos = n + 1 /\ CountedAt(w, n, at, last)
      /\ at \in Nat /\ last \in Nat /\ last # None
  <2>1. k.resume \in Resumes
    BY DEF Tasks
  <2> QED
    BY <1>1, <2>1 DEF Counted, Line, Resumes
<1>3. /\ pos \in DOMAIN w /\ w[pos] \in Nat /\ Ordered(w)
      /\ Sending(k.resume, w[pos], q)
  <2>1. Conn(k) \in Runs
    BY DEF StreamInv, ConnInv
  <2> QED
    BY <2>1 DEF TimesInv
<1>4. n \in DOMAIN w /\ n < pos
  <2>1. 1 <= at /\ at <= n
    BY <1>2 DEF CountedAt
  <2>2. pos \in 1 .. Len(w) /\ Len(w) \in Nat /\ DOMAIN w = 1 .. Len(w)
    BY <1>3
  <2> HIDE DEF n, pos, at
  <2> QED
    BY ONLY <1>2, <2>1, <2>2
<1>5. w[pos] >= last
  <2>1. w[n] <= w[pos]
    BY <1>3, <1>4 DEF Ordered
  <2> QED
    BY <1>2, <1>3, <2>1
<1>6. CASE w[pos] = last
  <2>1. q.last = w[pos] /\ q.at = at + 1
    BY <1>2, <1>3, <1>6 DEF Sending
  <2>2. CountedAt(w, n + 1, at + 1, last)
    BY <1>2, CountsMore
  <2> QED
    BY <1>2, <1>5, <1>6, <2>1, <2>2
<1>7. CASE w[pos] > last
  <2>1. q.last = w[pos] /\ q.at = 1
    BY <1>2, <1>3, <1>7 DEF Sending
  <2>2. pos - 1 = n /\ w[pos - 1] # w[pos]
    <3> HIDE DEF n, pos, last
    <3> QED
      BY ONLY <1>2, <1>3, <1>7
  <2>3. CountedAt(w, pos, 1, w[pos])
    BY <1>3, <2>2, CountsOne
  <2> QED
    BY <1>2, <1>5, <2>1, <2>3
<1>8. w[pos] = last \/ w[pos] > last
  <2>1. w[pos] \in Nat /\ last \in Nat
    BY <1>2, <1>3
  <2> HIDE DEF pos, last
  <2> QED
    BY ONLY <1>5, <2>1
<1> QED
  BY <1>6, <1>7, <1>8

\* What is counted of the first line of a run: it is later than all before.
LEMMA FirstCounted ==
  ASSUME Types, TimesInv, NEW T \in Seq(Line), Sent(T),
         NEW k \in Tasks, StreamInv(k, T), k.pc = "pump",
         NEW w \in Seq(Nat), w = written[Conn(k)], k.conn.pos \in DOMAIN w,
         \A i \in DOMAIN T : ~Of(T, i, Conn(k)),
         NEW q \in Resumes, Sending(k.resume, w[k.conn.pos], q)
  PROVE  /\ k.resume.last = None \/ w[k.conn.pos] > k.resume.last
         /\ q.last = w[k.conn.pos] /\ q.at = 1
<1> DEFINE c == Conn(k)
           pos == k.conn.pos
<1>1. c \in Runs /\ ConnInv(k, T) /\ Knows(k, T)
  BY DEF StreamInv, ConnInv
<1>2. ASSUME k.resume.last # None PROVE w[pos] > k.resume.last
  <2>1. PICK p \in DOMAIN T : Anchor(k, T, p)
    BY <1>1, <1>2 DEF Knows
  <2>2. /\ T[p] \in Lines(T) /\ RunOf(T[p]) \in Runs /\ T[p].n \in DOMAIN written[RunOf(T[p])]
        /\ Of(T, p, RunOf(T[p])) /\ written[RunOf(T[p])][T[p].n] = k.resume.last
    BY <2>1, InTrail DEF Anchor
  <2>3. RunOf(T[p]) # c /\ ~Before(c, RunOf(T[p]))
    BY <1>1, <2>2 DEF ConnInv
  <2>4. Before(RunOf(T[p]), c)
    BY <1>1, <2>2, <2>3, RunsAre, Trichotomy
  <2>5. written[RunOf(T[p])][T[p].n] < w[pos]
    BY <1>1, <2>2, <2>4 DEF TimesInv
  <2>6. w[pos] \in Nat /\ k.resume \in Resumes
    BY DEF Tasks
  <2> QED
    BY <2>2, <2>5, <2>6 DEF Resumes
<1>3. q.last = w[pos] /\ q.at = 1
  BY <1>2 DEF Sending
<1> QED
  BY <1>2, <1>3

\* In T, a connection of k has a line l that is not old, in the log w of its run.
Sendable(T, k, w, a, m, l, U) ==
  /\ k \in Tasks /\ StreamInv(k, T) /\ k.pc = "pump"
  /\ w \in Seq(Nat) /\ w = written[Conn(k)] /\ k.conn.pos \in DOMAIN w
  /\ ~Old(k.resume, w[k.conn.pos]) /\ a = Admit(k.resume, w[k.conn.pos])
  /\ m = Further(k, a.r) /\ U = Append(T, l)
  /\ l = [uid |-> k.conn.uid, run |-> k.conn.run, n |-> k.conn.pos]
WellSent(a, m, U) == a.ok = TRUE /\ m \in Tasks /\ Sent(U) /\ InTurn(U) /\ StreamInv(m, U)

\* A line sent keeps the runs in turn, and becomes what the stream goes on from.
LEMMA Sends ==
  ASSUME Types, TimesInv, NEW T \in Seq(Line), Sent(T), InTurn(T),
         NEW k, NEW w, NEW a, NEW m, NEW l, NEW U, Sendable(T, k, w, a, m, l, U)
  PROVE  WellSent(a, m, U)
<1> SUFFICES
      ASSUME k \in Tasks, StreamInv(k, T), k.pc = "pump",
             w \in Seq(Nat), w = written[Conn(k)], k.conn.pos \in DOMAIN w,
             ~Old(k.resume, w[k.conn.pos]), a = Admit(k.resume, w[k.conn.pos]),
             m = Further(k, a.r), U = Append(T, l),
             l = [uid |-> k.conn.uid, run |-> k.conn.run, n |-> k.conn.pos]
      PROVE  a.ok = TRUE /\ m \in Tasks /\ Sent(U) /\ InTurn(U) /\ StreamInv(m, U)
  BY DEF Sendable, WellSent
<1> DEFINE c == Conn(k)
           pos == k.conn.pos
           r == k.resume
           q == a.r
           e == Len(T) + 1
<1>1. /\ c \in Runs /\ ConnInv(k, T) /\ Knows(k, T) /\ Reads(k, T) /\ Ordered(w)
      /\ r \in Resumes /\ w[pos] \in Nat /\ w[pos] > 0
  BY DEF StreamInv, ConnInv, TimesInv, Tasks
<1>2. a.ok = TRUE /\ Sending(r, w[pos], q) /\ q \in Resumes
  <2>1. a.ok = TRUE /\ Sending(r, w[pos], q)
    BY <1>1, AdmitsNew
  <2> QED
    BY <2>1 DEF Sending
<1>3. /\ m \in Tasks /\ m.pc = k.pc /\ m.gen = k.gen /\ m.uid = k.uid /\ m.first = k.first
      /\ m.resume = q /\ Conn(m) = c /\ m.conn.uid = k.conn.uid
      /\ m.conn.pos = pos + 1 /\ pos \in Nat
  <2>1. k \in Tasks /\ q \in Resumes /\ m = Further(k, q)
    BY <1>2
  <2> HIDE DEF q
  <2>2. /\ m \in Tasks /\ m.pc = k.pc /\ m.gen = k.gen /\ m.uid = k.uid /\ m.first = k.first
        /\ m.resume = q /\ Conn(m) = Conn(k) /\ m.conn.uid = k.conn.uid
        /\ m.conn.pos = k.conn.pos + 1 /\ k.conn.pos \in Nat
    BY ONLY <2>1, Advances
  <2> QED
    BY <2>2
<1>4. /\ l \in Line /\ l # NoLine /\ RunOf(l) = c /\ l.uid = k.conn.uid /\ l.n = pos
      /\ c[1] = k.conn.uid
  <2>1. k.conn.uid \in Nat /\ k.conn.run \in Nat /\ k.conn.uid > 0
    BY <1>1, RunsAre DEF Conn
  <2>2. l.uid = k.conn.uid /\ l.run = k.conn.run /\ l.n = pos
    OBVIOUS
  <2>3. l \in Line
    BY <1>3, <2>1 DEF Line
  <2>4. l # NoLine
    BY <2>1, <2>2 DEF NoLine
  <2> QED
    BY <2>2, <2>3, <2>4 DEF RunOf, Conn
<1> HIDE DEF c, pos, r, q
<1>5. /\ U \in Seq(Line) /\ Len(T) \in Nat /\ DOMAIN T = 1 .. Len(T)
      /\ DOMAIN U = 1 .. e /\ DOMAIN T \subseteq DOMAIN U
      /\ \A i \in DOMAIN T : U[i] = T[i]
      /\ U[e] = l /\ e \in DOMAIN U /\ Lines(U) = Lines(T) \cup {l}
      /\ \A i \in DOMAIN U : i <= e
  <2>1. /\ U \in Seq(Line) /\ Len(T) \in Nat /\ DOMAIN T = 1 .. Len(T)
        /\ DOMAIN U = 1 .. Len(T) + 1 /\ DOMAIN T \subseteq DOMAIN U
        /\ \A i \in DOMAIN T : U[i] = T[i]
        /\ U[Len(T) + 1] = l /\ Lines(U) = Lines(T) \cup {l}
    <3>1. T \in Seq(Line) /\ l \in Line /\ l # NoLine /\ U = Append(T, l)
      BY <1>4
    <3>2. /\ U \in Seq(Line) /\ Len(T) \in Nat /\ DOMAIN T = 1 .. Len(T)
          /\ DOMAIN U = 1 .. Len(T) + 1 /\ DOMAIN T \subseteq DOMAIN U
          /\ \A i \in DOMAIN T : U[i] = T[i]
          /\ U[Len(T) + 1] = l
      BY ONLY <3>1
    <3>3. Lines(U) = Lines(T) \cup {l}
      BY ONLY <3>1, Appended
    <3> QED
      BY <3>2, <3>3
  <2>2. e \in DOMAIN U /\ \A i \in DOMAIN U : i <= e
    BY <2>1
  <2> QED
    BY <2>1, <2>2
<1>6. Sent(U)
  BY <1>1, <1>4, <1>5 DEF Sent, c, pos
<1>7. \A d \in Runs : TailSplits(T, d) => TailSplits(U, d)
  BY <1>4, StaysSplit
<1>8. InTurn(U)
  <2> SUFFICES ASSUME NEW d \in Runs, d[1] \notin raced, ~TailSplits(U, d)
               PROVE  Consecutive(U, d)
    BY DEF InTurn
  <2>1. ~TailSplits(T, d) /\ Consecutive(T, d)
    BY <1>7 DEF InTurn
  <2>2. ASSUME d = c, NEW i \in DOMAIN T, Of(T, i, d), LastIn(T, i)
        PROVE  l.n = T[i].n + 1
    <3>1. k.conn.uid \notin raced /\ ~TailSplits(T, Conn(k)) /\ Of(T, i, Conn(k))
      BY <1>4, <2>1, <2>2 DEF c
    <3>2. PICK p \in DOMAIN T : RunOf(T[p]) = c /\ LastIn(T, p) /\ pos = T[p].n + 1
      BY <3>1, ComesNext DEF c, pos
    <3>3. RunOf(T[i]) = RunOf(T[p])
      BY <2>2, <3>2, OfIs
    <3>4. i = p
      BY <2>2, <3>2, <3>3, OneLast
    <3> QED
      BY <1>4, <3>2, <3>4
  <2> QED
    BY <1>4, <2>1, <2>2, StaysInTurn
<1>9. \A x \in Lines(U) : ~Before(c, RunOf(x))
  BY <1>1, <1>4, <1>5, RunsAre, Order DEF ConnInv, c
<1>10. ConnInv(m, U)
  <2>1. m.conn.pos > 0
    <3>1. m.conn.pos = pos + 1 /\ pos \in Nat
      BY <1>3
    <3> QED
      BY ONLY <3>1
  <2>2. /\ ~Before(Cur, c)
        /\ m.conn.uid \in raced \/ m.uid = None \/ m.conn.uid = m.uid
    BY <1>1, <1>3 DEF ConnInv, c
  <2> QED
    BY <1>1, <1>3, <1>9, <2>1, <2>2 DEF ConnInv
<1>11. UidInv(m, U)
  <2>1. m.uid # None /\ l.uid \notin raced => l.uid <= m.uid
    <3>1. k.conn.uid \in raced \/ k.uid = None \/ k.conn.uid = k.uid
      BY <1>1 DEF ConnInv
    <3>2. k.uid \in Nat
      BY DEF Tasks
    <3>3. m.uid = k.uid /\ l.uid = k.conn.uid
      BY <1>3, <1>4
    <3> QED
      BY ONLY <3>1, <3>2, <3>3
  <2> QED
    BY <1>1, <1>3, <1>5, <2>1 DEF Knows, UidInv
<1>12. Reads(m, U)
  <2> SUFFICES ASSUME NEW p \in DOMAIN U, Latest(m, U, p) PROVE Follows(m, U[p])
    BY DEF Reads
  <2>1. p = e
    <3>1. RunOf(U[p]) = c /\ LastIn(U, p)
      BY <1>3 DEF Latest
    <3>2. Of(U, e, c) /\ e \in DOMAIN U
      BY <1>4, <1>5 DEF Of, RunOf
    <3>3. ~(e > p)
      BY ONLY <3>1, <3>2 DEF LastIn
    <3> QED
      BY SMTT(20), <1>5, <3>3
  <2>2. q.replaying => q.skip = 0
    <3>1. CASE r.last = None
      <4>1. r.skip = 0
        BY <1>1, <3>1 DEF Knows, Fresh, r
      <4>2. q.skip = r.skip
        BY <1>2, <3>1 DEF Sending
      <4> QED
        BY <4>1, <4>2
    <3>2. CASE r.last # None
      <4>1. r.last \in Nat /\ r.replaying \in BOOLEAN
        BY <1>1 DEF Resumes
      <4>2. CASE w[pos] = r.last
        BY <1>2, <3>2, <4>2 DEF Sending
      <4>3. CASE w[pos] > r.last
        BY <1>2, <3>2, <4>3 DEF Sending
      <4>4. CASE w[pos] < r.last
        BY <1>2, <3>2, <4>4 DEF Sending
      <4> QED
        BY SMTT(20), <1>1, <4>1, <4>2, <4>3, <4>4
    <3> QED
      BY <3>1, <3>2
  <2>3. q.at \in Nat /\ pos \in Nat
    BY <1>2, <1>3 DEF Resumes
  <2>4. q.replaying => Counts(pos, q.at, pos + 1, q.skip)
    BY <2>2, <2>3 DEF Counts
  <2> QED
    BY <1>3, <1>4, <1>5, <2>1, <2>4 DEF Follows
<1>13. m.resume.last # None /\ \E p \in DOMAIN U : Anchor(m, U, p)
  <2>1. ASSUME c[1] \notin raced, ~TailSplits(U, c)
        PROVE  /\ r.last = None \/ w[pos] >= r.last
               /\ q.last = w[pos] /\ CountedAt(w, pos, q.at, q.last)
    <3>0. k.conn.uid \notin raced /\ ~TailSplits(T, c)
      BY <1>1, <1>4, <1>7, <2>1
    <3>1. CASE \E i \in DOMAIN T : Of(T, i, c)
      BY <1>2, <3>0, <3>1, NextCounted DEF c, pos, r
    <3>2. CASE \A i \in DOMAIN T : ~Of(T, i, c)
      <4>1. /\ r.last = None \/ w[pos] > r.last
            /\ q.last = w[pos] /\ q.at = 1
        BY <1>2, <3>2, FirstCounted DEF c, pos, r
      <4>2. pos > 1 => w[pos - 1] # w[pos]
        BY <1>4, <2>1, <3>2, FirstOfRun DEF c
      <4>3. CountedAt(w, pos, 1, w[pos])
        BY <1>1, <4>2, CountsOne DEF pos
      <4>4. r.last \in Nat
        BY <1>1 DEF Resumes
      <4> QED
        BY <1>1, <4>1, <4>3, <4>4
    <3> QED
      BY <3>1, <3>2
  <2>2. r.last \in Nat
    BY <1>1 DEF Resumes
  <2>3. CASE r.last = None \/ w[pos] >= r.last
    <3>1. q.last = w[pos]
      BY <1>1, <1>2, <2>2, <2>3 DEF Sending
    <3>2. LastIn(U, e)
      BY <1>5 DEF LastIn
    <3>3. \A x \in Lines(U) : x.uid \notin raced => Earlier(m, x) \/ ~Before(RunOf(U[e]), RunOf(x))
      BY <1>4, <1>5, <1>9
    <3>4. Anchor(m, U, e)
      BY <1>3, <1>4, <1>5, <2>1, <3>1, <3>2, <3>3 DEF Anchor, Counted, c
    <3>5. m.resume.last # None
      <4>1. m.resume = q /\ w[pos] \in Nat /\ w[pos] > 0
        BY <1>1, <1>3
      <4> QED
        BY ONLY <3>1, <4>1
    <3> QED
      BY <1>5, <3>4, <3>5
  <2>4. CASE r.last # None /\ w[pos] < r.last
    <3>1. q = r
      BY <1>2, <2>4 DEF Sending
    <3>2. c[1] \in raced \/ TailSplits(U, c)
      BY <1>1, <2>1, <2>2, <2>4
    <3>3. PICK p \in DOMAIN T : Anchor(k, T, p)
      BY <1>1, <2>4 DEF Knows, r
    <3>4. /\ T[p] \in Lines(T) /\ T[p] # NoLine /\ RunOf(T[p]) \in Runs
          /\ T[p].n \in DOMAIN written[RunOf(T[p])]
          /\ written[RunOf(T[p])][T[p].n] = r.last
      BY <3>3, InTrail DEF Anchor, r
    <3>5. RunOf(T[p]) = c
      <4>1. ~Before(c, RunOf(T[p]))
        BY <1>1, <3>4 DEF ConnInv, c
      <4>2. ~Before(RunOf(T[p]), c)
        <5>1. written[c] = w /\ pos \in DOMAIN w
          BY DEF c, pos
        <5>2. Before(RunOf(T[p]), c) => written[RunOf(T[p])][T[p].n] < w[pos]
          BY <1>1, <3>4, <5>1 DEF TimesInv
        <5> QED
          BY <1>1, <2>2, <2>4, <3>4, <5>2
      <4> QED
        BY <1>1, <3>4, <4>1, <4>2, RunsAre, Trichotomy
    <3>6. U[p] = T[p] /\ p \in DOMAIN U /\ T[p].uid = c[1]
      BY <1>5, <3>5 DEF RunOf
    <3>7. \A x \in Lines(U) : ~Before(RunOf(U[p]), RunOf(x))
      BY <1>9, <3>5, <3>6
    <3>8. Anchor(m, U, p)
      BY <1>3, <3>1, <3>2, <3>4, <3>5, <3>6, <3>7 DEF Anchor
    <3> QED
      BY <1>3, <2>4, <3>1, <3>6, <3>8
  <2>5. w[pos] \in Nat
    BY <1>1
  <2>6. w[pos] >= r.last \/ w[pos] < r.last
    BY <2>2, <2>5
  <2> QED
    BY <2>3, <2>4, <2>6
<1> QED
  BY <1>2, <1>3, <1>6, <1>8, <1>10, <1>11, <1>12, <1>13 DEF StreamInv, Knows

-----------------------------------------------------------------------------
(* What the cluster does leaves all of it true.                            *)

Grows(w, v) == DOMAIN w \subseteq DOMAIN v /\ \A i \in DOMAIN w : v[i] = w[i]

\* Counting is about lines written already.
LEMMA CountsStay ==
  ASSUME NEW w \in Seq(Nat), NEW v \in Seq(Nat), Grows(w, v), NEW n \in DOMAIN w,
         NEW at \in Nat, NEW last, CountedAt(w, n, at, last)
  PROVE  CountedAt(v, n, at, last)
<1>1. /\ DOMAIN w = 1 .. Len(w) /\ Len(w) \in Nat /\ n \in Nat /\ n <= Len(w)
      /\ 1 <= at /\ at <= n
  <2>1. DOMAIN w = 1 .. Len(w) /\ Len(w) \in Nat /\ n \in Nat /\ n <= Len(w)
    OBVIOUS
  <2> QED
    BY <2>1 DEF CountedAt
<1>2. n - at + 1 \in DOMAIN w /\ (at < n => n - at \in DOMAIN w)
  BY <1>1
<1>3. v[n - at + 1] = w[n - at + 1] /\ (at < n => v[n - at] = w[n - at])
  BY <1>2 DEF Grows
<1> QED
  BY <1>3 DEF CountedAt

\* Lines written later do not change what was sent, nor what the stream knows of it.
LEMMA Writing ==
  ASSUME Inv, UNCHANGED <<task, inbox, gen, shown, raced>>,
         written' \in [Runs -> Seq(Nat)], \A r \in Runs : Grows(written[r], written'[r]),
         Cur' \in Nat \X Nat, ~Before(Cur', Cur)
  PROVE  Sent(Trail)' /\ InTurn(Trail)' /\ StreamInv(task, Trail)' /\ Past'
<1> DEFINE T == Trail
<1>1. /\ T \in Seq(Line) /\ task \in Tasks /\ StreamInv(task, T) /\ Sent(T) /\ InTurn(T)
      /\ Types /\ Cur \in Nat \X Nat /\ written \in [Runs -> Seq(Nat)]
  BY TrailIs, CurIs DEF Inv, Types
<1>2. Trail' = T
  BY TrailStays
<1> HIDE DEF T
<1>3. \A p \in DOMAIN T : T[p] # NoLine =>
        /\ RunOf(T[p]) \in Runs /\ T[p].n \in DOMAIN written[RunOf(T[p])]
        /\ T[p].n \in DOMAIN written'[RunOf(T[p])]
        /\ written'[RunOf(T[p])][T[p].n] = written[RunOf(T[p])][T[p].n]
  BY <1>1, InTrail DEF Grows
<1>4. Sent(Trail)'
  <2>1. \A l \in Lines(T) : RunOf(l) \in Runs /\ l.n \in DOMAIN written'[RunOf(l)]
    BY <1>1 DEF Sent, Grows
  <2> QED
    BY <1>2, <2>1 DEF Sent, Lines, RunOf
<1>5. ASSUME NEW r \in Runs PROVE TailSplits(Trail, r)' <=> TailSplits(T, r)
  <2>1. ASSUME NEW f \in DOMAIN T, Of(T, f, r), T[f].n > 1
        PROVE  (written'[r][T[f].n - 1] = written'[r][T[f].n]) <=>
               (written[r][T[f].n - 1] = written[r][T[f].n])
    <3>1. T[f] # NoLine /\ RunOf(T[f]) = r /\ T[f].n \in DOMAIN written[r]
      BY <1>1, <1>3, <2>1, OfIs
    <3>2. written[r] \in Seq(Nat)
      BY <1>1
    <3>3. T[f].n - 1 \in DOMAIN written[r]
      BY <2>1, <3>1, <3>2
    <3> QED
      BY <3>1, <3>3 DEF Grows
  <2> QED
    BY <1>2, <2>1 DEF TailSplits, Of
<1>6. InTurn(Trail)'
  <2>1. \A r \in Runs : (Consecutive(Trail, r)' <=> Consecutive(T, r))
    BY <1>2 DEF Consecutive, Of
  <2> QED
    BY <1>1, <1>5, <2>1 DEF InTurn
<1>7. task.pc # "done" => Knows(task, Trail)'
  <2> SUFFICES ASSUME task.pc # "done" PROVE Knows(task, Trail)'
    OBVIOUS
  <2>0. Knows(task, T)
    BY <1>1 DEF StreamInv
  <2>1. UidInv(task, Trail)'
    BY <1>2, <2>0 DEF Knows, UidInv, Lines
  <2>2. CASE task.resume.last = None
    BY <1>2, <2>0, <2>1, <2>2 DEF Knows, Fresh, Earlier, Lines
  <2>3. CASE task.resume.last # None
    <3>1. PICK p \in DOMAIN T : Anchor(task, T, p)
      BY <2>0, <2>3 DEF Knows
    <3>2. /\ T[p] # NoLine /\ RunOf(T[p]) \in Runs /\ T[p].n \in DOMAIN written[RunOf(T[p])]
          /\ written'[RunOf(T[p])][T[p].n] = task.resume.last
      BY <1>3, <3>1 DEF Anchor
    <3>3. Counted(task, T[p]) => CountedAt(written'[RunOf(T[p])], T[p].n, task.resume.at,
                                           task.resume.last)
      <4>1. task.resume.at \in Nat
        BY <1>1 DEF Tasks, Resumes
      <4>2. /\ written[RunOf(T[p])] \in Seq(Nat) /\ written'[RunOf(T[p])] \in Seq(Nat)
            /\ Grows(written[RunOf(T[p])], written'[RunOf(T[p])])
        BY <1>1, <3>2
      <4> QED
        BY <3>2, <4>1, <4>2, CountsStay DEF Counted
    <3>4. TailSplits(Trail, RunOf(Trail[p]))' <=> TailSplits(T, RunOf(T[p]))
      <4>1. PICK r \in Runs : r = RunOf(T[p])
        BY <3>2
      <4>2. TailSplits(Trail, r)' <=> TailSplits(T, r)
        BY <1>5
      <4>3. RunOf(Trail[p])' = r
        BY <1>2, <4>1 DEF RunOf
      <4>4. TailSplits(Trail, RunOf(Trail[p]))' <=> TailSplits(Trail, r)'
        BY <4>3 DEF TailSplits, Of
      <4> QED
        BY <4>1, <4>2, <4>4
    <3> QED
      BY <1>2, <2>1, <2>3, <3>1, <3>2, <3>3, <3>4
      DEF Knows, Anchor, Earlier, Lines, LastIn, Of, Counted, RunOf
  <2> QED
    BY <2>2, <2>3
<1>8. task.pc = "pump" => ConnInv(task, Trail)'
  <2> SUFFICES ASSUME task.pc = "pump" PROVE ConnInv(task, Trail)'
    OBVIOUS
  <2>1. ConnInv(task, T)
    BY <1>1 DEF StreamInv
  <2>2. ~Before(Cur', Conn(task))
    BY <1>1, <2>1, RunsAre, Order DEF ConnInv
  <2> QED
    BY <1>2, <2>1, <2>2 DEF ConnInv, Lines, Conn, RunOf, Before
<1>9. task.pc = "pump" => Reads(task, Trail)'
  <2> SUFFICES ASSUME task.pc = "pump", NEW p \in DOMAIN T, Latest(task, Trail, p)'
               PROVE  Follows(task, T[p])
    BY <1>2 DEF Reads, Follows
  <2>1. Conn(task) \in Runs /\ Reads(task, T)
    BY <1>1 DEF StreamInv, ConnInv
  <2>2. PICK r \in Runs : r = Conn(task)
    BY <2>1
  <2>3. TailSplits(Trail, r)' <=> TailSplits(T, r)
    BY <1>5
  <2>4. TailSplits(Trail, Conn(task))' <=> TailSplits(Trail, r)'
    BY <2>2 DEF TailSplits, Of, Conn
  <2>5. LastIn(Trail, p)' <=> LastIn(T, p)
    BY <1>2 DEF LastIn, Of, RunOf
  <2>6. Latest(task, T, p)
    BY <1>2, <2>2, <2>3, <2>4, <2>5 DEF Latest, RunOf, Conn
  <2> QED
    BY <2>1, <2>6 DEF Reads
<1>10. task.uid <= Cur'[1] /\ task.first <= Cur'[1]
  BY <1>1 DEF StreamInv, Before, Tasks
<1> QED
  BY <1>1, <1>4, <1>6, <1>7, <1>8, <1>9, <1>10 DEF Inv, StreamInv, Rested, Past

\* A step of the pod that writes nothing.
LEMMA PodMoves ==
  ASSUME Inv, UNCHANGED <<written, task, inbox, gen, shown, raced>>,
         pod' \in [uid : 0 .. MaxPods, run : 0 .. MaxRuns, last : 0 .. MaxPods,
                   state : {"waiting", "running", "exited", "over"}],
         PodInv', now' \in Nat, now <= now',
         Cur' = Cur \/ Before(Cur, Cur'),
         \/ now' > now
         \/ Cur' = Cur /\ (pod'.uid # None /\ pod'.state = "running" =>
                             pod.uid # None /\ pod.state = "running")
         \/ pod'.uid = None \/ pod'.state # "running"
  PROVE  Inv'
<1>1. Types /\ TimesInv /\ Cur \in Nat \X Nat
  BY CurIs DEF Inv
<1>2. Types'
  BY <1>1 DEF Types
<1>3. Cur' \in Nat \X Nat
  <2>1. pod'.uid \in Nat /\ pod'.last \in Nat /\ pod'.run \in Nat
    BY LogFollowAssumption DEF LogFollowAssumption
  <2> QED
    BY <2>1 DEF Cur
<1>4. ~Before(Cur', Cur)
  BY <1>1, <1>3, Order
<1>5. Sent(Trail)' /\ InTurn(Trail)' /\ StreamInv(task, Trail)' /\ Past'
  <2>1. \A r \in Runs : Grows(written[r], written'[r])
    BY DEF Grows
  <2>2. written' \in [Runs -> Seq(Nat)]
    BY <1>2 DEF Types
  <2> QED
    BY <1>3, <1>4, <2>1, <2>2, Writing
<1>6. TimesInv'
  <2>0. /\ now \in Nat /\ now > 0 /\ written' = written
    BY <1>1 DEF TimesInv, Types
  <2>6. \A r \in Runs : \A i \in DOMAIN written[r] : written[r][i] \in Nat
    <3>1. written \in [Runs -> Seq(Nat)]
      BY <1>1 DEF Types
    <3> QED
      BY ONLY <3>1
  <2>1. now' > 0
    BY <2>0
  <2>2. \A r \in Runs : \A i \in DOMAIN written[r] : 0 < written[r][i] /\ written[r][i] <= now'
    BY <1>1, <2>0, <2>6 DEF TimesInv
  <2>3. \A r \in Runs : Before(Cur', r) => written[r] = <<>>
    BY <1>1, <1>3, RunsAre, Order DEF TimesInv
  <2>4. ASSUME pod'.uid # None, pod'.state = "running", NEW r \in Runs, Before(r, Cur'),
               NEW i \in DOMAIN written[r]
        PROVE  written[r][i] < now'
    <3>1. CASE now' > now
      BY <1>1, <2>0, <2>6, <3>1 DEF TimesInv
    <3>2. CASE Cur' = Cur /\ pod.uid # None /\ pod.state = "running"
      <4>1. written[r][i] < now
        BY <1>1, <2>4, <3>2 DEF TimesInv
      <4>2. now' \in Nat /\ now' >= now /\ written[r][i] \in Nat
        BY <2>0, <2>4, <2>6
      <4> QED
        BY ONLY <2>0, <4>1, <4>2
    <3> QED
      BY <2>4, <3>1, <3>2
  <2>5. /\ \A r \in Runs : Ordered(written[r])
        /\ \A q, r \in Runs : Before(q, r) =>
             \A i \in DOMAIN written[q], j \in DOMAIN written[r] : written[q][i] < written[r][j]
    BY <1>1 DEF TimesInv
  <2> QED
    BY <2>0, <2>1, <2>2, <2>3, <2>4, <2>5 DEF TimesInv, Ordered, Before, Cur
<1> QED
  BY <1>2, <1>5, <1>6 DEF Inv

\* A line written: it is the last one of the current run, and of them all.
LEMMA Writes == ASSUME Inv, Write PROVE Inv'
<1>1. Types /\ TimesInv /\ PodInv /\ Cur \in Nat \X Nat
  BY CurIs DEF Inv
<1>2. PICK t \in {now, now + 1} :
        /\ now' = t /\ written' = [written EXCEPT ![<<pod.uid, pod.run>>] = Append(@, t)]
  BY DEF Write
<1>3. /\ pod.uid # None /\ pod.state = "running"
      /\ UNCHANGED <<pod, task, inbox, gen, stopped, shown, faults, raced>>
  BY DEF Write, view
<1>4. Cur \in Runs /\ Cur = <<pod.uid, pod.run>>
  <2>1. pod.run # 0
    BY <1>1, <1>3 DEF PodInv
  <2>2. pod.uid \in 1 .. MaxPods /\ pod.run \in 1 .. MaxRuns
    BY <1>1, <1>3, <2>1, LogFollowAssumption DEF Types, LogFollowAssumption
  <2> QED
    BY <1>3, <2>2 DEF Cur, Runs
<1>5. /\ now \in Nat /\ t \in Nat /\ now > 0 /\ now <= t /\ written \in [Runs -> Seq(Nat)]
      /\ \A r \in Runs : \A i \in DOMAIN written[r] : written[r][i] \in Nat
  BY <1>1 DEF Types, TimesInv
<1> DEFINE w == written[Cur]
<1>6. /\ w \in Seq(Nat) /\ Len(w) \in Nat /\ DOMAIN w = 1 .. Len(w)
      /\ written'[Cur] = Append(w, t)
      /\ \A r \in Runs : r # Cur => written'[r] = written[r]
  <2>1. written' = [written EXCEPT ![Cur] = Append(w, t)]
    BY <1>2, <1>4
  <2>2. w \in Seq(Nat)
    BY <1>4, <1>5
  <2>3. DOMAIN written = Runs
    BY <1>5
  <2> HIDE DEF w
  <2>4. written'[Cur] = Append(w, t) /\ \A r \in Runs : r # Cur => written'[r] = written[r]
    BY <1>4, <2>1, <2>3
  <2> QED
    BY <2>2, <2>4
<1>7. /\ Append(w, t) \in Seq(Nat) /\ DOMAIN Append(w, t) = 1 .. Len(w) + 1
      /\ \A i \in DOMAIN w : Append(w, t)[i] = w[i]
      /\ Append(w, t)[Len(w) + 1] = t
  BY <1>5, <1>6
<1>8. written' \in [Runs -> Seq(Nat)]
  BY <1>2, <1>4, <1>5, <1>6, <1>7
<1>9. Types'
  BY <1>1, <1>2, <1>3, <1>5, <1>8 DEF Types
<1>10. \A r \in Runs : Grows(written[r], written'[r])
  <2> SUFFICES ASSUME NEW r \in Runs PROVE Grows(written[r], written'[r])
    OBVIOUS
  <2>1. CASE r # Cur
    BY <1>6, <2>1 DEF Grows
  <2>2. CASE r = Cur
    <3>1. Grows(w, Append(w, t))
      <4> HIDE DEF w
      <4> QED
        BY <1>6, <1>7 DEF Grows
    <3> QED
      BY <1>6, <2>2, <3>1
  <2> QED
    BY <2>1, <2>2
<1>11. Cur' = Cur
  BY <1>3 DEF Cur
<1>12. Sent(Trail)' /\ InTurn(Trail)' /\ StreamInv(task, Trail)' /\ Past'
  BY <1>1, <1>3, <1>8, <1>10, <1>11, Order, Writing
<1>13. ASSUME NEW r \in Runs, NEW i \in DOMAIN written'[r]
       PROVE  \/ i \in DOMAIN written[r] /\ written'[r][i] = written[r][i]
              \/ r = Cur /\ i = Len(w) + 1 /\ written'[r][i] = t
  <2>1. CASE r # Cur
    BY <1>6, <1>13, <2>1
  <2>2. CASE r = Cur
    <3>1. written'[r] = Append(w, t) /\ written[r] = w
      BY <1>6, <2>2
    <3> HIDE DEF w
    <3>2. i \in 1 .. Len(w) + 1
      BY <1>7, <1>13, <3>1
    <3>3. CASE i \in DOMAIN w
      BY <1>7, <3>1, <3>3
    <3>4. CASE i = Len(w) + 1
      BY <1>7, <2>2, <3>1, <3>4
    <3> QED
      BY <1>6, <3>2, <3>3, <3>4
  <2> QED
    BY <2>1, <2>2
<1>14. TimesInv'
  <2>1. \A r \in Runs : \A i \in DOMAIN written'[r] : 0 < written'[r][i] /\ written'[r][i] <= t
    BY <1>1, <1>5, <1>13 DEF TimesInv
  <2>2. ASSUME NEW r \in Runs PROVE Ordered(written'[r])
    <3> SUFFICES ASSUME NEW i \in DOMAIN written'[r], NEW j \in DOMAIN written'[r], i < j
                 PROVE  written'[r][i] <= written'[r][j]
      BY DEF Ordered
    <3>1. CASE r # Cur
      BY <1>1, <1>6, <3>1 DEF TimesInv, Ordered
    <3>2. CASE r = Cur
      <4>1. i \in DOMAIN w /\ written'[r][i] = w[i]
        BY <1>6, <1>7, <3>2
      <4>2. CASE j \in DOMAIN w
        BY <1>1, <1>4, <1>6, <1>7, <3>2, <4>1, <4>2 DEF TimesInv, Ordered
      <4>3. CASE j = Len(w) + 1
        <5>1. w[i] <= now /\ w[i] \in Nat
          BY <1>1, <1>4, <1>5, <4>1 DEF TimesInv
        <5>2. written'[r][j] = t
          BY <1>6, <1>7, <3>2, <4>3
        <5> QED
          BY <1>5, <4>1, <5>1, <5>2
      <4> QED
        BY SMTT(20), <1>6, <1>7, <3>2, <4>2, <4>3
    <3> QED
      BY <3>1, <3>2
  <2>3. \A r \in Runs : Before(Cur, r) => written'[r] = <<>>
    BY <1>1, <1>6, Order DEF TimesInv
  <2>4. ASSUME NEW q \in Runs, NEW r \in Runs, Before(q, r),
               NEW i \in DOMAIN written'[q], NEW j \in DOMAIN written'[r]
        PROVE  written'[q][i] < written'[r][j]
    <3>1. q # Cur
      BY <2>3, <2>4
    <3>2. i \in DOMAIN written[q] /\ written'[q][i] = written[q][i]
      BY <1>6, <3>1
    <3>3. CASE j \in DOMAIN written[r] /\ written'[r][j] = written[r][j]
      BY <1>1, <2>4, <3>2, <3>3 DEF TimesInv
    <3>4. CASE r = Cur /\ written'[r][j] = t
      <4>1. written[q][i] < now
        BY <1>1, <1>3, <2>4, <3>2, <3>4 DEF TimesInv
      <4> QED
        BY <1>5, <3>2, <3>4, <4>1
    <3> QED
      BY <1>13, <3>3, <3>4
  <2>5. ASSUME NEW r \in Runs, Before(r, Cur), NEW i \in DOMAIN written'[r]
        PROVE  written'[r][i] < t
    <3>1. r # Cur
      BY <1>1, <2>5, Order
    <3>2. i \in DOMAIN written[r] /\ written'[r][i] = written[r][i]
      BY <1>6, <3>1
    <3>3. written[r][i] < now
      BY <1>1, <1>3, <2>5, <3>2 DEF TimesInv
    <3> QED
      BY <1>5, <3>2, <3>3
  <2>6. now' > 0
    BY <1>2, <1>5
  <2>7. \A r \in Runs : (Before(Cur, r)' <=> Before(Cur, r)) /\ (Before(r, Cur)' <=> Before(r, Cur))
    BY <1>11 DEF Before
  <2>8. /\ \A q, r \in Runs : Before(q, r)' <=> Before(q, r)
        /\ \A r \in Runs : Ordered(written[r])' <=> Ordered(written'[r])
    BY DEF Before, Ordered
  <2> QED
    BY <1>2, <2>1, <2>2, <2>3, <2>4, <2>5, <2>6, <2>7, <2>8 DEF TimesInv
<1> QED
  BY <1>1, <1>3, <1>9, <1>12, <1>14 DEF Inv, PodInv

\* Whatever the cluster does, the invariant holds.
LEMMA ClusterStep == ASSUME Inv, Cluster PROVE Inv'
<1>1. Types /\ PodInv /\ now \in Nat
  BY DEF Inv, Types
<1>2. /\ pod.uid \in Nat /\ pod.last \in Nat /\ pod.run \in Nat
      /\ pod.uid \in 0 .. MaxPods /\ pod.last \in 0 .. MaxPods /\ pod.run \in 0 .. MaxRuns
      /\ MaxPods \in Nat /\ MaxRuns \in Nat
  BY <1>1, PodIs, LogFollowAssumption DEF Types, LogFollowAssumption
<1>3. CASE Write
  BY <1>3, Writes
<1>4. CASE Starts
  <2>1. /\ pod' = [pod EXCEPT !.run = pod.run + 1, !.state = "running"] /\ now' = now + 1
        /\ pod.uid # None /\ pod.run + 1 <= MaxRuns
        /\ UNCHANGED <<written, task, inbox, gen, shown, raced>>
    BY <1>2, <1>4 DEF Starts, view
  <2>2. pod' \in [uid : 0 .. MaxPods, run : 0 .. MaxRuns, last : 0 .. MaxPods,
                  state : {"waiting", "running", "exited", "over"}]
    <3>1. pod.run + 1 \in 0 .. MaxRuns
      BY <1>2, <2>1
    <3> QED
      BY <1>1, <2>1, <3>1 DEF Types
  <2>3. /\ pod'.uid = pod.uid /\ pod'.run = pod.run + 1 /\ pod'.last = pod.last
        /\ pod'.state = "running"
    BY <1>1, <2>1 DEF Types
  <2>4. PodInv'
    BY <1>1, <1>2, <2>1, <2>3 DEF PodInv
  <2>5. Before(Cur, Cur')
    BY <1>2, <2>1, <2>3 DEF Before, Cur
  <2> QED
    BY <1>1, <2>1, <2>2, <2>4, <2>5, PodMoves
<1>5. ASSUME NEW s \in {"exited", "over"}, Exits(s) PROVE Inv'
  <2>1. /\ pod' = [pod EXCEPT !.state = s] /\ now' = now /\ pod.uid # None
        /\ UNCHANGED <<written, task, inbox, gen, shown, raced>>
    BY <1>5 DEF Exits, view
  <2>2. pod' \in [uid : 0 .. MaxPods, run : 0 .. MaxRuns, last : 0 .. MaxPods,
                  state : {"waiting", "running", "exited", "over"}]
    BY <1>1, <2>1 DEF Types
  <2>3. pod'.uid = pod.uid /\ pod'.run = pod.run /\ pod'.last = pod.last /\ pod'.state = s
    BY <1>1, <2>1 DEF Types
  <2>4. PodInv' /\ Cur' = Cur /\ pod'.state # "running"
    BY <1>1, <1>5, <2>3 DEF PodInv, Cur
  <2> QED
    BY <1>1, <2>1, <2>2, <2>4, PodMoves
<1>6. CASE PodGone
  <2>1. /\ pod' = [pod EXCEPT !.uid = 0, !.last = pod.uid] /\ now' = now /\ pod.uid # None
        /\ UNCHANGED <<written, task, inbox, gen, shown, raced>>
    BY <1>6 DEF PodGone, view
  <2>2. pod' \in [uid : 0 .. MaxPods, run : 0 .. MaxRuns, last : 0 .. MaxPods,
                  state : {"waiting", "running", "exited", "over"}]
    <3>1. 0 \in 0 .. MaxPods
      BY <1>2
    <3> QED
      BY <1>1, <1>2, <2>1, <3>1 DEF Types
  <2>3. pod'.uid = None /\ pod'.run = pod.run /\ pod'.last = pod.uid
    BY <1>1, <2>1 DEF Types
  <2>4. PodInv' /\ Cur' = Cur
    BY <1>1, <2>1, <2>3 DEF PodInv, Cur
  <2> QED
    BY <1>1, <2>1, <2>2, <2>3, <2>4, PodMoves
<1>7. CASE PodBack
  <2>1. /\ pod' = [uid |-> pod.last + 1, run |-> 0, state |-> "waiting", last |-> pod.last]
        /\ now' = now /\ pod.uid = None /\ pod.last + 1 <= MaxPods
        /\ UNCHANGED <<written, task, inbox, gen, shown, raced>>
    BY <1>2, <1>7 DEF PodBack, view
  <2>2. pod' \in [uid : 0 .. MaxPods, run : 0 .. MaxRuns, last : 0 .. MaxPods,
                  state : {"waiting", "running", "exited", "over"}]
    BY <1>2, <2>1
  <2>3. pod'.uid = pod.last + 1 /\ pod'.run = 0 /\ pod'.last = pod.last /\ pod'.state = "waiting"
    BY <2>1
  <2>4. PodInv' /\ Before(Cur, Cur') /\ pod'.state # "running"
    BY <1>2, <2>1, <2>3 DEF PodInv, Cur, Before
  <2> QED
    BY <1>1, <2>1, <2>2, <2>4, PodMoves
<1> QED
  BY <1>3, <1>4, <1>5, <1>6, <1>7 DEF Cluster

-----------------------------------------------------------------------------
(* The steps of the stream and of the view.                                *)

\* A step of the stream that opens and sends nothing.
LEMMA TaskMoves ==
  ASSUME Inv, NEW k \in Tasks, StreamInv(k, Trail), Task(k), UNCHANGED raced
  PROVE  Inv'
<1>1. UNCHANGED <<pod, written, now, inbox, gen, shown, raced>> /\ task' = k
  BY DEF Task, cluster, view
<1>2. Trail' = Trail
  BY <1>1, TrailStays
<1>3. Types' /\ PodInv' /\ TimesInv' /\ Past'
  BY <1>1 DEF Inv, Types, PodInv, TimesInv, Past, Ordered, Before, Cur
<1>4. Sent(Trail)' /\ InTurn(Trail)'
  BY <1>1, <1>2 DEF Inv, Sent, InTurn, Lines, RunOf, TailSplits, Consecutive, Of
<1>5. StreamInv(task, Trail)'
  BY <1>1, <1>2 DEF StreamInv, Knows, UidInv, Fresh, Earlier, Anchor, Counted, Rested, ConnInv,
     Reads, Latest, Follows, Conn, Lines, RunOf, LastIn, Of, TailSplits, Before, Cur
<1> QED
  BY <1>3, <1>4, <1>5 DEF Inv

\* A connection opened.
LEMMA OpenStep == ASSUME Inv, Opened PROVE Inv'
<1>1. /\ UNCHANGED <<pod, written, now, inbox, gen, shown>> /\ task' \in Tasks
      /\ InTurn(Trail)' /\ StreamInv(task, Trail)'
  BY OpensWell DEF Opened, Task, cluster, view
<1>2. Trail' = Trail
  BY <1>1, TrailStays
<1>3. Types' /\ PodInv' /\ TimesInv' /\ Past'
  BY <1>1 DEF Inv, Types, PodInv, TimesInv, Past, Ordered, Before, Cur
<1>4. Sent(Trail)'
  BY <1>1, <1>2 DEF Inv, Sent, Lines, RunOf
<1> QED
  BY <1>1, <1>3, <1>4 DEF Inv

\* A line delivered: dropped, or on its way to the view.
LEMMA DeliverStep == ASSUME Inv, Deliver PROVE Inv'
<1> DEFINE T == Trail
           w == written[Conn(task)]
           a == Admit(task.resume, w[task.conn.pos])
           l == [uid |-> task.conn.uid, run |-> task.conn.run, n |-> task.conn.pos]
<1>1. /\ T \in Seq(Line) /\ task \in Tasks /\ StreamInv(task, T) /\ Sent(T) /\ InTurn(T)
      /\ Types /\ TimesInv
  BY TrailIs DEF Inv, Types
<1>2. /\ task.pc = "pump" /\ task.conn.pos <= Len(w)
      /\ task' = Further(task, a.r)
      /\ inbox' = IF a.ok THEN Append(inbox, [gen |-> task.gen, line |-> l]) ELSE inbox
      /\ UNCHANGED <<pod, written, now, gen, shown, raced>>
  BY DEF Deliver, cluster, Further, Conn
<1>3. w \in Seq(Nat) /\ task.conn.pos \in DOMAIN w
  <2>1. Conn(task) \in Runs /\ task.conn.pos > 0 /\ task.conn.pos \in Nat
    BY <1>1, <1>2 DEF StreamInv, ConnInv, Tasks, Connection
  <2> QED
    BY <1>1, <1>2, <2>1 DEF Types
<1>4. PodInv' /\ TimesInv'
  BY <1>2 DEF Inv, PodInv, TimesInv, Ordered, Before, Cur
<1>5. ASSUME NEW k, NEW U, task' = k, Trail' = U,
             Sent(U), InTurn(U), StreamInv(k, U)
      PROVE  Sent(Trail)' /\ InTurn(Trail)' /\ StreamInv(task, Trail)'
  <2>1. Sent(Trail)' /\ InTurn(Trail)'
    BY <1>2, <1>5 DEF Sent, InTurn, Lines, RunOf, TailSplits, Consecutive, Of
  <2>2. StreamInv(task, Trail)'
    BY SMTT(20), <1>2, <1>5 DEF StreamInv, Knows, UidInv, Fresh, Earlier, Anchor, Counted, Rested, ConnInv,
       Reads, Latest, Follows, Conn, Lines, RunOf, LastIn, Of, TailSplits, Before, Cur
  <2> QED
    BY <2>1, <2>2
<1>6. CASE Old(task.resume, w[task.conn.pos])
  <2>1. a.ok = FALSE /\ task' \in Tasks /\ StreamInv(task', T)
    BY <1>1, <1>2, <1>3, <1>6, Drops
  <2>3. inbox' = inbox /\ Trail' = T
    BY <1>2, <2>1, TrailStays
  <2>4. Sent(Trail)' /\ InTurn(Trail)' /\ StreamInv(task, Trail)'
    BY <1>1, <1>5, <2>1, <2>3
  <2> QED
    BY <1>1, <1>2, <1>4, <2>1, <2>3, <2>4 DEF Inv, Types, Past
<1>7. CASE ~Old(task.resume, w[task.conn.pos])
  <2>1. /\ a.ok = TRUE /\ task' \in Tasks /\ Sent(Append(T, l)) /\ InTurn(Append(T, l))
        /\ StreamInv(task', Append(T, l))
    <3> DEFINE m == task'
               U == Append(T, l)
    <3>1. /\ Types /\ TimesInv /\ T \in Seq(Line) /\ Sent(T) /\ InTurn(T)
          /\ Sendable(T, task, w, a, m, l, U)
      BY <1>1, <1>2, <1>3, <1>7 DEF Sendable
    <3> HIDE DEF T, w, a, l, m, U
    <3>2. WellSent(a, m, U)
      BY ONLY <3>1, Sends
    <3> QED
      BY <3>2 DEF WellSent, m, U
  <2> DEFINE b == [gen |-> task.gen, line |-> l]
  <2>2. inbox' = Append(inbox, b)
    BY <1>2, <2>1
  <2>3. b \in Batch /\ b.gen = gen /\ b.line = l
    BY <1>1 DEF Batch, Line, Tasks, Connection, StreamInv
  <2>4. Trail' = Append(T, l)
    <3>1. /\ Len(inbox) \in Nat /\ Len(inbox') = Len(inbox) + 1 /\ inbox'[Len(inbox) + 1] = b
          /\ \A i \in 1 .. Len(inbox) : inbox'[i] = inbox[i]
      BY <1>1, <2>2, <2>3 DEF Types
    <3>2. /\ Len(shown) \in Nat /\ Len(T) = Len(shown) + Len(inbox)
          /\ l \in Line
      BY <1>1, <2>3, TrailIs DEF Types, Batch
    <3>3. /\ DOMAIN Append(T, l) = 1 .. Len(T) + 1
          /\ Append(T, l) = [i \in 1 .. Len(T) + 1 |-> Append(T, l)[i]]
          /\ \A i \in 1 .. Len(T) : Append(T, l)[i] = T[i]
          /\ Append(T, l)[Len(T) + 1] = l
      BY <1>1, <3>2
    <3>4. DOMAIN Trail' = 1 .. Len(T) + 1 /\ Trail' = [i \in 1 .. Len(T) + 1 |-> Trail'[i]]
      <4>1. shown' = shown /\ Len(shown') + Len(inbox') = Len(T) + 1
        BY <1>2, <3>1, <3>2
      <4>2. Trail' = [i \in 1 .. Len(shown') + Len(inbox') |->
                        IF i <= Len(shown') THEN shown'[i]
                        ELSE IF inbox'[i - Len(shown')].gen = gen'
                             THEN inbox'[i - Len(shown')].line ELSE NoLine]
        BY DEF Trail
      <4> HIDE DEF T
      <4> QED
        BY <4>1, <4>2
    <3>8. /\ \A i \in 1 .. Len(T) :
               T[i] = IF i <= Len(shown) THEN shown[i]
                      ELSE IF inbox[i - Len(shown)].gen = gen
                           THEN inbox[i - Len(shown)].line ELSE NoLine
          /\ \A i \in 1 .. Len(T) + 1 :
               Trail'[i] = IF i <= Len(shown) THEN shown[i]
                           ELSE IF inbox'[i - Len(shown)].gen = gen
                                THEN inbox'[i - Len(shown)].line ELSE NoLine
      <4>1. shown' = shown /\ gen' = gen /\ Len(shown) + Len(inbox') = Len(T) + 1
        BY <1>2, <3>1, <3>2
      <4> QED
        BY <3>2, <4>1 DEF Trail
    <3>9. l = b.line /\ b.gen = gen /\ Len(T) \in Nat
      BY <1>1, <2>3
    <3> HIDE DEF T, l, b
    <3>5. \A i \in 1 .. Len(T) : Trail'[i] = T[i]
      <4> SUFFICES ASSUME NEW i \in 1 .. Len(T) PROVE Trail'[i] = T[i]
        OBVIOUS
      <4>1. i \in 1 .. Len(T) + 1
        BY <3>9
      <4>2. i > Len(shown) => inbox'[i - Len(shown)] = inbox[i - Len(shown)]
        BY <3>1, <3>2
      <4>3. i \in Nat /\ Len(shown) \in Nat
        BY <3>2, <3>9
      <4> QED
        BY <3>8, <4>1, <4>2, <4>3
    <3>6. Trail'[Len(T) + 1] = l
      <4>1. /\ Len(T) + 1 \in 1 .. Len(T) + 1 /\ ~(Len(T) + 1 <= Len(shown))
            /\ (Len(T) + 1) - Len(shown) = Len(inbox) + 1
        BY <3>1, <3>2, <3>9
      <4>2. inbox'[(Len(T) + 1) - Len(shown)] = b
        BY <3>1, <4>1
      <4> QED
        BY <3>8, <3>9, <4>1, <4>2
    <3> HIDE DEF T, l
    <3>7. \A i \in 1 .. Len(T) + 1 : Trail'[i] = Append(T, l)[i]
      BY <3>2, <3>3, <3>5, <3>6
    <3> QED
      BY <3>3, <3>4, <3>7
  <2>5. Sent(Trail)' /\ InTurn(Trail)' /\ StreamInv(task, Trail)'
    BY <1>5, <2>1, <2>4
  <2>6. Types' /\ Past'
    <3>1. inbox \in Seq(Batch) /\ gen \in Nat
      BY <1>1 DEF Types
    <3> HIDE DEF b
    <3>2. inbox' \in Seq(Batch)
      BY <2>2, <2>3, <3>1
    <3>3. Types'
      BY <1>1, <1>2, <2>1, <3>2 DEF Types
    <3>4. \A i \in DOMAIN inbox' : inbox'[i] = b \/ (i \in DOMAIN inbox /\ inbox'[i] = inbox[i])
      BY <2>2, <2>3, <3>1
    <3>5. \A i \in DOMAIN inbox : inbox[i].gen <= gen
      BY DEF Inv, Past
    <3>6. gen' = gen /\ b.gen <= gen
      BY <1>2, <2>3, <3>1
    <3> QED
      BY <3>3, <3>4, <3>5, <3>6 DEF Past
  <2> QED
    BY <1>4, <2>5, <2>6 DEF Inv
<1> QED
  BY <1>6, <1>7

\* Whatever the stream does, the invariant holds.
LEMMA StreamStep == ASSUME Inv, Stream PROVE Inv'
<1> DEFINE T == Trail
<1>1. /\ T \in Seq(Line) /\ task \in Tasks /\ StreamInv(task, T) /\ Sent(T)
      /\ Types /\ TimesInv
  BY TrailIs DEF Inv, Types
<1>2. ASSUME NEW pc \in {"check", "open", "after"}, task.pc # "done",
             pc = "after" \/ task.pc \in {"check", "open"},
             \/ Task([task EXCEPT !.pc = pc])
             \/ Task([task EXCEPT !.pc = pc, !.conn = NoConn]),
             UNCHANGED raced
      PROVE  Inv'
  <2>1. task' \in Tasks /\ StreamInv(task', T)
    BY <1>1, <1>2, Moves DEF Task
  <2> QED
    BY <1>2, <2>1, TaskMoves DEF Task
<1>3. ASSUME NEW w \in {"gone", "replaced", "finished", "refused"}, Task(End(w)),
             UNCHANGED raced
      PROVE  Inv'
  <2>1. task' \in Tasks /\ StreamInv(task', T)
    BY <1>1, <1>3, Ends DEF Task, End
  <2> QED
    BY <1>3, <2>1, TaskMoves DEF Task
<1>4. ASSUME NEW k, k = Identity \/ k = StreamEnd, NEW pc \in {"check", "open"},
             task.pc \in {"check", "open"}, Task(GoOn(k, pc)), UNCHANGED raced
      PROVE  Inv'
  <2>1. k \in Tasks /\ StreamInv(k, T) /\ (k.pc = task.pc \/ k.pc = "done")
    BY <1>1, <1>4, Identifies
  <2>2. GoOn(k, pc) \in Tasks /\ StreamInv(GoOn(k, pc), T)
    <3>1. CASE k.pc = "done"
      BY <2>1, <3>1 DEF GoOn
    <3>2. CASE k.pc # "done"
      <4>1. GoOn(k, pc) = [k EXCEPT !.pc = pc]
        BY <3>2 DEF GoOn
      <4> QED
        BY <1>4, <2>1, <3>2, <4>1, Moves
    <3> QED
      BY <3>1, <3>2
  <2> QED
    BY <1>4, <2>2, TaskMoves
<1>5. CASE Check
  <2>1. task.pc = "check" /\ UNCHANGED raced
    BY <1>5 DEF Check
  <2>2. CASE Task([task EXCEPT !.pc = "open"])
    BY <1>2, <2>1, <2>2
  <2>3. CASE Task(GoOn(Identity, "open"))
    BY <1>4, <2>1, <2>3
  <2>4. CASE Task(End("refused"))
    BY <1>3, <2>1, <2>4
  <2>5. CASE Task(task)
    BY <1>1, <2>1, <2>5, TaskMoves
  <2> QED
    BY <1>5, <2>2, <2>3, <2>4, <2>5 DEF Check
<1>6. CASE NotOpened
  BY <1>2, <1>6 DEF NotOpened
<1>7. CASE OpenRefused
  BY <1>3, <1>7 DEF OpenRefused
<1>8. CASE NotStarted
  <2>1. CASE Task(GoOn(StreamEnd, "check"))
    BY <1>4, <1>8, <2>1 DEF NotStarted
  <2>2. CASE Task([task EXCEPT !.pc = "check"])
    BY <1>2, <1>8, <2>2 DEF NotStarted
  <2> QED
    BY <1>8, <2>1, <2>2 DEF NotStarted
<1>9. CASE StreamOver
  BY <1>2, <1>9 DEF StreamOver
<1>10. CASE After
  <2>1. task.pc = "after" /\ UNCHANGED raced /\ (Task(Rewind(StreamEnd)) \/ Task(Rewind(task)))
    BY <1>10 DEF After
  <2>2. StreamEnd \in Tasks /\ StreamInv(StreamEnd, T) /\ StreamEnd.pc \in {"after", "done"}
    BY <1>1, <2>1, Identifies
  <2>3. task' \in Tasks /\ StreamInv(task', T)
    BY <1>1, <2>1, <2>2, Rewinds DEF Task
  <2> QED
    BY <2>1, <2>3, TaskMoves DEF Task
<1>11. CASE WokenOpening
  BY <1>2, <1>11 DEF WokenOpening
<1> QED
  BY <1>5, <1>6, <1>7, <1>8, <1>9, <1>10, <1>11, OpenStep, DeliverStep DEF Stream

\* A batch handled: its line is shown, or it is of an earlier generation and dropped.
LEMMA HandleStep == ASSUME Inv, HandleLines PROVE Inv'
<1>1. /\ Trail \in Seq(Line) /\ Len(Trail) = Len(shown) + Len(inbox)
      /\ DOMAIN Trail = 1 .. Len(shown) + Len(inbox)
      /\ \A i \in 1 .. Len(shown) : Trail[i] = shown[i]
      /\ \A i \in 1 .. Len(inbox) :
           Trail[Len(shown) + i] = IF inbox[i].gen = gen THEN inbox[i].line ELSE NoLine
      /\ Types /\ task \in Tasks /\ inbox \in Seq(Batch) /\ shown \in Seq(Line)
  BY TrailIs DEF Inv, Types
<1>2. /\ inbox # <<>> /\ inbox' = Tail(inbox)
      /\ shown' = IF inbox[1].gen = gen THEN Append(shown, inbox[1].line) ELSE shown
      /\ UNCHANGED <<pod, written, now, task, gen, raced>>
  BY DEF HandleLines, cluster
<1>3. /\ Len(shown) \in Nat /\ Len(inbox) \in Nat /\ Len(inbox) > 0
      /\ inbox' \in Seq(Batch) /\ Len(inbox') = Len(inbox) - 1
      /\ \A i \in 1 .. Len(inbox) - 1 : inbox'[i] = inbox[i + 1]
      /\ inbox[1] \in Batch /\ inbox[1].line \in Line
  <2>1. inbox \in Seq(Batch) /\ inbox # <<>> /\ inbox' = Tail(inbox)
    BY <1>1, <1>2
  <2>2. /\ Len(inbox) \in Nat /\ Len(inbox) > 0
        /\ inbox' \in Seq(Batch) /\ Len(inbox') = Len(inbox) - 1
        /\ \A i \in 1 .. Len(inbox) - 1 : inbox'[i] = inbox[i + 1]
        /\ inbox[1] \in Batch
    BY ONLY <2>1
  <2>3. inbox[1].line \in Line
    BY ONLY <2>2 DEF Batch
  <2>4. Len(shown) \in Nat
    BY <1>1
  <2> QED
    BY <1>2, <2>2, <2>3, <2>4
<1>4. PodInv' /\ TimesInv'
  BY <1>2 DEF Inv, PodInv, TimesInv, Ordered, Before, Cur
<1>5. Types'
  BY <1>1, <1>2, <1>3 DEF Types
<1>6. Past'
  BY <1>1, <1>2, <1>3 DEF Inv, Past
<1>7. Trail' = [i \in 1 .. Len(shown') + Len(inbox') |->
                  IF i <= Len(shown') THEN shown'[i]
                  ELSE IF inbox'[i - Len(shown')].gen = gen
                       THEN inbox'[i - Len(shown')].line ELSE NoLine]
  BY <1>2 DEF Trail
<1>8. ASSUME NEW U, Trail' = U, Sent(U), InTurn(U), StreamInv(task, U)
      PROVE  Sent(Trail)' /\ InTurn(Trail)' /\ StreamInv(task, Trail)'
  <2>0. UNCHANGED <<pod, written, gen, raced>> /\ task' = task
    BY <1>2
  <2>1. Sent(Trail)' /\ InTurn(Trail)'
    BY <1>2, <1>8 DEF Sent, InTurn, Lines, RunOf, TailSplits, Consecutive, Of
  <2>2. StreamInv(task, Trail)'
    BY ONLY <1>8, <2>0 DEF StreamInv, Knows, UidInv, Fresh, Earlier, Anchor, Counted, Rested, ConnInv,
       Reads, Latest, Follows, Conn, Lines, RunOf, LastIn, Of, TailSplits, Before, Cur
  <2> QED
    BY <2>1, <2>2
<1>9. CASE inbox[1].gen = gen
  <2>1. /\ Len(shown') = Len(shown) + 1 /\ shown'[Len(shown) + 1] = inbox[1].line
        /\ \A i \in 1 .. Len(shown) : shown'[i] = shown[i]
    BY <1>1, <1>2, <1>3, <1>9
  <2>2. Len(shown') + Len(inbox') = Len(shown) + Len(inbox)
    BY <1>3, <2>1
  <2>3. ASSUME NEW i \in 1 .. Len(shown) + Len(inbox) PROVE Trail'[i] = Trail[i]
    <3>1. CASE i <= Len(shown)
      BY <1>1, <1>3, <1>7, <2>1, <2>2, <3>1
    <3>2. CASE i = Len(shown) + 1
      BY <1>1, <1>3, <1>7, <1>9, <2>1, <2>2, <3>2
    <3>3. CASE i > Len(shown) + 1
      <4>1. /\ ~(i <= Len(shown')) /\ i - Len(shown') \in 1 .. Len(inbox) - 1
            /\ i - Len(shown') + 1 = i - Len(shown) /\ i - Len(shown) \in 1 .. Len(inbox)
            /\ Len(shown) + (i - Len(shown)) = i
        BY <1>3, <2>1, <2>3, <3>3
      <4>2. inbox'[i - Len(shown')] = inbox[i - Len(shown)]
        BY <1>3, <4>1
      <4>3. Trail[i] = IF inbox[i - Len(shown)].gen = gen
                       THEN inbox[i - Len(shown)].line ELSE NoLine
        BY <1>1, <4>1
      <4>4. Trail'[i] = IF inbox'[i - Len(shown')].gen = gen
                        THEN inbox'[i - Len(shown')].line ELSE NoLine
        BY <1>7, <2>2, <4>1
      <4> QED
        BY <4>2, <4>3, <4>4
    <3>4. i <= Len(shown) \/ i = Len(shown) + 1 \/ i > Len(shown) + 1
      <4>1. i \in Nat /\ Len(shown) \in Nat /\ Len(inbox) \in Nat
        BY <1>3, <2>3
      <4> QED
        BY ONLY <4>1
    <3> QED
      BY <3>1, <3>2, <3>3, <3>4
  <2>4. Trail' = [i \in 1 .. Len(shown) + Len(inbox) |-> Trail'[i]]
    BY <1>7, <2>2
  <2>5. Trail = [i \in 1 .. Len(shown) + Len(inbox) |-> Trail[i]]
    BY DEF Trail
  <2>6. Trail' = Trail
    BY <2>3, <2>4, <2>5
  <2> QED
    BY <1>4, <1>5, <1>6, <1>8, <2>6 DEF Inv
<1>10. CASE inbox[1].gen # gen
  <2> DEFINE U == Trail'
             d == Len(shown) + 1
  <2>1. shown' = shown /\ Len(shown') + Len(inbox') = Len(shown) + Len(inbox) - 1
    BY <1>2, <1>3, <1>10
  <2>2. ASSUME NEW i \in 1 .. Len(shown) + Len(inbox) - 1
        PROVE  U[i] = Trail[Skip(d, i)]
    <3>1. CASE i <= Len(shown)
      <4>1. Skip(d, i) = i /\ i \in 1 .. Len(shown)
        BY <1>3, <3>1 DEF Skip
      <4>2. U[i] = shown[i]
        BY <1>7, <2>1, <3>1
      <4> QED
        BY <1>1, <4>1, <4>2
    <3>2. CASE i > Len(shown)
      <4>1. /\ ~(i <= Len(shown)) /\ i - Len(shown) \in 1 .. Len(inbox) - 1
            /\ i - Len(shown) + 1 \in 1 .. Len(inbox)
            /\ Skip(d, i) = Len(shown) + (i - Len(shown) + 1)
        BY <1>3, <3>2 DEF Skip
      <4>2. inbox'[i - Len(shown)] = inbox[i - Len(shown) + 1]
        BY <1>3, <4>1
      <4>3. U[i] = IF inbox'[i - Len(shown)].gen = gen THEN inbox'[i - Len(shown)].line ELSE NoLine
        BY <1>7, <2>1, <4>1
      <4> QED
        BY <1>1, <4>1, <4>2, <4>3
    <3> QED
      BY <1>3, <3>1, <3>2
  <2>3. DOMAIN U = 1 .. Len(shown) + Len(inbox) - 1
    BY <1>7, <2>1
  <2>4. \A i \in 1 .. Len(shown) + Len(inbox) - 1 : U[i] \in Line
    <3>1. \A i \in 1 .. Len(shown) + Len(inbox) - 1 : Skip(d, i) \in DOMAIN Trail
      BY <1>1, <1>3 DEF Skip
    <3> QED
      BY <1>1, <2>2, <3>1
  <2>5. U = [i \in 1 .. Len(shown) + Len(inbox) - 1 |-> U[i]]
    BY <1>7, <2>1
  <2> HIDE DEF U
  <2>6. U \in Seq(Line) /\ Len(U) = Len(shown) + Len(inbox) - 1
    BY <1>3, <2>3, <2>4, <2>5
  <2>7. d \in DOMAIN Trail /\ Trail[d] = NoLine
    BY <1>1, <1>3, <1>10
  <2>8. ClosesUp(Trail, U, d)
    BY <1>1, <1>3, <2>2, <2>3, <2>6, <2>7 DEF ClosesUp
  <2>9. Sent(U) /\ InTurn(U) /\ StreamInv(task, U)
    BY <1>1, <2>6, <2>8, KnowsClosedUp DEF Inv
  <2>10. Trail' = U
    BY DEF U
  <2> QED
    BY <1>4, <1>5, <1>6, <1>8, <2>9, <2>10 DEF Inv
<1> QED
  BY <1>9, <1>10

-----------------------------------------------------------------------------
(* A generation over: nothing on its way is for the view any more.         *)

\* Of the trail only what is shown is left.
LEMMA NewGeneration ==
  ASSUME Inv, UNCHANGED inbox, gen' = gen + 1, shown' \in Seq(Line)
  PROVE  /\ Trail' \in Seq(Line) /\ Len(shown') \in Nat /\ Len(shown') <= Len(Trail')
         /\ \A i \in 1 .. Len(shown') : Trail'[i] = shown'[i]
         /\ \A i \in DOMAIN Trail' : i > Len(shown') => Trail'[i] = NoLine
         /\ Past'
<1>1. /\ inbox \in Seq(Batch) /\ gen \in Nat /\ Len(inbox) \in Nat /\ Len(shown') \in Nat
      /\ NoLine \in Line
  BY DEF Inv, Types, NoLine, Line
<1>2. \A i \in 1 .. Len(inbox) : inbox[i].gen \in Nat /\ inbox[i].gen <= gen
  <2>1. \A i \in 1 .. Len(inbox) : inbox[i].gen <= gen
    BY <1>1 DEF Inv, Past
  <2>2. \A i \in 1 .. Len(inbox) : inbox[i] \in Batch
    BY <1>1
  <2> QED
    BY <2>1, <2>2 DEF Batch
<1>3. \A i \in 1 .. Len(inbox) : inbox'[i].gen # gen' /\ inbox'[i].gen <= gen'
  BY <1>1, <1>2
<1>4. Trail' = [i \in 1 .. Len(shown') + Len(inbox) |->
                  IF i <= Len(shown') THEN shown'[i]
                  ELSE IF inbox'[i - Len(shown')].gen = gen'
                       THEN inbox'[i - Len(shown')].line ELSE NoLine]
  BY DEF Trail
<1>5. \A i \in 1 .. Len(shown') + Len(inbox) :
        ~(i <= Len(shown')) => i - Len(shown') \in 1 .. Len(inbox)
  BY <1>1
<1>6. Trail' = [i \in 1 .. Len(shown') + Len(inbox) |->
                  IF i <= Len(shown') THEN shown'[i] ELSE NoLine]
  BY <1>3, <1>4, <1>5
<1>7. \A i \in 1 .. Len(shown') : shown'[i] \in Line
  OBVIOUS
<1>8. Trail' \in Seq(Line) /\ Len(Trail') = Len(shown') + Len(inbox)
  BY <1>1, <1>6, <1>7
<1>9. /\ \A i \in 1 .. Len(shown') : Trail'[i] = shown'[i]
      /\ \A i \in DOMAIN Trail' : i > Len(shown') => Trail'[i] = NoLine
  BY <1>1, <1>6
<1>10. Past'
  BY <1>1, <1>3 DEF Past
<1> QED
  BY <1>1, <1>8, <1>9, <1>10

\* Stopping leaves what is shown in turn.
LEMMA StopStep == ASSUME Inv, StopStream PROVE Inv'
<1> DEFINE U == Trail'
<1>1. /\ Trail \in Seq(Line) /\ Len(Trail) = Len(shown) + Len(inbox)
      /\ DOMAIN Trail = 1 .. Len(shown) + Len(inbox)
      /\ \A i \in 1 .. Len(shown) : Trail[i] = shown[i]
      /\ Types /\ task \in Tasks /\ shown \in Seq(Line) /\ inbox \in Seq(Batch) /\ gen \in Nat
  BY TrailIs DEF Inv, Types
<1>2. /\ UNCHANGED <<pod, written, now, inbox, shown, raced>> /\ gen' = gen + 1
      /\ task' = [task EXCEPT !.pc = "done", !.ended = "stopped", !.conn = NoConn, !.gen = gen + 1]
  BY <1>1 DEF StopStream, cluster, End, Tasks
<1>3. /\ U \in Seq(Line) /\ Len(shown) \in Nat /\ Len(shown) <= Len(U)
      /\ \A i \in 1 .. Len(shown) : U[i] = shown[i]
      /\ \A i \in DOMAIN U : i > Len(shown) => U[i] = NoLine
      /\ Past'
  BY <1>1, <1>2, NewGeneration
<1>4. task' \in Tasks /\ task'.gen = gen' /\ task'.pc = "done"
      /\ task'.uid = task.uid /\ task'.first = task.first
  <2>1. NoConn \in Connection
    BY DEF NoConn, Connection
  <2>2. gen + 1 \in Nat
    BY <1>1
  <2> QED
    BY <1>1, <1>2, <2>1, <2>2 DEF Tasks
<1>5. Types'
  BY <1>1, <1>2, <1>4 DEF Types
<1>6. PodInv' /\ TimesInv' /\ Cur' = Cur
  BY <1>2 DEF Inv, PodInv, TimesInv, Ordered, Before, Cur
<1>7. StreamInv(task, Trail)'
  BY <1>4, <1>6 DEF Inv, StreamInv
<1>8. Len(inbox) \in Nat /\ Len(shown) <= Len(Trail)
  BY <1>1, <1>3
<1> HIDE DEF U
<1>9. \A i \in 1 .. Len(shown) : U[i] = Trail[i]
  BY <1>1, <1>3
<1>10. Sent(U)
  <2>1. Lines(U) \subseteq Lines(Trail)
    <3> SUFFICES ASSUME NEW i \in DOMAIN U, U[i] # NoLine
                 PROVE  i \in DOMAIN Trail /\ U[i] = Trail[i]
      BY DEF Lines
    <3>1. i \in 1 .. Len(shown)
      BY <1>3
    <3> QED
      BY <1>1, <1>8, <1>9, <3>1
  <2> QED
    BY <2>1 DEF Inv, Sent
<1>11. InTurn(U)
  <2> SUFFICES ASSUME NEW c \in Runs, c[1] \notin raced
               PROVE  TailSplits(U, c) \/ Consecutive(U, c)
    BY DEF InTurn
  <2>1. TailSplits(Trail, c) \/ Consecutive(Trail, c)
    BY DEF Inv, InTurn
  <2> QED
    BY <1>1, <1>3, <1>8, <1>9, <2>1, CutInTurn
<1>12. Trail' = U
  BY DEF U
<1>13. Sent(Trail)' /\ InTurn(Trail)'
  BY <1>2, <1>10, <1>11, <1>12 DEF Sent, InTurn, Lines, RunOf, TailSplits, Consecutive, Of
<1> QED
  BY <1>3, <1>5, <1>6, <1>7, <1>13 DEF Inv

\* Starting again leaves nothing.
LEMMA RetailStep == ASSUME Inv, Retail PROVE Inv'
<1> DEFINE U == Trail'
<1>1. /\ Types /\ task \in Tasks /\ gen \in Nat /\ inbox \in Seq(Batch)
      /\ StreamInv(task, Trail)
  BY DEF Inv, Types
<1>2. /\ UNCHANGED <<pod, written, now, inbox, raced>> /\ gen' = gen + 1 /\ shown' = <<>>
      /\ task' = NewTask(task.pinned, task.first, task.canRead, gen + 1)
  BY DEF Retail, cluster
<1>3. Lines(U) = {} /\ Past'
  <2>1. shown' \in Seq(Line) /\ Len(shown') = 0
    BY <1>2
  <2>2. /\ U \in Seq(Line) /\ \A i \in DOMAIN U : i > 0 => U[i] = NoLine
        /\ Past'
    BY <1>2, <2>1, NewGeneration
  <2>3. \A i \in DOMAIN U : i > 0
    BY <2>2
  <2> QED
    BY <2>2, <2>3 DEF Lines
<1>4. task' \in Tasks
  BY <1>1, <1>2 DEF NewTask, Tasks, NewResume, Resumes, NoConn, Connection
<1>5. /\ task'.gen = gen' /\ task'.uid = task.first /\ task'.first = task.first
      /\ task'.pc = "check" /\ task'.resume = NewResume
  BY <1>1, <1>2 DEF NewTask
<1>6. Types'
  BY <1>1, <1>2, <1>4 DEF Types
<1>7. PodInv' /\ TimesInv' /\ Cur' = Cur
  BY <1>2 DEF Inv, PodInv, TimesInv, Ordered, Before, Cur
<1> HIDE DEF U
<1>8. \A i \in DOMAIN U : \A c \in Runs : ~Of(U, i, c)
  <2>1. \A i \in DOMAIN U : U[i] = NoLine
    BY <1>3 DEF Lines
  <2> QED
    BY <2>1, RunsAre DEF Of, NoLine
<1>9. Trail' = U
  BY DEF U
<1>10. Sent(Trail)' /\ InTurn(Trail)'
  BY <1>2, <1>3, <1>8, <1>9 DEF Sent, InTurn, Lines, TailSplits, Consecutive, Of
<1>11. StreamInv(task, Trail)'
  <2>1. task.first <= Cur[1]
    BY <1>1 DEF StreamInv
  <2>2. Lines(Trail)' = {}
    BY <1>3, <1>9 DEF Lines
  <2>3. Knows(task, Trail)'
    BY <1>5, <2>2 DEF Knows, UidInv, Fresh, NewResume
  <2>4. Rested(task)'
    BY <1>5 DEF Rested, NewResume
  <2> QED
    BY <1>5, <1>7, <2>1, <2>3, <2>4 DEF StreamInv
<1> QED
  BY <1>3, <1>6, <1>7, <1>10, <1>11 DEF Inv

-----------------------------------------------------------------------------
(* The theorems.                                                           *)

\* It holds of a stream that starts.
LEMMA InitInv == ASSUME Init PROVE Inv
<1>1. /\ pod = [uid |-> 1, run |-> 1, state |-> "running", last |-> 0]
      /\ written = [r \in Runs |-> <<>>] /\ now = 2
      /\ inbox = <<>> /\ gen = 1 /\ shown = <<>> /\ raced = {}
  BY DEF Init
<1>2. PICK pinned \in BOOLEAN, uid \in {0, 1}, canRead \in BOOLEAN :
        task = NewTask(pinned, uid, canRead, 1)
  BY DEF Init
<1>3. /\ MaxPods \in Nat /\ MaxRuns \in Nat
      /\ 1 \in 0 .. MaxPods /\ 1 \in 0 .. MaxRuns /\ 0 \in 0 .. MaxPods
  BY LogFollowAssumption DEF LogFollowAssumption
<1>4. task \in Tasks
  BY <1>2 DEF NewTask, Tasks, NewResume, Resumes, NoConn, Connection
<1>5. pod \in [uid : 0 .. MaxPods, run : 0 .. MaxRuns, last : 0 .. MaxPods,
               state : {"waiting", "running", "exited", "over"}]
  BY <1>1, <1>3
<1>6. Types
  BY <1>1, <1>4, <1>5 DEF Types
<1>7. PodInv /\ Past
  BY <1>1 DEF PodInv, Past
<1>8. TimesInv
  BY <1>1 DEF TimesInv, Ordered
<1>9. DOMAIN Trail = {}
  BY <1>1 DEF Trail
<1>10. Lines(Trail) = {}
  BY <1>9 DEF Lines
<1>11. Sent(Trail) /\ InTurn(Trail)
  BY <1>9, <1>10 DEF Sent, InTurn, Consecutive
<1>12. StreamInv(task, Trail)
  <2>1. /\ task.gen = 1 /\ task.uid = uid /\ task.first = uid /\ task.pc = "check"
        /\ task.resume = NewResume
    BY <1>2 DEF NewTask
  <2>2. Cur[1] = 1
    BY <1>1 DEF Cur
  <2>3. Knows(task, Trail)
    BY <1>10, <2>1 DEF Knows, UidInv, Fresh, NewResume
  <2>4. Rested(task)
    BY <2>1 DEF Rested, NewResume
  <2> QED
    BY <1>1, <2>1, <2>2, <2>3, <2>4 DEF StreamInv
<1> QED
  BY <1>6, <1>7, <1>8, <1>11, <1>12 DEF Inv

\* A step that changes nothing.
LEMMA StutterStep == ASSUME Inv, UNCHANGED vars PROVE Inv'
<1>1. UNCHANGED <<pod, written, now, task, inbox, gen, shown, raced>>
  BY DEF vars
<1>2. Trail' = Trail
  BY <1>1, TrailStays
<1>3. Types' /\ PodInv' /\ TimesInv' /\ Past'
  BY <1>1 DEF Inv, Types, PodInv, TimesInv, Past, Ordered, Before, Cur
<1>4. Sent(Trail)' /\ InTurn(Trail)'
  BY <1>1, <1>2 DEF Inv, Sent, InTurn, Lines, RunOf, TailSplits, Consecutive, Of
<1>5. StreamInv(task, Trail)'
  BY <1>1, <1>2 DEF Inv, StreamInv, Knows, UidInv, Fresh, Earlier, Anchor, Counted, Rested, ConnInv,
     Reads, Latest, Follows, Conn, Lines, RunOf, LastIn, Of, TailSplits, Before, Cur
<1> QED
  BY <1>3, <1>4, <1>5 DEF Inv

\* Inv is inductive: it holds in every state of LogFollow.
THEOREM LogInvariant == Spec => []Inv
<1>1. Init => Inv
  BY InitInv
<1>2. Inv /\ [Next]_vars => Inv'
  <2> SUFFICES ASSUME Inv, [Next]_vars PROVE Inv'
    OBVIOUS
  <2>1. CASE Cluster
    BY <2>1, ClusterStep
  <2>2. CASE Stream
    BY <2>2, StreamStep
  <2>3. CASE HandleLines
    BY <2>3, HandleStep
  <2>4. CASE StopStream
    BY <2>4, StopStep
  <2>5. CASE Retail
    BY <2>5, RetailStep
  <2>6. CASE UNCHANGED vars
    BY <2>6, StutterStep
  <2> QED
    BY <2>1, <2>2, <2>3, <2>4, <2>5, <2>6 DEF Next
<1> QED
  BY <1>1, <1>2, PTL DEF Spec

\* LinesConsecutive (LogResume, LogStream::pump): whatever breaks and reconnects, the
\* lines of a run are in the view one after the other, unless the pod was taken for
\* another or the tail started in the middle of a time stamp.
THEOREM LinesInTurn == Spec => []LinesConsecutive
<1>1. Inv => LinesConsecutive
  <2> SUFFICES ASSUME Inv, NEW r \in Runs, r[1] \notin raced, ~TailSplits(shown, r)
               PROVE  Consecutive(shown, r)
    BY DEF LinesConsecutive
  <2>1. /\ Trail \in Seq(Line) /\ shown \in Seq(Line) /\ Len(shown) \in Nat
        /\ Len(shown) <= Len(Trail)
        /\ \A i \in 1 .. Len(shown) : shown[i] = Trail[i]
        /\ \A i \in DOMAIN shown : i > Len(shown) => shown[i] = NoLine
    <3>1. Types /\ Len(shown) \in Nat /\ Len(inbox) \in Nat /\ shown \in Seq(Line)
      BY DEF Inv, Types
    <3> QED
      BY <3>1, TrailIs
  <2>2. TailSplits(Trail, r) \/ Consecutive(Trail, r)
    BY DEF Inv, InTurn
  <2>3. TailSplits(shown, r) \/ Consecutive(shown, r)
    BY <2>1, <2>2, CutInTurn
  <2> QED
    BY <2>3
<1> QED
  BY <1>1, LogInvariant, PTL

-----------------------------------------------------------------------------
(* The pods of a selector (LogSelector).                                   *)

Pod == [exists : {"no", "yes", "gone"}, match : BOOLEAN, term : BOOLEAN]
PodEvent == [kind : {"apply", "delete"}, pod : Pods, term : BOOLEAN]
Watcher ==
  [state : {"empty", "init", "page", "watch", "over", "refused"}, page : SUBSET Pods,
   events : Seq(PodEvent)]

\* A pod that is gone is listed no more, and once its events are through it is not
\* named again.
GoneFor(p) == pods[p].exists = "gone" /\ pods[p].term
Unnamed(p, w) == p \notin w.page /\ \A i \in DOMAIN w.events : w.events[i].pod # p

\* An event says last of a pod that it was deleted while terminating.
SaysLast(q, i) ==
  q[i].kind = "delete" /\ q[i].term /\ q[i].pod \notin relapsed =>
    GoneFor(q[i].pod) /\ \A j \in DOMAIN q : j > i => q[j].pod # q[i].pod

SelectorTypes ==
  /\ pods \in [Pods -> Pod] /\ watch \in Watcher /\ followed \subseteq Pods
  /\ listed \subseteq Pods /\ streams \in [Pods -> Nat]

\* One stream for a pod: it is followed, or will not be again.
Once(p) ==
  streams[p] <= 1 /\ (streams[p] > 0 => p \in followed \/ (GoneFor(p) /\ Unnamed(p, watch)))

SelectorInv ==
  /\ SelectorTypes
  /\ \A p \in Pods : pods[p].exists = "gone" => pods[p].term
  /\ watch.state # "page" => watch.page = {}
  /\ \A i \in DOMAIN watch.events : SaysLast(watch.events, i)
  /\ \A p \in Pods \ relapsed : Once(p)

\* An event more, of a pod that is not gone: of those that are nothing new is said.
LEMMA EventSent ==
  ASSUME SelectorInv, NEW p \in Pods, pods[p].exists # "gone", NEW kind \in {"apply", "delete"},
         watch' = Selector!Event(kind, p) \/ watch' = watch,
         pods' \in [Pods -> Pod], \A q \in Pods : q # p => pods'[q] = pods[q],
         relapsed \subseteq relapsed',
         pods'[p].exists = "gone" => pods'[p].term,
         kind = "delete" /\ pods[p].term => p \in relapsed' \/ GoneFor(p)',
         UNCHANGED <<followed, listed, streams>>
  PROVE  SelectorInv'
<1>1. /\ watch \in Watcher /\ watch.events \in Seq(PodEvent) /\ pods[p].term \in BOOLEAN
      /\ SelectorTypes
  BY DEF SelectorInv, SelectorTypes, Watcher, Pod
<1> DEFINE e == [kind |-> kind, pod |-> p, term |-> pods[p].term]
           q == watch.events
<1>2. e \in PodEvent
  BY <1>1 DEF PodEvent
<1>3. \/ watch' = watch
      \/ /\ watch' \in Watcher /\ watch'.state = watch.state /\ watch'.page = watch.page
         /\ watch'.events = Append(q, e)
  <2>1. watch' = watch \/ watch' = [watch EXCEPT !.events = Append(q, e)]
    BY DEF Selector!Event
  <2>2. Append(q, e) \in Seq(PodEvent)
    BY <1>1, <1>2
  <2> QED
    BY <1>1, <2>1, <2>2 DEF Watcher
<1>4. SelectorTypes'
  BY <1>1, <1>3 DEF SelectorTypes
<1>5. /\ Len(q) \in Nat /\ DOMAIN q = 1 .. Len(q) /\ DOMAIN Append(q, e) = 1 .. Len(q) + 1
      /\ \A i \in 1 .. Len(q) : Append(q, e)[i] = q[i]
      /\ Append(q, e)[Len(q) + 1] = e
  BY <1>1, <1>2
<1>6. \A r \in Pods : r # p => (GoneFor(r)' <=> GoneFor(r))
  BY DEF GoneFor
<1>7. \A i \in DOMAIN q : q[i].pod \in Pods
  <2>1. q \in Seq(PodEvent)
    BY <1>1 DEF Watcher
  <2>2. \A i \in DOMAIN q : q[i] \in PodEvent
    BY <2>1
  <2> QED
    BY <2>2 DEF PodEvent
<1>8. ASSUME NEW i \in DOMAIN watch'.events PROVE SaysLast(watch.events, i)'
  <2>1. CASE i \in DOMAIN q
    <3>1. SaysLast(q, i) /\ watch'.events[i] = q[i]
      BY <1>3, <1>5, <2>1 DEF SelectorInv
    <3> SUFFICES ASSUME NEW r \in Pods, r = q[i].pod,
                        q[i].kind = "delete", q[i].term, r \notin relapsed'
                 PROVE  /\ GoneFor(r)'
                        /\ \A j \in DOMAIN watch'.events : j > i => watch'.events[j].pod # r
      BY <1>7, <2>1, <3>1 DEF SaysLast
    <3>2. GoneFor(r) /\ \A j \in DOMAIN q : j > i => q[j].pod # r
      BY <3>1 DEF SaysLast
    <3>3. r # p
      BY <3>2 DEF GoneFor
    <3>4. e.pod = p
      OBVIOUS
    <3>5. \A j \in DOMAIN watch'.events : \/ j \in DOMAIN q /\ watch'.events[j] = q[j]
                                        \/ watch'.events[j] = e
      BY <1>3, <1>5
    <3> HIDE DEF e, q
    <3> QED
      BY <1>6, <3>2, <3>3, <3>4, <3>5
  <2>2. CASE i \notin DOMAIN q
    <3>1. i = Len(q) + 1 /\ watch'.events[i] = e /\ \A j \in DOMAIN watch'.events : ~(j > i)
      BY <1>3, <1>5, <2>2
    <3>2. e.kind = kind /\ e.pod = p /\ e.term = pods[p].term
      OBVIOUS
    <3> QED
      BY <3>1, <3>2 DEF SaysLast
  <2> QED
    BY <2>1, <2>2
<1>9. ASSUME NEW r \in Pods \ relapsed' PROVE Once(r)'
  <2>1. Once(r)
    BY DEF SelectorInv
  <2>2. CASE r = p
    BY <2>1, <2>2 DEF Once, GoneFor
  <2>3. CASE r # p
    <3>1. Unnamed(r, watch) => Unnamed(r, watch')
      <4>1. e.pod = p /\ watch'.page = watch.page
        BY <1>3
      <4>2. \A j \in DOMAIN watch'.events : \/ j \in DOMAIN q /\ watch'.events[j] = q[j]
                                          \/ watch'.events[j] = e
        BY <1>3, <1>5
      <4> HIDE DEF e
      <4> QED
        BY <2>3, <4>1, <4>2 DEF Unnamed
    <3> QED
      BY <1>6, <2>1, <2>3, <3>1 DEF Once
  <2> QED
    BY <2>2, <2>3
<1> QED
  BY <1>3, <1>4, <1>8, <1>9 DEF SelectorInv

\* Forgetting what the watch was about to say leaves every stream as it was.
LEMMA WatchReset ==
  ASSUME SelectorInv, UNCHANGED <<pods, relapsed>>, watch' \in Watcher,
         watch'.events = <<>>, watch'.page = {}, listed' \subseteq Pods,
         \/ UNCHANGED <<followed, streams>>
         \/ followed' = {} /\ streams' = [p \in Pods |-> 0]
  PROVE  SelectorInv'
<1>1. SelectorTypes'
  BY DEF SelectorInv, SelectorTypes
<1>2. DOMAIN watch'.events = {}
  OBVIOUS
<1>3. \A p \in Pods \ relapsed : Once(p)'
  <2>1. \A p \in Pods : Unnamed(p, watch')
    BY <1>2 DEF Unnamed
  <2>2. CASE UNCHANGED <<followed, streams>>
    BY <2>1, <2>2 DEF SelectorInv, Once, GoneFor
  <2>3. CASE streams' = [p \in Pods |-> 0]
    BY <2>3 DEF Once
  <2> QED
    BY <2>2, <2>3
<1> QED
  BY <1>1, <1>2, <1>3 DEF SelectorInv

\* Following a pod the watch names gives it a stream only when it has none.
LEMMA Followed ==
  ASSUME SelectorInv, NEW p \in Pods, ~Unnamed(p, watch), Selector!Follow(p),
         UNCHANGED <<pods, relapsed>>, watch' \in Watcher, watch'.state = watch.state,
         watch'.state # "page" => watch'.page = {},
         \A r \in Pods : Unnamed(r, watch) => Unnamed(r, watch'),
         \A i \in DOMAIN watch'.events : SaysLast(watch'.events, i)
  PROVE  SelectorInv'
<1>1. /\ listed' = listed \cup {p} /\ followed' = followed \cup {p}
      /\ streams' = IF p \in followed THEN streams ELSE [streams EXCEPT ![p] = streams[p] + 1]
  BY DEF Selector!Follow
<1>2. streams \in [Pods -> Nat] /\ SelectorTypes
  BY DEF SelectorInv, SelectorTypes
<1>3. SelectorTypes'
  BY <1>1, <1>2 DEF SelectorTypes
<1>4. ASSUME NEW r \in Pods \ relapsed PROVE Once(r)'
  <2>1. Once(r) /\ streams[r] \in Nat
    BY <1>2 DEF SelectorInv
  <2>2. CASE r = p /\ p \notin followed
    <3>1. streams[r] = 0 /\ streams'[r] = 1
      BY <1>1, <1>2, <2>1, <2>2 DEF Once
    <3> QED
      BY <1>1, <2>2, <3>1 DEF Once
  <2>3. CASE r # p \/ p \in followed
    <3>1. streams'[r] = streams[r]
      BY <1>1, <1>2, <2>3
    <3> QED
      BY <1>1, <2>1, <3>1 DEF Once, GoneFor
  <2> QED
    BY <2>2, <2>3
<1>5. \A i \in DOMAIN watch'.events : SaysLast(watch.events, i)'
  BY DEF SaysLast, GoneFor
<1> QED
  BY <1>3, <1>4, <1>5 DEF SelectorInv

\* The first event handled: the others keep their meaning.
LEMMA EventHandled ==
  ASSUME SelectorInv, watch.events # <<>>, watch' = [watch EXCEPT !.events = Tail(@)]
  PROVE  /\ watch' \in Watcher /\ watch'.state = watch.state /\ watch'.page = watch.page
         /\ watch.events[1] \in PodEvent /\ 1 \in DOMAIN watch.events
         /\ \A r \in Pods : Unnamed(r, watch) => Unnamed(r, watch')
         /\ \A i \in DOMAIN watch'.events :
              /\ i + 1 \in DOMAIN watch.events /\ i + 1 > 1
              /\ watch'.events[i] = watch.events[i + 1]
         /\ \A i \in DOMAIN watch'.events : SaysLast(watch'.events, i)
<1> DEFINE q == watch.events
           s == watch'.events
<1>1. watch \in Watcher /\ q \in Seq(PodEvent)
  BY DEF SelectorInv, SelectorTypes, Watcher
<1>2. /\ Tail(q) \in Seq(PodEvent) /\ Len(q) \in Nat /\ DOMAIN q = 1 .. Len(q) /\ Len(q) > 0
      /\ DOMAIN Tail(q) = 1 .. Len(q) - 1
      /\ \A i \in 1 .. Len(q) - 1 : Tail(q)[i] = q[i + 1]
      /\ q[1] \in PodEvent
  BY <1>1
<1>3. /\ watch' \in Watcher /\ watch'.state = watch.state /\ watch'.page = watch.page
      /\ s = Tail(q)
  BY <1>1, <1>2 DEF Watcher
<1>4. \A i \in DOMAIN s : i \in Nat /\ i + 1 \in DOMAIN q /\ i + 1 > 1 /\ s[i] = q[i + 1]
  BY <1>2, <1>3
<1>5. ASSUME NEW i \in DOMAIN s PROVE SaysLast(s, i)
  <2>1. SaysLast(q, i + 1) /\ s[i] = q[i + 1]
    BY <1>4 DEF SelectorInv
  <2>2. \A j \in DOMAIN s : j > i => j + 1 \in DOMAIN q /\ j + 1 > i + 1 /\ s[j] = q[j + 1]
    BY <1>4
  <2> QED
    BY <2>1, <2>2 DEF SaysLast
<1>6. \A r \in Pods : Unnamed(r, watch) => Unnamed(r, watch')
  BY <1>3, <1>4 DEF Unnamed
<1>7. 1 \in DOMAIN q
  BY <1>2
<1> HIDE DEF q, s
<1>8. \A i \in DOMAIN s : SaysLast(s, i)
  BY ONLY <1>5
<1> USE DEF q, s
<1> QED
  BY <1>2, <1>3, <1>4, <1>6, <1>7, <1>8

\* A pod deleted loses its streams, or they are its last.
LEMMA DeleteStep == ASSUME SelectorInv, Selector!Delete PROVE SelectorInv'
<1> DEFINE q == watch.events
           e == q[1]
<1>1. /\ q # <<>> /\ e.kind = "delete" /\ watch.state = "watch"
      /\ watch' = [watch EXCEPT !.events = Tail(@)]
      /\ followed' = followed \ {e.pod}
      /\ streams' = IF e.pod \in followed /\ ~e.term THEN Selector!Abort({e.pod}) ELSE streams
      /\ UNCHANGED <<pods, listed, relapsed>>
  BY DEF Selector!Delete
<1>2. /\ watch' \in Watcher /\ watch'.state = watch.state /\ watch'.page = watch.page
      /\ e \in PodEvent /\ 1 \in DOMAIN q
      /\ \A r \in Pods : Unnamed(r, watch) => Unnamed(r, watch')
      /\ \A i \in DOMAIN watch'.events :
           i + 1 \in DOMAIN q /\ i + 1 > 1 /\ watch'.events[i] = q[i + 1]
      /\ \A i \in DOMAIN watch'.events : SaysLast(watch'.events, i)
  BY <1>1, EventHandled
<1>3. e.pod \in Pods /\ e.term \in BOOLEAN /\ SelectorTypes /\ streams \in [Pods -> Nat]
  BY <1>2 DEF PodEvent, SelectorInv, SelectorTypes
<1>4. \A r \in Pods :
        streams'[r] = IF r = e.pod /\ e.pod \in followed /\ ~e.term THEN 0 ELSE streams[r]
  BY <1>1, <1>3 DEF Selector!Abort
<1>5. streams' \in [Pods -> Nat]
  BY <1>1, <1>3 DEF Selector!Abort
<1>6. SelectorTypes'
  BY <1>1, <1>2, <1>3, <1>5 DEF SelectorTypes
<1>7. ASSUME NEW r \in Pods \ relapsed PROVE Once(r)'
  <2>1. Once(r) /\ streams[r] \in Nat
    BY <1>3 DEF SelectorInv
  <2>2. CASE r # e.pod
    BY <1>1, <1>2, <1>4, <2>1, <2>2 DEF Once, GoneFor
  <2>3. CASE r = e.pod /\ e.pod \notin followed
    <3>1. ~Unnamed(r, watch)
      BY <1>2, <2>3 DEF Unnamed
    <3> QED
      BY <1>4, <2>1, <2>3, <3>1 DEF Once
  <2>4. CASE r = e.pod /\ e.pod \in followed /\ ~e.term
    BY <1>4, <2>4 DEF Once
  <2>5. CASE r = e.pod /\ e.pod \in followed /\ e.term
    <3>1. SaysLast(q, 1)
      BY <1>2 DEF SelectorInv
    <3>2. GoneFor(r) /\ \A j \in DOMAIN q : j > 1 => q[j].pod # r
      BY <1>1, <2>5, <3>1 DEF SaysLast
    <3>3. Unnamed(r, watch')
      BY <1>1, <1>2, <3>2 DEF Unnamed, SelectorInv
    <3> QED
      BY <1>1, <1>4, <2>1, <2>5, <3>2, <3>3 DEF Once, GoneFor
  <2> QED
    BY <1>3, <2>2, <2>3, <2>4, <2>5
<1>8. \A i \in DOMAIN watch'.events : SaysLast(watch.events, i)'
  BY <1>1, <1>2 DEF SaysLast, GoneFor
<1> QED
  BY <1>1, <1>2, <1>6, <1>7, <1>8 DEF SelectorInv

\* Whatever the cluster does, a pod that is gone is never named again.
LEMMA PodStep == ASSUME SelectorInv, Selector!Cluster PROVE SelectorInv'
<1>1. PICK p \in Pods :
        \/ Selector!Created(p) \/ Selector!Relabelled(p)
        \/ Selector!Terminating(p) \/ Selector!Removed(p)
  BY DEF Selector!Cluster
<1>2. /\ pods \in [Pods -> Pod] /\ pods[p] \in Pod
      /\ pods[p].exists = "gone" => pods[p].term
  BY DEF SelectorInv, SelectorTypes
<1>3. ASSUME NEW new \in Pod, Selector!Change(p, new)
      PROVE  /\ pods' \in [Pods -> Pod] /\ pods'[p] = new
             /\ \A q \in Pods : q # p => pods'[q] = pods[q]
             /\ UNCHANGED <<followed, listed, streams>>
  BY <1>2, <1>3 DEF Selector!Change, Selector!task
<1>4. CASE Selector!Created(p)
  <2>1. PICK m \in BOOLEAN :
          /\ Selector!Change(p, [exists |-> "yes", match |-> m, term |-> FALSE])
          /\ watch' = IF m THEN Selector!Event("apply", p) ELSE watch
    BY <1>4 DEF Selector!Created
  <2>2. [exists |-> "yes", match |-> m, term |-> FALSE] \in Pod
    BY DEF Pod
  <2>3. pods[p].exists # "gone" /\ relapsed' = relapsed
    BY <1>4 DEF Selector!Created
  <2>4. /\ pods' \in [Pods -> Pod] /\ pods'[p].exists = "yes"
        /\ \A q \in Pods : q # p => pods'[q] = pods[q]
        /\ UNCHANGED <<followed, listed, streams>>
    BY <1>3, <2>1, <2>2
  <2> QED
    BY <2>1, <2>3, <2>4, EventSent
<1>5. CASE Selector!Relabelled(p)
  <2> DEFINE new == [pods[p] EXCEPT !.match = ~@]
             kind == IF pods[p].match THEN "delete" ELSE "apply"
  <2>1. /\ Selector!Change(p, new) /\ pods[p].exists = "yes"
        /\ watch' = Selector!Event(kind, p)
        /\ relapsed' = IF pods[p].term THEN relapsed \cup {p} ELSE relapsed
    BY <1>5 DEF Selector!Relabelled
  <2>2. new \in Pod /\ new.exists = "yes"
    BY <1>2, <2>1 DEF Pod
  <2>3. /\ pods' \in [Pods -> Pod] /\ pods'[p].exists = "yes"
        /\ \A q \in Pods : q # p => pods'[q] = pods[q]
        /\ UNCHANGED <<followed, listed, streams>>
    BY <1>3, <2>1, <2>2
  <2>4. kind \in {"apply", "delete"}
    OBVIOUS
  <2> HIDE DEF new, kind
  <2> QED
    BY <2>1, <2>3, <2>4, EventSent
<1>6. CASE Selector!Terminating(p)
  <2> DEFINE new == [pods[p] EXCEPT !.term = TRUE]
  <2>1. /\ Selector!Change(p, new) /\ pods[p].exists = "yes" /\ relapsed' = relapsed
        /\ watch' = IF pods[p].match THEN Selector!Event("apply", p) ELSE watch
    BY <1>6 DEF Selector!Terminating
  <2>2. new \in Pod /\ new.exists = "yes"
    BY <1>2, <2>1 DEF Pod
  <2>3. /\ pods' \in [Pods -> Pod] /\ pods'[p].exists = "yes"
        /\ \A q \in Pods : q # p => pods'[q] = pods[q]
        /\ UNCHANGED <<followed, listed, streams>>
    BY <1>3, <2>1, <2>2
  <2> HIDE DEF new
  <2> QED
    BY <2>1, <2>3, EventSent
<1>7. CASE Selector!Removed(p)
  <2> DEFINE new == [pods[p] EXCEPT !.exists = "gone"]
  <2>1. /\ Selector!Change(p, new) /\ pods[p].exists = "yes" /\ pods[p].term
        /\ relapsed' = relapsed
        /\ watch' = IF pods[p].match THEN Selector!Event("delete", p) ELSE watch
    BY <1>7 DEF Selector!Removed
  <2>2. new \in Pod /\ new.exists = "gone" /\ new.term
    BY <1>2, <2>1 DEF Pod
  <2>3. /\ pods' \in [Pods -> Pod] /\ pods'[p].exists = "gone" /\ pods'[p].term
        /\ \A q \in Pods : q # p => pods'[q] = pods[q]
        /\ UNCHANGED <<followed, listed, streams>>
    BY <1>3, <2>1, <2>2
  <2>4. GoneFor(p)'
    BY <2>3 DEF GoneFor
  <2> HIDE DEF new
  <2> QED
    BY <2>1, <2>3, <2>4, EventSent
<1> QED
  BY <1>1, <1>4, <1>5, <1>6, <1>7

\* Every step keeps the streams of a pod to one.
LEMMA SelectorStep == ASSUME SelectorInv, [Selector!Next]_selector PROVE SelectorInv'
<1>1. /\ SelectorTypes /\ watch \in Watcher /\ streams \in [Pods -> Nat]
      /\ watch.state # "page" => watch.page = {}
  BY DEF SelectorInv, SelectorTypes
<1>2. Selector!Idle \in Watcher /\ Selector!Idle.page = {} /\ Selector!Idle.events = <<>>
  BY DEF Selector!Idle, Watcher
<1>3. CASE Selector!Cluster
  BY <1>3, PodStep
<1>4. CASE Selector!Init_
  <2>1. /\ watch.state = "empty" /\ watch' = [watch EXCEPT !.state = "init"] /\ listed' = {}
        /\ UNCHANGED <<pods, relapsed, followed, streams>>
    BY <1>4 DEF Selector!Init_
  <2>2. /\ watch' \in Watcher /\ watch'.page = {} /\ watch'.events = watch.events
    BY <1>1, <2>1 DEF Watcher
  <2>3. \A p \in Pods : Unnamed(p, watch) => Unnamed(p, watch')
    BY <2>2 DEF Unnamed
  <2>4. SelectorTypes'
    BY <1>1, <2>1, <2>2 DEF SelectorTypes
  <2>5. \A p \in Pods \ relapsed : Once(p)'
    BY <2>1, <2>3 DEF SelectorInv, Once, GoneFor
  <2>6. \A i \in DOMAIN watch'.events : SaysLast(watch.events, i)'
    BY <2>1, <2>2 DEF SelectorInv, SaysLast, GoneFor
  <2> QED
    BY <2>1, <2>2, <2>4, <2>5, <2>6 DEF SelectorInv
<1>5. CASE Selector!ListAnswers
  <2>1. /\ watch' = [state |-> "page", page |-> Selector!Matching, events |-> <<>>]
        /\ UNCHANGED <<pods, relapsed, followed, listed, streams>>
    BY <1>5 DEF Selector!ListAnswers, Selector!task
  <2>2. /\ watch' \in Watcher /\ watch'.state = "page" /\ watch'.page = Selector!Matching
        /\ watch'.events = <<>> /\ DOMAIN watch'.events = {}
    BY <2>1 DEF Watcher, Selector!Matching
  <2>3. \A p \in Pods : GoneFor(p) => Unnamed(p, watch')
    BY <2>2 DEF Unnamed, GoneFor, Selector!Matching
  <2>4. SelectorTypes'
    BY <1>1, <2>1, <2>2 DEF SelectorTypes
  <2>5. \A p \in Pods \ relapsed : Once(p)'
    BY <2>1, <2>3 DEF SelectorInv, Once, GoneFor
  <2> QED
    BY <2>1, <2>2, <2>4, <2>5 DEF SelectorInv
<1>6. ASSUME NEW p \in Pods, Selector!InitApply(p) PROVE SelectorInv'
  <2>1. /\ watch.state = "page" /\ p \in watch.page /\ watch' = [watch EXCEPT !.page = @ \ {p}]
        /\ Selector!Follow(p) /\ UNCHANGED <<pods, relapsed>>
    BY <1>6 DEF Selector!InitApply
  <2>2. /\ watch' \in Watcher /\ watch'.state = watch.state /\ watch'.page = watch.page \ {p}
        /\ watch'.events = watch.events
    BY <1>1, <2>1 DEF Watcher
  <2>3. /\ ~Unnamed(p, watch) /\ \A r \in Pods : Unnamed(r, watch) => Unnamed(r, watch')
    BY <2>1, <2>2 DEF Unnamed
  <2>4. \A i \in DOMAIN watch'.events : SaysLast(watch'.events, i)
    BY <2>2 DEF SelectorInv
  <2> QED
    BY <1>6, <2>1, <2>2, <2>3, <2>4, Followed
<1>7. CASE Selector!InitDone
  <2>1. /\ watch.page = {} /\ watch' = [watch EXCEPT !.state = "watch"]
        /\ followed' = followed \ (followed \ listed)
        /\ streams' = Selector!Abort(followed \ listed)
        /\ UNCHANGED <<pods, relapsed, listed>>
    BY <1>7 DEF Selector!InitDone, Selector!Unfollow
  <2>2. /\ watch' \in Watcher /\ watch'.page = {} /\ watch'.events = watch.events
    BY <1>1, <2>1 DEF Watcher
  <2>3. /\ streams' \in [Pods -> Nat]
        /\ \A p \in Pods : streams'[p] = IF p \in followed \ listed THEN 0 ELSE streams[p]
    BY <1>1, <2>1 DEF Selector!Abort
  <2>4. \A p \in Pods : Unnamed(p, watch) => Unnamed(p, watch')
    BY <2>2 DEF Unnamed
  <2>5. SelectorTypes'
    BY <1>1, <2>1, <2>2, <2>3 DEF SelectorTypes
  <2>6. ASSUME NEW p \in Pods \ relapsed PROVE Once(p)'
    <3>1. CASE p \in followed \ listed
      BY <2>3, <3>1 DEF Once
    <3>2. CASE p \notin followed \ listed
      BY <2>1, <2>3, <2>4, <3>2 DEF SelectorInv, Once, GoneFor
    <3> QED
      BY <3>1, <3>2
  <2>7. \A i \in DOMAIN watch'.events : SaysLast(watch.events, i)'
    BY <2>1, <2>2 DEF SelectorInv, SaysLast, GoneFor
  <2> QED
    BY <2>1, <2>2, <2>5, <2>6, <2>7 DEF SelectorInv
<1>8. CASE Selector!Apply
  <2>1. /\ watch.state = "watch" /\ watch.events # <<>>
        /\ watch' = [watch EXCEPT !.events = Tail(@)]
        /\ Selector!Follow(watch.events[1].pod) /\ UNCHANGED <<pods, relapsed>>
    BY <1>8 DEF Selector!Apply
  <2>2. /\ watch' \in Watcher /\ watch'.state = watch.state /\ watch'.page = watch.page
        /\ watch.events[1] \in PodEvent /\ 1 \in DOMAIN watch.events
        /\ \A r \in Pods : Unnamed(r, watch) => Unnamed(r, watch')
        /\ \A i \in DOMAIN watch'.events : SaysLast(watch'.events, i)
    BY <2>1, EventHandled
  <2>3. watch.events[1].pod \in Pods /\ ~Unnamed(watch.events[1].pod, watch)
    BY <2>2 DEF PodEvent, Unnamed
  <2> QED
    BY <1>1, <2>1, <2>2, <2>3, Followed
<1>9. CASE Selector!Delete
  BY <1>9, DeleteStep
<1>10. ASSUME NEW p \in Pods, Selector!StreamEnds(p) PROVE SelectorInv'
  <2>1. /\ streams[p] > 0 /\ streams' = [streams EXCEPT ![p] = streams[p] - 1]
        /\ UNCHANGED <<pods, watch, followed, listed, relapsed>>
    BY <1>10 DEF Selector!StreamEnds
  <2>2. streams' \in [Pods -> Nat] /\ \A r \in Pods : streams'[r] <= streams[r]
    BY <1>1, <2>1
  <2>3. SelectorTypes'
    BY <1>1, <2>1, <2>2 DEF SelectorTypes
  <2>4. ASSUME NEW r \in Pods \ relapsed PROVE Once(r)'
    <3>1. streams[r] \in Nat /\ streams'[r] \in Nat /\ streams'[r] <= streams[r] /\ Once(r)
      BY <1>1, <2>2 DEF SelectorInv
    <3> QED
      BY <2>1, <3>1 DEF Once, GoneFor
  <2> QED
    BY <2>1, <2>3, <2>4 DEF SelectorInv, SaysLast, GoneFor
<1>11. CASE Selector!Over /\ UNCHANGED <<pods, relapsed>>
  <2>1. /\ watch' = [Selector!Idle EXCEPT !.state = "over"] /\ followed' = {}
        /\ streams' = [p \in Pods |-> 0] /\ listed' = listed
    BY <1>11 DEF Selector!Over, Selector!Abort
  <2>2. watch' \in Watcher /\ watch'.page = {} /\ watch'.events = <<>>
    BY <1>2, <2>1 DEF Watcher
  <2> QED
    BY <1>1, <1>11, <2>1, <2>2, WatchReset DEF SelectorTypes
<1>12. CASE /\ watch' = Selector!Idle \/ watch' = [Selector!Idle EXCEPT !.state = "refused"]
            /\ UNCHANGED <<pods, relapsed, followed, listed, streams>>
  <2>1. watch' \in Watcher /\ watch'.page = {} /\ watch'.events = <<>>
    BY <1>2, <1>12 DEF Watcher
  <2> QED
    BY <1>1, <1>12, <2>1, WatchReset DEF SelectorTypes
<1>13. CASE Selector!FirstListRefused \/ Selector!Stale
  BY <1>11, <1>13 DEF Selector!FirstListRefused, Selector!Stale, Selector!Over
<1>14. CASE Selector!WatchRefused \/ Selector!Relist \/ Selector!Wake
  BY <1>12, <1>14 DEF Selector!WatchRefused, Selector!Relist, Selector!Wake, Selector!task
<1>15. CASE UNCHANGED selector
  <2>1. UNCHANGED <<pods, watch, followed, listed, streams, relapsed>>
    BY <1>15 DEF selector
  <2> QED
    BY <2>1 DEF SelectorInv, SelectorTypes, Once, GoneFor, Unnamed, SaysLast
<1> QED
  BY <1>3, <1>4, <1>5, <1>6, <1>7, <1>8, <1>9, <1>10, <1>13, <1>14, <1>15
     DEF Selector!Next, Selector!Watch

\* At first no pod has a stream.
LEMMA SelectorInit == Selector!Init => SelectorInv
<1> SUFFICES ASSUME Selector!Init PROVE SelectorInv
  OBVIOUS
<1>1. /\ pods \in [Pods -> {[exists |-> "yes", match |-> TRUE, term |-> FALSE],
                            [exists |-> "no", match |-> FALSE, term |-> FALSE]}]
      /\ watch = Selector!Idle /\ followed = {} /\ listed = {}
      /\ streams = [p \in Pods |-> 0] /\ relapsed = {}
  BY DEF Selector!Init
<1>2. \A p \in Pods : pods[p] \in Pod /\ pods[p].exists # "gone"
  <2> SUFFICES ASSUME NEW p \in Pods PROVE pods[p] \in Pod /\ pods[p].exists # "gone"
    OBVIOUS
  <2>1. \/ pods[p] = [exists |-> "yes", match |-> TRUE, term |-> FALSE]
        \/ pods[p] = [exists |-> "no", match |-> FALSE, term |-> FALSE]
    BY <1>1
  <2>2. /\ [exists |-> "yes", match |-> TRUE, term |-> FALSE] \in Pod
        /\ [exists |-> "no", match |-> FALSE, term |-> FALSE] \in Pod
    BY DEF Pod
  <2> QED
    BY <2>1, <2>2
<1>3. watch \in Watcher /\ watch.page = {} /\ watch.events = <<>> /\ DOMAIN watch.events = {}
  BY <1>1 DEF Selector!Idle, Watcher
<1>4. pods \in [Pods -> Pod] /\ streams \in [Pods -> Nat]
  BY <1>1, <1>2
<1>5. \A p \in Pods : Once(p)
  BY <1>1 DEF Once
<1> QED
  BY <1>1, <1>2, <1>3, <1>4, <1>5 DEF SelectorInv, SelectorTypes

\* A pod has at most one stream while it is followed, and none when it is not, unless it
\* is being deleted: SelectorLogs::run.
THEOREM OneStreamEach == PartsSpec => []StreamsFollow
<1> DEFINE PartInv == part = "selector" => SelectorInv
<1>1. PartsInit => PartInv
  BY SelectorInit DEF PartsInit
<1>2. PartInv /\ [PartsNext]_parts => PartInv'
  <2> SUFFICES ASSUME PartInv, [PartsNext]_parts, part' = "selector" PROVE SelectorInv'
    OBVIOUS
  <2>1. CASE OfSelector /\ Selector!Next
    BY <2>1, SelectorStep DEF OfSelector
  <2>2. CASE OfStream /\ Next
    BY <2>2 DEF OfStream
  <2>3. CASE UNCHANGED parts
    <3>1. UNCHANGED selector /\ part = "selector"
      BY <2>3 DEF parts
    <3> QED
      BY <3>1, SelectorStep
  <2> QED
    BY <2>1, <2>2, <2>3 DEF PartsNext
<1>3. PartInv => StreamsFollow
  <2> SUFFICES ASSUME SelectorInv, NEW p \in Pods \ relapsed
               PROVE  streams[p] <= (IF p \in followed \/ pods[p].term THEN 1 ELSE 0)
    BY DEF StreamsFollow, Selector!StreamsFollow
  <2>1. Once(p) /\ streams[p] \in Nat /\ (pods[p].exists = "gone" => pods[p].term)
    BY DEF SelectorInv, SelectorTypes
  <2>2. CASE p \in followed \/ pods[p].term
    BY <2>1, <2>2 DEF Once
  <2>3. CASE ~(p \in followed \/ pods[p].term)
    BY <2>1, <2>3 DEF Once, GoneFor
  <2> QED
    BY <2>2, <2>3
<1> QED
  BY <1>1, <1>2, <1>3, PTL DEF PartsSpec
=============================================================================
