------------------------- MODULE StateWriterProofs -------------------------
(***************************************************************************)
(* The state writer keeps its promise: for every set of files and every    *)
(* bound.  The invariant says where the worker may be (Shape), that the    *)
(* pipeline is ordered (OrderInv), and what is known of the latest choices *)
(* and of the failures.                                                    *)
(***************************************************************************)
EXTENDS StateWriterProps, SequenceTheorems, FiniteSetTheorems, TLAPS

\* Where the worker may be, given its burst and the process around it.
Shape ==
  /\ worker \in {"recv", "gone"} <=> batch = <<>>
  /\ worker \in {"record", "notify"} => snap \in failed
  /\ ~Up => queue = <<>> /\ worker = "gone"
  /\ Up /\ worker = "gone" => queue = <<>> /\ phase # "running"
  /\ phase \in {"summary", "leaving"} /\ ~stalled => worker = "gone"
  /\ IsFiniteSet(failed)

\* Every file is whole, and no newer than the choice in memory.
FilesBehind == \A f \in Files : disk[f].whole /\ disk[f].val <= memory[f]

\* Failures are shown or printed by the end of an exit that waited for them.
FailuresTold ==
  phase \in {"leaving", "exited"} /\ ~stalled /\ ~crashed => failed \subseteq told

\* A killed process is gone.
NotCrashed == crashed => ~Up

IInv == /\ TypeOK /\ Shape /\ FilesBehind /\ OrderInv /\ LatestAccounted
        /\ FailuresKept /\ FailuresTold /\ CleanExit /\ NotCrashed

-----------------------------------------------------------------------------
(* Sequences of snapshots.                                                 *)

\* The elements of a sequence that a new one is appended to.
LEMMA AppendSnapshot ==
  ASSUME NEW s \in Seq(Snapshot), NEW w \in Snapshot
  PROVE  /\ Append(s, w) \in Seq(Snapshot) /\ Append(s, w) # <<>>
         /\ DOMAIN Append(s, w) = 1 .. Len(s) + 1 /\ DOMAIN s = 1 .. Len(s) /\ Len(s) \in Nat
         /\ \A i \in DOMAIN s : Append(s, w)[i] = s[i]
         /\ Append(s, w)[Len(s) + 1] = w
<1>1. /\ Append(s, w) \in Seq(Snapshot) /\ Append(s, w) # <<>>
      /\ Len(Append(s, w)) = Len(s) + 1
      /\ \A i \in 1 .. Len(s) : Append(s, w)[i] = s[i]
      /\ Append(s, w)[Len(s) + 1] = w
  BY AppendProperties
<1>2. Len(s) \in Nat /\ DOMAIN s = 1 .. Len(s)
  BY LenProperties
<1>3. DOMAIN Append(s, w) = 1 .. Len(s) + 1
  BY <1>1, LenProperties
<1> QED
  BY <1>1, <1>2, <1>3

\* The elements of a sequence whose first one is taken.
LEMMA TakeSnapshot ==
  ASSUME NEW s \in Seq(Snapshot), s # <<>>
  PROVE  /\ Tail(s) \in Seq(Snapshot) /\ Head(s) \in Snapshot
         /\ 1 \in DOMAIN s /\ Head(s) = s[1]
         /\ DOMAIN s \subseteq Nat /\ DOMAIN Tail(s) \subseteq Nat
         /\ \A i \in DOMAIN Tail(s) : i + 1 \in DOMAIN s /\ Tail(s)[i] = s[i + 1]
         /\ \A i \in DOMAIN s : i # 1 => i - 1 \in DOMAIN Tail(s) /\ Tail(s)[i - 1] = s[i]
<1>1. Len(s) \in Nat \ {0} /\ DOMAIN s = 1 .. Len(s)
  BY EmptySeq, LenProperties
<1>2. /\ Tail(s) \in Seq(Snapshot) /\ Len(Tail(s)) = Len(s) - 1 /\ Head(s) \in Snapshot
      /\ \A i \in 1 .. Len(Tail(s)) : Tail(s)[i] = s[i + 1]
  BY HeadTailProperties
<1>3. DOMAIN Tail(s) = 1 .. Len(s) - 1
  BY <1>1, <1>2, LenProperties
<1>4. Head(s) = s[1]
  OBVIOUS
<1> QED
  BY <1>1, <1>2, <1>3, <1>4

\* A coalesced burst has the new snapshot once, and otherwise what it had of the
\* other files.
LEMMA CoalesceBurst ==
  ASSUME NEW b \in Seq(Snapshot), NEW w \in Snapshot, b # <<>>,
         \A i, j \in DOMAIN b : b[i].file = b[j].file => i = j
  PROVE  /\ Coalesce(b, w) \in Seq(Snapshot) /\ Coalesce(b, w) # <<>>
         /\ \A i, j \in DOMAIN Coalesce(b, w) :
              Coalesce(b, w)[i].file = Coalesce(b, w)[j].file => i = j
         /\ \A i \in DOMAIN Coalesce(b, w) :
              Coalesce(b, w)[i] = w
              \/ (i \in DOMAIN b /\ Coalesce(b, w)[i] = b[i] /\ b[i].file # w.file)
         /\ \E i \in DOMAIN Coalesce(b, w) : Coalesce(b, w)[i] = w
         /\ \A i \in DOMAIN b : b[i].file # w.file =>
              i \in DOMAIN Coalesce(b, w) /\ Coalesce(b, w)[i] = b[i]
<1>0. Len(b) \in Nat \ {0} /\ DOMAIN b = 1 .. Len(b) /\ b \in [1 .. Len(b) -> Snapshot]
  BY LenProperties, EmptySeq
<1>1. CASE \E i \in DOMAIN b : b[i].file = w.file
  <2> DEFINE c == [i \in DOMAIN b |-> IF b[i].file = w.file THEN w ELSE b[i]]
  <2>1. Coalesce(b, w) = c
    BY <1>1 DEF Coalesce
  <2>2. DOMAIN c = DOMAIN b /\ c \in [1 .. Len(b) -> Snapshot]
    BY <1>0
  <2>3. c \in Seq(Snapshot) /\ c # <<>>
    <3>1. c \in Seq(Snapshot)
      BY <1>0, <2>2, SeqDef
    <3> QED
      BY <1>0, <2>2, <3>1, EmptySeq, LenProperties
  <2>4. \A i \in DOMAIN b : c[i] = IF b[i].file = w.file THEN w ELSE b[i]
    OBVIOUS
  <2>5. \A i \in DOMAIN b : c[i].file = b[i].file
    BY <2>4
  <2> HIDE DEF c
  <2> QED
    BY <1>1, <2>1, <2>2, <2>3, <2>4, <2>5
<1>2. CASE ~\E i \in DOMAIN b : b[i].file = w.file
  <2>1. Coalesce(b, w) = Append(b, w)
    BY <1>2 DEF Coalesce
  <2>2. /\ Append(b, w) \in Seq(Snapshot) /\ Append(b, w) # <<>>
        /\ DOMAIN Append(b, w) = 1 .. Len(b) + 1
        /\ \A i \in DOMAIN b : Append(b, w)[i] = b[i]
        /\ Append(b, w)[Len(b) + 1] = w
    BY AppendSnapshot
  <2>3. \A i \in DOMAIN Append(b, w) : i \in DOMAIN b \/ i = Len(b) + 1
    BY <1>0, <2>2
  <2>4. DOMAIN b \subseteq DOMAIN Append(b, w) /\ Len(b) + 1 \in DOMAIN Append(b, w)
    BY <1>0, <2>2
  <2> QED
    BY <1>2, <2>1, <2>2, <2>3, <2>4
<1> QED
  BY <1>1, <1>2

-----------------------------------------------------------------------------
(* The invariant, part by part.                                            *)

\* The snapshot being written is one, whenever there is a burst.
LEMMA SnapType ==
  ASSUME TypeOK, batch # <<>>
  PROVE  /\ snap \in Snapshot /\ snap.file \in Files /\ snap.val \in Nat
         /\ Tail(batch) \in Seq(Snapshot)
         /\ 1 \in DOMAIN batch /\ snap = batch[1]
<1>1. snap \in Snapshot /\ Tail(batch) \in Seq(Snapshot) /\ 1 \in DOMAIN batch /\ snap = batch[1]
  BY TakeSnapshot DEF TypeOK, snap
<1> QED
  BY <1>1 DEF Snapshot

\* Every step keeps the types.
LEMMA TypeStep == ASSUME TypeOK, Shape, [Next]_vars PROVE TypeOK'
<1>1. ASSUME NEW f \in Files, Choose(f) PROVE TypeOK'
  <2>1. memory[f] + 1 \in Nat /\ memory' \in [Files -> Nat] /\ memory'[f] \in Nat
    BY <1>1 DEF TypeOK, Choose
  <2>2. [file |-> f, val |-> memory'[f]] \in Snapshot
    BY <2>1 DEF Snapshot
  <2>3. queue' \in Seq(Snapshot)
    BY <1>1, <2>2, AppendSnapshot DEF TypeOK, Choose
  <2> QED
    BY <1>1, <2>1, <2>3 DEF TypeOK, Choose
<1>2. ASSUME NEW id \in Ids, HandleNotice(id) PROVE TypeOK'
  BY <1>2 DEF TypeOK, HandleNotice
<1>3. CASE Receive
  <2>1. Head(queue) \in Snapshot /\ Tail(queue) \in Seq(Snapshot)
    BY <1>3, TakeSnapshot DEF Receive, TypeOK
  <2>2. <<Head(queue)>> \in Seq(Snapshot)
    BY <2>1
  <2> QED
    BY <1>3, <2>1, <2>2 DEF Receive, TypeOK, ui
<1>4. CASE Collect
  <2>1. Head(queue) \in Snapshot /\ Tail(queue) \in Seq(Snapshot)
    BY <1>4, TakeSnapshot DEF Collect, TypeOK
  <2>2. Coalesce(batch, Head(queue)) \in Seq(Snapshot)
    <3>1. CASE \E i \in DOMAIN batch : batch[i].file = Head(queue).file
      <4>1. Len(batch) \in Nat /\ DOMAIN batch = 1 .. Len(batch) /\ batch \in [1 .. Len(batch) -> Snapshot]
        BY LenProperties DEF TypeOK
      <4>2. [i \in DOMAIN batch |-> IF batch[i].file = Head(queue).file THEN Head(queue) ELSE batch[i]]
              \in [1 .. Len(batch) -> Snapshot]
        BY <2>1, <4>1
      <4> QED
        BY <3>1, <4>1, <4>2, SeqDef DEF Coalesce
    <3>2. CASE ~\E i \in DOMAIN batch : batch[i].file = Head(queue).file
      BY <2>1, <3>2, AppendSnapshot DEF Coalesce, TypeOK
    <3> QED
      BY <3>1, <3>2
  <2> QED
    BY <1>4, <2>1, <2>2 DEF Collect, TypeOK, ui
<1>5. CASE BurstEnds \/ WorkerEnds \/ Quit \/ Join
  BY <1>5 DEF BurstEnds, WorkerEnds, Quit, Join, TypeOK, ui
<1>6. CASE WriteTemp \/ Rename \/ WriteFails \/ RecordFailure \/ NotifyFailure
  <2>1. batch # <<>>
    BY <1>6 DEF Shape, WriteTemp, Rename, WriteFails, RecordFailure, NotifyFailure
  <2>2. snap \in Snapshot /\ snap.file \in Files /\ snap.val \in Nat /\ Tail(batch) \in Seq(Snapshot)
    BY <2>1, SnapType
  <2>3. After(batch) \in {"recv", "write"}
    BY DEF After
  <2>4. CASE WriteTemp
    BY <2>2, <2>4 DEF TypeOK, WriteTemp, ui
  <2>5. CASE Rename
    <3>1. disk' \in [Files -> [val : Nat, whole : BOOLEAN]]
      BY <2>2, <2>5 DEF TypeOK, Rename
    <3> QED
      BY <2>2, <2>3, <2>5, <3>1 DEF TypeOK, Rename, ui
  <2>6. CASE WriteFails
    BY <2>2, <2>6 DEF TypeOK, WriteFails, ui
  <2>7. CASE RecordFailure
    <3>1. [id |-> Cardinality(failed), snap |-> snap] \in [id : Nat, snap : Snapshot]
      BY <2>2, FS_CardinalityType DEF Shape
    <3> QED
      BY <2>2, <2>7, <3>1 DEF TypeOK, RecordFailure
  <2>8. CASE NotifyFailure
    <3>1. Cardinality(failed) \in Nat
      BY FS_CardinalityType DEF Shape
    <3>2. notices' \subseteq Nat
      BY <2>8, <3>1 DEF TypeOK, NotifyFailure
    <3> QED
      BY <2>2, <2>3, <2>8, <3>2 DEF TypeOK, NotifyFailure
  <2> QED
    BY <1>6, <2>4, <2>5, <2>6, <2>7, <2>8
<1>7. CASE Summarise
  <2>1. {p.snap : p \in pending} \subseteq Snapshot
    BY DEF TypeOK
  <2> QED
    BY <1>7, <2>1 DEF Summarise, TypeOK
<1>9. CASE Exit \/ Crash
  <2>1. <<>> \in Seq(Snapshot)
    BY EmptySeq
  <2> QED
    BY <1>9, <2>1 DEF Exit, Crash, Gone, TypeOK
<1>10. CASE Restart
  <2>1. \A f \in Files : Loaded(f) \in Nat
    BY DEF TypeOK, Loaded
  <2>2. memory' \in [Files -> Nat]
    BY <1>10, <2>1 DEF Restart
  <2>3. {} \subseteq [id : Nat, snap : Snapshot] /\ {} \subseteq Snapshot
    OBVIOUS
  <2>4. sessions' \in Nat /\ worker' = "recv" /\ phase' = "running"
    BY <1>10 DEF Restart, TypeOK
  <2>5. pending' \subseteq [id : Nat, snap : Snapshot] /\ failed' \subseteq Snapshot /\ told' \subseteq Snapshot
    BY <1>10, <2>3 DEF Restart
  <2>6. stalled' \in BOOLEAN /\ crashed' \in BOOLEAN
    BY <1>10 DEF Restart
  <2>7. /\ disk' = disk /\ temps' = temps /\ queue' = queue
        /\ batch' = batch /\ notices' = notices
    BY <1>10 DEF Restart
  <2> QED
    BY <2>2, <2>4, <2>5, <2>6, <2>7 DEF TypeOK
<1>8. CASE UNCHANGED vars
  BY <1>8 DEF TypeOK, vars
<1> QED
  BY <1>1, <1>2, <1>3, <1>4, <1>5, <1>6, <1>7, <1>8, <1>9, <1>10 DEF Next

\* Every step keeps the worker where its burst and the process allow.
LEMMA ShapeStep == ASSUME TypeOK, Shape, OrderInv, [Next]_vars PROVE Shape'
<1>1. ASSUME NEW f \in Files, Choose(f) PROVE Shape'
  BY <1>1 DEF Shape, Choose, Up, snap
<1>2. ASSUME NEW id \in Ids, HandleNotice(id) PROVE Shape'
  BY <1>2 DEF Shape, HandleNotice, Up, snap
<1>3. CASE Receive
  BY <1>3 DEF Shape, Receive, Up, snap, ui
<1>4. CASE Collect
  <2>1. Head(queue) \in Snapshot /\ batch # <<>>
    BY <1>4, TakeSnapshot DEF Collect, TypeOK, Shape
  <2>2. Coalesce(batch, Head(queue)) # <<>>
    BY <2>1, CoalesceBurst DEF TypeOK, OrderInv
  <2> QED
    BY <1>4, <2>1, <2>2 DEF Shape, Collect, Up, snap, ui
<1>5. CASE BurstEnds \/ WorkerEnds \/ WriteTemp
  BY <1>5 DEF Shape, BurstEnds, WorkerEnds, WriteTemp, Up, snap, ui
<1>6. CASE Rename \/ NotifyFailure
  BY <1>6 DEF Shape, Rename, NotifyFailure, After, Up, snap, ui
<1>7. CASE WriteFails
  <2>1. IsFiniteSet(failed')
    BY <1>7, FS_AddElement DEF Shape, WriteFails
  <2> QED
    BY <1>7, <2>1 DEF Shape, WriteFails, Up, snap, ui
<1>8. CASE RecordFailure \/ Quit \/ Summarise
  BY <1>8 DEF Shape, RecordFailure, Quit, Summarise, Up, snap
<1>9. CASE Join
  BY <1>9 DEF Shape, Join, Up, snap
<1>10. CASE Exit \/ Crash
  BY <1>10 DEF Shape, Exit, Crash, Gone, Up, snap
<1>11. CASE Restart
  BY <1>11, FS_EmptySet DEF Shape, Restart, Up, snap
<1>12. CASE UNCHANGED vars
  BY <1>12 DEF Shape, vars, Up, snap
<1> QED
  BY <1>1, <1>2, <1>3, <1>4, <1>5, <1>6, <1>7, <1>8, <1>9, <1>10, <1>11, <1>12 DEF Next

Behind(s) == Loaded(s.file) < s.val /\ s.val <= memory[s.file]

\* The order of the pipeline, element by element.
LEMMA OrderByIndex ==
  OrderInv <=>
    /\ \A i \in DOMAIN batch : Behind(batch[i])
    /\ \A i \in DOMAIN queue : Behind(queue[i])
    /\ \A i, j \in DOMAIN batch : batch[i].file = batch[j].file => i = j
    /\ \A i \in DOMAIN batch, j \in DOMAIN queue :
         batch[i].file = queue[j].file => batch[i].val < queue[j].val
    /\ \A i, j \in DOMAIN queue :
         i < j /\ queue[i].file = queue[j].file => queue[i].val < queue[j].val
BY DEF OrderInv, Pipeline, Behind

\* Elements of the pipeline are snapshots.
LEMMA Elements ==
  ASSUME TypeOK
  PROVE  /\ \A i \in DOMAIN batch : /\ batch[i] \in Snapshot /\ i \in Nat /\ i >= 1
                                    /\ batch[i].file \in Files /\ batch[i].val \in Nat
         /\ \A i \in DOMAIN queue : /\ queue[i] \in Snapshot /\ i \in Nat /\ i >= 1
                                    /\ queue[i].file \in Files /\ queue[i].val \in Nat
<1>1. /\ \A i \in DOMAIN batch : batch[i] \in Snapshot /\ i \in Nat /\ i >= 1
      /\ \A i \in DOMAIN queue : queue[i] \in Snapshot /\ i \in Nat /\ i >= 1
  BY LenProperties, ElementOfSeq DEF TypeOK
<1>2. \A s \in Snapshot : s.file \in Files /\ s.val \in Nat
  BY DEF Snapshot
<1> QED
  BY <1>1, <1>2

\* No file gets ahead of the memory, nor is ever torn.
LEMMA FilesStep ==
  ASSUME TypeOK, Shape, FilesBehind, OrderInv, [Next]_vars PROVE FilesBehind'
<1>1. ASSUME NEW f \in Files, Choose(f) PROVE FilesBehind'
  <2>1. \A g \in Files : memory[g] \in Nat /\ memory'[g] \in Nat /\ memory[g] <= memory'[g]
    BY <1>1 DEF TypeOK, Choose
  <2>2. \A g \in Files : disk[g].val \in Nat /\ disk'[g] = disk[g]
    BY <1>1 DEF TypeOK, Choose
  <2> QED
    BY <2>1, <2>2 DEF FilesBehind
<1>2. CASE Rename
  <2>1. batch # <<>>
    BY <1>2 DEF Shape, Rename
  <2>2. snap.file \in Files /\ snap.val <= memory[snap.file]
    BY <2>1, SnapType, OrderByIndex DEF Behind
  <2>3. \A g \in Files : disk'[g] = IF g = snap.file THEN [val |-> snap.val, whole |-> TRUE] ELSE disk[g]
    BY <1>2 DEF TypeOK, Rename
  <2> QED
    BY <1>2, <2>2, <2>3 DEF FilesBehind, Rename, ui
<1>3. CASE Restart
  <2>1. \A g \in Files : disk[g].val \in Nat /\ memory'[g] = disk[g].val /\ disk'[g] = disk[g]
    BY <1>3 DEF Restart, TypeOK, FilesBehind, Loaded
  <2> QED
    BY <2>1 DEF FilesBehind
<1>4. CASE UNCHANGED <<memory, disk>>
  BY <1>4 DEF FilesBehind
<1> QED
  BY <1>1, <1>2, <1>3, <1>4
  DEF Next, vars, ui, HandleNotice, Receive, Collect, BurstEnds, WriteTemp, WriteFails,
      RecordFailure, NotifyFailure, WorkerEnds, Quit, Join, Summarise, Exit, Crash

\* The pipeline is in order, element by element, of the files' contents.
LEMMA OrderedPipeline ==
  ASSUME TypeOK, FilesBehind
  PROVE  OrderInv <=>
    /\ \A i \in DOMAIN batch : /\ disk[batch[i].file].val < batch[i].val
                               /\ batch[i].val <= memory[batch[i].file]
    /\ \A i \in DOMAIN queue : /\ disk[queue[i].file].val < queue[i].val
                               /\ queue[i].val <= memory[queue[i].file]
    /\ \A i, j \in DOMAIN batch : batch[i].file = batch[j].file => i = j
    /\ \A i \in DOMAIN batch, j \in DOMAIN queue :
         batch[i].file = queue[j].file => batch[i].val < queue[j].val
    /\ \A i, j \in DOMAIN queue :
         i < j /\ queue[i].file = queue[j].file => queue[i].val < queue[j].val
<1>1. \A f \in Files : Loaded(f) = disk[f].val
  BY DEF FilesBehind, Loaded
<1> QED
  BY <1>1, OrderByIndex, Elements DEF Behind

\* Every step keeps the pipeline in order: the heart of the proof.
LEMMA OrderStep ==
  ASSUME TypeOK, Shape, FilesBehind, OrderInv, [Next]_vars, TypeOK', FilesBehind'
  PROVE  OrderInv'
<1>a. /\ \A i \in DOMAIN batch : /\ disk[batch[i].file].val < batch[i].val
                                 /\ batch[i].val <= memory[batch[i].file]
      /\ \A i \in DOMAIN queue : /\ disk[queue[i].file].val < queue[i].val
                                 /\ queue[i].val <= memory[queue[i].file]
      /\ \A i, j \in DOMAIN batch : batch[i].file = batch[j].file => i = j
      /\ \A i \in DOMAIN batch, j \in DOMAIN queue :
           batch[i].file = queue[j].file => batch[i].val < queue[j].val
      /\ \A i, j \in DOMAIN queue :
           i < j /\ queue[i].file = queue[j].file => queue[i].val < queue[j].val
  BY OrderedPipeline
<1>b. (
      /\ \A i \in DOMAIN batch' : /\ disk'[batch'[i].file].val < batch'[i].val
                                  /\ batch'[i].val <= memory'[batch'[i].file]
      /\ \A i \in DOMAIN queue' : /\ disk'[queue'[i].file].val < queue'[i].val
                                  /\ queue'[i].val <= memory'[queue'[i].file]
      /\ \A i, j \in DOMAIN batch' : batch'[i].file = batch'[j].file => i = j
      /\ \A i \in DOMAIN batch', j \in DOMAIN queue' :
           batch'[i].file = queue'[j].file => batch'[i].val < queue'[j].val
      /\ \A i, j \in DOMAIN queue' :
           i < j /\ queue'[i].file = queue'[j].file => queue'[i].val < queue'[j].val )
      => OrderInv'
  <2>1. /\ \A i \in DOMAIN batch' : batch'[i] \in Snapshot
        /\ \A i \in DOMAIN queue' : queue'[i] \in Snapshot
    BY LenProperties, ElementOfSeq DEF TypeOK
  <2>2. \A s \in Snapshot : s.file \in Files
    BY DEF Snapshot
  <2>3. \A f \in Files : Loaded(f)' = disk'[f].val
    BY DEF FilesBehind, Loaded
  <2> QED
    BY <2>1, <2>2, <2>3 DEF OrderInv, Pipeline
<1>c. \A f \in Files : disk[f].val \in Nat /\ memory[f] \in Nat /\ disk[f].val <= memory[f]
  BY DEF FilesBehind, TypeOK
<1>1. ASSUME NEW f \in Files, Choose(f) PROVE OrderInv'
  <2> DEFINE w == [file |-> f, val |-> memory[f] + 1]
  <2>1. w \in Snapshot /\ queue' = Append(queue, w) /\ memory'[f] = memory[f] + 1
    BY <1>1, <1>c DEF Choose, TypeOK, Snapshot
  <2>2. /\ DOMAIN queue' = 1 .. Len(queue) + 1 /\ DOMAIN queue = 1 .. Len(queue) /\ Len(queue) \in Nat
        /\ \A i \in DOMAIN queue : queue'[i] = queue[i]
        /\ queue'[Len(queue) + 1] = w
    BY <2>1, AppendSnapshot DEF TypeOK
  <2>3. \A g \in Files : memory[g] <= memory'[g] /\ memory'[g] \in Nat
    BY <1>1, <1>c DEF Choose, TypeOK
  <2>4. batch' = batch /\ disk' = disk
    BY <1>1 DEF Choose
  <2>5. \A i \in DOMAIN queue' : i \in DOMAIN queue \/ (i = Len(queue) + 1 /\ queue'[i] = w)
    BY <2>2
  <2>6. w.file = f /\ w.val = memory[f] + 1
    OBVIOUS
  <2> HIDE DEF w
  <2>7. \A i \in DOMAIN batch : batch[i].val <= memory'[batch[i].file]
    BY <1>a, <1>c, <2>3, Elements
  <2>8. \A i \in DOMAIN queue' : /\ disk[queue'[i].file].val < queue'[i].val
                                /\ queue'[i].val <= memory'[queue'[i].file]
    BY SMTT(20), <1>a, <1>c, <2>1, <2>2, <2>3, <2>5, <2>6, Elements
  <2>9. \A i \in DOMAIN batch, j \in DOMAIN queue' :
          batch[i].file = queue'[j].file => batch[i].val < queue'[j].val
    BY <1>a, <1>c, <2>2, <2>5, <2>6, Elements
  <2>10. \A i, j \in DOMAIN queue' :
           i < j /\ queue'[i].file = queue'[j].file => queue'[i].val < queue'[j].val
    BY <1>a, <1>c, <2>2, <2>5, <2>6, Elements
  <2> QED
    BY <1>a, <1>b, <2>4, <2>7, <2>8, <2>9, <2>10
<1>2. CASE Receive
  <2>1. batch = <<>> /\ queue # <<>> /\ batch' = <<Head(queue)>> /\ queue' = Tail(queue)
        /\ disk' = disk /\ memory' = memory
    BY <1>2 DEF Receive, Shape, ui
  <2>2. /\ 1 \in DOMAIN queue /\ DOMAIN queue \subseteq Nat
        /\ \A i \in DOMAIN queue' : i + 1 \in DOMAIN queue /\ queue'[i] = queue[i + 1] /\ i \in Nat /\ i >= 1
    BY <2>1, TakeSnapshot, Elements, LenProperties DEF TypeOK
  <2>3. DOMAIN batch' = {1} /\ batch'[1] = queue[1]
    BY <2>1, TakeSnapshot DEF TypeOK
  <2>4. \A i \in DOMAIN batch' : i = 1
    BY <2>3
  <2> QED
    BY <1>a, <1>b, <2>1, <2>2, <2>3, <2>4
<1>3. CASE Collect
  <2> DEFINE w == Head(queue)
             c == Coalesce(batch, w)
  <2>1. /\ batch # <<>> /\ queue # <<>> /\ batch' = c /\ queue' = Tail(queue)
        /\ disk' = disk /\ memory' = memory
    BY <1>3 DEF Collect, Shape, ui
  <2>2. /\ 1 \in DOMAIN queue /\ DOMAIN queue \subseteq Nat /\ w = queue[1] /\ w \in Snapshot
        /\ \A i \in DOMAIN queue' : i + 1 \in DOMAIN queue /\ queue'[i] = queue[i + 1] /\ i \in Nat /\ i >= 1
    BY <2>1, TakeSnapshot, Elements, LenProperties DEF TypeOK
  <2> HIDE DEF w
  <2>3. /\ \A i, j \in DOMAIN c : c[i].file = c[j].file => i = j
        /\ \A i \in DOMAIN c : c[i] = w \/ (i \in DOMAIN batch /\ c[i] = batch[i])
    <3>1. batch \in Seq(Snapshot)
      BY DEF TypeOK
    <3>2. \A i, j \in DOMAIN batch : batch[i].file = batch[j].file => i = j
      BY <1>a
    <3>3. w \in Snapshot /\ batch # <<>>
      BY <2>1, <2>2
    <3> HIDE <1>a, <1>b, <1>c
    <3> QED
      BY SMTT(20), <3>1, <3>2, <3>3, CoalesceBurst
  <2> HIDE DEF c
  <2>4. \A i \in DOMAIN queue : i = 1 \/ (i > 1 /\ (w.file = queue[i].file => w.val < queue[i].val))
    BY <1>a, <2>2, Elements
  <2>5. \A i \in DOMAIN queue' : i + 1 # 1
    BY <2>2
  <2>6. \A i \in DOMAIN batch', j \in DOMAIN queue' :
          batch'[i].file = queue'[j].file => batch'[i].val < queue'[j].val
    BY <1>a, <2>1, <2>2, <2>3, <2>4, <2>5
  <2> QED
    BY <1>a, <1>b, <2>1, <2>2, <2>3, <2>6
<1>4. CASE Rename \/ NotifyFailure
  <2>1. /\ batch # <<>> /\ batch' = Tail(batch) /\ queue' = queue /\ memory' = memory
    BY <1>4 DEF Rename, NotifyFailure, Shape, ui
  <2>2. /\ 1 \in DOMAIN batch /\ snap = batch[1] /\ snap.file \in Files
        /\ \A i \in DOMAIN batch' : i + 1 \in DOMAIN batch /\ batch'[i] = batch[i + 1] /\ i \in Nat /\ i >= 1
    BY <2>1, TakeSnapshot, SnapType, Elements, LenProperties DEF TypeOK
  <2>3. \A f \in Files : f = snap.file \/ disk'[f] = disk[f]
    BY <1>4 DEF Rename, NotifyFailure, TypeOK
  <2>4. disk'[snap.file].val = snap.val \/ disk' = disk
    BY <1>4, <2>2 DEF Rename, NotifyFailure, TypeOK
  <2>5. \A i \in DOMAIN batch' : batch'[i].file # snap.file
    BY <1>a, <2>2
  <2>6. \A i \in DOMAIN batch' : disk'[batch'[i].file].val < batch'[i].val
    BY <1>a, <2>2, <2>3, <2>5, Elements
  <2>7. \A i \in DOMAIN queue : disk'[queue[i].file].val < queue[i].val
    BY <1>a, <2>2, <2>3, <2>4, Elements
  <2>8. \A i, j \in DOMAIN batch' : batch'[i].file = batch'[j].file => i = j
    BY <1>a, <2>2
  <2> QED
    BY <1>a, <1>b, <2>1, <2>2, <2>6, <2>7, <2>8
<1>5. CASE Exit \/ Crash
  <2>1. queue' = <<>> /\ batch' = <<>>
    BY <1>5 DEF Exit, Crash, Gone
  <2> QED
    BY <1>b, <2>1
<1>6. CASE Restart
  <2>1. queue' = <<>> /\ batch' = <<>>
    BY <1>6 DEF Restart, Shape
  <2> QED
    BY <1>b, <2>1
<1>7. CASE UNCHANGED <<memory, disk, queue, batch>>
  BY <1>a, <1>b, <1>7
<1> QED
  BY <1>1, <1>2, <1>3, <1>4, <1>5, <1>6, <1>7
  DEF Next, vars, ui, HandleNotice, BurstEnds, WriteTemp, WriteFails,
      RecordFailure, WorkerEnds, Quit, Join, Summarise

\* Every step accounts for the latest choice of each file.
LEMMA AccountedStep ==
  ASSUME TypeOK, Shape, FilesBehind, OrderInv, LatestAccounted, [Next]_vars,
         TypeOK', FilesBehind'
  PROVE  LatestAccounted'
<1>a. /\ \A i \in DOMAIN batch : /\ disk[batch[i].file].val < batch[i].val
                                 /\ batch[i].val <= memory[batch[i].file]
      /\ \A i \in DOMAIN queue : /\ disk[queue[i].file].val < queue[i].val
                                 /\ queue[i].val <= memory[queue[i].file]
      /\ \A i, j \in DOMAIN batch : batch[i].file = batch[j].file => i = j
      /\ \A i \in DOMAIN batch, j \in DOMAIN queue :
           batch[i].file = queue[j].file => batch[i].val < queue[j].val
  BY OrderedPipeline
<1>b. \A f \in Files : /\ Loaded(f) = disk[f].val /\ Loaded(f)' = disk'[f].val
                      /\ disk[f].val \in Nat /\ memory[f] \in Nat
  BY DEF FilesBehind, Loaded, TypeOK
<1>c. Up => \A f \in Files :
             \/ disk[f].val = memory[f]
             \/ \E i \in DOMAIN batch : batch[i] = Latest(f)
             \/ \E i \in DOMAIN queue : queue[i] = Latest(f)
             \/ Latest(f) \in failed
  BY <1>b DEF LatestAccounted, Pipeline
<1>d. ASSUME Up' => \A f \in Files :
                      \/ disk'[f].val = memory'[f]
                      \/ \E i \in DOMAIN batch' : batch'[i] = Latest(f)'
                      \/ \E i \in DOMAIN queue' : queue'[i] = Latest(f)'
                      \/ Latest(f)' \in failed'
      PROVE  LatestAccounted'
  BY <1>b, <1>d DEF LatestAccounted, Pipeline
<1>e. \A f \in Files : Latest(f) = [file |-> f, val |-> memory[f]]
  BY DEF Latest
<1>f. \A f \in Files : Latest(f)' = [file |-> f, val |-> memory'[f]]
  BY DEF Latest
<1>1. ASSUME NEW f \in Files, Choose(f) PROVE LatestAccounted'
  <2>1. /\ [file |-> f, val |-> memory[f] + 1] \in Snapshot
        /\ queue' = Append(queue, [file |-> f, val |-> memory[f] + 1])
        /\ memory' = [memory EXCEPT ![f] = memory[f] + 1] /\ memory \in [Files -> Nat]
        /\ Up /\ batch' = batch /\ disk' = disk /\ failed' = failed
    BY <1>1, <1>b DEF Choose, TypeOK, Snapshot, Up
  <2>2. /\ \A i \in DOMAIN queue : i \in DOMAIN queue' /\ queue'[i] = queue[i]
        /\ \E i \in DOMAIN queue' : queue'[i] = [file |-> f, val |-> memory[f] + 1]
    <3>1. /\ DOMAIN queue' = 1 .. Len(queue) + 1 /\ DOMAIN queue = 1 .. Len(queue) /\ Len(queue) \in Nat
          /\ \A i \in DOMAIN queue : queue'[i] = queue[i]
          /\ queue'[Len(queue) + 1] = [file |-> f, val |-> memory[f] + 1]
      BY <2>1, AppendSnapshot DEF TypeOK
    <3>2. Len(queue) + 1 \in DOMAIN queue' /\ DOMAIN queue \subseteq DOMAIN queue'
      BY <3>1
    <3> QED
      BY <3>1, <3>2
  <2>3. memory'[f] = memory[f] + 1 /\ \A g \in Files : g # f => memory'[g] = memory[g]
    BY <2>1
  <2>4. \E i \in DOMAIN queue' : queue'[i] = Latest(f)'
    BY <1>f, <2>2, <2>3
  <2>5. \A g \in Files : g # f => Latest(g)' = Latest(g)
    BY <1>e, <1>f, <2>3
  <2> QED
    BY SMTT(20), <1>c, <1>d, <2>1, <2>2, <2>3, <2>4, <2>5
<1>2. CASE Receive
  <2>1. batch = <<>> /\ queue # <<>> /\ batch' = <<Head(queue)>> /\ queue' = Tail(queue)
        /\ disk' = disk /\ memory' = memory /\ failed' = failed /\ Up
    BY <1>2 DEF Receive, Shape, ui
  <2>2. /\ \A i \in DOMAIN queue : i = 1 \/ (i - 1 \in DOMAIN queue' /\ queue'[i - 1] = queue[i])
        /\ 1 \in DOMAIN batch' /\ batch'[1] = queue[1]
    BY <2>1, TakeSnapshot DEF TypeOK
  <2>3. \A f \in Files : Latest(f)' = Latest(f)
    BY <1>e, <1>f, <2>1
  <2>4. \A f \in Files : Latest(f) \in Pipeline => Latest(f) \in Pipeline'
    <3>1. \A i \in DOMAIN queue : queue[i] \in Pipeline'
      BY <2>2 DEF Pipeline
    <3> QED
      BY <2>1, <3>1 DEF Pipeline
  <2> QED
    BY <2>1, <2>3, <2>4, <1>b DEF LatestAccounted
<1>3. CASE Collect
  <2> DEFINE w == Head(queue)
             c == Coalesce(batch, w)
  <2>1. /\ batch # <<>> /\ queue # <<>> /\ batch' = c /\ queue' = Tail(queue) /\ Up
        /\ disk' = disk /\ memory' = memory /\ failed' = failed
    BY <1>3 DEF Collect, Shape, ui
  <2>2. /\ 1 \in DOMAIN queue /\ w = queue[1] /\ w \in Snapshot
        /\ \A i \in DOMAIN queue : i = 1 \/ (i - 1 \in DOMAIN queue' /\ queue'[i - 1] = queue[i])
    BY <2>1, TakeSnapshot DEF TypeOK
  <2> HIDE DEF w
  <2>3. /\ \E i \in DOMAIN c : c[i] = w
        /\ \A i \in DOMAIN batch : batch[i].file # w.file => i \in DOMAIN c /\ c[i] = batch[i]
    <3>1. batch \in Seq(Snapshot)
      BY DEF TypeOK
    <3>2. \A i, j \in DOMAIN batch : batch[i].file = batch[j].file => i = j
      BY <1>a
    <3>3. w \in Snapshot /\ batch # <<>>
      BY <2>1, <2>2
    <3> QED
      BY <3>1, <3>2, <3>3, CoalesceBurst
  <2> HIDE DEF c
  <2>4. \A i \in DOMAIN batch : batch[i].file = w.file => batch[i].val < memory[w.file]
    BY <1>a, <2>2, Elements, <1>b
  <2>5. \A i \in DOMAIN batch, f \in Files : batch[i] = Latest(f) => batch[i].file # w.file
    BY <1>b, <1>e, <2>4
  <2>6. \A f \in Files : Latest(f)' = Latest(f)
    BY <1>e, <1>f, <2>1
  <2>7. \A f \in Files : Latest(f) \in Pipeline => Latest(f) \in Pipeline'
    <3>1. \A i \in DOMAIN queue : queue[i] \in Pipeline'
      BY ZenonT(40), <2>1, <2>2, <2>3 DEF Pipeline
    <3>2. \A i \in DOMAIN batch, f \in Files : batch[i] = Latest(f) => Latest(f) \in Pipeline'
      BY <2>1, <2>3, <2>5 DEF Pipeline
    <3> QED
      BY <3>1, <3>2 DEF Pipeline
  <2> QED
    BY <2>1, <2>6, <2>7, <1>b DEF LatestAccounted
<1>4. CASE Rename \/ NotifyFailure
  <2>1. /\ batch # <<>> /\ batch' = Tail(batch) /\ queue' = queue /\ memory' = memory
        /\ failed' = failed /\ Up
    BY <1>4 DEF Rename, NotifyFailure, Shape, ui
  <2>2. /\ 1 \in DOMAIN batch /\ snap = batch[1] /\ snap.file \in Files /\ snap.val \in Nat
        /\ \A i \in DOMAIN batch : i = 1 \/ (i - 1 \in DOMAIN batch' /\ batch'[i - 1] = batch[i])
    BY <2>1, TakeSnapshot, SnapType DEF TypeOK
  <2>3. \A f \in Files : Latest(f)' = Latest(f)
    BY <1>e, <1>f, <2>1
  <2>4. CASE Rename
    <3>1. \A f \in Files : (f # snap.file /\ disk'[f] = disk[f]) \/ (f = snap.file /\ disk'[f].val = snap.val)
      BY <2>2, <2>4 DEF Rename, TypeOK
    <3>2. \A f \in Files : disk[f].val = memory[f] => f # snap.file
      BY <1>a, <1>b, <2>2
    <3>3. \A f \in Files : snap = Latest(f) => disk'[f].val = memory'[f]
      BY <1>e, <2>1, <3>1
    <3>4. \A x \in Pipeline : x = snap \/ x \in Pipeline'
      BY <2>1, <2>2 DEF Pipeline
    <3> QED
      BY <1>b, <2>1, <2>3, <3>1, <3>2, <3>3, <3>4 DEF LatestAccounted
  <2>5. CASE NotifyFailure
    <3>1. snap \in failed /\ disk' = disk
      BY <2>5 DEF NotifyFailure, Shape
    <3> QED
      BY <1>c, <1>d, <2>1, <2>2, <2>3, <3>1
  <2> QED
    BY <1>4, <2>4, <2>5
<1>5. CASE Exit \/ Crash
  BY <1>5 DEF Exit, Crash, LatestAccounted, Up
<1>6. CASE Restart
  <2>1. \A f \in Files : disk'[f].val = memory'[f]
    BY <1>6, <1>b DEF Restart
  <2> QED
    BY <1>d, <2>1
<1>7. CASE /\ UNCHANGED <<memory, disk, queue, batch>> /\ failed \subseteq failed' /\ Up' = Up
  <2>1. \A f \in Files : Latest(f)' = Latest(f)
    BY <1>e, <1>f, <1>7
  <2> QED
    BY <1>c, <1>d, <1>7, <2>1
<1> QED
  BY <1>1, <1>2, <1>3, <1>4, <1>5, <1>6, <1>7
  DEF Next, vars, ui, HandleNotice, BurstEnds, WriteTemp, WriteFails, Up,
      RecordFailure, WorkerEnds, Quit, Join, Summarise

\* Every step keeps count of the failures, to the end of an orderly exit.
LEMMA FailureStep ==
  ASSUME IInv, [Next]_vars PROVE FailuresKept' /\ FailuresTold'
<1>1. ASSUME NEW f \in Files, Choose(f) PROVE FailuresKept' /\ FailuresTold'
  BY <1>1 DEF IInv, FailuresKept, FailuresTold, Choose, snap
<1>2. ASSUME NEW id \in Ids, HandleNotice(id) PROVE FailuresKept' /\ FailuresTold'
  <2>1. told' \cup {p.snap : p \in pending'} = told \cup {p.snap : p \in pending}
    BY <1>2 DEF HandleNotice
  <2> QED
    BY <1>2, <2>1 DEF IInv, FailuresKept, FailuresTold, HandleNotice, snap
<1>3. CASE Receive \/ Collect \/ BurstEnds \/ WriteTemp \/ Rename \/ WorkerEnds
  <2>1. /\ UNCHANGED <<phase, stalled, crashed, failed, told, pending>>
        /\ worker # "record"
    BY <1>3 DEF Receive, Collect, BurstEnds, WriteTemp, Rename, WorkerEnds, ui
  <2> QED
    BY <2>1 DEF IInv, FailuresKept, FailuresTold
<1>4. CASE WriteFails
  <2>1. /\ failed' = failed \cup {snap} /\ worker' = "record" /\ snap' = snap /\ worker \notin {"record", "gone"}
        /\ UNCHANGED <<phase, stalled, crashed, told, pending>> /\ Up
    BY <1>4 DEF WriteFails, ui, snap
  <2>2. phase \notin {"leaving", "exited"} \/ stalled
    BY <2>1 DEF IInv, Shape, Up
  <2> QED
    BY <2>1, <2>2 DEF IInv, FailuresKept, FailuresTold
<1>5. CASE RecordFailure
  <2> DEFINE r == [id |-> Cardinality(failed), snap |-> snap]
  <2>0. r.snap = snap /\ pending' = pending \cup {r}
    BY <1>5 DEF RecordFailure
  <2> HIDE DEF r
  <2>1. {p.snap : p \in pending'} = {p.snap : p \in pending} \cup {snap}
    BY <2>0
  <2> QED
    BY <1>5, <2>1 DEF IInv, FailuresKept, FailuresTold, RecordFailure
<1>6. CASE NotifyFailure
  BY <1>6 DEF IInv, FailuresKept, FailuresTold, NotifyFailure, After
<1>7. CASE Quit \/ Join
  BY <1>7 DEF IInv, FailuresKept, FailuresTold, Quit, Join, snap
<1>8. CASE Summarise
  BY <1>8 DEF IInv, FailuresKept, FailuresTold, Shape, Summarise
<1>9. CASE Exit \/ Crash
  BY <1>9 DEF IInv, FailuresKept, FailuresTold, Shape, Exit, Crash
<1>10. CASE Restart
  BY <1>10 DEF IInv, FailuresKept, FailuresTold, Restart
<1>11. CASE UNCHANGED vars
  BY <1>11 DEF IInv, FailuresKept, FailuresTold, vars, snap
<1> QED
  BY <1>1, <1>2, <1>3, <1>4, <1>5, <1>6, <1>7, <1>8, <1>9, <1>10, <1>11 DEF Next

\* An orderly exit leaves every latest choice saved or reported.
LEMMA CleanExitStep ==
  ASSUME IInv, [Next]_vars PROVE CleanExit'
<1>1. CASE Exit
  <2>1. SUFFICES ASSUME ~stalled, NEW f \in Files
                 PROVE  Loaded(f) = memory[f] \/ Latest(f) \in told
    BY <1>1 DEF Exit, CleanExit, Loaded, Latest
  <2>2. batch = <<>> /\ queue = <<>> /\ Up
    BY <1>1, <2>1 DEF Exit, IInv, Shape, Up
  <2>3. Pipeline = {}
    BY <2>2 DEF Pipeline
  <2>4. crashed \/ failed \subseteq told
    BY <1>1, <2>1 DEF Exit, IInv, FailuresTold
  <2>5. CASE crashed
    BY <1>1, <2>2, <2>5 DEF IInv, NotCrashed
  <2> QED
    BY <2>2, <2>3, <2>4, <2>5 DEF IInv, LatestAccounted
<1>2. CASE phase' # "exited" \/ crashed'
  BY <1>2 DEF CleanExit
<1>3. CASE phase = "exited" /\ UNCHANGED <<phase, stalled, crashed, disk, memory, told>>
  BY <1>3 DEF IInv, CleanExit, Loaded, Latest
<1> QED
  BY <1>1, <1>2, <1>3
  DEF Next, vars, ui, Up, Choose, HandleNotice, Receive, Collect, BurstEnds, WriteTemp,
      Rename, WriteFails, RecordFailure, NotifyFailure, WorkerEnds, Quit, Join,
      Summarise, Crash, Restart

\* The invariant holds at the start.
LEMMA InitInv == Init => IInv
<1> SUFFICES ASSUME Init PROVE IInv
  OBVIOUS
<1>1. <<>> \in Seq(Snapshot) /\ DOMAIN << >> = {}
  BY EmptySeq
<1>2. TypeOK
  BY <1>1 DEF Init, TypeOK
<1>3. Shape
  BY FS_EmptySet DEF Init, Shape, Up
<1>4. FilesBehind
  BY DEF Init, FilesBehind
<1>5. OrderInv
  BY <1>1 DEF Init, OrderInv, Pipeline
<1>6. LatestAccounted
  BY DEF Init, LatestAccounted, Loaded
<1> QED
  BY <1>2, <1>3, <1>4, <1>5, <1>6
  DEF Init, IInv, FailuresKept, FailuresTold, CleanExit, NotCrashed, Up

\* Every step keeps the invariant.
LEMMA NextInv == IInv /\ [Next]_vars => IInv'
<1> SUFFICES ASSUME IInv, [Next]_vars PROVE IInv'
  OBVIOUS
<1>1. TypeOK' /\ Shape'
  BY TypeStep, ShapeStep DEF IInv
<1>2. FilesBehind'
  BY FilesStep DEF IInv
<1>3. OrderInv' /\ LatestAccounted'
  BY <1>1, <1>2, OrderStep, AccountedStep DEF IInv
<1>4. NotCrashed'
  BY DEF IInv, NotCrashed, Next, vars, ui, Up, Choose, HandleNotice, Receive, Collect, BurstEnds,
     WriteTemp, Rename, WriteFails, RecordFailure, NotifyFailure, WorkerEnds, Quit, Join,
     Summarise, Exit, Crash, Restart
<1>5. FailuresKept' /\ FailuresTold' /\ CleanExit'
  BY FailureStep, CleanExitStep
<1> QED
  BY <1>1, <1>2, <1>3, <1>4, <1>5 DEF IInv

-----------------------------------------------------------------------------
(* The theorems.                                                           *)

\* Whatever the files and the bounds, the invariant holds.
LEMMA Invariance == Spec => []IInv
BY InitInv, NextInv, PTL DEF Spec

\* A choice never overtakes a newer one on its way to the disk, and coalescing
\* keeps the newest one: state_writer.rs "the single ordered queue prevents rapid
\* changes to the same file from completing out of order".
THEOREM Ordered == Spec => []OrderInv
<1>1. IInv => OrderInv
  BY DEF IInv
<1> QED
  BY <1>1, Invariance, PTL

\* No latest choice is lost between the UI, the worker and the disk.
THEOREM NothingLost == Spec => []LatestAccounted
<1>1. IInv => LatestAccounted
  BY DEF IInv
<1> QED
  BY <1>1, Invariance, PTL

\* A failed write stays known until the user has been told of it.
THEOREM FailuresRemembered == Spec => []FailuresKept
<1>1. IInv => FailuresKept
  BY DEF IInv
<1> QED
  BY <1>1, Invariance, PTL

\* An orderly exit leaves each latest choice on disk or reported.
THEOREM OrderlyExit == Spec => []CleanExit
<1>1. IInv => CleanExit
  BY DEF IInv
<1> QED
  BY <1>1, Invariance, PTL

\* Every step is a step of the promise, or none of it.
LEMMA PromiseStep == IInv /\ IInv' /\ [Next]_vars => [Promise!Next]_(Promise!vars)
<1> SUFFICES ASSUME IInv, IInv', [Next]_vars PROVE [Promise!Next]_(Promise!vars)
  OBVIOUS
<1> DEFINE loaded == [f \in Files |-> Loaded(f)]
<1>a. \A f \in Files : /\ Loaded(f) = disk[f].val /\ Loaded(f)' = disk'[f].val
                      /\ disk[f].val \in Nat /\ memory[f] \in Nat
  BY DEF IInv, FilesBehind, Loaded, TypeOK
<1>1. ASSUME NEW f \in Files, Choose(f) PROVE Promise!Choose(f)
  <2>1. /\ Up /\ Up' = Up /\ memory' = [memory EXCEPT ![f] = @ + 1] /\ disk' = disk
    BY <1>1 DEF Choose, Up
  <2>2. loaded' = loaded
    BY <2>1 DEF Loaded
  <2> QED
    BY <2>1, <2>2 DEF Promise!Choose
<1>2. CASE Rename
  <2>1. batch # <<>> /\ TypeOK
    BY <1>2 DEF Rename, IInv, Shape
  <2>2. snap.file \in Files /\ snap.val \in Nat
    BY <2>1, SnapType
  <2>3. snap.val \in disk[snap.file].val + 1 .. memory[snap.file]
    <3>1. snap = batch[1] /\ 1 \in DOMAIN batch
      BY <2>1, SnapType
    <3>2. disk[snap.file].val < snap.val /\ snap.val <= memory[snap.file]
      BY <2>1, <3>1, OrderedPipeline DEF IInv
    <3> QED
      BY <1>a, <2>2, <3>2
  <2>4. Up /\ Up' = Up /\ memory' = memory
    BY <1>2 DEF Rename, Up, ui
  <2>5. loaded' = [loaded EXCEPT ![snap.file] = snap.val]
    <3>1. \A f \in Files : disk'[f].val = IF f = snap.file THEN snap.val ELSE disk[f].val
      BY <1>2, <2>1, <2>2 DEF Rename, TypeOK
    <3> QED
      BY <1>a, <2>2, <3>1
  <2>6. loaded[snap.file] = disk[snap.file].val
    BY <1>a, <2>2
  <2>7. Promise!Save(snap.file)
    BY <2>2, <2>3, <2>4, <2>5, <2>6 DEF Promise!Save
  <2> QED
    BY <2>2, <2>7 DEF Promise!Next
<1>3. CASE Exit \/ Crash
  <2>1. Up /\ ~Up' /\ memory' = memory /\ disk' = disk
    BY <1>3 DEF Exit, Crash, Up
  <2>2. loaded' = loaded
    BY <2>1 DEF Loaded
  <2> QED
    BY <2>1, <2>2 DEF Promise!Next, Promise!Stop
<1>4. CASE Restart
  <2>1. ~Up /\ Up' /\ memory' = loaded /\ disk' = disk
    BY <1>4 DEF Restart, Up
  <2>2. loaded' = loaded
    BY <2>1 DEF Loaded
  <2> QED
    BY <2>1, <2>2 DEF Promise!Next, Promise!Restart
<1>5. CASE UNCHANGED <<memory, disk, Up>>
  <2>1. loaded' = loaded
    BY <1>5 DEF Loaded
  <2> QED
    BY <1>5, <2>1 DEF Promise!vars
<1> QED
  BY <1>1, <1>2, <1>3, <1>4, <1>5
  DEF Next, vars, ui, Up, HandleNotice, Receive, Collect, BurstEnds, WriteTemp, WriteFails,
      RecordFailure, NotifyFailure, WorkerEnds, Quit, Join, Summarise, Promise!Next

\* The state writer implements StateFiles: each file only ever moves forward, to
\* a choice the user made, whatever fails, stalls or is killed.
THEOREM KeepsItsPromise == Spec => KeepsPromise
<1>1. Init => Promise!Init
  BY DEF Init, Promise!Init, Loaded, Up
<1> QED
  BY <1>1, PromiseStep, Invariance, PTL DEF Spec, KeepsPromise, Promise!Spec
=============================================================================
