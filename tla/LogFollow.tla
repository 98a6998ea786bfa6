------------------------------ MODULE LogFollow ------------------------------
(***************************************************************************)
(* One followed log stream (LogStream in src/src/app/log_follow.rs) and    *)
(* the view it fills.                                                      *)
(*                                                                         *)
(* The API server ends a stream when the container exits or the connection *)
(* drops; the stream asks again, from the second of the last line it       *)
(* delivered, and drops the lines of that second it delivered already.     *)
(* Requests go by name, so between two of them another pod may have it.    *)
(***************************************************************************)
EXTENDS Naturals, Sequences, FiniteSets, Functions

CONSTANTS
  TailLines,                                   \* lines of the first request
  MaxPods, MaxRuns, MaxLines, MaxTime,         \* bounds: of the cluster
  MaxFaults, MaxGen, MaxInbox                  \* bounds: of the stream

ASSUME LogFollowAssumption ==
  TailLines \in Nat /\ MaxPods \in Nat \ {0} /\ MaxRuns \in Nat \ {0}

None == 0
Runs == (1 .. MaxPods) \X (1 .. MaxRuns)       \* a pod and a run of its container

VARIABLES
  pod,      \* who has the name: its uid (None when nobody), run, container state
  written,  \* written[u, r]: the time stamp of each line of that run
  now,
  task,     \* the stream
  inbox,    \* batches sent and not yet handled
  gen,      \* log_gen
  stopped,
  shown,    \* the lines in the view, in arrival order
  faults,   \* drops and failures so far
  raced     \* history: pods a stream was opened on in place of the one it knew

vars == <<pod, written, now, task, inbox, gen, stopped, shown, faults, raced>>
cluster == <<pod, written, now>>
view == <<inbox, gen, stopped, shown>>

NewResume == [last |-> None, at |-> 0, skip |-> 0, replaying |-> FALSE]
NoConn == [uid |-> None, run |-> 0, pos |-> 0]

\* LogStream::run at its start: a pinned stream belongs to one pod.
NewTask(pinned, uid, canRead, g) ==
  [pc |-> "check", gen |-> g, pinned |-> pinned, first |-> uid, uid |-> uid,
   canRead |-> canRead, resume |-> NewResume, tail |-> TRUE, since |-> None,
   conn |-> NoConn, ended |-> "no"]

-----------------------------------------------------------------------------
(* The cluster.  Lines of one run never go back in time, and a restart takes *)
(* longer than a tick.  Two ticks make a second.                           *)

Second(t) == (t \div 2) * 2

Log == IF pod.uid = None \/ pod.run = 0 THEN <<>> ELSE written[pod.uid, pod.run]

LinesWritten ==
  LET plus(lines, n) == Len(lines) + n IN FoldFunction(plus, 0, written)

Write ==
  /\ pod.uid # None /\ pod.state = "running" /\ LinesWritten < MaxLines
  /\ \E t \in {now, now + 1} :
       /\ t <= MaxTime /\ now' = t
       /\ written' = [written EXCEPT ![<<pod.uid, pod.run>>] = Append(@, t)]
  /\ UNCHANGED <<pod, task, view, faults, raced>>

\* The container starts, or starts again after it exited.
Starts ==
  /\ pod.uid # None /\ pod.state \in {"waiting", "exited"}
  /\ pod.last + pod.run < MaxRuns /\ now < MaxTime
  /\ pod' = [pod EXCEPT !.run = @ + 1, !.state = "running"]
  /\ now' = now + 1
  /\ UNCHANGED <<written, task, view, faults, raced>>

\* It exits; when `s` is "over" its pod has Succeeded or Failed.
Exits(s) ==
  /\ pod.uid # None /\ pod.state = "running"
  /\ pod' = [pod EXCEPT !.state = s]
  /\ UNCHANGED <<written, now, task, view, faults, raced>>

PodGone ==
  /\ pod.uid # None
  /\ pod' = [pod EXCEPT !.uid = None, !.last = pod.uid]
  /\ UNCHANGED <<written, now, task, view, faults, raced>>

\* A StatefulSet gives the name to a new pod.
PodBack ==
  /\ pod.uid = None /\ pod.last < MaxPods
  /\ pod' = [uid |-> pod.last + 1, run |-> 0, state |-> "waiting", last |-> pod.last]
  /\ UNCHANGED <<written, now, task, view, faults, raced>>

-----------------------------------------------------------------------------
(* LogResume.                                                              *)

\* Mutant: the lines of the last second are not counted.
AdmitByTime(r, t) ==
  IF r.replaying /\ t <= r.last THEN [r |-> r, ok |-> FALSE]
  ELSE [r |-> [r EXCEPT !.last = t, !.at = 1, !.replaying = FALSE], ok |-> TRUE]

Admit(r, t) ==
  CASE r.last = None -> [r |-> [r EXCEPT !.last = t, !.at = 1], ok |-> TRUE]
    [] r.last # None /\ r.replaying /\ t < r.last -> [r |-> r, ok |-> FALSE]
    [] r.last # None /\ r.replaying /\ t = r.last /\ r.skip > 0 ->
         [r |-> [r EXCEPT !.skip = @ - 1], ok |-> FALSE]
    [] OTHER ->
         [r |-> IF t = r.last THEN [r EXCEPT !.at = @ + 1]
                ELSE IF t > r.last THEN [r EXCEPT !.last = t, !.at = 1, !.replaying = FALSE]
                ELSE r,
          ok |-> TRUE]

\* Mutant: a reconnect does not say where it was.
RewindNothing(k) == IF k.pc = "done" THEN k ELSE [k EXCEPT !.pc = "check"]

\* The end of the loop: the next request continues from the last line.
Rewind(k) ==
  IF k.pc = "done" THEN k ELSE
  [k EXCEPT !.pc = "check",
            !.resume = [@ EXCEPT !.replaying = TRUE, !.skip = k.resume.at],
            !.tail = IF k.resume.last = None THEN @ ELSE FALSE,
            !.since = IF k.resume.last = None THEN @ ELSE Second(k.resume.last)]

\* The lines a request gets, of those there are: it starts at this one.
FirstLine(k, log) ==
  IF k.tail THEN IF Len(log) > TailLines THEN Len(log) - TailLines + 1 ELSE 1
  ELSE 1 + Cardinality({i \in DOMAIN log : log[i] < k.since})

-----------------------------------------------------------------------------
(* Checking the pod.                                                       *)

End(why) == [task EXCEPT !.pc = "done", !.ended = why, !.conn = NoConn]

\* settle(Recreated): the new pod is read from its start.
Recreated(k) ==
  [k EXCEPT !.uid = pod.uid, !.resume = NewResume, !.tail = FALSE, !.since = None]

\* identity, and what settle makes of it: an end, or a stream that goes on.
Identity ==
  IF pod.uid = None THEN End("gone")
  ELSE IF task.uid # None /\ task.uid # pod.uid
       THEN IF task.pinned THEN End("replaced") ELSE Recreated(task)
       ELSE [task EXCEPT !.uid = pod.uid]

\* stream_end: also the pod that is over.
StreamEnd ==
  IF pod.uid # None /\ pod.state = "over" /\ task.uid \in {None, pod.uid}
  THEN End("finished") ELSE Identity

GoOn(k, pc) == IF k.pc = "done" THEN k ELSE [k EXCEPT !.pc = pc]

Fault == faults < MaxFaults /\ faults' = faults + 1
Task(k) == task' = k /\ UNCHANGED <<cluster, view>>

Check ==
  /\ task.pc = "check" /\ UNCHANGED raced
  /\ \/ task.uid = None /\ Task([task EXCEPT !.pc = "open"]) /\ UNCHANGED faults
     \/ /\ task.uid # None /\ task.canRead /\ UNCHANGED faults
        /\ Task(GoOn(Identity, "open"))
     \/ /\ task.uid # None /\ ~task.canRead /\ UNCHANGED faults
        /\ Task(IF task.pinned THEN End("refused") ELSE [task EXCEPT !.pc = "open"])
     \/ /\ task.uid # None /\ Fault
        /\ Task(IF task.pinned THEN task ELSE [task EXCEPT !.pc = "open"])

\* A pod that has the name, and is another one than the stream takes it for.
Mistaken == task.uid # None /\ pod.uid # task.uid

Opened ==
  /\ task.pc = "open" /\ pod.uid # None /\ pod.run # 0
  /\ Task([task EXCEPT !.pc = "pump",
             !.conn = [uid |-> pod.uid, run |-> pod.run, pos |-> FirstLine(task, Log)]])
  /\ raced' = IF Mistaken THEN raced \cup {pod.uid} ELSE raced
  /\ UNCHANGED faults

\* Nobody has the name, or the request fails or times out.
NotOpened ==
  /\ task.pc = "open" /\ (IF pod.uid = None THEN UNCHANGED faults ELSE Fault)
  /\ Task([task EXCEPT !.pc = "after"]) /\ UNCHANGED raced

\* The machine wakes: the request is abandoned, and the pod checked again.
WokenOpening ==
  /\ task.pc = "open" /\ Fault /\ Task([task EXCEPT !.pc = "check"]) /\ UNCHANGED raced

OpenRefused ==
  /\ task.pc = "open" /\ Fault /\ Task(End("refused")) /\ UNCHANGED raced

\* The container has not started: look at the pod, wait, and ask again.
NotStarted ==
  /\ task.pc = "open" /\ pod.uid # None /\ pod.run = 0
  /\ \/ /\ task.canRead /\ Task(GoOn(StreamEnd, "check"))
        /\ UNCHANGED faults
     \/ /\ (IF task.canRead THEN Fault ELSE UNCHANGED faults)
        /\ Task([task EXCEPT !.pc = "check"])
  /\ UNCHANGED raced

\* pump: the next line, if it is a new one, is on its way to the view.
Deliver ==
  LET c == task.conn
      a == Admit(task.resume, written[c.uid, c.run][c.pos])
  IN /\ task.pc = "pump" /\ Len(inbox) < MaxInbox /\ c.pos <= Len(written[c.uid, c.run])
     /\ task' = [task EXCEPT !.conn.pos = @ + 1, !.resume = a.r]
     /\ inbox' = IF a.ok
                 THEN Append(inbox, [gen |-> task.gen,
                                     line |-> [uid |-> c.uid, run |-> c.run, n |-> c.pos]])
                 ELSE inbox
     /\ UNCHANGED <<cluster, gen, stopped, shown, faults, raced>>

\* The stream is over when its run is, or breaks, or the machine wakes.
RunOver(c) == c.uid # pod.uid \/ c.run # pod.run \/ pod.state # "running"

StreamOver ==
  LET c == task.conn
  IN /\ task.pc = "pump"
     /\ IF RunOver(c) /\ c.pos > Len(written[c.uid, c.run]) THEN UNCHANGED faults ELSE Fault
     /\ Task([task EXCEPT !.pc = "after", !.conn = NoConn]) /\ UNCHANGED raced

After ==
  /\ task.pc = "after" /\ UNCHANGED raced
  /\ \/ task.canRead /\ Task(Rewind(StreamEnd)) /\ UNCHANGED faults
     \/ /\ Task(Rewind(task))
        /\ IF task.canRead THEN Fault ELSE UNCHANGED faults

-----------------------------------------------------------------------------
(* The view.                                                               *)

\* Msg::LogLines.
HandleLines ==
  /\ inbox # <<>> /\ inbox' = Tail(inbox)
  /\ shown' = IF inbox[1].gen = gen THEN Append(shown, inbox[1].line) ELSE shown
  /\ UNCHANGED <<cluster, task, gen, stopped, faults, raced>>

\* key_logs: the stream is stopped (stop_log_stream aborts the task) ...
StopStream ==
  /\ ~stopped /\ gen < MaxGen
  /\ stopped' = TRUE /\ gen' = gen + 1
  /\ task' = [End("stopped") EXCEPT !.gen = gen + 1]
  /\ UNCHANGED <<cluster, inbox, shown, faults, raced>>

\* ... and resumed, or restarted with another lookback: retail_logs.
Retail ==
  /\ gen < MaxGen
  /\ gen' = gen + 1 /\ stopped' = FALSE /\ shown' = <<>>
  /\ task' = NewTask(task.pinned, task.first, task.canRead, gen + 1)
  /\ UNCHANGED <<cluster, inbox, faults, raced>>

-----------------------------------------------------------------------------
Init ==
  /\ pod = [uid |-> 1, run |-> 1, state |-> "running", last |-> 0]
  /\ written = [r \in Runs |-> <<>>] /\ now = 2
  /\ \E canRead \in BOOLEAN :
       \/ task = NewTask(TRUE, 1, canRead, 1)
       \/ \E uid \in {None, 1} : task = NewTask(FALSE, uid, canRead, 1)
  /\ inbox = <<>> /\ gen = 1 /\ stopped = FALSE /\ shown = <<>>
  /\ faults = 0 /\ raced = {}

Cluster == Write \/ Starts \/ Exits("exited") \/ Exits("over") \/ PodGone \/ PodBack
Stream ==
  \/ Check \/ Opened \/ NotOpened \/ WokenOpening \/ OpenRefused \/ NotStarted
  \/ Deliver \/ StreamOver \/ After
\* Bound: nothing happens to the pod after the last stream.
Watched == task.pc # "done" \/ gen < MaxGen
Next == (Watched /\ Cluster) \/ Stream \/ HandleLines \/ StopStream \/ Retail

Fairness == WF_vars(Stream) /\ WF_vars(HandleLines)
Spec == Init /\ [][Next]_vars
FairSpec == Spec /\ Fairness

-----------------------------------------------------------------------------
(* Properties.                                                             *)

Of(s, i, r) == <<s[i].uid, s[i].run>> = r

\* The first line of run r in s is in the middle of lines of one time stamp.
TailSplits(s, r) ==
  \E f \in DOMAIN s :
    /\ Of(s, f, r) /\ \A k \in 1 .. f - 1 : ~Of(s, k, r)
    /\ s[f].n > 1 /\ written[r][s[f].n - 1] = written[r][s[f].n]

Consecutive(s, r) ==
  \A i, j \in DOMAIN s :
    i < j /\ Of(s, i, r) /\ Of(s, j, r) /\ (\A k \in i + 1 .. j - 1 : ~Of(s, k, r))
      => s[j].n = s[i].n + 1

\* Whatever breaks and reconnects, the view has the lines of a run one after the
\* other: none twice, none left out in between, none out of turn - unless the pod's
\* name changed hands between the check and the request, or the tail started in the
\* middle of a time stamp (LogResume then swallows a line and repeats another).
LinesConsecutive ==
  \A r \in Runs : r[1] \notin raced /\ ~TailSplits(shown, r) => Consecutive(shown, r)

\* LogResume: "a reconnect continues without repeating lines".
NoLineTwice ==
  \A r \in Runs :
    r[1] \notin raced =>
      \A i, j \in DOMAIN shown : i # j /\ Of(shown, i, r) /\ Of(shown, j, r) =>
        shown[i].n # shown[j].n

\* Every line a running container writes reaches the view: whenever the view is
\* behind, it catches up - or the run ends, or the stream does and says why.
CaughtUp ==
  \/ pod.uid = None \/ pod.state # "running" \/ Log = <<>>
  \/ task.ended # "no" \/ pod.uid \in raced
  \/ \E i \in DOMAIN shown : shown[i] = [uid |-> pod.uid, run |-> pod.run, n |-> Len(Log)]

LinesArrive == []<>CaughtUp

\* A stream that ends because its container is over has delivered what it wrote
\* (pump: "Any gap is replayed from the last delivered line").
LastLinesShown ==
  task.ended = "finished" /\ inbox = <<>> /\ shown # <<>> =>
    LET l == shown[Len(shown)] IN l.n = Len(written[l.uid, l.run])
=============================================================================
