---------------------------- MODULE StateWriter ----------------------------
(***************************************************************************)
(* The worker that saves namespaces, sorts and fleet marks off the event   *)
(* loop (src/src/state_writer.rs), the atomic replacement of the files     *)
(* (src/src/atomicfile.rs), and the process around them: quitting, being   *)
(* killed, starting again.                                                 *)
(*                                                                         *)
(* A snapshot is [file, val]: val numbers the choices made for that file.  *)
(* The UI channel is the set of failure notices in it; that it may be full *)
(* is a choice.                                                            *)
(***************************************************************************)
EXTENDS Naturals, Sequences, FiniteSets

CONSTANTS
  Files,
  MaxChoices,  \* bound: choices per file
  MaxFailures, \* bound: failed writes per session
  MaxSessions  \* bound: starts of the process

ASSUME StateWriterAssumption ==
  MaxChoices \in Nat /\ MaxFailures \in Nat /\ MaxSessions \in Nat

VARIABLES
  memory,   \* memory[f]: the UI's latest choice
  disk,     \* disk[f]: [val, whole], the file's contents
  temps,    \* temporary files beside them
  queue,    \* the ordered channel to the worker
  batch,    \* the worker's coalesced burst, the one being written first
  worker,   \* where the worker is
  pending,  \* pending_failures
  notices,  \* StateWriteFailed messages the UI has not handled
  phase,    \* where the process is
  stalled,  \* teardown gave up on the worker, and said so
  crashed,  \* the process was killed
  sessions,
  failed,   \* history: snapshots whose write failed this session
  told      \* history: snapshots whose failure the user was shown

ui == <<memory, pending, notices, phase, stalled, crashed, sessions, told>>
vars == <<memory, disk, temps, queue, batch, worker, pending, notices, phase,
          stalled, crashed, sessions, failed, told>>

Snapshot == [file : Files, val : Nat]
Ids == 1 .. MaxFailures
Up == phase # "exited"
snap == Head(batch)

\* load: an unparsable file is an empty set of choices.
Loaded(f) == IF disk[f].whole THEN disk[f].val ELSE 0

Init ==
  /\ memory = [f \in Files |-> 0]
  /\ disk = [f \in Files |-> [val |-> 0, whole |-> TRUE]]
  /\ temps = {} /\ queue = <<>> /\ batch = <<>> /\ worker = "recv"
  /\ pending = {} /\ notices = {} /\ failed = {} /\ told = {}
  /\ phase = "running" /\ stalled = FALSE /\ crashed = FALSE /\ sessions = 1

-----------------------------------------------------------------------------
(* The event loop.                                                         *)

\* remember_namespace, remember_sort, toggle_fleet_context.
Choose(f) ==
  /\ phase = "running" /\ memory[f] < MaxChoices
  /\ memory' = [memory EXCEPT ![f] = @ + 1]
  /\ queue' = Append(queue, [file |-> f, val |-> memory'[f]])
  /\ UNCHANGED <<disk, temps, batch, worker, pending, notices, phase, stalled,
                 crashed, sessions, failed, told>>

\* StateWriteFailed: shown on the status bar, then acknowledged.
HandleNotice(id) ==
  /\ phase = "running" /\ id \in notices
  /\ notices' = notices \ {id}
  /\ told' = told \cup {p.snap : p \in {p \in pending : p.id = id}}
  /\ pending' = {p \in pending : p.id # id}
  /\ UNCHANGED <<memory, disk, temps, queue, batch, worker, phase, stalled,
                 crashed, sessions, failed>>

-----------------------------------------------------------------------------
(* The worker thread.                                                      *)

Receive ==
  /\ Up /\ worker = "recv" /\ queue # <<>>
  /\ batch' = <<Head(queue)>> /\ queue' = Tail(queue)
  /\ worker' = "collect"
  /\ UNCHANGED <<ui, disk, temps, failed>>

\* Mutant: a burst keeps the oldest snapshot of a file.
CoalesceOldest(b, w) == IF \E i \in DOMAIN b : b[i].file = w.file THEN b ELSE Append(b, w)

Coalesce(b, w) ==
  IF \E i \in DOMAIN b : b[i].file = w.file
  THEN [i \in DOMAIN b |-> IF b[i].file = w.file THEN w ELSE b[i]]
  ELSE Append(b, w)

Collect ==
  /\ Up /\ worker = "collect" /\ queue # <<>>
  /\ batch' = Coalesce(batch, Head(queue)) /\ queue' = Tail(queue)
  /\ UNCHANGED <<ui, disk, temps, worker, failed>>

BurstEnds ==
  /\ Up /\ worker = "collect" /\ queue = <<>>
  /\ worker' = "write"
  /\ UNCHANGED <<ui, disk, temps, queue, batch, failed>>

\* Mutant: the target itself is truncated and rewritten.
WriteInPlace ==
  /\ Up /\ worker = "write"
  /\ disk' = [disk EXCEPT ![snap.file].whole = FALSE]
  /\ worker' = "rename"
  /\ UNCHANGED <<ui, temps, queue, batch, failed>>

\* atomicfile::write: a new sibling file takes the bytes ...
WriteTemp ==
  /\ Up /\ worker = "write"
  /\ temps' = temps \cup {snap}
  /\ worker' = "rename"
  /\ UNCHANGED <<ui, disk, queue, batch, failed>>

After(b) == IF Tail(b) = <<>> THEN "recv" ELSE "write"

\* ... and replaces the target once they are synced.
Rename ==
  /\ Up /\ worker = "rename"
  /\ disk' = [disk EXCEPT ![snap.file] = [val |-> snap.val, whole |-> TRUE]]
  /\ temps' = temps \ {snap}
  /\ batch' = Tail(batch) /\ worker' = After(batch)
  /\ UNCHANGED <<ui, queue, failed>>

\* Any step of it fails; the temporary file, if made, is removed.
WriteFails ==
  /\ Up /\ worker \in {"write", "rename"} /\ Cardinality(failed) < MaxFailures
  /\ failed' = failed \cup {snap}
  /\ temps' = temps \ {snap}
  /\ worker' = "record"
  /\ UNCHANGED <<ui, disk, queue, batch>>

RecordFailure ==
  /\ Up /\ worker = "record"
  /\ pending' = pending \cup {[id |-> Cardinality(failed), snap |-> snap]}
  /\ worker' = "notify"
  /\ UNCHANGED <<memory, disk, temps, queue, batch, notices, phase, stalled,
                 crashed, sessions, failed, told>>

\* try_send: the channel may be full, or the worker may see that it drains.
NotifyFailure ==
  /\ Up /\ worker = "notify"
  /\ notices' \in {notices, notices \cup {Cardinality(failed)}}
  /\ batch' = Tail(batch) /\ worker' = After(batch)
  /\ UNCHANGED <<memory, disk, temps, queue, pending, phase, stalled, crashed,
                 sessions, failed, told>>

\* Mutant: the thread returns as soon as it sees the teardown.
WorkerEndsAtOnce ==
  /\ Up /\ worker = "recv" /\ phase # "running"
  /\ worker' = "gone"
  /\ UNCHANGED <<ui, disk, temps, queue, batch, failed>>

\* The queue is closed and empty: the thread returns.
WorkerEnds ==
  /\ Up /\ worker = "recv" /\ queue = <<>> /\ phase # "running"
  /\ worker' = "gone"
  /\ UNCHANGED <<ui, disk, temps, queue, batch, failed>>

-----------------------------------------------------------------------------
(* The process.                                                            *)

Quit ==
  /\ phase = "running" /\ phase' = "dropping"
  /\ UNCHANGED <<memory, disk, temps, queue, batch, worker, pending, notices,
                 stalled, crashed, sessions, failed, told>>

\* Mutant: teardown waits for the worker, however long.
JoinForEver ==
  /\ phase = "dropping" /\ phase' = "summary"
  /\ worker = "gone" /\ stalled' = FALSE
  /\ UNCHANGED <<memory, disk, temps, queue, batch, worker, pending, notices,
                 crashed, sessions, failed, told>>

\* The worker is done, or SHUTDOWN_GRACE is over and a warning is printed.
Join ==
  /\ phase = "dropping" /\ phase' = "summary"
  /\ stalled' = (worker # "gone")
  /\ UNCHANGED <<memory, disk, temps, queue, batch, worker, pending, notices,
                 crashed, sessions, failed, told>>

\* The failures nobody acknowledged are printed.
Summarise ==
  /\ phase = "summary" /\ phase' = "leaving"
  /\ told' = told \cup {p.snap : p \in pending}
  /\ UNCHANGED <<memory, disk, temps, queue, batch, worker, pending, notices,
                 stalled, crashed, sessions, failed>>

Gone ==
  /\ queue' = <<>> /\ batch' = <<>> /\ worker' = "gone" /\ notices' = {}

Exit ==
  /\ phase = "leaving" /\ phase' = "exited"
  /\ Gone
  /\ UNCHANGED <<memory, disk, temps, pending, stalled, crashed, sessions, failed, told>>

Crash ==
  /\ Up /\ phase' = "exited" /\ crashed' = TRUE
  /\ Gone
  /\ UNCHANGED <<memory, disk, temps, pending, stalled, sessions, failed, told>>

Restart ==
  /\ ~Up /\ sessions < MaxSessions
  /\ sessions' = sessions + 1 /\ phase' = "running"
  /\ memory' = [f \in Files |-> Loaded(f)]
  /\ worker' = "recv" /\ pending' = {} /\ failed' = {} /\ told' = {}
  /\ stalled' = FALSE /\ crashed' = FALSE
  /\ UNCHANGED <<disk, temps, queue, batch, notices>>

-----------------------------------------------------------------------------
Next ==
  \/ \E f \in Files : Choose(f)
  \/ \E id \in Ids : HandleNotice(id)
  \/ Receive \/ Collect \/ BurstEnds \/ WriteTemp \/ Rename
  \/ WriteFails \/ RecordFailure \/ NotifyFailure \/ WorkerEnds
  \/ Quit \/ Join \/ Summarise \/ Exit \/ Crash \/ Restart

\* Only the main thread is sure to run on: a file system may stall for ever.
Fairness == WF_vars(Join) /\ WF_vars(Summarise) /\ WF_vars(Exit)

Spec == Init /\ [][Next]_vars
FairSpec == Spec /\ Fairness
=============================================================================
