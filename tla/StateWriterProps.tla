-------------------------- MODULE StateWriterProps --------------------------
(***************************************************************************)
(* What the state writer promises to the user's choices.                   *)
(***************************************************************************)
EXTENDS StateWriter

TypeOK ==
  /\ memory \in [Files -> Nat]
  /\ disk \in [Files -> [val : Nat, whole : BOOLEAN]]
  /\ temps \subseteq Snapshot
  /\ queue \in Seq(Snapshot) /\ batch \in Seq(Snapshot)
  /\ worker \in {"recv", "collect", "write", "rename", "record", "notify", "gone"}
  /\ pending \subseteq [id : Nat, snap : Snapshot]
  /\ notices \subseteq Nat
  /\ phase \in {"running", "dropping", "summary", "leaving", "exited"}
  /\ stalled \in BOOLEAN /\ crashed \in BOOLEAN /\ sessions \in Nat
  /\ failed \subseteq Snapshot /\ told \subseteq Snapshot

Pipeline == {batch[i] : i \in DOMAIN batch} \cup {queue[i] : i \in DOMAIN queue}

\* Whatever is on its way to a file is newer than the file and than what is ahead
\* of it: the single queue keeps rapid changes to one file from completing out of
\* order, and a burst keeps the newest snapshot of each file once.
OrderInv ==
  /\ \A s \in Pipeline : Loaded(s.file) < s.val /\ s.val <= memory[s.file]
  /\ \A i, j \in DOMAIN batch : batch[i].file = batch[j].file => i = j
  /\ \A i \in DOMAIN batch, j \in DOMAIN queue :
       batch[i].file = queue[j].file => batch[i].val < queue[j].val
  /\ \A i, j \in DOMAIN queue :
       i < j /\ queue[i].file = queue[j].file => queue[i].val < queue[j].val

Latest(f) == [file |-> f, val |-> memory[f]]

\* The latest choice for a file is saved, on its way, or known to have failed:
\* coalescing a burst or draining at teardown loses no choice.
LatestAccounted ==
  Up => \A f \in Files :
          \/ Loaded(f) = memory[f]
          \/ Latest(f) \in Pipeline
          \/ Latest(f) \in failed

\* A failed write is never forgotten: the user was told, or it waits for the exit
\* summary. A notice that no event loop will ever read does not count as told.
FailuresKept ==
  phase \in {"running", "dropping", "summary"} =>
    failed \subseteq told \cup {p.snap : p \in pending}
                     \cup (IF worker = "record" THEN {snap} ELSE {})

\* After an orderly exit every latest choice is on disk, or the user was told
\* that it is not: by its own failure, or by the warning of a stalled worker.
CleanExit ==
  phase = "exited" /\ ~stalled /\ ~crashed =>
    \A f \in Files : Loaded(f) = memory[f] \/ Latest(f) \in told

\* The implementation of the promise in StateFiles.
Promise == INSTANCE StateFiles
             WITH saved <- [f \in Files |-> Loaded(f)], up <- Up
KeepsPromise == Promise!Spec

\* Quitting ends, even on a file system that never answers.
QuitEnds == phase = "dropping" ~> phase = "exited"
=============================================================================
