----------------------------- MODULE MCLogFollow -----------------------------
(* What the log view follows, each on its own: the stream of a pod whose     *)
(* container may restart and whose name may go to another pod; the pods of a *)
(* label selector.                                                           *)
EXTENDS LogFollow

CONSTANTS Pods, MaxChanges, MaxFailures

VARIABLES
  part,
  pods, watch, followed, listed, synced, refused, streams, relapsed, changes, failures

Selector == INSTANCE LogSelector

selector == <<pods, watch, followed, listed, synced, refused, streams, relapsed, changes,
              failures>>
parts == <<part, selector, vars>>

NoSelector ==
  /\ pods = 0 /\ watch = 0 /\ followed = 0 /\ listed = 0 /\ synced = 0 /\ refused = 0
  /\ streams = 0 /\ relapsed = 0 /\ changes = 0 /\ failures = 0
NoStream == Init /\ task.canRead /\ task.pinned

PartsInit ==
  \/ part = "stream" /\ Init /\ NoSelector
  \/ part = "selector" /\ Selector!Init /\ NoStream

\* Bound: the view is restarted over two lines, and a third is written only without.
Restarts == gen' = 1 \/ LinesWritten' < MaxLines

OfStream == part = "stream" /\ UNCHANGED <<part, selector>>
OfSelector == part = "selector" /\ UNCHANGED <<part, vars>>

PartsNext ==
  \/ OfStream /\ Next /\ Restarts
  \/ OfSelector /\ Selector!Next

PartsSpec ==
  /\ PartsInit /\ [][PartsNext]_parts
  /\ WF_parts(OfStream /\ Stream) /\ WF_parts(OfStream /\ HandleLines)
  /\ WF_parts(OfSelector /\ Selector!Watch)

-----------------------------------------------------------------------------
\* A pod's streams run while it is followed, and once (LogSelector).
StreamsFollow == part = "selector" => Selector!StreamsFollow

\* The pods followed come to be those that match (LogSelector).
FollowsSelector == []<>(part = "selector" => Selector!UpToDate)
=============================================================================
