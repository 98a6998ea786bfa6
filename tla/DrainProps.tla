------------------------------ MODULE DrainProps ------------------------------
(***************************************************************************)
(* What a drain may remove, when it may say "drained", and that its report *)
(* is right and comes.                                                     *)
(***************************************************************************)
EXTENDS Drain

TypeOK ==
  /\ pods \subseteq Pod /\ born \in [Names -> Nat]
  /\ cordoned \subseteq Nodes /\ live \subseteq Controllers
  /\ stage \in {"idle", "cordon", "list", "check", "remove", "report", "ended"}
  /\ result \in {"none", "drained", "failed", "refused", "canceled", "timed out"}
  /\ current \in Nodes \cup {NoNode} /\ completed \in Seq(Nodes)
  /\ remain \subseteq Nodes /\ pending \in BOOLEAN
  /\ listed \subseteq Pod /\ checked \subseteq Controllers /\ todo \subseteq listed
  /\ accepted \subseteq Names \X Nat
  /\ lateCordons \subseteq Nodes /\ lateRemovals \subseteq Request
  /\ removed \subseteq [pod : Pod, request : Request]
  /\ mode \in {"table", "form", "drain", "detail"}
  /\ owns \in BOOLEAN /\ done \in BOOLEAN /\ reported \in BOOLEAN
  /\ cancel \in {"none", "held", "sent", "dropped"} /\ documents \in Nat

\* "Sofka reports a node as drained only after its eligible pods are gone"
\* (docs/features.md:117), and none comes back: a completed node holds no pod to drain,
\* whatever was evicted, replaced, finished or bound meanwhile.
DrainedNodesEmpty ==
  /\ \A p \in pods : p.node \in ToSet(completed) => ~Drainable(p)
  /\ result = "drained" => completed = Targets

\* What a request removes is the pod that was listed, on a node being drained, and
\* never the replacement of the same name that runs elsewhere, however late it arrives.
RemovesWhatWasListed ==
  \A e \in removed :
    /\ e.pod.node = e.request.pod.node
    /\ e.pod.node \in ToSet(completed) \cup {current}

\* Without the options that permit it, a drain removes no pod whose controller was not
\* found alive after that list, no bare pod, and no pod with local data.
RemovesOnlyPermitted ==
  \A e \in removed :
    /\ SortOf[e.pod.name] \notin {"daemon", "mirror"}
    /\ SortOf[e.pod.name] = "emptydir" => DeleteEmptyDir
    /\ ~Forced => SortOf[e.pod.name] # "bare" /\ OwnerOf[e.pod.name] \in e.request.checked

\* The report tells of each node this drain cordoned, or may yet cordon by a request
\* that nobody waits for any more: it "remains cordoned", or "the last cordon request
\* may have succeeded".
CordonsTold ==
  /\ remain \subseteq cordoned
  /\ \A n \in cordoned \cup lateCordons : n \in remain \/ (pending /\ n = current)

Started == Len(completed) + IF current = NoNode THEN 0 ELSE 1

\* Completed, incomplete and unstarted nodes are the targets in order, and nothing was
\* or will be done to an unstarted one.
UnstartedUntouched ==
  /\ \A i \in 1..Len(completed) : completed[i] = Targets[i]
  /\ current # NoNode => Started <= Len(Targets) /\ current = Targets[Started]
  /\ \A i \in Started + 1..Len(Targets) :
       /\ Targets[i] \notin cordoned \cup lateCordons
       /\ ~\E e \in removed : e.pod.node = Targets[i]
       /\ ~\E r \in lateRemovals : r.pod.node = Targets[i]

\* A drain that was canceled, or whose form was replaced, ends.
CancelEnds == cancel \in {"sent", "dropped"} ~> stage \in {"idle", "ended"}

\* "The result lists completed, incomplete, and unstarted nodes" and "Navigation stays
\* disabled until the operation ends" (docs/features.md:118-126): the report of a drain
\* is shown.
ReportShown == stage = "ended" => reported
=============================================================================
