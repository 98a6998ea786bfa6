-------------------------------- MODULE Drain --------------------------------
(***************************************************************************)
(* Draining nodes (src/src/app/drain.rs): the worker that cordons, lists,  *)
(* checks and removes, the cluster it works on while others change it, and *)
(* the screen that starts it, cancels it and shows its report.             *)
(***************************************************************************)
EXTENDS Naturals, Sequences, SequencesExt

CONSTANTS
  Nodes, NoNode,
  Targets,            \* the nodes to drain, in order
  Names,              \* of pods
  SortOf,             \* what a pod of that name is
  Controllers,
  OwnerOf,            \* its controller
  IgnoreDaemonSets, Forced, DeleteEmptyDir,   \* DrainOptions
  HasTimeout,         \* DrainOptions.timeout is not zero
  MaxUid,             \* bound, for each name: pods of that name to come
  MaxDocuments        \* bound: documents asked for before the drain

Sorts == {"managed", "bare", "emptydir", "daemon", "mirror"}

ASSUME DrainAssumption ==
  /\ NoNode \notin Nodes
  /\ Targets \in Seq(Nodes) /\ Targets # <<>> /\ IsInjective(Targets)
  /\ SortOf \in [Names -> Sorts] /\ OwnerOf \in [Names -> Controllers]
  /\ {IgnoreDaemonSets, Forced, DeleteEmptyDir, HasTimeout} \subseteq BOOLEAN
  /\ MaxUid \in [Names -> Nat] /\ MaxDocuments \in Nat

VARIABLES
  pods, born,         \* the cluster's pods; born[name]: the last uid of that name
  cordoned,           \* nodes that are unschedulable
  live,               \* controllers that exist
  stage, result,      \* where the worker is, and how it ended
  current, completed, remain, pending,   \* DrainReport: current, completed, cordoned, cordon_pending
  listed,             \* pods: the last list
  checked,            \* validate's identities already looked up
  todo,               \* pods of this round not tried yet
  accepted,           \* uids whose removal was accepted
  lateCordons, lateRemovals,   \* requests the worker gave up that may still arrive
  removed,            \* history: pods our requests removed
  mode,               \* "table", "form", "drain", "detail"
  owns,               \* drain.claim is the worker's
  done,               \* drain.done
  cancel,             \* drain.cancel: "none", "held", "sent", "dropped"
  documents,          \* Msg::Detail answers still to come
  reported            \* history: the report reached the screen

cluster == <<pods, born, cordoned, live>>
report == <<current, completed, remain, pending>>
round == <<listed, checked, todo, accepted>>
late == <<lateCordons, lateRemovals>>
worker == <<stage, result, report, round>>
screen == <<mode, owns, done, cancel, documents, reported>>
vars == <<cluster, worker, late, removed, screen>>

\* node is where it runs; a removed pod is terminating until it is gone.
Pod == [name : Names, uid : Nat, node : Nodes, terminating : BOOLEAN, finished : BOOLEAN]
\* A removal as the server gets it, and what had been looked up before it was sent.
Request == [pod : Pod, checked : SUBSET Controllers]

Init ==
  /\ \E first \in [Names -> Nodes] :
       pods = {[name |-> n, uid |-> 0, node |-> first[n], terminating |-> FALSE, finished |-> FALSE] : n \in Names}
  /\ born = [n \in Names |-> 0] /\ cordoned = {} /\ live = Controllers
  /\ stage = "idle" /\ result = "none"
  /\ current = NoNode /\ completed = <<>> /\ remain = {} /\ pending = FALSE
  /\ listed = {} /\ checked = {} /\ todo = {} /\ accepted = {}
  /\ lateCordons = {} /\ lateRemovals = {} /\ removed = {}
  /\ mode = "table" /\ owns = FALSE /\ done = FALSE /\ cancel = "none"
  /\ documents = MaxDocuments /\ reported = FALSE

-----------------------------------------------------------------------------
(* Which pods.                                                             *)

\* drainable_pod
Drainable(p) == SortOf[p.name] \notin {"mirror", "daemon"} /\ ~p.finished
Id(p) == <<p.name, p.uid>>
\* Mutant: by name only.
SameName(p, q) == p.name = q.name
\* The UID precondition of an eviction and of a deletion.
Same(p, q) == Id(p) = Id(q)

\* Pods that still have to be asked to go.
Removable == {p \in listed : Drainable(p) /\ ~p.terminating /\ Id(p) \notin accepted}

\* Pods validate refuses for what they are.
Blocks(p) ==
  \/ SortOf[p.name] = "daemon" /\ ~p.finished /\ ~IgnoreDaemonSets
  \/ /\ p \in Removable
     /\ \/ SortOf[p.name] = "emptydir" /\ ~DeleteEmptyDir
        \/ SortOf[p.name] = "bare" /\ ~Forced

\* Controllers validate must find alive.
ToLookUp == IF Forced THEN {} ELSE {OwnerOf[p.name] : p \in Removable} \ checked

-----------------------------------------------------------------------------
(* The worker.                                                             *)

\* What process keeps in its locals goes when it returns, or is dropped.
Forget == listed' = {} /\ checked' = {} /\ todo' = {} /\ accepted' = {}
Stop(why) == stage' = "report" /\ result' = why /\ Forget

\* process, at the head of its loop: the cordon request of node n goes out.
Begin(n) ==
  /\ stage' = "cordon" /\ current' = n /\ pending' = TRUE
  /\ Forget /\ UNCHANGED result

CordonOk ==
  /\ stage = "cordon"
  /\ cordoned' = cordoned \cup {current} /\ remain' = remain \cup {current} /\ pending' = FALSE
  /\ stage' = "list"
  /\ UNCHANGED <<pods, born, live, result, current, completed, round, late, removed, screen>>

\* Mutant: any error counts as refused.
CordonErrs ==
  /\ stage = "cordon" /\ Stop("failed")
  /\ \/ UNCHANGED lateCordons
     \/ lateCordons' = lateCordons \cup {current}
  /\ pending' = FALSE
  /\ UNCHANGED <<cluster, current, completed, remain, lateRemovals, removed, screen>>
\* A 4xx answer leaves the node as it was; after any other error, or none, the
\* request may still take effect.
CordonFails ==
  /\ stage = "cordon" /\ Stop("failed")
  /\ \/ pending' = FALSE /\ UNCHANGED lateCordons
     \/ lateCordons' = lateCordons \cup {current} /\ UNCHANGED pending
  /\ UNCHANGED <<cluster, current, completed, remain, lateRemovals, removed, screen>>

\* pod_list: all pages show one moment. validate starts over with each list.
List ==
  /\ stage = "list"
  /\ listed' = {p \in pods : p.node = current}
  /\ stage' = "check"
  /\ UNCHANGED <<cluster, result, report, checked, todo, accepted, late, removed, screen>>

\* A list or a lookup that fails is not retried.
ReadFails ==
  /\ stage = "list" \/ (stage = "check" /\ ToLookUp # {})
  /\ Stop("failed")
  /\ UNCHANGED <<cluster, report, late, removed, screen>>

\* validate: bail! for a pod, or for a controller that is gone or was replaced.
Refuse ==
  /\ stage = "check"
  /\ (\E p \in listed : Blocks(p)) \/ ToLookUp \ live # {}
  /\ Stop("refused")
  /\ UNCHANGED <<cluster, report, late, removed, screen>>

LookUp(c) ==
  /\ stage = "check" /\ c \in ToLookUp \cap live
  /\ checked' = checked \cup {c}
  /\ UNCHANGED <<cluster, stage, result, report, listed, todo, accepted, late, removed, screen>>

\* Mutant: the controllers of some pods were not looked up.
PassedUnseen == stage = "check" /\ ~\E p \in listed : Blocks(p)
\* validate returns Ok.
Passed == stage = "check" /\ ToLookUp = {} /\ ~\E p \in listed : Blocks(p)

StartRemoving ==
  /\ Passed /\ \E p \in listed : Drainable(p)
  /\ stage' = "remove" /\ todo' = Removable
  /\ UNCHANGED <<cluster, result, report, listed, checked, accepted, late, removed, screen>>

\* Mutant: pods that accepted the request count as gone.
LeftAsked == Removable
\* The pods drain_node waits for.
Left == {p \in listed : Drainable(p)}

\* drain_node returns, and process goes on to the next node.
NodeDone ==
  /\ Passed /\ Left = {}
  /\ completed' = Append(completed, current)
  /\ IF Len(completed') = Len(Targets)
     THEN Stop("drained") /\ current' = NoNode /\ UNCHANGED pending
     ELSE Begin(Targets[Len(completed') + 1])
  /\ UNCHANGED <<cluster, remain, late, removed, screen>>

\* What the server does with a removal.
Removes(r) ==
  \E q \in pods :
    /\ Same(q, r.pod)
    /\ pods' = (pods \ {q}) \cup {[q EXCEPT !.terminating = TRUE]}
    /\ removed' = removed \cup {[pod |-> q, request |-> r]}

\* remove: accepted, or the pod is gone.
Accept(p) ==
  /\ stage = "remove" /\ p \in todo
  /\ \/ Removes([pod |-> p, checked |-> checked])
     \/ ~(\E q \in pods : q.name = p.name) /\ UNCHANGED <<pods, removed>>
  /\ accepted' = accepted \cup {Id(p)} /\ todo' = todo \ {p}
  /\ UNCHANGED <<born, cordoned, live, stage, result, report, listed, checked, late, screen>>

\* remove: an answer worth a retry in the next round; after a timeout the request may
\* still take effect.
Block(p) ==
  /\ stage = "remove" /\ p \in todo /\ todo' = todo \ {p}
  /\ \/ UNCHANGED lateRemovals
     \/ lateRemovals' = lateRemovals \cup {[pod |-> p, checked |-> checked]}
  /\ UNCHANGED <<cluster, stage, result, report, listed, checked, accepted, lateCordons, removed, screen>>

\* remove: a final answer, such as 409 for a pod of another UID.
RemovalFails ==
  /\ stage = "remove" /\ todo # {} /\ Stop("failed")
  /\ UNCHANGED <<cluster, report, late, removed, screen>>

\* The pause between two rounds.
Again ==
  /\ stage = "remove" /\ todo = {}
  /\ stage' = "list" /\ listed' = {} /\ checked' = {}
  /\ UNCHANGED <<cluster, result, report, todo, accepted, late, removed, screen>>

\* The select of run drops process at an await; what it was waiting for may arrive.
Abandon ==
  /\ stage \in {"cordon", "list", "check", "remove"}
  /\ \/ UNCHANGED late
     \/ stage = "cordon" /\ lateCordons' = lateCordons \cup {current} /\ UNCHANGED lateRemovals
     \/ /\ stage = "remove" /\ UNCHANGED lateCordons
        /\ \E p \in todo : lateRemovals' = lateRemovals \cup {[pod |-> p, checked |-> checked]}
  /\ UNCHANGED <<cluster, report, removed, screen>>

\* Mutant: only a message ends the select.
CancelledByMessage == cancel = "sent" /\ Abandon /\ Stop("canceled")
\* A dropped sender resolves the receiver too.
Cancelled == cancel \in {"sent", "dropped"} /\ Abandon /\ Stop("canceled")
TimedOut == HasTimeout /\ Abandon /\ Stop("timed out")

\* run's last message. Msg::Drain is for the drain on screen, or for nobody.
Report ==
  /\ stage = "report" /\ stage' = "ended"
  /\ IF owns THEN done' = TRUE /\ cancel' = "none" /\ reported' = TRUE
             ELSE UNCHANGED <<done, cancel, reported>>
  /\ UNCHANGED <<cluster, result, report, round, late, removed, mode, owns, documents>>

-----------------------------------------------------------------------------
(* The cluster.                                                            *)

\* A request nobody waits for arrives.
Arrives ==
  /\ \/ \E n \in lateCordons :
          /\ cordoned' = cordoned \cup {n} /\ lateCordons' = lateCordons \ {n}
          /\ UNCHANGED <<pods, lateRemovals, removed>>
     \/ \E r \in lateRemovals :
          /\ Removes(r) /\ lateRemovals' = lateRemovals \ {r}
          /\ UNCHANGED <<cordoned, lateCordons>>
  /\ UNCHANGED <<born, live, worker, screen>>

\* A terminating pod goes, or somebody else deletes one (those of a DaemonSet stay: what
\* becomes of them does not matter to the drain).
Leaves(p) ==
  /\ p.terminating \/ Drainable(p)
  /\ pods' = pods \ {p}
  /\ UNCHANGED <<born, cordoned, live, worker, late, removed, screen>>

\* A pod runs to its end.
Finishes(p) ==
  /\ Drainable(p) /\ pods' = (pods \ {p}) \cup {[p EXCEPT !.finished = TRUE]}
  /\ UNCHANGED <<born, cordoned, live, worker, late, removed, screen>>

\* A new pod of the name is bound to a node; only a DaemonSet's ignores cordons.
Bind(name, n) ==
  /\ born[name] < MaxUid[name] /\ ~\E q \in pods : q.name = name
  /\ n \notin cordoned \/ SortOf[name] \in {"daemon", "mirror"}
  /\ born' = [born EXCEPT ![name] = @ + 1]
  /\ pods' = pods \cup {[name |-> name, uid |-> born[name] + 1, node |-> n,
                         terminating |-> FALSE, finished |-> FALSE]}
  /\ UNCHANGED <<cordoned, live, worker, late, removed, screen>>

ControllerGoes(c) ==
  /\ c \in live /\ live' = live \ {c}
  /\ UNCHANGED <<pods, born, cordoned, worker, late, removed, screen>>

-----------------------------------------------------------------------------
(* The screen.                                                             *)

\* request_drain: a new DrainState; the old one's cancel goes with it.
OpenForm ==
  /\ mode = "table" /\ mode' = "form"
  /\ owns' = FALSE /\ done' = FALSE /\ cancel' = IF cancel = "held" THEN "dropped" ELSE cancel
  /\ UNCHANGED <<cluster, worker, late, removed, documents, reported>>

CloseForm ==
  /\ mode = "form" /\ mode' = "table"
  /\ UNCHANGED <<cluster, worker, late, removed, owns, done, cancel, documents, reported>>

\* do_drain_nodes; one operation is followed.
Start ==
  /\ mode = "form" /\ stage = "idle"
  /\ mode' = "drain" /\ owns' = TRUE /\ cancel' = "held"
  /\ Begin(Targets[1])
  /\ UNCHANGED <<cluster, completed, remain, late, removed, done, documents, reported>>

\* key_drain, once started.
Cancel ==
  /\ mode = "drain" /\ ~done /\ cancel = "held" /\ cancel' = "sent"
  /\ UNCHANGED <<cluster, worker, late, removed, mode, owns, done, documents, reported>>

CloseResult ==
  /\ mode = "drain" /\ done /\ mode' = "table"
  /\ UNCHANGED <<cluster, worker, late, removed, owns, done, cancel, documents, reported>>

\* Msg::Detail: a document asked for at the table opens over any view.
Document ==
  /\ documents > 0 /\ documents' = documents - 1 /\ mode' = "detail"
  /\ UNCHANGED <<cluster, worker, late, removed, owns, done, cancel, reported>>

CloseDocument ==
  /\ mode = "detail" /\ mode' = "table"
  /\ UNCHANGED <<cluster, worker, late, removed, owns, done, cancel, documents, reported>>

-----------------------------------------------------------------------------
Checking == List \/ ReadFails \/ Refuse \/ \E c \in Controllers : LookUp(c)
Removing == StartRemoving \/ (\E p \in todo : Accept(p) \/ Block(p)) \/ RemovalFails \/ Again
Work == CordonOk \/ CordonFails \/ Checking \/ Removing \/ NodeDone
Environment ==
  \/ Arrives
  \/ \E p \in pods : Leaves(p) \/ Finishes(p)
  \/ \E name \in Names, n \in Nodes : Bind(name, n)
  \/ \E c \in Controllers : ControllerGoes(c)
Screen == OpenForm \/ CloseForm \/ Start \/ Cancel \/ CloseResult \/ Document \/ CloseDocument

Next == Work \/ Cancelled \/ TimedOut \/ Report \/ Environment \/ Screen

Spec == Init /\ [][Next]_vars

\* The runtime polls the worker, every request is answered or times out, and the loop
\* handles messages. Nothing is assumed of pods, of people, or of the deadline.
Fairness == WF_vars(Work) /\ WF_vars(Cancelled) /\ WF_vars(Report)
FairSpec == Spec /\ Fairness
=============================================================================
