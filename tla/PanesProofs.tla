---------------------------- MODULE PanesProofs ----------------------------
(***************************************************************************)
(* TLAPS proofs about what is shown of what goes on elsewhere.             *)
(*                                                                         *)
(* A drain (Drain), for any nodes, pods, controllers and options: what it  *)
(* removes, what it says is drained, and what its report tells.            *)
(*                                                                         *)
(* A copy (Transfer), whatever the sizes.  What the bar counts has been    *)
(* copied: the baseline and a measurement on its way never fall below the  *)
(* old content that is left, so what lies between them has been written.   *)
(* And no bar is left standing: once nothing measures the copy or it is    *)
(* over, the last message on its way, or the bar when none is, says so.    *)
(*                                                                         *)
(* The table (TableRows), for any rows, filters and sort columns.  What a  *)
(* cache holds of a row is what it shows, or the cache is known to be      *)
(* stale; so a list that is taken as it is, is right, and the object under *)
(* the cursor or under a filter is where the list says.                    *)
(***************************************************************************)
EXTENDS DrainProps, Transfer, TableRows, FiniteSetTheorems, SequenceTheorems, TLAPS


\* Where the worker is, and what of the cluster it has touched.
Place ==
  /\ stage = "idle" => /\ current = NoNode /\ completed = <<>> /\ cordoned = {} /\ lateCordons = {}
                       /\ lateRemovals = {} /\ removed = {} /\ remain = {} /\ pending = FALSE
  /\ stage \in {"idle", "cordon", "list", "check", "remove"} => result = "none" /\ lateCordons = {}
  /\ stage \in {"cordon", "list", "check", "remove"} => current \in Nodes
  /\ stage \in {"list", "check", "remove"} => current \in cordoned /\ ~pending
  /\ stage = "cordon" => pending /\ cordoned \subseteq remain
  /\ lateCordons # {} => pending

\* The report lists the targets in order, and only what it lists was touched.
TargetsInOrder ==
  /\ Len(completed) <= Len(Targets)
  /\ \A i \in 1..Len(completed) : completed[i] = Targets[i]
  /\ current # NoNode => Len(completed) < Len(Targets) /\ current = Targets[Len(completed) + 1]
  /\ ToSet(completed) \subseteq cordoned
  /\ cordoned \cup lateCordons \subseteq ToSet(completed) \cup {current}
  /\ \A e \in removed : e.pod.node \in ToSet(completed) \cup {current}
  /\ \A r \in lateRemovals : r.pod.node \in ToSet(completed) \cup {current}

\* A uid names one pod, which stays on its node.
Known(p) == p.uid <= born[p.name] /\ \A q \in pods : Same(q, p) => q.node = p.node
Identity ==
  /\ \A p \in pods : p.uid <= born[p.name]
  /\ \A p, q \in pods : p.name = q.name => p = q
  /\ \A p \in listed : Known(p) /\ p.node = current
  /\ \A r \in lateRemovals : Known(r.pod)
  /\ \A e \in removed : e.pod.node = e.request.pod.node

\* No pod to be drained came to the node after it was listed.
Covered ==
  stage = "check" =>
    \A p \in pods : p.node = current /\ Drainable(p) => \E q \in listed : Same(q, p) /\ Drainable(q)

\* Completed nodes stay empty.
Emptied ==
  /\ \A p \in pods : p.node \in ToSet(completed) => ~Drainable(p)
  /\ result = "drained" => completed = Targets

\* What may be asked of the server.
Permitted(p, c) ==
  /\ SortOf[p.name] \notin {"daemon", "mirror"}
  /\ SortOf[p.name] = "emptydir" => DeleteEmptyDir
  /\ ~Forced => SortOf[p.name] # "bare" /\ OwnerOf[p.name] \in c
Asked ==
  /\ stage = "remove" => \A p \in todo : Permitted(p, checked)
  /\ stage # "remove" => todo = {}
  /\ \A r \in lateRemovals : Permitted(r.pod, r.checked)
  /\ \A e \in removed : Permitted(e.pod, e.request.checked)

Inv == TypeOK /\ Place /\ TargetsInOrder /\ Identity /\ Covered /\ Emptied /\ Asked /\ CordonsTold

\* Appending to a sequence adds to its elements.
LEMMA ToSetAppend ==
  ASSUME NEW S, NEW s \in Seq(S), NEW x \in S
  PROVE  ToSet(Append(s, x)) = ToSet(s) \cup {x}
<1>1. DOMAIN s = 1..Len(s) /\ DOMAIN Append(s, x) = 1..Len(s) + 1 /\ Len(s) \in Nat
  OBVIOUS
<1>2. /\ \A i \in 1..Len(s) : Append(s, x)[i] = s[i]
      /\ Append(s, x)[Len(s) + 1] = x
  OBVIOUS
<1>3. 1..Len(s) + 1 = (1..Len(s)) \cup {Len(s) + 1}
  BY <1>1
<1> QED
  BY <1>1, <1>2, <1>3 DEF ToSet

\* Sequences with the same elements in the same places are the same.
LEMMA SameElements ==
  ASSUME NEW S, NEW s \in Seq(S), NEW t \in Seq(S), Len(s) = Len(t),
         \A i \in 1..Len(s) : s[i] = t[i]
  PROVE  s = t
OBVIOUS

\* Both ways to give up are one: the worker stops where it waits.
GivesUp == Abandon /\ Stop(result') /\ result' \in {"canceled", "timed out"}
           /\ stage \in {"cordon", "list", "check", "remove"}
           /\ UNCHANGED <<cluster, report, removed>>

\* The screen's steps but Start touch neither cluster nor worker, the last message only
\* the worker's stage.
Quiet == UNCHANGED <<cluster, worker, late, removed>>
Ends == stage = "report" /\ stage' = "ended" /\ UNCHANGED <<cluster, result, report, round, late, removed>>

\* Every step is one of these; the case split of the proofs below.
LEMMA Steps ==
  ASSUME TypeOK, [Next]_vars
  PROVE  \/ CordonOk \/ CordonFails \/ List \/ ReadFails \/ Refuse
         \/ \E c \in Controllers : LookUp(c)
         \/ StartRemoving \/ \E p \in todo : Accept(p) \/ Block(p)
         \/ RemovalFails \/ Again \/ NodeDone \/ GivesUp \/ Ends \/ Arrives
         \/ \E p \in pods : Leaves(p) \/ Finishes(p)
         \/ \E name \in Names, n \in Nodes : Bind(name, n)
         \/ \E c \in Controllers : ControllerGoes(c)
         \/ Start \/ Quiet
<1>1. ASSUME Cancelled \/ TimedOut PROVE GivesUp
  BY <1>1 DEF Cancelled, TimedOut, GivesUp, Abandon, Stop
<1>2. ASSUME Report PROVE Ends
  BY <1>2 DEF Report, Ends
<1>3. ASSUME OpenForm \/ CloseForm \/ Cancel \/ CloseResult \/ Document \/ CloseDocument PROVE Quiet
  BY <1>3 DEF OpenForm, CloseForm, Cancel, CloseResult, Document, CloseDocument, Quiet
<1>4. ASSUME UNCHANGED vars PROVE Quiet
  BY <1>4 DEF vars, Quiet
<1> QED
  BY <1>1, <1>2, <1>3, <1>4 DEF Next, Work, Checking, Removing, Environment, Screen

\* The invariant holds before anything was drained.
LEMMA InitInv == Init => Inv
<1> SUFFICES ASSUME Init PROVE Inv
  OBVIOUS
<1>1. ToSet(completed) = {} /\ completed \in Seq(Nodes) /\ Len(completed) = 0
  BY DEF Init, ToSet
<1>2. PICK first \in [Names -> Nodes] :
        pods = {[name |-> n, uid |-> 0, node |-> first[n], terminating |-> FALSE, finished |-> FALSE] : n \in Names}
  BY DEF Init
<1>3. \A p \in pods : p \in Pod /\ p.uid = 0
  <2> TAKE p \in pods
  <2>1. PICK n \in Names :
          p = [name |-> n, uid |-> 0, node |-> first[n], terminating |-> FALSE, finished |-> FALSE]
    BY <1>2
  <2> QED
    BY <2>1 DEF Pod
<1>4. ASSUME NEW p \in pods, NEW q \in pods, p.name = q.name PROVE p = q
  <2>1. PICK n \in Names :
          p = [name |-> n, uid |-> 0, node |-> first[n], terminating |-> FALSE, finished |-> FALSE]
    BY <1>2
  <2>2. PICK k \in Names :
          q = [name |-> k, uid |-> 0, node |-> first[k], terminating |-> FALSE, finished |-> FALSE]
    BY <1>2
  <2> QED
    BY <2>1, <2>2, <1>4
<1>5. TypeOK
  BY <1>1, <1>3, DrainAssumption DEF Init, TypeOK
<1>6. Place /\ CordonsTold /\ Covered /\ Asked
  BY DEF Init, Place, CordonsTold, Covered, Asked
<1>7. TargetsInOrder
  BY <1>1, DrainAssumption DEF Init, TargetsInOrder
<1>8. Identity
  BY <1>3, <1>4 DEF Init, Identity, Pod
<1>9. Emptied
  BY <1>1 DEF Init, Emptied
<1> QED
  BY <1>5, <1>6, <1>7, <1>8, <1>9 DEF Inv

\* The node that comes next is a target, and the finished ones stay in order.
LEMMA NextNode ==
  ASSUME TypeOK, Place, TargetsInOrder, NodeDone
  PROVE  /\ completed' = Append(completed, current) /\ completed' \in Seq(Nodes)
         /\ Len(completed') = Len(completed) + 1 /\ Len(completed) \in Nat
         /\ Len(completed') <= Len(Targets) /\ current \in Nodes
         /\ ToSet(completed') = ToSet(completed) \cup {current}
         /\ \A i \in 1..Len(completed') : completed'[i] = Targets[i]
         /\ \/ completed' = Targets /\ current' = NoNode /\ Stop("drained") /\ pending' = pending
            \/ /\ Len(completed') < Len(Targets) /\ current' \in Nodes
               /\ current' = Targets[Len(completed') + 1]
               /\ stage' = "cordon" /\ pending' = TRUE /\ Forget /\ result' = result
<1>1. stage = "check" /\ current \in Nodes /\ current # NoNode /\ Targets \in Seq(Nodes)
  BY DrainAssumption DEF NodeDone, Passed, Place
<1>2. completed \in Seq(Nodes) /\ completed' = Append(completed, current)
  BY DEF TypeOK, NodeDone
<1>3. /\ completed' \in Seq(Nodes) /\ Len(completed') = Len(completed) + 1 /\ Len(completed) \in Nat
      /\ \A i \in 1..Len(completed) : completed'[i] = completed[i]
      /\ completed'[Len(completed) + 1] = current
  BY <1>1, <1>2
<1>4. ToSet(completed') = ToSet(completed) \cup {current}
  BY <1>1, <1>2, ToSetAppend
<1>5. /\ Len(completed') <= Len(Targets) /\ current = Targets[Len(completed) + 1]
      /\ \A i \in 1..Len(completed) : completed[i] = Targets[i]
      /\ Len(Targets) \in Nat
  BY <1>1, <1>3 DEF TargetsInOrder
<1>6. \A i \in 1..Len(completed') : completed'[i] = Targets[i]
  BY <1>3, <1>5
<1>7. CASE Len(completed') = Len(Targets)
  <2>1. completed' = Targets
    BY <1>7, <1>6, <1>3, <1>1, SameElements
  <2> QED
    BY <2>1, <1>7, <1>1, <1>2, <1>3, <1>4, <1>5, <1>6 DEF NodeDone
<1>8. CASE Len(completed') # Len(Targets)
  <2>1. Len(completed') < Len(Targets) /\ Targets[Len(completed') + 1] \in Nodes
    BY <1>8, <1>3, <1>5, <1>1
  <2> QED
    BY <2>1, <1>8, <1>1, <1>2, <1>3, <1>4, <1>5, <1>6 DEF NodeDone, Begin
<1> QED
  BY <1>7, <1>8

\* A removal takes a pod the cluster has under that identity, and leaves the others.
LEMMA Removal ==
  ASSUME NEW r \in Request, TypeOK, Identity, Removes(r), r.pod.uid <= born[r.pod.name],
         \A q \in pods : Same(q, r.pod) => q.node = r.pod.node
  PROVE  /\ pods' \subseteq Pod /\ removed' \subseteq [pod : Pod, request : Request]
         /\ \A p \in pods' : \E q \in pods : /\ p.name = q.name /\ p.uid = q.uid /\ p.node = q.node
                                             /\ p.finished = q.finished
         /\ \A p, q \in pods' : p.name = q.name => p = q
         /\ \A e \in removed' : e \in removed \/
              (e.request = r /\ e.pod.name = r.pod.name /\ e.pod.node = r.pod.node)
<1>1. PICK q \in pods :
        /\ q.name = r.pod.name /\ q.uid = r.pod.uid
        /\ pods' = (pods \ {q}) \cup {[q EXCEPT !.terminating = TRUE]}
        /\ removed' = removed \cup {[pod |-> q, request |-> r]}
  BY DEF Removes, Same, Id
<1>2. q \in Pod /\ q.node = r.pod.node
  BY <1>1 DEF TypeOK, Same, Id
<1>3. PICK t : t = [q EXCEPT !.terminating = TRUE]
  OBVIOUS
<1>8. /\ t \in Pod /\ t.name = q.name /\ t.uid = q.uid /\ t.node = q.node /\ t.finished = q.finished
  BY <1>2, <1>3 DEF Pod
<1>4. \A p \in pods' : p = t \/ (p \in pods /\ p # q)
  BY <1>1, <1>3
<1>9. \A p, s \in pods : p.name = s.name => p = s
  BY DEF Identity
<1>5. \A p, s \in pods' : p.name = s.name => p = s
  BY <1>8, <1>4, <1>9, <1>1
<1>6. \A e \in removed' : e \in removed \/ e = [pod |-> q, request |-> r]
  BY <1>1
<1>7. removed' \subseteq [pod : Pod, request : Request]
  <2>1. removed \subseteq [pod : Pod, request : Request]
    BY DEF TypeOK
  <2>2. [pod |-> q, request |-> r] \in [pod : Pod, request : Request]
    BY <1>2
  <2> QED
    BY <2>1, <2>2, <1>6
<1>10. pods' \subseteq Pod
  BY <1>4, <1>8 DEF TypeOK
<1>11. \A p \in pods' : \E s \in pods : p.name = s.name /\ p.uid = s.uid /\ p.node = s.node
                                        /\ p.finished = s.finished
  BY <1>4, <1>8
<1>12. \A e \in removed' : e \in removed \/
         (e.request = r /\ e.pod.name = r.pod.name /\ e.pod.node = r.pod.node)
  BY <1>6, <1>1, <1>2
<1> QED
  BY <1>5, <1>7, <1>10, <1>11, <1>12

\* What a step keeps: the removals that may be sent are of known pods.
LEMMA KnownRequests ==
  ASSUME TypeOK, Identity
  PROVE  /\ \A p \in todo : [pod |-> p, checked |-> checked] \in Request /\ Known(p)
         /\ \A r \in lateRemovals : r \in Request /\ Known(r.pod)
BY DEF TypeOK, Identity, Request

\* The types, with the sets of records and tuples under a name.
Removals == [pod : Pod, request : Request]
Ids == Names \X Nat
WorkTypes ==
  /\ pods \subseteq Pod /\ born \in [Names -> Nat]
  /\ cordoned \subseteq Nodes /\ live \subseteq Controllers
  /\ stage \in {"idle", "cordon", "list", "check", "remove", "report", "ended"}
  /\ result \in {"none", "drained", "failed", "refused", "canceled", "timed out"}
  /\ current \in Nodes \cup {NoNode} /\ completed \in Seq(Nodes)
  /\ remain \subseteq Nodes /\ pending \in BOOLEAN
  /\ listed \subseteq Pod /\ checked \subseteq Controllers /\ todo \subseteq listed
  /\ accepted \subseteq Ids
  /\ lateCordons \subseteq Nodes /\ lateRemovals \subseteq Request
  /\ removed \subseteq Removals
ScreenTypes ==
  /\ mode \in {"table", "form", "drain", "detail"}
  /\ owns \in BOOLEAN /\ done \in BOOLEAN /\ reported \in BOOLEAN
  /\ cancel \in {"none", "held", "sent", "dropped"} /\ documents \in Nat

\* Types are those of the worker and cluster, and those of the screen.
LEMMA TypesSplit == TypeOK <=> WorkTypes /\ ScreenTypes
BY DEF TypeOK, WorkTypes, ScreenTypes, Removals, Ids

\* The steps of the screen keep its types.
LEMMA ScreenInv == ASSUME ScreenTypes, [Next]_vars PROVE ScreenTypes'
<1> USE DEF ScreenTypes
<1>1. CASE UNCHANGED screen
  BY <1>1 DEF screen
<1>2. CASE Report
  BY <1>2 DEF Report
<1>3. CASE OpenForm \/ CloseForm \/ Start
  BY <1>3 DEF OpenForm, CloseForm, Start
<1>9. CASE Cancel \/ CloseResult \/ CloseDocument
  BY <1>9 DEF Cancel, CloseResult, CloseDocument
<1>10. CASE Document
  BY <1>10 DEF Document
<1>4. ASSUME Cancelled \/ TimedOut PROVE UNCHANGED screen
  BY <1>4 DEF Cancelled, TimedOut, Abandon
<1>5. ASSUME CordonOk \/ CordonFails \/ Checking \/ NodeDone PROVE UNCHANGED screen
  BY <1>5 DEF CordonOk, CordonFails, Checking, List, ReadFails, Refuse, LookUp, NodeDone
<1>6. ASSUME Removing PROVE UNCHANGED screen
  BY <1>6 DEF Removing, StartRemoving, Accept, Block, RemovalFails, Again
<1>7. ASSUME Environment PROVE UNCHANGED screen
  BY <1>7 DEF Environment, Arrives, Leaves, Finishes, Bind, ControllerGoes
<1>8. ASSUME UNCHANGED vars PROVE UNCHANGED screen
  BY <1>8 DEF vars
<1> QED
  BY <1>1, <1>2, <1>3, <1>4, <1>5, <1>6, <1>7, <1>8, <1>9, <1>10
  DEF Next, Work, Screen

\* Every step keeps the types of worker and cluster.
LEMMA WorkInv == ASSUME TypeOK, Place, TargetsInOrder, Identity, Asked, [Next]_vars PROVE WorkTypes'
<1> USE DEF WorkTypes
<1>0. WorkTypes
  BY TypesSplit
<1>1. CASE CordonOk \/ CordonFails
  BY <1>0, <1>1 DEF CordonOk, CordonFails, Stop, Forget, Place, round, late, screen, cluster
<1>2. CASE List
  BY <1>0, <1>2 DEF List, Asked, report, late, cluster
<1>14. CASE ReadFails \/ Refuse
  BY <1>0, <1>14 DEF ReadFails, Refuse, Stop, Forget, report, late, cluster
<1>15. CASE \E c \in Controllers : LookUp(c)
  BY <1>0, <1>15 DEF LookUp, report, late, cluster
<1>3. CASE StartRemoving \/ RemovalFails \/ Again
  BY <1>0, <1>3 DEF StartRemoving, RemovalFails, Again, Removable, Stop, Forget, report, late, screen, cluster
<1>4. ASSUME NEW p \in todo, Accept(p) PROVE WorkTypes'
  <2>1. Id(p) \in Ids
    BY <1>0 DEF Id, Ids, Pod
  <2>2. pods' \subseteq Pod /\ removed' \subseteq Removals
    <3>1. CASE Removes([pod |-> p, checked |-> checked])
      BY <3>1, Removal, KnownRequests DEF Known, Removals
    <3>2. CASE UNCHANGED <<pods, removed>>
      BY <1>0, <3>2
    <3> QED
      BY <1>0, <1>4, <3>1, <3>2 DEF Accept
  <2> QED
    BY <1>0, <1>4, <2>1, <2>2 DEF Accept, report, late, screen
<1>5. ASSUME NEW p \in todo, Block(p) PROVE WorkTypes'
  BY <1>0, <1>5, KnownRequests DEF Block, report, screen, cluster
<1>6. CASE NodeDone
  <2>1. completed' \in Seq(Nodes) /\ current' \in Nodes \cup {NoNode} /\ pending' \in BOOLEAN
    BY <1>0, <1>6, NextNode
  <2> QED
    BY <1>0, <1>6, <2>1, NextNode DEF NodeDone, Stop, Forget, late, screen, cluster
<1>7. CASE GivesUp
  <2>1. lateCordons' \subseteq Nodes
    BY <1>0, <1>7 DEF GivesUp, Abandon, Place, late
  <2>2. lateRemovals' \subseteq Request
    <3>1. \/ lateRemovals' = lateRemovals
          \/ \E r \in Request : lateRemovals' = lateRemovals \cup {r}
      BY <1>7, KnownRequests, Zenon DEF GivesUp, Abandon, late
    <3> QED
      BY <1>0, <3>1
  <2> QED
    BY <1>0, <1>7, <2>1, <2>2 DEF GivesUp, Stop, Forget, report, cluster
<1>8. CASE Ends \/ Quiet
  BY <1>0, <1>8 DEF Ends, Quiet, worker, report, round, late, cluster
<1>9. CASE Arrives
  <2>1. pods' \subseteq Pod /\ removed' \subseteq Removals
    <3>1. ASSUME NEW r \in lateRemovals, Removes(r) PROVE pods' \subseteq Pod /\ removed' \subseteq Removals
      BY <3>1, Removal, KnownRequests DEF Known, Removals
    <3> QED
      BY <1>0, <1>9, <3>1 DEF Arrives
  <2> QED
    BY <1>0, <1>9, <2>1 DEF Arrives, worker, report, round, screen
<1>10. ASSUME NEW p \in pods, Leaves(p) \/ Finishes(p) PROVE WorkTypes'
  <2>1. [p EXCEPT !.finished = TRUE] \in Pod
    BY <1>0 DEF Pod
  <2> QED
    BY <1>0, <1>10, <2>1 DEF Leaves, Finishes, worker, report, round, late, screen
<1>11. ASSUME NEW name \in Names, NEW n \in Nodes, Bind(name, n) PROVE WorkTypes'
  <2>1. /\ born' \in [Names -> Nat]
        /\ [name |-> name, uid |-> born[name] + 1, node |-> n, terminating |-> FALSE, finished |-> FALSE] \in Pod
    <3>1. born \in [Names -> Nat] /\ born[name] + 1 \in Nat /\ born' = [born EXCEPT ![name] = born[name] + 1]
      <4>1. born' = [born EXCEPT ![name] = born[name] + 1]
        BY <1>11 DEF Bind
      <4>2. born \in [Names -> Nat]
        BY <1>0
      <4> QED
        BY <4>1, <4>2
    <3> QED
      BY <3>1 DEF Pod
  <2> QED
    BY <1>0, <1>11, <2>1 DEF Bind, worker, report, round, late, screen
<1>12. CASE \E c \in Controllers : ControllerGoes(c)
  BY <1>0, <1>12 DEF ControllerGoes, worker, report, round, late, screen
<1>13. CASE Start
  <2>1. Targets[1] \in Nodes
    <3>1. Targets \in Seq(Nodes) /\ Targets # <<>>
      BY DrainAssumption
    <3> QED
      BY <3>1
  <2> QED
    BY <1>0, <1>13, <2>1 DEF Start, Begin, Forget, late, cluster
<1> QED
  BY <1>0, <1>1, <1>2, <1>3, <1>4, <1>5, <1>6, <1>7, <1>8, <1>9, <1>10, <1>11, <1>12, <1>13, <1>14, <1>15, Steps

\* A removal that stays on its way is of a pod the worker was about to ask for.
LEMMA LateFrom ==
  ASSUME TypeOK, Place, Identity, [Next]_vars
  PROVE  \A r \in lateRemovals' :
           r \in lateRemovals \/ (stage = "remove" /\ r.pod \in todo /\ r.checked = checked)
<1>1. ASSUME NEW p \in todo, lateRemovals' = lateRemovals \cup {[pod |-> p, checked |-> checked]},
             stage = "remove"
      PROVE  \A r \in lateRemovals' :
               r \in lateRemovals \/ (stage = "remove" /\ r.pod \in todo /\ r.checked = checked)
  BY <1>1
<1>2. CASE lateRemovals' \subseteq lateRemovals
  BY <1>2
<1>3. ASSUME CordonOk \/ CordonFails \/ List \/ ReadFails \/ Refuse \/ NodeDone \/ Ends \/ Quiet \/ Start
      PROVE  lateRemovals' \subseteq lateRemovals
  BY <1>3 DEF CordonOk, CordonFails, List, ReadFails, Refuse, NodeDone, Ends, Quiet, Start, late
<1>4. ASSUME StartRemoving \/ RemovalFails \/ Again \/ Arrives
      PROVE  lateRemovals' \subseteq lateRemovals
  BY <1>4 DEF StartRemoving, RemovalFails, Again, Arrives, late
<1>5. ASSUME NEW p \in pods, Leaves(p) \/ Finishes(p) PROVE lateRemovals' \subseteq lateRemovals
  BY <1>5 DEF Leaves, Finishes, late
<1>6. ASSUME NEW c \in Controllers, LookUp(c) \/ ControllerGoes(c) PROVE lateRemovals' \subseteq lateRemovals
  BY <1>6 DEF LookUp, ControllerGoes, late
<1>7. ASSUME NEW name \in Names, NEW n \in Nodes, Bind(name, n) PROVE lateRemovals' \subseteq lateRemovals
  BY <1>7 DEF Bind, late
<1>8. ASSUME NEW p \in todo, Accept(p) PROVE lateRemovals' \subseteq lateRemovals
  BY <1>8 DEF Accept, late
<1>9. ASSUME NEW p \in todo, Block(p)
      PROVE  \A r \in lateRemovals' :
               r \in lateRemovals \/ (stage = "remove" /\ r.pod \in todo /\ r.checked = checked)
  BY <1>9, <1>1, <1>2 DEF Block
<1>10. CASE GivesUp
  <2>1. \/ lateRemovals' = lateRemovals
        \/ stage = "remove" /\ \E p \in todo : lateRemovals' = lateRemovals \cup {[pod |-> p, checked |-> checked]}
    BY <1>10, Zenon DEF GivesUp, Abandon, late
  <2> QED
    BY <2>1, <1>1, <1>2
<1> QED
  BY <1>2, <1>3, <1>4, <1>5, <1>6, <1>7, <1>8, <1>9, <1>10, Steps

\* What is removed was asked for by this list or by a request on its way, and runs where
\* the list saw it.
LEMMA RemovedFrom ==
  ASSUME TypeOK, Place, Identity, [Next]_vars
  PROVE  \A e \in removed' :
           \/ e \in removed
           \/ /\ e.pod.name = e.request.pod.name /\ e.pod.node = e.request.pod.node
              /\ \/ e.request \in lateRemovals
                 \/ stage = "remove" /\ e.request.pod \in todo /\ e.request.checked = checked
<1>1. CASE removed' = removed
  BY <1>1
<1>3. ASSUME CordonOk \/ CordonFails \/ List \/ ReadFails \/ Refuse \/ NodeDone \/ Ends \/ Quiet \/ Start
      PROVE  removed' = removed
  BY <1>3 DEF CordonOk, CordonFails, List, ReadFails, Refuse, NodeDone, Ends, Quiet, Start
<1>4. ASSUME StartRemoving \/ RemovalFails \/ Again \/ GivesUp
      PROVE  removed' = removed
  BY <1>4 DEF StartRemoving, RemovalFails, Again, GivesUp
<1>5. ASSUME NEW p \in pods, Leaves(p) \/ Finishes(p) PROVE removed' = removed
  BY <1>5 DEF Leaves, Finishes
<1>6. ASSUME NEW c \in Controllers, LookUp(c) \/ ControllerGoes(c) PROVE removed' = removed
  BY <1>6 DEF LookUp, ControllerGoes
<1>7. ASSUME NEW name \in Names, NEW n \in Nodes, Bind(name, n) PROVE removed' = removed
  BY <1>7 DEF Bind
<1>8. ASSUME NEW p \in todo, Block(p) PROVE removed' = removed
  BY <1>8 DEF Block
<1>9. ASSUME NEW p \in todo, Accept(p)
      PROVE  \A e \in removed' :
           \/ e \in removed
           \/ /\ e.pod.name = e.request.pod.name /\ e.pod.node = e.request.pod.node
              /\ stage = "remove" /\ e.request.pod \in todo /\ e.request.checked = checked
  <2>1. stage = "remove" /\ (Removes([pod |-> p, checked |-> checked]) \/ removed' = removed)
    BY <1>9 DEF Accept
  <2>2. PICK r \in Request : r = [pod |-> p, checked |-> checked]
    BY KnownRequests
  <2>3. r.pod = p /\ r.checked = checked
    BY <2>2
  <2>4. CASE Removes(r)
    BY <2>1, <2>3, <2>4, Removal, KnownRequests DEF Known
  <2> QED
    BY <2>1, <2>2, <2>4
<1>10. CASE Arrives
  <2>1. ASSUME NEW r \in lateRemovals, Removes(r)
        PROVE  \A e \in removed' :
                 \/ e \in removed
                 \/ /\ e.pod.name = e.request.pod.name /\ e.pod.node = e.request.pod.node
                    /\ e.request \in lateRemovals
    BY <2>1, Removal, KnownRequests DEF Known
  <2> QED
    BY <1>10, <2>1 DEF Arrives
<1> QED
  BY <1>1, <1>3, <1>4, <1>5, <1>6, <1>7, <1>8, <1>9, <1>10, Steps

\* Every pod is one there was, or a new one under a new uid, which a cordoned node only
\* takes if it is not for the drain.
Kept(p) == \E q \in pods : p.name = q.name /\ p.uid = q.uid /\ p.node = q.node
                           /\ (Drainable(p) => Drainable(q))
New(p) == p.uid = born[p.name] + 1 /\ p.uid = born'[p.name] /\ (p.node \in cordoned => ~Drainable(p))

\* Every pod after a step was one before it, or is new.
LEMMA PodsFrom ==
  ASSUME TypeOK, Place, Identity, [Next]_vars
  PROVE  /\ \A n \in Names : born[n] <= born'[n]
         /\ \A p, q \in pods' : p.name = q.name => p = q
         /\ \A p \in pods' : Kept(p) \/ New(p)
<1>0. /\ \A p, q \in pods : p.name = q.name => p = q
      /\ born \in [Names -> Nat]
  BY DEF TypeOK, Identity
<1>1. CASE pods' = pods /\ born' = born
  BY <1>0, <1>1 DEF Kept
<1>2. ASSUME NEW r \in Request, Known(r.pod), Removes(r), born' = born
      PROVE  /\ \A n \in Names : born[n] <= born'[n]
             /\ \A p, q \in pods' : p.name = q.name => p = q
             /\ \A p \in pods' : Kept(p) \/ New(p)
  <2>1. /\ \A p \in pods' : \E q \in pods : /\ p.name = q.name /\ p.uid = q.uid /\ p.node = q.node
                                            /\ p.finished = q.finished
        /\ \A p, q \in pods' : p.name = q.name => p = q
    BY <1>2, Removal DEF Known
  <2> QED
    BY <1>0, <1>2, <2>1 DEF Kept, Drainable
<1>3. ASSUME CordonOk \/ CordonFails \/ List \/ ReadFails \/ Refuse \/ NodeDone \/ Ends \/ Quiet \/ Start
      PROVE  pods' = pods /\ born' = born
  BY <1>3 DEF CordonOk, CordonFails, List, ReadFails, Refuse, NodeDone, Ends, Quiet, Start, cluster
<1>4. ASSUME StartRemoving \/ RemovalFails \/ Again \/ GivesUp
      PROVE  pods' = pods /\ born' = born
  BY <1>4 DEF StartRemoving, RemovalFails, Again, GivesUp, cluster
<1>6. ASSUME NEW c \in Controllers, LookUp(c) \/ ControllerGoes(c) PROVE pods' = pods /\ born' = born
  BY <1>6 DEF LookUp, ControllerGoes, cluster
<1>8. ASSUME NEW p \in todo, Block(p) PROVE pods' = pods /\ born' = born
  BY <1>8 DEF Block, cluster
<1>5. ASSUME NEW p \in pods, Leaves(p) \/ Finishes(p)
      PROVE  /\ \A n \in Names : born[n] <= born'[n]
             /\ \A s, q \in pods' : s.name = q.name => s = q
             /\ \A s \in pods' : Kept(s) \/ New(s)
  <2>1. PICK f : f = [p EXCEPT !.finished = TRUE]
    OBVIOUS
  <2>2. /\ f.name = p.name /\ f.uid = p.uid /\ f.node = p.node /\ f.finished
    BY <2>1 DEF TypeOK, Pod
  <2>3. born' = born /\ \A s \in pods' : (s \in pods /\ s # p) \/ s = f
    BY <1>5, <2>1 DEF Leaves, Finishes
  <2>4. \A s, q \in pods' : s.name = q.name => s = q
    BY <1>0, <2>2, <2>3
  <2>5. \A s \in pods' : Kept(s)
    BY <2>2, <2>3 DEF Kept, Drainable
  <2> QED
    BY <1>0, <2>3, <2>4, <2>5
<1>7. ASSUME NEW name \in Names, NEW n \in Nodes, Bind(name, n)
      PROVE  /\ \A k \in Names : born[k] <= born'[k]
             /\ \A s, q \in pods' : s.name = q.name => s = q
             /\ \A s \in pods' : Kept(s) \/ New(s)
  <2>1. PICK f : f = [name |-> name, uid |-> born[name] + 1, node |-> n,
                      terminating |-> FALSE, finished |-> FALSE]
    OBVIOUS
  <2>2. f.name = name /\ f.uid = born[name] + 1 /\ f.node = n
    BY <2>1
  <2>3. /\ born' = [born EXCEPT ![name] = born[name] + 1]
        /\ ~\E q \in pods : q.name = name
        /\ n \notin cordoned \/ SortOf[name] \in {"daemon", "mirror"}
        /\ pods' = pods \cup {f}
    BY <1>7, <2>1 DEF Bind
  <2>4. \A k \in Names : born[k] <= born'[k]
    BY <1>0, <2>3
  <2>5. \A s, q \in pods' : s.name = q.name => s = q
    BY <1>0, <2>2, <2>3
  <2>6. New(f)
    BY <1>0, <2>2, <2>3 DEF New, Drainable
  <2>7. \A s \in pods : Kept(s)
    BY DEF Kept
  <2> QED
    BY <2>3, <2>4, <2>5, <2>6, <2>7
<1>9. ASSUME NEW p \in todo, Accept(p)
      PROVE  /\ \A n \in Names : born[n] <= born'[n]
             /\ \A s, q \in pods' : s.name = q.name => s = q
             /\ \A s \in pods' : Kept(s) \/ New(s)
  <2>1. born' = born /\ (Removes([pod |-> p, checked |-> checked]) \/ pods' = pods)
    BY <1>9 DEF Accept
  <2>2. PICK r \in Request : r = [pod |-> p, checked |-> checked]
    BY KnownRequests
  <2>3. Known(r.pod)
    BY <2>2, KnownRequests
  <2> QED
    BY <1>1, <1>2, <2>1, <2>2, <2>3
<1>10. CASE Arrives
  BY <1>10, <1>1, <1>2, KnownRequests DEF Arrives
<1> QED
  BY <1>1, <1>3, <1>4, <1>5, <1>6, <1>7, <1>8, <1>9, <1>10, Steps

\* Every step leaves the worker in one of its places.
LEMMA PlaceInv == ASSUME TypeOK, Place, TargetsInOrder, CordonsTold, [Next]_vars PROVE Place'
<1> USE DEF Place
<1>1. CASE CordonOk \/ CordonFails
  BY <1>1 DEF CordonOk, CordonFails, Stop, Forget, round, late, cluster
<1>2. CASE List \/ ReadFails \/ Refuse
  BY <1>2 DEF List, ReadFails, Refuse, Stop, Forget, report, late, cluster
<1>3. CASE \E c \in Controllers : LookUp(c) \/ ControllerGoes(c)
  BY <1>3 DEF LookUp, ControllerGoes, worker, report, round, late, cluster
<1>4. CASE StartRemoving \/ RemovalFails \/ Again
  BY <1>4 DEF StartRemoving, Passed, RemovalFails, Again, Stop, Forget, report, late, cluster
<1>5. ASSUME NEW p \in todo, Accept(p) \/ Block(p) PROVE Place'
  BY <1>5 DEF Accept, Block, report, late, cluster
<1>6. CASE NodeDone
  BY <1>6, NextNode DEF NodeDone, Passed, Stop, Forget, late, cluster, CordonsTold
<1>7. CASE GivesUp
  <2>1. \/ lateCordons' = lateCordons
        \/ stage = "cordon" /\ lateCordons' = lateCordons \cup {current}
    BY <1>7, Zenon DEF GivesUp, Abandon, late
  <2> QED
    BY <1>7, <2>1 DEF GivesUp, Stop, Forget, report, cluster
<1>8. CASE Ends \/ Quiet
  BY <1>8 DEF Ends, Quiet, worker, report, round, late, cluster
<1>9. CASE Arrives
  BY <1>9 DEF Arrives, worker, report, round
<1>10. ASSUME NEW p \in pods, Leaves(p) \/ Finishes(p) PROVE Place'
  BY <1>10 DEF Leaves, Finishes, worker, report, round, late
<1>11. ASSUME NEW name \in Names, NEW n \in Nodes, Bind(name, n) PROVE Place'
  BY <1>11 DEF Bind, worker, report, round, late
<1>12. CASE Start
  <2>1. Targets \in Seq(Nodes) /\ Targets # <<>>
    BY DrainAssumption
  <2>2. Targets[1] \in Nodes
    BY <2>1
  <2> QED
    BY <1>12, <2>2 DEF Start, Begin, Forget, late, cluster
<1> QED
  BY <1>1, <1>2, <1>3, <1>4, <1>5, <1>6, <1>7, <1>8, <1>9, <1>10, <1>11, <1>12, Steps

\* Every step keeps the report of cordons right.
LEMMA CordonsInv == ASSUME TypeOK, Place, TargetsInOrder, CordonsTold, [Next]_vars PROVE CordonsTold'
<1> USE DEF Place, CordonsTold
<1>1. CASE CordonOk \/ CordonFails
  BY <1>1 DEF CordonOk, CordonFails, Stop, Forget, round, late, cluster
<1>2. CASE List \/ ReadFails \/ Refuse
  BY <1>2 DEF List, ReadFails, Refuse, Stop, Forget, report, late, cluster
<1>3. CASE \E c \in Controllers : LookUp(c) \/ ControllerGoes(c)
  BY <1>3 DEF LookUp, ControllerGoes, worker, report, round, late, cluster
<1>4. CASE StartRemoving \/ RemovalFails \/ Again
  BY <1>4 DEF StartRemoving, RemovalFails, Again, Stop, Forget, report, late, cluster
<1>5. ASSUME NEW p \in todo, Accept(p) \/ Block(p) PROVE CordonsTold'
  BY <1>5 DEF Accept, Block, report, late, cluster
<1>6. CASE NodeDone
  BY <1>6 DEF NodeDone, Passed, Stop, Begin, Forget, late, cluster
<1>7. CASE GivesUp
  <2>1. \/ lateCordons' = lateCordons
        \/ stage = "cordon" /\ lateCordons' = lateCordons \cup {current}
    BY <1>7, Zenon DEF GivesUp, Abandon, late
  <2> QED
    BY <1>7, <2>1 DEF GivesUp, Stop, Forget, report, cluster
<1>8. CASE Ends \/ Quiet
  BY <1>8 DEF Ends, Quiet, worker, report, round, late, cluster
<1>9. CASE Arrives
  BY <1>9 DEF Arrives, worker, report, round
<1>10. ASSUME NEW p \in pods, Leaves(p) \/ Finishes(p) PROVE CordonsTold'
  BY <1>10 DEF Leaves, Finishes, worker, report, round, late
<1>11. ASSUME NEW name \in Names, NEW n \in Nodes, Bind(name, n) PROVE CordonsTold'
  BY <1>11 DEF Bind, worker, report, round, late
<1>12. CASE Start
  BY <1>12 DEF Start, Begin, Forget, late, cluster
<1> QED
  BY <1>1, <1>2, <1>3, <1>4, <1>5, <1>6, <1>7, <1>8, <1>9, <1>10, <1>11, <1>12, Steps

Course == <<current, completed>>

\* Where the drain stands in the list of targets; what it has touched only grows.
LEMMA Advances ==
  ASSUME TypeOK, Place, TargetsInOrder, [Next]_vars
  PROVE  \/ UNCHANGED Course
         \/ NodeDone
         \/ Start /\ current' = Targets[1] /\ completed' = completed /\ cordoned' = cordoned
            /\ UNCHANGED late
<1>1. ASSUME CordonOk \/ CordonFails \/ List \/ ReadFails \/ Refuse PROVE UNCHANGED Course
  BY <1>1 DEF CordonOk, CordonFails, List, ReadFails, Refuse, report, Course
<1>2. ASSUME NEW c \in Controllers, LookUp(c) \/ ControllerGoes(c) PROVE UNCHANGED Course
  BY <1>2 DEF LookUp, ControllerGoes, worker, report, Course
<1>3. ASSUME StartRemoving \/ RemovalFails \/ Again \/ GivesUp PROVE UNCHANGED Course
  BY <1>3 DEF StartRemoving, RemovalFails, Again, GivesUp, report, Course
<1>4. ASSUME NEW p \in todo, Accept(p) \/ Block(p) PROVE UNCHANGED Course
  BY <1>4 DEF Accept, Block, report, Course
<1>5. ASSUME Ends \/ Quiet \/ Arrives PROVE UNCHANGED Course
  BY <1>5 DEF Ends, Quiet, Arrives, worker, report, Course
<1>6. ASSUME NEW p \in pods, Leaves(p) \/ Finishes(p) PROVE UNCHANGED Course
  BY <1>6 DEF Leaves, Finishes, worker, report, Course
<1>7. ASSUME NEW name \in Names, NEW n \in Nodes, Bind(name, n) PROVE UNCHANGED Course
  BY <1>7 DEF Bind, worker, report, Course
<1>8. ASSUME Start
      PROVE  current' = Targets[1] /\ completed' = completed /\ cordoned' = cordoned /\ UNCHANGED late
  BY <1>8 DEF Start, Begin, cluster
<1> QED
  BY <1>1, <1>2, <1>3, <1>4, <1>5, <1>6, <1>7, <1>8, Steps

\* Every step keeps to the order of the targets.
LEMMA TargetsInOrderInv ==
  ASSUME TypeOK, Place, TargetsInOrder, Identity, CordonsTold, [Next]_vars
  PROVE  TargetsInOrder'
<1> DEFINE Touched == ToSet(completed) \cup {current}
<1>0. /\ Targets \in Seq(Nodes) /\ Len(Targets) \in Nat /\ Len(Targets) > 0 /\ NoNode \notin Nodes
      /\ completed \in Seq(Nodes) /\ Len(completed) \in Nat
  <2>1. Targets \in Seq(Nodes) /\ Targets # <<>> /\ completed \in Seq(Nodes)
    BY DrainAssumption DEF TypeOK
  <2> QED
    BY <2>1, DrainAssumption
<1>1. /\ Len(completed') <= Len(Targets)
      /\ \A i \in 1..Len(completed') : completed'[i] = Targets[i]
      /\ current' # NoNode => Len(completed') < Len(Targets) /\ current' = Targets[Len(completed') + 1]
  <2>1. CASE UNCHANGED Course
    BY <2>1 DEF TargetsInOrder, Course
  <2>2. CASE NodeDone
    BY <2>2, <1>0, NextNode
  <2>3. CASE Start
    <3>1. completed = <<>> /\ Len(completed) = 0 /\ completed' = completed /\ current' = Targets[1]
      BY <2>3 DEF Start, Begin, Place
    <3> QED
      BY <3>1, <1>0
  <2> QED
    BY <2>1, <2>2, <2>3, Advances
\* A step touches nothing but what the drain has reached.
<1>2. Touched \subseteq ToSet(completed') \cup {current'} \/ stage = "idle"
  <2>1. CASE UNCHANGED Course
    BY <2>1 DEF Course
  <2>2. CASE NodeDone
    BY <2>2, NextNode
  <2>3. CASE Start
    BY <2>3 DEF Start
  <2> QED
    BY <2>1, <2>2, <2>3, Advances
<1>3. /\ cordoned' \cup lateCordons' \subseteq cordoned \cup lateCordons \cup {current}
      /\ cordoned \subseteq cordoned'
  <2>1. ASSUME CordonOk \/ CordonFails \/ List \/ ReadFails \/ Refuse \/ NodeDone \/ Start
        PROVE  cordoned' \cup lateCordons' \subseteq cordoned \cup lateCordons \cup {current}
               /\ cordoned \subseteq cordoned'
    BY <2>1 DEF CordonOk, CordonFails, List, ReadFails, Refuse, NodeDone, Start, cluster, late
  <2>2. ASSUME NEW c \in Controllers, LookUp(c) \/ ControllerGoes(c)
        PROVE  UNCHANGED <<cordoned, lateCordons>>
    BY <2>2 DEF LookUp, ControllerGoes, cluster, late
  <2>3. ASSUME StartRemoving \/ RemovalFails \/ Again \/ Ends \/ Quiet
        PROVE  UNCHANGED <<cordoned, lateCordons>>
    BY <2>3 DEF StartRemoving, RemovalFails, Again, Ends, Quiet, cluster, late
  <2>4. ASSUME NEW p \in todo, Accept(p) \/ Block(p) PROVE UNCHANGED <<cordoned, lateCordons>>
    BY <2>4 DEF Accept, Block, cluster, late
  <2>5. ASSUME NEW p \in pods, Leaves(p) \/ Finishes(p) PROVE UNCHANGED <<cordoned, lateCordons>>
    BY <2>5 DEF Leaves, Finishes, late
  <2>6. ASSUME NEW name \in Names, NEW n \in Nodes, Bind(name, n) PROVE UNCHANGED <<cordoned, lateCordons>>
    BY <2>6 DEF Bind, late
  <2>7. ASSUME GivesUp \/ Arrives
        PROVE  cordoned' \cup lateCordons' \subseteq cordoned \cup lateCordons \cup {current}
               /\ cordoned \subseteq cordoned'
    BY <2>7 DEF GivesUp, Abandon, Arrives, cluster, late
  <2> QED
    BY <2>1, <2>2, <2>3, <2>4, <2>5, <2>6, <2>7, Steps
<1>4. ToSet(completed') \subseteq cordoned'
  <2>1. CASE NodeDone
    BY <2>1, <1>3, NextNode DEF NodeDone, Passed, Place, TargetsInOrder
  <2>2. CASE completed' = completed
    BY <2>2, <1>3 DEF TargetsInOrder
  <2> QED
    BY <2>1, <2>2, Advances DEF Course
<1>5. cordoned' \cup lateCordons' \subseteq ToSet(completed') \cup {current'}
  <2>1. CASE stage = "idle"
    <3>1. cordoned' \cup lateCordons' \subseteq {current} /\ current = NoNode /\ ~NodeDone
          /\ cordoned = {} /\ lateCordons = {}
      BY <2>1, <1>3 DEF Place, NodeDone, Passed
    <3>2. CASE UNCHANGED Course
      BY <3>1, <3>2 DEF Course
    <3>3. CASE UNCHANGED <<cordoned, lateCordons>>
      BY <3>1, <3>3
    <3> QED
      BY <3>1, <3>2, <3>3, Advances DEF late
  <2>2. CASE stage # "idle"
    BY <2>2, <1>2, <1>3 DEF TargetsInOrder
  <2> QED
    BY <2>1, <2>2
<1>6. \A r \in lateRemovals' : r.pod.node \in ToSet(completed') \cup {current'}
  <2>1. CASE stage = "idle"
    BY <2>1, LateFrom DEF Place
  <2>2. CASE stage # "idle"
    BY <2>2, <1>2, LateFrom DEF TargetsInOrder, Identity, TypeOK
  <2> QED
    BY <2>1, <2>2
<1>7. \A e \in removed' : e.pod.node \in ToSet(completed') \cup {current'}
  <2>1. CASE stage = "idle"
    BY <2>1, RemovedFrom DEF Place
  <2>2. CASE stage # "idle"
    BY <2>2, <1>2, RemovedFrom DEF TargetsInOrder, Identity, TypeOK
  <2> QED
    BY <2>1, <2>2
<1> QED
  BY <1>1, <1>4, <1>5, <1>6, <1>7 DEF TargetsInOrder

\* The list stays as it is, is dropped, or is read anew.
LEMMA ListedFrom ==
  ASSUME TypeOK, Place, [Next]_vars
  PROVE  \/ listed' = {}
         \/ listed' = listed /\ current' = current
         \/ List
<1>1. ASSUME CordonOk \/ Ends \/ Quiet \/ Arrives PROVE listed' = listed /\ current' = current
  BY <1>1 DEF CordonOk, Ends, Quiet, Arrives, worker, report, round
<1>2. ASSUME CordonFails \/ ReadFails \/ Refuse \/ RemovalFails \/ Again \/ GivesUp \/ NodeDone \/ Start
      PROVE  listed' = {}
  BY <1>2 DEF CordonFails, ReadFails, Refuse, RemovalFails, Again, GivesUp, NodeDone, Start, Begin, Stop, Forget
<1>3. ASSUME NEW c \in Controllers, LookUp(c) \/ ControllerGoes(c) PROVE listed' = listed /\ current' = current
  BY <1>3 DEF LookUp, ControllerGoes, worker, report, round
<1>4. ASSUME NEW p \in todo, Accept(p) \/ Block(p) PROVE listed' = listed /\ current' = current
  BY <1>4 DEF Accept, Block, report
<1>5. ASSUME NEW p \in pods, Leaves(p) \/ Finishes(p) PROVE listed' = listed /\ current' = current
  BY <1>5 DEF Leaves, Finishes, worker, report, round
<1>6. ASSUME NEW name \in Names, NEW n \in Nodes, Bind(name, n) PROVE listed' = listed /\ current' = current
  BY <1>6 DEF Bind, worker, report, round
<1>7. ASSUME StartRemoving PROVE listed' = listed /\ current' = current
  BY <1>7 DEF StartRemoving, report
<1> QED
  BY <1>1, <1>2, <1>3, <1>4, <1>5, <1>6, <1>7, Steps

\* Every step keeps a uid to one pod on one node.
LEMMA IdentityInv ==
  ASSUME TypeOK, TypeOK', Place, Identity, [Next]_vars
  PROVE  Identity'
<1>0. /\ born \in [Names -> Nat] /\ born' \in [Names -> Nat]
      /\ \A p \in pods : p.uid <= born[p.name] /\ p.name \in Names /\ p.uid \in Nat
      /\ \A p \in pods' : p.name \in Names /\ p.uid \in Nat
      /\ \A n \in Names : born[n] <= born'[n]
  BY PodsFrom DEF TypeOK, Identity, Pod
\* A known pod stays known.
<1>1. ASSUME NEW p \in Pod, Known(p)
      PROVE  p.uid <= born'[p.name] /\ \A q \in pods' : Same(q, p) => q.node = p.node
  <2>1. p.name \in Names /\ p.uid \in Nat
    BY DEF Pod
  <2>2. ASSUME NEW q \in pods', Same(q, p) PROVE q.node = p.node
    <3>1. q.name = p.name /\ q.uid = p.uid
      BY <2>2 DEF Same, Id
    <3>2. CASE Kept(q)
      BY <1>1, <3>1, <3>2 DEF Kept, Known, Same, Id
    <3>3. CASE New(q)
      BY <1>0, <1>1, <2>1, <3>1, <3>3 DEF New, Known
    <3> QED
      BY <3>2, <3>3, PodsFrom
  <2>3. p.uid <= born[p.name] /\ born[p.name] <= born'[p.name] /\ born[p.name] \in Nat /\ born'[p.name] \in Nat
    BY <1>0, <1>1, <2>1 DEF Known
  <2> QED
    BY <2>1, <2>2, <2>3
<1>2. \A p \in pods' : p.uid <= born'[p.name]
  BY <1>0, PodsFrom DEF Kept, New
<1>3. \A p, q \in pods' : p.name = q.name => p = q
  BY PodsFrom
<1>4. \A p \in listed' : Known(p)' /\ p.node = current'
  <2>1. CASE listed' = {}
    BY <2>1
  <2>2. CASE listed' = listed /\ current' = current
    BY <1>1, <2>2 DEF Identity, TypeOK, Known
  <2>3. CASE List
    <3>1. listed' \subseteq pods /\ current' = current /\ pods' = pods /\ born' = born
          /\ \A p \in listed' : p.node = current
      BY <2>3 DEF List, report, cluster
    <3>2. ASSUME NEW p \in listed' PROVE Known(p)
      BY <3>1, <1>0 DEF Known, Identity, Same, Id
    <3> QED
      BY <3>1, <3>2, <1>1 DEF Known, TypeOK
  <2> QED
    BY <2>1, <2>2, <2>3, ListedFrom
<1>5. \A r \in lateRemovals' : Known(r.pod)'
  <2>1. ASSUME NEW r \in lateRemovals' PROVE Known(r.pod) /\ r.pod \in Pod
    BY LateFrom DEF Identity, TypeOK, Request
  <2> QED
    BY <1>1, <2>1 DEF Known
<1>6. \A e \in removed' : e.pod.node = e.request.pod.node
  BY RemovedFrom DEF Identity
<1> QED
  BY <1>2, <1>3, <1>4, <1>5, <1>6 DEF Identity, Known

\* While a list is checked, no pod for the drain comes to its node.
LEMMA CoveredInv ==
  ASSUME TypeOK, Place, TargetsInOrder, Identity, Covered, [Next]_vars
  PROVE  Covered'
<1>1. SUFFICES ASSUME stage' = "check", NEW p \in pods', p.node = current', Drainable(p)
               PROVE  \E q \in listed' : Same(q, p) /\ Drainable(q)
  BY DEF Covered, Same, Id, Drainable
<1>2. CASE List
  BY <1>1, <1>2 DEF List, Same, report, cluster
<1>3. CASE stage = "check" /\ listed' = listed /\ current' = current
  <2>1. current \in cordoned
    BY <1>3 DEF Place
  <2>2. Kept(p)
    BY <1>1, <1>3, <2>1, PodsFrom DEF New
  <2> QED
    BY <1>1, <1>3, <2>2 DEF Kept, Covered, Same, Id
<1>4. ASSUME ~List PROVE stage = "check" /\ listed' = listed /\ current' = current
  <2>1. ~ (CordonOk \/ CordonFails \/ ReadFails \/ Refuse \/ StartRemoving \/ RemovalFails \/ Again
           \/ GivesUp \/ Ends \/ NodeDone \/ Start)
    BY <1>1, NextNode DEF CordonOk, CordonFails, ReadFails, Refuse, StartRemoving, RemovalFails, Again,
       GivesUp, Ends, Start, Begin, Stop
  <2>2. ASSUME NEW c \in Controllers, LookUp(c) \/ ControllerGoes(c) PROVE stage = "check" /\ UNCHANGED <<listed, current>>
    BY <1>1, <2>2 DEF LookUp, ControllerGoes, worker, round, report
  <2>3. ASSUME NEW s \in todo, Accept(s) \/ Block(s) PROVE FALSE
    BY <1>1, <2>3 DEF Accept, Block
  <2>4. ASSUME NEW s \in pods, Leaves(s) \/ Finishes(s) PROVE stage = "check" /\ UNCHANGED <<listed, current>>
    BY <1>1, <2>4 DEF Leaves, Finishes, worker, round, report
  <2>5. ASSUME NEW name \in Names, NEW n \in Nodes, Bind(name, n) PROVE stage = "check" /\ UNCHANGED <<listed, current>>
    BY <1>1, <2>5 DEF Bind, worker, round, report
  <2>6. ASSUME Quiet \/ Arrives PROVE stage = "check" /\ UNCHANGED <<listed, current>>
    BY <1>1, <2>6 DEF Quiet, Arrives, worker, round, report
  <2> QED
    BY <1>4, <2>1, <2>2, <2>3, <2>4, <2>5, <2>6, Steps
<1> QED
  BY <1>2, <1>3, <1>4

\* Completed nodes stay empty.
LEMMA EmptiedInv ==
  ASSUME TypeOK, Place, TargetsInOrder, Identity, Covered, Emptied, [Next]_vars
  PROVE  Emptied'
<1>1. ASSUME NEW p \in pods', p.node \in ToSet(completed'), Drainable(p) PROVE FALSE
  <2>1. CASE NodeDone
    <3>1. /\ stage = "check" /\ Left = {} /\ pods' = pods
          /\ ToSet(completed') = ToSet(completed) \cup {current}
      BY <2>1, NextNode DEF NodeDone, Passed, cluster
    <3> QED
      BY <1>1, <3>1 DEF Emptied, Covered, Left
  <2>2. CASE completed' = completed
    <3>1. p.node \in cordoned
      BY <1>1, <2>2 DEF TargetsInOrder
    <3>2. CASE Kept(p)
      BY <1>1, <2>2, <3>2 DEF Kept, Emptied
    <3>3. CASE New(p)
      BY <1>1, <3>1, <3>3 DEF New
    <3> QED
      BY <3>2, <3>3, PodsFrom
  <2> QED
    BY <2>1, <2>2, Advances DEF Course
<1>2. ASSUME result' = "drained" PROVE completed' = Targets
  <2>1. CASE NodeDone
    <3>1. stage = "check" /\ result = "none"
      BY <2>1 DEF NodeDone, Passed, Place
    <3> QED
      BY <1>2, <2>1, <3>1, NextNode
  <2>2. CASE ~NodeDone
    <3>1. ASSUME CordonFails \/ ReadFails \/ Refuse \/ RemovalFails \/ GivesUp PROVE FALSE
      BY <1>2, <3>1 DEF CordonFails, ReadFails, Refuse, RemovalFails, GivesUp, Stop
    <3>2. ASSUME CordonOk \/ List \/ StartRemoving \/ Again \/ Ends \/ Quiet \/ Arrives \/ Start
          PROVE  result' = result
      BY <3>2 DEF CordonOk, List, StartRemoving, Again, Ends, Quiet, Arrives, Start, Begin, worker
    <3>3. ASSUME NEW c \in Controllers, LookUp(c) \/ ControllerGoes(c) PROVE result' = result
      BY <3>3 DEF LookUp, ControllerGoes, worker
    <3>4. ASSUME NEW q \in todo, Accept(q) \/ Block(q) PROVE result' = result
      BY <3>4 DEF Accept, Block
    <3>5. ASSUME NEW q \in pods, Leaves(q) \/ Finishes(q) PROVE result' = result
      BY <3>5 DEF Leaves, Finishes, worker
    <3>6. ASSUME NEW name \in Names, NEW n \in Nodes, Bind(name, n) PROVE result' = result
      BY <3>6 DEF Bind, worker
    <3>7. result' = result
      BY <2>2, <3>1, <3>2, <3>3, <3>4, <3>5, <3>6, Steps
    <3>8. result = "drained" /\ completed = Targets /\ stage # "idle"
      BY <1>2, <3>7 DEF Emptied, Place
    <3> QED
      BY <2>2, <3>8, Advances DEF Course, Start
  <2> QED
    BY <2>1, <2>2
<1> QED
  BY <1>1, <1>2 DEF Emptied, Drainable

\* Only what was permitted is asked for.
LEMMA AskedInv ==
  ASSUME TypeOK, Place, Identity, Asked, [Next]_vars
  PROVE  Asked'
<1>1. /\ stage' = "remove" => \A p \in todo' : Permitted(p, checked')
      /\ stage' # "remove" => todo' = {}
  <2>1. CASE StartRemoving
    <3>1. /\ stage' = "remove" /\ checked' = checked /\ todo' = Removable
          /\ ToLookUp = {} /\ ~\E p \in listed : Blocks(p)
      BY <2>1 DEF StartRemoving, Passed
    <3>2. ASSUME NEW p \in Removable PROVE Permitted(p, checked)
      <4>1. p \in listed /\ Drainable(p) /\ ~Blocks(p)
        BY <3>1, <3>2 DEF Removable
      <4>2. ~Forced => OwnerOf[p.name] \in checked
        BY <3>1, <3>2 DEF ToLookUp
      <4> QED
        BY <3>2, <4>1, <4>2 DEF Permitted, Blocks, Drainable
    <3> QED
      BY <3>1, <3>2
  <2>2. ASSUME CordonOk \/ List \/ Again \/ Ends PROVE stage' # "remove" /\ todo' = {}
    BY <2>2 DEF Asked, CordonOk, List, Again, Ends, round
  <2>10. ASSUME Quiet \/ Arrives PROVE stage' = stage /\ checked' = checked /\ todo' = todo
    BY <2>10 DEF Quiet, Arrives, worker, round
  <2>3. ASSUME CordonFails \/ ReadFails \/ Refuse \/ RemovalFails \/ GivesUp \/ NodeDone \/ Start
        PROVE  stage' # "remove" /\ todo' = {}
    BY <2>3 DEF CordonFails, ReadFails, Refuse, RemovalFails, GivesUp, NodeDone, Start, Begin, Stop, Forget
  <2>4. ASSUME NEW c \in Controllers, LookUp(c) PROVE stage' = "check" /\ todo' = {}
    BY <2>4 DEF LookUp, Asked
  <2>5. ASSUME NEW p \in todo, Accept(p) \/ Block(p)
        PROVE  stage' = stage /\ checked' = checked /\ todo' \subseteq todo /\ stage = "remove"
    BY <2>5 DEF Accept, Block
  <2>6. ASSUME NEW p \in pods, Leaves(p) \/ Finishes(p)
        PROVE  stage' = stage /\ checked' = checked /\ todo' = todo
    BY <2>6 DEF Leaves, Finishes, worker, round
  <2>7. ASSUME NEW name \in Names, NEW n \in Nodes, Bind(name, n)
        PROVE  stage' = stage /\ checked' = checked /\ todo' = todo
    BY <2>7 DEF Bind, worker, round
  <2>8. ASSUME NEW c \in Controllers, ControllerGoes(c)
        PROVE  stage' = stage /\ checked' = checked /\ todo' = todo
    BY <2>8 DEF ControllerGoes, worker, round
  <2>9. CASE stage' = stage /\ checked' = checked /\ todo' \subseteq todo
    BY <2>9 DEF Asked
  <2> QED
    BY <2>1, <2>2, <2>3, <2>4, <2>5, <2>6, <2>7, <2>8, <2>9, <2>10, Steps
<1>2. \A r \in lateRemovals' : Permitted(r.pod, r.checked)
  BY LateFrom DEF Asked
<1>3. \A e \in removed' : Permitted(e.pod, e.request.checked)
  <2>1. ASSUME NEW e \in removed', e \notin removed
        PROVE  e.pod.name = e.request.pod.name /\ Permitted(e.request.pod, e.request.checked)
    BY <2>1, RemovedFrom DEF Asked
  <2> QED
    BY <2>1 DEF Asked, Permitted
<1> QED
  BY <1>1, <1>2, <1>3 DEF Asked, Permitted

\* Every step keeps the invariant.
LEMMA NextInv == Inv /\ [Next]_vars => Inv'
<1> SUFFICES ASSUME Inv, [Next]_vars PROVE Inv'
  OBVIOUS
<1>1. TypeOK'
  <2>1. WorkTypes' /\ ScreenTypes'
    BY TypesSplit, WorkInv, ScreenInv DEF Inv
  <2> QED
    BY <2>1 DEF TypeOK, WorkTypes, ScreenTypes, Removals, Ids
<1> QED
  BY <1>1, PlaceInv, TargetsInOrderInv, IdentityInv, CoveredInv, EmptiedInv, AskedInv, CordonsInv DEF Inv

\* The inductive invariant holds throughout every drain.
THEOREM Invariance == Spec => []Inv
BY InitInv, NextInv, PTL DEF Spec

\* The state of a drain keeps its types.
THEOREM DrainTypes == Spec => []TypeOK
<1>1. Inv => TypeOK
  BY DEF Inv
<1> QED
  BY <1>1, Invariance, PTL

\* What is reported drained is empty, and nothing for the drain comes to it again.
THEOREM DrainedStayEmpty == Spec => []DrainedNodesEmpty
<1>1. Inv => DrainedNodesEmpty
  BY DEF Inv, Emptied, DrainedNodesEmpty
<1> QED
  BY <1>1, Invariance, PTL

\* A removal meets the pod the list showed, however late it arrives.
THEOREM RemovalsMeetTheListed == Spec => []RemovesWhatWasListed
<1>1. Inv => RemovesWhatWasListed
  BY DEF Inv, TargetsInOrder, Identity, RemovesWhatWasListed
<1> QED
  BY <1>1, Invariance, PTL

\* A removal is one the options permit, by what was looked up after its list.
THEOREM RemovalsPermitted == Spec => []RemovesOnlyPermitted
<1>1. Inv => RemovesOnlyPermitted
  BY DEF Inv, Asked, Permitted, RemovesOnlyPermitted
<1> QED
  BY <1>1, Invariance, PTL

\* The report tells of every node the drain cordoned or may yet cordon.
THEOREM CordonsReported == Spec => []CordonsTold
<1>1. Inv => CordonsTold
  BY DEF Inv
<1> QED
  BY <1>1, Invariance, PTL

\* Targets are all different, so what lies behind the current one was not touched.
THEOREM UnstartedLeftAlone == Spec => []UnstartedUntouched
<1>1. Inv => UnstartedUntouched
  <2> SUFFICES ASSUME Inv PROVE UnstartedUntouched
    OBVIOUS
  <2>1. /\ Targets \in Seq(Nodes) /\ NoNode \notin Nodes /\ completed \in Seq(Nodes)
        /\ Len(completed) \in Nat /\ Len(Targets) \in Nat
        /\ \A i, j \in 1..Len(Targets) : Targets[i] = Targets[j] => i = j
    <3>1. Targets \in Seq(Nodes) /\ NoNode \notin Nodes /\ completed \in Seq(Nodes)
      BY DrainAssumption DEF Inv, TypeOK
    <3>2. \A i, j \in DOMAIN Targets : Targets[i] = Targets[j] => i = j
      BY DrainAssumption DEF IsInjective
    <3> QED
      BY <3>1, <3>2
  <2>2. /\ \A i \in 1..Len(completed) : completed[i] = Targets[i]
        /\ current # NoNode => Started = Len(completed) + 1 /\ Started <= Len(Targets) /\ current = Targets[Started]
        /\ Len(completed) <= Len(Targets) /\ Started \in Nat /\ Started >= Len(completed)
    BY <2>1 DEF Inv, TargetsInOrder, Started
  <2>3. ASSUME NEW i \in Started + 1..Len(Targets)
        PROVE  Targets[i] \notin ToSet(completed) \cup {current}
    <3>1. Targets[i] # current
      BY <2>1, <2>2
    <3>2. ASSUME NEW j \in 1..Len(completed), Targets[i] = completed[j] PROVE FALSE
      BY <2>1, <2>2, <3>2
    <3>3. DOMAIN completed = 1..Len(completed)
      BY <2>1
    <3> QED
      BY <3>1, <3>2, <3>3 DEF ToSet
  <2> QED
    BY <2>2, <2>3 DEF UnstartedUntouched, Inv, TargetsInOrder
<1> QED
  BY <1>1, Invariance, PTL

-----------------------------------------------------------------------------
(* A copy.                                                                 *)

CopyMessage ==
  [kind : {"progress", "done"}, gen : Int, done : Int, total : Int]

CopyTasks ==
  [pc : {"none", "baseline", "copy", "over"}, gen : Int, base : Int, done : Int,
   total : Int, sized : BOOLEAN, blind : BOOLEAN]

CopyTypes ==
  /\ dest \in [old : Int, new : Int]
  /\ task \in CopyTasks
  /\ sampler \in [state : {"live", "idle"}, value : Int]
  /\ inbox \in Seq(CopyMessage)
  /\ gen \in Int
  /\ bar \in [there : BOOLEAN, gen : Int, done : Int, total : Int]

\* What is old is not counted: not in the baseline, and not in a measurement.
Measured ==
  /\ dest.old >= 0 /\ dest.new >= 0
  /\ task.base # Unknown => task.base >= dest.old
  /\ sampler.value # Unknown => sampler.value >= dest.old
  /\ sampler.value # Unknown /\ task.base # Unknown => sampler.value <= task.base + dest.new

\* No message says more than n.
AtMost(q, n) == \A i \in 1 .. Len(q) : q[i].done <= n

\* What is said has been copied: by the task, on its way, and by the bar.
Truthful ==
  /\ 0 <= task.done /\ task.done <= dest.new
  /\ AtMost(inbox, dest.new)
  /\ bar.done <= dest.new

CopyInv == CopyTypes /\ Measured /\ Truthful

-----------------------------------------------------------------------------
\* What is true stays so while the copy goes on.
LEMMA Raising ==
  ASSUME NEW q \in Seq(CopyMessage), NEW n \in Int, NEW k \in Int, n <= k, AtMost(q, n)
  PROVE  AtMost(q, k)
<1> SUFFICES ASSUME NEW i \in 1 .. Len(q)
             PROVE  q[i].done <= k
  BY DEF AtMost
<1>1. q[i] \in CopyMessage /\ q[i].done <= n
  BY DEF AtMost
<1> QED BY <1>1 DEF CopyMessage

\* Sending what is true leaves a true inbox.
LEMMA Sending ==
  ASSUME NEW q \in Seq(CopyMessage), NEW m \in CopyMessage, NEW n \in Int, m.done <= n,
         AtMost(q, n)
  PROVE  q \o <<m>> \in Seq(CopyMessage) /\ AtMost(q \o <<m>>, n)
<1>1. q \o <<m>> \in Seq(CopyMessage)
  OBVIOUS
<1>2. ASSUME NEW i \in 1 .. Len(q \o <<m>>)
      PROVE  (q \o <<m>>)[i].done <= n
  <2>1. CASE i \in 1 .. Len(q)
    <3>1. (q \o <<m>>)[i] = q[i]
      BY <2>1
    <3> QED BY <2>1, <3>1 DEF AtMost
  <2>2. CASE i \notin 1 .. Len(q)
    <3>1. (q \o <<m>>)[i] = m
      BY <2>2
    <3> QED BY <3>1
  <2> QED BY <2>1, <2>2
<1> QED BY <1>1, <1>2 DEF AtMost

\* Handling a message leaves a true inbox.
LEMMA Receiving ==
  ASSUME NEW q \in Seq(CopyMessage), NEW n \in Int, q # <<>>, AtMost(q, n)
  PROVE  /\ q[1] \in CopyMessage /\ q[1].done <= n
         /\ Tail(q) \in Seq(CopyMessage) /\ AtMost(Tail(q), n)
<1>1. q[1] \in CopyMessage /\ q[1].done <= n /\ Tail(q) \in Seq(CopyMessage)
  BY DEF AtMost
<1>2. ASSUME NEW i \in 1 .. Len(Tail(q))
      PROVE  Tail(q)[i].done <= n
  <2>1. Tail(q)[i] = q[i + 1] /\ i + 1 \in 1 .. Len(q)
    OBVIOUS
  <2> QED BY <2>1 DEF AtMost
<1> QED BY <1>1, <1>2 DEF AtMost

\* A copy that has not started measures nothing wrongly.
LEMMA CopyHolds ==
  ASSUME CopyInit
  PROVE  CopyInv
<1> USE DEF Unknown
<1>1. PICK old \in 0 .. MaxOld : dest = [old |-> old, new |-> 0]
  BY DEF CopyInit
<1>2. CopyTypes
  BY <1>1, SizesAssumption DEF CopyInit, CopyTypes, CopyTasks
<1>3. Measured
  BY <1>1, SizesAssumption DEF CopyInit, Measured
<1>4. Truthful
  BY <1>1 DEF CopyInit, Truthful, AtMost
<1> QED BY <1>2, <1>3, <1>4 DEF CopyInv

\* No step makes a measurement, or a message about one, untrue.
LEMMA CopyStep ==
  ASSUME CopyInv, [CopyNext]_copyVars
  PROVE  CopyInv'
<1> USE DEF Unknown
<1> /\ CopyTypes
    /\ Measured
    /\ Truthful
  BY DEF CopyInv
<1>1. CASE Baseline
  <2>1. PICK base \in {Unknown, Size}, state \in {"live", "idle"} :
          /\ task' = [task EXCEPT !.pc = "copy", !.base = base, !.blind = (state = "idle")]
          /\ sampler' = [state |-> state, value |-> Unknown]
    BY <1>1 DEF Baseline
  <2>2. UNCHANGED <<dest, inbox, gen, bar>>
    BY <1>1 DEF Baseline
  <2>3. base \in Int /\ (base # Unknown => base >= dest.old)
    BY DEF CopyTypes, CopyTasks, Measured, Size
  <2>task. task' \in CopyTasks
    BY <2>1, <2>2, <2>3 DEF CopyTypes, CopyTasks
  <2>4. CopyTypes'
    BY <2>1, <2>2, <2>3, <2>task DEF CopyTypes
  <2>5. Measured'
    BY <2>1, <2>2, <2>3 DEF CopyTypes, CopyTasks, Measured
  <2>6. Truthful'
    BY <2>1, <2>2 DEF CopyTypes, CopyTasks, Truthful
  <2> QED BY <2>4, <2>5, <2>6 DEF CopyInv
<1>2. CASE Replace
  <2>1. PICK n \in 0 .. dest.old - 1 : dest' = [dest EXCEPT !.old = n]
    BY <1>2 DEF Replace
  <2>2. UNCHANGED <<task, sampler, inbox, gen, bar>>
    BY <1>2 DEF Replace
  <2>3. CopyTypes'
    BY SMTT(20), <2>1, <2>2 DEF CopyTypes, CopyTasks
  <2>4. Measured'
    BY SMTT(20), <2>1, <2>2 DEF CopyTypes, CopyTasks, Measured
  <2>5. Truthful'
    BY <2>1, <2>2 DEF CopyTypes, CopyTasks, Truthful
  <2> QED BY <2>3, <2>4, <2>5 DEF CopyInv
<1>3. CASE Write
  <2>1. /\ dest' = [dest EXCEPT !.new = dest.new + 1]
        /\ UNCHANGED <<task, sampler, inbox, gen, bar>>
    BY <1>3 DEF Write
  <2>2. CopyTypes'
    BY SMTT(20), <2>1 DEF CopyTypes, CopyTasks
  <2>3. Measured'
    BY SMTT(20), <2>1 DEF CopyTypes, CopyTasks, Measured
  <2>4. AtMost(inbox, dest'.new)
    BY SMTT(20), <2>1, Raising DEF CopyTypes, CopyTasks, Truthful
  <2>5. Truthful'
    BY <2>1, <2>4 DEF CopyTypes, CopyTasks, Truthful
  <2> QED BY <2>2, <2>3, <2>5 DEF CopyInv
<1>4. CASE Measure
  <2>1. /\ sampler' = [sampler EXCEPT !.value = Size]
        /\ UNCHANGED <<dest, task, inbox, gen, bar>>
    BY <1>4 DEF Measure
  <2>2. CopyTypes'
    BY <2>1 DEF CopyTypes, CopyTasks, Size
  <2>3. Measured'
    BY <2>1 DEF CopyTypes, CopyTasks, Measured, Size
  <2>4. Truthful'
    BY <2>1 DEF Truthful
  <2> QED BY <2>2, <2>3, <2>4 DEF CopyInv
<1>5. CASE Sampled
  <2> DEFINE base == Base(task.base, sampler.value)
             moved == sampler.value - base
  <2>1. /\ base \in Int /\ base >= dest.old
        /\ moved <= dest.new /\ moved \in Int
    BY <1>5 DEF Sampled, CopyTypes, CopyTasks, Measured, Base, Least
  <2>2. /\ sampler' = [sampler EXCEPT !.value = Unknown]
        /\ UNCHANGED <<dest, gen, bar>>
    BY <1>5 DEF Sampled
  <2>3. CASE moved > task.done
    <3>1. /\ task' = [task EXCEPT !.base = base, !.done = moved]
          /\ inbox' = inbox \o Progress(moved, task.total)
      BY <1>5, <2>3 DEF Sampled, Send
    <3> HIDE DEF base, moved
    <3> DEFINE msg == [kind |-> "progress", gen |-> task.gen, done |-> moved,
                       total |-> task.total]
    <3>2. msg \in CopyMessage /\ msg.done <= dest.new /\ inbox' = inbox \o <<msg>>
      BY <2>1, <3>1 DEF CopyMessage, CopyTypes, CopyTasks, Progress
    <3> HIDE DEF msg
    <3>3. inbox' \in Seq(CopyMessage) /\ AtMost(inbox', dest.new)
      BY <3>2, Sending DEF CopyTypes, CopyTasks, Truthful
    <3>task. task' \in CopyTasks
      BY <2>1, <2>2, <3>1, <3>3 DEF CopyTypes, CopyTasks
    <3>sampler. sampler' \in [state : {"live", "idle"}, value : Int]
      BY <2>2 DEF CopyTypes
    <3>4. CopyTypes'
      BY <2>2, <3>3, <3>task, <3>sampler DEF CopyTypes
    <3>5. Measured'
      BY <2>1, <2>2, <3>1 DEF CopyTypes, CopyTasks, Measured
    <3>6. Truthful'
      BY SMTT(20), <2>1, <2>2, <2>3, <3>1, <3>3 DEF CopyTypes, CopyTasks, Truthful
    <3> QED BY <3>4, <3>5, <3>6 DEF CopyInv
  <2>4. CASE ~(moved > task.done)
    <3>1. task' = [task EXCEPT !.base = base, !.done = task.done] /\ inbox' = inbox
      BY <1>5, <2>4 DEF Sampled, CopyTypes, CopyTasks
    <3> HIDE DEF base, moved
    <3>task. task' \in CopyTasks
      BY <2>1, <2>2, <3>1 DEF CopyTypes, CopyTasks
    <3>2. CopyTypes'
      BY <2>1, <2>2, <3>1, <3>task DEF CopyTypes
    <3>3. Measured'
      BY <2>1, <2>2, <3>1 DEF CopyTypes, CopyTasks, Measured
    <3>4. Truthful'
      BY <2>1, <2>2, <3>1 DEF CopyTypes, CopyTasks, Truthful
    <3> QED BY <3>2, <3>3, <3>4 DEF CopyInv
  <2> QED BY <2>3, <2>4
<1>6. CASE Retires
  <2> DEFINE msg == [kind |-> "progress", gen |-> task.gen, done |-> task.done,
                     total |-> Unknown]
  <2>1. /\ sampler' = [state |-> "idle", value |-> Unknown]
        /\ task' = [task EXCEPT !.blind = TRUE]
        /\ UNCHANGED <<dest, gen, bar>>
    BY <1>6 DEF Retires
  <2>2. msg \in CopyMessage /\ msg.done <= dest.new /\ inbox' = inbox \o <<msg>>
    BY <1>6 DEF Retires, Send, Progress, CopyMessage, CopyTypes, CopyTasks, Truthful
  <2> HIDE DEF msg
  <2>3. inbox' \in Seq(CopyMessage) /\ AtMost(inbox', dest.new)
    BY <2>2, Sending DEF CopyTypes, CopyTasks, Truthful
  <2>task. task' \in CopyTasks
    BY <2>1, <2>3 DEF CopyTypes, CopyTasks
  <2>4. CopyTypes'
    BY <2>1, <2>3, <2>task DEF CopyTypes
  <2>5. Measured'
    BY <2>1 DEF CopyTypes, CopyTasks, Measured
  <2>6. Truthful'
    BY <2>1, <2>3 DEF CopyTypes, CopyTasks, Truthful
  <2> QED BY <2>4, <2>5, <2>6 DEF CopyInv
<1>7. CASE Sized
  <2>1. PICK total \in {Unknown, Source} :
          \/ task' = [task EXCEPT !.sized = TRUE] /\ inbox' = inbox
          \/ /\ task' = [task EXCEPT !.sized = TRUE, !.total = total]
             /\ inbox' = inbox \o Progress(task.done, total)
    BY <1>7 DEF Sized, Send
  <2>2. UNCHANGED <<dest, sampler, gen, bar>> /\ total \in Int
    BY <1>7, SizesAssumption DEF Sized
  <2> DEFINE msg == [kind |-> "progress", gen |-> task.gen, done |-> task.done,
                     total |-> total]
  <2>3. msg \in CopyMessage /\ msg.done <= dest.new /\ Progress(task.done, total) = <<msg>>
    BY <2>2 DEF Progress, CopyMessage, CopyTypes, CopyTasks, Truthful
  <2> HIDE DEF msg
  <2>4. inbox' \in Seq(CopyMessage) /\ AtMost(inbox', dest.new)
    <3>1. CASE inbox' = inbox
      BY <3>1 DEF CopyTypes, Truthful
    <3>2. CASE inbox' = inbox \o <<msg>>
      BY <2>3, <3>2, Sending DEF CopyTypes, Truthful
    <3> QED BY <2>1, <2>3, <3>1, <3>2
  <2>5. CopyTypes'
    BY <2>1, <2>2, <2>4 DEF CopyTypes, CopyTasks
  <2>6. task'.base = task.base /\ task'.done = task.done
    BY <2>1 DEF CopyTypes, CopyTasks
  <2>7. Measured'
    BY <2>2, <2>6 DEF Measured
  <2>8. Truthful'
    BY <2>2, <2>4, <2>6 DEF Truthful
  <2> QED BY <2>5, <2>7, <2>8 DEF CopyInv
<1>8. CASE CopyEnds
  <2> DEFINE msg == [kind |-> "done", gen |-> task.gen, done |-> 0, total |-> Unknown]
  <2>1. /\ sampler' = [state |-> "idle", value |-> Unknown]
        /\ task' = [task EXCEPT !.pc = "over"]
        /\ UNCHANGED <<dest, gen, bar>>
    BY <1>8 DEF CopyEnds
  <2>2. msg \in CopyMessage /\ msg.done <= dest.new /\ inbox' = inbox \o <<msg>>
    BY <1>8 DEF CopyEnds, Send, Done, CopyMessage, CopyTypes, CopyTasks, Measured
  <2> HIDE DEF msg
  <2>3. inbox' \in Seq(CopyMessage) /\ AtMost(inbox', dest.new)
    BY <2>2, Sending DEF CopyTypes, CopyTasks, Truthful
  <2>task. task' \in CopyTasks
    BY <2>1, <2>3 DEF CopyTypes, CopyTasks
  <2>4. CopyTypes'
    BY <2>1, <2>3, <2>task DEF CopyTypes
  <2>5. Measured'
    BY <2>1 DEF CopyTypes, CopyTasks, Measured
  <2>6. Truthful'
    BY <2>1, <2>3 DEF CopyTypes, CopyTasks, Truthful
  <2> QED BY <2>4, <2>5, <2>6 DEF CopyInv
<1>9. CASE Registers
  <2>1. /\ task' = [task EXCEPT !.pc = "baseline", !.gen = gen]
        /\ bar' = [there |-> TRUE, gen |-> gen, done |-> 0, total |-> Unknown]
        /\ UNCHANGED <<dest, sampler, inbox, gen>>
    BY <1>9 DEF Registers
  <2>task. task' \in CopyTasks
    BY <2>1 DEF CopyTypes, CopyTasks
  <2>2. CopyTypes'
    BY <2>1, <2>task DEF CopyTypes
  <2>3. Measured'
    BY <2>1 DEF CopyTypes, CopyTasks, Measured
  <2>4. Truthful'
    BY <2>1 DEF CopyTypes, CopyTasks, Measured, Truthful
  <2> QED BY <2>2, <2>3, <2>4 DEF CopyInv
<1>10. CASE Navigate
  <2>1. gen' = gen + 1 /\ UNCHANGED <<dest, task, sampler, inbox, bar>>
    BY <1>10 DEF Navigate
  <2>2. CopyTypes'
    BY <2>1 DEF CopyTypes, CopyTasks
  <2> QED BY <2>1, <2>2 DEF CopyInv, Measured, Truthful
<1>11. CASE Handle
  <2>1. /\ inbox # <<>> /\ inbox' = Tail(inbox)
        /\ UNCHANGED <<dest, task, sampler, gen>>
        /\ \/ bar' = bar
           \/ bar' = [bar EXCEPT !.there = FALSE]
           \/ bar' = [bar EXCEPT !.done = inbox[1].done, !.total = inbox[1].total]
    BY <1>11 DEF Handle
  <2>2. /\ inbox[1] \in CopyMessage /\ inbox[1].done <= dest.new
        /\ Tail(inbox) \in Seq(CopyMessage) /\ AtMost(Tail(inbox), dest.new)
    BY <2>1, Receiving DEF CopyTypes, CopyTasks, Truthful
  <2>3. inbox[1].done \in Int /\ inbox[1].total \in Int
    BY <2>2 DEF CopyMessage
  <2>4. CopyTypes'
    BY <2>1, <2>2, <2>3 DEF CopyTypes, CopyTasks
  <2>5. bar'.done <= dest.new
    BY <2>1, <2>2 DEF CopyTypes, CopyTasks, Truthful
  <2>6. Measured' /\ Truthful'
    BY <2>1, <2>2, <2>5 DEF Measured, Truthful
  <2> QED BY <2>4, <2>6 DEF CopyInv
<1>12. CASE UNCHANGED copyVars
  BY <1>12 DEF copyVars, CopyInv, CopyTypes, CopyTasks, Measured, Truthful
<1> QED
  BY <1>1, <1>2, <1>3, <1>4, <1>5, <1>6, <1>7, <1>8, <1>9, <1>10, <1>11, <1>12 DEF CopyNext

\* The bar never counts what was not copied, whatever was at the destination, however
\* large the source, and however late a measurement or a message is
\* (src/src/app/transfer.rs: moved).
THEOREM OnlyTheCopied == CopySpec => []NeverOverReports
<1>1. CopyInit => CopyInv
  BY CopyHolds
<1>2. CopyInv /\ [CopyNext]_copyVars => CopyInv'
  BY CopyStep
<1>3. CopyInv => NeverOverReports
  BY DEF CopyInv, Truthful, NeverOverReports
<1> QED BY <1>1, <1>2, <1>3, PTL DEF CopySpec

-----------------------------------------------------------------------------
(* NoIdleBar: what is said last is what the bar shows in the end.          *)

Latest(q) == q[Len(q)]

\* The messages are the copy's own, and so is the bar.
OneCopy ==
  /\ bar.gen = task.gen /\ gen >= bar.gen
  /\ \A i \in 1 .. Len(inbox) : inbox[i].gen = task.gen

\* Nothing is said before the copy runs.
Early ==
  task.pc \in {"none", "baseline"} =>
    inbox = <<>> /\ ~task.blind /\ bar.total = Unknown

\* Nobody looks at the bar any more.
Gone == ~bar.there \/ bar.gen # gen

\* Once nothing measures the copy, no size is said any more; once it is over, that is
\* what is said last.
Silent ==
  task.blind =>
    /\ sampler.state = "idle"
    /\ Gone \/ (IF inbox = <<>> THEN bar.total ELSE Latest(inbox).total) = Unknown
Closing ==
  task.pc = "over" => ~bar.there \/ (inbox # <<>> /\ Latest(inbox).kind = "done")

StillInv == CopyInv /\ OneCopy /\ Early /\ Silent /\ Closing

\* The last message of an inbox, after sending to it and after receiving from it.
LEMMA LastSent ==
  ASSUME NEW q \in Seq(CopyMessage), NEW m \in CopyMessage, NEW g \in Int, m.gen = g,
         \A i \in 1 .. Len(q) : q[i].gen = g
  PROVE  /\ q \o <<m>> # <<>> /\ Latest(q \o <<m>>) = m
         /\ \A i \in 1 .. Len(q \o <<m>>) : (q \o <<m>>)[i].gen = g
<1>1. Len(q \o <<m>>) = Len(q) + 1 /\ (q \o <<m>>)[Len(q) + 1] = m
  OBVIOUS
<1>2. \A i \in 1 .. Len(q \o <<m>>) : (q \o <<m>>)[i] = IF i <= Len(q) THEN q[i] ELSE m
  OBVIOUS
<1> QED BY <1>1, <1>2 DEF Latest

\* Receiving leaves the last message last, until it is the one received.
LEMMA LastLeft ==
  ASSUME NEW q \in Seq(CopyMessage), q # <<>>, NEW g \in Int, \A i \in 1 .. Len(q) : q[i].gen = g
  PROVE  /\ IF Tail(q) = <<>> THEN Latest(q) = q[1] ELSE Latest(Tail(q)) = Latest(q)
         /\ q[1].gen = g /\ \A i \in 1 .. Len(Tail(q)) : Tail(q)[i].gen = g
<1>1. /\ Len(q) \in Nat /\ Len(q) > 0 /\ Len(Tail(q)) = Len(q) - 1
      /\ \A i \in 1 .. Len(Tail(q)) : Tail(q)[i] = q[i + 1]
      /\ Tail(q) \in Seq(CopyMessage)
  OBVIOUS
<1>0. Tail(q) = <<>> <=> Len(q) = 1
  <2>1. \A s \in Seq(CopyMessage) : s = <<>> <=> Len(s) = 0
    OBVIOUS
  <2> QED BY <1>1, <2>1
<1>2. q[1].gen = g /\ \A i \in 1 .. Len(Tail(q)) : Tail(q)[i].gen = g
  BY <1>1
<1>3. CASE Len(q) = 1
  BY <1>0, <1>2, <1>3 DEF Latest
<1>4. CASE Len(q) # 1
  <2>1. Len(Tail(q)) \in 1 .. Len(Tail(q)) /\ Len(Tail(q)) + 1 = Len(q)
    BY <1>1, <1>4
  <2> QED BY <1>0, <1>1, <1>2, <1>4, <2>1 DEF Latest
<1> QED BY <1>2, <1>3, <1>4

\* A step of the copy that says something: the message comes last.
LEMMA Said ==
  ASSUME StillInv, NEW m \in CopyMessage, m.gen = task.gen, inbox' = inbox \o <<m>>,
         task' \in CopyTasks, task'.gen = task.gen, task'.pc \in {"copy", "over"}, UNCHANGED <<bar, gen>>,
         task'.blind => sampler'.state = "idle" /\ m.total = Unknown,
         task'.pc = "over" => m.kind = "done"
  PROVE  OneCopy' /\ Early' /\ Silent' /\ Closing'
<1>1. inbox' # <<>> /\ Latest(inbox') = m /\ \A i \in 1 .. Len(inbox') : inbox'[i].gen = task.gen
  <2>1. inbox \in Seq(CopyMessage) /\ task.gen \in Int
    BY DEF StillInv, CopyInv, CopyTypes, CopyTasks
  <2> QED BY <2>1, LastSent DEF StillInv, OneCopy
<1>2. OneCopy'
  BY <1>1 DEF StillInv, OneCopy
<1>3. Early'
  BY DEF Early
<1>4. Silent' /\ Closing'
  BY <1>1 DEF Silent, Closing, Latest
<1> QED BY <1>2, <1>3, <1>4

\* The strengthened invariant is inductive.
LEMMA StillStep ==
  ASSUME StillInv, [CopyNext]_copyVars
  PROVE  StillInv'
<1> /\ CopyInv /\ CopyTypes
    /\ OneCopy
    /\ Early
    /\ Silent
    /\ Closing
  BY DEF StillInv, CopyInv
<1>0. CopyInv'
  BY CopyStep
<1> SUFFICES OneCopy' /\ Early' /\ Silent' /\ Closing'
  BY <1>0 DEF StillInv
<1>t. task' \in CopyTasks
  BY <1>0 DEF CopyInv, CopyTypes
<1>1. CASE Baseline
  <2>1. PICK base \in {Unknown, Size}, state \in {"live", "idle"} :
          /\ task' = [task EXCEPT !.pc = "copy", !.base = base, !.blind = (state = "idle")]
          /\ sampler' = [state |-> state, value |-> Unknown]
    BY <1>1 DEF Baseline
  <2>2. UNCHANGED <<inbox, gen, bar>> /\ task.pc = "baseline"
    BY <1>1 DEF Baseline
  <2>3. /\ task'.gen = task.gen /\ task'.pc = "copy" /\ sampler'.state = state
        /\ task'.blind => state = "idle"
    BY <2>1 DEF CopyTypes, CopyTasks
  <2> QED BY <2>2, <2>3 DEF OneCopy, Early, Silent, Closing
<1>2. CASE Replace \/ Write
  <2>1. UNCHANGED <<task, sampler, inbox, gen, bar>>
    BY <1>2 DEF Replace, Write
  <2> QED BY <2>1 DEF OneCopy, Early, Silent, Gone, Closing
<1>3. CASE Measure
  <2>1. UNCHANGED <<task, inbox, gen, bar>> /\ sampler'.state = sampler.state
    BY <1>3 DEF Measure, CopyTypes
  <2> QED BY <2>1 DEF OneCopy, Early, Silent, Gone, Closing
<1>4. CASE UNCHANGED <<inbox, gen, bar>> /\ task'.gen = task.gen /\ task'.pc = task.pc
           /\ (task'.blind => task.blind) /\ (sampler.state = "idle" => sampler'.state = "idle")
  BY <1>4 DEF OneCopy, Early, Silent, Gone, Closing
<1>5. CASE Sampled
  <2> DEFINE base == Base(task.base, sampler.value)
             moved == sampler.value - base
             msg == [kind |-> "progress", gen |-> task.gen, done |-> moved, total |-> task.total]
  <2>1. /\ UNCHANGED <<gen, bar>> /\ task.pc = "copy" /\ sampler.state = "live"
        /\ sampler'.state = sampler.state
        /\ base \in Int /\ moved \in Int
    BY <1>5 DEF Sampled, CopyTypes, CopyTasks, Base, Least
  <2>2. PICK most : task' = [task EXCEPT !.base = base, !.done = most]
    BY <1>5 DEF Sampled
  <2>3. task'.gen = task.gen /\ task'.pc = "copy" /\ task'.blind = task.blind /\ ~task.blind
    BY <2>1, <2>2 DEF CopyTypes, CopyTasks, Silent
  <2>4. inbox' = inbox \/ inbox' = inbox \o <<msg>>
    BY <1>5 DEF Sampled, Send, Progress
  <2>5. msg \in CopyMessage /\ msg.gen = task.gen
    BY <2>1 DEF CopyMessage, CopyTypes, CopyTasks
  <2> HIDE DEF msg, base, moved
  <2>6. CASE inbox' = inbox \o <<msg>>
    BY <1>t, <2>1, <2>3, <2>5, <2>6, Said
  <2>7. CASE inbox' = inbox
    BY <1>4, <2>1, <2>3, <2>7
  <2> QED BY <2>4, <2>6, <2>7
<1>6. CASE Retires
  <2> DEFINE msg == [kind |-> "progress", gen |-> task.gen, done |-> task.done, total |-> Unknown]
  <2>1. /\ UNCHANGED <<gen, bar>> /\ sampler'.state = "idle"
        /\ task'.gen = task.gen /\ task'.pc = "copy"
        /\ inbox' = inbox \o <<msg>>
    BY <1>6 DEF Retires, Send, Progress, CopyTypes, CopyTasks
  <2>2. msg \in CopyMessage /\ msg.gen = task.gen /\ msg.total = Unknown
    BY DEF CopyMessage, CopyTypes, CopyTasks, Unknown
  <2> HIDE DEF msg
  <2> QED BY <1>t, <2>1, <2>2, Said
<1>7. CASE Sized
  <2>1. PICK total \in {Unknown, Source} :
          \/ task' = [task EXCEPT !.sized = TRUE] /\ inbox' = inbox
          \/ /\ task' = [task EXCEPT !.sized = TRUE, !.total = total] /\ ~task.blind
             /\ inbox' = inbox \o Progress(task.done, total)
    BY <1>7 DEF Sized, Send
  <2> DEFINE msg == [kind |-> "progress", gen |-> task.gen, done |-> task.done, total |-> total]
  <2>2. /\ UNCHANGED <<sampler, gen, bar>> /\ total \in Int /\ task.pc = "copy"
        /\ task'.gen = task.gen /\ task'.pc = "copy" /\ task'.blind = task.blind
        /\ inbox' = inbox \/ (~task.blind /\ inbox' = inbox \o <<msg>>)
    <3>1. UNCHANGED <<sampler, gen, bar>> /\ total \in Int /\ task.pc = "copy"
      BY <1>7, SizesAssumption DEF Sized, Unknown
    <3>2. task'.gen = task.gen /\ task'.pc = task.pc /\ task'.blind = task.blind
      BY <2>1 DEF CopyTypes, CopyTasks
    <3>3. inbox' = inbox \/ (~task.blind /\ inbox' = inbox \o <<msg>>)
      BY <2>1 DEF Progress
    <3> QED BY <3>1, <3>2, <3>3
  <2>3. msg \in CopyMessage /\ msg.gen = task.gen
    BY <2>2 DEF CopyMessage, CopyTypes, CopyTasks
  <2> HIDE DEF msg
  <2>4. CASE inbox' = inbox
    BY <1>4, <2>2, <2>4
  <2>5. CASE ~task.blind /\ inbox' = inbox \o <<msg>>
    BY <1>t, <2>2, <2>3, <2>5, Said
  <2> QED BY <2>2, <2>4, <2>5
<1>8. CASE CopyEnds
  <2> DEFINE msg == [kind |-> "done", gen |-> task.gen, done |-> 0, total |-> Unknown]
  <2>1. /\ UNCHANGED <<gen, bar>> /\ sampler'.state = "idle"
        /\ task'.gen = task.gen /\ task'.pc = "over"
        /\ inbox' = inbox \o <<msg>>
    BY <1>8 DEF CopyEnds, Send, Done, CopyTypes, CopyTasks
  <2>2. msg \in CopyMessage /\ msg.gen = task.gen /\ msg.total = Unknown /\ msg.kind = "done"
    BY DEF CopyMessage, CopyTypes, CopyTasks, Unknown
  <2> HIDE DEF msg
  <2> QED BY <1>t, <2>1, <2>2, Said
<1>9. CASE Registers
  <2>1. /\ task' = [task EXCEPT !.pc = "baseline", !.gen = gen] /\ task.pc = "none"
        /\ bar' = [there |-> TRUE, gen |-> gen, done |-> 0, total |-> Unknown]
        /\ UNCHANGED <<sampler, inbox, gen>>
    BY <1>9 DEF Registers
  <2>2. task'.pc = "baseline" /\ task'.gen = gen /\ task'.blind = task.blind
    BY <2>1 DEF CopyTypes, CopyTasks
  <2>3. inbox' = <<>> /\ ~task'.blind
    BY <2>1, <2>2 DEF Early
  <2> QED BY <2>1, <2>2, <2>3 DEF CopyTypes, OneCopy, Early, Silent, Closing
<1>10. CASE Navigate
  <2>1. gen' = gen + 1 /\ UNCHANGED <<task, sampler, inbox, bar>>
    BY <1>10 DEF Navigate
  <2>2. gen' >= bar.gen /\ bar.gen # gen'
    BY <2>1 DEF CopyTypes, OneCopy
  <2> QED BY <2>1, <2>2 DEF OneCopy, Early, Silent, Gone, Closing
<1>11. CASE Handle
  <2>1. /\ inbox # <<>> /\ inbox' = Tail(inbox)
        /\ UNCHANGED <<task, sampler, gen>>
    BY <1>11 DEF Handle
  <2>2. /\ IF Tail(inbox) = <<>> THEN Latest(inbox) = inbox[1] ELSE Latest(Tail(inbox)) = Latest(inbox)
        /\ inbox[1].gen = task.gen /\ \A i \in 1 .. Len(Tail(inbox)) : Tail(inbox)[i].gen = task.gen
        /\ inbox[1] \in CopyMessage
    <3>1. inbox \in Seq(CopyMessage) /\ task.gen \in Int
      BY DEF CopyTypes, CopyTasks
    <3>2. \A i \in 1 .. Len(inbox) : inbox[i].gen = task.gen
      BY DEF OneCopy
    <3>3. inbox[1] \in CopyMessage
      BY <2>1, <3>1
    <3> HIDE DEF Latest
    <3> QED BY <2>1, <3>1, <3>2, <3>3, LastLeft
  <2>3. \/ inbox[1].kind = "done" /\ bar' = [bar EXCEPT !.there = FALSE]
        \/ /\ inbox[1].kind = "progress" /\ inbox[1].gen = gen
           /\ bar' = [bar EXCEPT !.done = inbox[1].done, !.total = inbox[1].total]
        \/ inbox[1].kind = "progress" /\ inbox[1].gen # gen /\ bar' = bar
    BY <1>11, <2>2 DEF Handle, CopyMessage
  <2>4. /\ bar'.gen = bar.gen /\ (bar'.there => bar.there)
        /\ (inbox[1].kind = "done" => ~bar'.there)
        /\ inbox[1].kind = "progress" => bar.gen # gen \/ bar'.total = inbox[1].total
    BY <2>2, <2>3 DEF CopyTypes, OneCopy
  <2>5. OneCopy'
    BY <2>1, <2>2, <2>4 DEF OneCopy
  <2>6. Early'
    BY <2>1 DEF Early
  <2>7. Silent'
    BY <2>1, <2>2, <2>4 DEF Silent, Gone, CopyMessage
  <2>8. Closing'
    BY <2>1, <2>2, <2>4 DEF Closing
  <2> QED BY <2>5, <2>6, <2>7, <2>8
<1>12. CASE UNCHANGED copyVars
  BY <1>12 DEF copyVars, OneCopy, Early, Silent, Gone, Closing
<1> QED
  BY <1>1, <1>2, <1>3, <1>5, <1>6, <1>7, <1>8, <1>9, <1>10, <1>11, <1>12 DEF CopyNext

\* No bar stands still: once nothing measures the copy, or it is over, the messages that
\* are left take the bar off the screen and none brings it back
\* (src/src/app/transfer.rs: run_transfer, update_transfer, end_transfer).
THEOREM NoBarIdles == CopySpec => []NoIdleBar
<1>1. CopyInit => StillInv
  <2> SUFFICES ASSUME CopyInit PROVE StillInv
    OBVIOUS
  <2>1. CopyInv
    BY CopyHolds
  <2>2. OneCopy /\ Early /\ Silent /\ Closing
    BY DEF CopyInit, OneCopy, Early, Silent, Closing
  <2> QED BY <2>1, <2>2 DEF StillInv
<1>2. StillInv /\ [CopyNext]_copyVars => StillInv'
  BY StillStep
<1>3. StillInv => NoIdleBar
  BY DEF StillInv, Silent, Gone, Closing, NoIdleBar, Drawn
<1> QED BY <1>1, <1>2, <1>3, PTL DEF CopySpec

-----------------------------------------------------------------------------
(* The table.                                                              *)

Objects ==
  [uid : Nat, rev : Nat, born : Nat, owned : BOOLEAN, faulty : BOOLEAN, value : {0, 1}]
Texts == [rev : Nat, text : Nat]
Waits == [gen : Nat, key : Ranks, index : Nat]

Apps ==
  [objects : [Ranks -> Objects \cup {None}], printed : [Ranks -> {0, 1}],
   load : [Ranks -> {0, 1}], now : Nat, synced : BOOLEAN, buffered : BOOLEAN, gen : Nat,
   workloads : BOOLEAN, all : BOOLEAN, faults : BOOLEAN,
   filter : {"none", "text", "load", "age"}, sort : {"none", "column", "load"},
   dirty : BOOLEAN, timed : BOOLEAN, second : Nat, keys : Seq(Ranks),
   cells : [Ranks -> Texts \cup {None}], sorts : [Ranks -> Texts \cup {None}],
   cursor : Nat \cup {None}, reselect : Waits \cup {None}]

\* What a cache holds of a row is what it shows.
Holds(a, entries) ==
  \A k \in Ranks : entries[k] # None =>
    a.objects[k] # None /\ entries[k] = [rev |-> a.objects[k].rev, text |-> Cell(a, k)]
Cached(a) == Holds(a, a.cells) /\ Holds(a, a.sorts)

\* A list that is kept over a tick does not depend on the clock; at its first second
\* an age filter lets nothing through.
Clocked(a) ==
  /\ a.second <= a.now
  /\ ~a.dirty => /\ a.timed = (a.filter = "age")
                 /\ a.timed /\ a.second = 0 => a.keys = <<>>

Present(a) == \A i \in DOMAIN a.keys : a.objects[a.keys[i]] # None

\* A list that is taken as it is, is right for the rows of S.
Listed(a, S) == UpToDate(a) => Lists(a, S) /\ Present(a)

Sound(a, S) == a \in Apps /\ Cached(a) /\ Clocked(a) /\ Listed(a, S)

RowsInv ==
  /\ adopted \subseteq Ranks /\ events \in Nat
  /\ Sound(app, Certain)

\* A filter that waits for the list: the object it waits for, while the cursor is where
\* it put it; or the list became shorter and drawing it moved the cursor.
Waiting ==
  /\ held # None => app.reselect # None /\ app.reselect.index = app.cursor
  /\ app.reselect # None =>
       /\ ~app.synced /\ app.reselect.gen = app.gen
       /\ IF app.reselect.index = app.cursor THEN held = app.reselect.key
          ELSE UpToDate(app) /\ 0 < Len(app.keys) /\ Len(app.keys) < app.reselect.index

TableInv == RowsInv /\ Waiting /\ SelectionStays

-----------------------------------------------------------------------------
(* Sorting.                                                                *)

\* Any rows can be put in order, and the list is of them, in order.
LEMMA Sorting ==
  ASSUME NEW S \in SUBSET Ranks, NEW p \in [Ranks -> Nat]
  PROVE  /\ Ordered(S, p) \in Seq(Ranks)
         /\ InOrder(Ordered(S, p), p)
         /\ \A k : (\E i \in DOMAIN Ordered(S, p) : Ordered(S, p)[i] = k) <=> k \in S
<1> DEFINE n == Cardinality(S)
           Below(x) == {y \in S : Comes(p, y, x)}
           place == [x \in S |-> Cardinality(Below(x)) + 1]
<1> S \subseteq Nat /\ S \subseteq Ranks /\ Ranks \subseteq Nat
  BY TableAssumption
<1>1. IsFiniteSet(S) /\ n \in Nat
  BY FS_Subset, FS_CardinalityType, TableAssumption
<1>2. ASSUME NEW x \in S
      PROVE  Below(x) \subseteq S /\ IsFiniteSet(Below(x)) /\ Cardinality(Below(x)) \in Nat
  BY <1>1, FS_Subset, FS_CardinalityType
<1>3. ASSUME NEW x \in S, NEW y \in S, Comes(p, x, y)
      PROVE  place[x] < place[y]
  <2>1. Below(x) \subseteq Below(y)
    <3> SUFFICES ASSUME NEW z \in S, Comes(p, z, x) PROVE Comes(p, z, y)
      OBVIOUS
    <3>1. p[x] \in Nat /\ p[y] \in Nat /\ p[z] \in Nat /\ x \in Nat /\ y \in Nat /\ z \in Nat
      OBVIOUS
    <3> QED BY <3>1, <1>3 DEF Comes
  <2>2. x \in Below(y) /\ x \notin Below(x)
    <3>1. p[x] \in Nat /\ x \in Nat
      OBVIOUS
    <3> QED BY <3>1, <1>3 DEF Comes
  <2>3. Below(x) \in SUBSET Below(y) /\ Below(x) # Below(y)
    BY <2>1, <2>2
  <2> HIDE DEF Below
  <2>4. Cardinality(Below(x)) <= Cardinality(Below(y)) /\ Cardinality(Below(x)) # Cardinality(Below(y))
    BY <2>3, <1>2, FS_Subset
  <2> QED BY <2>4, <1>2
<1>4. ASSUME NEW x \in S, NEW y \in S, x # y
      PROVE  Comes(p, x, y) \/ Comes(p, y, x)
  <2>1. p[x] \in Nat /\ p[y] \in Nat /\ x \in Nat /\ y \in Nat
    OBVIOUS
  <2> QED BY <2>1, <1>4 DEF Comes
<1>5. \A x \in S : place[x] \in 1 .. n
  <2> SUFFICES ASSUME NEW x \in S PROVE place[x] \in 1 .. n
    OBVIOUS
  <2>1. x \notin Below(x)
    <3>1. p[x] \in Nat /\ x \in Nat
      OBVIOUS
    <3> QED BY <3>1 DEF Comes
  <2>2. Below(x) \in SUBSET S /\ Below(x) # S
    BY <2>1
  <2> HIDE DEF Below
  <2>3. Cardinality(Below(x)) <= n /\ Cardinality(Below(x)) # n
    BY <2>2, <1>1, FS_Subset
  <2> QED BY <2>3, <1>1, <1>2
<1> HIDE DEF Below, place
<1>6. place \in Injection(S, 1 .. n)
  <2>1. place \in [S -> 1 .. n]
    BY <1>5 DEF place
  <2>2. \A x \in S : place[x] \in Nat
    BY <1>5, <1>1
  <2>3. \A x, y \in S : place[x] = place[y] => x = y
    BY <1>3, <1>4, <2>2
  <2> QED BY <2>1, <2>3 DEF Injection, IsInjective
<1>7. place \in Surjection(S, 1 .. n)
  <2>1. IsFiniteSet(1 .. n) /\ Cardinality(1 .. n) = n
    BY <1>1, FS_Interval
  <2> QED BY <2>1, <1>6, FS_Injection
<1>8. \E s \in [1 .. n -> S] : InOrder(s, p)
  <2> DEFINE s == [i \in 1 .. n |-> CHOOSE x \in S : place[x] = i]
  <2>1. \A i \in 1 .. n : s[i] \in S /\ place[s[i]] = i
    BY <1>7 DEF Surjection
  <2>2. s \in [1 .. n -> S]
    BY <2>1
  <2> HIDE DEF s
  <2>3. ASSUME NEW i \in 1 .. n, NEW j \in 1 .. n, i < j
        PROVE  Comes(p, s[i], s[j])
    <3>1. place[s[i]] < place[s[j]] /\ s[i] \in S /\ s[j] \in S
      BY <2>1, <2>3
    <3>2. s[i] # s[j] /\ ~(place[s[j]] < place[s[i]])
      BY <2>1, <2>3
    <3> QED BY <3>1, <3>2, <1>3, <1>4
  <2>4. DOMAIN s = 1 .. n
    BY <2>2
  <2> QED BY <2>2, <2>3, <2>4 DEF InOrder
<1> DEFINE l == Ordered(S, p)
<1>9. l \in [1 .. n -> S] /\ InOrder(l, p)
  BY <1>8 DEF Ordered
<1> HIDE DEF l
<1>10. l \in Injection(1 .. n, S)
  <2>1. ASSUME NEW i \in 1 .. n, NEW j \in 1 .. n, i < j PROVE l[i] # l[j]
    <3>1. Comes(p, l[i], l[j])
      BY <2>1, <1>9 DEF InOrder
    <3>2. l[i] \in S /\ l[j] \in S
      BY <1>9
    <3>3. p[l[i]] \in Nat /\ l[i] \in Nat
      BY <3>2
    <3> QED BY <3>1, <3>3 DEF Comes
  <2>2. \A i, j \in 1 .. n : l[i] = l[j] => i = j
    BY <2>1, <1>1
  <2> QED BY <2>2, <1>9 DEF Injection, IsInjective
<1>11. l \in Surjection(1 .. n, S)
  <2>1. IsFiniteSet(1 .. n) /\ Cardinality(1 .. n) = n
    BY <1>1, FS_Interval
  <2> QED BY <2>1, <1>1, <1>10, FS_Injection
<1>12. l \in Seq(Ranks)
  <2>1. l \in [1 .. n -> Ranks]
    BY <1>9
  <2>2. [1 .. n -> Ranks] \subseteq Seq(Ranks)
    BY <1>1, SeqDef
  <2> QED BY <2>1, <2>2
<1>13. \A k : (\E i \in DOMAIN l : l[i] = k) <=> k \in S
  BY <1>9, <1>11 DEF Surjection
<1> QED BY <1>9, <1>12, <1>13 DEF l

-----------------------------------------------------------------------------
(* The caches.                                                             *)

\* The fields a list is made of, those of the watch, the cursor, and the caches.
SameView(a, b) ==
  /\ b.objects = a.objects /\ b.printed = a.printed /\ b.load = a.load /\ b.now = a.now
  /\ b.workloads = a.workloads /\ b.all = a.all /\ b.faults = a.faults
  /\ b.filter = a.filter /\ b.sort = a.sort
SameWatch(a, b) == b.synced = a.synced /\ b.buffered = a.buffered /\ b.gen = a.gen
SameCursor(a, b) == b.cursor = a.cursor /\ b.reselect = a.reselect
SameCache(a, b) ==
  /\ b.dirty = a.dirty /\ b.timed = a.timed /\ b.second = a.second /\ b.keys = a.keys
  /\ b.cells = a.cells /\ b.sorts = a.sorts

\* What is shown of a row that is there is a number.
LEMMA CellNumber ==
  ASSUME NEW a \in Apps, NEW k \in Ranks, a.objects[k] # None
  PROVE  a.objects[k] \in Objects /\ Cell(a, k) \in Nat
<1>1. a.objects[k] \in Objects /\ a.printed[k] \in {0, 1}
  BY DEF Apps
<1>2. a.objects[k].value \in {0, 1}
  BY <1>1 DEF Objects
<1> QED BY <1>1, <1>2 DEF Cell

\* What should be listed depends on nothing else.
LEMMA SameRows ==
  ASSUME NEW a, NEW b, SameView(a, b)
  PROVE  /\ \A k \in Ranks : (Shown(b, k) <=> Shown(a, k)) /\ Cell(b, k) = Cell(a, k)
         /\ Primary(b) = Primary(a)
         /\ \A entries : Holds(b, entries) = Holds(a, entries)
<1>1. ASSUME NEW k \in Ranks
      PROVE  Cell(b, k) = Cell(a, k) /\ (Shown(b, k) <=> Shown(a, k))
  <2>1. Cell(b, k) = Cell(a, k)
    BY DEF SameView, Cell
  <2>2. Visible(b, k) = Visible(a, k)
    BY DEF SameView, Visible
  <2>3. ASSUME NEW t PROVE Passes(b, k, t) = Passes(a, k, t)
    BY DEF SameView, Passes
  <2> QED BY <2>1, <2>2, <2>3 DEF Shown
<1>2. Primary(b) = Primary(a)
  BY <1>1 DEF SameView, Primary
<1>3. ASSUME NEW entries PROVE Holds(b, entries) = Holds(a, entries)
  BY <1>1 DEF SameView, Holds
<1> QED BY <1>1, <1>2, <1>3

\* A list keeps what is true of it when only the cursor moves.
LEMMA SameList ==
  ASSUME NEW a \in Apps, NEW b \in Apps, NEW S \in SUBSET Ranks, SameView(a, b), SameCache(a, b), Sound(a, S)
  PROVE  Sound(b, S) /\ (UpToDate(b) <=> UpToDate(a))
<1>1. UpToDate(b) = UpToDate(a)
  BY DEF SameView, SameCache, UpToDate
<1>2. Cached(b)
  BY SameRows DEF SameCache, Sound, Cached
<1>3. Clocked(b)
  BY DEF SameView, SameCache, Sound, Clocked
<1>4. ASSUME Lists(a, S) PROVE Lists(b, S)
  <2>1. b.keys = a.keys /\ Primary(b) = Primary(a)
    BY SameRows DEF SameCache
  <2>2. \A k \in S : Shown(b, k) <=> Shown(a, k)
    BY SameRows
  <2> QED BY <1>4, <2>1, <2>2 DEF Lists
<1>5. Present(a) => Present(b)
  BY DEF SameView, SameCache, Present
<1> QED BY <1>1, <1>2, <1>3, <1>4, <1>5 DEF Sound, Listed

\* A cache that is warmed for rows that are there holds what they show.
LEMMA Warmed ==
  ASSUME NEW a \in Apps, NEW entries \in [Ranks -> Texts \cup {None}], Holds(a, entries),
         NEW T \in SUBSET Ranks, \A k \in T : a.objects[k] # None
  PROVE  /\ Warm(a, entries, T) \in [Ranks -> Texts \cup {None}]
         /\ Holds(a, Warm(a, entries, T))
         /\ \A k \in T : Warm(a, entries, T)[k].text = Cell(a, k)
<1>1. ASSUME NEW k \in T
      PROVE  /\ Entry(a, entries, k) = [rev |-> a.objects[k].rev, text |-> Cell(a, k)]
             /\ Entry(a, entries, k) \in Texts
  <2>1. a.objects[k].rev \in Nat /\ Cell(a, k) \in Nat
    BY CellNumber DEF Objects
  <2>2. Entry(a, entries, k) = [rev |-> a.objects[k].rev, text |-> Cell(a, k)]
    BY DEF Entry, Fresh, Holds
  <2> QED BY <2>1, <2>2 DEF Texts
<1>2. \A k \in Ranks : Warm(a, entries, T)[k] = IF k \in T THEN Entry(a, entries, k) ELSE entries[k]
  BY DEF Warm
<1>3. Warm(a, entries, T) \in [Ranks -> Texts \cup {None}]
  BY <1>1 DEF Warm
<1>4. Holds(a, Warm(a, entries, T))
  BY <1>1, <1>2 DEF Holds
<1>5. \A k \in T : Warm(a, entries, T)[k].text = Cell(a, k)
  BY <1>1, <1>2
<1> QED BY <1>3, <1>4, <1>5

\* A list that is up to date is listed anew as it is; any other is made right
\* (src/src/app/rows.rs: ensure_rows_cache).
LEMMA Ensured ==
  ASSUME NEW a, NEW S \in SUBSET Ranks, Sound(a, S)
  PROVE  /\ Sound(Ensure(a), S) /\ UpToDate(Ensure(a))
         /\ Lists(Ensure(a), S) /\ Present(Ensure(a))
         /\ SameView(a, Ensure(a)) /\ SameWatch(a, Ensure(a)) /\ SameCursor(a, Ensure(a))
         /\ UpToDate(a) => Ensure(a) = a
         /\ ~UpToDate(a) => Lists(Ensure(a), Ranks)
<1> a \in Apps /\ Cached(a) /\ Clocked(a) /\ Listed(a, S)
  BY DEF Sound
<1>1. CASE UpToDate(a)
  <2>1. Ensure(a) = a
    BY <1>1 DEF Ensure
  <2> QED BY <1>1, <2>1 DEF SameView, SameWatch, SameCursor, Listed
<1>2. CASE ~UpToDate(a)
  <2> DEFINE tested == {k \in Ranks : Visible(a, k) /\ (a.faults => a.objects[k].faulty)}
             cells == IF a.filter = "text" THEN Warm(a, a.cells, tested) ELSE a.cells
             kept == {k \in tested :
                        Passes(a, k, IF a.filter = "text" THEN cells[k].text ELSE 0)}
             sorts == IF a.sort = "column" THEN Warm(a, a.sorts, kept) ELSE a.sorts
             primary == [k \in Ranks |->
                           CASE a.sort = "none"   -> 0
                             [] a.sort = "column" -> IF k \in kept THEN sorts[k].text ELSE 0
                             [] a.sort = "load"   -> a.load[k]]
             e == Ensure(a)
  <2>1. e = [a EXCEPT !.keys = Ordered(kept, primary), !.cells = cells, !.sorts = sorts,
                      !.dirty = FALSE, !.timed = a.filter = "age", !.second = a.now]
    BY <1>2 DEF Ensure
  <2>2. a.cells \in [Ranks -> Texts \cup {None}] /\ a.sorts \in [Ranks -> Texts \cup {None}]
        /\ Holds(a, a.cells) /\ Holds(a, a.sorts)
    BY DEF Apps, Cached
  <2>3. tested \in SUBSET Ranks /\ \A k \in tested : a.objects[k] # None
    BY DEF Visible
  <2>4. /\ cells \in [Ranks -> Texts \cup {None}] /\ Holds(a, cells)
        /\ a.filter = "text" => \A k \in tested : cells[k].text = Cell(a, k)
    <3> HIDE DEF tested
    <3> QED BY <2>2, <2>3, Warmed
  <2>5. kept = {k \in Ranks : Shown(a, k)}
    <3>1. ASSUME NEW k \in tested
          PROVE  Passes(a, k, IF a.filter = "text" THEN cells[k].text ELSE 0)
                   = Passes(a, k, Cell(a, k))
      <4>1. CASE a.filter = "text"
        BY <2>4, <4>1
      <4>2. CASE a.filter # "text"
        BY <4>2 DEF Passes
      <4> QED BY <4>1, <4>2
    <3>2. \A k \in Ranks : Shown(a, k) <=> k \in tested /\ Passes(a, k, Cell(a, k))
      BY DEF Shown, Passes
    <3> HIDE DEF tested, cells
    <3> QED BY <3>1, <3>2, <2>3
  <2>6. kept \in SUBSET Ranks /\ \A k \in kept : a.objects[k] # None
    BY <2>3
  <2> HIDE DEF tested, cells, kept
  <2>7. /\ sorts \in [Ranks -> Texts \cup {None}] /\ Holds(a, sorts)
        /\ a.sort = "column" => \A k \in kept : sorts[k].text = Cell(a, k)
    BY <2>2, <2>6, Warmed
  <2> HIDE DEF sorts
  <2>8. \A k \in kept : primary[k] = Primary(a)[k]
    BY <2>6, <2>7 DEF Primary
  <2>9. primary \in [Ranks -> Nat]
    <3>1. \A k \in kept : Cell(a, k) \in Nat
      BY <2>6, CellNumber
    <3>2. a.load \in [Ranks -> {0, 1}] /\ a.sort \in {"none", "column", "load"}
      BY DEF Apps
    <3> QED BY <2>6, <2>7, <3>1, <3>2
  <2> HIDE DEF primary
  <2>10. /\ Ordered(kept, primary) \in Seq(Ranks)
         /\ InOrder(Ordered(kept, primary), primary)
         /\ \A k : (\E i \in DOMAIN Ordered(kept, primary) : Ordered(kept, primary)[i] = k)
                     <=> k \in kept
    BY <2>6, <2>9, Sorting
  <2> DEFINE l == Ordered(kept, primary)
  <2> HIDE DEF l
  <2>11. /\ SameView(a, e) /\ SameWatch(a, e) /\ SameCursor(a, e)
         /\ e.keys = l /\ e.cells = cells /\ e.sorts = sorts
         /\ e.dirty = FALSE /\ e.timed = (a.filter = "age") /\ e.second = a.now
    BY <2>1 DEF Apps, SameView, SameWatch, SameCursor, l
  <2>12. e \in Apps
    <3>1. l \in Seq(Ranks) /\ (a.filter = "age") \in BOOLEAN /\ a.now \in Nat
      BY <2>10 DEF l, Apps
    <3>2. cells \in [Ranks -> Texts \cup {None}] /\ sorts \in [Ranks -> Texts \cup {None}]
      BY <2>4, <2>7
    <3>3. e = [a EXCEPT !.keys = l, !.cells = cells, !.sorts = sorts, !.dirty = FALSE,
                        !.timed = a.filter = "age", !.second = a.now]
      BY <2>1 DEF l
    <3> HIDE DEF e
    <3> QED BY <3>1, <3>2, <3>3 DEF Apps
  <2> HIDE DEF e
  <2>13. UpToDate(e)
    BY <2>11 DEF UpToDate, SameView
  <2>14. Cached(e)
    BY <2>4, <2>7, <2>11, SameRows DEF Cached
  <2>15. Present(e)
    <3>1. \A i \in DOMAIN l : l[i] \in kept
      BY <2>10 DEF l
    <3> QED BY <3>1, <2>6, <2>11 DEF Present, SameView
  <2>16. Lists(e, Ranks)
    <3>1. \A k \in Ranks : (\E i \in DOMAIN l : l[i] = k) <=> Shown(e, k)
      <4>1. \A k \in Ranks : Shown(e, k) <=> Shown(a, k)
        BY <2>11, SameRows
      <4>2. \A k : (\E i \in DOMAIN l : l[i] = k) <=> k \in kept
        BY <2>10 DEF l
      <4> QED BY <2>5, <4>1, <4>2
    <3>2. \A i, j \in DOMAIN l : i < j => Comes(Primary(e), l[i], l[j])
      <4> SUFFICES ASSUME NEW i \in DOMAIN l, NEW j \in DOMAIN l, i < j
                   PROVE  Comes(Primary(e), l[i], l[j])
        OBVIOUS
      <4>1. Comes(primary, l[i], l[j])
        BY <2>10 DEF InOrder, l
      <4>2. l[i] \in kept /\ l[j] \in kept
        BY <2>10 DEF l
      <4>3. Primary(e) = Primary(a)
        BY <2>11, SameRows
      <4> QED BY <2>8, <4>1, <4>2, <4>3 DEF Comes
    <3> QED BY <3>1, <3>2, <2>11 DEF Lists
  <2>17. Lists(e, S)
    BY <2>16 DEF Lists
  <2>18. Clocked(e)
    <3> SUFFICES ASSUME a.filter = "age", a.now = 0 PROVE l = <<>>
      BY <2>11, <2>12 DEF Clocked, SameView, Apps
    <3>1. ASSUME NEW k \in kept PROVE FALSE
      <4>1. Passes(a, k, Cell(a, k)) /\ a.objects[k] # None
        BY <2>5, <2>6 DEF Shown
      <4>2. a.now > a.objects[k].born
        BY <4>1 DEF Passes
      <4>3. a.objects[k].born \in Nat
        BY <4>1, <2>6, CellNumber DEF Objects
      <4> QED BY <4>2, <4>3
    <3>2. l \in Seq(Ranks) /\ \A i \in DOMAIN l : FALSE
      BY <2>10, <3>1 DEF l
    <3>3. Len(l) \in Nat /\ DOMAIN l = 1 .. Len(l)
      BY <3>2, LenProperties
    <3>4. CASE Len(l) # 0
      <4>1. 1 \in DOMAIN l
        BY <3>3, <3>4
      <4> QED BY <3>2, <4>1
    <3> QED BY <3>2, <3>4, EmptySeq
  <2> QED BY <2>11, <2>12, <2>13, <2>14, <2>15, <2>16, <2>17, <2>18, <1>2 DEF Sound, Listed, e
<1> QED BY <1>1, <1>2

-----------------------------------------------------------------------------
(* The cursor.                                                             *)

\* Where a row is in the list, when it is there.
LEMMA Found ==
  ASSUME NEW a \in Apps, NEW k
  PROVE  /\ RowIndex(a, k) # None <=> \E i \in DOMAIN a.keys : a.keys[i] = k
         /\ RowIndex(a, k) # None =>
              /\ RowIndex(a, k) \in DOMAIN a.keys /\ RowIndex(a, k) \in Nat
              /\ a.keys[RowIndex(a, k)] = k
         /\ RowIndex(a, k) \in Nat \cup {None}
<1>1. \A i \in DOMAIN a.keys : i \in Nat /\ i # None
  <2>1. a.keys \in Seq(Ranks)
    BY DEF Apps
  <2>2. DOMAIN a.keys = 1 .. Len(a.keys) /\ Len(a.keys) \in Nat
    BY <2>1, LenProperties
  <2> QED BY <2>2, TableAssumption
<1>2. CASE \E i \in DOMAIN a.keys : a.keys[i] = k
  BY <1>1, <1>2 DEF RowIndex
<1>3. CASE ~\E i \in DOMAIN a.keys : a.keys[i] = k
  BY <1>3 DEF RowIndex
<1> QED BY <1>2, <1>3

\* What is selected is a row that is there.
LEMMA SelectedType ==
  ASSUME NEW a \in Apps, Selected(a) # None
  PROVE  /\ a.cursor \in DOMAIN a.keys /\ Selected(a).key = a.keys[a.cursor]
         /\ Selected(a).key \in Ranks /\ a.objects[Selected(a).key] # None
         /\ Selected(a).uid = a.objects[Selected(a).key].uid
         /\ Selected(a) = [key |-> Selected(a).key, uid |-> Selected(a).uid]
<1>1. a.cursor \in DOMAIN a.keys /\ a.objects[a.keys[a.cursor]] # None
  BY DEF Selected
<1>2. Selected(a) = [key |-> a.keys[a.cursor], uid |-> a.objects[a.keys[a.cursor]].uid]
  BY <1>1 DEF Selected
<1>3. a.keys[a.cursor] \in Ranks
  <2>1. a.keys \in Seq(Ranks)
    BY DEF Apps
  <2>2. DOMAIN a.keys = 1 .. Len(a.keys)
    BY <2>1, LenProperties
  <2> QED BY <1>1, <2>1, <2>2, ElementOfSeq
<1> QED BY <1>1, <1>2, <1>3

\* A row that is listed is selected where it is, when it is there.
LEMMA SelectedAt ==
  ASSUME NEW a \in Apps, a.cursor \in DOMAIN a.keys, a.objects[a.keys[a.cursor]] # None
  PROVE  /\ Selected(a) = [key |-> a.keys[a.cursor], uid |-> a.objects[a.keys[a.cursor]].uid]
         /\ Selected(a) # None
<1>1. Selected(a) = [key |-> a.keys[a.cursor], uid |-> a.objects[a.keys[a.cursor]].uid]
  BY DEF Selected
<1>2. a.keys[a.cursor] \in Ranks
  <2>1. a.keys \in Seq(Ranks)
    BY DEF Apps
  <2>2. DOMAIN a.keys = 1 .. Len(a.keys)
    BY <2>1, LenProperties
  <2> QED BY <2>1, <2>2, ElementOfSeq
<1>3. a.objects[a.keys[a.cursor]].uid \in Nat
  BY <1>2, CellNumber DEF Objects
<1>4. Selected(a) \in [key : Ranks, uid : Nat]
  BY <1>1, <1>2, <1>3
<1> QED BY <1>1, <1>4, TableAssumption

PutAt(a, c, w) == [a EXCEPT !.cursor = c, !.reselect = w]

\* The cursor and what it waits for move on their own.
LEMMA Put ==
  ASSUME NEW a, NEW S \in SUBSET Ranks, Sound(a, S),
         NEW c \in Nat \cup {None}, NEW w \in Waits \cup {None},
         NEW b, b = PutAt(a, c, w)
  PROVE  /\ Sound(b, S) /\ (UpToDate(b) <=> UpToDate(a))
         /\ SameView(a, b) /\ SameWatch(a, b) /\ SameCache(a, b)
         /\ b.cursor = c /\ b.reselect = w
<1>0. a \in Apps
  BY DEF Sound
<1>1. b \in Apps
  BY <1>0 DEF Apps, PutAt
<1>2. /\ SameView(a, b) /\ SameWatch(a, b) /\ SameCache(a, b)
      /\ b.cursor = c /\ b.reselect = w
  BY <1>0 DEF Apps, PutAt, SameView, SameWatch, SameCache
<1> QED BY <1>0, <1>1, <1>2, SameList

\* The cursor and the pending row, as parts of an update.
LEMMA PutOne ==
  ASSUME NEW a \in Apps, NEW x
  PROVE  /\ [a EXCEPT !.cursor = x] = PutAt(a, x, a.reselect)
         /\ [a EXCEPT !.reselect = x] = PutAt(a, a.cursor, x)
         /\ a.cursor \in Nat \cup {None} /\ a.reselect \in Waits \cup {None}
BY DEF Apps, PutAt

\* A pending row is dropped when the cursor left it (src/src/app/rows.rs:
\* drop_moved_filter_reselect).
LEMMA Dropped ==
  ASSUME NEW a, NEW S \in SUBSET Ranks, Sound(a, S)
  PROVE  /\ Sound(DropMoved(a), S) /\ (UpToDate(DropMoved(a)) <=> UpToDate(a))
         /\ SameView(a, DropMoved(a)) /\ SameWatch(a, DropMoved(a)) /\ SameCache(a, DropMoved(a))
         /\ DropMoved(a).cursor = a.cursor
         /\ DropMoved(a).reselect =
              IF a.reselect # None /\ (a.reselect.gen # a.gen \/ a.reselect.index # a.cursor)
              THEN None ELSE a.reselect
<1>0. a \in Apps
  BY DEF Sound
<1>1. CASE a.reselect # None /\ (a.reselect.gen # a.gen \/ a.reselect.index # a.cursor)
  <2>1. DropMoved(a) = PutAt(a, a.cursor, None)
    BY <1>0, <1>1, PutOne DEF DropMoved
  <2> DEFINE d == DropMoved(a)
             c == a.cursor
  <2>2. c \in Nat \cup {None} /\ None \in Waits \cup {None}
    BY <1>0, PutOne
  <2>3. d = PutAt(a, c, None)
    BY <2>1
  <2> HIDE DEF c, d
  <2>4. /\ Sound(d, S) /\ (UpToDate(d) <=> UpToDate(a))
        /\ SameView(a, d) /\ SameWatch(a, d) /\ SameCache(a, d)
        /\ d.cursor = c /\ d.reselect = None
    BY <2>2, <2>3, Put
  <2> QED BY <1>1, <2>4 DEF c, d
<1>2. CASE ~(a.reselect # None /\ (a.reselect.gen # a.gen \/ a.reselect.index # a.cursor))
  <2>1. DropMoved(a) = a
    BY <1>2 DEF DropMoved
  <2> QED BY <1>2, <2>1 DEF SameView, SameWatch, SameCache
<1> QED BY <1>1, <1>2

\* What the end of a message leaves (src/src/app/lifecycle.rs: handle_msg_inner).
LEMMA Settled ==
  ASSUME NEW before, NEW a, NEW S \in SUBSET Ranks, Sound(a, S), NEW follow \in BOOLEAN
  PROVE  LET d == DropMoved(a)
             s == Settle(before, a, follow)
             at == RowIndex(Ensure(d), d.reselect.key)
         IN  /\ Sound(s, S) /\ SameView(a, s) /\ SameWatch(a, s)
             /\ d.reselect # None /\ ~a.synced => s = d
             /\ d.reselect # None /\ a.synced =>
                  /\ UpToDate(s) /\ s.reselect = None /\ SameCache(Ensure(d), s)
                  /\ s.cursor = IF at = None THEN 1 ELSE at
             /\ d.reselect = None /\ follow =>
                  /\ UpToDate(s) /\ s.reselect = None /\ SameCache(Ensure(d), s)
                  /\ s.cursor = StillAt(before, Ensure(d))
             /\ d.reselect = None /\ ~follow => s = d
<1> DEFINE d == DropMoved(a)
           e == Ensure(d)
           s == Settle(before, a, follow)
           at == RowIndex(e, d.reselect.key)
<1>1. /\ Sound(d, S) /\ SameView(a, d) /\ SameWatch(a, d)
  BY Dropped
<1> HIDE DEF d
<1>2. /\ Sound(e, S) /\ UpToDate(e) /\ SameView(d, e) /\ SameWatch(d, e) /\ SameCursor(d, e)
  BY <1>1, Ensured
<1>3. e \in Apps /\ d \in Apps /\ a \in Apps
  BY <1>1, <1>2 DEF Sound
<1>4. s = IF d.reselect # None THEN Finish(d, e)
          ELSE IF follow THEN [e EXCEPT !.cursor = StillAt(before, e)] ELSE d
  BY DEF Settle, d
<1> HIDE DEF e
<1>5. CASE d.reselect # None /\ ~a.synced
  <2>1. s = d
    BY <1>1, <1>4, <1>5 DEF Finish, SameWatch
  <2> QED BY <1>1, <1>5, <2>1 DEF d, e
<1>6. CASE d.reselect # None /\ a.synced
  <2> DEFINE to == IF at = None THEN 1 ELSE at
  <2>1. s = PutAt(e, to, None)
    <3>1. s = [e EXCEPT !.reselect = None, !.cursor = IF at = None THEN 1 ELSE at]
      BY <1>1, <1>4, <1>6 DEF Finish, SameWatch
    <3> HIDE DEF at, s
    <3> QED BY <3>1, <1>3 DEF Apps, PutAt
  <2>2. to \in Nat \cup {None} /\ None \in Waits \cup {None}
    BY <1>3, Found
  <2> HIDE DEF at, to, s
  <2>3. /\ Sound(s, S) /\ (UpToDate(s) <=> UpToDate(e))
        /\ SameView(e, s) /\ SameWatch(e, s) /\ SameCache(e, s)
        /\ s.cursor = to /\ s.reselect = None
    BY <1>2, <2>1, <2>2, Put
  <2>4. SameView(a, s) /\ SameWatch(a, s)
    BY <1>1, <1>2, <2>3 DEF SameView, SameWatch
  <2> QED BY <1>2, <1>6, <2>3, <2>4 DEF d, e, s, at, to
<1>7. CASE d.reselect = None /\ follow
  <2> DEFINE to == StillAt(before, e)
  <2>1. s = PutAt(e, to, None)
    <3>1. s = [e EXCEPT !.cursor = to] /\ e.reselect = None
      BY <1>2, <1>4, <1>7 DEF SameCursor
    <3> HIDE DEF to, s
    <3> QED BY <3>1, <1>3, PutOne
  <2>2. to \in Nat \cup {None} /\ None \in Waits \cup {None}
    BY <1>3, Found DEF StillAt
  <2> HIDE DEF to, s
  <2>3. /\ Sound(s, S) /\ (UpToDate(s) <=> UpToDate(e))
        /\ SameView(e, s) /\ SameWatch(e, s) /\ SameCache(e, s)
        /\ s.cursor = to /\ s.reselect = None
    BY <1>2, <2>1, <2>2, Put
  <2>4. SameView(a, s) /\ SameWatch(a, s)
    BY <1>1, <1>2, <2>3 DEF SameView, SameWatch
  <2> QED BY <1>2, <1>7, <2>3, <2>4 DEF d, e, s, to
<1>8. CASE d.reselect = None /\ ~follow
  <2>1. s = d
    BY <1>4, <1>8
  <2> QED BY <1>1, <1>8, <2>1 DEF d, e
<1> QED BY <1>5, <1>6, <1>7, <1>8

-----------------------------------------------------------------------------
(* What handlers change of what is listed.                                 *)

\* A list that will be made anew may be of anything.
LEMMA Stale ==
  ASSUME NEW b \in Apps, b.dirty, b.second <= b.now, Cached(b), NEW S
  PROVE  Sound(b, S)
BY DEF Sound, Clocked, Listed, UpToDate

\* Nothing is left of the caches (src/src/app/rows.rs: clear_rows_cache).
LEMMA Cleared ==
  ASSUME NEW a \in Apps, a.second <= a.now, NEW S, NEW b, b = Clear(a)
  PROVE  Sound(b, S) /\ SameView(a, b) /\ SameWatch(a, b) /\ SameCursor(a, b)
<1>1. NoEntry \in [Ranks -> Texts \cup {None}] /\ <<>> \in Seq(Ranks)
  BY DEF NoEntry
<1>2. b \in Apps
  BY <1>1 DEF Apps, Clear
<1>3. /\ SameView(a, b) /\ SameWatch(a, b) /\ SameCursor(a, b)
      /\ b.dirty /\ b.second <= b.now /\ b.cells = NoEntry /\ b.sorts = NoEntry
  BY DEF Apps, Clear, SameView, SameWatch, SameCursor
<1>4. Cached(b)
  BY <1>3 DEF Cached, Holds, NoEntry
<1> QED BY <1>2, <1>3, <1>4, Stale

\* The list is made anew, of what is cached (src/src/app/rows.rs: invalidate_rows).
LEMMA Invalidated ==
  ASSUME NEW a \in Apps, Cached(a), a.second <= a.now, NEW S, NEW b, b = Invalidate(a)
  PROVE  /\ Sound(b, S) /\ ~UpToDate(b)
         /\ SameView(a, b) /\ SameWatch(a, b) /\ SameCursor(a, b)
<1>1. b \in Apps
  BY DEF Apps, Invalidate
<1>2. /\ SameView(a, b) /\ SameWatch(a, b) /\ SameCursor(a, b)
      /\ b.dirty /\ b.second = a.second /\ b.cells = a.cells /\ b.sorts = a.sorts
  BY DEF Apps, Invalidate, SameView, SameWatch, SameCursor
<1>3. Cached(b) /\ b.second <= b.now
  BY <1>2, SameRows DEF Cached, SameView
<1> QED BY <1>1, <1>2, <1>3, Stale DEF UpToDate

\* One row changes, and what was cached of it goes.
RowChanges(a, b, k) ==
  /\ \A j \in Ranks \ {k} : /\ b.objects[j] = a.objects[j] /\ b.printed[j] = a.printed[j]
                            /\ b.cells[j] = a.cells[j] /\ b.sorts[j] = a.sorts[j]
  /\ b.cells[k] = None /\ b.sorts[k] = None

\* The list is kept, unless something is filtered or sorted.
KeptUnlessSorted(a, b) ==
  /\ b.load = a.load /\ b.now = a.now /\ b.workloads = a.workloads /\ b.all = a.all
  /\ b.faults = a.faults /\ b.filter = a.filter /\ b.sort = a.sort
  /\ b.keys = a.keys /\ b.timed = a.timed /\ b.second = a.second
  /\ b.dirty <=> a.dirty \/ a.filter # "none" \/ a.faults \/ a.sort # "none"

\* What is cached of other rows is still right when one row changes.
LEMMA OtherRows ==
  ASSUME NEW a, Cached(a), NEW b, NEW k \in Ranks, RowChanges(a, b, k)
  PROVE  Cached(b)
<1> USE DEF RowChanges
<1>1. \A j \in Ranks \ {k} : Cell(b, j) = Cell(a, j)
  BY DEF Cell
<1>2. Holds(a, a.cells) /\ Holds(a, a.sorts)
  BY DEF Cached
<1>3. Holds(b, b.cells)
  BY <1>1, <1>2 DEF Holds
<1>4. Holds(b, b.sorts)
  BY <1>1, <1>2 DEF Holds
<1> QED BY <1>3, <1>4 DEF Cached

\* A row that changes where it is: the list stands when nothing is filtered or sorted,
\* but whether the row is owned may have changed (src/src/app/rows.rs:
\* invalidate_row_contents).
LEMMA ContentsChanged ==
  ASSUME NEW a, NEW S \in SUBSET Ranks, Sound(a, S), NEW b \in Apps, NEW k \in Ranks,
         RowChanges(a, b, k), KeptUnlessSorted(a, b),
         a.objects[k] # None, b.objects[k] # None
  PROVE  Sound(b, IF a.workloads THEN S \ {k} ELSE S)
<1> USE DEF RowChanges, KeptUnlessSorted
<1> DEFINE T == IF a.workloads THEN S \ {k} ELSE S
<1> a \in Apps /\ Clocked(a) /\ Listed(a, S)
  BY DEF Sound
<1>1. Cached(b)
  BY OtherRows DEF Sound
<1>2. CASE b.dirty
  BY <1>1, <1>2, Stale DEF Clocked
<1>3. CASE ~b.dirty
  <2>1. ~a.dirty /\ a.filter = "none" /\ ~a.faults /\ a.sort = "none" /\ b.sort = "none"
    BY <1>3
  <2>2. Clocked(b)
    BY <2>1, <1>3 DEF Clocked
  <2>3. SUFFICES ASSUME UpToDate(b) PROVE Lists(b, T) /\ Present(b)
    BY <1>1, <2>2 DEF Sound, Listed
  <2>4. Lists(a, S) /\ Present(a)
    BY <2>1, <2>3 DEF UpToDate, Listed
  <2>5. ASSUME NEW j \in T PROVE Shown(b, j) <=> Shown(a, j)
    <3>1. ~b.faults /\ b.filter = "none"
      BY <2>1
    <3>2. Passes(b, j, Cell(b, j)) /\ Passes(a, j, Cell(a, j))
      BY <2>1, <3>1 DEF Passes
    <3>3. Visible(b, j) <=> Visible(a, j)
      BY <2>5 DEF Visible
    <3> QED BY <3>2, <3>3 DEF Shown
  <2>6. Primary(b) = Primary(a)
    BY <2>1 DEF Primary
  <2>7. Lists(b, T)
    <3>1. T \subseteq S
      OBVIOUS
    <3> HIDE DEF T
    <3> QED BY <2>4, <2>5, <2>6, <3>1 DEF Lists
  <2>8. Present(b)
    <3>1. \A i \in DOMAIN a.keys : a.keys[i] \in Ranks
      BY LenProperties, ElementOfSeq DEF Apps
    <3>2. \A j \in Ranks : a.objects[j] # None => b.objects[j] # None
      OBVIOUS
    <3> QED BY <2>4, <3>1, <3>2 DEF Present
  <2> QED BY <2>7, <2>8
<1> QED BY <1>2, <1>3

\* The metrics move the rows that are filtered or sorted by them, and the clock those
\* that are filtered by age.
LEMMA MeasureChanged ==
  ASSUME NEW a, NEW S \in SUBSET Ranks, Sound(a, S), NEW b \in Apps,
         b.objects = a.objects, b.printed = a.printed, b.workloads = a.workloads,
         b.all = a.all, b.faults = a.faults, b.filter = a.filter, b.sort = a.sort,
         b.keys = a.keys, b.timed = a.timed, b.second = a.second,
         b.cells = a.cells, b.sorts = a.sorts, b.dirty = a.dirty,
         a.now <= b.now, a.timed => a.now = b.now,
         b.load = a.load \/ (a.sort # "load" /\ a.filter # "load")
  PROVE  Sound(b, S)
<1> a \in Apps /\ Clocked(a) /\ Listed(a, S)
  BY DEF Sound
<1>1. \A k \in Ranks : Cell(b, k) = Cell(a, k)
  BY DEF Cell
<1>2. Cached(b)
  BY <1>1 DEF Sound, Cached, Holds
<1>3. a.second \in Nat /\ a.now \in Nat /\ b.now \in Nat /\ b.second = a.second
  BY DEF Apps
<1>4. Clocked(b)
  BY <1>3 DEF Clocked
<1>5. CASE b.dirty
  BY <1>2, <1>4, <1>5, Stale DEF Clocked
<1>6. CASE ~b.dirty
  <2>1. SUFFICES ASSUME UpToDate(b) PROVE Lists(b, S) /\ Present(b)
    BY <1>2, <1>4 DEF Sound, Listed
  <2>2. Lists(a, S) /\ Present(a)
    BY <1>6, <2>1 DEF UpToDate, Listed
  <2>3. a.filter = "age" => a.now = b.now
    BY <1>6 DEF Clocked
  <2>4. ASSUME NEW k \in S PROVE Shown(b, k) <=> Shown(a, k)
    <3>1. Visible(b, k) <=> Visible(a, k)
      BY DEF Visible
    <3>2. a.filter \in {"none", "text", "load", "age"}
      BY DEF Apps
    <3>3. ASSUME NEW t PROVE Passes(b, k, t) <=> Passes(a, k, t)
      BY <2>3, <3>2 DEF Passes
    <3> QED BY <1>1, <3>1, <3>3 DEF Shown
  <2>5. Primary(b) = Primary(a)
    <3>1. a.sort \in {"none", "column", "load"}
      BY DEF Apps
    <3> QED BY <1>1, <3>1 DEF Primary
  <2>6. Lists(b, S)
    BY <2>2, <2>4, <2>5 DEF Lists
  <2>7. Present(b)
    BY <2>2 DEF Present
  <2> QED BY <2>6, <2>7
<1> QED BY <1>5, <1>6

\* A list that is the one with no cache is right for every row.
LEMMA ListingRight ==
  ASSUME NEW a \in Apps, a.keys = Listing(a)
  PROVE  Lists(a, Ranks)
<1> DEFINE shown == {k \in Ranks : Shown(a, k)}
           p == Primary(a)
<1>1. p \in [Ranks -> Nat]
  <2>1. a.load \in [Ranks -> {0, 1}] /\ a.sort \in {"none", "column", "load"}
    BY DEF Apps
  <2>2. \A k \in Ranks : a.objects[k] # None => Cell(a, k) \in Nat
    BY CellNumber
  <2> QED BY <2>1, <2>2 DEF Primary
<1>2. a.keys = Ordered(shown, p) /\ shown \in SUBSET Ranks
  BY DEF Listing
<1> HIDE DEF shown, p
<1>3. /\ InOrder(Ordered(shown, p), p)
      /\ \A k : (\E i \in DOMAIN Ordered(shown, p) : Ordered(shown, p)[i] = k) <=> k \in shown
  <2>1. shown \in SUBSET Ranks
    BY <1>2
  <2> QED BY <1>1, <2>1, Sorting
<1>4. InOrder(a.keys, p) /\ \A k : (\E i \in DOMAIN a.keys : a.keys[i] = k) <=> k \in shown
  BY <1>2, <1>3
<1> QED BY <1>4 DEF Lists, InOrder, shown, p

\* What became uncertain is recorded, until the list is right again.
LEMMA CertainKept ==
  ASSUME adopted \subseteq Ranks, NEW S \in SUBSET Ranks, Adopted(S),
         app'.workloads = app.workloads,
         Sound(app', IF app.workloads THEN Certain \ S ELSE Certain)
  PROVE  adopted' \subseteq Ranks /\ Sound(app', Certain')
<1> DEFINE T == IF app.workloads THEN Certain \ S ELSE Certain
<1>1. app' \in Apps
  BY DEF Sound
<1>2. T \in SUBSET Ranks /\ Certain' \in SUBSET Ranks
  BY DEF Certain
<1>3. CASE Wrong(app')
  <2>1. adopted' = adopted \cup S
    BY <1>3 DEF Adopted
  <2>2. Certain' \subseteq T
    BY <2>1 DEF Certain
  <2>3. Lists(app', T) => Lists(app', Certain')
    <3> HIDE DEF T
    <3> QED BY <2>2 DEF Lists
  <2> QED BY <2>1, <2>3 DEF Sound, Listed
<1>4. CASE ~Wrong(app')
  <2>1. adopted' = {} /\ Ensure(app').keys = Listing(app')
    BY <1>4 DEF Adopted, Wrong
  <2>2. UpToDate(app') => app'.keys = Listing(app')
    BY <2>1 DEF Ensure
  <2>3. UpToDate(app') => Lists(app', Certain')
    <3>1. UpToDate(app') => Lists(app', Ranks)
      BY <1>1, <2>2, ListingRight
    <3> QED BY <3>1, <1>2 DEF Lists
  <2> QED BY <2>1, <2>3 DEF Sound, Listed
<1> QED BY <1>3, <1>4

-----------------------------------------------------------------------------
(* What an action leaves.                                                  *)

\* What has just been chosen is what is selected.
LEMMA ChosenNow ==
  ASSUME chosen' = Selected(Ensure(app'))
  PROVE  SelectionStays'
BY DEF SelectionStays

\* A message is handled over a list that is made first when the cursor is to be kept.
LEMMA Handled ==
  ASSUME RowsInv
  PROVE  /\ Sound(Before, Certain) /\ Before \in Apps
         /\ SameView(app, Before) /\ SameWatch(app, Before) /\ SameCursor(app, Before)
         /\ Live(app) => Before = Ensure(app)
<1>1. Certain \in SUBSET Ranks /\ Sound(app, Certain)
  BY DEF Certain, RowsInv
<1>2. CASE Live(app)
  BY <1>1, <1>2, Ensured DEF Before, Sound
<1>3. CASE ~Live(app)
  BY <1>1, <1>3 DEF Before, Sound, SameView, SameWatch, SameCursor
<1> QED BY <1>2, <1>3

\* After a message of a watch, whatever it changed of the rows, the list is right, a filter
\* still waits for its object or is on it, and the faults filter kept the cursor.
LEMMA WatchedStep ==
  ASSUME TableInv, NEW a, NEW S \in SUBSET Ranks,
         Sound(a, IF app.workloads THEN Certain \ S ELSE Certain),
         SameCursor(app, a), a.gen = app.gen, a.workloads = app.workloads,
         a.faults = app.faults, Watched(a, S)
  PROVE  /\ adopted' \subseteq Ranks /\ Sound(app', Certain')
         /\ Waiting' /\ SelectionStays' /\ KeptByFilter
<1> DEFINE T == IF app.workloads THEN Certain \ S ELSE Certain
           d == DropMoved(a)
           e == Ensure(d)
           at == RowIndex(e, d.reselect.key)
<1>1. /\ app' = Settle(Before, a, Live(app)) /\ Chosen("watch") /\ Adopted(S)
      /\ held' = IF app'.synced THEN None ELSE held
  BY DEF Watched
<1>2. RowsInv /\ Waiting /\ SelectionStays /\ T \in SUBSET Ranks /\ adopted \subseteq Ranks
  BY DEF TableInv, RowsInv, Certain
<1>3. Sound(a, T) /\ Live(app) \in BOOLEAN /\ app \in Apps
  BY <1>2 DEF Live, RowsInv, Sound, Apps
<1> HIDE DEF T
<1>4. /\ Sound(app', T) /\ SameView(a, app') /\ SameWatch(a, app')
      /\ d.reselect # None /\ ~a.synced => app' = d
      /\ d.reselect # None /\ a.synced =>
           /\ UpToDate(app') /\ app'.reselect = None /\ SameCache(e, app')
           /\ app'.cursor = IF at = None THEN 1 ELSE at
      /\ d.reselect = None /\ Live(app) =>
           /\ UpToDate(app') /\ app'.reselect = None /\ SameCache(e, app')
           /\ app'.cursor = StillAt(Before, e)
      /\ d.reselect = None /\ ~Live(app) => app' = d
  BY <1>1, <1>2, <1>3, Settled
<1>5. /\ Sound(d, T) /\ SameWatch(a, d) /\ SameView(a, d) /\ d.cursor = app.cursor
      /\ d.reselect = IF app.reselect # None
                           /\ (app.reselect.gen # app.gen \/ app.reselect.index # app.cursor)
                      THEN None ELSE app.reselect
  BY <1>2, <1>3, Dropped DEF SameCursor
<1>6. /\ Sound(e, T) /\ UpToDate(e) /\ SameView(d, e) /\ SameWatch(d, e) /\ SameCursor(d, e)
      /\ Present(e)
  BY <1>2, <1>5, Ensured
<1> HIDE DEF d, e
<1>7. app' \in Apps /\ a \in Apps /\ d \in Apps /\ e \in Apps
  BY <1>3, <1>4, <1>5, <1>6 DEF Sound
<1>8. adopted' \subseteq Ranks /\ Sound(app', Certain')
  <2>1. app'.workloads = app.workloads
    BY <1>4 DEF SameView
  <2> QED BY <1>1, <1>2, <1>4, <2>1, CertainKept DEF T
<1>9. CASE app.reselect = None
  <2>1. held = None /\ d.reselect = None
    BY <1>2, <1>5, <1>9 DEF Waiting
  <2>2. app'.reselect = None /\ held' = None
    BY <1>1, <1>4, <2>1
  <2>3. Waiting'
    BY <2>2 DEF Waiting
  <2>4. KeptByFilter
    BY <2>1 DEF KeptByFilter
  <2>5. SelectionStays'
    <3>1. CASE ~Live(app)
      <4>1. chosen' = Selected(Ensure(app'))
        BY <1>1, <3>1 DEF Chosen
      <4> QED BY <4>1, ChosenNow
    <3>2. CASE Live(app)
      <4>1. chosen' = chosen /\ Before = Ensure(app)
        BY <1>1, <1>2, <1>9, <3>2, Handled DEF Chosen
      <4>2. Selected(Before) \in {chosen, None}
        BY <1>2, <3>2, <4>1 DEF SelectionStays
      <4>3. /\ UpToDate(app') /\ SameCache(e, app') /\ app'.cursor = StillAt(Before, e)
        BY <1>4, <2>1, <3>2
      <4>4. Ensure(app') = app'
        BY <4>3 DEF Ensure
      <4>5. SUFFICES ASSUME Selected(app') # None PROVE Selected(app') = Selected(Before)
        BY <4>1, <4>2, <4>4 DEF SelectionStays
      <4> DEFINE was == Selected(Before)
                 i == app'.cursor
      <4>6. /\ i \in DOMAIN app'.keys /\ Selected(app').key = app'.keys[i]
            /\ Selected(app').uid = app'.objects[app'.keys[i]].uid
            /\ Selected(app') = [key |-> Selected(app').key, uid |-> Selected(app').uid]
        BY <1>7, <4>5, SelectedType
      <4>7. i # None
        <5>1. app'.keys \in Seq(Ranks)
          BY <1>7 DEF Apps
        <5>2. DOMAIN app'.keys = 1 .. Len(app'.keys)
          BY <5>1, LenProperties
        <5> QED BY <4>6, <5>2, TableAssumption
      <4>8. /\ was # None /\ e.objects[was.key].uid = was.uid
            /\ i = RowIndex(e, was.key)
        BY <4>3, <4>7 DEF StillAt
      <4>9. e.keys[i] = was.key
        BY <1>7, <4>7, <4>8, Found
      <4>10. app'.keys = e.keys /\ app'.objects = e.objects
        BY <1>4, <1>5, <1>6, <4>3 DEF SameCache, SameView
      <4>11. was = [key |-> was.key, uid |-> was.uid]
        BY <1>2, <4>8, Handled, SelectedType
      <4> QED BY <4>6, <4>8, <4>9, <4>10, <4>11
    <3> QED BY <3>1, <3>2
  <2> QED BY <1>8, <2>3, <2>4, <2>5
<1>10. CASE app.reselect # None /\ app.reselect.index # app.cursor
  <2>1. held = None /\ d.reselect = None
    BY <1>2, <1>5, <1>10 DEF Waiting
  <2>2. app'.reselect = None /\ held' = None
    BY <1>1, <1>4, <2>1
  <2>3. Waiting' /\ KeptByFilter
    BY <2>1, <2>2 DEF Waiting, KeptByFilter
  <2>4. chosen' = Selected(Ensure(app'))
    BY <1>1, <1>10 DEF Chosen
  <2> QED BY <1>8, <2>3, <2>4, ChosenNow
<1>11. CASE app.reselect # None /\ app.reselect.index = app.cursor
  <2>1. /\ ~app.synced /\ app.reselect.gen = app.gen /\ held = app.reselect.key
        /\ d.reselect = app.reselect
    BY <1>2, <1>5, <1>11 DEF Waiting
  <2>2. chosen' = Selected(Ensure(app'))
    BY <1>1, <1>11 DEF Chosen
  <2>3. CASE ~a.synced
    <3>1. app' = d /\ ~app'.synced /\ app'.gen = app.gen /\ held' = held
      BY <1>1, <1>4, <1>11, <2>1, <2>3 DEF SameWatch
    <3>2. Waiting'
      BY <1>5, <1>11, <2>1, <3>1 DEF Waiting
    <3>3. KeptByFilter
      BY <3>1 DEF KeptByFilter
    <3> QED BY <1>8, <2>2, <3>2, <3>3, ChosenNow
  <2>4. CASE a.synced
    <3>1. /\ UpToDate(app') /\ app'.reselect = None /\ SameCache(e, app')
          /\ app'.cursor = IF at = None THEN 1 ELSE at
      BY <1>4, <1>11, <2>1, <2>4
    <3>2. app'.synced /\ held' = None
      BY <1>1, <1>4, <2>4 DEF SameWatch
    <3>3. Waiting'
      BY <3>1, <3>2 DEF Waiting
    <3>4. KeptByFilter
      <4>1. Ensure(app') = app' /\ at = RowIndex(e, held) /\ app'.keys = e.keys
        BY <2>1, <3>1 DEF Ensure, SameCache
      <4>2. RowIndex(app', held) = RowIndex(e, held)
        BY <4>1 DEF RowIndex
      <4>3. SUFFICES ASSUME at # None PROVE Selected(app') # None /\ Selected(app').key = held
        BY <4>1, <4>2 DEF KeptByFilter
      <4>4. app'.cursor = at /\ at \in DOMAIN app'.keys /\ app'.keys[at] = held
        BY <1>7, <3>1, <4>1, <4>3, Found
      <4>5. app'.objects[held] # None
        <5>1. Present(e) /\ app'.objects = e.objects
          BY <1>4, <1>5, <1>6 DEF SameView
        <5> QED BY <4>1, <4>4, <5>1 DEF Present
      <4> HIDE DEF at
      <4> QED BY <1>7, <4>4, <4>5, SelectedAt
    <3> QED BY <1>8, <2>2, <3>3, <3>4, ChosenNow
  <2> QED BY <2>3, <2>4
<1> QED BY <1>9, <1>10, <1>11

\* After a poll, the same, and the cursor stays where it is unless it waits no more.
LEMMA PolledStep ==
  ASSUME TableInv, NEW a, Sound(a, Certain),
         SameCursor(app, a), SameWatch(app, a), a.workloads = app.workloads, Polled(a)
  PROVE  TableInv' /\ KeptByFilter
<1> DEFINE d == DropMoved(a)
<1>1. /\ app' = Settle(a, a, FALSE) /\ Chosen("poll") /\ Adopted({})
      /\ held' = held /\ events' = events + 1
  BY DEF Polled, Event
<1>2. RowsInv /\ Waiting /\ Certain \in SUBSET Ranks /\ adopted \subseteq Ranks /\ events \in Nat
  BY DEF TableInv, RowsInv, Certain
<1>3. /\ Sound(app', Certain) /\ SameView(a, app') /\ SameWatch(a, app')
      /\ d.reselect # None /\ ~a.synced => app' = d
      /\ d.reselect = None => app' = d
  BY <1>1, <1>2, Settled
<1>4. /\ SameWatch(a, d) /\ d.cursor = app.cursor
      /\ d.reselect = IF app.reselect # None
                           /\ (app.reselect.gen # app.gen \/ app.reselect.index # app.cursor)
                      THEN None ELSE app.reselect
  BY <1>2, Dropped DEF SameCursor, SameWatch
<1> HIDE DEF d
<1>5. app'.synced = app.synced /\ app'.gen = app.gen /\ app'.workloads = app.workloads
  BY <1>3 DEF SameWatch, SameView
<1>6. app' = d
  <2>1. app.reselect # None => ~a.synced
    BY <1>2 DEF Waiting, SameWatch
  <2> QED BY <1>3, <1>4, <2>1
<1>7. Waiting'
  BY <1>1, <1>2, <1>4, <1>5, <1>6 DEF Waiting
<1>8. KeptByFilter
  BY <1>5 DEF KeptByFilter
<1>9. chosen' = Selected(Ensure(app'))
  BY <1>1 DEF Chosen
<1>10. adopted' \subseteq Ranks /\ Sound(app', Certain')
  <2>1. Sound(app', IF app.workloads THEN Certain \ {} ELSE Certain)
    BY <1>3
  <2> QED BY <1>1, <1>2, <1>5, <2>1, CertainKept
<1>11. RowsInv'
  <2>1. events' \in Nat
    BY <1>1, <1>2
  <2> QED BY <1>10, <2>1 DEF RowsInv
<1>12. SelectionStays'
  BY <1>9, ChosenNow
<1> QED BY <1>7, <1>8, <1>11, <1>12 DEF TableInv

\* After a key, what is listed is right, and the pending row is dropped when the cursor
\* left it.
LEMMA PressedStep ==
  ASSUME RowsInv, NEW a, Sound(a, Certain), a.workloads = app.workloads, Pressed(a)
  PROVE  /\ RowsInv' /\ SelectionStays'
         /\ app' = DropMoved(a) /\ SameView(a, app') /\ SameWatch(a, app') /\ SameCache(a, app')
         /\ app'.cursor = a.cursor
         /\ app'.reselect =
              IF a.reselect # None /\ (a.reselect.gen # a.gen \/ a.reselect.index # a.cursor)
              THEN None ELSE a.reselect
<1>1. app' = DropMoved(a) /\ Chosen("key") /\ Adopted({}) /\ events' = events
  BY DEF Pressed
<1>2. Certain \in SUBSET Ranks /\ adopted \subseteq Ranks /\ events \in Nat
  BY DEF RowsInv, Certain
<1>3. /\ Sound(app', Certain)
      /\ SameView(a, app') /\ SameWatch(a, app') /\ SameCache(a, app')
      /\ app'.cursor = a.cursor
      /\ app'.reselect =
              IF a.reselect # None /\ (a.reselect.gen # a.gen \/ a.reselect.index # a.cursor)
              THEN None ELSE a.reselect
  BY <1>1, <1>2, Dropped
<1>4. adopted' \subseteq Ranks /\ Sound(app', Certain')
  <2>1. Sound(app', IF app.workloads THEN Certain \ {} ELSE Certain)
    BY <1>3
  <2>2. app'.workloads = app.workloads
    BY <1>3 DEF SameView
  <2> QED BY <1>1, <1>2, <2>1, <2>2, CertainKept
<1>5. chosen' = Selected(Ensure(app'))
  BY <1>1 DEF Chosen
<1> QED BY <1>1, <1>2, <1>3, <1>4, <1>5, ChosenNow DEF RowsInv

-----------------------------------------------------------------------------
(* The messages of a watch.                                                *)

\* An object as it comes is one.
LEMMA ObjectType ==
  ASSUME NEW shape \in Shapes, NEW old \in Objects \cup {None}, events \in Nat, app.now \in Nat
  PROVE  Object(shape, old) \in Objects /\ Object(shape, old) # None
<1>1. shape \in [owned : BOOLEAN, faulty : BOOLEAN, value : {0, 1}]
  BY TableAssumption
<1>2. old # None => old.uid \in Nat /\ old.born \in Nat
  BY DEF Objects
<1>3. Object(shape, old) \in Objects
  BY <1>1, <1>2 DEF Object, Objects
<1> QED BY <1>3, TableAssumption DEF Objects

\* What a row's handler works on.
LEMMA RowPut ==
  ASSUME NEW a \in Apps, NEW k \in Ranks, NEW o \in Objects \cup {None},
         NEW b, b = [a EXCEPT !.objects[k] = o]
  PROVE  /\ b \in Apps /\ b.objects = [a.objects EXCEPT ![k] = o]
         /\ b.printed = a.printed /\ b.load = a.load /\ b.now = a.now
         /\ b.workloads = a.workloads /\ b.all = a.all /\ b.faults = a.faults
         /\ b.filter = a.filter /\ b.sort = a.sort
         /\ SameWatch(a, b) /\ SameCursor(a, b) /\ SameCache(a, b)
<1>1. b.objects = [a.objects EXCEPT ![k] = o]
  BY DEF Apps
<1>2. b \in Apps
  BY DEF Apps
<1>3. /\ b.printed = a.printed /\ b.load = a.load /\ b.now = a.now
      /\ b.workloads = a.workloads /\ b.all = a.all /\ b.faults = a.faults
      /\ b.filter = a.filter /\ b.sort = a.sort
  BY DEF Apps
<1>4. SameWatch(a, b) /\ SameCursor(a, b) /\ SameCache(a, b)
  BY DEF Apps, SameWatch, SameCursor, SameCache
<1> QED BY <1>1, <1>2, <1>3, <1>4

\* A row's entries go (src/src/app/rows.rs: invalidate_row, invalidate_row_contents).
LEMMA RowDropped ==
  ASSUME NEW a \in Apps, NEW k \in Ranks, NEW b,
         b = InvalidateRow(a, k) \/ b = InvalidateContents(a, k)
  PROVE  /\ b \in Apps /\ SameView(a, b) /\ SameWatch(a, b) /\ SameCursor(a, b)
         /\ b.keys = a.keys /\ b.timed = a.timed /\ b.second = a.second
         /\ b.cells = [a.cells EXCEPT ![k] = None] /\ b.sorts = [a.sorts EXCEPT ![k] = None]
         /\ b = InvalidateRow(a, k) => b.dirty
         /\ b = InvalidateContents(a, k) =>
              (b.dirty <=> a.dirty \/ a.filter # "none" \/ a.faults \/ a.sort # "none")
<1>1. b \in Apps
  <2>1. /\ [a.cells EXCEPT ![k] = None] \in [Ranks -> Texts \cup {None}]
        /\ [a.sorts EXCEPT ![k] = None] \in [Ranks -> Texts \cup {None}]
    BY DEF Apps
  <2>2. CASE b = InvalidateRow(a, k)
    BY <2>1, <2>2 DEF Apps, InvalidateRow
  <2>3. CASE b = InvalidateContents(a, k)
    <3>1. (a.dirty \/ a.filter # "none" \/ a.faults \/ a.sort # "none") \in BOOLEAN
      OBVIOUS
    <3> QED BY <2>1, <2>3, <3>1 DEF Apps, InvalidateContents
  <2> QED BY <2>2, <2>3
<1>2. SameView(a, b) /\ SameWatch(a, b) /\ SameCursor(a, b)
  BY DEF Apps, InvalidateRow, InvalidateContents, SameView, SameWatch, SameCursor
<1>3. /\ b.keys = a.keys /\ b.timed = a.timed /\ b.second = a.second
      /\ b.cells = [a.cells EXCEPT ![k] = None] /\ b.sorts = [a.sorts EXCEPT ![k] = None]
  BY DEF Apps, InvalidateRow, InvalidateContents
<1>4. b = InvalidateRow(a, k) => b.dirty
  BY DEF Apps, InvalidateRow
<1>5. b = InvalidateContents(a, k) =>
        (b.dirty <=> a.dirty \/ a.filter # "none" \/ a.faults \/ a.sort # "none")
  BY DEF Apps, InvalidateContents
<1> QED BY <1>1, <1>2, <1>3, <1>4, <1>5

\* An object comes or changes (src/src/app/lifecycle.rs: apply_watched).
LEMMA AppliedStep ==
  ASSUME TableInv, NEW k \in Ranks, NEW shape \in Shapes, Applied(k, shape)
  PROVE  TableInv' /\ KeptByFilter
<1> DEFINE a == Before
           o == Object(shape, a.objects[k])
           b == [a EXCEPT !.objects[k] = o]
           after == IF a.buffered THEN a
                    ELSE IF a.objects[k] = None THEN InvalidateRow(b, k)
                    ELSE InvalidateContents(b, k)
           S == IF a.objects[k] # None /\ ~a.buffered THEN {k} ELSE {}
           T == IF app.workloads THEN Certain \ S ELSE Certain
<1>1. Event /\ Watched(after, S)
  BY DEF Applied
<1>2. RowsInv /\ Certain \in SUBSET Ranks /\ adopted \subseteq Ranks /\ events \in Nat
  BY DEF TableInv, RowsInv, Certain
<1>3. /\ Sound(a, Certain) /\ a \in Apps
      /\ SameView(app, a) /\ SameWatch(app, a) /\ SameCursor(app, a)
  BY <1>2, Handled
<1>4. o \in Objects /\ o # None
  <2>1. a.objects[k] \in Objects \cup {None} /\ app.now \in Nat
    BY <1>3 DEF Apps, SameView
  <2> QED BY <1>2, <2>1, ObjectType
<1> HIDE DEF a, o
<1>5. /\ b \in Apps /\ b.objects = [a.objects EXCEPT ![k] = o]
      /\ b.printed = a.printed /\ b.load = a.load /\ b.now = a.now
      /\ b.workloads = a.workloads /\ b.all = a.all /\ b.faults = a.faults
      /\ b.filter = a.filter /\ b.sort = a.sort
      /\ SameWatch(a, b) /\ SameCursor(a, b) /\ SameCache(a, b)
  BY <1>3, <1>4, RowPut
<1> HIDE DEF b
<1>6. /\ Sound(after, T) /\ SameWatch(a, after) /\ SameCursor(a, after)
      /\ after.workloads = a.workloads /\ after.faults = a.faults
  <2>0. T \subseteq Certain /\ a.objects \in [Ranks -> Objects \cup {None}]
        /\ a.cells \in [Ranks -> Texts \cup {None}] /\ a.sorts \in [Ranks -> Texts \cup {None}]
    BY <1>3 DEF Apps
  <2>1. CASE a.buffered
    <3>1. after = a /\ T = Certain
      BY <2>1
    <3> QED BY <1>3, <3>1 DEF SameWatch, SameCursor
  <2>2. CASE ~a.buffered /\ a.objects[k] = None
    <3> DEFINE c == InvalidateRow(b, k)
    <3>1. after = c
      BY <2>2
    <3> HIDE DEF after, c, T
    <3>2. /\ c \in Apps /\ SameView(b, c) /\ SameWatch(b, c) /\ SameCursor(b, c)
          /\ c.second = b.second /\ c.dirty
          /\ c.cells = [b.cells EXCEPT ![k] = None] /\ c.sorts = [b.sorts EXCEPT ![k] = None]
      BY <1>5, RowDropped DEF c
    <3>3. RowChanges(a, c, k)
      BY <1>5, <2>0, <3>2 DEF SameView, SameCache, RowChanges
    <3>5. Cached(c)
      BY <1>3, <3>3, OtherRows DEF Sound
    <3>6. c.second <= c.now
      BY <1>3, <1>5, <3>2 DEF SameView, SameCache, Sound, Clocked
    <3>7. Sound(c, T)
      BY <3>2, <3>5, <3>6, Stale
    <3> QED BY <1>5, <3>1, <3>2, <3>7 DEF SameView, SameWatch, SameCursor
  <2>3. CASE ~a.buffered /\ a.objects[k] # None
    <3> DEFINE c == InvalidateContents(b, k)
    <3>1. after = c /\ S = {k}
      BY <2>3
    <3>2. T = IF a.workloads THEN Certain \ {k} ELSE Certain
      BY <1>3, <3>1 DEF SameView
    <3> HIDE DEF after, c, T
    <3>3. /\ c \in Apps /\ SameView(b, c) /\ SameWatch(b, c) /\ SameCursor(b, c)
          /\ c.keys = b.keys /\ c.timed = b.timed /\ c.second = b.second
          /\ c.cells = [b.cells EXCEPT ![k] = None] /\ c.sorts = [b.sorts EXCEPT ![k] = None]
          /\ c.dirty <=> b.dirty \/ b.filter # "none" \/ b.faults \/ b.sort # "none"
      BY <1>5, RowDropped DEF c
    <3>4. RowChanges(a, c, k)
      BY <1>5, <2>0, <3>3 DEF SameView, SameCache, RowChanges
    <3>5. c.objects[k] # None
      BY <1>4, <1>5, <2>0, <3>3 DEF SameView
    <3>6. KeptUnlessSorted(a, c)
      BY <1>5, <3>3 DEF SameView, SameCache, KeptUnlessSorted
    <3>7. Sound(c, IF a.workloads THEN Certain \ {k} ELSE Certain)
      BY <1>2, <1>3, <2>3, <3>3, <3>4, <3>5, <3>6, ContentsChanged
    <3> QED BY <1>5, <3>1, <3>2, <3>3, <3>6, <3>7 DEF SameWatch, SameCursor, KeptUnlessSorted
  <2> QED BY <2>1, <2>2, <2>3
<1>7. SameCursor(app, after) /\ after.gen = app.gen /\ after.workloads = app.workloads
      /\ after.faults = app.faults
  BY <1>3, <1>6 DEF SameCursor, SameWatch, SameView
<1>8. S \in SUBSET Ranks
  OBVIOUS
<1> HIDE DEF after, S
<1>9. adopted' \subseteq Ranks /\ Sound(app', Certain') /\ Waiting' /\ SelectionStays' /\ KeptByFilter
  BY <1>1, <1>6, <1>7, <1>8, WatchedStep
<1>10. events' \in Nat
  BY <1>1, <1>2 DEF Event
<1> QED BY <1>9, <1>10 DEF TableInv, RowsInv

\* An object goes (src/src/app/lifecycle.rs: delete_watched).
LEMMA DeletedStep ==
  ASSUME TableInv, NEW k \in Ranks, Deleted(k)
  PROVE  TableInv' /\ KeptByFilter
<1> DEFINE a == Before
           b == [a EXCEPT !.objects[k] = None, !.printed[k] = 0]
           c == InvalidateRow(b, k)
           T == IF app.workloads THEN Certain \ {} ELSE Certain
<1>1. Event /\ Watched(c, {})
  BY DEF Deleted
<1>2. RowsInv /\ Certain \in SUBSET Ranks /\ adopted \subseteq Ranks /\ events \in Nat
  BY DEF TableInv, RowsInv, Certain
<1>3. /\ Sound(a, Certain) /\ a \in Apps
      /\ SameView(app, a) /\ SameWatch(app, a) /\ SameCursor(app, a)
  BY <1>2, Handled
<1> HIDE DEF a
<1>4. /\ b \in Apps /\ b.objects = [a.objects EXCEPT ![k] = None]
      /\ b.printed = [a.printed EXCEPT ![k] = 0]
  BY <1>3 DEF Apps
<1>5. /\ b.now = a.now /\ b.workloads = a.workloads /\ b.faults = a.faults
      /\ SameWatch(a, b) /\ SameCursor(a, b) /\ SameCache(a, b)
  BY <1>3 DEF Apps, SameWatch, SameCursor, SameCache
<1> HIDE DEF b
<1>6. /\ c \in Apps /\ SameView(b, c) /\ SameWatch(b, c) /\ SameCursor(b, c)
      /\ c.second = b.second /\ c.dirty
      /\ c.cells = [b.cells EXCEPT ![k] = None] /\ c.sorts = [b.sorts EXCEPT ![k] = None]
  BY <1>4, RowDropped
<1> HIDE DEF c, T
<1>7. /\ a.objects \in [Ranks -> Objects \cup {None}] /\ a.printed \in [Ranks -> {0, 1}]
      /\ a.cells \in [Ranks -> Texts \cup {None}] /\ a.sorts \in [Ranks -> Texts \cup {None}]
  BY <1>3 DEF Apps
<1>8. RowChanges(a, c, k)
  BY <1>4, <1>5, <1>6, <1>7 DEF SameView, SameCache, RowChanges
<1>10. Cached(c)
  BY <1>3, <1>8, OtherRows DEF Sound
<1>11. c.second <= c.now
  BY <1>3, <1>5, <1>6 DEF SameView, SameCache, Sound, Clocked
<1>12. Sound(c, T)
  BY <1>6, <1>10, <1>11, Stale
<1>13. SameCursor(app, c) /\ c.gen = app.gen /\ c.workloads = app.workloads /\ c.faults = app.faults
  BY <1>3, <1>5, <1>6 DEF SameCursor, SameWatch, SameView
<1>14. adopted' \subseteq Ranks /\ Sound(app', Certain') /\ Waiting' /\ SelectionStays' /\ KeptByFilter
  BY <1>1, <1>12, <1>13, WatchedStep DEF T
<1>15. events' \in Nat
  BY <1>1, <1>2 DEF Event
<1> QED BY <1>14, <1>15 DEF TableInv, RowsInv

\* A relist starts (src/src/app/lifecycle.rs: Msg::Reset).
LEMMA ResetStep ==
  ASSUME TableInv, Reset
  PROVE  TableInv' /\ KeptByFilter
<1> DEFINE b == Before
           a == [b EXCEPT !.synced = FALSE]
           after == IF \A k \in Ranks : a.objects[k] = None THEN Clear(a)
                    ELSE [a EXCEPT !.buffered = TRUE]
<1>1. Event /\ Watched(after, {})
  BY DEF Reset
<1>2. RowsInv /\ Certain \in SUBSET Ranks /\ events \in Nat
  BY DEF TableInv, RowsInv, Certain
<1>3. /\ Sound(b, Certain) /\ b \in Apps
      /\ SameView(app, b) /\ SameWatch(app, b) /\ SameCursor(app, b)
  BY <1>2, Handled
<1> HIDE DEF b
<1>4. a \in Apps /\ SameView(b, a) /\ SameCache(b, a) /\ SameCursor(b, a) /\ a.gen = b.gen
  BY <1>3 DEF Apps, SameView, SameCache, SameCursor
<1>5. Sound(a, Certain)
  BY <1>2, <1>3, <1>4, SameList
<1> HIDE DEF a
<1>6. Sound(after, Certain) /\ SameView(a, after) /\ SameCursor(a, after) /\ after.gen = a.gen
  <2>1. CASE \A k \in Ranks : a.objects[k] = None
    <3> DEFINE c == Clear(a)
    <3>1. after = c
      BY <2>1
    <3> HIDE DEF after
    <3>2. a.second <= a.now
      BY <1>5 DEF Sound, Clocked
    <3>3. Sound(c, Certain) /\ SameView(a, c) /\ SameWatch(a, c) /\ SameCursor(a, c)
      BY <1>4, <3>2, Cleared
    <3> QED BY <3>1, <3>3 DEF SameWatch
  <2>2. CASE ~\A k \in Ranks : a.objects[k] = None
    <3> DEFINE c == [a EXCEPT !.buffered = TRUE]
    <3>1. after = c
      BY <2>2
    <3> HIDE DEF after
    <3>2. c \in Apps /\ SameView(a, c) /\ SameCache(a, c) /\ SameCursor(a, c) /\ c.gen = a.gen
      BY <1>4 DEF Apps, SameView, SameCache, SameCursor
    <3> HIDE DEF c
    <3>3. Sound(c, Certain)
      BY <1>2, <1>4, <1>5, <3>2, SameList
    <3> QED BY <3>1, <3>2, <3>3
  <2> QED BY <2>1, <2>2
<1>7. SameCursor(app, after) /\ after.gen = app.gen /\ after.workloads = app.workloads
      /\ after.faults = app.faults
  BY <1>3, <1>4, <1>6 DEF SameCursor, SameWatch, SameView
<1>8. Sound(after, IF app.workloads THEN Certain \ {} ELSE Certain)
  BY <1>6
<1> HIDE DEF after
<1>9. adopted' \subseteq Ranks /\ Sound(app', Certain') /\ Waiting' /\ SelectionStays' /\ KeptByFilter
  <2>1. {} \in SUBSET Ranks
    OBVIOUS
  <2> QED BY <1>1, <1>7, <1>8, <2>1, WatchedStep
<1>10. events' \in Nat
  BY <1>1, <1>2 DEF Event
<1> QED BY <1>9, <1>10 DEF TableInv, RowsInv

\* A relist ends, and what it did not bring is gone (src/src/app/lifecycle.rs: Msg::Synced).
LEMMA SyncedStep ==
  ASSUME TableInv, Synced
  PROVE  TableInv' /\ KeptByFilter
<1> DEFINE b == Before
<1>2. RowsInv /\ Certain \in SUBSET Ranks /\ events \in Nat
  BY DEF TableInv, RowsInv, Certain
<1>3. /\ Sound(b, Certain) /\ b \in Apps
      /\ SameView(app, b) /\ SameWatch(app, b) /\ SameCursor(app, b)
  BY <1>2, Handled
<1>4. \E a : Watched(a, {}) /\ Sound(a, Certain) /\ SameCursor(b, a) /\ a.gen = b.gen
             /\ a.workloads = b.workloads /\ a.faults = b.faults
  <2>1. CASE app.buffered
    <3>1. PICK S \in SUBSET Ranks, shape \in Shapes :
            \E N \in {{}} \cup {{k} : k \in Ranks \ S} :
              Watched(Clear([Before EXCEPT !.synced = TRUE, !.buffered = FALSE,
                !.objects = [k \in Ranks |-> IF k \in S THEN @[k]
                                             ELSE IF k \in N THEN Object(shape, None)
                                             ELSE None]]), {})
      BY <2>1 DEF Synced
    <3>2. PICK N \in {{}} \cup {{k} : k \in Ranks \ S} :
              Watched(Clear([Before EXCEPT !.synced = TRUE, !.buffered = FALSE,
                !.objects = [k \in Ranks |-> IF k \in S THEN @[k]
                                             ELSE IF k \in N THEN Object(shape, None)
                                             ELSE None]]), {})
      BY <3>1
    <3> DEFINE objects == [k \in Ranks |-> IF k \in S THEN b.objects[k]
                                           ELSE IF k \in N THEN Object(shape, None)
                                           ELSE None]
               c == [b EXCEPT !.synced = TRUE, !.buffered = FALSE, !.objects = objects]
               a == Clear(c)
    <3>3. Watched(a, {})
      BY <3>2, <1>3 DEF Apps
    <3>4. objects \in [Ranks -> Objects \cup {None}]
      <4>1. b.objects \in [Ranks -> Objects \cup {None}] /\ app.now \in Nat
        BY <1>3 DEF Apps, SameView
      <4>2. Object(shape, None) \in Objects
        BY <1>2, <4>1, ObjectType
      <4> QED BY <4>1, <4>2
    <3> HIDE DEF objects, b
    <3>5. /\ c \in Apps /\ c.second = b.second /\ c.now = b.now /\ SameCursor(b, c)
          /\ c.gen = b.gen /\ c.workloads = b.workloads /\ c.faults = b.faults
      BY <1>3, <3>4 DEF Apps, SameCursor
    <3> HIDE DEF c
    <3>6. c.second <= c.now
      BY <1>3, <3>5 DEF Sound, Clocked
    <3>7. Sound(a, Certain) /\ SameView(c, a) /\ SameWatch(c, a) /\ SameCursor(c, a)
      BY <3>5, <3>6, Cleared
    <3> QED BY <3>3, <3>5, <3>7 DEF SameView, SameWatch, SameCursor
  <2>2. CASE ~app.buffered
    <3> DEFINE c == [b EXCEPT !.synced = TRUE]
    <3>1. IF app.workloads THEN Watched(Clear(c), {}) ELSE Watched(c, {})
      BY <2>2 DEF Synced
    <3> HIDE DEF b
    <3>2. c \in Apps /\ SameView(b, c) /\ SameCache(b, c) /\ SameCursor(b, c) /\ c.gen = b.gen
      BY <1>3 DEF Apps, SameView, SameCache, SameCursor
    <3> HIDE DEF c
    <3>3. Sound(c, Certain)
      BY <1>2, <1>3, <3>2, SameList
    <3>4. CASE ~app.workloads
      BY <3>1, <3>2, <3>3, <3>4 DEF SameView
    <3>5. CASE app.workloads
      <4> DEFINE a == Clear(c)
      <4>1. Watched(a, {})
        BY <3>1, <3>5
      <4>2. c.second <= c.now
        BY <3>3 DEF Sound, Clocked
      <4>3. Sound(a, Certain) /\ SameView(c, a) /\ SameWatch(c, a) /\ SameCursor(c, a)
        BY <3>2, <4>2, Cleared
      <4> QED BY <3>2, <4>1, <4>3 DEF SameView, SameWatch, SameCursor
    <3> QED BY <3>4, <3>5
  <2> QED BY <2>1, <2>2
<1>5. PICK a : Watched(a, {}) /\ Sound(a, Certain) /\ SameCursor(b, a) /\ a.gen = b.gen
               /\ a.workloads = b.workloads /\ a.faults = b.faults
  BY <1>4
<1> HIDE DEF b
<1>7. SameCursor(app, a) /\ a.gen = app.gen /\ a.workloads = app.workloads
      /\ a.faults = app.faults
  BY <1>3, <1>5 DEF SameCursor, SameWatch, SameView
<1>8. Sound(a, IF app.workloads THEN Certain \ {} ELSE Certain) /\ {} \in SUBSET Ranks
  BY <1>5
<1>9. adopted' \subseteq Ranks /\ Sound(app', Certain') /\ Waiting' /\ SelectionStays' /\ KeptByFilter
  BY <1>5, <1>7, <1>8, WatchedStep
<1>10. events' \in Nat
  <2>1. Event
    BY DEF Synced
  <2> QED BY <1>2, <2>1 DEF Event
<1> QED BY <1>9, <1>10 DEF TableInv, RowsInv

-----------------------------------------------------------------------------
(* The polls and the clock.                                                *)

\* Metrics arrive (src/src/app/lifecycle.rs: Msg::Metrics, Msg::NodePods).
LEMMA MetricsStep ==
  ASSUME TableInv, NEW k \in Ranks, Metrics(k)
  PROVE  TableInv' /\ KeptByFilter
<1> DEFINE a == [app EXCEPT !.load[k] = 1 - @]
           after == IF app.sort = "load" \/ app.filter = "load" THEN Invalidate(a) ELSE a
<1>1. Polled(after)
  BY DEF Metrics
<1>2. Sound(app, Certain) /\ app \in Apps /\ Certain \in SUBSET Ranks
  BY DEF TableInv, RowsInv, Certain, Sound
<1>3. a.load = [app.load EXCEPT ![k] = 1 - @] /\ a.load \in [Ranks -> {0, 1}]
  BY <1>2 DEF Apps
<1>4. a \in Apps /\ SameWatch(app, a) /\ SameCursor(app, a) /\ SameCache(app, a)
      /\ a.objects = app.objects /\ a.printed = app.printed /\ a.now = app.now
      /\ a.workloads = app.workloads /\ a.all = app.all /\ a.faults = app.faults
      /\ a.filter = app.filter /\ a.sort = app.sort
  <2>1. a = [app EXCEPT !.load = [app.load EXCEPT ![k] = 1 - @]]
    BY <1>2 DEF Apps
  <2>2. [app.load EXCEPT ![k] = 1 - @] \in [Ranks -> {0, 1}]
    BY <1>3, <2>1, <1>2 DEF Apps
  <2> QED BY <1>2, <2>1, <2>2 DEF Apps, SameWatch, SameCursor, SameCache
<1> HIDE DEF a
<1>5. Sound(after, Certain) /\ SameCursor(app, after) /\ SameWatch(app, after)
      /\ after.workloads = app.workloads
  <2>1. CASE app.sort = "load" \/ app.filter = "load"
    <3> DEFINE c == Invalidate(a)
    <3>1. after = c
      BY <2>1
    <3> HIDE DEF after
    <3>2. c \in Apps /\ SameView(a, c) /\ SameWatch(a, c) /\ SameCursor(a, c)
          /\ c.dirty /\ c.second = a.second /\ c.cells = a.cells /\ c.sorts = a.sorts
      BY <1>4 DEF Apps, Invalidate, SameView, SameWatch, SameCursor
    <3> HIDE DEF c
    <3>3. \A j \in Ranks : Cell(c, j) = Cell(app, j) /\ c.objects = app.objects
      BY <1>4, <3>2 DEF Cell, SameView
    <3>4. Cached(c)
      BY <1>2, <1>4, <3>2, <3>3 DEF Sound, Cached, Holds, SameCache
    <3>5. c.second <= c.now
      BY <1>2, <1>4, <3>2 DEF Sound, Clocked, SameView, SameCache
    <3>6. Sound(c, Certain)
      BY <3>2, <3>4, <3>5, Stale
    <3> QED BY <1>4, <3>1, <3>2, <3>6 DEF SameView, SameWatch, SameCursor
  <2>2. CASE ~(app.sort = "load" \/ app.filter = "load")
    <3>1. after = a
      BY <2>2
    <3>2. app.now <= a.now
      BY <1>2, <1>4 DEF Apps
    <3>3. Sound(a, Certain)
      BY <1>2, <1>4, <2>2, <3>2, MeasureChanged DEF SameCache
    <3> QED BY <1>4, <3>1, <3>3
  <2> QED BY <2>1, <2>2
<1> HIDE DEF after
<1> QED BY <1>1, <1>5, PolledStep

\* The server's columns arrive (src/src/app/lifecycle.rs: Msg::ServerTable).
LEMMA ServerTableStep ==
  ASSUME TableInv, NEW k \in Ranks, ServerTable(k)
  PROVE  TableInv' /\ KeptByFilter
<1> DEFINE a == [app EXCEPT !.printed[k] = 1 - @]
<1>1. /\ ~app.workloads /\ app.objects[k] # None
      /\ Polled(InvalidateContents(a, k)) \/ Polled(Clear(a))
  BY DEF ServerTable
<1>2. Sound(app, Certain) /\ app \in Apps /\ Certain \in SUBSET Ranks
  BY DEF TableInv, RowsInv, Certain, Sound
<1>3. a.printed = [app.printed EXCEPT ![k] = 1 - @] /\ a.printed \in [Ranks -> {0, 1}]
  BY <1>2 DEF Apps
<1>4. a \in Apps /\ SameWatch(app, a) /\ SameCursor(app, a) /\ SameCache(app, a)
      /\ a.objects = app.objects /\ a.load = app.load /\ a.now = app.now
      /\ a.workloads = app.workloads /\ a.all = app.all /\ a.faults = app.faults
      /\ a.filter = app.filter /\ a.sort = app.sort
  <2>1. a = [app EXCEPT !.printed = [app.printed EXCEPT ![k] = 1 - @]]
    BY <1>2 DEF Apps
  <2>2. [app.printed EXCEPT ![k] = 1 - @] \in [Ranks -> {0, 1}]
    BY <1>3, <2>1, <1>2 DEF Apps
  <2> QED BY <1>2, <2>1, <2>2 DEF Apps, SameWatch, SameCursor, SameCache
<1> HIDE DEF a
<1>5. CASE Polled(InvalidateContents(a, k))
  <2> DEFINE c == InvalidateContents(a, k)
  <2>1. /\ c \in Apps /\ SameView(a, c) /\ SameWatch(a, c) /\ SameCursor(a, c)
        /\ c.keys = a.keys /\ c.timed = a.timed /\ c.second = a.second
        /\ c.cells = [a.cells EXCEPT ![k] = None] /\ c.sorts = [a.sorts EXCEPT ![k] = None]
        /\ c.dirty <=> a.dirty \/ a.filter # "none" \/ a.faults \/ a.sort # "none"
    BY <1>4, RowDropped
  <2>2. Polled(c)
    BY <1>5
  <2> HIDE DEF c
  <2>3. app.cells \in [Ranks -> Texts \cup {None}] /\ app.sorts \in [Ranks -> Texts \cup {None}]
        /\ app.printed \in [Ranks -> {0, 1}]
    BY <1>2 DEF Apps
  <2>4. RowChanges(app, c, k)
    BY <1>3, <1>4, <2>1, <2>3 DEF RowChanges, SameView, SameCache
  <2>5. KeptUnlessSorted(app, c)
    BY <1>4, <2>1 DEF KeptUnlessSorted, SameView, SameCache
  <2>6. c.objects[k] # None
    BY <1>1, <1>4, <2>1 DEF SameView
  <2>7. Sound(c, IF app.workloads THEN Certain \ {k} ELSE Certain)
    BY <1>1, <1>2, <2>1, <2>4, <2>5, <2>6, ContentsChanged
  <2>8. Sound(c, Certain) /\ SameCursor(app, c) /\ SameWatch(app, c) /\ c.workloads = app.workloads
    BY <1>1, <1>4, <2>1, <2>7 DEF SameCursor, SameWatch, SameView
  <2> QED BY <2>2, <2>8, PolledStep
<1>6. CASE Polled(Clear(a))
  <2> DEFINE c == Clear(a)
  <2>1. Polled(c)
    BY <1>6
  <2>2. a.second <= a.now
    BY <1>2, <1>4 DEF Sound, Clocked, SameCache
  <2>3. Sound(c, Certain) /\ SameView(a, c) /\ SameWatch(a, c) /\ SameCursor(a, c)
    BY <1>4, <2>2, Cleared
  <2> HIDE DEF c
  <2>4. SameCursor(app, c) /\ SameWatch(app, c) /\ c.workloads = app.workloads
    BY <1>4, <2>3 DEF SameCursor, SameWatch, SameView
  <2> QED BY <2>1, <2>3, <2>4, PolledStep
<1> QED BY <1>1, <1>5, <1>6

\* A second passes (src/src/app/rows.rs: ensure_rows_cache).
LEMMA TickStep ==
  ASSUME TableInv, Tick
  PROVE  TableInv' /\ KeptByFilter
<1>1. /\ app.now = 0 /\ app' = [app EXCEPT !.now = 1] /\ Chosen("poll") /\ Adopted({})
      /\ held' = held /\ events' = events + 1
  BY DEF Tick, Event
<1>2. /\ Sound(app, Certain) /\ app \in Apps /\ Certain \in SUBSET Ranks /\ adopted \subseteq Ranks
      /\ events \in Nat /\ Waiting /\ Clocked(app)
  BY DEF TableInv, RowsInv, Certain, Sound
<1>3. /\ app' \in Apps /\ SameWatch(app, app') /\ SameCursor(app, app') /\ SameCache(app, app')
      /\ app'.objects = app.objects /\ app'.printed = app.printed /\ app'.load = app.load
      /\ app'.workloads = app.workloads /\ app'.all = app.all /\ app'.faults = app.faults
      /\ app'.filter = app.filter /\ app'.sort = app.sort /\ app'.now = 1
  BY <1>1, <1>2 DEF Apps, SameWatch, SameCursor, SameCache
<1>4. Sound(app', Certain)
  <2>1. CASE app.timed /\ ~app.dirty
    <3>1. ~UpToDate(app')
      <4>1. app.second \in Nat /\ app.second <= app.now
        BY <1>2 DEF Apps, Clocked
      <4> QED BY <1>1, <1>3, <2>1, <4>1 DEF UpToDate, SameCache
    <3>2. \A k \in Ranks : Cell(app', k) = Cell(app, k)
      BY <1>3 DEF Cell
    <3>3. Cached(app')
      BY <1>2, <1>3, <3>2 DEF Sound, Cached, Holds, SameCache
    <3>4. Clocked(app')
      <4>1. app.second \in Nat /\ app.now = 0
        BY <1>1, <1>2 DEF Apps
      <4> QED BY <1>2, <1>3, <4>1 DEF Clocked, SameCache
    <3> QED BY <1>3, <3>1, <3>3, <3>4 DEF Sound, Listed
  <2>2. CASE app.dirty
    <3>1. \A k \in Ranks : Cell(app', k) = Cell(app, k)
      BY <1>3 DEF Cell
    <3>2. Cached(app')
      BY <1>2, <1>3, <3>1 DEF Sound, Cached, Holds, SameCache
    <3>3. app'.second <= app'.now
      <4>1. app.second \in Nat /\ app.second <= app.now
        BY <1>2 DEF Apps, Clocked
      <4> QED BY <1>1, <1>3, <4>1 DEF SameCache
    <3> QED BY <1>3, <2>2, <3>2, <3>3, Stale DEF SameCache
  <2>3. CASE ~app.timed
    <3>1. app.now <= app'.now
      BY <1>1, <1>3
    <3> QED BY <1>2, <1>3, <2>3, <3>1, MeasureChanged DEF SameCache
  <2> QED BY <2>1, <2>2, <2>3
<1>5. adopted' \subseteq Ranks /\ Sound(app', Certain')
  <2>1. Sound(app', IF app.workloads THEN Certain \ {} ELSE Certain)
    BY <1>4
  <2> QED BY <1>1, <1>2, <1>3, <2>1, CertainKept
<1>6. Waiting'
  <2>1. app.reselect # None /\ app.reselect.index # app.cursor => UpToDate(app')
    <3> SUFFICES ASSUME app.reselect # None, app.reselect.index # app.cursor PROVE UpToDate(app')
      OBVIOUS
    <3>1. UpToDate(app) /\ 0 < Len(app.keys)
      BY <1>2 DEF Waiting
    <3>2. app.keys # <<>>
      BY <3>1
    <3>3. ~app.timed
      BY <1>1, <1>2, <3>1, <3>2 DEF Clocked, UpToDate
    <3> QED BY <1>3, <3>1, <3>3 DEF UpToDate, SameCache
  <2> QED BY <1>1, <1>2, <1>3, <2>1 DEF Waiting, SameWatch, SameCursor, SameCache
<1>7. SelectionStays'
  <2>1. chosen' = Selected(Ensure(app'))
    BY <1>1 DEF Chosen
  <2> QED BY <2>1, ChosenNow
<1>8. KeptByFilter
  BY <1>3 DEF KeptByFilter, SameWatch
<1>9. events' \in Nat
  BY <1>1, <1>2
<1> QED BY <1>5, <1>6, <1>7, <1>8, <1>9 DEF TableInv, RowsInv

-----------------------------------------------------------------------------
(* The keys.                                                               *)

\* The cursor moves onto a row that is listed (src/src/app/rows.rs: move_selection).
LEMMA MoveToStep ==
  ASSUME TableInv, NEW i, MoveTo(i)
  PROVE  TableInv' /\ KeptByFilter
<1> DEFINE e == Ensure(app)
           b == [e EXCEPT !.cursor = i]
           w == e.reselect
<1>1. /\ i \in DOMAIN e.keys /\ Pressed(b)
      /\ held' = IF i = app.cursor THEN held ELSE None
  BY DEF MoveTo
<1>2. RowsInv /\ Sound(app, Certain) /\ Certain \in SUBSET Ranks /\ Waiting
  BY DEF TableInv, RowsInv, Certain
<1>3. /\ Sound(e, Certain) /\ SameView(app, e) /\ SameWatch(app, e) /\ SameCursor(app, e)
      /\ UpToDate(app) => e = app
  BY <1>2, Ensured
<1> HIDE DEF e
<1>4. e \in Apps
  BY <1>3 DEF Sound
<1>5. b = PutAt(e, i, w) /\ w \in Waits \cup {None}
  BY <1>4, PutOne
<1>6. i \in Nat /\ i <= Len(e.keys)
  <2>1. e.keys \in Seq(Ranks)
    BY <1>4 DEF Apps
  <2> QED BY <1>1, <2>1, LenProperties
<1> HIDE DEF b, w
<1>7. /\ Sound(b, Certain) /\ SameView(e, b) /\ SameWatch(e, b) /\ b.cursor = i /\ b.reselect = w
  BY <1>2, <1>3, <1>5, <1>6, Put
<1>8. b.workloads = app.workloads
  BY <1>3, <1>7 DEF SameView
<1>9. /\ RowsInv' /\ SelectionStays' /\ SameWatch(b, app') /\ app'.cursor = b.cursor
      /\ app'.reselect =
              IF b.reselect # None /\ (b.reselect.gen # b.gen \/ b.reselect.index # b.cursor)
              THEN None ELSE b.reselect
  BY <1>1, <1>2, <1>7, <1>8, PressedStep
<1>10. /\ app'.cursor = i /\ app'.synced = app.synced /\ app'.gen = app.gen
       /\ app'.reselect =
              IF app.reselect # None /\ (app.reselect.gen # app.gen \/ app.reselect.index # i)
              THEN None ELSE app.reselect
  BY <1>3, <1>7, <1>9 DEF SameWatch, SameCursor, w
<1>11. Waiting'
  <2>1. CASE app.reselect = None
    BY <1>1, <1>2, <1>10, <2>1 DEF Waiting
  <2>2. CASE app.reselect # None /\ app.reselect.index = app.cursor
    BY <1>1, <1>2, <1>10, <2>2 DEF Waiting
  <2>3. CASE app.reselect # None /\ app.reselect.index # app.cursor
    <3>1. UpToDate(app) /\ Len(app.keys) < app.reselect.index /\ held = None
      BY <1>2, <2>3 DEF Waiting
    <3>2. app.reselect \in Waits /\ Len(app.keys) \in Nat
      BY <1>2, <2>3, LenProperties DEF Sound, Apps
    <3>3. i # app.reselect.index
      BY <1>3, <1>6, <3>1, <3>2 DEF Waits
    <3>4. app'.reselect = None /\ held' = None
      BY <1>1, <1>10, <2>3, <3>1, <3>3
    <3> QED BY <3>4 DEF Waiting
  <2> QED BY <2>1, <2>2, <2>3
<1>12. KeptByFilter
  BY <1>10 DEF KeptByFilter
<1> QED BY <1>9, <1>11, <1>12 DEF TableInv

\* What a filter returns to: the object it waits for already, or the one selected.
LEMMA Anchored ==
  ASSUME TableInv, NEW e, e = Ensure(app)
  PROVE  LET under == IF held # None THEN held
                      ELSE IF Selected(e) = None THEN None ELSE Selected(e).key
         IN  Anchor(e) = under /\ under \in Ranks \cup {None}
<1>1. Sound(app, Certain) /\ app \in Apps /\ Certain \in SUBSET Ranks /\ Waiting
  BY DEF TableInv, RowsInv, Certain, Sound
<1>2. SameWatch(app, e) /\ SameCursor(app, e) /\ e \in Apps
  BY <1>1, Ensured DEF Sound
<1>3. app.reselect # None => app.reselect.key \in Ranks
  BY <1>1 DEF Apps, Waits
<1>4. Selected(e) # None => Selected(e).key \in Ranks
  BY <1>2, SelectedType
<1>5. CASE held # None
  BY <1>1, <1>2, <1>3, <1>5 DEF Waiting, Anchor, SameWatch, SameCursor
<1>6. CASE held = None
  <2>1. app.reselect # None => app.reselect.index # app.cursor
    BY <1>1, <1>3, <1>6, TableAssumption DEF Waiting
  <2>2. Anchor(e) = IF Selected(e) = None THEN None ELSE Selected(e).key
    BY <1>2, <2>1 DEF Anchor, SameCursor
  <2> QED BY <1>4, <1>6, <2>2
<1> QED BY <1>5, <1>6

\* A key that changes what is filtered (src/src/app/rows.rs: reselect_after_filter).
LEMMA FilteringStep ==
  ASSUME TableInv, NEW e, e = Ensure(app), NEW a \in Apps, Cached(a), a.second <= a.now,
         a.workloads = app.workloads, ~a.synced \/ a.synced = app.synced, Filtering(a, e)
  PROVE  TableInv' /\ KeptByFilter
<1> DEFINE under == IF held # None THEN held
                    ELSE IF Selected(e) = None THEN None ELSE Selected(e).key
           k == Anchor(e)
           i == Invalidate(a)
           x == Ensure(i)
           found == IF k = None THEN None ELSE RowIndex(x, k)
           index == IF found = None THEN 1 ELSE found
           w == IF k # None /\ ~x.synced /\ (found # None \/ x.objects[k] = None)
                THEN [gen |-> x.gen, key |-> k, index |-> index] ELSE None
           r == Reselect(a, k)
           hidden == /\ under # None /\ app'.objects[under] # None
                     /\ RowIndex(app', under) = None
<1>1. Pressed(r) /\ held' = IF app'.synced \/ hidden THEN None ELSE under
  BY DEF Filtering
<1>2. RowsInv /\ Certain \in SUBSET Ranks /\ Waiting
  BY DEF TableInv, RowsInv, Certain
<1>3. k = under /\ k \in Ranks \cup {None}
  BY Anchored
<1> HIDE DEF k, under
<1>4. /\ Sound(i, Certain) /\ SameView(a, i) /\ SameWatch(a, i)
  BY Invalidated
<1>5. /\ Sound(x, Certain) /\ SameView(i, x) /\ SameWatch(i, x)
  BY <1>2, <1>4, Ensured
<1>6. x \in Apps /\ r = PutAt(x, index, w)
  BY <1>5 DEF Reselect, PutAt, Sound
<1> HIDE DEF i, x, r
<1>7. index \in Nat /\ found \in Nat \cup {None}
  BY <1>6, Found
<1>8. w \in Waits \cup {None} /\ index \in Nat \cup {None}
  <2>1. x.gen \in Nat
    BY <1>6 DEF Apps
  <2> QED BY <1>3, <1>7, <2>1 DEF Waits
<1> HIDE DEF index, w
<1>9. /\ Sound(r, Certain) /\ SameView(x, r) /\ SameWatch(x, r) /\ SameCache(x, r)
      /\ r.cursor = index /\ r.reselect = w
  BY <1>2, <1>5, <1>6, <1>8, Put
<1>10. r.workloads = app.workloads
  BY <1>4, <1>5, <1>9 DEF SameView
<1>11. /\ RowsInv' /\ SelectionStays'
       /\ SameView(r, app') /\ SameWatch(r, app') /\ SameCache(r, app') /\ app'.cursor = r.cursor
       /\ app'.reselect =
              IF r.reselect # None /\ (r.reselect.gen # r.gen \/ r.reselect.index # r.cursor)
              THEN None ELSE r.reselect
  BY <1>1, <1>2, <1>9, <1>10, PressedStep
<1>12. /\ app'.cursor = index /\ app'.reselect = w
       /\ app'.synced = x.synced /\ app'.gen = x.gen /\ app'.objects = x.objects
       /\ app'.keys = x.keys
  <2>1. w # None => w.gen = x.gen /\ w.index = index
    BY DEF w
  <2> QED BY <1>9, <1>11, <2>1 DEF SameWatch, SameView, SameCache
<1>13. hidden <=> k # None /\ x.objects[k] # None /\ found = None
  <2>1. RowIndex(app', under) = RowIndex(x, under)
    BY <1>12 DEF RowIndex
  <2> QED BY <1>3, <1>12, <2>1
<1> HIDE DEF hidden
<1>14. Waiting'
  <2>1. CASE w = None
    <3>1. k = None \/ x.synced \/ (found = None /\ x.objects[k] # None)
      <4>1. [gen |-> x.gen, key |-> k, index |-> index] # None
            \/ ~(k # None /\ ~x.synced /\ (found # None \/ x.objects[k] = None))
        <5>1. x.gen \in Nat
          BY <1>6 DEF Apps
        <5> QED BY <1>3, <1>7, <5>1, TableAssumption
      <4> QED BY <2>1, <4>1 DEF w
    <3>2. held' = None
      BY <1>1, <1>3, <1>12, <1>13, <3>1
    <3> QED BY <1>12, <2>1, <3>2 DEF Waiting
  <2>2. CASE w # None
    <3>1. /\ k # None /\ ~x.synced /\ (found # None \/ x.objects[k] = None)
          /\ w.gen = x.gen /\ w.key = k /\ w.index = index
      BY <2>2 DEF w
    <3>2. held' = k
      BY <1>1, <1>3, <1>12, <1>13, <3>1
    <3> QED BY <1>12, <2>2, <3>1, <3>2 DEF Waiting
  <2> QED BY <2>1, <2>2
<1>15. KeptByFilter
  <2>1. x.synced = a.synced
    BY <1>4, <1>5 DEF SameWatch
  <2> QED BY <1>12, <2>1 DEF KeptByFilter
<1> QED BY <1>11, <1>14, <1>15 DEF TableInv

\* A new watch starts from nothing, or from the rows of a snapshot
\* (src/src/app/lifecycle.rs: start_watch).
LEMMA Restarted ==
  ASSUME NEW a \in Apps, a.second <= a.now, NEW seeded \in BOOLEAN, NEW S,
         NEW b, b = Restart(a, seeded)
  PROVE  /\ Sound(b, S) /\ b \in Apps /\ ~b.synced /\ b.gen = a.gen + 1
         /\ b.workloads = a.workloads /\ b.reselect = a.reselect
<1> DEFINE c == [a EXCEPT !.gen = @ + 1, !.synced = FALSE, !.buffered = seeded,
                   !.objects = IF seeded THEN @ ELSE [k \in Ranks |-> None],
                   !.load = [k \in Ranks |-> 0], !.printed = [k \in Ranks |-> 0],
                   !.cursor = IF @ = None THEN 1 ELSE @]
<1>1. b = Clear(c)
  BY DEF Restart
<1>2. /\ c.second = a.second /\ c.now = a.now /\ ~c.synced /\ c.gen = a.gen + 1
      /\ c.workloads = a.workloads /\ c.reselect = a.reselect
  BY DEF Apps
<1>3. c \in Apps
  <2>1. /\ [k \in Ranks |-> 0] \in [Ranks -> {0, 1}]
        /\ (IF seeded THEN a.objects ELSE [k \in Ranks |-> None])
             \in [Ranks -> Objects \cup {None}]
        /\ (IF a.cursor = None THEN 1 ELSE a.cursor) \in Nat \cup {None}
        /\ a.gen + 1 \in Nat
    BY DEF Apps
  <2> DEFINE o == IF seeded THEN a.objects ELSE [k \in Ranks |-> None]
             at == IF a.cursor = None THEN 1 ELSE a.cursor
             n == a.gen + 1
             z == [k \in Ranks |-> 0]
  <2>2. c = [a EXCEPT !.gen = n, !.synced = FALSE, !.buffered = seeded, !.objects = o,
                      !.load = z, !.printed = z, !.cursor = at]
    BY DEF Apps
  <2>3. n \in Nat /\ o \in [Ranks -> Objects \cup {None}] /\ at \in Nat \cup {None}
        /\ z \in [Ranks -> {0, 1}]
    BY <2>1
  <2> HIDE DEF c, n, o, at, z
  <2> QED BY <2>2, <2>3 DEF Apps
<1> HIDE DEF c
<1>4. c.second <= c.now
  BY <1>2
<1>5. Sound(b, S) /\ SameView(c, b) /\ SameWatch(c, b) /\ SameCursor(c, b)
  BY <1>1, <1>3, <1>4, Cleared
<1> QED BY <1>2, <1>5 DEF SameView, SameWatch, SameCursor, Sound

\* A filter is typed, accepted or dropped (src/src/app/input.rs: key_filter).
LEMMA TypeFilterStep ==
  ASSUME TableInv, NEW f \in Filters, NEW restart \in BOOLEAN, NEW seeded \in BOOLEAN,
         TypeFilter(f, restart, seeded)
  PROVE  TableInv' /\ KeptByFilter
<1> DEFINE e == Ensure(app)
           b == [e EXCEPT !.filter = f]
           c == Restart(b, seeded)
<1>1. Filtering(IF restart THEN c ELSE b, e)
  BY DEF TypeFilter
<1>2. Sound(app, Certain) /\ Certain \in SUBSET Ranks
  BY DEF TableInv, RowsInv, Certain
<1>3. Sound(e, Certain) /\ SameView(app, e) /\ SameWatch(app, e)
  BY <1>2, Ensured
<1> HIDE DEF e
<1>4. e \in Apps /\ e.second <= e.now /\ Cached(e)
  BY <1>3 DEF Sound, Clocked
<1>5. /\ b \in Apps /\ b.second = e.second /\ b.now = e.now /\ SameWatch(e, b)
      /\ b.objects = e.objects /\ b.printed = e.printed /\ b.workloads = e.workloads
      /\ b.cells = e.cells /\ b.sorts = e.sorts
  <2>1. f \in {"none", "text", "load", "age"}
    BY TableAssumption
  <2> QED BY <1>4, <2>1 DEF Apps, SameWatch
<1> HIDE DEF b
<1>6. Cached(b)
  <2>1. \A k \in Ranks : Cell(b, k) = Cell(e, k)
    BY <1>5 DEF Cell
  <2> QED BY <1>4, <1>5, <2>1 DEF Cached, Holds
<1>7. CASE ~restart
  <2>1. Filtering(b, e) /\ b.second <= b.now /\ b.workloads = app.workloads
        /\ b.synced = app.synced
    BY <1>1, <1>3, <1>4, <1>5, <1>7 DEF SameView, SameWatch
  <2> QED BY <1>5, <1>6, <2>1, FilteringStep DEF e
<1>8. CASE restart
  <2>1. b.second <= b.now
    BY <1>4, <1>5
  <2>2. /\ Sound(c, Certain) /\ c \in Apps /\ ~c.synced /\ c.workloads = b.workloads
    BY <1>5, <2>1, Restarted
  <2>3. Filtering(c, e)
    BY <1>1, <1>8
  <2> HIDE DEF c
  <2>4. Cached(c) /\ c.second <= c.now /\ c.workloads = app.workloads
    BY <1>3, <1>5, <2>2 DEF Sound, Clocked, SameView
  <2> QED BY <2>2, <2>3, <2>4, FilteringStep DEF e
<1> QED BY <1>7, <1>8

\* The faults filter goes on or off (src/src/app/input.rs: Action::Faults).
LEMMA ToggleFaultsStep ==
  ASSUME TableInv, ToggleFaults
  PROVE  TableInv' /\ KeptByFilter
<1> DEFINE e == Ensure(app)
           b == [e EXCEPT !.faults = ~@]
<1>1. Filtering(b, e)
  BY DEF ToggleFaults
<1>2. Sound(app, Certain) /\ Certain \in SUBSET Ranks
  BY DEF TableInv, RowsInv, Certain
<1>3. Sound(e, Certain) /\ SameView(app, e) /\ SameWatch(app, e)
  BY <1>2, Ensured
<1> HIDE DEF e
<1>4. e \in Apps /\ e.second <= e.now /\ Cached(e)
  BY <1>3 DEF Sound, Clocked
<1>5. /\ b \in Apps /\ b.second = e.second /\ b.now = e.now /\ SameWatch(e, b)
      /\ b.objects = e.objects /\ b.printed = e.printed /\ b.workloads = e.workloads
      /\ b.cells = e.cells /\ b.sorts = e.sorts
  BY <1>4 DEF Apps, SameWatch
<1> HIDE DEF b
<1>6. Cached(b)
  <2>1. \A k \in Ranks : Cell(b, k) = Cell(e, k)
    BY <1>5 DEF Cell
  <2> QED BY <1>4, <1>5, <2>1 DEF Cached, Holds
<1>7. b.second <= b.now /\ b.workloads = app.workloads /\ b.synced = app.synced
  BY <1>3, <1>4, <1>5 DEF SameView, SameWatch
<1> QED BY <1>1, <1>5, <1>6, <1>7, FilteringStep DEF e

\* A key that has the list made anew, and leaves the cursor or puts it on the first row.
LEMMA RelistedStep ==
  ASSUME TableInv, NEW a \in Apps, Cached(a), a.second <= a.now, SameWatch(app, a),
         a.workloads = app.workloads, a.reselect = app.reselect,
         a.cursor \in {app.cursor, 1}, Pressed(Invalidate(a)),
         held' = IF app.cursor = a.cursor THEN held ELSE None
  PROVE  TableInv' /\ KeptByFilter
<1> DEFINE b == Invalidate(a)
<1>1. RowsInv /\ Waiting /\ app \in Apps
  BY DEF TableInv, RowsInv, Sound
<1>2. Sound(b, Certain) /\ SameView(a, b) /\ SameWatch(a, b) /\ SameCursor(a, b)
  BY Invalidated
<1>3. Pressed(b)
  OBVIOUS
<1> HIDE DEF b
<1>4. b.workloads = app.workloads
  BY <1>2 DEF SameView
<1>5. /\ RowsInv' /\ SelectionStays' /\ SameWatch(b, app') /\ app'.cursor = b.cursor
      /\ app'.reselect =
              IF b.reselect # None /\ (b.reselect.gen # b.gen \/ b.reselect.index # b.cursor)
              THEN None ELSE b.reselect
  BY <1>1, <1>2, <1>3, <1>4, PressedStep
<1>6. /\ app'.cursor = a.cursor /\ app'.synced = app.synced /\ app'.gen = app.gen
      /\ app'.reselect = IF app.reselect # None
                              /\ (app.reselect.gen # app.gen \/ app.reselect.index # a.cursor)
                         THEN None ELSE app.reselect
  BY <1>2, <1>5 DEF SameWatch, SameCursor
<1>7. Waiting'
  <2>1. CASE app.reselect = None
    BY <1>1, <1>6, <2>1 DEF Waiting
  <2>2. CASE app.reselect # None /\ app.reselect.index = app.cursor
    BY <1>1, <1>6, <2>2 DEF Waiting
  <2>3. CASE app.reselect # None /\ app.reselect.index # app.cursor
    <3>1. 0 < Len(app.keys) /\ Len(app.keys) < app.reselect.index /\ held = None
      BY <1>1, <2>3 DEF Waiting
    <3>2. app.reselect \in Waits /\ Len(app.keys) \in Nat
      BY <1>1, <2>3, LenProperties DEF Apps
    <3>3. app.reselect.index # a.cursor
      BY <2>3, <3>1, <3>2 DEF Waits
    <3>4. app'.reselect = None /\ held' = None
      BY <1>6, <2>3, <3>1, <3>3
    <3> QED BY <3>4 DEF Waiting
  <2> QED BY <2>1, <2>2, <2>3
<1>8. KeptByFilter
  BY <1>6 DEF KeptByFilter
<1> QED BY <1>5, <1>7, <1>8 DEF TableInv

\* Owned rows are shown or not (src/src/app/workloads.rs: toggle_workloads_owned).
LEMMA ToggleOwnedStep ==
  ASSUME TableInv, ToggleOwned
  PROVE  TableInv' /\ KeptByFilter
<1> DEFINE a == [app EXCEPT !.all = ~@, !.cursor = 1]
<1>1. Pressed(Invalidate(a)) /\ held' = IF app.cursor = 1 THEN held ELSE None
  BY DEF ToggleOwned
<1>2. app \in Apps /\ Cached(app) /\ app.second <= app.now
  BY DEF TableInv, RowsInv, Sound, Clocked
<1>3. a \in Apps
  <2>1. (~app.all) \in BOOLEAN
    OBVIOUS
  <2>2. a = [app EXCEPT !.all = ~app.all, !.cursor = 1]
    BY <1>2 DEF Apps
  <2>3. 1 \in Nat \cup {None}
    OBVIOUS
  <2> HIDE DEF a
  <2> QED BY <1>2, <2>1, <2>2, <2>3 DEF Apps
<1>4. /\ SameWatch(app, a) /\ a.second = app.second /\ a.now = app.now
      /\ a.objects = app.objects /\ a.printed = app.printed /\ a.workloads = app.workloads
      /\ a.cells = app.cells /\ a.sorts = app.sorts /\ a.reselect = app.reselect /\ a.cursor = 1
  BY <1>2 DEF Apps, SameWatch
<1> HIDE DEF a
<1>5. Cached(a)
  <2>1. \A k \in Ranks : Cell(a, k) = Cell(app, k)
    BY <1>4 DEF Cell
  <2> QED BY <1>2, <1>4, <2>1 DEF Cached, Holds
<1>6. a.second <= a.now /\ held' = IF app.cursor = a.cursor THEN held ELSE None
  BY <1>1, <1>2, <1>4
<1> QED BY <1>1, <1>3, <1>4, <1>5, <1>6, RelistedStep

\* Another sort column (src/src/app/pickers.rs: apply_sort_choice).
LEMMA SortByStep ==
  ASSUME TableInv, NEW s \in SortKeys, SortBy(s)
  PROVE  TableInv' /\ KeptByFilter
<1> DEFINE a == [app EXCEPT !.sort = s]
<1>1. Pressed(Invalidate(a)) /\ held' = held
  BY DEF SortBy
<1>2. app \in Apps /\ Cached(app) /\ app.second <= app.now
  BY DEF TableInv, RowsInv, Sound, Clocked
<1>3. a \in Apps
  <2>1. s \in {"none", "column", "load"}
    BY TableAssumption
  <2> QED BY <1>2, <2>1 DEF Apps
<1>4. /\ SameWatch(app, a) /\ a.second = app.second /\ a.now = app.now
      /\ a.objects = app.objects /\ a.printed = app.printed /\ a.workloads = app.workloads
      /\ a.cells = app.cells /\ a.sorts = app.sorts /\ a.reselect = app.reselect
      /\ a.cursor = app.cursor
  BY <1>2 DEF Apps, SameWatch
<1> HIDE DEF a
<1>5. Cached(a)
  <2>1. \A k \in Ranks : Cell(a, k) = Cell(app, k)
    BY <1>4 DEF Cell
  <2> QED BY <1>2, <1>4, <2>1 DEF Cached, Holds
<1>6. a.second <= a.now /\ held' = IF app.cursor = a.cursor THEN held ELSE None
  BY <1>1, <1>2, <1>4
<1> QED BY <1>1, <1>3, <1>4, <1>5, <1>6, RelistedStep

\* Another view (src/src/app/lifecycle.rs: start_watch).
LEMMA OtherViewStep ==
  ASSUME TableInv, NEW seeded \in BOOLEAN, OtherView(seeded)
  PROVE  TableInv' /\ KeptByFilter
<1> DEFINE a == [app EXCEPT !.cursor = 1]
           b == Restart(a, seeded)
<1>1. Pressed(b) /\ held' = None
  BY DEF OtherView
<1>2. RowsInv /\ Waiting /\ app \in Apps /\ app.second <= app.now
  BY DEF TableInv, RowsInv, Sound, Clocked
<1>3. /\ a \in Apps /\ a.second = app.second /\ a.now = app.now /\ a.gen = app.gen
      /\ a.workloads = app.workloads /\ a.reselect = app.reselect
  BY <1>2 DEF Apps
<1> HIDE DEF a
<1>4. a.second <= a.now
  BY <1>2, <1>3
<1>5. /\ Sound(b, Certain) /\ ~b.synced /\ b.gen = app.gen + 1
      /\ b.workloads = app.workloads /\ b.reselect = app.reselect
  BY <1>3, <1>4, Restarted
<1> HIDE DEF b
<1>6. /\ RowsInv' /\ SelectionStays' /\ SameWatch(b, app') /\ app'.cursor = b.cursor
      /\ app'.reselect =
              IF b.reselect # None /\ (b.reselect.gen # b.gen \/ b.reselect.index # b.cursor)
              THEN None ELSE b.reselect
  BY <1>1, <1>2, <1>5, PressedStep
<1>7. app'.reselect = None
  <2>1. app.gen \in Nat
    BY <1>2 DEF Apps
  <2>2. app.reselect # None => app.reselect.gen # app.gen + 1
    BY <1>2, <2>1 DEF Waiting
  <2> QED BY <1>5, <1>6, <2>2
<1>8. Waiting'
  BY <1>1, <1>7 DEF Waiting
<1>9. KeptByFilter
  BY <1>5, <1>6 DEF KeptByFilter, SameWatch
<1> QED BY <1>6, <1>8, <1>9 DEF TableInv

-----------------------------------------------------------------------------
(* Drawing, and all of it.                                                 *)

\* Drawing renders the rows that are listed, and puts the cursor on one
\* (src/src/ui.rs: draw_table).
LEMMA DrawStep ==
  ASSUME TableInv, Draw
  PROVE  TableInv' /\ KeptByFilter
<1> DEFINE e == Ensure(app)
           n == Len(e.keys)
           rows == {k \in Ranks : RowIndex(e, k) # None /\ e.objects[k] # None}
           texts == Warm(e, e.cells, rows)
           to == IF n > 0 /\ e.cursor # None /\ e.cursor > n THEN n ELSE e.cursor
           c == [e EXCEPT !.cells = texts]
           w == e.reselect
<1>1. /\ app' = [e EXCEPT !.cells = Warm(e, @, rows),
                  !.cursor = IF n > 0 /\ @ # None /\ @ > n THEN n ELSE @]
      /\ Chosen(IF app'.cursor = app.cursor THEN "watch" ELSE "key") /\ Adopted({})
      /\ held' = (IF app'.cursor = app.cursor THEN held ELSE None)
      /\ events' = events
  BY DEF Draw
<1>2. RowsInv /\ Sound(app, Certain) /\ Certain \in SUBSET Ranks /\ Waiting /\ app \in Apps
      /\ adopted \subseteq Ranks /\ events \in Nat /\ SelectionStays
  BY DEF TableInv, RowsInv, Certain, Sound
<1>3. /\ Sound(e, Certain) /\ UpToDate(e) /\ SameView(app, e) /\ SameWatch(app, e)
      /\ SameCursor(app, e) /\ Lists(e, Certain) /\ Present(e)
      /\ UpToDate(app) => e = app
  BY <1>2, Ensured
<1>4. e \in Apps /\ Cached(e) /\ Clocked(e)
  BY <1>3 DEF Sound
<1>5. rows \in SUBSET Ranks /\ \A k \in rows : e.objects[k] # None
  OBVIOUS
<1> HIDE DEF e, rows
<1>6. texts \in [Ranks -> Texts \cup {None}] /\ Holds(e, texts)
  <2>1. e.cells \in [Ranks -> Texts \cup {None}] /\ Holds(e, e.cells)
    BY <1>4 DEF Apps, Cached
  <2> QED BY <1>4, <1>5, <2>1, Warmed
<1>7. app' = PutAt(c, to, w)
  BY <1>1, <1>4 DEF Apps, PutAt
<1> HIDE DEF texts
<1>8. /\ c \in Apps /\ SameView(e, c) /\ SameWatch(e, c) /\ SameCursor(e, c)
      /\ c.dirty = e.dirty /\ c.timed = e.timed /\ c.second = e.second /\ c.keys = e.keys
      /\ c.cells = texts /\ c.sorts = e.sorts
  BY <1>4, <1>6 DEF Apps, SameView, SameWatch, SameCursor
<1> HIDE DEF c
<1>9. Sound(c, Certain) /\ UpToDate(c)
  <2>1. Cached(c)
    BY <1>4, <1>6, <1>8, SameRows DEF Cached
  <2>2. Clocked(c)
    BY <1>4, <1>8 DEF Clocked, SameView
  <2>3. UpToDate(c)
    BY <1>3, <1>8 DEF UpToDate, SameView
  <2>4. Present(c)
    BY <1>3, <1>8 DEF Present, SameView
  <2>5. Lists(c, Certain)
    <3>1. c.keys = e.keys /\ Primary(c) = Primary(e)
      BY <1>8, SameRows
    <3>2. \A k \in Certain : Shown(c, k) <=> Shown(e, k)
      BY <1>2, <1>8, SameRows
    <3> QED BY <1>3, <3>1, <3>2 DEF Lists
  <2> QED BY <1>8, <2>1, <2>2, <2>3, <2>4, <2>5 DEF Sound, Listed
<1>10. n \in Nat /\ e.cursor \in Nat \cup {None} /\ w \in Waits \cup {None}
  <2>1. e.keys \in Seq(Ranks)
    BY <1>4 DEF Apps
  <2>2. n \in Nat
    BY <2>1, LenProperties
  <2> QED BY <1>4, <2>2 DEF Apps
<1> HIDE DEF n, w
<1>11. to \in Nat \cup {None}
  BY <1>10
<1> HIDE DEF to
<1>12. /\ Sound(app', Certain) /\ UpToDate(app')
       /\ SameView(c, app') /\ SameWatch(c, app') /\ SameCache(c, app')
       /\ app'.cursor = to /\ app'.reselect = w
  BY <1>2, <1>7, <1>9, <1>10, <1>11, Put
<1>13. /\ app'.reselect = app.reselect /\ app'.synced = app.synced /\ app'.gen = app.gen
       /\ app'.keys = e.keys /\ app'.objects = e.objects /\ app'.workloads = app.workloads
       /\ app'.faults = app.faults
       /\ app'.cursor = IF n > 0 /\ app.cursor # None /\ app.cursor > n THEN n ELSE app.cursor
  BY <1>3, <1>8, <1>12 DEF SameWatch, SameCursor, SameView, SameCache, w, to
<1>14. adopted' \subseteq Ranks /\ Sound(app', Certain')
  <2>1. Sound(app', IF app.workloads THEN Certain \ {} ELSE Certain)
    BY <1>12
  <2> QED BY <1>1, <1>2, <1>13, <2>1, CertainKept
<1>15. Waiting'
  <2>1. CASE app.reselect = None
    BY <1>1, <1>2, <1>13, <2>1 DEF Waiting
  <2>2. CASE app.reselect # None /\ app'.cursor = app.cursor
    <3>1. app.reselect.index # app.cursor =>
            UpToDate(app') /\ 0 < Len(app'.keys) /\ Len(app'.keys) < app.reselect.index
      BY <1>2, <1>3, <1>12, <1>13, <2>2 DEF Waiting
    <3> QED BY <1>1, <1>2, <1>13, <2>2, <3>1 DEF Waiting
  <2>3. CASE app.reselect # None /\ app'.cursor # app.cursor
    <3>1. n > 0 /\ app.cursor # None /\ app.cursor > n /\ app'.cursor = n /\ held' = None
      BY <1>1, <1>13, <2>3
    <3>2. app.reselect.index \in Nat /\ app.cursor \in Nat
      BY <1>2, <2>3, <3>1 DEF Apps, Waits
    <3>3. app.reselect.index > n
      <4>1. CASE app.reselect.index = app.cursor
        BY <3>1, <4>1
      <4>2. CASE app.reselect.index # app.cursor
        <5>1. Len(app.keys) < app.reselect.index /\ e = app
          BY <1>2, <1>3, <2>3, <4>2 DEF Waiting
        <5> QED BY <5>1, <3>2, <1>10 DEF n
      <4> QED BY <4>1, <4>2
    <3>4. Len(app'.keys) = n
      BY <1>13 DEF n
    <3>5. app.reselect.index # n /\ 0 < Len(app'.keys) /\ Len(app'.keys) < app.reselect.index
      BY <1>10, <3>1, <3>2, <3>3, <3>4
    <3> QED BY <1>2, <1>12, <1>13, <2>3, <3>1, <3>5 DEF Waiting
  <2> QED BY <2>1, <2>2, <2>3
<1>16. SelectionStays'
  <2>1. Ensure(app') = app'
    BY <1>12 DEF Ensure
  <2>2. CASE app'.cursor = app.cursor /\ Live(app) /\ app.reselect = None
    <3>1. chosen' = chosen
      BY <1>1, <2>2 DEF Chosen
    <3>2. Selected(app') = Selected(e)
      BY <1>3, <1>13, <2>2 DEF Selected, SameCursor
    <3>3. Selected(e) \in {chosen, None}
      BY <1>2, <2>2 DEF SelectionStays, e
    <3> QED BY <2>1, <3>1, <3>2, <3>3 DEF SelectionStays
  <2>3. CASE ~(app'.cursor = app.cursor /\ Live(app) /\ app.reselect = None)
    <3>1. chosen' = Selected(Ensure(app'))
      BY <1>1, <2>3 DEF Chosen
    <3> QED BY <3>1, ChosenNow
  <2> QED BY <2>2, <2>3
<1>17. KeptByFilter
  BY <1>13 DEF KeptByFilter
<1>18. RowsInv'
  BY <1>1, <1>2, <1>14 DEF RowsInv
<1> QED BY <1>15, <1>16, <1>17, <1>18 DEF TableInv

\* It holds of an empty table.
LEMMA TableStarts ==
  ASSUME TableInit
  PROVE  TableInv
<1>1. PICK v \in BOOLEAN :
        app = [objects |-> [k \in Ranks |-> None], printed |-> [k \in Ranks |-> 0],
              load |-> [k \in Ranks |-> 0], now |-> 0, synced |-> FALSE, buffered |-> FALSE,
              gen |-> 0, workloads |-> v, all |-> FALSE, faults |-> FALSE,
              filter |-> "none", sort |-> "none", dirty |-> TRUE, timed |-> FALSE,
              second |-> 0, keys |-> <<>>, cells |-> NoEntry, sorts |-> NoEntry,
              cursor |-> 1, reselect |-> None]
  BY DEF TableInit
<1>2. /\ adopted = {} /\ chosen = None /\ held = None /\ events = 0
  BY DEF TableInit
<1>3. app \in Apps
  <2>1. /\ [k \in Ranks |-> None] \in [Ranks -> Objects \cup {None}]
        /\ [k \in Ranks |-> 0] \in [Ranks -> {0, 1}]
        /\ NoEntry \in [Ranks -> Texts \cup {None}] /\ <<>> \in Seq(Ranks)
    BY DEF NoEntry
  <2> QED BY <1>1, <2>1 DEF Apps
<1>4. app.dirty /\ app.second <= app.now /\ app.reselect = None /\ ~app.faults
      /\ app.cells = NoEntry /\ app.sorts = NoEntry
  BY <1>1
<1>5. Cached(app)
  BY <1>4 DEF Cached, Holds, NoEntry
<1>6. Sound(app, Certain)
  BY <1>3, <1>4, <1>5, Stale
<1>7. RowsInv
  BY <1>2, <1>6 DEF RowsInv
<1>8. Waiting
  BY <1>2, <1>4 DEF Waiting
<1>9. SelectionStays
  BY <1>4 DEF SelectionStays, Live
<1> QED BY <1>7, <1>8, <1>9 DEF TableInv

\* Every step keeps it.
LEMMA TableStep ==
  ASSUME TableInv, [TableNext]_tableVars
  PROVE  TableInv' /\ [KeptByFilter]_tableVars
<1>1. CASE TableNext
  <2>1. ASSUME NEW k \in Ranks, NEW shape \in Shapes, Applied(k, shape)
        PROVE  TableInv' /\ KeptByFilter
    BY <2>1, AppliedStep
  <2>2. ASSUME NEW k \in Ranks, Deleted(k) \/ Metrics(k) \/ ServerTable(k)
        PROVE  TableInv' /\ KeptByFilter
    BY <2>2, DeletedStep, MetricsStep, ServerTableStep
  <2>3. CASE Reset \/ Synced \/ Tick \/ Draw \/ ToggleFaults \/ ToggleOwned
    BY <2>3, ResetStep, SyncedStep, TickStep, DrawStep, ToggleFaultsStep, ToggleOwnedStep
  <2>4. ASSUME NEW i \in 1 .. Cardinality(Ranks), MoveTo(i)
        PROVE  TableInv' /\ KeptByFilter
    BY <2>4, MoveToStep
  <2>5. ASSUME NEW f \in Filters, NEW restart \in BOOLEAN, NEW seeded \in BOOLEAN,
               TypeFilter(f, restart, seeded)
        PROVE  TableInv' /\ KeptByFilter
    BY <2>5, TypeFilterStep
  <2>6. ASSUME NEW s \in SortKeys, SortBy(s)
        PROVE  TableInv' /\ KeptByFilter
    BY <2>6, SortByStep
  <2>7. ASSUME NEW seeded \in BOOLEAN, OtherView(seeded)
        PROVE  TableInv' /\ KeptByFilter
    BY <2>7, OtherViewStep
  <2> QED BY <1>1, <2>1, <2>2, <2>3, <2>4, <2>5, <2>6, <2>7 DEF TableNext
<1>2. CASE UNCHANGED tableVars
  <2>1. app' = app /\ adopted' = adopted /\ chosen' = chosen /\ held' = held /\ events' = events
    BY <1>2 DEF tableVars
  <2>2. RowsInv'
    BY <2>1 DEF TableInv, RowsInv, Certain
  <2>3. Waiting'
    BY <2>1 DEF TableInv, Waiting
  <2>4. SelectionStays'
    BY <2>1 DEF TableInv, SelectionStays
  <2> QED BY <1>2, <2>2, <2>3, <2>4 DEF TableInv
<1> QED BY <1>1, <1>2

\* The table is right whatever happens to it.
THEOREM TableInvariant == TableSpec => []TableInv
<1>1. TableInit => TableInv
  BY TableStarts
<1>2. TableInv /\ [TableNext]_tableVars => TableInv'
  BY TableStep
<1> QED BY <1>1, <1>2, PTL DEF TableSpec

\* The rows listed, their order and their text are those of now, for any rows, filters and
\* sort columns, and however messages, polls, ticks and keys follow each other
\* (src/src/app/rows.rs: ensure_rows_cache and what invalidates it).
THEOREM RowsListedAreCurrent == TableSpec => []RowsAreCurrent
<1>1. TableInv => RowsAreCurrent
  <2> SUFFICES ASSUME TableInv PROVE RowsAreCurrent
    OBVIOUS
  <2> DEFINE e == Ensure(app)
  <2>1. Certain \in SUBSET Ranks /\ Sound(app, Certain)
    BY DEF TableInv, RowsInv, Certain
  <2>2. Sound(e, Certain) /\ Lists(e, Certain) /\ Present(e)
    BY <2>1, Ensured
  <2> HIDE DEF e
  <2>3. ASSUME NEW i \in DOMAIN e.keys
        PROVE  e.objects[e.keys[i]] # None /\ Entry(e, e.cells, e.keys[i]).text = Cell(e, e.keys[i])
    <3>1. e.keys \in Seq(Ranks)
      BY <2>2 DEF Sound, Apps
    <3>2. e.keys[i] \in Ranks
      BY <3>1, LenProperties, ElementOfSeq
    <3>3. e.objects[e.keys[i]] # None
      BY <2>2 DEF Present
    <3>4. Holds(e, e.cells)
      BY <2>2 DEF Sound, Cached
    <3> DEFINE k == e.keys[i]
    <3> HIDE DEF k
    <3>5. k \in Ranks /\ e.objects[k] # None
      BY <3>2, <3>3 DEF k
    <3>6. CASE Fresh(e, e.cells[k], k)
      <4>1. e.cells[k] # None
        BY <3>6 DEF Fresh
      <4>2. e.cells[k] = [rev |-> e.objects[k].rev, text |-> Cell(e, k)]
        BY <3>4, <3>5, <4>1 DEF Holds
      <4>3. e.cells[k].text = Cell(e, k)
        BY <4>2
      <4> QED BY <3>3, <3>6, <4>3 DEF Entry, k
    <3>7. CASE ~Fresh(e, e.cells[k], k)
      BY <3>3, <3>7 DEF Entry, k
    <3> QED BY <3>6, <3>7
  <2> QED BY <2>2, <2>3 DEF RowsAreCurrent, e
<1> QED BY <1>1, TableInvariant, PTL

\* Under the faults filter what a watch brings leaves the cursor on its object or on none
\* (src/src/app/lifecycle.rs: handle_msg_inner).
THEOREM FaultsKeepTheSelection == TableSpec => []SelectionStays
<1>1. TableInv => SelectionStays
  BY DEF TableInv
<1> QED BY <1>1, TableInvariant, PTL

\* A filter typed while rows are still listed returns to its object when they all are
\* (src/src/app/rows.rs: reselect_after_filter, finish_filter_reselect).
THEOREM FilterReturns == TableSpec => FilterKeepsObject
<1>1. TableInv /\ [TableNext]_tableVars => [KeptByFilter]_tableVars
  BY TableStep
<1> QED BY <1>1, TableInvariant, PTL DEF TableSpec, FilterKeepsObject
=============================================================================
