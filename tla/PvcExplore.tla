----------------------------- MODULE PvcExplore -----------------------------
(***************************************************************************)
(* The volume browser (src/src/app/pvcexplore.rs, src/src/pvcexplore.rs).  *)
(*                                                                         *)
(* A volume is read from inside a pod that mounts it.  Finding that pod,   *)
(* creating a helper pod when there is none, and listing a directory are   *)
(* requests that run beside the event loop; while they run the user moves  *)
(* on, asks for another claim, switches cluster or quits.  Every helper    *)
(* pod must still find its way to somebody who deletes it.                 *)
(*                                                                         *)
(* A request is in `tasks` from its start until the loop handles its       *)
(* answer, whose content is chosen then: the answers of independent tasks  *)
(* arrive in any order.                                                    *)
(***************************************************************************)
EXTENDS Naturals, FiniteSets

CONSTANTS
  Contexts, FirstContext,
  Claims,           \* the bound ones that hold a file system
  Workloads,        \* pods that are not sofka's
  Consumer,         \* Consumer[w]: the claim w mounts
  ReadOnlyMount,    \* the workloads that mount it read-only
  SubPath,          \* SubPath[w]; Unresolved for a subPathExpr
  Node,             \* Node[w]: where it runs
  AccessModes,      \* AccessModes[c]
  Toolless,         \* the workloads without a shell or ls
  NoClaim, NoPod, Unresolved, WholeVolume,
  MaxRun, MaxGen, MaxHelpers, MaxTasks   \* bounds

Helpers == 1 .. MaxHelpers
Dirs == {"root", "sub"}

ASSUME PvcExploreAssumption ==
  /\ FirstContext \in Contexts
  /\ Consumer \in [Workloads -> Claims]
  /\ ReadOnlyMount \subseteq Workloads /\ Toolless \subseteq Workloads
  /\ NoClaim \notin Claims /\ NoPod \notin Workloads \cup Helpers
  /\ Workloads \cap Helpers = {}

VARIABLES
  ctx, gen, switching,  \* the cluster, the view generation, a switch in flight
  mode, under,          \* the screen, and the one an overlay covers
  onClaims,             \* the table lists claims
  dialog,               \* the question asked, and where its answer returns to
  pvc,                  \* the browser's state
  tasks,                \* requests begun and not yet handled
  alive, home,          \* helper pods, and the cluster and claim each is for
  deletes,              \* deletions spawned and not yet run
  warned                \* helpers the user was told are left behind

vars == <<ctx, gen, switching, mode, under, onClaims, dialog, pvc, tasks, alive, home,
          deletes, warned>>
world == <<ctx, gen, switching, onClaims>>
cluster == <<alive, home, warned>>

-----------------------------------------------------------------------------
(* Mounts, and what a claim can be browsed through.                        *)

NoMount == [pod |-> NoPod, helper |-> FALSE, ro |-> FALSE, sub |-> WholeVolume]
NoRecovery == [original |-> NoMount, candidates |-> {}, helper |-> "none"]
NoDialog == [what |-> "none", back |-> "Table"]

\* mounts_in, for a consumer: a helper left behind is found like any other pod.
MountOf(p) ==
  IF p \in Helpers THEN [pod |-> p, helper |-> FALSE, ro |-> FALSE, sub |-> WholeVolume]
  ELSE [pod |-> p, helper |-> FALSE, ro |-> p \in ReadOnlyMount, sub |-> SubPath[p]]

Consumers(c, claim, up) ==
  {w \in up : Consumer[w] = claim}
    \cup {h \in alive : home[h] = [ctx |-> c, claim |-> claim]}

\* find_mount takes the first of the running consumers, those that may write
\* first; the server lists them in any order.
FoundMounts(pods) ==
  LET writable == {p \in pods : ~MountOf(p).ro}
  IN {MountOf(p) : p \in IF writable # {} THEN writable ELSE pods}

\* helper_options: whether a second pod may mount the claim as the first did.
HelperAllowed(claim, pods, original) ==
  /\ original.sub # Unresolved
  /\ AccessModes[claim] # {}
  /\ "RWOP" \in AccessModes[claim] => pods = {}
  /\ "RWO" \in AccessModes[claim] /\ pods # {} =>
       Cardinality({Node[p] : p \in pods \cap Workloads}) = 1

\* apply_helper_options: the helper is no wider than the mount it stands in for.
HelperMount(h, claim, original) ==
  IF original = NoMount THEN [pod |-> h, helper |-> TRUE, ro |-> FALSE, sub |-> WholeVolume]
  ELSE [pod |-> h, helper |-> TRUE, sub |-> original.sub,
        ro |-> original.ro \/ AccessModes[claim] = {"ROX"}]

\* Mutant: a candidate keeps its own mode.
CandidatesAsFound(claim, pods, original) ==
  {m \in {MountOf(p) : p \in pods \ {original.pod}} :
     original.sub # Unresolved /\ m.sub = original.sub}

\* recovery_plan: other mounts of the same part of the volume.
Candidates(claim, pods, original) ==
  {[m EXCEPT !.ro = m.ro \/ original.ro] :
     m \in {m \in {MountOf(p) : p \in pods \ {original.pod}} :
              original.sub # Unresolved /\ m.sub = original.sub}}

-----------------------------------------------------------------------------
(* The browser.  p is its state; `entries` is the pod and directory whose  *)
(* rows are in the pane, and `first` (history only) the mount the claim    *)
(* was opened through.                                                     *)

NoEntries == [pod |-> NoPod, dir |-> "root"]

Request(kind, p, m) ==
  [kind |-> kind, gen |-> gen, run |-> p.run, ctx |-> ctx, claim |-> p.claim,
   dir |-> p.path, mount |-> m]

\* open_remote_dir.
OpenRemoteDir(p, d) == [p EXCEPT !.run = @ + 1, !.path = d, !.loading = TRUE]
Listing(p) == Request("list", p, p.mount)

\* leave_pvc_explore: the caller deletes the mount it drops.
Left(p) ==
  [p EXCEPT !.active = FALSE, !.mount = NoMount, !.shell = FALSE, !.loading = FALSE,
            !.entries = NoEntries, !.path = "root", !.displayed = "root",
            !.recovery = NoRecovery, !.listed = FALSE, !.first = NoMount]

\* after_suspend.
Suspended(p) ==
  IF ~p.shell \/ p.active THEN [p EXCEPT !.shell = FALSE]
  ELSE [p EXCEPT !.shell = FALSE, !.mount = NoMount]

\* delete_helper: a task, against the cluster connected now.
DeleteOf(m) == IF m.helper THEN {[pod |-> m.pod, ctx |-> ctx]} ELSE {}
Dropped(p) == IF p.mount = NoMount THEN DeleteOf(pvc.mount) ELSE {}

RecoveryError(p) == [p EXCEPT !.loading = FALSE, !.error = TRUE]

OverBrowser == {"Browser", "Overlay", "Dialog"}

\* What follows every key: leaving the browser for another view releases it, and
\* so does walking away from the dialog of a shell asked for at the table.
AfterKey(p, m) ==
  LET q == IF p.active /\ m \notin OverBrowser THEN Left(p) ELSE p
  IN IF q.shell /\ ~q.active /\ m # "Dialog" THEN Suspended(q) ELSE q

AfterMsg(p, m) == IF p.active /\ m \notin OverBrowser THEN Left(p) ELSE p

Key(p, m, started) ==
  /\ mode' = m
  /\ pvc' = AfterKey(p, m)
  /\ deletes' = deletes \cup Dropped(AfterKey(p, m))
  /\ tasks' = tasks \cup started

\* begin_guarded: the guardrails pass it at once, ask first, or refuse.
Levels == {"pass", "ask", "refuse"}
Ask(what) == [what |-> what, back |-> IF mode = "Browser" THEN "Browser" ELSE "Table"]

-----------------------------------------------------------------------------
(* Keys.                                                                   *)

\* Keys stop at MaxTasks requests at once and at run MaxRun.
Room == Cardinality(tasks) < MaxTasks

\* start_pvc, for a claim that is bound and has a file system: the browser of
\* another claim is left first.
OpenClaim(claim, intent) ==
  /\ mode = "Table" /\ onClaims /\ switching = ctx
  /\ pvc.run < MaxRun /\ Room
  /\ LET p == [Left(pvc) EXCEPT !.claim = claim, !.intent = intent, !.run = @ + 1]
     IN /\ pvc' = p
        /\ tasks' = tasks \cup {Request("resolve", p, NoMount)}
  /\ deletes' = deletes \cup DeleteOf(pvc.mount)
  /\ UNCHANGED <<world, cluster, mode, under, dialog>>

\* key_pvc_explore: another directory, or this one again.
GoTo(d) ==
  /\ mode = "Browser" /\ pvc.run < MaxRun /\ Room
  /\ d = "sub" /\ pvc.displayed = "root" => pvc.entries # NoEntries
  /\ LET p == OpenRemoteDir(pvc, d) IN Key(p, mode, {Listing(p)})
  /\ UNCHANGED <<world, cluster, under, dialog>>

Escape ==
  /\ mode = "Browser" /\ Key(pvc, "Table", {})
  /\ UNCHANGED <<world, cluster, under, dialog>>

\* copy_across: a copy into the volume asks the guardrails, one out of it asks
\* before overwriting a file.
Copy(upload, level) ==
  /\ mode = "Browser" /\ level # "refuse"
  /\ pvc.run < MaxRun /\ Room
  /\ upload => ~pvc.mount.ro
  /\ ~upload => pvc.entries # NoEntries
  /\ IF level = "ask"
     THEN Key(pvc, "Dialog", {}) /\ dialog' = Ask("copy")
     ELSE Key(pvc, mode, {Request("copy", pvc, pvc.mount)}) /\ dialog' = dialog
  /\ UNCHANGED <<world, cluster, under>>

\* pvc_shell_here, when the guardrails ask; otherwise it suspends and returns.
ShellHere ==
  /\ mode = "Browser" /\ Key(pvc, "Dialog", {}) /\ dialog' = Ask("shell")
  /\ UNCHANGED <<world, cluster, under>>

\* request_pvc_clean.
AskClean ==
  /\ mode = "Overlay" /\ under = "Table" /\ Room
  /\ Key(pvc, "Dialog", {}) /\ dialog' = [what |-> "clean", back |-> "Table"]
  /\ UNCHANGED <<world, cluster, under>>

\* create_pvc_helper, unless a guardrail added meanwhile refuses.
CreateHelper(p, m) ==
  LET q == [p EXCEPT !.run = @ + 1]
  IN Key(q, m, {Request("create", q, p.recovery.original)})

\* key_confirm and key_prompt, answered yes.
Accept ==
  /\ mode = "Dialog"
  /\ dialog' = NoDialog
  /\ LET back == IF pvc.active THEN dialog.back ELSE "Table"
     IN CASE dialog.what = "helper" -> CreateHelper(pvc, back)
          [] dialog.what = "shell"  -> Key(Suspended(pvc), back, {})
          [] dialog.what = "copy"   -> Key(pvc, back, {Request("copy", pvc, pvc.mount)})
          [] dialog.what = "clean"  -> Key(pvc, back, {Request("clean", pvc, pvc.mount)})
          [] OTHER                  -> Key(pvc, back, {})
  /\ UNCHANGED <<world, cluster, under>>

\* ... or no: a shell asked for at the table gives its pod back.
Decline ==
  /\ mode = "Dialog"
  /\ dialog' = NoDialog
  /\ Key(IF dialog.what = "shell" THEN Suspended(pvc) ELSE pvc,
         IF pvc.active THEN dialog.back ELSE "Table", {})
  /\ UNCHANGED <<world, cluster, under>>

\* Any other dialog of the table, such as the one before a deletion.
AskOther ==
  /\ mode = "Table" /\ Key(pvc, "Dialog", {}) /\ dialog' = Ask("delete")
  /\ UNCHANGED <<world, cluster, under>>

\* open_palette and open_help, also over a dialog.  A shell's question is dropped.
OpenOverlay ==
  /\ mode \in {"Table", "Browser", "Dialog"}
  /\ Key(pvc, "Overlay", {}) /\ under' = mode
  /\ dialog' = IF dialog.what = "shell" /\ pvc.shell /\ ~pvc.active THEN NoDialog ELSE dialog
  /\ UNCHANGED <<world, cluster>>

CloseOverlay ==
  /\ mode = "Overlay" /\ Key(pvc, under, {}) /\ under' = "Table"
  /\ UNCHANGED <<world, cluster, dialog>>

\* Moving to another table, from a table or by a palette command.
Navigate ==
  /\ mode \in {"Table", "Overlay"} /\ gen < MaxGen
  /\ Key(pvc, "Table", {})
  /\ gen' = gen + 1 /\ onClaims' \in BOOLEAN /\ under' = "Table"
  /\ UNCHANGED <<cluster, ctx, switching, dialog>>

OpenDocument ==
  /\ mode \in {"Table", "Overlay"} /\ Key(pvc, "Away", {}) /\ under' = "Table"
  /\ UNCHANGED <<world, cluster, dialog>>

CloseDocument ==
  /\ mode = "Away" /\ Key(pvc, "Table", {})
  /\ UNCHANGED <<world, cluster, under, dialog>>

\* switch_context_inner.
SwitchContext(c) ==
  /\ mode \in {"Table", "Overlay"} /\ gen < MaxGen /\ c # ctx /\ switching = ctx
  /\ mode' = "Table" /\ under' = "Table"
  /\ pvc' = Left(pvc)
  /\ deletes' = deletes \cup DeleteOf(pvc.mount)
  /\ gen' = gen + 1 /\ switching' = c
  /\ UNCHANGED <<cluster, ctx, onClaims, dialog, tasks>>

\* Quitting awaits the deletion of the mount's helper; every task stops.
Quit ==
  /\ mode # "Quit" /\ mode' = "Quit"
  /\ alive' = IF pvc.mount.helper THEN alive \ {pvc.mount.pod} ELSE alive
  /\ pvc' = [pvc EXCEPT !.mount = NoMount]
  /\ tasks' = {} /\ deletes' = {}
  /\ UNCHANGED <<world, home, warned, under, dialog>>

-----------------------------------------------------------------------------
(* Answers.                                                                *)

\* Mutant: any listing of this generation is shown.
CurrentAnyRun(t) == t.gen = gen /\ pvc.active

\* A listing or plan is for the browser as it is now ...
Current(t) == t.gen = gen /\ t.run = pvc.run /\ pvc.active
\* ... or one it still waits for, of a generation that is over.
Waited(t) == t.gen # gen /\ t.run = pvc.run
Ignored(t) == IF Waited(t) THEN [pvc EXCEPT !.loading = FALSE] ELSE pvc

Msg(p, m, t, started, gone) ==
  LET q == AfterMsg(p, m)
  IN /\ mode' = m /\ pvc' = q
     /\ tasks' = (tasks \ {t}) \cup started
     /\ deletes' = deletes \cup gone \cup Dropped(q)

MovedOn(p) == ~p.active /\ (mode \notin {"Table", "Overlay"} \/ ~onClaims)

\* enter_pvc_target: the user may have moved on; a shell may need an answer first.
EnterTarget(p, m, t) ==
  \/ /\ MovedOn(p)
     /\ Msg([p EXCEPT !.shell = FALSE], mode, t, {}, DeleteOf(m)) /\ dialog' = dialog
  \/ /\ ~MovedOn(p) /\ p.intent = "shell"
     /\ LET q == [p EXCEPT !.mount = m, !.shell = TRUE]
        IN \/ Msg(q, "Dialog", t, {}, {}) /\ dialog' = [what |-> "shell", back |-> "Table"]
           \/ Msg(Suspended(q), mode, t, {}, IF q.active THEN {} ELSE DeleteOf(m))
              /\ dialog' = dialog
  \/ /\ ~MovedOn(p) /\ p.intent = "browse"
     /\ LET q == OpenRemoteDir([p EXCEPT !.active = TRUE, !.mount = m, !.displayed = "root",
                                         !.entries = NoEntries,
                                         !.error = p.recovery # NoRecovery,
                                         !.first = IF @ = NoMount THEN m ELSE @], "root")
        IN Msg(q, "Browser", t, {Listing(q)}, {})
     /\ dialog' = dialog

\* offer_pvc_helper.
OfferHelper(p, t, level) ==
  IF level = "refuse"
  THEN /\ dialog' = dialog
       /\ Msg(IF p.recovery # NoRecovery /\ mode = "Browser" THEN RecoveryError(p) ELSE p,
              mode, t, {}, {})
  ELSE Msg(p, "Dialog", t, {}, {}) /\ dialog' = Ask("helper")

\* Mutant: a pod of another cluster is deleted in this one.
DiscardAnywhere(t, m) ==
  /\ deletes' = deletes \cup DeleteOf(m)
  /\ UNCHANGED warned
  /\ pvc' = AfterMsg(pvc, mode) /\ tasks' = tasks \ {t}
  /\ UNCHANGED <<mode, dialog>>

\* discard_pvc_target: the answer of a generation that is over.
Discard(t, m) ==
  /\ IF t.ctx # ctx
     THEN deletes' = deletes /\ warned' = IF m.helper THEN warned \cup {m.pod} ELSE warned
     ELSE deletes' = deletes \cup DeleteOf(m) /\ UNCHANGED warned
  /\ pvc' = AfterMsg(pvc, mode) /\ tasks' = tasks \ {t}
  /\ UNCHANGED <<mode, dialog>>

\* Mutant: a superseded answer is dropped.
SupersededDropped(t, m) == Msg(pvc, mode, t, {}, {}) /\ UNCHANGED <<warned, dialog>>

\* The user asked for something else meanwhile.
Superseded(t, m) == Msg(pvc, mode, t, {}, DeleteOf(m)) /\ UNCHANGED <<warned, dialog>>

\* handle_pvc_target with a mount.
TargetFound(t, m) ==
  IF t.gen # gen THEN Discard(t, m)
  ELSE IF t.run # pvc.run THEN Superseded(t, m)
  ELSE EnterTarget(pvc, m, t) /\ UNCHANGED warned

TargetFails(t) ==
  /\ UNCHANGED <<warned, dialog>>
  /\ IF t.gen = gen /\ t.run = pvc.run /\ pvc.recovery # NoRecovery
     THEN Msg(RecoveryError(pvc), mode, t, {}, {})
     ELSE Msg(pvc, mode, t, {}, {})

\* spawn_pvc_resolve lists the pods, of which those in `up` run.
ResolveAnswers(t, up) ==
  /\ t.kind = "resolve"
  /\ LET pods == Consumers(t.ctx, t.claim, up)
     IN \/ \E m \in FoundMounts(pods) : TargetFound(t, m)
        \/ /\ pods = {} /\ UNCHANGED warned
           /\ IF t.gen # gen \/ t.run # pvc.run THEN Msg(pvc, mode, t, {}, {}) /\ dialog' = dialog
              ELSE \E level \in Levels : OfferHelper(pvc, t, level)
        \/ TargetFails(t)
  /\ UNCHANGED <<world, alive, home, under>>

\* start_helper creates the pod ...
PodCreated(t) ==
  /\ t.kind = "create"
  /\ \E h \in Helpers \ DOMAIN home :
       /\ \A g \in Helpers \ DOMAIN home : h <= g
       /\ alive' = alive \cup {h}
       /\ home' = [g \in DOMAIN home \cup {h} |->
                     IF g = h THEN [ctx |-> t.ctx, claim |-> t.claim] ELSE home[g]]
       /\ tasks' = (tasks \ {t}) \cup
                   {[t EXCEPT !.kind = "created", !.mount = HelperMount(h, t.claim, t.mount)]}
  /\ UNCHANGED <<world, warned, mode, under, dialog, pvc, deletes>>

\* ... unless the recovery checks it begins with refuse, or the server does.
CreateRefused(t) ==
  /\ t.kind = "create" /\ TargetFails(t) /\ UNCHANGED <<world, alive, home, under>>

\* It runs; or it ends or never starts, and start_helper deletes it.
PodReady(t) ==
  /\ t.kind = "created" /\ TargetFound(t, t.mount)
  /\ UNCHANGED <<world, alive, home, under>>

PodNeverReady(t) ==
  /\ t.kind = "created"
  /\ alive' = alive \ {t.mount.pod} /\ TargetFails(t)
  /\ UNCHANGED <<world, home, under>>

\* next_pvc_candidate.
NextCandidate(p, t) ==
  \/ \E m \in p.recovery.candidates :
       EnterTarget([p EXCEPT !.recovery.candidates = @ \ {m}], m, t)
  \/ /\ p.recovery.candidates = {}
     /\ LET q == [p EXCEPT !.recovery.helper = "none", !.loading = FALSE]
        IN IF p.recovery.helper = "allowed"
           THEN \E level \in {"ask", "refuse"} : OfferHelper(q, t, level)
           ELSE Msg(RecoveryError(q), mode, t, {}, {}) /\ dialog' = dialog

\* handle_pvc_listing, the rows of a directory.
ListingArrives(t) ==
  /\ t.kind = "list" /\ t.mount.pod \notin Toolless
  /\ Msg(IF Current(t)
         THEN [pvc EXCEPT !.loading = FALSE, !.listed = TRUE, !.recovery = NoRecovery,
                          !.error = FALSE, !.path = t.dir, !.displayed = t.dir,
                          !.entries = [pod |-> t.mount.pod, dir |-> t.dir]]
         ELSE Ignored(t), mode, t, {}, {})
  /\ UNCHANGED <<world, cluster, under, dialog>>

\* ... or a failure: a pod without the tools for it starts the recovery.
ListingFails(t) ==
  /\ t.kind = "list"
  /\ LET missing == t.mount.pod \in Toolless
         p == [pvc EXCEPT !.loading = FALSE, !.path = t.dir]
         recovers == /\ ~p.listed /\ mode = "Browser" /\ missing
                     /\ ~p.mount.helper /\ t.dir = "root"
     IN IF ~Current(t)
        THEN Msg(Ignored(t), mode, t, {}, {}) /\ dialog' = dialog
        ELSE \/ /\ recovers /\ p.recovery # NoRecovery /\ NextCandidate(p, t)
             \/ /\ recovers /\ p.recovery = NoRecovery
                /\ LET q == [p EXCEPT !.error = TRUE, !.loading = TRUE, !.run = @ + 1,
                                      !.recovery = [NoRecovery EXCEPT !.original = p.mount]]
                   IN Msg(q, mode, t, {Request("recover", q, p.mount)}, {})
                /\ dialog' = dialog
             \/ /\ ~recovers /\ p.recovery # NoRecovery
                /\ Msg(RecoveryError(p), mode, t, {}, {}) /\ dialog' = dialog
             \/ /\ ~recovers /\ p.recovery = NoRecovery
                /\ Msg([p EXCEPT !.path = p.displayed,
                                 !.error = p.error \/ (p.entries = NoEntries /\ p.displayed = t.dir)],
                       mode, t, {}, {})
                /\ dialog' = dialog
  /\ UNCHANGED <<world, cluster, under>>

\* handle_pvc_recovery.
RecoveryAnswers(t, up) ==
  /\ t.kind = "recover"
  /\ LET pods == Consumers(t.ctx, t.claim, up)
         plan == [original |-> t.mount, candidates |-> Candidates(t.claim, pods, t.mount),
                  helper |-> IF HelperAllowed(t.claim, pods, t.mount) THEN "allowed" ELSE "refused"]
     IN IF ~Current(t)
        THEN Msg(Ignored(t), mode, t, {}, {}) /\ dialog' = dialog
        ELSE \/ /\ mode = "Browser" /\ pvc.recovery # NoRecovery
                /\ NextCandidate([pvc EXCEPT !.loading = FALSE, !.recovery = plan], t)
             \/ Msg(RecoveryError(pvc), mode, t, {}, {}) /\ dialog' = dialog
  /\ UNCHANGED <<world, cluster, under>>

\* Msg::TransferDone: refresh_pvc_panes lists the shown directory again.
CopyDone(t) ==
  /\ t.kind = "copy"
  /\ IF t.gen = gen /\ pvc.active
     THEN LET q == OpenRemoteDir(pvc, pvc.displayed) IN Msg(q, mode, t, {Listing(q)}, {})
     ELSE Msg(pvc, mode, t, {}, {})
  /\ UNCHANGED <<world, cluster, under, dialog>>

CopyFails(t) ==
  /\ t.kind = "copy" /\ Msg(pvc, mode, t, {}, {})
  /\ UNCHANGED <<world, cluster, under, dialog>>

\* cleanup_pvc_helpers spares the helper in use when it was asked for.
Cleaned(t) ==
  /\ t.kind = "clean"
  /\ alive' = {h \in alive : home[h].ctx # t.ctx \/ (t.mount.helper /\ t.mount.pod = h)}
  /\ Msg(pvc, mode, t, {}, {})
  /\ UNCHANGED <<world, home, warned, under, dialog>>

\* A spawned deletion reaches the server of its client.
DeleteRuns(d) ==
  /\ deletes' = deletes \ {d}
  /\ alive' = {h \in alive : h # d.pod \/ home[h].ctx # d.ctx}
  /\ UNCHANGED <<world, home, warned, mode, under, dialog, pvc, tasks>>

\* apply_context_switch, or its failure: the screen stays, unless the destination that was
\* armed opens a table or a document.
SwitchLands ==
  /\ switching # ctx
  /\ ctx' = switching /\ switching' = switching /\ gen' = gen + 1
  /\ onClaims' \in BOOLEAN
  /\ mode' \in {mode, "Table", "Away"}
  /\ pvc' = AfterMsg(pvc, mode')
  /\ deletes' = deletes \cup Dropped(pvc')
  /\ UNCHANGED <<cluster, under, dialog, tasks>>

SwitchFails ==
  /\ switching # ctx /\ switching' = ctx
  /\ UNCHANGED <<cluster, ctx, gen, onClaims, mode, under, dialog, pvc, tasks, deletes>>

\* finish_namespace_pattern restarts the watch, of another kind perhaps, under
\* whatever is open.
WatchRestarts ==
  /\ gen < MaxGen /\ gen' = gen + 1 /\ onClaims' \in BOOLEAN
  /\ UNCHANGED <<cluster, ctx, switching, mode, under, dialog, pvc, tasks, deletes>>

-----------------------------------------------------------------------------
Init ==
  /\ ctx = FirstContext /\ gen = 1 /\ switching = ctx
  /\ mode = "Table" /\ under = "Table" /\ onClaims = TRUE
  /\ dialog = NoDialog
  /\ pvc = [active |-> FALSE, claim |-> NoClaim, intent |-> "browse", mount |-> NoMount,
            run |-> 0, path |-> "root", displayed |-> "root", entries |-> NoEntries,
            listed |-> FALSE, loading |-> FALSE, error |-> FALSE, shell |-> FALSE,
            recovery |-> NoRecovery, first |-> NoMount]
  /\ tasks = {} /\ alive = {} /\ home = <<>> /\ deletes = {} /\ warned = {}

Keys ==
  \/ \E c \in Claims, intent \in {"browse", "shell"} : OpenClaim(c, intent)
  \/ \E d \in Dirs : GoTo(d)
  \/ \E upload \in BOOLEAN, level \in Levels : Copy(upload, level)
  \/ Escape \/ ShellHere \/ AskClean \/ AskOther \/ Accept \/ Decline
  \/ OpenOverlay \/ CloseOverlay \/ Navigate \/ OpenDocument \/ CloseDocument
  \/ \E c \in Contexts : SwitchContext(c)
  \/ Quit

Answers ==
  \E t \in tasks :
    \/ \E up \in SUBSET Workloads : ResolveAnswers(t, up) \/ RecoveryAnswers(t, up)
    \/ PodCreated(t) \/ CreateRefused(t) \/ PodReady(t) \/ PodNeverReady(t)
    \/ ListingArrives(t) \/ ListingFails(t)
    \/ CopyDone(t) \/ CopyFails(t) \/ Cleaned(t)

Deletions == \E d \in deletes : DeleteRuns(d)

Running == mode # "Quit"
Next ==
  \/ Keys
  \/ Answers
  \/ Deletions
  \/ Running /\ (SwitchLands \/ SwitchFails \/ WatchRestarts)

Spec == Init /\ [][Next]_vars

\* start_helper gives up on a pod that is not ready in time, the loop handles its
\* answer, and the runtime runs a spawned deletion.
HelperAnswers(h) ==
  \E t \in tasks : t.mount.pod = h /\ (PodReady(t) \/ PodNeverReady(t))

FairSpec ==
  /\ Spec
  /\ \A h \in Helpers : WF_vars(HelperAnswers(h))
  /\ \A h \in Helpers, c \in Contexts :
       WF_vars([pod |-> h, ctx |-> c] \in deletes /\ DeleteRuns([pod |-> h, ctx |-> c]))
=============================================================================
