--------------------------- MODULE PvcExploreProps ---------------------------
(***************************************************************************)
(* What browsing a volume must not leave behind, mix up or widen.          *)
(***************************************************************************)
EXTENDS PvcExplore

TypeOK ==
  /\ ctx \in Contexts /\ switching \in Contexts /\ gen \in Nat
  /\ mode \in {"Table", "Browser", "Overlay", "Dialog", "Away", "Quit"}
  /\ alive \subseteq DOMAIN home /\ warned \subseteq DOMAIN home
  /\ pvc.run \in Nat /\ pvc.claim \in Claims \cup {NoClaim}

\* Who is going to delete helper h.
Owned(h) ==
  \/ \E t \in tasks : t.kind = "created" /\ t.mount.pod = h
  \/ pvc.mount.helper /\ pvc.mount.pod = h
  \/ [pod |-> h, ctx |-> home[h].ctx] \in deletes

\* No helper pod is forgotten: while sofka runs each one is still being started,
\* is what the browser or a shell uses, is being deleted in the cluster it is in, or
\* was reported as left behind - and nothing else is ever deleted, least of all a
\* pod of that name in another cluster.
HelpersAccounted ==
  /\ Running => \A h \in alive : Owned(h) \/ h \in warned
  /\ \A d \in deletes : d.pod \in DOMAIN home /\ home[d.pod].ctx = d.ctx

\* The rows in the volume's pane are those of the pod it is browsed through and of
\* the directory that copies and shells act on, whatever listings arrive late.
PaneShowsItsOwn ==
  pvc.active /\ Running /\ pvc.entries # NoEntries =>
    pvc.entries = [pod |-> pvc.mount.pod, dir |-> pvc.displayed]

\* A pane that waits for nothing names the directory whose rows it shows, and
\* never reads "empty" because nothing could be listed (handle_pvc_listing: "the
\* one thing an unreadable volume must never say").
PaneTellsTheTruth ==
  pvc.active /\ Running /\ ~pvc.loading =>
    /\ pvc.path = pvc.displayed
    /\ pvc.entries = NoEntries => pvc.error

\* Recovering a browser whose pod has no shell never leads to a wider mount: it
\* shows the same part of the volume, and a read-only mount stays read-only.
RecoveryNeverWidens ==
  pvc.active /\ Running =>
                /\ pvc.mount.sub = pvc.first.sub
                /\ pvc.first.ro => pvc.mount.ro

\* A helper nobody uses any more is gone in the end, unless sofka quits first or it
\* was left behind in another cluster.
HelpersGo ==
  \A h \in Helpers :
    (h \in alive /\ Running /\ ~(pvc.mount.helper /\ pvc.mount.pod = h)) ~>
      \/ h \notin alive \/ h \in warned \/ ~Running
      \/ pvc.mount.helper /\ pvc.mount.pod = h

\* A dialog the user has not answered stays (enter_pvc_target: "opening the browser
\* over it would discard a decision the user has not made yet").
DialogStays ==
  [][mode = "Dialog" /\ dialog.what = "delete" /\ mode' = "Dialog" => dialog' = dialog]_vars
=============================================================================
