------------------------- MODULE GuardedActionsProps -------------------------
(***************************************************************************)
(* A change is made to what was shown, where it was shown, under the rules *)
(* of that place.                                                          *)
(***************************************************************************)
EXTENDS GuardedActions

Modes == {"table", "dir", "diff", "confirm", "prompt", "command"}

TypeOK ==
  /\ context \in Contexts /\ generation \in Nat /\ switch \in Contexts \cup {NoContext}
  /\ rows \in Contexts \cup {NoContext}
  /\ kind \in Kinds /\ lookup \in Kinds \cup {NoKind} /\ mode \in Modes /\ paletteReturn \in Modes
  /\ selected \in Files /\ content \in [Files -> Nat] /\ request \in Nat
  /\ plans \subseteq Plan /\ preview \subseteq Plan /\ dialog \subseteq Dialog
  /\ diffed \subseteq Plan
  /\ ran \subseteq [dialog : Dialog, typed : BOOLEAN, context : Contexts,
                    kind : Kinds, rows : Contexts \cup {NoContext}, applied : Nat]

\* What is applied is, to the byte, what a diff showed, whatever was written to the
\* file, selected or asked for since. (src/src/app/dir.rs 4-7)
AppliesWhatWasShown ==
  \A r \in ran : r.dialog.plan.verb = "apply" =>
                   /\ r.dialog.plan \in diffed
                   /\ r.applied = r.dialog.plan.rendered

\* Nothing runs that the guardrails of the context in its dialog deny, in a read-only
\* context, or with less than the confirmation they ask for.
GuardrailsHold ==
  \A r \in ran : LET d == r.dialog IN
    /\ Guard[d.named][d.plan.verb] = d.level
    /\ d.level # "plain" => r.typed
    /\ d.named \notin ReadOnly

\* Rows are deleted in the context they were read from and that the dialog named,
\* although the action runs against whatever cluster is connected.
RowsDeletedWhereShown ==
  \A r \in ran : r.dialog.plan.verb = "delete rows" =>
                   /\ r.context = r.dialog.named
                   /\ r.dialog.plan.base = r.context

\* An apply preview can be confirmed only while its diff is on screen or under the
\* palette.
PreviewOnScreen ==
  preview # {} => mode = "diff" \/ (mode = "command" /\ paletteReturn = "diff")

\* "A dialog or prompt keeps acting on the kind it was opened for" (docs/features.md
\* 582): what is deleted is of the kind the dialog named.
DeletesKindNamed ==
  \A r \in ran : r.dialog.plan.verb = "delete rows" => r.kind = r.dialog.kind

\* "The diff, the guardrails, and the apply or delete all use that snapshot" and
\* "against the current context": the cluster that is changed is the one the diff
\* was made against and the dialog named.
ChangesClusterReviewed ==
  \A r \in ran : r.context = r.dialog.named /\ r.context = r.dialog.plan.base
=============================================================================
