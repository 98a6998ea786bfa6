-------------------------- MODULE MCGuardedActions --------------------------
(* A small instance of GuardedActions for TLC: a careful context, one that
   denies deleting manifests, and a read-only one. *)
EXTENDS GuardedActionsProps, TLC

CONSTANTS prod, dev, stage, f1, f2, pods, services

MCGuard ==
  [c \in Contexts |->
     [verb \in Verbs |-> CASE c = prod /\ verb = "delete" -> "type context"
                            [] c = prod /\ verb # "delete" -> "type name"
                            [] c # prod /\ verb = "delete" -> "deny"
                            [] c # prod /\ verb # "delete" -> "plain"]]

\* Manifests and kinds are interchangeable.
MCSymmetry == Permutations(Files) \cup Permutations(Kinds)
=============================================================================
