----------------------------- MODULE StateFiles -----------------------------
(***************************************************************************)
(* What remembering the user's choices promises: the file of a choice only *)
(* ever moves forward, to some choice the user really made, and the next   *)
(* session starts from what the file holds.  Choices are numbered; 0 is    *)
(* the default an absent file reads as.                                    *)
(***************************************************************************)
EXTENDS Naturals

CONSTANT Files

VARIABLES
  memory, \* memory[f]: the latest choice of the session
  saved,  \* saved[f]: what a session starting now would load
  up      \* the process exists

vars == <<memory, saved, up>>

Init ==
  /\ memory = [f \in Files |-> 0]
  /\ saved = [f \in Files |-> 0]
  /\ up = TRUE

Choose(f) ==
  /\ up
  /\ memory' = [memory EXCEPT ![f] = @ + 1]
  /\ UNCHANGED <<saved, up>>

\* Choices may be skipped, never revived.
Save(f) ==
  /\ up
  /\ \E choice \in saved[f] + 1 .. memory[f] : saved' = [saved EXCEPT ![f] = choice]
  /\ UNCHANGED <<memory, up>>

Stop ==
  /\ up /\ up' = FALSE
  /\ UNCHANGED <<memory, saved>>

Restart ==
  /\ ~up /\ up' = TRUE
  /\ memory' = saved
  /\ UNCHANGED saved

Next ==
  \/ \E f \in Files : Choose(f) \/ Save(f)
  \/ Stop \/ Restart

Spec == Init /\ [][Next]_vars
=============================================================================
