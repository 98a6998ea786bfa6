------------------------------ MODULE MCPanes -------------------------------
(* What the screen shows of what goes on elsewhere, each on its own: the     *)
(* rows of the table, a copy's bar.                                          *)
EXTENDS Transfer, TableRows

MCShapes == {[owned |-> FALSE, faulty |-> TRUE, value |-> 0],
             [owned |-> TRUE, faulty |-> FALSE, value |-> 1]}

VARIABLE part

PanesInit ==
  /\ CopyInit /\ TableInit
  /\ \/ part = "table" /\ dest.old = 0
     \/ part = "copy" /\ ~app.workloads

PanesNext ==
  \/ part = "table" /\ TableNext /\ UNCHANGED <<part, copyVars>>
  \/ part = "copy" /\ CopyNext /\ UNCHANGED <<part, tableVars>>

PanesSpec == PanesInit /\ [][PanesNext]_<<part, copyVars, tableVars>>
=============================================================================
