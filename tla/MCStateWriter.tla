--------------------------- MODULE MCStateWriter ---------------------------
(* Small instances of StateWriter for TLC; the files are interchangeable. *)
EXTENDS StateWriterProps, TLC

CONSTANTS namespaces, sorts
MCSymmetry == Permutations(Files)
=============================================================================
