-------------------------- MODULE MCCommitmentTree --------------------------
(* Two nodes, so that one can restart while the other runs on. *)
EXTENDS CommitmentTree

CONSTANTS n1, n2, g1, g2

=============================================================================
