--------------------------- MODULE MCHelperQueue ----------------------------
(* One share, so that two workers, a crash and a repair all meet at it. *)
EXTENDS HelperQueue

CONSTANT s1

OneRound == [k \in Shares |-> 1]

=============================================================================
