----------------------------- MODULE MCBallots -----------------------------
(***************************************************************************)
(* The two things a ballot relies on: the commitment tree, in which it is  *)
(* cast and anchored, and the threshold tally, which opens only the sum.   *)
(* They share no state, so a behaviour runs one of them, chosen at the     *)
(* start, and the other rests.                                             *)
(***************************************************************************)
EXTENDS CommitmentTree, ThresholdTally

CONSTANTS n1, n2, g1, g2, o1, o2

VARIABLE part

\* Four dealers of the second and one of the first add up to a key of zero,
\* which the last contribution must not be accepted with.
MCDraws == {<<3, 1, 4, 1>>, <<2, 9, 5, 6>>}
MCPallasSk == <<2, 3, 4, 5, 7>>

BallotSymmetry ==
    Permutations({n1, n2}) \cup Permutations({g1, g2}) \cup Permutations({o1, o2})

MCInit ==
    /\ part \in {"tree", "tally"}
    /\ Init
    /\ IF part = "tally" THEN TallyInit ELSE TallyStart(CHOOSE size \in Sizes : TRUE)

MCNext ==
    \/ part = "tree" /\ Next /\ UNCHANGED <<part, tallyVars>>
    \/ part = "tally" /\ TallyNext /\ UNCHANGED <<part, vars>>

MCSpec == MCInit /\ [][MCNext]_<<part, vars, tallyVars>>

\* PagesComplete, where the tree steps, after each block (transactions leave the
\* stored ranges alone): following the pages of CommitmentLeaves yields every
\* block with leaves exactly once.
TreePagesComplete == part = "tree" /\ ~open => PagesComplete

=============================================================================
