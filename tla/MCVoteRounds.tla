---------------------------- MODULE MCVoteRounds ----------------------------
(* Instances of VoteRounds for TLC. *)
EXTENDS VoteRounds

\* Two shares for one option and one for another.  The two "yes" shares add up
\* to 3, so a TallyBSGSBound of 4 lets every total be recovered and a bound of 3
\* leaves a round whose tally no proposer can complete.
MCShares  == {"s1", "s2", "s3"}
MCSlots   == {"yes", "no"}
MCSlotOf  == [s \in MCShares |-> IF s = "s2" THEN "no" ELSE "yes"]
MCValueOf == [s \in MCShares |-> IF s = "s3" THEN 2 ELSE 1]

\* One share for each option, for the instances with two rounds.
MCPair        == {"s1", "s2"}
MCPairSlotOf  == [s \in MCPair |-> IF s = "s2" THEN "no" ELSE "yes"]
MCPairValueOf == [s \in MCPair |-> IF s = "s1" THEN 1 ELSE 2]

=============================================================================
