---------------------------- MODULE CeremonyMath ----------------------------
(***************************************************************************)
(* The two quorum formulas of x/vote/keeper/keeper_ceremony.go and the     *)
(* assignment of Shamir evaluation points to a snapshot of validators.     *)
(* Validator operator addresses are modelled by natural numbers: the only  *)
(* thing the code uses about them, besides equality, is the order in which *)
(* the key-value store iterates over them.                                 *)
(***************************************************************************)
EXTENDS Integers, FiniteSets

\* Tally reconstruction threshold for n validators (n >= 1): ceil(2n/3), at
\* least 2 when there is more than one validator.
ThresholdForN(n) ==
    LET t == (2 * n + 2) \div 3
    IN  IF n = 1 THEN 1 ELSE IF t < 2 THEN 2 ELSE t

\* Mutant: the quorum of half the validators that HalfAcked computes.
HalfQuorumForN(n) == (n + 1) \div 2

\* Number of acks that lets a timed-out ceremony still activate: ceil(4n/5).
RequiredCeremonyQuorumForN(n) == (4 * n + 4) \div 5

\* The 1-based position of validator v in the snapshot S, taken in key order.
ShamirIndexOf(S, v) == Cardinality({w \in S : w <= v})

=============================================================================
