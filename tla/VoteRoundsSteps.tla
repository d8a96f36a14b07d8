-------------------------- MODULE VoteRoundsSteps ---------------------------
(***************************************************************************)
(* VoteRounds, for every value of its constants: facts about the quorums   *)
(* and Shamir indices of CeremonyMath, type correctness, the inductive     *)
(* invariant, and what a step does to the ceremonies.                      *)
(***************************************************************************)
EXTENDS VoteRounds, FiniteSetTheorems, TLAPS

-----------------------------------------------------------------------------
(* Arithmetic of the quorums. *)

\* keeper_ceremony.go: for every validator count the ack quorum is at least the
\* reconstruction threshold, which itself is between 1 and n.  (For n > 1 the
\* threshold may be 2 with n = 2, hence the bound n, not n - 1.)
THEOREM QuorumCoversThreshold ==
    ASSUME NEW n \in Nat, n >= 1
    PROVE  /\ ThresholdForN(n) \in Nat
           /\ ThresholdForN(n) >= 1
           /\ ThresholdForN(n) <= n
           /\ ThresholdForN(n) <= RequiredCeremonyQuorumForN(n)
           /\ RequiredCeremonyQuorumForN(n) <= n
  BY SMT DEF ThresholdForN, RequiredCeremonyQuorumForN

-----------------------------------------------------------------------------
(* Shamir indices. *)

\* Any set of ceremony validators is finite and no larger than the validator
\* set, so every shamir_index fits Indices.
LEMMA SubsetFinite ==
    ASSUME NEW S \in SUBSET Validators
    PROVE  /\ IsFiniteSet(S)
           /\ Cardinality(S) \in Nat
           /\ Cardinality(S) <= Cardinality(Validators)
           /\ Cardinality(Validators) \in Nat
<1>1. IsFiniteSet(Validators)
  BY ConstantsAssumption DEF ConstantsAssumption
<1>2. IsFiniteSet(S) /\ Cardinality(S) <= Cardinality(Validators)
  BY <1>1, FS_Subset, Zenon
<1>3. Cardinality(S) \in Nat /\ Cardinality(Validators) \in Nat
  BY <1>1, <1>2, FS_CardinalityType, Zenon
<1> QED BY <1>2, <1>3

\* A ceremony with a proposer in it is not empty.
LEMMA NonEmptyCount ==
    ASSUME NEW S \in SUBSET Validators, NEW v \in S
    PROVE  Cardinality(S) >= 1
<1>1. IsFiniteSet(S) /\ Cardinality(S) \in Nat
  BY SubsetFinite
<1>2. Cardinality(S) # 0
  BY <1>1, FS_EmptySet
<1> QED
  BY <1>1, <1>2

\* The snapshot positions handed out by executeCreateVotingSession lie in
\* 1..n and are pairwise different.
LEMMA IndexRange ==
    ASSUME NEW S \in SUBSET Validators, NEW v \in S
    PROVE  ShamirIndexOf(S, v) \in 1 .. Cardinality(Validators)
<1> DEFINE B == {w \in S : w <= v}
<1>0. v \in Nat /\ S \subseteq Validators
  BY ConstantsAssumption DEF ConstantsAssumption
<1>1. B \in SUBSET Validators
  BY <1>0, Zenon
<1>1a. v \in B
  BY <1>0
<1>2. /\ IsFiniteSet(B)
      /\ Cardinality(B) \in Nat
      /\ Cardinality(B) <= Cardinality(Validators)
      /\ Cardinality(Validators) \in Nat
  BY <1>1, SubsetFinite
<1>3. Cardinality(B) # 0
  BY <1>1a, <1>2, FS_EmptySet
<1> QED
  BY <1>2, <1>3 DEF ShamirIndexOf

\* A validator later in key order has a larger position in the snapshot
\* (executeCreateVotingSession numbers the eligible validators in order).
LEMMA IndexIncreasing ==
    ASSUME NEW S \in SUBSET Validators, NEW v \in S, NEW w \in S, v < w
    PROVE  ShamirIndexOf(S, v) # ShamirIndexOf(S, w)
<1> DEFINE B == {x \in S : x <= v}
           C == {x \in S : x <= w}
<1>1. v \in Nat /\ w \in Nat /\ S \subseteq Nat
  BY ConstantsAssumption DEF ConstantsAssumption
<1>2. B \in SUBSET C
  <2>1. \A x \in S : x <= v => x <= w
    BY <1>1
  <2> QED
    BY <2>1, Zenon
<1>2a. w \in C
  BY <1>1
<1>2b. w \notin B
  BY <1>1
<1>3. IsFiniteSet(C)
  BY SubsetFinite
<1>4. Cardinality(C) = Cardinality(B) => C = B
  BY <1>2, <1>3, FS_Subset
<1> QED
  BY <1>2a, <1>2b, <1>4 DEF ShamirIndexOf

\* No two validators of a snapshot have the same Shamir index.
LEMMA IndexInjective ==
    ASSUME NEW S \in SUBSET Validators, NEW v \in S, NEW w \in S,
           ShamirIndexOf(S, v) = ShamirIndexOf(S, w)
    PROVE  v = w
<1>1. v \in Nat /\ w \in Nat
  BY ConstantsAssumption DEF ConstantsAssumption
<1>2. ~(v < w) /\ ~(w < v)
  BY IndexIncreasing
<1> QED
  BY <1>1, <1>2

\* The indices of a snapshot stay within 0..|Validators|.
LEMMA SnapshotIndicesType ==
    ASSUME NEW S \in SUBSET Validators
    PROVE  /\ SnapshotIndices(S) \in [Validators -> Indices]
           /\ \A v \in S : SnapshotIndices(S)[v] > 0
           /\ \A v, w \in S : SnapshotIndices(S)[v] = SnapshotIndices(S)[w] => v = w
<1>1. Cardinality(Validators) \in Nat
  BY SubsetFinite
<1>2. \A v \in S : ShamirIndexOf(S, v) \in 1 .. Cardinality(Validators)
  BY IndexRange
<1>3. \A v, w \in S : ShamirIndexOf(S, v) = ShamirIndexOf(S, w) => v = w
  BY IndexInjective
<1>4. \A v \in S : SnapshotIndices(S)[v] = ShamirIndexOf(S, v)
  BY DEF SnapshotIndices
<1>5. \A v \in Validators :
         (IF v \in S THEN ShamirIndexOf(S, v) ELSE 0) \in Indices
  BY <1>1, <1>2 DEF Indices
<1>6. SnapshotIndices(S) \in [Validators -> Indices]
  BY <1>5 DEF SnapshotIndices
<1> QED
  BY <1>1, <1>2, <1>3, <1>4, <1>6

-----------------------------------------------------------------------------
(* Types. *)

\* An accumulator state is never mistaken for a missing partial decryption.
LEMMA VectorsType ==
    /\ EmptyTally \in TallyBags
    /\ EmptyTally # Absent
    /\ \A b \in TallyBags : b # Absent
    /\ 0 \in Indices
<1>1. Shares # {} /\ Cardinality(Validators) \in Nat
  BY ConstantsAssumption, SubsetFinite DEF ConstantsAssumption
<1>2. \A b \in TallyBags : b # Absent
  BY <1>1 DEF TallyBags, Absent
<1>3. EmptyTally \in TallyBags
  BY DEF EmptyTally, TallyBags
<1>4. 0 \in Indices
  BY <1>1 DEF Indices
<1> QED
  BY <1>2, <1>3, <1>4

\* The empty store is well typed.
LEMMA TypeInit == Init => TypeOK
<1> SUFFICES ASSUME Init PROVE TypeOK
  OBVIOUS
<1>1. 0 \in Indices /\ EmptyTally \in TallyBags
  BY VectorsType
<1>2. [v \in Validators |-> 0] \in [Validators -> Indices]
  BY <1>1
<1>3. [i \in Indices |-> Absent] \in [Indices -> TallyBags \cup {Absent}]
  OBVIOUS
<1>4. DOMAIN results = Rounds /\ \A r \in Rounds : results[r] = Absent
  BY DEF Init
<1> QED
  BY <1>1, <1>2, <1>3, <1>4 DEF Init, TypeOK, Statuses, Ceremonies

\* A new session keeps the store well typed (executeCreateVotingSession).
LEMMA CreationTypes ==
    ASSUME TypeOK,
           NEW r \in Rounds, NEW S \in SUBSET Validators, NEW end \in VoteEnds, CreateVotingSession(r, S, end)
    PROVE  TypeOK'
<1> USE DEF TypeOK
<1>1. SnapshotIndices(S) \in [Validators -> Indices]
  BY SnapshotIndicesType
<1>2. end \in Nat /\ ContributionTimeout \in Nat
  BY ConstantsAssumption DEF ConstantsAssumption
<1> QED
  BY <1>1, <1>2 DEF CreateVotingSession, blockVars, shareVars, decryptVars,
     Statuses, Ceremonies

\* So does a contribution, also the last one (ContributeDKG, finalizeDKG).
LEMMA ContributionTypes ==
    ASSUME TypeOK,
           NEW r \in Rounds, ContributeDKG(r)
    PROVE  TypeOK'
<1> USE DEF TypeOK
<1>1. SnapshotIndices(vals[r]) \in [Validators -> Indices]
  BY SnapshotIndicesType
<1>2. DealTimeout \in Nat
  BY ConstantsAssumption DEF ConstantsAssumption
<1>3. ThresholdForN(Cardinality(vals[r])) \in Nat
  <2>1. vals[r] \in SUBSET Validators /\ proposer \in vals[r]
    BY DEF ContributeDKG
  <2>2. Cardinality(vals[r]) \in Nat /\ Cardinality(vals[r]) >= 1
    BY <2>1, SubsetFinite, NonEmptyCount, Zenon
  <2> QED
    BY <2>2, QuorumCoversThreshold
<1>4. contribs' \in [Rounds -> SUBSET Validators]
  BY DEF ContributeDKG
<1>5. /\ threshold' \in [Rounds -> Nat]
      /\ shamir' \in [Rounds -> [Validators -> Indices]]
      /\ dealt' \in [Rounds -> [Validators -> Indices]]
      /\ deadline' \in [Rounds -> Nat]
      /\ ceremony' \in [Rounds -> Ceremonies]
  <2>1. CASE FinalizeDKG(r)
    BY <2>1, <1>1, <1>2, <1>3 DEF FinalizeDKG, Ceremonies
  <2>2. CASE UNCHANGED <<threshold, shamir, dealt, deadline, ceremony>>
    BY <2>2
  <2> QED
    BY <2>1, <2>2 DEF ContributeDKG
<1> QED
  BY <1>4, <1>5 DEF ContributeDKG, blockVars, windowVars, shareVars,
     decryptVars

\* So does an ack (AckExecutiveAuthorityKey).
LEMMA AckTypes ==
    ASSUME TypeOK,
           NEW r \in Rounds, AckExecutiveAuthorityKey(r)
    PROVE  TypeOK'
<1>1. acks' \in [Rounds -> SUBSET Validators]
  <2>1. acks \in [Rounds -> SUBSET Validators] /\ vals \in [Rounds -> SUBSET Validators]
    BY DEF TypeOK
  <2> QED BY <2>1 DEF AckExecutiveAuthorityKey
<1>2. status' \in [Rounds -> Statuses] /\ ceremony' \in [Rounds -> Ceremonies]
  <2>1. status \in [Rounds -> Statuses] /\ ceremony \in [Rounds -> Ceremonies]
    BY DEF TypeOK
  <2>2. "ACTIVE" \in Statuses /\ "CONFIRMED" \in Ceremonies
    BY DEF Statuses, Ceremonies
  <2> QED BY <2>1, <2>2 DEF AckExecutiveAuthorityKey
<1>3. UNCHANGED <<blockVars, vals, shamir, contribs, dealt, threshold, deadline, windowVars,
                  shareVars, decryptVars>>
  BY Zenon DEF AckExecutiveAuthorityKey
<1> QED
  BY <1>1, <1>2, <1>3, Zenon DEF TypeOK, blockVars, windowVars, shareVars, decryptVars

\* So does a share added to the tally (RevealShare).
LEMMA RevealTypes ==
    ASSUME TypeOK,
           NEW r \in Rounds, NEW s \in Shares, RevealShare(r, s)
    PROVE  TypeOK'
<1> USE DEF TypeOK
<1>1. SlotOf[s] \in Slots
  BY ConstantsAssumption DEF ConstantsAssumption
<1> QED
  BY <1>1 DEF RevealShare, blockVars, ceremonyVars, windowVars, decryptVars,
     TallyBags

\* So does a partial decryption, stored under a Shamir index.
LEMMA DecryptionTypes ==
    ASSUME TypeOK,
           NEW r \in Rounds, SubmitPartialDecryption(r)
    PROVE  TypeOK'
<1> USE DEF TypeOK
<1>1. shamir[r][proposer] \in Indices
  OBVIOUS
<1>2. partials' \in [Rounds -> [Indices -> TallyBags \cup {Absent}]]
  BY <1>1 DEF SubmitPartialDecryption
<1> QED
  BY <1>2 DEF SubmitPartialDecryption, blockVars, ceremonyVars, windowVars,
     shareVars

\* So do the results (SubmitTally).
LEMMA TallyTypes ==
    ASSUME TypeOK,
           NEW r \in Rounds, SubmitTally(r)
    PROVE  TypeOK'
<1> USE DEF TypeOK
<1>1. DOMAIN TallyResults(tally[r]) = Slots
  BY DEF TallyResults
<1>2. /\ DOMAIN results' = Rounds
      /\ \A q \in Rounds : results'[q] = Absent \/ DOMAIN results'[q] = Slots
  BY <1>1 DEF SubmitTally
<1> QED
  BY <1>2 DEF SubmitTally, blockVars, ceremonyVars, windowVars, shareVars,
     Statuses

\* So does EndBlock, whatever phases end in it.
LEMMA BlockTypes ==
    ASSUME TypeOK,
           NEW d \in 0 .. MaxStep, NEW p \in Validators, EndBlock(d, p)
    PROVE  TypeOK'
<1> USE DEF TypeOK
<1>1. TallyTimeout \in Nat /\ d \in Nat
  BY ConstantsAssumption DEF ConstantsAssumption
<1>2. \A r \in Rounds : StatusAfterBlock(r) \in Statuses
  BY DEF StatusAfterBlock, Statuses
<1>3. jailed' \subseteq Validators
  BY DEF EndBlock, MissingCeremonyContributors
<1>4. \A r \in Rounds : StripNonAckers(r).I \in [Validators -> Indices]
  BY VectorsType DEF StripNonAckers
<1>5. \A r \in Rounds : StripNonAckers(r).S \subseteq Validators
  BY DEF StripNonAckers
<1>6. \A r \in Rounds : StripNonAckers(r).C \subseteq Validators
  BY DEF StripNonAckers
<1>7. status' \in [Rounds -> Statuses]
  BY <1>2 DEF EndBlock
<1>8. ceremony' \in [Rounds -> Ceremonies]
  BY DEF EndBlock, Ceremonies
<1>9. shamir' \in [Rounds -> [Validators -> Indices]]
  BY <1>4 DEF EndBlock
<1>10. vals' \in [Rounds -> SUBSET Validators]
  BY <1>5 DEF EndBlock
<1>11. contribs' \in [Rounds -> SUBSET Validators]
  BY <1>6 DEF EndBlock
<1>12. tallyEnd' \in [Rounds -> Nat] /\ time' \in Nat
  BY <1>1 DEF EndBlock
<1>13. timedOut' \in [Rounds -> BOOLEAN]
  BY Zenon DEF EndBlock, TallyTimedOut
<1> QED
  BY <1>3, <1>7, <1>8, <1>9, <1>10, <1>11, <1>12, <1>13 DEF EndBlock,
     shareVars, decryptVars

\* So do the slashing module and an unjail transaction.
LEMMA JailTypes ==
    ASSUME TypeOK,
           NEW v \in Flaky, SlashingJail(v) \/ Unjail(v)
    PROVE  TypeOK'
<1> USE DEF TypeOK
<1>1. v \in Validators
  BY ConstantsAssumption DEF ConstantsAssumption
<1> QED
  BY <1>1 DEF SlashingJail, Unjail, ceremonyVars, windowVars, shareVars,
     decryptVars

\* Every handler and EndBlock keep the store well typed.
LEMMA TypeStep == TypeOK /\ [Next]_vars => TypeOK'
<1> SUFFICES ASSUME TypeOK, [Next]_vars PROVE TypeOK'
  OBVIOUS
<1>1. ASSUME NEW r \in Rounds, NEW S \in SUBSET Validators, NEW end \in VoteEnds,
             CreateVotingSession(r, S, end)
      PROVE  TypeOK'
  BY <1>1, CreationTypes
<1>2. ASSUME NEW r \in Rounds, ContributeDKG(r) PROVE TypeOK'
  BY <1>2, ContributionTypes
<1>3. ASSUME NEW r \in Rounds, AckExecutiveAuthorityKey(r) PROVE TypeOK'
  BY <1>3, AckTypes
<1>4. ASSUME NEW r \in Rounds, NEW s \in Shares, RevealShare(r, s) PROVE TypeOK'
  BY <1>4, RevealTypes
<1>5. ASSUME NEW r \in Rounds, SubmitPartialDecryption(r) PROVE TypeOK'
  BY <1>5, DecryptionTypes
<1>6. ASSUME NEW r \in Rounds, SubmitTally(r) PROVE TypeOK'
  BY <1>6, TallyTypes
<1>7. ASSUME NEW d \in 0 .. MaxStep, NEW p \in Validators, EndBlock(d, p) PROVE TypeOK'
  BY <1>7, BlockTypes
<1>8. ASSUME NEW v \in Flaky, SlashingJail(v) \/ Unjail(v) PROVE TypeOK'
  BY <1>8, JailTypes
<1>9. CASE UNCHANGED vars
  BY <1>9 DEF TypeOK, vars, blockVars, ceremonyVars, windowVars, shareVars, decryptVars,
     StoredPartials
<1> QED
  BY <1>1, <1>2, <1>3, <1>4, <1>5, <1>6, <1>7, <1>8, <1>9 DEF Next

-----------------------------------------------------------------------------
(* The inductive invariant. *)

\* The ceremony of one round, phase by phase.
CeremonyInv(r) ==
    /\ status[r] = "NONE" => ceremony[r] = "NONE"
    /\ status[r] = "PENDING" => ceremony[r] \in {"REGISTERING", "DEALT"}
    /\ status[r] \in {"ACTIVE", "TALLYING"} => ceremony[r] = "CONFIRMED"
    /\ ceremony[r] = "NONE" => contribs[r] = {} /\ acks[r] = {}
    /\ ceremony[r] = "REGISTERING" =>
          /\ Cardinality(vals[r]) >= 1
          /\ contribs[r] \subseteq vals[r]
          /\ acks[r] = {}
    /\ ceremony[r] = "DEALT" =>
          /\ Cardinality(vals[r]) >= 1
          /\ contribs[r] = vals[r]
          /\ acks[r] \subseteq vals[r]
          /\ threshold[r] = ThresholdForN(Cardinality(vals[r]))
          /\ shamir[r] = SnapshotIndices(vals[r])
          /\ dealt[r] = SnapshotIndices(vals[r])
    /\ ceremony[r] = "CONFIRMED" =>
          /\ vals[r] \subseteq acks[r] \cap contribs[r]
          /\ Cardinality(vals[r]) >= threshold[r]
          /\ threshold[r] >= 1
          /\ \A v \in vals[r] : shamir[r][v] = dealt[r][v] /\ shamir[r][v] > 0
          /\ \A v, w \in vals[r] : shamir[r][v] = shamir[r][w] => v = w

\* Decryption of one round: partials appear only while tallying, results only
\* when finalising.
DecryptInv(r) ==
    /\ \A i \in Indices : partials[r][i] # Absent =>
          /\ status[r] \in {"TALLYING", "FINALIZED"}
          /\ partials[r][i] = tally[r]
    /\ results[r] # Absent =>
          /\ status[r] = "FINALIZED" /\ ~timedOut[r]
          /\ results[r] = BallotTotals(nullifiers[r])
    /\ timedOut[r] => status[r] = "FINALIZED"
    /\ status[r] = "FINALIZED" => (timedOut[r] <=> results[r] = Absent)

\* Whoever let a ceremony time out is jailed, unless they were unjailed.
JailInv ==
    \A f \in Rounds :
        status[f] = "CEREMONY_FAILED" /\ ceremony[f] = "REGISTERING"
        => vals[f] \ contribs[f] \subseteq jailed \cup Flaky

IInv ==
    /\ TypeOK
    /\ OneCeremonyAtATime
    /\ \A r \in Rounds : CeremonyInv(r)
    /\ CountedOnce
    /\ \A r \in Rounds : DecryptInv(r)
    /\ JailInv
    /\ NoRepeatOffender

-----------------------------------------------------------------------------
(* Ceremonies. *)

\* Only executeCreateVotingSession makes a round PENDING.
LEMMA PendingOnlyByCreation ==
    ASSUME TypeOK, [Next]_vars, NEW q \in Rounds,
           status'[q] = "PENDING", status[q] # "PENDING"
    PROVE  /\ ~HasPendingRound
           /\ \A r \in Rounds \ {q} : status'[r] = status[r]
<1> USE DEF TypeOK
<1>1. ASSUME NEW r \in Rounds, NEW S \in SUBSET Validators, NEW end \in VoteEnds,
             CreateVotingSession(r, S, end)
      PROVE  ~HasPendingRound /\ \A x \in Rounds \ {q} : status'[x] = status[x]
  BY <1>1 DEF CreateVotingSession
<1>2. ASSUME NEW d \in 0 .. MaxStep, NEW p \in Validators, EndBlock(d, p)
      PROVE  FALSE
  BY <1>2 DEF EndBlock, StatusAfterBlock, VoteEnded, RegisteringTimedOut,
     DealtTimedOut, TallyTimedOut, GetPendingRoundWithCeremony
<1>3. ASSUME NEW r \in Rounds, SubmitTally(r) PROVE FALSE
  BY <1>3 DEF SubmitTally
<1>4. ASSUME NEW r \in Rounds, AckExecutiveAuthorityKey(r) PROVE FALSE
  BY <1>4 DEF AckExecutiveAuthorityKey
<1>5. ASSUME status' = status PROVE FALSE
  BY <1>5
<1> QED
  BY <1>1, <1>2, <1>3, <1>4, <1>5, Zenon DEF Next, ContributeDKG, RevealShare,
     SubmitPartialDecryption, SlashingJail, Unjail, vars

\* No step lets a second ceremony run: creation checks HasPendingRound and
\* nothing else makes a round PENDING.
LEMMA OneCeremonyStep ==
    ASSUME TypeOK, OneCeremonyAtATime, [Next]_vars
    PROVE  OneCeremonyAtATime'
<1> SUFFICES ASSUME NEW r \in Rounds, NEW q \in Rounds,
                    status'[r] = "PENDING", status'[q] = "PENDING"
             PROVE  r = q
  BY DEF OneCeremonyAtATime
<1>1. CASE status[r] = "PENDING" /\ status[q] = "PENDING"
  BY <1>1 DEF OneCeremonyAtATime
<1>2. CASE status[q] # "PENDING"
  BY <1>2, PendingOnlyByCreation DEF HasPendingRound
<1>3. CASE status[r] # "PENDING"
  BY <1>3, PendingOnlyByCreation DEF HasPendingRound
<1> QED
  BY <1>1, <1>2, <1>3

\* When every ceremony validator has contributed (or acked), the sets agree.
LEMMA FullSubset ==
    ASSUME NEW S \in SUBSET Validators, NEW T \in SUBSET S,
           Cardinality(T) = Cardinality(S)
    PROVE  T = S
  BY SubsetFinite, FS_Subset

\* The part of TypeOK that a ceremony is about.
CeremonyTypes ==
    /\ status \in [Rounds -> Statuses]
    /\ ceremony \in [Rounds -> Ceremonies]
    /\ vals \in [Rounds -> SUBSET Validators]
    /\ contribs \in [Rounds -> SUBSET Validators]
    /\ acks \in [Rounds -> SUBSET Validators]
    /\ shamir \in [Rounds -> [Validators -> Indices]]
    /\ dealt \in [Rounds -> [Validators -> Indices]]
    /\ threshold \in [Rounds -> Nat]

\* A round whose ceremony a step leaves alone.
Untouched(r) ==
    UNCHANGED <<status[r], ceremony[r], vals[r], shamir[r], contribs[r],
                dealt[r], acks[r], threshold[r]>>

\* Such a round keeps its invariant.
LEMMA UntouchedKeeps ==
    ASSUME NEW r \in Rounds, CeremonyInv(r), Untouched(r)
    PROVE  CeremonyInv(r)'
BY DEF CeremonyInv, Untouched

\* And so does one that only ends, or goes on to its tally.
LEMMA EndKeeps ==
    ASSUME NEW r \in Rounds, CeremonyInv(r),
           UNCHANGED <<ceremony[r], vals[r], shamir[r], contribs[r], dealt[r], acks[r],
                       threshold[r]>>,
           \/ status'[r] \in {"CEREMONY_FAILED", "FINALIZED"}
           \/ status[r] = "ACTIVE" /\ status'[r] = "TALLYING"
    PROVE  CeremonyInv(r)'
BY DEF CeremonyInv

\* A ceremony starts with at least one validator and nothing contributed
\* (executeCreateVotingSession).
LEMMA CreationCeremony ==
    ASSUME CeremonyTypes, NEW r \in Rounds, CeremonyInv(r),
           NEW q \in Rounds, NEW S \in SUBSET Validators, NEW end \in VoteEnds, CreateVotingSession(q, S, end)
    PROVE  CeremonyInv(r)'
<1>1. CASE q # r
  BY UntouchedKeeps, <1>1 DEF CreateVotingSession, Untouched, CeremonyTypes
<1>2. CASE q = r
  <2>1. Cardinality(S) >= 1
    <3>1. MinCeremonyValidators \in Nat \ {0} /\ Cardinality(S) \in Nat
      BY ConstantsAssumption, SubsetFinite DEF ConstantsAssumption, CeremonyTypes
    <3> QED
      BY <3>1 DEF CreateVotingSession, CeremonyTypes
  <2>2. contribs[r] = {} /\ acks[r] = {}
    BY <1>2 DEF CreateVotingSession, CeremonyInv
  <2>3. /\ status'[r] = "PENDING" /\ ceremony'[r] = "REGISTERING"
        /\ vals'[r] = S /\ contribs'[r] = {} /\ acks'[r] = {}
    BY <1>2, <2>2 DEF CreateVotingSession, CeremonyTypes
  <2> QED
    BY <2>1, <2>3, Zenon DEF CeremonyInv
<1> QED
  BY <1>1, <1>2

\* Contributions stay inside the snapshot, and the last one deals
\* (ContributeDKG, finalizeDKG).
LEMMA ContributionCeremony ==
    ASSUME CeremonyTypes, NEW r \in Rounds, CeremonyInv(r),
           NEW q \in Rounds, ContributeDKG(q)
    PROVE  CeremonyInv(r)'
<1>0. UNCHANGED <<status, vals, acks>>
  BY DEF ContributeDKG, CeremonyTypes
<1>1. CASE q # r
  <2>1. contribs'[r] = contribs[r]
    BY <1>1 DEF ContributeDKG, CeremonyTypes
  <2>2. UNCHANGED <<ceremony[r], shamir[r], dealt[r], threshold[r]>>
    BY <1>1 DEF ContributeDKG, FinalizeDKG, CeremonyTypes
  <2> QED
    BY UntouchedKeeps, <1>0, <2>1, <2>2 DEF Untouched, CeremonyTypes
<1>2. CASE q = r
  <2>1. /\ status[r] = "PENDING" /\ ceremony[r] = "REGISTERING"
        /\ proposer \in vals[r]
        /\ contribs'[r] = contribs[r] \cup {proposer}
    BY <1>2 DEF ContributeDKG, GetPendingRoundWithCeremony, CeremonyTypes
  <2>2. /\ contribs'[r] \in SUBSET vals[r] /\ acks[r] = {}
        /\ Cardinality(vals[r]) >= 1
    BY <2>1, Zenon DEF CeremonyInv
  <2>3. CASE Cardinality(contribs'[r]) = Cardinality(vals[r])
    <3>0. vals[r] \in SUBSET Validators
      BY DEF CeremonyTypes
    <3>1. contribs'[r] = vals[r]
      <4>1. contribs'[r] \in SUBSET vals[r]
        BY <2>2, Zenon
      <4> QED
        BY ONLY <2>3, <3>0, <4>1, FullSubset
    <3>2. /\ ceremony'[r] = "DEALT"
          /\ threshold'[r] = ThresholdForN(Cardinality(vals[r]))
          /\ shamir'[r] = SnapshotIndices(vals[r])
          /\ dealt'[r] = SnapshotIndices(vals[r])
      BY <1>2, <2>3 DEF ContributeDKG, FinalizeDKG, CeremonyTypes
    <3>3. acks'[r] = {} /\ vals'[r] = vals[r] /\ status'[r] = "PENDING"
      BY <1>0, <2>1, <2>2, Zenon
    <3> QED
      BY <2>2, <3>1, <3>2, <3>3, Zenon DEF CeremonyInv, SnapshotIndices
  <2>4. CASE Cardinality(contribs'[r]) # Cardinality(vals[r])
    <3>1. ceremony'[r] = "REGISTERING"
      BY <1>2, <2>1, <2>4 DEF ContributeDKG, CeremonyTypes
    <3> QED
      BY <1>0, <2>1, <2>2, <3>1, Zenon DEF CeremonyInv
  <2> QED
    BY <2>3, <2>4
<1> QED
  BY <1>1, <1>2

\* Acks stay inside the snapshot, and the last one confirms
\* (AckExecutiveAuthorityKey).
LEMMA AckCeremony ==
    ASSUME CeremonyTypes, NEW r \in Rounds, CeremonyInv(r),
           NEW q \in Rounds, AckExecutiveAuthorityKey(q)
    PROVE  CeremonyInv(r)'
<1>0. UNCHANGED <<vals, shamir, contribs, dealt, threshold>>
  BY DEF AckExecutiveAuthorityKey, CeremonyTypes
<1>1. CASE q # r
  <2>1. UNCHANGED <<acks[r], ceremony[r], status[r]>>
    BY <1>1 DEF AckExecutiveAuthorityKey, CeremonyTypes
  <2> QED
    BY UntouchedKeeps, <1>0, <2>1 DEF Untouched, CeremonyTypes
<1>2. CASE q = r
  <2>1. /\ status[r] = "PENDING" /\ ceremony[r] = "DEALT"
        /\ proposer \in vals[r]
        /\ acks'[r] = acks[r] \cup {proposer}
    BY <1>2 DEF AckExecutiveAuthorityKey, GetPendingRoundWithCeremony, CeremonyTypes
  <2>2. /\ acks'[r] \in SUBSET vals[r]
        /\ contribs[r] = vals[r]
        /\ Cardinality(vals[r]) >= 1
        /\ threshold[r] = ThresholdForN(Cardinality(vals[r]))
        /\ shamir[r] = SnapshotIndices(vals[r])
        /\ dealt[r] = SnapshotIndices(vals[r])
    BY <2>1, Zenon DEF CeremonyInv
  <2>3. CASE Cardinality(acks'[r]) = Cardinality(vals[r])
    <3>0. vals[r] \in SUBSET Validators
      BY DEF CeremonyTypes
    <3>1. acks'[r] = vals[r]
      <4>1. acks'[r] \in SUBSET vals[r]
        BY <2>2, Zenon
      <4> QED
        BY ONLY <2>3, <3>0, <4>1, FullSubset
    <3>2. ceremony'[r] = "CONFIRMED" /\ status'[r] = "ACTIVE"
      BY <1>2, <2>3 DEF AckExecutiveAuthorityKey, CeremonyTypes
    <3>3. /\ Cardinality(vals[r]) >= threshold[r]
          /\ threshold[r] >= 1
      BY <2>2, SubsetFinite, QuorumCoversThreshold, Zenon DEF CeremonyTypes
    <3>4. /\ \A v \in vals[r] : shamir[r][v] = dealt[r][v] /\ shamir[r][v] > 0
          /\ \A v, w \in vals[r] : shamir[r][v] = shamir[r][w] => v = w
      BY ONLY <2>2, <3>0, SnapshotIndicesType
    <3> QED
      BY <1>0, <2>2, <3>1, <3>2, <3>3, <3>4, Zenon DEF CeremonyInv
  <2>4. CASE Cardinality(acks'[r]) # Cardinality(vals[r])
    <3>1. ceremony'[r] = "DEALT" /\ status'[r] = "PENDING"
      BY <1>2, <2>1, <2>4 DEF AckExecutiveAuthorityKey, CeremonyTypes
    <3> QED
      BY <1>0, <2>2, <3>1, Zenon DEF CeremonyInv, SnapshotIndices
  <2> QED
    BY <2>3, <2>4
<1> QED
  BY <1>1, <1>2

\* SubmitTally ends the round and leaves its ceremony.
LEMMA TallyCeremony ==
    ASSUME CeremonyTypes, NEW r \in Rounds, CeremonyInv(r),
           NEW q \in Rounds, SubmitTally(q)
    PROVE  CeremonyInv(r)'
<1>0. UNCHANGED ceremonyVars
  BY DEF SubmitTally, CeremonyTypes
<1>1. status'[r] = status[r] \/ status'[r] = "FINALIZED"
  BY DEF SubmitTally, CeremonyTypes
<1> QED
  BY <1>0, <1>1, UntouchedKeeps, EndKeeps, Zenon DEF ceremonyVars, Untouched

\* A DEALT timeout keeps only ackers, a quorum of them, each at its index
\* (EndBlock, stripNonAckers).
LEMMA BlockCeremony ==
    ASSUME CeremonyTypes, NEW r \in Rounds, CeremonyInv(r),
           NEW d \in 0 .. MaxStep, NEW p \in Validators, EndBlock(d, p)
    PROVE  CeremonyInv(r)'
<1>0. UNCHANGED <<dealt, acks, threshold>> /\ status'[r] = StatusAfterBlock(r)
  BY Zenon DEF EndBlock, CeremonyTypes
<1>1. CASE ConfirmedByTimeout(r)
  <2>1. status[r] = "PENDING" /\ ceremony[r] = "DEALT" /\ QuorumAcked(r)
    BY <1>1 DEF ConfirmedByTimeout, DealtTimedOut, GetPendingRoundWithCeremony, CeremonyTypes
  <2>2. /\ acks[r] \in SUBSET vals[r]
        /\ contribs[r] = vals[r]
        /\ Cardinality(vals[r]) >= 1
        /\ threshold[r] = ThresholdForN(Cardinality(vals[r]))
        /\ shamir[r] = SnapshotIndices(vals[r])
        /\ dealt[r] = SnapshotIndices(vals[r])
    BY <2>1, Zenon DEF CeremonyInv
  <2>3. StatusAfterBlock(r) = "ACTIVE"
    <3>1. /\ ~VoteEnded(r) /\ ~RegisteringTimedOut(r)
          /\ DealtTimedOut(r) /\ ~TallyTimedOut(r)
      BY <1>1, <2>1 DEF VoteEnded, RegisteringTimedOut, ConfirmedByTimeout,
         TallyTimedOut, GetPendingRoundWithCeremony, CeremonyTypes
    <3> QED
      BY ONLY <2>1, <3>1 DEF StatusAfterBlock
  <2>4. /\ ceremony'[r] = "CONFIRMED"
        /\ vals'[r] = acks[r]
        /\ contribs'[r] = acks[r]
        /\ shamir'[r] = [v \in Validators |-> IF v \in acks[r] THEN shamir[r][v] ELSE 0]
    <3>1. vals[r] \cap acks[r] = acks[r] /\ contribs[r] \cap acks[r] = acks[r]
      BY <2>2
    <3> QED
      BY <1>1, <3>1, Zenon DEF EndBlock, StripNonAckers, CeremonyTypes
  <2>5. Cardinality(acks[r]) >= threshold[r] /\ threshold[r] >= 1
    <3>1. /\ Cardinality(vals[r]) \in Nat
          /\ Cardinality(acks[r]) \in Nat
      BY SubsetFinite, Zenon DEF CeremonyTypes
    <3>2. /\ ThresholdForN(Cardinality(vals[r])) \in Nat
          /\ ThresholdForN(Cardinality(vals[r])) >= 1
          /\ ThresholdForN(Cardinality(vals[r])) <=
                RequiredCeremonyQuorumForN(Cardinality(vals[r]))
      BY <2>2, <3>1, QuorumCoversThreshold
    <3>3. Cardinality(acks[r]) >= RequiredCeremonyQuorumForN(Cardinality(vals[r]))
      BY <2>1 DEF QuorumAcked, CeremonyTypes
    <3>4. RequiredCeremonyQuorumForN(Cardinality(vals[r])) \in Int
      BY <3>1 DEF RequiredCeremonyQuorumForN, CeremonyTypes
    <3> QED
      BY <2>2, <3>1, <3>2, <3>3, <3>4
  <2>6. /\ \A v \in acks[r] : shamir'[r][v] = dealt[r][v] /\ shamir'[r][v] > 0
        /\ \A v, w \in acks[r] : shamir'[r][v] = shamir'[r][w] => v = w
    <3>1. \A v \in acks[r] : v \in Validators /\ v \in vals[r]
      BY <2>2, Zenon DEF CeremonyTypes
    <3>2. \A v \in acks[r] : shamir'[r][v] = shamir[r][v]
      BY <2>4, <3>1
    <3>3. /\ \A v \in vals[r] : shamir[r][v] = dealt[r][v] /\ shamir[r][v] > 0
          /\ \A v, w \in vals[r] : shamir[r][v] = shamir[r][w] => v = w
      <4>1. vals[r] \in SUBSET Validators
        BY DEF CeremonyTypes
      <4> QED
        BY ONLY <2>2, <4>1, SnapshotIndicesType
    <3> QED
      BY <3>1, <3>2, <3>3
  <2> QED
    BY <1>0, <2>3, <2>4, <2>5, <2>6, Zenon DEF CeremonyInv
<1>2. CASE ~ConfirmedByTimeout(r)
  <2>1. UNCHANGED <<ceremony[r], vals[r], shamir[r], contribs[r]>>
    BY <1>2, Zenon DEF EndBlock, CeremonyTypes
  <2>2. \/ status'[r] = status[r]
        \/ status'[r] \in {"CEREMONY_FAILED", "FINALIZED"}
        \/ status[r] = "ACTIVE" /\ status'[r] = "TALLYING"
    BY <1>0, <1>2 DEF StatusAfterBlock, ConfirmedByTimeout, VoteEnded, CeremonyTypes
  <2> QED
    BY <1>0, <2>1, <2>2, UntouchedKeeps, EndKeeps, Zenon DEF Untouched
<1> QED
  BY <1>1, <1>2

\* Every step preserves CeremonyInv.
LEMMA CeremonyStep ==
    ASSUME TypeOK, [Next]_vars, NEW r \in Rounds, CeremonyInv(r)
    PROVE  CeremonyInv(r)'
<1>0. CeremonyTypes
  BY DEF TypeOK, CeremonyTypes
<1>1. ASSUME NEW q \in Rounds, NEW S \in SUBSET Validators, NEW end \in VoteEnds,
             CreateVotingSession(q, S, end)
      PROVE  CeremonyInv(r)'
  BY <1>0, <1>1, CreationCeremony
<1>2. ASSUME NEW q \in Rounds, ContributeDKG(q) PROVE CeremonyInv(r)'
  BY <1>0, <1>2, ContributionCeremony
<1>3. ASSUME NEW q \in Rounds, AckExecutiveAuthorityKey(q) PROVE CeremonyInv(r)'
  BY <1>0, <1>3, AckCeremony
<1>4. ASSUME NEW q \in Rounds, SubmitTally(q) PROVE CeremonyInv(r)'
  BY <1>0, <1>4, TallyCeremony
<1>5. ASSUME NEW d \in 0 .. MaxStep, NEW p \in Validators, EndBlock(d, p)
      PROVE  CeremonyInv(r)'
  BY <1>0, <1>5, BlockCeremony
<1>6. ASSUME UNCHANGED <<status, ceremonyVars>> PROVE CeremonyInv(r)'
  <2>1. Untouched(r)
    BY <1>6 DEF ceremonyVars, Untouched
  <2> QED BY <2>1, UntouchedKeeps
<1> QED
  BY <1>1, <1>2, <1>3, <1>4, <1>5, <1>6 DEF Next, RevealShare,
     SubmitPartialDecryption, SlashingJail, Unjail, vars

=============================================================================
