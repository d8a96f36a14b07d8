-------------------------- MODULE VoteRoundsProofs --------------------------
(***************************************************************************)
(* What a step of VoteRounds does to tallies, snapshots and jailings, and  *)
(* the theorems: the invariants of VoteRounds, and that it implements the  *)
(* abstract voting sessions of VoteSession.                                *)
(***************************************************************************)
EXTENDS VoteRoundsSteps

-----------------------------------------------------------------------------
(* Tallies. *)

\* Every step preserves CountedOnce: only RevealShare touches the nullifiers,
\* the accumulators and the counter, and it touches all three.
LEMMA CountedStep ==
    ASSUME TypeOK, CountedOnce, [Next]_vars
    PROVE  CountedOnce'
<1>1. CASE UNCHANGED shareVars
  BY <1>1 DEF CountedOnce, shareVars
<1>2. ASSUME NEW q \in Rounds, NEW x \in Shares, RevealShare(q, x)
      PROVE  CountedOnce'
  <2> DEFINE Cast(N, slot) == {s \in N : SlotOf[s] = slot}
  <2>0. SlotOf[x] \in Slots /\ IsFiniteSet(Shares)
    BY ConstantsAssumption DEF ConstantsAssumption
  <2>1. /\ x \notin nullifiers[q]
        /\ nullifiers' = [nullifiers EXCEPT ![q] = @ \cup {x}]
        /\ tally' = [tally EXCEPT ![q][x] = @ + 1]
        /\ shareCount' = [shareCount EXCEPT ![q][SlotOf[x]] = @ + 1]
    BY <1>2 DEF RevealShare
  <2>2. SUFFICES ASSUME NEW r \in Rounds
                 PROVE  /\ \A s \in Shares :
                              tally'[r][s] = IF s \in nullifiers'[r] THEN 1 ELSE 0
                        /\ \A slot \in Slots :
                              shareCount'[r][slot] = Cardinality(Cast(nullifiers'[r], slot))
    BY DEF CountedOnce
  <2>3. CASE r # q
    BY <2>1, <2>3 DEF TypeOK, CountedOnce
  <2>4. CASE r = q
    <3>1. nullifiers'[r] = nullifiers[r] \cup {x} /\ nullifiers[r] \in SUBSET Shares
      BY <2>1, <2>4 DEF TypeOK
    <3>2. ASSUME NEW s \in Shares
          PROVE  tally'[r][s] = IF s \in nullifiers'[r] THEN 1 ELSE 0
      <4>1. tally[r] \in [Shares -> Nat] /\ tally \in [Rounds -> TallyBags]
        BY DEF TypeOK, TallyBags
      <4>2. tally'[r] = [tally[r] EXCEPT ![x] = @ + 1]
        BY <2>1, <2>4, <4>1
      <4>3. tally[r][s] = IF s \in nullifiers[r] THEN 1 ELSE 0
        BY DEF CountedOnce
      <4> QED
        BY ONLY <2>1, <2>4, <3>1, <4>1, <4>2, <4>3
    <3>3. ASSUME NEW slot \in Slots
          PROVE  shareCount'[r][slot] = Cardinality(Cast(nullifiers'[r], slot))
      <4>1. Cast(nullifiers[r], slot) \in SUBSET Shares
        BY <3>1
      <4>2. IsFiniteSet(Cast(nullifiers[r], slot))
        BY <2>0, <4>1, FS_Subset
      <4>3. shareCount[r][slot] = Cardinality(Cast(nullifiers[r], slot))
        BY DEF CountedOnce
      <4>4. CASE slot = SlotOf[x]
        <5>1. Cast(nullifiers'[r], slot) = Cast(nullifiers[r], slot) \cup {x}
          BY <3>1, <4>4
        <5>2. x \notin Cast(nullifiers[r], slot)
          BY <2>1, <2>4
        <5>3. Cardinality(Cast(nullifiers'[r], slot)) =
                 Cardinality(Cast(nullifiers[r], slot)) + 1
          BY ONLY <4>2, <5>1, <5>2, FS_AddElement, Zenon
        <5>4. shareCount'[r][slot] = shareCount[r][slot] + 1
          BY <2>0, <2>1, <2>4, <4>4 DEF TypeOK
        <5> QED
          BY ONLY <4>3, <5>3, <5>4
      <4>5. CASE slot # SlotOf[x]
        <5>1. Cast(nullifiers'[r], slot) = Cast(nullifiers[r], slot)
          BY <3>1, <4>5
        <5>2. shareCount'[r][slot] = shareCount[r][slot]
          BY <2>1, <2>4, <4>5 DEF TypeOK
        <5> QED
          BY ONLY <4>3, <5>1, <5>2
      <4> QED
        BY <4>4, <4>5
    <3> QED
      BY <3>2, <3>3
  <2> QED
    BY <2>3, <2>4
<1> QED
  BY <1>1, <1>2 DEF Next, CreateVotingSession, ContributeDKG,
     AckExecutiveAuthorityKey, SubmitPartialDecryption, SubmitTally, EndBlock,
     SlashingJail, Unjail, vars

\* With CountedOnce, the accumulators are the totals of the recorded ballots.
LEMMA TallyIsBallots ==
    ASSUME TypeOK, CountedOnce, NEW r \in Rounds
    PROVE  TallyResults(tally[r]) = BallotTotals(nullifiers[r])
<1>1. tally[r] = [s \in Shares |-> IF s \in nullifiers[r] THEN 1 ELSE 0]
  BY DEF TypeOK, TallyBags, CountedOnce
<1> QED
  BY <1>1 DEF BallotTotals

\* Every step preserves DecryptInv: the accumulators are frozen once a partial
\* decryption can exist, and SubmitTally stores the totals of the ballots.
LEMMA DecryptStep ==
    ASSUME TypeOK, CountedOnce, [Next]_vars, NEW r \in Rounds, DecryptInv(r)
    PROVE  DecryptInv(r)'
<1>t. /\ status \in [Rounds -> Statuses]
      /\ timedOut \in [Rounds -> BOOLEAN]
      /\ nullifiers \in [Rounds -> SUBSET Shares]
      /\ tally \in [Rounds -> TallyBags]
      /\ partials \in [Rounds -> [Indices -> TallyBags \cup {Absent}]]
      /\ DOMAIN results = Rounds
  BY DEF TypeOK
<1> USE <1>t
<1>0. ASSUME UNCHANGED <<nullifiers[r], tally[r], partials[r], results[r], timedOut[r]>>,
             \/ status'[r] = status[r]
             \/ status[r] \in {"NONE", "PENDING"} /\ status'[r] # "FINALIZED"
             \/ status[r] = "ACTIVE" /\ status'[r] = "TALLYING"
      PROVE  DecryptInv(r)'
  BY <1>0 DEF DecryptInv
<1>1. ASSUME NEW q \in Rounds, NEW S \in SUBSET Validators, NEW end \in VoteEnds,
             CreateVotingSession(q, S, end)
      PROVE  DecryptInv(r)'
  BY <1>0, <1>1 DEF CreateVotingSession, shareVars, decryptVars
<1>2. ASSUME NEW q \in Rounds, ContributeDKG(q)
      PROVE  DecryptInv(r)'
  BY <1>0, <1>2 DEF ContributeDKG, windowVars, shareVars, decryptVars
<1>3. ASSUME NEW q \in Rounds, AckExecutiveAuthorityKey(q)
      PROVE  DecryptInv(r)'
  BY <1>0, <1>3 DEF AckExecutiveAuthorityKey, GetPendingRoundWithCeremony,
     windowVars, shareVars, decryptVars
<1>4. ASSUME NEW q \in Rounds, NEW s \in Shares, RevealShare(q, s)
      PROVE  DecryptInv(r)'
  <2>1. UNCHANGED <<status, timedOut, partials, results>>
    BY <1>4 DEF RevealShare, windowVars, decryptVars
  <2>2. CASE q # r
    BY <1>0, <1>4, <2>1, <2>2 DEF RevealShare
  <2>3. CASE q = r
    <3>1. status[r] = "ACTIVE"
      BY <1>4, <2>3 DEF RevealShare, ValidateRoundForVoting
    <3>2. /\ \A i \in Indices : partials[r][i] = Absent
          /\ results[r] = Absent /\ ~timedOut[r]
      BY <3>1 DEF DecryptInv
    <3> QED
      BY <2>1, <3>1, <3>2 DEF DecryptInv
  <2> QED
    BY <2>2, <2>3
<1>5. ASSUME NEW q \in Rounds, SubmitPartialDecryption(q)
      PROVE  DecryptInv(r)'
  <2>1. UNCHANGED <<status, timedOut, results, nullifiers, tally>>
    BY <1>5 DEF SubmitPartialDecryption, windowVars, shareVars
  <2>2. CASE q # r
    <3>1. partials'[r] = partials[r]
      BY <1>5, <2>2 DEF SubmitPartialDecryption
    <3> QED
      BY <1>0, <2>1, <3>1
  <2>3. CASE q = r
    <3>1. status[r] = "TALLYING"
      BY <1>5, <2>3 DEF SubmitPartialDecryption
    <3>2. \A i \in Indices : partials'[r][i] = partials[r][i] \/ partials'[r][i] = tally[r]
      BY <1>5, <2>3 DEF SubmitPartialDecryption
    <3> QED
      BY <2>1, <3>1, <3>2 DEF DecryptInv
  <2> QED
    BY <2>2, <2>3
<1>6. ASSUME NEW q \in Rounds, SubmitTally(q)
      PROVE  DecryptInv(r)'
  <2>1. UNCHANGED <<timedOut, partials, nullifiers, tally>>
    BY <1>6 DEF SubmitTally, windowVars, shareVars
  <2>2. CASE q # r
    <3>1. UNCHANGED <<status[r], results[r]>>
      BY <1>6, <2>2 DEF SubmitTally
    <3> QED
      BY <1>0, <2>1, <3>1
  <2>3. CASE q = r
    <3>1. status[r] = "TALLYING" /\ status'[r] = "FINALIZED"
      BY <1>6, <2>3 DEF SubmitTally
    <3>2. results'[r] = TallyResults(tally[r])
      BY <1>6, <2>3 DEF SubmitTally
    <3>3. results'[r] = BallotTotals(nullifiers[r])
      BY <3>2, TallyIsBallots
    <3>4. results'[r] # Absent
      <4>1. Slots # {}
        BY ConstantsAssumption DEF ConstantsAssumption
      <4>2. DOMAIN TallyResults(tally[r]) = Slots
        BY DEF TallyResults
      <4> QED
        BY ONLY <3>2, <4>1, <4>2 DEF Absent
    <3>5. ~timedOut[r]
      BY <3>1 DEF DecryptInv
    <3> QED
      BY <2>1, <3>1, <3>3, <3>4, <3>5 DEF DecryptInv, BallotTotals
  <2> QED
    BY <2>2, <2>3
<1>7. ASSUME NEW d \in 0 .. MaxStep, NEW p \in Validators, EndBlock(d, p)
      PROVE  DecryptInv(r)'
  <2>1. UNCHANGED <<partials, results, nullifiers, tally>>
    BY <1>7 DEF EndBlock, shareVars, decryptVars
  <2>2. status'[r] = StatusAfterBlock(r) /\ timedOut'[r] = (timedOut[r] \/ TallyTimedOut(r))
    BY <1>7 DEF EndBlock
  <2>3. CASE TallyTimedOut(r)
    <3>1. status[r] = "TALLYING" /\ status'[r] = "FINALIZED" /\ timedOut'[r]
      BY <2>2, <2>3, Zenon DEF StatusAfterBlock, TallyTimedOut, VoteEnded,
         RegisteringTimedOut, DealtTimedOut, GetPendingRoundWithCeremony
    <3>2. results[r] = Absent
      BY <3>1 DEF DecryptInv
    <3> QED
      BY <2>1, <3>1, <3>2 DEF DecryptInv
  <2>4. CASE ~TallyTimedOut(r)
    <3>1. timedOut'[r] = timedOut[r]
      BY <2>2, <2>4
    <3>2. \/ status'[r] = status[r]
          \/ status[r] = "PENDING" /\ status'[r] # "FINALIZED"
          \/ status[r] = "ACTIVE" /\ status'[r] = "TALLYING"
      BY <2>2, <2>4 DEF StatusAfterBlock, VoteEnded, RegisteringTimedOut,
         DealtTimedOut, GetPendingRoundWithCeremony
    <3> QED
      BY <1>0, <2>1, <3>1, <3>2
  <2> QED
    BY <2>3, <2>4
<1>8. ASSUME UNCHANGED <<status, windowVars, shareVars, decryptVars>>
      PROVE  DecryptInv(r)'
  BY <1>0, <1>8 DEF windowVars, shareVars, decryptVars
<1> QED
  BY <1>1, <1>2, <1>3, <1>4, <1>5, <1>6, <1>7, <1>8 DEF Next, SlashingJail, Unjail, vars

-----------------------------------------------------------------------------
(* Jailing. *)

\* A step that leaves a round PENDING keeps its snapshot, and a step never
\* touches the ceremony of a failed round.
LEMMA SnapshotKept ==
    ASSUME TypeOK, [Next]_vars, NEW q \in Rounds,
           status[q] \in {"PENDING", "CEREMONY_FAILED"}, status'[q] = status[q]
    PROVE  /\ vals'[q] = vals[q]
           /\ status[q] = "CEREMONY_FAILED" =>
                 contribs'[q] = contribs[q] /\ ceremony'[q] = ceremony[q]
<1>t. /\ status \in [Rounds -> Statuses]
      /\ ceremony \in [Rounds -> Ceremonies]
      /\ vals \in [Rounds -> SUBSET Validators]
      /\ contribs \in [Rounds -> SUBSET Validators]
  BY DEF TypeOK
<1> USE <1>t
<1>1. ASSUME NEW r \in Rounds, NEW S \in SUBSET Validators, NEW end \in VoteEnds,
             CreateVotingSession(r, S, end)
      PROVE  UNCHANGED <<vals[q], contribs[q], ceremony[q]>>
  BY <1>1 DEF CreateVotingSession
<1>2. ASSUME NEW r \in Rounds, ContributeDKG(r)
      PROVE  /\ vals'[q] = vals[q]
             /\ status[q] = "CEREMONY_FAILED" => UNCHANGED <<contribs[q], ceremony[q]>>
  <2>1. vals' = vals /\ status[r] = "PENDING"
    BY <1>2 DEF ContributeDKG, GetPendingRoundWithCeremony
  <2>2. r # q => contribs'[q] = contribs[q]
    BY <1>2 DEF ContributeDKG
  <2>3. r # q => ceremony'[q] = ceremony[q]
    BY <1>2 DEF ContributeDKG, FinalizeDKG
  <2> QED
    BY <2>1, <2>2, <2>3
<1>3. ASSUME NEW r \in Rounds, AckExecutiveAuthorityKey(r)
      PROVE  /\ vals'[q] = vals[q]
             /\ status[q] = "CEREMONY_FAILED" => UNCHANGED <<contribs[q], ceremony[q]>>
  BY <1>3 DEF AckExecutiveAuthorityKey, GetPendingRoundWithCeremony
<1>4. ASSUME NEW d \in 0 .. MaxStep, NEW p \in Validators, EndBlock(d, p)
      PROVE  UNCHANGED <<vals[q], contribs[q], ceremony[q]>>
  <2>1. ~ConfirmedByTimeout(q)
    <3>1. status'[q] = StatusAfterBlock(q)
      BY <1>4 DEF EndBlock
    <3> QED
      BY <3>1 DEF StatusAfterBlock, ConfirmedByTimeout, VoteEnded,
         RegisteringTimedOut, DealtTimedOut, TallyTimedOut,
         GetPendingRoundWithCeremony
  <2> QED
    BY <1>4, <2>1 DEF EndBlock
<1>5. ASSUME UNCHANGED ceremonyVars
      PROVE  UNCHANGED <<vals[q], contribs[q], ceremony[q]>>
  BY <1>5 DEF ceremonyVars
<1> QED
  BY <1>1, <1>2, <1>3, <1>4, <1>5 DEF Next, RevealShare, SubmitPartialDecryption,
     SubmitTally, SlashingJail, Unjail, vars

\* Nobody but a flaky validator leaves jail.
LEMMA JailGrows ==
    ASSUME [Next]_vars
    PROVE  jailed \subseteq jailed' \cup Flaky
<1>1. ASSUME NEW d \in 0 .. MaxStep, NEW p \in Validators, EndBlock(d, p)
      PROVE  jailed \subseteq jailed'
  BY <1>1, Zenon DEF EndBlock
<1>2. ASSUME NEW v \in Flaky, SlashingJail(v) \/ Unjail(v)
      PROVE  jailed \subseteq jailed' \cup Flaky
  BY <1>2 DEF SlashingJail, Unjail
<1> QED
  BY <1>1, <1>2, Zenon DEF Next, CreateVotingSession, ContributeDKG,
     AckExecutiveAuthorityKey, RevealShare, SubmitPartialDecryption, SubmitTally,
     blockVars, vars

\* A round becomes CEREMONY_FAILED only by a timeout of EndBlock, and EndBlock
\* jails the missing contributors of a ceremony that was still REGISTERING.
LEMMA FailOnlyByTimeout ==
    ASSUME TypeOK, [Next]_vars, NEW f \in Rounds,
           status[f] # "CEREMONY_FAILED", status'[f] = "CEREMONY_FAILED"
    PROVE  /\ status[f] = "PENDING"
           /\ ceremony'[f] = "REGISTERING" => vals'[f] \ contribs'[f] \subseteq jailed'
<1>t. status \in [Rounds -> Statuses] /\ vals \in [Rounds -> SUBSET Validators]
  BY Zenon DEF TypeOK
<1>1. ASSUME NEW d \in 0 .. MaxStep, NEW p \in Validators, EndBlock(d, p)
      PROVE  /\ status[f] = "PENDING"
             /\ ceremony'[f] = "REGISTERING" => vals'[f] \ contribs'[f] \subseteq jailed'
  <2>1. status'[f] = StatusAfterBlock(f)
    BY <1>1 DEF EndBlock
  <2>2. \/ RegisteringTimedOut(f)
        \/ DealtTimedOut(f) /\ ~QuorumAcked(f)
    BY <2>1 DEF StatusAfterBlock
  <2>3. ~ConfirmedByTimeout(f)
    BY <2>2 DEF ConfirmedByTimeout, RegisteringTimedOut, DealtTimedOut,
       GetPendingRoundWithCeremony
  <2>4. UNCHANGED <<ceremony[f], vals[f], contribs[f]>>
    BY <1>1, <2>3 DEF EndBlock
  <2>5. ASSUME ceremony[f] = "REGISTERING"
        PROVE  vals[f] \ contribs[f] \subseteq jailed'
    <3>1. RegisteringTimedOut(f)
      BY <2>2, <2>5 DEF DealtTimedOut, GetPendingRoundWithCeremony
    <3> QED
      BY <1>1, <3>1 DEF EndBlock, MissingCeremonyContributors
  <2> QED
    BY <2>2, <2>4, <2>5, Zenon DEF RegisteringTimedOut, DealtTimedOut,
       GetPendingRoundWithCeremony
<1>2. ASSUME NEW r \in Rounds, NEW S \in SUBSET Validators, NEW end \in VoteEnds,
             CreateVotingSession(r, S, end)
      PROVE  FALSE
  BY <1>t, <1>2 DEF CreateVotingSession
<1>3. ASSUME NEW r \in Rounds, AckExecutiveAuthorityKey(r) PROVE FALSE
  BY <1>t, <1>3 DEF AckExecutiveAuthorityKey
<1>4. ASSUME NEW r \in Rounds, SubmitTally(r) PROVE FALSE
  BY <1>t, <1>4 DEF SubmitTally
<1>5. status' # status
  OBVIOUS
<1> QED
  BY <1>1, <1>2, <1>3, <1>4, <1>5, Zenon DEF Next, ContributeDKG, RevealShare,
     SubmitPartialDecryption, SlashingJail, Unjail, vars

\* JailInv is preserved by every step.
LEMMA JailStep ==
    ASSUME TypeOK, JailInv, [Next]_vars
    PROVE  JailInv'
<1> SUFFICES ASSUME NEW f \in Rounds, status'[f] = "CEREMONY_FAILED",
                    ceremony'[f] = "REGISTERING"
             PROVE  vals'[f] \ contribs'[f] \subseteq jailed' \cup Flaky
  BY DEF JailInv
<1>1. CASE status[f] = "CEREMONY_FAILED"
  <2>1. UNCHANGED <<vals[f], contribs[f], ceremony[f]>>
    BY <1>1, SnapshotKept
  <2>2. vals[f] \ contribs[f] \subseteq jailed \cup Flaky
    BY <1>1, <2>1 DEF JailInv
  <2> QED
    BY <2>1, <2>2, JailGrows
<1>2. CASE status[f] # "CEREMONY_FAILED"
  BY <1>2, FailOnlyByTimeout
<1> QED
  BY <1>1, <1>2

\* A new snapshot avoids everybody in jail, and creating it leaves every other
\* round alone.
LEMMA SnapshotAvoidsJail ==
    ASSUME TypeOK, [Next]_vars, NEW q \in Rounds,
           status[q] # "PENDING", status'[q] = "PENDING"
    PROVE  /\ vals'[q] \cap jailed = {}
           /\ \A f \in Rounds \ {q} :
                 UNCHANGED <<status[f], ceremony[f], vals[f], contribs[f]>>
<1>t. /\ status \in [Rounds -> Statuses]
      /\ ceremony \in [Rounds -> Ceremonies]
      /\ vals \in [Rounds -> SUBSET Validators]
  BY DEF TypeOK
<1>1. ASSUME NEW r \in Rounds, NEW S \in SUBSET Validators, NEW end \in VoteEnds,
             CreateVotingSession(r, S, end)
      PROVE  /\ vals'[q] \cap jailed = {}
             /\ \A f \in Rounds \ {q} :
                   UNCHANGED <<status[f], ceremony[f], vals[f], contribs[f]>>
  <2>1. r = q
    BY <1>t, <1>1 DEF CreateVotingSession
  <2> QED
    BY <1>t, <1>1, <2>1 DEF CreateVotingSession
<1>2. ASSUME NEW d \in 0 .. MaxStep, NEW p \in Validators, EndBlock(d, p)
      PROVE  FALSE
  BY <1>2 DEF EndBlock, StatusAfterBlock
<1>3. ASSUME NEW r \in Rounds, SubmitTally(r) PROVE FALSE
  BY <1>t, <1>3 DEF SubmitTally
<1>4. ASSUME NEW r \in Rounds, AckExecutiveAuthorityKey(r) PROVE FALSE
  BY <1>t, <1>4 DEF AckExecutiveAuthorityKey
<1>5. status' # status
  OBVIOUS
<1> QED
  BY <1>1, <1>2, <1>3, <1>4, <1>5 DEF Next, ContributeDKG, RevealShare,
     SubmitPartialDecryption, SlashingJail, Unjail, vars

\* NoRepeatOffender is preserved by every step.
LEMMA NoRepeatStep ==
    ASSUME TypeOK, OneCeremonyAtATime, JailInv, NoRepeatOffender, [Next]_vars
    PROVE  NoRepeatOffender'
<1> SUFFICES ASSUME NEW r \in Rounds, NEW f \in Rounds, status'[r] = "PENDING",
                    status'[f] = "CEREMONY_FAILED", ceremony'[f] = "REGISTERING"
             PROVE  vals'[r] \cap (vals'[f] \ contribs'[f]) \subseteq Flaky
  BY DEF NoRepeatOffender
<1>0. r # f
  OBVIOUS
<1>1. CASE status[r] # "PENDING"
  <2>1. /\ vals'[r] \cap jailed = {}
        /\ UNCHANGED <<status[f], ceremony[f], vals[f], contribs[f]>>
    BY <1>0, <1>1, SnapshotAvoidsJail
  <2>2. vals[f] \ contribs[f] \subseteq jailed \cup Flaky
    BY <2>1 DEF JailInv
  <2> QED
    BY <2>1, <2>2
<1>2. CASE status[r] = "PENDING" /\ status[f] = "CEREMONY_FAILED"
  <2>1. vals'[r] = vals[r]
    BY <1>2, SnapshotKept
  <2>2. UNCHANGED <<vals[f], contribs[f], ceremony[f]>>
    BY <1>2, SnapshotKept
  <2> QED
    BY <1>2, <2>1, <2>2 DEF NoRepeatOffender
<1>3. CASE status[r] = "PENDING" /\ status[f] # "CEREMONY_FAILED"
  <2>1. status[f] = "PENDING"
    BY <1>3, FailOnlyByTimeout
  <2> QED
    BY <1>0, <1>3, <2>1 DEF OneCeremonyAtATime
<1> QED
  BY <1>1, <1>2, <1>3

-----------------------------------------------------------------------------
(* The theorems. *)

\* The empty store satisfies the inductive invariant.
LEMMA IInvInit == Init => IInv
<1> SUFFICES ASSUME Init PROVE IInv
  OBVIOUS
<1>1. TypeOK
  BY TypeInit
<1>2. \A r \in Rounds :
         /\ status[r] = "NONE" /\ ceremony[r] = "NONE"
         /\ contribs[r] = {} /\ acks[r] = {}
         /\ nullifiers[r] = {} /\ results[r] = Absent /\ ~timedOut[r]
  BY DEF Init
<1>3. \A r \in Rounds : \A i \in Indices : partials[r][i] = Absent
  BY DEF Init
<1>4. \A r \in Rounds : CeremonyInv(r)
  BY <1>2 DEF CeremonyInv
<1>5. \A r \in Rounds : DecryptInv(r)
  BY <1>2, <1>3 DEF DecryptInv
<1>6. CountedOnce
  <2>1. ASSUME NEW r \in Rounds, NEW s \in Shares PROVE tally[r][s] = 0
    BY DEF Init, EmptyTally
  <2>2. ASSUME NEW r \in Rounds, NEW slot \in Slots
        PROVE  shareCount[r][slot] = Cardinality({s \in nullifiers[r] : SlotOf[s] = slot})
    <3>1. {s \in nullifiers[r] : SlotOf[s] = slot} = {}
      BY <1>2
    <3>2. shareCount[r][slot] = 0
      BY DEF Init
    <3> QED
      BY ONLY <3>1, <3>2, FS_EmptySet
  <2> QED
    BY <1>2, <2>1, <2>2 DEF CountedOnce
<1> QED
  BY <1>1, <1>2, <1>4, <1>5, <1>6 DEF IInv, OneCeremonyAtATime, JailInv,
     NoRepeatOffender

\* Every handler, EndBlock and jailing step preserves the inductive invariant.
LEMMA IInvStep == IInv /\ [Next]_vars => IInv'
<1> SUFFICES ASSUME IInv, [Next]_vars PROVE IInv'
  OBVIOUS
<1>1. /\ TypeOK /\ OneCeremonyAtATime /\ CountedOnce /\ JailInv /\ NoRepeatOffender
      /\ \A r \in Rounds : CeremonyInv(r)
      /\ \A r \in Rounds : DecryptInv(r)
  BY DEF IInv
<1>2. TypeOK'
  BY <1>1, TypeStep
<1>3. OneCeremonyAtATime'
  BY <1>1, OneCeremonyStep
<1>4. (\A r \in Rounds : CeremonyInv(r))'
  BY <1>1, CeremonyStep
<1>5. CountedOnce'
  BY <1>1, CountedStep
<1>6. (\A r \in Rounds : DecryptInv(r))'
  BY <1>1, DecryptStep
<1>7. JailInv'
  BY <1>1, JailStep
<1>8. NoRepeatOffender'
  BY <1>1, NoRepeatStep
<1> QED
  BY <1>2, <1>3, <1>4, <1>5, <1>6, <1>7, <1>8 DEF IInv

\* IInv holds in every reachable state of the rounds.
THEOREM Invariance == Spec => []IInv
  BY IInvInit, IInvStep, PTL DEF Spec

\* The stored rounds, tallies and partial decryptions are well typed.
THEOREM TypeCorrect == Spec => []TypeOK
<1>1. IInv => TypeOK
  BY DEF IInv
<1> QED
  BY <1>1, Invariance, PTL

\* However many validators and rounds there are, two ceremonies never run at
\* the same time: the check of HasPendingRound in executeCreateVotingSession
\* is enough.
THEOREM OneCeremony == Spec => []OneCeremonyAtATime
<1>1. IInv => OneCeremonyAtATime
  BY DEF IInv
<1> QED
  BY <1>1, Invariance, PTL

\* For every number of validators, the set left by StripNonAckersFromRound
\* (and every fully acked set) reaches the decryption threshold.
THEOREM SurvivorsDecrypt == Spec => []SurvivorsReachThreshold
<1>1. IInv => SurvivorsReachThreshold
  <2> SUFFICES ASSUME IInv, NEW r \in Rounds, status[r] \in {"ACTIVE", "TALLYING"}
               PROVE  /\ vals[r] \subseteq acks[r] \cap contribs[r]
                      /\ Cardinality(vals[r]) >= threshold[r]
                      /\ threshold[r] >= 1
    BY DEF SurvivorsReachThreshold
  <2>1. CeremonyInv(r)
    BY DEF IInv
  <2> QED
    BY <2>1 DEF CeremonyInv
<1> QED
  BY <1>1, Invariance, PTL

\* A validator's Shamir index always is the evaluation point of the share it
\* was dealt, before and after non-ackers are stripped.
THEOREM IndicesStay == Spec => []SharesStayAtTheirIndex
<1>1. IInv => SharesStayAtTheirIndex
  <2> SUFFICES ASSUME IInv, NEW r \in Rounds, ceremony[r] \in {"DEALT", "CONFIRMED"}
               PROVE  /\ \A v \in vals[r] : shamir[r][v] = dealt[r][v] /\ shamir[r][v] > 0
                      /\ \A v, w \in vals[r] : shamir[r][v] = shamir[r][w] => v = w
    BY DEF SharesStayAtTheirIndex
  <2>1. CeremonyInv(r) /\ vals[r] \in SUBSET Validators
    BY DEF IInv, TypeOK
  <2>2. CASE ceremony[r] = "CONFIRMED"
    BY <2>1, <2>2 DEF CeremonyInv
  <2>3. CASE ceremony[r] = "DEALT"
    <3>1. shamir[r] = SnapshotIndices(vals[r]) /\ dealt[r] = SnapshotIndices(vals[r])
      BY <2>1, <2>3 DEF CeremonyInv
    <3> QED
      BY ONLY <2>1, <3>1, SnapshotIndicesType
  <2> QED
    BY <2>2, <2>3
<1> QED
  BY <1>1, Invariance, PTL

\* A revealed share is in the accumulators and in the share counter exactly
\* once, and only if its nullifier is recorded.
THEOREM SharesCountedOnce == Spec => []CountedOnce
<1>1. IInv => CountedOnce
  BY DEF IInv
<1> QED
  BY <1>1, Invariance, PTL

\* Every stored partial decryption is of the accumulators SubmitTally will
\* check it against.
THEOREM PartialsAreCurrent == Spec => []PartialsMatchTally
<1>1. IInv => PartialsMatchTally
  <2> SUFFICES ASSUME IInv, NEW r \in Rounds, NEW i \in StoredPartials(r)
               PROVE  partials[r][i] = tally[r]
    BY DEF PartialsMatchTally
  <2>1. DecryptInv(r) /\ DOMAIN partials[r] = Indices
    BY Zenon DEF IInv, TypeOK
  <2> QED
    BY <2>1 DEF DecryptInv, StoredPartials
<1> QED
  BY <1>1, Invariance, PTL

\* Stored results are the totals of exactly the revealed shares, and a round
\* that timed out has none.
THEOREM ResultsCorrect == Spec => []ResultsAreTheBallots
<1>1. IInv => ResultsAreTheBallots
  <2> SUFFICES ASSUME IInv, NEW r \in Rounds
               PROVE  /\ results[r] # Absent =>
                            /\ status[r] = "FINALIZED" /\ ~timedOut[r]
                            /\ results[r] = BallotTotals(nullifiers[r])
                      /\ status[r] = "FINALIZED" => (timedOut[r] <=> results[r] = Absent)
    BY DEF ResultsAreTheBallots
  <2>1. DecryptInv(r)
    BY DEF IInv
  <2> QED
    BY <2>1, Zenon DEF DecryptInv
<1> QED
  BY <1>1, Invariance, PTL

\* A validator that missed its contribution is not in a later ceremony unless
\* it was unjailed in between.
THEOREM OffendersStayOut == Spec => []NoRepeatOffender
<1>1. IInv => NoRepeatOffender
  BY Zenon DEF IInv
<1> QED
  BY <1>1, Invariance, PTL

-----------------------------------------------------------------------------
(* Refinement. *)

\* What one round does in a step that changes neither ballots nor results.
LEMMA SessionMove ==
    ASSUME IInv, NEW r \in Rounds,
           UNCHANGED <<nullifiers[r], results[r]>>,
           \/ status'[r] = status[r]
           \/ status[r] = "NONE" /\ status'[r] = "PENDING" /\ ~HasPendingRound
           \/ status[r] = "PENDING" /\ status'[r] \in {"ACTIVE", "CEREMONY_FAILED"}
           \/ status[r] = "ACTIVE" /\ status'[r] = "TALLYING"
           \/ status[r] = "TALLYING" /\ status'[r] = "FINALIZED"
    PROVE  \/ Session!SetUp(r) \/ Session!Open(r) \/ Session!Fail(r)
           \/ Session!TakeBallot(r) \/ Session!Close(r)
           \/ Session!Publish(r) \/ Session!Abandon(r)
           \/ Session!Rests(r)
<1> USE DEF Session!Moves, Session!KeepsBallots, Session!KeepsOutcome
<1>1. CASE status'[r] = status[r]
  BY <1>1, Zenon DEF Session!Rests
<1>2. CASE status[r] = "NONE" /\ status'[r] = "PENDING" /\ ~HasPendingRound
  BY <1>2, Zenon DEF Session!SetUp, HasPendingRound
<1>3. CASE status[r] = "PENDING" /\ status'[r] \in {"ACTIVE", "CEREMONY_FAILED"}
  BY <1>3, Zenon DEF Session!Open, Session!Fail
<1>4. CASE status[r] = "ACTIVE" /\ status'[r] = "TALLYING"
  BY <1>4, Zenon DEF Session!Close
<1>5. CASE status[r] = "TALLYING" /\ status'[r] = "FINALIZED"
  <2>1. DecryptInv(r)
    BY DEF IInv
  <2>2. results[r] = Absent
    BY <1>5, <2>1 DEF DecryptInv
  <2> QED
    BY <1>5, <2>2, Zenon DEF Session!Abandon
<1> QED
  BY <1>1, <1>2, <1>3, <1>4, <1>5, Zenon

\* Every step of the chain is a step of the abstract sessions, or changes
\* nothing they see.
LEMMA SessionStep ==
    ASSUME IInv, [Next]_vars
    PROVE  [Session!Next]_Session!vars
<1> DEFINE Advances(r) ==
      \/ Session!SetUp(r) \/ Session!Open(r) \/ Session!Fail(r)
      \/ Session!TakeBallot(r) \/ Session!Close(r)
      \/ Session!Publish(r) \/ Session!Abandon(r)
      \/ Session!Rests(r)
<1>t. /\ status \in [Rounds -> Statuses]
      /\ nullifiers \in [Rounds -> SUBSET Shares]
      /\ DOMAIN results = Rounds
      /\ TypeOK /\ CountedOnce
  BY DEF IInv, TypeOK
<1>0. SUFFICES ASSUME NEW r \in Rounds PROVE Advances(r)
  BY DEF Session!Next
<1> HIDE DEF Advances
<1>m. ASSUME UNCHANGED <<nullifiers[r], results[r]>>,
             \/ status'[r] = status[r]
             \/ status[r] = "NONE" /\ status'[r] = "PENDING" /\ ~HasPendingRound
             \/ status[r] = "PENDING" /\ status'[r] \in {"ACTIVE", "CEREMONY_FAILED"}
             \/ status[r] = "ACTIVE" /\ status'[r] = "TALLYING"
             \/ status[r] = "TALLYING" /\ status'[r] = "FINALIZED"
      PROVE  Advances(r)
  BY <1>m, SessionMove DEF Advances
<1>1. ASSUME NEW q \in Rounds, NEW S \in SUBSET Validators, NEW end \in VoteEnds,
             CreateVotingSession(q, S, end)
      PROVE  Advances(r)
  BY <1>t, <1>1, <1>m, Zenon DEF CreateVotingSession, shareVars, decryptVars
<1>2. ASSUME NEW q \in Rounds, ContributeDKG(q)
      PROVE  Advances(r)
  BY <1>2, <1>m, Zenon DEF ContributeDKG, shareVars, decryptVars
<1>3. ASSUME NEW q \in Rounds, AckExecutiveAuthorityKey(q)
      PROVE  Advances(r)
  BY <1>t, <1>3, <1>m DEF AckExecutiveAuthorityKey, GetPendingRoundWithCeremony,
     shareVars, decryptVars
<1>4. ASSUME NEW q \in Rounds, NEW s \in Shares, RevealShare(q, s)
      PROVE  Advances(r)
  <2>1. UNCHANGED <<status, results>>
    BY <1>4 DEF RevealShare, decryptVars
  <2>2. CASE q # r
    BY <1>t, <1>4, <1>m, <2>1, <2>2 DEF RevealShare
  <2>3. CASE q = r
    <3>1. /\ status[r] = "ACTIVE" /\ s \notin nullifiers[r]
          /\ nullifiers'[r] = nullifiers[r] \cup {s}
      BY <1>t, <1>4, <2>3 DEF RevealShare, ValidateRoundForVoting
    <3>2. Session!TakeBallot(r)
      BY <2>1, <3>1 DEF Session!TakeBallot, Session!Moves, Session!KeepsOutcome
    <3> QED
      BY <3>2 DEF Advances
  <2> QED
    BY <2>2, <2>3
<1>5. ASSUME NEW q \in Rounds, SubmitPartialDecryption(q)
      PROVE  Advances(r)
  BY <1>5, <1>m DEF SubmitPartialDecryption, shareVars
<1>6. ASSUME NEW q \in Rounds, SubmitTally(q)
      PROVE  Advances(r)
  <2>1. nullifiers' = nullifiers
    BY <1>6 DEF SubmitTally, shareVars
  <2>2. CASE q # r
    BY <1>t, <1>6, <1>m, <2>1, <2>2 DEF SubmitTally
  <2>3. CASE q = r
    <3>1. /\ status[r] = "TALLYING" /\ status'[r] = "FINALIZED"
          /\ results'[r] = TallyResults(tally[r])
      BY <1>t, <1>6, <2>3 DEF SubmitTally
    <3>2. results'[r] = BallotTotals(nullifiers[r])
      BY <1>t, <3>1, TallyIsBallots
    <3>3. Session!Publish(r)
      BY <2>1, <3>1, <3>2 DEF Session!Publish, Session!Moves, Session!KeepsBallots
    <3> QED
      BY <3>3, Zenon DEF Advances
  <2> QED
    BY <2>2, <2>3
<1>7. ASSUME NEW d \in 0 .. MaxStep, NEW p \in Validators, EndBlock(d, p)
      PROVE  Advances(r)
  <2>1. UNCHANGED <<nullifiers, results>> /\ status'[r] = StatusAfterBlock(r)
    BY <1>7 DEF EndBlock, shareVars, decryptVars
  <2>2. \/ status'[r] = status[r]
        \/ status[r] = "PENDING" /\ status'[r] \in {"ACTIVE", "CEREMONY_FAILED"}
        \/ status[r] = "ACTIVE" /\ status'[r] = "TALLYING"
        \/ status[r] = "TALLYING" /\ status'[r] = "FINALIZED"
    BY <2>1 DEF StatusAfterBlock, VoteEnded, RegisteringTimedOut, DealtTimedOut,
       TallyTimedOut, GetPendingRoundWithCeremony
  <2> QED
    BY <1>m, <2>1, <2>2, Zenon
<1>8. ASSUME UNCHANGED <<status, shareVars, decryptVars>>
      PROVE  Advances(r)
  BY <1>8, <1>m DEF shareVars, decryptVars
<1> QED
  BY <1>1, <1>2, <1>3, <1>4, <1>5, <1>6, <1>7, <1>8, Zenon DEF Next, SlashingJail, Unjail,
     vars

\* The message server and EndBlock implement the abstract voting sessions: no
\* ballot is lost or added late, an outcome is published once and is that of
\* the ballots taken, and a finished session never changes.
THEOREM Refinement == Spec => ImplementsVoteSession
<1>1. Init => Session!Init
  BY DEF Init, Session!Init
<1>2. IInv /\ [Next]_vars => [Session!Next]_Session!vars
  BY SessionStep
<1> QED
  BY <1>1, <1>2, Invariance, PTL DEF Spec, ImplementsVoteSession, Session!Spec

=============================================================================
