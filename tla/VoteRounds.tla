----------------------------- MODULE VoteRounds -----------------------------
(***************************************************************************)
(* The on-chain life of a voting round, as executed by x/vote: the message *)
(* server's handlers for creating a round, the DKG ceremony, revealing     *)
(* shares and decrypting the tally, and the timeouts of EndBlock.          *)
(*                                                                         *)
(* A block is: a choice of proposer and block time, any number of          *)
(* transactions, then EndBlock.  A handler that returns an error leaves no *)
(* trace (the SDK drops its writes), so only successful handlers are       *)
(* actions.  Everything is a function of the round, because the keeper     *)
(* stores one VoteRound (plus tallies, nullifiers and partial decryptions) *)
(* per round id.                                                           *)
(*                                                                         *)
(* Abstractions.  Round ids are hashes, so any unused id may be the next   *)
(* one.  Which validators hold a Pallas key is the subject of module       *)
(* PallasRegistry: here a snapshot is any set of unjailed validators.  A   *)
(* homomorphic accumulator is the bag of the shares added to it.  Proofs   *)
(* and signatures are idealised: a message either carries a valid one or   *)
(* is rejected.  Commitment roots (EndBlock phase 1) are in CommitmentTree.*)
(***************************************************************************)
EXTENDS CeremonyMath, FiniteSetsExt

CONSTANTS
    Rounds,              \* vote round ids
    Validators,          \* validator operator addresses, as natural numbers
    Flaky,               \* validators that x/slashing may jail, or that unjail
    Shares,              \* share nullifiers
    Slots,               \* (proposal, decision) pairs, one accumulator each
    SlotOf,              \* the slot a share is cast for
    ValueOf,             \* the plaintext value a share encrypts
    MinCeremonyValidators,
    ContributionTimeout, \* types.DefaultContributionTimeout
    DealTimeout,         \* types.DefaultDealTimeout
    TallyTimeout,        \* types.DefaultTallyTimeout
    TallyBSGSBound,      \* types.TallyBSGSBound
    VoteEnds,            \* vote_end_time values a session may be created with
    MaxStep,             \* bound: largest advance of block time per block
    CreateBy,            \* bound: no session is created after this time
    MaxTime              \* bound: block time stops here

ASSUME ConstantsAssumption ==
    /\ Validators \subseteq Nat /\ IsFiniteSet(Validators)
    /\ Flaky \subseteq Validators
    /\ IsFiniteSet(Shares) /\ Shares # {}
    /\ SlotOf \in [Shares -> Slots]
    /\ ValueOf \in [Shares -> Nat]
    /\ MinCeremonyValidators \in Nat \ {0}
    /\ {ContributionTimeout, DealTimeout, TallyTimeout} \subseteq Nat \ {0}
    /\ TallyBSGSBound \in Nat
    /\ VoteEnds \subseteq Nat
    /\ {MaxStep, CreateBy, MaxTime} \subseteq Nat

VARIABLES
    time,         \* block time (seconds, ctx.BlockTime().Unix())
    proposer,     \* operator address of the block's proposer
    jailed,       \* validators jailed in x/staking
    status,       \* VoteRound.status, "NONE" when the id is unused
    ceremony,     \* VoteRound.ceremony_status
    vals,         \* addresses in VoteRound.ceremony_validators
    shamir,       \* their shamir_index (0 when not a ceremony validator)
    contribs,     \* validators with a DKGContribution
    dealt,        \* evaluation point of the key share each validator was dealt
    acks,         \* validators with an AckEntry
    threshold,    \* VoteRound.threshold
    deadline,     \* ceremony_phase_start + ceremony_phase_timeout
    voteEnd,      \* vote_end_time
    tallyEnd,     \* tally_phase_start + tally_phase_timeout
    timedOut,     \* tally_timed_out
    nullifiers,   \* share nullifiers recorded for the round
    tally,        \* accumulators: how often each share was added
    shareCount,   \* per-slot share counter of the VoteSummary query
    partials,     \* by Shamir index: the accumulators decrypted, or <<>>
    results       \* stored TallyResults (slot -> total), or <<>>

blockVars    == <<time, proposer, jailed>>
ceremonyVars == <<ceremony, vals, shamir, contribs, dealt, acks, threshold,
                  deadline>>
windowVars   == <<voteEnd, tallyEnd, timedOut>>
shareVars    == <<nullifiers, tally, shareCount>>
decryptVars  == <<partials, results>>
vars == <<blockVars, status, ceremonyVars, windowVars, shareVars, decryptVars>>

Statuses   == {"NONE", "PENDING", "ACTIVE", "TALLYING", "FINALIZED",
               "CEREMONY_FAILED"}
Ceremonies == {"NONE", "REGISTERING", "DEALT", "CONFIRMED"}
TallyBags  == [Shares -> Nat]
Indices    == 0 .. Cardinality(Validators)

\* A missing partial decryption, or a round without stored results.
Absent == <<>>

-----------------------------------------------------------------------------
(* What the accumulators hold. *)

EmptyTally == [s \in Shares |-> 0]

\* GetTally of a slot is nil until a share has been added to it.
NonEmptyAccumulators(b) == {SlotOf[s] : s \in {x \in Shares : b[x] > 0}}

\* The plaintext under the accumulator of a slot.
TotalValue(b, slot) ==
    MapThenSumSet(LAMBDA s : b[s] * ValueOf[s], {s \in Shares : SlotOf[s] = slot})

\* The TallyResults stored for accumulators b.
TallyResults(b) == [slot \in Slots |-> TotalValue(b, slot)]

StoredPartials(r) == {i \in DOMAIN partials[r] : partials[r][i] # Absent}

-----------------------------------------------------------------------------
Init ==
    /\ time = 0
    /\ proposer \in Validators
    /\ jailed = {}
    /\ status = [r \in Rounds |-> "NONE"]
    /\ ceremony = [r \in Rounds |-> "NONE"]
    /\ vals = [r \in Rounds |-> {}]
    /\ shamir = [r \in Rounds |-> [v \in Validators |-> 0]]
    /\ contribs = [r \in Rounds |-> {}]
    /\ dealt = [r \in Rounds |-> [v \in Validators |-> 0]]
    /\ acks = [r \in Rounds |-> {}]
    /\ threshold = [r \in Rounds |-> 0]
    /\ deadline = [r \in Rounds |-> 0]
    /\ voteEnd = [r \in Rounds |-> 0]
    /\ tallyEnd = [r \in Rounds |-> 0]
    /\ timedOut = [r \in Rounds |-> FALSE]
    /\ nullifiers = [r \in Rounds |-> {}]
    /\ tally = [r \in Rounds |-> EmptyTally]
    /\ shareCount = [r \in Rounds |-> [slot \in Slots |-> 0]]
    /\ partials = [r \in Rounds |-> [i \in Indices |-> Absent]]
    /\ results = [r \in Rounds |-> Absent]

\* Mutant: only a ceremony still REGISTERING blocks a new session.
HasRegisteringRound ==
    \E r \in Rounds : status[r] = "PENDING" /\ ceremony[r] = "REGISTERING"

HasPendingRound == \E r \in Rounds : status[r] = "PENDING"

\* The snapshot numbers the validators 1..n in key order.
SnapshotIndices(S) ==
    [v \in Validators |-> IF v \in S THEN ShamirIndexOf(S, v) ELSE 0]

\* executeCreateVotingSession: S is GetEligibleValidators, end the vote end.
CreateVotingSession(r, S, end) ==
    /\ time <= CreateBy
    /\ status[r] = "NONE"
    /\ ~HasPendingRound
    /\ S \cap jailed = {}
    /\ Cardinality(S) >= MinCeremonyValidators
    /\ status' = [status EXCEPT ![r] = "PENDING"]
    /\ ceremony' = [ceremony EXCEPT ![r] = "REGISTERING"]
    /\ vals' = [vals EXCEPT ![r] = S]
    /\ shamir' = [shamir EXCEPT ![r] = SnapshotIndices(S)]
    /\ voteEnd' = [voteEnd EXCEPT ![r] = end]
    /\ deadline' = [deadline EXCEPT ![r] = time + ContributionTimeout]
    /\ UNCHANGED <<blockVars, contribs, dealt, acks, threshold, tallyEnd,
                   timedOut, shareVars, decryptVars>>

GetPendingRoundWithCeremony(r, wantCeremony) ==
    /\ status[r] = "PENDING"
    /\ ceremony[r] = wantCeremony

\* finalizeDKG: the n-th contribution fixes the threshold, renumbers the
\* validators and opens the ack phase.  Contributor polynomials were evaluated
\* at the snapshot positions (shamir.Split returns shares 1..n in order).
FinalizeDKG(r) ==
    /\ threshold' = [threshold EXCEPT ![r] = ThresholdForN(Cardinality(vals[r]))]
    /\ shamir' = [shamir EXCEPT ![r] = SnapshotIndices(vals[r])]
    /\ dealt' = [dealt EXCEPT ![r] = SnapshotIndices(vals[r])]
    /\ deadline' = [deadline EXCEPT ![r] = time + DealTimeout]
    /\ ceremony' = [ceremony EXCEPT ![r] = "DEALT"]

ContributeDKG(r) ==
    /\ GetPendingRoundWithCeremony(r, "REGISTERING")
    /\ proposer \in vals[r] \ contribs[r]
    /\ contribs' = [contribs EXCEPT ![r] = @ \cup {proposer}]
    /\ IF Cardinality(contribs'[r]) = Cardinality(vals[r])
       THEN FinalizeDKG(r)
       ELSE UNCHANGED <<threshold, shamir, dealt, deadline, ceremony>>
    /\ UNCHANGED <<blockVars, status, vals, acks, windowVars, shareVars,
                   decryptVars>>

\* AckExecutiveAuthorityKey: the last ack confirms the ceremony.
AckExecutiveAuthorityKey(r) ==
    /\ GetPendingRoundWithCeremony(r, "DEALT")
    /\ proposer \in vals[r] \ acks[r]
    /\ acks' = [acks EXCEPT ![r] = @ \cup {proposer}]
    /\ IF Cardinality(acks'[r]) = Cardinality(vals[r])
       THEN /\ ceremony' = [ceremony EXCEPT ![r] = "CONFIRMED"]
            /\ status' = [status EXCEPT ![r] = "ACTIVE"]
       ELSE UNCHANGED <<ceremony, status>>
    /\ UNCHANGED <<blockVars, vals, shamir, contribs, dealt, threshold, deadline,
                   windowVars, shareVars, decryptVars>>

ValidateRoundForVoting(r) ==
    /\ status[r] = "ACTIVE"
    /\ time < voteEnd[r]

\* CheckAndSetNullifier, AddToTally and IncrementShareCount of one share.
RevealShare(r, s) ==
    /\ ValidateRoundForVoting(r)
    /\ s \notin nullifiers[r]
    /\ nullifiers' = [nullifiers EXCEPT ![r] = @ \cup {s}]
    /\ tally' = [tally EXCEPT ![r][s] = @ + 1]
    /\ shareCount' = [shareCount EXCEPT ![r][SlotOf[s]] = @ + 1]
    /\ UNCHANGED <<blockVars, status, ceremonyVars, windowVars, decryptVars>>

\* SubmitPartialDecryption: one submission per Shamir index, covering every
\* non-empty accumulator.  The DLEQ proof verifies only when the index names
\* the evaluation point of the share the validator really holds.
SubmitPartialDecryption(r) ==
    /\ status[r] = "TALLYING"
    /\ proposer \in vals[r]
    /\ LET i == shamir[r][proposer]
       IN  /\ partials[r][i] = Absent
           /\ NonEmptyAccumulators(tally[r]) # {}
           /\ i = dealt[r][proposer]
           /\ partials' = [partials EXCEPT ![r][i] = tally[r]]
    /\ UNCHANGED <<blockVars, status, ceremonyVars, windowVars, shareVars, results>>

\* Lagrange combination of all stored partials reproduces C2 - v*G only if
\* there are enough of them and each was computed on this accumulator.
CombinePartials(r) ==
    /\ Cardinality(StoredPartials(r)) >= threshold[r]
    /\ \A i \in StoredPartials(r) : partials[r][i] = tally[r]

\* Mutant: a tally is also accepted after the tally phase timed out.
LateSubmitTally(r) ==
    /\ status[r] \in {"TALLYING", "FINALIZED"}
    /\ NonEmptyAccumulators(tally[r]) # {} => CombinePartials(r)
    /\ \A slot \in NonEmptyAccumulators(tally[r]) :
          TotalValue(tally[r], slot) < TallyBSGSBound
    /\ results' = [results EXCEPT ![r] = TallyResults(tally[r])]
    /\ status' = [status EXCEPT ![r] = "FINALIZED"]
    /\ UNCHANGED <<blockVars, ceremonyVars, windowVars, shareVars, partials>>

\* SubmitTally: the entries cover every non-empty accumulator, each total is
\* below the BSGS bound and is confirmed by the stored partial decryptions.
\* A round without votes is finalised with no partial decryptions at all.
SubmitTally(r) ==
    /\ status[r] = "TALLYING"
    /\ NonEmptyAccumulators(tally[r]) # {} => CombinePartials(r)
    /\ \A slot \in NonEmptyAccumulators(tally[r]) :
          TotalValue(tally[r], slot) < TallyBSGSBound
    /\ results' = [results EXCEPT ![r] = TallyResults(tally[r])]
    /\ status' = [status EXCEPT ![r] = "FINALIZED"]
    /\ UNCHANGED <<blockVars, ceremonyVars, windowVars, shareVars, partials>>

-----------------------------------------------------------------------------
(* EndBlock.  The rounds are loaded once and each phase looks at the status
   the earlier phases left; because the timeouts are positive, a round is
   touched by at most one phase per block. *)

VoteEnded(r) == status[r] = "ACTIVE" /\ time >= voteEnd[r]

RegisteringTimedOut(r) ==
    GetPendingRoundWithCeremony(r, "REGISTERING") /\ time >= deadline[r]

DealtTimedOut(r) ==
    GetPendingRoundWithCeremony(r, "DEALT") /\ time >= deadline[r]

\* Mutant: the tally deadline is checked without looking at the status.
TallyDeadlinePassed(r) == status[r] \in {"ACTIVE", "TALLYING"} /\ time >= tallyEnd[r]

TallyTimedOut(r) == status[r] = "TALLYING" /\ time >= tallyEnd[r]

\* A timed-out DEALT ceremony activates when enough validators acked.
QuorumAcked(r) ==
    Cardinality(acks[r]) >= RequiredCeremonyQuorumForN(Cardinality(vals[r]))

ConfirmedByTimeout(r) == DealtTimedOut(r) /\ QuorumAcked(r)

\* Mutant: the contributors are jailed instead of the others.
CeremonyContributors(r) == contribs[r]

MissingCeremonyContributors(r) == vals[r] \ contribs[r]

\* Mutant: the survivors are renumbered by their new position.
StripAndRenumber(r) ==
    [S |-> vals[r] \cap acks[r],
     C |-> contribs[r] \cap acks[r],
     I |-> SnapshotIndices(vals[r] \cap acks[r])]

\* StripNonAckersFromRound: the survivors keep the index they were dealt.
StripNonAckers(r) ==
    [S |-> vals[r] \cap acks[r],
     C |-> contribs[r] \cap acks[r],
     I |-> [v \in Validators |-> IF v \in acks[r] THEN shamir[r][v] ELSE 0]]

\* Mutant: the tally phase has no timeout.
StatusWithoutTallyTimeout(r) ==
    CASE VoteEnded(r) -> "TALLYING"
      [] RegisteringTimedOut(r) -> "CEREMONY_FAILED"
      [] DealtTimedOut(r) -> IF QuorumAcked(r) THEN "ACTIVE" ELSE "CEREMONY_FAILED"
      [] OTHER -> status[r]

StatusAfterBlock(r) ==
    CASE VoteEnded(r) -> "TALLYING"
      [] RegisteringTimedOut(r) -> "CEREMONY_FAILED"
      [] DealtTimedOut(r) -> IF QuorumAcked(r) THEN "ACTIVE" ELSE "CEREMONY_FAILED"
      [] TallyTimedOut(r) -> "FINALIZED"
      [] OTHER -> status[r]

\* The next block has proposer p and comes d seconds later.
EndBlock(d, p) ==
    /\ time + d <= MaxTime
    /\ time' = time + d
    /\ proposer' = p
    /\ jailed' = jailed \cup UNION {MissingCeremonyContributors(r) :
                                      r \in {x \in Rounds : RegisteringTimedOut(x)}}
    /\ status' = [r \in Rounds |-> StatusAfterBlock(r)]
    /\ ceremony' = [r \in Rounds |->
                      IF ConfirmedByTimeout(r) THEN "CONFIRMED" ELSE ceremony[r]]
    /\ vals' = [r \in Rounds |->
                  IF ConfirmedByTimeout(r) THEN StripNonAckers(r).S ELSE vals[r]]
    /\ contribs' = [r \in Rounds |->
                      IF ConfirmedByTimeout(r) THEN StripNonAckers(r).C ELSE contribs[r]]
    /\ shamir' = [r \in Rounds |->
                    IF ConfirmedByTimeout(r) THEN StripNonAckers(r).I ELSE shamir[r]]
    /\ tallyEnd' = [r \in Rounds |->
                      IF VoteEnded(r) THEN time + TallyTimeout ELSE tallyEnd[r]]
    /\ timedOut' = [r \in Rounds |-> timedOut[r] \/ TallyTimedOut(r)]
    /\ UNCHANGED <<dealt, acks, threshold, deadline, voteEnd, shareVars, decryptVars>>

\* x/slashing jails a validator for missing blocks; MsgUnjail releases one.
SlashingJail(v) ==
    /\ v \notin jailed
    /\ jailed' = jailed \cup {v}
    /\ UNCHANGED <<time, proposer, status, ceremonyVars, windowVars, shareVars,
                   decryptVars>>

Unjail(v) ==
    /\ v \in jailed
    /\ jailed' = jailed \ {v}
    /\ UNCHANGED <<time, proposer, status, ceremonyVars, windowVars, shareVars,
                   decryptVars>>

Next ==
    \/ \E r \in Rounds, S \in SUBSET Validators, end \in VoteEnds :
          CreateVotingSession(r, S, end)
    \/ \E r \in Rounds : ContributeDKG(r)
    \/ \E r \in Rounds : AckExecutiveAuthorityKey(r)
    \/ \E r \in Rounds, s \in Shares : RevealShare(r, s)
    \/ \E r \in Rounds : SubmitPartialDecryption(r)
    \/ \E r \in Rounds : SubmitTally(r)
    \/ \E d \in 0 .. MaxStep, p \in Validators : EndBlock(d, p)
    \/ \E v \in Flaky : SlashingJail(v)
    \/ \E v \in Flaky : Unjail(v)

Spec == Init /\ [][Next]_vars

\* Blocks keep being produced and, until the bound, block time keeps moving.
Tick == \E p \in Validators : EndBlock(IF time < MaxTime THEN 1 ELSE 0, p)

FairSpec == Spec /\ WF_vars(Tick)

-----------------------------------------------------------------------------
(* Properties. *)

\* Type invariant of the stored rounds, tallies and partial decryptions.
TypeOK ==
    /\ time \in Nat
    /\ proposer \in Validators
    /\ jailed \subseteq Validators
    /\ status \in [Rounds -> Statuses]
    /\ ceremony \in [Rounds -> Ceremonies]
    /\ vals \in [Rounds -> SUBSET Validators]
    /\ shamir \in [Rounds -> [Validators -> Indices]]
    /\ contribs \in [Rounds -> SUBSET Validators]
    /\ dealt \in [Rounds -> [Validators -> Indices]]
    /\ acks \in [Rounds -> SUBSET Validators]
    /\ threshold \in [Rounds -> Nat]
    /\ deadline \in [Rounds -> Nat]
    /\ voteEnd \in [Rounds -> Nat]
    /\ tallyEnd \in [Rounds -> Nat]
    /\ timedOut \in [Rounds -> BOOLEAN]
    /\ nullifiers \in [Rounds -> SUBSET Shares]
    /\ tally \in [Rounds -> TallyBags]
    /\ shareCount \in [Rounds -> [Slots -> Nat]]
    /\ partials \in [Rounds -> [Indices -> TallyBags \cup {Absent}]]
    /\ DOMAIN results = Rounds
    /\ \A r \in Rounds : results[r] = Absent \/ DOMAIN results[r] = Slots

\* HasPendingRound guards creation, and no handler or timeout brings a round
\* back to PENDING: two ceremonies never run at the same time.
OneCeremonyAtATime ==
    \A r, q \in Rounds :
        status[r] = "PENDING" /\ status[q] = "PENDING" => r = q

\* Whoever is left after StripNonAckersFromRound is enough to decrypt: every
\* remaining validator contributed and acked, and they reach the threshold
\* that finalizeDKG computed from the larger, unstripped set.
SurvivorsReachThreshold ==
    \A r \in Rounds : status[r] \in {"ACTIVE", "TALLYING"} =>
        /\ vals[r] \subseteq acks[r] \cap contribs[r]
        /\ Cardinality(vals[r]) >= threshold[r]
        /\ threshold[r] >= 1

\* The Shamir index stored for a validator is the point its key share was
\* evaluated at, and no two validators share one, also after stripping.
SharesStayAtTheirIndex ==
    \A r \in Rounds : ceremony[r] \in {"DEALT", "CONFIRMED"} =>
        /\ \A v \in vals[r] : shamir[r][v] = dealt[r][v] /\ shamir[r][v] > 0
        /\ \A v, w \in vals[r] : shamir[r][v] = shamir[r][w] => v = w

\* A share enters the accumulators and the share counter exactly when its
\* nullifier is recorded, and exactly once.
CountedOnce ==
    \A r \in Rounds :
        /\ \A s \in Shares : tally[r][s] = IF s \in nullifiers[r] THEN 1 ELSE 0
        /\ \A slot \in Slots :
              shareCount[r][slot] =
                  Cardinality({s \in nullifiers[r] : SlotOf[s] = slot})

\* Every stored partial decryption was computed on the accumulators as they
\* still are: nothing is added to a tally once decryption has begun.
PartialsMatchTally ==
    \A r \in Rounds : \A i \in StoredPartials(r) : partials[r][i] = tally[r]

\* The totals of a set of counted ballots.
BallotTotals(B) == TallyResults([s \in Shares |-> IF s \in B THEN 1 ELSE 0])

\* A finalised round either timed out and stores no results, or stores exactly
\* the totals of the shares revealed in it; no other round stores results.
ResultsAreTheBallots ==
    \A r \in Rounds :
        /\ results[r] # Absent =>
              /\ status[r] = "FINALIZED" /\ ~timedOut[r]
              /\ results[r] = BallotTotals(nullifiers[r])
        /\ status[r] = "FINALIZED" => (timedOut[r] <=> results[r] = Absent)

\* A validator that let a ceremony time out without contributing is jailed, so
\* it is not snapshotted into the next ceremony unless it was unjailed.
NoRepeatOffender ==
    \A r, f \in Rounds :
        /\ status[r] = "PENDING"
        /\ status[f] = "CEREMONY_FAILED" /\ ceremony[f] = "REGISTERING"
        => vals[r] \cap (vals[f] \ contribs[f]) \subseteq Flaky

\* No round is stuck: EndBlock's timeouts drive each created round to a
\* terminal status whatever the proposers do or fail to do.
EveryRoundSettles ==
    \A r \in Rounds :
        status[r] = "PENDING" ~> status[r] \in {"FINALIZED", "CEREMONY_FAILED"}

\* What a voting round promises, whatever the ceremony and the clock do.
Session == INSTANCE VoteSession
    WITH st <- status, ballots <- nullifiers, outcome <- results,
         NoOutcome <- Absent, OutcomeOf <- BallotTotals

\* The chain's rounds implement the abstract voting sessions.
ImplementsVoteSession == Session!Spec

=============================================================================
