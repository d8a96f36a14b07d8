--------------------------- MODULE ThresholdTally ---------------------------
(***************************************************************************)
(* The key of one round from its distributed generation to the decrypted   *)
(* tally: what VoteRounds takes for granted when it lets a validator ack,  *)
(* a partial decryption verify or a set of partials decrypt.  The values   *)
(* are computed by the operators of PallasGroup, as the injecting proposer *)
(* and the message server compute them; a step is one injected transaction *)
(* together with its execution in the proposer's block.  The validators    *)
(* are 1..n in the order of the snapshot, so a validator is its own        *)
(* evaluation point, which stripping does not change.                      *)
(***************************************************************************)
EXTENDS PallasGroup, CeremonyMath

CONSTANTS
    Sizes,        \* sizes of the validator snapshot a round may start with
    Draws,        \* polynomials a contributor may draw, cut to the threshold
    PallasSk,     \* PallasSk[v]: the Pallas secret key of validator v
    Ephemerals,   \* nonces of envelopes and proofs
    Nonces,       \* randomness of the ballots
    Strays,       \* shares of other rounds a share file may be restored from
    Options,      \* the (proposal, decision) pairs of the round
    Ballots,      \* the values a revealed share may carry
    Bound,        \* types.TallyBSGSBound
    MaxMisdealt,  \* how many envelopes carry the share of another validator
    MaxReveals    \* how many shares are revealed

MaxN == CHOOSE n \in Sizes : \A m \in Sizes : m <= n

\* Totals stay below the group order, as 64-bit totals do on Pallas.
ASSUME BallotBounds ==
    /\ \A v \in Ballots : v * MaxReveals < Q
    /\ Bound <= Q
    /\ \A v \in 1 .. MaxN : PallasSk[v] \in NonZero
    /\ \A p \in Draws : Len(p) >= ThresholdForN(MaxN)

VARIABLES
    n,             \* size of the snapshot
    phase,         \* ceremony and session status
    contributions, \* contributions[v]: the stored contribution of v, or NotYet
    commitments,   \* round.FeldmanCommitments
    coeffs,        \* coeffs[v]: the coefficient file of v, or <<>>
    shareFile,     \* shareFile[v]: the share file of v, or Fail
    acks,          \* validators that acked
    members,       \* round.CeremonyValidators
    tally,         \* tally[o]: the accumulator of option o, or NotYet
    partials,      \* partials[v]: the stored partial decryptions of v, or NotYet
    results,       \* the stored tally results: a function on options
    cast,          \* cast[o]: the values the revealed shares of o really carry
    misdealt, reveals

ceremonyVars == <<n, contributions, commitments, coeffs, shareFile, acks, members, misdealt>>
ballotVars   == <<tally, cast, reveals>>
tallyVars    == <<phase, ceremonyVars, ballotVars, partials, results>>

NotYet == <<>>

Threshold  == ThresholdForN(n)
Everyone   == 1 .. n
Dealers    == {v \in Everyone : contributions[v] # NotYet}
AccKeys    == {o \in Options : tally[o] # NotYet}
PallasPk(v) == Mul(PallasSk[v], Generator)

-----------------------------------------------------------------------------
(* Key generation.                                                         *)

TallyStart(size) ==
    /\ n = size
    /\ phase = "REGISTERING"
    /\ contributions = [v \in 1 .. MaxN |-> NotYet]
    /\ commitments = <<>>
    /\ coeffs = [v \in 1 .. MaxN |-> <<>>]
    /\ shareFile = [v \in 1 .. MaxN |-> Fail]
    /\ acks = {}
    /\ members = 1 .. size
    /\ tally = [o \in Options |-> NotYet]
    /\ partials = [v \in 1 .. MaxN |-> NotYet]
    /\ results = <<>>
    /\ cast = [o \in Options |-> 0]
    /\ misdealt = 0
    /\ reveals = 0

TallyInit == \E size \in Sizes : TallyStart(size)

\* The envelopes of a contribution: everyone but the dealer gets the share at
\* its own position.  A wrong dealer seals the dealer's share for one of them.
Payloads(dealer, poly, wrong, e) ==
    [w \in Everyone \ {dealer} |->
        SealEnvelope(PallasPk(w),
                     Split(poly, n)[IF w = wrong THEN dealer ELSE w], e)]

\* The checks of MsgContributeDKG on what the message carries.
ContributionAccepted(v, C, payloads, proof) ==
    /\ v \in members /\ v \notin Dealers
    /\ Len(C) = Threshold
    /\ \A j \in 1 .. Len(C) : UnmarshalPublicKey(C[j]) # Fail
    /\ DOMAIN payloads = members \ {v}
    /\ \A w \in DOMAIN payloads : UnmarshalPublicKey(payloads[w].ephemeral) # Fail
    /\ VerifyConstantTermProof(proof, v, C)

\* Fail when the round's key or some verification key would be the identity.
FinalizeDKG(all) ==
    LET combined == CombineCommitments([v \in Everyone |-> all[v].commitments])
    IN  IF \/ combined[1] = Identity
           \/ \E i \in Everyone : EvalCommitmentPolynomial(combined, i) = Identity
        THEN <<>> ELSE combined

\* The handler writes the coefficient file before it injects; a refused
\* transaction leaves the file behind and the proposer draws again.
ContributeDKG(v, draw, wrong, nonce) ==
    LET poly  == SubSeq(draw, 1, Threshold)
        C     == FeldmanCommit(poly)
        proof == GenerateConstantTermProof(poly[1], v, C, nonce)
        sent  == Payloads(v, poly, wrong, nonce)
        all   == [contributions EXCEPT ![v] = [commitments |-> C, payloads |-> sent]]
        last  == Dealers \cup {v} = Everyone
        final == IF last THEN FinalizeDKG(all) ELSE <<>>
    IN  /\ phase = "REGISTERING"
        /\ v \in members /\ v \notin Dealers
        /\ poly[1] # 0
        /\ wrong \in {v} \cup Everyone
        /\ wrong # v => misdealt < MaxMisdealt
        /\ coeffs' = [coeffs EXCEPT ![v] = poly]
        /\ IF ContributionAccepted(v, C, sent, proof) /\ (last => final # <<>>)
           THEN /\ contributions' = all
                /\ commitments' = final
                /\ phase' = IF last THEN "DEALT" ELSE phase
                /\ misdealt' = IF wrong # v THEN misdealt + 1 ELSE misdealt
           ELSE UNCHANGED <<contributions, commitments, phase, misdealt>>
        /\ UNCHANGED <<n, shareFile, acks, members, ballotVars, partials, results>>

\* Mutant: the shares are summed without checking each.
AckUnchecked(v) ==
    LET received == [d \in Dealers \ {v} |-> OpenEnvelope(PallasSk[v], contributions[d].payloads[v])]
        seq      == SetToSeq(Dealers \ {v})
    IN  IF \E d \in DOMAIN received : UnmarshalSecretKey(received[d]) = Fail THEN Fail
        ELSE FoldLeft(LAMBDA a, d : (a + received[d]) % Q, EvalPolynomial(coeffs[v], v), seq)

\* The share of v: its own polynomial at its index and what the others sealed
\* for it, each checked against its dealer's commitments and the sum against
\* the combined ones.  Fail when an envelope does not open, carries zero or
\* does not verify.
AckDKGRound(v) ==
    LET received == [d \in Dealers \ {v} |-> OpenEnvelope(PallasSk[v], contributions[d].payloads[v])]
        share    == FoldLeft(LAMBDA a, d : (a + received[d]) % Q,
                             EvalPolynomial(coeffs[v], v), SetToSeq(Dealers \ {v}))
    IN  IF \/ Len(coeffs[v]) # Threshold
           \/ \E d \in DOMAIN received :
                \/ UnmarshalSecretKey(received[d]) = Fail
                \/ ~VerifyFeldmanShare(contributions[d].commitments, v, received[d])
           \/ ~VerifyFeldmanShare(commitments, v, share)
        THEN Fail ELSE share

AckExecutiveAuthorityKey(v) ==
    /\ phase = "DEALT"
    /\ v \in members /\ v \notin acks
    /\ AckDKGRound(v) # Fail
    /\ shareFile' = [shareFile EXCEPT ![v] = AckDKGRound(v)]
    /\ acks' = acks \cup {v}
    /\ phase' = IF acks \cup {v} = members THEN "ACTIVE" ELSE phase
    /\ UNCHANGED <<n, contributions, commitments, coeffs, members, misdealt, ballotVars, partials, results>>

\* The ack phase times out: confirmed without the others, or failed.
DealtTimeout ==
    /\ phase = "DEALT"
    /\ IF Cardinality(acks) >= RequiredCeremonyQuorumForN(Cardinality(members))
       THEN members' = acks /\ phase' = "ACTIVE"
       ELSE members' = members /\ phase' = "CEREMONY_FAILED"
    /\ UNCHANGED <<n, contributions, commitments, coeffs, shareFile, acks, misdealt, ballotVars, partials, results>>

-----------------------------------------------------------------------------
(* Voting.                                                                 *)

EaPk == commitments[1]

ValidateNonIdentityCiphertext(ct) == ct.C1 # Identity /\ ct.C2 # Identity

AddToTally(acc, share) == IF acc = NotYet THEN share ELSE HomomorphicAdd(acc, share)

\* A share of value val for option o, encrypted with randomness r; refused
\* when it, or the new accumulator, has an identity component.
RevealShare(o, val, r) ==
    LET share == Encrypt(EaPk, val, r)
        sum   == AddToTally(tally[o], share)
    IN  /\ phase = "ACTIVE"
        /\ reveals < MaxReveals
        /\ ValidateNonIdentityCiphertext(share)
        /\ ValidateNonIdentityCiphertext(sum)
        /\ tally' = [tally EXCEPT ![o] = sum]
        /\ cast' = [cast EXCEPT ![o] = @ + val]
        /\ reveals' = reveals + 1
        /\ UNCHANGED <<phase, ceremonyVars, partials, results>>

VotingEnds ==
    /\ phase = "ACTIVE"
    /\ phase' = "TALLYING"
    /\ UNCHANGED <<ceremonyVars, ballotVars, partials, results>>

-----------------------------------------------------------------------------
(* Tallying.                                                               *)

\* The entries a validator injects for every accumulator.
PartialEntries(share, k) ==
    [o \in AccKeys |->
        [D |-> PartialDecrypt(share, tally[o].C1),
         proof |-> GeneratePartialDecryptDLEQ(share, tally[o].C1, k)]]

\* Mutant: the entries are stored as they come.
PartialsUnchecked(v, entries) == v \in members /\ partials[v] = NotYet

PartialsAccepted(v, entries) ==
    /\ v \in members
    /\ partials[v] = NotYet
    /\ DOMAIN entries = AccKeys
    /\ \A o \in AccKeys :
          VerifyPartialDecryptDLEQ(entries[o].proof, EvalCommitmentPolynomial(commitments, v),
                                   tally[o].C1, entries[o].D)

\* v submits with the share it loads: its own, or one restored from elsewhere.
SubmitPartialDecryption(v, share, k) ==
    /\ phase = "TALLYING"
    /\ share \notin {Fail, 0}
    /\ AccKeys # {}
    /\ PartialsAccepted(v, PartialEntries(share, k))
    /\ partials' = [partials EXCEPT ![v] = [o \in AccKeys |-> PartialEntries(share, k)[o].D]]
    /\ UNCHANGED <<phase, ceremonyVars, ballotVars, results>>

\* All stored partials of an option, in the order of their index.
PartialsFor(o) ==
    LET stored == SelectSeq([i \in 1 .. MaxN |-> i], LAMBDA i : partials[i] # NotYet)
    IN  [j \in 1 .. Len(stored) |-> <<stored[j], partials[stored[j]][o]>>]

\* C2 - sum(lambda_i * D_i), or Fail with fewer than threshold partials.
CombinedValuePoint(o) ==
    LET skC1 == CombinePartials(PartialsFor(o), Threshold)
    IN  IF skC1 = Fail THEN Fail ELSE Minus(tally[o].C2, skC1)

\* What the injecting proposer claims, option by option.
DecryptRoundTalliesThreshold ==
    [o \in AccKeys |->
        IF CombinedValuePoint(o) = Fail THEN Fail
        ELSE Solve(NewBSGSTable(Bound), CombinedValuePoint(o))]

ValidateTallyCompleteness(entries) == AccKeys \subseteq DOMAIN entries

TallyAccepted(entries) ==
    /\ \A o \in DOMAIN entries :
          /\ entries[o] \in 0 .. Bound - 1
          /\ IF o \in AccKeys THEN CombinedValuePoint(o) = ValuePoint(entries[o])
                              ELSE entries[o] = 0
    /\ ValidateTallyCompleteness(entries)

\* Whatever a proposer claims, the message server recomputes.
SubmitTally(entries) ==
    /\ phase = "TALLYING"
    /\ TallyAccepted(entries)
    /\ results' = entries
    /\ phase' = "FINALIZED"
    /\ UNCHANGED <<ceremonyVars, ballotVars, partials>>

TallyTimeout ==
    /\ phase = "TALLYING"
    /\ phase' = "TALLY_TIMED_OUT"
    /\ UNCHANGED <<ceremonyVars, ballotVars, partials, results>>

Claims == UNION {[S -> 0 .. Bound] : S \in SUBSET Options}

TallyNext ==
    \/ \E v \in Everyone, draw \in Draws, wrong \in Everyone, k \in Ephemerals :
          ContributeDKG(v, draw, wrong, k)
    \/ \E v \in Everyone : AckExecutiveAuthorityKey(v)
    \/ DealtTimeout
    \/ \E o \in Options, val \in Ballots, r \in Nonces : RevealShare(o, val, r)
    \/ VotingEnds
    \/ \E v \in Everyone, k \in Ephemerals : \E s \in {shareFile[v]} \cup Strays :
          SubmitPartialDecryption(v, s, k)
    \/ \E entries \in Claims : SubmitTally(entries)
    \/ TallyTimeout

TallySpec == TallyInit /\ [][TallyNext]_tallyVars

-----------------------------------------------------------------------------
(* Properties.                                                             *)

EaSk == FoldLeft(LAMBDA a, p : (a + p[1]) % Q, 0, SubSeq(coeffs, 1, n))

\* Any threshold of validators whose acks the chain stored hold, in the share
\* files they wrote when acking (ackDKGRound), the key behind the round's
\* ea_pk, although no one ever computed it and some contributors sealed wrong
\* shares; and the key is not degenerate (finalizeDKG).
SharesInterpolateTheKey ==
    phase \notin {"REGISTERING", "CEREMONY_FAILED"} =>
        /\ EaPk = Mul(EaSk, Generator) /\ EaPk # Identity
        /\ \A S \in kSubset(Threshold, acks) :
              LET seq     == SetToSortSeq(S, <)
                  lambdas == LagrangeCoefficients(seq, 0)
              IN  FoldLeft(LAMBDA a, j : (a + lambdas[j] * shareFile[seq[j]]) % Q, 0,
                           [j \in 1 .. Len(seq) |-> j]) = EaSk

\* Once the threshold of partial decryptions is stored, from whichever
\* survivors, what TallyPrepareProposalHandler computes is the sum of the
\* revealed values, and SubmitTally accepts it; a total at or over the table's
\* bound is an error for the injector, never a wrong number.  Whatever entries a
\* proposer puts in MsgSubmitTally, the results stored when the round is
\* finalized are those sums, for every option with votes.
DecryptsExactlyTheSum ==
    /\ phase = "TALLYING" /\ Cardinality({v \in Everyone : partials[v] # NotYet}) >= Threshold =>
           /\ \A o \in AccKeys :
                 DecryptRoundTalliesThreshold[o] = IF cast[o] < Bound THEN cast[o] ELSE Fail
           /\ (\A o \in AccKeys : cast[o] < Bound) => TallyAccepted(DecryptRoundTalliesThreshold)
    /\ phase = "FINALIZED" =>
           /\ AccKeys \subseteq DOMAIN results
           /\ \A o \in DOMAIN results : results[o] = cast[o]

=============================================================================
