---------------------------- MODULE ProposerNode ----------------------------
(***************************************************************************)
(* What a validator does when it proposes a block (src/app).  Its          *)
(* PrepareProposal handler reads the committed state, writes secrets to    *)
(* files and injects messages; other validators check the proposal with    *)
(* ProcessProposal; one of the proposals of a height is decided and        *)
(* executed.  A proposal is speculative: its files are on disk whether it  *)
(* commits or not, and a validator may be asked for several proposals at   *)
(* one height, when the first ones are not decided at once.                *)
(*                                                                         *)
(* The chain is reduced to what the handlers read of a round.              *)
(***************************************************************************)
EXTENDS CeremonyMath, FiniteSetsExt

CONSTANTS
    Validators,   \* validators 1..n, all with a registered Pallas key
    Rounds,       \* round ids, in the order of the store's iterators
    Versions,     \* polynomials a validator may draw
    MaxPrepares,  \* calls of PrepareProposal per validator and height
    MaxTimeouts,  \* bound on phase timeouts
    MaxCrashes    \* bound on crashes

VARIABLES
    round,      \* the committed rounds
    coeffs,     \* coeffs[v][r]: the file coeffs.<r> of validator v
    share,      \* share[v][r]: the file share.<r> of validator v
    cache,      \* cache[v][r]: the share cache in v's memory
    proposals,  \* the proposals made at this height
    prepares,   \* how often each validator was asked at this height
    active,     \* the bonded validators, none of them jailed
    timeouts,
    crashes,
    cutShort    \* history: <<v, r>> when v crashed in writing its share of r
                \* again, with a proposal of it open that acks r

nodeVars == <<coeffs, share, cache>>
vars == <<round, nodeVars, proposals, prepares, active, timeouts, crashes, cutShort>>

NoRound == 0
Missing == 0
Torn    == -1     \* a file cut short by a crash in os.WriteFile

Ended == {"FINALIZED", "CEREMONY_FAILED"}

BlankRound(s) ==
    [status |-> s, ceremony |-> "REGISTERING", vals |-> Validators,
     contribs |-> [v \in Validators |-> 0], threshold |-> 0, acks |-> {},
     votes |-> FALSE, partials |-> {}]

NewRound == BlankRound("NONE")

\* No handler reads more of an ended round than its status.
EndRound(s) == BlankRound(s)

Init ==
    /\ round = [r \in Rounds |-> NewRound]
    /\ coeffs = [v \in Validators |-> [r \in Rounds |-> Missing]]
    /\ share = [v \in Validators |-> [r \in Rounds |-> "missing"]]
    /\ cache = [v \in Validators |-> [r \in Rounds |-> "missing"]]
    /\ proposals = {}
    /\ prepares = [v \in Validators |-> 0]
    /\ active = Validators
    /\ timeouts = 0
    /\ crashes = 0
    /\ cutShort = {}

-----------------------------------------------------------------------------
(* PrepareProposal: what each injector decides from the committed state.   *)

FirstRound(R) == IF R = {} THEN NoRound ELSE Min(R)

FindFirstPendingRound(c) ==
    FirstRound({r \in Rounds : round[r].status = "PENDING" /\ round[r].ceremony = c})

TallyRound == FirstRound({r \in Rounds : round[r].status = "TALLYING"})

\* The round v's DKG contribution is injected for.
ContributeTo(v) ==
    LET r == FindFirstPendingRound("REGISTERING")
    IN  IF r # NoRound /\ v \in round[r].vals /\ round[r].contribs[v] = 0
        THEN r ELSE NoRound

\* ackDKGRound: with the polynomial of v's own committed contribution on disk
\* the combined share verifies; with any other file it does not, and nothing
\* is written or injected.
AckDKGRound(v, r) == coeffs[v][r] = round[r].contribs[v]

\* The round v's ack is injected for, once its share is on disk.
AckOf(v) ==
    LET r == FindFirstPendingRound("DEALT")
    IN  IF r # NoRound /\ v \notin round[r].acks /\ v \in round[r].vals
           /\ AckDKGRound(v, r)
        THEN r ELSE NoRound

\* The round whose share v needs now.
DecryptRound(v) ==
    LET r == TallyRound
    IN  IF r # NoRound /\ v \in round[r].vals /\ v \notin round[r].partials
        THEN r ELSE NoRound

\* loadShareForRoundCached, after eviction of the ended rounds.
LoadShare(v, r) ==
    IF cache[v][r] # "missing" THEN cache[v][r]
    ELSE IF share[v][r] = "torn" THEN "missing" ELSE share[v][r]

\* No accumulator, or enough partial decryptions of all of them.
TallyReady(r) ==
    round[r].votes => Cardinality(round[r].partials) >= round[r].threshold

\* A new polynomial: not the one on disk, nor one in an open proposal of v.
FreshVersion(v, r) ==
    Min(Versions \ ({coeffs[v][r]} \cup {p.version : p \in {q \in proposals : q.by = v}}))

Decryptable(v) ==
    LET r == DecryptRound(v)
    IN  r # NoRound /\ LoadShare(v, r) # "missing" /\ round[r].votes

Proposal(v) ==
    [by |-> v,
     contribute |-> ContributeTo(v),
     version |-> IF ContributeTo(v) = NoRound THEN 0 ELSE FreshVersion(v, ContributeTo(v)),
     ack |-> AckOf(v),
     decrypt |-> IF Decryptable(v) THEN DecryptRound(v) ELSE NoRound,
     tally |-> IF TallyRound # NoRound /\ TallyReady(TallyRound) THEN TallyRound ELSE NoRound]

\* Mutant: the share is removed together with the coefficients.
NotPending(r) == round[r].status # "PENDING"

\* Mutant: the share of a failed ceremony is kept.
NotTallied(r) == round[r].status = "FINALIZED"

\* cleanOrphanedShareFiles and the eviction from the cache.
ShareObsolete(r) == round[r].status \in Ended

\* Mutant: the coefficients are removed once a share was recovered from them.
PastDealing(r) == round[r].ceremony # "REGISTERING"

\* cleanObsoleteCoeffFiles
CoeffsObsolete(r) == round[r].status # "PENDING"

\* The four injectors in their order, and the files they leave: the clean-up
\* runs between the ack and the partial decryption.
Prepare(v) ==
    LET p == Proposal(v) IN
    /\ prepares[v] < MaxPrepares
    /\ prepares' = [prepares EXCEPT ![v] = @ + 1]
    /\ proposals' = proposals \cup {p}
    /\ coeffs' = [coeffs EXCEPT ![v] = [r \in Rounds |->
           IF r = p.contribute THEN p.version
           ELSE IF CoeffsObsolete(r) THEN Missing ELSE @[r]]]
    /\ share' = [share EXCEPT ![v] = [r \in Rounds |->
           IF r = p.ack THEN "good"
           ELSE IF ShareObsolete(r) THEN "missing" ELSE @[r]]]
    /\ cache' = [cache EXCEPT ![v] = [r \in Rounds |->
           IF ShareObsolete(r) THEN "missing"
           ELSE IF r = DecryptRound(v) THEN LoadShare(v, r) ELSE @[r]]]
    /\ UNCHANGED <<round, active, timeouts, crashes, cutShort>>

AckProposed(v, r) == \E p \in proposals : p.by = v /\ p.ack = r

\* A validator stops, perhaps in the middle of writing a file, and starts
\* again with an empty cache; what it proposed before is with the others.
Crash(v) ==
    /\ crashes < MaxCrashes
    /\ crashes' = crashes + 1
    /\ cache' = [cache EXCEPT ![v] = [r \in Rounds |-> "missing"]]
    /\ \/ UNCHANGED <<coeffs, share, cutShort>>
       \/ /\ prepares[v] < MaxPrepares
          /\ ContributeTo(v) # NoRound
          /\ coeffs' = [coeffs EXCEPT ![v][ContributeTo(v)] = Torn]
          /\ UNCHANGED <<share, cutShort>>
       \/ /\ prepares[v] < MaxPrepares
          /\ AckOf(v) # NoRound
          /\ share' = [share EXCEPT ![v][AckOf(v)] = "torn"]
          /\ cutShort' = IF AckProposed(v, AckOf(v))
                         THEN cutShort \cup {<<v, AckOf(v)>>} ELSE cutShort
          /\ UNCHANGED coeffs
    /\ UNCHANGED <<round, proposals, prepares, active, timeouts>>

-----------------------------------------------------------------------------
(* ProcessProposal: the checks of the other validators.                    *)

CeremonyAt(r, c) == round[r].status = "PENDING" /\ round[r].ceremony = c

ValidContribution(p) ==
    /\ CeremonyAt(p.contribute, "REGISTERING")
    /\ p.by \in round[p.contribute].vals
    /\ round[p.contribute].contribs[p.by] = 0

ValidAck(p) ==
    /\ CeremonyAt(p.ack, "DEALT")
    /\ p.by \in round[p.ack].vals
    /\ p.by \notin round[p.ack].acks

ValidPartialDecrypt(p) ==
    /\ round[p.decrypt].status = "TALLYING"
    /\ p.by \in round[p.decrypt].vals
    /\ p.by \notin round[p.decrypt].partials

ValidTally(p) == round[p.tally].status = "TALLYING"

ProcessProposal(p) ==
    /\ p.contribute # NoRound => ValidContribution(p)
    /\ p.ack # NoRound => ValidAck(p)
    /\ p.decrypt # NoRound => ValidPartialDecrypt(p)
    /\ p.tally # NoRound => ValidTally(p)

-----------------------------------------------------------------------------
(* FinalizeBlock: the injected messages run in the order tally, partial    *)
(* decryption, ack, contribution.  The handlers repeat the checks of       *)
(* ProcessProposal; here only those are repeated that an earlier message   *)
(* of the block can change.  A failed message changes nothing.             *)

SubmitTally(rs, p) ==
    IF p.tally # NoRound /\ rs[p.tally].status = "TALLYING"
    THEN [rs EXCEPT ![p.tally] = EndRound("FINALIZED")] ELSE rs

Decrypted(rd, v) == [rd EXCEPT !.partials = rd.partials \cup {v}]

SubmitPartialDecryption(rs, p) ==
    IF p.decrypt # NoRound /\ rs[p.decrypt].status = "TALLYING"
    THEN [rs EXCEPT ![p.decrypt] = Decrypted(@, p.by)] ELSE rs

\* The last ack confirms the ceremony.
Acked(rd, v) ==
    LET all == rd.acks \cup {v} = rd.vals
    IN  [rd EXCEPT !.acks = rd.acks \cup {v},
                   !.ceremony = IF all THEN "CONFIRMED" ELSE rd.ceremony,
                   !.status = IF all THEN "ACTIVE" ELSE rd.status]

AckExecutiveAuthorityKey(rs, p) ==
    IF p.ack # NoRound THEN [rs EXCEPT ![p.ack] = Acked(@, p.by)] ELSE rs

\* The last contribution completes the dealing and fixes the threshold.
Contributed(rd, v, version) ==
    LET cs == [rd.contribs EXCEPT ![v] = version]
        all == \A w \in rd.vals : cs[w] # 0
    IN  [rd EXCEPT !.contribs = cs,
                   !.ceremony = IF all THEN "DEALT" ELSE rd.ceremony,
                   !.threshold = IF all THEN ThresholdForN(Cardinality(rd.vals))
                                 ELSE rd.threshold]

ContributeDKG(rs, p) ==
    IF p.contribute # NoRound
    THEN [rs EXCEPT ![p.contribute] = Contributed(@, p.by, p.version)] ELSE rs

Executed(p) ==
    ContributeDKG(AckExecutiveAuthorityKey(SubmitPartialDecryption(SubmitTally(round, p), p), p), p)

\* The transactions of others that matter here: a new session while no round
\* is PENDING, for the validators active before this block, and the reveal of a
\* share of an ACTIVE round.
CreateVotingSession(rs, r) ==
    /\ rs[r].status = "NONE"
    /\ active # {}
    /\ \A q \in Rounds : rs[q].status # "PENDING" /\ (q < r => rs[q].status # "NONE")

RevealShare(rs, r) == rs[r].status = "ACTIVE" /\ ~rs[r].votes

WithStatus(rd, s) == [rd EXCEPT !.status = s]

Created(rd) == [rd EXCEPT !.status = "PENDING", !.vals = active]

WithVotes(rd) == [rd EXCEPT !.votes = TRUE]

AfterTxs(rs, r) ==
    IF CreateVotingSession(rs, r) THEN [rs EXCEPT ![r] = Created(@)]
    ELSE IF RevealShare(rs, r) THEN [rs EXCEPT ![r] = WithVotes(@)] ELSE rs

\* EndBlock for a round whose current phase is over.
AfterDealtTimeout(rd) ==
    IF Cardinality(rd.acks) >= RequiredCeremonyQuorumForN(Cardinality(rd.vals))
    THEN [rd EXCEPT !.vals = rd.acks, !.ceremony = "CONFIRMED", !.status = "ACTIVE"]
    ELSE EndRound("CEREMONY_FAILED")

PhaseOver(rd) ==
    CASE rd.status = "ACTIVE" -> WithStatus(rd, "TALLYING")
      [] rd.status = "TALLYING" -> EndRound("FINALIZED")
      [] rd.ceremony = "REGISTERING" -> EndRound("CEREMONY_FAILED")
      [] OTHER -> AfterDealtTimeout(rd)

\* JailCeremonyNonContributors, in a block at whose end rd is as given.
Jailed(rd) ==
    IF rd.status = "PENDING" /\ rd.ceremony = "REGISTERING"
    THEN {v \in rd.vals : rd.contribs[v] = 0} ELSE {}

\* The block may also hold the unjailing of a validator.
Staking(jailed) ==
    \E unjailed \in {{}} \cup {{v} : v \in Validators} :
        active' = (active \cup unjailed) \ jailed

NextHeight ==
    /\ proposals' = {}
    /\ prepares' = [v \in Validators |-> 0]
    /\ UNCHANGED <<nodeVars, crashes, cutShort>>

\* A proposal of this height that the others accept is decided.
Decided(p) == p \in proposals /\ ProcessProposal(p) /\ NextHeight

\* Its block is executed with one transaction of others in it, or none.
BlockResults(p) ==
    LET rs == Executed(p) IN {rs} \cup {AfterTxs(rs, r) : r \in Rounds}

\* v's proposal commits and no phase ends.
Block(v) ==
    \E p \in proposals :
        /\ p.by = v
        /\ Decided(p)
        /\ round' \in BlockResults(p)
        /\ Staking({})
        /\ UNCHANGED timeouts

\* The block in which the vote end time of r passes.
VotingEnds(r) ==
    \E p \in proposals :
        /\ Decided(p)
        /\ round[r].status = "ACTIVE"
        /\ \E rs \in BlockResults(p) : round' = [rs EXCEPT ![r] = PhaseOver(@)]
        /\ Staking({})
        /\ UNCHANGED timeouts

\* The block in which a ceremony phase or the tally phase of r times out.
PhaseTimesOut(r) ==
    \E p \in proposals :
        /\ timeouts < MaxTimeouts
        /\ round[r].status \in {"PENDING", "TALLYING"}
        /\ Decided(p)
        /\ \E rs \in BlockResults(p) :
              /\ rs[r].status = round[r].status /\ rs[r].ceremony = round[r].ceremony
              /\ round' = [rs EXCEPT ![r] = PhaseOver(@)]
              /\ Staking(Jailed(rs[r]))
        /\ timeouts' = timeouts + 1

Next ==
    \/ \E v \in Validators : Prepare(v) \/ Crash(v) \/ Block(v)
    \/ \E r \in Rounds : VotingEnds(r) \/ PhaseTimesOut(r)

Spec == Init /\ [][Next]_vars

\* CometBFT rotates the proposer among the validators that are not jailed, so
\* each of them is asked again and again and its proposals are decided again and
\* again; time goes on, so voting ends. A jailed validator is still asked for a
\* few heights and then no more, until it is unjailed, which need never happen.
Fairness ==
    /\ \A v \in Validators :
          WF_vars(v \in active /\ Prepare(v)) /\ SF_vars(v \in active /\ Block(v))
    /\ SF_vars(\E r \in Rounds : VotingEnds(r))

FairSpec == Spec /\ Fairness

-----------------------------------------------------------------------------
(* Properties.                                                             *)

FileOK(f) == f \in Versions \cup {Missing, Torn}

(* The types of the committed rounds, of the files and of the cache.         *)
TypeOK ==
    /\ \A r \in Rounds :
          /\ round[r].status \in {"NONE", "PENDING", "ACTIVE", "TALLYING"} \cup Ended
          /\ round[r].ceremony \in {"REGISTERING", "DEALT", "CONFIRMED"}
          /\ round[r].acks \subseteq round[r].vals /\ round[r].vals \subseteq Validators
          /\ round[r].partials \subseteq round[r].vals
    /\ \A v \in Validators, r \in Rounds :
          /\ FileOK(coeffs[v][r])
          /\ share[v][r] \in {"missing", "torn", "good"}
          /\ cache[v][r] \in {"missing", "good"}

\* The share is on v's disk, or v lost it in writing it again over the file.
HoldsShare(v, r) == share[v][r] = "good" \/ (share[v][r] = "torn" /\ <<v, r>> \in cutShort)

(* A validator whose ack is committed has the share it vouched for on disk  *)
(* until the round ends, whatever it proposed in between, whichever of its  *)
(* proposals were not decided and wherever it crashed, with one exception:  *)
(* asked again at the height at which it proposed the ack, it writes the    *)
(* same file again in place, and a crash in the middle of that leaves a     *)
(* share that no longer reads although the first proposal may be decided    *)
(* (CeremonyAckPrepareProposalHandler, cleanOrphanedShareFiles).            *)
AckersHoldShares ==
    \A r \in Rounds :
        round[r].status \notin Ended =>
            \A v \in round[r].acks : HoldsShare(v, r)

(* cleanObsoleteCoeffFiles: "PrepareProposal may build blocks that never    *)
(* commit, so DKG coefficients must survive while a round is still PENDING  *)
(* and awaiting ceremony acks": the polynomial of a committed contribution  *)
(* is on its contributor's disk until that validator has acked.             *)
CoeffsSurvive ==
    \A r \in Rounds, v \in Validators :
        round[r].status = "PENDING" /\ round[r].contribs[v] # 0 /\ v \notin round[r].acks
            => coeffs[v][r] = round[r].contribs[v]

(* The injectors alone bring every round from its creation to its result:   *)
(* unless a phase times out there are, again and again, only rounds that    *)
(* were not created yet or are FINALIZED.  What one validator injects never *)
(* keeps another's proposal from being accepted, two rounds do not keep     *)
(* each other waiting, and no crash loses a share or a polynomial that is   *)
(* still needed (ComposedPrepareProposalHandler, ProcessProposalHandler).   *)
InjectorsSuffice ==
    []<>(timeouts > 0 \/ \A r \in Rounds : round[r].status \in {"NONE", "FINALIZED"})

(* Polynomials and shares do not stay on the disk of a validator that still *)
(* proposes once their round is over: again and again no ended round has a  *)
(* file left there. A validator jailed for a missing contribution is not    *)
(* asked any more and keeps its files until it is unjailed                  *)
(* (cleanObsoleteCoeffFiles, cleanOrphanedShareFiles).                      *)
SecretsForgotten ==
    []<>(\A r \in Rounds, v \in active :
            round[r].status \in Ended => coeffs[v][r] = Missing /\ share[v][r] = "missing")

=============================================================================
