------------------------------- MODULE TxPath -------------------------------
(***************************************************************************)
(* The way of a transaction into the chain: the REST endpoint of a node    *)
(* that broadcasts it and may lose the answer (api/handler.go), the wire   *)
(* format (api/codec.go, app/decode.go), the ante handler in its three     *)
(* modes, check, recheck and deliver (app/ante*.go, x/vote/ante), the      *)
(* proposal that is filtered and trimmed by the proposer and validated by  *)
(* the others, and the block that executes it.                             *)
(*                                                                         *)
(* One node is followed.  Other proposers put any transactions they like   *)
(* into their blocks, as long as this node's ProcessProposal accepts them. *)
(*                                                                         *)
(* A note stands for itself, its nullifier and its commitment.  A root is  *)
(* the set of leaves below it, a proof is accepted exactly when the note   *)
(* or commitment it is about is below the root, and a signature is the     *)
(* digest that was signed.  A ciphertext is an element of a small cyclic   *)
(* group.                                                                  *)
(***************************************************************************)
EXTENDS Integers, Sequences, SequencesExt, FiniteSets, TLC

CONSTANTS
    Me, Rival,        \* the ceremony's validators: this node's and another
    RoundProposals,   \* the round has proposals 1 .. RoundProposals
    RoundOptions,     \* each of them has options 0 .. RoundOptions - 1
    MaxProposals,     \* chain limit on proposal ids, and on a batch
    MaxVoteOptions,   \* chain limit on options
    MaxGovNullifiers, \* nullifiers in one delegation
    ShareLimit,       \* MaxVoteShareSubmissionsPerBlock
    MaxTxBytes,       \* byte budgets a proposer may be given
    MaxBroadcasts,    \* cometBroadcastMaxAttempts
    Scenarios,        \* states to begin in, with the transactions about and the
                      \* calls and restarts already spent
    MempoolSize, BlockSize, MaxBlocks, MaxCalls, MaxRestarts   \* bounds

VARIABLES
    chain,      \* committed: status, expired, spent, leaves, roots, tally, done,
                \* height
    offered,    \* the transactions of this behaviour
    mempool,    \* CometBFT's transactions waiting at this node, in order
    cache,      \* CometBFT's memory of transactions it has seen
    keepInvalid,\* CometBFT's keep-invalid-txs-in-cache, fixed for a behaviour
    checking,   \* transactions in the cache whose CheckTx still runs
    clockSet,   \* FALSE from a restart to the next commit: CheckTx has no time
    warmup,     \* the verifier caches: not_started, warming, ready, failed
    call,       \* the submission in progress at the REST endpoint
    answer,     \* the endpoint's last answer and what was true when it was given
    executed,   \* transactions that succeeded in a block, with its proposer
    failed,     \* transactions a block contains that did not succeed
    calls, restarts

txVars == <<chain, offered, keepInvalid, mempool, cache, checking, clockSet, warmup, call, answer,
            executed, failed, calls, restarts>>

NoCall == <<>>

Validators == {Me, Rival}

-----------------------------------------------------------------------------
(* The wire format.                                                        *)

VoteTags     == {"delegate", "cast", "batch", "composite", "share", "tally"}
CeremonyTags == {"ack", "contribute", "partial"}
RestTags     == VoteTags \ {"tally"}

IsVoteTag(tag)     == tag \in VoteTags
IsCeremonyTag(tag) == tag \in CeremonyTags
IsCustomTag(tag)   == IsVoteTag(tag) \/ IsCeremonyTag(tag)

\* The atomic messages must also be encoded canonically.
DecodeVoteTx(tx) ==
    /\ IsVoteTag(tx.tag)
    /\ tx.parses
    /\ tx.tag \in {"batch", "composite"} => tx.canonical

DecodeCeremonyTx(tx) == IsCeremonyTag(tx.tag) /\ tx.parses

CustomTxDecoder(tx) ==
    IF IsCeremonyTag(tx.tag) THEN DecodeCeremonyTx(tx)
    ELSE IF IsVoteTag(tx.tag) THEN DecodeVoteTx(tx) ELSE tx.parses

-----------------------------------------------------------------------------
(* Stateless validation.                                                   *)

Distinct(s) == \A i, j \in 1 .. Len(s) : s[i] = s[j] => i = j

DelegateVoteBasic(tx) ==
    /\ tx.sized
    /\ Len(tx.gov) \in 1 .. MaxGovNullifiers
    /\ Distinct(tx.gov)

CastVoteBasic(vote, allowSyntheticAnchor) ==
    /\ vote.sized
    /\ vote.p \in 1 .. MaxProposals
    /\ vote.anchor = 0 => allowSyntheticAnchor

CastVoteBatchBasic(votes, allowSyntheticAnchor) ==
    /\ Len(votes) \in 1 .. MaxProposals
    /\ \A i \in 1 .. Len(votes) :
          /\ CastVoteBasic(votes[i], allowSyntheticAnchor)
          /\ votes[i].anchor = votes[1].anchor
    /\ Distinct([i \in 1 .. Len(votes) |-> votes[i].p])
    /\ Distinct([i \in 1 .. Len(votes) |-> votes[i].note])

DelegateAndCastBasic(tx) ==
    /\ DelegateVoteBasic(tx)
    /\ CastVoteBatchBasic(tx.votes, TRUE)
    /\ \A i \in 1 .. Len(tx.votes) : tx.votes[i].anchor = 0

RevealShareBasic(tx) ==
    /\ tx.sized
    /\ tx.share.p \in 1 .. MaxProposals
    /\ tx.share.decision < MaxVoteOptions
    /\ tx.share.anchor # 0

ValidateBasic(tx) ==
    CASE tx.tag = "delegate"  -> DelegateVoteBasic(tx)
      [] tx.tag = "cast"      -> CastVoteBasic(tx.votes[1], FALSE)
      [] tx.tag = "batch"     -> CastVoteBatchBasic(tx.votes, FALSE)
      [] tx.tag = "composite" -> DelegateAndCastBasic(tx)
      [] tx.tag = "share"     -> RevealShareBasic(tx)
      [] OTHER                -> tx.sized

\* Nullifiers with their family.
GetNullifiers(tx) ==
    {<<"gov", tx.gov[i]>> : i \in 1 .. Len(tx.gov)}
    \cup {<<"van", tx.votes[i].note>> : i \in 1 .. Len(tx.votes)}
    \cup (IF tx.tag = "share" THEN {<<"share", tx.share.nf>>} ELSE {})

-----------------------------------------------------------------------------
(* Signatures and proofs.                                                  *)

Effects(votes) ==
    [i \in 1 .. Len(votes) |-> <<votes[i].note, votes[i].new, votes[i].vc, votes[i].p>>]

ComputeCastVoteSighash(vote) ==
    <<"cast", vote.note, vote.new, vote.vc, vote.p, vote.anchor>>

\* Mutant: the digest covers the first action only.
BatchSighashFirst(votes) == <<"batch", votes[1].anchor, Effects(SubSeq(votes, 1, 1))>>

ComputeCastVoteBatchSighash(votes) == <<"batch", votes[1].anchor, Effects(votes)>>

ComputeDelegateAndCastVoteBatchSighash(van, votes) == <<"composite", van, Effects(votes)>>

SingleLeafRoot(note) == {note}

\* The first proof against root, each later one against its predecessor's
\* new note alone.
VerifyChained(votes, root) ==
    \A i \in 1 .. Len(votes) :
        votes[i].note \in (IF i = 1 THEN root ELSE SingleLeafRoot(votes[i - 1].new))

VerifyDelegation(tx) == tx.authorised

VerifyCastVote(st, vote) ==
    /\ vote.sig = ComputeCastVoteSighash(vote)
    /\ vote.anchor \in DOMAIN st.roots
    /\ vote.note \in st.roots[vote.anchor]

VerifyCastVoteBatch(st, votes) ==
    /\ \A i \in 1 .. Len(votes) : votes[i].sig = ComputeCastVoteBatchSighash(votes)
    /\ votes[1].anchor \in DOMAIN st.roots
    /\ VerifyChained(votes, st.roots[votes[1].anchor])

VerifyDelegateAndCast(tx) ==
    /\ \A i \in 1 .. Len(tx.votes) :
          tx.votes[i].sig = ComputeDelegateAndCastVoteBatchSighash(tx.van, tx.votes)
    /\ VerifyDelegation(tx)
    /\ VerifyChained(tx.votes, SingleLeafRoot(tx.van))

VerifyRevealShare(st, share) ==
    /\ share.anchor \in DOMAIN st.roots
    /\ share.of \in st.roots[share.anchor]

VerifyProofs(st, tx) ==
    CASE tx.tag = "delegate"  -> VerifyDelegation(tx)
      [] tx.tag = "cast"      -> VerifyCastVote(st, tx.votes[1])
      [] tx.tag = "batch"     -> VerifyCastVoteBatch(st, tx.votes)
      [] tx.tag = "composite" -> VerifyDelegateAndCast(tx)
      [] tx.tag = "share"     -> VerifyRevealShare(st, tx.share)
      [] OTHER                -> TRUE

-----------------------------------------------------------------------------
(* The ante handler.  mode is "check", "recheck" or "deliver"; by is the   *)
(* proposer of the block being executed.                                   *)

ValidateProposerIsCreator(tx, mode, by) == mode = "deliver" /\ tx.creator = by

\* Without a block time (after a restart) only CheckTx and RecheckTx pass.
ValidateRoundForVoting(st, mode, timed) ==
    /\ st.status = "ACTIVE"
    /\ IF timed THEN ~st.expired ELSE mode # "deliver"

ValidateRound(st, tx, mode, by, timed) ==
    IF tx.tag = "tally"
    THEN st.status = "TALLYING" /\ ValidateProposerIsCreator(tx, mode, by)
    ELSE ValidateRoundForVoting(st, mode, timed)

ValidateProposalIds(tx) == \A i \in 1 .. Len(tx.votes) : tx.votes[i].p \in 1 .. RoundProposals

CheckNullifiersUnique(st, tx) == GetNullifiers(tx) \cap st.spent = {}

\* Mutant: nullifiers are left to the first check, like the proofs.
NullifiersOnceChecked(st, tx, mode, by, timed) ==
    /\ ValidateBasic(tx)
    /\ ValidateRound(st, tx, mode, by, timed)
    /\ ValidateProposalIds(tx)
    /\ mode # "recheck" => CheckNullifiersUnique(st, tx) /\ VerifyProofs(st, tx)

ValidateVoteTx(st, tx, mode, by, timed) ==
    /\ ValidateBasic(tx)
    /\ ValidateRound(st, tx, mode, by, timed)
    /\ ValidateProposalIds(tx)
    /\ CheckNullifiersUnique(st, tx)
    /\ mode # "recheck" => VerifyProofs(st, tx)

\* Messages that are authenticated on the custom path only.
IsVoteModuleMsg(inner) == IsCustomTag(inner)

DefaultAllowedMessages ==
    {"propose", "approve", "register", "rotate", "create_with_pallas", "endorse", "clear",
     "create_validator", "edit_validator", "unjail"}

CeremonyValidatorRequired(inner) == inner \in {"register", "rotate", "contribute"}

\* A standard transaction: one message, not one of the custom path, no bare
\* validator after genesis, on the whitelist, signed, and of a bonded
\* validator where it must be.
StandardAnte(st, tx) ==
    /\ tx.messages = 1
    /\ ~IsVoteModuleMsg(tx.inner)
    /\ tx.inner = "create_validator" => st.height = 0
    /\ tx.inner \in DefaultAllowedMessages
    /\ tx.authorised
    /\ CeremonyValidatorRequired(tx.inner) => tx.creator \in Validators

DualAnteHandler(st, tx, mode, by, timed) ==
    IF IsCeremonyTag(tx.tag) THEN ValidateProposerIsCreator(tx, mode, by)
    ELSE IF IsVoteTag(tx.tag) THEN ValidateVoteTx(st, tx, mode, by, timed) ELSE StandardAnte(st, tx)

Admissible(st, tx, mode, by, timed) ==
    CustomTxDecoder(tx) /\ DualAnteHandler(st, tx, mode, by, timed)

-----------------------------------------------------------------------------
(* Execution of a block on the committed state.                            *)

\* The ceremony and the tally reduced to what decides whether a proposal is
\* accepted (VoteRounds has their rules): two validators, both needed.  The
\* phase of a round in which an injected message is expected.
PhaseFor(tag) ==
    CASE tag = "contribute" -> "REGISTERING"
      [] tag = "ack"        -> "DEALT"
      [] OTHER              -> "TALLYING"

Delivered(st, tag) == {v \in Validators : <<tag, v>> \in st.done}

\* The ceremony handlers: right phase, a ceremony validator, not yet done.
CeremonyHandler(st, tx) ==
    /\ st.status = PhaseFor(tx.tag)
    /\ tx.creator \in Validators
    /\ tx.creator \notin Delivered(st, tx.tag)

\* Contributions and acks of every validator move the ceremony on.
AfterCeremony(st, tx) ==
    LET all == Delivered(st, tx.tag) \cup {tx.creator} = Validators IN
    [st EXCEPT !.done = @ \cup {<<tx.tag, tx.creator>>},
               !.status = CASE tx.tag = "contribute" /\ all -> "DEALT"
                            [] tx.tag = "ack" /\ all        -> "ACTIVE"
                            [] OTHER                        -> @]

\* Spend what the message spends; a chain of casts leaves only its last note,
\* and a composite never adds the note it delegates.
NewLeaves(tx) ==
    CASE tx.tag = "delegate" -> {tx.van}
      [] tx.tag \in {"cast", "batch", "composite"} ->
             {Last(tx.votes).new} \cup {tx.votes[i].vc : i \in 1 .. Len(tx.votes)}
      [] OTHER -> {}

\* The handlers of delegations and casts repeat checks of the ante handler.
SpendingHandler(st, tx) ==
    /\ tx.tag \in {"batch", "composite"} => ValidateBasic(tx)
    /\ tx.tag \in {"cast", "batch"} => tx.votes[1].anchor \in DOMAIN st.roots
    /\ ValidateProposalIds(tx)
    /\ CheckNullifiersUnique(st, tx)

\* Ciphertexts: the identity, the other elements of the group, or bytes that are
\* no ciphertext at all.
Identity   == 0
GroupOrder == 3
NoCiphertext == -1

\* The accumulator a share is added to, once it has been.
Accumulated(st, share) ==
    LET key == <<share.p, share.decision>>
    IN  IF key \in DOMAIN st.tally THEN (st.tally[key] + share.enc) % GroupOrder ELSE share.enc

AddToTally(st, share) ==
    share.enc \notin {NoCiphertext, Identity} /\ Accumulated(st, share) # Identity

\* What the ante handler leaves to the handler of a share: whether the round has
\* the proposal and the option, and whether the ciphertext can be added.
RevealShareHandler(st, tx) ==
    /\ ValidateRoundForVoting(st, "deliver", TRUE)
    /\ tx.share.p \in 1 .. RoundProposals
    /\ tx.share.decision < RoundOptions
    /\ CheckNullifiersUnique(st, tx)
    /\ AddToTally(st, tx.share)

\* The handlers of standard messages are other components; the transaction says
\* whether its own accepts it.
HandlerAccepts(st, tx) ==
    CASE IsCeremonyTag(tx.tag) -> CeremonyHandler(st, tx)
      [] tx.tag = "tally"      -> Delivered(st, "partial") = Validators
      [] tx.tag = "share"      -> RevealShareHandler(st, tx)
      [] IsVoteTag(tx.tag) /\ tx.tag \notin {"tally", "share"} -> SpendingHandler(st, tx)
      [] OTHER                 -> tx.handled

ApplyHandler(st, tx) ==
    CASE IsCeremonyTag(tx.tag) -> AfterCeremony(st, tx)
      [] tx.tag = "tally"      -> [st EXCEPT !.status = "FINALIZED"]
      [] tx.tag = "share"      ->
             [st EXCEPT !.spent = @ \cup GetNullifiers(tx),
                        !.tally = (<<tx.share.p, tx.share.decision>>
                                      :> Accumulated(st, tx.share)) @@ @]
      [] OTHER                 -> [st EXCEPT !.spent = @ \cup GetNullifiers(tx),
                                             !.leaves = @ \cup NewLeaves(tx)]

Succeeds(st, tx, by) == Admissible(st, tx, "deliver", by, TRUE) /\ HandlerAccepts(st, tx)

\* FinalizeBlock: the block's time, the transactions in order, and EndBlock,
\* which records a root for new leaves and closes a round whose time is over.
\* The result is the new state and the set of transactions that succeeded.
RunBlock(txs, by, late) ==
    LET begin == [st |-> [chain EXCEPT !.expired = late, !.height = @ + 1], ok |-> {}]
        step(acc, tx) ==
            IF Succeeds(acc.st, tx, by)
            THEN [st |-> ApplyHandler(acc.st, tx), ok |-> acc.ok \cup {tx}]
            ELSE acc
        run == FoldLeft(step, begin, txs)
        grown == run.st.leaves # chain.leaves
    IN  [ok |-> run.ok,
         st |-> [run.st EXCEPT
                    !.roots = IF grown THEN (run.st.height :> run.st.leaves) @@ @ ELSE @,
                    !.status = IF @ = "ACTIVE" /\ late THEN "TALLYING" ELSE @]]

-----------------------------------------------------------------------------
(* Preparing and validating a proposal.                                    *)

\* A share transaction that decodes and is well formed has a key; only one
\* round exists here, so the key is the nullifier.
VoteShareSubmissionKey(tx) ==
    IF DecodeVoteTx(tx) /\ ValidateBasic(tx) THEN <<tx.share.nf>> ELSE <<>>

\* Mutant: the cap is tested before the new submission is counted.
KeepOneTooMany(txs) ==
    LET keep(acc, tx) ==
            IF tx.tag # "share" THEN [acc EXCEPT !.txs = Append(@, tx)]
            ELSE LET key == VoteShareSubmissionKey(tx) IN
                 IF key = <<>> \/ key \in acc.seen \/ Cardinality(acc.seen) > ShareLimit THEN acc
                 ELSE [txs |-> Append(acc.txs, tx), seen |-> acc.seen \cup {key}]
    IN  FoldLeft(keep, [txs |-> <<>>, seen |-> {}], txs).txs

FilterVoteShareSubmissions(txs) ==
    LET keep(acc, tx) ==
            IF tx.tag # "share" THEN [acc EXCEPT !.txs = Append(@, tx)]
            ELSE LET key == VoteShareSubmissionKey(tx) IN
                 IF key = <<>> \/ key \in acc.seen \/ Cardinality(acc.seen) >= ShareLimit THEN acc
                 ELSE [txs |-> Append(acc.txs, tx), seen |-> acc.seen \cup {key}]
    IN  FoldLeft(keep, [txs |-> <<>>, seen |-> {}], txs).txs

ValidateVoteShareSubmissions(txs) ==
    LET shares == SelectSeq(txs, LAMBDA tx : tx.tag = "share")
        keys == [i \in 1 .. Len(shares) |-> VoteShareSubmissionKey(shares[i])]
    IN  <<>> \notin ToSet(keys) /\ Distinct(keys) /\ Len(shares) <= ShareLimit

ValidateInjected(tx, by) ==
    IF tx.tag = "tally"
    THEN DecodeVoteTx(tx) /\ chain.status = "TALLYING"
         /\ ValidateProposerIsCreator(tx, "deliver", by) /\ tx.complete
    ELSE DecodeCeremonyTx(tx) /\ CeremonyHandler(chain, tx) /\ tx.complete
         /\ ValidateProposerIsCreator(tx, "deliver", by)

ProcessProposal(txs, by) ==
    /\ ValidateVoteShareSubmissions(txs)
    /\ \A i \in 1 .. Len(txs) :
          txs[i].tag \in CeremonyTags \cup {"tally"} => ValidateInjected(txs[i], by)

\* What this node's injectors may prepend: at most one message, for the phase
\* the committed round is in, made by this node and not delivered before.
Injectable ==
    {tx \in offered :
        /\ tx.creator = Me /\ tx.parses /\ tx.complete /\ tx.sized
        /\ \/ IsCeremonyTag(tx.tag) /\ CeremonyHandler(chain, tx)
           \/ tx.tag = "tally" /\ chain.status = "TALLYING"
              /\ Delivered(chain, "partial") = Validators}

TrimProposal(txs, maxTxBytes) ==
    LET size(n) == FoldLeft(LAMBDA acc, tx : acc + tx.size, 0, SubSeq(txs, 1, n))
        fits == {n \in 0 .. Len(txs) : maxTxBytes < 0 \/ size(n) <= maxTxBytes}
    IN  SubSeq(txs, 1, CHOOSE n \in fits : \A m \in fits : m <= n)

PrepareProposal(injected, maxTxBytes) ==
    TrimProposal(injected \o FilterVoteShareSubmissions(mempool), maxTxBytes)

Injections == {<<>>} \cup {<<tx>> : tx \in Injectable}

-----------------------------------------------------------------------------
(* Actions.                                                                *)

TxStart(s) ==
    /\ chain = s.chain /\ offered = s.txs /\ warmup = s.warmup
    /\ keepInvalid = s.keepInvalid
    /\ calls = s.calls /\ restarts = s.restarts
    /\ mempool = <<>> /\ cache = {} /\ checking = {}
    /\ clockSet = TRUE
    /\ call = NoCall /\ answer = NoCall
    /\ executed = {} /\ failed = {}

TxInit == \E s \in Scenarios : TxStart(s)

StartCryptoWarmup ==
    /\ warmup = "not_started"
    /\ warmup' = "warming"
    /\ UNCHANGED <<chain, offered, keepInvalid, mempool, cache, checking, clockSet, call, answer, executed, failed, calls, restarts>>

FinishCryptoWarmup ==
    /\ warmup = "warming"
    /\ warmup' \in {"ready", "failed"}
    /\ UNCHANGED <<chain, offered, keepInvalid, mempool, cache, checking, clockSet, call, answer, executed, failed, calls, restarts>>

\* A POST to a submission endpoint: crypto ready, body decoded and validated,
\* message encoded.  The encoding is the canonical one.
HandleSubmit(tx) ==
    /\ warmup = "ready" /\ call = NoCall /\ calls < MaxCalls
    /\ tx.tag \in RestTags /\ tx.parses /\ tx.canonical /\ ValidateBasic(tx)
    /\ call' = [tx |-> tx, attempt |-> 1, at |-> "send",
                before |-> \E e \in executed : e.tx = tx]
    /\ calls' = calls + 1
    /\ answer' = NoCall
    /\ UNCHANGED <<chain, offered, keepInvalid, mempool, cache, checking, clockSet, warmup, executed, failed, restarts>>

Committed(tx) == \E e \in executed : e.tx = tx

Held == checking \cup ToSet(mempool)

\* Answer the client, and note what is true of the transaction now.
Answer(code, held) ==
    /\ answer' = [code |-> code, before |-> call.before, held |-> held,
                  committed |-> Committed(call.tx), failed |-> call.tx \in failed,
                  known |-> call.tx \in cache]
    /\ call' = NoCall

\* The CometBFT status of a transaction of a block: code 0 or its failure.
TxStatus(tx) == IF Committed(tx) THEN "ok" ELSE IF tx \in failed THEN "rejected" ELSE "none"

\* Mutant: a transaction the mempool already knows is answered as an error.
AnswerDuplicateAsError == Answer("rejected", call.tx \in Held)

\* "already exists in cache": the committed outcome, or pending.
AnswerFromCache ==
    Answer(IF TxStatus(call.tx) = "none" THEN "ok" ELSE TxStatus(call.tx), call.tx \in Held)

MempoolHasRoom == Len(mempool) + Cardinality(checking) < MempoolSize

\* broadcast_tx_sync reaches CometBFT, which enters the bytes into its cache
\* and starts CheckTx, or reports that it knows them.
Broadcast ==
    /\ call # NoCall /\ call.at = "send"
    /\ IF call.tx \in cache
       THEN AnswerFromCache /\ UNCHANGED <<cache, checking>>
       ELSE /\ MempoolHasRoom
            /\ cache' = cache \cup {call.tx}
            /\ checking' = checking \cup {call.tx}
            /\ call' = [call EXCEPT !.at = "wait"]
            /\ UNCHANGED answer
    /\ UNCHANGED <<chain, offered, keepInvalid, mempool, clockSet, warmup, executed, failed, calls, restarts>>

\* The attempt ends with an unknown outcome (timeout, EOF, reset).  The status
\* lookup may find the transaction in a block, or find nothing, or fail;
\* without a result the call is tried again or given up with a 502.
LoseAnswer(lookup) ==
    /\ call # NoCall
    /\ IF lookup /\ TxStatus(call.tx) # "none"
       THEN Answer(TxStatus(call.tx), call.tx \in Held)
       ELSE IF call.attempt < MaxBroadcasts
       THEN call' = [call EXCEPT !.attempt = @ + 1, !.at = "send"] /\ UNCHANGED answer
       ELSE Answer("unknown", call.tx \in Held)
    /\ UNCHANGED <<chain, offered, keepInvalid, mempool, cache, checking, clockSet, warmup, executed, failed, calls, restarts>>

\* A transaction arrives from a peer, or raw at the RPC port.
Gossip(tx) ==
    /\ tx \notin cache /\ MempoolHasRoom
    /\ cache' = cache \cup {tx} /\ checking' = checking \cup {tx}
    /\ UNCHANGED <<chain, offered, keepInvalid, mempool, clockSet, warmup, call, answer, executed, failed, calls, restarts>>

\* CheckTx completes: the transaction enters the mempool, or leaves the cache
\* unless CometBFT is told to keep invalid ones there. The waiting call hears of
\* it.
CheckTx(tx) ==
    LET passes == Admissible(chain, tx, "check", Me, clockSet) IN
    /\ tx \in checking
    /\ checking' = checking \ {tx}
    /\ mempool' = IF passes THEN Append(mempool, tx) ELSE mempool
    /\ cache' = IF passes \/ keepInvalid THEN cache ELSE cache \ {tx}
    /\ IF call # NoCall /\ call.at = "wait" /\ call.tx = tx
       THEN Answer(IF passes THEN "ok" ELSE "rejected", passes)
       ELSE UNCHANGED <<call, answer>>
    /\ UNCHANGED <<chain, offered, keepInvalid, clockSet, warmup, executed, failed, calls, restarts>>

\* A block is decided, executed and committed; what stays in the mempool is
\* rechecked against the new state.  CometBFT commits under the mempool's
\* lock, so no CheckTx is in progress.
Commit(txs, by, late) ==
    LET result == RunBlock(txs, by, late)
        stays(tx) == tx \notin ToSet(txs) /\ Admissible(result.st, tx, "recheck", Me, TRUE)
        bad == ToSet(txs) \ result.ok
        invalid == bad \cup {tx \in ToSet(mempool) \ ToSet(txs) : ~stays(tx)}
    IN  /\ checking = {}
        /\ chain' = result.st
        /\ mempool' = SelectSeq(mempool, stays)
        /\ cache' = (cache \cup result.ok) \ (IF keepInvalid THEN {} ELSE invalid)
        /\ executed' = executed \cup {[tx |-> tx, by |-> by] : tx \in result.ok}
        /\ failed' = failed \cup bad
        /\ clockSet' = TRUE
        /\ UNCHANGED <<offered, keepInvalid, checking, warmup, call, answer, calls, restarts>>

OwnBlock(injected, maxTxBytes, late) ==
    /\ chain.height < MaxBlocks
    /\ chain.expired => late
    /\ LET txs == PrepareProposal(injected, maxTxBytes) IN
          ProcessProposal(txs, Me) /\ Commit(txs, Me, late)

OtherBlock(txs, late) ==
    /\ chain.height < MaxBlocks
    /\ chain.expired => late
    /\ Len(txs) > 0 \/ late
    /\ ProcessProposal(txs, Rival)
    /\ Commit(txs, Rival, late)

\* The process ends and starts again: everything but the chain is lost.
RestartNode ==
    /\ restarts < MaxRestarts
    /\ restarts' = restarts + 1
    /\ mempool' = <<>> /\ cache' = {} /\ checking' = {}
    /\ clockSet' = FALSE /\ warmup' = "not_started"
    /\ call' = NoCall /\ answer' = NoCall
    /\ UNCHANGED <<chain, offered, keepInvalid, executed, failed, calls>>

TxNext ==
    \/ StartCryptoWarmup
    \/ FinishCryptoWarmup
    \/ \E tx \in offered : HandleSubmit(tx)
    \/ Broadcast
    \/ \E lookup \in BOOLEAN : LoseAnswer(lookup)
    \/ \E tx \in offered : Gossip(tx)
    \/ \E tx \in offered : CheckTx(tx)
    \/ \E injected \in Injections, max \in MaxTxBytes, late \in BOOLEAN :
          OwnBlock(injected, max, late)
    \/ \E txs \in SeqOf(offered, BlockSize), late \in BOOLEAN : OtherBlock(txs, late)
    \/ RestartNode

-----------------------------------------------------------------------------
(* Properties.                                                             *)

\* Whatever the mempool holds, whichever message the injectors prepend and
\* however many bytes the block may have, the proposal this node prepares
\* is one its own ProcessProposal, hence every other node's, accepts: the
\* filter and the check agree on duplicates and on the cap of share
\* submissions, and no injected message of another comes out of the mempool.
OwnProposalAccepted ==
    \A injected \in Injections, max \in MaxTxBytes :
        ProcessProposal(PrepareProposal(injected, max), Me)

\* RecheckTx skips signatures and proofs, yet every transaction that stays in
\* the mempool would, alone in the next block, still pass the complete ante
\* handler; and a delegation or a cast would then also pass its message handler,
\* because "Late rejection in the message server leaves authorization unspent"
\* (x/vote/ante/validate.go). A share may still be refused there, for an option
\* the proposal does not have or a ciphertext that cannot be added, and so may a
\* standard transaction.
MempoolExecutable ==
    \A i \in 1 .. Len(mempool) :
        /\ Admissible(chain, mempool[i], "deliver", Me, TRUE)
        /\ mempool[i].tag \in {"delegate", "cast", "batch", "composite"}
               => HandlerAccepts(chain, mempool[i])

\* Every transaction that took effect did what was authorised: casts are the
\* actions the voter signed, all of them and in that order; no note or
\* share was spent by two transactions; and a ceremony or tally message
\* took effect only in a block its own creator proposed.
ExecutedAsAuthorised ==
    /\ \A e \in executed :
          /\ e.tx.tag \in {"cast", "batch", "composite"} => Effects(e.tx.votes) = e.tx.meant
          /\ e.tx.tag \in CeremonyTags \cup {"tally"} => e.tx.creator = e.by
    /\ \A e, f \in executed :
          e.tx # f.tx => GetNullifiers(e.tx) \cap GetNullifiers(f.tx) = {}

\* What the submission endpoint answers is true: a success only for a
\* transaction that is in a block with code 0 or that CometBFT holds, and a
\* rejection only for one that failed in a block, or that CometBFT does not
\* hold and that did not take effect while the call was in progress, even
\* if its first answers were lost. One success is untrue: with CometBFT set to
\* keep invalid transactions in its cache, a transaction the node refused
\* before is still known there and is answered as pending in the mempool.
AnswersAreTrue ==
    answer # NoCall =>
        /\ answer.code = "ok" => answer.held \/ answer.committed \/ (keepInvalid /\ answer.known)
        /\ answer.code = "rejected" =>
              \/ answer.failed
              \/ ~answer.held /\ (answer.committed => answer.before)

=============================================================================
