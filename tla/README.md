# TLA+ verification of the shielded vote chain

This directory models the parts of vote-sdk whose correctness depends on the
order of events or on arithmetic at its edges: the on-chain life of a voting
round and the threshold cryptography under it, the coordinators' approval flow,
the registry of validator keys, the commitment tree, the key-value store with its
genesis export, the way of a transaction into a block, the block proposals of the
validators, the helper that submits shares for wallets, and the administration
server with its config repository, queue and cache. TLC checks small instances of
all of them; TLAPS proves, for every value of the constants, the safety properties
of the rounds, the coordinators, the registry, the commitment tree, the helper's
queue and retry schedule, the block proposals and the queue of operators.

`PROJECT.json` lists every component, run, mutant, hazard and theorem, and maps
each definition to the lines of source it stands for.

## The system

vote-sdk is a Cosmos SDK chain. A block is a proposer, a block time, a list of
transactions, and EndBlock. A handler that returns an error leaves no writes.

| Part | State | Operations | What makes it hard |
| --- | --- | --- | --- |
| Rounds (`x/vote/keeper`, `module.go`) | round status, ceremony validators, contributions, acks, accumulators, nullifiers, partial decryptions, results | create, contribute, ack, reveal, partial decrypt, tally, EndBlock timeouts | only the proposer acts, timeouts race the last message, the validator set shrinks mid-ceremony |
| Coordinators (`msg_server_coordinator_actions.go` and the handlers it calls) | policy, actions and approvals, upgrade plan, endorsers, funds | propose, approve, six payloads, endorse | the policy that counts approvals is itself changed by an action; payloads fail after approval |
| Pallas registry (`keeper_pallas_registry.go`) | key by validator, owner by key | register, rotate, create validator | rotation while a ceremony holds a snapshot |
| Voting (`msg_server.go`, `keeper_voting.go`, `keeper.go`, `ffi/votetree`) | nullifiers, leaves, roots, in-memory tree handle of each node | delegate, cast, batch, root at EndBlock, restart, genesis export and import | the in-memory handle against the stored tree; every node must write the same store |
| Proposals (`app/prepare_proposal*.go`, `process_proposal.go`) | coefficient and share files and a share cache on each validator | inject, validate, execute, clean up | a proposal may never commit, files outlive it |
| Threshold cryptography (`crypto/shamir`, `elgamal`, `ecies`) | polynomials, commitments, envelopes, shares, ciphertexts | deal, verify, ack, encrypt, add, partially decrypt, combine, solve | a dealer that misdeals, any subset of survivors, totals at the table's bound |
| Store (`x/vote/types/keys.go`, keeper, `genesis.go`) | one ordered space of byte keys | every write, prefix scans, export, validation, import | prefixes of each other, carries at 0xFF, a collection forgotten |
| Transactions (`api`, `app/ante*.go`, `x/vote/ante`, `app/process_proposal.go`) | mempool and its cache, REST calls, committed state | submit, broadcast, check, recheck, filter, trim, validate, execute | three modes of one check, lost answers, two nodes that must agree on a proposal |
| Helper (`internal/helper`) | SQLite share queue, in-memory schedule and ownership, retry state | enqueue, take, prove, submit, mark, recover, purge | crash between submit and mark, ambiguous results, deadlines |
| Admin server (`internal/admin`, `internal/votingconfig`, `cmd/voting-config`) | branches and pull requests on GitHub, a table of waiting operators, a cached config | open a config or PIR pull request, register, list, sweep, refresh | several servers and maintainers on one repository, calls that fail half way, overlapping handlers |

How they interact. A coordinator action creates a round. Its ceremony validators
are a snapshot of the Pallas registry. The validators' proposals carry
contributions and acks; EndBlock activates or fails the ceremony. While the round
is ACTIVE, wallets delegate and cast votes, which appends leaves to the tree, and
hand shares to helpers, which reveal them. When the vote ends, proposals carry
partial decryptions and then the tally. Around the chain, admin servers publish
the signed config that wallets read and keep the operators who want to join.

## Modules

| Module | Models |
| --- | --- |
| `CeremonyMath` | the two quorum formulas and the Shamir numbering |
| `VoteRounds` | rounds, ceremony, reveal, decryption, EndBlock |
| `VoteSession` | abstract specification of a voting session |
| `VoteRoundsSteps`, `VoteRoundsProofs` | proofs about `VoteRounds` |
| `CoordinatorActions` | coordinator actions, their payloads, endorsements |
| `PallasRegistry` | the registry and the snapshot of a running ceremony |
| `GovernanceProofs` | proofs about `CoordinatorActions` and `PallasRegistry` |
| `CommitmentTree` | leaves, roots, nullifiers, tree handles, restarts, genesis |
| `CommitmentTreeProofs` | proofs about `CommitmentTree`: one node, the ballots, then all nodes |
| `PallasGroup`, `ThresholdTally` | the cryptographic operations over a small group; one round's key from dealing to tally |
| `VoteKeys`, `VoteStore` | store keys as bytes; the keeper's collections, genesis export, validation and import |
| `TxPath` | REST, mempool, ante handlers, proposals and blocks for vote transactions |
| `ProposerNode` | PrepareProposal, its files, ProcessProposal, execution |
| `HelperQueue` | the queue, the workers, maintenance and recovery |
| `HelperQueueBatches`, `HelperQueueProofs` | proofs about `HelperQueue`: what takes or rewrites many shares at once, then the attempts |
| `RetrySchedule` | the arithmetic of proof slots, polls and sleeps |
| `RetryScheduleProofs` | proofs about `RetrySchedule` |
| `VotingConfig`, `ConfigRepo` | the signed config and its commands; admin servers and people on the config repository |
| `JoinQueue` | operators waiting to become validators |
| `ValidatorProofs` | proofs about `JoinQueue` and `ProposerNode` |
| `ConfigCache` | the admin server's cached config |
| `MC*` | instances for TLC |

An `MC` module that extends several components joins components that share no
variable: `part` is chosen at the start and says which one steps, and the others
rest in an initial state. One run then answers the questions of all of them, and
its state space is the sum of theirs, not the product.

### VoteRounds

State: for each round its status, ceremony status, validators with their Shamir
indices, contributions, acks, nullifiers, accumulators, counter, partial
decryptions and results; the block time; the jailed validators. Each handler is
an action (`ContributeDKG`, `AckExecutiveAuthorityKey`, `RevealShare`,
`SubmitPartialDecryption`, `SubmitTally`, session creation), and `EndBlock` is
one action that advances the clock and treats every round in the order of
`module.go`: end of voting, REGISTERING timeout, DEALT timeout with stripping of
the validators that did not ack, tally timeout. Ciphertexts are the multiset of
the shares added to them; a partial decryption is the accumulator it was made of;
results for slots without entries are 0. Zero-knowledge proofs, signatures and
DLEQ proofs are oracles: what reaches a handler is valid.

`VoteSession` is what a voter is promised: a session opens, takes each ballot at
most once while open, closes, and ends with the totals of its ballots, or with no
result. `VoteRounds` refines it with the round status, the nullifiers and the
results as the mapping.

### CoordinatorActions

State: the policy (coordinators, threshold, minimum of ceremony validators),
actions with their approvals and status, the effects of executed payloads
(upgrade plan, funds, endorsers, sessions), accounts that exist. Proposing
approves; approving may execute. An execution that fails reverts the whole
transaction. Expiry is by block time. The genesis members are assumed to have
accounts, because InitGenesis stores members without creating accounts while
`executeUpdateVoteManagers` creates them. `ExportAndImport` restarts the chain
from its exported genesis: the next action id is recomputed as InitGenesis does,
and the upgrade plan is lost because x/upgrade exports none.

### PallasRegistry

State: key by validator, owner by key, the snapshot of the pending round, the
validators known to x/staking. Registration, rotation and validator creation
update both indices; rotation is refused while the validator is in the snapshot
of a PENDING round. A genesis import rebuilds the reverse index from the forward
one, the only one that is exported.

### CommitmentTree

State: the replicated store of each node (leaves, roots per height, nullifiers,
tree shards and checkpoints) and each node's in-memory handle. Delegations,
single and batched casts and the combined message are applied to every node;
`EndBlock` computes the root through the handle of each node. `Restart` drops a
handle, so the next block takes the resume or first-boot branch of
`ensureRoundTreeLoaded`. `ExportAndImport` carries leaves, roots and nullifiers
but not shards, and resets the height, as `genesis.go` does. One round is enough:
every key of the store is prefixed by the round. Assumed: replaying leaves onto
shards that already hold them changes no shard, a restart in the middle of a
block is a re-execution of that block, an exported chain continues at the next
height. The debug consistency check is left out.

### PallasGroup and ThresholdTally

The group is the integers modulo a prime Q under addition, the generator is 1, so
a point is its own discrete logarithm and the code's operations can be computed:
Horner evaluation, Feldman commitments, Lagrange coefficients, ElGamal, ECIES
envelopes, both Schnorr-type proofs, and the baby-step table with its search. A
hash is injective on what occurs. `ThresholdTally` runs one round: contributors
deal (at most one of them anything at all), validators verify, ack and store
their share, those that do not ack are stripped, ballots are added
homomorphically, partial decryptions are proved and checked, and any proposer
submits any claimed tally. It justifies what `VoteRounds` takes as given when an
ack, a partial decryption or a tally "verifies".

### VoteKeys and VoteStore

Keys are sequences of digits in base 32 in place of 256, with two-digit integers
and two-digit round ids; identifiers are chosen so that they end in the largest
digit and are prefixes of each other where the code allows it. `VoteStore` keeps
the flat map and, beside it, what the accepted messages said. Reads are scans of
the map; `ExportAndImport` is export, `ValidateGenesisState` and `InitGenesis`
into an empty store.

### TxPath

One node: its REST calls, mempool, mempool cache, warm-up state and the committed
state. Other proposers put any transactions into their blocks that this node's
ProcessProposal accepts. A scenario is a committed state and a few transactions
that compete in it: single and batched casts over the same note, delegations,
reveals, ceremony messages and standard ones. A note stands for its nullifier and
commitment, a root is the set of leaves under it, a signature is the digest that
was signed. CometBFT is external: a cache of seen transactions, CheckTx,
rechecking after each block. Whether it keeps refused transactions in the cache
(`keep-invalid-txs-in-cache`) is part of the scenario.

Each kind of transaction has its own message handler. Those of delegations and
casts repeat checks of the ante handler; their `AppendCommitment` is in
`CommitmentTree` and taken to succeed. That of a share checks what the ante
handler leaves to it: that the round has the proposal and the option, and that
the ciphertext is one, is not the identity and does not make the accumulator the
identity. Ciphertexts are a group of order 3, the smallest with an element other
than the identity that is not its own inverse, or bytes that decode to none. A
standard transaction says whether its handler accepts it.

### ProposerNode

State: of each round what the handlers read; of each validator the files
`coeffs.<round>` and `share.<round>` and the share cache; the proposals made at
this height. `Prepare(v)` is one call of PrepareProposal: the four injectors and
the clean-up between them, files included. A `Block` decides one accepted
proposal of the height, executes its injected messages in their order with at
most one other transaction, and starts the next height; the other proposals are
lost. `VotingEnds` and `PhaseTimesOut` are blocks whose time ends a phase.
`Crash` empties the cache and may cut a file short. Random polynomials are fresh
numbers: the one drawn differs from the one on disk and from those in open
proposals. A session snapshots the active validators. A REGISTERING timeout jails
those of them that did not contribute; a jailed validator is no longer asked for
proposals until it is unjailed, which any block may do. `cutShort` is history:
the shares that a crash tore while they were written a second time. The share
file is written in place with `os.WriteFile`
(`prepare_proposal_ceremony.go:407`), so such a crash destroys a share whose ack
may be in an open proposal. An ended round keeps only its status. Configuration
is assumed complete (a ceremony directory, a loadable Pallas key). The share
filter and the trimming to MaxTxBytes are in `TxPath`.

### HelperQueue

State: the rows of the SQLite store, the in-memory schedule, the ownership table,
the step each worker is at, the round and the nullifiers on chain, the clock and
the height. The steps of an attempt are separate actions, so a crash, another
helper's reveal, a block or maintenance can come between any two. Reduced as
follows: another helper may commit any open share, so no mempool is needed; an
attempt is identified by its worker; the clock stops at `MaxTime`, after the vote
end; whether a proof slot is due is a choice here and is computed in
`RetrySchedule`; the readiness gate is a delay like any other; all rounds share
one vote end, which is known, so failed rows keep their witness until the round
closes; rescue import happens while the helper is down, since it takes the
exclusive lock. Rows with a `vote_end_time` of 0, which old databases may hold, are
left out: no purge reaches them by their end time, and their witness is scrubbed
when they fail for good.

A damaged row is one with a column that does not decode. A damaged payload fails
the share when it is loaded. A damaged `submit_at` also makes `recover` fail
(`store.go:1998`), and with it every start of the helper, until an operator has
repaired the row: `Start` and `ImportQueue` require that recovery can scan, and
`RepairRow` is the operator, on whom no fairness is assumed.

### RetrySchedule

State: one share's stored retry state, the clock, and the time of its next poll.
An attempt reads the clock three times, as the code does. Times are in half
seconds so that truncation to whole seconds is visible; the durations of the
code are scaled down with their order kept. One worker at a time holds a share,
so the attempt is one action.

### VotingConfig and ConfigRepo

`VotingConfig` has the payloads of both signature versions, resolution of key
ids, merging and verification, as the server and the `voting-config` command
perform them. In `ConfigRepo` each handler is its sequence of GitHub calls, and a
call fails without effect, takes effect and is answered, or takes effect and the
answer is lost. A blob's SHA is its content; main merges by three-way merge after
CI has verified the result. The requests are those of honest managers and of
maintainers who close, delete, merge, sign locally, trust a key or change the
layout; round ids are assumed to differ in their first twelve hex digits, from
which the branch name is made. The body of a pull request is replaced as a whole,
so across servers the last writer wins: that acknowledgments are kept is claimed
only for pull requests written by one server.

### JoinQueue

The table, the register handlers in the steps between which others can run, the
list handler with its filtering per row, the sweeper, restarts, and a table of the
old schema, which is dropped. A handler takes at most `MaxDelay`, less than the
expiry (seconds against seven days), and a validator does not leave x/staking
meanwhile, for that takes the unbonding period.

### ConfigCache

The refresher, handlers that find no config, failures, restarts, and a CDN whose
config changes. A fetch that started earlier may store later.

## Runs

| Run | Instance | Shows |
| --- | --- | --- |
| `rounds_five` | 1 round, 4 to 5 validators | survivors of a timed-out ceremony can decrypt, at the indices their shares were dealt at; results are the ballots |
| `rounds_two` | 2 rounds, 2 validators, one jailed and released at will | one ceremony at a time, offenders stay out, refinement of `VoteSession`, every round settles |
| `governance` | coordinators: 3 accounts, 2 actions, all payload kinds; registry: 3 validators, 3 keys; repository: 2 servers, 8 scenarios of 1 or 2 requests, each tried once or twice | the policy can always be met, effects match executions, privileged changes have a current quorum; indices are inverse, snapshot keys current; config files hold only what was authorised and keep what was accepted |
| `config_race` | 2 managers sign one round through 2 servers | violated: see Findings |
| `ballots` | tree: 2 nodes, 2 notes, 2 proposals, 5 heights, 1 import; tally: 3 or 5 validators, group of order 11, 1 misdealt contribution | stores agree until an import, every leaf is anchored, one vote per note and proposal, paging is complete; every threshold of shares interpolates the key, the tally is exactly the sum or an error |
| `tree_diverge` | 2 nodes, 1 note | violated: see Findings |
| `proposer` | 2 validators, 1 crash, 1 timeout with jailing; 2 rounds with 1 proposal per validator and height, or 1 round with up to 2 | a committed ack has its share unless a second writing was cut short; with one proposal per height the injectors finish every round; validators that still propose forget their secrets |
| `proposer_twice` | two proposals per validator and height | violated: see Findings |
| `helper_crash` | 1 share, 2 workers, 2 troubles: a crash, an error or a damaged row each | nothing stranded, owned twice, sent twice per height, sent early, or scrubbed before it is committed |
| `queues` | dispatch: 3 shares of 2 rounds, 2 workers, no share revealed by others; retry: 4 combinations of first attempt and vote end, late polls, 1 restart; operators: 2 with 2 requests, 1 restart | dispatch takes turns between rounds; slots in their window, spaced, bounded, decodable, sleeps neither zero nor past the next slot; whoever was told to wait is listed |
| `live` | helper: 1 share, 1 worker, 2 troubles; cache: 2 handlers, 3 versions, 1 restart | rows of closed rounds all go, unless the helper is down with a row that awaits repair; the cached config catches up |
| `admission` | transactions: 10 scenarios of 2 to 5, 3 blocks, 1 call, 1 restart; store: 2 rounds, 3 messages, exports at any time | own proposals are accepted; what stays in the mempool passes the full ante handler and, for delegations and casts, the message handler; what executes was authorised, answers are true; scans are exact, genesis loses nothing |

Why the bounds are enough. Five validators are the smallest number for which the
4/5 quorum is below n, so that stripping happens. Two rounds are the smallest
number in which one can disturb another. Three keys close a cycle of rotations.
Two nodes compare a restarted node with one that kept running. Two validators
make every ack and partial decryption necessary. Two workers contend for one
share. In the tally the bound of the table lies between one ballot and two, so
totals fall on both sides of it. Two requests are enough for one to change the
branch between any two calls of the other. Two register handlers are enough for a
slow one to overwrite a later expiry. A limit of one share submission per block
meets several of them. In `queues` two workers can be given shares of two rounds,
or of one, in a single batch; no other helper reveals shares there, since what is
committed does not enter the order in which shares are handed out. In `proposer`
two proposals per height are checked for one round only: with two, the liveness
check would not finish, and the theorem covers any number for safety.
`rounds_five` and `rounds_two` split what one instance with five validators and
two rounds would not finish.

Deadlock is not checked where a bounded instance really comes to rest: blocks,
messages, requests and starts are used up (`governance`, `ballots`, `queues`,
`admission` and the violated runs). The other runs check it. Each property of a
passing run has a mutant, a plausible bug in the definition it depends on, that
TLC finds.

### Fairness

- `VoteRounds`: weak fairness of the clock only. Blocks come and block time
  advances; no validator is assumed to do anything.
- `ProposerNode`: CometBFT rotates the proposer, so each validator is asked again
  and again (weak fairness of `Prepare`) and its proposals are decided again and
  again (strong fairness of `Block`, since a proposal is lost whenever another is
  decided). Both hold only while the validator is active: one that was jailed is
  not asked, and nothing says that it will be unjailed. Block time advances, so
  voting ends.
- `HelperQueue`: weak fairness of the dispatcher, each step of an attempt,
  maintenance, restart, clock and blocks. These are loops and goroutines with
  nothing that blocks them forever; `MaxTroubles` bounds crashes and errors. A
  restart is fair only when recovery can scan every row, for it is not enabled
  otherwise, and the operator's repair is not assumed to happen. `WitnessForgotten`
  says therefore that a stored share goes away or the helper comes to stand still
  awaiting that repair.
- `ConfigCache`: weak fairness of the start, the ticker, the handlers and the
  store step, and strong fairness of the refresher's two fetches: the ticker
  retries for ever, so the CDN answers some of its requests for each file.

## Findings

- `tree_diverge`. After a genesis import the stored height is 0 until the next
  leaf. A node that restarts in that window replays all leaves and writes a
  checkpoint that a node that kept running does not write, so two nodes differ
  in state after the same blocks. The comment in `tree_root_poseidon.go:28` says
  restart blocks without new leaves skip the checkpoint.
- `proposer_twice`. The contribution injector writes a new polynomial over
  `coeffs.<round>` at each call. A validator that proposes twice at one height
  and whose first proposal is decided can no longer ack. The comment at
  `prepare_proposal_partial_decrypt.go:287` says the coefficients must survive.
  `InjectorsSufficeOnce` is therefore claimed for one proposal per validator and
  height.

- `config_race`. `createConfigPR` remembers from the creation of the ref whether
  the branch existed, and preserves the branch's signatures only then
  (`config_pr.go:519`). A server that creates the branch, and is overtaken by a
  second one that adds a signature to it and answers success, then reads that file
  with its current SHA and overwrites it. `docs/imt-verification.md:74` says
  existing branch signatures are preserved, and line 79 that conflicts fail.
  `governance` checks that no signature gets lost otherwise: a request served by
  the server that made the branch keeps its own, whatever others do in between.

Remarks, differences between text and code met while modelling that have no run:

- `docs/tss-ceremony.md:301` says a DEALT timeout with too few acks resets to
  REGISTERING; the code sets CEREMONY_FAILED (`module.go:619`).
- `module.go:555` describes the quorum as leaving slack above the decryption
  threshold; for small n the two are equal.
- `prepare_proposal_ceremony.go:338` says the ack handler deletes the
  coefficients file; it is left for the clean-up (458-460).
- `docs/vote-coordinator-actions.md:45` speaks of execution once the threshold is
  met; a lowered threshold executes nothing until someone approves again.
- An approval of an expired action returns an error, so the EXPIRED status it
  sets is rolled back on chain.
- `x/vote/types/keys.go:21` speaks of EndBlock restarting REGISTERING after a
  timeout; the code fails the round.
- The comment at `api/handler.go:609` says CometBFT's cache holds rejected
  transactions too. That is so only with `keep-invalid-txs-in-cache`, which
  CometBFT leaves off by default and the code never sets. Where an operator does
  set it, a repeated submission of a refused transaction is answered as "pending
  in mempool" although it is not; `AnswersAreTrue` names this as its one
  exception.
- A share with an option that its proposal does not have, or with a ciphertext that
  cancels the accumulator, passes CheckTx and is refused by its handler in the
  block. A nullifier is not spent by that. `MempoolExecutable` claims the handler
  only for delegations and casts, of which `x/vote/ante/validate.go` says that a late
  rejection would leave an authorisation unspent.
- The answer to a repeated submission can be "pending" while CheckTx still runs,
  and it can report an earlier failed inclusion of bytes that are being checked
  again. `AnswersAreTrue` says what the answers do mean.

## Proofs

No axiom is used beyond the named assumptions on constants in each module
(finite sets of validators, operators and shares; positive timeouts; durations of
the retry schedule as described below; share values in Nat; a genesis policy that
is valid and whose members have accounts; a handler delay below the expiry;
distinct null values), which TLC evaluates in the runs.
Components that share no variable share a proof module, one section each.

`VoteRounds`. The inductive invariant `IInv` (in `VoteRoundsSteps`) joins
`TypeOK` with: at most one PENDING round; phase by phase, how contributions, acks
and validators nest (`CeremonyInv`), with threshold and Shamir indices those of
the dealt snapshot, and, once confirmed, at least threshold many validators left,
at distinct indices; accumulator, counter and nullifiers agree; partial
decryptions exist only once voting has ended and results only at the end
(`DecryptInv`); offenders of failed rounds are jailed unless slashing released
them (`JailInv`). The listed safety properties are not inductive
alone: that survivors reach the threshold needs the count at activation, which
needs the dealt snapshot; that partials match needs that no reveal follows the
end of voting. `QuorumCoversThreshold` is the arithmetic, for every n.
`VoteRoundsSteps` proves facts on indices and quorums and, for types and ceremony,
one lemma per action; `VoteRoundsProofs` does the other conjuncts, combines them,
derives each property, and proves `Refinement`: each step is a step of
`VoteSession` or a stutter.

`CoordinatorActions`. `Inv` is types plus `CoordinatorsCanAct`; the action
property `PrivilegedChangesHaveQuorum` follows from it step by step: every step
either executes one action (`StoreHasQuorum`) or leaves what is privileged alone.
`EffectsMatchExecutions` counts: what the executed sends pay is the cardinality of
a set of pairs of action and coin (`PaidOut`), so no sum over actions is needed.
`EffectsInv` adds that these sets are finite. An execution adds the pairs of one
action that was not executed before; nothing else changes an executed action.

`PallasRegistry`. `RegistryInv` joins both indices being inverse with the snapshot
keys being current; rotation needs both at once.

`CommitmentTree`. The three invariants speak of roots and votes; why they hold is
in the tree's bookkeeping. `NodeInv` says of one node that the stored root is the
root of the first `nextIndexAtRoot` leaves (`RootInv`), that each stored root is
the root of a prefix whose end is the end of its block's range and that the ranges
cover the rooted leaves once (`AnchorInv`), that the library has written nothing,
or its shards hold the rooted leaves and its latest checkpoint counts them, and
that a handle, when there is one, holds the same (`LibraryInv`). With it
`ensureRoundTreeLoaded` is shown to bring each node, by whichever branch, to the
same tree, and `EndBlock` to write the same keys. `StoresAgree` before an import
also needs that a stored height of 0 means no rooted leaf: after an import that
fails, which is what `tree_diverge` shows. For `OneVotePerNote`, `BallotInv` says
that the delegations of the leaves are equal or disjoint, that a delegation has at
most one VAN whose nullifier is not recorded, and that this VAN knows the
delegation's votes. A message is shown to append one VAN of one delegation and new
votes of it (`OneBallot`), batches included.

`HelperQueue`. `Inv` joins `SharesInOnePlace` with: a taken share has a row and was
due, and a scheduled one is not scheduled before its `submit_at` (`TimesInv`); a
process that is down holds nothing in memory (`DownInv`); an attempt ends in
"submitted" only for a committed share and only closed rounds are confirmed for a
purge (`VerdictInv`); a share sent at the latest height and not yet committed is
among those remembered for that height, once the process has seen a block since
its start (`SendInv`). The last is why the gate after a restart is
needed. `takeReady` serves shares in the order of turn and round, which the model
states as ranks: `HelperQueueBatches` shows that ranks differ and that a worker
gets at most one share. The same module treats purge, recovery and crash,
which change every row at once. `HelperQueueProofs` has one lemma per step of an
attempt, and derives the two action properties from `Inv`.

`ProposerNode`. `AckersHoldShares` is proved for any number of validators, rounds,
crashes, timeouts and proposals per height. It is not inductive: a share must
already be on disk while the ack is only proposed. `Inv` adds that every open
proposal with an ack has its share on disk, or lost it to a second writing
(`OpenAcksHoldShares`), and what the fields of the state look like (`Shape`). With
one proposal per height the exception never arises: a second writing needs an open
proposal of the same validator. Every handler is shown to add no acker but the
proposer of the decided block, and clean-up to remove no share of a round that can
still be tallied.

`JoinQueue`. `PendingListed` speaks of the finished answer only. `JoinInv` follows
it back: rows still to be filtered together with the answer so far cover everyone
owed (`ListSound`); the row of whoever was told an expiry lasts until it, less the
delay of a handler (`RowsHonourAnswers`), because a handler that overwrites it is at
most that much older; a handler that has written and not yet answered has such a
row (`HandlersSound`); nothing was promised from a table that a start will drop
(`NothingPromised`). It assumes a finite set of operators and a delay below the
expiry. The lemmas on sequences say what filtering does to the set of a list.

`RetrySchedule`. `RetryInv` says of the stored retry state that there is none and
nothing was proved, or that it is a schedule whose last proof was not after the
cutoff and that has spent a slot for every proof (`Progress`). Under it lies the
arithmetic: the cutoff is within the duration and leaves the buffer
(`CutoffBounds`), the jittered end stays inside the cutoff (`WindowInside`), and
the slots are spaced and at most five (`TimesAreSlots`). That no slot is slept
through needs that the slot a poll chooses only moves forward with the clock
(`SlotTimeRises`), so that the time this poll slept until is not after any slot
it could miss. Assumed are positive spacing, backoff and second, a minimal buffer
within the safety buffer, and a stalled count within the shifts that the model
writes out; the code's constants satisfy all of them.

The type invariants of the modules with proofs are theorems or conjuncts of the
inductive invariants, so their runs do not repeat them. Proved and not repeated as
a run: that every share is counted once (`CountedOnce`) and that partial
decryptions fit the accumulators (`PartialsMatchTally`).

Only model-checked:

- Liveness (`EveryRoundSettles`, `InjectorsSufficeOnce`, `SecretsForgotten`,
  `WitnessForgotten`, `ConfigCatchesUp`), which is beyond the prover.
- The properties of `TxPath` and of `ConfigRepo` (`OwnProposalAccepted`,
  `MempoolExecutable`, `ExecutedAsAuthorised`, `AnswersAreTrue`,
  `ConfigFilesAuthorised`, `ConfigRequestsKept`): a block, a mempool recheck and a
  merge of signatures are folds over sequences, and what a fold computes for every
  input needs induction over an operator, which the installed provers cannot
  instantiate.
- For the same reason the values of polynomials and of Lagrange interpolation
  (`SharesInterpolateTheKey`, `DecryptsExactlyTheSum`), the pages of a list of
  leaves (`TreePagesComplete`), and byte keys with their scans and round trips
  (`StoreScansExact`, `StoreRoundTrips`).
- `FairDispatch`, which looks back over a history of turns.

## Not modelled

- The Rust circuits, the tree library and the curve: oracles and an idealised
  group. What the proofs state is taken from how the Go code uses them.
- Queries, metrics, the command line, the UI, snapshot data for new sessions and
  static routes: they keep no protocol state. The scans and the paging under the
  queries are modelled.
- Chain upgrades: one-off migrations at fixed heights, each run once against a
  known state.
- Export for height zero (`export.go:21`): the new chain would write under heights
  that the imported rounds already use. The models continue at the next height.
- Application wiring: the order of the EndBlockers is used as a fact.
- The helper's field-by-field validation of a submitted share and its
  authentication: stateless, in front of the enqueue that is modelled.
- x/staking, x/slashing, x/bank, x/upgrade, CometBFT, GitHub and the CDN: external,
  by what the code relies on. A ceremony validator is not removed from x/staking
  while its ceremony runs, which is minutes against an unbonding period of days;
  and what consensus does when the ceremony timeout has jailed every validator
  lies outside: a chain without active validators stops, where `ProposerNode` may
  go on.

Reasons per component are in `PROJECT.json`.
