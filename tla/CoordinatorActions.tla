------------------------- MODULE CoordinatorActions -------------------------
(***************************************************************************)
(* The N-of-M approval flow of x/vote: coordinators (vote managers)        *)
(* propose privileged operations, others approve them, and an operation    *)
(* runs inside the transaction whose approval meets the threshold of the   *)
(* policy in force at that moment, which may itself be what the operation  *)
(* changes.                                                                *)
(*                                                                         *)
(* A handler that returns an error is rolled back as a whole, including    *)
(* the approval that triggered a failing payload; the one such transaction *)
(* with a visible answer of interest, approving an expired action, is an   *)
(* action of its own.  Payload creators equal their proposer, as           *)
(* validatePayloadCreator demands, so payloads carry no creator.           *)
(***************************************************************************)
EXTENDS Integers, FiniteSets, FiniteSetsExt

CONSTANTS
    Accounts,         \* account addresses
    InitialPolicy,    \* genesis coordinator policy
    InitialAccounts,  \* accounts that exist at genesis
    InitialFunds,     \* balance of the vote_funding module account
    Payloads,         \* operations that may be proposed
    Endorsers,        \* endorser ids
    Rounds,           \* ids of vote rounds
    MaxEligible,      \* bound: eligible validators
    Nothing,          \* no upgrade plan, no endorser address
    TTL,              \* coordinatorActionTTLSeconds
    MaxActions,       \* bound: action ids allocated
    MaxTime           \* bound: block time stops here

VARIABLES
    time,       \* block time
    members,    \* VoteManagerSet.addresses
    threshold,  \* VoteManagerSet.threshold
    minVals,    \* min_ceremony_validators
    accounts,   \* accounts known to x/auth
    eligible,   \* number of eligible ceremony validators
    rounds,     \* vote rounds created so far
    pending,    \* some round is PENDING (HasPendingRound)
    plan,       \* x/upgrade plan
    endorser,   \* endorser id -> address
    endorsed,   \* stored <<endorser id, round>> endorsements
    funds,      \* vote_funding balance
    nextId,     \* next coordinator action id
    actions,    \* stored CoordinatorActions, by id
    reply       \* answer to the last transaction: <<kind, action id>>

policyVars == <<members, threshold, minVals>>
roundVars  == <<rounds, pending>>
effects    == <<policyVars, accounts, roundVars, plan, endorser, funds>>
vars       == <<time, eligible, effects, endorsed, nextId, actions, reply>>

ActionIds == 1 .. MaxActions

NoAction == [status |-> "NONE"]

\* NormalizeVoteManagerThreshold, NormalizeMinCeremonyValidators: 0 means 1.
OrDefault(n) == IF n = 0 THEN 1 ELSE n

\* ValidateAndNormalizeVoteManagerPolicy.
ValidPolicy(p) ==
    /\ p.members # {}
    /\ OrDefault(p.threshold) <= Cardinality(p.members)

\* validateCoordinatorPayload, at proposal time.
ValidPayload(p) == p.kind = "policy" => ValidPolicy(p)

ASSUME CoordinatorAssumption ==
    /\ IsFiniteSet(Accounts)
    /\ InitialPolicy.members \in SUBSET Accounts
    /\ InitialPolicy.threshold \in Nat /\ InitialPolicy.min \in Nat
    /\ ValidPolicy(InitialPolicy)
    /\ InitialPolicy.members \subseteq InitialAccounts
    /\ InitialAccounts \subseteq Accounts
    /\ InitialFunds \in Nat
    /\ \A p \in Payloads :
          p.kind \in {"session", "policy", "schedule", "cancel", "endorser", "send"}
    /\ \A p \in Payloads : p.kind = "policy" =>
          /\ p.members \in SUBSET Accounts
          /\ p.threshold \in Nat /\ p.min \in Nat
    /\ \A p \in Payloads : p.kind = "endorser" =>
          /\ p.id \in Endorsers
          /\ p.address \in Accounts \cup {Nothing}
    /\ \A p \in Payloads : p.kind = "send" =>
          /\ p.to \in Accounts
          /\ p.amount \in Nat \ {0}
    /\ Nothing \notin Accounts
    /\ TTL \in Nat \ {0}
    /\ {MaxActions, MaxTime, MaxEligible} \subseteq Nat

Init ==
    /\ time = 0
    /\ members = InitialPolicy.members
    /\ threshold = OrDefault(InitialPolicy.threshold)
    /\ minVals = OrDefault(InitialPolicy.min)
    /\ accounts = InitialAccounts
    /\ eligible \in 0 .. MaxEligible
    /\ rounds = {}
    /\ pending = FALSE
    /\ plan = Nothing
    /\ endorser = [e \in Endorsers |-> Nothing]
    /\ endorsed = {}
    /\ funds = InitialFunds
    /\ nextId = 1
    /\ actions = [i \in ActionIds |-> NoAction]
    /\ reply = <<"none", 0>>

-----------------------------------------------------------------------------
(* Payload execution.  A payload whose guard is false fails the transaction. *)

\* The round id hashes the creation height: a retried session is a new round.
ExecuteCreateVotingSession(p) ==
    /\ p.kind = "session"
    /\ ~pending
    /\ eligible >= minVals
    /\ \E r \in Rounds \ rounds : rounds' = rounds \cup {r}
    /\ pending' = TRUE
    /\ UNCHANGED <<policyVars, accounts, plan, endorser, funds>>

\* Mutant: the new coordinators' accounts are not created.
UpdateWithoutAccounts(p) ==
    /\ p.kind = "policy"
    /\ ValidPolicy(p)
    /\ members' = p.members
    /\ threshold' = OrDefault(p.threshold)
    /\ minVals' = OrDefault(p.min)
    /\ UNCHANGED <<accounts, roundVars, plan, endorser, funds>>

ExecuteUpdateVoteManagers(p) ==
    /\ p.kind = "policy"
    /\ ValidPolicy(p)
    /\ members' = p.members
    /\ threshold' = OrDefault(p.threshold)
    /\ minVals' = OrDefault(p.min)
    /\ accounts' = accounts \cup p.members
    /\ UNCHANGED <<roundVars, plan, endorser, funds>>

ExecuteScheduleUpgrade(p) ==
    /\ p.kind = "schedule"
    /\ p.replace \/ plan = Nothing
    /\ plan' = p.name
    /\ UNCHANGED <<policyVars, accounts, roundVars, endorser, funds>>

ExecuteCancelUpgrade(p) ==
    /\ p.kind = "cancel"
    /\ plan' = Nothing
    /\ UNCHANGED <<policyVars, accounts, roundVars, endorser, funds>>

ExecuteSetEndorser(p) ==
    /\ p.kind = "endorser"
    /\ endorser' = [endorser EXCEPT ![p.id] = p.address]
    /\ accounts' = accounts \cup ({p.address} \ {Nothing})
    /\ UNCHANGED <<policyVars, roundVars, plan, funds>>

ExecuteAuthorizedSend(p) ==
    /\ p.kind = "send"
    /\ funds >= p.amount
    /\ funds' = funds - p.amount
    /\ accounts' = accounts \cup {p.to}
    /\ UNCHANGED <<policyVars, roundVars, plan, endorser>>

ExecuteCoordinatorPayload(p) ==
    \/ ExecuteCreateVotingSession(p)
    \/ ExecuteUpdateVoteManagers(p)
    \/ ExecuteScheduleUpgrade(p)
    \/ ExecuteCancelUpgrade(p)
    \/ ExecuteSetEndorser(p)
    \/ ExecuteAuthorizedSend(p)

-----------------------------------------------------------------------------
(* Proposals and approvals. *)

\* Mutant: approvals of removed coordinators still count.
AllApprovals(approvals) == approvals

\* currentCoordinatorApprovalCount: only current coordinators count.
CurrentApprovals(approvals) == approvals \cap members

QuorumReached(approvals) == Cardinality(CurrentApprovals(approvals)) >= threshold

CoordinatorActionExpired(act) == act.expiresAt # 0 /\ time > act.expiresAt

\* Mutant: the payload runs but the action is stored as it was.
ExecuteAndForget(i, act) ==
    IF QuorumReached(act.approvals)
    THEN /\ ExecuteCoordinatorPayload(act.payload)
         /\ actions' = [actions EXCEPT ![i] = act]
         /\ reply' = <<"executed", i>>
    ELSE /\ actions' = [actions EXCEPT ![i] = act]
         /\ reply' = <<"stored", i>>
         /\ UNCHANGED effects

\* maybeExecuteCoordinatorAction, and the store of the action that follows it.
MaybeExecuteCoordinatorAction(i, act) ==
    IF QuorumReached(act.approvals)
    THEN /\ ExecuteCoordinatorPayload(act.payload)
         /\ actions' = [actions EXCEPT ![i] = [act EXCEPT !.status = "EXECUTED"]]
         /\ reply' = <<"executed", i>>
    ELSE /\ actions' = [actions EXCEPT ![i] = act]
         /\ reply' = <<"stored", i>>
         /\ UNCHANGED effects

\* A transaction needs an existing account; the handler a current coordinator.
ValidateVoteManagerApprover(a) == a \in accounts /\ a \in members

ProposeCoordinatorAction(a, p) ==
    /\ ValidateVoteManagerApprover(a)
    /\ ValidPayload(p)
    /\ nextId <= MaxActions
    /\ nextId' = nextId + 1
    /\ MaybeExecuteCoordinatorAction(nextId,
          [payload |-> p, proposer |-> a, approvals |-> {a},
           status |-> "PENDING", expiresAt |-> time + TTL])
    /\ UNCHANGED <<time, eligible, endorsed>>

\* A first approval is recorded; a repeated one is refused unless a change of
\* policy has meanwhile made the action ready.
ApproveCoordinatorAction(a, i) ==
    /\ ValidateVoteManagerApprover(a)
    /\ actions[i].status = "PENDING"
    /\ ~CoordinatorActionExpired(actions[i])
    /\ a \in actions[i].approvals => QuorumReached(actions[i].approvals)
    /\ MaybeExecuteCoordinatorAction(i, [actions[i] EXCEPT !.approvals = @ \cup {a}])
    /\ UNCHANGED <<time, eligible, endorsed, nextId>>

\* The handler writes status EXPIRED and returns an error, which undoes it.
ApproveExpiredAction(a, i) ==
    /\ ValidateVoteManagerApprover(a)
    /\ actions[i].status = "PENDING"
    /\ CoordinatorActionExpired(actions[i])
    /\ reply' = <<"expired", i>>
    /\ UNCHANGED <<time, eligible, effects, endorsed, nextId, actions>>

EndorseRound(e, r) ==
    /\ endorser[e] \in accounts
    /\ r \in rounds
    /\ endorsed' = endorsed \cup {<<e, r>>}
    /\ UNCHANGED <<time, eligible, effects, nextId, actions, reply>>

ClearRoundEndorsement(e, r) ==
    /\ endorser[e] \in accounts
    /\ r \in rounds
    /\ endorsed' = endorsed \ {<<e, r>>}
    /\ UNCHANGED <<time, eligible, effects, nextId, actions, reply>>

-----------------------------------------------------------------------------
(* The rest of the chain. *)

\* The pending round's ceremony confirmed or failed (module VoteRounds).
CeremonyEnds ==
    /\ pending
    /\ pending' = FALSE
    /\ UNCHANGED <<time, eligible, policyVars, accounts, rounds, plan, endorser,
                   endorsed, funds, nextId, actions, reply>>

\* x/upgrade applies and clears the scheduled plan.
UpgradeApplied ==
    /\ plan # Nothing
    /\ plan' = Nothing
    /\ UNCHANGED <<time, eligible, policyVars, accounts, roundVars, endorser,
                   endorsed, funds, nextId, actions, reply>>

NextBlock ==
    /\ time < MaxTime
    /\ time' = time + 1
    /\ UNCHANGED <<eligible, effects, endorsed, nextId, actions, reply>>

\* Validators bond, are jailed, or register Pallas keys (module VoteRounds).
ValidatorsChange ==
    /\ eligible' \in 0 .. MaxEligible
    /\ UNCHANGED <<time, effects, endorsed, nextId, actions, reply>>

\* ExportGenesis leaves the next action id out (0) when its key was never written.
ExportedNextId == IF nextId = 1 THEN 0 ELSE nextId

\* InitGenesis moves past every imported action; an absent key counts as 1.
ImportedNextId ==
    Max({1, ExportedNextId} \cup
        {i + 1 : i \in {j \in ActionIds : actions[j] # NoAction}})

\* The chain starts again from its exported genesis.  The policy, the actions
\* and the endorsements are copied; x/upgrade exports no plan.
ExportAndImport ==
    /\ minVals' = OrDefault(minVals)
    /\ nextId' = ImportedNextId
    /\ plan' = Nothing
    /\ UNCHANGED <<time, eligible, members, threshold, accounts, roundVars,
                   endorser, endorsed, funds, actions, reply>>

Next ==
    \/ \E a \in Accounts, p \in Payloads : ProposeCoordinatorAction(a, p)
    \/ \E a \in Accounts, i \in ActionIds : ApproveCoordinatorAction(a, i)
    \/ \E a \in Accounts, i \in ActionIds : ApproveExpiredAction(a, i)
    \/ \E e \in Endorsers, r \in Rounds : EndorseRound(e, r)
    \/ \E e \in Endorsers, r \in Rounds : ClearRoundEndorsement(e, r)
    \/ CeremonyEnds
    \/ UpgradeApplied
    \/ NextBlock
    \/ ValidatorsChange
    \/ ExportAndImport

Spec == Init /\ [][Next]_vars

-----------------------------------------------------------------------------
(* Properties. *)

\* The policy, the actions and what their payloads write keep their types;
\* in particular no policy has threshold 0 (validateVoteManagerPolicy).
TypeOK ==
    /\ time \in 0 .. MaxTime
    /\ members \in SUBSET Accounts
    /\ threshold \in Nat \ {0} /\ minVals \in Nat \ {0}
    /\ accounts \in SUBSET Accounts
    /\ eligible \in 0 .. MaxEligible
    /\ rounds \in SUBSET Rounds /\ pending \in BOOLEAN
    /\ endorser \in [Endorsers -> Accounts \cup {Nothing}]
    /\ endorsed \in SUBSET (Endorsers \X rounds)
    /\ funds \in Nat
    /\ nextId \in 1 .. MaxActions + 1
    /\ DOMAIN actions = ActionIds
    /\ \A i \in ActionIds : i >= nextId => actions[i] = NoAction
    /\ \A i \in ActionIds : i < nextId =>
          actions[i] \in [payload : Payloads, proposer : Accounts,
                         approvals : SUBSET Accounts,
                         status : {"PENDING", "EXECUTED"}, expiresAt : Nat \ {0}]

\* The coordinators can always act: whatever sequence of policy changes ran,
\* the policy in force can be met by its own members, each of whom has an
\* account to sign with, and so has every mapped endorser
\* (executeUpdateVoteManagers, executeSetEndorser, ensureAccountExists).
CoordinatorsCanAct ==
    /\ threshold <= Cardinality(members)
    /\ members \subseteq accounts
    /\ \A e \in Endorsers : endorser[e] # Nothing => endorser[e] \in accounts

Executed(kind) ==
    {i \in ActionIds : actions[i].status = "EXECUTED" /\ actions[i].payload.kind = kind}

\* The coins the executed sends stand for, each named by its action and a number.
PaidOut == UNION {{i} \X (1 .. actions[i].payload.amount) : i \in Executed("send")}

\* Every executed action took effect exactly once, and nothing else did: the
\* vote_funding account has paid out the executed sends, and there is one round
\* per executed session, whatever was re-approved after a policy change
\* (ApproveCoordinatorAction's recheck, maybeExecuteCoordinatorAction).
EffectsMatchExecutions ==
    /\ funds + Cardinality(PaidOut) = InitialFunds
    /\ Cardinality(rounds) = Cardinality(Executed("session"))

HasPrivilegedEffect ==
    \/ <<policyVars, accounts, rounds, endorser, funds>>'
          # <<policyVars, accounts, rounds, endorser, funds>>
    \/ plan' \notin {plan, Nothing}

ExecutesWithQuorum(i) ==
    /\ actions[i].status # "EXECUTED"
    /\ actions'[i].status = "EXECUTED"
    /\ Cardinality(actions'[i].approvals \cap members) >= threshold
    /\ time <= actions'[i].expiresAt
    /\ \A j \in ActionIds \ {i} : actions'[j] = actions[j]

QuorumStep ==
    /\ HasPrivilegedEffect => \E i \in ActionIds : ExecutesWithQuorum(i)
    /\ \A i \in ActionIds :
          actions[i].status = "EXECUTED" => actions'[i] = actions[i]

\* A privileged change happens only in the step that executes one action, and
\* that action is unexpired and approved by at least the threshold of the
\* coordinators of the policy in force just before the step; an executed action
\* is never touched again (currentCoordinatorApprovalCount against the current
\* policy, not the one at proposal time).
PrivilegedChangesHaveQuorum == [][QuorumStep]_vars

=============================================================================
