-------------------------- MODULE GovernanceProofs --------------------------
(***************************************************************************)
(* The two components that decide who runs the chain: the coordinator's    *)
(* actions and the registry of validators' Pallas keys.  Each part proves  *)
(* one of them, for every value of its constants.                          *)
(***************************************************************************)
EXTENDS CoordinatorActions, PallasRegistry, FiniteSetTheorems, TLAPS

-----------------------------------------------------------------------------
(***************************************************************************)
(* CoordinatorActions.                                                     *)
(***************************************************************************)

ActionRecords ==
    [payload : Payloads, proposer : Accounts, approvals : SUBSET Accounts,
     status : {"PENDING", "EXECUTED"}, expiresAt : Nat \ {0}]

\* Defaulting a policy number makes it positive.
LEMMA OrDefaultType ==
    ASSUME NEW n \in Nat
    PROVE  OrDefault(n) \in Nat \ {0}
BY DEF OrDefault

\* The state executeCoordinatorPayload leaves is well typed and leaves a policy
\* that its members can meet and sign for.
LEMMA PayloadKeeps ==
    ASSUME TypeOK, CoordinatorsCanAct,
           NEW p \in Payloads, ExecuteCoordinatorPayload(p)
    PROVE  /\ members' \in SUBSET Accounts
           /\ threshold' \in Nat \ {0} /\ minVals' \in Nat \ {0}
           /\ accounts' \in SUBSET Accounts
           /\ rounds' \in SUBSET Rounds /\ pending' \in BOOLEAN
           /\ rounds \subseteq rounds'
           /\ endorser' \in [Endorsers -> Accounts \cup {Nothing}]
           /\ funds' \in Nat
           /\ CoordinatorsCanAct'
<1> USE CoordinatorAssumption DEF CoordinatorAssumption, TypeOK, CoordinatorsCanAct
<1>1. CASE ExecuteCreateVotingSession(p)
  BY <1>1 DEF ExecuteCreateVotingSession, policyVars
<1>2. CASE ExecuteUpdateVoteManagers(p)
  <2>1. /\ p.members \in SUBSET Accounts
        /\ OrDefault(p.threshold) \in Nat \ {0} /\ OrDefault(p.min) \in Nat \ {0}
    BY <1>2, OrDefaultType DEF ExecuteUpdateVoteManagers
  <2> QED BY <1>2, <2>1 DEF ExecuteUpdateVoteManagers, ValidPolicy, roundVars
<1>3. CASE ExecuteScheduleUpgrade(p)
  BY <1>3 DEF ExecuteScheduleUpgrade, policyVars, roundVars
<1>4. CASE ExecuteCancelUpgrade(p)
  BY <1>4 DEF ExecuteCancelUpgrade, policyVars, roundVars
<1>5. CASE ExecuteSetEndorser(p)
  BY <1>5 DEF ExecuteSetEndorser, policyVars, roundVars
<1>6. CASE ExecuteAuthorizedSend(p)
  BY <1>6 DEF ExecuteAuthorizedSend, policyVars, roundVars
<1> QED BY <1>1, <1>2, <1>3, <1>4, <1>5, <1>6 DEF ExecuteCoordinatorPayload

\* maybeExecuteCoordinatorAction stores a well-typed action and keeps the rest
\* of the state well typed, whether or not it executes.
LEMMA MaybeExecuteKeeps ==
    ASSUME TypeOK, CoordinatorsCanAct,
           NEW i \in ActionIds, NEW act \in ActionRecords, act.status = "PENDING",
           MaybeExecuteCoordinatorAction(i, act)
    PROVE  /\ members' \in SUBSET Accounts
           /\ threshold' \in Nat \ {0} /\ minVals' \in Nat \ {0}
           /\ accounts' \in SUBSET Accounts
           /\ rounds' \in SUBSET Rounds /\ pending' \in BOOLEAN
           /\ rounds \subseteq rounds'
           /\ endorser' \in [Endorsers -> Accounts \cup {Nothing}]
           /\ funds' \in Nat
           /\ CoordinatorsCanAct'
           /\ DOMAIN actions' = ActionIds
           /\ actions'[i] \in ActionRecords
           /\ \A j \in ActionIds \ {i} : actions'[j] = actions[j]
<1>1. CASE QuorumReached(act.approvals)
  <2>1. ExecuteCoordinatorPayload(act.payload) /\ act.payload \in Payloads
    BY <1>1 DEF MaybeExecuteCoordinatorAction, ActionRecords
  <2>2. [act EXCEPT !.status = "EXECUTED"] \in ActionRecords
    BY DEF ActionRecords
  <2>3. actions' = [actions EXCEPT ![i] = [act EXCEPT !.status = "EXECUTED"]]
    BY <1>1 DEF MaybeExecuteCoordinatorAction
  <2>4. DOMAIN actions = ActionIds
    BY DEF TypeOK
  <2>5. /\ DOMAIN actions' = ActionIds
        /\ actions'[i] \in ActionRecords
        /\ \A j \in ActionIds \ {i} : actions'[j] = actions[j]
    BY <2>2, <2>3, <2>4
  <2> QED BY <2>1, <2>5, PayloadKeeps
<1>2. CASE ~QuorumReached(act.approvals)
  <2>1. actions' = [actions EXCEPT ![i] = act] /\ UNCHANGED effects
    BY <1>2 DEF MaybeExecuteCoordinatorAction
  <2>2. DOMAIN actions = ActionIds
    BY DEF TypeOK
  <2>3. /\ DOMAIN actions' = ActionIds
        /\ actions'[i] \in ActionRecords
        /\ \A j \in ActionIds \ {i} : actions'[j] = actions[j]
    BY <2>1, <2>2
  <2> QED BY <2>1, <2>3 DEF TypeOK, CoordinatorsCanAct, effects, policyVars, roundVars
<1> QED BY <1>1, <1>2

-----------------------------------------------------------------------------

Inv == TypeOK /\ CoordinatorsCanAct

\* The genesis policy is admissible and its members have accounts.
LEMMA InvInit == Init => Inv
<1> SUFFICES ASSUME Init PROVE Inv
  OBVIOUS
<1> USE CoordinatorAssumption DEF CoordinatorAssumption, Init
<1>1. threshold \in Nat \ {0} /\ minVals \in Nat \ {0}
  BY OrDefaultType
<1>2. TypeOK
  <2>1. time \in 0 .. MaxTime /\ nextId \in 1 .. MaxActions + 1
    OBVIOUS
  <2>2. /\ DOMAIN actions = ActionIds
        /\ \A i \in ActionIds : actions[i] = NoAction
        /\ \A i \in ActionIds : ~(i < nextId)
    BY DEF ActionIds
  <2>3. endorsed \in SUBSET (Endorsers \X rounds)
    OBVIOUS
  <2>4. endorser \in [Endorsers -> Accounts \cup {Nothing}]
    OBVIOUS
  <2> QED BY <1>1, <2>1, <2>2, <2>3, <2>4, Zenon DEF TypeOK
<1>3. CoordinatorsCanAct
  BY DEF CoordinatorsCanAct, ValidPolicy
<1> QED BY <1>2, <1>3 DEF Inv

\* What a proposal stores under the id it allocates.
LEMMA ProposeStores ==
    ASSUME TypeOK, NEW a \in Accounts, NEW p \in Payloads,
           ProposeCoordinatorAction(a, p)
    PROVE  \E act \in ActionRecords :
              /\ act.status = "PENDING"
              /\ act.expiresAt >= time
              /\ MaybeExecuteCoordinatorAction(nextId, act)
              /\ nextId \in ActionIds
              /\ nextId' = nextId + 1
              /\ actions[nextId].status # "EXECUTED"
<1> DEFINE act == [payload |-> p, proposer |-> a, approvals |-> {a},
                   status |-> "PENDING", expiresAt |-> time + TTL]
<1>1. time + TTL \in Nat \ {0} /\ time + TTL >= time
  BY CoordinatorAssumption DEF CoordinatorAssumption, TypeOK
<1>2. act \in ActionRecords /\ act.status = "PENDING" /\ act.expiresAt >= time
  BY <1>1 DEF ActionRecords
<1>3. nextId \in ActionIds
  BY CoordinatorAssumption DEF CoordinatorAssumption, TypeOK, ActionIds, ProposeCoordinatorAction
<1>4. actions[nextId] = NoAction
  BY <1>3 DEF TypeOK, ActionIds
<1> QED BY <1>2, <1>3, <1>4 DEF ProposeCoordinatorAction, NoAction

\* What an approval stores over the pending action.
LEMMA ApproveStores ==
    ASSUME TypeOK, NEW a \in Accounts, NEW i \in ActionIds,
           ApproveCoordinatorAction(a, i)
    PROVE  \E act \in ActionRecords :
              /\ act.status = "PENDING"
              /\ act.expiresAt >= time
              /\ MaybeExecuteCoordinatorAction(i, act)
              /\ i < nextId
              /\ actions[i].status # "EXECUTED"
<1> DEFINE act == [actions[i] EXCEPT !.approvals = @ \cup {a}]
<1>1. actions[i].status = "PENDING" /\ ~CoordinatorActionExpired(actions[i])
  BY DEF ApproveCoordinatorAction
<1>2. i < nextId
  BY <1>1 DEF TypeOK, ActionIds, NoAction
<1>3. actions[i] \in ActionRecords
  BY <1>2 DEF TypeOK, ActionRecords
<1>4. act \in ActionRecords /\ act.status = "PENDING"
  BY <1>1, <1>3 DEF ActionRecords
<1>5. actions[i].expiresAt \in Nat \ {0} /\ act.expiresAt = actions[i].expiresAt
  BY <1>3 DEF ActionRecords
<1>6. actions[i].expiresAt >= time
  BY <1>1, <1>5 DEF CoordinatorActionExpired, TypeOK
<1> QED BY <1>1, <1>2, <1>4, <1>5, <1>6, Zenon DEF ApproveCoordinatorAction

\* The type invariant survives a step that stores one action and runs
\* maybeExecuteCoordinatorAction.
LEMMA StoreKeepsInv ==
    ASSUME Inv, NEW i \in ActionIds, NEW act \in ActionRecords,
           act.status = "PENDING", MaybeExecuteCoordinatorAction(i, act),
           nextId' \in 1 .. MaxActions + 1,
           \A j \in ActionIds : j < nextId' <=> j < nextId \/ j = i,
           UNCHANGED <<time, eligible, endorsed>>
    PROVE  Inv'
<1>1. TypeOK /\ CoordinatorsCanAct
  BY DEF Inv
<1>2. /\ members' \in SUBSET Accounts
      /\ threshold' \in Nat \ {0} /\ minVals' \in Nat \ {0}
      /\ accounts' \in SUBSET Accounts
      /\ rounds' \in SUBSET Rounds /\ pending' \in BOOLEAN
      /\ rounds \subseteq rounds'
      /\ endorser' \in [Endorsers -> Accounts \cup {Nothing}]
      /\ funds' \in Nat
      /\ CoordinatorsCanAct'
      /\ DOMAIN actions' = ActionIds
      /\ actions'[i] \in ActionRecords
      /\ \A j \in ActionIds \ {i} : actions'[j] = actions[j]
  BY <1>1, MaybeExecuteKeeps
<1>3. \A j \in ActionIds : j < nextId' => actions'[j] \in ActionRecords
  BY <1>1, <1>2 DEF TypeOK, ActionRecords
<1>4. \A j \in ActionIds : j >= nextId' => actions'[j] = NoAction
  <2> SUFFICES ASSUME NEW j \in ActionIds, j >= nextId' PROVE actions'[j] = NoAction
    OBVIOUS
  <2>1. nextId \in Int /\ nextId' \in Int /\ j \in Int
    BY <1>1 DEF TypeOK, ActionIds
  <2>2. j # i /\ j >= nextId
    BY <2>1
  <2> QED BY <1>1, <1>2, <2>2 DEF TypeOK
<1>5. endorsed' \in SUBSET (Endorsers \X rounds')
  BY <1>1, <1>2 DEF TypeOK
<1>6. time' \in 0 .. MaxTime /\ eligible' \in 0 .. MaxEligible
  BY <1>1 DEF TypeOK
<1>7. TypeOK'
  BY <1>2, <1>3, <1>4, <1>5, <1>6 DEF TypeOK, ActionRecords
<1> QED BY <1>2, <1>7 DEF Inv

\* A genesis import continues with the action id the export stopped at, although
\* it is recomputed from what was exported (InitGenesis, ExportGenesis).
LEMMA ImportKeepsNextId ==
    ASSUME TypeOK
    PROVE  ImportedNextId = nextId
<1> DEFINE S == {1, ExportedNextId} \cup
                {i + 1 : i \in {j \in ActionIds : actions[j] # NoAction}}
<1>1. nextId \in Nat \ {0}
  BY DEF TypeOK
<1>2. nextId \in S
  BY <1>1 DEF ExportedNextId
<1>3. ASSUME NEW y \in S PROVE y \in Int /\ nextId >= y
  <2>1. CASE y \in {1, ExportedNextId}
    BY <1>1, <2>1 DEF ExportedNextId
  <2>2. ASSUME NEW i \in ActionIds, actions[i] # NoAction, y = i + 1
        PROVE  y \in Int /\ nextId >= y
    BY <1>1, <2>2 DEF TypeOK, ActionIds
  <2> QED BY <1>3, <2>1, <2>2
<1> HIDE DEF S
<1>4. \A x \in S : (\A y \in S : x >= y) => x = nextId
  BY <1>1, <1>2, <1>3
<1>5. Max(S) = nextId
  BY <1>2, <1>3, <1>4, Zenon DEF Max
<1> QED BY <1>5 DEF S, ImportedNextId

\* What the steps that store no action leave alone, and what keeps its type.
Untouched == UNCHANGED <<members, threshold, accounts, rounds, endorser, funds, nextId, actions>>
Retyped ==
    /\ time' \in 0 .. MaxTime /\ eligible' \in 0 .. MaxEligible
    /\ minVals' \in Nat \ {0} /\ pending' \in BOOLEAN
    /\ endorsed' \in SUBSET (Endorsers \X rounds)

\* Every step stores one action with maybeExecuteCoordinatorAction, which was not
\* executed before and is unexpired, or touches neither the policy nor an action.
LEMMA StoresOrRests ==
    ASSUME TypeOK, Next
    PROVE  \/ \E i \in ActionIds, act \in ActionRecords :
                 /\ act.status = "PENDING" /\ act.expiresAt >= time
                 /\ actions[i].status # "EXECUTED"
                 /\ MaybeExecuteCoordinatorAction(i, act)
                 /\ nextId' \in 1 .. MaxActions + 1
                 /\ \A j \in ActionIds : j < nextId' <=> j < nextId \/ j = i
                 /\ UNCHANGED <<time, eligible, endorsed>>
           \/ Untouched /\ Retyped /\ plan' \in {plan, Nothing} /\ minVals' = minVals
<1>0. /\ time \in 0 .. MaxTime /\ eligible \in 0 .. MaxEligible
      /\ minVals \in Nat \ {0} /\ pending \in BOOLEAN
      /\ endorsed \in SUBSET (Endorsers \X rounds)
  BY DEF TypeOK
<1> DEFINE Stores == \E i \in ActionIds, act \in ActionRecords :
                 /\ act.status = "PENDING" /\ act.expiresAt >= time
                 /\ actions[i].status # "EXECUTED"
                 /\ MaybeExecuteCoordinatorAction(i, act)
                 /\ nextId' \in 1 .. MaxActions + 1
                 /\ \A j \in ActionIds : j < nextId' <=> j < nextId \/ j = i
                 /\ UNCHANGED <<time, eligible, endorsed>>
           Rests == Untouched /\ Retyped /\ plan' \in {plan, Nothing} /\ minVals' = minVals
<1>1. ASSUME NEW a \in Accounts, NEW p \in Payloads, ProposeCoordinatorAction(a, p)
      PROVE  Stores
  <2>1. PICK act \in ActionRecords :
              /\ act.status = "PENDING" /\ act.expiresAt >= time
              /\ MaybeExecuteCoordinatorAction(nextId, act)
              /\ nextId \in ActionIds
              /\ nextId' = nextId + 1
              /\ actions[nextId].status # "EXECUTED"
    BY <1>1, ProposeStores
  <2>2. nextId' \in 1 .. MaxActions + 1
    BY <2>1, CoordinatorAssumption DEF CoordinatorAssumption, ActionIds
  <2>3. \A j \in ActionIds : j < nextId' <=> j < nextId \/ j = nextId
    BY <2>1 DEF ActionIds
  <2>4. UNCHANGED <<time, eligible, endorsed>>
    BY <1>1 DEF ProposeCoordinatorAction
  <2> QED BY <2>1, <2>2, <2>3, <2>4
<1>2. ASSUME NEW a \in Accounts, NEW i \in ActionIds, ApproveCoordinatorAction(a, i)
      PROVE  Stores
  <2>1. PICK act \in ActionRecords :
              /\ act.status = "PENDING" /\ act.expiresAt >= time
              /\ MaybeExecuteCoordinatorAction(i, act)
              /\ i < nextId
              /\ actions[i].status # "EXECUTED"
    BY <1>2, ApproveStores
  <2>2. UNCHANGED <<time, eligible, endorsed, nextId>>
    BY <1>2 DEF ApproveCoordinatorAction
  <2>3. nextId' \in 1 .. MaxActions + 1
    BY <2>2 DEF TypeOK
  <2>4. \A j \in ActionIds : j < nextId' <=> j < nextId \/ j = i
    BY <2>1, <2>2
  <2> QED BY <2>1, <2>2, <2>3, <2>4
<1> HIDE DEF Stores
<1> USE <1>0 DEF Untouched, Retyped
<1>3. ASSUME NEW a \in Accounts, NEW i \in ActionIds, ApproveExpiredAction(a, i)
      PROVE  Rests
  BY <1>3 DEF ApproveExpiredAction, effects, policyVars, roundVars
<1>4. ASSUME NEW e \in Endorsers, NEW r \in Rounds,
             EndorseRound(e, r) \/ ClearRoundEndorsement(e, r)
      PROVE  Rests
  <2>1. endorsed' \in SUBSET (Endorsers \X rounds)
    BY <1>4 DEF EndorseRound, ClearRoundEndorsement
  <2> QED BY <1>4, <2>1 DEF EndorseRound, ClearRoundEndorsement, effects, policyVars, roundVars
<1>5. CASE CeremonyEnds
  BY <1>5, Zenon DEF CeremonyEnds, policyVars
<1>6. CASE UpgradeApplied
  BY <1>6 DEF UpgradeApplied, policyVars, roundVars
<1>7. CASE NextBlock
  <2>1. time' \in 0 .. MaxTime
    BY <1>7, CoordinatorAssumption DEF CoordinatorAssumption, NextBlock
  <2> QED BY <1>7, <2>1 DEF NextBlock, effects, policyVars, roundVars
<1>8. CASE ValidatorsChange
  BY <1>8 DEF ValidatorsChange, effects, policyVars, roundVars
<1>9. CASE ExportAndImport
  <2>1. nextId' = nextId
    BY <1>9, ImportKeepsNextId DEF ExportAndImport
  <2>2. minVals' = minVals
    BY <1>9 DEF ExportAndImport, OrDefault
  <2> QED BY <1>9, <2>1, <2>2 DEF ExportAndImport, roundVars
<1> QED BY <1>1, <1>2, <1>3, <1>4, <1>5, <1>6, <1>7, <1>8, <1>9, Zenon DEF Next, Stores

\* A step that stores no action keeps the invariant.
LEMMA RestKeepsInv ==
    ASSUME Inv, Untouched, Retyped
    PROVE  Inv'
<1>1. CoordinatorsCanAct'
  BY DEF Inv, Untouched, CoordinatorsCanAct
<1>2. TypeOK'
  BY DEF Inv, Untouched, Retyped, TypeOK
<1> QED BY <1>1, <1>2 DEF Inv

\* Every step keeps the invariant.
LEMMA InvStep == Inv /\ [Next]_vars => Inv'
<1> SUFFICES ASSUME Inv, [Next]_vars PROVE Inv'
  OBVIOUS
<1>1. CASE Next
  <2>1. TypeOK
    BY DEF Inv
  <2> QED BY <1>1, <2>1, StoresOrRests, StoreKeepsInv, RestKeepsInv
<1>2. CASE UNCHANGED vars
  BY <1>2, RestKeepsInv
  DEF vars, effects, policyVars, roundVars, Untouched, Retyped, Inv, TypeOK
<1> QED BY <1>1, <1>2

\* The stored policy, actions and endorsements are well typed in every reachable
\* state, and Inv is inductive (all of x/vote's coordinator handlers).
THEOREM CoordinatorInvariance == Spec => []Inv
BY InvInit, InvStep, PTL DEF Spec

\* Whatever policies the coordinators adopt, the policy in force can be met by
\* its members, and they and the endorsers have accounts to sign with
\* (executeUpdateVoteManagers, executeSetEndorser).
THEOREM CoordinatorsAlwaysCanAct == Spec => [](TypeOK /\ CoordinatorsCanAct)
BY CoordinatorInvariance, PTL DEF Inv

\* A step of maybeExecuteCoordinatorAction on an unexpired, unexecuted action
\* has the quorum it needs for any privileged effect.
LEMMA StoreHasQuorum ==
    ASSUME Inv, NEW i \in ActionIds, NEW act \in ActionRecords,
           act.status = "PENDING", act.expiresAt >= time,
           MaybeExecuteCoordinatorAction(i, act),
           actions[i].status # "EXECUTED"
    PROVE  QuorumStep
<1>1. TypeOK /\ CoordinatorsCanAct
  BY DEF Inv
<1>2. DOMAIN actions = ActionIds
  BY <1>1 DEF TypeOK
<1>3. \A j \in ActionIds \ {i} : actions'[j] = actions[j]
  BY <1>1, MaybeExecuteKeeps
<1>4. \A j \in ActionIds : actions[j].status = "EXECUTED" => actions'[j] = actions[j]
  BY <1>3
<1>5. CASE QuorumReached(act.approvals)
  <2>1. actions'[i] = [act EXCEPT !.status = "EXECUTED"]
    BY <1>2, <1>5 DEF MaybeExecuteCoordinatorAction
  <2>2. /\ actions'[i].status = "EXECUTED"
        /\ actions'[i].approvals = act.approvals
        /\ actions'[i].expiresAt = act.expiresAt
    BY <2>1 DEF ActionRecords
  <2>3. time <= actions'[i].expiresAt
    BY <1>1, <2>2 DEF TypeOK, ActionRecords
  <2>4. ExecutesWithQuorum(i)
    BY <1>3, <1>5, <2>2, <2>3 DEF ExecutesWithQuorum, QuorumReached, CurrentApprovals
  <2> QED BY <1>4, <2>4 DEF QuorumStep
<1>6. CASE ~QuorumReached(act.approvals)
  <2>1. UNCHANGED effects
    BY <1>6 DEF MaybeExecuteCoordinatorAction
  <2>2. ~HasPrivilegedEffect
    BY <2>1 DEF HasPrivilegedEffect, effects, roundVars
  <2> QED BY <1>4, <2>2 DEF QuorumStep
<1> QED BY <1>5, <1>6

\* Every step of the chain is a QuorumStep.
LEMMA QuorumStepHolds == Inv /\ [Next]_vars => [QuorumStep]_vars
<1> SUFFICES ASSUME Inv, Next PROVE QuorumStep
  OBVIOUS
<1>0. TypeOK
  BY DEF Inv
<1>1. Untouched /\ plan' \in {plan, Nothing} /\ minVals' = minVals => QuorumStep
  BY DEF Untouched, QuorumStep, HasPrivilegedEffect, policyVars
<1> QED BY <1>0, <1>1, StoresOrRests, StoreHasQuorum

\* No privileged change without a quorum of the current coordinators, for every
\* set of accounts, payloads and policies (currentCoordinatorApprovalCount,
\* maybeExecuteCoordinatorAction).
THEOREM PrivilegeNeedsQuorum == Spec => PrivilegedChangesHaveQuorum
BY CoordinatorInvariance, QuorumStepHolds, PTL DEF Spec, PrivilegedChangesHaveQuorum

\* Executions are counted by finite sets, which grow with the effects.
EffectsInv == EffectsMatchExecutions /\ IsFiniteSet(rounds) /\ IsFiniteSet(PaidOut)

\* At most MaxActions actions are executed.
LEMMA ExecutedFinite ==
    ASSUME NEW kind
    PROVE  IsFiniteSet(Executed(kind)) /\ Cardinality(Executed(kind)) \in Nat
<1>1. IsFiniteSet(ActionIds)
  BY CoordinatorAssumption, FS_Interval DEF CoordinatorAssumption, ActionIds
<1>2. Executed(kind) \in SUBSET ActionIds
  BY DEF Executed
<1>3. IsFiniteSet(Executed(kind))
  BY <1>1, <1>2, FS_Subset
<1> QED BY <1>3, FS_CardinalityType

\* What each payload does to the funds and the rounds.
LEMMA PayloadEffects ==
    ASSUME TypeOK, NEW p \in Payloads, ExecuteCoordinatorPayload(p)
    PROVE  /\ p.kind = "send" => /\ p.amount \in Nat
                                 /\ funds' = funds - p.amount /\ rounds' = rounds
           /\ p.kind = "session" => /\ funds' = funds
                                    /\ \E r : r \notin rounds /\ rounds' = rounds \cup {r}
           /\ p.kind \notin {"send", "session"} => UNCHANGED <<funds, rounds>>
<1>1. CASE ExecuteCreateVotingSession(p)
  BY <1>1 DEF ExecuteCreateVotingSession
<1>2. CASE ExecuteUpdateVoteManagers(p)
  BY <1>2 DEF ExecuteUpdateVoteManagers, roundVars
<1>3. CASE ExecuteScheduleUpgrade(p)
  BY <1>3 DEF ExecuteScheduleUpgrade, roundVars
<1>4. CASE ExecuteCancelUpgrade(p)
  BY <1>4 DEF ExecuteCancelUpgrade, roundVars
<1>5. CASE ExecuteSetEndorser(p)
  BY <1>5 DEF ExecuteSetEndorser, roundVars
<1>6. CASE ExecuteAuthorizedSend(p)
  BY <1>6, CoordinatorAssumption DEF CoordinatorAssumption, ExecuteAuthorizedSend, roundVars
<1> QED BY <1>1, <1>2, <1>3, <1>4, <1>5, <1>6 DEF ExecuteCoordinatorPayload

\* What storing act as action i does to the executed actions of a kind.
Marks(i, act, kind) ==
    /\ i \notin Executed(kind)
    /\ \A j \in Executed(kind) : actions'[j] = actions[j]
    /\ act.status = "EXECUTED" /\ act.payload.kind = kind
          => Executed(kind)' = Executed(kind) \cup {i} /\ actions'[i] = act
    /\ act.status # "EXECUTED" \/ act.payload.kind # kind
          => Executed(kind)' = Executed(kind)

\* Storing an action that was not executed before adds it to the executed ones of
\* its kind when it is marked so, and changes nothing else about them.
LEMMA ExecutedGrows ==
    ASSUME TypeOK, NEW i \in ActionIds, NEW act \in ActionRecords,
           actions[i].status # "EXECUTED", actions' = [actions EXCEPT ![i] = act]
    PROVE  Marks(i, act, "send") /\ Marks(i, act, "session")
<1>1. DOMAIN actions = ActionIds
  BY DEF TypeOK
<1>2. actions'[i] = act /\ \A j \in ActionIds : j # i => actions'[j] = actions[j]
  BY <1>1
<1>3. Marks(i, act, "send")
  BY <1>2 DEF Marks, Executed
<1>4. Marks(i, act, "session")
  BY <1>2 DEF Marks, Executed
<1> QED BY <1>3, <1>4

\* A send that executes pays its amount in coins nobody counted before.
LEMMA PaidOutGrows ==
    ASSUME NEW i, i \notin Executed("send"), NEW n \in Nat, IsFiniteSet(PaidOut),
           Executed("send")' = Executed("send") \cup {i},
           \A j \in Executed("send") : actions'[j] = actions[j],
           actions'[i].payload.amount = n
    PROVE  /\ IsFiniteSet(PaidOut')
           /\ Cardinality(PaidOut) \in Nat
           /\ Cardinality(PaidOut') = Cardinality(PaidOut) + n
<1> DEFINE new == {i} \X (1 .. n)
<1>1. PaidOut' = PaidOut \cup new
  BY DEF PaidOut
<1>2. PaidOut \cap new = {}
  BY DEF PaidOut
<1>3. IsFiniteSet(new) /\ Cardinality(new) = n
  <2>1. IsFiniteSet({i}) /\ Cardinality({i}) = 1
    BY FS_Singleton, Zenon
  <2>2. IsFiniteSet(1 .. n) /\ Cardinality(1 .. n) = n
    <3>1. 1 \in Int /\ n \in Int
      OBVIOUS
    <3>2. IsFiniteSet(1 .. n) /\ Cardinality(1 .. n) = IF 1 > n THEN 0 ELSE n - 1 + 1
      BY <3>1, FS_Interval, Zenon
    <3> QED BY <3>2
  <2>3. IsFiniteSet(new) /\ Cardinality(new) = Cardinality({i}) * Cardinality(1 .. n)
    BY <2>1, <2>2, FS_Product, Zenon
  <2> QED BY <2>1, <2>2, <2>3
<1> HIDE DEF new
<1>4. /\ IsFiniteSet(PaidOut \cup new)
      /\ Cardinality(PaidOut \cup new)
            = Cardinality(PaidOut) + Cardinality(new) - Cardinality(PaidOut \cap new)
  BY <1>3, FS_Union, Zenon
<1>5. Cardinality(PaidOut) \in Nat /\ Cardinality(PaidOut \cap new) = 0
  BY <1>2, FS_EmptySet, FS_CardinalityType, Zenon
<1> QED BY <1>1, <1>3, <1>4, <1>5

\* Nothing is paid when no send is executed.
LEMMA PaidOutStays ==
    ASSUME Executed("send")' = Executed("send"),
           \A j \in Executed("send") : actions'[j] = actions[j]
    PROVE  PaidOut' = PaidOut
BY DEF PaidOut

\* maybeExecuteCoordinatorAction takes effect exactly when it marks the action
\* executed.
LEMMA StoreKeepsEffects ==
    ASSUME Inv, EffectsInv, NEW i \in ActionIds, NEW act \in ActionRecords,
           act.status = "PENDING", actions[i].status # "EXECUTED",
           MaybeExecuteCoordinatorAction(i, act)
    PROVE  EffectsInv'
<1>0. TypeOK /\ CoordinatorsCanAct
  BY DEF Inv
<1>1. CASE ~QuorumReached(act.approvals)
  <2>1. actions' = [actions EXCEPT ![i] = act] /\ UNCHANGED <<funds, rounds>>
    BY <1>1 DEF MaybeExecuteCoordinatorAction, effects, roundVars
  <2>2. /\ Executed("send")' = Executed("send") /\ Executed("session")' = Executed("session")
        /\ \A j \in Executed("send") : actions'[j] = actions[j]
    <3>1. Marks(i, act, "send") /\ Marks(i, act, "session")
      BY <1>0, <2>1, ExecutedGrows, Zenon
    <3> QED BY <3>1 DEF Marks
  <2>3. PaidOut' = PaidOut
    BY <2>2, PaidOutStays
  <2> QED BY <2>1, <2>2, <2>3 DEF EffectsInv, EffectsMatchExecutions
<1>2. CASE QuorumReached(act.approvals)
  <2> DEFINE p    == act.payload
             done == [act EXCEPT !.status = "EXECUTED"]
  <2>1. /\ ExecuteCoordinatorPayload(p) /\ p \in Payloads
        /\ done \in ActionRecords /\ done.status = "EXECUTED" /\ done.payload = p
        /\ actions' = [actions EXCEPT ![i] = done]
    BY <1>2 DEF MaybeExecuteCoordinatorAction, ActionRecords
  <2>2. /\ p.kind = "send" => /\ p.amount \in Nat
                              /\ funds' = funds - p.amount /\ rounds' = rounds
        /\ p.kind = "session" => /\ funds' = funds
                                 /\ \E r : r \notin rounds /\ rounds' = rounds \cup {r}
        /\ p.kind \notin {"send", "session"} => UNCHANGED <<funds, rounds>>
    BY <1>0, <2>1, PayloadEffects
  <2> HIDE DEF p, done
  <2>3. /\ i \notin Executed("send") /\ i \notin Executed("session")
        /\ \A j \in Executed("send") : actions'[j] = actions[j]
        /\ p.kind = "send" => /\ Executed("send")' = Executed("send") \cup {i}
                              /\ actions'[i].payload = p
        /\ p.kind = "session" => Executed("session")' = Executed("session") \cup {i}
        /\ p.kind # "send" => Executed("send")' = Executed("send")
        /\ p.kind # "session" => Executed("session")' = Executed("session")
    <3>1. Marks(i, done, "send") /\ Marks(i, done, "session")
      BY <1>0, <2>1, ExecutedGrows, Zenon
    <3> QED BY <2>1, <3>1 DEF Marks
  <2>4. CASE p.kind = "send"
    <3>1. /\ IsFiniteSet(PaidOut') /\ Cardinality(PaidOut) \in Nat
          /\ Cardinality(PaidOut') = Cardinality(PaidOut) + p.amount
      BY <2>2, <2>3, <2>4, PaidOutGrows DEF EffectsInv
    <3>2. Executed("session")' = Executed("session") /\ rounds' = rounds
      BY <2>2, <2>3, <2>4, Zenon
    <3>3. funds' + Cardinality(PaidOut') = InitialFunds
      BY <1>0, <2>2, <2>4, <3>1 DEF EffectsInv, EffectsMatchExecutions, TypeOK
    <3> QED BY <3>1, <3>2, <3>3 DEF EffectsInv, EffectsMatchExecutions
  <2>5. CASE p.kind = "session"
    <3>1. PICK r : r \notin rounds /\ rounds' = rounds \cup {r}
      BY <2>2, <2>5
    <3>2. IsFiniteSet(rounds') /\ Cardinality(rounds') = Cardinality(rounds) + 1
      BY <3>1, FS_AddElement, Zenon DEF EffectsInv
    <3>3. Cardinality(Executed("session")') = Cardinality(Executed("session")) + 1
      <4>1. IsFiniteSet(Executed("session")) /\ i \notin Executed("session")
            /\ Executed("session")' = Executed("session") \cup {i}
        BY <2>3, <2>5, ExecutedFinite, Zenon
      <4> QED BY <4>1, FS_AddElement, Zenon
    <3>4. PaidOut' = PaidOut /\ funds' = funds
      BY <2>2, <2>3, <2>5, PaidOutStays, Zenon
    <3> QED BY <3>2, <3>3, <3>4 DEF EffectsInv, EffectsMatchExecutions
  <2>6. CASE p.kind \notin {"send", "session"}
    <3>1. PaidOut' = PaidOut /\ Executed("session")' = Executed("session")
      BY <2>3, <2>6, PaidOutStays
    <3> QED BY <2>2, <2>6, <3>1 DEF EffectsInv, EffectsMatchExecutions
  <2> QED BY <2>4, <2>5, <2>6
<1> QED BY <1>1, <1>2

\* At genesis nothing was executed and nothing was paid.
LEMMA EffectsInitial == Init => EffectsInv
<1> SUFFICES ASSUME Init PROVE EffectsInv
  OBVIOUS
<1>1. \A kind : Executed(kind) = {}
  BY DEF Init, Executed, NoAction
<1>2. PaidOut = {} /\ rounds = {}
  BY <1>1 DEF PaidOut, Init
<1>3. Cardinality({}) = 0 /\ IsFiniteSet({})
  BY FS_EmptySet
<1>4. funds + 0 = InitialFunds
  BY CoordinatorAssumption DEF Init, CoordinatorAssumption
<1> QED BY <1>1, <1>2, <1>3, <1>4 DEF EffectsInv, EffectsMatchExecutions

\* Every step keeps effects and executions in agreement.
LEMMA EffectsStep == Inv /\ EffectsInv /\ [Next]_vars => EffectsInv'
<1> SUFFICES ASSUME Inv, EffectsInv, [Next]_vars PROVE EffectsInv'
  OBVIOUS
<1>1. UNCHANGED <<funds, rounds, actions>> => EffectsInv'
  BY Zenon DEF EffectsInv, EffectsMatchExecutions, PaidOut, Executed
<1>2. CASE Next
  <2>1. TypeOK
    BY DEF Inv
  <2> QED BY <1>1, <1>2, <2>1, StoresOrRests, StoreKeepsEffects DEF Untouched
<1>3. CASE UNCHANGED vars
  BY <1>1, <1>3 DEF vars, effects, roundVars
<1> QED BY <1>2, <1>3

\* Every executed action took effect exactly once, and nothing else did, whatever
\* is re-approved after a change of policy and wherever the chain is exported:
\* the funds have lost what the executed sends pay, and there is one round per
\* executed session (maybeExecuteCoordinatorAction).
THEOREM EffectsOncePerExecution == Spec => []EffectsMatchExecutions
<1>1. Inv /\ EffectsInv /\ [Next]_vars => (Inv /\ EffectsInv)'
  BY InvStep, EffectsStep
<1>2. EffectsInv => EffectsMatchExecutions
  BY DEF EffectsInv
<1> QED BY <1>1, <1>2, InvInit, EffectsInitial, PTL DEF Spec

-----------------------------------------------------------------------------
(***************************************************************************)
(* PallasRegistry, for any sets of validators and keys.                    *)
(***************************************************************************)

RegistryInv == RegistryTypeOK /\ IndicesAgree /\ CeremonyKeysAreCurrent

\* Two registered validators have different keys, because each key has one owner.
LEMMA KeysDiffer ==
    ASSUME RegistryTypeOK, IndicesAgree,
           NEW v \in Validators, NEW w \in Validators, v # w, key[v] # NoKey
    PROVE  key[v] # key[w]
<1>1. key[v] \in Keys
  BY DEF RegistryTypeOK
<1>2. owner[key[v]] = v
  BY <1>1 DEF IndicesAgree
<1> QED BY <1>1, <1>2 DEF IndicesAgree

\* RegisterPallasKeyCore keeps the indices in agreement and touches no snapshot.
LEMMA RegisterKeeps ==
    ASSUME RegistryInv, NEW v \in Validators, NEW k \in Keys,
           RegisterPallasKeyCore(v, k), UNCHANGED round
    PROVE  /\ key' \in [Validators -> Keys \cup {NoKey}]
           /\ owner' \in [Keys -> Validators \cup {Nobody}]
           /\ IndicesAgree'
           /\ CeremonyKeysAreCurrent'
<1> USE RegistryAssumption DEF RegistryAssumption, RegistryInv, RegisterPallasKeyCore
<1>1. /\ key' \in [Validators -> Keys \cup {NoKey}]
      /\ owner' \in [Keys -> Validators \cup {Nobody}]
  BY DEF RegistryTypeOK
<1>2. IndicesAgree'
  BY DEF RegistryTypeOK, IndicesAgree
<1>3. CeremonyKeysAreCurrent'
  BY DEF RegistryTypeOK, CeremonyKeysAreCurrent, round
<1> QED BY <1>1, <1>2, <1>3

\* The empty registry satisfies the invariant.
LEMMA RegistryInitial == RegistryInit => RegistryInv
<1> SUFFICES ASSUME RegistryInit PROVE RegistryInv
  OBVIOUS
<1>1. RegistryTypeOK
  BY RegistryAssumption, Zenon DEF RegistryAssumption, RegistryInit, RegistryTypeOK, EmptySnapshot
<1>2. IndicesAgree /\ CeremonyKeysAreCurrent
  BY RegistryAssumption, Zenon
     DEF RegistryAssumption, RegistryInit, IndicesAgree, CeremonyKeysAreCurrent, EmptySnapshot
<1> QED BY <1>1, <1>2, Zenon DEF RegistryInv

\* Every step keeps the invariant.
LEMMA RegistryStep == RegistryInv /\ [RegistryNext]_registryVars => RegistryInv'
<1> SUFFICES ASSUME RegistryInv, [RegistryNext]_registryVars PROVE RegistryInv'
  OBVIOUS
<1>1. ASSUME NEW v \in Validators, NEW k \in Keys, RegisterPallasKey(v, k)
      PROVE  RegistryInv'
  BY <1>1, RegisterKeeps DEF RegisterPallasKey, RegistryInv, RegistryTypeOK, round
<1>2. ASSUME NEW v \in Validators, NEW k \in Keys, CreateValidatorWithPallasKey(v, k)
      PROVE  RegistryInv'
  BY <1>2, RegisterKeeps DEF CreateValidatorWithPallasKey, RegistryInv, RegistryTypeOK, round
<1>3. ASSUME NEW v \in Validators, NEW k \in Keys, RotatePallasKey(v, k)
      PROVE  RegistryInv'
  <2> USE <1>3, RegistryAssumption DEF RegistryAssumption, RotatePallasKey, RotatePallasKeyCore
  <2>1. RegistryTypeOK'
    BY DEF RegistryInv, RegistryTypeOK, round
  <2>2. IndicesAgree'
    BY DEF RegistryInv, RegistryTypeOK, IndicesAgree
  <2>3. CeremonyKeysAreCurrent'
    BY DEF RegistryInv, RegistryTypeOK, CeremonyKeysAreCurrent, IsValidatorInPendingCeremony, round
  <2> QED BY <2>1, <2>2, <2>3 DEF RegistryInv
<1>4. CASE CreateVotingSession
  <2> USE <1>4 DEF CreateVotingSession, registry
  <2>1. RegistryTypeOK' /\ IndicesAgree'
    BY DEF RegistryInv, RegistryTypeOK, IndicesAgree
  <2>2. CeremonyKeysAreCurrent'
    BY KeysDiffer DEF RegistryInv, CeremonyKeysAreCurrent
  <2> QED BY <2>1, <2>2 DEF RegistryInv
<1>5. CASE RoundLeavesPending
  BY <1>5, Zenon DEF RoundLeavesPending, registry, RegistryInv, RegistryTypeOK, IndicesAgree, CeremonyKeysAreCurrent
<1>6. CASE ActiveSetChanges
  BY <1>6
  DEF ActiveSetChanges, registry, round, RegistryInv, RegistryTypeOK, IndicesAgree, CeremonyKeysAreCurrent
<1>7. ASSUME NEW v \in Validators, RemoveValidator(v)
      PROVE  RegistryInv'
  BY <1>7
  DEF RemoveValidator, registry, round, RegistryInv, RegistryTypeOK, IndicesAgree, CeremonyKeysAreCurrent
<1>8. CASE ReimportRegistry
  <2> USE <1>8, RegistryAssumption DEF RegistryAssumption, ReimportRegistry, round
  <2>1. RegistryTypeOK'
    BY DEF RegistryInv, RegistryTypeOK
  <2>2. \A k \in Keys, v \in Validators : key[v] = k => owner'[k] = v
    BY KeysDiffer DEF RegistryInv
  <2>3. IndicesAgree'
    BY <2>2 DEF RegistryInv, RegistryTypeOK, IndicesAgree
  <2>4. CeremonyKeysAreCurrent'
    BY DEF RegistryInv, CeremonyKeysAreCurrent
  <2> QED BY <2>1, <2>3, <2>4 DEF RegistryInv
<1>9. CASE UNCHANGED registryVars
  BY <1>9 DEF registryVars, registry, round, RegistryInv, RegistryTypeOK, IndicesAgree, CeremonyKeysAreCurrent
<1> QED BY <1>1, <1>2, <1>3, <1>4, <1>5, <1>6, <1>7, <1>8, <1>9 DEF RegistryNext

\* The conjunction of the registry's properties is an inductive invariant.
THEOREM RegistryInvariance == RegistrySpec => []RegistryInv
BY RegistryInitial, RegistryStep, PTL DEF RegistrySpec

\* The forward and reverse index describe the same registrations, whatever
\* validators register, are created or rotate and however often the chain is
\* exported and imported (SetPallasKey, DeletePallasKeyReverse, InitGenesis).
THEOREM RegistryConsistent == RegistrySpec => []IndicesAgree
BY RegistryInvariance, PTL DEF RegistryInv

\* A running ceremony's snapshot holds distinct, currently registered keys
\* (IsValidatorInPendingCeremony blocks rotation).
THEOREM SnapshotStaysCurrent == RegistrySpec => []CeremonyKeysAreCurrent
BY RegistryInvariance, PTL DEF RegistryInv

=============================================================================
