----------------------------- MODULE VoteStore -----------------------------
(***************************************************************************)
(* The vote module's state as the bytes the keeper writes: the message     *)
(* handlers write entries under the keys of VoteKeys, everything the       *)
(* module reads as a collection is a scan of that one flat space, and      *)
(* genesis export takes the space apart into typed lists that the import   *)
(* of another chain puts together again.                                   *)
(*                                                                         *)
(* Values are opaque except where the module reads them back: a ciphertext *)
(* is the set of shares added into it, a partial decryption the validator  *)
(* it came from.  sent records what the accepted messages said, so that    *)
(* what is read can be compared with what was written.                     *)
(***************************************************************************)
EXTENDS VoteKeys, FiniteSets, FiniteSetsExt, Functions, TLC

CONSTANTS
    RoundIDs,     \* ids of the rounds the chain starts with
    Nullifiers,   \* nullifiers, as bytes
    Proposals, Decisions, Indices,   \* numbers used in keys
    Operators, PallasKeys,           \* validator addresses and keys, as bytes
    EndorserIDs, Addresses,          \* endorser ids, as bytes, and addresses
    FirstShare,   \* proposal, decision and nullifier of a share already revealed
    MaxMessages,  \* how many messages are executed
    MaxHeight     \* how many blocks end

VARIABLES kv, height, messages, sent

storeVars == <<kv, height, messages, sent>>

Slots == Proposals \X Decisions

Put(store, key, val) == (key :> val) @@ store
Has(store, key)      == key \in DOMAIN store
Drop(store, key)     == [k \in DOMAIN store \ {key} |-> store[k]]

-----------------------------------------------------------------------------
(* Readers.                                                                *)

IterateAllRounds(store) ==
    LET keys == Scan(store, VoteRoundPrefix)
    IN  [i \in 1 .. Len(keys) |-> store[keys[i]]]

GetCommitmentTreeState(store, r) ==
    IF Has(store, RoundTreeStateKey(r)) THEN store[RoundTreeStateKey(r)]
    ELSE [next |-> 0, rooted |-> 0, height |-> 0]

GetShareCount(store, r, p, d) ==
    IF Has(store, ShareCountKey(r, p, d)) THEN store[ShareCountKey(r, p, d)] ELSE 0

\* The decision is the last field of the key.
GetProposalTally(store, r, p) ==
    LET keys == Scan(store, TallyPrefixForProposal(r, p))
        DecisionOf(k) == FromUint(From(k, Len(k) - 1))
    IN  [d \in {DecisionOf(k) : k \in ToSet(keys)} |->
            store[CHOOSE k \in ToSet(keys) : DecisionOf(k) = d]]

HasPartialDecryptionsFromValidator(store, r, v) ==
    Scan(store, PartialDecryptionPrefixForValidator(r, v)) # <<>>

\* Counts the changes of validator index along the scan.
CountPartialDecryptionValidators(store, r) ==
    LET keys == Scan(store, PartialDecryptionPrefixForRound(r))
        IndexOf(i) == FromUint(From(keys[i], RoundIDLen + 2))
    IN  Cardinality({i \in 1 .. Len(keys) : i = 1 \/ IndexOf(i) # IndexOf(i - 1)})

\* For each accumulator, the validators' entries in the order of the scan.
GetPartialDecryptionsForRound(store, r) ==
    LET keys == Scan(store, PartialDecryptionPrefixForRound(r))
        AccOf(k) == <<FromUint(From(k, RoundIDLen + 4)), FromUint(From(k, RoundIDLen + 6))>>
    IN  [acc \in {AccOf(k) : k \in ToSet(keys)} |->
            LET mine == SelectSeq(keys, LAMBDA k : AccOf(k) = acc)
            IN  [i \in 1 .. Len(mine) |-> <<FromUint(From(mine[i], RoundIDLen + 2)), store[mine[i]]>>]]

GetAllTallyResults(store, r) ==
    LET keys == Scan(store, TallyResultPrefixForRound(r))
    IN  {store[k] : k \in ToSet(keys)}

IterateAllPallasKeys(store) == {store[k] : k \in ToSet(Scan(store, PallasKeyPrefix))}

IterateEndorsers(store) ==
    {<<From(k, 2), store[k]>> : k \in ToSet(Scan(store, EndorserAddressPrefix))}

IterateEndorsedRounds(store, id) ==
    LET prefix == EndorsedRoundPrefixForID(id)
        keys == SelectSeq(Scan(store, prefix), LAMBDA k : Len(k) = Len(prefix) + RoundIDLen)
    IN  {From(k, Len(prefix) + 1) : k \in ToSet(keys)}

IterateCoordinatorActions(store) ==
    {store[k] : k \in ToSet(Scan(store, CoordinatorActionPrefix))}

GetNextCoordinatorActionID(store) ==
    IF Has(store, NextCoordinatorActionIDKey) THEN store[NextCoordinatorActionIDKey] ELSE 1

GetMinCeremonyValidators(store) ==
    IF Has(store, MinCeremonyValidatorsKey) THEN store[MinCeremonyValidatorsKey] ELSE 1

CollectNonEmptyAccumulators(store, r) ==
    {s \in Slots : s[2] \in DOMAIN GetProposalTally(store, r, s[1])}

-----------------------------------------------------------------------------
(* Genesis.                                                                *)

ExportRoundTree(store, r) ==
    LET Leaves == Scan(store, CommitmentLeafPrefixForRound(r))
        Roots  == Scan(store, CommitmentRootPrefixForRound(r))
        Blocks == Scan(store, BlockLeafIndexPrefixForRound(r))
        At(keys) == {<<FromUint(From(k, RoundIDLen + 3)), store[k]>> : k \in ToSet(keys)}
    IN  [id |-> r, state |-> GetCommitmentTreeState(store, r),
         leaves |-> At(Leaves), roots |-> At(Roots), blocks |-> At(Blocks)]

\* 0x01 || type || round || nullifier.
ExportNullifiers(store) ==
    {[type |-> k[2], round |-> SubSeq(k, 3, RoundIDLen + 2), nf |-> From(k, RoundIDLen + 3)] :
        k \in {x \in ToSet(Scan(store, NullifierPrefix)) : Len(x) >= RoundIDLen + 2}}

\* The endorser id ends at the first zero byte and a round id must follow.
ExportEndorsedRounds(store) ==
    LET keys == {k \in ToSet(Scan(store, EndorsedRoundPrefix)) : Len(k) >= RoundIDLen + 2}
        Zeros(k) == {i \in 2 .. Len(k) : k[i] = 0}
        Sep(k)   == CHOOSE i \in Zeros(k) : \A j \in Zeros(k) : i <= j
        Kept     == {k \in keys : Zeros(k) # {} /\ Sep(k) > 2 /\ Len(k) - Sep(k) = RoundIDLen}
    IN  {<<SubSeq(k, 2, Sep(k) - 1), From(k, Sep(k) + 1)>> : k \in Kept}

\* prefix || round || proposal || decision, of the accumulators and the counts.
ExportSlots(store, prefix) ==
    {[round |-> SubSeq(k, 2, RoundIDLen + 1), p |-> FromUint(From(k, RoundIDLen + 2)),
      d |-> FromUint(From(k, RoundIDLen + 4)), val |-> store[k]] :
        k \in {x \in ToSet(Scan(store, prefix)) : Len(x) >= RoundIDLen + 5}}

ExportTallyResults(store) == {store[k] : k \in ToSet(Scan(store, TallyResultPrefix))}

ExportPartialDecryptions(store) ==
    {[round |-> SubSeq(k, 2, RoundIDLen + 1), v |-> FromUint(From(k, RoundIDLen + 2)),
      p |-> FromUint(From(k, RoundIDLen + 4)), d |-> FromUint(From(k, RoundIDLen + 6)),
      val |-> store[k]] :
        k \in {x \in ToSet(Scan(store, PartialDecryptionPrefix)) : Len(x) >= RoundIDLen + 7}}

ExportGenesis(store) ==
    LET rounds == ToSet(IterateAllRounds(store))
        actions == IterateCoordinatorActions(store)
    IN  [managers    |-> store[VoteManagerSetKey],
         actions     |-> actions,
         nextAction  |-> IF Has(store, NextCoordinatorActionIDKey) \/ actions # {}
                         THEN GetNextCoordinatorActionID(store) ELSE 0,
         endorsers   |-> IterateEndorsers(store),
         endorsed    |-> ExportEndorsedRounds(store),
         minVals     |-> GetMinCeremonyValidators(store),
         rounds      |-> rounds,
         trees       |-> {ExportRoundTree(store, x.id) : x \in
                            {y \in rounds : GetCommitmentTreeState(store, y.id).next > 0}},
         nullifiers  |-> ExportNullifiers(store),
         results     |-> ExportTallyResults(store),
         pallas      |-> IterateAllPallasKeys(store),
         accumulators |-> ExportSlots(store, TallyPrefix),
         counts      |-> ExportSlots(store, ShareCountPrefix),
         partials    |-> ExportPartialDecryptions(store)]

\* ValidateGenesisState, as far as the lists can be wrong in themselves.
ValidateGenesisState(gs) ==
    LET Once(S, Field(_)) == \A x, y \in S : Field(x) = Field(y) => x = y
    IN  /\ \A x \in gs.rounds : Len(x.id) = RoundIDLen /\ x.voteEnd # 0
        /\ Once(gs.rounds, LAMBDA x : x.id)
        /\ \A x \in gs.nullifiers : x.type <= 2 /\ Len(x.round) = RoundIDLen /\ x.nf # <<>>
        /\ gs.managers # {}
        /\ \A x \in gs.results : Len(x.round) = RoundIDLen
        /\ \A x \in gs.pallas : x.val # <<>>
        /\ \A x \in gs.accumulators : Len(x.round) = RoundIDLen
        /\ \A x \in gs.counts : Len(x.round) = RoundIDLen
        /\ \A x \in gs.partials : Len(x.round) = RoundIDLen /\ x.v # 0
        /\ Once(gs.endorsers, LAMBDA x : x[1])
        /\ \A id \in {x[1] : x \in gs.endorsers} \cup {x[1] : x \in gs.endorsed} :
              id # <<>> /\ 0 \notin ToSet(id)
        /\ \A x \in gs.endorsed : Len(x[2]) = RoundIDLen
        /\ \A x \in gs.actions : x.id # 0
        /\ Once(gs.actions, LAMBDA x : x.id)
        /\ gs.nextAction # 0 => \A x \in gs.actions : x.id < gs.nextAction

\* Mutant: the tree state keeps the height its shards were written at.
TreeStateKept(state) == state

\* Shards are not exported: a tree with leaves is rebuilt from height zero.
ImportedTreeState(state) == IF state.next > 0 THEN [state EXCEPT !.height = 0] ELSE state

InitGenesis(gs) ==
    LET next  == IF gs.actions = {} THEN gs.nextAction
                 ELSE Max({gs.nextAction} \cup {x.id + 1 : x \in gs.actions})
        minVals == IF gs.minVals = 0 THEN 1 ELSE gs.minVals
        pairs ==
            {<<VoteRoundKey(x.id), x>> : x \in gs.rounds}
            \cup {<<RoundTreeStateKey(t.id), ImportedTreeState(t.state)>> : t \in gs.trees}
            \cup UNION {{<<CommitmentLeafKey(t.id, e[1]), e[2]>> : e \in t.leaves} : t \in gs.trees}
            \cup UNION {{<<CommitmentRootKey(t.id, e[1]), e[2]>> : e \in t.roots} : t \in gs.trees}
            \cup UNION {{<<BlockLeafIndexKey(t.id, e[1]), e[2]>> : e \in t.blocks} : t \in gs.trees}
            \cup {<<VoteManagerSetKey, gs.managers>>, <<MinCeremonyValidatorsKey, minVals>>}
            \cup {<<CoordinatorActionKey(x.id), x>> : x \in gs.actions}
            \cup (IF next = 0 THEN {} ELSE {<<NextCoordinatorActionIDKey, next>>})
            \cup {<<EndorserAddressKey(x[1]), x[2]>> : x \in gs.endorsers}
            \cup {<<EndorsedRoundKey(x[1], x[2]), 1>> : x \in gs.endorsed}
            \cup {<<NullifierKey(x.type, x.round, x.nf), 1>> : x \in gs.nullifiers}
            \cup {<<TallyResultKey(x.round, x.p, x.d), x>> : x \in gs.results}
            \cup {<<PallasKeyKey(x.val), x>> : x \in gs.pallas}
            \cup {<<PallasKeyReverseLookupKey(x.pk), x.val>> : x \in gs.pallas}
            \cup {<<TallyKey(x.round, x.p, x.d), x.val>> : x \in gs.accumulators}
            \cup {<<ShareCountKey(x.round, x.p, x.d), x.val>> : x \in gs.counts}
            \cup {<<PartialDecryptionKey(x.round, x.v, x.p, x.d), x.val>> : x \in gs.partials}
    IN  [k \in {x[1] : x \in pairs} |-> (CHOOSE x \in pairs : x[1] = k)[2]]

-----------------------------------------------------------------------------
(* The handlers.                                                           *)

NoMessages == [nullifiers |-> {}, shares |-> {}, partials |-> {}, results |-> {},
               endorsers |-> {}, endorsed |-> {}, pallas |-> {}, actions |-> 0]

StatusOf(r) == kv[VoteRoundKey(r)].status

\* One more executed message, which said what the record `said` now holds.
Executed(said) ==
    /\ messages < MaxMessages
    /\ messages' = messages + 1
    /\ sent' = said
    /\ UNCHANGED height

AppendCommitment(store, r, leaf) ==
    LET state == GetCommitmentTreeState(store, r)
    IN  Put(Put(store, CommitmentLeafKey(r, state.next), leaf),
            RoundTreeStateKey(r), [state EXCEPT !.next = @ + 1])

\* A share joins the ciphertext of its slot and the slot's count.
AddShare(store, r, p, d, nf) ==
    LET held == IF Has(store, TallyKey(r, p, d)) THEN store[TallyKey(r, p, d)] ELSE {}
        spent == Put(store, NullifierKey(NullifierTypeShare, r, nf), 1)
        added == Put(spent, TallyKey(r, p, d), held \cup {nf})
    IN  Put(added, ShareCountKey(r, p, d), GetShareCount(store, r, p, d) + 1)

DelegateVote(r, nf) ==
    /\ StatusOf(r) = "ACTIVE"
    /\ ~Has(kv, NullifierKey(NullifierTypeGov, r, nf))
    /\ kv' = AppendCommitment(Put(kv, NullifierKey(NullifierTypeGov, r, nf), 1), r, <<"van", nf>>)
    /\ Executed([sent EXCEPT !.nullifiers = @ \cup {<<NullifierTypeGov, r, nf>>}])

CastVote(r, nf) ==
    LET spent == Put(kv, NullifierKey(NullifierTypeVoteAuthorityNote, r, nf), 1)
    IN  /\ StatusOf(r) = "ACTIVE"
        /\ GetCommitmentTreeState(kv, r).rooted > 0
        /\ ~Has(kv, NullifierKey(NullifierTypeVoteAuthorityNote, r, nf))
        /\ kv' = AppendCommitment(AppendCommitment(spent, r, <<"van", nf>>), r, <<"vc", nf>>)
        /\ Executed([sent EXCEPT !.nullifiers =
                        @ \cup {<<NullifierTypeVoteAuthorityNote, r, nf>>}])

RevealShare(r, p, d, nf) ==
    /\ StatusOf(r) = "ACTIVE"
    /\ ~Has(kv, NullifierKey(NullifierTypeShare, r, nf))
    /\ kv' = AddShare(kv, r, p, d, nf)
    /\ Executed([sent EXCEPT !.nullifiers = @ \cup {<<NullifierTypeShare, r, nf>>},
                             !.shares = @ \cup {<<r, p, d, nf>>}])

\* One entry for every accumulator that holds a share.
SubmitPartialDecryption(r, v) ==
    LET accs == CollectNonEmptyAccumulators(kv, r)
        keys == {PartialDecryptionKey(r, v, s[1], s[2]) : s \in accs}
    IN  /\ StatusOf(r) = "TALLYING"
        /\ accs # {}
        /\ ~HasPartialDecryptionsFromValidator(kv, r, v)
        /\ kv' = [k \in keys |-> <<"partial", v>>] @@ kv
        /\ Executed([sent EXCEPT !.partials = @ \cup {<<r, v, s[1], s[2]>> : s \in accs}])

SubmitTally(r) ==
    LET results == {[round |-> r, p |-> s[1], d |-> s[2]] : s \in CollectNonEmptyAccumulators(kv, r)}
        keys == {TallyResultKey(r, x.p, x.d) : x \in results}
    IN  /\ StatusOf(r) = "TALLYING"
        /\ CountPartialDecryptionValidators(kv, r) >= 1
        /\ kv' = Put([k \in keys |-> CHOOSE x \in results : TallyResultKey(r, x.p, x.d) = k] @@ kv,
                     VoteRoundKey(r), [kv[VoteRoundKey(r)] EXCEPT !.status = "FINALIZED"])
        /\ Executed([sent EXCEPT !.results = @ \cup results])

RegisterPallasKey(val, pk) ==
    /\ ~Has(kv, PallasKeyKey(val)) /\ ~Has(kv, PallasKeyReverseLookupKey(pk))
    /\ kv' = Put(Put(kv, PallasKeyKey(val), [val |-> val, pk |-> pk]),
                 PallasKeyReverseLookupKey(pk), val)
    /\ Executed([sent EXCEPT !.pallas = @ \cup {[val |-> val, pk |-> pk]}])

RotatePallasKey(val, pk) ==
    /\ Has(kv, PallasKeyKey(val)) /\ ~Has(kv, PallasKeyReverseLookupKey(pk))
    /\ LET old == kv[PallasKeyKey(val)]
       IN  /\ kv' = Put(Put(Drop(kv, PallasKeyReverseLookupKey(old.pk)),
                            PallasKeyKey(val), [val |-> val, pk |-> pk]),
                        PallasKeyReverseLookupKey(pk), val)
           /\ Executed([sent EXCEPT !.pallas = (@ \ {old}) \cup {[val |-> val, pk |-> pk]}])

\* An action below its threshold stays pending under the next id.
ProposeCoordinatorAction ==
    LET id == GetNextCoordinatorActionID(kv)
    IN  /\ kv' = Put(Put(kv, NextCoordinatorActionIDKey, id + 1),
                     CoordinatorActionKey(id), [id |-> id, status |-> "PENDING"])
        /\ Executed([sent EXCEPT !.actions = @ + 1])

SetEndorser(id, a) ==
    /\ kv' = Put(kv, EndorserAddressKey(id), a)
    /\ Executed([sent EXCEPT !.endorsers = {x \in @ : x[1] # id} \cup {<<id, a>>}])

DeleteEndorser(id) ==
    /\ Has(kv, EndorserAddressKey(id))
    /\ kv' = Drop(kv, EndorserAddressKey(id))
    /\ Executed([sent EXCEPT !.endorsers = {x \in @ : x[1] # id}])

EndorseRound(id, r) ==
    /\ Has(kv, EndorserAddressKey(id))
    /\ kv' = Put(kv, EndorsedRoundKey(id, r), 1)
    /\ Executed([sent EXCEPT !.endorsed = @ \cup {<<id, r>>}])

ClearEndorsement(id, r) ==
    /\ Has(kv, EndorserAddressKey(id))
    /\ kv' = Drop(kv, EndorsedRoundKey(id, r))
    /\ Executed([sent EXCEPT !.endorsed = @ \ {<<id, r>>}])

\* The root of an active round's tree, when it changed, with its index entry;
\* the tree library saves its shard while computing it.
RootAtHeight(store, r, h) ==
    LET state == GetCommitmentTreeState(store, r)
        index == <<state.rooted, state.next - state.rooted>>
        new   == [next |-> state.next, rooted |-> state.next, height |-> h]
    IN  IF store[VoteRoundKey(r)].status # "ACTIVE" \/ state.next = 0 THEN store
        ELSE LET shard == Put(store, ShardKey(r, 0), state.next)
             IN  IF state.next = state.rooted THEN shard
                 ELSE Put(Put(Put(shard, CommitmentRootKey(r, h), state.next),
                              BlockLeafIndexKey(r, h), index),
                          RoundTreeStateKey(r), new)

\* Roots first, then the rounds whose voting has ended begin to be tallied.
EndBlock(expired) ==
    LET Closed(store, r) ==
            IF r \in expired /\ store[VoteRoundKey(r)].status = "ACTIVE"
            THEN Put(store, VoteRoundKey(r), [store[VoteRoundKey(r)] EXCEPT !.status = "TALLYING"])
            ELSE store
        ids == InKeyOrder(RoundIDs)
        rooted == FoldLeft(LAMBDA st, r : RootAtHeight(st, r, height + 1), kv, ids)
    IN  /\ height < MaxHeight
        /\ height' = height + 1
        /\ kv' = FoldLeft(Closed, rooted, ids)
        /\ UNCHANGED <<messages, sent>>

\* A new chain starts from the exported genesis of this one.
ExportAndImport ==
    /\ \E gs \in {ExportGenesis(kv)} : ValidateGenesisState(gs) /\ kv' = InitGenesis(gs)
    /\ UNCHANGED <<height, messages, sent>>

\* A chain in mid-vote: every round holds one share, of the same nullifier
\* and in the same slot, and the voting of some rounds has ended.
StoreStart(tallied) ==
    /\ LET p == FirstShare[1]
           d == FirstShare[2]
           first == FirstShare[3]
           base == (VoteManagerSetKey :> {"manager"}) @@ (MinCeremonyValidatorsKey :> 1)
                   @@ [k \in {VoteRoundKey(r) : r \in RoundIDs} |->
                         LET r == CHOOSE x \in RoundIDs : VoteRoundKey(x) = k
                         IN  [id |-> r, voteEnd |-> 1,
                              status |-> IF r \in tallied THEN "TALLYING" ELSE "ACTIVE"]]
       IN  /\ kv = FoldLeft(LAMBDA st, r : AddShare(st, r, p, d, first), base,
                            InKeyOrder(RoundIDs))
           /\ sent = [NoMessages EXCEPT
                         !.nullifiers = {<<NullifierTypeShare, r, first>> : r \in RoundIDs},
                         !.shares = {<<r, p, d, first>> : r \in RoundIDs}]
    /\ height = 0
    /\ messages = 0

StoreInit == \E tallied \in SUBSET RoundIDs : StoreStart(tallied)

StoreNext ==
    \/ \E r \in RoundIDs, nf \in Nullifiers : DelegateVote(r, nf) \/ CastVote(r, nf)
    \/ \E r \in RoundIDs, p \in Proposals, d \in Decisions, nf \in Nullifiers :
          RevealShare(r, p, d, nf)
    \/ \E r \in RoundIDs, v \in Indices : SubmitPartialDecryption(r, v)
    \/ \E r \in RoundIDs : SubmitTally(r)
    \/ \E val \in Operators, pk \in PallasKeys :
          RegisterPallasKey(val, pk) \/ RotatePallasKey(val, pk)
    \/ ProposeCoordinatorAction
    \/ \E id \in EndorserIDs, a \in Addresses : SetEndorser(id, a)
    \/ \E id \in EndorserIDs : DeleteEndorser(id)
    \/ \E id \in EndorserIDs, r \in RoundIDs : EndorseRound(id, r) \/ ClearEndorsement(id, r)
    \/ \E expired \in SUBSET RoundIDs : EndBlock(expired)
    \/ ExportAndImport

-----------------------------------------------------------------------------

\* Every collection the module reads by scanning a prefix is exactly what the
\* accepted messages put there: no scan ends early and none runs into the
\* entries of another round, proposal, validator or endorser, whatever bytes
\* their ids are made of (the iterators of keeper.go, keeper_tally.go,
\* keeper_partial_decrypt.go, keeper_endorsers.go, keeper_pallas_registry.go).
ScansAreExact ==
    /\ {x.id : x \in ToSet(IterateAllRounds(kv))} = RoundIDs
    /\ \A r \in RoundIDs, p \in Proposals :
          LET tally == GetProposalTally(kv, r, p)
              Shares(d) == {s \in sent.shares : s[1] = r /\ s[2] = p /\ s[3] = d}
          IN  /\ DOMAIN tally = {d \in Decisions : Shares(d) # {}}
              /\ \A d \in Decisions : GetShareCount(kv, r, p, d) = Cardinality(Shares(d))
              /\ \A d \in DOMAIN tally : tally[d] = {s[4] : s \in Shares(d)}
    /\ \A r \in RoundIDs :
          LET mine == {x \in sent.partials : x[1] = r}
              read == GetPartialDecryptionsForRound(kv, r)
          IN  /\ CountPartialDecryptionValidators(kv, r) = Cardinality({x[2] : x \in mine})
              /\ DOMAIN read = {<<x[3], x[4]>> : x \in mine}
              /\ \A s \in DOMAIN read :
                    ToSet(read[s]) = {<<x[2], <<"partial", x[2]>>>> :
                                        x \in {y \in mine : <<y[3], y[4]>> = s}}
              /\ GetAllTallyResults(kv, r) = {x \in sent.results : x.round = r}
    /\ \A id \in EndorserIDs :
          IterateEndorsedRounds(kv, id) = {x[2] : x \in {y \in sent.endorsed : y[1] = id}}
    /\ IterateEndorsers(kv) = sent.endorsers
    /\ IterateAllPallasKeys(kv) = sent.pallas
    /\ {x.id : x \in IterateCoordinatorActions(kv)} = 1 .. sent.actions

\* What ExportGenesis writes always passes ValidateGenesisState, and a chain
\* started from it by InitGenesis holds every entry of the old one except
\* the tree shards, which it must not expect to find: a tree state whose
\* height says there are shards always has them.
GenesisRoundTrip ==
    LET gs   == ExportGenesis(kv)
        new  == InitGenesis(gs)
        kept == DOMAIN kv \ {ShardKey(r, 0) : r \in RoundIDs}
    IN  /\ ValidateGenesisState(gs)
        /\ DOMAIN new = kept
        /\ \A k \in kept \ {RoundTreeStateKey(r) : r \in RoundIDs} : new[k] = kv[k]
        /\ \A r \in RoundIDs :
              LET old == GetCommitmentTreeState(kv, r)
                  cur == GetCommitmentTreeState(new, r)
              IN  cur.next = old.next /\ cur.rooted = old.rooted
        /\ \A r \in RoundIDs :
              GetCommitmentTreeState(kv, r).height > 0 => Has(kv, ShardKey(r, 0))

=============================================================================
