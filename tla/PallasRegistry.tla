--------------------------- MODULE PallasRegistry ---------------------------
(***************************************************************************)
(* The registry of validators' Pallas keys, kept as two indices in the     *)
(* key-value store: validator -> key and key -> validator.  A ceremony     *)
(* takes a snapshot of it when its round is created, and every key share   *)
(* of that ceremony is encrypted to the keys in the snapshot.              *)
(***************************************************************************)
EXTENDS FiniteSets

CONSTANTS
    Validators,  \* operator addresses
    Keys,        \* Pallas public keys: valid points other than the identity
    NoKey,       \* a validator that is not registered
    Nobody       \* a key that is not registered

ASSUME RegistryAssumption ==
    /\ NoKey \notin Keys
    /\ Nobody \notin Validators

VARIABLES
    staked,      \* validators that exist in x/staking
    active,      \* those that are bonded and not jailed
    key,         \* PallasKeyKey: forward index
    owner,       \* PallasKeyReverseLookupKey: reverse index
    inCeremony,  \* a round's ceremony is PENDING
    snap         \* its ceremony_validators, with the keys copied at creation

registry     == <<key, owner>>
round        == <<inCeremony, snap>>
registryVars == <<staked, active, registry, round>>

EmptySnapshot == [v \in Validators |-> NoKey]

RegistryInit ==
    /\ staked \in SUBSET Validators
    /\ active \in SUBSET staked
    /\ key = [v \in Validators |-> NoKey]
    /\ owner = [k \in Keys |-> Nobody]
    /\ inCeremony = FALSE
    /\ snap = EmptySnapshot

\* RegisterPallasKeyCore, including SetPallasKey's two writes.
RegisterPallasKeyCore(v, k) ==
    /\ key[v] = NoKey
    /\ owner[k] = Nobody
    /\ key' = [key EXCEPT ![v] = k]
    /\ owner' = [owner EXCEPT ![k] = v]

\* Any account may register; the operator address is derived from it.
RegisterPallasKey(v, k) ==
    /\ RegisterPallasKeyCore(v, k)
    /\ UNCHANGED <<staked, active, round>>

\* x/staking creates the validator and the key is registered, or neither.
CreateValidatorWithPallasKey(v, k) ==
    /\ v \notin staked
    /\ staked' = staked \cup {v}
    /\ RegisterPallasKeyCore(v, k)
    /\ UNCHANGED <<active, round>>

\* Mutant: no ceremony holds a snapshot.
NeverInCeremony(v) == FALSE

IsValidatorInPendingCeremony(v) == inCeremony /\ snap[v] # NoKey

\* Mutant: the old key's reverse entry is left behind.
RotateWithoutDelete(v, k) ==
    /\ key[v] # NoKey
    /\ key[v] # k
    /\ owner[k] = Nobody
    /\ owner' = [owner EXCEPT ![k] = v]
    /\ key' = [key EXCEPT ![v] = k]

RotatePallasKeyCore(v, k) ==
    /\ key[v] # NoKey
    /\ key[v] # k
    /\ owner[k] = Nobody
    /\ owner' = [owner EXCEPT ![key[v]] = Nobody, ![k] = v]
    /\ key' = [key EXCEPT ![v] = k]

RotatePallasKey(v, k) ==
    /\ ~IsValidatorInPendingCeremony(v)
    /\ RotatePallasKeyCore(v, k)
    /\ UNCHANGED <<staked, active, round>>

GetEligibleValidators == {v \in active : key[v] # NoKey}

\* executeCreateVotingSession's snapshot of the eligible validators.
CreateVotingSession ==
    /\ ~inCeremony
    /\ GetEligibleValidators # {}
    /\ inCeremony' = TRUE
    /\ snap' = [v \in Validators |->
                  IF v \in GetEligibleValidators THEN key[v] ELSE NoKey]
    /\ UNCHANGED <<staked, active, registry>>

\* The ceremony is confirmed or times out: the round leaves PENDING.
RoundLeavesPending ==
    /\ inCeremony
    /\ inCeremony' = FALSE
    /\ UNCHANGED <<staked, active, registry, snap>>

\* x/staking bonds, unbonds, jails or unjails validators.
ActiveSetChanges ==
    /\ active' \in SUBSET staked
    /\ UNCHANGED <<staked, registry, round>>

\* x/staking removes a fully unbonded validator; the registry keeps its key.
RemoveValidator(v) ==
    /\ v \in staked \ active
    /\ staked' = staked \ {v}
    /\ UNCHANGED <<active, registry, round>>

\* The chain starts again from its exported genesis: only the forward index is
\* exported, and SetPallasKey writes both for each of its entries.
ReimportRegistry ==
    /\ owner' = [k \in Keys |->
                   IF \E v \in Validators : key[v] = k
                   THEN CHOOSE v \in Validators : key[v] = k
                   ELSE Nobody]
    /\ UNCHANGED <<staked, active, key, round>>

RegistryNext ==
    \/ \E v \in Validators, k \in Keys : RegisterPallasKey(v, k)
    \/ \E v \in Validators, k \in Keys : CreateValidatorWithPallasKey(v, k)
    \/ \E v \in Validators, k \in Keys : RotatePallasKey(v, k)
    \/ CreateVotingSession
    \/ RoundLeavesPending
    \/ ActiveSetChanges
    \/ \E v \in Validators : RemoveValidator(v)
    \/ ReimportRegistry

RegistrySpec == RegistryInit /\ [][RegistryNext]_registryVars

-----------------------------------------------------------------------------
(* Properties. *)

\* The two indices and the ceremony's snapshot hold keys of validators, and
\* only staked validators are active (keeper_pallas_registry.go).
RegistryTypeOK ==
    /\ staked \in SUBSET Validators
    /\ active \in SUBSET staked
    /\ key \in [Validators -> Keys \cup {NoKey}]
    /\ owner \in [Keys -> Validators \cup {Nobody}]
    /\ inCeremony \in BOOLEAN
    /\ snap \in [Validators -> Keys \cup {NoKey}]

\* The two indices agree after any sequence of registrations, rotations and
\* genesis imports, so the uniqueness check on the reverse index is exact: a key
\* in use cannot be taken, and a key rotated away is free again.
IndicesAgree ==
    \A v \in Validators, k \in Keys : owner[k] = v <=> key[v] = k

\* While a ceremony runs, every participant's snapshotted key is its registered
\* one, and no two participants have the same: shares encrypted to the snapshot
\* can be opened by exactly one validator (RotatePallasKey's check).
CeremonyKeysAreCurrent ==
    inCeremony =>
        \A v \in Validators : snap[v] # NoKey =>
            /\ snap[v] = key[v]
            /\ \A w \in Validators \ {v} : snap[w] # snap[v]

=============================================================================
