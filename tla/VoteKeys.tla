------------------------------ MODULE VoteKeys ------------------------------
(***************************************************************************)
(* The layout of the vote module's key-value store (x/vote/types/keys.go): *)
(* every key is a string of bytes, one flat ordered space holds all kinds  *)
(* of entries, and everything that is read as a collection is read by a    *)
(* range scan from a prefix to PrefixEndBytes of it.                       *)
(*                                                                         *)
(* A byte is a number below Base, an integer field is two bytes with the   *)
(* most significant first, and a round id is RoundIDLen bytes; Base, the   *)
(* two bytes and RoundIDLen stand for 256, four or eight, and 32.          *)
(***************************************************************************)
EXTENDS Integers, Sequences, SequencesExt, FiniteSets

CONSTANTS Base, RoundIDLen

ASSUME KeyShape == Base \in Nat /\ Base > 25 /\ RoundIDLen \in Nat \ {0}

Uint(v)     == <<v \div Base, v % Base>>
FromUint(b) == b[1] * Base + b[2]

From(s, i)  == SubSeq(s, i, Len(s))

NullifierTypeGov == 0
NullifierTypeVoteAuthorityNote == 1
NullifierTypeShare == 2

NullifierPrefix        == <<1>>
VoteRoundPrefix        == <<4>>
TallyPrefix            == <<5>>
TallyResultPrefix      == <<7>>
VoteManagerSetKey      == <<10>>
ShareCountPrefix       == <<11>>
PallasKeyPrefix        == <<12>>
PartialDecryptionPrefix == <<18>>
MinCeremonyValidatorsKey == <<19>>
RoundTreePrefix        == <<20>>
PallasKeyReverseLookupPrefix == <<21>>
EndorserAddressPrefix  == <<22>>
EndorsedRoundPrefix    == <<23>>
CoordinatorActionPrefix == <<24>>
NextCoordinatorActionIDKey == <<25>>

NullifierKey(nfType, r, nf) == NullifierPrefix \o <<nfType>> \o r \o nf
RoundTreeKey(r)             == RoundTreePrefix \o r
CommitmentLeafPrefixForRound(r) == RoundTreeKey(r) \o <<2>>
CommitmentRootPrefixForRound(r) == RoundTreeKey(r) \o <<3>>
RoundTreeStateKey(r)        == RoundTreeKey(r) \o <<6>>
BlockLeafIndexPrefixForRound(r) == RoundTreeKey(r) \o <<8>>
CommitmentLeafKey(r, index) == CommitmentLeafPrefixForRound(r) \o Uint(index)
CommitmentRootKey(r, height) == CommitmentRootPrefixForRound(r) \o Uint(height)
BlockLeafIndexKey(r, height) == BlockLeafIndexPrefixForRound(r) \o Uint(height)
\* The shard blob the tree library keeps under the round's prefix.
ShardKey(r, index)          == RoundTreeKey(r) \o <<15>> \o Uint(index)
CoordinatorActionKey(id)    == CoordinatorActionPrefix \o Uint(id)
VoteRoundKey(r)             == VoteRoundPrefix \o r
TallyKey(r, p, d)           == TallyPrefix \o r \o Uint(p) \o Uint(d)
TallyPrefixForProposal(r, p) == TallyPrefix \o r \o Uint(p)
TallyResultKey(r, p, d)     == TallyResultPrefix \o r \o Uint(p) \o Uint(d)
TallyResultPrefixForRound(r) == TallyResultPrefix \o r
ShareCountKey(r, p, d)      == ShareCountPrefix \o r \o Uint(p) \o Uint(d)
PallasKeyKey(val)           == PallasKeyPrefix \o val
PallasKeyReverseLookupKey(pk) == PallasKeyReverseLookupPrefix \o pk
PartialDecryptionPrefixForRound(r) == PartialDecryptionPrefix \o r
PartialDecryptionPrefixForValidator(r, v) == PartialDecryptionPrefix \o r \o Uint(v)
PartialDecryptionKey(r, v, p, d) ==
    PartialDecryptionPrefixForValidator(r, v) \o Uint(p) \o Uint(d)
EndorserAddressKey(id)      == EndorserAddressPrefix \o id

EndorsedRoundPrefixForID(id) == EndorsedRoundPrefix \o id \o <<0>>

EndorsedRoundKey(id, r)     == EndorsedRoundPrefixForID(id) \o r

\* Mutant: the last byte is incremented without a carry, so a prefix that
\* ends in the largest byte has no end above it.
PrefixEndNoCarry(prefix) == [prefix EXCEPT ![Len(prefix)] = (@ + 1) % Base]

\* The smallest key above every key with this prefix: trailing largest bytes
\* are cut and the byte before them incremented; <<>> stands for no end.
PrefixEndBytes(prefix) ==
    LET low == {i \in 1 .. Len(prefix) : prefix[i] < Base - 1}
        i   == CHOOSE x \in low : \A y \in low : y <= x
    IN  IF low = {} THEN <<>> ELSE Append(SubSeq(prefix, 1, i - 1), prefix[i] + 1)

\* The order of keys in the store.
KeyBefore(a, b) ==
    \/ IsStrictPrefix(a, b)
    \/ \E i \in 1 .. Len(a) :
          /\ i <= Len(b)
          /\ a[i] < b[i]
          /\ \A j \in 1 .. i - 1 : a[j] = b[j]

InKeyOrder(keys) ==
    [i \in 1 .. Cardinality(keys) |->
        CHOOSE k \in keys : Cardinality({x \in keys : KeyBefore(x, k)}) = i - 1]

\* The keys of kv from start up to but without end, in order.
Iterator(kv, start, end) ==
    InKeyOrder({k \in DOMAIN kv : ~KeyBefore(k, start) /\ (end = <<>> \/ KeyBefore(k, end))})

Scan(kv, prefix) == Iterator(kv, prefix, PrefixEndBytes(prefix))

=============================================================================
