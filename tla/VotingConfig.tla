---------------------------- MODULE VotingConfig ----------------------------
(***************************************************************************)
(* The published voting configuration: which rounds a wallet may trust,    *)
(* under which election-authority key, and who attests them.  A dynamic    *)
(* file holds the PIR layout and one signed entry per round, a static file *)
(* the trusted keys.  The operators here decide what verifies and how one  *)
(* more signature is merged into a file, for the admin server and for the  *)
(* voting-config command alike.                                            *)
(*                                                                         *)
(* An Ed25519 signature is the pair of its key and the payload it covers:  *)
(* it verifies under that key and over that payload and nowhere else.  A   *)
(* hash is the value it hashes.  A round id, a key id or an ea_pk is a     *)
(* value; `malformed' ones are those the decoders refuse.                  *)
(***************************************************************************)
EXTENDS Integers, SequencesExt

CONSTANTS
    RoundIDs,      \* 64 lowercase hex characters; distinct in the first 12
    ElectionKeys   \* ea_pk values that decode to 32 bytes

AuthVersionV1 == 1
AuthVersionV2 == 2
Ed25519       == "ed25519"

ValidPolyLen(n) == n \in {2048, 4096}

\* A layout is [depth, tier0, tier1, poly]; the sum is taken in 64 bits.
ValidPIRLayout(layout) ==
    /\ layout.depth > 0
    /\ layout.tier0 + layout.tier1 = layout.depth
    /\ ValidPolyLen(layout.poly)

CanonicalPayloadV1(ea) == <<"v1", ea>>
CanonicalPayloadV2(r, ea, layout) == <<"v2", r, ea, layout>>

CanonicalPayload(version, r, ea, layout) ==
    IF version = AuthVersionV1 THEN CanonicalPayloadV1(ea)
                               ELSE CanonicalPayloadV2(r, ea, layout)

\* sig is [id, alg, by, over], key is [id, alg, pub].
SignatureMatches(sig, key, payload) ==
    /\ sig.alg = Ed25519
    /\ key.alg = Ed25519
    /\ sig.by = key.pub
    /\ sig.over = payload

\* hasValidSignature looks keys up by id; of two keys with one id the last
\* in the file counts.
TrustedKeyOf(trusted, id) ==
    {trusted[i] : i \in {j \in DOMAIN trusted :
        /\ trusted[j].id = id
        /\ \A k \in DOMAIN trusted : trusted[k].id = id => k <= j}}

\* Mutant: the payload is rebuilt from the file's layout alone.
VerifiesForAnyRound(r, entry, trusted, layout) ==
    \E i \in DOMAIN entry.sigs :
        \E key \in TrustedKeyOf(trusted, entry.sigs[i].id) :
            entry.sigs[i].by = key.pub

\* VerifyEntrySignatures: one signature of a trusted key is enough.
VerifyEntrySignatures(r, entry, trusted, layout) ==
    /\ entry.version \in {AuthVersionV1, AuthVersionV2}
    /\ entry.ea \in ElectionKeys
    /\ entry.version = AuthVersionV2 => ValidPIRLayout(layout)
    /\ \E i \in DOMAIN entry.sigs :
           \E key \in TrustedKeyOf(trusted, entry.sigs[i].id) :
               SignatureMatches(entry.sigs[i], key,
                   CanonicalPayload(entry.version, r, entry.ea, layout))

\* `wrapper' stands for the config_version and for non-empty endpoint lists.
ValidWrapper(cfg) ==
    /\ cfg.wrapper
    /\ ValidPIRLayout(cfg.layout)
    /\ DOMAIN cfg.rounds \subseteq RoundIDs

\* A static file must name its dynamic file and at least one key.
ValidStaticConfig(trusted) == trusted # <<>>

EveryRoundVerifies(cfg, trusted) ==
    \A r \in DOMAIN cfg.rounds :
        VerifyEntrySignatures(r, cfg.rounds[r], trusted, cfg.layout)

\* `voting-config verify', which CI runs on a pull request.
VerifyCommand(cfg, trusted) ==
    /\ ValidWrapper(cfg)
    /\ ValidStaticConfig(trusted)
    /\ EveryRoundVerifies(cfg, trusted)

-----------------------------------------------------------------------------
(* Merging signatures. *)

\* A signature replaces the one with its key id in place, or is appended.
MergeOneSignature(sigs, sig) ==
    IF \E i \in DOMAIN sigs : sigs[i].id = sig.id
    THEN [sigs EXCEPT ![SelectInSeq(sigs, LAMBDA s : s.id = sig.id)] = sig]
    ELSE Append(sigs, sig)

MergeSignatures(existing, incoming) ==
    FoldLeft(MergeOneSignature, existing, incoming)

\* The id a trusted key gives a signature: the claimed id when its key
\* matches, else that of the first key that does, else the claimed id.
ResolveSignatureKeyID(sig, trusted, payload) ==
    LET fits(key) == SignatureMatches(sig, key, payload) IN
    IF \/ \E i \in DOMAIN trusted : trusted[i].id = sig.id /\ fits(trusted[i])
       \/ \A i \in DOMAIN trusted : ~fits(trusted[i])
    THEN sig
    ELSE [sig EXCEPT !.id = trusted[SelectInSeq(trusted, fits)].id]

ResolveEntrySignatureKeyIDs(r, entry, trusted, layout) ==
    LET payload == CanonicalPayload(entry.version, r, entry.ea, layout) IN
    [entry EXCEPT !.sigs =
        [i \in DOMAIN entry.sigs |->
            ResolveSignatureKeyID(entry.sigs[i], trusted, payload)]]

Failed == [ok |-> FALSE]

\* mergeConfigPREntry: base's and the branch's signatures, then the incoming.
MergeConfigPREntry(cfg, trusted, r, entry, layout, preserved) ==
    LET own      == ResolveEntrySignatureKeyIDs(r, entry, trusted, cfg.layout)
        onBranch == [i \in DOMAIN preserved |->
                        IF preserved[i].version = entry.version
                        THEN ResolveEntrySignatureKeyIDs(
                                 r, preserved[i], trusted, cfg.layout)
                        ELSE preserved[i]]
        existing == (IF r \in DOMAIN cfg.rounds THEN <<cfg.rounds[r]>> ELSE <<>>)
                        \o onBranch
        kept     == FoldLeft(LAMBDA sigs, e :
                        IF e.version = AuthVersionV1 THEN sigs
                        ELSE MergeSignatures(sigs, e.sigs), <<>>, existing)
        merged   == [cfg EXCEPT !.rounds =
                        (r :> [own EXCEPT !.sigs = MergeSignatures(kept, own.sigs)])
                        @@ cfg.rounds]
    IN IF /\ ValidWrapper(cfg)
          /\ cfg.layout = layout
          /\ ValidStaticConfig(trusted)
          /\ \A i \in DOMAIN existing :
                /\ existing[i].ea = entry.ea
                /\ existing[i].version \in {AuthVersionV1, entry.version}
          /\ EveryRoundVerifies(merged, trusted)
       THEN [ok |-> TRUE, cfg |-> merged]
       ELSE Failed

\* `voting-config sign --merge': SignV2 and mergeEntry on a local file.
SignAndMerge(cfg, r, ea, key, layout) ==
    LET sig   == [id |-> key.id, alg |-> Ed25519, by |-> key.pub,
                  over |-> CanonicalPayloadV2(r, ea, layout)]
        fresh == [version |-> AuthVersionV2, ea |-> ea, sigs |-> <<sig>>]
        known == r \in DOMAIN cfg.rounds
        sigs  == IF known /\ cfg.rounds[r].version = AuthVersionV2
                 THEN MergeOneSignature(cfg.rounds[r].sigs, sig) ELSE <<sig>>
    IN IF /\ r \in RoundIDs
          /\ ea \in ElectionKeys
          /\ ValidPIRLayout(layout)
          /\ cfg.layout = layout
          /\ known => /\ cfg.rounds[r].ea = ea
                      /\ cfg.rounds[r].version \in {AuthVersionV1, AuthVersionV2}
       THEN [ok |-> TRUE,
             cfg |-> [cfg EXCEPT !.rounds =
                         (r :> [fresh EXCEPT !.sigs = sigs]) @@ cfg.rounds]]
       ELSE Failed

=============================================================================
