---------------------------- MODULE MCGovernance ----------------------------
(***************************************************************************)
(* What coordinators and operators do besides voting: coordinator actions, *)
(* the registry of Pallas keys, and the voting config's repository.  They  *)
(* share no state, so a behaviour runs one of them, chosen at the start,   *)
(* and the others rest.                                                    *)
(***************************************************************************)
EXTENDS CoordinatorActions, PallasRegistry, ConfigRepo

CONSTANTS
    Parts,                                    \* the components of a run
    acct1, acct2, acct3, e1, r1, r2, v1, v2,  \* coordinator actions
    val1, val2, val3, k1, k2, k3              \* the registry

VARIABLE part

allVars == <<part, vars, registryVars, repoVars>>

-----------------------------------------------------------------------------
(* Coordinator actions: three accounts, a 2-of-2 policy at first. *)
MCAccounts == {acct1, acct2, acct3}
MCInitialPolicy == [members |-> {acct1, acct2}, threshold |-> 2, min |-> 0]

Policy(ms, t) == [kind |-> "policy", members |-> ms, threshold |-> t, min |-> 1]
Send(n) == [kind |-> "send", to |-> acct3, amount |-> n]

\* Policies that drop a coordinator, add one without an account, or lower the
\* threshold (0 stands for the default); one that is not admissible.
MCPolicies == {Policy({acct1, acct2}, 0), Policy({acct2, acct3}, 2), Policy({acct1}, 2)}

MCPayloads ==
    MCPolicies \cup
    {Send(1), Send(2), [kind |-> "session"], [kind |-> "cancel"],
     [kind |-> "schedule", name |-> v1, replace |-> FALSE],
     [kind |-> "schedule", name |-> v2, replace |-> TRUE],
     [kind |-> "endorser", id |-> e1, address |-> acct3],
     [kind |-> "endorser", id |-> e1, address |-> Nothing]}

-----------------------------------------------------------------------------
(* The voting config: requests of managers, PIR updates, and the scenarios *)
(* that combine them with what people do to the repository.                *)

Layout1 == [depth |-> 3, tier0 |-> 1, tier1 |-> 2, poly |-> 2048]
Layout2 == [depth |-> 3, tier0 |-> 1, tier1 |-> 2, poly |-> 4096]
EaOf(r) == IF r = "r1" THEN "ea1" ELSE "ea2"

Sign(id, by, r, layout) ==
    [id |-> id, alg |-> Ed25519, by |-> by,
     over |-> CanonicalPayloadV2(r, EaOf(r), layout)]

RoundInput(r, sigs) ==
    [id |-> r, entry |-> [version |-> AuthVersionV2, ea |-> EaOf(r), sigs |-> sigs],
     hash |-> CanonicalPayloadV2(r, EaOf(r), Layout1)]

\* An honest request of `m', signed over Layout1.
Ask(m, server, batch, inputs) ==
    LET bare == [batch |-> batch, rounds |-> inputs, layout |-> Layout1, server |-> server]
    IN bare @@ [auth |-> [signer |-> m, by |-> m, time |-> 0, covers |-> Intent(bare)]]

First(r)  == RoundInput(r, <<Sign("k1", "key1", r, Layout1)>>)
Second(r) == RoundInput(r, <<Sign("alias", "key2", r, Layout1)>>)
Stale(r)  == RoundInput(r, <<Sign("k2", "key2", r, Layout2)>>)

MCRequests ==
    [first  |-> Ask("m1", "s1", FALSE, <<First("r1")>>),
     second |-> Ask("m2", "s1", FALSE, <<Second("r1")>>),
     other  |-> Ask("m2", "s2", FALSE, <<Second("r1")>>),
     batch  |-> Ask("m1", "s2", TRUE, <<First("r1"), First("r2")>>),
     stale  |-> Ask("m2", "s1", FALSE, <<Stale("r2")>>),
     unset  |-> [Ask("m1", "s1", FALSE, <<First("r2")>>) EXCEPT !.layout.poly = 1024]]

MCUpdates ==
    [up   |-> [config |-> [height |-> 10, tag |-> "v1"], by |-> "coord", scope |-> "prod", server |-> "s1"],
     same |-> [config |-> [height |-> 10, tag |-> "v1"], by |-> "coord", scope |-> "prod", server |-> "s2"],
     next |-> [config |-> [height |-> 20, tag |-> "v1"], by |-> "coord", scope |-> "prod", server |-> "s2"],
     odd  |-> [config |-> [height |-> 20, tag |-> "v1"], by |-> "coord", scope |-> "stage", server |-> "s1"]]

\* Two managers sign the same round through two servers.
RaceScenarios == {[clients |-> {"first", "other"}, tries |-> 2, events |-> {}]}

MCScenarios ==
    {[clients |-> {"first", "second"}, tries |-> 2, events |-> {"close", "delete", "tick", "demote"}],
     [clients |-> {"first", "other"},  tries |-> 2, events |-> {"close"}],
     [clients |-> {"first", "other"},  tries |-> 1, events |-> {"delete", "layout"}],
     [clients |-> {"batch", "other"},  tries |-> 1, events |-> {"sign", "trust", "delete"}],
     [clients |-> {"stale", "unset"},  tries |-> 2, events |-> {"layout"}],
     [clients |-> {"up", "same"},      tries |-> 2, events |-> {"close", "delete", "republish"}],
     [clients |-> {"up", "next"},      tries |-> 1, events |-> {"republish", "layout"}],
     [clients |-> {"odd"},             tries |-> 1, events |-> {}]}

Key1 == [id |-> "k1", alg |-> Ed25519, pub |-> "key1"]
Key2 == [id |-> "k2", alg |-> Ed25519, pub |-> "key2"]
Key3 == [id |-> "k3", alg |-> Ed25519, pub |-> "key3"]
MCHumanKeys == {Key3}

Legacy == [version |-> AuthVersionV1, ea |-> "ea2",
           sigs |-> <<[id |-> "k1", alg |-> Ed25519, by |-> "key1", over |-> CanonicalPayloadV1("ea2")]>>]
Genesis(entries) ==
    [dynamic |-> [wrapper |-> TRUE, layout |-> Layout1, rounds |-> entries],
     static  |-> <<Key1, Key2>>,
     pir     |-> [config |-> [height |-> 10, tag |-> "v0"],
                  att |-> [payload |-> [config |-> [height |-> 10, tag |-> "v0"], artifacts |-> 0],
                           by |-> "coord", scope |-> "prod"]]]
MCStartingMain == {Genesis("r2" :> Legacy)}

-----------------------------------------------------------------------------

MCInit ==
    /\ part \in Parts
    /\ Init /\ (part # "coordinators" => eligible = 0)
    /\ RegistryInit /\ (part # "registry" => staked = {})
    /\ IF part = "config" THEN RepoInit
       ELSE RepoStart(CHOOSE m \in StartingMain : TRUE, CHOOSE s \in Scenarios : TRUE)

MCNext ==
    \/ part = "coordinators" /\ Next /\ UNCHANGED <<part, registryVars, repoVars>>
    \/ part = "registry" /\ RegistryNext /\ UNCHANGED <<part, vars, repoVars>>
    \/ part = "config" /\ RepoNext /\ UNCHANGED <<part, vars, registryVars>>

\* FilesAreAuthorised, where the repository steps: no commit of main or of a
\* server's branch holds an entry or a pir.json that was not authorised.
ConfigFilesAuthorised == part = "config" => FilesAreAuthorised

\* What the answer to a config request promised is still there: its signatures
\* and its acknowledgments (createConfigPR).
ConfigRequestsKept == part = "config" => AcceptedSignaturesKept /\ AcknowledgmentsKept

MCSpec == MCInit /\ [][MCNext]_allVars

=============================================================================
