---------------------------- MODULE MCAdmission -----------------------------
(***************************************************************************)
(* Instances for the way of transactions into the chain, and for the       *)
(* store they are executed on.  Each scenario of the first is a committed  *)
(* state with a few transactions that compete in it.  The two components   *)
(* share no variable; part says which one this behaviour is about, and the *)
(* other stays where it began.                                             *)
(***************************************************************************)
EXTENDS TxPath, VoteStore

VARIABLE part

\* A transaction with nothing in it, to be completed.
Blank(id, tag) ==
    [id |-> id, tag |-> tag, parses |-> TRUE, canonical |-> TRUE, sized |-> TRUE,
     complete |-> TRUE, authorised |-> TRUE, creator |-> "", size |-> 1,
     gov |-> <<>>, van |-> "", votes |-> <<>>, meant |-> <<>>,
     share |-> [nf |-> "", of |-> "", p |-> 1, decision |-> 0, enc |-> 1, anchor |-> 1],
     messages |-> 1, inner |-> "endorse", handled |-> TRUE]

Vote(note, new, vc, p, anchor) ==
    [note |-> note, new |-> new, vc |-> vc, p |-> p, anchor |-> anchor, sized |-> TRUE, sig |-> <<>>]

SignedCast(id, vote) ==
    [Blank(id, "cast") EXCEPT
        !.votes = <<[vote EXCEPT !.sig = ComputeCastVoteSighash(vote)]>>,
        !.meant = Effects(<<vote>>)]

\* The votes of a batch that was signed as a whole, of which the first n are sent.
SignedBatch(id, votes, n) ==
    LET digest == ComputeCastVoteBatchSighash(votes) IN
    [Blank(id, "batch") EXCEPT
        !.votes = [i \in 1 .. n |-> [votes[i] EXCEPT !.sig = digest]],
        !.meant = Effects(votes),
        !.size = 2]

Composite(id, gov, van, votes) ==
    LET digest == ComputeDelegateAndCastVoteBatchSighash(van, votes) IN
    [Blank(id, "composite") EXCEPT
        !.gov = gov, !.van = van,
        !.votes = [i \in 1 .. Len(votes) |-> [votes[i] EXCEPT !.sig = digest]],
        !.meant = Effects(votes),
        !.size = 2]

Delegation(id, gov, van) == [Blank(id, "delegate") EXCEPT !.gov = gov, !.van = van]

Share(id, nf, of, anchor) ==
    [Blank(id, "share") EXCEPT !.share.nf = nf, !.share.of = of, !.share.anchor = anchor]

Injected(id, tag, creator) == [Blank(id, tag) EXCEPT !.creator = creator]

CeremonyDone == {"contribute", "ack"} \X Validators

Round(status, leaves, done) ==
    [status |-> status, expired |-> status = "TALLYING", spent |-> {}, leaves |-> leaves,
     roots |-> IF leaves = {} THEN <<>> ELSE <<leaves>>, tally |-> <<>>, done |-> done, height |-> 1]

TwoVotes == <<Vote("n0", "n1", "vc1", 1, 1), Vote("n1", "n2", "vc2", 2, 1)>>

\* A running node: every call and restart is still to come, or all are spent.
Running(chainState, txs, callsLeft, restartsLeft) ==
    [chain |-> chainState, txs |-> txs, warmup |-> "ready", keepInvalid |-> FALSE,
     calls |-> MaxCalls - callsLeft, restarts |-> MaxRestarts - restartsLeft]

\* One note, cast alone, in a batch, in a batch sent without its second vote,
\* and in a cast for a proposal the round does not have.
Casting ==
    Running(Round("ACTIVE", {"n0"}, CeremonyDone),
            {SignedCast("cast", Vote("n0", "n3", "vc3", 1, 1)),
             SignedBatch("batch", TwoVotes, 2),
             SignedBatch("truncated", TwoVotes, 1),
             SignedCast("nowhere", Vote("n0", "n4", "vc4", 3, 1))},
            1, 0)

\* The same governance nullifier delegated alone and in a composite, a cast of
\* the delegated note once a root covers it, and a composite with other bytes.
Delegating ==
    LET composite == Composite("composite", <<"g">>, "w", <<Vote("w", "w1", "vw", 1, 0)>>) IN
    Running(Round("ACTIVE", {}, CeremonyDone),
            {Delegation("delegate", <<"g">>, "n0"),
             composite,
             [composite EXCEPT !.id = "reencoded", !.canonical = FALSE],
             SignedCast("cast", Vote("n0", "n1", "vc1", 1, 2))},
            1, 0)

\* Two submissions of one share, another share, and one with a bad field.
Revealing ==
    Running(Round("ACTIVE", {"vc1"}, CeremonyDone),
            {Share("share", "s1", "vc1", 1), Share("again", "s1", "vc1", 1),
             Share("other", "s2", "vc1", 1),
             [Share("bad", "s3", "vc1", 1) EXCEPT !.sized = FALSE]},
            0, 1)

\* A share, one for an option its proposal does not have, and one that would
\* bring the accumulator to the identity; the commitments fix what each reveals.
Refusing ==
    Running(Round("ACTIVE", {"vc1", "vc2"}, CeremonyDone),
            {Share("share", "s1", "vc1", 1),
             [Share("option", "s2", "vc2", 1) EXCEPT !.share.decision = 2],
             [Share("inverse", "s3", "vc1", 1) EXCEPT !.share.enc = 2]},
            1, 0)

\* The same at a node whose CometBFT keeps invalid transactions in its cache.
Keeping(scenario) == [scenario EXCEPT !.keepInvalid = TRUE]

\* The key ceremony once the other validator has contributed.
Keying ==
    Running(Round("REGISTERING", {}, {<<"contribute", Rival>>}),
            {Injected("c1", "contribute", Me), Injected("c2", "contribute", Rival),
             Injected("a1", "ack", Me), Injected("a2", "ack", Rival)},
            0, 0)

\* The end of a round once the other validator has decrypted.
Tallying ==
    Running(Round("TALLYING", {"vc1"}, CeremonyDone \cup {<<"partial", Rival>>}),
            {Injected("p1", "partial", Me), Injected("p2", "partial", Rival),
             Injected("t1", "tally", Me), Injected("t2", "tally", Rival),
             Share("late", "s1", "vc1", 1)},
            0, 0)

\* Standard transactions: one message of a permitted kind, two messages, a
\* message that has its own wire format, a registration by no validator, and one
\* that its handler refuses.
Standard ==
    Running(Round("ACTIVE", {"n0"}, CeremonyDone),
            {Blank("plain", "standard"),
             [Blank("double", "standard") EXCEPT !.messages = 2],
             [Blank("wrapped", "standard") EXCEPT !.inner = "cast"],
             [Blank("outsider", "standard") EXCEPT !.inner = "register"],
             [Blank("refused", "standard") EXCEPT !.handled = FALSE]},
            0, 0)

\* A node that has just started, with one cast and a standard transaction.
Starting ==
    [Running(Round("ACTIVE", {"n0"}, CeremonyDone),
             {Blank("plain", "standard"),
              SignedCast("cast", Vote("n0", "n3", "vc3", 1, 1))},
             1, 1) EXCEPT !.warmup = "not_started"]

MCScenarios == {Casting, Delegating, Revealing, Refusing, Keeping(Refusing), Keying,
                Tallying, Standard, Starting, Keeping(Starting)}

\* No limit, and one that a batch or two small transactions fill.
MCMaxTxBytes == {-1, 2}

-----------------------------------------------------------------------------
(* The store.                                                              *)

MCRoundIDs    == {<<0, 31>>, <<31, 31>>}
MCNullifiers  == {<<0>>}
MCOperators   == {<<9>>, <<9, 31>>}
MCPallasKeys  == {<<31>>, <<7>>}
MCEndorserIDs == {<<9>>, <<9, 31>>}
MCFirstShare  == <<30, 31, <<31>>>>

-----------------------------------------------------------------------------

AdmissionInit ==
    \/ part = "path"  /\ TxInit /\ StoreStart({})
    \/ part = "store" /\ TxStart(Starting) /\ StoreInit

AdmissionNext ==
    \/ part = "path"  /\ TxNext    /\ UNCHANGED <<part, storeVars>>
    \/ part = "store" /\ StoreNext /\ UNCHANGED <<part, txVars>>

\* In every reachable store each prefix scan and counter of the keeper yields
\* exactly what its messages stored (ScansAreExact of VoteStore).
StoreScansExact == part = "store" => ScansAreExact

\* In every reachable store InitGenesis of ExportGenesis restores what the
\* keeper's readers see (GenesisRoundTrip of VoteStore).
StoreRoundTrips == part = "store" => GenesisRoundTrip

AdmissionSpec == AdmissionInit /\ [][AdmissionNext]_<<part, txVars, storeVars>>

=============================================================================
