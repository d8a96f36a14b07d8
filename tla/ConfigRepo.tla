----------------------------- MODULE ConfigRepo -----------------------------
(***************************************************************************)
(* Admin servers that open pull requests against the shared repository of  *)
(* voting configurations.  Each handler makes a series of GitHub calls;    *)
(* between any two of them another server, a maintainer or a retried       *)
(* request may change the repository.  A server's mutex orders its own     *)
(* config requests and nothing else; what protects the file across servers *)
(* is the blob SHA that updateContent sends back.                          *)
(*                                                                         *)
(* GitHub is external: a ref names a commit, a commit its files, and a     *)
(* blob's SHA is its content.  A call either fails without an effect, or   *)
(* takes effect and its reply is heard or lost.                            *)
(***************************************************************************)
EXTENDS VotingConfig, FiniteSets, TLC

CONSTANTS
    Tokens,         \* those with a GitHub token configured
    Requests,       \* POST /api/config-prs: name |-> body, with its server
    Scenarios,      \* bound: [clients, tries, events], what happens in one behaviour,
                    \* with how many deliveries of a request
    Updates,        \* PIR updates: name |-> [config, by, scope, server]
    Scope,          \* the servers' environment: "prod" or "stage"
    PinnedKeys,     \* pirupdate/keys.json for that scope
    HumanKeys,      \* trusted keys an operator signs with locally
    NewLayout,      \* the layout a maintainer may move the file to
    StartingMain,   \* the commits main may start from
    TimestampWindow,\* 300 seconds
    MaxBatch,       \* maxConfigPRBatchRounds
    MaxClock,       \* bound: server time
    MaxEdits        \* bound: changes of main by maintainers

VARIABLES
    main,       \* the base branch's head: [dynamic, static, pir]
    branches,   \* branch |-> [files, fork, work], those that exist
    pulls,      \* branch |-> its open pull request: [number, acks, authors]
    lastPull,   \* the number of the last pull request
    makers,     \* history: which servers created which branch
    managers,   \* the chain's vote managers
    artifacts,  \* the release and snapshot currently published
    repoClock,  \* server time
    edits,      \* changes made by maintainers
    scenario,   \* the requests made, and the kinds of events around them
    call,       \* config request |-> its handler
    job         \* PIR update |-> its proposal and handler

github   == <<main, branches, pulls, lastPull, makers>>
world    == <<scenario, managers, artifacts, repoClock, edits>>
repoVars == <<github, world, call, job>>

Abs(n) == IF n < 0 THEN -n ELSE n

Names == DOMAIN Requests
Jobs  == DOMAIN Updates

-----------------------------------------------------------------------------
(* Requests: validation and authorisation. *)

\* body is [batch, rounds, layout, auth, server], each round [id, entry, hash].
IDs(body) == {body.rounds[i].id : i \in DOMAIN body.rounds}

\* branchName and batchBranchName: a batch is named by its set of ids.
BranchName(body) == [batch |-> body.batch, ids |-> IDs(body)]

ValidConfigPRRound(in, layout) ==
    /\ in.id \in RoundIDs
    /\ in.entry.version = AuthVersionV2
    /\ in.entry.ea \in ElectionKeys
    /\ in.entry.sigs # <<>>
    /\ \A i \in DOMAIN in.entry.sigs : in.entry.sigs[i].alg = Ed25519
    /\ in.hash = CanonicalPayloadV2(in.id, in.entry.ea, layout)

ValidCreateConfigPRRequest(body) ==
    /\ body.batch => /\ Len(body.rounds) <= MaxBatch
                     /\ Cardinality(IDs(body)) = Len(body.rounds)
    /\ ValidPIRLayout(body.layout)
    /\ \A i \in DOMAIN body.rounds : ValidConfigPRRound(body.rounds[i], body.layout)

\* auth is [signer, by, covers, time]: `by' made the ADR-036 signature, and
\* `covers' is the canonical intent: the action and, for each round, its id,
\* payload hash, entry hash and IMT acknowledgment.
Intent(body) ==
    [batch  |-> body.batch,
     rounds |-> [i \in DOMAIN body.rounds |-> [in |-> body.rounds[i], ack |-> TRUE]]]

VerifyArbitrarySignature(auth) == auth.by = auth.signer

AuthorizeConfigPRRequest(body) ==
    /\ body.auth.covers = Intent(body)
    /\ Abs(repoClock - body.auth.time) <= TimestampWindow
    /\ VerifyArbitrarySignature(body.auth)
    /\ body.auth.signer \in managers

\* One acknowledgment per signer, round and signed authorisation.
Acknowledgments(body) ==
    {<<body.auth.signer, body.rounds[i].id, body.rounds[i].hash>> :
        i \in DOMAIN body.rounds}

AppendIMTAcknowledgments(acks, body) == acks \cup Acknowledgments(body)

-----------------------------------------------------------------------------
(* The handler of POST /api/config-prs.  A call is [pc, tries, seen].  *)

Critical == {"ref", "create", "dynamic", "static", "branch", "update", "pull",
             "find", "patch"}
Blank == <<>>

Goto(q, pc) ==
    call' = [call EXCEPT ![q].pc = pc, ![q].seen = IF pc = "failed" THEN Blank ELSE @]
Learn(q, pc, new) == call' = [call EXCEPT ![q].pc = pc, ![q].seen = new @@ @]
Seen(q) == call[q].seen

\* The client gets the pull request's URL.
Answer(q, number) ==
    call' = [call EXCEPT ![q].pc = "answered", ![q].seen = [number |-> number]]

\* A write's reply is heard, or the handler fails although it took effect.
Reply(q, pc) == \E next \in {pc, "failed"} : Goto(q, next)

HandleCreateConfigPR(q) ==
    LET body == Requests[q] IN
    /\ q \in scenario.clients
    /\ call[q].pc \in {"new", "failed"}
    /\ call[q].tries < scenario.tries
    /\ call' = [call EXCEPT ![q] =
           [pc    |-> IF /\ body.server \in Tokens
                         /\ ValidCreateConfigPRRequest(body)
                         /\ AuthorizeConfigPRRequest(body)
                      THEN "waiting" ELSE "refused",
            tries |-> @.tries + 1,
            seen  |-> Blank]]
    /\ UNCHANGED <<github, world, job>>

EnterCreateConfigPR(q) ==
    /\ call[q].pc = "waiting"
    /\ \A p \in Names : Requests[p].server = Requests[q].server
                            => call[p].pc \notin Critical
    /\ Goto(q, "ref")
    /\ UNCHANGED <<github, world, job>>

GetRefSHA(q) ==
    /\ call[q].pc = "ref"
    /\ Learn(q, "create", [main |-> main])
    /\ UNCHANGED <<github, world, job>>

\* 422: the branch exists.  Anything else than success ends in FailCall.
CreateRef(q) ==
    LET b == BranchName(Requests[q]) IN
    /\ call[q].pc = "create"
    /\ \/ /\ b \in DOMAIN branches
          /\ Learn(q, "dynamic", [exists |-> TRUE])
          /\ UNCHANGED <<branches, makers>>
       \/ /\ b \notin DOMAIN branches
          /\ branches' = (b :> [files |-> Seen(q).main, fork |-> Seen(q).main,
                                work |-> "none"]) @@ branches
          /\ makers' = makers \cup {<<b, Requests[q].server>>}
          /\ \/ Learn(q, "dynamic", [exists |-> FALSE])
             \/ Goto(q, "failed")
    /\ UNCHANGED <<main, pulls, lastPull, world, job>>

GetDynamic(q) ==
    /\ call[q].pc = "dynamic"
    /\ Learn(q, "static", [dynamic |-> main.dynamic])
    /\ UNCHANGED <<github, world, job>>

GetStatic(q) ==
    /\ call[q].pc = "static"
    /\ Learn(q, "branch", [static |-> main.static])
    /\ UNCHANGED <<github, world, job>>

\* The fold of mergeConfigPREntry over the request's rounds, from base's file.
MergeRounds(body, base, static, branchCfg) ==
    FoldLeft(LAMBDA acc, in :
        IF ~acc.ok THEN acc
        ELSE MergeConfigPREntry(acc.cfg, static, in.id, in.entry, body.layout,
                 IF in.id \in DOMAIN branchCfg.rounds
                 THEN <<branchCfg.rounds[in.id]>> ELSE <<>>),
        [ok |-> TRUE, cfg |-> base], body.rounds)

NoRounds == [rounds |-> Blank]

\* Reads the branch's file, and merges.  Only a branch this request created
\* may have vanished again; base's file then stands in for it.
GetBranch(q) ==
    LET body   == Requests[q]
        b      == BranchName(body)
        onto   == IF b \in DOMAIN branches THEN branches[b].files.dynamic
                                           ELSE main.dynamic
        merged == MergeRounds(body, Seen(q).dynamic, Seen(q).static,
                              IF Seen(q).exists THEN onto ELSE NoRounds)
        fine   == /\ Seen(q).exists => /\ b \in DOMAIN branches
                                       /\ onto.layout = body.layout
                  /\ merged.ok
    IN /\ call[q].pc = "branch"
       /\ IF ~fine THEN Goto(q, "failed")
          ELSE Learn(q, IF merged.cfg = onto THEN "pull" ELSE "update",
                     [onto |-> onto, merged |-> merged.cfg])
       /\ UNCHANGED <<github, world, job>>

\* Mutant: the blob SHA is not sent, so the write is not conditional.
UpdateUnconditionally(q) ==
    LET b == BranchName(Requests[q]) IN
    /\ call[q].pc = "update"
    /\ b \in DOMAIN branches
    /\ branches' = [branches EXCEPT ![b].files.dynamic = Seen(q).merged,
                                    ![b].work = "new"]
    /\ Reply(q, "pull")
    /\ UNCHANGED <<makers, main, pulls, lastPull, world, job>>

\* GitHub refuses the write when the file is no longer the one read.
UpdateContent(q) ==
    LET b == BranchName(Requests[q]) IN
    /\ call[q].pc = "update"
    /\ IF b \in DOMAIN branches /\ branches[b].files.dynamic = Seen(q).onto
       THEN /\ branches' = [branches EXCEPT ![b].files.dynamic = Seen(q).merged,
                                            ![b].work = "new"]
            /\ Reply(q, "pull")
       ELSE Goto(q, "failed") /\ UNCHANGED branches
    /\ UNCHANGED <<makers, main, pulls, lastPull, world, job>>

\* 422 when a pull request is open or the branch adds nothing to main.
CreatePullRequest(q) ==
    LET body == Requests[q]
        b    == BranchName(body)
    IN /\ call[q].pc = "pull"
       /\ IF b \in DOMAIN branches \ DOMAIN pulls /\ branches[b].work = "new"
          THEN /\ pulls' = (b :> [number |-> lastPull + 1, authors |-> {body.server},
                                 acks |-> Acknowledgments(body)]) @@ pulls
               /\ lastPull' = lastPull + 1
               /\ \/ Answer(q, lastPull + 1)
                  \/ Goto(q, "failed")
          ELSE Goto(q, "find") /\ UNCHANGED <<pulls, lastPull>>
       /\ UNCHANGED <<makers, main, branches, world, job>>

FindOpenPullRequest(q) ==
    LET body == Requests[q]
        b    == BranchName(body)
    IN /\ call[q].pc = "find"
       /\ IF b \notin DOMAIN pulls THEN Goto(q, "failed")
          ELSE LET pr   == pulls[b]
                   acks == AppendIMTAcknowledgments(pr.acks, body)
               IN IF acks = pr.acks THEN Answer(q, pr.number)
                  ELSE Learn(q, "patch", [number |-> pr.number, acks |-> acks])
       /\ UNCHANGED <<github, world, job>>

\* The PATCH replaces the body of that pull request, whatever it has become.
PatchPullRequest(q) ==
    LET body == Requests[q]
        b    == BranchName(body)
    IN /\ call[q].pc = "patch"
       /\ pulls' = IF b \in DOMAIN pulls /\ pulls[b].number = Seen(q).number
                   THEN [pulls EXCEPT ![b].acks = Seen(q).acks,
                                      ![b].authors = @ \cup {body.server}]
                   ELSE pulls
       /\ Answer(q, Seen(q).number) \/ Goto(q, "failed")
       /\ UNCHANGED <<makers, main, branches, lastPull, world, job>>

\* Any GitHub call may fail: createConfigPR returns the error (502).
FailCall(q) ==
    /\ call[q].pc \in Critical
    /\ Goto(q, "failed")
    /\ UNCHANGED <<github, world, job>>

ConfigPRStep(q) ==
    \/ HandleCreateConfigPR(q) \/ EnterCreateConfigPR(q) \/ GetRefSHA(q)
    \/ CreateRef(q) \/ GetDynamic(q) \/ GetStatic(q) \/ GetBranch(q)
    \/ UpdateContent(q) \/ CreatePullRequest(q) \/ FindOpenPullRequest(q)
    \/ PatchPullRequest(q) \/ FailCall(q)

-----------------------------------------------------------------------------
(* PIR updates: POST /api/pir-update-proposal and /api/pir-update-prs.  A *)
(* job is [pc, tries, base, payload, head].                               *)

\* pirupdate.Config is [height, tag]; `tag' is a well-formed release name.
ValidPIRConfig(cfg) == cfg.height > 0 /\ cfg.height % 10 = 0

\* resolvePIRPayload: the hashes of the config and of what is published now.
ResolvePIRPayload(cfg) == [config |-> cfg, artifacts |-> artifacts]

\* Attestations: the payload, signed for this scope by a pinned key.
VerifyPIR(cfg, att) ==
    /\ ValidPIRConfig(cfg)
    /\ att.payload.config = cfg
    /\ att.scope = Scope
    /\ att.by \in PinnedKeys

Attestation(j) ==
    [payload |-> job[j].payload, by |-> Updates[j].by, scope |-> Updates[j].scope]
PIRFiles(j)    == [config |-> Updates[j].config, att |-> Attestation(j)]
PIRBranch(j)   == [pir |-> PIRFiles(j)]

JobGoto(j, pc) == job' = [job EXCEPT ![j].pc = pc]
JobReply(j, pc) == \E next \in {pc, "failed"} : JobGoto(j, next)

\* The proposal a coordinator reviews and signs.
HandlePIRUpdateProposal(j) ==
    LET cfg == Updates[j].config IN
    /\ j \in scenario.clients
    /\ job[j].pc \in {"new", "failed", "refused"}
    /\ job[j].tries < scenario.tries
    /\ Updates[j].server \in Tokens
    /\ ValidPIRConfig(cfg)
    /\ job' = [job EXCEPT ![j] = [pc |-> "signed", tries |-> @.tries + 1,
                                  base |-> main.pir.config, head |-> Blank,
                                  payload |-> ResolvePIRPayload(cfg)]]
    /\ UNCHANGED <<github, world, call>>

\* The signed proposal comes back, possibly after new artifacts, and again
\* after a failure.
HandlePIRUpdatePR(j) ==
    LET cfg == Updates[j].config IN
    /\ job[j].pc \in {"signed", "failed"}
    /\ job[j].payload # Blank
    /\ JobGoto(j, IF /\ VerifyPIR(cfg, Attestation(j))
                     /\ ResolvePIRPayload(cfg) = job[j].payload
                  THEN "head" ELSE "refused")
    /\ UNCHANGED <<github, world, call>>

\* pir.json is read at the commit that main's ref named, so both calls see
\* one state of the repository.
PIRHead(j) ==
    /\ job[j].pc = "head"
    /\ IF main.pir.config = job[j].base
       THEN job' = [job EXCEPT ![j].pc = "branch", ![j].head = main]
       ELSE JobGoto(j, "failed")
    /\ UNCHANGED <<github, world, call>>

\* An existing branch must hold exactly these files.
PIRLookUpBranch(j) ==
    LET b == PIRBranch(j) IN
    /\ job[j].pc = "branch"
    /\ JobGoto(j, IF b \notin DOMAIN branches THEN "commit"
                  ELSE IF branches[b].files.pir # PIRFiles(j) THEN "failed"
                  ELSE IF b \in DOMAIN pulls THEN "answered"
                  ELSE "pull")
    /\ UNCHANGED <<github, world, call>>

\* Tree and commit are invisible until createRef names them; it refuses a
\* branch that appeared meanwhile.
PIRCreateRef(j) ==
    LET b     == PIRBranch(j)
        files == [job[j].head EXCEPT !.pir = PIRFiles(j)]
    IN /\ job[j].pc = "commit"
       /\ IF b \in DOMAIN branches
          THEN JobGoto(j, "failed") /\ UNCHANGED branches
          ELSE /\ branches' = (b :> [files |-> files, fork |-> job[j].head,
                                     work |-> IF files = job[j].head THEN "none" ELSE "new"]) @@ branches
               /\ JobReply(j, "pull")
       /\ UNCHANGED <<makers, main, pulls, lastPull, world, call>>

PIRCreatePullRequest(j) ==
    LET b == PIRBranch(j) IN
    /\ job[j].pc = "pull"
    /\ IF b \in DOMAIN branches \ DOMAIN pulls /\ branches[b].work = "new"
       THEN /\ pulls' = (b :> [number |-> lastPull + 1, acks |-> {},
                              authors |-> {Updates[j].server}]) @@ pulls
            /\ lastPull' = lastPull + 1
            /\ JobReply(j, "answered")
       ELSE JobGoto(j, "failed") /\ UNCHANGED <<pulls, lastPull>>
    /\ UNCHANGED <<makers, main, branches, world, call>>

FailJob(j) ==
    /\ job[j].pc \in {"head", "branch", "commit", "pull"}
    /\ JobGoto(j, "failed")
    /\ UNCHANGED <<github, world, call>>

PIRStep(j) ==
    \/ HandlePIRUpdateProposal(j) \/ HandlePIRUpdatePR(j) \/ PIRHead(j)
    \/ PIRLookUpBranch(j) \/ PIRCreateRef(j) \/ PIRCreatePullRequest(j)
    \/ FailJob(j)

-----------------------------------------------------------------------------
(* Maintainers and the world. *)

\* Git's three-way merge of one piece of a file: the side that changed it.
Clashes(fork, ours, theirs) == ours # theirs /\ fork \notin {ours, theirs}
Take(fork, ours, theirs)  == IF theirs = fork THEN ours ELSE theirs

EntryOf(commit, r) ==
    IF r \in DOMAIN commit.dynamic.rounds THEN <<commit.dynamic.rounds[r]>> ELSE <<>>

\* The pieces that merge on their own.
Pieces(commit) ==
    <<commit.dynamic.layout, commit.dynamic.wrapper, commit.static,
      commit.pir.config, commit.pir.att>>

Conflicts(fork, ours, theirs) ==
    \/ \E i \in 1..5 : Clashes(Pieces(fork)[i], Pieces(ours)[i], Pieces(theirs)[i])
    \/ \E r \in RoundIDs : Clashes(EntryOf(fork, r), EntryOf(ours, r), EntryOf(theirs, r))

CIRejects(commit) == ~VerifyCommand(commit.dynamic, commit.static)

ThreeWayMerge(fork, ours, theirs) ==
    LET entry(r) == Take(EntryOf(fork, r), EntryOf(ours, r), EntryOf(theirs, r))
        piece(i) == Take(Pieces(fork)[i], Pieces(ours)[i], Pieces(theirs)[i])
    IN [dynamic |-> [layout |-> piece(1), wrapper |-> piece(2),
                     rounds |-> [r \in {s \in RoundIDs : entry(s) # <<>>} |-> entry(r)[1]]],
        static  |-> piece(3),
        pir     |-> [config |-> piece(4), att |-> piece(5)]]

\* One more change by hand.
Happens(kind) ==
    /\ kind \in scenario.events
    /\ edits < MaxEdits
    /\ edits' = edits + 1

\* A maintainer merges what applies cleanly and passes CI.
MergePullRequest(b) ==
    LET fork  == branches[b].fork
        files == branches[b].files
    IN /\ ~Conflicts(fork, main, files)
       /\ main' = ThreeWayMerge(fork, main, files)
       /\ ~CIRejects(main')
       /\ pulls' = [c \in DOMAIN pulls \ {b} |-> pulls[c]]
       /\ branches' = [branches EXCEPT ![b].work = "merged", ![b].fork = files]
       /\ UNCHANGED <<makers, lastPull, world, call, job>>

ClosePullRequest(b) ==
    /\ Happens("close")
    /\ pulls' = [c \in DOMAIN pulls \ {b} |-> pulls[c]]
    /\ UNCHANGED <<makers, main, branches, lastPull, scenario, managers, artifacts, repoClock, call, job>>

\* A merged branch may be deleted.
DeleteBranch(b) ==
    /\ Happens("delete")
    /\ b \notin DOMAIN pulls
    /\ branches[b].work = "merged"
    /\ branches' = [c \in DOMAIN branches \ {b} |-> branches[c]]
    /\ UNCHANGED <<makers, main, pulls, lastPull, scenario, managers, artifacts, repoClock, call, job>>

HandBranch == [hand |-> TRUE]

\* An operator signs with `voting-config sign --merge' in a fresh clone and
\* opens a pull request.
SignLocally(r, ea, key) ==
    LET signed == SignAndMerge(main.dynamic, r, ea, key, main.dynamic.layout) IN
    /\ Happens("sign")
    /\ HandBranch \notin DOMAIN branches
    /\ signed.ok
    /\ branches' = (HandBranch :> [files |-> [main EXCEPT !.dynamic = signed.cfg],
                                   fork |-> main, work |-> "new"]) @@ branches
    /\ pulls' = (HandBranch :> [number |-> lastPull + 1, acks |-> {},
                                authors |-> {}]) @@ pulls
    /\ lastPull' = lastPull + 1
    /\ UNCHANGED <<makers, main, scenario, managers, artifacts, repoClock, call, job>>

\* Maintainers move the file to another layout, which voids every signature
\* over the old one, or trust one more key.
EditMain(dynamic, static) ==
    /\ main' = [main EXCEPT !.dynamic = dynamic, !.static = static]
    /\ ~CIRejects(main')
    /\ UNCHANGED <<makers, branches, pulls, lastPull, scenario, managers, artifacts, repoClock, call, job>>

ChangeLayout ==
    LET rounds == main.dynamic.rounds
        legacy == {r \in DOMAIN rounds : rounds[r].version = AuthVersionV1}
    IN /\ Happens("layout")
       /\ EditMain([main.dynamic EXCEPT !.layout = NewLayout,
                       !.rounds = [r \in legacy |-> rounds[r]]], main.static)

TrustKey(key) ==
    /\ key \notin {main.static[i] : i \in DOMAIN main.static}
    /\ Happens("trust")
    /\ EditMain(main.dynamic, Append(main.static, key))

ManagerLeaves(m) ==
    /\ Happens("demote")
    /\ managers' = managers \ {m}
    /\ UNCHANGED <<github, scenario, artifacts, repoClock, call, job>>

Republish ==
    /\ Happens("republish")
    /\ artifacts' = artifacts + 1
    /\ UNCHANGED <<github, scenario, managers, repoClock, call, job>>

RepoTick ==
    /\ "tick" \in scenario.events
    /\ repoClock < MaxClock
    /\ repoClock' = repoClock + 1
    /\ UNCHANGED <<github, scenario, managers, artifacts, edits, call, job>>

RepoStart(commit, chosen) ==
    /\ main = commit
    /\ scenario = chosen
    /\ branches = Blank
    /\ pulls = Blank
    /\ lastPull = 0
    /\ makers = {}
    /\ managers = {Requests[q].auth.signer : q \in Names}
    /\ artifacts = 0
    /\ repoClock = 0
    /\ edits = 0
    /\ call = [q \in Names |-> [pc |-> "new", tries |-> 0, seen |-> Blank]]
    /\ job = [j \in Jobs |-> [pc |-> "new", tries |-> 0, base |-> Blank,
                               payload |-> Blank, head |-> Blank]]

RepoInit == \E commit \in StartingMain, chosen \in Scenarios : RepoStart(commit, chosen)

RepoNext ==
    \/ \E q \in Names : ConfigPRStep(q)
    \/ \E j \in Jobs : PIRStep(j)
    \/ \E b \in DOMAIN pulls : MergePullRequest(b) \/ ClosePullRequest(b)
    \/ \E b \in DOMAIN branches : DeleteBranch(b)
    \/ \E r \in RoundIDs, ea \in ElectionKeys, key \in HumanKeys : SignLocally(r, ea, key)
    \/ ChangeLayout
    \/ \E key \in HumanKeys : TrustKey(key)
    \/ \E m \in managers : ManagerLeaves(m)
    \/ Republish
    \/ RepoTick

-----------------------------------------------------------------------------
(* Properties. *)

SignedBy(entry, r, layout, trusted) ==
    \E i \in DOMAIN entry.sigs, k \in DOMAIN trusted :
        /\ entry.sigs[i].by = trusted[k].pub
        /\ entry.sigs[i].over = CanonicalPayload(entry.version, r, entry.ea, layout)

\* Whatever main or a server's branch holds was authorised as it stands: each
\* round entry carries a trusted key's signature over exactly that round, key
\* and the file's layout, and pir.json lies beside a pinned coordinator's
\* attestation of it (mergeConfigPREntry, createPIRUpdatePR).
FilesAreAuthorised ==
    \A commit \in {main} \cup {branches[b].files : b \in DOMAIN branches \ {HandBranch}} :
        /\ \A r \in DOMAIN commit.dynamic.rounds :
               SignedBy(commit.dynamic.rounds[r], r, commit.dynamic.layout, main.static)
        /\ VerifyPIR(commit.pir.config, commit.pir.att)

Holds(commit, r, sig) ==
    /\ r \in DOMAIN commit.dynamic.rounds
    /\ \E i \in DOMAIN commit.dynamic.rounds[r].sigs :
           LET s == commit.dynamic.rounds[r].sigs[i] IN s.by = sig.by /\ s.over = sig.over

\* A change of main's layout voids the signatures over the old one.
SignaturesHeld(body) ==
    LET b == BranchName(body) IN
    main.dynamic.layout = body.layout =>
        \A n \in DOMAIN body.rounds :
        \A i \in DOMAIN body.rounds[n].entry.sigs :
            LET sig == body.rounds[n].entry.sigs[i] IN
            \/ Holds(main, body.rounds[n].id, sig)
            \/ /\ b \in DOMAIN branches
               /\ Holds(branches[b].files, body.rounds[n].id, sig)

\* "Reusing an open PR preserves its existing branch signatures"
\* (docs/imt-verification.md): signatures of a request that was answered with
\* success are on its branch or on main from then on.
BranchSignaturesPreserved ==
    \A q \in Names : call[q].pc = "answered" => SignaturesHeld(Requests[q])

\* The same, whatever other servers, retries and maintainers do in between, for
\* requests served by the server whose request created the branch: createConfigPR
\* merges what it read from an existing branch and writes on condition that the
\* file is still that one.
AcceptedSignaturesKept ==
    \A q \in Names :
        LET body == Requests[q]
            b    == BranchName(body)
        IN /\ call[q].pc = "answered"
           /\ \A made \in makers : made[1] = b => made[2] = body.server
           => SignaturesHeld(body)

\* The acknowledgments of an answered request stay in its pull request's body
\* for as long as only one server writes that body (configPRMu).
AcknowledgmentsKept ==
    \A q \in Names : call[q].pc = "answered" =>
        LET b == BranchName(Requests[q]) IN
        b \in DOMAIN pulls =>
            \/ pulls[b].number # Seen(q).number
            \/ Cardinality(pulls[b].authors) > 1
            \/ Acknowledgments(Requests[q]) \subseteq pulls[b].acks

=============================================================================
