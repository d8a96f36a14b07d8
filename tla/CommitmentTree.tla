--------------------------- MODULE CommitmentTree ---------------------------
(***************************************************************************)
(* The vote commitment tree of one round, on every node of the chain.      *)
(*                                                                         *)
(* Each node executes the same transactions on its own copy of the         *)
(* key-value store, and keeps beside it a tree handle in memory that a     *)
(* restart loses.  A block's transactions append leaves; EndBlock appends  *)
(* the new leaves to the tree through the handle, checkpoints it and       *)
(* publishes the root under the block's height.  The store of the next     *)
(* block depends on what the handle did, so nodes agree only if the handle *)
(* never shows in the store.                                               *)
(*                                                                         *)
(* Proofs are idealised: a delegation proof binds the notes' nullifiers to *)
(* a fresh vote authority note (VAN), a cast proof spends a VAN of the     *)
(* anchored tree whose authority still includes the proposal.  A root is   *)
(* the sequence of leaves it commits to.                                   *)
(***************************************************************************)
EXTENDS Integers, Sequences, FiniteSets, FiniteSetsExt, Functions

CONSTANTS
    Nodes,         \* full nodes of the chain
    Notes,         \* shielded notes that may be delegated, by nullifier
    NumProposals,  \* proposals of the round, numbered from 1
    NoHandle,      \* a round tree whose handle is nil
    VoteEnd,       \* the first height whose block time is past VoteEndTime
    MaxPage,       \* MaxCommitmentLeavesPerResponse
    MaxHeight,     \* bound: blocks executed
    MaxImports     \* bound: restarts of the chain from an exported genesis

ASSUME TreeAssumption ==
    /\ NumProposals \in Nat \ {0}
    /\ VoteEnd \in Nat
    /\ MaxPage \in Nat \ {0}
    /\ MaxHeight \in Nat
    /\ MaxImports \in Nat

VARIABLES
    height,   \* height of the block being executed
    open,     \* it has executed a transaction
    imports,  \* genesis imports so far
    store,    \* per node: the module's part of the committed key-value store
    handle    \* per node: roundTrees[round], the tree handle and cached root

vars == <<height, open, imports, store, handle>>

Proposals == 1..NumProposals

(* The leaves: a VAN of the notes that has voted on some proposals, and a   *)
(* vote commitment of the notes to one proposal.                            *)
Van(notes, voted) == [kind |-> "van", notes |-> notes, proposals |-> voted]
Vc(notes, p)      == [kind |-> "vc",  notes |-> notes, proposals |-> {p}]

Leaves == [kind : {"van", "vc"}, notes : SUBSET Notes, proposals : SUBSET Proposals]

EmptyMap == [x \in {} |-> 0]

(* m with x mapped to y. *)
Put(m, x, y) == [z \in DOMAIN m \cup {x} |-> IF z = x THEN y ELSE m[z]]

(* A round that is ACTIVE and has no leaf.  The keys 0x0F and 0x11 that the *)
(* tree library writes are shards (leaves by position) and checkpoints (the *)
(* number of leaves at a height).                                           *)
EmptyStore ==
    [active |-> TRUE, gov |-> {}, vans |-> {}, leaves |-> <<>>,
     root |-> <<>>, height |-> 0, nextIndexAtRoot |-> 0,
     roots |-> EmptyMap, blockLeaf |-> EmptyMap,
     shards |-> EmptyMap, checkpoints |-> EmptyMap]

Init ==
    /\ height = 1
    /\ open = FALSE
    /\ imports = 0
    /\ store = [n \in Nodes |-> EmptyStore]
    /\ handle = [n \in Nodes |-> NoHandle]

-----------------------------------------------------------------------------
(* Transactions, as functions of one node's store s.                        *)

(* ValidateRoundForVoting: ACTIVE and the voting window is still open. *)
ValidateRoundForVoting(s) == s.active /\ height < VoteEnd

NextIndex(s) == Len(s.leaves)

(* AppendCommitment, once for each of the leaves. *)
AppendCommitments(s, leaves) == [s EXCEPT !.leaves = @ \o leaves]

DelegateVoteAccepted(s, notes) ==
    /\ ValidateRoundForVoting(s)
    /\ notes # {}
    /\ notes \cap s.gov = {}

DelegateVote(s, notes) ==
    AppendCommitments([s EXCEPT !.gov = @ \cup notes], <<Van(notes, {})>>)

(* The VANs that the casts of a batch spend, each the successor of the one  *)
(* before it, and the one the last cast leaves.                             *)
SpentVans(van, props) ==
    {Van(van.notes, van.proposals \cup {props[j] : j \in 1..(i - 1)}) : i \in DOMAIN props}
FinalVan(van, props) == Van(van.notes, van.proposals \cup Range(props))

(* What the chain of cast proofs shows: every cast spends the authority of  *)
(* its VAN for its own proposal.                                            *)
CastProofsValid(van, props) ==
    van.kind = "van" /\ Range(props) \cap van.proposals = {}

(* MsgCastVoteBatch.ValidateBasic and ValidateProposalId. *)
ValidateCasts(props) ==
    /\ props # <<>>
    /\ IsInjective(props)
    /\ Range(props) \subseteq Proposals

CheckNullifiersUnique(recorded, nfs) == nfs \cap recorded = {}

CastVoteBatchAccepted(s, van, props, anchor) ==
    /\ ValidateRoundForVoting(s)
    /\ ValidateCasts(props)
    /\ anchor \in DOMAIN s.roots
    /\ van \in Range(s.roots[anchor])
    /\ CastProofsValid(van, props)
    /\ CheckNullifiersUnique(s.vans, SpentVans(van, props))

(* Every VAN of the chain is spent; only the last one and the votes are     *)
(* appended.                                                                *)
RecordCasts(s, van, props) ==
    AppendCommitments([s EXCEPT !.vans = @ \cup SpentVans(van, props)],
        <<FinalVan(van, props)>> \o [i \in DOMAIN props |-> Vc(van.notes, props[i])])

CastVoteBatch(s, van, props) == RecordCasts(s, van, props)

(* A single cast: its VAN's successor, then its vote. *)
CastVoteAccepted(s, van, p, anchor) ==
    /\ ValidateRoundForVoting(s)
    /\ p \in Proposals
    /\ anchor \in DOMAIN s.roots
    /\ van \in Range(s.roots[anchor])
    /\ CastProofsValid(van, <<p>>)
    /\ van \notin s.vans

CastVote(s, van, p) ==
    AppendCommitments([s EXCEPT !.vans = @ \cup {van}],
        <<Van(van.notes, van.proposals \cup {p}), Vc(van.notes, p)>>)

(* The delegation's VAN never enters the tree: the first cast is anchored   *)
(* to the tree of that one leaf.                                            *)
DelegateAndCastVoteBatchAccepted(s, notes, props) ==
    /\ ValidateRoundForVoting(s)
    /\ notes # {}
    /\ ValidateCasts(props)
    /\ CastProofsValid(Van(notes, {}), props)
    /\ CheckNullifiersUnique(s.gov, notes)
    /\ CheckNullifiersUnique(s.vans, SpentVans(Van(notes, {}), props))

(* Mutant: the combined message records the VANs and forgets the notes. *)
DelegateAndCastWithoutGov(s, notes, props) == RecordCasts(s, Van(notes, {}), props)

DelegateAndCastVoteBatch(s, notes, props) ==
    RecordCasts([s EXCEPT !.gov = @ \cup notes], Van(notes, {}), props)

-----------------------------------------------------------------------------
(* The tree library, behind the handle's calls.                             *)

(* NewTreeHandleWithKV: a handle at a leaf count, which restores the latest *)
(* checkpoint found in the store.                                           *)
NewTreeHandle(s, size) ==
    [size |-> size,
     latest |-> IF DOMAIN s.checkpoints = {} THEN 0 ELSE Max(DOMAIN s.checkpoints),
     root |-> <<>>, rootLeafCount |-> 0]

(* AppendFromKV: the leaves after the handle's size go to their positions. *)
AppendFromKV(s, size) ==
    [s EXCEPT !.shards =
        [i \in DOMAIN @ \cup (size + 1)..NextIndex(s) |->
            IF i > size THEN s.leaves[i] ELSE @[i]]]

Checkpoint(s, h) == [s EXCEPT !.checkpoints = Put(@, h, NextIndex(s))]

(* Root: of the leaves in the shards at the latest checkpoint. *)
HandleRoot(s, latest) ==
    IF latest = 0 THEN <<>>
    ELSE [i \in (1..s.checkpoints[latest]) \cap DOMAIN s.shards |-> s.shards[i]]

-----------------------------------------------------------------------------
(* EndBlock.                                                                *)

(* Mutant: a restart replays every leaf. *)
ResumeFromStart(s) == 0

(* Where a new handle resumes: the last checkpoint, or a replay from 0. *)
ResumeAt(s) == IF s.height > 0 THEN s.nextIndexAtRoot ELSE 0

(* ensureRoundTreeLoaded: the handle, created when there is none. *)
LoadedHandle(s, hd) == IF hd = NoHandle THEN NewTreeHandle(s, ResumeAt(s)) ELSE hd

(* ensureRoundTreeLoaded: the conditions that fail EndBlock, and so halt    *)
(* the node.                                                                *)
TreeError(s, hd) ==
    \/ hd = NoHandle /\ s.height > 0 /\ s.nextIndexAtRoot > NextIndex(s)
    \/ hd = NoHandle /\ s.height > 0 /\ s.nextIndexAtRoot = 0
    \/ LoadedHandle(s, hd).size > NextIndex(s)

(* ComputeTreeRoot: the store and handle it leaves; the handle caches the   *)
(* root it returns.                                                         *)
ComputeTreeRoot(s, hd) ==
    LET h0 == LoadedHandle(s, hd)
        appended == h0.size < NextIndex(s)
        s1 == IF appended THEN Checkpoint(AppendFromKV(s, h0.size), height) ELSE s
        latest == IF appended THEN height ELSE h0.latest
        root == IF appended \/ h0.root = <<>> \/ h0.rootLeafCount # NextIndex(s)
                THEN HandleRoot(s1, latest) ELSE h0.root
    IN  [store |-> s1,
         handle |-> [size |-> NextIndex(s), latest |-> latest,
                     root |-> root, rootLeafCount |-> NextIndex(s)]]

(* A root that differs from the last one is stored under this height, with  *)
(* the range of leaves added since.                                         *)
PublishRoot(s, root) ==
    [s EXCEPT !.roots = Put(@, height, root),
              !.blockLeaf =
                  IF NextIndex(s) > s.nextIndexAtRoot
                  THEN Put(@, height, [start |-> s.nextIndexAtRoot,
                                       count |-> NextIndex(s) - s.nextIndexAtRoot])
                  ELSE @,
              !.root = root, !.height = height, !.nextIndexAtRoot = NextIndex(s)]

(* Phase 1 of EndBlock on one node: the store and the handle it leaves. *)
UpdateRoot(s, hd) ==
    IF ~s.active \/ NextIndex(s) = 0 THEN [store |-> s, handle |-> hd]
    ELSE LET c == ComputeTreeRoot(s, hd)
         IN  IF c.handle.root = s.root THEN c
             ELSE [c EXCEPT !.store = PublishRoot(c.store, c.handle.root)]

(* Phases 1 and 2: the root, then the end of the voting window. *)
EndBlockOn(s, hd) ==
    LET u == UpdateRoot(s, hd)
    IN  [u EXCEPT !.store.active = @ /\ height < VoteEnd]

-----------------------------------------------------------------------------
(* Genesis.                                                                 *)

(* Mutant: the imported tree state keeps the height of its checkpoint. *)
InitGenesisKeepHeight(s) == [s EXCEPT !.shards = EmptyMap, !.checkpoints = EmptyMap]

(* exportRoundTree then InitGenesis: leaves, roots and ranges survive, what *)
(* the tree library wrote does not, and Height = 0 asks for a replay.       *)
InitGenesis(s) ==
    [s EXCEPT !.shards = EmptyMap, !.checkpoints = EmptyMap,
              !.height = IF NextIndex(s) > 0 THEN 0 ELSE @]

-----------------------------------------------------------------------------
(* Actions.                                                                 *)

(* A transaction that some node accepts is executed by every node; one that *)
(* a node rejects leaves its store as it was.                               *)
Deliver(Accepted(_), Execute(_)) ==
    /\ \E n \in Nodes : Accepted(store[n])
    /\ store' = [n \in Nodes |-> IF Accepted(store[n]) THEN Execute(store[n]) ELSE store[n]]
    /\ open' = TRUE
    /\ UNCHANGED <<height, imports, handle>>

(* The leaves below some anchor, which a cast may spend, and the batches of *)
(* casts a voter can send.                                                  *)
Anchored == UNION {UNION {Range(store[n].roots[h]) : h \in DOMAIN store[n].roots} : n \in Nodes}
Batches  == UNION {[1..k -> Proposals] : k \in 1..NumProposals}
Heights  == 1..height

Delegate ==
    \E notes \in SUBSET Notes :
        Deliver(LAMBDA s : DelegateVoteAccepted(s, notes), LAMBDA s : DelegateVote(s, notes))

Cast ==
    \E van \in Anchored, p \in Proposals, anchor \in Heights :
        Deliver(LAMBDA s : CastVoteAccepted(s, van, p, anchor), LAMBDA s : CastVote(s, van, p))

CastBatch ==
    \E van \in Anchored, props \in Batches, anchor \in Heights :
        Deliver(LAMBDA s : CastVoteBatchAccepted(s, van, props, anchor),
                LAMBDA s : CastVoteBatch(s, van, props))

DelegateAndCast ==
    \E notes \in SUBSET Notes, props \in Batches :
        Deliver(LAMBDA s : DelegateAndCastVoteBatchAccepted(s, notes, props),
                LAMBDA s : DelegateAndCastVoteBatch(s, notes, props))

EndBlock ==
    /\ height < MaxHeight
    /\ \A n \in Nodes : ~TreeError(store[n], handle[n])
    /\ store' = [n \in Nodes |-> EndBlockOn(store[n], handle[n]).store]
    /\ handle' = [n \in Nodes |-> EndBlockOn(store[n], handle[n]).handle]
    /\ height' = height + 1
    /\ open' = FALSE
    /\ UNCHANGED imports

(* A node's process ends and starts again.  A node stopped in the middle of *)
(* a block executes it again from the committed store, which leaves the     *)
(* same store and no handle.                                                *)
Restart(n) ==
    /\ handle' = [handle EXCEPT ![n] = NoHandle]
    /\ UNCHANGED <<height, open, imports, store>>

(* The chain is exported between two blocks and starts again, at the next   *)
(* height, from the exported genesis.                                       *)
ExportAndImport ==
    /\ imports < MaxImports
    /\ ~open
    /\ imports' = imports + 1
    /\ store' = [n \in Nodes |-> InitGenesis(store[n])]
    /\ handle' = [n \in Nodes |-> NoHandle]
    /\ UNCHANGED <<height, open>>

Next ==
    \/ Delegate \/ Cast \/ CastBatch \/ DelegateAndCast
    \/ EndBlock
    \/ \E n \in Nodes : Restart(n)
    \/ ExportAndImport

Spec == Init /\ [][Next]_vars

-----------------------------------------------------------------------------
(* CommitmentLeaves: pages of the leaves added between two heights.         *)

BlocksBetween(s, from, to) == {h \in DOMAIN s.blockLeaf : from <= h /\ h <= to}

LeavesBetween(s, from, to) ==
    MapThenSumSet(LAMBDA h : s.blockLeaf[h].count, BlocksBetween(s, from, to))

(* Mutant: the next page starts after the first block that did not fit. *)
PageSkippingOne(s, from, to) ==
    LET hs   == BlocksBetween(s, from, to)
        page == {h \in hs : h = Min(hs) \/ LeavesBetween(s, from, h) <= MaxPage}
    IN  [blocks |-> page, next |-> IF hs = page THEN 0 ELSE Min(hs \ page) + 1]

(* GetCommitmentLeaves: whole blocks while they fit in a page, and at least *)
(* one; then the height of the next block, or 0 when there is none.         *)
GetCommitmentLeaves(s, from, to) ==
    LET hs   == BlocksBetween(s, from, to)
        page == {h \in hs : h = Min(hs) \/ LeavesBetween(s, from, h) <= MaxPage}
    IN  [blocks |-> page, next |-> IF hs = page THEN 0 ELSE Min(hs \ page)]

(* The blocks a client receives that follows `next' until it is 0. *)
Synced(s, from, to) ==
    LET Pages[f \in 0..(MaxHeight + 1)] ==
            LET p == GetCommitmentLeaves(s, f, to)
            IN  <<p.blocks>> \o (IF p.next = 0 THEN <<>> ELSE Pages[p.next])
    IN  Pages[from]

-----------------------------------------------------------------------------
(* Properties.                                                              *)

(* Nodes that have executed the same blocks hold the same store, whichever  *)
(* of them restarted and when: the in-memory handle never shows in what     *)
(* EndBlock writes (keys 0x0F and 0x11 included), so app hashes agree.      *)
StoresAgree == \A m, n \in Nodes : store[m] = store[n]

(* On a chain that has not been imported from a genesis, the handle that    *)
(* resumes from the last checkpoint writes what one that never restarted    *)
(* writes.                                                                  *)
StoresAgreeUntilImport == imports = 0 => StoresAgree

AnchorsCoverBlocks(s) ==
    /\ \A h \in DOMAIN s.roots :
          /\ Len(s.roots[h]) <= NextIndex(s)
          /\ s.roots[h] = SubSeq(s.leaves, 1, Len(s.roots[h]))
          /\ h \in DOMAIN s.blockLeaf
          /\ s.blockLeaf[h].start + s.blockLeaf[h].count = Len(s.roots[h])
    /\ \A i \in 1..s.nextIndexAtRoot :
          \E h \in DOMAIN s.blockLeaf :
             {g \in DOMAIN s.blockLeaf :
                s.blockLeaf[g].start < i /\ i <= s.blockLeaf[g].start + s.blockLeaf[g].count} = {h}

(* Between two blocks the published root commits to every accepted leaf, so *)
(* no VAN and no vote is ever left without an anchor when voting ends,      *)
(* through restarts and genesis imports, and EndBlock never meets one of    *)
(* the tree errors that halt a node.  Every stored root is the root of the  *)
(* leaves the tree had at that height, and the leaf ranges stored with the  *)
(* roots cover the rooted leaves, each of them once: what CommitmentLeaves  *)
(* returns rebuilds every anchor.                                           *)
EveryLeafAnchored ==
    \A n \in Nodes : LET s == store[n] IN
        /\ ~TreeError(s, handle[n])
        /\ ~open \/ ~s.active => s.root = s.leaves /\ s.nextIndexAtRoot = NextIndex(s)
        /\ AnchorsCoverBlocks(s)

(* A note votes at most once on each proposal of the round, whichever mix   *)
(* of DelegateVote, CastVote, CastVoteBatch and DelegateAndCastVoteBatch    *)
(* its owner sends, against whichever anchors.                              *)
OneVotePerNote ==
    \A n \in Nodes, g \in Notes, p \in Proposals : LET ls == store[n].leaves IN
        Cardinality({i \in DOMAIN ls :
            ls[i].kind = "vc" /\ g \in ls[i].notes /\ p \in ls[i].proposals}) <= 1

(* A client that follows the pages of CommitmentLeaves receives every block *)
(* with leaves between the two heights exactly once, in pages of at most    *)
(* MaxPage leaves or of a single block.                                     *)
PagesComplete ==
    \A n \in Nodes, from, to \in 0..height :
        LET s     == store[n]
            pages == Synced(s, from, to)
        IN  /\ UNION Range(pages) = BlocksBetween(s, from, to)
            /\ \A i, j \in DOMAIN pages :
                  i < j => \A g \in pages[i], h \in pages[j] : g < h
            /\ \A i \in DOMAIN pages :
                  \/ Cardinality(pages[i]) <= 1
                  \/ MapThenSumSet(LAMBDA h : s.blockLeaf[h].count, pages[i]) <= MaxPage

=============================================================================
