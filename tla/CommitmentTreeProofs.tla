------------------------ MODULE CommitmentTreeProofs ------------------------
(***************************************************************************)
(* Proofs about CommitmentTree, for every value of its constants: nodes    *)
(* hold the same store, every leaf is under a root, and a note has one     *)
(* vote on a proposal.                                                     *)
(***************************************************************************)
EXTENDS CommitmentTree, SequenceTheorems, FiniteSetTheorems, TLAPS

(* One node: what the leaves a message appends and EndBlock do to its      *)
(* store and its tree handle.                                              *)

\* Functions from some numbers, the maps of the key-value store.
Maps(S) == UNION {[D -> S] : D \in SUBSET Nat}

BlockRanges == [start : Nat, count : Nat]

StoreRecords ==
    [active : BOOLEAN, gov : SUBSET Notes, vans : SUBSET Leaves, leaves : Seq(Leaves),
     root : Seq(Leaves), height : Nat, nextIndexAtRoot : Nat,
     roots : Maps(Seq(Leaves)), blockLeaf : Maps(BlockRanges),
     shards : Maps(Leaves), checkpoints : Maps(Nat)]

TreeHandles == [size : Nat, latest : Nat, root : Seq(Leaves), rootLeafCount : Nat]

\* ls begins with the leaves of r.
Begins(ls, r) == Len(r) <= Len(ls) /\ \A i \in 1..Len(r) : r[i] = ls[i]

\* r is the map m of values in S with x mapped to y.
IsPut(S, m, r, x, y) ==
    /\ r \in Maps(S)
    /\ DOMAIN r = DOMAIN m \cup {x}
    /\ r[x] = y
    /\ \A z \in DOMAIN m : z # x => r[z] = m[z]

\* Put yields a map with the one value changed: what a Set of the KV store does.
LEMMA PutMap ==
    ASSUME NEW S, NEW m \in Maps(S), NEW x \in Nat, NEW y \in S
    PROVE  IsPut(S, m, Put(m, x, y), x, y)
<1>1. PICK D \in SUBSET Nat : m \in [D -> S]
  BY DEF Maps
<1>2. Put(m, x, y) \in [D \cup {x} -> S]
  BY <1>1 DEF Put
<1> QED BY <1>1, <1>2, Zenon DEF Put, IsPut, Maps

\* The empty map is a map into any set.
LEMMA EmptyMapIsMap == ASSUME NEW S PROVE EmptyMap \in Maps(S) /\ DOMAIN EmptyMap = {}
<1>1. EmptyMap \in [{} -> S]
  BY DEF EmptyMap
<1> QED BY <1>1 DEF Maps, EmptyMap

-----------------------------------------------------------------------------
(* The inductive invariant.                                                *)

\* The leaf ranges of blocks that hold the i-th leaf.
Covering(s, i) ==
    {g \in DOMAIN s.blockLeaf :
       s.blockLeaf[g].start < i /\ i <= s.blockLeaf[g].start + s.blockLeaf[g].count}

\* The root in the tree state is the root of the first nextIndexAtRoot leaves.
RootInv(s) == Len(s.root) = s.nextIndexAtRoot /\ Begins(s.leaves, s.root)

\* Before height h: stored roots are roots of prefixes, with ranges that end
\* where they end; no range reaches beyond the last root.
AnchorInv(s, h) ==
    /\ \A g \in DOMAIN s.roots :
          /\ g < h /\ Begins(s.leaves, s.roots[g]) /\ g \in DOMAIN s.blockLeaf
          /\ s.blockLeaf[g].start + s.blockLeaf[g].count = Len(s.roots[g])
    /\ \A g \in DOMAIN s.blockLeaf :
          g < h /\ s.blockLeaf[g].start + s.blockLeaf[g].count <= s.nextIndexAtRoot
    /\ \A i \in 1..s.nextIndexAtRoot : \E g \in DOMAIN s.blockLeaf : Covering(s, i) = {g}

\* What the handle holds in memory is what the store's latest checkpoint says.
HandleInv(s, hd) ==
    /\ hd \in TreeHandles
    /\ hd.size = s.nextIndexAtRoot /\ hd.rootLeafCount = s.nextIndexAtRoot
    /\ hd.root = s.root

\* The tree library has written nothing and has no handle, on a chain without
\* a leaf or one just imported; or its shards hold the rooted leaves, and the
\* latest checkpoint counts them.
LibraryInv(s, hd, h) ==
    \/ s.shards = EmptyMap /\ s.checkpoints = EmptyMap /\ hd = NoHandle /\ s.height = 0
    \/ /\ s.nextIndexAtRoot > 0
       /\ DOMAIN s.shards = 1..s.nextIndexAtRoot
       /\ \A i \in 1..s.nextIndexAtRoot : s.shards[i] = s.leaves[i]
       /\ \E c \in DOMAIN s.checkpoints :
             /\ s.checkpoints[c] = s.nextIndexAtRoot
             /\ \A b \in DOMAIN s.checkpoints : 0 < b /\ b <= c /\ b < h
       /\ hd # NoHandle => HandleInv(s, hd)

\* One node's part of the inductive invariant, at height h with o saying
\* whether the block has executed a transaction.
NodeInv(s, hd, h, o) ==
    /\ s \in StoreRecords
    /\ RootInv(s) /\ AnchorInv(s, h) /\ LibraryInv(s, hd, h)
    /\ ~o \/ ~s.active => Len(s.leaves) = s.nextIndexAtRoot

-----------------------------------------------------------------------------
(* Transactions.                                                           *)

\* What every message does to a store.
Grown(s, gov, vans, new) ==
    [s EXCEPT !.gov = gov, !.vans = vans, !.leaves = @ \o new]

GrowsTo(s, t, gov, vans, new) ==
    /\ t \in StoreRecords
    /\ t.active = s.active /\ t.gov = gov /\ t.vans = vans /\ t.leaves = s.leaves \o new
    /\ t.root = s.root /\ t.height = s.height /\ t.nextIndexAtRoot = s.nextIndexAtRoot
    /\ t.roots = s.roots /\ t.blockLeaf = s.blockLeaf
    /\ t.shards = s.shards /\ t.checkpoints = s.checkpoints
    /\ Len(t.leaves) = Len(s.leaves) + Len(new)
    /\ \A i \in 1..Len(s.leaves) : t.leaves[i] = s.leaves[i]

\* Appending leaves changes nullifier sets and leaves, and nothing else.
LEMMA GrownFields ==
    ASSUME NEW s \in StoreRecords, NEW gov \in SUBSET Notes, NEW vans \in SUBSET Leaves,
           NEW new \in Seq(Leaves)
    PROVE  GrowsTo(s, Grown(s, gov, vans, new), gov, vans, new)
<1>1. s.leaves \in Seq(Leaves)
  BY DEF StoreRecords
<1>2. /\ s.leaves \o new \in Seq(Leaves)
      /\ Len(s.leaves \o new) = Len(s.leaves) + Len(new)
      /\ \A i \in 1..Len(s.leaves) : (s.leaves \o new)[i] = s.leaves[i]
  BY <1>1, ConcatProperties, LenProperties
<1> QED BY <1>1, <1>2, Zenon DEF Grown, GrowsTo, StoreRecords

\* A message that appends leaves keeps a node's invariant: roots, ranges and
\* the tree library's keys speak of the leaves before.
LEMMA GrownKeepsNode ==
    ASSUME NEW s, NEW hd, NEW h, NEW o, NodeInv(s, hd, h, o), s.active,
           NEW gov \in SUBSET Notes, NEW vans \in SUBSET Leaves, NEW new \in Seq(Leaves),
           NEW t, GrowsTo(s, t, gov, vans, new)
    PROVE  NodeInv(t, hd, h, TRUE)
<1>1. s \in StoreRecords /\ s.leaves \in Seq(Leaves) /\ s.nextIndexAtRoot \in Nat
      /\ s.root \in Seq(Leaves)
  BY DEF NodeInv, StoreRecords
<1>2. /\ t \in StoreRecords /\ t.active = s.active
      /\ t.root = s.root /\ t.height = s.height /\ t.nextIndexAtRoot = s.nextIndexAtRoot
      /\ t.roots = s.roots /\ t.blockLeaf = s.blockLeaf
      /\ t.shards = s.shards /\ t.checkpoints = s.checkpoints
      /\ Len(t.leaves) = Len(s.leaves) + Len(new)
      /\ \A i \in 1..Len(s.leaves) : t.leaves[i] = s.leaves[i]
  BY DEF GrowsTo
<1>3. Len(s.leaves) \in Nat /\ Len(new) \in Nat
  BY <1>1, LenProperties
<1>4. \A r : Len(r) \in Nat /\ Begins(s.leaves, r) => Begins(t.leaves, r)
  BY <1>2, <1>3 DEF Begins
<1>5. RootInv(t)
  BY <1>1, <1>2, <1>4, LenProperties DEF NodeInv, RootInv
<1>6. AnchorInv(t, h)
  <2>1. \A g \in DOMAIN s.roots : Len(s.roots[g]) \in Nat
    <3>1. PICK D \in SUBSET Nat : s.roots \in [D -> Seq(Leaves)]
      BY <1>1 DEF StoreRecords, Maps
    <3> QED BY <3>1, LenProperties
  <2> QED BY <1>2, <1>4, <2>1 DEF NodeInv, AnchorInv, Covering
<1>7. LibraryInv(t, hd, h)
  <2>1. s.nextIndexAtRoot <= Len(s.leaves)
    BY DEF NodeInv, RootInv, Begins
  <2> QED BY <1>1, <1>2, <1>3, <2>1 DEF NodeInv, LibraryInv, HandleInv
<1> QED BY <1>2, <1>5, <1>6, <1>7 DEF NodeInv

-----------------------------------------------------------------------------
(* EndBlock.                                                               *)

\* The latest checkpoint is the one every other one is below.
LEMMA LatestIsMax ==
    ASSUME NEW S \in SUBSET Nat, NEW c \in S, \A b \in S : b <= c
    PROVE  Max(S) = c
<1>1. \A x \in S : (\A y \in S : x >= y) => x = c
  OBVIOUS
<1>2. \A y \in S : c >= y
  OBVIOUS
<1> QED BY <1>1, <1>2, Zenon DEF Max

\* The shards hold exactly the leaves ls, in order, and the latest of the
\* checkpoints, all of them below h, counts them.
Written(shards, checkpoints, ls, h) ==
    /\ shards \in Maps(Leaves) /\ checkpoints \in Maps(Nat)
    /\ DOMAIN shards = 1..Len(ls)
    /\ \A i \in 1..Len(ls) : shards[i] = ls[i]
    /\ \E c \in DOMAIN checkpoints :
          /\ checkpoints[c] = Len(ls)
          /\ \A b \in DOMAIN checkpoints : 0 < b /\ b <= c /\ b < h

\* The root at the latest checkpoint is the sequence of leaves itself.
LEMMA RootOfWritten ==
    ASSUME NEW s \in StoreRecords, NEW c \in Nat \ {0}, s.checkpoints[c] = Len(s.leaves),
           DOMAIN s.shards = 1..Len(s.leaves),
           \A i \in 1..Len(s.leaves) : s.shards[i] = s.leaves[i]
    PROVE  HandleRoot(s, c) = s.leaves
<1>1. s.leaves \in Seq(Leaves)
  BY DEF StoreRecords
<1>2. Len(s.leaves) \in Nat /\ s.leaves = [i \in 1..Len(s.leaves) |-> s.leaves[i]]
  BY <1>1
<1>3. HandleRoot(s, c) = [i \in (1..Len(s.leaves)) \cap (1..Len(s.leaves)) |-> s.shards[i]]
  BY DEF HandleRoot
<1>4. @ = [i \in 1..Len(s.leaves) |-> s.leaves[i]]
  OBVIOUS
<1> QED BY <1>2, <1>3, <1>4

\* A handle resumes at the last root or from the beginning, never beyond the
\* leaves, and never where the tree library has written nothing.
LEMMA HandleLoads ==
    ASSUME NEW s, NEW hd, NEW o, NodeInv(s, hd, height, o), NEW h0, h0 = LoadedHandle(s, hd)
    PROVE  /\ ~TreeError(s, hd)
           /\ h0.size \in {0, s.nextIndexAtRoot} /\ h0.size <= Len(s.leaves)
           /\ s.nextIndexAtRoot \in Nat /\ Len(s.leaves) \in Nat
           /\ s.shards = EmptyMap => h0.size = 0
           /\ hd = NoHandle => h0.root = <<>> /\ h0.latest = NewTreeHandle(s, ResumeAt(s)).latest
           /\ hd # NoHandle => h0 = hd
<1>1. s \in StoreRecords /\ s.leaves \in Seq(Leaves) /\ s.nextIndexAtRoot \in Nat
      /\ s.root \in Seq(Leaves) /\ s.height \in Nat
  BY DEF NodeInv, StoreRecords
<1>2. Len(s.leaves) \in Nat /\ s.nextIndexAtRoot <= Len(s.leaves)
  BY <1>1, LenProperties DEF NodeInv, RootInv, Begins
<1>3. CASE hd = NoHandle
  <2>1. h0.size = ResumeAt(s) /\ h0.root = <<>> /\ h0.latest = NewTreeHandle(s, ResumeAt(s)).latest
    BY <1>3 DEF LoadedHandle, NewTreeHandle
  <2>2. s.height > 0 => s.nextIndexAtRoot > 0 /\ s.shards # EmptyMap
    <3>1. DOMAIN EmptyMap = {}
      BY EmptyMapIsMap
    <3> QED BY <1>1, <3>1 DEF NodeInv, LibraryInv
  <2> QED BY <1>1, <1>2, <1>3, <2>1, <2>2 DEF ResumeAt, TreeError, NextIndex
<1>4. CASE hd # NoHandle
  <2>1. h0 = hd /\ hd.size = s.nextIndexAtRoot /\ s.shards # EmptyMap
    <3>1. DOMAIN EmptyMap = {}
      BY EmptyMapIsMap
    <3> QED BY <1>1, <1>4, <3>1 DEF NodeInv, LibraryInv, HandleInv, LoadedHandle
  <2> QED BY <1>1, <1>2, <1>4, <2>1 DEF TreeError, NextIndex
<1> QED BY <1>3, <1>4

\* AppendFromKV and Checkpoint bring the shards up to the leaves.
LEMMA AppendWrites ==
    ASSUME NEW s, NEW hd, NEW o, NodeInv(s, hd, height, o), height \in Nat \ {0},
           NEW size \in {0, s.nextIndexAtRoot}, s.shards = EmptyMap => size = 0,
           size < Len(s.leaves), NEW s1, s1 = Checkpoint(AppendFromKV(s, size), height)
    PROVE  /\ s1 = [s EXCEPT !.shards = s1.shards, !.checkpoints = s1.checkpoints]
           /\ Written(s1.shards, s1.checkpoints, s.leaves, height + 1)
           /\ HandleRoot(s1, height) = s.leaves
<1> DEFINE shards == [i \in DOMAIN s.shards \cup (size + 1)..Len(s.leaves) |->
                         IF i > size THEN s.leaves[i] ELSE s.shards[i]]
           checkpoints == Put(s.checkpoints, height, Len(s.leaves))
<1>0. s \in StoreRecords /\ s.leaves \in Seq(Leaves) /\ s.nextIndexAtRoot \in Nat
      /\ s.shards \in Maps(Leaves) /\ s.checkpoints \in Maps(Nat) /\ Len(s.leaves) \in Nat
  BY LenProperties DEF NodeInv, StoreRecords
<1>1. s1 = [s EXCEPT !.shards = shards, !.checkpoints = checkpoints]
  BY <1>0 DEF Checkpoint, AppendFromKV, NextIndex, StoreRecords
<1>2. DOMAIN shards = 1..Len(s.leaves) /\ \A i \in 1..Len(s.leaves) : shards[i] = s.leaves[i]
  <2>1. DOMAIN EmptyMap = {}
    BY EmptyMapIsMap
  <2>2. CASE s.shards = EmptyMap
    BY <1>0, <2>1, <2>2
  <2>3. CASE s.shards # EmptyMap
    <3>1. DOMAIN s.shards = 1..s.nextIndexAtRoot /\ s.nextIndexAtRoot <= Len(s.leaves)
          /\ \A i \in 1..s.nextIndexAtRoot : s.shards[i] = s.leaves[i]
      BY <2>3 DEF NodeInv, LibraryInv, RootInv, Begins
    <3> QED BY <1>0, <3>1
  <2> QED BY <2>2, <2>3, Zenon
<1>3. shards \in Maps(Leaves)
  <2>1. shards \in [1..Len(s.leaves) -> Leaves]
    <3>1. \A i \in 1..Len(s.leaves) : s.leaves[i] \in Leaves
      BY <1>0, ElementOfSeq
    <3> QED BY <1>2, <3>1, Zenon
  <2>2. 1..Len(s.leaves) \in SUBSET Nat
    BY <1>0
  <2> HIDE DEF shards
  <2> QED BY <2>1, <2>2 DEF Maps
<1>4. /\ checkpoints \in Maps(Nat) /\ DOMAIN checkpoints = DOMAIN s.checkpoints \cup {height}
      /\ checkpoints[height] = Len(s.leaves)
  <2>1. PICK D \in SUBSET Nat : s.checkpoints \in [D -> Nat]
    BY <1>0, Zenon DEF Maps
  <2>2. checkpoints \in [D \cup {height} -> Nat]
    BY <1>0, <2>1, Zenon DEF Put
  <2>3. DOMAIN checkpoints = DOMAIN s.checkpoints \cup {height} /\ checkpoints[height] = Len(s.leaves)
    BY DEF Put
  <2> HIDE DEF checkpoints
  <2>4. D \cup {height} \in SUBSET Nat
    OBVIOUS
  <2> QED BY <2>2, <2>3, <2>4 DEF Maps
<1>5. \A b \in DOMAIN s.checkpoints : 0 < b /\ b < height
  <2>1. DOMAIN EmptyMap = {}
    BY EmptyMapIsMap
  <2> QED BY <2>1 DEF NodeInv, LibraryInv
<1>6. \A b \in DOMAIN checkpoints : b \in Nat /\ 0 < b /\ b <= height /\ b < height + 1
  <2>1. DOMAIN s.checkpoints \in SUBSET Nat
    BY <1>0, Zenon DEF Maps
  <2> QED BY <1>4, <1>5, <2>1
<1> HIDE DEF shards, checkpoints
<1>7. Written(shards, checkpoints, s.leaves, height + 1)
  BY <1>2, <1>3, <1>4, <1>6 DEF Written
<1>8. /\ s1 \in StoreRecords /\ s1.shards = shards /\ s1.checkpoints = checkpoints
      /\ s1.leaves = s.leaves
  BY <1>0, <1>1, <1>3, <1>4, Zenon DEF StoreRecords
<1>9. HandleRoot(s1, height) = s.leaves
    BY <1>2, <1>4, <1>8, RootOfWritten
<1> QED BY <1>1, <1>7, <1>8, <1>9

\* When there is nothing to append, the cached root of the handle, or the root
\* at the latest checkpoint of the store, is the root of the leaves.
LEMMA NothingToAppend ==
    ASSUME NEW s, NEW hd, NEW o, NodeInv(s, hd, height, o), height \in Nat \ {0},
           NEW h0, h0 = LoadedHandle(s, hd), h0.size = Len(s.leaves), s.leaves # <<>>
    PROVE  /\ h0.latest \in Nat /\ Written(s.shards, s.checkpoints, s.leaves, height + 1)
           /\ IF h0.root = <<>> \/ h0.rootLeafCount # Len(s.leaves)
              THEN HandleRoot(s, h0.latest) = s.leaves ELSE h0.root = s.leaves
<1>0. s \in StoreRecords /\ s.leaves \in Seq(Leaves) /\ s.root \in Seq(Leaves)
      /\ s.shards \in Maps(Leaves) /\ s.checkpoints \in Maps(Nat)
  BY DEF NodeInv, StoreRecords
<1>00. /\ h0.size \in {0, s.nextIndexAtRoot} /\ Len(s.leaves) \in Nat \ {0}
       /\ s.nextIndexAtRoot \in Nat
       /\ s.shards = EmptyMap => h0.size = 0
       /\ hd = NoHandle => h0.root = <<>> /\ h0.latest = NewTreeHandle(s, ResumeAt(s)).latest
       /\ hd # NoHandle => h0 = hd
  BY <1>0, HandleLoads, EmptySeq
<1>1. s.nextIndexAtRoot = Len(s.leaves) /\ s.shards # EmptyMap
  BY <1>00
<1>2. PICK k \in DOMAIN s.checkpoints :
         /\ s.checkpoints[k] = Len(s.leaves)
         /\ \A b \in DOMAIN s.checkpoints : 0 < b /\ b <= k /\ b < height
  BY <1>1 DEF NodeInv, LibraryInv
<1>3. DOMAIN s.checkpoints \in SUBSET Nat
  BY <1>0, Zenon DEF Maps
<1>4. /\ DOMAIN s.shards = 1..Len(s.leaves)
      /\ \A i \in 1..Len(s.leaves) : s.shards[i] = s.leaves[i]
      /\ hd # NoHandle => HandleInv(s, hd)
  BY <1>1 DEF NodeInv, LibraryInv
<1>5. Written(s.shards, s.checkpoints, s.leaves, height + 1)
  BY <1>0, <1>2, <1>3, <1>4 DEF Written
<1>6. s.root = s.leaves
  BY <1>0, <1>1, SeqEqual DEF NodeInv, RootInv, Begins
<1>7. CASE hd # NoHandle
  BY <1>0, <1>00, <1>1, <1>4, <1>5, <1>6, <1>7 DEF HandleInv, TreeHandles
<1>8. CASE hd = NoHandle
  <2>1. h0.latest = k
    BY <1>00, <1>2, <1>3, <1>8, LatestIsMax DEF NewTreeHandle
  <2>2. HandleRoot(s, k) = s.leaves
    BY <1>0, <1>2, <1>3, <1>4, RootOfWritten
  <2> QED BY <1>00, <1>3, <1>5, <1>8, <2>1, <2>2
<1> QED BY <1>7, <1>8

\* ComputeTreeRoot returns the root of all leaves, leaves them in the shards
\* under the latest checkpoint and touches nothing else of the store.
ComputesRoot(s, c) ==
    /\ c = [store |-> c.store, handle |-> c.handle]
    /\ c.handle \in TreeHandles
    /\ c.handle.size = Len(s.leaves) /\ c.handle.rootLeafCount = Len(s.leaves)
    /\ c.handle.root = s.leaves
    /\ c.store = [s EXCEPT !.shards = c.store.shards, !.checkpoints = c.store.checkpoints]
    /\ Written(c.store.shards, c.store.checkpoints, s.leaves, height + 1)

\* It does so from a handle in memory and from one just loaded alike.
LEMMA TreeRootComputed ==
    ASSUME NEW s, NEW hd, NEW o, NodeInv(s, hd, height, o), height \in Nat \ {0},
           s.leaves # <<>>
    PROVE  ComputesRoot(s, ComputeTreeRoot(s, hd))
<1> DEFINE c == ComputeTreeRoot(s, hd)
           h0 == LoadedHandle(s, hd)
           appended == h0.size < NextIndex(s)
           s1 == IF appended THEN Checkpoint(AppendFromKV(s, h0.size), height) ELSE s
           latest == IF appended THEN height ELSE h0.latest
           root == IF appended \/ h0.root = <<>> \/ h0.rootLeafCount # NextIndex(s)
                   THEN HandleRoot(s1, latest) ELSE h0.root
<1>1. c = [store |-> s1, handle |-> [size |-> NextIndex(s), latest |-> latest,
                                     root |-> root, rootLeafCount |-> NextIndex(s)]]
  BY DEF ComputeTreeRoot
<1>2. s \in StoreRecords /\ s.leaves \in Seq(Leaves) /\ s.root \in Seq(Leaves)
      /\ s.shards \in Maps(Leaves) /\ s.checkpoints \in Maps(Nat)
  BY DEF NodeInv, StoreRecords
<1>3. /\ h0.size \in {0, s.nextIndexAtRoot} /\ h0.size <= Len(s.leaves)
      /\ s.nextIndexAtRoot \in Nat /\ Len(s.leaves) \in Nat /\ Len(s.leaves) > 0
      /\ s.shards = EmptyMap => h0.size = 0
      /\ hd = NoHandle => h0.root = <<>> /\ h0.latest = NewTreeHandle(s, ResumeAt(s)).latest
      /\ hd # NoHandle => h0 = hd
  BY <1>2, HandleLoads, EmptySeq
<1>4. NextIndex(s) = Len(s.leaves)
  BY DEF NextIndex
<1> HIDE DEF h0, c
<1>5. SUFFICES /\ latest \in Nat /\ root = s.leaves
               /\ s1 = [s EXCEPT !.shards = s1.shards, !.checkpoints = s1.checkpoints]
               /\ Written(s1.shards, s1.checkpoints, s.leaves, height + 1)
  <2> HIDE DEF s1, root, latest
  <2>1. ComputesRoot(s, c)
    BY <1>1, <1>2, <1>3, <1>4, <1>5 DEF ComputesRoot, TreeHandles
  <2> QED BY <2>1 DEF c
<1>6. CASE appended
  <2>1. s1 = Checkpoint(AppendFromKV(s, h0.size), height)
    BY <1>6
  <2> HIDE DEF s1
  <2>2. /\ s1 = [s EXCEPT !.shards = s1.shards, !.checkpoints = s1.checkpoints]
        /\ Written(s1.shards, s1.checkpoints, s.leaves, height + 1)
        /\ HandleRoot(s1, height) = s.leaves
    BY <1>3, <1>4, <1>6, <2>1, AppendWrites, Zenon
  <2> QED BY <1>6, <2>2
<1>7. CASE ~appended
  <2>1. h0.size = Len(s.leaves)
    BY <1>3, <1>4, <1>7
  <2>2. /\ h0.latest \in Nat /\ Written(s.shards, s.checkpoints, s.leaves, height + 1)
        /\ IF h0.root = <<>> \/ h0.rootLeafCount # Len(s.leaves)
           THEN HandleRoot(s, h0.latest) = s.leaves ELSE h0.root = s.leaves
    BY <2>1, NothingToAppend DEF h0
  <2>3. s1 = s /\ latest = h0.latest
    BY <1>7
  <2>4. s = [s EXCEPT !.shards = s.shards, !.checkpoints = s.checkpoints]
    BY <1>2, Zenon DEF StoreRecords
  <2> QED BY <1>4, <1>7, <2>2, <2>3, <2>4
<1> QED BY <1>6, <1>7

\* A root published for new leaves is an anchor with a range of its own.
LEMMA PublishAnchors ==
    ASSUME NEW s, NEW hd, NEW o, NodeInv(s, hd, height, o), height \in Nat \ {0},
           s.nextIndexAtRoot < Len(s.leaves),
           NEW p, p.leaves = s.leaves, p.nextIndexAtRoot = Len(s.leaves), NEW range,
           range = [start |-> s.nextIndexAtRoot, count |-> Len(s.leaves) - s.nextIndexAtRoot],
           IsPut(Seq(Leaves), s.roots, p.roots, height, s.leaves),
           IsPut(BlockRanges, s.blockLeaf, p.blockLeaf, height, range)
    PROVE  AnchorInv(p, height + 1)
<1>0. s.leaves \in Seq(Leaves) /\ s.nextIndexAtRoot \in Nat /\ Len(s.leaves) \in Nat
      /\ s.roots \in Maps(Seq(Leaves)) /\ s.blockLeaf \in Maps(BlockRanges)
  BY LenProperties DEF NodeInv, StoreRecords
<1>00. /\ DOMAIN p.roots = DOMAIN s.roots \cup {height} /\ p.roots[height] = s.leaves
       /\ \A g \in DOMAIN s.roots : g # height => p.roots[g] = s.roots[g]
       /\ DOMAIN p.blockLeaf = DOMAIN s.blockLeaf \cup {height} /\ p.blockLeaf[height] = range
       /\ \A g \in DOMAIN s.blockLeaf : g # height => p.blockLeaf[g] = s.blockLeaf[g]
  BY DEF IsPut
<1>1. DOMAIN s.roots \in SUBSET Nat /\ DOMAIN s.blockLeaf \in SUBSET Nat
      /\ \A g \in DOMAIN s.blockLeaf : s.blockLeaf[g].start \in Nat /\ s.blockLeaf[g].count \in Nat
  <2>1. PICK D \in SUBSET Nat : s.roots \in [D -> Seq(Leaves)]
    BY <1>0, Zenon DEF Maps
  <2>2. PICK E \in SUBSET Nat : s.blockLeaf \in [E -> BlockRanges]
    BY <1>0, Zenon DEF Maps
  <2> QED BY <2>1, <2>2, Zenon DEF BlockRanges
<1>2. \A g \in DOMAIN s.blockLeaf : g < height /\ p.blockLeaf[g] = s.blockLeaf[g]
  BY <1>00, <1>1 DEF NodeInv, AnchorInv
<1>3. \A g \in DOMAIN s.roots : g < height /\ p.roots[g] = s.roots[g]
  BY <1>00, <1>1 DEF NodeInv, AnchorInv
<1>4. /\ p.roots[height] = s.leaves
      /\ p.blockLeaf[height].start = s.nextIndexAtRoot
      /\ p.blockLeaf[height].count = Len(s.leaves) - s.nextIndexAtRoot
  BY <1>00
<1>5. ASSUME NEW g \in DOMAIN p.roots
      PROVE  /\ g < height + 1 /\ Begins(p.leaves, p.roots[g]) /\ g \in DOMAIN p.blockLeaf
             /\ p.blockLeaf[g].start + p.blockLeaf[g].count = Len(p.roots[g])
  <2>1. CASE g = height
    BY <1>0, <1>00, <1>4, <2>1 DEF Begins
  <2>2. CASE g \in DOMAIN s.roots
    BY <1>00, <1>1, <1>2, <1>3, <2>2 DEF NodeInv, AnchorInv
  <2> QED BY <1>00, <2>1, <2>2
<1>6. ASSUME NEW g \in DOMAIN p.blockLeaf
      PROVE  /\ g < height + 1
             /\ p.blockLeaf[g].start + p.blockLeaf[g].count <= p.nextIndexAtRoot
  <2>1. CASE g = height
    BY <1>0, <1>00, <1>4, <2>1
  <2>2. CASE g \in DOMAIN s.blockLeaf
    <3>1. s.blockLeaf[g].start + s.blockLeaf[g].count <= s.nextIndexAtRoot
      BY <2>2 DEF NodeInv, AnchorInv
    <3>2. g \in Nat /\ g < height
      BY <1>1, <1>2, <2>2
    <3>3. p.blockLeaf[g] = s.blockLeaf[g]
      BY <1>2, <2>2
    <3>4. s.blockLeaf[g].start + s.blockLeaf[g].count \in Nat
      BY <1>1, <2>2
    <3> QED BY <1>0, <3>1, <3>2, <3>3, <3>4
  <2> QED BY <1>00, <2>1, <2>2
<1>7. ASSUME NEW i \in 1..p.nextIndexAtRoot
      PROVE  \E g \in DOMAIN p.blockLeaf : Covering(p, i) = {g}
  <2>1. CASE i <= s.nextIndexAtRoot
    <3>1. PICK g \in DOMAIN s.blockLeaf : Covering(s, i) = {g}
      BY <1>0, <2>1 DEF NodeInv, AnchorInv
    <3>2. height \notin Covering(p, i)
      BY <1>0, <1>4, <2>1 DEF Covering
    <3>3. Covering(p, i) = Covering(s, i)
      BY <1>00, <1>2, <3>2 DEF Covering
    <3> QED BY <1>00, <3>1, <3>3
  <2>2. CASE i > s.nextIndexAtRoot
    <3>1. \A g \in DOMAIN s.blockLeaf : g \notin Covering(p, i)
      BY <1>0, <1>1, <1>2, <2>2 DEF Covering, NodeInv, AnchorInv
    <3>2. height \in Covering(p, i)
      BY <1>0, <1>00, <1>4, <2>2 DEF Covering
    <3>3. Covering(p, i) \subseteq DOMAIN s.blockLeaf \cup {height}
      BY <1>00 DEF Covering
    <3>4. Covering(p, i) = {height}
      BY <3>1, <3>2, <3>3
    <3> QED BY <1>00, <3>4
  <2>3. i \in Int
    OBVIOUS
  <2> QED BY <1>0, <2>1, <2>2, <2>3
<1> QED BY <1>5, <1>6, <1>7 DEF AnchorInv

\* EndBlock leaves every leaf under a root, and a store without a root height
\* as it was in that respect.
BlockEnded(s, e) ==
    /\ NodeInv(e.store, e.handle, height + 1, FALSE)
    /\ e.store.leaves = s.leaves /\ e.store.gov = s.gov /\ e.store.vans = s.vans
    /\ \/ e.store.height = height
       \/ e.store.height = s.height /\ e.store.nextIndexAtRoot = s.nextIndexAtRoot

\* EndBlock keeps a node's invariant and closes the block.
LEMMA EndBlockKeepsNode ==
    ASSUME NEW s, NEW hd, NEW o, NodeInv(s, hd, height, o), height \in Nat \ {0},
           o \in BOOLEAN
    PROVE  BlockEnded(s, EndBlockOn(s, hd))
<1>1. s \in StoreRecords /\ s.leaves \in Seq(Leaves) /\ s.root \in Seq(Leaves)
      /\ s.nextIndexAtRoot \in Nat /\ Len(s.leaves) \in Nat /\ s.height \in Nat
      /\ s.roots \in Maps(Seq(Leaves)) /\ s.blockLeaf \in Maps(BlockRanges)
  BY LenProperties DEF NodeInv, StoreRecords
<1>2. s.nextIndexAtRoot <= Len(s.leaves)
  BY DEF NodeInv, RootInv, Begins
<1> DEFINE e == EndBlockOn(s, hd)
           u == UpdateRoot(s, hd)
<1>3. e = [u EXCEPT !.store.active = @ /\ height < VoteEnd]
  BY DEF EndBlockOn
<1>4. SUFFICES /\ u = [store |-> u.store, handle |-> u.handle]
               /\ NodeInv(u.store, u.handle, height + 1, FALSE)
               /\ u.store.leaves = s.leaves /\ u.store.gov = s.gov /\ u.store.vans = s.vans
               /\ \/ u.store.height = height
                  \/ u.store.height = s.height /\ u.store.nextIndexAtRoot = s.nextIndexAtRoot
  <2> DEFINE t == u.store
             a == t.active /\ height < VoteEnd
  <2> HIDE DEF u
  <2>1. t \in StoreRecords
    BY <1>4 DEF NodeInv
  <2>2. e.store = [t EXCEPT !.active = a] /\ e.handle = u.handle
    BY <1>3, <1>4, <2>1 DEF StoreRecords
  <2>3. a \in BOOLEAN
    BY <2>1 DEF StoreRecords
  <2> HIDE DEF a, t
  <2>4. /\ e.store \in StoreRecords /\ e.store.leaves = t.leaves /\ e.store.root = t.root
        /\ e.store.gov = t.gov /\ e.store.vans = t.vans
        /\ e.store.height = t.height /\ e.store.nextIndexAtRoot = t.nextIndexAtRoot
        /\ e.store.roots = t.roots /\ e.store.blockLeaf = t.blockLeaf
        /\ e.store.shards = t.shards /\ e.store.checkpoints = t.checkpoints
    BY <2>1, <2>2, <2>3, Zenon DEF StoreRecords
  <2>5. NodeInv(t, u.handle, height + 1, FALSE)
    BY <1>4, Zenon DEF t
  <2> HIDE DEF e
  <2>6. NodeInv(e.store, e.handle, height + 1, FALSE)
    <3>1. RootInv(e.store)
      BY <2>4, <2>5, Zenon DEF NodeInv, RootInv
    <3>2. AnchorInv(e.store, height + 1)
      BY <2>4, <2>5 DEF NodeInv, AnchorInv, Covering
    <3>3. LibraryInv(e.store, e.handle, height + 1)
      BY <2>2, <2>4, <2>5 DEF NodeInv, LibraryInv, HandleInv
    <3> QED BY <2>4, <2>5, <3>1, <3>2, <3>3, Zenon DEF NodeInv
  <2> QED BY <1>4, <2>4, <2>6, Zenon DEF t, e, BlockEnded
<1>5. CASE ~s.active \/ s.leaves = <<>>
  <2>1. u = [store |-> s, handle |-> hd]
    BY <1>1, <1>5, EmptySeq DEF UpdateRoot, NextIndex
  <2>2. Len(s.leaves) = s.nextIndexAtRoot
    BY <1>1, <1>2, <1>5, EmptySeq DEF NodeInv
  <2>3. AnchorInv(s, height + 1)
    <3>1. DOMAIN s.roots \in SUBSET Nat /\ DOMAIN s.blockLeaf \in SUBSET Nat
      BY <1>1, Zenon DEF Maps
    <3> QED BY <3>1 DEF NodeInv, AnchorInv
  <2>4. LibraryInv(s, hd, height + 1)
    <3>1. DOMAIN s.checkpoints \in SUBSET Nat
      BY <1>1, Zenon DEF Maps, StoreRecords
    <3> QED BY <3>1 DEF NodeInv, LibraryInv
  <2> QED BY <2>1, <2>2, <2>3, <2>4 DEF NodeInv
<1>6. CASE s.active /\ s.leaves # <<>>
  <2> DEFINE c == ComputeTreeRoot(s, hd)
             t == c.store
  <2>1. ComputesRoot(s, c)
    BY <1>6, TreeRootComputed
  <2>2. Len(s.leaves) > 0
    BY <1>1, <1>6, EmptySeq
  <2>3. u = IF c.handle.root = s.root THEN c
            ELSE [c EXCEPT !.store = PublishRoot(t, c.handle.root)]
    BY <1>6, <2>2 DEF UpdateRoot, NextIndex
  <2> HIDE DEF c, u
  <2>4. /\ t \in StoreRecords /\ t.leaves = s.leaves /\ t.root = s.root
        /\ t.gov = s.gov /\ t.vans = s.vans /\ t.active = s.active
        /\ t.height = s.height /\ t.nextIndexAtRoot = s.nextIndexAtRoot
        /\ t.roots = s.roots /\ t.blockLeaf = s.blockLeaf
        /\ Written(t.shards, t.checkpoints, s.leaves, height + 1)
    BY <1>1, <2>1, Zenon DEF ComputesRoot, Written, StoreRecords
  <2> HIDE DEF t
  <2>5. CASE s.root = s.leaves
    <3>1. u = c
      BY <2>1, <2>3, <2>5 DEF ComputesRoot
    <3>2. s.nextIndexAtRoot = Len(s.leaves)
      BY <2>5 DEF NodeInv, RootInv
    <3>3. RootInv(t)
      BY <2>4 DEF NodeInv, RootInv
    <3>4. AnchorInv(t, height + 1)
      <4>1. DOMAIN s.roots \in SUBSET Nat /\ DOMAIN s.blockLeaf \in SUBSET Nat
        BY <1>1, Zenon DEF Maps
      <4> QED BY <2>4, <4>1 DEF NodeInv, AnchorInv, Covering
    <3>5. LibraryInv(t, c.handle, height + 1)
      BY <2>1, <2>2, <2>4, <2>5, <3>2 DEF LibraryInv, HandleInv, Written, ComputesRoot
    <3>6. NodeInv(t, c.handle, height + 1, FALSE)
      BY <2>4, <3>2, <3>3, <3>4, <3>5 DEF NodeInv
    <3>7. c = [store |-> c.store, handle |-> c.handle]
      BY <2>1 DEF ComputesRoot
    <3> QED BY <2>4, <3>1, <3>6, <3>7, Zenon DEF t
  <2>6. CASE s.root # s.leaves
    <3> DEFINE p == PublishRoot(t, s.leaves)
               range == [start |-> s.nextIndexAtRoot, count |-> Len(s.leaves) - s.nextIndexAtRoot]
    <3>1. s.nextIndexAtRoot < Len(s.leaves)
      BY <1>1, <1>2, <2>6, SeqEqual DEF NodeInv, RootInv, Begins
    <3>2. range \in BlockRanges
      BY <1>1, <3>1 DEF BlockRanges
    <3>3. u = [store |-> p, handle |-> c.handle]
      BY <2>1, <2>3, <2>6 DEF ComputesRoot, t
    <3> DEFINE R == Put(s.roots, height, s.leaves)
               B == Put(s.blockLeaf, height, range)
    <3>4. p = [t EXCEPT !.roots = R, !.blockLeaf = B,
                        !.root = s.leaves, !.height = height, !.nextIndexAtRoot = Len(s.leaves)]
      BY <2>4, <3>1 DEF PublishRoot, NextIndex, StoreRecords
    <3>5a. IsPut(Seq(Leaves), s.roots, R, height, s.leaves)
      BY <1>1, PutMap
    <3>6a. IsPut(BlockRanges, s.blockLeaf, B, height, range)
      <4> HIDE DEF range
      <4> QED BY <1>1, <3>2, PutMap
    <3> HIDE DEF R, B
    <3>5. /\ R \in Maps(Seq(Leaves)) /\ DOMAIN R = DOMAIN s.roots \cup {height}
          /\ R[height] = s.leaves
          /\ \A g \in DOMAIN s.roots : g # height => R[g] = s.roots[g]
      BY <3>5a DEF IsPut
    <3>6. /\ B \in Maps(BlockRanges) /\ DOMAIN B = DOMAIN s.blockLeaf \cup {height}
          /\ B[height] = range
          /\ \A g \in DOMAIN s.blockLeaf : g # height => B[g] = s.blockLeaf[g]
      BY <3>6a DEF IsPut
    <3> HIDE DEF p
    <3>7. /\ p \in StoreRecords /\ p.leaves = s.leaves /\ p.root = s.leaves
          /\ p.gov = s.gov /\ p.vans = s.vans /\ p.active = s.active
          /\ p.nextIndexAtRoot = Len(s.leaves) /\ p.height = height
          /\ p.roots = R /\ p.blockLeaf = B
          /\ p.shards = t.shards /\ p.checkpoints = t.checkpoints
      <4> DEFINE n == Len(s.leaves)
      <4> HIDE DEF n
      <4>2. n \in Nat /\ s.leaves \in Seq(Leaves) /\ height \in Nat
        BY <1>1 DEF n
      <4>3. p = [t EXCEPT !.roots = R, !.blockLeaf = B,
                          !.root = s.leaves, !.height = height, !.nextIndexAtRoot = n]
        BY <3>4 DEF n
      <4>4. R \in Maps(Seq(Leaves)) /\ B \in Maps(BlockRanges)
        BY <3>5, <3>6
      <4>5. /\ p \in StoreRecords /\ p.leaves = t.leaves /\ p.root = s.leaves
            /\ p.gov = t.gov /\ p.vans = t.vans /\ p.active = t.active
            /\ p.nextIndexAtRoot = n /\ p.height = height
            /\ p.roots = R /\ p.blockLeaf = B
            /\ p.shards = t.shards /\ p.checkpoints = t.checkpoints
        BY <2>4, <4>2, <4>3, <4>4, Zenon DEF StoreRecords
      <4> QED BY <2>4, <4>5 DEF n
    <3>8. RootInv(p)
      BY <1>1, <3>7 DEF RootInv, Begins
    <3>9. AnchorInv(p, height + 1)
      <4> HIDE DEF range
      <4>1. range = [start |-> s.nextIndexAtRoot, count |-> Len(s.leaves) - s.nextIndexAtRoot]
        BY DEF range
      <4> QED BY <3>1, <3>5a, <3>6a, <3>7, <4>1, PublishAnchors
    <3>10. LibraryInv(p, c.handle, height + 1)
      BY <2>1, <2>2, <2>4, <3>7 DEF LibraryInv, HandleInv, Written, ComputesRoot
    <3>11. NodeInv(p, c.handle, height + 1, FALSE)
      BY <3>7, <3>8, <3>9, <3>10 DEF NodeInv
    <3> QED BY <3>3, <3>7, <3>11, Zenon
  <2> QED BY <2>5, <2>6, Zenon
<1> QED BY <1>5, <1>6, Zenon

\* What EndBlock leaves in a store, without a word about the handle.
StoreAfter(s) ==
    LET s1 == IF s.nextIndexAtRoot < NextIndex(s)
              THEN Checkpoint(AppendFromKV(s, s.nextIndexAtRoot), height) ELSE s
        t  == IF ~s.active \/ NextIndex(s) = 0 THEN s
              ELSE IF s.leaves = s.root THEN s1 ELSE PublishRoot(s1, s.leaves)
    IN  [t EXCEPT !.active = @ /\ height < VoteEnd]

\* The handle does not show in the store EndBlock leaves, as long as a store
\* without a root height has no rooted leaf: a handle in memory and one just
\* loaded resume at the same leaf.
LEMMA HandleNeverShows ==
    ASSUME NEW s, NEW hd, NEW o, NodeInv(s, hd, height, o), height \in Nat \ {0},
           s.height = 0 => s.nextIndexAtRoot = 0
    PROVE  EndBlockOn(s, hd).store = StoreAfter(s)
<1> DEFINE s1 == IF s.nextIndexAtRoot < NextIndex(s)
                 THEN Checkpoint(AppendFromKV(s, s.nextIndexAtRoot), height) ELSE s
           t  == IF ~s.active \/ NextIndex(s) = 0 THEN s
                 ELSE IF s.leaves = s.root THEN s1 ELSE PublishRoot(s1, s.leaves)
           u  == UpdateRoot(s, hd)
<1>1. s \in StoreRecords /\ s.leaves \in Seq(Leaves) /\ s.height \in Nat
      /\ s.nextIndexAtRoot \in Nat /\ Len(s.leaves) \in Nat
  BY LenProperties DEF NodeInv, StoreRecords
<1>2. LoadedHandle(s, hd).size = s.nextIndexAtRoot
  <2>1. CASE hd = NoHandle
    BY <1>1, <2>1 DEF LoadedHandle, NewTreeHandle, ResumeAt
  <2>2. CASE hd # NoHandle
    BY <2>2 DEF LoadedHandle, NodeInv, LibraryInv, HandleInv
  <2> QED BY <2>1, <2>2
<1>3. u = [store |-> t, handle |-> u.handle]
  <2>1. CASE ~s.active \/ NextIndex(s) = 0
    BY <2>1 DEF UpdateRoot
  <2>2. CASE s.active /\ NextIndex(s) # 0
    <3>1. s.leaves # <<>>
      BY <1>1, <2>2, EmptySeq DEF NextIndex
    <3>2. ComputesRoot(s, ComputeTreeRoot(s, hd))
      BY <2>2, <3>1, TreeRootComputed
    <3>3. ComputeTreeRoot(s, hd).store = s1
      BY <1>2 DEF ComputeTreeRoot
    <3> DEFINE c == ComputeTreeRoot(s, hd)
    <3>4. u = IF c.handle.root = s.root THEN c
              ELSE [c EXCEPT !.store = PublishRoot(c.store, c.handle.root)]
      BY <2>2 DEF UpdateRoot
    <3> HIDE DEF s1, c, u
    <3>5. c = [store |-> s1, handle |-> c.handle] /\ c.handle.root = s.leaves
      BY <3>2, <3>3 DEF ComputesRoot, c
    <3> QED BY <2>2, <3>4, <3>5
  <2> QED BY <1>1, <2>1, <2>2 DEF StoreRecords
<1>4. EndBlockOn(s, hd) = [u EXCEPT !.store.active = @ /\ height < VoteEnd]
  BY DEF EndBlockOn
<1>5. StoreAfter(s) = [t EXCEPT !.active = @ /\ height < VoteEnd]
  BY DEF StoreAfter
<1> HIDE DEF t, u
<1>6. EndBlockOn(s, hd).store = [u.store EXCEPT !.active = @ /\ height < VoteEnd]
  BY <1>3, <1>4, Zenon
<1> QED BY <1>3, <1>5, <1>6

-----------------------------------------------------------------------------
(* Ballots.                                                                *)

IsVan(l) == l.kind = "van"
IsVc(l) == l.kind = "vc"

\* Leaves of different delegations share no note, a delegation has at most one
\* VAN left to spend, that VAN knows every vote of the delegation, and no two
\* votes are for the same proposal.
Ballots(ls, gov, vans) ==
    /\ \A i \in DOMAIN ls : ls[i].notes \subseteq gov
    /\ \A i, j \in DOMAIN ls : ls[i].notes = ls[j].notes \/ ls[i].notes \cap ls[j].notes = {}
    /\ \A i \in DOMAIN ls : IsVc(ls[i]) => \E p \in Proposals : ls[i].proposals = {p}
    /\ \A i, j \in DOMAIN ls :
          /\ ls[i].notes = ls[j].notes
          /\ IsVan(ls[j]) /\ ls[j] \notin vans
          => /\ IsVan(ls[i]) /\ ls[i] \notin vans => ls[i] = ls[j]
             /\ IsVc(ls[i]) => ls[i].proposals \subseteq ls[j].proposals
    /\ \A i, j \in DOMAIN ls :
          IsVc(ls[i]) /\ IsVc(ls[j]) /\ ls[i] = ls[j] => i = j

BallotInv(s) == Ballots(s.leaves, s.gov, s.vans)

\* new is a VAN of the delegation D and votes of it.  The VAN knows the votes
\* W, the ones before, V, among them; the delegation has no other VAN that is
\* not among vans, and no new vote repeats.
OneBallot(s, gov, vans, new, D, V, W) ==
    /\ s.gov \subseteq gov /\ s.vans \subseteq vans
    /\ D \subseteq gov /\ V \subseteq W
    /\ \A i \in DOMAIN s.leaves :
          \/ s.leaves[i].notes \cap D = {} /\ s.leaves[i].notes # D
          \/ /\ s.leaves[i].notes = D
             /\ IsVan(s.leaves[i]) => s.leaves[i] \in vans
             /\ IsVc(s.leaves[i]) => s.leaves[i].proposals \subseteq V
    /\ \A i \in DOMAIN new :
          \/ new[i] = Van(D, W)
          \/ \E p \in Proposals : p \in W /\ p \notin V /\ new[i] = Vc(D, p)
    /\ \A i, j \in DOMAIN new : IsVc(new[i]) /\ new[i] = new[j] => i = j

\* A message that appends such leaves of one delegation keeps ballots apart.
LEMMA BallotGrowth ==
    ASSUME NEW s \in StoreRecords, BallotInv(s),
           NEW gov \in SUBSET Notes, NEW vans \in SUBSET Leaves, NEW new \in Seq(Leaves),
           NEW t, GrowsTo(s, t, gov, vans, new),
           NEW D, NEW V, NEW W, OneBallot(s, gov, vans, new, D, V, W)
    PROVE  BallotInv(t)
<1> USE DEF OneBallot
<1> DEFINE n == Len(s.leaves)
           ls == s.leaves
           lt == t.leaves
           Old(i) == i \in DOMAIN ls /\ lt[i] = ls[i]
           New(i) == i \in Nat /\ i > n /\ i - n \in DOMAIN new /\ lt[i] = new[i - n]
<1>1. s.leaves \in Seq(Leaves) /\ n \in Nat /\ Len(new) \in Nat
      /\ DOMAIN ls = 1..n /\ DOMAIN new = 1..Len(new)
  BY LenProperties DEF StoreRecords
<1>2. t.leaves = s.leaves \o new /\ t.gov = gov /\ t.vans = vans
  BY DEF GrowsTo
<1>3. DOMAIN lt = 1..(n + Len(new))
  BY <1>1, <1>2, ConcatProperties, LenProperties
<1>4. \A i \in DOMAIN lt : Old(i) \/ New(i)
  BY <1>1, <1>2, <1>3, ConcatProperties
<1>5. \A i \in 1..n : \A j : New(j) => i # j
  BY <1>1
<1> HIDE DEF n
<1>6. \A i : New(i) => lt[i].notes = D /\ ((IsVan(lt[i]) /\ lt[i].proposals = W)
                       \/ (IsVc(lt[i]) /\ \E p \in Proposals : p \in W /\ p \notin V /\ lt[i].proposals = {p}))
  BY DEF Van, Vc, IsVan, IsVc
<1>6a. \A i : New(i) /\ IsVan(lt[i]) => lt[i] = Van(D, W)
  BY DEF Van, Vc, IsVan
<1>7. \A i : Old(i) => lt[i] = ls[i] /\ i \in DOMAIN ls
  OBVIOUS
<1>8. ASSUME NEW i, NEW j, New(i), New(j), IsVc(lt[i]), lt[i] = lt[j]
      PROVE  i = j
  <2>1. i \in Nat /\ j \in Nat /\ n \in Nat
    BY <1>1, <1>8
  <2>2. i - n \in DOMAIN new /\ j - n \in DOMAIN new
        /\ IsVc(new[i - n]) /\ new[i - n] = new[j - n]
    BY <1>8
  <2>3. i - n = j - n
    BY <2>2, Zenon
  <2> QED BY <2>1, <2>3
<1> HIDE DEF Old, New
<1>8a. /\ D \subseteq gov /\ \A i \in DOMAIN ls : ls[i].notes \subseteq gov
       /\ \A i \in DOMAIN ls : ls[i].notes = D \/ ls[i].notes \cap D = {}
       /\ \A i, j \in DOMAIN ls : ls[i].notes = ls[j].notes \/ ls[i].notes \cap ls[j].notes = {}
       /\ \A i \in DOMAIN ls : IsVc(ls[i]) => \E p \in Proposals : ls[i].proposals = {p}
  BY Zenon DEF BallotInv, Ballots
<1> HIDE DEF OneBallot
<1>9. \A i \in DOMAIN lt : lt[i].notes \subseteq gov
  BY <1>4, <1>6, <1>7, <1>8a, Zenon
<1>10. \A i, j \in DOMAIN lt : lt[i].notes = lt[j].notes \/ lt[i].notes \cap lt[j].notes = {}
  <2>1. \A i \in DOMAIN lt : lt[i].notes = D \/ (i \in DOMAIN ls /\ lt[i] = ls[i])
    BY <1>4, <1>6, <1>7, Zenon
  <2> QED BY <1>8a, <2>1
<1>11. \A i \in DOMAIN lt : IsVc(lt[i]) => \E p \in Proposals : lt[i].proposals = {p}
  BY <1>4, <1>6, <1>7, <1>8a DEF IsVan, IsVc
<1> USE DEF OneBallot
<1>12. ASSUME NEW i \in DOMAIN lt, NEW j \in DOMAIN lt, lt[i].notes = lt[j].notes,
              IsVan(lt[j]), lt[j] \notin vans
       PROVE  /\ IsVan(lt[i]) /\ lt[i] \notin vans => lt[i] = lt[j]
              /\ IsVc(lt[i]) => lt[i].proposals \subseteq lt[j].proposals
  <2>1. CASE Old(j)
    <3>1. lt[j].notes # D /\ ls[j] \notin s.vans
      BY <1>7, <1>12, <2>1, Zenon
    <3>2. Old(i)
      BY <1>4, <1>6, <1>12, <3>1, Zenon
    <3>3. ls[i] = lt[i] /\ ls[j] = lt[j] /\ i \in DOMAIN ls /\ j \in DOMAIN ls
      BY <1>7, <2>1, <3>2
    <3>4. IsVan(lt[i]) /\ lt[i] \notin vans => lt[i] \notin s.vans
      BY Zenon
    <3> QED BY <1>12, <3>1, <3>3, <3>4 DEF BallotInv, Ballots
  <2>2. CASE New(j)
    <3>1. lt[j].notes = D /\ lt[j].proposals = W /\ lt[j] = Van(D, W)
      BY <1>6, <1>6a, <1>12, <2>2, Zenon DEF IsVan, IsVc
    <3>2. CASE Old(i)
      BY <1>7, <1>12, <3>1, <3>2, Zenon
    <3>3. CASE New(i)
      BY <1>6, <1>6a, <3>1, <3>3 DEF IsVan, IsVc
    <3> QED BY <1>4, <3>2, <3>3, Zenon
  <2> QED BY <1>4, <2>1, <2>2, Zenon
<1>13. ASSUME NEW i \in DOMAIN lt, NEW j \in DOMAIN lt,
              IsVc(lt[i]), IsVc(lt[j]), lt[i] = lt[j]
       PROVE  i = j
  <2>1. \A k, l : New(k) /\ Old(l) /\ IsVc(lt[k]) => lt[k] # lt[l]
    <3> SUFFICES ASSUME NEW k, NEW l, New(k), Old(l), IsVc(lt[k]), lt[k] = lt[l]
                 PROVE  FALSE
      BY Zenon
    <3>1. lt[l].notes = D /\ IsVc(ls[l]) /\ ls[l].notes = D /\ l \in DOMAIN ls /\ ls[l] = lt[l]
      BY <1>6, <1>7
    <3>2. ls[l].proposals \subseteq V
      BY <3>1, Zenon
    <3>3. PICK p \in Proposals : p \notin V /\ lt[k].proposals = {p}
      BY <1>6, Zenon DEF IsVan, IsVc
    <3> QED BY <3>1, <3>2, <3>3, Zenon
  <2>2. CASE Old(i) /\ Old(j)
    BY <1>7, <1>13, <2>2, Zenon DEF BallotInv, Ballots
  <2> QED BY <1>4, <1>8, <1>13, <2>1, <2>2, Zenon
<1>14. \A i, j \in DOMAIN lt :
          /\ lt[i].notes = lt[j].notes
          /\ IsVan(lt[j]) /\ lt[j] \notin vans
          => /\ IsVan(lt[i]) /\ lt[i] \notin vans => lt[i] = lt[j]
             /\ IsVc(lt[i]) => lt[i].proposals \subseteq lt[j].proposals
  BY <1>12, Zenon
<1>15. \A i, j \in DOMAIN lt : IsVc(lt[i]) /\ IsVc(lt[j]) /\ lt[i] = lt[j] => i = j
  BY <1>13, Zenon
<1>16. t.gov = gov /\ t.vans = vans
  BY <1>2
<1> QED BY <1>9, <1>10, <1>11, <1>14, <1>15, <1>16, Zenon DEF BallotInv, Ballots

\* Executing an accepted message: leaves are appended and ballots stay apart.
Extended(s, t) ==
    /\ s.active
    /\ BallotInv(t)
    /\ \E gov \in SUBSET Notes, vans \in SUBSET Leaves, new \in Seq(Leaves) :
          GrowsTo(s, t, gov, vans, new)

\* Notes that no delegation used are in no leaf.
LEMMA FreshNotes ==
    ASSUME NEW s, BallotInv(s), NEW D, D # {}, D \cap s.gov = {}
    PROVE  \A i \in DOMAIN s.leaves : s.leaves[i].notes \cap D = {} /\ s.leaves[i].notes # D
BY DEF BallotInv, Ballots

\* DelegateVote starts a ballot of its own.
LEMMA DelegateExtends ==
    ASSUME NEW s \in StoreRecords, BallotInv(s), NEW notes \in SUBSET Notes,
           DelegateVoteAccepted(s, notes)
    PROVE  Extended(s, DelegateVote(s, notes))
<1> DEFINE gov == s.gov \cup notes
           new == <<Van(notes, {})>>
           t == Grown(s, gov, s.vans, new)
<1>1. s.active /\ notes # {} /\ notes \cap s.gov = {}
  BY DEF DelegateVoteAccepted, ValidateRoundForVoting
<1>2. gov \in SUBSET Notes /\ s.vans \in SUBSET Leaves
  BY DEF StoreRecords
<1>3. Van(notes, {}) \in Leaves
  BY DEF Van, Leaves
<1>4. new \in Seq(Leaves) /\ DOMAIN new = {1} /\ new[1] = Van(notes, {})
  BY <1>3
<1>5. DelegateVote(s, notes) = t
  BY Zenon DEF DelegateVote, AppendCommitments, Grown, StoreRecords
<1> HIDE DEF gov, new, t
<1>6. GrowsTo(s, t, gov, s.vans, new)
  BY <1>2, <1>4, GrownFields DEF t
<1>7. \A i \in DOMAIN s.leaves : s.leaves[i].notes \cap notes = {} /\ s.leaves[i].notes # notes
  BY <1>1, FreshNotes
<1>8. s.gov \subseteq gov /\ notes \in SUBSET gov
  BY DEF gov
<1>9. BallotInv(t)
  <2>1. OneBallot(s, gov, s.vans, new, notes, {}, {})
    BY <1>4, <1>7, <1>8 DEF OneBallot
  <2> QED BY <1>2, <1>4, <1>6, <2>1, BallotGrowth
<1> QED BY <1>1, <1>2, <1>4, <1>5, <1>6, <1>9 DEF Extended

\* A leaf below an anchor is a leaf of the tree.
LEMMA AnchoredIsLeaf ==
    ASSUME NEW s \in StoreRecords, NEW h, AnchorInv(s, h),
           NEW g \in DOMAIN s.roots, NEW van \in Range(s.roots[g])
    PROVE  \E k \in DOMAIN s.leaves : s.leaves[k] = van
<1>1. PICK D \in SUBSET Nat : s.roots \in [D -> Seq(Leaves)]
  BY DEF StoreRecords, Maps
<1>2. s.leaves \in Seq(Leaves) /\ s.roots[g] \in Seq(Leaves)
  BY <1>1, Zenon DEF StoreRecords
<1>3. /\ DOMAIN s.roots[g] = 1..Len(s.roots[g]) /\ Len(s.roots[g]) \in Nat
      /\ DOMAIN s.leaves = 1..Len(s.leaves) /\ Len(s.leaves) \in Nat
  BY <1>2, LenProperties
<1>4. Begins(s.leaves, s.roots[g])
  BY DEF AnchorInv
<1>5. PICK k \in DOMAIN s.roots[g] : s.roots[g][k] = van
  BY DEF Range
<1> QED BY <1>3, <1>4, <1>5 DEF Begins

\* A VAN that is still to be spent is the only one of its delegation, and
\* knows every vote of it.
LEMMA UnspentVan ==
    ASSUME NEW s \in StoreRecords, BallotInv(s), NEW k \in DOMAIN s.leaves,
           NEW van, van = s.leaves[k], IsVan(van), van \notin s.vans
    PROVE  /\ van \in Leaves /\ van.notes \subseteq s.gov
           /\ van = Van(van.notes, van.proposals)
           /\ \A i \in DOMAIN s.leaves :
                 \/ s.leaves[i].notes \cap van.notes = {} /\ s.leaves[i].notes # van.notes
                 \/ /\ s.leaves[i].notes = van.notes
                    /\ IsVan(s.leaves[i]) => s.leaves[i] \in s.vans \cup {van}
                    /\ IsVc(s.leaves[i]) => s.leaves[i].proposals \subseteq van.proposals
<1>1. s.leaves \in Seq(Leaves)
  BY DEF StoreRecords
<1>2. van \in Leaves
  BY <1>1
<1>3. van = Van(van.notes, van.proposals)
  BY <1>2 DEF Leaves, Van, IsVan
<1> QED BY <1>2, <1>3 DEF BallotInv, Ballots

\* CastVote spends the delegation's VAN and records one more vote.
LEMMA CastExtends ==
    ASSUME NEW s \in StoreRecords, NEW h, AnchorInv(s, h), BallotInv(s),
           NEW van, NEW p \in Proposals, NEW anchor, CastVoteAccepted(s, van, p, anchor)
    PROVE  Extended(s, CastVote(s, van, p))
<1> DEFINE W == van.proposals \cup {p}
           vans == s.vans \cup {van}
           new == <<Van(van.notes, W), Vc(van.notes, p)>>
           t == Grown(s, s.gov, vans, new)
<1>1. /\ s.active /\ anchor \in DOMAIN s.roots /\ van \in Range(s.roots[anchor])
      /\ van.kind = "van" /\ Range(<<p>>) \cap van.proposals = {} /\ van \notin s.vans
  BY DEF CastVoteAccepted, ValidateRoundForVoting, CastProofsValid
<1>2. p \notin van.proposals
  <2>1. p \in Range(<<p>>)
    BY DEF Range
  <2> QED BY <1>1, <2>1
<1>3. PICK k \in DOMAIN s.leaves : s.leaves[k] = van
  BY <1>1, AnchoredIsLeaf, Zenon
<1>4. /\ van \in Leaves /\ van.notes \subseteq s.gov
      /\ \A i \in DOMAIN s.leaves :
            \/ s.leaves[i].notes \cap van.notes = {} /\ s.leaves[i].notes # van.notes
            \/ /\ s.leaves[i].notes = van.notes
               /\ IsVan(s.leaves[i]) => s.leaves[i] \in s.vans \cup {van}
               /\ IsVc(s.leaves[i]) => s.leaves[i].proposals \subseteq van.proposals
  BY <1>1, <1>3, UnspentVan, Zenon DEF IsVan
<1>5. s.gov \in SUBSET Notes /\ vans \in SUBSET Leaves
  BY <1>4, Zenon DEF StoreRecords
<1>6. Van(van.notes, W) \in Leaves /\ Vc(van.notes, p) \in Leaves
  BY <1>4 DEF Van, Vc, Leaves
<1>7. new \in Seq(Leaves) /\ DOMAIN new = 1..2
      /\ new[1] = Van(van.notes, W) /\ new[2] = Vc(van.notes, p)
  BY <1>6
<1>8. CastVote(s, van, p) = t
  BY Zenon DEF CastVote, AppendCommitments, Grown, StoreRecords
<1>9. p \in W /\ van.proposals \subseteq W /\ s.vans \subseteq vans /\ vans = s.vans \cup {van}
  BY Zenon
<1> HIDE DEF W, vans, new, t
<1>10. GrowsTo(s, t, s.gov, vans, new)
  BY <1>5, <1>7, GrownFields, Zenon DEF t
<1>11. BallotInv(t)
  <2>1. \A i \in DOMAIN new :
           \/ new[i] = Van(van.notes, W)
           \/ \E q \in Proposals : q \in W /\ q \notin van.proposals /\ new[i] = Vc(van.notes, q)
    BY <1>2, <1>7, <1>9
  <2>2. \A i, j \in DOMAIN new : IsVc(new[i]) /\ new[i] = new[j] => i = j
    <3>1. ~IsVc(new[1])
      BY <1>7 DEF IsVc, Van
    <3> QED BY <1>7, <3>1
  <2>3. OneBallot(s, s.gov, vans, new, van.notes, van.proposals, W)
    BY <1>4, <1>9, <2>1, <2>2 DEF OneBallot
  <2> QED BY <1>5, <1>7, <1>10, <2>3, BallotGrowth, Zenon
<1> QED BY <1>1, <1>5, <1>7, <1>8, <1>10, <1>11 DEF Extended

\* The leaves that a chain of casts of the delegation D appends.
CastLeaves(D, W, props) == <<Van(D, W)>> \o [i \in DOMAIN props |-> Vc(D, props[i])]

\* The leaves new are VANs of D that know the votes W and distinct votes of D
\* that are in W and not in V.
AreCasts(new, D, V, W) ==
    /\ new \in Seq(Leaves)
    /\ \A i \in DOMAIN new :
          \/ new[i] = Van(D, W)
          \/ \E p \in Proposals : p \in W /\ p \notin V /\ new[i] = Vc(D, p)
    /\ \A i, j \in DOMAIN new : IsVc(new[i]) /\ new[i] = new[j] => i = j

\* They are one VAN, and a vote for each of the proposals.
LEMMA CastLeavesAre ==
    ASSUME NEW D \in SUBSET Notes, NEW V \in SUBSET Proposals, NEW W \in SUBSET Proposals,
           NEW props \in Batches, IsInjective(props), Range(props) \subseteq W,
           Range(props) \cap V = {}
    PROVE  AreCasts(CastLeaves(D, W, props), D, V, W)
<1> DEFINE new == CastLeaves(D, W, props)
           votes == [i \in DOMAIN props |-> Vc(D, props[i])]
           head == <<Van(D, W)>>
<1>1. PICK k \in 1..NumProposals : props \in [1..k -> Proposals]
  BY DEF Batches
<1>2. k \in Nat /\ DOMAIN props = 1..k
  BY <1>1, TreeAssumption
<1>3. /\ \A p \in Proposals : Vc(D, p) \in Leaves
      /\ Van(D, W) \in Leaves
  BY DEF Vc, Van, Leaves
<1>4. votes \in [1..k -> Leaves]
  BY <1>1, <1>2, <1>3
<1>5. votes \in Seq(Leaves) /\ Len(votes) = k /\ head \in Seq(Leaves) /\ Len(head) = 1
      /\ head[1] = Van(D, W)
  BY <1>2, <1>3, <1>4
<1>6. \A i \in 1..k : votes[i] = Vc(D, props[i])
  BY <1>2
<1>7. new = head \o votes
  BY DEF CastLeaves
<1> HIDE DEF new, votes, head
<1>7a. /\ head \o votes \in Seq(Leaves)
       /\ Len(head \o votes) = Len(head) + Len(votes)
       /\ \A i \in 1..(Len(head) + Len(votes)) :
             (head \o votes)[i] = IF i <= Len(head) THEN head[i] ELSE votes[i - Len(head)]
  BY <1>5, ConcatProperties, Zenon
<1>7b. \A i \in 1..(1 + k) : new[i] = IF i <= 1 THEN head[i] ELSE votes[i - 1]
  BY <1>5, <1>7, <1>7a
<1>8. new \in Seq(Leaves) /\ DOMAIN new = 1..(1 + k) /\ new[1] = Van(D, W)
  <2>1. new \in Seq(Leaves) /\ Len(new) = 1 + k
    BY <1>2, <1>5, <1>7, <1>7a
  <2>2. DOMAIN new = 1..(1 + k)
    BY <2>1, LenProperties
  <2>3. 1 \in 1..(1 + k)
    BY <1>2
  <2>4. new[1] = head[1]
    BY <1>7b, <2>3
  <2> QED BY <1>5, <2>1, <2>2, <2>4
<1>9. ASSUME NEW i \in 2..(1 + k)
      PROVE  i - 1 \in 1..k /\ new[i] = Vc(D, props[i - 1])
  <2>1. i \in 1..(1 + k) /\ i > 1 /\ i - 1 \in 1..k
    BY <1>2
  <2>2. new[i] = votes[i - 1]
    <3>1. ~(i <= 1)
      BY <1>2, <2>1
    <3> QED BY <1>7b, <2>1, <3>1
  <2> QED BY <1>6, <2>1, <2>2
<1>10. ASSUME NEW i \in DOMAIN new
       PROVE  \/ new[i] = Van(D, W)
              \/ \E p \in Proposals : p \in W /\ p \notin V /\ new[i] = Vc(D, p)
  <2>1. CASE i = 1
    BY <1>8, <2>1
  <2>2. CASE i # 1
    <3>1. i \in 2..(1 + k)
      BY <1>2, <1>8, <2>2
    <3>2. props[i - 1] \in Range(props) /\ props[i - 1] \in Proposals
      BY <1>1, <1>2, <1>9, <3>1 DEF Range
    <3> QED BY <1>9, <3>1, <3>2
  <2> QED BY <2>1, <2>2
<1>11. ASSUME NEW i \in DOMAIN new, NEW j \in DOMAIN new, IsVc(new[i]), new[i] = new[j]
       PROVE  i = j
  <2>1. ~IsVc(Van(D, W))
    BY DEF IsVc, Van
  <2>2. i \in 2..(1 + k) /\ j \in 2..(1 + k)
    BY <1>2, <1>8, <1>11, <2>1
  <2>3. Vc(D, props[i - 1]) = Vc(D, props[j - 1])
    BY <1>9, <1>11, <2>2
  <2>4. Vc(D, props[i - 1]).proposals = Vc(D, props[j - 1]).proposals
    BY <2>3
  <2>5. props[i - 1] = props[j - 1]
    BY <2>4 DEF Vc
  <2>6. i - 1 = j - 1
    BY <1>2, <1>9, <2>2, <2>5 DEF IsInjective
  <2> QED BY <1>2, <2>2, <2>6
<1>12. AreCasts(new, D, V, W)
  BY <1>8, <1>10, <1>11 DEF AreCasts
<1> QED BY <1>12 DEF new

\* The VANs a chain of casts spends are leaves, and the first is the one it
\* starts from.
LEMMA SpentVansAre ==
    ASSUME NEW D \in SUBSET Notes, NEW V \in SUBSET Proposals, NEW props \in Batches
    PROVE  SpentVans(Van(D, V), props) \in SUBSET Leaves /\ Van(D, V) \in SpentVans(Van(D, V), props)
<1>1. PICK k \in 1..NumProposals : props \in [1..k -> Proposals]
  BY DEF Batches
<1>2. k \in Nat \ {0} /\ DOMAIN props = 1..k
  BY <1>1, TreeAssumption
<1>3. Van(D, V).notes = D /\ Van(D, V).proposals = V
  BY DEF Van
<1>4. \A i \in DOMAIN props : \A j \in 1..(i - 1) : props[j] \in Proposals
  BY <1>1, <1>2
<1>5. \A i \in DOMAIN props : Van(D, V \cup {props[j] : j \in 1..(i - 1)}) \in Leaves
  BY <1>4 DEF Van, Leaves
<1>6. 1 \in DOMAIN props /\ {props[j] : j \in 1..(1 - 1)} = {}
  BY <1>2
<1>7. Van(D, V) = Van(D, V \cup {props[j] : j \in 1..(1 - 1)})
  BY <1>6
<1> QED BY <1>3, <1>5, <1>6, <1>7, Zenon DEF SpentVans

\* What a chain of casts of the delegation's VAN does to a store.
LEMMA CastsExtend ==
    ASSUME NEW s \in StoreRecords, BallotInv(s), s.active,
           NEW gov \in SUBSET Notes, s.gov \subseteq gov,
           NEW D \in SUBSET gov, NEW V \in SUBSET Proposals,
           NEW props \in Batches, ValidateCasts(props), Range(props) \cap V = {},
           \A i \in DOMAIN s.leaves :
              \/ s.leaves[i].notes \cap D = {} /\ s.leaves[i].notes # D
              \/ /\ s.leaves[i].notes = D
                 /\ IsVan(s.leaves[i]) => s.leaves[i] \in s.vans \cup {Van(D, V)}
                 /\ IsVc(s.leaves[i]) => s.leaves[i].proposals \subseteq V
    PROVE  Extended(s, RecordCasts([s EXCEPT !.gov = gov], Van(D, V), props))
<1> DEFINE W == V \cup Range(props)
           vans == s.vans \cup SpentVans(Van(D, V), props)
           new == CastLeaves(D, W, props)
           t == Grown(s, gov, vans, new)
<1>1. RecordCasts([s EXCEPT !.gov = gov], Van(D, V), props) = t
  <2>1. Van(D, V).notes = D /\ Van(D, V).proposals = V
    BY DEF Van
  <2>2. FinalVan(Van(D, V), props) = Van(D, W)
    BY <2>1 DEF FinalVan
  <2>3. <<FinalVan(Van(D, V), props)>> \o [i \in DOMAIN props |-> Vc(Van(D, V).notes, props[i])] = new
    BY <2>1, <2>2 DEF CastLeaves
  <2> HIDE DEF new, W
  <2> QED BY <2>3, Zenon DEF RecordCasts, AppendCommitments, Grown, StoreRecords
<1>2. IsInjective(props) /\ Range(props) \subseteq Proposals
  BY DEF ValidateCasts
<1>3. W \in SUBSET Proposals /\ V \subseteq W /\ Range(props) \subseteq W /\ D \in SUBSET Notes
  BY <1>2, Zenon
<1>4. vans \in SUBSET Leaves /\ s.vans \subseteq vans /\ Van(D, V) \in vans
  BY <1>3, SpentVansAre, Zenon DEF StoreRecords
<1>5. new = CastLeaves(D, W, props)
  OBVIOUS
<1> HIDE DEF W, vans, new, t
<1>5a. AreCasts(new, D, V, W)
  BY <1>2, <1>3, <1>5, CastLeavesAre, Zenon
<1>6. new \in Seq(Leaves)
  BY <1>5a, Zenon DEF AreCasts
<1>7. GrowsTo(s, t, gov, vans, new)
  BY <1>4, <1>6, GrownFields, Zenon DEF t
<1>8. OneBallot(s, gov, vans, new, D, V, W)
  BY <1>3, <1>4, <1>5a, Zenon DEF OneBallot, AreCasts
<1>9. BallotInv(t)
  BY <1>4, <1>6, <1>7, <1>8, BallotGrowth
<1> QED BY <1>1, <1>4, <1>6, <1>7, <1>9 DEF Extended

\* CastVoteBatch spends every VAN of its chain and records its votes.
LEMMA CastBatchExtends ==
    ASSUME NEW s \in StoreRecords, NEW h, AnchorInv(s, h), BallotInv(s),
           NEW van, NEW props \in Batches, NEW anchor,
           CastVoteBatchAccepted(s, van, props, anchor)
    PROVE  Extended(s, CastVoteBatch(s, van, props))
<1>1. /\ s.active /\ anchor \in DOMAIN s.roots /\ van \in Range(s.roots[anchor])
      /\ van.kind = "van" /\ Range(props) \cap van.proposals = {}
      /\ SpentVans(van, props) \cap s.vans = {} /\ ValidateCasts(props)
  BY DEF CastVoteBatchAccepted, ValidateRoundForVoting, CastProofsValid, CheckNullifiersUnique
<1>2. PICK k \in DOMAIN s.leaves : s.leaves[k] = van
  BY <1>1, AnchoredIsLeaf
<1> DEFINE D == van.notes
           V == van.proposals
<1>3. van \in Leaves /\ van = Van(D, V) /\ D \in SUBSET Notes /\ V \in SUBSET Proposals
  <2>1. van \in Leaves
    BY <1>2 DEF StoreRecords
  <2> QED BY <1>1, <2>1 DEF Leaves, Van
<1>4. van \notin s.vans
  <2> HIDE DEF D, V
  <2>1. van \in SpentVans(van, props)
    BY <1>3, SpentVansAre
  <2> QED BY <1>1, <2>1
<1>5. /\ D \subseteq s.gov
      /\ \A i \in DOMAIN s.leaves :
            \/ s.leaves[i].notes \cap D = {} /\ s.leaves[i].notes # D
            \/ /\ s.leaves[i].notes = D
               /\ IsVan(s.leaves[i]) => s.leaves[i] \in s.vans \cup {van}
               /\ IsVc(s.leaves[i]) => s.leaves[i].proposals \subseteq V
  BY <1>1, <1>2, <1>4, UnspentVan, Zenon DEF IsVan
<1>6. CastVoteBatch(s, van, props) = RecordCasts([s EXCEPT !.gov = s.gov], van, props)
  <2>1. [s EXCEPT !.gov = s.gov] = s
    BY DEF StoreRecords
  <2> QED BY <2>1 DEF CastVoteBatch
<1>7. Range(props) \cap V = {}
  BY <1>1, Zenon
<1>8. s.gov \in SUBSET Notes /\ s.gov \subseteq s.gov
  BY DEF StoreRecords
<1> HIDE DEF D, V
<1>9. Extended(s, RecordCasts([s EXCEPT !.gov = s.gov], Van(D, V), props))
  BY <1>1, <1>3, <1>5, <1>7, <1>8, CastsExtend
<1> QED BY <1>3, <1>6, <1>9, Zenon

\* DelegateAndCastVoteBatch starts a ballot and records its votes.
LEMMA DelegateAndCastExtends ==
    ASSUME NEW s \in StoreRecords, BallotInv(s), NEW notes \in SUBSET Notes,
           NEW props \in Batches, DelegateAndCastVoteBatchAccepted(s, notes, props)
    PROVE  Extended(s, DelegateAndCastVoteBatch(s, notes, props))
<1> DEFINE gov == s.gov \cup notes
           V == {}
<1>1. s.active /\ notes # {} /\ notes \cap s.gov = {} /\ ValidateCasts(props)
  BY DEF DelegateAndCastVoteBatchAccepted, ValidateRoundForVoting, CheckNullifiersUnique
<1>2. gov \in SUBSET Notes /\ s.gov \subseteq gov /\ notes \in SUBSET gov
  BY DEF StoreRecords
<1>3. V \in SUBSET Proposals /\ Range(props) \cap V = {}
  OBVIOUS
<1>4. \A i \in DOMAIN s.leaves : s.leaves[i].notes \cap notes = {} /\ s.leaves[i].notes # notes
  BY <1>1, FreshNotes
<1>5. DelegateAndCastVoteBatch(s, notes, props) = RecordCasts([s EXCEPT !.gov = gov], Van(notes, V), props)
  BY DEF DelegateAndCastVoteBatch
<1> HIDE DEF gov, V
<1>6. Extended(s, RecordCasts([s EXCEPT !.gov = gov], Van(notes, V), props))
  BY <1>1, <1>2, <1>3, <1>4, CastsExtend, Zenon
<1> QED BY <1>5, <1>6

-----------------------------------------------------------------------------
(* The inductive invariant of the chain.                                   *)

\* Every node's store and handle are as above; and as long as the chain has
\* not been imported, stores agree and one without a root height has no root.
TreeInv ==
    /\ height \in Nat \ {0} /\ open \in BOOLEAN /\ imports \in Nat
    /\ store \in [Nodes -> StoreRecords]
    /\ DOMAIN handle = Nodes
    /\ \A n \in Nodes : NodeInv(store[n], handle[n], height, open) /\ BallotInv(store[n])
    /\ imports = 0 =>
          /\ StoresAgree
          /\ \A n \in Nodes : store[n].height = 0 => store[n].nextIndexAtRoot = 0

\* A round without a leaf satisfies it.
LEMMA InitTreeInv == Init => TreeInv
<1> SUFFICES ASSUME Init PROVE TreeInv
  OBVIOUS
<1>1. \A S : EmptyMap \in Maps(S)
  BY EmptyMapIsMap, Zenon
<1>2. EmptyStore \in StoreRecords
  <2>1. <<>> \in Seq(Leaves)
    OBVIOUS
  <2> QED BY <1>1, <2>1 DEF EmptyStore, StoreRecords
<1>3. NodeInv(EmptyStore, NoHandle, 1, FALSE)
  <2>1. RootInv(EmptyStore)
    BY DEF RootInv, Begins, EmptyStore
  <2>2. AnchorInv(EmptyStore, 1)
    <3>1. EmptyStore.roots = EmptyMap /\ EmptyStore.blockLeaf = EmptyMap
          /\ EmptyStore.nextIndexAtRoot = 0
      BY DEF EmptyStore
    <3>2. DOMAIN EmptyMap = {}
      BY EmptyMapIsMap, Zenon
    <3> QED BY <3>1, <3>2 DEF AnchorInv
  <2>3. LibraryInv(EmptyStore, NoHandle, 1)
    BY DEF LibraryInv, EmptyStore
  <2>4. Len(EmptyStore.leaves) = EmptyStore.nextIndexAtRoot
    BY DEF EmptyStore
  <2> QED BY <1>2, <2>1, <2>2, <2>3, <2>4, Zenon DEF NodeInv
<1>4. BallotInv(EmptyStore)
  <2>1. EmptyStore.leaves = <<>>
    BY Zenon DEF EmptyStore
  <2>2. \A gov, vans : Ballots(<<>>, gov, vans)
    BY DEF Ballots
  <2> QED BY <2>1, <2>2 DEF BallotInv
<1>5. EmptyStore.nextIndexAtRoot = 0
  BY DEF EmptyStore
<1>6. height = 1 /\ open = FALSE /\ imports = 0 /\ DOMAIN handle = Nodes
      /\ store \in [Nodes -> StoreRecords]
  BY <1>2 DEF Init
<1>7. \A n \in Nodes : store[n] = EmptyStore /\ handle[n] = NoHandle
  BY DEF Init
<1>8. \A n \in Nodes : NodeInv(store[n], handle[n], height, open) /\ BallotInv(store[n])
  BY <1>3, <1>4, <1>6, <1>7, Zenon
<1>9. height \in Nat \ {0} /\ imports \in Nat /\ open \in BOOLEAN
  <2>1. height = 1 /\ imports = 0
    BY <1>6
  <2>2. open \in BOOLEAN
    BY <1>6, Zenon
  <2> QED BY <2>1, <2>2
<1>10. /\ StoresAgree
       /\ \A n \in Nodes : store[n].height = 0 => store[n].nextIndexAtRoot = 0
  BY <1>5, <1>7 DEF StoresAgree
<1> QED BY <1>6, <1>8, <1>9, <1>10 DEF TreeInv

\* What a delivery leaves in each store.
Delivered(s, t) == t = s \/ Extended(s, t)

\* A transaction keeps the invariant when every node's store is a function of
\* the store before, and is left alone or extended.
LEMMA DeliveryKeepsInv ==
    ASSUME TreeInv, open' = TRUE, UNCHANGED <<height, imports, handle>>,
           DOMAIN store' = Nodes, store' = [n \in Nodes |-> store'[n]],
           \A n \in Nodes : Delivered(store[n], store'[n]),
           \A m, n \in Nodes : store[m] = store[n] => store'[m] = store'[n]
    PROVE  TreeInv'
<1>1. ASSUME NEW n \in Nodes
      PROVE  /\ NodeInv(store'[n], handle[n], height, TRUE) /\ BallotInv(store'[n])
             /\ store'[n].height = store[n].height
             /\ store'[n].nextIndexAtRoot = store[n].nextIndexAtRoot
  <2>1. NodeInv(store[n], handle[n], height, open) /\ BallotInv(store[n])
    BY DEF TreeInv
  <2>2. CASE store'[n] = store[n]
    <3>1. NodeInv(store[n], handle[n], height, TRUE)
      BY <2>1 DEF NodeInv
    <3> QED BY <2>1, <2>2, <3>1, Zenon
  <2>3. CASE Extended(store[n], store'[n])
    <3>1. PICK gov \in SUBSET Notes, vans \in SUBSET Leaves, new \in Seq(Leaves) :
             GrowsTo(store[n], store'[n], gov, vans, new)
      BY <2>3 DEF Extended
    <3>2. NodeInv(store'[n], handle[n], height, TRUE)
      BY <2>1, <2>3, <3>1, GrownKeepsNode, Zenon DEF Extended
    <3> QED BY <2>3, <3>1, <3>2, Zenon DEF Extended, GrowsTo
  <2> QED BY <2>2, <2>3, Zenon DEF Delivered
<1>2. store' \in [Nodes -> StoreRecords]
  BY <1>1 DEF NodeInv
<1>3. imports' = 0 =>
          /\ StoresAgree'
          /\ \A n \in Nodes : store'[n].height = 0 => store'[n].nextIndexAtRoot = 0
  BY <1>1, Zenon DEF TreeInv, StoresAgree
<1> QED BY <1>1, <1>2, <1>3, Zenon DEF TreeInv

\* EndBlock keeps the invariant: the handles do not show in the stores.
LEMMA EndBlockKeepsInv ==
    ASSUME TreeInv, EndBlock
    PROVE  TreeInv'
<1>1. height \in Nat \ {0} /\ open \in BOOLEAN /\ height' = height + 1 /\ open' = FALSE
      /\ imports' = imports
  BY DEF TreeInv, EndBlock
<1>2. \A n \in Nodes : store'[n] = EndBlockOn(store[n], handle[n]).store
                       /\ handle'[n] = EndBlockOn(store[n], handle[n]).handle
  BY DEF EndBlock
<1>3. ASSUME NEW n \in Nodes
      PROVE  /\ NodeInv(store'[n], handle'[n], height + 1, FALSE) /\ BallotInv(store'[n])
             /\ \/ store'[n].height = height
                \/ /\ store'[n].height = store[n].height
                   /\ store'[n].nextIndexAtRoot = store[n].nextIndexAtRoot
  <2>1. NodeInv(store[n], handle[n], height, open) /\ BallotInv(store[n])
    BY DEF TreeInv
  <2>2. BlockEnded(store[n], EndBlockOn(store[n], handle[n]))
    BY <1>1, <2>1, EndBlockKeepsNode, Zenon
  <2>3. /\ store'[n].leaves = store[n].leaves /\ store'[n].gov = store[n].gov
        /\ store'[n].vans = store[n].vans
    BY <1>2, <2>2, Zenon DEF BlockEnded
  <2>4. BallotInv(store'[n])
    BY <2>1, <2>3, Zenon DEF BallotInv
  <2> QED BY <1>2, <2>2, <2>4, Zenon DEF BlockEnded
<1>4. store' \in [Nodes -> StoreRecords] /\ DOMAIN handle' = Nodes
  BY <1>3 DEF NodeInv, EndBlock
<1>5. ASSUME imports = 0
      PROVE  /\ StoresAgree'
             /\ \A n \in Nodes : store'[n].height = 0 => store'[n].nextIndexAtRoot = 0
  <2>1. \A n \in Nodes : store'[n] = StoreAfter(store[n])
    BY <1>1, <1>2, <1>5, HandleNeverShows DEF TreeInv
  <2>2. StoresAgree'
    BY <1>5, <2>1 DEF TreeInv, StoresAgree
  <2>3. \A n \in Nodes : store[n].height = 0 => store[n].nextIndexAtRoot = 0
    BY <1>5 DEF TreeInv
  <2> QED BY <1>1, <1>3, <2>2, <2>3, Zenon
<1>6. imports \in Nat /\ height + 1 \in Nat \ {0}
  BY <1>1 DEF TreeInv
<1> QED BY <1>1, <1>3, <1>4, <1>5, <1>6, Zenon DEF TreeInv

\* An imported genesis keeps leaves, roots and ranges; the tree library starts
\* from nothing and will replay the leaves.
LEMMA GenesisKeepsNode ==
    ASSUME NEW s, NEW hd, NEW h, NodeInv(s, hd, h, FALSE), BallotInv(s)
    PROVE  NodeInv(InitGenesis(s), NoHandle, h, FALSE) /\ BallotInv(InitGenesis(s))
<1> DEFINE t == InitGenesis(s)
<1>1. s \in StoreRecords /\ s.height \in Nat /\ s.nextIndexAtRoot \in Nat
      /\ s.leaves \in Seq(Leaves) /\ Len(s.leaves) \in Nat
  BY LenProperties DEF NodeInv, StoreRecords
<1>2. EmptyMap \in Maps(Leaves) /\ EmptyMap \in Maps(Nat)
  BY EmptyMapIsMap
<1>3. NextIndex(s) = 0 => s.height = 0
  <2>1. s.nextIndexAtRoot <= Len(s.leaves)
    BY DEF NodeInv, RootInv, Begins
  <2>2. s.height = 0 \/ s.nextIndexAtRoot > 0
    BY DEF NodeInv, LibraryInv
  <2> QED BY <1>1, <2>1, <2>2 DEF NextIndex
<1>4. /\ t \in StoreRecords /\ t.height = 0 /\ t.shards = EmptyMap /\ t.checkpoints = EmptyMap
      /\ t.active = s.active /\ t.gov = s.gov /\ t.vans = s.vans /\ t.leaves = s.leaves
      /\ t.root = s.root /\ t.nextIndexAtRoot = s.nextIndexAtRoot
      /\ t.roots = s.roots /\ t.blockLeaf = s.blockLeaf
  <2>1. (IF NextIndex(s) > 0 THEN 0 ELSE s.height) = 0
    BY <1>1, <1>3 DEF NextIndex
  <2>2. t = [s EXCEPT !.shards = EmptyMap, !.checkpoints = EmptyMap, !.height = 0]
    BY <1>1, <2>1, Zenon DEF InitGenesis, StoreRecords
  <2> HIDE DEF t
  <2> QED BY <1>1, <1>2, <2>2, Zenon DEF StoreRecords
<1> HIDE DEF t
<1>5. RootInv(t) /\ AnchorInv(t, h) /\ LibraryInv(t, NoHandle, h)
  <2>1. RootInv(t)
    BY <1>4 DEF NodeInv, RootInv
  <2>2. \A i : Covering(t, i) = Covering(s, i)
    BY <1>4, Zenon DEF Covering
  <2>3. AnchorInv(t, h)
    BY <1>4, <2>2 DEF NodeInv, AnchorInv
  <2>4. LibraryInv(t, NoHandle, h)
    BY <1>4 DEF LibraryInv
  <2> QED BY <2>1, <2>3, <2>4
<1>6. BallotInv(t)
  BY <1>4 DEF BallotInv
<1>7. NodeInv(t, NoHandle, h, FALSE)
  BY <1>4, <1>5 DEF NodeInv
<1> QED BY <1>6, <1>7, Zenon DEF t

\* Every step keeps the invariant.
LEMMA NextTreeInv == TreeInv /\ [Next]_vars => TreeInv'
<1> SUFFICES ASSUME TreeInv, [Next]_vars PROVE TreeInv'
  OBVIOUS
<1>1. \A n \in Nodes : store[n] \in StoreRecords /\ AnchorInv(store[n], height) /\ BallotInv(store[n])
  BY DEF TreeInv, NodeInv
<1>2. CASE Delegate
  <2>1. PICK notes \in SUBSET Notes :
           Deliver(LAMBDA s : DelegateVoteAccepted(s, notes), LAMBDA s : DelegateVote(s, notes))
    BY <1>2, Zenon DEF Delegate
  <2>2. /\ open' = TRUE /\ UNCHANGED <<height, imports, handle>>
        /\ store' = [n \in Nodes |-> IF DelegateVoteAccepted(store[n], notes)
                                     THEN DelegateVote(store[n], notes) ELSE store[n]]
    BY <2>1 DEF Deliver
  <2>3. \A n \in Nodes : Delivered(store[n], store'[n])
    BY <1>1, <2>2, DelegateExtends DEF Delivered
  <2> QED BY <2>2, <2>3, DeliveryKeepsInv
<1>3. CASE Cast
  <2>1. PICK van \in Anchored, p \in Proposals, anchor \in Heights :
           Deliver(LAMBDA s : CastVoteAccepted(s, van, p, anchor), LAMBDA s : CastVote(s, van, p))
    BY <1>3, Zenon DEF Cast
  <2>2. /\ open' = TRUE /\ UNCHANGED <<height, imports, handle>>
        /\ store' = [n \in Nodes |-> IF CastVoteAccepted(store[n], van, p, anchor)
                                     THEN CastVote(store[n], van, p) ELSE store[n]]
    BY <2>1 DEF Deliver
  <2>3. \A n \in Nodes : Delivered(store[n], store'[n])
    BY <1>1, <2>2, CastExtends DEF Delivered
  <2> QED BY <2>2, <2>3, DeliveryKeepsInv
<1>4. CASE CastBatch
  <2>1. PICK van \in Anchored, props \in Batches, anchor \in Heights :
           Deliver(LAMBDA s : CastVoteBatchAccepted(s, van, props, anchor),
                   LAMBDA s : CastVoteBatch(s, van, props))
    BY <1>4, Zenon DEF CastBatch
  <2>2. /\ open' = TRUE /\ UNCHANGED <<height, imports, handle>>
        /\ store' = [n \in Nodes |-> IF CastVoteBatchAccepted(store[n], van, props, anchor)
                                     THEN CastVoteBatch(store[n], van, props) ELSE store[n]]
    BY <2>1 DEF Deliver
  <2>3. \A n \in Nodes : Delivered(store[n], store'[n])
    BY <1>1, <2>2, CastBatchExtends DEF Delivered
  <2> QED BY <2>2, <2>3, DeliveryKeepsInv
<1>5. CASE DelegateAndCast
  <2>1. PICK notes \in SUBSET Notes, props \in Batches :
           Deliver(LAMBDA s : DelegateAndCastVoteBatchAccepted(s, notes, props),
                   LAMBDA s : DelegateAndCastVoteBatch(s, notes, props))
    BY <1>5, Zenon DEF DelegateAndCast
  <2>2. /\ open' = TRUE /\ UNCHANGED <<height, imports, handle>>
        /\ store' = [n \in Nodes |-> IF DelegateAndCastVoteBatchAccepted(store[n], notes, props)
                                     THEN DelegateAndCastVoteBatch(store[n], notes, props)
                                     ELSE store[n]]
    BY <2>1 DEF Deliver
  <2>3. \A n \in Nodes : Delivered(store[n], store'[n])
    BY <1>1, <2>2, DelegateAndCastExtends DEF Delivered
  <2> QED BY <2>2, <2>3, DeliveryKeepsInv
<1>6. CASE EndBlock
  BY <1>6, EndBlockKeepsInv
<1>7. ASSUME NEW m \in Nodes, Restart(m) PROVE TreeInv'
  <2>1. DOMAIN handle = Nodes /\ handle' = [handle EXCEPT ![m] = NoHandle]
        /\ UNCHANGED <<height, open, imports, store>>
    BY <1>7 DEF TreeInv, Restart
  <2>2. \A n \in Nodes : handle'[n] \in {handle[n], NoHandle}
    BY <2>1, Zenon
  <2>3. \A n \in Nodes : NodeInv(store[n], handle'[n], height, open)
    <3> SUFFICES ASSUME NEW n \in Nodes PROVE NodeInv(store[n], handle'[n], height, open)
      BY Zenon
    <3>1. NodeInv(store[n], handle[n], height, open)
      BY Zenon DEF TreeInv
    <3>2. NodeInv(store[n], NoHandle, height, open)
      BY <3>1, Zenon DEF NodeInv, LibraryInv
    <3>3. CASE handle'[n] = handle[n]
      BY <3>1, <3>3, Zenon
    <3>4. CASE handle'[n] = NoHandle
      BY <3>2, <3>4, Zenon
    <3> QED BY <2>2, <3>3, <3>4, Zenon
  <2> QED BY <2>1, <2>3 DEF TreeInv, StoresAgree
<1>8. CASE ExportAndImport
  <2>1. /\ ~open /\ UNCHANGED <<height, open>> /\ imports' = imports + 1
        /\ DOMAIN store' = Nodes /\ DOMAIN handle' = Nodes
        /\ \A n \in Nodes : store'[n] = InitGenesis(store[n]) /\ handle'[n] = NoHandle
        /\ store' = [n \in Nodes |-> InitGenesis(store[n])]
    BY <1>8 DEF ExportAndImport
  <2>2. height \in Nat \ {0} /\ open \in BOOLEAN /\ imports' \in Nat /\ imports' # 0
    BY <2>1 DEF TreeInv
  <2>3. \A n \in Nodes : NodeInv(store[n], handle[n], height, FALSE) /\ BallotInv(store[n])
    BY <2>1 DEF TreeInv, NodeInv
  <2>4. \A n \in Nodes : NodeInv(store'[n], handle'[n], height, FALSE) /\ BallotInv(store'[n])
    BY <2>1, <2>3, GenesisKeepsNode, Zenon
  <2>5. \A n \in Nodes : NodeInv(store'[n], handle'[n], height, open)
    BY <2>4, Zenon DEF NodeInv
  <2>6. store' \in [Nodes -> StoreRecords]
    BY <2>1, <2>4 DEF NodeInv
  <2> QED BY <2>1, <2>2, <2>4, <2>5, <2>6, Zenon DEF TreeInv
<1>9. CASE UNCHANGED vars
  BY <1>9 DEF vars, TreeInv, StoresAgree
<1> QED BY <1>2, <1>3, <1>4, <1>5, <1>6, <1>7, <1>8, <1>9 DEF Next

-----------------------------------------------------------------------------
(* The results.                                                            *)

\* A sequence that begins with r has r as its first leaves.
LEMMA BeginsIsPrefix ==
    ASSUME NEW r \in Seq(Leaves), NEW ls \in Seq(Leaves), Begins(ls, r)
    PROVE  Len(r) <= Len(ls) /\ r = SubSeq(ls, 1, Len(r))
<1>1. Len(r) \in Nat /\ Len(ls) \in Nat /\ Len(r) <= Len(ls)
      /\ \A i \in 1..Len(r) : r[i] = ls[i]
  BY LenProperties DEF Begins
<1>2. SubSeq(ls, 1, Len(r)) = [i \in 1..Len(r) |-> ls[i]]
  BY <1>1
<1>3. r = [i \in 1..Len(r) |-> r[i]]
  BY LenProperties
<1> QED BY <1>1, <1>2, <1>3

\* The invariant is one.
LEMMA TreeInvHolds == Spec => []TreeInv
BY InitTreeInv, NextTreeInv, PTL DEF Spec

\* Nodes that execute the same blocks hold the same store, whichever of them
\* lose their tree handle in a restart and whenever: for any number of nodes
\* and any sequence of transactions, EndBlock writes the same keys.
THEOREM NodesAgree == Spec => []StoresAgreeUntilImport
<1>1. TreeInv => StoresAgreeUntilImport
  BY Zenon DEF TreeInv, StoresAgreeUntilImport
<1> QED BY <1>1, TreeInvHolds, PTL

\* EndBlock leaves every accepted leaf under a stored root and never meets a
\* tree error, through restarts and genesis imports; stored roots are roots of
\* prefixes of the leaves, and the stored ranges cover the leaves once.
THEOREM LeavesAnchored == Spec => []EveryLeafAnchored
<1>1. TreeInv => EveryLeafAnchored
  <2> SUFFICES ASSUME TreeInv, NEW n \in Nodes
               PROVE  /\ ~TreeError(store[n], handle[n])
                      /\ ~open \/ ~store[n].active =>
                            /\ store[n].root = store[n].leaves
                            /\ store[n].nextIndexAtRoot = NextIndex(store[n])
                      /\ AnchorsCoverBlocks(store[n])
    BY DEF EveryLeafAnchored
  <2> DEFINE s == store[n]
  <2>1. NodeInv(s, handle[n], height, open)
    BY Zenon DEF TreeInv
  <2> HIDE DEF s
  <2>2. s \in StoreRecords /\ s.leaves \in Seq(Leaves) /\ s.root \in Seq(Leaves)
        /\ s.roots \in Maps(Seq(Leaves))
    BY <2>1 DEF NodeInv, StoreRecords
  <2>3. ~TreeError(s, handle[n])
    BY <2>1, HandleLoads
  <2>4. ASSUME ~open \/ ~s.active
        PROVE  s.root = s.leaves /\ s.nextIndexAtRoot = NextIndex(s)
    <3>1. /\ Len(s.leaves) = s.nextIndexAtRoot /\ Len(s.root) = s.nextIndexAtRoot
          /\ \A i \in 1..Len(s.root) : s.root[i] = s.leaves[i]
      BY <2>1, <2>4 DEF NodeInv, RootInv, Begins
    <3>2. s.root = s.leaves
      BY <2>2, <3>1, SeqEqual, Zenon
    <3> QED BY <3>1, <3>2 DEF NextIndex
  <2>5. AnchorsCoverBlocks(s)
    <3>1. PICK D \in SUBSET Nat : s.roots \in [D -> Seq(Leaves)]
      BY <2>2, Zenon DEF Maps
    <3>2. AnchorInv(s, height)
      BY <2>1 DEF NodeInv
    <3>3. \A g \in DOMAIN s.roots : Len(s.roots[g]) <= NextIndex(s)
                                    /\ s.roots[g] = SubSeq(s.leaves, 1, Len(s.roots[g]))
      BY <2>2, <3>1, <3>2, BeginsIsPrefix, Zenon DEF AnchorInv, NextIndex
    <3> QED BY <3>2, <3>3 DEF AnchorsCoverBlocks, AnchorInv, Covering
  <2> QED BY <2>3, <2>4, <2>5 DEF s
<1> QED BY <1>1, TreeInvHolds, PTL

\* Ballots kept apart have no two votes of one note on one proposal.
LEMMA OneVoteInBallots ==
    ASSUME NEW ls \in Seq(Leaves), NEW gov, NEW vans, Ballots(ls, gov, vans),
           NEW g \in Notes, NEW p \in Proposals
    PROVE  Cardinality({i \in DOMAIN ls :
              ls[i].kind = "vc" /\ g \in ls[i].notes /\ p \in ls[i].proposals}) <= 1
<1> DEFINE votes == {i \in DOMAIN ls :
                       ls[i].kind = "vc" /\ g \in ls[i].notes /\ p \in ls[i].proposals}
<1>1. \A l, m \in Leaves : /\ l.kind = m.kind /\ l.notes = m.notes
                           /\ l.proposals = m.proposals
                           => l = m
  BY DEF Leaves
<1>2. ASSUME NEW i \in votes, NEW j \in votes PROVE i = j
  <2>1. /\ i \in DOMAIN ls /\ j \in DOMAIN ls /\ IsVc(ls[i]) /\ IsVc(ls[j])
        /\ g \in ls[i].notes /\ g \in ls[j].notes
        /\ p \in ls[i].proposals /\ p \in ls[j].proposals
    BY Zenon DEF IsVc
  <2>2. ls[i].notes = ls[j].notes
    BY <2>1, Zenon DEF Ballots
  <2>3. ls[i].proposals = {p} /\ ls[j].proposals = {p}
    BY <2>1 DEF Ballots
  <2>4. ls[i] \in Leaves /\ ls[j] \in Leaves /\ ls[i].kind = ls[j].kind
    BY <2>1 DEF IsVc
  <2>5. ls[i] = ls[j]
    BY <1>1, <2>2, <2>3, <2>4, Zenon
  <2> QED BY <2>1, <2>5 DEF Ballots
<1> HIDE DEF votes
<1>3. CASE votes = {}
  <2>1. Cardinality(votes) = 0
    BY <1>3, FS_EmptySet
  <2> QED BY <2>1 DEF votes
<1>4. CASE votes # {}
  <2>1. PICK i \in votes : votes = {i}
    BY <1>2, <1>4
  <2>2. Cardinality(votes) = 1
    BY <2>1, FS_Singleton, Zenon
  <2> QED BY <2>2 DEF votes
<1> QED BY <1>3, <1>4

\* A note has at most one vote on each proposal of the round, whichever
\* delegations and casts, single, batched or combined, its owner sends.
THEOREM OneVoteEach == Spec => []OneVotePerNote
<1>1. TreeInv => OneVotePerNote
  <2> SUFFICES ASSUME TreeInv PROVE OneVotePerNote
    OBVIOUS
  <2>1. \A n \in Nodes : /\ store[n].leaves \in Seq(Leaves)
                         /\ Ballots(store[n].leaves, store[n].gov, store[n].vans)
    BY DEF TreeInv, StoreRecords, BallotInv
  <2> QED BY <2>1, OneVoteInBallots DEF OneVotePerNote
<1> QED BY <1>1, TreeInvHolds, PTL
=============================================================================
