------------------------ MODULE HelperQueueBatches -------------------------
(***************************************************************************)
(* The inductive invariant of HelperQueue, for any finite set of shares,   *)
(* any number of rounds and workers and every bound, and the steps outside *)
(* an attempt.  The hard one is takeReady: that it visits shares in a      *)
(* total order and gives each share of a batch an idle worker of its own.  *)
(***************************************************************************)
EXTENDS HelperQueue, FiniteSetTheorems, TLAPS

Outcomes == {"none", "submitted", "retry", "failed"}

Steps == {"idle", "status", "dedupe", "prepare", "reserve", "prove", "submit", "mark", "done"}

RowRecords ==
    [state : {"absent", "received", "submitted", "failed"}, witness : BOOLEAN,
     attempts : Int, submitAt : Nat, slot : Int, lastHeight : Int, corrupt : Damage]

WorkerRecords ==
    [pc : Steps, key : Shares \cup {NoShare}, active : BOOLEAN,
     row : RowRecords, height : Int, outcome : Outcomes]

\* The chain and the clock.
ChainInv ==
    /\ now \in Nat /\ now <= MaxTime
    /\ height \in Nat \ {0} /\ closed \subseteq Rounds /\ committed \subseteq Shares
    /\ up \in BOOLEAN /\ checkTxReady \in BOOLEAN

\* The queue and its workers have their types.
QueueTypes ==
    /\ rows \in [Shares -> RowRecords]
    /\ schedule \in [Shares -> Int]
    /\ inFlight \in [Shares -> 0..MaxConcurrent]
    /\ workers \in [Workers -> WorkerRecords]
    /\ \A w \in Workers : workers[w].pc # "idle" => workers[w].key \in Shares
    /\ lastReadyRound \in 0..NumRounds

\* An owned share has a row that was due; a share on the schedule is not there
\* before its time.
TimesInv ==
    \A k \in Shares :
        /\ inFlight[k] # 0 => rows[k].state # "absent" /\ rows[k].submitAt <= now
        /\ schedule[k] # Never => rows[k].submitAt <= schedule[k]

\* A process that does not run holds nothing in memory.
DownInv ==
    ~up => /\ \A k \in Shares : schedule[k] = Never /\ inFlight[k] = 0
           /\ \A w \in Workers : workers[w].pc = "idle"
           /\ ~checkTxReady

\* An attempt resolves to submitted only for a committed share, and only
\* rounds that are closed are confirmed for a purge.
VerdictInv ==
    /\ \A w \in Workers : workers[w].outcome = "submitted" => workers[w].key \in committed
    /\ confirmed \subseteq closed

\* A share sent at the latest height, and not committed since, is among the
\* shares the process remembers having sent at it.
SendInv ==
    /\ repeated = {}
    /\ submitHeight \in Nat /\ submitHeight <= height /\ submitKeys \subseteq Shares
    /\ sentAt \in [Shares -> Nat]
    /\ \A k \in Shares :
          /\ sentAt[k] <= height
          /\ checkTxReady /\ k \notin committed /\ sentAt[k] = height
             => submitHeight = height /\ k \in submitKeys

Inv ==
    /\ ChainInv /\ QueueTypes /\ SharesInOnePlace
    /\ TimesInv /\ DownInv /\ VerdictInv /\ SendInv


-----------------------------------------------------------------------------
(* Sets of numbers and of shares.                                          *)

\* A set of natural numbers has a least element.
LEMMA LeastNatural ==
    ASSUME NEW S \in SUBSET Nat, S # {}
    PROVE  \E m \in S : \A n \in S : m <= n
<1>1. PICK m \in S : \A n \in S : ~(<<n, m>> \in OpToRel(<, Nat))
  BY NatLessThanWellFounded, WFMin, Zenon
<1>2. \A n \in S : ~(n < m)
  <2> SUFFICES ASSUME NEW n \in S, n < m PROVE FALSE
    OBVIOUS
  <2>1. <<n, m>> \in Nat \X Nat /\ <<n, m>>[1] = n /\ <<n, m>>[2] = m
    OBVIOUS
  <2>2. <<n, m>> \in {ss \in Nat \X Nat : ss[1] < ss[2]}
    BY <2>1
  <2> QED BY <1>1, <2>2 DEF OpToRel
<1> QED BY <1>2

\* A bounded set of natural numbers has a greatest element.
LEMMA GreatestNatural ==
    ASSUME NEW N \in Nat, NEW S \in SUBSET (0..N), S # {}
    PROVE  \E m \in S : \A n \in S : n <= m
<1> DEFINE T == {N - n : n \in S}
<1>1. T \in SUBSET Nat /\ T # {}
  <2>1. \A n \in S : N - n \in Nat
    OBVIOUS
  <2> QED BY <2>1, Zenon
<1>2. PICK t \in T : \A u \in T : t <= u
  BY <1>1, LeastNatural, Zenon
<1>3. PICK m \in S : t = N - m
  BY <1>2
<1>4. \A n \in S : N - m <= N - n
  BY <1>2, <1>3, Zenon
<1> QED BY <1>3, <1>4

\* A set that lacks an element of another one that contains it is smaller.
LEMMA SmallerSet ==
    ASSUME NEW A, NEW B, IsFiniteSet(B), A \subseteq B, NEW x \in B, x \notin A
    PROVE  Cardinality(A) \in Nat /\ Cardinality(B) \in Nat /\ Cardinality(A) < Cardinality(B)
<1>1. IsFiniteSet(A) /\ Cardinality(A) <= Cardinality(B) /\ Cardinality(A) # Cardinality(B)
  BY FS_Subset
<1> QED BY <1>1, FS_CardinalityType

\* The members of a set of numbers that are below n.
Below(S, n) == {m \in S : m < n}

\* The numbers below its members count up to the size of a set: every place
\* below that size is taken.
LEMMA EveryPlaceTaken ==
    ASSUME NEW N \in Nat, NEW S \in SUBSET (0..N), NEW p \in Nat, p < Cardinality(S)
    PROVE  \E w \in S : Cardinality(Below(S, w)) = p
<1>1. IsFiniteSet(S) /\ S \in SUBSET Nat /\ \A x \in S : x \in Int
  <2>1. IsFiniteSet(0..N)
    BY FS_Interval
  <2>2. IsFiniteSet(S)
    BY <2>1, FS_Subset, Zenon
  <2> QED BY <2>2
<1>2. ASSUME NEW w PROVE IsFiniteSet(Below(S, w)) /\ Cardinality(Below(S, w)) \in Nat
  <2>1. Below(S, w) \in SUBSET S
    BY DEF Below
  <2>2. IsFiniteSet(Below(S, w))
    BY <1>1, <2>1, FS_Subset
  <2> QED BY <2>2, FS_CardinalityType
<1> DEFINE T == {w \in S : Cardinality(Below(S, w)) <= p}
<1>3. T # {}
  <2>1. S # {}
    <3>1. S = {} => Cardinality(S) = 0
      BY FS_EmptySet
    <3> QED BY <3>1
  <2>2. PICK m \in S : \A n \in S : m <= n
    BY <1>1, <2>1, LeastNatural
  <2>3. Below(S, m) = {}
    <3>1. \A x \in S : ~(x < m)
      BY <1>1, <2>2
    <3> QED BY <3>1, Zenon DEF Below
  <2>4. Cardinality(Below(S, m)) <= p
    BY <2>3, FS_EmptySet
  <2> QED BY <2>4
<1>4. PICK m \in T : \A n \in T : n <= m
  BY <1>3, GreatestNatural, Zenon
<1>5. CASE Cardinality(Below(S, m)) # p
  <2> DEFINE U == Below(S, m) \cup {m}
             V == S \ U
  <2>1. m \notin Below(S, m) /\ U \subseteq S
    BY DEF Below
  <2>2. Cardinality(U) = Cardinality(Below(S, m)) + 1
    BY <1>2, <2>1, FS_AddElement, Zenon
  <2>3. V # {}
    <3>1. Cardinality(U) <= p
      BY <1>2, <1>4, <1>5, <2>2
    <3>2. ASSUME U = S PROVE FALSE
      <4>1. Cardinality(S) <= p
        BY <3>1, <3>2, Zenon
      <4>2. Cardinality(S) \in Nat
        BY <1>1, FS_CardinalityType, Zenon
      <4> HIDE DEF U, V, T
      <4> QED BY <4>1, <4>2
    <3> QED BY <2>1, <3>2, Zenon
  <2>4. PICK n \in V : \A o \in V : n <= o
    <3>1. V \in SUBSET Nat
      BY <1>1, Zenon
    <3> HIDE DEF V
    <3> QED BY <2>3, <3>1, LeastNatural
  <2>5. n \in S /\ n > m /\ n \notin U
    BY <2>4 DEF Below
  <2>6. Below(S, n) = U
    <3>1. \A o \in S : o < n => o \in U
      BY <1>1, <2>4
    <3>2. \A o \in U : o \in S /\ o < n
      BY <1>1, <2>5 DEF Below
    <3> QED BY <3>1, <3>2, Zenon DEF Below
  <2>7. n \in T
    BY <1>2, <1>4, <1>5, <2>2, <2>5, <2>6
  <2> QED BY <1>4, <2>5, <2>7
<1> QED BY <1>4, <1>5

\* Different members have different places.
LEMMA PlacesDiffer ==
    ASSUME NEW N \in Nat, NEW S \in SUBSET (0..N), NEW v \in S, NEW w \in S,
           Cardinality(Below(S, v)) = Cardinality(Below(S, w))
    PROVE  v = w
<1>1. IsFiniteSet(S) /\ S \in SUBSET Nat /\ \A x \in S : x \in Int
  <2>1. IsFiniteSet(0..N)
    BY FS_Interval
  <2>2. IsFiniteSet(S)
    BY <2>1, FS_Subset, Zenon
  <2> QED BY <2>2
<1>2. ASSUME NEW a \in S, NEW b \in S, a < b
      PROVE  Cardinality(Below(S, a)) \in Nat /\ Cardinality(Below(S, b)) \in Nat
             /\ Cardinality(Below(S, a)) < Cardinality(Below(S, b))
  <2>1. IsFiniteSet(Below(S, b))
    <3>1. Below(S, b) \in SUBSET S
      BY DEF Below
    <3> QED BY <1>1, <3>1, FS_Subset
  <2>2. Below(S, a) \subseteq Below(S, b) /\ a \in Below(S, b) /\ a \notin Below(S, a)
    <3>1. a \in Int /\ b \in Int /\ ~(a < a)
      BY <1>1
    <3>2. \A x \in S : x < a => x < b
      BY <1>1, <1>2, <3>1
    <3> QED BY <1>2, <3>1, <3>2, Zenon DEF Below
  <2> QED BY <2>1, <2>2, SmallerSet
<1>3. ~(v < w) /\ ~(w < v)
  BY <1>2
<1> QED BY <1>3

\* The shares of T that come before k.
Ahead(T, k, rank) == {j \in T : Before(j, k, rank)}

\* What the order of a batch needs of the state.
OrderInv == schedule \in [Shares -> Int] /\ lastReadyRound \in 0..NumRounds

\* Shares that are ready are finitely many, and so are those ahead of one.
LEMMA DueFinite ==
    ASSUME NEW k, NEW rank
    PROVE  /\ IsFiniteSet(Due) /\ Turn(k, rank) \in Nat
           /\ IsFiniteSet({j \in Due : Earlier(j, k, rank)})
<1>1. IsFiniteSet(Due)
  <2>1. Due \in SUBSET Shares
    BY DEF Due
  <2> QED BY <2>1, HelperAssumption, FS_Subset DEF HelperAssumption
<1>2. IsFiniteSet({j \in Due : Earlier(j, k, rank)})
  <2>1. {j \in Due : Earlier(j, k, rank)} \in SUBSET Due
    OBVIOUS
  <2> QED BY <1>1, <2>1, FS_Subset
<1>3. Turn(k, rank) \in Nat
  BY <1>2, FS_CardinalityType DEF Turn
<1> QED BY <1>1, <1>2, <1>3

\* Of two shares of a round, one is earlier, and it has an earlier turn.
LEMMA EarlierTurn ==
    ASSUME OrderInv, NEW rank \in Ranks, NEW j \in Due, NEW k \in Due, j # k,
           RoundOf[j] = RoundOf[k]
    PROVE  Turn(j, rank) # Turn(k, rank)
<1>1. \A i \in Due : i \in Shares /\ schedule[i] \in Int
  BY DEF Due, OrderInv
<1>2. \A i \in Shares : rank[i] \in Int
  <2>1. rank \in [Shares -> 1..Cardinality(Shares)]
    BY DEF Ranks
  <2> QED BY <2>1
<1>3. rank[j] # rank[k]
  BY <1>1 DEF Ranks
<1>4. ASSUME NEW a \in Due, NEW b \in Due, Earlier(a, b, rank)
      PROVE  Turn(a, rank) < Turn(b, rank)
  <2> DEFINE A == {i \in Due : Earlier(i, a, rank)}
             B == {i \in Due : Earlier(i, b, rank)}
  <2>1. A \subseteq B
    BY <1>1, <1>2, <1>4 DEF Earlier
  <2>2. a \in B /\ a \notin A
    BY <1>1, <1>2, <1>4 DEF Earlier
  <2>3. IsFiniteSet(B)
    BY DueFinite
  <2> HIDE DEF A, B
  <2>4. Cardinality(A) < Cardinality(B)
    BY <2>1, <2>2, <2>3, SmallerSet
  <2> QED BY <2>4 DEF A, B, Turn
<1>5. Earlier(j, k, rank) \/ Earlier(k, j, rank)
  BY <1>1, <1>2, <1>3 DEF Earlier
<1>6. Turn(j, rank) \in Nat /\ Turn(k, rank) \in Nat
  BY DueFinite, Zenon
<1> QED BY <1>4, <1>5, <1>6

\* takeReady visits shares in a strict total order.
LEMMA BeforeIsOrder ==
    ASSUME OrderInv, NEW rank \in Ranks, NEW j \in Due, NEW k \in Due
    PROVE  /\ ~Before(k, k, rank)
           /\ j # k => Before(j, k, rank) \/ Before(k, j, rank)
           /\ \A i \in Due : Before(i, j, rank) /\ Before(j, k, rank) => Before(i, k, rank)
<1> DEFINE T(i) == Turn(i, rank)
           R(i) == RingDistance(RoundOf[i])
<1>1. \A i \in Due : T(i) \in Int
  <2>1. \A i : Turn(i, rank) \in Nat
    BY DueFinite, Zenon
  <2> QED BY <2>1
<1>2. \A i \in Due : RoundOf[i] \in 1..NumRounds
  BY HelperAssumption DEF HelperAssumption, Due
<1>3. NumRounds \in Nat /\ lastReadyRound \in 0..NumRounds
  BY HelperAssumption DEF HelperAssumption, OrderInv
<1>4. \A q, r \in 1..NumRounds :
         /\ RingDistance(q) \in Int
         /\ RingDistance(q) = RingDistance(r) => q = r
  BY <1>3 DEF RingDistance
<1>5. \A i \in Due : R(i) \in Int
  BY <1>2, <1>4
<1>6. T(j) = T(k) /\ R(j) = R(k) => j = k
  BY <1>2, <1>4, EarlierTurn
<1>7. \A a, b : Before(a, b, rank) <=> T(a) < T(b) \/ (T(a) = T(b) /\ R(a) < R(b))
  BY DEF Before
<1> HIDE DEF T, R
<1>8. ~Before(k, k, rank)
  BY <1>1, <1>5, <1>7
<1>9. j # k => Before(j, k, rank) \/ Before(k, j, rank)
  BY <1>1, <1>5, <1>6, <1>7
<1>10. \A i \in Due : Before(i, j, rank) /\ Before(j, k, rank) => Before(i, k, rank)
  BY <1>1, <1>5, <1>7
<1> QED BY <1>8, <1>9, <1>10

\* Different shares of a batch have different numbers of shares ahead.
LEMMA AheadDiffers ==
    ASSUME OrderInv, NEW rank \in Ranks, NEW T \in SUBSET Due, NEW j \in T, NEW k \in T,
           Cardinality(Ahead(T, j, rank)) = Cardinality(Ahead(T, k, rank))
    PROVE  j = k
<1>1. \A i : IsFiniteSet(Ahead(T, i, rank))
  <2>1. \A i : Ahead(T, i, rank) \in SUBSET Due
    BY DEF Ahead
  <2> QED BY <2>1, DueFinite, FS_Subset, Zenon
<1>2. ASSUME NEW a \in T, NEW b \in T, Before(a, b, rank)
      PROVE  /\ Cardinality(Ahead(T, a, rank)) \in Nat /\ Cardinality(Ahead(T, b, rank)) \in Nat
             /\ Cardinality(Ahead(T, a, rank)) < Cardinality(Ahead(T, b, rank))
  <2>1. Ahead(T, a, rank) \subseteq Ahead(T, b, rank)
    BY <1>2, BeforeIsOrder DEF Ahead
  <2>2. a \in Ahead(T, b, rank) /\ a \notin Ahead(T, a, rank)
    BY <1>2, BeforeIsOrder DEF Ahead
  <2> QED BY <1>1, <2>1, <2>2, SmallerSet, Zenon
<1>3. ~Before(j, k, rank) /\ ~Before(k, j, rank)
  BY <1>2
<1> QED BY <1>3, BeforeIsOrder

-----------------------------------------------------------------------------
(* Handing out a batch.                                                    *)

IdleWorkers == {v \in Workers : workers[v].pc = "idle"}

\* The shares taken from those visited.
Taken(seen) == {k \in seen : Takable(k)}

\* What handing out does: every share taken goes to an idle worker of its own,
\* and nothing else about workers and owners changes.
HandedOut(taken) ==
    /\ inFlight' = [k \in Shares |-> inFlight'[k]]
    /\ workers' = [w \in Workers |-> workers'[w]]
    /\ \A k \in taken : inFlight'[k] \in IdleWorkers /\ workers'[inFlight'[k]] = Started(k)
    /\ \A k \in Shares \ taken : inFlight'[k] = inFlight[k]
    /\ \A w \in Workers :
          \/ workers'[w] = workers[w]
          \/ \E k \in taken : /\ w \in IdleWorkers /\ inFlight'[k] = w
                              /\ workers'[w] = Started(k)

\* The workers that are idle are those the batch has room for.
LEMMA RoomIsIdle ==
    MaxConcurrent - ActiveCount = Cardinality(IdleWorkers) /\ Cardinality(IdleWorkers) \in Nat
<1> DEFINE Busy == {w \in Workers : workers[w].pc # "idle"}
<1>1. MaxConcurrent \in Nat
  BY HelperAssumption DEF HelperAssumption
<1>2. IsFiniteSet(Workers) /\ Cardinality(Workers) = MaxConcurrent
  BY <1>1, FS_Interval DEF Workers
<1>3. IdleWorkers = Workers \ Busy /\ Busy \in SUBSET Workers
  BY DEF IdleWorkers
<1>4. Workers \cap Busy = Busy
  OBVIOUS
<1>5. Cardinality(Busy) = ActiveCount
  BY DEF ActiveCount
<1> HIDE DEF Busy
<1>6. IsFiniteSet(Busy) /\ IsFiniteSet(Workers \ Busy)
  BY <1>2, <1>3, FS_Subset
<1>7. Cardinality(Workers \ Busy) = Cardinality(Workers) - Cardinality(Workers \cap Busy)
  BY <1>2, FS_Difference
<1>8. Cardinality(Busy) \in Nat /\ Cardinality(Workers \ Busy) \in Nat
  BY <1>6, FS_CardinalityType
<1> QED BY <1>1, <1>2, <1>3, <1>4, <1>5, <1>7, <1>8, Zenon

\* Every share taken has fewer shares of the batch ahead of it than there are
\* idle workers.
LEMMA BatchFits ==
    ASSUME NEW rank \in Ranks,
           NEW seen \in SUBSET Visited(MaxConcurrent - ActiveCount, rank), NEW k \in Taken(seen)
    PROVE  /\ Cardinality(Ahead(Taken(seen), k, rank)) \in Nat
           /\ Cardinality(Ahead(Taken(seen), k, rank)) < Cardinality(IdleWorkers)
<1> DEFINE A == Ahead(Taken(seen), k, rank)
           B == {j \in Due : Takable(j) /\ Before(j, k, rank)}
<1>1. seen \subseteq Due /\ k \in seen
  BY Zenon DEF Visited, Taken
<1>2. A \in SUBSET B
  BY <1>1 DEF Ahead, Taken
<1>3. IsFiniteSet(B)
  <2>1. B \in SUBSET Due
    OBVIOUS
  <2> QED BY <2>1, DueFinite, FS_Subset, Zenon
<1>4. Cardinality(B) < Cardinality(IdleWorkers)
  BY <1>1, RoomIsIdle DEF Visited
<1> HIDE DEF A, B
<1>5. IsFiniteSet(A) /\ Cardinality(A) <= Cardinality(B)
  BY <1>2, <1>3, FS_Subset
<1>6. Cardinality(A) \in Nat /\ Cardinality(B) \in Nat
  BY <1>3, <1>5, FS_CardinalityType
<1> QED BY <1>4, <1>5, <1>6, RoomIsIdle DEF A

\* Assigned gives every share taken one idle worker, and every worker at most
\* one share.
LEMMA AssignedOnce ==
    ASSUME OrderInv, NEW rank \in Ranks,
           NEW seen \in SUBSET Visited(MaxConcurrent - ActiveCount, rank)
    PROVE  /\ \A k \in Taken(seen) : \E w \in Workers : k \in Assigned(Taken(seen), w, rank)
           /\ \A w \in Workers : \A k \in Assigned(Taken(seen), w, rank) :
                 k \in Taken(seen) /\ w \in IdleWorkers
           /\ \A v, w \in Workers : \A k \in Assigned(Taken(seen), w, rank) :
                 k \in Assigned(Taken(seen), v, rank) => v = w
           /\ \A w \in Workers : \A j, k \in Assigned(Taken(seen), w, rank) : j = k
<1> DEFINE T == Taken(seen)
           Mine(w) == Assigned(T, w, rank)
<1>1. \A w, k : k \in Mine(w) <=>
        /\ k \in T /\ w \in IdleWorkers
        /\ Cardinality(Ahead(T, k, rank)) = Cardinality(Below(IdleWorkers, w))
  BY DEF Assigned, Ahead, Below, IdleWorkers
<1>2. MaxConcurrent \in Nat /\ IdleWorkers \in SUBSET (0..MaxConcurrent) /\ IdleWorkers \subseteq Workers
  BY HelperAssumption DEF HelperAssumption, IdleWorkers, Workers
<1>3. T \in SUBSET Due
  BY Zenon DEF Taken, Visited
<1>4. \A k \in T : \E w \in Workers : k \in Mine(w)
  <2> SUFFICES ASSUME NEW k \in T PROVE \E w \in Workers : k \in Mine(w)
    OBVIOUS
  <2>1. /\ Cardinality(Ahead(T, k, rank)) \in Nat
        /\ Cardinality(Ahead(T, k, rank)) < Cardinality(IdleWorkers)
    BY BatchFits
  <2>2. PICK w \in IdleWorkers : Cardinality(Below(IdleWorkers, w)) = Cardinality(Ahead(T, k, rank))
    BY <1>2, <2>1, EveryPlaceTaken, Zenon
  <2> HIDE DEF T, Mine
  <2> QED BY <1>1, <1>2, <2>2
<1> HIDE DEF T, Mine
<1>5. \A w \in Workers : \A k \in Mine(w) : k \in T /\ w \in IdleWorkers
  BY <1>1
<1>6. ASSUME NEW v, NEW w, NEW k \in Mine(w), k \in Mine(v) PROVE v = w
  <2>1. /\ v \in IdleWorkers /\ w \in IdleWorkers
        /\ Cardinality(Below(IdleWorkers, v)) = Cardinality(Below(IdleWorkers, w))
    BY <1>1, <1>6
  <2> QED BY <1>2, <2>1, PlacesDiffer, Zenon
<1>7. ASSUME NEW w, NEW j \in Mine(w), NEW k \in Mine(w) PROVE j = k
  <2>1. /\ j \in T /\ k \in T
        /\ Cardinality(Ahead(T, j, rank)) = Cardinality(Ahead(T, k, rank))
    BY <1>1
  <2> QED BY <1>3, <2>1, AheadDiffers
<1> QED BY <1>4, <1>5, <1>6, <1>7 DEF T, Mine

\* HandOut does what HandedOut says.
LEMMA HandOutHands ==
    ASSUME OrderInv, NEW rank \in Ranks,
           NEW seen \in SUBSET Visited(MaxConcurrent - ActiveCount, rank), HandOut(seen, rank)
    PROVE  HandedOut(Taken(seen))
<1> DEFINE T == Taken(seen)
           Mine(w) == Assigned(T, w, rank)
           owner(k) == CHOOSE w \in Workers : k \in Mine(w)
           share(w) == CHOOSE k \in T : k \in Mine(w)
<1>1. /\ inFlight' = [k \in Shares |-> IF k \in T THEN owner(k) ELSE inFlight[k]]
      /\ workers' = [w \in Workers |-> IF Mine(w) = {} THEN workers[w] ELSE Started(share(w))]
  BY DEF HandOut, Taken
<1>2. /\ \A k \in T : \E w \in Workers : k \in Mine(w)
      /\ \A w \in Workers : \A k \in Mine(w) : k \in T /\ w \in IdleWorkers
      /\ \A v, w \in Workers : \A k \in Mine(w) : k \in Mine(v) => v = w
      /\ \A w \in Workers : \A j, k \in Mine(w) : j = k
  BY AssignedOnce
<1>3. T \subseteq Shares
  BY Zenon DEF Taken, Visited, Due
<1> HIDE DEF T, Mine
<1>4. ASSUME NEW k \in T
      PROVE  owner(k) \in Workers /\ k \in Mine(owner(k)) /\ owner(k) \in IdleWorkers
  BY <1>2
<1>5. ASSUME NEW w \in Workers, Mine(w) # {}
      PROVE  share(w) \in T /\ share(w) \in Mine(w) /\ owner(share(w)) = w /\ w \in IdleWorkers
  <2>1. share(w) \in T /\ share(w) \in Mine(w) /\ w \in IdleWorkers
    BY <1>2, <1>5
  <2> HIDE DEF share
  <2> QED BY <1>2, <1>4, <2>1
<1>6. ASSUME NEW k \in T PROVE share(owner(k)) = k
  <2>1. owner(k) \in Workers /\ k \in Mine(owner(k))
    BY <1>4
  <2> HIDE DEF owner
  <2>2. share(owner(k)) \in Mine(owner(k))
    BY <1>2, <2>1
  <2> HIDE DEF share
  <2> QED BY <1>2, <2>1, <2>2
<1> HIDE DEF owner, share
<1>7. \A k \in T : inFlight'[k] = owner(k)
  BY <1>1, <1>3
<1>8. \A w \in Workers : workers'[w] = IF Mine(w) = {} THEN workers[w] ELSE Started(share(w))
  BY <1>1
<1>9. \A k \in T : inFlight'[k] \in IdleWorkers /\ workers'[inFlight'[k]] = Started(k)
  BY <1>4, <1>6, <1>7, <1>8
<1>10. \A w \in Workers :
          \/ workers'[w] = workers[w]
          \/ \E k \in T : w \in IdleWorkers /\ inFlight'[k] = w /\ workers'[w] = Started(k)
  BY <1>5, <1>7, <1>8
<1>11. \A k \in Shares \ T : inFlight'[k] = inFlight[k]
  BY <1>1
<1>12. inFlight' = [k \in Shares |-> inFlight'[k]] /\ workers' = [w \in Workers |-> workers'[w]]
  BY <1>1
<1> QED BY <1>9, <1>10, <1>11, <1>12 DEF HandedOut, T

\* The cursor stays on a round.
LEMMA CursorOnRound ==
    ASSUME OrderInv, NEW rank \in Ranks, NEW seen \in SUBSET Due
    PROVE  CursorAfter(seen, rank) \in 0..NumRounds
<1> DEFINE moved == {k \in seen : Takable(k) \/ Undecodable(k)}
           n(k) == Cardinality(Ahead(moved, k, rank))
<1>1. NumRounds \in Nat /\ \A k \in Due : RoundOf[k] \in 1..NumRounds
  BY HelperAssumption DEF HelperAssumption, Due
<1>2. moved \in SUBSET Due /\ IsFiniteSet(moved)
  <2>1. moved \in SUBSET Due
    OBVIOUS
  <2> QED BY <2>1, DueFinite, FS_Subset, Zenon
<1>3. CursorAfter(seen, rank) =
        IF moved = {} THEN lastReadyRound
        ELSE RoundOf[CHOOSE k \in moved : \A j \in moved : j = k \/ Before(j, k, rank)]
  BY DEF CursorAfter
<1> HIDE DEF moved
<1>4. CASE moved = {}
  BY <1>3, <1>4 DEF OrderInv
<1>5. CASE moved # {}
  <2>1. Cardinality(moved) \in Nat
    BY <1>2, FS_CardinalityType
  <2>2. \A k : IsFiniteSet(Ahead(moved, k, rank)) /\ n(k) \in 0..Cardinality(moved)
    <3>1. \A k : Ahead(moved, k, rank) \in SUBSET moved
      BY DEF Ahead
    <3>2. \A k : /\ IsFiniteSet(Ahead(moved, k, rank))
                 /\ Cardinality(Ahead(moved, k, rank)) <= Cardinality(moved)
      BY <1>2, <3>1, FS_Subset
    <3>3. \A k : Cardinality(Ahead(moved, k, rank)) \in Nat
      BY <3>2, FS_CardinalityType
    <3> QED BY <2>1, <3>2, <3>3
  <2> DEFINE S == {n(k) : k \in moved}
  <2>3. S \in SUBSET (0..Cardinality(moved)) /\ S # {}
    BY <1>5, <2>2
  <2>4. PICK m \in S : \A i \in S : i <= m
    <3> HIDE DEF S
    <3> QED BY <2>1, <2>3, GreatestNatural, Zenon
  <2>5. PICK k \in moved : m = n(k)
    BY <2>4
  <2>6. ASSUME NEW j \in moved, j # k PROVE Before(j, k, rank)
    <3>1. SUFFICES ASSUME Before(k, j, rank) PROVE FALSE
      BY <1>2, <2>6, BeforeIsOrder
    <3>2. Ahead(moved, k, rank) \subseteq Ahead(moved, j, rank)
      BY <1>2, <3>1, BeforeIsOrder DEF Ahead
    <3>3. k \in Ahead(moved, j, rank) /\ k \notin Ahead(moved, k, rank)
      BY <1>2, <3>1, BeforeIsOrder DEF Ahead
    <3>4. n(k) < n(j) /\ n(k) \in Nat /\ n(j) \in Nat
      BY <2>2, <3>2, <3>3, SmallerSet
    <3>5. n(j) <= n(k)
      BY <2>4, <2>5
    <3> QED BY <3>4, <3>5
  <2>7. (CHOOSE i \in moved : \A j \in moved : j = i \/ Before(j, i, rank)) \in moved
    BY <2>6
  <2> QED BY <1>1, <1>2, <1>3, <1>5, <2>7
<1> QED BY <1>4, <1>5

-----------------------------------------------------------------------------
(* The steps preserve the invariant.                                       *)

\* The due times of a share and of a retry are not in the past of what they
\* are computed from.
LEMMA DueTimes ==
    ASSUME ChainInv
    PROVE  /\ Later \in Nat /\ now <= Later
           /\ \A t \in Nat : DueTime(t) \in Nat /\ t <= DueTime(t)
           /\ \A t \in 0..VoteEnd : EffectiveSubmitAt(t) \in Nat
<1>1. MaxTime \in Nat /\ VoteEnd \in Nat
  BY HelperAssumption DEF HelperAssumption
<1> QED BY <1>1 DEF ChainInv, Later, DueTime, EffectiveSubmitAt

\* The records the queue builds have their types.
LEMMA RecordTypes ==
    /\ NoRow \in RowRecords /\ Idle \in WorkerRecords
    /\ \A t \in Nat : InsertedRow(t) \in RowRecords
    /\ Never \in Int
<1>1. NoRow \in RowRecords
  BY DEF NoRow, RowRecords, Damage
<1>2. Idle \in WorkerRecords
  BY <1>1 DEF Idle, WorkerRecords, Steps, Outcomes
<1>3. \A t \in Nat : InsertedRow(t) \in RowRecords
  BY <1>1, Zenon DEF InsertedRow, RowRecords, Damage
<1> QED BY <1>1, <1>2, <1>3 DEF Never

\* The initial states satisfy the invariant.
LEMMA InvInit == Init => Inv
<1> SUFFICES ASSUME Init PROVE Inv
  OBVIOUS
<1> USE DEF Init
<1>1. ChainInv
  <2>1. MaxTime \in Nat
    BY HelperAssumption DEF HelperAssumption
  <2>2. now \in Nat /\ now <= MaxTime /\ height \in Nat \ {0}
    BY <2>1
  <2>3. up \in BOOLEAN /\ checkTxReady \in BOOLEAN
    BY Zenon
  <2>4. closed \subseteq Rounds /\ committed \subseteq Shares
    BY Zenon
  <2> QED BY <2>2, <2>3, <2>4 DEF ChainInv
<1>2. QueueTypes
  <2>1. MaxConcurrent \in Nat /\ NumRounds \in Nat
    BY HelperAssumption DEF HelperAssumption
  <2>2. \A w \in Workers : workers[w].pc = "idle"
    BY DEF Idle
  <2> QED BY <2>1, <2>2, RecordTypes DEF QueueTypes
<1>3. SharesInOnePlace
  BY DEF SharesInOnePlace, Owners, Idle, Received, NoRow
<1>4. TimesInv /\ DownInv
  BY DEF TimesInv, DownInv, Never
<1>5. VerdictInv
  BY DEF VerdictInv, Idle
<1>6. SendInv
  BY DEF SendInv
<1> QED BY <1>1, <1>2, <1>3, <1>4, <1>5, <1>6 DEF Inv

\* Workers and owners as they are.
Unmoved == UNCHANGED <<workers, inFlight>>

\* With workers and owners unmoved, a share is in one place as long as it
\* stays on the schedule while it is to be sent.
LEMMA UnmovedOnePlace ==
    ASSUME Inv, Unmoved,
           \A k \in Shares : /\ inFlight[k] # 0 => schedule'[k] = Never
                             /\ up' /\ Received(k)' => schedule'[k] # Never \/ inFlight[k] # 0
    PROVE  SharesInOnePlace'
<1>1. \A k : Owners(k)' = Owners(k)
  BY DEF Owners, Unmoved, Workers
<1>2. \A k \in Shares : Owners(k) = (IF inFlight[k] = 0 THEN {} ELSE {inFlight[k]})
  BY DEF Inv, SharesInOnePlace
<1>3. inFlight' = inFlight
  BY DEF Unmoved
<1> QED BY <1>1, <1>2, <1>3 DEF SharesInOnePlace

\* The invariant over a step that leaves the queue and the workers alone.
LEMMA QueueAlone ==
    ASSUME Inv, ChainInv', UNCHANGED <<rows, schedule, inFlight, workers, up, lastReadyRound>>,
           now <= now', committed \subseteq committed', closed \subseteq closed',
           confirmed' \subseteq closed', ~up => ~checkTxReady', SendInv'
    PROVE  Inv'
<1>1. QueueTypes'
  BY DEF Inv, QueueTypes, Workers
<1>2. SharesInOnePlace'
  <2>1. \A k : Received(k)' = Received(k)
    BY DEF Received
  <2> QED BY <2>1, UnmovedOnePlace DEF Unmoved, Inv, SharesInOnePlace
<1>3. TimesInv'
  <2>1. \A k \in Shares : rows[k].submitAt \in Nat
    BY DEF Inv, QueueTypes, RowRecords
  <2> QED BY <2>1 DEF Inv, TimesInv, ChainInv, Never
<1>4. DownInv'
  BY DEF Inv, DownInv, Workers, Never
<1>5. VerdictInv'
  BY DEF Inv, VerdictInv, Workers
<1> QED BY <1>1, <1>2, <1>3, <1>4, <1>5 DEF Inv

\* The parts of the invariant a step keeps when it leaves their variables
\* alone.
LEMMA PartsKept ==
    ASSUME Inv
    PROVE  /\ UNCHANGED <<now, chain, up, checkTxReady>> => ChainInv'
           /\ UNCHANGED <<chain, workers, confirmed>> => VerdictInv'
           /\ UNCHANGED <<chain, checkTxReady, sends, history>> => SendInv'
<1>1. ASSUME UNCHANGED <<now, chain, up, checkTxReady>> PROVE ChainInv'
  BY <1>1 DEF Inv, ChainInv, chain, Rounds
<1>2. ASSUME UNCHANGED <<chain, workers, confirmed>> PROVE VerdictInv'
  BY <1>2 DEF Inv, VerdictInv, chain, Workers
<1>3. ASSUME UNCHANGED <<chain, checkTxReady, sends, history>> PROVE SendInv'
  BY <1>3 DEF Inv, SendInv, chain, sends, history
<1> QED BY <1>1, <1>2, <1>3

\* A request that passed validation waits for Enqueue; a failed one is gone;
\* a maintenance pass falls due.
LEMMA RequestKeeps ==
    ASSUME Inv,
           \/ \E k \in Shares : SubmitShare(k) \/ EnqueueStoreError(k)
           \/ MaintenanceTick
    PROVE  Inv'
<1>1. UNCHANGED <<now, height, closed, committed, up, checkTxReady, rows, schedule, inFlight,
                  lastReadyRound, workers, submitHeight, submitKeys, confirmed, sentAt, repeated>>
  BY DEF SubmitShare, EnqueueStoreError, MaintenanceTick, chain, queue, sends, cleanup, history
<1>2. ChainInv' /\ SendInv'
  BY <1>1, PartsKept DEF chain, sends, history
<1>3. now <= now'
  BY <1>1 DEF Inv, ChainInv
<1>4. confirmed \subseteq closed /\ (~up => ~checkTxReady)
  BY DEF Inv, VerdictInv, DownInv
<1> QED BY <1>1, <1>2, <1>3, <1>4, QueueAlone

\* A cleanup pass confirms closed rounds only.
LEMMA CleanupKeeps ==
    ASSUME Inv, CleanupClosedRounds
    PROVE  Inv'
<1>1. UNCHANGED <<now, height, closed, committed, up, checkTxReady, rows, schedule, inFlight,
                  lastReadyRound, workers, submitHeight, submitKeys, sentAt, repeated>>
  BY DEF CleanupClosedRounds, chain, queue, sends, history
<1>2. ChainInv' /\ SendInv'
  BY <1>1, PartsKept DEF chain, sends, history
<1>3. now <= now'
  BY <1>1 DEF Inv, ChainInv
<1>4. ~up => ~checkTxReady
  BY DEF Inv, DownInv
<1>5. confirmed' \subseteq closed'
  <2>1. PurgeCandidates \subseteq closed
    BY DEF PurgeCandidates
  <2> QED BY <1>1, <2>1 DEF CleanupClosedRounds
<1> QED BY <1>1, <1>2, <1>3, <1>4, <1>5, QueueAlone

\* Time passes.
LEMMA TickKeeps ==
    ASSUME Inv, Tick
    PROVE  Inv'
<1>1. UNCHANGED <<height, closed, committed, up, checkTxReady, rows, schedule, inFlight,
                  lastReadyRound, workers, submitHeight, submitKeys, confirmed, sentAt, repeated>>
  BY DEF Tick, chain, queue, sends, cleanup, history
<1>2. SendInv'
  BY <1>1, PartsKept DEF chain, sends, history
<1>3. now' \in Nat /\ now' <= MaxTime /\ now <= now'
  <2>1. MaxTime \in Nat
    BY HelperAssumption DEF HelperAssumption
  <2> QED BY <2>1 DEF Tick, Inv, ChainInv
<1>4. ChainInv'
  BY <1>1, <1>3 DEF Inv, ChainInv, Rounds
<1>5. confirmed \subseteq closed /\ (~up => ~checkTxReady)
  BY DEF Inv, VerdictInv, DownInv
<1> QED BY <1>1, <1>2, <1>3, <1>4, <1>5, QueueAlone

\* A block is committed: what was sent was sent at an earlier height.
LEMMA BlockKeeps ==
    ASSUME Inv, Block
    PROVE  Inv'
<1>1. UNCHANGED <<now, up, rows, schedule, inFlight, lastReadyRound, workers,
                  submitHeight, submitKeys, confirmed, sentAt, repeated>>
  BY DEF Block, queue, sends, cleanup, history
<1>2. height' = height + 1 /\ checkTxReady' = up
  BY DEF Block
<1>3. committed \subseteq committed' /\ committed' \subseteq Shares
  BY DEF Block, Inv, ChainInv
<1>4. closed \subseteq closed' /\ closed' \subseteq Rounds
  BY DEF Block, Inv, ChainInv
<1>5. ChainInv'
  <2>1. now' \in Nat /\ now' <= MaxTime /\ height' \in Nat \ {0}
    BY <1>1, <1>2 DEF Inv, ChainInv
  <2>2. up' \in BOOLEAN /\ checkTxReady' \in BOOLEAN
    BY <1>1, <1>2, Zenon DEF Inv, ChainInv
  <2> QED BY <1>3, <1>4, <2>1, <2>2 DEF ChainInv, Rounds
<1>6. SendInv'
  <2>1. height \in Nat /\ submitHeight \in Nat /\ submitHeight <= height
        /\ \A k \in Shares : sentAt[k] \in Nat /\ sentAt[k] <= height
    BY DEF Inv, ChainInv, SendInv
  <2>2. submitHeight' <= height' /\ \A k \in Shares : sentAt'[k] <= height' /\ sentAt'[k] # height'
    BY <1>1, <1>2, <2>1
  <2> QED BY <1>1, <2>2 DEF Inv, SendInv
<1>7. confirmed' \subseteq closed' /\ now <= now' /\ (~up => ~checkTxReady')
  BY <1>1, <1>2, <1>4 DEF Inv, VerdictInv, ChainInv
<1> QED BY <1>1, <1>3, <1>4, <1>5, <1>6, <1>7, QueueAlone

\* The invariant over a step that changes only rows and due times.
LEMMA RowsChange ==
    ASSUME Inv, UNCHANGED <<now, chain, up, checkTxReady, inFlight, lastReadyRound, workers,
                            sends, history>>,
           confirmed' \subseteq closed,
           rows' \in [Shares -> RowRecords], schedule' \in [Shares -> Int],
           \A k \in Shares :
              /\ inFlight[k] # 0 => /\ rows'[k].state # "absent" /\ rows'[k].submitAt = rows[k].submitAt
                                    /\ schedule'[k] = Never
              /\ schedule'[k] # Never => up /\ rows'[k].submitAt <= schedule'[k]
              /\ up /\ Received(k)' => schedule'[k] # Never \/ inFlight[k] # 0
    PROVE  Inv'
<1>1. ChainInv' /\ SendInv'
  BY PartsKept
<1>2. QueueTypes'
  BY DEF Inv, QueueTypes, Workers
<1>3. SharesInOnePlace'
  BY UnmovedOnePlace, Zenon DEF Unmoved
<1>4. TimesInv'
  BY DEF Inv, TimesInv, Never
<1>5. DownInv'
  BY DEF Inv, DownInv, Workers, Never
<1>6. VerdictInv'
  BY DEF Inv, VerdictInv, chain, Workers
<1> QED BY <1>1, <1>2, <1>3, <1>4, <1>5, <1>6, Zenon DEF Inv

\* A row is written at its share: an INSERT, or the repair of a damaged row.
Written(k, at) ==
    IF rows[k].state = "absent" THEN InsertedRow(at) ELSE ReplacedRow(k, at)

\* What is written can be sent, at its submit_at.
LEMMA WrittenRow ==
    ASSUME Inv, NEW k \in Shares, NEW at \in Nat
    PROVE  /\ Written(k, at) \in RowRecords
           /\ Written(k, at).state = "received" /\ Written(k, at).submitAt = at
           /\ Written(k, at).witness = TRUE
<1>1. rows[k] \in RowRecords
  BY DEF Inv, QueueTypes
<1>2. /\ InsertedRow(at) \in RowRecords
      /\ InsertedRow(at).state = "received" /\ InsertedRow(at).submitAt = at
      /\ InsertedRow(at).witness = TRUE
  BY RecordTypes, Zenon DEF InsertedRow, RowRecords
<1>3. /\ ReplacedRow(k, at) \in RowRecords
      /\ ReplacedRow(k, at).state = "received" /\ ReplacedRow(k, at).submitAt = at
      /\ ReplacedRow(k, at).witness = TRUE
  <2>1. ReplacedRow(k, at) \in RowRecords
    <3> DEFINE r1 == [rows[k] EXCEPT !.state = "received"]
               r2 == [r1 EXCEPT !.witness = TRUE]
               r3 == [r2 EXCEPT !.attempts = 0]
               r4 == [r3 EXCEPT !.submitAt = at]
               r5 == [r4 EXCEPT !.corrupt = "no"]
    <3>1. ReplacedRow(k, at) = r5
      BY DEF ReplacedRow
    <3> HIDE DEF r5
    <3>2. r4 \in RowRecords => r5 \in RowRecords
      <4> HIDE DEF r4
      <4> QED BY DEF r5, RowRecords, Damage
    <3> HIDE DEF r4
    <3>3. r3 \in RowRecords => r4 \in RowRecords
      <4> HIDE DEF r3
      <4> QED BY DEF r4, RowRecords
    <3> HIDE DEF r3
    <3>4. r2 \in RowRecords => r3 \in RowRecords
      <4> HIDE DEF r2
      <4> QED BY DEF r3, RowRecords
    <3> HIDE DEF r2
    <3>5. r1 \in RowRecords => r2 \in RowRecords
      <4> HIDE DEF r1
      <4> QED BY Zenon DEF r2, RowRecords
    <3>6. r1 \in RowRecords
      BY <1>1 DEF RowRecords
    <3> QED BY <3>1, <3>2, <3>3, <3>4, <3>5, <3>6
  <2>2. ReplacedRow(k, at).state = "received"
    BY <1>1 DEF ReplacedRow, RowRecords
  <2>3. ReplacedRow(k, at).submitAt = at
    BY <1>1 DEF ReplacedRow, RowRecords
  <2>4. ReplacedRow(k, at).witness = TRUE
    BY <1>1 DEF ReplacedRow, RowRecords
  <2> QED BY <2>1, <2>2, <2>3, <2>4
<1> QED BY <1>2, <1>3 DEF Written

\* A request is stored only where no attempt owns its share.
LEMMA QueuedIsFree ==
    ASSUME Inv, NEW k \in Shares, EnqueueResult(k) = "queued"
    PROVE  inFlight[k] = 0
<1>1. rows[k].state = "absent" => inFlight[k] = 0
  BY DEF Inv, TimesInv
<1>2. CASE rows[k].state # "absent"
  <2>1. Decodes(k) => EnqueueResult(k) # "queued"
    BY <1>2 DEF EnqueueResult
  <2>2. ~Decodes(k) /\ ~Replaceable(k) => EnqueueResult(k) # "queued"
    BY <1>2 DEF EnqueueResult
  <2> QED BY <2>1, <2>2 DEF Replaceable
<1> QED BY <1>1, <1>2

\* Enqueue keeps the invariant.
LEMMA EnqueueKeeps ==
    ASSUME Inv, NEW k \in Shares, Enqueue(k)
    PROVE  Inv'
<1>1. UNCHANGED <<now, chain, up, checkTxReady, inFlight, lastReadyRound, workers,
                  sends, history, confirmed, closed>>
  BY DEF Enqueue, cleanup, chain
<1>2. up /\ confirmed' \subseteq closed
  BY <1>1 DEF Enqueue, Inv, VerdictInv
<1>3. ChainInv /\ QueueTypes
  BY DEF Inv
<1>4. CASE UNCHANGED <<rows, schedule>>
  <2>1. rows' \in [Shares -> RowRecords] /\ schedule' \in [Shares -> Int]
    BY <1>3, <1>4 DEF QueueTypes
  <2>2. \A j \in Shares :
          /\ inFlight[j] # 0 => rows[j].state # "absent" /\ schedule[j] = Never
          /\ schedule[j] # Never => rows[j].submitAt <= schedule[j]
          /\ up /\ Received(j) => schedule[j] # Never \/ inFlight[j] # 0
    BY DEF Inv, TimesInv, SharesInOnePlace
  <2>3. \A j : Received(j)' = Received(j)
    BY <1>4 DEF Received
  <2> QED BY <1>1, <1>2, <1>4, <2>1, <2>2, <2>3, RowsChange
<1>5. ASSUME NEW at \in Nat, EnqueueResult(k) = "queued",
             rows' = [rows EXCEPT ![k] = Written(k, at)],
             schedule' = [schedule EXCEPT ![k] = DueTime(at)]
      PROVE  Inv'
  <2>1. DueTime(at) \in Nat /\ at <= DueTime(at)
    BY <1>3, DueTimes
  <2>2. rows' \in [Shares -> RowRecords] /\ schedule' \in [Shares -> Int]
    <3>1. Written(k, at) \in RowRecords
      BY WrittenRow, Zenon
    <3> QED BY <1>3, <1>5, <2>1, <3>1 DEF QueueTypes
  <2>3. /\ rows'[k] = Written(k, at) /\ schedule'[k] = DueTime(at)
        /\ \A j \in Shares : j # k => rows'[j] = rows[j] /\ schedule'[j] = schedule[j]
    BY <1>3, <1>5 DEF QueueTypes
  <2>4. schedule'[k] # Never /\ rows'[k].submitAt <= schedule'[k]
    <3>1. Written(k, at).submitAt = at
      BY WrittenRow, Zenon
    <3> QED BY <2>1, <2>3, <3>1 DEF Never
  <2>5. inFlight[k] = 0
    BY <1>5, QueuedIsFree
  <2>6. \A j \in Shares :
          /\ inFlight[j] # 0 => rows[j].state # "absent" /\ schedule[j] = Never
          /\ schedule[j] # Never => rows[j].submitAt <= schedule[j]
          /\ up /\ Received(j) => schedule[j] # Never \/ inFlight[j] # 0
    BY DEF Inv, TimesInv, SharesInOnePlace
  <2>7. \A j \in Shares : j # k => (Received(j)' <=> Received(j))
    BY <2>3 DEF Received
  <2>8. \A j \in Shares :
          /\ inFlight[j] # 0 => /\ rows'[j].state # "absent" /\ rows'[j].submitAt = rows[j].submitAt
                                /\ schedule'[j] = Never
          /\ schedule'[j] # Never => up /\ rows'[j].submitAt <= schedule'[j]
          /\ up /\ Received(j)' => schedule'[j] # Never \/ inFlight[j] # 0
    BY <1>2, <2>3, <2>4, <2>5, <2>6, <2>7, Zenon
  <2> QED BY <1>1, <1>2, <2>2, <2>8, RowsChange
<1>6. \/ UNCHANGED <<rows, schedule>>
      \/ \E at \in Nat : /\ EnqueueResult(k) = "queued"
                         /\ rows' = [rows EXCEPT ![k] = Written(k, at)]
                         /\ schedule' = [schedule EXCEPT ![k] = DueTime(at)]
  <2>1. PICK t \in 0..VoteEnd :
           EnqueueRow(k, EffectiveSubmitAt(t)) \/ UNCHANGED <<rows, schedule>>
    BY DEF Enqueue
  <2>2. EffectiveSubmitAt(t) \in Nat
    BY <1>3, DueTimes
  <2> QED BY <2>1, <2>2 DEF EnqueueRow, Written
<1> QED BY <1>4, <1>5, <1>6

\* A purge takes rows that no attempt owns.
LEMMA PurgeKeeps ==
    ASSUME Inv, PurgeRounds
    PROVE  Inv'
<1> DEFINE active == {RoundOf[k] : k \in {j \in Shares : inFlight[j] # 0}}
           gone == {k \in Shares : RoundOf[k] \in confirmed \ active}
<1>1. UNCHANGED <<now, chain, up, checkTxReady, inFlight, lastReadyRound, workers,
                  sends, history, closed>>
  BY DEF PurgeRounds, chain
<1>2. up /\ confirmed' \subseteq closed
  BY DEF PurgeRounds
<1>3. \A k \in gone : inFlight[k] = 0
  OBVIOUS
<1>4. \/ UNCHANGED <<rows, schedule>>
      \/ /\ rows' = [k \in Shares |-> IF k \in gone THEN NoRow ELSE rows[k]]
         /\ schedule' = [k \in Shares |-> IF k \in gone THEN Never ELSE schedule[k]]
  BY DEF PurgeRounds
<1> HIDE DEF gone
<1>5. \A j \in Shares :
          /\ inFlight[j] # 0 => rows[j].state # "absent" /\ schedule[j] = Never
          /\ schedule[j] # Never => rows[j].submitAt <= schedule[j]
          /\ up /\ Received(j) => schedule[j] # Never \/ inFlight[j] # 0
  BY DEF Inv, TimesInv, SharesInOnePlace
<1>6. rows' \in [Shares -> RowRecords] /\ schedule' \in [Shares -> Int]
  <2>1. rows \in [Shares -> RowRecords] /\ schedule \in [Shares -> Int]
    BY DEF Inv, QueueTypes
  <2>2. NoRow \in RowRecords /\ Never \in Int
    BY RecordTypes
  <2> QED BY <1>4, <2>1, <2>2
<1>7. \A k \in Shares : \/ rows'[k] = rows[k] /\ schedule'[k] = schedule[k]
                        \/ k \in gone /\ rows'[k] = NoRow /\ schedule'[k] = Never
  BY <1>4
<1>8. \A k \in Shares : Received(k)' => rows'[k] = rows[k] /\ schedule'[k] = schedule[k] /\ Received(k)
  <2>1. NoRow.state = "absent"
    BY DEF NoRow
  <2> QED BY <1>7, <2>1 DEF Received
<1>9. \A k \in Shares :
          /\ inFlight[k] # 0 => /\ rows'[k].state # "absent" /\ rows'[k].submitAt = rows[k].submitAt
                                /\ schedule'[k] = Never
          /\ schedule'[k] # Never => up /\ rows'[k].submitAt <= schedule'[k]
          /\ up /\ Received(k)' => schedule'[k] # Never \/ inFlight[k] # 0
  BY <1>2, <1>3, <1>5, <1>7, <1>8, Zenon
<1> QED BY <1>1, <1>2, <1>6, <1>9, RowsChange

\* Damage to a row leaves its state and its time.
LEMMA CorruptKeeps ==
    ASSUME Inv, NEW k \in Shares, CorruptRow(k)
    PROVE  Inv'
<1>1. UNCHANGED <<now, chain, up, checkTxReady, inFlight, lastReadyRound, workers,
                  sends, history, schedule, confirmed>>
  BY DEF CorruptRow, cleanup
<1>2. PICK column \in Damage \ {"no"} : rows' = [rows EXCEPT ![k].corrupt = column]
  BY Zenon DEF CorruptRow
<1>3. rows \in [Shares -> RowRecords] /\ schedule \in [Shares -> Int]
  BY DEF Inv, QueueTypes
<1>4. rows[k].corrupt = "no"
  BY DEF CorruptRow, Decodes
<1>5. \A j \in Shares : rows[j] \in RowRecords
  BY <1>3
<1>6. /\ rows' \in [Shares -> RowRecords]
      /\ \A j \in Shares : rows'[j].state = rows[j].state /\ rows'[j].submitAt = rows[j].submitAt
      /\ \A j \in Shares : j # k => rows'[j] = rows[j]
  BY <1>2, <1>3, <1>5 DEF RowRecords
<1>7. \A j \in Shares : Received(j)' => Received(j)
  BY <1>4, <1>6 DEF Received
<1>8. \A j \in Shares :
          /\ inFlight[j] # 0 => rows[j].state # "absent" /\ schedule[j] = Never
          /\ schedule[j] # Never => rows[j].submitAt <= schedule[j]
          /\ up /\ Received(j) => schedule[j] # Never \/ inFlight[j] # 0
  BY DEF Inv, TimesInv, SharesInOnePlace
<1>9. (\A j \in Shares : schedule[j] # Never => up) /\ confirmed \subseteq closed
  BY DEF Inv, DownInv, VerdictInv
<1>10. \A j \in Shares :
          /\ inFlight[j] # 0 => /\ rows'[j].state # "absent" /\ rows'[j].submitAt = rows[j].submitAt
                                /\ schedule'[j] = Never
          /\ schedule'[j] # Never => up /\ rows'[j].submitAt <= schedule'[j]
          /\ up /\ Received(j)' => schedule'[j] # Never \/ inFlight[j] # 0
  BY <1>1, <1>6, <1>7, <1>8, <1>9
<1> QED BY <1>1, <1>3, <1>6, <1>9, <1>10, RowsChange

\* A rescue import adds rows, or makes them due, while the process is down.
LEMMA ImportKeeps ==
    ASSUME Inv, NEW k \in Shares, ImportQueue(k)
    PROVE  Inv'
<1>1. UNCHANGED <<now, chain, up, checkTxReady, inFlight, lastReadyRound, workers,
                  sends, history, schedule, confirmed>>
  BY DEF ImportQueue, cleanup
<1>2. ~up /\ \A j \in Shares : schedule[j] = Never /\ inFlight[j] = 0
  BY DEF ImportQueue, Inv, DownInv
<1>3. rows \in [Shares -> RowRecords] /\ schedule \in [Shares -> Int] /\ rows[k] \in RowRecords
  BY DEF Inv, QueueTypes
<1>4. rows' \in [Shares -> RowRecords]
  <2>1. MaxAttempts \in Nat /\ VoteEnd \in Nat
    BY HelperAssumption DEF HelperAssumption
  <2>2. PICK attempts \in 0..(MaxAttempts - 1), submitAt \in 0..(VoteEnd - 1), forceReady \in BOOLEAN :
           \/ rows' = [rows EXCEPT ![k] = [InsertedRow(IF forceReady THEN 0 ELSE submitAt)
                                             EXCEPT !.attempts = attempts]]
           \/ rows' = [rows EXCEPT ![k].submitAt = 0]
    BY DEF ImportQueue
  <2> DEFINE at == IF forceReady THEN 0 ELSE submitAt
  <2>3. at \in Nat
    BY <2>1
  <2>4. InsertedRow(at) \in RowRecords
    BY <2>3, RecordTypes
  <2> HIDE DEF at
  <2>5. [InsertedRow(at) EXCEPT !.attempts = attempts] \in RowRecords
    BY <2>1, <2>4 DEF RowRecords
  <2>6. [rows[k] EXCEPT !.submitAt = 0] \in RowRecords
    BY <1>3 DEF RowRecords
  <2> QED BY <1>3, <2>2, <2>5, <2>6 DEF at
<1>5. confirmed \subseteq closed
  BY Zenon DEF Inv, VerdictInv
<1>6. \A j \in Shares :
          /\ inFlight[j] # 0 => /\ rows'[j].state # "absent" /\ rows'[j].submitAt = rows[j].submitAt
                                /\ schedule'[j] = Never
          /\ schedule'[j] # Never => up /\ rows'[j].submitAt <= schedule'[j]
          /\ up /\ Received(j)' => schedule'[j] # Never \/ inFlight[j] # 0
  BY <1>1, <1>2
<1> QED BY <1>1, <1>3, <1>4, <1>5, <1>6, RowsChange

\* A repair gives a row a time again, while the process is down.
LEMMA RepairKeeps ==
    ASSUME Inv, NEW k \in Shares, RepairRow(k)
    PROVE  Inv'
<1>1. UNCHANGED <<now, chain, up, checkTxReady, inFlight, lastReadyRound, workers,
                  sends, history, schedule, confirmed>>
  BY DEF RepairRow, cleanup
<1>2. ~up /\ \A j \in Shares : schedule[j] = Never /\ inFlight[j] = 0
  BY DEF RepairRow, Inv, DownInv
<1>3. rows \in [Shares -> RowRecords] /\ schedule \in [Shares -> Int] /\ rows[k] \in RowRecords
  BY DEF Inv, QueueTypes
<1>4. rows' \in [Shares -> RowRecords]
  <2>1. PICK at \in 0..(VoteEnd - 1) :
           rows' = [rows EXCEPT ![k].submitAt = at, ![k].corrupt = "no"]
    BY Zenon DEF RepairRow
  <2>2. at \in Nat
    BY HelperAssumption DEF HelperAssumption
  <2>3. [rows[k] EXCEPT !.submitAt = at, !.corrupt = "no"] \in RowRecords
    BY <1>3, <2>2, Zenon DEF RowRecords, Damage
  <2> QED BY <1>3, <2>1, <2>3
<1>5. confirmed \subseteq closed
  BY Zenon DEF Inv, VerdictInv
<1>6. \A j \in Shares :
          /\ inFlight[j] # 0 => /\ rows'[j].state # "absent" /\ rows'[j].submitAt = rows[j].submitAt
                                /\ schedule'[j] = Never
          /\ schedule'[j] # Never => up /\ rows'[j].submitAt <= schedule'[j]
          /\ up /\ Received(j)' => schedule'[j] # Never \/ inFlight[j] # 0
  BY <1>1, <1>2
<1> QED BY <1>1, <1>3, <1>4, <1>5, <1>6, RowsChange

\* A crash leaves the rows and nothing else.
LEMMA CrashKeeps ==
    ASSUME Inv, Crash
    PROVE  Inv'
<1>1. /\ UNCHANGED <<now, height, closed, committed, rows, sentAt, repeated>>
      /\ up' = FALSE /\ checkTxReady' = FALSE
      /\ schedule' = [k \in Shares |-> Never] /\ inFlight' = [k \in Shares |-> 0]
      /\ workers' = [w \in Workers |-> Idle] /\ lastReadyRound' = 0
      /\ submitHeight' = 0 /\ submitKeys' = {} /\ confirmed' = {}
  BY DEF Crash, chain, history
<1>2. ChainInv'
  <2>1. up' \in BOOLEAN /\ checkTxReady' \in BOOLEAN
    BY <1>1, Zenon
  <2> QED BY <1>1, <2>1 DEF Inv, ChainInv, Rounds
<1>3. \A w \in Workers : workers'[w].pc = "idle" /\ workers'[w].outcome = "none"
  BY <1>1 DEF Idle
<1>4. QueueTypes'
  <2>1. MaxConcurrent \in Nat /\ NumRounds \in Nat
    BY HelperAssumption DEF HelperAssumption
  <2>2. rows' \in [Shares -> RowRecords]
    BY <1>1 DEF Inv, QueueTypes
  <2>3. schedule' \in [Shares -> Int]
    BY <1>1, RecordTypes
  <2>4. inFlight' \in [Shares -> 0..MaxConcurrent] /\ lastReadyRound' \in 0..NumRounds
    BY <1>1, <2>1
  <2>5. workers' \in [Workers -> WorkerRecords]
    BY <1>1, RecordTypes
  <2> QED BY <1>3, <2>2, <2>3, <2>4, <2>5 DEF QueueTypes, Workers
<1>5. SharesInOnePlace'
  BY <1>1, <1>3 DEF SharesInOnePlace, Owners, Workers
<1>6. TimesInv' /\ DownInv'
  BY <1>1, <1>3 DEF TimesInv, DownInv, Never, Workers
<1>7. VerdictInv'
  BY <1>1, <1>3 DEF VerdictInv, Workers
<1>8. SendInv'
  BY <1>1 DEF Inv, SendInv, ChainInv
<1> QED BY <1>2, <1>4, <1>5, <1>6, <1>7, <1>8 DEF Inv

\* A restart schedules the rows that are to be sent, at their submit_at.
LEMMA StartKeeps ==
    ASSUME Inv, Start
    PROVE  Inv'
<1>1. /\ UNCHANGED <<now, height, closed, committed, checkTxReady, rows, inFlight, lastReadyRound,
                     workers, submitHeight, submitKeys, confirmed, sentAt, repeated>>
      /\ up' = TRUE /\ schedule' = Recovered
  BY DEF Start, chain, sends, cleanup, history
<1>2. ChainInv'
  <2>1. up' \in BOOLEAN
    BY <1>1, Zenon
  <2> QED BY <1>1, <2>1 DEF Inv, ChainInv, Rounds
<1>3. \A k \in Shares : inFlight[k] = 0
  BY DEF Start, Inv, DownInv
<1>4. \A k \in Shares : rows[k].submitAt \in Nat
  BY DEF Inv, QueueTypes, RowRecords
<1>5. \A t \in Nat : DueTime(t) \in Nat /\ t <= DueTime(t)
  BY DueTimes DEF Inv
<1>6. schedule' \in [Shares -> Int]
  BY <1>1, <1>4, <1>5 DEF Recovered, Never
<1>7. QueueTypes'
  BY <1>1, <1>6 DEF Inv, QueueTypes, Workers
<1>8. \A k \in Shares : IF Received(k) THEN schedule'[k] = DueTime(rows[k].submitAt)
                        ELSE schedule'[k] = Never
  BY <1>1 DEF Recovered
<1>9. SharesInOnePlace'
  <2>1. \A k \in Shares : Received(k)' => schedule'[k] # Never
    BY <1>1, <1>4, <1>5, <1>8 DEF Received, Never
  <2> QED BY <1>1, <1>3, <2>1, UnmovedOnePlace DEF Unmoved
<1>10. TimesInv'
  BY <1>1, <1>3, <1>4, <1>5, <1>8 DEF TimesInv, Never
<1>11. DownInv'
  BY <1>1 DEF DownInv
<1>12. VerdictInv' /\ SendInv'
  BY <1>1, PartsKept DEF chain, sends, history
<1> QED BY <1>2, <1>7, <1>9, <1>10, <1>11, <1>12 DEF Inv

\* A worker that starts on a share holds it, with the row as it is stored.
LEMMA StartedRecord ==
    ASSUME Inv, NEW k \in Shares
    PROVE  /\ Started(k) \in WorkerRecords
           /\ Started(k).pc = "status" /\ Started(k).key = k /\ Started(k).outcome = "none"
<1> DEFINE r1 == [Idle EXCEPT !.pc = "status"]
           r2 == [r1 EXCEPT !.key = k]
           r3 == [r2 EXCEPT !.row = rows[k]]
<1>1. rows[k] \in RowRecords
  BY DEF Inv, QueueTypes
<1>2. r1 \in WorkerRecords /\ r1.pc = "status" /\ r1.outcome = "none"
  <2>1. Idle.outcome = "none"
    BY DEF Idle
  <2> QED BY <2>1, RecordTypes DEF WorkerRecords, Steps
<1>3. Started(k) = r3
  BY DEF Started
<1> HIDE DEF r1
<1>4. r2 \in WorkerRecords /\ r2.pc = "status" /\ r2.key = k /\ r2.outcome = "none"
  BY <1>2 DEF WorkerRecords
<1> HIDE DEF r2
<1>5. r3 \in WorkerRecords /\ r3.pc = "status" /\ r3.key = k /\ r3.outcome = "none"
  BY <1>1, <1>4 DEF WorkerRecords
<1> QED BY <1>3, <1>5

\* What handing out does to workers and owners leaves every share with the
\* owner that works on it.
LEMMA HandedOutOwners ==
    ASSUME Inv, NEW taken \in SUBSET Shares, \A k \in taken : inFlight[k] = 0, HandedOut(taken)
    PROVE  /\ inFlight' \in [Shares -> 0..MaxConcurrent]
           /\ workers' \in [Workers -> WorkerRecords]
           /\ \A w \in Workers : workers'[w].pc # "idle" => workers'[w].key \in Shares
           /\ \A w \in Workers : workers'[w].outcome = "submitted" => workers'[w].key \in committed
           /\ \A k \in Shares : Owners(k)' = (IF inFlight'[k] = 0 THEN {} ELSE {inFlight'[k]})
           /\ \A k \in taken : inFlight'[k] # 0
<1>1. \A k \in taken : inFlight'[k] \in Workers /\ inFlight'[k] # 0
  BY HelperAssumption DEF HandedOut, IdleWorkers, Workers, HelperAssumption
<1>2. inFlight' \in [Shares -> 0..MaxConcurrent]
  <2>1. \A k \in Shares : inFlight'[k] \in 0..MaxConcurrent
    BY <1>1 DEF HandedOut, Inv, QueueTypes, Workers
  <2> QED BY <2>1 DEF HandedOut
<1>3. \A w \in Workers :
        /\ workers'[w] \in WorkerRecords
        /\ workers'[w].pc # "idle" => workers'[w].key \in Shares
        /\ workers'[w].outcome = "submitted" => workers'[w].key \in committed
  <2> SUFFICES ASSUME NEW w \in Workers
               PROVE  /\ workers'[w] \in WorkerRecords
                      /\ workers'[w].pc # "idle" => workers'[w].key \in Shares
                      /\ workers'[w].outcome = "submitted" => workers'[w].key \in committed
    OBVIOUS
  <2>1. CASE workers'[w] = workers[w]
    BY <2>1 DEF Inv, QueueTypes, VerdictInv
  <2>2. CASE \E k \in taken : workers'[w] = Started(k)
    BY <2>2, StartedRecord
  <2> QED BY <2>1, <2>2 DEF HandedOut
<1>4. workers' \in [Workers -> WorkerRecords]
  BY <1>3 DEF HandedOut
<1>5. ASSUME NEW k \in Shares
      PROVE  Owners(k)' = (IF inFlight'[k] = 0 THEN {} ELSE {inFlight'[k]})
  <2>1. Owners(k) = (IF inFlight[k] = 0 THEN {} ELSE {inFlight[k]})
    BY DEF Inv, SharesInOnePlace
  <2>2. CASE k \in taken
    <3>1. Owners(k) = {}
      BY <2>1, <2>2
    <3>2. inFlight'[k] \in Owners(k)'
      <4>1. workers'[inFlight'[k]] = Started(k)
        BY <2>2 DEF HandedOut
      <4> QED BY <1>1, <2>2, <4>1, StartedRecord DEF Owners, Workers
    <3>3. ASSUME NEW v \in Owners(k)' PROVE v = inFlight'[k]
      <4>1. v \in Workers /\ workers'[v].key = k /\ workers'[v].pc \notin {"idle", "done"}
        BY DEF Owners, Workers
      <4>2. workers'[v] # workers[v]
        BY <3>1, <4>1 DEF Owners
      <4>3. PICK j \in taken : inFlight'[j] = v /\ workers'[v] = Started(j)
        BY <4>1, <4>2 DEF HandedOut
      <4>4. j = k
        BY <4>1, <4>3, StartedRecord
      <4> QED BY <4>3, <4>4
    <3> QED BY <1>1, <2>2, <3>2, <3>3
  <2>3. CASE k \notin taken
    <3>1. inFlight'[k] = inFlight[k]
      BY <2>3 DEF HandedOut
    <3>2. ASSUME NEW v \in Workers PROVE v \in Owners(k)' <=> v \in Owners(k)
      <4>1. CASE workers'[v] = workers[v]
        BY <4>1 DEF Owners, Workers
      <4>2. CASE \E j \in taken : v \in IdleWorkers /\ workers'[v] = Started(j)
        <5>1. PICK j \in taken : v \in IdleWorkers /\ workers'[v] = Started(j)
          BY <4>2
        <5>2. workers'[v].key # k
          BY <2>3, <5>1, StartedRecord
        <5> QED BY <5>1, <5>2 DEF Owners, IdleWorkers
      <4> QED BY <4>1, <4>2 DEF HandedOut
    <3>3. Owners(k)' = Owners(k)
      BY <3>2 DEF Owners, Workers
    <3> QED BY <2>1, <3>1, <3>3
  <2> QED BY <2>2, <2>3
<1> QED BY <1>1, <1>2, <1>3, <1>4, <1>5

\* A damaged row is failed and keeps its time and its witness.
LEMMA FailedRow ==
    ASSUME NEW row \in RowRecords
    PROVE  /\ FailedCorrupt(row) \in RowRecords
           /\ FailedCorrupt(row).state = "failed"
           /\ FailedCorrupt(row).submitAt = row.submitAt
           /\ FailedCorrupt(row).witness = row.witness
<1> DEFINE r1 == [row EXCEPT !.state = "failed"]
           a == IF row.attempts < MaxAttempts THEN row.attempts + 1 ELSE row.attempts
           c == IF row.corrupt = "state" THEN "no" ELSE row.corrupt
           r2 == [r1 EXCEPT !.attempts = a]
           r3 == [r2 EXCEPT !.corrupt = c]
<1>1. r1 \in RowRecords /\ r1.attempts = row.attempts /\ r1.corrupt = row.corrupt
      /\ r1.state = "failed" /\ r1.submitAt = row.submitAt /\ r1.witness = row.witness
  BY DEF RowRecords
<1>2. a \in Int /\ c \in Damage
  BY DEF RowRecords, Damage
<1>3. FailedCorrupt(row) = r3
  BY <1>1 DEF FailedCorrupt
<1> HIDE DEF r1, a, c
<1>4. r2 \in RowRecords /\ r2.corrupt = row.corrupt
      /\ r2.state = "failed" /\ r2.submitAt = row.submitAt /\ r2.witness = row.witness
  BY <1>1, <1>2 DEF RowRecords
<1> HIDE DEF r2
<1>5. r3 \in RowRecords
      /\ r3.state = "failed" /\ r3.submitAt = row.submitAt /\ r3.witness = row.witness
  BY <1>2, <1>4 DEF RowRecords
<1> QED BY <1>3, <1>5

\* What a batch does to one share.
BatchDoes(k, seen) ==
    /\ k \in seen => schedule[k] # Never /\ schedule[k] <= now /\ inFlight[k] = 0
    /\ IF k \in seen /\ Takable(k) THEN inFlight'[k] # 0 ELSE inFlight'[k] = inFlight[k]
    /\ schedule'[k] = IF StillScheduled(k, seen) THEN schedule[k] ELSE Never
    /\ IF k \in seen /\ Undecodable(k)
       THEN rows'[k].state = "failed" /\ rows'[k].submitAt = rows[k].submitAt
       ELSE rows'[k] = rows[k]

\* The part of the invariant that one share has to do with.
ShareInv(k) ==
    /\ inFlight[k] # 0 => rows[k].state # "absent" /\ schedule[k] = Never /\ rows[k].submitAt <= now
    /\ schedule[k] # Never => rows[k].submitAt <= schedule[k]
    /\ up /\ Received(k) => schedule[k] # Never \/ inFlight[k] # 0

\* A share taken leaves the schedule for its worker, and what else was seen is
\* not to be sent.
LEMMA BatchPlaces ==
    ASSUME NEW k, NEW seen, BatchDoes(k, seen), ShareInv(k), up
    PROVE  /\ inFlight'[k] # 0 => schedule'[k] = Never
           /\ Received(k)' => schedule'[k] # Never \/ inFlight'[k] # 0
<1>1. inFlight'[k] # 0 => schedule'[k] = Never
  BY Zenon DEF BatchDoes, StillScheduled
<1>2. ASSUME Received(k)', inFlight'[k] = 0 PROVE schedule'[k] # Never
  <2>1. CASE k \in seen /\ Undecodable(k)
    BY <1>2, <2>1 DEF BatchDoes, Received
  <2>2. CASE ~(k \in seen /\ Undecodable(k))
    <3>1. Received(k)
      BY <1>2, <2>2, Zenon DEF BatchDoes, Received
    <3>2. Takable(k) \/ Undecodable(k)
      BY <3>1, Zenon DEF Received, Takable, Undecodable, Decodes
    <3>3. k \notin seen /\ inFlight[k] = 0
      BY <1>2, <2>2, <3>2, Zenon DEF BatchDoes
    <3>4. schedule[k] # Never
      BY <3>1, <3>3, Zenon DEF ShareInv
    <3> QED BY <3>3, <3>4, Zenon DEF BatchDoes, StillScheduled
  <2> QED BY <2>1, <2>2
<1> QED BY <1>1, <1>2, Zenon

\* A share taken was due.
LEMMA BatchTimes ==
    ASSUME NEW k, NEW seen, BatchDoes(k, seen), ShareInv(k),
           now \in Int, schedule[k] \in Int, rows[k].submitAt \in Int
    PROVE  /\ inFlight'[k] # 0 => rows'[k].state # "absent" /\ rows'[k].submitAt <= now
           /\ schedule'[k] # Never => rows'[k].submitAt <= schedule'[k]
<1>1. rows'[k].submitAt = rows[k].submitAt
  BY Zenon DEF BatchDoes
<1>2. rows[k].state # "absent" => rows'[k].state # "absent"
  BY DEF BatchDoes
<1>3. schedule'[k] # Never => rows'[k].submitAt <= schedule'[k]
  BY <1>1, Zenon DEF BatchDoes, ShareInv
<1>4. CASE k \in seen /\ Takable(k)
  <2>1. rows[k].state # "absent"
    BY <1>4 DEF Takable
  <2>2. rows[k].submitAt <= now
    <3>1. rows[k].submitAt <= schedule[k] /\ schedule[k] <= now
      BY <1>4, Zenon DEF BatchDoes, ShareInv
    <3> QED BY <3>1
  <2> QED BY <1>1, <1>2, <1>3, <2>1, <2>2, Zenon
<1>5. CASE ~(k \in seen /\ Takable(k))
  BY <1>1, <1>2, <1>3, <1>5, Zenon DEF BatchDoes, ShareInv
<1> QED BY <1>4, <1>5

\* Each share of a batch: taken, failed as damaged, dropped from the schedule,
\* or not seen.
LEMMA HandOutDoes ==
    ASSUME Inv, NEW rank \in Ranks,
           NEW seen \in SUBSET Visited(MaxConcurrent - ActiveCount, rank), HandOut(seen, rank)
    PROVE  /\ inFlight' \in [Shares -> 0..MaxConcurrent]
           /\ workers' \in [Workers -> WorkerRecords]
           /\ rows' \in [Shares -> RowRecords] /\ schedule' \in [Shares -> Int]
           /\ \A w \in Workers : workers'[w].pc # "idle" => workers'[w].key \in Shares
           /\ \A w \in Workers : workers'[w].outcome = "submitted" => workers'[w].key \in committed
           /\ \A k \in Shares : /\ Owners(k)' = (IF inFlight'[k] = 0 THEN {} ELSE {inFlight'[k]})
                               /\ BatchDoes(k, seen)
<1> DEFINE T == Taken(seen)
<1>1. OrderInv
  BY DEF Inv, QueueTypes, OrderInv
<1>2. HandedOut(T)
  BY <1>1, HandOutHands
<1>3. seen \subseteq Shares /\ T \in SUBSET Shares
      /\ \A k \in seen : schedule[k] # Never /\ schedule[k] <= now /\ inFlight[k] = 0
  BY Zenon DEF Visited, Due, Taken
<1>4. \A k : k \in T <=> k \in seen /\ Takable(k)
  BY Zenon DEF Taken
<1> HIDE DEF T
<1>5. /\ inFlight' \in [Shares -> 0..MaxConcurrent]
      /\ workers' \in [Workers -> WorkerRecords]
      /\ \A w \in Workers : workers'[w].pc # "idle" => workers'[w].key \in Shares
      /\ \A w \in Workers : workers'[w].outcome = "submitted" => workers'[w].key \in committed
      /\ \A k \in Shares : Owners(k)' = (IF inFlight'[k] = 0 THEN {} ELSE {inFlight'[k]})
      /\ \A k \in T : inFlight'[k] # 0
  <2>1. \A k \in T : inFlight[k] = 0
    BY <1>3, <1>4, Zenon
  <2> QED BY <1>2, <1>3, <2>1, HandedOutOwners, Zenon
<1>6. rows \in [Shares -> RowRecords] /\ schedule \in [Shares -> Int]
  BY Zenon DEF Inv, QueueTypes
<1>7. /\ rows' = [k \in Shares |-> IF k \in seen /\ Undecodable(k)
                                   THEN FailedCorrupt(rows[k]) ELSE rows[k]]
      /\ schedule' = [k \in Shares |-> IF StillScheduled(k, seen) THEN schedule[k] ELSE Never]
  BY Zenon DEF HandOut
<1>8. rows' \in [Shares -> RowRecords] /\ schedule' \in [Shares -> Int]
  BY <1>6, <1>7, FailedRow DEF Never
<1>9. ASSUME NEW k \in Shares PROVE BatchDoes(k, seen)
  <2>1. IF k \in seen /\ Takable(k) THEN inFlight'[k] # 0 ELSE inFlight'[k] = inFlight[k]
    BY <1>2, <1>4, <1>5, Zenon DEF HandedOut
  <2>2. schedule'[k] = IF StillScheduled(k, seen) THEN schedule[k] ELSE Never
    BY <1>7, Zenon
  <2>3. rows[k] \in RowRecords
    BY <1>6
  <2>4. IF k \in seen /\ Undecodable(k)
        THEN rows'[k].state = "failed" /\ rows'[k].submitAt = rows[k].submitAt
        ELSE rows'[k] = rows[k]
    BY <1>7, <2>3, FailedRow, Zenon
  <2> QED BY <1>3, <2>1, <2>2, <2>4, Zenon DEF BatchDoes
<1> QED BY <1>5, <1>8, <1>9, Zenon

\* A batch, whole or cut short, keeps the invariant.
LEMMA HandOutKeeps ==
    ASSUME Inv, NEW rank \in Ranks,
           NEW seen \in SUBSET Visited(MaxConcurrent - ActiveCount, rank), HandOut(seen, rank),
           lastReadyRound' \in 0..NumRounds, up,
           UNCHANGED <<now, chain, up, checkTxReady, sends, history, confirmed>>
    PROVE  Inv'
<1>1. /\ inFlight' \in [Shares -> 0..MaxConcurrent]
      /\ workers' \in [Workers -> WorkerRecords]
      /\ rows' \in [Shares -> RowRecords] /\ schedule' \in [Shares -> Int]
      /\ \A w \in Workers : workers'[w].pc # "idle" => workers'[w].key \in Shares
      /\ \A w \in Workers : workers'[w].outcome = "submitted" => workers'[w].key \in committed
      /\ \A k \in Shares : /\ Owners(k)' = (IF inFlight'[k] = 0 THEN {} ELSE {inFlight'[k]})
                          /\ BatchDoes(k, seen)
  BY HandOutDoes, Zenon
<1>2. \A k \in Shares : ShareInv(k)
  BY Zenon DEF Inv, TimesInv, SharesInOnePlace, ShareInv
<1>3. now \in Int /\ \A k \in Shares : schedule[k] \in Int /\ rows[k].submitAt \in Int
  BY DEF Inv, ChainInv, QueueTypes, RowRecords
<1>4. QueueTypes'
  BY <1>1, Zenon DEF QueueTypes, Workers
<1>5. SharesInOnePlace'
  BY <1>1, <1>2, BatchPlaces, Zenon DEF SharesInOnePlace
<1>6. TimesInv'
  BY <1>1, <1>2, <1>3, BatchTimes, Zenon DEF TimesInv
<1>7. ChainInv' /\ SendInv'
  BY PartsKept
<1>8. DownInv'
  BY Zenon DEF DownInv
<1>9. VerdictInv'
  BY <1>1, Zenon DEF Inv, VerdictInv, chain, Workers
<1> QED BY <1>4, <1>5, <1>6, <1>7, <1>8, <1>9 DEF Inv

\* The dispatcher takes a batch of the shares it visits, up to one that fails.
LEMMA BatchIsHandedOut ==
    ASSUME Inv, TakeReadyBatch
    PROVE  \E rank \in Ranks : \E seen \in SUBSET Visited(MaxConcurrent - ActiveCount, rank) :
              HandOut(seen, rank) /\ lastReadyRound' \in 0..NumRounds
<1>1. PICK rank \in Ranks :
        \/ /\ HandOut(Visited(MaxConcurrent - ActiveCount, rank), rank)
           /\ lastReadyRound' = CursorAfter(Visited(MaxConcurrent - ActiveCount, rank), rank)
        \/ \E bad \in Visited(MaxConcurrent - ActiveCount, rank) :
              LET seen == {k \in Visited(MaxConcurrent - ActiveCount, rank) : Before(k, bad, rank)} IN
              /\ HandOut(seen, rank)
              /\ lastReadyRound' = CursorAfter(seen, rank) \/ lastReadyRound' = RoundOf[bad]
  BY DEF TakeReadyBatch
<1> DEFINE visited == Visited(MaxConcurrent - ActiveCount, rank)
<1>2. visited \in SUBSET Due
  BY DEF Visited
<1>3. OrderInv
  BY DEF Inv, QueueTypes, OrderInv
<1>4. \A seen \in SUBSET Due : CursorAfter(seen, rank) \in 0..NumRounds
  BY <1>3, CursorOnRound
<1>5. NumRounds \in Nat /\ \A k \in Due : RoundOf[k] \in 0..NumRounds
  BY HelperAssumption DEF HelperAssumption, Due
<1> HIDE DEF visited
<1>6. CASE HandOut(visited, rank) /\ lastReadyRound' = CursorAfter(visited, rank)
  <2>1. visited \in SUBSET visited
    OBVIOUS
  <2> QED BY <1>2, <1>4, <1>6, <2>1 DEF visited
<1>7. CASE \E bad \in visited :
              LET seen == {k \in visited : Before(k, bad, rank)} IN
              /\ HandOut(seen, rank)
              /\ lastReadyRound' = CursorAfter(seen, rank) \/ lastReadyRound' = RoundOf[bad]
  <2>1. PICK bad \in visited :
              LET seen == {k \in visited : Before(k, bad, rank)} IN
              /\ HandOut(seen, rank)
              /\ lastReadyRound' = CursorAfter(seen, rank) \/ lastReadyRound' = RoundOf[bad]
    BY <1>7, Zenon
  <2> DEFINE s == {k \in visited : Before(k, bad, rank)}
  <2>2. HandOut(s, rank) /\ (lastReadyRound' = CursorAfter(s, rank) \/ lastReadyRound' = RoundOf[bad])
    BY <2>1
  <2>3. s \in SUBSET visited /\ s \in SUBSET Due
    BY <1>2
  <2> HIDE DEF s
  <2>4. lastReadyRound' \in 0..NumRounds
    BY <1>2, <1>4, <1>5, <2>2, <2>3
  <2> QED BY <2>2, <2>3, <2>4 DEF visited
<1> QED BY <1>1, <1>6, <1>7 DEF visited

\* TakeReadyBatch keeps the invariant.
LEMMA TakeReadyKeeps ==
    ASSUME Inv, TakeReadyBatch
    PROVE  Inv'
<1>1. PICK rank \in Ranks : \E seen \in SUBSET Visited(MaxConcurrent - ActiveCount, rank) :
              HandOut(seen, rank) /\ lastReadyRound' \in 0..NumRounds
  BY BatchIsHandedOut
<1>2. up /\ UNCHANGED <<now, chain, up, checkTxReady, sends, history, confirmed>>
  BY DEF TakeReadyBatch, DispatchReady, cleanup
<1> QED BY <1>1, <1>2, HandOutKeeps

=============================================================================
