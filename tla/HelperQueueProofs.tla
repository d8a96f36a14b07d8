------------------------- MODULE HelperQueueProofs -------------------------
(***************************************************************************)
(* The steps of an attempt, and the theorems about HelperQueue: a share is *)
(* in one place, is sent once a height and not before its time, and keeps  *)
(* its witness until it is committed or its round is closed.               *)
(***************************************************************************)
EXTENDS HelperQueueBatches

-----------------------------------------------------------------------------
(* The steps of an attempt.                                                *)

\* The worker goes on with the share it holds.
GoesOn(w) ==
    /\ workers' = [workers EXCEPT ![w] = workers'[w]]
    /\ workers'[w] \in WorkerRecords /\ workers'[w].key = workers[w].key
    /\ workers'[w].pc \notin {"idle", "done"}
    /\ workers'[w].outcome = "submitted" => workers[w].key \in committed

\* A worker in an attempt holds a share; the process runs.
Working(w) == w \in Workers /\ up /\ workers[w].pc \notin {"idle", "done"}

\* What is known of a worker in an attempt.
LEMMA WorkerHolds ==
    ASSUME Inv, NEW w, Working(w)
    PROVE  /\ workers[w] \in WorkerRecords /\ workers[w].key \in Shares
           /\ workers \in [Workers -> WorkerRecords]
           /\ workers[w].row \in RowRecords /\ w \in Owners(workers[w].key)
           /\ inFlight[workers[w].key] = w /\ w # 0
<1>1. /\ workers[w] \in WorkerRecords /\ workers[w].key \in Shares
      /\ workers \in [Workers -> WorkerRecords]
  BY DEF Inv, QueueTypes, Working
<1>2. workers[w].row \in RowRecords
  BY <1>1 DEF WorkerRecords
<1>3. w \in Owners(workers[w].key)
  BY DEF Owners, Working
<1>4. inFlight[workers[w].key] = w
  <2>1. Owners(workers[w].key) = (IF inFlight[workers[w].key] = 0 THEN {} ELSE {inFlight[workers[w].key]})
    BY <1>1 DEF Inv, SharesInOnePlace
  <2> QED BY <1>3, <2>1
<1>5. w # 0
  BY HelperAssumption DEF HelperAssumption, Working, Workers
<1> QED BY <1>1, <1>2, <1>3, <1>4, <1>5

\* An attempt that resolves goes on, to be marked.
LEMMA ResolveGoesOn ==
    ASSUME Inv, NEW w, Working(w), NEW outcome \in Outcomes, Resolve(w, outcome),
           outcome = "submitted" => workers[w].key \in committed
    PROVE  GoesOn(w)
<1> DEFINE key == workers[w].key
           r1 == [Idle EXCEPT !.pc = "mark"]
           r2 == [r1 EXCEPT !.key = key]
           r3 == [r2 EXCEPT !.outcome = outcome]
<1>1. key \in Shares /\ workers \in [Workers -> WorkerRecords] /\ w \in Workers
  BY WorkerHolds DEF Working
<1>2. workers' = [workers EXCEPT ![w] = r3]
  BY DEF Resolve
<1> HIDE DEF key
<1>3. r1 \in WorkerRecords /\ r1.pc = "mark"
  BY RecordTypes DEF WorkerRecords, Steps
<1> HIDE DEF r1
<1>4. r2 \in WorkerRecords /\ r2.pc = "mark" /\ r2.key = key
  BY <1>1, <1>3 DEF WorkerRecords
<1> HIDE DEF r2
<1>5. r3 \in WorkerRecords /\ r3.pc = "mark" /\ r3.key = key /\ r3.outcome = outcome
  BY <1>4 DEF WorkerRecords
<1> HIDE DEF r3
<1>6. workers'[w] = r3
  BY <1>1, <1>2
<1> QED BY <1>2, <1>5, <1>6, Zenon DEF GoesOn, key

\* An attempt that proceeds goes on.
LEMMA ProceedGoesOn ==
    ASSUME Inv, NEW w, Working(w), NEW pc \in Steps \ {"idle", "done"}, Proceed(w, pc)
    PROVE  GoesOn(w)
<1> DEFINE r == [workers[w] EXCEPT !.pc = pc]
<1>1. workers[w] \in WorkerRecords /\ workers \in [Workers -> WorkerRecords] /\ w \in Workers
  BY WorkerHolds DEF Working
<1>2. workers' = [workers EXCEPT ![w] = r]
  BY DEF Proceed
<1>3. /\ r \in WorkerRecords /\ r.pc = pc /\ r.key = workers[w].key
      /\ r.outcome = workers[w].outcome
  BY <1>1 DEF WorkerRecords
<1>4. workers[w].outcome = "submitted" => workers[w].key \in committed
  BY <1>1 DEF Inv, VerdictInv
<1> HIDE DEF r
<1>5. workers'[w] = r
  BY <1>1, <1>2
<1> QED BY <1>2, <1>3, <1>4, <1>5, Zenon DEF GoesOn

\* Rows keep what the queue decides by.
RowsKept ==
    /\ rows' \in [Shares -> RowRecords]
    /\ \A k \in Shares : /\ rows'[k].state = rows[k].state /\ rows'[k].submitAt = rows[k].submitAt
                         /\ rows'[k].corrupt = rows[k].corrupt
                         /\ rows'[k].witness = rows[k].witness

\* The invariant over a step of an attempt that goes on.
LEMMA GoingOnKeeps ==
    ASSUME Inv, NEW w, Working(w), GoesOn(w), RowsKept, SendInv',
           UNCHANGED <<now, chain, up, checkTxReady, schedule, inFlight, lastReadyRound, confirmed>>
    PROVE  Inv'
<1>1. workers \in [Workers -> WorkerRecords] /\ w \in Workers /\ workers[w].key \in Shares
  BY WorkerHolds DEF Working
<1>2. ChainInv'
  BY PartsKept
<1>3. \A v \in Workers : v # w => workers'[v] = workers[v]
  BY <1>1 DEF GoesOn
<1>4. QueueTypes'
  <2>1. workers' \in [Workers -> WorkerRecords]
    BY <1>1 DEF GoesOn
  <2>2. \A v \in Workers : workers'[v].pc # "idle" => workers'[v].key \in Shares
    BY <1>1, <1>3 DEF GoesOn, Inv, QueueTypes
  <2> QED BY <2>1, <2>2 DEF Inv, QueueTypes, RowsKept, Workers
<1>5. SharesInOnePlace'
  <2>1. \A k : Owners(k)' = Owners(k)
    BY <1>3 DEF GoesOn, Working, Owners, Workers
  <2>2. \A k \in Shares : Received(k)' <=> Received(k)
    BY DEF Received, RowsKept
  <2> QED BY <2>1, <2>2 DEF Inv, SharesInOnePlace, Never
<1>6. TimesInv'
  BY DEF Inv, TimesInv, RowsKept, Never
<1>7. DownInv'
  BY DEF DownInv, Working
<1>8. VerdictInv'
  BY <1>1, <1>3 DEF Inv, VerdictInv, GoesOn, chain, Workers
<1> QED BY <1>2, <1>4, <1>5, <1>6, <1>7, <1>8 DEF Inv

\* The steps that change the worker alone.
LEMMA QuietStepKeeps ==
    ASSUME Inv, NEW w \in Workers, CheckRoundStatus(w) \/ CheckCommitted(w) \/ ProveShare(w)
    PROVE  Inv' /\ RowsKept /\ UNCHANGED inFlight
<1>1. /\ UNCHANGED <<now, chain, up, checkTxReady, schedule, inFlight, lastReadyRound, confirmed>>
      /\ UNCHANGED <<sends, history, rows>>
  BY DEF CheckRoundStatus, CheckCommitted, ProveShare, queue, cleanup
<1>2. Working(w)
  BY DEF CheckRoundStatus, CheckCommitted, ProveShare, At, Working
<1>3. SendInv'
  BY <1>1, PartsKept
<1>4. RowsKept
  BY <1>1 DEF RowsKept, Inv, QueueTypes
<1>5. ASSUME NEW o \in {"retry", "failed"}, Resolve(w, o) PROVE GoesOn(w)
  BY <1>2, <1>5, ResolveGoesOn DEF Outcomes
<1>6. ASSUME workers[w].key \in committed, Resolve(w, "submitted") PROVE GoesOn(w)
  BY <1>2, <1>6, ResolveGoesOn DEF Outcomes
<1>7. ASSUME NEW pc \in {"prepare", "submit"}, Proceed(w, pc) PROVE GoesOn(w)
  <2>1. {"prepare", "submit"} \subseteq Steps \ {"idle", "done"}
    BY DEF Steps
  <2> QED BY <1>2, <1>7, <2>1, ProceedGoesOn
<1>8. ASSUME workers' = [workers EXCEPT ![w].pc = "dedupe",
                           ![w].active = RoundOf[workers[w].key] \notin closed]
      PROVE  GoesOn(w)
  <2> DEFINE a == RoundOf[workers[w].key] \notin closed
             r1 == [workers[w] EXCEPT !.pc = "dedupe"]
             r2 == [r1 EXCEPT !.active = a]
  <2>1. workers[w] \in WorkerRecords /\ workers \in [Workers -> WorkerRecords]
    BY <1>2, WorkerHolds
  <2>2. a \in BOOLEAN
    OBVIOUS
  <2>3. workers' = [workers EXCEPT ![w] = r2]
    BY <1>8, <2>1, Zenon
  <2> HIDE DEF a
  <2>4. /\ r1 \in WorkerRecords /\ r1.pc = "dedupe" /\ r1.key = workers[w].key
        /\ r1.outcome = workers[w].outcome
    BY <2>1 DEF WorkerRecords, Steps
  <2> HIDE DEF r1
  <2>5. /\ r2 \in WorkerRecords /\ r2.pc = "dedupe" /\ r2.key = workers[w].key
        /\ r2.outcome = workers[w].outcome
    BY <2>2, <2>4 DEF WorkerRecords
  <2> HIDE DEF r2
  <2>6. workers'[w] = r2
    BY <2>1, <2>3
  <2>7. workers[w].outcome = "submitted" => workers[w].key \in committed
    BY DEF Inv, VerdictInv
  <2> QED BY <2>3, <2>5, <2>6, <2>7, Zenon DEF GoesOn
<1>9. GoesOn(w)
  <2>1. CASE CheckRoundStatus(w)
    BY <1>5, <1>8, <2>1 DEF CheckRoundStatus
  <2>2. CASE CheckCommitted(w)
    BY <1>5, <1>6, <1>7, <2>2 DEF CheckCommitted
  <2>3. CASE ProveShare(w)
    BY <1>5, <1>7, <2>3 DEF ProveShare
  <2> QED BY <2>1, <2>2, <2>3
<1> QED BY <1>1, <1>2, <1>3, <1>4, <1>9, GoingOnKeeps

\* The height a step reads is the latest one, or 0 before the first block
\* since the start.
LEMMA HeightRead ==
    ASSUME Inv
    PROVE  /\ LatestBlockHeight \in Nat /\ height \in Nat /\ height # 0 /\ submitHeight \in Nat
           /\ checkTxReady => LatestBlockHeight = height
           /\ ~checkTxReady => LatestBlockHeight = 0
           /\ submitHeight <= height
  BY DEF Inv, ChainInv, SendInv, LatestBlockHeight

\* Moving on to the height that was read forgets no share sent at it.
LEMMA AdvanceKeeps ==
    ASSUME Inv, AdvanceTo(LatestBlockHeight, AdvancedKeys(LatestBlockHeight)),
           UNCHANGED <<chain, checkTxReady, history>>
    PROVE  SendInv'
<1> DEFINE h == LatestBlockHeight
<1>1. /\ h \in Nat /\ height \in Nat /\ height # 0 /\ submitHeight \in Nat
      /\ checkTxReady => h = height
      /\ ~checkTxReady => h = 0
      /\ submitHeight <= height
  BY HeightRead
<1>2. /\ submitHeight' = IF h > submitHeight THEN h ELSE submitHeight
      /\ submitKeys' = IF h > submitHeight THEN {} ELSE submitKeys
  BY DEF AdvanceTo, AdvancedKeys
<1>3. UNCHANGED <<height, committed, checkTxReady, sentAt, repeated>>
  BY DEF chain, history
<1> HIDE DEF h
<1>4. submitHeight' \in Nat /\ submitHeight' <= height' /\ submitKeys' \subseteq Shares
  BY <1>1, <1>2, <1>3 DEF Inv, SendInv
<1>5. ASSUME NEW k \in Shares, checkTxReady, k \notin committed, sentAt[k] = height
      PROVE  submitHeight' = height /\ k \in submitKeys'
  <2>1. submitHeight = height /\ k \in submitKeys
    BY <1>5 DEF Inv, SendInv
  <2> QED BY <1>1, <1>2, <1>5, <2>1
<1>6. repeated' = {} /\ sentAt' \in [Shares -> Nat] /\ \A k \in Shares : sentAt'[k] <= height'
  BY <1>3 DEF Inv, SendInv
<1> QED BY <1>3, <1>4, <1>5, <1>6 DEF SendInv

\* Reading the tree for a share keeps the invariant.
LEMMA PrepareKeeps ==
    ASSUME Inv, NEW w \in Workers, PrepareShare(w)
    PROVE  Inv' /\ RowsKept /\ UNCHANGED inFlight
<1> DEFINE h == LatestBlockHeight
<1>1. /\ UNCHANGED <<now, chain, up, checkTxReady, schedule, inFlight, lastReadyRound, confirmed>>
      /\ UNCHANGED <<history, rows>>
  BY DEF PrepareShare, queue, cleanup
<1>2. Working(w)
  BY DEF PrepareShare, At, Working
<1>3. SendInv'
  <2>1. CASE UNCHANGED sends
    BY <1>1, <2>1, PartsKept
  <2>2. CASE AdvanceTo(h, AdvancedKeys(h))
    BY <1>1, <2>2, AdvanceKeeps
  <2> QED BY <2>1, <2>2 DEF PrepareShare
<1>4. RowsKept
  BY <1>1 DEF RowsKept, Inv, QueueTypes
<1>5. ASSUME NEW o \in {"retry", "failed"}, Resolve(w, o) PROVE GoesOn(w)
  BY <1>2, <1>5, ResolveGoesOn DEF Outcomes
<1>6. ASSUME workers' = [workers EXCEPT ![w].pc = "reserve", ![w].height = h] PROVE GoesOn(w)
  <2> DEFINE r1 == [workers[w] EXCEPT !.pc = "reserve"]
             r2 == [r1 EXCEPT !.height = h]
  <2>1. workers[w] \in WorkerRecords /\ workers \in [Workers -> WorkerRecords]
    BY <1>2, WorkerHolds
  <2>2. h \in Int
    BY HeightRead
  <2>3. workers' = [workers EXCEPT ![w] = r2]
    BY <1>6, <2>1, Zenon
  <2> HIDE DEF h
  <2>4. /\ r1 \in WorkerRecords /\ r1.pc = "reserve" /\ r1.key = workers[w].key
        /\ r1.outcome = workers[w].outcome
    BY <2>1 DEF WorkerRecords, Steps
  <2> HIDE DEF r1
  <2>5. /\ r2 \in WorkerRecords /\ r2.pc = "reserve" /\ r2.key = workers[w].key
        /\ r2.outcome = workers[w].outcome
    BY <2>2, <2>4 DEF WorkerRecords
  <2> HIDE DEF r2
  <2>6. workers'[w] = r2
    BY <2>1, <2>3
  <2>7. workers[w].outcome = "submitted" => workers[w].key \in committed
    BY DEF Inv, VerdictInv
  <2> QED BY <2>3, <2>5, <2>6, <2>7, Zenon DEF GoesOn
<1>7. GoesOn(w)
  BY <1>5, <1>6 DEF PrepareShare
<1> QED BY <1>1, <1>2, <1>3, <1>4, <1>7, GoingOnKeeps

\* Reserving a proof slot writes the slot and the height of the row alone.
LEMMA ReserveKeeps ==
    ASSUME Inv, NEW w \in Workers, ReserveProofAttempt(w)
    PROVE  Inv' /\ RowsKept /\ UNCHANGED inFlight
<1> DEFINE k == workers[w].key
           row == workers[w].row
           h == workers[w].height
<1>1. /\ UNCHANGED <<now, chain, up, checkTxReady, schedule, inFlight, lastReadyRound, confirmed>>
      /\ UNCHANGED <<sends, history>>
  BY DEF ReserveProofAttempt, cleanup
<1>2. Working(w)
  BY DEF ReserveProofAttempt, At, Working
<1>3. SendInv'
  BY <1>1, PartsKept
<1>4. rows \in [Shares -> RowRecords]
  BY Zenon DEF Inv, QueueTypes
<1>5. RowsKept
  <2>1. CASE UNCHANGED rows
    BY <1>4, <2>1 DEF RowsKept
  <2>2. CASE \E slot \in row.slot..(NumSlots - 1) :
               rows' = [rows EXCEPT ![k].slot = SlotAfter(row, slot), ![k].lastHeight = h]
    <3>1. k \in Shares /\ row \in RowRecords /\ h \in Int
      BY <1>2, WorkerHolds DEF WorkerRecords
    <3>2. PICK slot \in row.slot..(NumSlots - 1) :
               rows' = [rows EXCEPT ![k].slot = SlotAfter(row, slot), ![k].lastHeight = h]
      BY <2>2, Zenon
    <3>3. SlotAfter(row, slot) \in Int
      <4>1. NumSlots \in Int
        BY HelperAssumption DEF HelperAssumption
      <4> QED BY <3>1, <4>1 DEF SlotAfter, RowRecords
    <3> DEFINE s == SlotAfter(row, slot)
               r1 == [rows[k] EXCEPT !.slot = s]
               r2 == [r1 EXCEPT !.lastHeight = h]
    <3> HIDE DEF k, h
    <3>4. rows' = [rows EXCEPT ![k] = r2]
      BY <1>4, <3>1, <3>2, Zenon
    <3> HIDE DEF s
    <3>5. rows[k] \in RowRecords
      BY <1>4, <3>1
    <3>6. r1 \in RowRecords /\ r1.state = rows[k].state /\ r1.submitAt = rows[k].submitAt
          /\ r1.corrupt = rows[k].corrupt /\ r1.witness = rows[k].witness
      BY <3>3, <3>5 DEF RowRecords, s
    <3> HIDE DEF r1
    <3>7. r2 \in RowRecords /\ r2.state = rows[k].state /\ r2.submitAt = rows[k].submitAt
          /\ r2.corrupt = rows[k].corrupt /\ r2.witness = rows[k].witness
      BY <3>1, <3>6 DEF RowRecords
    <3> HIDE DEF r2
    <3>8. rows' \in [Shares -> RowRecords]
      BY <1>4, <3>4, <3>7, Zenon
    <3>9. \A j \in Shares : rows'[j] = IF j = k THEN r2 ELSE rows[j]
      BY <1>4, <3>4
    <3> QED BY <3>7, <3>8, <3>9 DEF RowsKept
  <2> QED BY <2>1, <2>2, Zenon, Zenon DEF ReserveProofAttempt
<1>6. ASSUME Resolve(w, "retry") PROVE GoesOn(w)
  BY <1>2, <1>6, ResolveGoesOn DEF Outcomes
<1>7. ASSUME Proceed(w, "prove") PROVE GoesOn(w)
  <2>1. "prove" \in Steps \ {"idle", "done"}
    BY DEF Steps
  <2> QED BY <1>2, <1>7, <2>1, ProceedGoesOn
<1>8. GoesOn(w)
  BY <1>6, <1>7 DEF ReserveProofAttempt
<1> QED BY <1>1, <1>2, <1>3, <1>5, <1>8, GoingOnKeeps

\* A share is sent at a height it was not sent at.
LEMMA SubmitKeeps ==
    ASSUME Inv, NEW w \in Workers, SubmitShareTx(w)
    PROVE  Inv' /\ RowsKept /\ UNCHANGED inFlight
<1> DEFINE k == workers[w].key
           h == LatestBlockHeight
<1>1. /\ UNCHANGED <<now, chain, up, checkTxReady, schedule, inFlight, lastReadyRound, confirmed>>
      /\ UNCHANGED rows
  BY DEF SubmitShareTx, queue, cleanup
<1>2. Working(w)
  BY DEF SubmitShareTx, At, Working
<1>3. k \in Shares
  BY <1>2, WorkerHolds
<1>4. SendInv'
  <2>1. CASE AdvanceTo(h, AdvancedKeys(h)) /\ UNCHANGED history
    BY <1>1, <2>1, AdvanceKeeps
  <2>2. CASE /\ h # 0 /\ ~SubmittedAtHeight(k, h)
             /\ AdvanceTo(h, AdvancedKeys(h) \cup {k})
             /\ sentAt' = [sentAt EXCEPT ![k] = h]
             /\ repeated' = IF h <= sentAt[k] /\ k \notin committed
                            THEN repeated \cup {k} ELSE repeated
    <3>1. /\ h = height /\ height \in Nat /\ submitHeight \in Nat /\ submitHeight <= height
          /\ checkTxReady
      BY <2>2, HeightRead
    <3>2. k \notin AdvancedKeys(h)
      BY <2>2 DEF SubmittedAtHeight
    <3>3. /\ submitHeight' = IF h > submitHeight THEN h ELSE submitHeight
          /\ submitKeys' = (IF h > submitHeight THEN {} ELSE submitKeys) \cup {k}
      BY <2>2 DEF AdvanceTo, AdvancedKeys
    <3>4. UNCHANGED <<height, committed, checkTxReady>>
      BY <1>1 DEF chain
    <3> HIDE DEF k, h
    <3>5. sentAt \in [Shares -> Nat] /\ submitKeys \subseteq Shares /\ repeated = {}
          /\ \A j \in Shares :
                /\ sentAt[j] <= height
                /\ checkTxReady /\ j \notin committed /\ sentAt[j] = height
                   => submitHeight = height /\ j \in submitKeys
      BY DEF Inv, SendInv
    <3>6. repeated' = {}
      <4>1. ~(h <= sentAt[k] /\ k \notin committed)
        <5> SUFFICES ASSUME h <= sentAt[k], k \notin committed PROVE FALSE
          OBVIOUS
        <5>1. sentAt[k] \in Nat /\ sentAt[k] = height
          BY <1>3, <3>1, <3>5
        <5>2. submitHeight = height /\ k \in submitKeys
          BY <1>3, <3>1, <3>5, <5>1
        <5> QED BY <3>1, <3>2, <5>2 DEF AdvancedKeys
      <4> QED BY <2>2, <3>5, <4>1
    <3>7. submitHeight' = height
      BY <3>1, <3>3
    <3>8. \A j \in Shares : sentAt'[j] = IF j = k THEN height ELSE sentAt[j]
      BY <2>2, <3>1, <3>5
    <3>9. sentAt' \in [Shares -> Nat]
      BY <2>2, <3>1, <3>5, Zenon
    <3>10. \A j \in Shares :
             /\ sentAt'[j] <= height
             /\ checkTxReady /\ j \notin committed /\ sentAt'[j] = height => j \in submitKeys'
      BY <3>1, <3>3, <3>5, <3>8
    <3>11. submitKeys' \subseteq Shares
      BY <1>3, <3>3, <3>5
    <3> QED BY <3>1, <3>4, <3>6, <3>7, <3>9, <3>10, <3>11 DEF SendInv
  <2> QED BY <2>1, <2>2 DEF SubmitShareTx
<1>5. RowsKept
  BY <1>1 DEF RowsKept, Inv, QueueTypes
<1>6. ASSUME NEW o \in Outcomes, Resolve(w, o), o = "submitted" => k \in committed PROVE GoesOn(w)
  BY <1>2, <1>6, ResolveGoesOn
<1>7. GoesOn(w)
  <2>1. /\ BroadcastOutcome(k) \in Outcomes
        /\ BroadcastOutcome(k) = "submitted" => k \in committed
    BY DEF BroadcastOutcome, Outcomes
  <2>2. "retry" \in Outcomes /\ "failed" \in Outcomes
    BY DEF Outcomes
  <2>3. Resolve(w, BroadcastOutcome(k)) \/ Resolve(w, "retry") \/ Resolve(w, "failed")
    BY DEF SubmitShareTx, PostErrors
  <2> QED BY <1>6, <2>1, <2>2, <2>3
<1> QED BY <1>1, <1>2, <1>4, <1>5, <1>7, GoingOnKeeps

\* The share of an attempt is released: on the schedule again, or not to be
\* sent any more.
Released(k) ==
    /\ inFlight' = [inFlight EXCEPT ![k] = 0]
    /\ rows' \in [Shares -> RowRecords] /\ schedule' \in [Shares -> Int]
    /\ \A j \in Shares \ {k} : rows'[j] = rows[j] /\ schedule'[j] = schedule[j]
    /\ rows'[k].submitAt = rows[k].submitAt
    /\ schedule'[k] = Later \/ (schedule'[k] = Never /\ ~Received(k)')

\* The invariant over a step that releases the share of an attempt.
LEMMA ReleaseKeeps ==
    ASSUME Inv, NEW w, Working(w), NEW k, k = workers[w].key, Released(k), Proceed(w, "done"), SendInv',
           UNCHANGED <<now, chain, up, checkTxReady, lastReadyRound, confirmed>>
    PROVE  Inv'
<1>1. /\ workers \in [Workers -> WorkerRecords] /\ w \in Workers /\ k \in Shares
      /\ workers[w] \in WorkerRecords /\ inFlight[k] = w /\ w # 0
  BY WorkerHolds DEF Working
<1>2. ChainInv'
  BY PartsKept
<1>3. /\ workers' \in [Workers -> WorkerRecords]
      /\ workers'[w].pc = "done" /\ workers'[w].key = k /\ workers'[w].outcome = workers[w].outcome
      /\ \A v \in Workers : v # w => workers'[v] = workers[v]
  <2> DEFINE r == [workers[w] EXCEPT !.pc = "done"]
  <2>1. workers' = [workers EXCEPT ![w] = r]
    BY DEF Proceed
  <2>2. r \in WorkerRecords /\ r.pc = "done" /\ r.key = k /\ r.outcome = workers[w].outcome
    BY <1>1 DEF WorkerRecords, Steps
  <2> HIDE DEF r
  <2> QED BY <1>1, <2>1, <2>2
<1>4. inFlight \in [Shares -> 0..MaxConcurrent] /\ MaxConcurrent \in Nat
  BY HelperAssumption DEF Inv, QueueTypes, HelperAssumption
<1>5. \A j \in Shares : inFlight'[j] = IF j = k THEN 0 ELSE inFlight[j]
  BY <1>4 DEF Released
<1>6. QueueTypes'
  <2>1. inFlight' \in [Shares -> 0..MaxConcurrent]
    BY <1>1, <1>4 DEF Released
  <2>2. \A v \in Workers : workers'[v].pc # "idle" => workers'[v].key \in Shares
    BY <1>1, <1>3 DEF Inv, QueueTypes
  <2> QED BY <1>3, <2>1, <2>2 DEF Released, QueueTypes, Workers, Inv
<1>7. Later \in Nat /\ now <= Later /\ now \in Nat
  BY DueTimes DEF Inv, ChainInv
<1>8. /\ \A j \in Shares \ {k} : rows'[j] = rows[j] /\ schedule'[j] = schedule[j]
      /\ rows'[k].submitAt = rows[k].submitAt
      /\ schedule'[k] = Later \/ (schedule'[k] = Never /\ ~Received(k)')
  BY DEF Released
<1>9. ASSUME NEW j \in Shares
      PROVE  Owners(j)' = (IF inFlight'[j] = 0 THEN {} ELSE {inFlight'[j]})
  <2>1. Owners(j) = (IF inFlight[j] = 0 THEN {} ELSE {inFlight[j]})
    BY DEF Inv, SharesInOnePlace
  <2>2. CASE j = k
    <3>1. Owners(k) = {w}
      BY <1>1, <2>1, <2>2
    <3>2. w \notin Owners(k)'
      BY <1>3 DEF Owners
    <3>3. \A v \in Workers : v # w => v \notin Owners(k)'
      BY <1>3, <3>1 DEF Owners
    <3>4. Owners(k)' \subseteq Workers
      BY DEF Owners, Workers
    <3> QED BY <1>5, <2>2, <3>2, <3>3, <3>4
  <2>3. CASE j # k
    <3>1. w \notin Owners(j) /\ w \notin Owners(j)'
      BY <1>3, <2>3 DEF Owners
    <3>2. \A v \in Workers : v # w => (v \in Owners(j)' <=> v \in Owners(j))
      BY <1>3 DEF Owners, Workers
    <3>3. Owners(j)' = Owners(j)
      BY <3>1, <3>2 DEF Owners, Workers
    <3> QED BY <1>5, <2>1, <2>3, <3>3
  <2> QED BY <2>2, <2>3
<1>10. \A j \in Shares : j # k => (Received(j)' <=> Received(j))
  BY <1>8 DEF Received
<1>11. \A j \in Shares :
          /\ inFlight[j] # 0 => rows[j].state # "absent" /\ schedule[j] = Never /\ rows[j].submitAt <= now
          /\ schedule[j] # Never => rows[j].submitAt <= schedule[j]
          /\ up /\ Received(j) => schedule[j] # Never \/ inFlight[j] # 0
  BY DEF Inv, TimesInv, SharesInOnePlace
<1>12. SharesInOnePlace'
  <2>1. \A j \in Shares : inFlight'[j] # 0 => schedule'[j] = Never
    BY <1>5, <1>8, <1>11
  <2>2. Later # Never
    BY <1>7 DEF Never
  <2>3. \A j \in Shares : up /\ Received(j)' => schedule'[j] # Never \/ inFlight'[j] # 0
    BY <1>5, <1>8, <1>10, <1>11, <2>2
  <2> QED BY <1>9, <2>1, <2>3 DEF SharesInOnePlace, Never
<1>13. TimesInv'
  <2>1. \A j \in Shares : rows[j].submitAt \in Nat
    BY DEF Inv, QueueTypes, RowRecords
  <2>2. schedule'[k] # Never => rows'[k].submitAt <= schedule'[k]
    BY <1>1, <1>7, <1>8, <1>11, <2>1
  <2>3. \A j \in Shares : inFlight'[j] # 0 => rows'[j].state # "absent" /\ rows'[j].submitAt <= now
    BY <1>5, <1>8, <1>11, Zenon
  <2>4. \A j \in Shares : schedule'[j] # Never => rows'[j].submitAt <= schedule'[j]
    BY <1>8, <1>11, <2>2
  <2> QED BY <2>3, <2>4 DEF TimesInv, Never
<1>14. DownInv'
  BY DEF DownInv, Working
<1>15. VerdictInv'
  BY <1>3 DEF Inv, VerdictInv, chain, Workers
<1> QED BY <1>2, <1>6, <1>12, <1>13, <1>14, <1>15 DEF Inv

\* What marking an outcome makes of the row: its witness is dropped only when
\* the share is committed.
LEMMA MarkReleases ==
    ASSUME Inv, NEW w, MarkOutcome(w), w \in Workers
    PROVE  \E k \in Shares :
              /\ k = workers[w].key /\ Released(k)
              /\ rows'[k].witness = rows[k].witness
                 \/ (rows'[k].state = "submitted" /\ k \in committed)
              /\ rows'[k].state # "absent"
<1>1. PICK k \in Shares : k = workers[w].key
  <2>1. Working(w)
    BY DEF MarkOutcome, At, Working
  <2> QED BY <2>1, WorkerHolds
<1> DEFINE terminal == rows[k].attempts + 1 >= MaxAttempts
<1>2. Working(w)
  BY DEF MarkOutcome, At, Working
<1>3. k \in Shares /\ inFlight[k] = w /\ w # 0
  BY <1>1, <1>2, WorkerHolds
<1>4. /\ rows \in [Shares -> RowRecords] /\ rows[k] \in RowRecords
      /\ schedule \in [Shares -> Int]
      /\ rows[k].state # "absent" /\ schedule[k] = Never
  BY <1>3 DEF Inv, QueueTypes, TimesInv, SharesInOnePlace
<1>5. Later \in Int /\ Never \in Int
  BY DueTimes, RecordTypes DEF Inv
<1> DEFINE R == /\ Released(k)
                /\ rows'[k].witness = rows[k].witness \/ (rows'[k].state = "submitted" /\ k \in committed)
                /\ rows'[k].state # "absent"
<1>6. ASSUME RequeueAfterStoreFailure(k) \/ MarkRetry(k) PROVE R
  <2>1. /\ inFlight' = [inFlight EXCEPT ![k] = 0] /\ rows' = rows
        /\ schedule' = [schedule EXCEPT ![k] = Later]
    BY <1>6 DEF RequeueAfterStoreFailure, MarkRetry
  <2> QED BY <1>3, <1>4, <1>5, <2>1 DEF Released
<1>7. ASSUME MarkSubmitted(k), workers[w].outcome = "submitted" PROVE R
  <2>1. k \in committed
    BY <1>1, <1>7 DEF Inv, VerdictInv
  <2> DEFINE r1 == [rows[k] EXCEPT !.state = "submitted"]
             r2 == [r1 EXCEPT !.witness = FALSE]
  <2>2. inFlight' = [inFlight EXCEPT ![k] = 0] /\ schedule' = schedule
    BY <1>7 DEF MarkSubmitted
  <2>3. rows' = [rows EXCEPT ![k] = r2]
    BY <1>3, <1>4, <1>7, Zenon DEF MarkSubmitted
  <2>4. r1 \in RowRecords /\ r1.state = "submitted" /\ r1.submitAt = rows[k].submitAt
    BY <1>4 DEF RowRecords
  <2> HIDE DEF r1
  <2>5. r2 \in RowRecords /\ r2.state = "submitted" /\ r2.submitAt = rows[k].submitAt
    BY <2>4, Zenon DEF RowRecords
  <2> HIDE DEF r2
  <2>6. /\ rows' \in [Shares -> RowRecords] /\ rows'[k] = r2
        /\ \A j \in Shares \ {k} : rows'[j] = rows[j]
    BY <1>3, <1>4, <2>3, <2>5
  <2>7. ~Received(k)'
    BY <2>5, <2>6 DEF Received
  <2>8. Released(k)
    BY <1>4, <2>2, <2>5, <2>6, <2>7 DEF Released, Never
  <2> QED BY <2>1, <2>5, <2>6, <2>8
<1>8. ASSUME MarkFailed(k) PROVE R
  <2> DEFINE a == rows[k].attempts + 1
             s == IF terminal THEN "failed" ELSE "received"
             t == IF terminal THEN Never ELSE Later
             r1 == [rows[k] EXCEPT !.attempts = a]
             r2 == [r1 EXCEPT !.state = s]
  <2>1. inFlight' = [inFlight EXCEPT ![k] = 0] /\ schedule' = [schedule EXCEPT ![k] = t]
    BY <1>8 DEF MarkFailed
  <2>2. a \in Int /\ s \in {"failed", "received"} /\ t \in {Never, Later} /\ t \in Int
        /\ (t = Never => t = Later \/ s = "failed")
    BY <1>4, <1>5 DEF RowRecords
  <2>3. rows' = [rows EXCEPT ![k] = r2]
    <3>1. rows' = [rows EXCEPT ![k].attempts = @ + 1,
                               ![k].state = IF terminal THEN "failed" ELSE "received"]
      BY <1>8 DEF MarkFailed
    <3> HIDE DEF terminal
    <3> QED BY <1>3, <1>4, <3>1, Zenon
  <2> HIDE DEF a, s, t
  <2>4. r1 \in RowRecords /\ r1.submitAt = rows[k].submitAt /\ r1.witness = rows[k].witness
    BY <1>4, <2>2 DEF RowRecords
  <2> HIDE DEF r1
  <2>5. r2 \in RowRecords /\ r2.state = s /\ r2.submitAt = rows[k].submitAt
        /\ r2.witness = rows[k].witness
    BY <2>2, <2>4 DEF RowRecords
  <2> HIDE DEF r2
  <2>6. /\ rows' \in [Shares -> RowRecords] /\ rows'[k] = r2
        /\ \A j \in Shares \ {k} : rows'[j] = rows[j]
    BY <1>3, <1>4, <2>3, <2>5
  <2>7. s = "failed" => ~Received(k)'
    BY <2>5, <2>6 DEF Received
  <2>8. /\ schedule' \in [Shares -> Int] /\ schedule'[k] = t
        /\ \A j \in Shares \ {k} : schedule'[j] = schedule[j]
    BY <1>3, <1>4, <2>1, <2>2
  <2>9. Released(k)
    BY <2>1, <2>2, <2>5, <2>6, <2>7, <2>8 DEF Released
  <2> QED BY <2>2, <2>5, <2>6, <2>9
<1>9. R
  <2> HIDE DEF R
  <2> QED BY <1>1, <1>3, <1>6, <1>7, <1>8 DEF MarkOutcome
<1> QED BY <1>1, <1>9

\* Marking an outcome keeps the invariant.
LEMMA MarkKeeps ==
    ASSUME Inv, NEW w \in Workers, MarkOutcome(w)
    PROVE  Inv'
<1>1. Working(w) /\ Proceed(w, "done")
  BY Zenon DEF MarkOutcome, At, Working
<1>2. PICK k \in Shares : k = workers[w].key /\ Released(k)
  BY MarkReleases
<1>3. UNCHANGED <<now, chain, up, checkTxReady, lastReadyRound, confirmed, submitHeight, history>>
  BY Zenon DEF MarkOutcome, cleanup
<1>4. SendInv'
  <2>1. UNCHANGED <<height, committed, checkTxReady, submitHeight, sentAt, repeated>>
    BY <1>3 DEF chain, history
  <2>2. workers[w].outcome = "submitted" => k \in committed
    BY <1>2, Zenon DEF Inv, VerdictInv
  <2>3. submitKeys' = IF workers[w].outcome = "submitted" THEN submitKeys \ {k} ELSE submitKeys
    BY <1>2 DEF MarkOutcome
  <2>4. \A j \in Shares : j \in submitKeys /\ j \notin committed => j \in submitKeys'
    BY <2>2, <2>3
  <2>5. submitKeys' \subseteq Shares
    BY <2>3 DEF Inv, SendInv
  <2> QED BY <2>1, <2>4, <2>5 DEF Inv, SendInv
<1> QED BY <1>1, <1>2, <1>3, <1>4, ReleaseKeeps

\* An attempt that was marked owns nothing, so that finishing it frees the
\* worker alone.
LEMMA FinishOwnsNothing ==
    ASSUME Inv, NEW w \in Workers, FinishAttempt(w)
    PROVE  UNCHANGED <<rows, schedule, inFlight>>
<1> DEFINE k == workers[w].key
<1>1. workers[w].pc = "done" /\ k \in Shares /\ w # 0
  <2>1. workers[w].pc = "done"
    BY DEF FinishAttempt, At
  <2>2. k \in Shares
    BY <2>1 DEF Inv, QueueTypes
  <2>3. w # 0
    BY HelperAssumption DEF HelperAssumption, Workers
  <2> QED BY <2>1, <2>2, <2>3
<1>2. inFlight[k] # w
  <2>1. Owners(k) = (IF inFlight[k] = 0 THEN {} ELSE {inFlight[k]})
    BY <1>1 DEF Inv, SharesInOnePlace
  <2>2. w \notin Owners(k)
    BY <1>1 DEF Owners
  <2> QED BY <1>1, <2>1, <2>2
<1> QED BY <1>2 DEF FinishAttempt

\* Finishing an attempt keeps the invariant.
LEMMA FinishKeeps ==
    ASSUME Inv, NEW w \in Workers, FinishAttempt(w)
    PROVE  Inv'
<1>1. UNCHANGED <<rows, schedule, inFlight>>
  BY FinishOwnsNothing
<1>2. UNCHANGED <<now, chain, up, checkTxReady, lastReadyRound, sends, confirmed, history>>
  BY DEF FinishAttempt, cleanup
<1>3. workers' = [workers EXCEPT ![w] = Idle] /\ workers[w].pc = "done" /\ up
  BY DEF FinishAttempt, At
<1>4. ChainInv' /\ SendInv'
  BY <1>2, PartsKept
<1>5. workers \in [Workers -> WorkerRecords]
  BY DEF Inv, QueueTypes
<1>6. workers'[w] = Idle /\ \A v \in Workers : v # w => workers'[v] = workers[v]
  BY <1>3, <1>5
<1>7. workers'[w].pc = "idle" /\ workers'[w].outcome = "none"
  BY <1>6 DEF Idle
<1>8. QueueTypes'
  <2>1. workers' \in [Workers -> WorkerRecords]
    BY <1>3, <1>5, RecordTypes
  <2>2. \A v \in Workers : workers'[v].pc # "idle" => workers'[v].key \in Shares
    BY <1>6, <1>7 DEF Inv, QueueTypes
  <2> QED BY <1>1, <1>2, <2>1, <2>2 DEF Inv, QueueTypes, Workers
<1>9. SharesInOnePlace'
  <2>1. \A j : Owners(j)' = Owners(j)
    BY <1>3, <1>6, <1>7 DEF Owners, Workers
  <2>2. \A j : Received(j)' <=> Received(j)
    BY <1>1 DEF Received
  <2> QED BY <1>1, <1>2, <2>1, <2>2, Zenon DEF Inv, SharesInOnePlace, Never
<1>10. TimesInv'
  BY <1>1, <1>2 DEF Inv, TimesInv, Never
<1>11. DownInv'
  BY <1>2, <1>3 DEF DownInv
<1>12. VerdictInv'
  BY <1>2, <1>6, <1>7 DEF Inv, VerdictInv, chain, Workers
<1> QED BY <1>4, <1>8, <1>9, <1>10, <1>11, <1>12 DEF Inv

\* Every step of an attempt keeps the invariant.
LEMMA AttemptKeeps ==
    ASSUME Inv, NEW w \in Workers, Attempt(w)
    PROVE  Inv'
<1>1. CASE CheckRoundStatus(w) \/ CheckCommitted(w) \/ ProveShare(w)
  BY <1>1, QuietStepKeeps
<1>2. CASE PrepareShare(w)
  BY <1>2, PrepareKeeps
<1>3. CASE ReserveProofAttempt(w)
  BY <1>3, ReserveKeeps
<1>4. CASE SubmitShareTx(w)
  BY <1>4, SubmitKeeps
<1>5. CASE MarkOutcome(w)
  BY <1>5, MarkKeeps
<1>6. CASE FinishAttempt(w)
  BY <1>6, FinishKeeps
<1> QED BY <1>1, <1>2, <1>3, <1>4, <1>5, <1>6 DEF Attempt

\* Every step keeps the invariant.
LEMMA InvStep == Inv /\ [Next]_vars => Inv'
<1> SUFFICES ASSUME Inv, [Next]_vars PROVE Inv'
  OBVIOUS
<1>1. CASE (\E k \in Shares : SubmitShare(k) \/ EnqueueStoreError(k)) \/ MaintenanceTick
  BY <1>1, RequestKeeps
<1>2. CASE \E k \in Shares : Enqueue(k)
  BY <1>2, EnqueueKeeps
<1>3. CASE TakeReadyBatch
  BY <1>3, TakeReadyKeeps
<1>4. CASE \E w \in Workers : Attempt(w)
  BY <1>4, AttemptKeeps
<1>5. CASE CleanupClosedRounds
  BY <1>5, CleanupKeeps
<1>6. CASE PurgeRounds
  BY <1>6, PurgeKeeps
<1>7. CASE Crash
  BY <1>7, CrashKeeps
<1>8. CASE Start
  BY <1>8, StartKeeps
<1>9. CASE \E k \in Shares : ImportQueue(k)
  BY <1>9, ImportKeeps
<1>10. CASE \E k \in Shares : CorruptRow(k)
  BY <1>10, CorruptKeeps
<1>11. CASE \E k \in Shares : RepairRow(k)
  BY <1>11, RepairKeeps
<1>12. CASE Tick
  BY <1>12, TickKeeps
<1>13. CASE Block
  BY <1>13, BlockKeeps
<1>14. CASE UNCHANGED vars
  <2>1. UNCHANGED <<now, height, closed, committed, up, checkTxReady, rows, schedule, inFlight,
                    lastReadyRound, workers, submitHeight, submitKeys, confirmed, sentAt, repeated>>
    BY <1>14 DEF vars, chain, queue, sends, cleanup, history
  <2>2. ChainInv' /\ SendInv'
    BY <2>1, PartsKept DEF chain, sends, history
  <2>3. now <= now' /\ confirmed \subseteq closed /\ (~up => ~checkTxReady)
    BY <2>1 DEF Inv, ChainInv, VerdictInv, DownInv
  <2> QED BY <2>1, <2>2, <2>3, QueueAlone
<1> QED BY <1>1, <1>2, <1>3, <1>4, <1>5, <1>6, <1>7, <1>8, <1>9, <1>10, <1>11, <1>12,
           <1>13, <1>14 DEF Next

\* The invariant holds throughout.
LEMMA InvHolds == Spec => []Inv
  BY InvInit, InvStep, PTL DEF Spec

\* What a step may do to the witness of a share.
WitnessStep ==
    \A k \in Shares :
        HasWitness(rows[k]) /\ ~HasWitness(rows'[k]) =>
            \/ rows'[k].state = "submitted" /\ k \in committed
            \/ rows'[k].state = "absent" /\ RoundOf[k] \in closed /\ Owners(k) = {}

\* Handing shares out is what makes owners, and only of shares that are due.
OwnerStep ==
    \A k \in Shares : inFlight[k] = 0 /\ inFlight'[k] # 0 => now >= rows[k].submitAt

\* The witness and the owner over the steps of an attempt.
LEMMA AttemptSteps ==
    ASSUME Inv, NEW w \in Workers, Attempt(w)
    PROVE  WitnessStep /\ OwnerStep
<1>1. CASE RowsKept /\ UNCHANGED inFlight
  BY <1>1 DEF RowsKept, WitnessStep, OwnerStep, HasWitness
<1>2. CASE MarkOutcome(w)
  <2>1. PICK k \in Shares :
              /\ k = workers[w].key /\ Released(k)
              /\ rows'[k].witness = rows[k].witness
                 \/ (rows'[k].state = "submitted" /\ k \in committed)
              /\ rows'[k].state # "absent"
    BY <1>2, MarkReleases
  <2>2. WitnessStep
    BY <2>1 DEF Released, WitnessStep, HasWitness
  <2>3. \A j \in Shares : inFlight'[j] = IF j = k THEN 0 ELSE inFlight[j]
    BY <2>1 DEF Released, Inv, QueueTypes
  <2> QED BY <2>2, <2>3 DEF OwnerStep
<1>3. CASE FinishAttempt(w)
  BY <1>3, FinishOwnsNothing DEF WitnessStep, OwnerStep, HasWitness
<1> QED BY <1>1, <1>2, <1>3, QuietStepKeeps, PrepareKeeps, ReserveKeeps, SubmitKeeps DEF Attempt

\* A step that touches neither rows nor owners.
LEMMA IdleSteps ==
    ASSUME UNCHANGED <<rows, inFlight>>
    PROVE  WitnessStep /\ OwnerStep
BY DEF WitnessStep, OwnerStep, HasWitness

\* A share that is queued gets its witness.
LEMMA EnqueueSteps ==
    ASSUME Inv, NEW k \in Shares, Enqueue(k)
    PROVE  WitnessStep /\ OwnerStep
<1>1. UNCHANGED inFlight
  BY DEF Enqueue
<1>2. \/ UNCHANGED rows
      \/ \E at \in Nat : rows' = [rows EXCEPT ![k] = Written(k, at)]
  <2>1. PICK t \in 0..VoteEnd :
           EnqueueRow(k, EffectiveSubmitAt(t)) \/ UNCHANGED <<rows, schedule>>
    BY DEF Enqueue
  <2>2. EffectiveSubmitAt(t) \in Nat
    BY DueTimes DEF Inv
  <2> QED BY <2>1, <2>2 DEF EnqueueRow, Written
<1>3. CASE \E at \in Nat : rows' = [rows EXCEPT ![k] = Written(k, at)]
  <2>1. PICK at \in Nat : rows' = [rows EXCEPT ![k] = Written(k, at)]
    BY <1>3, Zenon
  <2>2. rows \in [Shares -> RowRecords]
    BY DEF Inv, QueueTypes
  <2>3. /\ rows'[k] = Written(k, at)
        /\ \A j \in Shares : j # k => rows'[j] = rows[j]
    BY <2>1, <2>2
  <2>4. Written(k, at).state = "received" /\ Written(k, at).witness = TRUE
    BY WrittenRow, Zenon
  <2> QED BY <1>1, <2>3, <2>4 DEF WitnessStep, OwnerStep, HasWitness
<1> QED BY <1>1, <1>2, <1>3, IdleSteps

\* Only shares that are due get an owner, and a row that does not decode keeps its
\* witness.
LEMMA TakeSteps ==
    ASSUME Inv, TakeReadyBatch
    PROVE  WitnessStep /\ OwnerStep
<1>1. PICK rank \in Ranks : \E seen \in SUBSET Visited(MaxConcurrent - ActiveCount, rank) :
            HandOut(seen, rank) /\ lastReadyRound' \in 0..NumRounds
  BY BatchIsHandedOut
<1>2. PICK seen \in SUBSET Visited(MaxConcurrent - ActiveCount, rank) : HandOut(seen, rank)
  BY <1>1
<1>3. HandedOut(Taken(seen))
  BY <1>2, HandOutHands DEF OrderInv, Inv, QueueTypes
<1>4. \A k \in Taken(seen) : k \in Shares /\ schedule[k] # Never /\ schedule[k] <= now
  BY Zenon DEF Taken, Visited, Due
<1>5. \A k \in Shares : /\ rows[k].submitAt \in Nat /\ schedule[k] \in Int /\ now \in Nat
                        /\ schedule[k] # Never => rows[k].submitAt <= schedule[k]
  BY DEF Inv, QueueTypes, RowRecords, TimesInv, ChainInv
<1>6. OwnerStep
  BY <1>3, <1>4, <1>5 DEF OwnerStep, HandedOut
<1>7. \A k \in Shares :
        \/ rows'[k] = rows[k]
        \/ rows'[k].state = "failed" /\ rows'[k].witness = rows[k].witness
  <2>1. rows' = [k \in Shares |-> IF k \in seen /\ Undecodable(k)
                                  THEN FailedCorrupt(rows[k]) ELSE rows[k]]
    BY <1>2, Zenon DEF HandOut
  <2>2. \A k \in Shares : rows[k] \in RowRecords
    BY DEF Inv, QueueTypes
  <2> QED BY <2>1, <2>2, FailedRow
<1>8. WitnessStep
  BY <1>7 DEF WitnessStep, HasWitness
<1> QED BY <1>6, <1>8

\* A purge drops rows of closed rounds that nobody owns.
LEMMA PurgeSteps ==
    ASSUME Inv, PurgeRounds
    PROVE  WitnessStep /\ OwnerStep
<1>1. UNCHANGED inFlight
  BY DEF PurgeRounds
<1>2. ASSUME NEW k \in Shares, HasWitness(rows[k]), ~HasWitness(rows'[k])
      PROVE  rows'[k].state = "absent" /\ RoundOf[k] \in closed /\ Owners(k) = {}
  <2> DEFINE active == {RoundOf[j] : j \in {i \in Shares : inFlight[i] # 0}}
             gone == {j \in Shares : RoundOf[j] \in confirmed \ active}
  <2>1. \/ rows' = [j \in Shares |-> IF j \in gone THEN NoRow ELSE rows[j]]
        \/ UNCHANGED rows
    BY DEF PurgeRounds
  <2> HIDE DEF gone
  <2>2. k \in gone /\ rows'[k] = NoRow
    BY <1>2, <2>1
  <2>3. RoundOf[k] \in confirmed /\ inFlight[k] = 0
    BY <2>2 DEF gone
  <2>4. RoundOf[k] \in closed
    BY <2>3 DEF Inv, VerdictInv
  <2>5. Owners(k) = {}
    BY <2>3 DEF Inv, SharesInOnePlace
  <2>6. NoRow.state = "absent"
    BY DEF NoRow
  <2> QED BY <2>2, <2>4, <2>5, <2>6
<1> QED BY <1>1, <1>2 DEF WitnessStep, OwnerStep

\* An import adds rows and makes old ones due.
LEMMA ImportSteps ==
    ASSUME Inv, NEW k \in Shares, ImportQueue(k)
    PROVE  WitnessStep /\ OwnerStep
<1>1. UNCHANGED inFlight
  BY DEF ImportQueue
<1>2. rows \in [Shares -> RowRecords] /\ \A j \in Shares : rows[j] \in RowRecords
  BY DEF Inv, QueueTypes
<1>3. \/ rows[k].state = "absent" /\ \E r : rows' = [rows EXCEPT ![k] = r]
      \/ rows' = [rows EXCEPT ![k].submitAt = 0]
  BY DEF ImportQueue
<1>4. CASE rows[k].state = "absent" /\ \E r : rows' = [rows EXCEPT ![k] = r]
  <2>1. \A j \in Shares : j # k => rows'[j] = rows[j]
    BY <1>2, <1>4
  <2> QED BY <1>1, <1>4, <2>1 DEF WitnessStep, OwnerStep, HasWitness
<1>5. CASE rows' = [rows EXCEPT ![k].submitAt = 0]
  <2>1. \A j \in Shares : rows'[j].state = rows[j].state /\ rows'[j].witness = rows[j].witness
    BY <1>2, <1>5 DEF RowRecords
  <2> QED BY <1>1, <2>1 DEF WitnessStep, OwnerStep, HasWitness
<1> QED BY <1>3, <1>4, <1>5

\* Damage to a column is not to the witness.
LEMMA CorruptSteps ==
    ASSUME Inv, NEW k \in Shares, CorruptRow(k)
    PROVE  WitnessStep /\ OwnerStep
<1>1. UNCHANGED inFlight
  BY DEF CorruptRow
<1>2. \A j \in Shares : rows'[j].state = rows[j].state /\ rows'[j].witness = rows[j].witness
  <2>1. PICK column \in Damage : rows' = [rows EXCEPT ![k].corrupt = column]
    BY Zenon DEF CorruptRow
  <2>2. rows \in [Shares -> RowRecords] /\ \A j \in Shares : rows[j] \in RowRecords
    BY DEF Inv, QueueTypes
  <2> QED BY <2>1, <2>2 DEF RowRecords
<1> QED BY <1>1, <1>2 DEF WitnessStep, OwnerStep, HasWitness

\* A repair is not to the witness either.
LEMMA RepairSteps ==
    ASSUME Inv, NEW k \in Shares, RepairRow(k)
    PROVE  WitnessStep /\ OwnerStep
<1>1. UNCHANGED inFlight
  BY DEF RepairRow
<1>2. \A j \in Shares : rows'[j].state = rows[j].state /\ rows'[j].witness = rows[j].witness
  <2>1. PICK at \in 0..(VoteEnd - 1) :
           rows' = [rows EXCEPT ![k].submitAt = at, ![k].corrupt = "no"]
    BY Zenon DEF RepairRow
  <2>2. rows \in [Shares -> RowRecords] /\ \A j \in Shares : rows[j] \in RowRecords
    BY DEF Inv, QueueTypes
  <2> QED BY <2>1, <2>2 DEF RowRecords
<1> QED BY <1>1, <1>2 DEF WitnessStep, OwnerStep, HasWitness

\* A step drops a witness only of a committed share or with a closed round,
\* and gives owners only to shares that are due.
LEMMA EveryStep ==
    ASSUME Inv, [Next]_vars
    PROVE  WitnessStep /\ OwnerStep
<1>1. CASE Crash
  <2>1. rows' = rows /\ inFlight' = [k \in Shares |-> 0]
    BY <1>1 DEF Crash
  <2> QED BY <2>1 DEF WitnessStep, OwnerStep, HasWitness
<1>2. \/ UNCHANGED <<rows, inFlight>>
      \/ \E k \in Shares : Enqueue(k) \/ ImportQueue(k) \/ CorruptRow(k) \/ RepairRow(k)
      \/ TakeReadyBatch \/ (\E w \in Workers : Attempt(w)) \/ PurgeRounds \/ Crash
  <2>1. CASE UNCHANGED vars
    BY <2>1 DEF vars, queue
  <2>2. CASE \E k \in Shares : SubmitShare(k) \/ EnqueueStoreError(k)
    BY <2>2 DEF SubmitShare, EnqueueStoreError, queue
  <2>3. CASE MaintenanceTick \/ CleanupClosedRounds \/ Start \/ Tick \/ Block
    BY <2>3, Zenon, Zenon DEF MaintenanceTick, CleanupClosedRounds, Start, Tick, Block, queue
  <2> QED BY <2>1, <2>2, <2>3 DEF Next
<1> QED BY <1>1, <1>2, IdleSteps, EnqueueSteps, TakeSteps, AttemptSteps, PurgeSteps, ImportSteps, CorruptSteps,
           RepairSteps, Zenon

-----------------------------------------------------------------------------
(* The theorems.                                                           *)

\* A share is in one place: one live attempt at most, the one that owns it in
\* memory, off the schedule while it is owned; and no share that is to be sent
\* is stranded while the process runs (takeReady, Mark*,
\* requeueInFlightIfOwned, recover).
THEOREM OnePlace == Spec => []SharesInOnePlace
<1>1. Inv => SharesInOnePlace
  BY DEF Inv
<1> QED BY <1>1, InvHolds, PTL

\* A share that is not committed is broadcast at most once per block height,
\* also after a restart, which empties the cache of heights
\* (claimSubmitHeight, the post-restart CheckTx gate).
THEOREM SentOncePerHeight == Spec => []OncePerHeight
<1>1. Inv => OncePerHeight
  BY DEF Inv, SendInv, OncePerHeight
<1> QED BY <1>1, InvHolds, PTL

\* A witness is forgotten only when its share is committed, or with a round
\* closed in committed state and never under a worker (MarkSubmitted,
\* PurgeRounds).
THEOREM WitnessKept == Spec => WitnessUntilCommitted
<1>1. Inv /\ [Next]_vars => WitnessStep
  BY EveryStep
<1>2. Inv /\ [Next]_vars => [WitnessStep]_vars
  BY <1>1
<1>3. Spec => [][WitnessStep]_vars
  BY <1>2, InvHolds, PTL DEF Spec
<1> QED BY <1>3 DEF WitnessUntilCommitted, WitnessStep

\* No attempt starts before its share's effective submit_at (Enqueue,
\* recover, takeReady).
THEOREM NeverEarly == Spec => NotBeforeSubmitAt
<1>1. Inv /\ [Next]_vars => OwnerStep
  BY EveryStep
<1>2. Inv /\ [Next]_vars => [OwnerStep]_vars
  BY <1>1
<1>3. Spec => [][OwnerStep]_vars
  BY <1>2, InvHolds, PTL DEF Spec
<1> QED BY <1>3 DEF NotBeforeSubmitAt, OwnerStep
=============================================================================
