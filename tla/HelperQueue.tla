---------------------------- MODULE HelperQueue ----------------------------
(***************************************************************************)
(* The helper server of one node (internal/helper): wallets hand it the    *)
(* shares of their votes, it keeps them in SQLite until their submit_at,   *)
(* proves them and submits MsgRevealShare, and forgets the witness only    *)
(* when the share's nullifier is in committed state.                       *)
(*                                                                         *)
(* Actors that interleave here: API requests (check, then Enqueue), the    *)
(* dispatcher (Processor.Run), MaxConcurrent workers whose attempt is a    *)
(* sequence of steps, the maintenance pass, the chain, and crashes of the  *)
(* process, after which only the database survives.                        *)
(*                                                                         *)
(* Time is counted in ticks, a retry backoff is one tick, and which proof  *)
(* slot is due is left open here: RetrySchedule has the arithmetic.  The   *)
(* attempt ID of a dequeue is the number of the worker that holds it: a    *)
(* worker holds one share at a time, so the two tell the same attempts     *)
(* apart, and 0 is no attempt in the code as well.                         *)
(***************************************************************************)
EXTENDS Integers, FiniteSets

CONSTANTS
    Shares,         \* canonical schedule keys of the shares
    NoShare,        \* what an idle worker holds
    RoundOf,        \* the round (1..NumRounds) of every share
    NumRounds,
    MaxConcurrent,  \* workers
    MaxAttempts,    \* shareFailedMaxAttempts
    NumSlots,       \* proof slots of a retry schedule
    VoteEnd,        \* vote_end_time of the rounds
    MaxTime,        \* bound on the clock: time stands for "later" there
    MaxHeight,      \* bound on the blocks nothing waits for
    MaxTroubles     \* bound on crashes, on database, chain lookup and network
                    \* errors, and on rows damaged on disk, together

ASSUME HelperAssumption ==
    /\ IsFiniteSet(Shares) /\ NoShare \notin Shares
    /\ NumRounds \in Nat /\ RoundOf \in [Shares -> 1..NumRounds]
    /\ MaxConcurrent \in Nat \ {0} /\ MaxAttempts \in Nat \ {0}
    /\ {NumSlots, VoteEnd, MaxTime, MaxHeight, MaxTroubles} \subseteq Nat

VARIABLES
    now,            \* wall clock
    height,         \* latest committed block
    closed,         \* rounds past ACTIVE in committed state
    committed,      \* shares whose nullifier is in committed state
    up,             \* the process is running
    checkTxReady,   \* a block was committed since the process started
    ingress,        \* API requests that passed validation, before Enqueue
    rows,           \* table shares
    schedule,       \* in-memory due times, Never when absent
    inFlight,       \* in-memory owners, 0 when absent
    retryUntil,     \* dequeueRetryUntil
    lastReadyRound, \* round-robin cursor, 0 initially
    workers,        \* attempts in progress
    submitHeight, submitKeys,  \* shares sent at the latest height
    maintenance,    \* "none", "due", or "purge" of the rounds in
    confirmed,      \* confirmed
    sentAt,         \* history: height of the last broadcast of a share
    repeated,       \* history: shares sent twice at a height, uncommitted
    troubles    \* crashes, errors and damaged rows so far

chain == <<height, closed, committed>>
queue == <<rows, schedule, inFlight, retryUntil>>
sends == <<submitHeight, submitKeys>>
cleanup == <<maintenance, confirmed>>
history == <<sentAt, repeated>>
vars == <<now, chain, up, checkTxReady, ingress, queue, lastReadyRound,
          workers, sends, cleanup, history, troubles>>

Rounds == 1..NumRounds
Workers == 1..MaxConcurrent
Never == -1

\* What stops a row from decoding: nothing; a column of the payload, which is
\* read only to load the share; submit_at, which recovery scans too; or the
\* state, by which recovery selects.
Damage == {"no", "payload", "submitAt", "state"}

NoRow == [state |-> "absent", witness |-> FALSE, attempts |-> 0, submitAt |-> 0,
          slot |-> 0, lastHeight |-> 0, corrupt |-> "no"]

Idle == [pc |-> "idle", key |-> NoShare, active |-> FALSE,
         row |-> NoRow, height |-> 0, outcome |-> "none"]

Init ==
    /\ now = 0
    /\ height = 1
    /\ closed = {}
    /\ committed = {}
    /\ up = TRUE
    /\ checkTxReady = FALSE
    /\ ingress = {}
    /\ rows = [k \in Shares |-> NoRow]
    /\ schedule = [k \in Shares |-> Never]
    /\ inFlight = [k \in Shares |-> 0]
    /\ retryUntil = 0
    /\ lastReadyRound = 0
    /\ workers = [w \in Workers |-> Idle]
    /\ submitHeight = 0
    /\ submitKeys = {}
    /\ maintenance = "due"
    /\ confirmed = {}
    /\ sentAt = [k \in Shares |-> 0]
    /\ repeated = {}
    /\ troubles = 0

Received(k) == rows[k].state = "received" /\ rows[k].corrupt # "state"
Decodes(k) == rows[k].corrupt = "no"

\* The clock at the end of a backoff of one tick.
Later == IF now < MaxTime THEN now + 1 ELSE MaxTime

\* An error the environment injects in the step that says so.
Fault == troubles < MaxTroubles /\ troubles' = troubles + 1
NoFault == UNCHANGED troubles

ActiveCount == Cardinality({w \in Workers : workers[w].pc # "idle"})

-----------------------------------------------------------------------------
(* The API: validation of a request, then Enqueue under the store mutex.   *)

\* The round is active and the commitment is on chain; other requests are
\* turned away before they reach the queue.
SubmitShare(k) ==
    /\ up /\ checkTxReady
    /\ RoundOf[k] \notin closed
    /\ k \notin ingress
    /\ ingress' = ingress \cup {k}
    /\ UNCHANGED <<now, chain, up, checkTxReady, queue, lastReadyRound,
                   workers, sends, cleanup, history, troubles>>

EffectiveSubmitAt(submitAt) ==
    IF submitAt # 0 /\ submitAt < now /\ now < VoteEnd THEN now ELSE submitAt

DueTime(submitAt) == IF submitAt = 0 THEN now ELSE submitAt

Replaceable(k) == ~Decodes(k) /\ inFlight[k] = 0 /\ rows[k].corrupt # "state"
                  /\ rows[k].state # "submitted"

EnqueueResult(k) ==
    CASE rows[k].state = "absent" -> "queued"
      [] rows[k].state # "absent" /\ Decodes(k) ->
            IF rows[k].witness THEN "duplicate" ELSE "conflict"
      [] rows[k].state # "absent" /\ ~Decodes(k) /\ Replaceable(k) -> "queued"
      [] OTHER -> IF inFlight[k] = 0 /\ rows[k].corrupt = "state"
                  THEN "conflict" ELSE "duplicate"

\* The columns an INSERT and the repairing UPDATE write.  The UPDATE leaves
\* retry_state alone.
InsertedRow(submitAt) ==
    [NoRow EXCEPT !.state = "received", !.witness = TRUE, !.submitAt = submitAt]

ReplacedRow(k, submitAt) ==
    [rows[k] EXCEPT !.state = "received", !.witness = TRUE, !.attempts = 0,
                    !.submitAt = submitAt,
                    !.corrupt = "no"]

EnqueueRow(k, submitAt) ==
    /\ IF EnqueueResult(k) = "queued"
       THEN /\ rows' = [rows EXCEPT ![k] =
                          IF rows[k].state = "absent"
                          THEN InsertedRow(submitAt) ELSE ReplacedRow(k, submitAt)]
            /\ schedule' = [schedule EXCEPT ![k] = DueTime(submitAt)]
       ELSE UNCHANGED <<rows, schedule>>

Enqueue(k) ==
    /\ up
    /\ k \in ingress
    /\ ingress' = ingress \ {k}
    /\ \E submitAt \in 0..VoteEnd :
          \/ /\ submitAt < VoteEnd
             /\ EnqueueRow(k, EffectiveSubmitAt(submitAt))
          \/ /\ submitAt = VoteEnd   \* not before vote_end_time
             /\ UNCHANGED <<rows, schedule>>
    /\ UNCHANGED <<now, chain, up, checkTxReady, inFlight, retryUntil, lastReadyRound,
                   workers, sends, cleanup, history, troubles>>

EnqueueStoreError(k) ==
    /\ up
    /\ k \in ingress
    /\ ingress' = ingress \ {k}
    /\ Fault
    /\ UNCHANGED <<now, chain, up, checkTxReady, queue, lastReadyRound,
                   workers, sends, cleanup, history>>

-----------------------------------------------------------------------------
(* takeReady: the whole batch is chosen under the store mutex.             *)

Due == {k \in Shares : schedule[k] # Never /\ schedule[k] <= now /\ inFlight[k] = 0}

Takable(k) == Decodes(k) /\ rows[k].state = "received"
Undecodable(k) == rows[k].state # "absent" /\ ~Decodes(k)

\* Oldest first within a round; equal times are ranked by a keyed hash, here
\* any injective rank of the shares.
Earlier(j, k, rank) ==
    /\ RoundOf[j] = RoundOf[k]
    /\ \/ schedule[j] < schedule[k]
       \/ schedule[j] = schedule[k] /\ rank[j] < rank[k]

Turn(k, rank) == Cardinality({j \in Due : Earlier(j, k, rank)})

\* Mutant: the rotation always starts at the first round.
RingFromStart(r) == r

\* Distance of a round from the cursor: rotation starts just after it.
RingDistance(r) ==
    IF r > lastReadyRound THEN r - lastReadyRound ELSE r + NumRounds - lastReadyRound

\* Mutant: a round is drained before the next one has its turn.
BeforeByRound(j, k, rank) ==
    \/ RingDistance(RoundOf[j]) < RingDistance(RoundOf[k])
    \/ RoundOf[j] = RoundOf[k] /\ Turn(j, rank) < Turn(k, rank)

Before(j, k, rank) ==
    \/ Turn(j, rank) < Turn(k, rank)
    \/ /\ Turn(j, rank) = Turn(k, rank)
       /\ RingDistance(RoundOf[j]) < RingDistance(RoundOf[k])

\* The loop visits a candidate unless the batch is full when it gets there.
Visited(limit, rank) ==
    {k \in Due : Cardinality({j \in Due : Takable(j) /\ Before(j, k, rank)}) < limit}

\* The cursor follows shares handed out and damaged rows.
CursorAfter(seen, rank) ==
    LET moved == {k \in seen : Takable(k) \/ Undecodable(k)}
    IN IF moved = {} THEN lastReadyRound
       ELSE RoundOf[CHOOSE k \in moved : \A j \in moved : j = k \/ Before(j, k, rank)]

\* A damaged row is failed on the spot, which rewrites its state column. Its
\* witness is scrubbed at once only when the vote end is unknown (0).
FailedCorrupt(row) ==
    [row EXCEPT !.state = "failed",
                !.attempts = IF @ < MaxAttempts THEN @ + 1 ELSE @,
                !.corrupt = IF @ = "state" THEN "no" ELSE @]

StillScheduled(k, seen) == schedule[k] # Never /\ inFlight[k] = 0 /\ k \notin seen

Assigned(taken, w, rank) ==
    LET idle == {v \in Workers : workers[v].pc = "idle"}
        place == Cardinality({v \in idle : v < w})
    IN {k \in taken : Cardinality({j \in taken : Before(j, k, rank)}) = place /\ w \in idle}

Started(k) == [Idle EXCEPT !.pc = "status", !.key = k, !.row = rows[k]]

HandOut(seen, rank) ==
    LET taken == {k \in seen : Takable(k)}
        owner(k) == CHOOSE w \in Workers : k \in Assigned(taken, w, rank)
    IN /\ rows' = [k \in Shares |-> IF k \in seen /\ Undecodable(k)
                                     THEN FailedCorrupt(rows[k]) ELSE rows[k]]
       /\ schedule' = [k \in Shares |-> IF StillScheduled(k, seen) THEN schedule[k] ELSE Never]
       /\ inFlight' = [k \in Shares |-> IF k \in taken THEN owner(k) ELSE inFlight[k]]
       /\ workers' = [w \in Workers |->
                        IF Assigned(taken, w, rank) = {} THEN workers[w]
                        ELSE Started(CHOOSE k \in taken : k \in Assigned(taken, w, rank))]

Ranks == {f \in [Shares -> 1..Cardinality(Shares)] :
             \A j, k \in Shares : j # k => f[j] # f[k]}

DispatchReady ==
    up /\ maintenance = "none" /\ ActiveCount < MaxConcurrent /\ retryUntil <= now

TakeReadyBatch ==
    /\ DispatchReady
    /\ Due # {}
    /\ \E rank \in Ranks :
          LET visited == Visited(MaxConcurrent - ActiveCount, rank) IN
          \/ /\ HandOut(visited, rank)
             /\ lastReadyRound' = CursorAfter(visited, rank)
             /\ retryUntil' = 0
             /\ NoFault
          \/ \E bad \in visited : \* its load or its terminal update fails
                LET seen == {k \in visited : Before(k, bad, rank)} IN
                /\ Fault
                /\ HandOut(seen, rank)
                /\ \/ lastReadyRound' = CursorAfter(seen, rank)
                   \/ Undecodable(bad) /\ lastReadyRound' = RoundOf[bad]
                /\ retryUntil' = Later
    /\ UNCHANGED <<now, chain, up, checkTxReady, ingress, sends, cleanup,
                   history>>

-----------------------------------------------------------------------------
(* One attempt of a worker: processQueuedShare and processShare.           *)

LatestBlockHeight == IF checkTxReady THEN height ELSE 0

\* The steps of an attempt change the worker, and the state named in each.
Resolve(w, outcome) ==
    workers' = [workers EXCEPT ![w] =
                  [Idle EXCEPT !.pc = "mark", !.key = workers[w].key, !.outcome = outcome]]

Proceed(w, pc) == workers' = [workers EXCEPT ![w].pc = pc]

At(w, pc) == up /\ workers[w].pc = pc

CheckRoundStatus(w) ==
    /\ At(w, "status")
    /\ \/ /\ checkTxReady
          /\ workers' = [workers EXCEPT ![w].pc = "dedupe",
                           ![w].active = RoundOf[workers[w].key] \notin closed]
          /\ NoFault
       \/ ~checkTxReady /\ Resolve(w, "retry") /\ NoFault
       \/ Resolve(w, "retry") /\ Fault  \* status unavailable, or cancelled
    /\ UNCHANGED <<now, chain, up, checkTxReady, ingress, queue, lastReadyRound,
                   sends, cleanup, history>>

\* shareAlreadyRevealed reads committed state.  An unavailable lookup does
\* not hold back a share of an active round.
CheckCommitted(w) ==
    LET k == workers[w].key IN
    /\ At(w, "dedupe")
    /\ \/ k \in committed /\ Resolve(w, "submitted") /\ NoFault
       \/ k \notin committed /\ ~workers[w].active /\ Resolve(w, "failed") /\ NoFault
       \/ k \notin committed /\ workers[w].active /\ Proceed(w, "prepare") /\ NoFault
       \/ ~workers[w].active /\ Resolve(w, "retry") /\ Fault
       \/ workers[w].active /\ Proceed(w, "prepare") /\ Fault
       \/ Resolve(w, "failed") /\ Fault  \* a field of the row does not decode
    /\ UNCHANGED <<now, chain, up, checkTxReady, ingress, queue, lastReadyRound,
                   sends, cleanup, history>>

\* advanceSubmitHeightLocked: the set of shares sent belongs to one height.
AdvancedKeys(h) == IF h > submitHeight THEN {} ELSE submitKeys
AdvanceTo(h, keys) ==
    /\ submitHeight' = IF h > submitHeight THEN h ELSE submitHeight
    /\ submitKeys' = keys

\* Mutant: the shares sent at this height are not consulted.
SubmittedAtOlderHeight(k, h) == h < submitHeight

SubmittedAtHeight(k, h) == h < submitHeight \/ k \in AdvancedKeys(h)

\* A retry state exists once a slot was reserved.  Without one, earlier
\* failed attempts use up slots.
NoRetryState(row) == row.slot = 0
Exhausted(row) ==
    \/ ~NoRetryState(row) /\ row.slot >= NumSlots
    \/ NoRetryState(row) /\ row.attempts >= NumSlots

\* processShare up to the reading of the tree: retry slot, height, path.
PrepareShare(w) ==
    LET k == workers[w].key
        row == workers[w].row
        h == LatestBlockHeight IN
    /\ At(w, "prepare")
    /\ \/ Exhausted(row) /\ Resolve(w, "retry") /\ NoFault /\ UNCHANGED sends
       \/ ~NoRetryState(row) /\ Resolve(w, "retry") /\ NoFault /\ UNCHANGED sends  \* slot not due
       \/ /\ ~Exhausted(row)
          /\ h = 0 \/ SubmittedAtHeight(k, h)
          /\ Resolve(w, "retry")
          /\ AdvanceTo(h, AdvancedKeys(h))
          /\ NoFault
       \/ /\ ~Exhausted(row)
          /\ h # 0 /\ ~SubmittedAtHeight(k, h)
          /\ AdvanceTo(h, AdvancedKeys(h))
          /\ \/ /\ workers' = [workers EXCEPT ![w].pc = "reserve", ![w].height = h]
                /\ NoFault
             \/ \E outcome \in {"retry", "failed"} :  \* no path; undecodable field
                   Resolve(w, outcome) /\ Fault
    /\ UNCHANGED <<now, chain, up, checkTxReady, ingress, queue, lastReadyRound,
                   cleanup, history>>

\* The slot that is due is the next one or, after missed ones, a later one.
SlotAfter(row, slot) ==
    LET spent == IF NoRetryState(row) THEN row.attempts ELSE 0
        next == slot + 1 + spent
    IN IF next > NumSlots THEN NumSlots ELSE next

ReservationHolds(w) ==
    LET k == workers[w].key
        row == workers[w].row
    IN /\ Received(k)
       /\ rows[k].slot = row.slot /\ rows[k].lastHeight = row.lastHeight

ReserveProofAttempt(w) ==
    LET k == workers[w].key
        row == workers[w].row
        h == workers[w].height IN
    /\ At(w, "reserve")
    /\ \/ h <= row.lastHeight /\ Resolve(w, "retry") /\ NoFault /\ UNCHANGED rows
       \/ ~ReservationHolds(w) /\ Resolve(w, "retry") /\ NoFault /\ UNCHANGED rows
       \/ Resolve(w, "retry") /\ Fault /\ UNCHANGED rows
       \/ /\ h > row.lastHeight /\ ReservationHolds(w)
          /\ \E slot \in row.slot..(NumSlots - 1) :
                /\ NoRetryState(row) => slot = 0
                /\ rows' = [rows EXCEPT ![k].slot = SlotAfter(row, slot),
                                        ![k].lastHeight = h]
          /\ Proceed(w, "prove")
          /\ NoFault
    /\ UNCHANGED <<now, chain, up, checkTxReady, ingress, schedule, inFlight,
                   retryUntil, lastReadyRound, sends, cleanup, history>>

\* GenerateShareRevealProof; an error or a panic spends a failed attempt.
ProveShare(w) ==
    /\ At(w, "prove")
    /\ \/ Proceed(w, "submit") /\ NoFault
       \/ Resolve(w, "failed") /\ Fault
    /\ UNCHANGED <<now, chain, up, checkTxReady, ingress, queue, lastReadyRound,
                   sends, cleanup, history>>

\* Mutant: acceptance by CheckTx counts as submitted.
AcceptedIsSubmitted(k) ==
    IF k \notin committed /\ RoundOf[k] \in closed THEN "failed" ELSE "submitted"

\* CheckTx judges the broadcast against committed state.  Acceptance only
\* means the mempool, so the share is polled again (see Block).
BroadcastOutcome(k) ==
    CASE k \in committed -> "submitted"
      [] k \notin committed /\ RoundOf[k] \in closed -> "failed"
      [] OTHER -> "retry"

\* A POST without a result: HTTP 400 spends an attempt; a lost or unreadable
\* answer and any other status do not.
PostErrors == {"retry", "failed"}

\* claimSubmitHeight and SubmitRevealShareContext.  A lost answer says
\* nothing about whether the transaction arrived.
SubmitShareTx(w) ==
    LET k == workers[w].key
        h == LatestBlockHeight IN
    /\ At(w, "submit")
    /\ \/ /\ h = 0 \/ SubmittedAtHeight(k, h)
          /\ Resolve(w, "retry")
          /\ AdvanceTo(h, AdvancedKeys(h))
          /\ NoFault
          /\ UNCHANGED history
       \/ /\ h # 0 /\ ~SubmittedAtHeight(k, h)
          /\ AdvanceTo(h, AdvancedKeys(h) \cup {k})
          /\ sentAt' = [sentAt EXCEPT ![k] = h]
          /\ repeated' = IF h <= sentAt[k] /\ k \notin committed
                         THEN repeated \cup {k} ELSE repeated
          /\ \/ Resolve(w, BroadcastOutcome(k)) /\ NoFault
             \/ \E outcome \in PostErrors : Resolve(w, outcome) /\ Fault
    /\ UNCHANGED <<now, chain, up, checkTxReady, ingress, queue,
                   lastReadyRound, cleanup>>

(* MarkSubmitted, MarkRetry and MarkFailed, under the store mutex.  None   *)
(* of them acts without an owner.                                          *)

RequeueAfterStoreFailure(k) ==
    /\ inFlight' = [inFlight EXCEPT ![k] = 0]
    /\ schedule' = [schedule EXCEPT ![k] = Later]
    /\ retryUntil' = Later
    /\ UNCHANGED rows

MarkSubmitted(k) ==
    /\ rows' = [rows EXCEPT ![k].state = "submitted", ![k].witness = FALSE]
    /\ inFlight' = [inFlight EXCEPT ![k] = 0]
    /\ UNCHANGED <<schedule, retryUntil>>

MarkRetry(k) ==
    /\ inFlight' = [inFlight EXCEPT ![k] = 0]
    /\ schedule' = [schedule EXCEPT ![k] = Later]
    /\ UNCHANGED <<rows, retryUntil>>

\* The witness outlives the last failure: the scrub of rows with an unknown
\* vote end (0) is left out.
MarkFailed(k) ==
    LET terminal == rows[k].attempts + 1 >= MaxAttempts IN
    /\ rows' = [rows EXCEPT ![k].attempts = @ + 1,
                            ![k].state = IF terminal THEN "failed" ELSE "received"]
    /\ inFlight' = [inFlight EXCEPT ![k] = 0]
    /\ schedule' = [schedule EXCEPT ![k] = IF terminal THEN Never ELSE Later]
    /\ UNCHANGED retryUntil

MarkOutcome(w) ==
    LET k == workers[w].key
        outcome == workers[w].outcome IN
    /\ At(w, "mark")
    /\ Proceed(w, "done")
    /\ \/ inFlight[k] = 0 /\ UNCHANGED queue /\ NoFault
       \/ inFlight[k] # 0 /\ Fault /\ RequeueAfterStoreFailure(k)
       \/ inFlight[k] # 0 /\ ~Received(k) /\ NoFault /\ RequeueAfterStoreFailure(k)
       \/ inFlight[k] # 0 /\ Received(k) /\ outcome = "submitted" /\ NoFault /\ MarkSubmitted(k)
       \/ inFlight[k] # 0 /\ Received(k) /\ outcome = "retry" /\ NoFault /\ MarkRetry(k)
       \/ inFlight[k] # 0 /\ Received(k) /\ outcome = "failed" /\ NoFault /\ MarkFailed(k)
    /\ submitKeys' = IF outcome = "submitted" THEN submitKeys \ {k} ELSE submitKeys
    /\ UNCHANGED <<now, chain, up, checkTxReady, ingress, lastReadyRound,
                   submitHeight, cleanup, history>>

\* Mutant: the fallback does not compare attempts.
FinishAnyAttempt(w) ==
    LET k == workers[w].key IN
    /\ At(w, "done")
    /\ workers' = [workers EXCEPT ![w] = Idle]
    /\ inFlight' = [inFlight EXCEPT ![k] = 0]
    /\ schedule' = IF inFlight[k] # 0 THEN [schedule EXCEPT ![k] = Later] ELSE schedule
    /\ UNCHANGED <<now, chain, up, checkTxReady, ingress, rows, retryUntil,
                   lastReadyRound, sends, cleanup, history, troubles>>

\* The deferred requeueInFlightIfOwned, then the completion the dispatcher
\* counts.
FinishAttempt(w) ==
    LET k == workers[w].key
        owned == inFlight[k] = w IN
    /\ At(w, "done")
    /\ workers' = [workers EXCEPT ![w] = Idle]
    /\ inFlight' = IF owned THEN [inFlight EXCEPT ![k] = 0] ELSE inFlight
    /\ schedule' = IF owned THEN [schedule EXCEPT ![k] = Later] ELSE schedule
    /\ UNCHANGED <<now, chain, up, checkTxReady, ingress, rows, retryUntil,
                   lastReadyRound, sends, cleanup, history, troubles>>

-----------------------------------------------------------------------------
(* Maintenance: cleanupClosedRounds runs on the dispatcher once no worker  *)
(* is active; API requests go on meanwhile.                                *)

MaintenanceTick ==
    /\ up
    /\ maintenance = "none"
    /\ maintenance' = "due"
    /\ UNCHANGED <<now, chain, up, checkTxReady, ingress, queue, lastReadyRound,
                   workers, sends, confirmed, history, troubles>>

\* The rounds here have a known vote end; a row without one never expires.
ExpiredRoundIDs == {r \in Rounds : now > VoteEnd /\ \E k \in Shares :
                                      RoundOf[k] = r /\ rows[k].state # "absent"}

\* Mutant: rounds with nothing left to report are passed over.
PurgeCandidatesPending ==
    {r \in ExpiredRoundIDs \cap closed :
        \E k \in Shares : RoundOf[k] = r /\ rows[k].state = "received"}

\* The chain must confirm closure, which takes a block since the restart.
PurgeCandidates == IF checkTxReady THEN ExpiredRoundIDs \cap closed ELSE {}

\* Rounds whose closure or commitments cannot be looked up are retained.
CleanupClosedRounds ==
    /\ up
    /\ maintenance = "due"
    /\ ActiveCount = 0
    /\ maintenance' = "purge"
    /\ \/ confirmed' = PurgeCandidates /\ NoFault
       \/ confirmed' \in SUBSET PurgeCandidates /\ confirmed' # PurgeCandidates /\ Fault
    /\ UNCHANGED <<now, chain, up, checkTxReady, ingress, queue, lastReadyRound,
                   workers, sends, history>>

PurgeRounds ==
    LET active == {RoundOf[k] : k \in {j \in Shares : inFlight[j] # 0}}
        gone == {k \in Shares : RoundOf[k] \in confirmed \ active} IN
    /\ up
    /\ maintenance = "purge"
    /\ maintenance' = "none"
    /\ confirmed' = {}
    /\ \/ /\ rows' = [k \in Shares |-> IF k \in gone THEN NoRow ELSE rows[k]]
          /\ schedule' = [k \in Shares |-> IF k \in gone THEN Never ELSE schedule[k]]
          /\ NoFault
       \/ UNCHANGED <<rows, schedule>> /\ Fault
    /\ UNCHANGED <<now, chain, up, checkTxReady, ingress, inFlight, retryUntil,
                   lastReadyRound, workers, sends, history>>

-----------------------------------------------------------------------------
(* Crash, restart, rescue import and damage.                               *)

Crash ==
    /\ up
    /\ Fault
    /\ up' = FALSE
    /\ checkTxReady' = FALSE
    /\ ingress' = {}
    /\ schedule' = [k \in Shares |-> Never]
    /\ inFlight' = [k \in Shares |-> 0]
    /\ retryUntil' = 0
    /\ lastReadyRound' = 0
    /\ workers' = [w \in Workers |-> Idle]
    /\ submitHeight' = 0
    /\ submitKeys' = {}
    /\ maintenance' = "due"
    /\ confirmed' = {}
    /\ UNCHANGED <<now, chain, rows, history>>

\* Mutant: every share is restored as due.
RecoveredAsDue == [k \in Shares |-> IF Received(k) THEN now ELSE Never]

Recovered ==
    [k \in Shares |-> IF Received(k) THEN DueTime(rows[k].submitAt) ELSE Never]

\* The scan of the Received rows reads their submit_at.  A row whose submit_at
\* does not decode ends it, and nothing opens the store until it is repaired.
RecoveryScans == \A k \in Shares : Received(k) => rows[k].corrupt # "submitAt"

Start ==
    /\ ~up
    /\ RecoveryScans
    /\ up' = TRUE
    /\ schedule' = Recovered
    /\ UNCHANGED <<now, chain, checkTxReady, ingress, rows, inFlight, retryUntil,
                   lastReadyRound, workers, sends, cleanup, history, troubles>>

\* ImportQueue of one received row of another helper's export.  It opens the store
\* itself, with its recovery, under the lock a running helper holds.
ImportQueue(k) ==
    /\ ~up
    /\ RecoveryScans
    /\ \E attempts \in 0..(MaxAttempts - 1), submitAt \in 0..(VoteEnd - 1), forceReady \in BOOLEAN :
          LET at == IF forceReady THEN 0 ELSE submitAt IN
          \/ /\ rows[k].state = "absent"
             /\ rows' = [rows EXCEPT ![k] = [InsertedRow(at) EXCEPT !.attempts = attempts]]
          \/ /\ Received(k) /\ rows[k].corrupt # "payload" /\ forceReady
             /\ rows' = [rows EXCEPT ![k].submitAt = 0]
    /\ UNCHANGED <<now, chain, up, checkTxReady, ingress, schedule, inFlight,
                   retryUntil, lastReadyRound, workers, sends, cleanup, history, troubles>>

\* A payload column, the submit_at or the state of a row no longer decodes.
\* (attempts, vote_end_time and retry_state, which other statements read,
\* and the keys stay intact here.)
CorruptRow(k) ==
    /\ Fault
    /\ rows[k].state # "absent" /\ Decodes(k)
    /\ \E column \in Damage \ {"no"} : rows' = [rows EXCEPT ![k].corrupt = column]
    /\ UNCHANGED <<now, chain, up, checkTxReady, ingress, schedule, inFlight,
                   retryUntil, lastReadyRound, workers, sends, cleanup, history>>

\* The operator restores the submit_at on which recovery failed.
RepairRow(k) ==
    /\ ~up
    /\ Received(k) /\ rows[k].corrupt = "submitAt"
    /\ \E submitAt \in 0..(VoteEnd - 1) :
          rows' = [rows EXCEPT ![k].submitAt = submitAt, ![k].corrupt = "no"]
    /\ UNCHANGED <<now, chain, up, checkTxReady, ingress, schedule, inFlight,
                   retryUntil, lastReadyRound, workers, sends, cleanup, history, troubles>>

-----------------------------------------------------------------------------
(* The clock and the chain.                                                *)

Tick ==
    /\ now < MaxTime
    /\ now' = now + 1
    /\ UNCHANGED <<chain, up, checkTxReady, ingress, queue, lastReadyRound,
                   workers, sends, cleanup, history, troubles>>

\* Wallets give their shares to several helpers, so a block may commit any
\* share of an open round, whether or not this helper's broadcast arrived.
\* The first block at or after vote_end_time closes the rounds.
Block ==
    /\ \/ height < MaxHeight
       \/ now >= VoteEnd /\ closed # Rounds
       \/ up /\ ~checkTxReady
    /\ height' = height + 1
    /\ \E revealed \in SUBSET {k \in Shares \ committed : RoundOf[k] \notin closed} :
          committed' = committed \cup revealed
    /\ closed' = IF now >= VoteEnd THEN Rounds ELSE closed
    /\ checkTxReady' = up
    /\ UNCHANGED <<now, up, ingress, queue, lastReadyRound, workers, sends,
                   cleanup, history, troubles>>

Attempt(w) ==
    \/ CheckRoundStatus(w) \/ CheckCommitted(w) \/ PrepareShare(w)
    \/ ReserveProofAttempt(w) \/ ProveShare(w) \/ SubmitShareTx(w)
    \/ MarkOutcome(w) \/ FinishAttempt(w)

Next ==
    \/ \E k \in Shares : SubmitShare(k) \/ Enqueue(k) \/ EnqueueStoreError(k)
    \/ TakeReadyBatch
    \/ \E w \in Workers : Attempt(w)
    \/ MaintenanceTick \/ CleanupClosedRounds \/ PurgeRounds
    \/ Crash \/ Start
    \/ \E k \in Shares : ImportQueue(k) \/ CorruptRow(k) \/ RepairRow(k)
    \/ Tick \/ Block

Spec == Init /\ [][Next]_vars

-----------------------------------------------------------------------------
(* Properties.                                                             *)

Owners(k) == {w \in Workers : workers[w].key = k /\ workers[w].pc \notin {"idle", "done"}}

\* A share is in one place: it has at most one live attempt, ownership in
\* memory says which, and an owned share is not on the schedule, so it cannot
\* be handed out twice; and while the process runs, every Received row is on
\* the schedule or owned, so it is never stranded, through store errors,
\* crashes, imports and repairs (takeReady, Mark*, requeueInFlightIfOwned,
\* recover).
SharesInOnePlace ==
    \A k \in Shares :
        /\ Owners(k) = (IF inFlight[k] = 0 THEN {} ELSE {inFlight[k]})
        /\ inFlight[k] # 0 => schedule[k] = Never
        /\ up /\ Received(k) => schedule[k] # Never \/ inFlight[k] # 0

HasWitness(row) == row.state # "absent" /\ row.witness

\* The witness of a share whose vote_end_time is known goes away in two ways
\* only (a row with vote_end_time 0, as old databases have, is scrubbed when it
\* fails for good, for no purge would ever reach it): it is scrubbed once the
\* share's nullifier is in committed state, for acceptance by CheckTx is not
\* enough (MarkSubmitted); or its row is purged with a round that is closed in
\* committed state, never under a worker, and neither on the wall clock's word
\* nor on a stale closure check (cleanupClosedRounds, PurgeRounds).
WitnessUntilCommitted ==
    [][\A k \in Shares :
          HasWitness(rows[k]) /\ ~HasWitness(rows'[k]) =>
              \/ rows'[k].state = "submitted" /\ k \in committed
              \/ rows'[k].state = "absent" /\ RoundOf[k] \in closed /\ Owners(k) = {}]_vars

\* A share that is not committed yet is broadcast at most once per block
\* height, also across a restart, which empties the cache of heights
\* (claimSubmitHeight and the post-restart CheckTx gate).
OncePerHeight == repeated = {}

\* No attempt starts before the share's effective submit_at, whatever
\* retries, restarts and repairs did to the schedule (Enqueue, recover).
NotBeforeSubmitAt ==
    [][\A k \in Shares :
          inFlight[k] = 0 /\ inFlight'[k] # 0 => now >= rows[k].submitAt]_vars

\* A batch is fair: of the ready shares it leaves behind, none is older than
\* one it takes from the same round; no round gets two shares more than a
\* round left waiting; and the round served last is not served while
\* another one waits in vain (takeReady).
FairDispatch ==
    [][inFlight' # inFlight /\ troubles' = troubles /\ up' =>
       LET waiting == {k \in Shares : schedule[k] # Never /\ schedule[k] <= now
                                      /\ inFlight[k] = 0 /\ Takable(k)}
           taken == {k \in Shares : inFlight[k] = 0 /\ inFlight'[k] # 0}
           of(r) == {k \in taken : RoundOf[k] = r}
       IN \A j \in waiting \ taken, k \in taken :
             /\ RoundOf[j] = RoundOf[k] => schedule[k] <= schedule[j]
             /\ Cardinality(of(RoundOf[k])) <= Cardinality(of(RoundOf[j])) + 1
             /\ of(RoundOf[j]) = {} => RoundOf[k] # lastReadyRound]_vars

\* The process is down and stays down until the operator repairs a row.
AwaitsRepair == ~up /\ ~RecoveryScans

\* Every stored share is eventually gone from the database, with whatever
\* witness it still has: maintenance drains the workers and purges the round
\* after it closed (Run, cleanupClosedRounds).  One thing can put it off: a
\* process that ended while a submit_at was damaged does not come back before
\* the operator has repaired the row, and then the purge is due again (recover).
WitnessForgotten ==
    \A k \in Shares :
        rows[k].state # "absent" ~> (rows[k].state = "absent" \/ AwaitsRepair)

=============================================================================
