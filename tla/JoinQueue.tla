----------------------------- MODULE JoinQueue ------------------------------
(***************************************************************************)
(* The admin server's queue of operators that wait to become validators: a *)
(* SQLite table that survives restarts.  HTTP handlers, the hourly sweeper *)
(* and the chain interleave freely; the store's mutex makes each statement *)
(* atomic and nothing more.                                                *)
(*                                                                         *)
(* A validator record, once created, outlives the model: removing one      *)
(* takes an unbonding period.                                              *)
(***************************************************************************)
EXTENDS Integers, Sequences, FiniteSets, Functions

CONSTANTS
    Operators,      \* accounts that ask to join
    Registers,      \* invocations of POST /api/register-validator
    RequestWindow,  \* timestampWindowSecs
    PendingTTL,     \* PendingRegistrationTTL
    MaxDelay,       \* bound: ticks a register handler takes
    MaxNow,         \* bound: server time
    MaxStarts       \* bound: process starts

ASSUME JoinAssumption ==
    /\ IsFiniteSet(Operators)
    /\ PendingTTL \in Nat /\ MaxDelay \in Nat /\ MaxDelay < PendingTTL
    /\ RequestWindow \in Nat /\ MaxNow \in Nat

VARIABLES
    wall,         \* time.Now().Unix()
    serving,      \* SetAdmin has run: handlers no longer answer 503
    starts,       \* how often the process has been started
    legacy,       \* the table on disk has an older schema
    pendingRows,  \* pending_registrations: operator |-> [requested, expires]
    bonded,       \* operators with a staking validator record
    reg,          \* register handler |-> [pc, op, now]
    told,         \* operator |-> the latest expires_at it was told, or 0
    list          \* the GET /api/pending-validators handler

joinVars == <<wall, serving, starts, legacy, pendingRows, bonded, reg, told, list>>

NoRegistration == <<>>
Waiting  == [pc |-> "idle"]
Over     == [pc |-> "done"]
Distance(n) == IF n < 0 THEN -n ELSE n

-----------------------------------------------------------------------------
(* POST /api/register-validator *)

\* Required fields, timestamp and ADR-036 signature are checked before the
\* chain is asked; `stamp' is the signed timestamp.
HandleRegisterValidator(h, op, stamp) ==
    /\ serving
    /\ reg[h] = Waiting
    /\ stamp # 0
    /\ Distance(wall - stamp) <= RequestWindow
    /\ reg' = [reg EXCEPT ![h] = [pc |-> "check", op |-> op, now |-> wall]]
    /\ UNCHANGED <<wall, serving, starts, legacy, pendingRows, bonded, told, list>>

CheckValidatorExists(h) ==
    /\ reg[h].pc = "check"
    /\ reg' = [reg EXCEPT ![h].pc = IF reg[h].op \in bonded THEN "remove" ELSE "upsert"]
    /\ UNCHANGED <<wall, serving, starts, legacy, pendingRows, bonded, told, list>>

\* Both callers carry on when the delete fails.
RemovePendingRegistration(op) ==
    \/ pendingRows' = [pendingRows EXCEPT ![op] = NoRegistration]
    \/ UNCHANGED pendingRows

RegisterRemoves(h) ==
    /\ reg[h].pc = "remove"
    /\ RemovePendingRegistration(reg[h].op)
    /\ reg' = [reg EXCEPT ![h] = Over]
    /\ UNCHANGED <<wall, serving, starts, legacy, bonded, told, list>>

\* Mutant: registering again keeps the first expiry along with requested_at.
UpsertKeepingExpiry(op, at) ==
    pendingRows' = [pendingRows EXCEPT ![op] =
                IF @ = NoRegistration THEN [requested |-> at, expires |-> at + PendingTTL] ELSE @]

\* On conflict requested_at stays and expires_at is replaced.
UpsertPendingRegistration(op, at) ==
    pendingRows' = [pendingRows EXCEPT ![op] =
                [requested |-> IF @ = NoRegistration THEN at ELSE @.requested,
                 expires   |-> at + PendingTTL]]

RegisterUpserts(h) ==
    /\ reg[h].pc = "upsert"
    /\ UpsertPendingRegistration(reg[h].op, reg[h].now)
    /\ reg' = [reg EXCEPT ![h].pc = "answer"]
    /\ UNCHANGED <<wall, serving, starts, legacy, bonded, told, list>>

\* The statement fails: 500, and the queue is as it was.
RegisterFails(h) ==
    /\ reg[h].pc = "upsert"
    /\ reg' = [reg EXCEPT ![h] = Over]
    /\ UNCHANGED <<wall, serving, starts, legacy, pendingRows, bonded, told, list>>

\* {"status": "pending", "expires_at": ...}
RegisterAnswers(h) ==
    /\ reg[h].pc = "answer"
    /\ told' = [told EXCEPT ![reg[h].op] = reg[h].now + PendingTTL]
    /\ reg' = [reg EXCEPT ![h] = Over]
    /\ UNCHANGED <<wall, serving, starts, legacy, pendingRows, bonded, list>>

-----------------------------------------------------------------------------
(* GET /api/pending-validators: one query, then a look at the chain and    *)
(* perhaps a delete for each row.                                          *)

Unexpired ==
    {op \in Operators : pendingRows[op] # NoRegistration /\ pendingRows[op].expires > wall}

\* WHERE expires_at > now ORDER BY requested_at; ties come in any order.
InQueueOrder ==
    {s \in UNION {Bijection(1..n, Unexpired) : n \in 0..Cardinality(Operators)} :
        \A i, j \in DOMAIN s : i < j => pendingRows[s[i]].requested <= pendingRows[s[j]].requested}

\* `owed' and `were' remember, for the property, what the answer must show.
ListPendingRegistrations ==
    /\ serving
    /\ list = Waiting
    /\ \E regs \in InQueueOrder :
           list' = [pc |-> "filter", left |-> regs, out |-> <<>>, were |-> bonded \cap Range(regs),
                    owed |-> {op \in Operators \ bonded : wall < told[op] - MaxDelay}]
    /\ UNCHANGED <<wall, serving, starts, legacy, pendingRows, bonded, reg, told>>

FilterRow ==
    /\ list.pc = "filter"
    /\ list.left # <<>>
    /\ LET op == Head(list.left) IN
           IF op \in bonded
           THEN /\ list' = [list EXCEPT !.left = Tail(@)]
                /\ RemovePendingRegistration(op)
           ELSE /\ list' = [list EXCEPT !.left = Tail(@), !.out = Append(@, op)]
                /\ UNCHANGED pendingRows
    /\ UNCHANGED <<wall, serving, starts, legacy, bonded, reg, told>>

ListAnswers ==
    /\ list.pc = "filter"
    /\ list.left = <<>>
    /\ list' = [list EXCEPT !.pc = "answered"]
    /\ UNCHANGED <<wall, serving, starts, legacy, pendingRows, bonded, reg, told>>

ListDone ==
    /\ list.pc = "answered"
    /\ list' = Waiting
    /\ UNCHANGED <<wall, serving, starts, legacy, pendingRows, bonded, reg, told>>

\* DELETE ... WHERE expires_at <= now.
EvictExpiredPending ==
    pendingRows' =
        [op \in Operators |-> IF op \in Unexpired THEN pendingRows[op] ELSE NoRegistration]

\* The sweeper's ticker fires while the process runs; an error is logged.
RunPendingSweeper ==
    /\ serving
    /\ EvictExpiredPending
    /\ UNCHANGED <<wall, serving, starts, legacy, bonded, reg, told, list>>

-----------------------------------------------------------------------------
(* The process and the world *)

\* NewStore: migrate drops a table with a legacy schema.
StartAdmin ==
    /\ ~serving
    /\ serving' = TRUE
    /\ starts' = starts + 1
    /\ pendingRows' = IF legacy THEN [op \in Operators |-> NoRegistration] ELSE pendingRows
    /\ legacy' = FALSE
    /\ UNCHANGED <<wall, bonded, reg, told, list>>

\* Handlers die unanswered; the table stays.
StopAdmin ==
    /\ serving
    /\ starts < MaxStarts
    /\ serving' = FALSE
    /\ reg' = [h \in Registers |-> IF reg[h] = Waiting THEN Waiting ELSE Over]
    /\ list' = Waiting
    /\ UNCHANGED <<wall, starts, legacy, pendingRows, bonded, told>>

\* MsgCreateValidatorWithPallasKey is committed.
CreateValidator(op) ==
    /\ op \notin bonded
    /\ bonded' = bonded \cup {op}
    /\ UNCHANGED <<wall, serving, starts, legacy, pendingRows, reg, told, list>>

JoinTick ==
    /\ wall < MaxNow
    /\ \A h \in Registers : reg[h] \notin {Waiting, Over} => wall - reg[h].now < MaxDelay
    /\ wall' = wall + 1
    /\ UNCHANGED <<serving, starts, legacy, pendingRows, bonded, reg, told, list>>

\* A table of either schema may be on disk, with rows of an earlier process.
JoinStart(old, table) ==
    /\ wall = 1
    /\ serving = FALSE
    /\ starts = 0
    /\ legacy = old
    /\ pendingRows = table
    /\ bonded = {}
    /\ reg = [h \in Registers |-> Waiting]
    /\ told = [op \in Operators |-> 0]
    /\ list = Waiting

EarlierRows == {NoRegistration, [requested |-> 0, expires |-> PendingTTL]}

JoinInit ==
    \E old \in BOOLEAN, row \in EarlierRows : JoinStart(old, [op \in Operators |-> row])

JoinNext ==
    \/ \E h \in Registers, op \in Operators, stamp \in 0..MaxNow :
           HandleRegisterValidator(h, op, stamp)
    \/ \E h \in Registers : CheckValidatorExists(h)
    \/ \E h \in Registers : RegisterRemoves(h)
    \/ \E h \in Registers : RegisterUpserts(h)
    \/ \E h \in Registers : RegisterFails(h)
    \/ \E h \in Registers : RegisterAnswers(h)
    \/ ListPendingRegistrations
    \/ FilterRow
    \/ ListAnswers
    \/ ListDone
    \/ RunPendingSweeper
    \/ StartAdmin
    \/ StopAdmin
    \/ \E op \in Operators : CreateValidator(op)
    \/ JoinTick

JoinSpec == JoinInit /\ [][JoinNext]_joinVars

-----------------------------------------------------------------------------
(* Property *)

\* An operator that was told "pending" is on every list drawn up before the
\* expiry it was told, less the time a handler takes, unless it has become a
\* validator; and no list shows one that was a validator when it was drawn up.
\* Registering again, sweeping, listing and restarting all rewrite the table.
PendingListed ==
    list.pc = "answered" =>
        /\ list.owed \ bonded \subseteq Range(list.out)
        /\ Range(list.out) \cap list.were = {}

=============================================================================
