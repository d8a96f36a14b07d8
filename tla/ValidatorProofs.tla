-------------------------- MODULE ValidatorProofs --------------------------
(***************************************************************************)
(* A validator's way into the set and its turns at proposing: the queue of *)
(* the administration server (JoinQueue) and the handlers that prepare and *)
(* check proposals (ProposerNode).                                         *)
(***************************************************************************)
EXTENDS JoinQueue, ProposerNode, TLAPS

-----------------------------------------------------------------------------
(***************************************************************************)
(* JoinQueue: whoever was told to wait is listed, for every number of      *)
(* operators and requests, every expiry and every delay below it.          *)
(*                                                                         *)
(* PendingListed is not inductive: it speaks of the finished list only.    *)
(* JoinInv carries it back to the table (RowsHonourAnswers), and that back *)
(* to the handlers that have written a row and not yet answered, or are    *)
(* about to overwrite it with an older expiry.                             *)
(***************************************************************************)

Rows   == {NoRegistration} \cup [requested : Int, expires : Int]
Active == [pc : {"check", "remove", "upsert", "answer"}, op : Operators, now : Int]

JoinTypeOK ==
    /\ wall \in Nat
    /\ serving \in BOOLEAN /\ legacy \in BOOLEAN
    /\ pendingRows \in [Operators -> Rows]
    /\ bonded \subseteq Operators
    /\ reg \in [Registers -> {Waiting, Over} \cup Active]
    /\ told \in [Operators -> Int]

\* A row that expires after `t', as long as `t' has not passed.
Lasts(op, t) ==
    op \notin bonded /\ wall < t =>
        pendingRows[op] # NoRegistration /\ pendingRows[op].expires >= t

\* A handler is at most MaxDelay old, and removes only a validator's row; once
\* it has written a row, the row lasts nearly as long as it is going to say.
HandlersSound ==
    \A h \in Registers : reg[h] \in Active =>
        /\ reg[h].now <= wall /\ wall - reg[h].now <= MaxDelay
        /\ reg[h].pc = "remove" => reg[h].op \in bonded
        /\ reg[h].pc = "answer" => Lasts(reg[h].op, reg[h].now + PendingTTL - MaxDelay)

RowsHonourAnswers ==
    \A op \in Operators :
        /\ told[op] <= wall + PendingTTL
        /\ Lasts(op, told[op] - MaxDelay)

\* A table of the legacy schema is dropped before anything has been promised.
NothingPromised ==
    legacy => /\ ~serving
              /\ told = [op \in Operators |-> 0]
              /\ \A h \in Registers : reg[h] \notin Active

\* The list in the making: rows still to filter, and the answer so far.
ListSound ==
    \/ list = Waiting
    \/ /\ list \in [pc : {"filter", "answered"}, left : Seq(Operators), out : Seq(Operators),
                    were : SUBSET Operators, owed : SUBSET Operators]
       /\ list.were \subseteq bonded
       /\ Range(list.out) \cap list.were = {}
       /\ list.owed \ bonded \subseteq Range(list.out) \cup Range(list.left)
       /\ list.pc = "answered" => list.left = <<>>

JoinInv ==
    /\ JoinTypeOK
    /\ HandlersSound
    /\ RowsHonourAnswers
    /\ NothingPromised
    /\ ListSound

-----------------------------------------------------------------------------
(* Records, rows and handlers are told apart by their fields. *)

\* A row is never the empty tuple that stands for no row (store.go's table).
LEMMA RowsExist ==
    /\ NoRegistration \in Rows
    /\ \A at, t \in Int : /\ [requested |-> at, expires |-> t] \in Rows
                          /\ [requested |-> at, expires |-> t] # NoRegistration
    /\ \A row \in Rows : row # NoRegistration => row.requested \in Int /\ row.expires \in Int
BY DEF Rows, NoRegistration

\* A handler that is past its checks and not done is one of Active
\* (handleRegisterValidator).
LEMMA HandlerStates ==
    ASSUME NEW r \in {Waiting, Over} \cup Active
    PROVE  /\ r.pc \in {"check", "remove", "upsert", "answer"} => r \in Active
           /\ r \in Active => r \notin {Waiting, Over}
           /\ r \notin {Waiting, Over} => r \in Active
BY DEF Waiting, Over, Active

\* The query returns every row that has not expired (ListPendingRegistrations).
LEMMA QueryReturnsAll ==
    ASSUME NEW S \in SUBSET Operators, NEW n \in 0..Cardinality(Operators),
           NEW s \in Bijection(1..n, S)
    PROVE  s \in Seq(Operators) /\ Range(s) = S
<1>1. n \in Nat
    OBVIOUS
<1>2. s \in [1..n -> S] /\ \A x \in S : \E i \in 1..n : s[i] = x
    BY DEF Bijection, Injection, Surjection
<1>3. Range(s) = S
    BY <1>2 DEF Range
<1>4. s \in Seq(Operators)
    BY <1>1, <1>2
<1> QED BY <1>3, <1>4

\* Filtering moves a row's operator from what is left, perhaps to the answer
\* (handleGetPendingValidators).
LEMMA TailKeepsRest ==
    ASSUME NEW s \in Seq(Operators), s # <<>>
    PROVE  /\ Head(s) \in Operators /\ Tail(s) \in Seq(Operators)
           /\ Range(s) = {Head(s)} \cup Range(Tail(s))
<1> DEFINE rest == Tail(s)
<1>1. /\ Head(s) \in Operators /\ rest \in Seq(Operators) /\ Len(rest) = Len(s) - 1
      /\ \A i \in 1..Len(rest) : rest[i] = s[i + 1]
    OBVIOUS
<1>2. /\ Len(s) \in Nat \ {0} /\ Head(s) = s[1]
      /\ DOMAIN s = 1..Len(s) /\ DOMAIN rest = 1..Len(rest)
    BY <1>1
<1> HIDE DEF rest
<1>3. Range(s) \subseteq {Head(s)} \cup Range(rest)
  <2> SUFFICES ASSUME NEW i \in 1..Len(s) PROVE s[i] \in {Head(s)} \cup Range(rest)
      BY <1>2 DEF Range
  <2>1. CASE i = 1
      BY <1>2, <2>1
  <2>2. CASE i # 1
    <3>1. i - 1 \in 1..Len(rest) /\ rest[i - 1] = s[i]
        BY <1>1, <1>2, <2>2
    <3> QED BY <1>2, <3>1 DEF Range
  <2> QED BY <2>1, <2>2
<1>4. {Head(s)} \cup Range(rest) \subseteq Range(s)
  <2>1. Head(s) \in Range(s)
      BY <1>2 DEF Range
  <2>2. ASSUME NEW i \in 1..Len(rest) PROVE rest[i] \in Range(s)
    <3>1. i + 1 \in 1..Len(s) /\ rest[i] = s[i + 1]
        BY <1>1, <1>2
    <3> QED BY <1>2, <3>1 DEF Range
  <2> QED BY <1>2, <2>1, <2>2 DEF Range
<1> QED BY <1>1, <1>3, <1>4 DEF rest

\* Keeping a row adds its operator to the answer and nothing else
\* (handleGetPendingValidators).
LEMMA AppendAdds ==
    ASSUME NEW s \in Seq(Operators), NEW x \in Operators
    PROVE  Append(s, x) \in Seq(Operators) /\ Range(Append(s, x)) = Range(s) \cup {x}
<1> DEFINE more == Append(s, x)
<1>1. /\ more \in Seq(Operators) /\ Len(more) = Len(s) + 1
      /\ \A i \in 1..Len(s) : more[i] = s[i]
      /\ more[Len(s) + 1] = x
    OBVIOUS
<1>2. Len(s) \in Nat /\ DOMAIN s = 1..Len(s) /\ DOMAIN more = 1..Len(more)
    BY <1>1
<1> HIDE DEF more
<1>3. Range(more) \subseteq Range(s) \cup {x}
  <2> SUFFICES ASSUME NEW i \in 1..Len(more) PROVE more[i] \in Range(s) \cup {x}
      BY <1>2 DEF Range
  <2>1. i = Len(s) + 1 \/ i \in 1..Len(s)
      BY <1>1, <1>2
  <2> QED BY <1>1, <1>2, <2>1 DEF Range
<1>4. Range(s) \cup {x} \subseteq Range(more)
  <2>1. \A i \in 1..Len(s) : i \in 1..Len(more)
      BY <1>1, <1>2
  <2>2. Len(s) + 1 \in 1..Len(more)
      BY <1>1, <1>2
  <2> QED BY <1>1, <1>2, <2>1, <2>2 DEF Range
<1> QED BY <1>1, <1>3, <1>4 DEF more

-----------------------------------------------------------------------------
(* The invariant. *)

\* Every start of the admin server, from a table of either schema, is sound.
LEMMA JoinInitial == JoinInit => JoinInv
<1> SUFFICES ASSUME JoinInit PROVE JoinInv
    OBVIOUS
<1> USE JoinAssumption
<1>1. JoinTypeOK
  <2>1. EarlierRows \subseteq Rows
      BY DEF EarlierRows, Rows
  <2>2. PICK old \in BOOLEAN, row \in EarlierRows : JoinStart(old, [op \in Operators |-> row])
      BY Zenon DEF JoinInit
  <2>3. pendingRows \in [Operators -> Rows]
      BY <2>1, <2>2 DEF JoinStart
  <2>4. reg \in [Registers -> {Waiting, Over} \cup Active]
      BY <2>2 DEF JoinStart
  <2>5. told \in [Operators -> Int] /\ wall \in Nat
      BY <2>2 DEF JoinStart
  <2> QED BY <2>2, <2>3, <2>4, <2>5, Zenon DEF JoinStart, JoinTypeOK
<1>2. \A h \in Registers : reg[h] \notin Active
    BY DEF JoinInit, JoinStart, Waiting, Active
<1>3. RowsHonourAnswers
    BY DEF JoinInit, JoinStart, RowsHonourAnswers, Lasts
<1> QED
    BY <1>1, <1>2, <1>3 DEF JoinInit, JoinStart, JoinInv, HandlersSound, NothingPromised, ListSound

\* The list stays sound while the chain bonds validators and others write.
LEMMA ListUntouched ==
    ASSUME JoinInv, list' = list, bonded \subseteq bonded'
    PROVE  ListSound'
BY DEF JoinInv, ListSound

TableInv == JoinTypeOK /\ HandlersSound /\ RowsHonourAnswers /\ NothingPromised

\* A step of the list's handler that deletes no row leaves the rest as it is.
LEMMA TableUntouched ==
    ASSUME JoinInv, UNCHANGED <<wall, serving, legacy, pendingRows, bonded, reg, told>>
    PROVE  TableInv'
BY DEF JoinInv, TableInv, JoinTypeOK, HandlersSound, RowsHonourAnswers, NothingPromised, Lasts

\* Deleting the rows of validators breaks no promise: Lasts exempts them.
LEMMA ValidatorRowDeleted ==
    ASSUME JoinInv, NEW op \in bonded, RemovePendingRegistration(op),
           UNCHANGED <<wall, serving, legacy, bonded, reg, told>>
    PROVE  TableInv'
<1> USE DEF JoinInv
<1>1. /\ pendingRows' \in [Operators -> Rows]
      /\ \A p \in Operators \ bonded : pendingRows'[p] = pendingRows[p]
    BY RowsExist DEF RemovePendingRegistration, JoinTypeOK
<1>2. \A h \in Registers : reg[h] \in Active => reg[h].op \in Operators
    BY DEF Active
<1> QED
    BY <1>1, <1>2 DEF TableInv, JoinTypeOK, HandlersSound, RowsHonourAnswers, NothingPromised, Lasts

\* A request that passes the checks promises nothing yet
\* (handleRegisterValidator).
LEMMA CheckedKeeps ==
    ASSUME JoinInv, NEW h \in Registers, NEW op \in Operators, NEW stamp \in 0..MaxNow, HandleRegisterValidator(h, op, stamp)
    PROVE  JoinInv'
<1> USE JoinAssumption DEF JoinInv
<1>1. JoinTypeOK'
    BY HandlerStates DEF HandleRegisterValidator, JoinTypeOK, Active, Waiting, Over
<1>2. HandlersSound'
    BY <1>1, HandlerStates DEF HandleRegisterValidator, JoinTypeOK, HandlersSound, RowsHonourAnswers, NothingPromised, Lasts, Active
<1>3. RowsHonourAnswers'
    BY <1>1, HandlerStates DEF HandleRegisterValidator, JoinTypeOK, HandlersSound, RowsHonourAnswers, NothingPromised, Lasts, Active
<1>4. NothingPromised'
    BY HandlerStates DEF HandleRegisterValidator, JoinTypeOK, NothingPromised, Active, Waiting, Over
<1>5. ListSound'
    BY ListUntouched DEF HandleRegisterValidator
<1> QED BY <1>1, <1>2, <1>3, <1>4, <1>5 DEF TableInv

\* The look at the chain only chooses what the handler does next.
LEMMA LookupKeeps ==
    ASSUME JoinInv, NEW h \in Registers, CheckValidatorExists(h)
    PROVE  JoinInv'
<1> USE JoinAssumption DEF JoinInv
<1>1. JoinTypeOK'
    BY HandlerStates DEF CheckValidatorExists, JoinTypeOK, Active, Waiting, Over
<1>2. HandlersSound'
    BY <1>1, HandlerStates DEF CheckValidatorExists, JoinTypeOK, HandlersSound, RowsHonourAnswers, NothingPromised, Lasts, Active
<1>3. RowsHonourAnswers'
    BY <1>1, HandlerStates DEF CheckValidatorExists, JoinTypeOK, HandlersSound, RowsHonourAnswers, NothingPromised, Lasts, Active
<1>4. NothingPromised'
    BY HandlerStates DEF CheckValidatorExists, JoinTypeOK, NothingPromised, Active, Waiting, Over
<1>5. ListSound'
    BY ListUntouched DEF CheckValidatorExists
<1> QED BY <1>1, <1>2, <1>3, <1>4, <1>5 DEF TableInv

\* A handler removes only the row of a validator, which no answer protects.
LEMMA RemovalKeeps ==
    ASSUME JoinInv, NEW h \in Registers, RegisterRemoves(h)
    PROVE  JoinInv'
<1> USE JoinAssumption DEF JoinInv
<1>1. reg[h] \in Active /\ reg[h].op \in bonded
    BY HandlerStates DEF RegisterRemoves, JoinTypeOK, HandlersSound
<1>2. /\ pendingRows' \in [Operators -> Rows]
      /\ \A p \in Operators \ bonded : pendingRows'[p] = pendingRows[p]
    BY <1>1, RowsExist DEF RegisterRemoves, RemovePendingRegistration, JoinTypeOK
<1>3. reg' = [reg EXCEPT ![h] = Over] /\ Over \notin Active
    BY DEF RegisterRemoves, Over, Active
<1>4. TableInv'
    BY <1>2, <1>3 DEF RegisterRemoves, TableInv, JoinTypeOK, HandlersSound, RowsHonourAnswers, NothingPromised, Lasts, Active
<1>5. ListSound'
    BY ListUntouched DEF RegisterRemoves
<1> QED BY <1>4, <1>5 DEF TableInv

\* Writing the row makes it last as long as any answer given or due: the
\* handlers are less than MaxDelay apart (upsertPendingRegistration).
LEMMA UpsertKeeps ==
    ASSUME JoinInv, NEW h \in Registers, RegisterUpserts(h)
    PROVE  JoinInv'
<1> USE JoinAssumption DEF JoinInv
<1> DEFINE op == reg[h].op
           t  == reg[h].now + PendingTTL
<1>1. reg[h] \in Active /\ op \in Operators /\ t \in Int
    BY HandlerStates DEF RegisterUpserts, JoinTypeOK, Active
<1>2. PICK row \in Rows : /\ pendingRows' = [pendingRows EXCEPT ![op] = row]
                          /\ row # NoRegistration /\ row.expires = t
  <2> DEFINE at == IF pendingRows[op] = NoRegistration THEN reg[h].now
                                                       ELSE pendingRows[op].requested
  <2>1. at \in Int
      BY <1>1, RowsExist DEF JoinTypeOK, Active
  <2>2. pendingRows' = [pendingRows EXCEPT ![op] = [requested |-> at, expires |-> t]]
      BY DEF RegisterUpserts, UpsertPendingRegistration
  <2> HIDE DEF at, t
  <2>3. [requested |-> at, expires |-> t].expires = t
      OBVIOUS
  <2> QED BY <1>1, <2>1, <2>2, <2>3, RowsExist, Zenon
<1>3. t >= wall - MaxDelay + PendingTTL
    BY <1>1 DEF JoinTypeOK, HandlersSound, Active
<1>4. JoinTypeOK'
    BY <1>1, <1>2 DEF RegisterUpserts, JoinTypeOK, Active
<1>5. HandlersSound'
    BY <1>1, <1>2, <1>3, <1>4, HandlerStates DEF RegisterUpserts, JoinTypeOK, HandlersSound, Lasts, Active
<1>6. RowsHonourAnswers'
    BY <1>1, <1>2, <1>3, <1>4 DEF RegisterUpserts, JoinTypeOK, RowsHonourAnswers, Lasts
<1>7. NothingPromised'
    BY <1>1 DEF RegisterUpserts, NothingPromised
<1>8. ListSound'
    BY ListUntouched DEF RegisterUpserts
<1> QED BY <1>4, <1>5, <1>6, <1>7, <1>8 DEF TableInv

\* A failed statement leaves the table as it was.
LEMMA FailureKeeps ==
    ASSUME JoinInv, NEW h \in Registers, RegisterFails(h)
    PROVE  JoinInv'
<1> USE JoinAssumption DEF JoinInv
<1>1. JoinTypeOK'
    BY HandlerStates DEF RegisterFails, JoinTypeOK, Active, Waiting, Over
<1>2. HandlersSound'
    BY <1>1, HandlerStates DEF RegisterFails, JoinTypeOK, HandlersSound, RowsHonourAnswers, NothingPromised, Lasts, Active
<1>3. RowsHonourAnswers'
    BY <1>1, HandlerStates DEF RegisterFails, JoinTypeOK, HandlersSound, RowsHonourAnswers, NothingPromised, Lasts, Active
<1>4. NothingPromised'
    BY HandlerStates DEF RegisterFails, JoinTypeOK, NothingPromised, Active, Waiting, Over
<1>5. ListSound'
    BY ListUntouched DEF RegisterFails
<1> QED BY <1>1, <1>2, <1>3, <1>4, <1>5 DEF TableInv

\* The answer promises what the row already holds.
LEMMA AnswerKeeps ==
    ASSUME JoinInv, NEW h \in Registers, RegisterAnswers(h)
    PROVE  JoinInv'
<1> USE JoinAssumption DEF JoinInv
<1>1. JoinTypeOK'
    BY HandlerStates DEF RegisterAnswers, JoinTypeOK, Active, Waiting, Over
<1>2. HandlersSound'
    BY <1>1, HandlerStates DEF RegisterAnswers, JoinTypeOK, HandlersSound, RowsHonourAnswers, NothingPromised, Lasts, Active
<1>3. RowsHonourAnswers'
    BY <1>1, HandlerStates DEF RegisterAnswers, JoinTypeOK, HandlersSound, RowsHonourAnswers, NothingPromised, Lasts, Active
<1>4. NothingPromised'
    BY HandlerStates DEF RegisterAnswers, JoinTypeOK, NothingPromised, Active, Waiting, Over
<1>5. ListSound'
    BY ListUntouched DEF RegisterAnswers
<1> QED BY <1>1, <1>2, <1>3, <1>4, <1>5 DEF TableInv

\* The query takes up every operator that is owed a place on the list.
LEMMA QueryKeeps ==
    ASSUME JoinInv, ListPendingRegistrations
    PROVE  JoinInv'
<1> USE JoinAssumption DEF JoinInv
<1>1. TableInv'
    BY TableUntouched DEF ListPendingRegistrations
<1>2. PICK regs \in InQueueOrder :
          list' = [pc |-> "filter", left |-> regs, out |-> <<>>, were |-> bonded \cap Range(regs),
                   owed |-> {op \in Operators \ bonded : wall < told[op] - MaxDelay}]
    BY Zenon DEF ListPendingRegistrations
<1>3. regs \in Seq(Operators) /\ Range(regs) = Unexpired
  <2>1. Unexpired \in SUBSET Operators
      BY Zenon DEF Unexpired
  <2>2. PICK n \in 0..Cardinality(Operators) : regs \in Bijection(1..n, Unexpired)
      BY Zenon DEF InQueueOrder
  <2> QED BY <2>1, <2>2, QueryReturnsAll, Zenon
<1>4. \A op \in Operators \ bonded : wall < told[op] - MaxDelay => op \in Unexpired
    BY RowsExist DEF RowsHonourAnswers, Lasts, Unexpired, JoinTypeOK
<1>5. Range(<<>>) = {}
    BY DEF Range
<1>6. ListSound'
    BY <1>2, <1>3, <1>4, <1>5 DEF ListPendingRegistrations, ListSound, JoinTypeOK
<1> QED BY <1>1, <1>6 DEF TableInv

\* Filtering drops validators only (handleGetPendingValidators).
LEMMA FilterKeeps ==
    ASSUME JoinInv, FilterRow
    PROVE  JoinInv'
<1> USE JoinAssumption DEF JoinInv
<1> DEFINE op == Head(list.left)
<1>1. /\ list \in [pc : {"filter", "answered"}, left : Seq(Operators), out : Seq(Operators),
                    were : SUBSET Operators, owed : SUBSET Operators]
      /\ list.pc = "filter" /\ list.left # <<>>
      /\ list.were \subseteq bonded /\ Range(list.out) \cap list.were = {}
      /\ list.owed \ bonded \subseteq Range(list.out) \cup Range(list.left)
    BY DEF FilterRow, ListSound, Waiting
<1>2. /\ op \in Operators /\ Tail(list.left) \in Seq(Operators)
      /\ Range(list.left) = {op} \cup Range(Tail(list.left))
    BY <1>1, TailKeepsRest
<1>3. CASE op \in bonded
  <2>1. TableInv'
      BY <1>3, ValidatorRowDeleted DEF FilterRow
  <2>2. list' = [list EXCEPT !.left = Tail(list.left)] /\ bonded' = bonded
      BY <1>3 DEF FilterRow
  <2>3. ListSound'
      BY <1>1, <1>2, <1>3, <2>2, Zenon DEF ListSound
  <2> QED BY <2>1, <2>3 DEF TableInv
<1>4. CASE op \notin bonded
  <2>1. TableInv'
      BY <1>4, TableUntouched DEF FilterRow
  <2>2. /\ list' = [list EXCEPT !.left = Tail(list.left), !.out = Append(list.out, op)]
        /\ bonded' = bonded
      BY <1>4 DEF FilterRow
  <2>3. /\ Append(list.out, op) \in Seq(Operators)
        /\ Range(Append(list.out, op)) = Range(list.out) \cup {op}
      BY <1>1, <1>2, AppendAdds
  <2>4. ListSound'
      BY <1>1, <1>2, <1>4, <2>2, <2>3, Zenon DEF ListSound
  <2> QED BY <2>1, <2>4 DEF TableInv
<1> QED BY <1>3, <1>4

\* The finished list has no row left to filter.
LEMMA ListAnswerKeeps ==
    ASSUME JoinInv, ListAnswers
    PROVE  JoinInv'
<1> USE JoinAssumption DEF JoinInv
<1>1. TableInv'
    BY TableUntouched DEF ListAnswers
<1>2. ListSound'
    BY DEF ListAnswers, ListSound, Waiting
<1> QED BY <1>1, <1>2 DEF TableInv

\* The next list starts afresh.
LEMMA ListDoneKeeps ==
    ASSUME JoinInv, ListDone
    PROVE  JoinInv'
<1> USE JoinAssumption DEF JoinInv
<1>1. TableInv'
    BY TableUntouched DEF ListDone
<1>2. ListSound'
    BY DEF ListDone, ListSound, Waiting
<1> QED BY <1>1, <1>2 DEF TableInv

\* The sweeper deletes only rows that no promise covers any longer
\* (EvictExpiredPending).
LEMMA SweepKeeps ==
    ASSUME JoinInv, RunPendingSweeper
    PROVE  JoinInv'
<1> USE JoinAssumption DEF JoinInv
<1>1. /\ pendingRows' \in [Operators -> Rows]
      /\ \A op \in Operators, t \in Int :
            /\ pendingRows[op] # NoRegistration /\ pendingRows[op].expires >= t /\ wall < t
            => pendingRows'[op] = pendingRows[op]
    BY RowsExist DEF RunPendingSweeper, EvictExpiredPending, Unexpired, JoinTypeOK
<1>2. UNCHANGED <<wall, serving, legacy, bonded, reg, told, list>>
    BY DEF RunPendingSweeper
<1>3. \A h \in Registers : reg[h] \in Active => reg[h].op \in Operators /\ reg[h].now \in Int
    BY DEF Active
<1>4. \A op \in Operators, t \in Int : Lasts(op, t) => Lasts(op, t)'
    BY <1>1, <1>2 DEF Lasts
<1>5. TableInv'
    BY <1>1, <1>2, <1>3, <1>4 DEF TableInv, JoinTypeOK, HandlersSound, RowsHonourAnswers, NothingPromised
<1> QED BY <1>2, <1>5, ListUntouched DEF TableInv

\* A table is dropped only while nothing has been promised (NewStore).
LEMMA StartKeeps ==
    ASSUME JoinInv, StartAdmin
    PROVE  JoinInv'
<1> USE JoinAssumption DEF JoinInv
<1>1. pendingRows' \in [Operators -> Rows]
    BY RowsExist DEF StartAdmin, JoinTypeOK
<1>2. UNCHANGED <<wall, bonded, reg, told, list>> /\ legacy' = FALSE /\ serving' = TRUE
    BY DEF StartAdmin
<1>3. JoinTypeOK' /\ NothingPromised'
    BY <1>1, <1>2, Zenon DEF JoinTypeOK, NothingPromised
<1>4. ASSUME legacy PROVE HandlersSound' /\ RowsHonourAnswers'
    BY <1>2, <1>4 DEF JoinTypeOK, NothingPromised, HandlersSound, RowsHonourAnswers, Lasts
<1>5. ASSUME ~legacy PROVE HandlersSound' /\ RowsHonourAnswers'
  <2>1. pendingRows' = pendingRows
      BY <1>5 DEF StartAdmin
  <2> QED BY <1>2, <2>1 DEF HandlersSound, RowsHonourAnswers, Lasts
<1>6. ListSound'
    BY <1>2, ListUntouched
<1> QED BY <1>3, <1>4, <1>5, <1>6 DEF TableInv

\* A stop loses the handlers and the list, not the table.
LEMMA StopKeeps ==
    ASSUME JoinInv, StopAdmin
    PROVE  JoinInv'
<1> USE JoinAssumption DEF JoinInv
<1>1. JoinTypeOK'
    BY HandlerStates, Zenon DEF StopAdmin, JoinTypeOK, Active, Waiting, Over
<1>2. HandlersSound'
    BY <1>1, HandlerStates DEF StopAdmin, JoinTypeOK, HandlersSound, RowsHonourAnswers, NothingPromised, Lasts, Active
<1>3. RowsHonourAnswers'
    BY <1>1, HandlerStates DEF StopAdmin, JoinTypeOK, HandlersSound, RowsHonourAnswers, NothingPromised, Lasts, Active
<1>4. NothingPromised'
    BY HandlerStates DEF StopAdmin, JoinTypeOK, NothingPromised, Active, Waiting, Over
<1>5. ListSound'
    BY ListUntouched DEF StopAdmin, ListSound
<1> QED BY <1>1, <1>2, <1>3, <1>4, <1>5 DEF TableInv

\* A new validator is owed nothing (MsgCreateValidatorWithPallasKey).
LEMMA BondKeeps ==
    ASSUME JoinInv, NEW op \in Operators, CreateValidator(op)
    PROVE  JoinInv'
<1> USE JoinAssumption DEF JoinInv
<1>1. JoinTypeOK'
    BY HandlerStates DEF CreateValidator, JoinTypeOK, Active, Waiting, Over
<1>2. HandlersSound'
    BY <1>1, HandlerStates DEF CreateValidator, JoinTypeOK, HandlersSound, RowsHonourAnswers, NothingPromised, Lasts, Active
<1>3. RowsHonourAnswers'
    BY <1>1, HandlerStates, Zenon DEF CreateValidator, JoinTypeOK, HandlersSound, RowsHonourAnswers, NothingPromised, Lasts, Active
<1>4. NothingPromised'
    BY HandlerStates DEF CreateValidator, JoinTypeOK, NothingPromised, Active, Waiting, Over
<1>5. ListSound'
    BY ListUntouched DEF CreateValidator
<1> QED BY <1>1, <1>2, <1>3, <1>4, <1>5, Zenon DEF TableInv

\* A handler stays within MaxDelay while the clock runs.
LEMMA TickKeeps ==
    ASSUME JoinInv, JoinTick
    PROVE  JoinInv'
<1> USE JoinAssumption DEF JoinInv
<1>1. JoinTypeOK'
    BY HandlerStates DEF JoinTick, JoinTypeOK, Active, Waiting, Over
<1>2. HandlersSound'
    BY <1>1, HandlerStates DEF JoinTick, JoinTypeOK, HandlersSound, RowsHonourAnswers, NothingPromised, Lasts, Active
<1>3. RowsHonourAnswers'
    BY <1>1, HandlerStates DEF JoinTick, JoinTypeOK, HandlersSound, RowsHonourAnswers, NothingPromised, Lasts, Active
<1>4. NothingPromised'
    BY HandlerStates DEF JoinTick, JoinTypeOK, NothingPromised, Active, Waiting, Over
<1>5. ListSound'
    BY ListUntouched DEF JoinTick
<1> QED BY <1>1, <1>2, <1>3, <1>4, <1>5 DEF TableInv

\* Every step of a handler, the sweeper, the process or the chain keeps the
\* table good for what has been answered and for what is about to be.
LEMMA JoinStep == JoinInv /\ [JoinNext]_joinVars => JoinInv'
<1> SUFFICES ASSUME JoinInv, [JoinNext]_joinVars PROVE JoinInv'
    OBVIOUS
<1>1. ASSUME NEW h \in Registers, NEW op \in Operators, NEW stamp \in 0..MaxNow,
             HandleRegisterValidator(h, op, stamp)
      PROVE  JoinInv'
    BY <1>1, CheckedKeeps
<1>2. ASSUME NEW h \in Registers, CheckValidatorExists(h) PROVE JoinInv'
    BY <1>2, LookupKeeps
<1>3. ASSUME NEW h \in Registers, RegisterRemoves(h) PROVE JoinInv'
    BY <1>3, RemovalKeeps
<1>4. ASSUME NEW h \in Registers, RegisterUpserts(h) PROVE JoinInv'
    BY <1>4, UpsertKeeps
<1>5. ASSUME NEW h \in Registers, RegisterFails(h) PROVE JoinInv'
    BY <1>5, FailureKeeps
<1>6. ASSUME NEW h \in Registers, RegisterAnswers(h) PROVE JoinInv'
    BY <1>6, AnswerKeeps
<1>7. ASSUME NEW op \in Operators, CreateValidator(op) PROVE JoinInv'
    BY <1>7, BondKeeps
<1>8. CASE UNCHANGED joinVars
  <2>1. TableInv' /\ ListSound'
      BY <1>8, TableUntouched, ListUntouched DEF joinVars
  <2> QED BY <2>1 DEF JoinInv, TableInv
<1> QED
    BY <1>1, <1>2, <1>3, <1>4, <1>5, <1>6, <1>7, <1>8, QueryKeeps, FilterKeeps, ListAnswerKeeps,
       ListDoneKeeps, SweepKeeps, StartKeeps, StopKeeps, TickKeeps DEF JoinNext

\* An operator that was told "pending" is on every list drawn up before it
\* expires, less the time a handler takes, unless it has become a validator,
\* and no list shows one that was a validator (handleGetPendingValidators).
THEOREM WaitingAreListed == JoinSpec => []PendingListed
<1>1. JoinInv => PendingListed
  <2> SUFFICES ASSUME JoinInv PROVE PendingListed
    OBVIOUS
  <2>1. ListSound
    BY Zenon DEF JoinInv
  <2> QED BY <2>1 DEF ListSound, PendingListed, Range, Waiting
<1> QED
    BY <1>1, JoinInitial, JoinStep, PTL DEF JoinSpec

-----------------------------------------------------------------------------
(***************************************************************************)
(* ProposerNode: for any sets of validators, rounds and polynomials and    *)
(* any number of crashes, timeouts and proposals per height.               *)
(***************************************************************************)

\* rd is a record with the fields of a round.
IsRound(rd) ==
    rd = [status |-> rd.status, ceremony |-> rd.ceremony, vals |-> rd.vals,
          contribs |-> rd.contribs, threshold |-> rd.threshold, acks |-> rd.acks,
          votes |-> rd.votes, partials |-> rd.partials]

IsRounds(rs) == rs = [r \in Rounds |-> rs[r]] /\ \A r \in Rounds : IsRound(rs[r])

Shape ==
    /\ IsRounds(round)
    /\ share = [v \in Validators |-> [r \in Rounds |-> share[v][r]]]

\* Already an ack in an open proposal has its share on disk, or the same
\* exception applies to it.
OpenAcksHoldShares ==
    \A p \in proposals :
        /\ p.by \in Validators
        /\ \A r \in Rounds :
              p.ack = r /\ round[r].status \notin Ended => HoldsShare(p.by, r)

Inv == Shape /\ AckersHoldShares /\ OpenAcksHoldShares

-----------------------------------------------------------------------------
(* What a block does to the acks. *)

\* Compared with the committed rounds only p's ack is new, and no ended round
\* is open again.
Grows(rs, p) ==
    \A r \in Rounds :
        /\ \A v \in rs[r].acks : v \in round[r].acks \/ (r = p.ack /\ v = p.by)
        /\ round[r].status \in Ended => rs[r].status \in Ended

\* The round that p acks is still PENDING.
AckOpen(rs, p) == \A r \in Rounds : r = p.ack /\ r # NoRound => rs[r].status = "PENDING"

\* An ended round has no acks.
LEMMA EndedRound ==
    ASSUME NEW s
    PROVE  EndRound(s).status = s /\ EndRound(s).acks = {} /\ IsRound(EndRound(s))
BY Zenon DEF EndRound, BlankRound, IsRound

\* qs has rd for round k, and is rs elsewhere.
Rewrites(qs, rs, k, rd) ==
    IsRounds(qs) /\ \A r \in Rounds : qs[r] = IF r = k THEN rd ELSE rs[r]

\* A message that rewrites one round leaves the others.
LEMMA OneRound ==
    ASSUME NEW rs, IsRounds(rs), NEW k, NEW rd, k \in Rounds => IsRound(rd),
           NEW qs, qs = [rs EXCEPT ![k] = rd]
    PROVE  Rewrites(qs, rs, k, rd)
<1>1. rs = [r \in Rounds |-> rs[r]]
  BY DEF IsRounds
<1>2. qs = [r \in Rounds |-> IF r = k THEN rd ELSE rs[r]]
  BY <1>1
<1>3. \A r \in Rounds : qs[r] = IF r = k THEN rd ELSE rs[r]
  BY <1>2
<1>4. qs = [r \in Rounds |-> qs[r]]
  BY <1>2, <1>3, Zenon
<1>5. \A r \in Rounds : IsRound(qs[r])
  BY <1>3, Zenon DEF IsRounds
<1> QED BY <1>3, <1>4, <1>5, Zenon DEF IsRounds, Rewrites

\* SubmitTally ends a TALLYING round, which p does not ack.
LEMMA TallyGrows ==
    ASSUME NEW p, NEW rs, NEW qs, qs = SubmitTally(rs, p),
           IsRounds(rs), Grows(rs, p), AckOpen(rs, p)
    PROVE  IsRounds(qs) /\ Grows(qs, p) /\ AckOpen(qs, p)
<1>1. CASE p.tally \in Rounds /\ p.tally # NoRound /\ rs[p.tally].status = "TALLYING"
  <2>1. qs = [rs EXCEPT ![p.tally] = EndRound("FINALIZED")]
    BY <1>1 DEF SubmitTally
  <2>2. /\ EndRound("FINALIZED").status = "FINALIZED"
        /\ EndRound("FINALIZED").acks = {}
        /\ IsRound(EndRound("FINALIZED"))
    BY EndedRound
  <2>3. Rewrites(qs, rs, p.tally, EndRound("FINALIZED"))
    BY <2>1, <2>2, OneRound, Zenon
  <2>4. IsRounds(qs) /\ \A r \in Rounds : qs[r] = IF r = p.tally THEN EndRound("FINALIZED") ELSE rs[r]
    BY <2>3, Zenon DEF Rewrites
  <2> QED BY <1>1, <2>2, <2>3, <2>4 DEF Grows, AckOpen, Ended
<1>2. CASE ~(p.tally \in Rounds /\ p.tally # NoRound /\ rs[p.tally].status = "TALLYING")
  <2>1. qs = rs
    BY <1>2 DEF SubmitTally, IsRounds
  <2> QED BY <2>1
<1> QED BY <1>1, <1>2, Zenon


\* The handlers leave a round a round, and only an ack changes its acks.
LEMMA HandlersKeepShape ==
    ASSUME NEW rd, IsRound(rd), NEW v, NEW n
    PROVE  /\ IsRound(Decrypted(rd, v))
           /\ Decrypted(rd, v).acks = rd.acks
           /\ Decrypted(rd, v).status = rd.status
           /\ IsRound(Acked(rd, v)) /\ Acked(rd, v).acks = rd.acks \cup {v}
           /\ IsRound(Contributed(rd, v, n)) /\ Contributed(rd, v, n).acks = rd.acks
           /\ Contributed(rd, v, n).status = rd.status
<1>1. /\ IsRound(Decrypted(rd, v))
      /\ Decrypted(rd, v).acks = rd.acks
      /\ Decrypted(rd, v).status = rd.status
  BY DEF IsRound, Decrypted
<1>2. IsRound(Acked(rd, v)) /\ Acked(rd, v).acks = rd.acks \cup {v}
  <2>1. ASSUME NEW a, NEW c, NEW s, NEW x, x = [rd EXCEPT !.acks = a, !.ceremony = c, !.status = s]
        PROVE  IsRound(x) /\ x.acks = a
    <3>1. x = [status |-> s, ceremony |-> c, vals |-> rd.vals, contribs |-> rd.contribs,
               threshold |-> rd.threshold, acks |-> a, votes |-> rd.votes, partials |-> rd.partials]
      BY <2>1, Zenon DEF IsRound
    <3> QED BY <3>1 DEF IsRound
  <2> DEFINE all == rd.acks \cup {v} = rd.vals
             c0 == IF all THEN "CONFIRMED" ELSE rd.ceremony
             s0 == IF all THEN "ACTIVE" ELSE rd.status
             a0 == rd.acks \cup {v}
  <2>2. Acked(rd, v) = [rd EXCEPT !.acks = a0, !.ceremony = c0, !.status = s0]
    BY DEF Acked
  <2> HIDE DEF c0, s0, all
  <2> QED BY <2>1, <2>2, Zenon
<1>3. /\ IsRound(Contributed(rd, v, n)) /\ Contributed(rd, v, n).acks = rd.acks
      /\ Contributed(rd, v, n).status = rd.status
  <2> DEFINE cs0 == [rd.contribs EXCEPT ![v] = n]
             all == \A w \in rd.vals : cs0[w] # 0
             c0 == IF all THEN "DEALT" ELSE rd.ceremony
             t0 == IF all THEN ThresholdForN(Cardinality(rd.vals)) ELSE rd.threshold
  <2>1. Contributed(rd, v, n) = [rd EXCEPT !.contribs = cs0, !.ceremony = c0, !.threshold = t0]
    BY DEF Contributed
  <2> HIDE DEF cs0, c0, t0, all
  <2> DEFINE x0 == Contributed(rd, v, n)
  <2>2. IsRound(x0) /\ x0.acks = rd.acks /\ x0.status = rd.status
    <3> HIDE DEF x0
    <3>1. x0 = [rd EXCEPT !.contribs = cs0, !.ceremony = c0, !.threshold = t0]
      BY <2>1 DEF x0
    <3>2. x0 = [status |-> rd.status, ceremony |-> c0, vals |-> rd.vals, contribs |-> cs0,
                threshold |-> t0, acks |-> rd.acks, votes |-> rd.votes, partials |-> rd.partials]
      BY <3>1, Zenon DEF IsRound
    <3> QED BY <3>2 DEF IsRound
  <2> QED BY <2>2
<1> QED BY <1>1, <1>2, <1>3

\* A partial decryption changes neither acks nor status.
LEMMA DecryptGrows ==
    ASSUME NEW p, NEW rs, NEW qs, qs = SubmitPartialDecryption(rs, p),
           IsRounds(rs), Grows(rs, p), AckOpen(rs, p)
    PROVE  IsRounds(qs) /\ Grows(qs, p) /\ AckOpen(qs, p)
<1>1. CASE p.decrypt # NoRound /\ rs[p.decrypt].status = "TALLYING"
  <2> DEFINE rd == Decrypted(rs[p.decrypt], p.by)
  <2>1. p.decrypt \in Rounds =>
            IsRound(rd) /\ rd.acks = rs[p.decrypt].acks /\ rd.status = rs[p.decrypt].status
    BY HandlersKeepShape, Zenon DEF IsRounds
  <2>2. qs = [rs EXCEPT ![p.decrypt] = rd]
    BY <1>1 DEF SubmitPartialDecryption
  <2> HIDE DEF rd
  <2>3. Rewrites(qs, rs, p.decrypt, rd)
    BY <2>1, <2>2, OneRound, Zenon
  <2>4. IsRounds(qs) /\ \A r \in Rounds : qs[r] = IF r = p.decrypt THEN rd ELSE rs[r]
    BY <2>3, Zenon DEF Rewrites
  <2> QED BY <2>1, <2>3, <2>4 DEF Grows, AckOpen
<1>2. CASE ~(p.decrypt # NoRound /\ rs[p.decrypt].status = "TALLYING")
  BY <1>2 DEF SubmitPartialDecryption
<1> QED BY <1>1, <1>2

\* An ack adds its proposer to the acks of a PENDING round.
LEMMA AckGrows ==
    ASSUME NEW p, NEW rs, NEW qs, qs = AckExecutiveAuthorityKey(rs, p),
           IsRounds(rs), Grows(rs, p), AckOpen(rs, p)
    PROVE  IsRounds(qs) /\ Grows(qs, p)
<1>1. CASE p.ack # NoRound
  <2> DEFINE rd == Acked(rs[p.ack], p.by)
  <2>1. p.ack \in Rounds => IsRound(rd) /\ rd.acks = rs[p.ack].acks \cup {p.by}
    BY HandlersKeepShape, Zenon DEF IsRounds
  <2>2. qs = [rs EXCEPT ![p.ack] = rd]
    BY <1>1 DEF AckExecutiveAuthorityKey
  <2> HIDE DEF rd
  <2>3. Rewrites(qs, rs, p.ack, rd)
    BY <2>1, <2>2, OneRound, Zenon
  <2>4. IsRounds(qs) /\ \A r \in Rounds : qs[r] = IF r = p.ack THEN rd ELSE rs[r]
    BY <2>3, Zenon DEF Rewrites
  <2>5. p.ack \in Rounds => round[p.ack].status \notin Ended
    BY <1>1 DEF Grows, AckOpen, Ended
  <2> QED BY <2>1, <2>3, <2>4, <2>5 DEF Grows
<1>2. CASE p.ack = NoRound
  BY <1>2 DEF AckExecutiveAuthorityKey
<1> QED BY <1>1, <1>2, Zenon

\* A contribution changes neither acks nor status.
LEMMA ContributionGrows ==
    ASSUME NEW p, NEW rs, NEW qs, qs = ContributeDKG(rs, p), IsRounds(rs), Grows(rs, p)
    PROVE  IsRounds(qs) /\ Grows(qs, p)
<1>1. CASE p.contribute # NoRound
  <2> DEFINE rd == Contributed(rs[p.contribute], p.by, p.version)
  <2>1. p.contribute \in Rounds =>
            IsRound(rd) /\ rd.acks = rs[p.contribute].acks /\ rd.status = rs[p.contribute].status
    <3>1. p.contribute \in Rounds => IsRound(rs[p.contribute])
      BY DEF IsRounds
    <3> QED BY <3>1, HandlersKeepShape, SMTT(30)
  <2>2. qs = [rs EXCEPT ![p.contribute] = rd]
    BY <1>1 DEF ContributeDKG
  <2> HIDE DEF rd
  <2>3. Rewrites(qs, rs, p.contribute, rd)
    BY <2>1, <2>2, OneRound, Zenon
  <2>4. IsRounds(qs) /\ \A r \in Rounds : qs[r] = IF r = p.contribute THEN rd ELSE rs[r]
    BY <2>3, Zenon DEF Rewrites
  <2>5. \A r \in Rounds : qs[r].acks = rs[r].acks /\ qs[r].status = rs[r].status
    BY <2>1, <2>4, Zenon
  <2> QED BY <2>4, <2>5, Zenon DEF Grows
<1>2. CASE p.contribute = NoRound
  BY <1>2 DEF ContributeDKG
<1> QED BY <1>1, <1>2, Zenon

\* The injected messages of an accepted proposal add at most its own ack.
LEMMA ExecutedGrows ==
    ASSUME NEW p, IsRounds(round), ProcessProposal(p)
    PROVE  IsRounds(Executed(p)) /\ Grows(Executed(p), p)
<1> DEFINE r1 == SubmitTally(round, p)
           r2 == SubmitPartialDecryption(r1, p)
           r3 == AckExecutiveAuthorityKey(r2, p)
<1>1. Grows(round, p)
  BY DEF Grows
<1>2. AckOpen(round, p)
  BY DEF AckOpen, ProcessProposal, ValidAck, CeremonyAt
<1>3. IsRounds(r1) /\ Grows(r1, p) /\ AckOpen(r1, p)
  BY <1>1, <1>2, TallyGrows
<1>4. IsRounds(r2) /\ Grows(r2, p) /\ AckOpen(r2, p)
  <2> HIDE DEF r1
  <2> QED BY <1>3, DecryptGrows
<1>5. IsRounds(r3) /\ Grows(r3, p)
  <2> HIDE DEF r2
  <2> QED BY <1>4, AckGrows
<1>6. Executed(p) = ContributeDKG(r3, p)
  BY DEF Executed
<1> HIDE DEF r3
<1> QED BY <1>5, <1>6, ContributionGrows

\* Other transactions and the end of a phase add no acks to a round.
LEMMA OthersKeepShape ==
    ASSUME NEW rd, IsRound(rd), NEW s
    PROVE  /\ IsRound(WithStatus(rd, s)) /\ WithStatus(rd, s).acks = rd.acks
           /\ IsRound(Created(rd)) /\ Created(rd).acks = rd.acks
           /\ IsRound(WithVotes(rd)) /\ WithVotes(rd).acks = rd.acks
           /\ WithVotes(rd).status = rd.status
           /\ IsRound(PhaseOver(rd)) /\ PhaseOver(rd).acks \subseteq rd.acks
<1>1. \A x : IsRound(WithStatus(rd, x)) /\ WithStatus(rd, x).acks = rd.acks
  BY DEF IsRound, WithStatus
<1>2. /\ IsRound(WithVotes(rd)) /\ WithVotes(rd).acks = rd.acks
      /\ WithVotes(rd).status = rd.status
  <2>1. ASSUME NEW b, NEW x, x = [rd EXCEPT !.votes = b]
        PROVE  IsRound(x) /\ x.acks = rd.acks /\ x.status = rd.status
    BY <2>1 DEF IsRound
  <2> QED BY <2>1, Zenon DEF WithVotes
<1>3. \A x : IsRound(EndRound(x)) /\ EndRound(x).acks = {}
  BY EndedRound
<1>4. IsRound(AfterDealtTimeout(rd)) /\ AfterDealtTimeout(rd).acks \subseteq rd.acks
  <2>1. ASSUME NEW x, x = [rd EXCEPT !.vals = rd.acks, !.ceremony = "CONFIRMED", !.status = "ACTIVE"]
        PROVE  IsRound(x) /\ x.acks = rd.acks
    <3>1. x = [status |-> "ACTIVE", ceremony |-> "CONFIRMED", vals |-> rd.acks,
               contribs |-> rd.contribs, threshold |-> rd.threshold, acks |-> rd.acks,
               votes |-> rd.votes, partials |-> rd.partials]
      BY <2>1, Zenon DEF IsRound
    <3> QED BY <3>1 DEF IsRound
  <2>2. \/ AfterDealtTimeout(rd) = [rd EXCEPT !.vals = rd.acks, !.ceremony = "CONFIRMED",
                                              !.status = "ACTIVE"]
        \/ AfterDealtTimeout(rd) = EndRound("CEREMONY_FAILED")
    BY DEF AfterDealtTimeout
  <2> QED BY <1>3, <2>1, <2>2
<1>5. IsRound(PhaseOver(rd)) /\ PhaseOver(rd).acks \subseteq rd.acks
  <2>1. \/ PhaseOver(rd) = WithStatus(rd, "TALLYING")
        \/ \E x : PhaseOver(rd) = EndRound(x)
        \/ PhaseOver(rd) = AfterDealtTimeout(rd)
    BY DEF PhaseOver
  <2> QED BY <1>1, <1>3, <1>4, <2>1
<1>6. IsRound(Created(rd)) /\ Created(rd).acks = rd.acks
  <2>1. ASSUME NEW vs, NEW x, x = [rd EXCEPT !.status = "PENDING", !.vals = vs]
        PROVE  IsRound(x) /\ x.acks = rd.acks
    <3>1. x = [status |-> "PENDING", ceremony |-> rd.ceremony, vals |-> vs,
               contribs |-> rd.contribs, threshold |-> rd.threshold, acks |-> rd.acks,
               votes |-> rd.votes, partials |-> rd.partials]
      BY <2>1, Zenon DEF IsRound
    <3> QED BY <3>1 DEF IsRound
  <2> QED BY <2>1, Zenon DEF Created
<1> QED BY <1>1, <1>2, <1>5, <1>6

\* One more transaction adds no ack and opens no ended round.
LEMMA AfterTxsGrows ==
    ASSUME NEW p, NEW rs, IsRounds(rs), Grows(rs, p), NEW k \in Rounds,
           NEW qs, qs = AfterTxs(rs, k)
    PROVE  IsRounds(qs) /\ Grows(qs, p)
<1>0. IsRound(rs[k])
  BY Zenon DEF IsRounds
<1>1. CASE CreateVotingSession(rs, k)
  <2> DEFINE rd == Created(rs[k])
  <2>1. IsRound(rd) /\ rd.acks = rs[k].acks
    BY <1>0, OthersKeepShape
  <2>2. qs = [rs EXCEPT ![k] = rd]
    BY <1>1 DEF AfterTxs
  <2> HIDE DEF rd
  <2>3. Rewrites(qs, rs, k, rd)
    BY <2>1, <2>2, OneRound, Zenon
  <2>4. IsRounds(qs) /\ \A r \in Rounds : qs[r] = IF r = k THEN rd ELSE rs[r]
    BY <2>3, Zenon DEF Rewrites
  <2>5. round[k].status \notin Ended
    BY <1>1 DEF CreateVotingSession, Grows, Ended
  <2> QED BY <2>1, <2>3, <2>4, <2>5, Zenon DEF Grows
<1>2. CASE ~CreateVotingSession(rs, k) /\ RevealShare(rs, k)
  <2> DEFINE rd == WithVotes(rs[k])
  <2>1. IsRound(rd) /\ rd.acks = rs[k].acks /\ rd.status = rs[k].status
    BY <1>0, OthersKeepShape
  <2>2. qs = [rs EXCEPT ![k] = rd]
    BY <1>2 DEF AfterTxs
  <2> HIDE DEF rd
  <2>3. Rewrites(qs, rs, k, rd)
    BY <2>1, <2>2, OneRound, Zenon
  <2>4. IsRounds(qs) /\ \A r \in Rounds : qs[r] = IF r = k THEN rd ELSE rs[r]
    BY <2>3, Zenon DEF Rewrites
  <2> QED BY <2>1, <2>3, <2>4, Zenon DEF Grows
<1>3. CASE ~CreateVotingSession(rs, k) /\ ~RevealShare(rs, k)
  BY <1>3 DEF AfterTxs
<1> QED BY <1>1, <1>2, <1>3

\* So every result of the block of an accepted proposal.
LEMMA BlockGrows ==
    ASSUME NEW p, IsRounds(round), ProcessProposal(p), NEW rs \in BlockResults(p)
    PROVE  IsRounds(rs) /\ Grows(rs, p)
<1> DEFINE es == Executed(p)
<1>1. IsRounds(es) /\ Grows(es, p)
  BY ExecutedGrows
<1>2. rs = es \/ \E k \in Rounds : rs = AfterTxs(es, k)
  BY DEF BlockResults
<1> HIDE DEF es
<1> QED BY <1>1, <1>2, AfterTxsGrows

\* And so the block at whose time a phase of an open round k ends.
LEMMA PhaseGrows ==
    ASSUME NEW p, NEW rs, IsRounds(rs), Grows(rs, p), NEW k \in Rounds,
           round[k].status \notin Ended,
           NEW qs, qs = [rs EXCEPT ![k] = PhaseOver(@)]
    PROVE  IsRounds(qs) /\ Grows(qs, p)
<1> DEFINE rd == PhaseOver(rs[k])
<1>1. IsRound(rd) /\ rd.acks \subseteq rs[k].acks
  BY OthersKeepShape DEF IsRounds
<1>2. qs = [rs EXCEPT ![k] = rd]
  OBVIOUS
<1> HIDE DEF rd
<1>3. Rewrites(qs, rs, k, rd)
  BY <1>1, <1>2, OneRound, Zenon
<1>4. IsRounds(qs) /\ \A r \in Rounds : qs[r] = IF r = k THEN rd ELSE rs[r]
  BY <1>3, Zenon DEF Rewrites
<1> QED BY <1>1, <1>3, <1>4 DEF Grows

-----------------------------------------------------------------------------
(* The inductive invariant. *)

\* Nothing is acked or proposed at the start.
LEMMA InvInit == Init => Inv
<1> SUFFICES ASSUME Init PROVE Inv
  OBVIOUS
<1>1. IsRound(NewRound) /\ NewRound.acks = {}
  BY EndedRound DEF NewRound, EndRound
<1> HIDE DEF NewRound
<1>2. round = [r \in Rounds |-> NewRound]
  BY DEF Init
<1>3. IsRounds(round)
  BY <1>1, <1>2 DEF IsRounds
<1>4. Shape
  BY <1>3 DEF Shape, Init
<1>5. AckersHoldShares
  BY <1>1, <1>2 DEF AckersHoldShares
<1>6. OpenAcksHoldShares
  BY DEF OpenAcksHoldShares, Init
<1> QED BY <1>4, <1>5, <1>6 DEF Inv

\* A decided block keeps the invariant: its one new ack had its share on disk.
LEMMA DecidedKeepsInv ==
    ASSUME Inv, NEW p, Decided(p), IsRounds(round'),
           NEW rs, round' = rs, Grows(rs, p)
    PROVE  Inv'
<1>1. proposals' = {} /\ share' = share /\ cutShort' = cutShort
  BY DEF Decided, NextHeight, nodeVars
<1>2. Shape'
  BY <1>1 DEF Inv, Shape, IsRounds
<1>3. AckersHoldShares'
  <2> SUFFICES ASSUME NEW r \in Rounds, round'[r].status \notin Ended, NEW v \in round'[r].acks
               PROVE  HoldsShare(v, r)'
    BY DEF AckersHoldShares
  <2>1. round[r].status \notin Ended
    BY DEF Grows
  <2>2. v \in round[r].acks => HoldsShare(v, r)
    BY <2>1, Zenon DEF Inv, AckersHoldShares
  <2>3. r = p.ack /\ v = p.by => HoldsShare(v, r)
    BY <2>1, Zenon DEF Inv, OpenAcksHoldShares, Decided
  <2>4. HoldsShare(v, r)
    BY <2>2, <2>3 DEF Grows
  <2> QED BY <1>1, <2>4, Zenon DEF HoldsShare
<1>4. OpenAcksHoldShares'
  BY <1>1 DEF OpenAcksHoldShares
<1> QED BY <1>2, <1>3, <1>4 DEF Inv

\* PrepareProposal keeps the shares of open rounds, and writes the share before
\* it proposes the ack.
LEMMA PrepareKeepsInv ==
    ASSUME Inv, NEW v \in Validators, Prepare(v)
    PROVE  Inv'
<1> DEFINE p == Proposal(v)
<1>1. p.by = v
  BY Zenon DEF Proposal
<1> HIDE DEF p
<1>2. /\ round' = round /\ cutShort' = cutShort
      /\ proposals' = proposals \cup {p}
      /\ share' = [share EXCEPT ![v] = [r \in Rounds |->
             IF r = p.ack THEN "good"
             ELSE IF ShareObsolete(r) THEN "missing" ELSE share[v][r]]]
  BY DEF Prepare, p
<1>3. Shape'
  <2>1. IsRounds(round)'
    BY <1>2 DEF Inv, Shape, IsRounds
  <2>2. (share = [w \in Validators |-> [r \in Rounds |-> share[w][r]]])'
    <3> DEFINE f == [r \in Rounds |-> IF r = p.ack THEN "good"
                       ELSE IF ShareObsolete(r) THEN "missing" ELSE share[v][r]]
    <3>1. f = [r \in Rounds |-> f[r]]
      OBVIOUS
    <3>2. share' = [share EXCEPT ![v] = f]
      BY <1>2
    <3> HIDE DEF f
    <3>3. share = [w \in Validators |-> [r \in Rounds |-> share[w][r]]]
      BY DEF Inv, Shape
    <3> QED BY <3>1, <3>2, <3>3
  <2> QED BY <2>1, <2>2 DEF Shape
<1>4. \A r \in Rounds : share'[v][r] = IF r = p.ack THEN "good"
             ELSE IF ShareObsolete(r) THEN "missing" ELSE share[v][r]
  BY <1>2 DEF Inv, Shape
<1>5. \A w : w # v => share'[w] = share[w]
  BY <1>2 DEF Inv, Shape
<1>6. ASSUME NEW w, NEW r \in Rounds, round[r].status \notin Ended, HoldsShare(w, r)
      PROVE  HoldsShare(w, r)'
  <2>1. share'[w][r] = share[w][r] \/ share'[w][r] = "good"
    BY <1>4, <1>5, <1>6, Zenon DEF ShareObsolete
  <2> QED BY <1>2, <1>6, <2>1, Zenon DEF HoldsShare
<1>7. AckersHoldShares'
  BY <1>2, <1>6, Zenon DEF Inv, AckersHoldShares
<1>8. OpenAcksHoldShares'
  <2> SUFFICES ASSUME NEW q \in proposals'
               PROVE  /\ q.by \in Validators
                      /\ \A r \in Rounds :
                            q.ack = r /\ round[r].status \notin Ended => HoldsShare(q.by, r)'
    BY <1>2, Zenon DEF OpenAcksHoldShares
  <2>1. CASE q = p
    BY <1>1, <1>4, <2>1, Zenon DEF HoldsShare
  <2>2. CASE q \in proposals
    BY <1>6, <2>2, Zenon DEF Inv, OpenAcksHoldShares
  <2> QED BY <1>2, <2>1, <2>2, Zenon
<1> QED BY <1>3, <1>7, <1>8 DEF Inv

\* A crash tears the share file of an ack that is not committed; when that ack
\* is proposed, it is on record.
LEMMA CrashKeepsInv ==
    ASSUME Inv, NEW v \in Validators, Crash(v)
    PROVE  Inv'
<1>1. round' = round /\ proposals' = proposals
  BY DEF Crash
<1>2. IsRounds(round)'
  BY <1>1 DEF Inv, Shape, IsRounds
<1>3. CASE share' = share /\ cutShort' = cutShort
  <2>1. Shape'
    BY <1>2, <1>3 DEF Inv, Shape
  <2> QED BY <1>1, <1>3, <2>1 DEF Inv, AckersHoldShares, OpenAcksHoldShares, HoldsShare
<1>4. CASE /\ AckOf(v) # NoRound
           /\ share' = [share EXCEPT ![v][AckOf(v)] = "torn"]
           /\ cutShort' = IF AckProposed(v, AckOf(v))
                          THEN cutShort \cup {<<v, AckOf(v)>>} ELSE cutShort
  <2> DEFINE k == AckOf(v)
  <2>1. v \notin round[k].acks
    BY <1>4 DEF AckOf
  <2> HIDE DEF k
  <2>2. share' = [share EXCEPT ![v] = [share[v] EXCEPT ![k] = "torn"]]
    BY <1>4 DEF k
  <2>3. (share = [w \in Validators |-> [r \in Rounds |-> share[w][r]]])'
    BY <2>2, Zenon DEF Inv, Shape
  <2>4. \A w, r : w # v \/ r # k => share'[w][r] = share[w][r]
    BY <2>2 DEF Inv, Shape
  <2>5. k \in Rounds => share'[v][k] = "torn"
    BY <2>2 DEF Inv, Shape
  <2>6. cutShort \subseteq cutShort' /\ (AckProposed(v, k) => <<v, k>> \in cutShort')
    BY <1>4 DEF k
  <2>7. ASSUME NEW w, NEW r, w # v \/ r # k, HoldsShare(w, r)
        PROVE  HoldsShare(w, r)'
    BY <2>4, <2>6, <2>7, Zenon DEF HoldsShare
  <2>8. Shape'
    BY <1>2, <2>3 DEF Shape
  <2>9. AckersHoldShares'
    BY <1>1, <2>1, <2>7, Zenon DEF Inv, AckersHoldShares
  <2>10. OpenAcksHoldShares'
    <3> SUFFICES ASSUME NEW q \in proposals
                 PROVE  /\ q.by \in Validators
                        /\ \A r \in Rounds :
                              q.ack = r /\ round[r].status \notin Ended => HoldsShare(q.by, r)'
      BY <1>1, Zenon DEF OpenAcksHoldShares
    <3>1. CASE q.by = v /\ q.ack = k
      <4>1. AckProposed(v, k)
        BY <3>1 DEF AckProposed
      <4> QED BY <2>5, <2>6, <3>1, <4>1, Zenon DEF HoldsShare
    <3>2. CASE ~(q.by = v /\ q.ack = k)
      BY <2>7, <3>2, Zenon DEF Inv, OpenAcksHoldShares
    <3> QED BY <3>1, <3>2
  <2> QED BY <2>8, <2>9, <2>10 DEF Inv
<1> QED BY <1>3, <1>4 DEF Crash

\* Every step keeps the invariant.
LEMMA InvStep == Inv /\ [Next]_vars => Inv'
<1> SUFFICES ASSUME Inv, [Next]_vars PROVE Inv'
  OBVIOUS
<1>0. IsRounds(round)
  BY DEF Inv, Shape
<1>1. ASSUME NEW v \in Validators, Prepare(v) PROVE Inv'
  BY <1>1, PrepareKeepsInv
<1>2. ASSUME NEW v \in Validators, Crash(v) PROVE Inv'
  BY <1>2, CrashKeepsInv
<1>3. ASSUME NEW v \in Validators, Block(v) PROVE Inv'
  <2>1. PICK p \in proposals : Decided(p) /\ round' \in BlockResults(p)
    BY <1>3 DEF Block
  <2>2. IsRounds(round') /\ Grows(round', p)
    BY <1>0, <2>1, BlockGrows DEF Decided
  <2> QED BY <2>1, <2>2, DecidedKeepsInv
<1>4. ASSUME NEW k \in Rounds, VotingEnds(k) \/ PhaseTimesOut(k) PROVE Inv'
  <2>1. PICK p \in proposals :
            /\ Decided(p)
            /\ round[k].status \in {"ACTIVE", "PENDING", "TALLYING"}
            /\ \E rs \in BlockResults(p) : round' = [rs EXCEPT ![k] = PhaseOver(@)]
    <3>1. CASE VotingEnds(k)
      BY <3>1, Zenon DEF VotingEnds
    <3>2. CASE PhaseTimesOut(k)
      BY <3>2, Zenon DEF PhaseTimesOut
    <3> QED BY <1>4, <3>1, <3>2
  <2>2. PICK rs \in BlockResults(p) : round' = [rs EXCEPT ![k] = PhaseOver(@)]
    BY <2>1, Zenon
  <2>3. IsRounds(rs) /\ Grows(rs, p)
    BY <1>0, <2>1, BlockGrows DEF Decided
  <2>4. round[k].status \notin Ended
    BY <2>1 DEF Ended
  <2>5. IsRounds(round') /\ Grows(round', p)
    BY <2>2, <2>3, <2>4, PhaseGrows, Zenon
  <2> QED BY <2>1, <2>5, DecidedKeepsInv, Zenon
<1>5. CASE UNCHANGED vars
  BY <1>5 DEF Inv, Shape, IsRounds, AckersHoldShares, OpenAcksHoldShares, HoldsShare, vars, nodeVars
<1> QED BY <1>1, <1>2, <1>3, <1>4, <1>5 DEF Next

\* A committed ack has its share on disk until the round ends, for any number
\* of validators, rounds, crashes, timeouts and proposals per height, unless its
\* validator crashed in writing the file again while the ack was proposed.
THEOREM AckersAlwaysHoldShares == Spec => []AckersHoldShares
<1>1. Inv => AckersHoldShares
  BY DEF Inv
<1> QED BY InvInit, InvStep, <1>1, PTL DEF Spec
=============================================================================
