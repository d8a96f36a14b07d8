------------------------------ MODULE MCQueues ------------------------------
(***************************************************************************)
(* The queues kept in SQLite: the helper's dispatch of shares of several   *)
(* rounds, the retry schedule of one share, and the admin server's queue   *)
(* of operators.  They share no state, so a behaviour runs one of them,    *)
(* chosen at the start, and the others rest.                               *)
(***************************************************************************)
EXTENDS HelperQueue, RetrySchedule, JoinQueue, TLC

CONSTANTS sh1, sh2, sh3, o1, o2, h1, h2

VARIABLE part

allVars == <<part, vars, retryVars, joinVars>>

TwoRounds == [k \in Shares |-> IF k = sh3 THEN 2 ELSE 1]

\* Two shares of one round can be exchanged, for the order of equal due times
\* is an arbitrary rank; so can the operators, and the handlers of their
\* requests.
QueueSymmetry == Permutations({sh1, sh2}) \cup Permutations({o1, o2}) \cup Permutations({h1, h2})

\* No other helper reveals the shares: what is committed does not matter to
\* the order in which shares are handed out.
NothingRevealed == committed' = committed

MCInit ==
    /\ part \in {"dispatch", "retry", "join"}
    /\ Init
    /\ IF part = "retry" THEN RetryInit
       ELSE RetryStart(CHOOSE t \in Starts : TRUE, CHOOSE t \in VoteEnds : TRUE,
                       CHOOSE n \in EarlierAttempts : TRUE)
    /\ IF part = "join" THEN JoinInit
       ELSE JoinStart(FALSE, [op \in Operators |-> NoRegistration])

MCNext ==
    \/ part = "dispatch" /\ Next /\ NothingRevealed /\ UNCHANGED <<part, retryVars, joinVars>>
    \/ part = "retry" /\ RetryNext /\ UNCHANGED <<part, vars, joinVars>>
    \/ part = "join" /\ JoinNext /\ UNCHANGED <<part, vars, retryVars>>

MCSpec == MCInit /\ [][MCNext]_allVars

=============================================================================
