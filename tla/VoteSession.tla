---------------------------- MODULE VoteSession -----------------------------
(***************************************************************************)
(* What x/vote promises about voting sessions, without ceremonies, clocks  *)
(* or cryptography.  A session is set up (one at a time), either fails or  *)
(* opens; while it is open ballots are added, never removed; it closes and *)
(* is then either published, with an outcome that is a function of exactly *)
(* the ballots it took, or abandoned without one.  A finished session never*)
(* changes.  One block may advance several sessions together.              *)
(***************************************************************************)
CONSTANTS
    Rounds,        \* session ids
    Shares,        \* ballots
    NoOutcome,     \* value of a session without outcome
    OutcomeOf(_)   \* the outcome a set of ballots determines

VARIABLES
    st,            \* status of each session
    ballots,       \* ballots each session has taken
    outcome        \* published outcome, or NoOutcome

vars == <<st, ballots, outcome>>

Init ==
    /\ st = [r \in Rounds |-> "NONE"]
    /\ ballots = [r \in Rounds |-> {}]
    /\ outcome = [r \in Rounds |-> NoOutcome]

Moves(r, from, to) == st[r] = from /\ st'[r] = to

KeepsBallots(r) == ballots'[r] = ballots[r]
KeepsOutcome(r) == outcome'[r] = outcome[r]

SetUp(r) ==
    /\ Moves(r, "NONE", "PENDING")
    /\ \A q \in Rounds : st[q] # "PENDING"
    /\ KeepsBallots(r) /\ KeepsOutcome(r)

Open(r) == Moves(r, "PENDING", "ACTIVE") /\ KeepsBallots(r) /\ KeepsOutcome(r)

Fail(r) ==
    Moves(r, "PENDING", "CEREMONY_FAILED") /\ KeepsBallots(r) /\ KeepsOutcome(r)

TakeBallot(r) ==
    /\ Moves(r, "ACTIVE", "ACTIVE")
    /\ \E s \in Shares \ ballots[r] : ballots'[r] = ballots[r] \cup {s}
    /\ KeepsOutcome(r)

Close(r) == Moves(r, "ACTIVE", "TALLYING") /\ KeepsBallots(r) /\ KeepsOutcome(r)

Publish(r) ==
    /\ Moves(r, "TALLYING", "FINALIZED")
    /\ outcome'[r] = OutcomeOf(ballots[r])
    /\ KeepsBallots(r)

Abandon(r) ==
    /\ Moves(r, "TALLYING", "FINALIZED")
    /\ outcome[r] = NoOutcome
    /\ KeepsBallots(r) /\ KeepsOutcome(r)

Rests(r) == st'[r] = st[r] /\ KeepsBallots(r) /\ KeepsOutcome(r)

Next ==
    \A r \in Rounds :
        \/ SetUp(r) \/ Open(r) \/ Fail(r)
        \/ TakeBallot(r) \/ Close(r)
        \/ Publish(r) \/ Abandon(r)
        \/ Rests(r)

Spec == Init /\ [][Next]_vars

=============================================================================
