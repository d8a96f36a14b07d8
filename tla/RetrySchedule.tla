--------------------------- MODULE RetrySchedule ---------------------------
(***************************************************************************)
(* When the helper proves a share and when it looks at it again: the       *)
(* arithmetic of retry_schedule.go and of the poll times in store.go, run  *)
(* by the attempts at one share.  HelperQueue has who may attempt it; this *)
(* module has the times.                                                   *)
(*                                                                         *)
(* Time is counted in ticks, Second of them to a second; every duration of *)
(* the code is a constant in ticks.  An attempt reads the clock when it    *)
(* asks whether a slot is due, when it reserves the slot and when it gives *)
(* the share back, with delays from Delays in between.                     *)
(***************************************************************************)
EXTENDS Integers, Sequences

CONSTANTS
    Second,         \* ticks of a second
    MaxDuration,    \* retryMaxDuration
    SafetyBuffer,   \* retrySafetyBuffer
    MinBuffer,      \* retryMinBuffer
    FinalJitter,    \* retryFinalJitter
    MinSpacing,     \* retryMinSpacing
    Offset1, Offset2,   \* preferred offsets of the second and third slot
    LastWindow,     \* cap of the last-minute window
    Backoff,        \* shareSystemRetryBackoff
    UrgentBackoff,  \* shareSystemRetryUrgentBackoff
    DeadlineBuffer, \* shareSystemRetryDeadlineBuffer
    StalledMax,     \* shareStalledRetryMaxBackoff
    MaxStalled,     \* shareStalledRetryMaxCount
    FailedMaxAttempts, \* shareFailedMaxAttempts, and the slots of a schedule
    Starts,         \* clock values at which a share is first attempted
    EarlierAttempts, \* attempts of imported and older rows
    VoteEnds,       \* vote_end_time of the round, created at 0
    Delays,         \* delays inside an attempt
    Horizon,        \* bound on the clock
    MaxRestarts     \* bound on restarts

ASSUME DurationsAssumption ==
    /\ Second \in Nat \ {0}
    /\ MaxDuration \in Nat \ {0}
    /\ SafetyBuffer \in Nat /\ MinBuffer \in Nat /\ MinBuffer <= SafetyBuffer
    /\ FinalJitter \in Nat
    /\ MinSpacing \in Nat \ {0}
    /\ Offset1 \in Nat /\ Offset2 \in Nat
    /\ LastWindow \in Nat /\ DeadlineBuffer \in Nat /\ UrgentBackoff \in Nat
    /\ Backoff \in Nat \ {0} /\ StalledMax \in Nat \ {0}
    /\ MaxStalled \in 1..7
    /\ Starts \subseteq Nat /\ VoteEnds \subseteq Nat \ {0}
    /\ EarlierAttempts \subseteq Nat /\ Delays \subseteq Nat

VARIABLES
    instant,    \* clock of the helper
    voteEnd,    \* vote_end_time
    retry,      \* retry_state column, NoState when empty
    attempts,   \* attempts column
    pollAt,     \* when the share is polled next
    stalled,    \* stalledRetryCount of the share
    failed,     \* the row is terminal
    proved,     \* history: proofs started
    restarts

retryVars == <<instant, voteEnd, retry, attempts, pollAt, stalled, failed, proved, restarts>>

Least(a, b) == IF a <= b THEN a ELSE b
Greatest(a, b) == IF a >= b THEN a ELSE b

-----------------------------------------------------------------------------
(* retry_schedule.go                                                       *)

\* A vote end of 0 stands for an unknown one in the code and gives the first
\* attempt only; so does it here, since nothing remains. The rounds of the model
\* have a known end.
RetryCutoff(first, end) ==
    LET remaining == end - first
        buffer == Least(SafetyBuffer, Greatest(MinBuffer, remaining \div 8))
    IN IF remaining <= MinBuffer THEN first
       ELSE Least(end - buffer, first + MaxDuration)

\* The rounds were created at 0, a known time: the fallback for a round whose
\* creation time is missing is left out.
LastMinuteWindowStart(end) ==
    end - Least(LastWindow, Greatest(Second, (end * 40) \div 100))

Jitter(t, end) ==
    Least(FinalJitter, Least((end - t) \div 8, RetryCutoff(t, end) - t))

\* Mutant: the window around the last-minute start is not clipped.
FinalWindowUnclipped(t, end) ==
    LET start == LastMinuteWindowStart(end)
        half == Jitter(t, end) \div 2
    IN IF RetryCutoff(t, end) = t THEN <<t, t>>
       ELSE IF t < start THEN <<start - half, start + half>>
       ELSE <<RetryCutoff(t, end) - Jitter(t, end), RetryCutoff(t, end)>>

\* Earliest and latest final retry of a share first attempted at t.
FinalRetryWindow(t, end) ==
    LET cutoff == RetryCutoff(t, end)
        jitter == Jitter(t, end)
        start == Least(LastMinuteWindowStart(end), cutoff)
    IN IF cutoff = t THEN <<t, t>>
       ELSE IF t < LastMinuteWindowStart(end)
       THEN <<Greatest(start - (jitter \div 2), t), Least(start + (jitter \div 2), cutoff)>>
       ELSE <<cutoff - jitter, cutoff>>

\* One preferred offset: at most half of what is left until the final slot,
\* and left out when it is too close to its neighbours.
AddSlot(slots, start, final, offset) ==
    LET previous == slots[Len(slots)]
        next == Least(start + offset, previous + ((final - previous) \div 2))
    IN IF next - previous >= MinSpacing /\ final - next >= MinSpacing
       THEN Append(slots, next) ELSE slots

AddFinal(slots, final) ==
    IF final - slots[Len(slots)] >= MinSpacing THEN Append(slots, final) ELSE slots

RetryTimes(start, final) ==
    LET s1 == AddSlot(<<start>>, start, final, Offset1)
        s2 == AddSlot(s1, start, final, Offset2)
        s3 == AddSlot(s2, start, final, MaxDuration)
    IN AddFinal(s3, final)

NoState == [first |-> -1, final |-> -1, next |-> 0, last |-> -1]

\* decodeRetryState accepts the column.
StateDecodes(s, end) ==
    \/ s = NoState
    \/ /\ s.first # -1 /\ s.first <= s.final
       /\ s.final <= RetryCutoff(s.first, end)
       /\ s.next \in 0..Len(RetryTimes(s.first, s.final))

\* Slots are numbered from 0 as in the code; the latest missed one is due.
Candidate(s, t) ==
    LET times == RetryTimes(s.first, s.final)
    IN CHOOSE i \in s.next..(Len(times) - 1) :
          /\ \A j \in (s.next + 1)..i : times[j + 1] <= t
          /\ i + 1 = Len(times) \/ times[i + 2] > t

SlotTime(s, t) ==
    LET at == RetryTimes(s.first, s.final)[Candidate(s, t) + 1]
    IN IF s.last = -1 THEN at ELSE Greatest(at, s.last + MinSpacing)

Finished(s, t, end) ==
    \/ s.next >= Len(RetryTimes(s.first, s.final))
    \/ t > RetryCutoff(s.first, end)
    \/ SlotTime(s, t) > RetryCutoff(s.first, end)

\* due returns a slot, or the time of the next one, or neither.
SlotDue(s, t, end) == ~Finished(s, t, end) /\ SlotTime(s, t) <= t
SlotAhead(s, t, end) == ~Finished(s, t, end) /\ SlotTime(s, t) > t

-----------------------------------------------------------------------------
(* The poll times of store.go                                              *)

ScheduleSecond(t) == (t \div Second) * Second

ScheduleRetryTime(t, at) ==
    IF at > t /\ ScheduleSecond(at) <= t THEN at ELSE ScheduleSecond(at)

NextSharePollTime(t, end, backoff) ==
    LET urgent == end - DeadlineBuffer
    IN IF t >= end THEN t + Backoff
       ELSE IF t < urgent THEN Least(t + backoff, urgent)
       ELSE t + Greatest(1, Least(UrgentBackoff, (end - t) \div 2))

\* 1 << n for the shifts that occur.
Shift(n) == <<1, 2, 4, 8, 16, 32, 64>>[n + 1]

\* The backoff doubled count-1 times, capped; count 0 is a retry that did not
\* wait for a block.
RetryBackoff(count) ==
    IF count = 0 THEN Backoff ELSE Least(StalledMax, Backoff * Shift(count - 1))

\* Mutant: the next slot does not shorten the sleep.
SleepPastSlot(s, t, count) ==
    ScheduleRetryTime(t, NextSharePollTime(t, voteEnd, RetryBackoff(count)))

\* markRetry: the poll time, unless a proof slot comes earlier.
PollAfter(s, t, count) ==
    LET poll == ScheduleRetryTime(t, NextSharePollTime(t, voteEnd, RetryBackoff(count)))
    IN IF s # NoState /\ StateDecodes(s, voteEnd) /\ SlotAhead(s, t, voteEnd)
       THEN Least(poll, SlotTime(s, t)) ELSE poll

-----------------------------------------------------------------------------
(* The attempts at one share                                               *)

RetryStart(first, end, earlier) ==
    /\ instant = first
    /\ voteEnd = end
    /\ retry = NoState
    /\ attempts = earlier
    /\ pollAt = ScheduleSecond(instant)
    /\ stalled = 0
    /\ failed = FALSE
    /\ proved = 0
    /\ restarts = 0

RetryInit ==
    \E first \in Starts, end \in VoteEnds, earlier \in EarlierAttempts :
        RetryStart(first, end, earlier)

Woken == IF instant < pollAt THEN pollAt ELSE instant
Runs == ~failed /\ Woken < Horizon

\* nextStalledRetryCount: one more at the same height, or 1 at a new one.
\* Other steps keep the count, or drop it when they see a new height.
StalledCounts == {1, Least(stalled + 1, MaxStalled)}
StalledAfter == {stalled, 0}

\* The attempt ends at t without having reserved a slot.
GiveBack(t, count) ==
    /\ instant' = t
    /\ pollAt' = PollAfter(retry, t, count)
    /\ UNCHANGED <<voteEnd, retry, attempts, failed, proved, restarts>>

\* No slot is due (errAwaitingRetrySlot).
AwaitSlot ==
    /\ Runs
    /\ \E d1, d3 \in Delays :
          /\ \/ retry = NoState /\ attempts >= 5
             \/ retry # NoState /\ ~SlotDue(retry, Woken + d1, voteEnd)
          /\ GiveBack(Woken + d1 + d3, 0)
          /\ stalled' \in StalledAfter

\* A lookup fails, or the share waits for a new block.
AttemptBlocked ==
    /\ Runs
    /\ \E d \in Delays :
          \/ GiveBack(Woken + d, 0) /\ stalled' \in StalledAfter
          \/ \E count \in StalledCounts :
                GiveBack(Woken + d, count) /\ stalled' = count

\* Mutant: the slot that was due stays the next one.
ReservedSame(s, t) == [s EXCEPT !.last = t, !.next = Candidate(s, t)]

\* The slots spent once the one due at t is taken; attempts made before there
\* was a schedule spend slots too.
SpentAfter(s, t) ==
    LET previous == IF retry = NoState THEN attempts ELSE 0
    IN Least(Candidate(s, t) + 1 + previous, Len(RetryTimes(s.first, s.final)))

\* The state processShare reserves at t.
Reserved(s, t) == [first |-> s.first, final |-> s.final, next |-> SpentAfter(s, t), last |-> t]

\* newRetryState draws the final attempt at random.
StatesAt(t) ==
    IF retry # NoState THEN {retry}
    ELSE LET window == FinalRetryWindow(t, voteEnd)
         IN {[NoState EXCEPT !.first = t, !.final = f] : f \in window[1]..window[2]}

\* MarkFailed of a proof or broadcast error.
FailedAt(t) ==
    /\ attempts' = attempts + 1
    /\ failed' = (attempts + 1 >= FailedMaxAttempts)
    /\ pollAt' = ScheduleSecond(t + Second * Shift(Least(attempts + 1, 6)))
    /\ stalled' \in StalledAfter

\* A slot is due at both readings, is reserved and proved; the answer is a
\* retry, a wait for the next block, a failed attempt, or never comes.
Prove ==
    /\ Runs
    /\ retry = NoState => attempts < 5
    /\ \E d1, d2, d3 \in Delays :
          LET t1 == Woken + d1
              t2 == t1 + d2
              t3 == t2 + d3 IN
          /\ retry # NoState => SlotDue(retry, t1, voteEnd)
          /\ \E s \in StatesAt(t2) :
                /\ SlotDue(s, t2, voteEnd)
                /\ retry' = Reserved(s, t2)
                /\ \/ \E count \in {0} \cup StalledCounts :
                         /\ pollAt' = PollAfter(Reserved(s, t2), t3, count)
                         /\ stalled' = count
                         /\ UNCHANGED <<attempts, failed, restarts>>
                   \/ FailedAt(t3) /\ UNCHANGED restarts
                   \/ /\ restarts < MaxRestarts
                      /\ restarts' = restarts + 1
                      /\ pollAt' = ScheduleSecond(t3)
                      /\ stalled' = 0
                      /\ UNCHANGED <<attempts, failed>>
          /\ proved' = proved + 1
          /\ instant' = t3
    /\ UNCHANGED voteEnd

RetryNext == AwaitSlot \/ AttemptBlocked \/ Prove

RetrySpec == RetryInit /\ [][RetryNext]_retryVars

-----------------------------------------------------------------------------
(* Properties                                                              *)

\* What reserveProofAttempt stores is accepted when the row is loaded again:
\* a state decodeRetryState rejects would keep the share from ever being
\* proved again.
StoredStateDecodes == StateDecodes(retry, voteEnd)

\* A share is proved at most five times, failed attempts before its schedule
\* included, however late polls are and wherever the process restarts; after
\* the first, a proof starts no later than the cutoff, which leaves
\* retryMinBuffer for proving and inclusion and is at most 48 hours after the
\* first (newRetryState, retryCutoff, due, reserveProofAttempt).
ProofsBounded ==
    /\ proved <= retry.next /\ retry.next <= 5
    /\ proved > 1 => /\ retry.last <= voteEnd - MinBuffer
                     /\ retry.last <= retry.first + MaxDuration

Spaced == proved' # proved /\ proved > 0 => retry'.last >= retry.last + MinSpacing

NoSpin == restarts' = restarts => pollAt' > instant'

NoOversleep ==
    restarts' = restarts /\ attempts' = attempts =>
        /\ \A t \in (instant' + 1)..(pollAt' - 1) :
              retry' # NoState /\ SlotDue(retry', t, voteEnd) => SlotDue(retry', instant', voteEnd)
        /\ instant' < voteEnd - DeadlineBuffer => pollAt' <= voteEnd - DeadlineBuffer

\* The polls of a share are paced: two proofs are at least retryMinSpacing
\* apart (due); a share given back is never due at once, so that polling does
\* not spin, not even after the deadline (scheduleRetryTime); and it does not
\* sleep through a proof slot or through the start of the urgent window before
\* the deadline (markRetry, nextSharePollTime).
PollsPaced == [][Spaced /\ NoSpin /\ NoOversleep]_retryVars
=============================================================================
