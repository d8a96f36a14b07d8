------------------------ MODULE RetryScheduleProofs ------------------------
(***************************************************************************)
(* Proofs about RetrySchedule, for every choice of the durations: a stored *)
(* schedule can be loaded again, proofs are bounded in number and in time, *)
(* and polls are paced.                                                    *)
(***************************************************************************)
EXTENDS RetrySchedule, TLAPS

-----------------------------------------------------------------------------
(* Cutoff and window.                                                      *)

\* retryCutoff is not before the first attempt; unless it allows only that
\* one, it leaves retryMinBuffer until the deadline and is within
\* retryMaxDuration.
LEMMA CutoffBounds ==
    ASSUME NEW t \in Nat, NEW end \in Nat
    PROVE  /\ RetryCutoff(t, end) \in Int /\ t <= RetryCutoff(t, end)
           /\ RetryCutoff(t, end) # t => /\ end - t > MinBuffer
                                         /\ RetryCutoff(t, end) <= end - MinBuffer
                                         /\ RetryCutoff(t, end) <= t + MaxDuration
<1> DEFINE remaining == end - t
           buffer == Least(SafetyBuffer, Greatest(MinBuffer, remaining \div 8))
<1>1. remaining \in Int /\ remaining \div 8 \in Int
  OBVIOUS
<1>2. CASE remaining <= MinBuffer
  BY <1>2 DEF RetryCutoff
<1>3. CASE ~(remaining <= MinBuffer)
  <2>1. remaining > MinBuffer /\ remaining \div 8 <= remaining
    BY <1>1, <1>3, DurationsAssumption DEF DurationsAssumption
  <2>2. buffer \in Int /\ MinBuffer <= buffer /\ buffer <= remaining
    BY <1>1, <2>1, DurationsAssumption DEF DurationsAssumption, Least, Greatest
  <2>3. RetryCutoff(t, end) = Least(end - buffer, t + MaxDuration)
    BY <1>3 DEF RetryCutoff
  <2> HIDE DEF buffer
  <2> QED BY <2>1, <2>2, <2>3, DurationsAssumption DEF DurationsAssumption, Least
<1> QED BY <1>2, <1>3

\* The final attempt that newRetryState draws is neither before the first nor
\* after the cutoff.
LEMMA WindowInside ==
    ASSUME NEW t \in Nat, NEW end \in Nat,
           NEW f \in FinalRetryWindow(t, end)[1]..FinalRetryWindow(t, end)[2]
    PROVE  f \in Int /\ t <= f /\ f <= RetryCutoff(t, end)
<1> DEFINE cutoff == RetryCutoff(t, end)
           jitter == Jitter(t, end)
           last == LastMinuteWindowStart(end)
<1>1. cutoff \in Int /\ t <= cutoff /\ (cutoff # t => end - t > MinBuffer)
  BY CutoffBounds
<1>2. last \in Int
  BY DurationsAssumption DEF DurationsAssumption, LastMinuteWindowStart, Least, Greatest
<1>3. CASE cutoff = t
  <2>1. FinalRetryWindow(t, end) = <<t, t>>
    BY <1>3 DEF FinalRetryWindow
  <2> QED BY <2>1, <1>3
<1>4. CASE cutoff # t
  <2>1. (end - t) \div 8 \in Nat
    BY <1>1, <1>4, DurationsAssumption DEF DurationsAssumption
  <2>2. jitter \in Nat /\ jitter <= cutoff - t
    BY <1>1, <2>1, DurationsAssumption DEF DurationsAssumption, Jitter, Least
  <2>3. jitter \div 2 \in Nat
    BY <2>2
  <2>4. CASE t < last
    <3> DEFINE start == Least(last, cutoff)
    <3>1. start \in Int
      BY <1>1, <1>2, Zenon DEF Least
    <3>2. FinalRetryWindow(t, end) =
            <<Greatest(start - (jitter \div 2), t), Least(start + (jitter \div 2), cutoff)>>
      BY <1>4, <2>4 DEF FinalRetryWindow
    <3> DEFINE lo == Greatest(start - (jitter \div 2), t)
               hi == Least(start + (jitter \div 2), cutoff)
    <3>3. f \in lo..hi
      BY <3>2
    <3> HIDE DEF start, jitter, cutoff
    <3>4. lo \in Int /\ t <= lo
      BY <1>1, <2>3, <3>1 DEF Greatest
    <3>5. hi \in Int /\ hi <= cutoff
      BY <1>1, <2>3, <3>1 DEF Least
    <3> HIDE DEF lo, hi
    <3> QED BY <1>1, <3>3, <3>4, <3>5 DEF cutoff
  <2>5. CASE ~(t < last)
    <3>1. FinalRetryWindow(t, end) = <<cutoff - jitter, cutoff>>
      BY <1>4, <2>5 DEF FinalRetryWindow
    <3>2. f \in (cutoff - jitter)..cutoff
      BY <3>1
    <3> HIDE DEF jitter, cutoff
    <3> QED BY <1>1, <2>2, <3>2 DEF cutoff
  <2> QED BY <2>4, <2>5
<1> QED BY <1>3, <1>4

-----------------------------------------------------------------------------
(* Slots.                                                                  *)

\* At most n slots from start to final, retryMinSpacing apart.
AreSlots(slots, start, final, n) ==
    /\ slots \in Seq(Int) /\ Len(slots) \in 1..n
    /\ slots[1] = start
    /\ \A i \in 1..Len(slots) : slots[i] <= final
    /\ \A i, j \in 1..Len(slots) : i < j => slots[i] + MinSpacing <= slots[j]

\* A slot that is far enough behind the last one extends them.
LEMMA OneMoreSlot ==
    ASSUME NEW start \in Int, NEW final \in Int, NEW n \in Nat, NEW slots,
           AreSlots(slots, start, final, n),
           NEW x \in Int, slots[Len(slots)] + MinSpacing <= x, x <= final
    PROVE  AreSlots(Append(slots, x), start, final, n + 1)
<1> DEFINE more == Append(slots, x)
           k == Len(slots)
<1>1. slots \in Seq(Int) /\ k \in 1..n
  BY DEF AreSlots
<1>2. more \in Seq(Int) /\ Len(more) = k + 1 /\ more[k + 1] = x
  BY <1>1
<1>3. \A i \in 1..k : more[i] = slots[i] /\ slots[i] \in Int
  BY <1>1
<1>4. \A i \in 1..k : slots[i] <= slots[k]
  BY <1>1, <1>3, DurationsAssumption DEF AreSlots, DurationsAssumption
<1>5. \A i \in 1..k : slots[i] + MinSpacing <= x
  BY <1>1, <1>3, <1>4, DurationsAssumption DEF DurationsAssumption
<1>6. more[1] = start
  BY <1>1, <1>3 DEF AreSlots
<1>7. \A i \in 1..(k + 1) : more[i] <= final
  BY <1>1, <1>2, <1>3 DEF AreSlots
<1>8. \A i, j \in 1..(k + 1) : i < j => more[i] + MinSpacing <= more[j]
  <2> SUFFICES ASSUME NEW i \in 1..(k + 1), NEW j \in 1..(k + 1), i < j
               PROVE  more[i] + MinSpacing <= more[j]
    OBVIOUS
  <2>1. i \in 1..k
    BY <1>1
  <2>2. CASE j = k + 1
    BY <1>2, <1>3, <1>5, <2>1, <2>2
  <2>3. CASE j \in 1..k
    BY <1>3, <2>1, <2>3 DEF AreSlots
  <2> QED BY <1>1, <2>2, <2>3
<1> HIDE DEF more
<1>9. Len(more) \in 1..(n + 1)
  BY <1>1, <1>2
<1> QED BY <1>2, <1>6, <1>7, <1>8, <1>9 DEF AreSlots, more

\* A preferred offset adds a slot or leaves the slots alone.
LEMMA OffsetKeepsSlots ==
    ASSUME NEW start \in Int, NEW final \in Int, NEW n \in Nat, NEW slots,
           AreSlots(slots, start, final, n), NEW offset \in Nat
    PROVE  AreSlots(AddSlot(slots, start, final, offset), start, final, n + 1)
<1> DEFINE previous == slots[Len(slots)]
           next == Least(start + offset, previous + ((final - previous) \div 2))
<1>1. previous \in Int
  BY DEF AreSlots
<1>2. next \in Int
  BY <1>1 DEF Least
<1>3. CASE next - previous >= MinSpacing /\ final - next >= MinSpacing
  <2>1. AddSlot(slots, start, final, offset) = Append(slots, next)
    BY <1>3 DEF AddSlot
  <2>2. previous + MinSpacing <= next /\ next <= final
    <3> HIDE DEF previous, next
    <3> QED BY <1>1, <1>2, <1>3, DurationsAssumption DEF DurationsAssumption
  <2> HIDE DEF next
  <2> QED BY <1>2, <2>1, <2>2, OneMoreSlot
<1>4. CASE ~(next - previous >= MinSpacing /\ final - next >= MinSpacing)
  <2>1. AddSlot(slots, start, final, offset) = slots
    BY <1>4 DEF AddSlot
  <2> QED BY <2>1 DEF AreSlots
<1> QED BY <1>3, <1>4

\* retryTimes: one to five slots from the first attempt to the final one.
LEMMA TimesAreSlots ==
    ASSUME NEW start \in Int, NEW final \in Int, start <= final
    PROVE  AreSlots(RetryTimes(start, final), start, final, 5)
<1> DEFINE s1 == AddSlot(<<start>>, start, final, Offset1)
           s2 == AddSlot(s1, start, final, Offset2)
           s3 == AddSlot(s2, start, final, MaxDuration)
<1>1. AreSlots(<<start>>, start, final, 1)
  BY DEF AreSlots
<1>2. AreSlots(s1, start, final, 2)
  <2>1. Offset1 \in Nat /\ 1 \in Nat /\ 1 + 1 = 2
    BY DurationsAssumption DEF DurationsAssumption
  <2> QED BY <1>1, <2>1, OffsetKeepsSlots
<1> HIDE DEF s1
<1>3. AreSlots(s2, start, final, 3)
  <2>1. Offset2 \in Nat /\ 2 \in Nat /\ 2 + 1 = 3
    BY DurationsAssumption DEF DurationsAssumption
  <2> QED BY <1>2, <2>1, OffsetKeepsSlots
<1> HIDE DEF s2
<1>4. AreSlots(s3, start, final, 4)
  <2>1. MaxDuration \in Nat /\ 3 \in Nat /\ 3 + 1 = 4
    BY DurationsAssumption DEF DurationsAssumption
  <2> QED BY <1>3, <2>1, OffsetKeepsSlots
<1> HIDE DEF s3
<1>5. RetryTimes(start, final) = AddFinal(s3, final)
  BY DEF RetryTimes, s1, s2, s3
<1>6. CASE final - s3[Len(s3)] >= MinSpacing
  <2>1. AddFinal(s3, final) = Append(s3, final)
    BY <1>6 DEF AddFinal
  <2>2. s3[Len(s3)] \in Int
    BY <1>4 DEF AreSlots
  <2>3. s3[Len(s3)] + MinSpacing <= final /\ final <= final /\ 4 \in Nat /\ 4 + 1 = 5
    BY <1>6, <2>2, DurationsAssumption DEF DurationsAssumption
  <2> QED BY <1>4, <1>5, <2>1, <2>3, OneMoreSlot
<1>7. CASE ~(final - s3[Len(s3)] >= MinSpacing)
  <2>1. AddFinal(s3, final) = s3
    BY <1>7 DEF AddFinal
  <2> QED BY <1>4, <1>5, <2>1 DEF AreSlots
<1> QED BY <1>6, <1>7

\* A share with no time between its first and its final attempt has one slot.
LEMMA OneSlot ==
    ASSUME NEW start \in Int, NEW slots, NEW n \in Nat, AreSlots(slots, start, start, n)
    PROVE  Len(slots) = 1
<1>1. slots \in Seq(Int) /\ Len(slots) \in 1..n /\ slots[1] = start
  BY DEF AreSlots
<1>2. ASSUME Len(slots) > 1 PROVE FALSE
  <2>1. 1 \in 1..Len(slots) /\ 2 \in 1..Len(slots) /\ 1 < 2
    BY <1>1, <1>2
  <2>2. slots[1] + MinSpacing <= slots[2] /\ slots[2] <= start
    BY <2>1 DEF AreSlots
  <2>3. slots[2] \in Int
    BY <1>1, <2>1
  <2> QED BY <1>1, <2>2, <2>3, DurationsAssumption DEF DurationsAssumption
<1>3. Len(slots) \in Nat /\ 1 <= Len(slots)
  BY <1>1
<1> DEFINE k == Len(slots)
<1>4. k \in Nat /\ 1 <= k /\ ~(k > 1)
  BY <1>2, <1>3, Zenon
<1> HIDE DEF k
<1>5. k = 1
  BY <1>4
<1> QED BY <1>5 DEF k

-----------------------------------------------------------------------------
(* Which slot is due.                                                      *)

\* c is the latest slot, from n on, that t has reached, or n itself.
IsCandidate(times, n, t, c) ==
    /\ c \in n..(Len(times) - 1)
    /\ \A j \in (n + 1)..c : times[j + 1] <= t
    /\ c + 1 = Len(times) \/ times[c + 2] > t

\* The loop of due ends at a slot.
LEMMA CandidateExists ==
    ASSUME NEW times \in Seq(Int), Len(times) \in 1..5, NEW t \in Int,
           NEW n \in 0..(Len(times) - 1)
    PROVE  \E c : IsCandidate(times, n, t, c)
<1> DEFINE Ends(c) == c + 1 = Len(times) \/ times[c + 2] > t
           Reached(c) == c \in n..(Len(times) - 1) /\ \A j \in (n + 1)..c : times[j + 1] <= t
<1>1. \A c : Reached(c) /\ Ends(c) => IsCandidate(times, n, t, c)
  BY DEF IsCandidate
<1>2. \A c \in Nat : Reached(c) /\ ~Ends(c) => Reached(c + 1)
  <2> SUFFICES ASSUME NEW c \in Nat, Reached(c), ~Ends(c) PROVE Reached(c + 1)
    OBVIOUS
  <2>1. c + 1 \in n..(Len(times) - 1)
    OBVIOUS
  <2>2. c + 2 \in 1..Len(times) /\ times[c + 2] \in Int /\ times[c + 2] <= t
    OBVIOUS
  <2>3. ASSUME NEW j \in (n + 1)..(c + 1) PROVE times[j + 1] <= t
    <3>1. CASE j = c + 1
      BY <2>2, <3>1
    <3>2. CASE j \in (n + 1)..c
      BY <3>2
    <3> QED BY <3>1, <3>2
  <2> QED BY <2>1, <2>3
<1>3. Reached(n)
  OBVIOUS
<1>4. ~(n + 5 \in n..(Len(times) - 1))
  <2> DEFINE k == Len(times)
  <2>1. k \in 1..5 /\ n \in 0..(k - 1)
    OBVIOUS
  <2> HIDE DEF k
  <2>2. ~(n + 5 <= k - 1)
    BY <2>1
  <2> QED BY <2>1, <2>2 DEF k
<1>5. ~Reached(n + 5)
  BY <1>4
<1>6. n \in Nat /\ n + 1 \in Nat /\ n + 2 \in Nat /\ n + 3 \in Nat /\ n + 4 \in Nat
  OBVIOUS
<1>7. (n + 1) + 1 = n + 2 /\ (n + 2) + 1 = n + 3 /\ (n + 3) + 1 = n + 4 /\ (n + 4) + 1 = n + 5
  OBVIOUS
<1> SUFFICES ASSUME \A c : ~IsCandidate(times, n, t, c) PROVE FALSE
  OBVIOUS
<1> HIDE DEF Ends, Reached
<1>8. \A c \in Nat : Reached(c) => Reached(c + 1)
  BY <1>1, <1>2
<1>9. Reached(n + 1)
  BY <1>3, <1>6, <1>8
<1>10. Reached(n + 2)
  BY <1>6, <1>7, <1>8, <1>9
<1>11. Reached(n + 3)
  BY <1>6, <1>7, <1>8, <1>10
<1>12. Reached(n + 4)
  BY <1>6, <1>7, <1>8, <1>11
<1>13. Reached(n + 5)
  BY <1>6, <1>7, <1>8, <1>12
<1> QED BY <1>5, <1>13

\* The fields of a stored schedule.
StateRecords == [first : Int, final : Int, next : Int, last : Int]

\* A schedule decodeRetryState accepts.
Scheduled(s, end) ==
    /\ s \in StateRecords
    /\ s.first \in Nat /\ s.first <= s.final /\ s.final <= RetryCutoff(s.first, end)
    /\ s.next \in 0..Len(RetryTimes(s.first, s.final))

\* It is accepted, its slots are slots, and a state with no schedule is another.
LEMMA ScheduledFacts ==
    ASSUME NEW s, NEW end \in Nat, Scheduled(s, end)
    PROVE  /\ StateDecodes(s, end) /\ s # NoState
           /\ AreSlots(RetryTimes(s.first, s.final), s.first, s.final, 5)
           /\ RetryCutoff(s.first, end) \in Int
           /\ RetryCutoff(s.first, end) = s.first => s.next <= 1
<1>1. s.first \in Nat /\ s.final \in Int /\ s.first <= s.final
  BY DEF Scheduled, StateRecords
<1>2. AreSlots(RetryTimes(s.first, s.final), s.first, s.final, 5)
  BY <1>1, TimesAreSlots
<1>3. s.first # -1 /\ s # NoState
  BY <1>1 DEF NoState
<1>4. StateDecodes(s, end)
  BY <1>3 DEF Scheduled, StateDecodes
<1>5. RetryCutoff(s.first, end) \in Int
  BY <1>1, CutoffBounds
<1>6. ASSUME RetryCutoff(s.first, end) = s.first PROVE s.next <= 1
  <2>1. s.final = s.first
    BY <1>1, <1>6 DEF Scheduled
  <2>2. Len(RetryTimes(s.first, s.final)) = 1
    BY <1>1, <1>2, <2>1, OneSlot
  <2> QED BY <2>2 DEF Scheduled
<1> QED BY <1>2, <1>3, <1>4, <1>5, <1>6

\* due finds the latest slot that has passed, among those not yet spent.
LEMMA CandidateFound ==
    ASSUME NEW s, NEW end \in Nat, Scheduled(s, end), NEW t \in Int,
           s.next < Len(RetryTimes(s.first, s.final))
    PROVE  IsCandidate(RetryTimes(s.first, s.final), s.next, t, Candidate(s, t))
<1> DEFINE times == RetryTimes(s.first, s.final)
<1>1. times \in Seq(Int) /\ Len(times) \in 1..5
  BY ScheduledFacts DEF AreSlots
<1>2. s.next \in 0..(Len(times) - 1)
  BY <1>1 DEF Scheduled
<1>3. PICK c : IsCandidate(times, s.next, t, c)
  BY <1>1, <1>2, CandidateExists, Zenon
<1>4. Candidate(s, t) = CHOOSE i \in s.next..(Len(times) - 1) :
                            /\ \A j \in (s.next + 1)..i : times[j + 1] <= t
                            /\ i + 1 = Len(times) \/ times[i + 2] > t
  BY DEF Candidate
<1> HIDE DEF times
<1> QED BY <1>3, <1>4, Zenon DEF IsCandidate, times

\* The slot due is one of the slots, at an integral time.
LEMMA SlotTimeInt ==
    ASSUME NEW s, NEW end \in Nat, Scheduled(s, end), NEW t \in Int,
           s.next < Len(RetryTimes(s.first, s.final))
    PROVE  /\ SlotTime(s, t) \in Int
           /\ s.last # -1 => s.last + MinSpacing <= SlotTime(s, t)
<1> DEFINE at == RetryTimes(s.first, s.final)[Candidate(s, t) + 1]
<1>1. Candidate(s, t) + 1 \in 1..Len(RetryTimes(s.first, s.final))
  <2>1. Candidate(s, t) \in s.next..(Len(RetryTimes(s.first, s.final)) - 1)
    BY CandidateFound, Zenon DEF IsCandidate
  <2>2. s.next \in Nat /\ Len(RetryTimes(s.first, s.final)) \in Nat
    BY ScheduledFacts DEF Scheduled, AreSlots
  <2> QED BY <2>1, <2>2
<1>2. at \in Int
  BY <1>1, ScheduledFacts DEF AreSlots
<1>3. s.last \in Int
  BY DEF Scheduled, StateRecords
<1>4. SlotTime(s, t) = IF s.last = -1 THEN at ELSE Greatest(at, s.last + MinSpacing)
  BY DEF SlotTime
<1> HIDE DEF at
<1> QED BY <1>2, <1>3, <1>4, DurationsAssumption DEF DurationsAssumption, Greatest

\* Greatest is monotone.
LEMMA GreatestRises ==
    ASSUME NEW a \in Int, NEW b \in Int, NEW m \in Int, a <= b
    PROVE  Greatest(a, m) <= Greatest(b, m)
BY DEF Greatest

\* Later polls find the same slot or a later one.
LEMMA SlotTimeRises ==
    ASSUME NEW s, NEW end \in Nat, Scheduled(s, end), NEW t \in Int, NEW u \in Int, t <= u,
           s.next < Len(RetryTimes(s.first, s.final))
    PROVE  SlotTime(s, t) <= SlotTime(s, u)
<1> DEFINE times == RetryTimes(s.first, s.final)
           c == Candidate(s, t)
           d == Candidate(s, u)
<1>1. IsCandidate(times, s.next, t, c) /\ IsCandidate(times, s.next, u, d)
  BY CandidateFound
<1>2. AreSlots(times, s.first, s.final, 5) /\ s.next \in Nat /\ s.last \in Int
  BY ScheduledFacts DEF Scheduled, StateRecords
<1>3. /\ SlotTime(s, t) = IF s.last = -1 THEN times[c + 1] ELSE Greatest(times[c + 1], s.last + MinSpacing)
      /\ SlotTime(s, u) = IF s.last = -1 THEN times[d + 1] ELSE Greatest(times[d + 1], s.last + MinSpacing)
  BY DEF SlotTime
<1> HIDE DEF times, c, d
<1>4. c \in Int /\ d \in Int /\ c + 1 \in 1..Len(times) /\ d + 1 \in 1..Len(times)
  BY <1>1, <1>2 DEF IsCandidate, AreSlots
<1>5. \A i \in 1..Len(times) : times[i] \in Int
  BY <1>2 DEF AreSlots
<1>6. c <= d
  <2> SUFFICES ASSUME d < c PROVE FALSE
    BY <1>4
  <2>1. d + 1 \in (s.next + 1)..c /\ d + 2 \in 1..Len(times) /\ d + 1 # Len(times)
    BY <1>1, <1>2, <1>4 DEF IsCandidate
  <2>2. times[d + 1 + 1] <= t /\ d + 1 + 1 = d + 2
    BY <1>1, <1>4, <2>1 DEF IsCandidate
  <2>3. times[d + 2] > u
    BY <1>1, <2>1 DEF IsCandidate
  <2> QED BY <1>5, <2>1, <2>2, <2>3
<1>7. times[c + 1] <= times[d + 1]
  <2>1. CASE c = d
    BY <1>4, <1>5, <2>1
  <2>2. CASE c < d
    <3>1. c + 1 \in 1..Len(times) /\ d + 1 \in 1..Len(times) /\ c + 1 < d + 1
      BY <1>2, <1>4, <2>2
    <3>2. times[c + 1] \in Int /\ times[d + 1] \in Int /\ MinSpacing \in Nat
      BY <1>5, <3>1, DurationsAssumption DEF DurationsAssumption
    <3>3. times[c + 1] + MinSpacing <= times[d + 1]
      BY <1>2, <3>1, Zenon DEF AreSlots
    <3> QED BY <3>2, <3>3
  <2>3. c = d \/ c < d
    BY <1>4, <1>6
  <2> QED BY <2>1, <2>2, <2>3, Zenon
<1>8. times[c + 1] \in Int /\ times[d + 1] \in Int
  BY <1>4, <1>5
<1>9. s.last + MinSpacing \in Int
  BY <1>2, DurationsAssumption DEF DurationsAssumption
<1>10. Greatest(times[c + 1], s.last + MinSpacing) <= Greatest(times[d + 1], s.last + MinSpacing)
  BY <1>7, <1>8, <1>9, GreatestRises
<1> QED BY <1>3, <1>7, <1>10, Zenon

-----------------------------------------------------------------------------
(* When to poll next.                                                      *)

\* Shifts are positive.
LEMMA ShiftPositive ==
    ASSUME NEW n \in 0..6
    PROVE  Shift(n) \in Nat \ {0}
BY DEF Shift

\* Every backoff is positive.
LEMMA BackoffPositive ==
    ASSUME NEW count \in 0..MaxStalled
    PROVE  RetryBackoff(count) \in Nat \ {0}
<1>1. CASE count = 0
  BY <1>1, DurationsAssumption DEF RetryBackoff, DurationsAssumption
<1>2. CASE count # 0
  <2>1. count - 1 \in 0..6
    BY <1>2, DurationsAssumption DEF DurationsAssumption
  <2> DEFINE m == Shift(count - 1)
  <2>2. m \in Nat \ {0}
    BY <2>1, ShiftPositive
  <2> HIDE DEF m
  <2>3. Backoff * m \in Nat \ {0}
    BY <2>2, DurationsAssumption DEF DurationsAssumption
  <2>4. RetryBackoff(count) = Least(StalledMax, Backoff * m)
    BY <1>2 DEF RetryBackoff, m
  <2> DEFINE b == Backoff * m
  <2> HIDE DEF b
  <2> QED BY <2>3, <2>4, DurationsAssumption DEF Least, DurationsAssumption, b
<1> QED BY <1>1, <1>2

\* Truncation to the second loses less than a second.
LEMMA SecondBounds ==
    ASSUME NEW x \in Int
    PROVE  ScheduleSecond(x) \in Int /\ ScheduleSecond(x) <= x /\ x < ScheduleSecond(x) + Second
BY DurationsAssumption DEF DurationsAssumption, ScheduleSecond

\* scheduleRetryTime never comes down to now.
LEMMA RetryTimeAhead ==
    ASSUME NEW t \in Int, NEW at \in Int, at > t
    PROVE  /\ ScheduleRetryTime(t, at) \in Int
           /\ ScheduleRetryTime(t, at) > t /\ ScheduleRetryTime(t, at) <= at
BY SecondBounds DEF ScheduleRetryTime

\* nextSharePollTime is ahead, and not beyond the start of the urgent window.
LEMMA PollTimeAhead ==
    ASSUME NEW t \in Nat, NEW end \in Nat, NEW b \in Nat \ {0}
    PROVE  /\ NextSharePollTime(t, end, b) \in Int /\ NextSharePollTime(t, end, b) > t
           /\ t < end - DeadlineBuffer => NextSharePollTime(t, end, b) <= end - DeadlineBuffer
<1> DEFINE urgent == end - DeadlineBuffer
<1>1. urgent \in Int /\ urgent <= end
  BY DurationsAssumption DEF DurationsAssumption
<1>2. CASE t >= end
  <2>1. NextSharePollTime(t, end, b) = t + Backoff
    BY <1>2 DEF NextSharePollTime
  <2> QED BY <1>1, <1>2, <2>1, DurationsAssumption DEF DurationsAssumption
<1>3. CASE ~(t >= end) /\ t < urgent
  <2>1. NextSharePollTime(t, end, b) = Least(t + b, urgent)
    BY <1>3 DEF NextSharePollTime
  <2> HIDE DEF urgent
  <2> QED BY <1>1, <1>3, <2>1 DEF Least, urgent
<1>4. CASE ~(t >= end) /\ ~(t < urgent)
  <2> DEFINE d == Greatest(1, Least(UrgentBackoff, (end - t) \div 2))
  <2>1. NextSharePollTime(t, end, b) = t + d
    BY <1>4 DEF NextSharePollTime
  <2>2. d \in Nat \ {0}
    BY <1>4, DurationsAssumption DEF DurationsAssumption, Greatest, Least
  <2> HIDE DEF d
  <2> QED BY <1>4, <2>1, <2>2
<1> QED BY <1>2, <1>3, <1>4

\* A share given back at t and polled at poll: no spinning, no slot and no
\* urgent window slept through.
Paced(s, end, t, poll) ==
    /\ poll \in Int /\ poll > t
    /\ t < end - DeadlineBuffer => poll <= end - DeadlineBuffer
    /\ \A u \in (t + 1)..(poll - 1) : s # NoState /\ SlotDue(s, u, end) => SlotDue(s, t, end)

\* A slot that comes due after t was ahead at t.
LEMMA DueWasAhead ==
    ASSUME NEW s, NEW end \in Nat, Scheduled(s, end), NEW t \in Nat, NEW u \in Int, t < u,
           SlotDue(s, u, end), ~SlotDue(s, t, end)
    PROVE  SlotAhead(s, t, end) /\ SlotTime(s, t) <= u
<1> DEFINE n == Len(RetryTimes(s.first, s.final))
           cutoff == RetryCutoff(s.first, end)
<1>1. n \in Nat /\ s.next \in Nat /\ cutoff \in Int
  <2>1. AreSlots(RetryTimes(s.first, s.final), s.first, s.final, 5) /\ cutoff \in Int
    BY ScheduledFacts
  <2>2. n \in Nat
    BY <2>1 DEF AreSlots
  <2> QED BY <2>1, <2>2 DEF Scheduled
<1>2. ~(s.next >= n) /\ ~(u > cutoff) /\ ~(SlotTime(s, u) > cutoff) /\ SlotTime(s, u) <= u
  BY DEF SlotDue, Finished
<1>3. s.next < n
  BY <1>1, <1>2
<1>4. SlotTime(s, t) \in Int /\ SlotTime(s, u) \in Int /\ SlotTime(s, t) <= SlotTime(s, u)
  BY <1>3, SlotTimeInt, SlotTimeRises
<1> HIDE DEF cutoff, n
<1>5. SlotTime(s, t) <= u /\ ~(t > cutoff) /\ ~(SlotTime(s, t) > cutoff)
  BY <1>1, <1>2, <1>4
<1>6. ~Finished(s, t, end)
  BY <1>2, <1>5 DEF Finished, n, cutoff
<1>7. SlotTime(s, t) > t
  BY <1>4, <1>6 DEF SlotDue
<1> QED BY <1>5, <1>6, <1>7 DEF SlotAhead

\* markRetry paces the polls.
LEMMA PollAfterPaced ==
    ASSUME NEW s, voteEnd \in Nat, s = NoState \/ Scheduled(s, voteEnd),
           NEW t \in Nat, NEW count \in 0..MaxStalled
    PROVE  Paced(s, voteEnd, t, PollAfter(s, t, count))
<1> DEFINE b == RetryBackoff(count)
           x == NextSharePollTime(t, voteEnd, b)
           poll == ScheduleRetryTime(t, x)
           after == PollAfter(s, t, count)
           urgent == voteEnd - DeadlineBuffer
<1>1. b \in Nat \ {0}
  BY BackoffPositive
<1>2. x \in Int /\ x > t /\ (t < urgent => x <= urgent)
  BY <1>1, PollTimeAhead, Zenon
<1>3. poll \in Int /\ poll > t /\ poll <= x
  BY <1>2, RetryTimeAhead
<1>4. urgent \in Int
  BY DurationsAssumption DEF DurationsAssumption
<1>5. t < urgent => poll <= urgent
  <2> HIDE DEF x, poll, urgent
  <2> QED BY <1>2, <1>3, <1>4
<1>6. CASE s # NoState /\ SlotAhead(s, t, voteEnd)
  <2>1. Scheduled(s, voteEnd) /\ StateDecodes(s, voteEnd)
    BY <1>6, ScheduledFacts
  <2>2. after = Least(poll, SlotTime(s, t))
    BY <1>6, <2>1 DEF PollAfter
  <2>3. s.next < Len(RetryTimes(s.first, s.final))
    <3>1. s.next \in Nat /\ Len(RetryTimes(s.first, s.final)) \in Nat
      BY <2>1, ScheduledFacts DEF Scheduled, AreSlots
    <3>2. ~(s.next >= Len(RetryTimes(s.first, s.final)))
      BY <1>6 DEF SlotAhead, Finished
    <3> QED BY <3>1, <3>2
  <2>4. SlotTime(s, t) \in Int /\ SlotTime(s, t) > t
    BY <1>6, <2>1, <2>3, SlotTimeInt DEF SlotAhead
  <2> HIDE DEF poll, after, urgent
  <2>5. after \in Int /\ after > t /\ after <= poll /\ after <= SlotTime(s, t)
    BY <1>3, <2>2, <2>4 DEF Least
  <2>6. t < urgent => after <= urgent
    BY <1>3, <1>4, <1>5, <2>5
  <2>7. ASSUME NEW u \in (t + 1)..(after - 1), SlotDue(s, u, voteEnd)
        PROVE  SlotDue(s, t, voteEnd)
    <3>1. u \in Int /\ t < u /\ u < after
      BY <2>5
    <3> SUFFICES ASSUME ~SlotDue(s, t, voteEnd) PROVE FALSE
      OBVIOUS
    <3>2. SlotTime(s, t) <= u
      BY <2>1, <2>7, <3>1, DueWasAhead
    <3> QED BY <2>4, <2>5, <3>1, <3>2
  <2> QED BY <2>5, <2>6, <2>7 DEF Paced, after, urgent
<1>7. CASE ~(s # NoState /\ SlotAhead(s, t, voteEnd))
  <2>1. after = poll
    BY <1>7 DEF PollAfter
  <2> HIDE DEF poll, after, urgent
  <2>2. ASSUME NEW u \in (t + 1)..(after - 1), s # NoState, SlotDue(s, u, voteEnd)
        PROVE  SlotDue(s, t, voteEnd)
    <3>1. u \in Int /\ t < u
      BY <1>3, <2>1
    <3> QED BY <1>7, <2>2, <3>1, DueWasAhead
  <2> QED BY <1>3, <1>5, <2>1, <2>2 DEF Paced, after, urgent
<1> QED BY <1>6, <1>7

-----------------------------------------------------------------------------
(* The inductive invariant.                                                *)

\* No proof was started, or what is stored is a schedule, at least as many of
\* its slots are spent as proofs were started, and the last one started before
\* the cutoff.
Progress ==
    \/ retry = NoState /\ proved = 0
    \/ /\ Scheduled(retry, voteEnd)
       /\ retry.last \in Nat /\ retry.last <= RetryCutoff(retry.first, voteEnd)
       /\ proved <= retry.next

RetryInv ==
    /\ instant \in Nat /\ voteEnd \in Nat /\ attempts \in Nat /\ pollAt \in Int
    /\ stalled \in 0..MaxStalled /\ proved \in Nat
    /\ Progress

\* What a step may do besides keeping the invariant.
PacedStep == Spaced /\ NoSpin /\ NoOversleep

\* A share that was never attempted satisfies it.
LEMMA InitRetryInv == RetryInit => RetryInv
<1> SUFFICES ASSUME NEW first \in Starts, NEW end \in VoteEnds, NEW earlier \in EarlierAttempts,
                    RetryStart(first, end, earlier)
             PROVE  RetryInv
  BY DEF RetryInit
<1>1. first \in Nat /\ end \in Nat /\ earlier \in Nat
  BY DurationsAssumption DEF DurationsAssumption
<1>2. ScheduleSecond(first) \in Int
  BY <1>1, SecondBounds
<1>3. 0 \in 0..MaxStalled
  BY DurationsAssumption DEF DurationsAssumption
<1> QED BY <1>1, <1>2, <1>3 DEF RetryStart, RetryInv, Progress

\* The clock does not go back when a poll wakes the share.
LEMMA WokenNat == RetryInv => Woken \in Nat /\ instant <= Woken
BY DEF RetryInv, Woken

\* Counts stay within their cap.
LEMMA CountsBounded ==
    RetryInv => /\ StalledCounts \subseteq 0..MaxStalled /\ StalledAfter \subseteq 0..MaxStalled
                /\ 0 \in 0..MaxStalled
BY DurationsAssumption DEF RetryInv, StalledCounts, StalledAfter, Least, DurationsAssumption

\* A share whose poll is paced makes a paced step.
LEMMA PacedPoll ==
    ASSUME Spaced, Paced(retry', voteEnd, instant', pollAt')
    PROVE  PacedStep
BY Zenon DEF PacedStep, NoSpin, NoOversleep, Paced

\* An attempt that ends without a proof (markRetry).
LEMMA GiveBackKeeps ==
    ASSUME RetryInv, NEW t \in Nat, NEW count \in 0..MaxStalled, GiveBack(t, count),
           stalled' \in 0..MaxStalled
    PROVE  RetryInv' /\ PacedStep
<1>1. retry = NoState \/ Scheduled(retry, voteEnd)
  BY DEF RetryInv, Progress
<1>2. voteEnd \in Nat
  BY DEF RetryInv
<1>3. Paced(retry, voteEnd, t, PollAfter(retry, t, count))
  BY <1>1, <1>2, PollAfterPaced
<1>4. Paced(retry', voteEnd, instant', pollAt')
  BY <1>3 DEF GiveBack
<1>5. pollAt' \in Int
  BY <1>4 DEF Paced
<1>6. Progress'
  <2>1. UNCHANGED <<retry, proved, voteEnd>>
    BY DEF GiveBack
  <2> QED BY <2>1 DEF RetryInv, Progress
<1>7. RetryInv'
  BY <1>5, <1>6 DEF RetryInv, GiveBack
<1>8. Spaced
  BY DEF GiveBack, Spaced
<1> QED BY <1>4, <1>7, <1>8, PacedPoll

\* Waiting for a slot.
LEMMA AwaitSlotKeeps == RetryInv /\ AwaitSlot => RetryInv' /\ PacedStep
<1> SUFFICES ASSUME RetryInv, AwaitSlot PROVE RetryInv' /\ PacedStep
  OBVIOUS
<1>1. PICK d1 \in Delays, d3 \in Delays :
        GiveBack(Woken + d1 + d3, 0) /\ stalled' \in StalledAfter
  BY DEF AwaitSlot
<1>2. Woken + d1 + d3 \in Nat
  BY WokenNat, DurationsAssumption DEF DurationsAssumption
<1> QED BY <1>1, <1>2, GiveBackKeeps, CountsBounded

\* Waiting for a block or for a lookup.
LEMMA AttemptBlockedKeeps == RetryInv /\ AttemptBlocked => RetryInv' /\ PacedStep
<1> SUFFICES ASSUME RetryInv, AttemptBlocked PROVE RetryInv' /\ PacedStep
  OBVIOUS
<1>1. PICK d \in Delays :
        \/ GiveBack(Woken + d, 0) /\ stalled' \in StalledAfter
        \/ \E count \in StalledCounts : GiveBack(Woken + d, count) /\ stalled' = count
  BY DEF AttemptBlocked
<1>2. Woken + d \in Nat
  BY WokenNat, DurationsAssumption DEF DurationsAssumption
<1>3. CASE GiveBack(Woken + d, 0) /\ stalled' \in StalledAfter
  BY <1>2, <1>3, GiveBackKeeps, CountsBounded
<1>4. CASE \E count \in StalledCounts : GiveBack(Woken + d, count) /\ stalled' = count
  <2>1. PICK count \in StalledCounts : GiveBack(Woken + d, count) /\ stalled' = count
    BY <1>4
  <2>2. count \in 0..MaxStalled
    BY CountsBounded
  <2> QED BY <1>2, <2>1, <2>2, GiveBackKeeps
<1> QED BY <1>1, <1>3, <1>4

\* The state an attempt works on, stored or new, is a schedule (newRetryState).
LEMMA StatesAreSchedules ==
    ASSUME RetryInv, NEW t \in Nat, NEW s \in StatesAt(t)
    PROVE  Scheduled(s, voteEnd) /\ proved <= s.next /\ (retry # NoState => s = retry)
<1>1. CASE retry # NoState
  BY <1>1 DEF StatesAt, RetryInv, Progress
<1>2. CASE retry = NoState
  <2>1. PICK f \in FinalRetryWindow(t, voteEnd)[1]..FinalRetryWindow(t, voteEnd)[2] :
          s = [NoState EXCEPT !.first = t, !.final = f]
    BY <1>2, Zenon DEF StatesAt
  <2>2. voteEnd \in Nat /\ f \in Int /\ t <= f /\ f <= RetryCutoff(t, voteEnd)
    BY WindowInside DEF RetryInv
  <2>3. s = [first |-> t, final |-> f, next |-> 0, last |-> -1]
    BY <2>1, Zenon DEF NoState
  <2>4. s \in StateRecords /\ s.first = t /\ s.final = f /\ s.next = 0
    BY <2>2, <2>3 DEF StateRecords
  <2>5. 0 \in 0..Len(RetryTimes(t, f))
    <3>1. AreSlots(RetryTimes(t, f), t, f, 5)
      BY <2>2, TimesAreSlots
    <3> QED BY <3>1 DEF AreSlots
  <2>6. proved = 0
    BY <1>2, ScheduledFacts DEF RetryInv, Progress
  <2>7. /\ s.first \in Nat /\ s.first <= s.final /\ s.final <= RetryCutoff(s.first, voteEnd)
        /\ s.next \in 0..Len(RetryTimes(s.first, s.final))
    BY <2>2, <2>4, <2>5, Zenon
  <2>8. proved <= s.next
    BY <2>4, <2>6
  <2> QED BY <1>2, <2>4, <2>7, <2>8, Zenon DEF Scheduled
<1> QED BY <1>1, <1>2

\* Reserving the slot that is due spends it and every slot before it.
LEMMA SpentBounds ==
    ASSUME RetryInv, NEW t \in Nat, NEW s, Scheduled(s, voteEnd), SlotDue(s, t, voteEnd)
    PROVE  /\ SpentAfter(s, t) \in 0..Len(RetryTimes(s.first, s.final))
           /\ s.next + 1 <= SpentAfter(s, t) /\ SpentAfter(s, t) \in Int
           /\ t <= RetryCutoff(s.first, voteEnd)
<1> DEFINE n == Len(RetryTimes(s.first, s.final))
           c == Candidate(s, t)
           previous == IF retry = NoState THEN attempts ELSE 0
           k == c + 1 + previous
           cutoff == RetryCutoff(s.first, voteEnd)
<1>1. voteEnd \in Nat /\ previous \in Nat
  BY DEF RetryInv
<1>2. AreSlots(RetryTimes(s.first, s.final), s.first, s.final, 5) /\ cutoff \in Int
  BY <1>1, ScheduledFacts
<1>3. n \in Nat /\ s.next \in Nat
  BY <1>2 DEF AreSlots, Scheduled
<1>4. ~(s.next >= n) /\ ~(t > cutoff)
  BY DEF SlotDue, Finished
<1>5. s.next < n /\ t <= cutoff
  <2> HIDE DEF n, cutoff
  <2> QED BY <1>2, <1>3, <1>4
<1>6. c \in s.next..(n - 1)
  BY <1>1, <1>5, CandidateFound DEF IsCandidate
<1>7. SpentAfter(s, t) = Least(k, n)
  BY Zenon DEF SpentAfter
<1> HIDE DEF n, c, previous, cutoff
<1>8. k \in Nat /\ s.next + 1 <= k /\ s.next + 1 <= n
  BY <1>1, <1>3, <1>6
<1> HIDE DEF k
<1>9. Least(k, n) \in 0..n /\ s.next + 1 <= Least(k, n) /\ Least(k, n) \in Int
  BY <1>3, <1>8 DEF Least
<1> QED BY <1>5, <1>7, <1>9, Zenon DEF n, cutoff

\* What is stored is a schedule again (reserveProofAttempt).
LEMMA ReservedIsScheduled ==
    ASSUME RetryInv, NEW t \in Nat, NEW s, Scheduled(s, voteEnd), SlotDue(s, t, voteEnd)
    PROVE  /\ Scheduled(Reserved(s, t), voteEnd)
           /\ Reserved(s, t).last = t /\ t <= RetryCutoff(Reserved(s, t).first, voteEnd)
           /\ s.next + 1 <= Reserved(s, t).next
<1> DEFINE u == Reserved(s, t)
           next == SpentAfter(s, t)
<1>1. /\ next \in 0..Len(RetryTimes(s.first, s.final))
      /\ s.next + 1 <= next /\ next \in Int /\ t <= RetryCutoff(s.first, voteEnd)
  BY SpentBounds, Zenon
<1>2. u = [first |-> s.first, final |-> s.final, next |-> next, last |-> t]
  BY Zenon DEF Reserved
<1> HIDE DEF u, next
<1>3. s.first \in Int /\ s.final \in Int /\ t \in Int
  BY DEF Scheduled, StateRecords
<1>4. u.first = s.first /\ u.final = s.final /\ u.next = next /\ u.last = t
  BY <1>2, Zenon
<1>5. u \in StateRecords
  BY <1>1, <1>2, <1>3, Zenon DEF StateRecords
<1>6. Scheduled(u, voteEnd)
  <2>1. s.first \in Nat /\ s.first <= s.final /\ s.final <= RetryCutoff(s.first, voteEnd)
    BY Zenon DEF Scheduled
  <2> QED BY <1>1, <1>4, <1>5, <2>1, Zenon DEF Scheduled
<1> QED BY <1>1, <1>4, <1>6, Zenon DEF u

\* A failed attempt is polled in two to sixty-four seconds (MarkFailed).
LEMMA FailureAhead ==
    ASSUME RetryInv, NEW t \in Nat
    PROVE  /\ ScheduleSecond(t + Second * Shift(Least(attempts + 1, 6))) \in Int
           /\ ScheduleSecond(t + Second * Shift(Least(attempts + 1, 6))) > t
<1> DEFINE m == Shift(Least(attempts + 1, 6))
           x == t + Second * m
<1>1. Least(attempts + 1, 6) \in 0..6
  BY DEF RetryInv, Least
<1>2. m \in Nat \ {0}
  BY <1>1, ShiftPositive
<1> HIDE DEF m
<1>3. x \in Int /\ t + Second <= x
  BY <1>2, DurationsAssumption DEF DurationsAssumption
<1>4. /\ ScheduleSecond(x) \in Int /\ Second \in Int
      /\ x < ScheduleSecond(x) + Second
  BY <1>3, SecondBounds, DurationsAssumption DEF DurationsAssumption
<1> HIDE DEF x
<1>5. ScheduleSecond(x) > t
  BY <1>3, <1>4
<1> QED BY <1>4, <1>5 DEF x, m

\* The slot of s is due and proved at t2, and the attempt ends at t3.
ProvesAt(s, t2, t3) ==
    /\ SlotDue(s, t2, voteEnd)
    /\ retry' = Reserved(s, t2)
    /\ \/ \E count \in {0} \cup StalledCounts :
             /\ pollAt' = PollAfter(Reserved(s, t2), t3, count)
             /\ stalled' = count
             /\ UNCHANGED <<attempts, failed, restarts>>
       \/ FailedAt(t3) /\ UNCHANGED restarts
       \/ /\ restarts < MaxRestarts
          /\ restarts' = restarts + 1
          /\ pollAt' = ScheduleSecond(t3)
          /\ stalled' = 0
          /\ UNCHANGED <<attempts, failed>>

\* A proof.
LEMMA ProveKeeps == RetryInv /\ Prove => RetryInv' /\ PacedStep
<1> SUFFICES ASSUME RetryInv, Prove PROVE RetryInv' /\ PacedStep
  OBVIOUS
<1>0. PICK d1 \in Delays, d2 \in Delays, d3 \in Delays :
        /\ \E s \in StatesAt(Woken + d1 + d2) :
              ProvesAt(s, Woken + d1 + d2, Woken + d1 + d2 + d3)
        /\ instant' = Woken + d1 + d2 + d3
  BY Zenon DEF Prove, ProvesAt
<1> DEFINE t2 == Woken + d1 + d2
           t3 == Woken + d1 + d2 + d3
<1>1. PICK s \in StatesAt(t2) : ProvesAt(s, t2, t3) /\ instant' = t3
  BY <1>0, Zenon
<1>2. t2 \in Nat /\ t3 \in Nat
  BY WokenNat, DurationsAssumption DEF DurationsAssumption
<1>3. proved' = proved + 1 /\ voteEnd' = voteEnd
  BY DEF Prove
<1> HIDE DEF t2, t3
<1>4. Scheduled(s, voteEnd) /\ proved <= s.next /\ (retry # NoState => s = retry)
  BY <1>1, <1>2, StatesAreSchedules, Zenon
<1>5. /\ Scheduled(retry', voteEnd) /\ retry'.last = t2
      /\ t2 <= RetryCutoff(retry'.first, voteEnd) /\ s.next + 1 <= retry'.next
  BY <1>1, <1>2, <1>4, ReservedIsScheduled DEF ProvesAt
<1>6. Progress'
  <2>1. s.next \in Int /\ retry'.next \in Int /\ proved \in Nat
    BY <1>4, <1>5 DEF Scheduled, StateRecords, RetryInv
  <2>2. proved' <= retry'.next
    BY <1>3, <1>4, <1>5, <2>1
  <2> QED BY <1>2, <1>3, <1>5, <2>2, Zenon DEF Progress
<1>7. Spaced
  <2> SUFFICES ASSUME proved > 0 PROVE retry'.last >= retry.last + MinSpacing
    BY Zenon DEF Spaced
  <2>1. retry # NoState
    BY DEF RetryInv, Progress, NoState
  <2>2. s = retry /\ retry.last \in Nat
    BY <1>4, <2>1 DEF RetryInv, Progress
  <2>3. SlotTime(s, t2) <= t2 /\ ~(s.next >= Len(RetryTimes(s.first, s.final)))
    BY <1>1 DEF SlotDue, Finished, ProvesAt
  <2>4. voteEnd \in Nat /\ s.next < Len(RetryTimes(s.first, s.final))
    <3>1. voteEnd \in Nat
      BY DEF RetryInv
    <3>2. s.next \in Nat /\ Len(RetryTimes(s.first, s.final)) \in Nat
      BY <1>4, <3>1, ScheduledFacts DEF Scheduled, AreSlots
    <3> QED BY <2>3, <3>1, <3>2
  <2>5. SlotTime(s, t2) \in Int /\ s.last + MinSpacing <= SlotTime(s, t2)
    <3>1. s.last # -1 /\ t2 \in Int
      BY <1>2, <2>2
    <3> QED BY <1>4, <2>4, <3>1, SlotTimeInt, Zenon
  <2> QED BY <1>2, <1>5, <2>2, <2>3, <2>5, DurationsAssumption DEF DurationsAssumption
<1>8. instant' = t3 /\ instant' \in Nat /\ voteEnd' \in Nat /\ proved' \in Nat
  BY <1>1, <1>2, <1>3 DEF ProvesAt, RetryInv
<1>9. ASSUME NEW count \in {0} \cup StalledCounts,
             pollAt' = PollAfter(Reserved(s, t2), t3, count), stalled' = count,
             UNCHANGED <<attempts, failed, restarts>>
      PROVE  RetryInv' /\ PacedStep
  <2>1. count \in 0..MaxStalled
    BY CountsBounded, Zenon
  <2>2. Paced(retry', voteEnd, t3, pollAt')
    <3>1. retry' = Reserved(s, t2) /\ voteEnd \in Nat
      BY <1>1 DEF ProvesAt, RetryInv
    <3> QED BY <1>2, <1>5, <1>9, <2>1, <3>1, PollAfterPaced, Zenon
  <2>3. PacedStep
    BY <1>7, <1>8, <2>2, PacedPoll
  <2>4. pollAt' \in Int
    BY <2>2 DEF Paced
  <2> QED BY <1>6, <1>8, <1>9, <2>1, <2>3, <2>4 DEF RetryInv
<1>10. ASSUME FailedAt(t3) PROVE RetryInv' /\ PacedStep
  <2>1. pollAt' \in Int /\ pollAt' > t3
    BY <1>2, <1>10, FailureAhead DEF FailedAt
  <2>2. attempts' \in Nat /\ attempts' # attempts
    BY <1>10 DEF FailedAt, RetryInv
  <2>3. stalled' \in 0..MaxStalled
    BY <1>10, CountsBounded DEF FailedAt
  <2>4. PacedStep
    BY <1>7, <1>8, <2>1, <2>2, Zenon DEF PacedStep, NoSpin, NoOversleep
  <2> QED BY <1>6, <1>8, <2>1, <2>2, <2>3, <2>4, Zenon DEF RetryInv
<1>11. ASSUME restarts' = restarts + 1, restarts < MaxRestarts, pollAt' = ScheduleSecond(t3),
              stalled' = 0, UNCHANGED <<attempts, failed>>
       PROVE  RetryInv' /\ PacedStep
  <2>1. pollAt' \in Int
    BY <1>2, <1>11, SecondBounds
  <2>2. 0 \in 0..MaxStalled
    BY CountsBounded
  <2>3. restarts' # restarts
    BY <1>11 DEF RetryInv
  <2>4. PacedStep
    BY <1>7, <2>3 DEF PacedStep, NoSpin, NoOversleep
  <2> QED BY <1>6, <1>8, <1>11, <2>1, <2>2, <2>4 DEF RetryInv
<1> QED BY <1>1, <1>9, <1>10, <1>11 DEF ProvesAt

\* RetryInv is inductive, and steps are paced.
LEMMA RetryStep == RetryInv /\ [RetryNext]_retryVars => RetryInv' /\ [PacedStep]_retryVars
<1> SUFFICES ASSUME RetryInv, [RetryNext]_retryVars PROVE RetryInv' /\ [PacedStep]_retryVars
  OBVIOUS
<1>1. CASE RetryNext
  BY <1>1, AwaitSlotKeeps, AttemptBlockedKeeps, ProveKeeps DEF RetryNext
<1>2. CASE UNCHANGED retryVars
  BY <1>2 DEF retryVars, RetryInv, Progress
<1> QED BY <1>1, <1>2

\* Every behaviour of the schedule keeps its invariant.
LEMMA RetryInvHolds == RetrySpec => []RetryInv
BY InitRetryInv, RetryStep, PTL DEF RetrySpec

\* For every choice of the durations, whatever the delays and restarts, a
\* stored retry state is accepted when it is loaded again (newRetryState,
\* reserveProofAttempt, decodeRetryState).
THEOREM AlwaysDecodes == RetrySpec => []StoredStateDecodes
<1>1. RetryInv => StoredStateDecodes
  BY ScheduledFacts DEF RetryInv, Progress, StoredStateDecodes, StateDecodes
<1> QED BY <1>1, RetryInvHolds, PTL

\* A share is proved at most five times, and after the first time only while
\* retryMinBuffer is left and within retryMaxDuration of the first (due,
\* retryCutoff).
THEOREM AlwaysBounded == RetrySpec => []ProofsBounded
<1>1. ASSUME RetryInv PROVE ProofsBounded
  <2>1. CASE retry = NoState /\ proved = 0
    BY <2>1 DEF ProofsBounded, NoState
  <2>2. CASE /\ Scheduled(retry, voteEnd)
             /\ retry.last \in Nat /\ retry.last <= RetryCutoff(retry.first, voteEnd)
             /\ proved <= retry.next
    <3> DEFINE cutoff == RetryCutoff(retry.first, voteEnd)
    <3>1. voteEnd \in Nat /\ proved \in Nat /\ retry.first \in Nat /\ retry.next \in Nat
      BY <1>1, <2>2 DEF RetryInv, Scheduled
    <3>2. /\ AreSlots(RetryTimes(retry.first, retry.final), retry.first, retry.final, 5)
          /\ cutoff = retry.first => retry.next <= 1
      BY <2>2, <3>1, ScheduledFacts
    <3>3. retry.next <= 5
      <4> DEFINE n == Len(RetryTimes(retry.first, retry.final))
      <4>1. n \in 1..5
        BY <3>2 DEF AreSlots
      <4>2. retry.next \in 0..n
        BY <2>2 DEF Scheduled
      <4> HIDE DEF n
      <4> QED BY <4>1, <4>2
    <3>4. /\ cutoff \in Int
          /\ cutoff # retry.first => /\ cutoff <= voteEnd - MinBuffer
                                     /\ cutoff <= retry.first + MaxDuration
      BY <3>1, CutoffBounds, Zenon
    <3> HIDE DEF cutoff
    <3>5. ASSUME proved > 1
          PROVE  retry.last <= voteEnd - MinBuffer /\ retry.last <= retry.first + MaxDuration
      <4>1. cutoff # retry.first
        BY <2>2, <3>1, <3>2, <3>5
      <4>2. retry.last \in Nat /\ retry.last <= cutoff
        BY <2>2 DEF cutoff
      <4> QED BY <3>1, <3>4, <4>1, <4>2, DurationsAssumption DEF DurationsAssumption
    <3> QED BY <2>2, <3>3, <3>5 DEF ProofsBounded
  <2> QED BY <1>1, <2>1, <2>2 DEF RetryInv, Progress
<1> QED BY <1>1, RetryInvHolds, PTL

\* Two proofs are retryMinSpacing apart, no poll is due at once, and no slot
\* and no start of the urgent window is slept through (due, markRetry,
\* nextSharePollTime, scheduleRetryTime).
THEOREM AlwaysPaced == RetrySpec => PollsPaced
<1>1. RetryInv /\ [RetryNext]_retryVars => [PacedStep]_retryVars
  BY RetryStep
<1>2. RetrySpec => [][PacedStep]_retryVars
  BY <1>1, RetryInvHolds, PTL DEF RetrySpec
<1> QED BY <1>2 DEF PollsPaced, PacedStep

=============================================================================
