----------------------------- MODULE PollingProofs -----------------------------
(***************************************************************************)
(* Proofs about Polling: however the millisecond counter wraps, a trap is  *)
(* polled when it is due and no sooner, and what counts as an activation   *)
(* is a burst.                                                             *)
(***************************************************************************)
EXTENDS Polling, FiniteSetTheorems, TLAPS

(***************************************************************************)
(* The inductive invariant: failures are of attempts, and the packets of a *)
(* burst have come since the last pause.                                   *)
(***************************************************************************)
Attempted == job.link # "none" \/ job.failures > 0 => at.attempt # Never
TrueBurst == burst.packets <= inRow

IInv == TypeOK /\ Attempted /\ TrueBurst

-----------------------------------------------------------------------------
(***************************************************************************)
(* Remainders, and differences of readings of a counter that wraps.        *)
(***************************************************************************)
LEMMA Parameters ==
  /\ Wrap \in Nat \ {0} /\ FailuresTracked \in Nat \ {0} /\ MinPackets \in Nat \ {0}
  /\ MaxTime \in Nat /\ ChangeMin \in Nat /\ BurstGap \in Nat /\ Cooldown \in Nat
  /\ Intervals \subseteq Nat /\ Offsets \subseteq Nat
BY PollingAssumption

LEMMA Remainder ==
  ASSUME NEW a \in Int, NEW w \in Nat \ {0}
  PROVE  a = w * (a \div w) + (a % w) /\ a \div w \in Int /\ a % w \in 0..(w - 1)
OBVIOUS

LEMMA Turns ==
  ASSUME NEW q \in Int, NEW w \in Nat \ {0}
  PROVE  /\ w * q \in Int /\ (q = 0 => w * q = 0)
         /\ q >= 1 => w * q >= w
         /\ q <= -1 => w * q <= -w
OBVIOUS

\* What is left of a difference, some turns taken away.
LEMMA LeftOver ==
  ASSUME NEW w \in Nat \ {0}, NEW d \in Nat, NEW q \in Int, NEW r \in 0..(w - 1), d = w * q + r
  PROVE  r <= d /\ (d < w => r = d)
<1> DEFINE p == w * q
<1>1. p \in Int /\ (q = 0 => p = 0) /\ (q >= 1 => p >= w) /\ (q <= -1 => p <= -w)
  BY Turns
<1>2. d = p + r
  OBVIOUS
<1> HIDE DEF p
<1> QED
  BY <1>1, <1>2

LEMMA UnsignedDifference ==
  ASSUME NEW w \in Nat \ {0}, NEW a \in Nat, NEW b \in Nat, b <= a
  PROVE  LET r == ((a % w) - (b % w)) % w
         IN  r \in Nat /\ r <= a - b /\ (a - b < w => r = a - b)
<1> DEFINE x == a % w
           y == b % w
           r == (x - y) % w
           m == a \div w
           n == b \div w
           k == (x - y) \div w
<1>1. a = w * m + x /\ m \in Int /\ x \in 0..(w - 1)
  BY a \in Int, Remainder
<1>2. b = w * n + y /\ n \in Int /\ y \in 0..(w - 1)
  BY b \in Int, Remainder
<1>3. x - y \in Int
  BY <1>1, <1>2
<1> HIDE DEF x, y, m, n
<1>4. x - y = w * k + r /\ k \in Int /\ r \in 0..(w - 1)
  BY <1>3, Remainder
<1> HIDE DEF r, k
<1>5. a - b = w * (m - n + k) + r
  BY <1>1, <1>2, <1>4
<1>6. a - b \in Nat /\ m - n + k \in Int
  BY <1>1, <1>2, <1>4
<1> QED
  BY <1>4, <1>5, <1>6, LeftOver DEF r, x, y

\* What the code takes for the time since t is never more than that, and is that
\* until the counter has made a turn.
LEMMA SinceFacts ==
  ASSUME TypeOK, NEW s \in Stamps, at[s] # Never
  PROVE  /\ Since(at[s]) \in Nat /\ Elapsed(at[s]) \in Nat /\ Since(at[s]) <= Elapsed(at[s])
         /\ Elapsed(at[s]) < Wrap => Since(at[s]) = Elapsed(at[s])
         /\ Elapsed(at[s]) <= now
<1> DEFINE t == at[s]
           a == setup.offset + now
           b == setup.offset + t
<1>1. t \in 0..now /\ now \in Nat /\ setup.offset \in Nat /\ Wrap \in Nat \ {0}
  <2>1. MaxTime \in Nat /\ Wrap \in Nat \ {0} /\ Offsets \subseteq 0..(Wrap - 1)
    BY PollingAssumption
  <2>2. at \in [Stamps -> {Never} \cup 0..now] /\ now \in 0..MaxTime /\ setup.offset \in Offsets
    BY DEF TypeOK
  <2>3. t \in 0..now
    BY <2>2
  <2>4. setup.offset \in Nat
    BY <2>2, Parameters
  <2>5. now \in Nat
    BY <2>1, <2>2
  <2> QED
    BY <2>1, <2>3, <2>4, <2>5
<1>2. a \in Nat /\ b \in Nat /\ b <= a /\ a - b = Elapsed(t) /\ Elapsed(t) \in Nat /\ Elapsed(t) <= now
  BY <1>1 DEF Elapsed
<1>3. Since(t) = ((a % Wrap) - (b % Wrap)) % Wrap
  BY <1>1 DEF Since, Ms, Never
<1> HIDE DEF t, a, b
<1>4. Since(t) \in Nat /\ Since(t) <= a - b /\ (a - b < Wrap => Since(t) = a - b)
  BY <1>1, <1>2, <1>3, UnsignedDifference
<1> QED
  BY <1>2, <1>4 DEF t

-----------------------------------------------------------------------------
(***************************************************************************)
(* Powers of two, as the number of subsets.                                *)
(***************************************************************************)
LEMMA PowerOfTwo ==
  ASSUME NEW n \in Nat
  PROVE  IsFiniteSet(SUBSET (1..n)) /\ Cardinality(SUBSET (1..n)) = 2^n /\ 2^n \in Nat
<1>1. IsFiniteSet(1..n) /\ Cardinality(1..n) = n
  BY FS_Interval
<1> QED
  BY <1>1, FS_SUBSET, FS_CardinalityType

LEMMA PowersIncrease ==
  ASSUME NEW m \in Nat, NEW n \in Nat, m <= n
  PROVE  2^m <= 2^n
<1> DEFINE S == SUBSET (1..n)
           T == SUBSET (1..m)
<1>1. T \in SUBSET S
  OBVIOUS
<1>2. IsFiniteSet(S) /\ Cardinality(S) = 2^n /\ Cardinality(T) = 2^m
  BY PowerOfTwo
<1> HIDE DEF S, T
<1>3. Cardinality(T) <= Cardinality(S)
  BY <1>1, <1>2, FS_Subset
<1> QED
  BY <1>2, <1>3

\* The shift of wants_connection is the documented doubling.
LEMMA BackoffIsPatience ==
  ASSUME NEW f \in Nat \ {0}
  PROVE  Backoff(f) = Patience(f) /\ Backoff(f) \in Nat
<1>1. BackoffBase \in Nat \ {0} /\ BackoffMax \in Nat /\ MaxShift \in Nat /\ f - 1 \in Nat
      /\ BackoffBase * 2^MaxShift >= BackoffMax
  BY PollingAssumption
<1>2. 2^(f - 1) \in Nat /\ 2^MaxShift \in Nat
  BY <1>1, PowerOfTwo
<1>3. CASE f - 1 <= MaxShift
  <2>1. Lesser(f - 1, MaxShift) = f - 1
    BY <1>1, <1>3 DEF Lesser
  <2> QED
    BY <1>1, <1>2, <2>1 DEF Backoff, Patience, Lesser
<1>4. CASE MaxShift < f - 1
  <2>1. Lesser(f - 1, MaxShift) = MaxShift
    BY <1>1, <1>4 DEF Lesser
  <2>2. 2^MaxShift <= 2^(f - 1)
    BY <1>1, <1>4, PowersIncrease
  <2> DEFINE u == 2^MaxShift
             v == 2^(f - 1)
  <2>3. BackoffBase * u <= BackoffBase * v /\ BackoffBase * u \in Nat /\ BackoffBase * v \in Nat
    <3> HIDE DEF u, v
    <3> QED
      BY <1>1, <1>2, <2>2 DEF u, v
  <2> QED
    BY <1>1, <2>1, <2>3 DEF Backoff, Patience, Lesser
<1> QED
  BY <1>1, <1>3, <1>4

-----------------------------------------------------------------------------
(***************************************************************************)
(* The invariant.                                                          *)
(***************************************************************************)
LEMMA LesserFacts ==
  ASSUME NEW a \in Int, NEW b \in Int
  PROVE  Lesser(a, b) \in {a, b} /\ Lesser(a, b) <= a /\ Lesser(a, b) <= b
BY DEF Lesser

\* maybe_connect_ only attempts a trap without a link, now.
LEMMA MaybeConnectFacts ==
  ASSUME NEW free \in BOOLEAN, NEW j, NEW stamps, MaybeConnect(free, j, stamps),
         now \in Nat, stamps \in [Stamps -> {Never} \cup 0..now],
         j \in [failures : 0..FailuresTracked, pending : BOOLEAN, needs : BOOLEAN,
                link : {"none", "connecting", "up"}]
  PROVE  /\ at' \in [Stamps -> {Never} \cup 0..now]
         /\ job' \in [failures : 0..FailuresTracked, pending : BOOLEAN, needs : BOOLEAN,
                      link : {"none", "connecting", "up"}]
         /\ job'.failures = j.failures
         /\ \A s \in Stamps \ {"attempt"} : at'[s] = stamps[s]
         /\ \/ job'.link = j.link /\ at'["attempt"] = stamps["attempt"]
            \/ Wants(j) /\ job'.link = "connecting" /\ at'["attempt"] = now
<1>1. CASE free /\ Wants(j)
  BY <1>1 DEF MaybeConnect, Stamps
<1>2. CASE ~(free /\ Wants(j))
  BY <1>2 DEF MaybeConnect
<1> QED
  BY <1>1, <1>2

LEMMA Stamped ==
  ASSUME NEW S, NEW f \in [Stamps -> S], NEW t \in S, NEW u \in S
  PROVE  /\ [f EXCEPT !.heard = t, !.change = u] \in [Stamps -> S]
         /\ [f EXCEPT !.heard = t, !.activation = u] \in [Stamps -> S]
BY DEF Stamps

\* The reading of TypeOK that the steps use.
LEMMA Things ==
  ASSUME TypeOK
  PROVE  /\ now \in Nat /\ now <= MaxTime
         /\ at \in [Stamps -> {Never} \cup 0..now]
         /\ job \in [failures : 0..FailuresTracked, pending : BOOLEAN, needs : BOOLEAN,
                     link : {"none", "connecting", "up"}]
         /\ burst \in [packets : 0..MinPackets, counted : BOOLEAN]
         /\ inRow \in 0..MinPackets
         /\ setup \in [offset : Offsets, model : {"C20", "A24"}, interval : Intervals]
BY Parameters DEF TypeOK

LEMMA InitIInv == Init => IInv
BY Parameters DEF Init, IInv, TypeOK, Attempted, TrueBurst, Stamps, Never

LEMMA C20HeardIInv ==
  ASSUME IInv, NEW changed \in BOOLEAN, NEW free \in BOOLEAN, C20Heard(changed, free)
  PROVE  IInv'
<1> DEFINE asks   == PollForChange(changed)
           j      == [job EXCEPT !.pending = @ \/ asks]
           change == IF asks THEN now ELSE at.change
           stamps == [at EXCEPT !.heard = now, !.change = change]
<1>1. TypeOK /\ now \in Nat /\ at \in [Stamps -> {Never} \cup 0..now]
  BY Things DEF IInv
<1>2. MaybeConnect(free, j, stamps) /\ UNCHANGED <<now, setup, burst, inRow>>
  BY DEF C20Heard
<1>3. stamps \in [Stamps -> {Never} \cup 0..now] /\ stamps["attempt"] = at["attempt"]
  <2>1. change \in {Never} \cup 0..now
    BY <1>1 DEF Stamps
  <2> HIDE DEF change
  <2> DEFINE S == {Never} \cup 0..now
  <2>2. at \in [Stamps -> S] /\ now \in S /\ change \in S
    BY <1>1, <2>1
  <2> HIDE DEF S
  <2>3. stamps \in [Stamps -> S]
    BY <2>2, Stamped
  <2>4. stamps["attempt"] = at["attempt"]
    BY <2>2 DEF Stamps
  <2> QED
    BY <2>3, <2>4 DEF S
<1>4. /\ j \in [failures : 0..FailuresTracked, pending : BOOLEAN, needs : BOOLEAN,
                link : {"none", "connecting", "up"}]
      /\ j.failures = job.failures /\ j.link = job.link
  BY <1>1, Things
<1> HIDE DEF j, stamps
<1>5. /\ at' \in [Stamps -> {Never} \cup 0..now]
      /\ job' \in [failures : 0..FailuresTracked, pending : BOOLEAN, needs : BOOLEAN,
                   link : {"none", "connecting", "up"}]
      /\ job'.failures = job.failures
      /\ \/ job'.link = job.link /\ at'["attempt"] = at["attempt"]
         \/ at'["attempt"] = now
  BY <1>1, <1>2, <1>3, <1>4, MaybeConnectFacts
<1>6. TypeOK'
  BY <1>1, <1>2, <1>5 DEF TypeOK
<1>7. Attempted'
  BY <1>1, <1>5 DEF IInv, Attempted, Never
<1> QED
  BY <1>2, <1>6, <1>7 DEF IInv, TrueBurst

\* The code sees every pause: the packets of its burst are at most those since.
LEMMA PacketsFacts ==
  ASSUME TypeOK, TrueBurst
  PROVE  /\ Packets \in 1..MinPackets
         /\ LET row == IF Paused THEN 1 ELSE Lesser(inRow + 1, MinPackets)
            IN  row \in 1..MinPackets /\ Packets <= row
<1> DEFINE row  == IF Paused THEN 1 ELSE Lesser(inRow + 1, MinPackets)
           more == Lesser(burst.packets + 1, MinPackets)
           rows == Lesser(inRow + 1, MinPackets)
<1>1. /\ now \in Nat /\ MinPackets \in Nat \ {0} /\ BurstGap \in Nat /\ Wrap \in Nat
      /\ burst.packets \in 0..MinPackets /\ inRow \in 0..MinPackets
  BY Things, Parameters
<1>2. more \in 1..MinPackets /\ rows \in 1..MinPackets /\ more <= rows
  BY <1>1 DEF Lesser, TrueBurst
<1>3. Packets = IF Ms(at.heard) = 0 \/ Since(at.heard) > BurstGap THEN 1 ELSE more
  BY DEF Packets
<1>4. row = IF Paused THEN 1 ELSE rows
  OBVIOUS
<1> HIDE DEF more, rows, row
<1>5. Packets \in 1..MinPackets /\ row \in 1..MinPackets
  BY <1>1, <1>2, <1>3, <1>4
<1>6. ASSUME Paused PROVE Packets = 1
  <2>1. CASE at.heard = Never
    BY <1>3, <2>1 DEF Ms
  <2>2. CASE at.heard # Never /\ Elapsed(at.heard) \in (BurstGap + 1)..(Wrap - 1)
    <3>1. Since(at.heard) = Elapsed(at.heard)
      BY <1>1, <2>2, SinceFacts DEF Stamps
    <3> QED
      BY <1>1, <1>3, <2>2, <3>1
  <2> QED
    BY <1>6, <2>1, <2>2 DEF Paused
<1> QED
  BY <1>1, <1>2, <1>3, <1>4, <1>5, <1>6 DEF row

LEMMA A24HeardIInv ==
  ASSUME IInv, NEW free \in BOOLEAN, A24Heard(free)
  PROVE  IInv'
<1> DEFINE counted    == Packets > 1 /\ burst.counted
           activated  == /\ ~counted /\ Packets >= MinPackets
                         /\ Ms(at.activation) = 0 \/ Since(at.activation) >= Cooldown
           j          == [job EXCEPT !.needs = @ \/ activated]
           activation == IF activated THEN now ELSE at.activation
           stamps     == [at EXCEPT !.heard = now, !.activation = activation]
<1>1. TypeOK /\ now \in Nat /\ at \in [Stamps -> {Never} \cup 0..now]
  BY Things DEF IInv
<1>2. /\ MaybeConnect(free, j, stamps) /\ UNCHANGED <<now, setup>>
      /\ burst' = [packets |-> Packets, counted |-> counted \/ activated]
      /\ inRow' = IF Paused THEN 1 ELSE Lesser(inRow + 1, MinPackets)
  BY DEF A24Heard
<1>3. stamps \in [Stamps -> {Never} \cup 0..now] /\ stamps["attempt"] = at["attempt"]
  <2>1. activation \in {Never} \cup 0..now
    BY <1>1 DEF Stamps
  <2> HIDE DEF activation
  <2> DEFINE S == {Never} \cup 0..now
  <2>2. at \in [Stamps -> S] /\ now \in S /\ activation \in S
    BY <1>1, <2>1
  <2> HIDE DEF S
  <2>3. stamps \in [Stamps -> S]
    BY <2>2, Stamped
  <2>4. stamps["attempt"] = at["attempt"]
    BY <2>2 DEF Stamps
  <2> QED
    BY <2>3, <2>4 DEF S
<1>4. /\ j \in [failures : 0..FailuresTracked, pending : BOOLEAN, needs : BOOLEAN,
                link : {"none", "connecting", "up"}]
      /\ j.failures = job.failures /\ j.link = job.link
  BY <1>1, Things
<1> HIDE DEF j, stamps
<1>5. /\ at' \in [Stamps -> {Never} \cup 0..now]
      /\ job' \in [failures : 0..FailuresTracked, pending : BOOLEAN, needs : BOOLEAN,
                   link : {"none", "connecting", "up"}]
      /\ job'.failures = job.failures
      /\ \/ job'.link = job.link /\ at'["attempt"] = at["attempt"]
         \/ at'["attempt"] = now
  BY <1>1, <1>2, <1>3, <1>4, MaybeConnectFacts
<1>6. /\ burst'.packets = Packets /\ burst' \in [packets : 0..MinPackets, counted : BOOLEAN]
      /\ inRow' \in 0..MinPackets /\ Packets <= inRow'
  <2>1. Packets \in 1..MinPackets /\ inRow' \in 1..MinPackets /\ Packets <= inRow'
    BY <1>2, PacketsFacts DEF IInv
  <2> QED
    BY <1>2, <2>1, Parameters
<1>7. TypeOK'
  BY <1>1, <1>2, <1>5, <1>6 DEF TypeOK
<1>8. Attempted'
  BY <1>1, <1>5 DEF IInv, Attempted, Never
<1>9. TrueBurst'
  BY <1>2, <1>6 DEF TrueBurst
<1> QED
  BY <1>7, <1>8, <1>9 DEF IInv

LEMMA PressIInv ==
  ASSUME IInv, NEW free \in BOOLEAN, Press(free)
  PROVE  IInv'
<1> DEFINE near == free /\ Ms(at.heard) # 0 /\ Since(at.heard) < RecentlySeen
           j    == [job EXCEPT !.failures = 0, !.pending = TRUE]
<1>1. TypeOK /\ now \in Nat /\ at \in [Stamps -> {Never} \cup 0..now]
  BY Things DEF IInv
<1>2. MaybeConnect(near, j, at) /\ near \in BOOLEAN /\ UNCHANGED <<now, setup, burst, inRow>>
  BY DEF Press
<1>3. /\ j \in [failures : 0..FailuresTracked, pending : BOOLEAN, needs : BOOLEAN,
                link : {"none", "connecting", "up"}]
      /\ j.failures = 0 /\ j.link = job.link
  <2>1. /\ job \in [failures : 0..FailuresTracked, pending : BOOLEAN, needs : BOOLEAN,
                    link : {"none", "connecting", "up"}]
        /\ 0 \in 0..FailuresTracked
    BY <1>1, Things, Parameters
  <2> QED
    BY <2>1
<1> HIDE DEF j
<1>4. /\ at' \in [Stamps -> {Never} \cup 0..now]
      /\ job' \in [failures : 0..FailuresTracked, pending : BOOLEAN, needs : BOOLEAN,
                   link : {"none", "connecting", "up"}]
      /\ job'.failures = 0
      /\ \/ job'.link = job.link /\ at'["attempt"] = at["attempt"]
         \/ at'["attempt"] = now
  BY <1>1, <1>2, <1>3, MaybeConnectFacts
<1>5. TypeOK'
  BY <1>1, <1>2, <1>4 DEF TypeOK
<1>6. Attempted'
  BY <1>1, <1>4 DEF IInv, Attempted, Never
<1> QED
  BY <1>2, <1>5, <1>6 DEF IInv, TrueBurst

LEMMA StepIInv == IInv /\ [Next]_vars => IInv'
<1> SUFFICES ASSUME IInv, [Next]_vars PROVE IInv'
  OBVIOUS
<1>1. /\ TypeOK /\ Attempted /\ TrueBurst /\ now \in Nat /\ now <= MaxTime
      /\ at \in [Stamps -> {Never} \cup 0..now]
      /\ job \in [failures : 0..FailuresTracked, pending : BOOLEAN, needs : BOOLEAN,
                  link : {"none", "connecting", "up"}]
  BY Things DEF IInv
<1>2. ASSUME NEW changed \in BOOLEAN, NEW free \in BOOLEAN, C20Heard(changed, free) PROVE IInv'
  BY <1>2, C20HeardIInv
<1>3. ASSUME NEW free \in BOOLEAN, A24Heard(free) PROVE IInv'
  BY <1>3, A24HeardIInv
<1>4. ASSUME NEW free \in BOOLEAN, Press(free) PROVE IInv'
  BY <1>4, PressIInv
<1>5. CASE PressInVain
  BY <1>1, <1>5, Parameters DEF PressInVain, IInv, TypeOK, Attempted, TrueBurst
<1>6. CASE Connected
  BY <1>1, <1>6 DEF Connected, IInv, TypeOK, Attempted, TrueBurst
<1>7. CASE Succeeds
  <2>1. at' \in [Stamps -> {Never} \cup 0..now] /\ at'["attempt"] = at["attempt"]
    BY <1>1, <1>7 DEF Succeeds, Stamps
  <2>2. /\ job' \in [failures : 0..FailuresTracked, pending : BOOLEAN, needs : BOOLEAN,
                     link : {"none", "connecting", "up"}]
        /\ job'.failures = 0 /\ job'.link = "none" /\ UNCHANGED <<now, setup, burst, inRow>>
    <3>1. PICK left \in BOOLEAN :
            job' = [failures |-> 0, pending |-> left, needs |-> FALSE, link |-> "none"]
      BY <1>7 DEF Succeeds
    <3>2. 0 \in 0..FailuresTracked
      BY Parameters
    <3> QED
      BY <1>7, <3>1, <3>2 DEF Succeeds
  <2> QED
    BY <1>1, <2>1, <2>2 DEF IInv, TypeOK, Attempted, TrueBurst
<1>8. CASE Fails
  <2> DEFINE n == Lesser(job.failures + 1, FailuresTracked)
  <2>1. n \in 0..FailuresTracked
    BY <1>1, Parameters DEF Lesser
  <2>2. /\ job.link # "none" /\ job' = [job EXCEPT !.failures = n, !.pending = @ /\ n < 3, !.link = "none"]
        /\ UNCHANGED <<now, setup, at, burst, inRow>>
    BY <1>8 DEF Fails
  <2> HIDE DEF n
  <2>3. job' \in [failures : 0..FailuresTracked, pending : BOOLEAN, needs : BOOLEAN,
                 link : {"none", "connecting", "up"}]
    BY <1>1, <2>1, <2>2
  <2> QED
    BY <1>1, <2>2, <2>3 DEF IInv, TypeOK, Attempted, TrueBurst
<1>9. CASE Tick
  <2>1. now' = now + 1 /\ now' \in 0..MaxTime /\ UNCHANGED <<setup, at, job, burst, inRow>>
    BY <1>1, <1>9, Parameters DEF Tick
  <2>2. at' \in [Stamps -> {Never} \cup 0..now']
    BY <1>1, <2>1
  <2>3. TrueBurst'
    BY <1>1, <2>1, Parameters DEF TrueBurst
  <2> QED
    BY <1>1, <2>1, <2>2, <2>3 DEF IInv, TypeOK, Attempted
<1>10. CASE UNCHANGED vars
  BY <1>1, <1>10 DEF vars, IInv, TypeOK, Attempted, TrueBurst
<1>11. CASE CommandDelivered
  BY <1>1, <1>11 DEF CommandDelivered, IInv, TypeOK, Attempted, TrueBurst
<1> QED
  BY <1>2, <1>3, <1>4, <1>5, <1>6, <1>7, <1>8, <1>9, <1>10, <1>11 DEF Next

\* The inductive invariant of when a trap is polled.
THEOREM InvariantHolds == Spec => []IInv
BY InitIInv, StepIInv, PTL DEF Spec

\* Every variable always has its type: no time kept is in the future, and the
\* counts stay within what the code keeps of them.
THEOREM TypeCorrect == Spec => []TypeOK
<1>1. IInv => TypeOK
  BY DEF IInv
<1> QED
  BY <1>1, InvariantHolds, PTL

-----------------------------------------------------------------------------
(***************************************************************************)
(* Neither too soon nor too late.                                          *)
(***************************************************************************)

\* A trap whose poll is due, or asked for, and whose backoff is over wants the
\* connection, wherever the millisecond counter wraps and however long the
\* intervals, as long as it was heard within a turn of the counter.
THEOREM PolledWhenDueHolds == Spec => []PolledWhenDue
<1>1. ASSUME IInv PROVE PolledWhenDue
  <2> SUFFICES
        ASSUME job.link = "none",
               job.failures > 0 => Elapsed(at.attempt) \in Patience(job.failures)..(Wrap - 1),
               \/ job.pending \/ job.needs
               \/ /\ setup.interval > 0
                  /\ at.poll = Never \/ Elapsed(at.poll) \in setup.interval..(Wrap - 1)
        PROVE  Wants(job)
    BY DEF PolledWhenDue
  <2>1. /\ TypeOK /\ Attempted /\ Wrap \in Nat /\ job.failures \in Nat
        /\ setup.interval \in Nat
    <3>1. setup.interval \in Intervals /\ job.failures \in 0..FailuresTracked
      BY <1>1, Things DEF IInv
    <3>2. Intervals \subseteq Nat /\ Wrap \in Nat
      BY Parameters
    <3>3. setup.interval \in Nat
      BY <3>1, <3>2
    <3>4. job.failures \in Nat
      BY <3>1
    <3> QED
      BY <1>1, <3>2, <3>3, <3>4 DEF IInv
  <2>2. ASSUME job.failures > 0 PROVE Since(at.attempt) >= Backoff(job.failures)
    <3>1. at.attempt # Never /\ job.failures \in Nat \ {0}
      BY <2>1, <2>2 DEF Attempted
    <3>2. Backoff(job.failures) = Patience(job.failures) /\ Backoff(job.failures) \in Nat
      BY <3>1, BackoffIsPatience
    <3>3. Elapsed(at.attempt) \in Nat /\ (Elapsed(at.attempt) < Wrap => Since(at.attempt) = Elapsed(at.attempt))
      BY <2>1, <3>1, SinceFacts DEF Stamps
    <3> QED
      BY <2>1, <2>2, <3>2, <3>3
  <2>3. ASSUME setup.interval > 0, at.poll # Never, Elapsed(at.poll) \in setup.interval..(Wrap - 1)
        PROVE  setup.interval # 0 /\ Since(at.poll) >= setup.interval
    <3>1. Elapsed(at.poll) \in Nat /\ (Elapsed(at.poll) < Wrap => Since(at.poll) = Elapsed(at.poll))
      BY <2>1, <2>3, SinceFacts DEF Stamps
    <3> QED
      BY <2>1, <2>3, <3>1
  <2> QED
    BY <2>1, <2>2, <2>3 DEF Wants
<1> QED
  BY <1>1, InvariantHolds, PTL

\* What the code takes to be over is over: the time a wrapped difference gives is
\* never more than what has passed.
LEMMA WaitIsOver ==
  ASSUME IInv, NEW s \in Stamps, at[s] # Never, NEW d \in Nat, Since(at[s]) >= d
  PROVE  Elapsed(at[s]) >= d
<1>1. Since(at[s]) \in Nat /\ Elapsed(at[s]) \in Nat /\ Since(at[s]) <= Elapsed(at[s])
  BY SinceFacts DEF IInv
<1> QED
  BY <1>1

LEMMA BackoffStep ==
  ASSUME IInv, [Next]_vars, job.link = "none", job'.link = "connecting", job'.failures > 0
  PROVE  Elapsed(at.attempt) >= Patience(job'.failures)
<1>1. /\ TypeOK /\ now \in Nat /\ at \in [Stamps -> {Never} \cup 0..now]
      /\ job \in [failures : 0..FailuresTracked, pending : BOOLEAN, needs : BOOLEAN,
                  link : {"none", "connecting", "up"}]
      /\ FailuresTracked \in Nat
  BY Things, Parameters DEF IInv
<1>2. job'.failures = job.failures /\ \E j : j.failures = job.failures /\ Wants(j)
  <2>1. ASSUME NEW free,
               NEW j \in [failures : 0..FailuresTracked, pending : BOOLEAN, needs : BOOLEAN,
                          link : {"none", "connecting", "up"}],
               NEW stamps, MaybeConnect(free, j, stamps), j.link = job.link
        PROVE  Wants(j) /\ job'.failures = j.failures
    <3>1. CASE free /\ Wants(j)
      BY <2>1, <3>1 DEF MaybeConnect
    <3>2. CASE ~(free /\ Wants(j))
      BY <2>1, <3>2 DEF MaybeConnect
    <3> QED
      BY <3>1, <3>2
  <2>2. ASSUME NEW changed \in BOOLEAN, NEW free \in BOOLEAN, C20Heard(changed, free)
        PROVE  job'.failures = job.failures /\ \E j : j.failures = job.failures /\ Wants(j)
    <3> DEFINE j == [job EXCEPT !.pending = @ \/ PollForChange(changed)]
    <3>1. /\ j.failures = job.failures /\ j.link = job.link
          /\ j \in [failures : 0..FailuresTracked, pending : BOOLEAN, needs : BOOLEAN,
                    link : {"none", "connecting", "up"}]
      BY <1>1
    <3>2. \E stamps : MaybeConnect(free, j, stamps)
      BY <2>2 DEF C20Heard
    <3> HIDE DEF j
    <3> QED
      BY <2>1, <3>1, <3>2
  <2>3. ASSUME NEW free \in BOOLEAN, A24Heard(free)
        PROVE  job'.failures = job.failures /\ \E j : j.failures = job.failures /\ Wants(j)
    <3>1. \E a, stamps : MaybeConnect(free, [job EXCEPT !.needs = @ \/ a], stamps)
      BY <2>3 DEF A24Heard
    <3>2. PICK a, stamps : MaybeConnect(free, [job EXCEPT !.needs = @ \/ a], stamps)
      BY <3>1
    <3> DEFINE j == [job EXCEPT !.needs = @ \/ a]
    <3>3. /\ j.failures = job.failures /\ j.link = job.link
          /\ j \in [failures : 0..FailuresTracked, pending : BOOLEAN, needs : BOOLEAN,
                    link : {"none", "connecting", "up"}]
      BY <1>1
    <3> HIDE DEF j
    <3> QED
      BY <2>1, <3>2, <3>3 DEF j
  <2>4. ASSUME NEW free \in BOOLEAN, Press(free)
        PROVE  FALSE
    <3> DEFINE j == [job EXCEPT !.failures = 0, !.pending = TRUE]
    <3>1. /\ j.failures = 0 /\ j.link = job.link
          /\ j \in [failures : 0..FailuresTracked, pending : BOOLEAN, needs : BOOLEAN,
                    link : {"none", "connecting", "up"}]
      <4>1. 0 \in 0..FailuresTracked
        BY <1>1
      <4> QED
        BY <1>1, <4>1
    <3>2. \E near : MaybeConnect(near, j, at)
      BY <2>4 DEF Press
    <3> HIDE DEF j
    <3>3. job'.failures = 0
      BY <2>1, <3>1, <3>2
    <3> QED
      BY <3>3
  <2>5. ~PressInVain /\ ~Connected /\ ~CommandDelivered /\ ~Succeeds /\ ~Fails /\ ~Tick /\ ~UNCHANGED vars
    BY <1>1 DEF PressInVain, Connected, CommandDelivered, Succeeds, Fails, Tick, vars
  <2> QED
    BY <2>2, <2>3, <2>4, <2>5 DEF Next
<1>3. job.failures \in Nat \ {0} /\ at["attempt"] # Never
  BY <1>1, <1>2 DEF IInv, Attempted
<1>4. Since(at.attempt) >= Backoff(job.failures)
  BY <1>2, <1>3 DEF Wants
<1>5. Backoff(job.failures) = Patience(job.failures) /\ Backoff(job.failures) \in Nat
  BY <1>3, BackoffIsPatience
<1>6. Elapsed(at["attempt"]) >= Backoff(job.failures)
  BY <1>3, <1>4, <1>5, WaitIsOver DEF Stamps
<1> QED
  BY <1>2, <1>5, <1>6

\* After n failures a trap is left alone for 1, 2, 4 ... minutes up to 30, for any
\* number of failures and any reading of the counter when the trap was bound.
THEOREM BackoffKeptHolds == Spec => BackoffKept
<1>1. IInv /\ [Next]_vars =>
      [job.link = "none" /\ job'.link = "connecting" /\ job'.failures > 0
       => Elapsed(at.attempt) >= Patience(job'.failures)]_vars
  BY BackoffStep
<1> QED
  BY <1>1, InvariantHolds, PTL DEF Spec, BackoffKept

-----------------------------------------------------------------------------
(***************************************************************************)
(* Changes and activations.                                                *)
(***************************************************************************)

\* The times a step sets: maybe_connect_ itself only sets that of the attempt.
LEMMA OtherStampsKept ==
  ASSUME NEW free, NEW j, NEW stamps, MaybeConnect(free, j, stamps),
         NEW s \in Stamps \ {"attempt"}, NEW S, stamps \in [Stamps -> S]
  PROVE  at'[s] = stamps[s]
<1>1. CASE free /\ Wants(j)
  BY <1>1 DEF MaybeConnect, Stamps
<1>2. CASE ~(free /\ Wants(j))
  BY <1>2 DEF MaybeConnect
<1> QED
  BY <1>1, <1>2

LEMMA ChangeSets ==
  ASSUME IInv, [Next]_vars, at'["change"] # at["change"]
  PROVE  \E changed \in BOOLEAN : PollForChange(changed)
<1> SUFFICES ASSUME \A changed \in BOOLEAN : ~PollForChange(changed) PROVE FALSE
  OBVIOUS
<1>1. TypeOK /\ now \in Nat /\ at \in [Stamps -> {Never} \cup 0..now]
  BY Things DEF IInv
<1> DEFINE S == {Never} \cup 0..now
<1>2. at \in [Stamps -> S] /\ now \in S /\ \A s \in Stamps : at[s] \in S
  BY <1>1
<1> HIDE DEF S
<1>3. ASSUME NEW changed \in BOOLEAN, NEW free \in BOOLEAN, C20Heard(changed, free) PROVE FALSE
  <2> DEFINE stamps == [at EXCEPT !.heard = now, !.change = at.change]
  <2>1. \E j : MaybeConnect(free, j, stamps)
    BY <1>3 DEF C20Heard
  <2>2. stamps \in [Stamps -> S] /\ stamps["change"] = at["change"]
    BY <1>2, Stamped DEF Stamps
  <2> HIDE DEF stamps
  <2> QED
    BY <2>1, <2>2, OtherStampsKept DEF Stamps
<1>4. ASSUME NEW free \in BOOLEAN, A24Heard(free) PROVE FALSE
  <2>1. PICK j, b : MaybeConnect(free, j, [at EXCEPT !.heard = now, !.activation = IF b THEN now ELSE @])
    BY <1>4 DEF A24Heard
  <2> DEFINE u      == IF b THEN now ELSE at.activation
             stamps == [at EXCEPT !.heard = now, !.activation = u]
  <2>2. u \in S
    BY <1>2 DEF Stamps
  <2>3. MaybeConnect(free, j, stamps)
    BY <2>1
  <2> HIDE DEF u
  <2>4. stamps \in [Stamps -> S] /\ stamps["change"] = at["change"]
    BY <1>2, <2>2, Stamped DEF Stamps
  <2> HIDE DEF stamps
  <2> QED
    BY <2>3, <2>4, OtherStampsKept DEF Stamps
<1>5. ASSUME NEW free \in BOOLEAN, Press(free) PROVE FALSE
  <2>1. \E near, j : MaybeConnect(near, j, at)
    BY <1>5 DEF Press
  <2> QED
    BY <1>2, <2>1, OtherStampsKept DEF Stamps
<1>6. CASE Succeeds
  BY <1>2, <1>6 DEF Succeeds, Stamps
<1>7. ~PressInVain /\ ~Connected /\ ~CommandDelivered /\ ~Fails /\ ~Tick /\ ~UNCHANGED vars
  BY DEF PressInVain, Connected, CommandDelivered, Fails, Tick, vars
<1> QED
  BY <1>3, <1>4, <1>5, <1>6, <1>7 DEF Next

\* However the advertisement flickers, and wherever the counter wraps, two polls
\* for a change are ADV_CHANGE_POLL_MIN_MS apart, if the first was not at 0.
THEOREM ChangesPolledSeldomHolds == Spec => ChangesPolledSeldom
<1>1. ASSUME IInv, [Next]_vars, at'.change # at.change, at.change # Never, Ms(at.change) # 0
      PROVE  Elapsed(at.change) >= ChangeMin
  <2>1. at'["change"] # at["change"] /\ at["change"] # Never
    BY <1>1
  <2>2. Since(at["change"]) >= ChangeMin
    BY <1>1, <2>1, ChangeSets DEF PollForChange
  <2> QED
    BY <1>1, <2>1, <2>2, WaitIsOver, Parameters DEF Stamps
<1>2. IInv /\ [Next]_vars =>
      [at'.change # at.change /\ at.change # Never /\ Ms(at.change) # 0
       => Elapsed(at.change) >= ChangeMin]_vars
  BY <1>1
<1> QED
  BY <1>2, InvariantHolds, PTL DEF Spec, ChangesPolledSeldom

LEMMA ActivationSets ==
  ASSUME IInv, [Next]_vars, at'["activation"] # at["activation"]
  PROVE  /\ \E free \in BOOLEAN : A24Heard(free)
         /\ Packets >= MinPackets
         /\ Ms(at.activation) = 0 \/ Since(at.activation) >= Cooldown
<1>1. TypeOK /\ now \in Nat /\ at \in [Stamps -> {Never} \cup 0..now]
  BY Things DEF IInv
<1> DEFINE S == {Never} \cup 0..now
<1>2. at \in [Stamps -> S] /\ now \in S /\ \A s \in Stamps : at[s] \in S
  BY <1>1
<1> HIDE DEF S
<1>3. ASSUME NEW free \in BOOLEAN, A24Heard(free)
      PROVE  Packets >= MinPackets /\ (Ms(at.activation) = 0 \/ Since(at.activation) >= Cooldown)
  <2> DEFINE activated == /\ ~(Packets > 1 /\ burst.counted) /\ Packets >= MinPackets
                          /\ Ms(at.activation) = 0 \/ Since(at.activation) >= Cooldown
             stamps    == [at EXCEPT !.heard = now, !.activation = at.activation]
  <2> SUFFICES ASSUME ~activated PROVE FALSE
    OBVIOUS
  <2>1. \E j : MaybeConnect(free, j, stamps)
    BY <1>3 DEF A24Heard
  <2>2. stamps \in [Stamps -> S] /\ stamps["activation"] = at["activation"]
    BY <1>2, Stamped DEF Stamps
  <2> HIDE DEF stamps
  <2> QED
    BY <2>1, <2>2, OtherStampsKept DEF Stamps
<1>4. ASSUME NEW changed \in BOOLEAN, NEW free \in BOOLEAN, C20Heard(changed, free) PROVE FALSE
  <2>1. PICK j, b : MaybeConnect(free, j, [at EXCEPT !.heard = now, !.change = IF b THEN now ELSE @])
    BY <1>4 DEF C20Heard
  <2> DEFINE u      == IF b THEN now ELSE at.change
             stamps == [at EXCEPT !.heard = now, !.change = u]
  <2>2. u \in S
    BY <1>2 DEF Stamps
  <2>3. MaybeConnect(free, j, stamps)
    BY <2>1
  <2> HIDE DEF u
  <2>4. stamps \in [Stamps -> S] /\ stamps["activation"] = at["activation"]
    BY <1>2, <2>2, Stamped DEF Stamps
  <2> HIDE DEF stamps
  <2> QED
    BY <2>3, <2>4, OtherStampsKept DEF Stamps
<1>5. ASSUME NEW free \in BOOLEAN, Press(free) PROVE FALSE
  <2>1. \E near, j : MaybeConnect(near, j, at)
    BY <1>5 DEF Press
  <2> QED
    BY <1>2, <2>1, OtherStampsKept DEF Stamps
<1>6. CASE Succeeds
  BY <1>2, <1>6 DEF Succeeds, Stamps
<1>7. ~PressInVain /\ ~Connected /\ ~CommandDelivered /\ ~Fails /\ ~Tick /\ ~UNCHANGED vars
  BY DEF PressInVain, Connected, CommandDelivered, Fails, Tick, vars
<1> QED
  BY <1>3, <1>4, <1>5, <1>6, <1>7 DEF Next

\* on_advertisement counts an activation only after MinPackets packets without a
\* pause longer than BURST_GAP_MS, and not within the cooldown of the last one, for
\* any gap, cooldown and number of turns of the counter.  Only a pause of a whole
\* turn, or a last activation at reading 0, can be missed.
THEOREM ActivationsAreBurstsHolds == Spec => ActivationsAreBursts
<1>1. ASSUME IInv, [Next]_vars, at'.activation # at.activation
      PROVE  /\ inRow' >= MinPackets
             /\ at.activation # Never /\ Ms(at.activation) # 0 => Elapsed(at.activation) >= Cooldown
  <2>1. /\ Packets >= MinPackets
        /\ Ms(at.activation) = 0 \/ Since(at.activation) >= Cooldown
        /\ \E free \in BOOLEAN : A24Heard(free)
    <3>1. at'["activation"] # at["activation"]
      BY <1>1
    <3> QED
      BY <1>1, <3>1, ActivationSets
  <2>2. inRow' = IF Paused THEN 1 ELSE Lesser(inRow + 1, MinPackets)
    BY <2>1 DEF A24Heard
  <2>3. inRow' \in 1..MinPackets /\ Packets \in 1..MinPackets /\ Packets <= inRow'
    BY <1>1, <2>2, PacketsFacts DEF IInv
  <2>4. inRow' >= MinPackets
    <3>1. MinPackets \in Nat
      BY Parameters
    <3> QED
      BY <2>1, <2>3, <3>1
  <2>5. ASSUME at.activation # Never, Ms(at.activation) # 0
        PROVE  Elapsed(at.activation) >= Cooldown
    <3>1. at["activation"] # Never /\ Since(at["activation"]) >= Cooldown
      BY <2>1, <2>5
    <3> QED
      BY <1>1, <3>1, WaitIsOver, Parameters DEF Stamps
  <2> QED
    BY <2>4, <2>5
<1>2. IInv /\ [Next]_vars =>
      [at'.activation # at.activation
       => /\ inRow' >= MinPackets
          /\ at.activation # Never /\ Ms(at.activation) # 0 => Elapsed(at.activation) >= Cooldown]_vars
  BY <1>1
<1> QED
  BY <1>2, InvariantHolds, PTL DEF Spec, ActivationsAreBursts

=============================================================================
