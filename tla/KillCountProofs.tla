---------------------------- MODULE KillCountProofs ----------------------------
(***************************************************************************)
(* Proofs about KillCount: each kill is counted at most once, while        *)
(* nothing happens to trap and gateway Strikes is a tally of kills, and    *)
(* up to the marks it keeps no kill is missed, through power losses too.   *)
(***************************************************************************)
EXTENDS KillCount, FiniteSetTheorems, WellFoundedInduction, TLAPS

(***************************************************************************)
(* The inductive invariant.  Strikes is right, and Last Strike and         *)
(* kill_history_newest are not before any kill that it stands for and that *)
(* may be heard of again; unless something happened that the count is not  *)
(* safe from.                                                              *)
(***************************************************************************)
Sound == Without({"power", "lost", "between"})

Counted ==
  /\ EachKillOnce
  /\ ~mem.prefs.known => mem.prefs.counted = {}
  /\ \A k \in mem.prefs.counted : k <= clock /\ k <= mem.prefs.last
  /\ mem.cache.newest # 0 => \A k \in mem.prefs.counted \cap trap.kills : k <= mem.cache.newest

\* Only new firmware is read the history of, and is read it from the first
\* session on that begins with the gateway knowing of it; only old firmware is
\* read windows of the log.
Firmware ==
  /\ trap.fw = "old" => mem.fw # "new" /\ ~ses.sent /\ ~ses.got /\ mem.cache.newest = 0
  /\ vol.unanswered => mem.fw = "old"
  /\ mem.fw = "old" => mem.cache.newest = 0
  /\ ses.phase # "idle" /\ ~ses.asks => mem.cache.newest = 0 /\ ~ses.sent /\ ~ses.got
  /\ ses.phase \in {"history", "log", "end"} => mem.fw = trap.fw
  /\ ses.phase = "history" => ses.asks
  /\ ses.phase \in {"log", "end"} /\ ses.asks /\ trap.fw = "new" => ses.got
  /\ ses.plan = "window" => trap.fw = "old"

\* The history read was the trap's when it arrived, so that it tells of all that
\* was counted or is going to be replayed.
Sampled ==
  /\ ses.sent /\ ~ses.got => ses.sample = History
  /\ ses.got =>
       /\ ses.history \subseteq trap.kills
       /\ \A k \in trap.kills :
            k <= ses.end \/ k \in mem.prefs.counted => k <= Latest(ses.history)

\* How far the session is.
Asked ==
  /\ ses.phase = "idle" => ses = Idle
  /\ ses.phase \in {"firmware", "history"} =>
       ~ses.got /\ ses.plan = "none" /\ ~ses.complete /\ ses.end = 0
  /\ ses.phase = "firmware" => ~ses.sent
  /\ ses.got => ses.sent

\* What was replayed are kills up to the end asked for, and a window has none
\* that was counted before.
Replayed ==
  /\ ses.plan = "full" => ses.from = 0
  /\ ses.end <= clock
  /\ \A k \in trap.kills : k <= clock
  /\ ses.complete => ses.plan # "none" /\ \A k \in ses.events : k \in trap.kills /\ k <= ses.end
  /\ ses.complete /\ ses.plan = "window" => \A k \in ses.events : k > mem.prefs.last

\* While nothing has happened, what is counted is in the log, and in a replay of
\* all of it.
Faultless ==
  faults = {} =>
    /\ mem.prefs.counted \subseteq trap.kills
    /\ ses.plan # "none" => \A k \in mem.prefs.counted : k <= ses.end
    /\ ses.complete /\ ses.plan = "full" => mem.prefs.counted \subseteq ses.events

Careful == Counted /\ Firmware /\ Sampled
IInv    == TypeOK /\ Asked /\ Replayed /\ Faultless /\ (Sound => Careful)

-----------------------------------------------------------------------------
(***************************************************************************)
(* Sets of times.                                                          *)
(***************************************************************************)
LEMMA Numbers ==
  /\ MaxTime \in Nat /\ Overlap \in Nat /\ HistorySize \in Nat \ {0} /\ 2 \in Times
  /\ \A t \in Times : t \in Nat /\ t >= 2 /\ t <= MaxTime
BY KillCountAssumption DEF Times

LEMMA TimesFinite ==
  ASSUME NEW S \in SUBSET Times
  PROVE  IsFiniteSet(S) /\ Cardinality(S) \in Nat
<1>1. IsFiniteSet(Times)
  BY Numbers, FS_Interval DEF Times
<1>2. IsFiniteSet(S)
  BY <1>1, FS_Subset
<1> QED
  BY <1>2, FS_CardinalityType

\* Of the sets of times above some member of S, one is the smallest: it is empty.
LEMMA LastTime ==
  ASSUME NEW S \in SUBSET Times, S # {}
  PROVE  \E t \in S : \A u \in S : u <= t
<1> DEFINE Above(m) == {k \in S : k > m}
           family == {Above(m) : m \in S}
           R == StrictSubsetOrdering(S)
<1>1. IsWellFoundedOn(R, FiniteSubsetsOf(S))
  BY FS_StrictSubsetOrderingWellFounded
<1>2. \A m \in S : IsFiniteSet(Above(m))
  BY TimesFinite
<1>3. family \subseteq FiniteSubsetsOf(S) /\ family # {}
  BY <1>2 DEF FiniteSubsetsOf
<1> HIDE DEF R
<1>4. PICK X \in family : \A Y \in family : ~(<<Y, X>> \in R)
  BY <1>1, <1>3, WFMin
<1>5. PICK m \in S : X = Above(m)
  OBVIOUS
<1>6. ASSUME NEW k \in S, k > m PROVE FALSE
  <2>1. Above(k) \subseteq X /\ k \in X /\ k \notin Above(k) /\ Above(k) \in family
    BY <1>5, <1>6, Numbers
  <2>2. <<Above(k), X>> \in R
    BY <2>1, <1>5 DEF R, StrictSubsetOrdering
  <2> QED
    BY <1>4, <2>1, <2>2
<1> QED
  BY <1>6, Numbers

LEMMA LatestFacts ==
  ASSUME NEW S \in SUBSET Times
  PROVE  /\ Latest(S) \in {0} \cup Times /\ Latest(S) \in Nat
         /\ \A u \in S : u <= Latest(S)
         /\ S # {} => Latest(S) \in S
<1>1. CASE S = {}
  BY <1>1 DEF Latest
<1>2. CASE S # {}
  <2>1. Latest(S) = CHOOSE t \in S : \A u \in S : u <= t
    BY <1>2 DEF Latest
  <2>2. Latest(S) \in S /\ \A u \in S : u <= Latest(S)
    BY <1>2, <2>1, LastTime
  <2> QED
    BY <2>2, Numbers
<1> QED
  BY <1>1, <1>2

\* The history ends with the last kill.
LEMMA HistoryFacts ==
  ASSUME trap.kills \in SUBSET Times
  PROVE  /\ History \in SUBSET Times /\ History \subseteq trap.kills
         /\ \A k \in trap.kills : k <= Latest(History)
<1>1. History \subseteq trap.kills
  BY DEF History
<1> SUFFICES ASSUME NEW k \in trap.kills PROVE k <= Latest(History)
  BY <1>1
<1> DEFINE m == Latest(trap.kills)
<1>2. m \in trap.kills /\ k <= m /\ \A u \in trap.kills : u <= m
  BY LatestFacts
<1> HIDE DEF m
<1>3. {j \in trap.kills : j > m} = {}
  BY <1>2, Numbers
<1>4. m \in History
  BY <1>2, <1>3, FS_EmptySet, Numbers DEF History
<1>5. m <= Latest(History) /\ Latest(History) \in Nat
  BY <1>1, <1>4, LatestFacts
<1> QED
  BY <1>2, <1>5, Numbers

LEMMA LaterFacts ==
  ASSUME NEW t \in Nat, NEW u \in Nat
  PROVE  /\ Later(t, u) \in Nat /\ (Later(t, u) = t \/ Later(t, u) = u)
         /\ Later(t, u) >= t /\ Later(t, u) >= u
BY DEF Later

LEMMA DisjointUnion ==
  ASSUME NEW S \in SUBSET Times, NEW T \in SUBSET Times, \A k \in S : k \notin T
  PROVE  Cardinality(S \cup T) = Cardinality(S) + Cardinality(T)
<1>1. S \cap T = {}
  OBVIOUS
<1>2. Cardinality(S \cup T) = Cardinality(S) + Cardinality(T) - Cardinality(S \cap T)
  BY TimesFinite, FS_Union
<1> QED
  BY <1>1, <1>2, TimesFinite, FS_EmptySet

-----------------------------------------------------------------------------
(***************************************************************************)
(* The records.                                                            *)
(***************************************************************************)
LEMMA Things ==
  ASSUME TypeOK
  PROVE  /\ clock \in Nat /\ clock \in Times /\ trap.kills \in SUBSET Times
         /\ mem \in Records /\ flash \in Records /\ ses \in Session
         /\ trap \in [kills : SUBSET Times, fw : {"old", "new"}]
         /\ ses.end \in Nat /\ ses.end \in {0} \cup Times
         /\ ses.history \in SUBSET Times /\ ses.sample \in SUBSET Times
         /\ ses.events \in SUBSET Times
<1>1. clock \in Nat
  BY Numbers DEF TypeOK
<1>2. /\ ses.end \in {0} \cup Times /\ ses.history \in SUBSET Times
      /\ ses.sample \in SUBSET Times /\ ses.events \in SUBSET Times
  BY DEF TypeOK, Session
<1>3. ses.end \in Nat
  BY <1>2, Numbers
<1> QED
  BY <1>1, <1>2, <1>3 DEF TypeOK

LEMMA RecordFacts ==
  ASSUME NEW m \in Records
  PROVE  /\ m.prefs.strikes \in Nat /\ m.prefs.known \in BOOLEAN
         /\ m.prefs.last \in {0} \cup Times /\ m.prefs.last \in Nat
         /\ m.prefs.counted \in SUBSET Times
         /\ m.cache.newest \in {0, 1} \cup Times /\ m.cache.newest \in Nat
         /\ m.cache.scanned \in {0} \cup Times /\ m.cache.scanned \in Nat
         /\ m.cache.full \in {0} \cup Times
         /\ m.fw \in {"unknown", "old", "new"}
<1>1. m.prefs.last \in {0} \cup Times /\ m.cache.newest \in {0, 1} \cup Times
      /\ m.cache.scanned \in {0} \cup Times
  BY DEF Records
<1> QED
  BY <1>1, Numbers DEF Records

LEMMA NewTrapType == NewTrap \in Records /\ Forgetful \in [unanswered : BOOLEAN, rescan : BOOLEAN]
<1>1. 0 \in Nat /\ {} \in SUBSET Times
  OBVIOUS
<1> QED
  BY <1>1 DEF NewTrap, Forgetful, Records

LEMMA IdleFacts ==
  /\ Idle \in Session
  /\ Idle.phase = "idle" /\ ~Idle.sent /\ ~Idle.got /\ Idle.plan = "none" /\ ~Idle.complete
  /\ Idle.end = 0 /\ ~Idle.asks
BY DEF Idle, Session

\* What a log replayed leaves of the records.
LEMMA AfterLogFacts ==
  ASSUME TypeOK, NEW m \in Records
  PROVE  LET n == AfterLog(m) IN
         /\ n \in Records /\ n.fw = m.fw /\ n.cache.newest = m.cache.newest /\ n.prefs.known
         /\ n.cache.scanned = ses.end
         /\ ses.plan = "full" =>
              /\ n.prefs.counted = ses.events /\ n.prefs.strikes = Cardinality(ses.events)
              /\ n.prefs.last = Latest(ses.events)
         /\ ses.plan # "full" =>
              /\ n.prefs.counted = m.prefs.counted \cup ses.events
              /\ n.prefs.strikes = m.prefs.strikes + Cardinality(ses.events)
              /\ n.prefs.last = Later(m.prefs.last, Latest(ses.events))
<1> DEFINE n == AfterLog(m)
           total == Cardinality(ses.events)
           last == Latest(ses.events)
           later == Later(m.prefs.last, last)
<1>1. /\ total \in Nat /\ last \in {0} \cup Times /\ last \in Nat
      /\ ses.events \in SUBSET Times /\ ses.end \in {0} \cup Times
  BY Things, TimesFinite, LatestFacts
<1>2. later \in {0} \cup Times
  <2>1. later = m.prefs.last \/ later = last
    BY <1>1, RecordFacts, LaterFacts
  <2> QED
    BY <1>1, <2>1, RecordFacts
<1>3. m.prefs.strikes + total \in Nat
  BY <1>1, RecordFacts
<1>4. CASE ses.plan = "full"
  <2>1. n = [m EXCEPT
               !.prefs = [strikes |-> total, known |-> TRUE, last |-> last, counted |-> ses.events],
               !.cache.scanned = ses.end, !.cache.full = ses.end]
    BY <1>4 DEF AfterLog
  <2> HIDE DEF n, total, last
  <2>2. /\ n \in Records /\ n.fw = m.fw /\ n.cache.newest = m.cache.newest /\ n.prefs.known
        /\ n.cache.scanned = ses.end
        /\ n.prefs.counted = ses.events /\ n.prefs.strikes = total /\ n.prefs.last = last
    BY <1>1, <2>1 DEF Records
  <2> QED
    BY <1>4, <2>2 DEF n, total, last
<1>5. CASE ses.plan # "full"
  <2>1. n = [m EXCEPT
               !.prefs = [strikes |-> m.prefs.strikes + total, known |-> TRUE, last |-> later,
                          counted |-> m.prefs.counted \cup ses.events],
               !.cache.scanned = ses.end]
    BY <1>5 DEF AfterLog, Records
  <2>2. m.prefs.counted \cup ses.events \in SUBSET Times
    BY <1>1, RecordFacts
  <2> HIDE DEF n, total, last, later
  <2>3. /\ n \in Records /\ n.fw = m.fw /\ n.cache.newest = m.cache.newest /\ n.prefs.known
        /\ n.cache.scanned = ses.end
        /\ n.prefs.counted = m.prefs.counted \cup ses.events
        /\ n.prefs.strikes = m.prefs.strikes + total /\ n.prefs.last = later
    BY <1>1, <1>2, <1>3, <2>1, <2>2 DEF Records
  <2> QED
    BY <1>5, <2>3 DEF n, total, last, later
<1> QED
  BY <1>4, <1>5

\* What a history received leaves of them.
LEMMA AfterHistoryFacts ==
  ASSUME TypeOK, NEW m \in Records, NEW replayed \in BOOLEAN
  PROVE  LET n      == AfterHistory(m, replayed)
             newest == Latest(ses.history)
             fresh  == {t \in ses.history : t > m.cache.newest}
         IN
         /\ n \in Records /\ n.fw = m.fw /\ n.prefs.known
         /\ n.cache.newest >= 1 /\ n.cache.newest >= newest /\ n.cache.newest >= m.cache.newest
         /\ n.cache.newest \in {m.cache.newest, newest, 1} /\ n.cache.scanned = m.cache.scanned
         /\ ~replayed /\ m.cache.newest # 0 =>
              \A t \in ses.history : t > m.cache.newest => t \in n.prefs.counted
         /\ \/ /\ ~m.prefs.known
               /\ n.prefs.counted = ses.history
               /\ n.prefs.strikes = Cardinality(ses.history)
               /\ n.prefs.last = Later(m.prefs.last, newest)
            \/ /\ m.prefs.known
               /\ n.prefs.counted = m.prefs.counted
               /\ n.prefs.strikes = m.prefs.strikes
               /\ n.prefs.last \in {m.prefs.last, Later(m.prefs.last, newest)}
            \/ /\ m.prefs.known /\ ~replayed /\ m.cache.newest # 0
               /\ n.prefs.counted = m.prefs.counted \cup fresh
               /\ n.prefs.strikes = m.prefs.strikes + Cardinality(fresh)
               /\ n.prefs.last = Later(m.prefs.last, newest)
<1> DEFINE n      == AfterHistory(m, replayed)
           newest == Latest(ses.history)
           seen   == m.cache.newest
           fresh  == {t \in ses.history : t > seen}
           later  == Later(m.prefs.last, newest)
           mark   == Later(Later(seen, newest), 1)
           total  == Cardinality(fresh)
           all    == Cardinality(ses.history)
           p      == [m.prefs EXCEPT !.last = later]
           marked == [m EXCEPT !.cache.newest = mark]
<1>1. /\ ses.history \in SUBSET Times /\ newest \in {0} \cup Times /\ newest \in Nat
      /\ fresh \in SUBSET Times /\ total \in Nat /\ all \in Nat
  BY Things, TimesFinite, LatestFacts
<1>2. /\ m.prefs.last \in {0} \cup Times /\ m.prefs.last \in Nat
      /\ seen \in {0, 1} \cup Times /\ seen \in Nat
      /\ m.prefs.strikes \in Nat /\ m.prefs.counted \in SUBSET Times
  BY RecordFacts
<1> HIDE DEF newest, seen, total, all, fresh
<1>3. later \in {0} \cup Times
  BY <1>1, <1>2, LaterFacts
<1>4. /\ mark \in {0, 1} \cup Times /\ mark \in Nat
      /\ mark >= 1 /\ mark >= newest /\ mark >= seen
      /\ mark \in {seen, newest, 1}
  <2>1. /\ Later(seen, newest) \in Nat /\ Later(seen, newest) \in {0, 1} \cup Times
        /\ Later(seen, newest) >= newest /\ Later(seen, newest) >= seen
        /\ Later(seen, newest) \in {seen, newest}
    BY <1>1, <1>2, LaterFacts
  <2> HIDE DEF mark
  <2>2. mark = Later(Later(seen, newest), 1)
    BY DEF mark
  <2>3. /\ mark \in Nat /\ mark >= Later(seen, newest) /\ mark >= 1
        /\ mark = Later(seen, newest) \/ mark = 1
    BY <2>1, <2>2, LaterFacts
  <2> QED
    BY <1>1, <1>2, <2>1, <2>3
<1> HIDE DEF later, mark
<1>5. /\ p \in [strikes : Nat, known : BOOLEAN, last : {0} \cup Times, counted : SUBSET Times]
      /\ p.strikes = m.prefs.strikes /\ p.known = m.prefs.known /\ p.last = later
      /\ p.counted = m.prefs.counted
  BY <1>3 DEF Records
<1>6. /\ marked \in Records /\ marked.fw = m.fw /\ marked.prefs = m.prefs
      /\ marked.cache.newest = mark /\ marked.cache.scanned = m.cache.scanned
  BY <1>4 DEF Records
<1>7. n = IF ~m.prefs.known
          THEN [marked EXCEPT !.prefs = [p EXCEPT !.known = TRUE, !.counted = ses.history,
                                                  !.strikes = all]]
          ELSE IF replayed \/ seen = 0
          THEN [marked EXCEPT !.prefs = p]
          ELSE IF fresh # {}
          THEN [marked EXCEPT !.prefs = [p EXCEPT !.strikes = @ + total,
                                                  !.counted = @ \cup fresh]]
          ELSE marked
  BY DEF AfterHistory, newest, seen, fresh, later, mark, total, all
<1> HIDE DEF n, p, marked
<1> DEFINE Good == /\ n \in Records /\ n.fw = m.fw /\ n.prefs.known
                   /\ n.cache.newest = mark /\ n.cache.scanned = m.cache.scanned
<1>8. CASE ~m.prefs.known
  <2> DEFINE q == [p EXCEPT !.known = TRUE, !.counted = ses.history, !.strikes = all]
  <2>1. /\ q \in [strikes : Nat, known : BOOLEAN, last : {0} \cup Times, counted : SUBSET Times]
        /\ q.known /\ q.counted = ses.history /\ q.strikes = all /\ q.last = later
    BY <1>1, <1>5
  <2>2. n = [marked EXCEPT !.prefs = q]
    BY <1>7, <1>8
  <2> HIDE DEF q
  <2>3. Good /\ n.prefs = q
    BY <1>6, <2>1, <2>2 DEF Records
  <2> QED
    BY <1>4, <1>8, <2>1, <2>3 DEF n, newest, seen, fresh, later, all
<1>9. CASE m.prefs.known /\ (replayed \/ seen = 0)
  <2>1. n = [marked EXCEPT !.prefs = p]
    BY <1>7, <1>9
  <2>2. Good /\ n.prefs = p
    BY <1>5, <1>6, <1>9, <2>1 DEF Records
  <2> QED
    BY <1>4, <1>5, <1>9, <2>2 DEF n, newest, seen, fresh, later
<1>10. CASE m.prefs.known /\ ~replayed /\ seen # 0 /\ fresh # {}
  <2> DEFINE more == p.counted \cup fresh
             sum  == p.strikes + total
             q    == [p EXCEPT !.strikes = sum, !.counted = more]
  <2>1. more \in SUBSET Times /\ sum \in Nat
    BY <1>1, <1>2, <1>5
  <2>2. n = [marked EXCEPT !.prefs = q]
    BY <1>5, <1>7, <1>10
  <2> HIDE DEF more, sum
  <2>3. /\ q \in [strikes : Nat, known : BOOLEAN, last : {0} \cup Times, counted : SUBSET Times]
        /\ q.known /\ q.counted = more /\ q.strikes = sum /\ q.last = later
    BY <1>5, <1>10, <2>1
  <2> HIDE DEF q
  <2>4. Good /\ n.prefs = q
    BY <1>6, <2>2, <2>3 DEF Records
  <2> QED
    BY <1>4, <1>5, <1>10, <2>3, <2>4 DEF n, newest, seen, fresh, later, more, sum, total
<1>11. CASE m.prefs.known /\ ~replayed /\ seen # 0 /\ fresh = {}
  <2>1. n = marked
    BY <1>7, <1>11
  <2>2. \A t \in ses.history : ~(t > m.cache.newest)
    BY <1>11 DEF fresh, seen
  <2> QED
    BY <1>4, <1>6, <1>11, <2>1, <2>2 DEF n, newest, seen, later
<1> QED
  BY <1>8, <1>9, <1>10, <1>11

-----------------------------------------------------------------------------
(***************************************************************************)
(* What a step leaves alone.                                               *)
(***************************************************************************)
LEMMA SoundBefore ==
  ASSUME Sound', faults \subseteq faults'
  PROVE  Sound
BY DEF Sound, Without

LEMMA FaultFacts ==
  ASSUME TypeOK, NEW f, Fault(f)
  PROVE  /\ faults' \subseteq Faults /\ faults \subseteq faults' /\ faults' # {}
         /\ f \in {"power", "lost", "between"} => ~Sound'
BY DEF Fault, TypeOK, Sound, Without

LEMMA CountedKept ==
  ASSUME TypeOK, Counted, mem'.prefs = mem.prefs, mem'.cache = mem.cache,
         clock' \in Nat, clock <= clock',
         \A k \in mem.prefs.counted : k \in trap'.kills => k \in trap.kills
  PROVE  Counted'
<1>1. mem.prefs.counted \in SUBSET Times /\ clock \in Nat
  BY Things, RecordFacts
<1>2. \A k \in mem.prefs.counted : k \in Nat
  BY <1>1, Numbers
<1>3. \A k \in mem'.prefs.counted : k <= clock' /\ k <= mem'.prefs.last
  BY <1>1, <1>2 DEF Counted
<1> QED
  BY <1>3 DEF Counted, EachKillOnce

\* plan_striker_log asks for the log up to now, or for nothing.
LEMMA PlanLogFacts ==
  ASSUME TypeOK, NEW s \in Session, s.plan = "none", s.end = 0,
         NEW fw, NEW unanswered \in BOOLEAN, PlanLog(s, fw, unanswered)
  PROVE  /\ ses' \in Session /\ ses'.phase \in {"log", "end"}
         /\ vol' \in [unanswered : BOOLEAN, rescan : BOOLEAN] /\ vol'.unanswered = unanswered
         /\ \A f \in {"asks", "sent", "sample", "got", "history", "complete", "events"} : ses'[f] = s[f]
         /\ ses'.plan = "full" => ses'.from = 0
         /\ ses'.end \in {0, clock} /\ (ses'.plan # "none" => ses'.end = clock)
         /\ ses'.plan = "window" =>
              ~UsesHistory(fw, unanswered) /\ mem.prefs.known /\ ses'.from <= mem.cache.scanned
<1>0. vol \in [unanswered : BOOLEAN, rescan : BOOLEAN] /\ clock \in {0} \cup Times
  BY Things DEF TypeOK
<1>1. CASE /\ ses' = [s EXCEPT !.phase = "end"]
           /\ vol' = [vol EXCEPT !.unanswered = unanswered]
  BY <1>0, <1>1 DEF Session
<1>2. CASE /\ ~UsesHistory(fw, unanswered) \/ ~mem.prefs.known \/ vol.rescan
           /\ ses' = [s EXCEPT !.phase = "log", !.end = clock,
                               !.plan = IF WholeLog THEN "full" ELSE "window",
                               !.from = IF WholeLog THEN 0 ELSE WindowStart]
           /\ vol' = [unanswered |-> unanswered, rescan |-> FALSE]
  <2>1. WindowStart \in {0} \cup 1..MaxTime /\ WindowStart <= mem.cache.scanned
    <3>1. /\ mem.cache.scanned \in Nat /\ Overlap \in Nat /\ MaxTime \in Nat
          /\ mem.cache.scanned <= MaxTime
      BY Things, RecordFacts, Numbers
    <3> QED
      BY <3>1 DEF WindowStart
  <2>2. CASE WholeLog
    BY <1>0, <1>2, <2>2 DEF Session
  <2>3. CASE ~WholeLog
    <3>1. mem.prefs.known /\ ~vol.rescan
      BY <2>3 DEF WholeLog
    <3> HIDE DEF WindowStart
    <3> QED
      BY <1>0, <1>2, <2>1, <2>3, <3>1 DEF Session
  <2> QED
    BY <2>2, <2>3
<1> QED
  BY <1>1, <1>2 DEF PlanLog

-----------------------------------------------------------------------------
(***************************************************************************)
(* The actions: the trap, time and the user.                               *)
(***************************************************************************)
LEMMA KillKeeps ==
  ASSUME IInv, Kill
  PROVE  IInv'
<1>1. /\ TypeOK /\ clock \in Nat /\ clock + 1 \in Times
      /\ trap \in [kills : SUBSET Times, fw : {"old", "new"}] /\ mem \in Records
      /\ mem.prefs.counted \in SUBSET Times /\ ses \in Session /\ ses.end \in Nat
  BY Things, RecordFacts, Numbers DEF IInv, Kill, Times
<1>2. /\ trap' \in [kills : SUBSET Times, fw : {"old", "new"}]
      /\ trap'.kills = trap.kills \cup {clock + 1} /\ trap'.fw = trap.fw
      /\ clock' = clock + 1 /\ UNCHANGED <<mem, flash, vol, ses>>
  BY <1>1 DEF Kill
<1>3. faults' \subseteq Faults /\ faults \subseteq faults' /\ (ses.sent /\ ~ses.got => ~Sound')
  <2>1. CASE AnswerOnItsWay
    BY <1>1, <2>1, FaultFacts DEF Kill
  <2>2. CASE ~AnswerOnItsWay
    BY <1>1, <2>2 DEF Kill, AnswerOnItsWay, TypeOK
  <2> QED
    BY <2>1, <2>2
<1>4. TypeOK'
  BY <1>1, <1>2, <1>3 DEF TypeOK
<1>5. Asked'
  BY <1>2 DEF IInv, Asked
<1>6. Replayed'
  <2>1. \A k \in trap'.kills : k <= clock'
    BY <1>1, <1>2, Numbers DEF IInv, Replayed
  <2> QED
    BY <1>1, <1>2, <2>1 DEF IInv, Replayed
<1>7. Faultless'
  BY <1>2, <1>3 DEF IInv, Faultless
<1>8. ASSUME Sound' PROVE Careful'
  <2>1. Counted /\ Firmware /\ Sampled /\ ~(ses.sent /\ ~ses.got)
    BY <1>3, <1>8, SoundBefore DEF IInv, Careful
  <2>2. \A k \in mem.prefs.counted : k \in trap'.kills => k \in trap.kills
    BY <1>1, <1>2, <2>1 DEF Counted
  <2>3. Counted'
    BY <1>1, <1>2, <2>1, <2>2, CountedKept
  <2>4. Firmware'
    BY <1>2, <2>1 DEF Firmware
  <2>5. Sampled'
    <3>1. clock + 1 \notin mem.prefs.counted /\ ~(clock + 1 <= ses.end)
      BY <1>1, <2>1 DEF Counted, IInv, Replayed
    <3> QED
      BY <1>2, <2>1, <3>1 DEF Sampled
  <2> QED
    BY <2>3, <2>4, <2>5 DEF Careful
<1> QED
  BY <1>4, <1>5, <1>6, <1>7, <1>8 DEF IInv

\* Steps that touch no session, and no record but flash.
LEMMA QuietKeeps ==
  ASSUME IInv, Tick \/ PollNow \/ Sync
  PROVE  IInv'
<1>1. TypeOK /\ clock \in Nat /\ clock' \in Nat /\ clock <= clock' /\ clock' \in Times
  BY Things, Numbers DEF IInv, Tick, PollNow, Sync, Times
<1>2. UNCHANGED <<trap, mem, ses, faults>> /\ vol'.unanswered = vol.unanswered
  BY DEF Tick, PollNow, Sync, IInv, TypeOK
<1>3. TypeOK'
  BY <1>1, <1>2 DEF TypeOK, Tick, PollNow, Sync
<1>4. Asked' /\ Faultless'
  BY <1>2 DEF IInv, Asked, Faultless
<1>5. Replayed'
  <2>1. ses.end \in Nat /\ ses.end <= clock'
    BY <1>1, Things DEF IInv, Replayed
  <2>2. \A k \in trap.kills : k <= clock'
    <3>1. \A k \in trap.kills : k \in Nat /\ k <= clock
      BY <1>1, Things, Numbers DEF IInv, Replayed
    <3> QED
      BY <1>1, <3>1
  <2> QED
    BY <1>2, <2>1, <2>2 DEF IInv, Replayed
<1>6. ASSUME Sound' PROVE Careful'
  <2>1. Counted /\ Firmware /\ Sampled
    BY <1>2, <1>6 DEF IInv, Careful, Sound, Without
  <2>2. Counted'
    BY <1>1, <1>2, <2>1, CountedKept
  <2>3. Firmware' /\ Sampled'
    BY <1>2, <2>1 DEF Firmware, Sampled, History
  <2> QED
    BY <2>2, <2>3 DEF Careful
<1> QED
  BY <1>3, <1>4, <1>5, <1>6 DEF IInv

LEMMA TrapChangesKeep ==
  ASSUME IInv, FactoryReset \/ FirmwareUpdate
  PROVE  IInv'
<1>1. /\ TypeOK /\ clock \in Nat /\ trap \in [kills : SUBSET Times, fw : {"old", "new"}]
      /\ ses = Idle /\ UNCHANGED <<clock, mem, flash, vol, ses>>
  BY Things DEF IInv, Asked, FactoryReset, FirmwareUpdate
<1>2. faults' \subseteq Faults /\ faults \subseteq faults' /\ faults' # {}
  BY <1>1, FaultFacts DEF FactoryReset, FirmwareUpdate
<1>3. /\ trap' \in [kills : SUBSET Times, fw : {"old", "new"}]
      /\ trap'.kills \subseteq trap.kills
      /\ trap'.fw = trap.fw \/ trap'.fw = "new"
  BY <1>1 DEF FactoryReset, FirmwareUpdate
<1>4. TypeOK'
  BY <1>1, <1>2, <1>3 DEF TypeOK
<1>5. Asked' /\ Replayed' /\ Faultless'
  BY <1>1, <1>2, <1>3, IdleFacts DEF IInv, Asked, Replayed, Faultless
<1>6. ASSUME Sound' PROVE Careful'
  <2>1. Counted /\ Firmware
    BY <1>2, <1>6, SoundBefore DEF IInv, Careful
  <2>2. Counted'
    BY <1>1, <1>3, <2>1, CountedKept
  <2>3. Firmware' /\ Sampled'
    BY <1>1, <1>3, <2>1, IdleFacts DEF Firmware, Sampled
  <2> QED
    BY <2>2, <2>3 DEF Careful
<1> QED
  BY <1>4, <1>5, <1>6 DEF IInv

-----------------------------------------------------------------------------
(***************************************************************************)
(* The actions: a session up to its end.                                   *)
(***************************************************************************)

\* A step of the session alone keeps the marks and what is counted.
LEMMA SessionStep ==
  ASSUME IInv, mem' \in Records, mem'.prefs = mem.prefs, mem'.cache = mem.cache,
         UNCHANGED <<clock, trap, flash>>, ses' \in Session,
         vol' \in [unanswered : BOOLEAN, rescan : BOOLEAN],
         faults' \subseteq Faults, faults \subseteq faults',
         Asked', Replayed', Faultless', Sound' => Firmware' /\ Sampled'
  PROVE  IInv'
<1>1. TypeOK /\ TypeOK' /\ clock \in Nat
  BY Things DEF IInv, TypeOK
<1>2. ASSUME Sound' PROVE Careful'
  <2>1. Counted
    BY <1>2, SoundBefore DEF IInv, Careful
  <2>2. Counted'
    BY <1>1, <2>1, CountedKept
  <2> QED
    BY <1>2, <2>2 DEF Careful
<1> QED
  BY <1>1, <1>2 DEF IInv

LEMMA TrapAnswersKeeps ==
  ASSUME IInv, TrapAnswers
  PROVE  IInv'
<1>1. /\ TypeOK /\ ses \in Session /\ mem \in Records /\ History \in SUBSET Times
      /\ vol \in [unanswered : BOOLEAN, rescan : BOOLEAN] /\ faults \subseteq Faults
  BY Things, HistoryFacts DEF IInv, TypeOK
<1>2. /\ ses.phase = "history" /\ ~ses.sent /\ trap.fw = "new"
      /\ ses' = [ses EXCEPT !.sent = TRUE, !.sample = History]
      /\ UNCHANGED <<clock, trap, mem, flash, vol, faults>>
  BY DEF TrapAnswers
<1>3. /\ ses' \in Session /\ ses'.sent /\ ses'.sample = History
      /\ \A f \in {"phase", "asks", "got", "history", "plan", "from", "end", "complete", "events"} :
           ses'[f] = ses[f]
  BY <1>1, <1>2 DEF Session
<1>4. Asked' /\ Replayed' /\ Faultless'
  BY <1>2, <1>3 DEF IInv, Asked, Replayed, Faultless
<1>5. ASSUME Sound' PROVE Firmware' /\ Sampled'
  <2>1. Firmware /\ Sampled
    BY <1>2, <1>5 DEF IInv, Careful, Sound, Without
  <2>2. Firmware'
    BY <1>2, <1>3, <2>1 DEF Firmware
  <2>3. Sampled'
    BY <1>2, <1>3, <2>1 DEF Sampled, History
  <2> QED
    BY <2>2, <2>3
<1> QED
  BY <1>1, <1>2, <1>3, <1>4, <1>5, SessionStep

LEMMA BeginKeeps ==
  ASSUME IInv, Begin
  PROVE  IInv'
<1>1. /\ TypeOK /\ mem \in Records /\ vol \in [unanswered : BOOLEAN, rescan : BOOLEAN]
      /\ faults \subseteq Faults
  BY Things DEF IInv, TypeOK
<1>2. PICK logs \in BOOLEAN :
        ses' = [Idle EXCEPT !.phase = "firmware", !.logs = logs,
                            !.asks = UsesHistory(mem.fw, vol.unanswered)]
  BY DEF Begin
<1>3. /\ ses' \in Session /\ ses'.phase = "firmware" /\ ~ses'.sent /\ ~ses'.got
      /\ ses'.asks = UsesHistory(mem.fw, vol.unanswered)
      /\ ses'.plan = "none" /\ ~ses'.complete /\ ses'.end = 0
  BY <1>2, IdleFacts DEF Session, UsesHistory
<1>4. UNCHANGED <<clock, trap, mem, flash, vol, faults>>
  BY DEF Begin
<1>5. Asked' /\ Faultless'
  BY <1>3, <1>4 DEF IInv, Asked, Faultless
<1>6. Replayed'
  <2>1. 0 <= clock
    BY <1>1, Things
  <2> QED
    BY <1>3, <1>4, <2>1 DEF IInv, Replayed
<1>7. ASSUME Sound' PROVE Firmware' /\ Sampled'
  <2>1. Firmware
    BY <1>4, <1>7 DEF IInv, Careful, Sound, Without
  <2>2. ~ses'.asks => mem.cache.newest = 0
    BY <1>3, <2>1 DEF UsesHistory, Firmware
  <2> QED
    BY <1>3, <1>4, <2>1, <2>2 DEF Firmware, Sampled
<1> QED
  BY <1>1, <1>3, <1>4, <1>5, <1>6, <1>7, SessionStep

\* What the plan to replay the log keeps, made in a session like s.
LEMMA PlanKeeps ==
  ASSUME IInv, NEW s \in Session, s.plan = "none", s.end = 0, ~s.complete,
         s.got => s.sent, NEW fw, NEW unanswered \in BOOLEAN, PlanLog(s, fw, unanswered),
         mem'.prefs = mem.prefs, UNCHANGED <<clock, trap>>, faults \subseteq faults'
  PROVE  Asked' /\ Replayed' /\ Faultless'
<1>1. TypeOK /\ clock \in Nat /\ mem.prefs.counted \in SUBSET Times
  BY Things, RecordFacts DEF IInv
<1>2. /\ ses'.phase \in {"log", "end"} /\ ~ses'.complete
      /\ ses'.sent = s.sent /\ ses'.got = s.got /\ ses'.plan \in {"none", "full", "window"}
      /\ ses'.plan = "full" => ses'.from = 0
      /\ ses'.end \in {0, clock} /\ (ses'.plan # "none" => ses'.end = clock)
  BY <1>1, PlanLogFacts DEF Session
<1>3. Asked'
  BY <1>2 DEF Asked
<1>4. Replayed'
  BY <1>1, <1>2 DEF IInv, Replayed
<1>5. Faultless'
  BY <1>2 DEF IInv, Faultless, Replayed
<1> QED
  BY <1>3, <1>4, <1>5

LEMMA FirmwareAnswerKeeps ==
  ASSUME IInv, FirmwareAnswer
  PROVE  IInv'
<1> DEFINE unanswered == vol.unanswered /\ mem.fw = trap.fw
<1>1. /\ TypeOK /\ ses \in Session /\ mem \in Records /\ trap.fw \in {"old", "new"}
      /\ vol \in [unanswered : BOOLEAN, rescan : BOOLEAN] /\ faults \subseteq Faults
      /\ unanswered \in BOOLEAN
  BY Things DEF IInv, TypeOK
<1>2. /\ ses.phase = "firmware" /\ ~ses.sent /\ ~ses.got /\ ses.plan = "none"
      /\ ~ses.complete /\ ses.end = 0
  BY DEF FirmwareAnswer, IInv, Asked
<1>3. /\ mem' \in Records /\ mem'.prefs = mem.prefs /\ mem'.cache = mem.cache /\ mem'.fw = trap.fw
      /\ UNCHANGED <<clock, trap, flash, faults>>
  BY <1>1 DEF FirmwareAnswer, Records
<1>4. CASE ses.asks
  <2>1. /\ ses' = [ses EXCEPT !.phase = "history"]
        /\ vol' = [vol EXCEPT !.unanswered = unanswered]
    BY <1>4 DEF FirmwareAnswer
  <2>2. /\ ses' \in Session /\ ses'.phase = "history" /\ ses'.asks /\ ~ses'.sent /\ ~ses'.got
        /\ ses'.plan = "none" /\ ~ses'.complete /\ ses'.end = 0
        /\ vol' \in [unanswered : BOOLEAN, rescan : BOOLEAN] /\ vol'.unanswered = unanswered
    BY <1>1, <1>2, <1>4, <2>1 DEF Session
  <2>3. Asked' /\ Replayed' /\ Faultless'
    BY <1>2, <1>3, <2>2 DEF IInv, Asked, Replayed, Faultless
  <2>4. ASSUME Sound' PROVE Firmware' /\ Sampled'
    <3>1. Firmware
      BY <1>3, <2>4 DEF IInv, Careful, Sound, Without
    <3> QED
      BY <1>1, <1>3, <2>2, <3>1 DEF Firmware, Sampled
  <2> HIDE DEF unanswered
  <2> QED
    BY <1>1, <1>3, <2>2, <2>3, <2>4, SessionStep
<1>5. CASE ~ses.asks
  <2>1. PlanLog(ses, trap.fw, unanswered)
    BY <1>5 DEF FirmwareAnswer
  <2>2. /\ ses' \in Session /\ ses'.phase \in {"log", "end"} /\ ~ses'.asks /\ ~ses'.sent /\ ~ses'.got
        /\ vol' \in [unanswered : BOOLEAN, rescan : BOOLEAN] /\ vol'.unanswered = unanswered
        /\ ses'.plan = "window" => ~UsesHistory(trap.fw, unanswered)
    BY <1>1, <1>2, <1>5, <2>1, PlanLogFacts
  <2>3. Asked' /\ Replayed' /\ Faultless'
    BY <1>1, <1>2, <1>3, <2>1, PlanKeeps
  <2>4. ASSUME Sound' PROVE Firmware' /\ Sampled'
    <3>1. Firmware
      BY <1>3, <2>4 DEF IInv, Careful, Sound, Without
    <3>2. ses'.plan = "window" => trap.fw = "old"
      BY <1>1, <2>2, <3>1 DEF UsesHistory, Firmware
    <3>3. mem.cache.newest = 0
      BY <1>2, <1>5, <3>1 DEF Firmware
    <3> QED
      BY <1>1, <1>3, <2>2, <3>1, <3>2, <3>3 DEF Firmware, Sampled
  <2> HIDE DEF unanswered
  <2> QED
    BY <1>1, <1>3, <2>2, <2>3, <2>4, SessionStep
<1> QED
  BY <1>4, <1>5

LEMMA HistoryArrivesKeeps ==
  ASSUME IInv, HistoryArrives
  PROVE  IInv'
<1> DEFINE s == [ses EXCEPT !.got = TRUE, !.history = ses.sample]
<1>1. /\ TypeOK /\ ses \in Session /\ mem \in Records /\ ses.sample \in SUBSET Times
      /\ trap.kills \in SUBSET Times /\ faults \subseteq Faults /\ vol.unanswered \in BOOLEAN
  BY Things DEF IInv, TypeOK
<1>2. /\ ses.phase = "history" /\ ses.sent /\ ~ses.got /\ ses.plan = "none"
      /\ ~ses.complete /\ ses.end = 0
      /\ UNCHANGED <<clock, trap, mem, flash, faults>>
  BY DEF HistoryArrives, IInv, Asked
<1>3. PlanLog(s, mem.fw, vol.unanswered)
  BY DEF HistoryArrives
<1>4. /\ s \in Session /\ s.plan = "none" /\ s.end = 0 /\ ~s.complete /\ s.got /\ s.sent
      /\ s.history = ses.sample /\ s.asks = ses.asks
  BY <1>1, <1>2 DEF Session
<1> HIDE DEF s
<1>5. /\ ses' \in Session /\ ses'.phase \in {"log", "end"} /\ ses'.asks = ses.asks
      /\ ses'.sent /\ ses'.got /\ ses'.history = ses.sample
      /\ vol' \in [unanswered : BOOLEAN, rescan : BOOLEAN] /\ vol'.unanswered = vol.unanswered
      /\ ses'.plan = "window" => ~UsesHistory(mem.fw, vol.unanswered)
  BY <1>1, <1>3, <1>4, PlanLogFacts
<1>6. Asked' /\ Replayed' /\ Faultless'
  BY <1>1, <1>2, <1>3, <1>4, PlanKeeps
<1>7. ASSUME Sound' PROVE Firmware' /\ Sampled'
  <2>1. Firmware /\ Sampled
    BY <1>2, <1>7 DEF IInv, Careful, Sound, Without
  <2>2. Firmware'
    BY <1>2, <1>5, <2>1 DEF Firmware, UsesHistory
  <2>3. Sampled'
    <3>1. ses'.history = History
      BY <1>2, <1>5, <2>1 DEF Sampled
    <3> QED
      BY <1>1, <1>2, <1>5, <3>1, HistoryFacts DEF Sampled
  <2> QED
    BY <2>2, <2>3
<1> QED
  BY <1>1, <1>2, <1>5, <1>6, <1>7, SessionStep

LEMMA HistoryTimeoutKeeps ==
  ASSUME IInv, HistoryTimeout
  PROVE  IInv'
<1>1. TypeOK /\ ses \in Session /\ mem \in Records /\ trap.fw \in {"old", "new"}
  BY Things DEF IInv, TypeOK
<1>2. /\ ses.phase = "history" /\ ~ses.got /\ ses.plan = "none"
      /\ ~ses.complete /\ ses.end = 0
      /\ UNCHANGED <<clock, trap, mem, flash>> /\ PlanLog(ses, mem.fw, TRUE)
  BY DEF HistoryTimeout, IInv, Asked
<1>3. faults' \subseteq Faults /\ faults \subseteq faults' /\ (trap.fw = "new" => ~Sound')
  <2>1. CASE trap.fw = "old"
    BY <1>1, <2>1 DEF HistoryTimeout, TypeOK
  <2>2. CASE trap.fw # "old"
    <3>1. Fault("lost")
      BY <2>2 DEF HistoryTimeout
    <3>2. "lost" \in {"power", "lost", "between"}
      OBVIOUS
    <3>3. ~Sound'
      BY <3>1, <3>2 DEF Fault, Sound, Without
    <3> QED
      BY <1>1, <3>1, <3>3, FaultFacts
  <2> QED
    BY <2>1, <2>2
<1>4. /\ ses' \in Session /\ ses'.phase \in {"log", "end"} /\ ses'.asks = ses.asks
      /\ ses'.sent = ses.sent /\ ~ses'.got
      /\ vol' \in [unanswered : BOOLEAN, rescan : BOOLEAN] /\ vol'.unanswered
  BY <1>1, <1>2, PlanLogFacts
<1>5. Asked' /\ Replayed' /\ Faultless'
  BY <1>1, <1>2, <1>3, PlanKeeps
<1>6. ASSUME Sound' PROVE Firmware' /\ Sampled'
  <2>1. Firmware /\ trap.fw = "old"
    BY <1>1, <1>3, <1>6, SoundBefore DEF IInv, Careful
  <2> QED
    BY <1>2, <1>4, <2>1 DEF Firmware, Sampled
<1> QED
  BY <1>1, <1>2, <1>3, <1>4, <1>5, <1>6, SessionStep

LEMMA HistoryLateKeeps ==
  ASSUME IInv, HistoryLate
  PROVE  IInv'
<1>1. /\ TypeOK /\ ses \in Session /\ mem \in Records /\ ses.sample \in SUBSET Times
      /\ vol \in [unanswered : BOOLEAN, rescan : BOOLEAN] /\ faults \subseteq Faults
      /\ trap.fw \in {"old", "new"}
  BY Things DEF IInv, TypeOK
<1>2. /\ ses.phase \in {"log", "end"} /\ ses.sent /\ ~ses.got
      /\ ses' = [ses EXCEPT !.got = TRUE, !.history = ses.sample]
      /\ UNCHANGED <<clock, trap, mem, flash, vol, faults>>
  BY DEF HistoryLate, AnswerOnItsWay
<1>3. /\ ses' \in Session /\ ses'.sent
      /\ \A f \in {"phase", "plan", "from", "end", "complete", "events"} : ses'[f] = ses[f]
  BY <1>1, <1>2 DEF Session
<1>4. Asked' /\ Replayed' /\ Faultless'
  BY <1>2, <1>3 DEF IInv, Asked, Replayed, Faultless
<1>5. ~Sound'
  BY <1>1, <1>2 DEF IInv, Careful, Firmware, Sound, Without
<1> QED
  BY <1>1, <1>2, <1>3, <1>4, <1>5, SessionStep

LEMMA LogArrivesKeeps ==
  ASSUME IInv, LogArrives
  PROVE  IInv'
<1> DEFINE told == {k \in trap.kills : /\ ses.from <= k /\ k <= ses.end
                                       /\ ses.plan = "full" \/ k > mem.prefs.last}
<1>1. /\ TypeOK /\ ses \in Session /\ mem \in Records /\ trap.kills \in SUBSET Times
      /\ vol \in [unanswered : BOOLEAN, rescan : BOOLEAN] /\ faults \subseteq Faults
      /\ ses.plan \in {"none", "full", "window"}
  BY Things DEF IInv, TypeOK, Session
<1>2. /\ ses.phase \in {"log", "end"} /\ ses.plan # "none" /\ ~ses.complete
      /\ ses' = [ses EXCEPT !.phase = "end", !.complete = TRUE, !.events = told]
      /\ UNCHANGED <<clock, trap, mem, flash, vol, faults>>
  BY DEF LogArrives
<1>3. told \in SUBSET Times
  BY <1>1
<1> HIDE DEF told
<1>4. /\ ses' \in Session /\ ses'.phase = "end" /\ ses'.complete /\ ses'.events = told
      /\ \A f \in {"asks", "sent", "sample", "got", "history", "plan", "from", "end"} :
           ses'[f] = ses[f]
  BY <1>1, <1>2, <1>3 DEF Session
<1>5. Asked'
  BY <1>2, <1>4 DEF IInv, Asked
<1>6. Replayed'
  <2>1. \A k \in told : k \in trap.kills /\ k <= ses.end /\ (ses.plan = "window" => k > mem.prefs.last)
    BY DEF told
  <2> QED
    BY <1>2, <1>4, <2>1 DEF IInv, Replayed
<1>7. Faultless'
  <2>1. ASSUME faults = {}, ses.plan = "full"
        PROVE  mem.prefs.counted \subseteq told
    <3> SUFFICES ASSUME NEW k \in mem.prefs.counted PROVE k \in told
      OBVIOUS
    <3>1. k \in trap.kills /\ k <= ses.end /\ ses.from = 0
      BY <1>2, <2>1 DEF IInv, Faultless, Replayed
    <3>2. 0 <= k
      BY <1>1, <3>1, Numbers
    <3> QED
      BY <2>1, <3>1, <3>2 DEF told
  <2> QED
    BY <1>2, <1>4, <2>1 DEF IInv, Faultless
<1>8. ASSUME Sound' PROVE Firmware' /\ Sampled'
  <2>1. Firmware /\ Sampled
    BY <1>2, <1>8 DEF IInv, Careful, Sound, Without
  <2>2. Firmware'
    BY <1>2, <1>4, <2>1 DEF Firmware
  <2>3. Sampled'
    BY <1>2, <1>4, <2>1 DEF Sampled, History
  <2> QED
    BY <2>2, <2>3
<1> QED
  BY <1>1, <1>2, <1>4, <1>5, <1>6, <1>7, <1>8, SessionStep

LEMMA LogTimeoutKeeps ==
  ASSUME IInv, LogTimeout
  PROVE  IInv'
<1>1. /\ ses \in Session /\ mem \in Records
      /\ vol \in [unanswered : BOOLEAN, rescan : BOOLEAN] /\ faults \subseteq Faults
  BY Things DEF IInv, TypeOK
<1>2. /\ ses.phase = "log" /\ ses' = [ses EXCEPT !.phase = "end"]
      /\ UNCHANGED <<clock, trap, mem, flash, vol, faults>>
  BY DEF LogTimeout
<1>3. /\ ses' \in Session /\ ses'.phase = "end"
      /\ \A f \in {"asks", "sent", "sample", "got", "history", "plan", "from", "end", "complete",
                   "events"} : ses'[f] = ses[f]
  BY <1>1, <1>2 DEF Session
<1>4. Asked' /\ Replayed' /\ Faultless'
  BY <1>2, <1>3 DEF IInv, Asked, Replayed, Faultless
<1>5. ASSUME Sound' PROVE Firmware' /\ Sampled'
  <2>1. Firmware /\ Sampled
    BY <1>2, <1>5 DEF IInv, Careful, Sound, Without
  <2> QED
    BY <1>2, <1>3, <2>1 DEF Firmware, Sampled, History
<1> QED
  BY <1>1, <1>2, <1>3, <1>4, <1>5, SessionStep

\* Without a session nothing is read, planned or waited for.
LEMMA NoSession ==
  ASSUME IInv, UNCHANGED <<clock, trap>>, ses' = Idle,
         faults' = {} => mem'.prefs.counted \subseteq trap.kills
  PROVE  Asked' /\ Replayed' /\ Faultless' /\ Sampled'
<1>1. 0 <= clock
  BY Things DEF IInv
<1> QED
  BY <1>1, IdleFacts DEF IInv, Asked, Replayed, Faultless, Sampled

LEMMA SessionFailsKeeps ==
  ASSUME IInv, SessionFails
  PROVE  IInv'
<1>1. /\ mem \in Records /\ vol \in [unanswered : BOOLEAN, rescan : BOOLEAN] /\ faults \subseteq Faults
  BY Things DEF IInv, TypeOK
<1>2. ses' = Idle /\ ses' \in Session /\ UNCHANGED <<clock, trap, mem, flash, vol, faults>>
  BY IdleFacts DEF SessionFails
<1>3. Asked' /\ Replayed' /\ Faultless' /\ Sampled'
  BY <1>2, NoSession DEF IInv, Faultless
<1>4. ASSUME Sound' PROVE Firmware'
  BY <1>2, <1>4, IdleFacts DEF IInv, Careful, Sound, Without, Firmware
<1> QED
  BY <1>1, <1>2, <1>3, <1>4, SessionStep

LEMMA RestartKeeps ==
  ASSUME IInv, Restart \/ PowerLoss
  PROVE  IInv'
<1>1. /\ TypeOK /\ clock \in Nat /\ mem \in Records /\ flash \in Records /\ faults \subseteq Faults
  BY Things DEF IInv, TypeOK
<1>2. /\ ses' = Idle /\ ses' \in Session /\ vol' = Forgetful
      /\ vol' \in [unanswered : BOOLEAN, rescan : BOOLEAN] /\ UNCHANGED <<clock, trap>>
  BY IdleFacts, NewTrapType DEF Restart, PowerLoss
<1>3. CASE Restart
  <2>1. flash' = mem /\ UNCHANGED <<mem, faults>>
    BY <1>3 DEF Restart
  <2>2. TypeOK'
    BY <1>1, <1>2, <2>1 DEF TypeOK
  <2>3. Asked' /\ Replayed' /\ Faultless' /\ Sampled'
    BY <1>2, <2>1, NoSession DEF IInv, Faultless
  <2>4. ASSUME Sound' PROVE Counted' /\ Firmware'
    <3>1. Counted /\ Firmware
      BY <2>1, <2>4 DEF IInv, Careful, Sound, Without
    <3>2. Counted'
      BY <1>1, <1>2, <2>1, <3>1, CountedKept
    <3> QED
      BY <1>2, <2>1, <3>1, <3>2, IdleFacts DEF Firmware, Forgetful
  <2> QED
    BY <2>2, <2>3, <2>4 DEF IInv, Careful
<1>4. CASE PowerLoss
  <2>1. Fault("power") /\ mem' = flash /\ UNCHANGED flash
    BY <1>4 DEF PowerLoss
  <2>2. "power" \in {"power", "lost", "between"}
    OBVIOUS
  <2>3. faults' \subseteq Faults /\ faults' # {} /\ ~Sound'
    BY <1>1, <2>1, <2>2, FaultFacts
  <2>4. TypeOK'
    BY <1>1, <1>2, <2>1, <2>3 DEF TypeOK
  <2>5. Asked' /\ Replayed' /\ Faultless'
    BY <1>2, <2>3, NoSession
  <2> QED
    BY <2>3, <2>4, <2>5 DEF IInv
<1> QED
  BY <1>3, <1>4

-----------------------------------------------------------------------------
(***************************************************************************)
(* The action: a session ends well.                                        *)
(***************************************************************************)
Right(m) ==
  /\ m.prefs.strikes = Cardinality(m.prefs.counted)
  /\ ~m.prefs.known => m.prefs.counted = {}
  /\ \A k \in m.prefs.counted : k <= clock /\ k <= m.prefs.last

\* The records after the log, and after the history.
Logged  == IF ses.complete THEN AfterLog(mem) ELSE mem
Settled == IF ses.got THEN AfterHistory(Logged, ses.complete /\ ses.plan = "full") ELSE Logged

LEMMA DoneFacts ==
  ASSUME IInv
  PROVE  /\ Logged \in Records /\ Logged.fw = mem.fw /\ Logged.cache.newest = mem.cache.newest
         /\ Settled \in Records /\ Settled.fw = mem.fw
         /\ ~ses.got => Settled = Logged
<1>1. TypeOK /\ mem \in Records /\ ses \in Session
  BY Things DEF IInv
<1>2. Logged \in Records /\ Logged.fw = mem.fw /\ Logged.cache.newest = mem.cache.newest
  BY <1>1, AfterLogFacts DEF Logged
<1>3. CASE ses.got
  <2> DEFINE all == ses.complete /\ ses.plan = "full"
  <2>1. all \in BOOLEAN /\ Settled = AfterHistory(Logged, all)
    BY <1>1, <1>3 DEF Settled, Session
  <2> HIDE DEF all
  <2>2. Settled \in Records /\ Settled.fw = Logged.fw
    BY <1>1, <1>2, <2>1, AfterHistoryFacts
  <2> QED
    BY <1>2, <1>3, <2>2
<1>4. CASE ~ses.got
  BY <1>2, <1>4 DEF Settled
<1> QED
  BY <1>2, <1>3, <1>4

\* The log leaves the count right, and takes nothing from it while nothing has
\* happened.
LEMMA LoggedRight ==
  ASSUME IInv, Sound
  PROVE  /\ Right(Logged)
         /\ \A k \in Logged.prefs.counted :
              k \in mem.prefs.counted \/ (ses.complete /\ k \in trap.kills /\ k <= ses.end)
         /\ faults = {} => mem.prefs.counted \subseteq Logged.prefs.counted
<1>1. /\ TypeOK /\ mem \in Records /\ clock \in Nat /\ ses.end \in Nat
      /\ ses.events \in SUBSET Times /\ ses.plan \in {"none", "full", "window"}
      /\ ses.complete \in BOOLEAN
  BY Things DEF IInv, Session
<1>2. /\ mem.prefs.counted \in SUBSET Times /\ mem.prefs.last \in Nat
      /\ \A k \in mem.prefs.counted \cup ses.events : k \in Nat
      /\ Latest(ses.events) \in Nat /\ \A u \in ses.events : u <= Latest(ses.events)
  BY <1>1, RecordFacts, LatestFacts, Numbers
<1>3. Counted /\ Firmware
  BY DEF IInv, Careful
<1>4. CASE ~ses.complete
  <2>1. Logged = mem
    BY <1>4 DEF Logged
  <2> QED
    BY <1>3, <2>1 DEF Right, Counted, EachKillOnce
<1>5. CASE ses.complete
  <2> DEFINE n == Logged
  <2>1. n = AfterLog(mem)
    BY <1>5 DEF Logged
  <2>2. /\ ses.plan # "none" /\ ses.end <= clock
        /\ \A k \in ses.events : k \in trap.kills /\ k <= ses.end
        /\ ses.plan = "window" => \A k \in ses.events : k > mem.prefs.last
    BY <1>5 DEF IInv, Replayed
  <2>3. \A k \in ses.events : k <= clock
    BY <1>1, <1>2, <2>2
  <2>4. n.prefs.known
    BY <1>1, <2>1, AfterLogFacts
  <2>5. CASE ses.plan = "full"
    <3>1. /\ n.prefs.counted = ses.events /\ n.prefs.strikes = Cardinality(ses.events)
          /\ n.prefs.last = Latest(ses.events)
      BY <1>1, <2>1, <2>5, AfterLogFacts
    <3>2. Right(n)
      BY <1>2, <2>3, <2>4, <3>1 DEF Right
    <3>3. faults = {} => mem.prefs.counted \subseteq ses.events
      BY <1>5, <2>5 DEF IInv, Faultless
    <3> QED
      BY <1>5, <2>2, <3>1, <3>2, <3>3
  <2>6. CASE ses.plan = "window"
    <3>1. /\ n.prefs.counted = mem.prefs.counted \cup ses.events
          /\ n.prefs.strikes = mem.prefs.strikes + Cardinality(ses.events)
          /\ n.prefs.last = Later(mem.prefs.last, Latest(ses.events))
      BY <1>1, <2>1, <2>6, AfterLogFacts
    <3>2. \A k \in mem.prefs.counted : k \notin ses.events
      BY <1>2, <1>3, <2>2, <2>6 DEF Counted
    <3>3. n.prefs.strikes = Cardinality(n.prefs.counted)
      <4>1. Cardinality(mem.prefs.counted \cup ses.events)
            = Cardinality(mem.prefs.counted) + Cardinality(ses.events)
        BY <1>1, <1>2, <3>2, DisjointUnion
      <4> QED
        BY <1>3, <3>1, <4>1 DEF Counted, EachKillOnce
    <3>4. /\ n.prefs.last \in Nat /\ n.prefs.last >= mem.prefs.last
          /\ n.prefs.last >= Latest(ses.events)
      BY <1>2, <3>1, LaterFacts
    <3>5. \A k \in n.prefs.counted : k <= clock /\ k <= n.prefs.last
      <4> SUFFICES ASSUME NEW k \in n.prefs.counted PROVE k <= clock /\ k <= n.prefs.last
        OBVIOUS
      <4>1. CASE k \in mem.prefs.counted
        BY <1>2, <1>3, <3>4, <4>1 DEF Counted
      <4>2. CASE k \in ses.events
        BY <1>2, <2>3, <3>4, <4>2
      <4> QED
        BY <3>1, <4>1, <4>2
    <3>6. Right(n)
      BY <2>4, <3>3, <3>5 DEF Right
    <3> QED
      BY <1>5, <2>2, <3>1, <3>6
  <2> QED
    BY <1>1, <2>2, <2>5, <2>6
<1> QED
  BY <1>4, <1>5

\* So does the history; and kill_history_newest is not before what is counted.
LEMMA SettledRight ==
  ASSUME IInv, Sound, ses.phase = "end"
  PROVE  /\ Right(Settled)
         /\ Settled.cache.newest # 0 =>
              \A k \in Settled.prefs.counted \cap trap.kills : k <= Settled.cache.newest
         /\ \A k \in Settled.prefs.counted : k \in Logged.prefs.counted \/ k \in trap.kills
         /\ Logged.prefs.counted \subseteq Settled.prefs.counted
<1> DEFINE m == Logged
           n == Settled
           newest == Latest(ses.history)
<1>1. /\ TypeOK /\ mem \in Records /\ clock \in Nat /\ trap.kills \in SUBSET Times
      /\ ses.history \in SUBSET Times /\ trap.fw \in {"old", "new"}
      /\ ses.plan \in {"none", "full", "window"} /\ ses.complete \in BOOLEAN /\ ses.end \in Nat
  BY Things DEF IInv, Session
<1>2. /\ m \in Records /\ m.cache.newest = mem.cache.newest
      /\ n \in Records /\ (~ses.got => n = m)
  BY DoneFacts
<1>3. Counted /\ Firmware /\ Sampled /\ Right(m)
      /\ \A k \in m.prefs.counted :
              k \in mem.prefs.counted \/ (ses.complete /\ k \in trap.kills /\ k <= ses.end)
  BY LoggedRight DEF IInv, Careful
<1>4. /\ newest \in Nat /\ \A u \in ses.history : u <= newest
      /\ \A k \in trap.kills \cup ses.history : k \in Nat
      /\ m.prefs.last \in Nat /\ m.cache.newest \in Nat /\ n.cache.newest \in Nat
      /\ m.prefs.counted \in SUBSET Times /\ \A k \in m.prefs.counted : k \in Nat
  BY <1>1, <1>2, LatestFacts, RecordFacts, Numbers
<1>5. CASE ~ses.got
  <2>1. mem.cache.newest # 0 => ~ses.complete
    <3>1. mem.cache.newest # 0 => trap.fw = "new" /\ ses.asks
      BY <1>1, <1>3 DEF Firmware, IInv, Asked
    <3> QED
      BY <1>3, <1>5, <3>1 DEF Firmware
  <2> QED
    BY <1>2, <1>3, <1>5, <2>1 DEF Counted
<1>6. CASE ses.got
  <2> DEFINE all == ses.complete /\ ses.plan = "full"
             fresh == {t \in ses.history : t > m.cache.newest}
  <2>1. trap.fw = "new" /\ ses.plan # "window" /\ (ses.complete => all)
    BY <1>1, <1>3, <1>6 DEF Firmware, IInv, Replayed
  <2>2. /\ ses.history \subseteq trap.kills
        /\ \A k \in trap.kills : k <= ses.end \/ k \in mem.prefs.counted => k <= newest
    BY <1>3, <1>6 DEF Sampled
  <2>3. /\ n = AfterHistory(m, all) /\ all \in BOOLEAN
    BY <1>1, <1>6 DEF Settled
  <2> HIDE DEF m, n
  <2>4. /\ n.prefs.known /\ n.cache.newest >= newest /\ n.cache.newest >= m.cache.newest
        /\ \/ /\ ~m.prefs.known
              /\ n.prefs.counted = ses.history
              /\ n.prefs.strikes = Cardinality(ses.history)
              /\ n.prefs.last = Later(m.prefs.last, newest)
           \/ /\ m.prefs.known
              /\ n.prefs.counted = m.prefs.counted
              /\ n.prefs.strikes = m.prefs.strikes
              /\ n.prefs.last \in {m.prefs.last, Later(m.prefs.last, newest)}
           \/ /\ m.prefs.known /\ ~all /\ m.cache.newest # 0
              /\ n.prefs.counted = m.prefs.counted \cup fresh
              /\ n.prefs.strikes = m.prefs.strikes + Cardinality(fresh)
              /\ n.prefs.last = Later(m.prefs.last, newest)
    BY <1>1, <1>2, <2>3, AfterHistoryFacts
  <2> HIDE DEF all, newest
  <2>5. /\ Later(m.prefs.last, newest) \in Nat /\ Later(m.prefs.last, newest) >= m.prefs.last
        /\ Later(m.prefs.last, newest) >= newest
    BY <1>4, LaterFacts
  <2>6. \A k \in trap.kills : k <= clock
    BY DEF IInv, Replayed
  <2>7. \A k \in m.prefs.counted \cap trap.kills : k <= newest
    BY <1>3, <2>2
  <2>8. \A k \in ses.history : k <= clock /\ k <= newest
    BY <1>4, <2>2, <2>6
  <2>9. CASE /\ ~m.prefs.known
             /\ n.prefs.counted = ses.history
             /\ n.prefs.strikes = Cardinality(ses.history)
             /\ n.prefs.last = Later(m.prefs.last, newest)
    <3>1. \A k \in ses.history : k <= n.prefs.last /\ k <= n.cache.newest
      BY <1>4, <2>4, <2>5, <2>8, <2>9
    <3>2. m.prefs.counted = {}
      BY <1>3, <2>9 DEF Right, m
    <3>3. Right(n)
      BY <2>4, <2>8, <2>9, <3>1 DEF Right
    <3> QED
      BY <2>2, <2>9, <3>1, <3>2, <3>3 DEF m, n
  <2>10. CASE /\ m.prefs.known
              /\ n.prefs.counted = m.prefs.counted
              /\ n.prefs.strikes = m.prefs.strikes
              /\ n.prefs.last \in {m.prefs.last, Later(m.prefs.last, newest)}
    <3>1. n.prefs.last \in Nat /\ n.prefs.last >= m.prefs.last
      BY <1>4, <2>5, <2>10
    <3>2. \A k \in m.prefs.counted : k <= clock /\ k <= n.prefs.last
      BY <1>3, <1>4, <3>1 DEF Right
    <3>3. Right(n)
      BY <1>3, <2>4, <2>10, <3>2 DEF Right
    <3>4. \A k \in m.prefs.counted \cap trap.kills : k <= n.cache.newest
      BY <1>4, <2>4, <2>7
    <3> QED
      BY <2>10, <3>3, <3>4 DEF m, n
  <2>11. CASE /\ m.prefs.known /\ ~all /\ m.cache.newest # 0
              /\ n.prefs.counted = m.prefs.counted \cup fresh
              /\ n.prefs.strikes = m.prefs.strikes + Cardinality(fresh)
              /\ n.prefs.last = Later(m.prefs.last, newest)
    <3>1. m = mem
      BY <2>1, <2>11 DEF m, Logged
    <3>2. \A k \in m.prefs.counted : k \notin fresh
      BY <1>3, <1>4, <2>2, <2>11, <3>1 DEF Counted
    <3>3. fresh \in SUBSET Times
      BY <1>1
    <3>4. n.prefs.strikes = Cardinality(n.prefs.counted)
      <4> HIDE DEF fresh
      <4>1. Cardinality(m.prefs.counted \cup fresh) = Cardinality(m.prefs.counted) + Cardinality(fresh)
        BY <1>4, <3>2, <3>3, DisjointUnion
      <4> QED
        BY <1>3, <2>11, <4>1 DEF Right
    <3>5. \A k \in n.prefs.counted : k <= clock /\ k <= n.prefs.last
      <4> SUFFICES ASSUME NEW k \in n.prefs.counted PROVE k <= clock /\ k <= n.prefs.last
        OBVIOUS
      <4>1. CASE k \in m.prefs.counted
        BY <1>3, <1>4, <2>5, <2>11, <4>1 DEF Right
      <4>2. CASE k \in ses.history
        BY <1>4, <2>5, <2>8, <2>11, <4>2
      <4> QED
        BY <2>11, <4>1, <4>2
    <3>6. \A k \in n.prefs.counted \cap trap.kills : k <= n.cache.newest
      <4> SUFFICES ASSUME NEW k \in n.prefs.counted \cap trap.kills PROVE k <= n.cache.newest
        OBVIOUS
      <4>1. k <= newest
        BY <2>7, <2>8, <2>11
      <4> QED
        BY <1>4, <2>4, <4>1
    <3>7. Right(n)
      BY <2>4, <3>4, <3>5 DEF Right
    <3> QED
      BY <2>2, <2>11, <3>6, <3>7 DEF m, n
  <2> QED
    BY <2>4, <2>9, <2>10, <2>11
<1> QED
  BY <1>5, <1>6

LEMMA SessionDoneKeeps ==
  ASSUME IInv, SessionDone
  PROVE  IInv'
<1>1. /\ TypeOK /\ mem \in Records /\ flash \in Records
      /\ Logged \in Records /\ Settled \in Records /\ Settled.fw = mem.fw
      /\ Logged.cache.newest = mem.cache.newest /\ (~ses.got => Settled = Logged)
  BY Things, DoneFacts DEF IInv
<1>2. /\ ses.phase = "end" /\ mem' = Settled /\ ses' = Idle
      /\ flash' \in {[mem EXCEPT !.prefs = Settled.prefs], [mem EXCEPT !.prefs = Logged.prefs], flash}
      /\ UNCHANGED <<clock, trap, vol, faults>>
  BY DEF SessionDone, Settled, Logged
<1>3. flash' \in Records
  BY <1>1, <1>2 DEF Records
<1>4. TypeOK'
  BY <1>1, <1>2, <1>3, IdleFacts DEF TypeOK
<1>5. Asked' /\ Replayed' /\ Faultless' /\ Sampled'
  <2>1. faults' = {} => mem'.prefs.counted \subseteq trap.kills
    <3> SUFFICES ASSUME faults = {} PROVE Settled.prefs.counted \subseteq trap.kills
      BY <1>2
    <3>1. Sound /\ mem.prefs.counted \subseteq trap.kills
      BY DEF Sound, Without, IInv, Faultless
    <3> QED
      BY <1>2, <3>1, LoggedRight, SettledRight
  <2> QED
    BY <1>2, <2>1, NoSession
<1>6. ASSUME Sound' PROVE Counted' /\ Firmware'
  <2>1. Sound /\ Firmware
    BY <1>2, <1>6 DEF IInv, Careful, Sound, Without
  <2>2. /\ Right(Settled)
        /\ Settled.cache.newest # 0 =>
             \A k \in Settled.prefs.counted \cap trap.kills : k <= Settled.cache.newest
    BY <1>2, <2>1, SettledRight
  <2>3. Counted'
    BY <1>2, <2>2 DEF Counted, EachKillOnce, Right
  <2>4. ses.got => trap.fw = "new" /\ mem.fw = "new"
    BY <1>1, <1>2, <2>1, RecordFacts DEF Firmware, TypeOK
  <2>5. Firmware'
    BY <1>1, <1>2, <2>1, <2>4, IdleFacts DEF Firmware
  <2> QED
    BY <2>3, <2>5
<1> QED
  BY <1>4, <1>5, <1>6 DEF IInv, Careful

-----------------------------------------------------------------------------
(***************************************************************************)
(* The invariant holds at first, and every step keeps it.                  *)
(***************************************************************************)
LEMMA InitIInv == Init => IInv
<1> SUFFICES ASSUME Init PROVE IInv
  OBVIOUS
<1>1. 2 \in Times /\ {} \in SUBSET Times /\ {2} \in SUBSET Times /\ Firmwares \subseteq {"old", "new"}
  BY Numbers, KillCountAssumption
<1>2. /\ trap \in [kills : SUBSET Times, fw : {"old", "new"}] /\ trap.kills \subseteq {2}
      /\ clock = 2 /\ mem = NewTrap /\ flash = NewTrap /\ vol = Forgetful /\ ses = Idle
      /\ faults = {}
  BY <1>1 DEF Init
<1>3. /\ mem.prefs.counted = {} /\ mem.prefs.strikes = 0 /\ mem.cache.newest = 0
      /\ mem.fw = "unknown" /\ ~vol.unanswered
  BY <1>2 DEF NewTrap, Forgetful
<1>4. TypeOK
  BY <1>1, <1>2, NewTrapType, IdleFacts DEF TypeOK
<1>5. Asked /\ Replayed /\ Faultless
  BY <1>2, <1>3, IdleFacts DEF Asked, Replayed, Faultless
<1>6. Counted /\ Firmware /\ Sampled
  BY <1>2, <1>3, IdleFacts, FS_EmptySet DEF Counted, EachKillOnce, Firmware, Sampled
<1> QED
  BY <1>4, <1>5, <1>6 DEF IInv, Careful

LEMMA StepIInv == IInv /\ [Next]_vars => IInv'
<1> SUFFICES ASSUME IInv, [Next]_vars PROVE IInv'
  OBVIOUS
<1>1. CASE Kill \/ Tick \/ FactoryReset \/ FirmwareUpdate \/ PollNow \/ Sync
  BY <1>1, KillKeeps, QuietKeeps, TrapChangesKeep
<1>2. CASE TrapAnswers \/ Begin \/ FirmwareAnswer
  BY <1>2, TrapAnswersKeeps, BeginKeeps, FirmwareAnswerKeeps
<1>3. CASE HistoryArrives \/ HistoryTimeout \/ HistoryLate \/ LogArrives \/ LogTimeout
  BY <1>3, HistoryArrivesKeeps, HistoryTimeoutKeeps, HistoryLateKeeps, LogArrivesKeeps,
     LogTimeoutKeeps
<1>4. CASE SessionDone \/ SessionFails \/ Restart \/ PowerLoss
  BY <1>4, SessionDoneKeeps, SessionFailsKeeps, RestartKeeps
<1>5. CASE UNCHANGED vars
  <2>1. TypeOK' /\ Asked' /\ Replayed' /\ Faultless'
    BY <1>5 DEF vars, IInv, TypeOK, Asked, Replayed, Faultless
  <2>2. Sound' => Counted' /\ Firmware'
    BY <1>5 DEF vars, IInv, Careful, Counted, EachKillOnce, Firmware, Sound, Without
  <2>3. Sound' => Sampled'
    BY <1>5 DEF vars, IInv, Careful, Sampled, History, Sound, Without
  <2> QED
    BY <2>1, <2>2, <2>3 DEF IInv, Careful
<1> QED
  BY <1>1, <1>2, <1>3, <1>4, <1>5 DEF Next

\* The inductive invariant of what a Mouse Trap's kills become: however long its
\* history, the overlap of windows and the time between full replays.
THEOREM InvariantHolds == Spec => []IInv
BY InitIInv, StepIInv, PTL DEF Spec

\* Every variable always has its type: no window of the log begins before it.
THEOREM TypeCorrect == Spec => []TypeOK
<1>1. IInv => TypeOK
  BY DEF IInv
<1> QED
  BY <1>1, InvariantHolds, PTL

\* apply_history_ and apply_kill_history_ together count no kill twice, whichever
\* of log and history tells of it first and whatever sessions failed, unless a
\* power loss, a lost answer or a kill during one came between.
THEOREM CountedOnceHolds == Spec => []CountedOnce
<1>1. IInv => CountedOnce
  BY DEF IInv, Careful, Counted, CountedOnce, Sound
<1> QED
  BY <1>1, InvariantHolds, PTL

-----------------------------------------------------------------------------
(***************************************************************************)
(* The refinement: a step counts kills, or is no step of the tally but for *)
(* kills that happen.                                                      *)
(***************************************************************************)
LEMMA FaultsGrow ==
  ASSUME IInv, [Next]_vars, faults' = {}
  PROVE  faults = {}
<1>1. \A f : Fault(f) => faults' # {}
  BY DEF Fault
<1> QED
  BY <1>1 DEF Next, vars, Kill, Tick, FactoryReset, FirmwareUpdate, TrapAnswers, PollNow, Begin,
     FirmwareAnswer, HistoryArrives, HistoryTimeout, HistoryLate, LogArrives, LogTimeout,
     SessionDone, SessionFails, Sync, Restart, PowerLoss

LEMMA OthersHappen ==
  ASSUME IInv, [Next]_vars, faults' = {}, ~SessionDone
  PROVE  trap.kills \subseteq trap'.kills /\ mem'.prefs = mem.prefs
<1>1. /\ mem \in Records /\ trap \in [kills : SUBSET Times, fw : {"old", "new"}]
      /\ \A f : ~Fault(f)
  BY Things DEF IInv, Fault
<1>2. CASE Kill \/ FirmwareAnswer
  BY <1>1, <1>2 DEF Kill, FirmwareAnswer, Records
<1>3. CASE FactoryReset \/ FirmwareUpdate \/ PowerLoss
  BY <1>1, <1>3 DEF FactoryReset, FirmwareUpdate, PowerLoss
<1>4. CASE UNCHANGED <<trap, mem>>
  BY <1>4
<1> QED
  BY <1>2, <1>3, <1>4
  DEF Next, vars, Tick, TrapAnswers, PollNow, Begin, HistoryArrives, HistoryTimeout, HistoryLate,
      LogArrives, LogTimeout, SessionFails, Sync, Restart

LEMMA StepTally ==
  ASSUME IInv, IInv', [Next]_vars, faults' = {}
  PROVE  Tally!Happen \/ Tally!Count
<1>0. faults = {}
  BY FaultsGrow
<1>1. CASE SessionDone
  <2>1. /\ ses.phase = "end" /\ mem' = Settled /\ UNCHANGED trap
    BY <1>1 DEF SessionDone, Settled, Logged
  <2>2. Sound
    BY <1>0 DEF Sound, Without
  <2>3. mem.prefs.counted \subseteq mem'.prefs.counted
    BY <1>0, <2>1, <2>2, LoggedRight, SettledRight
  <2>4. mem'.prefs.counted \subseteq trap'.kills /\ mem'.prefs.strikes = Cardinality(mem'.prefs.counted)
    BY <2>2 DEF IInv, Faultless, Careful, Counted, EachKillOnce, Sound, Without
  <2> QED
    BY <2>1, <2>3, <2>4 DEF Tally!Count, Tally!Cardinality, Cardinality
<1>2. CASE ~SessionDone
  BY <1>2, OthersHappen DEF Tally!Happen
<1> QED
  BY <1>1, <1>2

\* Strikes is a total that only increases, by kills the trap has made, each of
\* them once: KillCount implements Tally.
THEOREM KeepsTallyHolds == Spec => KeepsTally
<1>1. Init => Tally!Init
  BY DEF Init, NewTrap, Tally!Init
<1>2. IInv /\ IInv' /\ [Next]_vars
      => [(faults = {})' => Tally!Happen \/ Tally!Count]_<<trap.kills, mem.prefs.counted,
                                                           mem.prefs.strikes>>
  BY StepTally
<1> QED
  BY <1>1, <1>2, InvariantHolds, PTL DEF Spec, KeepsTally, Tally!Spec

\* A full replay to its end leaves the number of kills of the log, whether or not
\* apply_kill_history_ comes after it, and whatever was counted before.
THEOREM ReplayResyncsHolds == Spec => ReplayResyncs
<1>1. ASSUME IInv, [Next]_vars, ses.complete, ses.plan = "full", SessionDone
      PROVE  mem'.prefs.strikes = Cardinality(ses.events)
  <2>1. TypeOK /\ mem \in Records /\ Logged \in Records /\ mem' = Settled
    BY <1>1, Things, DoneFacts DEF IInv, SessionDone, Settled, Logged
  <2>2. Logged = AfterLog(mem)
    BY <1>1 DEF Logged
  <2>3. Logged.prefs.known /\ Logged.prefs.strikes = Cardinality(ses.events)
    BY <1>1, <2>1, <2>2, AfterLogFacts
  <2>4. CASE ses.got
    <3>1. Settled = AfterHistory(Logged, TRUE)
      BY <1>1, <2>4 DEF Settled
    <3>2. Settled.prefs.strikes = Logged.prefs.strikes
      BY <2>1, <2>3, <3>1, AfterHistoryFacts
    <3> QED
      BY <2>1, <2>3, <3>2
  <2>5. CASE ~ses.got
    BY <2>1, <2>3, <2>5 DEF Settled
  <2> QED
    BY <2>4, <2>5
<1>2. IInv /\ [Next]_vars
      => [(ses.complete /\ ses.plan = "full" /\ SessionDone)
          => mem'.prefs.strikes = Cardinality(ses.events)]_vars
  BY <1>1
<1> QED
  BY <1>2, InvariantHolds, PTL DEF Spec, ReplayResyncs

-----------------------------------------------------------------------------
(***************************************************************************)
(* What the marks say: up to them, every kill the trap can tell of has     *)
(* been counted.  This survives a power loss and a kill on its way, so     *)
(* flash must keep it too; of new firmware it does not survive a lost      *)
(* answer, nor an update, before which the log alone counted.              *)
(***************************************************************************)
Whole == Without({"lost", "update"})

\* Of a record in memory or flash.  No mark is in the future; with old firmware
\* the log counts, with new firmware what is counted has a mark in the history.
Tells(R) ==
  /\ R.cache.newest <= clock /\ R.cache.scanned <= clock /\ R.prefs.last <= clock
  /\ ~R.prefs.known => R.prefs.last = 0 /\ R.prefs.counted = {}
  /\ trap.fw = "old" =>
       \A k \in trap.kills : k <= R.cache.scanned \/ k <= R.prefs.last => k \in R.prefs.counted
  /\ Whole =>
       /\ \A k \in History : k <= R.cache.newest => k \in R.prefs.counted
       /\ R.prefs.known => R.prefs.last = Latest(R.prefs.counted)

Marked(R) == Whole /\ trap.fw = "new" => R.fw # "old" /\ (R.prefs.known => R.cache.newest # 0)

Remembers(R) == Tells(R) /\ Marked(R)

\* Old firmware is never heard telling a history, and no answer of it is lost; new
\* firmware that was always new is asked in every session and always answers.
Asking ==
  /\ Whole \/ trap.fw = "new"
  /\ trap.fw = "old" => ~ses.sent
  /\ Whole /\ trap.fw = "new" =>
       /\ ~vol.unanswered
       /\ ses.phase # "idle" => ses.asks
       /\ ses.phase \in {"log", "end"} => ses.got
       /\ ses.plan # "window"

\* The history on its way has the kills that the trap had then; those it has and
\* the history has not came later.  The log asked for begins where it was read
\* up to, and brings every kill of its window that is not counted.
Telling ==
  /\ ses.sent =>
       /\ ses.sample \subseteq trap.kills
       /\ Whole => \A k \in ses.sample : k <= mem.cache.newest => k \in mem.prefs.counted
       /\ \A k \in History :
            k \in ses.sample \/ (k > mem.cache.newest /\ \A j \in ses.sample : j < k)
       /\ ses.plan # "none" => \A j \in ses.sample : j <= ses.end
  /\ ses.got => ses.history = ses.sample
  /\ ses.plan # "none" => mem.cache.newest <= ses.end /\ mem.cache.scanned <= ses.end
  /\ ses.plan = "window" => mem.prefs.known /\ ses.from <= mem.cache.scanned
  /\ ses.complete =>
       \A k \in trap.kills :
         ses.from <= k /\ k <= ses.end /\ (ses.plan = "full" \/ k > mem.prefs.last)
           => k \in ses.events

WInv == IInv /\ Remembers(mem) /\ Remembers(flash) /\ Asking /\ Telling

-----------------------------------------------------------------------------
(***************************************************************************)
(* Records while time passes, and what happens to the trap.                *)
(***************************************************************************)
LEMMA LatestZero ==
  ASSUME NEW S \in SUBSET Times
  PROVE  /\ S = {} => Latest(S) = 0
         /\ Latest(S) # 0 => Latest(S) \in S
         /\ \A u \in S : u \in Nat
<1>1. S = {} => Latest(S) = 0
  BY DEF Latest
<1> QED
  BY <1>1, LatestFacts, Numbers

LEMMA LatestIs ==
  ASSUME NEW S \in SUBSET Times, NEW t \in S, \A u \in S : u <= t
  PROVE  Latest(S) = t
<1>1. Latest(S) \in S /\ t <= Latest(S)
  BY LatestFacts
<1>2. Latest(S) <= t /\ t \in Nat /\ Latest(S) \in Nat
  BY <1>1, Numbers
<1> QED
  BY <1>1, <1>2

\* A later kill only displaces an earlier one from the history.
LEMMA HistoryGrows ==
  ASSUME trap.kills \in SUBSET Times, trap'.kills \in SUBSET Times,
         NEW t, trap'.kills = trap.kills \cup {t}
  PROVE  \A k \in History' : k \in History \/ k = t
<1> SUFFICES ASSUME NEW k \in History', k # t PROVE k \in History
  OBVIOUS
<1> DEFINE after == {j \in trap'.kills : j > k}
           before == {j \in trap.kills : j > k}
<1>1. k \in trap.kills /\ Cardinality(after) < HistorySize
  BY DEF History
<1>2. before \subseteq after /\ after \in SUBSET Times /\ before \in SUBSET Times
  OBVIOUS
<1>3. IsFiniteSet(after) /\ Cardinality(after) \in Nat /\ Cardinality(before) \in Nat
  BY <1>2, TimesFinite
<1>4. Cardinality(before) <= Cardinality(after)
  BY <1>2, <1>3, FS_Subset
<1>5. Cardinality(before) < HistorySize
  BY <1>1, <1>3, <1>4, Numbers
<1> QED
  BY <1>1, <1>5 DEF History

\* The trap as it was, a record keeps what it says.
LEMMA RemembersStill ==
  ASSUME TypeOK, clock' \in Nat, clock <= clock', trap' = trap, faults \subseteq faults',
         NEW R \in Records, Remembers(R),
         NEW N \in Records, N.prefs = R.prefs, N.cache = R.cache, N.fw \in {R.fw, trap.fw}
  PROVE  Remembers(N)'
<1>1. History' = History /\ clock \in Nat /\ (Whole' => Whole)
  BY Things DEF History, Whole, Without
<1>2. R.cache.newest \in Nat /\ R.cache.scanned \in Nat /\ R.prefs.last \in Nat
  BY RecordFacts
<1>3. Tells(N)'
  BY <1>1, <1>2 DEF Remembers, Tells
<1>4. Marked(N)'
  BY <1>1 DEF Remembers, Marked
<1> QED
  BY <1>3, <1>4 DEF Remembers

LEMMA RemembersKill ==
  ASSUME IInv, Kill, NEW R \in Records, Remembers(R)
  PROVE  Remembers(R)'
<1>1. /\ TypeOK /\ clock \in Nat /\ clock + 1 \in Times /\ trap.kills \in SUBSET Times
      /\ trap \in [kills : SUBSET Times, fw : {"old", "new"}]
  BY Things, Numbers DEF IInv, Kill, Times
<1>2. /\ trap'.kills = trap.kills \cup {clock + 1} /\ trap'.fw = trap.fw /\ clock' = clock + 1
      /\ trap'.kills \in SUBSET Times
  BY <1>1 DEF Kill
<1>3. faults \subseteq faults'
  BY DEF Kill, Fault
<1>4. Whole' => Whole
  BY <1>3 DEF Whole, Without
<1>5. R.cache.newest \in Nat /\ R.cache.scanned \in Nat /\ R.prefs.last \in Nat
  BY RecordFacts
<1>6. \A k \in History' : k \in History \/ k = clock + 1
  BY <1>1, <1>2, HistoryGrows
<1>7. Tells(R)'
  BY <1>1, <1>2, <1>4, <1>5, <1>6 DEF Remembers, Tells
<1>8. Marked(R)'
  BY <1>2, <1>4 DEF Remembers, Marked
<1> QED
  BY <1>7, <1>8 DEF Remembers

LEMMA RemembersChanges ==
  ASSUME IInv, FactoryReset \/ FirmwareUpdate, NEW R \in Records, Remembers(R)
  PROVE  Remembers(R)'
<1>1. /\ trap \in [kills : SUBSET Times, fw : {"old", "new"}]
      /\ UNCHANGED clock /\ faults \subseteq faults'
  BY Things DEF IInv, FactoryReset, FirmwareUpdate, Fault
<1>2. Whole' => Whole
  BY <1>1 DEF Whole, Without
<1>3. CASE FactoryReset
  <2>1. trap'.kills = {} /\ trap'.fw = trap.fw /\ History' = {}
    BY <1>1, <1>3 DEF FactoryReset, History
  <2> QED
    BY <1>1, <1>2, <2>1 DEF Remembers, Tells, Marked
<1>4. CASE FirmwareUpdate
  <2>1. trap'.fw = "new" /\ ~Whole'
    BY <1>1, <1>4 DEF FirmwareUpdate, Fault, Whole, Without
  <2> QED
    BY <1>1, <2>1 DEF Remembers, Tells, Marked
<1> QED
  BY <1>3, <1>4

-----------------------------------------------------------------------------
(***************************************************************************)
(* A session up to its end.                                                *)
(***************************************************************************)
LEMMA WThings ==
  ASSUME WInv
  PROVE  /\ IInv /\ TypeOK /\ clock \in Nat /\ trap.kills \in SUBSET Times
         /\ mem \in Records /\ flash \in Records /\ ses \in Session
         /\ trap \in [kills : SUBSET Times, fw : {"old", "new"}]
         /\ vol \in [unanswered : BOOLEAN, rescan : BOOLEAN]
         /\ mem.cache.newest \in Nat /\ mem.cache.scanned \in Nat /\ mem.prefs.last \in Nat
         /\ ses.end \in Nat /\ \A k \in trap.kills : k \in Nat /\ k >= 2 /\ k <= clock
BY Things, RecordFacts, Numbers DEF WInv, IInv, TypeOK, Replayed

LEMMA WholeBefore ==
  ASSUME faults \subseteq faults', Whole'
  PROVE  Whole
BY DEF Whole, Without

LEMMA WStep ==
  ASSUME WInv, IInv', mem'.prefs = mem.prefs, mem'.cache = mem.cache, mem'.fw \in {mem.fw, trap.fw},
         clock' \in Nat, clock <= clock', flash' \in {flash, mem}, trap' = trap,
         faults \subseteq faults', Asking', Telling'
  PROVE  WInv'
<1>1. TypeOK /\ mem \in Records /\ flash \in Records /\ flash' \in Records
  BY WThings
<1>2. mem' \in Records
  BY DEF IInv, TypeOK
<1>3. Remembers(mem)'
  BY <1>1, <1>2, RemembersStill DEF WInv
<1>4. Remembers(flash)'
  BY <1>1, RemembersStill DEF WInv
<1> QED
  BY <1>3, <1>4 DEF WInv

\* Without a session there is nothing to tell.
LEMMA NoTelling ==
  ASSUME ses' = Idle
  PROVE  Telling'
BY IdleFacts DEF Telling

LEMMA KillW ==
  ASSUME WInv, IInv', Kill
  PROVE  WInv'
<1>1. /\ trap'.kills = trap.kills \cup {clock + 1} /\ trap'.fw = trap.fw /\ clock' = clock + 1
      /\ UNCHANGED <<mem, flash, vol, ses>> /\ faults \subseteq faults'
  BY WThings DEF Kill, Fault
<1>2. Remembers(mem)' /\ Remembers(flash)'
  BY <1>1, WThings, RemembersKill DEF WInv
<1>3. (Whole' => Whole) /\ ((Whole \/ trap.fw = "new") => (Whole' \/ trap.fw = "new"))
  <2>1. ASSUME Whole PROVE Whole'
    BY <2>1 DEF Kill, Fault, Whole, Without
  <2> QED
    BY <1>1, <2>1, WholeBefore
<1>4. Asking'
  BY <1>1, <1>3 DEF WInv, Asking
<1>5. Telling'
  <2>1. Telling /\ clock \in Nat /\ mem.cache.newest \in Nat /\ mem.cache.newest <= clock /\ ses.end \in Nat
    BY WThings DEF WInv, Remembers, Tells
  <2>2. \A k \in History' : k \in History \/ k = clock + 1
    BY <1>1, WThings, HistoryGrows DEF IInv, TypeOK
  <2>3. ses.sent => \A j \in ses.sample : j < clock + 1
    BY <2>1, WThings DEF Telling
  <2>4. clock + 1 > mem.cache.newest
    BY <2>1
  <2>5. \A k \in trap'.kills : k \in trap.kills \/ ~(k <= ses.end)
    BY <1>1, <2>1 DEF WInv, IInv, Replayed
  <2>6. ses.sent' => ses.sent /\ ses.sample' = ses.sample
    BY <1>1
  <2>7. ses.sent' => \A k \in History' :
          k \in ses'.sample \/ (k > mem'.cache.newest /\ \A j \in ses'.sample : j < k)
    BY <1>1, <2>1, <2>2, <2>3, <2>4 DEF Telling
  <2> QED
    BY <1>1, <1>3, <2>1, <2>5, <2>7 DEF Telling
<1> QED
  BY <1>2, <1>4, <1>5 DEF WInv

LEMMA TrapChangesW ==
  ASSUME WInv, IInv', FactoryReset \/ FirmwareUpdate
  PROVE  WInv'
<1>1. ses' = Idle /\ UNCHANGED <<mem, flash, vol, ses>> /\ faults \subseteq faults'
  BY DEF WInv, IInv, Asked, FactoryReset, FirmwareUpdate, Fault
<1>2. Remembers(mem)' /\ Remembers(flash)'
  BY <1>1, WThings, RemembersChanges DEF WInv
<1>3. Asking'
  <2>1. CASE FactoryReset
    <3>1. trap'.fw = trap.fw /\ (Whole <=> Whole')
      BY <2>1, WThings DEF FactoryReset, Fault, Whole, Without
    <3> QED
      BY <1>1, <3>1 DEF WInv, Asking
  <2>2. CASE FirmwareUpdate
    <3>1. trap'.fw = "new" /\ ~Whole'
      BY <2>2, WThings DEF FirmwareUpdate, Fault, Whole, Without
    <3> QED
      BY <3>1 DEF Asking
  <2> QED
    BY <2>1, <2>2
<1> QED
  BY <1>1, <1>2, <1>3, NoTelling DEF WInv

\* Steps that touch no session.
LEMMA QuietW ==
  ASSUME WInv, IInv', Tick \/ PollNow \/ Sync
  PROVE  WInv'
<1>1. clock' \in Nat /\ clock <= clock'
  BY WThings DEF Tick, PollNow, Sync
<1>2. /\ UNCHANGED <<trap, mem, ses, faults>> /\ vol'.unanswered = vol.unanswered
      /\ flash' \in {flash, mem}
  BY WThings DEF Tick, PollNow, Sync
<1>3. Asking' /\ Telling'
  BY <1>2 DEF WInv, Asking, Telling, Whole, Without, History
<1> QED
  BY <1>1, <1>2, <1>3, WStep

LEMMA TrapAnswersW ==
  ASSUME WInv, IInv', TrapAnswers
  PROVE  WInv'
<1>1. /\ ses.phase = "history" /\ ~ses.sent /\ trap.fw = "new" /\ ses.plan = "none"
      /\ ~ses.complete /\ ~ses.got
      /\ ses' = [ses EXCEPT !.sent = TRUE, !.sample = History]
      /\ UNCHANGED <<clock, trap, mem, flash, vol, faults>>
  BY DEF TrapAnswers, WInv, IInv, Asked
<1>2. /\ ses'.sample = History
      /\ \A f \in {"phase", "asks", "got", "plan", "complete"} : ses'[f] = ses[f]
  BY <1>1, WThings DEF Session
<1>3. Asking'
  BY <1>1, <1>2 DEF WInv, Asking, Whole, Without
<1>4. Telling'
  <2>1. /\ History' = History /\ (Whole' <=> Whole) /\ History \subseteq trap.kills
        /\ Whole => \A k \in History : k <= mem.cache.newest => k \in mem.prefs.counted
    BY <1>1 DEF History, Whole, Without, WInv, Remembers, Tells
  <2> QED
    BY <1>1, <1>2, <2>1 DEF Telling
<1> QED
  BY <1>1, <1>3, <1>4, WThings, WStep

LEMMA BeginW ==
  ASSUME WInv, IInv', Begin
  PROVE  WInv'
<1>1. PICK logs \in BOOLEAN :
        ses' = [Idle EXCEPT !.phase = "firmware", !.logs = logs,
                            !.asks = UsesHistory(mem.fw, vol.unanswered)]
  BY DEF Begin
<1>2. /\ ses'.phase = "firmware" /\ ~ses'.sent /\ ~ses'.got /\ ses'.plan = "none" /\ ~ses'.complete
      /\ ses'.asks = UsesHistory(mem.fw, vol.unanswered)
  BY <1>1, IdleFacts DEF Session
<1>3. UNCHANGED <<clock, trap, mem, flash, vol, faults>>
  BY DEF Begin
<1>4. Asking'
  BY <1>2, <1>3 DEF WInv, Asking, Whole, Without, Remembers, Marked, UsesHistory
<1>5. Telling'
  BY <1>2 DEF Telling
<1> QED
  BY <1>3, <1>4, <1>5, WThings, WStep

\* The log is asked for up to now, which is not before any mark or answer.
LEMMA PlanW ==
  ASSUME WInv, NEW s \in Session, s.plan = "none", s.end = 0, ~s.complete,
         s.sent = ses.sent, s.sample = ses.sample, s.got => s.history = s.sample,
         NEW fw, NEW unanswered \in BOOLEAN, PlanLog(s, fw, unanswered),
         mem'.prefs = mem.prefs, mem'.cache = mem.cache, UNCHANGED <<clock, trap>>,
         faults \subseteq faults'
  PROVE  Telling'
<1>1. /\ TypeOK /\ Telling /\ clock \in Nat /\ mem.cache.newest <= clock
      /\ mem.cache.scanned <= clock
  BY WThings DEF WInv, Remembers, Tells
<1>2. /\ ~ses'.complete /\ ses'.sent = ses.sent /\ ses'.sample = ses.sample
      /\ ses'.got = s.got /\ ses'.history = s.history
      /\ ses'.plan # "none" => ses'.end = clock
      /\ ses'.plan = "window" => mem.prefs.known /\ ses'.from <= mem.cache.scanned
  BY <1>1, PlanLogFacts
<1>3. History' = History /\ (Whole' => Whole)
  BY WholeBefore DEF History
<1>4. ses.sent => \A j \in ses.sample : j <= clock
  BY <1>1, WThings DEF Telling
<1> QED
  BY <1>1, <1>2, <1>3, <1>4 DEF Telling

LEMMA FirmwareAnswerW ==
  ASSUME WInv, IInv', FirmwareAnswer
  PROVE  WInv'
<1> DEFINE unanswered == vol.unanswered /\ mem.fw = trap.fw
<1>1. /\ ses.phase = "firmware" /\ ~ses.sent /\ ~ses.got /\ ses.plan = "none"
      /\ ~ses.complete /\ ses.end = 0 /\ unanswered \in BOOLEAN
  BY WThings DEF FirmwareAnswer, WInv, IInv, Asked
<1>2. /\ mem'.prefs = mem.prefs /\ mem'.cache = mem.cache /\ mem'.fw = trap.fw
      /\ UNCHANGED <<clock, trap, flash, faults>>
  BY WThings DEF FirmwareAnswer, Records
<1>3. CASE ses.asks
  <2>1. /\ ses' = [ses EXCEPT !.phase = "history"]
        /\ vol' = [vol EXCEPT !.unanswered = unanswered]
    BY <1>3 DEF FirmwareAnswer
  <2>2. /\ ses'.phase = "history" /\ ses'.asks /\ ~ses'.sent /\ ~ses'.got
        /\ ses'.plan = "none" /\ ~ses'.complete /\ (vol'.unanswered => vol.unanswered)
    BY <1>1, <1>3, <2>1, WThings DEF Session
  <2>3. Asking'
    BY <1>2, <2>2 DEF WInv, Asking, Whole, Without
  <2>4. Telling'
    BY <2>2 DEF Telling
  <2> QED
    BY <1>2, <2>3, <2>4, WThings, WStep
<1>4. CASE ~ses.asks
  <2>1. PlanLog(ses, trap.fw, unanswered)
    BY <1>4 DEF FirmwareAnswer
  <2>2. ~ses'.sent /\ Telling'
    BY <1>1, <1>2, <2>1, WThings, PlanW, PlanLogFacts
  <2>3. Asking'
    BY <1>1, <1>2, <1>4, <2>2 DEF WInv, Asking, Whole, Without
  <2> QED
    BY <1>2, <2>2, <2>3, WThings, WStep
<1> QED
  BY <1>3, <1>4

LEMMA HistoryArrivesW ==
  ASSUME WInv, IInv', HistoryArrives
  PROVE  WInv'
<1> DEFINE s == [ses EXCEPT !.got = TRUE, !.history = ses.sample]
<1>1. /\ ses.phase = "history" /\ ses.sent /\ ses.plan = "none" /\ ~ses.complete /\ ses.end = 0
      /\ UNCHANGED <<clock, trap, mem, flash, faults>> /\ PlanLog(s, mem.fw, vol.unanswered)
  BY DEF HistoryArrives, WInv, IInv, Asked
<1>2. /\ s \in Session /\ s.plan = "none" /\ s.end = 0 /\ ~s.complete /\ s.got /\ s.sent
      /\ s.history = ses.sample /\ s.sample = ses.sample /\ s.asks = ses.asks
      /\ vol.unanswered \in BOOLEAN
  BY <1>1, WThings, Things DEF Session
<1> HIDE DEF s
<1>3. Telling'
  BY <1>1, <1>2, PlanW
<1>4. /\ ses'.got /\ ses'.sent /\ ses'.asks = ses.asks /\ vol'.unanswered = vol.unanswered
      /\ ses'.plan = "window" => ~UsesHistory(mem.fw, vol.unanswered)
  BY <1>1, <1>2, WThings, PlanLogFacts
<1>5. Asking'
  BY <1>1, <1>4 DEF WInv, Asking, Whole, Without, Remembers, Marked, UsesHistory
<1> QED
  BY <1>1, <1>3, <1>5, WThings, WStep

LEMMA HistoryTimeoutW ==
  ASSUME WInv, IInv', HistoryTimeout
  PROVE  WInv'
<1>1. /\ ses.phase = "history" /\ ses.plan = "none" /\ ~ses.complete /\ ses.end = 0 /\ ~ses.got
      /\ UNCHANGED <<clock, trap, mem, flash>> /\ PlanLog(ses, mem.fw, TRUE)
  BY DEF HistoryTimeout, WInv, IInv, Asked
<1>2. faults \subseteq faults' /\ (trap.fw = "new" => ~Whole')
  BY DEF HistoryTimeout, Fault, Whole, Without
<1>3. Telling' /\ ses'.sent = ses.sent
  BY <1>1, <1>2, WThings, PlanW, PlanLogFacts
<1>4. trap.fw = "old" => Whole' /\ Whole
  BY <1>2 DEF HistoryTimeout, WInv, Asking, Whole, Without
<1>5. Asking'
  BY <1>1, <1>2, <1>3, <1>4, WThings DEF WInv, Asking
<1> QED
  BY <1>1, <1>2, <1>3, <1>5, WThings, WStep

LEMMA HistoryLateW ==
  ASSUME WInv, IInv', HistoryLate
  PROVE  WInv'
<1>1. /\ ses.phase \in {"log", "end"} /\ ses.sent
      /\ ses' = [ses EXCEPT !.got = TRUE, !.history = ses.sample]
      /\ UNCHANGED <<clock, trap, mem, flash, vol, faults>>
  BY DEF HistoryLate, AnswerOnItsWay
<1>2. /\ ses'.got /\ ses'.history = ses.sample
      /\ \A f \in {"phase", "asks", "sent", "sample", "plan", "from", "end", "complete", "events"} :
           ses'[f] = ses[f]
  BY <1>1, WThings DEF Session
<1>3. Asking' /\ Telling'
  BY <1>1, <1>2 DEF WInv, Asking, Telling, Whole, Without, History
<1> QED
  BY <1>1, <1>3, WThings, WStep

LEMMA LogW ==
  ASSUME WInv, IInv', LogArrives \/ LogTimeout
  PROVE  WInv'
<1> DEFINE told == {k \in trap.kills : /\ ses.from <= k /\ k <= ses.end
                                       /\ ses.plan = "full" \/ k > mem.prefs.last}
<1>1. UNCHANGED <<clock, trap, mem, flash, vol, faults>> /\ ses.phase \in {"log", "end"}
  BY DEF LogArrives, LogTimeout
<1>2. /\ ses'.phase \in {"log", "end"}
      /\ \A f \in {"asks", "sent", "sample", "got", "history", "plan", "from", "end"} : ses'[f] = ses[f]
      /\ \/ ses'.complete = ses.complete /\ ses'.events = ses.events
         \/ ses'.events = told
  BY WThings DEF LogArrives, LogTimeout, Session
<1>3. Asking'
  BY <1>1, <1>2 DEF WInv, Asking, Whole, Without
<1>4. ses'.complete =>
        \A k \in trap.kills :
          ses.from <= k /\ k <= ses.end /\ (ses.plan = "full" \/ k > mem.prefs.last)
            => k \in ses'.events
  BY <1>2 DEF WInv, Telling
<1> HIDE DEF told
<1>5. Telling'
  BY <1>1, <1>2, <1>4 DEF WInv, Telling, Whole, Without, History
<1> QED
  BY <1>1, <1>3, <1>5, WThings, WStep

\* A session or the gateway stops; after a power loss flash is what is left.
LEMMA StopsW ==
  ASSUME WInv, IInv', SessionFails \/ Restart \/ PowerLoss
  PROVE  WInv'
<1>1. /\ ses' = Idle /\ UNCHANGED <<clock, trap>> /\ faults \subseteq faults'
      /\ vol'.unanswered => vol.unanswered
      /\ flash' \in {flash, mem} /\ mem' \in {flash, mem}
  BY DEF SessionFails, Restart, PowerLoss, Fault, Forgetful
<1>2. Remembers(mem)' /\ Remembers(flash)'
  BY <1>1, WThings, RemembersStill DEF WInv
<1>3. Whole' <=> Whole
  BY DEF SessionFails, Restart, PowerLoss, Fault, Whole, Without
<1>4. Asking'
  BY <1>1, <1>3, IdleFacts DEF WInv, Asking
<1> QED
  BY <1>1, <1>2, <1>4, NoTelling DEF WInv

-----------------------------------------------------------------------------
(***************************************************************************)
(* A session ends well: what the log tells, then what the history does.    *)
(***************************************************************************)

\* The kills known of, at most, have been counted: what the log leaves.
LEMMA LoggedTells ==
  ASSUME WInv, ses.phase = "end"
  PROVE  /\ Tells(Logged) /\ Logged.cache.newest = mem.cache.newest
         /\ ~Logged.prefs.known => ~mem.prefs.known
         /\ trap.fw = "old" => \A k \in trap.kills : k <= mem.cache.scanned => k \in Logged.prefs.counted
         /\ Whole /\ trap.fw = "new" => (ses.complete => ses.plan = "full")
         /\ ses.complete /\ ses.plan # "full" => mem.prefs.known
         /\ ses.complete => Logged.prefs.known
         /\ ses.complete /\ ses.plan = "full" =>
              /\ Logged.prefs.counted = ses.events
              /\ \A k \in trap.kills : k <= ses.end => k \in ses.events
<1>1. /\ IInv /\ TypeOK /\ Remembers(mem) /\ Tells(mem) /\ Asking /\ Telling
      /\ mem.prefs.counted \in SUBSET Times /\ ses.events \in SUBSET Times
      /\ ses.plan \in {"none", "full", "window"} /\ ses.complete \in BOOLEAN
      /\ clock \in Nat /\ ses.end \in Nat /\ mem.cache.newest \in Nat /\ mem.prefs.last \in Nat
      /\ mem \in Records /\ History \subseteq trap.kills
      /\ \A k \in trap.kills : k \in Nat /\ k >= 2
  BY WThings, Things, RecordFacts DEF WInv, Remembers, Session, History
<1>2. CASE ~ses.complete
  BY <1>1, <1>2 DEF Logged, Remembers, Tells
<1>3. CASE ses.complete
  <2> DEFINE n == Logged
             last == Latest(ses.events)
  <2>1. /\ n = AfterLog(mem) /\ ses.plan # "none" /\ ses.end <= clock
        /\ \A k \in ses.events : k \in trap.kills /\ k <= ses.end
        /\ mem.cache.newest <= ses.end /\ mem.cache.scanned <= ses.end
    BY <1>1, <1>3 DEF Logged, IInv, Replayed, Telling
  <2>2. n.prefs.known /\ n.cache.newest = mem.cache.newest /\ n.cache.scanned = ses.end
    BY <1>1, <2>1, AfterLogFacts
  <2>3. /\ last \in Nat /\ \A u \in ses.events : u <= last
        /\ ses.events # {} => last \in ses.events
        /\ last # 0 => last \in ses.events
    BY <1>1, LatestFacts, LatestZero
  <2>4. last <= clock /\ last <= ses.end
    BY <1>1, <2>1, <2>3
  <2>5. CASE ses.plan = "full"
    <3>1. n.prefs.counted = ses.events /\ n.prefs.last = last
      BY <1>1, <2>1, <2>5, AfterLogFacts
    <3>2. \A k \in trap.kills : k <= ses.end => k \in ses.events
      <4>1. ses.from = 0 /\ \A k \in trap.kills : 0 <= k
        BY <1>1, <2>5 DEF IInv, Replayed
      <4> QED
        BY <1>1, <1>3, <2>5, <4>1 DEF Telling
    <3> HIDE DEF n
    <3>3. mem.cache.newest <= clock
      BY <1>1 DEF Tells
    <3>4. \A k \in trap.kills : k <= ses.end \/ k <= last => k \in ses.events
      BY <1>1, <2>3, <2>4, <3>2
    <3>5. \A k \in History : k <= mem.cache.newest => k \in ses.events
      BY <1>1, <2>1, <3>2
    <3> HIDE DEF last
    <3>6. Tells(n)
      BY <2>1, <2>2, <2>4, <3>1, <3>3, <3>4, <3>5 DEF Tells, last
    <3>7. \A k \in trap.kills : k <= mem.cache.scanned => k \in ses.events
      BY <1>1, <2>1, <3>2, WThings
    <3> QED
      BY <2>2, <2>5, <3>1, <3>2, <3>6, <3>7 DEF n
  <2>6. CASE ses.plan = "window"
    <3>1. /\ n.prefs.counted = mem.prefs.counted \cup ses.events
          /\ n.prefs.last = Later(mem.prefs.last, last)
          /\ mem.prefs.known
      BY <1>1, <2>1, <2>6, AfterLogFacts DEF Telling
    <3>2. /\ n.prefs.last \in Nat /\ n.prefs.last \in {mem.prefs.last, last}
          /\ n.prefs.last >= mem.prefs.last /\ n.prefs.last >= last
      BY <1>1, <2>3, <3>1, LaterFacts
    <3>3. n.prefs.last <= clock /\ mem.prefs.last <= clock
      BY <1>1, <2>4, <3>2 DEF Tells
    <3>4. ASSUME trap.fw = "old", NEW k \in trap.kills, k <= ses.end \/ k <= n.prefs.last
          PROVE  k \in n.prefs.counted
      <4>1. CASE k <= mem.prefs.last \/ k <= mem.cache.scanned
        BY <1>1, <3>1, <3>4, <4>1 DEF Tells
      <4>2. CASE ~(k <= mem.prefs.last) /\ ~(k <= mem.cache.scanned)
        <5>1. k <= ses.end
          BY <1>1, <2>3, <2>4, <3>2, <3>4, <4>2
        <5>2. k > mem.prefs.last /\ ses.from <= k
          <6>1. ses.from \in Nat /\ mem.cache.scanned \in Nat /\ ses.from <= mem.cache.scanned
            BY <1>1, <2>6, WThings, Numbers DEF Telling, Session
          <6> QED
            BY <1>1, <4>2, <6>1
        <5> QED
          BY <1>1, <1>3, <3>1, <5>1, <5>2 DEF Telling
      <4> QED
        BY <4>1, <4>2
    <3>5. ASSUME Whole
          PROVE  n.prefs.last = Latest(n.prefs.counted)
      <4>1. mem.prefs.last = Latest(mem.prefs.counted)
        BY <1>1, <3>1, <3>5 DEF Tells
      <4>2. /\ \A u \in mem.prefs.counted : u \in Nat /\ u <= mem.prefs.last
            /\ mem.prefs.last # 0 => mem.prefs.last \in mem.prefs.counted
        BY <1>1, <4>1, LatestFacts, LatestZero
      <4>3. n.prefs.counted \in SUBSET Times
        BY <1>1, <3>1
      <4>4. \A u \in n.prefs.counted : u <= n.prefs.last
        <5>1. \A u \in ses.events : u \in Nat /\ u <= n.prefs.last
          BY <1>1, <2>1, <2>3, <3>2
        <5> QED
          BY <1>1, <3>1, <3>2, <4>2, <5>1
      <4>5. CASE n.prefs.last \in n.prefs.counted
        BY <4>3, <4>4, <4>5, LatestIs
      <4>6. CASE n.prefs.last \notin n.prefs.counted
        <5>1. n.prefs.last = 0
          BY <2>3, <3>1, <3>2, <4>2, <4>6
        <5>2. n.prefs.counted = {}
          BY <4>3, <4>4, <5>1, Numbers
        <5> QED
          BY <5>1, <5>2, <4>3, LatestZero
      <4> QED
        BY <4>5, <4>6
    <3> HIDE DEF n, last
    <3>6. Tells(n)
      BY <1>1, <2>1, <2>2, <3>1, <3>3, <3>4, <3>5 DEF Tells
    <3> QED
      BY <1>1, <2>1, <2>2, <2>6, <3>1, <3>6 DEF n, Asking, Tells
  <2> QED
    BY <1>1, <2>1, <2>5, <2>6
<1> QED
  BY <1>1, <1>2, <1>3

\* And what a history leaves of new firmware that always answered: it has been
\* counted, and with it all that any mark covers.
LEMMA SettledTells ==
  ASSUME WInv, ses.phase = "end", ses.got
  PROVE  /\ trap.fw = "new" /\ Tells(Settled) /\ Settled.cache.newest # 0 /\ Settled.prefs.known
         /\ Whole => \A k \in History : k <= mem.cache.newest => k \in Settled.prefs.counted
         /\ Settled.prefs.strikes > Logged.prefs.strikes /\ Logged.prefs.known => mem.cache.newest # 0
<1> DEFINE m == Logged
           n == Settled
           replayed == ses.complete /\ ses.plan = "full"
           newest == Latest(ses.history)
           seen == mem.cache.newest
           fresh == {t \in ses.history : t > seen}
<1>1. /\ IInv /\ TypeOK /\ Asking /\ Telling /\ Remembers(mem) /\ Tells(mem) /\ Tells(m)
      /\ m \in Records /\ m.cache.newest = seen /\ n \in Records /\ replayed \in BOOLEAN
      /\ clock \in Nat /\ seen \in Nat /\ ses.end \in Nat
      /\ ses.history \in SUBSET Times /\ History \in SUBSET Times
      /\ m.prefs.counted \in SUBSET Times /\ m.prefs.last \in Nat
      /\ n.prefs.counted \in SUBSET Times /\ n.prefs.last \in Nat /\ n.cache.newest \in Nat
      /\ n = AfterHistory(m, replayed)
  BY WThings, Things, RecordFacts, DoneFacts, LoggedTells, HistoryFacts
  DEF WInv, Remembers, Session, Settled
<1>2. /\ trap.fw = "new" /\ ses.sent /\ ses.history = ses.sample /\ ses.history \subseteq trap.kills
      /\ \A k \in ses.history : k \in Nat /\ k >= 2 /\ k <= clock
  BY <1>1, WThings DEF WInv, IInv, Asked, Asking, Telling
<1>3. /\ newest \in Nat /\ newest <= clock /\ \A u \in ses.history : u <= newest
      /\ ses.history # {} => newest \in ses.history
      /\ ses.history = {} => newest = 0
  <2>1. clock \in Nat /\ 0 <= clock
    BY <1>1, Numbers
  <2> QED
    BY <1>1, <1>2, <2>1, LatestFacts, LatestZero
<1>4. /\ n.prefs.known /\ n.cache.newest >= 1 /\ n.cache.newest \in {seen, newest, 1}
      /\ n.cache.scanned = m.cache.scanned
      /\ ~replayed /\ seen # 0 => fresh \subseteq n.prefs.counted
      /\ \/ /\ ~m.prefs.known
            /\ n.prefs.counted = ses.history
            /\ n.prefs.last = Later(m.prefs.last, newest)
         \/ /\ m.prefs.known
            /\ n.prefs.counted = m.prefs.counted
            /\ n.prefs.strikes = m.prefs.strikes
            /\ n.prefs.last \in {m.prefs.last, Later(m.prefs.last, newest)}
         \/ /\ m.prefs.known /\ ~replayed /\ seen # 0
            /\ n.prefs.counted = m.prefs.counted \cup fresh
            /\ n.prefs.last = Later(m.prefs.last, newest)
  <2>1. seen = m.cache.newest
    BY <1>1
  <2> HIDE DEF m, n
  <2> DEFINE f == {t \in ses.history : t > m.cache.newest}
  <2>2. f = fresh
    BY <2>1
  <2> HIDE DEF seen, fresh
  <2>3. TypeOK /\ m \in Records /\ replayed \in BOOLEAN /\ n = AfterHistory(m, replayed)
    BY <1>1
  <2>4. /\ n.prefs.known /\ n.cache.newest >= 1
        /\ n.cache.newest \in {m.cache.newest, newest, 1}
        /\ n.cache.scanned = m.cache.scanned
    BY <2>3, AfterHistoryFacts
  <2>5. ~replayed /\ m.cache.newest # 0 => f \subseteq n.prefs.counted
    BY <2>3, AfterHistoryFacts
  <2>6. \/ /\ ~m.prefs.known
           /\ n.prefs.counted = ses.history
           /\ n.prefs.last = Later(m.prefs.last, newest)
        \/ /\ m.prefs.known
           /\ n.prefs.counted = m.prefs.counted
           /\ n.prefs.strikes = m.prefs.strikes
           /\ n.prefs.last \in {m.prefs.last, Later(m.prefs.last, newest)}
        \/ /\ m.prefs.known /\ ~replayed /\ m.cache.newest # 0
           /\ n.prefs.counted = m.prefs.counted \cup f
           /\ n.prefs.last = Later(m.prefs.last, newest)
    BY <2>3, AfterHistoryFacts
  <2> HIDE DEF newest, f
  <2> QED
    BY <2>1, <2>2, <2>4, <2>5, <2>6
<1>5. /\ Later(m.prefs.last, newest) \in Nat /\ Later(m.prefs.last, newest) \in {m.prefs.last, newest}
      /\ Later(m.prefs.last, newest) >= m.prefs.last /\ Later(m.prefs.last, newest) >= newest
  BY <1>1, <1>3, LaterFacts
<1>6. /\ n.prefs.last \in {m.prefs.last, newest} /\ n.prefs.last >= m.prefs.last
      /\ n.prefs.last <= clock /\ n.cache.newest <= clock /\ n.cache.scanned <= clock
  <2>1. 1 <= clock
    <3>1. clock \in Times
      BY <1>1, Things
    <3> QED
      BY <3>1, Numbers
  <2>2. m.prefs.last <= clock /\ m.cache.scanned <= clock /\ seen <= clock
    <3> HIDE DEF m
    <3> QED
      BY <1>1 DEF Tells
  <2> QED
    BY <1>1, <1>3, <1>4, <1>5, <2>1, <2>2
<1>7. ASSUME Whole
      PROVE  /\ \A k \in History : k <= n.cache.newest => k \in n.prefs.counted
             /\ n.prefs.last = Latest(n.prefs.counted)
             /\ \A k \in History : k <= seen => k \in n.prefs.counted
  <2>1. /\ \A k \in History : k <= seen => k \in m.prefs.counted
        /\ \A k \in ses.history : k <= seen => k \in mem.prefs.counted
        /\ mem.prefs.known => seen # 0
        /\ m.prefs.known => m.prefs.last = Latest(m.prefs.counted)
        /\ ~m.prefs.known => m.prefs.last = 0 /\ m.prefs.counted = {}
    BY <1>1, <1>2, <1>7 DEF Remembers, Tells, Marked, Telling
  <2>2. m.prefs.known => replayed \/ m = mem
    BY <1>1, <1>2, <1>7, LoggedTells DEF Logged
  <2>3. replayed => ses.history \subseteq m.prefs.counted
    <3>1. replayed => \A k \in ses.history : k <= ses.end
      BY <1>1, <1>2 DEF Telling
    <3> QED
      BY <1>2, <3>1, LoggedTells
  <2>4. ses.history \subseteq n.prefs.counted
    <3> SUFFICES ASSUME NEW k \in ses.history PROVE k \in n.prefs.counted
      OBVIOUS
    <3>1. CASE ~m.prefs.known
      BY <1>4, <3>1
    <3>2. CASE m.prefs.known /\ replayed
      BY <1>4, <2>3, <3>2
    <3>3. CASE m.prefs.known /\ ~replayed
      <4>1. m = mem /\ seen # 0
        BY <2>1, <2>2, <3>3
      <4>2. CASE k <= seen
        BY <1>4, <2>1, <3>3, <4>1, <4>2
      <4>3. CASE ~(k <= seen)
        BY <1>1, <1>2, <1>4, <3>3, <4>1, <4>3
      <4> QED
        BY <4>2, <4>3
    <3> QED
      BY <3>1, <3>2, <3>3
  <2>5. m.prefs.counted \subseteq n.prefs.counted
    BY <1>4, <2>1
  <2>6. \A k \in History : k <= seen => k \in n.prefs.counted
    BY <2>1, <2>5
  <2>7. ASSUME NEW k \in History, k <= n.cache.newest
        PROVE  k \in n.prefs.counted
    <3>1. k \in Nat /\ k >= 2
      BY <1>1, Numbers
    <3>2. CASE k <= seen
      BY <2>6, <3>2
    <3>3. CASE ~(k <= seen)
      <4>1. k <= newest /\ newest \in ses.history
        BY <1>1, <1>3, <1>4, <2>7, <3>1, <3>3
      <4>2. k \in ses.history \/ newest < k
        BY <1>1, <1>2, <4>1 DEF Telling
      <4>3. k \in ses.history
        BY <1>3, <3>1, <4>1, <4>2
      <4> QED
        BY <2>4, <4>3
    <3> QED
      BY <3>2, <3>3
  <2>8. n.prefs.last = Latest(n.prefs.counted)
    <3>1. /\ \A u \in m.prefs.counted : u \in Nat /\ u <= m.prefs.last
          /\ m.prefs.last # 0 => m.prefs.last \in m.prefs.counted
      <4>1. CASE m.prefs.known
        <5> DEFINE S == m.prefs.counted
        <5>1. S \in SUBSET Times /\ m.prefs.last = Latest(S)
          BY <1>1, <2>1, <4>1
        <5> HIDE DEF m
        <5> QED
          BY <5>1, LatestFacts, LatestZero
      <4>2. CASE ~m.prefs.known
        BY <2>1, <4>2
      <4> QED
        BY <4>1, <4>2
    <3>2. \A u \in n.prefs.counted : u <= n.prefs.last
      <4> SUFFICES ASSUME NEW u \in n.prefs.counted PROVE u <= n.prefs.last
        OBVIOUS
      <4>1. u \in Nat
        BY <1>1, Numbers
      <4>2. CASE u \in m.prefs.counted
        BY <1>1, <1>6, <3>1, <4>1, <4>2
      <4>3. CASE u \notin m.prefs.counted
        BY <1>1, <1>3, <1>4, <1>5, <4>1, <4>3
      <4> QED
        BY <4>2, <4>3
    <3>3. CASE n.prefs.last \in n.prefs.counted
      BY <1>1, <3>2, <3>3, LatestIs
    <3>4. CASE n.prefs.last \notin n.prefs.counted
      <4>1. n.prefs.last = 0
        BY <1>3, <1>6, <2>4, <2>5, <3>1, <3>4
      <4>2. n.prefs.counted = {}
        BY <1>1, <3>2, <4>1, Numbers
      <4> QED
        BY <1>1, <4>1, <4>2, LatestZero
    <3> QED
      BY <3>3, <3>4
  <2> QED
    BY <2>6, <2>7, <2>8
<1> HIDE DEF n, m
<1>8. Tells(n)
  BY <1>2, <1>4, <1>6, <1>7 DEF Tells
<1>9. n.prefs.strikes > m.prefs.strikes /\ m.prefs.known => seen # 0
  <2>1. m.prefs.strikes \in Nat
    BY <1>1, RecordFacts
  <2> QED
    BY <1>4, <2>1
<1>10. n.cache.newest # 0
  BY <1>4, <1>1
<1> QED
  BY <1>2, <1>4, <1>7, <1>8, <1>9, <1>10 DEF n, m

\* The count that is flushed with the old marks.
LEMMA FlushedRemembers ==
  ASSUME WInv, ses.phase = "end", NEW R \in Records, Tells(R),
         trap.fw = "old" => \A k \in trap.kills : k <= mem.cache.scanned => k \in R.prefs.counted,
         Whole => \A k \in History : k <= mem.cache.newest => k \in R.prefs.counted,
         Whole /\ trap.fw = "new" => mem.cache.newest # 0
  PROVE  [mem EXCEPT !.prefs = R.prefs] \in Records /\ Remembers([mem EXCEPT !.prefs = R.prefs])
<1> DEFINE n == [mem EXCEPT !.prefs = R.prefs]
<1>1. n \in Records /\ n.prefs = R.prefs /\ n.cache = mem.cache /\ n.fw = mem.fw
  BY WThings DEF Records
<1>2. Remembers(mem)
  BY DEF WInv
<1> HIDE DEF n
<1>3. Tells(n)
  BY <1>1, <1>2 DEF Remembers, Tells
<1>4. Marked(n)
  BY <1>1, <1>2 DEF Remembers, Marked
<1> QED
  BY <1>1, <1>3, <1>4 DEF n, Remembers

LEMMA SessionDoneW ==
  ASSUME WInv, IInv', SessionDone
  PROVE  WInv'
<1>1. /\ ses.phase = "end" /\ mem' = Settled /\ ses' = Idle
      /\ flash' = IF Increased(Logged, Settled) THEN [mem EXCEPT !.prefs = Settled.prefs]
                  ELSE IF Increased(mem, Logged) THEN [mem EXCEPT !.prefs = Logged.prefs]
                  ELSE flash
      /\ UNCHANGED <<clock, trap, vol, faults>>
  BY DEF SessionDone, Settled, Logged
<1>2. /\ IInv /\ Remembers(mem) /\ Remembers(flash) /\ TypeOK /\ clock \in Nat
      /\ mem \in Records /\ flash \in Records /\ Logged \in Records /\ Settled \in Records
      /\ Settled.fw = mem.fw /\ Logged.fw = mem.fw /\ (~ses.got => Settled = Logged)
      /\ trap.fw \in {"old", "new"} /\ mem.prefs.strikes \in Nat /\ Logged.prefs.strikes \in Nat
  BY WThings, DoneFacts, RecordFacts DEF WInv
<1>3. Whole /\ trap.fw = "new" => ses.got
  BY <1>1 DEF WInv, Asking
<1>4. Marked(Settled)
  BY <1>1, <1>2, <1>3, SettledTells DEF Remembers, Marked
<1>5. Remembers(Settled)
  BY <1>1, <1>2, <1>4, LoggedTells, SettledTells DEF Remembers
<1>6. flash' \in Records /\ Remembers(flash')
  <2>1. CASE Increased(Logged, Settled)
    <3>1. ses.got
      BY <1>2, <2>1 DEF Increased
    <3>2. flash' = [mem EXCEPT !.prefs = Settled.prefs]
      BY <1>1, <2>1
    <3>3. /\ trap.fw = "new" /\ Tells(Settled) /\ mem.cache.newest # 0
          /\ Whole => \A k \in History : k <= mem.cache.newest => k \in Settled.prefs.counted
      BY <1>1, <2>1, <3>1, SettledTells DEF Increased
    <3>4. trap.fw # "old"
      BY <3>3
    <3> HIDE DEF Settled
    <3> QED
      BY <1>1, <1>2, <3>2, <3>3, <3>4, FlushedRemembers
  <2>2. CASE ~Increased(Logged, Settled) /\ Increased(mem, Logged)
    <3>1. flash' = [mem EXCEPT !.prefs = Logged.prefs]
      BY <1>1, <2>2
    <3>2. /\ Tells(Logged) /\ Logged.cache.newest = mem.cache.newest
          /\ trap.fw = "old" => \A k \in trap.kills : k <= mem.cache.scanned => k \in Logged.prefs.counted
      BY <1>1, LoggedTells
    <3>3. Whole => \A k \in History : k <= mem.cache.newest => k \in Logged.prefs.counted
      BY <3>2 DEF Tells
    <3>4. Whole /\ trap.fw = "new" => mem.cache.newest # 0
      BY <1>2, <2>2 DEF Increased, Remembers, Marked
    <3> QED
      BY <1>1, <1>2, <3>1, <3>2, <3>3, <3>4, FlushedRemembers
  <2>3. CASE ~Increased(Logged, Settled) /\ ~Increased(mem, Logged)
    BY <1>1, <1>2, <2>3
  <2> QED
    BY <2>1, <2>2, <2>3
<1>7. mem' \in Records /\ Remembers(mem') /\ trap' = trap /\ clock' \in Nat /\ clock <= clock'
  BY <1>1, <1>2, <1>5
<1>8. Remembers(mem)' /\ Remembers(flash)'
  BY <1>1, <1>2, <1>6, <1>7, RemembersStill
<1>9. Asking'
  BY <1>1, IdleFacts DEF WInv, Asking, Whole, Without
<1> QED
  BY <1>1, <1>8, <1>9, NoTelling DEF WInv

-----------------------------------------------------------------------------
LEMMA InitW == Init => WInv
<1> SUFFICES ASSUME Init PROVE WInv
  OBVIOUS
<1>1. IInv /\ TypeOK
  BY InitIInv DEF IInv
<1>2. /\ clock = 2 /\ mem = NewTrap /\ flash = NewTrap /\ vol = Forgetful /\ ses = Idle
      /\ trap.kills \subseteq {2} /\ faults = {}
  BY DEF Init
<1>3. \A k \in trap.kills : k = 2 /\ ~(2 <= 0)
  BY <1>2
<1>4. Remembers(NewTrap)
  BY <1>2, <1>3 DEF Remembers, Tells, Marked, NewTrap, History
<1>5. Asking /\ Telling
  BY <1>2, IdleFacts DEF Asking, Telling, Forgetful, Whole, Without
<1> QED
  BY <1>1, <1>2, <1>4, <1>5 DEF WInv

LEMMA StepW == WInv /\ [Next]_vars => WInv'
<1> SUFFICES ASSUME WInv, [Next]_vars PROVE WInv'
  OBVIOUS
<1>1. IInv'
  BY StepIInv DEF WInv
<1>2. CASE Kill \/ FactoryReset \/ FirmwareUpdate \/ Tick \/ PollNow \/ Sync
  BY <1>1, <1>2, KillW, TrapChangesW, QuietW
<1>3. CASE TrapAnswers \/ Begin \/ FirmwareAnswer
  BY <1>1, <1>3, TrapAnswersW, BeginW, FirmwareAnswerW
<1>4. CASE HistoryArrives \/ HistoryTimeout \/ HistoryLate \/ LogArrives \/ LogTimeout
  BY <1>1, <1>4, HistoryArrivesW, HistoryTimeoutW, HistoryLateW, LogW
<1>5. CASE SessionDone \/ SessionFails \/ Restart \/ PowerLoss
  BY <1>1, <1>5, SessionDoneW, StopsW
<1>6. CASE UNCHANGED vars
  <2>1. Asking' /\ Telling' /\ UNCHANGED <<clock, trap, mem, flash, faults>>
    BY <1>6 DEF vars, WInv, Asking, Telling, Whole, Without, History
  <2> QED
    BY <1>1, <2>1, WThings, WStep
<1> QED
  BY <1>2, <1>3, <1>4, <1>5, <1>6 DEF Next

\* Marks and counts belong together, in memory and in what flash would give back
\* after a power loss at any moment.
THEOREM MarksHold == Spec => []WInv
BY InitW, StepW, PTL DEF Spec

\* kill_history_newest is not ahead of the count: no kill the trap still lists,
\* and that the next history would be thought to have told of, is uncounted;
\* whatever sessions failed, and however often the power was lost between the
\* flushed count and its mark.
THEOREM NothingMissedHolds == Spec => []NothingMissed
<1>1. WInv => NothingMissed
  BY DEF WInv, Remembers, Tells, NothingMissed, Whole
<1> QED
  BY <1>1, MarksHold, PTL

\* log_scanned_to is not ahead of the count either, with any faults, windows that
\* begin anywhere and logs that break off.
THEOREM LogScannedHolds == Spec => []LogScanned
<1>1. WInv => LogScanned
  BY DEF WInv, Remembers, Tells, LogScanned
<1> QED
  BY <1>1, MarksHold, PTL

\* Last Strike is the time of the last kill counted, also after a full replay that
\* took it back and a power loss that took back the marks.
THEOREM LastStrikeCountedHolds == Spec => []LastStrikeCounted
<1>1. WInv => LastStrikeCounted
  BY DEF WInv, Remembers, Tells, LastStrikeCounted, Whole
<1> QED
  BY <1>1, MarksHold, PTL
=============================================================================
