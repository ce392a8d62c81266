----------------------------- MODULE KillCount -----------------------------
(***************************************************************************)
(* How a Mouse Trap's kills become the Strikes of its slot.                *)
(*                                                                         *)
(* The trap keeps a log of all its kills and, on newer firmware, a history *)
(* of the last few.  A session asks for the history, then plans whether to *)
(* replay the log: all of it, a window since the last scan, or nothing.    *)
(* What arrived is applied when the session ends well.  The count and the  *)
(* marks of what was counted are two records of the flash storage, written *)
(* back at different times.                                                *)
(*                                                                         *)
(* Times are small numbers: 0 is "never" and 1 what kill_history_newest    *)
(* holds after an empty history was read.  The trap's clock is the         *)
(* gateway's (each session sets it), and no two kills share a second.      *)
(* Test fires and self-tests, which are not counted, are left out, and so  *)
(* is the short log window read only for its motor and sensor details.     *)
(***************************************************************************)
EXTENDS Integers, FiniteSets

CONSTANTS HistorySize,     \* kill times a trap's history holds (10)
          Overlap,         \* LOG_WINDOW_OVERLAP_S
          RescanInterval,  \* FULL_LOG_RESCAN_INTERVAL_S
          Firmwares,       \* firmware the trap may start with
          Faults,          \* what may happen to trap and gateway, once each
          MaxFaults,       \* bound: how many of these happen
          MaxTime          \* bound: the last second

ASSUME KillCountAssumption ==
  /\ HistorySize \in Nat \ {0} /\ RescanInterval \in Nat \ {0}
  /\ Overlap \in Nat /\ MaxTime \in Nat /\ MaxTime >= 2
  /\ Firmwares \subseteq {"old", "new"} /\ Firmwares # {}
  /\ Faults \subseteq {"power", "lost", "reset", "update", "between"}
  /\ MaxFaults \in Nat

VARIABLES
  clock,   \* now_epoch()
  trap,    \* the trap: the kills in its log, and its firmware
  mem,     \* the slot's records, in RAM and handed to the preferences
  flash,   \* the records as flash holds them
  vol,     \* what is lost in a restart: KILL_HISTORY in unanswered_types_,
           \* full_rescan_requested_
  ses,     \* the session
  faults   \* the faults that happened

vars == <<clock, trap, mem, flash, vol, ses, faults>>

Times  == 2..MaxTime
Latest(times) == IF times = {} THEN 0 ELSE CHOOSE t \in times : \A u \in times : u <= t
Later(t, u)   == IF t >= u THEN t ELSE u

\* The kill times of the answer to KILL_HISTORY.
History ==
  {k \in trap.kills : Cardinality({j \in trap.kills : j > k}) < HistorySize}

(***************************************************************************)
(* prefs is TrapPrefs: strikes, "strikes_at_co2 is known" and last_strike; *)
(* counted, history, is the set of kills strikes stands for.  cache is     *)
(* TrapCache: kill_history_newest, log_scanned_to, last_full_scan.  fw is  *)
(* the firmware in TrapIdentity; a version that cannot be compared is      *)
(* "unknown".                                                              *)
(***************************************************************************)
NewTrap ==
  [prefs |-> [strikes |-> 0, known |-> FALSE, last |-> 0, counted |-> {}],
   cache |-> [newest |-> 0, scanned |-> 0, full |-> 0],
   fw    |-> "unknown"]

Forgetful == [unanswered |-> FALSE, rescan |-> FALSE]

\* phase: the request in flight; asks, logs: the script has KILL_HISTORY, LOGS;
\* sent, sample: the trap has answered, with these kills; got, history:
\* kill_history_received_, kill_history_; plan, from, end: the log window asked
\* for; complete, events: hist_complete_ and the kills counted from it.
Idle ==
  [phase |-> "idle", asks |-> FALSE, logs |-> FALSE, sent |-> FALSE, sample |-> {},
   got |-> FALSE, history |-> {}, plan |-> "none", from |-> 0, end |-> 0,
   complete |-> FALSE, events |-> {}]

Init ==
  /\ clock = 2
  /\ trap \in [kills : {{}, {2}}, fw : Firmwares]
  /\ mem = NewTrap /\ flash = NewTrap
  /\ vol = Forgetful
  /\ ses = Idle
  /\ faults = {}

Fault(f) ==
  /\ f \in Faults \ faults /\ Cardinality(faults) < MaxFaults
  /\ faults' = faults \cup {f}

-----------------------------------------------------------------------------
(***************************************************************************)
(* The trap, and time.                                                     *)
(***************************************************************************)
AnswerOnItsWay == ses.sent /\ ~ses.got

\* Between the history's leaving the trap and its arrival, it is a fault.
Kill ==
  /\ clock < MaxTime
  /\ IF AnswerOnItsWay THEN Fault("between") ELSE UNCHANGED faults
  /\ clock' = clock + 1
  /\ trap' = [trap EXCEPT !.kills = @ \cup {clock + 1}]
  /\ UNCHANGED <<mem, flash, vol, ses>>

Tick ==
  /\ clock < MaxTime
  /\ clock' = clock + 1
  /\ UNCHANGED <<trap, mem, flash, vol, ses, faults>>

\* A factory reset takes the trap off the air: not in a session.
FactoryReset ==
  /\ ses.phase = "idle" /\ Fault("reset")
  /\ trap' = [trap EXCEPT !.kills = {}]
  /\ UNCHANGED <<clock, mem, flash, vol, ses>>

FirmwareUpdate ==
  /\ ses.phase = "idle" /\ trap.fw = "old" /\ Fault("update")
  /\ trap' = [trap EXCEPT !.fw = "new"]
  /\ UNCHANGED <<clock, mem, flash, vol, ses>>

\* The answer to KILL_HISTORY leaves the trap; old firmware has none.
TrapAnswers ==
  /\ ses.phase = "history" /\ trap.fw = "new" /\ ~ses.sent
  /\ ses' = [ses EXCEPT !.sent = TRUE, !.sample = History]
  /\ UNCHANGED <<clock, trap, mem, flash, vol, faults>>

-----------------------------------------------------------------------------
(***************************************************************************)
(* A session.                                                              *)
(***************************************************************************)
UsesHistory(fw, unanswered) == ~unanswered /\ fw # "old"

\* request_full_rescan, on Poll Now.
PollNow ==
  /\ ~vol.rescan
  /\ vol' = [vol EXCEPT !.rescan = TRUE]
  /\ UNCHANGED <<clock, trap, mem, flash, ses, faults>>

\* on_job_started, and the script; without a clock it has no LOGS.
Begin ==
  /\ ses.phase = "idle"
  /\ \E logs \in BOOLEAN :
       ses' = [Idle EXCEPT !.phase = "firmware", !.logs = logs,
                           !.asks = UsesHistory(mem.fw, vol.unanswered)]
  /\ UNCHANGED <<clock, trap, mem, flash, vol, faults>>

\* log_window_start_.
WholeLog ==
  \/ mem.cache.scanned = 0
  \/ ~mem.prefs.known
  \/ clock - mem.cache.full >= RescanInterval
  \/ mem.cache.scanned > clock
  \/ vol.rescan

\* Mutant: the overlap is subtracted without a look at the start of the log.
WindowStartUnguarded == mem.cache.scanned - Overlap

WindowStart == IF mem.cache.scanned > Overlap THEN mem.cache.scanned - Overlap ELSE 0

\* plan_striker_log, reached in session s, with unanswered so far and firmware fw.
PlanLog(s, fw, unanswered) ==
  LET counts == /\ s.logs
                /\ ~UsesHistory(fw, unanswered) \/ ~mem.prefs.known \/ vol.rescan
  IN  IF counts
      THEN /\ ses' = [s EXCEPT !.phase = "log", !.end = clock,
                               !.plan = IF WholeLog THEN "full" ELSE "window",
                               !.from = IF WholeLog THEN 0 ELSE WindowStart]
           /\ vol' = [unanswered |-> unanswered, rescan |-> FALSE]
      ELSE /\ ses' = [s EXCEPT !.phase = "end"]
           /\ vol' = [vol EXCEPT !.unanswered = unanswered]

\* The FIRMWARE answer: new firmware is asked everything again.
FirmwareAnswer ==
  /\ ses.phase = "firmware"
  /\ mem' = [mem EXCEPT !.fw = trap.fw]
  /\ LET unanswered == vol.unanswered /\ mem.fw = trap.fw IN
     IF ses.asks
     THEN /\ ses' = [ses EXCEPT !.phase = "history"]
          /\ vol' = [vol EXCEPT !.unanswered = unanswered]
     ELSE PlanLog(ses, trap.fw, unanswered)
  /\ UNCHANGED <<clock, trap, flash, faults>>

HistoryArrives ==
  /\ ses.phase = "history" /\ ses.sent
  /\ PlanLog([ses EXCEPT !.got = TRUE, !.history = ses.sample], mem.fw, vol.unanswered)
  /\ UNCHANGED <<clock, trap, mem, flash, faults>>

\* KILL_HISTORY is optional: no answer in 4 s, and the trap is not asked again.
HistoryTimeout ==
  /\ ses.phase = "history"
  /\ IF trap.fw = "old" THEN UNCHANGED faults ELSE Fault("lost")
  /\ PlanLog(ses, mem.fw, TRUE)
  /\ UNCHANGED <<clock, trap, mem, flash>>

\* An answer that comes after its timeout is still taken.
HistoryLate ==
  /\ ses.phase \in {"log", "end"} /\ AnswerOnItsWay
  /\ ses' = [ses EXCEPT !.got = TRUE, !.history = ses.sample]
  /\ UNCHANGED <<clock, trap, mem, flash, vol, faults>>

\* Mutant: a window counts what it overlaps again.
LogArrivesOverlapping ==
  /\ ses.phase \in {"log", "end"} /\ ses.plan # "none" /\ ~ses.complete
  /\ ses' = [ses EXCEPT !.phase = "end", !.complete = TRUE,
               !.events = {k \in trap.kills : ses.from <= k /\ k <= ses.end}]
  /\ UNCHANGED <<clock, trap, mem, flash, vol, faults>>

\* The log's events and its terminator, in time or while hanging up.
LogArrives ==
  /\ ses.phase \in {"log", "end"} /\ ses.plan # "none" /\ ~ses.complete
  /\ ses' = [ses EXCEPT !.phase = "end", !.complete = TRUE,
               !.events = {k \in trap.kills : /\ ses.from <= k /\ k <= ses.end
                                              /\ ses.plan = "full" \/ k > mem.prefs.last}]
  /\ UNCHANGED <<clock, trap, mem, flash, vol, faults>>

LogTimeout ==
  /\ ses.phase = "log"
  /\ ses' = [ses EXCEPT !.phase = "end"]
  /\ UNCHANGED <<clock, trap, mem, flash, vol, faults>>

-----------------------------------------------------------------------------
(***************************************************************************)
(* on_job_finished: the log, then the history.                             *)
(***************************************************************************)
\* Mutant: a window's count replaces the total.
AfterLogReplacing(m) ==
  [m EXCEPT
     !.prefs = [strikes |-> Cardinality(ses.events), known |-> TRUE,
                last |-> Later(@.last, Latest(ses.events)), counted |-> ses.events],
     !.cache.scanned = ses.end,
     !.cache.full = IF ses.plan = "full" THEN ses.end ELSE @]

\* Mutant: a full replay does not take the last strike back.
AfterLogKeepsLast(m) ==
  [m EXCEPT
     !.prefs = [strikes |-> IF ses.plan = "full" THEN Cardinality(ses.events)
                            ELSE @.strikes + Cardinality(ses.events),
                known |-> TRUE, last |-> Later(@.last, Latest(ses.events)),
                counted |-> IF ses.plan = "full" THEN ses.events ELSE @.counted \cup ses.events],
     !.cache.scanned = ses.end,
     !.cache.full = IF ses.plan = "full" THEN ses.end ELSE @]

\* apply_history_.
AfterLog(m) ==
  IF ses.plan = "full"
  THEN [m EXCEPT
          !.prefs = [strikes |-> Cardinality(ses.events), known |-> TRUE,
                     last |-> Latest(ses.events), counted |-> ses.events],
          !.cache.scanned = ses.end, !.cache.full = ses.end]
  ELSE [m EXCEPT
          !.prefs = [strikes |-> @.strikes + Cardinality(ses.events), known |-> TRUE,
                     last |-> Later(@.last, Latest(ses.events)),
                     counted |-> @.counted \cup ses.events],
          !.cache.scanned = ses.end]

\* Mutants: the replay's kills are counted again; a history that was read while
\* it was empty is taken for one never read.
AfterHistoryTwice(m, replayed) ==
  LET fresh == {t \in ses.history : t > m.cache.newest} IN
  [m EXCEPT !.cache.newest = Later(Later(@, Latest(ses.history)), 1),
            !.prefs = [@ EXCEPT !.last = Later(@, Latest(ses.history)), !.known = TRUE,
                                !.strikes = @ + Cardinality(fresh),
                                !.counted = @ \cup fresh]]

AfterHistoryEmptyIsNever(m, replayed) ==
  LET fresh == {t \in ses.history : t > m.cache.newest} IN
  [m EXCEPT !.cache.newest = Later(Later(@, Latest(ses.history)), 1),
            !.prefs = IF replayed \/ m.cache.newest <= 1
                      THEN [@ EXCEPT !.last = Later(@, Latest(ses.history))]
                      ELSE [@ EXCEPT !.last = Later(@, Latest(ses.history)),
                                     !.strikes = @ + Cardinality(fresh),
                                     !.counted = @ \cup fresh]]

\* apply_kill_history_, after a history was received.
AfterHistory(m, replayed) ==
  LET newest == Latest(ses.history)
      seen   == m.cache.newest
      fresh  == {t \in ses.history : t > seen}
      p      == [m.prefs EXCEPT !.last = Later(@, newest)]
      marked == [m EXCEPT !.cache.newest = Later(Later(seen, newest), 1)]
  IN
  IF ~m.prefs.known   \* the replay did not finish: a lower bound
  THEN [marked EXCEPT !.prefs = [p EXCEPT !.known = TRUE, !.counted = ses.history,
                                          !.strikes = Cardinality(ses.history)]]
  ELSE IF replayed \/ seen = 0
  THEN [marked EXCEPT !.prefs = p]
  ELSE IF fresh # {}
  THEN [marked EXCEPT !.prefs = [p EXCEPT !.strikes = @ + Cardinality(fresh),
                                          !.counted = @ \cup fresh]]
  ELSE marked

\* A count that went up is flushed at once, with what was saved before; the
\* marks follow when the preferences are next written back.
Increased(m, n) == m.prefs.known /\ n.prefs.strikes > m.prefs.strikes

\* Mutant: a log that broke off counts as read.
SessionDoneIncomplete ==
  /\ ses.phase = "end"
  /\ mem' = IF ses.plan # "none" THEN AfterLog(mem) ELSE mem
  /\ ses' = Idle
  /\ UNCHANGED <<clock, trap, flash, vol, faults>>

SessionDone ==
  /\ ses.phase = "end"
  /\ LET m1 == IF ses.complete THEN AfterLog(mem) ELSE mem
         m2 == IF ses.got THEN AfterHistory(m1, ses.complete /\ ses.plan = "full") ELSE m1
     IN  /\ mem' = m2
         /\ flash' = IF Increased(m1, m2) THEN [mem EXCEPT !.prefs = m2.prefs]
                     ELSE IF Increased(mem, m1) THEN [mem EXCEPT !.prefs = m1.prefs]
                     ELSE flash
  /\ ses' = Idle
  /\ UNCHANGED <<clock, trap, vol, faults>>

SessionFails ==
  /\ ses.phase # "idle"
  /\ ses' = Idle
  /\ UNCHANGED <<clock, trap, mem, flash, vol, faults>>

-----------------------------------------------------------------------------
(***************************************************************************)
(* Flash: the preferences are written back every so often and before a     *)
(* requested restart; losing power loses what was not.                     *)
(***************************************************************************)
Sync ==
  /\ flash # mem
  /\ flash' = mem
  /\ UNCHANGED <<clock, trap, mem, vol, ses, faults>>

Restart ==
  /\ flash' = mem /\ vol' = Forgetful /\ ses' = Idle
  /\ UNCHANGED <<clock, trap, mem, faults>>

PowerLoss ==
  /\ Fault("power")
  /\ mem' = flash /\ vol' = Forgetful /\ ses' = Idle
  /\ UNCHANGED <<clock, trap, flash>>

Next ==
  \/ Kill \/ Tick \/ FactoryReset \/ FirmwareUpdate \/ TrapAnswers
  \/ PollNow \/ Begin \/ FirmwareAnswer
  \/ HistoryArrives \/ HistoryTimeout \/ HistoryLate \/ LogArrives \/ LogTimeout
  \/ SessionDone \/ SessionFails
  \/ Sync \/ Restart \/ PowerLoss

Spec == Init /\ [][Next]_vars

-----------------------------------------------------------------------------
Records ==
  [prefs : [strikes : Nat, known : BOOLEAN, last : {0} \cup Times, counted : SUBSET Times],
   cache : [newest : {0, 1} \cup Times, scanned : {0} \cup Times, full : {0} \cup Times],
   fw    : {"unknown", "old", "new"}]

Session ==
  [phase : {"idle", "firmware", "history", "log", "end"}, asks : BOOLEAN, logs : BOOLEAN,
   sent : BOOLEAN, sample : SUBSET Times, got : BOOLEAN, history : SUBSET Times,
   plan : {"none", "full", "window"}, from : {0} \cup 1..MaxTime, end : {0} \cup Times,
   complete : BOOLEAN, events : SUBSET Times]

\* Every variable has its type.
TypeOK ==
  /\ clock \in Times
  /\ trap \in [kills : SUBSET Times, fw : {"old", "new"}]
  /\ mem \in Records /\ flash \in Records
  /\ vol \in [unanswered : BOOLEAN, rescan : BOOLEAN]
  /\ ses \in Session
  /\ faults \subseteq Faults

Without(F) == faults \cap F = {}

\* Each kill is counted at most once: Strikes is the number of kills that the
\* sessions have taken into account, whichever of log and history told of them.
\* A power loss takes back the mark of what was counted and not the count; after
\* a lost history, and for a kill while it was on its way, the log counts kills
\* that the next history tells of again.
EachKillOnce == mem.prefs.strikes = Cardinality(mem.prefs.counted)
CountedOnce  == Without({"power", "lost", "between"}) => EachKillOnce

\* kill_history_newest is the newest kill "already counted": a kill the trap
\* still lists and that is not newer has been counted.  Not so for those before
\* the first history, if the log alone was to count them until then.
NothingMissed ==
  Without({"lost", "update"})
  => \A k \in History : k <= mem.cache.newest => k \in mem.prefs.counted

\* The log is not scanned again before log_scanned_to: what it holds up to
\* there has been counted, if the log alone counts.
LogScanned ==
  trap.fw = "old" => \A k \in trap.kills : k <= mem.cache.scanned => k \in mem.prefs.counted

\* Last Strike is the time of the last of the kills counted, with the same
\* exception.
LastStrikeCounted ==
  Without({"lost", "update"}) /\ mem.prefs.known => mem.prefs.last = Latest(mem.prefs.counted)

\* Poll Now resyncs: a session that replays the whole log to its end leaves the
\* number of kills the log holds, whatever was miscounted before it.
ReplayResyncs ==
  [][(ses.complete /\ ses.plan = "full" /\ SessionDone)
     => mem'.prefs.strikes = Cardinality(ses.events)]_vars

\* Abstractly, while nothing happens to it: a tally of kills, each counted once
\* and none uncounted again.
Tally == INSTANCE Tally WITH kills <- trap.kills, counted <- mem.prefs.counted,
                             total <- mem.prefs.strikes, sound <- faults = {}
KeepsTally == Tally!Spec
=============================================================================
