---------------------------- MODULE ReadingsProofs ----------------------------
(***************************************************************************)
(* Proofs about Readings: what is shown of a Mouse Trap is right, for any  *)
(* timeout and any number of changes, restarts and power losses.           *)
(***************************************************************************)
EXTENDS Readings, TLAPS

USE ReadingsAssumption

Devices == [kill : BOOLEAN, bit : BOOLEAN, ready : BOOLEAN]
Memory  == [known : BOOLEAN, ready : BOOLEAN, alert : Settings, armed : Settings, bit : Settings]
Kept    == [alert : Settings, armed : Settings, seen : 0..MaxTime, lure : 0..MaxTime]
Display == [alert : Settings, armed : Settings, online : BOOLEAN]
Clocks  == [now : 1..MaxTime, set : BOOLEAN, due : BOOLEAN]
Heard   == [epoch : 0..MaxTime, ms : {Never} \cup 1..MaxTime, truly : 1..MaxTime, set : BOOLEAN]
Lures   == [at : 1..MaxTime, entered : BOOLEAN]

LEMMA Types ==
  TypeOK <=> /\ trap \in Devices /\ mem \in Memory /\ saved \in Kept /\ flash \in Kept
             /\ shown \in Display /\ link \in {"none", "open", "read"} /\ clock \in Clocks
             /\ heard \in Heard /\ lure \in Lures /\ since \subseteq {"heard", "polled"}
BY DEF TypeOK, Devices, Memory, Kept, Display, Clocks, Heard, Lures

LEMMA Bounds == Timeout \in Nat /\ Timeout > 0 /\ MaxTime \in Nat /\ MaxTime > 0
OBVIOUS

LEMMA Setting == ASSUME NEW b \in BOOLEAN PROVE As(b) \in Settings
BY DEF As, Settings

LEMMA NowEpochType == ASSUME NEW c \in Clocks PROVE NowEpoch(c) \in 0..MaxTime
BY DEF NowEpoch, Clocks

LEMMA OnlineType == ASSUME NEW c, NEW h PROVE Online(c, h) \in BOOLEAN
BY DEF Online

LEMMA ArmedType == ASSUME NEW m \in Memory PROVE Armed(m) \in Settings
BY Setting DEF Armed, Memory

LEMMA ShownType == ASSUME NEW m \in Memory, NEW c, NEW h PROVE Shown(m, c, h) \in Display
BY OnlineType DEF Shown, Memory, Display

LEMMA WithBitType ==
  ASSUME trap \in Devices, NEW m \in Memory
  PROVE  WithBit(m) \in Memory
BY Setting DEF WithBit, Memory, Devices

-----------------------------------------------------------------------------
LEMMA InitInv == Init => IInv
<1> SUFFICES ASSUME Init PROVE IInv
  OBVIOUS
<1>1. trap \in Devices /\ clock \in Clocks /\ clock.now = 1 /\ clock.set \in BOOLEAN /\ 1 \in 1..MaxTime
  <2>1. 1 \in 1..MaxTime
    BY Bounds
  <2>2. PICK b \in BOOLEAN : clock = [now |-> 1, set |-> b, due |-> FALSE]
    BY DEF Init
  <2>3. clock \in Clocks /\ clock.now = 1 /\ clock.set \in BOOLEAN
    BY <2>1, <2>2 DEF Clocks
  <2> QED
    BY <2>1, <2>3 DEF Init, Devices
<1>2. As(trap.bit) \in Settings /\ "unknown" \in Settings
  BY <1>1, Setting DEF Devices, Settings
<1>3. mem \in Memory
  BY <1>2 DEF Init, Memory
<1>4. /\ flash \in Kept /\ saved = flash
      /\ flash.seen = NowEpoch(clock) /\ flash.lure = NowEpoch(clock)
  BY <1>1, <1>2, NowEpochType DEF Init, Kept
<1>5. heard \in Heard /\ heard.epoch \in 0..1 /\ heard.ms = 1 /\ heard.truly = 1
      /\ heard.set = clock.set /\ (heard.set => heard.epoch = 1)
  BY <1>1 DEF Init, Heard, Never
<1>6. shown \in Display /\ shown.alert = mem.alert /\ shown.armed = mem.armed /\ shown.online = TRUE
  BY <1>2 DEF Init, Display
<1>7. lure \in Lures /\ lure.at = 1 /\ ~lure.entered /\ link = "none" /\ since = {} /\ ~mem.known
  BY <1>1 DEF Init, Lures
<1>8. TypeOK
  BY <1>1, <1>3, <1>4, <1>5, <1>6, <1>7, Types
<1>9. ShownAgrees /\ ArmedMeansSet /\ AlertFollows
  BY <1>6, <1>7 DEF ShownAgrees, ArmedMeansSet, AlertFollows
<1>10. OnlineFollows
  <2>1. {heard.epoch, saved.seen, flash.seen} \subseteq 0..heard.truly
    <3>1. NowEpoch(clock) \in 0..1
      BY <1>1 DEF NowEpoch
    <3> QED
      BY <1>4, <1>5, <3>1
  <2>2. Online(clock, heard) = TRUE
    BY <1>1, <1>5, Bounds DEF Online, NowEpoch, Never
  <2>3. shown.online = Online(clock, heard)
    BY <1>6, <2>2
  <2>4. heard.truly <= clock.now /\ (heard.ms # Never => heard.ms = heard.truly)
        /\ (heard.set => heard.epoch = heard.truly)
    BY <1>1, <1>5
  <2> QED
    BY <2>1, <2>3, <2>4 DEF OnlineFollows
<1>11. LureKept
  BY <1>1, <1>4, <1>7 DEF LureKept, LureIn, NowEpoch
<1> QED
  BY <1>8, <1>9, <1>10, <1>11 DEF IInv

-----------------------------------------------------------------------------
(***************************************************************************)
(* The types.                                                              *)
(***************************************************************************)
LEMMA DatedType ==
  ASSUME NEW f \in Kept, NEW c \in Clocks
  PROVE  /\ Dated(f, c) \in Kept /\ Dated(f, c).seen = f.seen
         /\ Dated(f, c).lure = IF f.lure = 0 THEN NowEpoch(c) ELSE f.lure
BY NowEpochType DEF Dated, Kept

\* The clock, as its steps and update_periodic leave it.
LEMMA ClockStep ==
  ASSUME TypeOK
  PROVE  /\ Tick => clock' \in Clocks /\ clock'.now = clock.now + 1 /\ clock'.due
         /\ ClockSet => clock' \in Clocks /\ clock'.now = clock.now /\ clock'.due
         /\ UpdatePeriodic =>
              clock' \in Clocks /\ clock'.now = clock.now /\ clock'.set = clock.set /\ ~clock'.due
<1>1. clock \in Clocks /\ clock.now \in Nat
  BY Types, Bounds DEF Clocks
<1>2. ASSUME Tick PROVE clock' \in Clocks /\ clock'.now = clock.now + 1 /\ clock'.due
  <2>1. clock' = [[clock EXCEPT !.now = @ + 1] EXCEPT !.due = TRUE] /\ clock.now < MaxTime
    BY <1>2 DEF Tick, ClockSteps
  <2>2. clock.now + 1 \in 1..MaxTime
    BY <1>1, <2>1, Bounds
  <2> QED
    BY <1>1, <2>1, <2>2 DEF Clocks
<1>3. ASSUME ClockSet PROVE clock' \in Clocks /\ clock'.now = clock.now /\ clock'.due
  BY <1>1, <1>3 DEF ClockSet, ClockSteps, Clocks
<1>4. ASSUME UpdatePeriodic
      PROVE  /\ clock' \in Clocks /\ clock'.now = clock.now
             /\ clock'.set = clock.set /\ ~clock'.due
  BY <1>1, <1>4 DEF UpdatePeriodic, Clocks
<1> QED
  BY <1>2, <1>3, <1>4

\* The end of a job saves what publishing has dated.
LEMMA JobSaves ==
  ASSUME TypeOK, JobDone \/ JobFailed
  PROVE  \E f \in Kept : f.seen = saved.seen /\ f.lure = saved.lure /\ saved' = Dated(f, clock)
<1>1. mem \in Memory /\ saved \in Kept
  BY Types
<1>2. CASE JobFailed
  BY <1>1, <1>2 DEF JobFailed, PublishAll
<1>3. CASE JobDone
  <2> DEFINE f == [saved EXCEPT !.alert = mem.alert, !.armed = mem.armed]
  <2>1. f \in Kept /\ f.seen = saved.seen /\ f.lure = saved.lure
    BY <1>1 DEF Memory, Kept
  <2>2. saved' = Dated(f, clock)
    BY <1>3 DEF JobDone, PublishAll
  <2> QED
    BY <2>1, <2>2
<1> QED
  BY <1>2, <1>3

LEMMA BootsType ==
  ASSUME TypeOK, NEW f \in Kept, Boots(f)
  PROVE  TypeOK'
<1>1. clock \in Clocks /\ heard \in Heard /\ "unknown" \in Settings
  BY Types DEF Settings
<1>2. mem' \in Memory /\ clock' \in Clocks /\ heard' \in Heard
  BY <1>1 DEF Boots, Memory, Clocks, Heard, Kept
<1>3. shown' \in Display
  BY <1>2, ShownType DEF Boots
<1> QED
  BY <1>2, <1>3, Types DEF Boots, TypeOK, Devices, Memory, Kept, Display, Clocks, Heard, Lures

LEMMA TypeStep == TypeOK /\ [Next]_vars => TypeOK'
<1> SUFFICES ASSUME TypeOK, [Next]_vars PROVE TypeOK'
  OBVIOUS
<1> USE Types DEF Devices, Memory, Kept, Display, Clocks, Heard, Lures
<1>1. CASE KillOrEmptied \/ ReadyOrNot \/ BitFollows \/ ClearKillAlert
  <2>1. trap' \in Devices /\ since' \subseteq {"heard", "polled"}
    BY <1>1 DEF KillOrEmptied, ReadyOrNot, BitFollows, ClearKillAlert
  <2> QED
    BY <1>1, <2>1 DEF TypeOK, KillOrEmptied, ReadyOrNot, BitFollows, ClearKillAlert
<1>2. CASE Tick \/ ClockSet
  BY <1>2, ClockStep DEF TypeOK, Tick, ClockSet, ClockSteps
<1>11. CASE UpdatePeriodic
  <2>1. clock \in Clocks /\ saved \in Kept /\ shown \in Display /\ heard \in Heard
    BY Types
  <2>2. Dated(saved, clock) \in Kept
    BY <2>1, DatedType
  <2>3. saved' \in Kept /\ shown' \in Display
    BY <1>11, <2>1, <2>2, OnlineType DEF UpdatePeriodic
  <2> QED
    BY <1>11, <2>3, ClockStep DEF TypeOK, UpdatePeriodic
<1>3. CASE OnAdvertisement
  <2>1. WithBit(mem) \in Memory
    BY WithBitType
  <2>2. mem' \in Memory
    BY <1>3, <2>1, ArmedType DEF OnAdvertisement
  <2>3. heard' \in Heard
    BY <1>3 DEF OnAdvertisement, HeardNow
  <2>4. shown' \in Display
    BY <1>3, <2>2, ShownType DEF OnAdvertisement
  <2> QED
    BY <1>3, <2>2, <2>3, <2>4 DEF TypeOK, OnAdvertisement
<1>4. CASE \E date \in LureDates : LureReplaced(date)
  <2>1. PICK date \in LureDates : LureReplaced(date)
    BY <1>4
  <2>2. date \in 1..MaxTime
    BY DEF LureDates
  <2>3. saved' \in Kept /\ flash' = saved' /\ lure' \in Lures
    BY <2>1, <2>2 DEF LureReplaced
  <2> QED
    BY <2>1, <2>3 DEF TypeOK, LureReplaced
<1>5. CASE Connect
  BY <1>5 DEF TypeOK, Connect
<1>6. CASE DeviceState
  <2>1. mem' \in Memory
    BY <1>6, Setting DEF DeviceState
  <2> QED
    BY <1>6, <2>1 DEF TypeOK, DeviceState
<1>7. CASE JobDone \/ JobFailed
  <2>1. mem' \in Memory /\ shown' \in Display
    BY <1>7, ArmedType, ShownType DEF JobDone, JobFailed, PublishAll
  <2>2. PICK f \in Kept : saved' = Dated(f, clock)
    BY <1>7, JobSaves
  <2>3. saved' \in Kept
    BY <2>2, DatedType
  <2> QED
    BY <1>7, <2>1, <2>3 DEF TypeOK, JobDone, JobFailed, PublishAll
<1>8. CASE Sync
  BY <1>8 DEF TypeOK, Sync
<1>9. CASE Restart \/ PowerLoss
  BY <1>9, BootsType DEF Restart, PowerLoss
<1>10. CASE UNCHANGED vars
  BY <1>10 DEF TypeOK, vars
<1> QED
  BY <1>1, <1>2, <1>3, <1>4, <1>5, <1>6, <1>7, <1>8, <1>9, <1>10, <1>11 DEF Next

-----------------------------------------------------------------------------
(***************************************************************************)
(* Kill Alert and Armed.                                                   *)
(***************************************************************************)
\* What publishing leaves: what is shown is what is in memory, Armed included.
LEMMA Published ==
  ASSUME NEW m \in Memory, NEW c, NEW h
  PROVE  LET n == [m EXCEPT !.armed = Armed(m)] IN
         /\ Shown(n, c, h).alert = n.alert /\ Shown(n, c, h).armed = n.armed
         /\ Shown(n, c, h).online = Online(c, h)
         /\ n.known => n.armed = As(n.ready /\ n.alert # "on")
         /\ n.known = m.known /\ n.alert = m.alert /\ n.bit = m.bit
BY DEF Shown, Armed, Memory

LEMMA ShownStep == TypeOK /\ ShownAgrees /\ [Next]_vars => ShownAgrees'
<1> SUFFICES ASSUME TypeOK, ShownAgrees, [Next]_vars PROVE ShownAgrees'
  OBVIOUS
<1>1. mem \in Memory /\ trap \in Devices /\ shown \in Display /\ WithBit(mem) \in Memory
  BY Types, WithBitType
<1>2. CASE OnAdvertisement \/ JobDone \/ JobFailed
  <2>1. PICK m \in Memory, h \in {heard, heard'} :
           /\ mem' = [m EXCEPT !.armed = Armed(m)]
           /\ shown' = Shown(mem', clock, h)
    BY <1>1, <1>2 DEF OnAdvertisement, JobDone, JobFailed, PublishAll
  <2> QED
    BY <2>1, Published DEF ShownAgrees
<1>3. CASE Tick \/ ClockSet \/ UpdatePeriodic
  BY <1>1, <1>3 DEF Tick, ClockSet, ClockSteps, UpdatePeriodic, ShownAgrees, Display
<1>4. CASE Restart \/ PowerLoss
  BY <1>4 DEF Restart, PowerLoss, Boots, Shown, ShownAgrees
<1>5. CASE DeviceState
  BY <1>5 DEF DeviceState, ShownAgrees
<1>6. CASE \/ KillOrEmptied \/ ReadyOrNot \/ BitFollows \/ ClearKillAlert \/ Connect \/ Sync
           \/ (\E date \in LureDates : LureReplaced(date)) \/ UNCHANGED vars
  <2>1. UNCHANGED <<mem, shown>> /\ (link' = link \/ (link = "none" /\ link' = "open"))
    BY <1>6 DEF KillOrEmptied, ReadyOrNot, BitFollows, ClearKillAlert, Connect, Sync,
       LureReplaced, vars
  <2> QED
    BY <2>1 DEF ShownAgrees
<1> QED
  BY <1>2, <1>3, <1>4, <1>5, <1>6 DEF Next

LEMMA AlertStep == TypeOK /\ AlertFollows /\ [Next]_vars => AlertFollows'
<1> SUFFICES ASSUME TypeOK, AlertFollows, [Next]_vars PROVE AlertFollows'
  OBVIOUS
<1>1. mem \in Memory /\ trap \in Devices /\ WithBit(mem) \in Memory
  BY Types, WithBitType
<1>2. CASE KillOrEmptied \/ ClearKillAlert \/ Restart \/ PowerLoss
  BY <1>2 DEF KillOrEmptied, ClearKillAlert, Restart, PowerLoss, Boots, AlertFollows
<1>3. CASE BitFollows
  <2>1. trap' = [trap EXCEPT !.bit = trap.kill] /\ UNCHANGED <<mem, since>>
    BY <1>3 DEF BitFollows
  <2>2. trap'.kill = trap.kill /\ trap'.bit = trap.kill
    BY <1>1, <2>1 DEF Devices
  <2> QED
    BY <2>1, <2>2 DEF AlertFollows
<1>4. CASE ReadyOrNot
  <2>1. trap'.kill = trap.kill /\ trap'.bit = trap.bit /\ UNCHANGED <<mem, since>>
    BY <1>1, <1>4 DEF ReadyOrNot, Devices
  <2> QED
    BY <2>1 DEF AlertFollows
<1>5. CASE OnAdvertisement
  <2>1. /\ mem'.bit = WithBit(mem).bit /\ mem'.alert = WithBit(mem).alert /\ trap' = trap
        /\ since' = IF trap.bit = trap.kill THEN since \cup {"heard"} ELSE since
    BY <1>1, <1>5, Published DEF OnAdvertisement
  <2>2. /\ mem'.bit = As(trap.bit)
        /\ mem'.alert = IF mem.bit = As(trap.bit) THEN mem.alert ELSE As(trap.bit)
    BY <1>1, <2>1 DEF WithBit, Memory
  <2>3. trap.bit # trap.kill => As(trap.bit) # As(trap.kill)
    BY <1>1 DEF As, Devices
  <2> QED
    BY <2>1, <2>2, <2>3 DEF AlertFollows
<1>6. CASE DeviceState
  BY <1>1, <1>6 DEF DeviceState, AlertFollows, Memory
<1>7. CASE JobDone \/ JobFailed
  <2>1. mem'.bit = mem.bit /\ mem'.alert = mem.alert /\ trap' = trap /\ since' = since
    BY <1>1, <1>7, Published DEF JobDone, JobFailed, PublishAll
  <2> QED
    BY <2>1 DEF AlertFollows
<1>8. CASE \/ Connect \/ Sync \/ Tick \/ ClockSet \/ UpdatePeriodic
           \/ (\E date \in LureDates : LureReplaced(date)) \/ UNCHANGED vars
  <2>1. UNCHANGED <<trap, mem, since>>
    BY <1>8 DEF Connect, Sync, Tick, ClockSet, ClockSteps, UpdatePeriodic, LureReplaced, vars
  <2> QED
    BY <2>1 DEF AlertFollows
<1> QED
  BY <1>2, <1>3, <1>4, <1>5, <1>6, <1>7, <1>8 DEF Next

-----------------------------------------------------------------------------
(***************************************************************************)
(* Online, and the lure.                                                   *)
(***************************************************************************)
LEMMA OnlineStep == TypeOK /\ OnlineFollows /\ [Next]_vars => OnlineFollows'
<1> SUFFICES ASSUME TypeOK, OnlineFollows, [Next]_vars PROVE OnlineFollows'
  OBVIOUS
<1>1. /\ mem \in Memory /\ trap \in Devices /\ WithBit(mem) \in Memory /\ shown \in Display
      /\ heard \in Heard /\ clock \in Clocks /\ saved \in Kept /\ flash \in Kept
  BY Types, WithBitType
<1>2. /\ heard.epoch \in 0..heard.truly /\ saved.seen \in 0..heard.truly
      /\ flash.seen \in 0..heard.truly
  BY DEF OnlineFollows
<1>3. CASE OnAdvertisement
  <2>1. heard' = HeardNow /\ UNCHANGED <<saved, flash, clock>>
    BY <1>3 DEF OnAdvertisement
  <2>2. shown'.online = Online(clock', heard')
    BY <1>1, <1>3, Published DEF OnAdvertisement
  <2>3. /\ heard'.truly = clock.now /\ heard'.ms = clock.now /\ heard'.set = clock.set
        /\ heard'.epoch = IF clock.set THEN clock.now ELSE heard.epoch
    BY <2>1 DEF HeardNow
  <2>4. heard'.truly >= heard.truly /\ heard.truly \in Nat /\ clock.now \in Nat
    BY <1>1, <2>3, Bounds DEF OnlineFollows, Clocks, Heard
  <2> QED
    BY <1>1, <1>2, <2>1, <2>2, <2>3, <2>4 DEF OnlineFollows
<1>4. CASE Tick \/ ClockSet
  <2>1. UNCHANGED <<heard, saved, flash>> /\ clock'.due
    BY <1>4, ClockStep DEF Tick, ClockSet, ClockSteps
  <2>2. heard.truly <= clock'.now
    BY <1>1, <1>4, ClockStep, Bounds DEF OnlineFollows, Clocks, Heard
  <2> QED
    BY <2>1, <2>2 DEF OnlineFollows
<1>5. CASE UpdatePeriodic
  <2>1. Online(clock', heard) = Online(clock, heard)
    BY <1>5, ClockStep DEF Online, NowEpoch
  <2>2. Dated(saved, clock) \in Kept
    BY <1>1, DatedType
  <2>3. saved' = [Dated(saved, clock) EXCEPT !.seen = heard.epoch]
    BY <1>5 DEF UpdatePeriodic
  <2>4. saved'.seen = heard.epoch
    BY <2>2, <2>3 DEF Kept
  <2>5. shown'.online = Online(clock', heard) /\ UNCHANGED <<flash, heard>>
    BY <1>1, <1>5, <2>1 DEF UpdatePeriodic, Display
  <2>6. heard.truly <= clock'.now
    BY <1>5, ClockStep DEF OnlineFollows
  <2> QED
    BY <1>2, <2>4, <2>5, <2>6 DEF OnlineFollows
<1>6. CASE JobDone \/ JobFailed
  <2>1. shown'.online = Online(clock', heard') /\ UNCHANGED <<heard, clock, flash>>
    BY <1>1, <1>6, Published DEF JobDone, JobFailed, PublishAll
  <2>2. PICK f \in Kept : f.seen = saved.seen /\ saved' = Dated(f, clock)
    BY <1>6, JobSaves
  <2>3. saved'.seen = saved.seen
    BY <1>1, <2>2, DatedType
  <2> QED
    BY <2>1, <2>3 DEF OnlineFollows
<1>7. ASSUME NEW f \in Kept, f.seen \in 0..heard.truly, Boots(f) PROVE OnlineFollows'
  <2>1. /\ heard'.epoch = f.seen /\ heard'.ms = Never /\ heard'.truly = heard.truly /\ ~heard'.set
        /\ saved' = f /\ flash' = f
    BY <1>7 DEF Boots
  <2>2. shown'.online = Online(clock', heard') /\ clock'.now = clock.now
    BY <1>1, <1>7 DEF Boots, Shown, Clocks
  <2> QED
    BY <1>2, <1>7, <2>1, <2>2 DEF OnlineFollows
<1>8. CASE Restart \/ PowerLoss
  BY <1>1, <1>2, <1>7, <1>8 DEF Restart, PowerLoss
<1>9. CASE Sync
  BY <1>9 DEF Sync, OnlineFollows
<1>10. CASE \E date \in LureDates : LureReplaced(date)
  <2>1. saved'.seen = saved.seen /\ flash' = saved' /\ UNCHANGED <<shown, heard, clock>>
    BY <1>1, <1>10 DEF LureReplaced, Kept
  <2> QED
    BY <2>1 DEF OnlineFollows
<1>11. CASE \/ KillOrEmptied \/ ReadyOrNot \/ BitFollows \/ ClearKillAlert \/ Connect
            \/ DeviceState \/ UNCHANGED vars
  <2>1. UNCHANGED <<shown, heard, clock, saved, flash>>
    BY <1>11 DEF KillOrEmptied, ReadyOrNot, BitFollows, ClearKillAlert, Connect, DeviceState, vars
  <2> QED
    BY <2>1 DEF OnlineFollows
<1> QED
  BY <1>3, <1>4, <1>5, <1>6, <1>8, <1>9, <1>10, <1>11 DEF Next

LEMMA LureStep == TypeOK /\ LureKept /\ [Next]_vars => LureKept'
<1> SUFFICES ASSUME TypeOK, LureKept, [Next]_vars PROVE LureKept'
  OBVIOUS
<1>1. /\ clock \in Clocks /\ saved \in Kept /\ flash \in Kept /\ lure \in Lures
      /\ clock.now \in Nat /\ lure.at \in Nat /\ 0 < lure.at /\ lure.at <= clock.now
      /\ clock.now > 0
  BY Types, Bounds DEF Clocks, Lures, LureKept
<1>2. ASSUME NEW f \in Kept, LureIn(f)
      PROVE  /\ LureIn(Dated(f, clock))
             /\ clock.set => Dated(f, clock).lure # 0
  BY <1>1, <1>2, DatedType DEF LureIn, NowEpoch
<1>3. CASE Tick \/ ClockSet
  <2>1. UNCHANGED <<saved, flash, lure>> /\ clock'.due
    BY <1>3, ClockStep DEF Tick, ClockSet, ClockSteps
  <2>2. clock'.now \in Nat /\ clock.now <= clock'.now
    BY <1>1, <1>3, ClockStep
  <2> QED
    BY <1>1, <2>1, <2>2 DEF LureKept, LureIn
<1>4. CASE UpdatePeriodic
  <2>1. saved' = [Dated(saved, clock) EXCEPT !.seen = heard.epoch] /\ UNCHANGED <<flash, lure>>
    BY <1>4 DEF UpdatePeriodic
  <2>2. Dated(saved, clock) \in Kept /\ LureIn(Dated(saved, clock))
        /\ (clock.set => Dated(saved, clock).lure # 0)
    BY <1>1, <1>2, DatedType DEF LureKept
  <2>3. saved'.lure = Dated(saved, clock).lure
    BY <2>1, <2>2 DEF Kept
  <2>4. clock'.now = clock.now /\ clock'.set = clock.set
    BY <1>4, ClockStep
  <2> QED
    BY <2>1, <2>2, <2>3, <2>4 DEF LureKept, LureIn
<1>5. CASE \E date \in LureDates : LureReplaced(date)
  <2>1. PICK date \in LureDates : LureReplaced(date)
    BY <1>5
  <2>2. date \in 1..clock.now
    BY DEF LureDates
  <2>3. /\ saved'.lure = date /\ flash' = saved' /\ clock' = clock
        /\ lure' = [at |-> date, entered |-> TRUE]
    BY <1>1, <2>1 DEF LureReplaced, Kept
  <2> QED
    BY <1>1, <2>2, <2>3 DEF LureKept, LureIn
<1>6. CASE JobDone \/ JobFailed
  <2>1. PICK f \in Kept : f.lure = saved.lure /\ saved' = Dated(f, clock)
    BY <1>6, JobSaves
  <2>2. LureIn(f) /\ UNCHANGED <<flash, lure, clock>>
    BY <1>6, <2>1 DEF JobDone, JobFailed, LureKept, LureIn
  <2>3. LureIn(Dated(f, clock)) /\ (clock.set => Dated(f, clock).lure # 0)
    BY <1>2, <2>2
  <2> QED
    BY <2>1, <2>2, <2>3 DEF LureKept, LureIn
<1>7. CASE Sync
  BY <1>7 DEF Sync, LureKept, LureIn
<1>8. CASE Restart \/ PowerLoss
  <2>1. clock'.now = clock.now /\ ~clock'.set /\ lure' = lure /\ flash' = saved'
        /\ saved' \in {saved, flash}
    BY <1>1, <1>8 DEF Restart, PowerLoss, Boots, Clocks
  <2> QED
    BY <1>1, <2>1 DEF LureKept, LureIn
<1>9. CASE \/ KillOrEmptied \/ ReadyOrNot \/ BitFollows \/ ClearKillAlert \/ Connect
           \/ DeviceState \/ OnAdvertisement \/ UNCHANGED vars
  <2>1. UNCHANGED <<lure, clock, saved, flash>>
    BY <1>9 DEF KillOrEmptied, ReadyOrNot, BitFollows, ClearKillAlert, Connect, DeviceState,
       OnAdvertisement, vars
  <2> QED
    BY <2>1 DEF LureKept, LureIn
<1> QED
  BY <1>3, <1>4, <1>5, <1>6, <1>7, <1>8, <1>9 DEF Next

-----------------------------------------------------------------------------
\* In every behaviour, whatever fails or is lost, the inductive invariant holds.
THEOREM InvariantHolds == Spec => []IInv
<1>1. IInv /\ [Next]_vars => IInv'
  <2>1. ShownAgrees' => ArmedMeansSet'
    BY DEF ShownAgrees, ArmedMeansSet
  <2> QED
    BY <2>1, TypeStep, ShownStep, AlertStep, OnlineStep, LureStep DEF IInv
<1> QED
  BY InitInv, <1>1, PTL DEF Spec

\* Once a Mouse Trap has been polled and heard since its kill state last changed,
\* Kill Alert is right, in whichever order they came and however late the bit was.
THEOREM AlertRightHolds == Spec => []AlertRight
<1>1. IInv => AlertRight
  BY DEF IInv, ShownAgrees, AlertFollows, AlertRight
<1> QED
  BY <1>1, InvariantHolds, PTL

\* Armed and Kill Alert, as they are shown, agree with the last poll and with each
\* other.
THEOREM ArmedMeansSetHolds == Spec => []ArmedMeansSet
<1>1. IInv => ArmedMeansSet
  BY DEF IInv
<1> QED
  BY <1>1, InvariantHolds, PTL

\* A Mouse Trap shown online was heard within its timeout, and one heard within it
\* since the boot is shown online, whatever of the clock is known.
THEOREM OnlineRightHolds == Spec => []OnlineRight
<1> SUFFICES IInv => OnlineRight
  BY InvariantHolds, PTL
<1> SUFFICES ASSUME IInv PROVE OnlineRight
  OBVIOUS
<1>1. /\ clock.due \/ shown.online = Online(clock, heard)
      /\ heard.epoch \in 0..heard.truly
      /\ heard.ms # Never => heard.ms = heard.truly
      /\ heard.set => heard.epoch = heard.truly
      /\ heard.truly <= clock.now
  BY DEF IInv, OnlineFollows
<1>2. /\ heard.truly \in Nat /\ heard.truly > 0 /\ clock.now \in Nat /\ clock.now > 0
      /\ heard.set \in BOOLEAN /\ clock.set \in BOOLEAN
  BY Types, Bounds DEF IInv, Heard, Clocks
<1>3. OnlineMeansHeard
  <2> SUFFICES ASSUME shown.online, ~clock.due PROVE clock.now - heard.truly < Timeout
    BY DEF OnlineMeansHeard
  <2>1. Online(clock, heard)
    BY <1>1
  <2> QED
    BY <1>1, <1>2, <2>1, Bounds DEF Online, NowEpoch
<1>4. HeardMeansOnline
  BY <1>1, <1>2, Bounds DEF HeardMeansOnline, Online, NowEpoch
<1> QED
  BY <1>3, <1>4 DEF OnlineRight

\* Whatever restarts and power losses there were, the lure's age is never more
\* than the true one, and exactly that of the date the user entered.
THEOREM LureAgeRightHolds == Spec => []LureAgeRight
<1>1. IInv => LureAgeRight
  BY Types DEF IInv, LureKept, LureIn, LureAgeRight
<1> QED
  BY <1>1, InvariantHolds, PTL
=============================================================================
