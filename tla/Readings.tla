------------------------------ MODULE Readings ------------------------------
(***************************************************************************)
(* What Home Assistant is shown of a Mouse Trap: Kill Alert, Armed, Online *)
(* and the age of the lure.  Kill Alert has two sources, a bit of the      *)
(* advertisement that follows the trap with a delay and the polls; Armed   *)
(* is derived from a poll's readings when they are published; Online and   *)
(* the age are worked out from a clock that may not be set yet.  Some of   *)
(* it is kept in flash.                                                    *)
(***************************************************************************)
EXTENDS Integers

CONSTANTS Timeout,    \* offline_timeout_c20
          MaxTime,    \* bound: the time
          MaxChanges, \* bound: changes of the trap, and new lures
          MaxBoots    \* bound: restarts and power losses

ASSUME ReadingsAssumption ==
  /\ {Timeout, MaxTime} \subseteq Nat \ {0}
  /\ {MaxChanges, MaxBoots} \subseteq Nat

VARIABLES
  trap,   \* a kill waiting, the advertisement's bit for it, and whether it is
          \* otherwise ready: activated, tray closed, off the charger, no error
  mem,    \* device_state_ known and ready, kill_alert_, active_, adv_alert_bit_
  saved,  \* the cache as last saved, prefs_.last_seen and prefs_.lure_replaced
  flash,  \* what flash holds of them
  shown,  \* what Home Assistant shows
  link,   \* the session: none, open, or its device state read
  clock,  \* the time, whether the clock is set, and whether the update that runs
          \* every minute is due
  heard,  \* last_seen_epoch_ (0 for never), last_seen_ms_, and when truly
  since,  \* what told of the kill state since it last changed, and since the boot
  lure,   \* when the lure was put in, and whether the user has said so
  changes, boots

vars == <<trap, mem, saved, flash, shown, link, clock, heard, since, lure, changes, boots>>

Never    == -1
Settings == {"unknown", "off", "on"}
As(b)    == IF b THEN "on" ELSE "off"

\* now_epoch.
NowEpoch(c) == IF c.set THEN c.now ELSE 0

\* A trap just bound, from a packet: its preferences are in flash.
Init ==
  /\ trap \in [kill : BOOLEAN, bit : BOOLEAN, ready : BOOLEAN]
  /\ mem = [known |-> FALSE, ready |-> FALSE, alert |-> As(trap.bit), armed |-> "unknown",
            bit |-> As(trap.bit)]
  /\ clock \in [now : {1}, set : BOOLEAN, due : {FALSE}]
  /\ flash = [alert |-> "unknown", armed |-> "unknown", seen |-> NowEpoch(clock),
              lure |-> NowEpoch(clock)]
  /\ saved = flash
  /\ heard = [epoch |-> IF clock.set THEN 1 ELSE 0, ms |-> 1, truly |-> 1, set |-> clock.set]
  /\ shown = [alert |-> mem.alert, armed |-> "unknown", online |-> TRUE]
  /\ link = "none"
  /\ lure = [at |-> 1, entered |-> FALSE]
  /\ since = {} /\ changes = 0 /\ boots = 0

-----------------------------------------------------------------------------
(***************************************************************************)
(* Publishing.                                                             *)
(***************************************************************************)
\* Mutant: the epoch alone is looked at.
OnlineByEpoch(c, h) == c.now - h.epoch < Timeout

\* publish_online_: by the wall clock, or else by the time since the boot.
Online(c, h) ==
  IF NowEpoch(c) # 0 /\ h.epoch # 0 THEN NowEpoch(c) >= h.epoch /\ NowEpoch(c) - h.epoch < Timeout
  ELSE h.ms # Never /\ c.now - h.ms < Timeout

\* Armed as publish_battery_ derives it: once the device state is known, whether
\* Trap State is Set.
Armed(m) == IF m.known THEN As(m.ready /\ m.alert # "on") ELSE m.armed

Shown(m, c, h) == [alert |-> m.alert, armed |-> m.armed, online |-> Online(c, h)]

-----------------------------------------------------------------------------
(***************************************************************************)
(* The trap, and the clock.                                                *)
(***************************************************************************)
KillOrEmptied ==
  /\ changes < MaxChanges /\ changes' = changes + 1
  /\ trap' = [trap EXCEPT !.kill = ~@]
  /\ since' = {}
  /\ UNCHANGED <<mem, saved, flash, shown, link, clock, heard, lure, boots>>

ReadyOrNot ==
  /\ changes < MaxChanges /\ changes' = changes + 1
  /\ trap' = [trap EXCEPT !.ready = ~@]
  /\ UNCHANGED <<mem, saved, flash, shown, link, clock, heard, since, lure, boots>>

BitFollows ==
  /\ trap.bit # trap.kill
  /\ trap' = [trap EXCEPT !.bit = trap.kill]
  /\ UNCHANGED <<mem, saved, flash, shown, link, clock, heard, since, lure, changes, boots>>

\* A lure of which nothing is known counts from when the clock is first set.
Dated(f, c) == [f EXCEPT !.lure = IF @ = 0 THEN NowEpoch(c) ELSE @]

\* An hour passes, or the clock is set.
ClockSteps(c) ==
  /\ clock' = [c EXCEPT !.due = TRUE]
  /\ UNCHANGED <<trap, mem, saved, flash, shown, link, heard, since, lure, changes, boots>>

Tick == ~clock.due /\ clock.now < MaxTime /\ ClockSteps([clock EXCEPT !.now = @ + 1])

ClockSet == ~clock.set /\ ClockSteps([clock EXCEPT !.set = TRUE])

\* update_periodic, every minute and so within every hour: Last Seen is kept, the
\* lure dated and Online published.
UpdatePeriodic ==
  /\ clock.due
  /\ clock' = [clock EXCEPT !.due = FALSE]
  /\ saved' = [Dated(saved, clock) EXCEPT !.seen = heard.epoch]
  /\ shown' = [shown EXCEPT !.online = Online(clock, heard)]
  /\ UNCHANGED <<trap, mem, flash, link, heard, since, lure, changes, boots>>

-----------------------------------------------------------------------------
(***************************************************************************)
(* Advertisements.                                                         *)
(***************************************************************************)
\* Mutant: the bit only raises the alert.
WithBitRaising(m) ==
  IF m.bit = As(trap.bit) THEN m
  ELSE [m EXCEPT !.bit = As(trap.bit), !.alert = IF trap.bit THEN "on" ELSE @]

\* The bit counts when it is first heard, or changes.
WithBit(m) ==
  IF m.bit = As(trap.bit) THEN m ELSE [m EXCEPT !.bit = As(trap.bit), !.alert = As(trap.bit)]

HeardNow ==
  [epoch |-> IF clock.set THEN clock.now ELSE heard.epoch, ms |-> clock.now, truly |-> clock.now,
   set |-> clock.set]

\* Mutant: Armed is left for the next poll.
OnAdvertisementKeepingArmed ==
  /\ link = "none"
  /\ mem' = WithBit(mem)
  /\ heard' = HeardNow
  /\ shown' = Shown(mem', clock, heard')
  /\ since' = IF trap.bit = trap.kill THEN since \cup {"heard"} ELSE since
  /\ UNCHANGED <<trap, saved, flash, link, clock, lure, changes, boots>>

OnAdvertisement ==
  /\ link = "none"
  /\ mem' = [WithBit(mem) EXCEPT !.armed = Armed(WithBit(mem))]
  /\ heard' = HeardNow
  /\ shown' = Shown(mem', clock, heard')
  /\ since' = IF trap.bit = trap.kill THEN since \cup {"heard"} ELSE since
  /\ UNCHANGED <<trap, saved, flash, link, clock, lure, changes, boots>>

-----------------------------------------------------------------------------
(***************************************************************************)
(* The session.                                                            *)
(***************************************************************************)
Connect ==
  /\ link = "none"
  /\ link' = "open"
  /\ UNCHANGED <<trap, mem, saved, flash, shown, clock, heard, since, lure, changes, boots>>

\* SetCommand(CLEAR), before the device state is read in its session.
ClearKillAlert ==
  /\ link = "open" /\ trap.kill
  /\ trap' = [trap EXCEPT !.kill = FALSE]
  /\ since' = {}
  /\ UNCHANGED <<mem, saved, flash, shown, link, clock, heard, lure, changes, boots>>

\* A device state arrives, as often as the trap sends one; nothing is published yet.
DeviceState ==
  /\ link # "none"
  /\ link' = "read"
  /\ mem' = [mem EXCEPT !.known = TRUE, !.ready = trap.ready, !.alert = As(trap.kill)]
  /\ since' = since \cup {"polled"}
  /\ UNCHANGED <<trap, saved, flash, shown, clock, heard, lure, changes, boots>>

\* publish_all, of what is then saved.
PublishAll(kept) ==
  /\ mem' = [mem EXCEPT !.armed = Armed(mem)]
  /\ saved' = Dated(kept, clock)
  /\ shown' = Shown(mem', clock, heard)

\* The cache is saved before publish_all has derived Armed anew.
JobDone ==
  /\ link = "read"
  /\ link' = "none"
  /\ PublishAll([saved EXCEPT !.alert = mem.alert, !.armed = mem.armed])
  /\ UNCHANGED <<trap, flash, clock, heard, since, lure, changes, boots>>

JobFailed ==
  /\ link # "none"
  /\ link' = "none"
  /\ PublishAll(saved)
  /\ UNCHANGED <<trap, flash, clock, heard, since, lure, changes, boots>>

-----------------------------------------------------------------------------
\* Now, or by ReplacedDate a date before; refused without a clock.
LureDates == IF clock.set THEN 1..clock.now ELSE {}

\* Mutant: the date is left for the next sync.
LureReplacedUnflushed(date) ==
  /\ changes < MaxChanges /\ changes' = changes + 1
  /\ saved' = [saved EXCEPT !.lure = date]
  /\ lure' = [at |-> date, entered |-> TRUE]
  /\ UNCHANGED <<trap, mem, flash, shown, link, clock, heard, since, boots>>

\* set_lure_replaced: flushed at once.
LureReplaced(date) ==
  /\ changes < MaxChanges /\ changes' = changes + 1
  /\ saved' = [saved EXCEPT !.lure = date] /\ flash' = saved'
  /\ lure' = [at |-> date, entered |-> TRUE]
  /\ UNCHANGED <<trap, mem, shown, link, clock, heard, since, boots>>

-----------------------------------------------------------------------------
(***************************************************************************)
(* Flash, restarts and power losses.                                       *)
(***************************************************************************)
Sync ==
  /\ flash # saved
  /\ flash' = saved
  /\ UNCHANGED <<trap, mem, saved, shown, link, clock, heard, since, lure, changes, boots>>

\* setup, from what is in flash; the clock is to be set again.
Boots(f) ==
  /\ boots < MaxBoots /\ boots' = boots + 1
  /\ flash' = f /\ saved' = f
  /\ mem' = [known |-> FALSE, ready |-> FALSE, alert |-> f.alert, armed |-> f.armed, bit |-> "unknown"]
  /\ clock' = [clock EXCEPT !.set = FALSE, !.due = FALSE]
  /\ heard' = [epoch |-> f.seen, ms |-> Never, truly |-> heard.truly, set |-> FALSE]
  /\ shown' = Shown(mem', clock', heard')
  /\ link' = "none" /\ since' = {}
  /\ UNCHANGED <<trap, lure, changes>>

\* safe_reboot has the preferences written.
Restart == Boots(saved)

PowerLoss == flash # saved /\ Boots(flash)

Next ==
  \/ KillOrEmptied \/ ReadyOrNot \/ BitFollows \/ Tick \/ ClockSet \/ UpdatePeriodic
  \/ OnAdvertisement
  \/ \E date \in LureDates : LureReplaced(date)
  \/ Connect \/ ClearKillAlert \/ DeviceState \/ JobDone \/ JobFailed
  \/ Sync \/ Restart \/ PowerLoss

Spec == Init /\ [][Next]_vars

-----------------------------------------------------------------------------
\* Every variable has its type.
TypeOK ==
  /\ trap \in [kill : BOOLEAN, bit : BOOLEAN, ready : BOOLEAN]
  /\ mem \in [known : BOOLEAN, ready : BOOLEAN, alert : Settings, armed : Settings, bit : Settings]
  /\ {saved, flash} \subseteq [alert : Settings, armed : Settings, seen : 0..MaxTime,
                              lure : 0..MaxTime]
  /\ shown \in [alert : Settings, armed : Settings, online : BOOLEAN]
  /\ link \in {"none", "open", "read"}
  /\ clock \in [now : 1..MaxTime, set : BOOLEAN, due : BOOLEAN]
  /\ heard \in [epoch : 0..MaxTime, ms : {Never} \cup 1..MaxTime, truly : 1..MaxTime, set : BOOLEAN]
  /\ lure \in [at : 1..MaxTime, entered : BOOLEAN]
  /\ since \subseteq {"heard", "polled"}

\* Once the trap has been polled, and heard with its bit caught up, since its kill
\* state last changed and since the boot, Kill Alert is what it should be: in
\* whichever order that was, and however late the bits heard before.
AlertRight ==
  link = "none" /\ since = {"heard", "polled"} => shown.alert = As(trap.kill)

\* From the first poll on, what is shown agrees: Armed is on when the trap was
\* ready at the last poll, and off whenever Kill Alert is on.
ArmedMeansSet ==
  link = "none" /\ mem.known => shown.armed = As(mem.ready /\ shown.alert # "on")

\* Online means heard within the timeout, before or after a restart and with the
\* clock set or not; and a trap heard within it, since the boot, is online.  Unless
\* the clock was set only after it was heard: then it is not, until the next packet.
\* Both once update_periodic has run, within a minute of a step of the clock.
OnlineMeansHeard == shown.online /\ ~clock.due => clock.now - heard.truly < Timeout
HeardMeansOnline ==
  /\ heard.ms # Never /\ clock.now - heard.ms < Timeout
  /\ ~clock.due /\ (clock.set => heard.set)
  => shown.online
OnlineRight == OnlineMeansHeard /\ HeardMeansOnline

\* With the clock set, and update_periodic run, the lure has an age: never more than
\* its true one, so that it is not due early, and exactly what the user has entered,
\* whatever restarts and power losses there were.
LureAgeRight ==
  clock.set /\ ~clock.due =>
    IF lure.entered THEN saved.lure = lure.at ELSE saved.lure \in lure.at..clock.now

(***************************************************************************)
(* The inductive invariant (proved in ReadingsProofs).  Outside a session  *)
(* what is shown is what is in memory; a poll's alert is only ever undone  *)
(* by an old bit, which leaves a trace in adv_alert_bit_; and no epoch in  *)
(* memory or flash is later than what it stands for.                       *)
(***************************************************************************)
ShownAgrees ==
  link = "none" =>
    /\ shown.alert = mem.alert /\ shown.armed = mem.armed
    /\ mem.known => mem.armed = As(mem.ready /\ mem.alert # "on")

AlertFollows ==
  /\ "heard" \in since => trap.bit = trap.kill /\ mem.bit = As(trap.kill)
  /\ "polled" \in since /\ mem.bit = As(trap.kill) => mem.alert = As(trap.kill)

OnlineFollows ==
  /\ clock.due \/ shown.online = Online(clock, heard)
  /\ {heard.epoch, saved.seen, flash.seen} \subseteq 0..heard.truly
  /\ heard.truly <= clock.now
  /\ heard.ms # Never => heard.ms = heard.truly
  /\ heard.set => heard.epoch = heard.truly

LureIn(f) ==
  IF lure.entered THEN f.lure = lure.at ELSE f.lure = 0 \/ f.lure \in lure.at..clock.now

LureKept ==
  /\ lure.at <= clock.now
  /\ LureIn(saved) /\ LureIn(flash)
  /\ clock.set /\ ~clock.due => saved.lure # 0

IInv == TypeOK /\ ShownAgrees /\ ArmedMeansSet /\ AlertFollows /\ OnlineFollows /\ LureKept

-----------------------------------------------------------------------------
\* README, Armed: kept across restarts, so that what is shown before a restart is
\* shown after it.  It is not (no run checks this): the cache is saved before
\* Armed is derived from the poll it is saved for.
ArmedKept == [][boots' # boots /\ saved' = saved /\ link = "none" => shown'.armed = shown.armed]_vars
=============================================================================
