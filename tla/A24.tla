--------------------------------- MODULE A24 ---------------------------------
(***************************************************************************)
(* What the gateway makes of an A24's kills: Strikes, Kill Alert, Last     *)
(* Strike and the CO2 shots used.                                          *)
(*                                                                         *)
(* The trap numbers its kill records, D20D is the newest and D60D the last *)
(* one acknowledged.  A session reads them, acknowledges what it read on   *)
(* the trap, and with that the trap stops reporting: from then on only the *)
(* gateway's own Kill Alert, kept in its cache, tells of the kill.         *)
(***************************************************************************)
EXTENDS Integers

CONSTANTS Layouts,  \* what its advertisement may show: "counts", or nothing ("old")
          MaxTime,  \* bound: the clock
          Budget    \* bound: how often each event happens

Events == {"fire", "app", "reset", "shake", "unread", "extra", "restart", "power"}

ASSUME A24Assumption ==
  /\ Layouts \subseteq {"counts", "old"}
  /\ MaxTime \in Nat \ {0}
  /\ Budget \in [Events -> Nat]

VARIABLES
  trap,    \* kills (D20D), acked (D60D), cursor (what D30D returns), when; its
           \* layout; and whether the gateway has read D20D since the last reset
  mem,     \* prefs_ and cache_: strikes, at (strikes_at_co2), last, alert, extra
  flash,   \* what flash holds of mem
  vol,     \* kill_displayed_, and have_device_counter_
  ses,     \* the session: its next operation, what it read of D20D, whether
           \* all of it went well and nothing was inferred since
  user,    \* what the user knows, and the shots the canister may be charged
  clock,
  left     \* events still to come

vars == <<trap, mem, flash, vol, ses, user, clock, left>>

None    == -1                \* COUNTER_UNKNOWN, or not read
Records == 1..Budget["fire"]
Times   == 1..MaxTime
Steps   == {"idle", "displayed", "select", "payload", "read", "ack", "control"}

Later(a, b) == IF a > b THEN a ELSE b
Lesser(a, b) == IF a < b THEN a ELSE b

Spent(e) == left[e] < Budget[e]
Spend(e) == left[e] > 0 /\ left' = [left EXCEPT ![e] = @ - 1]

\* A trap just bound to the slot: it may have fired before, in another's hands.
Init ==
  /\ \E k \in 0..Budget["fire"], l \in Layouts : \E a \in 0..k :
       /\ trap = [kills |-> k, acked |-> a, cursor |-> k, when |-> [r \in Records |-> 1],
                  layout |-> l, read |-> FALSE]
       /\ left = [Budget EXCEPT !["fire"] = @ - k]
  /\ mem = [strikes |-> 0, at |-> None, last |-> 0, alert |-> "unknown", extra |-> 0]
  /\ flash = mem
  /\ vol = [displayed |-> None, counter |-> FALSE]
  /\ ses = [next |-> "idle", displayed |-> None, whole |-> FALSE]
  /\ user = [noticed |-> 0, seen |-> 0, due |-> 0, canister |-> 0]
  /\ clock = 1

-----------------------------------------------------------------------------
(***************************************************************************)
(* The trap and its surroundings.                                          *)
(***************************************************************************)
\* A kill, or a test fire by hand: a record and a shot.  Whether D30D then
\* returns it is not known.
Fire ==
  /\ Spend("fire")
  /\ LET k == trap.kills + 1 IN
     \E c \in {trap.cursor, k} :
       trap' = [trap EXCEPT !.kills = k, !.cursor = c, !.when[k] = clock]
  /\ user' = [user EXCEPT !.canister = @ + 1]
  /\ UNCHANGED <<mem, flash, vol, ses, clock>>

Tick ==
  /\ clock < MaxTime
  /\ clock' = clock + 1
  /\ UNCHANGED <<trap, mem, flash, vol, ses, user, left>>

\* The Goodnature app downloads the records and acknowledges them.
AppSyncs ==
  /\ Spend("app") /\ ses.next = "idle"
  /\ trap' = [trap EXCEPT !.acked = trap.kills, !.cursor = trap.kills]
  /\ UNCHANGED <<mem, flash, vol, ses, user, clock>>

\* The trap's counters start again.
Reset ==
  /\ Spend("reset") /\ ses.next = "idle"
  /\ trap' = [trap EXCEPT !.kills = 0, !.acked = 0, !.cursor = 0, !.read = FALSE]
  /\ user' = [user EXCEPT !.noticed = 0, !.seen = 0, !.due = 0]
  /\ ses' = [ses EXCEPT !.whole = FALSE]
  /\ UNCHANGED <<mem, flash, vol, clock>>

-----------------------------------------------------------------------------
(***************************************************************************)
(* set_strikes_ with n, at the three outcomes of the comparison; it is     *)
(* saved at once when the count goes up.                                   *)
(***************************************************************************)
FirstStrikes(n) ==
  /\ mem.at = None
  /\ mem' = [mem EXCEPT !.strikes = n, !.at = n]
  /\ UNCHANGED <<flash, user>>

MoreStrikes(n) ==
  /\ mem.at # None /\ n > mem.strikes
  /\ mem' = [mem EXCEPT !.strikes = n, !.alert = "on", !.last = Later(@, clock)]
  /\ flash' = mem'
  /\ user' = [user EXCEPT !.noticed = trap.kills]

FewerStrikes(n) ==
  /\ mem.at # None /\ n <= mem.strikes
  /\ mem' = [mem EXCEPT !.strikes = n, !.at = Lesser(@, n)]
  /\ UNCHANGED <<flash, user>>

SetStrikes(n) == FirstStrikes(n) \/ MoreStrikes(n) \/ FewerStrikes(n)

\* raise_kill_alert_, for records up to n.
RaiseKillAlert(n) ==
  /\ mem' = [mem EXCEPT !.alert = "on"]
  /\ user' = [user EXCEPT !.noticed = n]

-----------------------------------------------------------------------------
(***************************************************************************)
(* Advertisements.  The older firmware's burst of packets is a strike      *)
(* until the trap's own counter has been read; a shaken trap sends one too.*)
(***************************************************************************)
ShowsUnread ==
  /\ trap.layout = "counts" /\ trap.kills > trap.acked /\ ses.next = "idle"
  /\ RaiseKillAlert(trap.kills)
  /\ UNCHANGED <<trap, flash, vol, ses, clock, left>>

\* Mutant: every burst counts.
BurstAlways ==
  /\ trap.layout = "old" /\ ses.next = "idle" /\ Spend("shake")
  /\ SetStrikes(mem.strikes + 1)
  /\ ses' = [ses EXCEPT !.whole = FALSE]
  /\ UNCHANGED <<trap, vol, clock>>

Burst ==
  /\ trap.layout = "old" /\ ses.next = "idle" /\ Spend("shake")
  /\ ~vol.counter
  /\ SetStrikes(mem.strikes + 1)
  /\ ses' = [ses EXCEPT !.whole = FALSE]
  /\ UNCHANGED <<trap, vol, clock>>

-----------------------------------------------------------------------------
(***************************************************************************)
(* The session (push_a24_poll_ops_).  A read that fails is passed over,    *)
(* and a write that fails only fails the session.                          *)
(***************************************************************************)
Goes(step) == [ses EXCEPT !.next = step]
Fails(step) == [ses EXCEPT !.next = step, !.whole = FALSE]

Connect ==
  /\ ses.next = "idle"
  /\ ses' = [next |-> "displayed", displayed |-> None, whole |-> TRUE]
  /\ UNCHANGED <<trap, mem, flash, vol, user, clock, left>>

LinkDown ==
  /\ ses.next # "idle"
  /\ ses' = Fails("idle")
  /\ UNCHANGED <<trap, mem, flash, vol, user, clock, left>>

ReadFails(step, then) ==
  /\ ses.next = step
  /\ IF step = "read" THEN Spend("unread") ELSE UNCHANGED left
  /\ ses' = Fails(then)
  /\ UNCHANGED <<trap, mem, flash, vol, user, clock>>

ReadDisplayed ==
  /\ ses.next = "displayed"
  /\ ses' = [Goes("select") EXCEPT !.displayed = trap.kills]
  /\ vol' = [displayed |-> trap.kills, counter |-> TRUE]
  /\ SetStrikes(trap.kills)
  /\ trap' = [trap EXCEPT !.read = TRUE]
  /\ UNCHANGED <<clock, left>>

Select ==
  /\ ses.next = "select"
  /\ \/ /\ ses.displayed > 0
        /\ trap' = [trap EXCEPT !.cursor = ses.displayed]
        /\ ses' = Goes("payload")
     \/ ses.displayed = 0 /\ ses' = Goes("payload") /\ UNCHANGED trap
     \/ ses' = Fails("payload") /\ UNCHANGED trap     \* nothing read, or refused
  /\ UNCHANGED <<mem, flash, vol, user, clock, left>>

\* Mutant: the record's time only counts when it is later.
ReadPayloadNoting ==
  /\ ses.next = "payload"
  /\ ses' = Goes("read")
  /\ mem' = [mem EXCEPT !.last =
       IF trap.cursor = 0 THEN @ ELSE Later(@, trap.when[trap.cursor])]
  /\ UNCHANGED <<trap, flash, vol, user, clock, left>>

\* The newest record's own time replaces the time it was noticed at.
ReadPayload ==
  /\ ses.next = "payload"
  /\ ses' = Goes("read")
  /\ mem' = [mem EXCEPT !.last =
       IF trap.cursor = 0 THEN @
       ELSE IF trap.cursor = vol.displayed THEN trap.when[trap.cursor]
       ELSE Later(@, trap.when[trap.cursor])]
  /\ UNCHANGED <<trap, flash, vol, user, clock, left>>

\* Mutant: an acknowledged record is pending as well.
ReadReadInclusive ==
  /\ ses.next = "read"
  /\ ses' = Goes("ack")
  /\ IF vol.displayed >= trap.acked THEN RaiseKillAlert(vol.displayed)
     ELSE /\ mem' = [mem EXCEPT !.alert =
               IF vol.displayed # None /\ @ = "unknown" THEN "off" ELSE @]
          /\ UNCHANGED user
  /\ UNCHANGED <<trap, flash, vol, clock, left>>

\* Kills nobody has acknowledged raise the alert; with none, and nothing
\* remembered, it starts from off.
ReadRead ==
  /\ ses.next = "read"
  /\ ses' = Goes("ack")
  /\ IF vol.displayed > trap.acked THEN RaiseKillAlert(vol.displayed)
     ELSE /\ mem' = [mem EXCEPT !.alert =
               IF vol.displayed # None /\ @ = "unknown" THEN "off" ELSE @]
          /\ UNCHANGED user
  /\ UNCHANGED <<trap, flash, vol, clock, left>>

\* Mutant: whatever the trap has by now is acknowledged.
AcknowledgeNewest ==
  /\ ses.next = "ack"
  /\ trap' = [trap EXCEPT !.acked = trap.kills]
  /\ user' = [user EXCEPT !.due = IF trap.kills > trap.acked THEN trap.kills ELSE @]
  /\ ses' = Goes("control")
  /\ UNCHANGED <<mem, flash, vol, clock, left>>

\* The kills read so far are acknowledged on the trap.
Acknowledge ==
  /\ ses.next = "ack"
  /\ \/ /\ ses.displayed > 0
        /\ trap' = [trap EXCEPT !.acked = ses.displayed]
        /\ user' = [user EXCEPT !.due = IF ses.displayed > trap.acked THEN ses.displayed ELSE @]
        /\ ses' = Goes("control")
     \/ ses.displayed = 0 /\ ses' = Goes("control") /\ UNCHANGED <<trap, user>>
     \/ ses' = Fails("control") /\ UNCHANGED <<trap, user>>
  /\ UNCHANGED <<mem, flash, vol, clock, left>>

Control ==
  /\ ses.next = "control"
  /\ ses' = Goes("idle")
  /\ UNCHANGED <<trap, mem, flash, vol, user, clock, left>>

-----------------------------------------------------------------------------
(***************************************************************************)
(* The user.                                                               *)
(***************************************************************************)
ClearKillAlert ==
  /\ mem.alert # "off"
  /\ mem' = [mem EXCEPT !.alert = "off"]
  /\ user' = [user EXCEPT !.seen = IF mem.alert = "on" THEN Later(@, user.noticed) ELSE @]
  /\ UNCHANGED <<trap, flash, vol, ses, clock, left>>

\* Mutant: the anchor stays.
SetCo2ReplacedKeepsAnchor ==
  /\ mem' = [mem EXCEPT !.extra = 0]
  /\ flash' = [mem' EXCEPT !.extra = mem.extra]
  /\ user' = [user EXCEPT !.canister = Later(trap.kills - mem.strikes, 0)]
  /\ UNCHANGED <<trap, vol, ses, clock, left>>

\* The preferences are saved before the cache with the extra shots.  Fires the
\* gateway has not read yet are charged to the new canister.
SetCo2Replaced ==
  /\ mem' = [mem EXCEPT !.extra = 0, !.at =
       IF vol.counter \/ @ # None THEN mem.strikes ELSE None]
  /\ flash' = [mem' EXCEPT !.extra = mem.extra]
  /\ user' = [user EXCEPT !.canister = Later(trap.kills - mem.strikes, 0)]
  /\ UNCHANGED <<trap, vol, ses, clock, left>>

MarkCo2ShotUsed ==
  /\ Spend("extra")
  /\ mem' = [mem EXCEPT !.extra = @ + 1]
  /\ user' = [user EXCEPT !.canister = @ + 1]
  /\ UNCHANGED <<trap, flash, vol, ses, clock>>

-----------------------------------------------------------------------------
(***************************************************************************)
(* The gateway.                                                            *)
(***************************************************************************)
Sync ==
  /\ flash # mem
  /\ flash' = mem
  /\ UNCHANGED <<trap, mem, vol, ses, user, clock, left>>

Booted == vol' = [displayed |-> None, counter |-> FALSE]

\* safe_reboot saves first.
Restart ==
  /\ Spend("restart")
  /\ flash' = mem /\ Booted
  /\ ses' = IF ses.next = "idle" THEN ses ELSE Fails("idle")
  /\ UNCHANGED <<trap, mem, user, clock>>

PowerLoss ==
  /\ Spend("power")
  /\ mem' = flash /\ Booted
  /\ ses' = Fails("idle")
  /\ UNCHANGED <<trap, flash, user, clock>>

Next ==
  \/ Fire \/ Tick \/ AppSyncs \/ Reset
  \/ ShowsUnread \/ Burst
  \/ Connect \/ LinkDown
  \/ ReadFails("displayed", "select") \/ ReadFails("payload", "read") \/ ReadFails("read", "ack")
  \/ ReadDisplayed \/ Select \/ ReadPayload \/ ReadRead \/ Acknowledge \/ Control
  \/ ClearKillAlert \/ SetCo2Replaced \/ MarkCo2ShotUsed
  \/ Sync \/ Restart \/ PowerLoss

Spec == Init /\ [][Next]_vars

-----------------------------------------------------------------------------
Counts == 0..Budget["fire"]
Trap   == [kills : Counts, acked : Counts, cursor : Counts, when : [Records -> Times],
           layout : Layouts, read : BOOLEAN]
Mem    == [strikes : Nat, at : Nat \cup {None}, last : 0..MaxTime,
           alert : {"unknown", "off", "on"}, extra : Nat]
Vol    == [displayed : Counts \cup {None}, counter : BOOLEAN]
Ses    == [next : Steps, displayed : Counts \cup {None}, whole : BOOLEAN]
User   == [noticed : Nat, seen : Nat, due : Nat, canister : Nat]

\* Every variable has its type.
TypeOK ==
  /\ trap \in Trap /\ mem \in Mem /\ flash \in Mem /\ vol \in Vol /\ ses \in Ses
  /\ user \in User /\ clock \in Times /\ left \in [Events -> Nat]

\* A kill is not taken off the trap's hands and then kept from the user: of
\* those the gateway has acknowledged, the alert is on, or the user cleared it.
\* Unless D60D could not be read, or the alert was lost with the power.
KillsAlerted   == user.due <= user.seen \/ mem.alert = "on"
AckedIsAlerted == ~Spent("unread") /\ ~Spent("power") => KillsAlerted

\* Only a kill not counted yet, or not acknowledged on the trap, turns the alert
\* on: cleared after that, it does not come back for the same kill.  Unless the
\* burst of a trap that was only shaken is taken for one, the clearing is lost
\* with the power, or D20D has yet to be read since the trap's counters were
\* reset.
NoFalseAlarm ==
  [][/\ trap.layout = "counts" /\ left'["power"] = left["power"]
     /\ (Spent("reset") => trap.read)
     /\ mem.alert # "on" /\ mem'.alert = "on"
     => trap.kills > mem.strikes \/ trap.kills > trap.acked]_vars

\* publish_consumables_, without the shots lost with time.
ShotsUsed(m) ==
  IF m.at = None THEN 0 ELSE Later(m.strikes - m.at, 0) + m.extra

\* A canister is not charged for more shots than were fired (or entered) since
\* it was put in, those included that the gateway had yet to read then.  Unless
\* bursts were counted before the trap's counter, or a power loss brought extra
\* shots back.
NotOvercharged ==
  trap.layout = "counts" /\ ~(Spent("power") /\ Spent("extra"))
  => ShotsUsed(mem) <= user.canister

\* After a session without a failure, Last Strike is the time of the newest
\* record, or of one made during the session; not the time it was noticed at.
LastStrikeRight ==
  ses.next = "idle" /\ ses.whole /\ ses.displayed > 0
  => \E r \in ses.displayed..trap.kills : mem.last = trap.when[r]

\* Bursts count as strikes only until the trap's own counter has been read: from
\* then on Strikes is not above it.  A restart forgets that it has been read.
InferredUntilRead ==
  ~Spent("restart") /\ ~Spent("power") => (trap.read => mem.strikes <= trap.kills)

(***************************************************************************)
(* The inductive invariant (proved in A24Proofs).  The alert stands for    *)
(* the records up to user.noticed; before a record is acknowledged D60D    *)
(* was read, so that the alert stands for it unless the user has cleared   *)
(* it since.  And of the canister, a fire not read yet is already charged. *)
(***************************************************************************)
Answered(r) == r <= user.seen \/ (mem.alert = "on" /\ r <= user.noticed)

AlertKept ==
  /\ user.due <= trap.acked /\ trap.acked <= trap.kills
  /\ Answered(user.due)
  /\ ses.next # "idle" /\ ses.displayed # None
     => ses.displayed = vol.displayed /\ ses.displayed \in trap.acked..trap.kills
  /\ ses.next = "ack" /\ ses.displayed > trap.acked => Answered(ses.displayed)

Charged(m) ==
  /\ m.extra <= user.canister
  /\ m.at # None =>
       /\ m.at <= m.strikes
       /\ m.strikes - m.at + m.extra + Later(trap.kills - m.strikes, 0) <= user.canister

IInv ==
  /\ TypeOK
  /\ \A e \in Events : left[e] <= Budget[e]
  /\ trap.kills + left["fire"] <= Budget["fire"]
  /\ ~Spent("unread") /\ ~Spent("power") => AlertKept
  /\ trap.layout = "counts" /\ ~Spent("power") => Charged(mem)
  /\ trap.layout = "counts" /\ ~Spent("extra")
     => Charged(mem) /\ Charged(flash) /\ mem.extra = 0 /\ flash.extra = 0
=============================================================================
