------------------------------ MODULE A24Proofs ------------------------------
(***************************************************************************)
(* Proofs about A24: no kill the gateway acknowledges on the trap is kept  *)
(* from the user, no canister is charged for more shots than it gave, Kill *)
(* Alert does not come on for nothing, and Last Strike is the newest read. *)
(***************************************************************************)
EXTENDS A24, TLAPS

USE A24Assumption

\* The part of the invariant that says what the values are.
Base ==
  /\ TypeOK
  /\ \A e \in Events : left[e] <= Budget[e]
  /\ trap.kills + left["fire"] <= Budget["fire"]

LEMMA FireNat == Budget["fire"] \in Nat /\ \A e \in Events : Budget[e] \in Nat
BY DEF Events

\* What spending an event leaves.
LEMMA SpendLess ==
  ASSUME Base, NEW e \in Events, Spend(e)
  PROVE  /\ left' \in [Events -> Nat]
         /\ \A f \in Events : left'[f] <= left[f] /\ left'[f] <= Budget[f]
         /\ left[e] > 0 /\ left'[e] = left[e] - 1
         /\ left'["fire"] <= left["fire"] /\ left'["fire"] \in Nat
<1>1. left \in [Events -> Nat] /\ left[e] > 0 /\ left' = [left EXCEPT ![e] = @ - 1]
  BY DEF Base, TypeOK, Spend
<1>2. left' \in [Events -> Nat]
  BY <1>1
<1>3. \A f \in Events : left'[f] <= left[f]
  BY <1>1
<1>4. \A f \in Events : left[f] <= Budget[f] /\ left'[f] \in Nat /\ Budget[f] \in Nat /\ left[f] \in Nat
  BY <1>1, <1>2 DEF Base
<1>5. \A f \in Events : left'[f] <= Budget[f]
  BY <1>3, <1>4
<1>6. "fire" \in Events
  BY DEF Events
<1> QED
  BY <1>1, <1>2, <1>3, <1>4, <1>5, <1>6

-----------------------------------------------------------------------------
(***************************************************************************)
(* The values.                                                             *)
(***************************************************************************)
LEMMA InitInv == Init => IInv
<1> SUFFICES ASSUME Init PROVE IInv
  OBVIOUS
<1>1. PICK k \in Counts, l \in Layouts : \E a \in 0..k :
       /\ trap = [kills |-> k, acked |-> a, cursor |-> k, when |-> [r \in Records |-> 1],
                  layout |-> l, read |-> FALSE]
       /\ left = [Budget EXCEPT !["fire"] = @ - k]
  BY DEF Init, Counts
<1>2. PICK a \in 0..k :
         trap = [kills |-> k, acked |-> a, cursor |-> k, when |-> [r \in Records |-> 1],
                 layout |-> l, read |-> FALSE]
  BY <1>1
<1>3. /\ left \in [Events -> Nat] /\ \A e \in Events : left[e] <= Budget[e]
      /\ k + left["fire"] <= Budget["fire"]
  BY <1>1, FireNat DEF Counts, Events
<1>4. k \in Counts /\ a \in Counts /\ 1 \in Times
  BY FireNat DEF Counts, Times
<1>5. trap \in Trap
  BY <1>2, <1>4 DEF Trap
<1>6. mem \in Mem /\ flash \in Mem /\ vol \in Vol /\ ses \in Ses /\ user \in User /\ clock \in Times
  BY <1>4 DEF Init, Mem, Vol, Ses, User, Steps
<1>7. AlertKept
  BY <1>2, FireNat DEF Init, AlertKept, Answered, Counts
<1>8. Charged(mem) /\ Charged(flash) /\ mem.extra = 0 /\ flash.extra = 0
  BY DEF Init, Charged
<1> QED
  BY <1>2, <1>3, <1>5, <1>6, <1>7, <1>8 DEF IInv, TypeOK

\* set_strikes_ with any number.
LEMMA SetStrikesType ==
  ASSUME TypeOK, NEW n \in Nat, SetStrikes(n)
  PROVE  mem' \in Mem /\ flash' \in Mem /\ user' \in User
<1>1. CASE FirstStrikes(n)
  BY <1>1 DEF TypeOK, FirstStrikes, Mem
<1>2. CASE MoreStrikes(n)
  <2>1. Later(mem.last, clock) \in 0..MaxTime
    BY DEF TypeOK, Mem, Times, Later
  <2>2. mem' \in Mem
    BY <1>2, <2>1 DEF TypeOK, MoreStrikes, Mem
  <2>3. trap.kills \in Nat
    BY FireNat DEF TypeOK, Trap, Counts
  <2> QED
    BY <1>2, <2>2, <2>3 DEF TypeOK, MoreStrikes, User
<1>3. CASE FewerStrikes(n)
  BY <1>3 DEF TypeOK, FewerStrikes, Mem, Lesser, None
<1> QED
  BY <1>1, <1>2, <1>3 DEF SetStrikes

LEMMA TrapBase ==
  ASSUME Base, Fire \/ Tick \/ AppSyncs \/ Reset
  PROVE  Base'
<1>1. CASE Fire
  <2>1. /\ left' \in [Events -> Nat] /\ \A f \in Events : left'[f] <= Budget[f]
        /\ left["fire"] > 0 /\ left'["fire"] = left["fire"] - 1 /\ left'["fire"] \in Nat
    BY <1>1, SpendLess DEF Fire, Events
  <2>2. trap.kills \in Nat /\ trap.kills + 1 + left'["fire"] <= Budget["fire"]
    <3>1. trap \in Trap /\ left["fire"] \in Nat /\ Budget["fire"] \in Nat
      BY <2>1, FireNat DEF Base, TypeOK, Events
    <3>2. trap.kills \in Nat
      BY <3>1 DEF Trap, Counts
    <3> QED
      BY <2>1, <3>1, <3>2 DEF Base
  <2>3. trap.kills + 1 \in Records /\ trap.kills + 1 \in Counts
    BY <2>1, <2>2, FireNat DEF Records, Counts
  <2>4. PICK c \in {trap.cursor, trap.kills + 1} :
          trap' = [trap EXCEPT !.kills = trap.kills + 1, !.cursor = c, !.when[trap.kills + 1] = clock]
    BY <1>1 DEF Fire
  <2>5. trap \in Trap /\ clock \in Times
    BY DEF Base, TypeOK
  <2>6. trap' \in Trap /\ trap'.kills = trap.kills + 1
    BY <2>3, <2>4, <2>5 DEF Trap
  <2>7. user' \in User
    BY <1>1 DEF Base, TypeOK, User, Fire
  <2> QED
    BY <1>1, <2>1, <2>2, <2>6, <2>7 DEF Base, TypeOK, Fire
<1>2. CASE Tick
  <2>1. clock' \in Times
    BY <1>2 DEF Base, TypeOK, Tick, Times
  <2> QED
    BY <1>2, <2>1 DEF Base, TypeOK, Tick
<1>3. CASE AppSyncs \/ Reset
  <2>1. /\ left' \in [Events -> Nat] /\ \A f \in Events : left'[f] <= Budget[f]
        /\ left'["fire"] <= left["fire"] /\ left'["fire"] \in Nat /\ left["fire"] \in Nat
    <3>1. (Spend("app") /\ "app" \in Events) \/ (Spend("reset") /\ "reset" \in Events)
      BY <1>3 DEF AppSyncs, Reset, Events
    <3>2. left["fire"] \in Nat
      BY DEF Base, TypeOK, Events
    <3> QED
      BY <3>1, <3>2, SpendLess
  <2>2. trap \in Trap /\ trap.kills \in Counts /\ 0 \in Counts /\ trap.kills \in Nat
    BY FireNat DEF Base, TypeOK, Trap, Counts
  <2>3. trap' \in Trap /\ (trap'.kills = trap.kills \/ trap'.kills = 0)
    <3>1. CASE AppSyncs
      <4>1. trap' = [trap EXCEPT !.acked = trap.kills, !.cursor = trap.kills]
        BY <3>1 DEF AppSyncs
      <4> QED
        BY <2>2, <4>1 DEF Trap
    <3>2. CASE Reset
      <4>1. trap' = [trap EXCEPT !.kills = 0, !.acked = 0, !.cursor = 0, !.read = FALSE]
        BY <3>2 DEF Reset
      <4> QED
        BY <2>2, <4>1 DEF Trap
    <3> QED
      BY <1>3, <3>1, <3>2
  <2>4. user' \in User /\ ses' \in Ses
    <3>1. user \in User /\ ses \in Ses
      BY DEF Base, TypeOK
    <3>2. user' = user \/ user' = [user EXCEPT !.noticed = 0, !.seen = 0, !.due = 0]
      BY <1>3 DEF AppSyncs, Reset
    <3>3. ses' = ses \/ ses' = [ses EXCEPT !.whole = FALSE]
      BY <1>3 DEF AppSyncs, Reset
    <3>4. user' \in User
      <4>1. [user EXCEPT !.noticed = 0, !.seen = 0, !.due = 0] \in User
        BY <3>1 DEF User
      <4> QED
        BY <3>1, <3>2, <4>1
    <3>5. ses' \in Ses
      BY <3>1, <3>3 DEF Ses
    <3> QED
      BY <3>4, <3>5
  <2>5. trap'.kills + left'["fire"] <= Budget["fire"]
    BY <2>1, <2>2, <2>3, FireNat DEF Base
  <2>6. mem' \in Mem /\ flash' \in Mem /\ vol' \in Vol /\ clock' \in Times
    BY <1>3 DEF Base, TypeOK, AppSyncs, Reset
  <2> QED
    BY <2>1, <2>3, <2>4, <2>5, <2>6 DEF Base, TypeOK
<1> QED
  BY <1>1, <1>2, <1>3

\* What is left to show when the trap is as it was.
LEMMA SpentBase ==
  ASSUME Base, NEW e \in Events, Spend(e), trap'.kills = trap.kills
  PROVE  /\ left' \in [Events -> Nat] /\ \A f \in Events : left'[f] <= Budget[f]
         /\ trap'.kills + left'["fire"] <= Budget["fire"]
<1>1. trap.kills \in Nat /\ left["fire"] \in Nat
  BY FireNat DEF Base, TypeOK, Trap, Counts, Events
<1> QED
  BY <1>1, SpendLess, FireNat DEF Base

LEMMA RadioBase ==
  ASSUME Base, ShowsUnread \/ Burst \/ Connect \/ LinkDown
               \/ (\E s, t \in Steps : ReadFails(s, t))
               \/ ReadDisplayed \/ Select
  PROVE  Base'
<1>0. trap.kills \in Counts /\ trap.kills \in Nat
  BY FireNat DEF Base, TypeOK, Trap, Counts
<1>1. CASE ShowsUnread
  <2>1. mem' \in Mem
    BY <1>1 DEF Base, TypeOK, ShowsUnread, RaiseKillAlert, Mem
  <2>2. user' \in User
    BY <1>0, <1>1 DEF Base, TypeOK, ShowsUnread, RaiseKillAlert, User
  <2> QED
    BY <1>1, <2>1, <2>2 DEF Base, TypeOK, ShowsUnread
<1>2. CASE Burst
  <2>1. /\ left' \in [Events -> Nat] /\ \A f \in Events : left'[f] <= Budget[f]
        /\ trap'.kills + left'["fire"] <= Budget["fire"]
    BY <1>2, SpentBase DEF Burst, Events
  <2>2. mem.strikes + 1 \in Nat
    BY DEF Base, TypeOK, Mem
  <2>3. mem' \in Mem /\ flash' \in Mem /\ user' \in User
    BY <1>2, <2>2, SetStrikesType DEF Base, Burst
  <2>4. ses' \in Ses
    BY <1>2 DEF Base, TypeOK, Burst, Ses
  <2> QED
    BY <1>2, <2>1, <2>3, <2>4 DEF Base, TypeOK, Burst
<1>3. CASE Connect \/ LinkDown
  <2>1. ASSUME Connect PROVE ses' \in Ses
    BY <2>1 DEF Connect, Steps, Ses
  <2>2. ASSUME LinkDown PROVE ses' \in Ses
    BY <2>2 DEF Base, TypeOK, LinkDown, Fails, Steps, Ses
  <2>3. ses' \in Ses
    BY <1>3, <2>1, <2>2
  <2> QED
    BY <1>3, <2>3 DEF Base, TypeOK, Connect, LinkDown
<1>4. ASSUME NEW s \in Steps, NEW t \in Steps, ReadFails(s, t) PROVE Base'
  <2>1. ses' \in Ses
    BY <1>4 DEF Base, TypeOK, ReadFails, Fails, Ses
  <2>2. /\ left' \in [Events -> Nat] /\ \A f \in Events : left'[f] <= Budget[f]
        /\ trap'.kills + left'["fire"] <= Budget["fire"]
    <3>1. CASE s = "read"
      BY <1>4, <3>1, SpentBase DEF ReadFails, Events
    <3>2. CASE s # "read"
      BY <1>4, <3>2 DEF ReadFails, Base, TypeOK
    <3> QED
      BY <3>1, <3>2
  <2> QED
    BY <1>4, <2>1, <2>2 DEF Base, TypeOK, ReadFails
<1>5. CASE ReadDisplayed
  <2>1. mem' \in Mem /\ flash' \in Mem /\ user' \in User
    BY <1>0, <1>5, SetStrikesType DEF Base, ReadDisplayed
  <2>2. ses' \in Ses /\ vol' \in Vol
    BY <1>0, <1>5 DEF Base, TypeOK, ReadDisplayed, Goes, Steps, Ses, Vol
  <2>3. trap' \in Trap /\ trap'.kills = trap.kills
    BY <1>5 DEF Base, TypeOK, ReadDisplayed, Trap
  <2> QED
    BY <1>5, <2>1, <2>2, <2>3 DEF Base, TypeOK, ReadDisplayed
<1>6. CASE Select
  <2>1. ses' \in Ses
    BY <1>6 DEF Base, TypeOK, Select, Goes, Fails, Steps, Ses
  <2>2. trap' \in Trap /\ trap'.kills = trap.kills
    <3>1. ses.displayed > 0 => ses.displayed \in Counts
      BY DEF Base, TypeOK, Ses, None
    <3> QED
      BY <1>6, <3>1 DEF Base, TypeOK, Select, Trap
  <2> QED
    BY <1>6, <2>1, <2>2 DEF Base, TypeOK, Select
<1> QED
  BY <1>1, <1>2, <1>3, <1>4, <1>5, <1>6

LEMMA SessionBase ==
  ASSUME Base, ReadPayload \/ ReadRead \/ Acknowledge \/ Control
  PROVE  Base'
<1>1. CASE ReadPayload
  <2>1. trap.cursor # 0 => trap.when[trap.cursor] \in Times
    BY FireNat DEF Base, TypeOK, Trap, Records, Counts
  <2>2. mem' \in Mem
    BY <1>1, <2>1 DEF Base, TypeOK, ReadPayload, Mem, Later, Times
  <2>3. ses' \in Ses
    BY <1>1 DEF Base, TypeOK, ReadPayload, Goes, Steps, Ses
  <2> QED
    BY <1>1, <2>2, <2>3 DEF Base, TypeOK, ReadPayload
<1>2. CASE ReadRead
  <2>1. mem' \in Mem
    BY <1>2 DEF Base, TypeOK, ReadRead, RaiseKillAlert, Mem
  <2>2. vol.displayed > trap.acked => vol.displayed \in Nat
    BY FireNat DEF Base, TypeOK, Vol, Trap, Counts, None
  <2>3. user' \in User
    BY <1>2, <2>2 DEF Base, TypeOK, ReadRead, RaiseKillAlert, User
  <2>4. ses' \in Ses
    BY <1>2 DEF Base, TypeOK, ReadRead, Goes, Steps, Ses
  <2> QED
    BY <1>2, <2>1, <2>3, <2>4 DEF Base, TypeOK, ReadRead
<1>3. CASE Acknowledge
  <2>1. ses' \in Ses
    BY <1>3 DEF Base, TypeOK, Acknowledge, Goes, Fails, Steps, Ses
  <2>2. ses.displayed > 0 => ses.displayed \in Counts /\ ses.displayed \in Nat
    BY FireNat DEF Base, TypeOK, Ses, None, Counts
  <2>3. trap' \in Trap /\ trap'.kills = trap.kills
    BY <1>3, <2>2 DEF Base, TypeOK, Acknowledge, Trap
  <2>4. user' \in User
    BY <1>3, <2>2 DEF Base, TypeOK, Acknowledge, User
  <2> QED
    BY <1>3, <2>1, <2>3, <2>4 DEF Base, TypeOK, Acknowledge
<1>4. CASE Control
  <2>1. ses' \in Ses
    BY <1>4 DEF Base, TypeOK, Control, Goes, Steps, Ses
  <2> QED
    BY <1>4, <2>1 DEF Base, TypeOK, Control
<1> QED
  BY <1>1, <1>2, <1>3, <1>4

LEMMA UserBase ==
  ASSUME Base, ClearKillAlert \/ SetCo2Replaced \/ MarkCo2ShotUsed
  PROVE  Base'
<1>1. CASE ClearKillAlert
  <2>1. mem' \in Mem
    BY <1>1 DEF Base, TypeOK, ClearKillAlert, Mem
  <2>2. user' \in User
    BY <1>1 DEF Base, TypeOK, ClearKillAlert, User, Later
  <2> QED
    BY <1>1, <2>1, <2>2 DEF Base, TypeOK, ClearKillAlert
<1>2. CASE SetCo2Replaced
  <2>1. Later(trap.kills - mem.strikes, 0) \in Nat
    BY FireNat DEF Base, TypeOK, Mem, Trap, Counts, Later
  <2>2. mem' \in Mem /\ flash' \in Mem
    BY <1>2 DEF Base, TypeOK, SetCo2Replaced, Mem
  <2>3. user' \in User
    BY <1>2, <2>1 DEF Base, TypeOK, SetCo2Replaced, User
  <2> QED
    BY <1>2, <2>2, <2>3 DEF Base, TypeOK, SetCo2Replaced
<1>3. CASE MarkCo2ShotUsed
  <2>1. /\ left' \in [Events -> Nat] /\ \A f \in Events : left'[f] <= Budget[f]
        /\ trap'.kills + left'["fire"] <= Budget["fire"]
    BY <1>3, SpentBase DEF MarkCo2ShotUsed, Events
  <2>2. mem' \in Mem /\ user' \in User
    BY <1>3 DEF Base, TypeOK, MarkCo2ShotUsed, Mem, User
  <2> QED
    BY <1>3, <2>1, <2>2 DEF Base, TypeOK, MarkCo2ShotUsed
<1> QED
  BY <1>1, <1>2, <1>3

LEMMA GatewayBase ==
  ASSUME Base, Sync \/ Restart \/ PowerLoss \/ UNCHANGED vars
  PROVE  Base'
<1>1. CASE Sync \/ UNCHANGED vars
  BY <1>1 DEF Base, TypeOK, Sync, vars
<1>2. CASE Restart \/ PowerLoss
  <2>1. /\ left' \in [Events -> Nat] /\ \A f \in Events : left'[f] <= Budget[f]
        /\ trap'.kills + left'["fire"] <= Budget["fire"]
    BY <1>2, SpentBase DEF Restart, PowerLoss, Events
  <2>2. vol' \in Vol
    <3>1. vol' = [displayed |-> None, counter |-> FALSE]
      BY <1>2 DEF Restart, PowerLoss, Booted
    <3> QED
      BY <3>1 DEF Vol
  <2>3. Fails("idle") \in Ses /\ ses \in Ses
    BY DEF Base, TypeOK, Fails, Steps, Ses
  <2> QED
    BY <1>2, <2>1, <2>2, <2>3 DEF Base, TypeOK, Restart, PowerLoss
<1> QED
  BY <1>1, <1>2

LEMMA BaseInv ==
  ASSUME Base, [Next]_vars
  PROVE  Base'
<1>1. /\ ReadFails("displayed", "select") => \E s, t \in Steps : ReadFails(s, t)
      /\ ReadFails("payload", "read") => \E s, t \in Steps : ReadFails(s, t)
      /\ ReadFails("read", "ack") => \E s, t \in Steps : ReadFails(s, t)
  BY DEF Steps
<1> QED
  BY <1>1, TrapBase, RadioBase, SessionBase, UserBase, GatewayBase DEF Next
-----------------------------------------------------------------------------
(***************************************************************************)
(* The alert.  D60D is read before it is written, and nothing is lost.     *)
(***************************************************************************)
\* The numbers the alert is about.
LEMMA Numbers ==
  ASSUME Base
  PROVE  /\ trap.kills \in Nat /\ trap.acked \in Nat
         /\ user.due \in Nat /\ user.seen \in Nat /\ user.noticed \in Nat
         /\ user.canister \in Nat
         /\ ses.displayed \in Nat \cup {None} /\ vol.displayed \in Nat \cup {None}
         /\ mem.strikes \in Nat /\ mem.at \in Nat \cup {None} /\ mem.extra \in Nat
         /\ flash.strikes \in Nat /\ flash.at \in Nat \cup {None} /\ flash.extra \in Nat
<1>1. /\ trap.kills \in Counts /\ trap.acked \in Counts
      /\ ses.displayed \in Counts \cup {None} /\ vol.displayed \in Counts \cup {None}
  BY DEF Base, TypeOK, Trap, Ses, Vol
<1>2. \A n \in Counts : n \in Nat
  BY FireNat DEF Counts
<1>3. /\ user.due \in Nat /\ user.seen \in Nat /\ user.noticed \in Nat
      /\ user.canister \in Nat
  BY DEF Base, TypeOK, User
<1>4. /\ mem.strikes \in Nat /\ mem.at \in Nat \cup {None} /\ mem.extra \in Nat
      /\ flash.strikes \in Nat /\ flash.at \in Nat \cup {None} /\ flash.extra \in Nat
  BY DEF Base, TypeOK, Mem
<1> QED
  BY <1>1, <1>2, <1>3, <1>4

\* What has not happened by the next state does not happen in this step.
LEMMA NotYet ==
  ASSUME Base, [Next]_vars, NEW e \in Events, ~Spent(e)'
  PROVE  ~Spent(e) /\ ~Spend(e)
<1>1. left[e] \in Nat /\ Budget[e] \in Nat /\ left[e] <= Budget[e]
  BY FireNat DEF Base, TypeOK
<1>2. left'[e] >= Budget[e] /\ left' \in [Events -> Nat]
  BY BaseInv, FireNat DEF Spent, Base, TypeOK
<1>3. (left' = left) \/ (\E f \in Events : Spend(f))
  BY DEF Next, vars, Events, Fire, Tick, AppSyncs, Reset, ShowsUnread, Burst, Connect, LinkDown,
         ReadFails, ReadDisplayed, Select, ReadPayload, ReadRead, Acknowledge, Control,
         ClearKillAlert, SetCo2Replaced, MarkCo2ShotUsed, Sync, Restart, PowerLoss
<1>4. left'[e] <= left[e]
  BY <1>1, <1>3, SpendLess
<1>5. ~Spent(e)
  BY <1>1, <1>2, <1>4 DEF Spent
<1>6. ~Spend(e)
  <2> SUFFICES ASSUME Spend(e) PROVE FALSE
    OBVIOUS
  <2>1. left'[e] = left[e] - 1
    BY SpendLess
  <2> QED
    BY <1>1, <1>2, <2>1
<1> QED
  BY <1>5, <1>6

\* set_strikes_ answers what it does not turn off.
LEMMA SetStrikesAlert ==
  ASSUME Base, NEW n \in Nat, SetStrikes(n)
  PROVE  /\ user'.due = user.due /\ user'.seen = user.seen
         /\ \/ mem'.alert = mem.alert /\ user'.noticed = user.noticed
            \/ mem'.alert = "on" /\ user'.noticed = trap.kills
<1>0. mem \in Mem
  BY DEF Base, TypeOK
<1>1. CASE FirstStrikes(n)
  <2>1. mem' = [mem EXCEPT !.strikes = n, !.at = n]
    BY <1>1 DEF FirstStrikes
  <2>2. mem'.alert = mem.alert
    BY <1>0, <2>1 DEF Mem
  <2>3. user' = user
    BY <1>1 DEF FirstStrikes
  <2> QED
    BY <2>2, <2>3
<1>2. CASE MoreStrikes(n)
  BY <1>2 DEF Base, TypeOK, Mem, User, MoreStrikes
<1>3. CASE FewerStrikes(n)
  <2>1. mem' = [mem EXCEPT !.strikes = n, !.at = Lesser(mem.at, n)]
    BY <1>3 DEF FewerStrikes
  <2>2. mem'.alert = mem.alert
    BY <1>0, <2>1 DEF Mem
  <2>3. user' = user
    BY <1>3 DEF FewerStrikes
  <2> QED
    BY <2>2, <2>3
<1> QED
  BY <1>1, <1>2, <1>3 DEF SetStrikes

LEMMA AlertTrap ==
  ASSUME Base, AlertKept, Fire \/ Tick \/ AppSyncs \/ Reset
  PROVE  AlertKept'
<1>1. CASE Fire
  <2>1. /\ trap'.kills = trap.kills + 1 /\ trap'.acked = trap.acked
        /\ user'.due = user.due /\ user'.seen = user.seen /\ user'.noticed = user.noticed
    BY <1>1 DEF Base, TypeOK, Trap, User, Fire
  <2>2. mem' = mem /\ vol' = vol /\ ses' = ses
    BY <1>1 DEF Fire
  <2> QED
    BY <2>1, <2>2, Numbers DEF AlertKept, Answered
<1>2. CASE Tick
  BY <1>2 DEF Tick, AlertKept, Answered
<1>3. CASE AppSyncs
  <2>1. /\ trap'.kills = trap.kills /\ trap'.acked = trap.kills
        /\ user' = user /\ mem' = mem /\ vol' = vol /\ ses' = ses /\ ses.next = "idle"
    BY <1>3 DEF Base, TypeOK, Trap, AppSyncs
  <2> QED
    BY <2>1, Numbers DEF AlertKept, Answered
<1>4. CASE Reset
  <2>1. /\ trap'.kills = 0 /\ trap'.acked = 0 /\ user'.due = 0 /\ user'.seen = 0
        /\ mem' = mem /\ ses'.next = "idle"
    BY <1>4 DEF Base, TypeOK, Trap, User, Ses, Reset
  <2> QED
    BY <2>1 DEF AlertKept, Answered
<1> QED
  BY <1>1, <1>2, <1>3, <1>4

LEMMA AlertRadio ==
  ASSUME Base, AlertKept, ShowsUnread \/ Burst \/ Connect \/ LinkDown
  PROVE  AlertKept'
<1>1. CASE ShowsUnread
  <2>1. /\ trap' = trap /\ ses' = ses /\ ses.next = "idle"
        /\ mem'.alert = "on" /\ user'.noticed = trap.kills /\ user'.due = user.due
    BY <1>1 DEF Base, TypeOK, Mem, User, ShowsUnread, RaiseKillAlert
  <2> QED
    BY <2>1, Numbers DEF AlertKept, Answered
<1>2. CASE Burst
  <2>1. /\ trap' = trap /\ ses'.next = "idle"
    BY <1>2 DEF Base, TypeOK, Ses, Burst
  <2>2. mem.strikes + 1 \in Nat /\ SetStrikes(mem.strikes + 1)
    BY <1>2, Numbers DEF Burst
  <2> QED
    BY <2>1, <2>2, SetStrikesAlert, Numbers DEF AlertKept, Answered
<1>3. CASE Connect
  <2>1. /\ trap' = trap /\ mem' = mem /\ user' = user
        /\ ses'.next = "displayed" /\ ses'.displayed = None
    BY <1>3 DEF Connect
  <2> QED
    BY <2>1 DEF AlertKept, Answered
<1>4. CASE LinkDown
  <2>1. /\ trap' = trap /\ mem' = mem /\ user' = user /\ ses'.next = "idle"
    BY <1>4 DEF Base, TypeOK, Ses, LinkDown, Fails
  <2> QED
    BY <2>1 DEF AlertKept, Answered
<1> QED
  BY <1>1, <1>2, <1>3, <1>4

LEMMA AlertReads ==
  ASSUME Base, AlertKept, ReadDisplayed \/ Select \/ ReadPayload \/ ReadRead
  PROVE  AlertKept'
<1>1. CASE ReadDisplayed
  <2>1. /\ trap'.kills = trap.kills /\ trap'.acked = trap.acked
        /\ ses'.next = "select" /\ ses'.displayed = trap.kills /\ vol'.displayed = trap.kills
    BY <1>1 DEF Base, TypeOK, Trap, Ses, Vol, ReadDisplayed, Goes
  <2>2. trap.kills \in Nat /\ SetStrikes(trap.kills)
    BY <1>1, Numbers DEF ReadDisplayed
  <2> QED
    BY <2>1, <2>2, SetStrikesAlert, Numbers DEF AlertKept, Answered
<1>2. CASE Select
  <2>1. /\ trap'.kills = trap.kills /\ trap'.acked = trap.acked
        /\ ses'.next = "payload" /\ ses'.displayed = ses.displayed
        /\ ses.next # "idle" /\ vol' = vol /\ mem' = mem /\ user' = user
    BY <1>2 DEF Base, TypeOK, Trap, Ses, Select, Goes, Fails
  <2> QED
    BY <2>1 DEF AlertKept, Answered
<1>3. CASE ReadPayload
  <2>1. /\ trap' = trap /\ ses'.next = "read" /\ ses'.displayed = ses.displayed
        /\ ses.next # "idle" /\ vol' = vol /\ mem'.alert = mem.alert /\ user' = user
    BY <1>3 DEF Base, TypeOK, Mem, Ses, ReadPayload, Goes
  <2> QED
    BY <2>1 DEF AlertKept, Answered
<1>4. CASE ReadRead
  <2>1. /\ trap' = trap /\ ses'.next = "ack" /\ ses'.displayed = ses.displayed
        /\ ses.next # "idle" /\ vol' = vol
    BY <1>4 DEF Base, TypeOK, Ses, ReadRead, Goes
  <2>2. CASE vol.displayed > trap.acked
    <3>1. /\ mem'.alert = "on" /\ user'.noticed = vol.displayed
          /\ user'.due = user.due /\ user'.seen = user.seen
      BY <1>4, <2>2 DEF Base, TypeOK, Mem, User, ReadRead, RaiseKillAlert
    <3>2. vol.displayed \in Nat /\ user.due <= vol.displayed
      BY <2>2, Numbers DEF AlertKept, None
    <3> QED
      BY <2>1, <3>1, <3>2, Numbers DEF AlertKept, Answered, None
  <2>3. CASE ~(vol.displayed > trap.acked)
    <3>1. /\ user' = user
          /\ mem'.alert = mem.alert \/ mem.alert = "unknown"
      BY <1>4, <2>3 DEF Base, TypeOK, Mem, ReadRead
    <3>2. Answered(user.due)'
      BY <3>1 DEF AlertKept, Answered
    <3>3. ~(ses.displayed > trap.acked)
      BY <2>1, <2>3, Numbers DEF AlertKept, None
    <3> QED
      BY <2>1, <3>1, <3>2, <3>3 DEF AlertKept
  <2> QED
    BY <2>2, <2>3
<1> QED
  BY <1>1, <1>2, <1>3, <1>4

LEMMA AlertWrites ==
  ASSUME Base, AlertKept, Acknowledge \/ Control
  PROVE  AlertKept'
<1>1. CASE Acknowledge
  <2>1. /\ trap'.kills = trap.kills /\ ses'.next = "control"
        /\ ses.next = "ack" /\ ses'.displayed = ses.displayed /\ vol' = vol /\ mem' = mem
        /\ user'.seen = user.seen /\ user'.noticed = user.noticed
    BY <1>1 DEF Base, TypeOK, Trap, Ses, User, Acknowledge, Goes, Fails
  <2>2. \/ trap'.acked = trap.acked /\ user'.due = user.due
        \/ /\ ses.displayed > 0 /\ trap'.acked = ses.displayed
           /\ user'.due = IF ses.displayed > trap.acked THEN ses.displayed ELSE user.due
    BY <1>1 DEF Base, TypeOK, Trap, User, Acknowledge
  <2>3. CASE trap'.acked = trap.acked /\ user'.due = user.due
    BY <2>1, <2>3 DEF AlertKept, Answered
  <2>4. CASE /\ ses.displayed > 0 /\ trap'.acked = ses.displayed
             /\ user'.due = IF ses.displayed > trap.acked THEN ses.displayed ELSE user.due
    <3>1. /\ ses.displayed \in Nat /\ ses.displayed = vol.displayed
          /\ trap.acked <= ses.displayed /\ ses.displayed <= trap.kills
      BY <2>1, <2>4, Numbers DEF AlertKept, None
    <3>2. Answered(user'.due)
      BY <2>1, <2>4 DEF AlertKept
    <3>3. Answered(user.due)'
      BY <2>1, <3>2 DEF Answered
    <3>4. user'.due <= trap'.acked
      BY <2>4, <3>1, Numbers DEF AlertKept
    <3> QED
      BY <2>1, <2>4, <3>1, <3>3, <3>4, Numbers DEF AlertKept
  <2> QED
    BY <2>2, <2>3, <2>4
<1>2. CASE Control
  <2>1. /\ trap' = trap /\ ses'.next = "idle" /\ mem' = mem /\ user' = user
    BY <1>2 DEF Base, TypeOK, Ses, Control, Goes
  <2> QED
    BY <2>1 DEF AlertKept, Answered
<1> QED
  BY <1>1, <1>2

LEMMA AlertGateway ==
  ASSUME Base, AlertKept, ~Spend("power"),
         \/ ClearKillAlert \/ SetCo2Replaced \/ MarkCo2ShotUsed
         \/ Sync \/ Restart \/ PowerLoss \/ UNCHANGED vars
  PROVE  AlertKept'
<1>1. CASE ClearKillAlert
  <2>1. /\ trap' = trap /\ ses' = ses /\ vol' = vol
        /\ user'.due = user.due /\ user'.noticed = user.noticed
        /\ user'.seen = IF mem.alert = "on" THEN Later(user.seen, user.noticed) ELSE user.seen
    BY <1>1 DEF Base, TypeOK, User, ClearKillAlert
  <2>2. ASSUME NEW r \in Nat, Answered(r) PROVE r <= user'.seen
    BY <2>1, <2>2, Numbers DEF Answered, Later
  <2> QED
    BY <2>1, <2>2, Numbers DEF AlertKept, Answered, None
<1>2. CASE SetCo2Replaced \/ MarkCo2ShotUsed
  <2>1. /\ trap' = trap /\ ses' = ses /\ vol' = vol /\ mem'.alert = mem.alert
        /\ user'.due = user.due /\ user'.noticed = user.noticed /\ user'.seen = user.seen
    BY <1>2 DEF Base, TypeOK, Mem, User, SetCo2Replaced, MarkCo2ShotUsed
  <2> QED
    BY <2>1 DEF AlertKept, Answered
<1>3. CASE Sync \/ UNCHANGED vars
  BY <1>3 DEF Sync, vars, AlertKept, Answered
<1>4. CASE Restart
  <2>1. /\ trap' = trap /\ mem' = mem /\ user' = user /\ ses'.next = "idle"
    BY <1>4 DEF Base, TypeOK, Ses, Restart, Fails
  <2> QED
    BY <2>1 DEF AlertKept, Answered
<1>5. CASE PowerLoss
  BY <1>5 DEF PowerLoss
<1> QED
  BY <1>1, <1>2, <1>3, <1>4, <1>5

LEMMA AlertInv ==
  ASSUME Base, AlertKept, ~Spend("unread"), ~Spend("power"), [Next]_vars
  PROVE  AlertKept'
<1>1. ~ReadFails("read", "ack")
  BY DEF ReadFails
<1>2. ASSUME NEW s \in {"displayed", "payload"}, NEW t \in {"select", "read"}, ReadFails(s, t)
      PROVE  AlertKept'
  <2>1. /\ trap' = trap /\ mem' = mem /\ user' = user /\ vol' = vol
        /\ ses'.next = t /\ ses'.displayed = ses.displayed /\ ses.next # "idle"
    BY <1>2 DEF Base, TypeOK, Ses, ReadFails, Fails
  <2> QED
    BY <2>1 DEF AlertKept, Answered
<1> QED
  BY <1>1, <1>2, AlertTrap, AlertRadio, AlertReads, AlertWrites, AlertGateway DEF Next

-----------------------------------------------------------------------------
(***************************************************************************)
(* The canister.  The trap's own counter is the only source of Strikes.    *)
(***************************************************************************)
\* set_strikes_ with the trap's counter.
LEMMA ChargedSet ==
  ASSUME Base, SetStrikes(trap.kills), trap'.kills = trap.kills
  PROVE  /\ Charged(mem) => Charged(mem)'
         /\ Charged(mem) /\ Charged(flash) => Charged(flash)'
         /\ mem'.extra = mem.extra
         /\ flash'.extra = flash.extra \/ flash'.extra = mem.extra
<1>1. CASE FirstStrikes(trap.kills)
  <2>1. /\ mem'.strikes = trap.kills /\ mem'.at = trap.kills /\ mem'.extra = mem.extra
        /\ flash' = flash /\ user' = user
    BY <1>1 DEF Base, TypeOK, Mem, FirstStrikes
  <2> QED
    BY <2>1, Numbers DEF Charged, Later
<1>2. CASE MoreStrikes(trap.kills)
  <2>1. /\ mem'.strikes = trap.kills /\ mem'.at = mem.at /\ mem'.extra = mem.extra
        /\ mem.at # None /\ trap.kills > mem.strikes
        /\ flash' = mem' /\ user'.canister = user.canister
    BY <1>2 DEF Base, TypeOK, Mem, User, MoreStrikes
  <2> QED
    BY <2>1, Numbers DEF Charged, Later
<1>3. CASE FewerStrikes(trap.kills)
  <2>1. /\ mem'.strikes = trap.kills /\ mem'.at = Lesser(mem.at, trap.kills)
        /\ mem'.extra = mem.extra /\ mem.at # None /\ trap.kills <= mem.strikes
        /\ flash' = flash /\ user' = user
    BY <1>3 DEF Base, TypeOK, Mem, FewerStrikes
  <2> QED
    BY <2>1, Numbers DEF Charged, Later, Lesser
<1> QED
  BY <1>1, <1>2, <1>3 DEF SetStrikes

\* The steps that leave Strikes, its anchor and the extra shots alone.
Aside ==
  \/ Tick \/ AppSyncs \/ ShowsUnread \/ Connect \/ LinkDown
  \/ (\E s, t \in Steps : ReadFails(s, t))
  \/ Select \/ ReadPayload \/ ReadRead \/ Acknowledge \/ Control
  \/ ClearKillAlert \/ UNCHANGED vars

LEMMA AsideSame ==
  ASSUME Base, Aside
  PROVE  /\ trap'.kills = trap.kills /\ user'.canister = user.canister /\ flash' = flash
         /\ mem'.strikes = mem.strikes /\ mem'.at = mem.at /\ mem'.extra = mem.extra
<1>1. CASE Tick \/ Connect \/ LinkDown \/ Control \/ UNCHANGED vars
           \/ (\E s, t \in Steps : ReadFails(s, t))
  BY <1>1 DEF Tick, Connect, LinkDown, Control, vars, ReadFails
<1>2. CASE AppSyncs \/ Select \/ Acknowledge
  BY <1>2 DEF Base, TypeOK, Trap, User, AppSyncs, Select, Acknowledge
<1>3. CASE ShowsUnread \/ ReadPayload \/ ClearKillAlert
  BY <1>3 DEF Base, TypeOK, Mem, User, ShowsUnread, RaiseKillAlert, ReadPayload, ClearKillAlert
<1>4. CASE ReadRead
  BY <1>4 DEF Base, TypeOK, Mem, User, RaiseKillAlert, ReadRead
<1> QED
  BY <1>1, <1>2, <1>3, <1>4 DEF Aside

\* What memory says is kept by every step that does not lose it.
LEMMA ChargedMem ==
  ASSUME Base, trap.layout = "counts", Charged(mem), [Next]_vars, ~PowerLoss
  PROVE  Charged(mem)'
<1>1. CASE Aside
  BY <1>1, AsideSame DEF Charged
<1>2. CASE Fire
  <2>1. trap'.kills = trap.kills + 1 /\ user'.canister = user.canister + 1 /\ mem' = mem
    BY <1>2 DEF Base, TypeOK, Trap, User, Fire
  <2> QED
    BY <2>1, Numbers DEF Charged, Later
<1>3. CASE Reset
  <2>1. trap'.kills = 0 /\ user'.canister = user.canister /\ mem' = mem
    BY <1>3 DEF Base, TypeOK, Trap, User, Reset
  <2> QED
    BY <2>1, Numbers DEF Charged, Later
<1>4. CASE ReadDisplayed
  <2>1. trap'.kills = trap.kills
    BY <1>4 DEF Base, TypeOK, Trap, ReadDisplayed
  <2>2. SetStrikes(trap.kills)
    BY <1>4 DEF ReadDisplayed
  <2> QED
    BY <2>1, <2>2, ChargedSet
<1>5. CASE SetCo2Replaced
  <2>1. /\ mem'.strikes = mem.strikes /\ mem'.extra = 0
        /\ mem'.at = mem.strikes \/ mem'.at = None
        /\ user'.canister = Later(trap.kills - mem.strikes, 0) /\ trap' = trap
    BY <1>5 DEF Base, TypeOK, Mem, User, SetCo2Replaced
  <2> QED
    BY <2>1, Numbers DEF Charged, Later
<1>6. CASE MarkCo2ShotUsed
  <2>1. /\ mem'.strikes = mem.strikes /\ mem'.at = mem.at /\ mem'.extra = mem.extra + 1
        /\ user'.canister = user.canister + 1 /\ trap' = trap
    BY <1>6 DEF Base, TypeOK, Mem, User, MarkCo2ShotUsed
  <2> QED
    BY <2>1, Numbers DEF Charged, Later
<1>7. CASE Sync \/ Restart
  BY <1>7 DEF Sync, Restart, Charged
<1>8. ~Burst
  BY DEF Burst
<1>9. \A s, t \in Steps : ReadFails(s, t) => Aside
  BY DEF Aside
<1>10. Next => \/ Aside \/ Fire \/ Reset \/ ReadDisplayed \/ SetCo2Replaced
               \/ MarkCo2ShotUsed \/ Sync \/ Restart
  BY <1>8, <1>9 DEF Next, Aside, Steps
<1>11. UNCHANGED vars => Aside
  BY DEF Aside
<1> QED
  BY <1>1, <1>2, <1>3, <1>4, <1>5, <1>6, <1>7, <1>10, <1>11

\* Without extra shots, what flash says is as good as what memory says.
NoExtra(m) == m.extra = 0

LEMMA ChargedFlash ==
  ASSUME Base, trap.layout = "counts", ~Spend("extra"), [Next]_vars,
         Charged(mem), Charged(flash), NoExtra(mem), NoExtra(flash)
  PROVE  Charged(mem)' /\ Charged(flash)' /\ NoExtra(mem)' /\ NoExtra(flash)'
<1>1. CASE PowerLoss
  BY <1>1 DEF PowerLoss, Charged, NoExtra
<1>2. CASE ~PowerLoss
  <2>1. Charged(mem)'
    BY <1>2, ChargedMem
  <2>2. CASE Aside
    BY <2>1, <2>2, AsideSame DEF Charged, NoExtra
  <2>3. CASE Fire
    <3>1. /\ trap'.kills = trap.kills + 1 /\ user'.canister = user.canister + 1
          /\ mem' = mem /\ flash' = flash
      BY <2>3 DEF Base, TypeOK, Trap, User, Fire
    <3> QED
      BY <2>1, <3>1, Numbers DEF Charged, Later, NoExtra
  <2>4. CASE Reset
    <3>1. /\ trap'.kills = 0 /\ user'.canister = user.canister
          /\ mem' = mem /\ flash' = flash
      BY <2>4 DEF Base, TypeOK, Trap, User, Reset
    <3> QED
      BY <2>1, <3>1, Numbers DEF Charged, Later, NoExtra
  <2>5. CASE ReadDisplayed
    <3>1. trap'.kills = trap.kills /\ SetStrikes(trap.kills)
      BY <2>5 DEF Base, TypeOK, Trap, ReadDisplayed
    <3> QED
      BY <2>1, <3>1, ChargedSet DEF NoExtra
  <2>6. CASE SetCo2Replaced
    <3>1. mem'.extra = 0 /\ flash'.extra = mem.extra
          /\ flash'.at = mem'.at /\ flash'.strikes = mem'.strikes
      BY <2>6 DEF Base, TypeOK, Mem, SetCo2Replaced
    <3> QED
      BY <2>1, <3>1 DEF Charged, NoExtra
  <2>7. ~MarkCo2ShotUsed
    BY DEF MarkCo2ShotUsed
  <2>8. CASE Sync \/ Restart
    BY <2>1, <2>8 DEF Sync, Restart, Charged, NoExtra
  <2>9. ~Burst
    BY DEF Burst
  <2>10. \A s, t \in Steps : ReadFails(s, t) => Aside
    BY DEF Aside
  <2>11. Next => \/ Aside \/ Fire \/ Reset \/ ReadDisplayed \/ SetCo2Replaced \/ Sync \/ Restart
    BY <1>2, <2>7, <2>9, <2>10 DEF Next, Aside, Steps
  <2>12. UNCHANGED vars => Aside
    BY DEF Aside
  <2> QED
    BY <2>2, <2>3, <2>4, <2>5, <2>6, <2>8, <2>11, <2>12
<1> QED
  BY <1>1, <1>2

-----------------------------------------------------------------------------
(***************************************************************************)
(* The theorems.                                                           *)
(***************************************************************************)
\* A trap keeps its firmware.
LEMMA SameLayout ==
  ASSUME Base, [Next]_vars
  PROVE  trap'.layout = trap.layout
BY DEF Base, TypeOK, Trap, Next, vars, Fire, Tick, AppSyncs, Reset, ShowsUnread, Burst, Connect,
       LinkDown, ReadFails, ReadDisplayed, Select, ReadPayload, ReadRead, Acknowledge, Control,
       ClearKillAlert, SetCo2Replaced, MarkCo2ShotUsed, Sync, Restart, PowerLoss

LEMMA StepInv == IInv /\ [Next]_vars => IInv'
<1> SUFFICES ASSUME IInv, [Next]_vars PROVE IInv'
  OBVIOUS
<1>1. Base
  BY DEF IInv, Base
<1>2. Base'
  BY <1>1, BaseInv
<1>3. "unread" \in Events /\ "power" \in Events /\ "extra" \in Events
  BY DEF Events
<1>4. ASSUME ~Spent("unread")', ~Spent("power")' PROVE AlertKept'
  BY <1>1, <1>3, <1>4, NotYet, AlertInv DEF IInv
<1>5. trap'.layout = trap.layout
  BY <1>1, SameLayout
<1>6. ASSUME trap'.layout = "counts", ~Spent("power")' PROVE Charged(mem)'
  BY <1>1, <1>3, <1>5, <1>6, NotYet, ChargedMem DEF IInv, PowerLoss
<1>7. ASSUME trap'.layout = "counts", ~Spent("extra")'
      PROVE  Charged(mem)' /\ Charged(flash)' /\ mem'.extra = 0 /\ flash'.extra = 0
  BY <1>1, <1>3, <1>5, <1>7, NotYet, ChargedFlash DEF IInv, NoExtra
<1> QED
  BY <1>2, <1>4, <1>6, <1>7 DEF IInv, Base

\* In every behaviour, whatever fails, the inductive invariant holds.
THEOREM InvariantHolds == Spec => []IInv
BY InitInv, StepInv, PTL DEF Spec

\* The counters and what is saved of them keep their types, whatever is reset,
\* lost or read in between.
THEOREM TypeCorrect == Spec => []TypeOK
<1>1. IInv => TypeOK
  BY DEF IInv
<1> QED
  BY <1>1, InvariantHolds, PTL

\* As long as the trap's acknowledged counter could be read before it was written,
\* and nothing in memory was lost, no kill the gateway acknowledged on the trap is
\* kept from the user.
THEOREM AckedIsAlertedHolds == Spec => []AckedIsAlerted
<1>1. IInv => AckedIsAlerted
  BY DEF IInv, AlertKept, Answered, AckedIsAlerted, KillsAlerted
<1> QED
  BY <1>1, InvariantHolds, PTL

\* If the trap's own counter is the only source of Strikes, a canister is charged
\* for no shot it did not give, except those fired and not read when it was put in
\* and extra shots that come back with a power loss.
THEOREM NotOverchargedHolds == Spec => []NotOvercharged
<1>1. IInv => NotOvercharged
  <2> SUFFICES ASSUME IInv, trap.layout = "counts", ~(Spent("power") /\ Spent("extra"))
               PROVE  ShotsUsed(mem) <= user.canister
    BY DEF NotOvercharged
  <2>1. Charged(mem) /\ Base
    BY DEF IInv, Base
  <2> QED
    BY <2>1, Numbers DEF Charged, ShotsUsed, Later
<1> QED
  BY <1>1, InvariantHolds, PTL

-----------------------------------------------------------------------------
(***************************************************************************)
(* What is inferred from bursts, when Kill Alert may come on, and whose    *)
(* time Last Strike is.                                                    *)
(***************************************************************************)
\* Once D20D has been read the gateway knows that it has a counter.
ByTrap ==
  ~Spent("restart") /\ ~Spent("power") =>
    (trap.read => vol.counter /\ mem.strikes <= trap.kills)

\* What was read of D20D last is not above it, unless it was reset since.
DisplayedReal == (Spent("reset") => trap.read) => vol.displayed <= trap.kills

\* No record, nor a Last Strike in memory or in flash, is from the future.
Past ==
  /\ mem.last <= clock /\ flash.last <= clock
  /\ \A r \in Records : trap.when[r] <= clock

\* In a session of which nothing failed the record selected is the newest read or
\* a later one; until it is read, Last Strike is from before any later one; and
\* then it is the time of such a record.
NewestKept ==
  /\ ses.next = "displayed" => ses.displayed = None
  /\ ses.whole /\ ses.displayed > 0 =>
       /\ ses.displayed <= trap.kills
       /\ ses.next \in {"select", "payload"} =>
            /\ vol.displayed = ses.displayed
            /\ \A r \in (ses.displayed + 1)..trap.kills : trap.when[r] >= mem.last
       /\ ses.next = "payload" => trap.cursor \in ses.displayed..trap.kills
       /\ ses.next \in {"read", "ack", "control", "idle"} =>
            \E r \in ses.displayed..trap.kills : mem.last = trap.when[r]

Strikes == ByTrap /\ DisplayedReal /\ Past /\ NewestKept

-----------------------------------------------------------------------------
(***************************************************************************)
(* Facts about single steps.                                               *)
(***************************************************************************)
LEMMA Things ==
  ASSUME Base
  PROVE  /\ trap \in Trap /\ mem \in Mem /\ flash \in Mem /\ vol \in Vol /\ ses \in Ses
         /\ user \in User /\ clock \in Nat /\ left \in [Events -> Nat]
         /\ mem.last \in Nat /\ flash.last \in Nat
         /\ \A n \in Counts : n \in Nat
<1>1. \A n \in 0..MaxTime : n \in Nat
  OBVIOUS
<1>2. clock \in 1..MaxTime /\ mem \in Mem /\ flash \in Mem
  BY DEF Base, TypeOK, Times
<1>3. mem.last \in Nat /\ flash.last \in Nat
  BY <1>1, <1>2 DEF Mem
<1> QED
  BY <1>2, <1>3, FireNat DEF Base, TypeOK, Counts

\* What set_strikes_ with n makes of Strikes, Last Strike and the alert.
LEMMA SetStrikesFacts ==
  ASSUME Base, NEW n \in Nat, SetStrikes(n)
  PROVE  /\ mem'.strikes = n
         /\ mem'.last = mem.last \/ mem'.last = Later(mem.last, clock)
         /\ flash'.last = flash.last \/ flash' = mem'
         /\ mem.alert # "on" /\ mem'.alert = "on" => n > mem.strikes
<1>1. mem \in Mem
  BY DEF Base, TypeOK
<1>2. CASE FirstStrikes(n)
  BY <1>1, <1>2 DEF FirstStrikes, Mem
<1>3. CASE MoreStrikes(n)
  BY <1>1, <1>3 DEF MoreStrikes, Mem
<1>4. CASE FewerStrikes(n)
  BY <1>1, <1>4 DEF FewerStrikes, Mem
<1> QED
  BY <1>2, <1>3, <1>4 DEF SetStrikes

\* A fire adds the newest record, of now.
LEMMA FireFacts ==
  ASSUME Base, Fire
  PROVE  /\ trap'.kills = trap.kills + 1 /\ trap'.read = trap.read
         /\ trap'.cursor = trap.cursor \/ trap'.cursor = trap'.kills
         /\ \A r \in 1..trap.kills : trap'.when[r] = trap.when[r]
         /\ trap'.when[trap'.kills] = clock
         /\ \A r \in Records : trap'.when[r] = trap.when[r] \/ trap'.when[r] = clock
<1>1. PICK c \in {trap.cursor, trap.kills + 1} :
        trap' = [trap EXCEPT !.kills = trap.kills + 1, !.cursor = c, !.when[trap.kills + 1] = clock]
  BY DEF Fire
<1>2. trap \in Trap /\ trap.kills \in Nat
  BY Things, Numbers
<1>3. trap.kills + 1 \in Records
  <2>1. left["fire"] \in Nat /\ left["fire"] > 0 /\ Budget["fire"] \in Nat
        /\ trap.kills + left["fire"] <= Budget["fire"]
    BY Things, FireNat DEF Fire, Spend, Events, Base
  <2> QED
    BY <1>2, <2>1 DEF Records
<1>4. trap'.when = [trap.when EXCEPT ![trap.kills + 1] = clock] /\ trap.when \in [Records -> Times]
  BY <1>1, <1>2 DEF Trap
<1>5. \A r \in 1..trap.kills : r # trap.kills + 1
  BY <1>2
<1>6. /\ trap'.kills = trap.kills + 1 /\ trap'.cursor = c /\ trap'.read = trap.read
  BY <1>1, <1>2 DEF Trap
<1>7. \A r \in 1..trap.kills : r \in Records
  BY <1>2, <1>3, FireNat DEF Records
<1> QED
  BY <1>3, <1>4, <1>5, <1>6, <1>7

-----------------------------------------------------------------------------
(***************************************************************************)
(* The parts of the invariant.                                             *)
(***************************************************************************)
LEMMA InitStrikes == Init => Strikes
<1> SUFFICES ASSUME Init PROVE Strikes
  OBVIOUS
<1>1. trap.read = FALSE /\ trap.kills \in Nat /\ vol.displayed = None
      /\ ses.displayed = None /\ ses.whole = FALSE /\ mem.last = 0 /\ flash.last = 0 /\ clock = 1
      /\ \A r \in Records : trap.when[r] = 1
  BY FireNat DEF Init
<1> QED
  BY <1>1 DEF Strikes, ByTrap, DisplayedReal, Past, NewestKept, None

LEMMA ByTrapStep ==
  ASSUME Base, [Next]_vars, ByTrap
  PROVE  ByTrap'
<1> SUFFICES ASSUME ~Spent("restart")', ~Spent("power")', trap'.read
             PROVE  vol'.counter /\ mem'.strikes <= trap'.kills
  BY DEF ByTrap
<1>1. ~Restart /\ ~PowerLoss /\ (trap.read => vol.counter /\ mem.strikes <= trap.kills)
  <2>1. "restart" \in Events /\ "power" \in Events
    BY DEF Events
  <2> QED
    BY <2>1, NotYet DEF ByTrap, Restart, PowerLoss
<1>2. trap \in Trap /\ mem \in Mem /\ trap.kills \in Nat /\ mem.strikes \in Nat
  BY Things, Numbers
<1>3. CASE Fire
  BY <1>1, <1>2, <1>3, FireFacts DEF Fire
<1>4. CASE Burst
  BY <1>1, <1>4 DEF Burst
<1>5. CASE Reset
  BY <1>2, <1>5 DEF Reset, Trap
<1>6. CASE ReadDisplayed
  <2>1. mem'.strikes = trap.kills
    BY <1>2, <1>6, SetStrikesFacts DEF ReadDisplayed
  <2> QED
    BY <1>2, <1>6, <2>1 DEF ReadDisplayed, Trap
<1>7. CASE AppSyncs \/ Select \/ Acknowledge
  <2>1. trap'.read = trap.read /\ trap'.kills = trap.kills /\ mem' = mem /\ vol' = vol
    BY <1>2, <1>7 DEF AppSyncs, Select, Acknowledge, Trap
  <2> QED
    BY <1>1, <2>1
<1>8. CASE ShowsUnread \/ ReadPayload \/ ReadRead \/ ClearKillAlert \/ SetCo2Replaced \/ MarkCo2ShotUsed
  <2>1. mem'.strikes = mem.strikes /\ trap' = trap /\ vol' = vol
    BY <1>2, <1>8 DEF ShowsUnread, RaiseKillAlert, ReadPayload, ReadRead, ClearKillAlert,
       SetCo2Replaced, MarkCo2ShotUsed, Mem
  <2> QED
    BY <1>1, <2>1
<1>9. CASE UNCHANGED <<trap, mem, vol>>
  BY <1>1, <1>9
<1> QED
  BY <1>1, <1>3, <1>4, <1>5, <1>6, <1>7, <1>8, <1>9 DEF Next, vars, Tick, Connect, LinkDown,
     ReadFails, Control, Sync

LEMMA DisplayedStep ==
  ASSUME Base, [Next]_vars, DisplayedReal
  PROVE  DisplayedReal'
<1> SUFFICES ASSUME Spent("reset")' => trap'.read PROVE vol'.displayed <= trap'.kills
  BY DEF DisplayedReal
<1>1. trap \in Trap /\ trap.kills \in Nat /\ vol.displayed \in Nat \cup {None}
  BY Things, Numbers
<1>2. ASSUME ~Reset, trap'.read = trap.read PROVE vol.displayed <= trap.kills
  <2>1. Spent("reset") => Spent("reset")'
    BY NotYet DEF Events
  <2> QED
    BY <1>2, <2>1 DEF DisplayedReal
<1>3. CASE Reset
  <2>1. trap'.read = FALSE
    BY <1>1, <1>3 DEF Reset, Trap
  <2>2. Spent("reset")'
    <3>1. "reset" \in Events
      BY DEF Events
    <3> QED
      BY <1>3, <3>1, NotYet DEF Reset
  <2> QED
    BY <2>1, <2>2
<1>4. CASE Fire
  <2>1. ~Reset
    <3>1. trap'.kills # 0
      BY <1>1, <1>4, FireFacts
    <3>2. Reset => trap'.kills = 0
      BY <1>1 DEF Reset, Trap
    <3> QED
      BY <3>1, <3>2
  <2> QED
    BY <1>1, <1>2, <1>4, <2>1, FireFacts DEF Fire, None
<1>5. CASE ReadDisplayed
  BY <1>1, <1>5 DEF ReadDisplayed, Trap
<1>6. CASE Restart \/ PowerLoss
  BY <1>1, <1>6 DEF Restart, PowerLoss, Booted, None
<1>7. CASE AppSyncs \/ Select \/ Acknowledge
  <2>1. trap'.read = trap.read /\ trap'.kills = trap.kills /\ vol' = vol
    BY <1>1, <1>7 DEF AppSyncs, Select, Acknowledge, Trap
  <2> QED
    BY <1>2, <1>3, <2>1
<1>8. CASE UNCHANGED <<trap, vol>>
  BY <1>2, <1>3, <1>8
<1> QED
  BY <1>3, <1>4, <1>5, <1>6, <1>7, <1>8 DEF Next, vars, Tick, Connect, LinkDown, ShowsUnread, Burst,
     ReadFails, ReadPayload, ReadRead, Control, ClearKillAlert, SetCo2Replaced, MarkCo2ShotUsed, Sync

LEMMA PastStep ==
  ASSUME Base, [Next]_vars, Past
  PROVE  Past'
<1>1. /\ trap \in Trap /\ mem \in Mem /\ flash \in Mem /\ clock \in Nat
      /\ mem.last \in Nat /\ flash.last \in Nat
  BY Things
<1>2. /\ mem.last <= clock /\ flash.last <= clock
      /\ \A r \in Records : trap.when[r] <= clock
  BY DEF Past
<1>3. CASE Fire
  BY <1>1, <1>2, <1>3, FireFacts DEF Fire, Past
<1>4. CASE Tick
  <2>1. \A r \in Records : trap.when[r] \in Nat
    BY <1>1 DEF Trap, Times
  <2> QED
    BY <1>1, <1>2, <1>4, <2>1 DEF Tick, Past
<1>5. CASE AppSyncs \/ Reset \/ Select \/ Acknowledge
  <2>1. trap'.when = trap.when /\ UNCHANGED <<mem, flash, clock>>
    BY <1>1, <1>5 DEF AppSyncs, Reset, Select, Acknowledge, Trap
  <2> QED
    BY <1>2, <2>1 DEF Past
<1>6. ASSUME NEW n \in Nat, SetStrikes(n), clock' = clock, trap'.when = trap.when PROVE Past'
  <2>1. mem'.last <= clock
    BY <1>1, <1>2, <1>6, SetStrikesFacts DEF Later
  <2> QED
    BY <1>2, <1>6, <2>1, SetStrikesFacts DEF Past
<1>7. CASE Burst
  <2>1. mem.strikes + 1 \in Nat
    BY Numbers
  <2> QED
    BY <1>6, <1>7, <2>1 DEF Burst
<1>8. CASE ReadDisplayed
  <2>1. trap.kills \in Nat /\ trap'.when = trap.when
    BY <1>1, <1>8, Numbers DEF ReadDisplayed, Trap
  <2> QED
    BY <1>6, <1>8, <2>1 DEF ReadDisplayed
<1>9. CASE ReadPayload
  <2>1. trap.cursor # 0 => trap.cursor \in Records
    BY <1>1, FireNat DEF Trap, Counts, Records
  <2>2. mem'.last <= clock
    BY <1>1, <1>2, <1>9, <2>1 DEF ReadPayload, Mem, Later
  <2> QED
    BY <1>2, <1>9, <2>2 DEF ReadPayload, Past
<1>10. CASE ShowsUnread \/ ReadRead \/ ClearKillAlert \/ MarkCo2ShotUsed
  <2>1. mem'.last = mem.last /\ UNCHANGED <<trap, flash, clock>>
    BY <1>1, <1>10 DEF ShowsUnread, RaiseKillAlert, ReadRead, ClearKillAlert, MarkCo2ShotUsed, Mem
  <2> QED
    BY <1>2, <2>1 DEF Past
<1>11. CASE SetCo2Replaced
  <2>1. mem'.last = mem.last /\ flash'.last = mem.last /\ UNCHANGED <<trap, clock>>
    BY <1>1, <1>11 DEF SetCo2Replaced, Mem
  <2> QED
    BY <1>2, <2>1 DEF Past
<1>12. CASE Sync \/ Restart \/ PowerLoss
  BY <1>2, <1>12 DEF Sync, Restart, PowerLoss, Past
<1>13. CASE UNCHANGED <<trap, mem, flash, clock>>
  BY <1>2, <1>13 DEF Past
<1> QED
  BY <1>3, <1>4, <1>5, <1>7, <1>8, <1>9, <1>10, <1>11, <1>12, <1>13 DEF Next, vars, Connect,
     LinkDown, ReadFails, Control

\* A step that leaves the session, Last Strike and the trap's records alone.
LEMMA NewestSame ==
  ASSUME NewestKept, UNCHANGED ses, mem'.last = mem.last, trap'.kills = trap.kills,
         trap'.when = trap.when, trap'.cursor = trap.cursor \/ ses.next = "idle", vol' = vol
  PROVE  NewestKept'
BY DEF NewestKept

LEMMA NewestStep ==
  ASSUME Base, [Next]_vars, Past, NewestKept
  PROVE  NewestKept'
<1>1. /\ trap \in Trap /\ mem \in Mem /\ ses \in Ses /\ clock \in Nat /\ mem.last \in Nat
      /\ trap.kills \in Nat /\ ses.displayed \in Nat \cup {None}
  BY Things, Numbers
<1>2. CASE Fire
  <2>1. UNCHANGED <<ses, mem, vol>>
    BY <1>2 DEF Fire
  <2> SUFFICES ASSUME ses.whole, ses.displayed > 0 PROVE NewestKept'
    BY <2>1 DEF NewestKept
  <2>2. ses.displayed <= trap'.kills /\ ses.displayed <= trap.kills
    <3>1. ses.displayed <= trap.kills /\ ses.displayed \in Nat
      BY <1>1 DEF NewestKept, None
    <3> QED
      BY <1>1, <1>2, <3>1, FireFacts
  <2>3. ASSUME ses.next \in {"select", "payload"},
               NEW r \in (ses.displayed + 1)..trap'.kills
        PROVE  trap'.when[r] >= mem.last
    <3>1. CASE r = trap'.kills
      BY <1>1, <1>2, <3>1, FireFacts DEF Past
    <3>2. CASE r # trap'.kills
      <4>1. r \in (ses.displayed + 1)..trap.kills /\ r \in 1..trap.kills
        BY <1>1, <1>2, <2>2, <2>3, <3>2, FireFacts, SMT DEF None
      <4> QED
        BY <1>2, <2>3, <4>1, FireFacts DEF NewestKept
    <3> QED
      BY <3>1, <3>2
  <2>4. ses.next = "payload" => trap'.cursor \in ses.displayed..trap'.kills
    BY <1>1, <1>2, <2>2, FireFacts DEF NewestKept, None
  <2>5. ASSUME ses.next \in {"read", "ack", "control", "idle"}
        PROVE  \E r \in ses.displayed..trap'.kills : mem.last = trap'.when[r]
    <3>1. PICK r \in ses.displayed..trap.kills : mem.last = trap.when[r]
      BY <2>5 DEF NewestKept
    <3>2. r \in 1..trap.kills /\ r \in ses.displayed..trap'.kills
      BY <1>1, <1>2, FireFacts DEF None
    <3> QED
      BY <1>2, <3>1, <3>2, FireFacts
  <2> QED
    BY <2>1, <2>2, <2>3, <2>4, <2>5 DEF NewestKept
<1>3. CASE Reset \/ Burst
  <2>1. ~ses'.whole /\ ses'.next = "idle"
    BY <1>1, <1>3 DEF Reset, Burst, Ses
  <2> QED
    BY <2>1 DEF NewestKept
<1>4. CASE LinkDown \/ PowerLoss
  <2>1. ~ses'.whole /\ ses'.next = "idle"
    BY <1>1, <1>4 DEF LinkDown, PowerLoss, Fails, Ses
  <2> QED
    BY <2>1 DEF NewestKept
<1>5. CASE Restart
  <2>1. CASE ses.next = "idle"
    BY <1>5, <2>1 DEF Restart, NewestKept
  <2>2. CASE ses.next # "idle"
    <3>1. ~ses'.whole /\ ses'.next = "idle"
      BY <1>1, <1>5, <2>2 DEF Restart, Fails, Ses
    <3> QED
      BY <3>1 DEF NewestKept
  <2> QED
    BY <2>1, <2>2
<1>6. ASSUME NEW step \in Steps, NEW then \in Steps \ {"displayed"}, ReadFails(step, then)
      PROVE  NewestKept'
  <2>1. ~ses'.whole /\ ses'.next = then
    BY <1>1, <1>6 DEF ReadFails, Fails, Ses
  <2> QED
    BY <2>1 DEF NewestKept
<1>7. CASE Connect
  BY <1>7 DEF Connect, NewestKept, None
<1>8. CASE ReadDisplayed
  <2>1. /\ ses'.next = "select" /\ ses'.displayed = trap.kills /\ vol'.displayed = trap.kills
        /\ trap'.kills = trap.kills
    BY <1>1, <1>8 DEF ReadDisplayed, Goes, Ses, Trap
  <2>2. (ses'.displayed + 1)..trap'.kills = {}
    BY <1>1, <2>1
  <2> QED
    BY <1>1, <2>1, <2>2 DEF NewestKept
<1>9. CASE Select
  <2>1. /\ ses'.next = "payload" /\ ses'.displayed = ses.displayed /\ ses.next = "select"
        /\ UNCHANGED <<mem, vol>> /\ trap'.kills = trap.kills /\ trap'.when = trap.when
    BY <1>1, <1>9 DEF Select, Goes, Fails, Ses, Trap
  <2>2. ASSUME ses'.whole, ses.displayed > 0
        PROVE  ses.whole /\ trap'.cursor = ses.displayed /\ ses.displayed \in Nat
    <3>1. ses' # Fails("payload")
      BY <1>1, <2>2 DEF Fails, Ses
    <3>2. ses' = Goes("payload") /\ trap' = [trap EXCEPT !.cursor = ses.displayed]
      BY <1>1, <1>9, <2>2, <3>1 DEF Select, None
    <3> QED
      BY <1>1, <2>2, <3>2 DEF Goes, Ses, Trap, None
  <2>3. ASSUME ses'.whole, ses.displayed > 0
        PROVE  /\ ses.displayed <= trap.kills /\ vol.displayed = ses.displayed
               /\ \A r \in (ses.displayed + 1)..trap.kills : trap.when[r] >= mem.last
    BY <2>1, <2>2, <2>3 DEF NewestKept
  <2>4. ASSUME ses'.whole, ses.displayed > 0
        PROVE  trap'.cursor \in ses.displayed..trap.kills
    BY <1>1, <2>2, <2>3, <2>4
  <2> QED
    BY <2>1, <2>3, <2>4 DEF NewestKept
<1>10. CASE ReadPayload
  <2>1. /\ ses'.next = "read" /\ ses'.displayed = ses.displayed /\ ses'.whole = ses.whole
        /\ ses.next = "payload" /\ UNCHANGED <<trap, vol>>
    BY <1>1, <1>10 DEF ReadPayload, Goes, Ses
  <2>2. ASSUME ses.whole, ses.displayed > 0
        PROVE  \E r \in ses.displayed..trap.kills : mem'.last = trap.when[r]
    <3>1. /\ trap.cursor \in ses.displayed..trap.kills /\ vol.displayed = ses.displayed
          /\ \A r \in (ses.displayed + 1)..trap.kills : trap.when[r] >= mem.last
      BY <2>1, <2>2 DEF NewestKept
    <3>2. mem'.last = IF trap.cursor = ses.displayed THEN trap.when[trap.cursor]
                      ELSE Later(mem.last, trap.when[trap.cursor])
      BY <1>1, <1>10, <2>2, <3>1 DEF ReadPayload, Mem, None
    <3>3. trap.cursor # ses.displayed => trap.cursor \in (ses.displayed + 1)..trap.kills
      BY <1>1, <2>2, <3>1 DEF None
    <3>4. trap.when[trap.cursor] \in Nat
      <4>1. trap.cursor \in Records
        BY <1>1, <2>2, <3>1, FireNat DEF Trap, Counts, Records, None
      <4> QED
        BY <1>1, <4>1 DEF Trap, Times
    <3>5. mem'.last = trap.when[trap.cursor]
      BY <1>1, <3>1, <3>2, <3>3, <3>4 DEF Later
    <3> QED
      BY <3>1, <3>5
  <2> QED
    BY <2>1, <2>2 DEF NewestKept
<1>11. CASE ReadRead \/ Acknowledge \/ Control
  <2>1. /\ ses.next \in {"read", "ack", "control"} /\ ses'.next \in {"ack", "control", "idle"}
        /\ ses'.displayed = ses.displayed /\ (ses'.whole => ses.whole)
    BY <1>1, <1>11 DEF ReadRead, Acknowledge, Control, Goes, Fails, Ses
  <2>2. mem'.last = mem.last /\ trap'.kills = trap.kills /\ trap'.when = trap.when
    BY <1>1, <1>11 DEF ReadRead, RaiseKillAlert, Acknowledge, Control, Mem, Trap
  <2> QED
    BY <2>1, <2>2 DEF NewestKept
<1>12. CASE AppSyncs
  <2>1. trap'.kills = trap.kills /\ trap'.when = trap.when /\ UNCHANGED <<ses, mem, vol>>
        /\ ses.next = "idle"
    BY <1>1, <1>12 DEF AppSyncs, Trap
  <2> QED
    BY <2>1, NewestSame
<1>13. CASE ShowsUnread \/ ClearKillAlert \/ SetCo2Replaced \/ MarkCo2ShotUsed
  <2>1. mem'.last = mem.last /\ UNCHANGED <<trap, vol, ses>>
    BY <1>1, <1>13 DEF ShowsUnread, RaiseKillAlert, ClearKillAlert, SetCo2Replaced,
       MarkCo2ShotUsed, Mem
  <2> QED
    BY <2>1, NewestSame
<1>14. CASE UNCHANGED <<trap, mem, vol, ses>>
  BY <1>14, NewestSame
<1> QED
  BY <1>2, <1>3, <1>4, <1>5, <1>6, <1>7, <1>8, <1>9, <1>10, <1>11, <1>12, <1>13, <1>14 DEF Next,
     vars, Tick, Sync, Steps

-----------------------------------------------------------------------------
(***************************************************************************)
(* The theorems.                                                           *)
(***************************************************************************)
\* What the properties need of the trap's records, the counts and the times read
\* holds in every reachable state.
THEOREM StrikesHold == Spec => [](Base /\ Strikes)
<1>1. Init => Base /\ Strikes
  BY InitInv, InitStrikes DEF IInv, Base
<1>2. Base /\ Strikes /\ [Next]_vars => (Base /\ Strikes)'
  BY BaseInv, ByTrapStep, DisplayedStep, PastStep, NewestStep DEF Strikes
<1> QED
  BY <1>1, <1>2, PTL DEF Spec

\* Unless the gateway was restarted, Strikes is not above the trap's own counter
\* once that has been read: no burst is counted on top of it.
THEOREM InferredUntilReadHolds == Spec => []InferredUntilRead
<1>1. Strikes => InferredUntilRead
  BY DEF Strikes, ByTrap, InferredUntilRead
<1> QED
  BY <1>1, StrikesHold, PTL

\* After a session without a failure, Last Strike is the time of the newest
\* record read, or of one made during the session.
THEOREM LastStrikeRightHolds == Spec => []LastStrikeRight
<1>1. Strikes => LastStrikeRight
  BY DEF Strikes, NewestKept, LastStrikeRight
<1> QED
  BY <1>1, StrikesHold, PTL

\* One step: the alert comes on only for a kill.
LEMMA AlarmStep ==
  ASSUME Base, Strikes, [Next]_vars,
         trap.layout = "counts", left'["power"] = left["power"], Spent("reset") => trap.read,
         mem.alert # "on", mem'.alert = "on"
  PROVE  trap.kills > mem.strikes \/ trap.kills > trap.acked
<1>1. /\ mem \in Mem /\ trap.kills \in Nat /\ trap.acked \in Nat /\ mem.strikes \in Nat
      /\ vol.displayed \in Nat \cup {None}
  BY Things, Numbers
<1>2. vol.displayed <= trap.kills
  BY DEF Strikes, DisplayedReal
<1>3. CASE ShowsUnread
  BY <1>3 DEF ShowsUnread
<1>4. CASE ReadDisplayed
  BY <1>1, <1>4, SetStrikesFacts DEF ReadDisplayed
<1>5. CASE ReadRead
  <2>1. vol.displayed > trap.acked
    BY <1>1, <1>5 DEF ReadRead, Mem
  <2> QED
    BY <1>1, <1>2, <2>1 DEF None
<1>6. CASE PowerLoss
  <2>1. "power" \in Events
    BY DEF Events
  <2>2. left'["power"] = left["power"] - 1 /\ left["power"] \in Nat
    BY <1>6, <2>1, SpendLess, Things DEF PowerLoss
  <2> QED
    BY <2>2
<1>7. CASE ReadPayload \/ ClearKillAlert \/ SetCo2Replaced \/ MarkCo2ShotUsed
  <2>1. mem'.alert = mem.alert \/ mem'.alert = "off"
    BY <1>1, <1>7 DEF ReadPayload, ClearKillAlert, SetCo2Replaced, MarkCo2ShotUsed, Mem
  <2> QED
    BY <2>1
<1> QED
  BY <1>3, <1>4, <1>5, <1>6, <1>7 DEF Next, vars, Fire, Tick, AppSyncs, Reset, Burst, Connect,
     LinkDown, ReadFails, Select, Acknowledge, Control, Sync, Restart

\* Kill Alert comes on only for a kill not counted yet or not acknowledged on the
\* trap: what the user cleared after that stays cleared.
THEOREM NoFalseAlarmHolds == Spec => NoFalseAlarm
<1>1. Base /\ Strikes /\ [Next]_vars
      => [/\ trap.layout = "counts" /\ left'["power"] = left["power"]
          /\ (Spent("reset") => trap.read)
          /\ mem.alert # "on" /\ mem'.alert = "on"
          => trap.kills > mem.strikes \/ trap.kills > trap.acked]_vars
  BY AlarmStep
<1> QED
  BY <1>1, StrikesHold, PTL DEF Spec, NoFalseAlarm
=============================================================================
