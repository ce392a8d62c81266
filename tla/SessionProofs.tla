---------------------------- MODULE SessionProofs ----------------------------
(***************************************************************************)
(* Proofs about Session, for any number of slots and traps: whose session  *)
(* it is and when a job is done, then what is known of a command sent.     *)
(***************************************************************************)
EXTENDS Session, SequenceTheorems, TLAPS

-----------------------------------------------------------------------------
(***************************************************************************)
(* Scripts are sequences of operations; a Mouse Trap's is never empty.      *)
(***************************************************************************)
LEMMA ConcatOps ==
  ASSUME NEW s \in Seq(Op), NEW t \in Seq(Op)
  PROVE  s \o t \in Seq(Op) /\ Len(s \o t) = Len(s) + Len(t)
BY ConcatProperties

LEMMA RequestOps ==
  ASSUME NEW type \in FrameTypes
  PROVE  Request(type) \in Op /\ OptionalRequest(type) \in Op
BY DEF Request, OptionalRequest, Plain, Op, OpKinds, Requests

LEMMA FixedOps ==
  NotifyOn \in Op /\ Settle \in Op /\ Logs \in Op /\ Command \in Op /\ CloseSession \in Op
BY DEF NotifyOn, Settle, Logs, Command, CloseSession, Request, Write, Plain, Op, OpKinds,
       Requests, FrameTypes, Chars

LEMMA CharOps ==
  ASSUME NEW char \in Chars, NEW from \in Cursors
  PROVE  Read(char) \in Op /\ Write(char) \in Op /\ Echo(char, from) \in Op
         /\ [Echo(char, from) EXCEPT !.optional = TRUE] \in Op
BY DEF Read, Write, Echo, Plain, Op, OpKinds, Requests

LEMMA PollOps ==
  ASSUME NEW unanswered, NEW historyFirmware
  PROVE  C20Poll(unanswered, historyFirmware) \in Seq(Op)
<1> DEFINE ask(type) == If(type \notin unanswered, <<OptionalRequest(type)>>)
           time    == If(WriteTime /\ ClockValid, <<Request("SET_TIME")>>)
           middle  == <<Request("FIRMWARE"), Request("DEVICE_STATE"), Request("BATTERY_LEVEL")>>
           history == If(historyFirmware, ask("KILL_HISTORY"))
           logs    == If(ClockValid, <<Logs>>)
<1>1. ASSUME NEW type \in FrameTypes PROVE ask(type) \in Seq(Op)
  BY RequestOps DEF If
<1>2. /\ ask("BOOTLOADER_VERSION") \in Seq(Op) /\ ask("INPUT_STATES") \in Seq(Op)
      /\ ask("KILL_HISTORY") \in Seq(Op)
  BY <1>1 DEF FrameTypes
<1>3. time \in Seq(Op)
  BY RequestOps DEF If, FrameTypes
<1>4. middle \in Seq(Op)
  <2>1. Request("FIRMWARE") \in Op /\ Request("DEVICE_STATE") \in Op /\ Request("BATTERY_LEVEL") \in Op
    BY RequestOps DEF FrameTypes
  <2> QED
    BY <2>1
<1>5. history \in Seq(Op)
  BY <1>2 DEF If
<1>6. logs \in Seq(Op)
  BY FixedOps DEF If
<1>7. C20Poll(unanswered, historyFirmware) =
        time \o ask("BOOTLOADER_VERSION") \o middle \o ask("INPUT_STATES") \o history \o logs
  BY DEF C20Poll
<1> HIDE DEF ask, time, middle, history, logs
<1> QED
  BY <1>2, <1>3, <1>4, <1>5, <1>6, <1>7, ConcatOps

LEMMA C20Ops ==
  ASSUME NEW job, NEW unanswered, NEW historyFirmware
  PROVE  /\ C20Script(job, unanswered, historyFirmware) \in Seq(Op)
         /\ Len(C20Script(job, unanswered, historyFirmware)) >= 1
<1> DEFINE wake == If("SET_COMMAND" \notin unanswered, <<OptionalRequest("SET_COMMAND")>>)
           act  == If(job \in Commands, <<Command, Settle>>)
           poll == C20Poll(unanswered, historyFirmware)
<1>1. wake \in Seq(Op)
  BY RequestOps DEF If, FrameTypes
<1>2. act \in Seq(Op)
  BY FixedOps DEF If
<1>3. poll \in Seq(Op)
  BY PollOps
<1>4. <<NotifyOn>> \in Seq(Op) /\ Len(<<NotifyOn>>) = 1
  BY FixedOps
<1>5. C20Script(job, unanswered, historyFirmware) = <<NotifyOn>> \o wake \o act \o poll
  BY DEF C20Script
<1> HIDE DEF wake, act, poll
<1>6. /\ <<NotifyOn>> \o wake \in Seq(Op) /\ Len(<<NotifyOn>> \o wake) >= 1
  BY <1>1, <1>4, ConcatOps, LenProperties
<1>7. /\ <<NotifyOn>> \o wake \o act \in Seq(Op) /\ Len(<<NotifyOn>> \o wake \o act) >= 1
  BY <1>2, <1>6, ConcatOps, LenProperties
<1> QED
  BY <1>3, <1>5, <1>7, ConcatOps, LenProperties

LEMMA A24Ops == A24Script \in Seq(Op)
<1>1. If(WriteTime /\ ClockValid, <<Write("TIME")>>) \in Seq(Op)
  BY CharOps DEF If, Chars, Cursors
<1>2. <<Read("SERIAL"), Read("FIRMWARE_CHAR"), Read("D20D"), Echo("D20D", "D20D"),
       Read("D30D"), Read("D60D"), Read("VOLTAGE"), Read("RESISTANCE"),
       Read("DEVICE_STATE_CHAR"), Read("E771"),
       [Echo("E771", "E771") EXCEPT !.optional = TRUE],
       Read("E773"), Read("E772"), Echo("D60D", "D20D"), CloseSession>> \in Seq(Op)
  BY CharOps, FixedOps DEF Chars, Cursors
<1> QED
  BY <1>1, <1>2, ConcatOps DEF A24Script

LEMMA BuildOpsType ==
  ASSUME NEW model, NEW job, NEW unanswered, NEW historyFirmware
  PROVE  /\ BuildOps(model, job, unanswered, historyFirmware) \in Seq(Op)
         /\ model = "C20" => Len(BuildOps(model, job, unanswered, historyFirmware)) >= 1
BY C20Ops, A24Ops DEF BuildOps

-----------------------------------------------------------------------------
(***************************************************************************)
(* Every method of a trap keeps its type and counts tries right.           *)
(***************************************************************************)
LEMMA FreshType ==
  ASSUME NEW d \in Devices \cup {NoDev}
  PROVE  /\ Fresh(d) \in TrapState /\ SlotInv(Fresh(d)) /\ Fresh(d).active = "NONE"
         /\ BoundTo(d) \in TrapState /\ SlotInv(BoundTo(d)) /\ BoundTo(d).active = "NONE"
<1>1. 0 \in 0..MaxFailuresTracked
  BY TrapAssumption
<1>2. Fresh(d) \in TrapState
  BY <1>1 DEF Fresh, TrapState, Jobs
<1>3. BoundTo(d) \in TrapState
  BY <1>2 DEF BoundTo, TrapState
<1>4. /\ Fresh(d).attempts = 0 /\ Fresh(d).active = "NONE"
      /\ BoundTo(d).attempts = 0 /\ BoundTo(d).active = "NONE"
  BY DEF Fresh, BoundTo
<1> QED
  BY <1>2, <1>3, <1>4 DEF SlotInv

LEMMA UnboundType ==
  Unbound \in TrapState /\ SlotInv(Unbound) /\ Unbound.active = "NONE"
BY FreshType DEF Unbound

LEMMA RequestedType ==
  ASSUME NEW r \in TrapState, NEW job \in Jobs, SlotInv(r)
  PROVE  /\ Requested(r, job) \in TrapState /\ SlotInv(Requested(r, job))
         /\ Requested(r, job).active = r.active /\ Requested(r, job).bound = r.bound
<1>1. Requested(r, job) \in TrapState
  BY DEF Requested, TrapState
<1>2. /\ Requested(r, job).attempts = 0 /\ Requested(r, job).active = r.active
      /\ Requested(r, job).bound = r.bound
  BY DEF Requested, TrapState
<1> QED
  BY <1>1, <1>2 DEF SlotInv

LEMMA BackoffClearedType ==
  ASSUME NEW r \in TrapState, SlotInv(r)
  PROVE  /\ BackoffCleared(r) \in TrapState /\ SlotInv(BackoffCleared(r))
         /\ BackoffCleared(r).active = r.active /\ BackoffCleared(r).bound = r.bound
<1>1. 0 \in 0..MaxFailuresTracked
  BY TrapAssumption
<1>2. BackoffCleared(r) \in TrapState
  BY <1>1 DEF BackoffCleared, TrapState
<1>3. /\ BackoffCleared(r).attempts = 0 /\ BackoffCleared(r).active = r.active
      /\ BackoffCleared(r).bound = r.bound
  BY DEF BackoffCleared, TrapState
<1> QED
  BY <1>2, <1>3 DEF SlotInv

LEMMA JobStartedType ==
  ASSUME NEW r \in TrapState, SlotInv(r), r.active = "NONE", r.bound # NoDev
  PROVE  /\ NextJob(r) \in Jobs /\ NextJob(r) # "NONE"
         /\ JobStarted(r, NextJob(r)) \in TrapState
         /\ SlotInv(JobStarted(r, NextJob(r)))
         /\ JobStarted(r, NextJob(r)).active = NextJob(r)
<1> DEFINE n == IF r.pending # "NONE" THEN r.attempts + 1 ELSE r.attempts
           t == JobStarted(r, NextJob(r))
<1>1. NextJob(r) \in Jobs /\ NextJob(r) # "NONE"
  BY DEF NextJob, TrapState, Jobs
<1>2. n \in Nat /\ r.acked \ {"session"} \in SUBSET {"session", "request", "confirmed"}
  BY DEF TrapState
<1>3. t \in TrapState
  BY <1>1, <1>2 DEF JobStarted, TrapState
<1>4. t.attempts = n /\ t.active = NextJob(r) /\ t.pending = r.pending /\ t.failures = r.failures
      /\ t.bound = r.bound
  BY DEF JobStarted, TrapState
<1>5. r.attempts \in Nat /\ r.failures \in Nat
  BY TrapAssumption DEF TrapState
<1>6. r.pending # "NONE" => NextJob(r) = r.pending
  BY DEF NextJob
<1>7. r.attempts > 0 => r.pending # "NONE" /\ r.attempts <= r.failures /\ r.failures < 3
  BY DEF SlotInv, GiveUpAfter
<1>8. n > 0 => r.pending # "NONE" /\ n = r.attempts + 1 /\ n <= r.failures + 1 /\ n <= 3
  BY <1>5, <1>7
<1> HIDE DEF t, n
<1>9. SlotInv(t)
  BY <1>1, <1>4, <1>6, <1>8 DEF SlotInv, GiveUpAfter
<1> QED
  BY <1>1, <1>3, <1>4, <1>9 DEF t

LEMMA CommandDeliveredType ==
  ASSUME NEW r \in TrapState, NEW job \in Jobs, SlotInv(r)
  PROVE  /\ CommandDelivered(r, job) \in TrapState
         /\ SlotInv(CommandDelivered(r, job))
         /\ CommandDelivered(r, job).active = r.active
<1> DEFINE t == CommandDelivered(r, job)
<1>1. t \in TrapState
  BY DEF CommandDelivered, TrapState, Jobs
<1>2. /\ t.active = r.active /\ t.failures = r.failures /\ t.bound = r.bound
      /\ t.attempts = (IF r.pending = job THEN 0 ELSE r.attempts)
      /\ t.pending = (IF r.pending = job THEN "NONE" ELSE r.pending)
  BY DEF CommandDelivered, TrapState
<1> HIDE DEF t
<1>3. SlotInv(t)
  BY <1>2 DEF SlotInv
<1> QED
  BY <1>1, <1>2, <1>3 DEF t

LEMMA OptionalUnansweredType ==
  ASSUME NEW r \in TrapState, NEW type \in FrameTypes, SlotInv(r)
  PROVE  /\ OptionalUnanswered(r, type) \in TrapState
         /\ SlotInv(OptionalUnanswered(r, type))
         /\ OptionalUnanswered(r, type).active = r.active
BY DEF OptionalUnanswered, TrapState, SlotInv

\* A session that ended well was the slot's active job.
LEMMA SucceededType ==
  ASSUME NEW r \in TrapState, NEW job \in Jobs, SlotInv(r), r.active = job, job # "NONE"
  PROVE  /\ Succeeded(r, job) \in TrapState
         /\ SlotInv(Succeeded(r, job))
         /\ Succeeded(r, job).active = "NONE"
<1> DEFINE left == IF r.pending = job THEN "NONE" ELSE r.pending
           done == [r EXCEPT !.active = "NONE", !.failures = 0, !.backoff = FALSE, !.due = FALSE,
                             !.pending = left,
                             !.attempts = IF left = "NONE" THEN 0 ELSE @]
<1>0. 0 \in 0..MaxFailuresTracked
  BY TrapAssumption
<1>1. done \in TrapState /\ done.active = "NONE"
  BY <1>0 DEF TrapState, Jobs
<1>2. SlotInv(done)
  <2>1. r.attempts > 0 => left = "NONE"
    BY DEF SlotInv
  <2>2. done.attempts = 0
    BY <2>1 DEF TrapState
  <2> QED
    BY <2>2 DEF SlotInv
<1>3. Succeeded(r, job) = done \/ Succeeded(r, job) = Requested(done, "RESET_ALERT")
  BY DEF Succeeded
<1> HIDE DEF done
<1> QED
  BY <1>1, <1>2, <1>3, RequestedType DEF Jobs

LEMMA FailedType ==
  ASSUME NEW r \in TrapState, NEW job \in Jobs, SlotInv(r)
  PROVE  /\ Failed(r, job) \in TrapState
         /\ SlotInv(Failed(r, job))
         /\ Failed(r, job).active = "NONE"
<1> DEFINE n == IF r.failures < MaxFailuresTracked THEN r.failures + 1 ELSE r.failures
<1>1. n \in 0..MaxFailuresTracked /\ (n < 3 => n = r.failures + 1)
  BY TrapAssumption DEF TrapState
<1>2. /\ Failed(r, job).active = "NONE" /\ Failed(r, job).failures = n
      /\ Failed(r, job).attempts = (IF n >= 3 THEN 0 ELSE r.attempts)
      /\ Failed(r, job).pending = (IF n >= 3 THEN "NONE" ELSE r.pending)
  BY DEF Failed, GiveUpAfter, TrapState
<1>3. Failed(r, job) \in TrapState
  BY <1>1 DEF Failed, GiveUpAfter, TrapState, Jobs
<1>4. SlotInv(Failed(r, job))
  <2>1. CASE n >= 3
    BY <2>1, <1>1, <1>2 DEF SlotInv
  <2>2. CASE n < 3
    <3> HIDE DEF n
    <3>1. n = r.failures + 1 /\ n \in Nat
      BY <2>2, <1>1, TrapAssumption
    <3> QED
      BY <2>2, <3>1, <1>2 DEF SlotInv, GiveUpAfter, TrapState
  <2> QED
    BY <2>1, <2>2, <1>1, TrapAssumption
<1> QED
  BY <1>2, <1>3, <1>4

LEMMA JobFinishedType ==
  ASSUME NEW r \in TrapState, NEW job \in Jobs, NEW ok \in BOOLEAN, SlotInv(r),
         ok => r.active = job /\ job # "NONE"
  PROVE  /\ JobFinished(r, job, ok) \in TrapState
         /\ SlotInv(JobFinished(r, job, ok))
         /\ JobFinished(r, job, ok).active = "NONE"
BY SucceededType, FailedType DEF JobFinished

-----------------------------------------------------------------------------
(***************************************************************************)
(* The connection.                                                         *)
(***************************************************************************)
LEMMA FreeType ==
  ASSUME NEW link \in Links
  PROVE  Free(link) \in Connection /\ ScriptInv(Free(link)) /\ Free(link).trap = 0
<1>1. NothingRead \in [Cursors -> {"none", "zero", "some"}]
  BY DEF NothingRead
<1>2. <<>> \in Seq(Op) /\ Len(<<>>) = 0
  OBVIOUS
<1>3. 0 \in 0..NumSlots /\ 1 \in Nat \ {0} /\ 0 \in 0..2 /\ "-" \in Handles /\ "NONE" \in Jobs
  BY SessionAssumption DEF Handles, Jobs
<1> HIDE DEF NothingRead
<1>4. Free(link) \in Connection
  BY <1>1, <1>2, <1>3 DEF Free, Connection
<1> QED
  BY <1>2, <1>4 DEF Free, ScriptInv

LEMMA TrafficType ==
  /\ NoTraffic \in Air
  /\ \A ts : [NoTraffic EXCEPT !.timers = Outdated(ts)] \in Air
<1>1. <<>> \in Seq(Op) /\ <<>> \in Seq(FrameTypes)
  OBVIOUS
<1>2. \A ts : Outdated(ts) \in SUBSET {"live", "stale"}
  BY DEF Outdated
<1>3. NoTraffic \in Air
  BY <1>1 DEF NoTraffic, Air
<1> QED
  BY <1>2, <1>3 DEF Air

LEMMA HandleType ==
  ASSUME NEW op \in Op
  PROVE  Handle(op) \in Handles
BY DEF Handle, Handles, Op

LEMMA RequestDisconnectType ==
  ASSUME NEW c \in Connection
  PROVE  /\ RequestDisconnect(c) \in Connection
         /\ \A f \in {"trap", "job", "ops", "idx", "started", "ok"} : RequestDisconnect(c)[f] = c[f]
         /\ ~RequestDisconnect(c).inFlight
<1>1. Disconnect(c.link) \in Links
  BY DEF Disconnect, Connection, Links
<1> QED
  BY <1>1 DEF RequestDisconnect, Connection

(***************************************************************************)
(* Running on from operation k of a started session, whatever is skipped,  *)
(* keeps the index in the script, and a session that is over and failed    *)
(* nothing has reached its end.                                            *)
(***************************************************************************)
LEMMA RunFromType ==
  ASSUME NEW c \in Connection, NEW a \in Air, c.trap # 0, c.job # "NONE", c.started,
         NEW k \in 1..(Len(c.ops) + 1), c.disc => ~c.ok, RunFrom(c, k, a)
  PROVE  /\ conn' \in Connection /\ air' \in Air
         /\ conn'.trap = c.trap /\ conn'.job = c.job /\ (conn'.ok => c.ok)
         /\ ScriptInv(conn')
<1>0. Len(c.ops) \in Nat /\ c.ops \in Seq(Op) /\ k \in Nat \ {0}
  <2>1. c.ops \in Seq(Op)
    BY DEF Connection
  <2> QED
    BY <2>1, LenProperties
<1>1. CASE c.disc
  <2>1. conn' = [c EXCEPT !.idx = k, !.inFlight = FALSE] /\ air' = a
    BY <1>1 DEF RunFrom
  <2>2. conn' \in Connection
    BY <1>0, <2>1 DEF Connection
  <2>3. /\ conn'.trap = c.trap /\ conn'.job = c.job /\ conn'.ok = c.ok /\ conn'.started
        /\ conn'.ops = c.ops /\ conn'.idx = k /\ ~conn'.inFlight /\ conn'.disc
    BY <1>1, <2>1 DEF Connection
  <2> QED
    BY <1>0, <1>1, <2>1, <2>2, <2>3 DEF ScriptInv
<1>2. CASE ~c.disc
  <2>1. PICK j \in k..(Len(c.ops) + 1), ok \in BOOLEAN :
          LET c1 == [c EXCEPT !.idx = j, !.ok = ok, !.inFlight = FALSE,
                              !.owed = IF ok THEN @ ELSE {}] IN
          /\ ok => c.ok
          /\ \/ /\ j > Len(c.ops)
                /\ conn' = RequestDisconnect(c1)
                /\ air' = a
             \/ /\ j <= Len(c.ops)
                /\ Issuable(c, c.ops[j])
                /\ conn' = Issued(c1, c.ops[j])
                /\ air' = IF c.ops[j].kind = "WAIT"
                          THEN [a EXCEPT !.timers = @ \cup {"live"}]
                          ELSE [a EXCEPT !.outstanding = Append(@, c.ops[j])]
    BY <1>2 DEF RunFrom
  <2> DEFINE c1 == [c EXCEPT !.idx = j, !.ok = ok, !.inFlight = FALSE,
                             !.owed = IF ok THEN @ ELSE {}]
  <2>2. j \in Nat \ {0} /\ j \in 1..(Len(c.ops) + 1)
    BY <1>0
  <2>3. /\ c1 \in Connection /\ c1.trap = c.trap /\ c1.job = c.job /\ c1.ops = c.ops
        /\ c1.idx = j /\ c1.ok = ok /\ c1.started /\ ~c1.disc
    BY <1>2, <2>2 DEF Connection
  <2> HIDE DEF c1
  <2>4. CASE j > Len(c.ops) /\ conn' = RequestDisconnect(c1) /\ air' = a
    <3>1. j = Len(c.ops) + 1
      BY <1>0, <2>2, <2>4
    <3>2. /\ conn' \in Connection /\ conn'.trap = c.trap /\ conn'.job = c.job /\ conn'.ops = c.ops
          /\ conn'.idx = j /\ conn'.started /\ conn'.ok = ok /\ ~conn'.inFlight
      BY <2>3, <2>4, RequestDisconnectType
    <3> QED
      BY <2>1, <2>2, <2>4, <3>1, <3>2 DEF ScriptInv
  <2>5. CASE /\ j <= Len(c.ops)
             /\ conn' = Issued(c1, c.ops[j])
             /\ air' = IF c.ops[j].kind = "WAIT"
                       THEN [a EXCEPT !.timers = @ \cup {"live"}]
                       ELSE [a EXCEPT !.outstanding = Append(@, c.ops[j])]
    <3>1. c.ops[j] \in Op /\ j \in 1..Len(c.ops)
      BY <1>0, <2>2, <2>5
    <3>2. air' \in Air
      <4>1. a.outstanding \in Seq(Op) /\ a.timers \in SUBSET {"live", "stale"}
        BY DEF Air
      <4>2. Append(a.outstanding, c.ops[j]) \in Seq(Op)
        BY <3>1, <4>1, AppendProperties
      <4>3. a.timers \cup {"live"} \in SUBSET {"live", "stale"}
        BY <4>1
      <4> QED
        BY <2>5, <4>2, <4>3 DEF Air
    <3>3. Handle(c.ops[j]) \in Handles
      BY <3>1, HandleType
    <3>4. /\ conn' \in Connection /\ conn'.trap = c.trap /\ conn'.job = c.job /\ conn'.ops = c.ops
          /\ conn'.idx = j /\ conn'.started /\ conn'.ok = ok /\ ~conn'.disc
      BY <2>3, <2>5, <3>3 DEF Issued, Connection
    <3> QED
      BY <2>1, <2>2, <3>1, <3>2, <3>4 DEF ScriptInv
  <2> QED
    BY <2>1, <2>4, <2>5 DEF c1
<1> QED
  BY <1>1, <1>2

-----------------------------------------------------------------------------
(***************************************************************************)
(* The three ways a handler ends.                                          *)
(*                                                                         *)
(* The session goes on: connection and traffic change, the slot it serves  *)
(* may learn something.                                                    *)
(***************************************************************************)
LEMMA SessionGoesOn ==
  ASSUME IInv, conn.trap # 0,
         slot' \in [Slots -> TrapState],
         \A s \in Slots : SlotInv(slot'[s]) /\ slot'[s].active = slot[s].active,
         conn' \in Connection, conn'.trap = conn.trap, conn'.job = conn.job,
         conn'.ok => conn.ok, ScriptInv(conn'),
         air' \in Air, silences' \in 0..MaxSilences
  PROVE  IInv'
<1>1. TypeOK'
  BY DEF TypeOK
<1>2. SoleSession'
  BY DEF IInv, SoleSession
<1>3. conn.trap \in Slots
  BY SessionAssumption DEF IInv, TypeOK, Connection, Slots
<1>4. StillItsJob'
  BY <1>3 DEF IInv, StillItsJob
<1> QED
  BY <1>1, <1>2, <1>4 DEF IInv

(***************************************************************************)
(* The session is over, and the slot is told.                              *)
(***************************************************************************)
LEMMA SessionOver ==
  ASSUME IInv, conn.trap # 0, NEW link \in Links, NEW ok \in BOOLEAN, ok => conn.ok,
         Finish(slot, conn, link, ok), silences' \in 0..MaxSilences
  PROVE  IInv'
<1>1. /\ slot \in [Slots -> TrapState] /\ conn \in Connection /\ conn.trap \in Slots
      /\ conn.job \in Jobs /\ conn.job # "NONE"
  BY SessionAssumption DEF IInv, TypeOK, Connection, Slots, ScriptInv
<1> DEFINE r == slot[conn.trap]
           t == JobFinished(r, conn.job, ok)
<1>2. r \in TrapState /\ SlotInv(r) /\ (ok => r.active = conn.job)
  BY <1>1 DEF IInv, StillItsJob
<1>3. t \in TrapState /\ SlotInv(t) /\ t.active = "NONE"
  BY <1>1, <1>2, JobFinishedType
<1>4. slot' = [slot EXCEPT ![conn.trap] = t]
  BY DEF Finish
<1> HIDE DEF r, t
<1>5. slot' \in [Slots -> TrapState] /\ slot'[conn.trap] = t
      /\ \A s \in Slots : s # conn.trap => slot'[s] = slot[s]
  BY <1>1, <1>3, <1>4
<1>6. conn' \in Connection /\ ScriptInv(conn') /\ conn'.trap = 0
  BY FreeType DEF Finish
<1>7. air' \in Air
  BY TrafficType DEF Finish
<1>8. \A s \in Slots : SlotInv(slot'[s]) /\ slot'[s].active = "NONE"
  BY <1>3, <1>5 DEF IInv, SoleSession
<1> QED
  BY <1>5, <1>6, <1>7, <1>8 DEF IInv, TypeOK, SoleSession, StillItsJob

(***************************************************************************)
(* A slot changes, and may be given the connection.                        *)
(***************************************************************************)
LEMMA SlotChanges ==
  ASSUME IInv, NEW s \in Slots, NEW r \in TrapState, SlotInv(r), r.active = slot[s].active,
         slot' = [slot EXCEPT ![s] = r], UNCHANGED <<conn, air, silences>>
  PROVE  IInv'
<1>1. slot \in [Slots -> TrapState]
  BY DEF IInv, TypeOK
<1>2. /\ slot' \in [Slots -> TrapState]
      /\ \A t \in Slots : SlotInv(slot'[t]) /\ slot'[t].active = slot[t].active
  BY <1>1 DEF IInv
<1>3. conn.trap # 0 => conn.trap \in Slots
  BY SessionAssumption DEF IInv, TypeOK, Connection, Slots
<1> QED
  BY <1>2, <1>3 DEF IInv, TypeOK, SoleSession, StillItsJob, ScriptInv

LEMMA StartType ==
  ASSUME NEW s \in Slots, NEW r \in TrapState, NextJob(r) \in Jobs \ {"NONE"}
  PROVE  /\ Start(s, r) \in Connection /\ ScriptInv(Start(s, r))
         /\ Start(s, r).trap = s /\ Start(s, r).job = NextJob(r)
<1> DEFINE f == Free("DISCOVERED")
<1>1. f \in Connection /\ f.ops = <<>> /\ f.idx = 1 /\ ~f.inFlight /\ ~f.started /\ ~f.disc
  BY FreeType DEF Links, Free
<1>2. s \in 0..NumSlots /\ r.bound \in Devices \cup {NoDev}
  BY SessionAssumption DEF Slots, TrapState
<1> HIDE DEF f
<1>3. Start(s, r) = [f EXCEPT !.trap = s, !.job = NextJob(r), !.peer = r.bound]
  BY DEF Start, f
<1>4. /\ Start(s, r) \in Connection /\ Start(s, r).trap = s /\ Start(s, r).job = NextJob(r)
      /\ Start(s, r).ops = <<>> /\ Start(s, r).idx = 1 /\ ~Start(s, r).inFlight
      /\ ~Start(s, r).started /\ ~Start(s, r).disc
  BY <1>1, <1>2, <1>3 DEF Connection
<1>5. Len(<<>>) = 0
  OBVIOUS
<1> QED
  BY <1>4, <1>5 DEF ScriptInv

LEMMA MayConnect ==
  ASSUME IInv, NEW s \in Slots, NEW r \in TrapState, SlotInv(r), r.active = slot[s].active,
         MaybeConnect(s, r), UNCHANGED <<air, silences>>
  PROVE  IInv'
<1>1. CASE conn.trap = 0 /\ conn.link = "IDLE" /\ Wants(r)
  <2>1. r.active = "NONE" /\ r.bound # NoDev
    BY <1>1 DEF Wants
  <2> DEFINE job == NextJob(r)
             t == JobStarted(r, job)
  <2>2. job \in Jobs \ {"NONE"} /\ t \in TrapState /\ SlotInv(t) /\ t.active = job
    BY <2>1, JobStartedType
  <2>3. conn' = Start(s, r) /\ slot' = [slot EXCEPT ![s] = t]
    BY <1>1 DEF MaybeConnect
  <2> HIDE DEF job, t
  <2>4. conn' \in Connection /\ ScriptInv(conn') /\ conn'.trap = s /\ conn'.job = job
    BY <2>2, <2>3, StartType DEF job
  <2>5. /\ slot' \in [Slots -> TrapState] /\ slot'[s] = t
        /\ \A u \in Slots : u # s => slot'[u] = slot[u]
    BY <2>2, <2>3 DEF IInv, TypeOK
  <2>6. \A u \in Slots : u # s => slot'[u].active = "NONE"
    BY <1>1, <2>5, SessionAssumption DEF IInv, SoleSession, Slots
  <2> QED
    BY <2>2, <2>4, <2>5, <2>6 DEF IInv, TypeOK, SoleSession, StillItsJob
<1>2. CASE ~(conn.trap = 0 /\ conn.link = "IDLE" /\ Wants(r))
  BY <1>2, SlotChanges DEF MaybeConnect
<1> QED
  BY <1>1, <1>2

(***************************************************************************)
(* The operation in flight ends, and the script runs on.                   *)
(***************************************************************************)
LEMMA OperationEnds ==
  ASSUME IInv, conn.trap # 0, conn.inFlight, NEW c \in Connection, NEW a \in Air,
         c.trap = conn.trap, c.job = conn.job, c.ops = conn.ops, c.idx = conn.idx,
         c.started = conn.started, c.disc = conn.disc, c.ok => conn.ok,
         OpDone(c, a),
         slot' \in [Slots -> TrapState],
         \A s \in Slots : SlotInv(slot'[s]) /\ slot'[s].active = slot[s].active,
         silences' \in 0..MaxSilences
  PROVE  IInv'
<1>1. /\ c.job # "NONE" /\ c.started /\ (c.disc => ~c.ok)
      /\ c.idx \in 1..Len(c.ops)
  BY DEF IInv, ScriptInv
<1>2. Len(c.ops) \in Nat
  BY LenProperties DEF Connection
<1>3. c.idx + 1 \in 1..(Len(c.ops) + 1)
  BY <1>1, <1>2
<1>4. RunFrom(c, c.idx + 1, a)
  <2>1. OpDone(c, a) = RunFrom(c, conn.idx + 1, a)
    BY DEF OpDone
  <2> QED
    BY <2>1
<1>5. /\ conn' \in Connection /\ air' \in Air
      /\ conn'.trap = c.trap /\ conn'.job = c.job /\ (conn'.ok => c.ok)
      /\ ScriptInv(conn')
  BY <1>1, <1>3, <1>4, RunFromType
<1> QED
  BY <1>5, SessionGoesOn

\* What every step of a session starts from.
LEMMA InSession ==
  ASSUME IInv
  PROVE  /\ slot \in [Slots -> TrapState] /\ \A s \in Slots : SlotInv(slot[s])
         /\ conn \in Connection /\ air \in Air /\ silences \in 0..MaxSilences
         /\ conn.trap # 0 => /\ conn.trap \in Slots /\ conn.job \in Jobs
                             /\ slot[conn.trap] \in TrapState /\ SlotInv(slot[conn.trap])
         /\ conn.inFlight => Current \in Op
<1>1. /\ slot \in [Slots -> TrapState] /\ \A s \in Slots : SlotInv(slot[s])
      /\ conn \in Connection /\ air \in Air /\ silences \in 0..MaxSilences
  BY DEF IInv, TypeOK
<1>2. conn.trap # 0 => conn.trap \in Slots /\ conn.job \in Jobs
  BY <1>1, SessionAssumption DEF Connection, Slots
<1>3. conn.inFlight => Current \in Op
  <2>1. conn.ops \in Seq(Op)
    BY <1>1 DEF Connection
  <2> QED
    BY <2>1 DEF IInv, ScriptInv, Current
<1> QED
  BY <1>1, <1>2, <1>3

\* A handler that changes what the served slot knows, and nothing of its jobs.
LEMMA ServedSlot ==
  ASSUME IInv, conn.trap # 0, NEW r \in TrapState, SlotInv(r),
         r.active = slot[conn.trap].active, slot' = [slot EXCEPT ![conn.trap] = r]
  PROVE  /\ slot' \in [Slots -> TrapState]
         /\ \A s \in Slots : SlotInv(slot'[s]) /\ slot'[s].active = slot[s].active
BY InSession

LEMMA PoppedType ==
  ASSUME NEW status, air \in Air, air.outstanding # <<>>
  PROVE  /\ Head(air.outstanding) \in Op
         /\ Popped(Head(air.outstanding), status) \in Air
<1>1. air.outstanding \in Seq(Op) /\ air.answers \in Seq(FrameTypes)
  BY DEF Air
<1>2. Head(air.outstanding) \in Op /\ Tail(air.outstanding) \in Seq(Op)
  BY <1>1, HeadTailProperties
<1>3. Head(air.outstanding).kind \in Requests =>
        Append(air.answers, Head(air.outstanding).what) \in Seq(FrameTypes)
  BY <1>1, <1>2, AppendProperties DEF Op
<1> DEFINE o == Head(air.outstanding)
           more == IF o.kind \in Requests /\ status = "OK" /\ ~conn.uartErr
                   THEN Append(air.answers, o.what) ELSE air.answers
<1>4. more \in Seq(FrameTypes)
  BY <1>1, <1>3
<1>5. Popped(o, status) = [air EXCEPT !.outstanding = Tail(@), !.answers = more]
  BY DEF Popped, Air
<1> HIDE DEF more
<1> QED
  BY <1>2, <1>4, <1>5 DEF Air

\* An event that only leaves the traffic.
LEMMA EventIgnored ==
  ASSUME IInv, conn.trap # 0, NEW a \in Air, EventOnly(a),
         slot' \in [Slots -> TrapState],
         \A s \in Slots : SlotInv(slot'[s]) /\ slot'[s].active = slot[s].active,
         silences' \in 0..MaxSilences
  PROVE  IInv'
BY InSession, SessionGoesOn DEF EventOnly, IInv

-----------------------------------------------------------------------------
(***************************************************************************)
(* The actions, one lemma each or one per kind.                            *)
(***************************************************************************)
LEMMA HeardType ==
  ASSUME NEW r \in TrapState, SlotInv(r), NEW t \in OnAdvertisement(r)
  PROVE  t \in TrapState /\ SlotInv(t) /\ t.active = r.active
<1>1. CASE IsC20(r)
  <2>1. CASE \E a \in BOOLEAN : t = [r EXCEPT !.alert = a, !.heard = TRUE]
    <3>1. t \in TrapState
      BY <2>1 DEF TrapState
    <3>2. /\ t.active = r.active /\ t.attempts = r.attempts /\ t.pending = r.pending
          /\ t.failures = r.failures /\ t.bound = r.bound
      BY <2>1 DEF TrapState
    <3> QED
      BY <3>1, <3>2 DEF SlotInv
  <2>2. CASE \E a \in BOOLEAN : t = [Requested(r, "POLL") EXCEPT !.alert = a]
    <3> DEFINE q == Requested(r, "POLL")
    <3>1. q \in TrapState /\ SlotInv(q) /\ q.active = r.active
      BY RequestedType DEF Jobs
    <3>2. PICK a \in BOOLEAN : t = [q EXCEPT !.alert = a]
      BY <2>2
    <3> HIDE DEF q
    <3>3. t \in TrapState
      BY <3>1, <3>2 DEF TrapState
    <3>4. /\ t.active = q.active /\ t.attempts = q.attempts /\ t.pending = q.pending
          /\ t.failures = q.failures /\ t.bound = q.bound
      BY <3>1, <3>2 DEF TrapState
    <3> QED
      BY <3>1, <3>3, <3>4 DEF SlotInv
  <2> QED
    BY <1>1, <2>1, <2>2 DEF OnAdvertisement, C20Heard
<1>2. CASE ~IsC20(r)
  <2>1. PICK b \in BOOLEAN : t = [r EXCEPT !.heard = TRUE, !.due = b]
    BY <1>2 DEF OnAdvertisement, A24Heard, TrapState
  <2>2. t \in TrapState
    BY <2>1 DEF TrapState
  <2>3. /\ t.active = r.active /\ t.attempts = r.attempts /\ t.pending = r.pending
        /\ t.failures = r.failures /\ t.bound = r.bound
    BY <2>1 DEF TrapState
  <2> QED
    BY <2>2, <2>3 DEF SlotInv
<1> QED
  BY <1>1, <1>2

LEMMA AdvertiseKeeps ==
  ASSUME IInv, NEW d \in Devices, Advertise(d)
  PROVE  IInv'
<1>1. PICK s \in Slots : /\ Takes(s, d)
                         /\ \E r \in OnAdvertisement(IF slot[s].bound = d THEN slot[s] ELSE BoundTo(d)) :
                              MaybeConnect(s, r)
  BY DEF Advertise
<1> DEFINE q == IF slot[s].bound = d THEN slot[s] ELSE BoundTo(d)
<1>2. slot[s] \in TrapState /\ SlotInv(slot[s])
  BY InSession
<1>3. slot[s].bound = d \/ slot[s].bound = NoDev
  BY <1>1 DEF Takes, FirstFree
<1>4. q \in TrapState /\ SlotInv(q) /\ q.active = slot[s].active
  <2>1. CASE slot[s].bound = d
    BY <1>2, <2>1
  <2>2. CASE slot[s].bound # d
    <3>1. slot[s].active = "NONE"
      BY <1>2, <1>3, <2>2 DEF SlotInv
    <3> QED
      BY <2>2, <3>1, FreshType
  <2> QED
    BY <2>1, <2>2
<1>5. PICK r \in OnAdvertisement(q) : MaybeConnect(s, r)
  BY <1>1
<1> HIDE DEF q
<1>6. r \in TrapState /\ SlotInv(r) /\ r.active = slot[s].active
  BY <1>4, <1>5, HeardType
<1> QED
  BY <1>5, <1>6, MayConnect DEF Advertise

\* The link changes, and nothing else.
LEMMA LinkKeeps ==
  ASSUME IInv, NEW link \in Links, conn' = [conn EXCEPT !.link = link],
         UNCHANGED <<slot, air, silences>>
  PROVE  IInv'
<1>1. /\ conn' \in Connection /\ conn'.trap = conn.trap /\ conn'.job = conn.job
      /\ conn'.ok = conn.ok /\ conn'.inFlight = conn.inFlight /\ conn'.started = conn.started
      /\ conn'.idx = conn.idx /\ conn'.ops = conn.ops /\ conn'.disc = conn.disc
  BY InSession DEF Connection
<1> QED
  BY <1>1 DEF IInv, TypeOK, SoleSession, StillItsJob, ScriptInv

LEMMA OpenKeeps ==
  ASSUME IInv, Promote \/ OpenSucceeds \/ LinkClosed
  PROVE  IInv'
<1>1. CASE Promote
  BY <1>1, LinkKeeps DEF Promote, Links
<1>2. CASE OpenSucceeds
  <2>1. (IF conn.disc THEN "DISCONNECTING" ELSE "CONNECTED") \in Links
    BY DEF Links
  <2> QED
    BY <1>2, <2>1, LinkKeeps DEF OpenSucceeds
<1>3. CASE LinkClosed
  BY <1>3, LinkKeeps DEF LinkClosed, Links
<1> QED
  BY <1>1, <1>2, <1>3

LEMMA EndKeeps ==
  ASSUME IInv, OpenFails \/ LinkDown \/ HardTimeout
  PROVE  IInv'
<1>1. CASE OpenFails
  BY <1>1, InSession, SessionOver DEF OpenFails, Links
<1>2. CASE HardTimeout
  BY <1>2, InSession, SessionOver DEF HardTimeout, Links
<1>3. CASE LinkDown
  <2> DEFINE hungUp == conn.inFlight /\ Current.ends
             ok == (conn.disc \/ hungUp) /\ conn.ok
  <2>1. PICK link \in {"IDLE", "DISCONNECTING"} : Finish(slot, conn, link, ok)
    BY <1>3 DEF LinkDown
  <2>2. link \in Links /\ silences' \in 0..MaxSilences /\ conn.trap # 0
    BY <1>3, InSession DEF LinkDown, Links
  <2>3. conn.ok \in BOOLEAN /\ conn.disc \in BOOLEAN
    BY InSession DEF Connection
  <2>4. ok \in BOOLEAN /\ (ok => conn.ok)
    BY <2>3
  <2> HIDE DEF ok
  <2> QED
    BY <2>1, <2>2, <2>4, SessionOver
<1> QED
  BY <1>1, <1>2, <1>3

LEMMA PaidType ==
  ASSUME conn \in Connection, NEW status
  PROVE  Paid(status) \in SUBSET Nat
BY DEF Paid, Connection

\* The connection once the operation in flight was answered.
Answered == [conn EXCEPT !.owed = Paid("OK")]

LEMMA AnsweredType ==
  ASSUME conn \in Connection
  PROVE  /\ Answered \in Connection /\ Answered.trap = conn.trap /\ Answered.job = conn.job
         /\ Answered.peer = conn.peer /\ Answered.ops = conn.ops /\ Answered.idx = conn.idx
         /\ Answered.started = conn.started /\ Answered.disc = conn.disc
         /\ Answered.ok = conn.ok /\ Answered.uartErr = conn.uartErr
<1> DEFINE left == Paid("OK")
<1>1. left \in SUBSET Nat
  BY PaidType
<1>2. Answered = [conn EXCEPT !.owed = left]
  BY DEF Answered
<1> HIDE DEF left
<1> QED
  BY <1>1, <1>2 DEF Connection

LEMMA OwingType ==
  ASSUME NEW ops \in Seq(Op)
  PROVE  Owing(ops) \in SUBSET Nat
<1>1. DOMAIN ops = 1..Len(ops) /\ Len(ops) \in Nat
  BY LenProperties
<1> QED
  BY <1>1 DEF Owing

LEMMA SearchCompleteKeeps ==
  ASSUME IInv, SearchComplete
  PROVE  IInv'
<1> DEFINE r    == slot[conn.trap]
           ops  == BuildOps(IF IsC20(r) THEN "C20" ELSE "A24", conn.job,
                            r.unanswered, r.bound \in HistoryDevices)
           c    == [conn EXCEPT !.link = "ESTABLISHED", !.started = TRUE, !.ops = ops,
                             !.owed = Owing(ops)]
           mute == [c EXCEPT !.ok = FALSE, !.uartErr = TRUE]
<1>1. /\ conn.trap # 0 /\ ~conn.started /\ UNCHANGED <<slot, silences>>
      /\ \/ RunFrom(c, 1, air)
         \/ IsC20(r) /\ conn' = RequestDisconnect(mute) /\ UNCHANGED air
         \/ IsC20(r) /\ RunFrom(mute, 2, air)
  BY DEF SearchComplete
<1>2. /\ ops \in Seq(Op) /\ Len(ops) \in Nat /\ (IsC20(r) => Len(ops) >= 1)
  <2>1. ops \in Seq(Op) /\ (IsC20(r) => Len(ops) >= 1)
    BY BuildOpsType
  <2> QED
    BY <2>1, LenProperties
<1>3. conn \in Connection /\ air \in Air /\ silences \in 0..MaxSilences
      /\ slot \in [Slots -> TrapState] /\ \A s \in Slots : SlotInv(slot[s])
  BY InSession
<1>4. conn.job # "NONE" /\ conn.idx = 1 /\ (conn.disc => ~conn.ok)
  BY <1>1 DEF IInv, ScriptInv
<1> HIDE DEF ops
<1>5. /\ c \in Connection /\ c.trap = conn.trap /\ c.job = conn.job /\ c.ok = conn.ok
      /\ c.disc = conn.disc /\ c.ops = ops /\ c.started /\ c.idx = 1
  BY <1>2, <1>3, <1>4, OwingType DEF Connection, Links
<1> HIDE DEF c
<1>6. /\ mute \in Connection /\ mute.trap = conn.trap /\ mute.job = conn.job /\ ~mute.ok
      /\ mute.ops = ops /\ mute.started /\ mute.idx = 1
  BY <1>5 DEF Connection
<1> HIDE DEF mute
<1>7. CASE RunFrom(c, 1, air)
  <2>1. 1 \in 1..(Len(c.ops) + 1)
    BY <1>2, <1>5
  <2>2. /\ conn' \in Connection /\ air' \in Air /\ conn'.trap = c.trap /\ conn'.job = c.job
        /\ (conn'.ok => c.ok) /\ ScriptInv(conn')
    BY <1>1, <1>3, <1>4, <1>5, <1>7, <2>1, RunFromType
  <2> QED
    BY <1>1, <1>3, <1>5, <2>2, SessionGoesOn
<1>8. CASE IsC20(r) /\ conn' = RequestDisconnect(mute) /\ UNCHANGED air
  <2>1. /\ conn' \in Connection /\ conn'.trap = conn.trap /\ conn'.job = conn.job /\ ~conn'.ok
        /\ conn'.ops = ops /\ conn'.started /\ conn'.idx = 1 /\ ~conn'.inFlight
    BY <1>6, <1>8, RequestDisconnectType
  <2>2. ScriptInv(conn')
    BY <1>2, <1>4, <2>1 DEF ScriptInv
  <2> QED
    BY <1>1, <1>3, <1>8, <2>1, <2>2, SessionGoesOn
<1>9. CASE IsC20(r) /\ RunFrom(mute, 2, air)
  <2>1. 2 \in 1..(Len(mute.ops) + 1)
    BY <1>2, <1>6, <1>9
  <2>2. /\ conn' \in Connection /\ air' \in Air /\ conn'.trap = mute.trap /\ conn'.job = mute.job
        /\ (conn'.ok => mute.ok) /\ ScriptInv(conn')
    BY <1>1, <1>3, <1>4, <1>6, <1>9, <2>1, RunFromType
  <2> QED
    BY <1>1, <1>3, <1>6, <2>2, SessionGoesOn
<1> QED
  BY <1>1, <1>7, <1>8, <1>9

\* Where a session step leaves the slots alone.
LEMMA SlotsUnchanged ==
  ASSUME IInv, UNCHANGED <<slot, silences>>
  PROVE  /\ slot' \in [Slots -> TrapState]
         /\ \A s \in Slots : SlotInv(slot'[s]) /\ slot'[s].active = slot[s].active
         /\ silences' \in 0..MaxSilences
BY InSession

LEMMA ReadKeeps ==
  ASSUME IInv, ReadComplete
  PROVE  IInv'
<1> DEFINE o == Head(air.outstanding)
<1>1. conn.trap # 0 /\ air.outstanding # <<>> /\ UNCHANGED <<slot, silences>>
  BY DEF ReadComplete
<1>2. PICK status \in Statuses :
        IF conn.inFlight /\ Current.kind = "READ" /\ conn.handle = Handle(o)
        THEN \E v \in {"zero", "some"} :
               OpDone([conn EXCEPT !.got = IF o.what \in Cursors /\ status = "OK"
                                           THEN [@ EXCEPT ![o.what] = v] ELSE @],
                      Popped(o, status))
        ELSE EventOnly(Popped(o, status))
  BY DEF ReadComplete
<1>3. Popped(o, status) \in Air
  BY <1>1, InSession, PoppedType
<1>4. CASE EventOnly(Popped(o, status))
  BY <1>1, <1>3, <1>4, SlotsUnchanged, EventIgnored
<1>5. ASSUME conn.inFlight, NEW v \in {"zero", "some"},
             OpDone([conn EXCEPT !.got = IF o.what \in Cursors /\ status = "OK"
                                         THEN [@ EXCEPT ![o.what] = v] ELSE @],
                    Popped(o, status))
      PROVE  IInv'
  <2> DEFINE got == IF o.what \in Cursors /\ status = "OK"
                    THEN [conn.got EXCEPT ![o.what] = v] ELSE conn.got
             c == [conn EXCEPT !.got = got]
  <2>1. conn.got \in [Cursors -> {"none", "zero", "some"}] /\ conn \in Connection
    BY InSession DEF Connection
  <2>2. got \in [Cursors -> {"none", "zero", "some"}]
    BY <2>1
  <2>3. OpDone(c, Popped(o, status))
    BY <1>5, <2>1 DEF Connection
  <2> HIDE DEF got
  <2>4. /\ c \in Connection /\ c.trap = conn.trap /\ c.job = conn.job /\ c.ops = conn.ops
        /\ c.idx = conn.idx /\ c.started = conn.started /\ c.disc = conn.disc /\ c.ok = conn.ok
    BY <2>1, <2>2 DEF Connection
  <2> HIDE DEF c
  <2> QED
    BY <1>1, <1>3, <1>5, <2>3, <2>4, SlotsUnchanged, OperationEnds
<1> QED
  BY <1>2, <1>4, <1>5

\* The operation in flight ends, with the job's result worsened at most.
LEMMA Weakened ==
  ASSUME IInv, NEW c, c = [conn EXCEPT !.ok = c.ok, !.uartErr = c.uartErr, !.owed = c.owed],
         c.ok \in BOOLEAN, c.uartErr \in BOOLEAN, c.owed \in SUBSET Nat, c.ok => conn.ok
  PROVE  /\ c \in Connection /\ c.trap = conn.trap /\ c.job = conn.job /\ c.ops = conn.ops
         /\ c.idx = conn.idx /\ c.started = conn.started /\ c.disc = conn.disc
BY InSession DEF Connection

LEMMA AcknowledgedType ==
  ASSUME NEW r \in TrapState, SlotInv(r), NEW o, NEW status
  PROVE  /\ Acknowledged(r, o, status) \in TrapState /\ SlotInv(Acknowledged(r, o, status))
         /\ Acknowledged(r, o, status).active = r.active
<1> DEFINE more == r.acked \cup (IF r.pending = conn.job THEN {"session", "request"} ELSE {"session"})
           t == [r EXCEPT !.acked = more]
<1>1. more \in SUBSET {"session", "request", "confirmed"}
  BY DEF TrapState
<1>2. Acknowledged(r, o, status) = r \/ Acknowledged(r, o, status) = t
  BY DEF Acknowledged, TrapState
<1> HIDE DEF more
<1>3. /\ t \in TrapState /\ t.active = r.active /\ t.attempts = r.attempts
      /\ t.pending = r.pending /\ t.failures = r.failures /\ t.bound = r.bound
  BY <1>1 DEF TrapState
<1> HIDE DEF t
<1>4. SlotInv(t)
  BY <1>3 DEF SlotInv
<1> QED
  BY <1>2, <1>3, <1>4

LEMMA WriteKeeps ==
  ASSUME IInv, WriteComplete
  PROVE  IInv'
<1> DEFINE o == Head(air.outstanding)
           q == slot[conn.trap]
<1>1. conn.trap # 0 /\ air.outstanding # <<>> /\ UNCHANGED silences
  BY DEF WriteComplete
<1>2. PICK status \in Statuses :
        LET matched == conn.inFlight /\ conn.handle = Handle(o)
            r       == Acknowledged(q, o, status)
        IN
        /\ slot' = [slot EXCEPT ![conn.trap] =
                      IF matched /\ Current.command /\ status = "OK"
                      THEN CommandDelivered(r, conn.job) ELSE r]
        /\ IF matched /\ WriteEnds(status)
           THEN OpDone([conn EXCEPT !.ok = @ /\ WriteOk(status), !.owed = Paid(status)],
                       Popped(o, status))
           ELSE EventOnly(Popped(o, status))
  BY DEF WriteComplete
<1>3. Popped(o, status) \in Air
  BY <1>1, InSession, PoppedType
<1>4. /\ conn.job \in Jobs /\ q \in TrapState /\ SlotInv(q) /\ silences \in 0..MaxSilences
  BY <1>1, InSession
<1> DEFINE r == Acknowledged(q, o, status)
           t == IF conn.inFlight /\ conn.handle = Handle(o) /\ Current.command /\ status = "OK"
                THEN CommandDelivered(r, conn.job) ELSE r
<1>5. r \in TrapState /\ SlotInv(r) /\ r.active = q.active
  BY <1>4, AcknowledgedType
<1> HIDE DEF r
<1>6. t \in TrapState /\ SlotInv(t) /\ t.active = q.active
  BY <1>4, <1>5, CommandDeliveredType
<1>7. slot' = [slot EXCEPT ![conn.trap] = t]
  BY <1>2 DEF r
<1> HIDE DEF t
<1>8. /\ slot' \in [Slots -> TrapState] /\ silences' \in 0..MaxSilences
      /\ \A s \in Slots : SlotInv(slot'[s]) /\ slot'[s].active = slot[s].active
  BY <1>1, <1>4, <1>6, <1>7, ServedSlot
<1>9. CASE conn.inFlight /\ OpDone([conn EXCEPT !.ok = @ /\ WriteOk(status), !.owed = Paid(status)],
                                   Popped(o, status))
  <2> DEFINE ok   == conn.ok /\ WriteOk(status)
             left == Paid(status)
             c    == [conn EXCEPT !.ok = ok, !.owed = left]
  <2>1. conn \in Connection /\ ok \in BOOLEAN /\ (ok => conn.ok) /\ left \in SUBSET Nat
    BY InSession, PaidType DEF Connection
  <2>2. OpDone(c, Popped(o, status))
    BY <1>9, <2>1 DEF Connection
  <2> HIDE DEF ok, left
  <2>3. c.ok = ok /\ c.uartErr = conn.uartErr /\ conn.uartErr \in BOOLEAN /\ c.owed \in SUBSET Nat
        /\ c = [conn EXCEPT !.ok = c.ok, !.uartErr = c.uartErr, !.owed = c.owed]
    BY <2>1 DEF Connection
  <2> HIDE DEF c
  <2>4. /\ c \in Connection /\ c.trap = conn.trap /\ c.job = conn.job /\ c.ops = conn.ops
        /\ c.idx = conn.idx /\ c.started = conn.started /\ c.disc = conn.disc
    BY <2>1, <2>3, Weakened
  <2> QED
    BY <1>1, <1>3, <1>8, <1>9, <2>1, <2>2, <2>3, <2>4, OperationEnds
<1>10. CASE EventOnly(Popped(o, status))
  BY <1>1, <1>3, <1>8, <1>10, EventIgnored
<1> QED
  BY <1>2, <1>9, <1>10

LEMMA NotifyOnKeeps ==
  ASSUME IInv, NotifyOnComplete
  PROVE  IInv'
<1> DEFINE o == Head(air.outstanding)
<1>1. conn.trap # 0 /\ air.outstanding # <<>> /\ UNCHANGED <<slot, silences>>
  BY DEF NotifyOnComplete
<1>2. PICK status \in {"OK", "REFUSED"} :
        IF conn.inFlight /\ Current.kind = "NOTIFY_ON"
        THEN OpDone([conn EXCEPT !.ok = @ /\ status = "OK", !.uartErr = @ \/ status # "OK",
                                 !.owed = Paid(status)],
                    Popped(o, status))
        ELSE EventOnly(Popped(o, status))
  BY DEF NotifyOnComplete
<1>3. Popped(o, status) \in Air
  BY <1>1, InSession, PoppedType
<1>4. CASE EventOnly(Popped(o, status))
  BY <1>1, <1>3, <1>4, SlotsUnchanged, EventIgnored
<1>5. CASE /\ conn.inFlight
           /\ OpDone([conn EXCEPT !.ok = @ /\ status = "OK", !.uartErr = @ \/ status # "OK",
                                  !.owed = Paid(status)],
                     Popped(o, status))
  <2> DEFINE ok  == conn.ok /\ status = "OK"
             err == conn.uartErr \/ status # "OK"
             left == Paid(status)
             c   == [conn EXCEPT !.ok = ok, !.uartErr = err, !.owed = left]
  <2>1. conn \in Connection /\ ok \in BOOLEAN /\ err \in BOOLEAN /\ (ok => conn.ok)
        /\ left \in SUBSET Nat
    BY InSession, PaidType DEF Connection
  <2>2. OpDone(c, Popped(o, status))
    BY <1>5, <2>1 DEF Connection
  <2> HIDE DEF ok, err, left
  <2>3. c.ok = ok /\ c.uartErr = err /\ c.owed \in SUBSET Nat
        /\ c = [conn EXCEPT !.ok = c.ok, !.uartErr = c.uartErr, !.owed = c.owed]
    BY <2>1 DEF Connection
  <2> HIDE DEF c
  <2>4. /\ c \in Connection /\ c.trap = conn.trap /\ c.job = conn.job /\ c.ops = conn.ops
        /\ c.idx = conn.idx /\ c.started = conn.started /\ c.disc = conn.disc
    BY <2>1, <2>3, Weakened
  <2> QED
    BY <1>1, <1>3, <1>5, <2>1, <2>2, <2>3, <2>4, SlotsUnchanged, OperationEnds
<1> QED
  BY <1>2, <1>4, <1>5

LEMMA FrameAppliedType ==
  ASSUME IInv, conn.trap # 0, NEW type, FrameApplied(type)
  PROVE  /\ slot' \in [Slots -> TrapState]
         /\ \A s \in Slots : SlotInv(slot'[s]) /\ slot'[s].active = slot[s].active
<1> DEFINE r == slot[conn.trap]
<1>1. r \in TrapState /\ SlotInv(r) /\ slot \in [Slots -> TrapState] /\ conn.trap \in Slots
  BY InSession
<1>2. CASE \E h \in Healths, a \in BOOLEAN :
             slot' = [slot EXCEPT ![conn.trap] = [r EXCEPT !.health = h, !.alert = a]]
  <2>1. PICK h \in {"ok", "bad"}, a \in BOOLEAN :
          slot' = [slot EXCEPT ![conn.trap] = [r EXCEPT !.health = h, !.alert = a]]
    BY <1>2, SessionAssumption
  <2> DEFINE t == [r EXCEPT !.health = h, !.alert = a]
  <2>2. /\ t \in TrapState /\ t.active = r.active /\ t.attempts = r.attempts
        /\ t.pending = r.pending /\ t.failures = r.failures /\ t.bound = r.bound
    BY <1>1 DEF TrapState
  <2> HIDE DEF t
  <2>3. SlotInv(t)
    BY <1>1, <2>2 DEF SlotInv
  <2> QED
    BY <2>1, <2>2, <2>3, ServedSlot DEF t
<1>3. CASE slot' = [slot EXCEPT ![conn.trap] = [r EXCEPT !.unanswered = {}]]
  <2> DEFINE t == [r EXCEPT !.unanswered = {}]
  <2>1. /\ t \in TrapState /\ t.active = r.active /\ t.attempts = r.attempts
        /\ t.pending = r.pending /\ t.failures = r.failures /\ t.bound = r.bound
    BY <1>1 DEF TrapState
  <2> HIDE DEF t
  <2>2. SlotInv(t)
    BY <1>1, <2>1 DEF SlotInv
  <2> QED
    BY <1>3, <2>1, <2>2, ServedSlot DEF t
<1>4. CASE UNCHANGED slot
  BY <1>4, InSession
<1>5. \/ \E h \in Healths, a \in BOOLEAN :
           slot' = [slot EXCEPT ![conn.trap] = [r EXCEPT !.health = h, !.alert = a]]
      \/ slot' = [slot EXCEPT ![conn.trap] = [r EXCEPT !.unanswered = {}]]
      \/ UNCHANGED slot
  BY <1>1 DEF FrameApplied
<1> QED
  BY <1>2, <1>3, <1>4, <1>5

LEMMA FrameKeeps ==
  ASSUME IInv, conn.trap # 0, NEW type, NEW a \in Air, Frame(type, a)
  PROVE  IInv'
<1>1. /\ slot' \in [Slots -> TrapState] /\ silences' \in 0..MaxSilences
      /\ \A s \in Slots : SlotInv(slot'[s]) /\ slot'[s].active = slot[s].active
  BY FrameAppliedType, InSession DEF Frame
<1>2. CASE conn.inFlight /\ OpDone(Answered, a)
  BY <1>1, <1>2, InSession, AnsweredType, OperationEnds
<1>3. CASE EventOnly(a)
  BY <1>1, <1>3, EventIgnored
<1> QED
  BY <1>2, <1>3 DEF Frame, Answered

LEMMA AnswerKeeps ==
  ASSUME IInv, Answer \/ NoAnswer \/ StateReport
  PROVE  IInv'
<1> DEFINE a == [air EXCEPT !.answers = Tail(@)]
<1>1. air \in Air
  BY InSession
<1>2. air.answers # <<>> => a \in Air
  <2>1. air.answers \in Seq(FrameTypes)
    BY <1>1 DEF Air
  <2>2. air.answers # <<>> => Tail(air.answers) \in Seq(FrameTypes)
    BY <2>1, HeadTailProperties
  <2> QED
    BY <1>1, <2>2 DEF Air
<1>3. CASE Answer
  BY <1>2, <1>3, FrameKeeps DEF Answer
<1>4. CASE NoAnswer
  <2>1. conn.trap # 0 /\ EventOnly(a) /\ a \in Air /\ UNCHANGED <<slot, silences>>
    BY <1>2, <1>4 DEF NoAnswer, EventOnly
  <2> HIDE DEF a
  <2> QED
    BY <2>1, SlotsUnchanged, EventIgnored
<1>5. CASE StateReport
  BY <1>1, <1>5, FrameKeeps DEF StateReport
<1> QED
  BY <1>3, <1>4, <1>5

LEMMA OpTimeoutKeeps ==
  ASSUME IInv, OpTimeout
  PROVE  IInv'
<1> DEFINE q  == slot[conn.trap]
           t  == IF Current.optional /\ Current.kind = "REQUEST"
                 THEN OptionalUnanswered(q, Current.what) ELSE q
           ok == conn.ok /\ (Current.kind = "LOGS" \/ Current.optional)
           c  == [conn EXCEPT !.ok = ok]
<1>1. /\ conn.trap # 0 /\ conn.inFlight /\ silences' = silences + 1 /\ silences < MaxSilences
      /\ slot' = [slot EXCEPT ![conn.trap] = t]
  BY DEF OpTimeout
<1>2. silences' \in 0..MaxSilences
  BY <1>1, InSession, SessionAssumption
<1>3. q \in TrapState /\ SlotInv(q) /\ Current \in Op /\ conn \in Connection /\ air \in Air
  BY <1>1, InSession
<1>4. t \in TrapState /\ SlotInv(t) /\ t.active = q.active
  <2>1. Current.kind = "REQUEST" => Current.what \in FrameTypes
    BY <1>3 DEF Op, Requests
  <2> QED
    BY <1>3, <2>1, OptionalUnansweredType
<1> HIDE DEF t
<1>5. /\ slot' \in [Slots -> TrapState]
      /\ \A s \in Slots : SlotInv(slot'[s]) /\ slot'[s].active = slot[s].active
  BY <1>1, <1>4, ServedSlot
<1>6. ok \in BOOLEAN /\ (ok => conn.ok)
  BY <1>3 DEF Connection
<1>7. OpDone(c, air)
  BY <1>3 DEF OpTimeout, Connection
<1> HIDE DEF ok
<1>8. c.ok = ok /\ c.uartErr = conn.uartErr /\ conn.uartErr \in BOOLEAN /\ c.owed \in SUBSET Nat
      /\ c = [conn EXCEPT !.ok = c.ok, !.uartErr = c.uartErr, !.owed = c.owed]
  BY <1>3, <1>6 DEF Connection
<1> HIDE DEF c
<1>9. /\ c \in Connection /\ c.trap = conn.trap /\ c.job = conn.job /\ c.ops = conn.ops
      /\ c.idx = conn.idx /\ c.started = conn.started /\ c.disc = conn.disc
  BY <1>6, <1>8, Weakened
<1> QED
  BY <1>1, <1>2, <1>3, <1>5, <1>6, <1>7, <1>8, <1>9, OperationEnds

LEMMA WaitKeeps ==
  ASSUME IInv, NEW t, WaitElapses(t)
  PROVE  IInv'
<1> DEFINE a == [air EXCEPT !.timers = @ \ {t}]
<1>1. a \in Air /\ UNCHANGED <<slot, silences>>
  <2>1. air \in Air
    BY InSession
  <2>2. air.timers \ {t} \in SUBSET {"live", "stale"}
    BY <2>1 DEF Air
  <2> QED
    BY <2>1, <2>2 DEF Air, WaitElapses
<1>2. CASE conn.trap # 0 /\ conn.inFlight /\ OpDone(conn, a)
  BY <1>1, <1>2, InSession, SlotsUnchanged, OperationEnds
<1>3. CASE EventOnly(a)
  BY <1>1, <1>3 DEF EventOnly, IInv, TypeOK, SoleSession, StillItsJob, ScriptInv
<1> QED
  BY <1>2, <1>3 DEF WaitElapses

LEMMA AgesKeeps ==
  ASSUME IInv, JobAges
  PROVE  IInv'
<1>1. /\ conn' = [conn EXCEPT !.age = conn.age + 1] /\ UNCHANGED <<slot, air, silences>>
      /\ conn.age \in {0, 1}
  BY DEF JobAges
<1>2. conn.age + 1 \in 0..2
  BY <1>1
<1>3. /\ conn' \in Connection /\ conn'.trap = conn.trap /\ conn'.job = conn.job
      /\ conn'.ok = conn.ok /\ conn'.inFlight = conn.inFlight /\ conn'.started = conn.started
      /\ conn'.idx = conn.idx /\ conn'.ops = conn.ops /\ conn'.disc = conn.disc
  BY <1>1, <1>2, InSession DEF Connection
<1> QED
  BY <1>1, <1>3 DEF IInv, TypeOK, SoleSession, StillItsJob, ScriptInv

\* The session is asked to end, and cannot end well any more.
LEMMA AbortType ==
  ASSUME IInv, NEW c, c = [conn EXCEPT !.ok = FALSE, !.disc = TRUE, !.link = Disconnect(@)]
  PROVE  /\ c \in Connection /\ c.trap = conn.trap /\ c.job = conn.job /\ ~c.ok
         /\ ScriptInv(c)
<1>1. conn \in Connection /\ Disconnect(conn.link) \in Links
  BY InSession DEF Disconnect, Connection, Links
<1>2. /\ c \in Connection /\ c.trap = conn.trap /\ c.job = conn.job /\ ~c.ok
      /\ c.inFlight = conn.inFlight /\ c.started = conn.started /\ c.idx = conn.idx
      /\ c.ops = conn.ops
  BY <1>1 DEF Connection
<1> QED
  BY <1>2 DEF IInv, ScriptInv

LEMMA JobTimeoutKeeps ==
  ASSUME IInv, JobTimeout
  PROVE  IInv'
<1>1. conn.trap # 0 /\ Abort(slot, conn) /\ silences' \in 0..MaxSilences
      /\ silences' = silences
  BY InSession DEF JobTimeout
<1>2. CASE Finish(slot, conn, "IDLE", FALSE)
  BY <1>1, <1>2, SessionOver DEF Links
<1>3. CASE /\ slot' = slot /\ UNCHANGED air
           /\ conn' = [conn EXCEPT !.ok = FALSE, !.disc = TRUE, !.link = Disconnect(@)]
  <2>1. /\ conn' \in Connection /\ conn'.trap = conn.trap /\ conn'.job = conn.job /\ ~conn'.ok
        /\ ScriptInv(conn')
    BY <1>3, AbortType
  <2> QED
    BY <1>1, <1>3, <2>1, SlotsUnchanged, InSession, SessionGoesOn
<1> QED
  BY <1>1, <1>2, <1>3 DEF Abort

LEMMA BackoffKeeps ==
  ASSUME IInv, NEW s \in Slots, BackoffElapses(s) \/ PollDue(s)
  PROVE  IInv'
<1> DEFINE r == slot[s]
<1>1. r \in TrapState /\ SlotInv(r) /\ slot \in [Slots -> TrapState]
  BY InSession
<1>2. ASSUME NEW t \in {[r EXCEPT !.backoff = FALSE], [r EXCEPT !.due = TRUE]}
      PROVE  t \in TrapState /\ SlotInv(t) /\ t.active = r.active
  <2>1. /\ t \in TrapState /\ t.active = r.active /\ t.attempts = r.attempts
        /\ t.pending = r.pending /\ t.failures = r.failures /\ t.bound = r.bound
    BY <1>1, <1>2 DEF TrapState
  <2> QED
    BY <1>1, <2>1 DEF SlotInv
<1>3. /\ UNCHANGED <<conn, air, silences>>
      /\ \E t \in {[r EXCEPT !.backoff = FALSE], [r EXCEPT !.due = TRUE]} :
           slot' = [slot EXCEPT ![s] = t]
  BY <1>1 DEF BackoffElapses, PollDue
<1> QED
  BY <1>2, <1>3, SlotChanges

LEMMA RequestKeeps ==
  ASSUME IInv, NEW s \in Slots, NEW r \in TrapState, SlotInv(r), r.active = slot[s].active,
         NEW job \in Jobs, RequestJob(s, r, job), UNCHANGED <<air, silences>>
  PROVE  IInv'
<1>1. /\ Requested(r, job) \in TrapState /\ SlotInv(Requested(r, job))
      /\ Requested(r, job).active = slot[s].active
  BY RequestedType
<1>2. CASE slot' = [slot EXCEPT ![s] = r] /\ UNCHANGED conn
  BY <1>2, SlotChanges
<1>3. CASE slot' = [slot EXCEPT ![s] = Requested(r, job)] /\ UNCHANGED conn
  BY <1>1, <1>3, SlotChanges
<1>4. CASE MaybeConnect(s, Requested(r, job))
  BY <1>1, <1>4, MayConnect
<1> QED
  BY <1>2, <1>3, <1>4 DEF RequestJob

LEMMA ButtonKeeps ==
  ASSUME IInv, NEW s \in Slots, PollNow(s) \/ TestFire(s) \/ ClearKillAlert(s)
  PROVE  IInv'
<1> DEFINE r == BackoffCleared(slot[s])
<1>1. r \in TrapState /\ SlotInv(r) /\ r.active = slot[s].active
  BY InSession, BackoffClearedType
<1>2. UNCHANGED <<air, silences>>
  BY DEF PollNow, TestFire, ClearKillAlert
<1>3. CASE \E job \in Jobs : RequestJob(s, r, job)
  <2> HIDE DEF r
  <2> QED
    BY <1>1, <1>2, <1>3, RequestKeeps
<1>4. CASE slot' = [slot EXCEPT ![s] = r] /\ UNCHANGED conn
  <2> HIDE DEF r
  <2> QED
    BY <1>1, <1>2, <1>4, SlotChanges
<1>5. CASE slot' = [slot EXCEPT ![s] = [r EXCEPT !.alert = FALSE]] /\ UNCHANGED conn
  <2> HIDE DEF r
  <2> DEFINE t == [r EXCEPT !.alert = FALSE]
  <2>1. /\ t \in TrapState /\ t.active = r.active /\ t.attempts = r.attempts
        /\ t.pending = r.pending /\ t.failures = r.failures /\ t.bound = r.bound
    BY <1>1 DEF TrapState
  <2>2. slot' = [slot EXCEPT ![s] = t]
    BY <1>5
  <2> HIDE DEF t
  <2>3. SlotInv(t)
    BY <1>1, <2>1 DEF SlotInv
  <2> QED
    BY <1>1, <1>2, <1>5, <2>1, <2>2, <2>3, SlotChanges
<1>6. \/ \E job \in Jobs : RequestJob(s, r, job)
      \/ slot' = [slot EXCEPT ![s] = r] /\ UNCHANGED conn
      \/ slot' = [slot EXCEPT ![s] = [r EXCEPT !.alert = FALSE]] /\ UNCHANGED conn
  <2> HIDE DEF r
  <2>1. {"POLL", "TEST_FIRE", "RESET_ALERT"} \subseteq Jobs
    BY DEF Jobs
  <2>2. CASE PollNow(s)
    BY <2>1, <2>2 DEF PollNow, r
  <2>3. CASE TestFire(s)
    BY <2>1, <2>3 DEF TestFire, r
  <2>4. CASE ClearKillAlert(s)
    BY <2>1, <2>4 DEF ClearKillAlert, r
  <2> QED
    BY <2>2, <2>3, <2>4
<1> QED
  BY <1>3, <1>4, <1>5, <1>6

LEMMA ForgetKeeps ==
  ASSUME IInv, NEW s \in Slots, ForgetTrap(s)
  PROVE  IInv'
<1> DEFINE left == [slot EXCEPT ![s] = Unbound]
<1>1. slot \in [Slots -> TrapState] /\ conn \in Connection /\ air \in Air
      /\ silences' \in 0..MaxSilences /\ silences' = silences
  BY InSession DEF ForgetTrap
<1>2. /\ left \in [Slots -> TrapState]
      /\ \A u \in Slots : /\ SlotInv(left[u])
                          /\ left[u].active = IF u = s THEN "NONE" ELSE slot[u].active
  BY <1>1, UnboundType DEF IInv
<1>3. CASE conn.trap # s /\ slot' = left /\ UNCHANGED <<conn, air>>
  <2>1. slot[s].active = "NONE"
    BY <1>3 DEF IInv, SoleSession
  <2> HIDE DEF left
  <2> QED
    BY <1>1, <1>2, <1>3, <2>1, SessionAssumption
    DEF IInv, TypeOK, SoleSession, StillItsJob, ScriptInv, Connection, Slots
<1>4. CASE /\ conn.trap = s /\ slot' = left /\ conn' = Free("IDLE")
           /\ air' = [NoTraffic EXCEPT !.timers = Outdated(air.timers)]
  <2>1. conn' \in Connection /\ ScriptInv(conn') /\ conn'.trap = 0 /\ air' \in Air
    BY <1>4, FreeType, TrafficType DEF Links
  <2>2. \A u \in Slots : slot'[u].active = "NONE"
    BY <1>2, <1>4 DEF IInv, SoleSession
  <2> HIDE DEF left
  <2> QED
    BY <1>1, <1>2, <1>4, <2>1, <2>2 DEF IInv, TypeOK, SoleSession, StillItsJob
<1>5. CASE /\ conn.trap = s /\ slot' = left /\ UNCHANGED air
           /\ conn' = [conn EXCEPT !.ok = FALSE, !.disc = TRUE, !.link = Disconnect(@)]
  <2>1. /\ conn' \in Connection /\ conn'.trap = conn.trap /\ conn'.job = conn.job /\ ~conn'.ok
        /\ ScriptInv(conn')
    BY <1>5, AbortType
  <2>2. \A u \in Slots : slot'[u].active = "NONE"
    BY <1>2, <1>5 DEF IInv, SoleSession
  <2> HIDE DEF left
  <2> QED
    BY <1>1, <1>2, <1>5, <2>1, <2>2 DEF IInv, TypeOK, SoleSession, StillItsJob
<1> QED
  BY <1>3, <1>4, <1>5 DEF ForgetTrap, Abort

LEMMA RestartKeeps ==
  ASSUME IInv, Restart
  PROVE  IInv'
<1>1. PICK alerts \in SUBSET {s \in Slots : slot[s].bound # NoDev} :
        slot' = [s \in Slots |-> IF slot[s].bound = NoDev THEN Unbound
                                 ELSE [BoundTo(slot[s].bound) EXCEPT !.alert = s \in alerts]]
  BY DEF Restart
<1>2. ASSUME NEW s \in Slots
      PROVE  slot'[s] \in TrapState /\ SlotInv(slot'[s]) /\ slot'[s].active = "NONE"
  <2> DEFINE d == slot[s].bound
             b == BoundTo(d)
             on == s \in alerts
             t == [b EXCEPT !.alert = on]
  <2>1. d \in Devices \cup {NoDev}
    BY InSession DEF TrapState
  <2>2. b \in TrapState /\ SlotInv(b) /\ b.active = "NONE"
    BY <2>1, FreshType
  <2>3. slot'[s] = Unbound \/ slot'[s] = t
    BY <1>1
  <2> HIDE DEF b
  <2>4. on \in BOOLEAN
    OBVIOUS
  <2> HIDE DEF on
  <2>5. /\ t \in TrapState /\ t.active = b.active /\ t.attempts = b.attempts
        /\ t.pending = b.pending /\ t.failures = b.failures /\ t.bound = b.bound
    BY <2>2, <2>4 DEF TrapState
  <2> HIDE DEF t
  <2>6. SlotInv(t)
    BY <2>2, <2>5 DEF SlotInv
  <2> QED
    BY <2>2, <2>3, <2>5, <2>6, UnboundType
<1>3. slot' \in [Slots -> TrapState]
  <2>1. DOMAIN slot' = Slots /\ slot' = [s \in Slots |-> slot'[s]]
    BY <1>1
  <2> QED
    BY <1>2, <2>1
<1>4. conn' \in Connection /\ ScriptInv(conn') /\ conn'.trap = 0 /\ air' \in Air
  BY FreeType, TrafficType DEF Restart, Links
<1>5. silences' \in 0..MaxSilences
  BY InSession DEF Restart
<1> QED
  BY <1>2, <1>3, <1>4, <1>5 DEF IInv, TypeOK, SoleSession, StillItsJob

-----------------------------------------------------------------------------
(***************************************************************************)
(* The invariant holds at first, and every step keeps it.                  *)
(***************************************************************************)
LEMMA InitIInv == Init => IInv
<1> SUFFICES ASSUME Init PROVE IInv
  OBVIOUS
<1>1. conn \in Connection /\ ScriptInv(conn) /\ conn.trap = 0 /\ air \in Air
  BY FreeType, TrafficType DEF Init, Links
<1>2. silences \in 0..MaxSilences
  BY SessionAssumption DEF Init
<1>3. /\ slot \in [Slots -> TrapState]
      /\ \A s \in Slots : SlotInv(slot[s]) /\ slot[s].active = "NONE"
  BY UnboundType DEF Init
<1> QED
  BY <1>1, <1>2, <1>3 DEF IInv, TypeOK, SoleSession, StillItsJob

LEMMA StepIInv == IInv /\ [Next]_vars => IInv'
<1> SUFFICES ASSUME IInv, [Next]_vars PROVE IInv'
  OBVIOUS
<1>1. ASSUME NEW d \in Devices, Advertise(d) PROVE IInv'
  BY <1>1, AdvertiseKeeps
<1>2. CASE StackEvent
  BY <1>2, OpenKeeps, EndKeeps, SearchCompleteKeeps, ReadKeeps, WriteKeeps, NotifyOnKeeps,
     AnswerKeeps DEF StackEvent
<1>3. CASE Clock
  BY <1>3, OpTimeoutKeeps, AgesKeeps, JobTimeoutKeeps, EndKeeps, WaitKeeps, BackoffKeeps
  DEF Clock
<1>4. CASE User
  BY <1>4, ButtonKeeps, ForgetKeeps DEF User
<1>5. CASE Restart
  BY <1>5, RestartKeeps
<1>6. CASE UNCHANGED vars
  BY <1>6 DEF vars, IInv, TypeOK, SoleSession, StillItsJob, ScriptInv
<1> QED
  BY <1>1, <1>2, <1>3, <1>4, <1>5, <1>6 DEF Next

\* The inductive invariant of the one connection and its slots: whatever the
\* radio, the stack, the clocks and the user do, at any number of slots.
THEOREM InvariantHolds == Spec => []IInv
BY InitIInv, StepIInv, PTL DEF Spec

\* Every variable always has its type.
THEOREM TypeCorrect == Spec => []TypeOK
<1>1. IInv => TypeOK
  BY DEF IInv
<1> QED
  BY <1>1, InvariantHolds, PTL

\* on_job_started and on_job_finished always pair up: a slot never waits for a
\* session the connection is not running, at any number of slots.
THEOREM SoleSessionHolds == Spec => []SoleSession
<1>1. IInv => SoleSession
  BY DEF IInv
<1> QED
  BY <1>1, InvariantHolds, PTL

\* The handlers never look up an operation outside the script build_ops_ made.
THEOREM IndexInScriptHolds == Spec => []IndexInScript
<1>1. IInv => IndexInScript
  BY DEF IInv, ScriptInv, IndexInScript
<1> QED
  BY <1>1, InvariantHolds, PTL

\* on_job_started, on_command_delivered and on_job_finished together try one
\* request at most three times, however long the slot has been failing.
THEOREM RetryBoundHolds == Spec => []RetryBound
<1>1. IInv => RetryBound
  <2> SUFFICES ASSUME IInv, NEW s \in Slots PROVE slot[s].attempts <= GiveUpAfter
    BY DEF RetryBound
  <2>1. slot[s] \in TrapState /\ SlotInv(slot[s])
    BY InSession
  <2>2. slot[s].attempts \in Nat /\ slot[s].failures \in Nat
    BY <2>1, TrapAssumption DEF TrapState
  <2> QED
    BY <2>1, <2>2 DEF SlotInv, GiveUpAfter
<1> QED
  BY <1>1, InvariantHolds, PTL

-----------------------------------------------------------------------------
(***************************************************************************)
(* A session that may end well is with the trap its slot is bound to.      *)
(***************************************************************************)
Own == IInv /\ SessionOnItsOwnTrap

BindingsKept == \A s \in Slots : slot'[s].bound = slot[s].bound

\* The session of c goes on, perhaps failed.
GoesOn(c) == conn'.trap = c.trap /\ conn'.peer = c.peer /\ (conn'.ok => c.ok)

-----------------------------------------------------------------------------
(***************************************************************************)
(* How a step may treat a session and the bindings.                        *)
(***************************************************************************)
LEMMA OwnGoesOn ==
  ASSUME Own, GoesOn(conn), BindingsKept
  PROVE  SessionOnItsOwnTrap'
<1>1. conn.trap # 0 => conn.trap \in Slots
  BY InSession DEF Own
<1> QED
  BY <1>1 DEF Own, GoesOn, BindingsKept, SessionOnItsOwnTrap

LEMMA OwnFreed ==
  ASSUME conn'.trap = 0
  PROVE  SessionOnItsOwnTrap'
BY DEF SessionOnItsOwnTrap

LEMMA FinishFrees ==
  ASSUME NEW slots, NEW c, NEW link, NEW ok, Finish(slots, c, link, ok)
  PROVE  conn'.trap = 0
BY DEF Finish, Free

LEMMA SlotBinding ==
  ASSUME IInv, NEW s \in Slots, NEW r, r.bound = slot[s].bound,
         slot' = [slot EXCEPT ![s] = r]
  PROVE  BindingsKept
BY InSession DEF BindingsKept

\* A slot whose session may end well is bound: a slot that is not has none.
LEMMA OwnerIsBound ==
  ASSUME IInv, conn.trap # 0, conn.ok
  PROVE  slot[conn.trap].bound # NoDev
BY InSession DEF IInv, StillItsJob, ScriptInv, SlotInv

LEMMA MayConnectOwn ==
  ASSUME Own, NEW s \in Slots, NEW r \in TrapState, MaybeConnect(s, r),
         r.bound = slot[s].bound \/ slot[s].bound = NoDev
  PROVE  SessionOnItsOwnTrap'
<1>0. slot \in [Slots -> TrapState] /\ (conn.trap # 0 => conn.trap \in Slots)
  BY InSession DEF Own
<1>1. CASE conn' = Start(s, r) /\ slot' = [slot EXCEPT ![s] = JobStarted(r, NextJob(r))]
  <2>1. slot'[s].bound = r.bound
    BY <1>0, <1>1 DEF JobStarted, TrapState
  <2>2. conn'.trap = s /\ conn'.peer = r.bound
    BY <1>1 DEF Start, Free
  <2> QED
    BY <2>1, <2>2 DEF SessionOnItsOwnTrap
<1>2. CASE slot' = [slot EXCEPT ![s] = r] /\ UNCHANGED conn
  <2>1. CASE r.bound = slot[s].bound
    BY <1>2, <2>1, SlotBinding, OwnGoesOn DEF Own, GoesOn
  <2>2. CASE slot[s].bound = NoDev
    BY <1>0, <1>2, <2>2, OwnerIsBound DEF Own, SessionOnItsOwnTrap
  <2> QED
    BY <2>1, <2>2
<1> QED
  BY <1>1, <1>2 DEF MaybeConnect

\* Running on stays with the trap and mends nothing.
LEMMA RunFromGoesOn ==
  ASSUME NEW c \in Connection, NEW k, NEW a, RunFrom(c, k, a)
  PROVE  GoesOn(c)
<1>1. CASE c.disc
  BY <1>1 DEF RunFrom, GoesOn, Connection
<1>2. CASE ~c.disc
  <2>1. PICK j \in k..(Len(c.ops) + 1), ok \in BOOLEAN :
          LET c1 == [c EXCEPT !.idx = j, !.ok = ok, !.inFlight = FALSE,
                              !.owed = IF ok THEN @ ELSE {}] IN
          /\ ok => c.ok
          /\ conn' = RequestDisconnect(c1) \/ conn' = Issued(c1, c.ops[j])
    BY <1>2 DEF RunFrom
  <2> DEFINE c1 == [c EXCEPT !.idx = j, !.ok = ok, !.inFlight = FALSE,
                             !.owed = IF ok THEN @ ELSE {}]
  <2>2. conn' = RequestDisconnect(c1) \/ conn' = Issued(c1, c.ops[j])
    BY <2>1
  <2>4. CASE conn' = RequestDisconnect(c1)
    <3>1. conn'.trap = c.trap /\ conn'.peer = c.peer /\ conn'.ok = ok
      BY <2>4 DEF RequestDisconnect, Connection
    <3> QED
      BY <2>1, <3>1 DEF GoesOn
  <2>5. CASE conn' = Issued(c1, c.ops[j])
    <3>1. conn'.trap = c.trap /\ conn'.peer = c.peer /\ conn'.ok = ok
      BY <2>5 DEF Issued, Connection
    <3> QED
      BY <2>1, <3>1 DEF GoesOn
  <2> QED
    BY <2>2, <2>4, <2>5
<1> QED
  BY <1>1, <1>2

LEMMA OpDoneGoesOn ==
  ASSUME NEW c \in Connection, NEW a, OpDone(c, a)
  PROVE  GoesOn(c)
<1>1. RunFrom(c, conn.idx + 1, a)
  BY DEF OpDone
<1> QED
  BY <1>1, RunFromGoesOn

-----------------------------------------------------------------------------
(***************************************************************************)
(* What a trap's methods leave of its binding.                             *)
(***************************************************************************)
LEMMA MethodsKeepBinding ==
  ASSUME NEW r \in TrapState, NEW job
  PROVE  /\ Requested(r, job).bound = r.bound
         /\ BackoffCleared(r).bound = r.bound
         /\ CommandDelivered(r, job).bound = r.bound
         /\ \A type : OptionalUnanswered(r, type).bound = r.bound
         /\ \A o, status : Acknowledged(r, o, status).bound = r.bound
BY DEF Requested, BackoffCleared, CommandDelivered, OptionalUnanswered, Acknowledged, TrapState

LEMMA HeardKeepsBinding ==
  ASSUME NEW r \in TrapState, NEW t \in OnAdvertisement(r)
  PROVE  t.bound = r.bound
<1>1. CASE \E a \in BOOLEAN : t = [r EXCEPT !.alert = a, !.heard = TRUE]
  BY <1>1 DEF TrapState
<1>2. CASE \E a \in BOOLEAN : t = [Requested(r, "POLL") EXCEPT !.alert = a]
  BY <1>2 DEF Requested, TrapState
<1>3. CASE \E b \in {r.due, TRUE} : t = [r EXCEPT !.heard = TRUE, !.due = b]
  BY <1>3 DEF TrapState
<1> QED
  BY <1>1, <1>2, <1>3 DEF OnAdvertisement, C20Heard, A24Heard

-----------------------------------------------------------------------------
(***************************************************************************)
(* The actions.                                                            *)
(***************************************************************************)
LEMMA AdvertiseOwn ==
  ASSUME Own, NEW d \in Devices, Advertise(d)
  PROVE  SessionOnItsOwnTrap'
<1>1. PICK s \in Slots :
        /\ Takes(s, d)
        /\ \E r \in OnAdvertisement(IF slot[s].bound = d THEN slot[s] ELSE BoundTo(d)) :
             MaybeConnect(s, r)
  BY DEF Advertise
<1> DEFINE q == IF slot[s].bound = d THEN slot[s] ELSE BoundTo(d)
<1>2. slot[s] \in TrapState /\ SlotInv(slot[s])
  BY InSession DEF Own
<1>3. q \in TrapState /\ SlotInv(q)
  BY <1>2, FreshType
<1>4. q.bound = slot[s].bound \/ slot[s].bound = NoDev
  BY <1>1 DEF Takes, FirstFree
<1>5. PICK r \in OnAdvertisement(q) : MaybeConnect(s, r)
  BY <1>1
<1> HIDE DEF q
<1>6. r \in TrapState /\ r.bound = q.bound
  BY <1>3, HeardType, HeardKeepsBinding
<1> QED
  BY <1>4, <1>5, <1>6, MayConnectOwn

\* Steps of the link that leave the slots alone.
LEMMA LinkOwn ==
  ASSUME Own, Promote \/ OpenSucceeds \/ LinkClosed \/ JobAges
  PROVE  SessionOnItsOwnTrap'
<1>1. conn \in Connection /\ UNCHANGED slot
  BY InSession DEF Own, Promote, OpenSucceeds, LinkClosed, JobAges
<1>2. conn'.trap = conn.trap /\ conn'.peer = conn.peer /\ conn'.ok = conn.ok
  BY <1>1 DEF Promote, OpenSucceeds, LinkClosed, JobAges, Connection
<1> QED
  BY <1>1, <1>2, OwnGoesOn DEF GoesOn, BindingsKept

LEMMA EndOwn ==
  ASSUME OpenFails \/ LinkDown \/ HardTimeout
  PROVE  SessionOnItsOwnTrap'
<1>1. conn'.trap = 0
  BY FinishFrees DEF OpenFails, LinkDown, HardTimeout
<1> QED
  BY <1>1, OwnFreed

LEMMA SearchCompleteOwn ==
  ASSUME Own, SearchComplete
  PROVE  SessionOnItsOwnTrap'
<1> DEFINE r    == slot[conn.trap]
           ops  == BuildOps(IF IsC20(r) THEN "C20" ELSE "A24", conn.job, r.unanswered,
                            r.bound \in HistoryDevices)
           c    == [conn EXCEPT !.link = "ESTABLISHED", !.started = TRUE, !.ops = ops,
                             !.owed = Owing(ops)]
           mute == [c EXCEPT !.ok = FALSE, !.uartErr = TRUE]
<1>1. conn \in Connection
  BY InSession DEF Own
<1>2. RunFrom(c, 1, air) \/ conn' = RequestDisconnect(mute) \/ RunFrom(mute, 2, air)
  BY DEF SearchComplete
<1>3. ops \in Seq(Op)
  BY BuildOpsType
<1> HIDE DEF ops
<1>4. /\ c \in Connection /\ c.trap = conn.trap /\ c.peer = conn.peer /\ c.ok = conn.ok
  BY <1>1, <1>3, OwingType DEF Connection, Links
<1> HIDE DEF c
<1>5. mute \in Connection /\ mute.trap = conn.trap /\ mute.peer = conn.peer /\ ~mute.ok
  BY <1>4 DEF Connection
<1> HIDE DEF mute
<1>6. GoesOn(c) \/ GoesOn(mute)
  <2>1. CASE conn' = RequestDisconnect(mute)
    <3>1. conn'.trap = mute.trap /\ conn'.peer = mute.peer /\ conn'.ok = mute.ok
      BY <1>5, <2>1 DEF RequestDisconnect, Connection
    <3> QED
      BY <3>1 DEF GoesOn
  <2> QED
    BY <1>2, <1>4, <1>5, <2>1, RunFromGoesOn
<1>7. GoesOn(conn)
  BY <1>4, <1>5, <1>6 DEF GoesOn
<1>8. BindingsKept
  BY DEF SearchComplete, BindingsKept
<1> QED
  BY <1>7, <1>8, OwnGoesOn

\* An event at most ends the operation in flight.
LEMMA EventOwn ==
  ASSUME Own, NEW a, NEW c \in Connection, EventOnly(a) \/ OpDone(c, a),
         c.trap = conn.trap, c.peer = conn.peer, c.ok => conn.ok, BindingsKept
  PROVE  SessionOnItsOwnTrap'
<1>1. CASE EventOnly(a)
  BY <1>1, OwnGoesOn DEF GoesOn, EventOnly
<1>2. CASE OpDone(c, a)
  <2>1. GoesOn(c)
    BY <1>2, OpDoneGoesOn
  <2>2. conn'.trap = conn.trap /\ conn'.peer = conn.peer /\ (conn'.ok => conn.ok)
    BY <2>1 DEF GoesOn
  <2> QED
    BY <2>2, OwnGoesOn DEF GoesOn
<1> QED
  BY <1>1, <1>2

LEMMA ReadOwn ==
  ASSUME Own, ReadComplete
  PROVE  SessionOnItsOwnTrap'
<1> DEFINE o == Head(air.outstanding)
<1>1. conn \in Connection /\ BindingsKept
  BY InSession DEF Own, ReadComplete, BindingsKept
<1>2. PICK status \in Statuses :
        \/ EventOnly(Popped(o, status))
        \/ \E v \in {"zero", "some"} :
             OpDone([conn EXCEPT !.got = IF o.what \in Cursors /\ status = "OK"
                                         THEN [@ EXCEPT ![o.what] = v] ELSE @],
                    Popped(o, status))
  BY DEF ReadComplete
<1> DEFINE a == Popped(o, status)
<1>3. CASE EventOnly(a)
  BY <1>1, <1>3, EventOwn
<1>4. ASSUME NEW v \in {"zero", "some"},
             OpDone([conn EXCEPT !.got = IF o.what \in Cursors /\ status = "OK"
                                         THEN [@ EXCEPT ![o.what] = v] ELSE @], a)
      PROVE  SessionOnItsOwnTrap'
  <2> DEFINE g == IF o.what \in Cursors /\ status = "OK"
                  THEN [conn.got EXCEPT ![o.what] = v] ELSE conn.got
             c == [conn EXCEPT !.got = g]
  <2>1. OpDone(c, a)
    BY <1>1, <1>4 DEF Connection
  <2>2. g \in [Cursors -> {"none", "zero", "some"}]
    BY <1>1 DEF Connection
  <2> HIDE DEF g
  <2>3. c \in Connection /\ c.trap = conn.trap /\ c.peer = conn.peer /\ c.ok = conn.ok
    BY <1>1, <2>2 DEF Connection
  <2> HIDE DEF c, a
  <2> QED
    BY <1>1, <2>1, <2>3, EventOwn
<1> QED
  BY <1>2, <1>3, <1>4

\* A session marked as failed or mute.
LEMMA WeakenedOwn ==
  ASSUME conn \in Connection, NEW ok \in BOOLEAN, NEW mute \in BOOLEAN, NEW left \in SUBSET Nat,
         ok => conn.ok
  PROVE  LET c == [conn EXCEPT !.ok = ok, !.uartErr = mute, !.owed = left] IN
         c \in Connection /\ c.trap = conn.trap /\ c.peer = conn.peer /\ (c.ok => conn.ok)
BY DEF Connection

LEMMA WriteOwn ==
  ASSUME Own, WriteComplete
  PROVE  SessionOnItsOwnTrap'
<1> DEFINE o == Head(air.outstanding)
           q == slot[conn.trap]
<1>1. conn \in Connection /\ conn.trap \in Slots /\ q \in TrapState /\ IInv
  BY InSession DEF Own, WriteComplete
<1>2. PICK status \in Statuses :
        LET matched == conn.inFlight /\ conn.handle = Handle(o)
            r       == Acknowledged(q, o, status)
        IN
        /\ slot' = [slot EXCEPT ![conn.trap] =
                      IF matched /\ Current.command /\ status = "OK"
                      THEN CommandDelivered(r, conn.job) ELSE r]
        /\ IF matched /\ WriteEnds(status)
           THEN OpDone([conn EXCEPT !.ok = @ /\ WriteOk(status), !.owed = Paid(status)],
                       Popped(o, status))
           ELSE EventOnly(Popped(o, status))
  BY DEF WriteComplete
<1> DEFINE r  == Acknowledged(q, o, status)
           a  == Popped(o, status)
           ok == conn.ok /\ WriteOk(status)
           left == Paid(status)
           c  == [conn EXCEPT !.ok = ok, !.uartErr = conn.uartErr, !.owed = left]
<1>3. slot' = [slot EXCEPT ![conn.trap] = r]
      \/ slot' = [slot EXCEPT ![conn.trap] = CommandDelivered(r, conn.job)]
  BY <1>2
<1>4. r \in TrapState
  BY <1>1 DEF Acknowledged, TrapState
<1>5. r.bound = q.bound /\ CommandDelivered(r, conn.job).bound = q.bound
  BY <1>1, <1>4, MethodsKeepBinding
<1>6. BindingsKept
  BY <1>1, <1>3, <1>5, SlotBinding
<1>7. EventOnly(a) \/ OpDone(c, a)
  <2>1. OpDone([conn EXCEPT !.ok = ok, !.owed = left], a) \/ EventOnly(a)
    BY <1>1, <1>2 DEF Connection
  <2> HIDE DEF ok, left
  <2>2. [conn EXCEPT !.ok = ok, !.owed = left] = c
    BY <1>1 DEF Connection
  <2> HIDE DEF a, c
  <2> QED
    BY <2>1, <2>2
<1>8. ok \in BOOLEAN /\ (ok => conn.ok) /\ conn.uartErr \in BOOLEAN /\ left \in SUBSET Nat
  BY <1>1, PaidType DEF Connection
<1> HIDE DEF ok, left, a
<1>9. c \in Connection /\ c.trap = conn.trap /\ c.peer = conn.peer /\ (c.ok => conn.ok)
  BY <1>1, <1>8, WeakenedOwn
<1> HIDE DEF c
<1> QED
  BY <1>6, <1>7, <1>9, EventOwn

LEMMA NotifyOnOwn ==
  ASSUME Own, NotifyOnComplete
  PROVE  SessionOnItsOwnTrap'
<1> DEFINE o == Head(air.outstanding)
<1>1. conn \in Connection /\ BindingsKept
  BY InSession DEF Own, NotifyOnComplete, BindingsKept
<1>2. PICK status \in {"OK", "REFUSED"} :
        \/ OpDone([conn EXCEPT !.ok = @ /\ status = "OK", !.uartErr = @ \/ status # "OK",
                               !.owed = Paid(status)],
                  Popped(o, status))
        \/ EventOnly(Popped(o, status))
  BY DEF NotifyOnComplete
<1> DEFINE a    == Popped(o, status)
           ok   == conn.ok /\ status = "OK"
           mute == conn.uartErr \/ status # "OK"
           left == Paid(status)
           c    == [conn EXCEPT !.ok = ok, !.uartErr = mute, !.owed = left]
<1>3. EventOnly(a) \/ OpDone(c, a)
  BY <1>1, <1>2 DEF Connection
<1>4. ok \in BOOLEAN /\ (ok => conn.ok) /\ mute \in BOOLEAN /\ left \in SUBSET Nat
  BY <1>1, PaidType DEF Connection
<1> HIDE DEF ok, mute, left, a
<1>5. c \in Connection /\ c.trap = conn.trap /\ c.peer = conn.peer /\ (c.ok => conn.ok)
  BY <1>1, <1>4, WeakenedOwn
<1> HIDE DEF c
<1> QED
  BY <1>1, <1>3, <1>5, EventOwn

\* What a frame says is about the trap, not about its slot.
LEMMA FrameOwn ==
  ASSUME Own, conn.trap # 0, NEW type, NEW a, Frame(type, a)
  PROVE  SessionOnItsOwnTrap'
<1> DEFINE q == slot[conn.trap]
<1>1. conn \in Connection /\ conn.trap \in Slots /\ q \in TrapState /\ IInv
  BY InSession DEF Own
<1>2. BindingsKept
  <2>1. CASE UNCHANGED slot
    BY <2>1 DEF BindingsKept
  <2>2. ASSUME NEW h \in Healths, NEW b \in BOOLEAN,
               slot' = [slot EXCEPT ![conn.trap] = [q EXCEPT !.health = h, !.alert = b]]
        PROVE  BindingsKept
    <3>1. [q EXCEPT !.health = h, !.alert = b].bound = q.bound
      BY <1>1 DEF TrapState
    <3> QED
      BY <1>1, <2>2, <3>1, SlotBinding
  <2>3. CASE slot' = [slot EXCEPT ![conn.trap] = [q EXCEPT !.unanswered = {}]]
    <3>1. [q EXCEPT !.unanswered = {}].bound = q.bound
      BY <1>1 DEF TrapState
    <3> QED
      BY <1>1, <2>3, <3>1, SlotBinding
  <2>4. \/ \E h \in Healths, b \in BOOLEAN :
             slot' = [slot EXCEPT ![conn.trap] = [q EXCEPT !.health = h, !.alert = b]]
        \/ slot' = [slot EXCEPT ![conn.trap] = [q EXCEPT !.unanswered = {}]]
        \/ UNCHANGED slot
    BY <1>1 DEF Frame, FrameApplied
  <2> QED
    BY <2>1, <2>2, <2>3, <2>4
<1>3. EventOnly(a) \/ OpDone(Answered, a)
  BY DEF Frame, Answered
<1> QED
  BY <1>1, <1>2, <1>3, AnsweredType, EventOwn

LEMMA AnswerOwn ==
  ASSUME Own, Answer \/ NoAnswer \/ StateReport
  PROVE  SessionOnItsOwnTrap'
<1>1. CASE Answer
  BY <1>1, FrameOwn DEF Answer
<1>2. CASE StateReport
  BY <1>2, FrameOwn DEF StateReport
<1>3. CASE NoAnswer
  BY <1>3, OwnGoesOn DEF NoAnswer, GoesOn, BindingsKept
<1> QED
  BY <1>1, <1>2, <1>3

LEMMA OpTimeoutOwn ==
  ASSUME Own, OpTimeout
  PROVE  SessionOnItsOwnTrap'
<1> DEFINE q  == slot[conn.trap]
           t  == IF Current.optional /\ Current.kind = "REQUEST"
                 THEN OptionalUnanswered(q, Current.what) ELSE q
           ok == conn.ok /\ (Current.kind = "LOGS" \/ Current.optional)
           left == conn.owed
           c  == [conn EXCEPT !.ok = ok, !.uartErr = conn.uartErr, !.owed = left]
<1>1. conn \in Connection /\ conn.trap \in Slots /\ q \in TrapState /\ IInv
  BY InSession DEF Own, OpTimeout
<1>2. t.bound = q.bound
  BY <1>1, MethodsKeepBinding
<1>3. slot' = [slot EXCEPT ![conn.trap] = t]
  BY DEF OpTimeout
<1> HIDE DEF t
<1>4. BindingsKept
  BY <1>1, <1>2, <1>3, SlotBinding
<1>5. OpDone([conn EXCEPT !.ok = ok], air)
  BY <1>1 DEF OpTimeout, Connection
<1>6. ok \in BOOLEAN /\ (ok => conn.ok) /\ conn.uartErr \in BOOLEAN /\ left \in SUBSET Nat
  BY <1>1 DEF Connection
<1> HIDE DEF ok
<1>7. [conn EXCEPT !.ok = ok] = c
  BY <1>1 DEF Connection
<1> HIDE DEF left
<1>8. c \in Connection /\ c.trap = conn.trap /\ c.peer = conn.peer /\ (c.ok => conn.ok)
  BY <1>1, <1>6, WeakenedOwn
<1> HIDE DEF c
<1> QED
  BY <1>4, <1>5, <1>7, <1>8, EventOwn

LEMMA WaitOwn ==
  ASSUME Own, NEW t, WaitElapses(t)
  PROVE  SessionOnItsOwnTrap'
<1>1. conn \in Connection /\ BindingsKept
  BY InSession DEF Own, WaitElapses, BindingsKept
<1>2. \E a : EventOnly(a) \/ OpDone(conn, a)
  BY DEF WaitElapses
<1> QED
  BY <1>1, <1>2, EventOwn

LEMMA JobTimeoutOwn ==
  ASSUME Own, JobTimeout
  PROVE  SessionOnItsOwnTrap'
<1>1. conn \in Connection
  BY InSession DEF Own
<1>2. CASE Finish(slot, conn, "IDLE", FALSE)
  BY <1>2, FinishFrees, OwnFreed
<1>3. CASE conn' = [conn EXCEPT !.ok = FALSE, !.disc = TRUE, !.link = Disconnect(@)]
  BY <1>1, <1>3 DEF Connection, SessionOnItsOwnTrap
<1> QED
  BY <1>2, <1>3 DEF JobTimeout, Abort

LEMMA BackoffOwn ==
  ASSUME Own, NEW s \in Slots, BackoffElapses(s) \/ PollDue(s)
  PROVE  SessionOnItsOwnTrap'
<1>1. slot \in [Slots -> TrapState] /\ UNCHANGED conn
  BY InSession DEF Own, BackoffElapses, PollDue
<1>2. BindingsKept
  BY <1>1 DEF BackoffElapses, PollDue, BindingsKept, TrapState
<1> QED
  BY <1>1, <1>2, OwnGoesOn DEF GoesOn

LEMMA RequestOwn ==
  ASSUME Own, NEW s \in Slots, NEW r \in TrapState, SlotInv(r), r.bound = slot[s].bound,
         NEW job \in Jobs, RequestJob(s, r, job)
  PROVE  SessionOnItsOwnTrap'
<1>1. CASE slot' = [slot EXCEPT ![s] = r] /\ UNCHANGED conn
  BY <1>1, SlotBinding, OwnGoesOn DEF Own, GoesOn
<1>2. Requested(r, job).bound = slot[s].bound /\ Requested(r, job) \in TrapState
  BY RequestedType
<1>3. CASE slot' = [slot EXCEPT ![s] = Requested(r, job)] /\ UNCHANGED conn
  BY <1>2, <1>3, SlotBinding, OwnGoesOn DEF Own, GoesOn
<1>4. CASE MaybeConnect(s, Requested(r, job))
  BY <1>2, <1>4, MayConnectOwn
<1> QED
  BY <1>1, <1>3, <1>4 DEF RequestJob

LEMMA ButtonOwn ==
  ASSUME Own, NEW s \in Slots, PollNow(s) \/ TestFire(s) \/ ClearKillAlert(s)
  PROVE  SessionOnItsOwnTrap'
<1> DEFINE r == BackoffCleared(slot[s])
<1>1. r \in TrapState /\ SlotInv(r) /\ r.bound = slot[s].bound
  BY InSession, BackoffClearedType DEF Own
<1>2. {"POLL", "TEST_FIRE", "RESET_ALERT"} \subseteq Jobs
  BY DEF Jobs
<1>3. \/ \E job \in Jobs : RequestJob(s, r, job)
      \/ slot' = [slot EXCEPT ![s] = r] /\ UNCHANGED conn
      \/ slot' = [slot EXCEPT ![s] = [r EXCEPT !.alert = FALSE]] /\ UNCHANGED conn
  <2> HIDE DEF r
  <2>1. CASE PollNow(s)
    BY <1>2, <2>1 DEF PollNow, r
  <2>2. CASE TestFire(s)
    BY <1>2, <2>2 DEF TestFire, r
  <2>3. CASE ClearKillAlert(s)
    BY <1>2, <2>3 DEF ClearKillAlert, r
  <2> QED
    BY <2>1, <2>2, <2>3
<1> HIDE DEF r
<1>4. [r EXCEPT !.alert = FALSE].bound = slot[s].bound
  BY <1>1 DEF TrapState
<1> QED
  BY <1>1, <1>3, <1>4, RequestOwn, SlotBinding, OwnGoesOn DEF Own, GoesOn

\* Forget Trap marks the session of the slot it takes away.
LEMMA ForgetOwn ==
  ASSUME Own, NEW s \in Slots, ForgetTrap(s)
  PROVE  SessionOnItsOwnTrap'
<1> DEFINE left == [slot EXCEPT ![s] = Unbound]
<1>1. /\ slot \in [Slots -> TrapState] /\ conn \in Connection
      /\ conn.trap # 0 => conn.trap \in Slots
  BY InSession DEF Own
<1>2. CASE conn.trap # s /\ slot' = left /\ UNCHANGED conn
  BY <1>1, <1>2 DEF Own, SessionOnItsOwnTrap
<1>3. CASE conn' = Free("IDLE")
  BY <1>3, OwnFreed DEF Free
<1>4. CASE conn' = [conn EXCEPT !.ok = FALSE, !.disc = TRUE, !.link = Disconnect(@)]
  BY <1>1, <1>4 DEF Connection, SessionOnItsOwnTrap
<1> QED
  BY <1>2, <1>3, <1>4 DEF ForgetTrap, Abort

-----------------------------------------------------------------------------
LEMMA StepOwn == Own /\ [Next]_vars => Own'
<1> SUFFICES ASSUME Own, [Next]_vars PROVE SessionOnItsOwnTrap'
  BY StepIInv DEF Own
<1>1. ASSUME NEW d \in Devices, Advertise(d) PROVE SessionOnItsOwnTrap'
  BY <1>1, AdvertiseOwn
<1>2. CASE StackEvent
  BY <1>2, LinkOwn, EndOwn, SearchCompleteOwn, ReadOwn, WriteOwn, NotifyOnOwn, AnswerOwn
  DEF StackEvent
<1>3. CASE Clock
  BY <1>3, OpTimeoutOwn, LinkOwn, JobTimeoutOwn, EndOwn, WaitOwn, BackoffOwn DEF Clock
<1>4. CASE User
  BY <1>4, ButtonOwn, ForgetOwn DEF User
<1>5. CASE Restart
  BY <1>5, OwnFreed DEF Restart, Free
<1>6. CASE UNCHANGED vars
  BY <1>6 DEF vars, Own, SessionOnItsOwnTrap
<1> QED
  BY <1>1, <1>2, <1>3, <1>4, <1>5, <1>6 DEF Next

\* forget_trap, bind and maybe_connect_ together: whatever trap takes over a slot
\* whose session is still being hung up, a session that is counted as good was
\* with the trap the slot holds.
THEOREM SessionOnItsOwnTrapHolds == Spec => []SessionOnItsOwnTrap
<1>1. Init => Own
  BY InitIInv DEF Init, Own, SessionOnItsOwnTrap, Free
<1>2. Own => SessionOnItsOwnTrap
  BY DEF Own
<1> QED
  BY <1>1, <1>2, StepOwn, PTL DEF Spec

-----------------------------------------------------------------------------
(***************************************************************************)
(* A command's place in a script: only the registration for notifications  *)
(* and the wake-up come before it, and it comes once.                      *)
(***************************************************************************)
LeadsUp(op) ==
  \/ op.kind = "NOTIFY_ON" /\ ~op.command
  \/ op.kind = "REQUEST" /\ op.what = "SET_COMMAND"

CommandFirst(ops) ==
  \A j \in 1..Len(ops) : ops[j].command =>
    \A i \in 1..j : LeadsUp(ops[i]) /\ (ops[i].command => i = j)

NoneFrom(ops, k) == \A i \in k..Len(ops) : ~ops[i].command

LEMMA OneOp ==
  ASSUME NEW op \in Op, ~op.command
  PROVE  <<op>> \in Seq(Op) /\ NoneFrom(<<op>>, 1)
BY DEF NoneFrom

LEMMA NoOp == <<>> \in Seq(Op) /\ NoneFrom(<<>>, 1)
BY DEF NoneFrom

LEMMA NoneConcat ==
  ASSUME NEW s \in Seq(Op), NEW t \in Seq(Op), NoneFrom(s, 1), NoneFrom(t, 1)
  PROVE  s \o t \in Seq(Op) /\ NoneFrom(s \o t, 1)
<1>1. /\ s \o t \in Seq(Op) /\ Len(s \o t) = Len(s) + Len(t) /\ Len(s) \in Nat /\ Len(t) \in Nat
      /\ \A i \in 1..(Len(s) + Len(t)) : (s \o t)[i] = IF i <= Len(s) THEN s[i] ELSE t[i - Len(s)]
  BY ConcatProperties, LenProperties
<1>2. ASSUME NEW i \in 1..Len(s \o t) PROVE ~(s \o t)[i].command
  <2>1. CASE i <= Len(s)
    <3>1. i \in 1..Len(s) /\ (s \o t)[i] = s[i]
      BY <1>1, <2>1
    <3> QED
      BY <3>1 DEF NoneFrom
  <2>2. CASE ~(i <= Len(s))
    <3>1. i - Len(s) \in 1..Len(t) /\ (s \o t)[i] = t[i - Len(s)]
      BY <1>1, <2>2
    <3> QED
      BY <3>1 DEF NoneFrom
  <2> QED
    BY <2>1, <2>2
<1> QED
  BY <1>1, <1>2 DEF NoneFrom

\* What follows the command's part of a script has no command in it.
LEMMA FirstConcat ==
  ASSUME NEW s \in Seq(Op), NEW t \in Seq(Op), CommandFirst(s), NoneFrom(t, 1)
  PROVE  s \o t \in Seq(Op) /\ CommandFirst(s \o t)
<1> DEFINE u == s \o t
<1>1. /\ u \in Seq(Op) /\ Len(u) = Len(s) + Len(t) /\ Len(s) \in Nat /\ Len(t) \in Nat
      /\ \A i \in 1..(Len(s) + Len(t)) : u[i] = IF i <= Len(s) THEN s[i] ELSE t[i - Len(s)]
  BY ConcatProperties, LenProperties
<1> HIDE DEF u
<1>2. ASSUME NEW j \in 1..Len(u), u[j].command, NEW i \in 1..j
      PROVE  LeadsUp(u[i]) /\ (u[i].command => i = j)
  <2>1. CASE j <= Len(s)
    <3>1. j \in 1..Len(s) /\ u[j] = s[j] /\ u[i] = s[i]
      BY <1>1, <2>1
    <3> QED
      BY <1>2, <3>1 DEF CommandFirst
  <2>2. CASE ~(j <= Len(s))
    <3>1. j - Len(s) \in 1..Len(t) /\ u[j] = t[j - Len(s)]
      BY <1>1, <2>2
    <3> QED
      BY <1>2, <3>1 DEF NoneFrom
  <2> QED
    BY <2>1, <2>2
<1> QED
  BY <1>1, <1>2 DEF CommandFirst, u

\* The operations before the command, if all lead up to it, and it.
LEMMA FirstCommand ==
  ASSUME NEW s \in Seq(Op), NoneFrom(s, 1), \A i \in 1..Len(s) : LeadsUp(s[i])
  PROVE  /\ s \o <<Command, Settle>> \in Seq(Op) /\ CommandFirst(s \o <<Command, Settle>>)
<1> DEFINE t == <<Command, Settle>>
           u == s \o t
<1>1. Command \in Op /\ Settle \in Op /\ LeadsUp(Command) /\ ~Settle.command
  BY FixedOps DEF LeadsUp, Command, Request, Settle, Plain
<1>2. t \in Seq(Op) /\ Len(t) = 2 /\ t[1] = Command /\ t[2] = Settle
  BY <1>1
<1> HIDE DEF t
<1>3. /\ u \in Seq(Op) /\ Len(u) = Len(s) + Len(t) /\ Len(s) \in Nat /\ Len(t) = 2
      /\ \A i \in 1..(Len(s) + Len(t)) : u[i] = IF i <= Len(s) THEN s[i] ELSE t[i - Len(s)]
  <2>1. Len(s) \in Nat
    BY LenProperties
  <2>2. /\ s \o t \in Seq(Op) /\ Len(s \o t) = Len(s) + Len(t)
        /\ \A i \in 1..(Len(s) + Len(t)) :
             (s \o t)[i] = IF i <= Len(s) THEN s[i] ELSE t[i - Len(s)]
    BY <1>2, ConcatProperties
  <2> QED
    BY <1>2, <2>1, <2>2
<1> HIDE DEF u
<1>4. /\ \A i \in 1..Len(s) : LeadsUp(u[i]) /\ ~u[i].command
      /\ u[Len(s) + 1] = Command /\ u[Len(s) + 2] = Settle
  BY <1>2, <1>3 DEF NoneFrom
<1>5. ASSUME NEW j \in 1..Len(u), u[j].command PROVE j = Len(s) + 1
  <2>1. j \in 1..Len(s) \/ j = Len(s) + 1 \/ j = Len(s) + 2
    BY <1>3
  <2>2. j \notin 1..Len(s)
    BY <1>4, <1>5
  <2>3. j # Len(s) + 2
    BY <1>1, <1>4, <1>5
  <2> QED
    BY <2>1, <2>2, <2>3
<1>6. ASSUME NEW j \in 1..Len(u), u[j].command, NEW i \in 1..j
      PROVE  LeadsUp(u[i]) /\ (u[i].command => i = j)
  <2>1. j = Len(s) + 1
    BY <1>5, <1>6
  <2>2. i \in 1..Len(s) \/ i = Len(s) + 1
    BY <1>3, <2>1
  <2> QED
    BY <1>1, <1>4, <2>1, <2>2
<1> QED
  BY <1>3, <1>6 DEF CommandFirst, u, t

LEMMA NoneIsFirst ==
  ASSUME NEW s \in Seq(Op), NoneFrom(s, 1)
  PROVE  CommandFirst(s)
BY DEF NoneFrom, CommandFirst

LEMMA RequestQuiet ==
  ASSUME NEW type \in FrameTypes
  PROVE  ~Request(type).command /\ ~OptionalRequest(type).command
BY DEF Request, OptionalRequest, Plain

LEMMA PollHasNone ==
  ASSUME NEW unanswered, NEW historyFirmware
  PROVE  /\ C20Poll(unanswered, historyFirmware) \in Seq(Op)
         /\ NoneFrom(C20Poll(unanswered, historyFirmware), 1)
<1> DEFINE ask(type) == If(type \notin unanswered, <<OptionalRequest(type)>>)
           time    == If(WriteTime /\ ClockValid, <<Request("SET_TIME")>>)
           middle  == <<Request("FIRMWARE"), Request("DEVICE_STATE"), Request("BATTERY_LEVEL")>>
           history == If(historyFirmware, ask("KILL_HISTORY"))
           logs    == If(ClockValid, <<Logs>>)
           None(s) == s \in Seq(Op) /\ NoneFrom(s, 1)
<1>1. ASSUME NEW type \in FrameTypes PROVE None(ask(type))
  BY RequestOps, RequestQuiet, OneOp, NoOp DEF If
<1>2. None(ask("BOOTLOADER_VERSION")) /\ None(ask("INPUT_STATES")) /\ None(ask("KILL_HISTORY"))
  BY <1>1 DEF FrameTypes
<1>3. None(time)
  BY RequestOps, RequestQuiet, OneOp, NoOp DEF If, FrameTypes
<1>4. None(middle)
  <2>1. /\ Request("FIRMWARE") \in Op /\ ~Request("FIRMWARE").command
        /\ Request("DEVICE_STATE") \in Op /\ ~Request("DEVICE_STATE").command
        /\ Request("BATTERY_LEVEL") \in Op /\ ~Request("BATTERY_LEVEL").command
    BY RequestOps, RequestQuiet DEF FrameTypes
  <2> QED
    BY <2>1 DEF NoneFrom
<1>5. None(history)
  BY <1>2, NoOp DEF If
<1>6. None(logs)
  <2>1. ~Logs.command
    BY DEF Logs, Plain
  <2> QED
    BY <2>1, FixedOps, OneOp, NoOp DEF If
<1>7. C20Poll(unanswered, historyFirmware) =
        time \o ask("BOOTLOADER_VERSION") \o middle \o ask("INPUT_STATES") \o history \o logs
  BY DEF C20Poll
<1> DEFINE two   == time \o ask("BOOTLOADER_VERSION")
           three == two \o middle
           four  == three \o ask("INPUT_STATES")
           five  == four \o history
<1> HIDE DEF ask, time, middle, history, logs
<1>8. None(two)
  BY <1>2, <1>3, NoneConcat
<1> HIDE DEF two
<1>9. None(three)
  BY <1>4, <1>8, NoneConcat
<1> HIDE DEF three
<1>10. None(four)
  BY <1>2, <1>9, NoneConcat
<1> HIDE DEF four
<1>11. None(five)
  BY <1>5, <1>10, NoneConcat
<1> HIDE DEF five
<1>12. None(five \o logs)
  BY <1>6, <1>11, NoneConcat
<1> QED
  BY <1>7, <1>12 DEF two, three, four, five

LEMMA C20CommandFirst ==
  ASSUME NEW job, NEW unanswered, NEW historyFirmware
  PROVE  /\ CommandFirst(C20Script(job, unanswered, historyFirmware))
         /\ job \notin Commands => NoneFrom(C20Script(job, unanswered, historyFirmware), 1)
<1> DEFINE wake == If("SET_COMMAND" \notin unanswered, <<OptionalRequest("SET_COMMAND")>>)
           act  == If(job \in Commands, <<Command, Settle>>)
           poll == C20Poll(unanswered, historyFirmware)
           head == <<NotifyOn>> \o wake
           w    == OptionalRequest("SET_COMMAND")
<1>1. /\ NotifyOn \in Op /\ ~NotifyOn.command /\ LeadsUp(NotifyOn)
      /\ w \in Op /\ ~w.command /\ LeadsUp(w)
  <2>1. "SET_COMMAND" \in FrameTypes
    BY DEF FrameTypes
  <2>2. LeadsUp(NotifyOn) /\ ~NotifyOn.command /\ LeadsUp(w)
    BY DEF LeadsUp, NotifyOn, OptionalRequest, Request, Plain
  <2> QED
    BY <2>1, <2>2, FixedOps, RequestOps, RequestQuiet
<1> HIDE DEF w
<1>2. head \in Seq(Op) /\ NoneFrom(head, 1) /\ \A i \in 1..Len(head) : LeadsUp(head[i])
  <2>1. wake = <<>> \/ wake = <<w>>
    BY DEF If, w
  <2>2. <<NotifyOn>> \in Seq(Op) /\ NoneFrom(<<NotifyOn>>, 1) /\ Len(<<NotifyOn>>) = 1
    BY <1>1, OneOp
  <2>3. wake \in Seq(Op) /\ NoneFrom(wake, 1) /\ Len(wake) \in Nat
        /\ \A i \in 1..Len(wake) : wake[i] = w
    <3> HIDE DEF wake
    <3>1. CASE wake = <<>>
      BY <3>1, NoOp
    <3>2. CASE wake = <<w>>
      BY <1>1, <3>2, OneOp
    <3> QED
      BY <2>1, <3>1, <3>2
  <2> HIDE DEF wake
  <2>4. /\ Len(head) = 1 + Len(wake)
        /\ \A i \in 1..(1 + Len(wake)) :
             head[i] = IF i <= 1 THEN <<NotifyOn>>[i] ELSE wake[i - 1]
    BY <2>2, <2>3, ConcatProperties
  <2>5. head \in Seq(Op) /\ NoneFrom(head, 1)
    BY <2>2, <2>3, NoneConcat
  <2> HIDE DEF head
  <2>6. ASSUME NEW i \in 1..Len(head) PROVE LeadsUp(head[i])
    <3>1. CASE i = 1
      BY <1>1, <2>3, <2>4, <3>1
    <3>2. CASE i # 1
      <4>1. i - 1 \in 1..Len(wake) /\ head[i] = wake[i - 1]
        BY <2>3, <2>4, <3>2
      <4> QED
        BY <1>1, <2>3, <4>1
    <3> QED
      BY <3>1, <3>2
  <2> QED
    BY <2>5, <2>6
<1>3. C20Script(job, unanswered, historyFirmware) = head \o act \o poll
  BY DEF C20Script
<1>4. poll \in Seq(Op) /\ NoneFrom(poll, 1)
  BY PollHasNone
<1> HIDE DEF head, poll
<1>5. CASE job \in Commands
  <2>1. act = <<Command, Settle>>
    BY <1>5 DEF If
  <2> QED
    BY <1>2, <1>3, <1>4, <1>5, <2>1, FirstCommand, FirstConcat
<1>6. CASE job \notin Commands
  <2>1. act = <<>>
    BY <1>6 DEF If
  <2>2. head \o act \in Seq(Op) /\ NoneFrom(head \o act, 1)
    BY <1>2, <2>1, NoOp, NoneConcat
  <2>3. NoneFrom(head \o act \o poll, 1) /\ head \o act \o poll \in Seq(Op)
    BY <1>4, <2>2, NoneConcat
  <2> QED
    BY <1>3, <2>3, NoneIsFirst
<1> QED
  BY <1>5, <1>6

LEMMA A24HasNone == NoneFrom(A24Script, 1)
<1> DEFINE a == If(WriteTime /\ ClockValid, <<Write("TIME")>>)
           b == <<Read("SERIAL"), Read("FIRMWARE_CHAR"), Read("D20D"), Echo("D20D", "D20D"),
                  Read("D30D"), Read("D60D"), Read("VOLTAGE"), Read("RESISTANCE"),
                  Read("DEVICE_STATE_CHAR"), Read("E771"),
                  [Echo("E771", "E771") EXCEPT !.optional = TRUE],
                  Read("E773"), Read("E772"), Echo("D60D", "D20D"), CloseSession>>
<1>1. ASSUME NEW char \in Chars, NEW from \in Cursors
      PROVE  /\ ~Read(char).command /\ ~Write(char).command /\ ~Echo(char, from).command
             /\ ~[Echo(char, from) EXCEPT !.optional = TRUE].command
  BY DEF Read, Write, Echo, Plain
<1>2. ~CloseSession.command
  BY DEF CloseSession, Write, Plain
<1>3. a \in Seq(Op) /\ NoneFrom(a, 1)
  BY <1>1, CharOps, OneOp, NoOp DEF If, Chars, Cursors
<1>4. b \in Seq(Op)
  BY CharOps, FixedOps DEF Chars, Cursors
<1>5. Len(b) = 15
  OBVIOUS
<1>6. NoneFrom(b, 1)
  <2>1. /\ ~b[1].command /\ ~b[2].command /\ ~b[3].command /\ ~b[4].command /\ ~b[5].command
        /\ ~b[6].command /\ ~b[7].command /\ ~b[8].command /\ ~b[9].command /\ ~b[10].command
        /\ ~b[11].command /\ ~b[12].command /\ ~b[13].command /\ ~b[14].command /\ ~b[15].command
    BY <1>1, <1>2 DEF Chars, Cursors
  <2> HIDE DEF b
  <2>2. \A i \in 1..15 : ~b[i].command
    BY <2>1
  <2> QED
    BY <1>5, <2>2 DEF NoneFrom
<1>7. A24Script = a \o b
  BY DEF A24Script
<1> HIDE DEF a, b
<1> QED
  BY <1>3, <1>4, <1>6, <1>7, NoneConcat

LEMMA BuildOpsCommand ==
  ASSUME NEW model, NEW job, NEW unanswered, NEW historyFirmware
  PROVE  /\ CommandFirst(BuildOps(model, job, unanswered, historyFirmware))
         /\ job \notin Commands => NoneFrom(BuildOps(model, job, unanswered, historyFirmware), 1)
BY C20CommandFirst, A24HasNone, A24Ops, NoneIsFirst DEF BuildOps

-----------------------------------------------------------------------------
(***************************************************************************)
(* The inductive invariant.                                                *)
(*                                                                         *)
(* Once the gateway has taken note of the acknowledgement no request is    *)
(* queued, and a running session has its command behind it.  Up to its     *)
(* command a session in which nothing has timed out has one operation with *)
(* the stack at a time, and gets one answer to it, so that a write event   *)
(* the command is matched with is the command's own.                       *)
(***************************************************************************)
Settled(r) == "confirmed" \in r.acked => r.pending = "NONE"
Proven(r)  == r.delivered => "session" \in r.acked

SlotsKnow == \A s \in Slots : Settled(slot[s]) /\ (silences = 0 => Proven(slot[s]))

ConfirmedIsPast ==
  conn.trap # 0 /\ ~conn.disc /\ "confirmed" \in slot[conn.trap].acked =>
    IF conn.started THEN NoneFrom(conn.ops, conn.idx + 1) ELSE conn.job \notin Commands

NothingYet ==
  /\ conn.trap = 0 => ~conn.started
  /\ ~conn.started => air.outstanding = <<>> /\ air.answers = <<>> /\ "live" \notin air.timers

NoTimerYet == "live" \in air.timers => NoneFrom(conn.ops, conn.idx)

OneAtATime ==
  silences = 0 /\ conn.inFlight /\ ~NoneFrom(conn.ops, conn.idx) =>
    \/ air.outstanding = <<>> /\ Len(air.answers) <= 1
    \/ air.outstanding = <<Current>> /\ air.answers = <<>>

CInv ==
  /\ CommandFirst(conn.ops)
  /\ SlotsKnow /\ ConfirmedIsPast /\ NothingYet /\ NoTimerYet /\ OneAtATime

(***************************************************************************)
(* What a step must do: keep the invariant and not repeat a confirmed      *)
(* command.                                                                *)
(***************************************************************************)
NotResent == \A s \in Slots : Issues(s, Command) => "confirmed" \notin slot[s].acked

StepGood == CInv' /\ NotResent

-----------------------------------------------------------------------------
(***************************************************************************)
(* What a trap's methods do to what is known of its command.               *)
(***************************************************************************)
Mild(r, t) ==
  /\ Settled(r) => Settled(t)
  /\ Proven(r) => Proven(t)
  /\ "confirmed" \in t.acked => "confirmed" \in r.acked

LEMMA MildSame ==
  ASSUME NEW r, NEW t, t.acked = r.acked, t.pending = r.pending, t.delivered = r.delivered
  PROVE  Mild(r, t)
BY DEF Mild, Settled, Proven

LEMMA MildNew ==
  ASSUME NEW r, NEW t, t.acked = {}, t.delivered = FALSE
  PROVE  Mild(r, t)
BY DEF Mild, Settled, Proven

LEMMA MildThen ==
  ASSUME NEW r, NEW t, NEW u, Mild(r, t), Mild(t, u)
  PROVE  Mild(r, u)
BY DEF Mild

LEMMA RequestedMild ==
  ASSUME NEW r \in TrapState, NEW job
  PROVE  Mild(r, Requested(r, job))
<1>1. /\ Requested(r, job).acked = r.acked \ {"request", "confirmed"}
      /\ Requested(r, job).delivered = r.delivered
  BY DEF Requested, TrapState
<1> QED
  BY <1>1 DEF Mild, Settled, Proven

LEMMA BackoffClearedMild ==
  ASSUME NEW r \in TrapState
  PROVE  Mild(r, BackoffCleared(r))
<1> DEFINE t == BackoffCleared(r)
<1>1. t.acked = r.acked /\ t.pending = r.pending /\ t.delivered = r.delivered
  BY DEF BackoffCleared, TrapState
<1> HIDE DEF t
<1>2. Mild(r, t)
  BY <1>1, MildSame
<1> QED
  BY <1>2 DEF t

LEMMA JobStartedMild ==
  ASSUME NEW r \in TrapState, NEW job
  PROVE  Mild(r, JobStarted(r, job))
<1>1. /\ JobStarted(r, job).acked = r.acked \ {"session"} /\ ~JobStarted(r, job).delivered
      /\ JobStarted(r, job).pending = r.pending
  BY DEF JobStarted, TrapState
<1> QED
  BY <1>1 DEF Mild, Settled, Proven

LEMMA AcknowledgedMild ==
  ASSUME NEW r \in TrapState, NEW o, NEW status
  PROVE  Mild(r, Acknowledged(r, o, status))
<1> DEFINE t == Acknowledged(r, o, status)
<1>1. /\ t.pending = r.pending /\ t.delivered = r.delivered
      /\ r.acked \subseteq t.acked /\ ("confirmed" \in t.acked => "confirmed" \in r.acked)
  BY DEF Acknowledged, TrapState
<1> HIDE DEF t
<1>2. Mild(r, t)
  BY <1>1 DEF Mild, Settled, Proven
<1> QED
  BY <1>2 DEF t

LEMMA OptionalUnansweredMild ==
  ASSUME NEW r \in TrapState, NEW type
  PROVE  Mild(r, OptionalUnanswered(r, type))
<1> DEFINE t == OptionalUnanswered(r, type)
<1>1. t.acked = r.acked /\ t.pending = r.pending /\ t.delivered = r.delivered
  BY DEF OptionalUnanswered, TrapState
<1> HIDE DEF t
<1>2. Mild(r, t)
  BY <1>1, MildSame
<1> QED
  BY <1>2 DEF t

LEMMA FailedMild ==
  ASSUME NEW r \in TrapState, NEW job
  PROVE  Mild(r, Failed(r, job))
<1> DEFINE t == Failed(r, job)
<1>1. /\ t.acked = r.acked /\ t.delivered = r.delivered /\ t.pending \in {r.pending, "NONE"}
  BY DEF Failed, TrapState
<1> HIDE DEF t
<1>2. Mild(r, t)
  BY <1>1 DEF Mild, Settled, Proven
<1> QED
  BY <1>2 DEF t

LEMMA SucceededMild ==
  ASSUME NEW r \in TrapState, NEW job
  PROVE  Mild(r, Succeeded(r, job))
<1> DEFINE left == IF r.pending = job THEN "NONE" ELSE r.pending
           done == [r EXCEPT !.active = "NONE", !.failures = 0, !.backoff = FALSE, !.due = FALSE,
                             !.pending = left,
                             !.attempts = IF left = "NONE" THEN 0 ELSE @]
<1>0. 0 \in 0..MaxFailuresTracked
  BY TrapAssumption
<1>1. done \in TrapState /\ done.acked = r.acked /\ done.delivered = r.delivered
      /\ done.pending \in {r.pending, "NONE"}
  BY <1>0 DEF TrapState, Jobs
<1>2. Succeeded(r, job) = done \/ Succeeded(r, job) = Requested(done, "RESET_ALERT")
  BY DEF Succeeded
<1> HIDE DEF done
<1>3. Mild(r, done)
  BY <1>1 DEF Mild, Settled, Proven
<1> QED
  BY <1>1, <1>2, <1>3, RequestedMild, MildThen

LEMMA JobFinishedMild ==
  ASSUME NEW r \in TrapState, NEW job, NEW ok
  PROVE  Mild(r, JobFinished(r, job, ok))
BY SucceededMild, FailedMild DEF JobFinished

LEMMA HeardMild ==
  ASSUME NEW r \in TrapState, NEW t \in OnAdvertisement(r)
  PROVE  Mild(r, t)
<1>1. CASE \E a \in BOOLEAN : t = [r EXCEPT !.alert = a, !.heard = TRUE]
  <2>1. t.acked = r.acked /\ t.pending = r.pending /\ t.delivered = r.delivered
    BY <1>1 DEF TrapState
  <2> QED
    BY <2>1, MildSame
<1>2. CASE \E a \in BOOLEAN : t = [Requested(r, "POLL") EXCEPT !.alert = a]
  <2> DEFINE q == Requested(r, "POLL")
  <2>1. q \in TrapState /\ Mild(r, q)
    BY RequestedMild DEF Requested, TrapState, Jobs
  <2> HIDE DEF q
  <2>2. PICK a \in BOOLEAN : t = [q EXCEPT !.alert = a]
    BY <1>2 DEF q
  <2>3. Mild(q, t)
    BY <2>1, <2>2, MildSame DEF TrapState
  <2> QED
    BY <2>1, <2>3, MildThen
<1>3. CASE \E b \in {r.due, TRUE} : t = [r EXCEPT !.heard = TRUE, !.due = b]
  <2>1. t.acked = r.acked /\ t.pending = r.pending /\ t.delivered = r.delivered
    BY <1>3 DEF TrapState
  <2> QED
    BY <2>1, MildSame
<1> QED
  BY <1>1, <1>2, <1>3 DEF OnAdvertisement, C20Heard, A24Heard

LEMMA NewMild ==
  ASSUME NEW r, NEW d
  PROVE  Mild(r, Unbound) /\ Mild(r, BoundTo(d))
         /\ \A b : Mild(r, [BoundTo(d) EXCEPT !.alert = b])
<1>1. /\ Unbound.acked = {} /\ Unbound.delivered = FALSE
      /\ BoundTo(d).acked = {} /\ BoundTo(d).delivered = FALSE
      /\ \A b : LET t == [BoundTo(d) EXCEPT !.alert = b] IN t.acked = {} /\ t.delivered = FALSE
  BY DEF Unbound, BoundTo, Fresh
<1> QED
  BY <1>1, MildNew

-----------------------------------------------------------------------------
(***************************************************************************)
(* How a step may treat the slots, and a session.                          *)
(***************************************************************************)
SlotsMild == \A s \in Slots : Mild(slot[s], slot'[s])

\* The slots may learn of the acknowledgement of the command in flight.
SlotsGood ==
  /\ SlotsKnow'
  /\ conn.trap # 0 /\ "confirmed" \in slot'[conn.trap].acked =>
       "confirmed" \in slot[conn.trap].acked \/ (conn.inFlight /\ Current.command)

LEMMA MildIsGood ==
  ASSUME IInv, CInv, SlotsMild, silences' = 0 => silences = 0
  PROVE  SlotsGood
<1>1. conn.trap # 0 => conn.trap \in Slots
  BY InSession
<1> QED
  BY <1>1 DEF CInv, SlotsKnow, SlotsMild, Mild, SlotsGood

LEMMA OneSlot ==
  ASSUME IInv, NEW s \in Slots, NEW r, Mild(slot[s], r), slot' = [slot EXCEPT ![s] = r]
  PROVE  SlotsMild
<1>1. \A t \in Slots : slot'[t] = IF t = s THEN r ELSE slot[t]
  BY InSession
<1>2. \A t \in Slots : Mild(slot[t], slot[t])
  BY MildSame
<1> QED
  BY <1>1, <1>2 DEF SlotsMild

LEMMA NoSlot ==
  ASSUME UNCHANGED slot
  PROVE  SlotsMild
BY MildSame DEF SlotsMild

\* The session is where it was, perhaps asked to end.
Holds ==
  /\ conn'.trap = conn.trap /\ conn'.job = conn.job /\ conn'.ops = conn.ops
  /\ conn'.idx = conn.idx /\ conn'.started = conn.started
  /\ conn'.inFlight => conn.inFlight
  /\ conn.disc => conn'.disc

\* The command in flight is the last of its script.
LEMMA CommandIsLast ==
  ASSUME IInv, CInv, conn.inFlight, Current.command
  PROVE  NoneFrom(conn.ops, conn.idx + 1) /\ conn.started
<1>1. conn.started /\ conn.idx \in 1..Len(conn.ops) /\ Len(conn.ops) \in Nat
  BY InSession, LenProperties DEF IInv, ScriptInv, Connection
<1> SUFFICES ASSUME NEW i \in (conn.idx + 1)..Len(conn.ops), conn.ops[i].command PROVE FALSE
  BY <1>1 DEF NoneFrom
<1>2. i \in 1..Len(conn.ops) /\ conn.idx \in 1..i /\ conn.idx # i
  BY <1>1
<1> QED
  BY <1>2 DEF CInv, CommandFirst, Current

LEMMA HoldsGood ==
  ASSUME IInv, CInv, Holds, SlotsGood,
         air'.timers \subseteq air.timers, NothingYet', OneAtATime'
  PROVE  StepGood
<1>1. ConfirmedIsPast'
  BY CommandIsLast DEF CInv, Holds, ConfirmedIsPast, SlotsGood
<1>2. NoTimerYet'
  BY DEF CInv, Holds, NoTimerYet
<1>3. CommandFirst(conn'.ops)
  BY DEF CInv, Holds
<1>4. NotResent
  BY DEF NotResent, Issues, Holds
<1> QED
  BY <1>1, <1>2, <1>3, <1>4 DEF CInv, StepGood, SlotsGood

\* Nothing happens on the air.
LEMMA QuietGood ==
  ASSUME IInv, CInv, Holds, SlotsMild, UNCHANGED <<air, silences>>
  PROVE  StepGood
<1>1. NothingYet'
  BY DEF CInv, Holds, NothingYet
<1>2. OneAtATime'
  BY DEF CInv, Holds, OneAtATime, Current
<1> QED
  BY <1>1, <1>2, HoldsGood, MildIsGood

\* The connection is free after the step.
LEMMA FreedGood ==
  ASSUME IInv, CInv, SlotsMild, silences' = silences, NEW link, conn' = Free(link),
         air'.outstanding = <<>>, air'.answers = <<>>, "live" \notin air'.timers
  PROVE  StepGood
<1>1. SlotsKnow'
  BY MildIsGood DEF SlotsGood
<1>2. /\ conn'.trap = 0 /\ conn'.ops = <<>> /\ ~conn'.inFlight /\ ~conn'.started
  BY DEF Free
<1>3. CommandFirst(conn'.ops)
  BY <1>2, NoOp, NoneIsFirst
<1>4. ConfirmedIsPast' /\ NothingYet' /\ NoTimerYet' /\ OneAtATime'
  BY <1>2 DEF ConfirmedIsPast, NothingYet, NoTimerYet, OneAtATime
<1>5. NotResent
  BY <1>2 DEF NotResent, Issues
<1> QED
  BY <1>1, <1>3, <1>4, <1>5 DEF CInv, StepGood

LEMMA FinishGood ==
  ASSUME IInv, CInv, conn.trap # 0, UNCHANGED silences, NEW link, NEW ok,
         Finish(slot, conn, link, ok)
  PROVE  StepGood
<1>1. conn.trap \in Slots /\ slot[conn.trap] \in TrapState
  BY InSession
<1>2. slot' = [slot EXCEPT ![conn.trap] = JobFinished(slot[conn.trap], conn.job, ok)]
  BY DEF Finish
<1>3. SlotsMild
  BY <1>1, <1>2, JobFinishedMild, OneSlot
<1>4. air'.outstanding = <<>> /\ air'.answers = <<>> /\ "live" \notin air'.timers
  BY DEF Finish, NoTraffic, Outdated
<1> QED
  BY <1>3, <1>4, FreedGood DEF Finish

(***************************************************************************)
(* Running on from k: what is issued is at k or later, and up to the       *)
(* command nothing is left of the operations before it.                    *)
(***************************************************************************)
LEMMA RunsOn ==
  ASSUME IInv, CInv, NEW c \in Connection, NEW a \in Air, NEW k \in 1..(Len(c.ops) + 1),
         RunFrom(c, k, a), c.started, c.trap \in Slots, CommandFirst(c.ops),
         "live" \in a.timers => NoneFrom(c.ops, k),
         silences' = 0 /\ ~NoneFrom(c.ops, k) => a.outstanding = <<>> /\ a.answers = <<>>,
         SlotsKnow',
         ~c.disc /\ ("confirmed" \in slot[c.trap].acked \/ "confirmed" \in slot'[c.trap].acked)
           => NoneFrom(c.ops, k)
  PROVE  StepGood
<1>0. Len(c.ops) \in Nat /\ c.ops \in Seq(Op) /\ a.outstanding \in Seq(Op) /\ c.trap # 0
  <2>1. c.trap # 0
    BY SessionAssumption DEF Slots
  <2> QED
    BY <2>1, LenProperties DEF Connection, Air
<1>1. CASE c.disc
  <2>1. conn' = [c EXCEPT !.idx = k, !.inFlight = FALSE] /\ air' = a
    BY <1>1 DEF RunFrom
  <2>2. /\ conn'.ops = c.ops /\ conn'.idx = k /\ ~conn'.inFlight /\ conn'.disc
        /\ conn'.started /\ conn'.trap # 0
    BY <1>1, <1>0, <2>1 DEF Connection
  <2>3. ConfirmedIsPast' /\ NothingYet' /\ NoTimerYet' /\ OneAtATime'
    BY <2>1, <2>2 DEF ConfirmedIsPast, NothingYet, NoTimerYet, OneAtATime
  <2>4. NotResent
    BY <2>1, <2>2 DEF NotResent, Issues
  <2> QED
    BY <2>2, <2>3, <2>4 DEF CInv, StepGood
<1>2. CASE ~c.disc
  <2>1. PICK j \in k..(Len(c.ops) + 1), ok \in BOOLEAN :
          LET c1 == [c EXCEPT !.idx = j, !.ok = ok, !.inFlight = FALSE,
                              !.owed = IF ok THEN @ ELSE {}] IN
          \/ /\ j > Len(c.ops)
             /\ conn' = RequestDisconnect(c1)
             /\ air' = a
          \/ /\ j <= Len(c.ops)
             /\ conn' = Issued(c1, c.ops[j])
             /\ air' = IF c.ops[j].kind = "WAIT"
                       THEN [a EXCEPT !.timers = @ \cup {"live"}]
                       ELSE [a EXCEPT !.outstanding = Append(@, c.ops[j])]
    BY <1>2 DEF RunFrom
  <2> DEFINE c1 == [c EXCEPT !.idx = j, !.ok = ok, !.inFlight = FALSE,
                             !.owed = IF ok THEN @ ELSE {}]
  <2>2. j \in Nat /\ j >= k /\ k \in Nat /\ k >= 1 /\ j <= Len(c.ops) + 1
    BY <1>0
  <2>3. c1 \in Connection /\ c1.ops = c.ops /\ c1.idx = j /\ c1.trap = c.trap /\ c1.started
        /\ ~c1.disc
    <3>1. j \in Nat \ {0}
      BY <2>2
    <3>2. c1 \in Connection
      BY <3>1 DEF Connection
    <3> QED
      BY <1>2, <3>2 DEF Connection
  <2>4. NoneFrom(c.ops, k) => NoneFrom(c.ops, j) /\ NoneFrom(c.ops, j + 1)
    BY <1>0, <2>2 DEF NoneFrom
  <2>5. CASE j > Len(c.ops) /\ conn' = RequestDisconnect(c1) /\ air' = a
    <3>1. /\ conn'.ops = c.ops /\ conn'.idx = j /\ ~conn'.inFlight /\ conn'.disc
          /\ conn'.started /\ conn'.trap # 0
      BY <1>0, <2>3, <2>5 DEF RequestDisconnect, Connection
    <3>2. ConfirmedIsPast' /\ NothingYet' /\ NoTimerYet' /\ OneAtATime'
      BY <2>4, <2>5, <3>1 DEF ConfirmedIsPast, NothingYet, NoTimerYet, OneAtATime
    <3>3. NotResent
      BY <2>5, <3>1 DEF NotResent, Issues
    <3> QED
      BY <3>1, <3>2, <3>3 DEF CInv, StepGood
  <2>6. CASE /\ j <= Len(c.ops)
             /\ conn' = Issued(c1, c.ops[j])
             /\ air' = IF c.ops[j].kind = "WAIT"
                       THEN [a EXCEPT !.timers = @ \cup {"live"}]
                       ELSE [a EXCEPT !.outstanding = Append(@, c.ops[j])]
    <3>1. /\ conn'.ops = c.ops /\ conn'.idx = j /\ ~conn'.disc /\ conn'.started
          /\ conn'.trap = c.trap /\ conn'.trap # 0
      BY <1>0, <2>3, <2>6 DEF Issued, Connection
    <3>2. j \in 1..Len(c.ops) /\ c.ops[j] \in Op
      BY <1>0, <2>2, <2>6
    <3>4. "live" \in air'.timers => NoneFrom(c.ops, j)
      <4>1. CASE c.ops[j].kind = "WAIT"
        <5>1. ~LeadsUp(c.ops[j])
          BY <4>1 DEF LeadsUp
        <5> SUFFICES ASSUME NEW i \in j..Len(c.ops), c.ops[i].command PROVE FALSE
          BY DEF NoneFrom
        <5>2. i \in 1..Len(c.ops) /\ j \in 1..i
          BY <1>0, <2>2
        <5> QED
          BY <5>1, <5>2 DEF CommandFirst
      <4>2. CASE c.ops[j].kind # "WAIT"
        <5>1. air'.timers = a.timers
          BY <2>6, <4>2 DEF Air
        <5> QED
          BY <2>4, <5>1
      <4> QED
        BY <4>1, <4>2
    <3>5. ASSUME silences' = 0, ~NoneFrom(c.ops, j)
          PROVE  air'.outstanding = <<c.ops[j]>> /\ air'.answers = <<>>
      <4>1. a.outstanding = <<>> /\ a.answers = <<>>
        BY <2>4, <3>5
      <4>2. c.ops[j].kind # "WAIT"
        BY <2>6, <3>4, <3>5 DEF Air
      <4>3. air' = [a EXCEPT !.outstanding = Append(@, c.ops[j])]
        BY <2>6, <4>2
      <4>4. air'.outstanding = Append(a.outstanding, c.ops[j]) /\ air'.answers = a.answers
        BY <4>3 DEF Air
      <4> QED
        BY <3>2, <4>1, <4>4
    <3>6. ConfirmedIsPast' /\ NothingYet' /\ NoTimerYet'
      BY <1>2, <2>4, <3>1, <3>4 DEF ConfirmedIsPast, NothingYet, NoTimerYet
    <3>7. OneAtATime'
      BY <3>1, <3>5 DEF OneAtATime, Current
    <3>8. NotResent
      <4> SUFFICES ASSUME NEW s \in Slots, Issues(s, Command), "confirmed" \in slot[s].acked
                   PROVE  FALSE
        BY DEF NotResent
      <4>1. s = c.trap /\ c.ops[j] = Command
        BY <3>1 DEF Issues
      <4>2. NoneFrom(c.ops, j)
        BY <1>2, <2>4, <4>1
      <4>3. ~c.ops[j].command
        BY <3>2, <4>2 DEF NoneFrom
      <4> QED
        BY <4>1, <4>3 DEF Command, Request, Plain
    <3> QED
      BY <3>1, <3>6, <3>7, <3>8 DEF CInv, StepGood
  <2> QED
    BY <2>1, <2>5, <2>6
<1> QED
  BY <1>1, <1>2

LEMMA MayConnectGood ==
  ASSUME IInv, CInv, NEW s \in Slots, NEW r \in TrapState, Mild(slot[s], r),
         MaybeConnect(s, r), UNCHANGED <<air, silences>>
  PROVE  StepGood
<1>1. CASE /\ conn.trap = 0 /\ conn' = Start(s, r)
           /\ slot' = [slot EXCEPT ![s] = JobStarted(r, NextJob(r))]
  <2> DEFINE t == JobStarted(r, NextJob(r))
  <2>1. Mild(slot[s], t) /\ Mild(r, t)
    BY JobStartedMild, MildThen
  <2>2. slot' = [slot EXCEPT ![s] = t] /\ slot \in [Slots -> TrapState]
    BY <1>1, InSession
  <2> HIDE DEF t
  <2>3. SlotsMild
    BY <2>1, <2>2, OneSlot
  <2>4. SlotsKnow'
    BY <2>3, MildIsGood DEF SlotsGood
  <2>5. /\ conn'.trap = s /\ conn'.job = NextJob(r) /\ conn'.ops = <<>>
        /\ ~conn'.inFlight /\ ~conn'.started
    BY <1>1 DEF Start, Free
  <2>6. ConfirmedIsPast'
    <3> SUFFICES ASSUME "confirmed" \in t.acked PROVE NextJob(r) \notin Commands
      BY <2>2, <2>5 DEF ConfirmedIsPast
    <3>1. Settled(r) /\ "confirmed" \in r.acked
      BY <2>1 DEF CInv, SlotsKnow, Mild
    <3> QED
      BY <3>1 DEF Settled, NextJob, Commands
  <2>7. NothingYet' /\ NoTimerYet' /\ OneAtATime'
    <3>1. s # 0
      BY SessionAssumption DEF Slots
    <3>2. air.outstanding = <<>> /\ air.answers = <<>> /\ "live" \notin air.timers
      BY <1>1 DEF CInv, NothingYet
    <3> QED
      BY <2>5, <3>1, <3>2 DEF NothingYet, NoTimerYet, OneAtATime
  <2>8. NotResent
    BY <1>1, <2>5 DEF NotResent, Issues
  <2>9. CommandFirst(conn'.ops)
    BY <2>5, NoOp, NoneIsFirst
  <2> QED
    BY <2>4, <2>6, <2>7, <2>8, <2>9 DEF CInv, StepGood
<1>2. CASE slot' = [slot EXCEPT ![s] = r] /\ UNCHANGED conn
  BY <1>2, OneSlot, QuietGood DEF Holds
<1> QED
  BY <1>1, <1>2 DEF MaybeConnect

(***************************************************************************)
(* The operation in flight ends, with the connection changed to c.         *)
(***************************************************************************)
LEMMA EndsGood ==
  ASSUME IInv, CInv, conn.trap # 0, conn.inFlight, NEW c \in Connection, NEW a \in Air,
         c.trap = conn.trap, c.ops = conn.ops, c.started = conn.started, c.disc = conn.disc,
         OpDone(c, a), SlotsGood,
         "live" \in a.timers => "live" \in air.timers,
         silences' = 0 /\ ~NoneFrom(conn.ops, conn.idx + 1) =>
           a.outstanding = <<>> /\ a.answers = <<>>
  PROVE  StepGood
<1> DEFINE k == conn.idx + 1
<1>1. conn.started /\ conn.idx \in 1..Len(conn.ops) /\ Len(conn.ops) \in Nat
      /\ conn.trap \in Slots
  BY InSession, LenProperties DEF IInv, ScriptInv, Connection
<1>2. k \in 1..(Len(c.ops) + 1) /\ RunFrom(c, k, a)
  BY <1>1 DEF OpDone
<1>3. NoneFrom(conn.ops, conn.idx) => NoneFrom(conn.ops, k)
  BY <1>1 DEF NoneFrom
<1> HIDE DEF k
<1>4. "live" \in a.timers => NoneFrom(c.ops, k)
  BY <1>3 DEF CInv, NoTimerYet
<1>5. ~c.disc /\ ("confirmed" \in slot[c.trap].acked \/ "confirmed" \in slot'[c.trap].acked)
        => NoneFrom(c.ops, k)
  <2>1. ~conn.disc /\ "confirmed" \in slot[conn.trap].acked => NoneFrom(conn.ops, k)
    BY <1>1 DEF CInv, ConfirmedIsPast, k
  <2>2. Current.command => NoneFrom(conn.ops, k)
    BY CommandIsLast DEF k
  <2> QED
    BY <2>1, <2>2 DEF SlotsGood
<1>6. silences' = 0 /\ ~NoneFrom(c.ops, k) => a.outstanding = <<>> /\ a.answers = <<>>
  BY DEF k
<1>7. c.started /\ c.trap \in Slots /\ CommandFirst(c.ops) /\ SlotsKnow'
  BY <1>1 DEF CInv, SlotsGood
<1> QED
  BY <1>2, <1>4, <1>5, <1>6, <1>7, RunsOn

\* Up to the command, what the stack has been given is the operation in flight.
LEMMA UpToTheCommand ==
  ASSUME IInv, CInv, conn.inFlight, ~NoneFrom(conn.ops, conn.idx)
  PROVE  /\ LeadsUp(Current)
         /\ silences = 0 /\ air.outstanding # <<>> =>
              /\ Head(air.outstanding) = Current /\ Tail(air.outstanding) = <<>>
              /\ air.answers = <<>>
<1>1. conn.idx \in 1..Len(conn.ops) /\ Len(conn.ops) \in Nat
  BY InSession, LenProperties DEF IInv, ScriptInv, Connection
<1>2. PICK j \in conn.idx..Len(conn.ops) : conn.ops[j].command
  BY DEF NoneFrom
<1>3. j \in 1..Len(conn.ops) /\ conn.idx \in 1..j
  BY <1>1
<1>4. LeadsUp(Current)
  BY <1>2, <1>3 DEF CInv, CommandFirst, Current
<1>5. ASSUME silences = 0, air.outstanding # <<>>
      PROVE  air.outstanding = <<Current>> /\ air.answers = <<>>
  BY <1>5 DEF CInv, OneAtATime
<1>6. Head(<<Current>>) = Current /\ Tail(<<Current>>) = <<>>
  OBVIOUS
<1> QED
  BY <1>4, <1>5, <1>6

LEMMA CommandAhead ==
  ASSUME IInv, conn.inFlight
  PROVE  /\ Current.command => ~NoneFrom(conn.ops, conn.idx)
         /\ ~NoneFrom(conn.ops, conn.idx + 1) => ~NoneFrom(conn.ops, conn.idx)
<1>1. conn.idx \in 1..Len(conn.ops) /\ Len(conn.ops) \in Nat
  BY InSession, LenProperties DEF IInv, ScriptInv, Connection
<1> QED
  BY <1>1 DEF NoneFrom, Current

\* What the stack's report on its oldest operation leaves of the traffic.
LEMMA PoppedParts ==
  ASSUME air \in Air, NEW status, air.outstanding # <<>>
  PROVE  LET o == Head(air.outstanding)
             a == Popped(o, status) IN
         /\ a \in Air /\ a.outstanding = Tail(air.outstanding) /\ a.timers = air.timers
         /\ a.answers = air.answers \/ (a.answers = Append(air.answers, o.what)
                                        /\ o.kind \in Requests /\ status = "OK")
<1> DEFINE o == Head(air.outstanding)
<1>1. Popped(o, status) \in Air
  BY PoppedType
<1>2. /\ Popped(o, status).outstanding = Tail(air.outstanding)
      /\ Popped(o, status).timers = air.timers
      /\ Popped(o, status).answers = IF o.kind \in Requests /\ status = "OK" /\ ~conn.uartErr
                                     THEN Append(air.answers, o.what) ELSE air.answers
  BY DEF Popped, Air
<1> QED
  BY <1>1, <1>2

\* The report comes for an operation that is over, or does not end the one in flight.
LEMMA PoppedGood ==
  ASSUME IInv, CInv, air.outstanding # <<>>, NEW status, SlotsGood, UNCHANGED silences,
         EventOnly(Popped(Head(air.outstanding), status))
  PROVE  StepGood
<1> DEFINE o == Head(air.outstanding)
           a == Popped(o, status)
<1>1. conn' = conn /\ air' = a
  BY DEF EventOnly
<1>2. /\ a.outstanding = Tail(air.outstanding) /\ a.timers = air.timers
      /\ a.answers = air.answers \/ a.answers = Append(air.answers, o.what)
  BY PoppedParts, InSession
<1> HIDE DEF a
<1>3. NothingYet'
  BY <1>1 DEF CInv, NothingYet
<1>4. OneAtATime'
  <2> SUFFICES ASSUME silences = 0, conn.inFlight, ~NoneFrom(conn.ops, conn.idx)
               PROVE  a.outstanding = <<>> /\ Len(a.answers) <= 1
    BY <1>1 DEF OneAtATime
  <2>1. Tail(air.outstanding) = <<>> /\ air.answers = <<>>
    BY UpToTheCommand
  <2> DEFINE w == o.what
  <2>2. a.answers = <<>> \/ a.answers = Append(<<>>, w)
    BY <1>2, <2>1
  <2> HIDE DEF o, w
  <2>3. Len(<<>>) = 0 /\ Len(Append(<<>>, w)) = 1
    OBVIOUS
  <2>4. Len(a.answers) = 0 \/ Len(a.answers) = 1
    BY <2>2, <2>3, Zenon
  <2>5. Len(a.answers) <= 1
    <3> DEFINE n == Len(a.answers)
    <3>1. n = 0 \/ n = 1
      BY <2>4
    <3> HIDE DEF n
    <3>2. n <= 1
      BY <3>1
    <3> QED
      BY <3>2 DEF n
  <2>6. a.outstanding = <<>>
    BY <1>2, <2>1, Zenon
  <2> QED
    BY <2>5, <2>6
<1>5. Holds
  BY <1>1 DEF Holds
<1> QED
  BY <1>1, <1>2, <1>3, <1>4, <1>5, HoldsGood

-----------------------------------------------------------------------------
(***************************************************************************)
(* The actions, one lemma each or one per kind.                            *)
(***************************************************************************)
LEMMA AdvertiseGood ==
  ASSUME IInv, CInv, NEW d \in Devices, Advertise(d)
  PROVE  StepGood
<1>1. PICK s \in Slots :
        \E r \in OnAdvertisement(IF slot[s].bound = d THEN slot[s] ELSE BoundTo(d)) :
          MaybeConnect(s, r)
  BY DEF Advertise
<1> DEFINE q == IF slot[s].bound = d THEN slot[s] ELSE BoundTo(d)
<1>2. slot[s] \in TrapState /\ SlotInv(slot[s])
  BY InSession
<1>3. q \in TrapState /\ SlotInv(q)
  BY <1>2, FreshType
<1>4. Mild(slot[s], q)
  BY NewMild, MildSame
<1>5. PICK r \in OnAdvertisement(q) : MaybeConnect(s, r)
  BY <1>1
<1> HIDE DEF q
<1>6. r \in TrapState /\ Mild(slot[s], r)
  BY <1>3, <1>4, HeardType, HeardMild, MildThen
<1>7. UNCHANGED <<air, silences>>
  BY DEF Advertise
<1> QED
  BY <1>5, <1>6, <1>7, MayConnectGood

\* Steps of the link that leave the slots alone.
LEMMA LinkGood ==
  ASSUME IInv, CInv, Promote \/ OpenSucceeds \/ LinkClosed \/ JobAges
  PROVE  StepGood
<1>1. conn \in Connection /\ UNCHANGED <<slot, air, silences>>
  BY InSession DEF Promote, OpenSucceeds, LinkClosed, JobAges
<1>2. Holds
  BY <1>1 DEF Promote, OpenSucceeds, LinkClosed, JobAges, Connection, Holds
<1> QED
  BY <1>1, <1>2, NoSlot, QuietGood

LEMMA EndGood ==
  ASSUME IInv, CInv, OpenFails \/ LinkDown \/ HardTimeout
  PROVE  StepGood
BY FinishGood DEF OpenFails, LinkDown, HardTimeout

LEMMA SearchCompleteGood ==
  ASSUME IInv, CInv, SearchComplete
  PROVE  StepGood
<1> DEFINE r    == slot[conn.trap]
           ops  == BuildOps(IF IsC20(r) THEN "C20" ELSE "A24", conn.job, r.unanswered,
                            r.bound \in HistoryDevices)
           c    == [conn EXCEPT !.link = "ESTABLISHED", !.started = TRUE, !.ops = ops,
                             !.owed = Owing(ops)]
           mute == [c EXCEPT !.ok = FALSE, !.uartErr = TRUE]
<1>1. /\ conn.trap # 0 /\ ~conn.started /\ UNCHANGED <<slot, silences>>
      /\ \/ RunFrom(c, 1, air)
         \/ IsC20(r) /\ conn' = RequestDisconnect(mute) /\ UNCHANGED air
         \/ IsC20(r) /\ RunFrom(mute, 2, air)
  BY DEF SearchComplete
<1>2. conn \in Connection /\ air \in Air /\ conn.trap \in Slots /\ ~conn.inFlight
  BY <1>1, InSession DEF IInv, ScriptInv
<1>3. SlotsKnow'
  BY <1>1, NoSlot, MildIsGood DEF SlotsGood
<1>4. air.outstanding = <<>> /\ air.answers = <<>> /\ "live" \notin air.timers
  BY <1>1 DEF CInv, NothingYet
<1>5. /\ ops \in Seq(Op) /\ (IsC20(r) => Len(ops) >= 1) /\ CommandFirst(ops)
      /\ conn.job \notin Commands => NoneFrom(ops, 1)
  BY BuildOpsType, BuildOpsCommand
<1>6. ~conn.disc /\ "confirmed" \in r.acked => NoneFrom(ops, 1)
  BY <1>1, <1>5 DEF CInv, ConfirmedIsPast
<1>7. slot'[conn.trap] = r
  BY <1>1
<1> HIDE DEF ops, r
<1>8. /\ c \in Connection /\ c.trap = conn.trap /\ c.disc = conn.disc /\ c.ops = ops /\ c.started
  BY <1>2, <1>5, OwingType DEF Connection, Links
<1> HIDE DEF c
<1>9. /\ mute \in Connection /\ mute.trap = c.trap /\ mute.disc = c.disc /\ mute.ops = c.ops
      /\ mute.started
  BY <1>8 DEF Connection
<1> HIDE DEF mute
<1>10. Len(ops) \in Nat
  BY <1>5, LenProperties
<1>11. /\ ~conn.disc
       /\ "confirmed" \in slot[conn.trap].acked \/ "confirmed" \in slot'[conn.trap].acked
       => NoneFrom(ops, 1)
  BY <1>6, <1>7 DEF r
<1>12. CASE RunFrom(c, 1, air)
  <2>1. 1 \in 1..(Len(c.ops) + 1)
    BY <1>8, <1>10
  <2> QED
    BY <1>2, <1>3, <1>4, <1>5, <1>8, <1>11, <1>12, <2>1, RunsOn
<1>13. CASE IsC20(r) /\ conn' = RequestDisconnect(mute) /\ UNCHANGED air
  <2>1. /\ conn'.trap = conn.trap /\ conn'.ops = ops /\ conn'.started /\ conn'.disc
        /\ ~conn'.inFlight
    BY <1>8, <1>9, <1>13 DEF RequestDisconnect, Connection
  <2>2. ConfirmedIsPast' /\ NothingYet' /\ NoTimerYet' /\ OneAtATime'
    BY <1>1, <1>4, <1>13, <2>1 DEF ConfirmedIsPast, NothingYet, NoTimerYet, OneAtATime
  <2>3. NotResent
    BY <1>13, <2>1 DEF NotResent, Issues
  <2> QED
    BY <1>3, <1>5, <2>1, <2>2, <2>3 DEF CInv, StepGood
<1>14. CASE IsC20(r) /\ RunFrom(mute, 2, air)
  <2>1. 2 \in 1..(Len(mute.ops) + 1)
    BY <1>5, <1>8, <1>9, <1>10, <1>14
  <2>2. NoneFrom(ops, 1) => NoneFrom(ops, 2)
    BY <1>10 DEF NoneFrom
  <2> QED
    BY <1>2, <1>3, <1>4, <1>5, <1>8, <1>9, <1>11, <1>14, <2>1, <2>2, RunsOn
<1> QED
  BY <1>1, <1>12, <1>13, <1>14

\* A read is not among the operations before a command.
LEMMA ReadGood ==
  ASSUME IInv, CInv, ReadComplete
  PROVE  StepGood
<1> DEFINE o == Head(air.outstanding)
<1>1. conn.trap # 0 /\ air.outstanding # <<>> /\ UNCHANGED <<slot, silences>>
  BY DEF ReadComplete
<1>2. PICK status \in Statuses :
        IF conn.inFlight /\ Current.kind = "READ" /\ conn.handle = Handle(o)
        THEN \E v \in {"zero", "some"} :
               OpDone([conn EXCEPT !.got = IF o.what \in Cursors /\ status = "OK"
                                           THEN [@ EXCEPT ![o.what] = v] ELSE @],
                      Popped(o, status))
        ELSE EventOnly(Popped(o, status))
  BY DEF ReadComplete
<1>3. SlotsGood
  BY <1>1, NoSlot, MildIsGood
<1>4. CASE EventOnly(Popped(o, status))
  BY <1>1, <1>3, <1>4, PoppedGood
<1>5. ASSUME conn.inFlight, Current.kind = "READ", NEW v \in {"zero", "some"},
             OpDone([conn EXCEPT !.got = IF o.what \in Cursors /\ status = "OK"
                                         THEN [@ EXCEPT ![o.what] = v] ELSE @],
                    Popped(o, status))
      PROVE  StepGood
  <2> DEFINE got == IF o.what \in Cursors /\ status = "OK"
                    THEN [conn.got EXCEPT ![o.what] = v] ELSE conn.got
             c == [conn EXCEPT !.got = got]
             a == Popped(o, status)
  <2>1. conn.got \in [Cursors -> {"none", "zero", "some"}] /\ conn \in Connection
    BY InSession DEF Connection
  <2>2. got \in [Cursors -> {"none", "zero", "some"}]
    BY <2>1
  <2>3. OpDone(c, a)
    BY <1>5, <2>1 DEF Connection
  <2>4. a \in Air /\ a.timers = air.timers
    BY <1>1, InSession, PoppedParts
  <2> HIDE DEF got, a
  <2>5. /\ c \in Connection /\ c.trap = conn.trap /\ c.ops = conn.ops
        /\ c.started = conn.started /\ c.disc = conn.disc
    BY <2>1, <2>2 DEF Connection
  <2> HIDE DEF c
  <2>6. NoneFrom(conn.ops, conn.idx + 1)
    BY <1>5, UpToTheCommand, CommandAhead DEF LeadsUp
  <2> QED
    BY <1>1, <1>3, <1>5, <2>3, <2>4, <2>5, <2>6, EndsGood
<1> QED
  BY <1>2, <1>4, <1>5

(***************************************************************************)
(* A write event the command in flight is matched with, while nothing has  *)
(* timed out, is the event of the command itself.                          *)
(***************************************************************************)
LEMMA WriteLearns ==
  ASSUME IInv, CInv, conn.trap # 0, air.outstanding # <<>>, UNCHANGED silences,
         NEW status \in Statuses, NEW matched \in BOOLEAN, matched => conn.inFlight,
         LET r == Acknowledged(slot[conn.trap], Head(air.outstanding), status) IN
         slot' = [slot EXCEPT ![conn.trap] = IF matched /\ Current.command /\ status = "OK"
                                             THEN CommandDelivered(r, conn.job) ELSE r]
  PROVE  SlotsGood
<1> DEFINE o == Head(air.outstanding)
           q == slot[conn.trap]
           r == Acknowledged(q, o, status)
           t == CommandDelivered(r, conn.job)
<1>1. /\ slot \in [Slots -> TrapState] /\ conn.trap \in Slots /\ q \in TrapState /\ SlotInv(q)
  BY InSession
<1>2. r \in TrapState /\ Mild(q, r)
  BY <1>1, AcknowledgedType, AcknowledgedMild
<1>3. CASE matched /\ Current.command /\ status = "OK"
  <2>1. slot' = [slot EXCEPT ![conn.trap] = t]
    BY <1>3
  <2>2. conn.inFlight /\ ~NoneFrom(conn.ops, conn.idx)
    BY <1>3, CommandAhead
  <2>3. silences = 0 => o = Current
    BY <2>2, UpToTheCommand
  <2>4. silences = 0 => "session" \in r.acked
    <3>1. o.command => r = [q EXCEPT !.acked = @ \cup (IF q.pending = conn.job
                                                     THEN {"session", "request"} ELSE {"session"})]
      BY <1>3 DEF Acknowledged
    <3>2. o.command => "session" \in r.acked
      BY <1>1, <3>1 DEF TrapState
    <3> QED
      BY <1>3, <2>3, <3>2
  <2> HIDE DEF r
  <2>5. /\ r.acked \subseteq t.acked
        /\ r.pending = conn.job => t.pending = "NONE"
        /\ r.pending # conn.job => t.acked = r.acked /\ t.pending = r.pending
    BY <1>2 DEF CommandDelivered, TrapState
  <2>6. t.pending = "NONE" \/ (t.acked = r.acked /\ t.pending = r.pending)
    BY <2>5
  <2> HIDE DEF t
  <2>7. Settled(q) => Settled(t)
    BY <1>2, <2>6 DEF Settled, Mild
  <2>8. silences = 0 => Proven(t)
    BY <2>4, <2>5 DEF Proven
  <2>9. \A s \in Slots : slot'[s] = IF s = conn.trap THEN t ELSE slot[s]
    BY <1>1, <2>1
  <2>10. SlotsKnow'
    BY <1>1, <2>7, <2>8, <2>9 DEF CInv, SlotsKnow
  <2> QED
    BY <1>3, <2>2, <2>10 DEF SlotsGood
<1>4. CASE ~(matched /\ Current.command /\ status = "OK")
  <2>1. slot' = [slot EXCEPT ![conn.trap] = r]
    BY <1>4
  <2> HIDE DEF r
  <2> QED
    BY <1>1, <1>2, <2>1, OneSlot, MildIsGood
<1> QED
  BY <1>3, <1>4

LEMMA WriteGood ==
  ASSUME IInv, CInv, WriteComplete
  PROVE  StepGood
<1> DEFINE o == Head(air.outstanding)
<1>1. conn.trap # 0 /\ air.outstanding # <<>> /\ UNCHANGED silences
      /\ o.kind \in {"WRITE", "ECHO", "REQUEST", "LOGS"}
  BY DEF WriteComplete
<1>2. PICK status \in Statuses :
        LET matched == conn.inFlight /\ conn.handle = Handle(o)
            r       == Acknowledged(slot[conn.trap], o, status)
        IN
        /\ slot' = [slot EXCEPT ![conn.trap] =
                      IF matched /\ Current.command /\ status = "OK"
                      THEN CommandDelivered(r, conn.job) ELSE r]
        /\ IF matched /\ WriteEnds(status)
           THEN OpDone([conn EXCEPT !.ok = @ /\ WriteOk(status), !.owed = Paid(status)],
                       Popped(o, status))
           ELSE EventOnly(Popped(o, status))
  BY DEF WriteComplete
<1>3. SlotsGood
  BY <1>1, <1>2, WriteLearns
<1>4. CASE EventOnly(Popped(o, status))
  BY <1>1, <1>3, <1>4, PoppedGood
<1>5. CASE /\ conn.inFlight /\ WriteEnds(status)
           /\ OpDone([conn EXCEPT !.ok = @ /\ WriteOk(status), !.owed = Paid(status)],
                     Popped(o, status))
  <2> DEFINE ok   == conn.ok /\ WriteOk(status)
             left == Paid(status)
             c    == [conn EXCEPT !.ok = ok, !.owed = left]
             a    == Popped(o, status)
  <2>1. conn \in Connection /\ ok \in BOOLEAN /\ (ok => conn.ok) /\ left \in SUBSET Nat
    BY InSession, PaidType DEF Connection
  <2>2. OpDone(c, a)
    BY <1>5, <2>1 DEF Connection
  <2> HIDE DEF ok, left
  <2>3. /\ c \in Connection /\ c.trap = conn.trap /\ c.ops = conn.ops
        /\ c.started = conn.started /\ c.disc = conn.disc
    BY <2>1 DEF Connection
  <2> HIDE DEF c
  <2>4. /\ a \in Air /\ a.outstanding = Tail(air.outstanding) /\ a.timers = air.timers
        /\ a.answers = air.answers \/ status = "OK"
    BY <1>1, InSession, PoppedParts
  <2> HIDE DEF a
  <2>5. ASSUME silences' = 0, ~NoneFrom(conn.ops, conn.idx + 1)
        PROVE  a.outstanding = <<>> /\ a.answers = <<>>
    <3>1. ~NoneFrom(conn.ops, conn.idx) /\ silences = 0
      BY <1>1, <1>5, <2>5, CommandAhead
    <3>2. LeadsUp(Current) /\ Tail(air.outstanding) = <<>> /\ air.answers = <<>>
      BY <1>1, <1>5, <3>1, UpToTheCommand
    <3>3. ~Current.command
      BY <1>5, <2>5, CommandIsLast
    <3>4. status # "OK"
      BY <1>5, <3>2, <3>3 DEF WriteEnds, LeadsUp
    <3> QED
      BY <2>4, <3>2, <3>4
  <2> QED
    BY <1>1, <1>3, <1>5, <2>2, <2>3, <2>4, <2>5, EndsGood
<1> QED
  BY <1>2, <1>4, <1>5

LEMMA NotifyOnGood ==
  ASSUME IInv, CInv, NotifyOnComplete
  PROVE  StepGood
<1> DEFINE o == Head(air.outstanding)
<1>1. conn.trap # 0 /\ air.outstanding # <<>> /\ UNCHANGED <<slot, silences>>
      /\ o.kind = "NOTIFY_ON"
  BY DEF NotifyOnComplete
<1>2. PICK status \in {"OK", "REFUSED"} :
        IF conn.inFlight /\ Current.kind = "NOTIFY_ON"
        THEN OpDone([conn EXCEPT !.ok = @ /\ status = "OK", !.uartErr = @ \/ status # "OK",
                                 !.owed = Paid(status)],
                    Popped(o, status))
        ELSE EventOnly(Popped(o, status))
  BY DEF NotifyOnComplete
<1>3. SlotsGood
  BY <1>1, NoSlot, MildIsGood
<1>4. CASE EventOnly(Popped(o, status))
  BY <1>1, <1>3, <1>4, PoppedGood
<1>5. CASE /\ conn.inFlight
           /\ OpDone([conn EXCEPT !.ok = @ /\ status = "OK", !.uartErr = @ \/ status # "OK",
                                  !.owed = Paid(status)],
                     Popped(o, status))
  <2> DEFINE ok  == conn.ok /\ status = "OK"
             err == conn.uartErr \/ status # "OK"
             left == Paid(status)
             c   == [conn EXCEPT !.ok = ok, !.uartErr = err, !.owed = left]
             a   == Popped(o, status)
  <2>1. conn \in Connection /\ ok \in BOOLEAN /\ err \in BOOLEAN /\ left \in SUBSET Nat
    BY InSession, PaidType DEF Connection
  <2>2. OpDone(c, a)
    BY <1>5, <2>1 DEF Connection
  <2> HIDE DEF ok, err, left
  <2>3. /\ c \in Connection /\ c.trap = conn.trap /\ c.ops = conn.ops
        /\ c.started = conn.started /\ c.disc = conn.disc
    BY <2>1 DEF Connection
  <2> HIDE DEF c
  <2>4. /\ a \in Air /\ a.outstanding = Tail(air.outstanding) /\ a.timers = air.timers
        /\ a.answers = air.answers
    BY <1>1, InSession, PoppedParts DEF Requests
  <2> HIDE DEF a
  <2>5. silences' = 0 /\ ~NoneFrom(conn.ops, conn.idx + 1)
          => a.outstanding = <<>> /\ a.answers = <<>>
    BY <1>1, <1>5, <2>4, CommandAhead, UpToTheCommand
  <2> QED
    BY <1>1, <1>3, <1>5, <2>2, <2>3, <2>4, <2>5, EndsGood
<1> QED
  BY <1>2, <1>4, <1>5

\* What a frame says leaves what is known of the command alone.
LEMMA FrameMild ==
  ASSUME IInv, conn.trap # 0, NEW type, FrameApplied(type)
  PROVE  SlotsMild
<1> DEFINE q == slot[conn.trap]
<1>1. conn.trap \in Slots /\ q \in TrapState
  BY InSession
<1>2. \/ \E h \in Healths, b \in BOOLEAN :
           slot' = [slot EXCEPT ![conn.trap] = [q EXCEPT !.health = h, !.alert = b]]
      \/ slot' = [slot EXCEPT ![conn.trap] = [q EXCEPT !.unanswered = {}]]
      \/ UNCHANGED slot
  BY <1>1 DEF FrameApplied
<1>3. ASSUME NEW h \in Healths, NEW b \in BOOLEAN,
             slot' = [slot EXCEPT ![conn.trap] = [q EXCEPT !.health = h, !.alert = b]]
      PROVE  SlotsMild
  <2> DEFINE t == [q EXCEPT !.health = h, !.alert = b]
  <2>1. t.acked = q.acked /\ t.pending = q.pending /\ t.delivered = q.delivered
    BY <1>1 DEF TrapState
  <2>2. slot' = [slot EXCEPT ![conn.trap] = t]
    BY <1>3
  <2> HIDE DEF t
  <2> QED
    BY <1>1, <2>1, <2>2, MildSame, OneSlot
<1>4. CASE slot' = [slot EXCEPT ![conn.trap] = [q EXCEPT !.unanswered = {}]]
  <2> DEFINE t == [q EXCEPT !.unanswered = {}]
  <2>1. t.acked = q.acked /\ t.pending = q.pending /\ t.delivered = q.delivered
    BY <1>1 DEF TrapState
  <2>2. slot' = [slot EXCEPT ![conn.trap] = t]
    BY <1>4
  <2> HIDE DEF t
  <2> QED
    BY <1>1, <2>1, <2>2, MildSame, OneSlot
<1> QED
  BY <1>2, <1>3, <1>4, NoSlot

LEMMA TailOfOne ==
  ASSUME NEW S, NEW q \in Seq(S), q # <<>>, Len(q) <= 1
  PROVE  Tail(q) = <<>> /\ Len(Tail(q)) <= 1
<1> DEFINE t == Tail(q)
           n == Len(q)
<1>1. n \in Nat \ {0} /\ n <= 1
  BY EmptySeq
<1>2. t \in Seq(S) /\ Len(t) = n - 1
  BY HeadTailProperties
<1> HIDE DEF t, n
<1>3. Len(t) = 0
  BY <1>1, <1>2
<1>4. t = <<>> /\ Len(t) <= 1
  BY <1>2, <1>3, EmptySeq
<1> QED
  BY <1>4 DEF t

\* The next answer is heard, or never comes.
LEMMA AnswerLeft ==
  ASSUME IInv, CInv, air.answers # <<>>
  PROVE  LET a == [air EXCEPT !.answers = Tail(@)] IN
         /\ a \in Air /\ a.outstanding = air.outstanding /\ a.timers = air.timers
         /\ conn.started
         /\ silences = 0 /\ conn.inFlight /\ ~NoneFrom(conn.ops, conn.idx) =>
              a.outstanding = <<>> /\ a.answers = <<>> /\ Len(a.answers) <= 1
<1> DEFINE a == [air EXCEPT !.answers = Tail(@)]
           s == air.answers
<1>1. air \in Air /\ s \in Seq(FrameTypes)
  BY InSession DEF Air
<1>2. Tail(s) \in Seq(FrameTypes) /\ Len(s) \in Nat /\ Len(s) # 0
      /\ Len(Tail(s)) = Len(s) - 1
  BY <1>1, HeadTailProperties, LenProperties, EmptySeq
<1>3. /\ a \in Air /\ a.outstanding = air.outstanding /\ a.timers = air.timers
      /\ a.answers = Tail(s)
  BY <1>1, <1>2 DEF Air
<1>4. conn.started
  BY DEF CInv, NothingYet
<1>5. ASSUME silences = 0, conn.inFlight, ~NoneFrom(conn.ops, conn.idx)
      PROVE  air.outstanding = <<>> /\ Tail(s) = <<>> /\ Len(Tail(s)) <= 1
  BY <1>1, <1>5, TailOfOne DEF CInv, OneAtATime
<1> HIDE DEF a, s
<1>6. silences = 0 /\ conn.inFlight /\ ~NoneFrom(conn.ops, conn.idx) =>
        a.outstanding = <<>> /\ a.answers = <<>> /\ Len(a.answers) <= 1
  BY <1>3, <1>5
<1> QED
  BY <1>3, <1>4, <1>6 DEF a

LEMMA AnswerIgnored ==
  ASSUME IInv, CInv, air.answers # <<>>, UNCHANGED silences, SlotsGood,
         conn' = conn, air' = [air EXCEPT !.answers = Tail(@)]
  PROVE  StepGood
<1>1. air'.outstanding = air.outstanding /\ air'.timers = air.timers /\ conn.started
  BY AnswerLeft
<1>2. NothingYet'
  BY <1>1 DEF CInv, NothingYet
<1>3. OneAtATime'
  <2>1. silences = 0 /\ conn.inFlight /\ ~NoneFrom(conn.ops, conn.idx) =>
          air'.outstanding = <<>> /\ Len(air'.answers) <= 1
    BY AnswerLeft
  <2> QED
    BY <2>1 DEF OneAtATime
<1>4. Holds
  BY DEF Holds
<1> QED
  BY <1>1, <1>2, <1>3, <1>4, HoldsGood

LEMMA AnswerGood ==
  ASSUME IInv, CInv, Answer \/ NoAnswer
  PROVE  StepGood
<1> DEFINE a    == [air EXCEPT !.answers = Tail(@)]
           type == Head(air.answers)
<1>1. conn.trap # 0 /\ air.answers # <<>> /\ UNCHANGED silences
  BY DEF Answer, NoAnswer, Frame
<1>2. CASE NoAnswer
  <2>1. SlotsGood
    BY <1>1, <1>2, NoSlot, MildIsGood DEF NoAnswer
  <2> QED
    BY <1>1, <1>2, <2>1, AnswerIgnored DEF NoAnswer
<1>3. CASE Answer
  <2>1. FrameApplied(type)
        /\ (IF conn.inFlight /\ Current.kind \in Requests /\ Current.what = type
            THEN OpDone(Answered, a) ELSE EventOnly(a))
    BY <1>3 DEF Answer, Frame, Answered
  <2>2. SlotsGood
    BY <1>1, <2>1, FrameMild, MildIsGood
  <2>3. CASE EventOnly(a)
    BY <1>1, <2>2, <2>3, AnswerIgnored DEF EventOnly
  <2>4. CASE conn.inFlight /\ OpDone(Answered, a)
    <3>1. /\ a \in Air /\ a.timers = air.timers
          /\ silences = 0 /\ conn.inFlight /\ ~NoneFrom(conn.ops, conn.idx) =>
               a.outstanding = <<>> /\ a.answers = <<>>
      BY <1>1, AnswerLeft
    <3> HIDE DEF a
    <3>2. silences' = 0 /\ ~NoneFrom(conn.ops, conn.idx + 1) =>
            a.outstanding = <<>> /\ a.answers = <<>>
      BY <1>1, <2>4, <3>1, CommandAhead
    <3> QED
      BY <1>1, <2>2, <2>4, <3>1, <3>2, InSession, AnsweredType, EndsGood
  <2> QED
    BY <2>1, <2>3, <2>4
<1> QED
  BY <1>2, <1>3

\* A state the trap reports of its own accord answers nothing before a command.
LEMMA StateReportGood ==
  ASSUME IInv, CInv, StateReport
  PROVE  StepGood
<1>1. /\ conn.trap # 0 /\ UNCHANGED silences /\ FrameApplied("DEVICE_STATE")
      /\ (IF conn.inFlight /\ Current.kind \in Requests /\ Current.what = "DEVICE_STATE"
          THEN OpDone(Answered, air) ELSE EventOnly(air))
  BY DEF StateReport, Frame, Answered
<1>2. SlotsMild
  BY <1>1, FrameMild
<1>3. CASE EventOnly(air)
  BY <1>1, <1>2, <1>3, QuietGood DEF EventOnly, Holds
<1>4. CASE conn.inFlight /\ Current.kind \in Requests /\ Current.what = "DEVICE_STATE"
           /\ OpDone(Answered, air)
  <2>1. ~LeadsUp(Current)
    BY <1>4 DEF LeadsUp, Requests
  <2>2. NoneFrom(conn.ops, conn.idx + 1)
    BY <1>4, <2>1, UpToTheCommand, CommandAhead
  <2> QED
    BY <1>1, <1>2, <1>4, <2>2, InSession, AnsweredType, MildIsGood, EndsGood
<1> QED
  BY <1>1, <1>3, <1>4

LEMMA OpTimeoutGood ==
  ASSUME IInv, CInv, OpTimeout
  PROVE  StepGood
<1> DEFINE q  == slot[conn.trap]
           t  == IF Current.optional /\ Current.kind = "REQUEST"
                 THEN OptionalUnanswered(q, Current.what) ELSE q
           ok == conn.ok /\ (Current.kind = "LOGS" \/ Current.optional)
           c  == [conn EXCEPT !.ok = ok]
<1>1. /\ conn \in Connection /\ conn.trap \in Slots /\ q \in TrapState /\ air \in Air
      /\ conn.trap # 0 /\ conn.inFlight /\ silences \in Nat /\ silences' = silences + 1
  BY InSession, SessionAssumption DEF OpTimeout
<1>2. slot' = [slot EXCEPT ![conn.trap] = t]
  BY DEF OpTimeout
<1>3. Mild(q, t)
  BY <1>1, OptionalUnansweredMild, MildSame
<1> HIDE DEF t
<1>4. silences' # 0
  BY <1>1
<1>5. SlotsGood
  BY <1>1, <1>2, <1>3, <1>4, OneSlot, MildIsGood
<1>6. OpDone(c, air)
  BY <1>1 DEF OpTimeout, Connection
<1>7. ok \in BOOLEAN
  BY <1>1 DEF Connection
<1> HIDE DEF ok
<1>8. /\ c \in Connection /\ c.trap = conn.trap /\ c.ops = conn.ops
      /\ c.started = conn.started /\ c.disc = conn.disc
  BY <1>1, <1>7 DEF Connection
<1> HIDE DEF c
<1> QED
  BY <1>1, <1>4, <1>5, <1>6, <1>8, EndsGood

\* Only a timer of this session, set after its command, ends an operation.
LEMMA WaitGood ==
  ASSUME IInv, CInv, NEW t \in {"live", "stale"}, WaitElapses(t)
  PROVE  StepGood
<1> DEFINE a == [air EXCEPT !.timers = @ \ {t}]
<1>1. /\ t \in air.timers /\ UNCHANGED <<slot, silences>>
      /\ (IF t = "live" /\ conn.trap # 0 /\ conn.inFlight THEN OpDone(conn, a) ELSE EventOnly(a))
  BY DEF WaitElapses
<1>2. /\ a \in Air /\ a.outstanding = air.outstanding /\ a.answers = air.answers
      /\ a.timers = air.timers \ {t}
  BY InSession DEF Air
<1> HIDE DEF a
<1>3. SlotsGood
  BY <1>1, NoSlot, MildIsGood
<1>4. CASE EventOnly(a)
  <2>1. conn' = conn /\ air' = a
    BY <1>4 DEF EventOnly
  <2>2. Holds
    BY <2>1 DEF Holds
  <2>3. NothingYet' /\ OneAtATime'
    BY <1>1, <1>2, <2>1 DEF CInv, NothingYet, OneAtATime, Current
  <2> QED
    BY <1>2, <1>3, <2>1, <2>2, <2>3, HoldsGood
<1>5. CASE t = "live" /\ conn.trap # 0 /\ conn.inFlight /\ OpDone(conn, a)
  <2>1. NoneFrom(conn.ops, conn.idx + 1)
    BY <1>1, <1>5, CommandAhead DEF CInv, NoTimerYet
  <2> QED
    BY <1>2, <1>3, <1>5, <2>1, InSession, EndsGood
<1> QED
  BY <1>1, <1>4, <1>5

LEMMA JobTimeoutGood ==
  ASSUME IInv, CInv, JobTimeout
  PROVE  StepGood
<1>1. conn \in Connection /\ conn.trap # 0 /\ UNCHANGED silences
  BY InSession DEF JobTimeout
<1>2. CASE Finish(slot, conn, "IDLE", FALSE)
  BY <1>1, <1>2, FinishGood
<1>3. CASE /\ conn' = [conn EXCEPT !.ok = FALSE, !.disc = TRUE, !.link = Disconnect(@)]
           /\ UNCHANGED <<slot, air>>
  <2>1. Holds
    BY <1>1, <1>3 DEF Connection, Holds
  <2> QED
    BY <1>1, <1>3, <2>1, NoSlot, QuietGood
<1> QED
  BY <1>2, <1>3 DEF JobTimeout, Abort

LEMMA BackoffGood ==
  ASSUME IInv, CInv, NEW s \in Slots, BackoffElapses(s) \/ PollDue(s)
  PROVE  StepGood
<1> DEFINE r == slot[s]
<1>1. r \in TrapState /\ UNCHANGED <<conn, air, silences>>
  BY InSession DEF BackoffElapses, PollDue
<1>2. slot' = [slot EXCEPT ![s] = [r EXCEPT !.backoff = FALSE]]
      \/ slot' = [slot EXCEPT ![s] = [r EXCEPT !.due = TRUE]]
  BY InSession DEF BackoffElapses, PollDue
<1>3. Mild(r, [r EXCEPT !.backoff = FALSE]) /\ Mild(r, [r EXCEPT !.due = TRUE])
  <2>1. /\ [r EXCEPT !.backoff = FALSE].acked = r.acked
        /\ [r EXCEPT !.backoff = FALSE].pending = r.pending
        /\ [r EXCEPT !.backoff = FALSE].delivered = r.delivered
        /\ [r EXCEPT !.due = TRUE].acked = r.acked
        /\ [r EXCEPT !.due = TRUE].pending = r.pending
        /\ [r EXCEPT !.due = TRUE].delivered = r.delivered
    BY <1>1 DEF TrapState
  <2> QED
    BY <2>1, MildSame
<1>4. SlotsMild
  BY <1>2, <1>3, OneSlot
<1> QED
  BY <1>1, <1>4, QuietGood DEF Holds

LEMMA RequestGood ==
  ASSUME IInv, CInv, NEW s \in Slots, NEW r \in TrapState, SlotInv(r), Mild(slot[s], r),
         NEW job \in Jobs, RequestJob(s, r, job), UNCHANGED <<air, silences>>
  PROVE  StepGood
<1> DEFINE t == Requested(r, job)
<1>1. t \in TrapState /\ Mild(slot[s], t)
  BY RequestedType, RequestedMild, MildThen
<1> HIDE DEF t
<1>2. CASE slot' = [slot EXCEPT ![s] = r] /\ UNCHANGED conn
  BY <1>2, OneSlot, QuietGood DEF Holds
<1>3. CASE slot' = [slot EXCEPT ![s] = t] /\ UNCHANGED conn
  BY <1>1, <1>3, OneSlot, QuietGood DEF Holds
<1>4. CASE MaybeConnect(s, t)
  BY <1>1, <1>4, MayConnectGood
<1> QED
  BY <1>2, <1>3, <1>4 DEF RequestJob, t

LEMMA ButtonGood ==
  ASSUME IInv, CInv, NEW s \in Slots, PollNow(s) \/ TestFire(s) \/ ClearKillAlert(s)
  PROVE  StepGood
<1> DEFINE r == BackoffCleared(slot[s])
<1>1. r \in TrapState /\ SlotInv(r) /\ Mild(slot[s], r)
  BY InSession, BackoffClearedType, BackoffClearedMild
<1>2. {"POLL", "TEST_FIRE", "RESET_ALERT"} \subseteq Jobs
  BY DEF Jobs
<1>3. /\ \/ \E job \in Jobs : RequestJob(s, r, job)
         \/ slot' = [slot EXCEPT ![s] = r] /\ UNCHANGED conn
         \/ slot' = [slot EXCEPT ![s] = [r EXCEPT !.alert = FALSE]] /\ UNCHANGED conn
      /\ UNCHANGED <<air, silences>>
  <2> HIDE DEF r
  <2>1. CASE PollNow(s)
    BY <1>2, <2>1 DEF PollNow, r
  <2>2. CASE TestFire(s)
    BY <1>2, <2>2 DEF TestFire, r
  <2>3. CASE ClearKillAlert(s)
    BY <1>2, <2>3 DEF ClearKillAlert, r
  <2> QED
    BY <2>1, <2>2, <2>3
<1> HIDE DEF r
<1> DEFINE t == [r EXCEPT !.alert = FALSE]
<1>4. Mild(slot[s], t)
  <2>1. t.acked = r.acked /\ t.pending = r.pending /\ t.delivered = r.delivered
    BY <1>1 DEF TrapState
  <2> HIDE DEF t
  <2> QED
    BY <1>1, <2>1, MildSame, MildThen
<1>5. CASE \E job \in Jobs : RequestJob(s, r, job)
  BY <1>1, <1>3, <1>5, RequestGood
<1>6. CASE slot' = [slot EXCEPT ![s] = r] /\ UNCHANGED conn
  BY <1>1, <1>3, <1>6, OneSlot, QuietGood DEF Holds
<1>7. CASE slot' = [slot EXCEPT ![s] = t] /\ UNCHANGED conn
  <2> HIDE DEF t
  <2> QED
    BY <1>3, <1>4, <1>7, OneSlot, QuietGood DEF Holds
<1> QED
  BY <1>3, <1>5, <1>6, <1>7

LEMMA ForgetGood ==
  ASSUME IInv, CInv, NEW s \in Slots, ForgetTrap(s)
  PROVE  StepGood
<1> DEFINE left == [slot EXCEPT ![s] = Unbound]
<1>1. conn \in Connection /\ UNCHANGED silences
  BY InSession DEF ForgetTrap
<1>2. slot' = left
  BY DEF ForgetTrap, Abort
<1>3. SlotsMild
  BY <1>2, NewMild, OneSlot
<1>4. CASE UNCHANGED <<conn, air>>
  BY <1>1, <1>3, <1>4, QuietGood DEF Holds
<1>5. CASE conn' = Free("IDLE") /\ air' = [NoTraffic EXCEPT !.timers = Outdated(air.timers)]
  <2>1. air'.outstanding = <<>> /\ air'.answers = <<>> /\ "live" \notin air'.timers
    BY <1>5 DEF NoTraffic, Outdated
  <2> QED
    BY <1>1, <1>3, <1>5, <2>1, FreedGood
<1>6. CASE /\ conn' = [conn EXCEPT !.ok = FALSE, !.disc = TRUE, !.link = Disconnect(@)]
           /\ UNCHANGED air
  <2>1. Holds
    BY <1>1, <1>6 DEF Connection, Holds
  <2> QED
    BY <1>1, <1>3, <1>6, <2>1, QuietGood
<1> QED
  BY <1>4, <1>5, <1>6 DEF ForgetTrap, Abort

LEMMA RestartGood ==
  ASSUME IInv, CInv, Restart
  PROVE  StepGood
<1>1. PICK alerts \in SUBSET {s \in Slots : slot[s].bound # NoDev} :
        slot' = [s \in Slots |-> IF slot[s].bound = NoDev THEN Unbound
                                 ELSE [BoundTo(slot[s].bound) EXCEPT !.alert = s \in alerts]]
  BY DEF Restart
<1>2. SlotsMild
  BY <1>1, NewMild DEF SlotsMild
<1>3. air'.outstanding = <<>> /\ air'.answers = <<>> /\ "live" \notin air'.timers
  BY DEF Restart, NoTraffic
<1> QED
  BY <1>2, <1>3, FreedGood DEF Restart

-----------------------------------------------------------------------------
LEMMA InitCInv == Init => CInv
<1> SUFFICES ASSUME Init PROVE CInv
  OBVIOUS
<1>1. /\ conn.trap = 0 /\ conn.ops = <<>> /\ ~conn.inFlight /\ ~conn.started
      /\ air.outstanding = <<>> /\ air.answers = <<>> /\ air.timers = {}
  BY DEF Init, Free, NoTraffic
<1>2. \A s \in Slots : slot[s].acked = {} /\ slot[s].delivered = FALSE
  BY DEF Init, Unbound, Fresh
<1>3. CommandFirst(conn.ops)
  BY <1>1, NoOp, NoneIsFirst
<1> QED
  BY <1>1, <1>2, <1>3 DEF CInv, SlotsKnow, Settled, Proven, ConfirmedIsPast, NothingYet,
     NoTimerYet, OneAtATime

LEMMA StepCInv == IInv /\ CInv /\ [Next]_vars => StepGood
<1> SUFFICES ASSUME IInv, CInv, [Next]_vars PROVE StepGood
  OBVIOUS
<1>1. ASSUME NEW d \in Devices, Advertise(d) PROVE StepGood
  BY <1>1, AdvertiseGood
<1>2. CASE StackEvent
  BY <1>2, LinkGood, EndGood, SearchCompleteGood, ReadGood, WriteGood, NotifyOnGood, AnswerGood,
     StateReportGood DEF StackEvent
<1>3. CASE Clock
  BY <1>3, OpTimeoutGood, LinkGood, JobTimeoutGood, EndGood, WaitGood, BackoffGood DEF Clock
<1>4. CASE User
  BY <1>4, ButtonGood, ForgetGood DEF User
<1>5. CASE Restart
  BY <1>5, RestartGood
<1>6. CASE UNCHANGED vars
  BY <1>6, NoSlot, QuietGood DEF vars, Holds
<1> QED
  BY <1>1, <1>2, <1>3, <1>4, <1>5, <1>6 DEF Next

\* What is known of a command, at the trap and at the gateway, at any number of
\* slots: the invariant under the three results below.
THEOREM CommandInvariantHolds == Spec => []CInv
<1>1. IInv /\ CInv /\ [Next]_vars => CInv'
  BY StepCInv DEF StepGood
<1> QED
  BY InitIInv, StepIInv, InitCInv, <1>1, PTL DEF Spec

\* on_command_delivered: a command is counted as delivered only in a session in
\* which the trap acknowledged it, as long as no operation has timed out.
THEOREM DeliveredMeansAcknowledgedHolds == Spec => []DeliveredMeansAcknowledged
<1>1. CInv => DeliveredMeansAcknowledged
  BY DEF CInv, SlotsKnow, Proven, DeliveredMeansAcknowledged
<1> QED
  BY <1>1, CommandInvariantHolds, PTL

\* op_done_ and on_command_delivered: a command whose acknowledgement the gateway
\* has taken note of is not written again until it is asked for again.
THEOREM ConfirmedNotResentHolds == Spec => ConfirmedNotResent
<1>1. IInv /\ CInv /\ [Next]_vars =>
        [\A s \in Slots : Issues(s, Command) => "confirmed" \notin slot[s].acked]_vars
  BY StepCInv DEF StepGood, NotResent
<1> QED
  BY <1>1, InvariantHolds, CommandInvariantHolds, PTL DEF Spec, ConfirmedNotResent

-----------------------------------------------------------------------------
(***************************************************************************)
(* A session for a command that ends well has sent it.  The script of such *)
(* a session has the command in it, a session cannot pass over it without  *)
(* failing, and from the moment its write is reported on, the command was  *)
(* acknowledged or the session has failed.                                 *)
(***************************************************************************)
HasCommand(ops) == \E i \in 1..Len(ops) : ops[i].command

ForACommand == conn.job \in Commands /\ ModelOf[conn.peer] = "C20"

\* The session has passed its command, or has no more to hear of its write.
Behind ==
  \/ NoneFrom(conn.ops, conn.idx)
  \/ conn.inFlight /\ Current.command /\ air.outstanding = <<>>

AckedNow == "session" \in slot[conn.trap].acked

SentInv ==
  /\ conn.ok => ~conn.uartErr
  /\ conn.inFlight /\ Current.command => conn.handle = "NUS_RX"
  /\ silences = 0 /\ conn.trap # 0 /\ conn.started /\ conn.ok =>
       /\ ForACommand => HasCommand(conn.ops)
       /\ HasCommand(conn.ops) /\ Behind => AckedNow

Keeps(r, t) == "session" \in r.acked => "session" \in t.acked

\* A session that may end well is not made to forget the acknowledgement.
MemoryKept == conn.trap # 0 /\ conn.ok => Keeps(slot[conn.trap], slot'[conn.trap])

LEMMA HasConcat ==
  ASSUME NEW s \in Seq(Op), NEW t \in Seq(Op), HasCommand(s) \/ HasCommand(t)
  PROVE  s \o t \in Seq(Op) /\ HasCommand(s \o t)
<1>1. /\ s \o t \in Seq(Op) /\ Len(s \o t) = Len(s) + Len(t) /\ Len(s) \in Nat /\ Len(t) \in Nat
      /\ \A i \in 1..(Len(s) + Len(t)) : (s \o t)[i] = IF i <= Len(s) THEN s[i] ELSE t[i - Len(s)]
  BY ConcatProperties, LenProperties
<1>2. CASE HasCommand(s)
  <2>1. PICK i \in 1..Len(s) : s[i].command
    BY <1>2 DEF HasCommand
  <2>2. i \in 1..Len(s \o t) /\ (s \o t)[i] = s[i]
    BY <1>1
  <2> QED
    BY <1>1, <2>1, <2>2 DEF HasCommand
<1>3. CASE HasCommand(t)
  <2>1. PICK i \in 1..Len(t) : t[i].command
    BY <1>3 DEF HasCommand
  <2>2. Len(s) + i \in 1..Len(s \o t) /\ (s \o t)[Len(s) + i] = t[i]
    <3>1. /\ Len(s) + i \in 1..(Len(s) + Len(t)) /\ ~(Len(s) + i <= Len(s))
          /\ (Len(s) + i) - Len(s) = i
      BY <1>1
    <3> QED
      BY <1>1, <3>1
  <2> QED
    BY <1>1, <2>1, <2>2 DEF HasCommand
<1> QED
  BY <1>2, <1>3

\* The script of a Mouse Trap's command has the command in it.
LEMMA ScriptHasCommand ==
  ASSUME NEW job \in Commands, NEW unanswered, NEW historyFirmware
  PROVE  HasCommand(BuildOps("C20", job, unanswered, historyFirmware))
<1> DEFINE wake == If("SET_COMMAND" \notin unanswered, <<OptionalRequest("SET_COMMAND")>>)
           act  == If(job \in Commands, <<Command, Settle>>)
           poll == C20Poll(unanswered, historyFirmware)
<1>1. wake \in Seq(Op) /\ poll \in Seq(Op) /\ <<NotifyOn>> \in Seq(Op)
  BY RequestOps, FixedOps, PollOps DEF If, FrameTypes
<1>2. act \in Seq(Op) /\ HasCommand(act)
  <2>1. act = <<Command, Settle>>
    BY DEF If
  <2>2. <<Command, Settle>> \in Seq(Op) /\ Len(<<Command, Settle>>) = 2
        /\ <<Command, Settle>>[1] = Command /\ Command.command
    BY FixedOps DEF Command, Request, Plain
  <2> HIDE DEF act
  <2> QED
    BY <2>1, <2>2 DEF HasCommand
<1>3. BuildOps("C20", job, unanswered, historyFirmware) = <<NotifyOn>> \o wake \o act \o poll
  BY DEF BuildOps, C20Script
<1> HIDE DEF wake, act, poll
<1>4. <<NotifyOn>> \o wake \in Seq(Op)
  BY <1>1, ConcatOps
<1>5. <<NotifyOn>> \o wake \o act \in Seq(Op) /\ HasCommand(<<NotifyOn>> \o wake \o act)
  BY <1>2, <1>4, HasConcat
<1>6. HasCommand(<<NotifyOn>> \o wake \o act \o poll)
  BY <1>1, <1>5, HasConcat
<1> QED
  BY <1>3, <1>6

-----------------------------------------------------------------------------
(***************************************************************************)
(* What a trap's methods remember of the acknowledgement.                  *)
(***************************************************************************)
LEMMA MethodsRemember ==
  ASSUME NEW r \in TrapState, NEW job
  PROVE  /\ Keeps(r, Requested(r, job)) /\ Keeps(r, BackoffCleared(r))
         /\ Keeps(r, CommandDelivered(r, job))
         /\ \A o, status : Keeps(r, Acknowledged(r, o, status))
<1>1. Requested(r, job).acked = r.acked \ {"request", "confirmed"}
  BY DEF Requested, TrapState
<1>2. BackoffCleared(r).acked = r.acked
  BY DEF BackoffCleared, TrapState
<1>3. r.acked \subseteq CommandDelivered(r, job).acked
  BY DEF CommandDelivered, TrapState
<1>4. ASSUME NEW o, NEW status PROVE r.acked \subseteq Acknowledged(r, o, status).acked
  BY DEF Acknowledged, TrapState
<1> QED
  BY <1>1, <1>2, <1>3, <1>4 DEF Keeps

LEMMA HeardRemembers ==
  ASSUME NEW r \in TrapState, NEW t \in OnAdvertisement(r)
  PROVE  Keeps(r, t)
<1>1. CASE \E a \in BOOLEAN : t = [r EXCEPT !.alert = a, !.heard = TRUE]
  BY <1>1 DEF TrapState, Keeps
<1>2. CASE \E a \in BOOLEAN : t = [Requested(r, "POLL") EXCEPT !.alert = a]
  <2> DEFINE q == Requested(r, "POLL")
  <2>1. q \in TrapState /\ q.acked = r.acked \ {"request", "confirmed"}
    BY DEF Requested, TrapState, Jobs
  <2> HIDE DEF q
  <2>2. PICK a \in BOOLEAN : t = [q EXCEPT !.alert = a]
    BY <1>2 DEF q
  <2>3. t.acked = q.acked
    BY <2>1, <2>2 DEF TrapState
  <2> QED
    BY <2>1, <2>3 DEF Keeps
<1>3. CASE \E b \in {r.due, TRUE} : t = [r EXCEPT !.heard = TRUE, !.due = b]
  BY <1>3 DEF TrapState, Keeps
<1> HIDE DEF Keeps
<1> QED
  BY <1>1, <1>2, <1>3, Zenon DEF OnAdvertisement, C20Heard, A24Heard

LEMMA RemembersOne ==
  ASSUME IInv, NEW s \in Slots, NEW r, Keeps(slot[s], r) \/ slot[s].bound = NoDev,
         slot' = [slot EXCEPT ![s] = r]
  PROVE  MemoryKept
<1>1. conn.trap # 0 => conn.trap \in Slots
  BY InSession
<1>2. conn.trap # 0 => slot'[conn.trap] = IF s = conn.trap THEN r ELSE slot[conn.trap]
  BY <1>1, InSession
<1> QED
  BY <1>2, OwnerIsBound DEF MemoryKept, Keeps

-----------------------------------------------------------------------------
(***************************************************************************)
(* How a step may treat a session that has a command to send.              *)
(***************************************************************************)
\* The session is where it was, perhaps failed.
Rests ==
  /\ Holds /\ conn'.peer = conn.peer /\ conn'.handle = conn.handle
  /\ conn'.uartErr = conn.uartErr /\ (conn'.ok => conn.ok)

LEMMA SentRests ==
  ASSUME IInv, SentInv, Rests, MemoryKept, UNCHANGED silences,
         silences = 0 /\ conn.ok /\ conn.inFlight /\ Current.command /\ air'.outstanding = <<>>
           => air.outstanding = <<>> \/ AckedNow'
  PROVE  SentInv'
<1>1. /\ conn'.trap = conn.trap /\ conn'.job = conn.job /\ conn'.ops = conn.ops
      /\ conn'.idx = conn.idx /\ conn'.started = conn.started /\ conn'.peer = conn.peer
      /\ conn'.handle = conn.handle /\ conn'.uartErr = conn.uartErr
      /\ (conn'.inFlight => conn.inFlight) /\ (conn'.ok => conn.ok)
  BY DEF Rests, Holds
<1>2. Current' = Current
  BY <1>1 DEF Current
<1>3. ASSUME silences' = 0, conn'.trap # 0, conn'.started, conn'.ok
      PROVE  /\ ForACommand' => HasCommand(conn'.ops)
             /\ HasCommand(conn'.ops) /\ Behind' => AckedNow'
  <2>1. /\ ForACommand => HasCommand(conn.ops)
        /\ HasCommand(conn.ops) /\ Behind => AckedNow
    BY <1>1, <1>3 DEF SentInv
  <2>2. AckedNow => AckedNow'
    BY <1>1, <1>3 DEF MemoryKept, Keeps, AckedNow
  <2>3. Behind' => Behind \/ AckedNow'
    BY <1>1, <1>2, <1>3 DEF Behind
  <2> QED
    BY <1>1, <2>1, <2>2, <2>3 DEF ForACommand
<1> QED
  BY <1>1, <1>2, <1>3 DEF SentInv

LEMMA SentUnmoved ==
  ASSUME IInv, SentInv, UNCHANGED <<conn, silences>>, MemoryKept,
         air'.outstanding = air.outstanding
  PROVE  SentInv'
BY SentRests DEF Rests, Holds

\* No session, or one that has only been asked for.
LEMMA SentBefore ==
  ASSUME ~conn'.started, ~conn'.inFlight, ~conn'.uartErr
  PROVE  SentInv'
BY DEF SentInv

LEMMA SentFreed ==
  ASSUME NEW link, conn' = Free(link)
  PROVE  SentInv'
BY SentBefore DEF Free

\* Running on from k never passes over a command and stays unfailed.
LEMMA SentRunsOn ==
  ASSUME NEW c \in Connection, NEW a \in Air, NEW k \in 1..(Len(c.ops) + 1),
         RunFrom(c, k, a), CommandFirst(c.ops), c.ok => ~c.uartErr,
         silences' = 0 /\ c.ok =>
           /\ c.job \in Commands /\ ModelOf[c.peer] = "C20" => HasCommand(c.ops)
           /\ HasCommand(c.ops) /\ NoneFrom(c.ops, k) => "session" \in slot'[c.trap].acked
  PROVE  SentInv'
<1>0. Len(c.ops) \in Nat /\ c.ops \in Seq(Op) /\ a.outstanding \in Seq(Op)
  BY LenProperties DEF Connection, Air
<1>1. CASE c.disc
  <2>1. conn' = [c EXCEPT !.idx = k, !.inFlight = FALSE]
    BY <1>1 DEF RunFrom
  <2>2. /\ conn'.ops = c.ops /\ conn'.idx = k /\ ~conn'.inFlight /\ conn'.ok = c.ok
        /\ conn'.uartErr = c.uartErr /\ conn'.trap = c.trap /\ conn'.job = c.job
        /\ conn'.peer = c.peer
    BY <1>0, <2>1 DEF Connection
  <2> QED
    BY <2>2 DEF SentInv, ForACommand, Behind, AckedNow
<1>2. CASE ~c.disc
  <2>0. PICK j \in k..(Len(c.ops) + 1), ok \in BOOLEAN :
          LET failed == {i \in k..(j - 1) : FailsAtOnce(c, c.ops[i])}
              c1 == [c EXCEPT !.idx = j, !.ok = ok, !.inFlight = FALSE,
                              !.owed = IF ok THEN @ ELSE {}]
          IN
          /\ \A i \in k..(j - 1) : Skips(c, c.ops[i]) \/ (~ok /\ i \in failed)
          /\ ok => c.ok
          /\ c.ok /\ ~ok => failed # {}
          /\ \/ /\ j > Len(c.ops)
                /\ conn' = RequestDisconnect(c1)
                /\ air' = a
             \/ /\ j <= Len(c.ops)
                /\ Issuable(c, c.ops[j])
                /\ conn' = Issued(c1, c.ops[j])
                /\ air' = IF c.ops[j].kind = "WAIT"
                          THEN [a EXCEPT !.timers = @ \cup {"live"}]
                          ELSE [a EXCEPT !.outstanding = Append(@, c.ops[j])]
    BY <1>2, Zenon DEF RunFrom
  <2> DEFINE c1 == [c EXCEPT !.idx = j, !.ok = ok, !.inFlight = FALSE,
                             !.owed = IF ok THEN @ ELSE {}]
  <2>1. /\ \A i \in k..(j - 1) : Skips(c, c.ops[i]) \/ ~ok
        /\ ok => c.ok
        /\ \/ /\ j > Len(c.ops)
              /\ conn' = RequestDisconnect(c1)
           \/ /\ j <= Len(c.ops)
              /\ conn' = Issued(c1, c.ops[j])
              /\ air' = IF c.ops[j].kind = "WAIT"
                        THEN [a EXCEPT !.timers = @ \cup {"live"}]
                        ELSE [a EXCEPT !.outstanding = Append(@, c.ops[j])]
    BY <2>0
  <2>2. j \in Nat /\ j >= k /\ k \in Nat /\ k >= 1 /\ j <= Len(c.ops) + 1
    BY <1>0
  <2>3. c1 \in Connection /\ c1.ops = c.ops /\ c1.idx = j /\ c1.trap = c.trap
        /\ c1.job = c.job /\ c1.peer = c.peer /\ c1.ok = ok /\ c1.uartErr = c.uartErr
    <3>1. j \in Nat \ {0}
      BY <2>2
    <3>2. c1 \in Connection
      BY <3>1 DEF Connection
    <3> QED
      BY <3>2 DEF Connection
  <2>4. ok /\ NoneFrom(c.ops, j) => NoneFrom(c.ops, k)
    <3> SUFFICES ASSUME ok, NoneFrom(c.ops, j), NEW i \in k..Len(c.ops), c.ops[i].command
                 PROVE  FALSE
      BY DEF NoneFrom
    <3>1. i \in 1..Len(c.ops) /\ i \in Nat
      BY <1>0, <2>2
    <3>2. i \in k..(j - 1)
      BY <1>0, <2>2, <3>1 DEF NoneFrom
    <3>3. LeadsUp(c.ops[i])
      <4>1. i \in 1..i
        BY <3>1
      <4> QED
        BY <3>1, <4>1 DEF CommandFirst
    <3>4. ~Skips(c, c.ops[i])
      BY <3>3 DEF Skips, LeadsUp, UartUp
    <3> QED
      BY <2>1, <3>2, <3>4
  <2>5. CASE j > Len(c.ops) /\ conn' = RequestDisconnect(c1)
    <3>1. /\ conn'.ops = c.ops /\ conn'.idx = j /\ ~conn'.inFlight /\ conn'.ok = ok
          /\ conn'.uartErr = c.uartErr /\ conn'.trap = c.trap /\ conn'.job = c.job
          /\ conn'.peer = c.peer
      BY <2>3, <2>5 DEF RequestDisconnect, Connection
    <3> QED
      BY <2>1, <2>4, <3>1 DEF SentInv, ForACommand, Behind, AckedNow
  <2>6. CASE /\ j <= Len(c.ops)
             /\ conn' = Issued(c1, c.ops[j])
             /\ air' = IF c.ops[j].kind = "WAIT"
                       THEN [a EXCEPT !.timers = @ \cup {"live"}]
                       ELSE [a EXCEPT !.outstanding = Append(@, c.ops[j])]
    <3>1. /\ conn'.ops = c.ops /\ conn'.idx = j /\ conn'.ok = ok
          /\ conn'.uartErr = c.uartErr /\ conn'.trap = c.trap /\ conn'.job = c.job
          /\ conn'.peer = c.peer
          /\ c.ops[j].kind # "WAIT" => conn'.handle = Handle(c.ops[j])
      BY <2>3, <2>6 DEF Issued, Connection
    <3>2. j \in 1..Len(c.ops) /\ j \in 1..j
      BY <1>0, <2>2, <2>6
    <3>3. ASSUME c.ops[j].command
          PROVE  conn'.handle = "NUS_RX" /\ air'.outstanding # <<>>
      <4>1. LeadsUp(c.ops[j])
        BY <3>2, <3>3 DEF CommandFirst
      <4>2. c.ops[j].kind = "REQUEST"
        BY <3>3, <4>1 DEF LeadsUp
      <4>3. air'.outstanding = Append(a.outstanding, c.ops[j])
        BY <2>6, <4>2 DEF Air
      <4>4. c.ops[j] \in Op
        BY <1>0, <3>2
      <4>5. Append(a.outstanding, c.ops[j]) # <<>>
        BY <1>0, <4>4, AppendProperties, EmptySeq
      <4> QED
        BY <3>1, <4>2, <4>3, <4>5 DEF Handle, Requests
    <3> QED
      BY <2>1, <2>4, <3>1, <3>3 DEF SentInv, ForACommand, Behind, AckedNow, Current
  <2> QED
    BY <2>1, <2>5, <2>6
<1> QED
  BY <1>1, <1>2

\* The operation in flight ends, with the connection changed to c.
LEMMA SentEnds ==
  ASSUME IInv, CInv, SentInv, conn.trap # 0, conn.inFlight,
         NEW c \in Connection, NEW a \in Air,
         c.trap = conn.trap, c.job = conn.job, c.peer = conn.peer, c.ops = conn.ops,
         c.ok => conn.ok /\ ~c.uartErr, OpDone(c, a), MemoryKept, UNCHANGED silences,
         silences = 0 /\ c.ok /\ Current.command => "session" \in slot'[conn.trap].acked
  PROVE  SentInv'
<1> DEFINE k == conn.idx + 1
<1>1. conn.started /\ conn.idx \in 1..Len(conn.ops) /\ Len(conn.ops) \in Nat
  BY InSession, LenProperties DEF IInv, ScriptInv, Connection
<1>2. k \in 1..(Len(c.ops) + 1) /\ RunFrom(c, k, a)
  BY <1>1 DEF OpDone
<1>3. NoneFrom(conn.ops, k) => NoneFrom(conn.ops, conn.idx) \/ Current.command
  BY <1>1 DEF NoneFrom, Current
<1> HIDE DEF k
<1>4. ASSUME silences' = 0, c.ok
      PROVE  /\ c.job \in Commands /\ ModelOf[c.peer] = "C20" => HasCommand(c.ops)
             /\ HasCommand(c.ops) /\ NoneFrom(c.ops, k) => "session" \in slot'[c.trap].acked
  <2>1. /\ ForACommand => HasCommand(conn.ops)
        /\ HasCommand(conn.ops) /\ Behind => AckedNow
    BY <1>1, <1>4 DEF SentInv
  <2>2. AckedNow => "session" \in slot'[conn.trap].acked
    BY <1>4 DEF MemoryKept, Keeps, AckedNow
  <2> QED
    BY <1>3, <1>4, <2>1, <2>2 DEF ForACommand, Behind
<1> QED
  BY <1>2, <1>4, SentRunsOn DEF CInv

LEMMA SentMayConnect ==
  ASSUME IInv, SentInv, NEW s \in Slots, NEW r,
         Keeps(slot[s], r) \/ slot[s].bound = NoDev,
         MaybeConnect(s, r), UNCHANGED <<air, silences>>
  PROVE  SentInv'
<1>1. CASE conn' = Start(s, r)
  BY <1>1, SentBefore DEF Start, Free
<1>2. CASE slot' = [slot EXCEPT ![s] = r] /\ UNCHANGED conn
  BY <1>2, RemembersOne, SentUnmoved
<1> QED
  BY <1>1, <1>2 DEF MaybeConnect

\* The session is asked to end and can no longer end well.
LEMMA SentAborted ==
  ASSUME IInv, SentInv, UNCHANGED <<air, silences>>,
         conn' = [conn EXCEPT !.ok = FALSE, !.disc = TRUE, !.link = Disconnect(@)]
  PROVE  SentInv'
<1>1. conn \in Connection
  BY InSession
<1>2. /\ ~conn'.ok /\ conn'.inFlight = conn.inFlight /\ conn'.handle = conn.handle
      /\ conn'.ops = conn.ops /\ conn'.idx = conn.idx
  BY <1>1 DEF Connection
<1> QED
  BY <1>2 DEF SentInv, Current

-----------------------------------------------------------------------------
(***************************************************************************)
(* The actions, one lemma each or one per kind.                            *)
(***************************************************************************)
LEMMA AdvertiseSent ==
  ASSUME IInv, SentInv, NEW d \in Devices, Advertise(d)
  PROVE  SentInv'
<1>1. PICK s \in Slots :
        /\ Takes(s, d)
        /\ \E r \in OnAdvertisement(IF slot[s].bound = d THEN slot[s] ELSE BoundTo(d)) :
             MaybeConnect(s, r)
  BY DEF Advertise
<1> DEFINE q == IF slot[s].bound = d THEN slot[s] ELSE BoundTo(d)
<1>2. PICK r \in OnAdvertisement(q) : MaybeConnect(s, r)
  BY <1>1
<1>3. slot[s] \in TrapState
  BY InSession
<1>4. Keeps(slot[s], r) \/ slot[s].bound = NoDev
  <2>1. CASE slot[s].bound = d
    BY <1>2, <1>3, <2>1, HeardRemembers
  <2>2. CASE slot[s].bound # d
    BY <1>1, <2>2 DEF Takes, FirstFree
  <2> QED
    BY <2>1, <2>2
<1>5. UNCHANGED <<air, silences>>
  BY DEF Advertise
<1> QED
  BY <1>2, <1>4, <1>5, SentMayConnect

LEMMA LinkSent ==
  ASSUME IInv, SentInv, Promote \/ OpenSucceeds \/ LinkClosed \/ JobAges
  PROVE  SentInv'
<1>1. conn \in Connection /\ UNCHANGED <<slot, air, silences>>
  BY InSession DEF Promote, OpenSucceeds, LinkClosed, JobAges
<1>2. Rests
  BY <1>1 DEF Promote, OpenSucceeds, LinkClosed, JobAges, Connection, Rests, Holds
<1> QED
  BY <1>1, <1>2, SentRests DEF MemoryKept, Keeps

LEMMA EndSent ==
  ASSUME OpenFails \/ LinkDown \/ HardTimeout
  PROVE  SentInv'
BY SentFreed DEF OpenFails, LinkDown, HardTimeout, Finish

LEMMA SearchCompleteSent ==
  ASSUME IInv, SessionOnItsOwnTrap, CInv, SentInv, SearchComplete
  PROVE  SentInv'
<1> DEFINE r    == slot[conn.trap]
           ops  == BuildOps(IF IsC20(r) THEN "C20" ELSE "A24", conn.job, r.unanswered,
                            r.bound \in HistoryDevices)
           c    == [conn EXCEPT !.link = "ESTABLISHED", !.started = TRUE, !.ops = ops,
                             !.owed = Owing(ops)]
           mute == [c EXCEPT !.ok = FALSE, !.uartErr = TRUE]
<1>1. /\ conn.trap # 0 /\ ~conn.started /\ UNCHANGED <<slot, silences>>
      /\ \/ RunFrom(c, 1, air)
         \/ IsC20(r) /\ conn' = RequestDisconnect(mute) /\ UNCHANGED air
         \/ IsC20(r) /\ RunFrom(mute, 2, air)
  BY DEF SearchComplete
<1>2. conn \in Connection /\ air \in Air /\ conn.trap \in Slots
  BY <1>1, InSession
<1>3. ops \in Seq(Op) /\ (IsC20(r) => Len(ops) >= 1) /\ CommandFirst(ops)
  BY BuildOpsType, BuildOpsCommand
<1>4. conn.ok /\ ForACommand => HasCommand(ops)
  <2>1. conn.ok => r.bound = conn.peer /\ r.bound # NoDev
    BY <1>1, OwnerIsBound DEF SessionOnItsOwnTrap
  <2>2. conn.ok /\ ForACommand => IsC20(r) /\ conn.job \in Commands
    BY <2>1 DEF ForACommand, IsC20
  <2> QED
    BY <2>2, ScriptHasCommand
<1>5. conn.ok /\ NoneFrom(ops, 1) => ~HasCommand(ops)
  BY DEF NoneFrom, HasCommand
<1> HIDE DEF ops, r
<1>6. /\ c \in Connection /\ c.ops = ops /\ c.ok = conn.ok /\ c.uartErr = conn.uartErr
      /\ c.job = conn.job /\ c.peer = conn.peer
  BY <1>2, <1>3, OwingType DEF Connection, Links
<1> HIDE DEF c
<1>7. mute \in Connection /\ mute.ops = ops /\ ~mute.ok
  BY <1>6 DEF Connection
<1> HIDE DEF mute
<1>8. Len(ops) \in Nat
  BY <1>3, LenProperties
<1>9. CASE RunFrom(c, 1, air)
  <2>1. 1 \in 1..(Len(c.ops) + 1)
    BY <1>6, <1>8
  <2>2. c.ok => ~c.uartErr
    BY <1>6 DEF SentInv
  <2> QED
    BY <1>2, <1>3, <1>4, <1>5, <1>6, <1>9, <2>1, <2>2, SentRunsOn DEF ForACommand
<1>10. CASE conn' = RequestDisconnect(mute)
  <2>1. ~conn'.ok /\ ~conn'.inFlight
    BY <1>7, <1>10 DEF RequestDisconnect, Connection
  <2> QED
    BY <2>1 DEF SentInv
<1>11. CASE IsC20(r) /\ RunFrom(mute, 2, air)
  <2>1. 2 \in 1..(Len(mute.ops) + 1)
    BY <1>3, <1>7, <1>8, <1>11
  <2> QED
    BY <1>2, <1>3, <1>7, <1>11, <2>1, SentRunsOn
<1> QED
  BY <1>1, <1>9, <1>10, <1>11

\* The report comes for an operation that is over, or does not end the one in
\* flight; it is the last there was on the command only if it acknowledged it.
LEMMA PoppedSent ==
  ASSUME IInv, CInv, SentInv, air.outstanding # <<>>, NEW status, MemoryKept,
         UNCHANGED silences, EventOnly(Popped(Head(air.outstanding), status)),
         silences = 0 /\ conn.ok /\ conn.inFlight /\ Current.command
           => "session" \in slot'[conn.trap].acked
  PROVE  SentInv'
<1>1. conn' = conn
  BY DEF EventOnly
<1>2. Rests
  BY <1>1 DEF Rests, Holds
<1> QED
  BY <1>1, <1>2, SentRests DEF AckedNow

LEMMA ReadSent ==
  ASSUME IInv, CInv, SentInv, ReadComplete
  PROVE  SentInv'
<1> DEFINE o == Head(air.outstanding)
<1>1. /\ conn.trap # 0 /\ air.outstanding # <<>> /\ UNCHANGED <<slot, silences>>
      /\ o.kind = "READ" /\ MemoryKept
  BY DEF ReadComplete, MemoryKept, Keeps
<1>2. PICK status \in Statuses :
        IF conn.inFlight /\ Current.kind = "READ" /\ conn.handle = Handle(o)
        THEN \E v \in {"zero", "some"} :
               OpDone([conn EXCEPT !.got = IF o.what \in Cursors /\ status = "OK"
                                           THEN [@ EXCEPT ![o.what] = v] ELSE @],
                      Popped(o, status))
        ELSE EventOnly(Popped(o, status))
  BY DEF ReadComplete
<1>3. CASE EventOnly(Popped(o, status))
  <2>1. ~(silences = 0 /\ conn.inFlight /\ Current.command)
    BY <1>1, CommandAhead, UpToTheCommand DEF LeadsUp
  <2> QED
    BY <1>1, <1>3, <2>1, PoppedSent
<1>4. ASSUME conn.inFlight, Current.kind = "READ", NEW v \in {"zero", "some"},
             OpDone([conn EXCEPT !.got = IF o.what \in Cursors /\ status = "OK"
                                         THEN [@ EXCEPT ![o.what] = v] ELSE @],
                    Popped(o, status))
      PROVE  SentInv'
  <2> DEFINE got == IF o.what \in Cursors /\ status = "OK"
                    THEN [conn.got EXCEPT ![o.what] = v] ELSE conn.got
             c == [conn EXCEPT !.got = got]
             a == Popped(o, status)
  <2>1. conn.got \in [Cursors -> {"none", "zero", "some"}] /\ conn \in Connection
    BY InSession DEF Connection
  <2>2. got \in [Cursors -> {"none", "zero", "some"}]
    BY <2>1
  <2>3. OpDone(c, a)
    BY <1>4, <2>1 DEF Connection
  <2>4. a \in Air
    BY <1>1, InSession, PoppedParts
  <2> HIDE DEF got, a
  <2>5. /\ c \in Connection /\ c.trap = conn.trap /\ c.ops = conn.ops /\ c.job = conn.job
        /\ c.peer = conn.peer /\ c.ok = conn.ok /\ c.uartErr = conn.uartErr
    BY <2>1, <2>2 DEF Connection
  <2> HIDE DEF c
  <2>6. ~Current.command
    BY <1>4, CommandAhead, UpToTheCommand DEF LeadsUp
  <2>7. c.ok => conn.ok /\ ~c.uartErr
    BY <2>5 DEF SentInv
  <2> QED
    BY <1>1, <1>4, <2>3, <2>4, <2>5, <2>6, <2>7, SentEnds
<1> QED
  BY <1>2, <1>3, <1>4

(***************************************************************************)
(* A report on the write of the command either ends the session as one     *)
(* that may end well, or is the acknowledgement.                           *)
(***************************************************************************)
LEMMA WriteSent ==
  ASSUME IInv, CInv, SentInv, WriteComplete
  PROVE  SentInv'
<1> DEFINE o == Head(air.outstanding)
           q == slot[conn.trap]
<1>1. conn.trap # 0 /\ air.outstanding # <<>> /\ UNCHANGED silences
      /\ o.kind \in {"WRITE", "ECHO", "REQUEST", "LOGS"}
  BY DEF WriteComplete
<1>2. PICK status \in Statuses :
        LET matched == conn.inFlight /\ conn.handle = Handle(o)
            r       == Acknowledged(slot[conn.trap], o, status)
        IN
        /\ slot' = [slot EXCEPT ![conn.trap] =
                      IF matched /\ Current.command /\ status = "OK"
                      THEN CommandDelivered(r, conn.job) ELSE r]
        /\ IF matched /\ WriteEnds(status)
           THEN OpDone([conn EXCEPT !.ok = @ /\ WriteOk(status), !.owed = Paid(status)],
                       Popped(o, status))
           ELSE EventOnly(Popped(o, status))
  BY DEF WriteComplete
<1> DEFINE r == Acknowledged(q, o, status)
<1>3. slot \in [Slots -> TrapState] /\ conn.trap \in Slots /\ q \in TrapState
  BY <1>1, InSession
<1>4. r \in TrapState /\ Keeps(q, r) /\ Keeps(r, CommandDelivered(r, conn.job))
  <2>1. r \in TrapState
    BY <1>3, InSession, AcknowledgedType
  <2>2. \A w, x : Keeps(q, Acknowledged(q, w, x))
    BY <1>3, MethodsRemember
  <2>3. Keeps(q, r)
    BY <2>2, Zenon
  <2> HIDE DEF r
  <2>4. Keeps(r, CommandDelivered(r, conn.job))
    BY <2>1, MethodsRemember
  <2> QED
    BY <2>1, <2>3, <2>4
<1>5. o.command /\ status = "OK" => "session" \in r.acked
  BY <1>3 DEF Acknowledged, TrapState
<1> HIDE DEF r
<1>6. slot'[conn.trap] \in {r, CommandDelivered(r, conn.job)}
  BY <1>2, <1>3 DEF r
<1>7. MemoryKept /\ ("session" \in r.acked => "session" \in slot'[conn.trap].acked)
  BY <1>4, <1>6 DEF MemoryKept, Keeps
<1>8. ASSUME silences = 0, conn.inFlight, Current.command
      PROVE  /\ o = Current /\ conn.handle = Handle(o) /\ Current.kind = "REQUEST"
  <2>1. o = Current /\ LeadsUp(Current)
    BY <1>1, <1>8, CommandAhead, UpToTheCommand
  <2>2. conn.handle = "NUS_RX" /\ Current.kind = "REQUEST"
    BY <1>8, <2>1 DEF SentInv, LeadsUp
  <2> QED
    BY <2>1, <2>2 DEF Handle, Requests
<1>9. CASE EventOnly(Popped(o, status)) /\ ~(conn.inFlight /\ conn.handle = Handle(o)
                                             /\ WriteEnds(status))
  <2>1. ASSUME silences = 0, conn.ok, conn.inFlight, Current.command
        PROVE  "session" \in slot'[conn.trap].acked
    <3>1. status = "OK"
      BY <1>8, <1>9, <2>1 DEF WriteEnds, Requests
    <3> QED
      BY <1>5, <1>7, <1>8, <2>1, <3>1
  <2> QED
    BY <1>1, <1>7, <1>9, <2>1, PoppedSent
<1>10. CASE /\ conn.inFlight /\ WriteEnds(status)
            /\ OpDone([conn EXCEPT !.ok = @ /\ WriteOk(status), !.owed = Paid(status)],
                      Popped(o, status))
  <2> DEFINE ok   == conn.ok /\ WriteOk(status)
             left == Paid(status)
             c    == [conn EXCEPT !.ok = ok, !.owed = left]
             a    == Popped(o, status)
  <2>1. conn \in Connection /\ ok \in BOOLEAN /\ left \in SUBSET Nat
    BY InSession, PaidType DEF Connection
  <2>2. OpDone(c, a)
    BY <1>10, <2>1 DEF Connection
  <2>3. ~(silences = 0 /\ ok /\ Current.command)
    <3> SUFFICES ASSUME silences = 0, conn.ok, Current.command, WriteOk(status) PROVE FALSE
      OBVIOUS
    <3>1. Current.kind = "REQUEST" /\ ~conn.uartErr
      BY <1>8, <1>10 DEF SentInv
    <3>2. status # "OK"
      BY <1>10, <3>1 DEF WriteEnds
    <3> QED
      BY <3>1, <3>2 DEF WriteOk
  <2>4. ok => conn.ok /\ ~conn.uartErr
    BY DEF SentInv
  <2> HIDE DEF ok, left
  <2>5. /\ c \in Connection /\ c.trap = conn.trap /\ c.ops = conn.ops /\ c.job = conn.job
        /\ c.peer = conn.peer /\ c.ok = ok /\ c.uartErr = conn.uartErr
    BY <2>1 DEF Connection
  <2> HIDE DEF c
  <2>6. a \in Air
    BY <1>1, InSession, PoppedParts
  <2> HIDE DEF a
  <2> QED
    BY <1>1, <1>7, <1>10, <2>2, <2>3, <2>4, <2>5, <2>6, SentEnds
<1> QED
  BY <1>2, <1>9, <1>10

LEMMA NotifyOnSent ==
  ASSUME IInv, CInv, SentInv, NotifyOnComplete
  PROVE  SentInv'
<1> DEFINE o == Head(air.outstanding)
<1>1. /\ conn.trap # 0 /\ air.outstanding # <<>> /\ UNCHANGED <<slot, silences>>
      /\ o.kind = "NOTIFY_ON" /\ MemoryKept
  BY DEF NotifyOnComplete, MemoryKept, Keeps
<1>2. PICK status \in {"OK", "REFUSED"} :
        IF conn.inFlight /\ Current.kind = "NOTIFY_ON"
        THEN OpDone([conn EXCEPT !.ok = @ /\ status = "OK", !.uartErr = @ \/ status # "OK",
                                 !.owed = Paid(status)],
                    Popped(o, status))
        ELSE EventOnly(Popped(o, status))
  BY DEF NotifyOnComplete
<1>3. ~(silences = 0 /\ conn.inFlight /\ Current.command)
  <2> SUFFICES ASSUME silences = 0, conn.inFlight, Current.command PROVE FALSE
    OBVIOUS
  <2>1. o = Current /\ LeadsUp(Current)
    BY <1>1, CommandAhead, UpToTheCommand
  <2> QED
    BY <1>1, <2>1 DEF LeadsUp
<1>4. CASE EventOnly(Popped(o, status))
  BY <1>1, <1>3, <1>4, PoppedSent
<1>5. CASE /\ conn.inFlight
           /\ OpDone([conn EXCEPT !.ok = @ /\ status = "OK", !.uartErr = @ \/ status # "OK",
                                  !.owed = Paid(status)],
                     Popped(o, status))
  <2> DEFINE ok  == conn.ok /\ status = "OK"
             err == conn.uartErr \/ status # "OK"
             left == Paid(status)
             c   == [conn EXCEPT !.ok = ok, !.uartErr = err, !.owed = left]
             a   == Popped(o, status)
  <2>1. conn \in Connection /\ ok \in BOOLEAN /\ err \in BOOLEAN /\ left \in SUBSET Nat
    BY InSession, PaidType DEF Connection
  <2>2. OpDone(c, a)
    BY <1>5, <2>1 DEF Connection
  <2>3. ok => conn.ok /\ ~err
    BY DEF SentInv
  <2> HIDE DEF ok, err, left
  <2>4. /\ c \in Connection /\ c.trap = conn.trap /\ c.ops = conn.ops /\ c.job = conn.job
        /\ c.peer = conn.peer /\ c.ok = ok /\ c.uartErr = err
    BY <2>1 DEF Connection
  <2> HIDE DEF c
  <2>5. a \in Air
    BY <1>1, InSession, PoppedParts
  <2> HIDE DEF a
  <2> QED
    BY <1>1, <1>3, <1>5, <2>2, <2>3, <2>4, <2>5, SentEnds
<1> QED
  BY <1>2, <1>4, <1>5

LEMMA FrameRemembers ==
  ASSUME IInv, conn.trap # 0, NEW type, FrameApplied(type)
  PROVE  MemoryKept
<1> DEFINE q == slot[conn.trap]
<1>1. conn.trap \in Slots /\ q \in TrapState
  BY InSession
<1>2. \/ \E h \in Healths, b \in BOOLEAN :
           slot' = [slot EXCEPT ![conn.trap] = [q EXCEPT !.health = h, !.alert = b]]
      \/ slot' = [slot EXCEPT ![conn.trap] = [q EXCEPT !.unanswered = {}]]
      \/ UNCHANGED slot
  BY Zenon DEF FrameApplied
<1>3. ASSUME NEW h \in Healths, NEW b \in BOOLEAN
      PROVE  [q EXCEPT !.health = h, !.alert = b].acked = q.acked
  BY <1>1 DEF TrapState
<1>4. [q EXCEPT !.unanswered = {}].acked = q.acked
  BY <1>1 DEF TrapState
<1>5. ASSUME NEW r, r.acked = q.acked, slot' = [slot EXCEPT ![conn.trap] = r]
      PROVE  MemoryKept
  <2>1. Keeps(slot[conn.trap], r)
    BY <1>5 DEF Keeps
  <2> QED
    BY <1>1, <1>5, <2>1, RemembersOne
<1>6. CASE UNCHANGED slot
  BY <1>6 DEF MemoryKept, Keeps
<1>7. ASSUME NEW h \in Healths, NEW b \in BOOLEAN,
             slot' = [slot EXCEPT ![conn.trap] = [q EXCEPT !.health = h, !.alert = b]]
      PROVE  MemoryKept
  <2> DEFINE r == [q EXCEPT !.health = h, !.alert = b]
  <2>1. r.acked = q.acked /\ slot' = [slot EXCEPT ![conn.trap] = r]
    BY <1>3, <1>7
  <2> HIDE DEF r
  <2> QED
    BY <1>5, <2>1
<1>8. CASE slot' = [slot EXCEPT ![conn.trap] = [q EXCEPT !.unanswered = {}]]
  <2> DEFINE r == [q EXCEPT !.unanswered = {}]
  <2>1. r.acked = q.acked /\ slot' = [slot EXCEPT ![conn.trap] = r]
    BY <1>4, <1>8
  <2> HIDE DEF r
  <2> QED
    BY <1>5, <2>1
<1> QED
  BY <1>2, <1>6, <1>7, <1>8, Zenon

\* A frame ends the command only as the answer to it, which the trap sends once
\* it has acknowledged the write.
LEMMA AnswerSent ==
  ASSUME IInv, CInv, SentInv, Answer \/ NoAnswer
  PROVE  SentInv'
<1> DEFINE a    == [air EXCEPT !.answers = Tail(@)]
           type == Head(air.answers)
<1>1. conn.trap # 0 /\ air.answers # <<>> /\ UNCHANGED silences
  BY DEF Answer, NoAnswer, Frame
<1>2. a \in Air /\ a.outstanding = air.outstanding /\ conn.started
  BY <1>1, AnswerLeft
<1>3. ASSUME silences = 0, conn.ok, conn.inFlight, Current.command
      PROVE  AckedNow
  <2>1. conn.idx \in 1..Len(conn.ops) /\ Len(conn.ops) \in Nat
    BY <1>3, InSession, LenProperties DEF IInv, ScriptInv, Connection
  <2>2. HasCommand(conn.ops)
    BY <1>3, <2>1 DEF HasCommand, Current
  <2>3. ~NoneFrom(conn.ops, conn.idx)
    BY <1>3, CommandAhead
  <2>4. air.outstanding = <<>>
    BY <1>1, <1>3, <2>3, UpToTheCommand
  <2> QED
    BY <1>1, <1>2, <1>3, <2>2, <2>4 DEF SentInv, Behind
<1>4. CASE NoAnswer
  <2>1. UNCHANGED <<slot, conn>> /\ air' = a
    BY <1>4 DEF NoAnswer
  <2> QED
    BY <1>1, <1>2, <2>1, SentUnmoved DEF MemoryKept, Keeps
<1>5. CASE Answer
  <2>1. FrameApplied(type)
        /\ (IF conn.inFlight /\ Current.kind \in Requests /\ Current.what = type
            THEN OpDone(Answered, a) ELSE EventOnly(a))
    BY <1>5 DEF Answer, Frame, Answered
  <2>2. MemoryKept
    BY <1>1, <2>1, FrameRemembers
  <2>3. CASE EventOnly(a)
    BY <1>1, <1>2, <2>2, <2>3, SentUnmoved DEF EventOnly
  <2>4. CASE conn.inFlight /\ OpDone(Answered, a)
    <3>1. silences = 0 /\ conn.ok /\ Current.command => "session" \in slot'[conn.trap].acked
      BY <1>1, <1>3, <2>2, <2>4 DEF MemoryKept, Keeps, AckedNow
    <3>2. conn \in Connection /\ (conn.ok => ~conn.uartErr)
      BY InSession DEF SentInv
    <3> HIDE DEF a
    <3> QED
      BY <1>1, <1>2, <2>2, <2>4, <3>1, <3>2, AnsweredType, SentEnds
  <2> QED
    BY <2>1, <2>3, <2>4
<1> QED
  BY <1>4, <1>5

LEMMA StateReportSent ==
  ASSUME IInv, CInv, SentInv, StateReport
  PROVE  SentInv'
<1>1. /\ conn.trap # 0 /\ UNCHANGED silences /\ FrameApplied("DEVICE_STATE")
      /\ (IF conn.inFlight /\ Current.kind \in Requests /\ Current.what = "DEVICE_STATE"
          THEN OpDone(Answered, air) ELSE EventOnly(air))
  BY DEF StateReport, Frame, Answered
<1>2. MemoryKept
  BY <1>1, FrameRemembers
<1>3. CASE EventOnly(air)
  BY <1>1, <1>2, <1>3, SentUnmoved DEF EventOnly
<1>4. CASE conn.inFlight /\ Current.kind \in Requests /\ Current.what = "DEVICE_STATE"
           /\ OpDone(Answered, air)
  <2>1. ~LeadsUp(Current)
    BY <1>4 DEF LeadsUp, Requests
  <2>2. ~Current.command
    BY <1>4, <2>1, UpToTheCommand, CommandAhead
  <2>3. conn \in Connection /\ air \in Air /\ (conn.ok => ~conn.uartErr)
    BY InSession DEF SentInv
  <2> QED
    BY <1>1, <1>2, <1>4, <2>2, <2>3, AnsweredType, SentEnds
<1> QED
  BY <1>1, <1>3, <1>4

\* From the first timeout on nothing is claimed but what the connection is.
LEMMA OpTimeoutSent ==
  ASSUME IInv, CInv, SentInv, OpTimeout
  PROVE  SentInv'
<1> DEFINE ok == conn.ok /\ (Current.kind = "LOGS" \/ Current.optional)
           c  == [conn EXCEPT !.ok = ok]
           k  == conn.idx + 1
<1>1. /\ conn \in Connection /\ air \in Air /\ conn.trap # 0 /\ conn.inFlight
      /\ silences \in Nat /\ silences' = silences + 1
  BY InSession, SessionAssumption DEF OpTimeout
<1>2. silences' # 0
  BY <1>1
<1>3. RunFrom(c, k, air)
  BY <1>1 DEF OpTimeout, OpDone, Connection
<1>4. ok \in BOOLEAN /\ (ok => ~conn.uartErr)
  BY <1>1 DEF Connection, SentInv
<1> HIDE DEF ok
<1>5. /\ c \in Connection /\ c.ops = conn.ops /\ c.ok = ok /\ c.uartErr = conn.uartErr
  BY <1>1, <1>4 DEF Connection
<1> HIDE DEF c
<1>6. k \in 1..(Len(c.ops) + 1)
  <2>1. conn.idx \in 1..Len(conn.ops) /\ Len(conn.ops) \in Nat
    BY <1>1, LenProperties DEF IInv, ScriptInv, Connection
  <2> QED
    BY <1>5, <2>1
<1> HIDE DEF k
<1> QED
  BY <1>1, <1>2, <1>3, <1>4, <1>5, <1>6, SentRunsOn DEF CInv

LEMMA WaitSent ==
  ASSUME IInv, CInv, SentInv, NEW t \in {"live", "stale"}, WaitElapses(t)
  PROVE  SentInv'
<1> DEFINE a == [air EXCEPT !.timers = @ \ {t}]
<1>1. /\ t \in air.timers /\ UNCHANGED <<slot, silences>> /\ MemoryKept
      /\ (IF t = "live" /\ conn.trap # 0 /\ conn.inFlight THEN OpDone(conn, a) ELSE EventOnly(a))
  BY DEF WaitElapses, MemoryKept, Keeps
<1>2. a \in Air /\ a.outstanding = air.outstanding
  BY InSession DEF Air
<1> HIDE DEF a
<1>3. CASE EventOnly(a)
  BY <1>1, <1>2, <1>3, SentUnmoved DEF EventOnly
<1>4. CASE t = "live" /\ conn.trap # 0 /\ conn.inFlight /\ OpDone(conn, a)
  <2>1. ~Current.command
    BY <1>1, <1>4, CommandAhead DEF CInv, NoTimerYet
  <2>2. conn \in Connection /\ (conn.ok => ~conn.uartErr)
    BY InSession DEF SentInv
  <2> QED
    BY <1>1, <1>2, <1>4, <2>1, <2>2, SentEnds
<1> QED
  BY <1>1, <1>3, <1>4

LEMMA JobTimeoutSent ==
  ASSUME IInv, SentInv, JobTimeout
  PROVE  SentInv'
<1>1. CASE Finish(slot, conn, "IDLE", FALSE)
  BY <1>1, SentFreed DEF Finish
<1>2. CASE /\ conn' = [conn EXCEPT !.ok = FALSE, !.disc = TRUE, !.link = Disconnect(@)]
           /\ UNCHANGED air
  BY <1>2, SentAborted DEF JobTimeout
<1> QED
  BY <1>1, <1>2 DEF JobTimeout, Abort

LEMMA BackoffSent ==
  ASSUME IInv, SentInv, NEW s \in Slots, BackoffElapses(s) \/ PollDue(s)
  PROVE  SentInv'
<1> DEFINE r == slot[s]
<1>1. r \in TrapState /\ UNCHANGED <<conn, air, silences>>
  BY InSession DEF BackoffElapses, PollDue
<1>2. slot' = [slot EXCEPT ![s] = [r EXCEPT !.backoff = FALSE]]
      \/ slot' = [slot EXCEPT ![s] = [r EXCEPT !.due = TRUE]]
  BY InSession DEF BackoffElapses, PollDue
<1>3. Keeps(r, [r EXCEPT !.backoff = FALSE]) /\ Keeps(r, [r EXCEPT !.due = TRUE])
  BY <1>1 DEF Keeps, TrapState
<1>4. MemoryKept
  BY <1>2, <1>3, RemembersOne
<1> QED
  BY <1>1, <1>4, SentUnmoved

LEMMA ButtonSent ==
  ASSUME IInv, SentInv, NEW s \in Slots, PollNow(s) \/ TestFire(s) \/ ClearKillAlert(s)
  PROVE  SentInv'
<1> DEFINE r == BackoffCleared(slot[s])
<1>1. r \in TrapState /\ r.acked = slot[s].acked
  <2>1. slot[s] \in TrapState /\ SlotInv(slot[s])
    BY InSession
  <2>2. r \in TrapState
    BY <2>1, BackoffClearedType
  <2> QED
    BY <2>1, <2>2 DEF BackoffCleared, TrapState
<1>2. /\ \/ \E job \in {"POLL", "TEST_FIRE", "RESET_ALERT"} : RequestJob(s, r, job)
         \/ slot' = [slot EXCEPT ![s] = r] /\ UNCHANGED conn
         \/ slot' = [slot EXCEPT ![s] = [r EXCEPT !.alert = FALSE]] /\ UNCHANGED conn
      /\ UNCHANGED <<air, silences>>
  <2> HIDE DEF r
  <2>1. CASE PollNow(s)
    BY <2>1 DEF PollNow, r
  <2>2. CASE TestFire(s)
    BY <2>2 DEF TestFire, r
  <2>3. CASE ClearKillAlert(s)
    BY <2>3 DEF ClearKillAlert, r
  <2> QED
    BY <2>1, <2>2, <2>3
<1> HIDE DEF r
<1>3. Keeps(slot[s], r) /\ Keeps(slot[s], [r EXCEPT !.alert = FALSE])
  BY <1>1 DEF Keeps, TrapState
<1>4. ASSUME NEW t, Keeps(slot[s], t), slot' = [slot EXCEPT ![s] = t], UNCHANGED conn
      PROVE  SentInv'
  BY <1>2, <1>4, RemembersOne, SentUnmoved
<1>5. ASSUME NEW job \in {"POLL", "TEST_FIRE", "RESET_ALERT"}, RequestJob(s, r, job)
      PROVE  SentInv'
  <2> DEFINE t == Requested(r, job)
  <2>1. Keeps(slot[s], t)
    BY <1>1, MethodsRemember DEF Keeps
  <2> HIDE DEF t
  <2>2. \/ slot' = [slot EXCEPT ![s] = r] /\ UNCHANGED conn
        \/ slot' = [slot EXCEPT ![s] = t] /\ UNCHANGED conn
        \/ MaybeConnect(s, t)
    BY <1>5 DEF RequestJob, t
  <2> QED
    BY <1>2, <1>3, <1>4, <2>1, <2>2, SentMayConnect
<1> QED
  BY <1>2, <1>3, <1>4, <1>5

LEMMA ForgetSent ==
  ASSUME IInv, SentInv, NEW s \in Slots, ForgetTrap(s)
  PROVE  SentInv'
<1>1. slot' = [slot EXCEPT ![s] = Unbound] /\ UNCHANGED silences
  BY DEF ForgetTrap, Abort
<1>2. CASE conn.trap # s /\ UNCHANGED <<conn, air>>
  <2>1. MemoryKept
    BY <1>1, <1>2, InSession DEF MemoryKept, Keeps
  <2> QED
    BY <1>1, <1>2, <2>1, SentUnmoved
<1>3. CASE conn' = Free("IDLE")
  BY <1>3, SentFreed
<1>4. CASE /\ conn' = [conn EXCEPT !.ok = FALSE, !.disc = TRUE, !.link = Disconnect(@)]
           /\ UNCHANGED air
  BY <1>1, <1>4, SentAborted
<1> QED
  BY <1>2, <1>3, <1>4 DEF ForgetTrap, Abort

-----------------------------------------------------------------------------
LEMMA InitSentInv == Init => SentInv
BY DEF Init, Free, SentInv

LEMMA StepSentInv ==
  IInv /\ SessionOnItsOwnTrap /\ CInv /\ SentInv /\ [Next]_vars => SentInv'
<1> SUFFICES ASSUME IInv, SessionOnItsOwnTrap, CInv, SentInv, [Next]_vars PROVE SentInv'
  OBVIOUS
<1>1. ASSUME NEW d \in Devices, Advertise(d) PROVE SentInv'
  BY <1>1, AdvertiseSent
<1>2. CASE StackEvent
  BY <1>2, LinkSent, EndSent, SearchCompleteSent, ReadSent, WriteSent, NotifyOnSent, AnswerSent,
     StateReportSent DEF StackEvent
<1>3. CASE Clock
  BY <1>3, OpTimeoutSent, LinkSent, JobTimeoutSent, EndSent, WaitSent, BackoffSent DEF Clock
<1>4. CASE User
  BY <1>4, ButtonSent, ForgetSent DEF User
<1>5. CASE Restart
  BY <1>5, SentFreed DEF Restart
<1>6. CASE UNCHANGED vars
  BY <1>6, SentUnmoved DEF vars, MemoryKept, Keeps
<1> QED
  BY <1>1, <1>2, <1>3, <1>4, <1>5, <1>6 DEF Next

\* build_ops_, op_done_ and finish_ together: a test fire or a clear that is taken
\* from the queue as done was acknowledged by the trap in the session that did it,
\* as long as no operation has timed out.
THEOREM DoneMeansSentHolds == Spec => []DoneMeansSent
<1>1. IInv /\ SessionOnItsOwnTrap /\ CInv /\ SentInv => DoneMeansSent
  <2> SUFFICES ASSUME IInv, SessionOnItsOwnTrap, CInv, SentInv, silences = 0, conn.disc, conn.ok,
                      conn.job \in Commands, IsC20(slot[conn.trap])
               PROVE  AckedNow
    BY DEF DoneMeansSent, AckedNow
  <2>1. conn.started /\ conn.idx = Len(conn.ops) + 1 /\ conn.trap # 0
    BY DEF IInv, ScriptInv, CInv, NothingYet
  <2>2. slot[conn.trap].bound = conn.peer
    BY <2>1 DEF SessionOnItsOwnTrap
  <2>3. ForACommand
    BY <2>2 DEF ForACommand, IsC20
  <2>4. Len(conn.ops) \in Nat
    BY InSession, LenProperties DEF Connection
  <2>5. NoneFrom(conn.ops, conn.idx)
    BY <2>1, <2>4 DEF NoneFrom
  <2> QED
    BY <2>1, <2>3, <2>5 DEF SentInv, Behind
<1> QED
  BY <1>1, InitSentInv, StepSentInv, InvariantHolds, SessionOnItsOwnTrapHolds,
     CommandInvariantHolds, PTL DEF Spec
-----------------------------------------------------------------------------
(***************************************************************************)
(* A session that ends well owes nothing.  As long as it may end well, all *)
(* it still owes is ahead of it: answers to requests from the operation in *)
(* flight on, and the acknowledgement of the write in flight.  It cannot   *)
(* run past any of them and stay unfailed, so at the end of the script     *)
(* nothing is left.                                                        *)
(***************************************************************************)
Endless(ops) == \A i \in 1..Len(ops) : ~ops[i].ends

\* Only the last operation of a script makes the trap hang up: a plain write.
EndsLast(ops) == \A i \in 1..Len(ops) : ops[i].ends => i = Len(ops) /\ ops[i].kind = "WRITE"

LEMMA EndlessOne ==
  ASSUME NEW op \in Op, ~op.ends
  PROVE  <<op>> \in Seq(Op) /\ Endless(<<op>>)
BY DEF Endless

LEMMA EndlessNone == <<>> \in Seq(Op) /\ Endless(<<>>)
BY DEF Endless

LEMMA EndlessConcat ==
  ASSUME NEW s \in Seq(Op), NEW t \in Seq(Op), Endless(s)
  PROVE  /\ s \o t \in Seq(Op)
         /\ Endless(t) => Endless(s \o t)
         /\ EndsLast(t) => EndsLast(s \o t)
<1> DEFINE u == s \o t
<1>1. /\ u \in Seq(Op) /\ Len(u) = Len(s) + Len(t) /\ Len(s) \in Nat /\ Len(t) \in Nat
      /\ \A i \in 1..(Len(s) + Len(t)) : u[i] = IF i <= Len(s) THEN s[i] ELSE t[i - Len(s)]
  BY ConcatProperties, LenProperties
<1> HIDE DEF u
<1>2. ASSUME NEW i \in 1..Len(u), u[i].ends
      PROVE  i - Len(s) \in 1..Len(t) /\ u[i] = t[i - Len(s)]
  <2>1. CASE i <= Len(s)
    <3>1. i \in 1..Len(s) /\ u[i] = s[i]
      BY <1>1, <2>1
    <3> QED
      BY <1>2, <3>1 DEF Endless
  <2>2. CASE ~(i <= Len(s))
    BY <1>1, <2>2
  <2> QED
    BY <2>1, <2>2
<1>3. ASSUME Endless(t) PROVE Endless(u)
  <2> SUFFICES ASSUME NEW i \in 1..Len(u), u[i].ends PROVE FALSE
    BY DEF Endless
  <2> QED
    BY <1>2, <1>3 DEF Endless
<1>4. ASSUME EndsLast(t), NEW i \in 1..Len(u), u[i].ends
      PROVE  i = Len(u) /\ u[i].kind = "WRITE"
  <2>1. i - Len(s) \in 1..Len(t) /\ u[i] = t[i - Len(s)]
    BY <1>2, <1>4
  <2>2. i - Len(s) = Len(t) /\ u[i].kind = "WRITE"
    BY <1>4, <2>1 DEF EndsLast
  <2> QED
    BY <1>1, <2>2
<1> QED
  BY <1>1, <1>3, <1>4 DEF EndsLast, u

LEMMA EndlessEndsLast ==
  ASSUME NEW s, Endless(s)
  PROVE  EndsLast(s)
BY DEF Endless, EndsLast

LEMMA RequestsGoOn ==
  ASSUME NEW type \in FrameTypes
  PROVE  ~Request(type).ends /\ ~OptionalRequest(type).ends
BY DEF Request, OptionalRequest, Plain

LEMMA PollEndless ==
  ASSUME NEW unanswered, NEW historyFirmware
  PROVE  /\ C20Poll(unanswered, historyFirmware) \in Seq(Op)
         /\ Endless(C20Poll(unanswered, historyFirmware))
<1> DEFINE ask(type) == If(type \notin unanswered, <<OptionalRequest(type)>>)
           time    == If(WriteTime /\ ClockValid, <<Request("SET_TIME")>>)
           middle  == <<Request("FIRMWARE"), Request("DEVICE_STATE"), Request("BATTERY_LEVEL")>>
           history == If(historyFirmware, ask("KILL_HISTORY"))
           logs    == If(ClockValid, <<Logs>>)
           Quiet(s) == s \in Seq(Op) /\ Endless(s)
<1>1. ASSUME NEW type \in FrameTypes PROVE Quiet(ask(type))
  BY RequestOps, RequestsGoOn, EndlessOne, EndlessNone DEF If
<1>2. Quiet(ask("BOOTLOADER_VERSION")) /\ Quiet(ask("INPUT_STATES")) /\ Quiet(ask("KILL_HISTORY"))
  BY <1>1 DEF FrameTypes
<1>3. Quiet(time)
  BY RequestOps, RequestsGoOn, EndlessOne, EndlessNone DEF If, FrameTypes
<1>4. Quiet(middle)
  <2>1. /\ Request("FIRMWARE") \in Op /\ ~Request("FIRMWARE").ends
        /\ Request("DEVICE_STATE") \in Op /\ ~Request("DEVICE_STATE").ends
        /\ Request("BATTERY_LEVEL") \in Op /\ ~Request("BATTERY_LEVEL").ends
    BY RequestOps, RequestsGoOn DEF FrameTypes
  <2> QED
    BY <2>1 DEF Endless
<1>5. Quiet(history)
  BY <1>2, EndlessNone DEF If
<1>6. Quiet(logs)
  <2>1. ~Logs.ends
    BY DEF Logs, Plain
  <2> QED
    BY <2>1, FixedOps, EndlessOne, EndlessNone DEF If
<1>7. C20Poll(unanswered, historyFirmware) =
        time \o ask("BOOTLOADER_VERSION") \o middle \o ask("INPUT_STATES") \o history \o logs
  BY DEF C20Poll
<1> DEFINE two   == time \o ask("BOOTLOADER_VERSION")
           three == two \o middle
           four  == three \o ask("INPUT_STATES")
           five  == four \o history
<1> HIDE DEF ask, time, middle, history, logs
<1>8. Quiet(two)
  BY <1>2, <1>3, EndlessConcat
<1> HIDE DEF two
<1>9. Quiet(three)
  BY <1>4, <1>8, EndlessConcat
<1> HIDE DEF three
<1>10. Quiet(four)
  BY <1>2, <1>9, EndlessConcat
<1> HIDE DEF four
<1>11. Quiet(five)
  BY <1>5, <1>10, EndlessConcat
<1> HIDE DEF five
<1>12. Quiet(five \o logs)
  BY <1>6, <1>11, EndlessConcat
<1> QED
  BY <1>7, <1>12 DEF two, three, four, five

LEMMA C20Endless ==
  ASSUME NEW job, NEW unanswered, NEW historyFirmware
  PROVE  Endless(C20Script(job, unanswered, historyFirmware))
<1> DEFINE wake == If("SET_COMMAND" \notin unanswered, <<OptionalRequest("SET_COMMAND")>>)
           act  == If(job \in Commands, <<Command, Settle>>)
           poll == C20Poll(unanswered, historyFirmware)
           Quiet(s) == s \in Seq(Op) /\ Endless(s)
<1>1. Quiet(<<NotifyOn>>)
  <2>1. ~NotifyOn.ends
    BY DEF NotifyOn, Plain
  <2> QED
    BY <2>1, FixedOps, EndlessOne
<1>2. Quiet(wake)
  BY RequestOps, RequestsGoOn, EndlessOne, EndlessNone DEF If, FrameTypes
<1>3. Quiet(act)
  <2>1. Command \in Op /\ Settle \in Op /\ ~Command.ends /\ ~Settle.ends
    BY FixedOps DEF Command, Request, Settle, Plain
  <2>2. Quiet(<<Command, Settle>>)
    BY <2>1 DEF Endless
  <2> QED
    BY <2>2, EndlessNone DEF If
<1>4. Quiet(poll)
  BY PollEndless
<1>5. C20Script(job, unanswered, historyFirmware) = <<NotifyOn>> \o wake \o act \o poll
  BY DEF C20Script
<1> DEFINE first == <<NotifyOn>>
           two   == first \o wake
           three == two \o act
<1> HIDE DEF wake, act, poll, first
<1>6. Quiet(two)
  BY <1>1, <1>2, EndlessConcat DEF first
<1> HIDE DEF two
<1>7. Quiet(three)
  BY <1>3, <1>6, EndlessConcat
<1> HIDE DEF three
<1>8. Endless(three \o poll)
  BY <1>4, <1>7, EndlessConcat
<1> QED
  BY <1>5, <1>8 DEF first, two, three

LEMMA A24EndsLast == EndsLast(A24Script)
<1> DEFINE a == If(WriteTime /\ ClockValid, <<Write("TIME")>>)
           b == <<Read("SERIAL"), Read("FIRMWARE_CHAR"), Read("D20D"), Echo("D20D", "D20D"),
                  Read("D30D"), Read("D60D"), Read("VOLTAGE"), Read("RESISTANCE"),
                  Read("DEVICE_STATE_CHAR"), Read("E771"),
                  [Echo("E771", "E771") EXCEPT !.optional = TRUE],
                  Read("E773"), Read("E772"), Echo("D60D", "D20D"), CloseSession>>
<1>1. ASSUME NEW char \in Chars, NEW from \in Cursors
      PROVE  /\ ~Read(char).ends /\ ~Write(char).ends /\ ~Echo(char, from).ends
             /\ ~[Echo(char, from) EXCEPT !.optional = TRUE].ends
  BY DEF Read, Write, Echo, Plain
<1>2. CloseSession.kind = "WRITE"
  BY DEF CloseSession, Write, Plain
<1>3. a \in Seq(Op) /\ Endless(a)
  BY <1>1, CharOps, EndlessOne, EndlessNone DEF If, Chars, Cursors
<1>4. b \in Seq(Op)
  BY CharOps, FixedOps DEF Chars, Cursors
<1>5. Len(b) = 15
  OBVIOUS
<1>6. EndsLast(b)
  <2>1. /\ ~b[1].ends /\ ~b[2].ends /\ ~b[3].ends /\ ~b[4].ends /\ ~b[5].ends
        /\ ~b[6].ends /\ ~b[7].ends /\ ~b[8].ends /\ ~b[9].ends /\ ~b[10].ends
        /\ ~b[11].ends /\ ~b[12].ends /\ ~b[13].ends /\ ~b[14].ends /\ b[15].kind = "WRITE"
    BY <1>1, <1>2 DEF Chars, Cursors
  <2> HIDE DEF b
  <2>2. \A i \in 1..15 : b[i].ends => i = 15 /\ b[i].kind = "WRITE"
    BY <2>1
  <2> QED
    BY <1>5, <2>2 DEF EndsLast
<1>7. A24Script = a \o b
  BY DEF A24Script
<1> HIDE DEF a, b
<1> QED
  BY <1>3, <1>4, <1>6, <1>7, EndlessConcat

LEMMA BuildOpsEndsLast ==
  ASSUME NEW model, NEW job, NEW unanswered, NEW historyFirmware
  PROVE  EndsLast(BuildOps(model, job, unanswered, historyFirmware))
BY C20Endless, EndlessEndsLast, A24EndsLast DEF BuildOps

-----------------------------------------------------------------------------
Ahead(c, i) ==
  /\ i \in c.idx..Len(c.ops)
  /\ MustAnswer(c.ops[i]) \/ (MustWrite(c.ops[i]) /\ i = c.idx /\ c.inFlight)

\* A timer of this session is the one of the WAIT in flight.
TimerIsItsOwn == conn.ok /\ "live" \in air.timers => conn.inFlight /\ Current.kind = "WAIT"

OwedInv ==
  /\ EndsLast(conn.ops)
  /\ TimerIsItsOwn
  /\ conn.ok => \A i \in conn.owed : Ahead(conn, i)

\* The session is where it was, perhaps failed; no timer was set.
LEMMA OwedRests ==
  ASSUME OwedInv, conn'.ops = conn.ops, conn'.idx = conn.idx, conn'.ok => conn.ok,
         conn'.ok => conn'.inFlight = conn.inFlight /\ conn'.owed = conn.owed,
         "live" \in air'.timers => "live" \in air.timers
  PROVE  OwedInv'
BY DEF OwedInv, TimerIsItsOwn, Ahead, Current

\* No session, or one that has only been asked for.
LEMMA OwedBefore ==
  ASSUME conn'.ops = <<>>, conn'.owed = {}, "live" \notin air'.timers
  PROVE  OwedInv'
BY DEF OwedInv, TimerIsItsOwn, EndsLast

LEMMA OwedFreed ==
  ASSUME NEW link, conn' = Free(link), "live" \notin air'.timers
  PROVE  OwedInv'
BY OwedBefore DEF Free

\* finish_ also makes the timers of the session stale.
LEMMA OwedFinish ==
  ASSUME NEW slots, NEW c, NEW link, NEW ok, Finish(slots, c, link, ok)
  PROVE  OwedInv'
<1>1. conn' = Free(link) /\ "live" \notin air'.timers
  BY DEF Finish, NoTraffic, Outdated
<1> QED
  BY <1>1, OwedFreed

LEMMA OwedRunsOn ==
  ASSUME NEW c \in Connection, NEW a \in Air, NEW k \in 1..(Len(c.ops) + 1),
         RunFrom(c, k, a), EndsLast(c.ops), c.disc => ~c.ok,
         c.ok => /\ ~c.uartErr /\ "live" \notin a.timers
                 /\ \A i \in c.owed : i \in k..Len(c.ops) /\ MustAnswer(c.ops[i])
  PROVE  OwedInv'
<1>0. Len(c.ops) \in Nat /\ k \in Nat
  BY LenProperties DEF Connection
<1>1. CASE c.disc
  <2>1. conn' = [c EXCEPT !.idx = k, !.inFlight = FALSE]
    BY <1>1 DEF RunFrom
  <2>2. conn'.ops = c.ops /\ ~conn'.ok
    BY <1>1, <2>1 DEF Connection
  <2> QED
    BY <2>2 DEF OwedInv, TimerIsItsOwn
<1>2. CASE ~c.disc
  <2>0. PICK j \in k..(Len(c.ops) + 1), ok \in BOOLEAN :
          LET failed == {i \in k..(j - 1) : FailsAtOnce(c, c.ops[i])}
              c1 == [c EXCEPT !.idx = j, !.ok = ok, !.inFlight = FALSE,
                              !.owed = IF ok THEN @ ELSE {}]
          IN
          /\ \A i \in k..(j - 1) : Skips(c, c.ops[i]) \/ (~ok /\ i \in failed)
          /\ ok => c.ok
          /\ c.ok /\ ~ok => failed # {}
          /\ \/ /\ j > Len(c.ops)
                /\ conn' = RequestDisconnect(c1)
                /\ air' = a
             \/ /\ j <= Len(c.ops)
                /\ Issuable(c, c.ops[j])
                /\ conn' = Issued(c1, c.ops[j])
                /\ air' = IF c.ops[j].kind = "WAIT"
                          THEN [a EXCEPT !.timers = @ \cup {"live"}]
                          ELSE [a EXCEPT !.outstanding = Append(@, c.ops[j])]
    BY <1>2, Zenon DEF RunFrom
  <2> DEFINE left == IF ok THEN c.owed ELSE {}
             c1 == [c EXCEPT !.idx = j, !.ok = ok, !.inFlight = FALSE, !.owed = left]
  <2>1. /\ \A i \in k..(j - 1) : Skips(c, c.ops[i]) \/ ~ok
        /\ ok => c.ok
        /\ \/ /\ j > Len(c.ops)
              /\ conn' = RequestDisconnect(c1)
              /\ air' = a
           \/ /\ j <= Len(c.ops)
              /\ conn' = Issued(c1, c.ops[j])
              /\ air' = IF c.ops[j].kind = "WAIT"
                        THEN [a EXCEPT !.timers = @ \cup {"live"}]
                        ELSE [a EXCEPT !.outstanding = Append(@, c.ops[j])]
    <3>1. c1 = [c EXCEPT !.idx = j, !.ok = ok, !.inFlight = FALSE,
                         !.owed = IF ok THEN @ ELSE {}]
      BY DEF Connection
    <3> QED
      BY <2>0, <3>1
  <2>2. j \in Nat /\ j >= k /\ k >= 1 /\ j <= Len(c.ops) + 1
    BY <1>0
  <2>3. left \in SUBSET Nat /\ (ok => left = c.owed)
    BY DEF Connection
  <2> HIDE DEF left
  <2>4. c1 \in Connection /\ c1.ops = c.ops /\ c1.idx = j /\ c1.ok = ok /\ c1.owed = left
    <3>1. j \in Nat \ {0}
      BY <2>2
    <3> QED
      BY <2>3, <3>1 DEF Connection
  <2> HIDE DEF c1
  <2>5. ASSUME ok, NEW i \in left
        PROVE  i \in j..Len(c.ops) /\ MustAnswer(c.ops[i])
    <3>1. i \in k..Len(c.ops) /\ MustAnswer(c.ops[i]) /\ ~c.uartErr
      BY <2>1, <2>3, <2>5
    <3>2. ~Skips(c, c.ops[i])
      BY <3>1 DEF MustAnswer, Skips, UartUp
    <3>3. i \notin k..(j - 1)
      BY <2>1, <2>5, <3>2
    <3> QED
      BY <1>0, <2>2, <3>1, <3>3
  <2>6. CASE j > Len(c.ops) /\ conn' = RequestDisconnect(c1) /\ air' = a
    <3>1. conn'.ops = c.ops /\ conn'.ok = ok /\ conn'.owed = left
      BY <2>4, <2>6 DEF RequestDisconnect, Connection
    <3>2. ok => left = {}
      BY <1>0, <2>2, <2>5, <2>6
    <3> QED
      BY <2>1, <2>6, <3>1, <3>2 DEF OwedInv, TimerIsItsOwn
  <2>7. CASE /\ j <= Len(c.ops)
             /\ conn' = Issued(c1, c.ops[j])
             /\ air' = IF c.ops[j].kind = "WAIT"
                       THEN [a EXCEPT !.timers = @ \cup {"live"}]
                       ELSE [a EXCEPT !.outstanding = Append(@, c.ops[j])]
    <3>1. /\ conn'.ops = c.ops /\ conn'.idx = j /\ conn'.ok = ok /\ conn'.inFlight
          /\ conn'.owed = IF MustWrite(c.ops[j]) THEN left \cup {j} ELSE left
      BY <2>4, <2>7 DEF Issued, Connection
    <3>2. ok => TimerIsItsOwn'
      <4>1. c.ops[j].kind # "WAIT" => air'.timers = a.timers
        BY <2>7 DEF Air
      <4> QED
        BY <2>1, <3>1, <4>1 DEF TimerIsItsOwn, Current
    <3>3. ASSUME ok, NEW i \in conn'.owed PROVE Ahead(conn', i)
      <4>1. CASE i \in left
        BY <2>5, <3>1, <3>3, <4>1 DEF Ahead
      <4>2. CASE i = j /\ MustWrite(c.ops[j])
        BY <1>0, <2>2, <2>7, <3>1, <4>2 DEF Ahead
      <4> QED
        BY <3>1, <3>3, <4>1, <4>2
    <3>4. EndsLast(conn'.ops)
      BY <3>1
    <3> QED
      BY <3>1, <3>2, <3>3, <3>4 DEF OwedInv, TimerIsItsOwn
  <2> QED
    BY <2>1, <2>6, <2>7
<1> QED
  BY <1>1, <1>2

\* The operation in flight ends, with the connection changed to c: well, or it was
\* nothing the script requires, or the session is lost.
LEMMA OwedEnds ==
  ASSUME IInv, OwedInv, conn.trap # 0, conn.inFlight,
         NEW c \in Connection, NEW a \in Air, c.ops = conn.ops, c.disc = conn.disc,
         OpDone(c, a),
         c.ok => /\ conn.ok /\ ~c.uartErr /\ "live" \notin a.timers
                 /\ c.owed \subseteq conn.owed
                 /\ conn.idx \in c.owed => ~MustAnswer(Current) /\ ~MustWrite(Current)
  PROVE  OwedInv'
<1> DEFINE k == conn.idx + 1
<1>1. conn.idx \in 1..Len(conn.ops) /\ Len(conn.ops) \in Nat
  BY InSession, LenProperties DEF IInv, ScriptInv, Connection
<1>2. k \in 1..(Len(c.ops) + 1) /\ RunFrom(c, k, a)
  BY <1>1 DEF OpDone
<1>3. c.disc => ~c.ok
  BY DEF IInv, ScriptInv
<1>4. ASSUME c.ok, NEW i \in c.owed PROVE i \in k..Len(c.ops) /\ MustAnswer(c.ops[i])
  <2>1. Ahead(conn, i)
    BY <1>4 DEF OwedInv
  <2>2. i # conn.idx
    BY <1>4, <2>1 DEF Ahead, Current
  <2> QED
    BY <1>1, <2>1, <2>2 DEF Ahead
<1> HIDE DEF k
<1>5. EndsLast(c.ops)
  BY DEF OwedInv
<1> QED
  BY <1>2, <1>3, <1>4, <1>5, OwedRunsOn

LEMMA OwedMayConnect ==
  ASSUME CInv, OwedInv, NEW s \in Slots, NEW r, MaybeConnect(s, r), UNCHANGED air
  PROVE  OwedInv'
<1>1. CASE conn.trap = 0 /\ conn' = Start(s, r)
  <2>1. conn'.ops = <<>> /\ conn'.owed = {}
    BY <1>1 DEF Start, Free
  <2>2. "live" \notin air'.timers
    BY <1>1 DEF CInv, NothingYet
  <2> QED
    BY <2>1, <2>2, OwedBefore
<1>2. CASE UNCHANGED conn
  BY <1>2, OwedRests
<1> QED
  BY <1>1, <1>2 DEF MaybeConnect

\* The session is asked to end and can no longer end well.
LEMMA OwedAborted ==
  ASSUME IInv, OwedInv, UNCHANGED air,
         conn' = [conn EXCEPT !.ok = FALSE, !.disc = TRUE, !.link = Disconnect(@)]
  PROVE  OwedInv'
<1>1. conn \in Connection
  BY InSession
<1>2. ~conn'.ok /\ conn'.ops = conn.ops /\ conn'.idx = conn.idx
  BY <1>1 DEF Connection
<1> QED
  BY <1>2, OwedRests

\* A timer is set only for a WAIT.
LEMMA NoOtherTimer ==
  ASSUME OwedInv, conn.ok, Current.kind # "WAIT"
  PROVE  "live" \notin air.timers
BY DEF OwedInv, TimerIsItsOwn
-----------------------------------------------------------------------------
(***************************************************************************)
(* The actions, one lemma each or one per kind.                            *)
(***************************************************************************)
LEMMA AdvertiseOwed ==
  ASSUME CInv, OwedInv, NEW d \in Devices, Advertise(d)
  PROVE  OwedInv'
BY OwedMayConnect DEF Advertise

LEMMA LinkOwed ==
  ASSUME IInv, OwedInv, Promote \/ OpenSucceeds \/ LinkClosed \/ JobAges
  PROVE  OwedInv'
<1>1. conn \in Connection /\ UNCHANGED air
  BY InSession DEF Promote, OpenSucceeds, LinkClosed, JobAges
<1>2. /\ conn'.ops = conn.ops /\ conn'.idx = conn.idx /\ conn'.ok = conn.ok
      /\ conn'.inFlight = conn.inFlight /\ conn'.owed = conn.owed
  BY <1>1 DEF Promote, OpenSucceeds, LinkClosed, JobAges, Connection
<1> QED
  BY <1>1, <1>2, OwedRests

LEMMA EndOwed ==
  ASSUME OpenFails \/ LinkDown \/ HardTimeout
  PROVE  OwedInv'
BY OwedFinish DEF OpenFails, LinkDown, HardTimeout

\* What is owed from the start is the requests of the script.
LEMMA SearchCompleteOwed ==
  ASSUME IInv, CInv, SentInv, OwedInv, SearchComplete
  PROVE  OwedInv'
<1> DEFINE r    == slot[conn.trap]
           ops  == BuildOps(IF IsC20(r) THEN "C20" ELSE "A24", conn.job, r.unanswered,
                            r.bound \in HistoryDevices)
           c    == [conn EXCEPT !.link = "ESTABLISHED", !.started = TRUE, !.ops = ops,
                             !.owed = Owing(ops)]
           mute == [c EXCEPT !.ok = FALSE, !.uartErr = TRUE]
<1>1. /\ conn.trap # 0 /\ ~conn.started
      /\ \/ RunFrom(c, 1, air)
         \/ IsC20(r) /\ conn' = RequestDisconnect(mute) /\ UNCHANGED air
         \/ IsC20(r) /\ RunFrom(mute, 2, air)
  BY DEF SearchComplete
<1>2. conn \in Connection /\ air \in Air /\ "live" \notin air.timers
  BY <1>1, InSession DEF CInv, NothingYet
<1>3. ops \in Seq(Op) /\ (IsC20(r) => Len(ops) >= 1) /\ EndsLast(ops)
  BY BuildOpsType, BuildOpsEndsLast
<1> HIDE DEF ops, r
<1>4. /\ c \in Connection /\ c.ops = ops /\ c.ok = conn.ok /\ c.uartErr = conn.uartErr
      /\ c.disc = conn.disc /\ c.owed = Owing(ops)
  BY <1>2, <1>3, OwingType DEF Connection, Links
<1> HIDE DEF c
<1>5. mute \in Connection /\ mute.ops = ops /\ ~mute.ok
  BY <1>4 DEF Connection
<1> HIDE DEF mute
<1>6. Len(ops) \in Nat /\ DOMAIN ops = 1..Len(ops)
  BY <1>3, LenProperties
<1>7. CASE RunFrom(c, 1, air)
  <2>1. 1 \in 1..(Len(c.ops) + 1)
    BY <1>4, <1>6
  <2>2. c.ok => ~c.uartErr
    BY <1>4 DEF SentInv
  <2>3. c.disc => ~c.ok
    BY <1>1, <1>4 DEF IInv, ScriptInv
  <2>4. \A i \in c.owed : i \in 1..Len(c.ops) /\ MustAnswer(c.ops[i])
    BY <1>4, <1>6 DEF Owing
  <2> QED
    BY <1>2, <1>3, <1>4, <1>7, <2>1, <2>2, <2>3, <2>4, OwedRunsOn
<1>8. CASE conn' = RequestDisconnect(mute)
  <2>1. ~conn'.ok /\ conn'.ops = ops
    BY <1>5, <1>8 DEF RequestDisconnect, Connection
  <2> QED
    BY <1>3, <2>1 DEF OwedInv, TimerIsItsOwn
<1>9. CASE IsC20(r) /\ RunFrom(mute, 2, air)
  <2>1. 2 \in 1..(Len(mute.ops) + 1)
    BY <1>3, <1>5, <1>6, <1>9
  <2> QED
    BY <1>2, <1>3, <1>5, <1>9, <2>1, OwedRunsOn
<1> QED
  BY <1>1, <1>7, <1>8, <1>9

\* The report comes for an operation that is over, or does not end the one in flight.
LEMMA PoppedOwed ==
  ASSUME IInv, OwedInv, air.outstanding # <<>>, NEW status,
         EventOnly(Popped(Head(air.outstanding), status))
  PROVE  OwedInv'
<1>1. conn' = conn /\ air'.timers = air.timers
  BY InSession, PoppedParts DEF EventOnly
<1> QED
  BY <1>1, OwedRests

\* A read ends whatever its status, and is nothing the session owes.
LEMMA ReadOwed ==
  ASSUME IInv, SentInv, OwedInv, ReadComplete
  PROVE  OwedInv'
<1> DEFINE o == Head(air.outstanding)
<1>1. conn.trap # 0 /\ air.outstanding # <<>>
  BY DEF ReadComplete
<1>2. PICK status \in Statuses :
        IF conn.inFlight /\ Current.kind = "READ" /\ conn.handle = Handle(o)
        THEN \E v \in {"zero", "some"} :
               OpDone([conn EXCEPT !.got = IF o.what \in Cursors /\ status = "OK"
                                           THEN [@ EXCEPT ![o.what] = v] ELSE @],
                      Popped(o, status))
        ELSE EventOnly(Popped(o, status))
  BY DEF ReadComplete
<1>3. CASE EventOnly(Popped(o, status))
  BY <1>1, <1>3, PoppedOwed
<1>4. ASSUME conn.inFlight, Current.kind = "READ", NEW v \in {"zero", "some"},
             OpDone([conn EXCEPT !.got = IF o.what \in Cursors /\ status = "OK"
                                         THEN [@ EXCEPT ![o.what] = v] ELSE @],
                    Popped(o, status))
      PROVE  OwedInv'
  <2> DEFINE got == IF o.what \in Cursors /\ status = "OK"
                    THEN [conn.got EXCEPT ![o.what] = v] ELSE conn.got
             c == [conn EXCEPT !.got = got]
             a == Popped(o, status)
  <2>1. conn.got \in [Cursors -> {"none", "zero", "some"}] /\ conn \in Connection
    BY InSession DEF Connection
  <2>2. got \in [Cursors -> {"none", "zero", "some"}]
    BY <2>1
  <2>3. OpDone(c, a)
    BY <1>4, <2>1 DEF Connection
  <2>4. a \in Air /\ a.timers = air.timers
    BY <1>1, InSession, PoppedParts
  <2> HIDE DEF got, a
  <2>5. /\ c \in Connection /\ c.ops = conn.ops /\ c.disc = conn.disc /\ c.ok = conn.ok
        /\ c.uartErr = conn.uartErr /\ c.owed = conn.owed
    BY <2>1, <2>2 DEF Connection
  <2> HIDE DEF c
  <2>6. ~MustAnswer(Current) /\ ~MustWrite(Current)
    BY <1>4 DEF MustAnswer, MustWrite
  <2>7. c.ok => conn.ok /\ ~c.uartErr /\ "live" \notin a.timers
    BY <1>4, <2>4, <2>5, NoOtherTimer DEF SentInv
  <2> QED
    BY <1>1, <1>4, <2>3, <2>4, <2>5, <2>6, <2>7, OwedEnds
<1> QED
  BY <1>2, <1>3, <1>4

\* A write event ends a write with what it says, and a request only as failed.
LEMMA WriteOwed ==
  ASSUME IInv, SentInv, OwedInv, WriteComplete
  PROVE  OwedInv'
<1> DEFINE o == Head(air.outstanding)
<1>1. conn.trap # 0 /\ air.outstanding # <<>>
  BY DEF WriteComplete
<1>2. PICK status \in Statuses :
        \/ EventOnly(Popped(o, status))
        \/ /\ conn.inFlight /\ WriteEnds(status)
           /\ OpDone([conn EXCEPT !.ok = @ /\ WriteOk(status), !.owed = Paid(status)],
                     Popped(o, status))
  BY DEF WriteComplete
<1>3. CASE EventOnly(Popped(o, status))
  BY <1>1, <1>3, PoppedOwed
<1>4. CASE /\ conn.inFlight /\ WriteEnds(status)
           /\ OpDone([conn EXCEPT !.ok = @ /\ WriteOk(status), !.owed = Paid(status)],
                     Popped(o, status))
  <2> DEFINE ok   == conn.ok /\ WriteOk(status)
             left == Paid(status)
             c    == [conn EXCEPT !.ok = ok, !.owed = left]
             a    == Popped(o, status)
  <2>1. conn \in Connection /\ ok \in BOOLEAN /\ left \in SUBSET Nat
    BY InSession, PaidType DEF Connection
  <2>2. OpDone(c, a)
    BY <1>4, <2>1 DEF Connection
  <2>3. a \in Air /\ a.timers = air.timers
    BY <1>1, InSession, PoppedParts
  <2>4. left \subseteq conn.owed /\ (status = "OK" => conn.idx \notin left)
    BY DEF Paid
  <2>5. ok => conn.ok /\ ~conn.uartErr /\ WriteOk(status)
    BY DEF SentInv
  <2>6. ok => Current.kind # "WAIT" /\ "live" \notin air.timers
    <3>1. ok => Current.kind \in {"WRITE", "ECHO"} \cup Requests
      BY <1>4, <2>5 DEF WriteEnds
    <3> QED
      BY <2>5, <3>1, NoOtherTimer DEF Requests
  <2>7. ok /\ status # "OK" => ~MustAnswer(Current) /\ ~MustWrite(Current)
    BY <1>4, <2>5 DEF WriteEnds, WriteOk, MustAnswer, MustWrite, Requests
  <2> HIDE DEF ok, left, a
  <2>8. /\ c \in Connection /\ c.ops = conn.ops /\ c.disc = conn.disc /\ c.ok = ok
        /\ c.uartErr = conn.uartErr /\ c.owed = left
    BY <2>1 DEF Connection
  <2> HIDE DEF c
  <2>9. c.ok => /\ conn.ok /\ ~c.uartErr /\ "live" \notin a.timers
                /\ c.owed \subseteq conn.owed
                /\ conn.idx \in c.owed => ~MustAnswer(Current) /\ ~MustWrite(Current)
    BY <2>3, <2>4, <2>5, <2>6, <2>7, <2>8
  <2> QED
    BY <1>1, <1>4, <2>2, <2>3, <2>8, <2>9, OwedEnds
<1> QED
  BY <1>2, <1>3, <1>4

LEMMA NotifyOnOwed ==
  ASSUME IInv, SentInv, OwedInv, NotifyOnComplete
  PROVE  OwedInv'
<1> DEFINE o == Head(air.outstanding)
<1>1. conn.trap # 0 /\ air.outstanding # <<>>
  BY DEF NotifyOnComplete
<1>2. PICK status \in {"OK", "REFUSED"} :
        IF conn.inFlight /\ Current.kind = "NOTIFY_ON"
        THEN OpDone([conn EXCEPT !.ok = @ /\ status = "OK", !.uartErr = @ \/ status # "OK",
                                 !.owed = Paid(status)],
                    Popped(o, status))
        ELSE EventOnly(Popped(o, status))
  BY DEF NotifyOnComplete
<1>3. CASE EventOnly(Popped(o, status))
  BY <1>1, <1>3, PoppedOwed
<1>4. CASE /\ conn.inFlight /\ Current.kind = "NOTIFY_ON"
           /\ OpDone([conn EXCEPT !.ok = @ /\ status = "OK", !.uartErr = @ \/ status # "OK",
                                  !.owed = Paid(status)],
                     Popped(o, status))
  <2> DEFINE ok   == conn.ok /\ status = "OK"
             err  == conn.uartErr \/ status # "OK"
             left == Paid(status)
             c    == [conn EXCEPT !.ok = ok, !.uartErr = err, !.owed = left]
             a    == Popped(o, status)
  <2>1. conn \in Connection /\ ok \in BOOLEAN /\ err \in BOOLEAN /\ left \in SUBSET Nat
    BY InSession, PaidType DEF Connection
  <2>2. OpDone(c, a)
    BY <1>4, <2>1 DEF Connection
  <2>3. a \in Air /\ a.timers = air.timers
    BY <1>1, InSession, PoppedParts
  <2>4. ok => conn.ok /\ ~err /\ "live" \notin air.timers
    BY <1>4, NoOtherTimer DEF SentInv
  <2>5. left \subseteq conn.owed /\ (ok => conn.idx \notin left)
    BY DEF Paid
  <2> HIDE DEF ok, err, left, a
  <2>6. /\ c \in Connection /\ c.ops = conn.ops /\ c.disc = conn.disc /\ c.ok = ok
        /\ c.uartErr = err /\ c.owed = left
    BY <2>1 DEF Connection
  <2> HIDE DEF c
  <2> QED
    BY <1>1, <1>4, <2>2, <2>3, <2>4, <2>5, <2>6, OwedEnds
<1> QED
  BY <1>2, <1>3, <1>4

\* A frame pays for the request it ends.
LEMMA FrameOwed ==
  ASSUME IInv, SentInv, OwedInv, conn.trap # 0, NEW type, NEW a \in Air,
         a.timers = air.timers, Frame(type, a)
  PROVE  OwedInv'
<1>1. IF conn.inFlight /\ Current.kind \in Requests /\ Current.what = type
      THEN OpDone(Answered, a) ELSE EventOnly(a)
  BY DEF Frame, Answered
<1>2. CASE EventOnly(a)
  BY <1>2, OwedRests DEF EventOnly
<1>3. CASE conn.inFlight /\ Current.kind \in Requests /\ OpDone(Answered, a)
  <2>1. conn \in Connection /\ Answered \in Connection
    BY InSession, AnsweredType
  <2>2. /\ Answered.ops = conn.ops /\ Answered.disc = conn.disc /\ Answered.ok = conn.ok
        /\ Answered.uartErr = conn.uartErr /\ Answered.owed = conn.owed \ {conn.idx}
    BY <2>1 DEF Answered, Paid, Connection
  <2>3. conn.ok => ~conn.uartErr /\ "live" \notin air.timers
    BY <1>3, NoOtherTimer DEF SentInv, Requests
  <2> HIDE DEF Answered
  <2> QED
    BY <1>3, <2>1, <2>2, <2>3, OwedEnds
<1> QED
  BY <1>1, <1>2, <1>3

LEMMA AnswerOwed ==
  ASSUME IInv, CInv, SentInv, OwedInv, Answer \/ NoAnswer \/ StateReport
  PROVE  OwedInv'
<1> DEFINE a == [air EXCEPT !.answers = Tail(@)]
<1>1. CASE Answer
  <2>1. conn.trap # 0 /\ air.answers # <<>> /\ Frame(Head(air.answers), a)
    BY <1>1 DEF Answer
  <2>2. a \in Air /\ a.timers = air.timers
    <3>1. a \in Air
      BY <2>1, AnswerLeft
    <3> QED
      BY <3>1, InSession DEF Air
  <2> HIDE DEF a
  <2> QED
    BY <2>1, <2>2, FrameOwed
<1>2. CASE NoAnswer
  <2>1. UNCHANGED conn /\ air'.timers = air.timers
    BY <1>2, InSession DEF NoAnswer, Air
  <2> QED
    BY <2>1, OwedRests
<1>3. CASE StateReport
  <2>1. conn.trap # 0 /\ air \in Air /\ Frame("DEVICE_STATE", air)
    BY <1>3, InSession DEF StateReport
  <2> QED
    BY <2>1, FrameOwed
<1> QED
  BY <1>1, <1>2, <1>3

\* A timeout ends an optional request, or the session fails.
LEMMA OpTimeoutOwed ==
  ASSUME IInv, SentInv, OwedInv, OpTimeout
  PROVE  OwedInv'
<1> DEFINE ok == conn.ok /\ (Current.kind = "LOGS" \/ Current.optional)
           c  == [conn EXCEPT !.ok = ok]
<1>1. /\ conn \in Connection /\ air \in Air /\ conn.trap # 0 /\ conn.inFlight
      /\ Current.kind # "WAIT"
  BY InSession DEF OpTimeout
<1>2. OpDone(c, air)
  BY <1>1 DEF OpTimeout, Connection
<1>3. ok \in BOOLEAN /\ (ok => conn.ok /\ ~conn.uartErr /\ "live" \notin air.timers)
  BY <1>1, NoOtherTimer DEF Connection, SentInv
<1>4. ok => ~MustAnswer(Current) /\ ~MustWrite(Current)
  BY DEF MustAnswer, MustWrite
<1> HIDE DEF ok
<1>5. /\ c \in Connection /\ c.ops = conn.ops /\ c.disc = conn.disc /\ c.ok = ok
      /\ c.uartErr = conn.uartErr /\ c.owed = conn.owed
  BY <1>1, <1>3 DEF Connection
<1> HIDE DEF c
<1> QED
  BY <1>1, <1>2, <1>3, <1>4, <1>5, OwedEnds

\* A timer of this session ends the WAIT it was set for; an older one nothing.
LEMMA WaitOwed ==
  ASSUME IInv, SentInv, OwedInv, NEW t \in {"live", "stale"}, WaitElapses(t)
  PROVE  OwedInv'
<1> DEFINE a == [air EXCEPT !.timers = @ \ {t}]
<1>1. /\ t \in air.timers
      /\ (IF t = "live" /\ conn.trap # 0 /\ conn.inFlight THEN OpDone(conn, a) ELSE EventOnly(a))
  BY DEF WaitElapses
<1>2. a \in Air /\ a.timers = air.timers \ {t}
  BY InSession DEF Air
<1> HIDE DEF a
<1>3. CASE EventOnly(a)
  BY <1>2, <1>3, OwedRests DEF EventOnly
<1>4. CASE t = "live" /\ conn.trap # 0 /\ conn.inFlight /\ OpDone(conn, a)
  <2>1. conn \in Connection
    BY InSession
  <2>2. conn.ok => ~conn.uartErr /\ ~MustAnswer(Current) /\ ~MustWrite(Current)
    BY <1>1, <1>4 DEF SentInv, OwedInv, TimerIsItsOwn, MustAnswer, MustWrite
  <2>3. "live" \notin a.timers
    BY <1>2, <1>4
  <2> QED
    BY <1>2, <1>4, <2>1, <2>2, <2>3, OwedEnds
<1> QED
  BY <1>1, <1>3, <1>4

LEMMA JobTimeoutOwed ==
  ASSUME IInv, OwedInv, JobTimeout
  PROVE  OwedInv'
<1>1. CASE Finish(slot, conn, "IDLE", FALSE)
  BY <1>1, OwedFinish
<1>2. CASE /\ conn' = [conn EXCEPT !.ok = FALSE, !.disc = TRUE, !.link = Disconnect(@)]
           /\ UNCHANGED air
  BY <1>2, OwedAborted
<1> QED
  BY <1>1, <1>2 DEF JobTimeout, Abort

LEMMA SlotOwed ==
  ASSUME CInv, OwedInv, NEW s \in Slots,
         BackoffElapses(s) \/ PollDue(s) \/ PollNow(s) \/ TestFire(s) \/ ClearKillAlert(s)
  PROVE  OwedInv'
<1>1. UNCHANGED air
  BY DEF BackoffElapses, PollDue, PollNow, TestFire, ClearKillAlert
<1>2. UNCHANGED conn \/ \E r : MaybeConnect(s, r)
  BY DEF BackoffElapses, PollDue, PollNow, TestFire, ClearKillAlert, RequestJob
<1> QED
  BY <1>1, <1>2, OwedRests, OwedMayConnect

LEMMA ForgetOwed ==
  ASSUME IInv, OwedInv, NEW s \in Slots, ForgetTrap(s)
  PROVE  OwedInv'
<1>1. CASE UNCHANGED <<conn, air>>
  BY <1>1, OwedRests
<1>2. CASE conn' = Free("IDLE") /\ air' = [NoTraffic EXCEPT !.timers = Outdated(air.timers)]
  <2>1. "live" \notin air'.timers
    BY <1>2 DEF NoTraffic, Outdated
  <2> QED
    BY <1>2, <2>1, OwedFreed
<1>3. CASE /\ conn' = [conn EXCEPT !.ok = FALSE, !.disc = TRUE, !.link = Disconnect(@)]
           /\ UNCHANGED air
  BY <1>3, OwedAborted
<1> QED
  BY <1>1, <1>2, <1>3 DEF ForgetTrap, Abort

-----------------------------------------------------------------------------
LEMMA InitOwedInv == Init => OwedInv
BY DEF Init, Free, NoTraffic, OwedInv, TimerIsItsOwn, EndsLast

LEMMA StepOwedInv ==
  IInv /\ CInv /\ SentInv /\ OwedInv /\ [Next]_vars => OwedInv'
<1> SUFFICES ASSUME IInv, CInv, SentInv, OwedInv, [Next]_vars PROVE OwedInv'
  OBVIOUS
<1>1. ASSUME NEW d \in Devices, Advertise(d) PROVE OwedInv'
  BY <1>1, AdvertiseOwed
<1>2. CASE StackEvent
  BY <1>2, LinkOwed, EndOwed, SearchCompleteOwed, ReadOwed, WriteOwed, NotifyOnOwed, AnswerOwed
     DEF StackEvent
<1>3. CASE Clock
  BY <1>3, OpTimeoutOwed, LinkOwed, JobTimeoutOwed, EndOwed, WaitOwed, SlotOwed DEF Clock
<1>4. CASE User
  BY <1>4, SlotOwed, ForgetOwed DEF User
<1>5. CASE Restart
  <2>1. conn' = Free("IDLE") /\ "live" \notin air'.timers
    BY <1>5 DEF Restart, NoTraffic
  <2> QED
    BY <2>1, OwedFreed
<1>6. CASE UNCHANGED vars
  BY <1>6, OwedRests DEF vars
<1> QED
  BY <1>1, <1>2, <1>3, <1>4, <1>5, <1>6 DEF Next

\* run_next_op_, op_done_, the handlers of the stack's events and tick together: a
\* session that ends well, by asking for the disconnect or by the trap's hanging up
\* on the closing write, had every request its script requires answered and every
\* required write the stack took acknowledged.
THEOREM NothingOwedHolds == Spec => []NothingOwed
<1>1. IInv /\ OwedInv => NothingOwed
  <2> SUFFICES ASSUME IInv, OwedInv, conn.ok, conn.disc \/ HungUp, NEW i \in conn.owed
               PROVE  FALSE
    BY DEF NothingOwed
  <2>1. Ahead(conn, i)
    BY DEF OwedInv
  <2>2. Len(conn.ops) \in Nat
    BY InSession, LenProperties DEF Connection
  <2>3. CASE conn.disc
    <3>1. conn.idx = Len(conn.ops) + 1
      BY <2>3 DEF IInv, ScriptInv
    <3> QED
      BY <2>1, <2>2, <3>1 DEF Ahead
  <2>4. CASE HungUp
    <3>1. conn.idx \in 1..Len(conn.ops) /\ Current.ends
      BY <2>4 DEF HungUp, IInv, ScriptInv
    <3>2. conn.idx = Len(conn.ops) /\ Current.kind = "WRITE"
      BY <3>1 DEF OwedInv, EndsLast, Current
    <3>3. i = conn.idx
      BY <2>1, <2>2, <3>2 DEF Ahead
    <3> QED
      BY <2>1, <3>1, <3>2, <3>3 DEF Ahead, Current, MustAnswer, MustWrite
  <2> QED
    BY <2>3, <2>4
<1> QED
  BY <1>1, InitOwedInv, StepOwedInv, InitSentInv, StepSentInv, InvariantHolds,
     SessionOnItsOwnTrapHolds, CommandInvariantHolds, PTL DEF Spec
=============================================================================
