------------------------------ MODULE Session ------------------------------
(***************************************************************************)
(* The gateway's one GATT connection, the job queues of its trap slots and *)
(* the traps at the other end of the radio.                                *)
(*                                                                         *)
(* The hub hears a trap advertise, binds it to a slot, and points the      *)
(* connection at it when it wants a session; the connection runs a script  *)
(* of operations, each ended by a stack event, a UART frame, or a timeout, *)
(* then hangs up and reports to the slot.  Everything runs on one main     *)
(* loop, so a handler is one action; what interleaves is which event comes *)
(* next.  A GoodnatureTrap* is a slot number, and 0 is nullptr.            *)
(***************************************************************************)
EXTENDS TrapJobs

CONSTANTS NumSlots,        \* trap slots compiled in
          HistoryDevices,  \* Mouse Traps whose firmware keeps a kill history
          Buttons,         \* the buttons the user presses in this instance
          Healths,         \* what a Mouse Trap may report of itself
          MaxSilences      \* bound: operations that time out, in a behaviour

ASSUME SessionAssumption ==
  /\ NumSlots \in Nat \ {0}
  /\ HistoryDevices \subseteq Devices
  /\ Buttons \subseteq {"POLL", "TEST_FIRE", "RESET_ALERT", "FORGET"}
  /\ Healths \subseteq {"ok", "bad"} /\ Healths # {}
  /\ MaxSilences \in Nat

Slots == 1..NumSlots

VARIABLES
  slot,      \* the job state of each GoodnatureTrap
  conn,      \* the GoodnatureConnection
  air,       \* what is still to come: stack events, UART answers, WAIT timers
  silences   \* operations that have timed out so far

vars == <<slot, conn, air, silences>>

Links == {"IDLE", "DISCOVERED", "CONNECTING", "CONNECTED", "ESTABLISHED", "DISCONNECTING"}
\* Link states in which stack events of a session can arrive.
Attached == {"CONNECTED", "ESTABLISHED", "DISCONNECTING"}

(***************************************************************************)
(* The connection.  disc, ok, inFlight, idx, started and uartErr are       *)
(* disconnect_requested_, ok_so_far_, op_in_flight_, op_index_,            *)
(* ops_started_ and "uart_error_ is set"; peer is the address it was       *)
(* pointed at; got is what reads_ holds of the two cursors; age is the job *)
(* clock: 0, 1 past JOB_TIMEOUT_MS, 2 past JOB_HARD_TIMEOUT_MS.            *)
(* owed is history: the script positions of the required operations that   *)
(* have not ended well yet - the requests of the script from the start, a  *)
(* write from when the stack takes it - as long as the session is ok.      *)
(***************************************************************************)
MustAnswer(op) == op.kind \in {"NOTIFY_ON", "REQUEST"} /\ ~op.optional
MustWrite(op)  == op.kind \in {"WRITE", "ECHO"} /\ ~op.optional /\ ~op.ends
Owing(ops)     == {i \in DOMAIN ops : MustAnswer(ops[i])}

NothingRead == [c \in Cursors |-> "none"]

Free(link) ==
  [trap |-> 0, job |-> "NONE", peer |-> NoDev, link |-> link, ops |-> <<>>, idx |-> 1,
   inFlight |-> FALSE, started |-> FALSE, disc |-> FALSE, ok |-> TRUE, uartErr |-> FALSE,
   got |-> NothingRead, handle |-> "-", age |-> 0, owed |-> {}]

\* outstanding: operations handed to the stack; answers: types of the frames
\* the trap is to send; timers: WAIT timers set in this session ("live") or in
\* an earlier generation ("stale").
NoTraffic == [outstanding |-> <<>>, answers |-> <<>>, timers |-> {}]

Current == conn.ops[conn.idx]
Outdated(ts) == IF ts = {} THEN {} ELSE {"stale"}

Init ==
  /\ slot = [s \in Slots |-> Unbound]
  /\ conn = Free("IDLE")
  /\ air = NoTraffic
  /\ silences = 0

(***************************************************************************)
(* disconnect(): a link being opened is closed once it is up.              *)
(***************************************************************************)
Disconnect(link) == IF link \in {"CONNECTED", "ESTABLISHED"} THEN "DISCONNECTING" ELSE link

RequestDisconnect(c) ==
  [c EXCEPT !.disc = TRUE, !.inFlight = FALSE, !.link = Disconnect(@)]

\* Mutant: the operation in flight is not dropped.
FinishKeepsOperation(slots, c, link, ok) ==
  /\ slot' = [slots EXCEPT ![c.trap] = JobFinished(@, c.job, ok)]
  /\ conn' = [Free(link) EXCEPT !.inFlight = c.inFlight]
  /\ air' = [NoTraffic EXCEPT !.timers = Outdated(air.timers)]

(***************************************************************************)
(* finish_: the connection forgets the job and tells the slot's trap;      *)
(* slots is the slot state the handler has produced so far.                *)
(***************************************************************************)
Finish(slots, c, link, ok) ==
  /\ slot' = [slots EXCEPT ![c.trap] = JobFinished(@, c.job, ok)]
  /\ conn' = Free(link)
  /\ air' = [NoTraffic EXCEPT !.timers = Outdated(air.timers)]

(***************************************************************************)
(* run_next_op_ and op_done_.  From operation k the connection passes over *)
(* what it can skip without failing the job (a missing characteristic, a   *)
(* read the stack refuses, a zero cursor, a UART request nobody could      *)
(* answer, a log not needed), and over what fails at once (a write the     *)
(* stack refuses, a cursor that was never read), until it issues an        *)
(* operation or runs out and hangs up.  a is the traffic owed so far.       *)
(***************************************************************************)
UartUp(c, op) == c.uartErr => op.command

Skips(c, op) ==
  \/ op.kind \in {"READ", "WRITE", "LOGS"}
  \/ op.kind = "ECHO" /\ (c.got[op.src] = "none" => op.optional)
  \/ op.kind = "REQUEST" /\ ~UartUp(c, op)

FailsAtOnce(c, op) ==
  \/ op.kind = "WRITE"
  \/ op.kind = "ECHO" /\ (c.got[op.src] = "some" \/ (c.got[op.src] = "none" /\ ~op.optional))
  \/ op.kind \in Requests /\ UartUp(c, op)

Issuable(c, op) ==
  /\ op.kind = "ECHO" => c.got[op.src] = "some"
  /\ op.kind \in Requests => UartUp(c, op)

Issued(c, op) ==
  [c EXCEPT !.inFlight = TRUE,
            !.handle = IF op.kind = "WAIT" THEN @ ELSE Handle(op),
            !.owed = IF MustWrite(op) THEN @ \cup {c.idx} ELSE @]

RunFrom(c, k, a) ==
  IF c.disc
  THEN /\ conn' = [c EXCEPT !.idx = k, !.inFlight = FALSE]
       /\ air' = a
  ELSE \E j \in k..(Len(c.ops) + 1), ok \in BOOLEAN :
         LET failed == {i \in k..(j - 1) : FailsAtOnce(c, c.ops[i])}
             c1 == [c EXCEPT !.idx = j, !.ok = ok, !.inFlight = FALSE,
                             !.owed = IF ok THEN @ ELSE {}]
         IN
         /\ \A i \in k..(j - 1) : Skips(c, c.ops[i]) \/ (~ok /\ i \in failed)
         /\ ok => c.ok
         /\ c.ok /\ ~ok => failed # {}
         /\ \/ /\ j > Len(c.ops)
               /\ conn' = RequestDisconnect(c1)
               /\ air' = a
            \/ /\ j <= Len(c.ops)
               /\ Issuable(c, c.ops[j])
               /\ conn' = Issued(c1, c.ops[j])
               /\ air' = IF c.ops[j].kind = "WAIT"
                         THEN [a EXCEPT !.timers = @ \cup {"live"}]
                         ELSE [a EXCEPT !.outstanding = Append(@, c.ops[j])]

\* Mutant: an aborted session is not marked as failed.
AbortKeepsOk(slots, c) ==
  IF c.link \in {"DISCOVERED", "IDLE"}
  THEN Finish(slots, c, "IDLE", FALSE)
  ELSE /\ slot' = slots
       /\ conn' = [c EXCEPT !.disc = TRUE, !.link = Disconnect(@)]
       /\ UNCHANGED air

(***************************************************************************)
(* abort: before the radio has acted on the request the connection is free *)
(* at once; afterwards it only asks for the link to go down, and finish_   *)
(* runs when it has.                                                       *)
(***************************************************************************)
Abort(slots, c) ==
  IF c.link \in {"DISCOVERED", "IDLE"}
  THEN Finish(slots, c, "IDLE", FALSE)
  ELSE /\ slot' = slots
       /\ conn' = [c EXCEPT !.ok = FALSE, !.disc = TRUE, !.link = Disconnect(@)]
       /\ UNCHANGED air

(***************************************************************************)
(* maybe_connect_ for slot s, whose state the caller has changed to r, and *)
(* the start it may lead to.                                               *)
(***************************************************************************)
Start(s, r) ==
  [Free("DISCOVERED") EXCEPT !.trap = s, !.job = NextJob(r), !.peer = r.bound]

MaybeConnect(s, r) ==
  IF conn.trap = 0 /\ conn.link = "IDLE" /\ Wants(r)
  THEN /\ conn' = Start(s, r)
       /\ slot' = [slot EXCEPT ![s] = JobStarted(r, NextJob(r))]
  ELSE /\ slot' = [slot EXCEPT ![s] = r]
       /\ UNCHANGED conn

-----------------------------------------------------------------------------
(***************************************************************************)
(* The radio: parse_device on an advertisement of trap d.                  *)
(***************************************************************************)
FirstFree(s) == slot[s].bound = NoDev /\ \A t \in Slots : t < s => slot[t].bound # NoDev

\* Slot s takes the packet: the one d is bound to, else the first free one.
Takes(s, d) ==
  \/ slot[s].bound = d
  \/ FirstFree(s) /\ \A t \in Slots : slot[t].bound # d

\* on_advertisement of a Mouse Trap: the alert bit when it is first heard or
\* has changed, and a poll when the bytes changed.
C20Heard(r) ==
  {[r EXCEPT !.alert = a, !.heard = TRUE] : a \in BOOLEAN}
  \cup {[Requested(r, "POLL") EXCEPT !.alert = a] :
          a \in {b \in BOOLEAN : r.heard /\ r.active = "NONE" /\ r.pending = "NONE"}}

\* on_advertisement of an A24: a wake-up makes a poll due.
A24Heard(r) == {[r EXCEPT !.heard = TRUE, !.due = b] : b \in {r.due, TRUE}}

OnAdvertisement(r) == IF IsC20(r) THEN C20Heard(r) ELSE A24Heard(r)

Advertise(d) ==
  /\ \E s \in Slots :
       /\ Takes(s, d)
       /\ \E r \in OnAdvertisement(IF slot[s].bound = d THEN slot[s] ELSE BoundTo(d)) :
            MaybeConnect(s, r)
  /\ UNCHANGED <<air, silences>>

(***************************************************************************)
(* The tracker promotes a DISCOVERED client; the open succeeds or fails.   *)
(***************************************************************************)
Promote ==
  /\ conn.link = "DISCOVERED"
  /\ conn' = [conn EXCEPT !.link = "CONNECTING"]
  /\ UNCHANGED <<slot, air, silences>>

OpenSucceeds ==
  /\ conn.trap # 0 /\ conn.link = "CONNECTING"
  /\ conn' = [conn EXCEPT !.link = IF conn.disc THEN "DISCONNECTING" ELSE "CONNECTED"]
  /\ UNCHANGED <<slot, air, silences>>

OpenFails ==
  /\ conn.trap # 0 /\ conn.link = "CONNECTING"
  /\ Finish(slot, conn, "IDLE", FALSE)
  /\ UNCHANGED silences

(***************************************************************************)
(* ESP_GATTC_SEARCH_CMPL_EVT: the script is built and its first operation  *)
(* runs.  For a Mouse Trap that is NOTIFY_ON: without the UART service the *)
(* session is over, and a refused registration leaves the UART mute.       *)
(***************************************************************************)
SearchComplete ==
  /\ conn.trap # 0 /\ conn.link = "CONNECTED" /\ ~conn.started
  /\ LET r    == slot[conn.trap]
         ops  == BuildOps(IF IsC20(r) THEN "C20" ELSE "A24", conn.job,
                          r.unanswered, r.bound \in HistoryDevices)
         c    == [conn EXCEPT !.link = "ESTABLISHED", !.started = TRUE,
                              !.ops = ops, !.owed = Owing(ops)]
         mute == [c EXCEPT !.ok = FALSE, !.uartErr = TRUE]
     IN  \/ RunFrom(c, 1, air)
         \/ /\ IsC20(r)
            /\ conn' = RequestDisconnect(mute)
            /\ UNCHANGED air
         \/ /\ IsC20(r)
            /\ RunFrom(mute, 2, air)
  /\ UNCHANGED <<slot, silences>>

(***************************************************************************)
(* The stack reports on the oldest operation it was given: READ_CHAR,      *)
(* WRITE_CHAR, REG_FOR_NOTIFY or WRITE_DESCR, with a status.  "ERROR" is   *)
(* 133, what a write pending at a hang-up gets.  The handlers match the    *)
(* event with the operation in flight by handle, not by request.           *)
(***************************************************************************)
Statuses == {"OK", "ERROR", "REFUSED"}

Popped(o, status) ==
  [air EXCEPT !.outstanding = Tail(@),
              !.answers = IF o.kind \in Requests /\ status = "OK" /\ ~conn.uartErr
                          THEN Append(@, o.what) ELSE @]

\* The trap has acknowledged the write of a command: history.
Acknowledged(r, o, status) ==
  IF o.command /\ status = "OK"
  THEN [r EXCEPT !.acked = @ \cup (IF r.pending = conn.job THEN {"session", "request"}
                                   ELSE {"session"})]
  ELSE r

\* op_done_ after the event, with the connection changed to c.
OpDone(c, a) == RunFrom(c, conn.idx + 1, a)
Paid(status) == IF status = "OK" THEN conn.owed \ {conn.idx} ELSE conn.owed
EventOnly(a) == conn' = conn /\ air' = a

ReadComplete ==
  LET o == Head(air.outstanding) IN
  /\ conn.trap # 0 /\ air.outstanding # <<>> /\ o.kind = "READ"
  /\ \E status \in Statuses :
       IF conn.inFlight /\ Current.kind = "READ" /\ conn.handle = Handle(o)
       THEN \E v \in {"zero", "some"} :
              OpDone([conn EXCEPT !.got = IF o.what \in Cursors /\ status = "OK"
                                          THEN [@ EXCEPT ![o.what] = v] ELSE @],
                     Popped(o, status))
       ELSE EventOnly(Popped(o, status))
  /\ UNCHANGED <<slot, silences>>

\* What a write event does to the operation in flight (handles match).
WriteEnds(status) ==
  \/ Current.kind \in {"WRITE", "ECHO"}
  \/ Current.kind \in Requests /\ status # "OK"
  \/ Current.command /\ conn.uartErr

\* Mutant: a request whose write is refused does not fail the session.
WriteOkForRequests(status) ==
  \/ status = "OK"
  \/ Current.kind \in {"WRITE", "ECHO"} /\ (Current.optional \/ (Current.ends /\ status = "ERROR"))
  \/ Current.kind \notin {"WRITE", "ECHO"}

WriteOk(status) ==
  \/ status = "OK"
  \/ Current.kind \in {"WRITE", "ECHO"} /\ (Current.optional \/ (Current.ends /\ status = "ERROR"))
  \/ Current.kind \notin {"WRITE", "ECHO", "REQUEST", "LOGS"}

\* Mutant: an error is taken for an acknowledgement.
WriteCompleteAnyStatus ==
  LET o == Head(air.outstanding) IN
  /\ conn.trap # 0 /\ air.outstanding # <<>>
  /\ o.kind \in {"WRITE", "ECHO", "REQUEST", "LOGS"}
  /\ \E status \in Statuses :
       LET matched == conn.inFlight /\ conn.handle = Handle(o)
           r       == Acknowledged(slot[conn.trap], o, status)
       IN
       /\ slot' = [slot EXCEPT ![conn.trap] =
                     IF matched /\ Current.command THEN CommandDelivered(r, conn.job) ELSE r]
       /\ IF matched /\ WriteEnds(status)
          THEN OpDone([conn EXCEPT !.ok = @ /\ WriteOk(status), !.owed = Paid(status)],
                      Popped(o, status))
          ELSE EventOnly(Popped(o, status))
  /\ UNCHANGED silences

WriteComplete ==
  LET o == Head(air.outstanding) IN
  /\ conn.trap # 0 /\ air.outstanding # <<>>
  /\ o.kind \in {"WRITE", "ECHO", "REQUEST", "LOGS"}
  /\ \E status \in Statuses :
       LET matched == conn.inFlight /\ conn.handle = Handle(o)
           r       == Acknowledged(slot[conn.trap], o, status)
       IN
       /\ slot' = [slot EXCEPT ![conn.trap] =
                     IF matched /\ Current.command /\ status = "OK"
                     THEN CommandDelivered(r, conn.job) ELSE r]
       /\ IF matched /\ WriteEnds(status)
          THEN OpDone([conn EXCEPT !.ok = @ /\ WriteOk(status), !.owed = Paid(status)],
                      Popped(o, status))
          ELSE EventOnly(Popped(o, status))
  /\ UNCHANGED silences

NotifyOnComplete ==
  LET o == Head(air.outstanding) IN
  /\ conn.trap # 0 /\ air.outstanding # <<>> /\ o.kind = "NOTIFY_ON"
  /\ \E status \in {"OK", "REFUSED"} :
       IF conn.inFlight /\ Current.kind = "NOTIFY_ON"
       THEN OpDone([conn EXCEPT !.ok = @ /\ status = "OK", !.uartErr = @ \/ status # "OK",
                                !.owed = Paid(status)],
                   Popped(o, status))
       ELSE EventOnly(Popped(o, status))
  /\ UNCHANGED <<slot, silences>>

(***************************************************************************)
(* ESP_GATTC_NOTIFY_EVT: a UART frame of a type; the slot takes what it    *)
(* says, and it ends the request in flight that waits for that type.       *)
(***************************************************************************)
FrameApplied(type) ==
  \/ /\ type = "DEVICE_STATE"
     /\ \E h \in Healths, a \in BOOLEAN :
          slot' = [slot EXCEPT ![conn.trap] = [@ EXCEPT !.health = h, !.alert = a]]
  \/ /\ type = "FIRMWARE"                  \* new firmware is asked everything again
     /\ slot' = [slot EXCEPT ![conn.trap] = [@ EXCEPT !.unanswered = {}]]
  \/ type # "DEVICE_STATE" /\ UNCHANGED slot

Frame(type, a) ==
  /\ FrameApplied(type)
  /\ IF conn.inFlight /\ Current.kind \in Requests /\ Current.what = type
     THEN OpDone([conn EXCEPT !.owed = Paid("OK")], a)
     ELSE EventOnly(a)
  /\ UNCHANGED silences

\* The trap answers the oldest request it has taken ...
Answer ==
  /\ conn.trap # 0 /\ air.answers # <<>>
  /\ Frame(Head(air.answers), [air EXCEPT !.answers = Tail(@)])

\* ... never answers it ...
NoAnswer ==
  /\ conn.trap # 0 /\ air.answers # <<>>
  /\ air' = [air EXCEPT !.answers = Tail(@)]
  /\ UNCHANGED <<slot, conn, silences>>

\* ... or reports its state of its own accord, as after FIRE and CLEAR.
StateReport ==
  /\ conn.trap # 0 /\ conn.link = "ESTABLISHED" /\ conn.started
  /\ IsC20(slot[conn.trap]) /\ ~conn.uartErr /\ conn.idx > 1
  /\ Frame("DEVICE_STATE", air)

(***************************************************************************)
(* DISCONNECT or CLOSE, whichever comes first, ends the session; the link  *)
(* may still be closing, and CLOSE then makes it idle.                     *)
(***************************************************************************)
LinkDown ==
  /\ conn.trap # 0 /\ conn.link \in Attached
  /\ LET hungUp == conn.inFlight /\ Current.ends
     IN  \E link \in {"IDLE", "DISCONNECTING"} :
           Finish(slot, conn, link, (conn.disc \/ hungUp) /\ conn.ok)
  /\ UNCHANGED silences

LinkClosed ==
  /\ conn.trap = 0 /\ conn.link = "DISCONNECTING"
  /\ conn' = [conn EXCEPT !.link = "IDLE"]
  /\ UNCHANGED <<slot, air, silences>>

-----------------------------------------------------------------------------
(***************************************************************************)
(* Time.  tick looks at the operation's timeout before the job's.  A WAIT  *)
(* is ended by its own timer well before its timeout.                      *)
(***************************************************************************)
OpTimeout ==
  /\ conn.trap # 0 /\ conn.inFlight /\ Current.kind # "WAIT"
  /\ silences < MaxSilences
  /\ silences' = silences + 1
  /\ slot' = [slot EXCEPT ![conn.trap] =
                IF Current.optional /\ Current.kind = "REQUEST"
                THEN OptionalUnanswered(@, Current.what) ELSE @]
  /\ OpDone([conn EXCEPT !.ok = @ /\ (Current.kind = "LOGS" \/ Current.optional)], air)

\* Mutant: the timer does not check the generation.
WaitElapsesUnchecked(t) ==
  /\ t \in air.timers
  /\ LET a == [air EXCEPT !.timers = @ \ {t}] IN
     IF conn.trap # 0 /\ conn.inFlight THEN OpDone(conn, a) ELSE EventOnly(a)
  /\ UNCHANGED <<slot, silences>>

\* A WAIT timer fires; one set in an earlier generation does nothing.
WaitElapses(t) ==
  /\ t \in air.timers
  /\ LET a == [air EXCEPT !.timers = @ \ {t}] IN
     IF t = "live" /\ conn.trap # 0 /\ conn.inFlight THEN OpDone(conn, a) ELSE EventOnly(a)
  /\ UNCHANGED <<slot, silences>>

\* The job clock; the loop acts on 45 s long before 65 s.
JobAges ==
  /\ conn.trap # 0
  /\ conn.age = 0 \/ (conn.age = 1 /\ conn.disc)
  /\ conn' = [conn EXCEPT !.age = @ + 1]
  /\ UNCHANGED <<slot, air, silences>>

JobTimeout ==
  /\ conn.trap # 0 /\ conn.age >= 1 /\ ~conn.disc
  /\ Abort(slot, conn)
  /\ UNCHANGED silences

\* Mutant: a session that was asked to end is left to the stack.
HardTimeoutTrusting ==
  /\ conn.trap # 0 /\ conn.age = 2 /\ ~conn.disc
  /\ Finish(slot, conn, "IDLE", FALSE)
  /\ UNCHANGED silences

HardTimeout ==
  /\ conn.trap # 0 /\ conn.age = 2
  /\ Finish(slot, conn, "IDLE", FALSE)
  /\ UNCHANGED silences

BackoffElapses(s) ==
  /\ slot[s].backoff /\ slot[s].active = "NONE"
  /\ slot' = [slot EXCEPT ![s].backoff = FALSE]
  /\ UNCHANGED <<conn, air, silences>>

PollDue(s) ==
  /\ slot[s].bound # NoDev /\ ~slot[s].due /\ slot[s].active = "NONE"
  /\ slot' = [slot EXCEPT ![s].due = TRUE]
  /\ UNCHANGED <<conn, air, silences>>

-----------------------------------------------------------------------------
(***************************************************************************)
(* The user.  A requested job starts at once when the trap was heard in    *)
(* the last 15 s, and otherwise when it is next heard.                     *)
(***************************************************************************)
RequestJob(s, r, job) ==
  IF r.bound = NoDev
  THEN slot' = [slot EXCEPT ![s] = r] /\ UNCHANGED conn
  ELSE \/ slot' = [slot EXCEPT ![s] = Requested(r, job)] /\ UNCHANGED conn
       \/ r.heard /\ MaybeConnect(s, Requested(r, job))

PollNow(s) ==
  /\ RequestJob(s, BackoffCleared(slot[s]), "POLL")
  /\ UNCHANGED <<air, silences>>

TestFire(s) ==
  LET r == BackoffCleared(slot[s]) IN
  /\ IF TestFireBlocked(r) THEN slot' = [slot EXCEPT ![s] = r] /\ UNCHANGED conn
     ELSE RequestJob(s, r, "TEST_FIRE")
  /\ UNCHANGED <<air, silences>>

ClearKillAlert(s) ==
  LET r == BackoffCleared(slot[s]) IN
  /\ IF IsC20(r) THEN RequestJob(s, r, "RESET_ALERT")
     ELSE slot' = [slot EXCEPT ![s] = [r EXCEPT !.alert = FALSE]] /\ UNCHANGED conn
  /\ UNCHANGED <<air, silences>>

\* forget_trap: abort the slot's session, then unbind.
ForgetTrap(s) ==
  /\ slot[s].bound # NoDev
  /\ LET left == [slot EXCEPT ![s] = Unbound] IN
     IF conn.trap # s THEN slot' = left /\ UNCHANGED <<conn, air>>
     ELSE IF conn.link \in {"DISCOVERED", "IDLE"}
     THEN /\ slot' = left
          /\ conn' = Free("IDLE")
          /\ air' = [NoTraffic EXCEPT !.timers = Outdated(air.timers)]
     ELSE Abort(left, conn)
  /\ UNCHANGED silences

\* A restart (safe_reboot or power loss): the bindings are in flash, and a
\* cached kill alert, which may be older than the one lost.
Restart ==
  /\ \E alerts \in SUBSET {s \in Slots : slot[s].bound # NoDev} :
       slot' = [s \in Slots |-> IF slot[s].bound = NoDev THEN Unbound
                                ELSE [BoundTo(slot[s].bound) EXCEPT !.alert = s \in alerts]]
  /\ conn' = Free("IDLE")
  /\ air' = NoTraffic
  /\ UNCHANGED silences

-----------------------------------------------------------------------------
StackEvent ==
  \/ Promote \/ OpenSucceeds \/ OpenFails \/ SearchComplete
  \/ ReadComplete \/ WriteComplete \/ NotifyOnComplete
  \/ Answer \/ NoAnswer \/ StateReport
  \/ LinkDown \/ LinkClosed

Clock ==
  \/ OpTimeout \/ JobAges \/ JobTimeout \/ HardTimeout
  \/ \E t \in {"live", "stale"} : WaitElapses(t)
  \/ \E s \in Slots : BackoffElapses(s) \/ PollDue(s)

User ==
  \E s \in Slots :
    \/ "POLL" \in Buttons /\ PollNow(s)
    \/ "TEST_FIRE" \in Buttons /\ TestFire(s)
    \/ "RESET_ALERT" \in Buttons /\ ClearKillAlert(s)
    \/ "FORGET" \in Buttons /\ ForgetTrap(s)

Next == (\E d \in Devices : Advertise(d)) \/ StackEvent \/ Clock \/ User \/ Restart

Spec == Init /\ [][Next]_vars

(***************************************************************************)
(* Fairness.  The main loop keeps running, so its clocks advance and tick  *)
(* acts on them; a link the stack is closing closes (the stack's promise). *)
(* A trap that keeps advertising is heard again and again while the        *)
(* connection is free (the traps' promise, and the tracker's).  Nothing is *)
(* assumed of answers, of links coming up, or of the user.                 *)
(***************************************************************************)
ConnectionFree == conn.trap = 0 /\ conn.link = "IDLE"
HeardWhileFree(d) == ConnectionFree /\ Advertise(d)

ClockFairness ==
  /\ WF_vars(JobAges) /\ WF_vars(JobTimeout) /\ WF_vars(HardTimeout)
  /\ WF_vars(LinkClosed)
  /\ \A s \in Slots : WF_vars(BackoffElapses(s))

FairSpec == Spec /\ ClockFairness /\ \A d \in Devices : SF_vars(HeardWhileFree(d))

-----------------------------------------------------------------------------
Air == [outstanding : Seq(Op), answers : Seq(FrameTypes), timers : SUBSET {"live", "stale"}]

Connection ==
  [trap : 0..NumSlots, job : Jobs, peer : Devices \cup {NoDev}, link : Links, ops : Seq(Op),
   idx : Nat \ {0}, inFlight : BOOLEAN, started : BOOLEAN, disc : BOOLEAN, ok : BOOLEAN,
   uartErr : BOOLEAN, got : [Cursors -> {"none", "zero", "some"}], handle : Handles, age : 0..2,
   owed : SUBSET Nat]

\* Every variable has its type.
TypeOK ==
  /\ slot \in [Slots -> TrapState]
  /\ conn \in Connection
  /\ air \in Air
  /\ silences \in 0..MaxSilences

\* A slot believes a job is running only while the one connection runs exactly
\* that job for it: no job is ever left "active" on a slot nobody will finish,
\* which would keep wants_connection false for good.
SoleSession ==
  \A s \in Slots : slot[s].active # "NONE" => conn.trap = s /\ conn.job = slot[s].active

\* The operation index the handlers dereference is inside the script.
IndexInScript ==
  /\ conn.inFlight => conn.trap # 0 /\ conn.idx \in 1..Len(conn.ops)
  /\ conn.idx \in 1..(Len(conn.ops) + 1)

\* A session that ends well - the gateway has asked for the disconnect and nothing
\* failed, or the trap hangs up on the closing write - has done all that its
\* script requires: every request that is not optional, the command too, was ended
\* by an answer and every required write the stack took by its acknowledgement.
\* None was left out, and none was ended by a timeout, by a timer of an earlier
\* session or by an event of another type or handle.  (One of the same type, late
\* from an operation that timed out, is taken for its own.)
HungUp == conn.inFlight /\ Current.ends
NothingOwed == conn.trap # 0 /\ conn.ok /\ (conn.disc \/ HungUp) => conn.owed = {}

\* Between two presses a requested job is tried at most three times, whatever
\* mix of timeouts, hang-ups and failed opens it meets.
RetryBound == \A s \in Slots : slot[s].attempts <= GiveUpAfter

\* "Test fire sent; poll failed": a command counts as delivered, and is no longer
\* retried, only when the trap acknowledged it in this very session - as long as
\* no operation has timed out: the acknowledgement of a wake-up that did would be
\* taken for the command's, which goes to the same handle.
DeliveredMeansAcknowledged ==
  silences = 0 => \A s \in Slots : slot[s].delivered => "session" \in slot[s].acked

\* "Test Fire" and "Clear Kill Alert" are taken from the queue as done when their
\* session ends well: the trap has then acknowledged the command in that session,
\* whatever the session met before and after it - again as long as no operation
\* has timed out, when the late answer to the wake-up would end the command.
DoneMeansSent ==
  /\ silences = 0 /\ conn.disc /\ conn.ok
  /\ conn.job \in Commands /\ IsC20(slot[conn.trap])
  => "session" \in slot[conn.trap].acked

\* Forget Trap cannot free a connection that is being opened: the session goes on
\* while another trap takes the slot.  But it can no longer end well, so that it
\* is never taken for a session with the new trap.
SessionOnItsOwnTrap == conn.trap # 0 /\ conn.ok => slot[conn.trap].bound = conn.peer

(***************************************************************************)
(* The inductive invariant behind the invariants above (SessionProofs adds *)
(* what is known of a command).  A slot counts tries of a request only     *)
(* while it is queued; during a session they are the running job's own,    *)
(* and between sessions there are at most as many as failures.             *)
(***************************************************************************)
SlotInv(r) ==
  /\ r.active # "NONE" => r.bound # NoDev
  /\ r.attempts > 0 =>
       /\ r.pending # "NONE"
       /\ r.active # "NONE" => /\ r.pending = r.active
                               /\ r.attempts <= r.failures + 1
                               /\ r.attempts <= GiveUpAfter
       /\ r.active = "NONE" => r.attempts <= r.failures /\ r.failures < GiveUpAfter

\* A session that may still end well is its slot's own active job.
StillItsJob == conn.trap # 0 /\ conn.ok => slot[conn.trap].active = conn.job

ScriptInv(c) ==
  /\ c.inFlight => c.trap # 0 /\ c.started /\ c.idx \in 1..Len(c.ops)
  /\ c.idx \in 1..(Len(c.ops) + 1)
  /\ ~c.started => c.idx = 1
  /\ c.disc /\ c.ok => c.started /\ c.idx = Len(c.ops) + 1 /\ ~c.inFlight
  /\ c.trap # 0 => c.job # "NONE"

IInv ==
  /\ TypeOK /\ SoleSession /\ StillItsJob /\ ScriptInv(conn)
  /\ \A s \in Slots : SlotInv(slot[s])

Issues(s, op) ==
  /\ conn'.trap = s
  /\ conn'.inFlight
  /\ conn'.ops[conn'.idx] = op
  /\ ~(conn.inFlight /\ conn.idx = conn'.idx)

\* Once the gateway has taken note that the trap acknowledged a test fire or a
\* clear, no later session writes it again until it is asked for again.
ConfirmedNotResent ==
  [][\A s \in Slots : Issues(s, Command) => "confirmed" \notin slot[s].acked]_vars

\* Every session ends, whatever the trap and the stack leave unanswered: the one
\* connection always comes free for the other traps.
SessionEnds == (conn.trap # 0) ~> (conn.trap = 0)

\* A trap that wants a session - a job is queued or a poll is due - gets one, or
\* stops wanting it, however the sessions before it ended: it is not stuck in a
\* backoff, behind a failed job or on a connection that is not freed.
Wanting(r) == r.bound # NoDev /\ (r.pending # "NONE" \/ r.due)
TakenUp ==
  \A s \in Slots : Wanting(slot[s]) ~> (slot[s].active # "NONE" \/ ~Wanting(slot[s]))

-----------------------------------------------------------------------------
(***************************************************************************)
(* What the documentation says and the code does not keep.                 *)
(***************************************************************************)
\* README, Test Fire: once the trap acknowledges the write it is not resent.  It
\* is, when the acknowledgement comes after the operation's timeout.
AcknowledgedNotResent ==
  [][\A s \in Slots : Issues(s, Command) => "request" \notin slot[s].acked]_vars

\* trap.h: a test fire must not be sent while test_fire_blocked() has a reason
\* against it.  The press asks, the session that sends it does not ask again.
FireOnlyWhenAllowed ==
  [][\A s \in Slots : Issues(s, Command) /\ conn'.job = "TEST_FIRE" => ~TestFireBlocked(slot[s])]_vars
=============================================================================
