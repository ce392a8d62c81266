# TLA+ models of the Goodnature gateway

The gateway is an ESPHome component for an ESP32 that listens to Goodnature
traps over Bluetooth LE, polls them over GATT, and publishes strikes, alerts and
consumables to Home Assistant. This directory holds TLA+ models of the parts of
it where the order of events matters, TLC runs over small instances, and TLAPS
proofs of the main invariants for every instance.

All paths below are under `src/components/goodnature_ble/` unless they say
otherwise; README means `src/README.md`.

## 1. The system

### Parts, their state, and how they interact

| part | state | operations | interacts by |
|---|---|---|---|
| hub (`goodnature_hub.cpp`) | slots in use, discovery switch, 5 s restart timer | `parse_device`, `loop`, `request_job`, `forget_trap`, `forget_all_traps`, `set_discovery_enabled`, `setup` | gives the free connection to a trap that is heard, or whose button is pressed, and wants it; binds, rebinds and unbinds slots; restarts the gateway |
| trap slot (`goodnature_trap.cpp`) | `prefs_`, `cache_`, `identity_` (flash), job queue, backoff, everything read in the session | `on_advertisement`, `wants_connection`, `on_job_started`, `apply_*`, `on_job_finished`, the buttons | is called by the hub (radio, buttons) and by the connection (frames, characteristics, end of the job) |
| connection (`goodnature_connection.cpp`) | link state, script `ops_`, `op_index_`, `op_in_flight_`, `ok_so_far_`, `disconnect_requested_`, two clocks | `start`, `abort`, `tick`, `gattc_event_handler`, `run_next_op_`, `finish_` | asks the BLE stack for operations, is told of their end by events, frames and timers, calls back into the slot |
| protocol (`protocol.cpp`) | the UART frame assembler's buffer | decoders, classification, version comparison | pure calls |
| entities (`entities.cpp`) | none of their own | buttons, numbers, switch, date-time | call slot and hub |
| flash preferences (ESPHome) | pending and written records | save, sync | written at once only where the code calls `sync` |
| BLE stack, traps | outstanding operations; the traps' own records | - | external |

Everything in the gateway runs on one main loop, so a handler is atomic. What
interleaves is *which* comes next: an advertisement, a stack event, a frame, a
timer, a button, a restart.

### What is hard here

* **One connection for all traps**, and a session that can be ended by eight
  different events at every point of its script. Who owns it, whose job is
  active and what counts as "done" is spread over three classes.
* **Commands with an effect in the world.** A Test Fire written twice fires the
  trap twice; its acknowledgement can come late or belong to another write.
* **Two sources for one count.** A Mouse Trap's kills come from a log and from a
  history that overlap; which is used depends on the firmware, on earlier
  timeouts and on the clock.
* **An acknowledgement that destroys evidence.** A session with an A24 takes its
  unread kills off it; afterwards only the gateway's own alert tells of them.
* **Flash written at different times**: one handler saves two records and syncs
  only the first.
* **Identity**: a Mouse Trap changes its address, packets may lack the model or
  the serial, and entities exist only after a restart.

For each part the properties that make it correct are in section 3. The list of
single hazards, each at its line, is in `PROJECT.json`.

### What is modelled

| component | status |
|---|---|
| session (connection slot), its scripts, choice of the trap to serve | `Session`, `Script`, `TrapJobs` |
| job queue, backoff, poll interval, bursts | `TrapJobs`, where the backoff is one flag; its times in `Polling` |
| discovery, slots, restart, bindings in flash | `Slots` |
| Mouse Trap kills to Strikes and Last Strike | `KillCount`, abstractly `Tally` |
| A24 kills to Strikes, Kill Alert, Last Strike, CO2 shots | `A24` |
| A24 error records (Trap Error) | `A24Errors` |
| Kill Alert, Armed, Online of a Mouse Trap, the lure's age | `Readings` |
| UART frame assembler and its codec | `Frames` |
| other readings, decoders of fixed layouts, version comparison, CO2 lost with time, status texts, code generation (`__init__.py`), `tools/`, the unit tests | left out; see *Not modelled* |

## 2. The modules

`Script`, `TrapJobs` and `Session` form one specification; the others stand each
for itself, and take from `Session` only that a session may break off at any
point. `map` in `PROJECT.json` gives the source lines of every
definition. Operators headed `\* Mutant` are plausible bugs; no specification
uses them, they show that a property can fail.

### Script, TrapJobs, Session

`Script` is `build_ops_`: for a model and a job the sequence of operations, each
with what it waits for, whether it is optional, whether it is the command, and
whether the trap hangs up on it. Payload bytes are left out; the value of the two
cursors that are echoed is "zero", "some" or "none". Whether the clock is set
(`ClockValid`) and whether the time is written on connect (`WriteTime`) are
constants.

`TrapJobs` is a `GoodnatureTrap`'s job state as a record, with its methods as
functions from record to record (`Requested` is `request_job`, `JobFinished` is
`on_job_finished`, and so on).

`Session` has four variables: `slot` (every trap's record), `conn` (the
connection), `air` (operations the stack still has to report on, frames the trap
still has to send, WAIT timers) and `silences`. An action is one event and the
whole handler behind it, including the next operation it issues (`RunFrom`).

* The stack finishes operations in order; a trap answers a request only after
  its write was acknowledged, in order, or never. As in the code, an event is
  matched with the operation in flight by its *handle*, so a late one can be
  taken for another.
* `tick` looks at the operation's timeout, then the 65 s limit, then the 45 s
  limit. Time is abstract: `age` is 0, 1 (past 45 s) or 2 (past 65 s), and it
  gets to 2 only after the loop has had its turn at 1. An operation may time out
  whenever it is in flight; a WAIT is ended by its own timer, which is much
  shorter.
* `due` stands for all the reasons to poll (never polled, interval elapsed, an
  advertisement that asks for it) and assumes a poll interval other than 0;
  `Polling` has them one by one.
* The alert bit of a Mouse Trap's advertisement may be anything whenever one is heard.
* `Restart` covers restart and power loss: bindings stay, all else is lost, and a
  cached kill alert may be stale.
* After `finish_` during a disconnect the link stays `DISCONNECTING` until the
  stack reports that it is closed.
* A trap of unknown model gets the A24 script, as in `is_c20()`.
* `conn.owed` is history: the operations of the script that must still end well, the
  required requests from the start and a required write from when the stack takes
  it. It lets `NothingOwed` say that a session that ends well has done its script.
  A WAIT timer carries nothing but whether its session is over ("stale"); what
  `NothingOwed` shows is that with the check of the generation
  (`goodnature_connection.cpp:550-557`) no operation is ended by it.
* Discovery off, which only removes behaviour, and frames of the log (which only
  restart the timer) are left out.

### Slots

`table` is each slot's address, model and serial, `flash` what is stored of it,
`app` what Home Assistant was shown at boot, `timer` the restart timer. Trap t's
n-th address is `<<t, n>>`: addresses are never reused, A24s never change theirs.
A binding is flushed when made (bind, rebind, unbind, an A24's serial read); what
is learnt from later packets is not. `forget_all_traps` is one step, as nothing
can happen in between. After a power loss the discovery switch may have either
value. The one-time migration of stored bindings without a model, and a serial
that is 0 in a packet that has one, are left out.

### KillCount and Tally

`trap` is the log's kills and the firmware, `mem` and `flash` the slot's stored
records, `ses` the session. History, log window, full replay, baseline and marks
follow `plan_striker_log`, `apply_history_` and `apply_kill_history_`; the set
`counted` records which kills `strikes` stands for. `set_strikes_` flushes the
count with the *old* marks; the marks follow at `Sync`. A history answer that
comes after its timeout is still taken. A restart asked for writes the
preferences first, a power loss does not.

What can happen to trap and gateway is a set of *faults*, each at most once in a
behaviour: power loss, a history answer that is lost, a factory reset, a firmware
update (both outside sessions), and a kill between the trap's sending the history
and its arrival. Each property says which faults it does not survive.

Assumed: the trap's clock is the gateway's (each session sets it), and no two
kills share a second. Test fires, self-tests and log windows read only for motor
and sensor details, none of which are counted, are left out.

`Tally` is the abstract promise: kills happen, and are counted once each, late
and several at a time if need be, and never uncounted.

### A24

One slot and one trap. `trap` has the newest record (D20D), the last acknowledged
(D60D), the record D30D returns, and each record's time. A session reads D20D,
points D20D at it, reads D30D and D60D, and writes what it read of D20D into
D60D. Whether D30D moves with a new kill is not known and left open. `user` holds
what only the properties see: the records noticed, cleared and acknowledged, and
the shots the canister in use has given. `Layouts` says whether the advertisement
shows the trap's counts or, as on older firmware, only a burst. Advertisements
come only between sessions. Shots lost with time and the capacity of the canister
are left out; the wall clock is always set.

### A24Errors

Trap Error of an A24. `trap` is its log of error records and the one E772
returns; a session reads the newest number (E771), writes it back so that E772
returns that record, and judges it (`judge_a24_error_`): any record other than a
session's end turns Trap Error on if its number is above the last one judged, or
if the log has started again. Every operation may be passed over, and the link
may go down anywhere. `user` holds the records shown and cleared, which only the
properties see. What E772 returns before a record is selected, and whether a new
record moves it, is not known and left open. The saves are not flushed: `Sync` is
a step of its own, a restart saves first, a power loss does not.

### Polling

When a trap is connected to: backoff after failures, poll interval, the poll a
changed advertisement asks for, and the bursts of an A24. True times are kept;
`Ms` is what the code stores of them, a counter of `Wrap` values in which 0 also
means never, and `Since` the unsigned difference it takes. The interval is one of
`Intervals`, 0 included. Of a session there are only its results and the
acknowledgement of a command; whether a job is queued when it has gone well (another
one than was done, or the clear of an alert) is left open, as `TrapJobs` has it.
`inRow` is history: the packets since the last pause too long for a burst. A pause
of a whole turn of the counter is not one, as the gateway cannot see it.

### Readings

What Home Assistant is shown of a Mouse Trap. `trap` is the truth (a kill, the
advertised bit that follows it with a delay, whether it is ready), `mem` what the
slot has of it, `saved` and `flash` the stored part, `shown` the entities. An
advertisement changes Kill Alert only when its bit changes; a poll sets it in the
session and publishes at its end. Online compares epochs if clock and epoch are
known and milliseconds if not; the clock may be set at any time, or never, and is
not set back. The lure is dated when first seen with a clock, or by the user.
Reading, publishing and saving are separate steps in the order of the code.
`update_periodic`, which runs every minute, comes after each step of the clock
(an hour, or the clock being set) but anything else may come in between:
`clock.due` says that it has not run yet, and what it keeps right is stated for
when it has. A session may bring any number of device states; the clear of an
alert comes before the first.

### Frames

The trap's UART: messages encoded (`Encode` is `c20_encode`), sent as bytes that
notifications cut anywhere, each byte or notification possibly lost, and
assembled again (`Feed` is one byte of `C20FrameAssembler::feed`, `Decode` is
`c20_decode`). A byte is one of eight; the delimiters are three of them, the
escape flips one bit as in the code. The CRC is an element of its own, of a number
that the constant `Crc16` gives the content; in the run it collides with nothing
(`CrcDetects` of `MCFrames`, which TLC evaluates), the proofs say what holds of
any. The two bytes of the code's CRC can be delimiters, are then escaped like any
byte, and can be torn apart; as one element it is neither, so the escaping of CRC
bytes (`protocol.cpp:285-298`) is not checked. The loops over bytes are recursive
functions. The assembler is reset when a session starts.

## 3. The runs

Ten runs must pass. Bounds are the CONSTANTS of the `.cfg`, and each is named.

| run | instance | shows |
|---|---|---|
| `session_mouse` | one Mouse Trap, Poll and Test Fire, auto acknowledge, one silent operation | `RetryBound`, `DeliveredMeansAcknowledged`, `DoneMeansSent`, `ConfirmedNotResent`, `NothingOwed` |
| `session_slot` | one slot, a Mouse Trap and an A24, Clear and Forget, under `FairSpec` | `IInv`, `SessionOnItsOwnTrap`, `SessionEnds`, `TakenUp` |
| `kills` | two history entries, five seconds, any two of the five faults | `CountedOnce`, `NothingMissed`, `LogScanned`, `LastStrikeCounted`, `ReplayResyncs`; `KillCount` implements `Tally` |
| `slots` | three slots, three traps, one of them a Mouse Trap that moves, packets without the model, two forgets or restarts or losses | `RestartIffReason`, `OneSlotPerTrap`, `RegistersTrapsDiscovered`, `IInv`; `Settles` |
| `a24_alert` | both firmwares, two kills, the app, a shake, a restart, one failed read | `AckedIsAlerted`, `LastStrikeRight`, `InferredUntilRead`, `NoFalseAlarm` |
| `a24_canister` | two kills, an extra shot, a reset of the counters, a power loss | `NotOvercharged`, `IInv` |
| `a24_errors` | a log of three records, any operation failing, a reset of the log, a restart, a power loss | `NewestErrorShown`, `EachErrorOnce`, `IInv` |
| `polling` | a counter of eight values over nine units of time, started at two places, polling on and off, both models | type; `BackoffKept`, `PolledWhenDue`, `ChangesPolledSeldom`, `ActivationsAreBursts` |
| `readings` | three units of time and a timeout of two, one change besides the clear, a restart or power loss, the clock set at any time | `AlertRight`, `OnlineRight`, `LureAgeRight`, `IInv` |
| `frames` | three of three messages (one ending in a delimiter, one with a frame inside, one too long), cut in up to three bytes, any lost, two sessions | `NothingInvented`, `WholeFramesArrive` |

`IInv` of a module is the invariant its proofs are about; it contains the module's
types and the smaller invariants named with the proofs.

Why these bounds are enough to be interesting: three failures are what it takes
to give up (`MaxFailuresTracked = 3` stands for 8, which only matters to the
backoff's length); one silence is enough for every late event, since a second
timeout only repeats it; a history of two entries overflows within five seconds,
and the rescan interval and the overlap (2 and 3) fall inside the same span; a
trap that moves once has been followed, and a second trap can take its place; two
kills are one seen by a session and one that comes during it; three error records
are one judged, one passed over and one newer, and the log may start again and
grow past them; the counter wraps within every run of `polling`, before and after
the backoff has reached its limit; in `readings` a trap can go offline and
come back, before and after a restart, and the proof covers longer times; the
messages of `frames` are the ones that could be mistaken for something else.

### Fairness

`Session!FairSpec`: the main loop runs, so the job clock advances, its timeouts
fire and backoffs elapse (weak fairness). The stack closes a link it was told to
close; the code has no timer of its own for that. A trap that keeps advertising
is heard while the connection is free again and again (strong fairness of
`HeardWhileFree`): the radio cannot promise more, as a connection attempt
interrupts it. Nothing is assumed of answers, of links coming up, or of the user.
The run has one slot and no silences; a session can still hang at every
operation, since no answer is ever guaranteed. Starvation among several slots is
not covered (`maybe_connect_` serves whoever is heard while it is free).

`Slots!FairSpec`: the scheduler's clock advances and runs what is due.

### Where code and documentation disagree

Two runs look for a counterexample to a sentence of the documentation, and find
one; `findings` quotes the sentences.

| run | sentence | what happens |
|---|---|---|
| `ack_resent` | README:148, an acknowledged Test Fire is not resent | acknowledged after its 4 s, it is |
| `kills_lost` | README:128, only kills newer than the last one counted are added | kills from the log, after an unanswered history request, are counted again by the history |

Four more sentences are stated as properties in their modules and
refuted by TLC when added to a `.cfg` by hand:

| property | sentence | what happens |
|---|---|---|
| `Session!FireOnlyWhenAllowed` | README:148, Test Fire is refused with a kill waiting | it is checked when pressed, not when sent |
| `Slots!SerialUnique` | `goodnature_hub.cpp:355`, a Mouse Trap is followed by its serial | a first packet without it binds a second slot |
| `A24!KillsAlerted` | README:129, the alert is on when the trap has kills nobody acknowledged | if D60D cannot be read they are acknowledged without it |
| `Readings!ArmedKept` | README:171, Armed is kept across restarts | the cache is saved before Armed is derived from the poll; a restart shows what the poll before it found |

More came up while modelling. Each is the reason for a condition in a property
above, without which TLC refutes it:

* `DeliveredMeansAcknowledged` and `DoneMeansSent` only without timeouts: the
  acknowledgement of a wake-up that timed out is taken for the command's, and its
  late answer ends the command before its write was reported on.
* `SessionOnItsOwnTrap` only for sessions that can end well: after Forget Trap
  during a connection attempt the slot may take another trap, and the failure of
  the old session is counted against it.
* A second Test Fire pressed after the first was acknowledged, in the same
  session, is cleared with the first (`goodnature_trap.cpp:1211`).
* `CountedOnce` not after a power loss (the count is flushed before its mark) nor
  with a kill between history and replay; `NothingMissed` not after a firmware
  update (the first history is taken as counted already).
* `RegistersTrapsDiscovered` only until a trap is forgotten: free slots below the
  highest one in use stay registered, against README:194.
* `AckedIsAlerted` not after a power loss (the alert is not flushed);
  `NotOvercharged` not on older firmware, nor with extra shots and a power loss
  (`set_co2_replaced` flushes the anchor before the extra shots); `InferredUntilRead`
  not after a restart, which forgets that the counter was read.
* `NewestErrorShown` not if the log starts again and has just reached the number
  last judged; `EachErrorOnce` not after a power loss (the number is not flushed).
* `OnlineRight` not for a trap heard before the clock was set: its epoch is 0, or
  the one from flash, and it is offline until the next packet.
* `PolledWhenDue` not across a whole turn of the counter (49.7 days);
  `ActivationsAreBursts` not across a silence of a whole turn, but otherwise however
  long the gateway runs; `ChangesPolledSeldom`, and the cooldown of
  `ActivationsAreBursts`, not when a time happens to be stored as 0.
* `AlertRight` only for what was read since the boot: a restart forgets the last
  bit, and the alert from flash may be older than the trap's state.
* `OnlineRight` and `LureAgeRight` only once `update_periodic` has run after a step
  of the clock.

One sentence no property is about: README:273 says that button presses are flushed
at once, but `clear_kill_alert`, `clear_trap_error` and `mark_co2_shot_used` only
save (`goodnature_trap.cpp:872,959,1534`), so a power loss before the next sync
undoes them. The models have it so (`Sync` is a step of its own there), and it is
one reason why `NoFalseAlarm`, `EachErrorOnce` and `NotOvercharged` leave power
losses, or extra shots with them, out.

`hazards` in `PROJECT.json` names properties only where they cover the hazard. Where
the code has the flaw, or the properties leave the case out by one of the conditions
above, the list is empty and the note says so.

## 4. The proofs

TLAPS proves, for all values of the constants allowed by the ASSUMEs:

| module | theorems |
|---|---|
| `SessionProofs` | `Spec => []IInv`, and from it `TypeOK`, `SoleSession`, `IndexInScript`, `RetryBound`, `SessionOnItsOwnTrap`; `Spec => []CInv`, and from it `DeliveredMeansAcknowledged`; with `SentInv`, `DoneMeansSent`; with `OwedInv`, `NothingOwed`; the action property `ConfirmedNotResent` |
| `SlotsProofs` | `Spec => []IInv`, and from it `AddressUnique`, `RestartIffReason`, `BindingsInFlash`, `RegistersTrapsDiscovered`, and `OneSlotPerTrap` if every packet has its serial |
| `KillCountProofs` | `Spec => []IInv`, and from it `TypeOK`, `CountedOnce`; the action property `ReplayResyncs`; the refinement `KeepsTally`; `Spec => []WInv`, and from it `NothingMissed`, `LogScanned`, `LastStrikeCounted` |
| `A24Proofs` | `Spec => []IInv`, and from it `TypeOK`, `AckedIsAlerted`, `NotOvercharged`; with `Strikes`, `InferredUntilRead`, `LastStrikeRight`; the action property `NoFalseAlarm` |
| `A24ErrorsProofs` | `Spec => []IInv`, and from it `NewestErrorShown`; the action property `EachErrorOnce` |
| `ReadingsProofs` | `Spec => []IInv`, and from it `AlertRight`, `OnlineRight`, `LureAgeRight`, `ArmedMeansSet` |
| `PollingProofs` | `Spec => []IInv`, and from it `TypeOK`, `PolledWhenDue`; the action properties `BackoffKept`, `ChangesPolledSeldom`, `ActivationsAreBursts` |
| `FramesProofs` | `Spec => []IInv`, and from it `WholeFramesArrive` and `ChecksumsSent`, whichever the CRC is; `NothingInvented` as long as what is returned does not collide with a message (`OnlyCollisionsInvent`) |

The invariants as stated are not inductive. What strengthens them:

* **Session.** `RetryBound` needs to know that attempts are counted only for a
  queued job, are the running job's own during a session, and number at most the
  failures between sessions (`SlotInv`). `IndexInScript` needs the shape of the script (`ScriptInv`: nothing is in flight
  before the service search or after the end). `StillItsJob` says that a session
  that may still end well is its slot's active job: Forget Trap, which takes the
  slot away, also marks the session as failed. The lemma at the centre is
  `RunFromType`: from any operation, running on leaves a connection that is
  within its script, whatever is skipped.
  `SessionOnItsOwnTrap` is inductive with this: a slot whose session may end well
  has an active job, so it is bound and no other trap can take it.

  For what is known of a command (`CInv`, in the second half of `SessionProofs`): `CommandFirst`,
  the shape of the scripts, says that only the registration for notifications and
  the wake-up come before a command, and that it comes once. Up to its command, a
  session in which nothing timed out has one operation with the stack at a time and
  at most one answer on its way (`OneAtATime`), so the write event that ends the
  command is its own (`NothingYet`, `Proven`). `Settled` and `ConfirmedIsPast`: once
  a command is confirmed its job is not queued for it, and a session that runs has
  it behind it. The wait timers, the only ones that move a session on by
  themselves, come after the command (`NoTimerYet`). `ConfirmedNotResent` is a
  statement of single steps from this invariant.

  `DoneMeansSent` needs a little more (`SentInv`): the script of a Mouse Trap's
  command has the command in it, running on never passes over one in a session that
  can still end well (`SentRunsOn`), and once the stack has no more to report on the
  command's write, the command is acknowledged or the session has failed. That the
  session is with the trap its slot holds (`SessionOnItsOwnTrap`) is what makes the
  script the right one.

  `NothingOwed` (`OwedInv`): what a session that is still ok owes is ahead of it in
  its script, or is the write in flight (`Ahead`); so nothing is owed once the
  script is over. `EndsLast`, the shape of the scripts: the write on which the trap
  hangs up is the last operation, so a hang-up there leaves nothing behind either.
  `TimerIsItsOwn`: while a session is ok, a timer that is not outdated is the one of
  the WAIT in flight, so that none ends a request. `OwedRunsOn` is the lemma for
  running on, which passes over no required request unless it marks the session as
  failed.
* **KillCount.** Three facts make a kill heard of twice count once. `Counted`:
  Last Strike and `kill_history_newest` are not before any kill counted that the
  trap still holds, so a window of the log and a history add only later ones.
  `Firmware`: the two never meet in a session, as windows are only asked of old
  firmware and the history only of new, also across a firmware update (the first
  session after one asks for no history
  and no window). `Sampled`: what a full replay counts beside
  a history is not later than that history. They hold until a power loss, a lost
  answer or a kill between a history's departure and its arrival (`Sound`). The
  refinement adds `Faultless`: what is counted is in the log, and in a replay of
  all of it, so that a replay takes nothing back. The last element of a set of
  times exists by the well-foundedness of the strict subsets of a finite set
  (`LastTime`), which needs no induction of the library's with an operator.

  That nothing is missed (`WInv`) is a second invariant, as it must survive what
  the first need not: a power loss, so it is stated of the record in memory *and*
  of the one in flash (`Remembers`), and a kill on its way. `Tells`: every kill the
  trap still holds, up to `kill_history_newest` or the log's mark, is counted.
  `Asking`: a trap that always was of new firmware is asked for its history in each
  session. `Telling`: what the history on its way has not is later than all it
  has, and a log asked for brings every kill of its window.
* **Slots.** `RestartIffReason` is inductive with the types; the lemmas are that a
  step that does not touch addresses and models leaves the reason alone
  (`ReasonKept`) and that a boot leaves none (`BootShows`). `OneSlotPerTrap`
  needs that A24s stay where they are and that a Mouse Trap's slot has its serial,
  in RAM and in flash: then a trap with a slot is found by address or by serial,
  and no second slot is bound. `RegistersTrapsDiscovered` needs `Packed`: until a
  trap is forgotten the slots in use are the first ones, so the highest one in use,
  which is what a boot registers up to, is also their number.
* **A24.** `AlertKept`: the alert stands for the records up to `user.noticed`;
  what the gateway acknowledged is at most what the trap has acknowledged; and
  before a session's acknowledgement, what it is going to acknowledge is answered
  for. `Charged`: what the canister is charged with *plus the fires not read yet*
  is at most what it gave; with a power loss it must hold of flash too, which it
  does as long as there are no extra shots.

  For the alert and Last Strike (`Strikes`): `DisplayedReal`, what D20D
  gave last is a record the trap has; `Past`, no record and no Last Strike is
  later than now; `NewestKept`, which follows a session from the record selected
  to the one whose time is shown, and says that until then Last Strike is not
  later than any record the trap adds.
* **A24Errors.** `ShownBelowJudged`: once a record of this log was shown, no
  number below it counts as judged, and the number E771 last gave is not below
  either; so a log only seems to start again when it does. `Agrees`: the last
  record judged, if it is an error, is on or was cleared, in memory and in flash.
  `NewestJudged` carries the session from the number read to the record judged.
* **Readings.** `AlertFollows`: a poll's alert is only undone by a bit that was
  old, and then `adv_alert_bit_` shows that a change is still to come.
  `OnlineFollows` and `LureKept`: no epoch in memory, saved or in flash is later
  than what it stands for.

* **Polling.** The lemmas are about the counter: the difference of two readings,
  modulo `Wrap`, is at most the time between them, and is that time if it is below
  `Wrap`; so a wait measured with it is never shorter than meant. The backoff is
  compared with one whose shift is not capped: that powers of two increase is shown
  by counting the subsets of `1..n`, which needs no induction. `PollingAssumption`
  states why capping the shift is no loss: `BackoffBase * 2^MaxShift >= BackoffMax`
  (60 s << 5 is 1920 s, and the limit 1800 s; `goodnature_trap.cpp:31-33,704`).
  The invariant has `Attempted` (failures are of attempts, so the time of the last
  one is known) and `TrueBurst` (as many packets as are counted to a burst have come
  since the last pause).
* **Frames.** The assembler is a recursive function over the bytes of a
  notification, and so are `Escaped` and `Unescaped` over those of a body. The
  library's induction takes an operator for the predicate; `NatSet` and `SeqSet`
  are induction with a *set* for it, from the well-foundedness of `<`, and give
  what each of the three makes of nothing and of one element more
  (`EscapedFold`, `UnescapedFold`, `FedNothing`, `FedMore`). From these:
  `RoundTrip`, a message is decoded from its frame, which has no delimiter
  inside; `DecodeFacts`, whatever stands in the buffer, what is decoded from it
  ends in a CRC received as one, since no byte and nothing escaped can be one.

  The invariant relates the buffer to the bytes not yet sent. `InOrder`: they are
  those of the last frames, one after the other. `UnderWay`: of a frame that is
  half sent, none of it lost, the first half is the buffer. `Returned`: the
  messages that arrived whole are among those returned. `Traced`: each message
  returned has the CRC of one sent, of a later one each time, and the CRCs in the
  buffer are of later ones still. It is kept by one byte (`GoodByte`), so by a
  notification of any length (`GoodBytes`).

  No assumption is made of the CRC: a CRC without collisions is not possible with 16
  bits and buffers of 512 bytes. `ChecksumsSent` and `OnlyCollisionsInvent` say what
  holds of any, namely that a false message needs a collision. That `NothingInvented`
  holds without one (`CrcDetects`) is model-checked.

Only model-checked:

* the liveness properties `SessionEnds`, `TakenUp` and `Settles`, which are out of
  the prover's reach, as ENABLED and fairness are;
* the two properties that runs expect to be violated.

## 5. Not modelled, and plan

Not modelled:

* The decoders of fixed layouts (`protocol.cpp`, the `parse_*` functions): each is
  a table of offsets without state, and `tests/protocol_test.cpp` has captured
  packets for them. `compare_versions` is used once, against "0.2.550", with the
  boundary in the same tests; `KillCount` takes its outcome.
* Readings that are copied from a frame to an entity (battery, motor and sensor
  details, temperatures), status texts, identity texts, debug output.
* Shots of CO2 lost with time and the days left of lure and canister: divisions of
  a difference of dates. The dates themselves are in `Readings` and `A24`.
* A clock that is set back, and times beyond 32 bits.
* `__init__.py` runs on the development host; its result (slots, discovery,
  intervals) is the CONSTANTS. `tools/` and the build are not part of the program.

What would come next:

1. The reads of an A24's script: `NothingOwed` is about requests and writes, since
   a read that fails is passed over.
2. `Arbiter`: who gets the connection, with several slots, as an abstraction of
   `Session`, and under which fairness of the radio no slot is starved.
3. Composition: an abstract session (`Begin`, progress, end) that `KillCount` and
   `A24` use and that `Session` implements.

## 6. Running it

`tlc -config Kills.cfg KillCount` and likewise for the other `.cfg` files (the
module of each is in `PROJECT.json`); `tlapm SessionProofs.tla` and likewise for
the other modules of proofs. The longest run takes two minutes on two cores.
