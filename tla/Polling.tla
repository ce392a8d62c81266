------------------------------- MODULE Polling -------------------------------
(***************************************************************************)
(* When a trap is polled: the backoff after failures, the poll interval,   *)
(* the polls a change in the advertisement asks for and those a burst of   *)
(* packets does.  All of them compare readings of a millisecond counter    *)
(* that wraps, and in which 0 also means never.                            *)
(*                                                                         *)
(* Times are kept as they truly are, `now' since the trap was bound; what  *)
(* the code stores of them is Ms.                                          *)
(***************************************************************************)
EXTENDS Integers

CONSTANTS
  Wrap,         \* 2^32: where millis() starts again
  Offsets,      \* what millis() may read when the trap is bound
  BackoffBase, BackoffMax, MaxShift, FailuresTracked,
  Intervals,    \* the poll intervals to consider; 0 disables polling
  ChangeMin,    \* ADV_CHANGE_POLL_MIN_MS
  BurstGap, MinPackets, Cooldown,
  RecentlySeen, \* RECENTLY_SEEN_MS
  MaxTime       \* bound: the time

ASSUME PollingAssumption ==
  /\ {Wrap, BackoffBase, BackoffMax, FailuresTracked, MinPackets} \subseteq Nat \ {0}
  /\ {MaxShift, ChangeMin, BurstGap, Cooldown, RecentlySeen, MaxTime} \subseteq Nat
  /\ Intervals \subseteq Nat /\ Offsets \subseteq 0..(Wrap - 1)
  /\ BackoffBase * 2^MaxShift >= BackoffMax \* the shift stops when it no longer matters

VARIABLES
  now,   \* the time
  setup, \* millis() when the trap was bound, its model, the poll interval
  at,    \* when the trap was last heard, attempted, polled, polled for a
         \* change, and counted as activated: a time, or Never
  job,   \* consecutive_failures_, whether a job is pending, activation_needs_poll_,
         \* and the session's link
  burst, \* packets_in_burst_, activation_counted_
  inRow  \* history: packets since the last pause between two packets that was
         \* longer than a burst allows and shorter than a turn of the counter

vars == <<now, setup, at, job, burst, inRow>>

Never == -1
Stamps == {"heard", "attempt", "poll", "change", "activation"}

\* A trap just bound to a slot.
Init ==
  /\ now = 0
  /\ setup \in [offset : Offsets, model : {"C20", "A24"}, interval : Intervals]
  /\ at = [s \in Stamps |-> Never]
  /\ job = [failures |-> 0, pending |-> FALSE, needs |-> FALSE, link |-> "none"]
  /\ burst = [packets |-> 0, counted |-> FALSE]
  /\ inRow = 0

\* What millis() reads, and what is stored of a time.
Ms(t) == IF t = Never THEN 0 ELSE (setup.offset + t) % Wrap

\* The unsigned difference of two readings.
Since(t) == (Ms(now) - Ms(t)) % Wrap

\* The time that has truly passed.
Elapsed(t) == now - t

-----------------------------------------------------------------------------
Lesser(a, b) == IF a < b THEN a ELSE b

\* Mutant: a failure more before the first backoff.
BackoffLate(failures) ==
  Lesser(BackoffBase * 2^Lesser(failures - 1, MaxShift), BackoffMax) - BackoffBase

Backoff(failures) ==
  Lesser(BackoffBase * 2^Lesser(failures - 1, MaxShift), BackoffMax)

\* Mutant: the deadline is compared with the clock.
WantsByDeadline(j) ==
  /\ j.link = "none"
  /\ j.failures > 0 => Ms(now) >= Ms(at.attempt) + Backoff(j.failures)
  /\ \/ j.pending \/ j.needs
     \/ setup.interval # 0 /\ (at.poll = Never \/ Ms(now) >= Ms(at.poll) + setup.interval)

\* wants_connection.
Wants(j) ==
  /\ j.link = "none"
  /\ j.failures > 0 => Since(at.attempt) >= Backoff(j.failures)
  /\ \/ j.pending \/ j.needs
     \/ setup.interval # 0 /\ (at.poll = Never \/ Since(at.poll) >= setup.interval)

\* maybe_connect_ with the connection free or not, after `stamps' were set.
MaybeConnect(free, j, stamps) ==
  IF free /\ Wants(j)
  THEN /\ job' = [j EXCEPT !.link = "connecting"]
       /\ at' = [stamps EXCEPT !.attempt = now]
  ELSE job' = j /\ at' = stamps

-----------------------------------------------------------------------------
\* Mutant: the time of a poll for a change is not kept.
PollForChangeUntimed(changed) ==
  changed /\ job.link = "none" /\ ~job.pending

\* A changed advertisement asks for a poll.
PollForChange(changed) ==
  /\ changed /\ job.link = "none" /\ ~job.pending
  /\ Ms(at.change) = 0 \/ Since(at.change) >= ChangeMin

\* A packet of a Mouse Trap, its bytes changed or not.
C20Heard(changed, free) ==
  /\ setup.model = "C20" /\ job.link # "up"
  /\ LET asks == PollForChange(changed) IN
     MaybeConnect(free, [job EXCEPT !.pending = @ \/ asks],
                  [at EXCEPT !.heard = now, !.change = IF asks THEN now ELSE @])
  /\ UNCHANGED <<now, setup, burst, inRow>>

\* Mutant: a burst goes on however long the pause.
PacketsWithoutGap ==
  IF Ms(at.heard) = 0 THEN 1 ELSE Lesser(burst.packets + 1, MinPackets)

\* The packets of the burst this packet belongs to.
Packets ==
  IF Ms(at.heard) = 0 \/ Since(at.heard) > BurstGap THEN 1 ELSE Lesser(burst.packets + 1, MinPackets)

\* The pause before this packet is too long for a burst, and not so long that the
\* counter has made a turn.
Paused == at.heard = Never \/ Elapsed(at.heard) \in (BurstGap + 1)..(Wrap - 1)

\* A packet of an A24: the third of a burst counts as an activation.
A24Heard(free) ==
  /\ setup.model = "A24" /\ job.link # "up"
  /\ LET counted   == Packets > 1 /\ burst.counted
         activated == /\ ~counted /\ Packets >= MinPackets
                      /\ Ms(at.activation) = 0 \/ Since(at.activation) >= Cooldown
     IN  /\ burst' = [packets |-> Packets, counted |-> counted \/ activated]
         /\ MaybeConnect(free, [job EXCEPT !.needs = @ \/ activated],
                         [at EXCEPT !.heard = now, !.activation = IF activated THEN now ELSE @])
         /\ inRow' = IF Paused THEN 1 ELSE Lesser(inRow + 1, MinPackets)
  /\ UNCHANGED <<now, setup>>

\* Poll Now, Test Fire or Clear Kill Alert: press_action and the hub's request_job.
Press(free) ==
  /\ MaybeConnect(free /\ Ms(at.heard) # 0 /\ Since(at.heard) < RecentlySeen,
                  [job EXCEPT !.failures = 0, !.pending = TRUE], at)
  /\ UNCHANGED <<now, setup, burst, inRow>>

\* A Test Fire that is refused, or an alert that is only the gateway's.
PressInVain ==
  /\ job' = [job EXCEPT !.failures = 0]
  /\ UNCHANGED <<now, setup, at, burst, inRow>>

Connected ==
  /\ job.link = "connecting"
  /\ job' = [job EXCEPT !.link = "up"]
  /\ UNCHANGED <<now, setup, at, burst, inRow>>

\* on_command_delivered: the job that was asked for needs no other session.
CommandDelivered ==
  /\ job.link = "up" /\ setup.model = "C20" /\ job.pending
  /\ job' = [job EXCEPT !.pending = FALSE]
  /\ UNCHANGED <<now, setup, at, burst, inRow>>

\* on_job_finished, the session having gone well: a job other than the one done
\* stays queued, and a Mouse Trap's alert may queue its clear.
Succeeds ==
  /\ job.link = "up"
  /\ \E left \in BOOLEAN :
       /\ left => job.pending \/ setup.model = "C20"
       /\ job' = [failures |-> 0, pending |-> left, needs |-> FALSE, link |-> "none"]
  /\ at' = [at EXCEPT !.poll = now]
  /\ UNCHANGED <<now, setup, burst, inRow>>

\* Mutant: the failures are counted without end.
FailsUncapped ==
  /\ job.link # "none"
  /\ LET n == job.failures + 1 IN
     job' = [job EXCEPT !.failures = n, !.pending = @ /\ n < 3, !.link = "none"]
  /\ UNCHANGED <<now, setup, at, burst, inRow>>

\* on_job_finished, the session having failed.
Fails ==
  /\ job.link # "none"
  /\ LET n == Lesser(job.failures + 1, FailuresTracked) IN
     job' = [job EXCEPT !.failures = n, !.pending = @ /\ n < 3, !.link = "none"]
  /\ UNCHANGED <<now, setup, at, burst, inRow>>

Tick ==
  /\ now < MaxTime
  /\ now' = now + 1
  /\ UNCHANGED <<setup, at, job, burst, inRow>>

Next ==
  \/ \E changed, free \in BOOLEAN : C20Heard(changed, free)
  \/ \E free \in BOOLEAN : A24Heard(free) \/ Press(free)
  \/ PressInVain \/ Connected \/ CommandDelivered \/ Succeeds \/ Fails \/ Tick

Spec == Init /\ [][Next]_vars

-----------------------------------------------------------------------------
\* Every variable has its type.
TypeOK ==
  /\ now \in 0..MaxTime
  /\ setup \in [offset : Offsets, model : {"C20", "A24"}, interval : Intervals]
  /\ at \in [Stamps -> {Never} \cup 0..now]
  /\ job \in [failures : 0..FailuresTracked, pending : BOOLEAN, needs : BOOLEAN,
              link : {"none", "connecting", "up"}]
  /\ burst \in [packets : 0..MinPackets, counted : BOOLEAN]
  /\ inRow \in 0..MinPackets

\* The backoff the documentation gives: doubled with each failure, up to a limit.
Patience(failures) == Lesser(BackoffBase * 2^(failures - 1), BackoffMax)

\* No trap is connected to again sooner after a failed attempt than its backoff,
\* wherever the millisecond counter wraps.  A button has no failures to wait for.
BackoffKept ==
  [][job.link = "none" /\ job'.link = "connecting" /\ job'.failures > 0
     => Elapsed(at.attempt) >= Patience(job'.failures)]_vars

\* A trap with its poll due, or asked for, and its backoff over wants to be
\* polled whenever it is heard: the wrapping counter does not put it off.  Unless
\* nothing has been heard of it for a whole turn of the counter.
PolledWhenDue ==
  /\ job.link = "none"
  /\ job.failures > 0 => Elapsed(at.attempt) \in Patience(job.failures)..(Wrap - 1)
  /\ \/ job.pending \/ job.needs
     \/ setup.interval > 0 /\ (at.poll = Never \/ Elapsed(at.poll) \in setup.interval..(Wrap - 1))
  => Wants(job)

\* However the advertisement flickers, the polls it asks for keep their distance.
\* Unless the last of them was when the counter read 0, which means never.
ChangesPolledSeldom ==
  [][at'.change # at.change /\ at.change # Never /\ Ms(at.change) # 0
     => Elapsed(at.change) >= ChangeMin]_vars

\* What counts as an activation is a burst of packets: since the last pause that was
\* longer than a burst allows there were MinPackets of them, wherever the counter
\* wraps - a silence of a whole turn of the counter is the one pause that may not
\* be seen.  And it is not another packet of the burst that was the last one, unless
\* that was when the counter read 0.
ActivationsAreBursts ==
  [][at'.activation # at.activation
     => /\ inRow' >= MinPackets
        /\ at.activation # Never /\ Ms(at.activation) # 0 => Elapsed(at.activation) >= Cooldown]_vars
=============================================================================
