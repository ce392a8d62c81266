------------------------------ MODULE TrapJobs ------------------------------
(***************************************************************************)
(* What a GoodnatureTrap knows about its jobs, as a record, and its        *)
(* methods as functions from record to record.  A slot's binding (address) *)
(* survives a restart; everything else here is volatile.                   *)
(*                                                                         *)
(*   bound      the trap held by the slot (prefs_.address), or NoDev       *)
(*   pending    pending_job_          active     active_job_               *)
(*   delivered  command_delivered_    failures   consecutive_failures_     *)
(*   backoff    less than the retry delay has passed since the last        *)
(*              attempt; only matters, and is only kept, while failures>0  *)
(*   due        a poll is due on its own: never polled, interval elapsed,  *)
(*              or activation_needs_poll_                                  *)
(*   unanswered unanswered_types_                                          *)
(*   health     device state, charger and tray: "unknown" until read, "ok" *)
(*              or "bad" as test_fire_blocked sees them                    *)
(*   alert      kill_alert_           heard      last_seen_ms_ # 0         *)
(*                                                                         *)
(* History, read by the properties only:                                   *)
(*   attempts   sessions started for the pending job since the user (or    *)
(*              the gateway) last asked                                    *)
(*   acked      what is known of the command write: "session" - the trap   *)
(*              acknowledged it in the running session, "request" - and    *)
(*              the job is the pending one, "confirmed" - and the gateway  *)
(*              took note of it; asking for a job again clears these two   *)
(***************************************************************************)
EXTENDS Naturals, Script

CONSTANTS Devices,             \* the traps in radio range
          NoDev,               \* a slot that is not assigned
          ModelOf,             \* the model of each trap
          MaxFailuresTracked,  \* consecutive_failures_ saturates here (8)
          AutoAck              \* the "auto acknowledge" option

ASSUME TrapAssumption ==
  /\ NoDev \notin Devices
  /\ ModelOf \in [Devices -> Models]
  /\ MaxFailuresTracked \in Nat /\ MaxFailuresTracked >= 3
  /\ AutoAck \in BOOLEAN

GiveUpAfter == 3   \* failed sessions after which a requested action is dropped

TrapState ==
  [bound : Devices \cup {NoDev}, pending : Jobs, active : Jobs, delivered : BOOLEAN,
   failures : 0..MaxFailuresTracked, backoff : BOOLEAN, due : BOOLEAN,
   unanswered : SUBSET FrameTypes, health : {"unknown", "ok", "bad"}, alert : BOOLEAN,
   heard : BOOLEAN, attempts : Nat, acked : SUBSET {"session", "request", "confirmed"}]

\* reset_runtime_state_ on a slot bound to d.
Fresh(d) ==
  [bound |-> d, pending |-> "NONE", active |-> "NONE", delivered |-> FALSE,
   failures |-> 0, backoff |-> FALSE, due |-> FALSE, unanswered |-> {},
   health |-> "unknown", alert |-> FALSE, heard |-> FALSE, attempts |-> 0, acked |-> {}]

Unbound == Fresh(NoDev)
\* bind; a trap that was never polled is due.
BoundTo(d) == [Fresh(d) EXCEPT !.due = TRUE]

IsC20(r) == r.bound # NoDev /\ ModelOf[r.bound] = "C20"

\* Mutant: a trap that failed once is never tried again on its own.
WantsOnlyHealthy(r) ==
  /\ r.bound # NoDev
  /\ r.active = "NONE"
  /\ r.failures = 0
  /\ r.pending # "NONE" \/ r.due

\* wants_connection.
Wants(r) ==
  /\ r.bound # NoDev
  /\ r.active = "NONE"
  /\ ~(r.failures > 0 /\ r.backoff)
  /\ r.pending # "NONE" \/ r.due

\* The job maybe_connect_ starts.
NextJob(r) == IF r.pending # "NONE" THEN r.pending ELSE "POLL"

\* test_fire_blocked() # nullptr.
TestFireBlocked(r) == ~IsC20(r) \/ r.health # "ok" \/ r.alert

\* request_job of a bound slot.
Requested(r, job) ==
  [r EXCEPT !.pending = job, !.attempts = 0, !.acked = @ \ {"request", "confirmed"}]

\* clear_backoff: the button gives the action its own attempts.
BackoffCleared(r) == [r EXCEPT !.failures = 0, !.backoff = FALSE, !.attempts = 0]

\* on_job_started.
JobStarted(r, job) ==
  [r EXCEPT !.active = job, !.delivered = FALSE, !.acked = @ \ {"session"},
            !.attempts = IF r.pending # "NONE" THEN @ + 1 ELSE @]

\* Mutant: the acknowledged command stays queued.
CommandStaysPending(r, job) ==
  [r EXCEPT !.delivered = TRUE,
            !.acked = IF r.pending = job THEN @ \cup {"confirmed"} ELSE @]

\* on_command_delivered.
CommandDelivered(r, job) ==
  [r EXCEPT !.delivered = TRUE,
            !.acked = IF r.pending = job THEN @ \cup {"confirmed"} ELSE @,
            !.pending = IF @ = job THEN "NONE" ELSE @,
            !.attempts = IF r.pending = job THEN 0 ELSE @]

\* on_optional_unanswered.
OptionalUnanswered(r, type) == [r EXCEPT !.unanswered = @ \cup {type}]

\* on_job_finished when the session ended well: a pending job other than the
\* finished one stays; auto acknowledge may queue a CLEAR.
Succeeded(r, job) ==
  LET left == IF r.pending = job THEN "NONE" ELSE r.pending
      ack  == /\ AutoAck /\ IsC20(r) /\ job # "RESET_ALERT"
              /\ left = "NONE" /\ r.alert
      done == [r EXCEPT !.active = "NONE", !.failures = 0, !.backoff = FALSE, !.due = FALSE,
                        !.pending = left,
                        !.attempts = IF left = "NONE" THEN 0 ELSE @]
  IN  IF ack THEN Requested(done, "RESET_ALERT") ELSE done

\* Mutant: the third failure is not the last.
FailedOnceMore(r, job) ==
  LET n      == IF r.failures < MaxFailuresTracked THEN r.failures + 1 ELSE r.failures
      giveUp == r.failures >= GiveUpAfter
  IN  [r EXCEPT !.active = "NONE", !.failures = n, !.backoff = TRUE,
                !.pending = IF giveUp THEN "NONE" ELSE @,
                !.attempts = IF giveUp THEN 0 ELSE @]

\* on_job_finished when it did not: a requested job is given up on at the third
\* consecutive failure.
Failed(r, job) ==
  LET n      == IF r.failures < MaxFailuresTracked THEN r.failures + 1 ELSE r.failures
      giveUp == n >= GiveUpAfter
  IN  [r EXCEPT !.active = "NONE", !.failures = n, !.backoff = TRUE,
                !.pending = IF giveUp THEN "NONE" ELSE @,
                !.attempts = IF giveUp THEN 0 ELSE @]

JobFinished(r, job, ok) == IF ok THEN Succeeded(r, job) ELSE Failed(r, job)
=============================================================================
