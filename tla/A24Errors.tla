------------------------------ MODULE A24Errors ------------------------------
(***************************************************************************)
(* Trap Error of an A24, made from the trap's log of error records.        *)
(*                                                                         *)
(* A session reads the number of the newest record (E771), writes it back  *)
(* so that E772 returns that record, and judges it.  The trap also logs a  *)
(* record when it hangs up on the 0x02 that closes a session; any other    *)
(* kind turns Trap Error on, until the user clears it.                     *)
(***************************************************************************)
EXTENDS Integers, Sequences

CONSTANTS MaxRecords,  \* bound: the length of the trap's log
          Mishaps      \* bound: each of these happens at most once

ASSUME A24ErrorsAssumption ==
  /\ MaxRecords \in Nat \ {0}
  /\ Mishaps \subseteq {"reset", "restart", "power"}

VARIABLES
  trap,      \* its log of error records, and the one E772 returns
  mem,       \* trap_error_, and cache_.a24_errors_judged
  flash,     \* what flash holds of mem
  displayed, \* error_displayed_: the last E771 read since the restart
  ses,       \* the session: its next operation, the E771 it read, the record
             \* judged before it, and whether nothing of it has failed
  user,      \* the records Trap Error was turned on for, and those of them cleared
  happened   \* the mishaps so far

vars == <<trap, mem, flash, displayed, ses, user, happened>>

None    == -1
Kinds   == {"session end", "error"}
Numbers == 1..MaxRecords
Steps   == {"idle", "displayed", "select", "payload", "control"}
Idle    == [next |-> "idle", got |-> None, before |-> 0, whole |-> FALSE]

\* A trap just bound to the slot, with whatever it has logged.
Init ==
  /\ \E log \in UNION {[1..n -> Kinds] : n \in 0..MaxRecords} : trap = [log |-> log, cursor |-> 0]
  /\ mem = [error |-> "unknown", judged |-> 0]
  /\ flash = mem
  /\ displayed = None
  /\ ses = Idle
  /\ user = [shown |-> {}, cleared |-> {}]
  /\ happened = {}

Happens(mishap) == mishap \in Mishaps \ happened /\ happened' = happened \cup {mishap}

-----------------------------------------------------------------------------
(***************************************************************************)
(* The trap.  Whether E772 then returns a new record is not known.         *)
(***************************************************************************)
Logs(kind) ==
  /\ Len(trap.log) < MaxRecords
  /\ \E c \in {trap.cursor, Len(trap.log) + 1} :
       trap' = [log |-> Append(trap.log, kind), cursor |-> c]

TrapError ==
  /\ Logs("error")
  /\ ses' = IF ses.next \in {"select", "payload"} THEN [ses EXCEPT !.whole = FALSE] ELSE ses
  /\ UNCHANGED <<mem, flash, displayed, user, happened>>

\* The Goodnature app's session is ended the same way.
AppSession ==
  /\ ses.next = "idle" /\ Logs("session end")
  /\ UNCHANGED <<mem, flash, displayed, ses, user, happened>>

\* The log starts again.
Reset ==
  /\ Happens("reset") /\ ses.next = "idle"
  /\ trap' = [log |-> <<>>, cursor |-> 0]
  /\ ses' = Idle
  /\ user' = [shown |-> {}, cleared |-> {}]
  /\ UNCHANGED <<mem, flash, displayed>>

-----------------------------------------------------------------------------
(***************************************************************************)
(* The session (the error channel's part of push_a24_poll_ops_).  What     *)
(* cannot be read, or selected, is passed over.                            *)
(***************************************************************************)
\* Which record E772 returns before one is selected is not known.
Connect ==
  /\ ses.next = "idle"
  /\ ses' = [next |-> "displayed", got |-> None, before |-> mem.judged, whole |-> TRUE]
  /\ \E c \in 0..Len(trap.log) : trap' = [trap EXCEPT !.cursor = c]
  /\ UNCHANGED <<mem, flash, displayed, user, happened>>

LinkDown ==
  /\ ses.next # "idle"
  /\ ses' = Idle
  /\ UNCHANGED <<trap, mem, flash, displayed, user, happened>>

PassedOver(step, then) ==
  /\ ses.next = step
  /\ ses' = [ses EXCEPT !.next = then, !.whole = FALSE]
  /\ UNCHANGED <<trap, mem, flash, displayed, user, happened>>

\* With no records at all there is no error.
ReadDisplayed ==
  /\ ses.next = "displayed"
  /\ displayed' = Len(trap.log)
  /\ ses' = [ses EXCEPT !.next = "select", !.got = displayed']
  /\ mem' = IF displayed' = 0 /\ mem.error = "unknown" THEN [mem EXCEPT !.error = "off"] ELSE mem
  /\ UNCHANGED <<trap, flash, user, happened>>

Select ==
  /\ ses.next = "select" /\ ses.got # None
  /\ trap' = IF ses.got = 0 THEN trap ELSE [trap EXCEPT !.cursor = ses.got]
  /\ ses' = [ses EXCEPT !.next = "payload"]
  /\ UNCHANGED <<mem, flash, displayed, user, happened>>

\* judge_a24_error_ on record r, with `judged' the last one judged, or 0 if the
\* log restarted.
Judge(r, judged) ==
  LET raises == r > judged /\ trap.log[r] = "error" IN
  /\ mem' = [error  |-> IF raises THEN "on" ELSE IF mem.error = "unknown" THEN "off" ELSE mem.error,
             judged |-> r]
  /\ user' = IF raises THEN [user EXCEPT !.shown = @ \cup {r}] ELSE user

\* Mutant: whatever E772 returns is judged.
ReadPayloadAny ==
  /\ ses.next = "payload"
  /\ IF trap.cursor # 0
     THEN Judge(trap.cursor, IF trap.cursor < mem.judged THEN 0 ELSE mem.judged)
     ELSE UNCHANGED <<mem, user>>
  /\ ses' = [ses EXCEPT !.next = "control"]
  /\ UNCHANGED <<trap, flash, displayed, happened>>

\* Mutant: a log that restarted is not recognised.
ReadPayloadNoRestart ==
  /\ ses.next = "payload"
  /\ IF trap.cursor # 0 /\ trap.cursor = displayed
     THEN Judge(trap.cursor, mem.judged) ELSE UNCHANGED <<mem, user>>
  /\ ses' = [ses EXCEPT !.next = "control"]
  /\ UNCHANGED <<trap, flash, displayed, happened>>

\* Only a record that is the newest by E771, as last read, is judged.
ReadPayload ==
  /\ ses.next = "payload"
  /\ IF trap.cursor # 0 /\ trap.cursor = displayed
     THEN Judge(trap.cursor, IF trap.cursor < mem.judged THEN 0 ELSE mem.judged)
     ELSE UNCHANGED <<mem, user>>
  /\ ses' = [ses EXCEPT !.next = "control"]
  /\ UNCHANGED <<trap, flash, displayed, happened>>

\* The trap hangs up on 0x02: before the gateway does, and then logs it, or after.
Control ==
  /\ ses.next = "control"
  /\ Logs("session end") \/ UNCHANGED trap
  /\ ses' = [ses EXCEPT !.next = "idle"]
  /\ UNCHANGED <<mem, flash, displayed, user, happened>>

-----------------------------------------------------------------------------
(***************************************************************************)
(* The user and the gateway.  Every change is saved, and is in flash with  *)
(* the next sync.                                                          *)
(***************************************************************************)
ClearTrapError ==
  /\ mem.error # "off"
  /\ mem' = [mem EXCEPT !.error = "off"]
  /\ user' = [user EXCEPT !.cleared = user.shown]
  /\ UNCHANGED <<trap, flash, displayed, ses, happened>>

Sync ==
  /\ flash # mem
  /\ flash' = mem
  /\ UNCHANGED <<trap, mem, displayed, ses, user, happened>>

\* safe_reboot saves first.
Restart ==
  /\ Happens("restart")
  /\ flash' = mem
  /\ displayed' = None /\ ses' = Idle
  /\ UNCHANGED <<trap, mem, user>>

PowerLoss ==
  /\ Happens("power")
  /\ mem' = flash
  /\ displayed' = None /\ ses' = Idle
  /\ UNCHANGED <<trap, flash, user>>

Next ==
  \/ TrapError \/ AppSession \/ Reset
  \/ Connect \/ LinkDown
  \/ PassedOver("displayed", "select") \/ PassedOver("select", "payload")
  \/ PassedOver("payload", "control")
  \/ ReadDisplayed \/ Select \/ ReadPayload \/ Control
  \/ ClearTrapError \/ Sync \/ Restart \/ PowerLoss

Spec == Init /\ [][Next]_vars

-----------------------------------------------------------------------------
Mem  == [error : {"unknown", "off", "on"}, judged : 0..MaxRecords]
Read == {None} \cup (0..MaxRecords)

\* Every variable has its type, and E772 returns a record there is.
TypeOK ==
  /\ trap.log \in Seq(Kinds) /\ Len(trap.log) <= MaxRecords /\ trap.cursor \in 0..Len(trap.log)
  /\ trap = [log |-> trap.log, cursor |-> trap.cursor]
  /\ mem \in Mem /\ flash \in Mem /\ displayed \in Read
  /\ ses \in [next : Steps, got : Read, before : 0..MaxRecords, whole : BOOLEAN]
  /\ user \in [shown : SUBSET Numbers, cleared : SUBSET Numbers]
  /\ happened \subseteq Mishaps

\* Trap Error comes on only for an error the trap has logged and the gateway has
\* not turned it on for before: what the user cleared does not come back, whatever
\* of the session could not be read.  Unless the power is lost.
EachErrorOnce ==
  [][mem.error # "on" /\ mem'.error = "on" /\ "power" \notin happened'
     => /\ mem'.judged \in 1..Len(trap.log) \ user.shown
        /\ trap.log[mem'.judged] = "error"]_vars

\* After a session of which nothing failed, and no record came in between, the
\* record that was the newest has been judged: an error is on, or was cleared
\* since.  Unless the log restarted, and has just reached the same number.
NewestErrorShown ==
  ses.next = "idle" /\ ses.whole /\ ses.got > 0 /\ trap.log[ses.got] = "error"
  => \/ mem.error = "on" \/ ses.got \in user.cleared
     \/ "reset" \in happened /\ ses.before = ses.got

(***************************************************************************)
(* The inductive invariant (proved in A24ErrorsProofs).  Once a record of  *)
(* this log has been shown, no earlier number is judged; the last record   *)
(* judged has been dealt with, in memory and in flash; and so has the      *)
(* newest record of a session without a failure.                           *)
(***************************************************************************)
DealtWith(r, m) == r \in user.shown /\ (m.error = "on" \/ r \in user.cleared)

ShownBelowJudged ==
  user.shown # {} =>
    /\ \A r \in user.shown : r <= mem.judged
    /\ mem.judged <= Len(trap.log)
    /\ displayed = None \/ displayed >= mem.judged

Agrees(m) ==
  /\ m.judged <= Len(trap.log)
  /\ m.judged > 0 /\ trap.log[m.judged] = "error" => DealtWith(m.judged, m)

NewestJudged ==
  /\ ses.got # None => ses.got <= Len(trap.log)
  /\ ses.whole /\ ses.next \in {"select", "payload"} => ses.got = displayed /\ ses.got # None
  /\ ses.whole /\ ses.next \in {"displayed", "select", "payload"} => ses.before = mem.judged
  /\ ses.whole /\ ses.next = "payload" /\ ses.got > 0 => trap.cursor = ses.got
  /\ ses.whole /\ ses.next \in {"control", "idle"} /\ ses.got > 0 /\ trap.log[ses.got] = "error"
     => \/ DealtWith(ses.got, mem)
        \/ "reset" \in happened /\ ses.before = ses.got

IInv ==
  /\ TypeOK
  /\ user.cleared \subseteq user.shown
  /\ "power" \notin happened => ShownBelowJudged
  /\ "reset" \notin happened => Agrees(mem) /\ Agrees(flash)
  /\ NewestJudged
=============================================================================
