--------------------------- MODULE A24ErrorsProofs ---------------------------
(***************************************************************************)
(* Proofs about A24Errors: every error is shown, and shown once, whatever  *)
(* the length of the trap's log and however many sessions there are.       *)
(***************************************************************************)
EXTENDS A24Errors, TLAPS

USE A24ErrorsAssumption

Traps    == [log : Seq(Kinds), cursor : Nat]
Sessions == [next : Steps, got : Read, before : 0..MaxRecords, whole : BOOLEAN]
Users    == [shown : SUBSET Numbers, cleared : SUBSET Numbers]

LEMMA Types ==
  TypeOK <=> /\ trap \in Traps /\ Len(trap.log) <= MaxRecords /\ trap.cursor <= Len(trap.log)
             /\ mem \in Mem /\ flash \in Mem /\ displayed \in Read
             /\ ses \in Sessions /\ user \in Users /\ happened \subseteq Mishaps
<1>1. ASSUME trap.log \in Seq(Kinds) PROVE Len(trap.log) \in Nat
  BY <1>1
<1> QED
  BY <1>1 DEF TypeOK, Traps, Sessions, Users

LEMMA IdleType == Idle \in Sessions /\ Idle.got = None /\ ~Idle.whole /\ Idle.next = "idle"
BY DEF Idle, Sessions, Steps, Read, None

-----------------------------------------------------------------------------
(***************************************************************************)
(* Facts about single steps.                                               *)
(***************************************************************************)
\* A record appended leaves those already in the log as they are.
LEMMA LogsFacts ==
  ASSUME TypeOK, NEW kind \in Kinds, Logs(kind)
  PROVE  /\ trap' \in Traps /\ Len(trap'.log) = Len(trap.log) + 1
         /\ Len(trap'.log) <= MaxRecords /\ trap'.cursor <= Len(trap'.log)
         /\ \A r \in 1..Len(trap.log) : trap'.log[r] = trap.log[r]
<1>1. trap \in Traps /\ trap.cursor <= Len(trap.log)
  BY Types
<1>2. trap.log \in Seq(Kinds) /\ Len(trap.log) \in Nat /\ trap.cursor \in Nat
  BY <1>1 DEF Traps
<1>3. PICK c \in {trap.cursor, Len(trap.log) + 1} : trap' = [log |-> Append(trap.log, kind), cursor |-> c]
  BY DEF Logs
<1>4. /\ Append(trap.log, kind) \in Seq(Kinds) /\ Len(Append(trap.log, kind)) = Len(trap.log) + 1
      /\ \A r \in 1..Len(trap.log) : Append(trap.log, kind)[r] = trap.log[r]
  BY <1>2
<1>5. c \in Nat /\ c <= Len(trap.log) + 1
  BY <1>1, <1>2
<1>6. Len(trap.log) + 1 <= MaxRecords
  BY <1>2 DEF Logs
<1> QED
  BY <1>3, <1>4, <1>5, <1>6 DEF Traps

LEMMA NotReset == ASSUME TypeOK, NEW kind \in Kinds, Logs(kind) PROVE ~Reset
<1>1. trap.log \in Seq(Kinds) /\ Len(trap.log) \in Nat
  BY Types DEF Traps
<1>2. Len(trap'.log) = Len(trap.log) + 1
  BY LogsFacts
<1>3. ASSUME Reset PROVE Len(trap'.log) = 0
  <2>1. trap'.log = <<>>
    BY <1>3 DEF Reset
  <2> QED
    BY <2>1
<1> QED
  BY <1>1, <1>2, <1>3

\* What ReadPayload does: nothing, or the record E772 returns, which is the
\* newest by E771, is judged.
LEMMA JudgeFacts ==
  ASSUME TypeOK, ReadPayload
  PROVE  \/ /\ UNCHANGED <<mem, user>>
            /\ ~(trap.cursor > 0 /\ trap.cursor = displayed)
         \/ /\ trap.cursor = displayed /\ displayed \in 1..Len(trap.log) /\ displayed \in Numbers
            /\ mem' \in Mem /\ mem'.judged = displayed
            /\ \/ /\ trap.log[displayed] = "error" /\ displayed # mem.judged
                  /\ mem'.error = "on" /\ user' = [user EXCEPT !.shown = @ \cup {displayed}]
               \/ /\ trap.log[displayed] = "error" => displayed = mem.judged
                  /\ mem'.error = (IF mem.error = "unknown" THEN "off" ELSE mem.error)
                  /\ user' = user
<1>1. /\ trap.cursor \in Nat /\ Len(trap.log) \in Nat /\ trap.cursor <= Len(trap.log)
      /\ Len(trap.log) <= MaxRecords /\ mem \in Mem
  BY Types DEF Traps
<1>2. CASE trap.cursor # 0 /\ trap.cursor = displayed
  <2> DEFINE last   == IF trap.cursor < mem.judged THEN 0 ELSE mem.judged
             raises == trap.cursor > last /\ trap.log[trap.cursor] = "error"
  <2>1. /\ mem' = [error  |-> IF raises THEN "on" ELSE IF mem.error = "unknown" THEN "off" ELSE mem.error,
                   judged |-> trap.cursor]
        /\ user' = IF raises THEN [user EXCEPT !.shown = @ \cup {trap.cursor}] ELSE user
    BY <1>2 DEF ReadPayload, Judge
  <2>2. mem.judged \in 0..MaxRecords /\ mem.error \in {"unknown", "off", "on"}
    BY <1>1 DEF Mem
  <2>3. displayed \in 1..Len(trap.log) /\ displayed \in Numbers
    BY <1>1, <1>2 DEF Numbers
  <2>4. mem' \in Mem /\ mem'.judged = displayed
    BY <1>2, <2>1, <2>2, <2>3 DEF Mem, Numbers
  <2>5. CASE raises
    <3>1. displayed # mem.judged
      BY <1>1, <1>2, <2>2, <2>5
    <3> QED
      BY <1>2, <2>1, <2>3, <2>4, <2>5, <3>1
  <2>6. CASE ~raises
    <3>1. trap.log[displayed] = "error" => displayed = mem.judged
      BY <1>1, <1>2, <2>2, <2>6
    <3> QED
      BY <1>2, <2>1, <2>3, <2>4, <2>6, <3>1
  <2> QED
    BY <2>5, <2>6
<1>3. CASE ~(trap.cursor # 0 /\ trap.cursor = displayed)
  BY <1>1, <1>3 DEF ReadPayload
<1> QED
  BY <1>2, <1>3

-----------------------------------------------------------------------------
LEMMA InitInv == Init => IInv
<1> SUFFICES ASSUME Init PROVE IInv
  OBVIOUS
<1>1. PICK n \in 0..MaxRecords : \E log \in [1..n -> Kinds] : trap = [log |-> log, cursor |-> 0]
  BY DEF Init
<1>2. PICK log \in [1..n -> Kinds] : trap = [log |-> log, cursor |-> 0]
  BY <1>1
<1>3. log \in Seq(Kinds) /\ Len(log) = n
  BY <1>2
<1>4. trap \in Traps /\ Len(trap.log) <= MaxRecords /\ trap.cursor <= Len(trap.log) /\ Len(trap.log) \in Nat
  BY <1>2, <1>3 DEF Traps
<1>5. mem \in Mem /\ flash \in Mem /\ displayed \in Read /\ user \in Users /\ happened = {}
      /\ user.shown = {} /\ user.cleared = {} /\ mem.judged = 0 /\ flash.judged = 0
  BY DEF Init, Mem, Read, Users
<1>6. ses \in Sessions /\ ses.got = None /\ ~ses.whole
  BY IdleType DEF Init
<1>7. TypeOK
  BY <1>4, <1>5, <1>6, Types
<1>8. NewestJudged
  BY <1>6 DEF NewestJudged
<1>9. Agrees(mem) /\ Agrees(flash)
  BY <1>4, <1>5 DEF Agrees
<1> QED
  BY <1>5, <1>7, <1>8, <1>9 DEF IInv, ShownBelowJudged

-----------------------------------------------------------------------------
(***************************************************************************)
(* The types.                                                              *)
(***************************************************************************)
LEMMA TypeStep == TypeOK /\ NewestJudged /\ [Next]_vars => TypeOK'
<1> SUFFICES ASSUME TypeOK, NewestJudged, [Next]_vars PROVE TypeOK'
  OBVIOUS
<1>1. /\ trap \in Traps /\ Len(trap.log) <= MaxRecords /\ trap.cursor <= Len(trap.log)
      /\ mem \in Mem /\ flash \in Mem /\ displayed \in Read
      /\ ses \in Sessions /\ user \in Users /\ happened \subseteq Mishaps
  BY Types
<1>2. Len(trap.log) \in Nat /\ Len(trap.log) \in 0..MaxRecords
  BY <1>1 DEF Traps
<1>3. SUFFICES /\ trap' \in Traps /\ Len(trap'.log) <= MaxRecords /\ trap'.cursor <= Len(trap'.log)
               /\ mem' \in Mem /\ flash' \in Mem /\ displayed' \in Read
               /\ ses' \in Sessions /\ user' \in Users /\ happened' \subseteq Mishaps
  BY Types DEF TypeOK, Traps, Sessions, Users
<1>4. CASE TrapError
  <2>1. ses' \in Sessions
    BY <1>1, <1>4 DEF TrapError, Sessions
  <2> QED
    BY <1>1, <1>4, <2>1, LogsFacts DEF TrapError, Kinds
<1>5. CASE AppSession
  BY <1>1, <1>5, LogsFacts DEF AppSession, Kinds
<1>6. CASE Reset
  <2>1. trap' = [log |-> <<>>, cursor |-> 0] /\ <<>> \in Seq(Kinds) /\ Len(<<>>) = 0
    BY <1>6 DEF Reset
  <2>2. trap' \in Traps /\ Len(trap'.log) <= MaxRecords /\ trap'.cursor <= Len(trap'.log)
    BY <2>1 DEF Traps
  <2>3. user' \in Users /\ ses' \in Sessions
    BY <1>6, IdleType DEF Reset, Users
  <2> QED
    BY <1>1, <1>6, <2>2, <2>3 DEF Reset, Happens
<1>7. CASE Connect
  <2>1. PICK c \in 0..Len(trap.log) : trap' = [trap EXCEPT !.cursor = c]
    BY <1>7 DEF Connect
  <2>2. trap' \in Traps /\ trap'.log = trap.log /\ trap'.cursor = c /\ c <= Len(trap.log)
    BY <1>1, <1>2, <2>1 DEF Traps
  <2>3. ses' \in Sessions
    BY <1>1, <1>7 DEF Connect, Sessions, Steps, Read, Mem
  <2> QED
    BY <1>1, <1>7, <2>2, <2>3 DEF Connect
<1>8. CASE LinkDown
  BY <1>1, <1>8, IdleType DEF LinkDown
<1>9. ASSUME NEW step \in Steps, NEW then \in Steps, PassedOver(step, then) PROVE <1>3!1
  BY <1>1, <1>9 DEF PassedOver, Sessions
<1>10. CASE ReadDisplayed
  <2>1. displayed' \in Read /\ mem' \in Mem
    BY <1>1, <1>2, <1>10 DEF ReadDisplayed, Read, Mem
  <2>2. ses' \in Sessions
    BY <1>1, <1>10, <2>1 DEF ReadDisplayed, Sessions, Steps
  <2> QED
    BY <1>1, <1>10, <2>1, <2>2 DEF ReadDisplayed
<1>11. CASE Select
  <2>1. ses.got \in 0..MaxRecords \/ ses.got = None
    BY <1>1 DEF Sessions, Read
  <2>2. ses.got \in 0..Len(trap.log)
    BY <1>2, <1>11, <2>1 DEF Select, NewestJudged, None
  <2>3. ses' \in Sessions
    BY <1>1, <1>11 DEF Select, Sessions, Steps
  <2> QED
    BY <1>1, <1>11, <2>2, <2>3 DEF Select, Traps
<1>12. CASE ReadPayload
  <2>1. mem' \in Mem /\ user' \in Users
    BY <1>1, <1>12, JudgeFacts DEF Users
  <2>2. ses' \in Sessions
    BY <1>1, <1>12 DEF ReadPayload, Sessions, Steps
  <2> QED
    BY <1>1, <1>12, <2>1, <2>2 DEF ReadPayload
<1>13. CASE Control
  <2>1. ses' \in Sessions
    BY <1>1, <1>13 DEF Control, Sessions, Steps
  <2>2. CASE Logs("session end")
    BY <1>1, <1>13, <2>1, <2>2, LogsFacts DEF Control, Kinds
  <2>3. CASE UNCHANGED trap
    BY <1>1, <1>13, <2>1, <2>3 DEF Control
  <2> QED
    BY <1>13, <2>2, <2>3 DEF Control
<1>14. CASE ClearTrapError
  BY <1>1, <1>14 DEF ClearTrapError, Mem, Users
<1>15. CASE Sync
  BY <1>1, <1>15 DEF Sync
<1>16. CASE Restart
  BY <1>1, <1>16, IdleType DEF Restart, Happens, Read
<1>17. CASE PowerLoss
  BY <1>1, <1>17, IdleType DEF PowerLoss, Happens, Read
<1>18. CASE UNCHANGED vars
  BY <1>1, <1>18 DEF vars
<1> QED
  BY <1>4, <1>5, <1>6, <1>7, <1>8, <1>9, <1>10, <1>11, <1>12, <1>13, <1>14, <1>15, <1>16, <1>17,
     <1>18 DEF Next, Steps

-----------------------------------------------------------------------------
(***************************************************************************)
(* The other conjuncts.                                                    *)
(***************************************************************************)
LEMMA ClearedStep ==
  ASSUME TypeOK, user.cleared \subseteq user.shown, [Next]_vars
  PROVE  user'.cleared \subseteq user'.shown
<1>1. user \in Users
  BY Types
<1>2. CASE Reset
  BY <1>2 DEF Reset
<1>3. CASE ReadPayload
  BY <1>1, <1>3, JudgeFacts DEF Users
<1>4. CASE ClearTrapError
  BY <1>1, <1>4 DEF ClearTrapError, Users
<1>5. CASE UNCHANGED user
  BY <1>5
<1> QED
  BY <1>2, <1>3, <1>4, <1>5 DEF Next, vars, TrapError, AppSession, Connect, LinkDown, PassedOver,
     ReadDisplayed, Select, Control, Sync, Restart, PowerLoss

\* What a step leaves of the log, unless the trap resets.
LEMMA LogStep ==
  ASSUME TypeOK, [Next]_vars, ~Reset
  PROVE  /\ Len(trap.log) \in Nat /\ Len(trap'.log) \in Nat /\ Len(trap'.log) >= Len(trap.log)
         /\ \A r \in 1..Len(trap.log) : trap'.log[r] = trap.log[r]
<1>1. trap \in Traps /\ trap.log \in Seq(Kinds) /\ Len(trap.log) \in Nat
  BY Types DEF Traps
<1>2. ASSUME NEW kind \in Kinds, Logs(kind)
      PROVE  /\ Len(trap'.log) = Len(trap.log) + 1
             /\ \A r \in 1..Len(trap.log) : trap'.log[r] = trap.log[r]
  BY <1>2, LogsFacts
<1>3. CASE trap'.log = trap.log
  BY <1>1, <1>3
<1>4. CASE Connect \/ Select
  <2>1. trap'.log = trap.log
    BY <1>1, <1>4 DEF Connect, Select, Traps
  <2> QED
    BY <1>3, <2>1
<1>5. CASE Logs("error") \/ Logs("session end")
  <2>1. "error" \in Kinds /\ "session end" \in Kinds
    BY DEF Kinds
  <2>2. PICK kind \in Kinds : Logs(kind)
    BY <1>5, <2>1, Zenon
  <2>3. /\ Len(trap'.log) = Len(trap.log) + 1
        /\ \A r \in 1..Len(trap.log) : trap'.log[r] = trap.log[r]
    BY <1>2, <2>2, Zenon
  <2>4. Len(trap'.log) \in Nat /\ Len(trap'.log) >= Len(trap.log)
    BY <1>1, <2>3
  <2> QED
    BY <1>1, <2>3, <2>4, Zenon
<1> QED
  BY <1>3, <1>4, <1>5 DEF Next, vars, TrapError, AppSession, LinkDown, PassedOver,
     ReadDisplayed, ReadPayload, Control, ClearTrapError, Sync, Restart, PowerLoss

LEMMA ShownStep ==
  ASSUME TypeOK, [Next]_vars, TypeOK',
         "power" \notin happened => ShownBelowJudged, "power" \notin happened'
  PROVE  ShownBelowJudged'
<1>1. /\ Len(trap.log) \in Nat /\ mem \in Mem /\ displayed \in Read /\ user \in Users
      /\ user' \in Users /\ mem' \in Mem
  <2>1. trap.log \in Seq(Kinds) /\ Len(trap.log) \in Nat
    BY Types DEF Traps
  <2> QED
    BY <2>1, Types DEF TypeOK, Users
<1>2. ShownBelowJudged /\ mem.judged \in Nat /\ user.shown \subseteq Numbers
  <2>1. "power" \notin happened
    BY DEF Next, vars, TrapError, AppSession, Reset, Connect, LinkDown, PassedOver, ReadDisplayed,
           Select, ReadPayload, Control, ClearTrapError, Sync, Restart, PowerLoss, Happens
  <2> QED
    BY <1>1, <2>1 DEF Mem, Users
<1>3. CASE Reset
  BY <1>3 DEF Reset, ShownBelowJudged
<1>4. ASSUME ~Reset, user'.shown = user.shown, mem'.judged = mem.judged,
             displayed' = displayed \/ displayed' = None \/ displayed' = Len(trap.log)
      PROVE  ShownBelowJudged'
  <2>1. Len(trap'.log) >= Len(trap.log) /\ Len(trap'.log) \in Nat
    BY <1>4, LogStep
  <2> QED
    BY <1>1, <1>2, <1>4, <2>1 DEF ShownBelowJudged
<1>5. CASE ReadPayload
  <2>1. UNCHANGED <<trap, displayed>>
    BY <1>5 DEF ReadPayload
  <2>2. CASE UNCHANGED <<mem, user>>
    BY <1>2, <2>1, <2>2 DEF ShownBelowJudged
  <2>3. CASE ~UNCHANGED <<mem, user>>
    <3>1. /\ displayed \in 1..Len(trap.log) /\ mem'.judged = displayed
          /\ user'.shown \subseteq user.shown \cup {displayed}
      BY <1>1, <1>5, <2>3, JudgeFacts DEF Users
    <3>2. \A r \in user.shown : r \in Nat /\ r <= displayed
      BY <1>1, <1>2, <3>1 DEF ShownBelowJudged, None, Numbers
    <3> QED
      BY <2>1, <3>1, <3>2 DEF ShownBelowJudged
  <2> QED
    BY <2>2, <2>3
<1>6. CASE ReadDisplayed
  <2>1. mem'.judged = mem.judged
    BY <1>1, <1>6 DEF ReadDisplayed, Mem
  <2>2. ~Reset \/ Reset
    OBVIOUS
  <2> QED
    BY <1>3, <1>4, <1>6, <2>1, <2>2 DEF ReadDisplayed
<1>7. CASE ClearTrapError
  <2>1. mem'.judged = mem.judged /\ user'.shown = user.shown
    BY <1>1, <1>7 DEF ClearTrapError, Mem, Users
  <2> QED
    BY <1>3, <1>4, <1>7, <2>1 DEF ClearTrapError
<1>8. CASE PowerLoss
  BY <1>8 DEF PowerLoss, Happens
<1>9. CASE UNCHANGED <<user, mem>> /\ displayed' \in {displayed, None}
  BY <1>3, <1>4, <1>9
<1> QED
  BY <1>3, <1>5, <1>6, <1>7, <1>8, <1>9 DEF Next, vars, TrapError, AppSession, Connect, LinkDown,
     PassedOver, Select, Control, Sync, Restart

\* Memory agrees with the log after a step that leaves the last record judged,
\* unless it turns an error off that nobody has cleared.
LEMMA AgreesKept ==
  ASSUME TypeOK, [Next]_vars, ~Reset, NEW m \in Mem, NEW n \in Mem, Agrees(m),
         n.judged = m.judged, user.shown \subseteq user'.shown, user.cleared \subseteq user'.cleared,
         m.error = "on" => n.error = "on" \/ user.shown \subseteq user'.cleared
  PROVE  Agrees(n)'
<1>1. /\ Len(trap.log) \in Nat /\ Len(trap'.log) \in Nat /\ Len(trap'.log) >= Len(trap.log)
      /\ \A r \in 1..Len(trap.log) : trap'.log[r] = trap.log[r]
  BY LogStep
<1>2. m.judged \in Nat
  BY DEF Mem
<1> QED
  BY <1>1, <1>2 DEF Agrees, DealtWith

LEMMA AgreesStep ==
  ASSUME TypeOK, [Next]_vars, user.cleared \subseteq user.shown,
         "reset" \notin happened => Agrees(mem) /\ Agrees(flash), "reset" \notin happened'
  PROVE  (Agrees(mem) /\ Agrees(flash))'
<1>1. /\ mem \in Mem /\ flash \in Mem /\ user \in Users /\ displayed \in Read
  BY Types
<1>2. Agrees(mem) /\ Agrees(flash) /\ ~Reset
  BY DEF Next, vars, TrapError, AppSession, Reset, Connect, LinkDown, PassedOver, ReadDisplayed,
         Select, ReadPayload, Control, ClearTrapError, Sync, Restart, PowerLoss, Happens
<1>3. ASSUME mem' \in {mem, flash}, flash' \in {mem, flash}, UNCHANGED user
      PROVE  (Agrees(mem) /\ Agrees(flash))'
  <2>1. Agrees(mem)' /\ Agrees(flash)' <=> \A m \in {mem', flash'} : Agrees(m)'
    BY DEF Agrees, DealtWith
  <2> QED
    BY <1>1, <1>2, <1>3, AgreesKept
<1>4. CASE ReadDisplayed
  <2>1. mem' \in Mem /\ mem'.judged = mem.judged /\ (mem.error = "on" => mem'.error = "on")
    BY <1>1, <1>4 DEF ReadDisplayed, Mem
  <2>2. UNCHANGED <<flash, user>>
    BY <1>4 DEF ReadDisplayed
  <2> QED
    BY <1>1, <1>2, <2>1, <2>2, AgreesKept
<1>5. CASE ReadPayload
  <2>1. UNCHANGED <<trap, flash>>
    BY <1>5 DEF ReadPayload
  <2>2. CASE UNCHANGED <<mem, user>>
    BY <1>3, <2>1, <2>2
  <2>3. CASE ~UNCHANGED <<mem, user>>
    <3>1. user.shown \subseteq user'.shown /\ user'.cleared = user.cleared
      BY <1>1, <1>5, JudgeFacts DEF Users
    <3>2. Agrees(flash)'
      BY <1>2, <2>1, <3>1 DEF Agrees, DealtWith
    <3>3. Agrees(mem)'
      <4>1. displayed \in 1..Len(trap.log) /\ mem'.judged = displayed
        BY <1>5, <2>3, JudgeFacts
      <4>2. CASE mem'.error = "on" /\ user' = [user EXCEPT !.shown = @ \cup {displayed}]
        BY <1>1, <2>1, <4>1, <4>2 DEF Agrees, DealtWith, Users
      <4>3. CASE /\ trap.log[displayed] = "error" => displayed = mem.judged
                 /\ mem'.error = (IF mem.error = "unknown" THEN "off" ELSE mem.error)
                 /\ user' = user
        BY <1>2, <2>1, <4>1, <4>3 DEF Agrees, DealtWith
      <4> QED
        BY <1>5, <2>3, <4>2, <4>3, JudgeFacts
    <3> QED
      BY <3>2, <3>3
  <2> QED
    BY <2>2, <2>3
<1>6. CASE ClearTrapError
  <2>1. /\ mem' \in Mem /\ mem'.judged = mem.judged /\ flash' = flash
        /\ user'.shown = user.shown /\ user'.cleared = user.shown
    BY <1>1, <1>6 DEF ClearTrapError, Mem, Users
  <2> QED
    BY <1>1, <1>2, <2>1, AgreesKept
<1> QED
  BY <1>2, <1>3, <1>4, <1>5, <1>6 DEF Next, vars, TrapError, AppSession, Connect, LinkDown,
     PassedOver, Select, Control, Sync, Restart, PowerLoss

-----------------------------------------------------------------------------
(***************************************************************************)
(* The newest record of a session is dealt with.                           *)
(***************************************************************************)
\* Steps that neither read nor judge, in a session that stays where it is.
LEMMA NewestKept ==
  ASSUME TypeOK, [Next]_vars, NewestJudged, ~Reset, UNCHANGED ses,
         ses.next \in {"control", "idle"} \/ ~ses.whole \/ ses.next = "displayed"
           \/ UNCHANGED <<trap, displayed>>,
         mem'.judged = mem.judged, happened \subseteq happened',
         user.shown \subseteq user'.shown, user.cleared \subseteq user'.cleared,
         mem.error = "on" => mem'.error = "on" \/ user.shown \subseteq user'.cleared
  PROVE  NewestJudged'
<1>1. /\ Len(trap.log) \in Nat /\ Len(trap'.log) \in Nat /\ Len(trap'.log) >= Len(trap.log)
      /\ \A r \in 1..Len(trap.log) : trap'.log[r] = trap.log[r]
  BY LogStep
<1>2. ses.got \in Nat \/ ses.got = None
  BY Types DEF Sessions, Read
<1>3. ses.got > 0 => ses.got \in 1..Len(trap.log)
  BY <1>1, <1>2 DEF NewestJudged, None
<1>4. (ses.got # None => ses.got <= Len(trap.log))'
  BY <1>1, <1>2 DEF NewestJudged, None
<1>5. (ses.whole /\ ses.next \in {"control", "idle"} /\ ses.got > 0 /\ trap.log[ses.got] = "error"
       => \/ DealtWith(ses.got, mem)
          \/ "reset" \in happened /\ ses.before = ses.got)'
  BY <1>1, <1>3 DEF NewestJudged, DealtWith
<1>6. (ses.whole /\ ses.next \in {"select", "payload"} => ses.got = displayed /\ ses.got # None)'
  BY DEF NewestJudged
<1>7. (ses.whole /\ ses.next \in {"displayed", "select", "payload"} => ses.before = mem.judged)'
  BY DEF NewestJudged
<1>8. (ses.whole /\ ses.next = "payload" /\ ses.got > 0 => trap.cursor = ses.got)'
  BY DEF NewestJudged
<1> QED
  BY <1>4, <1>5, <1>6, <1>7, <1>8 DEF NewestJudged

\* A session that is over, or of which something failed.
LEMMA NewestOver ==
  ASSUME ses'.got = None \/ (ses'.got = ses.got /\ ses'.got <= Len(trap'.log)), ~ses'.whole
  PROVE  NewestJudged'
BY DEF NewestJudged

LEMMA NewestStep ==
  ASSUME TypeOK, TypeOK', [Next]_vars, NewestJudged, user.cleared \subseteq user.shown,
         "reset" \notin happened => Agrees(mem) /\ Agrees(flash)
  PROVE  NewestJudged'
<1>1. /\ trap \in Traps /\ mem \in Mem /\ ses \in Sessions /\ user \in Users /\ displayed \in Read
      /\ Len(trap.log) \in Nat
  <2>1. trap \in Traps /\ trap.log \in Seq(Kinds)
    BY Types DEF Traps
  <2> QED
    BY <2>1, Types
<1>2. CASE Reset \/ LinkDown \/ Restart \/ PowerLoss
  <2>1. ses' = Idle
    BY <1>2 DEF Reset, LinkDown, Restart, PowerLoss
  <2> QED
    BY <2>1, IdleType, NewestOver
<1>3. CASE TrapError
  <2>1. /\ Len(trap'.log) \in Nat /\ Len(trap'.log) >= Len(trap.log) /\ ~Reset
        /\ UNCHANGED <<mem, flash, displayed, user, happened>>
    <3>1. ~Reset
      BY <1>3, NotReset DEF TrapError, Kinds
    <3> QED
      BY <1>3, <3>1, LogStep DEF TrapError
  <2>2. CASE ses.next \in {"select", "payload"}
    <3>1. ses'.got = ses.got /\ ~ses'.whole
      BY <1>1, <1>3, <2>2 DEF TrapError, Sessions
    <3>2. ses'.got = None \/ ses'.got <= Len(trap'.log)
      BY <1>1, <2>1, <3>1 DEF NewestJudged, Sessions, Read
    <3> QED
      BY <3>1, <3>2, NewestOver
  <2>3. CASE ses.next \notin {"select", "payload"}
    <3>1. UNCHANGED ses /\ ses.next \in {"control", "idle", "displayed"}
      BY <1>1, <1>3, <2>3 DEF TrapError, Sessions, Steps
    <3> QED
      BY <2>1, <3>1, NewestKept
  <2> QED
    BY <2>2, <2>3
<1>4. CASE AppSession
  <2>1. ~Reset
    BY <1>4, NotReset DEF AppSession, Kinds
  <2> QED
    BY <1>4, <2>1, NewestKept DEF AppSession
<1>5. CASE Connect
  BY <1>1, <1>5 DEF Connect, NewestJudged, None
<1>6. ASSUME NEW step \in Steps, NEW then \in Steps, PassedOver(step, then) PROVE NewestJudged'
  <2>1. ses'.got = ses.got /\ ~ses'.whole /\ trap' = trap
    BY <1>1, <1>6 DEF PassedOver, Sessions
  <2> QED
    BY <2>1, NewestOver DEF NewestJudged
<1>7. CASE ReadDisplayed
  <2>1. /\ ses' = [ses EXCEPT !.next = "select", !.got = displayed'] /\ displayed' = Len(trap.log)
        /\ UNCHANGED trap /\ mem'.judged = mem.judged /\ ses.next = "displayed"
    BY <1>1, <1>7 DEF ReadDisplayed, Mem
  <2>2. /\ ses'.next = "select" /\ ses'.got = displayed' /\ ses'.before = ses.before
        /\ ses'.whole = ses.whole
    BY <1>1, <2>1 DEF Sessions
  <2> QED
    BY <1>1, <2>1, <2>2 DEF NewestJudged, None
<1>8. CASE Select
  <2>1. /\ ses'.next = "payload" /\ ses'.got = ses.got /\ ses'.before = ses.before
        /\ ses'.whole = ses.whole /\ ses.next = "select"
        /\ UNCHANGED <<mem, displayed, user, happened>>
    BY <1>1, <1>8 DEF Select, Sessions
  <2>2. trap'.log = trap.log /\ (ses.got # 0 => trap'.cursor = ses.got)
    BY <1>1, <1>8 DEF Select, Traps
  <2> QED
    BY <1>1, <2>1, <2>2 DEF NewestJudged, Sessions, Read, None
<1>9. CASE ReadPayload
  <2>1. /\ ses'.next = "control" /\ ses'.got = ses.got /\ ses'.before = ses.before
        /\ ses'.whole = ses.whole /\ ses.next = "payload"
        /\ UNCHANGED <<trap, displayed, happened>>
    BY <1>1, <1>9 DEF ReadPayload, Sessions
  <2>2. ASSUME ses.whole, ses.got > 0, trap.log[ses.got] = "error"
        PROVE  \/ DealtWith(ses.got, mem)'
               \/ "reset" \in happened /\ ses.before = ses.got
    <3>1. trap.cursor = ses.got /\ displayed = ses.got /\ ses.before = mem.judged
      BY <2>1, <2>2 DEF NewestJudged
    <3>2. mem'.judged = displayed
      BY <2>2, <3>1, JudgeFacts, <1>9
    <3>3. CASE /\ mem'.error = "on" /\ user' = [user EXCEPT !.shown = @ \cup {displayed}]
      BY <1>1, <2>1, <3>1, <3>3 DEF DealtWith, Users
    <3>4. CASE /\ displayed = mem.judged
               /\ mem'.error = (IF mem.error = "unknown" THEN "off" ELSE mem.error)
               /\ user' = user
      BY <1>1, <2>1, <2>2, <3>1, <3>4 DEF Agrees, DealtWith
    <3> QED
      BY <1>9, <2>2, <3>1, <3>3, <3>4, JudgeFacts
  <2> QED
    BY <2>1, <2>2 DEF NewestJudged, DealtWith
<1>10. CASE Control
  <2>1. /\ ses'.next = "idle" /\ ses'.got = ses.got /\ ses'.before = ses.before
        /\ ses'.whole = ses.whole /\ ses.next = "control"
        /\ UNCHANGED <<mem, displayed, user, happened>>
    BY <1>1, <1>10 DEF Control, Sessions
  <2>2. /\ Len(trap'.log) \in Nat /\ Len(trap'.log) >= Len(trap.log)
        /\ \A r \in 1..Len(trap.log) : trap'.log[r] = trap.log[r]
    <3>1. ~Reset
      BY <1>10 DEF Control, Reset
    <3> QED
      BY <3>1, LogStep
  <2>3. ses.got # None => ses.got <= Len(trap.log) /\ ses.got \in Nat
    BY <1>1 DEF NewestJudged, Sessions, Read
  <2>4. ses.got > 0 => ses.got \in 1..Len(trap.log)
    BY <1>1, <2>3 DEF None
  <2> QED
    BY <1>1, <2>1, <2>2, <2>3, <2>4 DEF NewestJudged, DealtWith, None
<1>11. CASE ClearTrapError
  <2>1. /\ mem'.judged = mem.judged /\ user'.shown = user.shown /\ user'.cleared = user.shown
        /\ UNCHANGED <<trap, displayed, ses, happened>>
    BY <1>1, <1>11 DEF ClearTrapError, Mem, Users
  <2> QED
    BY <2>1 DEF NewestJudged, DealtWith
<1>12. CASE Sync \/ UNCHANGED vars
  <2>1. UNCHANGED <<trap, mem, displayed, ses, user, happened>>
    BY <1>12 DEF Sync, vars
  <2> QED
    BY <2>1 DEF NewestJudged, DealtWith
<1> QED
  BY <1>2, <1>3, <1>4, <1>5, <1>6, <1>7, <1>8, <1>9, <1>10, <1>11, <1>12 DEF Next, Steps

-----------------------------------------------------------------------------
(***************************************************************************)
(* The theorems.                                                           *)
(***************************************************************************)
LEMMA StepInv == IInv /\ [Next]_vars => IInv'
<1> SUFFICES ASSUME IInv, [Next]_vars PROVE IInv'
  OBVIOUS
<1>1. TypeOK /\ NewestJudged /\ user.cleared \subseteq user.shown
  BY DEF IInv
<1>2. TypeOK'
  BY <1>1, TypeStep
<1>3. (user.cleared \subseteq user.shown)'
  BY <1>1, ClearedStep
<1>4. ("power" \notin happened => ShownBelowJudged)'
  BY <1>1, <1>2, ShownStep DEF IInv
<1>5. ("reset" \notin happened => Agrees(mem) /\ Agrees(flash))'
  BY <1>1, AgreesStep DEF IInv
<1>6. NewestJudged'
  BY <1>1, <1>2, NewestStep DEF IInv
<1> QED
  BY <1>2, <1>3, <1>4, <1>5, <1>6 DEF IInv

\* The inductive invariant of judging the error records, with the types, holds
\* in every reachable state.
THEOREM InvariantHolds == Spec => []IInv
<1>1. Init => IInv
  BY InitInv
<1>2. IInv /\ [Next]_vars => IInv'
  BY StepInv
<1> QED
  BY <1>1, <1>2, PTL DEF Spec

\* After a session of which nothing failed, the error that was the newest record
\* is on, or was cleared since, unless the log restarted and has just reached the
\* same number (judge_a24_error_).
THEOREM NewestErrorShownHolds == Spec => []NewestErrorShown
<1>1. IInv => NewestErrorShown
  BY DEF IInv, NewestJudged, NewestErrorShown, DealtWith
<1> QED
  BY <1>1, InvariantHolds, PTL

LEMMA OnceStep ==
  ASSUME IInv, [Next]_vars
  PROVE  mem.error # "on" /\ mem'.error = "on" /\ "power" \notin happened'
         => /\ mem'.judged \in 1..Len(trap.log) \ user.shown
            /\ trap.log[mem'.judged] = "error"
<1> SUFFICES ASSUME mem.error # "on", mem'.error = "on", "power" \notin happened'
             PROVE  /\ mem'.judged \in 1..Len(trap.log) \ user.shown
                    /\ trap.log[mem'.judged] = "error"
  OBVIOUS
<1>1. TypeOK /\ mem \in Mem
  BY Types DEF IInv
<1>2. ReadPayload
  <2>1. ~ReadDisplayed /\ ~ClearTrapError
    BY <1>1 DEF ReadDisplayed, ClearTrapError, Mem
  <2> QED
    BY <2>1 DEF Next, vars, TrapError, AppSession, Reset, Connect, LinkDown, PassedOver,
       Select, Control, Sync, Restart, PowerLoss, Happens
<1>3. "power" \notin happened /\ ShownBelowJudged
  BY <1>2 DEF ReadPayload, IInv
<1>4. /\ displayed \in 1..Len(trap.log) /\ mem'.judged = displayed
      /\ trap.log[displayed] = "error" /\ displayed # mem.judged
  BY <1>1, <1>2, JudgeFacts
<1>5. displayed \notin user.shown
  BY <1>1, <1>3, <1>4 DEF ShownBelowJudged, Mem, None
<1> QED
  BY <1>4, <1>5

\* Trap Error comes on only for a logged error it has not come on for before,
\* however many restarts and sessions there were, unless the power was lost
\* (judge_a24_error_).
THEOREM EachErrorOnceHolds == Spec => EachErrorOnce
<1>1. IInv /\ [Next]_vars
      => [mem.error # "on" /\ mem'.error = "on" /\ "power" \notin happened'
          => /\ mem'.judged \in 1..Len(trap.log) \ user.shown
             /\ trap.log[mem'.judged] = "error"]_vars
  BY OnceStep
<1> QED
  BY <1>1, InvariantHolds, PTL DEF Spec, EachErrorOnce
=============================================================================
