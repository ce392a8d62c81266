------------------------------- MODULE Script -------------------------------
(***************************************************************************)
(* The scripts a GATT session runs: the operations build_ops_ queues for a *)
(* trap and a job, in order.  An operation is a record; what it reads or   *)
(* writes is named by the characteristic or by the UART frame type whose   *)
(* answer ends it.  Payload bytes are left out.                            *)
(***************************************************************************)
EXTENDS Sequences

CONSTANTS ClockValid,  \* now_epoch() # 0
          WriteTime    \* the "write time on connect" option
ASSUME ClockAssumption == ClockValid \in BOOLEAN /\ WriteTime \in BOOLEAN

Models   == {"A24", "C20"}
Jobs     == {"NONE", "POLL", "TEST_FIRE", "RESET_ALERT"}
Commands == {"TEST_FIRE", "RESET_ALERT"}

OpKinds == {"READ", "WRITE", "ECHO", "WAIT", "NOTIFY_ON", "REQUEST", "LOGS"}

\* The two A24 cursors whose value is read and written back in a session.
Cursors == {"D20D", "E771"}

Chars == Cursors \cup {"SERIAL", "FIRMWARE_CHAR", "D30D", "D60D", "VOLTAGE", "RESISTANCE",
                       "DEVICE_STATE_CHAR", "E773", "E772", "TIME", "CONTROL"}

FrameTypes == {"SET_COMMAND", "SET_TIME", "BOOTLOADER_VERSION", "FIRMWARE", "DEVICE_STATE",
               "BATTERY_LEVEL", "INPUT_STATES", "KILL_HISTORY", "LOGS"}

Requests == {"REQUEST", "LOGS"}   \* written to the UART and answered by a frame

Op ==
  {o \in [kind : OpKinds, what : Chars \cup FrameTypes \cup {"-"}, src : Cursors \cup {"-"},
          command : BOOLEAN, optional : BOOLEAN, ends : BOOLEAN] :
     o.kind \in Requests => o.what \in FrameTypes}

Plain(kind, what) ==
  [kind |-> kind, what |-> what, src |-> "-", command |-> FALSE, optional |-> FALSE, ends |-> FALSE]

Read(char)       == Plain("READ", char)
Write(char)      == Plain("WRITE", char)
Echo(char, from) == [Plain("ECHO", char) EXCEPT !.src = from]
Request(type)    == Plain("REQUEST", type)
OptionalRequest(type) == [Request(type) EXCEPT !.optional = TRUE]
NotifyOn == Plain("NOTIFY_ON", "-")
Settle   == Plain("WAIT", "-")
Logs     == Plain("LOGS", "LOGS")
\* SetCommand(FIRE) or SetCommand(CLEAR).
Command  == [Request("SET_COMMAND") EXCEPT !.command = TRUE]
\* The closing 0x02, on which the trap hangs up.
CloseSession == [Write("CONTROL") EXCEPT !.ends = TRUE]

If(cond, ops) == IF cond THEN ops ELSE <<>>

(***************************************************************************)
(* push_c20_poll_ops_: requests the trap has ignored before are left out.  *)
(***************************************************************************)
C20Poll(unanswered, historyFirmware) ==
  LET ask(type) == If(type \notin unanswered, <<OptionalRequest(type)>>) IN
     If(WriteTime /\ ClockValid, <<Request("SET_TIME")>>)
  \o ask("BOOTLOADER_VERSION")
  \o <<Request("FIRMWARE"), Request("DEVICE_STATE"), Request("BATTERY_LEVEL")>>
  \o ask("INPUT_STATES")
  \o If(historyFirmware, ask("KILL_HISTORY"))
  \o If(ClockValid, <<Logs>>)

C20Script(job, unanswered, historyFirmware) ==
     <<NotifyOn>>
  \o If("SET_COMMAND" \notin unanswered, <<OptionalRequest("SET_COMMAND")>>)  \* WAKE
  \o If(job \in Commands, <<Command, Settle>>)
  \o C20Poll(unanswered, historyFirmware)

(***************************************************************************)
(* push_a24_poll_ops_: D20D is pointed at the newest record before the     *)
(* record is read, and its value is what D60D acknowledges at the end.     *)
(***************************************************************************)
A24Script ==
     If(WriteTime /\ ClockValid, <<Write("TIME")>>)
  \o <<Read("SERIAL"), Read("FIRMWARE_CHAR"), Read("D20D"), Echo("D20D", "D20D"),
       Read("D30D"), Read("D60D"), Read("VOLTAGE"), Read("RESISTANCE"),
       Read("DEVICE_STATE_CHAR"), Read("E771"),
       [Echo("E771", "E771") EXCEPT !.optional = TRUE],
       Read("E773"), Read("E772"), Echo("D60D", "D20D"), CloseSession>>

BuildOps(model, job, unanswered, historyFirmware) ==
  IF model = "C20" THEN C20Script(job, unanswered, historyFirmware) ELSE A24Script

\* The attribute handle an operation uses; every UART write goes to NUS RX.
Handle(op) == IF op.kind \in Requests THEN "NUS_RX" ELSE op.what
Handles == {"NUS_RX", "-"} \cup Chars \cup FrameTypes
=============================================================================
