------------------------------- MODULE Frames -------------------------------
(***************************************************************************)
(* A Mouse Trap's UART: frames encoded by the trap, sent as notifications  *)
(* that cut them anywhere, some of them lost, and assembled again.         *)
(*                                                                         *)
(* A byte is 0..7, the low bits of 0xB0..0xB7: the three delimiters, what  *)
(* they are escaped as, and two plain ones.  The CRC is one more element,  *)
(* never a delimiter; which number it is of is a parameter.                *)
(***************************************************************************)
EXTENDS Integers, Sequences, SequencesExt

CONSTANTS Contents,    \* the messages: type, subtype and payload
          Crc16(_),    \* crc16_ccitt: the number it gives a sequence
          MaxSent,     \* bound: messages
          MaxMtu,      \* the most bytes of a notification; and bound: the trap
                       \* sends the next message when less than that is waiting
          MaxBuffer    \* 512

VARIABLES
  wire,      \* bytes the trap has still to send, each with its message's number
             \* and its place in that message's frame
  sent,      \* the messages sent
  broken,    \* the numbers of those of which a byte was lost
  assembler, \* the C20FrameAssembler, and the messages it has returned
  restarts   \* sessions there have been

vars == <<wire, sent, broken, assembler, restarts>>

START == 0
END   == 1
ESC   == 2
Byte  == 0..7
Xor4(b) == IF b % 8 < 4 THEN b + 4 ELSE b - 4
Crc(content) == 8 * (1 + Crc16(content))

\* What may arrive, and what may be made of it.
Received == Byte \cup {Crc(m) : m \in Contents}
Elements == Received \cup {Xor4(b) : b \in Received}

ASSUME FramesAssumption ==
  /\ \A m \in Contents : m \in Seq(Byte) /\ Len(m) >= 2 /\ Crc16(m) \in Nat
  /\ \A n \in 2..(MaxBuffer - 2) : \A c \in [1..n -> Elements] : Crc16(c) \in Nat
  /\ MaxSent \in Nat /\ MaxMtu \in Nat \ {0} /\ MaxBuffer \in Nat \ {0}

\* c20_encode: the delimiters in a body are escaped.
Escape(bytes, b) ==
  IF b \in {START, END, ESC} THEN Append(Append(bytes, ESC), Xor4(b)) ELSE Append(bytes, b)

Escaped(body) ==
  LET upto[n \in 0..Len(body)] == IF n = 0 THEN <<>> ELSE Escape(upto[n - 1], body[n])
  IN  upto[Len(body)]

Encode(content) == <<START>> \o Escaped(Append(content, Crc(content))) \o <<END>>

\* c20_decode's loop over what is between the delimiters.
Unescape(a, b) ==
  IF a.esc THEN [body |-> Append(a.body, Xor4(b)), esc |-> FALSE]
  ELSE IF b = ESC THEN [a EXCEPT !.esc = TRUE]
  ELSE [a EXCEPT !.body = Append(@, b)]

Unescaped(bytes) ==
  LET upto[n \in 0..Len(bytes)] ==
        IF n = 0 THEN [body |-> <<>>, esc |-> FALSE] ELSE Unescape(upto[n - 1], bytes[n])
  IN  upto[Len(bytes)]

\* Mutant: the CRC is not compared.
DecodeUnchecked(frame) ==
  LET u == Unescaped(SubSeq(frame, 2, Len(frame) - 1)) IN
  IF u.esc \/ Len(u.body) < 3 THEN <<>> ELSE <<Front(u.body)>>

\* c20_decode: the content, if it is a frame.
Decode(frame) ==
  LET u == Unescaped(SubSeq(frame, 2, Len(frame) - 1)) IN
  IF u.esc \/ Len(u.body) < 3 \/ Last(u.body) # Crc(Front(u.body)) THEN <<>>
  ELSE <<Front(u.body)>>

Reset(a) == [in_frame |-> FALSE, buffer |-> <<>>, frames |-> a.frames]

\* Mutant: a frame goes on when another one starts.
FeedThroughStart(a, b) ==
  LET buffer == Append(a.buffer, b) IN
  IF ~a.in_frame THEN IF b = START THEN [a EXCEPT !.in_frame = TRUE, !.buffer = <<b>>] ELSE a
  ELSE IF b = END THEN [Reset(a) EXCEPT !.frames = @ \o Decode(buffer)]
  ELSE IF Len(buffer) > MaxBuffer THEN Reset(a)
  ELSE [a EXCEPT !.buffer = buffer]

\* The assembler on one byte.
Feed(a, b) ==
  LET buffer == Append(a.buffer, b) IN
  IF ~a.in_frame THEN IF b = START THEN [a EXCEPT !.in_frame = TRUE, !.buffer = <<b>>] ELSE a
  ELSE IF b = END THEN [Reset(a) EXCEPT !.frames = @ \o Decode(buffer)]
  ELSE IF b = START THEN [a EXCEPT !.buffer = <<b>>]
  ELSE IF Len(buffer) > MaxBuffer THEN Reset(a)
  ELSE [a EXCEPT !.buffer = buffer]

\* feed: on one byte after the other.
Fed(a, bytes) ==
  LET upto[n \in 0..Len(bytes)] == IF n = 0 THEN a ELSE Feed(upto[n - 1], bytes[n])
  IN  upto[Len(bytes)]

-----------------------------------------------------------------------------
Init ==
  /\ wire = <<>> /\ sent = <<>> /\ broken = {} /\ restarts = 0
  /\ assembler = [in_frame |-> FALSE, buffer |-> <<>>, frames |-> <<>>]

\* The bytes of the n-th message.
Numbered(bytes, n) == [k \in 1..Len(bytes) |-> [byte |-> bytes[k], of |-> n, at |-> k]]

\* The trap sends a message.
Send(content) ==
  /\ Len(sent) < MaxSent /\ Len(wire) < MaxMtu
  /\ sent' = Append(sent, content)
  /\ wire' = wire \o Numbered(Encode(content), Len(sent'))
  /\ UNCHANGED <<broken, assembler, restarts>>

\* ESP_GATTC_NOTIFY_EVT with the next n bytes.
Notified(n) ==
  /\ n <= Len(wire)
  /\ assembler' = Fed(assembler, [k \in 1..n |-> wire[k].byte])
  /\ wire' = SubSeq(wire, n + 1, Len(wire))
  /\ UNCHANGED <<sent, broken, restarts>>

Loses(n) ==
  /\ broken' = broken \cup {wire[k].of : k \in 1..n}
  /\ wire' = SubSeq(wire, n + 1, Len(wire))

Lost(n) ==
  /\ n <= Len(wire)
  /\ Loses(n)
  /\ UNCHANGED <<sent, assembler, restarts>>

\* The link goes, and with it what was not sent; the next session starts afresh.
NextSession ==
  /\ restarts < 1
  /\ restarts' = restarts + 1
  /\ Loses(Len(wire))
  /\ assembler' = Reset(assembler)
  /\ UNCHANGED sent

Next ==
  \/ \E m \in Contents : Send(m)
  \/ \E n \in 1..MaxMtu : Notified(n) \/ Lost(n)
  \/ NextSession

Spec == Init /\ [][Next]_vars

-----------------------------------------------------------------------------
\* The members of s numbered S are in t, in that order.
FoundIn(S, s, t) ==
  \E f \in [S -> DOMAIN t] :
    /\ \A i, j \in S : i < j => f[i] < f[j]
    /\ \A i \in S : s[i] = t[f[i]]

\* Frames the assembler may drop for their length alone: the END of a frame of
\* 513 bytes still counts.
Fits(content) == Len(Encode(content)) <= MaxBuffer + 1

\* The messages all of whose bytes have arrived, and that are not too long.
Arrived ==
  {i \in 1..Len(sent) : i \notin broken /\ Fits(sent[i]) /\ \A k \in 1..Len(wire) : wire[k].of # i}

\* Of what is lost and cut the assembler makes no message of its own: what it
\* returns was sent, each at most once, in the order it was sent.
NothingInvented == FoundIn(DOMAIN assembler.frames, assembler.frames, sent)

\* A frame all of whose bytes have arrived is returned, whatever was lost before
\* it or cut off by the end of the session before.
WholeFramesArrive == FoundIn(Arrived, sent, assembler.frames)
=============================================================================
