------------------------------ MODULE MCFrames ------------------------------
\* Messages for TLC: one that ends with a delimiter; one with what looks like a
\* frame inside (a log entry is one), just short enough; and one too long.
EXTENDS Frames

First  == <<3, 2>>
Second == <<3, 0, 1>>
Third  == <<3, 3, 4, 4, 4, 4>>

SomeContents == {First, Second, Third}

\* Each of them has a CRC of its own, whatever else is received another.
SomeCrc(c) == CASE c = First -> 1 [] c = Second -> 2 [] c = Third -> 3 [] OTHER -> 0

\* In this instance the CRC detects damage: nothing else that fits the buffer has a
\* message's.
ASSUME CrcDetects ==
  \A n \in 2..(MaxBuffer - 2) : \A c \in [1..n -> Elements], m \in Contents :
    Crc16(c) = Crc16(m) => c = m
=============================================================================
