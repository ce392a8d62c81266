------------------------------ MODULE FramesProofs ------------------------------
(***************************************************************************)
(* Proofs about Frames: however the bytes of the trap are cut and lost,    *)
(* every frame that arrives whole is returned, and nothing is returned but *)
(* what the trap sent, as far as its CRC tells it from what it did not.    *)
(***************************************************************************)
EXTENDS Frames, SequenceTheorems, WellFoundedInduction, TLAPS

-----------------------------------------------------------------------------
(***************************************************************************)
(* Induction, with a set for the predicate.                                *)
(***************************************************************************)
LEMMA NatSet ==
  ASSUME NEW G, 0 \in G, \A n \in Nat : n \in G => n + 1 \in G
  PROVE  Nat \subseteq G
<1> DEFINE T == Nat \ G
           R == OpToRel(<, Nat)
<1> SUFFICES ASSUME T # {} PROVE FALSE
  OBVIOUS
<1>1. IsWellFoundedOn(R, Nat)
  BY NatLessThanWellFounded
<1>2. PICK m \in T : \A k \in T : ~(<<k, m>> \in R)
  <2> HIDE DEF R
  <2> QED
    BY <1>1, WFMin
<1>3. m \in Nat \ {0} /\ m - 1 \in Nat /\ m - 1 < m /\ (m - 1) + 1 = m
  OBVIOUS
<1>4. <<m - 1, m>> \in R
  BY <1>3 DEF OpToRel
<1>5. m - 1 \in G
  BY <1>2, <1>3, <1>4
<1>6. m \in G
  BY <1>3, <1>5
<1> QED
  BY <1>6

LEMMA SeqSet ==
  ASSUME NEW S, NEW G, <<>> \in G, \A s \in Seq(S), e \in S : s \in G => Append(s, e) \in G
  PROVE  Seq(S) \subseteq G
<1> DEFINE H == {n \in Nat : \A s \in Seq(S) : Len(s) = n => s \in G}
<1>1. 0 \in H
  BY EmptySeq
<1>2. ASSUME NEW n \in Nat, n \in H PROVE n + 1 \in H
  <2> SUFFICES ASSUME NEW s \in Seq(S), Len(s) = n + 1 PROVE s \in G
    OBVIOUS
  <2>1. PICK t \in Seq(S), e \in S : s = Append(t, e)
    BY EmptySeq, SequenceEmptyOrAppend
  <2>2. Len(t) = n
    BY <2>1, AppendProperties, LenProperties
  <2> QED
    BY <1>2, <2>1, <2>2
<1>3. Nat \subseteq H
  <2> HIDE DEF H
  <2> QED
    BY <1>1, <1>2, NatSet
<1> QED
  BY <1>3, LenProperties

LEMMA Appended ==
  ASSUME NEW S, NEW s \in Seq(S), NEW e \in S
  PROVE  LET t == Append(s, e)
         IN  /\ t \in Seq(S) /\ Len(t) = Len(s) + 1 /\ Len(s) \in Nat /\ t[Len(t)] = e
             /\ \A i \in 1..Len(s) : t[i] = s[i]
BY AppendProperties, LenProperties

LEMMA Single ==
  ASSUME NEW S, NEW e \in S
  PROVE  <<e>> \in Seq(S) /\ Len(<<e>>) = 1 /\ <<e>>[1] = e
OBVIOUS

\* A part of a sequence, its elements numbered afresh.
LEMMA Part ==
  ASSUME NEW S, NEW s \in Seq(S), NEW m \in Nat \ {0}, NEW n \in Nat, n <= Len(s), m <= n + 1
  PROVE  /\ SubSeq(s, m, n) \in Seq(S) /\ Len(SubSeq(s, m, n)) = n - m + 1
         /\ \A i \in 1..(n - m + 1) : SubSeq(s, m, n)[i] = s[i + m - 1]
<1>1. \A i \in m..n : s[i] \in S
  BY ElementOfSeq, LenProperties
<1>2. /\ SubSeq(s, m, n) \in Seq(S)
      /\ Len(SubSeq(s, m, n)) = IF m <= n THEN n - m + 1 ELSE 0
      /\ \A i \in 1..(n - m + 1) : SubSeq(s, m, n)[i] = s[m + i - 1]
  BY <1>1, SubSeqProperties
<1> QED
  BY <1>2

\* The first elements of a sequence, with one more and without it.
LEMMA Prefix ==
  ASSUME NEW S, NEW s \in Seq(S), NEW n \in 1..Len(s)
  PROVE  /\ SubSeq(s, 1, n - 1) \in Seq(S) /\ Len(SubSeq(s, 1, n - 1)) = n - 1
         /\ SubSeq(s, 1, n) = Append(SubSeq(s, 1, n - 1), s[n])
         /\ n = 1 => SubSeq(s, 1, n) = <<s[1]>>
<1> DEFINE one == 1
           y == SubSeq(s, one, n - 1)
<1>1. /\ one \in Nat \ {0} /\ n - 1 \in Nat /\ n - 1 <= Len(s) /\ one <= (n - 1) + 1
      /\ (n - 1) - one + 1 = n - 1 /\ one \in 1..Len(s) /\ n \in one..Len(s)
  BY LenProperties
<1> HIDE DEF one
<1>2. y \in Seq(S) /\ Len(y) = n - 1
  BY <1>1, Part
<1>3. SubSeq(s, one, n) = y \o <<s[n]>>
  BY <1>1, SubSeqRecursiveSecond
<1>4. s[n] \in S
  BY ElementOfSeq
<1> HIDE DEF y
<1>5. y \o <<s[n]>> = Append(y, s[n])
  BY <1>2, <1>4, AppendIsConcat
<1>6. n = 1 => y \o <<s[n]>> = <<s[1]>>
  <2> SUFFICES ASSUME n = 1 PROVE y \o <<s[n]>> = <<s[1]>>
    OBVIOUS
  <2>1. y = <<>>
    BY <1>2, EmptySeq
  <2>2. <<s[n]>> \in Seq(S)
    BY <1>4, Single
  <2> QED
    BY <2>1, <2>2, ConcatEmptySeq
<1> QED
  BY <1>2, <1>3, <1>5, <1>6 DEF y, one

-----------------------------------------------------------------------------
(***************************************************************************)
(* What Escaped, Unescaped and Fed make of nothing, and of one more byte.  *)
(* First Escaped.                                                          *)
(***************************************************************************)
Escapes(f, s) == f = [n \in 0..Len(s) |-> IF n = 0 THEN <<>> ELSE Escape(f[n - 1], s[n])]

LEMMA EscapedExists ==
  ASSUME NEW S
  PROVE  \A s \in Seq(S) : \E f : Escapes(f, s)
<1> DEFINE G == {s \in Seq(S) : \E f : Escapes(f, s)}
<1>1. <<>> \in G
  <2>1. Escapes([n \in 0..0 |-> <<>>], <<>>)
    BY DEF Escapes
  <2> QED
    BY <2>1
<1>2. ASSUME NEW s \in Seq(S), NEW e \in S, s \in G PROVE Append(s, e) \in G
  <2>1. PICK f : Escapes(f, s)
    BY <1>2
  <2> DEFINE t == Append(s, e)
             g == [n \in 0..Len(t) |-> IF n <= Len(s) THEN f[n] ELSE Escape(f[Len(s)], e)]
  <2>2. t \in Seq(S) /\ Len(t) = Len(s) + 1 /\ Len(s) \in Nat /\ t[Len(t)] = e
        /\ \A i \in 1..Len(s) : t[i] = s[i]
    BY Appended
  <2> HIDE DEF t
  <2>3. ASSUME NEW n \in 0..Len(t)
        PROVE  g[n] = IF n = 0 THEN <<>> ELSE Escape(g[n - 1], t[n])
    <3>1. \A i \in 0..Len(s) : f[i] = IF i = 0 THEN <<>> ELSE Escape(f[i - 1], s[i])
      BY <2>1 DEF Escapes
    <3>2. CASE n = 0
      BY <2>2, <3>1, <3>2
    <3>3. CASE n \in 1..Len(s)
      BY <2>2, <3>1, <3>3
    <3>4. CASE n = Len(t)
      BY <2>2, <3>4
    <3> QED
      BY <2>2, <3>2, <3>3, <3>4
  <2>4. Escapes(g, t)
    BY <2>3 DEF Escapes
  <2> QED
    BY <2>2, <2>4 DEF t
<1>3. Seq(S) \subseteq G
  <2> HIDE DEF G
  <2> QED
    BY <1>1, <1>2, SeqSet
<1> QED
  BY <1>3

LEMMA EscapedFold ==
  ASSUME NEW S
  PROVE  /\ Escaped(<<>>) = <<>>
         /\ \A s \in Seq(S), e \in S : Escaped(Append(s, e)) = Escape(Escaped(s), e)
<1>1. ASSUME NEW s \in Seq(S) PROVE \E f : Escapes(f, s) /\ Escaped(s) = f[Len(s)]
  <2>1. \E f : Escapes(f, s)
    BY EscapedExists
  <2>2. Escaped(s) = (CHOOSE f : Escapes(f, s))[Len(s)]
    BY DEF Escaped, Escapes
  <2> QED
    BY <2>1, <2>2
<1>2. Escaped(<<>>) = <<>>
  <2>1. <<>> \in Seq(S) /\ Len(<<>>) = 0
    BY EmptySeq
  <2>2. PICK f : Escapes(f, <<>>) /\ Escaped(<<>>) = f[0]
    BY <1>1, <2>1
  <2> QED
    BY <2>1, <2>2 DEF Escapes
<1>3. ASSUME NEW s \in Seq(S), NEW e \in S PROVE Escaped(Append(s, e)) = Escape(Escaped(s), e)
  <2> DEFINE t == Append(s, e)
  <2>1. t \in Seq(S) /\ Len(t) = Len(s) + 1 /\ Len(s) \in Nat /\ t[Len(t)] = e
        /\ \A i \in 1..Len(s) : t[i] = s[i]
    BY Appended
  <2> HIDE DEF t
  <2>2. PICK f : Escapes(f, s) /\ Escaped(s) = f[Len(s)]
    BY <1>1
  <2>3. PICK g : Escapes(g, t) /\ Escaped(t) = g[Len(t)]
    BY <1>1, <2>1
  <2> DEFINE G == {n \in Nat : n <= Len(s) => f[n] = g[n]}
  <2>4. 0 \in G
    BY <2>1, <2>2, <2>3 DEF Escapes
  <2>5. ASSUME NEW n \in Nat, n \in G PROVE n + 1 \in G
    <3> SUFFICES ASSUME n + 1 <= Len(s) PROVE f[n + 1] = g[n + 1]
      OBVIOUS
    <3>1. f[n + 1] = Escape(f[n], s[n + 1])
      BY <2>1, <2>2 DEF Escapes
    <3>2. g[n + 1] = Escape(g[n], t[n + 1])
      BY <2>1, <2>3 DEF Escapes
    <3> QED
      BY <2>1, <2>5, <3>1, <3>2
  <2>6. Nat \subseteq G
    <3> HIDE DEF G
    <3> QED
      BY <2>4, <2>5, NatSet
  <2>7. f[Len(s)] = g[Len(s)]
    BY <2>1, <2>6
  <2>8. g[Len(t)] = Escape(g[Len(s)], e)
    BY <2>1, <2>3 DEF Escapes
  <2> QED
    BY <2>2, <2>3, <2>7, <2>8 DEF t
<1> QED
  BY <1>2, <1>3

-----------------------------------------------------------------------------
(***************************************************************************)
(* Unescaped.                                                              *)
(***************************************************************************)
Empty == [body |-> <<>>, esc |-> FALSE]

Unescapes(f, s) == f = [n \in 0..Len(s) |-> IF n = 0 THEN Empty ELSE Unescape(f[n - 1], s[n])]

LEMMA UnescapedExists ==
  ASSUME NEW S
  PROVE  \A s \in Seq(S) : \E f : Unescapes(f, s)
<1> DEFINE G == {s \in Seq(S) : \E f : Unescapes(f, s)}
<1>1. <<>> \in G
  <2>1. Unescapes([n \in 0..0 |-> Empty], <<>>)
    BY DEF Unescapes
  <2> QED
    BY <2>1
<1>2. ASSUME NEW s \in Seq(S), NEW e \in S, s \in G PROVE Append(s, e) \in G
  <2>1. PICK f : Unescapes(f, s)
    BY <1>2
  <2> DEFINE t == Append(s, e)
             g == [n \in 0..Len(t) |-> IF n <= Len(s) THEN f[n] ELSE Unescape(f[Len(s)], e)]
  <2>2. t \in Seq(S) /\ Len(t) = Len(s) + 1 /\ Len(s) \in Nat /\ t[Len(t)] = e
        /\ \A i \in 1..Len(s) : t[i] = s[i]
    BY Appended
  <2> HIDE DEF t
  <2>3. ASSUME NEW n \in 0..Len(t)
        PROVE  g[n] = IF n = 0 THEN Empty ELSE Unescape(g[n - 1], t[n])
    <3>1. \A i \in 0..Len(s) : f[i] = IF i = 0 THEN Empty ELSE Unescape(f[i - 1], s[i])
      BY <2>1 DEF Unescapes
    <3>2. CASE n = 0
      BY <2>2, <3>1, <3>2
    <3>3. CASE n \in 1..Len(s)
      BY <2>2, <3>1, <3>3
    <3>4. CASE n = Len(t)
      BY <2>2, <3>4
    <3> QED
      BY <2>2, <3>2, <3>3, <3>4
  <2>4. Unescapes(g, t)
    BY <2>3 DEF Unescapes
  <2> QED
    BY <2>2, <2>4 DEF t
<1>3. Seq(S) \subseteq G
  <2> HIDE DEF G
  <2> QED
    BY <1>1, <1>2, SeqSet
<1> QED
  BY <1>3

LEMMA UnescapedFold ==
  ASSUME NEW S
  PROVE  /\ Unescaped(<<>>) = Empty
         /\ \A s \in Seq(S), e \in S : Unescaped(Append(s, e)) = Unescape(Unescaped(s), e)
<1>1. ASSUME NEW s \in Seq(S) PROVE \E f : Unescapes(f, s) /\ Unescaped(s) = f[Len(s)]
  <2>1. \E f : Unescapes(f, s)
    BY UnescapedExists
  <2>2. Unescaped(s) = (CHOOSE f : Unescapes(f, s))[Len(s)]
    BY DEF Unescaped, Unescapes, Empty
  <2> QED
    BY <2>1, <2>2
<1>2. Unescaped(<<>>) = Empty
  <2>1. <<>> \in Seq(S) /\ Len(<<>>) = 0
    BY EmptySeq
  <2>2. PICK f : Unescapes(f, <<>>) /\ Unescaped(<<>>) = f[0]
    BY <1>1, <2>1
  <2> QED
    BY <2>1, <2>2 DEF Unescapes
<1>3. ASSUME NEW s \in Seq(S), NEW e \in S PROVE Unescaped(Append(s, e)) = Unescape(Unescaped(s), e)
  <2> DEFINE t == Append(s, e)
  <2>1. t \in Seq(S) /\ Len(t) = Len(s) + 1 /\ Len(s) \in Nat /\ t[Len(t)] = e
        /\ \A i \in 1..Len(s) : t[i] = s[i]
    BY Appended
  <2> HIDE DEF t
  <2>2. PICK f : Unescapes(f, s) /\ Unescaped(s) = f[Len(s)]
    BY <1>1
  <2>3. PICK g : Unescapes(g, t) /\ Unescaped(t) = g[Len(t)]
    BY <1>1, <2>1
  <2> DEFINE G == {n \in Nat : n <= Len(s) => f[n] = g[n]}
  <2>4. 0 \in G
    BY <2>1, <2>2, <2>3 DEF Unescapes
  <2>5. ASSUME NEW n \in Nat, n \in G PROVE n + 1 \in G
    <3> SUFFICES ASSUME n + 1 <= Len(s) PROVE f[n + 1] = g[n + 1]
      OBVIOUS
    <3>1. f[n + 1] = Unescape(f[n], s[n + 1])
      BY <2>1, <2>2 DEF Unescapes
    <3>2. g[n + 1] = Unescape(g[n], t[n + 1])
      BY <2>1, <2>3 DEF Unescapes
    <3> QED
      BY <2>1, <2>5, <3>1, <3>2
  <2>6. Nat \subseteq G
    <3> HIDE DEF G
    <3> QED
      BY <2>4, <2>5, NatSet
  <2>7. f[Len(s)] = g[Len(s)]
    BY <2>1, <2>6
  <2>8. g[Len(t)] = Unescape(g[Len(s)], e)
    BY <2>1, <2>3 DEF Unescapes
  <2> QED
    BY <2>2, <2>3, <2>7, <2>8 DEF t
<1> QED
  BY <1>2, <1>3

-----------------------------------------------------------------------------
(***************************************************************************)
(* Fed.                                                                    *)
(***************************************************************************)
Feeds(f, a, s) == f = [n \in 0..Len(s) |-> IF n = 0 THEN a ELSE Feed(f[n - 1], s[n])]

LEMMA FedExists ==
  ASSUME NEW S, NEW a
  PROVE  \A s \in Seq(S) : \E f : Feeds(f, a, s)
<1> DEFINE G == {s \in Seq(S) : \E f : Feeds(f, a, s)}
<1>1. <<>> \in G
  <2>1. Feeds([n \in 0..0 |-> a], a, <<>>)
    BY DEF Feeds
  <2> QED
    BY <2>1
<1>2. ASSUME NEW s \in Seq(S), NEW e \in S, s \in G PROVE Append(s, e) \in G
  <2>1. PICK f : Feeds(f, a, s)
    BY <1>2
  <2> DEFINE t == Append(s, e)
             g == [n \in 0..Len(t) |-> IF n <= Len(s) THEN f[n] ELSE Feed(f[Len(s)], e)]
  <2>2. t \in Seq(S) /\ Len(t) = Len(s) + 1 /\ Len(s) \in Nat /\ t[Len(t)] = e
        /\ \A i \in 1..Len(s) : t[i] = s[i]
    BY Appended
  <2> HIDE DEF t
  <2>3. ASSUME NEW n \in 0..Len(t)
        PROVE  g[n] = IF n = 0 THEN a ELSE Feed(g[n - 1], t[n])
    <3>1. \A i \in 0..Len(s) : f[i] = IF i = 0 THEN a ELSE Feed(f[i - 1], s[i])
      BY <2>1 DEF Feeds
    <3>2. CASE n = 0
      BY <2>2, <3>1, <3>2
    <3>3. CASE n \in 1..Len(s)
      BY <2>2, <3>1, <3>3
    <3>4. CASE n = Len(t)
      BY <2>2, <3>4
    <3> QED
      BY <2>2, <3>2, <3>3, <3>4
  <2>4. Feeds(g, a, t)
    BY <2>3 DEF Feeds
  <2> QED
    BY <2>2, <2>4 DEF t
<1>3. Seq(S) \subseteq G
  <2> HIDE DEF G
  <2> QED
    BY <1>1, <1>2, SeqSet
<1> QED
  BY <1>3

LEMMA FedNothing ==
  ASSUME NEW a
  PROVE  Fed(a, <<>>) = a
<1>1. <<>> \in Seq({}) /\ Len(<<>>) = 0
  BY EmptySeq
<1>2. \E f : Feeds(f, a, <<>>)
  BY <1>1, FedExists
<1>3. Fed(a, <<>>) = (CHOOSE f : Feeds(f, a, <<>>))[Len(<<>>)]
  BY DEF Fed, Feeds
<1>4. PICK f : Feeds(f, a, <<>>) /\ Fed(a, <<>>) = f[0]
  BY <1>1, <1>2, <1>3
<1> QED
  BY <1>1, <1>4 DEF Feeds

LEMMA FedMore ==
  ASSUME NEW S, NEW a, NEW s \in Seq(S), NEW e \in S
  PROVE  Fed(a, Append(s, e)) = Feed(Fed(a, s), e)
<1>0. ASSUME NEW q \in Seq(S) PROVE \E f : Feeds(f, a, q) /\ Fed(a, q) = f[Len(q)]
  <2>1. \E f : Feeds(f, a, q)
    BY FedExists
  <2>2. Fed(a, q) = (CHOOSE f : Feeds(f, a, q))[Len(q)]
    BY DEF Fed, Feeds
  <2> QED
    BY <2>1, <2>2
<1> DEFINE t == Append(s, e)
<1>1. t \in Seq(S) /\ Len(t) = Len(s) + 1 /\ Len(s) \in Nat /\ t[Len(t)] = e
      /\ \A i \in 1..Len(s) : t[i] = s[i]
  BY Appended
<1> HIDE DEF t
<1>2. PICK f : Feeds(f, a, s) /\ Fed(a, s) = f[Len(s)]
  BY <1>0
<1>3. PICK g : Feeds(g, a, t) /\ Fed(a, t) = g[Len(t)]
  BY <1>0, <1>1
<1> DEFINE G == {n \in Nat : n <= Len(s) => f[n] = g[n]}
<1>4. 0 \in G
  BY <1>1, <1>2, <1>3 DEF Feeds
<1>5. ASSUME NEW n \in Nat, n \in G PROVE n + 1 \in G
  <2> SUFFICES ASSUME n + 1 <= Len(s) PROVE f[n + 1] = g[n + 1]
    OBVIOUS
  <2>1. f[n + 1] = Feed(f[n], s[n + 1])
    BY <1>1, <1>2 DEF Feeds
  <2>2. g[n + 1] = Feed(g[n], t[n + 1])
    BY <1>1, <1>3 DEF Feeds
  <2> QED
    BY <1>1, <1>5, <2>1, <2>2
<1>6. Nat \subseteq G
  <2> HIDE DEF G
  <2> QED
    BY <1>4, <1>5, NatSet
<1>7. f[Len(s)] = g[Len(s)]
  BY <1>1, <1>6
<1>8. g[Len(t)] = Feed(g[Len(s)], e)
  BY <1>1, <1>3 DEF Feeds
<1> QED
  BY <1>2, <1>3, <1>7, <1>8 DEF t

-----------------------------------------------------------------------------
(***************************************************************************)
(* Bytes and CRCs.                                                         *)
(***************************************************************************)
LEMMA Messages ==
  /\ MaxBuffer \in Nat \ {0}
  /\ \A m \in Contents :
       /\ m \in Seq(Byte) /\ Len(m) \in Nat /\ Len(m) >= 2
       /\ Crc(m) \in Nat /\ Crc(m) > 7 /\ Crc(m) % 8 = 0
<1>1. \A m \in Contents : m \in Seq(Byte) /\ Len(m) >= 2 /\ Crc16(m) \in Nat
  BY FramesAssumption
<1>2. ASSUME NEW m \in Contents
      PROVE  Crc(m) \in Nat /\ Crc(m) > 7 /\ Crc(m) % 8 = 0
  BY <1>1 DEF Crc
<1>3. \A m \in Contents : Len(m) \in Nat
  BY <1>1, LenProperties
<1> QED
  BY <1>1, <1>2, <1>3, FramesAssumption

LEMMA CrcOfBody ==
  ASSUME NEW c \in Seq(Elements), Len(c) \in 2..(MaxBuffer - 2)
  PROVE  Crc(c) \in Nat /\ Crc(c) > 7 /\ Crc(c) % 8 = 0 /\ Crc16(c) \in Nat
<1>1. c \in [1..Len(c) -> Elements]
  BY LenProperties
<1>2. Crc16(c) \in Nat
  BY <1>1, FramesAssumption
<1> QED
  BY <1>2 DEF Crc

LEMMA Bytes ==
  /\ Byte \subseteq Received /\ Received \subseteq Nat /\ Received \subseteq Elements
  /\ {START, END, ESC} \subseteq Byte /\ START # END /\ ESC # START /\ ESC # END
  /\ \A m \in Contents : Crc(m) \in Received
  /\ \A b \in Received : Xor4(b) \in Elements
BY Messages DEF Byte, Received, Elements, START, END, ESC

LEMMA Xor4Byte ==
  ASSUME NEW b \in Byte
  PROVE  /\ Xor4(b) \in Byte /\ Xor4(Xor4(b)) = b
         /\ b \in {START, END, ESC} => Xor4(b) \notin {START, END, ESC}
<1>1. b \in 0..7
  BY DEF Byte
<1>2. b % 8 = b
  BY <1>1
<1>3. CASE b < 4
  <2>1. Xor4(b) = b + 4 /\ (b + 4) % 8 = b + 4
    BY <1>1, <1>2, <1>3 DEF Xor4
  <2>2. Xor4(b + 4) = b
    BY <1>1, <1>3, <2>1 DEF Xor4
  <2> QED
    BY <1>1, <1>3, <2>1, <2>2 DEF Byte, START, END, ESC
<1>4. CASE ~(b < 4)
  <2>1. Xor4(b) = b - 4 /\ (b - 4) % 8 = b - 4
    BY <1>1, <1>2, <1>4 DEF Xor4
  <2>2. Xor4(b - 4) = b
    BY <1>1, <1>4, <2>1 DEF Xor4
  <2> QED
    BY <1>1, <1>4, <2>1, <2>2 DEF Byte, START, END, ESC
<1> QED
  BY <1>3, <1>4

\* Of what is received only a CRC can be one: no byte is, and none that follows
\* an escape.
LEMMA OnlyCrcs ==
  ASSUME NEW b \in Received, NEW e \in {b, Xor4(b)}, e > 7, e % 8 = 0
  PROVE  e = b /\ b \notin Byte
<1>1. CASE b \in Byte
  BY <1>1, Xor4Byte DEF Byte
<1>2. CASE b \notin Byte
  <2>1. PICK m \in Contents : b = Crc(m)
    BY <1>2 DEF Received
  <2>2. b \in Nat /\ b % 8 = 0
    BY <2>1, Messages
  <2>3. Xor4(b) = b + 4 /\ (b + 4) % 8 = 4
    BY <2>2 DEF Xor4
  <2> QED
    BY <1>2, <2>3
<1> QED
  BY <1>1, <1>2

-----------------------------------------------------------------------------
(***************************************************************************)
(* Encoding and decoding.                                                  *)
(***************************************************************************)

\* What is escaped has no delimiters, and is found again.
LEMMA EscapedFacts ==
  ASSUME NEW s \in Seq(Received)
  PROVE  /\ Escaped(s) \in Seq(Received)
         /\ \A i \in 1..Len(Escaped(s)) : Escaped(s)[i] \notin {START, END}
         /\ Unescaped(Escaped(s)) = [body |-> s, esc |-> FALSE]
<1> DEFINE Right(x, y) == /\ x \in Seq(Received)
                          /\ \A i \in 1..Len(x) : x[i] \notin {START, END}
                          /\ Unescaped(x) = [body |-> y, esc |-> FALSE]
           G == {t \in Seq(Received) : Right(Escaped(t), t)}
<1>1. <<>> \in G
  <2>1. Escaped(<<>>) = <<>> /\ Unescaped(<<>>) = [body |-> <<>>, esc |-> FALSE]
    BY EscapedFold, UnescapedFold DEF Empty
  <2>2. <<>> \in Seq(Received) /\ Len(<<>>) = 0
    BY EmptySeq
  <2>3. Right(<<>>, <<>>)
    BY <2>1, <2>2
  <2> QED
    BY <2>1, <2>2, <2>3
<1>2. ASSUME NEW t \in Seq(Received), NEW e \in Received, t \in G
      PROVE  Append(t, e) \in G
  <2> DEFINE x == Escaped(t)
             y == Append(t, e)
  <2>1. Right(x, t) /\ y \in Seq(Received)
    BY <1>2, AppendProperties
  <2>2. Escaped(y) = Escape(x, e)
    BY EscapedFold
  <2>3. \A z \in Seq(Received), b \in Received : Unescaped(Append(z, b)) = Unescape(Unescaped(z), b)
    BY UnescapedFold
  <2> HIDE DEF x
  <2>4. CASE e \in {START, END, ESC}
    <3>1. e \in Byte /\ Xor4(e) \in Byte /\ Xor4(Xor4(e)) = e /\ Xor4(e) \notin {START, END, ESC}
      BY <2>4, Bytes, Xor4Byte
    <3>2. ESC \in Received /\ Xor4(e) \in Received /\ ESC \notin {START, END}
      BY <3>1, Bytes
    <3> DEFINE v == Append(x, ESC)
               w == Append(v, Xor4(e))
    <3>3. v \in Seq(Received) /\ \A i \in 1..Len(v) : v[i] \notin {START, END}
      BY <2>1, <3>2, Appended
    <3>4. Unescaped(v) = [body |-> t, esc |-> TRUE]
      BY <2>1, <2>3, <3>2 DEF Unescape
    <3>5. Escaped(y) = w
      BY <2>2, <2>4 DEF Escape
    <3> HIDE DEF v
    <3>6. w \in Seq(Received) /\ \A i \in 1..Len(w) : w[i] \notin {START, END}
      BY <3>1, <3>2, <3>3, Appended
    <3>7. Unescaped(w) = [body |-> y, esc |-> FALSE]
      BY <2>3, <3>1, <3>2, <3>3, <3>4 DEF Unescape
    <3> QED
      BY <2>1, <3>5, <3>6, <3>7
  <2>5. CASE e \notin {START, END, ESC}
    <3> DEFINE w == Append(x, e)
    <3>1. Escaped(y) = w
      BY <2>2, <2>5 DEF Escape
    <3>2. w \in Seq(Received) /\ \A i \in 1..Len(w) : w[i] \notin {START, END}
      BY <2>1, <2>5, Appended
    <3>3. Unescaped(w) = Unescape([body |-> t, esc |-> FALSE], e)
      BY <2>1, <2>3
    <3>4. Unescaped(w) = [body |-> y, esc |-> FALSE]
      BY <2>5, <3>3 DEF Unescape
    <3> QED
      BY <2>1, <3>1, <3>2, <3>4
  <2> QED
    BY <2>4, <2>5
<1>3. Seq(Received) \subseteq G
  <2> HIDE DEF G
  <2> QED
    BY <1>1, <1>2, SeqSet
<1> QED
  BY <1>3

\* Whatever is between two delimiters, what is made of it is no longer, and ends
\* with its last byte, escaped or not.
LEMMA UnescapedFacts ==
  ASSUME NEW s \in Seq(Received)
  PROVE  LET u == Unescaped(s)
         IN  /\ u \in [body : Seq(Elements), esc : BOOLEAN]
             /\ Len(u.body) <= Len(s)
             /\ ~u.esc /\ u.body # <<>> =>
                  s # <<>> /\ u.body[Len(u.body)] \in {s[Len(s)], Xor4(s[Len(s)])}
<1> DEFINE Right(x, u) == /\ u \in [body : Seq(Elements), esc : BOOLEAN]
                          /\ Len(u.body) <= Len(x)
                          /\ ~u.esc /\ u.body # <<>> =>
                               x # <<>> /\ u.body[Len(u.body)] \in {x[Len(x)], Xor4(x[Len(x)])}
           G == {x \in Seq(Received) : Right(x, Unescaped(x))}
<1>1. <<>> \in G
  <2>1. Unescaped(<<>>) = [body |-> <<>>, esc |-> FALSE]
    BY UnescapedFold DEF Empty
  <2>2. <<>> \in Seq(Received) /\ <<>> \in Seq(Elements) /\ Len(<<>>) = 0
    BY EmptySeq
  <2>3. Right(<<>>, [body |-> <<>>, esc |-> FALSE])
    BY <2>2
  <2> QED
    BY <2>1, <2>2, <2>3
<1>2. ASSUME NEW t \in Seq(Received), NEW e \in Received, t \in G
      PROVE  Append(t, e) \in G
  <2> DEFINE u == Unescaped(t)
             x == Append(t, e)
  <2>1. u \in [body : Seq(Elements), esc : BOOLEAN] /\ Len(u.body) <= Len(t)
    BY <1>2
  <2>2. x \in Seq(Received) /\ Len(x) = Len(t) + 1 /\ Len(t) \in Nat /\ x[Len(x)] = e /\ x # <<>>
    BY Appended, AppendProperties
  <2>3. Unescaped(x) = Unescape(u, e)
    BY UnescapedFold
  <2>4. e \in Elements /\ Xor4(e) \in Elements /\ Len(u.body) \in Nat
    BY <2>1, Bytes, LenProperties
  <2> HIDE DEF u, x
  <2>5. ASSUME NEW f \in {e, Xor4(e)}, Unescaped(x) = [body |-> Append(u.body, f), esc |-> FALSE]
        PROVE  Right(x, Unescaped(x))
    <3> DEFINE b == Append(u.body, f)
    <3>1. b \in Seq(Elements) /\ Len(b) = Len(u.body) + 1 /\ b[Len(b)] = f
      BY <2>1, <2>4, Appended
    <3> HIDE DEF b
    <3>2. Unescaped(x) = [body |-> b, esc |-> FALSE]
      BY <2>5 DEF b
    <3> QED
      BY <2>1, <2>2, <2>4, <3>1, <3>2
  <2> SUFFICES Right(x, Unescaped(x))
    BY <2>2 DEF x
  <2>6. CASE u.esc
    <3>1. Unescaped(x) = [body |-> Append(u.body, Xor4(e)), esc |-> FALSE]
      BY <2>3, <2>6 DEF Unescape
    <3> HIDE DEF Right
    <3> QED
      BY <2>5, <3>1
  <2>7. CASE ~u.esc /\ e = ESC
    <3>1. Unescaped(x) = [u EXCEPT !.esc = TRUE]
      BY <2>3, <2>7 DEF Unescape
    <3> DEFINE v == [u EXCEPT !.esc = TRUE]
    <3>2. v \in [body : Seq(Elements), esc : BOOLEAN] /\ v.body = u.body /\ v.esc
      BY <2>1
    <3> HIDE DEF v
    <3>3. Right(x, v)
      BY <2>1, <2>2, <2>4, <3>2
    <3> QED
      BY <3>1, <3>3 DEF v
  <2>8. CASE ~u.esc /\ e # ESC
    <3>1. Unescaped(x) = [body |-> Append(u.body, e), esc |-> FALSE]
      BY <2>1, <2>3, <2>8 DEF Unescape
    <3> HIDE DEF Right
    <3> QED
      BY <2>5, <3>1
  <2> QED
    BY <2>6, <2>7, <2>8
<1>3. Seq(Received) \subseteq G
  <2> HIDE DEF G
  <2> QED
    BY <1>1, <1>2, SeqSet
<1> QED
  BY <1>3

\* A message is decoded from its frame, which has no delimiters inside.
THEOREM RoundTrip ==
  ASSUME NEW m \in Contents
  PROVE  LET frame == Encode(m)
         IN  /\ frame \in Seq(Received) /\ Len(frame) \in Nat /\ Len(frame) >= 2
             /\ frame[1] = START /\ frame[Len(frame)] = END
             /\ \A i \in 2..(Len(frame) - 1) : frame[i] \notin {START, END}
             /\ Decode(frame) = <<m>>
<1> DEFINE body  == Append(m, Crc(m))
           x     == Escaped(body)
           front == <<START>> \o x
           frame == front \o <<END>>
<1>1. m \in Seq(Received) /\ Crc(m) \in Received /\ m \in Seq(Byte)
  BY Messages, Bytes, SeqMonotonic
<1>2. body \in Seq(Received)
  BY <1>1, Appended
<1>3. /\ x \in Seq(Received) /\ Len(x) \in Nat
      /\ \A i \in 1..Len(x) : x[i] \notin {START, END}
      /\ Unescaped(x) = [body |-> body, esc |-> FALSE]
  BY <1>2, EscapedFacts, LenProperties
<1>4. Encode(m) = frame
  BY DEF Encode
<1> HIDE DEF x, body
<1>5. <<START>> \in Seq(Received) /\ Len(<<START>>) = 1 /\ <<START>>[1] = START
      /\ <<END>> \in Seq(Received) /\ Len(<<END>>) = 1 /\ <<END>>[1] = END
  BY Bytes, Single
<1>6. /\ front \in Seq(Received) /\ Len(front) = Len(x) + 1 /\ front[1] = START
      /\ \A i \in 2..(Len(x) + 1) : front[i] = x[i - 1]
  BY <1>3, <1>5, ConcatProperties
<1> HIDE DEF front
<1>7. /\ frame \in Seq(Received) /\ Len(frame) = Len(x) + 2 /\ frame[1] = START
      /\ frame[Len(x) + 2] = END
      /\ \A i \in 2..(Len(x) + 1) : frame[i] = x[i - 1]
  BY <1>3, <1>5, <1>6, ConcatProperties
<1> HIDE DEF frame
<1>8. SubSeq(frame, 2, Len(frame) - 1) = x
  <2> DEFINE y == SubSeq(frame, 2, Len(frame) - 1)
  <2>1. Len(frame) - 1 \in Nat /\ Len(frame) - 1 <= Len(frame) /\ 2 <= (Len(frame) - 1) + 1
        /\ (Len(frame) - 1) - 2 + 1 = Len(x)
    BY <1>3, <1>7
  <2>2. y \in Seq(Received) /\ Len(y) = Len(x) /\ \A i \in 1..Len(x) : y[i] = frame[i + 2 - 1]
    BY <1>7, <2>1, Part
  <2> HIDE DEF y
  <2>3. ASSUME NEW i \in 1..Len(x) PROVE y[i] = x[i]
    <3>1. i + 1 \in 2..(Len(x) + 1) /\ i + 2 - 1 = i + 1 /\ (i + 1) - 1 = i
      BY <1>3
    <3> QED
      BY <1>7, <2>2, <3>1
  <2>4. y = x
    BY <1>3, <2>2, <2>3, SeqEqual
  <2> QED
    BY <2>4 DEF y
<1>9. Decode(frame) = <<m>>
  <2>1. /\ Len(body) = Len(m) + 1 /\ Len(m) \in Nat /\ Len(m) >= 2 /\ body[Len(body)] = Crc(m)
        /\ \A i \in 1..Len(m) : body[i] = m[i]
    BY <1>1, Messages, Appended DEF body
  <2>2. Last(body) = Crc(m)
    BY <2>1 DEF Last
  <2>3. Front(body) = m
    <3> DEFINE y == SubSeq(body, 1, Len(body) - 1)
    <3>1. Len(body) - 1 = Len(m)
      BY <2>1
    <3>2. y \in Seq(Received) /\ Len(y) = Len(m) /\ \A i \in 1..Len(m) : y[i] = body[i]
      BY <1>2, <2>1, <3>1, Part
    <3> HIDE DEF y
    <3>3. y = m
      BY <1>1, <2>1, <3>2, SeqEqual
    <3> QED
      BY <3>3 DEF y, Front
  <2>4. ~(FALSE \/ Len(body) < 3 \/ Last(body) # Crc(Front(body)))
    BY <2>1, <2>2, <2>3
  <2> DEFINE u == Unescaped(SubSeq(frame, 2, Len(frame) - 1))
  <2>5. u.body = body /\ u.esc = FALSE
    <3>1. u = Unescaped(x)
      BY <1>8
    <3> HIDE DEF u
    <3>2. u = [body |-> body, esc |-> FALSE]
      BY <1>3, <3>1
    <3> QED
      BY <3>2
  <2>6. Decode(frame) = IF u.esc \/ Len(u.body) < 3 \/ Last(u.body) # Crc(Front(u.body))
                        THEN <<>> ELSE <<Front(u.body)>>
    BY DEF Decode
  <2> HIDE DEF u
  <2> QED
    BY <2>3, <2>4, <2>5, <2>6
<1> QED
  BY <1>3, <1>4, <1>7, <1>9

\* Whatever ends in the assembler's buffer, what is made of it has a CRC received
\* as one.
LEMMA DecodeFacts ==
  ASSUME NEW b \in Seq(Received), Len(b) \in 1..MaxBuffer
  PROVE  LET frame == Append(b, END)
         IN  \/ Decode(frame) = <<>>
             \/ \E c \in Seq(Elements), k \in 1..Len(b) :
                  /\ Decode(frame) = <<c>> /\ Len(c) \in 2..(MaxBuffer - 2)
                  /\ Crc(c) = b[k] /\ b[k] \notin Byte
<1> DEFINE frame == Append(b, END)
           x == SubSeq(frame, 2, Len(frame) - 1)
           u == Unescaped(x)
           c == Front(u.body)
<1>1. /\ frame \in Seq(Received) /\ Len(frame) = Len(b) + 1 /\ Len(b) \in Nat
      /\ \A i \in 1..Len(b) : frame[i] = b[i]
  <2>1. END \in Received
    BY Bytes
  <2> QED
    BY <2>1, Appended
<1>2. /\ x \in Seq(Received) /\ Len(x) = Len(b) - 1
      /\ \A i \in 1..Len(x) : x[i] = b[i + 1]
  <2> HIDE DEF frame
  <2>1. Len(frame) - 1 \in Nat /\ Len(frame) - 1 <= Len(frame) /\ 2 <= (Len(frame) - 1) + 1
        /\ (Len(frame) - 1) - 2 + 1 = Len(b) - 1
    BY <1>1
  <2>2. x \in Seq(Received) /\ Len(x) = Len(b) - 1
        /\ \A i \in 1..Len(x) : x[i] = frame[i + 2 - 1]
    BY <1>1, <2>1, Part
  <2> HIDE DEF x
  <2>3. ASSUME NEW i \in 1..Len(x) PROVE x[i] = b[i + 1]
    <3>1. i + 1 \in 1..Len(b) /\ i + 2 - 1 = i + 1
      BY <1>1, <2>2
    <3> QED
      BY <1>1, <2>2, <3>1
  <2> QED
    BY <2>2, <2>3
<1> HIDE DEF x
<1>3. /\ u \in [body : Seq(Elements), esc : BOOLEAN] /\ Len(u.body) <= Len(x) /\ Len(u.body) \in Nat
      /\ ~u.esc /\ u.body # <<>> =>
           x # <<>> /\ u.body[Len(u.body)] \in {x[Len(x)], Xor4(x[Len(x)])}
  BY <1>2, UnescapedFacts, LenProperties
<1> HIDE DEF u
<1>4. CASE u.esc \/ Len(u.body) < 3 \/ Last(u.body) # Crc(c)
  BY <1>4 DEF Decode, x, u
<1>5. CASE ~u.esc /\ Len(u.body) >= 3 /\ Last(u.body) = Crc(c)
  <2>1. Decode(frame) = <<c>>
    BY <1>3, <1>5 DEF Decode, x, u
  <2>2. c \in Seq(Elements) /\ Len(c) = Len(u.body) - 1
    <3>1. u.body \in Seq(Elements)
      BY <1>3
    <3>2. \A i \in 1..(Len(u.body) - 1) : u.body[i] \in Elements
      BY <1>3, <3>1, ElementOfSeq
    <3> QED
      BY <1>3, <1>5, <3>2, SubSeqProperties DEF Front
  <2>3. Len(c) \in 2..(MaxBuffer - 2)
    BY <1>1, <1>2, <1>3, <1>5, <2>2, Messages
  <2> DEFINE k == Len(b)
  <2>4. x # <<>> /\ Crc(c) \in {x[Len(x)], Xor4(x[Len(x)])}
    <3>1. u.body # <<>>
      BY <1>5, EmptySeq
    <3> QED
      BY <1>3, <1>5, <3>1 DEF Last
  <2>5. Len(x) \in 1..Len(x) /\ x[Len(x)] = b[k] /\ k \in 1..Len(b)
    <3>1. Len(x) \in Nat /\ Len(x) >= 3 /\ Len(x) + 1 = k
      BY <1>1, <1>2, <1>3, <1>5
    <3> QED
      BY <1>1, <1>2, <3>1
  <2>6. b[k] \in Received
    BY <2>5, ElementOfSeq
  <2>7. Crc(c) = b[k] /\ b[k] \notin Byte
    BY <2>2, <2>3, <2>4, <2>5, <2>6, CrcOfBody, OnlyCrcs
  <2> QED
    BY <2>1, <2>2, <2>3, <2>5, <2>7
<1> QED
  BY <1>3, <1>4, <1>5


\* A frame is made of bytes and the CRC of its message.
LEMMA FrameElements ==
  ASSUME NEW m \in Contents, NEW i \in 1..Len(Encode(m))
  PROVE  Encode(m)[i] \in Byte \cup {Crc(m)}
<1> DEFINE S == Byte \cup {Crc(m)}
           G == {t \in Seq(S) : Escaped(t) \in Seq(S)}
           body == Append(m, Crc(m))
           x == Escaped(body)
           front == <<START>> \o x
<1>1. <<>> \in G
  BY EscapedFold, EmptySeq
<1>2. ASSUME NEW t \in Seq(S), NEW e \in S, t \in G PROVE Append(t, e) \in G
  <2>1. Escaped(Append(t, e)) = Escape(Escaped(t), e) /\ Append(t, e) \in Seq(S)
    BY EscapedFold, AppendProperties
  <2>2. Escaped(t) \in Seq(S)
    BY <1>2
  <2> DEFINE y == Escaped(t)
  <2> HIDE DEF y
  <2>3. CASE e \in {START, END, ESC}
    <3>1. Xor4(e) \in S /\ ESC \in S
      BY <2>3, Bytes, Xor4Byte
    <3>2. Append(y, ESC) \in Seq(S)
      BY <2>2, <3>1, AppendProperties DEF y
    <3>3. Append(Append(y, ESC), Xor4(e)) \in Seq(S)
      BY <3>1, <3>2, AppendProperties
    <3> QED
      BY <2>1, <2>3, <3>3 DEF Escape, y
  <2>4. CASE e \notin {START, END, ESC}
    <3>1. Append(y, e) \in Seq(S)
      BY <2>2, AppendProperties DEF y
    <3> QED
      BY <2>1, <2>4, <3>1 DEF Escape, y
  <2> QED
    BY <2>3, <2>4
<1>3. Seq(S) \subseteq G
  <2> HIDE DEF G
  <2> QED
    BY <1>1, <1>2, SeqSet
<1>4. m \in Seq(S) /\ Crc(m) \in S /\ START \in S /\ END \in S
  <2>1. m \in Seq(Byte) /\ Byte \subseteq S
    BY Messages
  <2>2. m \in Seq(S)
    BY <2>1, SeqMonotonic
  <2> QED
    BY <2>2, Bytes
<1>5. body \in Seq(S)
  BY <1>4, AppendProperties
<1>6. x \in Seq(S)
  BY <1>3, <1>5
<1> HIDE DEF x
<1>7. <<START>> \in Seq(S) /\ <<END>> \in Seq(S)
  BY <1>4, Single
<1>8. front \in Seq(S)
  BY <1>6, <1>7, ConcatProperties
<1> HIDE DEF front
<1>9. front \o <<END>> \in Seq(S)
  BY <1>7, <1>8, ConcatProperties
<1>10. Encode(m) \in Seq(S)
  BY <1>9 DEF Encode, front, x
<1> HIDE DEF S
<1>11. Encode(m)[i] \in S
  BY <1>10, ElementOfSeq
<1> QED
  BY <1>11 DEF S

-----------------------------------------------------------------------------
(***************************************************************************)
(* The inductive invariant, of the messages s sent, those of which a byte  *)
(* was lost, broke, the assembler a and the bytes w still to be sent.      *)
(***************************************************************************)
Element(s) == [byte : Received, of : 1..Len(s), at : Nat \ {0}]

Frame(s, e) == Encode(s[e.of])

Typed(s, broke, a, w) ==
  /\ s \in Seq(Contents)
  /\ broke \subseteq 1..Len(s)
  /\ a \in [in_frame : BOOLEAN, buffer : Seq(Received), frames : Seq(Seq(Elements))]
  /\ w \in Seq(Element(s))

\* The bytes are those of the frames, the frames follow each other, and none of
\* the last ones is missing.
InOrder(s, w) ==
  /\ \A k \in 1..Len(w) :
       /\ w[k].at <= Len(Frame(s, w[k]))
       /\ w[k].byte = Frame(s, w[k])[w[k].at]
       /\ IF w[k].at = Len(Frame(s, w[k])) THEN k < Len(w) => w[k + 1].at = 1
          ELSE k < Len(w) /\ w[k + 1].of = w[k].of /\ w[k + 1].at = w[k].at + 1
       /\ \A n \in w[k].of..Len(s) : \E l \in k..Len(w) : w[l].of = n
  /\ \A j, k \in 1..Len(w) :
       j < k => /\ w[j].of <= w[k].of
                /\ w[j].at = Len(Frame(s, w[j])) => w[j].of < w[k].of

\* What the assembler holds.
Buffered(a) ==
  /\ a.in_frame => Len(a.buffer) \in 1..MaxBuffer
  /\ ~a.in_frame => a.buffer = <<>>
  /\ \A k \in 1..Len(a.frames) : Len(a.frames[k]) \in 2..(MaxBuffer - 2)

\* Of a message that is half sent, none of it lost, the assembler has that half.
UnderWay(s, broke, a, w) ==
  w # <<>> /\ w[1].at > 1 /\ w[1].of \notin broke /\ Fits(s[w[1].of]) =>
    a.in_frame /\ a.buffer = SubSeq(Frame(s, w[1]), 1, w[1].at - 1)

\* f says which message each one returned has the CRC of: each has one of its
\* own, in the order sent, and so has every CRC in the buffer.
Tracing(f, s, a, w) ==
  /\ f \in [1..Len(a.frames) -> 1..Len(s)]
  /\ \A i, j \in 1..Len(a.frames) : i < j => f[i] < f[j]
  /\ \A i \in 1..Len(a.frames) : Crc(a.frames[i]) = Crc(s[f[i]])
  /\ \A i \in 1..Len(a.frames), l \in 1..Len(w) : f[i] < w[l].of
  /\ \A k \in 1..Len(a.buffer) :
       \/ a.buffer[k] \in Byte
       \/ \E n \in 1..Len(s) :
            /\ a.buffer[k] = Crc(s[n])
            /\ \A i \in 1..Len(a.frames) : f[i] < n
            /\ \A l \in 1..Len(w) : n <= w[l].of

Traced(s, a, w) == \E f : Tracing(f, s, a, w)

Whole(s, broke, w) ==
  {i \in 1..Len(s) : i \notin broke /\ Fits(s[i]) /\ \A k \in 1..Len(w) : w[k].of # i}

Returned(s, broke, a, w) == FoundIn(Whole(s, broke, w), s, a.frames)

Good(s, broke, a, w) ==
  /\ Typed(s, broke, a, w)
  /\ InOrder(s, w)
  /\ Buffered(a)
  /\ UnderWay(s, broke, a, w)
  /\ Traced(s, a, w)
  /\ Returned(s, broke, a, w)

-----------------------------------------------------------------------------
(***************************************************************************)
(* Without its first n bytes the wire is in order still.                   *)
(***************************************************************************)
LEMMA Rest ==
  ASSUME NEW s, NEW w \in Seq(Element(s)), NEW n \in Nat, n <= Len(w)
  PROVE  LET x == SubSeq(w, n + 1, Len(w))
         IN  /\ x \in Seq(Element(s)) /\ Len(x) = Len(w) - n /\ Len(x) \in Nat
             /\ \A i \in 1..Len(x) : x[i] = w[i + n] /\ i + n \in 1..Len(w)
<1>1. Len(w) \in Nat
  BY LenProperties
<1>2. n + 1 \in Nat \ {0} /\ Len(w) <= Len(w) /\ n + 1 <= Len(w) + 1
      /\ Len(w) - (n + 1) + 1 = Len(w) - n
  BY <1>1
<1> DEFINE x == SubSeq(w, n + 1, Len(w))
<1>3. /\ x \in Seq(Element(s)) /\ Len(x) = Len(w) - n
      /\ \A i \in 1..(Len(w) - n) : x[i] = w[i + (n + 1) - 1]
  <2> DEFINE m == n + 1
  <2>1. m \in Nat \ {0} /\ m <= Len(w) + 1 /\ Len(w) - m + 1 = Len(w) - n
    BY <1>2
  <2> HIDE DEF m
  <2>2. /\ SubSeq(w, m, Len(w)) \in Seq(Element(s)) /\ Len(SubSeq(w, m, Len(w))) = Len(w) - m + 1
        /\ \A i \in 1..(Len(w) - m + 1) : SubSeq(w, m, Len(w))[i] = w[i + m - 1]
    BY <1>1, <2>1, Part
  <2> QED
    BY <2>1, <2>2 DEF m
<1> HIDE DEF x
<1>4. \A i \in 1..Len(x) : x[i] = w[i + n] /\ i + n \in 1..Len(w)
  <2>1. \A i \in 1..Len(x) : i + (n + 1) - 1 = i + n /\ i + n \in 1..Len(w)
    BY <1>1, <1>3
  <2> QED
    BY <1>3, <2>1
<1>5. Len(x) \in Nat
  BY <1>1, <1>3
<1> QED
  BY <1>3, <1>4, <1>5 DEF x

LEMMA Elem ==
  ASSUME NEW s \in Seq(Contents), NEW w \in Seq(Element(s))
  PROVE  /\ Len(w) \in Nat /\ Len(s) \in Nat
         /\ \A k \in 1..Len(w) :
              /\ w[k].of \in 1..Len(s) /\ w[k].of \in Nat /\ w[k].at \in Nat \ {0}
              /\ w[k].byte \in Received /\ s[w[k].of] \in Contents
              /\ Len(Frame(s, w[k])) \in Nat /\ Len(Frame(s, w[k])) >= 2
<1>1. Len(w) \in Nat /\ Len(s) \in Nat
  BY LenProperties
<1>2. ASSUME NEW k \in 1..Len(w)
      PROVE  /\ w[k].of \in 1..Len(s) /\ w[k].of \in Nat /\ w[k].at \in Nat \ {0}
             /\ w[k].byte \in Received /\ s[w[k].of] \in Contents
             /\ Len(Frame(s, w[k])) \in Nat /\ Len(Frame(s, w[k])) >= 2
  <2>1. w[k] \in Element(s)
    BY ElementOfSeq
  <2>2. w[k].of \in 1..Len(s) /\ w[k].at \in Nat \ {0} /\ w[k].byte \in Received
    BY <2>1 DEF Element
  <2>3. s[w[k].of] \in Contents
    BY <2>2, ElementOfSeq
  <2>4. Len(Frame(s, w[k])) \in Nat /\ Len(Frame(s, w[k])) >= 2
    BY <2>3, RoundTrip DEF Frame
  <2> QED
    BY <1>1, <2>2, <2>3, <2>4
<1> QED
  BY <1>1, <1>2

LEMMA RestInOrder ==
  ASSUME NEW s \in Seq(Contents), NEW w \in Seq(Element(s)), NEW n \in Nat, n <= Len(w),
         InOrder(s, w)
  PROVE  InOrder(s, SubSeq(w, n + 1, Len(w)))
<1> DEFINE x == SubSeq(w, n + 1, Len(w))
<1>1. /\ x \in Seq(Element(s)) /\ Len(x) = Len(w) - n /\ Len(x) \in Nat
      /\ \A i \in 1..Len(x) : x[i] = w[i + n] /\ i + n \in 1..Len(w)
  BY Rest
<1>2. Len(w) \in Nat /\ Len(s) \in Nat /\ \A k \in 1..Len(w) : w[k].of \in 1..Len(s) /\ w[k].of \in Nat
  BY Elem
<1> HIDE DEF x
<1>3. ASSUME NEW k \in 1..Len(x)
      PROVE  /\ x[k].at <= Len(Frame(s, x[k]))
             /\ x[k].byte = Frame(s, x[k])[x[k].at]
             /\ IF x[k].at = Len(Frame(s, x[k])) THEN k < Len(x) => x[k + 1].at = 1
                ELSE k < Len(x) /\ x[k + 1].of = x[k].of /\ x[k + 1].at = x[k].at + 1
             /\ \A m \in x[k].of..Len(s) : \E l \in k..Len(x) : x[l].of = m
  <2>1. k + n \in 1..Len(w) /\ x[k] = w[k + n] /\ (k < Len(x) <=> k + n < Len(w))
    BY <1>1, <1>2
  <2>2. k < Len(x) => x[k + 1] = w[(k + n) + 1]
    <3>1. k < Len(x) => k + 1 \in 1..Len(x) /\ (k + 1) + n = (k + n) + 1
      BY <1>1
    <3> QED
      BY <1>1, <3>1
  <2>3. ASSUME NEW m \in x[k].of..Len(s) PROVE \E l \in k..Len(x) : x[l].of = m
    <3>1. PICK l \in (k + n)..Len(w) : w[l].of = m
      BY <2>1, <2>3 DEF InOrder
    <3>2. l - n \in k..Len(x) /\ l - n \in 1..Len(x) /\ (l - n) + n = l
      BY <1>1, <1>2, <2>1
    <3> QED
      BY <1>1, <3>1, <3>2
  <2> QED
    BY <2>1, <2>2, <2>3 DEF InOrder
<1>4. ASSUME NEW j \in 1..Len(x), NEW k \in 1..Len(x), j < k
      PROVE  /\ x[j].of <= x[k].of
             /\ x[j].at = Len(Frame(s, x[j])) => x[j].of < x[k].of
  <2>1. j + n \in 1..Len(w) /\ k + n \in 1..Len(w) /\ j + n < k + n
        /\ x[j] = w[j + n] /\ x[k] = w[k + n]
    BY <1>1, <1>4
  <2> QED
    BY <2>1 DEF InOrder
<1>5. InOrder(s, x)
  BY <1>3, <1>4 DEF InOrder
<1> QED
  BY <1>5 DEF x

-----------------------------------------------------------------------------
(***************************************************************************)
(* One byte e of the wire is fed, and x is left.                           *)
(***************************************************************************)
First(s, w, e, x) ==
  /\ s \in Seq(Contents) /\ w \in Seq(Element(s)) /\ InOrder(s, w)
  /\ w # <<>> /\ e = w[1] /\ x = SubSeq(w, 2, Len(w))

LEMMA FirstByte ==
  ASSUME NEW s, NEW w, NEW e, NEW x, First(s, w, e, x)
  PROVE  /\ e.of \in 1..Len(s) /\ Len(s) \in Nat /\ s[e.of] \in Contents
         /\ e.at \in Nat \ {0} /\ Len(Frame(s, e)) \in Nat
         /\ e.at <= Len(Frame(s, e)) /\ Len(Frame(s, e)) >= 2
         /\ e.byte = Frame(s, e)[e.at] /\ e.byte \in Received
         /\ (e.byte = START <=> e.at = 1) /\ (e.byte = END <=> e.at = Len(Frame(s, e)))
         /\ x \in Seq(Element(s)) /\ Len(x) \in Nat /\ Len(w) = Len(x) + 1
         /\ \A k \in 1..Len(x) : x[k] = w[k + 1] /\ k + 1 \in 1..Len(w)
         /\ \A k \in 1..Len(x) : e.of <= x[k].of /\ x[k].of \in 1..Len(s)
         /\ \A k \in 1..Len(x) : e.at = Len(Frame(s, e)) => e.of < x[k].of
         /\ e.at = Len(Frame(s, e)) /\ Len(x) > 0 => x[1].at = 1
         /\ e.at # Len(Frame(s, e)) => Len(x) > 0 /\ x[1].of = e.of /\ x[1].at = e.at + 1
         /\ \A n \in e.of..Len(s) : n = e.of \/ \E k \in 1..Len(x) : x[k].of = n
         /\ InOrder(s, x)
<1>1. Len(w) \in Nat \ {0} /\ 1 \in 1..Len(w) /\ 1 <= Len(w)
  BY EmptySeq DEF First
<1>2. w \in Seq(Element(s)) /\ s \in Seq(Contents) /\ InOrder(s, w) /\ e = w[1]
  BY DEF First
<1>3. /\ e.of \in 1..Len(s) /\ Len(s) \in Nat /\ s[e.of] \in Contents
      /\ e.at \in Nat \ {0} /\ Len(Frame(s, e)) \in Nat /\ Len(Frame(s, e)) >= 2
      /\ e.byte \in Received
      /\ \A k \in 1..Len(w) : w[k].of \in 1..Len(s)
  BY <1>1, <1>2, Elem
<1>4. /\ e.at <= Len(Frame(s, e)) /\ e.byte = Frame(s, e)[e.at]
      /\ IF e.at = Len(Frame(s, e)) THEN 1 < Len(w) => w[1 + 1].at = 1
         ELSE 1 < Len(w) /\ w[1 + 1].of = e.of /\ w[1 + 1].at = e.at + 1
      /\ \A n \in e.of..Len(s) : \E l \in 1..Len(w) : w[l].of = n
      /\ \A k \in 1..Len(w) : 1 < k => /\ e.of <= w[k].of
                                       /\ e.at = Len(Frame(s, e)) => e.of < w[k].of
  BY <1>1, <1>2 DEF InOrder
<1>5. (e.byte = START <=> e.at = 1) /\ (e.byte = END <=> e.at = Len(Frame(s, e)))
  <2> DEFINE frame == Frame(s, e)
  <2>1. /\ frame[1] = START /\ frame[Len(frame)] = END
        /\ \A i \in 2..(Len(frame) - 1) : frame[i] \notin {START, END}
    BY <1>3, RoundTrip DEF Frame
  <2>2. Len(frame) \in Nat /\ Len(frame) >= 2 /\ e.byte = frame[e.at] /\ e.at \in 1..Len(frame)
    BY <1>3, <1>4
  <2> HIDE DEF frame
  <2>3. e.at = 1 \/ e.at = Len(frame) \/ e.at \in 2..(Len(frame) - 1)
    BY <2>2
  <2>4. START # END
    BY Bytes
  <2>5. (e.byte = START <=> e.at = 1) /\ (e.byte = END <=> e.at = Len(frame))
    BY <2>1, <2>2, <2>3, <2>4
  <2> QED
    BY <2>5 DEF frame
<1>6. /\ x \in Seq(Element(s)) /\ Len(x) = Len(w) - 1 /\ Len(x) \in Nat
      /\ \A k \in 1..Len(x) : x[k] = w[k + 1] /\ k + 1 \in 1..Len(w)
      /\ InOrder(s, x)
  <2> DEFINE n == 1
  <2>1. n \in Nat /\ n <= Len(w) /\ n + 1 = 2
    BY <1>1
  <2> HIDE DEF n
  <2>2. x = SubSeq(w, n + 1, Len(w))
    BY <2>1 DEF First
  <2>3. /\ x \in Seq(Element(s)) /\ Len(x) = Len(w) - n /\ Len(x) \in Nat
        /\ \A k \in 1..Len(x) : x[k] = w[k + n] /\ k + n \in 1..Len(w)
    BY <1>2, <2>1, <2>2, Rest
  <2>4. InOrder(s, x)
    BY <1>2, <2>1, <2>2, RestInOrder
  <2> QED
    BY <2>3, <2>4 DEF n
<1>7. Len(w) = Len(x) + 1 /\ (1 < Len(w) <=> Len(x) > 0)
  BY <1>1, <1>6
<1>8. Len(x) > 0 => x[1] = w[1 + 1]
  BY <1>6
<1>9. \A k \in 1..Len(x) : /\ e.of <= x[k].of /\ x[k].of \in 1..Len(s)
                           /\ e.at = Len(Frame(s, e)) => e.of < x[k].of
  <2>1. \A k \in 1..Len(x) : 1 < k + 1
    OBVIOUS
  <2> QED
    BY <1>3, <1>4, <1>6, <2>1
<1>10. ASSUME NEW n \in e.of..Len(s) PROVE n = e.of \/ \E k \in 1..Len(x) : x[k].of = n
  <2>1. PICK l \in 1..Len(w) : w[l].of = n
    BY <1>4
  <2>2. CASE l = 1
    BY <1>2, <2>1, <2>2
  <2>3. CASE l > 1
    <3>1. l - 1 \in 1..Len(x) /\ (l - 1) + 1 = l
      BY <1>7, <1>6, <2>3
    <3> QED
      BY <1>6, <2>1, <3>1
  <2> QED
    BY <2>2, <2>3
<1> QED
  BY <1>3, <1>4, <1>5, <1>6, <1>7, <1>8, <1>9, <1>10

\* What the assembler makes of a byte.
LEMMA FeedFacts ==
  ASSUME NEW a \in [in_frame : BOOLEAN, buffer : Seq(Received), frames : Seq(Seq(Elements))],
         NEW b \in Received, Buffered(a)
  PROVE  LET c == Feed(a, b)
         IN  /\ c = [in_frame |-> c.in_frame, buffer |-> c.buffer, frames |-> c.frames]
             /\ c.in_frame \in BOOLEAN
             /\ \/ b # START /\ ~c.in_frame /\ c.buffer = <<>> /\ c.frames = a.frames
                    /\ (a.in_frame => b # END /\ Len(a.buffer) + 1 > MaxBuffer)
                \/ b = START /\ c.in_frame /\ c.buffer = <<b>> /\ c.frames = a.frames
                \/ /\ a.in_frame /\ b \notin {START, END} /\ Len(a.buffer) + 1 <= MaxBuffer
                   /\ c.in_frame /\ c.buffer = Append(a.buffer, b) /\ c.frames = a.frames
                \/ /\ a.in_frame /\ b = END
                   /\ ~c.in_frame /\ c.buffer = <<>>
                   /\ c.frames = a.frames \o Decode(Append(a.buffer, b))
<1> DEFINE buffer == Append(a.buffer, b)
           d == Decode(buffer)
<1>1. Len(buffer) = Len(a.buffer) + 1 /\ Len(a.buffer) \in Nat
  <2>1. a.buffer \in Seq(Received)
    OBVIOUS
  <2> QED
    BY <2>1, AppendProperties, LenProperties
<1>2. MaxBuffer \in Nat /\ START # END
  BY Messages, Bytes
<1>3. CASE ~a.in_frame /\ b = START
  <2>1. Feed(a, b) = [a EXCEPT !.in_frame = TRUE, !.buffer = <<b>>]
    BY <1>3 DEF Feed
  <2> QED
    BY <1>3, <2>1
<1>4. CASE ~a.in_frame /\ b # START
  <2>1. Feed(a, b) = a
    BY <1>4 DEF Feed
  <2> QED
    BY <1>4, <2>1 DEF Buffered
<1>5. CASE a.in_frame /\ b = END
  <2>1. Feed(a, b) = [Reset(a) EXCEPT !.frames = @ \o d]
    BY <1>5 DEF Feed
  <2> HIDE DEF d
  <2> QED
    BY <1>5, <2>1 DEF Reset, d
<1>6. CASE a.in_frame /\ b = START
  <2>1. Feed(a, b) = [a EXCEPT !.buffer = <<b>>]
    BY <1>2, <1>6 DEF Feed
  <2> QED
    BY <1>6, <2>1
<1>7. CASE a.in_frame /\ b \notin {START, END} /\ Len(buffer) > MaxBuffer
  <2>1. Feed(a, b) = Reset(a)
    BY <1>7 DEF Feed
  <2> QED
    BY <1>1, <1>7, <2>1 DEF Reset
<1>8. CASE a.in_frame /\ b \notin {START, END} /\ ~(Len(buffer) > MaxBuffer)
  <2>1. Feed(a, b) = [a EXCEPT !.buffer = buffer]
    BY <1>8 DEF Feed
  <2> HIDE DEF buffer
  <2>2. Len(a.buffer) + 1 <= MaxBuffer
    BY <1>1, <1>2, <1>8
  <2> QED
    BY <1>8, <2>1, <2>2 DEF buffer
<1> QED
  BY <1>3, <1>4, <1>5, <1>6, <1>7, <1>8

Assembler == [in_frame : BOOLEAN, buffer : Seq(Received), frames : Seq(Seq(Elements))]

LEMMA Ended ==
  ASSUME NEW a \in Assembler, Buffered(a), a.in_frame
  PROVE  LET F == a.frames \o Decode(Append(a.buffer, END))
         IN  \/ F = a.frames
             \/ \E d \in Seq(Elements), k \in 1..Len(a.buffer) :
                  /\ F = Append(a.frames, d) /\ Len(d) \in 2..(MaxBuffer - 2)
                  /\ Crc(d) = a.buffer[k] /\ a.buffer[k] \notin Byte
<1> DEFINE D == Decode(Append(a.buffer, END))
<1>1. a.buffer \in Seq(Received) /\ a.frames \in Seq(Seq(Elements)) /\ Len(a.buffer) \in 1..MaxBuffer
  BY DEF Assembler, Buffered
<1>2. \/ D = <<>>
      \/ \E d \in Seq(Elements), k \in 1..Len(a.buffer) :
           /\ D = <<d>> /\ Len(d) \in 2..(MaxBuffer - 2)
           /\ Crc(d) = a.buffer[k] /\ a.buffer[k] \notin Byte
  BY <1>1, DecodeFacts
<1>3. a.frames \o <<>> = a.frames /\ \A d \in Seq(Elements) : a.frames \o <<d>> = Append(a.frames, d)
  BY <1>1, ConcatEmptySeq, AppendIsConcat
<1> HIDE DEF D
<1>4. CASE D = <<>>
  BY <1>3, <1>4 DEF D
<1>5. ASSUME NEW d \in Seq(Elements), NEW k \in 1..Len(a.buffer), D = <<d>>,
             Len(d) \in 2..(MaxBuffer - 2), Crc(d) = a.buffer[k], a.buffer[k] \notin Byte
      PROVE  a.frames \o D = Append(a.frames, d)
  BY <1>3, <1>5
<1> QED
  BY <1>2, <1>4, <1>5 DEF D

LEMMA FeedTyped ==
  ASSUME NEW a \in Assembler, NEW b \in Received, Buffered(a)
  PROVE  Feed(a, b) \in Assembler /\ Buffered(Feed(a, b))
<1> DEFINE c == Feed(a, b)
<1>1. /\ c = [in_frame |-> c.in_frame, buffer |-> c.buffer, frames |-> c.frames]
      /\ c.in_frame \in BOOLEAN
      /\ \/ b # START /\ ~c.in_frame /\ c.buffer = <<>> /\ c.frames = a.frames
             /\ (a.in_frame => b # END /\ Len(a.buffer) + 1 > MaxBuffer)
         \/ b = START /\ c.in_frame /\ c.buffer = <<b>> /\ c.frames = a.frames
         \/ /\ a.in_frame /\ b \notin {START, END} /\ Len(a.buffer) + 1 <= MaxBuffer
            /\ c.in_frame /\ c.buffer = Append(a.buffer, b) /\ c.frames = a.frames
         \/ /\ a.in_frame /\ b = END
            /\ ~c.in_frame /\ c.buffer = <<>>
            /\ c.frames = a.frames \o Decode(Append(a.buffer, b))
  BY FeedFacts DEF Assembler
<1> HIDE DEF c
<1>2. /\ a.buffer \in Seq(Received) /\ a.frames \in Seq(Seq(Elements)) /\ Len(a.buffer) \in Nat
      /\ \A k \in 1..Len(a.frames) : Len(a.frames[k]) \in 2..(MaxBuffer - 2)
      /\ MaxBuffer \in Nat \ {0} /\ Len(a.frames) \in Nat
  BY Messages, LenProperties DEF Assembler, Buffered
<1>3. c.frames \in Seq(Seq(Elements)) /\ \A k \in 1..Len(c.frames) : Len(c.frames[k]) \in 2..(MaxBuffer - 2)
  <2>1. CASE c.frames = a.frames
    BY <1>2, <2>1
  <2>2. CASE a.in_frame /\ b = END /\ c.frames = a.frames \o Decode(Append(a.buffer, b))
    <3>1. \/ c.frames = a.frames
          \/ \E d \in Seq(Elements) : c.frames = Append(a.frames, d) /\ Len(d) \in 2..(MaxBuffer - 2)
      BY <2>2, Ended
    <3>2. ASSUME NEW d \in Seq(Elements), c.frames = Append(a.frames, d), Len(d) \in 2..(MaxBuffer - 2)
          PROVE  c.frames \in Seq(Seq(Elements))
                 /\ \A k \in 1..Len(c.frames) : Len(c.frames[k]) \in 2..(MaxBuffer - 2)
      <4>1. /\ c.frames \in Seq(Seq(Elements)) /\ Len(c.frames) = Len(a.frames) + 1
            /\ c.frames[Len(c.frames)] = d /\ \A k \in 1..Len(a.frames) : c.frames[k] = a.frames[k]
        BY <1>2, <3>2, Appended
      <4>2. \A k \in 1..Len(c.frames) : k = Len(c.frames) \/ k \in 1..Len(a.frames)
        BY <1>2, <4>1
      <4> QED
        BY <1>2, <3>2, <4>1, <4>2
    <3> QED
      BY <1>2, <3>1, <3>2
  <2> QED
    BY <1>1, <2>1, <2>2
<1>4. /\ c.in_frame \in BOOLEAN /\ c.buffer \in Seq(Received)
      /\ c.in_frame => Len(c.buffer) \in 1..MaxBuffer
      /\ ~c.in_frame => c.buffer = <<>>
  <2>1. CASE c.in_frame = FALSE /\ c.buffer = <<>>
    BY <2>1, EmptySeq
  <2>2. CASE c.in_frame /\ c.buffer = <<b>>
    <3>1. c.buffer \in Seq(Received) /\ Len(c.buffer) = 1
      BY <2>2, Single
    <3> QED
      BY <1>1, <1>2, <2>2, <3>1
  <2>3. CASE Len(a.buffer) + 1 <= MaxBuffer /\ c.in_frame /\ c.buffer = Append(a.buffer, b)
    <3>1. c.buffer \in Seq(Received) /\ Len(c.buffer) = Len(a.buffer) + 1
      BY <1>2, <2>3, AppendProperties
    <3> QED
      BY <1>1, <1>2, <2>3, <3>1
  <2> QED
    BY <1>1, <2>1, <2>2, <2>3
<1>5. c \in Assembler
  BY <1>1, <1>3, <1>4 DEF Assembler
<1>6. Buffered(c)
  BY <1>3, <1>4 DEF Buffered
<1> QED
  BY <1>5, <1>6 DEF c

\* What has arrived of a message of which more is to come is in the buffer.
LEMMA FeedUnderWay ==
  ASSUME NEW s, NEW broke, NEW w, NEW e, NEW x, NEW a \in Assembler, First(s, w, e, x),
         Buffered(a), UnderWay(s, broke, a, w)
  PROVE  UnderWay(s, broke, Feed(a, e.byte), x)
<1> DEFINE c == Feed(a, e.byte)
           frame == Frame(s, e)
<1>1. /\ e.of \in 1..Len(s) /\ s[e.of] \in Contents /\ e.at \in Nat \ {0} /\ Len(frame) \in Nat
      /\ e.at <= Len(frame) /\ Len(frame) >= 2 /\ e.byte = frame[e.at] /\ e.byte \in Received
      /\ (e.byte = START <=> e.at = 1) /\ (e.byte = END <=> e.at = Len(frame))
      /\ Len(x) \in Nat /\ x \in Seq(Element(s))
      /\ e.at = Len(frame) /\ Len(x) > 0 => x[1].at = 1
      /\ e.at # Len(frame) => Len(x) > 0 /\ x[1].of = e.of /\ x[1].at = e.at + 1
  BY FirstByte
<1> SUFFICES ASSUME x # <<>>, x[1].at > 1, x[1].of \notin broke, Fits(s[x[1].of])
             PROVE  c.in_frame /\ c.buffer = SubSeq(Frame(s, x[1]), 1, x[1].at - 1)
  BY DEF UnderWay
<1>2. Len(x) > 0
  BY <1>1, EmptySeq
<1>3. e.at # Len(frame) /\ x[1].of = e.of /\ x[1].at = e.at + 1 /\ (e.at + 1) - 1 = e.at
  BY <1>1, <1>2
<1>4. Frame(s, x[1]) = frame /\ frame \in Seq(Received)
  BY <1>1, <1>3, RoundTrip DEF Frame
<1>5. Len(frame) <= MaxBuffer + 1 /\ MaxBuffer \in Nat
  BY <1>3, Messages DEF Fits, Frame
<1> HIDE DEF frame
<1> SUFFICES c.in_frame /\ c.buffer = SubSeq(frame, 1, e.at)
  BY <1>3, <1>4
<1>6. /\ c = [in_frame |-> c.in_frame, buffer |-> c.buffer, frames |-> c.frames]
      /\ \/ e.byte # START /\ ~c.in_frame /\ c.buffer = <<>> /\ c.frames = a.frames
             /\ (a.in_frame => e.byte # END /\ Len(a.buffer) + 1 > MaxBuffer)
         \/ e.byte = START /\ c.in_frame /\ c.buffer = <<e.byte>> /\ c.frames = a.frames
         \/ /\ a.in_frame /\ e.byte \notin {START, END} /\ Len(a.buffer) + 1 <= MaxBuffer
            /\ c.in_frame /\ c.buffer = Append(a.buffer, e.byte) /\ c.frames = a.frames
         \/ /\ a.in_frame /\ e.byte = END
            /\ ~c.in_frame /\ c.buffer = <<>>
            /\ c.frames = a.frames \o Decode(Append(a.buffer, e.byte))
  BY <1>1, FeedFacts DEF Assembler
<1> HIDE DEF c
<1>7. /\ SubSeq(frame, 1, e.at - 1) \in Seq(Received) /\ Len(SubSeq(frame, 1, e.at - 1)) = e.at - 1
      /\ SubSeq(frame, 1, e.at) = Append(SubSeq(frame, 1, e.at - 1), e.byte)
      /\ e.at = 1 => SubSeq(frame, 1, e.at) = <<e.byte>>
  <2>1. e.at \in 1..Len(frame)
    BY <1>1
  <2>2. /\ SubSeq(frame, 1, e.at - 1) \in Seq(Received) /\ Len(SubSeq(frame, 1, e.at - 1)) = e.at - 1
        /\ SubSeq(frame, 1, e.at) = Append(SubSeq(frame, 1, e.at - 1), frame[e.at])
        /\ e.at = 1 => SubSeq(frame, 1, e.at) = <<frame[1]>>
    BY <1>4, <2>1, Prefix
  <2>3. e.byte = frame[e.at]
    BY <1>1
  <2> QED
    BY <2>2, <2>3
<1>8. START # END
  BY Bytes
<1>9. CASE e.at = 1
  <2>1. c.in_frame /\ c.buffer = <<e.byte>>
    BY <1>1, <1>6, <1>8, <1>9
  <2> QED
    BY <1>7, <1>9, <2>1
<1>10. CASE e.at > 1
  <2>1. w # <<>> /\ w[1] = e
    BY DEF First
  <2>2. a.in_frame /\ a.buffer = SubSeq(frame, 1, e.at - 1)
    BY <1>3, <1>10, <2>1 DEF UnderWay, frame
  <2>3. ~(Len(a.buffer) + 1 > MaxBuffer)
    <3>1. Len(a.buffer) = e.at - 1
      BY <1>7, <2>2
    <3>2. e.at \in Nat /\ e.at < Len(frame) /\ Len(frame) \in Nat
      BY <1>1, <1>3
    <3> QED
      BY <1>5, <3>1, <3>2
  <2>4. c.in_frame /\ c.buffer = Append(a.buffer, e.byte)
    <3>1. e.byte # START /\ e.byte # END
      BY <1>1, <1>3, <1>10
    <3> QED
      BY <1>6, <2>2, <2>3, <3>1
  <2> QED
    BY <1>7, <2>2, <2>4
<1> QED
  BY <1>1, <1>9, <1>10 DEF c

\* Each message returned has had a CRC of its own, and every CRC in the buffer is
\* of a later one.
LEMMA FeedTraced ==
  ASSUME NEW s, NEW w, NEW e, NEW x, NEW a \in Assembler, First(s, w, e, x),
         Buffered(a), Traced(s, a, w)
  PROVE  Traced(s, Feed(a, e.byte), x)
<1> DEFINE c == Feed(a, e.byte)
           N == Len(a.frames)
<1>1. PICK f : Tracing(f, s, a, w)
  BY DEF Traced
<1> DEFINE Known(v) == \/ v \in Byte
                       \/ \E n \in 1..Len(s) : /\ v = Crc(s[n])
                                               /\ \A i \in 1..N : f[i] < n
                                               /\ \A l \in 1..Len(x) : n <= x[l].of
<1>2. /\ e.of \in 1..Len(s) /\ s[e.of] \in Contents /\ e.at \in Nat \ {0}
      /\ Len(Frame(s, e)) \in Nat
      /\ e.at <= Len(Frame(s, e)) /\ e.byte = Frame(s, e)[e.at] /\ e.byte \in Received
      /\ (e.byte = START <=> e.at = 1) /\ (e.byte = END <=> e.at = Len(Frame(s, e)))
      /\ Len(x) \in Nat /\ Len(w) = Len(x) + 1 /\ Len(s) \in Nat
      /\ \A k \in 1..Len(x) : x[k] = w[k + 1] /\ k + 1 \in 1..Len(w)
      /\ \A k \in 1..Len(x) : e.of <= x[k].of /\ x[k].of \in 1..Len(s)
      /\ \A k \in 1..Len(x) : e.at = Len(Frame(s, e)) => e.of < x[k].of
  <2> DEFINE L == Len(Frame(s, e))
  <2>1. /\ e.of \in 1..Len(s) /\ s[e.of] \in Contents /\ e.at \in Nat \ {0} /\ L \in Nat
        /\ e.at <= L /\ e.byte = Frame(s, e)[e.at] /\ e.byte \in Received
        /\ (e.byte = START <=> e.at = 1) /\ (e.byte = END <=> e.at = L)
    BY FirstByte
  <2>2. /\ Len(x) \in Nat /\ Len(w) = Len(x) + 1 /\ Len(s) \in Nat
        /\ \A k \in 1..Len(x) : x[k] = w[k + 1] /\ k + 1 \in 1..Len(w)
    BY FirstByte
  <2>3. /\ \A k \in 1..Len(x) : e.of <= x[k].of /\ x[k].of \in 1..Len(s)
        /\ \A k \in 1..Len(x) : e.at = L => e.of < x[k].of
    BY FirstByte
  <2> QED
    BY <2>1, <2>2, <2>3
<1>3. 1 \in 1..Len(w) /\ w[1] = e
  BY <1>2 DEF First
<1>4. /\ f \in [1..N -> 1..Len(s)]
      /\ \A i, j \in 1..N : i < j => f[i] < f[j]
      /\ \A i \in 1..N : Crc(a.frames[i]) = Crc(s[f[i]])
      /\ \A i \in 1..N, l \in 1..Len(x) : f[i] < x[l].of
      /\ \A i \in 1..N : f[i] < e.of
  <2>1. /\ f \in [1..N -> 1..Len(s)]
        /\ \A i, j \in 1..N : i < j => f[i] < f[j]
        /\ \A i \in 1..N : Crc(a.frames[i]) = Crc(s[f[i]])
        /\ \A i \in 1..N, l \in 1..Len(w) : f[i] < w[l].of
    BY <1>1 DEF Tracing
  <2>2. \A i \in 1..N : f[i] < e.of
    BY <1>3, <2>1
  <2>3. ASSUME NEW i \in 1..N, NEW l \in 1..Len(x) PROVE f[i] < x[l].of
    <3>1. x[l] = w[l + 1] /\ l + 1 \in 1..Len(w)
      BY <1>2
    <3> QED
      BY <2>1, <3>1
  <2> QED
    BY <2>1, <2>2, <2>3
<1>5. ASSUME NEW k \in 1..Len(a.buffer) PROVE Known(a.buffer[k])
  <2>1. CASE a.buffer[k] \in Byte
    BY <2>1
  <2>2. CASE a.buffer[k] \notin Byte
    <3>1. PICK n \in 1..Len(s) : /\ a.buffer[k] = Crc(s[n])
                                 /\ \A i \in 1..N : f[i] < n
                                 /\ \A l \in 1..Len(w) : n <= w[l].of
      BY <1>1, <2>2 DEF Tracing
    <3>2. \A l \in 1..Len(x) : n <= x[l].of
      BY <1>2, <3>1
    <3>3. \A i \in 1..N : f[i] < n
      BY <3>1
    <3> QED
      BY <3>1, <3>2, <3>3
  <2> QED
    BY <2>1, <2>2
<1>6. Known(e.byte)
  <2>1. e.at \in 1..Len(Encode(s[e.of]))
    BY <1>2 DEF Frame
  <2>2. e.byte \in Byte \cup {Crc(s[e.of])}
    BY <1>2, <2>1, FrameElements DEF Frame
  <2> QED
    BY <1>2, <1>4, <2>2
<1>7. /\ a.buffer \in Seq(Received) /\ a.frames \in Seq(Seq(Elements)) /\ N \in Nat
      /\ Len(a.buffer) \in Nat
  BY LenProperties DEF Assembler
<1>8. /\ \/ c.buffer = <<>> /\ c.frames = a.frames
         \/ c.buffer = <<e.byte>> /\ c.frames = a.frames
         \/ c.buffer = Append(a.buffer, e.byte) /\ c.frames = a.frames
         \/ /\ a.in_frame /\ e.byte = END /\ c.buffer = <<>>
            /\ c.frames = a.frames \o Decode(Append(a.buffer, END))
  <2>1. \/ c.buffer = <<>> /\ c.frames = a.frames
        \/ c.buffer = <<e.byte>> /\ c.frames = a.frames
        \/ c.buffer = Append(a.buffer, e.byte) /\ c.frames = a.frames
        \/ /\ a.in_frame /\ e.byte = END /\ c.buffer = <<>>
           /\ c.frames = a.frames \o Decode(Append(a.buffer, e.byte))
    BY <1>2, FeedFacts DEF Assembler
  <2> HIDE DEF c
  <2> QED
    BY <2>1
<1> HIDE DEF c
<1>9. ASSUME c.frames = a.frames, \A k \in 1..Len(c.buffer) : Known(c.buffer[k])
      PROVE  Tracing(f, s, c, x)
  BY <1>4, <1>9 DEF Tracing
<1>10. CASE c.buffer = <<>> /\ c.frames = a.frames
  <2>1. \A k \in 1..Len(c.buffer) : Known(c.buffer[k])
    BY <1>10, EmptySeq
  <2> HIDE DEF Known
  <2> QED
    BY <1>9, <1>10, <2>1 DEF Traced, c
<1>11. CASE c.buffer = <<e.byte>> /\ c.frames = a.frames
  <2>1. Len(c.buffer) = 1 /\ c.buffer[1] = e.byte
    BY <1>2, <1>11, Single
  <2> HIDE DEF Known
  <2>2. \A k \in 1..Len(c.buffer) : Known(c.buffer[k])
    BY <1>6, <2>1
  <2> QED
    BY <1>9, <1>11, <2>2 DEF Traced, c
<1>12. CASE c.buffer = Append(a.buffer, e.byte) /\ c.frames = a.frames
  <2>1. /\ Len(c.buffer) = Len(a.buffer) + 1 /\ c.buffer[Len(c.buffer)] = e.byte
        /\ \A k \in 1..Len(a.buffer) : c.buffer[k] = a.buffer[k]
    BY <1>2, <1>7, <1>12, Appended
  <2> HIDE DEF Known
  <2>2. \A k \in 1..Len(c.buffer) : Known(c.buffer[k])
    <3>1. \A k \in 1..Len(c.buffer) : k = Len(c.buffer) \/ k \in 1..Len(a.buffer)
      BY <1>7, <2>1
    <3> QED
      BY <1>5, <1>6, <2>1, <3>1
  <2> QED
    BY <1>9, <1>12, <2>2 DEF Traced, c
<1>13. CASE /\ a.in_frame /\ e.byte = END /\ c.buffer = <<>>
            /\ c.frames = a.frames \o Decode(Append(a.buffer, END))
  <2>1. \/ c.frames = a.frames
        \/ \E d \in Seq(Elements), k \in 1..Len(a.buffer) :
             /\ c.frames = Append(a.frames, d) /\ Len(d) \in 2..(MaxBuffer - 2)
             /\ Crc(d) = a.buffer[k] /\ a.buffer[k] \notin Byte
    BY <1>13, Ended
  <2>2. ASSUME NEW d \in Seq(Elements), NEW k \in 1..Len(a.buffer), c.frames = Append(a.frames, d),
               Crc(d) = a.buffer[k], a.buffer[k] \notin Byte
        PROVE  Traced(s, c, x)
    <3>1. PICK n \in 1..Len(s) : /\ a.buffer[k] = Crc(s[n])
                                 /\ \A i \in 1..N : f[i] < n
                                 /\ \A l \in 1..Len(w) : n <= w[l].of
      BY <1>1, <2>2 DEF Tracing
    <3>2. /\ Len(c.frames) = N + 1 /\ c.frames[N + 1] = d
          /\ \A i \in 1..N : c.frames[i] = a.frames[i]
      BY <1>7, <2>2, Appended
    <3>3. \A l \in 1..Len(x) : n < x[l].of
      <4>1. n <= e.of
        BY <1>3, <3>1
      <4> QED
        BY <1>2, <1>13, <4>1
    <3> DEFINE g == [i \in 1..(N + 1) |-> IF i = N + 1 THEN n ELSE f[i]]
    <3>4. g[N + 1] = n /\ \A i \in 1..(N + 1) : i # N + 1 => i \in 1..N /\ g[i] = f[i]
      BY <1>7
    <3>5. g \in [1..(N + 1) -> 1..Len(s)]
      BY <1>4, <1>7
    <3> HIDE DEF g
    <3>6. \A i, j \in 1..(N + 1) : i < j => g[i] < g[j]
      <4> SUFFICES ASSUME NEW i \in 1..(N + 1), NEW j \in 1..(N + 1), i < j PROVE g[i] < g[j]
        OBVIOUS
      <4>1. i # N + 1 /\ i \in 1..N /\ g[i] = f[i]
        BY <1>7, <3>4
      <4>2. CASE j = N + 1
        BY <3>1, <3>4, <4>1, <4>2
      <4>3. CASE j # N + 1
        BY <1>4, <3>4, <4>1, <4>3
      <4> QED
        BY <4>2, <4>3
    <3>7. \A i \in 1..(N + 1) : Crc(c.frames[i]) = Crc(s[g[i]])
      BY <1>4, <2>2, <3>1, <3>2, <3>4
    <3>8. \A i \in 1..(N + 1), l \in 1..Len(x) : g[i] < x[l].of
      BY <1>4, <3>3, <3>4
    <3>9. \A l \in 1..Len(c.buffer) : FALSE
      BY <1>13, EmptySeq
    <3>10. Tracing(g, s, c, x)
      BY <3>2, <3>5, <3>6, <3>7, <3>8, <3>9 DEF Tracing
    <3> QED
      BY <3>10 DEF Traced
  <2>3. CASE c.frames = a.frames
    <3>1. \A k \in 1..Len(c.buffer) : Known(c.buffer[k])
      BY <1>13, EmptySeq
    <3> HIDE DEF Known
    <3> QED
      BY <1>9, <2>3, <3>1 DEF Traced, c
  <2> QED
    BY <2>1, <2>2, <2>3 DEF c
<1> QED
  BY <1>8, <1>10, <1>11, <1>12, <1>13 DEF c

\* What the assembler has returned stays, and a message whose last byte arrives
\* is returned.
LEMMA FeedReturned ==
  ASSUME NEW s, NEW broke, NEW w, NEW e, NEW x, NEW a \in Assembler, First(s, w, e, x),
         Buffered(a), UnderWay(s, broke, a, w), Returned(s, broke, a, w)
  PROVE  Returned(s, broke, Feed(a, e.byte), x)
<1> DEFINE c == Feed(a, e.byte)
           frame == Frame(s, e)
           A == Whole(s, broke, w)
           B == Whole(s, broke, x)
<1>1. /\ e.of \in 1..Len(s) /\ s[e.of] \in Contents /\ e.at \in Nat \ {0} /\ Len(frame) \in Nat
      /\ e.at <= Len(frame) /\ Len(frame) >= 2 /\ e.byte = frame[e.at] /\ e.byte \in Received
      /\ (e.byte = START <=> e.at = 1) /\ (e.byte = END <=> e.at = Len(frame))
  BY FirstByte
<1>2. /\ Len(x) \in Nat /\ Len(w) = Len(x) + 1 /\ Len(s) \in Nat
      /\ \A k \in 1..Len(x) : x[k] = w[k + 1] /\ k + 1 \in 1..Len(w)
  BY FirstByte
<1>3. e.at # Len(frame) => Len(x) > 0 /\ x[1].of = e.of
  BY FirstByte
<1>4. \A n \in e.of..Len(s) : n = e.of \/ \E k \in 1..Len(x) : x[k].of = n
  BY FirstByte
<1>5. 1 \in 1..Len(w) /\ w[1] = e /\ w # <<>>
  BY <1>2 DEF First
<1>6. a.frames \in Seq(Seq(Elements)) /\ Len(a.frames) \in Nat /\ DOMAIN a.frames = 1..Len(a.frames)
  BY LenProperties DEF Assembler
<1>7. PICK f \in [A -> 1..Len(a.frames)] :
        /\ \A i, j \in A : i < j => f[i] < f[j]
        /\ \A i \in A : s[i] = a.frames[f[i]]
  BY <1>6 DEF Returned, FoundIn
<1>8. \A i \in A : i \in B /\ i < e.of
  <2> SUFFICES ASSUME NEW i \in A PROVE i \in B /\ i < e.of
    OBVIOUS
  <2>1. i \in 1..Len(s) /\ i \notin broke /\ Fits(s[i]) /\ \A k \in 1..Len(w) : w[k].of # i
    BY DEF Whole
  <2>2. \A k \in 1..Len(x) : x[k].of # i
    BY <1>2, <2>1
  <2>3. ~(i \in e.of..Len(s))
    BY <1>4, <1>5, <2>1, <2>2
  <2> QED
    BY <1>1, <1>2, <2>1, <2>2, <2>3 DEF Whole
<1>9. ASSUME NEW i \in B, i \notin A
      PROVE  i = e.of /\ e.at = Len(frame) /\ e.of \notin broke /\ Fits(s[e.of])
  <2>1. i \in 1..Len(s) /\ i \notin broke /\ Fits(s[i]) /\ \A k \in 1..Len(x) : x[k].of # i
    BY DEF Whole
  <2>2. PICK k \in 1..Len(w) : w[k].of = i
    BY <1>9, <2>1 DEF Whole
  <2>3. k = 1
    <3> SUFFICES ASSUME k # 1 PROVE FALSE
      OBVIOUS
    <3>1. k - 1 \in 1..Len(x) /\ (k - 1) + 1 = k
      BY <1>2
    <3> QED
      BY <1>2, <2>1, <2>2, <3>1
  <2>4. i = e.of
    BY <1>5, <2>2, <2>3
  <2>5. e.at = Len(frame)
    <3> SUFFICES ASSUME e.at # Len(frame) PROVE FALSE
      OBVIOUS
    <3>1. 1 \in 1..Len(x) /\ x[1].of = e.of
      BY <1>2, <1>3
    <3> QED
      BY <2>1, <2>4, <3>1
  <2> QED
    BY <2>1, <2>4, <2>5
<1>10. /\ \/ c.frames = a.frames
          \/ a.in_frame /\ e.byte = END /\ c.frames = a.frames \o Decode(Append(a.buffer, END))
       /\ a.in_frame /\ e.byte = END => c.frames = a.frames \o Decode(Append(a.buffer, END))
  <2>1. \/ e.byte # START /\ c.frames = a.frames
             /\ (a.in_frame => e.byte # END)
        \/ e.byte = START /\ c.frames = a.frames
        \/ e.byte \notin {START, END} /\ c.frames = a.frames
        \/ /\ a.in_frame /\ e.byte = END
           /\ c.frames = a.frames \o Decode(Append(a.buffer, e.byte))
    BY <1>1, FeedFacts DEF Assembler
  <2>2. START # END
    BY Bytes
  <2> HIDE DEF c
  <2> QED
    BY <2>1, <2>2
<1>11. /\ DOMAIN c.frames = 1..Len(c.frames) /\ Len(a.frames) <= Len(c.frames)
       /\ Len(c.frames) \in Nat
       /\ \A i \in 1..Len(a.frames) : c.frames[i] = a.frames[i]
  <2>1. CASE c.frames = a.frames
    BY <1>6, <2>1
  <2>2. CASE a.in_frame /\ c.frames = a.frames \o Decode(Append(a.buffer, END))
    <3>1. c.frames = a.frames \/ \E d \in Seq(Elements) : c.frames = Append(a.frames, d)
      BY <2>2, Ended
    <3>2. ASSUME NEW d \in Seq(Elements), c.frames = Append(a.frames, d)
          PROVE  /\ c.frames \in Seq(Seq(Elements)) /\ Len(c.frames) = Len(a.frames) + 1
                 /\ \A i \in 1..Len(a.frames) : c.frames[i] = a.frames[i]
      BY <1>6, <3>2, Appended
    <3>3. \A q \in Seq(Seq(Elements)) : DOMAIN q = 1..Len(q)
      BY LenProperties
    <3> QED
      BY <1>6, <2>1, <3>1, <3>2, <3>3
  <2> QED
    BY <1>10, <2>1, <2>2
<1>12. ASSUME e.of \in B
       PROVE  Len(c.frames) = Len(a.frames) + 1 /\ c.frames[Len(c.frames)] = s[e.of]
  <2>1. e.of \notin A
    BY <1>8, <1>1
  <2>2. e.at = Len(frame) /\ e.of \notin broke /\ Fits(s[e.of])
    BY <1>9, <1>12, <2>1
  <2>3. a.in_frame /\ a.buffer = SubSeq(frame, 1, e.at - 1)
    BY <1>1, <1>5, <2>2 DEF UnderWay
  <2>4. Append(a.buffer, END) = frame
    <3>1. frame \in Seq(Received) /\ frame[Len(frame)] = END
      BY <1>1, RoundTrip DEF Frame
    <3>2. Len(frame) \in 1..Len(frame)
      BY <1>1
    <3> HIDE DEF frame
    <3>3. SubSeq(frame, 1, Len(frame)) = Append(SubSeq(frame, 1, Len(frame) - 1), frame[Len(frame)])
      BY <3>1, <3>2, Prefix
    <3>4. SubSeq(frame, 1, Len(frame)) = frame
      BY <3>1, SubSeqFull
    <3> QED
      BY <2>2, <2>3, <3>1, <3>3, <3>4
  <2>5. Decode(frame) = <<s[e.of]>>
    BY <1>1, RoundTrip DEF Frame
  <2>6. c.frames = a.frames \o <<s[e.of]>>
    <3>1. a.in_frame /\ e.byte = END
      BY <1>1, <2>2, <2>3
    <3> HIDE DEF c, frame
    <3> QED
      BY <1>10, <2>4, <2>5, <3>1
  <2>7. s[e.of] \in Seq(Elements)
    BY <1>1, Messages, Bytes, SeqMonotonic
  <2>8. c.frames = Append(a.frames, s[e.of])
    BY <1>6, <2>6, <2>7, AppendIsConcat
  <2> HIDE DEF c
  <2> QED
    BY <1>6, <2>7, <2>8, Appended
<1> HIDE DEF A, B, c
<1> DEFINE g == [i \in B |-> IF i \in A THEN f[i] ELSE Len(c.frames)]
<1>13. \A i \in B : i \notin A => i = e.of /\ e.of \in B
  BY <1>9
<1>14. g \in [B -> DOMAIN c.frames]
  <2> SUFFICES ASSUME NEW i \in B PROVE g[i] \in 1..Len(c.frames)
    BY <1>11
  <2>1. CASE i \in A
    BY <1>7, <1>11, <2>1
  <2>2. CASE i \notin A
    BY <1>6, <1>11, <1>12, <1>13, <2>2
  <2> QED
    BY <2>1, <2>2
<1>15. ASSUME NEW i \in B PROVE s[i] = c.frames[g[i]]
  <2>1. CASE i \in A
    BY <1>7, <1>11, <2>1
  <2>2. CASE i \notin A
    BY <1>12, <1>13, <2>2
  <2> QED
    BY <2>1, <2>2
<1>16. ASSUME NEW i \in B, NEW j \in B, i < j PROVE g[i] < g[j]
  <2>1. i \in A
    <3> SUFFICES ASSUME i \notin A PROVE FALSE
      OBVIOUS
    <3>1. i = e.of
      BY <1>13
    <3>2. j \notin A
      BY <1>1, <1>8, <1>16, <3>1
    <3> QED
      BY <1>1, <1>13, <1>16, <3>1, <3>2
  <2>2. CASE j \in A
    BY <1>7, <1>16, <2>1, <2>2
  <2>3. CASE j \notin A
    <3>1. g[i] \in 1..Len(a.frames) /\ g[j] = Len(a.frames) + 1
      BY <1>7, <1>12, <1>13, <2>1, <2>3
    <3> QED
      BY <1>6, <3>1
  <2> QED
    BY <2>2, <2>3
<1> HIDE DEF g
<1>17. FoundIn(B, s, c.frames)
  BY <1>14, <1>15, <1>16 DEF FoundIn
<1> QED
  BY <1>17 DEF Returned, B, c

LEMMA GoodByte ==
  ASSUME NEW s, NEW broke, NEW a, NEW w, Good(s, broke, a, w), w # <<>>
  PROVE  Good(s, broke, Feed(a, w[1].byte), SubSeq(w, 2, Len(w)))
<1> DEFINE e == w[1]
           x == SubSeq(w, 2, Len(w))
<1>1. /\ Typed(s, broke, a, w) /\ InOrder(s, w) /\ Buffered(a)
      /\ UnderWay(s, broke, a, w) /\ Traced(s, a, w) /\ Returned(s, broke, a, w)
  BY DEF Good
<1>2. First(s, w, e, x) /\ a \in Assembler
  BY <1>1 DEF First, Typed, Assembler
<1> HIDE DEF e, x
<1>3. e.byte \in Received /\ x \in Seq(Element(s)) /\ InOrder(s, x)
  BY <1>2, FirstByte
<1>4. Feed(a, e.byte) \in Assembler /\ Buffered(Feed(a, e.byte))
  BY <1>1, <1>2, <1>3, FeedTyped
<1>5. Typed(s, broke, Feed(a, e.byte), x)
  BY <1>1, <1>3, <1>4 DEF Typed, Assembler
<1>6. UnderWay(s, broke, Feed(a, e.byte), x)
  BY <1>1, <1>2, FeedUnderWay
<1>7. Traced(s, Feed(a, e.byte), x)
  BY <1>1, <1>2, FeedTraced
<1>8. Returned(s, broke, Feed(a, e.byte), x)
  BY <1>1, <1>2, FeedReturned
<1>9. Good(s, broke, Feed(a, e.byte), x)
  BY <1>3, <1>4, <1>5, <1>6, <1>7, <1>8 DEF Good
<1> QED
  BY <1>9 DEF e, x

LEMMA RestOfRest ==
  ASSUME NEW s, NEW w \in Seq(Element(s)), NEW n \in Nat, n < Len(w)
  PROVE  LET y == SubSeq(w, n + 1, Len(w))
         IN  y # <<>> /\ y[1] = w[n + 1] /\ SubSeq(y, 2, Len(y)) = SubSeq(w, (n + 1) + 1, Len(w))
<1> DEFINE y == SubSeq(w, n + 1, Len(w))
           z == SubSeq(y, 2, Len(y))
           x == SubSeq(w, (n + 1) + 1, Len(w))
           one == 1
<1>1. Len(w) \in Nat
  BY LenProperties
<1>2. /\ y \in Seq(Element(s)) /\ Len(y) = Len(w) - n /\ Len(y) \in Nat
      /\ \A i \in 1..Len(y) : y[i] = w[i + n] /\ i + n \in 1..Len(w)
  BY <1>1, Rest
<1>3. /\ x \in Seq(Element(s)) /\ Len(x) = Len(w) - (n + 1) /\ Len(x) \in Nat
      /\ \A i \in 1..Len(x) : x[i] = w[i + (n + 1)] /\ i + (n + 1) \in 1..Len(w)
  <2> DEFINE m == n + 1
  <2>1. m \in Nat /\ m <= Len(w)
    BY <1>1
  <2> HIDE DEF m
  <2>2. /\ SubSeq(w, m + 1, Len(w)) \in Seq(Element(s)) /\ Len(SubSeq(w, m + 1, Len(w))) = Len(w) - m
        /\ Len(SubSeq(w, m + 1, Len(w))) \in Nat
        /\ \A i \in 1..Len(SubSeq(w, m + 1, Len(w))) :
             SubSeq(w, m + 1, Len(w))[i] = w[i + m] /\ i + m \in 1..Len(w)
    BY <2>1, Rest
  <2> QED
    BY <2>2 DEF m
<1> HIDE DEF x, y
<1>4. y # <<>> /\ y[1] = w[n + 1]
  <2>1. Len(y) # 0 /\ 1 \in 1..Len(y) /\ 1 + n = n + 1
    BY <1>1, <1>2
  <2> QED
    BY <1>2, <2>1, EmptySeq
<1>5. /\ z \in Seq(Element(s)) /\ Len(z) = Len(y) - 1
      /\ \A i \in 1..Len(z) : z[i] = y[i + 1] /\ i + 1 \in 1..Len(y)
  <2>1. one \in Nat /\ one <= Len(y) /\ one + 1 = 2
    BY <1>1, <1>2
  <2> HIDE DEF one
  <2>2. /\ SubSeq(y, one + 1, Len(y)) \in Seq(Element(s)) /\ Len(SubSeq(y, one + 1, Len(y))) = Len(y) - one
        /\ \A i \in 1..Len(SubSeq(y, one + 1, Len(y))) :
             SubSeq(y, one + 1, Len(y))[i] = y[i + one] /\ i + one \in 1..Len(y)
    BY <1>2, <2>1, Rest
  <2>3. z = SubSeq(y, one + 1, Len(y))
    BY <2>1
  <2> HIDE DEF z
  <2> QED
    BY <2>2, <2>3 DEF one
<1> HIDE DEF z
<1>6. Len(z) = Len(x)
  BY <1>1, <1>2, <1>3, <1>5
<1>7. ASSUME NEW i \in 1..Len(z) PROVE z[i] = x[i]
  <2>1. (i + 1) + n = i + (n + 1)
    OBVIOUS
  <2>2. z[i] = w[(i + 1) + n]
    BY <1>2, <1>5
  <2>3. x[i] = w[i + (n + 1)]
    BY <1>3, <1>6
  <2> QED
    BY <2>1, <2>2, <2>3
<1>8. z = x
  BY <1>3, <1>5, <1>6, <1>7, SeqEqual
<1> QED
  BY <1>4, <1>8 DEF x, y, z

LEMMA GoodBytes ==
  ASSUME NEW s, NEW broke, NEW a, NEW w, NEW n \in Nat, n <= Len(w), Good(s, broke, a, w)
  PROVE  Good(s, broke, Fed(a, [k \in 1..n |-> w[k].byte]), SubSeq(w, n + 1, Len(w)))
<1> DEFINE bytes(m) == [k \in 1..m |-> w[k].byte]
           G == {m \in Nat : m <= Len(w) =>
                   Good(s, broke, Fed(a, bytes(m)), SubSeq(w, m + 1, Len(w)))}
<1>1. s \in Seq(Contents) /\ w \in Seq(Element(s)) /\ Len(w) \in Nat
  BY LenProperties DEF Good, Typed
<1>2. \A k \in 1..Len(w) : w[k].byte \in Received
  BY <1>1, Elem
<1>3. \A m \in Nat : m <= Len(w) => bytes(m) \in Seq(Received) /\ Len(bytes(m)) = m
  BY <1>1, <1>2
<1>4. 0 \in G
  <2>1. bytes(0) = <<>>
    OBVIOUS
  <2>2. Fed(a, <<>>) = a
    BY FedNothing
  <2>3. SubSeq(w, 0 + 1, Len(w)) = w
    BY <1>1, SubSeqFull
  <2> HIDE DEF bytes
  <2> QED
    BY <2>1, <2>2, <2>3
<1>5. ASSUME NEW m \in Nat, m \in G PROVE m + 1 \in G
  <2> SUFFICES ASSUME m + 1 <= Len(w)
               PROVE  Good(s, broke, Fed(a, bytes(m + 1)), SubSeq(w, (m + 1) + 1, Len(w)))
    OBVIOUS
  <2> DEFINE y == SubSeq(w, m + 1, Len(w))
  <2>1. m < Len(w) /\ m <= Len(w) /\ m + 1 \in 1..Len(w) /\ m + 1 \in Nat
    BY <1>1
  <2>2. Good(s, broke, Fed(a, bytes(m)), y)
    BY <1>5, <2>1
  <2>3. y # <<>> /\ y[1] = w[m + 1] /\ SubSeq(y, 2, Len(y)) = SubSeq(w, (m + 1) + 1, Len(w))
    BY <1>1, <2>1, RestOfRest
  <2>4. w[m + 1].byte \in Received /\ bytes(m) \in Seq(Received) /\ Len(bytes(m)) = m
    BY <1>2, <1>3, <2>1
  <2>5. bytes(m + 1) = Append(bytes(m), w[m + 1].byte)
    <3> DEFINE p == bytes(m + 1)
               q == Append(bytes(m), w[m + 1].byte)
    <3>1. p \in Seq(Received) /\ Len(p) = m + 1
      BY <1>3, <2>1
    <3>2. /\ q \in Seq(Received) /\ Len(q) = m + 1 /\ q[m + 1] = w[m + 1].byte
          /\ \A i \in 1..m : q[i] = bytes(m)[i]
      <4> HIDE DEF bytes
      <4> QED
        BY <2>4, Appended
    <3>3. \A i \in 1..(m + 1) : p[i] = w[i].byte
      OBVIOUS
    <3>4. \A i \in 1..m : bytes(m)[i] = w[i].byte
      OBVIOUS
    <3>5. \A i \in 1..(m + 1) : i = m + 1 \/ i \in 1..m
      OBVIOUS
    <3> HIDE DEF p, q, bytes
    <3>6. \A i \in 1..Len(p) : p[i] = q[i]
      BY <3>1, <3>2, <3>3, <3>4, <3>5
    <3>7. p = q
      BY <3>1, <3>2, <3>6, SeqEqual
    <3> QED
      BY <3>7 DEF p, q
  <2> HIDE DEF y, bytes
  <2>6. Fed(a, bytes(m + 1)) = Feed(Fed(a, bytes(m)), w[m + 1].byte)
    <3>1. Fed(a, Append(bytes(m), w[m + 1].byte)) = Feed(Fed(a, bytes(m)), w[m + 1].byte)
      BY <2>4, FedMore
    <3> QED
      BY <2>5, <3>1
  <2>7. Good(s, broke, Feed(Fed(a, bytes(m)), y[1].byte), SubSeq(y, 2, Len(y)))
    BY <2>2, <2>3, GoodByte
  <2> QED
    BY <2>3, <2>6, <2>7
<1>6. Nat \subseteq G
  <2> HIDE DEF G
  <2> QED
    BY <1>4, <1>5, NatSet
<1> QED
  BY <1>6

-----------------------------------------------------------------------------
(***************************************************************************)
(* The other steps.                                                        *)
(***************************************************************************)

\* Of fewer messages to find, those there are are found.
LEMMA FoundInFewer ==
  ASSUME NEW S, NEW T, NEW s, NEW t, FoundIn(S, s, t), T \subseteq S
  PROVE  FoundIn(T, s, t)
<1>1. PICK f \in [S -> DOMAIN t] :
        (\A i, j \in S : i < j => f[i] < f[j]) /\ (\A i \in S : s[i] = t[f[i]])
  BY DEF FoundIn
<1> DEFINE g == [i \in T |-> f[i]]
<1>2. g \in [T -> DOMAIN t] /\ \A i \in T : g[i] = f[i] /\ i \in S
  BY <1>1
<1> HIDE DEF g
<1>3. (\A i, j \in T : i < j => g[i] < g[j]) /\ (\A i \in T : s[i] = t[g[i]])
  BY <1>1, <1>2
<1> QED
  BY <1>2, <1>3 DEF FoundIn

\* The next n bytes are lost.
LEMMA GoodLoss ==
  ASSUME NEW s, NEW broke, NEW a, NEW w, NEW n \in Nat, n <= Len(w), n > 0 \/ w = <<>>,
         Good(s, broke, a, w)
  PROVE  Good(s, broke \cup {w[k].of : k \in 1..n}, a, SubSeq(w, n + 1, Len(w)))
<1> DEFINE x == SubSeq(w, n + 1, Len(w))
           B == broke \cup {w[k].of : k \in 1..n}
<1>1. /\ s \in Seq(Contents) /\ broke \subseteq 1..Len(s) /\ a \in Assembler
      /\ w \in Seq(Element(s)) /\ InOrder(s, w) /\ Buffered(a)
      /\ UnderWay(s, broke, a, w) /\ Traced(s, a, w) /\ Returned(s, broke, a, w)
  BY DEF Good, Typed, Assembler
<1>2. /\ x \in Seq(Element(s)) /\ Len(x) = Len(w) - n /\ Len(x) \in Nat
      /\ \A i \in 1..Len(x) : x[i] = w[i + n] /\ i + n \in 1..Len(w)
  BY <1>1, Rest
<1>3. InOrder(s, x)
  BY <1>1, RestInOrder
<1>4. Len(w) \in Nat /\ \A k \in 1..Len(w) : w[k].of \in 1..Len(s)
  BY <1>1, Elem
<1>5. B \subseteq 1..Len(s)
  <2>1. \A k \in 1..n : k \in 1..Len(w)
    BY <1>4
  <2>2. {w[k].of : k \in 1..n} \subseteq 1..Len(s)
    BY <1>4, <2>1
  <2> QED
    BY <1>1, <2>2
<1>6. Typed(s, B, a, x)
  <2> HIDE DEF B, x
  <2> QED
    BY <1>1, <1>2, <1>5 DEF Typed, Assembler
<1>7. UnderWay(s, B, a, x)
  <2> SUFFICES ASSUME x # <<>>, x[1].at > 1, x[1].of \notin B PROVE FALSE
    BY DEF UnderWay
  <2>1. 1 \in 1..Len(x) /\ n > 0
    <3>1. Len(x) # 0
      BY <1>2, EmptySeq
    <3>2. w = <<>> => Len(w) = 0
      BY EmptySeq
    <3> QED
      BY <1>2, <1>4, <3>1, <3>2
  <2>2. n \in 1..Len(w) /\ n + 1 \in 1..Len(w) /\ n < Len(w) /\ x[1] = w[n + 1]
    <3>1. 1 + n = n + 1
      OBVIOUS
    <3> HIDE DEF x
    <3> QED
      BY <1>2, <1>4, <2>1, <3>1
  <2>3. IF w[n].at = Len(Frame(s, w[n])) THEN w[n + 1].at = 1 ELSE w[n + 1].of = w[n].of
    BY <1>1, <2>2 DEF InOrder
  <2>4. w[n].of \in B /\ n \in 1..n
    BY <2>2
  <2> HIDE DEF x, B
  <2> QED
    BY <2>2, <2>3, <2>4
<1>8. Traced(s, a, x)
  <2>1. PICK f : Tracing(f, s, a, w)
    BY <1>1 DEF Traced
  <2>2. \A l \in 1..Len(x) : \E m \in 1..Len(w) : x[l] = w[m]
    BY <1>2
  <2> HIDE DEF x
  <2>3. Tracing(f, s, a, x)
    <3>1. \A i \in 1..Len(a.frames), l \in 1..Len(x) : f[i] < x[l].of
      BY <2>1, <2>2 DEF Tracing
    <3>2. ASSUME NEW k \in 1..Len(a.buffer), a.buffer[k] \notin Byte
          PROVE  \E m \in 1..Len(s) : /\ a.buffer[k] = Crc(s[m])
                                      /\ \A i \in 1..Len(a.frames) : f[i] < m
                                      /\ \A l \in 1..Len(x) : m <= x[l].of
      <4>1. PICK m \in 1..Len(s) : /\ a.buffer[k] = Crc(s[m])
                                   /\ \A i \in 1..Len(a.frames) : f[i] < m
                                   /\ \A l \in 1..Len(w) : m <= w[l].of
        BY <2>1, <3>2 DEF Tracing
      <4>2. \A l \in 1..Len(x) : m <= x[l].of
        BY <2>2, <4>1
      <4> QED
        BY <4>1, <4>2
    <3> QED
      BY <2>1, <3>1, <3>2 DEF Tracing
  <2> QED
    BY <2>3 DEF Traced
<1>9. Returned(s, B, a, x)
  <2>1. ASSUME NEW i \in Whole(s, B, x) PROVE i \in Whole(s, broke, w)
    <3>1. i \in 1..Len(s) /\ i \notin B /\ Fits(s[i]) /\ \A k \in 1..Len(x) : x[k].of # i
      BY DEF Whole
    <3>2. ASSUME NEW k \in 1..Len(w) PROVE w[k].of # i
      <4>1. CASE k \in 1..n
        BY <3>1, <4>1
      <4>2. CASE k > n
        <5>1. k - n \in 1..Len(x) /\ (k - n) + n = k
          BY <1>2, <1>4, <4>2
        <5> HIDE DEF x
        <5>2. x[k - n] = w[k]
          BY <1>2, <5>1
        <5> QED
          BY <3>1, <5>1, <5>2
      <4> QED
        BY <4>1, <4>2
    <3> QED
      BY <3>1, <3>2 DEF Whole
  <2>2. Whole(s, B, x) \subseteq Whole(s, broke, w)
    BY <2>1
  <2> HIDE DEF B, x
  <2> QED
    BY <1>1, <2>2, FoundInFewer DEF Returned
<1>10. Good(s, B, a, x)
  BY <1>1, <1>3, <1>6, <1>7, <1>8, <1>9 DEF Good
<1> QED
  BY <1>10

\* A new session starts with nothing in the buffer.
LEMMA GoodReset ==
  ASSUME NEW s, NEW broke, NEW a, NEW w, w = <<>>, Good(s, broke, a, w)
  PROVE  Good(s, broke, Reset(a), w)
<1> DEFINE c == Reset(a)
<1>1. /\ s \in Seq(Contents) /\ broke \subseteq 1..Len(s) /\ a \in Assembler
      /\ w \in Seq(Element(s)) /\ InOrder(s, w) /\ Buffered(a)
      /\ Traced(s, a, w) /\ Returned(s, broke, a, w)
  BY DEF Good, Typed, Assembler
<1>2. c.in_frame = FALSE /\ c.buffer = <<>> /\ c.frames = a.frames /\ c \in Assembler
  <2>1. <<>> \in Seq(Received)
    BY EmptySeq
  <2> QED
    BY <1>1, <2>1 DEF Reset, Assembler
<1> HIDE DEF c
<1>3. Typed(s, broke, c, w)
  BY <1>1, <1>2 DEF Typed, Assembler
<1>4. Buffered(c)
  BY <1>1, <1>2 DEF Buffered
<1>5. UnderWay(s, broke, c, w)
  BY DEF UnderWay
<1>6. Traced(s, c, w)
  <2>1. PICK f : Tracing(f, s, a, w)
    BY <1>1 DEF Traced
  <2>2. \A k \in 1..Len(c.buffer) : FALSE
    BY <1>2, EmptySeq
  <2>3. Tracing(f, s, c, w)
    BY <1>2, <2>1, <2>2 DEF Tracing
  <2> QED
    BY <2>3 DEF Traced
<1>7. Returned(s, broke, c, w)
  BY <1>1, <1>2 DEF Returned
<1>8. Good(s, broke, c, w)
  BY <1>1, <1>3, <1>4, <1>5, <1>6, <1>7 DEF Good
<1> QED
  BY <1>8 DEF c

\* One more message m is sent.
LEMMA GoodSend ==
  ASSUME NEW s, NEW broke, NEW a, NEW w, NEW m \in Contents, Good(s, broke, a, w)
  PROVE  Good(Append(s, m), broke, a, w \o Numbered(Encode(m), Len(s) + 1))
<1> DEFINE t == Append(s, m)
           N == Len(s) + 1
           frame == Encode(m)
           u == Numbered(frame, N)
           x == w \o u
<1>1. /\ s \in Seq(Contents) /\ broke \subseteq 1..Len(s) /\ a \in Assembler
      /\ w \in Seq(Element(s)) /\ InOrder(s, w) /\ Buffered(a)
      /\ UnderWay(s, broke, a, w) /\ Traced(s, a, w) /\ Returned(s, broke, a, w)
  BY DEF Good, Typed, Assembler
<1>2. /\ Len(w) \in Nat /\ Len(s) \in Nat
      /\ \A k \in 1..Len(w) : /\ w[k].of \in 1..Len(s) /\ w[k].of \in Nat
                              /\ Len(Frame(s, w[k])) \in Nat
  BY <1>1, Elem
<1>3. t \in Seq(Contents) /\ Len(t) = N /\ t[N] = m /\ \A i \in 1..Len(s) : t[i] = s[i]
  BY <1>1, Appended
<1>4. frame \in Seq(Received) /\ Len(frame) \in Nat /\ Len(frame) >= 2
  BY RoundTrip
<1> HIDE DEF t, frame
<1>5. /\ u \in Seq(Element(t)) /\ Len(u) = Len(frame)
      /\ \A k \in 1..Len(frame) : u[k].byte = frame[k] /\ u[k].of = N /\ u[k].at = k
  <2>1. u = [k \in 1..Len(frame) |-> [byte |-> frame[k], of |-> N, at |-> k]]
    BY DEF Numbered
  <2>2. \A k \in 1..Len(frame) : frame[k] \in Received
    BY <1>4, ElementOfSeq
  <2> HIDE DEF u
  <2>3. \A k \in 1..Len(frame) : u[k] \in Element(t)
    BY <1>2, <1>3, <2>1, <2>2 DEF Element
  <2>4. u \in [1..Len(frame) -> Element(t)]
    BY <2>1, <2>3
  <2>5. u \in Seq(Element(t)) /\ Len(u) = Len(frame)
    <3>1. \A q, S : \A l \in Nat : q \in [1..l -> S] => q \in Seq(S) /\ Len(q) = l
      OBVIOUS
    <3> QED
      BY <1>4, <2>4, <3>1
  <2> QED
    BY <2>1, <2>5
<1>6. w \in Seq(Element(t))
  <2>1. Element(s) \subseteq Element(t)
    BY <1>2, <1>3 DEF Element
  <2> QED
    BY <1>1, <2>1, SeqMonotonic
<1> HIDE DEF u
<1>7. /\ x \in Seq(Element(t)) /\ Len(x) = Len(w) + Len(frame)
      /\ \A k \in 1..Len(w) : x[k] = w[k]
      /\ \A k \in 1..Len(frame) : x[Len(w) + k] = u[k]
  <2>1. /\ x \in Seq(Element(t)) /\ Len(x) = Len(w) + Len(u)
        /\ \A k \in 1..(Len(w) + Len(u)) : x[k] = IF k <= Len(w) THEN w[k] ELSE u[k - Len(w)]
    <3> DEFINE E == Element(t)
    <3>1. w \in Seq(E) /\ u \in Seq(E)
      BY <1>5, <1>6
    <3> HIDE DEF E
    <3>2. /\ w \o u \in Seq(E) /\ Len(w \o u) = Len(w) + Len(u)
          /\ \A k \in 1..(Len(w) + Len(u)) : (w \o u)[k] = IF k <= Len(w) THEN w[k] ELSE u[k - Len(w)]
      BY <3>1, ConcatProperties
    <3> QED
      BY <3>2 DEF E
  <2> HIDE DEF x
  <2>2. \A k \in 1..Len(w) : k \in 1..(Len(w) + Len(u)) /\ k <= Len(w)
    BY <1>2, <1>4, <1>5
  <2>3. \A k \in 1..Len(frame) : /\ Len(w) + k \in 1..(Len(w) + Len(u)) /\ ~(Len(w) + k <= Len(w))
                                 /\ (Len(w) + k) - Len(w) = k
    BY <1>2, <1>4, <1>5
  <2> QED
    BY <1>5, <2>1, <2>2, <2>3
<1> HIDE DEF x
<1>8. \A k \in 1..Len(x) : k \in 1..Len(w) \/ \E i \in 1..Len(frame) : k = Len(w) + i
  <2> SUFFICES ASSUME NEW k \in 1..Len(x), k \notin 1..Len(w)
               PROVE  \E i \in 1..Len(frame) : k = Len(w) + i
    OBVIOUS
  <2>1. k - Len(w) \in 1..Len(frame) /\ k = Len(w) + (k - Len(w))
    BY <1>2, <1>4, <1>7
  <2> QED
    BY <2>1
<1>9. \A k \in 1..Len(w) : /\ k \in 1..Len(x) /\ x[k] = w[k] /\ x[k].of < N /\ x[k].of <= Len(s)
                           /\ Frame(t, x[k]) = Frame(s, w[k]) /\ k < Len(x)
                           /\ t[x[k].of] = s[w[k].of]
  BY <1>2, <1>3, <1>4, <1>7 DEF Frame
<1>10. \A i \in 1..Len(frame) :
         /\ Len(w) + i \in 1..Len(x) /\ x[Len(w) + i].of = N /\ x[Len(w) + i].at = i
         /\ x[Len(w) + i].byte = frame[i] /\ Frame(t, x[Len(w) + i]) = frame
  <2>1. \A i \in 1..Len(frame) : Len(w) + i \in 1..Len(x)
    BY <1>2, <1>4, <1>7
  <2> QED
    BY <1>3, <1>5, <1>7, <2>1 DEF Frame, frame
<1>11. ASSUME NEW k \in 1..Len(x), k \notin 1..Len(w) PROVE x[k].of = N
  <2>1. PICK i \in 1..Len(frame) : k = Len(w) + i
    BY <1>8, <1>11
  <2> QED
    BY <1>10, <2>1
<1>12. InOrder(t, x)
  <2>1. ASSUME NEW k \in 1..Len(w)
        PROVE  /\ x[k].at <= Len(Frame(t, x[k]))
               /\ x[k].byte = Frame(t, x[k])[x[k].at]
               /\ IF x[k].at = Len(Frame(t, x[k])) THEN k < Len(x) => x[k + 1].at = 1
                  ELSE k < Len(x) /\ x[k + 1].of = x[k].of /\ x[k + 1].at = x[k].at + 1
    <3>1. /\ w[k].at <= Len(Frame(s, w[k])) /\ w[k].byte = Frame(s, w[k])[w[k].at]
          /\ IF w[k].at = Len(Frame(s, w[k])) THEN k < Len(w) => w[k + 1].at = 1
             ELSE k < Len(w) /\ w[k + 1].of = w[k].of /\ w[k + 1].at = w[k].at + 1
      BY <1>1 DEF InOrder
    <3>2. x[k] = w[k] /\ Frame(t, x[k]) = Frame(s, w[k]) /\ k < Len(x)
      BY <1>9
    <3>3. CASE k < Len(w)
      <4>1. k + 1 \in 1..Len(w)
        BY <1>2, <3>3
      <4>2. x[k + 1] = w[k + 1]
        BY <1>9, <4>1
      <4> QED
        BY <3>1, <3>2, <3>3, <4>2
    <3>4. CASE ~(k < Len(w))
      <4>1. k + 1 = Len(w) + 1 /\ 1 \in 1..Len(frame)
        BY <1>2, <1>4, <3>4
      <4>2. x[k + 1].at = 1
        BY <1>10, <4>1
      <4> QED
        BY <3>1, <3>2, <3>4, <4>2
    <3> QED
      BY <3>3, <3>4
  <2>2. ASSUME NEW k \in 1..Len(w), NEW n \in x[k].of..N PROVE \E l \in k..Len(x) : x[l].of = n
    <3>1. CASE n = N
      <4>1. Len(frame) \in 1..Len(frame) /\ Len(w) + Len(frame) \in k..Len(x)
        BY <1>2, <1>4, <1>7
      <4> QED
        BY <1>10, <3>1, <4>1
    <3>2. CASE n # N
      <4>1. n \in w[k].of..Len(s)
        BY <1>2, <1>9, <3>2
      <4>2. PICK l \in k..Len(w) : w[l].of = n
        BY <1>1, <4>1 DEF InOrder
      <4>3. l \in 1..Len(w) /\ l \in k..Len(x)
        BY <1>2, <1>4, <1>7
      <4> QED
        BY <1>9, <4>2, <4>3
    <3> QED
      BY <3>1, <3>2
  <2>3. ASSUME NEW i \in 1..Len(frame)
        PROVE  LET k == Len(w) + i IN
               /\ x[k].at <= Len(Frame(t, x[k]))
               /\ x[k].byte = Frame(t, x[k])[x[k].at]
               /\ IF x[k].at = Len(Frame(t, x[k])) THEN k < Len(x) => x[k + 1].at = 1
                  ELSE k < Len(x) /\ x[k + 1].of = x[k].of /\ x[k + 1].at = x[k].at + 1
               /\ \A n \in x[k].of..N : \E l \in k..Len(x) : x[l].of = n
    <3> DEFINE k == Len(w) + i
    <3>1. k \in 1..Len(x) /\ x[k].of = N /\ x[k].at = i /\ x[k].byte = frame[i] /\ Frame(t, x[k]) = frame
      BY <1>10
    <3>2. i = Len(frame) => ~(k < Len(x))
      BY <1>2, <1>4, <1>7
    <3>3. i # Len(frame) => k < Len(x) /\ x[k + 1].of = N /\ x[k + 1].at = i + 1
      <4>1. i # Len(frame) => i + 1 \in 1..Len(frame) /\ k + 1 = Len(w) + (i + 1) /\ k < Len(x)
        BY <1>2, <1>4, <1>7
      <4> HIDE DEF k
      <4> QED
        BY <1>10, <4>1
    <3>4. \A n \in N..N : n = N
      BY <1>2
    <3>5. k \in k..Len(x) /\ i <= Len(frame)
      BY <1>2, <1>4, <1>7
    <3> HIDE DEF k
    <3>6. \A n \in x[k].of..N : \E l \in k..Len(x) : x[l].of = n
      BY <3>1, <3>4, <3>5
    <3> QED
      BY <3>1, <3>2, <3>3, <3>5, <3>6 DEF k
  <2>4. ASSUME NEW j \in 1..Len(x), NEW k \in 1..Len(x), j < k
        PROVE  x[j].of <= x[k].of /\ (x[j].at = Len(Frame(t, x[j])) => x[j].of < x[k].of)
    <3>1. CASE j \in 1..Len(w) /\ k \in 1..Len(w)
      BY <1>1, <1>9, <2>4, <3>1 DEF InOrder
    <3>2. CASE j \in 1..Len(w) /\ k \notin 1..Len(w)
      <4>1. x[k].of = N
        BY <1>11, <3>2
      <4>2. x[j].of < N /\ x[j].of \in Nat
        BY <1>2, <1>9, <3>2
      <4> QED
        BY <1>2, <4>1, <4>2
    <3>3. CASE j \notin 1..Len(w)
      <4>1. PICK i \in 1..Len(frame) : j = Len(w) + i
        BY <1>8, <3>3
      <4>2. k \notin 1..Len(w)
        BY <1>2, <2>4, <4>1
      <4>3. x[k].of = N
        BY <1>11, <4>2
      <4>4. i # Len(frame)
        BY <1>2, <1>4, <1>7, <2>4, <4>1
      <4> QED
        BY <1>2, <1>10, <4>1, <4>3, <4>4
    <3> QED
      BY <3>1, <3>2, <3>3
  <2> DEFINE At(k) == /\ x[k].at <= Len(Frame(t, x[k]))
                      /\ x[k].byte = Frame(t, x[k])[x[k].at]
                      /\ IF x[k].at = Len(Frame(t, x[k])) THEN k < Len(x) => x[k + 1].at = 1
                         ELSE k < Len(x) /\ x[k + 1].of = x[k].of /\ x[k + 1].at = x[k].at + 1
                      /\ \A n \in x[k].of..N : \E l \in k..Len(x) : x[l].of = n
  <2>5. \A k \in 1..Len(w) : At(k)
    BY <2>1, <2>2
  <2>6. \A i \in 1..Len(frame) : At(Len(w) + i)
    BY <2>3
  <2> HIDE DEF At
  <2>7. \A k \in 1..Len(x) : At(k)
    BY <1>8, <2>5, <2>6
  <2> QED
    BY <1>3, <2>4, <2>7 DEF InOrder, At
<1>13. Typed(t, broke, a, x)
  <2>1. broke \subseteq 1..Len(t)
    BY <1>1, <1>2, <1>3
  <2> QED
    BY <1>1, <1>3, <1>7, <2>1 DEF Typed, Assembler
<1>14. UnderWay(t, broke, a, x)
  <2> SUFFICES ASSUME x # <<>>, x[1].at > 1, x[1].of \notin broke, Fits(t[x[1].of])
               PROVE  a.in_frame /\ a.buffer = SubSeq(Frame(t, x[1]), 1, x[1].at - 1)
    BY DEF UnderWay
  <2>1. 1 \in 1..Len(w)
    <3> SUFFICES ASSUME 1 \notin 1..Len(w) PROVE FALSE
      OBVIOUS
    <3>1. Len(w) + 1 = 1 /\ 1 \in 1..Len(frame)
      BY <1>2, <1>4
    <3>2. x[1].at = 1
      BY <1>10, <3>1
    <3> QED
      BY <3>2
  <2>2. w # <<>>
    BY <2>1, EmptySeq
  <2>3. x[1] = w[1] /\ Frame(t, x[1]) = Frame(s, w[1]) /\ t[x[1].of] = s[w[1].of]
    BY <1>9, <2>1
  <2> QED
    BY <1>1, <2>2, <2>3 DEF UnderWay
<1>15. Traced(t, a, x)
  <2>1. PICK f : Tracing(f, s, a, w)
    BY <1>1 DEF Traced
  <2>2. /\ f \in [1..Len(a.frames) -> 1..Len(s)]
        /\ \A i, j \in 1..Len(a.frames) : i < j => f[i] < f[j]
        /\ \A i \in 1..Len(a.frames) : Crc(a.frames[i]) = Crc(s[f[i]])
        /\ \A i \in 1..Len(a.frames), l \in 1..Len(w) : f[i] < w[l].of
    BY <2>1 DEF Tracing
  <2>3. f \in [1..Len(a.frames) -> 1..Len(t)]
    BY <1>2, <1>3, <2>2
  <2>4. \A i \in 1..Len(a.frames) : Crc(a.frames[i]) = Crc(t[f[i]])
    BY <1>3, <2>2
  <2>5. ASSUME NEW n \in 1..Len(s), NEW l \in 1..Len(x),
               \A k \in 1..Len(w) : n <= w[k].of
        PROVE  n <= x[l].of
    <3>1. CASE l \in 1..Len(w)
      BY <1>9, <2>5, <3>1
    <3>2. CASE l \notin 1..Len(w)
      <4>1. x[l].of = N
        BY <1>11, <3>2
      <4> QED
        BY <1>2, <4>1
    <3> QED
      BY <3>1, <3>2
  <2>6. ASSUME NEW i \in 1..Len(a.frames), NEW l \in 1..Len(x) PROVE f[i] < x[l].of
    <3>1. CASE l \in 1..Len(w)
      BY <1>9, <2>2, <3>1
    <3>2. CASE l \notin 1..Len(w)
      <4>1. x[l].of = N
        BY <1>11, <3>2
      <4>2. f[i] \in 1..Len(s)
        BY <2>2
      <4> QED
        BY <1>2, <4>1, <4>2
    <3> QED
      BY <3>1, <3>2
  <2>7. ASSUME NEW k \in 1..Len(a.buffer), a.buffer[k] \notin Byte
        PROVE  \E n \in 1..Len(t) : /\ a.buffer[k] = Crc(t[n])
                                    /\ \A i \in 1..Len(a.frames) : f[i] < n
                                    /\ \A l \in 1..Len(x) : n <= x[l].of
    <3>1. PICK n \in 1..Len(s) : /\ a.buffer[k] = Crc(s[n])
                                 /\ \A i \in 1..Len(a.frames) : f[i] < n
                                 /\ \A l \in 1..Len(w) : n <= w[l].of
      BY <2>1, <2>7 DEF Tracing
    <3>2. n \in 1..Len(t) /\ t[n] = s[n]
      BY <1>2, <1>3
    <3>3. \A l \in 1..Len(x) : n <= x[l].of
      BY <2>5, <3>1
    <3> QED
      BY <3>1, <3>2, <3>3
  <2>8. Tracing(f, t, a, x)
    BY <2>2, <2>3, <2>4, <2>6, <2>7 DEF Tracing
  <2> QED
    BY <2>8 DEF Traced
<1>16. Returned(t, broke, a, x)
  <2> DEFINE A == Whole(s, broke, w)
  <2>1. ASSUME NEW i \in Whole(t, broke, x) PROVE i \in A
    <3>1. i \in 1..N /\ i \notin broke /\ Fits(t[i]) /\ \A k \in 1..Len(x) : x[k].of # i
      BY <1>3 DEF Whole
    <3>2. i # N
      <4>1. 1 \in 1..Len(frame)
        BY <1>4
      <4> QED
        BY <1>10, <3>1, <4>1
    <3>3. i \in 1..Len(s) /\ t[i] = s[i]
      BY <1>2, <1>3, <3>1, <3>2
    <3>4. \A k \in 1..Len(w) : w[k].of # i
      BY <1>9, <3>1
    <3> QED
      BY <3>1, <3>3, <3>4 DEF Whole
  <2>2. Whole(t, broke, x) \subseteq A
    BY <2>1
  <2>3. FoundIn(Whole(t, broke, x), s, a.frames)
    BY <1>1, <2>2, FoundInFewer DEF Returned
  <2>4. \A i \in Whole(t, broke, x) : t[i] = s[i]
    BY <1>3, <2>2 DEF Whole
  <2> QED
    BY <2>3, <2>4 DEF Returned, FoundIn
<1>17. Good(t, broke, a, x)
  BY <1>1, <1>12, <1>13, <1>14, <1>15, <1>16 DEF Good
<1> QED
  BY <1>17 DEF t, x, u, frame

-----------------------------------------------------------------------------
(***************************************************************************)
(* The theorems.                                                           *)
(***************************************************************************)
IInv == Good(sent, broken, assembler, wire)

LEMMA InitGood == Init => IInv
<1> SUFFICES ASSUME Init PROVE IInv
  OBVIOUS
<1>1. /\ wire = <<>> /\ sent = <<>> /\ broken = {}
      /\ assembler = [in_frame |-> FALSE, buffer |-> <<>>, frames |-> <<>>]
  BY DEF Init
<1>2. Len(<<>>) = 0 /\ \A S : <<>> \in Seq(S)
  BY EmptySeq
<1>3. Typed(sent, broken, assembler, wire)
  BY <1>1, <1>2 DEF Typed
<1>4. InOrder(sent, wire)
  BY <1>1, <1>2 DEF InOrder
<1>5. Buffered(assembler)
  BY <1>1, <1>2 DEF Buffered
<1>6. UnderWay(sent, broken, assembler, wire)
  BY <1>1 DEF UnderWay
<1> DEFINE f == [i \in {} |-> i]
<1>7. f \in [1..0 -> 1..0] /\ 1..0 = {}
  OBVIOUS
<1>8. Traced(sent, assembler, wire)
  <2> HIDE DEF f
  <2>1. Tracing(f, sent, assembler, wire)
    BY <1>1, <1>2, <1>7 DEF Tracing
  <2> QED
    BY <2>1 DEF Traced
<1>9. Returned(sent, broken, assembler, wire)
  <2>1. Whole(sent, broken, wire) = {} /\ DOMAIN assembler.frames = {}
    BY <1>1, <1>2 DEF Whole
  <2>2. f \in [{} -> {}]
    OBVIOUS
  <2> HIDE DEF f
  <2> QED
    BY <2>1, <2>2 DEF Returned, FoundIn
<1> QED
  BY <1>3, <1>4, <1>5, <1>6, <1>8, <1>9 DEF IInv, Good

LEMMA NextGood == IInv /\ [Next]_vars => IInv'
<1> SUFFICES ASSUME IInv, [Next]_vars PROVE IInv'
  OBVIOUS
<1>1. Good(sent, broken, assembler, wire) /\ wire \in Seq(Element(sent)) /\ Len(wire) \in Nat
  BY LenProperties DEF IInv, Good, Typed
<1>2. ASSUME NEW m \in Contents, Send(m) PROVE IInv'
  <2>1. sent \in Seq(Contents)
    BY <1>1 DEF Good, Typed
  <2>2. sent' = Append(sent, m) /\ Len(sent') = Len(sent) + 1
        /\ wire' = wire \o Numbered(Encode(m), Len(sent')) /\ UNCHANGED <<broken, assembler>>
    BY <1>2, <2>1, AppendProperties DEF Send
  <2>3. wire' = wire \o Numbered(Encode(m), Len(sent) + 1)
    BY <2>2
  <2>4. Good(Append(sent, m), broken, assembler, wire \o Numbered(Encode(m), Len(sent) + 1))
    BY <1>1, GoodSend
  <2> QED
    BY <2>2, <2>3, <2>4 DEF IInv
<1>3. ASSUME NEW n \in 1..MaxMtu, Notified(n) PROVE IInv'
  <2>1. n \in Nat /\ n <= Len(wire)
    BY <1>3 DEF Notified
  <2>2. Good(sent, broken, Fed(assembler, [k \in 1..n |-> wire[k].byte]), SubSeq(wire, n + 1, Len(wire)))
    BY <1>1, <2>1, GoodBytes
  <2>3. /\ assembler' = Fed(assembler, [k \in 1..n |-> wire[k].byte])
        /\ wire' = SubSeq(wire, n + 1, Len(wire)) /\ UNCHANGED <<sent, broken>>
    BY <1>3 DEF Notified
  <2> QED
    BY <2>2, <2>3 DEF IInv
<1>4. ASSUME NEW n \in 1..MaxMtu, Lost(n) PROVE IInv'
  <2>1. n \in Nat /\ n <= Len(wire) /\ n > 0
    BY <1>4 DEF Lost
  <2>2. Good(sent, broken \cup {wire[k].of : k \in 1..n}, assembler, SubSeq(wire, n + 1, Len(wire)))
    BY <1>1, <2>1, GoodLoss
  <2>3. /\ broken' = broken \cup {wire[k].of : k \in 1..n}
        /\ wire' = SubSeq(wire, n + 1, Len(wire)) /\ UNCHANGED <<sent, assembler>>
    BY <1>4 DEF Lost, Loses
  <2> QED
    BY <2>2, <2>3 DEF IInv
<1>5. ASSUME NextSession PROVE IInv'
  <2> DEFINE n == Len(wire)
             B == broken \cup {wire[k].of : k \in 1..n}
             x == SubSeq(wire, n + 1, Len(wire))
  <2>1. n \in Nat /\ n <= Len(wire) /\ (n > 0 \/ wire = <<>>)
    BY <1>1, EmptySeq
  <2>2. Good(sent, B, assembler, x)
    BY <1>1, <2>1, GoodLoss
  <2>3. x = <<>>
    BY <1>1, SubSeqEmpty
  <2>4. broken' = B /\ wire' = x /\ assembler' = Reset(assembler) /\ sent' = sent
    BY <1>5 DEF NextSession, Loses
  <2> HIDE DEF B, x
  <2>5. Good(sent, B, Reset(assembler), x)
    BY <2>2, <2>3, GoodReset
  <2> QED
    BY <2>4, <2>5 DEF IInv
<1>6. CASE UNCHANGED vars
  BY <1>1, <1>6 DEF IInv, vars
<1> QED
  BY <1>2, <1>3, <1>4, <1>5, <1>6 DEF Next

\* The inductive invariant: the bytes on the wire, the assembler's buffer and the
\* messages lost and returned agree, however notifications cut the bytes.
THEOREM InvariantHolds == Spec => []IInv
<1>1. Init => IInv
  BY InitGood
<1>2. IInv /\ [Next]_vars => IInv'
  BY NextGood
<1> QED
  BY <1>1, <1>2, PTL DEF Spec

\* Every frame whose bytes all arrive is returned by the assembler, in order,
\* whatever was lost before it: whichever the CRC is.
THEOREM WholeFramesArriveHolds == Spec => []WholeFramesArrive
<1>1. IInv => WholeFramesArrive
  BY DEF IInv, Good, Returned, Whole, WholeFramesArrive, Arrived
<1> QED
  BY <1>1, InvariantHolds, PTL

\* Each message returned has the CRC of one that was sent, each of another, in
\* the order they were sent: whichever the CRC is.
ChecksumsSent ==
  \E f \in [DOMAIN assembler.frames -> DOMAIN sent] :
    /\ \A i, j \in DOMAIN assembler.frames : i < j => f[i] < f[j]
    /\ \A i \in DOMAIN assembler.frames : Crc(assembler.frames[i]) = Crc(sent[f[i]])

LEMMA DomainsOf ==
  ASSUME IInv
  PROVE  /\ DOMAIN assembler.frames = 1..Len(assembler.frames) /\ DOMAIN sent = 1..Len(sent)
         /\ sent \in Seq(Contents) /\ assembler.frames \in Seq(Seq(Elements))
<1>1. sent \in Seq(Contents) /\ assembler.frames \in Seq(Seq(Elements))
  BY DEF IInv, Good, Typed
<1> QED
  BY <1>1, LenProperties

THEOREM ChecksumsSentHolds == Spec => []ChecksumsSent
<1>1. IInv => ChecksumsSent
  <2> SUFFICES ASSUME IInv PROVE ChecksumsSent
    OBVIOUS
  <2>1. PICK f : Tracing(f, sent, assembler, wire)
    BY DEF IInv, Good, Traced
  <2>2. DOMAIN assembler.frames = 1..Len(assembler.frames) /\ DOMAIN sent = 1..Len(sent)
    BY DomainsOf
  <2> QED
    BY <2>1, <2>2 DEF Tracing, ChecksumsSent
<1> QED
  BY <1>1, InvariantHolds, PTL

\* What the assembler returned that the trap had not sent, it returned because of
\* a collision: as long as nothing returned has the CRC of a message it is not,
\* nothing is invented.
NoCollision ==
  \A i \in DOMAIN assembler.frames, n \in DOMAIN sent :
    Crc16(assembler.frames[i]) = Crc16(sent[n]) => assembler.frames[i] = sent[n]

\* C20FrameAssembler and c20_decode, with any CRC: what they return was sent, each
\* message at most once and in order, unless a damaged frame collided with a message.
THEOREM OnlyCollisionsInvent == Spec => [](NoCollision => NothingInvented)
<1>1. IInv => (NoCollision => NothingInvented)
  <2> SUFFICES ASSUME IInv, NoCollision PROVE NothingInvented
    OBVIOUS
  <2>1. PICK f : Tracing(f, sent, assembler, wire)
    BY DEF IInv, Good, Traced
  <2>2. /\ DOMAIN assembler.frames = 1..Len(assembler.frames) /\ DOMAIN sent = 1..Len(sent)
        /\ sent \in Seq(Contents) /\ assembler.frames \in Seq(Seq(Elements))
    BY DomainsOf
  <2>3. ASSUME NEW i \in 1..Len(assembler.frames) PROVE assembler.frames[i] = sent[f[i]]
    <3> DEFINE c == assembler.frames[i]
               m == sent[f[i]]
    <3>1. Crc(c) = Crc(m) /\ f[i] \in 1..Len(sent)
      BY <2>1 DEF Tracing
    <3>2. m \in Contents /\ c \in Seq(Elements)
      BY <2>2, <3>1, ElementOfSeq
    <3>3. Len(c) \in 2..(MaxBuffer - 2)
      BY DEF IInv, Good, Buffered
    <3> HIDE DEF c, m
    <3>4. Crc16(c) \in Nat /\ Crc16(m) \in Nat
      BY <3>2, <3>3, CrcOfBody, FramesAssumption
    <3>5. Crc16(c) = Crc16(m)
      BY <3>1, <3>4 DEF Crc
    <3> QED
      BY <2>2, <3>1, <3>5 DEF NoCollision, c, m
  <2> QED
    BY <2>1, <2>2, <2>3 DEF Tracing, NothingInvented, FoundIn
<1> QED
  BY <1>1, InvariantHolds, PTL
================================================================================
