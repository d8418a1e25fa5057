-------------------------- MODULE Formatter_proofs --------------------------
(***************************************************************************)
(* Theorems about Formatter, for every table of names, every operand, every*)
(* buffer and any number of calls: what was written is whole text, and the *)
(* overflow flag is set exactly when some of it was lost.                  *)
(***************************************************************************)
EXTENDS Formatter, Lists_proofs, SequenceTheorems, TLAPS

(* Text that is not cut inside a character. *)
Text == {t \in Seq(Byte) : WholeChars(t)}

(***************************************************************************)
(* Whole texts                                                             *)
(***************************************************************************)

(* A byte of a text and the bytes of its character are in the text. *)
LEMMA CharIsThere ==
  ASSUME NEW t \in Text, NEW n \in 1..Len(t), NEW k \in 1..t[n][4]
  PROVE  /\ t[n][3] \in 1..4 /\ t[n][4] \in 1..4
         /\ n - t[n][3] + k \in 1..Len(t)
         /\ n - t[n][3] + t[n][4] <= Len(t) /\ n > t[n][3] - 1
         /\ t[n - t[n][3] + k] = [t[n] EXCEPT ![3] = k]
<1>1. t \in Seq(Byte) /\ WholeChars(t) BY DEF Text
<1>2. t[n] \in Byte BY <1>1
<1>3. t[n][3] \in 1..4 /\ t[n][4] \in 1..4 BY <1>2 DEF Byte
<1>4. /\ n - t[n][3] + t[n][4] <= Len(t) /\ n > t[n][3] - 1
      /\ t[n - t[n][3] + k] = [t[n] EXCEPT ![3] = k]
  BY <1>1 DEF WholeChars
<1> QED BY <1>3, <1>4

(* A place in the second of two joined texts. *)
LEMMA Shift ==
  ASSUME NEW m \in Int, NEW a \in Int, NEW k \in Int, NEW u \in Nat, NEW v \in Nat
  PROVE  /\ m - a + k \in 1..v =>
              /\ (m + u) - a + k \in 1..(u + v) /\ ~((m + u) - a + k <= u)
              /\ ((m + u) - a + k) - u = m - a + k
         /\ m - a + k <= v => (m + u) - a + k <= u + v
         /\ m > a - 1 => m + u > a - 1
  OBVIOUS

(* Whole texts join to a whole text. *)
LEMMA JoinWhole ==
  ASSUME NEW s \in Text, NEW t \in Text
  PROVE  s \o t \in Text
<1> DEFINE j == s \o t
<1>1. s \in Seq(Byte) /\ t \in Seq(Byte) BY DEF Text
<1>2. /\ j \in Seq(Byte) /\ Len(j) = Len(s) + Len(t)
      /\ \A i \in 1..Len(s) + Len(t) : j[i] = IF i <= Len(s) THEN s[i] ELSE t[i - Len(s)]
  BY <1>1, ConcatProperties
<1>3. Len(s) \in Nat /\ Len(t) \in Nat /\ DOMAIN j = 1..(Len(s) + Len(t)) BY <1>1, <1>2
<1> HIDE DEF j
<1>4. ASSUME NEW n \in DOMAIN j
      PROVE  /\ n - j[n][3] + j[n][4] <= Len(j)
             /\ n > j[n][3] - 1
             /\ \A k \in 1..j[n][4] : j[n - j[n][3] + k] = [j[n] EXCEPT ![3] = k]
  <2>1. CASE n <= Len(s)
    <3>1. n \in 1..Len(s) /\ j[n] = s[n] BY <1>2, <1>3, <2>1
    <3>2. s[n] \in Byte BY <1>1, <3>1
    <3>3. s[n][4] \in 1..s[n][4] /\ s[n][4] \in 1..4 /\ s[n][3] \in 1..4 BY <3>2 DEF Byte
    <3>4. n - s[n][3] + s[n][4] <= Len(s) /\ n > s[n][3] - 1 BY <3>1, <3>3, CharIsThere
    <3>5. ASSUME NEW k \in 1..s[n][4]
          PROVE  j[n - s[n][3] + k] = [s[n] EXCEPT ![3] = k]
      <4>1. n - s[n][3] + k \in 1..Len(s) /\ s[n - s[n][3] + k] = [s[n] EXCEPT ![3] = k]
        BY <3>1, CharIsThere
      <4> QED BY <1>2, <1>3, <4>1
    <3> QED BY <1>2, <1>3, <3>1, <3>3, <3>4, <3>5
  <2>2. CASE ~(n <= Len(s))
    <3> DEFINE m == n - Len(s)
    <3>0. m \in Int /\ n \in Int /\ n = m + Len(s) BY <1>3
    <3>1. m \in 1..Len(t) /\ j[n] = t[m] BY <1>2, <1>3, <2>2
    <3> HIDE DEF m
    <3>2. t[m] \in Byte BY <1>1, <3>1
    <3>3. t[m][4] \in 1..t[m][4] /\ t[m][4] \in 1..4 /\ t[m][3] \in 1..4 BY <3>2 DEF Byte
    <3> DEFINE a == t[m][3]
               e == t[m][4]
    <3>4. m - a + e <= Len(t) /\ m > a - 1 BY <3>1, <3>3, CharIsThere
    <3>5. ASSUME NEW k \in 1..t[m][4]
          PROVE  j[n - t[m][3] + k] = [t[m] EXCEPT ![3] = k]
      <4>1. m - t[m][3] + k \in 1..Len(t) /\ t[m - t[m][3] + k] = [t[m] EXCEPT ![3] = k]
        BY <3>1, CharIsThere
      <4>2. n - t[m][3] + k \in 1..(Len(s) + Len(t)) /\ ~(n - t[m][3] + k <= Len(s))
            /\ (n - t[m][3] + k) - Len(s) = m - t[m][3] + k
        <5>1. a \in Int /\ k \in Int /\ m - a + k \in 1..Len(t) BY <3>3, <4>1
        <5>2. Len(s) \in Nat /\ Len(t) \in Nat BY <1>3
        <5> HIDE DEF a
        <5>3. (m + Len(s)) - a + k \in 1..(Len(s) + Len(t)) BY <3>0, <5>1, <5>2, Shift
        <5>4. ~((m + Len(s)) - a + k <= Len(s)) BY <3>0, <5>1, <5>2, Shift
        <5>5. ((m + Len(s)) - a + k) - Len(s) = m - a + k BY <3>0, <5>1, <5>2, Shift
        <5>6. n - a + k = (m + Len(s)) - a + k BY <3>0
        <5> QED BY <5>3, <5>4, <5>5, <5>6 DEF a
      <4> QED BY <1>2, <4>1, <4>2
    <3>6. n - t[m][3] + t[m][4] <= Len(j) /\ n > t[m][3] - 1
      <4>1. a \in Int /\ e \in Int BY <3>3
      <4>2. Len(s) \in Nat /\ Len(t) \in Nat /\ Len(j) = Len(s) + Len(t) BY <1>2, <1>3
      <4> HIDE DEF a, e
      <4>3. (m + Len(s)) - a + e <= Len(s) + Len(t) BY <3>0, <3>4, <4>1, <4>2, Shift
      <4>4. m + Len(s) > a - 1 BY <3>0, <3>4, <4>1, <4>2, Shift
      <4>5. n - a + e = (m + Len(s)) - a + e /\ n = m + Len(s) BY <3>0
      <4> QED BY <4>2, <4>3, <4>4, <4>5 DEF a, e
    <3> QED BY <3>1, <3>5, <3>6
  <2> QED BY <2>1, <2>2
<1>5. WholeChars(j) BY <1>4 DEF WholeChars
<1> QED BY <1>2, <1>5 DEF Text, j

(* A byte that is a character of its own is the first and only one. *)
LEMMA AsciiIsByte ==
  ASSUME NEW b \in AsciiByte
  PROVE  /\ b \in Byte /\ b[3] = 1 /\ b[4] = 1
         /\ [b EXCEPT ![3] = 1] = b
         /\ \A v \in BOOLEAN : [b EXCEPT ![2] = v] \in AsciiByte
<1>1. PICK c \in Chars, u \in BOOLEAN : b = <<c, u, 1, 1>> BY DEF AsciiByte
<1>2. [b EXCEPT ![3] = 1] = b BY <1>1
<1>3. ASSUME NEW v \in BOOLEAN PROVE [b EXCEPT ![2] = v] \in AsciiByte
  <2>1. [b EXCEPT ![2] = v] = <<c, v, 1, 1>> BY <1>1
  <2> QED BY <2>1 DEF AsciiByte
<1> QED BY <1>1, <1>2, <1>3 DEF Byte

(* ASCII text may be cut anywhere. *)
LEMMA AsciiWhole ==
  ASSUME NEW t \in Seq(AsciiByte)
  PROVE  t \in Text
<1>1. ASSUME NEW n \in DOMAIN t
      PROVE  /\ t[n] \in Byte
             /\ n - t[n][3] + t[n][4] <= Len(t)
             /\ n > t[n][3] - 1
             /\ \A k \in 1..t[n][4] : t[n - t[n][3] + k] = [t[n] EXCEPT ![3] = k]
  <2>1. t[n] \in AsciiByte /\ n \in 1..Len(t) /\ Len(t) \in Nat OBVIOUS
  <2>2. /\ t[n] \in Byte /\ t[n][3] = 1 /\ t[n][4] = 1
        /\ [t[n] EXCEPT ![3] = 1] = t[n]
    BY <2>1, AsciiIsByte
  <2>3. n - t[n][3] + t[n][4] = n BY <2>1, <2>2
  <2>4. ASSUME NEW k \in 1..t[n][4] PROVE t[n - t[n][3] + k] = [t[n] EXCEPT ![3] = k]
    <3>1. k = 1 BY <2>2
    <3>2. n - t[n][3] + k = n BY <2>1, <2>2, <3>1
    <3> QED BY <2>2, <3>1, <3>2
  <2> QED BY <2>1, <2>2, <2>3, <2>4
<1>2. t \in Seq(Byte)
  <2>1. t \in [1..Len(t) -> Byte] /\ Len(t) \in Nat BY <1>1
  <2> QED BY <2>1
<1> QED BY <1>1, <1>2 DEF Text, WholeChars

(* ASCII text in upper case is ASCII text. *)
LEMMA UpperAscii ==
  ASSUME NEW t \in Seq(AsciiByte)
  PROVE  Upper(t) \in Seq(AsciiByte) /\ Len(Upper(t)) = Len(t)
<1>1. ASSUME NEW n \in 1..Len(t)
      PROVE  [t[n] EXCEPT ![2] = t[n][1] \in Letters] \in AsciiByte
  <2>1. t[n] \in AsciiByte OBVIOUS
  <2> DEFINE v == t[n][1] \in Letters
  <2>2. v \in BOOLEAN OBVIOUS
  <2> HIDE DEF v
  <2>3. [t[n] EXCEPT ![2] = v] \in AsciiByte BY <2>1, <2>2, AsciiIsByte
  <2> QED BY <2>3 DEF v
<1>2. DOMAIN t = 1..Len(t) /\ Len(t) \in Nat OBVIOUS
<1>3. Upper(t) \in [1..Len(t) -> AsciiByte] BY <1>1, <1>2 DEF Upper
<1> QED BY <1>2, <1>3

(* A text of the formatter's own characters. *)
LEMMA OwnTexts ==
  /\ \A c \in {".", ",", " "} : Ascii(c) \in Seq(AsciiByte)
  /\ \A n \in Nat : Spaces(n) \in Seq(AsciiByte) /\ Len(Spaces(n)) = n
<1>1. \A c \in {".", ",", " "} : c \in Chars BY FormatterAssumption
<1>2. \A c \in Chars : <<c, FALSE, 1, 1>> \in AsciiByte BY DEF AsciiByte
<1>3. ASSUME NEW c \in Chars PROVE Ascii(c) \in Seq(AsciiByte) /\ Ascii(c)[1] \in AsciiByte
  <2> DEFINE b == <<c, FALSE, 1, 1>>
  <2>1. b \in AsciiByte BY <1>2
  <2> HIDE DEF b
  <2>2. <<b>> \in Seq(AsciiByte) /\ <<b>>[1] = b BY <2>1
  <2> QED BY <2>1, <2>2 DEF Ascii, b
<1>4. ASSUME NEW n \in Nat PROVE Spaces(n) \in [1..n -> AsciiByte]
  BY <1>1, <1>3 DEF Spaces
<1>5. \A c \in {".", ",", " "} : Ascii(c) \in Seq(AsciiByte) BY <1>1, <1>3
<1>6. ASSUME NEW n \in Nat PROVE Spaces(n) \in Seq(AsciiByte) /\ Len(Spaces(n)) = n
  BY <1>4
<1> QED BY <1>5, <1>6

(***************************************************************************)
(* Runs                                                                    *)
(***************************************************************************)

(* How many runs a text makes. *)
RunCount(t, n) == (Len(t) + n - 1) \div n

LEMMA RunCountBounds ==
  ASSUME NEW L \in Nat, NEW n \in Nat \ {0}, NEW K, K = (L + n - 1) \div n
  PROVE  /\ K \in Nat /\ n * K >= L
         /\ \A k \in 1..K : n * (k - 1) < L /\ n * (k - 1) \in Nat
<1>1. L + n - 1 \in Nat OBVIOUS
<1>2. K \in Nat /\ n * K <= L + n - 1 /\ L + n - 1 < n * (K + 1) BY <1>1
<1>3. n * (K + 1) = n * K + n BY <1>2
<1>4. n * K >= L BY <1>2, <1>3
<1>5. ASSUME NEW k \in 1..K PROVE n * (k - 1) < L /\ n * (k - 1) \in Nat
  <2>1. k - 1 \in Nat /\ k - 1 <= K - 1 /\ K - 1 \in Nat BY <1>2
  <2>2. n * (k - 1) <= n * (K - 1) BY <2>1
  <2>3. n * (K - 1) = n * K - n BY <1>2
  <2> QED BY <1>2, <2>1, <2>2, <2>3
<1> QED BY <1>2, <1>4, <1>5

(* Cut into runs, a text loses nothing and gains nothing. *)
LEMMA RunsKeep ==
  ASSUME NEW T, NEW t \in Seq(T), NEW n \in Nat \ {0}
  PROVE  Runs(t, n) \in Seq(Seq(T)) /\ FlattenSeq(Runs(t, n)) = t
<1> DEFINE L == Len(t)
           K == RunCount(t, n)
           End(k) == IF n * k < L THEN n * k ELSE L
           r == Runs(t, n)
           R(k) == SubSeq(r, 1, k)
           G == {k \in 0..K : FlattenSeq(R(k)) = SubSeq(t, 1, End(k))}
<1>1. L \in Nat OBVIOUS
<1>2. /\ K \in Nat /\ n * K >= L
      /\ \A k \in 1..K : n * (k - 1) < L /\ n * (k - 1) \in Nat
  <2> HIDE DEF L
  <2>1. K = (L + n - 1) \div n BY DEF RunCount, L
  <2> HIDE DEF K
  <2> QED BY <1>1, <2>1, RunCountBounds
<1>3. ASSUME NEW k \in 1..K
      PROVE  /\ End(k - 1) = n * (k - 1) /\ End(k - 1) \in 0..L
             /\ End(k) \in End(k - 1)..L
  <2> HIDE DEF L, K
  <2>1. n * k = n * (k - 1) + n BY <1>2
  <2> QED BY <1>1, <1>2, <2>1
<1>4. r = [k \in 1..K |-> SubSeq(t, End(k - 1) + 1, End(k))]
  BY <1>3 DEF Runs, RunCount
<1>5. ASSUME NEW k \in 1..K PROVE SubSeq(t, End(k - 1) + 1, End(k)) \in Seq(T)
  <2> DEFINE i == End(k - 1) + 1
             j == End(k)
  <2>1. i \in Int /\ j \in Int /\ \A h \in i..j : h \in 1..Len(t) BY <1>1, <1>3
  <2> HIDE DEF i, j
  <2>2. \A h \in i..j : t[h] \in T BY <2>1
  <2>3. SubSeq(t, i, j) \in Seq(T) BY <2>1, <2>2, SubSeqProperties
  <2> QED BY <2>3 DEF i, j
<1>6. r \in Seq(Seq(T)) /\ Len(r) = K
  <2> HIDE DEF K, r, End
  <2> QED BY <1>2, <1>4, <1>5
<1>7. 0 \in G
  <2>1. R(0) = <<>> BY SubSeqEmpty
  <2>2. n * 0 = 0 OBVIOUS
  <2>3. End(0) = 0 BY <1>1, <2>2
  <2>4. SubSeq(t, 1, 0) = <<>> BY SubSeqEmpty
  <2>5. FlattenSeq(R(0)) = SubSeq(t, 1, End(0))
    <3> HIDE DEF R, End
    <3> QED BY <2>1, <2>3, <2>4, FlattenEmpty
  <2>6. 0 \in 0..K BY <1>2
  <2> HIDE DEF R, End, K
  <2> QED BY <2>5, <2>6
<1>8. ASSUME NEW k \in 0 + 1..K, k - 1 \in G PROVE k \in G
  <2>1. k \in 1..K /\ k \in 0..K BY <1>2
  <2>2. k \in 1..Len(r) BY <1>6, <2>1
  <2>3. R(k - 1) \in Seq(Seq(T)) /\ R(k) = Append(R(k - 1), r[k])
    <3> HIDE DEF r
    <3> QED BY <1>6, <2>2, PrefixStep
  <2>4. r[k] = SubSeq(t, End(k - 1) + 1, End(k)) /\ r[k] \in Seq(T)
    <3> HIDE DEF r, End
    <3> QED BY <1>4, <1>5, <2>1
  <2>5. FlattenSeq(R(k - 1)) = SubSeq(t, 1, End(k - 1)) BY <1>8
  <2>6. FlattenSeq(R(k)) = SubSeq(t, 1, End(k - 1)) \o SubSeq(t, End(k - 1) + 1, End(k))
    <3> HIDE DEF r, R, End
    <3> QED BY <2>3, <2>4, <2>5, FlattenAppend
  <2>7. SubSeq(t, 1, End(k - 1)) \o SubSeq(t, End(k - 1) + 1, End(k)) = SubSeq(t, 1, End(k))
    <3>1. /\ 1 \in 1..Len(t) + 1 /\ End(k - 1) \in 1 - 1..Len(t)
          /\ End(k) \in End(k - 1)..Len(t)
      BY <1>1, <1>3, <2>1
    <3> HIDE DEF End
    <3> QED BY <3>1, ConcatAdjacentSubSeq
  <2> HIDE DEF R, End, K
  <2> QED BY <2>1, <2>6, <2>7
<1>9. 0..K \subseteq G
  <2> HIDE DEF G, K
  <2>1. 0 \in Nat OBVIOUS
  <2> QED BY <1>2, <1>7, <1>8, <2>1, Upward
<1>10. FlattenSeq(R(K)) = SubSeq(t, 1, End(K))
  <2>1. K \in 0..K BY <1>2
  <2> QED BY <1>9, <2>1
<1>11. End(K) = L BY <1>1, <1>2
<1>12. R(K) = r
  <2> HIDE DEF r, K
  <2> QED BY <1>6, SubSeqFull
<1>13. SubSeq(t, 1, L) = t BY SubSeqFull
<1> HIDE DEF R, End, L, K
<1> QED BY <1>6, <1>10, <1>11, <1>12, <1>13

(***************************************************************************)
(* The chunks of a call                                                    *)
(***************************************************************************)

LEMMA TextSeqs ==
  ASSUME NEW s \in Seq(Text)
  PROVE  s \in Seq(Seq(Byte))
<1>1. Text \subseteq Seq(Byte) BY DEF Text
<1> QED BY <1>1, SeqMonotonic

LEMMA AsciiSeqs ==
  ASSUME NEW s \in Seq(Seq(AsciiByte))
  PROVE  s \in Seq(Text)
<1>1. Seq(AsciiByte) \subseteq Text BY AsciiWhole
<1> QED BY <1>1, SeqMonotonic

(* Text in one case, through the rolling buffer or not. *)
CasedText(text, o) == IF o.upper THEN Upper(text) ELSE text

LEMMA CasedKeeps ==
  ASSUME NEW t \in Seq(AsciiByte), NEW o \in Options
  PROVE  /\ Cased(t, o) \in Seq(Text)
         /\ FlattenSeq(Cased(t, o)) = CasedText(t, o)
         /\ CasedText(t, o) \in Seq(AsciiByte) /\ Len(CasedText(t, o)) = Len(t)
<1>1. CASE o.upper
  <2>1. Upper(t) \in Seq(AsciiByte) /\ Len(Upper(t)) = Len(t) BY UpperAscii
  <2>2. CasedBuf \in Nat \ {0} BY FormatterAssumption
  <2>3. /\ Runs(Upper(t), CasedBuf) \in Seq(Seq(AsciiByte))
        /\ FlattenSeq(Runs(Upper(t), CasedBuf)) = Upper(t)
    BY <2>1, <2>2, RunsKeep
  <2>4. Runs(Upper(t), CasedBuf) \in Seq(Text) BY <2>3, AsciiSeqs
  <2> QED BY <1>1, <2>1, <2>3, <2>4 DEF Cased, CasedText
<1>2. CASE ~o.upper
  <2>1. Cased(t, o) = <<t>> /\ CasedText(t, o) = t BY <1>2 DEF Cased, CasedText
  <2>2. t \in Text BY AsciiWhole
  <2>3. <<t>> \in Seq(Text) BY <2>2
  <2>4. FlattenSeq(<<t>>) = t BY FlattenSingle
  <2> QED BY <2>1, <2>3, <2>4
<1> QED BY <1>1, <1>2

LEMMA SpacesKeep ==
  ASSUME NEW n \in Nat
  PROVE  EmitSpaces(n) \in Seq(Text) /\ FlattenSeq(EmitSpaces(n)) = Spaces(n)
<1>1. Spaces(n) \in Seq(AsciiByte) BY OwnTexts
<1>2. SpacesRun \in Nat \ {0} BY FormatterAssumption
<1>3. /\ Runs(Spaces(n), SpacesRun) \in Seq(Seq(AsciiByte))
      /\ FlattenSeq(Runs(Spaces(n), SpacesRun)) = Spaces(n)
  BY <1>1, <1>2, RunsKeep
<1> QED BY <1>3, AsciiSeqs DEF EmitSpaces

(* Two lists of whole texts, together. *)
LEMMA JoinLists ==
  ASSUME NEW a \in Seq(Text), NEW b \in Seq(Text)
  PROVE  a \o b \in Seq(Text) /\ FlattenSeq(a \o b) = FlattenSeq(a) \o FlattenSeq(b)
<1>1. a \o b \in Seq(Text) BY ConcatProperties
<1>2. a \in Seq(Seq(Byte)) /\ b \in Seq(Seq(Byte)) BY TextSeqs
<1> QED BY <1>1, <1>2, FlattenConcat

(* One text more in front of a list. *)
LEMMA JoinFirst ==
  ASSUME NEW t \in Text, NEW b \in Seq(Text)
  PROVE  <<t>> \o b \in Seq(Text) /\ FlattenSeq(<<t>> \o b) = t \o FlattenSeq(b)
<1>1. <<t>> \in Seq(Text) /\ t \in Seq(Byte) BY DEF Text
<1>2. FlattenSeq(<<t>>) = t BY <1>1, FlattenSingle
<1> QED BY <1>1, <1>2, JoinLists

LEMMA InstructionParts ==
  ASSUME NEW i \in Instructions
  PROVE  /\ i.name \in Seq(AsciiByte)
         /\ i.bcond \in BOOLEAN
         /\ i.cond \in Seq(AsciiByte)
         /\ i.ops \in Seq(Seq(Pieces))
<1>1. /\ i.name \in Names /\ i.bcond \in BOOLEAN /\ i.cond \in CondNames \cup {<<>>}
      /\ i.ops \in SeqOf(OperandTexts, MaxOps)
  BY DEF Instructions
<1>2. i.ops \in Seq(OperandTexts)
  <2>1. MaxOps \in Nat BY FormatterAssumption
  <2>2. PICK m \in 0..MaxOps : i.ops \in [1..m -> OperandTexts] BY <1>1 DEF SeqOf
  <2> QED BY <2>1, <2>2
<1>3. OperandTexts \subseteq Seq(Pieces) BY FormatterAssumption
<1>4. i.ops \in Seq(Seq(Pieces)) BY <1>2, <1>3, SeqMonotonic
<1>5. Names \subseteq Seq(AsciiByte) /\ CondNames \subseteq Seq(AsciiByte)
  BY FormatterAssumption
<1>6. <<>> \in Seq(AsciiByte) OBVIOUS
<1>7. i.name \in Seq(AsciiByte) /\ i.cond \in Seq(AsciiByte) BY <1>1, <1>5, <1>6, Zenon
<1> QED BY <1>1, <1>4, <1>7

(* The name with its condition, in one case. *)
NameText(i) == i.name \o (IF i.cond # <<>> THEN Ascii(".") \o i.cond ELSE <<>>)
CasedName(i, o) == CasedText(NameText(i), o)
HasOperand(i) == Len(i.ops) > IF i.bcond THEN 1 ELSE 0

(* A letterless text keeps its case, and the case of joined texts is the
   case of each. *)
LEMMA UpperJoin ==
  ASSUME NEW s \in Seq(AsciiByte), NEW t \in Seq(AsciiByte)
  PROVE  Upper(s \o t) = Upper(s) \o Upper(t)
<1>1. s \o t \in Seq(AsciiByte) BY ConcatProperties
<1>2. /\ Upper(s) \in Seq(AsciiByte) /\ Len(Upper(s)) = Len(s)
      /\ Upper(t) \in Seq(AsciiByte) /\ Len(Upper(t)) = Len(t)
      /\ Upper(s \o t) \in Seq(AsciiByte) /\ Len(Upper(s \o t)) = Len(s \o t)
  BY <1>1, UpperAscii
<1>3. \A x \in Seq(AsciiByte) : \A n \in 1..Len(x) :
        Upper(x)[n] = [x[n] EXCEPT ![2] = x[n][1] \in Letters]
  BY DEF Upper
<1>4. Upper(s) \o Upper(t) \in Seq(AsciiByte)
      /\ Len(Upper(s) \o Upper(t)) = Len(Upper(s \o t))
  BY <1>2, ConcatProperties
<1>5. ASSUME NEW n \in 1..Len(Upper(s \o t))
      PROVE  Upper(s \o t)[n] = (Upper(s) \o Upper(t))[n]
  <2>1. n \in 1..Len(s) + Len(t) /\ n \in 1..Len(s \o t) BY <1>2, ConcatProperties
  <2>2. CASE n <= Len(s)
    <3>1. n \in 1..Len(s) /\ (s \o t)[n] = s[n] BY <2>1, <2>2, ConcatProperties
    <3>2. (Upper(s) \o Upper(t))[n] = Upper(s)[n] BY <1>2, <2>1, <2>2, ConcatProperties
    <3>3. Upper(s \o t)[n] = [(s \o t)[n] EXCEPT ![2] = (s \o t)[n][1] \in Letters]
      BY <1>1, <1>3, <2>1
    <3>4. Upper(s)[n] = [s[n] EXCEPT ![2] = s[n][1] \in Letters] BY <1>3, <3>1
    <3> QED BY <3>1, <3>2, <3>3, <3>4
  <2>3. CASE ~(n <= Len(s))
    <3> DEFINE m == n - Len(s)
    <3>1. m \in 1..Len(t) /\ (s \o t)[n] = t[m] BY <2>1, <2>3, ConcatProperties
    <3>2. (Upper(s) \o Upper(t))[n] = Upper(t)[m] BY <1>2, <2>1, <2>3, ConcatProperties
    <3> HIDE DEF m
    <3>3. Upper(s \o t)[n] = [(s \o t)[n] EXCEPT ![2] = (s \o t)[n][1] \in Letters]
      BY <1>1, <1>3, <2>1
    <3>4. Upper(t)[m] = [t[m] EXCEPT ![2] = t[m][1] \in Letters] BY <1>3, <3>1
    <3> QED BY <3>1, <3>2, <3>3, <3>4
  <2> QED BY <2>2, <2>3
<1> HIDE DEF Upper
<1> QED BY <1>2, <1>4, <1>5, SeqEqual

LEMMA SameCase ==
  ASSUME NEW c, NEW v, NEW b, b = <<c, v, 1, 1>>
  PROVE  [b EXCEPT ![2] = v] = b /\ b[1] = c
  OBVIOUS

LEMMA DotHasNoCase == Upper(Ascii(".")) = Ascii(".")
<1> DEFINE d == Ascii(".")
           b == <<".", FALSE, 1, 1>>
           v == b[1] \in Letters
<1>1. d \in Seq(AsciiByte) /\ d = <<b>> BY OwnTexts DEF Ascii
<1>2. [b EXCEPT ![2] = FALSE] = b /\ b[1] = "." BY SameCase
<1>3. v = FALSE BY <1>2 DEF Letters
<1> HIDE DEF d, b, v
<1>4. Len(d) = 1 /\ d[1] = b BY <1>1
<1>5. Upper(d) \in Seq(AsciiByte) /\ Len(Upper(d)) = 1 BY <1>1, <1>4, UpperAscii
<1>6. Upper(d)[1] = [d[1] EXCEPT ![2] = d[1][1] \in Letters] BY <1>1, <1>4 DEF Upper
<1>7. Upper(d)[1] = [b EXCEPT ![2] = v] BY <1>4, <1>6 DEF v
<1>8. Upper(d)[1] = d[1] BY <1>2, <1>3, <1>4, <1>7
<1>9. \A n \in 1..Len(Upper(d)) : Upper(d)[n] = d[n] BY <1>5, <1>8
<1>10. Upper(d) = d BY <1>1, <1>4, <1>5, <1>9, SeqEqual
<1> QED BY <1>10 DEF d

(* The chunks of the mnemonic hold the name in the case asked for, padded. *)
LEMMA MnemonicKeeps ==
  ASSUME NEW i \in Instructions, NEW o \in Options
  PROVE  /\ MnemonicChunks(i, o) \in Seq(Text)
         /\ CasedName(i, o) \in Seq(AsciiByte)
         /\ FlattenSeq(MnemonicChunks(i, o)) =
              CasedName(i, o) \o (IF HasOperand(i) THEN Spaces(Padding(Len(CasedName(i, o)), o)) ELSE <<>>)
<1> DEFINE dot    == Ascii(".")
           suffix == IF i.cond # <<>> THEN <<dot>> \o Cased(i.cond, o) ELSE <<>>
           tail   == IF i.cond # <<>> THEN dot \o CasedText(i.cond, o) ELSE <<>>
           have   == Len(i.name) + (IF suffix = <<>> THEN 0 ELSE 1 + Len(i.cond))
           pad    == IF HasOperand(i) THEN EmitSpaces(Padding(have, o)) ELSE <<>>
           space  == IF HasOperand(i) THEN Spaces(Padding(have, o)) ELSE <<>>
<1>1. i.name \in Seq(AsciiByte) /\ i.cond \in Seq(AsciiByte) BY InstructionParts
<1>2. dot \in Seq(AsciiByte) /\ Len(dot) = 1 BY OwnTexts DEF Ascii
<1>3. /\ Cased(i.name, o) \in Seq(Text) /\ FlattenSeq(Cased(i.name, o)) = CasedText(i.name, o)
      /\ CasedText(i.name, o) \in Seq(AsciiByte) /\ Len(CasedText(i.name, o)) = Len(i.name)
      /\ Cased(i.cond, o) \in Seq(Text) /\ FlattenSeq(Cased(i.cond, o)) = CasedText(i.cond, o)
      /\ CasedText(i.cond, o) \in Seq(AsciiByte) /\ Len(CasedText(i.cond, o)) = Len(i.cond)
  BY <1>1, CasedKeeps
<1>4. MnemonicChunks(i, o) = (Cased(i.name, o) \o suffix) \o pad
  BY DEF MnemonicChunks, HasOperand
<1>5. dot \in Text BY <1>2, AsciiWhole
<1> HIDE DEF dot
<1>6. suffix \in Seq(Text) /\ FlattenSeq(suffix) = tail
  <2>1. CASE i.cond # <<>> BY <1>3, <1>5, <2>1, JoinFirst
  <2>2. CASE i.cond = <<>>
    <3>1. suffix = <<>> /\ tail = <<>> BY <2>2
    <3>2. <<>> \in Seq(Text) OBVIOUS
    <3> HIDE DEF suffix, tail
    <3> QED BY <3>1, <3>2, FlattenEmpty
  <2> QED BY <2>1, <2>2
<1>7. CasedName(i, o) = CasedText(i.name, o) \o tail /\ CasedName(i, o) \in Seq(AsciiByte)
      /\ Len(CasedName(i, o)) = have
  <2>1. CASE i.cond # <<>>
    <3>1. NameText(i) = i.name \o (dot \o i.cond) BY <2>1 DEF NameText, dot
    <3>2. dot \o i.cond \in Seq(AsciiByte) /\ Len(dot \o i.cond) = 1 + Len(i.cond)
      <4> DEFINE c == i.cond
      <4>1. c \in Seq(AsciiByte) BY <1>1
      <4> HIDE DEF c
      <4>2. dot \o c \in Seq(AsciiByte) /\ Len(dot \o c) = Len(dot) + Len(c)
        BY <1>2, <4>1, ConcatProperties
      <4> QED BY <1>2, <4>2 DEF c
    <3>3. /\ NameText(i) \in Seq(AsciiByte)
          /\ Len(NameText(i)) = Len(i.name) + (1 + Len(i.cond))
      <4> DEFINE c == i.name
                 e == dot \o i.cond
      <4>1. c \in Seq(AsciiByte) /\ e \in Seq(AsciiByte) BY <1>1, <3>2
      <4> HIDE DEF c, e
      <4>2. c \o e \in Seq(AsciiByte) /\ Len(c \o e) = Len(c) + Len(e)
        BY <4>1, ConcatProperties
      <4> QED BY <3>1, <3>2, <4>2 DEF c, e
    <3>4. /\ CasedText(NameText(i), o) \in Seq(AsciiByte)
          /\ Len(CasedText(NameText(i), o)) = Len(NameText(i))
      BY <3>3, CasedKeeps
    <3>5. suffix # <<>> /\ tail = dot \o CasedText(i.cond, o)
      <4>1. Len(suffix) = 1 + Len(Cased(i.cond, o)) /\ Len(Cased(i.cond, o)) \in Nat
        BY <1>3, <2>1, <1>5, ConcatProperties
      <4> QED BY <2>1, <4>1
    <3>6. CasedText(NameText(i), o) = CasedText(i.name, o) \o (dot \o CasedText(i.cond, o))
      <4>1. CASE o.upper
        <5>1. Upper(i.name \o (dot \o i.cond)) = Upper(i.name) \o Upper(dot \o i.cond)
          BY <1>1, <3>2, UpperJoin
        <5>2. Upper(dot \o i.cond) = Upper(dot) \o Upper(i.cond) BY <1>1, <1>2, UpperJoin
        <5>3. Upper(dot) = dot BY DotHasNoCase DEF dot
        <5> QED BY <3>1, <4>1, <5>1, <5>2, <5>3 DEF CasedText
      <4>2. CASE ~o.upper BY <3>1, <4>2 DEF CasedText
      <4> QED BY <4>1, <4>2
    <3>7. have = Len(i.name) + (1 + Len(i.cond)) BY <3>5
    <3> HIDE DEF suffix, tail, have
    <3> QED BY <3>3, <3>4, <3>5, <3>6, <3>7 DEF CasedName
  <2>2. CASE i.cond = <<>>
    <3>1. suffix = <<>> /\ tail = <<>> /\ NameText(i) = i.name \o <<>> BY <2>2 DEF NameText
    <3>2. NameText(i) = i.name BY <1>1, <3>1, ConcatEmptySeq
    <3>3. CasedText(i.name, o) \o <<>> = CasedText(i.name, o) BY <1>3, ConcatEmptySeq
    <3>4. have = Len(i.name) BY <1>1, <3>1
    <3> HIDE DEF suffix, tail, have
    <3> QED BY <1>3, <3>1, <3>2, <3>3, <3>4 DEF CasedName
  <2> QED BY <2>1, <2>2
<1>8. have \in Nat
  <2>1. CasedName(i, o) \in Seq(AsciiByte) /\ have = Len(CasedName(i, o)) BY <1>7, Zenon
  <2> HIDE DEF have
  <2>2. Len(CasedName(i, o)) \in Nat BY <2>1, LenProperties
  <2> QED BY <2>1, <2>2, Zenon
<1>9. pad \in Seq(Text) /\ FlattenSeq(pad) = space
  <2>1. CASE HasOperand(i)
    <3>1. Padding(have, o) \in Nat
      <4>1. o.column \in Nat BY FormatterAssumption DEF Options
      <4> HIDE DEF have
      <4> QED BY <1>8, <4>1 DEF Padding
    <3> HIDE DEF have
    <3> QED BY <2>1, <3>1, SpacesKeep
  <2>2. CASE ~HasOperand(i)
    <3>1. pad = <<>> /\ space = <<>> BY <2>2
    <3>2. <<>> \in Seq(Text) OBVIOUS
    <3> HIDE DEF pad, space
    <3> QED BY <3>1, <3>2, FlattenEmpty
  <2> QED BY <2>1, <2>2
<1>10. space = IF HasOperand(i) THEN Spaces(Padding(Len(CasedName(i, o)), o)) ELSE <<>>
  <2> HIDE DEF have
  <2> QED BY <1>7
<1> DEFINE c == Cased(i.name, o)
<1> HIDE DEF suffix, tail, pad, space, have, c
<1>11. c \o suffix \in Seq(Text) /\ FlattenSeq(c \o suffix) = FlattenSeq(c) \o FlattenSeq(suffix)
  BY <1>3, <1>6, JoinLists DEF c
<1>12. /\ (c \o suffix) \o pad \in Seq(Text)
       /\ FlattenSeq((c \o suffix) \o pad) = FlattenSeq(c \o suffix) \o FlattenSeq(pad)
  BY <1>9, <1>11, JoinLists
<1>13. FlattenSeq(c \o suffix) = CasedName(i, o) BY <1>3, <1>6, <1>7, <1>11 DEF c
<1> QED BY <1>4, <1>7, <1>9, <1>10, <1>12, <1>13 DEF c

(* A piece is whole text, in its own case or in the one asked for. *)
LEMMA PieceKeeps ==
  ASSUME NEW p \in Pieces, NEW o \in Options
  PROVE  LET c == IF p.cased THEN Cased(p.text, o) ELSE <<p.text>>
         IN  c \in Seq(Text) /\ FlattenSeq(c) = InCase(p, o) /\ InCase(p, o) \in Seq(Byte)
<1> DEFINE c == IF p.cased THEN Cased(p.text, o) ELSE <<p.text>>
<1>1. p.text \in Text /\ p.text \in Seq(Byte) /\ (p.cased => p.text \in Seq(AsciiByte))
  BY DEF Pieces, Text
<1>2. CASE p.cased
  <2>1. /\ Cased(p.text, o) \in Seq(Text) /\ FlattenSeq(Cased(p.text, o)) = CasedText(p.text, o)
        /\ CasedText(p.text, o) \in Seq(AsciiByte)
    BY <1>1, <1>2, CasedKeeps
  <2>2. CasedText(p.text, o) \in Seq(Byte) BY <2>1, AsciiWhole DEF Text
  <2>3. InCase(p, o) = CasedText(p.text, o) BY <1>2 DEF InCase, CasedText
  <2> QED BY <1>2, <2>1, <2>2, <2>3
<1>3. CASE ~p.cased
  <2>1. InCase(p, o) = p.text BY <1>3 DEF InCase
  <2>2. <<p.text>> \in Seq(Text) BY <1>1
  <2>3. FlattenSeq(<<p.text>>) = p.text BY <1>1, FlattenSingle
  <2> QED BY <1>1, <1>3, <2>1, <2>2, <2>3
<1> QED BY <1>2, <1>3

(* The chunks of an operand hold its text. *)
LEMMA OperandKeeps ==
  ASSUME NEW i \in Instructions, NEW o \in Options, NEW n \in 1..Len(i.ops)
  PROVE  /\ OperandChunks(i, n, o) \in Seq(Text)
         /\ FlattenSeq(OperandChunks(i, n, o)) = OperandText(i.ops[n], o)
         /\ OperandText(i.ops[n], o) \in Seq(Byte)
<1> DEFINE ps == i.ops[n]
           Part(k) == IF ps[k].cased THEN Cased(ps[k].text, o) ELSE <<ps[k].text>>
           x == [k \in 1..Len(ps) |-> Part(k)]
           y == [k \in 1..Len(ps) |-> InCase(ps[k], o)]
<1>1. ps \in Seq(Pieces) BY InstructionParts
<1>2. OperandChunks(i, n, o) = FlattenSeq(x) BY DEF OperandChunks
<1>3. OperandText(ps, o) = FlattenSeq(y) BY <1>1 DEF OperandText
<1> HIDE DEF ps
<1>4. ASSUME NEW k \in 1..Len(ps)
      PROVE  Part(k) \in Seq(Text) /\ FlattenSeq(Part(k)) = InCase(ps[k], o)
             /\ InCase(ps[k], o) \in Seq(Byte)
  <2>1. ps[k] \in Pieces BY <1>1
  <2> QED BY <2>1, PieceKeeps
<1>5. Len(ps) \in Nat BY <1>1
<1> HIDE DEF Part
<1>6. x \in Seq(Seq(Text)) /\ y \in Seq(Seq(Byte)) /\ Len(x) = Len(ps) /\ Len(y) = Len(ps)
  BY <1>4, <1>5
<1>7. \A k \in 1..Len(x) : y[k] = FlattenSeq(x[k]) BY <1>4, <1>6
<1> HIDE DEF x, y
<1>8. x \in Seq(Seq(Seq(Byte)))
  <2>1. Seq(Text) \subseteq Seq(Seq(Byte)) BY TextSeqs
  <2> QED BY <1>6, <2>1, SeqMonotonic
<1>9. FlattenSeq(x) \in Seq(Text) BY <1>6, FlattenTyped
<1>10. FlattenSeq(FlattenSeq(x)) = FlattenSeq(y) BY <1>6, <1>7, <1>8, FlattenTwice
<1>11. FlattenSeq(y) \in Seq(Byte) BY <1>6, FlattenTyped
<1> QED BY <1>2, <1>3, <1>9, <1>10, <1>11 DEF ps

LEMMA SeparatorWhole ==
  ASSUME NEW o \in Options
  PROVE  Separator(o) \in Text /\ Separator(o) \in Seq(Byte)
<1>1. Ascii(",") \in Text /\ Ascii(" ") \in Text BY OwnTexts, AsciiWhole
<1>2. Ascii(",") \o Ascii(" ") \in Text BY <1>1, JoinWhole
<1> QED BY <1>1, <1>2 DEF Separator, Text

(* The operands shown, and the text of each. *)
FirstShown(i) == IF i.bcond THEN 1 ELSE 0
Shown(i) == IF i.bcond THEN SubSeq(i.ops, 2, Len(i.ops)) ELSE i.ops
ShownCount(i) == IF Len(i.ops) > FirstShown(i) THEN Len(i.ops) - FirstShown(i) ELSE 0

LEMMA ShownParts ==
  ASSUME NEW i \in Instructions
  PROVE  /\ ShownCount(i) \in Nat /\ Len(Shown(i)) = ShownCount(i)
         /\ DOMAIN Shown(i) = 1..ShownCount(i)
         /\ HasOperand(i) <=> ShownCount(i) # 0
         /\ Shown(i) = <<>> <=> ShownCount(i) = 0
         /\ \A k \in 1..ShownCount(i) :
              FirstShown(i) + k \in 1..Len(i.ops) /\ Shown(i)[k] = i.ops[FirstShown(i) + k]
<1> DEFINE ops == i.ops
<1>1. ops \in Seq(Seq(Pieces)) /\ i.bcond \in BOOLEAN BY InstructionParts
<1>2. Len(ops) \in Nat BY <1>1
<1> HIDE DEF ops
<1>3. CASE i.bcond
  <2>1. \A k \in 2..Len(ops) : ops[k] \in Seq(Pieces) BY <1>1, <1>2
  <2>2. /\ SubSeq(ops, 2, Len(ops)) \in Seq(Seq(Pieces))
        /\ Len(SubSeq(ops, 2, Len(ops))) = IF 2 <= Len(ops) THEN Len(ops) - 2 + 1 ELSE 0
        /\ \A k \in 1..Len(ops) - 2 + 1 : SubSeq(ops, 2, Len(ops))[k] = ops[2 + k - 1]
    BY <1>2, <2>1, SubSeqProperties
  <2>3. FirstShown(i) = 1 /\ Shown(i) = SubSeq(ops, 2, Len(ops)) BY <1>3 DEF FirstShown, Shown, ops
  <2>4. ShownCount(i) = IF Len(ops) > 1 THEN Len(ops) - 1 ELSE 0
    BY <2>3 DEF ShownCount, ops
  <2>5. HasOperand(i) <=> Len(ops) > 1 BY <1>3 DEF HasOperand, ops
  <2> QED BY <1>2, <2>2, <2>3, <2>4, <2>5 DEF ops
<1>4. CASE ~i.bcond
  <2>1. FirstShown(i) = 0 /\ Shown(i) = ops BY <1>4 DEF FirstShown, Shown, ops
  <2>2. ShownCount(i) = Len(ops) BY <1>2, <2>1 DEF ShownCount, ops
  <2>3. HasOperand(i) <=> Len(ops) > 0 BY <1>4 DEF HasOperand, ops
  <2>4. FirstShown(i) + 0 = 0 BY <2>1
  <2> QED BY <1>1, <1>2, <2>1, <2>2, <2>3 DEF ops
<1> QED BY <1>3, <1>4

(* The chunks of a call are whole texts, and together its text. *)
LEMMA ChunksKeep ==
  ASSUME NEW i \in Instructions, NEW o \in Options
  PROVE  /\ Chunks(i, o) \in Seq(Text)
         /\ FlattenSeq(Chunks(i, o)) = TextOf(i, o)
         /\ TextOf(i, o) \in Seq(Byte)
<1> DEFINE N == ShownCount(i)
           F == FirstShown(i)
           sep == Separator(o)
           Lead(k) == IF k = 1 THEN <<>> ELSE <<sep>>
           Part(k) == Lead(k) \o OperandChunks(i, F + k, o)
           Word(k) == OperandText(i.ops[F + k], o)
           x == [k \in 1..N |-> Part(k)]
           y == [k \in 1..N |-> IF k = 1 THEN Word(k) ELSE sep \o Word(k)]
           head == CasedName(i, o)
           space == IF HasOperand(i) THEN Spaces(Padding(Len(head), o)) ELSE <<>>
           mnemonic == MnemonicChunks(i, o)
<1>1. sep \in Text /\ sep \in Seq(Byte) BY SeparatorWhole
<1> HIDE DEF sep
<1>2. N \in Nat BY ShownParts
<1>3. ASSUME NEW k \in 1..N
      PROVE  /\ OperandChunks(i, F + k, o) \in Seq(Text)
             /\ FlattenSeq(OperandChunks(i, F + k, o)) = Word(k)
             /\ Word(k) \in Seq(Byte)
  <2>1. F + k \in 1..Len(i.ops) BY ShownParts
  <2> HIDE DEF F
  <2> QED BY <2>1, OperandKeeps
<1> HIDE DEF Word
<1>4. ASSUME NEW k \in 1..N
      PROVE  /\ Part(k) \in Seq(Text)
             /\ FlattenSeq(Part(k)) = IF k = 1 THEN Word(k) ELSE sep \o Word(k)
             /\ (IF k = 1 THEN Word(k) ELSE sep \o Word(k)) \in Seq(Byte)
  <2> DEFINE c == OperandChunks(i, F + k, o)
  <2>1. c \in Seq(Text) /\ FlattenSeq(c) = Word(k) /\ Word(k) \in Seq(Byte) BY <1>3
  <2> HIDE DEF c
  <2>2. <<>> \o c = c BY <2>1, ConcatEmptySeq
  <2>3. <<sep>> \o c \in Seq(Text) /\ FlattenSeq(<<sep>> \o c) = sep \o FlattenSeq(c)
    BY <1>1, <2>1, JoinFirst
  <2>4. sep \o Word(k) \in Seq(Byte) BY <1>1, <2>1, ConcatProperties
  <2>5. CASE k = 1
    <3>1. Part(k) = <<>> \o c BY <2>5 DEF c
    <3> HIDE DEF Part
    <3> QED BY <2>1, <2>2, <2>5, <3>1
  <2>6. CASE k # 1
    <3>1. Part(k) = <<sep>> \o c BY <2>6 DEF c
    <3> HIDE DEF Part
    <3> QED BY <2>1, <2>3, <2>4, <2>6, <3>1
  <2> QED BY <2>5, <2>6
<1>5. Chunks(i, o) = mnemonic \o FlattenSeq(x) BY DEF Chunks, ShownCount, FirstShown, sep
<1>6. x \in Seq(Seq(Text)) /\ y \in Seq(Seq(Byte)) /\ Len(x) = N /\ Len(y) = N
      /\ \A k \in 1..Len(x) : y[k] = FlattenSeq(x[k])
  <2> HIDE DEF Part, N
  <2> QED BY <1>2, <1>4
<1>7. FlattenSeq(x) \in Seq(Text) /\ FlattenSeq(FlattenSeq(x)) = FlattenSeq(y)
      /\ FlattenSeq(y) \in Seq(Byte)
  <2> HIDE DEF x, y
  <2>1. Seq(Text) \subseteq Seq(Seq(Byte)) BY TextSeqs
  <2>2. x \in Seq(Seq(Seq(Byte))) BY <1>6, <2>1, SeqMonotonic
  <2>3. FlattenSeq(x) \in Seq(Text) BY <1>6, FlattenTyped
  <2>4. FlattenSeq(FlattenSeq(x)) = FlattenSeq(y)
    <3>1. y \in Seq(Seq(Byte)) /\ Len(y) = Len(x) BY <1>6
    <3>2. \A k \in 1..Len(x) : y[k] = FlattenSeq(x[k]) BY <1>6
    <3> QED BY <2>2, <3>1, <3>2, FlattenTwice
  <2>5. FlattenSeq(y) \in Seq(Byte) BY <1>6, FlattenTyped
  <2> QED BY <2>3, <2>4, <2>5
<1>8. mnemonic \in Seq(Text) /\ head \in Seq(AsciiByte) /\ FlattenSeq(mnemonic) = head \o space
  BY MnemonicKeeps
<1>9. TextOf(i, o) = (head \o space) \o FlattenSeq(y)
  <2> DEFINE shown == Shown(i)
             texts == [k \in DOMAIN shown |-> OperandText(shown[k], o)]
             first == IF Len(head) < o.column THEN o.column ELSE Len(head) + 1
  <2>1. InCase([text |-> NameText(i), cased |-> TRUE], o) = head
    BY DEF InCase, CasedName, CasedText
  <2>2. TextOf(i, o) = IF shown = <<>> THEN head
                       ELSE (head \o Spaces(first - Len(head))) \o Joined(texts, sep)
    <3> HIDE DEF head
    <3> QED BY <2>1 DEF TextOf, NameText, Shown, sep
  <2>3. DOMAIN shown = 1..N /\ \A k \in 1..N : shown[k] = i.ops[F + k] BY ShownParts
  <2>4. Joined(texts, sep) = FlattenSeq(y)
    <3>1. DOMAIN texts = 1..N /\ \A k \in 1..N : texts[k] = Word(k) BY <2>3 DEF Word
    <3> HIDE DEF texts, N
    <3>2. [k \in DOMAIN texts |-> IF k = 1 THEN texts[k] ELSE sep \o texts[k]] = y BY <3>1
    <3> HIDE DEF y
    <3> QED BY <3>2 DEF Joined
  <2>5. Len(head) \in Nat
    <3> HIDE DEF head
    <3> QED BY <1>8, LenProperties
  <2>6. CASE N = 0
    <3>1. shown = <<>> /\ ~HasOperand(i) BY <2>6, ShownParts
    <3>2. y = <<>>
      <4> HIDE DEF y
      <4> QED BY <1>6, <2>6
    <3>3. space = <<>> BY <3>1
    <3> HIDE DEF y, space, head
    <3>4. head \o <<>> = head BY <1>8, ConcatEmptySeq
    <3> QED BY <2>2, <3>1, <3>2, <3>3, <3>4, FlattenEmpty
  <2>7. CASE N # 0
    <3>1. shown # <<>> /\ HasOperand(i) BY <2>7, ShownParts
    <3>2. first - Len(head) = Padding(Len(head), o)
      <4> HIDE DEF head
      <4>1. o.column \in Nat BY FormatterAssumption DEF Options
      <4> QED BY <2>5, <4>1 DEF Padding
    <3>3. space = Spaces(first - Len(head)) BY <3>1, <3>2
    <3> HIDE DEF space, head, first, y
    <3> QED BY <2>2, <2>4, <3>1, <3>3
  <2> QED BY <2>6, <2>7
<1> HIDE DEF x, y, mnemonic, head, space
<1>10. Chunks(i, o) \in Seq(Text) /\ FlattenSeq(Chunks(i, o)) = FlattenSeq(mnemonic) \o FlattenSeq(y)
  BY <1>5, <1>7, <1>8, JoinLists
<1>11. FlattenSeq(mnemonic) \in Seq(Byte)
  <2>1. mnemonic \in Seq(Seq(Byte)) BY <1>8, TextSeqs
  <2> QED BY <2>1, FlattenTyped
<1>12. FlattenSeq(mnemonic) \o FlattenSeq(y) \in Seq(Byte) BY <1>7, <1>11, ConcatProperties
<1> QED BY <1>8, <1>9, <1>10, <1>12

(***************************************************************************)
(* The invariant of the sink                                               *)
(***************************************************************************)

(* The sink holds whole texts, in order and from the start; what it was not
   handed yet is todo; once the flag is set the text handed to it is longer
   than the buffer. *)
Kept ==
  /\ cap \in Nat /\ overflow \in BOOLEAN
  /\ todo \in Seq(Text) /\ buf \in Text
  /\ handed \in Seq(Byte) /\ wanted \in Seq(Byte)
  /\ Len(buf) <= cap
  /\ handed \o FlattenSeq(todo) = wanted
  /\ IF overflow THEN Len(handed) > cap ELSE buf = handed

LEMMA InitKept == Init => Kept
<1> SUFFICES ASSUME Init PROVE Kept OBVIOUS
<1>1. cap \in Nat
  <2>1. MaxCap \in Nat BY FormatterAssumption
  <2> QED BY <2>1 DEF Init
<1>2. <<>> \in Seq(AsciiByte) /\ <<>> \in Seq(Byte) /\ <<>> \in Seq(Text) OBVIOUS
<1>3. <<>> \in Text BY <1>2, AsciiWhole
<1>4. <<>> \o <<>> = <<>> BY <1>2, ConcatEmptySeq
<1>5. /\ buf = <<>> /\ todo = <<>> /\ handed = <<>> /\ wanted = <<>> /\ overflow = FALSE
  BY DEF Init
<1>6. handed \o FlattenSeq(todo) = wanted BY <1>4, <1>5, FlattenEmpty
<1>7. Len(buf) <= cap BY <1>1, <1>5
<1> QED BY <1>1, <1>2, <1>3, <1>5, <1>6, <1>7 DEF Kept

LEMMA FormatKept ==
  ASSUME Kept, Format
  PROVE  Kept'
<1>1. PICK i \in Instructions, o \in Options :
        todo' = Chunks(i, o) /\ wanted' = wanted \o TextOf(i, o)
  BY DEF Format
<1>2. todo = <<>> /\ UNCHANGED <<cap, buf, overflow, handed>> BY DEF Format
<1>3. /\ Chunks(i, o) \in Seq(Text) /\ FlattenSeq(Chunks(i, o)) = TextOf(i, o)
      /\ TextOf(i, o) \in Seq(Byte)
  BY ChunksKeep
<1>4. handed = wanted
  <2>1. handed \o <<>> = handed BY ConcatEmptySeq DEF Kept
  <2> QED BY <1>2, <2>1, FlattenEmpty DEF Kept
<1>5. wanted' \in Seq(Byte) BY <1>1, <1>3, ConcatProperties DEF Kept
<1>6. handed' \o FlattenSeq(todo') = wanted' BY <1>1, <1>2, <1>3, <1>4
<1> QED BY <1>1, <1>2, <1>3, <1>5, <1>6 DEF Kept

LEMMA WriteKept ==
  ASSUME Kept, Write
  PROVE  Kept'
<1> DEFINE t == Head(todo)
           rest == Tail(todo)
<1>1. /\ todo # <<>> /\ todo' = rest /\ buf' = buf \o Taken(t)
      /\ overflow' = Overflowing(t) /\ handed' = handed \o t
      /\ cap' = cap /\ wanted' = wanted
  BY DEF Write
<1>2. t \in Text /\ rest \in Seq(Text) /\ t \in Seq(Byte)
  BY <1>1, HeadTailProperties DEF Kept, Text
<1>3. todo = <<t>> \o rest BY <1>1 DEF Kept
<1> HIDE DEF t, rest
<1>4. FlattenSeq(todo) = t \o FlattenSeq(rest) BY <1>2, <1>3, JoinFirst
<1>5. handed' \in Seq(Byte) /\ Len(handed') = Len(handed) + Len(t)
  BY <1>1, <1>2, ConcatProperties DEF Kept
<1>6. handed' \o FlattenSeq(todo') = wanted'
  <2>1. FlattenSeq(rest) \in Seq(Byte) BY <1>2, TextSeqs, FlattenTyped
  <2>2. (handed \o t) \o FlattenSeq(rest) = handed \o (t \o FlattenSeq(rest))
    BY <1>2, <2>1, Assoc DEF Kept
  <2> QED BY <1>1, <1>4, <2>2 DEF Kept
<1>7. /\ buf \in Seq(Byte) /\ Len(buf) \in Nat /\ Len(t) \in Nat /\ Len(handed) \in Nat
  BY <1>2 DEF Kept, Text
<1>8. CASE Fits(t)
  <2>1. buf' = buf \o t /\ overflow' = overflow BY <1>1, <1>8 DEF Taken, Overflowing, Kept
  <2>2. buf' \in Text BY <1>2, <2>1, JoinWhole DEF Kept
  <2>3. Len(buf') = Len(buf) + Len(t) BY <1>2, <1>7, <2>1, ConcatProperties
  <2>4. Len(buf') <= cap' BY <1>1, <1>7, <1>8, <2>3 DEF Fits, Kept
  <2>5. IF overflow' THEN Len(handed') > cap' ELSE buf' = handed'
    <3>1. CASE overflow
      <4>1. Len(handed) > cap /\ cap \in Nat BY <3>1 DEF Kept
      <4>2. Len(handed') > cap' BY <1>1, <1>5, <1>7, <4>1
      <4> QED BY <2>1, <3>1, <4>2
    <3>2. CASE ~overflow
      <4>1. buf = handed BY <3>2 DEF Kept
      <4> QED BY <1>1, <2>1, <3>2, <4>1
    <3> QED BY <3>1, <3>2
  <2> QED BY <1>1, <1>2, <1>5, <1>6, <2>1, <2>2, <2>4, <2>5 DEF Kept
<1>9. CASE ~Fits(t)
  <2>1. buf' = buf \o <<>> /\ overflow' = TRUE BY <1>1, <1>9 DEF Taken, Overflowing
  <2>2. buf' = buf BY <1>7, <2>1, ConcatEmptySeq
  <2>3. Len(handed') > cap' BY <1>1, <1>5, <1>7, <1>9 DEF Kept, Fits
  <2> QED BY <1>1, <1>2, <1>5, <1>6, <2>1, <2>2, <2>3 DEF Kept
<1> QED BY <1>8, <1>9

LEMMA SpecKept == Spec => []Kept
<1>1. Kept /\ [Next]_vars => Kept'
  <2> SUFFICES ASSUME Kept, [Next]_vars PROVE Kept' OBVIOUS
  <2>1. CASE Format BY <2>1, FormatKept
  <2>2. CASE Write BY <2>2, WriteKept
  <2>3. CASE UNCHANGED vars BY <2>3 DEF vars, Kept
  <2> QED BY <2>1, <2>2, <2>3 DEF Next
<1> QED BY <1>1, InitKept, PTL DEF Spec

(***************************************************************************)
(* Theorems                                                                *)
(***************************************************************************)

(* BufSink::as_str always has valid UTF-8 within the buffer to show. *)
THEOREM WrittenIsUtf8Always == Spec => []WrittenIsUtf8
<1>1. Kept => WrittenIsUtf8 BY DEF Kept, WrittenIsUtf8, Text
<1> QED BY <1>1, SpecKept, PTL

(* BufSink::overflowed tells exactly whether text was lost. *)
THEOREM OverflowedIffLostAlways == Spec => []OverflowedIffLost
<1>1. Kept => OverflowedIffLost
  <2> SUFFICES ASSUME Kept PROVE OverflowedIffLost OBVIOUS
  <2>1. Len(buf) \in Nat /\ Len(handed) \in Nat BY DEF Kept, Text
  <2> QED BY <2>1 DEF Kept, OverflowedIffLost
<1> QED BY <1>1, SpecKept, PTL

(* Cut up by the case buffer and the space runs, the text of format() arrives
   whole in a buffer large enough for it, and only there without the flag. *)
THEOREM WholeTextWhenItFitsAlways == Spec => []WholeTextWhenItFits
<1>1. Kept => WholeTextWhenItFits
  <2> SUFFICES ASSUME Kept, todo = <<>> PROVE
        IF Len(wanted) <= cap THEN buf = wanted /\ ~overflow ELSE overflow
    BY DEF WholeTextWhenItFits
  <2>1. handed \o <<>> = handed BY ConcatEmptySeq DEF Kept
  <2>2. handed = wanted BY <2>1, FlattenEmpty DEF Kept
  <2>3. Len(buf) \in Nat /\ Len(handed) \in Nat BY DEF Kept, Text
  <2> QED BY <2>2, <2>3 DEF Kept
<1> QED BY <1>1, SpecKept, PTL
=============================================================================
