---------------------------- MODULE Lists_proofs ----------------------------
(***************************************************************************)
(* Facts about lists of lists joined by FlattenSeq, for lists of any       *)
(* length: each goes up through the prefixes of a list, one at a time.     *)
(***************************************************************************)
EXTENDS Integers, Sequences, SequencesExt, SequenceTheorems, WellFoundedInduction, TLAPS

(* A nonempty set of naturals has a least element. *)
LEMMA LeastElement ==
  ASSUME NEW S, S \subseteq Nat, S # {}
  PROVE  \E i \in S : \A j \in S : i <= j
<1> DEFINE R == OpToRel(<, Nat)
<1>1. IsWellFoundedOn(R, Nat) BY NatLessThanWellFounded
<1>2. \A i, j \in Nat : j < i => <<j, i>> \in R BY DEF OpToRel
<1> HIDE DEF R
<1>3. PICK i \in S : \A j \in S : ~(<<j, i>> \in R) BY <1>1, WFMin
<1>4. \A j \in S : i \in Nat /\ j \in Nat /\ ~(j < i) BY <1>2, <1>3, Zenon
<1>5. \A j \in S : i <= j BY <1>4, SMT
<1> QED BY <1>5

(* Going up from m to n, one at a time. *)
LEMMA Upward ==
  ASSUME NEW m \in Nat, NEW n \in Nat, NEW G,
         m \in G, \A k \in m + 1..n : k - 1 \in G => k \in G
  PROVE  m..n \subseteq G
<1> DEFINE Bad == (m..n) \ G
<1> SUFFICES ASSUME Bad # {} PROVE FALSE OBVIOUS
<1>1. Bad \subseteq Nat OBVIOUS
<1>2. PICK k \in Bad : \A j \in Bad : k <= j
  <2> HIDE DEF Bad
  <2> QED BY <1>1, LeastElement
<1>3. k \in m..n /\ k \notin G /\ k # m OBVIOUS
<1>4. k - 1 \in m..n /\ ~(k <= k - 1) /\ k \in m + 1..n BY <1>3
<1>5. k - 1 \in G BY <1>2, <1>4
<1> QED BY <1>3, <1>4, <1>5

(* f holds the prefixes of ss, each joined. *)
JoinedUpTo(f, ss, n) ==
  f = [i \in 1..n |-> IF i = 1 THEN ss[i] ELSE f[i - 1] \o ss[i]]

LEMMA JoinedUpToTyped ==
  ASSUME NEW T, NEW ss \in Seq(Seq(T)), NEW n \in 1..Len(ss), NEW f, JoinedUpTo(f, ss, n)
  PROVE  f \in [1..n -> Seq(T)]
<1> DEFINE G == {i \in 1..n : f[i] \in Seq(T)}
<1>1. /\ DOMAIN f = 1..n
      /\ \A i \in 1..n : f[i] = IF i = 1 THEN ss[i] ELSE f[i - 1] \o ss[i]
      /\ f = [i \in 1..n |-> f[i]]
  BY Zenon DEF JoinedUpTo
<1>2. \A i \in 1..n : ss[i] \in Seq(T) OBVIOUS
<1>3. 1 \in G
  <2>1. 1 \in 1..n OBVIOUS
  <2>2. f[1] = ss[1] BY <1>1, <2>1
  <2> QED BY <1>2, <2>1, <2>2
<1>4. ASSUME NEW k \in 1 + 1..n, k - 1 \in G PROVE k \in G
  <2>1. k \in 1..n /\ k # 1 /\ f[k - 1] \in Seq(T) BY <1>4
  <2>2. f[k - 1] \o ss[k] \in Seq(T) BY <1>2, <2>1, ConcatProperties
  <2>3. f[k] \in Seq(T) BY <1>1, <2>1, <2>2
  <2> QED BY <2>1, <2>3
<1>5. 1..n \subseteq G
  <2> HIDE DEF G
  <2>1. n \in Nat /\ 1 \in Nat OBVIOUS
  <2> QED BY <1>3, <1>4, <2>1, Upward
<1>6. \A i \in 1..n : f[i] \in Seq(T) BY <1>5
<1> QED BY <1>1, <1>6, Zenon

LEMMA JoinedUpToGrow ==
  ASSUME NEW ss, NEW i \in Nat, i > 1, NEW f, JoinedUpTo(f, ss, i - 1)
  PROVE  \E g : JoinedUpTo(g, ss, i)
<1> DEFINE g == [k \in 1..i |-> IF k = i THEN f[i - 1] \o ss[i] ELSE f[k]]
<1>1. ASSUME NEW k \in 1..i
      PROVE  g[k] = IF k = 1 THEN ss[k] ELSE g[k - 1] \o ss[k]
  <2>1. CASE k = i
    <3>1. g[k] = f[i - 1] \o ss[i] BY <2>1
    <3>2. k - 1 \in 1..i /\ k - 1 # i /\ k # 1 /\ k - 1 = i - 1 BY <2>1
    <3>3. g[k - 1] = f[i - 1] BY <3>2
    <3> HIDE DEF g
    <3> QED BY <2>1, <3>1, <3>2, <3>3
  <2>2. CASE k # i
    <3>1. k \in 1..(i - 1) BY <2>2
    <3>2. f[k] = IF k = 1 THEN ss[k] ELSE f[k - 1] \o ss[k] BY <3>1, Zenon DEF JoinedUpTo
    <3>3. k # 1 => k - 1 \in 1..i /\ k - 1 # i BY <3>1
    <3> QED BY <2>2, <3>2, <3>3
  <2> QED BY <2>1, <2>2
<1>2. g = [k \in 1..i |-> g[k]] OBVIOUS
<1> HIDE DEF g
<1>3. g = [k \in 1..i |-> IF k = 1 THEN ss[k] ELSE g[k - 1] \o ss[k]] BY <1>1, <1>2
<1> QED BY <1>3 DEF JoinedUpTo

LEMMA JoinedUpToExist ==
  ASSUME NEW T, NEW ss \in Seq(Seq(T)), NEW n \in 1..Len(ss)
  PROVE  \E f : JoinedUpTo(f, ss, n)
<1> DEFINE G == {i \in 1..n : \E f : JoinedUpTo(f, ss, i)}
<1>1. 1 \in G
  <2> DEFINE g == [k \in 1..1 |-> ss[k]]
  <2>1. g = [k \in 1..1 |-> IF k = 1 THEN ss[k] ELSE g[k - 1] \o ss[k]] OBVIOUS
  <2> HIDE DEF g
  <2>2. JoinedUpTo(g, ss, 1) BY <2>1 DEF JoinedUpTo
  <2> QED BY <2>2
<1>2. ASSUME NEW k \in 1 + 1..n, k - 1 \in G PROVE k \in G
  <2>1. PICK f : JoinedUpTo(f, ss, k - 1) BY <1>2
  <2>2. k \in Nat /\ k > 1 /\ k \in 1..n OBVIOUS
  <2>3. \E g : JoinedUpTo(g, ss, k) BY <2>1, <2>2, JoinedUpToGrow
  <2> QED BY <2>2, <2>3
<1>3. 1..n \subseteq G
  <2> HIDE DEF G
  <2>1. n \in Nat /\ 1 \in Nat OBVIOUS
  <2> QED BY <1>1, <1>2, <2>1, Upward
<1>4. n \in 1..n OBVIOUS
<1> QED BY <1>3, <1>4

(* Two such functions agree where both are defined. *)
LEMMA JoinedUpToAgree ==
  ASSUME NEW m \in Nat, NEW n \in Nat, m <= n,
         NEW ss, NEW tt, \A i \in 1..m : tt[i] = ss[i],
         NEW f, JoinedUpTo(f, ss, m), NEW g, JoinedUpTo(g, tt, n)
  PROVE  \A i \in 1..m : f[i] = g[i]
<1> DEFINE G == {i \in Nat : i = 0 \/ f[i] = g[i]}
<1>1. \A i \in 1..m : f[i] = IF i = 1 THEN ss[i] ELSE f[i - 1] \o ss[i]
  BY Zenon DEF JoinedUpTo
<1>2. \A i \in 1..n : g[i] = IF i = 1 THEN tt[i] ELSE g[i - 1] \o tt[i]
  BY Zenon DEF JoinedUpTo
<1>3. 0 \in G OBVIOUS
<1>4. ASSUME NEW k \in 0 + 1..m, k - 1 \in G PROVE k \in G
  <2>1. k \in 1..m /\ k \in 1..n /\ k \in Nat OBVIOUS
  <2>2. k # 1 => f[k - 1] = g[k - 1] BY <1>4
  <2>3. f[k] = g[k] BY <1>1, <1>2, <2>1, <2>2
  <2> QED BY <2>1, <2>3
<1>5. 0..m \subseteq G
  <2> HIDE DEF G
  <2>1. 0 \in Nat OBVIOUS
  <2> QED BY <1>3, <1>4, <2>1, Upward
<1> QED BY <1>5

(* What FlattenSeq computes. *)
LEMMA FlattenIsPrefix ==
  ASSUME NEW T, NEW ss \in Seq(Seq(T)), ss # <<>>
  PROVE  \E f : JoinedUpTo(f, ss, Len(ss)) /\ FlattenSeq(ss) = f[Len(ss)]
<1> DEFINE N == Len(ss)
           h == CHOOSE f : f = [i \in 1..N |-> IF i = 1 THEN ss[i] ELSE f[i - 1] \o ss[i]]
<1>1. N \in Nat /\ N # 0 /\ N \in 1..Len(ss) OBVIOUS
<1>2. \E f : f = [i \in 1..N |-> IF i = 1 THEN ss[i] ELSE f[i - 1] \o ss[i]]
  BY <1>1, JoinedUpToExist DEF JoinedUpTo
<1>3. h = [i \in 1..N |-> IF i = 1 THEN ss[i] ELSE h[i - 1] \o ss[i]] BY <1>2
<1>4. FlattenSeq(ss) = h[N] BY <1>1 DEF FlattenSeq
<1> HIDE DEF h
<1>5. JoinedUpTo(h, ss, N) BY <1>3 DEF JoinedUpTo
<1> QED BY <1>4, <1>5

LEMMA FlattenEmpty == FlattenSeq(<<>>) = <<>>
  BY DEF FlattenSeq

(* FlattenSeq joins sequences over a set into a sequence over it. *)
LEMMA FlattenTyped ==
  ASSUME NEW T, NEW ss \in Seq(Seq(T))
  PROVE  FlattenSeq(ss) \in Seq(T)
<1>1. CASE ss = <<>>
  <2>1. FlattenSeq(ss) = <<>> BY <1>1, FlattenEmpty
  <2>2. <<>> \in Seq(T) OBVIOUS
  <2> QED BY <2>1, <2>2
<1>2. CASE ss # <<>>
  <2>1. Len(ss) \in 1..Len(ss) BY <1>2
  <2>2. PICK f : JoinedUpTo(f, ss, Len(ss)) /\ FlattenSeq(ss) = f[Len(ss)]
    BY <1>2, FlattenIsPrefix
  <2>3. f \in [1..Len(ss) -> Seq(T)] BY <2>1, <2>2, JoinedUpToTyped
  <2> QED BY <2>1, <2>2, <2>3
<1> QED BY <1>1, <1>2

(* FlattenSeq reads a sequence from its end. *)
LEMMA FlattenAppend ==
  ASSUME NEW T, NEW ss \in Seq(Seq(T)), NEW t \in Seq(T)
  PROVE  FlattenSeq(Append(ss, t)) = FlattenSeq(ss) \o t
<1> DEFINE tt == Append(ss, t)
           N == Len(ss)
<1>1. /\ tt \in Seq(Seq(T)) /\ tt # <<>> /\ Len(tt) = N + 1 /\ N \in Nat
      /\ \A i \in 1..N : tt[i] = ss[i]
      /\ tt[N + 1] = t
  BY AppendProperties
<1> HIDE DEF tt
<1>2. PICK g : JoinedUpTo(g, tt, Len(tt)) /\ FlattenSeq(tt) = g[Len(tt)]
  BY <1>1, FlattenIsPrefix
<1>3. \A i \in 1..(N + 1) : g[i] = IF i = 1 THEN tt[i] ELSE g[i - 1] \o tt[i]
  BY <1>1, <1>2, Zenon DEF JoinedUpTo
<1>4. FlattenSeq(tt) = IF N = 0 THEN t ELSE g[N] \o t
  <2>1. N + 1 \in 1..(N + 1) /\ (N + 1 = 1 <=> N = 0) /\ (N + 1) - 1 = N BY <1>1
  <2> QED BY <1>1, <1>2, <1>3, <2>1
<1>5. CASE N = 0
  <2>1. ss = <<>> BY <1>5
  <2> QED BY <1>4, <1>5, <2>1, FlattenEmpty DEF tt
<1>6. CASE N # 0
  <2>1. ss # <<>> /\ N \in 1..Len(ss) /\ Len(tt) \in N..Len(tt) BY <1>1, <1>6
  <2>2. PICK f : JoinedUpTo(f, ss, N) /\ FlattenSeq(ss) = f[N] BY <2>1, FlattenIsPrefix
  <2>3. JoinedUpTo(g, tt, Len(tt)) BY <1>2
  <2>4. \A i \in 1..N : f[i] = g[i]
    <3> HIDE DEF N
    <3>1. \A i \in 1..N : tt[i] = ss[i] BY <1>1
    <3>3. JoinedUpTo(f, ss, N) BY <2>2
    <3>4. N \in Nat /\ Len(tt) \in Nat /\ N <= Len(tt) BY <1>1
    <3> DEFINE M == Len(tt)
    <3>5. M \in Nat /\ N <= M /\ JoinedUpTo(g, tt, M) BY <2>3, <3>4
    <3> HIDE DEF M
    <3> QED BY <3>1, <3>3, <3>4, <3>5, JoinedUpToAgree, SMTT(60)
  <2>5. f[N] = g[N] BY <2>1, <2>4
  <2>6. FlattenSeq(tt) = FlattenSeq(ss) \o t BY <1>4, <1>6, <2>2, <2>5
  <2> QED BY <2>6 DEF tt
<1> QED BY <1>5, <1>6

(* One more element of a prefix. *)
LEMMA PrefixStep ==
  ASSUME NEW T, NEW b \in Seq(T), NEW k \in 1..Len(b)
  PROVE  /\ SubSeq(b, 1, k - 1) \in Seq(T)
         /\ SubSeq(b, 1, k) = Append(SubSeq(b, 1, k - 1), b[k])
<1>1. b[k] \in T OBVIOUS
<1>2. SubSeq(b, 1, k - 1) \in Seq(T) BY SubSeqProperties
<1>3. 1 \in 1..Len(b) /\ k \in 1..Len(b) OBVIOUS
<1>4. SubSeq(b, 1, k) = SubSeq(b, 1, k - 1) \o <<b[k]>> BY <1>3, SubSeqRecursiveSecond
<1>5. Append(SubSeq(b, 1, k - 1), b[k]) = SubSeq(b, 1, k - 1) \o <<b[k]>>
  BY <1>1, <1>2, AppendIsConcat
<1> QED BY <1>2, <1>4, <1>5

LEMMA FlattenSingle ==
  ASSUME NEW T, NEW t \in Seq(T)
  PROVE  FlattenSeq(<<t>>) = t
<1>1. <<>> \in Seq(Seq(T)) /\ Append(<<>>, t) = <<t>> OBVIOUS
<1>2. FlattenSeq(Append(<<>>, t)) = FlattenSeq(<<>>) \o t BY <1>1, FlattenAppend
<1>3. <<>> \o t = t BY ConcatEmptySeq
<1> QED BY <1>1, <1>2, <1>3, FlattenEmpty

(* Joining is associative. *)
LEMMA Assoc ==
  \A U : \A x, y, z \in Seq(U) : (x \o y) \o z = x \o (y \o z)
  BY ConcatAssociative

LEMMA ConcatStep ==
  ASSUME NEW T, NEW a \in Seq(Seq(T)), NEW p \in Seq(Seq(T)), NEW e \in Seq(T),
         FlattenSeq(a \o p) = FlattenSeq(a) \o FlattenSeq(p)
  PROVE  FlattenSeq(a \o Append(p, e)) = FlattenSeq(a) \o FlattenSeq(Append(p, e))
<1>1. a \o Append(p, e) = Append(a \o p, e)
  <2>1. Append(p, e) = p \o <<e>> BY AppendIsConcat
  <2>2. a \o p \in Seq(Seq(T)) /\ <<e>> \in Seq(Seq(T)) BY ConcatProperties
  <2>3. Append(a \o p, e) = (a \o p) \o <<e>> BY <2>2, AppendIsConcat
  <2>4. (a \o p) \o <<e>> = a \o (p \o <<e>>) BY <2>2, Assoc
  <2> QED BY <2>1, <2>3, <2>4
<1>2. a \o p \in Seq(Seq(T)) BY ConcatProperties
<1>3. FlattenSeq(Append(a \o p, e)) = FlattenSeq(a \o p) \o e BY <1>2, FlattenAppend
<1>4. FlattenSeq(Append(p, e)) = FlattenSeq(p) \o e BY FlattenAppend
<1>5. FlattenSeq(a) \in Seq(T) /\ FlattenSeq(p) \in Seq(T) BY FlattenTyped
<1>6. (FlattenSeq(a) \o FlattenSeq(p)) \o e = FlattenSeq(a) \o (FlattenSeq(p) \o e)
  BY <1>5, Assoc
<1> QED BY <1>1, <1>3, <1>4, <1>6

(* What two lists hold, together. *)
LEMMA FlattenConcat ==
  ASSUME NEW T, NEW a \in Seq(Seq(T)), NEW b \in Seq(Seq(T))
  PROVE  FlattenSeq(a \o b) = FlattenSeq(a) \o FlattenSeq(b)
<1> DEFINE B(k) == SubSeq(b, 1, k)
           G == {k \in 0..Len(b) : FlattenSeq(a \o B(k)) = FlattenSeq(a) \o FlattenSeq(B(k))}
<1>1. Len(b) \in Nat /\ 0 \in Nat OBVIOUS
<1>2. 0 \in G
  <2>1. B(0) = <<>> BY SubSeqEmpty
  <2>2. FlattenSeq(a) \in Seq(T) BY FlattenTyped
  <2>3. a \o <<>> = a /\ FlattenSeq(a) \o <<>> = FlattenSeq(a) BY <2>2, ConcatEmptySeq
  <2>4. FlattenSeq(a \o B(0)) = FlattenSeq(a) \o FlattenSeq(B(0))
    <3> HIDE DEF B
    <3> QED BY <2>1, <2>3, FlattenEmpty
  <2> QED BY <1>1, <2>4
<1>3. ASSUME NEW k \in 0 + 1..Len(b), k - 1 \in G PROVE k \in G
  <2>1. k \in 1..Len(b) /\ k \in 0..Len(b) BY <1>1
  <2>2. B(k - 1) \in Seq(Seq(T)) /\ b[k] \in Seq(T) /\ B(k) = Append(B(k - 1), b[k])
    BY <2>1, PrefixStep
  <2>3. FlattenSeq(a \o B(k - 1)) = FlattenSeq(a) \o FlattenSeq(B(k - 1)) BY <1>3
  <2> QED BY <2>1, <2>2, <2>3, ConcatStep
<1>4. 0..Len(b) \subseteq G
  <2> HIDE DEF G
  <2> QED BY <1>1, <1>2, <1>3, Upward
<1>5. FlattenSeq(a \o B(Len(b))) = FlattenSeq(a) \o FlattenSeq(B(Len(b)))
  <2>1. Len(b) \in 0..Len(b) BY <1>1
  <2> QED BY <1>4, <2>1
<1>6. B(Len(b)) = b BY SubSeqFull
<1> QED BY <1>5, <1>6

(* A list of lists, joined at either level first. *)
LEMMA TwiceStep ==
  ASSUME NEW T, NEW p \in Seq(Seq(Seq(T))), NEW e \in Seq(Seq(T)), NEW q \in Seq(Seq(T)),
         FlattenSeq(FlattenSeq(p)) = FlattenSeq(q)
  PROVE  FlattenSeq(FlattenSeq(Append(p, e))) = FlattenSeq(Append(q, FlattenSeq(e)))
<1>1. FlattenSeq(Append(p, e)) = FlattenSeq(p) \o e BY FlattenAppend
<1>2. FlattenSeq(p) \in Seq(Seq(T)) BY FlattenTyped
<1>3. FlattenSeq(FlattenSeq(p) \o e) = FlattenSeq(FlattenSeq(p)) \o FlattenSeq(e)
  BY <1>2, FlattenConcat
<1>4. FlattenSeq(e) \in Seq(T) BY FlattenTyped
<1>5. FlattenSeq(Append(q, FlattenSeq(e))) = FlattenSeq(q) \o FlattenSeq(e) BY <1>4, FlattenAppend
<1> QED BY <1>1, <1>3, <1>5

LEMMA FlattenTwice ==
  ASSUME NEW T, NEW a \in Seq(Seq(Seq(T))), NEW c \in Seq(Seq(T)), Len(c) = Len(a),
         \A k \in 1..Len(a) : c[k] = FlattenSeq(a[k])
  PROVE  FlattenSeq(FlattenSeq(a)) = FlattenSeq(c)
<1> DEFINE A(k) == SubSeq(a, 1, k)
           C(k) == SubSeq(c, 1, k)
           G == {k \in 0..Len(a) : FlattenSeq(FlattenSeq(A(k))) = FlattenSeq(C(k))}
<1>1. Len(a) \in Nat /\ 0 \in Nat OBVIOUS
<1>2. 0 \in G
  <2>1. A(0) = <<>> /\ C(0) = <<>> BY SubSeqEmpty
  <2>2. FlattenSeq(FlattenSeq(A(0))) = FlattenSeq(C(0))
    <3> HIDE DEF A, C
    <3> QED BY <2>1, FlattenEmpty
  <2> QED BY <1>1, <2>2
<1>3. ASSUME NEW k \in 0 + 1..Len(a), k - 1 \in G PROVE k \in G
  <2>1. k \in 1..Len(a) /\ k \in 1..Len(c) /\ k \in 0..Len(a) BY <1>1
  <2>2. A(k - 1) \in Seq(Seq(Seq(T))) /\ a[k] \in Seq(Seq(T)) /\ A(k) = Append(A(k - 1), a[k])
    BY <2>1, PrefixStep
  <2>3. C(k - 1) \in Seq(Seq(T)) /\ c[k] = FlattenSeq(a[k]) /\ C(k) = Append(C(k - 1), c[k])
    BY <2>1, PrefixStep
  <2>4. FlattenSeq(FlattenSeq(A(k - 1))) = FlattenSeq(C(k - 1)) BY <1>3
  <2>5. FlattenSeq(FlattenSeq(A(k))) = FlattenSeq(C(k))
    <3> HIDE DEF A, C
    <3> QED BY <2>2, <2>3, <2>4, TwiceStep
  <2> QED BY <2>1, <2>5
<1>4. 0..Len(a) \subseteq G
  <2> HIDE DEF G
  <2> QED BY <1>1, <1>2, <1>3, Upward
<1>5. FlattenSeq(FlattenSeq(A(Len(a)))) = FlattenSeq(C(Len(a)))
  <2>1. Len(a) \in 0..Len(a) BY <1>1
  <2> QED BY <1>4, <2>1
<1>6. A(Len(a)) = a /\ C(Len(c)) = c BY SubSeqFull
<1> QED BY <1>5, <1>6

(***************************************************************************)
(* Lists and their elements                                                *)
(***************************************************************************)

(* A sequence, of whatever elements it has. *)
IsList(s) == s \in Seq(ToSet(s))

LEMMA ListOf ==
  ASSUME NEW T, NEW s \in Seq(T)
  PROVE  /\ IsList(s) /\ ToSet(s) \subseteq T
         /\ Len(s) \in Nat /\ DOMAIN s = 1..Len(s)
<1>1. Len(s) \in Nat /\ DOMAIN s = 1..Len(s) /\ s = [i \in 1..Len(s) |-> s[i]] OBVIOUS
<1>2. ToSet(s) \subseteq T BY <1>1 DEF ToSet
<1>3. \A i \in 1..Len(s) : s[i] \in ToSet(s) BY <1>1 DEF ToSet
<1>4. s \in Seq(ToSet(s))
  <2> DEFINE S == ToSet(s)
             n == Len(s)
  <2>1. n \in Nat /\ s = [i \in 1..n |-> s[i]] /\ \A i \in 1..n : s[i] \in S BY <1>1, <1>3
  <2> HIDE DEF S, n
  <2>2. s \in [1..n -> S] BY <2>1
  <2>3. s \in Seq(S) BY <2>1, <2>2
  <2> QED BY <2>3 DEF S
<1> QED BY <1>1, <1>2, <1>4 DEF IsList

LEMMA ListParts ==
  ASSUME NEW s, IsList(s)
  PROVE  /\ Len(s) \in Nat /\ DOMAIN s = 1..Len(s)
         /\ \A i \in 1..Len(s) : s[i] \in ToSet(s)
         /\ \A e \in ToSet(s) : \E i \in 1..Len(s) : e = s[i]
<1>1. s \in Seq(ToSet(s)) BY DEF IsList
<1>2. Len(s) \in Nat /\ DOMAIN s = 1..Len(s) BY <1>1, ListOf
<1> QED BY <1>2 DEF ToSet

LEMMA EmptyList == IsList(<<>>) /\ ToSet(<<>>) = {} /\ Len(<<>>) = 0
<1>1. ToSet(<<>>) = {} /\ Len(<<>>) = 0 BY DEF ToSet
<1>2. \A T : <<>> \in Seq(T) OBVIOUS
<1> QED BY <1>1, <1>2, Zenon DEF IsList

LEMMA JoinedList ==
  ASSUME NEW s, IsList(s), NEW t, IsList(t)
  PROVE  /\ IsList(s \o t) /\ ToSet(s \o t) = ToSet(s) \cup ToSet(t)
         /\ Len(s \o t) = Len(s) + Len(t)
<1> DEFINE T == ToSet(s) \cup ToSet(t)
           j == s \o t
<1>1. s \in Seq(T) /\ t \in Seq(T)
  <2>1. s \in Seq(ToSet(s)) /\ t \in Seq(ToSet(t)) BY DEF IsList
  <2>2. ToSet(s) \subseteq T /\ ToSet(t) \subseteq T OBVIOUS
  <2> HIDE DEF T
  <2> QED BY <2>1, <2>2, SeqMonotonic
<1>2. /\ j \in Seq(T) /\ Len(j) = Len(s) + Len(t)
      /\ \A i \in 1..Len(s) + Len(t) : j[i] = IF i <= Len(s) THEN s[i] ELSE t[i - Len(s)]
  <2> HIDE DEF T
  <2> QED BY <1>1, ConcatProperties
<1> HIDE DEF j
<1>3. IsList(j) /\ ToSet(j) \subseteq T
  <2> HIDE DEF T
  <2> QED BY <1>2, ListOf
<1>4. Len(s) \in Nat /\ Len(t) \in Nat BY ListParts
<1>5. ASSUME NEW e \in ToSet(s) PROVE e \in ToSet(j)
  <2>1. PICK i \in 1..Len(s) : e = s[i] BY ListParts
  <2>2. i \in 1..Len(j) /\ j[i] = e BY <1>2, <1>4, <2>1
  <2> QED BY <1>3, <2>2, ListParts
<1>6. ASSUME NEW e \in ToSet(t) PROVE e \in ToSet(j)
  <2>1. PICK i \in 1..Len(t) : e = t[i] BY ListParts
  <2>2. i + Len(s) \in 1..Len(j) /\ j[i + Len(s)] = e
    <3> DEFINE k == i + Len(s)
    <3>1. k \in 1..Len(s) + Len(t) /\ ~(k <= Len(s)) /\ k - Len(s) = i BY <1>4
    <3> HIDE DEF k
    <3> QED BY <1>2, <2>1, <3>1 DEF k
  <2> QED BY <1>3, <2>2, ListParts
<1> QED BY <1>2, <1>3, <1>5, <1>6 DEF j

LEMMA AppendedList ==
  ASSUME NEW s, IsList(s), NEW e
  PROVE  /\ IsList(Append(s, e)) /\ ToSet(Append(s, e)) = ToSet(s) \cup {e}
         /\ Len(Append(s, e)) = Len(s) + 1
         /\ \A i \in 1..Len(s) : Append(s, e)[i] = s[i]
         /\ Append(s, e)[Len(s) + 1] = e
<1> DEFINE T == ToSet(s) \cup {e}
           a == Append(s, e)
<1>1. s \in Seq(T) /\ e \in T
  <2>1. s \in Seq(ToSet(s)) /\ ToSet(s) \subseteq T BY DEF IsList
  <2>2. e \in T OBVIOUS
  <2> HIDE DEF T
  <2> QED BY <2>1, <2>2, SeqMonotonic
<1>2. /\ a \in Seq(T) /\ Len(a) = Len(s) + 1 /\ a[Len(s) + 1] = e
      /\ \A i \in 1..Len(s) : a[i] = s[i]
  <2> HIDE DEF T
  <2> QED BY <1>1, AppendProperties
<1> HIDE DEF a
<1>3. IsList(a) /\ ToSet(a) \subseteq T
  <2> HIDE DEF T
  <2> QED BY <1>2, ListOf
<1>4. Len(s) \in Nat BY ListParts
<1>5. ASSUME NEW d \in T PROVE d \in ToSet(a)
  <2>1. CASE d = e
    <3>1. Len(s) + 1 \in 1..Len(a) BY <1>2, <1>4
    <3> QED BY <1>2, <1>3, <2>1, <3>1, ListParts
  <2>2. CASE d \in ToSet(s)
    <3>1. PICK i \in 1..Len(s) : d = s[i] BY <2>2, ListParts
    <3>2. i \in 1..Len(a) /\ a[i] = d BY <1>2, <1>4, <3>1
    <3> QED BY <1>3, <3>2, ListParts
  <2> QED BY <2>1, <2>2
<1> QED BY <1>2, <1>3, <1>5 DEF a

(* The first element and the others. *)
LEMMA TailList ==
  ASSUME NEW s, IsList(s), s # <<>>
  PROVE  /\ IsList(Tail(s)) /\ ToSet(s) = {Head(s)} \cup ToSet(Tail(s))
         /\ Len(Tail(s)) = Len(s) - 1 /\ Head(s) = s[1] /\ Len(s) > 0
         /\ \A i \in 1..Len(Tail(s)) : Tail(s)[i] = s[i + 1]
<1> DEFINE t == Tail(s)
           T == ToSet(s)
<1>1. s \in Seq(T) BY DEF IsList
<1>2. /\ Head(s) \in T /\ t \in Seq(T) /\ Len(t) = Len(s) - 1
      /\ \A i \in 1..Len(t) : t[i] = s[i + 1]
  <2> HIDE DEF T
  <2> QED BY <1>1, HeadTailProperties
<1>3. Len(s) \in Nat /\ Head(s) = s[1] /\ Len(s) # 0
  <2> HIDE DEF T
  <2> QED BY <1>1
<1> HIDE DEF t
<1>4. IsList(t) /\ ToSet(t) \subseteq T
  <2> HIDE DEF T
  <2> QED BY <1>2, ListOf
<1>5. ASSUME NEW e \in ToSet(s) PROVE e = Head(s) \/ e \in ToSet(t)
  <2>1. PICK i \in 1..Len(s) : e = s[i] BY ListParts
  <2>2. CASE i # 1
    <3>1. i - 1 \in 1..Len(t) /\ (i - 1) + 1 = i BY <1>2, <1>3, <2>2
    <3>2. t[i - 1] = e BY <1>2, <2>1, <3>1
    <3> QED BY <1>4, <3>1, <3>2, ListParts
  <2> QED BY <1>3, <2>1, <2>2
<1> QED BY <1>2, <1>3, <1>4, <1>5 DEF t

LEMMA MadeList ==
  ASSUME NEW n \in Nat, NEW s, s = [i \in 1..n |-> s[i]]
  PROVE  /\ IsList(s) /\ Len(s) = n /\ DOMAIN s = 1..n
         /\ \A e : e \in ToSet(s) <=> \E i \in 1..n : e = s[i]
<1>1. DOMAIN s = 1..n BY Zenon
<1>2. \A i \in 1..n : s[i] \in ToSet(s) BY <1>1 DEF ToSet
<1>3. s \in Seq(ToSet(s)) /\ Len(s) = n
  <2> DEFINE S == ToSet(s)
  <2>1. \A i \in 1..n : s[i] \in S BY <1>2
  <2> HIDE DEF S
  <2>2. s \in [1..n -> S] BY <2>1, Zenon
  <2>3. s \in Seq(S) /\ Len(s) = n BY <2>2
  <2> QED BY <2>3 DEF S
<1> QED BY <1>1, <1>3 DEF IsList, ToSet

(* What is in a list of lists once joined is what is in each. *)
LEMMA FlattenElements ==
  ASSUME NEW n \in Nat, NEW ss, ss = [i \in 1..n |-> ss[i]], \A i \in 1..n : IsList(ss[i])
  PROVE  /\ IsList(FlattenSeq(ss))
         /\ \A e : e \in ToSet(FlattenSeq(ss)) <=> \E i \in 1..n : e \in ToSet(ss[i])
<1> DEFINE T == UNION {ToSet(ss[i]) : i \in 1..n}
           S(k) == SubSeq(ss, 1, k)
           E(k) == UNION {ToSet(ss[i]) : i \in 1..k}
           G == {k \in 0..n : ToSet(FlattenSeq(S(k))) = E(k)}
<1>1. ss \in Seq(Seq(T)) /\ Len(ss) = n
  <2>1. ASSUME NEW i \in 1..n PROVE ss[i] \in Seq(T)
    <3>1. ss[i] \in Seq(ToSet(ss[i])) BY DEF IsList
    <3>2. ToSet(ss[i]) \subseteq T OBVIOUS
    <3> HIDE DEF T
    <3> QED BY <3>1, <3>2, SeqMonotonic
  <2> HIDE DEF T
  <2>2. ss \in [1..n -> Seq(T)] BY <2>1, Zenon
  <2> QED BY <2>2
<1> HIDE DEF T
<1>2. 0 \in G
  <2>1. S(0) = <<>> BY SubSeqEmpty
  <2>2. FlattenSeq(S(0)) = <<>>
    <3> HIDE DEF S
    <3> QED BY <2>1, FlattenEmpty
  <2>3. ToSet(FlattenSeq(S(0))) = {}
    <3> HIDE DEF S
    <3> QED BY <2>2, EmptyList
  <2>4. E(0) = {} OBVIOUS
  <2> QED BY <2>3, <2>4
<1>3. ASSUME NEW k \in 0 + 1..n, k - 1 \in G PROVE k \in G
  <2>1. k \in 1..Len(ss) /\ k \in 0..n BY <1>1
  <2>2. S(k - 1) \in Seq(Seq(T)) /\ S(k) = Append(S(k - 1), ss[k]) BY <1>1, <2>1, PrefixStep
  <2>3. ss[k] \in Seq(T) BY <1>1, <2>1
  <2>4. ToSet(FlattenSeq(S(k - 1))) = E(k - 1) BY <1>3
  <2>5. E(k) = E(k - 1) \cup ToSet(ss[k]) BY <2>1
  <2> HIDE DEF S, E
  <2>6. FlattenSeq(S(k)) = FlattenSeq(S(k - 1)) \o ss[k] BY <2>2, <2>3, FlattenAppend
  <2>7. FlattenSeq(S(k - 1)) \in Seq(T) BY <2>2, FlattenTyped
  <2>8. ToSet(FlattenSeq(S(k))) = ToSet(FlattenSeq(S(k - 1))) \cup ToSet(ss[k])
    BY <2>3, <2>6, <2>7, ListOf, JoinedList
  <2> QED BY <2>1, <2>4, <2>5, <2>8
<1>4. 0..n \subseteq G
  <2> HIDE DEF G
  <2>1. 0 \in Nat OBVIOUS
  <2> QED BY <1>2, <1>3, <2>1, Upward
<1>5. ToSet(FlattenSeq(S(n))) = E(n)
  <2>1. n \in 0..n OBVIOUS
  <2> QED BY <1>4, <2>1
<1>6. S(n) = ss BY <1>1, SubSeqFull
<1>7. ToSet(FlattenSeq(ss)) = E(n)
  <2> HIDE DEF S, E
  <2> QED BY <1>5, <1>6
<1>8. FlattenSeq(ss) \in Seq(T) BY <1>1, FlattenTyped
<1>9. IsList(FlattenSeq(ss)) BY <1>8, ListOf
<1> QED BY <1>7, <1>9
=============================================================================
