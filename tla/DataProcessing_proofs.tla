------------------------ MODULE DataProcessing_proofs ------------------------
(***************************************************************************)
(* Data processing: what a bitmask immediate means and that it survives    *)
(* the codec, and that every word of the two groups is recovered from the  *)
(* instruction it decodes to, but for the bits the architecture ignores:   *)
(* for every set of features, every address and every width of the u32     *)
(* and the address that hold the immediates.  Last, what the decoders give *)
(* when the features are others.                                           *)
(***************************************************************************)
EXTENDS DpImm, DpReg, FiniteSetTheorems, FunctionTheorems, SequenceTheorems, TLAPS

(***************************************************************************)
(* Bitmask immediates: the element size                                    *)
(***************************************************************************)
ESizes == {2, 4, 8, 16, 32, 64}
Widths == {WBits, XBits}

(* The widths of the architecture. *)
LEMMA WidthsAre ==
  /\ XBits = 64 /\ WBits = 32 /\ Lane = 16 /\ Widths = {32, 64}
  /\ DataSize(1) = 64 /\ DataSize(0) = 32
BY DpImmAssumption DEF Widths, DataSize

LEMMA PowersAre ==
  /\ {2^k : k \in 0..6} = ESizes \cup {1}
  /\ {2^k : k \in 1..6} = ESizes
<1>1. 2^0 = 1 /\ 2^1 = 2 /\ 2^2 = 4 /\ 2^3 = 8 /\ 2^4 = 16 /\ 2^5 = 32 /\ 2^6 = 64 OBVIOUS
<1>2. \A k \in 0..6 : k \in {0, 1, 2, 3, 4, 5, 6} OBVIOUS
<1>3. \A k \in 1..6 : k \in {1, 2, 3, 4, 5, 6} OBVIOUS
<1>4. {2^k : k \in 0..6} = ESizes \cup {1} BY <1>1, <1>2 DEF ESizes
<1>5. {2^k : k \in 1..6} = ESizes BY <1>1, <1>3 DEF ESizes
<1> QED BY <1>4, <1>5

(* The greatest and the least of a set of numbers. *)
LEMMA MaxIs ==
  ASSUME NEW S, S \subseteq Int, NEW v \in S, \A y \in S : y <= v
  PROVE  Max(S) = v
<1>1. \A y \in S : v >= y OBVIOUS
<1>2. Max(S) \in S /\ \A y \in S : Max(S) >= y BY <1>1, Zenon DEF Max
<1>3. Max(S) \in Int /\ v \in Int BY <1>2
<1>4. Max(S) >= v /\ v >= Max(S) BY <1>1, <1>2
<1> QED BY <1>3, <1>4

LEMMA MinIs ==
  ASSUME NEW S, S \subseteq Int, NEW v \in S, \A y \in S : v <= y
  PROVE  Min(S) = v
<1>1. Min(S) \in S /\ \A y \in S : Min(S) <= y BY Zenon DEF Min
<1>2. Min(S) \in Int /\ v \in Int BY <1>1
<1>3. Min(S) <= v /\ v <= Min(S) BY <1>1
<1> QED BY <1>2, <1>3

(* The size a field selects, by the ones that lead immN:NOT(imms). *)
LEMMA ElementSizeIs ==
  ASSUME NEW n \in Bit, NEW imms \in 0..63
  PROVE  /\ n = 1 => ElementSize(n, imms) = 64
         /\ n = 0 /\ imms < 32 => ElementSize(n, imms) = 32
         /\ n = 0 /\ 32 <= imms /\ imms < 48 => ElementSize(n, imms) = 16
         /\ n = 0 /\ 48 <= imms /\ imms < 56 => ElementSize(n, imms) = 8
         /\ n = 0 /\ 56 <= imms /\ imms < 60 => ElementSize(n, imms) = 4
         /\ n = 0 /\ 60 <= imms /\ imms < 62 => ElementSize(n, imms) = 2
         /\ n = 0 /\ imms = 62 => ElementSize(n, imms) = 1
         /\ n = 0 /\ imms = 63 => ElementSize(n, imms) = 0
<1> DEFINE concat == n * 64 + (63 - imms)
           S == {0} \cup {e \in ESizes \cup {1} : e <= concat}
<1>0. n \in {0, 1} /\ concat \in Int BY DEF Bit
<1>1. ElementSize(n, imms) = Max(S) BY PowersAre, WidthsAre DEF ElementSize
<1>2. S \subseteq Int BY DEF ESizes
<1>3. \A v \in S : (\A y \in S : y <= v) => Max(S) = v
  <2> HIDE DEF S
  <2> QED BY <1>2, MaxIs
<1> QED BY <1>0, <1>1, <1>3 DEF ESizes

(* The fields of an element size: imms leads with the ones that mark it. *)
LEMMA FieldShape ==
  ASSUME NEW n \in Bit, NEW imms \in 0..63, NEW e, e = ElementSize(n, imms), e >= 2
  PROVE  /\ e \in ESizes /\ imms % e \in 0..(e - 1)
         /\ n = 1 => e = 64 /\ imms = imms % e
         /\ n = 0 => e <= 32 /\ imms = (64 - 2 * e) + (imms % e)
<1>1. n = 0 \/ n = 1 BY DEF Bit
<1>2. CASE n = 1
  <2>1. e = 64 BY <1>2, ElementSizeIs
  <2> QED BY <1>2, <2>1 DEF ESizes
<1>3. CASE n = 0
  <2>1. /\ imms < 32 => e = 32
        /\ 32 <= imms /\ imms < 48 => e = 16
        /\ 48 <= imms /\ imms < 56 => e = 8
        /\ 56 <= imms /\ imms < 60 => e = 4
        /\ 60 <= imms /\ imms < 62 => e = 2
        /\ imms < 62
    BY <1>3, ElementSizeIs
  <2>2. CASE imms < 32 BY <1>3, <2>1, <2>2 DEF ESizes
  <2>3. CASE 32 <= imms /\ imms < 48
    <3>1. e = 16 BY <2>1, <2>3
    <3>2. imms % e = imms - 32 BY <2>3, <3>1
    <3>3. imms - 32 \in 0..(e - 1) BY <2>3, <3>1
    <3>4. imms = (64 - 2 * e) + (imms - 32) BY <3>1
    <3> QED BY <1>3, <3>1, <3>2, <3>3, <3>4 DEF ESizes
  <2>4. CASE 48 <= imms /\ imms < 56
    <3>1. e = 8 BY <2>1, <2>4
    <3>2. imms % e = imms - 48 BY <2>4, <3>1
    <3>3. imms - 48 \in 0..(e - 1) BY <2>4, <3>1
    <3>4. imms = (64 - 2 * e) + (imms - 48) BY <3>1
    <3> QED BY <1>3, <3>1, <3>2, <3>3, <3>4 DEF ESizes
  <2>5. CASE 56 <= imms /\ imms < 60
    <3>1. e = 4 BY <2>1, <2>5
    <3>2. imms % e = imms - 56 BY <2>5, <3>1
    <3>3. imms - 56 \in 0..(e - 1) BY <2>5, <3>1
    <3>4. imms = (64 - 2 * e) + (imms - 56) BY <3>1
    <3> QED BY <1>3, <3>1, <3>2, <3>3, <3>4 DEF ESizes
  <2>6. CASE 60 <= imms /\ imms < 62
    <3>1. e = 2 BY <2>1, <2>6
    <3>2. imms % e = imms - 60 BY <2>6, <3>1
    <3>3. imms - 60 \in 0..(e - 1) BY <2>6, <3>1
    <3>4. imms = (64 - 2 * e) + (imms - 60) BY <3>1
    <3> QED BY <1>3, <3>1, <3>2, <3>3, <3>4 DEF ESizes
  <2> QED BY <2>1, <2>2, <2>3, <2>4, <2>5, <2>6
<1> QED BY <1>1, <1>2, <1>3

(* And back: the packed fields select the size they were packed for. *)
LEMMA PackedShape ==
  ASSUME NEW e \in ESizes, NEW s \in 0..(e - 2)
  PROVE  LET p == PackNImms(e, s)
         IN  /\ p[1] \in Bit /\ p[2] \in 0..63
             /\ ElementSize(p[1], p[2]) = e /\ p[2] % e = s
             /\ p = IF e = 64 THEN <<1, s>> ELSE <<0, (64 - 2 * e) + s>>
<1>1. CASE e = 64
  <2>1. PackNImms(e, s) = <<1, s>> BY <1>1, WidthsAre DEF PackNImms
  <2>2. s \in 0..63 /\ s % 64 = s /\ 1 \in Bit BY <1>1 DEF Bit
  <2>3. ElementSize(1, s) = 64 BY <2>2, ElementSizeIs
  <2> QED BY <1>1, <2>1, <2>2, <2>3
<1>2. CASE e # 64
  <2> DEFINE f == (64 - 2 * e) + s
  <2>1. PackNImms(e, s) = <<0, f>> BY <1>2, WidthsAre DEF PackNImms
  <2>2. f \in 0..63 /\ f % e = s /\ 0 \in Bit BY <1>2 DEF ESizes, Bit
  <2>3. ElementSize(0, f) = e BY <1>2, <2>2, ElementSizeIs DEF ESizes
  <2> QED BY <1>2, <2>1, <2>2, <2>3
<1> QED BY <1>1, <1>2

(***************************************************************************)
(* Bitmask immediates: the run of ones and its rotations                   *)
(***************************************************************************)

(* A rotation by r turns the run 0..s to the bits i with (i + r) % e <= s. *)
LEMMA RotationOf ==
  ASSUME NEW e \in ESizes, NEW r \in 0..(e - 1), NEW i \in 0..(e - 1), NEW j \in 0..(e - 1)
  PROVE  /\ (j + (e - r)) % e \in 0..(e - 1) /\ (i + r) % e \in 0..(e - 1)
         /\ i = (j + (e - r)) % e <=> j = (i + r) % e
<1>1. e \in Int /\ e > 0 BY DEF ESizes
<1>2. \/ j + (e - r) >= e /\ (j + (e - r)) % e = j - r
      \/ j + (e - r) < e /\ (j + (e - r)) % e = j + (e - r)
  BY DEF ESizes
<1>3. \/ i + r >= e /\ (i + r) % e = (i + r) - e
      \/ i + r < e /\ (i + r) % e = i + r
  BY DEF ESizes
<1> QED BY <1>1, <1>2, <1>3

LEMMA RunBits ==
  ASSUME NEW e \in ESizes, NEW s \in 0..(e - 1), NEW r \in 0..(e - 1)
  PROVE  /\ Ror(Ones(s + 1), r, e) \subseteq 0..(e - 1)
         /\ \A i \in 0..(e - 1) : i \in Ror(Ones(s + 1), r, e) <=> (i + r) % e <= s
<1>1. e \in Int /\ e > 0 BY DEF ESizes
<1>2. Ones(s + 1) = 0..s BY DEF Ones
<1>3. Ror(Ones(s + 1), r, e) = {(j + (e - r)) % e : j \in 0..s} BY <1>1, <1>2 DEF Ror
<1>4. \A j \in 0..s : j \in 0..(e - 1) BY <1>1
<1>5. ASSUME NEW i \in 0..(e - 1) PROVE i \in Ror(Ones(s + 1), r, e) <=> (i + r) % e <= s
  <2>1. ASSUME NEW j \in 0..s, i = (j + (e - r)) % e PROVE (i + r) % e <= s
    BY <1>4, <2>1, RotationOf
  <2>2. ASSUME (i + r) % e <= s PROVE \E j \in 0..s : i = (j + (e - r)) % e
    <3>1. (i + r) % e \in 0..(e - 1) BY RotationOf
    <3>2. (i + r) % e \in 0..s BY <1>1, <2>2, <3>1
    <3>3. i = (((i + r) % e) + (e - r)) % e BY <3>1, RotationOf
    <3> QED BY <3>2, <3>3
  <2> QED BY <1>3, <2>1, <2>2
<1>6. \A j \in 0..s : (j + (e - r)) % e \in 0..(e - 1) BY <1>4, RotationOf
<1> QED BY <1>3, <1>5, <1>6

(* As many ones as the run has. *)
LEMMA RunCount ==
  ASSUME NEW e \in ESizes, NEW s \in 0..(e - 1), NEW r \in 0..(e - 1)
  PROVE  Cardinality(Ror(Ones(s + 1), r, e)) = s + 1
<1> DEFINE f == [j \in 0..s |-> (j + (e - r)) % e]
<1>1. e \in Int /\ e > 0 BY DEF ESizes
<1>2. Ones(s + 1) = 0..s BY DEF Ones
<1>3. Ror(Ones(s + 1), r, e) = {(j + (e - r)) % e : j \in 0..s} BY <1>1, <1>2 DEF Ror
<1>4. \A j \in 0..s : j \in 0..(e - 1) BY <1>1
<1>5. \A j, k \in 0..s : (j + (e - r)) % e = (k + (e - r)) % e => j = k
  <2> SUFFICES ASSUME NEW j \in 0..s, NEW k \in 0..s, (j + (e - r)) % e = (k + (e - r)) % e PROVE j = k
    OBVIOUS
  <2> DEFINE i == (j + (e - r)) % e
  <2>1. i \in 0..(e - 1) BY <1>4, RotationOf
  <2>2. j = (i + r) % e BY <1>4, <2>1, RotationOf
  <2>3. k = (i + r) % e BY <1>4, <2>1, RotationOf
  <2> QED BY <2>2, <2>3
<1>6. f \in Bijection(0..s, Ror(Ones(s + 1), r, e))
  <2>1. f \in [0..s -> Ror(Ones(s + 1), r, e)] BY <1>3
  <2>2. \A j, k \in 0..s : f[j] = f[k] => j = k BY <1>5
  <2>3. \A i \in Ror(Ones(s + 1), r, e) : \E j \in 0..s : f[j] = i BY <1>3
  <2> HIDE DEF f
  <2> QED BY <2>1, <2>2, <2>3, Fun_IsBij
<1>7. IsFiniteSet(0..s) /\ Cardinality(0..s) = s + 1 BY FS_Interval
<1>8. ExistsBijection(0..s, Ror(Ones(s + 1), r, e)) BY <1>6 DEF ExistsBijection
<1> QED BY <1>7, <1>8, FS_Bijection, Zenon

(* decode_bit_masks: the mask is the run of imms % e + 1 ones, rotated right
   by immr within an element and repeated. *)
LEMMA DecodedMask ==
  ASSUME NEW n \in Bit, NEW imms \in 0..63, NEW immr \in 0..63, NEW m,
         DecodeBitMasks(n, imms, immr, m).ok
  PROVE  LET e == ElementSize(n, imms)
         IN  /\ e \in ESizes /\ imms % e \in 0..(e - 2) /\ immr % e \in 0..(e - 1)
             /\ DecodeBitMasks(n, imms, immr, m)
                  = Some(Replicate(Ror(Ones((imms % e) + 1), immr % e, e), e, m))
<1> DEFINE e == ElementSize(n, imms)
           s == imms % e
<1>1. ~(e < 2) /\ ~(s = e - 1)
      /\ DecodeBitMasks(n, imms, immr, m) = Some(Replicate(Ror(Ones(s + 1), immr % e, e), e, m))
  BY Zenon DEF DecodeBitMasks, None
<1>2. e \in {0, 1, 2, 4, 8, 16, 32, 64}
  <2>1. n = 0 \/ n = 1 BY DEF Bit
  <2> QED BY <2>1, ElementSizeIs
<1>3. e >= 2 BY <1>1, <1>2
<1>4. e \in ESizes /\ s \in 0..(e - 1)
  <2> HIDE DEF e
  <2>1. e = ElementSize(n, imms) BY DEF e
  <2> QED BY <1>3, <2>1, FieldShape
<1>5. immr % e \in 0..(e - 1)
  <2> HIDE DEF e
  <2> QED BY <1>4 DEF ESizes
<1>6. s \in 0..(e - 2)
  <2> HIDE DEF e, s
  <2> QED BY <1>1, <1>4 DEF ESizes
<1> QED BY <1>1, <1>4, <1>5, <1>6, Zenon

LEMMA ModOfSum ==
  ASSUME NEW e \in ESizes, NEW i \in Nat, NEW k \in Nat
  PROVE  i % e \in 0..(e - 1) /\ ((i % e) + (k % e)) % e = (i + k) % e
BY DEF ESizes

(* The bits of a mask, from the fields alone. *)
LEMMA MaskBits ==
  ASSUME NEW n \in Bit, NEW imms \in 0..63, NEW immr \in 0..63, NEW m \in Widths,
         DecodeBitMasks(n, imms, immr, m).ok
  PROVE  LET e == ElementSize(n, imms)
             v == DecodeBitMasks(n, imms, immr, m).v
         IN  /\ v \subseteq 0..(m - 1)
             /\ \A i \in 0..(m - 1) : i \in v <=> (i + immr) % e <= imms % e
<1> DEFINE e == ElementSize(n, imms)
           s == imms % e
           r == immr % e
           v == DecodeBitMasks(n, imms, immr, m).v
           run == Ror(Ones(s + 1), r, e)
<1>1. e \in ESizes /\ s \in 0..(e - 2) /\ r \in 0..(e - 1) /\ v = Replicate(run, e, m)
  <2>1. /\ e \in ESizes /\ s \in 0..(e - 2) /\ r \in 0..(e - 1)
        /\ DecodeBitMasks(n, imms, immr, m) = Some(Replicate(run, e, m))
    BY DecodedMask, Zenon
  <2> HIDE DEF e, s, r, run
  <2> QED BY <2>1 DEF Some
<1>2. v = {i \in 0..(m - 1) : i % e \in run} BY <1>1 DEF Replicate
<1>3. \A i \in 0..(e - 1) : i \in run <=> (i + r) % e <= s
  <2> HIDE DEF e, s, r
  <2>1. s \in 0..(e - 1) BY <1>1 DEF ESizes
  <2> QED BY <1>1, <2>1, RunBits
<1>4. ASSUME NEW i \in 0..(m - 1) PROVE i \in v <=> (i + immr) % e <= s
  <2>1. i \in Nat /\ immr \in Nat BY WidthsAre
  <2>2. i % e \in 0..(e - 1) /\ ((i % e) + r) % e = (i + immr) % e
    <3> HIDE DEF e
    <3> QED BY <1>1, <2>1, ModOfSum
  <2> HIDE DEF e, s, r, v, run
  <2> QED BY <1>2, <1>3, <2>2
<1>5. v \subseteq 0..(m - 1) BY <1>2
<1> QED BY <1>4, <1>5

(* In the order of the run, bit j of an element is at (j + (e - r)) % e. *)
LEMMA RunOrder ==
  ASSUME NEW e \in ESizes, NEW s \in 0..(e - 2), NEW r \in 0..(e - 1), NEW j \in 0..(e - 1)
  PROVE  LET i == (j + (e - r)) % e
         IN  i \in 0..(e - 1) /\ (i \in Ror(Ones(s + 1), r, e) <=> j <= s)
<1> DEFINE i == (j + (e - r)) % e
<1>1. e \in Int /\ e > 0 /\ s \in 0..(e - 1) BY DEF ESizes
<1>2. i \in 0..(e - 1) BY RotationOf
<1>3. j = (i + r) % e BY <1>2, RotationOf
<1>4. i \in Ror(Ones(s + 1), r, e) <=> (i + r) % e <= s BY <1>1, <1>2, RunBits
<1> QED BY <1>2, <1>3, <1>4

(* Positions a smaller power of two apart stay that far apart when rotated. *)
LEMMA SamePhase ==
  ASSUME NEW e \in ESizes, NEW d \in ESizes, d < e, NEW r \in 0..(e - 1),
         NEW j \in 0..(e - 1), NEW k \in 0..(e - 1), j % d = k % d
  PROVE  ((j + (e - r)) % e) % d = ((k + (e - r)) % e) % d
<1>1. e % d = 0 /\ d > 0 /\ e \in Nat /\ d \in Nat BY DEF ESizes
<1>2. ASSUME NEW a \in Nat PROVE (a % e) % d = a % d
  <2>1. d = 2 \/ d = 4 \/ d = 8 \/ d = 16 \/ d = 32 BY DEF ESizes
  <2>2. CASE d = 2 BY <2>2 DEF ESizes
  <2>3. CASE d = 4 BY <2>3 DEF ESizes
  <2>4. CASE d = 8 BY <2>4 DEF ESizes
  <2>5. CASE d = 16 BY <2>5 DEF ESizes
  <2>6. CASE d = 32 BY <2>6 DEF ESizes
  <2> QED BY <2>1, <2>2, <2>3, <2>4, <2>5, <2>6
<1>3. j + (e - r) \in Nat /\ k + (e - r) \in Nat BY <1>1
<1>4. (j + (e - r)) % d = (k + (e - r)) % d
  <2>1. e - r \in Nat /\ j \in Nat /\ k \in Nat BY <1>1
  <2>2. ((j % d) + ((e - r) % d)) % d = (j + (e - r)) % d BY <2>1, ModOfSum
  <2>3. ((k % d) + ((e - r) % d)) % d = (k + (e - r)) % d BY <2>1, ModOfSum
  <2> QED BY <2>2, <2>3
<1> QED BY <1>2, <1>3, <1>4

(* A rotated run does not repeat within its element. *)
LEMMA NoSmallerPeriod ==
  ASSUME NEW e \in ESizes, NEW s \in 0..(e - 2), NEW r \in 0..(e - 1), NEW d \in ESizes, d < e,
         \A i, k \in 0..(e - 1) :
           i % d = k % d => (i \in Ror(Ones(s + 1), r, e) <=> k \in Ror(Ones(s + 1), r, e))
  PROVE  FALSE
<1> DEFINE at(j) == (j + (e - r)) % e
<1>1. e \in Int /\ d \in Int /\ d >= 2 /\ d < e /\ e % d = 0 BY DEF ESizes
<1>2. ASSUME NEW j \in 0..(e - 1), NEW k \in 0..(e - 1), j % d = k % d PROVE j <= s <=> k <= s
  <2>1. at(j) % d = at(k) % d BY <1>2, SamePhase, Zenon
  <2>2. at(j) \in 0..(e - 1) /\ (at(j) \in Ror(Ones(s + 1), r, e) <=> j <= s) BY RunOrder
  <2>3. at(k) \in 0..(e - 1) /\ (at(k) \in Ror(Ones(s + 1), r, e) <=> k <= s) BY RunOrder
  <2> HIDE DEF at
  <2> QED BY <2>1, <2>2, <2>3
<1>3. 0 \in 0..(e - 1) /\ d \in 0..(e - 1) /\ d - 1 \in 0..(e - 1) /\ e - 1 \in 0..(e - 1) BY <1>1
<1>4. 0 % d = d % d BY <1>1
<1>5. (d - 1) % d = (e - 1) % d
  <2>1. d = 2 \/ d = 4 \/ d = 8 \/ d = 16 \/ d = 32 BY DEF ESizes
  <2>2. CASE d = 2 BY <2>2 DEF ESizes
  <2>3. CASE d = 4 BY <2>3 DEF ESizes
  <2>4. CASE d = 8 BY <2>4 DEF ESizes
  <2>5. CASE d = 16 BY <2>5 DEF ESizes
  <2>6. CASE d = 32 BY <2>6 DEF ESizes
  <2> QED BY <2>1, <2>2, <2>3, <2>4, <2>5, <2>6
<1>6. 0 <= s <=> d <= s BY <1>2, <1>3, <1>4
<1>7. d - 1 <= s <=> e - 1 <= s BY <1>2, <1>3, <1>5
<1> QED BY <1>1, <1>6, <1>7

(* The rotation of a run can be read off the run. *)
LEMMA RotationIsUnique ==
  ASSUME NEW e \in ESizes, NEW s \in 0..(e - 2), NEW r \in 0..(e - 1)
  PROVE  Rotations(Ror(Ones(s + 1), r, e), e) = {r}
<1> DEFINE run == Ror(Ones(s + 1), r, e)
<1>1. e \in Int /\ e > 0 /\ s \in 0..(e - 1) BY DEF ESizes
<1>2. Rotations(run, e) = {q \in 0..(e - 1) : Ror(Ones(s + 1), q, e) = run}
  BY <1>1, RunCount DEF Rotations
<1>3. ASSUME NEW q \in 0..(e - 1), Ror(Ones(s + 1), q, e) = run PROVE q = r
  <2> DEFINE i == (0 + (e - q)) % e
             k == ((e - 1) + (e - q)) % e
  <2>0. 0 \in 0..(e - 1) /\ e - 1 \in 0..(e - 1) /\ 0 <= s /\ ~(e - 1 <= s) BY <1>1
  <2>1. i \in 0..(e - 1) /\ i \in run
    <3>1. i \in 0..(e - 1) /\ (i \in Ror(Ones(s + 1), q, e) <=> 0 <= s) BY <2>0, RunOrder, Zenon
    <3> QED BY <1>3, <2>0, <3>1, Zenon
  <2>2. k \in 0..(e - 1) /\ k \notin run
    <3>1. k \in 0..(e - 1) /\ (k \in Ror(Ones(s + 1), q, e) <=> e - 1 <= s) BY <2>0, RunOrder, Zenon
    <3> QED BY <1>3, <2>0, <3>1, Zenon
  <2>3. (i + r) % e <= s BY <1>1, <2>1, RunBits
  <2>4. ~((k + r) % e <= s) BY <1>1, <2>2, RunBits
  <2>5. q = 0 \/ q > 0 BY <1>1
  <2>6. /\ q = 0 => i = 0 /\ k = e - 1
        /\ q > 0 => i = e - q /\ k = (e - q) - 1
    BY <1>1 DEF ESizes
  <2> HIDE DEF i, k
  <2>7. q = r
    <3>1. q = 0 => (i + r) % e = r /\ (r > 0 => (k + r) % e = r - 1) BY <2>6 DEF ESizes
    <3>2. q > 0 /\ r >= q => (i + r) % e = r - q /\ (r > q => (k + r) % e = (r - q) - 1)
      BY <2>6 DEF ESizes
    <3>3. q > 0 /\ r < q => (i + r) % e = (e - q) + r /\ (k + r) % e = ((e - q) + r) - 1
      BY <2>6 DEF ESizes
    <3> QED BY <1>1, <2>3, <2>4, <2>5, <3>1, <3>2, <3>3
  <2> QED BY <2>7
<1> QED BY <1>2, <1>3

(* encode_bit_masks recovers the fields of every value decode_bit_masks
   produces, with the rotation reduced to the element: the size it settles on
   first is the element's, for no smaller one repeats the run. *)
THEOREM EncodeBitMasksBack ==
  ASSUME NEW n \in Bit, NEW imms \in 0..63, NEW immr \in 0..63, NEW m \in Widths,
         m = WBits => n = 0, DecodeBitMasks(n, imms, immr, m).ok
  PROVE  EncodeBitMasks(DecodeBitMasks(n, imms, immr, m).v, m)
           = Some([n |-> n, immr |-> immr % ElementSize(n, imms), imms |-> imms])
<1> DEFINE e == ElementSize(n, imms)
           s == imms % e
           r == immr % e
           v == DecodeBitMasks(n, imms, immr, m).v
           run == Ror(Ones(s + 1), r, e)
           f == [n |-> n, immr |-> r, imms |-> imms]
<1>1. /\ e \in ESizes /\ s \in 0..(e - 2) /\ r \in 0..(e - 1)
      /\ DecodeBitMasks(n, imms, immr, m) = Some(Replicate(run, e, m))
  BY DecodedMask, Zenon
<1>2. v = Replicate(run, e, m)
  <2> HIDE DEF e, s, r, run
  <2> QED BY <1>1 DEF Some
<1>3. /\ n = 1 => e = 64 /\ imms = s
      /\ n = 0 => e <= 32 /\ imms = (64 - 2 * e) + s
  <2> HIDE DEF e
  <2>1. e = ElementSize(n, imms) /\ e >= 2 BY <1>1 DEF e, ESizes
  <2> QED BY <2>1, FieldShape
<1>4. e <= m /\ m \in {32, 64} /\ (n = 0 \/ n = 1)
  <2> HIDE DEF e, s
  <2>1. m = 32 \/ m = 64 BY WidthsAre
  <2>2. n = 0 \/ n = 1 BY DEF Bit
  <2> QED BY <1>1, <1>3, <2>1, <2>2, WidthsAre DEF ESizes
<1>5. run \subseteq 0..(e - 1)
  <2> HIDE DEF e, s, r
  <2>1. s \in 0..(e - 1) BY <1>1 DEF ESizes
  <2> QED BY <1>1, <2>1, RunBits
<1>6. v \cap Ones(e) = run
  <2> HIDE DEF e, s, r, v, run
  <2>1. \A i \in 0..(e - 1) : i % e = i /\ i \in 0..(m - 1) BY <1>1, <1>4 DEF ESizes
  <2> QED BY <1>2, <1>5, <2>1 DEF Replicate, Ones
<1>7. FieldsOf(v, m, e) = Some(f)
  <2>1. Rotations(run, e) = {r}
    <3> HIDE DEF e, s, r
    <3> QED BY <1>1, RotationIsUnique
  <2>2. Cardinality(run) = s + 1
    <3> HIDE DEF e, s, r
    <3>1. s \in 0..(e - 1) BY <1>1 DEF ESizes
    <3> QED BY <1>1, <3>1, RunCount
  <2>3. run # {} /\ run # Ones(e)
    <3> HIDE DEF e, s, r
    <3>1. 0 \in 0..(e - 1) /\ e - 1 \in 0..(e - 1) /\ 0 <= s /\ ~(e - 1 <= s) BY <1>1 DEF ESizes
    <3>2. (0 + (e - r)) % e \in run BY <1>1, <3>1, RunOrder
    <3>3. /\ ((e - 1) + (e - r)) % e \in 0..(e - 1)
          /\ ~(((e - 1) + (e - r)) % e \in run)
      BY <1>1, <3>1, RunOrder, Zenon
    <3> QED BY <3>2, <3>3 DEF Ones
  <2>4. PackNImms(e, s) = <<n, imms>>
    <3> HIDE DEF e, s
    <3>1. PackNImms(e, s) = IF e = 64 THEN <<1, s>> ELSE <<0, (64 - 2 * e) + s>>
      BY <1>1, PackedShape, Zenon
    <3> QED BY <1>3, <1>4, <3>1
  <2>5. Min({r}) = r
    <3> HIDE DEF e, r
    <3>1. r \in Int /\ r <= r BY <1>1
    <3>2. {r} \subseteq Int /\ r \in {r} /\ \A y \in {r} : r <= y BY <3>1
    <3> QED BY <3>2, MinIs
  <2>6. (s + 1) - 1 = s
    <3> HIDE DEF s
    <3> QED BY <1>1
  <2>7. /\ v \cap Ones(e) \notin {{}, Ones(e)} /\ Rotations(v \cap Ones(e), e) # {}
        /\ Replicate(v \cap Ones(e), e, m) = v
        /\ Min(Rotations(v \cap Ones(e), e)) = r
        /\ PackNImms(e, Cardinality(v \cap Ones(e)) - 1) = <<n, imms>>
    <3> HIDE DEF e, s, r, v, run
    <3> QED BY <1>2, <1>6, <2>1, <2>2, <2>3, <2>4, <2>5, <2>6
  <2> HIDE DEF e, s, r, v, run
  <2> QED BY <2>7 DEF FieldsOf, f
<1>8. Confirmed(FieldsOf(v, m, e), v, m)
  <2>1. r % e = r /\ r \in 0..63
    <3> HIDE DEF e, r
    <3> QED BY <1>1 DEF ESizes
  <2>2. DecodeBitMasks(n, imms, r, m) = DecodeBitMasks(n, imms, immr, m)
    BY <2>1, Zenon DEF DecodeBitMasks
  <2>3. DecodeBitMasks(n, imms, immr, m) = Some(v) BY <1>1, <1>2, Zenon
  <2> HIDE DEF e, s, r, v, run
  <2>4. FieldsOf(v, m, e).ok /\ FieldsOf(v, m, e).v = f BY <1>7 DEF Some
  <2>5. f.n = n /\ f.imms = imms /\ f.immr = r BY DEF f
  <2> HIDE DEF f
  <2> QED BY <2>2, <2>3, <2>4, <2>5 DEF Confirmed
<1>9. ASSUME NEW d \in ESizes, d <= m, Confirmed(FieldsOf(v, m, d), v, m) PROVE e <= d
  <2> SUFFICES ASSUME d < e PROVE FALSE
    <3> HIDE DEF e
    <3> QED BY <1>1 DEF ESizes
  <2>1. Replicate(v \cap Ones(d), d, m) = v BY <1>9 DEF Confirmed, FieldsOf, None
  <2>2. \A i \in 0..(m - 1) : i \in v <=> i % d \in v \cap Ones(d) BY <2>1 DEF Replicate
  <2>3. \A i \in 0..(e - 1) : i \in 0..(m - 1) /\ (i \in v <=> i \in run)
    <3> HIDE DEF e, s, r, v, run
    <3> QED BY <1>1, <1>4, <1>6 DEF ESizes, Ones
  <2>4. \A i, k \in 0..(e - 1) : i % d = k % d => (i \in run <=> k \in run)
    <3> HIDE DEF e, s, r, v, run
    <3> QED BY <2>2, <2>3, Zenon
  <2> HIDE DEF e, s, r
  <2> QED BY <1>1, <2>4, NoSmallerPeriod
<1>10. EncodeBitMasks(v, m) = FieldsOf(v, m, e)
  <2> DEFINE good == {d \in ESizes : d <= m /\ Confirmed(FieldsOf(v, m, d), v, m)}
  <2>1. EncodeBitMasks(v, m) = IF good = {} THEN None ELSE FieldsOf(v, m, Min(good))
    BY PowersAre, Zenon DEF EncodeBitMasks
  <2>2. e \in good BY <1>1, <1>4, <1>8, Zenon
  <2>3. \A d \in good : e <= d BY <1>9, Zenon
  <2>4. good \subseteq Int BY DEF ESizes
  <2> HIDE DEF good, e
  <2>5. Min(good) = e BY <2>2, <2>3, <2>4, MinIs
  <2> QED BY <2>1, <2>2, <2>5
<1> QED BY <1>7, <1>10, Zenon

(***************************************************************************)
(* Bitmask immediates and the wide moves                                   *)
(***************************************************************************)

LEMMA FactorOk ==
  ASSUME NEW value, NEW m \in Widths, NEW hw \in 0..3, hw * 16 < m,
         \A i \in value : i \in (hw * 16)..(hw * 16 + 15)
  PROVE  Factor(value, m).ok
<1>1. m \div Lane = IF m = 32 THEN 2 ELSE 4 BY WidthsAre
<1>2. hw \in 0..(m \div Lane - 1) BY <1>1, WidthsAre
<1>3. LaneBits(hw) = (hw * 16)..(hw * 16 + 15) BY WidthsAre DEF LaneBits
<1>4. value \subseteq LaneBits(hw) BY <1>3
<1> QED BY <1>2, <1>4 DEF Factor, Some

(* The ones of a run that stays within a lane. *)
LEMMA OnesInLane ==
  ASSUME NEW ds \in {32, 64}, NEW immr \in 0..(ds - 1), NEW imms \in 0..15, (-immr) % 16 <= 15 - imms
  PROVE  \E hw \in 0..3 :
           /\ hw * 16 < ds
           /\ \A i \in 0..(ds - 1) : (i + immr) % ds <= imms => i \in (hw * 16)..(hw * 16 + 15)
<1> DEFINE p == IF immr = 0 THEN 0 ELSE ds - immr
<1>1. p \in 0..(ds - 1) /\ p % 16 = (-immr) % 16 OBVIOUS
<1>2. p + imms < ds BY <1>1
<1>3. PICK hw \in 0..3 : hw * 16 <= p /\ p <= hw * 16 + 15 /\ p % 16 = p - hw * 16
  <2>1. p \in 0..63 BY <1>1
  <2> HIDE DEF p
  <2>2. \/ p \in 0..15 \/ p \in 16..31 \/ p \in 32..47 \/ p \in 48..63 BY <2>1
  <2>3. CASE p \in 0..15
    <3> WITNESS 0 \in 0..3
    <3> QED BY <2>3
  <2>4. CASE p \in 16..31
    <3> WITNESS 1 \in 0..3
    <3> QED BY <2>4
  <2>5. CASE p \in 32..47
    <3> WITNESS 2 \in 0..3
    <3> QED BY <2>5
  <2>6. CASE p \in 48..63
    <3> WITNESS 3 \in 0..3
    <3> QED BY <2>6
  <2> QED BY <2>2, <2>3, <2>4, <2>5, <2>6
<1>4. ASSUME NEW i \in 0..(ds - 1), (i + immr) % ds <= imms PROVE p <= i /\ i <= p + imms
  <2>1. CASE immr = 0 BY <1>4, <2>1
  <2>2. CASE immr # 0 /\ i + immr >= ds
    <3>1. (i + immr) % ds = (i + immr) - ds BY <2>2
    <3> QED BY <1>4, <2>2, <3>1
  <2>3. CASE immr # 0 /\ i + immr < ds
    <3>1. (i + immr) % ds = i + immr BY <2>3
    <3>2. immr <= imms /\ immr <= 15 BY <1>4, <3>1
    <3>3. (-immr) % 16 = 16 - immr BY <2>3, <3>2
    <3> QED BY <3>2, <3>3
  <2> QED BY <2>1, <2>2, <2>3
<1>5. hw * 16 < ds /\ p + imms <= hw * 16 + 15
  <2> HIDE DEF p
  <2> QED BY <1>1, <1>3
<1>6. \A i \in 0..(ds - 1) : (i + immr) % ds <= imms => i \in (hw * 16)..(hw * 16 + 15)
  <2> HIDE DEF p
  <2> QED BY <1>1, <1>3, <1>4, <1>5
<1> QED BY <1>5, <1>6

(* The zeros of a run that leaves at most one lane. *)
LEMMA ZerosInLane ==
  ASSUME NEW ds \in {32, 64}, NEW immr \in 0..(ds - 1), NEW imms \in (ds - 15)..(ds - 2),
         immr % 16 <= imms - (ds - 15)
  PROVE  \E hw \in 0..3 :
           /\ hw * 16 < ds
           /\ \A i \in 0..(ds - 1) : ~((i + immr) % ds <= imms) => i \in (hw * 16)..(hw * 16 + 15)
<1>1. PICK k \in 0..3 : k * 16 <= immr /\ immr <= k * 16 + 15 /\ immr % 16 = immr - k * 16
  <2>2. \/ immr \in 0..15 \/ immr \in 16..31 \/ immr \in 32..47 \/ immr \in 48..63 OBVIOUS
  <2>3. CASE immr \in 0..15
    <3> WITNESS 0 \in 0..3
    <3> QED BY <2>3
  <2>4. CASE immr \in 16..31
    <3> WITNESS 1 \in 0..3
    <3> QED BY <2>4
  <2>5. CASE immr \in 32..47
    <3> WITNESS 2 \in 0..3
    <3> QED BY <2>5
  <2>6. CASE immr \in 48..63
    <3> WITNESS 3 \in 0..3
    <3> QED BY <2>6
  <2> QED BY <2>2, <2>3, <2>4, <2>5, <2>6
<1> DEFINE hw == (ds - 16 - k * 16) \div 16
<1>2. hw \in 0..3 /\ hw * 16 = (ds - 16) - k * 16 BY <1>1
<1>3. ASSUME NEW i \in 0..(ds - 1), ~((i + immr) % ds <= imms)
      PROVE  i \in (hw * 16)..(hw * 16 + 15)
  <2>1. i + immr < ds => (i + immr) % ds = i + immr OBVIOUS
  <2>2. i + immr >= ds => (i + immr) % ds = (i + immr) - ds OBVIOUS
  <2>3. (i + immr) % ds > imms /\ (i + immr) % ds <= ds - 1 BY <1>3, <2>1, <2>2
  <2> HIDE DEF hw
  <2>4. i + immr < ds BY <1>1, <2>2, <2>3
  <2> QED BY <1>1, <1>2, <2>1, <2>3, <2>4
<1> QED BY <1>2, <1>3

(* move_wide_preferred refuses the MOV spelling only to a value that lies in
   one lane, or whose complement does. *)
THEOREM PreferredIsAMove ==
  ASSUME NEW sf \in Bit, NEW n \in Bit, NEW imms \in 0..63, NEW immr \in 0..63,
         MoveWidePreferred(sf, n, imms, immr),
         DecodeBitMasks(n, imms, immr, DataSize(sf)).ok
  PROVE  LET v == DecodeBitMasks(n, imms, immr, DataSize(sf)).v
         IN  Factor(v, DataSize(sf)).ok \/ Factor(Not(v, DataSize(sf)), DataSize(sf)).ok
<1> DEFINE ds == DataSize(sf)
           e  == ElementSize(n, imms)
           v  == DecodeBitMasks(n, imms, immr, ds).v
<1>1. ds \in {32, 64} /\ ds \in Widths /\ (sf = 1 => ds = 64) /\ (sf # 1 => ds = 32)
  BY WidthsAre DEF DataSize, Bit
<1>2. IF sf = 1 THEN n = 1 ELSE n = 0 /\ imms < 32 BY WidthsAre DEF MoveWidePreferred
<1>3. e = ds
  <2>1. n = 1 => e = 64 BY ElementSizeIs
  <2>2. n = 0 /\ imms < 32 => e = 32 BY ElementSizeIs
  <2> HIDE DEF e, ds
  <2> QED BY <1>1, <1>2, <2>1, <2>2
<1>4. imms < ds
  <2> HIDE DEF ds
  <2> QED BY <1>1, <1>2
<1>5. imms % ds = imms /\ imms <= ds - 2
  <2>1. e \in ESizes /\ imms % e \in 0..(e - 2) BY DecodedMask, Zenon
  <2>2. imms % ds = imms
    <3> HIDE DEF ds
    <3> QED BY <1>1, <1>4
  <2> HIDE DEF e, ds
  <2> QED BY <1>1, <1>3, <2>1, <2>2
<1>6. /\ v \subseteq 0..(ds - 1)
      /\ \A i \in 0..(ds - 1) : i \in v <=> (i + immr) % ds <= imms
  <2>1. /\ v \subseteq 0..(ds - 1)
        /\ \A i \in 0..(ds - 1) : i \in v <=> (i + immr) % e <= imms % e
    BY <1>1, MaskBits, Zenon
  <2> HIDE DEF ds, e, v
  <2> QED BY <1>3, <1>5, <2>1
<1> DEFINE r == immr % ds
<1>7. /\ r \in 0..(ds - 1) /\ r % 16 = immr % 16 /\ (-r) % 16 = (-immr) % 16
      /\ \A i \in 0..(ds - 1) : (i + immr) % ds = (i + r) % ds
  <2> HIDE DEF ds
  <2>1. CASE ds = 32 BY <2>1
  <2>2. CASE ds = 64 BY <2>2
  <2> QED BY <1>1, <2>1, <2>2
<1>8. \/ imms < 16 /\ (-immr) % 16 <= 15 - imms
      \/ imms >= ds - 15 /\ immr % 16 <= imms - (ds - 15)
  <2>1. \/ imms < 16 /\ (-immr) % 16 <= 16 - 1 - imms
        \/ imms >= 16 /\ imms >= ds - (16 - 1) /\ immr % 16 <= imms - (ds - (16 - 1))
    BY WidthsAre DEF MoveWidePreferred
  <2> HIDE DEF ds
  <2> QED BY <1>1, <2>1
<1> HIDE DEF ds, e, v, r
<1>9. CASE imms < 16 /\ (-immr) % 16 <= 15 - imms
  <2>1. imms \in 0..15 /\ (-r) % 16 <= 15 - imms BY <1>7, <1>9
  <2>2. PICK hw \in 0..3 :
          /\ hw * 16 < ds
          /\ \A i \in 0..(ds - 1) : (i + r) % ds <= imms => i \in (hw * 16)..(hw * 16 + 15)
    BY <1>1, <1>7, <2>1, OnesInLane
  <2>3. \A i \in v : i \in (hw * 16)..(hw * 16 + 15) BY <1>6, <1>7, <2>2
  <2>4. Factor(v, ds).ok BY <1>1, <2>2, <2>3, FactorOk
  <2> QED BY <2>4 DEF v, ds
<1>10. CASE imms >= ds - 15 /\ immr % 16 <= imms - (ds - 15)
  <2>1. imms \in (ds - 15)..(ds - 2) /\ r % 16 <= imms - (ds - 15) BY <1>1, <1>5, <1>7, <1>10
  <2>2. PICK hw \in 0..3 :
          /\ hw * 16 < ds
          /\ \A i \in 0..(ds - 1) : ~((i + r) % ds <= imms) => i \in (hw * 16)..(hw * 16 + 15)
    BY <1>1, <1>7, <2>1, ZerosInLane
  <2>3. \A i \in Not(v, ds) : i \in (hw * 16)..(hw * 16 + 15)
    BY <1>6, <1>7, <2>2 DEF Not, Ones
  <2>4. Factor(Not(v, ds), ds).ok BY <1>1, <2>2, <2>3, FactorOk
  <2> QED BY <2>4 DEF v, ds
<1> QED BY <1>8, <1>9, <1>10


(***************************************************************************)
(* The codec of the immediate group: what its operands and tables give     *)
(***************************************************************************)

(* The code's sizes: the operand slots a data-processing instruction needs,
   and immediates that the u32 and the u64 holding them do not cut off. *)
ValuesFit ==
  /\ MAX_OPERANDS \in Nat /\ MAX_OPERANDS >= 4
  /\ AddrMod \in Nat /\ AddrMod >= 4096 /\ U32 > 4096

(* Everything but the word: what the encoders read, and what a round trip
   preserves. *)
SameAs(x, y) == x.code = y.code /\ x.mnem = y.mnem /\ x.cnt = y.cnt /\ x.ops = y.ops

(* The operands of an instruction that was built from a list. *)
LEMMA Shows1 ==
  ASSUME ValuesFit, NEW x, NEW w, NEW a, NEW c, NEW m, NEW p,
         SameAs(x, Built(w, a, c, m, <<p>>))
  PROVE  x.code = c /\ x.mnem = m /\ x.cnt = 1 /\ OpAt(x, 0) = p
<1>1. x.code = c /\ x.mnem = m /\ x.ops = Filled(<<p>>) /\ x.cnt = 1
  <2>1. Len(<<p>>) = 1 OBVIOUS
  <2>2. x.cnt = IF 1 < MAX_OPERANDS THEN 1 ELSE MAX_OPERANDS BY <2>1 DEF SameAs, Built, NewInvalid
  <2>3. x.cnt = 1 BY <2>2 DEF ValuesFit
  <2> QED BY <2>3 DEF SameAs, Built, NewInvalid
<1>2. 0 \in Slot BY DEF Slot, ValuesFit
<1>3. x.ops[0] = p BY <1>1, <1>2 DEF Filled
<1>4. 0 \in Live(x) BY <1>1, <1>2 DEF Live
<1> QED BY <1>1, <1>3, <1>4 DEF OpAt

LEMMA Shows2 ==
  ASSUME ValuesFit, NEW x, NEW w, NEW a, NEW c, NEW m, NEW p, NEW q,
         SameAs(x, Built(w, a, c, m, <<p, q>>))
  PROVE  x.code = c /\ x.mnem = m /\ x.cnt = 2 /\ OpAt(x, 0) = p /\ OpAt(x, 1) = q
<1>1. x.code = c /\ x.mnem = m /\ x.ops = Filled(<<p, q>>) /\ x.cnt = 2
  <2>1. Len(<<p, q>>) = 2 OBVIOUS
  <2>2. x.cnt = IF 2 < MAX_OPERANDS THEN 2 ELSE MAX_OPERANDS BY <2>1 DEF SameAs, Built, NewInvalid
  <2>3. x.cnt = 2 BY <2>2 DEF ValuesFit
  <2> QED BY <2>3 DEF SameAs, Built, NewInvalid
<1>2. 0 \in Slot /\ 1 \in Slot BY DEF Slot, ValuesFit
<1>3. x.ops[0] = p /\ x.ops[1] = q BY <1>1, <1>2 DEF Filled
<1>4. 0 \in Live(x) /\ 1 \in Live(x) BY <1>1, <1>2 DEF Live
<1> QED BY <1>1, <1>3, <1>4 DEF OpAt

LEMMA Shows3 ==
  ASSUME ValuesFit, NEW x, NEW w, NEW a, NEW c, NEW m, NEW p, NEW q, NEW r,
         SameAs(x, Built(w, a, c, m, <<p, q, r>>))
  PROVE  /\ x.code = c /\ x.mnem = m /\ x.cnt = 3
         /\ OpAt(x, 0) = p /\ OpAt(x, 1) = q /\ OpAt(x, 2) = r
<1>1. x.code = c /\ x.mnem = m /\ x.ops = Filled(<<p, q, r>>) /\ x.cnt = 3
  <2>1. Len(<<p, q, r>>) = 3 OBVIOUS
  <2>2. x.cnt = IF 3 < MAX_OPERANDS THEN 3 ELSE MAX_OPERANDS BY <2>1 DEF SameAs, Built, NewInvalid
  <2>3. x.cnt = 3 BY <2>2 DEF ValuesFit
  <2> QED BY <2>3 DEF SameAs, Built, NewInvalid
<1>2. 0 \in Slot /\ 1 \in Slot /\ 2 \in Slot BY DEF Slot, ValuesFit
<1>3. x.ops[0] = p /\ x.ops[1] = q /\ x.ops[2] = r BY <1>1, <1>2 DEF Filled
<1>4. 0 \in Live(x) /\ 1 \in Live(x) /\ 2 \in Live(x) BY <1>1, <1>2 DEF Live
<1> QED BY <1>1, <1>3, <1>4 DEF OpAt

LEMMA Shows4 ==
  ASSUME ValuesFit, NEW x, NEW w, NEW a, NEW c, NEW m, NEW p, NEW q, NEW r, NEW s,
         SameAs(x, Built(w, a, c, m, <<p, q, r, s>>))
  PROVE  /\ x.code = c /\ x.mnem = m /\ x.cnt = 4
         /\ OpAt(x, 0) = p /\ OpAt(x, 1) = q /\ OpAt(x, 2) = r /\ OpAt(x, 3) = s
<1>1. x.code = c /\ x.mnem = m /\ x.ops = Filled(<<p, q, r, s>>) /\ x.cnt = 4
  <2>1. Len(<<p, q, r, s>>) = 4 OBVIOUS
  <2>2. x.cnt = IF 4 < MAX_OPERANDS THEN 4 ELSE MAX_OPERANDS BY <2>1 DEF SameAs, Built, NewInvalid
  <2>3. x.cnt = 4 BY <2>2 DEF ValuesFit
  <2> QED BY <2>3 DEF SameAs, Built, NewInvalid
<1>2. 0 \in Slot /\ 1 \in Slot /\ 2 \in Slot /\ 3 \in Slot BY DEF Slot, ValuesFit
<1>3. x.ops[0] = p /\ x.ops[1] = q /\ x.ops[2] = r /\ x.ops[3] = s BY <1>1, <1>2 DEF Filled
<1>4. 0 \in Live(x) /\ 1 \in Live(x) /\ 2 \in Live(x) /\ 3 \in Live(x) BY <1>1, <1>2 DEF Live
<1> QED BY <1>1, <1>3, <1>4 DEF OpAt

(* A register operand gives back its number. *)
LEMMA RegBack ==
  ASSUME NEW x, NEW i, NEW sf, NEW n \in RegNum,
         OpAt(x, i) = Gp(sf, n) \/ OpAt(x, i) = GpSp(sf, n)
  PROVE  IsRegAt(x, i) /\ RegAt(x, i) = n
<1>1. Gp(sf, n).kind = "Reg" /\ Gp(sf, n).reg[2] = n BY DEF Gp, RegOp, Op
<1>2. GpSp(sf, n).kind = "Reg" /\ GpSp(sf, n).reg[2] = n
  <2>1. CASE n = 31 BY <2>1 DEF GpSp, RegOp, Op
  <2>2. CASE n # 31 BY <1>1, <2>2 DEF GpSp
  <2> QED BY <2>1, <2>2
<1> QED BY <1>1, <1>2 DEF IsRegAt, RegAt, NumberOf

(* A width is recovered from a Code. *)
LEMMA WidthBack ==
  ASSUME NEW x, NEW name, NEW sf \in Bit, x.code = CodeOf(name, sf)
  PROVE  Is64(x) = sf /\ x.code[1] = name /\ x.code = <<name, Suffix(sf)>>
<1>1. sf = 0 \/ sf = 1 BY DEF Bit
<1> QED BY <1>1 DEF Is64, CodeOf, Suffix

(* The tables repeat no name, so a name gives back its field. *)
Distinct(table) == \A i, j \in DOMAIN table : table[i] = table[j] => i = j

LEMMA PlaceBack ==
  ASSUME NEW table, Distinct(table), NEW i, i + 1 \in DOMAIN table, i \in Int
  PROVE  Place(table, table[i + 1]) = i /\ Lists(table, table[i + 1])
<1>1. (CHOOSE j \in DOMAIN table : table[j] = table[i + 1]) = i + 1 BY DEF Distinct
<1>2. Place(table, table[i + 1]) = (i + 1) - 1 BY <1>1 DEF Place
<1>3. Lists(table, table[i + 1]) BY DEF Lists
<1> QED BY <1>2, <1>3

LEMMA TablesAreDistinct ==
  /\ Distinct(AddSubName) /\ Distinct(MinMaxName) /\ Distinct(LogicalName)
  /\ Distinct(MoveWideName) /\ Distinct(BitfieldName)
  /\ DOMAIN AddSubName = 1..4 /\ DOMAIN MinMaxName = 1..4 /\ DOMAIN LogicalName = 1..4
  /\ DOMAIN MoveWideName = 1..4 /\ DOMAIN BitfieldName = 1..3
<1>1. Distinct(AddSubName) /\ DOMAIN AddSubName = 1..4 BY DEF Distinct, AddSubName
<1>2. Distinct(MinMaxName) /\ DOMAIN MinMaxName = 1..4 BY DEF Distinct, MinMaxName
<1>3. Distinct(LogicalName) /\ DOMAIN LogicalName = 1..4 BY DEF Distinct, LogicalName
<1>4. Distinct(MoveWideName) /\ DOMAIN MoveWideName = 1..4 BY DEF Distinct, MoveWideName
<1>5. Distinct(BitfieldName) /\ DOMAIN BitfieldName = 1..3 BY DEF Distinct, BitfieldName
<1> QED BY <1>1, <1>2, <1>3, <1>4, <1>5

(* The names of a table. *)
LEMMA TableNames ==
  /\ \A c : Lists(AddSubName, c) <=> c \in {"AddImm", "AddsImm", "SubImm", "SubsImm"}
  /\ \A c : Lists(MinMaxName, c) <=> c \in {"SmaxImm", "UmaxImm", "SminImm", "UminImm"}
  /\ \A c : Lists(LogicalName, c) <=> c \in {"AndImm", "OrrImm", "EorImm", "AndsImm"}
  /\ \A c : Lists(MoveWideName, c) <=> c \in {"Movn", "none", "Movz", "Movk"}
  /\ \A c : Lists(BitfieldName, c) <=> c \in {"Sbfm", "Bfm", "Ubfm"}
<1>1. \A c : Lists(AddSubName, c) <=> c \in {"AddImm", "AddsImm", "SubImm", "SubsImm"}
  BY DEF Lists, AddSubName
<1>2. \A c : Lists(MinMaxName, c) <=> c \in {"SmaxImm", "UmaxImm", "SminImm", "UminImm"}
  BY DEF Lists, MinMaxName
<1>3. \A c : Lists(LogicalName, c) <=> c \in {"AndImm", "OrrImm", "EorImm", "AndsImm"}
  BY DEF Lists, LogicalName
<1>4. \A c : Lists(MoveWideName, c) <=> c \in {"Movn", "none", "Movz", "Movk"}
  BY DEF Lists, MoveWideName
<1>5. \A c : Lists(BitfieldName, c) <=> c \in {"Sbfm", "Bfm", "Ubfm"}
  BY DEF Lists, BitfieldName
<1> QED BY <1>1, <1>2, <1>3, <1>4, <1>5

(***************************************************************************)
(* The codec of the immediate group: every class is recovered              *)
(***************************************************************************)

(* The arithmetic immediates, with their MOV, CMP and CMN. *)
LEMMA AddSubBack ==
  ASSUME ValuesFit, NEW w \in AddSubWord, NEW ip, NEW x, SameAs(x, DecodeAddSub(w, ip))
  PROVE  EncodeAddSub(x) = Ok(w) /\ Lists(AddSubName, x.code[1])
<1> DEFINE name == AddSubName[2 * w.op + w.s + 1]
           c    == CodeOf(name, w.sf)
           imm  == ShiftedOp(w.imm12, 12 * w.sh)
           mov  == x.mnem = <<"Mov">>
           cmp  == x.mnem \in {<<"Cmp">>, <<"Cmn">>}
           at   == IF cmp THEN 1 ELSE 2
           i    == Place(AddSubName, x.code[1])
           f    == IF mov THEN Ok(<<0, 0>>) ELSE ImmShifted(OpAt(x, at))
           shape == IsRegAt(x, 0) /\ (cmp \/ IsRegAt(x, 1)) /\ (mov \/ IsShiftable(OpAt(x, at)))
           field == IF f.ok /\ f.v[1] > 4095 THEN BadImmediate ELSE f
           back  == [class |-> "addsub", sf |-> Is64(x), op |-> i \div 2, s |-> i % 2,
                     sh |-> f.v[2], imm12 |-> f.v[1],
                     rn |-> RegAt(x, IF cmp THEN 0 ELSE 1), rd |-> IF cmp THEN 31 ELSE RegAt(x, 0)]
<1>0. /\ w.sf \in Bit /\ w.op \in {0, 1} /\ w.s \in {0, 1} /\ w.sh \in {0, 1} /\ w.imm12 \in 0..4095
      /\ w.rn \in RegNum /\ w.rd \in RegNum
  BY DEF AddSubWord, Bit
<1>w. w = [class |-> "addsub", sf |-> w.sf, op |-> w.op, s |-> w.s, sh |-> w.sh,
           imm12 |-> w.imm12, rn |-> w.rn, rd |-> w.rd]
  BY DEF AddSubWord
<1>1. Place(AddSubName, name) = 2 * w.op + w.s /\ Lists(AddSubName, name)
  <2>1. /\ 2 * w.op + w.s \in Int /\ 2 * w.op + w.s + 1 \in DOMAIN AddSubName /\ Distinct(AddSubName)
    BY <1>0, TablesAreDistinct
  <2> QED BY <2>1, PlaceBack, Zenon
<1>2. name \in {"AddImm", "AddsImm", "SubImm", "SubsImm"} BY <1>1, TableNames
<1>3. ImmShifted(imm) = Ok(<<w.imm12, w.sh>>) /\ IsShiftable(imm)
  <2>1. imm.kind = "ImmShiftedMove" /\ imm.dec[1] = 12 * w.sh /\ imm.val = w.imm12 BY DEF ShiftedOp, Op
  <2>2. 12 * w.sh \in {0, 12} /\ (12 * w.sh) \div 12 = w.sh BY <1>0
  <2> HIDE DEF imm
  <2> QED BY <2>1, <2>2 DEF ImmShifted, IsShiftable
<1>4. EncodeAddSub(x) = With(shape, field, back) BY Zenon DEF EncodeAddSub
<1> HIDE DEF name, c, imm, mov, cmp, at, i, f, shape, field, back
<1>5. /\ x.code = c /\ IsRegAt(x, 0) /\ (cmp \/ IsRegAt(x, 1))
      /\ IF cmp THEN w.rd = 31 /\ RegAt(x, 0) = w.rn ELSE RegAt(x, 0) = w.rd /\ RegAt(x, 1) = w.rn
      /\ IF mov THEN w.sh = 0 /\ w.imm12 = 0 ELSE OpAt(x, at) = imm
  <2>1. CASE w.s = 0 /\ w.op = 0 /\ w.sh = 0 /\ w.imm12 = 0 /\ 31 \in {w.rd, w.rn}
    <3>1. SameAs(x, Built(w, ip, c, <<"Mov">>, <<GpSp(w.sf, w.rd), GpSp(w.sf, w.rn)>>))
      BY <2>1 DEF DecodeAddSub, Alias, c, name
    <3>2. x.code = c /\ x.mnem = <<"Mov">> /\ OpAt(x, 0) = GpSp(w.sf, w.rd) /\ OpAt(x, 1) = GpSp(w.sf, w.rn)
      BY <3>1, Shows2, Zenon
    <3>3. IsRegAt(x, 0) /\ RegAt(x, 0) = w.rd /\ IsRegAt(x, 1) /\ RegAt(x, 1) = w.rn
      BY <1>0, <3>2, RegBack
    <3>4. mov /\ ~cmp BY <3>2 DEF mov, cmp
    <3> QED BY <2>1, <3>2, <3>3, <3>4
  <2>2. CASE w.s = 1 /\ w.rd = 31
    <3> DEFINE m == IF w.op = 1 THEN "Cmp" ELSE "Cmn"
    <3>1. SameAs(x, Built(w, ip, c, <<m>>, <<GpSp(w.sf, w.rn), imm>>))
      BY <2>2 DEF DecodeAddSub, Alias, c, name, imm
    <3>2. m \in {"Cmp", "Cmn"} OBVIOUS
    <3> HIDE DEF m
    <3>3. x.code = c /\ x.mnem = <<m>> /\ OpAt(x, 0) = GpSp(w.sf, w.rn) /\ OpAt(x, 1) = imm
      BY <3>1, Shows2
    <3>4. IsRegAt(x, 0) /\ RegAt(x, 0) = w.rn BY <1>0, <3>3, RegBack
    <3>5. ~mov /\ cmp /\ at = 1 BY <3>2, <3>3 DEF mov, cmp, at
    <3> QED BY <2>2, <3>3, <3>4, <3>5
  <2>3. CASE /\ ~(w.s = 0 /\ w.op = 0 /\ w.sh = 0 /\ w.imm12 = 0 /\ 31 \in {w.rd, w.rn})
             /\ ~(w.s = 1 /\ w.rd = 31)
    <3> DEFINE dst == IF w.s = 1 THEN Gp(w.sf, w.rd) ELSE GpSp(w.sf, w.rd)
    <3>1. SameAs(x, Built(w, ip, c, MnemonicOf(c), <<dst, GpSp(w.sf, w.rn), imm>>))
      BY <2>3 DEF DecodeAddSub, Plain, c, name, imm
    <3>2. dst = Gp(w.sf, w.rd) \/ dst = GpSp(w.sf, w.rd) OBVIOUS
    <3> HIDE DEF dst
    <3>3. /\ x.code = c /\ x.mnem = MnemonicOf(c)
          /\ OpAt(x, 0) = dst /\ OpAt(x, 1) = GpSp(w.sf, w.rn) /\ OpAt(x, 2) = imm
      BY <3>1, Shows3
    <3>4. IsRegAt(x, 0) /\ RegAt(x, 0) = w.rd /\ IsRegAt(x, 1) /\ RegAt(x, 1) = w.rn
      BY <1>0, <3>2, <3>3, RegBack
    <3>5. x.mnem = <<name>>
      <4>1. c[1] = name BY DEF c, CodeOf
      <4> QED BY <3>3, <4>1 DEF MnemonicOf
    <3>6. ~mov /\ ~cmp /\ at = 2 BY <1>2, <3>5 DEF mov, cmp, at
    <3> QED BY <3>3, <3>4, <3>6
  <2> QED BY <2>1, <2>2, <2>3
<1>c. x.code = CodeOf(name, w.sf) BY <1>5, Zenon DEF c
<1>s. w.sf \in Bit BY <1>0
<1>6. Is64(x) = w.sf /\ x.code[1] = name BY <1>s, <1>c, WidthBack, Zenon
<1>7. f = Ok(<<w.imm12, w.sh>>) BY <1>3, <1>5 DEF f
<1>8. f.ok /\ f.v[1] = w.imm12 /\ f.v[2] = w.sh BY <1>7 DEF Ok
<1>9. field = f /\ field.ok
  <2>1. PICK n \in 0..4095 : n = w.imm12 BY <1>0
  <2>2. f.v[1] = n BY <1>8, <2>1
  <2>3. ~(n > 4095) OBVIOUS
  <2> QED BY <1>8, <2>2, <2>3 DEF field
<1>10. shape BY <1>3, <1>5 DEF shape
<1>11. i \div 2 = w.op /\ i % 2 = w.s BY <1>0, <1>1, <1>6 DEF i
<1>12. RegAt(x, IF cmp THEN 0 ELSE 1) = w.rn /\ (IF cmp THEN 31 ELSE RegAt(x, 0)) = w.rd BY <1>5
<1>13. back = w BY <1>w, <1>6, <1>8, <1>11, <1>12 DEF back
<1>14. EncodeAddSub(x) = Ok(w) BY <1>4, <1>9, <1>10, <1>13 DEF With
<1> QED BY <1>1, <1>6, <1>14

(* An unsigned immediate operand gives back its value, and the u32 it is
   narrowed to holds it. *)
LEMMA ImmBack ==
  ASSUME NEW x, NEW i, NEW v, OpAt(x, i) = ImmOp(v)
  PROVE  IsImmAt(x, i) /\ ValAt(x, i) = v
BY DEF ImmOp, Op, IsImmAt, ValAt

(* ADDG and SUBG: the should-be-zero field is written as zero. *)
LEMMA TagsBack ==
  ASSUME ValuesFit, NEW w \in TagsWord, NEW ip, NEW x, SameAs(x, DecodeTags(w, ip)),
         x.code # <<"Invalid">>
  PROVE  EncodeTags(x) = Ok([w EXCEPT !.op3 = 0]) /\ x.code \in {<<"AddgImm">>, <<"SubgImm">>}
<1> DEFINE shape == IsRegAt(x, 0) /\ IsRegAt(x, 1) /\ IsImmAt(x, 2) /\ IsImmAt(x, 3)
           scaled == ValAt(x, 2)
           tag    == ValAt(x, 3)
           field  == IF scaled % 16 # 0 \/ scaled \div 16 > 63 \/ tag > 15 THEN BadImmediate ELSE Ok(0)
           back   == [class |-> "tags", sf |-> 1, op |-> IF x.code = <<"SubgImm">> THEN 1 ELSE 0,
                      s |-> 0, uimm6 |-> scaled \div 16, op3 |-> 0, uimm4 |-> tag,
                      rn |-> RegAt(x, 1), rd |-> RegAt(x, 0)]
           name   == IF w.op = 1 THEN "SubgImm" ELSE "AddgImm"
<1>0. /\ w.sf \in {0, 1} /\ w.op \in {0, 1} /\ w.s \in {0, 1} /\ w.uimm6 \in 0..63 /\ w.uimm4 \in 0..15
      /\ w.rn \in RegNum /\ w.rd \in RegNum
  BY DEF TagsWord, Bit
<1>w. [w EXCEPT !.op3 = 0] = [class |-> "tags", sf |-> w.sf, op |-> w.op, s |-> w.s, uimm6 |-> w.uimm6,
                              op3 |-> 0, uimm4 |-> w.uimm4, rn |-> w.rn, rd |-> w.rd]
  BY DEF TagsWord
<1>1. EncodeTags(x) = With(shape, field, back) BY Zenon DEF EncodeTags
<1>2. "Mte" \in Features /\ w.sf = 1 /\ w.s = 0 BY DEF SameAs, DecodeTags, NewInvalid
<1>3. SameAs(x, Built(w, ip, <<name>>, MnemonicOf(<<name>>),
                      <<GpSp(1, w.rd), GpSp(1, w.rn), ImmOp(w.uimm6 * 16), ImmOp(w.uimm4)>>))
  BY <1>2 DEF DecodeTags, Plain
<1>4. name \in {"SubgImm", "AddgImm"} /\ (name = "SubgImm" <=> w.op = 1) BY <1>0
<1> HIDE DEF shape, scaled, tag, field, back, name
<1>5. /\ x.code = <<name>> /\ OpAt(x, 0) = GpSp(1, w.rd) /\ OpAt(x, 1) = GpSp(1, w.rn)
      /\ OpAt(x, 2) = ImmOp(w.uimm6 * 16) /\ OpAt(x, 3) = ImmOp(w.uimm4)
  BY <1>3, Shows4
<1>6. IsRegAt(x, 0) /\ RegAt(x, 0) = w.rd /\ IsRegAt(x, 1) /\ RegAt(x, 1) = w.rn BY <1>0, <1>5, RegBack
<1>7. w.uimm6 * 16 \in 0..4095 /\ (w.uimm6 * 16) \div 16 = w.uimm6 /\ (w.uimm6 * 16) % 16 = 0
  BY <1>0
<1>8. IsImmAt(x, 2) /\ scaled = w.uimm6 * 16 BY <1>5, ImmBack DEF scaled
<1>10. IsImmAt(x, 3) /\ tag = w.uimm4 BY <1>5, ImmBack DEF tag
<1>11. field.ok
  <2>1. PICK a \in 0..63, b \in 0..15 : a = w.uimm6 /\ b = w.uimm4 BY <1>0
  <2>2. ~(a > 63) /\ ~(b > 15) OBVIOUS
  <2>3. scaled % 16 = 0 /\ scaled \div 16 = a /\ tag = b BY <1>7, <1>8, <1>10, <2>1
  <2> QED BY <2>2, <2>3 DEF field, Ok
<1>12. shape BY <1>6, <1>8, <1>10 DEF shape
<1>13. x.code = <<"SubgImm">> <=> w.op = 1 BY <1>4, <1>5
<1>14. back = [w EXCEPT !.op3 = 0]
  <2>1. (IF x.code = <<"SubgImm">> THEN 1 ELSE 0) = w.op BY <1>0, <1>13
  <2>2. scaled \div 16 = w.uimm6 BY <1>7, <1>8
  <2> QED BY <1>w, <1>2, <1>6, <1>10, <2>1, <2>2 DEF back
<1>15. EncodeTags(x) = Ok([w EXCEPT !.op3 = 0]) BY <1>1, <1>11, <1>12, <1>14 DEF With
<1> QED BY <1>4, <1>5, <1>15

(* The signed immediate of a minimum or maximum. *)
LEMMA Signed8Back ==
  ASSUME ValuesFit, NEW v \in 0..255
  PROVE  Signed8(AsU64(SignExtend(v, 256))) = Ok(v)
<1> DEFINE s == SignExtend(v, 256)
<1>1. s \in -128..127 /\ s % 256 = v BY DEF SignExtend
<1> HIDE DEF s
<1>2. AsI64(AsU64(s)) = s BY <1>1 DEF AsI64, AsU64, ValuesFit
<1>3. s \in -128..255 BY <1>1
<1> QED BY <1>1, <1>2, <1>3 DEF Signed8, s

LEMMA MinMaxBack ==
  ASSUME ValuesFit, NEW w \in MinMaxWord, NEW ip, NEW x, SameAs(x, DecodeMinMax(w, ip)),
         x.code # <<"Invalid">>
  PROVE  EncodeMinMax(x) = Ok(w) /\ Lists(MinMaxName, x.code[1])
<1> DEFINE name == MinMaxName[w.opc + 1]
           c    == CodeOf(name, w.sf)
           imm  == IF IsSigned(w.opc) THEN SignedOp(AsU64(SignExtend(w.imm8, 256))) ELSE ImmOp(w.imm8)
           opc  == Place(MinMaxName, x.code[1])
           v    == ValAt(x, 2)
           f    == IF IsSigned(opc) THEN Signed8(v) ELSE IF v > 255 THEN BadImmediate ELSE Ok(v)
           shape == /\ IsRegAt(x, 0) /\ IsRegAt(x, 1) /\ IsImmAt(x, 2)
                    /\ IsSigned(opc) => OpAt(x, 2).kind # "ShiftAmount"
           back == [class |-> "minmax", sf |-> Is64(x), op |-> 0, s |-> 0, b20 |-> 0, opc |-> opc,
                    imm8 |-> f.v, rn |-> RegAt(x, 1), rd |-> RegAt(x, 0)]
<1>0. /\ w.sf \in Bit /\ w.opc \in 0..3 /\ w.imm8 \in 0..255 /\ w.rn \in RegNum /\ w.rd \in RegNum
  BY DEF MinMaxWord
<1>w. w = [class |-> "minmax", sf |-> w.sf, op |-> w.op, s |-> w.s, b20 |-> w.b20, opc |-> w.opc,
           imm8 |-> w.imm8, rn |-> w.rn, rd |-> w.rd]
  BY DEF MinMaxWord
<1>1. Place(MinMaxName, name) = w.opc /\ Lists(MinMaxName, name)
  <2>1. w.opc \in Int /\ w.opc + 1 \in DOMAIN MinMaxName /\ Distinct(MinMaxName)
    BY <1>0, TablesAreDistinct
  <2> QED BY <2>1, PlaceBack, Zenon
<1>2. EncodeMinMax(x) = With(shape, f, back) BY Zenon DEF EncodeMinMax
<1>3. w.op = 0 /\ w.s = 0 /\ w.b20 = 0 BY DEF SameAs, DecodeMinMax, NewInvalid
<1>4. SameAs(x, Built(w, ip, c, MnemonicOf(c), <<Gp(w.sf, w.rd), Gp(w.sf, w.rn), imm>>))
  BY <1>3 DEF DecodeMinMax, Plain, SameAs, NewInvalid
<1>5. /\ imm.kind = IF IsSigned(w.opc) THEN "ImmSigned" ELSE "ImmUnsigned"
      /\ imm.val = IF IsSigned(w.opc) THEN AsU64(SignExtend(w.imm8, 256)) ELSE w.imm8
  BY DEF SignedOp, ImmOp, Op
<1> HIDE DEF name, c, imm, opc, v, f, shape, back
<1>6. x.code = c /\ OpAt(x, 0) = Gp(w.sf, w.rd) /\ OpAt(x, 1) = Gp(w.sf, w.rn) /\ OpAt(x, 2) = imm
  BY <1>4, Shows3
<1>7. IsRegAt(x, 0) /\ RegAt(x, 0) = w.rd /\ IsRegAt(x, 1) /\ RegAt(x, 1) = w.rn BY <1>0, <1>6, RegBack
<1>8. Is64(x) = w.sf /\ x.code[1] = name BY <1>0, <1>6, WidthBack DEF c
<1>9. opc = w.opc BY <1>1, <1>8 DEF opc
<1>10. f = Ok(w.imm8)
  <2>1. CASE IsSigned(w.opc)
    <3>1. v = AsU64(SignExtend(w.imm8, 256)) BY <1>5, <1>6, <2>1 DEF v, ValAt
    <3> QED BY <1>0, <1>9, <2>1, <3>1, Signed8Back DEF f
  <2>2. CASE ~IsSigned(w.opc)
    <3>1. PICK n \in 0..255 : n = w.imm8 BY <1>0
    <3>2. ~(n > 255) OBVIOUS
    <3>3. v = n BY <1>5, <1>6, <2>2, <3>1 DEF v, ValAt
    <3> QED BY <1>9, <2>2, <3>1, <3>2, <3>3 DEF f
  <2> QED BY <2>1, <2>2
<1>11. shape
  <2>1. IsImmAt(x, 2) /\ OpAt(x, 2).kind # "ShiftAmount" BY <1>5, <1>6 DEF IsImmAt
  <2> QED BY <1>7, <2>1 DEF shape
<1>12. f.ok /\ f.v = w.imm8 BY <1>10 DEF Ok
<1>13. back = w BY <1>w, <1>3, <1>7, <1>8, <1>9, <1>12 DEF back
<1>14. EncodeMinMax(x) = Ok(w) BY <1>2, <1>11, <1>12, <1>13 DEF With
<1> QED BY <1>1, <1>8, <1>14

(* EXTR and its ROR. *)
LEMMA ExtractBack ==
  ASSUME ValuesFit, NEW w \in ExtractWord, NEW ip, NEW x, SameAs(x, DecodeExtract(w, ip)),
         x.code # <<"Invalid">>
  PROVE  EncodeExtract(x) = Ok(w) /\ x.code[1] = "Extr"
<1> DEFINE c     == CodeOf("Extr", w.sf)
           ror   == x.mnem = <<"Ror">>
           at    == IF ror THEN 2 ELSE 3
           imms  == Imm32(x, at)
           shape == IsRegAt(x, 0) /\ IsRegAt(x, 1) /\ (ror \/ IsRegAt(x, 2)) /\ IsImmAt(x, at)
           field == IF imms >= XBits \/ (Is64(x) = 0 /\ imms >= WBits) THEN BadImmediate ELSE Ok(imms)
           back  == [class |-> "extract", sf |-> Is64(x), op21 |-> 0, n |-> Is64(x), o0 |-> 0,
                     rm |-> RegAt(x, IF ror THEN 1 ELSE 2), imms |-> imms,
                     rn |-> RegAt(x, 1), rd |-> RegAt(x, 0)]
<1>0. w.sf \in Bit /\ w.imms \in 0..63 /\ w.rm \in RegNum /\ w.rn \in RegNum /\ w.rd \in RegNum
  BY WidthsAre DEF ExtractWord
<1>w. w = [class |-> "extract", sf |-> w.sf, op21 |-> w.op21, n |-> w.n, o0 |-> w.o0,
           rm |-> w.rm, imms |-> w.imms, rn |-> w.rn, rd |-> w.rd]
  BY DEF ExtractWord
<1>1. EncodeExtract(x) = With(shape, field, back) BY Zenon DEF EncodeExtract
<1>2. w.op21 = 0 /\ w.o0 = 0 /\ w.n = w.sf /\ ~(w.sf = 0 /\ w.imms >= WBits)
  BY DEF SameAs, DecodeExtract, NewInvalid
<1> HIDE DEF c, ror, at, imms, shape, field, back
<1>3. /\ x.code = c /\ OpAt(x, 0) = Gp(w.sf, w.rd) /\ OpAt(x, 1) = Gp(w.sf, w.rn)
      /\ OpAt(x, at) = ImmOp(w.imms)
      /\ IF ror THEN w.rm = w.rn ELSE OpAt(x, 2) = Gp(w.sf, w.rm)
  <2>1. CASE w.rn = w.rm
    <3>1. SameAs(x, Built(w, ip, c, <<"Ror">>, <<Gp(w.sf, w.rd), Gp(w.sf, w.rn), ImmOp(w.imms)>>))
      BY <1>2, <2>1 DEF DecodeExtract, Alias, c
    <3>2. /\ x.code = c /\ x.mnem = <<"Ror">>
          /\ OpAt(x, 0) = Gp(w.sf, w.rd) /\ OpAt(x, 1) = Gp(w.sf, w.rn) /\ OpAt(x, 2) = ImmOp(w.imms)
      BY <3>1, Shows3
    <3> QED BY <2>1, <3>2 DEF ror, at
  <2>2. CASE w.rn # w.rm
    <3>1. SameAs(x, Built(w, ip, c, MnemonicOf(c),
                          <<Gp(w.sf, w.rd), Gp(w.sf, w.rn), Gp(w.sf, w.rm), ImmOp(w.imms)>>))
      BY <1>2, <2>2 DEF DecodeExtract, Plain, c
    <3>2. /\ x.code = c /\ x.mnem = MnemonicOf(c) /\ OpAt(x, 0) = Gp(w.sf, w.rd)
          /\ OpAt(x, 1) = Gp(w.sf, w.rn) /\ OpAt(x, 2) = Gp(w.sf, w.rm) /\ OpAt(x, 3) = ImmOp(w.imms)
      BY <3>1, Shows4
    <3>3. ~ror BY <3>2 DEF ror, MnemonicOf, c, CodeOf
    <3> QED BY <3>2, <3>3 DEF at
  <2> QED BY <2>1, <2>2
<1>4. IsRegAt(x, 0) /\ RegAt(x, 0) = w.rd /\ IsRegAt(x, 1) /\ RegAt(x, 1) = w.rn BY <1>0, <1>3, RegBack
<1>5. (ror \/ IsRegAt(x, 2)) /\ RegAt(x, IF ror THEN 1 ELSE 2) = w.rm BY <1>0, <1>3, <1>4, RegBack
<1>6. Is64(x) = w.sf /\ x.code[1] = "Extr" BY <1>0, <1>3, WidthBack DEF c
<1>7. IsImmAt(x, at) /\ ValAt(x, at) = w.imms BY <1>3, ImmBack
<1>8. imms = w.imms
  <2>1. PICK n \in 0..63 : n = w.imms BY <1>0
  <2>2. n % U32 = n BY DpImmAssumption DEF ValuesFit
  <2> QED BY <1>7, <2>1, <2>2 DEF imms, Imm32
<1>9. field = Ok(w.imms) /\ field.ok
  <2>1. PICK n \in 0..63 : n = w.imms BY <1>0
  <2>2. ~(n >= XBits) BY WidthsAre
  <2> QED BY <1>2, <1>6, <1>8, <2>1, <2>2 DEF field, Ok
<1>10. shape BY <1>4, <1>5, <1>7 DEF shape
<1>11. back = w BY <1>w, <1>2, <1>4, <1>5, <1>6, <1>8 DEF back
<1>12. EncodeExtract(x) = Ok(w) BY <1>1, <1>9, <1>10, <1>11 DEF With
<1> QED BY <1>6, <1>12

(* The bits of a value within a width. *)
LEMMA WithinWidth ==
  ASSUME NEW ds \in Widths, NEW v, v \subseteq 0..(ds - 1)
  PROVE  /\ v \cap Ones(ds) = v /\ SignExtended(v, ds) \cap Ones(ds) = v
         /\ Not(SignExtended(v, ds), ds) = Not(v, ds) /\ Not(Not(v, ds), ds) = v
         /\ Not(v, ds) \subseteq 0..(ds - 1)
<1>1. ds \in Int BY WidthsAre
<1>2. \A i : i \in SignExtended(v, ds) /\ i \in 0..(ds - 1) => i \in v BY <1>1, WidthsAre DEF SignExtended
<1>3. v \subseteq SignExtended(v, ds) BY DEF SignExtended
<1> QED BY <1>2, <1>3 DEF Ones, Not

(* The bitmask immediates, with their TST and MOV: the rotation is written
   within the element. *)
LogicalNormal(w) == [w EXCEPT !.immr = w.immr % ElementSize(w.n, w.imms)]

LEMMA LogicalBack ==
  ASSUME ValuesFit, NEW w \in LogicalWord, NEW ip, NEW x, SameAs(x, DecodeLogical(w, ip)),
         x.code # <<"Invalid">>
  PROVE  EncodeLogical(x) = Ok(LogicalNormal(w)) /\ Lists(LogicalName, x.code[1])
<1> DEFINE ds   == DataSize(w.sf)
           name == LogicalName[w.opc + 1]
           c    == CodeOf(name, w.sf)
           mask == DecodeBitMasks(w.n, w.imms, w.immr, ds)
           tst  == x.mnem = <<"Tst">>
           mov  == x.mnem = <<"Mov">>
           at   == IF tst \/ mov THEN 1 ELSE 2
           f    == EncodeBitMasks(ValAt(x, at) \cap Ones(DataSize(Is64(x))), DataSize(Is64(x)))
           shape == IsRegAt(x, 0) /\ (tst \/ mov \/ IsRegAt(x, 1)) /\ IsImmAt(x, at)
           field == IF f.ok THEN f ELSE BadImmediate
           back == [class |-> "logical", sf |-> Is64(x), opc |-> Place(LogicalName, x.code[1]),
                    n |-> f.v.n, immr |-> f.v.immr, imms |-> f.v.imms,
                    rn |-> IF tst THEN RegAt(x, 0) ELSE IF mov THEN 31 ELSE RegAt(x, 1),
                    rd |-> IF tst THEN 31 ELSE RegAt(x, 0)]
<1>0. /\ w.sf \in Bit /\ w.opc \in 0..3 /\ w.n \in Bit /\ w.imms \in 0..63 /\ w.immr \in 0..63
      /\ w.rn \in RegNum /\ w.rd \in RegNum
  BY WidthsAre DEF LogicalWord
<1>w. LogicalNormal(w) = [class |-> "logical", sf |-> w.sf, opc |-> w.opc, n |-> w.n,
                          immr |-> w.immr % ElementSize(w.n, w.imms), imms |-> w.imms,
                          rn |-> w.rn, rd |-> w.rd]
  BY DEF LogicalWord, LogicalNormal
<1>1. Place(LogicalName, name) = w.opc /\ Lists(LogicalName, name)
  <2>1. w.opc \in Int /\ w.opc + 1 \in DOMAIN LogicalName /\ Distinct(LogicalName)
    BY <1>0, TablesAreDistinct
  <2> QED BY <2>1, PlaceBack, Zenon
<1>2. name \in {"AndImm", "OrrImm", "EorImm", "AndsImm"} BY <1>1, TableNames
<1>3. EncodeLogical(x) = With(shape, field, back) BY Zenon DEF EncodeLogical
<1>4. mask.ok /\ ~(w.sf = 0 /\ w.n = 1) BY Zenon DEF SameAs, DecodeLogical, NewInvalid
<1>5. ds \in Widths /\ (ds = WBits => w.n = 0)
  <2>1. (w.sf = 0 \/ w.sf = 1) /\ (w.n = 0 \/ w.n = 1) BY <1>0 DEF Bit
  <2> QED BY <1>4, <2>1, WidthsAre
<1> HIDE DEF name, c, mask, tst, mov, at, f, shape, field, back, ds
<1>f. PICK n \in Bit, imms \in 0..63, immr \in 0..63 : w.n = n /\ w.imms = imms /\ w.immr = immr
  BY <1>0
<1>m. mask = DecodeBitMasks(n, imms, immr, ds) BY <1>f DEF mask
<1>6. mask.v \subseteq 0..(ds - 1)
  <2>1. DecodeBitMasks(n, imms, immr, ds).ok BY <1>4, <1>m
  <2>2. DecodeBitMasks(n, imms, immr, ds).v \subseteq 0..(ds - 1) BY <1>5, <2>1, MaskBits, Zenon
  <2> QED BY <1>m, <2>2
<1>7. SignExtended(mask.v, ds) \cap Ones(ds) = mask.v /\ mask.v \cap Ones(ds) = mask.v
  BY <1>5, <1>6, WithinWidth
<1>8. /\ x.code = c /\ ~(tst /\ mov) /\ IsRegAt(x, 0)
      /\ tst => RegAt(x, 0) = w.rn /\ w.rd = 31
      /\ ~tst => RegAt(x, 0) = w.rd
      /\ mov => w.rn = 31
      /\ ~tst /\ ~mov => IsRegAt(x, 1) /\ RegAt(x, 1) = w.rn
      /\ OpAt(x, at) = LogicalOp(mask.v) \/ OpAt(x, at) = SignedOp(SignExtended(mask.v, ds))
  <2>1. CASE w.opc = 3 /\ w.rd = 31
    <3>1. SameAs(x, Built(w, ip, c, <<"Tst">>, <<Gp(w.sf, w.rn), LogicalOp(mask.v)>>))
      BY <1>4, <2>1 DEF DecodeLogical, Alias, c, name, mask, ds
    <3>2. /\ x.code = c /\ x.mnem = <<"Tst">> /\ OpAt(x, 0) = Gp(w.sf, w.rn)
          /\ OpAt(x, 1) = LogicalOp(mask.v)
      BY <3>1, Shows2
    <3>3. IsRegAt(x, 0) /\ RegAt(x, 0) = w.rn BY <1>0, <3>2, RegBack
    <3>4. tst /\ ~mov /\ at = 1 BY <3>2 DEF tst, mov, at
    <3> QED BY <2>1, <3>2, <3>3, <3>4
  <2>2. CASE ~(w.opc = 3 /\ w.rd = 31) /\ w.opc = 1 /\ w.rn = 31
             /\ ~MoveWidePreferred(w.sf, w.n, w.imms, w.immr)
    <3>1. SameAs(x, Built(w, ip, c, <<"Mov">>, <<GpSp(w.sf, w.rd), SignedOp(SignExtended(mask.v, ds))>>))
      BY <1>4, <2>2 DEF DecodeLogical, Alias, c, name, mask, ds
    <3>2. /\ x.code = c /\ x.mnem = <<"Mov">> /\ OpAt(x, 0) = GpSp(w.sf, w.rd)
          /\ OpAt(x, 1) = SignedOp(SignExtended(mask.v, ds))
      BY <3>1, Shows2
    <3>3. IsRegAt(x, 0) /\ RegAt(x, 0) = w.rd BY <1>0, <3>2, RegBack
    <3>4. ~tst /\ mov /\ at = 1 BY <3>2 DEF tst, mov, at
    <3> QED BY <2>2, <3>2, <3>3, <3>4
  <2>3. CASE /\ ~(w.opc = 3 /\ w.rd = 31)
             /\ ~(w.opc = 1 /\ w.rn = 31 /\ ~MoveWidePreferred(w.sf, w.n, w.imms, w.immr))
    <3> DEFINE dst == IF w.opc = 3 THEN Gp(w.sf, w.rd) ELSE GpSp(w.sf, w.rd)
    <3>1. SameAs(x, Built(w, ip, c, MnemonicOf(c), <<dst, Gp(w.sf, w.rn), LogicalOp(mask.v)>>))
      BY <1>4, <2>3, Zenon DEF DecodeLogical, Plain, c, name, mask, ds
    <3>2. dst = Gp(w.sf, w.rd) \/ dst = GpSp(w.sf, w.rd) OBVIOUS
    <3> HIDE DEF dst
    <3>3. /\ x.code = c /\ x.mnem = MnemonicOf(c) /\ OpAt(x, 0) = dst
          /\ OpAt(x, 1) = Gp(w.sf, w.rn) /\ OpAt(x, 2) = LogicalOp(mask.v)
      BY <3>1, Shows3
    <3>4. IsRegAt(x, 0) /\ RegAt(x, 0) = w.rd /\ IsRegAt(x, 1) /\ RegAt(x, 1) = w.rn
      BY <1>0, <3>2, <3>3, RegBack
    <3>5. x.mnem = <<name>>
      <4>1. c[1] = name BY DEF c, CodeOf
      <4> QED BY <3>3, <4>1 DEF MnemonicOf
    <3>6. ~tst /\ ~mov /\ at = 2 BY <1>2, <3>5 DEF tst, mov, at
    <3> QED BY <3>3, <3>4, <3>6
  <2> QED BY <2>1, <2>2, <2>3
<1>9. Is64(x) = w.sf /\ x.code[1] = name
  <2>1. x.code = CodeOf(name, w.sf) BY <1>8 DEF c
  <2> QED BY <1>0, <2>1, WidthBack
<1>10. IsImmAt(x, at) /\ ValAt(x, at) \cap Ones(ds) = mask.v
  BY <1>7, <1>8 DEF IsImmAt, ValAt, LogicalOp, SignedOp, Op
<1>11. f = Some([n |-> w.n, immr |-> w.immr % ElementSize(w.n, w.imms), imms |-> w.imms])
  <2>1. f = EncodeBitMasks(mask.v, ds) BY <1>9, <1>10 DEF f, ds
  <2>2. DecodeBitMasks(n, imms, immr, ds).ok /\ (ds = WBits => n = 0) BY <1>4, <1>5, <1>f, <1>m
  <2>3. EncodeBitMasks(DecodeBitMasks(n, imms, immr, ds).v, ds)
          = Some([n |-> n, immr |-> immr % ElementSize(n, imms), imms |-> imms])
    <3>1. ds \in Widths BY <1>5
    <3>2. ds = WBits => n = 0 BY <2>2
    <3>3. DecodeBitMasks(n, imms, immr, ds).ok BY <2>2
    <3> QED BY <3>1, <3>2, <3>3, EncodeBitMasksBack, Zenon
  <2> QED BY <1>f, <1>m, <2>1, <2>3
<1>12. /\ f.ok /\ f.v.n = w.n /\ f.v.imms = w.imms
       /\ f.v.immr = w.immr % ElementSize(w.n, w.imms)
  BY <1>11 DEF Some
<1>13. shape BY <1>8, <1>10 DEF shape
<1>14. field.ok BY <1>12 DEF field
<1>15. back = LogicalNormal(w)
  <2>1. (IF tst THEN RegAt(x, 0) ELSE IF mov THEN 31 ELSE RegAt(x, 1)) = w.rn BY <1>8
  <2>2. (IF tst THEN 31 ELSE RegAt(x, 0)) = w.rd BY <1>8
  <2>3. Place(LogicalName, x.code[1]) = w.opc BY <1>1, <1>9
  <2> QED BY <1>w, <1>9, <1>12, <2>1, <2>2, <2>3 DEF back
<1>16. EncodeLogical(x) = Ok(LogicalNormal(w)) BY <1>3, <1>13, <1>14, <1>15 DEF With
<1> QED BY <1>1, <1>9, <1>16

(* factor_movz finds the lane and the immediate a value was made of, unless
   it is a shifted zero. *)
LEMMA FactorBack ==
  ASSUME NEW ds \in Widths, NEW hw \in 0..3, 16 * hw < ds, NEW imm16, imm16 \subseteq 0..15,
         imm16 = {} => hw = 0
  PROVE  /\ ToLane(imm16, hw) \subseteq 0..(ds - 1)
         /\ Factor(ToLane(imm16, hw), ds) = Some([imm |-> imm16, hw |-> hw])
<1> DEFINE v == ToLane(imm16, hw)
           lanes == {k \in 0..(ds \div Lane - 1) : v \subseteq LaneBits(k)}
<1>1. v = {i + hw * 16 : i \in imm16} BY WidthsAre DEF ToLane
<1>2. \A k \in 0..3 : LaneBits(k) = (16 * k)..(16 * k + 15) BY WidthsAre DEF LaneBits
<1>3. /\ ds = 32 \/ ds = 64
      /\ hw \in 0..(ds \div Lane - 1) /\ 0..(ds \div Lane - 1) \subseteq 0..3
  <2>1. ds = 32 \/ ds = 64 BY WidthsAre
  <2>2. 32 \div 16 = 2 /\ 64 \div 16 = 4 OBVIOUS
  <2>3. CASE ds = 32
    <3>1. ds \div Lane - 1 = 1 BY <2>2, <2>3, WidthsAre
    <3>2. hw \in 0..1 BY <2>3
    <3> QED BY <2>1, <3>1, <3>2
  <2>4. CASE ds = 64
    <3>1. ds \div Lane - 1 = 3 BY <2>2, <2>4, WidthsAre
    <3> QED BY <2>1, <3>1
  <2> QED BY <2>1, <2>3, <2>4
<1>4. \A i \in imm16 : i \in 0..15 /\ i + hw * 16 \in (16 * hw)..(16 * hw + 15) OBVIOUS
<1>5. v \subseteq LaneBits(hw) /\ v \subseteq 0..(ds - 1)
  <2>1. v \subseteq LaneBits(hw) BY <1>1, <1>2, <1>4
  <2>2. \A i \in imm16 : i + hw * 16 \in 0..(ds - 1)
    <3>1. (16 * hw) + 15 <= ds - 1 BY <1>3
    <3> QED BY <1>3, <1>4, <3>1
  <2> HIDE DEF v
  <2> QED BY <1>1, <2>1, <2>2
<1>6. hw \in lanes BY <1>3, <1>5
<1>7. lanes \subseteq 0..3 /\ lanes \subseteq Int BY <1>3
<1>8. Min(lanes) = hw
  <2>1. \A k \in lanes : hw <= k
    <3>1. CASE imm16 = {}
      <4>1. hw = 0 BY <3>1
      <4> QED BY <1>3, <4>1
    <3>2. CASE imm16 # {}
      <4>1. PICK i \in imm16 : TRUE BY <3>2
      <4>2. i + hw * 16 \in v /\ i \in 0..15 BY <1>1, <1>4, <4>1
      <4>3. ASSUME NEW k \in lanes PROVE hw <= k
        <5>1. k \in 0..3 /\ v \subseteq LaneBits(k) BY <1>7
        <5>2. i + hw * 16 \in (16 * k)..(16 * k + 15) BY <1>2, <4>2, <5>1
        <5> QED BY <4>2, <5>1, <5>2
      <4> QED BY <4>3
    <3> QED BY <3>1, <3>2
  <2> HIDE DEF lanes
  <2> QED BY <1>6, <1>7, <2>1, MinIs
<1>9. FromLane(v, hw) = imm16
  <2>1. FromLane(v, hw) = {i - hw * 16 : i \in v \cap LaneBits(hw)} BY WidthsAre DEF FromLane
  <2>2. v \cap LaneBits(hw) = v BY <1>5
  <2>3. FromLane(v, hw) = {i - hw * 16 : i \in v} BY <2>1, <2>2
  <2>4. \A i \in imm16 : (i + hw * 16) - hw * 16 = i BY <1>4
  <2>5. \A i \in imm16 : i \in FromLane(v, hw)
    <3> HIDE DEF v
    <3> QED BY <1>1, <2>3, <2>4
  <2>6. \A i \in FromLane(v, hw) : i \in imm16
    <3> HIDE DEF v
    <3> QED BY <1>1, <2>3, <2>4
  <2> QED BY <2>5, <2>6
<1>10. Factor(v, ds) = Some([imm |-> FromLane(v, Min(lanes)), hw |-> Min(lanes)])
  <2>1. lanes # {} BY <1>6
  <2> QED BY <2>1, Zenon DEF Factor
<1> HIDE DEF v, lanes
<1> QED BY <1>5, <1>8, <1>9, <1>10 DEF v

(* The wide moves: the immediate and its lane are read off the operand, or
   factored from the value the MOV alias shows. *)
LEMMA MoveWideBack ==
  ASSUME ValuesFit, NEW w \in MoveWideWord, NEW ip, NEW x, SameAs(x, DecodeMoveWide(w, ip)),
         x.code # <<"Invalid">>
  PROVE  EncodeMoveWide(x) = Ok(w) /\ x.code[1] \in {"Movn", "Movz", "Movk"}
<1> DEFINE ds   == DataSize(w.sf)
           name == MoveWideName[w.opc + 1]
           c    == CodeOf(name, w.sf)
           lane == ToLane(w.imm16, w.hw)
           val  == IF w.opc = 2 THEN lane ELSE Not(lane, ds)
           opc  == Place(MoveWideName, x.code[1])
           o    == OpAt(x, 1)
           f    == MoveWideField(x)
           shape == /\ IsRegAt(x, 0)
                    /\ \/ o.kind = "ImmShiftedMove"
                       \/ o.kind \in {"ImmSigned", "ImmUnsigned"} /\ opc # 3
           field == IF f.ok /\ ~(Is64(x) = 0 /\ (f.v.hw \div 2) % 2 = 1) THEN f ELSE BadImmediate
           back  == MoveWideFields(Is64(x), opc, f.v.hw, f.v.imm, RegAt(x, 0))
<1>0. w.sf \in Bit /\ w.opc \in 0..3 /\ w.hw \in 0..3 /\ w.imm16 \subseteq 0..15 /\ w.rd \in RegNum
  BY WidthsAre DEF MoveWideWord, Ones
<1>w. w = [class |-> "movewide", sf |-> w.sf, opc |-> w.opc, hw |-> w.hw, imm16 |-> w.imm16, rd |-> w.rd]
  BY DEF MoveWideWord
<1>1. Place(MoveWideName, name) = w.opc /\ Lists(MoveWideName, name)
  <2>1. w.opc \in Int /\ w.opc + 1 \in DOMAIN MoveWideName /\ Distinct(MoveWideName)
    BY <1>0, TablesAreDistinct
  <2> QED BY <2>1, PlaceBack, Zenon
<1>2. w.opc # 1 /\ ~(w.sf = 0 /\ w.hw >= 2) BY Zenon DEF SameAs, DecodeMoveWide, NewInvalid
<1>3. name \in {"Movn", "Movz", "Movk"}
  <2>1. w.opc = 0 \/ w.opc = 2 \/ w.opc = 3 BY <1>0, <1>2
  <2> QED BY <2>1 DEF MoveWideName
<1>4. EncodeMoveWide(x) = With(shape, field, back) BY Zenon DEF EncodeMoveWide
<1>5. ds \in Widths /\ 16 * w.hw < ds
  <2>1. w.sf = 0 \/ w.sf = 1 BY <1>0 DEF Bit
  <2>2. PICK hw \in 0..3 : hw = w.hw BY <1>0
  <2>3. w.sf = 0 => hw < 2 BY <1>2, <2>2
  <2> QED BY <2>1, <2>2, <2>3, WidthsAre
<1> HIDE DEF ds, name, c, lane, val, opc, o, f, shape, field, back
<1>6. /\ x.code = c /\ OpAt(x, 0) = Gp(w.sf, w.rd)
      /\ \/ o = ShiftedOp(w.imm16, w.hw * Lane)
         \/ o = SignedOp(SignExtended(val, ds)) /\ IsMovAlias(w.sf, w.opc, w.hw, w.imm16)
  <2>1. CASE IsMovAlias(w.sf, w.opc, w.hw, w.imm16)
    <3>1. SameAs(x, Built(w, ip, c, <<"Mov">>, <<Gp(w.sf, w.rd), SignedOp(SignExtended(val, ds))>>))
      BY <1>2, <2>1, Zenon DEF DecodeMoveWide, Alias, c, name, val, lane, ds
    <3> QED BY <2>1, <3>1, Shows2 DEF o
  <2>2. CASE ~IsMovAlias(w.sf, w.opc, w.hw, w.imm16)
    <3>1. SameAs(x, Built(w, ip, c, MnemonicOf(c), <<Gp(w.sf, w.rd), ShiftedOp(w.imm16, w.hw * Lane)>>))
      BY <1>2, <2>2, Zenon DEF DecodeMoveWide, Plain, c, name
    <3> QED BY <3>1, Shows2 DEF o
  <2> QED BY <2>1, <2>2
<1>7. IsRegAt(x, 0) /\ RegAt(x, 0) = w.rd BY <1>0, <1>6, RegBack
<1>8. Is64(x) = w.sf /\ x.code[1] = name
  <2>1. x.code = CodeOf(name, w.sf) BY <1>6 DEF c
  <2> QED BY <1>0, <2>1, WidthBack
<1>9. opc = w.opc BY <1>1, <1>8 DEF opc
<1>10. /\ f = Some([imm |-> w.imm16, hw |-> w.hw])
       /\ o.kind = "ImmShiftedMove" \/ (o.kind = "ImmSigned" /\ opc # 3)
  <2>1. CASE o = ShiftedOp(w.imm16, w.hw * Lane)
    <3>1. o.kind = "ImmShiftedMove" /\ o.val = w.imm16 /\ o.dec[1] = w.hw * Lane
      BY <2>1 DEF ShiftedOp, Op
    <3>2. (w.hw * Lane) \div Lane = w.hw BY <1>0, WidthsAre
    <3>3. f = Some([imm |-> o.val, hw |-> o.dec[1] \div Lane])
      <4>1. OpAt(x, 1).kind = "ImmShiftedMove" BY <3>1 DEF o
      <4> QED BY <4>1, Zenon DEF f, MoveWideField, o
    <3>4. o.dec[1] \div Lane = w.hw BY <3>1, <3>2
    <3>5. f = Some([imm |-> w.imm16, hw |-> w.hw]) BY <3>1, <3>3, <3>4
    <3> QED BY <3>1, <3>5
  <2>2. CASE o = SignedOp(SignExtended(val, ds)) /\ IsMovAlias(w.sf, w.opc, w.hw, w.imm16)
    <3>1. o.kind = "ImmSigned" /\ o.val = SignExtended(val, ds) BY <2>2 DEF SignedOp, Op
    <3>2. w.opc \in {0, 2} /\ (w.imm16 = {} => w.hw = 0) BY <2>2 DEF IsMovAlias
    <3>3. lane \subseteq 0..(ds - 1) /\ Factor(lane, ds) = Some([imm |-> w.imm16, hw |-> w.hw])
      <4>1. PICK hw \in 0..3 : hw = w.hw BY <1>0
      <4>2. 16 * hw < ds BY <1>5, <4>1
      <4>3. w.imm16 = {} => hw = 0 BY <3>2, <4>1
      <4>4. ds \in Widths BY <1>5
      <4>5. w.imm16 \subseteq 0..15 BY <1>0
      <4>6. /\ ToLane(w.imm16, hw) \subseteq 0..(ds - 1)
            /\ Factor(ToLane(w.imm16, hw), ds) = Some([imm |-> w.imm16, hw |-> hw])
        BY <4>2, <4>3, <4>4, <4>5, FactorBack, Zenon
      <4> QED BY <4>1, <4>6 DEF lane
    <3>4. (IF opc = 2 THEN o.val \cap Ones(ds) ELSE Not(o.val, ds)) = lane
      <4>1. CASE w.opc = 2
        <5>1. val = lane BY <4>1 DEF val
        <5>2. o.val \cap Ones(ds) = lane BY <1>5, <3>1, <3>3, <5>1, WithinWidth
        <5> QED BY <1>9, <4>1, <5>2
      <4>2. CASE w.opc # 2
        <5>1. val = Not(lane, ds) BY <4>2 DEF val
        <5>2. val \subseteq 0..(ds - 1) /\ Not(val, ds) = lane BY <1>5, <3>3, <5>1, WithinWidth
        <5>3. Not(o.val, ds) = lane BY <1>5, <3>1, <5>2, WithinWidth
        <5> QED BY <1>9, <4>2, <5>3
      <4> QED BY <4>1, <4>2
    <3>5. f = Factor(IF opc = 2 THEN o.val \cap Ones(ds) ELSE Not(o.val, ds), ds)
      BY <1>8, <3>1 DEF f, MoveWideField, o, opc, ds
    <3>6. opc # 3 BY <1>9, <3>2
    <3> QED BY <3>1, <3>3, <3>4, <3>5, <3>6
  <2> QED BY <1>6, <2>1, <2>2
<1>11. f.ok /\ f.v.imm = w.imm16 /\ f.v.hw = w.hw BY <1>10 DEF Some
<1>12. field.ok
  <2>1. PICK hw \in 0..3 : hw = w.hw BY <1>0
  <2>2. w.sf = 0 => ~(hw >= 2) BY <1>2, <2>1
  <2>3. ~(hw >= 2) => (hw \div 2) % 2 = 0 OBVIOUS
  <2>4. ~(Is64(x) = 0 /\ (f.v.hw \div 2) % 2 = 1) BY <1>8, <1>11, <2>1, <2>2, <2>3
  <2> QED BY <1>11, <2>4 DEF field
<1>13. shape BY <1>7, <1>10 DEF shape
<1>14. back = w
  <2>1. PICK hw \in 0..3 : hw = w.hw BY <1>0
  <2>2. hw < 8 /\ hw % 4 = hw OBVIOUS
  <2>3. back = MoveWideFields(w.sf, w.opc, hw, w.imm16, w.rd) BY <1>7, <1>8, <1>9, <1>11, <2>1 DEF back
  <2>4. back = [class |-> "movewide", sf |-> w.sf, opc |-> w.opc, hw |-> hw, imm16 |-> w.imm16, rd |-> w.rd]
    BY <2>2, <2>3 DEF MoveWideFields
  <2> QED BY <1>w, <2>1, <2>4
<1>15. EncodeMoveWide(x) = Ok(w) BY <1>4, <1>12, <1>13, <1>14 DEF With
<1> QED BY <1>3, <1>8, <1>15

(* Adding and taking away a field of a register, in the u32 of the code. *)
LEMMA InsertedBack ==
  ASSUME ValuesFit, NEW ds \in Widths, NEW immr \in 0..63, NEW imms \in 0..63,
         immr < ds, imms < immr
  PROVE  /\ (ds - immr) % ds \in 0..63 /\ imms + 1 \in 0..64
         /\ Inserted(ds, (ds - immr) % ds, imms + 1) = Ok(<<immr, imms>>)
<1>1. ds \in {32, 64} BY WidthsAre
<1>2. (ds - immr) % ds = ds - immr BY <1>1
<1>3. ds - (ds - immr) = immr /\ immr % ds = immr /\ (imms + 1) - 1 = imms /\ imms + 1 # 0 BY <1>1
<1>4. immr \in 0..(U32 - 1) /\ immr % U32 = immr BY DpImmAssumption DEF ValuesFit
<1>5. Checked(ds - (ds - immr)) = Ok(immr) BY <1>3, <1>4 DEF Checked
<1>6. Checked(ds - (ds - immr)).ok /\ Checked(ds - (ds - immr)).v = immr BY <1>5 DEF Ok
<1>7. Inserted(ds, ds - immr, imms + 1) = Ok(<<immr, imms>>) BY <1>3, <1>6 DEF Inserted
<1> QED BY <1>1, <1>2, <1>7

LEMMA TakenBack ==
  ASSUME ValuesFit, NEW immr \in 0..63, NEW imms \in 0..63, immr <= imms
  PROVE  imms - immr + 1 \in 0..64 /\ Taken(immr, imms - immr + 1) = Ok(<<immr, imms>>)
<1>1. immr + (imms - immr + 1) = imms + 1 /\ imms - immr + 1 # 0 /\ (imms + 1) - 1 = imms OBVIOUS
<1>2. imms + 1 \in 0..(U32 - 1) /\ (imms + 1) % U32 = imms + 1 /\ imms % U32 = imms
  BY DpImmAssumption DEF ValuesFit
<1>3. Checked(immr + (imms - immr + 1)) = Ok(imms + 1) BY <1>1, <1>2 DEF Checked
<1>4. /\ Checked(immr + (imms - immr + 1)).ok
      /\ Checked(immr + (imms - immr + 1)).v = imms + 1
  BY <1>3 DEF Ok
<1>5. Taken(immr, imms - immr + 1) = Ok(<<immr, imms>>) BY <1>1, <1>2, <1>4 DEF Taken
<1> QED BY <1>5

(* A list of operands in two parts. *)
LEMMA TupleOf ==
  ASSUME NEW S, NEW s \in Seq(S)
  PROVE  /\ Len(s) = 2 => s = <<s[1], s[2]>>
         /\ Len(s) = 3 => s = <<s[1], s[2], s[3]>>
         /\ Len(s) = 4 => s = <<s[1], s[2], s[3], s[4]>>
OBVIOUS

LEMMA Joined ==
  ASSUME NEW a, NEW b, NEW c
  PROVE  <<a>> \o <<b>> = <<a, b>> /\ <<a>> \o <<b, c>> = <<a, b, c>>
<1> DEFINE S == {a, b, c}
           s == <<a>>
           t == <<b>>
           u == <<b, c>>
<1>1. s \in Seq(S) /\ t \in Seq(S) /\ u \in Seq(S) /\ Len(s) = 1 /\ Len(t) = 1 /\ Len(u) = 2 OBVIOUS
<1>2. /\ (s \o t)[1] = a /\ (s \o t)[2] = b
      /\ (s \o u)[1] = a /\ (s \o u)[2] = b /\ (s \o u)[3] = c
  BY <1>1
<1> HIDE DEF s, t, u, S
<1>3. s \o t \in Seq(S) /\ Len(s \o t) = Len(s) + Len(t) BY <1>1, ConcatProperties
<1>4. s \o u \in Seq(S) /\ Len(s \o u) = Len(s) + Len(u) BY <1>1, ConcatProperties
<1>5. Len(s \o t) = 2 /\ Len(s \o u) = 3 BY <1>1, <1>3, <1>4
<1>6. s \o t = <<(s \o t)[1], (s \o t)[2]>> BY <1>3, <1>5, TupleOf
<1>7. s \o u = <<(s \o u)[1], (s \o u)[2], (s \o u)[3]>> BY <1>4, <1>5, TupleOf
<1>8. s \o t = <<a, b>> BY <1>2, <1>6, Zenon
<1>9. s \o u = <<a, b, c>> BY <1>2, <1>7, Zenon
<1> QED BY <1>8, <1>9 DEF s, t, u

LEMMA Joined4 ==
  ASSUME NEW a, NEW b, NEW c, NEW d
  PROVE  <<a>> \o <<b, c, d>> = <<a, b, c, d>>
<1> DEFINE S == {a, b, c, d}
           s == <<a>>
           v == <<b, c, d>>
<1>1. s \in Seq(S) /\ v \in Seq(S) /\ Len(s) = 1 /\ Len(v) = 3 OBVIOUS
<1>2. (s \o v)[1] = a /\ (s \o v)[2] = b /\ (s \o v)[3] = c /\ (s \o v)[4] = d BY <1>1
<1> HIDE DEF s, v, S
<1>3. s \o v \in Seq(S) /\ Len(s \o v) = Len(s) + Len(v) BY <1>1, ConcatProperties
<1>4. Len(s \o v) = 4 BY <1>1, <1>3
<1>5. s \o v = <<(s \o v)[1], (s \o v)[2], (s \o v)[3], (s \o v)[4]>> BY <1>3, <1>4, TupleOf
<1>6. s \o v = <<a, b, c, d>> BY <1>2, <1>5, Zenon
<1> QED BY <1>6 DEF s, v

LEMMA Appended3 ==
  ASSUME NEW a, NEW b, NEW c, NEW d
  PROVE  Append(<<a, b, c>>, d) = <<a, b, c, d>>
<1> DEFINE S == {a, b, c, d}
           s == <<a, b, c>>
           u == Append(s, d)
<1>1. s \in Seq(S) /\ d \in S /\ Len(s) = 3 /\ s[1] = a /\ s[2] = b /\ s[3] = c OBVIOUS
<1> HIDE DEF s, S
<1>2. /\ u \in Seq(S) /\ Len(u) = Len(s) + 1
      /\ \A i \in 1..Len(s) : u[i] = s[i]
      /\ u[Len(s) + 1] = d
  <2>1. s \in Seq(S) BY <1>1
  <2>2. d \in S BY <1>1
  <2> QED BY <2>1, <2>2, AppendProperties
<1> HIDE DEF u
<1>3. Len(u) = 4 /\ u[1] = a /\ u[2] = b /\ u[3] = c /\ u[4] = d BY <1>1, <1>2
<1>4. u = <<u[1], u[2], u[3], u[4]>> BY <1>2, <1>3, TupleOf
<1>5. u = <<a, b, c, d>> BY <1>3, <1>4, Zenon
<1> QED BY <1>5 DEF u, s

(* The preferred alias of a bitfield move, by what it leaves to be told. *)
BitfieldShape(a, name, sf, immr, imms, rn) ==
  LET ds  == DataSize(sf)
      src == Gp(sf, rn)
  IN  \/ \E m \in {"Sxtb", "Uxtb", "Sxth", "Uxth", "Sxtw"} :
           /\ a = <<m, <<Gp(0, rn)>>>> /\ immr = 0
           /\ imms = IF m \in {"Sxtb", "Uxtb"} THEN 7 ELSE IF m = "Sxtw" THEN 31 ELSE 15
      \/ /\ a = <<"Lsl", <<src, ImmOp((ds - 1) - imms)>>>> /\ imms # ds - 1 /\ imms + 1 = immr
      \/ \E m \in {"Asr", "Lsr"} : a = <<m, <<src, ImmOp(immr)>>>> /\ imms = ds - 1
      \/ /\ a = <<"Bfc", <<ImmOp((ds - immr) % ds), ImmOp(imms + 1)>>>> /\ imms < immr /\ rn = 31
      \/ \E m \in {"Sbfiz", "Bfi", "Ubfiz"} :
           a = <<m, <<src, ImmOp((ds - immr) % ds), ImmOp(imms + 1)>>>> /\ imms < immr
      \/ \E m \in {"Sbfx", "Bfxil", "Ubfx"} :
           a = <<m, <<src, ImmOp(immr), ImmOp(imms - immr + 1)>>>> /\ ~(imms < immr)

LEMMA BitfieldShapes ==
  ASSUME NEW name \in {"Sbfm", "Bfm", "Ubfm"}, NEW sf \in Bit, NEW immr \in 0..63, NEW imms \in 0..63,
         NEW rn
  PROVE  BitfieldShape(BitfieldAlias(name, sf, immr, imms, rn), name, sf, immr, imms, rn)
<1> DEFINE ds  == DataSize(sf)
           src == Gp(sf, rn)
           a   == BitfieldAlias(name, sf, immr, imms, rn)
           ext == IF immr = 0 THEN ExtendOf(name, ds, imms) ELSE <<>>
           insert == <<ImmOp((ds - immr) % ds), ImmOp(imms + 1)>>
           take   == <<src, ImmOp(immr), ImmOp(imms - immr + 1)>>
           iz == CASE name = "Sbfm" -> "Sbfiz" [] name = "Bfm" -> "Bfi" [] OTHER -> "Ubfiz"
           fx == CASE name = "Sbfm" -> "Sbfx" [] name = "Bfm" -> "Bfxil" [] OTHER -> "Ubfx"
<1>1. a = IF ext # <<>> THEN <<ext[1], <<Gp(0, rn)>>>>
          ELSE IF name = "Ubfm" /\ imms # ds - 1 /\ imms + 1 = immr
               THEN <<"Lsl", <<src, ImmOp((ds - 1) - imms)>>>>
          ELSE IF name \in {"Sbfm", "Ubfm"} /\ imms = ds - 1
               THEN <<IF name = "Sbfm" THEN "Asr" ELSE "Lsr", <<src, ImmOp(immr)>>>>
          ELSE IF name = "Bfm" /\ imms < immr /\ rn = 31 THEN <<"Bfc", insert>>
          ELSE IF imms < immr THEN <<iz, <<src>> \o insert>>
          ELSE <<fx, take>>
  BY Zenon DEF BitfieldAlias
<1>2. iz \in {"Sbfiz", "Bfi", "Ubfiz"} /\ fx \in {"Sbfx", "Bfxil", "Ubfx"} OBVIOUS
<1>3. ext = <<>> \/ \E m \in {"Sxtb", "Uxtb", "Sxth", "Uxth", "Sxtw"} :
        /\ ext = <<m>> /\ immr = 0
        /\ imms = IF m \in {"Sxtb", "Uxtb"} THEN 7 ELSE IF m = "Sxtw" THEN 31 ELSE 15
  <2> HIDE DEF ds
  <2> QED BY DEF ExtendOf
<1>4. <<src>> \o insert = <<src, ImmOp((ds - immr) % ds), ImmOp(imms + 1)>>
  <2> DEFINE p == ImmOp((ds - immr) % ds)
             q == ImmOp(imms + 1)
  <2> HIDE DEF p, q, src
  <2>1. <<src>> \o <<p, q>> = <<src, p, q>> BY Joined
  <2> QED BY <2>1, Zenon DEF p, q
<1> HIDE DEF a, ext, iz, fx
<1>5. CASE ext # <<>>
  <2>1. PICK m \in {"Sxtb", "Uxtb", "Sxth", "Uxth", "Sxtw"} :
          /\ ext = <<m>> /\ immr = 0
          /\ imms = IF m \in {"Sxtb", "Uxtb"} THEN 7 ELSE IF m = "Sxtw" THEN 31 ELSE 15
    BY <1>3, <1>5
  <2>2. a = <<ext[1], <<Gp(0, rn)>>>> BY <1>1, <1>5
  <2>3. ext[1] = m BY <2>1
  <2>4. a = <<m, <<Gp(0, rn)>>>> BY <2>2, <2>3
  <2> QED BY <2>1, <2>4, Zenon DEF BitfieldShape, a
<1>6. CASE ext = <<>> /\ name = "Ubfm" /\ imms # ds - 1 /\ imms + 1 = immr
  <2>1. a = <<"Lsl", <<src, ImmOp((ds - 1) - imms)>>>> BY <1>1, <1>6, Zenon
  <2> QED BY <1>6, <2>1, Zenon DEF BitfieldShape, a
<1>7. CASE /\ ext = <<>> /\ ~(name = "Ubfm" /\ imms # ds - 1 /\ imms + 1 = immr)
           /\ name \in {"Sbfm", "Ubfm"} /\ imms = ds - 1
  <2> DEFINE m == IF name = "Sbfm" THEN "Asr" ELSE "Lsr"
  <2>1. a = <<m, <<src, ImmOp(immr)>>>> BY <1>1, <1>7, Zenon
  <2>2. m \in {"Asr", "Lsr"} OBVIOUS
  <2> HIDE DEF m
  <2> QED BY <1>7, <2>1, <2>2, Zenon DEF BitfieldShape, a
<1>8. CASE /\ ext = <<>> /\ ~(name = "Ubfm" /\ imms # ds - 1 /\ imms + 1 = immr)
           /\ ~(name \in {"Sbfm", "Ubfm"} /\ imms = ds - 1)
           /\ name = "Bfm" /\ imms < immr /\ rn = 31
  <2>1. a = <<"Bfc", insert>> BY <1>1, <1>8, Zenon
  <2> QED BY <1>8, <2>1, Zenon DEF BitfieldShape, a
<1>9. CASE /\ ext = <<>> /\ ~(name = "Ubfm" /\ imms # ds - 1 /\ imms + 1 = immr)
           /\ ~(name \in {"Sbfm", "Ubfm"} /\ imms = ds - 1)
           /\ ~(name = "Bfm" /\ imms < immr /\ rn = 31) /\ imms < immr
  <2>1. a = <<iz, <<src>> \o insert>> BY <1>1, <1>9, Zenon
  <2> QED BY <1>2, <1>4, <1>9, <2>1, Zenon DEF BitfieldShape, a
<1>10. CASE /\ ext = <<>> /\ ~(name = "Ubfm" /\ imms # ds - 1 /\ imms + 1 = immr)
            /\ ~(name \in {"Sbfm", "Ubfm"} /\ imms = ds - 1)
            /\ ~(name = "Bfm" /\ imms < immr /\ rn = 31) /\ ~(imms < immr)
  <2>1. a = <<fx, take>> BY <1>1, <1>10, Zenon
  <2> QED BY <1>2, <1>10, <2>1, Zenon DEF BitfieldShape, a
<1> QED BY <1>5, <1>6, <1>7, <1>8, <1>9, <1>10, Zenon DEF a

(* The fields an alias stands for, by its mnemonic. *)
LEMMA AliasFields ==
  ASSUME NEW x, NEW ds, NEW m, x.mnem = <<m>>
  PROVE  LET a == Imm32(x, 2)
             b == Imm32(x, 3)
         IN  /\ m \in {"Sxtb", "Uxtb"} => BitfieldFields(x, ds) = Ok(<<0, 7>>)
             /\ m \in {"Sxth", "Uxth"} => BitfieldFields(x, ds) = Ok(<<0, 15>>)
             /\ m = "Sxtw" => BitfieldFields(x, ds) = Ok(<<0, 31>>)
             /\ m \in {"Asr", "Lsr"} => BitfieldFields(x, ds) = Ok(<<a, ds - 1>>)
             /\ m = "Lsl" => BitfieldFields(x, ds) = IF a > ds - 1 THEN BadImmediate
                                                     ELSE Ok(<<(ds - a) % ds, (ds - 1) - a>>)
             /\ m \in {"Sbfiz", "Ubfiz", "Bfi"} => BitfieldFields(x, ds) = Inserted(ds, a, b)
             /\ m \in {"Sbfx", "Ubfx", "Bfxil"} => BitfieldFields(x, ds) = Taken(a, b)
             /\ m = "Bfc" => BitfieldFields(x, ds) = Inserted(ds, Imm32(x, 1), a)
             /\ BitfieldImms(x.mnem[1])
                  = IF m \in {"Sxtb", "Uxtb", "Sxth", "Uxth", "Sxtw"} THEN {}
                    ELSE IF m \in {"Asr", "Lsr", "Lsl"} THEN {2}
                    ELSE IF m = "Bfc" THEN {1, 2} ELSE {2, 3}
<1> DEFINE a == Imm32(x, 2)
           b == Imm32(x, 3)
           c == Imm32(x, 1)
<1>1. x.mnem[1] = m OBVIOUS
<1>2. BitfieldFields(x, ds)
        = CASE m \in {"Sxtb", "Uxtb"} -> Ok(<<0, 7>>)
            [] m \in {"Sxth", "Uxth"} -> Ok(<<0, 15>>)
            [] m = "Sxtw" -> Ok(<<0, 31>>)
            [] m \in {"Asr", "Lsr"} -> Ok(<<a, ds - 1>>)
            [] m = "Lsl" -> IF a > ds - 1 THEN BadImmediate ELSE Ok(<<(ds - a) % ds, (ds - 1) - a>>)
            [] m \in {"Sbfiz", "Ubfiz", "Bfi"} -> Inserted(ds, a, b)
            [] m \in {"Sbfx", "Ubfx", "Bfxil"} -> Taken(a, b)
            [] m = "Bfc" -> Inserted(ds, c, a)
            [] OTHER -> Ok(<<a, b>>)
  BY <1>1, Zenon DEF BitfieldFields
<1>3. BitfieldImms(m) = CASE m \in {"Sxtb", "Uxtb", "Sxth", "Uxth", "Sxtw"} -> {}
                          [] m \in {"Asr", "Lsr", "Lsl"} -> {2}
                          [] m = "Bfc" -> {1, 2}
                          [] OTHER -> {2, 3}
  BY Zenon DEF BitfieldImms
<1> HIDE DEF a, b, c
<1>4. m \in {"Sxtb", "Uxtb"} => BitfieldFields(x, ds) = Ok(<<0, 7>>) BY <1>2
<1>5. m \in {"Sxth", "Uxth"} => BitfieldFields(x, ds) = Ok(<<0, 15>>) BY <1>2
<1>6. m = "Sxtw" => BitfieldFields(x, ds) = Ok(<<0, 31>>) BY <1>2
<1>7. m \in {"Asr", "Lsr"} => BitfieldFields(x, ds) = Ok(<<a, ds - 1>>) BY <1>2
<1>8. m = "Lsl" => BitfieldFields(x, ds) = IF a > ds - 1 THEN BadImmediate
                                           ELSE Ok(<<(ds - a) % ds, (ds - 1) - a>>)
  BY <1>2
<1>9. m \in {"Sbfiz", "Ubfiz", "Bfi"} => BitfieldFields(x, ds) = Inserted(ds, a, b) BY <1>2
<1>10. m \in {"Sbfx", "Ubfx", "Bfxil"} => BitfieldFields(x, ds) = Taken(a, b) BY <1>2
<1>11. m = "Bfc" => BitfieldFields(x, ds) = Inserted(ds, c, a) BY <1>2
<1>12. BitfieldImms(x.mnem[1])
         = IF m \in {"Sxtb", "Uxtb", "Sxth", "Uxth", "Sxtw"} THEN {}
           ELSE IF m \in {"Asr", "Lsr", "Lsl"} THEN {2}
           ELSE IF m = "Bfc" THEN {1, 2} ELSE {2, 3}
  BY <1>1, <1>3
<1> QED BY <1>4, <1>5, <1>6, <1>7, <1>8, <1>9, <1>10, <1>11, <1>12, Zenon DEF a, b, c

(* The operands of an instruction shown under an alias. *)
LEMMA ShowsAlias2 ==
  ASSUME ValuesFit, NEW x, NEW w, NEW ip, NEW c, NEW p, NEW al, NEW m, NEW q,
         SameAs(x, Built(w, ip, c, <<al[1]>>, <<p>> \o al[2])), al = <<m, <<q>>>>
  PROVE  x.mnem = <<m>> /\ OpAt(x, 0) = p /\ OpAt(x, 1) = q
<1>1. al[1] = m /\ al[2] = <<q>> OBVIOUS
<1>2. <<p>> \o <<q>> = <<p, q>> BY Joined, Zenon
<1>3. SameAs(x, Built(w, ip, c, <<m>>, <<p, q>>)) BY <1>1, <1>2, Zenon
<1> QED BY <1>3, Shows2

LEMMA ShowsAlias3 ==
  ASSUME ValuesFit, NEW x, NEW w, NEW ip, NEW c, NEW p, NEW al, NEW m, NEW q, NEW r,
         SameAs(x, Built(w, ip, c, <<al[1]>>, <<p>> \o al[2])), al = <<m, <<q, r>>>>
  PROVE  x.mnem = <<m>> /\ OpAt(x, 0) = p /\ OpAt(x, 1) = q /\ OpAt(x, 2) = r
<1>1. al[1] = m /\ al[2] = <<q, r>> OBVIOUS
<1>2. <<p>> \o <<q, r>> = <<p, q, r>> BY Joined, Zenon
<1>3. SameAs(x, Built(w, ip, c, <<m>>, <<p, q, r>>)) BY <1>1, <1>2, Zenon
<1> QED BY <1>3, Shows3

(* The bitfield moves: each alias leaves out what its mnemonic tells. *)
LEMMA BitfieldBack ==
  ASSUME ValuesFit, NEW w \in BitfieldWord, NEW ip, NEW x, SameAs(x, DecodeBitfield(w, ip)),
         x.code # <<"Invalid">>
  PROVE  EncodeBitfield(x) = Ok(w) /\ Lists(BitfieldName, x.code[1])
<1> DEFINE ds   == DataSize(w.sf)
           name == BitfieldName[w.opc + 1]
           c    == CodeOf(name, w.sf)
           al   == BitfieldAlias(name, w.sf, w.immr, w.imms, w.rn)
           f    == BitfieldFields(x, DataSize(Is64(x)))
           bfc  == x.mnem = <<"Bfc">>
           shape == /\ IsRegAt(x, 0) /\ (bfc \/ IsRegAt(x, 1))
                    /\ \A n \in BitfieldImms(x.mnem[1]) : IsImmAt(x, n)
           field == IF f.ok /\ (f.v[1] >= DataSize(Is64(x)) \/ f.v[2] >= DataSize(Is64(x)))
                    THEN BadImmediate ELSE f
           back == [class |-> "bitfield", sf |-> Is64(x), opc |-> Place(BitfieldName, x.code[1]),
                    n |-> Is64(x), immr |-> f.v[1], imms |-> f.v[2],
                    rn |-> IF bfc THEN 31 ELSE RegAt(x, 1), rd |-> RegAt(x, 0)]
<1>0. /\ w.sf \in Bit /\ w.opc \in 0..3 /\ w.imms \in 0..63 /\ w.immr \in 0..63
      /\ w.rn \in RegNum /\ w.rd \in RegNum
  BY WidthsAre DEF BitfieldWord
<1>w. w = [class |-> "bitfield", sf |-> w.sf, opc |-> w.opc, n |-> w.n, immr |-> w.immr, imms |-> w.imms,
           rn |-> w.rn, rd |-> w.rd]
  BY DEF BitfieldWord
<1>1. EncodeBitfield(x) = With(shape, field, back) BY Zenon DEF EncodeBitfield
<1>2. w.opc # 3 /\ w.n = w.sf /\ ~(w.sf = 0 /\ (w.immr >= WBits \/ w.imms >= WBits))
  BY Zenon DEF SameAs, DecodeBitfield, NewInvalid
<1>3. Place(BitfieldName, name) = w.opc /\ Lists(BitfieldName, name)
  <2>1. w.opc \in 0..2 BY <1>0, <1>2
  <2>2. w.opc \in Int /\ w.opc + 1 \in DOMAIN BitfieldName /\ Distinct(BitfieldName)
    BY <2>1, TablesAreDistinct
  <2> QED BY <2>2, PlaceBack, Zenon
<1>4. name \in {"Sbfm", "Bfm", "Ubfm"} BY <1>3, TableNames
<1>5. SameAs(x, Built(w, ip, c, <<al[1]>>, <<Gp(w.sf, w.rd)>> \o al[2]))
  BY <1>2, Zenon DEF DecodeBitfield, Alias
<1>f. PICK immr \in 0..63, imms \in 0..63 : w.immr = immr /\ w.imms = imms BY <1>0
<1>6. ds \in Widths /\ immr < ds /\ imms < ds
  <2>1. w.sf = 0 \/ w.sf = 1 BY <1>0 DEF Bit
  <2>2. w.sf = 0 => ~(immr >= WBits) /\ ~(imms >= WBits) BY <1>2, <1>f
  <2> QED BY <2>1, <2>2, WidthsAre
<1>7. BitfieldShape(al, name, w.sf, immr, imms, w.rn)
  <2>1. BitfieldShape(BitfieldAlias(name, w.sf, immr, imms, w.rn), name, w.sf, immr, imms, w.rn)
    <3> HIDE DEF name
    <3>1. w.sf \in Bit BY <1>0
    <3> QED BY <1>4, <3>1, BitfieldShapes, Zenon
  <2> QED BY <1>f, <2>1, Zenon
<1> HIDE DEF name, c, al, ds
<1>8. x.code = c BY <1>5 DEF SameAs, Built, NewInvalid
<1>9. Is64(x) = w.sf /\ x.code[1] = name
  <2>1. x.code = CodeOf(name, w.sf) BY <1>8 DEF c
  <2> QED BY <1>0, <2>1, WidthBack
<1> HIDE DEF f, bfc, shape, field, back
<1>10. f = BitfieldFields(x, ds) BY <1>9 DEF f, ds
<1> DEFINE Told ==
             /\ f = Ok(<<immr, imms>>) /\ \A n \in BitfieldImms(x.mnem[1]) : IsImmAt(x, n)
             /\ OpAt(x, 0) = Gp(w.sf, w.rd)
             /\ IF bfc THEN w.rn = 31 ELSE IsRegAt(x, 1) /\ RegAt(x, 1) = w.rn
<1>11. Told
  <2> DEFINE src == Gp(w.sf, w.rn)
             lsb == ImmOp((ds - immr) % ds)
             wid == ImmOp(imms + 1)
  <2>1. ASSUME NEW m \in {"Sxtb", "Uxtb", "Sxth", "Uxth", "Sxtw"}, al = <<m, <<Gp(0, w.rn)>>>>, immr = 0,
               imms = IF m \in {"Sxtb", "Uxtb"} THEN 7 ELSE IF m = "Sxtw" THEN 31 ELSE 15
        PROVE  Told
    <3>1. x.mnem = <<m>> /\ OpAt(x, 0) = Gp(w.sf, w.rd) /\ OpAt(x, 1) = Gp(0, w.rn)
      BY <1>5, <2>1, ShowsAlias2
    <3>2. IsRegAt(x, 1) /\ RegAt(x, 1) = w.rn BY <1>0, <3>1, RegBack
    <3>3. ~bfc BY <3>1 DEF bfc
    <3>4. f = Ok(<<immr, imms>>) BY <1>10, <2>1, <3>1, AliasFields
    <3>5. BitfieldImms(x.mnem[1]) = {} BY <3>1, AliasFields
    <3> QED BY <3>1, <3>2, <3>3, <3>4, <3>5
  <2>2. ASSUME al = <<"Lsl", <<src, ImmOp((ds - 1) - imms)>>>>, imms # ds - 1, imms + 1 = immr
        PROVE  Told
    <3> DEFINE q == ImmOp((ds - 1) - imms)
    <3>1. x.mnem = <<"Lsl">> /\ OpAt(x, 0) = Gp(w.sf, w.rd) /\ OpAt(x, 1) = src /\ OpAt(x, 2) = q
      BY <1>5, <2>2, ShowsAlias3
    <3>2. IsRegAt(x, 1) /\ RegAt(x, 1) = w.rn BY <1>0, <3>1, RegBack
    <3>3. ~bfc BY <3>1 DEF bfc
    <3>4. IsImmAt(x, 2) /\ ValAt(x, 2) = (ds - 1) - imms BY <3>1, ImmBack
    <3>5. ((ds - 1) - imms) % U32 = (ds - 1) - imms BY <1>6, WidthsAre, DpImmAssumption DEF ValuesFit
    <3>6. Imm32(x, 2) = (ds - 1) - imms BY <3>4, <3>5 DEF Imm32
    <3>7. f = Ok(<<immr, imms>>)
      <4>1. ~((ds - 1) - imms > ds - 1) /\ (ds - 1) - ((ds - 1) - imms) = imms BY <1>6, WidthsAre
      <4>2. (ds - ((ds - 1) - imms)) % ds = immr
        <5>1. ds - ((ds - 1) - imms) = immr BY <1>6, <2>2, WidthsAre
        <5>2. immr % ds = immr BY <1>6, WidthsAre
        <5> QED BY <5>1, <5>2
      <4>3. BitfieldFields(x, ds) = IF Imm32(x, 2) > ds - 1 THEN BadImmediate
                                    ELSE Ok(<<(ds - Imm32(x, 2)) % ds, (ds - 1) - Imm32(x, 2)>>)
        BY <3>1, AliasFields
      <4> QED BY <1>10, <3>6, <4>1, <4>2, <4>3
    <3>8. BitfieldImms(x.mnem[1]) = {2} BY <3>1, AliasFields
    <3> QED BY <3>1, <3>2, <3>3, <3>4, <3>7, <3>8
  <2>3. ASSUME NEW m \in {"Asr", "Lsr"}, al = <<m, <<src, ImmOp(immr)>>>>, imms = ds - 1
        PROVE  Told
    <3>1. x.mnem = <<m>> /\ OpAt(x, 0) = Gp(w.sf, w.rd) /\ OpAt(x, 1) = src /\ OpAt(x, 2) = ImmOp(immr)
      BY <1>5, <2>3, ShowsAlias3
    <3>2. IsRegAt(x, 1) /\ RegAt(x, 1) = w.rn BY <1>0, <3>1, RegBack
    <3>3. ~bfc BY <3>1 DEF bfc
    <3>4. IsImmAt(x, 2) /\ ValAt(x, 2) = immr BY <3>1, ImmBack
    <3>5. immr % U32 = immr BY DpImmAssumption DEF ValuesFit
    <3>6. Imm32(x, 2) = immr BY <3>4, <3>5 DEF Imm32
    <3>7. BitfieldFields(x, ds) = Ok(<<Imm32(x, 2), ds - 1>>) BY <3>1, AliasFields
    <3>8. f = Ok(<<immr, imms>>) BY <1>10, <2>3, <3>6, <3>7
    <3>9. BitfieldImms(x.mnem[1]) = {2} BY <3>1, AliasFields
    <3> QED BY <3>1, <3>2, <3>3, <3>4, <3>8, <3>9
  <2>4. ASSUME al = <<"Bfc", <<lsb, wid>>>>, imms < immr, w.rn = 31
        PROVE  Told
    <3>1. x.mnem = <<"Bfc">> /\ OpAt(x, 0) = Gp(w.sf, w.rd) /\ OpAt(x, 1) = lsb /\ OpAt(x, 2) = wid
      BY <1>5, <2>4, ShowsAlias3
    <3>2. bfc BY <3>1 DEF bfc
    <3>3. IsImmAt(x, 1) /\ ValAt(x, 1) = (ds - immr) % ds /\ IsImmAt(x, 2) /\ ValAt(x, 2) = imms + 1
      BY <3>1, ImmBack
    <3>4. /\ (ds - immr) % ds \in 0..63 /\ imms + 1 \in 0..64
          /\ Inserted(ds, (ds - immr) % ds, imms + 1) = Ok(<<immr, imms>>)
      BY <1>6, <2>4, InsertedBack
    <3>5. \A n \in 0..64 : n % U32 = n BY DpImmAssumption DEF ValuesFit
    <3>6. ((ds - immr) % ds) % U32 = (ds - immr) % ds /\ (imms + 1) % U32 = imms + 1 BY <3>4, <3>5
    <3>7. Imm32(x, 1) = (ds - immr) % ds /\ Imm32(x, 2) = imms + 1 BY <3>3, <3>6 DEF Imm32
    <3>8. BitfieldFields(x, ds) = Inserted(ds, Imm32(x, 1), Imm32(x, 2)) BY <3>1, AliasFields
    <3>9. f = Ok(<<immr, imms>>) BY <1>10, <3>4, <3>7, <3>8
    <3>10. BitfieldImms(x.mnem[1]) = {1, 2} BY <3>1, AliasFields
    <3> QED BY <2>4, <3>1, <3>2, <3>3, <3>9, <3>10
  <2>5. ASSUME NEW m \in {"Sbfiz", "Bfi", "Ubfiz"}, al = <<m, <<src, lsb, wid>>>>, imms < immr
        PROVE  Told
    <3>1. /\ x.mnem = <<m>> /\ OpAt(x, 0) = Gp(w.sf, w.rd) /\ OpAt(x, 1) = src
          /\ OpAt(x, 2) = lsb /\ OpAt(x, 3) = wid
      <4> HIDE DEF src, lsb, wid
      <4>1. SameAs(x, Built(w, ip, c, <<al[1]>>, <<Gp(w.sf, w.rd)>> \o al[2])) BY <1>5
      <4>2. al[1] = m /\ al[2] = <<src, lsb, wid>> BY <2>5
      <4>3. <<Gp(w.sf, w.rd)>> \o <<src, lsb, wid>>
              = <<Gp(w.sf, w.rd), src, lsb, wid>>
        BY Joined4
      <4>4. SameAs(x, Built(w, ip, c, <<m>>, <<Gp(w.sf, w.rd), src, lsb, wid>>))
        BY <4>1, <4>2, <4>3, Zenon
      <4> QED BY <4>4, Shows4
    <3>2. IsRegAt(x, 1) /\ RegAt(x, 1) = w.rn BY <1>0, <3>1, RegBack
    <3>r. ~bfc BY <3>1 DEF bfc
    <3>3. IsImmAt(x, 2) /\ ValAt(x, 2) = (ds - immr) % ds /\ IsImmAt(x, 3) /\ ValAt(x, 3) = imms + 1
      BY <3>1, ImmBack
    <3>4. /\ (ds - immr) % ds \in 0..63 /\ imms + 1 \in 0..64
          /\ Inserted(ds, (ds - immr) % ds, imms + 1) = Ok(<<immr, imms>>)
      BY <1>6, <2>5, InsertedBack
    <3>5. \A n \in 0..64 : n % U32 = n BY DpImmAssumption DEF ValuesFit
    <3>6. ((ds - immr) % ds) % U32 = (ds - immr) % ds /\ (imms + 1) % U32 = imms + 1 BY <3>4, <3>5
    <3>7. Imm32(x, 2) = (ds - immr) % ds /\ Imm32(x, 3) = imms + 1 BY <3>3, <3>6 DEF Imm32
    <3>8. BitfieldFields(x, ds) = Inserted(ds, Imm32(x, 2), Imm32(x, 3)) BY <3>1, AliasFields
    <3>9. f = Ok(<<immr, imms>>) BY <1>10, <3>4, <3>7, <3>8
    <3>10. BitfieldImms(x.mnem[1]) = {2, 3} BY <3>1, AliasFields
    <3> QED BY <3>1, <3>2, <3>3, <3>9, <3>10, <3>r
  <2>6. ASSUME NEW m \in {"Sbfx", "Bfxil", "Ubfx"}, al = <<m, <<src, ImmOp(immr), ImmOp(imms - immr + 1)>>>>,
               ~(imms < immr)
        PROVE  Told
    <3>1. /\ x.mnem = <<m>> /\ OpAt(x, 0) = Gp(w.sf, w.rd) /\ OpAt(x, 1) = src
          /\ OpAt(x, 2) = ImmOp(immr) /\ OpAt(x, 3) = ImmOp(imms - immr + 1)
      <4> HIDE DEF src, lsb, wid
      <4>1. SameAs(x, Built(w, ip, c, <<al[1]>>, <<Gp(w.sf, w.rd)>> \o al[2])) BY <1>5
      <4>2. al[1] = m /\ al[2] = <<src, ImmOp(immr), ImmOp(imms - immr + 1)>> BY <2>6
      <4>3. <<Gp(w.sf, w.rd)>> \o <<src, ImmOp(immr), ImmOp(imms - immr + 1)>>
              = <<Gp(w.sf, w.rd), src, ImmOp(immr), ImmOp(imms - immr + 1)>>
        BY Joined4
      <4>4. SameAs(x, Built(w, ip, c, <<m>>, <<Gp(w.sf, w.rd), src, ImmOp(immr), ImmOp(imms - immr + 1)>>))
        BY <4>1, <4>2, <4>3, Zenon
      <4> QED BY <4>4, Shows4
    <3>2. IsRegAt(x, 1) /\ RegAt(x, 1) = w.rn BY <1>0, <3>1, RegBack
    <3>r. ~bfc BY <3>1 DEF bfc
    <3>3. IsImmAt(x, 2) /\ ValAt(x, 2) = immr /\ IsImmAt(x, 3) /\ ValAt(x, 3) = imms - immr + 1
      BY <3>1, ImmBack
    <3>i. immr <= imms BY <2>6
    <3>4. imms - immr + 1 \in 0..64 /\ Taken(immr, imms - immr + 1) = Ok(<<immr, imms>>)
      BY <3>i, TakenBack
    <3>5. \A n \in 0..64 : n % U32 = n BY DpImmAssumption DEF ValuesFit
    <3>6. immr % U32 = immr /\ (imms - immr + 1) % U32 = imms - immr + 1 BY <3>4, <3>5
    <3>7. Imm32(x, 2) = immr /\ Imm32(x, 3) = imms - immr + 1 BY <3>3, <3>6 DEF Imm32
    <3>8. BitfieldFields(x, ds) = Taken(Imm32(x, 2), Imm32(x, 3)) BY <3>1, AliasFields
    <3>9. f = Ok(<<immr, imms>>) BY <1>10, <3>4, <3>7, <3>8
    <3>10. BitfieldImms(x.mnem[1]) = {2, 3} BY <3>1, AliasFields
    <3> QED BY <3>1, <3>2, <3>3, <3>9, <3>10, <3>r
  <2> QED BY <1>7, <2>1, <2>2, <2>3, <2>4, <2>5, <2>6 DEF BitfieldShape, ds
<1>12. f.ok /\ f.v[1] = immr /\ f.v[2] = imms BY <1>11 DEF Ok
<1>13. field.ok
  <2>1. ~(immr >= ds) /\ ~(imms >= ds) BY <1>6, WidthsAre
  <2>2. ~(f.v[1] >= DataSize(Is64(x)) \/ f.v[2] >= DataSize(Is64(x))) BY <1>9, <1>12, <2>1 DEF ds
  <2> QED BY <1>12, <2>2 DEF field
<1>14. IsRegAt(x, 0) /\ RegAt(x, 0) = w.rd BY <1>0, <1>11, RegBack
<1>15. shape BY <1>11, <1>14 DEF shape
<1>16. back = w
  <2>1. (IF bfc THEN 31 ELSE RegAt(x, 1)) = w.rn BY <1>11
  <2>2. Place(BitfieldName, x.code[1]) = w.opc BY <1>3, <1>9
  <2> QED BY <1>w, <1>2, <1>9, <1>12, <1>14, <1>f, <2>1, <2>2 DEF back
<1>17. EncodeBitfield(x) = Ok(w) BY <1>1, <1>13, <1>15, <1>16 DEF With
<1> QED BY <1>3, <1>9, <1>17

(***************************************************************************)
(* The codec of the immediate group                                        *)
(***************************************************************************)

(* The word a decoded one is written as. *)
ImmWritten(w) ==
  CASE w.class = "logical" -> LogicalNormal(w)
    [] w.class = "tags" -> [w EXCEPT !.op3 = 0]
    [] OTHER -> w

(* The names of the group's Codes. *)
ImmNames ==
  {"AddImm", "AddsImm", "SubImm", "SubsImm", "AddgImm", "SubgImm", "SmaxImm", "UmaxImm", "SminImm",
   "UminImm", "AndImm", "OrrImm", "EorImm", "AndsImm", "Movn", "Movz", "Movk", "Sbfm", "Bfm", "Ubfm",
   "Extr"}

(* encode::dp_imm finds the encoder of a Code by its name. *)
LEMMA EncoderOf ==
  ASSUME NEW x, NEW c, x.code[1] = c
  PROVE  /\ Lists(AddSubName, c) => EncodeDpImm(x) = EncodeAddSub(x) /\ c \in ImmNames
         /\ c \in {"AddgImm", "SubgImm"} => EncodeDpImm(x) = EncodeTags(x) /\ c \in ImmNames
         /\ Lists(MinMaxName, c) => EncodeDpImm(x) = EncodeMinMax(x) /\ c \in ImmNames
         /\ Lists(LogicalName, c) => EncodeDpImm(x) = EncodeLogical(x) /\ c \in ImmNames
         /\ c \in {"Movn", "Movz", "Movk"} => EncodeDpImm(x) = EncodeMoveWide(x) /\ c \in ImmNames
         /\ Lists(BitfieldName, c) => EncodeDpImm(x) = EncodeBitfield(x) /\ c \in ImmNames
         /\ c = "Extr" => EncodeDpImm(x) = EncodeExtract(x) /\ c \in ImmNames
<1>1. EncodeDpImm(x)
        = CASE c = "Invalid" -> Err("Invalid")
            [] Lists(AddSubName, c) -> EncodeAddSub(x)
            [] c \in {"AddgImm", "SubgImm"} -> EncodeTags(x)
            [] Lists(MinMaxName, c) -> EncodeMinMax(x)
            [] Lists(LogicalName, c) -> EncodeLogical(x)
            [] Lists(MoveWideName, c) -> EncodeMoveWide(x)
            [] Lists(BitfieldName, c) -> EncodeBitfield(x)
            [] OTHER -> EncodeExtract(x)
  BY Zenon DEF EncodeDpImm
<1>2. CASE Lists(AddSubName, c) BY <1>1, <1>2, TableNames DEF ImmNames
<1>3. CASE c \in {"AddgImm", "SubgImm"} BY <1>1, <1>3, TableNames DEF ImmNames
<1>4. CASE Lists(MinMaxName, c) BY <1>1, <1>4, TableNames DEF ImmNames
<1>5. CASE Lists(LogicalName, c) BY <1>1, <1>5, TableNames DEF ImmNames
<1>6. CASE c \in {"Movn", "Movz", "Movk"} BY <1>1, <1>6, TableNames DEF ImmNames
<1>7. CASE Lists(BitfieldName, c) BY <1>1, <1>7, TableNames DEF ImmNames
<1>8. CASE c = "Extr" BY <1>1, <1>8, TableNames DEF ImmNames
<1> QED BY <1>2, <1>3, <1>4, <1>5, <1>6, <1>7, <1>8, Zenon

(* A class has its own decoder. *)
LEMMA ClassOf ==
  ASSUME NEW w \in DpImmWord, NEW ip
  PROVE  \/ w \in AddSubWord /\ DecodeDpImm(w, ip) = DecodeAddSub(w, ip) /\ ImmWritten(w) = w
         \/ w \in TagsWord /\ DecodeDpImm(w, ip) = DecodeTags(w, ip) /\ ImmWritten(w) = [w EXCEPT !.op3 = 0]
         \/ w \in MinMaxWord /\ DecodeDpImm(w, ip) = DecodeMinMax(w, ip) /\ ImmWritten(w) = w
         \/ w \in LogicalWord /\ DecodeDpImm(w, ip) = DecodeLogical(w, ip) /\ ImmWritten(w) = LogicalNormal(w)
         \/ w \in MoveWideWord /\ DecodeDpImm(w, ip) = DecodeMoveWide(w, ip) /\ ImmWritten(w) = w
         \/ w \in BitfieldWord /\ DecodeDpImm(w, ip) = DecodeBitfield(w, ip) /\ ImmWritten(w) = w
         \/ w \in ExtractWord /\ DecodeDpImm(w, ip) = DecodeExtract(w, ip) /\ ImmWritten(w) = w
<1>1. CASE w \in AddSubWord
  <2>1. w.class = "addsub" BY <1>1 DEF AddSubWord
  <2> QED BY <1>1, <2>1 DEF DecodeDpImm, ImmWritten
<1>2. CASE w \in TagsWord
  <2>1. w.class = "tags" BY <1>2 DEF TagsWord
  <2> QED BY <1>2, <2>1 DEF DecodeDpImm, ImmWritten
<1>3. CASE w \in MinMaxWord
  <2>1. w.class = "minmax" BY <1>3 DEF MinMaxWord
  <2> QED BY <1>3, <2>1 DEF DecodeDpImm, ImmWritten
<1>4. CASE w \in LogicalWord
  <2>1. w.class = "logical" BY <1>4 DEF LogicalWord
  <2> QED BY <1>4, <2>1 DEF DecodeDpImm, ImmWritten
<1>5. CASE w \in MoveWideWord
  <2>1. w.class = "movewide" BY <1>5 DEF MoveWideWord
  <2> QED BY <1>5, <2>1 DEF DecodeDpImm, ImmWritten
<1>6. CASE w \in BitfieldWord
  <2>1. w.class = "bitfield" BY <1>6 DEF BitfieldWord
  <2> QED BY <1>6, <2>1 DEF DecodeDpImm, ImmWritten
<1>7. CASE w \in ExtractWord
  <2>1. w.class = "extract" BY <1>7 DEF ExtractWord
  <2> QED BY <1>7, <2>1 DEF DecodeDpImm, ImmWritten
<1> QED BY <1>1, <1>2, <1>3, <1>4, <1>5, <1>6, <1>7 DEF DpImmWord

(* Every word of the group that decodes is written back as itself, but for
   the unused high bits of a rotation and the should-be-zero field of ADDG
   and SUBG: dp_imm::encode undoes each alias dp_imm::decode prefers, for
   every value of every field and any features. *)
THEOREM DpImmRecovered ==
  ASSUME ValuesFit, NEW w \in DpImmWord, NEW ip, NEW x, SameAs(x, DecodeDpImm(w, ip)),
         x.code # <<"Invalid">>
  PROVE  EncodeDpImm(x) = Ok(ImmWritten(w)) /\ x.code[1] \in ImmNames
<1> DEFINE c == x.code[1]
<1>e. x.code[1] = c OBVIOUS
<1> HIDE DEF c
<1>1. CASE w \in AddSubWord /\ DecodeDpImm(w, ip) = DecodeAddSub(w, ip) /\ ImmWritten(w) = w
  <2>1. EncodeAddSub(x) = Ok(w) /\ Lists(AddSubName, c) BY <1>1, <1>e, AddSubBack
  <2> QED BY <1>1, <1>e, <2>1, EncoderOf
<1>2. CASE /\ w \in TagsWord /\ DecodeDpImm(w, ip) = DecodeTags(w, ip)
           /\ ImmWritten(w) = [w EXCEPT !.op3 = 0]
  <2>1. EncodeTags(x) = Ok([w EXCEPT !.op3 = 0]) /\ x.code \in {<<"AddgImm">>, <<"SubgImm">>}
    BY <1>2, TagsBack
  <2>2. c \in {"AddgImm", "SubgImm"} BY <1>e, <2>1
  <2> QED BY <1>2, <1>e, <2>1, <2>2, EncoderOf
<1>3. CASE w \in MinMaxWord /\ DecodeDpImm(w, ip) = DecodeMinMax(w, ip) /\ ImmWritten(w) = w
  <2>1. EncodeMinMax(x) = Ok(w) /\ Lists(MinMaxName, c) BY <1>3, <1>e, MinMaxBack
  <2> QED BY <1>3, <1>e, <2>1, EncoderOf
<1>4. CASE w \in LogicalWord /\ DecodeDpImm(w, ip) = DecodeLogical(w, ip) /\ ImmWritten(w) = LogicalNormal(w)
  <2>1. EncodeLogical(x) = Ok(LogicalNormal(w)) /\ Lists(LogicalName, c) BY <1>4, <1>e, LogicalBack
  <2> QED BY <1>4, <1>e, <2>1, EncoderOf
<1>5. CASE w \in MoveWideWord /\ DecodeDpImm(w, ip) = DecodeMoveWide(w, ip) /\ ImmWritten(w) = w
  <2>1. EncodeMoveWide(x) = Ok(w) /\ c \in {"Movn", "Movz", "Movk"} BY <1>5, <1>e, MoveWideBack
  <2> QED BY <1>5, <1>e, <2>1, EncoderOf
<1>6. CASE w \in BitfieldWord /\ DecodeDpImm(w, ip) = DecodeBitfield(w, ip) /\ ImmWritten(w) = w
  <2>1. EncodeBitfield(x) = Ok(w) /\ Lists(BitfieldName, c) BY <1>6, <1>e, BitfieldBack
  <2> QED BY <1>6, <1>e, <2>1, EncoderOf
<1>7. CASE w \in ExtractWord /\ DecodeDpImm(w, ip) = DecodeExtract(w, ip) /\ ImmWritten(w) = w
  <2>1. EncodeExtract(x) = Ok(w) /\ c = "Extr" BY <1>7, <1>e, ExtractBack
  <2> QED BY <1>7, <1>e, <2>1, EncoderOf
<1> QED BY <1>1, <1>2, <1>3, <1>4, <1>5, <1>6, <1>7, <1>e, ClassOf, Zenon

(* Only the rotation within the element tells logical immediates apart: the
   mask and the preference for a wide move read no higher bit of it. *)
LEMMA RotationWithin ==
  ASSUME NEW sf \in Bit, NEW n \in Bit, NEW imms \in 0..63, NEW immr \in 0..63, NEW m \in Widths,
         DecodeBitMasks(n, imms, immr, m).ok
  PROVE  LET r == immr % ElementSize(n, imms)
         IN  /\ r \in 0..63
             /\ DecodeBitMasks(n, imms, r, m) = DecodeBitMasks(n, imms, immr, m)
             /\ MoveWidePreferred(sf, n, imms, r) <=> MoveWidePreferred(sf, n, imms, immr)
<1> DEFINE e == ElementSize(n, imms)
           r == immr % e
<1>1. e \in ESizes BY DecodedMask, Zenon
<1> HIDE DEF e
<1>2. r \in 0..63 /\ r % e = r BY <1>1 DEF ESizes
<1>3. DecodeBitMasks(n, imms, r, m) = DecodeBitMasks(n, imms, immr, m)
  <2> HIDE DEF r
  <2>1. r % e = immr % e BY <1>2 DEF r
  <2> QED BY <2>1, Zenon DEF DecodeBitMasks, e
<1>4. (sf = 1 /\ n = 1) \/ (sf # 1 /\ n = 0 /\ imms < WBits) => r % 16 = immr % 16 /\ (-r) % 16 = (-immr) % 16
  <2>1. n = 1 => e = 64 BY ElementSizeIs DEF e
  <2>2. n = 0 /\ imms < 32 => e = 32 BY ElementSizeIs DEF e
  <2>3. e = 64 => r % 16 = immr % 16 /\ (-r) % 16 = (-immr) % 16 OBVIOUS
  <2>4. e = 32 => r % 16 = immr % 16 /\ (-r) % 16 = (-immr) % 16 OBVIOUS
  <2> HIDE DEF r
  <2> QED BY <2>1, <2>2, <2>3, <2>4, WidthsAre
<1>5. MoveWidePreferred(sf, n, imms, r) <=> MoveWidePreferred(sf, n, imms, immr)
  <2> HIDE DEF r
  <2>1. CASE IF sf = 1 THEN n = 1 ELSE n = 0 /\ imms < WBits
    <3>1. r % Lane = immr % Lane /\ (-r) % Lane = (-immr) % Lane BY <1>4, <2>1, WidthsAre
    <3> QED BY <3>1, Zenon DEF MoveWidePreferred
  <2>2. CASE ~(IF sf = 1 THEN n = 1 ELSE n = 0 /\ imms < WBits) BY <2>2, Zenon DEF MoveWidePreferred
  <2> QED BY <2>1, <2>2
<1> QED BY <1>2, <1>3, <1>5 DEF e

(* The word an instruction is written as is a word of the group, and means
   what the first one meant. *)
THEOREM ImmWrittenMeansTheSame ==
  ASSUME NEW w \in DpImmWord, NEW ip, DecodeDpImm(w, ip).code # <<"Invalid">>
  PROVE  ImmWritten(w) \in DpImmWord /\ SameAs(DecodeDpImm(ImmWritten(w), ip), DecodeDpImm(w, ip))
<1> DEFINE u == ImmWritten(w)
<1>1. CASE ImmWritten(w) = w BY <1>1 DEF SameAs
<1>2. CASE /\ w \in TagsWord /\ DecodeDpImm(w, ip) = DecodeTags(w, ip)
           /\ ImmWritten(w) = [w EXCEPT !.op3 = 0]
  <2>1. u \in TagsWord BY <1>2 DEF TagsWord
  <2>2. /\ u.sf = w.sf /\ u.op = w.op /\ u.s = w.s /\ u.uimm6 = w.uimm6 /\ u.uimm4 = w.uimm4
        /\ u.rn = w.rn /\ u.rd = w.rd
    BY <1>2 DEF TagsWord
  <2> HIDE DEF u
  <2>3. u.class = "tags" BY <2>1 DEF TagsWord
  <2>4. DecodeDpImm(u, ip) = DecodeTags(u, ip) BY <2>3 DEF DecodeDpImm
  <2>5. SameAs(DecodeTags(u, ip), DecodeTags(w, ip))
    BY <2>2 DEF DecodeTags, SameAs, Plain, Built, NewInvalid
  <2> QED BY <1>2, <2>1, <2>4, <2>5 DEF DpImmWord, u
<1>3. CASE w \in LogicalWord /\ DecodeDpImm(w, ip) = DecodeLogical(w, ip) /\ ImmWritten(w) = LogicalNormal(w)
  <2> DEFINE ds == DataSize(w.sf)
             r  == w.immr % ElementSize(w.n, w.imms)
  <2>0. /\ w.sf \in Bit /\ w.n \in Bit /\ w.imms \in 0..63 /\ w.immr \in 0..63
    BY <1>3, WidthsAre DEF LogicalWord
  <2>1. ds \in Widths
    <3>1. w.sf = 0 \/ w.sf = 1 BY <2>0 DEF Bit
    <3> QED BY <3>1, WidthsAre
  <2>2. DecodeBitMasks(w.n, w.imms, w.immr, ds).ok
    <3>1. NewInvalid(w, ip).code = <<"Invalid">> BY DEF NewInvalid
    <3>2. ~DecodeBitMasks(w.n, w.imms, w.immr, ds).ok => DecodeLogical(w, ip) = NewInvalid(w, ip)
      BY Zenon DEF DecodeLogical
    <3> QED BY <1>3, <3>1, <3>2, Zenon
  <2> HIDE DEF ds
  <2>3. /\ r \in 0..63
        /\ DecodeBitMasks(w.n, w.imms, r, ds) = DecodeBitMasks(w.n, w.imms, w.immr, ds)
        /\ MoveWidePreferred(w.sf, w.n, w.imms, r) <=> MoveWidePreferred(w.sf, w.n, w.imms, w.immr)
    <3>1. PICK n \in Bit, imms \in 0..63, immr \in 0..63, sf \in Bit :
            w.n = n /\ w.imms = imms /\ w.immr = immr /\ w.sf = sf
      BY <2>0
    <3>2. DecodeBitMasks(n, imms, immr, ds).ok BY <2>2, <3>1
    <3>3. LET q == immr % ElementSize(n, imms)
          IN  /\ q \in 0..63
              /\ DecodeBitMasks(n, imms, q, ds) = DecodeBitMasks(n, imms, immr, ds)
              /\ MoveWidePreferred(sf, n, imms, q) <=> MoveWidePreferred(sf, n, imms, immr)
      BY <2>1, <3>2, RotationWithin, Zenon
    <3> QED BY <3>1, <3>3
  <2>4. u = [w EXCEPT !.immr = r] BY <1>3 DEF LogicalNormal
  <2> HIDE DEF r
  <2>5. u \in LogicalWord BY <1>3, <2>3, <2>4, WidthsAre DEF LogicalWord
  <2>6. /\ u.sf = w.sf /\ u.opc = w.opc /\ u.n = w.n /\ u.imms = w.imms /\ u.immr = r
        /\ u.rn = w.rn /\ u.rd = w.rd
    BY <1>3, <2>4 DEF LogicalWord
  <2> HIDE DEF u
  <2>7. u.class = "logical" BY <2>5 DEF LogicalWord
  <2>8. DecodeDpImm(u, ip) = DecodeLogical(u, ip) BY <2>7 DEF DecodeDpImm
  <2>9. DecodeBitMasks(u.n, u.imms, u.immr, ds) = DecodeBitMasks(w.n, w.imms, w.immr, ds)
    BY <2>3, <2>6
  <2>10. MoveWidePreferred(u.sf, u.n, u.imms, u.immr) <=> MoveWidePreferred(w.sf, w.n, w.imms, w.immr)
    BY <2>3, <2>6
  <2>11. SameAs(DecodeLogical(u, ip), DecodeLogical(w, ip))
    BY <2>6, <2>9, <2>10, SMTT(30) DEF DecodeLogical, SameAs, Plain, Alias, Built, NewInvalid, ds
  <2> QED BY <1>3, <2>5, <2>8, <2>11 DEF DpImmWord, u
<1>4. \/ ImmWritten(w) = w
      \/ /\ w \in TagsWord /\ DecodeDpImm(w, ip) = DecodeTags(w, ip)
         /\ ImmWritten(w) = [w EXCEPT !.op3 = 0]
      \/ w \in LogicalWord /\ DecodeDpImm(w, ip) = DecodeLogical(w, ip) /\ ImmWritten(w) = LogicalNormal(w)
  BY ClassOf, Zenon
<1> HIDE DEF u
<1> QED BY <1>1, <1>2, <1>3, <1>4, Zenon

(***************************************************************************)
(* What a logical immediate shows                                          *)
(***************************************************************************)

(* The last operand is the mask, sign-extended in a MOV, and only a
   preference for a wide move keeps an ORR from ZR from being a MOV. *)
LEMMA LogicalShows ==
  ASSUME ValuesFit, NEW w \in LogicalWord, NEW ip, NEW x, SameAs(x, DecodeLogical(w, ip)),
         x.code # <<"Invalid">>
  PROVE  LET ds   == DataSize(w.sf)
             mask == DecodeBitMasks(w.n, w.imms, w.immr, ds)
             o    == OpAt(x, x.cnt - 1)
         IN  /\ mask.ok /\ ds \in Widths
             /\ o = LogicalOp(mask.v) \/ o = SignedOp(SignExtended(mask.v, ds))
             /\ w.opc = 1 /\ w.rn = 31 =>
                  x.mnem = <<"Mov">> \/ MoveWidePreferred(w.sf, w.n, w.imms, w.immr)
<1> DEFINE ds   == DataSize(w.sf)
           c    == CodeOf(LogicalName[w.opc + 1], w.sf)
           mask == DecodeBitMasks(w.n, w.imms, w.immr, ds)
           o    == OpAt(x, x.cnt - 1)
<1>1. mask.ok /\ ~(w.sf = 0 /\ w.n = 1) BY Zenon DEF SameAs, DecodeLogical, NewInvalid
<1>2. ds \in Widths
  <2>1. w.sf = 0 \/ w.sf = 1 BY DEF LogicalWord, Bit
  <2> QED BY <2>1, WidthsAre
<1> HIDE DEF ds, c, mask
<1>3. CASE w.opc = 3 /\ w.rd = 31
  <2>1. SameAs(x, Built(w, ip, c, <<"Tst">>, <<Gp(w.sf, w.rn), LogicalOp(mask.v)>>))
    BY <1>1, <1>3 DEF DecodeLogical, Alias, c, mask, ds
  <2>2. x.cnt = 2 /\ OpAt(x, 1) = LogicalOp(mask.v) BY <2>1, Shows2
  <2> QED BY <1>1, <1>2, <1>3, <2>2 DEF mask, ds
<1>4. CASE ~(w.opc = 3 /\ w.rd = 31) /\ w.opc = 1 /\ w.rn = 31
           /\ ~MoveWidePreferred(w.sf, w.n, w.imms, w.immr)
  <2>1. SameAs(x, Built(w, ip, c, <<"Mov">>, <<GpSp(w.sf, w.rd), SignedOp(SignExtended(mask.v, ds))>>))
    BY <1>1, <1>4 DEF DecodeLogical, Alias, c, mask, ds
  <2>2. x.cnt = 2 /\ x.mnem = <<"Mov">> /\ OpAt(x, 1) = SignedOp(SignExtended(mask.v, ds))
    BY <2>1, Shows2
  <2> QED BY <1>1, <1>2, <1>4, <2>2 DEF mask, ds
<1>5. CASE /\ ~(w.opc = 3 /\ w.rd = 31)
           /\ ~(w.opc = 1 /\ w.rn = 31 /\ ~MoveWidePreferred(w.sf, w.n, w.imms, w.immr))
  <2> DEFINE dst == IF w.opc = 3 THEN Gp(w.sf, w.rd) ELSE GpSp(w.sf, w.rd)
  <2>1. SameAs(x, Built(w, ip, c, MnemonicOf(c), <<dst, Gp(w.sf, w.rn), LogicalOp(mask.v)>>))
    BY <1>1, <1>5, Zenon DEF DecodeLogical, Plain, c, mask, ds
  <2> HIDE DEF dst
  <2>2. x.cnt = 3 /\ OpAt(x, 2) = LogicalOp(mask.v) BY <2>1, Shows3
  <2> QED BY <1>1, <1>2, <1>5, <2>2 DEF mask, ds
<1> QED BY <1>3, <1>4, <1>5

(* Its value is the run of imms + 1 ones rotated by immr, in every element. *)
THEOREM MaskShown ==
  ASSUME ValuesFit, NEW w \in LogicalWord, NEW ip, NEW x, SameAs(x, DecodeLogical(w, ip)),
         x.code # <<"Invalid">>
  PROVE  \A i \in 0..(DataSize(w.sf) - 1) :
           i \in OpAt(x, x.cnt - 1).val
             <=> (i + w.immr) % ElementSize(w.n, w.imms) <= w.imms % ElementSize(w.n, w.imms)
<1> DEFINE ds   == DataSize(w.sf)
           mask == DecodeBitMasks(w.n, w.imms, w.immr, ds)
           o    == OpAt(x, x.cnt - 1)
<1>1. /\ mask.ok /\ ds \in Widths
      /\ o = LogicalOp(mask.v) \/ o = SignedOp(SignExtended(mask.v, ds))
  BY LogicalShows
<1>2. o.val = mask.v \/ o.val = SignExtended(mask.v, ds)
  BY <1>1 DEF LogicalOp, SignedOp, Op
<1> HIDE DEF ds, o
<1>0. w.n \in Bit /\ w.imms \in 0..63 /\ w.immr \in 0..63 BY WidthsAre DEF LogicalWord
<1>3. PICK n \in Bit, imms \in 0..63, immr \in 0..63 : w.n = n /\ w.imms = imms /\ w.immr = immr
  BY <1>0
<1>4. DecodeBitMasks(n, imms, immr, ds).ok BY <1>1, <1>3
<1>5. LET e == ElementSize(n, imms)
          v == DecodeBitMasks(n, imms, immr, ds).v
      IN  /\ v \subseteq 0..(ds - 1)
          /\ \A i \in 0..(ds - 1) : i \in v <=> (i + immr) % e <= imms % e
  BY <1>1, <1>4, MaskBits, Zenon
<1>6. mask.v \subseteq 0..(ds - 1) BY <1>3, <1>5
<1>7. SignExtended(mask.v, ds) \cap Ones(ds) = mask.v BY <1>1, <1>6, WithinWidth
<1>8. \A i \in 0..(ds - 1) : i \in o.val <=> i \in mask.v BY <1>2, <1>7 DEF Ones
<1> QED BY <1>3, <1>5, <1>8 DEF ds, o

(* An ORR from ZR that is not shown as MOV has a value of a MOVZ or a MOVN. *)
THEOREM SpelledOut ==
  ASSUME ValuesFit, NEW w \in LogicalWord, NEW ip, NEW x, SameAs(x, DecodeLogical(w, ip)),
         x.code # <<"Invalid">>, w.opc = 1, w.rn = 31
  PROVE  LET ds == DataSize(w.sf)
             v  == OpAt(x, x.cnt - 1).val \cap Ones(ds)
         IN  x.mnem = <<"Mov">> \/ Factor(v, ds).ok \/ Factor(Not(v, ds), ds).ok
<1> DEFINE ds   == DataSize(w.sf)
           mask == DecodeBitMasks(w.n, w.imms, w.immr, ds)
           o    == OpAt(x, x.cnt - 1)
<1>1. /\ mask.ok /\ ds \in Widths
      /\ o = LogicalOp(mask.v) \/ o = SignedOp(SignExtended(mask.v, ds))
      /\ x.mnem = <<"Mov">> \/ MoveWidePreferred(w.sf, w.n, w.imms, w.immr)
  BY LogicalShows
<1>2. o.val = mask.v \/ o.val = SignExtended(mask.v, ds)
  BY <1>1 DEF LogicalOp, SignedOp, Op
<1> HIDE DEF ds, o
<1>0. w.n \in Bit /\ w.imms \in 0..63 /\ w.immr \in 0..63 /\ w.sf \in Bit BY WidthsAre DEF LogicalWord
<1>3. PICK n \in Bit, imms \in 0..63, immr \in 0..63, sf \in Bit :
        w.n = n /\ w.imms = imms /\ w.immr = immr /\ w.sf = sf
  BY <1>0
<1>4. DecodeBitMasks(n, imms, immr, ds).ok BY <1>1, <1>3
<1>5. DecodeBitMasks(n, imms, immr, ds).v \subseteq 0..(ds - 1) BY <1>1, <1>4, MaskBits, Zenon
<1>m. mask.v \subseteq 0..(ds - 1) BY <1>3, <1>5
<1>6. o.val \cap Ones(ds) = mask.v
  <2> HIDE DEF mask
  <2>1. /\ mask.v \cap Ones(ds) = mask.v /\ SignExtended(mask.v, ds) \cap Ones(ds) = mask.v
    BY <1>1, <1>m, WithinWidth
  <2> QED BY <1>2, <2>1
<1>7. MoveWidePreferred(sf, n, imms, immr)
        => Factor(mask.v, ds).ok \/ Factor(Not(mask.v, ds), ds).ok
  <2>1. DecodeBitMasks(n, imms, immr, DataSize(sf)).ok BY <1>3, <1>4 DEF ds
  <2>2. mask.v = DecodeBitMasks(n, imms, immr, DataSize(sf)).v /\ ds = DataSize(sf) BY <1>3 DEF ds
  <2> HIDE DEF mask
  <2> QED BY <2>1, <2>2, PreferredIsAMove, Zenon
<1> HIDE DEF mask
<1>8. MoveWidePreferred(sf, n, imms, immr) <=> MoveWidePreferred(w.sf, w.n, w.imms, w.immr) BY <1>3
<1> QED BY <1>1, <1>6, <1>7, <1>8 DEF ds, o

(***************************************************************************)
(* The codec of the register group: operands and tables                    *)
(***************************************************************************)

(* The registers an encoder asks for, one by one. *)
LEMMA AllRegsAre ==
  ASSUME NEW x
  PROVE  /\ IsRegAt(x, 0) /\ IsRegAt(x, 1) => AllRegs(x, 0..1)
         /\ IsRegAt(x, 0) /\ IsRegAt(x, 1) /\ IsRegAt(x, 2) => AllRegs(x, 0..2)
         /\ IsRegAt(x, 0) /\ IsRegAt(x, 1) /\ IsRegAt(x, 2) /\ IsRegAt(x, 3) => AllRegs(x, 0..3)
<1>1. 0..1 = {0, 1} /\ 0..2 = {0, 1, 2} /\ 0..3 = {0, 1, 2, 3} OBVIOUS
<1> QED BY <1>1 DEF AllRegs

(* A shifted register gives back its number, its shift and its amount; one
   that was folded away is an LSL by zero. *)
LEMMA ShiftedBack ==
  ASSUME NEW x, NEW i, NEW sf, NEW n \in RegNum, NEW shift \in 0..3, NEW amt \in 0..63,
         OpAt(x, i) = RegShifted(sf, n, shift, amt)
  PROVE  /\ IsRegAt(x, i) /\ RegAt(x, i) = n
         /\ ShiftAt(x, i) = <<ShiftName[shift + 1], amt>> /\ ExtendAt(x, i) = NoExtend
<1> DEFINE o == OpAt(x, i)
<1>0. /\ Gp(sf, n).kind = "Reg" /\ Gp(sf, n).reg = <<IF sf = 1 THEN "X" ELSE "W", n>>
      /\ Gp(sf, n).dec = NoDec
      /\ \A d : /\ [Gp(sf, n) EXCEPT !.dec = d].kind = "Reg"
                /\ [Gp(sf, n) EXCEPT !.dec = d].reg = Gp(sf, n).reg
                /\ [Gp(sf, n) EXCEPT !.dec = d].dec = d
  BY DEF Gp, RegOp, Op
<1>1. ShiftName[1] = "Lsl" /\ ShiftName[shift + 1] \in {"Lsl", "Lsr", "Asr", "Ror"} BY DEF ShiftName
<1>2. o.kind = "Reg" /\ o.reg = Gp(sf, n).reg BY <1>0 DEF RegShifted
<1>3. IF shift = 0 /\ amt = 0 THEN o.dec = NoDec ELSE o.dec = <<ShiftName[shift + 1], amt, NoExtend>>
  BY <1>0 DEF RegShifted
<1>4. ShiftAt(x, i) = <<ShiftName[shift + 1], amt>> /\ ExtendAt(x, i) = NoExtend
  <2>1. CASE shift = 0 /\ amt = 0 BY <1>1, <1>3, <2>1 DEF ShiftAt, ExtendAt
  <2>2. CASE ~(shift = 0 /\ amt = 0)
    <3>1. o.dec = <<ShiftName[shift + 1], amt, NoExtend>> BY <1>3, <2>2
    <3>2. o.dec # NoDec /\ o.dec[1] # NoShift BY <1>1, <3>1 DEF NoDec, NoShift
    <3> QED BY <3>1, <3>2 DEF ShiftAt, ExtendAt
  <2> QED BY <2>1, <2>2
<1>5. IsRegAt(x, i) /\ RegAt(x, i) = n BY <1>0, <1>2 DEF IsRegAt, RegAt, NumberOf
<1> QED BY <1>4, <1>5

LEMMA ShiftRecovered ==
  ASSUME NEW x, NEW i, NEW sf, NEW n \in RegNum, NEW shift \in 0..3, NEW amt \in 0..63,
         OpAt(x, i) = RegShifted(sf, n, shift, amt), ~Narrow(sf, amt)
  PROVE  /\ IsRegAt(x, i) /\ RegAt(x, i) = n /\ RecoverShift(x, i, sf).ok
         /\ RecoverShift(x, i, sf).v[1] = shift /\ RecoverShift(x, i, sf).v[2] = amt
<1> DEFINE s == ShiftAt(x, i)
<1>0. IsRegAt(x, i) /\ RegAt(x, i) = n /\ s = <<ShiftName[shift + 1], amt>> BY ShiftedBack
<1>1. Distinct(ShiftName) /\ DOMAIN ShiftName = 1..4 BY DEF Distinct, ShiftName
<1>2. Place(ShiftName, ShiftName[shift + 1]) = shift /\ Lists(ShiftName, ShiftName[shift + 1])
  <2>1. shift \in Int /\ shift + 1 \in DOMAIN ShiftName /\ Distinct(ShiftName) BY <1>1
  <2> QED BY <2>1, PlaceBack, Zenon
<1> HIDE DEF s
<1>3. s[1] = ShiftName[shift + 1] /\ s[2] = amt BY <1>0
<1>4. ~(s[2] > 63)
  <2>1. ~(amt > 63) OBVIOUS
  <2> QED BY <1>3, <2>1
<1>5. ~(~Lists(ShiftName, s[1])) /\ ~(s[2] > 63 \/ Narrow(sf, s[2])) BY <1>2, <1>3, <1>4
<1>6. RecoverShift(x, i, sf) = Ok(<<Place(ShiftName, s[1]), s[2]>>) BY <1>5, Zenon DEF RecoverShift, s
<1> QED BY <1>0, <1>2, <1>3, <1>6 DEF Ok

(* imm6<5> is clear in an amount of a 32-bit form. *)
LEMMA NarrowIs == ASSUME NEW sf, NEW amt \in 0..63, sf = 0 => amt < 32 PROVE ~Narrow(sf, amt)
<1>1. amt < 32 => (amt \div 32) % 2 = 0 OBVIOUS
<1> QED BY <1>1 DEF Narrow

(* The tables of the group repeat no name. *)
LEMMA RegTablesAreDistinct ==
  /\ Distinct(LogicalShiftedName) /\ DOMAIN LogicalShiftedName = 1..8
  /\ Distinct(AddSubShiftedName) /\ DOMAIN AddSubShiftedName = 1..4
  /\ Distinct(ExtendedName) /\ DOMAIN ExtendedName = 1..4
  /\ Distinct(CarryName) /\ DOMAIN CarryName = 1..4
  /\ Distinct(CompareName) /\ DOMAIN CompareName = 1..4
  /\ Distinct(SelectName) /\ DOMAIN SelectName = 1..4
  /\ Distinct(PauthName) /\ DOMAIN PauthName = 1..18
<1>1. Distinct(LogicalShiftedName) /\ DOMAIN LogicalShiftedName = 1..8 BY DEF Distinct, LogicalShiftedName
<1>2. Distinct(AddSubShiftedName) /\ DOMAIN AddSubShiftedName = 1..4 BY DEF Distinct, AddSubShiftedName
<1>3. Distinct(ExtendedName) /\ DOMAIN ExtendedName = 1..4 BY DEF Distinct, ExtendedName
<1>4. Distinct(CarryName) /\ DOMAIN CarryName = 1..4 BY DEF Distinct, CarryName
<1>5. Distinct(CompareName) /\ DOMAIN CompareName = 1..4 BY DEF Distinct, CompareName
<1>6. Distinct(SelectName) /\ DOMAIN SelectName = 1..4 BY DEF Distinct, SelectName
<1>7. Distinct(PauthName) /\ DOMAIN PauthName = 1..18 BY DEF Distinct, PauthName
<1> QED BY <1>1, <1>2, <1>3, <1>4, <1>5, <1>6, <1>7

LEMMA RegTableNames ==
  /\ \A c : Lists(LogicalShiftedName, c)
              <=> c \in {"AndShifted", "BicShifted", "OrrShifted", "OrnShifted",
                         "EorShifted", "EonShifted", "AndsShifted", "BicsShifted"}
  /\ \A c : Lists(AddSubShiftedName, c) <=> c \in {"AddShifted", "AddsShifted", "SubShifted", "SubsShifted"}
  /\ \A c : Lists(ExtendedName, c) <=> c \in {"AddExtended", "AddsExtended", "SubExtended", "SubsExtended"}
  /\ \A c : Lists(CarryName, c) <=> c \in {"Adc", "Adcs", "Sbc", "Sbcs"}
  /\ \A c : Lists(CompareName, c) <=> c \in {"CcmnReg", "CcmnImm", "CcmpReg", "CcmpImm"}
  /\ \A c : Lists(SelectName, c) <=> c \in {"Csel", "Csinc", "Csinv", "Csneg"}
<1>1. \A c : Lists(LogicalShiftedName, c)
               <=> c \in {"AndShifted", "BicShifted", "OrrShifted", "OrnShifted",
                          "EorShifted", "EonShifted", "AndsShifted", "BicsShifted"}
  BY DEF Lists, LogicalShiftedName
<1>2. \A c : Lists(AddSubShiftedName, c) <=> c \in {"AddShifted", "AddsShifted", "SubShifted", "SubsShifted"}
  BY DEF Lists, AddSubShiftedName
<1>3. \A c : Lists(ExtendedName, c) <=> c \in {"AddExtended", "AddsExtended", "SubExtended", "SubsExtended"}
  BY DEF Lists, ExtendedName
<1>4. \A c : Lists(CarryName, c) <=> c \in {"Adc", "Adcs", "Sbc", "Sbcs"} BY DEF Lists, CarryName
<1>5. \A c : Lists(CompareName, c) <=> c \in {"CcmnReg", "CcmnImm", "CcmpReg", "CcmpImm"}
  BY DEF Lists, CompareName
<1>6. \A c : Lists(SelectName, c) <=> c \in {"Csel", "Csinc", "Csinv", "Csneg"} BY DEF Lists, SelectName
<1> QED BY <1>1, <1>2, <1>3, <1>4, <1>5, <1>6

(* A name of a table is the mnemonic of the Code, unless an alias replaced
   it. *)
LEMMA PlainMnemonic ==
  ASSUME NEW name, NEW sf
  PROVE  MnemonicOf(CodeOf(name, sf)) = <<name>>
BY DEF MnemonicOf, CodeOf

(***************************************************************************)
(* The codec of the register group: every class is recovered               *)
(***************************************************************************)

(* The shifted logical instructions, with their MOV, MVN and TST. *)
LEMMA LogicalShiftedBack ==
  ASSUME ValuesFit, NEW w \in LogicalShiftedWord, NEW ip, NEW x, SameAs(x, DecodeLogicalShifted(w, ip)),
         x.code # <<"Invalid">>
  PROVE  /\ EncodeLogicalShifted(x) = Ok(w)
         /\ Is64(x) = w.sf /\ Lists(LogicalShiftedName, x.code[1]) /\ x.code = CodeOf(x.code[1], w.sf)
<1> DEFINE name == LogicalShiftedName[2 * w.opc + w.n + 1]
           c    == CodeOf(name, w.sf)
           rd   == Gp(w.sf, w.rd)
           rn   == Gp(w.sf, w.rn)
           rm   == RegShifted(w.sf, w.rm, w.shift, w.imm6)
           i    == Place(LogicalShiftedName, x.code[1])
           noRd == x.mnem = <<"Tst">>
           noRn == x.mnem \in {<<"Mov">>, <<"Mvn">>}
           at   == RmSlot(noRd, noRn)
           f    == IF x.mnem = <<"Mov">> THEN Ok(<<0, 0>>) ELSE RecoverShift(x, at, Is64(x))
           shape == AllRegs(x, 0..at)
           back == [class |-> "logical", sf |-> Is64(x), opc |-> i \div 2, shift |-> f.v[1],
                    n |-> i % 2, rm |-> RegAt(x, at), imm6 |-> f.v[2],
                    rn |-> RnOf(x, noRd, noRn), rd |-> RdOf(x, noRd)]
<1>0. /\ w.sf \in Bit /\ w.opc \in 0..3 /\ w.n \in {0, 1} /\ w.shift \in 0..3 /\ w.imm6 \in 0..63
      /\ w.rm \in RegNum /\ w.rn \in RegNum /\ w.rd \in RegNum
  BY DEF LogicalShiftedWord, Bit, Imm6
<1>w. w = [class |-> "logical", sf |-> w.sf, opc |-> w.opc, shift |-> w.shift, n |-> w.n,
           rm |-> w.rm, imm6 |-> w.imm6, rn |-> w.rn, rd |-> w.rd]
  BY DEF LogicalShiftedWord
<1>1. Place(LogicalShiftedName, name) = 2 * w.opc + w.n /\ Lists(LogicalShiftedName, name)
  <2>1. /\ 2 * w.opc + w.n \in Int /\ 2 * w.opc + w.n + 1 \in DOMAIN LogicalShiftedName
        /\ Distinct(LogicalShiftedName)
    BY <1>0, RegTablesAreDistinct
  <2> QED BY <2>1, PlaceBack, Zenon
<1>2. name \in {"AndShifted", "BicShifted", "OrrShifted", "OrnShifted",
                "EorShifted", "EonShifted", "AndsShifted", "BicsShifted"}
  BY <1>1, RegTableNames
<1>3. EncodeLogicalShifted(x) = With(shape, f, back) BY Zenon DEF EncodeLogicalShifted
<1>4. ~(w.sf = 0 /\ w.imm6 >= 32) BY Zenon DEF SameAs, DecodeLogicalShifted, NewInvalid
<1>f. PICK shift \in 0..3, amt \in 0..63 : w.shift = shift /\ w.imm6 = amt BY <1>0
<1>n. w.sf = 0 => amt < 32
  <2>1. w.sf = 0 => ~(amt >= 32) BY <1>4, <1>f
  <2> QED BY <2>1
<1>t. ~Narrow(w.sf, amt) BY <1>n, NarrowIs
<1>m. \A s : s \in {"Mov", "Mvn", "Tst"} => <<s>> # <<name>> BY <1>2
<1> HIDE DEF name, c, rd, rn, rm, i, noRd, noRn, at, f, shape, back
<1>5. /\ x.code = c
      /\ \/ /\ x.mnem = <<"Mov">> /\ w.rn = 31 /\ w.shift = 0 /\ w.imm6 = 0
            /\ OpAt(x, 0) = rd /\ OpAt(x, 1) = Gp(w.sf, w.rm)
         \/ x.mnem = <<"Mvn">> /\ w.rn = 31 /\ OpAt(x, 0) = rd /\ OpAt(x, 1) = rm
         \/ x.mnem = <<"Tst">> /\ w.rd = 31 /\ OpAt(x, 0) = rn /\ OpAt(x, 1) = rm
         \/ x.mnem = <<name>> /\ OpAt(x, 0) = rd /\ OpAt(x, 1) = rn /\ OpAt(x, 2) = rm
  <2>1. \/ SameAs(x, Built(w, ip, c, <<"Mov">>, <<rd, Gp(w.sf, w.rm)>>)) /\ IsMov(name, w)
        \/ SameAs(x, Built(w, ip, c, <<"Mvn">>, <<rd, rm>>)) /\ w.rn = 31
        \/ SameAs(x, Built(w, ip, c, <<"Tst">>, <<rn, rm>>)) /\ w.rd = 31
        \/ SameAs(x, Built(w, ip, c, MnemonicOf(c), <<rd, rn, rm>>))
    BY <1>4, Zenon DEF DecodeLogicalShifted, Alias, Plain, name, c, rd, rn, rm
  <2>2. CASE SameAs(x, Built(w, ip, c, <<"Mov">>, <<rd, Gp(w.sf, w.rm)>>)) /\ IsMov(name, w)
    BY <2>2, Shows2 DEF IsMov
  <2>3. CASE SameAs(x, Built(w, ip, c, <<"Mvn">>, <<rd, rm>>)) /\ w.rn = 31 BY <2>3, Shows2
  <2>4. CASE SameAs(x, Built(w, ip, c, <<"Tst">>, <<rn, rm>>)) /\ w.rd = 31 BY <2>4, Shows2
  <2>5. CASE SameAs(x, Built(w, ip, c, MnemonicOf(c), <<rd, rn, rm>>)) BY <2>5, Shows3, PlainMnemonic DEF c
  <2> QED BY <2>1, <2>2, <2>3, <2>4, <2>5
<1>6. Is64(x) = w.sf /\ x.code[1] = name
  <2>1. x.code = CodeOf(name, w.sf) BY <1>5 DEF c
  <2> QED BY <1>0, <2>1, WidthBack
<1>7. /\ shape /\ RegAt(x, at) = w.rm /\ RnOf(x, noRd, noRn) = w.rn /\ RdOf(x, noRd) = w.rd
      /\ f.ok /\ f.v[1] = shift /\ f.v[2] = amt
  <2>1. ASSUME NEW k, OpAt(x, k) = rm
        PROVE  /\ IsRegAt(x, k) /\ RegAt(x, k) = w.rm /\ RecoverShift(x, k, w.sf).ok
               /\ RecoverShift(x, k, w.sf).v[1] = shift /\ RecoverShift(x, k, w.sf).v[2] = amt
    <3>1. OpAt(x, k) = RegShifted(w.sf, w.rm, shift, amt) BY <1>f, <2>1 DEF rm
    <3> QED BY <1>0, <1>t, <3>1, ShiftRecovered
  <2>2. CASE /\ x.mnem = <<"Mov">> /\ w.rn = 31 /\ w.shift = 0 /\ w.imm6 = 0
             /\ OpAt(x, 0) = rd /\ OpAt(x, 1) = Gp(w.sf, w.rm)
    <3>1. IsRegAt(x, 0) /\ RegAt(x, 0) = w.rd /\ IsRegAt(x, 1) /\ RegAt(x, 1) = w.rm
      BY <1>0, <2>2, RegBack DEF rd
    <3>2. ~noRd /\ noRn /\ at = 1 /\ f = Ok(<<0, 0>>) BY <2>2 DEF noRd, noRn, at, RmSlot, f
    <3> QED BY <1>f, <2>2, <3>1, <3>2, AllRegsAre DEF shape, RnOf, RdOf, Ok
  <2>3. CASE x.mnem = <<"Mvn">> /\ w.rn = 31 /\ OpAt(x, 0) = rd /\ OpAt(x, 1) = rm
    <3>1. IsRegAt(x, 0) /\ RegAt(x, 0) = w.rd BY <1>0, <2>3, RegBack DEF rd
    <3>2. ~noRd /\ noRn /\ at = 1 BY <2>3 DEF noRd, noRn, at, RmSlot
    <3>3. f = RecoverShift(x, 1, w.sf) BY <1>6, <2>3, <3>2 DEF f
    <3> QED BY <2>1, <2>3, <3>1, <3>2, <3>3, AllRegsAre DEF shape, RnOf, RdOf
  <2>4. CASE x.mnem = <<"Tst">> /\ w.rd = 31 /\ OpAt(x, 0) = rn /\ OpAt(x, 1) = rm
    <3>1. IsRegAt(x, 0) /\ RegAt(x, 0) = w.rn BY <1>0, <2>4, RegBack DEF rn
    <3>2. noRd /\ ~noRn /\ at = 1 BY <2>4 DEF noRd, noRn, at, RmSlot
    <3>3. f = RecoverShift(x, 1, w.sf) BY <1>6, <2>4, <3>2 DEF f
    <3> QED BY <2>1, <2>4, <3>1, <3>2, <3>3, AllRegsAre DEF shape, RnOf, RdOf
  <2>5. CASE x.mnem = <<name>> /\ OpAt(x, 0) = rd /\ OpAt(x, 1) = rn /\ OpAt(x, 2) = rm
    <3>1. IsRegAt(x, 0) /\ RegAt(x, 0) = w.rd /\ IsRegAt(x, 1) /\ RegAt(x, 1) = w.rn
      BY <1>0, <2>5, RegBack DEF rd, rn
    <3>2. ~noRd /\ ~noRn /\ at = 2 /\ x.mnem # <<"Mov">> BY <1>m, <2>5 DEF noRd, noRn, at, RmSlot
    <3>3. f = RecoverShift(x, 2, w.sf) BY <1>6, <3>2 DEF f
    <3> QED BY <2>1, <2>5, <3>1, <3>2, <3>3, AllRegsAre DEF shape, RnOf, RdOf
  <2> QED BY <1>5, <2>2, <2>3, <2>4, <2>5
<1>8. f.ok /\ f.v[1] = w.shift /\ f.v[2] = w.imm6 BY <1>7, <1>f
<1>9. i \div 2 = w.opc /\ i % 2 = w.n BY <1>0, <1>1, <1>6 DEF i
<1>10. back = w BY <1>w, <1>6, <1>7, <1>8, <1>9 DEF back
<1>11. EncodeLogicalShifted(x) = Ok(w) BY <1>3, <1>7, <1>8, <1>10 DEF With
<1> QED BY <1>1, <1>5, <1>6, <1>11 DEF c

(* What a conditional select shows: an alias, of a condition that has an
   inverse, or all its operands. *)
SelectForm(w, x) ==
  LET name == SelectName[2 * w.op + w.o2 + 1]
      rd   == Gp(w.sf, w.rd)
      rn   == Gp(w.sf, w.rn)
  IN  \/ /\ x.mnem \in {<<"Cset">>, <<"Csetm">>} /\ w.rm = w.rn /\ w.rn = 31 /\ CondOk(w.cond)
         /\ x.cnt = 2 /\ OpAt(x, 0) = rd /\ OpAt(x, 1) = CondOp(Invert(w.cond))
      \/ /\ x.mnem \in {<<"Cinc">>, <<"Cinv">>, <<"Cneg">>} /\ w.rm = w.rn /\ CondOk(w.cond)
         /\ x.cnt = 3 /\ OpAt(x, 0) = rd /\ OpAt(x, 1) = rn /\ OpAt(x, 2) = CondOp(Invert(w.cond))
      \/ /\ x.mnem = <<name>> /\ x.cnt = 4
         /\ OpAt(x, 0) = rd /\ OpAt(x, 1) = rn /\ OpAt(x, 2) = Gp(w.sf, w.rm) /\ OpAt(x, 3) = CondOp(w.cond)

LEMMA SelectShows ==
  ASSUME ValuesFit, NEW w \in SelectWord, NEW ip, NEW x, SameAs(x, DecodeSelect(w, ip)),
         x.code # <<"Invalid">>
  PROVE  /\ x.code = CodeOf(SelectName[2 * w.op + w.o2 + 1], w.sf)
         /\ w.s = 0 /\ w.o1 = 0 /\ SelectForm(w, x)
<1> DEFINE name == SelectName[2 * w.op + w.o2 + 1]
           c    == CodeOf(name, w.sf)
           rd   == Gp(w.sf, w.rd)
           rn   == Gp(w.sf, w.rn)
           rm   == Gp(w.sf, w.rm)
           both == w.rm = w.rn /\ CondOk(w.cond) /\ name # "Csel"
           inv  == CondOp(Invert(w.cond))
           cond == CondOp(w.cond)
           set  == IF name = "Csinc" THEN "Cset" ELSE "Csetm"
           one  == CASE name = "Csinc" -> "Cinc" [] name = "Csinv" -> "Cinv" [] OTHER -> "Cneg"
<1>1. ~(w.s # 0 \/ w.o1 # 0) BY Zenon DEF SameAs, DecodeSelect, NewInvalid
<1>2. \/ SameAs(x, Built(w, ip, c, <<set>>, <<rd, inv>>)) /\ both /\ w.rn = 31
      \/ SameAs(x, Built(w, ip, c, <<one>>, <<rd, rn, inv>>)) /\ both
      \/ SameAs(x, Built(w, ip, c, MnemonicOf(c), <<rd, rn, rm, cond>>))
  BY <1>1, Zenon DEF DecodeSelect, Alias, Plain
<1>3. set \in {"Cset", "Csetm"} /\ one \in {"Cinc", "Cinv", "Cneg"} OBVIOUS
<1> HIDE DEF name, rd, rn, rm, inv, cond, set, one
<1>4. CASE SameAs(x, Built(w, ip, c, <<set>>, <<rd, inv>>)) /\ both /\ w.rn = 31
  <2>1. x.code = c /\ x.mnem = <<set>> /\ x.cnt = 2 /\ OpAt(x, 0) = rd /\ OpAt(x, 1) = inv BY <1>4, Shows2
  <2>2. x.mnem \in {<<"Cset">>, <<"Csetm">>} BY <1>3, <2>1
  <2>3. SelectForm(w, x) BY <1>4, <2>1, <2>2 DEF SelectForm, rd, inv
  <2> QED BY <1>1, <2>1, <2>3 DEF name
<1>5. CASE SameAs(x, Built(w, ip, c, <<one>>, <<rd, rn, inv>>)) /\ both
  <2>1. /\ x.code = c /\ x.mnem = <<one>> /\ x.cnt = 3
        /\ OpAt(x, 0) = rd /\ OpAt(x, 1) = rn /\ OpAt(x, 2) = inv
    BY <1>5, Shows3
  <2>2. x.mnem \in {<<"Cinc">>, <<"Cinv">>, <<"Cneg">>} BY <1>3, <2>1
  <2>3. SelectForm(w, x) BY <1>5, <2>1, <2>2 DEF SelectForm, rd, rn, inv
  <2> QED BY <1>1, <2>1, <2>3 DEF name
<1>6. CASE SameAs(x, Built(w, ip, c, MnemonicOf(c), <<rd, rn, rm, cond>>))
  <2>1. /\ x.code = c /\ x.mnem = <<name>> /\ x.cnt = 4
        /\ OpAt(x, 0) = rd /\ OpAt(x, 1) = rn /\ OpAt(x, 2) = rm /\ OpAt(x, 3) = cond
    BY <1>6, Shows4, PlainMnemonic
  <2>2. SelectForm(w, x) BY <2>1 DEF SelectForm, rd, rn, rm, cond, name
  <2> QED BY <1>1, <2>1, <2>2 DEF name
<1> QED BY <1>2, <1>4, <1>5, <1>6

(* A condition that has an inverse is the inverse of its inverse. *)
LEMMA InvertTwice ==
  ASSUME NEW c \in 0..15
  PROVE  Invert(c) \in 0..15 /\ Invert(Invert(c)) = c
BY SMTT(60) DEF Invert

LEMMA CondBack ==
  ASSUME NEW x, NEW i, NEW c, OpAt(x, i) = CondOp(c)
  PROVE  IsCondAt(x, i) /\ ValAt(x, i) = c
BY DEF CondOp, Op, IsCondAt, ValAt

(* The conditional selects: the aliases give up Rm, or Rn and Rm, and show
   the inverted condition. *)
LEMMA SelectBack ==
  ASSUME ValuesFit, NEW w \in SelectWord, NEW ip, NEW x, SameAs(x, DecodeSelect(w, ip)),
         x.code # <<"Invalid">>
  PROVE  /\ EncodeSelect(x) = Ok(w)
         /\ Is64(x) = w.sf /\ Lists(SelectName, x.code[1]) /\ x.code = CodeOf(x.code[1], w.sf)
<1> DEFINE name == SelectName[2 * w.op + w.o2 + 1]
           i    == Place(SelectName, x.code[1])
           set  == x.mnem \in {<<"Cset">>, <<"Csetm">>}
           one  == x.mnem \in {<<"Cinc">>, <<"Cinv">>, <<"Cneg">>}
           at   == IF set THEN 1 ELSE IF one THEN 2 ELSE 3
           cond == ValAt(x, at)
           shape == AllRegs(x, 0..(at - 1)) /\ IsCondAt(x, at)
           back == [class |-> "select", sf |-> Is64(x), op |-> i \div 2, s |-> 0,
                    rm |-> IF set THEN 31 ELSE IF one THEN RegAt(x, 1) ELSE RegAt(x, 2),
                    cond |-> IF set \/ one THEN Invert(cond) ELSE cond, o1 |-> 0, o2 |-> i % 2,
                    rn |-> IF set THEN 31 ELSE RegAt(x, 1), rd |-> RegAt(x, 0)]
<1>0. /\ w.sf \in Bit /\ w.op \in {0, 1} /\ w.o2 \in {0, 1} /\ w.cond \in 0..15
      /\ w.rm \in RegNum /\ w.rn \in RegNum /\ w.rd \in RegNum
  BY DEF SelectWord, Bit
<1>w. w = [class |-> "select", sf |-> w.sf, op |-> w.op, s |-> w.s, rm |-> w.rm, cond |-> w.cond,
           o1 |-> w.o1, o2 |-> w.o2, rn |-> w.rn, rd |-> w.rd]
  BY DEF SelectWord
<1>1. Place(SelectName, name) = 2 * w.op + w.o2 /\ Lists(SelectName, name)
  <2>1. 2 * w.op + w.o2 \in Int /\ 2 * w.op + w.o2 + 1 \in DOMAIN SelectName /\ Distinct(SelectName)
    BY <1>0, RegTablesAreDistinct
  <2> QED BY <2>1, PlaceBack, Zenon
<1>2. name \in {"Csel", "Csinc", "Csinv", "Csneg"} BY <1>1, RegTableNames
<1>3. EncodeSelect(x) = With(shape, Ok(0), back) BY Zenon DEF EncodeSelect
<1>4. x.code = CodeOf(name, w.sf) /\ w.s = 0 /\ w.o1 = 0 /\ SelectForm(w, x) BY SelectShows
<1>5. Is64(x) = w.sf /\ x.code[1] = name BY <1>0, <1>4, WidthBack
<1>m. \A s : s \in {"Cset", "Csetm", "Cinc", "Cinv", "Cneg"} => <<s>> # <<name>> BY <1>2
<1>v. Invert(Invert(w.cond)) = w.cond
  <2>1. PICK cd \in 0..15 : cd = w.cond BY <1>0
  <2> QED BY <2>1, InvertTwice
<1>f. \/ /\ set /\ w.rm = 31 /\ w.rn = 31
         /\ OpAt(x, 0) = Gp(w.sf, w.rd) /\ OpAt(x, 1) = CondOp(Invert(w.cond))
      \/ /\ one /\ w.rm = w.rn
         /\ OpAt(x, 0) = Gp(w.sf, w.rd) /\ OpAt(x, 1) = Gp(w.sf, w.rn) /\ OpAt(x, 2) = CondOp(Invert(w.cond))
      \/ /\ x.mnem = <<name>>
         /\ OpAt(x, 0) = Gp(w.sf, w.rd) /\ OpAt(x, 1) = Gp(w.sf, w.rn) /\ OpAt(x, 2) = Gp(w.sf, w.rm)
         /\ OpAt(x, 3) = CondOp(w.cond)
  BY <1>4 DEF SelectForm
<1>6. 0..0 = {0} /\ 0..1 = {0, 1} /\ 0..2 = {0, 1, 2} OBVIOUS
<1> HIDE DEF name, i
<1>7. shape /\ back.rd = w.rd /\ back.rn = w.rn /\ back.rm = w.rm /\ back.cond = w.cond
  <2>1. CASE /\ set /\ w.rm = 31 /\ w.rn = 31
             /\ OpAt(x, 0) = Gp(w.sf, w.rd) /\ OpAt(x, 1) = CondOp(Invert(w.cond))
    <3>1. IsRegAt(x, 0) /\ RegAt(x, 0) = w.rd BY <1>0, <2>1, RegBack
    <3>2. IsCondAt(x, 1) /\ ValAt(x, 1) = Invert(w.cond) BY <2>1, CondBack
    <3>3. at = 1 BY <2>1
    <3> QED BY <1>6, <1>v, <2>1, <3>1, <3>2, <3>3 DEF AllRegs
  <2>2. CASE /\ one /\ w.rm = w.rn
             /\ OpAt(x, 0) = Gp(w.sf, w.rd) /\ OpAt(x, 1) = Gp(w.sf, w.rn) /\ OpAt(x, 2) = CondOp(Invert(w.cond))
    <3>1. IsRegAt(x, 0) /\ RegAt(x, 0) = w.rd /\ IsRegAt(x, 1) /\ RegAt(x, 1) = w.rn BY <1>0, <2>2, RegBack
    <3>2. IsCondAt(x, 2) /\ ValAt(x, 2) = Invert(w.cond) BY <2>2, CondBack
    <3>3. ~set /\ at = 2 BY <2>2
    <3> QED BY <1>6, <1>v, <2>2, <3>1, <3>2, <3>3 DEF AllRegs
  <2>3. CASE /\ x.mnem = <<name>>
             /\ OpAt(x, 0) = Gp(w.sf, w.rd) /\ OpAt(x, 1) = Gp(w.sf, w.rn) /\ OpAt(x, 2) = Gp(w.sf, w.rm)
             /\ OpAt(x, 3) = CondOp(w.cond)
    <3>1. /\ IsRegAt(x, 0) /\ RegAt(x, 0) = w.rd /\ IsRegAt(x, 1) /\ RegAt(x, 1) = w.rn
          /\ IsRegAt(x, 2) /\ RegAt(x, 2) = w.rm
      BY <1>0, <2>3, RegBack
    <3>2. IsCondAt(x, 3) /\ ValAt(x, 3) = w.cond BY <2>3, CondBack
    <3>3. ~set /\ ~one BY <1>m, <2>3
    <3>4. at = 3 BY <3>3
    <3> QED BY <1>6, <2>3, <3>1, <3>2, <3>3, <3>4 DEF AllRegs
  <2> QED BY <1>f, <2>1, <2>2, <2>3
<1>8. i \div 2 = w.op /\ i % 2 = w.o2 BY <1>0, <1>1, <1>5 DEF i
<1>9. back = w
  <2> HIDE DEF set, one, at, cond
  <2> QED BY <1>w, <1>4, <1>5, <1>7, <1>8
<1>10. EncodeSelect(x) = Ok(w)
  <2> HIDE DEF shape, back
  <2> QED BY <1>3, <1>7, <1>9 DEF With, Ok
<1> QED BY <1>1, <1>4, <1>5, <1>10

(* The shifted additions and subtractions, with their CMP, CMN, NEG and
   NEGS. *)
LEMMA AddSubShiftedBack ==
  ASSUME ValuesFit, NEW w \in AddSubShiftedWord, NEW ip, NEW x, SameAs(x, DecodeAddSubShifted(w, ip)),
         x.code # <<"Invalid">>
  PROVE  /\ EncodeAddSubShifted(x) = Ok(w)
         /\ Is64(x) = w.sf /\ Lists(AddSubShiftedName, x.code[1]) /\ x.code = CodeOf(x.code[1], w.sf)
<1> DEFINE name == AddSubShiftedName[2 * w.op + w.s + 1]
           c    == CodeOf(name, w.sf)
           rd   == Gp(w.sf, w.rd)
           rn   == Gp(w.sf, w.rn)
           rm   == RegShifted(w.sf, w.rm, w.shift, w.imm6)
           cmp  == CompareAlias(w.op)
           neg  == IF w.s = 1 THEN "Negs" ELSE "Neg"
           i    == Place(AddSubShiftedName, x.code[1])
           noRd == x.mnem \in {<<"Cmp">>, <<"Cmn">>}
           noRn == x.mnem \in {<<"Neg">>, <<"Negs">>}
           at   == RmSlot(noRd, noRn)
           g    == RecoverShift(x, at, Is64(x))
           f    == IF g.ok /\ g.v[1] = 3 THEN BadOperand ELSE g
           shape == AllRegs(x, 0..at)
           back == [class |-> "addsub", sf |-> Is64(x), op |-> i \div 2, s |-> i % 2,
                    shift |-> g.v[1], rm |-> RegAt(x, at), imm6 |-> g.v[2],
                    rn |-> RnOf(x, noRd, noRn), rd |-> RdOf(x, noRd)]
<1>0. /\ w.sf \in Bit /\ w.op \in {0, 1} /\ w.s \in {0, 1} /\ w.shift \in 0..3 /\ w.imm6 \in 0..63
      /\ w.rm \in RegNum /\ w.rn \in RegNum /\ w.rd \in RegNum
  BY DEF AddSubShiftedWord, Bit, Imm6
<1>w. w = [class |-> "addsub", sf |-> w.sf, op |-> w.op, s |-> w.s, shift |-> w.shift,
           rm |-> w.rm, imm6 |-> w.imm6, rn |-> w.rn, rd |-> w.rd]
  BY DEF AddSubShiftedWord
<1>1. Place(AddSubShiftedName, name) = 2 * w.op + w.s /\ Lists(AddSubShiftedName, name)
  <2>1. /\ 2 * w.op + w.s \in Int /\ 2 * w.op + w.s + 1 \in DOMAIN AddSubShiftedName
        /\ Distinct(AddSubShiftedName)
    BY <1>0, RegTablesAreDistinct
  <2> QED BY <2>1, PlaceBack, Zenon
<1>2. name \in {"AddShifted", "AddsShifted", "SubShifted", "SubsShifted"} BY <1>1, RegTableNames
<1>3. EncodeAddSubShifted(x) = With(shape, f, back) BY Zenon DEF EncodeAddSubShifted
<1>4. ~(w.shift = 3 \/ (w.sf = 0 /\ w.imm6 >= 32)) BY Zenon DEF SameAs, DecodeAddSubShifted, NewInvalid
<1>f. PICK shift \in 0..3, amt \in 0..63 : w.shift = shift /\ w.imm6 = amt BY <1>0
<1>n. w.sf = 0 => amt < 32
  <2>1. w.sf = 0 => ~(amt >= 32) BY <1>4, <1>f
  <2> QED BY <2>1
<1>t. ~Narrow(w.sf, amt) BY <1>n, NarrowIs
<1>m. \A s : s \in {"Cmp", "Cmn", "Neg", "Negs"} => <<s>> # <<name>> BY <1>2
<1>a. <<cmp>> \in {<<"Cmp">>, <<"Cmn">>} /\ <<neg>> \in {<<"Neg">>, <<"Negs">>} BY DEF CompareAlias
<1> HIDE DEF name, c, rd, rn, rm, i, noRd, noRn, at, f, g, shape, back, cmp, neg
<1>5. /\ x.code = c
      /\ \/ noRd /\ ~noRn /\ w.rd = 31 /\ OpAt(x, 0) = rn /\ OpAt(x, 1) = rm
         \/ ~noRd /\ noRn /\ w.rn = 31 /\ OpAt(x, 0) = rd /\ OpAt(x, 1) = rm
         \/ ~noRd /\ ~noRn /\ OpAt(x, 0) = rd /\ OpAt(x, 1) = rn /\ OpAt(x, 2) = rm
  <2>1. \/ SameAs(x, Built(w, ip, c, <<cmp>>, <<rn, rm>>)) /\ w.rd = 31
        \/ SameAs(x, Built(w, ip, c, <<neg>>, <<rd, rm>>)) /\ w.rn = 31
        \/ SameAs(x, Built(w, ip, c, MnemonicOf(c), <<rd, rn, rm>>))
    BY <1>4, Zenon DEF DecodeAddSubShifted, Alias, Plain, name, c, rd, rn, rm, cmp, neg
  <2>2. CASE SameAs(x, Built(w, ip, c, <<cmp>>, <<rn, rm>>)) /\ w.rd = 31
    <3>1. x.code = c /\ x.mnem = <<cmp>> /\ OpAt(x, 0) = rn /\ OpAt(x, 1) = rm BY <2>2, Shows2
    <3>2. noRd /\ ~noRn BY <1>a, <3>1 DEF noRd, noRn
    <3> QED BY <2>2, <3>1, <3>2
  <2>3. CASE SameAs(x, Built(w, ip, c, <<neg>>, <<rd, rm>>)) /\ w.rn = 31
    <3>1. x.code = c /\ x.mnem = <<neg>> /\ OpAt(x, 0) = rd /\ OpAt(x, 1) = rm BY <2>3, Shows2
    <3>2. ~noRd /\ noRn BY <1>a, <3>1 DEF noRd, noRn
    <3> QED BY <2>3, <3>1, <3>2
  <2>4. CASE SameAs(x, Built(w, ip, c, MnemonicOf(c), <<rd, rn, rm>>))
    <3>1. x.code = c /\ x.mnem = <<name>> /\ OpAt(x, 0) = rd /\ OpAt(x, 1) = rn /\ OpAt(x, 2) = rm
      BY <2>4, Shows3, PlainMnemonic DEF c
    <3>2. ~noRd /\ ~noRn BY <1>m, <3>1 DEF noRd, noRn
    <3> QED BY <3>1, <3>2
  <2> QED BY <2>1, <2>2, <2>3, <2>4
<1>6. Is64(x) = w.sf /\ x.code[1] = name
  <2>1. x.code = CodeOf(name, w.sf) BY <1>5 DEF c
  <2> QED BY <1>0, <2>1, WidthBack
<1>7. /\ shape /\ RegAt(x, at) = w.rm /\ RnOf(x, noRd, noRn) = w.rn /\ RdOf(x, noRd) = w.rd
      /\ g.ok /\ g.v[1] = shift /\ g.v[2] = amt
  <2>1. ASSUME NEW k, OpAt(x, k) = rm
        PROVE  /\ IsRegAt(x, k) /\ RegAt(x, k) = w.rm /\ RecoverShift(x, k, w.sf).ok
               /\ RecoverShift(x, k, w.sf).v[1] = shift /\ RecoverShift(x, k, w.sf).v[2] = amt
    <3>1. OpAt(x, k) = RegShifted(w.sf, w.rm, shift, amt) BY <1>f, <2>1 DEF rm
    <3> QED BY <1>0, <1>t, <3>1, ShiftRecovered
  <2>2. g = RecoverShift(x, at, w.sf) BY <1>6 DEF g
  <2>3. CASE noRd /\ ~noRn /\ w.rd = 31 /\ OpAt(x, 0) = rn /\ OpAt(x, 1) = rm
    <3>1. IsRegAt(x, 0) /\ RegAt(x, 0) = w.rn BY <1>0, <2>3, RegBack DEF rn
    <3>2. at = 1 BY <2>3 DEF at, RmSlot
    <3> QED BY <2>1, <2>2, <2>3, <3>1, <3>2, AllRegsAre DEF shape, RnOf, RdOf
  <2>4. CASE ~noRd /\ noRn /\ w.rn = 31 /\ OpAt(x, 0) = rd /\ OpAt(x, 1) = rm
    <3>1. IsRegAt(x, 0) /\ RegAt(x, 0) = w.rd BY <1>0, <2>4, RegBack DEF rd
    <3>2. at = 1 BY <2>4 DEF at, RmSlot
    <3> QED BY <2>1, <2>2, <2>4, <3>1, <3>2, AllRegsAre DEF shape, RnOf, RdOf
  <2>5. CASE ~noRd /\ ~noRn /\ OpAt(x, 0) = rd /\ OpAt(x, 1) = rn /\ OpAt(x, 2) = rm
    <3>1. IsRegAt(x, 0) /\ RegAt(x, 0) = w.rd /\ IsRegAt(x, 1) /\ RegAt(x, 1) = w.rn
      BY <1>0, <2>5, RegBack DEF rd, rn
    <3>2. at = 2 BY <2>5 DEF at, RmSlot
    <3> QED BY <2>1, <2>2, <2>5, <3>1, <3>2, AllRegsAre DEF shape, RnOf, RdOf
  <2> QED BY <1>5, <2>3, <2>4, <2>5
<1>8. f = g /\ f.ok
  <2>1. ~(g.v[1] = 3) BY <1>4, <1>7, <1>f
  <2> QED BY <1>7, <2>1 DEF f
<1>9. i \div 2 = w.op /\ i % 2 = w.s BY <1>0, <1>1, <1>6 DEF i
<1>10. back = w BY <1>w, <1>6, <1>7, <1>f, <1>9 DEF back
<1>11. EncodeAddSubShifted(x) = Ok(w) BY <1>3, <1>7, <1>8, <1>10 DEF With
<1> QED BY <1>1, <1>5, <1>6, <1>11 DEF c

(* A register next to an LSL spelled for its extend, or with the extend. *)
LEMMA ExtendedRmBack ==
  ASSUME NEW x, NEW i, NEW w, NEW lsl \in BOOLEAN, w.rm \in RegNum, w.imm3 \in 0..7, w.option \in 0..7,
         OpAt(x, i) = ExtendedRm(w, lsl)
  PROVE  /\ IsRegAt(x, i) /\ RegAt(x, i) = w.rm /\ ShiftAt(x, i)[2] = w.imm3
         /\ ExtendAt(x, i) = IF lsl THEN NoExtend ELSE w.option
<1> DEFINE wide == IF w.sf = 1 /\ w.option % 4 = 3 THEN 1 ELSE 0
<1>0. PICK rm \in RegNum, amt \in 0..63, zero \in 0..3 : rm = w.rm /\ amt = w.imm3 /\ zero = 0 OBVIOUS
<1>1. CASE lsl
  <2>1. OpAt(x, i) = RegShifted(wide, w.rm, 0, w.imm3) BY <1>1, Zenon DEF ExtendedRm
  <2> HIDE DEF wide
  <2>2. OpAt(x, i) = RegShifted(wide, rm, zero, amt) BY <1>0, <2>1
  <2>3. /\ IsRegAt(x, i) /\ RegAt(x, i) = rm
        /\ ShiftAt(x, i) = <<ShiftName[zero + 1], amt>> /\ ExtendAt(x, i) = NoExtend
    BY <2>2, ShiftedBack
  <2> QED BY <1>0, <1>1, <2>3
<1>2. CASE ~lsl
  <2> DEFINE o == OpAt(x, i)
  <2>1. o = [Gp(wide, w.rm) EXCEPT !.dec = <<"Lsl", w.imm3, w.option>>] BY <1>2, Zenon DEF ExtendedRm
  <2> HIDE DEF wide
  <2>2. /\ o.kind = "Reg" /\ o.reg = <<IF wide = 1 THEN "X" ELSE "W", w.rm>>
        /\ o.dec = <<"Lsl", w.imm3, w.option>>
    BY <2>1 DEF Gp, RegOp, Op
  <2>3. o.dec # NoDec /\ o.dec[1] # NoShift BY <2>2 DEF NoDec, NoShift
  <2> QED BY <1>2, <2>2, <2>3 DEF IsRegAt, RegAt, NumberOf, ShiftAt, ExtendAt
<1> QED BY <1>1, <1>2

(* The extended additions and subtractions, with their CMP and CMN. *)
LEMMA ExtendedBack ==
  ASSUME ValuesFit, NEW w \in ExtendedWord, NEW ip, NEW x, SameAs(x, DecodeExtended(w, ip)),
         x.code # <<"Invalid">>
  PROVE  /\ EncodeExtended(x) = Ok(w)
         /\ Is64(x) = w.sf /\ Lists(ExtendedName, x.code[1]) /\ x.code = CodeOf(x.code[1], w.sf)
<1> DEFINE name == ExtendedName[2 * w.op + w.s + 1]
           c    == CodeOf(name, w.sf)
           cmp  == w.s = 1 /\ w.rd = 31
           sp   == w.rn = 31 \/ (~cmp /\ w.rd = 31)
           lsl  == w.option = LslOption(w.sf) /\ sp
           rm   == ExtendedRm(w, lsl)
           rn   == GpSp(w.sf, w.rn)
           rd   == IF w.s = 1 THEN Gp(w.sf, w.rd) ELSE GpSp(w.sf, w.rd)
           alias == CompareAlias(w.op)
           i    == Place(ExtendedName, x.code[1])
           noRd == x.mnem \in {<<"Cmp">>, <<"Cmn">>}
           at   == RmSlot(noRd, FALSE)
           amt  == ShiftAt(x, at)[2]
           ext  == ExtendAt(x, at)
           shape == AllRegs(x, 0..at)
           f    == IF amt > 4 THEN BadImmediate ELSE Ok(amt)
           back == [class |-> "extended", sf |-> Is64(x), op |-> i \div 2, s |-> i % 2, opt |-> 0,
                    rm |-> RegAt(x, at),
                    option |-> IF ext = NoExtend THEN LslOptionOf(Is64(x)) ELSE ext, imm3 |-> amt,
                    rn |-> RnOf(x, noRd, FALSE), rd |-> RdOf(x, noRd)]
<1>0. /\ w.sf \in Bit /\ w.op \in {0, 1} /\ w.s \in {0, 1} /\ w.option \in 0..7 /\ w.imm3 \in 0..7
      /\ w.rm \in RegNum /\ w.rn \in RegNum /\ w.rd \in RegNum
  BY DEF ExtendedWord, Bit
<1>w. w = [class |-> "extended", sf |-> w.sf, op |-> w.op, s |-> w.s, opt |-> w.opt, rm |-> w.rm,
           option |-> w.option, imm3 |-> w.imm3, rn |-> w.rn, rd |-> w.rd]
  BY DEF ExtendedWord
<1>1. Place(ExtendedName, name) = 2 * w.op + w.s /\ Lists(ExtendedName, name)
  <2>1. 2 * w.op + w.s \in Int /\ 2 * w.op + w.s + 1 \in DOMAIN ExtendedName /\ Distinct(ExtendedName)
    BY <1>0, RegTablesAreDistinct
  <2> QED BY <2>1, PlaceBack, Zenon
<1>2. name \in {"AddExtended", "AddsExtended", "SubExtended", "SubsExtended"} BY <1>1, RegTableNames
<1>3. EncodeExtended(x) = With(shape, f, back) BY Zenon DEF EncodeExtended
<1>4. ~(w.opt # 0 \/ w.imm3 > 4) BY Zenon DEF SameAs, DecodeExtended, NewInvalid
<1>m. \A s : s \in {"Cmp", "Cmn"} => <<s>> # <<name>> BY <1>2
<1>a. <<alias>> \in {<<"Cmp">>, <<"Cmn">>} BY DEF CompareAlias
<1>l. lsl \in BOOLEAN /\ (lsl => w.option = LslOption(w.sf)) OBVIOUS
<1> HIDE DEF name, c, rd, rn, rm, i, noRd, at, amt, ext, f, shape, back, alias, lsl
<1>5. /\ x.code = c
      /\ \/ noRd /\ w.rd = 31 /\ OpAt(x, 0) = rn /\ OpAt(x, 1) = rm
         \/ ~noRd /\ OpAt(x, 0) = rd /\ OpAt(x, 1) = rn /\ OpAt(x, 2) = rm
  <2>1. \/ SameAs(x, Built(w, ip, c, <<alias>>, <<rn, rm>>)) /\ w.rd = 31
        \/ SameAs(x, Built(w, ip, c, MnemonicOf(c), <<rd, rn, rm>>))
    BY <1>4, Zenon DEF DecodeExtended, Alias, Plain, name, c, rd, rn, rm, alias, lsl
  <2>2. CASE SameAs(x, Built(w, ip, c, <<alias>>, <<rn, rm>>)) /\ w.rd = 31
    <3>1. x.code = c /\ x.mnem = <<alias>> /\ OpAt(x, 0) = rn /\ OpAt(x, 1) = rm BY <2>2, Shows2
    <3>2. noRd BY <1>a, <3>1 DEF noRd
    <3> QED BY <2>2, <3>1, <3>2
  <2>3. CASE SameAs(x, Built(w, ip, c, MnemonicOf(c), <<rd, rn, rm>>))
    <3>1. x.code = c /\ x.mnem = <<name>> /\ OpAt(x, 0) = rd /\ OpAt(x, 1) = rn /\ OpAt(x, 2) = rm
      BY <2>3, Shows3, PlainMnemonic DEF c
    <3>2. ~noRd BY <1>m, <3>1 DEF noRd
    <3> QED BY <3>1, <3>2
  <2> QED BY <2>1, <2>2, <2>3
<1>6. Is64(x) = w.sf /\ x.code[1] = name
  <2>1. x.code = CodeOf(name, w.sf) BY <1>5 DEF c
  <2> QED BY <1>0, <2>1, WidthBack
<1>7. /\ shape /\ RegAt(x, at) = w.rm /\ RnOf(x, noRd, FALSE) = w.rn /\ RdOf(x, noRd) = w.rd
      /\ amt = w.imm3 /\ ext = IF lsl THEN NoExtend ELSE w.option
  <2>1. ASSUME NEW k, OpAt(x, k) = rm
        PROVE  /\ IsRegAt(x, k) /\ RegAt(x, k) = w.rm /\ ShiftAt(x, k)[2] = w.imm3
               /\ ExtendAt(x, k) = IF lsl THEN NoExtend ELSE w.option
    <3>1. OpAt(x, k) = ExtendedRm(w, lsl) BY <2>1 DEF rm
    <3>2. lsl \in BOOLEAN /\ w.rm \in RegNum /\ w.imm3 \in 0..7 /\ w.option \in 0..7 BY <1>0, <1>l
    <3> QED BY <3>1, <3>2, ExtendedRmBack
  <2>2. CASE noRd /\ w.rd = 31 /\ OpAt(x, 0) = rn /\ OpAt(x, 1) = rm
    <3>1. IsRegAt(x, 0) /\ RegAt(x, 0) = w.rn BY <1>0, <2>2, RegBack DEF rn
    <3>2. at = 1 BY <2>2 DEF at, RmSlot
    <3> QED BY <2>1, <2>2, <3>1, <3>2, AllRegsAre DEF shape, RnOf, RdOf, amt, ext
  <2>3. CASE ~noRd /\ OpAt(x, 0) = rd /\ OpAt(x, 1) = rn /\ OpAt(x, 2) = rm
    <3>0. OpAt(x, 0) = Gp(w.sf, w.rd) \/ OpAt(x, 0) = GpSp(w.sf, w.rd) BY <2>3 DEF rd
    <3>1. IsRegAt(x, 0) /\ RegAt(x, 0) = w.rd BY <1>0, <3>0, RegBack
    <3>2. IsRegAt(x, 1) /\ RegAt(x, 1) = w.rn BY <1>0, <2>3, RegBack DEF rn
    <3>3. at = 2 BY <2>3 DEF at, RmSlot
    <3> QED BY <2>1, <2>3, <3>1, <3>2, <3>3, AllRegsAre DEF shape, RnOf, RdOf, amt, ext
  <2> QED BY <1>5, <2>2, <2>3
<1>8. f.ok
  <2>1. PICK n \in 0..7 : n = w.imm3 BY <1>0
  <2>2. ~(n > 4) BY <1>4, <2>1
  <2>3. ~(amt > 4) BY <1>7, <2>1, <2>2
  <2> QED BY <2>3 DEF f, Ok
<1>9. i \div 2 = w.op /\ i % 2 = w.s BY <1>0, <1>1, <1>6 DEF i
<1>o. (IF ext = NoExtend THEN LslOptionOf(Is64(x)) ELSE ext) = w.option
  <2>1. w.option # NoExtend BY <1>0 DEF NoExtend
  <2>2. LslOptionOf(Is64(x)) = LslOption(w.sf) BY <1>6 DEF LslOptionOf, LslOption
  <2> QED BY <1>7, <1>l, <2>1, <2>2
<1>10. back = w BY <1>w, <1>4, <1>6, <1>7, <1>9, <1>o DEF back
<1>11. EncodeExtended(x) = Ok(w) BY <1>3, <1>7, <1>8, <1>10 DEF With
<1> QED BY <1>1, <1>5, <1>6, <1>11 DEF c

(* The additions with carry, with their NGC and NGCS. *)
LEMMA CarryBack ==
  ASSUME ValuesFit, NEW w \in CarryWord, w.op3 = 0, NEW ip, NEW x, SameAs(x, DecodeCarry(w, ip))
  PROVE  /\ EncodeCarry(x) = Ok(w)
         /\ Is64(x) = w.sf /\ Lists(CarryName, x.code[1]) /\ x.code = CodeOf(x.code[1], w.sf)
<1> DEFINE name == CarryName[2 * w.op + w.s + 1]
           c    == CodeOf(name, w.sf)
           rd   == Gp(w.sf, w.rd)
           rn   == Gp(w.sf, w.rn)
           rm   == Gp(w.sf, w.rm)
           neg  == IF w.s = 1 THEN "Ngcs" ELSE "Ngc"
           i    == Place(CarryName, x.code[1])
           noRn == x.mnem \in {<<"Ngc">>, <<"Ngcs">>}
           at   == RmSlot(FALSE, noRn)
           shape == AllRegs(x, 0..at)
           back == [class |-> "carry", sf |-> Is64(x), op |-> i \div 2, s |-> i % 2,
                    rm |-> RegAt(x, at), op3 |-> 0, rn |-> RnOf(x, FALSE, noRn), rd |-> RegAt(x, 0)]
<1>0. /\ w.sf \in Bit /\ w.op \in {0, 1} /\ w.s \in {0, 1}
      /\ w.rm \in RegNum /\ w.rn \in RegNum /\ w.rd \in RegNum
  BY DEF CarryWord, Bit
<1>w. w = [class |-> "carry", sf |-> w.sf, op |-> w.op, s |-> w.s, rm |-> w.rm, op3 |-> w.op3,
           rn |-> w.rn, rd |-> w.rd]
  BY DEF CarryWord
<1>1. Place(CarryName, name) = 2 * w.op + w.s /\ Lists(CarryName, name)
  <2>1. 2 * w.op + w.s \in Int /\ 2 * w.op + w.s + 1 \in DOMAIN CarryName /\ Distinct(CarryName)
    BY <1>0, RegTablesAreDistinct
  <2> QED BY <2>1, PlaceBack, Zenon
<1>2. name \in {"Adc", "Adcs", "Sbc", "Sbcs"} BY <1>1, RegTableNames
<1>3. EncodeCarry(x) = With(shape, Ok(0), back) BY Zenon DEF EncodeCarry
<1>m. \A s : s \in {"Ngc", "Ngcs"} => <<s>> # <<name>> BY <1>2
<1>a. <<neg>> \in {<<"Ngc">>, <<"Ngcs">>} OBVIOUS
<1> HIDE DEF name, c, rd, rn, rm, i, noRn, at, shape, back, neg
<1>5. /\ x.code = c
      /\ \/ noRn /\ w.rn = 31 /\ OpAt(x, 0) = rd /\ OpAt(x, 1) = rm
         \/ ~noRn /\ OpAt(x, 0) = rd /\ OpAt(x, 1) = rn /\ OpAt(x, 2) = rm
  <2>1. \/ SameAs(x, Built(w, ip, c, <<neg>>, <<rd, rm>>)) /\ w.rn = 31
        \/ SameAs(x, Built(w, ip, c, MnemonicOf(c), <<rd, rn, rm>>))
    BY Zenon DEF DecodeCarry, Alias, Plain, name, c, rd, rn, rm, neg
  <2>2. CASE SameAs(x, Built(w, ip, c, <<neg>>, <<rd, rm>>)) /\ w.rn = 31
    <3>1. x.code = c /\ x.mnem = <<neg>> /\ OpAt(x, 0) = rd /\ OpAt(x, 1) = rm BY <2>2, Shows2
    <3>2. noRn BY <1>a, <3>1 DEF noRn
    <3> QED BY <2>2, <3>1, <3>2
  <2>3. CASE SameAs(x, Built(w, ip, c, MnemonicOf(c), <<rd, rn, rm>>))
    <3>1. x.code = c /\ x.mnem = <<name>> /\ OpAt(x, 0) = rd /\ OpAt(x, 1) = rn /\ OpAt(x, 2) = rm
      BY <2>3, Shows3, PlainMnemonic DEF c
    <3>2. ~noRn BY <1>m, <3>1 DEF noRn
    <3> QED BY <3>1, <3>2
  <2> QED BY <2>1, <2>2, <2>3
<1>6. Is64(x) = w.sf /\ x.code[1] = name
  <2>1. x.code = CodeOf(name, w.sf) BY <1>5 DEF c
  <2> QED BY <1>0, <2>1, WidthBack
<1>7. shape /\ RegAt(x, at) = w.rm /\ RnOf(x, FALSE, noRn) = w.rn /\ RegAt(x, 0) = w.rd
  <2>1. CASE noRn /\ w.rn = 31 /\ OpAt(x, 0) = rd /\ OpAt(x, 1) = rm
    <3>1. IsRegAt(x, 0) /\ RegAt(x, 0) = w.rd /\ IsRegAt(x, 1) /\ RegAt(x, 1) = w.rm
      BY <1>0, <2>1, RegBack DEF rd, rm
    <3>2. at = 1 BY <2>1 DEF at, RmSlot
    <3> QED BY <2>1, <3>1, <3>2, AllRegsAre DEF shape, RnOf
  <2>2. CASE ~noRn /\ OpAt(x, 0) = rd /\ OpAt(x, 1) = rn /\ OpAt(x, 2) = rm
    <3>1. /\ IsRegAt(x, 0) /\ RegAt(x, 0) = w.rd /\ IsRegAt(x, 1) /\ RegAt(x, 1) = w.rn
          /\ IsRegAt(x, 2) /\ RegAt(x, 2) = w.rm
      BY <1>0, <2>2, RegBack DEF rd, rn, rm
    <3>2. at = 2 BY <2>2 DEF at, RmSlot
    <3> QED BY <2>2, <3>1, <3>2, AllRegsAre DEF shape, RnOf
  <2> QED BY <1>5, <2>1, <2>2
<1>9. i \div 2 = w.op /\ i % 2 = w.s BY <1>0, <1>1, <1>6 DEF i
<1>10. back = w BY <1>w, <1>6, <1>7, <1>9 DEF back
<1>11. EncodeCarry(x) = Ok(w) BY <1>3, <1>7, <1>10 DEF With, Ok
<1> QED BY <1>1, <1>5, <1>6, <1>11 DEF c

(* RMIF: word<20:15> is Rm and the top bit of op3. *)
LEMMA RmifBack ==
  ASSUME ValuesFit, NEW w \in CarryWord, w.op3 % 32 = 1, NEW ip, NEW x, SameAs(x, DecodeRmif(w, ip)),
         x.code # <<"Invalid">>
  PROVE  EncodeRmif(x) = Ok(w) /\ Is64(x) = w.sf /\ x.code = CodeOf("Rmif", w.sf)
<1> DEFINE imm6  == ValAt(x, 1)
           mask  == ValAt(x, 2)
           shape == IsRegAt(x, 0) /\ IsImmAt(x, 1) /\ IsImmAt(x, 2)
           f     == IF imm6 > 63 \/ mask > 15 THEN BadImmediate ELSE Ok(0)
           back  == [class |-> "carry", sf |-> 1, op |-> 0, s |-> 1, rm |-> RmifSplit(imm6).rm,
                     op3 |-> 32 * RmifSplit(imm6).low + 1, rn |-> RegAt(x, 0), rd |-> mask]
<1>0. w.rm \in RegNum /\ w.rn \in RegNum /\ w.rd \in 0..31 /\ w.op3 \in 0..63 BY DEF CarryWord, RegNum, Imm6
<1>w. w = [class |-> "carry", sf |-> w.sf, op |-> w.op, s |-> w.s, rm |-> w.rm, op3 |-> w.op3,
           rn |-> w.rn, rd |-> w.rd]
  BY DEF CarryWord
<1>1. ~(<<w.sf, w.op, w.s>> # <<1, 0, 1>> \/ w.rd >= 16) BY Zenon DEF SameAs, DecodeRmif, NewInvalid
<1>2. w.sf = 1 /\ w.op = 0 /\ w.s = 1 BY <1>1
<1>3. SameAs(x, Built(w, ip, CodeOf("Rmif", 1), MnemonicOf(CodeOf("Rmif", 1)),
                      <<Gp(1, w.rn), ImmOp(Imm20_15(w)), ImmOp(w.rd)>>))
  BY <1>1, Zenon DEF DecodeRmif, Plain
<1>4. /\ x.code = CodeOf("Rmif", 1)
      /\ OpAt(x, 0) = Gp(1, w.rn) /\ OpAt(x, 1) = ImmOp(Imm20_15(w)) /\ OpAt(x, 2) = ImmOp(w.rd)
  BY <1>3, Shows3
<1>5. Is64(x) = 1
  <2>1. 1 \in Bit BY DEF Bit
  <2> QED BY <1>4, <2>1, WidthBack
<1>6. EncodeRmif(x) = With(shape, f, back) BY Zenon DEF EncodeRmif
<1>7. IsRegAt(x, 0) /\ RegAt(x, 0) = w.rn BY <1>0, <1>4, RegBack
<1>8. IsImmAt(x, 1) /\ imm6 = Imm20_15(w) /\ IsImmAt(x, 2) /\ mask = w.rd BY <1>4, ImmBack
<1>9. PICK m \in 0..31, p \in 0..63, d \in 0..31 : m = w.rm /\ p = w.op3 /\ d = w.rd BY <1>0 DEF RegNum
<1>10. p = 1 \/ p = 33
  <2>1. p % 32 = 1 BY <1>9
  <2> QED BY <2>1
<1>11. imm6 = 2 * m + p \div 32 BY <1>8, <1>9 DEF Imm20_15
<1>12. ~(d > 15)
  <2>1. ~(d >= 16) BY <1>1, <1>9
  <2> QED BY <2>1
<1> HIDE DEF imm6, mask, back, shape, f
<1>13. RmifSplit(imm6).rm = m /\ 32 * RmifSplit(imm6).low + 1 = p /\ ~(imm6 > 63)
  <2>1. CASE p = 1
    <3>1. imm6 = 2 * m BY <1>11, <2>1
    <3>2. (2 * m) \div 2 = m /\ (2 * m) % 2 = 0 /\ ~(2 * m > 63) OBVIOUS
    <3> QED BY <2>1, <3>1, <3>2 DEF RmifSplit
  <2>2. CASE p = 33
    <3>1. imm6 = 2 * m + 1 BY <1>11, <2>2
    <3>2. (2 * m + 1) \div 2 = m /\ (2 * m + 1) % 2 = 1 /\ ~(2 * m + 1 > 63) OBVIOUS
    <3> QED BY <2>2, <3>1, <3>2 DEF RmifSplit
  <2> QED BY <1>10, <2>1, <2>2
<1>14. f.ok
  <2>1. ~(mask > 15) BY <1>8, <1>9, <1>12
  <2> QED BY <1>13, <2>1 DEF f, Ok
<1>15. back = w BY <1>w, <1>2, <1>7, <1>8, <1>9, <1>13 DEF back
<1>16. shape BY <1>7, <1>8 DEF shape
<1> QED BY <1>2, <1>4, <1>5, <1>6, <1>14, <1>15, <1>16 DEF With

(* SETF8 and SETF16: word<20:15> is zero, so op3 is 2 or 18. *)
LEMMA SetfBack ==
  ASSUME ValuesFit, NEW w \in CarryWord, w.op3 % 16 = 2, NEW ip, NEW x, SameAs(x, DecodeSetf(w, ip)),
         x.code # <<"Invalid">>
  PROVE  /\ EncodeSetf(x) = Ok(w) /\ Is64(x) = w.sf /\ x.code[1] \in {"Setf8", "Setf16"}
         /\ x.code = CodeOf(x.code[1], w.sf)
<1> DEFINE name  == IF (w.op3 \div 16) % 2 = 0 THEN "Setf8" ELSE "Setf16"
           shape == IsRegAt(x, 0)
           back  == [class |-> "carry", sf |-> 0, op |-> 0, s |-> 1, rm |-> 0,
                     op3 |-> IF x.code[1] = "Setf16" THEN 18 ELSE 2, rn |-> RegAt(x, 0), rd |-> 13]
<1>0. w.rm \in 0..31 /\ w.rn \in RegNum /\ w.op3 \in 0..63 BY DEF CarryWord, RegNum, Imm6
<1>w. w = [class |-> "carry", sf |-> w.sf, op |-> w.op, s |-> w.s, rm |-> w.rm, op3 |-> w.op3,
           rn |-> w.rn, rd |-> w.rd]
  BY DEF CarryWord
<1>1. ~(<<w.sf, w.op, w.s>> # <<0, 0, 1>> \/ Imm20_15(w) # 0 \/ w.rd # 13)
  BY Zenon DEF SameAs, DecodeSetf, NewInvalid
<1>2. w.sf = 0 /\ w.op = 0 /\ w.s = 1 /\ w.rd = 13 BY <1>1
<1>3. SameAs(x, Built(w, ip, CodeOf(name, 0), MnemonicOf(CodeOf(name, 0)), <<Gp(0, w.rn)>>))
  BY <1>1, Zenon DEF DecodeSetf, Plain
<1>4. PICK m \in 0..31, p \in 0..63 : m = w.rm /\ p = w.op3 BY <1>0
<1>5. (p = 2 \/ p = 18) /\ m = 0
  <2>1. p % 16 = 2 /\ 2 * m + p \div 32 = 0 BY <1>1, <1>4 DEF Imm20_15
  <2> QED BY <2>1
<1>6. name = IF p = 18 THEN "Setf16" ELSE "Setf8"
  <2>1. (2 \div 16) % 2 = 0 /\ (18 \div 16) % 2 = 1 OBVIOUS
  <2>2. name = IF (p \div 16) % 2 = 0 THEN "Setf8" ELSE "Setf16" BY <1>4
  <2> HIDE DEF name
  <2> QED BY <1>5, <2>1, <2>2
<1> HIDE DEF name
<1>7. x.code = CodeOf(name, 0) /\ OpAt(x, 0) = Gp(0, w.rn) BY <1>3, Shows1
<1>8. Is64(x) = 0 /\ x.code[1] = name
  <2>1. 0 \in Bit BY DEF Bit
  <2> QED BY <1>7, <2>1, WidthBack
<1>9. IsRegAt(x, 0) /\ RegAt(x, 0) = w.rn BY <1>0, <1>7, RegBack
<1>10. EncodeSetf(x) = With(shape, Ok(0), back) BY Zenon DEF EncodeSetf
<1>11. back = w BY <1>w, <1>2, <1>4, <1>5, <1>6, <1>8, <1>9
<1> HIDE DEF back
<1>12. EncodeSetf(x) = Ok(w) BY <1>9, <1>10, <1>11 DEF With, Ok
<1> QED BY <1>2, <1>6, <1>7, <1>8, <1>12

(* ADDPT and SUBPT: op3 is 8 and the amount. *)
LEMMA AddPtBack ==
  ASSUME ValuesFit, NEW w \in CarryWord, w.op3 \div 8 = 1, NEW ip, NEW x, SameAs(x, DecodeAddPt(w, ip)),
         x.code # <<"Invalid">>
  PROVE  /\ EncodeAddPt(x) = Ok(w) /\ Is64(x) = w.sf /\ x.code[1] \in {"Addpt", "Subpt"}
         /\ x.code = CodeOf(x.code[1], w.sf)
<1> DEFINE name  == IF w.op = 0 THEN "Addpt" ELSE "Subpt"
           s     == ShiftAt(x, 2)
           shape == AllRegs(x, 0..2)
           f     == IF s[1] # "Lsl" THEN BadOperand ELSE IF s[2] > 7 THEN BadImmediate ELSE Ok(0)
           back  == [class |-> "carry", sf |-> 1, op |-> IF x.code[1] = "Subpt" THEN 1 ELSE 0, s |-> 0,
                     rm |-> RegAt(x, 2), op3 |-> 8 + s[2], rn |-> RegAt(x, 1), rd |-> RegAt(x, 0)]
<1>0. /\ w.sf \in Bit /\ w.op \in {0, 1} /\ w.s \in {0, 1} /\ w.op3 \in 0..63
      /\ w.rm \in RegNum /\ w.rn \in RegNum /\ w.rd \in RegNum
  BY DEF CarryWord, Bit, Imm6
<1>w. w = [class |-> "carry", sf |-> w.sf, op |-> w.op, s |-> w.s, rm |-> w.rm, op3 |-> w.op3,
           rn |-> w.rn, rd |-> w.rd]
  BY DEF CarryWord
<1>1. ~("Cpa" \notin Features \/ w.sf = 0 \/ w.s = 1) BY Zenon DEF SameAs, DecodeAddPt, NewInvalid
<1>2. w.sf = 1 /\ w.s = 0 BY <1>0, <1>1 DEF Bit
<1>3. SameAs(x, Built(w, ip, CodeOf(name, 1), MnemonicOf(CodeOf(name, 1)),
                      <<GpSp(1, w.rd), GpSp(1, w.rn), RegShifted(1, w.rm, 0, w.op3 % 8)>>))
  BY <1>1, Zenon DEF DecodeAddPt, Plain
<1>4. name = IF w.op = 1 THEN "Subpt" ELSE "Addpt" BY <1>0
<1> HIDE DEF name
<1>5. /\ x.code = CodeOf(name, 1) /\ OpAt(x, 0) = GpSp(1, w.rd) /\ OpAt(x, 1) = GpSp(1, w.rn)
      /\ OpAt(x, 2) = RegShifted(1, w.rm, 0, w.op3 % 8)
  BY <1>3, Shows3
<1>6. Is64(x) = 1 /\ x.code[1] = name
  <2>1. 1 \in Bit BY DEF Bit
  <2> QED BY <1>5, <2>1, WidthBack
<1>7. IsRegAt(x, 0) /\ RegAt(x, 0) = w.rd /\ IsRegAt(x, 1) /\ RegAt(x, 1) = w.rn BY <1>0, <1>5, RegBack
<1>8. PICK m \in RegNum, p \in 0..63, zero \in 0..3 : m = w.rm /\ p = w.op3 /\ zero = 0 BY <1>0
<1>9. PICK amt \in 0..63 : amt = p % 8 /\ amt <= 7 OBVIOUS
<1>10. IsRegAt(x, 2) /\ RegAt(x, 2) = m /\ s[1] = "Lsl" /\ s[2] = amt
  <2>1. OpAt(x, 2) = RegShifted(1, m, zero, amt) BY <1>5, <1>8, <1>9
  <2>2. /\ IsRegAt(x, 2) /\ RegAt(x, 2) = m
        /\ ShiftAt(x, 2) = <<ShiftName[zero + 1], amt>> /\ ExtendAt(x, 2) = NoExtend
    <3> HIDE DEF s
    <3> QED BY <2>1, ShiftedBack
  <2>3. ShiftName[1] = "Lsl" /\ zero + 1 = 1 BY <1>8 DEF ShiftName
  <2> QED BY <2>2, <2>3
<1>11. 8 + amt = p
  <2>1. p \div 8 = 1 BY <1>8
  <2> QED BY <1>9, <2>1
<1>12. EncodeAddPt(x) = With(shape, f, back) BY Zenon DEF EncodeAddPt
<1> HIDE DEF s
<1>13. f.ok
  <2>1. ~(amt > 7) BY <1>9
  <2> QED BY <1>10, <2>1 DEF Ok
<1>14. shape BY <1>7, <1>10, AllRegsAre
<1>15. back = w BY <1>w, <1>0, <1>2, <1>4, <1>6, <1>7, <1>8, <1>10, <1>11
<1> HIDE DEF shape, f, back
<1>16. EncodeAddPt(x) = Ok(w) BY <1>12, <1>13, <1>14, <1>15 DEF With
<1>17. name \in {"Addpt", "Subpt"} BY <1>4
<1> QED BY <1>2, <1>5, <1>6, <1>16, <1>17

(* The conditional compares: Rm is a register or an unsigned immediate. *)
LEMMA CompareBack ==
  ASSUME ValuesFit, NEW w \in CompareWord, NEW ip, NEW x, SameAs(x, DecodeCompare(w, ip)),
         x.code # <<"Invalid">>
  PROVE  /\ EncodeCompare(x) = Ok(w)
         /\ Is64(x) = w.sf /\ Lists(CompareName, x.code[1]) /\ x.code = CodeOf(x.code[1], w.sf)
<1> DEFINE name == CompareName[2 * w.op + w.form + 1]
           c    == CodeOf(name, w.sf)
           src  == IF w.form = 1 THEN ImmOp(w.rm) ELSE Gp(w.sf, w.rm)
           i    == Place(CompareName, x.code[1])
           imm  == i % 2 = 1
           shape == /\ IsRegAt(x, 0) /\ IsImmAt(x, 2) /\ IsCondAt(x, 3)
                    /\ IF imm THEN IsImmAt(x, 1) ELSE IsRegAt(x, 1)
           f    == IF (imm /\ ValAt(x, 1) > 31) \/ ValAt(x, 2) > 15 THEN BadImmediate ELSE Ok(0)
           back == [class |-> "compare", sf |-> Is64(x), op |-> i \div 2, s |-> 1,
                    rm |-> IF imm THEN ValAt(x, 1) ELSE RegAt(x, 1), cond |-> ValAt(x, 3),
                    form |-> i % 2, o2 |-> 0, rn |-> RegAt(x, 0), o3 |-> 0, nzcv |-> ValAt(x, 2)]
<1>0. /\ w.sf \in Bit /\ w.op \in {0, 1} /\ w.s \in {0, 1} /\ w.form \in {0, 1}
      /\ w.rm \in RegNum /\ w.rn \in RegNum /\ w.nzcv \in 0..15
  BY DEF CompareWord, Bit
<1>w. w = [class |-> "compare", sf |-> w.sf, op |-> w.op, s |-> w.s, rm |-> w.rm, cond |-> w.cond,
           form |-> w.form, o2 |-> w.o2, rn |-> w.rn, o3 |-> w.o3, nzcv |-> w.nzcv]
  BY DEF CompareWord
<1>1. Place(CompareName, name) = 2 * w.op + w.form /\ Lists(CompareName, name)
  <2>1. /\ 2 * w.op + w.form \in Int /\ 2 * w.op + w.form + 1 \in DOMAIN CompareName
        /\ Distinct(CompareName)
    BY <1>0, RegTablesAreDistinct
  <2> QED BY <2>1, PlaceBack, Zenon
<1>2. EncodeCompare(x) = With(shape, f, back) BY Zenon DEF EncodeCompare
<1>3. ~(w.s # 1 \/ w.o2 # 0 \/ w.o3 # 0) BY Zenon DEF SameAs, DecodeCompare, NewInvalid
<1>4. SameAs(x, Built(w, ip, c, MnemonicOf(c), <<Gp(w.sf, w.rn), src, ImmOp(w.nzcv), CondOp(w.cond)>>))
  BY <1>3, Zenon DEF DecodeCompare, Plain
<1> HIDE DEF name, i, imm, shape, f, back, src
<1>5. /\ x.code = c /\ OpAt(x, 0) = Gp(w.sf, w.rn) /\ OpAt(x, 1) = src
      /\ OpAt(x, 2) = ImmOp(w.nzcv) /\ OpAt(x, 3) = CondOp(w.cond)
  BY <1>4, Shows4
<1>6. Is64(x) = w.sf /\ x.code[1] = name BY <1>0, <1>5, WidthBack
<1>7. i \div 2 = w.op /\ i % 2 = w.form BY <1>0, <1>1, <1>6 DEF i
<1>8. IsRegAt(x, 0) /\ RegAt(x, 0) = w.rn BY <1>0, <1>5, RegBack
<1>9. IsImmAt(x, 2) /\ ValAt(x, 2) = w.nzcv BY <1>5, ImmBack
<1>10. IsCondAt(x, 3) /\ ValAt(x, 3) = w.cond BY <1>5, CondBack
<1>11. IF imm THEN IsImmAt(x, 1) /\ ValAt(x, 1) = w.rm ELSE IsRegAt(x, 1) /\ RegAt(x, 1) = w.rm
  <2>1. CASE w.form = 1
    <3>1. IsImmAt(x, 1) /\ ValAt(x, 1) = w.rm BY <1>5, <2>1, ImmBack DEF src
    <3> QED BY <1>7, <2>1, <3>1 DEF imm
  <2>2. CASE w.form = 0
    <3>1. IsRegAt(x, 1) /\ RegAt(x, 1) = w.rm BY <1>0, <1>5, <2>2, RegBack DEF src
    <3> QED BY <1>7, <2>2, <3>1 DEF imm
  <2> QED BY <1>0, <2>1, <2>2
<1>12. PICK m \in 0..31, n \in 0..15 : m = w.rm /\ n = w.nzcv BY <1>0 DEF RegNum
<1>13. f.ok
  <2>1. ~(m > 31) /\ ~(n > 15) OBVIOUS
  <2>2. ~(imm /\ ValAt(x, 1) > 31) /\ ~(ValAt(x, 2) > 15) BY <1>9, <1>11, <1>12, <2>1
  <2> QED BY <2>2 DEF f, Ok
<1>14. shape BY <1>8, <1>9, <1>10, <1>11 DEF shape
<1>15. back = w BY <1>w, <1>3, <1>6, <1>7, <1>8, <1>9, <1>10, <1>11 DEF back
<1>16. EncodeCompare(x) = Ok(w) BY <1>2, <1>13, <1>14, <1>15 DEF With
<1> QED BY <1>1, <1>5, <1>6, <1>16

(* The rows of the three-source table, and that a name has one row. *)
ThreeAlias == {"Mul", "Mneg", "Smull", "Smnegl", "Umull", "Umnegl"}
ThreeNames == {"Madd", "Msub", "Smaddl", "Smsubl", "Smulh", "Maddpt", "Msubpt", "Umaddl", "Umsubl", "Umulh"}

LEMMA ThreeRows ==
  ASSUME NEW r \in ThreeSource
  PROVE  /\ r[3] \in ThreeNames
         /\ r[5] \in {"MaddSub", "WidenMaddSub"} => r[6] \in ThreeAlias
         /\ r[5] \in {"MaddSub", "WidenMaddSub", "HighMul", "PtMaddSub"}
         /\ r[5] = "HighMul" <=> r[1] \in {2, 6}
         /\ \A q \in ThreeSource : q[3] = r[3] => q[1] = r[1] /\ q[2] = r[2] /\ q[5] = r[5]
<1> DEFINE Row(q, op31, o0, name, kind, alias) ==
             q[1] = op31 /\ q[2] = o0 /\ q[3] = name /\ q[5] = kind /\ q[6] = alias
           OneOf(q) == \/ Row(q, 0, 0, "Madd", "MaddSub", "Mul") \/ Row(q, 0, 1, "Msub", "MaddSub", "Mneg")
                       \/ Row(q, 1, 0, "Smaddl", "WidenMaddSub", "Smull")
                       \/ Row(q, 1, 1, "Smsubl", "WidenMaddSub", "Smnegl")
                       \/ Row(q, 2, 0, "Smulh", "HighMul", "none")
                       \/ Row(q, 3, 0, "Maddpt", "PtMaddSub", "none")
                       \/ Row(q, 3, 1, "Msubpt", "PtMaddSub", "none")
                       \/ Row(q, 5, 0, "Umaddl", "WidenMaddSub", "Umull")
                       \/ Row(q, 5, 1, "Umsubl", "WidenMaddSub", "Umnegl")
                       \/ Row(q, 6, 0, "Umulh", "HighMul", "none")
<1>1. ASSUME NEW q \in ThreeSource PROVE OneOf(q) BY DEF ThreeSource
<1>2. OneOf(r) BY <1>1
<1>3. \A q \in ThreeSource : q[3] = r[3] => q[1] = r[1] /\ q[2] = r[2] /\ q[5] = r[5]
  <2> TAKE q \in ThreeSource
  <2>1. OneOf(q) BY <1>1
  <2> QED BY <1>2, <2>1
<1>4. /\ r[3] \in ThreeNames
      /\ r[5] \in {"MaddSub", "WidenMaddSub"} => r[6] \in ThreeAlias
      /\ r[5] \in {"MaddSub", "WidenMaddSub", "HighMul", "PtMaddSub"}
      /\ r[5] = "HighMul" <=> r[1] \in {2, 6}
  BY <1>2 DEF ThreeNames, ThreeAlias
<1> QED BY <1>3, <1>4

(* The accumulator of SMULH and UMULH, which they do not use, is written as
   ones. *)
ThreeWritten(w) == IF w.op31 \in {2, 6} THEN [w EXCEPT !.ra = 31] ELSE w

(* The three-source instructions, with the aliases of an accumulator ZR. *)
LEMMA ThreeBack ==
  ASSUME ValuesFit, NEW w \in ThreeWord, NEW ip, NEW x, SameAs(x, DecodeThree(w, ip)),
         x.code # <<"Invalid">>
  PROVE  /\ EncodeThree(x) = Ok(ThreeWritten(w))
         /\ Is64(x) = w.sf /\ (\E r \in ThreeSource : r[3] = x.code[1]) /\ x.code = CodeOf(x.code[1], w.sf)
<1> DEFINE rows == {r \in ThreeSource : r[1] = w.op31 /\ r[2] = w.o0 /\ w.sf \in r[4]}
           row  == CHOOSE r \in rows : TRUE
           c    == CodeOf(row[3], w.sf)
           src  == IF row[5] = "WidenMaddSub" THEN 0 ELSE w.sf
           rd   == Gp(w.sf, w.rd)
           rn   == Gp(src, w.rn)
           rm   == Gp(src, w.rm)
           ra   == Gp(w.sf, w.ra)
           q    == CHOOSE r \in ThreeSource : r[3] = x.code[1]
           noRa == \/ q[5] = "HighMul"
                   \/ x.mnem \in {<<"Mul">>, <<"Mneg">>, <<"Smull">>, <<"Smnegl">>, <<"Umull">>, <<"Umnegl">>}
           shape == AllRegs(x, 0..(IF noRa THEN 2 ELSE 3))
           back == [class |-> "three", sf |-> Is64(x), op54 |-> 0, op31 |-> q[1], rm |-> RegAt(x, 2),
                    o0 |-> q[2], ra |-> IF noRa THEN 31 ELSE RegAt(x, 3), rn |-> RegAt(x, 1),
                    rd |-> RegAt(x, 0)]
<1>0. /\ w.sf \in Bit /\ w.rm \in RegNum /\ w.rn \in RegNum /\ w.rd \in RegNum /\ w.ra \in RegNum
  BY DEF ThreeWord
<1>w. w = [class |-> "three", sf |-> w.sf, op54 |-> w.op54, op31 |-> w.op31, rm |-> w.rm, o0 |-> w.o0,
           ra |-> w.ra, rn |-> w.rn, rd |-> w.rd]
  BY DEF ThreeWord
<1>1. EncodeThree(x) = With(shape, Ok(0), back) BY Zenon DEF EncodeThree
<1>2. ~(w.op54 # 0 \/ rows = {}) BY Zenon DEF SameAs, DecodeThree, NewInvalid
<1>3. \/ SameAs(x, Built(w, ip, c, MnemonicOf(c), <<rd, rn, rm>>)) /\ row[5] = "HighMul"
      \/ /\ SameAs(x, Built(w, ip, c, <<row[6]>>, <<rd, rn, rm>>))
         /\ row[5] # "HighMul" /\ row[5] # "PtMaddSub" /\ w.ra = 31
      \/ SameAs(x, Built(w, ip, c, MnemonicOf(c), Append(<<rd, rn, rm>>, ra))) /\ row[5] # "HighMul"
  BY <1>2, Zenon DEF DecodeThree, Plain, Alias
<1>4. row \in ThreeSource /\ row[1] = w.op31 /\ row[2] = w.o0
  <2>1. row \in rows BY <1>2
  <2> HIDE DEF row
  <2> QED BY <2>1
<1> HIDE DEF rows, row, rd, rn, rm, ra, q, noRa, shape, back
<1>5. Append(<<rd, rn, rm>>, ra) = <<rd, rn, rm, ra>> BY Appended3, Zenon
<1>6. /\ x.code = c /\ OpAt(x, 0) = rd /\ OpAt(x, 1) = rn /\ OpAt(x, 2) = rm
      /\ \/ row[5] = "HighMul" /\ x.mnem = <<row[3]>>
         \/ row[5] \in {"MaddSub", "WidenMaddSub"} /\ w.ra = 31 /\ x.mnem = <<row[6]>>
         \/ row[5] # "HighMul" /\ x.mnem = <<row[3]>> /\ OpAt(x, 3) = ra
  <2>1. CASE SameAs(x, Built(w, ip, c, MnemonicOf(c), <<rd, rn, rm>>)) /\ row[5] = "HighMul"
    BY <2>1, Shows3, PlainMnemonic
  <2>2. CASE /\ SameAs(x, Built(w, ip, c, <<row[6]>>, <<rd, rn, rm>>))
             /\ row[5] # "HighMul" /\ row[5] # "PtMaddSub" /\ w.ra = 31
    <3>1. row[5] \in {"MaddSub", "WidenMaddSub"} BY <1>4, <2>2, ThreeRows
    <3> QED BY <2>2, <3>1, Shows3
  <2>3. CASE SameAs(x, Built(w, ip, c, MnemonicOf(c), Append(<<rd, rn, rm>>, ra))) /\ row[5] # "HighMul"
    <3>1. SameAs(x, Built(w, ip, c, MnemonicOf(c), <<rd, rn, rm, ra>>)) BY <1>5, <2>3
    <3> QED BY <2>3, <3>1, Shows4, PlainMnemonic
  <2> QED BY <1>3, <2>1, <2>2, <2>3
<1>7. Is64(x) = w.sf /\ x.code[1] = row[3] BY <1>0, <1>6, WidthBack
<1>8. q[1] = w.op31 /\ q[2] = w.o0 /\ q[5] = row[5]
  <2>1. q \in ThreeSource /\ q[3] = row[3] BY <1>4, <1>7 DEF q
  <2> QED BY <1>4, <2>1, ThreeRows
<1>9. /\ IsRegAt(x, 0) /\ RegAt(x, 0) = w.rd /\ IsRegAt(x, 1) /\ RegAt(x, 1) = w.rn
      /\ IsRegAt(x, 2) /\ RegAt(x, 2) = w.rm
  BY <1>0, <1>6, RegBack DEF rd, rn, rm
<1>10. shape /\ (IF noRa THEN 31 ELSE RegAt(x, 3)) = ThreeWritten(w).ra
  <2>0. row[5] = "HighMul" <=> w.op31 \in {2, 6} BY <1>4, ThreeRows
  <2>r. ThreeWritten(w).ra = IF row[5] = "HighMul" THEN 31 ELSE w.ra
    <3>1. [w EXCEPT !.ra = 31].ra = 31 BY <1>w
    <3> QED BY <2>0, <3>1 DEF ThreeWritten
  <2>1. CASE row[5] = "HighMul" BY <1>8, <1>9, <2>1, <2>r, AllRegsAre DEF noRa, shape
  <2>2. CASE row[5] \in {"MaddSub", "WidenMaddSub"} /\ w.ra = 31 /\ x.mnem = <<row[6]>>
    <3>1. row[6] \in ThreeAlias BY <1>4, <2>2, ThreeRows
    <3>2. noRa BY <2>2, <3>1 DEF noRa, ThreeAlias
    <3>3. row[5] # "HighMul" BY <2>2
    <3> QED BY <1>9, <2>2, <2>r, <3>2, <3>3, AllRegsAre DEF shape
  <2>3. CASE row[5] # "HighMul" /\ x.mnem = <<row[3]>> /\ OpAt(x, 3) = ra
    <3>1. row[3] \in ThreeNames BY <1>4, ThreeRows
    <3>2. ~noRa BY <1>8, <2>3, <3>1 DEF noRa, ThreeNames
    <3>3. IsRegAt(x, 3) /\ RegAt(x, 3) = w.ra BY <1>0, <2>3, RegBack DEF ra
    <3> QED BY <1>9, <2>3, <2>r, <3>2, <3>3, AllRegsAre DEF shape
  <2> QED BY <1>6, <2>1, <2>2, <2>3
<1>11. ThreeWritten(w) = [class |-> "three", sf |-> w.sf, op54 |-> w.op54, op31 |-> w.op31, rm |-> w.rm,
                          o0 |-> w.o0, ra |-> ThreeWritten(w).ra, rn |-> w.rn, rd |-> w.rd]
  <2>1. CASE w.op31 \in {2, 6} BY <1>w, <2>1 DEF ThreeWritten
  <2>2. CASE w.op31 \notin {2, 6} BY <1>w, <2>2 DEF ThreeWritten
  <2> QED BY <2>1, <2>2
<1>12. back = ThreeWritten(w) BY <1>2, <1>7, <1>8, <1>9, <1>10, <1>11 DEF back
<1>13. EncodeThree(x) = Ok(ThreeWritten(w)) BY <1>1, <1>10, <1>12 DEF With, Ok
<1> QED BY <1>4, <1>6, <1>7, <1>13

(* The rows of the two-source table: a name has one S and one opcode. *)
LEMMA TwoRows ==
  ASSUME NEW r \in TwoSource, NEW q \in TwoSource, q[3] = r[3]
  PROVE  q[1] = r[1] /\ q[2] = r[2]
<1> DEFINE Row(t, s, opcode, name) == t[1] = s /\ t[2] = opcode /\ t[3] = name
           OneOf(t) == \/ Row(t, 0, 0, "SubpDp") \/ Row(t, 1, 0, "SubpsDp") \/ Row(t, 0, 2, "Udiv")
                       \/ Row(t, 0, 3, "Sdiv") \/ Row(t, 0, 4, "IrgDp") \/ Row(t, 0, 5, "GmiDp")
                       \/ Row(t, 0, 8, "Lslv") \/ Row(t, 0, 9, "Lsrv") \/ Row(t, 0, 10, "Asrv")
                       \/ Row(t, 0, 11, "Rorv") \/ Row(t, 0, 12, "Pacga") \/ Row(t, 0, 16, "Crc32b")
                       \/ Row(t, 0, 17, "Crc32h") \/ Row(t, 0, 18, "Crc32w") \/ Row(t, 0, 19, "Crc32x")
                       \/ Row(t, 0, 20, "Crc32cb") \/ Row(t, 0, 21, "Crc32ch") \/ Row(t, 0, 22, "Crc32cw")
                       \/ Row(t, 0, 23, "Crc32cx") \/ Row(t, 0, 24, "SmaxReg") \/ Row(t, 0, 25, "UmaxReg")
                       \/ Row(t, 0, 26, "SminReg") \/ Row(t, 0, 27, "UminReg")
<1>1. ASSUME NEW t \in TwoSource PROVE OneOf(t) BY SMTT(60) DEF TwoSource
<1>2. OneOf(r) /\ OneOf(q) BY <1>1
<1> QED BY <1>2, SMTT(60)

(* The two-source instructions; IRG drops an Rm of ZR. *)
LEMMA TwoBack ==
  ASSUME ValuesFit, NEW w \in TwoWord, NEW ip, NEW x, SameAs(x, DecodeTwo(w, ip)), x.code # <<"Invalid">>
  PROVE  /\ EncodeTwo(x) = Ok(w)
         /\ Is64(x) = w.sf /\ (\E r \in TwoSource : r[3] = x.code[1]) /\ x.code = CodeOf(x.code[1], w.sf)
<1> DEFINE rows == {r \in TwoSource : r[1] = w.s /\ r[2] = w.opcode /\ w.sf \in r[4] /\ Gated(r[5])}
           row  == CHOOSE r \in rows : TRUE
           name == row[3]
           c    == CodeOf(name, w.sf)
           ops  == TwoOps(name, w)
           acc  == IF w.opcode \in 16..23 THEN 0 ELSE w.sf
           rd   == IF name = "IrgDp" THEN GpSp(1, w.rd) ELSE Gp(acc, w.rd)
           rn   == IF name \in {"SubpDp", "SubpsDp", "IrgDp", "GmiDp"} THEN GpSp(1, w.rn) ELSE Gp(acc, w.rn)
           rm   == IF name \in {"SubpDp", "SubpsDp", "Pacga"} THEN GpSp(1, w.rm) ELSE Gp(w.sf, w.rm)
           q    == CHOOSE r \in TwoSource : r[3] = x.code[1]
           noRm == q[3] = "IrgDp" /\ x.cnt < 3
           shape == AllRegs(x, 0..(IF noRm THEN 1 ELSE 2))
           back == [class |-> "two", sf |-> Is64(x), s |-> q[1],
                    rm |-> IF noRm THEN 31 ELSE RegAt(x, 2), opcode |-> q[2], rn |-> RegAt(x, 1),
                    rd |-> RegAt(x, 0)]
<1>0. w.sf \in Bit /\ w.rm \in RegNum /\ w.rn \in RegNum /\ w.rd \in RegNum BY DEF TwoWord
<1>w. w = [class |-> "two", sf |-> w.sf, s |-> w.s, rm |-> w.rm, opcode |-> w.opcode, rn |-> w.rn,
           rd |-> w.rd]
  BY DEF TwoWord
<1>1. EncodeTwo(x) = With(shape, Ok(0), back) BY Zenon DEF EncodeTwo
<1>2. ~(rows = {}) BY Zenon DEF SameAs, DecodeTwo, NewInvalid
<1>3. \E m : SameAs(x, Built(w, ip, c, m, ops)) BY <1>2, Zenon DEF DecodeTwo, Plain, Alias
<1>4. ops = IF name = "IrgDp" /\ w.rm = 31 THEN <<rd, rn>> ELSE <<rd, rn, rm>> BY Zenon DEF TwoOps
<1>5. row \in TwoSource /\ row[1] = w.s /\ row[2] = w.opcode
  <2>1. row \in rows BY <1>2
  <2> HIDE DEF row
  <2> QED BY <2>1
<1>r. /\ rd = Gp(acc, w.rd) \/ rd = GpSp(1, w.rd)
      /\ rn = Gp(acc, w.rn) \/ rn = GpSp(1, w.rn)
      /\ rm = Gp(w.sf, w.rm) \/ rm = GpSp(1, w.rm)
  BY Zenon
<1> HIDE DEF rows, row, ops, rd, rn, rm, q, noRm, shape, back, acc
<1>6. /\ x.code = c /\ OpAt(x, 0) = rd /\ OpAt(x, 1) = rn
      /\ \/ x.cnt = 2 /\ name = "IrgDp" /\ w.rm = 31
         \/ x.cnt = 3 /\ OpAt(x, 2) = rm
  <2>1. PICK m : SameAs(x, Built(w, ip, c, m, ops)) BY <1>3
  <2>2. CASE name = "IrgDp" /\ w.rm = 31
    <3>1. SameAs(x, Built(w, ip, c, m, <<rd, rn>>)) BY <1>4, <2>1, <2>2
    <3> QED BY <2>2, <3>1, Shows2
  <2>3. CASE ~(name = "IrgDp" /\ w.rm = 31)
    <3>1. SameAs(x, Built(w, ip, c, m, <<rd, rn, rm>>)) BY <1>4, <2>1, <2>3
    <3> QED BY <3>1, Shows3
  <2> QED BY <2>2, <2>3
<1>7. Is64(x) = w.sf /\ x.code[1] = name BY <1>0, <1>6, WidthBack
<1>8. q[1] = w.s /\ q[2] = w.opcode /\ q[3] = name
  <2>1. q \in TwoSource /\ q[3] = name BY <1>5, <1>7 DEF q
  <2> QED BY <1>5, <2>1, TwoRows
<1>9. IsRegAt(x, 0) /\ RegAt(x, 0) = w.rd /\ IsRegAt(x, 1) /\ RegAt(x, 1) = w.rn BY <1>0, <1>6, <1>r, RegBack
<1>10. shape /\ (IF noRm THEN 31 ELSE RegAt(x, 2)) = w.rm
  <2>1. CASE x.cnt = 2 /\ name = "IrgDp" /\ w.rm = 31
    <3>1. noRm BY <1>8, <2>1 DEF noRm
    <3> QED BY <1>9, <2>1, <3>1, AllRegsAre DEF shape
  <2>2. CASE x.cnt = 3 /\ OpAt(x, 2) = rm
    <3>1. IsRegAt(x, 2) /\ RegAt(x, 2) = w.rm BY <1>0, <1>r, <2>2, RegBack
    <3>2. ~noRm BY <2>2 DEF noRm
    <3> QED BY <1>9, <3>1, <3>2, AllRegsAre DEF shape
  <2> QED BY <1>6, <2>1, <2>2
<1>11. back = w BY <1>w, <1>7, <1>8, <1>9, <1>10 DEF back
<1>12. EncodeTwo(x) = Ok(w) BY <1>1, <1>10, <1>11 DEF With, Ok
<1> QED BY <1>5, <1>6, <1>7, <1>12

(* The rows of the one-source table: a name and a width have one opcode. *)
BasicNames == {"Rbit", "Rev16", "Rev", "Rev32", "Clz", "Cls", "Ctz", "Cnt", "Abs"}

LEMMA OneRows ==
  ASSUME NEW sf \in Bit, NEW r \in OneSource, sf \in r[3], NEW q \in OneSource, q[2] = r[2],
         sf \in q[3] \/ q[2] = "Rev32"
  PROVE  q[1] = r[1] /\ r[2] \in BasicNames
<1> DEFINE Row(t, opcode, name) == t[1] = opcode /\ t[2] = name
           OneOf(t) == \/ Row(t, 0, "Rbit") \/ Row(t, 1, "Rev16") \/ (Row(t, 2, "Rev") /\ t[3] = {0})
                       \/ (Row(t, 2, "Rev32") /\ t[3] = {1}) \/ (Row(t, 3, "Rev") /\ t[3] = {1})
                       \/ Row(t, 4, "Clz") \/ Row(t, 5, "Cls") \/ Row(t, 6, "Ctz") \/ Row(t, 7, "Cnt")
                       \/ Row(t, 8, "Abs")
<1>1. ASSUME NEW t \in OneSource PROVE OneOf(t) BY DEF OneSource
<1>2. OneOf(r) /\ OneOf(q) BY <1>1
<1>3. \/ ~(r[3] = {0} /\ q[3] = {1}) /\ ~(r[3] = {1} /\ q[3] = {0})
      \/ r[2] = "Rev32"
  OBVIOUS
<1> QED BY <1>2, <1>3 DEF BasicNames

(* The one-source instructions that are not pointer authentication. *)
LEMMA BasicBack ==
  ASSUME ValuesFit, NEW w \in OneWord, w.s = 0, w.opcode2 = 0, NEW ip, NEW x,
         SameAs(x, DecodeBasic(w, ip)), x.code # <<"Invalid">>
  PROVE  /\ EncodeBasic(x) = Ok(w)
         /\ Is64(x) = w.sf /\ (\E r \in OneSource : r[2] = x.code[1]) /\ x.code = CodeOf(x.code[1], w.sf)
<1> DEFINE rows == {r \in OneSource : r[1] = w.opcode /\ w.sf \in r[3] /\ Gated(r[4])}
           row  == CHOOSE r \in rows : TRUE
           c    == CodeOf(row[2], w.sf)
           rd   == Gp(w.sf, w.rd)
           rn   == Gp(w.sf, w.rn)
           q    == CHOOSE r \in OneSource : r[2] = x.code[1] /\ (Is64(x) \in r[3] \/ r[2] = "Rev32")
           shape == AllRegs(x, {0, 1})
           back == One(Is64(x), 0, q[1], RegAt(x, 1), RegAt(x, 0))
<1>0. w.sf \in Bit /\ w.rn \in RegNum /\ w.rd \in RegNum BY DEF OneWord
<1>w. w = [class |-> "one", sf |-> w.sf, s |-> w.s, opcode2 |-> w.opcode2, opcode |-> w.opcode, rn |-> w.rn,
           rd |-> w.rd]
  BY DEF OneWord
<1>1. EncodeBasic(x) = With(shape, Ok(0), back) BY Zenon DEF EncodeBasic
<1>2. ~(rows = {}) BY Zenon DEF SameAs, DecodeBasic, NewInvalid
<1>3. SameAs(x, Built(w, ip, c, MnemonicOf(c), <<rd, rn>>)) BY <1>2, Zenon DEF DecodeBasic, Plain
<1>4. row \in OneSource /\ row[1] = w.opcode /\ w.sf \in row[3]
  <2>1. row \in rows BY <1>2
  <2> HIDE DEF row
  <2> QED BY <2>1
<1> HIDE DEF rows, row, rd, rn, q, shape, back
<1>5. x.code = c /\ OpAt(x, 0) = rd /\ OpAt(x, 1) = rn BY <1>3, Shows2
<1>6. Is64(x) = w.sf /\ x.code[1] = row[2] BY <1>0, <1>5, WidthBack
<1>7. q[1] = w.opcode
  <2>1. q \in OneSource /\ q[2] = row[2] /\ (w.sf \in q[3] \/ q[2] = "Rev32") BY <1>4, <1>6 DEF q
  <2> QED BY <1>0, <1>4, <2>1, OneRows
<1>8. IsRegAt(x, 0) /\ RegAt(x, 0) = w.rd /\ IsRegAt(x, 1) /\ RegAt(x, 1) = w.rn
  BY <1>0, <1>5, RegBack DEF rd, rn
<1>9. shape BY <1>8 DEF shape, AllRegs
<1>10. back = w BY <1>w, <1>6, <1>7, <1>8 DEF back, One
<1>11. EncodeBasic(x) = Ok(w) BY <1>1, <1>9, <1>10 DEF With, Ok
<1> QED BY <1>4, <1>5, <1>6, <1>11

LrNames == {"Paciasppc", "Pacibsppc", "Pacnbiasppc", "Pacnbibsppc", "Autiasppcr", "Autibsppcr"}
PauthNames == {"PaciaDp", "PacibDp", "PacdaDp", "PacdbDp", "AutiaDp", "AutibDp", "AutdaDp", "AutdbDp",
               "PacizaDp", "PacizbDp", "PacdzaDp", "PacdzbDp", "AutizaDp", "AutizbDp", "AutdzaDp", "AutdzbDp",
               "XpaciDp", "XpacdDp"}

LEMMA LrRows ==
  ASSUME NEW r \in LrSource
  PROVE  r[2] \in LrNames /\ \A q \in LrSource : q[2] = r[2] => q[1] = r[1]
<1> DEFINE Row(t, opcode, name) == t[1] = opcode /\ t[2] = name
           OneOf(t) == \/ Row(t, 40, "Paciasppc") \/ Row(t, 41, "Pacibsppc") \/ Row(t, 32, "Pacnbiasppc")
                       \/ Row(t, 33, "Pacnbibsppc") \/ Row(t, 36, "Autiasppcr") \/ Row(t, 37, "Autibsppcr")
<1>1. ASSUME NEW t \in LrSource PROVE OneOf(t) BY DEF LrSource
<1>2. OneOf(r) BY <1>1
<1>3. \A q \in LrSource : q[2] = r[2] => q[1] = r[1]
  <2> TAKE q \in LrSource
  <2>1. OneOf(q) BY <1>1
  <2> QED BY <1>2, <2>1
<1> QED BY <1>2, <1>3 DEF LrNames

LEMMA PauthTableNames == \A c : Lists(PauthName, c) <=> c \in PauthNames
BY SMTT(60) DEF Lists, PauthName, PauthNames

(* Pointer authentication: the combined forms that use LR, and the forms
   with a modifier or, the Z and XPAC ones, without. *)
LEMMA PauthBack ==
  ASSUME ValuesFit, NEW w \in OneWord, w.s = 0, w.opcode2 = 1, NEW ip, NEW x,
         SameAs(x, DecodePauth(w, ip)), x.code # <<"Invalid">>
  PROVE  /\ EncodePauth(x) = Ok(w) /\ Is64(x) = w.sf /\ x.code = CodeOf(x.code[1], w.sf)
         /\ Lists(PauthName, x.code[1]) \/ \E r \in LrSource : r[2] = x.code[1]
<1> DEFINE rows == {r \in LrSource : /\ "PauthLr" \in Features /\ w.rd = 30
                                     /\ r[1] = w.opcode /\ (r[2] \in Sppcr \/ w.rn = 31)}
           row  == CHOOSE r \in rows : TRUE
           lr   == row[2]
           z    == w.opcode >= 8
           rd   == Gp(1, w.rd)
           rn   == Gp(1, w.rn)
           name == PauthName[w.opcode + 1]
           q      == {r \in LrSource : r[2] = x.code[1]}
           sppcr  == x.code[1] \in Sppcr
           opcode == Place(PauthName, x.code[1])
           noRn   == opcode >= 8
           lrBack == One(1, 1, (CHOOSE r \in q : TRUE)[1], IF sppcr THEN RegAt(x, 0) ELSE 31, 30)
           back   == One(1, 1, opcode, IF noRn THEN 31 ELSE RegAt(x, 1), RegAt(x, 0))
<1>0. w.sf \in Bit /\ w.opcode \in 0..63 /\ w.rn \in RegNum /\ w.rd \in RegNum BY DEF OneWord, Imm6
<1>w. w = [class |-> "one", sf |-> w.sf, s |-> w.s, opcode2 |-> w.opcode2, opcode |-> w.opcode, rn |-> w.rn,
           rd |-> w.rd]
  BY DEF OneWord
<1>b. 1 \in Bit BY DEF Bit
<1>1. EncodePauth(x) = IF q # {} THEN With(sppcr => IsRegAt(x, 0), Ok(0), lrBack)
                       ELSE With(IsRegAt(x, 0) /\ (noRn \/ IsRegAt(x, 1)), Ok(0), back)
  BY Zenon DEF EncodePauth
<1>2. ~(w.sf # 1) BY Zenon DEF SameAs, DecodePauth, NewInvalid
<1>3. CASE rows # {}
  <2>1. SameAs(x, Built(w, ip, CodeOf(lr, 1), MnemonicOf(CodeOf(lr, 1)), IF lr \in Sppcr THEN <<rn>> ELSE <<>>))
    BY <1>2, <1>3, Zenon DEF DecodePauth, Plain
  <2>2. row \in LrSource /\ w.rd = 30 /\ row[1] = w.opcode /\ (lr \in Sppcr \/ w.rn = 31)
    <3>1. row \in rows BY <1>3
    <3> HIDE DEF row
    <3> QED BY <3>1
  <2> HIDE DEF row, rn
  <2>3. x.code = CodeOf(lr, 1) /\ (lr \in Sppcr => OpAt(x, 0) = rn)
    <3>1. CASE lr \in Sppcr
      <4>1. SameAs(x, Built(w, ip, CodeOf(lr, 1), MnemonicOf(CodeOf(lr, 1)), <<rn>>)) BY <2>1, <3>1
      <4> QED BY <4>1, Shows1
    <3>2. CASE lr \notin Sppcr BY <2>1, <3>2 DEF SameAs, Built, NewInvalid
    <3> QED BY <3>1, <3>2
  <2>4. Is64(x) = 1 /\ x.code[1] = lr BY <1>b, <2>3, WidthBack
  <2>5. q # {} /\ (CHOOSE r \in q : TRUE)[1] = w.opcode
    <3>1. row \in q BY <2>2, <2>4
    <3> DEFINE t == CHOOSE r \in q : TRUE
    <3>2. t \in q BY <3>1
    <3> HIDE DEF t
    <3>3. t \in LrSource /\ t[2] = row[2] BY <2>4, <3>2
    <3>4. t[1] = row[1] BY <2>2, <3>3, LrRows
    <3> QED BY <2>2, <3>1, <3>4 DEF t
  <2>6. sppcr => IsRegAt(x, 0) /\ RegAt(x, 0) = w.rn
    <3>1. CASE sppcr
      <4>1. OpAt(x, 0) = Gp(1, w.rn) BY <2>3, <2>4, <3>1 DEF rn
      <4> QED BY <1>0, <4>1, RegBack
    <3> QED BY <3>1
  <2>7. (IF sppcr THEN RegAt(x, 0) ELSE 31) = w.rn BY <2>2, <2>4, <2>6
  <2> HIDE DEF q, sppcr
  <2>8. lrBack = w BY <1>w, <1>2, <2>2, <2>5, <2>7 DEF One
  <2> HIDE DEF lrBack
  <2>9. EncodePauth(x) = Ok(w) BY <1>1, <2>5, <2>6, <2>8 DEF With, Ok
  <2> QED BY <1>2, <2>2, <2>3, <2>4, <2>9
<1>4. CASE rows = {}
  <2>1. ~("PAuth" \notin Features \/ w.opcode > 17 \/ (z /\ w.rn # 31))
    BY <1>4, Zenon DEF SameAs, DecodePauth, NewInvalid
  <2>2. SameAs(x, Built(w, ip, CodeOf(name, 1), MnemonicOf(CodeOf(name, 1)),
                        IF z THEN <<rd>> ELSE <<rd, GpSp(1, w.rn)>>))
    BY <1>2, <1>4, <2>1, Zenon DEF DecodePauth, Plain
  <2>3. Place(PauthName, name) = w.opcode /\ Lists(PauthName, name)
    <3>0. PICK n \in 0..63 : n = w.opcode BY <1>0
    <3>1. ~(n > 17) BY <2>1, <3>0
    <3>2. n \in Int /\ n + 1 \in DOMAIN PauthName /\ Distinct(PauthName) BY <3>1, RegTablesAreDistinct
    <3>3. Place(PauthName, PauthName[n + 1]) = n /\ Lists(PauthName, PauthName[n + 1])
      BY <3>2, PlaceBack, Zenon
    <3> QED BY <3>0, <3>3
  <2> HIDE DEF name, rd
  <2>4. /\ x.code = CodeOf(name, 1) /\ OpAt(x, 0) = rd
        /\ (~z => OpAt(x, 1) = GpSp(1, w.rn))
    <3>1. CASE z
      <4>1. SameAs(x, Built(w, ip, CodeOf(name, 1), MnemonicOf(CodeOf(name, 1)), <<rd>>)) BY <2>2, <3>1
      <4> QED BY <3>1, <4>1, Shows1
    <3>2. CASE ~z
      <4>1. SameAs(x, Built(w, ip, CodeOf(name, 1), MnemonicOf(CodeOf(name, 1)), <<rd, GpSp(1, w.rn)>>))
        BY <2>2, <3>2
      <4> QED BY <4>1, Shows2
    <3> QED BY <3>1, <3>2
  <2>5. Is64(x) = 1 /\ x.code[1] = name BY <2>4 DEF Is64, CodeOf, Suffix
  <2>6. q = {}
    <3>1. name \in PauthNames BY <2>3, PauthTableNames
    <3>2. name \notin LrNames BY <3>1 DEF PauthNames, LrNames
    <3>3. \A r \in LrSource : r[2] # x.code[1]
      <4> TAKE r \in LrSource
      <4>1. r[2] \in LrNames BY LrRows
      <4> QED BY <2>5, <3>2, <4>1
    <3> QED BY <3>3
  <2>7. IsRegAt(x, 0) /\ RegAt(x, 0) = w.rd BY <1>0, <2>4, RegBack DEF rd
  <2>8. opcode = w.opcode /\ (noRn <=> z) BY <2>3, <2>5
  <2> HIDE DEF opcode, noRn, q, z
  <2>9. (noRn \/ IsRegAt(x, 1)) /\ (IF noRn THEN 31 ELSE RegAt(x, 1)) = w.rn
    <3>1. CASE z BY <2>1, <2>8, <3>1
    <3>2. CASE ~z
      <4>1. IsRegAt(x, 1) /\ RegAt(x, 1) = w.rn BY <1>0, <2>4, <3>2, RegBack
      <4> QED BY <2>8, <3>2, <4>1
    <3> QED BY <3>1, <3>2
  <2>10. back = w BY <1>w, <1>2, <2>7, <2>8, <2>9 DEF One
  <2> HIDE DEF back
  <2>11. EncodePauth(x) = Ok(w) BY <1>1, <2>6, <2>7, <2>9, <2>10 DEF With, Ok
  <2> QED BY <1>2, <2>3, <2>4, <2>5, <2>11
<1> QED BY <1>3, <1>4

(***************************************************************************)
(* The codec of the register group                                         *)
(***************************************************************************)

(* The word a decoded one is written as. *)
RegWritten(w) == IF w.class = "three" THEN ThreeWritten(w) ELSE w

TwoNames == {"SubpDp", "SubpsDp", "Udiv", "Sdiv", "IrgDp", "GmiDp", "Lslv", "Lsrv", "Asrv", "Rorv", "Pacga",
             "Crc32b", "Crc32h", "Crc32w", "Crc32x", "Crc32cb", "Crc32ch", "Crc32cw", "Crc32cx",
             "SmaxReg", "UmaxReg", "SminReg", "UminReg"}

LEMMA SourceNames ==
  /\ \A c : (\E r \in ThreeSource : r[3] = c) => c \in ThreeNames
  /\ \A c : (\E r \in TwoSource : r[3] = c) => c \in TwoNames
  /\ \A c : (\E r \in OneSource : r[2] = c) => c \in BasicNames
  /\ \A c : (\E r \in LrSource : r[2] = c) => c \in LrNames
<1>1. \A r \in ThreeSource : r[3] \in ThreeNames BY ThreeRows
<1>2. ASSUME NEW r \in TwoSource PROVE r[3] \in TwoNames BY SMTT(60) DEF TwoSource, TwoNames
<1>3. ASSUME NEW r \in OneSource PROVE r[2] \in BasicNames BY DEF OneSource, BasicNames
<1>4. \A r \in LrSource : r[2] \in LrNames BY LrRows
<1> QED BY <1>1, <1>2, <1>3, <1>4

(* The names of the group's Codes, as encode::dp_reg asks for them. *)
RegListed(c) ==
  \/ Lists(LogicalShiftedName, c) \/ Lists(AddSubShiftedName, c) \/ Lists(ExtendedName, c)
  \/ Lists(CarryName, c) \/ c = "Rmif" \/ c \in {"Setf8", "Setf16"} \/ Lists(CompareName, c)
  \/ Lists(SelectName, c) \/ (\E r \in ThreeSource : r[3] = c) \/ c \in {"Addpt", "Subpt"}
  \/ (\E r \in TwoSource : r[3] = c) \/ (\E r \in OneSource : r[2] = c)
  \/ Lists(PauthName, c) \/ \E r \in LrSource : r[2] = c

(* encode::dp_reg finds the encoder of a Code by its name, which no
   immediate form shares. *)
LEMMA RegEncoderOf ==
  ASSUME NEW x, NEW c, x.code[1] = c
  PROVE  /\ Lists(LogicalShiftedName, c) => EncodeDpReg(x) = EncodeLogicalShifted(x) /\ c \notin ImmNames
         /\ Lists(AddSubShiftedName, c) => EncodeDpReg(x) = EncodeAddSubShifted(x) /\ c \notin ImmNames
         /\ Lists(ExtendedName, c) => EncodeDpReg(x) = EncodeExtended(x) /\ c \notin ImmNames
         /\ Lists(CarryName, c) => EncodeDpReg(x) = EncodeCarry(x) /\ c \notin ImmNames
         /\ c = "Rmif" => EncodeDpReg(x) = EncodeRmif(x) /\ c \notin ImmNames
         /\ c \in {"Setf8", "Setf16"} => EncodeDpReg(x) = EncodeSetf(x) /\ c \notin ImmNames
         /\ Lists(CompareName, c) => EncodeDpReg(x) = EncodeCompare(x) /\ c \notin ImmNames
         /\ Lists(SelectName, c) => EncodeDpReg(x) = EncodeSelect(x) /\ c \notin ImmNames
         /\ (\E r \in ThreeSource : r[3] = c) => EncodeDpReg(x) = EncodeThree(x) /\ c \notin ImmNames
         /\ c \in {"Addpt", "Subpt"} => EncodeDpReg(x) = EncodeAddPt(x) /\ c \notin ImmNames
         /\ (\E r \in TwoSource : r[3] = c) => EncodeDpReg(x) = EncodeTwo(x) /\ c \notin ImmNames
         /\ (\E r \in OneSource : r[2] = c) => EncodeDpReg(x) = EncodeBasic(x) /\ c \notin ImmNames
         /\ Lists(PauthName, c) \/ (\E r \in LrSource : r[2] = c)
              => EncodeDpReg(x) = EncodePauth(x) /\ c \notin ImmNames
<1> DEFINE logical  == {"AndShifted", "BicShifted", "OrrShifted", "OrnShifted",
                        "EorShifted", "EonShifted", "AndsShifted", "BicsShifted"}
           shifted  == {"AddShifted", "AddsShifted", "SubShifted", "SubsShifted"}
           extended == {"AddExtended", "AddsExtended", "SubExtended", "SubsExtended"}
           carry    == {"Adc", "Adcs", "Sbc", "Sbcs"}
           compare  == {"CcmnReg", "CcmnImm", "CcmpReg", "CcmpImm"}
           select   == {"Csel", "Csinc", "Csinv", "Csneg"}
           single   == {"Rmif", "Setf8", "Setf16", "Addpt", "Subpt"}
           three == \E r \in ThreeSource : r[3] = c
           two   == \E r \in TwoSource : r[3] = c
           one   == \E r \in OneSource : r[2] = c
           lr    == \E r \in LrSource : r[2] = c
           pauth == Lists(PauthName, c)
<1>1. EncodeDpReg(x)
        = CASE c = "Invalid" -> Err("Invalid")
            [] Lists(LogicalShiftedName, c) -> EncodeLogicalShifted(x)
            [] Lists(AddSubShiftedName, c) -> EncodeAddSubShifted(x)
            [] Lists(ExtendedName, c) -> EncodeExtended(x)
            [] Lists(CarryName, c) -> EncodeCarry(x)
            [] c = "Rmif" -> EncodeRmif(x)
            [] c \in {"Setf8", "Setf16"} -> EncodeSetf(x)
            [] Lists(CompareName, c) -> EncodeCompare(x)
            [] Lists(SelectName, c) -> EncodeSelect(x)
            [] three -> EncodeThree(x)
            [] c \in {"Addpt", "Subpt"} -> EncodeAddPt(x)
            [] two -> EncodeTwo(x)
            [] one -> EncodeBasic(x)
            [] OTHER -> EncodePauth(x)
  BY Zenon DEF EncodeDpReg
<1>2. /\ (three => c \in ThreeNames) /\ (two => c \in TwoNames) /\ (one => c \in BasicNames)
      /\ (lr => c \in LrNames) /\ (pauth => c \in PauthNames)
  BY SourceNames, PauthTableNames
<1>3. /\ (Lists(LogicalShiftedName, c) => c \in logical) /\ (Lists(AddSubShiftedName, c) => c \in shifted)
      /\ (Lists(ExtendedName, c) => c \in extended) /\ (Lists(CarryName, c) => c \in carry)
      /\ (Lists(CompareName, c) => c \in compare) /\ (Lists(SelectName, c) => c \in select)
  BY RegTableNames
<1>4. c \in logical =>
      c \notin shifted /\ c \notin extended /\ c \notin carry /\ c \notin compare /\
      c \notin select /\ c \notin single /\ c \notin ThreeNames /\ c \notin TwoNames /\
      c \notin BasicNames /\ c \notin LrNames /\ c \notin PauthNames /\
      c \notin (ImmNames \cup {"Invalid"})
  BY DEF ThreeNames, TwoNames, BasicNames, LrNames, PauthNames, ImmNames
<1>5. c \in shifted =>
      c \notin extended /\ c \notin carry /\ c \notin compare /\ c \notin select /\
      c \notin single /\ c \notin ThreeNames /\ c \notin TwoNames /\ c \notin BasicNames /\
      c \notin LrNames /\ c \notin PauthNames /\ c \notin (ImmNames \cup {"Invalid"})
  BY DEF ThreeNames, TwoNames, BasicNames, LrNames, PauthNames, ImmNames
<1>6. c \in extended =>
      c \notin carry /\ c \notin compare /\ c \notin select /\ c \notin single /\
      c \notin ThreeNames /\ c \notin TwoNames /\ c \notin BasicNames /\ c \notin LrNames /\
      c \notin PauthNames /\ c \notin (ImmNames \cup {"Invalid"})
  BY DEF ThreeNames, TwoNames, BasicNames, LrNames, PauthNames, ImmNames
<1>7. c \in carry =>
      c \notin compare /\ c \notin select /\ c \notin single /\ c \notin ThreeNames /\
      c \notin TwoNames /\ c \notin BasicNames /\ c \notin LrNames /\ c \notin PauthNames /\
      c \notin (ImmNames \cup {"Invalid"})
  BY DEF ThreeNames, TwoNames, BasicNames, LrNames, PauthNames, ImmNames
<1>8. c \in compare =>
      c \notin select /\ c \notin single /\ c \notin ThreeNames /\ c \notin TwoNames /\
      c \notin BasicNames /\ c \notin LrNames /\ c \notin PauthNames /\
      c \notin (ImmNames \cup {"Invalid"})
  BY DEF ThreeNames, TwoNames, BasicNames, LrNames, PauthNames, ImmNames
<1>9. c \in select =>
      c \notin single /\ c \notin ThreeNames /\ c \notin TwoNames /\ c \notin BasicNames /\
      c \notin LrNames /\ c \notin PauthNames /\ c \notin (ImmNames \cup {"Invalid"})
  BY DEF ThreeNames, TwoNames, BasicNames, LrNames, PauthNames, ImmNames
<1>10. c \in single =>
      c \notin ThreeNames /\ c \notin TwoNames /\ c \notin BasicNames /\ c \notin LrNames /\
      c \notin PauthNames /\ c \notin (ImmNames \cup {"Invalid"})
  BY DEF ThreeNames, TwoNames, BasicNames, LrNames, PauthNames, ImmNames
<1>11. c \in ThreeNames =>
      c \notin TwoNames /\ c \notin BasicNames /\ c \notin LrNames /\ c \notin PauthNames /\
      c \notin (ImmNames \cup {"Invalid"})
  BY DEF ThreeNames, TwoNames, BasicNames, LrNames, PauthNames, ImmNames
<1>12. c \in TwoNames =>
      c \notin BasicNames /\ c \notin LrNames /\ c \notin PauthNames /\
      c \notin (ImmNames \cup {"Invalid"})
  BY DEF TwoNames, BasicNames, LrNames, PauthNames, ImmNames
<1>13. c \in BasicNames => c \notin LrNames /\ c \notin PauthNames /\ c \notin (ImmNames \cup {"Invalid"})
  BY DEF BasicNames, LrNames, PauthNames, ImmNames
<1>14. c \in LrNames => c \notin PauthNames /\ c \notin (ImmNames \cup {"Invalid"})
  BY DEF LrNames, PauthNames, ImmNames
<1>15. c \in PauthNames => c \notin (ImmNames \cup {"Invalid"})
  BY DEF PauthNames, ImmNames
<1>s. (c = "Rmif" \/ c \in {"Setf8", "Setf16"} \/ c \in {"Addpt", "Subpt"}) => c \in single OBVIOUS
<1>i. c \notin ImmNames \cup {"Invalid"} => c \notin ImmNames /\ c # "Invalid" OBVIOUS
<1>k. ~(c = "Rmif" /\ c \in {"Setf8", "Setf16"}) /\ ~(c = "Rmif" /\ c \in {"Addpt", "Subpt"})
      /\ ~(c \in {"Setf8", "Setf16"} /\ c \in {"Addpt", "Subpt"})
  OBVIOUS
<1> HIDE DEF logical, shifted, extended, carry, compare, select, single, three, two, one, lr, pauth
<1>16. Lists(LogicalShiftedName, c) => EncodeDpReg(x) = EncodeLogicalShifted(x) /\ c \notin ImmNames
  BY <1>1, <1>2, <1>3, <1>4, <1>i, <1>s, <1>k
<1>17. Lists(AddSubShiftedName, c) => EncodeDpReg(x) = EncodeAddSubShifted(x) /\ c \notin ImmNames
  BY <1>1, <1>2, <1>3, <1>4, <1>5, <1>i, <1>s, <1>k
<1>18. Lists(ExtendedName, c) => EncodeDpReg(x) = EncodeExtended(x) /\ c \notin ImmNames
  BY <1>1, <1>2, <1>3, <1>4, <1>5, <1>6, <1>i, <1>s, <1>k
<1>19. Lists(CarryName, c) => EncodeDpReg(x) = EncodeCarry(x) /\ c \notin ImmNames
  BY <1>1, <1>2, <1>3, <1>4, <1>5, <1>6, <1>7, <1>i, <1>s, <1>k
<1>20. c = "Rmif" => EncodeDpReg(x) = EncodeRmif(x) /\ c \notin ImmNames
  BY <1>1, <1>2, <1>3, <1>4, <1>5, <1>6, <1>7, <1>8, <1>9, <1>10, <1>i, <1>s, <1>k
<1>21. c \in {"Setf8", "Setf16"} => EncodeDpReg(x) = EncodeSetf(x) /\ c \notin ImmNames
  BY <1>1, <1>2, <1>3, <1>4, <1>5, <1>6, <1>7, <1>8, <1>9, <1>10, <1>i, <1>s, <1>k
<1>22. Lists(CompareName, c) => EncodeDpReg(x) = EncodeCompare(x) /\ c \notin ImmNames
  BY <1>1, <1>2, <1>3, <1>4, <1>5, <1>6, <1>7, <1>8, <1>i, <1>s, <1>k
<1>23. Lists(SelectName, c) => EncodeDpReg(x) = EncodeSelect(x) /\ c \notin ImmNames
  BY <1>1, <1>2, <1>3, <1>4, <1>5, <1>6, <1>7, <1>8, <1>9, <1>i, <1>s, <1>k
<1>24. three => EncodeDpReg(x) = EncodeThree(x) /\ c \notin ImmNames
  BY <1>1, <1>2, <1>3, <1>4, <1>5, <1>6, <1>7, <1>8, <1>9, <1>10, <1>11, <1>i, <1>s, <1>k
<1>25. c \in {"Addpt", "Subpt"} => EncodeDpReg(x) = EncodeAddPt(x) /\ c \notin ImmNames
  BY <1>1, <1>2, <1>3, <1>4, <1>5, <1>6, <1>7, <1>8, <1>9, <1>10, <1>i, <1>s, <1>k
<1>26. two => EncodeDpReg(x) = EncodeTwo(x) /\ c \notin ImmNames
  BY <1>1, <1>2, <1>3, <1>4, <1>5, <1>6, <1>7, <1>8, <1>9, <1>10, <1>11, <1>12, <1>i, <1>s, <1>k
<1>27. one => EncodeDpReg(x) = EncodeBasic(x) /\ c \notin ImmNames
  BY <1>1, <1>2, <1>3, <1>4, <1>5, <1>6, <1>7, <1>8, <1>9, <1>10, <1>11, <1>12, <1>13, <1>i, <1>s,
     <1>k
<1>28. pauth \/ lr => EncodeDpReg(x) = EncodePauth(x) /\ c \notin ImmNames
  BY <1>1, <1>2, <1>3, <1>4, <1>5, <1>6, <1>7, <1>8, <1>9, <1>10, <1>11, <1>12, <1>13, <1>14, <1>15,
     <1>i, <1>s, <1>k
<1> QED BY <1>16, <1>17, <1>18, <1>19, <1>20, <1>21, <1>22, <1>23, <1>24, <1>25, <1>26, <1>27, <1>28,
         Zenon DEF three, two, one, lr, pauth

(* A class has its own decoder. *)
LEMMA RegClassOf ==
  ASSUME NEW w \in DpRegWord, NEW ip
  PROVE  \/ w \in LogicalShiftedWord /\ DecodeDpReg(w, ip) = DecodeLogicalShifted(w, ip) /\ RegWritten(w) = w
         \/ w \in AddSubShiftedWord /\ DecodeDpReg(w, ip) = DecodeAddSubShifted(w, ip) /\ RegWritten(w) = w
         \/ w \in ExtendedWord /\ DecodeDpReg(w, ip) = DecodeExtended(w, ip) /\ RegWritten(w) = w
         \/ w \in CarryWord /\ DecodeDpReg(w, ip) = DecodeCarrySlot(w, ip) /\ RegWritten(w) = w
         \/ w \in CompareWord /\ DecodeDpReg(w, ip) = DecodeCompare(w, ip) /\ RegWritten(w) = w
         \/ w \in SelectWord /\ DecodeDpReg(w, ip) = DecodeSelect(w, ip) /\ RegWritten(w) = w
         \/ w \in ThreeWord /\ DecodeDpReg(w, ip) = DecodeThree(w, ip) /\ RegWritten(w) = ThreeWritten(w)
         \/ w \in TwoWord /\ DecodeDpReg(w, ip) = DecodeTwo(w, ip) /\ RegWritten(w) = w
         \/ w \in OneWord /\ DecodeDpReg(w, ip) = DecodeOne(w, ip) /\ RegWritten(w) = w
<1>1. CASE w \in LogicalShiftedWord
  <2>1. w.class = "logical" BY <1>1 DEF LogicalShiftedWord
  <2> QED BY <1>1, <2>1 DEF DecodeDpReg, RegWritten
<1>2. CASE w \in AddSubShiftedWord
  <2>1. w.class = "addsub" BY <1>2 DEF AddSubShiftedWord
  <2> QED BY <1>2, <2>1 DEF DecodeDpReg, RegWritten
<1>3. CASE w \in ExtendedWord
  <2>1. w.class = "extended" BY <1>3 DEF ExtendedWord
  <2> QED BY <1>3, <2>1 DEF DecodeDpReg, RegWritten
<1>4. CASE w \in CarryWord
  <2>1. w.class = "carry" BY <1>4 DEF CarryWord
  <2> QED BY <1>4, <2>1 DEF DecodeDpReg, RegWritten
<1>5. CASE w \in CompareWord
  <2>1. w.class = "compare" BY <1>5 DEF CompareWord
  <2> QED BY <1>5, <2>1 DEF DecodeDpReg, RegWritten
<1>6. CASE w \in SelectWord
  <2>1. w.class = "select" BY <1>6 DEF SelectWord
  <2> QED BY <1>6, <2>1 DEF DecodeDpReg, RegWritten
<1>7. CASE w \in ThreeWord
  <2>1. w.class = "three" BY <1>7 DEF ThreeWord
  <2> QED BY <1>7, <2>1 DEF DecodeDpReg, RegWritten
<1>8. CASE w \in TwoWord
  <2>1. w.class = "two" BY <1>8 DEF TwoWord
  <2> QED BY <1>8, <2>1 DEF DecodeDpReg, RegWritten
<1>9. CASE w \in OneWord
  <2>1. w.class = "one" BY <1>9 DEF OneWord
  <2> QED BY <1>9, <2>1 DEF DecodeDpReg, RegWritten
<1> QED BY <1>1, <1>2, <1>3, <1>4, <1>5, <1>6, <1>7, <1>8, <1>9 DEF DpRegWord

(* The slot of the additions with carry, and the one-source instructions,
   are told apart once more. *)
LEMMA CarrySlotBack ==
  ASSUME ValuesFit, NEW w \in CarryWord, NEW ip, NEW x, SameAs(x, DecodeCarrySlot(w, ip)),
         x.code # <<"Invalid">>
  PROVE  /\ EncodeDpReg(x) = Ok(w) /\ Is64(x) = w.sf /\ RegListed(x.code[1]) /\ x.code[1] \notin ImmNames
         /\ x.code = CodeOf(x.code[1], w.sf)
<1> DEFINE c == x.code[1]
<1>e. x.code[1] = c OBVIOUS
<1> HIDE DEF c
<1>1. CASE w.op3 = 0
  <2>1. SameAs(x, DecodeCarry(w, ip)) BY <1>1, Zenon DEF DecodeCarrySlot
  <2>2. /\ EncodeCarry(x) = Ok(w) /\ Is64(x) = w.sf /\ Lists(CarryName, x.code[1])
        /\ x.code = CodeOf(x.code[1], w.sf)
    BY <1>1, <2>1, CarryBack
  <2> QED BY <1>e, <2>2, RegEncoderOf DEF RegListed
<1>2. CASE w.op3 # 0 /\ w.op3 % 32 = 1
  <2>1. SameAs(x, DecodeRmif(w, ip)) BY <1>2, Zenon DEF DecodeCarrySlot
  <2>2. EncodeRmif(x) = Ok(w) /\ Is64(x) = w.sf /\ x.code = CodeOf("Rmif", w.sf) BY <1>2, <2>1, RmifBack
  <2>3. x.code[1] = "Rmif" BY <2>2 DEF CodeOf
  <2> QED BY <1>e, <2>2, <2>3, RegEncoderOf DEF RegListed
<1>3. CASE w.op3 # 0 /\ w.op3 % 32 # 1 /\ w.op3 % 16 = 2
  <2>1. SameAs(x, DecodeSetf(w, ip)) BY <1>3, Zenon DEF DecodeCarrySlot
  <2>2. /\ EncodeSetf(x) = Ok(w) /\ Is64(x) = w.sf /\ x.code[1] \in {"Setf8", "Setf16"}
        /\ x.code = CodeOf(x.code[1], w.sf)
    BY <1>3, <2>1, SetfBack
  <2> QED BY <1>e, <2>2, RegEncoderOf DEF RegListed
<1>4. CASE w.op3 # 0 /\ w.op3 % 32 # 1 /\ w.op3 % 16 # 2 /\ w.op3 \div 8 = 1
  <2>1. SameAs(x, DecodeAddPt(w, ip)) BY <1>4, Zenon DEF DecodeCarrySlot
  <2>2. /\ EncodeAddPt(x) = Ok(w) /\ Is64(x) = w.sf /\ x.code[1] \in {"Addpt", "Subpt"}
        /\ x.code = CodeOf(x.code[1], w.sf)
    BY <1>4, <2>1, AddPtBack
  <2> QED BY <1>e, <2>2, RegEncoderOf DEF RegListed
<1>5. CASE w.op3 # 0 /\ w.op3 % 32 # 1 /\ w.op3 % 16 # 2 /\ w.op3 \div 8 # 1
  <2>1. DecodeCarrySlot(w, ip) = NewInvalid(w, ip) BY <1>5, Zenon DEF DecodeCarrySlot
  <2>2. NewInvalid(w, ip).code = <<"Invalid">> BY DEF NewInvalid
  <2> QED BY <2>1, <2>2 DEF SameAs
<1> QED BY <1>1, <1>2, <1>3, <1>4, <1>5

LEMMA OneBack ==
  ASSUME ValuesFit, NEW w \in OneWord, NEW ip, NEW x, SameAs(x, DecodeOne(w, ip)), x.code # <<"Invalid">>
  PROVE  /\ EncodeDpReg(x) = Ok(w) /\ Is64(x) = w.sf /\ RegListed(x.code[1]) /\ x.code[1] \notin ImmNames
         /\ x.code = CodeOf(x.code[1], w.sf)
<1> DEFINE c == x.code[1]
<1>e. x.code[1] = c OBVIOUS
<1> HIDE DEF c
<1>1. ~(w.s # 0) BY Zenon DEF SameAs, DecodeOne, NewInvalid
<1>2. CASE w.opcode2 = 0
  <2>1. DecodeOne(w, ip) = DecodeBasic(w, ip) BY <1>1, <1>2 DEF DecodeOne
  <2>2. /\ EncodeBasic(x) = Ok(w) /\ Is64(x) = w.sf /\ (\E r \in OneSource : r[2] = x.code[1])
        /\ x.code = CodeOf(x.code[1], w.sf)
    BY <1>1, <1>2, <2>1, BasicBack
  <2> QED BY <1>e, <2>2, RegEncoderOf DEF RegListed
<1>3. CASE w.opcode2 = 1
  <2>1. DecodeOne(w, ip) = DecodePauth(w, ip) BY <1>1, <1>3 DEF DecodeOne
  <2>2. /\ EncodePauth(x) = Ok(w) /\ Is64(x) = w.sf /\ x.code = CodeOf(x.code[1], w.sf)
        /\ Lists(PauthName, x.code[1]) \/ \E r \in LrSource : r[2] = x.code[1]
    BY <1>1, <1>3, <2>1, PauthBack
  <2> QED BY <1>e, <2>2, RegEncoderOf DEF RegListed
<1>4. CASE w.opcode2 # 0 /\ w.opcode2 # 1
  <2>1. DecodeOne(w, ip) = NewInvalid(w, ip) BY <1>4 DEF DecodeOne
  <2>2. NewInvalid(w, ip).code = <<"Invalid">> BY DEF NewInvalid
  <2> QED BY <2>1, <2>2 DEF SameAs
<1> QED BY <1>2, <1>3, <1>4

(* Every word of the register group that decodes is written back as itself,
   but for the accumulator SMULH and UMULH do not use: dp_reg::encode undoes
   each alias dp_reg::decode prefers, for every value of every field and any
   features. *)
THEOREM DpRegRecovered ==
  ASSUME ValuesFit, NEW w \in DpRegWord, NEW ip, NEW x, SameAs(x, DecodeDpReg(w, ip)),
         x.code # <<"Invalid">>
  PROVE  /\ EncodeDpReg(x) = Ok(RegWritten(w)) /\ RegListed(x.code[1]) /\ x.code[1] \notin ImmNames
         /\ x.code = CodeOf(x.code[1], w.sf)
<1> DEFINE c == x.code[1]
<1>e. x.code[1] = c OBVIOUS
<1> HIDE DEF c
<1>1. CASE w \in LogicalShiftedWord /\ DecodeDpReg(w, ip) = DecodeLogicalShifted(w, ip) /\ RegWritten(w) = w
  <2>1. EncodeLogicalShifted(x) = Ok(w) /\ Lists(LogicalShiftedName, c) /\ x.code = CodeOf(c, w.sf)
    BY <1>1, <1>e, LogicalShiftedBack
  <2> QED BY <1>1, <1>e, <2>1, RegEncoderOf DEF RegListed
<1>2. CASE w \in AddSubShiftedWord /\ DecodeDpReg(w, ip) = DecodeAddSubShifted(w, ip) /\ RegWritten(w) = w
  <2>1. EncodeAddSubShifted(x) = Ok(w) /\ Lists(AddSubShiftedName, c) /\ x.code = CodeOf(c, w.sf)
    BY <1>2, <1>e, AddSubShiftedBack
  <2> QED BY <1>2, <1>e, <2>1, RegEncoderOf DEF RegListed
<1>3. CASE w \in ExtendedWord /\ DecodeDpReg(w, ip) = DecodeExtended(w, ip) /\ RegWritten(w) = w
  <2>1. EncodeExtended(x) = Ok(w) /\ Lists(ExtendedName, c) /\ x.code = CodeOf(c, w.sf)
    BY <1>3, <1>e, ExtendedBack
  <2> QED BY <1>3, <1>e, <2>1, RegEncoderOf DEF RegListed
<1>4. CASE w \in CarryWord /\ DecodeDpReg(w, ip) = DecodeCarrySlot(w, ip) /\ RegWritten(w) = w
  BY <1>4, CarrySlotBack
<1>5. CASE w \in CompareWord /\ DecodeDpReg(w, ip) = DecodeCompare(w, ip) /\ RegWritten(w) = w
  <2>1. EncodeCompare(x) = Ok(w) /\ Lists(CompareName, c) /\ x.code = CodeOf(c, w.sf)
    BY <1>5, <1>e, CompareBack
  <2> QED BY <1>5, <1>e, <2>1, RegEncoderOf DEF RegListed
<1>6. CASE w \in SelectWord /\ DecodeDpReg(w, ip) = DecodeSelect(w, ip) /\ RegWritten(w) = w
  <2>1. EncodeSelect(x) = Ok(w) /\ Lists(SelectName, c) /\ x.code = CodeOf(c, w.sf)
    BY <1>6, <1>e, SelectBack
  <2> QED BY <1>6, <1>e, <2>1, RegEncoderOf DEF RegListed
<1>7. CASE w \in ThreeWord /\ DecodeDpReg(w, ip) = DecodeThree(w, ip) /\ RegWritten(w) = ThreeWritten(w)
  <2>1. /\ EncodeThree(x) = Ok(ThreeWritten(w)) /\ (\E r \in ThreeSource : r[3] = c)
        /\ x.code = CodeOf(c, w.sf)
    BY <1>7, <1>e, ThreeBack
  <2> QED BY <1>7, <1>e, <2>1, RegEncoderOf DEF RegListed
<1>8. CASE w \in TwoWord /\ DecodeDpReg(w, ip) = DecodeTwo(w, ip) /\ RegWritten(w) = w
  <2>1. EncodeTwo(x) = Ok(w) /\ (\E r \in TwoSource : r[3] = c) /\ x.code = CodeOf(c, w.sf)
    BY <1>8, <1>e, TwoBack
  <2> QED BY <1>8, <1>e, <2>1, RegEncoderOf DEF RegListed
<1>9. CASE w \in OneWord /\ DecodeDpReg(w, ip) = DecodeOne(w, ip) /\ RegWritten(w) = w BY <1>9, OneBack
<1> QED BY <1>1, <1>2, <1>3, <1>4, <1>5, <1>6, <1>7, <1>8, <1>9, RegClassOf, Zenon

(* The word an instruction of the register group is written as is a word of
   the group, and means what the first one meant. *)
THEOREM RegWrittenMeansTheSame ==
  ASSUME NEW w \in DpRegWord, NEW ip
  PROVE  RegWritten(w) \in DpRegWord /\ SameAs(DecodeDpReg(RegWritten(w), ip), DecodeDpReg(w, ip))
<1> DEFINE u == RegWritten(w)
<1>1. CASE RegWritten(w) = w BY <1>1 DEF SameAs
<1>2. CASE w \in ThreeWord /\ w.op31 \in {2, 6} /\ RegWritten(w) = [w EXCEPT !.ra = 31]
  <2>1. u \in ThreeWord BY <1>2 DEF ThreeWord, RegNum
  <2>2. /\ u.sf = w.sf /\ u.op54 = w.op54 /\ u.op31 = w.op31 /\ u.rm = w.rm /\ u.o0 = w.o0
        /\ u.rn = w.rn /\ u.rd = w.rd
    BY <1>2 DEF ThreeWord
  <2> HIDE DEF u
  <2>3. DecodeDpReg(u, ip) = DecodeThree(u, ip) /\ DecodeDpReg(w, ip) = DecodeThree(w, ip)
    <3>1. u.class = "three" /\ w.class = "three" BY <1>2, <2>1 DEF ThreeWord
    <3> QED BY <3>1 DEF DecodeDpReg
  <2> DEFINE rows == {r \in ThreeSource : r[1] = w.op31 /\ r[2] = w.o0 /\ w.sf \in r[4]}
             row  == CHOOSE r \in rows : TRUE
             c    == CodeOf(row[3], w.sf)
             src  == IF row[5] = "WidenMaddSub" THEN 0 ELSE w.sf
             regs == <<Gp(w.sf, w.rd), Gp(src, w.rn), Gp(src, w.rm)>>
  <2>4. \A r \in rows : r[5] = "HighMul"
    <3>1. \A r \in rows : r \in ThreeSource /\ r[1] \in {2, 6} BY <1>2
    <3> QED BY <3>1, ThreeRows
  <2>5. rows # {} => row[5] = "HighMul" BY <2>4
  <2>6. DecodeThree(w, ip) = IF w.op54 # 0 \/ rows = {} THEN NewInvalid(w, ip) ELSE Plain(w, ip, c, regs)
    BY <2>5, Zenon DEF DecodeThree
  <2>7. DecodeThree(u, ip) = IF w.op54 # 0 \/ rows = {} THEN NewInvalid(u, ip) ELSE Plain(u, ip, c, regs)
    <3> DEFINE rowsU == {r \in ThreeSource : r[1] = u.op31 /\ r[2] = u.o0 /\ u.sf \in r[4]}
               rowU  == CHOOSE r \in rowsU : TRUE
               srcU  == IF rowU[5] = "WidenMaddSub" THEN 0 ELSE u.sf
               regsU == <<Gp(u.sf, u.rd), Gp(srcU, u.rn), Gp(srcU, u.rm)>>
    <3>1. rowsU = rows BY <2>2
    <3>2. rowU = row BY <3>1, Zenon
    <3>3. DecodeThree(u, ip) = IF u.op54 # 0 \/ rowsU = {} THEN NewInvalid(u, ip)
                               ELSE IF rowU[5] = "HighMul" THEN Plain(u, ip, CodeOf(rowU[3], u.sf), regsU)
                               ELSE IF rowU[5] # "PtMaddSub" /\ u.ra = 31
                                    THEN Alias(u, ip, CodeOf(rowU[3], u.sf), rowU[6], regsU)
                               ELSE Plain(u, ip, CodeOf(rowU[3], u.sf), Append(regsU, Gp(u.sf, u.ra)))
      BY Zenon DEF DecodeThree
    <3> HIDE DEF rowsU, rowU, row, rows
    <3>4. CodeOf(rowU[3], u.sf) = c /\ regsU = regs BY <2>2, <3>2, Zenon
    <3> HIDE DEF regsU, regs, c
    <3> QED BY <2>2, <2>5, <3>1, <3>2, <3>3, <3>4
  <2> HIDE DEF rows, c, regs
  <2>8. SameAs(DecodeThree(u, ip), DecodeThree(w, ip))
    <3>1. CASE w.op54 # 0 \/ rows = {} BY <2>6, <2>7, <3>1 DEF SameAs, NewInvalid
    <3>2. CASE ~(w.op54 # 0 \/ rows = {}) BY <2>6, <2>7, <3>2 DEF SameAs, Plain, Built, NewInvalid
    <3> QED BY <3>1, <3>2
  <2> QED BY <2>1, <2>3, <2>8 DEF DpRegWord, u
<1>3. RegWritten(w) = w \/ (w \in ThreeWord /\ w.op31 \in {2, 6} /\ RegWritten(w) = [w EXCEPT !.ra = 31])
  <2>1. RegWritten(w) = w \/ (w \in ThreeWord /\ RegWritten(w) = ThreeWritten(w)) BY RegClassOf, Zenon
  <2> QED BY <2>1 DEF ThreeWritten
<1> HIDE DEF u
<1> QED BY <1>1, <1>2, <1>3, Zenon

(***************************************************************************)
(* What a conditional select shows                                         *)
(***************************************************************************)

CondAliases == {"Cset", "Csetm", "Cinc", "Cinv", "Cneg"}

(* What a decoder builds: the invalid instruction, or one under the name of
   its Code, or one under an alias. *)
IsNone(y, w, ip) == y = NewInvalid(w, ip)
IsPlain(y, w, ip, name, sf) == \E l : y = Plain(w, ip, CodeOf(name, sf), l)
IsAlias(y, w, ip, name, sf, m) == \E l : y = Alias(w, ip, CodeOf(name, sf), m, l)

LEMMA NoneShown ==
  ASSUME NEW y, NEW w, NEW ip, IsNone(y, w, ip)
  PROVE  y.mnem = <<"Invalid">>
BY DEF IsNone, NewInvalid

LEMMA PlainShown ==
  ASSUME NEW y, NEW w, NEW ip, NEW name, NEW sf, IsPlain(y, w, ip, name, sf)
  PROVE  y.mnem = <<name>>
<1>1. ASSUME NEW l PROVE Plain(w, ip, CodeOf(name, sf), l).mnem = <<name>>
  BY DEF Plain, Built, NewInvalid, MnemonicOf, CodeOf
<1> QED BY <1>1 DEF IsPlain

LEMMA AliasShown ==
  ASSUME NEW y, NEW w, NEW ip, NEW name, NEW sf, NEW m, IsAlias(y, w, ip, name, sf, m)
  PROVE  y.mnem = <<m>>
<1>1. ASSUME NEW l PROVE Alias(w, ip, CodeOf(name, sf), m, l).mnem = <<m>>
  BY DEF Alias, Built, NewInvalid
<1> QED BY <1>1 DEF IsAlias

(* No decoder of another class gives one of those mnemonics. *)
LEMMA NoOtherConditionAliases ==
  ASSUME NEW w \in DpRegWord, NEW ip, NEW m \in CondAliases, DecodeDpReg(w, ip).mnem = <<m>>
  PROVE  w \in SelectWord /\ DecodeDpReg(w, ip) = DecodeSelect(w, ip)
<1> DEFINE shown == {"Invalid", "Mov", "Mvn", "Tst", "Cmp", "Cmn", "Neg", "Negs", "Ngc", "Ngcs", "Rmif", "Setf8",
                     "Setf16", "Addpt", "Subpt", "Lsl", "Lsr", "Asr", "Ror"}
           tables == {"AndShifted", "BicShifted", "OrrShifted", "OrnShifted",
                      "EorShifted", "EonShifted", "AndsShifted", "BicsShifted",
                      "AddShifted", "AddsShifted", "SubShifted", "SubsShifted",
                      "AddExtended", "AddsExtended", "SubExtended", "SubsExtended",
                      "Adc", "Adcs", "Sbc", "Sbcs", "CcmnReg", "CcmnImm", "CcmpReg", "CcmpImm"}
           other  == shown \cup tables \cup ThreeNames \cup ThreeAlias \cup TwoNames \cup BasicNames
                       \cup PauthNames \cup LrNames
           y      == DecodeDpReg(w, ip)
<1>1. m \notin other
  BY DEF CondAliases, ThreeNames, ThreeAlias, TwoNames, BasicNames, PauthNames, LrNames
<1>s. \A s : s \in shown => s \in other OBVIOUS
<1>t. \A s : s \in tables => s \in other OBVIOUS
<1>n. /\ \A s \in ThreeNames : s \in other
      /\ \A s \in ThreeAlias : s \in other
      /\ \A s \in TwoNames : s \in other
      /\ \A s \in BasicNames : s \in other
      /\ \A s \in PauthNames : s \in other
      /\ \A s \in LrNames : s \in other
  OBVIOUS
<1>i. NewInvalid(w, ip).mnem = <<"Invalid">> /\ "Invalid" \in shown BY DEF NewInvalid
<1>y. y.mnem = <<m>> OBVIOUS
<1> HIDE DEF other
<1>2. ASSUME w \in LogicalShiftedWord, y = DecodeLogicalShifted(w, ip) PROVE FALSE
  <2> DEFINE name == LogicalShiftedName[2 * w.opc + w.n + 1]
  <2>1. Lists(LogicalShiftedName, name)
    <3>1. w.opc \in 0..3 /\ w.n \in {0, 1} BY <1>2 DEF LogicalShiftedWord, Bit
    <3>2. 2 * w.opc + w.n + 1 \in DOMAIN LogicalShiftedName BY <3>1, RegTablesAreDistinct
    <3> QED BY <3>2 DEF Lists
  <2>2. name \in tables BY <2>1, RegTableNames
  <2> HIDE DEF name, tables
  <2>3. y.mnem \in {<<"Invalid">>, <<"Mov">>, <<"Mvn">>, <<"Tst">>, <<name>>}
    <3>1. \/ IsNone(y, w, ip)
          \/ IsAlias(y, w, ip, name, w.sf, "Mov")
          \/ IsAlias(y, w, ip, name, w.sf, "Mvn")
          \/ IsAlias(y, w, ip, name, w.sf, "Tst")
          \/ IsPlain(y, w, ip, name, w.sf)
      BY <1>2, Zenon DEF DecodeLogicalShifted, IsNone, IsPlain, IsAlias, name
    <3> HIDE DEF y
    <3> QED BY <3>1, NoneShown, PlainShown, AliasShown, Zenon
  <2>4. \A s : s \in {"Invalid", "Mov", "Mvn", "Tst"} => s \in shown OBVIOUS
  <2> HIDE DEF shown, y
  <2> QED BY <1>1, <1>y, <1>s, <1>t, <2>2, <2>3, <2>4
<1>3. ASSUME w \in AddSubShiftedWord, y = DecodeAddSubShifted(w, ip) PROVE FALSE
  <2> DEFINE name == AddSubShiftedName[2 * w.op + w.s + 1]
             cmp  == CompareAlias(w.op)
             neg  == IF w.s = 1 THEN "Negs" ELSE "Neg"
  <2>1. Lists(AddSubShiftedName, name)
    <3>1. w.op \in {0, 1} /\ w.s \in {0, 1} BY <1>3 DEF AddSubShiftedWord, Bit
    <3>2. 2 * w.op + w.s + 1 \in DOMAIN AddSubShiftedName BY <3>1, RegTablesAreDistinct
    <3> QED BY <3>2 DEF Lists
  <2>2. name \in tables BY <2>1, RegTableNames
  <2>4. cmp \in shown /\ neg \in shown BY DEF CompareAlias
  <2> HIDE DEF name, tables, cmp, neg
  <2>3. y.mnem \in {<<"Invalid">>, <<cmp>>, <<neg>>, <<name>>}
    <3>1. \/ IsNone(y, w, ip)
          \/ IsAlias(y, w, ip, name, w.sf, cmp)
          \/ IsAlias(y, w, ip, name, w.sf, neg)
          \/ IsPlain(y, w, ip, name, w.sf)
      BY <1>3, Zenon DEF DecodeAddSubShifted, IsNone, IsPlain, IsAlias, name, cmp, neg
    <3> HIDE DEF y
    <3> QED BY <3>1, NoneShown, PlainShown, AliasShown, Zenon
  <2> HIDE DEF shown, y
  <2> QED BY <1>1, <1>y, <1>s, <1>t, <1>i, <2>2, <2>3, <2>4
<1>4. ASSUME w \in ExtendedWord, y = DecodeExtended(w, ip) PROVE FALSE
  <2> DEFINE name == ExtendedName[2 * w.op + w.s + 1]
             cmp  == CompareAlias(w.op)
  <2>1. Lists(ExtendedName, name)
    <3>1. w.op \in {0, 1} /\ w.s \in {0, 1} BY <1>4 DEF ExtendedWord, Bit
    <3>2. 2 * w.op + w.s + 1 \in DOMAIN ExtendedName BY <3>1, RegTablesAreDistinct
    <3> QED BY <3>2 DEF Lists
  <2>2. name \in tables BY <2>1, RegTableNames
  <2>4. cmp \in shown BY DEF CompareAlias
  <2> HIDE DEF name, tables, cmp
  <2>3. y.mnem \in {<<"Invalid">>, <<cmp>>, <<name>>}
    <3>1. \/ IsNone(y, w, ip)
          \/ IsAlias(y, w, ip, name, w.sf, cmp)
          \/ IsPlain(y, w, ip, name, w.sf)
      BY <1>4, Zenon DEF DecodeExtended, IsNone, IsPlain, IsAlias, name, cmp
    <3> HIDE DEF y
    <3> QED BY <3>1, NoneShown, PlainShown, AliasShown, Zenon
  <2> HIDE DEF shown, y
  <2> QED BY <1>1, <1>y, <1>s, <1>t, <1>i, <2>2, <2>3, <2>4
<1>5. ASSUME w \in CarryWord, y = DecodeCarrySlot(w, ip) PROVE FALSE
  <2> DEFINE name == CarryName[2 * w.op + w.s + 1]
             neg  == IF w.s = 1 THEN "Ngcs" ELSE "Ngc"
             setf == IF (w.op3 \div 16) % 2 = 0 THEN "Setf8" ELSE "Setf16"
             pt   == IF w.op = 0 THEN "Addpt" ELSE "Subpt"
  <2>1. Lists(CarryName, name)
    <3>1. w.op \in {0, 1} /\ w.s \in {0, 1} BY <1>5 DEF CarryWord, Bit
    <3>2. 2 * w.op + w.s + 1 \in DOMAIN CarryName BY <3>1, RegTablesAreDistinct
    <3> QED BY <3>2 DEF Lists
  <2>2. name \in tables BY <2>1, RegTableNames
  <2>4. neg \in shown /\ setf \in shown /\ pt \in shown /\ "Rmif" \in shown OBVIOUS
  <2> HIDE DEF name, tables, neg, setf, pt
  <2>3. DecodeCarry(w, ip).mnem \in {<<neg>>, <<name>>}
    <3> DEFINE d == DecodeCarry(w, ip)
    <3>1. \/ IsAlias(d, w, ip, name, w.sf, neg)
          \/ IsPlain(d, w, ip, name, w.sf)
      BY Zenon DEF DecodeCarry, IsNone, IsPlain, IsAlias, name, neg
    <3> HIDE DEF d
    <3>2. d.mnem \in {<<neg>>, <<name>>} BY <3>1, NoneShown, PlainShown, AliasShown, Zenon
    <3> QED BY <3>2 DEF d
  <2>5. DecodeRmif(w, ip).mnem \in {<<"Invalid">>, <<"Rmif">>}
    <3> DEFINE d == DecodeRmif(w, ip)
    <3>1. \/ IsNone(d, w, ip)
          \/ IsPlain(d, w, ip, "Rmif", 1)
      BY Zenon DEF DecodeRmif, IsNone, IsPlain, IsAlias
    <3> HIDE DEF d
    <3>2. d.mnem \in {<<"Invalid">>, <<"Rmif">>} BY <3>1, NoneShown, PlainShown, AliasShown, Zenon
    <3> QED BY <3>2 DEF d
  <2>6. DecodeSetf(w, ip).mnem \in {<<"Invalid">>, <<setf>>}
    <3> DEFINE d == DecodeSetf(w, ip)
    <3>1. \/ IsNone(d, w, ip)
          \/ IsPlain(d, w, ip, setf, 0)
      BY Zenon DEF DecodeSetf, IsNone, IsPlain, IsAlias, setf
    <3> HIDE DEF d
    <3>2. d.mnem \in {<<"Invalid">>, <<setf>>} BY <3>1, NoneShown, PlainShown, AliasShown, Zenon
    <3> QED BY <3>2 DEF d
  <2>7. DecodeAddPt(w, ip).mnem \in {<<"Invalid">>, <<pt>>}
    <3> DEFINE d == DecodeAddPt(w, ip)
    <3>1. \/ IsNone(d, w, ip)
          \/ IsPlain(d, w, ip, pt, 1)
      BY Zenon DEF DecodeAddPt, IsNone, IsPlain, IsAlias, pt
    <3> HIDE DEF d
    <3>2. d.mnem \in {<<"Invalid">>, <<pt>>} BY <3>1, NoneShown, PlainShown, AliasShown, Zenon
    <3> QED BY <3>2 DEF d
  <2>8. \/ y = DecodeCarry(w, ip) \/ y = DecodeRmif(w, ip) \/ y = DecodeSetf(w, ip)
        \/ y = DecodeAddPt(w, ip) \/ y = NewInvalid(w, ip)
    BY <1>5, Zenon DEF DecodeCarrySlot
  <2>9. y.mnem \in {<<"Invalid">>, <<"Rmif">>, <<neg>>, <<name>>, <<setf>>, <<pt>>}
    BY <1>i, <2>3, <2>5, <2>6, <2>7, <2>8
  <2> HIDE DEF shown, y
  <2> QED BY <1>1, <1>y, <1>s, <1>t, <1>i, <2>2, <2>4, <2>9
<1>6. ASSUME w \in CompareWord, y = DecodeCompare(w, ip) PROVE FALSE
  <2> DEFINE name == CompareName[2 * w.op + w.form + 1]
  <2>1. Lists(CompareName, name)
    <3>1. w.op \in {0, 1} /\ w.form \in {0, 1} BY <1>6 DEF CompareWord, Bit
    <3>2. 2 * w.op + w.form + 1 \in DOMAIN CompareName BY <3>1, RegTablesAreDistinct
    <3> QED BY <3>2 DEF Lists
  <2>2. name \in tables BY <2>1, RegTableNames
  <2> HIDE DEF name, tables
  <2>3. y.mnem \in {<<"Invalid">>, <<name>>}
    <3>1. \/ IsNone(y, w, ip)
          \/ IsPlain(y, w, ip, name, w.sf)
      BY <1>6, Zenon DEF DecodeCompare, IsNone, IsPlain, IsAlias, name
    <3> HIDE DEF y
    <3> QED BY <3>1, NoneShown, PlainShown, AliasShown, Zenon
  <2> HIDE DEF shown, y
  <2> QED BY <1>1, <1>y, <1>s, <1>t, <1>i, <2>2, <2>3
<1>7. ASSUME w \in ThreeWord, y = DecodeThree(w, ip) PROVE FALSE
  <2> DEFINE rows == {r \in ThreeSource : r[1] = w.op31 /\ r[2] = w.o0 /\ w.sf \in r[4]}
             row  == CHOOSE r \in rows : TRUE
  <2>1. \/ y.mnem = <<"Invalid">>
        \/ rows # {} /\ y.mnem = <<row[3]>>
        \/ rows # {} /\ row[5] # "HighMul" /\ row[5] # "PtMaddSub" /\ y.mnem = <<row[6]>>
    <3>1. \/ IsNone(y, w, ip)
          \/ rows # {} /\ IsPlain(y, w, ip, row[3], w.sf)
          \/ /\ rows # {} /\ row[5] # "HighMul" /\ row[5] # "PtMaddSub"
             /\ IsAlias(y, w, ip, row[3], w.sf, row[6])
      BY <1>7, Zenon DEF DecodeThree, IsNone, IsPlain, IsAlias
    <3> HIDE DEF y, row, rows
    <3>2. IsNone(y, w, ip) => y.mnem = <<"Invalid">> BY NoneShown, Zenon
    <3>3. IsPlain(y, w, ip, row[3], w.sf) => y.mnem = <<row[3]>> BY PlainShown, Zenon
    <3>4. IsAlias(y, w, ip, row[3], w.sf, row[6]) => y.mnem = <<row[6]>> BY AliasShown
    <3> QED BY <3>1, <3>2, <3>3, <3>4, Zenon
  <2>2. rows # {} => row \in ThreeSource
    <3>1. rows # {} => row \in rows OBVIOUS
    <3> HIDE DEF row
    <3> QED BY <3>1
  <2> HIDE DEF row, rows, shown, y
  <2>3. rows # {} => row[3] \in ThreeNames BY <2>2, ThreeRows
  <2>4. rows # {} /\ row[5] # "HighMul" /\ row[5] # "PtMaddSub" => row[6] \in ThreeAlias BY <2>2, ThreeRows
  <2> QED BY <1>1, <1>y, <1>s, <1>n, <1>i, <2>1, <2>3, <2>4
<1>8. ASSUME w \in TwoWord, y = DecodeTwo(w, ip) PROVE FALSE
  <2> DEFINE rows == {r \in TwoSource : r[1] = w.s /\ r[2] = w.opcode /\ w.sf \in r[4] /\ Gated(r[5])}
             name == (CHOOSE r \in rows : TRUE)[3]
             var  == VarShiftAlias(name)
  <2>1. \/ y.mnem = <<"Invalid">>
        \/ rows # {} /\ y.mnem = <<name>>
        \/ name \in VarShift /\ y.mnem = <<var>>
    <3>1. \/ IsNone(y, w, ip)
          \/ rows # {} /\ IsPlain(y, w, ip, name, w.sf)
          \/ name \in VarShift /\ IsAlias(y, w, ip, name, w.sf, var)
      BY <1>8, Zenon DEF DecodeTwo, IsNone, IsPlain, IsAlias
    <3> HIDE DEF y, name, rows, var
    <3> QED BY <3>1, NoneShown, PlainShown, AliasShown, Zenon
  <2>2. rows # {} => name \in TwoNames
    <3> DEFINE row == CHOOSE r \in rows : TRUE
    <3>1. rows # {} => row \in rows OBVIOUS
    <3>2. rows # {} => row \in TwoSource
      <4> HIDE DEF row
      <4> QED BY <3>1
    <3>3. name = row[3] OBVIOUS
    <3> HIDE DEF row, rows, name
    <3> QED BY <3>2, <3>3, SourceNames
  <2> HIDE DEF name
  <2>3. name \in VarShift => var \in shown BY DEF VarShift, VarShiftAlias
  <2> HIDE DEF rows, shown, y, var
  <2> QED BY <1>1, <1>y, <1>s, <1>n, <1>i, <2>1, <2>2, <2>3
<1>9. ASSUME w \in OneWord, y = DecodeOne(w, ip) PROVE FALSE
  <2> DEFINE basics == {r \in OneSource : r[1] = w.opcode /\ w.sf \in r[3] /\ Gated(r[4])}
             basic  == (CHOOSE r \in basics : TRUE)[2]
             rows   == {r \in LrSource : /\ "PauthLr" \in Features /\ w.rd = 30
                                         /\ r[1] = w.opcode /\ (r[2] \in Sppcr \/ w.rn = 31)}
             lr     == (CHOOSE r \in rows : TRUE)[2]
             pauth  == PauthName[w.opcode + 1]
  <2>1. DecodeBasic(w, ip).mnem = <<"Invalid">> \/ (basics # {} /\ DecodeBasic(w, ip).mnem = <<basic>>)
    <3> DEFINE d == DecodeBasic(w, ip)
    <3>1. \/ IsNone(d, w, ip)
          \/ basics # {} /\ IsPlain(d, w, ip, basic, w.sf)
      BY Zenon DEF DecodeBasic, IsNone, IsPlain, IsAlias
    <3> HIDE DEF d, basics, basic
    <3>2. d.mnem = <<"Invalid">> \/ (basics # {} /\ d.mnem = <<basic>>) BY <3>1, NoneShown, PlainShown, AliasShown, Zenon
    <3> QED BY <3>2 DEF d
  <2>2. \/ DecodePauth(w, ip).mnem = <<"Invalid">>
        \/ rows # {} /\ DecodePauth(w, ip).mnem = <<lr>>
        \/ ~(w.opcode > 17) /\ DecodePauth(w, ip).mnem = <<pauth>>
    <3> DEFINE d == DecodePauth(w, ip)
    <3>1. \/ IsNone(d, w, ip)
          \/ rows # {} /\ IsPlain(d, w, ip, lr, 1)
          \/ ~(w.opcode > 17) /\ IsPlain(d, w, ip, pauth, 1)
      BY Zenon DEF DecodePauth, IsNone, IsPlain, IsAlias
    <3> HIDE DEF d, rows, lr, pauth
    <3>2. \/ d.mnem = <<"Invalid">>
          \/ rows # {} /\ d.mnem = <<lr>>
          \/ ~(w.opcode > 17) /\ d.mnem = <<pauth>>
      BY <3>1, NoneShown, PlainShown, AliasShown, Zenon
    <3> QED BY <3>2 DEF d
  <2>3. y = DecodeBasic(w, ip) \/ y = DecodePauth(w, ip) \/ y = NewInvalid(w, ip) BY <1>9, Zenon DEF DecodeOne
  <2>4. basics # {} => basic \in BasicNames
    <3> DEFINE row == CHOOSE r \in basics : TRUE
    <3>1. basics # {} => row \in basics OBVIOUS
    <3>2. basics # {} => row \in OneSource
      <4> HIDE DEF row
      <4> QED BY <3>1
    <3>3. basic = row[2] OBVIOUS
    <3> HIDE DEF row, basics, basic
    <3> QED BY <3>2, <3>3, SourceNames
  <2>5. rows # {} => lr \in LrNames
    <3> DEFINE row == CHOOSE r \in rows : TRUE
    <3>1. rows # {} => row \in rows OBVIOUS
    <3>2. rows # {} => row \in LrSource
      <4> HIDE DEF row
      <4> QED BY <3>1
    <3>3. lr = row[2] OBVIOUS
    <3> HIDE DEF row, rows, lr
    <3> QED BY <3>2, <3>3, SourceNames
  <2>6. ~(w.opcode > 17) => pauth \in PauthNames
    <3>1. w.opcode \in 0..63 BY <1>9 DEF OneWord, Imm6
    <3>2. PICK n \in 0..63 : n = w.opcode BY <3>1
    <3>3. ~(n > 17) => n + 1 \in DOMAIN PauthName BY RegTablesAreDistinct
    <3>4. ~(w.opcode > 17) => Lists(PauthName, pauth) BY <3>2, <3>3 DEF Lists
    <3> QED BY <3>4, PauthTableNames
  <2> HIDE DEF basics, basic, rows, lr, pauth, shown, y
  <2> QED BY <1>1, <1>y, <1>s, <1>n, <1>i, <2>1, <2>2, <2>3, <2>4, <2>5, <2>6
<1>10. \/ w \in LogicalShiftedWord /\ y = DecodeLogicalShifted(w, ip)
       \/ w \in AddSubShiftedWord /\ y = DecodeAddSubShifted(w, ip)
       \/ w \in ExtendedWord /\ y = DecodeExtended(w, ip)
       \/ w \in CarryWord /\ y = DecodeCarrySlot(w, ip)
       \/ w \in CompareWord /\ y = DecodeCompare(w, ip)
       \/ w \in SelectWord /\ y = DecodeSelect(w, ip)
       \/ w \in ThreeWord /\ y = DecodeThree(w, ip)
       \/ w \in TwoWord /\ y = DecodeTwo(w, ip)
       \/ w \in OneWord /\ y = DecodeOne(w, ip)
  BY RegClassOf, Zenon
<1> QED BY <1>2, <1>3, <1>4, <1>5, <1>6, <1>7, <1>8, <1>9, <1>10, Zenon

(* An alias of CSINC, CSINV or CSNEG shows the inverse of the condition in
   its word, which is neither AL nor NV. *)
THEOREM ConditionShown ==
  ASSUME ValuesFit, NEW w \in DpRegWord, NEW ip, NEW x, SameAs(x, DecodeDpReg(w, ip)),
         NEW m \in CondAliases, x.mnem = <<m>>
  PROVE  w.cond \in 0..13 /\ OpAt(x, x.cnt - 1).val = Invert(w.cond)
<1>1. DecodeDpReg(w, ip).mnem = <<m>> BY DEF SameAs
<1>2. w \in SelectWord /\ DecodeDpReg(w, ip) = DecodeSelect(w, ip) BY <1>1, NoOtherConditionAliases
<1>3. SameAs(x, DecodeSelect(w, ip)) BY <1>2
<1>c. w.cond \in 0..15 /\ w.op \in {0, 1} /\ w.o2 \in {0, 1} BY <1>2 DEF SelectWord, Bit
<1>4. x.code # <<"Invalid">>
  <2> DEFINE name == SelectName[2 * w.op + w.o2 + 1]
             c    == CodeOf(name, w.sf)
  <2>1. \/ DecodeSelect(w, ip) = NewInvalid(w, ip)
        \/ \E a, list : DecodeSelect(w, ip) = Alias(w, ip, c, a, list)
        \/ \E list : DecodeSelect(w, ip) = Plain(w, ip, c, list)
    BY Zenon DEF DecodeSelect
  <2>2. DecodeSelect(w, ip) = NewInvalid(w, ip) => x.mnem = <<"Invalid">> BY <1>3 DEF SameAs, NewInvalid
  <2>3. m # "Invalid" BY DEF CondAliases
  <2>4. DecodeSelect(w, ip) # NewInvalid(w, ip) BY <2>2, <2>3
  <2>5. x.code = c
    <3> HIDE DEF c
    <3> QED BY <1>3, <2>1, <2>4 DEF SameAs, Alias, Plain, Built, NewInvalid
  <2> HIDE DEF name
  <2> QED BY <2>5 DEF CodeOf
<1>5. SelectForm(w, x) BY <1>2, <1>3, <1>4, SelectShows
<1>6. <<SelectName[2 * w.op + w.o2 + 1]>> # <<m>>
  <2>1. 2 * w.op + w.o2 + 1 \in DOMAIN SelectName BY <1>c, RegTablesAreDistinct
  <2>2. Lists(SelectName, SelectName[2 * w.op + w.o2 + 1]) BY <2>1 DEF Lists
  <2> DEFINE name == SelectName[2 * w.op + w.o2 + 1]
  <2>3. name \in {"Csel", "Csinc", "Csinv", "Csneg"} BY <2>2, RegTableNames
  <2> HIDE DEF name
  <2>4. <<name>> # <<m>> BY <2>3 DEF CondAliases
  <2> QED BY <2>4 DEF name
<1>7. CondOk(w.cond) /\ OpAt(x, x.cnt - 1) = CondOp(Invert(w.cond)) BY <1>5, <1>6 DEF SelectForm
<1>8. w.cond \in 0..13
  <2>1. PICK cd \in 0..15 : cd = w.cond BY <1>c
  <2>2. cd < 14 BY <1>7, <2>1 DEF CondOk
  <2> QED BY <2>1, <2>2
<1>9. OpAt(x, x.cnt - 1).val = Invert(w.cond) BY <1>7 DEF CondOp, Op
<1> QED BY <1>8, <1>9

(***************************************************************************)
(* What the two groups share with the others                               *)
(***************************************************************************)

(* A decoder gives the invalid instruction, or one built from a list. *)
IsBuilt(y, w, ip) == y = NewInvalid(w, ip) \/ \E c, m, l : y = Built(w, ip, c, m, l)

(* The dispatch puts the whole word into such an instruction, and changes
   nothing else. *)
LEMMA BuiltSame ==
  ASSUME NEW y, NEW w, NEW ip, NEW t, IsBuilt(y, w, ip)
  PROVE  SameAs([y EXCEPT !.word = t], y)
<1>1. CASE y = NewInvalid(w, ip) BY <1>1 DEF NewInvalid, SameAs
<1>2. ASSUME NEW c, NEW m, NEW l, y = Built(w, ip, c, m, l) PROVE SameAs([y EXCEPT !.word = t], y)
  BY <1>2 DEF Built, NewInvalid, SameAs
<1> QED BY <1>1, <1>2 DEF IsBuilt

LEMMA ImmIsBuilt ==
  ASSUME NEW w \in DpImmWord, NEW ip
  PROVE  IsBuilt(DecodeDpImm(w, ip), w, ip)
<1>1. IsBuilt(DecodeAddSub(w, ip), w, ip) BY Zenon DEF DecodeAddSub, IsBuilt, Plain, Alias
<1>2. IsBuilt(DecodeTags(w, ip), w, ip) BY Zenon DEF DecodeTags, IsBuilt, Plain
<1>3. IsBuilt(DecodeMinMax(w, ip), w, ip) BY Zenon DEF DecodeMinMax, IsBuilt, Plain
<1>4. IsBuilt(DecodeLogical(w, ip), w, ip) BY Zenon DEF DecodeLogical, IsBuilt, Plain, Alias
<1>5. IsBuilt(DecodeMoveWide(w, ip), w, ip) BY Zenon DEF DecodeMoveWide, IsBuilt, Plain, Alias
<1>6. IsBuilt(DecodeBitfield(w, ip), w, ip) BY Zenon DEF DecodeBitfield, IsBuilt, Alias
<1>7. IsBuilt(DecodeExtract(w, ip), w, ip) BY Zenon DEF DecodeExtract, IsBuilt, Plain, Alias
<1> QED BY <1>1, <1>2, <1>3, <1>4, <1>5, <1>6, <1>7, ClassOf, Zenon

LEMMA RegIsBuilt ==
  ASSUME NEW w \in DpRegWord, NEW ip
  PROVE  IsBuilt(DecodeDpReg(w, ip), w, ip)
<1>1. IsBuilt(DecodeLogicalShifted(w, ip), w, ip) BY Zenon DEF DecodeLogicalShifted, IsBuilt, Plain, Alias
<1>2. IsBuilt(DecodeAddSubShifted(w, ip), w, ip) BY Zenon DEF DecodeAddSubShifted, IsBuilt, Plain, Alias
<1>3. IsBuilt(DecodeExtended(w, ip), w, ip) BY Zenon DEF DecodeExtended, IsBuilt, Plain, Alias
<1>4. IsBuilt(DecodeCarrySlot(w, ip), w, ip)
  <2>1. IsBuilt(DecodeCarry(w, ip), w, ip) BY Zenon DEF DecodeCarry, IsBuilt, Plain, Alias
  <2>2. IsBuilt(DecodeRmif(w, ip), w, ip) BY Zenon DEF DecodeRmif, IsBuilt, Plain
  <2>3. IsBuilt(DecodeSetf(w, ip), w, ip) BY Zenon DEF DecodeSetf, IsBuilt, Plain
  <2>4. IsBuilt(DecodeAddPt(w, ip), w, ip) BY Zenon DEF DecodeAddPt, IsBuilt, Plain
  <2>5. IsBuilt(NewInvalid(w, ip), w, ip) BY DEF IsBuilt
  <2> QED BY <2>1, <2>2, <2>3, <2>4, <2>5, Zenon DEF DecodeCarrySlot
<1>5. IsBuilt(DecodeCompare(w, ip), w, ip) BY Zenon DEF DecodeCompare, IsBuilt, Plain
<1>6. IsBuilt(DecodeSelect(w, ip), w, ip) BY Zenon DEF DecodeSelect, IsBuilt, Plain, Alias
<1>7. IsBuilt(DecodeThree(w, ip), w, ip) BY Zenon DEF DecodeThree, IsBuilt, Plain, Alias
<1>8. IsBuilt(DecodeTwo(w, ip), w, ip) BY Zenon DEF DecodeTwo, IsBuilt, Plain, Alias
<1>9. IsBuilt(DecodeOne(w, ip), w, ip)
  <2>1. IsBuilt(DecodeBasic(w, ip), w, ip) BY Zenon DEF DecodeBasic, IsBuilt, Plain
  <2>2. IsBuilt(DecodePauth(w, ip), w, ip) BY Zenon DEF DecodePauth, IsBuilt, Plain
  <2>3. IsBuilt(NewInvalid(w, ip), w, ip) BY DEF IsBuilt
  <2> QED BY <2>1, <2>2, <2>3, Zenon DEF DecodeOne
<1> QED BY <1>1, <1>2, <1>3, <1>4, <1>5, <1>6, <1>7, <1>8, <1>9, RegClassOf, Zenon


(* The names of the immediate Codes, and the tables that list them. *)
LEMMA ImmListed ==
  ASSUME NEW c
  PROVE  c \in ImmNames <=> \/ Lists(AddSubName, c) \/ Lists(MinMaxName, c) \/ Lists(LogicalName, c)
                            \/ (Lists(MoveWideName, c) /\ c # "none") \/ Lists(BitfieldName, c)
                            \/ Lists(<<"AddgImm", "SubgImm", "Extr">>, c)
BY DEF ImmNames, Lists, AddSubName, MinMaxName, LogicalName, MoveWideName, BitfieldName


(* The class of a logical immediate. *)
LEMMA LogicalClass ==
  ASSUME NEW w \in DpImmWord, w.class = "logical", NEW ip
  PROVE  w \in LogicalWord /\ DecodeDpImm(w, ip) = DecodeLogical(w, ip)
<1>1. w \in LogicalWord
  BY DEF DpImmWord, AddSubWord, TagsWord, MinMaxWord, LogicalWord, MoveWideWord, BitfieldWord, ExtractWord
<1>2. DecodeDpImm(w, ip) = DecodeLogical(w, ip) BY DEF DecodeDpImm
<1> QED BY <1>1, <1>2


(* The gap in the table of wide moves is no name of the register group. *)
LEMMA GapIsNotListed == ~RegListed("none")
<1>1. ~Lists(PauthName, "none") BY PauthTableNames DEF PauthNames
<1>2. "none" \notin ThreeNames /\ "none" \notin TwoNames /\ "none" \notin BasicNames /\ "none" \notin LrNames
  BY DEF ThreeNames, TwoNames, BasicNames, LrNames
<1> QED BY <1>1, <1>2, SourceNames, RegTableNames DEF RegListed

(***************************************************************************)
(* Features: the two decoders run with other features                      *)
(***************************************************************************)
OnImm(F) == INSTANCE DpImm WITH Features <- F
OnReg(F) == INSTANCE DpReg WITH Features <- F

(* The decoders without a gate do the same whatever the features. *)
LEMMA UngatedImm ==
  ASSUME NEW F, NEW w, NEW a
  PROVE  /\ OnImm(F)!DecodeAddSub(w, a) = DecodeAddSub(w, a)
         /\ OnImm(F)!DecodeLogical(w, a) = DecodeLogical(w, a)
         /\ OnImm(F)!DecodeMoveWide(w, a) = DecodeMoveWide(w, a)
         /\ OnImm(F)!DecodeBitfield(w, a) = DecodeBitfield(w, a)
         /\ OnImm(F)!DecodeExtract(w, a) = DecodeExtract(w, a)
<1> USE DEF
      OnImm!CodeOf, CodeOf, OnImm!Alias, Alias, OnImm!Plain, Plain, OnImm!Gp, Gp, OnImm!Suffix, Suffix,
      OnImm!Op, Op, OnImm!NoReg, NoReg, OnImm!Built, Built, OnImm!RegOp, RegOp,
      OnImm!MnemonicOf, MnemonicOf, OnImm!NewInvalid, NewInvalid, OnImm!Filled, Filled, OnImm!NoDec, NoDec,
      OnImm!Slot, Slot, OnImm!NoneOp, NoneOp, OnImm!DataSize, DataSize
<1>1. OnImm(F)!DecodeAddSub(w, a) = DecodeAddSub(w, a)
  BY Zenon DEF
    OnImm!DecodeAddSub, DecodeAddSub, OnImm!AddSubName, AddSubName, OnImm!ShiftedOp, ShiftedOp,
    OnImm!GpSp, GpSp
<1>2. OnImm(F)!DecodeLogical(w, a) = DecodeLogical(w, a)
  BY Zenon DEF
    OnImm!DecodeLogical, DecodeLogical, OnImm!LogicalName, LogicalName,
    OnImm!DecodeBitMasks, DecodeBitMasks, OnImm!LogicalOp, LogicalOp,
    OnImm!MoveWidePreferred, MoveWidePreferred, OnImm!GpSp, GpSp, OnImm!SignedOp, SignedOp,
    OnImm!SignExtended, SignExtended, OnImm!ElementSize, ElementSize, OnImm!None, None, OnImm!Some, Some,
    OnImm!Replicate, Replicate, OnImm!Ror, Ror, OnImm!Ones, Ones, OnImm!Max, Max
<1>3. OnImm(F)!DecodeMoveWide(w, a) = DecodeMoveWide(w, a)
  BY Zenon DEF
    OnImm!DecodeMoveWide, DecodeMoveWide, OnImm!MoveWideName, MoveWideName, OnImm!ToLane, ToLane,
    OnImm!Not, Not, OnImm!IsMovAlias, IsMovAlias, OnImm!SignedOp, SignedOp,
    OnImm!SignExtended, SignExtended, OnImm!ShiftedOp, ShiftedOp, OnImm!Ones, Ones
<1>4. OnImm(F)!DecodeBitfield(w, a) = DecodeBitfield(w, a)
  BY Zenon DEF
    OnImm!DecodeBitfield, DecodeBitfield, OnImm!BitfieldName, BitfieldName,
    OnImm!BitfieldAlias, BitfieldAlias, OnImm!ExtendOf, ExtendOf, OnImm!ImmOp, ImmOp
<1>5. OnImm(F)!DecodeExtract(w, a) = DecodeExtract(w, a)
  BY Zenon DEF
    OnImm!DecodeExtract, DecodeExtract, OnImm!ImmOp, ImmOp
<1> QED BY <1>1, <1>2, <1>3, <1>4, <1>5

(* Those of the register group as well. *)
LEMMA UngatedReg ==
  ASSUME NEW F, NEW w, NEW a
  PROVE  /\ OnReg(F)!DecodeLogicalShifted(w, a) = DecodeLogicalShifted(w, a)
         /\ OnReg(F)!DecodeAddSubShifted(w, a) = DecodeAddSubShifted(w, a)
         /\ OnReg(F)!DecodeExtended(w, a) = DecodeExtended(w, a)
         /\ OnReg(F)!DecodeCarry(w, a) = DecodeCarry(w, a)
         /\ OnReg(F)!DecodeRmif(w, a) = DecodeRmif(w, a)
         /\ OnReg(F)!DecodeSetf(w, a) = DecodeSetf(w, a)
         /\ OnReg(F)!DecodeCompare(w, a) = DecodeCompare(w, a)
         /\ OnReg(F)!DecodeSelect(w, a) = DecodeSelect(w, a)
         /\ OnReg(F)!DecodeThree(w, a) = DecodeThree(w, a)
<1> USE DEF
      OnReg!CodeOf, CodeOf, OnReg!Gp, Gp, OnReg!RegShifted, RegShifted, OnReg!NewInvalid, NewInvalid,
      OnReg!Alias, Alias, OnReg!Plain, Plain, OnReg!Suffix, Suffix, OnReg!RegOp, RegOp,
      OnReg!ShiftName, ShiftName, OnReg!NoExtend, NoExtend, OnReg!Filled, Filled, OnReg!Built, Built,
      OnReg!MnemonicOf, MnemonicOf, OnReg!Op, Op, OnReg!NoReg, NoReg, OnReg!NoDec, NoDec, OnReg!Slot, Slot,
      OnReg!NoneOp, NoneOp
<1>1. OnReg(F)!DecodeLogicalShifted(w, a) = DecodeLogicalShifted(w, a)
  BY Zenon DEF
    OnReg!DecodeLogicalShifted, DecodeLogicalShifted, OnReg!LogicalShiftedName, LogicalShiftedName,
    OnReg!IsMov, IsMov
<1>2. OnReg(F)!DecodeAddSubShifted(w, a) = DecodeAddSubShifted(w, a)
  BY Zenon DEF
    OnReg!DecodeAddSubShifted, DecodeAddSubShifted, OnReg!AddSubShiftedName, AddSubShiftedName,
    OnReg!CompareAlias, CompareAlias
<1>3. OnReg(F)!DecodeExtended(w, a) = DecodeExtended(w, a)
  BY Zenon DEF
    OnReg!DecodeExtended, DecodeExtended, OnReg!ExtendedName, ExtendedName, OnReg!ExtendedRm, ExtendedRm,
    OnReg!LslOption, LslOption, OnReg!GpSp, GpSp, OnReg!CompareAlias, CompareAlias
<1>4. OnReg(F)!DecodeCarry(w, a) = DecodeCarry(w, a)
  BY Zenon DEF
    OnReg!DecodeCarry, DecodeCarry, OnReg!CarryName, CarryName
<1>5. OnReg(F)!DecodeRmif(w, a) = DecodeRmif(w, a)
  BY Zenon DEF
    OnReg!DecodeRmif, DecodeRmif, OnReg!ImmOp, ImmOp, OnReg!Imm20_15, Imm20_15
<1>6. OnReg(F)!DecodeSetf(w, a) = DecodeSetf(w, a)
  BY Zenon DEF
    OnReg!DecodeSetf, DecodeSetf, OnReg!Imm20_15, Imm20_15
<1>7. OnReg(F)!DecodeCompare(w, a) = DecodeCompare(w, a)
  BY Zenon DEF
    OnReg!DecodeCompare, DecodeCompare, OnReg!CompareName, CompareName, OnReg!ImmOp, ImmOp,
    OnReg!CondOp, CondOp
<1>8. OnReg(F)!DecodeSelect(w, a) = DecodeSelect(w, a)
  BY Zenon DEF
    OnReg!DecodeSelect, DecodeSelect, OnReg!SelectName, SelectName, OnReg!CondOk, CondOk,
    OnReg!CondOp, CondOp, OnReg!Invert, Invert
<1>9. OnReg(F)!DecodeThree(w, a) = DecodeThree(w, a)
  BY Zenon DEF
    OnReg!DecodeThree, DecodeThree, OnReg!ThreeSource, ThreeSource, OnReg!Bit, Bit
<1> QED BY <1>1, <1>2, <1>3, <1>4, <1>5, <1>6, <1>7, <1>8, <1>9

(* The rows of the tables of one and two sources: an opcode has one name,
   and a name one feature. *)
LEMMA TwoRowFeature ==
  ASSUME NEW r \in TwoSource, NEW q \in TwoSource
  PROVE  /\ q[3] = r[3] => q[5] = r[5]
         /\ q[1] = r[1] /\ q[2] = r[2] => q[3] = r[3]
<1> DEFINE Row(t, s, opcode, name, f) == t[1] = s /\ t[2] = opcode /\ t[3] = name /\ t[5] = f
           OneOf(t) == \/ Row(t, 0, 0, "SubpDp", "Mte") \/ Row(t, 1, 0, "SubpsDp", "Mte")
                       \/ Row(t, 0, 2, "Udiv", "Base") \/ Row(t, 0, 3, "Sdiv", "Base")
                       \/ Row(t, 0, 4, "IrgDp", "Mte") \/ Row(t, 0, 5, "GmiDp", "Mte")
                       \/ Row(t, 0, 8, "Lslv", "Base") \/ Row(t, 0, 9, "Lsrv", "Base")
                       \/ Row(t, 0, 10, "Asrv", "Base") \/ Row(t, 0, 11, "Rorv", "Base")
                       \/ Row(t, 0, 12, "Pacga", "PAuth")
                       \/ Row(t, 0, 16, "Crc32b", "Base") \/ Row(t, 0, 17, "Crc32h", "Base")
                       \/ Row(t, 0, 18, "Crc32w", "Base") \/ Row(t, 0, 19, "Crc32x", "Base")
                       \/ Row(t, 0, 20, "Crc32cb", "Base") \/ Row(t, 0, 21, "Crc32ch", "Base")
                       \/ Row(t, 0, 22, "Crc32cw", "Base") \/ Row(t, 0, 23, "Crc32cx", "Base")
                       \/ Row(t, 0, 24, "SmaxReg", "Cssc") \/ Row(t, 0, 25, "UmaxReg", "Cssc")
                       \/ Row(t, 0, 26, "SminReg", "Cssc") \/ Row(t, 0, 27, "UminReg", "Cssc")
<1>1. ASSUME NEW t \in TwoSource PROVE OneOf(t) BY SMTT(60) DEF TwoSource
<1>2. OneOf(r) /\ OneOf(q) BY <1>1
<1>3. q[3] = r[3] => q[5] = r[5] BY <1>2, SMTT(60)
<1>4. q[1] = r[1] /\ q[2] = r[2] => q[3] = r[3] BY <1>2, SMTT(60)
<1> QED BY <1>3, <1>4

LEMMA OneRowFeature ==
  ASSUME NEW r \in OneSource, NEW q \in OneSource, NEW sf \in Bit
  PROVE  /\ q[2] = r[2] => q[4] = r[4]
         /\ q[1] = r[1] /\ sf \in r[3] /\ sf \in q[3] => q[2] = r[2]
<1> DEFINE Row(t, opcode, name, f) == t[1] = opcode /\ t[2] = name /\ t[4] = f
           OneOf(t) == \/ Row(t, 0, "Rbit", "Base") \/ Row(t, 1, "Rev16", "Base")
                       \/ (Row(t, 2, "Rev", "Base") /\ t[3] = {0}) \/ (Row(t, 2, "Rev32", "Base") /\ t[3] = {1})
                       \/ Row(t, 3, "Rev", "Base") \/ Row(t, 4, "Clz", "Base") \/ Row(t, 5, "Cls", "Base")
                       \/ Row(t, 6, "Ctz", "Cssc") \/ Row(t, 7, "Cnt", "Cssc") \/ Row(t, 8, "Abs", "Cssc")
<1>1. ASSUME NEW t \in OneSource PROVE OneOf(t) BY DEF OneSource
<1>2. OneOf(r) /\ OneOf(q) BY <1>1
<1>3. q[2] = r[2] => q[4] = r[4] BY <1>2
<1>4. q[1] = r[1] /\ sf \in r[3] /\ sf \in q[3] => q[2] = r[2] BY <1>2 DEF Bit
<1> QED BY <1>3, <1>4

(* Code::feature of the register group, table by table. *)
PointerAdds == {"Addpt", "Subpt", "Maddpt", "Msubpt"}
LEMMA RegFeatureIs ==
  ASSUME NEW c
  PROVE  /\ c[1] \in PointerAdds => RegFeature(c) = "Cpa"
         /\ \A r \in TwoSource : r[3] = c[1] => RegFeature(c) = r[5]
         /\ \A r \in OneSource : r[2] = c[1] => RegFeature(c) = r[4]
         /\ Lists(PauthName, c[1]) => RegFeature(c) = "PAuth"
         /\ (\E r \in LrSource : r[2] = c[1]) => RegFeature(c) = "PauthLr"
         /\ c[1] \notin PointerAdds \cup TwoNames \cup BasicNames \cup PauthNames \cup LrNames => RegFeature(c) = "Base"
<1> DEFINE two   == {r \in TwoSource : r[3] = c[1]}
           one   == {r \in OneSource : r[2] = c[1]}
           lr    == \E r \in LrSource : r[2] = c[1]
           ofTwo == (CHOOSE r \in two : TRUE)[5]
           ofOne == (CHOOSE r \in one : TRUE)[4]
           n     == c[1]
           f     == RegFeature(c)
<1>1. f = CASE n \in PointerAdds -> "Cpa"
            [] two # {} -> ofTwo
            [] one # {} -> ofOne
            [] Lists(PauthName, n) -> "PAuth"
            [] lr -> "PauthLr"
            [] OTHER -> "Base"
  BY Zenon DEF RegFeature, PointerAdds
<1>2. two # {} => n \in TwoNames BY SourceNames
<1>3. one # {} => n \in BasicNames BY SourceNames
<1>4. lr => n \in LrNames BY SourceNames
<1>5. Lists(PauthName, n) <=> n \in PauthNames BY PauthTableNames
<1>6. ASSUME NEW r \in TwoSource, r[3] = n PROVE two # {} /\ (CHOOSE t \in two : TRUE)[5] = r[5]
  <2>1. two # {} BY <1>6
  <2>2. PICK t : t = CHOOSE q \in two : TRUE OBVIOUS
  <2>3. t \in two BY <2>1, <2>2
  <2>4. t[5] = r[5] BY <1>6, <2>3, TwoRowFeature
  <2> QED BY <2>1, <2>2, <2>4
<1>7. ASSUME NEW r \in OneSource, r[2] = n PROVE one # {} /\ (CHOOSE t \in one : TRUE)[4] = r[4]
  <2>1. one # {} BY <1>7
  <2>2. PICK t : t = CHOOSE q \in one : TRUE OBVIOUS
  <2>3. t \in one BY <2>1, <2>2
  <2>4. t[4] = r[4] BY <1>7, <2>3, OneRowFeature DEF Bit
  <2> QED BY <2>1, <2>2, <2>4
<1> HIDE DEF two, one, lr, ofTwo, ofOne, n, f
<1>8. /\ n \in TwoNames => n \notin PointerAdds \cup BasicNames \cup PauthNames \cup LrNames
      /\ n \in BasicNames => n \notin PointerAdds \cup PauthNames \cup LrNames
      /\ n \in PauthNames => n \notin PointerAdds \cup LrNames
      /\ n \in LrNames => n \notin PointerAdds
  BY SMTT(60) DEF TwoNames, BasicNames, PauthNames, LrNames, PointerAdds
(* The cases exclude each other, as the arms of the match do. *)
<1>9. /\ n \in PointerAdds => f = "Cpa"
      /\ two # {} => f = ofTwo
      /\ one # {} => f = ofOne
      /\ Lists(PauthName, n) => f = "PAuth"
      /\ lr => f = "PauthLr"
      /\ n \notin PointerAdds /\ two = {} /\ one = {} /\ ~Lists(PauthName, n) /\ ~lr => f = "Base"
  <2>1. CASE n \in PointerAdds BY <1>1, <1>2, <1>3, <1>4, <1>5, <1>8, <2>1
  <2>2. CASE two # {} BY <1>1, <1>2, <1>3, <1>4, <1>5, <1>8, <2>2
  <2>3. CASE one # {} BY <1>1, <1>2, <1>3, <1>4, <1>5, <1>8, <2>3
  <2>4. CASE Lists(PauthName, n) BY <1>1, <1>2, <1>3, <1>4, <1>5, <1>8, <2>4
  <2>5. CASE lr BY <1>1, <1>2, <1>3, <1>4, <1>5, <1>8, <2>5
  <2>6. CASE n \notin PointerAdds /\ two = {} /\ one = {} /\ ~Lists(PauthName, n) /\ ~lr BY <1>1, <2>6
  <2> QED BY <2>1, <2>2, <2>3, <2>4, <2>5, <2>6
<1>10. ASSUME NEW r \in TwoSource, r[3] = n PROVE f = r[5] BY <1>6, <1>9, <1>10 DEF ofTwo
<1>11. ASSUME NEW r \in OneSource, r[2] = n PROVE f = r[4] BY <1>7, <1>9, <1>11 DEF ofOne
<1>14. n \notin PointerAdds \cup TwoNames \cup BasicNames \cup PauthNames \cup LrNames => f = "Base"
  BY <1>2, <1>3, <1>4, <1>5, <1>9
<1> QED BY <1>9, <1>10, <1>11, <1>14 DEF n, f, lr

(* Switching features replaces a decoding by nothing, if its own is off. *)
GatedBy(f, F, y, x, w, a) == y = IF Has(F, f) THEN x ELSE NewInvalid(w, a)

(* The base is always on. *)
LEMMA BaseIsOn == ASSUME NEW F, NEW y, NEW x, NEW w, NEW a PROVE GatedBy("Base", F, y, x, w, a) <=> y = x
BY DEF GatedBy, Has

(* Nothing is the same nothing under any features. *)
LEMMA SameInvalid ==
  ASSUME NEW F, NEW w, NEW a
  PROVE  OnImm(F)!NewInvalid(w, a) = NewInvalid(w, a) /\ OnReg(F)!NewInvalid(w, a) = NewInvalid(w, a)
<1>1. OnImm(F)!NewInvalid(w, a) = NewInvalid(w, a)
  BY Zenon DEF OnImm!NewInvalid, NewInvalid, OnImm!Filled, Filled, OnImm!Slot, Slot, OnImm!NoneOp, NoneOp,
    OnImm!Op, Op, OnImm!NoReg, NoReg, OnImm!NoDec, NoDec
<1>2. OnReg(F)!NewInvalid(w, a) = NewInvalid(w, a)
  BY Zenon DEF OnReg!NewInvalid, NewInvalid, OnReg!Filled, Filled, OnReg!Slot, Slot, OnReg!NoneOp, NoneOp,
    OnReg!Op, Op, OnReg!NoReg, NoReg, OnReg!NoDec, NoDec
<1> QED BY <1>1, <1>2

(* dp_imm: the tagged additions and the minima and maxima. *)
LEMMA TagsGated ==
  ASSUME NEW F, NEW w, NEW a, DecodeTags(w, a).code # <<"Invalid">>
  PROVE  GatedBy("Mte", F, OnImm(F)!DecodeTags(w, a), DecodeTags(w, a), w, a)
<1> DEFINE y == Plain(w, a, <<IF w.op = 1 THEN "SubgImm" ELSE "AddgImm">>,
                      <<GpSp(1, w.rd), GpSp(1, w.rn), ImmOp(w.uimm6 * 16), ImmOp(w.uimm4)>>)
           bad == w.sf # 1 \/ w.s # 0
<1>1. DecodeTags(w, a) = IF "Mte" \notin Features \/ bad THEN NewInvalid(w, a) ELSE y BY Zenon DEF DecodeTags
<1>2. OnImm(F)!DecodeTags(w, a) = IF "Mte" \notin F \/ bad THEN NewInvalid(w, a) ELSE y
  BY SameInvalid, Zenon DEF OnImm!DecodeTags, OnImm!Plain, Plain, OnImm!GpSp, GpSp, OnImm!ImmOp, ImmOp,
    OnImm!Built, Built, OnImm!MnemonicOf, MnemonicOf, OnImm!RegOp, RegOp, OnImm!Gp, Gp, OnImm!Op, Op,
    OnImm!NoReg, NoReg, OnImm!NoDec, NoDec, OnImm!Filled, Filled, OnImm!Slot, Slot, OnImm!NoneOp, NoneOp,
    OnImm!NewInvalid, NewInvalid
<1> HIDE DEF y, bad
<1>3. ~("Mte" \notin Features \/ bad) BY <1>1 DEF NewInvalid
<1> QED BY <1>1, <1>2, <1>3 DEF GatedBy, Has

LEMMA MinMaxGated ==
  ASSUME NEW F, NEW w, NEW a, DecodeMinMax(w, a).code # <<"Invalid">>
  PROVE  GatedBy("Cssc", F, OnImm(F)!DecodeMinMax(w, a), DecodeMinMax(w, a), w, a)
<1> DEFINE y == Plain(w, a, CodeOf(MinMaxName[w.opc + 1], w.sf),
                      <<Gp(w.sf, w.rd), Gp(w.sf, w.rn),
                        IF IsSigned(w.opc) THEN SignedOp(AsU64(SignExtend(w.imm8, 256))) ELSE ImmOp(w.imm8)>>)
           bad == w.op # 0 \/ w.s # 0 \/ w.b20 # 0
<1>1. DecodeMinMax(w, a) = IF "Cssc" \notin Features \/ bad THEN NewInvalid(w, a) ELSE y
  BY Zenon DEF DecodeMinMax
<1>2. OnImm(F)!DecodeMinMax(w, a) = IF "Cssc" \notin F \/ bad THEN NewInvalid(w, a) ELSE y
  BY SameInvalid, Zenon DEF OnImm!DecodeMinMax, OnImm!Plain, Plain, OnImm!CodeOf, CodeOf, OnImm!MinMaxName, MinMaxName,
    OnImm!Suffix, Suffix, OnImm!IsSigned, IsSigned, OnImm!SignedOp, SignedOp, OnImm!AsU64, AsU64,
    OnImm!SignExtend, SignExtend, OnImm!ImmOp, ImmOp,
    OnImm!Built, Built, OnImm!MnemonicOf, MnemonicOf, OnImm!RegOp, RegOp, OnImm!Gp, Gp, OnImm!Op, Op,
    OnImm!NoReg, NoReg, OnImm!NoDec, NoDec, OnImm!Filled, Filled, OnImm!Slot, Slot, OnImm!NoneOp, NoneOp,
    OnImm!NewInvalid, NewInvalid
<1> HIDE DEF y, bad
<1>3. ~("Cssc" \notin Features \/ bad) BY <1>1 DEF NewInvalid
<1> QED BY <1>1, <1>2, <1>3 DEF GatedBy, Has

(* dp_reg: the pointer additions. *)
LEMMA AddPtGated ==
  ASSUME NEW F, NEW w, NEW a, DecodeAddPt(w, a).code # <<"Invalid">>
  PROVE  GatedBy("Cpa", F, OnReg(F)!DecodeAddPt(w, a), DecodeAddPt(w, a), w, a)
<1> DEFINE y == Plain(w, a, CodeOf(IF w.op = 0 THEN "Addpt" ELSE "Subpt", 1),
                      <<GpSp(1, w.rd), GpSp(1, w.rn), RegShifted(1, w.rm, 0, w.op3 % 8)>>)
           bad == w.sf = 0 \/ w.s = 1
<1>1. DecodeAddPt(w, a) = IF "Cpa" \notin Features \/ bad THEN NewInvalid(w, a) ELSE y BY Zenon DEF DecodeAddPt
<1>2. OnReg(F)!DecodeAddPt(w, a) = IF "Cpa" \notin F \/ bad THEN NewInvalid(w, a) ELSE y
  BY SameInvalid, Zenon DEF OnReg!DecodeAddPt, OnReg!Plain, Plain, OnReg!CodeOf, CodeOf, OnReg!Suffix, Suffix,
    OnReg!GpSp, GpSp, OnReg!RegShifted, RegShifted, OnReg!ShiftName, ShiftName, OnReg!NoExtend, NoExtend,
    OnReg!Built, Built, OnReg!MnemonicOf, MnemonicOf, OnReg!RegOp, RegOp, OnReg!Gp, Gp, OnReg!Op, Op,
    OnReg!NoReg, NoReg, OnReg!NoDec, NoDec, OnReg!Filled, Filled, OnReg!Slot, Slot, OnReg!NoneOp, NoneOp,
    OnReg!NewInvalid, NewInvalid
<1> HIDE DEF y, bad
<1>3. ~("Cpa" \notin Features \/ bad) BY <1>1 DEF NewInvalid
<1> QED BY <1>1, <1>2, <1>3 DEF GatedBy, Has

(* The tables of two and one sources: with the row's feature the opcode picks
   the same row, without it none. *)
LEMMA TwoGated ==
  ASSUME NEW F, NEW w, NEW a, DecodeTwo(w, a).code # <<"Invalid">>
  PROVE  GatedBy(RegFeature(DecodeTwo(w, a).code), F, OnReg(F)!DecodeTwo(w, a), DecodeTwo(w, a), w, a)
<1> DEFINE rows(G) == {r \in TwoSource : r[1] = w.s /\ r[2] = w.opcode /\ w.sf \in r[4] /\ Has(G, r[5])}
           name(G) == (CHOOSE r \in rows(G) : TRUE)[3]
           y(n)    == IF n \in VarShift THEN Alias(w, a, CodeOf(n, w.sf), VarShiftAlias(n), TwoOps(n, w))
                      ELSE Plain(w, a, CodeOf(n, w.sf), TwoOps(n, w))
<1>1. DecodeTwo(w, a) = IF rows(Features) = {} THEN NewInvalid(w, a) ELSE y(name(Features))
  BY Zenon DEF DecodeTwo, Gated
<1>2. OnReg(F)!DecodeTwo(w, a) = IF rows(F) = {} THEN NewInvalid(w, a) ELSE y(name(F))
  BY SameInvalid, Zenon DEF OnReg!DecodeTwo, OnReg!TwoSource, TwoSource, OnReg!Gated, OnReg!Has, Has, OnReg!Bit, Bit,
    OnReg!VarShift, VarShift, OnReg!VarShiftAlias, VarShiftAlias, OnReg!TwoOps, TwoOps, OnReg!Alias, Alias,
    OnReg!Plain, Plain, OnReg!CodeOf, CodeOf, OnReg!Suffix, Suffix, OnReg!GpSp, GpSp,
    OnReg!Built, Built, OnReg!MnemonicOf, MnemonicOf, OnReg!RegOp, RegOp, OnReg!Gp, Gp, OnReg!Op, Op,
    OnReg!NoReg, NoReg, OnReg!NoDec, NoDec, OnReg!Filled, Filled, OnReg!Slot, Slot, OnReg!NoneOp, NoneOp,
    OnReg!NewInvalid, NewInvalid
<1>3. ASSUME NEW n PROVE y(n).code = CodeOf(n, w.sf) BY DEF Alias, Plain, Built, NewInvalid
<1> HIDE DEF y
<1>4. rows(Features) # {} BY <1>1 DEF NewInvalid
<1>5. PICK r \in rows(Features) : TRUE BY <1>4
<1>6. ASSUME NEW G, rows(G) # {} PROVE name(G) = r[3]
  <2>1. PICK t : t = CHOOSE q \in rows(G) : TRUE OBVIOUS
  <2>2. t \in rows(G) BY <1>6, <2>1
  <2>3. t[3] = r[3] BY <1>5, <2>2, TwoRowFeature
  <2> QED BY <2>1, <2>3
<1>7. rows(F) # {} <=> Has(F, r[5])
  <2>1. Has(F, r[5]) => r \in rows(F) BY <1>5
  <2>2. ASSUME NEW t \in rows(F) PROVE Has(F, r[5])
    <3>1. t[3] = r[3] BY <1>5, <2>2, TwoRowFeature
    <3>2. r[5] = t[5] BY <1>5, <2>2, <3>1, TwoRowFeature
    <3> QED BY <2>2, <3>2
  <2> QED BY <2>1, <2>2
<1>8. r \in TwoSource BY <1>5
<1> HIDE DEF rows, name
<1>9. DecodeTwo(w, a) = y(r[3]) BY <1>1, <1>4, <1>6
<1>10. OnReg(F)!DecodeTwo(w, a) = IF Has(F, r[5]) THEN y(r[3]) ELSE NewInvalid(w, a) BY <1>2, <1>6, <1>7
<1>11. RegFeature(DecodeTwo(w, a).code) = r[5]
  <2>1. DecodeTwo(w, a).code = CodeOf(r[3], w.sf) BY <1>3, <1>9
  <2>2. CodeOf(r[3], w.sf)[1] = r[3] BY DEF CodeOf
  <2> QED BY <1>8, <2>1, <2>2, RegFeatureIs
<1> QED BY <1>9, <1>10, <1>11 DEF GatedBy

LEMMA BasicGated ==
  ASSUME NEW F, NEW w, w.sf \in Bit, NEW a, DecodeBasic(w, a).code # <<"Invalid">>
  PROVE  GatedBy(RegFeature(DecodeBasic(w, a).code), F, OnReg(F)!DecodeBasic(w, a), DecodeBasic(w, a), w, a)
<1> DEFINE rows(G) == {r \in OneSource : r[1] = w.opcode /\ w.sf \in r[3] /\ Has(G, r[4])}
           name(G) == (CHOOSE r \in rows(G) : TRUE)[2]
           y(n)    == Plain(w, a, CodeOf(n, w.sf), <<Gp(w.sf, w.rd), Gp(w.sf, w.rn)>>)
<1>1. DecodeBasic(w, a) = IF rows(Features) = {} THEN NewInvalid(w, a) ELSE y(name(Features))
  BY Zenon DEF DecodeBasic, Gated
<1>2. OnReg(F)!DecodeBasic(w, a) = IF rows(F) = {} THEN NewInvalid(w, a) ELSE y(name(F))
  BY SameInvalid, Zenon DEF OnReg!DecodeBasic, OnReg!OneSource, OneSource, OnReg!Gated, OnReg!Has, Has, OnReg!Bit, Bit,
    OnReg!Plain, Plain, OnReg!CodeOf, CodeOf, OnReg!Suffix, Suffix,
    OnReg!Built, Built, OnReg!MnemonicOf, MnemonicOf, OnReg!RegOp, RegOp, OnReg!Gp, Gp, OnReg!Op, Op,
    OnReg!NoReg, NoReg, OnReg!NoDec, NoDec, OnReg!Filled, Filled, OnReg!Slot, Slot, OnReg!NoneOp, NoneOp,
    OnReg!NewInvalid, NewInvalid
<1>3. ASSUME NEW n PROVE y(n).code = CodeOf(n, w.sf) BY DEF Plain, Built, NewInvalid
<1> HIDE DEF y
<1>4. rows(Features) # {} BY <1>1 DEF NewInvalid
<1>5. PICK r \in rows(Features) : TRUE BY <1>4
<1>6. ASSUME NEW G, rows(G) # {} PROVE name(G) = r[2]
  <2>1. PICK t : t = CHOOSE q \in rows(G) : TRUE OBVIOUS
  <2>2. t \in rows(G) BY <1>6, <2>1
  <2>3. t[2] = r[2] BY <1>5, <2>2, OneRowFeature
  <2> QED BY <2>1, <2>3
<1>7. rows(F) # {} <=> Has(F, r[4])
  <2>1. Has(F, r[4]) => r \in rows(F) BY <1>5
  <2>2. ASSUME NEW t \in rows(F) PROVE Has(F, r[4])
    <3>1. t[2] = r[2] BY <1>5, <2>2, OneRowFeature
    <3>2. r[4] = t[4] BY <1>5, <2>2, <3>1, OneRowFeature
    <3> QED BY <2>2, <3>2
  <2> QED BY <2>1, <2>2
<1>8. r \in OneSource BY <1>5
<1> HIDE DEF rows, name
<1>9. DecodeBasic(w, a) = y(r[2]) BY <1>1, <1>4, <1>6
<1>10. OnReg(F)!DecodeBasic(w, a) = IF Has(F, r[4]) THEN y(r[2]) ELSE NewInvalid(w, a) BY <1>2, <1>6, <1>7
<1>11. RegFeature(DecodeBasic(w, a).code) = r[4]
  <2>1. DecodeBasic(w, a).code = CodeOf(r[2], w.sf) BY <1>3, <1>9
  <2>2. CodeOf(r[2], w.sf)[1] = r[2] BY DEF CodeOf
  <2> QED BY <1>8, <2>1, <2>2, RegFeatureIs
<1> QED BY <1>9, <1>10, <1>11 DEF GatedBy

(* Pointer authentication: the opcodes of the forms that use LR are reserved
   in the table of the others, so without PauthLr nothing takes their place. *)
LEMMA PauthGated ==
  ASSUME NEW F, NEW w, w.opcode \in 0..63, NEW a, DecodePauth(w, a).code # <<"Invalid">>
  PROVE  GatedBy(RegFeature(DecodePauth(w, a).code), F, OnReg(F)!DecodePauth(w, a), DecodePauth(w, a), w, a)
<1> DEFINE rows(G) == {r \in LrSource : /\ "PauthLr" \in G /\ w.rd = 30
                                        /\ r[1] = w.opcode /\ (r[2] \in Sppcr \/ w.rn = 31)}
           lr(G)    == (CHOOSE r \in rows(G) : TRUE)[2]
           z        == w.opcode >= 8
           no(G)    == "PAuth" \notin G \/ w.opcode > 17 \/ (z /\ w.rn # 31)
           short(n) == Plain(w, a, CodeOf(n, 1), IF n \in Sppcr THEN <<Gp(1, w.rn)>> ELSE <<>>)
           name     == PauthName[w.opcode + 1]
           long     == Plain(w, a, CodeOf(name, 1), IF z THEN <<Gp(1, w.rd)>> ELSE <<Gp(1, w.rd), GpSp(1, w.rn)>>)
           x        == DecodePauth(w, a)
<1>1. x = IF w.sf # 1 THEN NewInvalid(w, a) ELSE IF rows(Features) # {} THEN short(lr(Features))
          ELSE IF no(Features) THEN NewInvalid(w, a) ELSE long
  BY Zenon DEF DecodePauth
<1>2. OnReg(F)!DecodePauth(w, a)
        = IF w.sf # 1 THEN NewInvalid(w, a) ELSE IF rows(F) # {} THEN short(lr(F))
          ELSE IF no(F) THEN NewInvalid(w, a) ELSE long
  BY SameInvalid, Zenon DEF OnReg!DecodePauth, OnReg!LrSource, LrSource, OnReg!Sppcr, Sppcr,
    OnReg!PauthName, PauthName, OnReg!Plain, Plain, OnReg!CodeOf, CodeOf, OnReg!Suffix, Suffix, OnReg!GpSp, GpSp,
    OnReg!Built, Built, OnReg!MnemonicOf, MnemonicOf, OnReg!RegOp, RegOp, OnReg!Gp, Gp, OnReg!Op, Op,
    OnReg!NoReg, NoReg, OnReg!NoDec, NoDec, OnReg!Filled, Filled, OnReg!Slot, Slot, OnReg!NoneOp, NoneOp,
    OnReg!NewInvalid, NewInvalid
<1>3. /\ \A n : short(n).code = CodeOf(n, 1) /\ CodeOf(n, 1)[1] = n
      /\ long.code = CodeOf(name, 1)
  BY DEF Plain, Built, NewInvalid, CodeOf
<1> HIDE DEF short, long
<1>4. CASE rows(Features) # {}
  <2>1. PICK r : r = CHOOSE q \in rows(Features) : TRUE OBVIOUS
  <2>2. r \in rows(Features) BY <1>4, <2>1
  <2>3. w.opcode > 17
    <3>1. r \in LrSource /\ r[1] = w.opcode BY <2>2
    <3>2. \A q \in LrSource : q[1] > 17 BY DEF LrSource
    <3> QED BY <3>1, <3>2
  <2>4. rows(F) = IF "PauthLr" \in F THEN rows(Features) ELSE {} BY <2>2
  <2>5. r \in LrSource BY <2>2
  <2> HIDE DEF rows, no, x
  <2>6. w.sf = 1 BY <1>1 DEF NewInvalid, x
  <2>7. x = short(r[2]) BY <1>1, <1>4, <2>1, <2>6
  <2>8. RegFeature(x.code) = "PauthLr" BY <1>3, <2>5, <2>7, RegFeatureIs
  <2>9. no(F) BY <2>3 DEF no
  <2>10. OnReg(F)!DecodePauth(w, a) = IF "PauthLr" \in F THEN x ELSE NewInvalid(w, a)
    <3>1. CASE "PauthLr" \in F
      <4>1. rows(F) = rows(Features) BY <2>4, <3>1
      <4> QED BY <1>2, <1>4, <2>1, <2>6, <2>7, <3>1, <4>1
    <3>2. CASE "PauthLr" \notin F BY <1>2, <2>4, <2>6, <2>9, <3>2
    <3> QED BY <3>1, <3>2
  <2> QED BY <2>8, <2>10 DEF GatedBy, Has, x
<1>5. CASE rows(Features) = {}
  <2> HIDE DEF rows, name, no
  <2>1. w.sf = 1 /\ ~no(Features) BY <1>1, <1>5 DEF NewInvalid
  <2>2. x = long BY <1>1, <1>5, <2>1
  <2>3. w.opcode \in 0..17 /\ ~(z /\ w.rn # 31) BY <2>1 DEF no
  <2>4. rows(F) = {}
    <3>1. \A q \in LrSource : q[1] > 17 BY DEF LrSource
    <3> QED BY <2>3, <3>1 DEF rows
  <2>5. OnReg(F)!DecodePauth(w, a) = IF "PAuth" \in F THEN x ELSE NewInvalid(w, a)
    <3>1. no(F) <=> "PAuth" \notin F BY <2>3 DEF no
    <3> QED BY <1>2, <2>1, <2>2, <2>4, <3>1
  <2>6. Lists(PauthName, name)
    <3>1. w.opcode + 1 \in DOMAIN PauthName BY <2>3, RegTablesAreDistinct
    <3> QED BY <3>1, Zenon DEF Lists, name
  <2>7. x.code[1] = name BY <1>3, <2>2 DEF CodeOf
  <2>8. RegFeature(x.code) = "PAuth" BY <2>6, <2>7, RegFeatureIs
  <2> QED BY <2>5, <2>8 DEF GatedBy, Has
<1> QED BY <1>4, <1>5

(* Switching features changes no dispatch: a class keeps its decoder. *)
LEMMA ClassUnder ==
  ASSUME NEW F, NEW w \in DpRegWord, NEW a
  PROVE  \/ /\ w \in LogicalShiftedWord /\ DecodeDpReg(w, a) = DecodeLogicalShifted(w, a)
            /\ OnReg(F)!DecodeDpReg(w, a) = OnReg(F)!DecodeLogicalShifted(w, a)
         \/ /\ w \in AddSubShiftedWord /\ DecodeDpReg(w, a) = DecodeAddSubShifted(w, a)
            /\ OnReg(F)!DecodeDpReg(w, a) = OnReg(F)!DecodeAddSubShifted(w, a)
         \/ /\ w \in ExtendedWord /\ DecodeDpReg(w, a) = DecodeExtended(w, a)
            /\ OnReg(F)!DecodeDpReg(w, a) = OnReg(F)!DecodeExtended(w, a)
         \/ /\ w \in CarryWord /\ DecodeDpReg(w, a) = DecodeCarrySlot(w, a)
            /\ OnReg(F)!DecodeDpReg(w, a) = OnReg(F)!DecodeCarrySlot(w, a)
         \/ /\ w \in CompareWord /\ DecodeDpReg(w, a) = DecodeCompare(w, a)
            /\ OnReg(F)!DecodeDpReg(w, a) = OnReg(F)!DecodeCompare(w, a)
         \/ /\ w \in SelectWord /\ DecodeDpReg(w, a) = DecodeSelect(w, a)
            /\ OnReg(F)!DecodeDpReg(w, a) = OnReg(F)!DecodeSelect(w, a)
         \/ /\ w \in ThreeWord /\ DecodeDpReg(w, a) = DecodeThree(w, a)
            /\ OnReg(F)!DecodeDpReg(w, a) = OnReg(F)!DecodeThree(w, a)
         \/ /\ w \in TwoWord /\ DecodeDpReg(w, a) = DecodeTwo(w, a)
            /\ OnReg(F)!DecodeDpReg(w, a) = OnReg(F)!DecodeTwo(w, a)
         \/ /\ w \in OneWord /\ DecodeDpReg(w, a) = DecodeOne(w, a)
            /\ OnReg(F)!DecodeDpReg(w, a) = OnReg(F)!DecodeOne(w, a)
<1>1. CASE w \in LogicalShiftedWord
  <2>1. w.class = "logical" BY <1>1 DEF LogicalShiftedWord
  <2> QED BY <1>1, <2>1 DEF DecodeDpReg, OnReg!DecodeDpReg
<1>2. CASE w \in AddSubShiftedWord
  <2>1. w.class = "addsub" BY <1>2 DEF AddSubShiftedWord
  <2> QED BY <1>2, <2>1 DEF DecodeDpReg, OnReg!DecodeDpReg
<1>3. CASE w \in ExtendedWord
  <2>1. w.class = "extended" BY <1>3 DEF ExtendedWord
  <2> QED BY <1>3, <2>1 DEF DecodeDpReg, OnReg!DecodeDpReg
<1>4. CASE w \in CarryWord
  <2>1. w.class = "carry" BY <1>4 DEF CarryWord
  <2> QED BY <1>4, <2>1 DEF DecodeDpReg, OnReg!DecodeDpReg
<1>5. CASE w \in CompareWord
  <2>1. w.class = "compare" BY <1>5 DEF CompareWord
  <2> QED BY <1>5, <2>1 DEF DecodeDpReg, OnReg!DecodeDpReg
<1>6. CASE w \in SelectWord
  <2>1. w.class = "select" BY <1>6 DEF SelectWord
  <2> QED BY <1>6, <2>1 DEF DecodeDpReg, OnReg!DecodeDpReg
<1>7. CASE w \in ThreeWord
  <2>1. w.class = "three" BY <1>7 DEF ThreeWord
  <2> QED BY <1>7, <2>1 DEF DecodeDpReg, OnReg!DecodeDpReg
<1>8. CASE w \in TwoWord
  <2>1. w.class = "two" BY <1>8 DEF TwoWord
  <2> QED BY <1>8, <2>1 DEF DecodeDpReg, OnReg!DecodeDpReg
<1>9. CASE w \in OneWord
  <2>1. w.class = "one" BY <1>9 DEF OneWord
  <2> QED BY <1>9, <2>1 DEF DecodeDpReg, OnReg!DecodeDpReg
<1> QED BY <1>1, <1>2, <1>3, <1>4, <1>5, <1>6, <1>7, <1>8, <1>9 DEF DpRegWord

(* The Codes of the decoders without a gate are of the base. *)
Open(c) ==
  \/ Lists(LogicalShiftedName, c) \/ Lists(AddSubShiftedName, c) \/ Lists(ExtendedName, c)
  \/ Lists(CarryName, c) \/ c \in {"Rmif", "Setf8", "Setf16"} \/ Lists(CompareName, c) \/ Lists(SelectName, c)
  \/ c \notin PointerAdds /\ \E r \in ThreeSource : r[3] = c

LEMMA OpenIsBase == ASSUME NEW c, Open(c[1]) PROVE RegFeature(c) = "Base"
<1> DEFINE n == c[1]
           open == {"AndShifted", "BicShifted", "OrrShifted", "OrnShifted", "EorShifted", "EonShifted",
                    "AndsShifted", "BicsShifted", "AddShifted", "AddsShifted", "SubShifted", "SubsShifted",
                    "AddExtended", "AddsExtended", "SubExtended", "SubsExtended", "Adc", "Adcs", "Sbc", "Sbcs",
                    "CcmnReg", "CcmnImm", "CcmpReg", "CcmpImm", "Csel", "Csinc", "Csinv", "Csneg",
                    "Rmif", "Setf8", "Setf16"}
<1>1. n \in open \/ (n \notin PointerAdds /\ n \in ThreeNames) BY RegTableNames, SourceNames DEF Open
<1>2. \A q \in open : q \notin PointerAdds \cup TwoNames \cup BasicNames \cup PauthNames \cup LrNames
  BY SMTT(60) DEF PointerAdds, TwoNames, BasicNames, PauthNames, LrNames
<1>3. \A q \in ThreeNames : q \notin TwoNames \cup BasicNames \cup PauthNames \cup LrNames
  BY SMTT(60) DEF ThreeNames, TwoNames, BasicNames, PauthNames, LrNames
<1> HIDE DEF open, n
<1>4. n \notin PointerAdds \cup TwoNames \cup BasicNames \cup PauthNames \cup LrNames BY <1>1, <1>2, <1>3
<1> QED BY <1>4, RegFeatureIs DEF n

(* An instruction of such a decoder is there whatever the features. *)
LEMMA OpenStays ==
  ASSUME NEW F, NEW w, NEW a, NEW x, NEW y, y = x, Open(x.code[1])
  PROVE  GatedBy(RegFeature(x.code), F, y, x, w, a)
<1>1. RegFeature(x.code) = "Base" BY OpenIsBase
<1> QED BY <1>1, BaseIsOn

(* dp_reg::decode under other features gives the same instruction or
   nothing, by the feature its Code declares; MADDPT and MSUBPT stay. *)
LEMMA RegGate ==
  ASSUME ValuesFit, NEW F, NEW w \in DpRegWord, NEW a, DecodeDpReg(w, a).code # <<"Invalid">>
  PROVE  \/ GatedBy(RegFeature(DecodeDpReg(w, a).code), F, OnReg(F)!DecodeDpReg(w, a), DecodeDpReg(w, a), w, a)
         \/ DecodeDpReg(w, a).code[1] \in {"Maddpt", "Msubpt"} /\ OnReg(F)!DecodeDpReg(w, a) = DecodeDpReg(w, a)
<1> DEFINE x == DecodeDpReg(w, a)
           y == OnReg(F)!DecodeDpReg(w, a)
           gated == GatedBy(RegFeature(x.code), F, y, x, w, a)
           opened == x.code[1] \in {"Maddpt", "Msubpt"} /\ y = x
<1>s. \A d : SameAs(d, d) BY DEF SameAs
<1>v. x.code # <<"Invalid">> OBVIOUS
<1>o. y = x /\ Open(x.code[1]) => gated BY OpenStays
<1>n. NewInvalid(w, a).code = <<"Invalid">> BY DEF NewInvalid
<1> SUFFICES gated \/ opened OBVIOUS
<1>1. CASE w \in LogicalShiftedWord /\ x = DecodeLogicalShifted(w, a) /\ y = OnReg(F)!DecodeLogicalShifted(w, a)
  <2>1. y = x BY <1>1, UngatedReg
  <2>2. Lists(LogicalShiftedName, x.code[1]) BY <1>1, <1>s, <1>v, LogicalShiftedBack
  <2> QED BY <1>o, <2>1, <2>2 DEF Open
<1>2. CASE w \in AddSubShiftedWord /\ x = DecodeAddSubShifted(w, a) /\ y = OnReg(F)!DecodeAddSubShifted(w, a)
  <2>1. y = x BY <1>2, UngatedReg
  <2>2. Lists(AddSubShiftedName, x.code[1]) BY <1>2, <1>s, <1>v, AddSubShiftedBack
  <2> QED BY <1>o, <2>1, <2>2 DEF Open
<1>3. CASE w \in ExtendedWord /\ x = DecodeExtended(w, a) /\ y = OnReg(F)!DecodeExtended(w, a)
  <2>1. y = x BY <1>3, UngatedReg
  <2>2. Lists(ExtendedName, x.code[1]) BY <1>3, <1>s, <1>v, ExtendedBack
  <2> QED BY <1>o, <2>1, <2>2 DEF Open
<1>4. CASE w \in CarryWord /\ x = DecodeCarrySlot(w, a) /\ y = OnReg(F)!DecodeCarrySlot(w, a)
  <2> USE <1>4
  <2> HIDE DEF x, y, gated, opened
  <2>1. CASE w.op3 = 0
    <3>1. x = DecodeCarry(w, a) BY <2>1, Zenon DEF DecodeCarrySlot
    <3>2. y = OnReg(F)!DecodeCarry(w, a) BY <2>1, Zenon DEF OnReg!DecodeCarrySlot
    <3>3. y = x BY <3>1, <3>2, UngatedReg
    <3>4. Lists(CarryName, x.code[1]) BY <1>s, <2>1, <3>1, CarryBack
    <3> QED BY <1>o, <3>3, <3>4 DEF Open
  <2>2. CASE w.op3 # 0 /\ w.op3 % 32 = 1
    <3>1. x = DecodeRmif(w, a) BY <2>2, Zenon DEF DecodeCarrySlot
    <3>2. y = OnReg(F)!DecodeRmif(w, a) BY <2>2, Zenon DEF OnReg!DecodeCarrySlot
    <3>3. y = x BY <3>1, <3>2, UngatedReg
    <3>4. x.code = CodeOf("Rmif", w.sf) BY <1>s, <1>v, <2>2, <3>1, RmifBack
    <3>5. x.code[1] = "Rmif" BY <3>4 DEF CodeOf
    <3> QED BY <1>o, <3>3, <3>5 DEF Open
  <2>3. CASE w.op3 # 0 /\ w.op3 % 32 # 1 /\ w.op3 % 16 = 2
    <3>1. x = DecodeSetf(w, a) BY <2>3, Zenon DEF DecodeCarrySlot
    <3>2. y = OnReg(F)!DecodeSetf(w, a) BY <2>3, Zenon DEF OnReg!DecodeCarrySlot
    <3>3. y = x BY <3>1, <3>2, UngatedReg
    <3>4. x.code[1] \in {"Setf8", "Setf16"} BY <1>s, <1>v, <2>3, <3>1, SetfBack
    <3> QED BY <1>o, <3>3, <3>4 DEF Open
  <2>4. CASE w.op3 # 0 /\ w.op3 % 32 # 1 /\ w.op3 % 16 # 2 /\ w.op3 \div 8 = 1
    <3>1. x = DecodeAddPt(w, a) BY <2>4, Zenon DEF DecodeCarrySlot
    <3>2. y = OnReg(F)!DecodeAddPt(w, a) BY <2>4, Zenon DEF OnReg!DecodeCarrySlot
    <3>3. x.code[1] \in {"Addpt", "Subpt"} BY <1>s, <1>v, <2>4, <3>1, AddPtBack
    <3>4. RegFeature(x.code) = "Cpa" BY <3>3, RegFeatureIs DEF PointerAdds
    <3>5. GatedBy("Cpa", F, y, x, w, a) BY <1>v, <3>1, <3>2, AddPtGated
    <3> QED BY <3>4, <3>5 DEF gated
  <2>5. CASE w.op3 # 0 /\ w.op3 % 32 # 1 /\ w.op3 % 16 # 2 /\ w.op3 \div 8 # 1
    <3>1. x = NewInvalid(w, a) BY <2>5, Zenon DEF DecodeCarrySlot
    <3> QED BY <1>n, <1>v, <3>1
  <2> QED BY <2>1, <2>2, <2>3, <2>4, <2>5
<1>5. CASE w \in CompareWord /\ x = DecodeCompare(w, a) /\ y = OnReg(F)!DecodeCompare(w, a)
  <2>1. y = x BY <1>5, UngatedReg
  <2>2. Lists(CompareName, x.code[1]) BY <1>5, <1>s, <1>v, CompareBack
  <2> QED BY <1>o, <2>1, <2>2 DEF Open
<1>6. CASE w \in SelectWord /\ x = DecodeSelect(w, a) /\ y = OnReg(F)!DecodeSelect(w, a)
  <2>1. y = x BY <1>6, UngatedReg
  <2>2. Lists(SelectName, x.code[1]) BY <1>6, <1>s, <1>v, SelectBack
  <2> QED BY <1>o, <2>1, <2>2 DEF Open
<1>7. CASE w \in ThreeWord /\ x = DecodeThree(w, a) /\ y = OnReg(F)!DecodeThree(w, a)
  <2>1. y = x BY <1>7, UngatedReg
  <2>2. \E r \in ThreeSource : r[3] = x.code[1] BY <1>7, <1>s, <1>v, ThreeBack
  <2>3. CASE x.code[1] \in {"Maddpt", "Msubpt"} BY <2>1, <2>3
  <2>4. CASE x.code[1] \notin {"Maddpt", "Msubpt"}
    <3>1. x.code[1] \in ThreeNames BY <2>2, SourceNames
    <3>2. x.code[1] \notin PointerAdds BY <2>4, <3>1 DEF ThreeNames, PointerAdds
    <3> QED BY <1>o, <2>1, <2>2, <3>2 DEF Open
  <2> QED BY <2>3, <2>4
<1>8. CASE w \in TwoWord /\ x = DecodeTwo(w, a) /\ y = OnReg(F)!DecodeTwo(w, a)
  <2>1. DecodeTwo(w, a).code # <<"Invalid">> BY <1>8, <1>v
  <2> QED BY <1>8, <2>1, TwoGated
<1>9. CASE w \in OneWord /\ x = DecodeOne(w, a) /\ y = OnReg(F)!DecodeOne(w, a)
  <2> USE <1>9
  <2>t. w.sf \in Bit /\ w.opcode \in 0..63 BY DEF OneWord, Imm6
  <2> HIDE DEF x, y, gated, opened
  <2>0. w.s = 0
    <3>1. CASE w.s # 0
      <4>1. x = NewInvalid(w, a) BY <3>1, Zenon DEF DecodeOne
      <4> QED BY <1>n, <1>v, <4>1
    <3> QED BY <3>1
  <2>1. CASE w.opcode2 = 0
    <3>1. x = DecodeBasic(w, a) BY <2>0, <2>1 DEF DecodeOne
    <3>2. y = OnReg(F)!DecodeBasic(w, a) BY <2>0, <2>1 DEF OnReg!DecodeOne
    <3>3. DecodeBasic(w, a).code # <<"Invalid">> BY <1>v, <3>1
    <3> QED BY <2>t, <3>1, <3>2, <3>3, BasicGated DEF gated
  <2>2. CASE w.opcode2 = 1
    <3>1. x = DecodePauth(w, a) BY <2>0, <2>2 DEF DecodeOne
    <3>2. y = OnReg(F)!DecodePauth(w, a) BY <2>0, <2>2 DEF OnReg!DecodeOne
    <3>3. DecodePauth(w, a).code # <<"Invalid">> BY <1>v, <3>1
    <3> QED BY <2>t, <3>1, <3>2, <3>3, PauthGated DEF gated
  <2>3. CASE w.opcode2 # 0 /\ w.opcode2 # 1
    <3>1. x = NewInvalid(w, a) BY <2>0, <2>3 DEF DecodeOne
    <3> QED BY <1>n, <1>v, <3>1
  <2> QED BY <2>1, <2>2, <2>3
<1>c. \/ w \in LogicalShiftedWord /\ x = DecodeLogicalShifted(w, a) /\ y = OnReg(F)!DecodeLogicalShifted(w, a)
      \/ w \in AddSubShiftedWord /\ x = DecodeAddSubShifted(w, a) /\ y = OnReg(F)!DecodeAddSubShifted(w, a)
      \/ w \in ExtendedWord /\ x = DecodeExtended(w, a) /\ y = OnReg(F)!DecodeExtended(w, a)
      \/ w \in CarryWord /\ x = DecodeCarrySlot(w, a) /\ y = OnReg(F)!DecodeCarrySlot(w, a)
      \/ w \in CompareWord /\ x = DecodeCompare(w, a) /\ y = OnReg(F)!DecodeCompare(w, a)
      \/ w \in SelectWord /\ x = DecodeSelect(w, a) /\ y = OnReg(F)!DecodeSelect(w, a)
      \/ w \in ThreeWord /\ x = DecodeThree(w, a) /\ y = OnReg(F)!DecodeThree(w, a)
      \/ w \in TwoWord /\ x = DecodeTwo(w, a) /\ y = OnReg(F)!DecodeTwo(w, a)
      \/ w \in OneWord /\ x = DecodeOne(w, a) /\ y = OnReg(F)!DecodeOne(w, a)
  BY ClassUnder
<1> HIDE DEF gated, opened, x, y
<1> QED BY <1>1, <1>2, <1>3, <1>4, <1>5, <1>6, <1>7, <1>8, <1>9, <1>c

(* Code::feature of the immediate group. *)
LEMMA ImmFeatureIs ==
  ASSUME NEW c
  PROVE  /\ c[1] \in {"AddgImm", "SubgImm"} => ImmFeature(c) = "Mte"
         /\ Lists(MinMaxName, c[1]) => ImmFeature(c) = "Cssc"
         /\ c[1] \notin {"AddgImm", "SubgImm"} /\ ~Lists(MinMaxName, c[1]) => ImmFeature(c) = "Base"
<1> DEFINE n == c[1]
           mte == n \in {"AddgImm", "SubgImm"}
           cssc == Lists(MinMaxName, n)
<1>1. ImmFeature(c) = CASE mte -> "Mte" [] cssc -> "Cssc" [] OTHER -> "Base" BY Zenon DEF ImmFeature
<1>2. ~(mte /\ cssc) BY TableNames
<1> HIDE DEF mte, cssc
<1>3. mte => ImmFeature(c) = "Mte" BY <1>1, <1>2
<1>4. cssc => ImmFeature(c) = "Cssc" BY <1>1, <1>2
<1>5. ~mte /\ ~cssc => ImmFeature(c) = "Base" BY <1>1
<1> QED BY <1>3, <1>4, <1>5 DEF mte, cssc

(* Switching features changes no dispatch here either. *)
LEMMA ImmClassUnder ==
  ASSUME NEW F, NEW w \in DpImmWord, NEW a
  PROVE  \/ /\ w \in AddSubWord /\ DecodeDpImm(w, a) = DecodeAddSub(w, a)
            /\ OnImm(F)!DecodeDpImm(w, a) = OnImm(F)!DecodeAddSub(w, a)
         \/ /\ w \in TagsWord /\ DecodeDpImm(w, a) = DecodeTags(w, a)
            /\ OnImm(F)!DecodeDpImm(w, a) = OnImm(F)!DecodeTags(w, a)
         \/ /\ w \in MinMaxWord /\ DecodeDpImm(w, a) = DecodeMinMax(w, a)
            /\ OnImm(F)!DecodeDpImm(w, a) = OnImm(F)!DecodeMinMax(w, a)
         \/ /\ w \in LogicalWord /\ DecodeDpImm(w, a) = DecodeLogical(w, a)
            /\ OnImm(F)!DecodeDpImm(w, a) = OnImm(F)!DecodeLogical(w, a)
         \/ /\ w \in MoveWideWord /\ DecodeDpImm(w, a) = DecodeMoveWide(w, a)
            /\ OnImm(F)!DecodeDpImm(w, a) = OnImm(F)!DecodeMoveWide(w, a)
         \/ /\ w \in BitfieldWord /\ DecodeDpImm(w, a) = DecodeBitfield(w, a)
            /\ OnImm(F)!DecodeDpImm(w, a) = OnImm(F)!DecodeBitfield(w, a)
         \/ /\ w \in ExtractWord /\ DecodeDpImm(w, a) = DecodeExtract(w, a)
            /\ OnImm(F)!DecodeDpImm(w, a) = OnImm(F)!DecodeExtract(w, a)
<1>1. CASE w \in AddSubWord
  <2>1. w.class = "addsub" BY <1>1 DEF AddSubWord
  <2> QED BY <1>1, <2>1 DEF DecodeDpImm, OnImm!DecodeDpImm
<1>2. CASE w \in TagsWord
  <2>1. w.class = "tags" BY <1>2 DEF TagsWord
  <2> QED BY <1>2, <2>1 DEF DecodeDpImm, OnImm!DecodeDpImm
<1>3. CASE w \in MinMaxWord
  <2>1. w.class = "minmax" BY <1>3 DEF MinMaxWord
  <2> QED BY <1>3, <2>1 DEF DecodeDpImm, OnImm!DecodeDpImm
<1>4. CASE w \in LogicalWord
  <2>1. w.class = "logical" BY <1>4 DEF LogicalWord
  <2> QED BY <1>4, <2>1 DEF DecodeDpImm, OnImm!DecodeDpImm
<1>5. CASE w \in MoveWideWord
  <2>1. w.class = "movewide" BY <1>5 DEF MoveWideWord
  <2> QED BY <1>5, <2>1 DEF DecodeDpImm, OnImm!DecodeDpImm
<1>6. CASE w \in BitfieldWord
  <2>1. w.class = "bitfield" BY <1>6 DEF BitfieldWord
  <2> QED BY <1>6, <2>1 DEF DecodeDpImm, OnImm!DecodeDpImm
<1>7. CASE w \in ExtractWord
  <2>1. w.class = "extract" BY <1>7 DEF ExtractWord
  <2> QED BY <1>7, <2>1 DEF DecodeDpImm, OnImm!DecodeDpImm
<1> QED BY <1>1, <1>2, <1>3, <1>4, <1>5, <1>6, <1>7 DEF DpImmWord

(* dp_imm::decode under other features gives the same instruction or
   nothing, by the feature its Code declares. *)
LEMMA ImmGate ==
  ASSUME ValuesFit, NEW F, NEW w \in DpImmWord, NEW a, DecodeDpImm(w, a).code # <<"Invalid">>
  PROVE  GatedBy(ImmFeature(DecodeDpImm(w, a).code), F, OnImm(F)!DecodeDpImm(w, a), DecodeDpImm(w, a), w, a)
<1> DEFINE x == DecodeDpImm(w, a)
           y == OnImm(F)!DecodeDpImm(w, a)
           n == x.code[1]
           gated == GatedBy(ImmFeature(x.code), F, y, x, w, a)
<1>s. \A d : SameAs(d, d) BY DEF SameAs
<1>v. x.code # <<"Invalid">> OBVIOUS
<1>o. y = x /\ n \notin {"AddgImm", "SubgImm"} /\ ~Lists(MinMaxName, n) => gated
  <2> HIDE DEF x, y
  <2> SUFFICES ASSUME y = x, n \notin {"AddgImm", "SubgImm"}, ~Lists(MinMaxName, n) PROVE gated OBVIOUS
  <2>1. ImmFeature(x.code) = "Base" BY ImmFeatureIs
  <2> QED BY <2>1, BaseIsOn
<1> SUFFICES gated OBVIOUS
<1>1. CASE w \in AddSubWord /\ x = DecodeAddSub(w, a) /\ y = OnImm(F)!DecodeAddSub(w, a)
  <2>1. y = x BY <1>1, UngatedImm
  <2>2. Lists(AddSubName, n) BY <1>1, <1>s, <1>v, AddSubBack
  <2>3. n \notin {"AddgImm", "SubgImm"} /\ ~Lists(MinMaxName, n) BY <2>2, TableNames
  <2> QED BY <1>o, <2>1, <2>3
<1>2. CASE w \in TagsWord /\ x = DecodeTags(w, a) /\ y = OnImm(F)!DecodeTags(w, a)
  <2>1. x.code \in {<<"AddgImm">>, <<"SubgImm">>} BY <1>2, <1>s, <1>v, TagsBack
  <2>2. n \in {"AddgImm", "SubgImm"} BY <2>1
  <2>3. ImmFeature(x.code) = "Mte" BY <2>2, ImmFeatureIs
  <2>4. GatedBy("Mte", F, y, x, w, a) BY <1>2, <1>v, TagsGated
  <2> QED BY <2>3, <2>4
<1>3. CASE w \in MinMaxWord /\ x = DecodeMinMax(w, a) /\ y = OnImm(F)!DecodeMinMax(w, a)
  <2>1. Lists(MinMaxName, n) BY <1>3, <1>s, <1>v, MinMaxBack
  <2>2. ImmFeature(x.code) = "Cssc" BY <2>1, ImmFeatureIs
  <2>3. GatedBy("Cssc", F, y, x, w, a) BY <1>3, <1>v, MinMaxGated
  <2> QED BY <2>2, <2>3
<1>4. CASE w \in LogicalWord /\ x = DecodeLogical(w, a) /\ y = OnImm(F)!DecodeLogical(w, a)
  <2>1. y = x BY <1>4, UngatedImm
  <2>2. Lists(LogicalName, n) BY <1>4, <1>s, <1>v, LogicalBack
  <2>3. n \notin {"AddgImm", "SubgImm"} /\ ~Lists(MinMaxName, n) BY <2>2, TableNames
  <2> QED BY <1>o, <2>1, <2>3
<1>5. CASE w \in MoveWideWord /\ x = DecodeMoveWide(w, a) /\ y = OnImm(F)!DecodeMoveWide(w, a)
  <2>1. y = x BY <1>5, UngatedImm
  <2>2. n \in {"Movn", "Movz", "Movk"} BY <1>5, <1>s, <1>v, MoveWideBack
  <2>3. n \notin {"AddgImm", "SubgImm"} /\ ~Lists(MinMaxName, n) BY <2>2, TableNames
  <2> QED BY <1>o, <2>1, <2>3
<1>6. CASE w \in BitfieldWord /\ x = DecodeBitfield(w, a) /\ y = OnImm(F)!DecodeBitfield(w, a)
  <2>1. y = x BY <1>6, UngatedImm
  <2>2. Lists(BitfieldName, n) BY <1>6, <1>s, <1>v, BitfieldBack
  <2>3. n \notin {"AddgImm", "SubgImm"} /\ ~Lists(MinMaxName, n) BY <2>2, TableNames
  <2> QED BY <1>o, <2>1, <2>3
<1>7. CASE w \in ExtractWord /\ x = DecodeExtract(w, a) /\ y = OnImm(F)!DecodeExtract(w, a)
  <2>1. y = x BY <1>7, UngatedImm
  <2>2. n = "Extr" BY <1>7, <1>s, <1>v, ExtractBack
  <2>3. n \notin {"AddgImm", "SubgImm"} /\ ~Lists(MinMaxName, n) BY <2>2, TableNames
  <2> QED BY <1>o, <2>1, <2>3
<1>c. \/ w \in AddSubWord /\ x = DecodeAddSub(w, a) /\ y = OnImm(F)!DecodeAddSub(w, a)
      \/ w \in TagsWord /\ x = DecodeTags(w, a) /\ y = OnImm(F)!DecodeTags(w, a)
      \/ w \in MinMaxWord /\ x = DecodeMinMax(w, a) /\ y = OnImm(F)!DecodeMinMax(w, a)
      \/ w \in LogicalWord /\ x = DecodeLogical(w, a) /\ y = OnImm(F)!DecodeLogical(w, a)
      \/ w \in MoveWideWord /\ x = DecodeMoveWide(w, a) /\ y = OnImm(F)!DecodeMoveWide(w, a)
      \/ w \in BitfieldWord /\ x = DecodeBitfield(w, a) /\ y = OnImm(F)!DecodeBitfield(w, a)
      \/ w \in ExtractWord /\ x = DecodeExtract(w, a) /\ y = OnImm(F)!DecodeExtract(w, a)
  BY ImmClassUnder
<1> HIDE DEF gated, x, y
<1> QED BY <1>1, <1>2, <1>3, <1>4, <1>5, <1>6, <1>7, <1>c
=============================================================================
