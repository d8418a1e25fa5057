-------------------------- MODULE BranchImm_proofs --------------------------
(***************************************************************************)
(* The PC-relative conversions are inverse to each other, for any size of  *)
(* the address space and of the field that leaves the field's reach inside *)
(* one wrap of the address space; and the branch and PC-relative encoders  *)
(* are exact inverses of the decoders, for every width of the fields and   *)
(* every address.                                                          *)
(***************************************************************************)
EXTENDS BranchImm, TLAPS

(* A field of card values and granule gran in an address space that its
   reach does not wrap around. *)
FieldFits(card, gran) ==
  /\ AddrMod \in Nat \ {0} /\ AddrMod % 2 = 0
  /\ card \in Nat \ {0} /\ card % 2 = 0
  /\ gran \in {1, 4, 4096}
  /\ card * gran <= AddrMod

(* Adding a signed offset and subtracting the base recovers the offset. *)
LEMMA OffsetRecovered ==
  ASSUME AddrMod \in Nat \ {0}, NEW a \in Addr, NEW off \in Int,
         -AddrMod <= off + off, off + off < AddrMod
  PROVE  /\ AddrAdd(a, AsU64(off)) \in Addr
         /\ AsI64(AddrSub(AddrAdd(a, AsU64(off)), a)) = off
  BY DEF Addr, AddrAdd, AddrSub, AsU64, AsI64

(* Conversely the offset between two addresses leads from one to the other. *)
LEMMA OffsetLeads ==
  ASSUME AddrMod \in Nat \ {0}, NEW a \in Addr, NEW t \in Addr
  PROVE  /\ AsI64(AddrSub(t, a)) \in Int
         /\ AddrAdd(a, AsU64(AsI64(AddrSub(t, a)))) = t
  BY DEF Addr, AddrAdd, AddrSub, AsU64, AsI64

(* A field value, its sign extension and its raw bits. *)
LEMMA FieldSign ==
  ASSUME NEW card \in Nat \ {0}, card % 2 = 0
  PROVE  /\ \A f \in 0..(card - 1) :
              /\ SignExtend(f, card) \in Int
              /\ InReach(SignExtend(f, card), card)
              /\ RawField(SignExtend(f, card), card) = f
         /\ \A i \in Int : InReach(i, card) =>
              /\ RawField(i, card) \in 0..(card - 1)
              /\ SignExtend(RawField(i, card), card) = i
  BY DEF SignExtend, InReach, RawField

(* Scaling by the granule and dividing again. *)
LEMMA Granules ==
  ASSUME NEW gran \in {1, 4, 4096}, NEW i \in Int
  PROVE  /\ i * gran \in Int /\ (i * gran) % gran = 0 /\ (i * gran) \div gran = i
         /\ i % gran = 0 => (i \div gran) * gran = i /\ i \div gran \in Int
  OBVIOUS

(* A signed field in reach moves by less than half the address space. *)
LEMMA ReachBounded ==
  ASSUME NEW card, NEW gran, FieldFits(card, gran), NEW i \in Int, InReach(i, card)
  PROVE  -AddrMod <= i * gran + i * gran /\ i * gran + i * gran < AddrMod
<1>1. CASE gran = 1 BY <1>1 DEF FieldFits, InReach
<1>2. CASE gran = 4 BY <1>2 DEF FieldFits, InReach
<1>3. CASE gran = 4096 BY <1>3 DEF FieldFits, InReach
<1> QED BY <1>1, <1>2, <1>3 DEF FieldFits

(* rel_imm undoes the decoders: every label a decoder produced encodes, to
   the field it came from. *)
THEOREM RelImmOfTarget ==
  ASSUME NEW card, NEW gran, FieldFits(card, gran),
         NEW f \in 0..(card - 1), NEW ip \in Addr
  PROVE  /\ RelTarget(f, ip, card, gran) \in Addr
         /\ RelImm(RelTarget(f, ip, card, gran), ip, card, gran) = Ok(f)
<1> DEFINE s == SignExtend(f, card)
           t == RelTarget(f, ip, card, gran)
<1>1. s \in Int /\ InReach(s, card) /\ RawField(s, card) = f
  BY FieldSign DEF FieldFits
<1>2. s * gran \in Int /\ (s * gran) % gran = 0 /\ (s * gran) \div gran = s
  BY <1>1, Granules DEF FieldFits
<1>3. -AddrMod <= s * gran + s * gran /\ s * gran + s * gran < AddrMod
  BY <1>1, ReachBounded
<1> HIDE DEF s
<1>4. /\ AddrAdd(ip, AsU64(s * gran)) \in Addr
      /\ AsI64(AddrSub(AddrAdd(ip, AsU64(s * gran)), ip)) = s * gran
  BY <1>2, <1>3, OffsetRecovered DEF FieldFits
<1>5. t = AddrAdd(ip, AsU64(s * gran)) BY DEF RelTarget, s
<1> HIDE DEF t
<1>6. RelImm(t, ip, card, gran) = Ok(f) BY <1>1, <1>2, <1>4, <1>5 DEF RelImm
<1> QED BY <1>4, <1>5, <1>6 DEF t

(* A label that encodes at all encodes exactly: the field rel_imm returns is
   in range and decodes, at the same address, to that very target. *)
THEOREM TargetOfRelImm ==
  ASSUME NEW card, NEW gran, FieldFits(card, gran),
         NEW target \in Addr, NEW ip \in Addr,
         RelImm(target, ip, card, gran).ok
  PROVE  /\ RelImm(target, ip, card, gran).v \in 0..(card - 1)
         /\ RelTarget(RelImm(target, ip, card, gran).v, ip, card, gran) = target
<1> DEFINE off == AsI64(AddrSub(target, ip))
           imm == off \div gran
<1>1. off \in Int /\ AddrAdd(ip, AsU64(off)) = target
  BY OffsetLeads DEF FieldFits
<1>2. off % gran = 0 /\ InReach(imm, card) /\ RelImm(target, ip, card, gran) = Ok(RawField(imm, card))
  BY DEF RelImm, Ok, Err
<1> HIDE DEF off
<1>3. imm \in Int /\ imm * gran = off BY <1>1, <1>2, Granules DEF FieldFits
<1> HIDE DEF imm
<1>4. /\ RawField(imm, card) \in 0..(card - 1)
      /\ SignExtend(RawField(imm, card), card) = imm
  BY <1>2, <1>3, FieldSign DEF FieldFits
<1>5. RelTarget(RawField(imm, card), ip, card, gran) = target
  BY <1>1, <1>3, <1>4 DEF RelTarget
<1> QED BY <1>2, <1>4, <1>5 DEF Ok

(* The *SPPC distance is recovered from its target, and a target it accepts
   is named exactly: the field reaches backwards only. *)
THEOREM SppcInverse ==
  ASSUME NEW card, NEW gran, FieldFits(card, gran), NEW ip \in Addr
  PROVE  /\ \A f \in 0..(card - 1) :
              /\ SppcTarget(f, ip, gran) \in Addr
              /\ SppcImm(SppcTarget(f, ip, gran), ip, card, gran) = Ok(f)
         /\ \A t \in Addr : SppcImm(t, ip, card, gran).ok =>
              /\ SppcImm(t, ip, card, gran).v \in 0..(card - 1)
              /\ SppcTarget(SppcImm(t, ip, card, gran).v, ip, gran) = t
<1>1. ASSUME NEW f \in 0..(card - 1)
      PROVE  /\ SppcTarget(f, ip, gran) \in Addr
             /\ SppcImm(SppcTarget(f, ip, gran), ip, card, gran) = Ok(f)
  <2>1. f * gran \in Addr
    BY DEF FieldFits, Addr
  <2>2. (f * gran) % gran = 0 /\ (f * gran) \div gran = f
    BY Granules DEF FieldFits
  <2>3. ASSUME NEW d \in Addr
        PROVE  AddrSub(ip, d) \in Addr /\ AddrSub(ip, AddrSub(ip, d)) = d
    BY DEF FieldFits, Addr, AddrSub
  <2>4. AddrSub(ip, SppcTarget(f, ip, gran)) = f * gran
    BY <2>1, <2>3 DEF SppcTarget
  <2> QED BY <2>1, <2>2, <2>3, <2>4 DEF SppcTarget, SppcImm, FieldFits
<1>2. ASSUME NEW t \in Addr, SppcImm(t, ip, card, gran).ok
      PROVE  /\ SppcImm(t, ip, card, gran).v \in 0..(card - 1)
             /\ SppcTarget(SppcImm(t, ip, card, gran).v, ip, gran) = t
  <2> DEFINE d == AddrSub(ip, t)
  <2>1. d \in Nat /\ AddrSub(ip, d) = t BY DEF FieldFits, Addr, AddrSub
  <2>2. /\ d % gran = 0 /\ ~(d \div gran >= card)
        /\ SppcImm(t, ip, card, gran) = Ok(d \div gran)
    BY <1>2 DEF SppcImm, Ok, Err
  <2> HIDE DEF d
  <2>3. d \div gran \in Nat /\ (d \div gran) * gran = d
    BY <2>1, <2>2 DEF FieldFits
  <2> QED BY <2>1, <2>2, <2>3 DEF SppcTarget, Ok, FieldFits
<1> QED BY <1>1, <1>2

(* The page of an address. *)
LEMMA Pages ==
  ASSUME AddrMod \in Nat \ {0}, NEW a \in Addr
  PROVE  PageOf(a, 4096) \in Addr /\ PageOf(a, 4096) % 4096 = 0
  BY DEF PageOf, Addr

(* Moving a page by whole pages yields a page. *)
LEMMA PagesMove ==
  ASSUME AddrMod \in Nat \ {0}, AddrMod % 4096 = 0,
         NEW a \in Addr, a % 4096 = 0, NEW s \in Int,
         -AddrMod <= s * 4096 + s * 4096, s * 4096 + s * 4096 < AddrMod
  PROVE  AddrAdd(a, AsU64(s * 4096)) % 4096 = 0
  BY DEF Addr, AddrAdd, AsU64

(* ADRP: the label a decoder produced encodes to the field it came from, and
   a target that encodes is named exactly, page-aligned and in reach. *)
THEOREM AdrpInverse ==
  ASSUME NEW card, FieldFits(card, 4096), AddrMod % 4096 = 0, NEW ip \in Addr
  PROVE  /\ \A f \in 0..(card - 1) :
              /\ AdrpTarget(f, ip, card, 4096) \in Addr
              /\ AdrpImm(AdrpTarget(f, ip, card, 4096), ip, card, 4096) = Ok(f)
         /\ \A t \in Addr : AdrpImm(t, ip, card, 4096).ok =>
              /\ AdrpImm(t, ip, card, 4096).v \in 0..(card - 1)
              /\ AdrpTarget(AdrpImm(t, ip, card, 4096).v, ip, card, 4096) = t
<1> DEFINE base == PageOf(ip, 4096)
<1>0. base \in Addr /\ base % 4096 = 0 /\ AddrMod \in Nat \ {0}
  BY Pages DEF FieldFits
<1>1. ASSUME NEW f \in 0..(card - 1)
      PROVE  /\ AdrpTarget(f, ip, card, 4096) \in Addr
             /\ AdrpImm(AdrpTarget(f, ip, card, 4096), ip, card, 4096) = Ok(f)
  <2> DEFINE s == SignExtend(f, card)
             t == AddrAdd(base, AsU64(s * 4096))
  <2>1. s \in Int /\ InReach(s, card) /\ RawField(s, card) = f
    BY FieldSign DEF FieldFits
  <2>2. -AddrMod <= s * 4096 + s * 4096 /\ s * 4096 + s * 4096 < AddrMod
    BY <2>1, ReachBounded
  <2>3. AdrpTarget(f, ip, card, 4096) = t BY DEF AdrpTarget
  <2> HIDE DEF s, base
  <2>4. t \in Addr /\ AsI64(AddrSub(t, base)) = s * 4096
    BY <1>0, <2>1, <2>2, OffsetRecovered
  <2>5. t % 4096 = 0 BY <1>0, <2>1, <2>2, PagesMove
  <2>6. (s * 4096) \div 4096 = s BY <2>1
  <2> HIDE DEF t
  <2>7. PageOf(t, 4096) = t BY <2>4, <2>5 DEF PageOf, Addr
  <2>8. AdrpImm(t, ip, card, 4096) = Ok(f)
    BY <2>1, <2>4, <2>5, <2>6, <2>7 DEF AdrpImm, base
  <2> QED BY <2>3, <2>4, <2>8
<1>2. ASSUME NEW t \in Addr, AdrpImm(t, ip, card, 4096).ok
      PROVE  /\ AdrpImm(t, ip, card, 4096).v \in 0..(card - 1)
             /\ AdrpTarget(AdrpImm(t, ip, card, 4096).v, ip, card, 4096) = t
  <2> DEFINE off == AsI64(AddrSub(t, base))
             imm == off \div 4096
  <2>1. t % 4096 = 0 BY <1>2 DEF AdrpImm, Err
  <2>2. PageOf(t, 4096) = t BY <2>1 DEF PageOf, Addr
  <2>3. InReach(imm, card) /\ AdrpImm(t, ip, card, 4096) = Ok(RawField(imm, card))
    BY <1>2, <2>2 DEF AdrpImm, Err
  <2> HIDE DEF base
  <2>4. off \in Int /\ AddrAdd(base, AsU64(off)) = t BY <1>0, OffsetLeads
  <2>5. off % 4096 = 0
    BY <1>0, <2>1 DEF Addr, AddrSub, AsI64
  <2> HIDE DEF off
  <2>6. imm \in Int /\ imm * 4096 = off BY <2>4, <2>5
  <2> HIDE DEF imm
  <2>7. /\ RawField(imm, card) \in 0..(card - 1)
        /\ SignExtend(RawField(imm, card), card) = imm
    BY <2>3, <2>6, FieldSign DEF FieldFits
  <2>8. AdrpTarget(RawField(imm, card), ip, card, 4096) = t
    BY <2>4, <2>6, <2>7 DEF AdrpTarget, base
  <2> QED BY <2>3, <2>7, <2>8 DEF Ok
<1> QED BY <1>1, <1>2

(* Moving a label and its instruction by the same amount keeps the distance
   between them. *)
LEMMA DistanceKept ==
  ASSUME AddrMod \in Nat \ {0}, NEW t \in Addr, NEW ip \in Addr, NEW a \in Addr
  PROVE  LET moved == AddrAdd(t, AddrSub(a, ip))
         IN  /\ moved \in Addr
             /\ AddrSub(moved, a) = AddrSub(t, ip)
             /\ AddrSub(a, moved) = AddrSub(ip, t)
  BY DEF Addr, AddrAdd, AddrSub

(* Two labels on page boundaries that are as far from their instructions are
   as many pages away. *)
LEMMA PagesKept ==
  ASSUME AddrMod \in Nat \ {0}, AddrMod % 4096 = 0,
         NEW t \in Addr, NEW ip \in Addr, NEW a \in Addr,
         t % 4096 = 0, AddrAdd(t, AddrSub(a, ip)) % 4096 = 0
  PROVE  AddrSub(PageOf(AddrAdd(t, AddrSub(a, ip)), 4096), PageOf(a, 4096))
           = AddrSub(PageOf(t, 4096), PageOf(ip, 4096))
<1> DEFINE moved == AddrAdd(t, AddrSub(a, ip))
<1>1. moved \in Addr BY DistanceKept
<1>2. PageOf(t, 4096) = t /\ PageOf(moved, 4096) = moved
  BY <1>1 DEF PageOf, Addr
<1>3. a % 4096 = ip % 4096
  BY DEF Addr, AddrAdd, AddrSub
<1>4. AddrSub(moved, a) = AddrSub(t, ip) BY DistanceKept
<1> DEFINE r == ip % 4096
<1>5. /\ r \in 0..4095 /\ r <= ip /\ r <= a
      /\ PageOf(ip, 4096) = ip - r /\ PageOf(a, 4096) = a - r
  BY <1>3 DEF PageOf, Addr
<1>6. /\ moved % 4096 = 0 /\ (ip - r) % 4096 = 0 /\ (a - r) % 4096 = 0
  BY <1>3 DEF Addr
<1> HIDE DEF moved, r
<1>7. AddrSub(moved, a - r) = AddrSub(t, ip - r)
  BY <1>1, <1>3, <1>4, <1>5, <1>6 DEF Addr, AddrSub
<1> QED BY <1>2, <1>5, <1>7 DEF moved

(***************************************************************************)
(* Decode, then encode                                                     *)
(***************************************************************************)

(* What a decoded instruction with one, two or three operands holds. *)
LEMMA Built1 ==
  ASSUME NEW w, NEW ip, NEW c, NEW m, NEW a
  PROVE  LET d == Built(w, ip, c, m, <<a>>)
         IN  d.code = c /\ d.ip = ip /\ OpAt(d, 0) = a
  BY FieldsAssumption DEF Built, NewInvalid, Filled, OpAt, Live, Slot

(* Two operands. *)
LEMMA Built2 ==
  ASSUME NEW w, NEW ip, NEW c, NEW m, NEW a, NEW b
  PROVE  LET d == Built(w, ip, c, m, <<a, b>>)
         IN  d.code = c /\ d.ip = ip /\ OpAt(d, 0) = a /\ OpAt(d, 1) = b
  BY FieldsAssumption DEF Built, NewInvalid, Filled, OpAt, Live, Slot

(* Three operands. *)
LEMMA Built3 ==
  ASSUME NEW w, NEW ip, NEW c, NEW m, NEW a, NEW b, NEW e
  PROVE  LET d == Built(w, ip, c, m, <<a, b, e>>)
         IN  d.code = c /\ d.ip = ip /\ OpAt(d, 0) = a /\ OpAt(d, 1) = b /\ OpAt(d, 2) = e
  BY FieldsAssumption DEF Built, NewInvalid, Filled, OpAt, Live, Slot

(* The widths of the fields fit the address space. *)
LEMMA Widths ==
  /\ FieldFits(C26, Granule) /\ FieldFits(C19, Granule) /\ FieldFits(C14, Granule)
  /\ FieldFits(C9, Granule) /\ FieldFits(C16, Granule)
  /\ FieldFits(C21, 1) /\ FieldFits(C21, 4096)
<1>1. AddrMod % 2 = 0 BY FieldsAssumption
<1>2. FieldFits(C26, Granule) /\ FieldFits(C19, Granule) BY <1>1, FieldsAssumption DEF FieldFits
<1>3. FieldFits(C14, Granule) /\ FieldFits(C9, Granule) BY <1>1, FieldsAssumption DEF FieldFits
<1>4. FieldFits(C16, Granule) BY <1>1, FieldsAssumption DEF FieldFits
<1>5. C21 \in Nat \ {0} /\ C21 % 2 = 0 /\ C21 * 4096 <= AddrMod /\ AddrMod \in Nat \ {0}
  <2>1. C21 * Page <= AddrMod /\ Page = 4096 /\ AddrMod \in Nat \ {0}
    BY FieldsAssumption, Zenon
  <2>2. C21 \in Nat \ {0} /\ C21 % 2 = 0 BY FieldsAssumption, Zenon
  <2>3. C21 * 4096 <= AddrMod BY <2>1, <2>2, SMT
  <2> QED BY <2>1, <2>2, <2>3
<1>6. FieldFits(C21, 1) /\ FieldFits(C21, 4096) BY <1>1, <1>5 DEF FieldFits
<1> QED BY <1>2, <1>3, <1>4, <1>6

(* A well-formed operand list and a field with an encoding give a word. *)
LEMMA WithOk ==
  ASSUME NEW s, s, NEW f, f.ok, NEW w
  PROVE  With(s, f, w) = Ok(w)
  BY DEF With

(* The value of an Ok. *)
LEMMA OkOk == ASSUME NEW v PROVE Ok(v).ok /\ Ok(v).v = v
  BY DEF Ok

(* B and BL. *)
LEMMA RoundTripB ==
  ASSUME NEW w \in BWord, NEW ip \in Addr
  PROVE  /\ Decode(w, ip).code \in {<<"B", "uncond">>, <<"Bl">>}
         /\ EncodeB(Decode(w, ip)) = Ok(w)
<1> DEFINE t == RelTarget(w.imm, ip, C26, Granule)
           d == DecodeB(w, ip)
<1>1. w.op \in {0, 1} /\ w.imm \in 0..(C26 - 1) BY DEF BWord, Bit
<1>2. w = [class |-> "b", op |-> w.op, imm |-> w.imm] BY DEF BWord
<1>3. RelImm(t, ip, C26, Granule) = Ok(w.imm) BY <1>1, Widths, RelImmOfTarget
<1>4. /\ d.code = IF w.op = 1 THEN <<"Bl">> ELSE <<"B", "uncond">>
      /\ d.ip = ip /\ OpAt(d, 0) = LabelOp(t)
  BY Built1 DEF DecodeB, Made
<1>5. Decode(w, ip) = d BY <1>2 DEF Decode
<1>6. IsLabelAt(d, 0) /\ LabelField(d, 0, C26) = Ok(w.imm)
  BY <1>3, <1>4 DEF IsLabelAt, LabelField, ValAt, LabelOp, Op
<1>7. ((d.code = <<"Bl">>) <=> (w.op = 1)) /\ d.code \in {<<"B", "uncond">>, <<"Bl">>}
  BY <1>4
<1> HIDE DEF d
<1>8. EncodeB(d) = Ok([class |-> "b", op |-> IF d.code = <<"Bl">> THEN 1 ELSE 0, imm |-> w.imm])
  <2>1. LabelField(d, 0, C26).ok /\ LabelField(d, 0, C26).v = w.imm BY <1>6, OkOk
  <2>2. EncodeB(d) = Ok([class |-> "b", op |-> IF d.code = <<"Bl">> THEN 1 ELSE 0,
                         imm |-> LabelField(d, 0, C26).v])
    BY <1>6, <2>1, WithOk DEF EncodeB
  <2> QED BY <2>1, <2>2
<1> QED BY <1>1, <1>2, <1>5, <1>7, <1>8

(* B.cond and BC.cond. *)
LEMMA RoundTripBCond ==
  ASSUME NEW w \in BCondWord, NEW ip \in Addr,
         Decode(w, ip).code # <<"Invalid">>
  PROVE  /\ Decode(w, ip).code \in {<<"B", "cond">>, <<"Bc">>}
         /\ EncodeBCond(Decode(w, ip)) = Ok(w)
<1> DEFINE t == RelTarget(w.imm, ip, C19, Granule)
           d == DecodeBCond(w, ip)
<1>1. w.o0 \in {0, 1} /\ w.imm \in 0..(C19 - 1) BY DEF BCondWord, Bit
<1>2. w = [class |-> "bcond", o0 |-> w.o0, cond |-> w.cond, imm |-> w.imm] BY DEF BCondWord
<1>3. RelImm(t, ip, C19, Granule) = Ok(w.imm) BY <1>1, Widths, RelImmOfTarget
<1>4. Decode(w, ip) = d BY <1>2 DEF Decode
<1>5. ~(w.o0 = 1 /\ "Hbc" \notin Features)
  BY <1>4 DEF DecodeBCond, NewInvalid
<1>6. /\ d.code = IF w.o0 = 1 THEN <<"Bc">> ELSE <<"B", "cond">>
      /\ d.ip = ip /\ OpAt(d, 0) = CondOp(w.cond) /\ OpAt(d, 1) = LabelOp(t)
  BY <1>5, Built2 DEF DecodeBCond, Made
<1>7. /\ OpAt(d, 0).kind = "Cond" /\ IsLabelAt(d, 1)
      /\ ValAt(d, 0) = w.cond /\ LabelField(d, 1, C19) = Ok(w.imm)
  BY <1>3, <1>6 DEF IsLabelAt, LabelField, ValAt, LabelOp, CondOp, Op
<1>8. (d.code = <<"Bc">>) <=> (w.o0 = 1) BY <1>6
<1>9. d.code \in {<<"B", "cond">>, <<"Bc">>} BY <1>6
<1> HIDE DEF d
<1>10. EncodeBCond(d) = Ok([class |-> "bcond", o0 |-> IF d.code = <<"Bc">> THEN 1 ELSE 0,
                            cond |-> w.cond, imm |-> w.imm])
  <2>1. LabelField(d, 1, C19).ok /\ LabelField(d, 1, C19).v = w.imm BY <1>7, OkOk
  <2>2. EncodeBCond(d) = Ok([class |-> "bcond", o0 |-> IF d.code = <<"Bc">> THEN 1 ELSE 0,
                             cond |-> ValAt(d, 0), imm |-> LabelField(d, 1, C19).v])
    BY <1>7, <2>1, WithOk DEF EncodeBCond
  <2> QED BY <1>7, <2>1, <2>2
<1> QED BY <1>1, <1>2, <1>4, <1>8, <1>9, <1>10

(* CBZ and CBNZ. *)
LEMMA RoundTripCbz ==
  ASSUME NEW w \in CbzWord, NEW ip \in Addr
  PROVE  /\ Decode(w, ip).code[1] \in {"Cbz", "Cbnz"}
         /\ EncodeCbz(Decode(w, ip)) = Ok(w)
<1> DEFINE t == RelTarget(w.imm, ip, C19, Granule)
           d == DecodeCbz(w, ip)
<1>1. w.sf \in {0, 1} /\ w.op \in {0, 1} /\ w.imm \in 0..(C19 - 1) BY DEF CbzWord, Bit
<1>2. w = [class |-> "cbz", sf |-> w.sf, op |-> w.op, rt |-> w.rt, imm |-> w.imm]
  BY DEF CbzWord
<1>3. RelImm(t, ip, C19, Granule) = Ok(w.imm) BY <1>1, Widths, RelImmOfTarget
<1>4. Decode(w, ip) = d BY <1>2 DEF Decode
<1>5. /\ d.code = <<IF w.op = 1 THEN "Cbnz" ELSE "Cbz", IF w.sf = 1 THEN "64" ELSE "32">>
      /\ d.ip = ip /\ OpAt(d, 0) = Gp(w.sf, w.rt) /\ OpAt(d, 1) = LabelOp(t)
  BY Built2 DEF DecodeCbz, Made
<1>6. /\ IsRegAt(d, 0) /\ IsLabelAt(d, 1)
      /\ RegAt(d, 0) = w.rt /\ LabelField(d, 1, C19) = Ok(w.imm)
  BY <1>3, <1>5 DEF IsRegAt, RegAt, NumberOf, Gp, RegOp, IsLabelAt, LabelField, ValAt, LabelOp, Op
<1>7. /\ (d.code[2] = "64") <=> (w.sf = 1)
      /\ (d.code[1] = "Cbnz") <=> (w.op = 1)
      /\ d.code[1] \in {"Cbz", "Cbnz"}
  BY <1>5
<1> HIDE DEF d
<1>8. EncodeCbz(d) = Ok([class |-> "cbz", sf |-> IF d.code[2] = "64" THEN 1 ELSE 0,
                         op |-> IF d.code[1] = "Cbnz" THEN 1 ELSE 0,
                         rt |-> w.rt, imm |-> w.imm])
  <2>1. LabelField(d, 1, C19).ok /\ LabelField(d, 1, C19).v = w.imm BY <1>6, OkOk
  <2>2. EncodeCbz(d) = Ok([class |-> "cbz", sf |-> IF d.code[2] = "64" THEN 1 ELSE 0,
                           op |-> IF d.code[1] = "Cbnz" THEN 1 ELSE 0,
                           rt |-> RegAt(d, 0), imm |-> LabelField(d, 1, C19).v])
    BY <1>6, <2>1, WithOk DEF EncodeCbz
  <2> QED BY <1>6, <2>1, <2>2
<1> QED BY <1>1, <1>2, <1>4, <1>7, <1>8

(* RET*SPPC and AUTI*SPPC. *)
LEMMA RoundTripSppc ==
  ASSUME NEW w \in SppcWord, NEW ip \in Addr,
         Decode(w, ip).code # <<"Invalid">>
  PROVE  /\ Decode(w, ip).code[1] \in {"RetSppc", "AutiSppc"}
         /\ EncodeSppc(Decode(w, ip)) = Ok(w)
<1> DEFINE t == SppcTarget(w.imm, ip, Granule)
           d == DecodeSppc(w, ip)
<1>1. w.class \in {"retsppc", "autisppc"} /\ w.m \in {0, 1} /\ w.imm \in 0..(C16 - 1)
  BY DEF SppcWord, Bit
<1>2. w = [class |-> w.class, m |-> w.m, imm |-> w.imm] BY DEF SppcWord
<1>3. SppcImm(t, ip, C16, Granule) = Ok(w.imm) BY <1>1, Widths, SppcInverse
<1>4. Decode(w, ip) = d BY <1>1 DEF Decode
<1>5. "PauthLr" \in Features BY <1>4 DEF DecodeSppc, NewInvalid
<1>6. /\ d.code = <<IF w.class = "retsppc" THEN "RetSppc" ELSE "AutiSppc",
                    IF w.m = 1 THEN "b" ELSE "a">>
      /\ d.ip = ip /\ OpAt(d, 0) = LabelOp(t)
  BY <1>5, Built1 DEF DecodeSppc, Made
<1>7. IsLabelAt(d, 0) /\ SppcImm(ValAt(d, 0), d.ip, C16, Granule) = Ok(w.imm)
  BY <1>3, <1>6 DEF IsLabelAt, ValAt, LabelOp, Op
<1>8. /\ (IF d.code[1] = "RetSppc" THEN "retsppc" ELSE "autisppc") = w.class
      /\ (d.code[2] = "b") <=> (w.m = 1)
      /\ d.code[1] \in {"RetSppc", "AutiSppc"}
  BY <1>1, <1>6
<1> HIDE DEF d
<1>9. EncodeSppc(d) = Ok([class |-> IF d.code[1] = "RetSppc" THEN "retsppc" ELSE "autisppc",
                          m |-> IF d.code[2] = "b" THEN 1 ELSE 0, imm |-> w.imm])
  <2> DEFINE f == SppcImm(ValAt(d, 0), d.ip, C16, Granule)
  <2>1. f.ok /\ f.v = w.imm BY <1>7, OkOk
  <2>2. EncodeSppc(d) = Ok([class |-> IF d.code[1] = "RetSppc" THEN "retsppc" ELSE "autisppc",
                            m |-> IF d.code[2] = "b" THEN 1 ELSE 0, imm |-> f.v])
    BY <1>7, <2>1, WithOk DEF EncodeSppc
  <2> QED BY <2>1, <2>2
<1> QED BY <1>1, <1>2, <1>4, <1>8, <1>9

(* A bit position splits into b5:b40. *)
LEMMA BitPosition ==
  ASSUME NEW b5 \in {0, 1}, NEW b40 \in 0..(C5 - 1)
  PROVE  LET pos == b5 * C5 + b40
         IN  /\ pos % U32 = pos /\ ~(pos >= 2 * C5)
             /\ pos \div C5 = b5 /\ pos % C5 = b40
<1>1. C5 \in Nat \ {0} /\ U32 \in Nat /\ 2 * C5 <= U32 BY FieldsAssumption, Zenon
<1>2. CASE b5 = 0 BY <1>1, <1>2
<1>3. CASE b5 = 1
  <2> DEFINE pos == C5 + b40
  <2>1. pos \in Nat /\ pos < 2 * C5 /\ C5 <= pos BY <1>1
  <2>2. pos % U32 = pos BY <1>1, <2>1
  <2>3. pos \div C5 = 1 /\ pos % C5 = b40 BY <1>1, <2>1
  <2>4. b5 * C5 + b40 = pos BY <1>1, <1>3
  <2> HIDE DEF pos
  <2> QED BY <1>1, <1>3, <2>1, <2>2, <2>3, <2>4
<1> QED BY <1>2, <1>3

(* TBZ and TBNZ. *)
LEMMA RoundTripTbz ==
  ASSUME NEW w \in TbzWord, NEW ip \in Addr
  PROVE  /\ Decode(w, ip).code \in {<<"Tbz">>, <<"Tbnz">>}
         /\ EncodeTbz(Decode(w, ip)) = Ok(w)
<1> DEFINE t == RelTarget(w.imm, ip, C14, Granule)
           pos == w.b5 * C5 + w.b40
           d == DecodeTbz(w, ip)
<1>1. /\ w.b5 \in {0, 1} /\ w.op \in {0, 1} /\ w.b40 \in 0..(C5 - 1)
      /\ w.imm \in 0..(C14 - 1)
  BY DEF TbzWord, Bit
<1>2. w = [class |-> "tbz", b5 |-> w.b5, b40 |-> w.b40, op |-> w.op, rt |-> w.rt, imm |-> w.imm]
  BY DEF TbzWord
<1>3. RelImm(t, ip, C14, Granule) = Ok(w.imm) BY <1>1, Widths, RelImmOfTarget
<1>4. Decode(w, ip) = d BY <1>2 DEF Decode
<1>5. /\ d.code = <<IF w.op = 1 THEN "Tbnz" ELSE "Tbz">> /\ d.ip = ip
      /\ OpAt(d, 0) = Gp(w.b5, w.rt) /\ OpAt(d, 1) = ImmOp(pos) /\ OpAt(d, 2) = LabelOp(t)
  BY Built3 DEF DecodeTbz, Made
<1>6. /\ IsRegAt(d, 0) /\ IsImmAt(d, 1) /\ IsLabelAt(d, 2)
      /\ RegAt(d, 0) = w.rt /\ ValAt(d, 1) = pos /\ LabelField(d, 2, C14) = Ok(w.imm)
  BY <1>3, <1>5 DEF IsRegAt, RegAt, NumberOf, Gp, RegOp, IsImmAt, ImmOp,
                    IsLabelAt, LabelField, ValAt, LabelOp, Op
<1>7. ((d.code = <<"Tbnz">>) <=> (w.op = 1)) /\ d.code \in {<<"Tbz">>, <<"Tbnz">>} BY <1>5
<1>8. pos % U32 = pos /\ ~(pos >= 2 * C5) /\ pos \div C5 = w.b5 /\ pos % C5 = w.b40
  BY <1>1, BitPosition
<1> HIDE DEF d, pos
<1>9. EncodeTbz(d) = Ok([class |-> "tbz", b5 |-> w.b5, b40 |-> w.b40,
                         op |-> IF d.code = <<"Tbnz">> THEN 1 ELSE 0, rt |-> w.rt, imm |-> w.imm])
  <2> DEFINE f == LabelField(d, 2, C14)
             b == ValAt(d, 1) % U32
  <2>1. f.ok /\ f.v = w.imm BY <1>6, OkOk
  <2>2. b = pos BY <1>6, <1>8
  <2>3. ~(IsRegAt(d, 0) /\ IsImmAt(d, 1) /\ b >= 2 * C5) BY <1>8, <2>2
  <2>4. EncodeTbz(d) = Ok([class |-> "tbz", b5 |-> b \div C5, b40 |-> b % C5,
                           op |-> IF d.code = <<"Tbnz">> THEN 1 ELSE 0,
                           rt |-> RegAt(d, 0), imm |-> f.v])
    BY <1>6, <2>1, <2>3, WithOk DEF EncodeTbz
  <2> HIDE DEF f, b
  <2> QED BY <1>6, <1>8, <2>1, <2>2, <2>4
<1> QED BY <1>1, <1>2, <1>4, <1>7, <1>9

(* ADR and ADRP. *)
LEMMA RoundTripAdr ==
  ASSUME NEW w \in AdrWord, NEW ip \in Addr
  PROVE  /\ Decode(w, ip).code \in {<<"Adr">>, <<"Adrp">>}
         /\ EncodeAdr(Decode(w, ip)) = Ok(w)
<1> DEFINE t == IF w.op = 1 THEN AdrpTarget(w.imm, ip, C21, Page)
                            ELSE RelTarget(w.imm, ip, C21, 1)
           d == DecodeAdr(w, ip)
<1>1. w.op \in {0, 1} /\ w.imm \in 0..(C21 - 1) BY DEF AdrWord, Bit
<1>2. w = [class |-> "adr", op |-> w.op, rd |-> w.rd, imm |-> w.imm] BY DEF AdrWord
<1>3. Page = 4096 /\ AddrMod % 4096 = 0 BY FieldsAssumption
<1>4. (IF w.op = 1 THEN AdrpImm(t, ip, C21, Page) ELSE RelImm(t, ip, C21, 1)) = Ok(w.imm)
  <2>1. CASE w.op = 1
    <3>1. AdrpImm(AdrpTarget(w.imm, ip, C21, 4096), ip, C21, 4096) = Ok(w.imm)
      BY <1>1, <1>3, Widths, AdrpInverse
    <3> QED BY <1>3, <2>1, <3>1
  <2>2. CASE w.op # 1
    <3>1. RelImm(RelTarget(w.imm, ip, C21, 1), ip, C21, 1) = Ok(w.imm)
      BY <1>1, Widths, RelImmOfTarget
    <3> QED BY <2>2, <3>1
  <2> QED BY <2>1, <2>2
<1>5. Decode(w, ip) = d BY <1>2 DEF Decode
<1>6. /\ d.code = <<IF w.op = 1 THEN "Adrp" ELSE "Adr">> /\ d.ip = ip
      /\ OpAt(d, 0) = Gp(1, w.rd) /\ OpAt(d, 1) = LabelOp(t)
  BY Built2 DEF DecodeAdr, Made
<1> HIDE DEF t, d
<1>7. /\ IsRegAt(d, 0) /\ IsLabelAt(d, 1) /\ RegAt(d, 0) = w.rd /\ ValAt(d, 1) = t
  BY <1>6 DEF IsRegAt, RegAt, NumberOf, Gp, RegOp, IsLabelAt, ValAt, LabelOp, Op
<1>8. ((d.code = <<"Adrp">>) <=> (w.op = 1)) /\ d.code \in {<<"Adr">>, <<"Adrp">>} BY <1>6
<1>9. EncodeAdr(d) = Ok([class |-> "adr", op |-> IF d.code = <<"Adrp">> THEN 1 ELSE 0,
                         rd |-> w.rd, imm |-> w.imm])
  <2> DEFINE f == IF d.code = <<"Adrp">> THEN AdrpImm(ValAt(d, 1), d.ip, C21, Page)
                                        ELSE RelImm(ValAt(d, 1), d.ip, C21, 1)
  <2>1. f = Ok(w.imm) BY <1>4, <1>6, <1>7, <1>8
  <2>2. f.ok /\ f.v = w.imm BY <2>1, OkOk
  <2>3. EncodeAdr(d) = Ok([class |-> "adr", op |-> IF d.code = <<"Adrp">> THEN 1 ELSE 0,
                           rd |-> RegAt(d, 0), imm |-> f.v])
    BY <1>7, <2>2, WithOk DEF EncodeAdr
  <2> HIDE DEF f
  <2> QED BY <1>7, <2>2, <2>3
<1> QED BY <1>1, <1>2, <1>5, <1>8, <1>9

(* UDF. *)
LEMMA RoundTripUdf ==
  ASSUME NEW w \in UdfWord, NEW ip \in Addr
  PROVE  Decode(w, ip).code = <<"Udf">> /\ EncodeUdf(Decode(w, ip)) = Ok(w)
<1> DEFINE d == DecodeUdf(w, ip)
<1>1. w.imm \in 0..(CUdf - 1) /\ w.imm < CUdf BY FieldsAssumption DEF UdfWord
<1>2. w = [class |-> "udf", imm |-> w.imm] BY DEF UdfWord
<1>3. Decode(w, ip) = d BY <1>2 DEF Decode
<1>4. d.code = <<"Udf">> /\ OpAt(d, 0) = ImmOp(w.imm) BY Built1 DEF DecodeUdf, Made
<1> HIDE DEF d
<1>5. IsImmAt(d, 0) /\ ValAt(d, 0) = w.imm BY <1>4 DEF IsImmAt, ValAt, ImmOp, Op
<1> DEFINE f == IF ValAt(d, 0) < CUdf THEN Ok(ValAt(d, 0)) ELSE Err("InvalidImmediate")
<1>6. f.ok /\ f.v = w.imm BY <1>1, <1>5, OkOk
<1>7. EncodeUdf(d) = Ok([class |-> "udf", imm |-> f.v])
  BY <1>5, <1>6, WithOk DEF EncodeUdf
<1> HIDE DEF f
<1> QED BY <1>2, <1>3, <1>4, <1>6, <1>7

(* The condition and size tables name each field value once. *)
LEMMA TablesInvert ==
  /\ \A cc \in 0..7 : RegCc[cc + 1] # "none" =>
       IndexOf(RegCc, RegCc[cc + 1]) = cc /\ HasReg(<<"Cb", RegCc[cc + 1]>>)
  /\ \A cc \in 0..7 : ImmCc[cc + 1] # "none" =>
       IndexOf(ImmCc, ImmCc[cc + 1]) = cc /\ HasImm(<<"Cb", ImmCc[cc + 1]>>)
  /\ \A n \in 0..3 : CbFamily[n + 1] # "none" => IndexOf(CbFamily, CbFamily[n + 1]) = n
<1>1. ASSUME NEW cc \in 0..7, RegCc[cc + 1] # "none"
      PROVE  IndexOf(RegCc, RegCc[cc + 1]) = cc /\ HasReg(<<"Cb", RegCc[cc + 1]>>)
  <2> DEFINE k == CHOOSE i \in DOMAIN RegCc : RegCc[i] = RegCc[cc + 1]
  <2>1. DOMAIN RegCc = 1..8 BY DEF RegCc
  <2>2. /\ RegCc[1] = "gt" /\ RegCc[2] = "ge" /\ RegCc[3] = "hi" /\ RegCc[4] = "hs"
        /\ RegCc[5] = "none" /\ RegCc[6] = "none" /\ RegCc[7] = "eq" /\ RegCc[8] = "ne"
    BY DEF RegCc
  <2>3. \A i \in 1..8 : RegCc[i] = RegCc[cc + 1] => i = cc + 1 BY <1>1, <2>2, SMTT(30)
  <2>4. cc + 1 \in 1..8 OBVIOUS
  <2>5. k = cc + 1 BY <2>1, <2>3, <2>4
  <2>6. IndexOf(RegCc, RegCc[cc + 1]) = k - 1 BY DEF IndexOf
  <2>7. HasReg(<<"Cb", RegCc[cc + 1]>>) BY <2>1, <2>4 DEF HasReg
  <2> HIDE DEF k
  <2>8. IndexOf(RegCc, RegCc[cc + 1]) = cc BY <2>5, <2>6
  <2> QED BY <2>7, <2>8
<1>2. ASSUME NEW cc \in 0..7, ImmCc[cc + 1] # "none"
      PROVE  IndexOf(ImmCc, ImmCc[cc + 1]) = cc /\ HasImm(<<"Cb", ImmCc[cc + 1]>>)
  <2> DEFINE k == CHOOSE i \in DOMAIN ImmCc : ImmCc[i] = ImmCc[cc + 1]
  <2>1. DOMAIN ImmCc = 1..8 BY DEF ImmCc
  <2>2. /\ ImmCc[1] = "gt" /\ ImmCc[2] = "lt" /\ ImmCc[3] = "hi" /\ ImmCc[4] = "lo"
        /\ ImmCc[5] = "none" /\ ImmCc[6] = "none" /\ ImmCc[7] = "eq" /\ ImmCc[8] = "ne"
    BY DEF ImmCc
  <2>3. \A i \in 1..8 : ImmCc[i] = ImmCc[cc + 1] => i = cc + 1 BY <1>2, <2>2, SMTT(30)
  <2>4. cc + 1 \in 1..8 OBVIOUS
  <2>5. k = cc + 1 BY <2>1, <2>3, <2>4
  <2>6. IndexOf(ImmCc, ImmCc[cc + 1]) = k - 1 BY DEF IndexOf
  <2>7. HasImm(<<"Cb", ImmCc[cc + 1]>>) BY <2>1, <2>4 DEF HasImm
  <2> HIDE DEF k
  <2>8. IndexOf(ImmCc, ImmCc[cc + 1]) = cc BY <2>5, <2>6
  <2> QED BY <2>7, <2>8
<1>3. ASSUME NEW n \in 0..3, CbFamily[n + 1] # "none"
      PROVE  IndexOf(CbFamily, CbFamily[n + 1]) = n
  <2> DEFINE k == CHOOSE i \in DOMAIN CbFamily : CbFamily[i] = CbFamily[n + 1]
  <2>1. DOMAIN CbFamily = 1..4 BY DEF CbFamily
  <2>2. CbFamily[1] = "Cb" /\ CbFamily[2] = "none" /\ CbFamily[3] = "Cbb" /\ CbFamily[4] = "Cbh"
    BY DEF CbFamily
  <2>3. \A i \in 1..4 : CbFamily[i] = CbFamily[n + 1] => i = n + 1 BY <1>3, <2>2, SMTT(30)
  <2>4. n + 1 \in 1..4 OBVIOUS
  <2>5. k = n + 1 BY <2>1, <2>3, <2>4
  <2>6. IndexOf(CbFamily, CbFamily[n + 1]) = k - 1 BY DEF IndexOf
  <2> HIDE DEF k
  <2>8. IndexOf(CbFamily, CbFamily[n + 1]) = n BY <2>5, <2>6
  <2> QED BY <2>8
<1> QED BY <1>1, <1>2, <1>3

(* CB<cc>, CBB<cc> and CBH<cc> (register). *)
LEMMA RoundTripCbReg ==
  ASSUME NEW w \in CbRegWord, NEW ip \in Addr,
         Decode(w, ip).code # <<"Invalid">>
  PROVE  /\ Decode(w, ip).code[1] \in {"Cb", "Cbb", "Cbh"}
         /\ EncodeCmpbr(Decode(w, ip)) = Ok(w)
<1> DEFINE t == RelTarget(w.imm, ip, C9, Granule)
           fam == CbFamily[w.size + 1]
           cond == RegCc[w.cc + 1]
           d == DecodeCbReg(w, ip)
<1>1. /\ w.sf \in {0, 1} /\ w.cc \in 0..7 /\ w.size \in 0..3
      /\ w.imm \in 0..(C9 - 1)
  BY DEF CbRegWord, Bit
<1>2. w = [class |-> "cbreg", sf |-> w.sf, cc |-> w.cc, size |-> w.size,
           rm |-> w.rm, rt |-> w.rt, imm |-> w.imm]
  BY DEF CbRegWord
<1>3. RelImm(t, ip, C9, Granule) = Ok(w.imm) BY <1>1, Widths, RelImmOfTarget
<1>4. Decode(w, ip) = d BY <1>2 DEF Decode
<1>5. /\ "Cmpbr" \in Features /\ cond # "none" /\ fam # "none"
      /\ ~(w.size # 0 /\ w.sf = 1)
  BY <1>4 DEF DecodeCbReg, NewInvalid
<1>6. /\ d.code = <<fam, cond>> /\ d.ip = ip
      /\ OpAt(d, 0) = Gp(w.sf, w.rt) /\ OpAt(d, 1) = Gp(w.sf, w.rm)
      /\ OpAt(d, 2) = LabelOp(t)
  BY <1>5, Built3 DEF DecodeCbReg, Made
<1>7. IndexOf(RegCc, cond) = w.cc /\ IndexOf(CbFamily, fam) = w.size /\ HasReg(<<"Cb", cond>>)
  BY <1>1, <1>5, TablesInvert
<1>8. fam \in {"Cb", "Cbb", "Cbh"} /\ ((fam = "Cb") <=> (w.size = 0))
  <2>1. /\ CbFamily[1] = "Cb" /\ CbFamily[2] = "none"
        /\ CbFamily[3] = "Cbb" /\ CbFamily[4] = "Cbh"
    BY DEF CbFamily
  <2> QED BY <1>1, <1>5, <2>1
<1> HIDE DEF d, t, fam, cond
<1>9. HasReg(d.code) BY <1>6, <1>7 DEF HasReg
<1>10. /\ IsRegAt(d, 0) /\ IsRegAt(d, 1) /\ IsLabelAt(d, 2)
       /\ RegAt(d, 0) = w.rt /\ RegAt(d, 1) = w.rm
       /\ LabelField(d, 2, C9) = Ok(w.imm)
  BY <1>3, <1>6 DEF IsRegAt, RegAt, NumberOf, Gp, RegOp, IsLabelAt, LabelField, ValAt, LabelOp, Op
<1>11. (IsXAt(d, 0) <=> (w.sf = 1)) /\ (IsXAt(d, 1) <=> (w.sf = 1))
  BY <1>6 DEF IsXAt, BankOf, Gp, RegOp, Op
<1> DEFINE f == LabelField(d, 2, C9)
<1>12. f.ok /\ f.v = w.imm BY <1>10, OkOk
<1>13. EncodeCmpbr(d) = EncodeCbReg(d, f) BY <1>10, <1>12 DEF EncodeCmpbr
<1>14. d.code[1] = fam /\ d.code[2] = cond BY <1>6
<1> HIDE DEF f
<1>15. d.code[1] = "Cb" \/ ~(IsXAt(d, 0) \/ IsXAt(d, 1)) BY <1>1, <1>5, <1>8, <1>11, <1>14
<1>16. EncodeCbReg(d, f) =
         Ok([class |-> "cbreg", sf |-> IF d.code[1] = "Cb" /\ IsXAt(d, 0) THEN 1 ELSE 0,
             cc |-> IndexOf(RegCc, d.code[2]), size |-> IndexOf(CbFamily, d.code[1]),
             rm |-> RegAt(d, 1), rt |-> RegAt(d, 0), imm |-> f.v])
  <2> DEFINE shape == /\ HasReg(d.code) /\ IsRegAt(d, 0)
                      /\ d.code[1] = "Cb" \/ ~(IsXAt(d, 0) \/ IsXAt(d, 1))
             word == [class |-> "cbreg", sf |-> IF d.code[1] = "Cb" /\ IsXAt(d, 0) THEN 1 ELSE 0,
                      cc |-> IndexOf(RegCc, d.code[2]), size |-> IndexOf(CbFamily, d.code[1]),
                      rm |-> RegAt(d, 1), rt |-> RegAt(d, 0), imm |-> f.v]
  <2>1. EncodeCbReg(d, f) = With(shape, f, word) BY DEF EncodeCbReg
  <2>2. shape BY <1>9, <1>10, <1>15
  <2> HIDE DEF shape, word
  <2>3. With(shape, f, word) = Ok(word) BY <1>12, <2>2, WithOk
  <2> QED BY <2>1, <2>3 DEF word
<1>17. (IF d.code[1] = "Cb" /\ IsXAt(d, 0) THEN 1 ELSE 0) = w.sf
  BY <1>1, <1>5, <1>8, <1>11, <1>14
<1>18. EncodeCbReg(d, f) = Ok(w)
  BY <1>2, <1>7, <1>10, <1>12, <1>14, <1>16, <1>17
<1> QED BY <1>4, <1>8, <1>13, <1>14, <1>18

(* CB<cc> (immediate). *)
LEMMA RoundTripCbImm ==
  ASSUME NEW w \in CbImmWord, NEW ip \in Addr,
         Decode(w, ip).code # <<"Invalid">>
  PROVE  /\ Decode(w, ip).code[1] = "Cb"
         /\ EncodeCmpbr(Decode(w, ip)) = Ok(w)
<1> DEFINE t == RelTarget(w.imm, ip, C9, Granule)
           cond == ImmCc[w.cc + 1]
           d == DecodeCbImm(w, ip)
<1>1. /\ w.sf \in {0, 1} /\ w.cc \in 0..7 /\ w.b14 \in {0, 1}
      /\ w.imm \in 0..(C9 - 1) /\ w.imm6 \in 0..(C6 - 1) /\ w.imm6 < C6
  BY FieldsAssumption DEF CbImmWord, Bit
<1>2. w = [class |-> "cbimm", sf |-> w.sf, cc |-> w.cc, b14 |-> w.b14,
           imm6 |-> w.imm6, rt |-> w.rt, imm |-> w.imm]
  BY DEF CbImmWord
<1>3. RelImm(t, ip, C9, Granule) = Ok(w.imm) BY <1>1, Widths, RelImmOfTarget
<1>4. Decode(w, ip) = d BY <1>2 DEF Decode
<1>5. "Cmpbr" \in Features /\ w.b14 # 1 /\ cond # "none"
  BY <1>4 DEF DecodeCbImm, NewInvalid
<1>6. /\ d.code = <<"Cb", cond>> /\ d.ip = ip
      /\ OpAt(d, 0) = Gp(w.sf, w.rt) /\ OpAt(d, 1) = ImmOp(w.imm6)
      /\ OpAt(d, 2) = LabelOp(t)
  BY <1>5, Built3 DEF DecodeCbImm, Made
<1>7. IndexOf(ImmCc, cond) = w.cc /\ HasImm(<<"Cb", cond>>)
  BY <1>1, <1>5, TablesInvert
<1> HIDE DEF d, t, cond
<1>8. HasImm(d.code) BY <1>6, <1>7
<1>9. /\ IsRegAt(d, 0) /\ ~IsRegAt(d, 1) /\ IsLabelAt(d, 2)
      /\ IsImmAt(d, 1) /\ OpAt(d, 1).kind # "ShiftAmount"
      /\ RegAt(d, 0) = w.rt /\ ValAt(d, 1) = w.imm6
      /\ LabelField(d, 2, C9) = Ok(w.imm)
  BY <1>3, <1>6 DEF IsRegAt, RegAt, NumberOf, Gp, RegOp, IsImmAt, ImmOp,
                    IsLabelAt, LabelField, ValAt, LabelOp, Op
<1>10. IsXAt(d, 0) <=> (w.sf = 1) BY <1>6 DEF IsXAt, BankOf, Gp, RegOp, Op
<1> DEFINE f == LabelField(d, 2, C9)
           g == IF ValAt(d, 1) < C6 THEN f ELSE Err("InvalidImmediate")
<1>11. f.ok /\ f.v = w.imm BY <1>9, OkOk
<1>12. EncodeCmpbr(d) = EncodeCbImm(d, f) BY <1>9, <1>11 DEF EncodeCmpbr
<1>13. d.code[1] = "Cb" /\ d.code[2] = cond BY <1>6
<1> HIDE DEF f
<1>14. g.ok BY <1>1, <1>9, <1>11
<1>15. EncodeCbImm(d, f) =
         Ok([class |-> "cbimm", sf |-> IF IsXAt(d, 0) THEN 1 ELSE 0,
             cc |-> IndexOf(ImmCc, d.code[2]), b14 |-> 0,
             imm6 |-> ValAt(d, 1), rt |-> RegAt(d, 0), imm |-> f.v])
  BY <1>8, <1>9, <1>14, WithOk DEF EncodeCbImm
<1>16. EncodeCbImm(d, f) = Ok(w)
  BY <1>1, <1>2, <1>5, <1>7, <1>9, <1>10, <1>11, <1>13, <1>15
<1> QED BY <1>4, <1>12, <1>13, <1>16

(* Every branch and PC-relative word that decodes encodes again, to itself:
   for every width of the immediate fields, every set of enabled features
   and every address, wrap-around of the address space included. *)
THEOREM DecodeThenEncode ==
  ASSUME NEW w \in BranchWord, NEW ip \in Addr,
         Decode(w, ip).code # <<"Invalid">>
  PROVE  Encode(Decode(w, ip)) = Ok(w)
<1> DEFINE d == Decode(w, ip)
<1>1. CASE w \in BWord
  <2>1. d.code \in {<<"B", "uncond">>, <<"Bl">>} /\ EncodeB(d) = Ok(w) BY <1>1, RoundTripB
  <2> QED BY <2>1 DEF Encode
<1>2. CASE w \in BCondWord
  <2>1. d.code \in {<<"B", "cond">>, <<"Bc">>} /\ EncodeBCond(d) = Ok(w)
    BY <1>2, RoundTripBCond
  <2> QED BY <2>1 DEF Encode
<1>3. CASE w \in SppcWord
  <2>1. d.code[1] \in {"RetSppc", "AutiSppc"} /\ EncodeSppc(d) = Ok(w) BY <1>3, RoundTripSppc
  <2> QED BY <2>1 DEF Encode
<1>4. CASE w \in CbzWord
  <2>1. d.code[1] \in {"Cbz", "Cbnz"} /\ EncodeCbz(d) = Ok(w) BY <1>4, RoundTripCbz
  <2> QED BY <2>1 DEF Encode
<1>5. CASE w \in TbzWord
  <2>1. d.code \in {<<"Tbz">>, <<"Tbnz">>} /\ EncodeTbz(d) = Ok(w) BY <1>5, RoundTripTbz
  <2> QED BY <2>1 DEF Encode
<1>6. CASE w \in CbRegWord
  <2>1. d.code[1] \in {"Cb", "Cbb", "Cbh"} /\ EncodeCmpbr(d) = Ok(w) BY <1>6, RoundTripCbReg
  <2> QED BY <2>1 DEF Encode
<1>7. CASE w \in CbImmWord
  <2>1. d.code[1] = "Cb" /\ EncodeCmpbr(d) = Ok(w) BY <1>7, RoundTripCbImm
  <2> QED BY <2>1 DEF Encode
<1>8. CASE w \in AdrWord
  <2>1. d.code \in {<<"Adr">>, <<"Adrp">>} /\ EncodeAdr(d) = Ok(w) BY <1>8, RoundTripAdr
  <2> QED BY <2>1 DEF Encode
<1>9. CASE w \in UdfWord
  <2>1. d.code = <<"Udf">> /\ EncodeUdf(d) = Ok(w) BY <1>9, RoundTripUdf
  <2> QED BY <2>1 DEF Encode
<1> QED BY <1>1, <1>2, <1>3, <1>4, <1>5, <1>6, <1>7, <1>8, <1>9 DEF BranchWord
=============================================================================
