------------------------------ MODULE SimdData ------------------------------
(***************************************************************************)
(* Advanced SIMD data movement (src/decode/simd_fp/simd_data.rs,           *)
(* src/encode/simd_fp_data.rs): copies, permutations, EXT, table lookups,  *)
(* modified immediates and shifts by an immediate.  Words with word<31>    *)
(* set are none of these.                                                  *)
(***************************************************************************)
EXTENDS SimdWord

(* vlist_16b, vlist1, vlist2: a list of vectors from Vn on. *)
VList(arr, n, count) == Op("MultiReg", <<"V", n>>, NoReg, count, arr)
IsListAt(x, n) == OpAt(x, n).kind = "MultiReg"

(* word<28:24> = 01110, with word<15> clear *)
MoveWord(q, u, size, rm, op, rn, rd) == Pack(Top(0, q, u, 0), 0, size, 0, rm, op, rn, rd)

(***************************************************************************)
(* Faulty variants, used to show that the properties detect them.          *)
(***************************************************************************)
Amount_Right(dir, size, field) == IF dir = "right" THEN field - 8 * 2^size ELSE 16 * 2^size - field
CmodeOf_OneStepUp(imm, size, logical) == 8 * (3 - size) + 2 * (imm.dec[1] \div 8) + logical
CmodeOf_NoOnes(imm, size, logical) == 8 * (2 - size) + 2 * (imm.dec[1] \div 8) + logical

(***************************************************************************)
(* Copies: imm5 holds the size, as its lowest set bit, and the lane.       *)
(***************************************************************************)
HasSize(imm5) == imm5 % 16 # 0
SizeBit(imm5) == CHOOSE s \in 0..3 : imm5 % 2^(s + 1) = 2^s
LaneBits(imm5) == imm5 \div 2^(SizeBit(imm5) + 1)
Imm5(size, lane) == IF lane < 2^(4 - size) THEN Ok(2^size * (2 * lane + 1)) ELSE BadOperand

(* Imm4: a lane of the source in the copy between elements, otherwise the
   operation. *)
Imm4(w) == (w.op \div 2) % 16
CopyName == {<<"DupElement", 0>>, <<"DupGeneral", 1>>, <<"InsGeneral", 3>>, <<"Smov", 5>>, <<"Umov", 7>>}
CopyCode(name) == <<name, "Copy">>
(* elem_arr: an element is shown in a full vector. *)
SLane(w, n, lane) == VLane(Arr(SizeBit(w.rm), 1), n, lane)

DecodeCopy(w, ip) ==
  LET s    == SizeBit(w.rm)
      q    == QOf(w)
      lane == LaneBits(w.rm)
      rows == {r \in CopyName : r[2] = Imm4(w)}
      name == IF UOf(w) = 1 THEN "InsElement" ELSE One(rows)[1]
      wide == IF s = 3 THEN 1 ELSE 0
      c    == CopyCode(name)
      bad  == CASE name \in {"DupElement", "DupGeneral"} -> s = 3 /\ q = 0
                [] name \in {"InsGeneral", "InsElement"} -> q = 0
                [] name = "Smov" -> s = 3 \/ (s = 2 /\ q = 0)
                [] name = "Umov" -> q # wide
  IN  IF ~HasSize(w.rm) \/ (UOf(w) = 0 /\ rows = {}) THEN NewInvalid(w, ip)
      ELSE IF bad THEN NewInvalid(w, ip)
      ELSE CASE name = "DupElement" -> Alias(w, ip, c, "Dup", <<VReg(Arr(s, q), w.rd), SLane(w, w.rn, lane)>>)
             [] name = "DupGeneral" -> Alias(w, ip, c, "Dup", <<VReg(Arr(s, q), w.rd), Gp(wide, w.rn)>>)
             [] name = "InsGeneral" -> Alias(w, ip, c, "Mov", <<SLane(w, w.rd, lane), Gp(wide, w.rn)>>)
             [] name = "Smov" -> Plain(w, ip, c, <<Gp(q, w.rd), SLane(w, w.rn, lane)>>)
             [] name = "Umov" -> Built(w, ip, c, IF s > 1 THEN <<"Mov">> ELSE <<"Umov">>,
                                       <<Gp(q, w.rd), SLane(w, w.rn, lane)>>)
             [] name = "InsElement" ->
                  Alias(w, ip, c, "Mov", <<SLane(w, w.rd, lane), SLane(w, w.rn, Imm4(w) \div 2^s)>>)

DecodeDupScalar(w, ip) ==
  IF UOf(w) = 1 \/ Imm4(w) # 0 \/ ~HasSize(w.rm) THEN NewInvalid(w, ip)
  ELSE Alias(w, ip, CopyCode("DupElementScalar"), "Mov",
             <<SReg(SizeBit(w.rm), w.rd), SLane(w, w.rn, LaneBits(w.rm))>>)

(* The operand whose element gives the size, and the one whose lane imm5
   holds; DUP (general) has no lane. *)
EncodeCopy(x) ==
  LET name == x.code[1]
      dup  == name \in {"DupElement", "DupGeneral"}
      first == dup \/ name \in {"InsGeneral", "InsElement"}
      sized == IF first THEN 0 ELSE 1
      laned == IF name \in {"InsGeneral", "InsElement"} THEN 0 ELSE 1
      size == SizeAt(x, sized)
      shape == /\ HasArrAt(x, sized) /\ IsRegAt(x, 0) /\ IsRegAt(x, 1)
               /\ dup => IsWholeAt(x, 0) /\ ArrAt(x, 0) # <<3, 1>>
               /\ name # "DupGeneral" => HasLaneAt(x, laned)
               /\ name = "InsElement" => HasLaneAt(x, 1)
      imm5 == Imm5(size, IF name = "DupGeneral" THEN 0 ELSE LaneAt(x, laned))
      imm4 == CASE name = "InsElement" -> IF LaneAt(x, 1) * 2^size < 16 THEN Ok(LaneAt(x, 1) * 2^size) ELSE BadOperand
                [] name = "DupElementScalar" -> Ok(0)
                [] OTHER -> Ok((CHOOSE r \in CopyName : r[1] = name)[2])
      q    == IF dup THEN QAt(x, 0) ELSE IF first \/ name = "DupElementScalar" \/ IsXAt(x, 0) THEN 1 ELSE 0
      word == MoveWord(q, IF name = "InsElement" THEN 1 ELSE 0, 0, imm5.v, 2 * imm4.v + 1, RegAt(x, 1), RegAt(x, 0))
  IN  With(shape, Both(imm5, imm4),
           IF name = "DupElementScalar" THEN [word EXCEPT !.top = Top(0, 1, 0, 1)] ELSE word)

(***************************************************************************)
(* Permutations, EXT and table lookups                                     *)
(***************************************************************************)
PermuteName == {<<"Uzp1", 1>>, <<"Trn1", 2>>, <<"Zip1", 3>>, <<"Uzp2", 5>>, <<"Trn2", 6>>, <<"Zip2", 7>>}
PermuteCode(name) == <<name, "Move">>
Opcode3(w) == (w.op \div 4) % 8             \* word<14:12>

DecodePermute(w, ip) ==
  LET rows == {r \in PermuteName : r[2] = Opcode3(w)}
      arr  == Arr(w.size, QOf(w))
  IN  IF rows = {} \/ arr = <<3, 1>> THEN NewInvalid(w, ip)
      ELSE Plain(w, ip, PermuteCode(One(rows)[1]), <<VReg(arr, w.rd), VReg(arr, w.rn), VReg(arr, w.rm)>>)

DecodeExt(w, ip) ==
  LET arr == Arr(0, QOf(w))
      imm == Imm4(w)
  IN  IF QOf(w) = 0 /\ imm > 7 THEN NewInvalid(w, ip)
      ELSE Plain(w, ip, PermuteCode("Ext"),
                 <<VReg(arr, w.rd), VReg(arr, w.rn), VReg(arr, w.rm), ImmOp(imm)>>)

TableName == <<"Tbl", "Tbx">>
DecodeTable(w, ip) ==
  LET arr == Arr(0, QOf(w))
  IN  Plain(w, ip, PermuteCode(Entry(TableName, Opcode3(w) % 2)),
            <<VReg(arr, w.rd), VList(Arr(0, 1), w.rn, Opcode3(w) \div 2 + 1), VReg(arr, w.rm)>>)

(* LUTI2 and LUTI4: the size and the low bits of word<14:12> tell the forms
   apart, the bits above them are the index of the table. *)
LutiForm(w) ==
  LET b == Opcode3(w)
  IN  {f \in {[name |-> "Luti4TwoVec", size |-> 1, unit |-> 2, low |-> 1, esize |-> 1, count |-> 2],
              [name |-> "Luti4Vec",    size |-> 1, unit |-> 4, low |-> 2, esize |-> 0, count |-> 1],
              [name |-> "Luti2Vec",    size |-> 2, unit |-> 2, low |-> 1, esize |-> 0, count |-> 1],
              [name |-> "Luti2Vec",    size |-> 3, unit |-> 1, low |-> 0, esize |-> 1, count |-> 1]} :
        f.size = w.size /\ b % f.unit = f.low}
LutiCode(name) == <<name, "Luti">>

DecodeLuti(w, ip) ==
  LET f == One(LutiForm(w))
  IN  IF ~Gated("Lut") \/ QOf(w) # 1 \/ LutiForm(w) = {} THEN NewInvalid(w, ip)
      ELSE Alias(w, ip, LutiCode(f.name), IF f.name = "Luti2Vec" THEN "Luti2" ELSE "Luti4",
                 <<VReg(Arr(f.esize, 1), w.rd), VList(Arr(f.esize, 1), w.rn, f.count),
                   VLane(<<>>, w.rm, Opcode3(w) \div f.unit)>>)

EncodePermute(x) ==
  With(HasArrAt(x, 0) /\ IsWholeAt(x, 0) /\ IsRegAt(x, 1) /\ IsRegAt(x, 2), Ok(0),
       MoveWord(QAt(x, 0), 0, SizeAt(x, 0), RegAt(x, 2),
                4 * (CHOOSE r \in PermuteName : r[1] = x.code[1])[2] + 2, RegAt(x, 1), RegAt(x, 0)))

IsBytesAt(x, n) == HasArrAt(x, n) /\ IsWholeAt(x, n) /\ SizeAt(x, n) = 0
EncodeExt(x) ==
  With(IsBytesAt(x, 0) /\ IsRegAt(x, 1) /\ IsRegAt(x, 2) /\ IsImmAt(x, 3), Below(U32At(x, 3), 8 * (QAt(x, 0) + 1)),
       MoveWord(QAt(x, 0), 1, 0, RegAt(x, 2), 2 * (U32At(x, 3) % 16), RegAt(x, 1), RegAt(x, 0)))

EncodeTable(x) ==
  With(IsBytesAt(x, 0) /\ IsListAt(x, 1) /\ OpAt(x, 1).val \in 1..4 /\ IsRegAt(x, 2), Ok(0),
       MoveWord(QAt(x, 0), 0, 0, RegAt(x, 2), 8 * (OpAt(x, 1).val - 1) + 4 * Place(TableName, x.code[1]),
                RegAt(x, 1), RegAt(x, 0)))

(* The arrangement of the destination tells the forms of LUTI2 apart; an
   index loses the bits it has no room for. *)
EncodeLuti(x) ==
  LET forms == {f \in UNION {LutiForm([size |-> s, op |-> 4 * b]) : s \in 1..3, b \in 0..7} :
                  f.name = x.code[1] /\ (f.name = "Luti2Vec" => Arr(f.esize, 1) = ArrAt(x, 0))}
      f     == One(forms)
  IN  With(IsRegAt(x, 0) /\ IsListAt(x, 1) /\ Len(OpAt(x, 2).dec) = 1 /\ HasArrAt(x, 0) /\ forms # {}, Ok(0),
           MoveWord(1, 0, f.size, RegAt(x, 2), 4 * (f.unit * (OpAt(x, 2).dec[1] % (8 \div f.unit)) + f.low),
                    RegAt(x, 1), RegAt(x, 0)))

(***************************************************************************)
(* Modified immediates: op (word<29>), cmode and o2 say how an 8-bit       *)
(* immediate is expanded.                                                  *)
(***************************************************************************)
ImmCode(name) == <<name, "Imm">>
MovName == <<"MoviVector", "MvniVector">>
LogicName == <<"OrrVecImm", "BicVecImm">>
Cmode(w) == w.op \div 4
O2(w) == (w.op \div 2) % 2
Imm8(w) == 32 * w.rm + w.rn

LslOp(imm, lsl) == Op("ImmShiftedMove", NoReg, NoReg, imm, <<lsl>>)
MslOp(imm, msl) == Op("ImmShiftedMsl", NoReg, NoReg, imm, <<msl>>)
(* adv_simd_expand_imm: the 64-bit number that repeats each of the eight
   bits over a byte. *)
BytesOp(imm8) == Op("ImmUnsigned", NoReg, NoReg, imm8, <<"bytes">>)

ImmMnemonic == [MoviVector |-> <<"Movi">>, MvniVector |-> <<"Mvni">>, OrrVecImm |-> <<"Orr">>, BicVecImm |-> <<"Bic">>,
                MoviScalarD |-> <<"Movi">>, MoviVec2D |-> <<"Movi">>, FmovVecImmS |-> <<"Fmov">>,
                FmovVecImmH |-> <<"Fmov">>, FmovVecImmD2 |-> <<"Fmov">>]

DecodeModified(w, ip) ==
  LET u == UOf(w)
      q == QOf(w)
      cm == Cmode(w)
      Set(name, arr, imm) == Built(w, ip, ImmCode(name), ImmMnemonic[name], <<VReg(arr, w.rd), imm>>)
      half  == cm = 15 /\ u = 0 /\ O2(w) = 1
      table == IF cm % 2 = 0 \/ cm \in {12, 13} THEN MovName ELSE LogicName
  IN  CASE half -> IF Gated("Fp16") THEN Set("FmovVecImmH", Arr(1, q), FpOp(VfpValue(Imm8(w)))) ELSE NewInvalid(w, ip)
        [] ~half /\ O2(w) = 1 -> NewInvalid(w, ip)
        [] O2(w) = 0 /\ cm = 15 ->
             IF u = 0 THEN Set("FmovVecImmS", Arr(2, q), FpOp(VfpValue(Imm8(w))))
             ELSE IF q = 1 THEN Set("FmovVecImmD2", Arr(3, 1), FpOp(VfpValue(Imm8(w))))
             ELSE NewInvalid(w, ip)
        [] O2(w) = 0 /\ cm = 14 ->
             IF u = 0 THEN Set("MoviVector", Arr(0, q), ImmOp(Imm8(w)))
             ELSE IF q = 1 THEN Set("MoviVec2D", Arr(3, 1), BytesOp(Imm8(w)))
             ELSE Built(w, ip, ImmCode("MoviScalarD"), <<"Movi">>, <<SReg(3, w.rd), BytesOp(Imm8(w))>>)
        [] O2(w) = 0 /\ cm \in {12, 13} -> Set(Entry(table, u), Arr(2, q), MslOp(Imm8(w), 8 * (cm - 11)))
        [] O2(w) = 0 /\ cm \in 8..11 -> Set(Entry(table, u), Arr(1, q), LslOp(Imm8(w), 8 * ((cm \div 2) % 2)))
        [] O2(w) = 0 /\ cm < 8 -> Set(Entry(table, u), Arr(2, q), LslOp(Imm8(w), 8 * (cm \div 2)))

ModifiedWord(q, u, cmode, o2, imm8, rd) ==
  Pack(Top(0, q, u, 0), 1, 0, 0, imm8 \div 32, 4 * cmode + 2 * o2 + 1, imm8 % 32, rd)

(* cmode of a shifted immediate: 110x, 10xl and 0xxl. *)
CmodeOf(imm, size, logical) ==
  IF imm.kind = "ImmShiftedMsl" THEN 11 + imm.dec[1] \div 8
  ELSE 8 * (2 - size) + 2 * (imm.dec[1] \div 8) + logical

(* recover_movi_mvni and recover_orr_bic *)
EncodeShiftedImm(x) ==
  LET logical == IF Lists(LogicName, x.code[1]) THEN 1 ELSE 0
      u    == IF logical = 1 THEN Place(LogicName, x.code[1]) ELSE Place(MovName, x.code[1])
      imm  == OpAt(x, 1)
      size == SizeAt(x, 0)
      amounts == CASE imm.kind = "ImmShiftedMsl" -> {8, 16}
                   [] size = 1 -> {0, 8}
                   [] OTHER -> {0, 8, 16, 24}
      shape == /\ HasArrAt(x, 0) /\ IsWholeAt(x, 0)
               /\ \/ imm.kind = "ImmShiftedMove" /\ size \in {1, 2}
                  \/ imm.kind = "ImmShiftedMsl" /\ size = 2 /\ logical = 0
                  \/ imm.kind = "ImmUnsigned" /\ size = 0 /\ logical = 0
      byte == imm.kind = "ImmUnsigned"
      field == IF byte THEN (IF u # 0 THEN BadImmediate ELSE Below(imm.val, 256))
               ELSE IF imm.dec[1] \notin amounts THEN BadImmediate ELSE Below(imm.val, 256)
  IN  With(shape, field,
           ModifiedWord(QAt(x, 0), u, IF byte THEN 14 ELSE CmodeOf(imm, size, logical), 0, field.v, RegAt(x, 0)))

(* encode_advsimd_movi64 finds the eight bits of a repeated number, and of
   zero. *)
EncodeBytes(x) ==
  LET imm == OpAt(x, 1)
  IN  With(IsRegAt(x, 0) /\ IsImmAt(x, 1), IF imm.dec = <<"bytes">> \/ imm.val = 0 THEN Ok(0) ELSE BadImmediate,
           ModifiedWord(IF x.code[1] = "MoviVec2D" THEN 1 ELSE 0, 1, 14, 0, imm.val, RegAt(x, 0)))

EncodeFmovVec(x) ==
  LET name == x.code[1]
      f    == VfpField(ValAt(x, 1))
      size == IF name = "FmovVecImmH" THEN 1 ELSE 2
      wide == name = "FmovVecImmD2"
  IN  With(/\ IsRegAt(x, 0) /\ IsFpImmAt(x, 1)
           /\ ~wide => HasArrAt(x, 0) /\ IsWholeAt(x, 0) /\ SizeAt(x, 0) = size, f,
           ModifiedWord(IF wide THEN 1 ELSE QAt(x, 0), IF wide THEN 1 ELSE 0, 15,
                        IF name = "FmovVecImmH" THEN 1 ELSE 0, f.v, RegAt(x, 0)))

(***************************************************************************)
(* Shifts by an immediate: immh:immb (word<22:16>) is the size, as its     *)
(* highest set bit, and the amount.                                        *)
(***************************************************************************)
(* <<name, word<29>, opcode, direction>> *)
ShiftRow ==
  {<<"Sshr", 0, 0, "right">>, <<"Ushr", 1, 0, "right">>, <<"Ssra", 0, 2, "right">>, <<"Usra", 1, 2, "right">>,
   <<"Srshr", 0, 4, "right">>, <<"Urshr", 1, 4, "right">>, <<"Srsra", 0, 6, "right">>,
   <<"Ursra", 1, 6, "right">>, <<"Sri", 1, 8, "right">>, <<"Shl", 0, 10, "left">>, <<"Sli", 1, 10, "left">>,
   <<"Sqshlu", 1, 12, "any">>, <<"Sqshl", 0, 14, "any">>, <<"Uqshl", 1, 14, "any">>,
   <<"Shrn", 0, 16, "narrow">>, <<"Rshrn", 0, 17, "narrow">>, <<"Sqshrn", 0, 18, "narrow">>,
   <<"Sqrshrn", 0, 19, "narrow">>, <<"Sqshrun", 1, 16, "narrow">>, <<"Sqrshrun", 1, 17, "narrow">>,
   <<"Uqshrn", 1, 18, "narrow">>, <<"Uqrshrn", 1, 19, "narrow">>,
   <<"Sshll", 0, 20, "long">>, <<"Ushll", 1, 20, "long">>,
   <<"Scvtf", 0, 28, "fixed">>, <<"Ucvtf", 1, 28, "fixed">>, <<"Fcvtzs", 0, 31, "fixed">>,
   <<"Fcvtzu", 1, 31, "fixed">>}
XtlName == <<"Sxtl", "Uxtl">>
Leftward == {"left", "any", "long"}

(* The form: a scalar, a vector, or the upper half of one. *)
ShiftCode(name, form) == <<name, "Shift", form>>
FormOf(dir, scalar, q) ==
  IF scalar = 1 THEN "Scalar" ELSE IF dir \in {"narrow", "long"} /\ q = 1 THEN "Vec2" ELSE "Vec"
ShiftMnemonic(c) == IF c[3] = "Vec2" THEN <<c[1], "2">> ELSE <<c[1]>>

ImmhImmb(w) == 64 * (w.size % 2) + 32 * w.b21 + w.rm
SizeOfField(field) == CHOOSE s \in 0..3 : 8 * 2^s <= field /\ field < 16 * 2^s
Amount(dir, size, field) == IF dir \in Leftward THEN field - 8 * 2^size ELSE 16 * 2^size - field

(* left_immhb, whose u32 addition is not checked first, right_immhb and
   narrow_immhb *)
FieldOfAmount(dir, size, n) ==
  LET sum   == 8 * 2^size + n
      field == IF dir \in Leftward THEN sum % U32Mod ELSE 16 * 2^size - n
  IN  IF dir \in Leftward /\ sum >= U32Mod /\ OverflowChecks THEN Err("Panic")
      ELSE IF field \in 8 * 2^size .. 16 * 2^size - 1 THEN Ok(field) ELSE BadImmediate

(* The sizes a scalar form has; a vector form has the element sizes that
   fill its vectors. *)
ScalarSizes(name, dir) ==
  CASE dir \in {"right", "left"} -> {3}
    [] dir = "any"    -> 0..3
    [] dir = "narrow" -> IF name \in {"Shrn", "Rshrn"} THEN {} ELSE 0..2
    [] dir = "fixed"  -> 1..3
    [] OTHER          -> {}
VectorSizes(dir, q) ==
  CASE dir \in {"narrow", "long"} -> 0..2
    [] dir = "fixed" -> IF q = 1 THEN 1..3 ELSE 1..2
    [] OTHER         -> IF q = 1 THEN 0..3 ELSE 0..2

DecodeShift(w, ip) ==
  LET scalar == ScalarOf(w)
      q    == QOf(w)
      rows == {r \in ShiftRow : r[2] = UOf(w) /\ r[3] = w.op \div 2}
      r    == One(rows)
      dir  == r[4]
      s    == SizeOfField(ImmhImmb(w))
      sizes == IF scalar = 1 THEN ScalarSizes(r[1], dir) ELSE VectorSizes(dir, q)
      n    == Amount(dir, s, ImmhImmb(w))
      name == IF dir = "long" /\ n = 0 THEN Entry(XtlName, UOf(w)) ELSE r[1]
      c    == ShiftCode(name, FormOf(dir, scalar, q))
      same == IF scalar = 1 THEN SReg(s, w.rd) ELSE VReg(Arr(s, q), w.rd)
      from == IF scalar = 1 THEN SReg(s, w.rn) ELSE VReg(Arr(s, q), w.rn)
      double(n2) == IF scalar = 1 THEN SReg(s + 1, n2) ELSE VReg(Arr(s + 1, 1), n2)
  IN  IF rows = {} THEN NewInvalid(w, ip)
      ELSE IF s \notin sizes THEN NewInvalid(w, ip)
      ELSE Built(w, ip, c, ShiftMnemonic(c),
                 (CASE dir = "narrow" -> <<same, double(w.rn)>>
                    [] dir = "long"   -> <<double(w.rd), from>>
                    [] OTHER          -> <<same, from>>)
                 \o (IF name = r[1] THEN <<ImmOp(n)>> ELSE <<>>))

(* The operand that gives the size: the source of a long shift. *)
EncodeShift(x) ==
  LET name == x.code[1]
      form == x.code[3]
      r    == IF Lists(XtlName, name) THEN CHOOSE r \in ShiftRow : r[4] = "long" /\ r[2] = Place(XtlName, name)
              ELSE CHOOSE r \in ShiftRow : r[1] = name
      dir  == r[4]
      sized == IF dir = "long" THEN 1 ELSE 0
      scalar == form = "Scalar"
      size == IF scalar THEN LogAt(x, sized) ELSE SizeAt(x, sized)
      q    == CASE scalar -> 1
                [] form = "Vec2" -> 1
                [] OTHER -> IF dir \in {"narrow", "long"} THEN 0 ELSE QAt(x, 0)
      sizes == IF scalar THEN ScalarSizes(name, dir) ELSE VectorSizes(dir, q)
      shape == /\ IF scalar THEN IsScalarAt(x, sized) ELSE HasArrAt(x, sized) /\ IsWholeAt(x, sized)
               /\ size \in sizes
               /\ IsRegAt(x, 0) /\ IsRegAt(x, 1)
               /\ name = r[1] => IsImmAt(x, 2)
      field == FieldOfAmount(dir, size, IF name = r[1] THEN U32At(x, 2) ELSE 0)
  IN  With(shape, field,
           Pack(Top(0, q, r[2], IF scalar THEN 1 ELSE 0), 1, field.v \div 64, (field.v \div 32) % 2,
                field.v % 32, 2 * r[3] + 1, RegAt(x, 1), RegAt(x, 0)))

(***************************************************************************)
(* Dispatch                                                                *)
(***************************************************************************)
DecodeSimdData(w, ip) ==
  LET low == w.op % 4
      zero == w.size = 0 /\ w.b21 = 0
  IN  CASE MOf(w) = 1 -> NewInvalid(w, ip)
        [] MOf(w) = 0 /\ w.b24 = 1 ->
             IF w.size > 1 \/ w.op % 2 = 0 THEN NewInvalid(w, ip)
             ELSE IF ImmhImmb(w) >= 8 THEN DecodeShift(w, ip)
             ELSE IF ScalarOf(w) = 0 THEN DecodeModified(w, ip) ELSE NewInvalid(w, ip)
        [] MOf(w) = 0 /\ w.b24 = 0 ->
             CASE w.op >= 32 -> NewInvalid(w, ip)
               [] ScalarOf(w) = 1 ->
                    IF QOf(w) = 1 /\ zero /\ w.op % 2 = 1 THEN DecodeDupScalar(w, ip) ELSE NewInvalid(w, ip)
               [] OTHER ->
                    IF w.op % 2 = 1 THEN (IF zero THEN DecodeCopy(w, ip) ELSE NewInvalid(w, ip))
                    ELSE IF UOf(w) = 1 THEN (IF zero THEN DecodeExt(w, ip) ELSE NewInvalid(w, ip))
                    ELSE IF low = 2 /\ w.b21 = 0 THEN DecodePermute(w, ip)
                    ELSE IF low = 0 /\ zero THEN DecodeTable(w, ip)
                    ELSE IF low = 0 /\ w.b21 = 0 THEN DecodeLuti(w, ip)
                    ELSE NewInvalid(w, ip)

IsSimdData(c) == Len(c) > 1 /\ c[2] \in {"Copy", "Move", "Luti", "Imm", "Shift"}

EncodeSimdData(x) ==
  LET family == x.code[2]
      name   == x.code[1]
  IN  CASE family = "Copy"  -> EncodeCopy(x)
        [] family = "Luti"  -> EncodeLuti(x)
        [] family = "Shift" -> EncodeShift(x)
        [] family = "Imm"   ->
             IF name \in {"MoviScalarD", "MoviVec2D"} THEN EncodeBytes(x)
             ELSE IF name \in {"FmovVecImmS", "FmovVecImmH", "FmovVecImmD2"} THEN EncodeFmovVec(x)
             ELSE EncodeShiftedImm(x)
        [] family = "Move" /\ name = "Ext" -> EncodeExt(x)
        [] family = "Move" /\ Lists(TableName, name) -> EncodeTable(x)
        [] OTHER -> EncodePermute(x)

SimdDataFeature(c) ==
  CASE c[2] = "Luti" -> "Lut"
    [] c = ImmCode("FmovVecImmH") -> "Fp16"
    [] OTHER -> "Base"
=============================================================================
