------------------------------ MODULE ScalarFp ------------------------------
(***************************************************************************)
(* Scalar floating point (src/decode/simd_fp/scalar_fp.rs,                 *)
(* src/encode/simd_fp_scalar.rs): the words with word<28> = 1 and          *)
(* word<30> = 0.  ftype (word<23:22>) is the precision.                    *)
(***************************************************************************)
EXTENDS SimdWord

S == 0
D == 1
H == 3

(* Prec::from_ftype, needs_fp16 and the views: ftype to log bytes. *)
Log(p) == CASE p = S -> 2 [] p = D -> 3 [] p = H -> 1
IsPrec_Ungated(p) == p # 2                   \* a faulty variant
IsPrec(p) == p # 2 /\ (p = H => Gated("Fp16"))
Fp(p, n) == SReg(Log(p), n)
IsFpAt(x, n, p) == IsViewAt(x, n, Log(p))
HasPrecAt(x, n) == IsScalarAt(x, n) /\ LogAt(x, n) \in 1..3
PrecAt(x, n) == CHOOSE p \in {S, D, H} : Log(p) = LogAt(x, n)

(* Codes: the operation and the precision it is typed by. *)
PrecName == <<"S", "D", "?", "H">>
FpCode(name, p) == <<name, Entry(PrecName, p)>>
PrecOf(c) == Place(PrecName, c[2])

(***************************************************************************)
(* Conversions: rmode:opcode is word<20:16>                                *)
(***************************************************************************)
Typed == {<<"Scvtf", 2>>, <<"Ucvtf", 3>>, <<"Fcvtzs", 24>>, <<"Fcvtzu", 25>>}
Untyped == {<<"Fcvtns", 0>>, <<"Fcvtnu", 1>>, <<"Fcvtas", 4>>, <<"Fcvtau", 5>>,
            <<"Fcvtps", 8>>, <<"Fcvtpu", 9>>, <<"Fcvtms", 16>>, <<"Fcvtmu", 17>>}
Fprcvt == {<<"Fcvtns", 10>>, <<"Fcvtnu", 11>>, <<"Fcvtps", 18>>, <<"Fcvtpu", 19>>,
           <<"Fcvtms", 20>>, <<"Fcvtmu", 21>>, <<"Fcvtzs", 22>>, <<"Fcvtzu", 23>>,
           <<"Fcvtas", 26>>, <<"Fcvtau", 27>>, <<"Scvtf", 28>>, <<"Ucvtf", 29>>}
Named(table, rm) == {r \in table : r[2] = rm}
FieldOf(table, name) == (CHOOSE r \in table : r[1] = name)[2]
ToFp(name) == name \in {"Scvtf", "Ucvtf"}

ConvertCode(name, form, p, sf) == <<name, form, Entry(PrecName, p), Suffix(sf)>>
CodePrec(c) == Place(PrecName, c[3])
CodeSf(c) == IF c[4] = "64" THEN 1 ELSE 0

(* The floating-point operand first when converting to floating point. *)
Ordered(name, fp, other) == IF ToFp(name) THEN <<fp, other>> ELSE <<other, fp>>
FpSlot(name) == IF ToFp(name) THEN 0 ELSE 1
ToFpReg(w, name) == IF ToFp(name) THEN w.rd ELSE w.rn
OtherReg(w, name) == IF ToFp(name) THEN w.rn ELSE w.rd

(* decode_float2fix: #fbits = 64 - scale, at most 32 in the 32-bit forms. *)
DecodeFixed(w, ip) ==
  LET rows == Named(Typed, w.rm)
      name == One(rows)[1]
  IN  IF \/ UOf(w) # 0 \/ ~IsPrec(w.size) \/ rows = {}
         \/ MOf(w) = 0 /\ w.op < 32
      THEN NewInvalid(w, ip)
      ELSE Plain(w, ip, ConvertCode(name, "Fixed", w.size, MOf(w)),
                 Ordered(name, Fp(w.size, ToFpReg(w, name)), Gp(MOf(w), OtherReg(w, name)))
                   \o <<ImmOp(64 - w.op)>>)

(* fmov_general: <<ftype, sf>> *)
MovePair == {<<S, 0>>, <<D, 1>>, <<H, 0>>, <<H, 1>>}
MoveCode(p, sf, toGp) == <<"Fmov", IF toGp THEN "ToGp" ELSE "FromGp", Entry(PrecName, p), Suffix(sf)>>
TopCode(toGp) == <<"Fmov", IF toGp THEN "TopToGp" ELSE "TopFromGp">>

(* decode_fprcvt: neither width is general-purpose, and they differ. *)
DecodeFprcvt(w, ip) ==
  LET name == One(Named(Fprcvt, w.rm))[1]
      holder == IF MOf(w) = 1 THEN D ELSE S
  IN  IF ~Gated("Fprcvt") \/ w.size = holder THEN NewInvalid(w, ip)
      ELSE Plain(w, ip, <<name, "Fprcvt">>,
                 Ordered(name, Fp(w.size, ToFpReg(w, name)), Fp(holder, OtherReg(w, name))))

DecodeConvert(w, ip) ==
  LET sf == MOf(w)
      p  == w.size
      top == sf = 1 /\ p = 2 /\ w.rm \div 8 = 1
      typed == Named(Typed, w.rm)
      plain == Named(Untyped, w.rm)
      name  == One(typed \cup plain)[1]
  IN  CASE UOf(w) # 0 -> NewInvalid(w, ip)
        [] UOf(w) = 0 /\ top ->
             IF w.rm = 14 THEN Plain(w, ip, TopCode(TRUE), <<Gp(1, w.rd), VLane(Arr(3, 1), w.rn, 1)>>)
             ELSE IF w.rm = 15 THEN Plain(w, ip, TopCode(FALSE), <<VLane(Arr(3, 1), w.rd, 1), Gp(1, w.rn)>>)
             ELSE NewInvalid(w, ip)
        [] UOf(w) = 0 /\ sf = 0 /\ p = D /\ w.rm = 30 ->
             Plain(w, ip, <<"Fjcvtzs">>, <<Gp(0, w.rd), Fp(D, w.rn)>>)
        [] OTHER ->
             IF ~IsPrec(p) THEN NewInvalid(w, ip)
             ELSE IF Named(Fprcvt, w.rm) # {} THEN DecodeFprcvt(w, ip)
             ELSE IF w.rm \in {6, 7}
             THEN IF <<p, sf>> \notin MovePair THEN NewInvalid(w, ip)
                  ELSE Plain(w, ip, MoveCode(p, sf, w.rm = 6),
                             IF w.rm = 6 THEN <<Gp(sf, w.rd), Fp(p, w.rn)>>
                             ELSE <<Fp(p, w.rd), Gp(sf, w.rn)>>)
             ELSE IF typed \cup plain = {} THEN NewInvalid(w, ip)
             ELSE Plain(w, ip, IF typed = {} THEN <<name, "Scalar">> ELSE ConvertCode(name, "Int", p, sf),
                        Ordered(name, Fp(p, ToFpReg(w, name)), Gp(sf, OtherReg(w, name))))

(* fp_base: M = 0, S = 0, word<24> = 0, word<21> = 1, with sf on top. *)
FpWord(sf, p, rm, op, rn, rd) == Pack(Top(sf, 0, 0, 1), 0, p, 1, rm, op, rn, rd)

EncodeFixed(x) ==
  LET name  == x.code[1]
      sf    == CodeSf(x.code)
      scale == 64 - ValAt(x, 2)
      fp    == FpSlot(name)
  IN  IF ~IsImmAt(x, 2) THEN BadOperand
      ELSE IF scale \notin 0..63 \/ (sf = 0 /\ scale < 32) THEN BadImmediate
      ELSE With(IsFpAt(x, fp, CodePrec(x.code)) /\ IsRegAt(x, 1 - fp), Ok(0),
                [FpWord(sf, CodePrec(x.code), FieldOf(Typed, name), scale, RegAt(x, 1), RegAt(x, 0))
                   EXCEPT !.b21 = 0])

(* The typed Codes carry both widths; the others take them from the operands,
   the general-purpose one by its class. *)
IsGpAt(x, n) == IsRegAt(x, n) /\ BankOf(OpAt(x, n).reg) \in {"W", "X"}
EncodeConvert(x) ==
  LET name  == x.code[1]
      typed == x.code[2] = "Int"
      fp    == FpSlot(name)
      shape == IF typed THEN IsFpAt(x, fp, CodePrec(x.code)) /\ IsRegAt(x, 1 - fp)
               ELSE IsGpAt(x, 0) /\ HasPrecAt(x, 1)
  IN  With(shape, Ok(0),
           IF typed
           THEN FpWord(CodeSf(x.code), CodePrec(x.code), FieldOf(Typed, name), 0, RegAt(x, 1), RegAt(x, 0))
           ELSE FpWord(IF IsXAt(x, 0) THEN 1 ELSE 0, PrecAt(x, 1), FieldOf(Untyped, name), 0,
                       RegAt(x, 1), RegAt(x, 0)))

EncodeFprcvt(x) ==
  LET fp == FpSlot(x.code[1])
  IN  With(/\ HasPrecAt(x, 0) /\ HasPrecAt(x, 1)
           /\ PrecAt(x, 1 - fp) # H /\ PrecAt(x, fp) # PrecAt(x, 1 - fp), Ok(0),
           FpWord(IF PrecAt(x, 1 - fp) = D THEN 1 ELSE 0, PrecAt(x, fp), FieldOf(Fprcvt, x.code[1]), 0,
                  RegAt(x, 1), RegAt(x, 0)))

EncodeJs(x) ==
  With(IsRegAt(x, 0) /\ IsFpAt(x, 1, D), Ok(0), FpWord(0, D, 30, 0, RegAt(x, 1), RegAt(x, 0)))

EncodeMove(x) ==
  LET toGp == x.code[2] = "ToGp"
      fp   == IF toGp THEN 1 ELSE 0
  IN  With(IsFpAt(x, fp, CodePrec(x.code)) /\ IsRegAt(x, 1 - fp), Ok(0),
           FpWord(CodeSf(x.code), CodePrec(x.code), 7 - fp, 0, RegAt(x, 1), RegAt(x, 0)))

EncodeTop(x) ==
  With(IsRegAt(x, 0) /\ IsRegAt(x, 1), Ok(0),
       FpWord(1, 2, IF x.code = TopCode(TRUE) THEN 14 ELSE 15, 0, RegAt(x, 1), RegAt(x, 0)))

(***************************************************************************)
(* Data processing                                                         *)
(***************************************************************************)
OneName == {<<0, "Fmov">>, <<1, "Fabs">>, <<2, "Fneg">>, <<3, "Fsqrt">>, <<8, "Frintn">>,
            <<9, "Frintp">>, <<10, "Frintm">>, <<11, "Frintz">>, <<12, "Frinta">>,
            <<14, "Frintx">>, <<15, "Frinti">>}
RoundName == {<<16, "Frint32z">>, <<17, "Frint32x">>, <<18, "Frint64z">>, <<19, "Frint64x">>}
TwoName == <<"Fmul", "Fdiv", "Fadd", "Fsub", "Fmax", "Fmin", "Fmaxnm", "Fminnm", "Fnmul">>
ThreeName == <<"Fmadd", "Fmsub", "Fnmadd", "Fnmsub">>
ChangeCode(src, dst) == <<"Fcvt", Entry(PrecName, src), Entry(PrecName, dst)>>

(* The M and S bits are clear and the precision is accepted. *)
IsFloat(w) == MOf(w) = 0 /\ UOf(w) = 0 /\ IsPrec(w.size)

(* word<20:15>; the low bits of a change of precision are the destination. *)
Opcode1(w) == 2 * w.rm + w.op \div 32
DecodeOne(w, ip) ==
  LET p == w.size
      o == Opcode1(w)
      rows == {r \in OneName \cup RoundName : r[1] = o}
      round == o \in 16..19
  IN  CASE ~IsFloat(w) -> NewInvalid(w, ip)
        [] IsFloat(w) /\ o = 6 ->
             IF p # D \/ ~Gated("Bf16") THEN NewInvalid(w, ip)
             ELSE Plain(w, ip, <<"Bfcvt">>, <<Fp(H, w.rd), Fp(S, w.rn)>>)
        [] IsFloat(w) /\ o \in {4, 5, 7} ->
             IF o - 4 = p THEN NewInvalid(w, ip)
             ELSE Plain(w, ip, ChangeCode(p, o - 4), <<Fp(o - 4, w.rd), Fp(p, w.rn)>>)
        [] OTHER ->
             IF ~IsFloat(w) \/ rows = {} \/ (round /\ (p = H \/ ~Gated("Frintts")))
             THEN NewInvalid(w, ip)
             ELSE Plain(w, ip, FpCode(One(rows)[2], p), <<Fp(p, w.rd), Fp(p, w.rn)>>)

DecodeTwo(w, ip) ==
  IF ~IsFloat(w) \/ w.op \div 4 > 8 THEN NewInvalid(w, ip)
  ELSE Plain(w, ip, FpCode(Entry(TwoName, w.op \div 4), w.size),
             <<Fp(w.size, w.rd), Fp(w.size, w.rn), Fp(w.size, w.rm)>>)

DecodeThree(w, ip) ==
  IF ~IsFloat(w) THEN NewInvalid(w, ip)
  ELSE Plain(w, ip, FpCode(Entry(ThreeName, 2 * w.b21 + w.op \div 32), w.size),
             <<Fp(w.size, w.rd), Fp(w.size, w.rn), Fp(w.size, w.rm), Fp(w.size, w.op % 32)>>)

(* opcode2 is in word<4:3>; Rm is ignored next to #0.0. *)
CmpName == <<"Fcmp", "Fcmpe">>
CcmpName == <<"Fccmp", "Fccmpe">>
DecodeCompare(w, ip) ==
  IF ~IsFloat(w) \/ w.op \div 16 # 0 \/ w.rd % 8 # 0 THEN NewInvalid(w, ip)
  ELSE Plain(w, ip, FpCode(Entry(CmpName, w.rd \div 16), w.size),
             <<Fp(w.size, w.rn), IF (w.rd \div 8) % 2 = 1 THEN FpOp(VfpZero) ELSE Fp(w.size, w.rm)>>)

DecodeCondCompare(w, ip) ==
  IF ~IsFloat(w) THEN NewInvalid(w, ip)
  ELSE Plain(w, ip, FpCode(Entry(CcmpName, w.rd \div 16), w.size),
             <<Fp(w.size, w.rn), Fp(w.size, w.rm), ImmOp(w.rd % 16), CondOp(w.op \div 4)>>)

DecodeSelect(w, ip) ==
  IF ~IsFloat(w) THEN NewInvalid(w, ip)
  ELSE Plain(w, ip, FpCode("Fcsel", w.size),
             <<Fp(w.size, w.rd), Fp(w.size, w.rn), Fp(w.size, w.rm), CondOp(w.op \div 4)>>)

(* imm8 is word<20:13>. *)
DecodeFpImm(w, ip) ==
  IF ~IsFloat(w) \/ w.rn # 0 THEN NewInvalid(w, ip)
  ELSE Plain(w, ip, <<"Fmov", Entry(PrecName, w.size), "Imm">>,
             <<Fp(w.size, w.rd), FpOp(VfpValue(8 * w.rm + w.op \div 8))>>)

AllFpAt(x, n, p) == \A i \in 0..(n - 1) : IsFpAt(x, i, p)

EncodeOne(x) ==
  LET o == (CHOOSE r \in OneName \cup RoundName : r[2] = x.code[1])[1]
      p == PrecOf(x.code)
  IN  With(AllFpAt(x, 2, p), Ok(0), FpWord(0, p, o \div 2, 32 * (o % 2) + 16, RegAt(x, 1), RegAt(x, 0)))

EncodeChange(x) ==
  LET src == Place(PrecName, x.code[2])
      dst == Place(PrecName, x.code[3])
      o   == 4 + dst
  IN  With(IsFpAt(x, 0, dst) /\ IsFpAt(x, 1, src), Ok(0),
           FpWord(0, src, o \div 2, 32 * (o % 2) + 16, RegAt(x, 1), RegAt(x, 0)))

EncodeBfcvt(x) ==
  With(IsFpAt(x, 0, H) /\ IsFpAt(x, 1, S), Ok(0), FpWord(0, D, 3, 16, RegAt(x, 1), RegAt(x, 0)))

EncodeTwo(x) ==
  LET p == PrecOf(x.code)
  IN  With(AllFpAt(x, 3, p), Ok(0),
           FpWord(0, p, RegAt(x, 2), 4 * Place(TwoName, x.code[1]) + 2, RegAt(x, 1), RegAt(x, 0)))

EncodeThree(x) ==
  LET p == PrecOf(x.code)
      f == Place(ThreeName, x.code[1])
  IN  With(AllFpAt(x, 4, p), Ok(0),
           Pack(1, 1, p, f \div 2, RegAt(x, 2), 32 * (f % 2) + RegAt(x, 3), RegAt(x, 1), RegAt(x, 0)))

(* Whatever floating-point immediate operand 1 holds stands for #0.0. *)
EncodeCompare(x) ==
  LET p == PrecOf(x.code)
      zero == IsFpImmAt(x, 1)
  IN  With(IsFpAt(x, 0, p) /\ (zero \/ IsFpAt(x, 1, p)), Ok(0),
           FpWord(0, p, IF zero THEN 0 ELSE RegAt(x, 1), 8, RegAt(x, 0),
                  16 * Place(CmpName, x.code[1]) + (IF zero THEN 8 ELSE 0)))

EncodeCondCompare(x) ==
  LET p == PrecOf(x.code)
  IN  With(AllFpAt(x, 2, p) /\ IsImmAt(x, 2) /\ IsCondAt(x, 3), Below(U32At(x, 2), 16),
           FpWord(0, p, RegAt(x, 1), 4 * ValAt(x, 3) + 1, RegAt(x, 0),
                  16 * Place(CcmpName, x.code[1]) + (ValAt(x, 2) % 16)))

EncodeSelect(x) ==
  LET p == PrecOf(x.code)
  IN  With(AllFpAt(x, 3, p) /\ IsCondAt(x, 3), Ok(0),
           FpWord(0, p, RegAt(x, 2), 4 * ValAt(x, 3) + 3, RegAt(x, 1), RegAt(x, 0)))

EncodeFpImm(x) ==
  LET p == PrecOf(x.code)
      f == VfpField(ValAt(x, 1))
  IN  With(IsFpAt(x, 0, p) /\ IsFpImmAt(x, 1), f,
           FpWord(0, p, f.v \div 8, 8 * (f.v % 8) + 4, 0, RegAt(x, 0)))

(***************************************************************************)
(* Dispatch                                                                *)
(***************************************************************************)
IsScalarFp(w) == ScalarOf(w) = 1 /\ QOf(w) = 0

DecodeScalarFp(w, ip) ==
  CASE w.b24 = 1 -> DecodeThree(w, ip)
    [] w.b24 = 0 /\ w.b21 = 0 -> DecodeFixed(w, ip)
    [] OTHER ->
         CASE w.op = 0      -> DecodeConvert(w, ip)
           [] w.op % 32 = 16 -> DecodeOne(w, ip)
           [] w.op % 16 = 8  -> DecodeCompare(w, ip)
           [] w.op % 8 = 4   -> DecodeFpImm(w, ip)
           [] w.op % 4 = 1   -> DecodeCondCompare(w, ip)
           [] w.op % 4 = 2   -> DecodeTwo(w, ip)
           [] w.op % 4 = 3   -> DecodeSelect(w, ip)
           [] OTHER         -> NewInvalid(w, ip)

(* The encoder a Code belongs to, "none" when it is not scalar FP. *)
Convertible == {r[1] : r \in Typed \cup Untyped}
ScalarFamily(c) ==
  LET form == IF Len(c) > 1 THEN c[2] ELSE ""
      isPrec == Lists(PrecName, form) /\ form # "?"
  IN  CASE c = <<"Fjcvtzs">> -> "js"
        [] c = <<"Bfcvt">> -> "bfcvt"
        [] c[1] \in Convertible /\ form \in {"Fixed", "Fprcvt"} -> form
        [] c[1] \in Convertible /\ form \in {"Int", "Scalar"} -> "convert"
        [] c[1] = "Fmov" /\ form \in {"ToGp", "FromGp"} -> "move"
        [] c[1] = "Fmov" /\ form \in {"TopToGp", "TopFromGp"} -> "top"
        [] isPrec /\ c[1] = "Fcvt" -> "change"
        [] isPrec /\ c[1] = "Fmov" /\ Len(c) = 3 -> "imm"
        [] isPrec /\ Len(c) = 2 /\ \E r \in OneName \cup RoundName : r[2] = c[1] -> "one"
        [] isPrec /\ Lists(TwoName, c[1]) -> "two"
        [] isPrec /\ Lists(ThreeName, c[1]) -> "three"
        [] isPrec /\ Lists(CmpName, c[1]) -> "compare"
        [] isPrec /\ Lists(CcmpName, c[1]) -> "ccmp"
        [] isPrec /\ c[1] = "Fcsel" -> "select"
        [] OTHER -> "none"

EncodeScalarFp(x) ==
  CASE ScalarFamily(x.code) = "Fixed"   -> EncodeFixed(x)
    [] ScalarFamily(x.code) = "Fprcvt"  -> EncodeFprcvt(x)
    [] ScalarFamily(x.code) = "convert" -> EncodeConvert(x)
    [] ScalarFamily(x.code) = "js"      -> EncodeJs(x)
    [] ScalarFamily(x.code) = "bfcvt"   -> EncodeBfcvt(x)
    [] ScalarFamily(x.code) = "move"    -> EncodeMove(x)
    [] ScalarFamily(x.code) = "top"     -> EncodeTop(x)
    [] ScalarFamily(x.code) = "change"  -> EncodeChange(x)
    [] ScalarFamily(x.code) = "imm"     -> EncodeFpImm(x)
    [] ScalarFamily(x.code) = "one"     -> EncodeOne(x)
    [] ScalarFamily(x.code) = "two"     -> EncodeTwo(x)
    [] ScalarFamily(x.code) = "three"   -> EncodeThree(x)
    [] ScalarFamily(x.code) = "compare" -> EncodeCompare(x)
    [] ScalarFamily(x.code) = "ccmp"    -> EncodeCondCompare(x)
    [] ScalarFamily(x.code) = "select"  -> EncodeSelect(x)

(* Code::feature: the precision is the only gate of most. *)
ScalarFeature(c) ==
  LET family == ScalarFamily(c)
      half   == IF family \in {"Fixed", "convert", "move"} THEN Len(c) = 4 /\ c[3] = "H"
                ELSE family \notin {"change", "none"} /\ Len(c) > 1 /\ c[2] = "H"
  IN  CASE family = "Fprcvt" -> "Fprcvt"
        [] family = "bfcvt" -> "Bf16"
        [] \E r \in RoundName : r[2] = c[1] -> "Frintts"
        [] OTHER -> IF half THEN "Fp16" ELSE "Base"
=============================================================================
