------------------------------ MODULE SimdMisc ------------------------------
(***************************************************************************)
(* Advanced SIMD arithmetic between element sizes and on fewer registers   *)
(* (src/decode/simd_fp/simd_arith.rs, src/encode/simd_fp_arith.rs): the    *)
(* widening and narrowing three-different class, the two-register          *)
(* miscellany, reductions across lanes, scalar pairs, arithmetic by an     *)
(* element of the last register, and the dispatch of all the arithmetic    *)
(* words.  An operand with a lane is what tells the forms by element from  *)
(* the vector forms of the same Codes.                                     *)
(***************************************************************************)
EXTENDS SimdSame

(***************************************************************************)
(* Tables                                                                  *)
(***************************************************************************)
Different ==
  << <<"Saddl", "Saddw", "Ssubl", "Ssubw", "Addhn", "Sabal", "Subhn", "Sabdl",
       "Smlal", "Sqdmlal", "Smlsl", "Sqdmlsl", "Smull", "Sqdmull", "Pmull">>,
     <<"Uaddl", "Uaddw", "Usubl", "Usubw", "Raddhn", "Uabal", "Rsubhn", "Uabdl",
       "Umlal", "", "Umlsl", "", "Umull">> >>
WideForm == {"Saddw", "Ssubw", "Uaddw", "Usubw"}
NarrowForm == {"Addhn", "Subhn", "Raddhn", "Rsubhn"}
Saturating == {"Sqdmlal", "Sqdmlsl", "Sqdmull"}

(* Two registers: name, word<29>, opcode, shape. *)
IntMisc ==
  {<<"Rev64", 0, 0, "same">>, <<"Rev16", 0, 1, "same">>, <<"Saddlp", 0, 2, "long">>, <<"Suqadd", 0, 3, "same">>,
   <<"Cls", 0, 4, "same">>, <<"Cnt", 0, 5, "same">>, <<"Sadalp", 0, 6, "long">>, <<"Sqabs", 0, 7, "same">>,
   <<"Cmgt", 0, 8, "zero">>, <<"Cmeq", 0, 9, "zero">>, <<"Cmlt", 0, 10, "zero">>, <<"Abs", 0, 11, "same">>,
   <<"Xtn", 0, 18, "narrow">>, <<"Sqxtn", 0, 20, "narrow">>,
   <<"Rev32", 1, 0, "same">>, <<"Uaddlp", 1, 2, "long">>, <<"Usqadd", 1, 3, "same">>, <<"Clz", 1, 4, "same">>,
   <<"Mvn", 1, 5, "bytes">>, <<"Rbit", 1, 5, "bytes">>, <<"Uadalp", 1, 6, "long">>, <<"Sqneg", 1, 7, "same">>,
   <<"Cmge", 1, 8, "zero">>, <<"Cmle", 1, 9, "zero">>, <<"Neg", 1, 11, "same">>,
   <<"Sqxtun", 1, 18, "narrow">>, <<"Shll", 1, 19, "shll">>, <<"Uqxtn", 1, 20, "narrow">>}

(* Floating point, by word<23>, word<29> and the opcode, 12..15 or 24..31. *)
FpMisc ==
  << << <<"", "", "", "", "Frintn", "Frintm", "Fcvtns", "Fcvtms", "Fcvtas", "Scvtf", "Frint32z", "Frint64z">>,
        <<"", "", "", "", "Frinta", "Frintx", "Fcvtnu", "Fcvtmu", "Fcvtau", "Ucvtf", "Frint32x", "Frint64x">> >>,
     << <<"Fcmgt", "Fcmeq", "Fcmlt", "Fabs", "Frintp", "Frintz", "Fcvtps", "Fcvtzs", "Urecpe", "Frecpe", "", "Frecpx">>,
        <<"Fcmge", "Fcmle", "", "Fneg", "", "Frinti", "Fcvtpu", "Fcvtzu", "Ursqrte", "Frsqrte", "", "Fsqrt">> >> >>
FpMiscOpcode == (12..15) \cup (24..31)
FpMiscIndex(opcode) == IF opcode < 16 THEN opcode - 11 ELSE opcode - 19
FpZeroCompare == {"Fcmgt", "Fcmge", "Fcmeq", "Fcmle", "Fcmlt"}

Fp8Widen == <<"F1cvtl", "F2cvtl", "Bf1cvtl", "Bf2cvtl">>
FpNarrow == {"Fcvtl", "Fcvtn", "Fcvtxn", "Bfcvtn"}

(* Across lanes: name, word<29>, opcode. *)
Across == {<<"Saddlv", 0, 3>>, <<"Smaxv", 0, 10>>, <<"Sminv", 0, 26>>, <<"Addv", 0, 27>>,
           <<"Uaddlv", 1, 3>>, <<"Umaxv", 1, 10>>, <<"Uminv", 1, 26>>}
(* Opcode, word<23>. *)
FpAcross == {<<"Fmaxnmv", 12, 0>>, <<"Fminnmv", 12, 1>>, <<"Fmaxv", 15, 0>>, <<"Fminv", 15, 1>>}
FpPair   == {<<"Faddp", 13, 0>>, <<"Fmaxnmp", 12, 0>>, <<"Fminnmp", 12, 1>>, <<"Fmaxp", 15, 0>>, <<"Fminp", 15, 1>>}

(***************************************************************************)
(* Three different                                                         *)
(***************************************************************************)
DifferentSizes(name, scalar) ==
  CASE scalar = 1 -> IF name \in Saturating THEN {1, 2} ELSE {}
    [] scalar = 0 -> CASE name \in Saturating -> {1, 2}
                       [] name = "Pmull" -> {0, 3}
                       [] OTHER -> 0..2

DecodeDifferent(w, ip) ==
  LET name   == RowAt(Different, UOf(w), w.op \div 4)
      s      == w.size
      narrow == View(ScalarOf(w), s, QOf(w))
      wide   == IF ScalarOf(w) = 1 THEN <<s + 1>> ELSE Arr(s + 1, 1)
      c      == Vec2Code(name, IF ScalarOf(w) = 1 THEN 0 ELSE QOf(w))
      views  == CASE name \in WideForm   -> <<wide, wide, narrow>>
                  [] name \in NarrowForm -> <<narrow, wide, wide>>
                  [] OTHER               -> <<wide, narrow, narrow>>
  IN  IF name = "" \/ s \notin DifferentSizes(name, ScalarOf(w)) THEN NewInvalid(w, ip)
      ELSE Emit(w, ip, c, views, <<>>)

(* The operand with the narrow elements gives the size; PMULL alone also has
   64-bit ones. *)
EncodeDifferent(x) ==
  LET name == x.code[1]
      f    == One(Spot(Different, name))
      s    == IsScalarForm(x)
      sized == IF s = 1 THEN 1 ELSE IF name \in WideForm THEN 2 ELSE IF name \in NarrowForm THEN 0 ELSE 1
      sizes == IF s = 1 THEN 0..3 ELSE IF name = "Pmull" THEN {0, 3} ELSE 0..2
  IN  With(RegsAt(x) /\ HasView(x, sized) /\ ViewSize(x, sized) \in sizes, Ok(0),
           ArithWord(s, IF SecondHalf(x.code) THEN 1 ELSE 0, f[1], ViewSize(x, sized), 1, RegAt(x, 2), 4 * f[2], x))

(***************************************************************************)
(* Two registers                                                           *)
(***************************************************************************)
MiscWord(scalar, q, u, size, class, opcode, x) ==
  ArithWord(scalar, q, u, size, 1, class + opcode \div 16, 4 * (opcode % 16) + 2, x)
MiscOpcode(w) == 16 * (w.rm % 2) + w.op \div 4          \* word<16:12>

MiscSizes(name, shape, scalar, q) ==
  IF scalar = 1 THEN
    CASE name \in {"Abs", "Neg"} \/ shape = "zero" -> {3}
      [] name \in {"Suqadd", "Usqadd", "Sqabs", "Sqneg"} -> 0..3
      [] shape = "narrow" /\ name # "Xtn" -> 0..2
      [] OTHER -> {}
  ELSE
    CASE name \in {"Rev16", "Cnt", "Mvn"} -> {0}
      [] name = "Rbit" -> {1}
      [] name = "Rev32" -> {0, 1}
      [] shape \in {"long", "narrow", "shll"} \/ name \in {"Rev64", "Cls", "Clz"} -> 0..2
      [] OTHER -> (0..2) \cup (IF q = 1 THEN {3} ELSE {})

DecodeIntMisc(w, ip) ==
  LET s == w.size
      q == QOf(w)
      scalar == ScalarOf(w)
      rows == {r \in IntMisc : r[2] = UOf(w) /\ r[3] = MiscOpcode(w) /\ s \in MiscSizes(r[1], r[4], scalar, q)}
      r    == One(rows)
      same == View(scalar, s, q)
      c    == IF r[4] \in {"narrow", "shll"} THEN Vec2Code(r[1], IF scalar = 1 THEN 0 ELSE q) ELSE VecCode(r[1])
      views == CASE r[4] \in {"same", "zero"} -> <<same, same>>
                 [] r[4] = "bytes"  -> <<Arr(0, q), Arr(0, q)>>
                 [] r[4] = "long"   -> <<Arr(s + 1, q), same>>
                 [] r[4] = "shll"   -> <<Arr(s + 1, 1), same>>
                 [] r[4] = "narrow" -> <<same, IF scalar = 1 THEN <<s + 1>> ELSE Arr(s + 1, 1)>>
      extra == CASE r[4] = "zero" -> <<ImmOp(0)>>
                 [] r[4] = "shll" -> <<ImmOp(8 * 2^s)>>
                 [] OTHER -> <<>>
  IN  IF rows = {} THEN NewInvalid(w, ip) ELSE Emit(w, ip, c, views, extra)

EncodeIntMisc(x) ==
  LET r == CHOOSE r \in IntMisc : r[1] = x.code[1]
      shape == r[4]
      s     == IF shape \in {"same", "zero", "narrow"} THEN IsScalarForm(x) ELSE 0
      sized == IF shape \in {"long", "shll"} THEN 1 ELSE 0
      size  == IF shape = "bytes" THEN (IF r[1] = "Rbit" THEN 1 ELSE 0) ELSE ViewSize(x, sized)
      q     == IF shape \in {"narrow", "shll"} THEN (IF SecondHalf(x.code) THEN 1 ELSE 0) ELSE ViewQ(x, sized)
      ok    == /\ IsRegAt(x, 0) /\ IsRegAt(x, 1) /\ HasView(x, sized)
               /\ shape = "bytes" => SizeAt(x, 0) = 0
               /\ shape \in {"narrow", "shll"} /\ s = 0 => size < 3
  IN  With(ok, Ok(0), MiscWord(s, q, r[2], size, 0, r[3], x))

(* fp_two_reg_misc and fp16_two_reg_misc, at an element size *)
FpMiscName(w) ==
  IF MiscOpcode(w) \in FpMiscOpcode THEN FpMisc[w.size \div 2 + 1][UOf(w) + 1][FpMiscIndex(MiscOpcode(w))] ELSE ""
FpMiscScalar(name, a, opcode) ==
  name = "Frecpx" \/ opcode \in (IF a = 0 THEN 26..29 ELSE {12, 13, 14, 26, 27, 29})
NoHalf == {"Frint32z", "Frint64z", "Frint32x", "Frint64x", "Urecpe", "Ursqrte"}
DecodeFpMisc(w, ip, size) ==
  LET name == FpMiscName(w)
      view == View(ScalarOf(w), size, QOf(w))
      kept == IF ScalarOf(w) = 1 THEN FpMiscScalar(name, w.size \div 2, MiscOpcode(w)) ELSE name # "Frecpx"
  IN  IF name = "" \/ ~kept \/ view = <<3, 1>> THEN NewInvalid(w, ip)
      ELSE Emit(w, ip, VecCode(name), <<view, view>>, IF name \in FpZeroCompare THEN <<FpOp(VfpZero)>> ELSE <<>>)

(* fp_misc_widenarrow, and the scalar FCVTXN. *)
DecodeWidenNarrow(w, ip) ==
  LET q   == QOf(w)
      sz  == w.size % 2
      narrow == Arr(1 + sz, q)
      wide   == Arr(2 + sz, 1)
  IN  IF MiscOpcode(w) = 23 THEN
        IF UOf(w) = 1 THEN
             IF ~Gated("Fp8") THEN NewInvalid(w, ip)
             ELSE Emit(w, ip, Vec2Code(Entry(Fp8Widen, w.size), q), <<Arr(1, 1), Arr(0, q)>>, <<>>)
        ELSE IF w.size > 1 THEN NewInvalid(w, ip)
        ELSE Emit(w, ip, Vec2Code("Fcvtl", q), <<wide, narrow>>, <<>>)
      ELSE CASE UOf(w) = 0 /\ w.size < 2 -> Emit(w, ip, Vec2Code("Fcvtn", q), <<narrow, wide>>, <<>>)
             [] UOf(w) = 0 /\ w.size = 2 /\ Gated("Bf16") ->
                  Emit(w, ip, Vec2Code("Bfcvtn", q), <<Arr(1, q), Arr(2, 1)>>, <<>>)
             [] UOf(w) = 1 /\ w.size < 2 -> Emit(w, ip, Vec2Code("Fcvtxn", q), <<Arr(2, q), Arr(3, 1)>>, <<>>)
             [] OTHER -> NewInvalid(w, ip)

DecodeFcvtxnScalar(w, ip) ==
  IF UOf(w) = 1 /\ w.size = 1 THEN Emit(w, ip, VecCode("Fcvtxn"), <<<<2>>, <<3>>>>, <<>>) ELSE NewInvalid(w, ip)

DecodeMisc(w, ip) ==
  LET opcode == MiscOpcode(w)
  IN  CASE opcode \in {22, 23} /\ ScalarOf(w) = 0 -> DecodeWidenNarrow(w, ip)
        [] opcode = 22 /\ ScalarOf(w) = 1 -> DecodeFcvtxnScalar(w, ip)
        [] opcode \in FpMiscOpcode -> DecodeFpMisc(w, ip, 2 + (w.size % 2))
        [] OTHER -> DecodeIntMisc(w, ip)

DecodeHalfMisc(w, ip) ==
  IF ~Gated("Fp16") \/ w.size % 2 = 0 \/ FpMiscName(w) \in NoHalf THEN NewInvalid(w, ip)
  ELSE DecodeFpMisc(w, ip, 1)

FpMiscSpot(name) ==
  {f \in Bit \X Bit \X FpMiscOpcode : name # "" /\ FpMisc[f[1] + 1][f[2] + 1][FpMiscIndex(f[3])] = name}
EncodeFpMisc(x) ==
  LET f    == One(FpMiscSpot(x.code[1]))
      size == ViewSize(x, 0)
      half == size = 1
  IN  With(IsRegAt(x, 0) /\ IsRegAt(x, 1) /\ HasView(x, 0) /\ size > 0 /\ View(IsScalarForm(x), size, ViewQ(x, 0)) # <<3, 1>>, Ok(0),
           MiscWord(IsScalarForm(x), ViewQ(x, 0), f[2], 2 * f[1] + (IF half THEN 1 ELSE size - 2),
                    IF half THEN 24 ELSE 0, f[3], x))

(* enc_fcvtl, enc_fcvtn, enc_fcvtxn, enc_bfcvtn, enc_fp8_cvtl *)
EncodeFpNarrow(x) ==
  LET name  == x.code[1]
      fp8   == Lists(Fp8Widen, name)
      fixed == fp8 \/ name = "Bfcvtn" \/ (name = "Fcvtxn" /\ IsScalarForm(x) = 1)
      sized == IF name = "Fcvtl" THEN 1 ELSE 0
      size  == CASE fp8 -> Place(Fp8Widen, name)
                 [] name = "Bfcvtn" -> 2
                 [] name = "Fcvtxn" -> 1
                 [] OTHER -> SizeAt(x, sized) - 1
      q     == IF fixed THEN (IF SecondHalf(x.code) THEN 1 ELSE 0) ELSE QAt(x, sized)
      ok    == /\ IsRegAt(x, 0) /\ IsRegAt(x, 1)
               /\ ~fixed => /\ HasArrAt(x, sized) /\ IsWholeAt(x, sized)
                            /\ SizeAt(x, sized) \in (IF name = "Fcvtxn" THEN {2} ELSE {1, 2})
      u     == IF fp8 \/ name = "Fcvtxn" THEN 1 ELSE 0
      scalar == IF name = "Fcvtxn" THEN IsScalarForm(x) ELSE 0
  IN  With(ok, Ok(0), MiscWord(scalar, q, u, size, 0, IF fp8 \/ name = "Fcvtl" THEN 23 ELSE 22, x))

(***************************************************************************)
(* Across lanes, and scalar pairs                                          *)
(***************************************************************************)
PairOf(size) == <<size, 2>>                  \* .2h, .2s, .2d

DecodePair(w, ip) ==
  LET rows == {r \in FpPair : r[2] = MiscOpcode(w) /\ r[3] = w.size \div 2}
      size == IF UOf(w) = 0 THEN 1 ELSE 2 + (w.size % 2)
  IN  IF UOf(w) = 0 /\ MiscOpcode(w) = 27 THEN
           IF w.size # 3 THEN NewInvalid(w, ip) ELSE Emit(w, ip, VecCode("Addp"), <<<<3>>, PairOf(3)>>, <<>>)
      ELSE IF rows = {} THEN NewInvalid(w, ip)
      ELSE IF UOf(w) = 0 /\ (~Gated("Fp16") \/ w.size % 2 = 1) THEN NewInvalid(w, ip)
      ELSE Emit(w, ip, VecCode(One(rows)[1]), <<<<size>>, PairOf(size)>>, <<>>)

(* word<22> is ignored by the floating-point reductions. *)
DecodeAcross(w, ip) ==
  LET rows == {r \in Across : r[2] = UOf(w) /\ r[3] = MiscOpcode(w)}
      fp   == {r \in FpAcross : r[2] = MiscOpcode(w) /\ r[3] = w.size \div 2}
      to   == IF MiscOpcode(w) = 3 THEN w.size + 1 ELSE w.size
  IN  IF fp # {} THEN
           IF UOf(w) = 0 THEN IF ~Gated("Fp16") THEN NewInvalid(w, ip)
                              ELSE Emit(w, ip, VecCode(One(fp)[1]), <<<<1>>, Arr(1, QOf(w))>>, <<>>)
           ELSE IF QOf(w) = 0 THEN NewInvalid(w, ip)
           ELSE Emit(w, ip, VecCode(One(fp)[1]), <<<<2>>, Arr(2, 1)>>, <<>>)
      ELSE IF rows = {} \/ w.size = 3 \/ (w.size = 2 /\ QOf(w) = 0) THEN NewInvalid(w, ip)
      ELSE Emit(w, ip, VecCode(One(rows)[1]), <<<<to>>, Arr(w.size, QOf(w))>>, <<>>)

EncodePair(x) ==
  LET r    == CHOOSE r \in FpPair : r[1] = x.code[1]
      size == SizeAt(x, 1)
      addp == x.code[1] = "Addp"
  IN  IF addp THEN With(IsRegAt(x, 0) /\ IsRegAt(x, 1), Ok(0), MiscWord(1, 1, 0, 3, 16, 27, x))
      ELSE With(IsRegAt(x, 0) /\ HasArrAt(x, 1) /\ ArrAt(x, 1) \in {PairOf(s) : s \in 1..3}, Ok(0),
                MiscWord(1, 1, IF size = 1 THEN 0 ELSE 1, 2 * r[3] + (IF size = 3 THEN 1 ELSE 0), 16, r[2], x))

EncodeAcross(x) ==
  LET fp == {r \in FpAcross : r[1] = x.code[1]}
      r  == One({r \in Across : r[1] = x.code[1]})
      ok == IsRegAt(x, 0) /\ HasArrAt(x, 1) /\ IsWholeAt(x, 1)
  IN  IF fp # {} THEN With(ok /\ ArrAt(x, 1) \in {Arr(1, 0), Arr(1, 1), Arr(2, 1)}, Ok(0),
                           MiscWord(0, QAt(x, 1), SizeAt(x, 1) - 1, 2 * One(fp)[3], 16, One(fp)[2], x))
      ELSE With(ok, Ok(0), MiscWord(0, QAt(x, 1), r[2], SizeAt(x, 1), 16, r[3], x))

(***************************************************************************)
(* Dispatch                                                                *)
(***************************************************************************)

(* A pair of a scalar shares its Code with a three-same form. *)
IsPair(x) == x.cnt = 2 /\ (x.code[1] = "Addp" \/ \E r \in FpPair : r[1] = x.code[1] /\ IsScalarForm(x) = 1)
IsDifferent(x) == Spotted(Different, x.code[1])
IsIntMisc(x)   == \E r \in IntMisc : r[1] = x.code[1]
IsFpNarrow(x)  == x.code[1] \in FpNarrow \/ Lists(Fp8Widen, x.code[1])
IsFpMisc(x)    == FpMiscSpot(x.code[1]) # {}
IsAcross(x)    == \E r \in Across \cup FpAcross : r[1] = x.code[1]

IsMisc(x) ==
  /\ x.code[2] \in {"Vec", "Vec2"} /\ ~IsByElement(x)
  /\ IsDifferent(x) \/ IsIntMisc(x) \/ IsFpNarrow(x) \/ IsFpMisc(x) \/ IsPair(x) \/ IsAcross(x)

EncodeMisc(x) ==
  CASE IsDifferent(x) -> EncodeDifferent(x)
    [] IsIntMisc(x)   -> EncodeIntMisc(x)
    [] IsFpNarrow(x)  -> EncodeFpNarrow(x)
    [] IsFpMisc(x)    -> EncodeFpMisc(x)
    [] IsPair(x)      -> EncodePair(x)
    [] OTHER          -> EncodeAcross(x)

(***************************************************************************)
(* By element                                                              *)
(***************************************************************************)
(* word<11>, word<21> and the high bits of Rm hold the index: how many are
   part of it, and how many of the register, depends on the element. *)
High(w) == (w.op \div 2) % 2
IndexedReg(kind, w) ==
  CASE kind = "h" -> w.rm % 16
    [] kind = "b" -> w.rm % 8
    [] OTHER -> w.rm
IndexOf(kind, w) ==
  CASE kind = "h" -> 4 * High(w) + 2 * w.b21 + w.rm \div 16
    [] kind = "s" -> 2 * High(w) + w.b21
    [] kind = "d" -> High(w)
    [] kind = "b" -> 8 * High(w) + 4 * w.b21 + w.rm \div 8
KindBySize == <<"d", "h", "s", "d">>         \* decode_index

(* Names by word<29> and opcode. *)
ByElement ==
  << <<"Fmlal", "Fmla", "Smlal", "Sqdmlal", "Fmlsl", "Fmls", "Smlsl", "Sqdmlsl",
       "Mul", "Fmul", "Smull", "Sqdmull", "Sqdmulh", "Sqrdmulh", "Sdot">>,
     <<"Mla", "", "Umlal", "", "Mls", "", "Umlsl", "",
       "Fmlal2", "Fmulx", "Umull", "", "Fmlsl2", "Sqrdmlah", "Udot", "Sqrdmlsh">> >>
ElementClass(name) ==
  CASE name \in {"Fmlal", "Fmlsl", "Fmlal2", "Fmlsl2"} -> "fmlal"
    [] name \in {"Fmla", "Fmls", "Fmul", "Fmulx"} -> "fp"
    [] name \in {"Sdot", "Udot"} -> "dot"
    [] name \in {"Mul", "Mla", "Mls"} -> "int"
    [] name \in {"Sqdmulh", "Sqrdmulh", "Sqrdmlah", "Sqrdmlsh"} -> "satsame"
    [] OTHER -> "long"

(* The extensions: word<29>, opcode, size, word<30>, feature, arrangements of
   the destination, the source and the element, and the kind of index. *)
ElementRow(c, u, opcode, size, q, feature, to, from, elem, kind) ==
  [c |-> c, u |-> u, opcode |-> opcode, size |-> size, q |-> q, feature |-> feature,
   to |-> to, from |-> from, elem |-> elem, kind |-> kind]
ElementPerQ(c, opcode, size, feature, to, from, elem, kind) ==
  {ElementRow(c, 0, opcode, size, q, feature, Arr(to, q), Arr(from, q), elem, kind) : q \in Bit}
ElementFull(name, u, opcode, size, q, feature, to, from, kind) ==
  ElementRow(VecCode(name), u, opcode, size, q, feature, Arr(to, 1), Arr(from, 1), Elem(from), kind)
ElementTable ==
  ElementPerQ(IdxCode("Fdot"), 0, 0, "Fp8", 2, 0, <<0, 4>>, "s")
  \cup ElementPerQ(IdxCode("Fdot"), 0, 1, "Fp8", 1, 0, <<0, 2>>, "h")
  \cup ElementPerQ(<<"Fdot", "F16Idx">>, 9, 1, "F16f32dot", 2, 1, <<1, 2>>, "s")
  \cup ElementPerQ(IdxCode("Sudot"), 15, 0, "I8mm", 2, 0, <<0, 4>>, "s")
  \cup ElementPerQ(IdxCode("Bfdot"), 15, 1, "Bf16", 2, 1, <<1, 2>>, "s")
  \cup ElementPerQ(IdxCode("Usdot"), 15, 2, "I8mm", 2, 0, <<0, 4>>, "s")
  \cup {ElementFull("Fmlalb", 0, 0, 3, 0, "Fp8", 1, 0, "b"), ElementFull("Fmlalt", 0, 0, 3, 1, "Fp8", 1, 0, "b"),
        ElementFull("Bfmlalb", 0, 15, 3, 0, "Bf16", 2, 1, "h"), ElementFull("Bfmlalt", 0, 15, 3, 1, "Bf16", 2, 1, "h"),
        ElementFull("Fmlallbb", 1, 8, 0, 0, "Fp8", 2, 0, "b"), ElementFull("Fmlallbt", 1, 8, 1, 0, "Fp8", 2, 0, "b"),
        ElementFull("Fmlalltb", 1, 8, 0, 1, "Fp8", 2, 0, "b"), ElementFull("Fmlalltt", 1, 8, 1, 1, "Fp8", 2, 0, "b")}

(***************************************************************************)
(* Decode                                                                  *)
(***************************************************************************)
EmitElement(w, ip, c, to, from, elem, kind, extra) ==
  Built(w, ip, c, ArithMnemonic(c),
        <<Shown(to, w.rd), Shown(from, w.rn), VLane(elem, IndexedReg(kind, w), IndexOf(kind, w))>> \o extra)

DecodeElementComplex(w, ip) ==
  LET rot == <<ImmOp(90 * ((w.op \div 8) % 4))>>
      c   == VecCode("Fcmla")
  IN  CASE ScalarOf(w) = 1 -> NewInvalid(w, ip)
        [] ScalarOf(w) = 0 /\ w.size = 1 ->
             IF ~Gated("Fp16") \/ (QOf(w) = 0 /\ High(w) = 1) THEN NewInvalid(w, ip)
             ELSE EmitElement(w, ip, c, Arr(1, QOf(w)), Arr(1, QOf(w)), Elem(1), "s", rot)
        [] ScalarOf(w) = 0 /\ w.size = 2 ->
             IF QOf(w) = 0 \/ w.b21 = 1 THEN NewInvalid(w, ip)
             ELSE EmitElement(w, ip, c, Arr(2, 1), Arr(2, 1), Elem(2), "d", rot)
        [] OTHER -> NewInvalid(w, ip)

(* by_element_ext claims its words whether the feature is on or not. *)
ElementRows(w) ==
  {r \in ElementTable : <<r.u, r.opcode, r.size, r.q>> = <<UOf(w), w.op \div 4, w.size, QOf(w)>>}
DecodeElementRow(w, ip) ==
  LET r == One(ElementRows(w))
  IN  IF ~Gated(r.feature) THEN NewInvalid(w, ip)
      ELSE EmitElement(w, ip, r.c, r.to, r.from, r.elem, r.kind, <<>>)

(* The kinds by their common shape. *)
DecodeElementFp(w, ip, c) ==
  LET size == IF w.size = 0 THEN 1 ELSE w.size
      kind == KindBySize[size + 1]
      view == View(ScalarOf(w), size, QOf(w))
  IN  IF \/ w.size = 1 \/ (w.size = 0 /\ ~Gated("Fp16"))
         \/ (w.size = 3 /\ w.b21 = 1) \/ view = <<3, 1>>
      THEN NewInvalid(w, ip)
      ELSE EmitElement(w, ip, c, view, view, Elem(size), kind, <<>>)

DecodeElementNamed(w, ip, name) ==
  LET class == ElementClass(name)
      q     == QOf(w)
      s     == w.size
      scalar == ScalarOf(w)
      kind  == KindBySize[s + 1]
      same  == View(scalar, s, q)
      wide  == IF scalar = 1 THEN <<s + 1>> ELSE Arr(s + 1, 1)
      vector == class \in {"int", "fmlal", "dot"} \/ (class = "long" /\ name \notin Saturating)
  IN  IF class = "fp" THEN DecodeElementFp(w, ip, VecCode(name))
      ELSE IF (vector /\ scalar = 1) \/ s \notin {1, 2} \/ (class \in {"fmlal", "dot"} /\ s = 1) THEN NewInvalid(w, ip)
      ELSE CASE class \in {"int", "satsame"} -> EmitElement(w, ip, VecCode(name), same, same, Elem(s), kind, <<>>)
             [] class = "long" ->
                  EmitElement(w, ip, Vec2Code(name, IF scalar = 1 THEN 0 ELSE q), wide, same, Elem(s), kind, <<>>)
             [] class = "fmlal" -> EmitElement(w, ip, VecCode(name), Arr(2, q), HalfPair(q), Elem(1), "h", <<>>)
             [] class = "dot" -> EmitElement(w, ip, IdxCode(name), Arr(2, q), Arr(0, q), <<0, 4>>, "s", <<>>)

DecodeElement(w, ip) ==
  LET opcode == w.op \div 4
      name   == RowAt(ByElement, UOf(w), opcode)
  IN  IF w.op % 2 = 1 THEN NewInvalid(w, ip)
      ELSE IF UOf(w) = 1 /\ opcode \in {1, 3, 5, 7} THEN DecodeElementComplex(w, ip)
      ELSE IF ScalarOf(w) = 0 /\ ElementRows(w) # {} THEN DecodeElementRow(w, ip)
      ELSE IF name = "" THEN NewInvalid(w, ip) ELSE DecodeElementNamed(w, ip, name)

(***************************************************************************)
(* Encode: the index bits beyond those of the element are dropped.         *)
(***************************************************************************)
ElementWord(scalar, q, u, size, opcode, kind, vm, i, x) ==
  LET h == CASE kind = "h" -> i \div 4 [] kind = "s" -> i \div 2 [] kind = "d" -> i [] kind = "b" -> i \div 8
      l == CASE kind = "h" -> i \div 2 [] kind = "s" -> i [] kind = "d" -> 0 [] kind = "b" -> i \div 4
      rm == CASE kind = "h" -> 16 * (i % 2) + vm [] kind = "b" -> 8 * (i % 4) + vm [] OTHER -> vm
  IN  Pack(Top(0, IF scalar = 1 THEN 1 ELSE q, u, scalar), 1, size, l % 2, rm, 4 * opcode + 2 * (h % 2),
           RegAt(x, 1), RegAt(x, 0))

Registers(kind) == CASE kind = "h" -> 16 [] kind = "b" -> 8 [] OTHER -> 32

(* The word, once the kind is known; `at` is the operand with the lane. *)
WithElement(shape, at, kind, field, scalar, q, u, size, opcode, x) ==
  With(/\ IsRegAt(x, 0) /\ IsRegAt(x, 1) /\ HasLaneAt(x, at) /\ shape /\ RegAt(x, at) < Registers(kind),
       IF kind = "b" /\ LaneAt(x, at) > 15 THEN BadImmediate ELSE field,
       ElementWord(scalar, q, u, size, opcode, kind, RegAt(x, at), LaneAt(x, at), x))

EncodeElementComplex(x) ==
  LET rot == Below((ValAt(x, 3) \div 90) % U32Mod, 4)
      size == SizeAt(x, 0)
  IN  WithElement(HasArrAt(x, 0) /\ ArrAt(x, 0) \in {Arr(1, 0), Arr(1, 1), Arr(2, 1)} /\ IsImmAt(x, 3), 2,
                  IF size = 1 THEN "s" ELSE "d", rot, 0, QAt(x, 0), 1, size, 2 * rot.v + 1, x)

EncodeElementRow(x, rows) ==
  LET mine == {r \in rows : HasArrAt(x, 0) /\ r.to = ArrAt(x, 0)}
      r == One(IF mine = {} THEN rows ELSE mine)
      fixed == \E row \in rows : rows = {row}
  IN  WithElement(fixed \/ mine # {}, x.cnt - 1, r.kind, Ok(0), 0, r.q, r.u, r.size, r.opcode, x)

EncodeElementNamed(x) ==
  LET name == x.code[1]
      f    == One(Spot(ByElement, name))
      class == ElementClass(name)
      s    == IsScalarForm(x)
      last == x.cnt - 1
      elem == SizeAt(x, last)
      \* the size field, and the kind of the index
      size == CASE class \in {"fmlal", "dot"} -> 2
                [] class = "fp" -> IF elem = 1 THEN 0 ELSE elem
                [] OTHER -> elem
      kind == CASE class = "fmlal" -> "h" [] class = "dot" -> "s" [] OTHER -> KindBySize[elem + 1]
      q    == IF class = "long" THEN (IF SecondHalf(x.code) THEN 1 ELSE 0)
              ELSE IF s = 1 THEN 0 ELSE QAt(x, 0)
      shape == /\ class \in {"fmlal", "dot"} \/ elem > 0
               /\ class # "long" /\ s = 0 => HasArrAt(x, 0)
               /\ class = "fmlal" => SizeAt(x, 0) = 2
  IN  WithElement(shape, last, kind, Ok(0), s, q, f[1], size, f[2], x)

EncodeElement(x) ==
  LET rows == {r \in ElementTable : r.c = x.code}
  IN  CASE x.code = VecCode("Fcmla") -> EncodeElementComplex(x)
        [] rows # {} -> EncodeElementRow(x, rows)
        [] Spotted(ByElement, x.code[1]) -> EncodeElementNamed(x)
        [] OTHER -> Err("Unsupported")

(***************************************************************************)
(* All the arithmetic words                                                *)
(***************************************************************************)
DecodeSimdArith(w, ip) ==
  LET class == w.rm \div 2                   \* word<20:17>
  IN  IF MOf(w) = 1 THEN NewInvalid(w, ip)
      ELSE IF w.b24 = 1 THEN DecodeElement(w, ip)
      ELSE IF w.b21 = 0 THEN DecodeExtra(w, ip)
      ELSE CASE w.op % 2 = 1 -> DecodeThreeSame(w, ip)
             [] w.op % 4 = 0 -> DecodeDifferent(w, ip)
             [] w.op % 4 = 2 /\ class = 0 -> DecodeMisc(w, ip)
             [] w.op % 4 = 2 /\ class = 8 -> IF ScalarOf(w) = 1 THEN DecodePair(w, ip) ELSE DecodeAcross(w, ip)
             [] w.op % 4 = 2 /\ class = 12 -> DecodeHalfMisc(w, ip)
             [] OTHER -> NewInvalid(w, ip)

IsSimdArith(c) ==
  Len(c) > 1 /\ c[2] \in {"Vec", "Vec2", "Idx", "Fp8", "Fp82", "F16F32", "F16", "F8F16", "F8F32", "F16Vec", "F16Idx"}

EncodeSimdArith(x) ==
  CASE IsSame(x) -> EncodeSame(x)
    [] ~IsSame(x) /\ IsMisc(x) -> EncodeMisc(x)
    [] IsByElement(x) -> EncodeElement(x)
    [] OTHER -> Err("Unsupported")
=============================================================================
