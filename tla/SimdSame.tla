------------------------------ MODULE SimdSame ------------------------------
(***************************************************************************)
(* Advanced SIMD arithmetic on three registers of one element size         *)
(* (src/decode/simd_fp/simd_arith.rs, src/encode/simd_fp_arith.rs): the    *)
(* integer, logical and floating-point three-same classes, the multiply    *)
(* and complex extensions, and the dot products and matrix multiplies.     *)
(* The scalar forms share their Codes with the vector forms.               *)
(***************************************************************************)
EXTENDS SimdWord

(* A view of a register: an arrangement, or the size of a scalar. *)
View(scalar, size, q) == IF scalar = 1 THEN <<size>> ELSE Arr(size, q)
Shown(view, n) == IF Len(view) = 1 THEN SReg(view[1], n) ELSE VReg(view, n)

VecCode(name) == <<name, "Vec">>
Vec2Code(name, q) == <<name, IF q = 1 THEN "Vec2" ELSE "Vec">>
IdxCode(name) == <<name, "Idx">>

(* Tables of names by word<29> and opcode; an empty name is a hole. *)
RowAt(table, u, o) == IF o < Len(table[u + 1]) THEN table[u + 1][o + 1] ELSE ""
Spot(table, name) == {f \in Bit \X (0..31) : name # "" /\ RowAt(table, f[1], f[2]) = name}
Spotted(table, name) == Spot(table, name) # {}

(* A decoded word with one view per register, Rd, Rn and Rm. *)
SecondHalf(c) == c[2] \in {"Vec2", "Fp82"}
ArithMnemonic(c) == IF SecondHalf(c) THEN <<c[1], "2">> ELSE <<c[1]>>
Emit(w, ip, c, views, extra) ==
  Built(w, ip, c, ArithMnemonic(c), [i \in DOMAIN views |-> Shown(views[i], <<w.rd, w.rn, w.rm>>[i])] \o extra)

(* A word of the arithmetic classes; the scalar ones set word<30>. *)
ArithWord(scalar, q, u, size, b21, rm, op, x) ==
  Pack(Top(0, IF scalar = 1 THEN 1 ELSE q, u, scalar), 0, size, b21, rm, op, RegAt(x, 1), RegAt(x, 0))

(* The size and word<30> an operand of an instruction stands for. *)
IsScalarForm(x) == IF IsScalarAt(x, 0) THEN 1 ELSE 0
HasView(x, n) == IF IsScalarForm(x) = 1 THEN IsScalarAt(x, n) /\ LogAt(x, n) < 4 ELSE HasArrAt(x, n) /\ IsWholeAt(x, n)
ViewSize(x, n) == IF IsScalarForm(x) = 1 THEN LogAt(x, n) ELSE SizeAt(x, n)
ViewQ(x, n) == IF IsScalarForm(x) = 1 THEN 0 ELSE QAt(x, n)

(* is_three_reg, is_by_element *)
IsThreeReg(x) == x.cnt >= 3 /\ IsRegAt(x, 2) /\ ~HasLaneAt(x, 2)
IsByElement(x) == \E n \in Live(x) : HasLaneAt(x, n)
RegsAt(x) == IsRegAt(x, 0) /\ IsRegAt(x, 1) /\ IsRegAt(x, 2)

(***************************************************************************)
(* Tables                                                                  *)
(***************************************************************************)
IntSame ==
  << <<"Shadd", "Sqadd", "Srhadd", "", "Shsub", "Sqsub", "Cmgt", "Cmge",
       "Sshl", "Sqshl", "Srshl", "Sqrshl", "Smax", "Smin", "Sabd", "Saba",
       "Add", "Cmtst", "Mla", "Mul", "Smaxp", "Sminp", "Sqdmulh", "Addp">>,
     <<"Uhadd", "Uqadd", "Urhadd", "", "Uhsub", "Uqsub", "Cmhi", "Cmhs",
       "Ushl", "Uqshl", "Urshl", "Uqrshl", "Umax", "Umin", "Uabd", "Uaba",
       "Sub", "Cmeq", "Mls", "Pmul", "Umaxp", "Uminp", "Sqrdmulh">> >>
Logical == << <<"And", "Bic", "Orr", "Orn">>, <<"Eor", "Bsl", "Bit", "Bif">> >>

(* Floating point, by word<29>, word<23> and the low three opcode bits. *)
FpSame ==
  << << <<"Fmaxnm", "Fmla", "Fadd", "Fmulx", "Fcmeq", "", "Fmax", "Frecps">>,
        <<"Fmaxnmp", "", "Faddp", "Fmul", "Fcmge", "Facge", "Fmaxp", "Fdiv">> >>,
     << <<"Fminnm", "Fmls", "Fsub", "Famax", "", "", "Fmin", "Frsqrts">>,
        <<"Fminnmp", "", "Fabd", "Famin", "Fcmgt", "Facgt", "Fminp", "Fscale">> >> >>
FpSameScalar == {"Fmulx", "Fcmeq", "Frecps", "Frsqrts", "Fcmge", "Facge", "Fabd", "Fcmgt", "Facgt"}
FpSameFeature(name) ==
  CASE name \in {"Famax", "Famin"} -> "Faminmax"
    [] name = "Fscale" -> "Fp8"
    [] OTHER -> "Base"
(* FMLAL: word<29>, opcode, and word<23> selects the subtraction. *)
Widening == {<<"Fmlal", 0, 29, 0>>, <<"Fmlsl", 0, 29, 1>>, <<"Fmlal2", 1, 25, 0>>, <<"Fmlsl2", 1, 25, 1>>}
HalfPair(q) == <<1, 2 * (q + 1)>>            \* .2h, .4h

SqrdmlName == <<"Sqrdmlah", "Sqrdmlsh">>
DotName == <<"Sdot", "Udot">>

(* Dot products, matrix multiplies and widening FP8 forms: word<15:10>,
   word<29>, the size, word<30>, the feature, and the arrangements. *)
ExtRow(c, op, u, size, q, feature, to, from) ==
  [c |-> c, op |-> op, u |-> u, size |-> size, q |-> q, feature |-> feature, to |-> to, from |-> from]
PerQ(c, op, u, size, feature, to, from) ==
  {ExtRow(c, op, u, size, q, feature, Arr(to, q), Arr(from, q)) : q \in Bit}
Full(name, op, u, size, q, feature, to, from) ==
  ExtRow(VecCode(name), op, u, size, q, feature, Arr(to, 1), Arr(from, 1))
Matrix(form, u, size, feature, to, from) ==
  ExtRow(<<"Fmmla", form>>, 59, u, size, 1, feature, Arr(to, 1), Arr(from, 1))
ExtTable ==
  PerQ(VecCode("Fdot"), 63, 0, 0, "Fp8", 2, 0) \cup PerQ(VecCode("Fdot"), 63, 0, 1, "Fp8", 1, 0)
  \cup PerQ(<<"Fdot", "F16Vec">>, 63, 0, 2, "F16f32dot", 2, 1)
  \cup PerQ(VecCode("Bfdot"), 63, 1, 1, "Bf16", 2, 1)
  \cup PerQ(VecCode("Usdot"), 39, 0, 2, "I8mm", 2, 0)
  \cup PerQ(<<"Fcvtn", "Fp8">>, 61, 0, 1, "Fp8", 0, 1)
  \cup {ExtRow(<<"Fcvtn", IF q = 1 THEN "Fp82" ELSE "Fp8">>, 61, 0, 0, q, "Fp8", Arr(0, q), Arr(2, 1)) : q \in Bit}
  \cup {Full("Fmlalb", 63, 0, 3, 0, "Fp8", 1, 0), Full("Fmlalt", 63, 0, 3, 1, "Fp8", 1, 0),
        Full("Bfmlalb", 63, 1, 3, 0, "Bf16", 2, 1), Full("Bfmlalt", 63, 1, 3, 1, "Bf16", 2, 1),
        Full("Fmlallbb", 49, 0, 0, 0, "Fp8", 2, 0), Full("Fmlallbt", 49, 0, 1, 0, "Fp8", 2, 0),
        Full("Fmlalltb", 49, 0, 0, 1, "Fp8", 2, 0), Full("Fmlalltt", 49, 0, 1, 1, "Fp8", 2, 0),
        Full("Smmla", 41, 0, 2, 1, "I8mm", 2, 0), Full("Usmmla", 43, 0, 2, 1, "I8mm", 2, 0),
        Full("Ummla", 41, 1, 2, 1, "I8mm", 2, 0), Full("Bfmmla", 59, 1, 1, 1, "Bf16", 2, 1),
        Matrix("F16F32", 0, 1, "F16f32mm", 2, 1), Matrix("F16", 0, 3, "F16mm", 1, 1),
        Matrix("F8F16", 1, 0, "F8f16mm", 1, 0), Matrix("F8F32", 1, 2, "F8f32mm", 2, 0)}

(***************************************************************************)
(* Decode                                                                  *)
(***************************************************************************)

(* int_three_same_size_ok, scalar_three_same_width *)
IntSizes(opcode, name, scalar, q) ==
  IF scalar = 1 THEN
    CASE opcode \in {6, 7, 8, 10, 16, 17} -> {3}
      [] opcode \in {1, 5, 9, 11} -> 0..3
      [] opcode = 22 -> {1, 2}
      [] OTHER -> {}
  ELSE CASE name = "Pmul" -> {0}
         [] opcode = 22 -> {1, 2}
         [] OTHER -> (0..2) \cup (IF q = 1 /\ opcode \in {1, 5, 6, 7, 8, 9, 10, 11, 16, 17, 23} THEN {3} ELSE {})

DecodeIntSame(w, ip) ==
  LET opcode == w.op \div 2
      name   == RowAt(IntSame, UOf(w), opcode)
      view   == View(ScalarOf(w), w.size, QOf(w))
  IN  IF name = "" \/ w.size \notin IntSizes(opcode, name, ScalarOf(w), QOf(w)) THEN NewInvalid(w, ip)
      ELSE Emit(w, ip, VecCode(name), <<view, view, view>>, <<>>)

(* ORR of one register is a move. *)
DecodeLogical(w, ip) ==
  LET name == RowAt(Logical, UOf(w), w.size)
      view == Arr(0, QOf(w))
  IN  IF ScalarOf(w) = 1 THEN NewInvalid(w, ip)
      ELSE IF name = "Orr" /\ w.rn = w.rm
           THEN Alias(w, ip, VecCode(name), "Mov", <<VReg(view, w.rd), VReg(view, w.rn)>>)
           ELSE Emit(w, ip, VecCode(name), <<view, view, view>>, <<>>)

(* fp_three_same and fp16_three_same, once the variant, the opcode and the
   size of the elements are known. *)
DecodeFpSame(w, ip, a, o, size) ==
  LET name == FpSame[a + 1][UOf(w) + 1][o + 1]
      view == View(ScalarOf(w), size, QOf(w))
  IN  IF \/ name = "" \/ ~Gated(FpSameFeature(name))
         \/ (ScalarOf(w) = 1 /\ name \notin FpSameScalar) \/ view = <<3, 1>>
      THEN NewInvalid(w, ip)
      ELSE Emit(w, ip, VecCode(name), <<view, view, view>>, <<>>)

DecodeFmlal(w, ip, row) ==
  LET half == HalfPair(QOf(w))
  IN  IF ScalarOf(w) = 1 \/ w.size % 2 = 1 THEN NewInvalid(w, ip)
      ELSE Emit(w, ip, VecCode(row[1]), <<Arr(2, QOf(w)), half, half>>, <<>>)

DecodeThreeSame(w, ip) ==
  LET opcode == w.op \div 2
      fmlal  == {r \in Widening : r[2] = UOf(w) /\ r[3] = opcode /\ r[4] = w.size \div 2}
  IN  CASE opcode = 3  -> DecodeLogical(w, ip)
        [] opcode < 24 /\ opcode # 3 -> DecodeIntSame(w, ip)
        [] opcode >= 24 ->
             IF fmlal # {} THEN DecodeFmlal(w, ip, One(fmlal))
             ELSE DecodeFpSame(w, ip, w.size \div 2, opcode - 24, 2 + (w.size % 2))

DecodeExtRow(w, ip) ==
  LET rows == {r \in ExtTable : /\ <<r.op, r.u, r.size, r.q>> = <<w.op, UOf(w), w.size, QOf(w)>>
                                /\ Gated(r.feature)}
      r    == One(rows)
  IN  IF rows = {} THEN NewInvalid(w, ip) ELSE Emit(w, ip, r.c, <<r.to, r.from, r.from>>, <<>>)

DecodeSqrdml(w, ip) ==
  LET view == View(ScalarOf(w), w.size, QOf(w))
  IN  IF w.op \div 2 \notin {16, 17} \/ w.size \notin {1, 2} THEN NewInvalid(w, ip)
      ELSE Emit(w, ip, VecCode(Entry(SqrdmlName, (w.op \div 2) % 2)), <<view, view, view>>, <<>>)

(* FCMLA and FCADD *)
ComplexSizes(q) == {1, 2} \cup (IF q = 1 THEN {3} ELSE {})
DecodeComplex(w, ip) ==
  LET view == Arr(w.size, QOf(w))
      add  == w.op \div 8 = 7
      rot  == (w.op \div 2) % 4
  IN  IF ScalarOf(w) = 1 \/ w.size \notin ComplexSizes(QOf(w)) \/ (w.size = 1 /\ ~Gated("Fp16")) THEN NewInvalid(w, ip)
      ELSE Emit(w, ip, VecCode(IF add THEN "Fcadd" ELSE "Fcmla"), <<view, view, view>>,
                <<ImmOp(IF add THEN 90 + 180 * (rot \div 2) ELSE 90 * rot)>>)

DecodeDot(w, ip) ==
  LET from == Arr(0, QOf(w))
  IN  Emit(w, ip, VecCode(Entry(DotName, UOf(w))), <<Arr(2, QOf(w)), from, from>>, <<>>)

(* three_same_extra_or_fp16: the words with word<21> clear *)
DecodeExtra(w, ip) ==
  LET vector == ScalarOf(w) = 0
      ext == vector /\ (w.op \in {59, 63} \/ \E r \in ExtTable : <<r.op, r.u, r.size, r.q>> = <<w.op, UOf(w), w.size, QOf(w)>>)
  IN  IF ext THEN DecodeExtRow(w, ip)
      ELSE IF w.size = 0 \/ w.op % 2 = 0 THEN NewInvalid(w, ip)
      ELSE IF w.op < 16 THEN
             IF w.size % 2 = 0 \/ ~Gated("Fp16") THEN NewInvalid(w, ip)
             ELSE DecodeFpSame(w, ip, w.size \div 2, w.op \div 2, 1)
      ELSE IF w.op = 37 /\ w.size = 2 /\ vector THEN DecodeDot(w, ip)
      ELSE IF UOf(w) = 0 THEN NewInvalid(w, ip)
      ELSE CASE w.op \div 8 = 4 -> DecodeSqrdml(w, ip)
             [] w.op \div 8 \in {6, 7} -> DecodeComplex(w, ip)
             [] OTHER -> NewInvalid(w, ip)

(***************************************************************************)
(* Encode                                                                  *)
(***************************************************************************)
EncodeIntSame(x) ==
  LET f == One(Spot(IntSame, x.code[1]))
      s == IsScalarForm(x)
  IN  With(RegsAt(x) /\ HasView(x, 0), Ok(0),
           ArithWord(s, ViewQ(x, 0), f[1], ViewSize(x, 0), 1, RegAt(x, 2), 2 * f[2] + 1, x))

EncodeLogical(x) ==
  LET f   == One(Spot(Logical, x.code[1]))
      mov == x.code[1] = "Orr" /\ x.mnem = <<"Mov">>
      rm  == RegAt(x, IF mov THEN 1 ELSE 2)
  IN  With(HasArrAt(x, 0) /\ IsWholeAt(x, 0) /\ SizeAt(x, 0) = 0 /\ IsRegAt(x, 1) /\ (mov \/ IsRegAt(x, 2)), Ok(0),
           ArithWord(0, QAt(x, 0), f[1], f[2], 1, rm, 7, x))

(* The half-precision words have their own class and a shorter opcode. *)
FpSpot(name) == {f \in Bit \X Bit \X (0..7) : name # "" /\ FpSame[f[1] + 1][f[2] + 1][f[3] + 1] = name}
EncodeFpSame(x) ==
  LET f    == One(FpSpot(x.code[1]))
      s    == IsScalarForm(x)
      size == ViewSize(x, 0)
      half == size = 1
  IN  With(RegsAt(x) /\ HasView(x, 0) /\ size > 0 /\ View(IsScalarForm(x), size, ViewQ(x, 0)) # <<3, 1>>, Ok(0),
           ArithWord(s, ViewQ(x, 0), f[2], IF half THEN 2 * f[1] + 1 ELSE 2 * f[1] + size - 2,
                     IF half THEN 0 ELSE 1, RegAt(x, 2), (IF half THEN 0 ELSE 48) + 2 * f[3] + 1, x))

EncodeFmlal(x) ==
  LET r == CHOOSE r \in Widening : r[1] = x.code[1]
  IN  With(RegsAt(x) /\ HasArrAt(x, 0) /\ IsWholeAt(x, 0) /\ SizeAt(x, 0) = 2, Ok(0),
           ArithWord(0, QAt(x, 0), r[2], 2 * r[4], 1, RegAt(x, 2), 2 * r[3] + 1, x))

EncodeSqrdml(x) ==
  With(RegsAt(x) /\ HasView(x, 0), Ok(0),
       ArithWord(IsScalarForm(x), ViewQ(x, 0), 1, ViewSize(x, 0), 0, RegAt(x, 2),
                 2 * (16 + Place(SqrdmlName, x.code[1])) + 1, x))

(* A rotation that is no multiple of 90 is rounded down by FCMLA. *)
EncodeComplex(x) ==
  LET add == x.code[1] = "Fcadd"
      v   == ValAt(x, 3)
      rot == IF add THEN (IF v \in {90, 270} THEN Ok(v \div 180) ELSE BadImmediate)
             ELSE Below((v \div 90) % U32Mod, 4)
  IN  With(/\ RegsAt(x) /\ HasArrAt(x, 0) /\ IsWholeAt(x, 0) /\ SizeAt(x, 0) \in ComplexSizes(QAt(x, 0)) /\ IsImmAt(x, 3),
           rot,
           ArithWord(0, QAt(x, 0), 1, SizeAt(x, 0), 0, RegAt(x, 2),
                     IF add THEN 57 + 4 * rot.v ELSE 49 + 2 * rot.v, x))

EncodeDot(x) ==
  With(RegsAt(x) /\ HasArrAt(x, 0), Ok(0),
       ArithWord(0, QAt(x, 0), Place(DotName, x.code[1]), 2, 0, RegAt(x, 2), 37, x))

(* A Code of several rows is told apart by its arrangements. *)
ExtRows(c) == {r \in ExtTable : r.c = c}
EncodeExtRow(x) ==
  LET rows == ExtRows(x.code)
      mine == {r \in rows : \/ rows = {r}
                            \/ /\ HasArrAt(x, 0) /\ ArrAt(x, 0) = r.to
                               /\ r.op = 61 => HasArrAt(x, 1) /\ ArrAt(x, 1) = r.from}
      r == One(mine)
  IN  With(RegsAt(x) /\ mine # {}, Ok(0), ArithWord(0, r.q, r.u, r.size, 0, RegAt(x, 2), r.op, x))

(* encode, the families of this module: the forms on an element are taken
   by other encoders. *)
IsSame(x) ==
  LET name == x.code[1]
  IN  /\ ~IsByElement(x)
      /\ \/ ExtRows(x.code) # {}
         \/ /\ x.code[2] = "Vec"
            /\ \/ Lists(DotName, name) \/ Lists(SqrdmlName, name) \/ name \in {"Fcmla", "Fcadd"}
               \/ Spotted(Logical, name)
               \/ \E r \in Widening : r[1] = name
               \/ IsThreeReg(x) /\ (Spotted(IntSame, name) \/ FpSpot(name) # {})

EncodeSame(x) ==
  LET name == x.code[1]
  IN  CASE ExtRows(x.code) # {} -> EncodeExtRow(x)
        [] Spotted(IntSame, name) -> EncodeIntSame(x)
        [] Spotted(Logical, name) -> EncodeLogical(x)
        [] FpSpot(name) # {} -> EncodeFpSame(x)
        [] Lists(SqrdmlName, name) -> EncodeSqrdml(x)
        [] Lists(DotName, name) -> EncodeDot(x)
        [] name \in {"Fcmla", "Fcadd"} -> EncodeComplex(x)
        [] OTHER -> EncodeFmlal(x)
=============================================================================
