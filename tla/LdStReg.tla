------------------------------ MODULE LdStReg ------------------------------
(***************************************************************************)
(* Loads and stores of one register or a pair: literal, unsigned offset,   *)
(* unscaled, pre- and post-indexed, unprivileged, register offset, range   *)
(* prefetch, pointer-authenticated, RCpc unscaled, and the pairs.          *)
(*                                                                         *)
(* Then the block word<29:24> = 011001 (decode_ldst_tags_or_ldapstl): the  *)
(* memory tags, the THE and LSE128 atomics, the RCPC3 ordered pairs and    *)
(* writeback forms, the guarded control stack stores, LDAPUR and STLUR.    *)
(***************************************************************************)
EXTENDS LdStWord

(***************************************************************************)
(* Faulty variants, used to show that the properties detect them.          *)
(***************************************************************************)
TheFeature_Any(c) == "The"

(***************************************************************************)
(* Decode                                                                  *)
(***************************************************************************)

(* The general-purpose operations: size, opc, direction, suffix, width, and
   whether the data register is an X register. *)
GpRow ==
  {<<0, 0, "St", "b",  "",   0>>, <<0, 1, "Ld", "b",  "",   0>>,
   <<0, 2, "Ld", "sb", "64", 1>>, <<0, 3, "Ld", "sb", "32", 0>>,
   <<1, 0, "St", "h",  "",   0>>, <<1, 1, "Ld", "h",  "",   0>>,
   <<1, 2, "Ld", "sh", "64", 1>>, <<1, 3, "Ld", "sh", "32", 0>>,
   <<2, 0, "St", "",   "32", 0>>, <<2, 1, "Ld", "",   "32", 0>>,
   <<2, 2, "Ld", "sw", "",   1>>, <<3, 0, "St", "",   "64", 1>>,
   <<3, 1, "Ld", "",   "64", 1>>, <<3, 2, "Prf", "",  "",   1>>}

(* The addressing variants, and the name part each contributes.  Prefetch
   has no indexed, unprivileged or RCpc form. *)
Family ==
  [Unsigned |-> "r", RegOff |-> "r", ImmPost |-> "r", ImmPre |-> "r", Unscaled |-> "ur",
   Unpriv |-> "tr", Rcpc |-> "lur"]
GpCode(r, variant) == CodeWith(<<r[3], Family[variant], r[4]>>, variant, r[5])
GpForms(w, variant) ==
  {r \in GpRow : /\ r[1] = w.size /\ r[2] = w.opc
                 /\ r[3] = "Prf" => variant \in {"Unsigned", "RegOff", "Unscaled"}}

(* FP and SIMD registers: the access is opc<1>:size, at most a quadword. *)
FpAccess(w) == 4 * (w.opc \div 2) + w.size
Direction(opc) == IF opc % 2 = 1 THEN "Ld" ELSE "St"
FpWidth == <<"8", "16", "32", "64", "128">>

(* The register-offset B and H forms borrow the Code of the S form; the
   indexed and unscaled forms borrow the one of the unsigned offset. *)
FpCode(acc, dir, variant) ==
  CASE variant = "RegOff" -> CodeWith(<<dir, "r", "">>, "FpReg", Entry(FpWidth, IF acc < 2 THEN 3 ELSE acc))
    [] variant = "Rcpc"   -> CodeWith(<<dir, "lur", "">>, "FpRcpc", Entry(FpWidth, acc))
    [] OTHER              -> CodeWith(<<dir, "r", "">>, "FpImm", Entry(FpWidth, acc))

(* classify_reg: no form, or its Code, the data operand and its scale. *)
Classify(w, variant) ==
  IF w.v = 1
  THEN {[code |-> FpCode(acc, Direction(w.opc), variant),
         mnem |-> <<Direction(w.opc), Family[variant], "">>,
         data |-> FpReg(acc, w.rt), scale |-> acc] : acc \in {FpAccess(w)} \cap 0..4}
  ELSE {[code |-> GpCode(r, variant), mnem |-> MnemOf(GpCode(r, variant)),
         data |-> IF r[3] = "Prf" THEN Prefetch(w.rt) ELSE Gp(r[6], w.rt),
         scale |-> w.size] : r \in GpForms(w, variant)}

(* mem_ext and pack_shift: a W index for UXTW and SXTW, an X index otherwise,
   and a shift byte that keeps S apart from the amount. *)
ExtendName == <<"Uxtb", "Uxth", "Uxtw", "Uxtx", "Sxtb", "Sxth", "Sxtw", "Sxtx">>
MemExt(rn, rm, option, s, scale) ==
  Op("MemExt", GpSp(1, rn).reg, Gp(IF option \in {2, 6} THEN 0 ELSE 1, rm).reg,
     s * (128 + scale), <<Entry(ExtendName, option)>>)

(* A form and its memory operand, or no instruction. *)
Single(w, ip, variant, mem) ==
  LET forms == Classify(w, variant)
      f == CHOOSE f \in forms : TRUE
  IN  IF forms = {} THEN NewInvalid(w, ip)
      ELSE Built(w, ip, f.code, f.mnem, <<f.data, mem[f.scale]>>)

Imm9(w) == SignExtend(w.mid, 512)

DecodeUnsigned(w, ip) ==
  LET mem == [scale \in 0..4 |-> Mem(w.rn, Imm12Of(w) * 2^scale, "Offset")]
  IN  Single(w, ip, "Unsigned", mem)
DecodeUnscaled(w, ip) == LET mem == [s \in 0..4 |-> Mem(w.rn, Imm9(w), "Offset")] IN Single(w, ip, "Unscaled", mem)
DecodeImmPost(w, ip)  == LET mem == [s \in 0..4 |-> Mem(w.rn, Imm9(w), "PostImm")] IN Single(w, ip, "ImmPost", mem)
DecodeImmPre(w, ip)   == LET mem == [s \in 0..4 |-> Mem(w.rn, Imm9(w), "PreIndex")] IN Single(w, ip, "ImmPre", mem)
DecodeUnpriv(w, ip) ==
  LET mem == [s \in 0..4 |-> Mem(w.rn, Imm9(w), "Offset")]
  IN  IF w.v = 1 THEN NewInvalid(w, ip) ELSE Single(w, ip, "Unpriv", mem)

(* LDAPUR and STLUR, and their FP and SIMD forms with FEAT_LRCPC3. *)
DecodeRcpcUnscaled(w, ip) ==
  LET mem == [s \in 0..4 |-> Mem(w.rn, Imm9(w), "Offset")]
  IN  IF w.v = 1 /\ ~Gated("Rcpc3") THEN NewInvalid(w, ip) ELSE Single(w, ip, "Rcpc", mem)

(* rprfop_op: four of the 64 range prefetches are named. *)
RangePrefetch(imm6) ==
  IF imm6 \in {0, 1, 4, 5}
  THEN SysOp(<<"range", Entry(PrfType, 2 * (imm6 % 2)), Entry(PrfPolicy, imm6 \div 4)>>)
  ELSE ImmOp(imm6)

RangeCode == CodeWith(<<"Rprf", "r", "">>, "Range", "")

DecodeRegOffset(w, ip) ==
  LET option == 4 * O3Of(w) + Opc3Of(w) \div 2
      s      == Opc3Of(w) % 2
      imm6   == 32 * (option \div 4) + 16 * (option % 2) + 8 * s + (w.rt % 8)
      mem == [scale \in 0..4 |-> MemExt(w.rn, RsOf(w), option, s, scale)]
  IN  IF (option \div 2) % 2 = 0 THEN NewInvalid(w, ip)
      ELSE IF w.size = 3 /\ w.v = 0 /\ w.opc = 2 /\ w.rt >= 24
      THEN IF ~Gated("Rprfm") THEN NewInvalid(w, ip)
           ELSE Set(w, ip, RangeCode, <<RangePrefetch(imm6), Gp(1, RsOf(w)), At(w.rn)>>)
      ELSE Single(w, ip, "RegOff", mem)

(* The literal loads: v, opc, direction, suffix, width. *)
LitRow ==
  {<<0, 0, "Ld", "", "32">>, <<0, 1, "Ld", "", "64">>, <<0, 2, "Ld", "sw", "">>,
   <<0, 3, "Prf", "", "">>, <<1, 0, "Ld", "", "32">>, <<1, 1, "Ld", "", "64">>,
   <<1, 2, "Ld", "", "128">>}
LitCode(r) == CodeWith(<<r[3], "r", r[4]>>, IF r[1] = 1 THEN "LitFp" ELSE "Lit", r[5])
LitCard == 2^19

DecodeLiteral(w, ip) ==
  LET rows == {r \in LitRow : r[1] = w.v /\ r[2] = w.size}
      r    == CHOOSE r \in rows : TRUE
      data == IF w.v = 1 THEN FpReg(w.size + 2, w.rt)
              ELSE IF w.size = 3 THEN Prefetch(w.rt)
              ELSE Gp(IF w.size = 0 THEN 0 ELSE 1, w.rt)
  IN  IF rows = {} THEN NewInvalid(w, ip)
      ELSE Set(w, ip, LitCode(r), <<data, LabelOp(RelTarget(Imm19Of(w), ip, LitCard, 4))>>)

(***************************************************************************)
(* Pairs                                                                   *)
(***************************************************************************)
PairMode == <<"Offset", "PostImm", "Offset", "PreIndex">>
PairForm == <<"Np", "Post", "Off", "Pre">>

(* opc, v, name, width, scale of the displacement, feature. *)
PairRow ==
  {<<0, 0, "p", "32", 2, "Base">>,   <<1, 0, "psw", "", 2, "Base">>,
   <<2, 0, "p", "64", 3, "Base">>,   <<3, 0, "tp", "", 3, "The">>,
   <<0, 1, "p", "32", 2, "Base">>,   <<1, 1, "p", "64", 3, "Base">>,
   <<2, 1, "p", "128", 4, "Base">>,  <<3, 1, "tp", "q", 4, "Lsui">>,
   <<1, 0, "gp", "", 4, "Mte">>}
PairDirs(r) == IF r[3] = "psw" THEN {1} ELSE IF r[3] = "gp" THEN {0} ELSE {0, 1}
HasNp(r) == r[3] \notin {"psw", "gp"}
OneFpCode(r) == r[2] = 1 /\ r[3] = "p"
PairIdx(w) == 2 * w.hi + w.opc \div 2

(* The name carries the no-allocate hint, except in the FP Code. *)
PairMnem(r, idx, l) == <<Direction(l), IF idx = 0 THEN "n" ELSE "", r[3]>>
PairCode(r, idx, l) ==
  IF OneFpCode(r) THEN CodeWith(<<Direction(l), "", r[3]>>, "Fp", r[4])
  ELSE CodeWith(PairMnem(r, idx, l), Entry(PairForm, idx), r[4])

DecodePair(w, ip) ==
  LET l    == w.opc % 2
      idx  == PairIdx(w)
      rows == {r \in PairRow : r[1] = w.size /\ r[2] = w.v /\ l \in PairDirs(r)}
      r    == CHOOSE r \in rows : TRUE
      data(n) == IF w.v = 1 THEN FpReg(r[5], n) ELSE Gp(IF r[4] = "32" THEN 0 ELSE 1, n)
  IN  IF ~Gated(r[6]) \/ (idx = 0 /\ ~HasNp(r)) THEN NewInvalid(w, ip)
      ELSE Built(w, ip, PairCode(r, idx, l), PairMnem(r, idx, l),
                 <<data(w.rt), data(Rt2Of(w)),
                   Mem(w.rn, SignExtend(Imm7Of(w), 128) * 2^r[5], Entry(PairMode, idx))>>)

(* LDRAA and LDRAB (FEAT_PAuth): a ten-bit offset whose sign is word<22>. *)
PacCode(m, wb) == CodeWith(<<"Ldra", Entry(<<"a", "b">>, m)>>, Entry(<<"Off", "Pre">>, wb), "")

DecodePac(w, ip) ==
  LET wb == w.op4 \div 2
      off == SignExtend(512 * (w.opc % 2) + w.mid, 1024) * 8
  IN  IF w.v = 1 \/ w.size # 3 \/ ~Gated("PAuth") THEN NewInvalid(w, ip)
      ELSE Set(w, ip, PacCode(w.opc \div 2, wb),
               <<Gp(1, w.rt), Mem(w.rn, off, Entry(<<"Offset", "PreIndex">>, wb))>>)

(***************************************************************************)
(* Encode                                                                  *)
(***************************************************************************)

(* reg_form: the fields a Code stands for.  A register-offset FP Code gives
   only the direction; the access is the width of the data register. *)
RegForm(x) ==
  LET variant == FormOf(x.code)
      acc == IF variant \in {"FpReg", "FpRcpc"} THEN AccAt(x, 0) ELSE Place(FpWidth, WidthOf(x.code))
      r == CHOOSE r \in GpRow : GpCode(r, variant) = x.code
  IN  IF variant \in {"FpImm", "FpReg", "FpRcpc"}
      THEN [size |-> acc % 4, v |-> 1, scale |-> acc, prf |-> FALSE,
            opc |-> 2 * (acc \div 4) + (IF x.code[1] = "Ld" THEN 1 ELSE 0)]
      ELSE [size |-> r[1], v |-> 0, scale |-> r[1], prf |-> r[3] = "Prf", opc |-> r[2]]

(* data_reg_field *)
DataField(x, prf) ==
  IF prf THEN PrefetchRt(x, 0) ELSE IF IsRegAt(x, 0) THEN Ok(RegAt(x, 0)) ELSE BadOperand

(* A form with a nine-bit signed displacement. *)
Imm9Word(x, mode, grp, hi, op4) ==
  LET f  == RegForm(x)
      rt == DataField(x, f.prf)
      imm == SignedField(DispAt(x, 1), 512, 1)
  IN  With(IsModeAt(x, 1, mode), Both(rt, imm),
           Pack(f.size, grp, f.v, hi, f.opc, 0, imm.v, op4, RnAt(x, 1), rt.v))

EncodeUnsigned(x) ==
  LET f   == RegForm(x)
      rt  == DataField(x, f.prf)
      imm == UnsignedField(DispAt(x, 1), 4096, 2^f.scale)
  IN  With(IsModeAt(x, 1, "Offset"), Both(rt, imm),
           Pack(f.size, 7, f.v, 1, f.opc, imm.v \div 2048, (imm.v \div 4) % 512, imm.v % 4,
                RnAt(x, 1), rt.v))
EncodeUnscaled(x) == Imm9Word(x, "Offset", 7, 0, 0)
EncodeImmPost(x)  == Imm9Word(x, "PostImm", 7, 0, 1)
EncodeUnpriv(x)   == Imm9Word(x, "Offset", 7, 0, 2)
EncodeImmPre(x)   == Imm9Word(x, "PreIndex", 7, 0, 3)
EncodeRcpcUnscaled(x) ==
  IF FormOf(x.code) = "FpRcpc" /\ ~HasAccAt(x, 0) THEN BadOperand
  ELSE Imm9Word(x, "Offset", 3, 1, IF RegForm(x).v = 1 THEN 2 ELSE 0)

(* enc_fp_unscaled_or_idx: the FP Codes of the unsigned offset serve four
   addressing forms, told apart by the mode and by LDUR and STUR. *)
EncodeFpImm(x) ==
  IF ~IsMemAt(x, 1) THEN BadOperand
  ELSE CASE ModeAt(x, 1) = "PostImm"  -> EncodeImmPost(x)
         [] ModeAt(x, 1) = "PreIndex" -> EncodeImmPre(x)
         [] ModeAt(x, 1) = "Offset" /\ x.mnem[2] = "ur" -> EncodeUnscaled(x)
         [] OTHER -> EncodeUnsigned(x)

(* recover_mem_ext: the amount must be what S and the scale imply. *)
RecoverMemExt(x, scale) ==
  LET o == OpAt(x, 1)
      option == Place(ExtendName, o.dec[1])
      s == o.val \div 128
  IN  IF o.kind # "MemExt" \/ (option \div 2) % 2 = 0 THEN BadOperand
      ELSE IF o.val % 128 # s * scale THEN BadImmediate
      ELSE Ok([rm |-> NumberOf(o.idx), o3 |-> option \div 4, low |-> 2 * (option % 4) + s])

RegOffWord(size, v, opc, rm, o3, low, rn, rt) ==
  Pack(size, 7, v, 0, opc, 1, Mid(rm, o3, low), 2, rn, rt)

EncodeRegOffset(x) ==
  LET f  == RegForm(x)
      rt == DataField(x, f.prf)
      m  == RecoverMemExt(x, f.scale)
  IN  With(FormOf(x.code) = "FpReg" => HasAccAt(x, 0), Both(rt, m),
           RegOffWord(f.size, f.v, f.opc, m.v.rm, m.v.o3, m.v.low, RnAt(x, 1), rt.v))

EncodeRange(x) ==
  LET imm6 == NamedField(x, 0, [i \in 0..63 |-> RangePrefetch(i)])
  IN  With(IsRegAt(x, 1) /\ IsModeAt(x, 2, "Offset") /\ DispAt(x, 2) = 0, imm6,
           RegOffWord(3, 0, 2, RegAt(x, 1), imm6.v \div 32,
                      4 + 2 * ((imm6.v \div 16) % 2) + ((imm6.v \div 8) % 2),
                      RnAt(x, 2), 24 + (imm6.v % 8)))

EncodeLiteral(x) ==
  LET r   == CHOOSE r \in LitRow : LitCode(r) = x.code
      rt  == DataField(x, r[3] = "Prf")
      imm == RelImm(ValAt(x, 1), x.ip, LitCard, 4)
  IN  With(IsLabelAt(x, 1), Both(rt, imm),
           Pack(r[2], 3, r[1], 0, imm.v \div 2^17, (imm.v \div 2^16) % 2, (imm.v \div 128) % 512,
                (imm.v \div 32) % 4, imm.v % 32, rt.v))

(* enc_pair: NP is the mnemonic's word, the other indexes are the mode's; a
   general-purpose Code must agree, an FP one only fixes the width. *)
IndexOf(x, np) == IF np THEN 0 ELSE CHOOSE i \in 1..3 : Entry(PairMode, i) = ModeAt(x, 2)
PairForms(x) ==
  {f \in PairRow \X (0..3) \X Bit : f[3] \in PairDirs(f[1]) /\ PairCode(f[1], f[2], f[3]) = x.code}
EncodePair(x) ==
  LET f    == CHOOSE f \in PairForms(x) : TRUE
      r    == f[1]
      np   == x.mnem[2] = "n"
      idx  == IndexOf(x, np)
      imm  == SignedField(DispAt(x, 2), 128, 2^r[5])
  IN  With(/\ IsRegAt(x, 0) /\ IsRegAt(x, 1) /\ IsMemAt(x, 2)
           /\ IF np THEN ModeAt(x, 2) = "Offset" ELSE Lists(PairMode, ModeAt(x, 2))
           /\ IF r[2] = 1 THEN HasAccAt(x, 0) /\ AccAt(x, 0) = r[5] ELSE idx = f[2], imm,
           Pack(r[1], 5, r[2], idx \div 2, 2 * (idx % 2) + f[3], imm.v \div 64,
                8 * (imm.v % 64) + RegAt(x, 1) \div 4, RegAt(x, 1) % 4, RnAt(x, 2), RegAt(x, 0)))

(* enc_pac *)
EncodePac(x) ==
  LET m   == IF x.code[2] = "b" THEN 1 ELSE 0
      pre == FormOf(x.code) = "Pre"
      imm == SignedField(DispAt(x, 1), 1024, 8)
  IN  With(IsRegAt(x, 0) /\ IsModeAt(x, 1, IF pre THEN "PreIndex" ELSE "Offset"), imm,
           Pack(3, 7, 0, 0, 2 * m + imm.v \div 512, 1, imm.v % 512, IF pre THEN 3 ELSE 1,
                RnAt(x, 1), RegAt(x, 0)))

(***************************************************************************)
(* Features                                                                *)
(***************************************************************************)

(* Code::feature of the Codes above. *)
RegFeature(c) ==
  CASE FormOf(c) = "Range" -> "Rprfm"
    [] FormOf(c) = "FpRcpc" -> "Rcpc3"
    [] c[1] = "Ldra" -> "PAuth"
    [] OTHER -> "Base"
PairFeature(c) ==
  LET kind == c[3] IN IF kind = "gp" THEN "Mte"
                      ELSE IF kind # "tp" THEN "Base"
                      ELSE IF WidthOf(c) = "q" THEN "Lsui" ELSE "The"

(***************************************************************************)
(* Atomics of FEAT_THE and FEAT_LSE128                                     *)
(***************************************************************************)

(* Name, size, o3, opc, op4, shape of the operands, feature. *)
TheRow ==
  {<<n[1], s, n[2], n[3], 1, "Single", "The">> :
     n \in {<<"ldtadd", 0, 0>>, <<"ldtclr", 0, 1>>, <<"ldtset", 0, 3>>, <<"swpt", 1, 0>>}, s \in Bit}
    \cup {<<"rcwcas", 0, 0, 0, 2, "Single", "The">>, <<"rcwscas", 1, 0, 0, 2, "Single", "The">>,
          <<"rcwcasp", 0, 0, 0, 3, "CasPair", "The">>, <<"rcwscasp", 1, 0, 0, 3, "CasPair", "The">>,
          <<"ldclrp", 0, 0, 1, 0, "Pair", "Lse128">>, <<"ldsetp", 0, 0, 3, 0, "Pair", "Lse128">>,
          <<"swpp", 0, 1, 0, 0, "Pair", "Lse128">>,
          <<"rcwclrp", 0, 1, 1, 0, "Pair", "The">>, <<"rcwsclrp", 1, 1, 1, 0, "Pair", "The">>,
          <<"rcwswpp", 0, 1, 2, 0, "Pair", "The">>, <<"rcwsswpp", 1, 1, 2, 0, "Pair", "The">>,
          <<"rcwsetp", 0, 1, 3, 0, "Pair", "The">>, <<"rcwssetp", 1, 1, 3, 0, "Pair", "The">>}

(* Only the unprivileged operations have a 32-bit form. *)
TheWidth(r) == IF r[5] = 1 /\ r[2] = 0 THEN 0 ELSE 1
TheCode(r, ord) == CodeWith(<<r[1], Entry(OrdName, ord)>>, "The", Suffix(TheWidth(r)))

(* The pair operations name Rt first. *)
TheOrder(pair, rt, rs) == IF pair THEN <<rt, rs>> ELSE <<rs, rt>>

Consecutive(rs, rt) == <<rs, (rs + 1) % 32, rt, (rt + 1) % 32>>

DecodeTheAtomic(w, ip) ==
  LET rows == {r \in TheRow : <<r[2], r[3], r[4], r[5]>> = <<w.size, O3Of(w), Opc3Of(w), w.op4>>}
      r    == CHOOSE r \in rows : TRUE
      rs   == RsOf(w)
      regs == IF r[6] = "CasPair" THEN Consecutive(rs, w.rt) ELSE TheOrder(r[6] = "Pair", w.rt, rs)
  IN  IF \/ rows = {} \/ ~Gated(r[7])
         \/ r[6] = "CasPair" /\ (rs % 2 = 1 \/ w.rt % 2 = 1)
         \/ r[6] = "Pair" /\ (rs = 31 \/ w.rt = 31)
      THEN NewInvalid(w, ip)
      ELSE Set(w, ip, TheCode(r, w.opc), [i \in DOMAIN regs |-> Gp(TheWidth(r), regs[i])] \o <<At(w.rn)>>)

(* enc_the_atomic: the displacement and the mode are not read. *)
EncodeTheAtomic(x) ==
  LET f  == CHOOSE f \in TheRow \X (0..3) : TheCode(f[1], f[2]) = x.code
      r  == f[1]
      n  == IF r[6] = "CasPair" THEN 4 ELSE 2
      o  == TheOrder(r[6] = "Pair", RegAt(x, 1), RegAt(x, 0))
      rs == IF n = 4 THEN RegAt(x, 0) ELSE o[1]
      rt == IF n = 4 THEN RegAt(x, 2) ELSE o[2]
  IN  With(/\ \A i \in 0..(n - 1) : IsRegAt(x, i)
           /\ IsMemAt(x, n)
           /\ r[6] = "Pair" => rs # 31 /\ rt # 31
           /\ n = 4 => rs % 2 = 0 /\ rt % 2 = 0
                       /\ Consecutive(rs, rt) = [i \in 1..4 |-> RegAt(x, i - 1)],
           Ok(0),
           Pack(r[2], 3, 0, 1, f[2], 1, Mid(rs, r[3], r[4]), r[5], RnAt(x, n), rt))

(***************************************************************************)
(* Memory tags (FEAT_MTE)                                                  *)
(***************************************************************************)
TagName == <<"stg", "stzg", "st2g", "stz2g">>
BulkName == <<"stzgm", "ldg", "stgm", "ldgm">>
TagMode == <<"Offset", "PostImm", "Offset", "PreIndex">>
TagCode(opc, op4) ==
  CodeWith(<<Entry(IF op4 = 0 THEN BulkName ELSE TagName, opc)>>, "Tag",
           Entry(<<"bulk", "post", "off", "pre">>, op4))
TagOffset(w) == SignExtend(w.mid, 512) * 16      \* in tag granules of 16 bytes
IsBulk(opc, op4) == op4 = 0 /\ opc # 1           \* no immediate

DecodeTags(w, ip) ==
  IF ~Gated("Mte") \/ (IsBulk(w.opc, w.op4) /\ w.mid # 0) THEN NewInvalid(w, ip)
  ELSE Set(w, ip, TagCode(w.opc, w.op4),
           <<IF w.op4 = 0 THEN Gp(1, w.rt) ELSE GpSp(1, w.rt),
             Mem(w.rn, TagOffset(w), Entry(TagMode, w.op4))>>)

EncodeTags(x) ==
  LET f   == CHOOSE f \in (0..3) \X (0..3) : TagCode(f[1], f[2]) = x.code
      imm == IF ~IsBulk(f[1], f[2]) THEN SignedField(DispAt(x, 1), 512, 16)
             ELSE IF DispAt(x, 1) = 0 THEN Ok(0) ELSE BadImmediate
  IN  With(IsRegAt(x, 0) /\ IsModeAt(x, 1, Entry(TagMode, f[2])), imm,
           Pack(3, 3, 0, 1, f[1], 1, imm.v, f[2], RnAt(x, 1), RegAt(x, 0)))

(***************************************************************************)
(* Ordered pairs, writeback forms (FEAT_LRCPC3) and guarded control stacks *)
(* (FEAT_GCS)                                                              *)
(***************************************************************************)
OrderedSize == {2, 3}

(* word<15:12> of the ordered pairs, and the load bits they allow. *)
LdpOpc2 == {<<0, "p">>, <<1, "o">>, <<5, "x">>, <<7, "pp">>}
OrderedCode(l, kind) == CodeWith(<<"pair", kind>>, "Rcpc3", Entry(<<"st", "ld">>, l))
IsXOnly(kind) == kind \in {"x", "pp"}
OrderedPairs(w) ==
  {r \in LdpOpc2 : /\ r[1] = w.mid % 16 /\ w.size \in (IF IsXOnly(r[2]) THEN {3} ELSE OrderedSize)
                   /\ r[2] = "pp" => w.opc = 1}

(* The indexed forms step by the bytes they transfer: a load after, a store
   before. *)
WriteBack(l, size) == IF l = 1 THEN 2^size ELSE 0 - 2^size
WriteBackMode(l) == IF l = 1 THEN "PostImm" ELSE "PreIndex"
OrderedMem(rn, l, size, indexed) ==
  IF indexed THEN Mem(rn, WriteBack(l, size), WriteBackMode(l)) ELSE At(rn)

DecodeOrderedPair(w, ip) ==
  LET kind == (CHOOSE r \in OrderedPairs(w) : TRUE)[2]
      data(n) == Gp(w.size - 2, n)
  IN  IF ~Gated("Rcpc3") \/ OrderedPairs(w) = {} THEN NewInvalid(w, ip)
      ELSE Set(w, ip, OrderedCode(w.opc % 2, kind),
               <<data(w.rt), data(RsOf(w)), OrderedMem(w.rn, w.opc % 2, w.size + 1, kind = "p")>>)

WbCode(l, size) == CodeWith(<<Entry(<<"stlr", "ldapr">>, l)>>, "Rcpc3Wb", Entry(SizeWidth, size))
DecodeOrderedWb(w, ip) ==
  IF ~Gated("Rcpc3") \/ w.mid # 0 \/ w.size \notin OrderedSize THEN NewInvalid(w, ip)
  ELSE Set(w, ip, WbCode(w.opc % 2, w.size),
           <<Gp(w.size - 2, w.rt), OrderedMem(w.rn, w.opc % 2, w.size, TRUE)>>)

GcsCode(o) == CodeWith(<<Entry(<<"gcsstr", "gcssttr">>, o)>>, "Gcs", "")
DecodeGcs(w, ip) ==
  IF ~Gated("Gcs") \/ w.size # 3 \/ w.opc # 0 \/ w.mid \notin {Mid(31, 0, 0), Mid(31, 0, 1)}
  THEN NewInvalid(w, ip)
  ELSE Set(w, ip, GcsCode(w.mid % 2), <<Gp(1, w.rt), At(w.rn)>>)

(* The memory operand must be exactly the one the form implies.  Of the two
   data registers of LDIAPP and STILP only the first gives the size. *)
SameMem(x, n, m) ==
  IsMemAt(x, n) /\ OpAt(x, n).dec = m.dec /\ OpAt(x, n).val = m.val

EncodeOrderedPair(x) ==
  LET f == CHOOSE f \in Bit \X LdpOpc2 : OrderedCode(f[1], f[2][2]) = x.code
      kind  == f[2][2]
      sized == HasAccAt(x, 0) /\ AccAt(x, 0) \in OrderedSize
      size  == AccAt(x, 0)
      m     == OrderedMem(0, f[1], size + 1, kind = "p")
  IN  With(/\ sized /\ IsRegAt(x, 1)
           /\ IsXOnly(kind) => size = 3 /\ HasAccAt(x, 1) /\ AccAt(x, 1) = 3
           /\ SameMem(x, 2, m),
           Ok(0),
           Pack(size, 3, 0, 1, f[1], 0, 16 * RegAt(x, 1) + f[2][1], 2, RnAt(x, 2), RegAt(x, 0)))

EncodeOrderedWb(x) ==
  LET f == CHOOSE f \in Bit \X OrderedSize : WbCode(f[1], f[2]) = x.code
  IN  With(IsRegAt(x, 0) /\ SameMem(x, 1, OrderedMem(0, f[1], f[2], TRUE)), Ok(0),
           Pack(f[2], 3, 0, 1, 2 + f[1], 0, 0, 2, RnAt(x, 1), RegAt(x, 0)))

EncodeGcs(x) ==
  With(IsRegAt(x, 0) /\ IsMemAt(x, 1), IF DispAt(x, 1) = 0 THEN Ok(0) ELSE BadImmediate,
       Pack(3, 3, 0, 1, 0, 0, Mid(31, 0, IF x.code[1] = "gcssttr" THEN 1 ELSE 0), 3,
            RnAt(x, 1), RegAt(x, 0)))

(***************************************************************************)
(* The block word<29:24> = 011001                                          *)
(***************************************************************************)
DecodeTagsOrRcpc(w, ip) ==
  IF w.b21 = 1 THEN IF w.size = 3 THEN DecodeTags(w, ip) ELSE DecodeTheAtomic(w, ip)
  ELSE CASE w.op4 = 0 -> DecodeRcpcUnscaled(w, ip)
         [] w.op4 = 2 -> IF w.opc < 2 THEN DecodeOrderedPair(w, ip) ELSE DecodeOrderedWb(w, ip)
         [] w.op4 = 3 -> DecodeGcs(w, ip)
         [] OTHER -> NewInvalid(w, ip)

(* Code::feature of the Codes above. *)
TheFeature(c) == IF c[1] \in {"ldclrp", "ldsetp", "swpp"} THEN "Lse128" ELSE "The"
TaggedFeature(c) ==
  CASE FormOf(c) = "The" -> TheFeature(c)
    [] FormOf(c) = "Tag" -> "Mte"
    [] FormOf(c) = "Gcs" -> "Gcs"
    [] OTHER -> "Rcpc3"
=============================================================================
