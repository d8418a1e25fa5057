------------------------------- MODULE System -------------------------------
(***************************************************************************)
(* The rest of the system instructions, and the group's dispatch: moves to *)
(* and from system registers, SYS and SYSL with their named instructions,  *)
(* the 128-bit pairs and the translation changes.                          *)
(***************************************************************************)
EXTENDS SysBlock

(***************************************************************************)
(* Moves to and from system registers                                      *)
(***************************************************************************)
DecodeMove(w, ip) ==
  IF w.l = 1 THEN Plain(w, ip, <<"Mrs">>, <<Gp(1, w.rt), SysReg(w)>>)
  ELSE Alias(w, ip, <<"MsrReg">>, "Msr", <<SysReg(w), Gp(1, w.rt)>>)

(* The fields of a system register, in a word of the block. *)
MoveWord(cls, l, o, rt) == Block(cls, l, o.dec[2], o.dec[3], o.dec[4], o.dec[5], o.dec[6], rt)
EncodeMove(x) ==
  LET l == IF x.code = <<"Mrs">> THEN 1 ELSE 0
  IN  With(IsRegAt(x, 1 - l) /\ IsSysRegAt(x, l), Ok(0),
           MoveWord("system", l, OpAt(x, l), RegAt(x, 1 - l)))

(* TSTART and TTEST *)
ResultName == <<"Tstart", "Ttest">>
DecodeSystemResult(w, ip, F) ==
  IF Has(F, "Tme") /\ w.op1 = 3 /\ w.crn = 3 /\ w.op2 = 3 /\ w.crm <= 1
  THEN Plain(w, ip, <<Entry(ResultName, w.crm)>>, <<Gp(1, w.rt)>>)
  ELSE NewInvalid(w, ip)
EncodeSystemResult(x) ==
  With(IsRegAt(x, 0), Ok(0), Sys(1, 0, 3, 3, Place(ResultName, x.code[1]), 3, RegAt(x, 0)))

(***************************************************************************)
(* op0 = 00                                                                *)
(***************************************************************************)

(* decode_op0_00_named *)
Named(w, ip, F) ==
  CASE w.l = 1                -> DecodeSystemResult(w, ip, F)
    [] w.l = 0 /\ w.crn = 4   -> DecodeMsrImm(w, ip)
    [] w.l = 0 /\ w.crn = 2   -> DecodeHint(w, ip, F)
    [] w.l = 0 /\ w.crn = 3   -> DecodeBarrier(w, ip, F)
    [] w.l = 0 /\ w.crn = 1   -> DecodeWfxt(w, ip, F)
    [] OTHER                  -> NewInvalid(w, ip)

IsInvalid(x) == x.code = <<"Invalid">>

(***************************************************************************)
(* Faulty variants, used to show that the properties detect them.          *)
(***************************************************************************)
Unallocated_HereAndNow(w, ip) == IsInvalid(Named(w, ip, Features))
IsPairAt_NoZero(x, n) ==
  /\ OpAt(x, n).kind = "Other" /\ OpAt(x, n).dec = <<"pair">>
  /\ NumberOf(OpAt(x, n).idx) = NumberOf(OpAt(x, n).reg) + 1

(* op0_00_unallocated: nothing decodes it even with every feature. *)
Unallocated(w, ip) == IsInvalid(Named(w, ip, AllFeatures))

DecodeOp0(w, ip) ==
  LET x == Named(w, ip, Features)
  IN  IF IsInvalid(x) /\ Unallocated(w, ip) THEN DecodeMove(w, ip) ELSE x

(***************************************************************************)
(* SYS and SYSL                                                            *)
(***************************************************************************)
InlineRctx == {<<4, "Cfp">>, <<5, "Dvp">>, <<7, "Cpp">>}

(* <<Code, L, op1, op2, takes Rt, x31 is not shown>>, at c7, c7 *)
GcsRow ==
  {<<"Gcspushx", 0, 0, 4, FALSE, FALSE>>, <<"Gcspopcx", 0, 0, 5, FALSE, FALSE>>,
   <<"Gcspopx", 0, 0, 6, FALSE, FALSE>>, <<"Gcspushm", 0, 3, 0, TRUE, FALSE>>,
   <<"Gcsss1", 0, 3, 2, TRUE, FALSE>>, <<"Gcspopm", 1, 3, 1, TRUE, TRUE>>,
   <<"Gcsss2", 1, 3, 3, TRUE, FALSE>>}

(* A named instruction: the register where it takes one, after the name of
   the operation except in the forms that read. *)
SysAlias(w, ip, r) ==
  LET name == IF r.name = <<"">> THEN <<>> ELSE <<SysOp(r.name)>>
      reg  == IF r.rt THEN <<Gp(1, w.rt)>> ELSE <<>>
  IN  Alias(w, ip, <<IF w.l = 1 THEN "Sysl" ELSE "Sys">>, r.mnem,
            IF r.read = 1 THEN reg \o name ELSE name \o reg)

(* The generic operands of SYS, SYSL and SYSP. *)
SysNumbers(w) == <<ImmOp(w.op1), Cr(w.crn), Cr(w.crm), ImmOp(w.op2)>>

DecodeSys(w, ip) ==
  LET rctx  == {r \in InlineRctx : w.l = 0 /\ w.crn = 7 /\ w.crm = 3 /\ w.op1 = 3 /\ w.op2 = r[1]}
      gcs   == {r \in GcsRow : /\ Gated("Gcs") /\ w.crn = 7 /\ w.crm = 7
                               /\ <<w.l, w.op1, w.op2>> = <<r[2], r[3], r[4]>>}
      named == BySelector(w.l, w.op1, w.crn, w.crm, w.op2)
      g     == Fixed(gcs)
  IN  CASE rctx # {} ->
             Alias(w, ip, <<"Sys">>, Fixed(rctx)[2], <<SysOp(<<"rctx">>), Gp(1, w.rt)>>)
        [] gcs # {} ->
             Plain(w, ip, <<g[1]>>, IF g[5] /\ ~(g[6] /\ w.rt = 31) THEN <<Gp(1, w.rt)>> ELSE <<>>)
        [] rctx = {} /\ gcs = {} /\ named # {} -> SysAlias(w, ip, Fixed(named))
        [] OTHER ->
             IF w.l = 1 THEN Plain(w, ip, <<"Sysl">>, <<Gp(1, w.rt)>> \o SysNumbers(w))
             ELSE Plain(w, ip, <<"Sys">>, SysNumbers(w) \o <<Gp(1, w.rt)>>)

(* The generic operands from slot n on, and the word they give. *)
NumbersAt(x, n) == IsImmAt(x, n) /\ IsCrAt(x, n + 1) /\ IsCrAt(x, n + 2) /\ IsImmAt(x, n + 3)
NumbersWord(cls, l, x, n, rt) ==
  Block(cls, l, 1, U32At(x, n), CrAt(x, n + 1), CrAt(x, n + 2), U32At(x, n + 3), rt)

(* The row an alias names, and its word. *)
RowWord(cls, l, r, rt) == Block(cls, l, 1, r.op1, r.crn, r.crm, r.op2, rt)
EncodeSysAlias(x) ==
  LET m     == x.mnem[1]
      nameless == m \in {"Apas", "Trcit"}
      slot  == IF m = "Gicr" THEN 1 ELSE 0
      found == ByName(m, IF nameless THEN <<"">> ELSE OpAt(x, slot).dec)
      r     == Fixed(found)
      regAt == IF slot = 1 \/ nameless THEN 0 ELSE 1
  IN  With((nameless \/ IsTokenOp(x, slot)) /\ found # {} /\ (r.rt => IsRegAt(x, regAt)), Ok(0),
           RowWord("system", IF x.code = <<"Sysl">> THEN 1 ELSE 0, r, IF r.rt THEN RegAt(x, regAt) ELSE 31))

EncodeSys(x) ==
  LET rctx == {r \in InlineRctx : <<r[2]>> = x.mnem}
  IN  CASE x.mnem = <<"Sysl">> ->
             With(IsRegAt(x, 0) /\ NumbersAt(x, 1), Ok(0), NumbersWord("system", 1, x, 1, RegAt(x, 0)))
        [] x.mnem = <<"Sys">> ->
             With(NumbersAt(x, 0) /\ (x.cnt >= 5 => IsRegAt(x, 4)), Ok(0),
                  NumbersWord("system", 0, x, 0, IF x.cnt >= 5 THEN RegAt(x, 4) ELSE 31))
        [] rctx # {} ->
             With(IsRegAt(x, 1), Ok(0), Sys(0, 1, 3, 7, 3, Fixed(rctx)[1], RegAt(x, 1)))
        [] OTHER -> EncodeSysAlias(x)

EncodeGcs(x) ==
  LET r == CHOOSE r \in GcsRow : <<r[1]>> = x.code
      named == r[5] /\ ~(r[6] /\ x.cnt = 0)
  IN  With(named => IsRegAt(x, 0), Ok(0),
           Sys(r[2], 1, r[3], 7, 7, r[4], IF named THEN RegAt(x, 0) ELSE 31))

DecodeSystem(w, ip) ==
  CASE w.op0 = 0 -> DecodeOp0(w, ip)
    [] w.op0 = 1 -> DecodeSys(w, ip)
    [] w.op0 >= 2 -> DecodeMove(w, ip)

(***************************************************************************)
(* Pairs                                                                   *)
(***************************************************************************)

(* reg_pair and reg_pair_or_zz: the register after x30 is xzr. *)
PairOp(rt) == Op("Other", <<"X", rt>>, <<"X", IF rt = 31 THEN 31 ELSE rt + 1>>, 0, <<"pair">>)
Even(n) == n % 2 = 0

DecodeSysPair(w, ip) ==
  LET tlbi == {r \in BySelector(0, w.op1, w.crn, w.crm, w.op2) : r.mnem = "Tlbi"}
  IN  IF ~Even(w.rt) /\ w.rt # 31 THEN NewInvalid(w, ip)
      ELSE IF tlbi # {}
      THEN Alias(w, ip, <<"Sysp">>, "Tlbip", <<SysOp(Fixed(tlbi).name), PairOp(w.rt)>>)
      ELSE Plain(w, ip, <<"Sysp">>, SysNumbers(w) \o (IF w.rt = 31 THEN <<>> ELSE <<PairOp(w.rt)>>))

DecodePair(w, ip) ==
  IF ~Gated("D128") THEN NewInvalid(w, ip)
  ELSE IF w.l = 0 /\ w.op0 = 1 THEN DecodeSysPair(w, ip)
  ELSE IF ~Even(w.rt) THEN NewInvalid(w, ip)
  ELSE IF w.l = 1 THEN Plain(w, ip, <<"Mrrs">>, <<PairOp(w.rt), SysReg(w)>>)
  ELSE Plain(w, ip, <<"Msrr">>, <<SysReg(w), PairOp(w.rt)>>)

(* reg_pair_base *)
IsPairAt(x, n) ==
  LET lo == NumberOf(OpAt(x, n).reg)
      hi == NumberOf(OpAt(x, n).idx)
  IN  /\ OpAt(x, n).kind = "Other" /\ OpAt(x, n).dec = <<"pair">>
      /\ (lo = 31 /\ hi = 31) \/ (Even(lo) /\ hi = (lo + 1) % 32)
PairBase(x, n) == NumberOf(OpAt(x, n).reg)

EncodePairMove(x) ==
  LET l == IF x.code = <<"Mrrs">> THEN 1 ELSE 0
  IN  With(IsPairAt(x, 1 - l) /\ IsSysRegAt(x, l), Ok(0),
           MoveWord("pair", l, OpAt(x, l), PairBase(x, 1 - l)))
EncodeSysPair(x) ==
  LET found == ByName("Tlbi", OpAt(x, 0).dec)
  IN  IF x.mnem = <<"Tlbip">>
      THEN With(IsTokenOp(x, 0) /\ found # {} /\ IsPairAt(x, 1), Ok(0),
                RowWord("pair", 0, Fixed(found), PairBase(x, 1)))
      ELSE With(NumbersAt(x, 0) /\ (x.cnt >= 5 => IsPairAt(x, 4)), Ok(0),
                NumbersWord("pair", 0, x, 0, IF x.cnt >= 5 THEN PairBase(x, 4) ELSE 31))

(***************************************************************************)
(* Translation-table changes: op1 holds the direction, nb and a zero.      *)
(***************************************************************************)
ChangeCode(back, form) == <<Entry(<<"Tchangef", "Tchangeb">>, back), form>>

DecodeChange(w, ip) ==
  LET c(form) == ChangeCode(w.op1 \div 4, form)
      nb == IF (w.op1 \div 2) % 2 = 1 THEN <<SysOp(<<"nb">>)>> ELSE <<>>
      n  == 8 * w.crm + w.op2
  IN  IF ~Gated("Tchange") \/ w.l = 1 \/ w.op1 % 2 = 1 \/ w.crn # 0 THEN NewInvalid(w, ip)
      ELSE IF w.op0 = 0 /\ n < 32 THEN Plain(w, ip, c("Reg"), <<Gp(1, w.rt), Gp(1, n)>> \o nb)
      ELSE IF w.op0 = 2 THEN Plain(w, ip, c("Imm"), <<Gp(1, w.rt), ImmOp(n)>> \o nb)
      ELSE NewInvalid(w, ip)

EncodeChange(x) ==
  LET f   == CHOOSE f \in Bit \X {"Reg", "Imm"} : ChangeCode(f[1], f[2]) = x.code
      reg == f[2] = "Reg"
      n   == IF reg THEN RegAt(x, 1) ELSE ValAt(x, 1)
      nb  == IF IsTokenAt(x, 2, <<"nb">>) THEN 2 ELSE 0
  IN  IF ~IsRegAt(x, 0) \/ ~(IF reg THEN IsRegAt(x, 1) ELSE IsImmAt(x, 1)) THEN BadOperand
      ELSE IF ~reg /\ n > 127 THEN BadImmediate
      ELSE IF IsTokenOp(x, 2) /\ nb = 0 THEN BadOperand
      ELSE Ok(Block("tchange", 0, IF reg THEN 0 ELSE 2, 4 * f[1] + nb, 0, n \div 8, n, RegAt(x, 0)))

(***************************************************************************)
(* decode and encode                                                       *)
(***************************************************************************)
DecodeSystemGroup(w, ip) ==
  CASE w.cls = "branch"    -> DecodeBranchReg(w, ip)
    [] w.cls = "exception" -> DecodeException(w, ip)
    [] w.cls = "system"    -> DecodeSystem(w, ip)
    [] w.cls = "pair"      -> DecodePair(w, ip)
    [] w.cls = "tchange"   -> DecodeChange(w, ip)

BarrierName == {"Clrex", "Dmb", "Dsb", "Isb", "Sb", "Tcommit"}
EncodeSystemGroup(x) ==
  LET c == x.code[1]
  IN  CASE c = "Invalid" -> Err("Invalid")
        [] \E r \in BranchRow : r[1] = c -> EncodeBranchReg(x)
        [] \E r \in ExceptionRow : r[1] = c -> EncodeException(x)
        [] \E r \in HintRow : r[2] = c -> EncodeHint(x)
        [] \E r \in GcsRow : r[1] = c -> EncodeGcs(x)
        [] Lists(WfxtName, c) -> EncodeWfxt(x)
        [] c \in BarrierName -> EncodeBarrier(x)
        [] c = "MsrImm" \/ Lists(FlagName, c) \/ Lists(StreamName, c) -> EncodeMsrImm(x)
        [] c \in {"MsrReg", "Mrs"} -> EncodeMove(x)
        [] c \in {"Sys", "Sysl"} -> EncodeSys(x)
        [] Lists(ResultName, c) -> EncodeSystemResult(x)
        [] c \in {"Mrrs", "Msrr"} -> EncodePairMove(x)
        [] c = "Sysp" -> EncodeSysPair(x)
        [] c \in {"Tchangef", "Tchangeb"} -> EncodeChange(x)

(***************************************************************************)
(* Features                                                                *)
(***************************************************************************)

(* Code::feature of the Codes above. *)
SystemFeature(c) ==
  LET own == {<<"Tcommit", "Tme">>, <<"Tcancel", "Tme">>, <<"Tstart", "Tme">>, <<"Ttest", "Tme">>,
              <<"Tsb", "Trf">>, <<"Wfet", "Wfxt">>, <<"Wfit", "Wfxt">>, <<"Smstart", "Sme">>,
              <<"Smstop", "Sme">>, <<"Mrrs", "D128">>, <<"Msrr", "D128">>, <<"Sysp", "D128">>,
              <<"Tchangef", "Tchange">>, <<"Tchangeb", "Tchange">>, <<"Gcsb", "Gcs">>,
              <<"Tenter", "Tev">>, <<"Shuh", "Pcdphint">>, <<"Stshh", "Pcdphint">>,
              <<"Stcph", "Pcdphint">>, <<"Chkfeat", "Chk">>, <<"Dgh", "Dgh">>, <<"Clrbhb", "Clrbhb">>}
             \cup {<<r[1], "Gcs">> : r \in GcsRow} \cup {<<r[1], r[6]>> : r \in BranchRow}
      mine == {p \in own : p[1] = c[1]}
  IN  IF mine = {} THEN "Base" ELSE Fixed(mine)[2]
=============================================================================
