------------------------------- MODULE SysBlock -------------------------------
(***************************************************************************)
(* Branch-to-register, exception-generating and system instructions        *)
(* (src/decode/branch_sys.rs, src/encode/branch_sys.rs).  The blocks under *)
(* the prefix 11010101 share one layout and differ in bits 23:22.          *)
(***************************************************************************)
EXTENDS Spelling

CONSTANT U32Mod            \* values of a u32 (2^32 in the code)

BranchRegWord == [cls : {"branch"}, opc : 0..15, op2 : RegNum, op3 : 0..63, rn : RegNum, op4 : RegNum]
ExceptionWord == [cls : {"exception"}, opc : 0..7, imm : 0..65535, op2 : 0..7, ll : 0..3]
BlockWord == [cls : {"system", "pair", "tchange"}, l : Bit, op0 : 0..3, op1 : 0..7, crn : 0..15,
              crm : 0..15, op2 : 0..7, rt : RegNum]
SystemWord == BranchRegWord \cup ExceptionWord \cup BlockWord

(* The features some system word is gated by (FeatureSet::ALL, as far as
   this group can tell). *)
AllFeatures == {"PAuth", "PauthLr", "Tme", "Tev", "Tchange", "Dgh", "Trf", "Gcs", "Clrbhb", "Chk",
                "Pcdphint", "Wfxt", "Xs", "D128"}

(***************************************************************************)
(* The directory of named SYS and SYSL instructions                        *)
(* (src/tables/sysins.rs), which the decoder searches by selector and the  *)
(* encoder by mnemonic and operation name.  Its rows are grouped by the    *)
(* pattern they repeat: a stem in several shareability domains, with and   *)
(* without the nXS qualifier.                                              *)
(***************************************************************************)
Row(op1, crn, crm, op2, read, mnem, name, rt) ==
  [op1 |-> op1, crn |-> crn, crm |-> crm, op2 |-> op2, read |-> read, mnem |-> mnem,
   name |-> name, rt |-> rt]

(* The domains of a stem and their CRm. *)
Shared == {<<"os", 1>>, <<"is", 3>>, <<"", 7>>}
Ranged == {<<"os", 5>>, <<"is", 2>>, <<"", 6>>}
Stage2 == {<<"is", 0>>, <<"", 4>>}
Outer  == {<<"os", 4>>}

(* <<op2, stem, takes a register, domains>> *)
El1Tlb ==
  {<<0, "vmalle1", FALSE, Shared>>, <<1, "vae1", TRUE, Shared>>, <<1, "rvae1", TRUE, Ranged>>,
   <<2, "aside1", TRUE, Shared>>, <<3, "vaae1", TRUE, Shared>>, <<3, "rvaae1", TRUE, Ranged>>,
   <<5, "vale1", TRUE, Shared>>, <<5, "rvale1", TRUE, Ranged>>, <<7, "vaale1", TRUE, Shared>>,
   <<7, "rvaale1", TRUE, Ranged>>}
El2Tlb ==
  {<<0, "alle2", FALSE, Shared>>, <<1, "vae2", TRUE, Shared>>, <<1, "rvae2", TRUE, Ranged>>,
   <<5, "vale2", TRUE, Shared>>, <<5, "rvale2", TRUE, Ranged>>, <<4, "alle1", FALSE, Shared>>,
   <<6, "vmalls12e1", FALSE, Shared>>, <<2, "vmallws2e1", FALSE, Ranged>>,
   <<0, "ipas2e1", TRUE, Outer>>, <<1, "ipas2e1", TRUE, Stage2>>,
   <<3, "ripas2e1", TRUE, Outer>>, <<2, "ripas2e1", TRUE, Stage2>>,
   <<4, "ipas2le1", TRUE, Outer>>, <<5, "ipas2le1", TRUE, Stage2>>,
   <<7, "ripas2le1", TRUE, Outer>>, <<6, "ripas2le1", TRUE, Stage2>>}
El3Tlb ==
  {<<0, "alle3", FALSE, Shared>>, <<1, "vae3", TRUE, Shared>>, <<1, "rvae3", TRUE, Ranged>>,
   <<5, "vale3", TRUE, Shared>>, <<5, "rvale3", TRUE, Ranged>>, <<3, "rpa", TRUE, Outer>>,
   <<7, "rpal", TRUE, Outer>>, <<4, "paall", FALSE, {d \in Shared : d[1] # "is"}>>}

(* TLBI: CRn 8, or 9 for nXS. *)
Tlbi(op1, stems) ==
  UNION {{Row(op1, 8 + n, d[2], s[1], 0, "Tlbi", <<s[2], d[1], IF n = 1 THEN "nxs" ELSE "">>, s[3]) :
            d \in s[4], n \in 0..1} : s \in stems}

(* PLBI: CRn 10, CRm 8 more for nXS. *)
El1Plb == {<<0, "vmalle1", FALSE>>, <<1, "perme1", TRUE>>, <<2, "aside1", TRUE>>, <<3, "permae1", TRUE>>}
El2Plb == {<<0, "alle2", FALSE>>, <<1, "perme2", TRUE>>, <<4, "alle1", FALSE>>}
El3Plb == {<<0, "alle3", FALSE>>, <<1, "perme3", TRUE>>}
Plbi(op1, stems) ==
  {Row(op1, 10, d[2] + 8 * n, s[1], 0, "Plbi", <<s[2], d[1], IF n = 1 THEN "nxs" ELSE "">>, s[3]) :
     d \in Shared, n \in 0..1, s \in stems}

(* GIC: the same operations in three domains, "l", "v" and "c". *)
GicOp == {<<1, 0, "dis">>, <<1, 1, "en">>, <<1, 2, "pri">>, <<1, 3, "aff">>, <<1, 4, "pend">>,
          <<1, 5, "rcfg">>, <<2, 0, "di">>, <<2, 1, "hm">>}
Gic ==
  {Row(d[1], 12, o[1], o[2], 0, "Gic", <<d[2], "d", o[3]>>, TRUE) :
     d \in {<<0, "c">>, <<4, "v">>, <<6, "l">>}, o \in GicOp}
    \cup {Row(0, 12, 1, 7, 0, "Gic", <<"c", "d", "eoi">>, FALSE),
          Row(0, 12, 3, 0, 1, "Gicr", <<"cdia">>, TRUE), Row(0, 12, 3, 1, 1, "Gicr", <<"cdnmia">>, TRUE),
          Row(0, 12, 0, 0, 0, "Gsb", <<"sys">>, FALSE), Row(0, 12, 0, 1, 0, "Gsb", <<"ack">>, FALSE)}

(* CRn 7, all with a register: <<op1, CRm, op2, name>>. *)
DcOp ==
  {<<0, 6, 1, "ivac">>, <<0, 6, 2, "isw">>, <<0, 6, 3, "igvac">>, <<0, 6, 4, "igsw">>,
   <<0, 6, 5, "igdvac">>, <<0, 6, 6, "igdsw">>, <<0, 10, 2, "csw">>, <<0, 10, 4, "cgsw">>,
   <<0, 10, 6, "cgdsw">>, <<0, 14, 2, "cisw">>, <<0, 14, 4, "cigsw">>, <<0, 14, 6, "cigdsw">>,
   <<0, 15, 1, "civaps">>, <<0, 15, 5, "cigdvaps">>, <<3, 4, 1, "zva">>, <<3, 4, 3, "gva">>,
   <<3, 4, 4, "gzva">>, <<3, 4, 5, "zgbva">>, <<3, 4, 7, "gbva">>, <<3, 10, 1, "cvac">>,
   <<3, 10, 3, "cgvac">>, <<3, 10, 5, "cgdvac">>, <<3, 11, 0, "cvaoc">>, <<3, 11, 1, "cvau">>,
   <<3, 11, 7, "cgdvaoc">>, <<3, 12, 1, "cvap">>, <<3, 12, 3, "cgvap">>, <<3, 12, 5, "cgdvap">>,
   <<3, 13, 1, "cvadp">>, <<3, 13, 3, "cgvadp">>, <<3, 13, 5, "cgdvadp">>, <<3, 14, 1, "civac">>,
   <<3, 14, 3, "cigvac">>, <<3, 14, 5, "cigdvac">>, <<3, 15, 0, "civaoc">>, <<3, 15, 7, "cigdvaoc">>,
   <<4, 14, 0, "cipae">>, <<4, 14, 7, "cigdpae">>, <<6, 14, 1, "cipapa">>, <<6, 14, 5, "cigdpapa">>}
AtOp ==
  {<<0, 8, 0, "s1e1r">>, <<0, 8, 1, "s1e1w">>, <<0, 8, 2, "s1e0r">>, <<0, 8, 3, "s1e0w">>,
   <<0, 9, 0, "s1e1rp">>, <<0, 9, 1, "s1e1wp">>, <<0, 9, 2, "s1e1a">>, <<4, 8, 0, "s1e2r">>,
   <<4, 8, 1, "s1e2w">>, <<4, 8, 4, "s12e1r">>, <<4, 8, 5, "s12e1w">>, <<4, 8, 6, "s12e0r">>,
   <<4, 8, 7, "s12e0w">>, <<4, 9, 2, "s1e2a">>, <<6, 8, 0, "s1e3r">>, <<6, 8, 1, "s1e3w">>,
   <<6, 9, 2, "s1e3a">>}
Crn7(mnem, ops, rt) == {Row(o[1], 7, o[2], o[3], 0, mnem, <<o[4]>>, rt) : o \in ops}

SYS_INS_TABLE ==
  Tlbi(0, El1Tlb) \cup Tlbi(4, El2Tlb) \cup Tlbi(6, El3Tlb)
    \cup Plbi(0, El1Plb) \cup Plbi(4, El2Plb) \cup Plbi(6, El3Plb) \cup Gic
    \cup Crn7("Dc", DcOp, TRUE) \cup Crn7("At", AtOp, TRUE)
    \cup Crn7("Ic", {<<0, 1, 0, "ialluis">>, <<0, 5, 0, "iallu">>}, FALSE)
    \cup Crn7("Ic", {<<3, 5, 1, "ivau">>}, TRUE)
    \cup Crn7("Mlbi", {<<4, 0, 4, "alle1">>, <<4, 0, 5, "vmalle1">>}, FALSE)
    \cup Crn7("Mlbi", {<<4, 0, 6, "vpide1">>, <<4, 0, 7, "vpmge1">>}, TRUE)
    \cup Crn7("Brb", {<<1, 2, 4, "iall">>, <<1, 2, 5, "inj">>}, FALSE)
    \cup {Row(3, 7, 3, o[1], 0, o[2], <<"rctx">>, TRUE) :
            o \in {<<4, "Cfp">>, <<5, "Dvp">>, <<6, "Cosp">>, <<7, "Cpp">>}}
    \cup {Row(6, 7, 0, 0, 0, "Apas", <<"">>, TRUE), Row(3, 7, 2, 7, 0, "Trcit", <<"">>, TRUE)}

(***************************************************************************)
(* Faulty variants, used to show that the properties detect them.          *)
(***************************************************************************)
ByName_AnyMnemonic(mnem, name) == {r \in SYS_INS_TABLE : r.name = name}

(* lookup and lookup_by_name: the rows found, at most one. *)
BySelector(read, op1, crn, crm, op2) ==
  {r \in SYS_INS_TABLE : <<r.read, r.op1, r.crn, r.crm, r.op2>> = <<read, op1, crn, crm, op2>>}
ByName(mnem, name) == {r \in SYS_INS_TABLE : r.mnem = mnem /\ r.name = name}

(***************************************************************************)
(* Branch to register                                                      *)
(***************************************************************************)

(* <<Code, opc, op3, values of Rn, values of op4, feature, operands>> *)
BranchRow ==
  {<<"Br", 0, 0, RegNum, {0}, "Base", "n">>, <<"Blr", 1, 0, RegNum, {0}, "Base", "n">>,
   <<"Ret", 2, 0, RegNum, {0}, "Base", "n">>, <<"Eret", 4, 0, {31}, {0}, "Base", "">>,
   <<"Drps", 5, 0, {31}, {0}, "Base", "">>,
   <<"Braaz", 0, 2, RegNum, {31}, "PAuth", "n">>, <<"Brabz", 0, 3, RegNum, {31}, "PAuth", "n">>,
   <<"Blraaz", 1, 2, RegNum, {31}, "PAuth", "n">>, <<"Blrabz", 1, 3, RegNum, {31}, "PAuth", "n">>,
   <<"Retaa", 2, 2, {31}, {31}, "PAuth", "">>, <<"Retab", 2, 3, {31}, {31}, "PAuth", "">>,
   <<"Retaasppcr", 2, 2, {31}, RegNum \ {31}, "PauthLr", "m">>,
   <<"Retabsppcr", 2, 3, {31}, RegNum \ {31}, "PauthLr", "m">>,
   <<"Eretaa", 4, 2, {31}, {31}, "PAuth", "">>, <<"Eretab", 4, 3, {31}, {31}, "PAuth", "">>,
   <<"Braa", 8, 2, RegNum, RegNum, "PAuth", "nm">>, <<"Brab", 8, 3, RegNum, RegNum, "PAuth", "nm">>,
   <<"Blraa", 9, 2, RegNum, RegNum, "PAuth", "nm">>, <<"Blrab", 9, 3, RegNum, RegNum, "PAuth", "nm">>}

BranchRows(w) ==
  {r \in BranchRow : w.opc = r[2] /\ w.op3 = r[3] /\ w.rn \in r[4] /\ w.op4 \in r[5] /\ Gated(r[6])}

(* RET's x30 is not shown. *)
DecodeBranchReg(w, ip) ==
  LET r == CHOOSE r \in BranchRows(w) : TRUE
      list == CASE r[7] = "n"  -> IF r[1] = "Ret" /\ w.rn = 30 THEN <<>> ELSE <<Gp(1, w.rn)>>
                [] r[7] = "m"  -> <<Gp(1, w.op4)>>
                [] r[7] = "nm" -> <<Gp(1, w.rn), GpSp(1, w.op4)>>
                [] r[7] = ""   -> <<>>
  IN  IF w.op2 # 31 \/ BranchRows(w) = {} THEN NewInvalid(w, ip)
      ELSE Plain(w, ip, <<r[1]>>, list)

(* The only value of a fixed field. *)
Fixed(S) == CHOOSE v \in S : TRUE
EncodeBranchReg(x) ==
  LET r == CHOOSE r \in BranchRow : <<r[1]>> = x.code
      shown == IF r[1] = "Ret" THEN x.cnt ELSE Len(r[7])
      rn  == IF r[1] = "Ret" /\ x.cnt = 0 THEN 30
             ELSE IF r[7] \in {"n", "nm"} THEN RegAt(x, 0) ELSE 31
      op4 == IF r[7] \in {"m", "nm"} THEN RegAt(x, Len(r[7]) - 1) ELSE Fixed(r[5])
  IN  With(\A n \in 0..(shown - 1) : n < Len(r[7]) => IsRegAt(x, n), Ok(0),
           [cls |-> "branch", opc |-> r[2], op2 |-> 31, op3 |-> r[3], rn |-> rn, op4 |-> op4])

(***************************************************************************)
(* Faulty variants, used to show that the properties detect them.          *)
(***************************************************************************)
TenterField_AnyBits == {i + 128 * k : i \in 0..127, k \in 0..32}
Block_Unmasked(cls, l, op0, op1, crn, crm, op2, rt) ==
  [cls |-> cls, l |-> l, op0 |-> op0, op1 |-> op1, crn |-> crn, crm |-> crm, op2 |-> op2, rt |-> rt]

(***************************************************************************)
(* Exceptions                                                              *)
(***************************************************************************)
ExceptionRow ==
  {<<"Svc", 0, 1, "Base">>, <<"Hvc", 0, 2, "Base">>, <<"Smc", 0, 3, "Base">>, <<"Brk", 1, 0, "Base">>,
   <<"Hlt", 2, 0, "Base">>, <<"Tcancel", 3, 0, "Tme">>, <<"Tenter", 7, 0, "Tev">>,
   <<"Dcps1", 5, 1, "Base">>, <<"Dcps2", 5, 2, "Base">>, <<"Dcps3", 5, 3, "Base">>}
IsDcps(name) == name \in {"Dcps1", "Dcps2", "Dcps3"}

(* TENTER: an imm7 and, in bit 12, the nb modifier; the others are zero. *)
TenterField == {i + 4096 * nb : i \in 0..127, nb \in Bit}

DecodeException(w, ip) ==
  LET rows == {r \in ExceptionRow : w.opc = r[2] /\ w.ll = r[3] /\ Gated(r[4])}
      name == (CHOOSE r \in rows : TRUE)[1]
      list == IF IsDcps(name) /\ w.imm = 0 THEN <<>>
              ELSE IF name = "Tenter"
              THEN <<ImmOp(w.imm % 128)>> \o (IF w.imm >= 4096 THEN <<SysOp(<<"nb">>)>> ELSE <<>>)
              ELSE <<ImmOp(w.imm)>>
  IN  IF w.op2 # 0 \/ rows = {} \/ (name = "Tenter" /\ w.imm \notin TenterField)
      THEN NewInvalid(w, ip)
      ELSE Plain(w, ip, <<name>>, list)

EncodeException(x) ==
  LET r == CHOOSE r \in ExceptionRow : <<r[1]>> = x.code
      imm == IF IsDcps(r[1]) /\ x.cnt = 0 THEN 0
             ELSE IF r[1] = "Tenter" THEN (ValAt(x, 0) % 128) + (IF x.cnt > 1 THEN 4096 ELSE 0)
             ELSE ValAt(x, 0)
  IN  With(IsImmAt(x, 0) \/ (IsDcps(r[1]) /\ x.cnt = 0),
           IF imm > 65535 THEN BadImmediate ELSE Ok(0),
           [cls |-> "exception", opc |-> r[2], imm |-> imm, op2 |-> 0, ll |-> r[3]])

(***************************************************************************)
(* System words                                                            *)
(***************************************************************************)

(* system_word and system_pair_word: every field is masked to its width. *)
Block(cls, l, op0, op1, crn, crm, op2, rt) ==
  [cls |-> cls, l |-> l, op0 |-> op0, op1 |-> op1 % 8, crn |-> crn % 16, crm |-> crm % 16,
   op2 |-> op2 % 8, rt |-> rt]
Sys(l, op0, op1, crn, crm, op2, rt) == Block("system", l, op0, op1, crn, crm, op2, rt)

SysReg(w) == SysOp(<<"sysreg", w.op0, w.op1, w.crn, w.crm, w.op2>>)
Cr(n) == SysOp(<<"c", n>>)
IsSysRegAt(x, n) == OpAt(x, n).kind = "Other" /\ OpAt(x, n).dec[1] = "sysreg"
IsTokenOp(x, n) == OpAt(x, n).kind = "Other" /\ OpAt(x, n).dec[1] \notin {"sysreg", "pair"}
IsCrAt(x, n)  == IsTokenOp(x, n) /\ OpAt(x, n).dec[1] = "c" /\ Len(OpAt(x, n).dec) = 2
CrAt(x, n)    == OpAt(x, n).dec[2]
U32At(x, n)   == ValAt(x, n) % U32Mod            \* imm_u(..) as u32

(***************************************************************************)
(* Hints                                                                   *)
(***************************************************************************)
PAuthHints ==
  {<<7, "Xpaclri">>, <<8, "Pacia1716">>, <<10, "Pacib1716">>, <<12, "Autia1716">>, <<14, "Autib1716">>,
   <<24, "Paciaz">>, <<25, "Paciasp">>, <<26, "Pacibz">>, <<27, "Pacibsp">>, <<28, "Autiaz">>,
   <<29, "Autiasp">>, <<30, "Autibz">>, <<31, "Autibsp">>, <<39, "Pacm">>}

(* <<selector, Code, mnemonic, operands, feature>>.  A selector that is not
   here, or whose feature is off, is a HINT #imm. *)
HintRow ==
  {<<r[1], "HintGeneric", r[2], <<>>, "PAuth">> : r \in PAuthHints}
    \cup {<<r[1], r[2], r[2], r[3], r[4]>> : r \in
           {<<0, "Nop", <<>>, "Base">>, <<1, "Yield", <<>>, "Base">>, <<2, "Wfe", <<>>, "Base">>,
            <<3, "Wfi", <<>>, "Base">>, <<4, "Sev", <<>>, "Base">>, <<5, "Sevl", <<>>, "Base">>,
            <<6, "Dgh", <<>>, "Dgh">>, <<16, "Esb", <<>>, "Base">>,
            <<17, "Psb", <<SysOp(<<"csync">>)>>, "Base">>, <<18, "Tsb", <<SysOp(<<"csync">>)>>, "Trf">>,
            <<19, "Gcsb", <<SysOp(<<"dsync">>)>>, "Gcs">>, <<20, "Csdb", <<>>, "Base">>,
            <<22, "Clrbhb", <<>>, "Clrbhb">>, <<32, "Bti", <<>>, "Base">>,
            <<34, "Bti", <<SysOp(<<"c">>)>>, "Base">>, <<36, "Bti", <<SysOp(<<"j">>)>>, "Base">>,
            <<38, "Bti", <<SysOp(<<"jc">>)>>, "Base">>, <<40, "Chkfeat", <<Gp(1, 16)>>, "Chk">>,
            <<48, "Stshh", <<SysOp(<<"keep">>)>>, "Pcdphint">>,
            <<49, "Stshh", <<SysOp(<<"strm">>)>>, "Pcdphint">>, <<50, "Shuh", <<>>, "Pcdphint">>,
            <<51, "Shuh", <<SysOp(<<"ph">>)>>, "Pcdphint">>, <<52, "Stcph", <<>>, "Pcdphint">>}}
    \cup {<<48 + n, "Stshh", "Stshh", <<ImmOp(n)>>, "Pcdphint">> : n \in 5..7}

DecodeHint(w, ip, F) ==
  LET sel  == 8 * w.crm + w.op2
      rows == {r \in HintRow : r[1] = sel /\ Has(F, r[5])}
      r    == CHOOSE r \in rows : TRUE
  IN  IF w.rt # 31 THEN NewInvalid(w, ip)
      ELSE IF rows = {} THEN Alias(w, ip, <<"HintGeneric">>, "Hint", <<ImmOp(sel)>>)
      ELSE Alias(w, ip, <<r[2]>>, r[3], r[4])

(* Only BTI, SHUH and STSHH have an operand to look at. *)
EncodeHint(x) ==
  LET first == IF x.cnt = 0 THEN <<>> ELSE <<OpAt(x, 0)>>
      choosy == x.code[1] \in {"Bti", "Shuh", "Stshh"}
      rows  == {r \in HintRow : <<r[2]>> = x.code /\ <<r[3]>> = x.mnem /\ (choosy => r[4] = first)}
      generic == x.mnem = <<"Hint">>
      number  == x.code = <<"Stshh">> /\ OpAt(x, 0).kind = "ImmUnsigned"
      sel == IF generic THEN U32At(x, 0) ELSE IF number THEN 48 + (ValAt(x, 0) % 8)
             ELSE Fixed(rows)[1]
  IN  IF IF generic THEN ~IsImmAt(x, 0) ELSE ~number /\ rows = {} THEN BadOperand
      ELSE IF sel > 127 THEN BadImmediate
      ELSE Ok(Sys(0, 0, 3, 2, sel \div 8, sel, 31))

(***************************************************************************)
(* WFET and WFIT, and the barriers                                         *)
(***************************************************************************)
WfxtName == <<"Wfet", "Wfit">>

DecodeWfxt(w, ip, F) ==
  IF w.crm # 0 \/ ~Has(F, "Wfxt") \/ w.op2 > 1 THEN NewInvalid(w, ip)
  ELSE Plain(w, ip, <<Entry(WfxtName, w.op2)>>, <<Gp(1, w.rt)>>)

EncodeWfxt(x) ==
  With(IsRegAt(x, 0), Ok(0), Sys(0, 0, 3, 1, 0, Place(WfxtName, x.code[1]), RegAt(x, 0)))

(* The named options, by CRm; the others are numbers. *)
BarrierOption == <<"", "oshld", "oshst", "osh", "", "nshld", "nshst", "nsh", "", "ishld", "ishst",
                   "ish", "", "ld", "st", "sy">>
Option(crm) == IF crm % 4 = 0 THEN ImmOp(crm) ELSE SysOp(<<Entry(BarrierOption, crm)>>)
NxsOption == <<"oshnxs", "nshnxs", "ishnxs", "synxs">>

(* The default CRm of CLREX and ISB is not shown. *)
Elided(crm) == IF crm = 15 THEN <<>> ELSE <<ImmOp(crm)>>

DecodeBarrier(w, ip, F) ==
  CASE w.rt # 31 -> NewInvalid(w, ip)
    [] w.rt = 31 /\ w.op2 = 1 /\ w.crm % 4 = 2 /\ Has(F, "Xs") ->
         Plain(w, ip, <<"Dsb">>, <<SysOp(<<Entry(NxsOption, w.crm \div 4)>>)>>)
    [] w.rt = 31 /\ w.op2 = 2 -> Plain(w, ip, <<"Clrex">>, Elided(w.crm))
    [] w.rt = 31 /\ w.op2 = 3 /\ w.crm = 0 /\ Has(F, "Tme") -> Plain(w, ip, <<"Tcommit">>, <<>>)
    [] w.rt = 31 /\ w.op2 = 4 /\ w.crm = 0 -> Alias(w, ip, <<"Dsb">>, "Ssbb", <<>>)
    [] w.rt = 31 /\ w.op2 = 4 /\ w.crm = 4 -> Alias(w, ip, <<"Dsb">>, "Pssbb", <<>>)
    [] w.rt = 31 /\ w.op2 = 4 /\ w.crm \notin {0, 4} -> Plain(w, ip, <<"Dsb">>, <<Option(w.crm)>>)
    [] w.rt = 31 /\ w.op2 = 5 -> Plain(w, ip, <<"Dmb">>, <<Option(w.crm)>>)
    [] w.rt = 31 /\ w.op2 = 6 -> Plain(w, ip, <<"Isb">>, Elided(w.crm))
    [] w.rt = 31 /\ w.op2 = 7 -> Plain(w, ip, <<"Sb">>, <<>>)
    [] OTHER -> NewInvalid(w, ip)

(* A barrier word; CRm is masked to its four bits. *)
Barrier(crm, op2) == Sys(0, 0, 3, 3, crm, op2, 31)

(* barrier_crm *)
OptionField(x) ==
  LET named == {c \in 0..15 : c % 4 # 0 /\ IsTokenAt(x, 0, <<Entry(BarrierOption, c)>>)}
  IN  IF IsImmAt(x, 0) /\ OpAt(x, 0).kind # "ShiftAmount" THEN Ok(ValAt(x, 0) % 16)
      ELSE IF named # {} THEN Ok(Fixed(named)) ELSE BadOperand
ElidedField(x) ==
  IF x.cnt = 0 THEN Ok(15) ELSE IF IsImmAt(x, 0) THEN Ok(ValAt(x, 0)) ELSE BadOperand

EncodeBarrier(x) ==
  LET nxs == {i \in 0..3 : IsTokenAt(x, 0, <<Entry(NxsOption, i)>>)}
  IN  CASE x.code = <<"Clrex">> -> With(TRUE, ElidedField(x), Barrier(ElidedField(x).v, 2))
        [] x.code = <<"Isb">>   -> With(TRUE, ElidedField(x), Barrier(ElidedField(x).v, 6))
        [] x.code = <<"Tcommit">> -> Ok(Barrier(0, 3))
        [] x.code = <<"Sb">>    -> Ok(Barrier(0, 7))
        [] x.code = <<"Dmb">>   -> With(TRUE, OptionField(x), Barrier(OptionField(x).v, 5))
        [] x.code = <<"Dsb">> /\ nxs # {} -> Ok(Barrier(4 * Fixed(nxs) + 2, 1))
        [] x.code = <<"Dsb">> /\ nxs = {} /\ x.mnem = <<"Ssbb">>  -> Ok(Barrier(0, 4))
        [] x.code = <<"Dsb">> /\ nxs = {} /\ x.mnem = <<"Pssbb">> -> Ok(Barrier(4, 4))
        [] OTHER -> With(TRUE, OptionField(x), Barrier(OptionField(x).v, 4))

(***************************************************************************)
(* MSR (immediate)                                                         *)
(***************************************************************************)
PState == {<<"uao", 0, 3>>, <<"spsel", 0, 5>>, <<"ssbs", 3, 1>>, <<"dit", 3, 2>>, <<"tco", 3, 4>>,
           <<"daifset", 3, 6>>, <<"daifclr", 3, 7>>, <<"allint", 1, 0>>}
FlagName == <<"Cfinv", "Xaflag", "Axflag">>
StreamName == <<"Smstop", "Smstart">>

(* The CRm of SMSTART and SMSTOP: the state it names, if only one. *)
StreamOption(crm) ==
  CASE (crm \div 2) % 4 = 1 -> <<SysOp(<<"sm">>)>>
    [] (crm \div 2) % 4 = 2 -> <<SysOp(<<"za">>)>>
    [] OTHER -> <<>>

(* The selectors without a name are moves to a register. *)
DecodeMsrImm(w, ip) ==
  LET fields == {r \in PState : w.op1 = r[2] /\ w.op2 = r[3] /\ (r[1] = "ssbs" => w.crm <= 1)}
  IN  IF w.rt # 31 THEN NewInvalid(w, ip)
      ELSE IF w.op1 = 3 /\ w.op2 = 3
      THEN Plain(w, ip, <<Entry(StreamName, w.crm % 2)>>, StreamOption(w.crm))
      ELSE IF w.op1 = 0 /\ w.op2 <= 2 THEN Plain(w, ip, <<Entry(FlagName, w.op2)>>, <<>>)
      ELSE IF fields # {}
      THEN Alias(w, ip, <<"MsrImm">>, "Msr", <<SysOp(<<Fixed(fields)[1]>>), ImmOp(w.crm)>>)
      ELSE Alias(w, ip, <<"MsrReg">>, "Msr", <<SysReg(w), Gp(1, 31)>>)

(* pstate_field_fields *)
PStateField(x) == {r \in PState : IsTokenAt(x, 0, <<r[1]>>)}

MsrImmWord(op1, crm, op2) == Sys(0, 0, op1, 4, crm, op2, 31)
EncodeMsrImm(x) ==
  LET start  == Place(StreamName, x.code[1])
      states == {s \in 1..3 : StreamOption(2 * s) = IF x.cnt = 0 THEN <<>> ELSE <<OpAt(x, 0)>>}
      r == Fixed(PStateField(x))
  IN  IF Lists(FlagName, x.code[1]) THEN Ok(MsrImmWord(0, 0, Place(FlagName, x.code[1])))
      ELSE IF Lists(StreamName, x.code[1])
      THEN With(states # {}, Ok(0), MsrImmWord(3, 2 * Fixed(states) + start, 3))
      ELSE With(PStateField(x) # {} /\ IsImmAt(x, 1),
                IF U32At(x, 1) > 15 THEN BadImmediate ELSE Ok(0),
                MsrImmWord(r[2], U32At(x, 1), r[3]))
=============================================================================
