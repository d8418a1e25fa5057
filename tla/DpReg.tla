------------------------------- MODULE DpReg -------------------------------
(***************************************************************************)
(* Data processing with registers: the decoders of src/decode/dp_reg.rs    *)
(* with the preferred aliases they choose, and the encoders of             *)
(* src/encode/dp_reg.rs that undo the aliases.                             *)
(*                                                                         *)
(* A word is a record of the fields of its class.  The decoration of a     *)
(* register operand is <<shift, amount, extend>>: the shift is one of      *)
(* ShiftName or NoShift, the extend an option value or NoExtend.           *)
(***************************************************************************)
EXTENDS Spelling

Imm6 == 0..63

LogicalShiftedWord == [class : {"logical"}, sf : Bit, opc : 0..3, shift : 0..3, n : Bit,
                       rm : RegNum, imm6 : Imm6, rn : RegNum, rd : RegNum]
AddSubShiftedWord  == [class : {"addsub"}, sf : Bit, op : Bit, s : Bit, shift : 0..3,
                       rm : RegNum, imm6 : Imm6, rn : RegNum, rd : RegNum]
ExtendedWord       == [class : {"extended"}, sf : Bit, op : Bit, s : Bit, opt : 0..3,
                       rm : RegNum, option : 0..7, imm3 : 0..7, rn : RegNum, rd : RegNum]
CarryWord          == [class : {"carry"}, sf : Bit, op : Bit, s : Bit, rm : RegNum,
                       op3 : Imm6, rn : RegNum, rd : RegNum]
CompareWord        == [class : {"compare"}, sf : Bit, op : Bit, s : Bit, rm : RegNum,
                       cond : 0..15, form : Bit, o2 : Bit, rn : RegNum, o3 : Bit, nzcv : 0..15]
SelectWord         == [class : {"select"}, sf : Bit, op : Bit, s : Bit, rm : RegNum,
                       cond : 0..15, o1 : Bit, o2 : Bit, rn : RegNum, rd : RegNum]
ThreeWord          == [class : {"three"}, sf : Bit, op54 : 0..3, op31 : 0..7, rm : RegNum,
                       o0 : Bit, ra : RegNum, rn : RegNum, rd : RegNum]
TwoWord            == [class : {"two"}, sf : Bit, s : Bit, rm : RegNum, opcode : Imm6,
                       rn : RegNum, rd : RegNum]
OneWord            == [class : {"one"}, sf : Bit, s : Bit, opcode2 : RegNum, opcode : Imm6,
                       rn : RegNum, rd : RegNum]

DpRegWord == LogicalShiftedWord \cup AddSubShiftedWord \cup ExtendedWord \cup CarryWord \cup CompareWord
               \cup SelectWord \cup ThreeWord \cup TwoWord \cup OneWord

(***************************************************************************)
(* Faulty variants, used to show that the properties detect them.          *)
(***************************************************************************)
IsMov_AnyShift(name, w) == name = "OrrShifted" /\ w.rn = 31 /\ w.shift = 0
CondOk_Any(cond) == TRUE
Narrow_HalfWord(sf, imm6) == sf = 0 /\ (imm6 \div 16) % 2 = 1
LslOptionOf_Always64(sf) == 3
RmifSplit_OneTooHigh(imm6) == [rm |-> imm6, low |-> 0]

(***************************************************************************)
(* Decode                                                                  *)
(***************************************************************************)

ShiftName == <<"Lsl", "Lsr", "Asr", "Ror">>
NoShift == "NoShift"
NoExtend == -1

(* reg_shifted: LSL #0 is folded away, any other shift by zero is kept. *)
RegShifted(sf, n, shift, amt) ==
  IF shift = 0 /\ amt = 0
  THEN Gp(sf, n)
  ELSE [Gp(sf, n) EXCEPT !.dec = <<ShiftName[shift + 1], amt, NoExtend>>]

LogicalShiftedName == <<"AndShifted", "BicShifted", "OrrShifted", "OrnShifted",
                 "EorShifted", "EonShifted", "AndsShifted", "BicsShifted">>

IsMov(name, w) == name = "OrrShifted" /\ w.rn = 31 /\ w.shift = 0 /\ w.imm6 = 0

DecodeLogicalShifted(w, ip) ==
  LET name == LogicalShiftedName[2 * w.opc + w.n + 1]
      c    == CodeOf(name, w.sf)
      rd   == Gp(w.sf, w.rd)
      rn   == Gp(w.sf, w.rn)
      rm   == RegShifted(w.sf, w.rm, w.shift, w.imm6)
  IN  IF w.sf = 0 /\ w.imm6 >= 32 THEN NewInvalid(w, ip)
      ELSE IF IsMov(name, w) THEN Alias(w, ip, c, "Mov", <<rd, Gp(w.sf, w.rm)>>)
      ELSE IF name = "OrnShifted" /\ w.rn = 31 THEN Alias(w, ip, c, "Mvn", <<rd, rm>>)
      ELSE IF name = "AndsShifted" /\ w.rd = 31 THEN Alias(w, ip, c, "Tst", <<rn, rm>>)
      ELSE Plain(w, ip, c, <<rd, rn, rm>>)

AddSubShiftedName == <<"AddShifted", "AddsShifted", "SubShifted", "SubsShifted">>
CompareAlias(op) == IF op = 1 THEN "Cmp" ELSE "Cmn"

DecodeAddSubShifted(w, ip) ==
  LET c  == CodeOf(AddSubShiftedName[2 * w.op + w.s + 1], w.sf)
      rd == Gp(w.sf, w.rd)
      rn == Gp(w.sf, w.rn)
      rm == RegShifted(w.sf, w.rm, w.shift, w.imm6)
  IN  IF w.shift = 3 \/ (w.sf = 0 /\ w.imm6 >= 32) THEN NewInvalid(w, ip)
      ELSE IF w.s = 1 /\ w.rd = 31 THEN Alias(w, ip, c, CompareAlias(w.op), <<rn, rm>>)
      ELSE IF w.op = 1 /\ w.rn = 31
           THEN Alias(w, ip, c, IF w.s = 1 THEN "Negs" ELSE "Neg", <<rd, rm>>)
      ELSE Plain(w, ip, c, <<rd, rn, rm>>)

ExtendedName == <<"AddExtended", "AddsExtended", "SubExtended", "SubsExtended">>

(* The option spelled LSL: UXTX or UXTW, the one of the operation's size. *)
LslOption(sf) == IF sf = 1 THEN 3 ELSE 2

(* build_extended_rm: as an LSL next to SP, else with its extend.  Rm is an X
   register only for a doubleword extend of a 64-bit operation. *)
ExtendedRm(w, lsl) ==
  LET wide == IF w.sf = 1 /\ w.option % 4 = 3 THEN 1 ELSE 0
  IN  IF lsl THEN RegShifted(wide, w.rm, 0, w.imm3)
             ELSE [Gp(wide, w.rm) EXCEPT !.dec = <<"Lsl", w.imm3, w.option>>]

DecodeExtended(w, ip) ==
  LET c   == CodeOf(ExtendedName[2 * w.op + w.s + 1], w.sf)
      cmp == w.s = 1 /\ w.rd = 31
      sp  == w.rn = 31 \/ (~cmp /\ w.rd = 31)
      rm  == ExtendedRm(w, w.option = LslOption(w.sf) /\ sp)
      rn  == GpSp(w.sf, w.rn)
  IN  IF w.opt # 0 \/ w.imm3 > 4 THEN NewInvalid(w, ip)
      ELSE IF cmp THEN Alias(w, ip, c, CompareAlias(w.op), <<rn, rm>>)
      ELSE Plain(w, ip, c, <<IF w.s = 1 THEN Gp(w.sf, w.rd) ELSE GpSp(w.sf, w.rd), rn, rm>>)

CarryName == <<"Adc", "Adcs", "Sbc", "Sbcs">>

DecodeCarry(w, ip) ==
  LET c == CodeOf(CarryName[2 * w.op + w.s + 1], w.sf)
  IN  IF w.op = 1 /\ w.rn = 31
      THEN Alias(w, ip, c, IF w.s = 1 THEN "Ngcs" ELSE "Ngc",
                 <<Gp(w.sf, w.rd), Gp(w.sf, w.rm)>>)
      ELSE Plain(w, ip, c, <<Gp(w.sf, w.rd), Gp(w.sf, w.rn), Gp(w.sf, w.rm)>>)

(* RMIF and SETF read word<20:15>, which straddles Rm and op3, and split Rd
   into bit 4 and a mask. *)
Imm20_15(w) == 2 * w.rm + w.op3 \div 32

DecodeRmif(w, ip) ==
  IF <<w.sf, w.op, w.s>> # <<1, 0, 1>> \/ w.rd >= 16
  THEN NewInvalid(w, ip)
  ELSE Plain(w, ip, CodeOf("Rmif", 1), <<Gp(1, w.rn), ImmOp(Imm20_15(w)), ImmOp(w.rd)>>)

DecodeSetf(w, ip) ==
  IF <<w.sf, w.op, w.s>> # <<0, 0, 1>> \/ Imm20_15(w) # 0 \/ w.rd # 13
  THEN NewInvalid(w, ip)
  ELSE Plain(w, ip, CodeOf(IF (w.op3 \div 16) % 2 = 0 THEN "Setf8" ELSE "Setf16", 0),
             <<Gp(0, w.rn)>>)

DecodeAddPt(w, ip) ==
  IF "Cpa" \notin Features \/ w.sf = 0 \/ w.s = 1
  THEN NewInvalid(w, ip)
  ELSE Plain(w, ip, CodeOf(IF w.op = 0 THEN "Addpt" ELSE "Subpt", 1),
             <<GpSp(1, w.rd), GpSp(1, w.rn), RegShifted(1, w.rm, 0, w.op3 % 8)>>)

(* The slot word<23:21> = 000 of the group, told apart on word<15:10>. *)
DecodeCarrySlot(w, ip) ==
  IF w.op3 = 0 THEN DecodeCarry(w, ip)
  ELSE IF w.op3 % 32 = 1 THEN DecodeRmif(w, ip)
  ELSE IF w.op3 % 16 = 2 THEN DecodeSetf(w, ip)
  ELSE IF w.op3 \div 8 = 1 THEN DecodeAddPt(w, ip)
  ELSE NewInvalid(w, ip)

CompareName == <<"CcmnReg", "CcmnImm", "CcmpReg", "CcmpImm">>

(* The immediate form reuses the Rm field as an unsigned immediate. *)
DecodeCompare(w, ip) ==
  IF w.s # 1 \/ w.o2 # 0 \/ w.o3 # 0
  THEN NewInvalid(w, ip)
  ELSE Plain(w, ip, CodeOf(CompareName[2 * w.op + w.form + 1], w.sf),
             <<Gp(w.sf, w.rn), IF w.form = 1 THEN ImmOp(w.rm) ELSE Gp(w.sf, w.rm),
               ImmOp(w.nzcv), CondOp(w.cond)>>)

SelectName == <<"Csel", "Csinc", "Csinv", "Csneg">>

Invert(c) == IF c % 2 = 0 THEN c + 1 ELSE c - 1      \* Condition::invert

(* AL and NV have no inverse: both always hold. *)
CondOk(cond) == cond < 14

DecodeSelect(w, ip) ==
  LET name == SelectName[2 * w.op + w.o2 + 1]
      c    == CodeOf(name, w.sf)
      rd   == Gp(w.sf, w.rd)
      rn   == Gp(w.sf, w.rn)
      both == w.rm = w.rn /\ CondOk(w.cond) /\ name # "Csel"
  IN  IF w.s # 0 \/ w.o1 # 0 THEN NewInvalid(w, ip)
      ELSE IF both /\ w.rn = 31 /\ name # "Csneg"
           THEN Alias(w, ip, c, IF name = "Csinc" THEN "Cset" ELSE "Csetm",
                      <<rd, CondOp(Invert(w.cond))>>)
      ELSE IF both
           THEN Alias(w, ip, c,
                      CASE name = "Csinc" -> "Cinc" [] name = "Csinv" -> "Cinv" [] OTHER -> "Cneg",
                      <<rd, rn, CondOp(Invert(w.cond))>>)
      ELSE Plain(w, ip, c, <<rd, rn, Gp(w.sf, w.rm), CondOp(w.cond)>>)

(* Dp3Kind and the encodings: op31, o0, name, widths, shape and the alias of
   Ra = ZR. *)
ThreeSource ==
  {<<0, 0, "Madd",   Bit, "MaddSub",      "Mul">>,
   <<0, 1, "Msub",   Bit, "MaddSub",      "Mneg">>,
   <<1, 0, "Smaddl", {1}, "WidenMaddSub", "Smull">>,
   <<1, 1, "Smsubl", {1}, "WidenMaddSub", "Smnegl">>,
   <<2, 0, "Smulh",  {1}, "HighMul",      "none">>,
   <<3, 0, "Maddpt", {1}, "PtMaddSub",    "none">>,
   <<3, 1, "Msubpt", {1}, "PtMaddSub",    "none">>,
   <<5, 0, "Umaddl", {1}, "WidenMaddSub", "Umull">>,
   <<5, 1, "Umsubl", {1}, "WidenMaddSub", "Umnegl">>,
   <<6, 0, "Umulh",  {1}, "HighMul",      "none">>}

DecodeThree(w, ip) ==
  LET rows == {r \in ThreeSource : r[1] = w.op31 /\ r[2] = w.o0 /\ w.sf \in r[4]}
      row  == CHOOSE r \in rows : TRUE
      c    == CodeOf(row[3], w.sf)
      src  == IF row[5] = "WidenMaddSub" THEN 0 ELSE w.sf
      regs == <<Gp(w.sf, w.rd), Gp(src, w.rn), Gp(src, w.rm)>>
  IN  IF w.op54 # 0 \/ rows = {} THEN NewInvalid(w, ip)
      ELSE IF row[5] = "HighMul" THEN Plain(w, ip, c, regs)
      ELSE IF row[5] # "PtMaddSub" /\ w.ra = 31 THEN Alias(w, ip, c, row[6], regs)
      ELSE Plain(w, ip, c, Append(regs, Gp(w.sf, w.ra)))

(* The two-source encodings: S, opcode, name, widths, and the feature that
   gates them. *)
TwoSource ==
  {<<0, 0,  "SubpDp",  {1}, "Mte">>,   <<1, 0,  "SubpsDp", {1}, "Mte">>,
   <<0, 2,  "Udiv",    Bit, "Base">>,  <<0, 3,  "Sdiv",    Bit, "Base">>,
   <<0, 4,  "IrgDp",   {1}, "Mte">>,   <<0, 5,  "GmiDp",   {1}, "Mte">>,
   <<0, 8,  "Lslv",    Bit, "Base">>,  <<0, 9,  "Lsrv",    Bit, "Base">>,
   <<0, 10, "Asrv",    Bit, "Base">>,  <<0, 11, "Rorv",    Bit, "Base">>,
   <<0, 12, "Pacga",   {1}, "PAuth">>,
   <<0, 16, "Crc32b",  {0}, "Base">>,  <<0, 17, "Crc32h",  {0}, "Base">>,
   <<0, 18, "Crc32w",  {0}, "Base">>,  <<0, 19, "Crc32x",  {1}, "Base">>,
   <<0, 20, "Crc32cb", {0}, "Base">>,  <<0, 21, "Crc32ch", {0}, "Base">>,
   <<0, 22, "Crc32cw", {0}, "Base">>,  <<0, 23, "Crc32cx", {1}, "Base">>,
   <<0, 24, "SmaxReg", Bit, "Cssc">>,  <<0, 25, "UmaxReg", Bit, "Cssc">>,
   <<0, 26, "SminReg", Bit, "Cssc">>,  <<0, 27, "UminReg", Bit, "Cssc">>}

VarShift == {"Lslv", "Lsrv", "Asrv", "Rorv"}
VarShiftAlias(name) ==
  CASE name = "Lslv" -> "Lsl" [] name = "Lsrv" -> "Lsr" [] name = "Asrv" -> "Asr"
    [] name = "Rorv" -> "Ror"

(* Rd, Rn, Rm with the roles that read 31 as SP; CRC32 accumulates in W
   registers; IRG drops a zero Rm. *)
TwoOps(name, w) ==
  LET acc == IF w.opcode \in 16..23 THEN 0 ELSE w.sf
      rd  == IF name = "IrgDp" THEN GpSp(1, w.rd) ELSE Gp(acc, w.rd)
      rn  == IF name \in {"SubpDp", "SubpsDp", "IrgDp", "GmiDp"} THEN GpSp(1, w.rn)
             ELSE Gp(acc, w.rn)
      rm  == IF name \in {"SubpDp", "SubpsDp", "Pacga"} THEN GpSp(1, w.rm) ELSE Gp(w.sf, w.rm)
  IN  IF name = "IrgDp" /\ w.rm = 31 THEN <<rd, rn>> ELSE <<rd, rn, rm>>

DecodeTwo(w, ip) ==
  LET rows == {r \in TwoSource : r[1] = w.s /\ r[2] = w.opcode /\ w.sf \in r[4] /\ Gated(r[5])}
      name == (CHOOSE r \in rows : TRUE)[3]
      c    == CodeOf(name, w.sf)
  IN  IF rows = {} THEN NewInvalid(w, ip)
      ELSE IF name \in VarShift THEN Alias(w, ip, c, VarShiftAlias(name), TwoOps(name, w))
      ELSE Plain(w, ip, c, TwoOps(name, w))

(* The one-source encodings: opcode, name, widths, feature. *)
OneSource ==
  {<<0, "Rbit", Bit, "Base">>, <<1, "Rev16", Bit, "Base">>,
   <<2, "Rev",  {0}, "Base">>, <<2, "Rev32", {1}, "Base">>, <<3, "Rev", {1}, "Base">>,
   <<4, "Clz",  Bit, "Base">>, <<5, "Cls",   Bit, "Base">>,
   <<6, "Ctz",  Bit, "Cssc">>, <<7, "Cnt",   Bit, "Cssc">>, <<8, "Abs", Bit, "Cssc">>}

DecodeBasic(w, ip) ==
  LET rows == {r \in OneSource : r[1] = w.opcode /\ w.sf \in r[3] /\ Gated(r[4])}
  IN  IF rows = {} THEN NewInvalid(w, ip)
      ELSE Plain(w, ip, CodeOf((CHOOSE r \in rows : TRUE)[2], w.sf),
                 <<Gp(w.sf, w.rd), Gp(w.sf, w.rn)>>)

(* Pointer authentication in opcode order: 0 to 7 with a modifier register,
   8 to 17 the Z and XPAC forms without one. *)
PauthName == <<"PaciaDp", "PacibDp", "PacdaDp", "PacdbDp",
               "AutiaDp", "AutibDp", "AutdaDp", "AutdbDp",
               "PacizaDp", "PacizbDp", "PacdzaDp", "PacdzbDp",
               "AutizaDp", "AutizbDp", "AutdzaDp", "AutdzbDp", "XpaciDp", "XpacdDp">>

(* FEAT_PAuth_LR: the destination is LR, the source SP or, for SPPCR, Rn. *)
LrSource ==
  {<<40, "Paciasppc">>, <<41, "Pacibsppc">>, <<32, "Pacnbiasppc">>, <<33, "Pacnbibsppc">>,
   <<36, "Autiasppcr">>, <<37, "Autibsppcr">>}
Sppcr == {"Autiasppcr", "Autibsppcr"}

DecodePauth(w, ip) ==
  LET rows == {r \in LrSource : /\ "PauthLr" \in Features /\ w.rd = 30
                                /\ r[1] = w.opcode /\ (r[2] \in Sppcr \/ w.rn = 31)}
      lr   == (CHOOSE r \in rows : TRUE)[2]
      z    == w.opcode >= 8
  IN  IF w.sf # 1 THEN NewInvalid(w, ip)
      ELSE IF rows # {}
           THEN Plain(w, ip, CodeOf(lr, 1), IF lr \in Sppcr THEN <<Gp(1, w.rn)>> ELSE <<>>)
      ELSE IF "PAuth" \notin Features \/ w.opcode > 17 \/ (z /\ w.rn # 31)
           THEN NewInvalid(w, ip)
      ELSE Plain(w, ip, CodeOf(PauthName[w.opcode + 1], 1),
                 IF z THEN <<Gp(1, w.rd)>> ELSE <<Gp(1, w.rd), GpSp(1, w.rn)>>)

DecodeOne(w, ip) ==
  IF w.s # 0 THEN NewInvalid(w, ip)
  ELSE CASE w.opcode2 = 0 -> DecodeBasic(w, ip)
         [] w.opcode2 = 1 -> DecodePauth(w, ip)
         [] OTHER -> NewInvalid(w, ip)

(* dp_reg::decode. *)
DecodeDpReg(w, ip) ==
  CASE w.class = "logical"  -> DecodeLogicalShifted(w, ip)
    [] w.class = "addsub"   -> DecodeAddSubShifted(w, ip)
    [] w.class = "extended" -> DecodeExtended(w, ip)
    [] w.class = "carry"    -> DecodeCarrySlot(w, ip)
    [] w.class = "compare"  -> DecodeCompare(w, ip)
    [] w.class = "select"   -> DecodeSelect(w, ip)
    [] w.class = "three"    -> DecodeThree(w, ip)
    [] w.class = "two"      -> DecodeTwo(w, ip)
    [] w.class = "one"      -> DecodeOne(w, ip)

(***************************************************************************)
(* Encode                                                                  *)
(***************************************************************************)

AllRegs(x, S) == \A n \in S : IsRegAt(x, n)
IsCondAt(x, n) == OpAt(x, n).kind = "Cond"

(* The shift and the extend of a register operand. *)
ShiftAt(x, n) ==
  LET d == OpAt(x, n).dec
  IN  IF d = NoDec \/ d[1] = NoShift THEN <<"Lsl", 0>> ELSE <<d[1], d[2]>>
ExtendAt(x, n) == LET d == OpAt(x, n).dec IN IF d = NoDec THEN NoExtend ELSE d[3]

(* The option an LSL spelling stands for. *)
LslOptionOf(sf) == IF sf = 1 THEN 3 ELSE 2

(* imm6<5> is set in a 32-bit form. *)
Narrow(sf, imm6) == sf = 0 /\ (imm6 \div 32) % 2 = 1

(* recover_shift: the shift field and imm6. *)
RecoverShift(x, n, sf) ==
  LET s == ShiftAt(x, n)
  IN  IF ~Lists(ShiftName, s[1]) THEN BadOperand
      ELSE IF s[2] > 63 \/ Narrow(sf, s[2]) THEN BadImmediate
      ELSE Ok(<<Place(ShiftName, s[1]), s[2]>>)

(* The operand layouts of the shifted forms: all of Rd, Rn, Rm, or without
   the one of Rd and Rn that is the zero register. *)
RdOf(x, noRd) == IF noRd THEN 31 ELSE RegAt(x, 0)
RnOf(x, noRd, noRn) == IF noRn THEN 31 ELSE IF noRd THEN RegAt(x, 0) ELSE RegAt(x, 1)
RmSlot(noRd, noRn) == IF noRd \/ noRn THEN 1 ELSE 2

EncodeLogicalShifted(x) ==
  LET i    == Place(LogicalShiftedName, x.code[1])
      noRd == x.mnem = <<"Tst">>
      noRn == x.mnem \in {<<"Mov">>, <<"Mvn">>}
      at   == RmSlot(noRd, noRn)
      f    == IF x.mnem = <<"Mov">> THEN Ok(<<0, 0>>) ELSE RecoverShift(x, at, Is64(x))
  IN  With(AllRegs(x, 0..at), f,
           [class |-> "logical", sf |-> Is64(x), opc |-> i \div 2, shift |-> f.v[1],
            n |-> i % 2, rm |-> RegAt(x, at), imm6 |-> f.v[2],
            rn |-> RnOf(x, noRd, noRn), rd |-> RdOf(x, noRd)])

EncodeAddSubShifted(x) ==
  LET i    == Place(AddSubShiftedName, x.code[1])
      noRd == x.mnem \in {<<"Cmp">>, <<"Cmn">>}
      noRn == x.mnem \in {<<"Neg">>, <<"Negs">>}
      at   == RmSlot(noRd, noRn)
      f    == RecoverShift(x, at, Is64(x))
  IN  With(AllRegs(x, 0..at), IF f.ok /\ f.v[1] = 3 THEN BadOperand ELSE f,
           [class |-> "addsub", sf |-> Is64(x), op |-> i \div 2, s |-> i % 2,
            shift |-> f.v[1], rm |-> RegAt(x, at), imm6 |-> f.v[2],
            rn |-> RnOf(x, noRd, noRn), rd |-> RdOf(x, noRd)])

(* recover_extended_rm: the amount whatever its shift; without an extend the
   option was spelled LSL. *)
EncodeExtended(x) ==
  LET i    == Place(ExtendedName, x.code[1])
      noRd == x.mnem \in {<<"Cmp">>, <<"Cmn">>}
      at   == RmSlot(noRd, FALSE)
      amt  == ShiftAt(x, at)[2]
      ext  == ExtendAt(x, at)
  IN  With(AllRegs(x, 0..at), IF amt > 4 THEN BadImmediate ELSE Ok(amt),
           [class |-> "extended", sf |-> Is64(x), op |-> i \div 2, s |-> i % 2, opt |-> 0,
            rm |-> RegAt(x, at),
            option |-> IF ext = NoExtend THEN LslOptionOf(Is64(x)) ELSE ext, imm3 |-> amt,
            rn |-> RnOf(x, noRd, FALSE), rd |-> RdOf(x, noRd)])

EncodeCarry(x) ==
  LET i    == Place(CarryName, x.code[1])
      noRn == x.mnem \in {<<"Ngc">>, <<"Ngcs">>}
      at   == RmSlot(FALSE, noRn)
  IN  With(AllRegs(x, 0..at), Ok(0),
           [class |-> "carry", sf |-> Is64(x), op |-> i \div 2, s |-> i % 2,
            rm |-> RegAt(x, at), op3 |-> 0, rn |-> RnOf(x, FALSE, noRn), rd |-> RegAt(x, 0)])

EncodeAddPt(x) ==
  LET s == ShiftAt(x, 2)
  IN  With(AllRegs(x, 0..2),
           IF s[1] # "Lsl" THEN BadOperand ELSE IF s[2] > 7 THEN BadImmediate ELSE Ok(0),
           [class |-> "carry", sf |-> 1, op |-> IF x.code[1] = "Subpt" THEN 1 ELSE 0, s |-> 0,
            rm |-> RegAt(x, 2), op3 |-> 8 + s[2], rn |-> RegAt(x, 1), rd |-> RegAt(x, 0)])

(* imm6 at word<20:15>: five bits in the Rm field, the last above op3. *)
RmifSplit(imm6) == [rm |-> imm6 \div 2, low |-> imm6 % 2]

EncodeRmif(x) ==
  LET imm6 == ValAt(x, 1)
      mask == ValAt(x, 2)
  IN  With(IsRegAt(x, 0) /\ IsImmAt(x, 1) /\ IsImmAt(x, 2),
           IF imm6 > 63 \/ mask > 15 THEN BadImmediate ELSE Ok(0),
           [class |-> "carry", sf |-> 1, op |-> 0, s |-> 1, rm |-> RmifSplit(imm6).rm,
            op3 |-> 32 * RmifSplit(imm6).low + 1, rn |-> RegAt(x, 0), rd |-> mask])

EncodeSetf(x) ==
  With(IsRegAt(x, 0), Ok(0),
       [class |-> "carry", sf |-> 0, op |-> 0, s |-> 1, rm |-> 0,
        op3 |-> IF x.code[1] = "Setf16" THEN 18 ELSE 2, rn |-> RegAt(x, 0), rd |-> 13])

EncodeCompare(x) ==
  LET i   == Place(CompareName, x.code[1])
      imm == i % 2 = 1
  IN  With(/\ IsRegAt(x, 0) /\ IsImmAt(x, 2) /\ IsCondAt(x, 3)
           /\ IF imm THEN IsImmAt(x, 1) ELSE IsRegAt(x, 1),
           IF (imm /\ ValAt(x, 1) > 31) \/ ValAt(x, 2) > 15 THEN BadImmediate ELSE Ok(0),
           [class |-> "compare", sf |-> Is64(x), op |-> i \div 2, s |-> 1,
            rm |-> IF imm THEN ValAt(x, 1) ELSE RegAt(x, 1), cond |-> ValAt(x, 3),
            form |-> i % 2, o2 |-> 0, rn |-> RegAt(x, 0), o3 |-> 0, nzcv |-> ValAt(x, 2)])

(* The aliases carry the inverted condition; CSET and CSETM have no source,
   CINC, CINV and CNEG one that is both Rn and Rm. *)
EncodeSelect(x) ==
  LET i    == Place(SelectName, x.code[1])
      set  == x.mnem \in {<<"Cset">>, <<"Csetm">>}
      one  == x.mnem \in {<<"Cinc">>, <<"Cinv">>, <<"Cneg">>}
      at   == IF set THEN 1 ELSE IF one THEN 2 ELSE 3
      cond == ValAt(x, at)
  IN  With(AllRegs(x, 0..(at - 1)) /\ IsCondAt(x, at), Ok(0),
           [class |-> "select", sf |-> Is64(x), op |-> i \div 2, s |-> 0,
            rm |-> IF set THEN 31 ELSE IF one THEN RegAt(x, 1) ELSE RegAt(x, 2),
            cond |-> IF set \/ one THEN Invert(cond) ELSE cond, o1 |-> 0, o2 |-> i % 2,
            rn |-> IF set THEN 31 ELSE RegAt(x, 1), rd |-> RegAt(x, 0)])

EncodeThree(x) ==
  LET row  == CHOOSE r \in ThreeSource : r[3] = x.code[1]
      noRa == \/ row[5] = "HighMul"
              \/ x.mnem \in {<<"Mul">>, <<"Mneg">>, <<"Smull">>, <<"Smnegl">>, <<"Umull">>,
                             <<"Umnegl">>}
  IN  With(AllRegs(x, 0..(IF noRa THEN 2 ELSE 3)), Ok(0),
           [class |-> "three", sf |-> Is64(x), op54 |-> 0, op31 |-> row[1], rm |-> RegAt(x, 2),
            o0 |-> row[2], ra |-> IF noRa THEN 31 ELSE RegAt(x, 3), rn |-> RegAt(x, 1),
            rd |-> RegAt(x, 0)])

EncodeTwo(x) ==
  LET row  == CHOOSE r \in TwoSource : r[3] = x.code[1]
      noRm == row[3] = "IrgDp" /\ x.cnt < 3
  IN  With(AllRegs(x, 0..(IF noRm THEN 1 ELSE 2)), Ok(0),
           [class |-> "two", sf |-> Is64(x), s |-> row[1],
            rm |-> IF noRm THEN 31 ELSE RegAt(x, 2), opcode |-> row[2], rn |-> RegAt(x, 1),
            rd |-> RegAt(x, 0)])

One(sf, opcode2, opcode, rn, rd) ==
  [class |-> "one", sf |-> sf, s |-> 0, opcode2 |-> opcode2, opcode |-> opcode,
   rn |-> rn, rd |-> rd]

(* Code::Rev3232, which no word decodes to, takes the opcode of REV32. *)
EncodeBasic(x) ==
  LET row == CHOOSE r \in OneSource : r[2] = x.code[1] /\ (Is64(x) \in r[3] \/ r[2] = "Rev32")
  IN  With(AllRegs(x, {0, 1}), Ok(0), One(Is64(x), 0, row[1], RegAt(x, 1), RegAt(x, 0)))

EncodePauth(x) ==
  LET lr     == {r \in LrSource : r[2] = x.code[1]}
      sppcr  == x.code[1] \in Sppcr
      opcode == Place(PauthName, x.code[1])
      z      == opcode >= 8
  IN  IF lr # {}
      THEN With(sppcr => IsRegAt(x, 0), Ok(0),
                One(1, 1, (CHOOSE r \in lr : TRUE)[1], IF sppcr THEN RegAt(x, 0) ELSE 31, 30))
      ELSE With(IsRegAt(x, 0) /\ (z \/ IsRegAt(x, 1)), Ok(0),
                One(1, 1, opcode, IF z THEN 31 ELSE RegAt(x, 1), RegAt(x, 0)))

(* dp_reg::encode. *)
EncodeDpReg(x) ==
  LET c == x.code[1]
  IN  CASE c = "Invalid" -> Err("Invalid")
        [] Lists(LogicalShiftedName, c) -> EncodeLogicalShifted(x)
        [] Lists(AddSubShiftedName, c) -> EncodeAddSubShifted(x)
        [] Lists(ExtendedName, c) -> EncodeExtended(x)
        [] Lists(CarryName, c) -> EncodeCarry(x)
        [] c = "Rmif" -> EncodeRmif(x)
        [] c \in {"Setf8", "Setf16"} -> EncodeSetf(x)
        [] Lists(CompareName, c) -> EncodeCompare(x)
        [] Lists(SelectName, c) -> EncodeSelect(x)
        [] \E r \in ThreeSource : r[3] = c -> EncodeThree(x)
        [] c \in {"Addpt", "Subpt"} -> EncodeAddPt(x)
        [] \E r \in TwoSource : r[3] = c -> EncodeTwo(x)
        [] \E r \in OneSource : r[2] = c -> EncodeBasic(x)
        [] OTHER -> EncodePauth(x)

(* Code::feature, of the Codes of this group. *)
RegFeature(c) ==
  LET two == {r \in TwoSource : r[3] = c[1]}
      one == {r \in OneSource : r[2] = c[1]}
  IN  CASE c[1] \in {"Addpt", "Subpt", "Maddpt", "Msubpt"} -> "Cpa"
        [] two # {} -> (CHOOSE r \in two : TRUE)[5]
        [] one # {} -> (CHOOSE r \in one : TRUE)[4]
        [] Lists(PauthName, c[1]) -> "PAuth"
        [] \E r \in LrSource : r[2] = c[1] -> "PauthLr"
        [] OTHER -> "Base"
=============================================================================
