------------------------------- MODULE DpImm -------------------------------
(***************************************************************************)
(* Data processing with an immediate: the decoders of src/decode/dp_imm.rs *)
(* with the preferred aliases they choose, and the encoders of             *)
(* src/encode/dp_imm.rs that undo the aliases.  ADR and ADRP are in        *)
(* BranchImm.                                                              *)
(*                                                                         *)
(* A word is a record of the fields of its class.  The wide immediates of  *)
(* the logical and move-wide instructions are bit vectors (BitMasks), the  *)
(* others are numbers.                                                     *)
(***************************************************************************)
EXTENDS Spelling, BitMasks

CONSTANTS U32,              \* number of u32 values
          OverflowChecks    \* built with overflow checks (a debug build)

ASSUME DpImmAssumption ==
  XBits = 64 /\ WBits = 32 /\ Lane = 16 /\ U32 \in Nat \ {0} /\ OverflowChecks \in BOOLEAN

AddSubWord   == [class : {"addsub"}, sf : Bit, op : Bit, s : Bit, sh : Bit,
                 imm12 : 0..4095, rn : RegNum, rd : RegNum]
TagsWord     == [class : {"tags"}, sf : Bit, op : Bit, s : Bit, uimm6 : 0..63,
                 op3 : 0..3, uimm4 : 0..15, rn : RegNum, rd : RegNum]
MinMaxWord   == [class : {"minmax"}, sf : Bit, op : Bit, s : Bit, b20 : 0..3,
                 opc : 0..3, imm8 : 0..255, rn : RegNum, rd : RegNum]
LogicalWord  == [class : {"logical"}, sf : Bit, opc : 0..3, n : Bit,
                 immr : 0..(XBits - 1), imms : 0..(XBits - 1), rn : RegNum, rd : RegNum]
MoveWideWord == [class : {"movewide"}, sf : Bit, opc : 0..3, hw : 0..3,
                 imm16 : SUBSET Ones(Lane), rd : RegNum]
BitfieldWord == [class : {"bitfield"}, sf : Bit, opc : 0..3, n : Bit,
                 immr : 0..(XBits - 1), imms : 0..(XBits - 1), rn : RegNum, rd : RegNum]
ExtractWord  == [class : {"extract"}, sf : Bit, op21 : 0..3, n : Bit, o0 : Bit,
                 rm : RegNum, imms : 0..(XBits - 1), rn : RegNum, rd : RegNum]

DpImmWord == AddSubWord \cup TagsWord \cup MinMaxWord \cup LogicalWord
               \cup MoveWideWord \cup BitfieldWord \cup ExtractWord

(***************************************************************************)
(* Faulty variants, used to show that the properties detect them.          *)
(***************************************************************************)
Signed8_Raw(v) == Ok(v)
Inserted_NotNegated(ds, lsb, width) ==
  IF width = 0 THEN Err("InvalidImmediate") ELSE Ok(<<lsb % ds, width - 1>>)
IsMovAlias_KeepsShifted(sf, opc, hw, imm16) == opc \in {0, 2}

(***************************************************************************)
(* Decode                                                                  *)
(***************************************************************************)

SignedOp(bits) == Op("ImmSigned", NoReg, NoReg, bits, NoDec)
LogicalOp(bits) == Op("ImmLogical", NoReg, NoReg, bits, NoDec)
ShiftedOp(imm, lsl) == Op("ImmShiftedMove", NoReg, NoReg, imm, <<lsl>>)

AddSubName == <<"AddImm", "AddsImm", "SubImm", "SubsImm">>

DecodeAddSub(w, ip) ==
  LET c   == CodeOf(AddSubName[2 * w.op + w.s + 1], w.sf)
      imm == ShiftedOp(w.imm12, 12 * w.sh)
  IN  IF w.s = 0 /\ w.op = 0 /\ w.sh = 0 /\ w.imm12 = 0 /\ 31 \in {w.rd, w.rn}
      THEN Alias(w, ip, c, "Mov", <<GpSp(w.sf, w.rd), GpSp(w.sf, w.rn)>>)
      ELSE IF w.s = 1 /\ w.rd = 31
      THEN Alias(w, ip, c, IF w.op = 1 THEN "Cmp" ELSE "Cmn", <<GpSp(w.sf, w.rn), imm>>)
      ELSE Plain(w, ip, c, <<IF w.s = 1 THEN Gp(w.sf, w.rd) ELSE GpSp(w.sf, w.rd),
                             GpSp(w.sf, w.rn), imm>>)

DecodeTags(w, ip) ==
  IF "Mte" \notin Features \/ w.sf # 1 \/ w.s # 0
  THEN NewInvalid(w, ip)
  ELSE Plain(w, ip, <<IF w.op = 1 THEN "SubgImm" ELSE "AddgImm">>,
             <<GpSp(1, w.rd), GpSp(1, w.rn), ImmOp(w.uimm6 * 16), ImmOp(w.uimm4)>>)

MinMaxName == <<"SmaxImm", "UmaxImm", "SminImm", "UminImm">>
IsSigned(opc) == opc % 2 = 0

DecodeMinMax(w, ip) ==
  IF "Cssc" \notin Features \/ w.op # 0 \/ w.s # 0 \/ w.b20 # 0
  THEN NewInvalid(w, ip)
  ELSE Plain(w, ip, CodeOf(MinMaxName[w.opc + 1], w.sf),
             <<Gp(w.sf, w.rd), Gp(w.sf, w.rn),
               IF IsSigned(w.opc) THEN SignedOp(AsU64(SignExtend(w.imm8, 256)))
                                  ELSE ImmOp(w.imm8)>>)

LogicalName == <<"AndImm", "OrrImm", "EorImm", "AndsImm">>

DecodeLogical(w, ip) ==
  LET ds == DataSize(w.sf)
      c  == CodeOf(LogicalName[w.opc + 1], w.sf)
      m  == DecodeBitMasks(w.n, w.imms, w.immr, ds)
  IN  IF (w.sf = 0 /\ w.n = 1) \/ ~m.ok
      THEN NewInvalid(w, ip)
      ELSE IF w.opc = 3 /\ w.rd = 31
      THEN Alias(w, ip, c, "Tst", <<Gp(w.sf, w.rn), LogicalOp(m.v)>>)
      ELSE IF w.opc = 1 /\ w.rn = 31 /\ ~MoveWidePreferred(w.sf, w.n, w.imms, w.immr)
      THEN Alias(w, ip, c, "Mov", <<GpSp(w.sf, w.rd), SignedOp(SignExtended(m.v, ds))>>)
      ELSE Plain(w, ip, c, <<IF w.opc = 3 THEN Gp(w.sf, w.rd) ELSE GpSp(w.sf, w.rd),
                             Gp(w.sf, w.rn), LogicalOp(m.v)>>)

MoveWideName == <<"Movn", "none", "Movz", "Movk">>

(* Shown as MOV: not a shifted zero, and not the MOVN of a 32-bit register
   whose value a MOVZ has too. *)
IsMovAlias(sf, opc, hw, imm16) ==
  /\ opc \in {0, 2}
  /\ ~(imm16 = {} /\ hw # 0)
  /\ ~(opc = 0 /\ sf = 0 /\ imm16 = Ones(Lane))

DecodeMoveWide(w, ip) ==
  LET ds  == DataSize(w.sf)
      c   == CodeOf(MoveWideName[w.opc + 1], w.sf)
      val == IF w.opc = 2 THEN ToLane(w.imm16, w.hw) ELSE Not(ToLane(w.imm16, w.hw), ds)
  IN  IF w.opc = 1 \/ (w.sf = 0 /\ w.hw >= 2)
      THEN NewInvalid(w, ip)
      ELSE IF IsMovAlias(w.sf, w.opc, w.hw, w.imm16)
      THEN Alias(w, ip, c, "Mov", <<Gp(w.sf, w.rd), SignedOp(SignExtended(val, ds))>>)
      ELSE Plain(w, ip, c, <<Gp(w.sf, w.rd), ShiftedOp(w.imm16, w.hw * Lane)>>)

BitfieldName == <<"Sbfm", "Bfm", "Ubfm">>

(* The sign or zero extension a bitfield move with immr = 0 is, if any. *)
ExtendOf(name, ds, imms) ==
  CASE name = "Sbfm" /\ imms = 7 -> <<"Sxtb">>
    [] name = "Sbfm" /\ imms = 15 -> <<"Sxth">>
    [] name = "Sbfm" /\ imms = 31 /\ ds = XBits -> <<"Sxtw">>
    [] name = "Ubfm" /\ imms = 7 /\ ds = WBits -> <<"Uxtb">>
    [] name = "Ubfm" /\ imms = 15 /\ ds = WBits -> <<"Uxth">>
    [] OTHER -> <<>>

(* emit_sbfm_alias, emit_bfm_alias, emit_ubfm_alias: the alias and the
   operands after Rd; every bitfield move has an alias. *)
BitfieldAlias(name, sf, immr, imms, rn) ==
  LET ds     == DataSize(sf)
      max    == ds - 1
      src    == Gp(sf, rn)
      ext    == IF immr = 0 THEN ExtendOf(name, ds, imms) ELSE <<>>
      insert == <<ImmOp((ds - immr) % ds), ImmOp(imms + 1)>>
      take   == <<src, ImmOp(immr), ImmOp(imms - immr + 1)>>
  IN  IF ext # <<>> THEN <<ext[1], <<Gp(0, rn)>>>>
      ELSE IF name = "Ubfm" /\ imms # max /\ imms + 1 = immr
           THEN <<"Lsl", <<src, ImmOp(max - imms)>>>>
      ELSE IF name \in {"Sbfm", "Ubfm"} /\ imms = max
           THEN <<IF name = "Sbfm" THEN "Asr" ELSE "Lsr", <<src, ImmOp(immr)>>>>
      ELSE IF name = "Bfm" /\ imms < immr /\ rn = 31 THEN <<"Bfc", insert>>
      ELSE IF imms < immr
           THEN <<CASE name = "Sbfm" -> "Sbfiz" [] name = "Bfm" -> "Bfi" [] OTHER -> "Ubfiz",
                  <<src>> \o insert>>
           ELSE <<CASE name = "Sbfm" -> "Sbfx" [] name = "Bfm" -> "Bfxil" [] OTHER -> "Ubfx",
                  take>>

DecodeBitfield(w, ip) ==
  IF \/ w.opc = 3 \/ w.n # w.sf
     \/ w.sf = 0 /\ (w.immr >= WBits \/ w.imms >= WBits)
  THEN NewInvalid(w, ip)
  ELSE LET name == BitfieldName[w.opc + 1]
           a    == BitfieldAlias(name, w.sf, w.immr, w.imms, w.rn)
       IN  Alias(w, ip, CodeOf(name, w.sf), a[1], <<Gp(w.sf, w.rd)>> \o a[2])

DecodeExtract(w, ip) ==
  LET c == CodeOf("Extr", w.sf)
  IN  IF w.op21 # 0 \/ w.o0 # 0 \/ w.n # w.sf \/ (w.sf = 0 /\ w.imms >= WBits)
      THEN NewInvalid(w, ip)
      ELSE IF w.rn = w.rm
      THEN Alias(w, ip, c, "Ror", <<Gp(w.sf, w.rd), Gp(w.sf, w.rn), ImmOp(w.imms)>>)
      ELSE Plain(w, ip, c, <<Gp(w.sf, w.rd), Gp(w.sf, w.rn), Gp(w.sf, w.rm), ImmOp(w.imms)>>)

(* dp_imm::decode, the classes above. *)
DecodeDpImm(w, ip) ==
  CASE w.class = "addsub"   -> DecodeAddSub(w, ip)
    [] w.class = "tags"     -> DecodeTags(w, ip)
    [] w.class = "minmax"   -> DecodeMinMax(w, ip)
    [] w.class = "logical"  -> DecodeLogical(w, ip)
    [] w.class = "movewide" -> DecodeMoveWide(w, ip)
    [] w.class = "bitfield" -> DecodeBitfield(w, ip)
    [] w.class = "extract"  -> DecodeExtract(w, ip)

(***************************************************************************)
(* Encode                                                                  *)
(***************************************************************************)

Imm32(x, n) == ValAt(x, n) % U32          \* imm_u(..)? as u32

(* imm_shifted: the immediate and its shift bit. *)
ImmShifted(o) ==
  IF o.kind = "ImmShiftedMove" /\ o.dec[1] \in {0, 12}
  THEN Ok(<<o.val, o.dec[1] \div 12>>)
  ELSE IF o.kind \in {"ImmUnsigned", "ImmLogical", "ImmSigned"} /\ o.val <= 4095
       THEN Ok(<<o.val, 0>>)
  ELSE BadImmediate

IsShiftable(o) == o.kind \in {"ImmShiftedMove", "ImmUnsigned", "ImmLogical", "ImmSigned"}

EncodeAddSub(x) ==
  LET i   == Place(AddSubName, x.code[1])
      mov == x.mnem = <<"Mov">>
      cmp == x.mnem \in {<<"Cmp">>, <<"Cmn">>}
      at  == IF cmp THEN 1 ELSE 2
      f   == IF mov THEN Ok(<<0, 0>>) ELSE ImmShifted(OpAt(x, at))
  IN  With(/\ IsRegAt(x, 0) /\ (cmp \/ IsRegAt(x, 1))
           /\ mov \/ IsShiftable(OpAt(x, at)),
           IF f.ok /\ f.v[1] > 4095 THEN BadImmediate ELSE f,
           [class |-> "addsub", sf |-> Is64(x), op |-> i \div 2, s |-> i % 2,
            sh |-> f.v[2], imm12 |-> f.v[1],
            rn |-> RegAt(x, IF cmp THEN 0 ELSE 1), rd |-> IF cmp THEN 31 ELSE RegAt(x, 0)])

EncodeTags(x) ==
  LET scaled == ValAt(x, 2)
      tag    == ValAt(x, 3)
  IN  With(IsRegAt(x, 0) /\ IsRegAt(x, 1) /\ IsImmAt(x, 2) /\ IsImmAt(x, 3),
           IF scaled % 16 # 0 \/ scaled \div 16 > 63 \/ tag > 15 THEN BadImmediate ELSE Ok(0),
           [class |-> "tags", sf |-> 1, op |-> IF x.code = <<"SubgImm">> THEN 1 ELSE 0,
            s |-> 0, uimm6 |-> scaled \div 16, op3 |-> 0, uimm4 |-> tag,
            rn |-> RegAt(x, 1), rd |-> RegAt(x, 0)])

(* The signed immediate: -128..255 is accepted, its low byte encoded. *)
Signed8(v) == IF AsI64(v) \in -128..255 THEN Ok(AsI64(v) % 256) ELSE BadImmediate

EncodeMinMax(x) ==
  LET opc == Place(MinMaxName, x.code[1])
      v   == ValAt(x, 2)
      f   == IF IsSigned(opc) THEN Signed8(v) ELSE IF v > 255 THEN BadImmediate ELSE Ok(v)
  IN  With(/\ IsRegAt(x, 0) /\ IsRegAt(x, 1) /\ IsImmAt(x, 2)
           /\ IsSigned(opc) => OpAt(x, 2).kind # "ShiftAmount", f,
           [class |-> "minmax", sf |-> Is64(x), op |-> 0, s |-> 0, b20 |-> 0, opc |-> opc,
            imm8 |-> f.v, rn |-> RegAt(x, 1), rd |-> RegAt(x, 0)])

EncodeLogical(x) ==
  LET ds  == DataSize(Is64(x))
      tst == x.mnem = <<"Tst">>
      mov == x.mnem = <<"Mov">>
      at  == IF tst \/ mov THEN 1 ELSE 2
      f   == EncodeBitMasks(ValAt(x, at) \cap Ones(ds), ds)
  IN  With(IsRegAt(x, 0) /\ (tst \/ mov \/ IsRegAt(x, 1)) /\ IsImmAt(x, at),
           IF f.ok THEN f ELSE BadImmediate,
           [class |-> "logical", sf |-> Is64(x), opc |-> Place(LogicalName, x.code[1]),
            n |-> f.v.n, immr |-> f.v.immr, imms |-> f.v.imms,
            rn |-> IF tst THEN RegAt(x, 0) ELSE IF mov THEN 31 ELSE RegAt(x, 1),
            rd |-> IF tst THEN 31 ELSE RegAt(x, 0)])

(* The lane and immediate: as the operand gives them, or factored from the
   value of the MOV alias. *)
MoveWideField(x) ==
  LET ds  == DataSize(Is64(x))
      o   == OpAt(x, 1)
      opc == Place(MoveWideName, x.code[1])
      f   == Factor(IF opc = 2 THEN o.val \cap Ones(ds) ELSE Not(o.val, ds), ds)
  IN  IF o.kind = "ImmShiftedMove" THEN Some([imm |-> o.val, hw |-> o.dec[1] \div Lane]) ELSE f

(* The lane number is not masked: its third bit falls on a bit that is set
   anyway, its fourth turns the word into an extract. *)
NumberAt(bits, lo, n) ==
  CHOOSE v \in 0..(2^n - 1) : \A i \in 0..(n - 1) : (v \div 2^i) % 2 = 1 <=> lo + i \in bits
MoveWideFields(sf, opc, hw, imm, rd) ==
  IF hw < 8
  THEN [class |-> "movewide", sf |-> sf, opc |-> opc, hw |-> hw % 4, imm16 |-> imm, rd |-> rd]
  ELSE [class |-> "extract", sf |-> sf, op21 |-> opc, n |-> (hw \div 2) % 2, o0 |-> hw % 2,
        rm |-> NumberAt(imm, 11, 5), imms |-> NumberAt(imm, 5, 6), rn |-> NumberAt(imm, 0, 5), rd |-> rd]

EncodeMoveWide(x) ==
  LET opc == Place(MoveWideName, x.code[1])
      o   == OpAt(x, 1)
      f   == MoveWideField(x)
  IN  With(/\ IsRegAt(x, 0)
           /\ \/ o.kind = "ImmShiftedMove"
              \/ o.kind \in {"ImmSigned", "ImmUnsigned"} /\ opc # 3,
           IF f.ok /\ ~(Is64(x) = 0 /\ (f.v.hw \div 2) % 2 = 1) THEN f ELSE BadImmediate,
           MoveWideFields(Is64(x), opc, f.v.hw, f.v.imm, RegAt(x, 0)))

(* u32 subtraction and addition: an overflow panics in a build with
   overflow checks and wraps in one without. *)
Checked(v) == IF v \in 0..(U32 - 1) \/ ~OverflowChecks THEN Ok(v % U32) ELSE Err("Panic")

(* recover_bitfield_fields: immr and imms of an alias, from the shift or
   from lsb and width. *)
Inserted(ds, lsb, width) ==
  LET immr == Checked(ds - lsb)
  IN  IF width = 0 THEN BadImmediate ELSE IF ~immr.ok THEN immr ELSE Ok(<<immr.v % ds, width - 1>>)

Taken(lsb, width) ==
  LET end == Checked(lsb + width)
  IN  IF width = 0 THEN BadImmediate ELSE IF ~end.ok THEN end
      ELSE Ok(<<lsb, (end.v - 1) % U32>>)

BitfieldFields(x, ds) ==
  LET m   == x.mnem[1]
      max == ds - 1
      a   == Imm32(x, 2)
      b   == Imm32(x, 3)
  IN  CASE m \in {"Sxtb", "Uxtb"} -> Ok(<<0, 7>>)
        [] m \in {"Sxth", "Uxth"} -> Ok(<<0, 15>>)
        [] m = "Sxtw" -> Ok(<<0, 31>>)
        [] m \in {"Asr", "Lsr"} -> Ok(<<a, max>>)
        [] m = "Lsl" -> IF a > max THEN BadImmediate ELSE Ok(<<(ds - a) % ds, max - a>>)
        [] m \in {"Sbfiz", "Ubfiz", "Bfi"} -> Inserted(ds, a, b)
        [] m \in {"Sbfx", "Ubfx", "Bfxil"} -> Taken(a, b)
        [] m = "Bfc" -> Inserted(ds, Imm32(x, 1), a)
        [] OTHER -> Ok(<<a, b>>)

(* The immediates an alias reads. *)
BitfieldImms(m) ==
  CASE m \in {"Sxtb", "Uxtb", "Sxth", "Uxth", "Sxtw"} -> {}
    [] m \in {"Asr", "Lsr", "Lsl"} -> {2}
    [] m = "Bfc" -> {1, 2}
    [] OTHER -> {2, 3}

EncodeBitfield(x) ==
  LET ds == DataSize(Is64(x))
      f  == BitfieldFields(x, ds)
      bfc == x.mnem = <<"Bfc">>
  IN  With(/\ IsRegAt(x, 0) /\ (bfc \/ IsRegAt(x, 1))
           /\ \A n \in BitfieldImms(x.mnem[1]) : IsImmAt(x, n),
           IF f.ok /\ (f.v[1] >= ds \/ f.v[2] >= ds) THEN BadImmediate ELSE f,
           [class |-> "bitfield", sf |-> Is64(x), opc |-> Place(BitfieldName, x.code[1]),
            n |-> Is64(x), immr |-> f.v[1], imms |-> f.v[2],
            rn |-> IF bfc THEN 31 ELSE RegAt(x, 1), rd |-> RegAt(x, 0)])

EncodeExtract(x) ==
  LET ror  == x.mnem = <<"Ror">>
      at   == IF ror THEN 2 ELSE 3
      imms == Imm32(x, at)
  IN  With(IsRegAt(x, 0) /\ IsRegAt(x, 1) /\ (ror \/ IsRegAt(x, 2)) /\ IsImmAt(x, at),
           IF imms >= XBits \/ (Is64(x) = 0 /\ imms >= WBits) THEN BadImmediate ELSE Ok(imms),
           [class |-> "extract", sf |-> Is64(x), op21 |-> 0, n |-> Is64(x), o0 |-> 0,
            rm |-> RegAt(x, IF ror THEN 1 ELSE 2), imms |-> imms,
            rn |-> RegAt(x, 1), rd |-> RegAt(x, 0)])

(* dp_imm::encode. *)
EncodeDpImm(x) ==
  LET c == x.code[1]
      In(table) == Lists(table, c)
  IN  CASE c = "Invalid" -> Err("Invalid")
        [] In(AddSubName) -> EncodeAddSub(x)
        [] c \in {"AddgImm", "SubgImm"} -> EncodeTags(x)
        [] In(MinMaxName) -> EncodeMinMax(x)
        [] In(LogicalName) -> EncodeLogical(x)
        [] In(MoveWideName) -> EncodeMoveWide(x)
        [] In(BitfieldName) -> EncodeBitfield(x)
        [] OTHER -> EncodeExtract(x)

(* Code::feature, of the Codes of this group. *)
ImmFeature(c) ==
  CASE c[1] \in {"AddgImm", "SubgImm"} -> "Mte"
    [] Lists(MinMaxName, c[1]) -> "Cssc"
    [] OTHER -> "Base"
=============================================================================
