------------------------------ MODULE MCGroups ------------------------------
(***************************************************************************)
(* Round trip through the whole codec: every opcode, option and selector   *)
(* of the immediate, register, system and load/store groups, offsets and   *)
(* amounts at the boundaries of their fields, register numbers that select *)
(* the aliases, the reserved pairs and the ignored fields, and a few words *)
(* of every vector family whose Codes share a name with another group.     *)
(***************************************************************************)
EXTENDS Groups, RoundTrip

(***************************************************************************)
(* Immediates                                                              *)
(***************************************************************************)
AnyReg == {3, 31}

ImmAddSub ==
  [class : {"addsub"}, sf : Bit, op : Bit, s : Bit, sh : Bit,
   imm12 : {0, 1, 4095}, rn : AnyReg, rd : AnyReg]
ImmTags ==
  [class : {"tags"}, sf : Bit, op : Bit, s : Bit, uimm6 : {0, 1, 63}, op3 : {0, 3},
   uimm4 : {0, 15}, rn : {3}, rd : AnyReg]
ImmMinMax ==
  [class : {"minmax"}, sf : Bit, op : {0}, s : Bit, b20 : {0, 1}, opc : 0..3,
   imm8 : {0, 1, 127, 128, 255}, rn : {3}, rd : AnyReg]
(* ORR into a register and from ZR, and ANDS into ZR. *)
ImmLogical ==
  UNION {[class : {"logical"}, sf : Bit, opc : {c[1]}, n : Bit, immr : 0..63, imms : 0..63,
          rn : {c[2]}, rd : {c[3]}] : c \in {<<1, 31, 3>>, <<3, 3, 31>>}}
ImmMove ==
  [class : {"movewide"}, sf : Bit, opc : 0..3, hw : 0..3,
   imm16 : {{}, {0}, {15}, Ones(16), 1..15, {0, 15}}, rd : AnyReg]
ImmBitfield ==
  [class : {"bitfield"}, sf : Bit, opc : 0..2, n : Bit, immr : 0..63, imms : 0..63,
   rn : {3}, rd : {3}]
ImmExtract ==
  [class : {"extract"}, sf : Bit, op21 : {0, 1}, n : Bit, o0 : Bit, rm : {3, 4},
   imms : {0, 1, 31, 32, 63}, rn : AnyReg, rd : {3}]
ImmSample ==
  ImmAddSub \cup ImmTags \cup ImmMinMax \cup ImmLogical \cup ImmMove \cup ImmBitfield \cup ImmExtract

(***************************************************************************)
(* Registers                                                               *)
(***************************************************************************)
Amounts == {0, 1, 31, 32, 63}

RegLogical ==
  [class : {"logical"}, sf : Bit, opc : 0..3, shift : 0..3, n : Bit, rm : {4},
   imm6 : Amounts, rn : AnyReg, rd : AnyReg]
RegAddSub ==
  [class : {"addsub"}, sf : Bit, op : Bit, s : Bit, shift : 0..3, rm : {4},
   imm6 : Amounts, rn : AnyReg, rd : AnyReg]
RegExtended ==
  [class : {"extended"}, sf : Bit, op : Bit, s : Bit, opt : {0, 1}, rm : {4},
   option : 0..7, imm3 : 0..7, rn : AnyReg, rd : AnyReg]
RegCarry ==
  [class : {"carry"}, sf : Bit, op : Bit, s : Bit, rm : {0, 5, 31}, op3 : 0..63,
   rn : AnyReg, rd : {3, 13, 29}]
RegCompare ==
  [class : {"compare"}, sf : Bit, op : Bit, s : Bit, rm : AnyReg, cond : 0..15, form : Bit,
   o2 : Bit, rn : {3}, o3 : Bit, nzcv : {0, 15}]
RegSelect ==
  [class : {"select"}, sf : Bit, op : Bit, s : Bit, rm : AnyReg, cond : 0..15, o1 : Bit,
   o2 : Bit, rn : AnyReg, rd : {4}]
RegThree ==
  [class : {"three"}, sf : Bit, op54 : {0, 1}, op31 : 0..7, rm : {4}, o0 : Bit,
   ra : AnyReg, rn : {5}, rd : {6}]
RegTwo ==
  [class : {"two"}, sf : Bit, s : Bit, rm : AnyReg, opcode : 0..63, rn : AnyReg, rd : AnyReg]
RegOne ==
  [class : {"one"}, sf : Bit, s : Bit, opcode2 : 0..2, opcode : 0..63, rn : AnyReg, rd : {3, 30}]
RegSample ==
  RegLogical \cup RegAddSub \cup RegExtended \cup RegCarry \cup RegCompare \cup RegSelect \cup RegThree
    \cup RegTwo \cup RegOne

(***************************************************************************)
(* Branches to a register, exceptions and the system block                 *)
(***************************************************************************)
SysWords(cls, l, op0, op1, crn, crm, op2, rt) ==
  [cls : cls, l : l, op0 : op0, op1 : op1, crn : crn, crm : crm, op2 : op2, rt : rt]
SysRow(cls, l, r, rt) ==
  [cls |-> cls, l |-> l, op0 |-> 1, op1 |-> r.op1, crn |-> r.crn, crm |-> r.crm, op2 |-> r.op2, rt |-> rt]

SysBranch ==
  [cls : {"branch"}, opc : 0..9, op2 : {30, 31}, op3 : 0..4, rn : {0, 30, 31}, op4 : {0, 5, 31}]
SysException ==
  [cls : {"exception"}, opc : 0..7, imm : {0, 1, 127, 128, 4096, 4223, 4224, 8192, 65535},
   op2 : {0, 1}, ll : 0..3]
SysNamed == SysWords({"system"}, Bit, {0}, {0, 1, 3, 7}, 0..5, 0..15, 0..7, {3, 31})
SysTable == {SysRow("system", l, r, rt) : r \in B!SYS_INS_TABLE, l \in Bit, rt \in AnyReg}
SysOther == SysWords({"system"}, Bit, {1}, {0, 3, 7}, {5, 7}, {3, 7, 15}, 0..7, {3, 31})
SysMove  == SysWords({"system"}, Bit, {2, 3}, {0, 7}, {0, 15}, {1, 15}, {0, 7}, {3, 31})
SysPair ==
  SysWords({"pair"}, Bit, 0..3, {0, 7}, {0, 15}, {1}, {0, 7}, {4, 5, 30, 31})
    \cup {SysRow("pair", 0, r, rt) : r \in B!Plbi(0, B!El1Plb) \cup B!Tlbi(4, B!El2Tlb), rt \in {4, 31}}
SysChange == SysWords({"tchange"}, Bit, 0..3, 0..7, {0, 1}, {0, 3, 4, 15}, {0, 7}, {3, 31})
SysSample ==
  SysBranch \cup SysException \cup SysNamed \cup SysTable \cup SysOther \cup SysMove \cup SysPair \cup SysChange

(***************************************************************************)
(* Loads and stores                                                        *)
(***************************************************************************)
MemWords(size, grp, v, hi, opc, b21, mid, op4, rn, rt) ==
  [size : size, grp : grp, v : v, hi : hi, opc : opc, b21 : b21, mid : mid, op4 : op4, rn : rn, rt : rt]
Mids(rs, low) == {16 * a + b : a \in rs, b \in low}
Any4 == 0..3

MemUnsigned  == MemWords(Any4, {7}, Bit, {1}, Any4, Bit, {0, 257, 511}, {0, 3}, {2, 31}, {3, 30})
MemImm9      == MemWords(Any4, {7}, Bit, {0}, Any4, {0}, {0, 255, 256, 511}, Any4, {2, 31}, {3, 30})
MemRegOffset == MemWords(Any4, {7}, Bit, {0}, Any4, {1}, Mids({4, 31}, 0..15), {2}, {2}, {0, 6, 24, 31})
MemAtomic    == MemWords(Any4, {7}, Bit, {0}, Any4, {1}, Mids({4, 31}, 0..15), {0}, {31}, {2, 3, 24, 31})
MemPac       == MemWords(2..3, {7}, Bit, {0}, Any4, {1}, {0, 255, 511}, {1, 3}, {2, 31}, {3})
MemLiteral   == MemWords(Any4, {3}, Bit, {0}, {0, 3}, Bit, {0, 511}, {1}, {0, 31}, {0, 25, 31})
MemPair      == MemWords(Any4, {5}, Bit, Bit, Any4, Bit, {7, 505}, {3}, {2, 31}, {3, 31})
MemExclusive == MemWords(Any4, {1}, {0}, Bit, Any4, Bit, Mids({4, 5, 31}, {0, 7, 8, 15}), {0, 3}, {31}, {2, 3})
MemStructure == MemWords(0..2, {1}, {1}, Bit, Any4, Bit, Mids({0, 4, 31}, 0..15), Any4, {2}, {30})
MemTagged    == MemWords(Any4, {3}, Bit, {1}, Any4, Bit, Mids({4, 31}, 0..15) \cup {0, 255}, Any4, {2}, {2, 8, 31})
MemSample ==
  MemUnsigned \cup MemImm9 \cup MemRegOffset \cup MemAtomic \cup MemPac \cup MemLiteral \cup MemPair
    \cup MemExclusive \cup MemStructure \cup MemTagged

(***************************************************************************)
(* Vectors: one size of every opcode; every slot of the SVE accesses with  *)
(* the indices and immediates that are reserved, not offsets or at the     *)
(* ends of their fields; the Apple words                                   *)
(***************************************************************************)
SimdSample ==
  [top : {0, 1, 2, 4, 6, 12}, b24 : Bit, size : {1}, b21 : Bit, rm : {0, 4, 16}, op : 0..63, rn : {5}, rd : {30}]
SveSample ==
  [quad : {"G32", "Ld", "G64", "St"}, msz : 0..3, b22 : Bit, b21 : Bit, rm : {0, 5, 15, 16, 31}, op : 0..7,
   pg : {6}, rn : {31}, zt : {14, 30}]

MCSample ==
  Of("imm", ImmSample) \cup Of("reg", RegSample) \cup Of("sys", SysSample) \cup Of("mem", MemSample)
    \cup Of("simd", SimdSample) \cup Of("sve", SveSample) \cup Of("apple", AppleWord)
(* Equal to AllFeatures of System, which a value given to Features cannot
   name: System depends on Features itself. *)
SystemFeatures == {"PAuth", "PauthLr", "Tme", "Tev", "Tchange", "Dgh", "Trf", "Gcs", "Clrbhb", "Chk", "Pcdphint",
                   "Wfxt", "Xs", "D128"}
AllFeatures ==
  SystemFeatures \cup {"Mte", "Cssc", "PAuth", "PauthLr", "Cpa", "The", "Lse", "Lse128", "Lsfe", "Lsui", "Ls64",
    "Rcpc3", "Gcs", "Mops", "Rprfm", "Fp16", "Bf16", "Frintts", "Fprcvt", "Crypto", "Lut", "Fp8", "F16f32dot",
    "I8mm", "F16f32mm", "F16mm", "F8f16mm", "F8f32mm", "Faminmax", "Sve", "Sve2p1", "AppleAmx", "Gxf"}

(***************************************************************************)
(* What a round trip may change                                            *)
(***************************************************************************)

(* A system word with the fields its decoder does not look at as the encoder
   writes them: op1 of the hints, the barriers, WFET and WFIT, which
   decode_op0_00_named does not pass on (the architecture fixes it to 011);
   CRm of SB and of CFINV, XAFLAG and AXFLAG, which should be zero; in the CRm
   of SMSTART and SMSTOP the reserved bit, and a choice of neither state,
   which reads as one of both; Rt of the operations on a whole structure and
   of the forms of the control stack without a register. *)
IsHint(c) == \E r \in B!HintRow : r[2] = c
LosesOp1(c) == IsHint(c) \/ c \in B!BarrierName \/ Lists(B!WfxtName, c)
LosesRt(x, w) ==
  \/ x.code[1] \in {"Sys", "Sysl"} /\ \E r \in B!BySelector(w.l, w.op1, w.crn, w.crm, w.op2) : ~r.rt
  \/ \E r \in B!GcsRow : r[1] = x.code[1] /\ ~r[5]
BothStates(crm) == (crm \div 2) % 4 \in {0, 3}
SysNormal(x, w) ==
  LET c == x.code[1]
  IN  CASE c = "Sb" -> [w EXCEPT !.op1 = 3, !.crm = 0]
        [] c # "Sb" /\ LosesOp1(c) -> [w EXCEPT !.op1 = 3]
        [] Lists(B!FlagName, c)   -> [w EXCEPT !.crm = 0]
        [] Lists(B!StreamName, c) -> [w EXCEPT !.crm = IF BothStates(@) THEN 6 + (@ % 2) ELSE @ % 8]
        [] LosesRt(x, w) -> [w EXCEPT !.rt = 31]
        [] OTHER -> w

(* The registers an exclusive or ordered access does not use are written as
   ones. *)
Ordered(w) == w.hi = 0 /\ w.opc >= 2 /\ w.b21 = 0
IsLoadExclusive(w) == w.opc = 1 /\ (w.b21 = 0 \/ w.size >= 2)
UnusedRs(w)  == Ordered(w) \/ IsLoadExclusive(w)
UnusedRt2(w) == w.b21 = 0
MemNormal(w) ==
  LET rs == IF UnusedRs(w) THEN 31 ELSE M!RsOf(w)
  IN  IF w.grp # 1 \/ w.v = 1 THEN w
      ELSE IF UnusedRt2(w) THEN [w EXCEPT !.mid = M!Mid(rs, M!O3Of(w), 7), !.op4 = 3]
      ELSE [w EXCEPT !.mid = M!Mid(rs, M!O3Of(w), M!Opc3Of(w))]

(* The unused high bits of a rotation, the should-be-zero field of ADDG and
   SUBG, and the accumulator of SMULH and UMULH. *)
ImmNormal(w) ==
  CASE w.class = "logical" -> [w EXCEPT !.immr = @ % ElementSize(w.n, w.imms)]
    [] w.class = "tags" -> [w EXCEPT !.op3 = 0]
    [] OTHER -> w
RegNormal(w) == IF w.class = "three" /\ w.op31 \in {2, 6} THEN [w EXCEPT !.ra = 31] ELSE w

(* The encoding of a decoded word is the word, with the bits its decoder does
   not look at in the one value the encoder writes: nothing else is lost
   between the two sides, and no selector of one instruction is written as
   another's.  The bits are those the architecture ignores, but for the op1 of
   hints and barriers, the CRm of SMSTART and SMSTOP and the Rt of the control
   stack: there encode/branch_sys.rs:38 says that the round trip is bit-exact,
   and it is not.  The vector words have a run of their own. *)
OnlyIgnoredBitsChange ==
  pc = "done" =>
    LET w == word.w
    IN  CASE word.g = "imm"   -> out.v = Tag("imm", ImmNormal(w))
          [] word.g = "reg"   -> out.v = Tag("reg", RegNormal(w))
          [] word.g = "mem"   -> out.v = Tag("mem", MemNormal(w))
          [] word.g \in {"sve", "apple"} -> out.v = word
          [] word.g = "sys"   -> out.v = Tag("sys", SysNormal(insn, w))
          [] word.g = "simd"  -> out.v.g = "simd"

(* The decoded value of a logical immediate, from its fields alone: bit i is
   one exactly when it lies in the run of imms + 1 ones rotated by immr
   (decode_bit_masks). *)
IsLogical == word.g = "imm" /\ word.w.class = "logical"
MaskIsRotatedRun ==
  IsLogical /\ Valid(insn) =>
    LET w    == word.w
        e    == ElementSize(w.n, w.imms)
        mask == OpAt(insn, insn.cnt - 1).val
    IN  \A i \in 0..(DataSize(w.sf) - 1) : i \in mask <=> (i + w.immr) % e <= w.imms % e

(* move_wide_preferred gives up the MOV spelling of an ORR only for a value
   that a MOVZ or a MOVN has as well. *)
OrrSpelledOutOnlyForMoves ==
  IsLogical /\ word.w.opc = 1 /\ word.w.rn = 31 /\ Valid(insn) =>
    LET ds == DataSize(word.w.sf)
        v  == OpAt(insn, insn.cnt - 1).val \cap Ones(ds)
    IN  insn.mnem = <<"Mov">> \/ Factor(v, ds).ok \/ Factor(Not(v, ds), ds).ok

(* When a condition holds, by the architecture: N, Z, C and V are sets of
   flags that are one.  Not code of this repository. *)
Holds(cond, flags) ==
  LET f(x) == x \in flags
      base == CASE cond \div 2 = 0 -> f("Z")
                [] cond \div 2 = 1 -> f("C")
                [] cond \div 2 = 2 -> f("N")
                [] cond \div 2 = 3 -> f("V")
                [] cond \div 2 = 4 -> f("C") /\ ~f("Z")
                [] cond \div 2 = 5 -> f("N") = f("V")
                [] cond \div 2 = 6 -> f("N") = f("V") /\ ~f("Z")
                [] OTHER -> TRUE
  IN  IF cond % 2 = 1 /\ cond # 15 THEN ~base ELSE base

(* The aliases of CSINC, CSINV and CSNEG show the condition under which the
   result is set, incremented, inverted or negated: it holds exactly when the
   one in the word, which keeps Rn, does not, whatever the flags.  A round
   trip cannot see this, for it inverts the condition twice. *)
AliasConditionIsTheOpposite ==
  word.g = "reg" /\ insn.mnem \in {<<m>> : m \in {"Cset", "Csetm", "Cinc", "Cinv", "Cneg"}}
    => \A flags \in SUBSET {"N", "Z", "C", "V"} :
         Holds(OpAt(insn, insn.cnt - 1).val, flags) = ~Holds(word.w.cond, flags)

(***************************************************************************)
(* Features                                                                *)
(***************************************************************************)
Under(F) == INSTANCE Groups WITH Features <- F
Seen(F) == Under(F)!DecodeGroup(word, ip)

(* The gate a decoder applies is the feature its Code declares
   (Code::feature): with that feature alone the word decodes to the same
   instruction, and without it to nothing, rather than falling through to a
   family that shares its bits.  MADDPT and MSUBPT are not gated
   (BaseDecodesOnlyBase below), and a system selector has a numbered
   form of its own.  The quadword accesses need SVE as well, and without
   their own feature no older access takes their slots. *)
GateIsTheDeclaredFeature ==
  pc = "encode" /\ Valid(insn) /\ word.g \in {"imm", "reg", "mem", "sve", "apple"} =>
    LET f == GroupFeature(insn.code)
        with == IF word.g = "sve" THEN {f, "Sve"} ELSE {f}
    IN  Seen(with) = insn /\ (f # "Base" => ~Valid(Seen(Features \ {f})) \/ insn.code[1] \in {"Maddpt", "Msubpt"})

(* Switching a feature off takes its system instructions away and nothing
   else: the word is left undecoded, or is the numbered form of the same
   selector, or was not of that feature; it never becomes a register move
   that hides the real instruction (op0_00_unallocated). *)
FeatureOffHidesNothing ==
  pc = "encode" /\ word.g = "sys" =>
    \A f \in B!AllFeatures :
      LET y == Seen(Features \ {f})
      IN  \/ y = insn
          \/ ~Valid(y)
          \/ y.mnem \in {<<"Hint">>, <<"Sys">>, <<"Sysl">>}
               /\ EncodeGroup(y).v = Tag("sys", SysNormal(y, word.w))

(* "Restrict the decoder to the base ISA only: an SVE/SME/extension word
   will be rejected" (README.md:517): a word decodes only if the feature of
   its Code is enabled. *)
BaseDecodesOnlyBase == pc = "encode" => GroupFeature(Seen({}).code) = "Base"
=============================================================================
