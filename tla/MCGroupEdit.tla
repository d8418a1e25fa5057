---------------------------- MODULE MCGroupEdit ----------------------------
(***************************************************************************)
(* The editing API over every group: decode a word, edit it, encode it.    *)
(* The words are one or more of every form whose encoder reads an operand  *)
(* the setters can change; the values are the bounds of the fields and one *)
(* past them.                                                              *)
(***************************************************************************)
EXTENDS Instruction, Groups

(***************************************************************************)
(* Words                                                                   *)
(***************************************************************************)
AddSub(sh, imm12) ==
  [class |-> "addsub", sf |-> 1, op |-> 0, s |-> 0, sh |-> sh, imm12 |-> imm12, rn |-> 4, rd |-> 3]
Bitfield(sf, opc, immr, imms) ==
  [class |-> "bitfield", sf |-> sf, opc |-> opc, n |-> sf, immr |-> immr, imms |-> imms, rn |-> 4, rd |-> 3]
Extract(sf, rm, imms) ==
  [class |-> "extract", sf |-> sf, op21 |-> 0, n |-> sf, o0 |-> 0, rm |-> rm, imms |-> imms, rn |-> 4, rd |-> 3]
MoveWide(sf, opc, imm16) ==
  [class |-> "movewide", sf |-> sf, opc |-> opc, hw |-> 1, imm16 |-> imm16, rd |-> 3]
Logical(opc, rn, rd) ==
  [class |-> "logical", sf |-> 1, opc |-> opc, n |-> 0, immr |-> 0, imms |-> 60, rn |-> rn, rd |-> rd]
ImmWords ==
  {AddSub(sh, 5) : sh \in Bit}
    \cup {[class |-> "tags", sf |-> 1, op |-> o, s |-> 0, uimm6 |-> 1, op3 |-> 0, uimm4 |-> 2, rn |-> 4, rd |-> 3] :
            o \in Bit}
    \cup {[class |-> "minmax", sf |-> 1, op |-> 0, s |-> 0, b20 |-> 0, opc |-> opc, imm8 |-> 5, rn |-> 4, rd |-> 3] :
            opc \in 0..3}
    \cup {Bitfield(1, 0, 3, 10), Bitfield(0, 2, 24, 7), Bitfield(1, 1, 60, 9), Bitfield(1, 2, 3, 63)}
    \cup {Extract(sf, rm, 7) : sf \in Bit, rm \in {4, 5}}
    \cup {MoveWide(sf, opc, imm) : sf \in Bit, opc \in {0, 2, 3}, imm \in {{}, {0, 2}}}
    \cup {Logical(0, 4, 3), Logical(1, 31, 3), Logical(3, 4, 31)}

Select(o2, rn, rm) ==
  [class |-> "select", sf |-> 1, op |-> 0, s |-> 0, rm |-> rm, cond |-> 1, o1 |-> 0, o2 |-> o2, rn |-> rn, rd |-> 3]
Compare(form) ==
  [class |-> "compare", sf |-> 1, op |-> 1, s |-> 1, rm |-> 4, cond |-> 0, form |-> form, o2 |-> 0, rn |-> 5,
   o3 |-> 0, nzcv |-> 2]
RegWords ==
  {Select(0, 4, 5), Select(1, 4, 4), Select(1, 31, 31), Compare(0), Compare(1)}
    \cup {[class |-> "logical", sf |-> sf, opc |-> 1, shift |-> 2, n |-> n, rm |-> 5, imm6 |-> 3, rn |-> rn, rd |-> 3] :
            sf \in Bit, n \in Bit, rn \in {4, 31}}
    \cup {[class |-> "logical", sf |-> 1, opc |-> 1, shift |-> 0, n |-> 0, rm |-> 5, imm6 |-> 0, rn |-> 31, rd |-> 3]}
    \cup {[class |-> "addsub", sf |-> 1, op |-> 1, s |-> 1, shift |-> 1, rm |-> 5, imm6 |-> 3, rn |-> rn, rd |-> 3] :
            rn \in {4, 31}}
    \cup {[class |-> "extended", sf |-> sf, op |-> 0, s |-> 0, opt |-> 0, rm |-> 5, option |-> 3, imm3 |-> 2,
           rn |-> rn, rd |-> 3] : sf \in Bit, rn \in {4, 31}}
    \cup {[class |-> "carry", sf |-> 1, op |-> 0, s |-> 1, rm |-> 2, op3 |-> 1, rn |-> 4, rd |-> 5]}
    \cup {[class |-> "carry", sf |-> 1, op |-> 0, s |-> 0, rm |-> 2, op3 |-> 9, rn |-> 4, rd |-> 3]}
    \cup {[class |-> "three", sf |-> 1, op54 |-> 0, op31 |-> 0, rm |-> 5, o0 |-> 0, ra |-> ra, rn |-> 4, rd |-> 3] :
            ra \in {6, 31}}
    \cup {[class |-> "two", sf |-> 1, s |-> 0, rm |-> 5, opcode |-> o, rn |-> 4, rd |-> 3] : o \in {2, 8, 12}}
    \cup {[class |-> "one", sf |-> 1, s |-> 0, opcode2 |-> 1, opcode |-> o, rn |-> 4, rd |-> 3] : o \in {0, 4}}

Sys(l, op0, op1, crn, crm, op2, rt) ==
  [cls |-> "system", l |-> l, op0 |-> op0, op1 |-> op1, crn |-> crn, crm |-> crm, op2 |-> op2, rt |-> rt]
SysWords ==
  {Sys(0, 0, 3, 3, 4, op2, 31) : op2 \in {2, 5, 6}}
    \cup {Sys(0, 1, 3, 5, 4, 2, 3), Sys(0, 0, 3, 2, 15, 7, 31), Sys(0, 0, 3, 4, 2, 6, 31), Sys(1, 3, 3, 4, 2, 0, 3),
          Sys(0, 1, 0, 7, 8, 0, 3)}
    \cup {[cls |-> "exception", opc |-> opc, imm |-> 5, op2 |-> 0, ll |-> ll] : opc \in {0, 1, 2, 7}, ll \in 0..3}
    \cup {[cls |-> "branch", opc |-> 2, op2 |-> 31, op3 |-> o, rn |-> 31, op4 |-> 5] : o \in {2, 3}}
    \cup {[cls |-> "branch", opc |-> opc, op2 |-> 31, op3 |-> 0, rn |-> 4, op4 |-> 0] : opc \in 0..2}

Register(size, v, hi, opc, op4) == M!Pack(size, 7, v, hi, opc, 0, 8, op4, 4, 3)
MemWords ==
  \* a displaced form of every width and of every family
  {Register(size, v, 1, opc, 0) : size \in 0..3, v \in Bit, opc \in 1..3}
    \cup {Register(size, v, 0, 1, op4) : size \in 0..3, v \in Bit, op4 \in 0..3}
    \cup {M!Pack(size, 5, v, hi, opc, 0, 8, 1, 4, 3) : size \in 0..2, v \in Bit, hi \in Bit, opc \in 0..3}
    \cup {M!Pack(3, 7, 0, 0, opc, 1, 8, 1, 4, 3) : opc \in {0, 1}}
    \cup {M!Pack(3, 3, 0, 1, opc, 1, 8, lo, 4, 3) : opc \in 0..3, lo \in 1..3}
    \cup {M!Pack(2, 3, v, 1, 1, 0, 8, 2 * v, 4, 3) : v \in Bit}
  \* bulk tags, ordered pairs, GCSSTR and structures
    \cup {M!Pack(3, 3, 0, 1, opc, 1, 0, 0, 4, 3) : opc \in {0, 2, 3}}
    \cup {M!Pack(size, 3, 0, 1, opc, 0, 16 * 5 + o, 2, 4, 3) : size \in {2, 3}, opc \in Bit, o \in {0, 1}}
    \cup {M!Pack(size, 3, 0, 1, opc, 0, 0, 2, 4, 3) : size \in {2, 3}, opc \in {2, 3}}
    \cup {M!Pack(3, 3, 0, 1, 0, 0, M!Mid(31, 0, 0), 3, 4, 3)}
    \cup {M!Pack(1, 1, 1, 0, opc, 0, M!Mid(31, 1, 2), 1, 4, 3) : opc \in {2, 3}}
    \cup {M!Pack(1, 1, 1, 1, opc, 1, M!Mid(31, 0, 4), 1, 4, 3) : opc \in {2, 3}}
  \* a register offset, atomics, 64-byte accesses, an exclusive, pointer pairs
    \cup {M!Pack(3, 7, 0, 0, 1, 1, M!Mid(5, 0, 6), 2, 4, 3)}
    \cup {M!Pack(3, 7, 0, 0, opc, 1, M!Mid(2, 0, 0), 0, 4, 6) : opc \in 0..3}
    \cup {M!Pack(3, 7, 0, 0, 0, 1, M!Mid(rs, 1, o), 0, 4, 6) : rs \in {2, 31}, o \in {1, 2, 3, 5}}
    \cup {M!Pack(3, 1, 0, 0, 1, 0, M!Mid(31, 0, 7), 3, 4, 3), M!Pack(3, 1, 0, 0, 0, 1, M!Mid(2, 0, 7), 3, 4, 6),
          M!Pack(1, 1, 1, 0, 2, 0, M!Mid(5, 1, 2), 1, 4, 3)}

VecWord(top, b24, size, b21, rm, o) == V!Pack(top, b24, size, b21, rm, o, 4, 3)
VecWords ==
  {VecWord(top, b24, size, b21, rm, o) : top \in {0, 4, 5, 6, 7}, b24 \in Bit, size \in 0..3, b21 \in Bit,
                                         rm \in {5}, o \in 0..63}
    \cup {VecWord(1, 0, size, 1, rm, o) : size \in {0, 1}, rm \in {0, 2, 8}, o \in 0..63}

SveWords ==
  [quad : {"G32", "Ld", "G64", "St"}, msz : 0..3, b22 : Bit, b21 : Bit, rm : {5, 20}, op : 0..7, pg : {2}, rn : {4},
   zt : {3}]

AppleWords == {Amx(1, 1, 5), Amx(0, 0, 5)}

Tagged(g, W) == {Tag(g, w) : w \in W}
MCCond == 0..15
MCInWords ==
  {t \in Tagged("imm", ImmWords) \cup Tagged("reg", RegWords) \cup Tagged("sys", SysWords)
           \cup Tagged("mem", MemWords) \cup Tagged("simd", VecWords) \cup Tagged("sve", SveWords)
           \cup Tagged("apple", AppleWords) :
     DecodeGroup(t, 0).code # <<"Invalid">>}

(***************************************************************************)
(* Edits                                                                   *)
(***************************************************************************)
Regs(bank, ns) == {<<bank, n>> : n \in ns}
MCInRegs == {<<"X", 31, "sp">>} \cup Regs("X", {3, 5, 31}) \cup Regs("W", {3, 31}) \cup Regs("D", {16})
              \cup Regs("V", {8, 16}) \cup Regs("P", {5, 8}) \cup Regs("Z", {9})
MCInVals ==
  {AsU64(d) : d \in {0, 1, 4, 7, 8, 15, 16, 31, 32, 63, 64, 127, 128, 255, 256, 4095, 4096, 65535,
                     -1, -4, -16, -128, -129, -256, -257, 1008, 1024, -1024, -1025, 4080, 8192, 65520}}
MCReg == MCInRegs \cup {NoReg}
MCCode == {<<"Invalid">>}
MCMnemonic == {<<"Invalid">>}
MCDec == {NoDec}
MCNoBranch(x) == FALSE

(* Equal to AllFeatures of System, which a value given to Features cannot
   name: System depends on Features itself. *)
SystemFeatures == {"PAuth", "PauthLr", "Tme", "Tev", "Tchange", "Dgh", "Trf", "Gcs", "Clrbhb", "Chk", "Pcdphint",
                   "Wfxt", "Xs", "D128"}
AllFeatures ==
  SystemFeatures \cup {"Mte", "Cssc", "PAuth", "PauthLr", "Cpa", "The", "Lse", "Lse128", "Lsfe", "Lsui", "Ls64",
    "Rcpc3", "Gcs", "Mops", "Rprfm", "Fp16", "Bf16", "Frintts", "Fprcvt", "Crypto", "Lut", "Fp8", "F16f32dot",
    "I8mm", "F16f32mm", "F16mm", "F8f16mm", "F8f32mm", "Faminmax", "Sve", "Sve2p1", "AppleAmx", "Gxf"}

(* set_op with an operand of the kind the slot holds: another bit vector,
   another shift or extend of the last register. *)
IsVector == Lists(LogicalName, insn.code[1]) \/ Lists(MoveWideName, insn.code[1])
IsNumber == ~IsVector /\ insn.code[1] \notin {"MoviVec2D", "MoviScalarD"}
NewVectors ==
  {ShiftedOp(imm, lsl) : imm \in {{0}, {3, 11, 15}}, lsl \in {0, 16, 32, 48, 64, 128, 240}}
    \cup {LogicalOp(b) : b \in {{}, {0}, {0, 2}, Ones(64)}} \cup {SignedOp(b) : b \in {{}, {17}, {0, 17}}}
NewShifts ==
  {<<type, amount, NoExtend>> : type \in {"Lsl", "Lsr", "Ror"}, amount \in {0, 4, 5, 31, 32, 63, 64}}
    \cup {<<NoShift, 0, ext>> : ext \in {2, 3, 6}} \cup {<<"Lsl", 2, 6>>, <<"Lsr", 2, 6>>}
TakesShiftAt(x, n) ==
  /\ n = x.cnt - 1
  /\ \/ Lists(LogicalShiftedName, x.code[1]) \/ Lists(AddSubShiftedName, x.code[1])
     \/ Lists(ExtendedName, x.code[1]) \/ x.code[1] = "Addpt"
SetVector ==
  \E n \in Live(insn), o \in NewVectors :
    IsVector /\ insn.ops[n].kind = o.kind /\ Apply("set_op", set_op(insn, n, o))
SetShift ==
  \E n \in Live(insn), d \in NewShifts :
    TakesShiftAt(insn, n) /\ Apply("set_op", set_op(insn, n, [insn.ops[n] EXCEPT !.dec = d]))
SetBase == \E r \in {q \in InRegs : BankOf(q) = "X"} : Apply("set_memory_base", set_memory_base(insn, r))
(* set_memory_index with a register of the bank of the index. *)
IndexBanks == {BankOf(insn.ops[n].idx) : n \in SlotsOf(insn, {"MemExt", "SveMem"})}
SetIndex ==
  \E r \in {q \in InRegs : BankOf(q) \in IndexBanks} : Apply("set_memory_index", set_memory_index(insn, r))

(* One edit of every word, and a second one where two operands share a
   constraint: the register group and the immediates. *)
EditNext ==
  /\ edits = 0 \/ insn.word.g \in {"imm", "reg"}
  /\ \/ SetOpRegister
     \/ IsNumber /\ SetOpImmediate
     \/ SetCondition
     \/ SetBase
     \/ SetIndex
     \/ SetMemoryDisplacement64
     \/ SetVector
     \/ SetShift
EditSpec == Init /\ [][EditNext]_vars

(***************************************************************************)
(* Properties                                                              *)
(***************************************************************************)

(* What an operand says: SP and ZR are one number to an encoder, and an
   extended register without an extend is extended by LSL. *)
IsExtended(x) == Lists(ExtendedName, x.code[1])
Decoration(x, n) ==
  CASE TakesShiftAt(x, n) ->
         <<ShiftAt(x, n), IF IsExtended(x) /\ ExtendAt(x, n) = NoExtend
                            THEN LslOption(Is64(x)) ELSE ExtendAt(x, n)>>
    [] OTHER -> OpAt(x, n).dec
Register31(r) == IF NumberOf(r) = 31 THEN <<BankOf(r), 31>> ELSE r
Told(x) ==
  <<x.cnt, [n \in Slot |-> [OpAt(x, n) EXCEPT !.reg = Register31(@), !.idx = Register31(@), !.dec = Decoration(x, n)]]>>

(* The operands an encoder is known to keep only a part of, by reason. *)
ImmediateAt(x, n) == IF OpAt(x, n).kind \in {"ImmUnsigned", "ImmSigned"} THEN OpAt(x, n).val ELSE 0
ShiftedTooFar(x) == \E n \in Live(x) : x.ops[n].kind = "ImmShiftedMove" /\ x.ops[n].dec[1] >= XBits
DecorationNotRead(x) ==
  \E n \in Live(x) :
    /\ TakesShiftAt(x, n)
    /\ CASE IsExtended(x) -> \/ ShiftAt(x, n)[1] # "Lsl"
                              \/ (BankOf(OpAt(x, n).reg) = "X") # (Decoration(x, n)[2] \in {3, 7})
         [] x.mnem = <<"Mov">> -> OpAt(x, n).dec # NoDec
         [] OTHER -> ExtendAt(x, n) # NoExtend
FixedAddress == {"lse", "xp", "xr", "Ld64b", "St64b", "St64bv", "St64bv0", "St"}
DisplacementDropped(x) ==
  x.code[1] \in FixedAddress /\ \E n \in Live(x) : x.ops[n].kind = "MemImm" /\ x.ops[n].val # 0
(* The immediates of which the encoder keeps the low bits, and how many of
   their values are kept; Clrex 15 is the plain Clrex. *)
LowBits == {<<"Tenter", 128>>, <<"Clrex", 15>>, <<"Isb", 15>>, <<"Dmb", 0>>, <<"Sys", 8>>, <<"SmaxImm", 128>>,
            <<"SminImm", 128>>}
ImmediateMasked(x) ==
  \/ \E r \in LowBits, n \in Live(x) : x.code[1] = r[1] /\ ImmediateAt(x, n) >= r[2] /\ AsI64(ImmediateAt(x, n)) # 0
  \/ x.code[1] = "Fcmla" /\ ImmediateAt(x, 3) % 90 # 0
(* Operands whose word is of another form: a hint with a name, a widening by
   zero, a return of FEAT_PAuth_LR with x31, an odd group of eight. *)
OtherForm(x) ==
  \/ x.code[1] \in {"HintGeneric", "Sshll", "Ushll"}
  \/ x.code[1] \in {"Retaasppcr", "Retabsppcr"} /\ NumberOf(OpAt(x, 0).reg) = 31
  \/ M!FormOf(x.code) = "Ls64" /\ \E n \in Live(x) : x.ops[n].kind = "Reg" /\ NumberOf(x.ops[n].reg) \notin {2 * k : k \in 0..11}

(* An SVE address: only a vector base is a Z register, and only the modes with
   an immediate have one.  An index of XZR is reserved, or is no index.  A
   governing predicate past P7 sets a bit of the opcode, which is a different
   access. *)
IsSveTo(x, modes) == Z!IsSve(x.code) /\ Z!ModeOf(x) \in modes
SveAddressNotRead(x) ==
  \/ IsSveTo(x, {"VecImm", "VecScalar"}) /\ BankOf(Z!AddrOf(x).reg) # "Z"
  \/ /\ IsSveTo(x, {"ScalarVec", "VecScalar"}) \/ (IsSveTo(x, {"VecImm"}) /\ Z!IsQword(x.code))
     /\ Z!Disp(x) # 0
ReservedIndex(x) ==
  /\ IsSveTo(x, {"MemExt"}) \/ (IsSveTo(x, {"VecScalar"}) /\ Z!IsQword(x.code))
  /\ NumberOf(Z!AddrOf(x).idx) = 31
SpilledPredicate(x) == Z!IsSve(x.code) /\ Z!IsPredicateAt(x, 1) /\ NumberOf(OpAt(x, 1).reg) > 7

KnownLoss(x) ==
  \/ ShiftedTooFar(x) \/ DecorationNotRead(x) \/ DisplacementDropped(x)
  \/ ImmediateMasked(x) \/ OtherForm(x) \/ SveAddressNotRead(x) \/ ReservedIndex(x)
  \/ SpilledPredicate(x)

(* What an edit leaves encodes exactly, "No form silently rounds a value it
   cannot represent": the word decodes to the Code, and unless it is then
   spelled by an alias, to the operands the edit left, but for the known
   losses named above. *)
EditEncodesExactly ==
  EncodeInsn(insn).ok /\ ~KnownLoss(insn) =>
    LET d == DecodeWord(EncodeInsn(insn).v, insn.ip)
    IN  d.code = insn.code /\ (d.mnem = insn.mnem => Told(d) = Told(insn))

(* Encoding an edited instruction yields a word or an EncodeError, "never a
   panic", whatever immediates the edits left in it. *)
EncodeNeverPanics == ~EncodeInsn(insn).ok => EncodeInsn(insn).err # "Panic"
=============================================================================
