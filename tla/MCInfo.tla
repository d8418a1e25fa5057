------------------------------- MODULE MCInfo -------------------------------
(***************************************************************************)
(* The access analysis of decoded instructions: every family of the loads  *)
(* and stores, those of SVE included, the vectors, the register group, the *)
(* system group and the branches, and by hand the widest SVE and SME       *)
(* operands.                                                               *)
(***************************************************************************)
EXTENDS Info

LS == INSTANCE LoadStore
DR == INSTANCE DpReg
SY == INSTANCE System WITH U32Mod <- 1048576
SF == INSTANCE SimdFp WITH U32Mod <- 1048576, OverflowChecks <- TRUE
SM == INSTANCE SveMem WITH OverflowChecks <- TRUE
BI == INSTANCE BranchImm
        WITH Granule <- 4, Page <- 4096, C26 <- 8, C19 <- 4, C14 <- 4, C9 <- 4, C16 <- 4, C21 <- 8,
             C5 <- 2, C6 <- 2, CUdf <- 4, U32 <- 16, RegNum <- {9}, Cond4 <- {0}

(* Equal to AllFeatures of System, which a value given to Features cannot
   name: System depends on Features itself. *)
SystemFeatures == {"PAuth", "PauthLr", "Tme", "Tev", "Tchange", "Dgh", "Trf", "Gcs", "Clrbhb", "Chk", "Pcdphint",
                   "Wfxt", "Xs", "D128"}
MCFeatures == SystemFeatures \cup {"The", "Lse", "Lse128", "Lsfe", "Lsui", "Ls64", "Rcpc3", "Mte",
  "Gcs", "Mops", "PAuth", "PauthLr", "Rprfm", "Hbc", "Cmpbr", "FlagM", "Cssc", "Cpa", "Fp16", "Bf16", "Frintts",
  "Fprcvt", "Crypto", "Lut", "Fp8", "F16f32dot", "I8mm", "F16f32mm", "F16mm", "F8f16mm", "F8f32mm", "Faminmax",
  "Sve", "Sve2p1"}

LdSt(size, grp, v, hi, opc, b21, mid, op4, rt) ==
  {LS!DecodeLdSt(LS!Pack(f[1], f[2], f[3], f[4], f[5], f[6], f[7], f[8], 2, f[9]), 0) :
     f \in size \X grp \X v \X hi \X opc \X b21 \X mid \X op4 \X rt}
Mids(rs, low) == {16 * a + b : a \in rs, b \in low}
Any4 == 0..3
MCLoadStore ==
  LdSt(Any4, {7}, Bit, {1}, Any4, {1}, {1}, {0}, {3})
    \cup LdSt(Any4, {7}, Bit, {0}, Any4, {0}, {8}, Any4, {3})
    \cup LdSt(Any4, {7}, Bit, {0}, Any4, {1}, Mids({4}, 0..15), {0, 2}, {2})
    \cup LdSt({3}, {7}, {0}, {0}, Any4, {1}, Mids({4}, 0..15), {0, 2}, {24, 31})
    \cup LdSt(2..3, {7}, {0}, {0}, Any4, {1}, {8}, {1, 3}, {3})
    \cup LdSt(Any4, {3}, Bit, {0}, {0}, {0}, {1}, {1}, {3})
    \cup LdSt(Any4, {5}, Bit, Bit, Any4, Bit, {7}, {3}, {3})
    \cup LdSt(Any4, {1}, {0}, Bit, Any4, Bit, Mids({4, 31}, {7, 15}), {3}, {6})
    \cup LdSt(0..1, {1}, {1}, Bit, Any4, Bit, Mids({0, 4, 31}, 0..15), {0, 1}, {30})
    \cup LdSt(Any4, {3}, Bit, {1}, Any4, Bit, Mids({4, 31}, 0..15), Any4, {8})
MCRegister ==
  {DR!DecodeDpReg(w, 0) : w \in
    [class : {"addsub"}, sf : Bit, op : Bit, s : Bit, shift : {0}, rm : {4}, imm6 : {0}, rn : {3, 31}, rd : {3, 31}]
    \cup [class : {"carry"}, sf : Bit, op : Bit, s : Bit, rm : {0, 5}, op3 : {0, 1, 2, 18}, rn : {3}, rd : {13}]
    \cup [class : {"compare"}, sf : Bit, op : Bit, s : {1}, rm : {4}, cond : {0}, form : Bit, o2 : {0}, rn : {3},
          o3 : {0}, nzcv : {0}]
    \cup [class : {"select"}, sf : Bit, op : Bit, s : {0}, rm : {4, 31}, cond : {0}, o1 : {0}, o2 : Bit, rn : {4, 31},
          rd : {4}]
    \cup [class : {"one"}, sf : Bit, s : {0}, opcode2 : {1}, opcode : 0..63, rn : {3, 31}, rd : {3, 30}]}
MCSystemWords ==
  [cls : {"branch"}, opc : 0..9, op2 : {31}, op3 : 0..4, rn : {0, 30, 31}, op4 : {0, 30, 31}]
    \cup [cls : {"exception"}, opc : 0..5, imm : {0}, op2 : {0}, ll : 0..3]
    \cup [cls : {"system"}, l : Bit, op0 : {0}, op1 : {3}, crn : 0..4, crm : 0..7, op2 : 0..7, rt : {3, 31}]
    \cup [cls : {"system"}, l : Bit, op0 : {1, 3}, op1 : {3}, crn : {7}, crm : {3, 7}, op2 : 0..7, rt : {3}]
    \cup [cls : {"pair"}, l : Bit, op0 : 1..3, op1 : {0}, crn : {2, 8}, crm : {0, 7}, op2 : {0, 1}, rt : {4, 30}]
(* One size of every vector opcode and every size of every SVE access. *)
MCSimdWords ==
  [top : {0, 1, 2, 3, 4, 5, 6, 7, 9, 11, 12}, b24 : Bit, size : {1}, b21 : Bit, rm : {16}, op : 0..63, rn : {5},
   rd : {30}]
    \cup [top : {1}, b24 : {0}, size : 0..3, b21 : {1}, rm : {30}, op : 0..63, rn : {5}, rd : {0, 16}]
MCSveWords ==
  [quad : {"G32", "Ld", "G64", "St"}, msz : 0..3, b22 : Bit, b21 : Bit, rm : {5}, op : 0..7, pg : {6}, rn : {31},
   zt : {14}]
MCBranches == {BI!Decode(w, 0) : w \in BI!BranchWord}

MCVectors == {SF!DecodeSimdFp(w, 0) : w \in MCSimdWords} \cup {SM!DecodeSveMem(w, 0) : w \in MCSveWords}

(* By hand: sel {z16.b-z19.b}, pn14, {z8.b-z11.b}, {z4.b-z7.b};
   fmla z0, p1/m, z2, z3; a strided group; moves of tiles, tables, FFR. *)
Z(n, dec) == Op("Reg", <<"Z", n>>, NoReg, 0, dec)
P(n, dec) == Op("Reg", <<"P", n>>, NoReg, 0, dec)
VecGroup(n, count, stride) == Op("SveVecGroup", <<"Z", n>>, NoReg, count, <<stride>>)
SveMem == Op("SveMem", X(0), X(2), 0, NoDec)
Tile == Op("SmeTileSlice", <<"W", 12>>, NoReg, 0, NoDec)
Made(mnem, list) == Built(0, 0, <<mnem>>, <<mnem>>, list)
ByHand ==
  { Made("Sel", <<VecGroup(16, 4, 1), Op("PredCounter", <<"P", 14>>, NoReg, 0, NoDec),
                  VecGroup(8, 4, 1), VecGroup(4, 4, 1)>>),
    Made("Fmla", <<Z(0, NoDec), P(1, <<"/m">>), Z(2, NoDec), Z(3, NoDec)>>),
    Made("Abs", <<Z(0, NoDec), P(1, <<"/m">>), Z(2, NoDec)>>),
    Made("Ld1w", <<VecGroup(17, 4, 4), P(8, <<"/z">>), SveMem>>),
    Made("Mova", <<Tile, P(0, <<"/m">>), Z(4, NoDec)>>),
    Made("Zero", <<Op("SmeZaMask", NoReg, NoReg, 0, <<"zt0">>)>>),
    Made("Rdffrs", <<P(0, NoDec), P(1, <<"/z">>)>>),
    Made("Wrffr", <<P(0, NoDec)>>) }

(* The analysis does not look at the word. *)
Wordless(S) == {[x EXCEPT !.word = 0] : x \in {y \in S : y.mnem # <<"Invalid">>}}
MCSample ==
  Wordless(MCLoadStore) \cup Wordless(MCRegister) \cup Wordless({SY!DecodeSystemGroup(w, 0) : w \in MCSystemWords})
    \cup Wordless(MCBranches) \cup Wordless(MCVectors) \cup ByHand
MCRepeat == Wordless({BI!DecodeB([class |-> "b", op |-> 1, imm |-> 1], 0)})

(* "The largest shapes ... reaches thirteen", "Two is exact" for memory
   (src/info.rs:55-64): a smaller capacity than MAX_USED_REGS would do. *)
ASSUME WidestFits == \A x \in Sample \cup Repeat : Fits(x, 13, 2)

(***************************************************************************)
(* What the documentation says and the analysis does not do                *)
(***************************************************************************)
Accesses == {mem[i].acc : i \in DOMAIN mem}
(* "Stores read their data register(s); the memory is OpAccess::Write"
   (src/info.rs:18). *)
IsStore(m) ==
  \/ m[1] = "St"
  \/ m[1] \in {"ar", "xr", "xp", "txr"} /\ m[2] = "st"
  \/ m[1] \in {"stlr", "stg", "stzg", "st2g", "stz2g", "stgm", "stzgm", "gcsstr", "gcssttr", "St64b"}
StoresWriteMemory == phase = "done" /\ IsStore(insn.mnem) => Accesses = {"Write"}

(* "Atomics / swaps / compare-and-swap ... touch memory
   OpAccess::ReadWrite" (src/info.rs:19). *)
IsAtomic(m) == m[1] \in {"ld", "st"} \cup CompareSwaps \/ LS!FormOf(insn.code) \in {"The", "Lsfe"}
AtomicsReadAndWriteMemory == phase = "done" /\ IsAtomic(insn.mnem) => Accesses = {"ReadWrite"}

(* "the index register is OpAccess::Read" (src/info.rs:21-23). *)
IndexRegisterIsOnlyRead ==
  phase = "done" => \A n \in Live(insn) :
    OpAt(insn, n).kind = "MemImm" /\ OpAt(insn, n).dec = <<"PostReg">>
      => AccessOf(regs, OpAt(insn, n + 1).reg) = "Read"

(* flags_read is "`true` if the instruction reads any of the NZCV condition
   flags" (src/info.rs:159); CB<cc> compares two values of its own. *)
CompareBranchesReadNoFlags ==
  phase = "done" /\ insn.mnem[1] \in CompareBranches => AccessOf(regs, Nzcv) = "None"

(* A form with "no destination register" has "every register operand ...
   read" (src/info.rs:240). *)
HasNoDestination == Named({"Wfet", "Wfit", "Gcspushm", "Gcsss1", "Msr", "Tlbi"})
FormsWithoutDestinationWriteNothing ==
  phase = "done" /\ insn.mnem \in HasNoDestination =>
    \A i \in DOMAIN regs : BankOf(regs[i].reg) = "X" => regs[i].acc = "Read"
=============================================================================
