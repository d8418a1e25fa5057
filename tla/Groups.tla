------------------------------- MODULE Groups -------------------------------
(***************************************************************************)
(* The whole codec over the groups of instructions: decode::decode_into    *)
(* dispatches a word on op0 = word<28:25> to the decoder of its group, and *)
(* encode::encode dispatches an instruction on its Code alone.  A Code is  *)
(* the only thing the two dispatches share, so an instruction of one group *)
(* must never satisfy the predicate of another that is asked first.        *)
(*                                                                         *)
(* A word is its group's word under the group's name, which stands for     *)
(* op0.  The immediate branches, whose fields are scaled down, are         *)
(* composed in MCBranchImm; of SVE only the memory accesses are modelled,  *)
(* and SME is not.  The Apple instructions of the reserved group are few   *)
(* and are decoded and encoded here (src/decode/apple.rs,                  *)
(* src/encode/apple.rs).                                                   *)
(***************************************************************************)
EXTENDS DpImm, DpReg

CONSTANT U32Mod             \* values of a u32

B == INSTANCE System
M == INSTANCE LoadStore
V == INSTANCE SimdFp
Z == INSTANCE SveMem

Of(g, W) == [g : {g}, w : W]
Tag(g, w) == [g |-> g, w |-> w]

(***************************************************************************)
(* The reserved group: the AMX coprocessor and the guarded execution       *)
(* levels, which share their base word but for word<10> (gxf).             *)
(***************************************************************************)
AppleWord == [gxf : Bit, op : 0..31, operand : RegNum]
Amx(gxf, op, operand) == [gxf |-> gxf, op |-> op, operand |-> operand]

(* Every op but the toggle takes a general-purpose register. *)
AmxName ==
  <<"AmxLdx", "AmxLdy", "AmxStx", "AmxSty", "AmxLdz", "AmxStz", "AmxLdzi", "AmxStzi", "AmxExtrx", "AmxExtry",
    "AmxFma64", "AmxFms64", "AmxFma32", "AmxFms32", "AmxMac16", "AmxFma16", "AmxFms16", "AmxToggle",
    "AmxVecint", "AmxVecfp", "AmxMatint", "AmxMatfp", "AmxGenlut">>
Toggle == Place(AmxName, "AmxToggle")
ToggleName == <<"AmxSet", "AmxClr">>

DecodeApple(w, ip) ==
  CASE w.gxf = 0 /\ Gated("AppleAmx") /\ w.op = Toggle ->
         IF w.operand < Len(ToggleName) THEN Plain(w, ip, <<Entry(ToggleName, w.operand)>>, <<>>)
         ELSE NewInvalid(w, ip)
    [] w.gxf = 0 /\ Gated("AppleAmx") /\ w.op # Toggle /\ w.op < Len(AmxName) ->
         Plain(w, ip, <<Entry(AmxName, w.op)>>, <<Gp(1, w.operand)>>)
    [] w.gxf = 1 /\ Gated("Gxf") /\ w.op = 0 /\ w.operand = 0 -> Plain(w, ip, <<"Gexit">>, <<>>)
    [] w.gxf = 1 /\ Gated("Gxf") /\ w.op = 1 -> Plain(w, ip, <<"Genter">>, <<ImmOp(w.operand)>>)
    [] OTHER -> NewInvalid(w, ip)

IsApple(c) ==
  Lists(AmxName, c[1]) \/ Lists(ToggleName, c[1]) \/ c[1] \in {"Genter", "Gexit"}

EncodeApple(x) ==
  LET c == x.code[1]
  IN  CASE c = "Gexit" -> Ok(Amx(1, 0, 0))
        [] c = "Genter" ->
             With(OpAt(x, 0).kind = "ImmUnsigned",
                  IF ValAt(x, 0) > 31 THEN BadImmediate ELSE Ok(0), Amx(1, 1, ValAt(x, 0)))
        [] Lists(ToggleName, c) -> Ok(Amx(0, Toggle, Place(ToggleName, c)))
        [] OTHER -> With(IsRegAt(x, 0), Ok(0), Amx(0, Place(AmxName, c), RegAt(x, 0)))

AppleFeature(c) == IF c[1] \in {"Genter", "Gexit"} THEN "Gxf" ELSE "AppleAmx"

(***************************************************************************)
(* The dispatch of decode::decode_into                                     *)
(***************************************************************************)

GroupWord ==
  Of("imm", DpImmWord) \cup Of("reg", DpRegWord) \cup Of("sys", B!SystemWord) \cup Of("mem", M!LdStWord)
    \cup Of("simd", V!SimdWord)
    \cup Of("sve", Z!SveWord) \cup Of("apple", AppleWord)

(* The decoder of a group puts the whole word into its instruction. *)
DecodeGroup(t, ip) ==
  [(CASE t.g = "imm"   -> DecodeDpImm(t.w, ip)
      [] t.g = "reg"   -> DecodeDpReg(t.w, ip)
      [] t.g = "sys"   -> B!DecodeSystemGroup(t.w, ip)
      [] t.g = "mem"   -> M!DecodeLdSt(t.w, ip)
      [] t.g = "simd"  -> V!DecodeSimdFp(t.w, ip)
      [] t.g = "sve"   -> Z!DecodeSveMem(t.w, ip)
      [] t.g = "apple" -> DecodeApple(t.w, ip)) EXCEPT !.word = t]

(***************************************************************************)
(* The predicates of encode::encode                                        *)
(***************************************************************************)
AmongNames(c, tables) == \E i \in DOMAIN tables : Lists(tables[i], c[1])

(***************************************************************************)
(* Faulty variants, used to show that the properties detect them.          *)
(***************************************************************************)
IsSized_Always(c) == TRUE

(* The Codes of the register group are typed by a width, those of the other
   groups with the same names by the form of their operands. *)
IsSized(c) == c[Len(c)] \in {"32", "64"} /\ Len(c) = 2

(* is_dp_imm, is_dp_reg, is_branch_sys, is_ldst with is_mops *)
IsDpImm(c) ==
  AmongNames(c, <<AddSubName, MinMaxName, LogicalName, MoveWideName, BitfieldName,
                  <<"AddgImm", "SubgImm", "Extr">> >>)
IsDpReg(c) ==
  /\ IsSized(c)
  /\ \/ AmongNames(c, <<LogicalShiftedName, AddSubShiftedName, ExtendedName, CarryName, CompareName, SelectName,
                        PauthName, <<"Rmif", "Setf8", "Setf16", "Addpt", "Subpt">> >>)
     \/ \E r \in ThreeSource \cup TwoSource : r[3] = c[1]
     \/ \E r \in OneSource \cup LrSource : r[2] = c[1]
IsBranchSys(c) ==
  /\ Len(c) = 1 \/ c[1] \in {"Tchangef", "Tchangeb"}
  /\ \/ AmongNames(c, <<B!WfxtName, B!FlagName, B!StreamName, B!ResultName,
                        <<"MsrImm", "MsrReg", "Mrs", "Sys", "Sysl", "Mrrs", "Msrr", "Sysp", "Tchangef", "Tchangeb">> >>)
     \/ c[1] \in B!BarrierName
     \/ \E r \in B!BranchRow \cup B!ExceptionRow \cup B!GcsRow : r[1] = c[1]
     \/ \E r \in B!HintRow : r[2] = c[1]
IsLdSt(c) ==
  \/ c[1] \in {"lse", "Ldra"}
  \/ M!FormOf(c) \in
       {"Unsigned", "Unscaled", "ImmPost", "ImmPre", "Unpriv", "Rcpc", "FpRcpc", "FpImm", "RegOff", "FpReg",
        "Range", "Lit", "LitFp", "Excl", "Ord", "Lsfe", "Ldapr", "Ls64", "The", "Tag", "Rcpc3", "Rcpc3Wb", "Gcs",
        "Mops"} \cup M!SimdForms \cup M!PairFormNames
IsSimdFp(c) == V!SimdFamilies(c) # {}

(* encode::encode *)
In(g, r) == IF r.ok THEN Ok(Tag(g, r.v)) ELSE r
EncodeGroup(x) ==
  LET c == x.code
  IN  IF c = <<"Invalid">> THEN Err("Invalid")
      ELSE IF IsDpImm(c) THEN In("imm", EncodeDpImm(x))
      ELSE IF IsDpReg(c) THEN In("reg", EncodeDpReg(x))
      ELSE IF IsBranchSys(c) THEN In("sys", B!EncodeSystemGroup(x))
      ELSE IF IsLdSt(c) THEN In("mem", M!EncodeLdSt(x))
      ELSE IF IsSimdFp(c) THEN In("simd", V!EncodeSimdFp(x))
      ELSE IF Z!IsSve(c) THEN In("sve", Z!EncodeSveMem(x))
      ELSE IF IsApple(c) THEN In("apple", EncodeApple(x))
      ELSE Err("Unsupported")

(***************************************************************************)
(* Code::feature                                                           *)
(***************************************************************************)
GroupFeature(c) ==
  IF c = <<"Invalid">> THEN "Base"
  ELSE IF IsDpImm(c) THEN ImmFeature(c)
  ELSE IF IsDpReg(c) THEN RegFeature(c)
  ELSE IF IsBranchSys(c) THEN B!SystemFeature(c)
  ELSE IF IsLdSt(c) THEN M!FeatureOf(c)
  ELSE IF IsSimdFp(c) THEN V!SimdFeature(c)
  ELSE IF Z!IsSve(c) THEN Z!SveFeature(c)
  ELSE AppleFeature(c)
=============================================================================
