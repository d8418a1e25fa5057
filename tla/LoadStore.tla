------------------------------ MODULE LoadStore ------------------------------
(***************************************************************************)
(* The load/store group: the dispatch of decode::ldst::decode on the bit   *)
(* groups of a word, and of encode::ldst::encode on the Code.              *)
(***************************************************************************)
EXTENDS LdStReg, LdStAtomic, LdStSimd

(***************************************************************************)
(* Decode                                                                  *)
(***************************************************************************)

(* word<29:27> = 111: the single-register family. *)
DecodeRegister(w, ip) ==
  IF w.hi = 1 THEN DecodeUnsigned(w, ip)
  ELSE IF w.b21 = 1
  THEN CASE w.op4 = 2 -> DecodeRegOffset(w, ip)
         [] w.op4 = 0 -> DecodeAtomic(w, ip)
         [] OTHER -> DecodePac(w, ip)
  ELSE CASE w.op4 = 0 -> DecodeUnscaled(w, ip)
         [] w.op4 = 1 -> DecodeImmPost(w, ip)
         [] w.op4 = 2 -> DecodeUnpriv(w, ip)
         [] OTHER -> DecodeImmPre(w, ip)

(* The memory copies and sets lie inside the block of the tags and of RCpc;
   without the feature their words are not offered to it. *)
IsMops(w) ==
  /\ w.size = 0 /\ w.grp = 3 /\ w.hi = 1 /\ w.b21 = 0
  /\ w.op4 = 1 \/ (w.op4 = 0 /\ w.v = 1 /\ w.opc = 3)
DecodeMopsBlock(w, ip) ==
  IF ~Gated("Mops") THEN NewInvalid(w, ip)
  ELSE IF w.op4 = 1 THEN DecodeMops(w, ip) ELSE DecodeSetgOption(w, ip)

DecodeLdSt(w, ip) ==
  CASE w.grp = 3 /\ w.hi = 0 -> DecodeLiteral(w, ip)
    [] w.grp = 1 /\ w.v = 0 -> IF w.hi = 0 THEN DecodeExclusive(w, ip) ELSE DecodeLsui(w, ip)
    [] w.grp = 1 /\ w.v = 1 /\ w.size < 2 -> DecodeStructure(w, ip)
    [] IsMops(w) -> DecodeMopsBlock(w, ip)
    [] w.grp = 3 /\ w.hi = 1 /\ ~IsMops(w) ->
         IF w.v = 0 THEN DecodeTagsOrRcpc(w, ip)
         ELSE IF w.b21 = 0 /\ w.op4 = 2 THEN DecodeRcpcUnscaled(w, ip)
         ELSE NewInvalid(w, ip)
    [] w.grp = 5 -> DecodePair(w, ip)
    [] w.grp = 7 -> DecodeRegister(w, ip)
    [] OTHER -> NewInvalid(w, ip)

(***************************************************************************)
(* Encode                                                                  *)
(***************************************************************************)

(* The family of a Code, read off its form. *)
SimdForms == {"Multiple", "Single", "Rep"}
PairFormNames == {"Np", "Post", "Off", "Pre", "Fp"}
IsMopsName(name) == name \in {"cpyf", "cpy", "set", "setg"}

EncodeLdSt(x) ==
  LET form == FormOf(x.code)
      name == x.code[1]
  IN  CASE x.code = <<"Invalid">> -> Err("Invalid")
        [] name = "lse" -> EncodeRmw(x)
        [] form = "Unsigned" -> EncodeUnsigned(x)
        [] form = "Unscaled" -> EncodeUnscaled(x)
        [] form = "ImmPost" -> EncodeImmPost(x)
        [] form = "ImmPre" -> EncodeImmPre(x)
        [] form = "Unpriv" -> EncodeUnpriv(x)
        [] form \in {"Rcpc", "FpRcpc"} -> EncodeRcpcUnscaled(x)
        [] form = "FpImm" -> EncodeFpImm(x)
        [] form \in {"RegOff", "FpReg"} -> EncodeRegOffset(x)
        [] form = "Range" -> EncodeRange(x)
        [] form \in {"Lit", "LitFp"} -> EncodeLiteral(x)
        [] name = "Ldra" -> EncodePac(x)
        [] form \in PairFormNames /\ name # "Ldra" -> EncodePair(x)
        [] form = "Excl" -> EncodeExclusive(x)
        [] form = "Ord" -> EncodeOrd(x)
        [] form = "Lsfe" -> EncodeLsfe(x)
        [] form = "Ldapr" -> EncodeLdapr(x)
        [] form = "Ls64" -> EncodeLs64(x)
        [] form = "The" -> EncodeTheAtomic(x)
        [] form = "Tag" -> EncodeTags(x)
        [] form = "Rcpc3" -> EncodeOrderedPair(x)
        [] form = "Rcpc3Wb" -> EncodeOrderedWb(x)
        [] form = "Gcs" -> EncodeGcs(x)
        [] form = "Multiple" -> EncodeMultiple(x)
        [] form = "Single" -> EncodeSingleStructure(x)
        [] form = "Rep" -> EncodeReplicate(x)
        [] form = "Mops" -> IF IsMopsName(name) THEN EncodeMops(x) ELSE EncodeSetgOption(x)

(* Code::feature, by family. *)
FeatureOf(c) ==
  LET form == FormOf(c)
  IN  CASE form = "Mops" -> "Mops"
        [] form \in SimdForms -> "Base"
        [] form = "Excl" -> ExclFeature(c)
        [] form \in {"The", "Tag", "Gcs", "Rcpc3", "Rcpc3Wb"} -> TaggedFeature(c)
        [] c[1] = "lse" \/ form \in {"Ord", "Lsfe", "Ldapr", "Ls64"} -> AtomicFeature(c)
        [] form \in PairFormNames /\ c[1] # "Ldra" -> PairFeature(c)
        [] OTHER -> RegFeature(c)
=============================================================================
