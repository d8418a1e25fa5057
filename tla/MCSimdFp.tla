------------------------------ MODULE MCSimdFp ------------------------------
(***************************************************************************)
(* Round trip of the floating-point and Advanced SIMD words: every value   *)
(* of every field but the numbers of the destination and of the first      *)
(* source.                                                                 *)
(***************************************************************************)
EXTENDS SimdFp, RoundTrip

AllFeatures ==
  {"Fp16", "Bf16", "Frintts", "Fprcvt", "Crypto", "Lut", "Fp8", "F16f32dot", "I8mm", "F16f32mm",
   "F16mm", "F8f16mm", "F8f32mm", "Faminmax"}

W(top, b24, rm) ==
  [top : top, b24 : b24, size : 0..3, b21 : Bit, rm : rm, op : 0..63, rn : {5}, rd : {31}]
MCSample == W({0,1,2,3,4,5,6,7,9,11,12}, Bit, 0..31)

(* The decode under other features. *)
Under(F) == INSTANCE SimdFp WITH Features <- F

(* The encoding of a decoded word differs from the word only in the fields
   the decoder of its family documents as ignored: the destination of "dup
   (general)" and "ins (element)" through fields the other form uses, and
   the size bits of the across-lanes and narrowing floating-point forms
   (src/decode/simd_fp/simd_arith.rs:2129, 2291, src/decode/simd_fp/simd_data.rs:604). *)
Ignored(c) ==
  CASE c = <<"DupGeneral", "Copy">> -> {"rm"}
    [] c = <<"InsElement", "Copy">> -> {"op"}
    [] c[1] \in {"Fmaxv", "Fminv", "Fmaxnmv", "Fminnmv", "Fcvtxn"} -> {"size"}
    [] OTHER -> {}

OnlyIgnoredFieldsChange ==
  pc = "done" =>
    \A f \in DOMAIN word : f \in Ignored(insn.code) \/ out.v[f] = word[f]

(* A form with a scalar or with elements of 16 bits. *)
IsHalfAt(x, n) ==
  IsViewAt(x, n, 1) \/ (BankOf(OpAt(x, n).reg) = "V" /\ SizeAt(x, n) = 1)
HasHalf(x) == \E n \in Live(x) : IsRegAt(x, n) /\ IsHalfAt(x, n)

(* Whatever decodes is still the same instruction when only its declared
   feature is on, and is refused when only that one is off (Code::feature
   against the gates of the decoders).  Only a form with 16-bit operands may
   take Fp16 besides: its Code serves the other precisions as well. *)
GateIsTheDeclaredFeature ==
  pc = "encode" /\ Valid(insn) =>
    LET f == SimdFeature(insn.code)
        Seen(F) == Under(F)!DecodeSimdFp(word, ip)
    IN  /\ Seen(IF HasHalf(insn) THEN {f, "Fp16"} ELSE {f}) = insn
        /\ f # "Base" => ~Valid(Seen(Features \ {f}))

(* "FCVT to/from H is always allowed (it is half-precision *arithmetic* that
   gates on FEAT_FP16, not the convert)", src/decode/simd_fp/scalar_fp.rs:447:
   a change of precision decodes without FEAT_FP16 as well. *)
HalfConvertsNeedNoFp16 ==
  pc = "encode" /\ insn.code[1] = "Fcvt" =>
    Valid(Under(Features \ {"Fp16"})!DecodeSimdFp(word, ip))
=============================================================================
