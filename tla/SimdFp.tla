------------------------------- MODULE SimdFp -------------------------------
(***************************************************************************)
(* The floating-point and Advanced SIMD group as decode/simd_fp/mod.rs and *)
(* encode/simd_fp.rs put it together: the decoders are tried in an order,  *)
(* a word that none of an earlier family claims going to the next, and the *)
(* encoders in the same order by the Code.  Of the families, the           *)
(* cryptographic instructions are here (src/decode/simd_fp/crypto.rs,      *)
(* src/encode/simd_fp_crypto.rs): eight classes of words set apart before  *)
(* the rest of Advanced SIMD, each with an opcode.                         *)
(***************************************************************************)
EXTENDS ScalarFp, SimdData, SimdMisc

(***************************************************************************)
(* Cryptographic words: classes                                            *)
(***************************************************************************)
TwoRegister(w) == w.b24 = 0 /\ w.b21 = 1 /\ w.rm \in {8, 9} /\ w.op % 4 = 2
SmallOpcode_Narrow(w) == w.op \div 4                 \* a faulty variant
SmallOpcode(w) == 16 * (w.rm % 2) + w.op \div 4      \* word<16:12>

(* The classes a word is in, and its opcode there. *)
ClassesOf(w) ==
  LET upper == w.top = 12 /\ w.b24 = 0
  IN  {c \in {
        <<"aes",      w.top = 4 /\ TwoRegister(w),                                 SmallOpcode(w)>>,
        <<"sha3",     w.top = 5 /\ w.b24 = 0 /\ w.b21 = 0 /\ w.op < 32 /\ w.op % 4 = 0, w.op \div 4>>,
        <<"sha2",     w.top = 5 /\ TwoRegister(w),                                 SmallOpcode(w)>>,
        <<"sm3tt",    upper /\ w.size = 1 /\ w.b21 = 0 /\ w.op \div 16 = 2,        w.op % 4>>,
        <<"sha512_3", upper /\ w.size = 1 /\ w.b21 = 1 /\ w.op >= 32 /\ (w.op \div 4) % 4 = 0,
                      4 * ((w.op \div 16) % 2) + (w.op % 4)>>,
        <<"crypto4",  upper /\ w.size < 2 /\ w.op < 32,                            2 * w.size + w.b21>>,
        <<"xar",      upper /\ w.size = 2 /\ w.b21 = 0,                            0>>,
        <<"sha512_2", upper /\ w.size = 3 /\ w.b21 = 0 /\ w.rm = 0 /\ w.op \div 4 = 8, w.op % 4>>} :
       c[2]}

(* <<Code, class, opcode, operands>>: the operands are scalar views, by their
   letter, or vectors, by their arrangement. *)
CryptoRow ==
  {<<"Aese", "aes", 4, <<"16b", "16b">>>>, <<"Aesd", "aes", 5, <<"16b", "16b">>>>,
   <<"Aesmc", "aes", 6, <<"16b", "16b">>>>, <<"Aesimc", "aes", 7, <<"16b", "16b">>>>,
   <<"Sha1c", "sha3", 0, <<"Q", "S", "4s">>>>, <<"Sha1p", "sha3", 1, <<"Q", "S", "4s">>>>,
   <<"Sha1m", "sha3", 2, <<"Q", "S", "4s">>>>, <<"Sha1su0", "sha3", 3, <<"4s", "4s", "4s">>>>,
   <<"Sha256h", "sha3", 4, <<"Q", "Q", "4s">>>>, <<"Sha256h2", "sha3", 5, <<"Q", "Q", "4s">>>>,
   <<"Sha256su1", "sha3", 6, <<"4s", "4s", "4s">>>>,
   <<"Sha1h", "sha2", 0, <<"S", "S">>>>, <<"Sha1su1", "sha2", 1, <<"4s", "4s">>>>,
   <<"Sha256su0", "sha2", 2, <<"4s", "4s">>>>,
   <<"Sha512h", "sha512_3", 0, <<"Q", "Q", "2d">>>>, <<"Sha512h2", "sha512_3", 1, <<"Q", "Q", "2d">>>>,
   <<"Sha512su1", "sha512_3", 2, <<"2d", "2d", "2d">>>>, <<"Rax1", "sha512_3", 3, <<"2d", "2d", "2d">>>>,
   <<"Sm3partw1", "sha512_3", 4, <<"4s", "4s", "4s">>>>,
   <<"Sm3partw2", "sha512_3", 5, <<"4s", "4s", "4s">>>>,
   <<"Sm4ekey", "sha512_3", 6, <<"4s", "4s", "4s">>>>,
   <<"Sha512su0", "sha512_2", 0, <<"2d", "2d">>>>, <<"Sm4e", "sha512_2", 1, <<"4s", "4s">>>>,
   <<"Eor3", "crypto4", 0, <<"16b", "16b", "16b", "16b">>>>,
   <<"Bcax", "crypto4", 1, <<"16b", "16b", "16b", "16b">>>>,
   <<"Sm3ss1", "crypto4", 2, <<"4s", "4s", "4s", "4s">>>>,
   <<"Sm3tt1a", "sm3tt", 0, <<"4s", "4s", "lane">>>>, <<"Sm3tt1b", "sm3tt", 1, <<"4s", "4s", "lane">>>>,
   <<"Sm3tt2a", "sm3tt", 2, <<"4s", "4s", "lane">>>>, <<"Sm3tt2b", "sm3tt", 3, <<"4s", "4s", "lane">>>>,
   <<"Xar", "xar", 0, <<"2d", "2d", "2d", "imm">>>>}
CryptoCode(r) == <<r[1], "Adv">>

(***************************************************************************)
(* Decode                                                                  *)
(***************************************************************************)

(* The operand in a position: Rd, Rn, Rm, Ra, or the number in its place. *)
CryptoOperand(kind, w, i) ==
  LET n == <<w.rd, w.rn, w.rm, w.op % 32>>[i]
  IN  CASE kind = "16b"  -> VReg(Arr(0, 1), n)
        [] kind = "4s"   -> VReg(Arr(2, 1), n)
        [] kind = "2d"   -> VReg(Arr(3, 1), n)
        [] kind = "S"    -> SReg(2, n)
        [] kind = "Q"    -> SReg(4, n)
        [] kind = "lane" -> VLane(Elem(2), n, (w.op \div 4) % 4)
        [] kind = "imm"  -> ImmOp(w.op)

(* A word of a class is claimed even when its opcode is not allocated; the
   classes of the first two registers also want a zero size. *)
ClaimsCrypto_Always(w) == ClassesOf(w) # {}           \* a faulty variant
ClaimsCrypto(w) == Gated("Crypto") /\ ClassesOf(w) # {}

DecodeCrypto(w, ip) ==
  LET cls  == One(ClassesOf(w))
      rows == {r \in CryptoRow : r[2] = cls[1] /\ r[3] = cls[3]}
      r    == One(rows)
  IN  IF rows = {} \/ (cls[1] \in {"aes", "sha2", "sha3"} /\ w.size # 0) THEN NewInvalid(w, ip)
      ELSE Plain(w, ip, CryptoCode(r),
                 [i \in DOMAIN r[4] |-> CryptoOperand(r[4][i], w, i)])

(***************************************************************************)
(* Encode: only the numbers of the registers are read.                     *)
(***************************************************************************)
IsCrypto(c) == \E r \in CryptoRow : CryptoCode(r) = c

CryptoWord(cls, o, rm, low, rn, rd) ==
  CASE cls \in {"aes", "sha2"} ->
         Pack(IF cls = "aes" THEN 4 ELSE 5, 0, 0, 1, 8 + o \div 16, 4 * (o % 16) + 2, rn, rd)
    [] cls = "sha3"     -> Pack(5, 0, 0, 0, rm, 4 * o, rn, rd)
    [] cls = "sha512_3" -> Pack(12, 0, 1, 1, rm, 32 + 16 * (o \div 4) + (o % 4), rn, rd)
    [] cls = "sha512_2" -> Pack(12, 0, 3, 0, 0, 32 + o, rn, rd)
    [] cls = "crypto4"  -> Pack(12, 0, o \div 2, o % 2, rm, low, rn, rd)
    [] cls = "sm3tt"    -> Pack(12, 0, 1, 0, rm, 32 + 4 * low + o, rn, rd)
    [] cls = "xar"      -> Pack(12, 0, 2, 0, rm, low, rn, rd)

EncodeCrypto(x) ==
  LET r     == CHOOSE r \in CryptoRow : CryptoCode(r) = x.code
      last  == r[4][Len(r[4])]
      regs  == IF last = "imm" THEN 3 ELSE Len(r[4])
      \* the lane, the rotation or Ra
      extra == CASE last = "lane" -> IF HasLaneAt(x, 2) THEN Below(LaneAt(x, 2), 4) ELSE BadOperand
                 [] last = "imm" -> IF IsImmAt(x, 3) THEN Below(U32At(x, 3), 64) ELSE BadOperand
                 [] OTHER -> Ok(IF regs = 4 THEN RegAt(x, 3) ELSE 0)
  IN  With(\A i \in 0..(regs - 1) : IsRegAt(x, i), extra,
           CryptoWord(r[2], r[3], IF regs > 2 THEN RegAt(x, 2) ELSE 0, extra.v, RegAt(x, 1), RegAt(x, 0)))

(***************************************************************************)
(* The families in order                                                   *)
(***************************************************************************)

(* The arithmetic decoder is followed by the data decoder when it leaves
   the instruction invalid; a cryptographic word is claimed either way. *)
DecodeSimdFp(w, ip) ==
  LET arith == DecodeSimdArith(w, ip)
  IN  CASE IsScalarFp(w) -> DecodeScalarFp(w, ip)
        [] ~IsScalarFp(w) /\ ClaimsCrypto(w) -> DecodeCrypto(w, ip)
        [] OTHER -> IF arith.code # <<"Invalid">> THEN arith ELSE DecodeSimdData(w, ip)

(* The families a Code belongs to; the first of them encodes it. *)
SimdFamilies(c) ==
  {f \in {<<"scalar", ScalarFamily(c) # "none">>, <<"crypto", IsCrypto(c)>>,
          <<"arith", IsSimdArith(c)>>, <<"data", IsSimdData(c)>>} : f[2]}

EncodeSimdFp(x) ==
  CASE x.code = <<"Invalid">> -> Err("Invalid")
    [] ScalarFamily(x.code) # "none" -> EncodeScalarFp(x)
    [] IsCrypto(x.code)    -> EncodeCrypto(x)
    [] IsSimdArith(x.code) -> EncodeSimdArith(x)
    [] IsSimdData(x.code)  -> EncodeSimdData(x)
    [] OTHER -> Err("Unsupported")

(***************************************************************************)
(* Code::feature of the group (src/mnemonic.rs)                            *)
(***************************************************************************)
SimdArithFeature(c) ==
  CASE c[1] \in {"Usdot", "Sudot", "Smmla", "Ummla", "Usmmla"} -> "I8mm"
    [] c[1] \in {"Bfdot", "Bfmlalb", "Bfmlalt", "Bfcvtn", "Bfmmla"} -> "Bf16"
    [] c[1] \in {"Famax", "Famin"} -> "Faminmax"
    [] \/ c[1] \in {"Fscale", "F1cvtl", "F2cvtl", "Bf1cvtl", "Bf2cvtl", "Fmlalb", "Fmlalt",
                    "Fmlallbb", "Fmlallbt", "Fmlalltb", "Fmlalltt"}
       \/ c \in {<<"Fdot", "Vec">>, <<"Fdot", "Idx">>, <<"Fcvtn", "Fp8">>, <<"Fcvtn", "Fp82">>} -> "Fp8"
    [] c[1] = "Fdot" /\ c[2] \in {"F16Vec", "F16Idx"} -> "F16f32dot"
    [] c[1] = "Fmmla" -> (CASE c[2] = "F16F32" -> "F16f32mm" [] c[2] = "F16" -> "F16mm"
                            [] c[2] = "F8F16" -> "F8f16mm" [] c[2] = "F8F32" -> "F8f32mm")
    [] OTHER -> "Base"

SimdFeature(c) ==
  CASE ScalarFamily(c) # "none" -> ScalarFeature(c)
    [] IsCrypto(c)    -> "Crypto"
    [] IsSimdArith(c) -> SimdArithFeature(c)
    [] OTHER          -> SimdDataFeature(c)
=============================================================================
