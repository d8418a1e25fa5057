------------------------------ MODULE LdStWord ------------------------------
(***************************************************************************)
(* What the load/store families share (src/decode/ldst.rs,                 *)
(* src/encode/ldst.rs): one word layout, the memory operands and the way   *)
(* Codes and mnemonics are built.                                          *)
(*                                                                         *)
(* A word is the record of the bit groups on which the decoder branches,   *)
(* word<31:30> 29:27 26 25:24 23:22 21 20:12 11:10 9:5 4:0; every other    *)
(* field of the group is a piece of these.  A Code is a mnemonic (a tuple  *)
(* of name parts) followed by its form and its width.                      *)
(***************************************************************************)
EXTENDS Spelling

LdStWord == [size : 0..3, grp : {1, 3, 5, 7}, v : Bit, hi : Bit, opc : 0..3, b21 : Bit,
             mid : 0..511, op4 : 0..3, rn : RegNum, rt : RegNum]

Pack(size, grp, v, hi, opc, b21, mid, op4, rn, rt) ==
  [size |-> size, grp |-> grp, v |-> v, hi |-> hi, opc |-> opc, b21 |-> b21,
   mid |-> mid, op4 |-> op4, rn |-> rn, rt |-> rt]

(* The other names of the middle bits. *)
RsOf(w)    == w.mid \div 16               \* word<20:16>, Rs, Rm or Rt2
O3Of(w)    == (w.mid \div 8) % 2          \* word<15>, o3 or o0
Opc3Of(w)  == w.mid % 8                   \* word<14:12>, opc or option and S
Rt2Of(w)   == 4 * (w.mid % 8) + w.op4     \* word<14:10>
Imm12Of(w) == 2048 * w.b21 + 4 * w.mid + w.op4
Imm7Of(w)  == 64 * w.b21 + w.mid \div 8
Imm19Of(w) == 32 * (4 * (512 * (2 * w.opc + w.b21) + w.mid) + w.op4) + w.rn
Mid(rs, o3, opc3) == 16 * rs + 8 * o3 + opc3

(***************************************************************************)
(* Faulty variants, used to show that the properties detect them.          *)
(***************************************************************************)
SignedField_Unmasked(imm, card, gran) ==
  IF imm % gran # 0 \/ ~InReach(imm \div gran, card) THEN Err("InvalidImmediate")
  ELSE Ok(imm \div gran)
SignedField_Rounds(imm, card, gran) ==
  IF ~InReach(imm \div gran, card) THEN Err("InvalidImmediate")
  ELSE Ok(RawField(imm \div gran, card))

(***************************************************************************)
(* Codes                                                                   *)
(***************************************************************************)
CodeWith(mnem, form, width) == mnem \o <<form, width>>
MnemOf(c)  == IF Len(c) > 2 THEN SubSeq(c, 1, Len(c) - 2) ELSE c
FormOf(c)  == IF Len(c) > 2 THEN c[Len(c) - 1] ELSE "none"
WidthOf(c) == c[Len(c)]
Set(w, ip, c, list) == Built(w, ip, c, MnemOf(c), list)

(* The names of the access sizes and of the A and R bits. *)
SizeWidth == <<"", "", "32", "64">>
OrdName == <<"", "l", "a", "al">>

(***************************************************************************)
(* Operands                                                                *)
(***************************************************************************)
FpBank == <<"B", "H", "S", "D", "Q">>
FpReg(acc, n) == RegOp(<<Entry(FpBank, acc), n>>)

(* fp_acc_of: the access is the width of the register, whatever its class. *)
AccOf == [B |-> 0, H |-> 1, S |-> 2, W |-> 2, D |-> 3, X |-> 3, Q |-> 4]
HasAccAt(x, n) == IsRegAt(x, n) /\ BankOf(OpAt(x, n).reg) \in DOMAIN AccOf
AccAt(x, n)    == AccOf[BankOf(OpAt(x, n).reg)]

(* mem_off, mem_post, mem_pre: the base may be SP. *)
Mem(rn, imm, mode) == Op("MemImm", GpSp(1, rn).reg, NoReg, AsU64(imm), <<mode>>)
At(rn) == Mem(rn, 0, "Offset")

IsMemAt(x, n) == OpAt(x, n).kind = "MemImm"
RnAt(x, n)    == NumberOf(OpAt(x, n).reg)
DispAt(x, n)  == AsI64(OpAt(x, n).val)
ModeAt(x, n)  == OpAt(x, n).dec[1]
IsModeAt(x, n, mode) == IsMemAt(x, n) /\ ModeAt(x, n) = mode

(* Two results in the order the encoder asks for them. *)
Both(f, g) == IF ~f.ok THEN f ELSE g

(* encode_scaled_imm: an unsigned displacement of `card` values in steps of
   `gran`; encode_scaled_imm7 and encode_imm9: a signed one. *)
UnsignedField(imm, card, gran) ==
  IF imm < 0 \/ imm % gran # 0 \/ imm \div gran >= card
  THEN BadImmediate
  ELSE Ok(imm \div gran)
SignedField(imm, card, gran) ==
  IF imm % gran # 0 \/ ~InReach(imm \div gran, card)
  THEN BadImmediate
  ELSE Ok(RawField(imm \div gran, card))

(* prefetch_op: type, cache level and policy, or the raw number of a
   reserved combination. *)
PrfType == <<"pld", "pli", "pst">>
PrfLevel == <<"l1", "l2", "l3">>
PrfPolicy == <<"keep", "strm">>

Prefetch(rt) ==
  IF rt \div 8 = 3 \/ (rt \div 2) % 4 = 3
  THEN ImmOp(rt)
  ELSE SysOp(<<Entry(PrfType, rt \div 8), Entry(PrfLevel, (rt \div 2) % 4),
               Entry(PrfPolicy, rt % 2)>>)

(* A named operand, or the raw number of one. *)
NamedField(x, n, names) ==
  LET o == OpAt(x, n)
      named == {f \in DOMAIN names : names[f].kind = "Other" /\ names[f].dec = o.dec}
  IN  IF o.kind = "ImmUnsigned" THEN IF o.val \notin DOMAIN names THEN BadImmediate ELSE Ok(o.val)
      ELSE IF o.kind = "Other" /\ named # {} THEN Ok(CHOOSE f \in named : TRUE)
      ELSE BadOperand

(* prefetch_rt *)
PrefetchRt(x, n) == NamedField(x, n, [rt \in 0..31 |-> Prefetch(rt)])
=============================================================================
