------------------------------- MODULE PcRel -------------------------------
(***************************************************************************)
(* PC-relative targets: how the decoders turn a signed immediate field     *)
(* into an absolute label, and how the encoders recover the field from     *)
(* the label (rel_imm and friends).  Addresses are u64: arithmetic wraps   *)
(* modulo AddrMod.                                                         *)
(*                                                                         *)
(* A field is described by the number of its values `card` (2^bits) and    *)
(* its granule `gran` (2^shift bytes).                                     *)
(***************************************************************************)
EXTENDS Integers

CONSTANT AddrMod   \* number of addresses, 2^64 in the code

Addr == 0..(AddrMod - 1)

(* A Result<u32, EncodeError>; the value of an Err is 0. *)
Ok(v) == [ok |-> TRUE, v |-> v, err |-> "None"]
Err(e) == [ok |-> FALSE, v |-> 0, err |-> e]

(***************************************************************************)
(* Faulty variants, used to show that the properties detect them.          *)
(***************************************************************************)
AsI64_Unsigned(x) == x
InReach_DropsMinimum(imm, card) == -card < imm + imm /\ imm + imm < card
RawField_Unmasked(imm, card) == imm
RawField_Magnitude(imm, card) == IF imm < 0 THEN -imm ELSE imm
AdrpImm_Rounded(target, ip, card, page) ==
  LET d   == (target - (target % page)) - (ip - (ip % page))
      imm == (IF d < 0 THEN d + AddrMod ELSE d) \div page
  IN  IF imm < card \div 2 THEN Ok(imm) ELSE Err("InvalidImmediate")

(* wrapping_add / wrapping_sub of two addresses. *)
AddrAdd(a, b) == IF a + b < AddrMod THEN a + b ELSE (a + b) - AddrMod
AddrSub(a, b) == IF b <= a THEN a - b ELSE (a - b) + AddrMod

(* `x as i64` and `i as u64`. *)
AsI64(x) == IF x + x < AddrMod THEN x ELSE x - AddrMod
AsU64(i) == IF i < 0 THEN i + AddrMod ELSE i

(* sign_extend of a field of `card` values. *)
SignExtend(f, card) == IF f + f < card THEN f ELSE f - card

(* The label the decoders push: ip + SignExtend(imm : Zeros). *)
RelTarget(f, ip, card, gran) == AddrAdd(ip, AsU64(SignExtend(f, card) * gran))

(* A signed immediate fits a field of `card` values. *)
InReach(imm, card) == -card <= imm + imm /\ imm + imm < card

(* The raw field of a signed immediate, `imm & (2^bits - 1)`. *)
RawField(imm, card) == IF imm < 0 THEN imm + card ELSE imm

(* rel_imm(target, ip, bits, shift). *)
RelImm(target, ip, card, gran) ==
  LET off == AsI64(AddrSub(target, ip))
      imm == off \div gran
  IN  IF off % gran # 0 \/ ~InReach(imm, card)
      THEN Err("InvalidImmediate")
      ELSE Ok(RawField(imm, card))

(* The *SPPC forms name an address at or before ip: ip - (imm16 << 2). *)
SppcTarget(f, ip, gran) == AddrSub(ip, f * gran)

SppcImm(target, ip, card, gran) ==
  LET dist == AddrSub(ip, target)
  IN  IF dist % gran # 0 \/ dist \div gran >= card
      THEN Err("InvalidImmediate")
      ELSE Ok(dist \div gran)

(* ADRP names a page: page(ip) + (imm << 12). *)
PageOf(a, page) == a - (a % page)

AdrpTarget(f, ip, card, page) ==
  AddrAdd(PageOf(ip, page), AsU64(SignExtend(f, card) * page))

AdrpImm(target, ip, card, page) ==
  LET imm == AsI64(AddrSub(PageOf(target, page), PageOf(ip, page))) \div page
  IN  IF target % page # 0 \/ ~InReach(imm, card)
      THEN Err("InvalidImmediate")
      ELSE Ok(RawField(imm, card))
=============================================================================
