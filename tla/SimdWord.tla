------------------------------ MODULE SimdWord ------------------------------
(***************************************************************************)
(* What the floating-point and Advanced SIMD families share                *)
(* (src/decode/simd_fp/, src/encode/simd_fp*.rs): one word layout, the     *)
(* vector and scalar operands, and the helpers of the encoders.            *)
(*                                                                         *)
(* A word is the record of word<31:28> 24 23:22 21 20:16 15:10 9:5 4:0;    *)
(* word<27:25> is 111 throughout the group.                                *)
(***************************************************************************)
EXTENDS Spelling

CONSTANTS U32Mod,           \* values of a u32 (2^32 in the code)
          OverflowChecks    \* built with overflow checks (a debug build)

SimdWord == [top : 0..15, b24 : Bit, size : 0..3, b21 : Bit, rm : RegNum, op : 0..63,
             rn : RegNum, rd : RegNum]

Pack(top, b24, size, b21, rm, op, rn, rd) ==
  [top |-> top, b24 |-> b24, size |-> size, b21 |-> b21, rm |-> rm, op |-> op, rn |-> rn, rd |-> rd]

(* The other names of the top bits. *)
Top(m, q, u, scalar) == 8 * m + 4 * q + 2 * u + scalar
MOf(w)      == w.top \div 8               \* word<31>
QOf(w)      == (w.top \div 4) % 2         \* word<30>
UOf(w)      == (w.top \div 2) % 2         \* word<29>
ScalarOf(w) == w.top % 2                  \* word<28>

(***************************************************************************)
(* Operands                                                                *)
(***************************************************************************)

(* A vector arrangement is the logarithm of its element's bytes and the
   number of its elements, none in the arrangement of a single element; a
   lane follows it. *)
Arr(size, q) == <<size, 2^(3 + q - size)>>
VReg(arr, n) == Op("Reg", <<"V", n>>, NoReg, 0, arr)
Elem(size) == <<size, 0>>
VLane(arr, n, lane) == VReg(arr \o <<lane>>, n)

(* The scalar views, by the logarithm of their bytes. *)
ScalarBank == <<"B", "H", "S", "D", "Q">>
SReg(size, n) == RegOp(<<Entry(ScalarBank, size), n>>)

(* arr_of, lane_of, q_of_arr, size_of_arr *)
HasArrAt(x, n) == IsRegAt(x, n) /\ Len(OpAt(x, n).dec) >= 2
ArrAt(x, n)    == SubSeq(OpAt(x, n).dec, 1, 2)
SizeAt(x, n)   == OpAt(x, n).dec[1]
QAt(x, n)      == IF ArrAt(x, n)[2] = 2^(4 - SizeAt(x, n)) THEN 1 ELSE 0
IsWholeAt(x, n) == \E f \in (0..3) \X Bit : Arr(f[1], f[2]) = ArrAt(x, n)
HasLaneAt(x, n) == IsRegAt(x, n) /\ Len(OpAt(x, n).dec) = 3
LaneAt(x, n)   == OpAt(x, n).dec[3]

(* scalar_width *)
IsScalarAt(x, n) == IsRegAt(x, n) /\ Lists(ScalarBank, BankOf(OpAt(x, n).reg))
LogAt(x, n)      == Place(ScalarBank, BankOf(OpAt(x, n).reg))
IsViewAt(x, n, size) == IsScalarAt(x, n) /\ LogAt(x, n) = size

(* Operands that are numbers of another kind. *)
FpOp(v) == Op("Other", NoReg, NoReg, v, <<"fp">>)
IsFpImmAt(x, n) == OpAt(x, n).kind = "Other" /\ OpAt(x, n).dec = <<"fp">>
IsCondAt(x, n)  == OpAt(x, n).kind = "Cond"

(* Two results in the order the encoder asks for them. *)
Both(f, g) == IF ~f.ok THEN f ELSE g

(* imm_u(..)? as u32 *)
U32At(x, n) == ValAt(x, n) % U32Mod

(* An immediate of `card` values. *)
Below(v, card) == IF v < card THEN Ok(v) ELSE BadImmediate

(* The one row of a table that satisfies a condition. *)
One(S) == CHOOSE r \in S : TRUE

(***************************************************************************)
(* The 8-bit floating-point immediate                                      *)
(***************************************************************************)

(* vfp_expand_imm and the reading of its pattern as an f32: the value, in
   1/128ths, which is the same in the three precisions. *)
VfpValue(imm8) ==
  LET e == (imm8 \div 16) % 8
      exponent == IF e < 4 THEN e + 4 ELSE e - 4       \* 0..7, biased by 3
  IN  (IF imm8 >= 128 THEN -1 ELSE 1) * (16 + (imm8 % 16)) * 2^exponent

VfpZero == 0                             \* FpImm(0.0), which no imm8 gives

(* encode_vfp_imm: the 8 bits of a value. *)
VfpField(v) ==
  IF \E i \in 0..255 : VfpValue(i) = v THEN Ok(CHOOSE i \in 0..255 : VfpValue(i) = v)
  ELSE BadImmediate
=============================================================================
