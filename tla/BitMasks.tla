------------------------------ MODULE BitMasks ------------------------------
(***************************************************************************)
(* The bitmask immediates of the logical instructions: decode_bit_masks    *)
(* and move_wide_preferred (src/decode/bits.rs), encode_bit_masks          *)
(* (src/encode/bits.rs) and the factoring of a MOV value into a lane       *)
(* (src/encode/dp_imm.rs).                                                 *)
(*                                                                         *)
(* A bit vector is the set of the positions of its one bits.               *)
(***************************************************************************)
EXTENDS Integers, FiniteSets, FiniteSetsExt

CONSTANTS XBits, WBits,   \* 64 and 32
          Lane            \* bits of a move-wide immediate, 16

ASSUME WidthsAssumption ==
  /\ XBits = 2 * WBits /\ WBits % Lane = 0
  /\ \E k \in 2..6 : XBits = 2^k

None == [ok |-> FALSE]
Some(v) == [ok |-> TRUE, v |-> v]

DataSize(sf) == IF sf = 1 THEN XBits ELSE WBits

(***************************************************************************)
(* Faulty variants, used to show that the properties detect them.          *)
(***************************************************************************)
Ror_Left(x, shift, width) == {(i + shift) % width : i \in x}
MoveWidePreferred_Bounds(sf, n, imms, immr) ==
  LET width == DataSize(sf)
  IN  /\ IF sf = 1 THEN n = 1 ELSE n = 0 /\ imms < WBits
      /\ \/ imms < Lane /\ (-immr) % Lane <= Lane - imms
         \/ imms >= width - (Lane - 1) /\ immr % Lane <= imms - (width - (Lane - 1))
PackNImms_NoMarker(esize, s) == IF esize = XBits THEN <<1, s>> ELSE <<0, s>>

Ones(n) == 0..(n - 1)

(* Rotate right within `width` bits. *)
Ror(x, shift, width) == {(i + width - shift) % width : i \in x}

Replicate(x, from, to) == {i \in 0..(to - 1) : i % from \in x}

(* The element size a field selects: 2 to the HighestSetBit(immN:NOT(imms));
   0 where immN:NOT(imms) is zero. *)
ElementSize(n, imms) ==
  LET concat == n * XBits + (XBits - 1 - imms)
  IN  Max({0} \cup {e \in {2^k : k \in 0..6} : e <= concat})

DecodeBitMasks(n, imms, immr, m) ==
  LET esize == ElementSize(n, imms)
      s == imms % esize
  IN  IF esize < 2 \/ s = esize - 1      \* reserved
      THEN None
      ELSE Some(Replicate(Ror(Ones(s + 1), immr % esize, esize), esize, m))

(* A value some MOVZ or MOVN can produce is shown as that one. *)
MoveWidePreferred(sf, n, imms, immr) ==
  LET width == DataSize(sf)
  IN  /\ IF sf = 1 THEN n = 1 ELSE n = 0 /\ imms < WBits
      /\ \/ imms < Lane /\ (-immr) % Lane <= Lane - 1 - imms
         \/ /\ imms >= Lane /\ imms >= width - (Lane - 1)
            /\ immr % Lane <= imms - (width - (Lane - 1))

(* encode_element: the rotations that turn a run of ones into `elem`. *)
Rotations(elem, esize) ==
  {r \in 0..(esize - 1) : Ror(Ones(Cardinality(elem)), r, esize) = elem}

(* pack_n_imms: immN and imms of element size `esize` and run length s + 1. *)
PackNImms(esize, s) ==
  IF esize = XBits THEN <<1, s>> ELSE <<0, (XBits - 2 * esize) + s>>

(* The fields the loop of encode_bit_masks tries for an element size: the
   element has to repeat, and to be a proper run of ones. *)
FieldsOf(value, m, esize) ==
  LET elem == value \cap Ones(esize)
      rot  == Rotations(elem, esize)
      pack == PackNImms(esize, Cardinality(elem) - 1)
  IN  IF elem \in {{}, Ones(esize)} \/ rot = {} \/ Replicate(elem, esize, m) # value
      THEN None
      ELSE Some([n |-> pack[1], immr |-> Min(rot), imms |-> pack[2]])

(* Its last check: the fields decode to the value. *)
Confirmed(f, value, m) ==
  f.ok /\ DecodeBitMasks(f.v.n, f.v.imms, f.v.immr, m) = Some(value)

EncodeBitMasks(value, m) ==
  LET good == {e \in {2^k : k \in 1..6} : e <= m /\ Confirmed(FieldsOf(value, m, e), value, m)}
  IN  IF good = {} THEN None ELSE FieldsOf(value, m, Min(good))

(* The bits of the lane `hw`, and a value moved down from it. *)
LaneBits(hw) == (hw * Lane)..(hw * Lane + Lane - 1)
FromLane(value, hw) == {i - hw * Lane : i \in value \cap LaneBits(hw)}
ToLane(imm16, hw) == {i + hw * Lane : i \in imm16}

(* factor_movz; factor_movn is the same on the complement. *)
Factor(value, m) ==
  LET lanes == {hw \in 0..(m \div Lane - 1) : value \subseteq LaneBits(hw)}
  IN  IF lanes = {} THEN None ELSE Some([imm |-> FromLane(value, Min(lanes)), hw |-> Min(lanes)])

Not(value, m) == Ones(m) \ value

(* sign_extend of an m-bit value. *)
SignExtended(value, m) == value \cup (IF m - 1 \in value THEN m..(XBits - 1) ELSE {})
=============================================================================
