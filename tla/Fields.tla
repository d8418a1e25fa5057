------------------------------- MODULE Fields -------------------------------
(***************************************************************************)
(* The helpers the group decoders and encoders share: registers built from *)
(* a width flag and a number, and the operands an encoder accepts in a     *)
(* slot.                                                                   *)
(***************************************************************************)
EXTENDS Operand, PcRel

(* gp_register(false, w, n): the register of a width flag and a number. *)
Gp(sf, n) == RegOp(<<IF sf = 1 THEN "X" ELSE "W", n>>)

(* gp_register(true, w, n): number 31 is the stack pointer. *)
GpSp(sf, n) ==
  IF n = 31 THEN RegOp(<<IF sf = 1 THEN "X" ELSE "W", 31, "sp">>) ELSE Gp(sf, n)

(* The operands an encoder accepts in a slot: reg_num, imm_u, label. *)
IsRegAt(x, n)   == OpAt(x, n).kind = "Reg"
IsImmAt(x, n)   == OpAt(x, n).kind \in {"ImmUnsigned", "ImmLogical", "ImmSigned", "ShiftAmount"}
IsLabelAt(x, n) == OpAt(x, n).kind = "Label"
RegAt(x, n)     == NumberOf(OpAt(x, n).reg)
ValAt(x, n)     == OpAt(x, n).val
IsXAt(x, n)     == BankOf(OpAt(x, n).reg) \in {"X", "D"}    \* width_bits() = 64

(* The `?` chain of an encoder: a wrong operand shape, then a field with no
   encoding, then the word. *)
With(shape, field, w) ==
  IF ~shape THEN Err("InvalidOperand") ELSE IF ~field.ok THEN field ELSE Ok(w)
=============================================================================
