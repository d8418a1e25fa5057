------------------------------ MODULE Operand ------------------------------
(***************************************************************************)
(* The operands of an instruction (src/operand.rs), all as records of one  *)
(* shape: the variant, the register it carries (or the memory base), the   *)
(* second register of a memory operand, and its 64-bit payload (immediate, *)
(* label, condition, displacement; signed payloads as two's complement)    *)
(* and its decoration (arrangement, lane, shift, extend, addressing mode): *)
(* a tuple, empty when there is none.                                      *)
(*                                                                         *)
(* A register is a pair <<bank, number>>; a bank is a register class       *)
(* together with a width ("W" and "X" are the two widths of class Gp).     *)
(***************************************************************************)
EXTENDS Integers, Sequences

CONSTANT MAX_OPERANDS   \* operand slots of an instruction (5 in the code)

Slot == 0..(MAX_OPERANDS - 1)

NoReg == <<"None", 0>>
BankOf(r) == r[1]
NumberOf(r) == r[2]

Op(kind, reg, idx, val, dec) ==
  [kind |-> kind, reg |-> reg, idx |-> idx, val |-> val, dec |-> dec]

NoDec == <<>>

NoneOp      == Op("None", NoReg, NoReg, 0, NoDec)
RegOp(r)    == Op("Reg", r, NoReg, 0, NoDec)
LabelOp(t)  == Op("Label", NoReg, NoReg, t, NoDec)
ImmOp(v)    == Op("ImmUnsigned", NoReg, NoReg, v, NoDec)
CondOp(c)   == Op("Cond", NoReg, NoReg, c, NoDec)

(* The variants that carry one replaceable register. *)
RegKinds == {"Reg", "RegBang", "IndexedElement", "PredCounter"}

(* Immediate variants by the width of their payload. *)
Imm64Kinds == {"ImmUnsigned", "ImmLogical", "Label", "ImmSigned", "ImmSignedDec"}
Imm16Kinds == {"ImmShiftedMove", "ImmShiftedMsl"}

MemKinds == {"MemImm", "MemExt", "SveMem"}

(* The variants with a second register. *)
IndexedKinds == {"MemExt", "SveMem", "IndexedElement", "Other"}

(* The variants without a decoration. *)
BareKinds == {"None", "RegBang", "ShiftAmount", "Cond"} \cup Imm64Kinds

(* Every variant the editing API tells apart; "Other" is any operand no
   setter touches (register lists, system operands, FP immediates, ...). *)
Kinds == {"None", "ShiftAmount", "Cond", "Other"}
           \cup RegKinds \cup Imm64Kinds \cup Imm16Kinds \cup MemKinds

(***************************************************************************)
(* An instruction: the word and address it was decoded from, its encoding  *)
(* identity, mnemonic, operand count, modified flag and operand slots.     *)
(***************************************************************************)

Live(x) == {i \in Slot : i < x.cnt}

(* Instruction::op: slots past op_count read as None. *)
OpAt(x, n) == IF n \in Live(x) THEN x.ops[n] ELSE NoneOp

(* Slots filled from a list of operands; push_operand drops what does not
   fit. *)
Filled(list) ==
  [i \in Slot |-> IF i + 1 \in DOMAIN list THEN list[i + 1] ELSE NoneOp]

(* Instruction::new_invalid: the seed every decode starts from. *)
NewInvalid(w, a) ==
  [word |-> w, ip |-> a, code |-> <<"Invalid">>, mnem |-> <<"Invalid">>,
   cnt |-> 0, modified |-> FALSE, ops |-> Filled(<<>>)]

(* set, set_alias, then one push_operand per element of `list`. *)
Built(w, a, c, m, list) ==
  [NewInvalid(w, a) EXCEPT
     !.code = c, !.mnem = m, !.ops = Filled(list),
     !.cnt = IF Len(list) < MAX_OPERANDS THEN Len(list) ELSE MAX_OPERANDS]
=============================================================================
