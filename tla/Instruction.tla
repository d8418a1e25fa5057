---------------------------- MODULE Instruction ----------------------------
(***************************************************************************)
(* The editing API of src/instruction.rs and the commit step re_encode of  *)
(* src/encode/mod.rs, on one decoded instruction.  Every public mutator is *)
(* an operator that maps an instruction to the instruction it leaves       *)
(* behind and the Boolean it returns; the actions apply them in any order. *)
(*                                                                         *)
(* The decode tree and the group encoders are constant operators with the  *)
(* interface the API relies on: the module BranchImm provides the          *)
(* PC-relative part of them.                                               *)
(***************************************************************************)
EXTENDS Operand, PcRel

CONSTANTS
  Reg,                \* registers
  Code, Mnemonic,     \* encoding identities and mnemonics
  CodeMnemonic(_),    \* Code::mnemonic
  IsDirectBranch(_),  \* flow_control() is a direct branch or direct call
  Word,               \* instruction words
  U8Max, U16Max,      \* u8::MAX, u16::MAX
  I32Max,             \* i32::MAX
  CondVal,            \* the values of a Condition
  Dec,                \* operand decorations
  DecodeWord(_, _),   \* decode::decode_into(word, ip)
  EncodeInsn(_),      \* encode::encode(insn), Ok(word) or Err
  InWords, InAddrs, InOps, InRegs, InVals, InCodes, InMnemonics, InConds,
                      \* the inputs the caller may pass
  MaxEdits            \* bound on the operations of a behaviour

ASSUME SizesAssumption ==
  /\ MAX_OPERANDS \in Nat \ {0}
  /\ AddrMod \in Nat \ {0}
  /\ MaxEdits \in Nat

Fits32(v) == AsI64(v) \in (-(I32Max + 1))..I32Max

(* An operand carries what its variant declares and nothing else: the
   registers and decorations of the variants that have them, and a payload
   that fits the variant's type. *)
WellFormed(o) ==
  /\ o.kind \notin RegKinds \cup MemKinds \cup {"Other"} => o.reg = NoReg
  /\ o.kind \notin IndexedKinds => o.idx = NoReg
  /\ o.kind \in BareKinds => o.dec = NoDec
  /\ o.kind = "None" => o.val = 0
  /\ o.kind = "Cond" => o.val \in CondVal
  /\ o.kind = "ShiftAmount" => o.val <= U8Max
  /\ o.kind \in Imm16Kinds => o.val <= U16Max
  /\ o.kind = "SveMem" => Fits32(o.val)

Operands == {o \in [kind : Kinds, reg : Reg, idx : Reg, val : Addr, dec : Dec] : WellFormed(o)}
Insn == [word : Word, ip : Addr, code : Code, mnem : Mnemonic,
         cnt : 0..MAX_OPERANDS, modified : BOOLEAN, ops : [Slot -> Operands]]

(* The inputs are values of the types the API takes. *)
ASSUME InputsAssumption ==
  /\ InWords \subseteq Word /\ InAddrs \subseteq Addr
  /\ InRegs \subseteq Reg /\ InVals \subseteq Addr
  /\ CondVal \subseteq Addr /\ InConds \subseteq CondVal
  /\ InCodes \subseteq Code /\ InMnemonics \subseteq Mnemonic
  /\ \A c \in Code : CodeMnemonic(c) \in Mnemonic
  /\ NoReg \in Reg /\ NoDec \in Dec
  /\ InOps \subseteq Operands

VARIABLES insn,       \* the instruction
          ret,        \* what the last operation returned
          op,         \* history: the last operation
          edits       \* operations performed so far

vars == <<insn, ret, op, edits>>

(***************************************************************************)
(* Reading an instruction                                                  *)
(***************************************************************************)

HasLabel(x) == \E i \in Live(x) : x.ops[i].kind = "Label"

(* The first live slot whose kind is in K, found by a forward scan. *)
SlotsOf(x, K) == {i \in Live(x) : x.ops[i].kind \in K}
First(S) == CHOOSE i \in S : \A j \in S : i <= j

(***************************************************************************)
(* Faulty variants, used to show that the properties detect them.          *)
(***************************************************************************)
set_ip_NeverMarks(x, a) == [insn |-> [x EXCEPT !.ip = a], ok |-> TRUE]
Relocated_Backwards(x, a) ==
  [i \in Slot |-> IF i < x.cnt /\ x.ops[i].kind = "Label"
                  THEN [x.ops[i] EXCEPT !.val = AddrSub(@, AddrSub(a, x.ip))]
                  ELSE x.ops[i]]
Fits_AnyWidth(kind, v) == kind \in Imm64Kinds \cup Imm16Kinds \cup {"ShiftAmount"}
Truncated_KeepsSlots(x, count) == x.ops
Displaced_MarksFirst(x, d) ==
  LET m == [x EXCEPT !.modified = TRUE]
      n == First(SlotsOf(x, {"MemImm", "SveMem"}))
  IN  IF SlotsOf(x, {"MemImm", "SveMem"}) = {}
      THEN [insn |-> x, ok |-> FALSE]
      ELSE IF x.ops[n].kind = "SveMem" /\ ~Fits32(d)
           THEN [insn |-> m, ok |-> FALSE]
           ELSE [insn |-> [m EXCEPT !.ops[n].val = d], ok |-> TRUE]
WithRegister_Fresh(o, r) == RegOp(r)

(***************************************************************************)
(* The mutators                                                            *)
(***************************************************************************)

Done(x)   == [insn |-> x, ok |-> TRUE]
Edited(x) == Done([x EXCEPT !.modified = TRUE])      \* mark_modified
Refused(x) == [insn |-> x, ok |-> FALSE]

(* Only a PC-relative encoding depends on ip. *)
set_ip(x, a) ==
  LET y == [x EXCEPT !.ip = a] IN IF HasLabel(x) THEN Edited(y) ELSE Done(y)

(* Every label moves by ip - self.ip. *)
Relocated(x, a) ==
  [i \in Slot |-> IF i < x.cnt /\ x.ops[i].kind = "Label"
                  THEN [x.ops[i] EXCEPT !.val = AddrAdd(@, AddrSub(a, x.ip))]
                  ELSE x.ops[i]]

relocate(x, a) ==
  LET y == [x EXCEPT !.ip = a, !.ops = Relocated(x, a)]
  IN  IF HasLabel(x) THEN Edited(y) ELSE Done(y)

set_code(x, c) == Edited([x EXCEPT !.code = c, !.mnem = CodeMnemonic(c)])

set_mnemonic(x, m) == Edited([x EXCEPT !.mnem = m])

set_op(x, n, o) ==
  IF n >= MAX_OPERANDS
  THEN Refused(x)
  ELSE Edited([x EXCEPT !.ops[n] = o, !.cnt = IF n >= @ THEN n + 1 ELSE @])

(* Slots from `count` on are cleared. *)
Truncated(x, count) == [i \in Slot |-> IF i < count THEN x.ops[i] ELSE NoneOp]

set_op_count(x, count) ==
  IF count > MAX_OPERANDS
  THEN Refused(x)
  ELSE Edited([x EXCEPT !.ops = Truncated(x, count), !.cnt = count])

push_op(x, o) ==
  IF x.cnt >= MAX_OPERANDS
  THEN Refused(x)
  ELSE Edited([x EXCEPT !.ops[x.cnt] = o, !.cnt = @ + 1])

(* The register of an operand replaced, every decoration kept. *)
WithRegister(o, r) == [o EXCEPT !.reg = r]

set_op_register_unchecked(x, n, r) ==
  IF n \notin Live(x) \/ x.ops[n].kind \notin RegKinds
  THEN Refused(x)
  ELSE Edited([x EXCEPT !.ops[n] = WithRegister(@, r)])

(* Same class and width; a predicate-as-counter names only P8..P15. *)
set_op_register(x, n, r) ==
  LET o == OpAt(x, n)
  IN  IF \/ o.kind \notin RegKinds
         \/ BankOf(o.reg) # BankOf(r)
         \/ o.kind = "PredCounter" /\ NumberOf(r) < 8
      THEN Refused(x)
      ELSE set_op_register_unchecked(x, n, r)

(* The payload of the variant can hold the value. *)
Fits(kind, v) ==
  \/ kind \in Imm64Kinds
  \/ kind = "ShiftAmount" /\ v <= U8Max
  \/ kind \in Imm16Kinds /\ v <= U16Max

set_op_immediate(x, n, v) ==
  IF n \notin Live(x) \/ ~Fits(x.ops[n].kind, v)
  THEN Refused(x)
  ELSE Edited([x EXCEPT !.ops[n].val = v])

(* Replace the payload of the first operand of a kind, if there is one. *)
SetFirstVal(x, K, v) ==
  IF SlotsOf(x, K) = {}
  THEN Refused(x)
  ELSE Edited([x EXCEPT !.ops[First(SlotsOf(x, K))].val = v])

set_condition(x, c) == SetFirstVal(x, {"Cond"}, c)

set_label(x, t) == SetFirstVal(x, {"Label"}, t)

set_near_branch_target(x, t) ==
  IF IsDirectBranch(x) THEN set_label(x, t) ELSE Refused(x)

set_memory_base(x, r) ==
  IF SlotsOf(x, MemKinds) = {}
  THEN Refused(x)
  ELSE Edited([x EXCEPT !.ops[First(SlotsOf(x, MemKinds))].reg = r])

set_memory_index(x, r) ==
  IF SlotsOf(x, {"MemExt", "SveMem"}) = {}
  THEN Refused(x)
  ELSE Edited([x EXCEPT !.ops[First(SlotsOf(x, {"MemExt", "SveMem"}))].idx = r])

(* The first MemImm or SveMem; an SveMem holds an i32. *)
set_memory_displacement64(x, d) ==
  LET S == SlotsOf(x, {"MemImm", "SveMem"})
  IN  IF S # {} /\ x.ops[First(S)].kind = "SveMem"
                /\ ~Fits32(d)
      THEN Refused(x)
      ELSE SetFirstVal(x, {"MemImm", "SveMem"}, d)

(* Commit: on success store the word and clear the flag, else no change. *)
re_encode(x) ==
  LET e == EncodeInsn(x)
  IN  IF e.ok THEN Done([x EXCEPT !.word = e.v, !.modified = FALSE])
              ELSE Refused(x)

(***************************************************************************)
(* The specification: a decoded instruction, then any sequence of edits.   *)
(***************************************************************************)

Init ==
  /\ \E w \in InWords, a \in InAddrs : insn = DecodeWord(w, a)
  /\ ret = TRUE
  /\ op = "decode"
  /\ edits = 0

Apply(name, result) ==
  /\ edits < MaxEdits
  /\ insn' = result.insn
  /\ ret' = result.ok
  /\ op' = name
  /\ edits' = edits + 1

InSlots == 0..MAX_OPERANDS      \* one past the last slot included

SetIp       == \E a \in InAddrs : Apply("set_ip", set_ip(insn, a))
Relocate    == \E a \in InAddrs : Apply("relocate", relocate(insn, a))
SetCode     == \E c \in InCodes : Apply("set_code", set_code(insn, c))
SetMnemonic == \E m \in InMnemonics : Apply("set_mnemonic", set_mnemonic(insn, m))
SetOp       == \E n \in InSlots, o \in InOps : Apply("set_op", set_op(insn, n, o))
SetOpCount  == \E n \in InSlots \cup {MAX_OPERANDS + 1} :
                 Apply("set_op_count", set_op_count(insn, n))
PushOp      == \E o \in InOps : Apply("push_op", push_op(insn, o))
SetOpRegister == \E n \in InSlots, r \in InRegs :
                   Apply("set_op_register", set_op_register(insn, n, r))
SetOpRegisterUnchecked ==
  \E n \in InSlots, r \in InRegs :
    Apply("set_op_register_unchecked", set_op_register_unchecked(insn, n, r))
SetOpImmediate == \E n \in InSlots, v \in InVals :
                    Apply("set_op_immediate", set_op_immediate(insn, n, v))
SetCondition == \E c \in InConds : Apply("set_condition", set_condition(insn, c))
SetLabel     == \E t \in InAddrs : Apply("set_label", set_label(insn, t))
SetNearBranchTarget ==
  \E t \in InAddrs : Apply("set_near_branch_target", set_near_branch_target(insn, t))
SetMemoryBase  == \E r \in InRegs : Apply("set_memory_base", set_memory_base(insn, r))
SetMemoryIndex == \E r \in InRegs : Apply("set_memory_index", set_memory_index(insn, r))
SetMemoryDisplacement64 ==
  \E d \in InVals :
    Apply("set_memory_displacement64", set_memory_displacement64(insn, d))
ReEncode == Apply("re_encode", re_encode(insn))

Next ==
  \/ SetIp \/ Relocate \/ SetCode \/ SetMnemonic
  \/ SetOp \/ SetOpCount \/ PushOp
  \/ SetOpRegister \/ SetOpRegisterUnchecked \/ SetOpImmediate
  \/ SetCondition \/ SetLabel \/ SetNearBranchTarget
  \/ SetMemoryBase \/ SetMemoryIndex \/ SetMemoryDisplacement64
  \/ ReEncode

Spec == Init /\ [][Next]_vars

(***************************************************************************)
(* Properties                                                              *)
(***************************************************************************)

(* The instruction keeps its shape: op_count never exceeds the slots, and
   every operand, whatever edits it went through, still carries what its
   variant declares, with a payload that fits the variant's type. *)
TypeOK ==
  /\ insn \in Insn
  /\ ret \in BOOLEAN
  /\ edits \in 0..MaxEdits

(* A slot at or past op_count holds no operand, whatever mix of set_op,
   set_op_count and push_op came before: growing the count later can never
   resurrect an operand that a shrink removed. *)
SlotsBeyondCountEmpty ==
  \A i \in Slot : i >= insn.cnt => insn.ops[i] = NoneOp

(* What encode reads: the semantics, never the word or the flag. *)
Meaning(x) == [ip |-> x.ip, code |-> x.code, mnem |-> x.mnem, cnt |-> x.cnt, ops |-> x.ops]

(* Two words are the same instruction at every address. *)
SameWord(v, w) ==
  v = w \/ \A a \in Addr : Meaning(DecodeWord(v, a)) = Meaning(DecodeWord(w, a))

Fresh(x) ==
  ~x.modified /\ x.code # <<"Invalid">> =>
    EncodeInsn(x).ok /\ SameWord(EncodeInsn(x).v, x.word)

(* is_modified() is never too low: while it is FALSE, word() still is an
   encoding of this value at the address it now has.  The address edits are
   where it could fail, since they set the flag only for labels. *)
FreshWord == Fresh(insn)

(* A refused edit (and a failed re_encode) changes nothing at all, the
   modified flag included. *)
FailedEditChangesNothing == [][~ret' => insn' = insn]_vars

(* relocate keeps every relative displacement: the instruction encodes to
   the word it had before the move.  ADRP moved by less than a page is the
   documented exception, and it fails to encode. *)
RelocateKeepsWord ==
  [][op' = "relocate" /\ EncodeInsn(insn).ok =>
       \/ EncodeInsn(insn').ok /\ EncodeInsn(insn').v = EncodeInsn(insn).v
       \/ ~EncodeInsn(insn').ok /\ insn.code = <<"Adrp">>]_vars

(* A label that encodes at all encodes exactly: the word decodes, at the
   same address, to the label the instruction carries. *)
LabelEncodesExactly ==
  EncodeInsn(insn).ok =>
    LET d == DecodeWord(EncodeInsn(insn).v, insn.ip)
    IN  \A i \in Slot : OpAt(d, i).kind = "Label" => OpAt(insn, i) = OpAt(d, i)

(* encode never emits another encoding than the one code() names, whatever
   operands the edits left in the slots: an operand list that does not fit
   the Code is an error, not a different instruction. *)
EncodedCodeIsKept ==
  EncodeInsn(insn).ok => DecodeWord(EncodeInsn(insn).v, insn.ip).code = insn.code

(* The setters that replace one field of an operand. *)
FieldSetters ==
  {"set_op_register", "set_op_register_unchecked", "set_op_immediate",
   "set_condition", "set_label", "set_near_branch_target",
   "set_memory_base", "set_memory_index", "set_memory_displacement64"}

(* A field setter keeps the variant and the decoration of every operand,
   touches one slot only, and leaves identity, address and count alone. *)
DecorationsPreserved ==
  [][op' \in FieldSetters =>
       /\ \A i \in Slot : /\ insn'.ops[i].kind = insn.ops[i].kind
                          /\ insn'.ops[i].dec = insn.ops[i].dec
       /\ \E n \in Slot : \A i \in Slot \ {n} : insn'.ops[i] = insn.ops[i]
       /\ <<insn'.code, insn'.mnem, insn'.cnt, insn'.ip, insn'.word>>
            = <<insn.code, insn.mnem, insn.cnt, insn.ip, insn.word>>]_vars
=============================================================================
