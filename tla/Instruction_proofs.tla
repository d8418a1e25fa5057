------------------------- MODULE Instruction_proofs -------------------------
(***************************************************************************)
(* Proofs about the editing API.                                           *)
(*                                                                         *)
(* First for every decoder and encoder that meet the contract below, every *)
(* number of operand slots and any inputs.  Then the branch codec is shown *)
(* to meet the contract, so that all of it holds of branches, for every    *)
(* width of the fields, every set of features and every address; and three *)
(* more properties of the pair follow: what an edited branch encodes to is *)
(* exact, is the instruction code() names, and does not change when it is  *)
(* relocated.                                                              *)
(***************************************************************************)
EXTENDS Instruction, BranchImm_proofs, WellFoundedInduction, TLAPS

SlotsEmpty(x) == \A i \in Slot : i >= x.cnt => x.ops[i] = NoneOp

(* What decode promises: a typed instruction that remembers its word and
   address, is unmodified and has nothing past its operand count. *)
DecodeContract ==
  \A w \in Word, a \in Addr :
    /\ DecodeWord(w, a) \in Insn
    /\ DecodeWord(w, a).word = w
    /\ ~DecodeWord(w, a).modified
    /\ SlotsEmpty(DecodeWord(w, a))

(* What encode promises: it produces a word, never reads the word or the
   flag, and reads the address only to resolve a label. *)
EncodeContract ==
  \A x \in Insn :
    /\ EncodeInsn(x).ok => EncodeInsn(x).v \in Word
    /\ \A w \in Word, m \in BOOLEAN :
         EncodeInsn([x EXCEPT !.word = w, !.modified = m]) = EncodeInsn(x)
    /\ ~HasLabel(x) => \A a \in Addr : EncodeInsn([x EXCEPT !.ip = a]) = EncodeInsn(x)

(* The semantic round trip. *)
RoundTripContract ==
  \A w \in Word, a \in Addr :
    DecodeWord(w, a).code # <<"Invalid">> =>
      /\ EncodeInsn(DecodeWord(w, a)).ok
      /\ SameWord(EncodeInsn(DecodeWord(w, a)).v, w)

(* What every edit keeps. *)
Good(x) == x \in Insn /\ SlotsEmpty(x) /\ Fresh(x)

(* An edit that marks the instruction only has to keep its shape. *)
LEMMA EditedGood ==
  ASSUME NEW y \in Insn, SlotsEmpty(y)
  PROVE  Good(Edited(y).insn)
<1> DEFINE z == [y EXCEPT !.modified = TRUE]
<1>1. z \in Insn /\ z.modified = TRUE /\ z.cnt = y.cnt /\ z.ops = y.ops
  BY DEF Insn
<1>2. SlotsEmpty(z) BY <1>1 DEF SlotsEmpty
<1>3. Fresh(z) BY <1>1 DEF Fresh
<1> QED BY <1>1, <1>2, <1>3 DEF Edited, Done, Good

(* The kinds, each a set of names. *)
LEMMA KindsAre ==
  /\ RegKinds = {"Reg", "RegBang", "IndexedElement", "PredCounter"}
  /\ Imm64Kinds = {"ImmUnsigned", "ImmLogical", "Label", "ImmSigned", "ImmSignedDec"}
  /\ Imm16Kinds = {"ImmShiftedMove", "ImmShiftedMsl"}
  /\ MemKinds = {"MemImm", "MemExt", "SveMem"}
  /\ IndexedKinds = {"MemExt", "SveMem", "IndexedElement", "Other"}
  /\ BareKinds = {"None", "RegBang", "ShiftAmount", "Cond"} \cup Imm64Kinds
  /\ Kinds = {"None", "ShiftAmount", "Cond", "Other"}
               \cup RegKinds \cup Imm64Kinds \cup Imm16Kinds \cup MemKinds
BY DEF RegKinds, Imm64Kinds, Imm16Kinds, MemKinds, IndexedKinds, BareKinds, Kinds

(* The empty operand is an operand. *)
LEMMA NoneOpTyped == NoneOp \in Operands
<1>1. 0 \in Addr BY SizesAssumption DEF Addr
<1>2. WellFormed(NoneOp)
  BY KindsAre DEF NoneOp, Op, WellFormed
<1>3. NoneOp \in [kind : Kinds, reg : Reg, idx : Reg, val : Addr, dec : Dec]
  BY <1>1, KindsAre, InputsAssumption DEF NoneOp, Op
<1> QED BY <1>2, <1>3 DEF Operands

(* The payloads an operand of each kind can hold. *)
Holds(kind, v) ==
  /\ v \in Addr
  /\ kind # "None"
  /\ kind = "Cond" => v \in CondVal
  /\ kind = "ShiftAmount" => v <= U8Max
  /\ kind \in Imm16Kinds => v <= U16Max
  /\ kind = "SveMem" => Fits32(v)

(* Replacing one field of an operand by a value its variant has room for
   gives an operand. *)
LEMMA FieldReplaced ==
  ASSUME NEW o \in Operands, NEW r \in Reg, NEW v
  PROVE  /\ o.kind \in RegKinds \cup MemKinds => [o EXCEPT !.reg = r] \in Operands
         /\ o.kind \in IndexedKinds => [o EXCEPT !.idx = r] \in Operands
         /\ Holds(o.kind, v) => [o EXCEPT !.val = v] \in Operands
<1> DEFINE Record == [kind : Kinds, reg : Reg, idx : Reg, val : Addr, dec : Dec]
<1>1. o \in Record /\ WellFormed(o) BY DEF Operands
<1>2. ASSUME o.kind \in RegKinds \cup MemKinds PROVE [o EXCEPT !.reg = r] \in Operands
  <2> DEFINE p == [o EXCEPT !.reg = r]
  <2>1. p \in Record /\ p.kind = o.kind /\ p.idx = o.idx /\ p.val = o.val /\ p.dec = o.dec
    BY <1>1
  <2>2. WellFormed(p) BY <1>1, <1>2, <2>1 DEF WellFormed
  <2> QED BY <2>1, <2>2 DEF Operands
<1>3. ASSUME o.kind \in IndexedKinds PROVE [o EXCEPT !.idx = r] \in Operands
  <2> DEFINE p == [o EXCEPT !.idx = r]
  <2>1. p \in Record /\ p.kind = o.kind /\ p.reg = o.reg /\ p.val = o.val /\ p.dec = o.dec
    BY <1>1
  <2>2. WellFormed(p) BY <1>1, <1>3, <2>1 DEF WellFormed
  <2> QED BY <2>1, <2>2 DEF Operands
<1>4. ASSUME Holds(o.kind, v) PROVE [o EXCEPT !.val = v] \in Operands
  <2> DEFINE p == [o EXCEPT !.val = v]
  <2>1. /\ p \in Record /\ p.kind = o.kind /\ p.reg = o.reg /\ p.idx = o.idx
        /\ p.val = v /\ p.dec = o.dec
    BY <1>1, <1>4 DEF Holds
  <2>2. WellFormed(p) BY <1>1, <1>4, <2>1 DEF WellFormed, Holds
  <2> QED BY <2>1, <2>2 DEF Operands
<1> QED BY <1>2, <1>3, <1>4

(* Replacing the operand of a live slot keeps the shape. *)
LEMMA LiveSlotKept ==
  ASSUME NEW x \in Insn, SlotsEmpty(x), NEW n \in Live(x), NEW o \in Operands
  PROVE  Good(Edited([x EXCEPT !.ops[n] = o]).insn)
<1> DEFINE y == [x EXCEPT !.ops[n] = o]
<1>1. y \in Insn BY DEF Insn, Live, Slot
<1>2. SlotsEmpty(y)
  BY SizesAssumption DEF SlotsEmpty, Live, Slot, Insn
<1> HIDE DEF y
<1>3. Good(Edited(y).insn) BY <1>1, <1>2, EditedGood
<1> QED BY <1>3 DEF y

(* A nonempty set of naturals has a least element. *)
LEMMA LeastElement ==
  ASSUME NEW S, S \subseteq Nat, S # {}
  PROVE  \E i \in S : \A j \in S : i <= j
<1> DEFINE R == OpToRel(<, Nat)
<1>1. IsWellFoundedOn(R, Nat) BY NatLessThanWellFounded
<1>2. \A i, j \in Nat : j < i => <<j, i>> \in R BY DEF OpToRel
<1> HIDE DEF R
<1>3. PICK i \in S : \A j \in S : ~(<<j, i>> \in R) BY <1>1, WFMin
<1>4. \A j \in S : i \in Nat /\ j \in Nat /\ ~(j < i) BY <1>2, <1>3, Zenon
<1>5. \A j \in S : i <= j BY <1>4, SMT
<1> QED BY <1>5

(* The slot a forward scan finds is live. *)
LEMMA FirstIsLive ==
  ASSUME NEW x \in Insn, NEW K, SlotsOf(x, K) # {}
  PROVE  First(SlotsOf(x, K)) \in SlotsOf(x, K)
<1> DEFINE S == SlotsOf(x, K)
<1>1. S \subseteq Nat BY SizesAssumption DEF SlotsOf, Live, Slot
<1>2. \E i \in S : \A j \in S : i <= j BY <1>1, LeastElement
<1> QED BY <1>2 DEF First

(* A refused edit keeps everything. *)
LEMMA RefusedGood ==
  ASSUME NEW x, Good(x)
  PROVE  Good(Refused(x).insn)
  BY DEF Refused

(* An address edit of an instruction without a label leaves its word fresh:
   encode does not read the address. *)
LEMMA MovedGood ==
  ASSUME EncodeContract, NEW x, Good(x), ~HasLabel(x), NEW a \in Addr
  PROVE  Good([x EXCEPT !.ip = a])
<1> DEFINE y == [x EXCEPT !.ip = a]
<1>1. x \in Insn BY DEF Good
<1>2. /\ y \in Insn /\ y.cnt = x.cnt /\ y.ops = x.ops /\ y.modified = x.modified
      /\ y.code = x.code /\ y.word = x.word
  BY <1>1 DEF Insn
<1>3. SlotsEmpty(y) BY <1>2 DEF Good, SlotsEmpty
<1>4. EncodeInsn(y) = EncodeInsn(x) BY <1>1 DEF EncodeContract
<1> HIDE DEF y
<1>5. Fresh(y) BY <1>2, <1>4 DEF Good, Fresh
<1>6. Good(y) BY <1>2, <1>3, <1>5 DEF Good
<1> QED BY <1>6 DEF y

(* set_ip keeps the invariant: it marks a PC-relative instruction, and any
   other encodes the same at every address. *)
LEMMA SetIpGood ==
  ASSUME EncodeContract, NEW x, Good(x), NEW a \in Addr
  PROVE  Good(set_ip(x, a).insn)
<1> DEFINE y == [x EXCEPT !.ip = a]
<1>1. CASE HasLabel(x)
  <2>1. y \in Insn /\ SlotsEmpty(y) BY DEF Good, Insn, SlotsEmpty
  <2> HIDE DEF y
  <2>2. Good(Edited(y).insn) BY <2>1, EditedGood
  <2> QED BY <1>1, <2>2 DEF set_ip, y
<1>2. CASE ~HasLabel(x)
  BY <1>2, MovedGood DEF set_ip, Done
<1> QED BY <1>1, <1>2

(* Wrapping addition of addresses yields an address. *)
LEMMA AddrArithmetic ==
  ASSUME NEW a \in Addr, NEW b \in Addr
  PROVE  AddrAdd(a, b) \in Addr /\ AddrSub(a, b) \in Addr
  BY SizesAssumption DEF Addr, AddrAdd, AddrSub

(* relocate keeps the invariant: only labels move, and moving one marks. *)
LEMMA RelocateGood ==
  ASSUME EncodeContract, NEW x, Good(x), NEW a \in Addr
  PROVE  Good(relocate(x, a).insn)
<1> DEFINE y == [x EXCEPT !.ip = a, !.ops = Relocated(x, a)]
<1>1. x \in Insn /\ SlotsEmpty(x) BY DEF Good
<1>2. x.ip \in Addr /\ x.cnt \in 0..MAX_OPERANDS /\ x.ops \in [Slot -> Operands]
  BY <1>1 DEF Insn
<1>3. AddrSub(a, x.ip) \in Addr BY <1>2, AddrArithmetic
<1>4. ASSUME NEW i \in Slot, x.ops[i].kind = "Label"
      PROVE  [x.ops[i] EXCEPT !.val = AddrAdd(@, AddrSub(a, x.ip))] \in Operands
  <2>1. x.ops[i] \in Operands /\ x.ops[i].val \in Addr
    BY <1>2 DEF Operands
  <2>2. Holds("Label", AddrAdd(x.ops[i].val, AddrSub(a, x.ip)))
    BY <1>3, <2>1, AddrArithmetic, KindsAre DEF Holds
  <2>3. NoReg \in Reg BY InputsAssumption
  <2> QED BY <1>4, <2>1, <2>2, <2>3, FieldReplaced
<1>5. Relocated(x, a) \in [Slot -> Operands]
  BY <1>2, <1>4 DEF Relocated
<1>6. y \in Insn /\ y.cnt = x.cnt /\ y.ops = Relocated(x, a) BY <1>1, <1>5 DEF Insn
<1>7. SlotsEmpty(y)
  <2> SUFFICES ASSUME NEW i \in Slot, i >= x.cnt
               PROVE  Relocated(x, a)[i] = NoneOp
    BY <1>6 DEF SlotsEmpty
  <2>1. ~(i < x.cnt) BY <1>2, SizesAssumption DEF Slot
  <2>2. x.ops[i] = NoneOp BY <1>1 DEF SlotsEmpty
  <2> QED BY <2>1, <2>2 DEF Relocated
<1>8. CASE HasLabel(x)
  <2> HIDE DEF y
  <2>1. Good(Edited(y).insn) BY <1>6, <1>7, EditedGood
  <2> QED BY <1>8, <2>1 DEF relocate, y
<1>9. CASE ~HasLabel(x)
  <2>1. Relocated(x, a) = [i \in Slot |-> x.ops[i]]
    BY <1>9 DEF Relocated, HasLabel, Live
  <2>2. Relocated(x, a) = x.ops BY <2>1, <1>2
  <2>3. y = [x EXCEPT !.ip = a] BY <2>2, <1>1 DEF Insn
  <2> HIDE DEF y
  <2>4. Good(y) BY <2>3, <1>9, MovedGood
  <2> QED BY <1>9, <2>4 DEF relocate, Done, y
<1> QED BY <1>8, <1>9

(* The edits of identity. *)
LEMMA SetCodeGood ==
  ASSUME NEW x, Good(x), NEW c \in Code
  PROVE  Good(set_code(x, c).insn)
<1> DEFINE y == [x EXCEPT !.code = c, !.mnem = CodeMnemonic(c)]
<1>1. y \in Insn /\ SlotsEmpty(y) BY InputsAssumption DEF Good, Insn, SlotsEmpty
<1> HIDE DEF y
<1>2. Good(Edited(y).insn) BY <1>1, EditedGood
<1> QED BY <1>2 DEF set_code, y

(* set_mnemonic, the same. *)
LEMMA SetMnemonicGood ==
  ASSUME NEW x, Good(x), NEW m \in Mnemonic
  PROVE  Good(set_mnemonic(x, m).insn)
<1> DEFINE y == [x EXCEPT !.mnem = m]
<1>1. y \in Insn /\ SlotsEmpty(y) BY DEF Good, Insn, SlotsEmpty
<1> HIDE DEF y
<1>2. Good(Edited(y).insn) BY <1>1, EditedGood
<1> QED BY <1>2 DEF set_mnemonic, y

(* The edits of whole slots and of their number. *)
LEMMA SlotsGood ==
  ASSUME NEW x, Good(x), NEW n \in Nat, NEW o \in Operands
  PROVE  /\ Good(set_op(x, n, o).insn)
         /\ Good(set_op_count(x, n).insn)
         /\ Good(push_op(x, o).insn)
<1>1. /\ x \in Insn /\ SlotsEmpty(x) /\ x.ops \in [Slot -> Operands]
      /\ x.cnt \in 0..MAX_OPERANDS
  BY DEF Good, Insn
<1>2. Good(set_op(x, n, o).insn)
  <2> DEFINE y == [x EXCEPT !.ops[n] = o, !.cnt = IF n >= @ THEN n + 1 ELSE @]
  <2>1. CASE n >= MAX_OPERANDS BY <2>1, RefusedGood DEF set_op
  <2>2. CASE ~(n >= MAX_OPERANDS)
    <3>1. n \in Slot /\ n + 1 \in 0..MAX_OPERANDS
      BY <2>2, SizesAssumption DEF Slot
    <3>2. /\ y \in Insn /\ y.ops = [x.ops EXCEPT ![n] = o]
          /\ y.cnt = IF n >= x.cnt THEN n + 1 ELSE x.cnt
      BY <1>1, <3>1 DEF Insn
    <3>3. SlotsEmpty(y)
      BY <1>1, <3>1, <3>2, SizesAssumption DEF SlotsEmpty, Slot
    <3> HIDE DEF y
    <3>4. Good(Edited(y).insn) BY <3>2, <3>3, EditedGood
    <3> QED BY <2>2, <3>4 DEF set_op, y
  <2> QED BY <2>1, <2>2
<1>3. Good(set_op_count(x, n).insn)
  <2> DEFINE y == [x EXCEPT !.ops = Truncated(x, n), !.cnt = n]
  <2>1. CASE n > MAX_OPERANDS BY <2>1, RefusedGood DEF set_op_count
  <2>2. CASE ~(n > MAX_OPERANDS)
    <3>1. n \in 0..MAX_OPERANDS BY <2>2, SizesAssumption
    <3>2. Truncated(x, n) \in [Slot -> Operands]
      BY <1>1, NoneOpTyped DEF Truncated
    <3>3. y \in Insn /\ y.ops = Truncated(x, n) /\ y.cnt = n
      BY <1>1, <3>1, <3>2 DEF Insn
    <3>4. SlotsEmpty(y)
      BY <3>3, SizesAssumption DEF SlotsEmpty, Truncated, Slot
    <3> HIDE DEF y
    <3>5. Good(Edited(y).insn) BY <3>3, <3>4, EditedGood
    <3> QED BY <2>2, <3>5 DEF set_op_count, y
  <2> QED BY <2>1, <2>2
<1>4. Good(push_op(x, o).insn)
  <2> DEFINE y == [x EXCEPT !.ops[x.cnt] = o, !.cnt = @ + 1]
  <2>1. CASE x.cnt >= MAX_OPERANDS BY <2>1, RefusedGood DEF push_op
  <2>2. CASE ~(x.cnt >= MAX_OPERANDS)
    <3>1. x.cnt \in Slot /\ x.cnt + 1 \in 0..MAX_OPERANDS
      BY <1>1, <2>2, SizesAssumption DEF Slot
    <3>2. y \in Insn /\ y.ops = [x.ops EXCEPT ![x.cnt] = o] /\ y.cnt = x.cnt + 1
      BY <1>1, <3>1 DEF Insn
    <3>3. SlotsEmpty(y)
      BY <1>1, <3>1, <3>2, SizesAssumption DEF SlotsEmpty, Slot
    <3> HIDE DEF y
    <3>4. Good(Edited(y).insn) BY <3>2, <3>3, EditedGood
    <3> QED BY <2>2, <3>4 DEF push_op, y
  <2> QED BY <2>1, <2>2
<1> QED BY <1>2, <1>3, <1>4

(* Replacing the register, the index or the payload of the operand of a live
   slot. *)
LEMMA SlotFieldReplaced ==
  ASSUME NEW x, Good(x), NEW n \in Live(x), NEW r \in Reg, NEW v
  PROVE  /\ x.ops[n].kind \in RegKinds \cup MemKinds =>
              /\ Good(Edited([x EXCEPT !.ops[n] = WithRegister(@, r)]).insn)
              /\ Good(Edited([x EXCEPT !.ops[n].reg = r]).insn)
         /\ x.ops[n].kind \in IndexedKinds => Good(Edited([x EXCEPT !.ops[n].idx = r]).insn)
         /\ Holds(x.ops[n].kind, v) => Good(Edited([x EXCEPT !.ops[n].val = v]).insn)
<1> DEFINE o == [x.ops[n] EXCEPT !.reg = r]
           p == [x.ops[n] EXCEPT !.idx = r]
           q == [x.ops[n] EXCEPT !.val = v]
<1>1. x \in Insn /\ SlotsEmpty(x) BY DEF Good
<1>2. x.ops[n] \in Operands BY <1>1 DEF Insn, Live
<1>3. /\ x.ops[n].kind \in RegKinds \cup MemKinds => o \in Operands
      /\ x.ops[n].kind \in IndexedKinds => p \in Operands
      /\ Holds(x.ops[n].kind, v) => q \in Operands
  BY <1>2, FieldReplaced
<1>4. /\ [x EXCEPT !.ops[n] = WithRegister(@, r)] = [x EXCEPT !.ops[n] = o]
      /\ [x EXCEPT !.ops[n].reg = r] = [x EXCEPT !.ops[n] = o]
      /\ [x EXCEPT !.ops[n].idx = r] = [x EXCEPT !.ops[n] = p]
      /\ [x EXCEPT !.ops[n].val = v] = [x EXCEPT !.ops[n] = q]
  BY DEF WithRegister
<1> HIDE DEF o, p, q
<1>5. /\ o \in Operands => Good(Edited([x EXCEPT !.ops[n] = o]).insn)
      /\ p \in Operands => Good(Edited([x EXCEPT !.ops[n] = p]).insn)
      /\ q \in Operands => Good(Edited([x EXCEPT !.ops[n] = q]).insn)
  BY <1>1, LiveSlotKept
<1> QED BY <1>3, <1>4, <1>5

(* The edits of the register or the immediate of a given slot. *)
LEMMA SlotFieldGood ==
  ASSUME NEW x, Good(x), NEW n, NEW r \in Reg, NEW v \in Addr
  PROVE  /\ Good(set_op_register_unchecked(x, n, r).insn)
         /\ Good(set_op_register(x, n, r).insn)
         /\ Good(set_op_immediate(x, n, v).insn)
<1>1. Good(set_op_register_unchecked(x, n, r).insn)
  <2>1. CASE n \notin Live(x) \/ x.ops[n].kind \notin RegKinds
    BY <2>1, RefusedGood DEF set_op_register_unchecked
  <2>2. CASE ~(n \notin Live(x) \/ x.ops[n].kind \notin RegKinds)
    <3>1. Good(Edited([x EXCEPT !.ops[n] = WithRegister(@, r)]).insn)
      BY <2>2, SlotFieldReplaced
    <3> QED BY <2>2, <3>1 DEF set_op_register_unchecked
  <2> QED BY <2>1, <2>2
<1>2. Good(set_op_register(x, n, r).insn)
  BY <1>1, RefusedGood DEF set_op_register
<1>3. Good(set_op_immediate(x, n, v).insn)
  <2>1. CASE n \notin Live(x) \/ ~Fits(x.ops[n].kind, v)
    BY <2>1, RefusedGood DEF set_op_immediate
  <2>2. CASE ~(n \notin Live(x) \/ ~Fits(x.ops[n].kind, v))
    <3>1. Holds(x.ops[n].kind, v) BY <2>2, KindsAre DEF Fits, Holds
    <3>2. Good(Edited([x EXCEPT !.ops[n].val = v]).insn)
      BY <2>2, <3>1, SlotFieldReplaced
    <3> QED BY <2>2, <3>2 DEF set_op_immediate
  <2> QED BY <2>1, <2>2
<1> QED BY <1>1, <1>2, <1>3

(* The edits of the payload of the first operand of a kind that can hold
   it. *)
LEMMA FirstFieldGood ==
  ASSUME NEW x, Good(x), NEW K, NEW v, NEW r \in Reg,
         SlotsOf(x, K) # {} => Holds(x.ops[First(SlotsOf(x, K))].kind, v)
  PROVE  Good(SetFirstVal(x, K, v).insn)
<1>1. CASE SlotsOf(x, K) = {} BY <1>1, RefusedGood DEF SetFirstVal
<1>2. CASE SlotsOf(x, K) # {}
  <2>1. First(SlotsOf(x, K)) \in Live(x)
    BY <1>2, FirstIsLive DEF Good, SlotsOf
  <2>2. Good(Edited([x EXCEPT !.ops[First(SlotsOf(x, K))].val = v]).insn)
    BY <1>2, <2>1, SlotFieldReplaced
  <2> QED BY <1>2, <2>2 DEF SetFirstVal
<1> QED BY <1>1, <1>2

(* The setters that scan for their operand keep the invariant, whether they
   find one or refuse. *)
LEMMA ScannedGood ==
  ASSUME NEW x, Good(x), NEW r \in Reg, NEW v \in Addr
  PROVE  /\ \A c \in CondVal : Good(set_condition(x, c).insn)
         /\ Good(set_label(x, v).insn)
         /\ Good(set_near_branch_target(x, v).insn)
         /\ Good(set_memory_base(x, r).insn)
         /\ Good(set_memory_index(x, r).insn)
         /\ Good(set_memory_displacement64(x, v).insn)
<1>1. ASSUME NEW K, SlotsOf(x, K) # {}
      PROVE  /\ First(SlotsOf(x, K)) \in Live(x)
             /\ x.ops[First(SlotsOf(x, K))].kind \in K
  BY <1>1, FirstIsLive DEF Good, SlotsOf
<1>2. ASSUME NEW c \in CondVal PROVE Good(set_condition(x, c).insn)
  <2>1. \A k \in {"Cond"} : Holds(k, c) BY KindsAre, InputsAssumption DEF Holds
  <2> QED BY <1>1, <2>1, FirstFieldGood DEF set_condition
<1>3. Good(set_label(x, v).insn)
  <2>1. \A k \in {"Label"} : Holds(k, v) BY KindsAre DEF Holds
  <2> QED BY <1>1, <2>1, FirstFieldGood DEF set_label
<1>4. Good(set_near_branch_target(x, v).insn)
  BY <1>3, RefusedGood DEF set_near_branch_target
<1>5. Good(set_memory_base(x, r).insn)
  <2> DEFINE n == First(SlotsOf(x, MemKinds))
  <2>1. CASE SlotsOf(x, MemKinds) = {} BY <2>1, RefusedGood DEF set_memory_base
  <2>2. CASE SlotsOf(x, MemKinds) # {}
    <3>1. Good(Edited([x EXCEPT !.ops[n].reg = r]).insn)
      BY <1>1, <2>2, SlotFieldReplaced
    <3> QED BY <2>2, <3>1 DEF set_memory_base
  <2> QED BY <2>1, <2>2
<1>6. Good(set_memory_index(x, r).insn)
  <2> DEFINE n == First(SlotsOf(x, {"MemExt", "SveMem"}))
  <2>1. CASE SlotsOf(x, {"MemExt", "SveMem"}) = {}
    BY <2>1, RefusedGood DEF set_memory_index
  <2>2. CASE SlotsOf(x, {"MemExt", "SveMem"}) # {}
    <3>1. x.ops[n].kind \in IndexedKinds BY <1>1, <2>2, KindsAre
    <3>2. Good(Edited([x EXCEPT !.ops[n].idx = r]).insn)
      BY <1>1, <2>2, <3>1, SlotFieldReplaced
    <3> QED BY <2>2, <3>2 DEF set_memory_index
  <2> QED BY <2>1, <2>2
<1>7. Good(set_memory_displacement64(x, v).insn)
  <2> DEFINE K == {"MemImm", "SveMem"}
             refused == /\ SlotsOf(x, K) # {}
                        /\ x.ops[First(SlotsOf(x, K))].kind = "SveMem" /\ ~Fits32(v)
  <2>1. CASE refused BY <2>1, RefusedGood DEF set_memory_displacement64
  <2>2. CASE ~refused
    <3>1. SlotsOf(x, K) # {} => Holds(x.ops[First(SlotsOf(x, K))].kind, v)
      BY <1>1, <2>2, KindsAre DEF Holds
    <3>2. Good(SetFirstVal(x, K, v).insn) BY <3>1, FirstFieldGood
    <3> QED BY <2>2, <3>2 DEF set_memory_displacement64
  <2> QED BY <2>1, <2>2
<1> QED BY <1>2, <1>3, <1>4, <1>5, <1>6, <1>7

(* The commit step: the stored word is what the value encodes to. *)
LEMMA ReEncodeGood ==
  ASSUME EncodeContract, NEW x, Good(x)
  PROVE  Good(re_encode(x).insn)
<1> DEFINE y == [x EXCEPT !.word = EncodeInsn(x).v, !.modified = FALSE]
<1>1. CASE ~EncodeInsn(x).ok BY <1>1, RefusedGood DEF re_encode
<1>2. CASE EncodeInsn(x).ok
  <2>1. x \in Insn /\ SlotsEmpty(x) BY DEF Good
  <2>2. EncodeInsn(x).v \in Word BY <1>2, <2>1 DEF EncodeContract
  <2>3. /\ y \in Insn /\ y.cnt = x.cnt /\ y.ops = x.ops /\ y.word = EncodeInsn(x).v
    BY <2>1, <2>2 DEF Insn
  <2>4. EncodeInsn(y) = EncodeInsn(x) BY <2>1, <2>2 DEF EncodeContract
  <2> HIDE DEF y
  <2>5. SlotsEmpty(y) BY <2>1, <2>3 DEF SlotsEmpty
  <2>6. Fresh(y) BY <1>2, <2>3, <2>4 DEF Fresh, SameWord
  <2>7. Good(y) BY <2>3, <2>5, <2>6 DEF Good
  <2> QED BY <1>2, <2>7 DEF re_encode, Done, y
<1> QED BY <1>1, <1>2

(* The promise of a fallible edit: a Boolean, FALSE only with nothing
   changed. *)
AllOrNothing(x, result) == result.ok \in BOOLEAN /\ (~result.ok => result.insn = x)

(* Every mutator either reports success or leaves the instruction alone. *)
LEMMA EditsAllOrNothing ==
  ASSUME NEW x, NEW a, NEW n, NEW o, NEW r
  PROVE  /\ AllOrNothing(x, set_ip(x, a)) /\ AllOrNothing(x, relocate(x, a))
         /\ AllOrNothing(x, set_code(x, a)) /\ AllOrNothing(x, set_mnemonic(x, a))
         /\ AllOrNothing(x, set_op(x, n, o)) /\ AllOrNothing(x, set_op_count(x, n))
         /\ AllOrNothing(x, push_op(x, o))
         /\ AllOrNothing(x, set_op_register(x, n, r))
         /\ AllOrNothing(x, set_op_register_unchecked(x, n, r))
         /\ AllOrNothing(x, set_op_immediate(x, n, a))
         /\ AllOrNothing(x, set_condition(x, a)) /\ AllOrNothing(x, set_label(x, a))
         /\ AllOrNothing(x, set_near_branch_target(x, a))
         /\ AllOrNothing(x, set_memory_base(x, r)) /\ AllOrNothing(x, set_memory_index(x, r))
         /\ AllOrNothing(x, set_memory_displacement64(x, a))
         /\ AllOrNothing(x, re_encode(x))
<1>1. AllOrNothing(x, Refused(x)) BY DEF AllOrNothing, Refused
<1>2. \A y : AllOrNothing(x, Done(y)) BY DEF AllOrNothing, Done
<1>3. \A y : AllOrNothing(x, Edited(y)) BY <1>2 DEF Edited
<1>4. AllOrNothing(x, set_ip(x, a)) BY <1>2, <1>3 DEF set_ip
<1>5. AllOrNothing(x, relocate(x, a)) BY <1>2, <1>3 DEF relocate
<1>6. AllOrNothing(x, set_code(x, a)) /\ AllOrNothing(x, set_mnemonic(x, a))
  BY <1>3 DEF set_code, set_mnemonic
<1>7. AllOrNothing(x, set_op(x, n, o)) BY <1>1, <1>3 DEF set_op
<1>8. AllOrNothing(x, set_op_count(x, n)) BY <1>1, <1>3 DEF set_op_count
<1>9. AllOrNothing(x, push_op(x, o)) BY <1>1, <1>3 DEF push_op
<1>10. AllOrNothing(x, set_op_register_unchecked(x, n, r))
  BY <1>1, <1>3 DEF set_op_register_unchecked
<1>11. AllOrNothing(x, set_op_register(x, n, r)) BY <1>1, <1>10 DEF set_op_register
<1>12. AllOrNothing(x, set_op_immediate(x, n, a)) BY <1>1, <1>3 DEF set_op_immediate
<1>13. \A K : AllOrNothing(x, SetFirstVal(x, K, a)) BY <1>1, <1>3 DEF SetFirstVal
<1>14. AllOrNothing(x, set_condition(x, a)) /\ AllOrNothing(x, set_label(x, a))
  BY <1>13 DEF set_condition, set_label
<1>15. AllOrNothing(x, set_near_branch_target(x, a))
  BY <1>1, <1>14 DEF set_near_branch_target
<1>16. AllOrNothing(x, set_memory_base(x, r)) BY <1>1, <1>3 DEF set_memory_base
<1>17. AllOrNothing(x, set_memory_index(x, r)) BY <1>1, <1>3 DEF set_memory_index
<1>18. AllOrNothing(x, set_memory_displacement64(x, a))
  BY <1>1, <1>13 DEF set_memory_displacement64
<1>19. AllOrNothing(x, re_encode(x)) BY <1>1, <1>2 DEF re_encode
<1> QED BY <1>4, <1>5, <1>6, <1>7, <1>8, <1>9, <1>10, <1>11, <1>12, <1>14, <1>15,
           <1>16, <1>17, <1>18, <1>19

(* The inductive invariant. *)
Inv == Good(insn) /\ ret \in BOOLEAN /\ edits \in 0..MaxEdits

(* One application of an edit that keeps Good. *)
LEMMA ApplyKeepsInv ==
  ASSUME Inv, NEW name, NEW result, Apply(name, result),
         Good(result.insn), AllOrNothing(insn, result)
  PROVE  Inv' /\ (~ret' => insn' = insn)
  BY SizesAssumption DEF Inv, Apply, Good, AllOrNothing

(* Every step of the API keeps the invariant and is all or nothing. *)
LEMMA StepKeepsInv ==
  ASSUME EncodeContract, Inv, Next
  PROVE  Inv' /\ (~ret' => insn' = insn)
<1> USE EditsAllOrNothing, InputsAssumption
<1>0. Good(insn) /\ InOps \subseteq Operands /\ InSlots \cup {MAX_OPERANDS + 1} \subseteq Nat
  BY SizesAssumption, InputsAssumption DEF Inv, InSlots
<1>1. CASE SetIp BY <1>0, <1>1, SetIpGood, ApplyKeepsInv DEF SetIp
<1>2. CASE Relocate BY <1>0, <1>2, RelocateGood, ApplyKeepsInv DEF Relocate
<1>3. CASE SetCode BY <1>0, <1>3, SetCodeGood, ApplyKeepsInv DEF SetCode
<1>4. CASE SetMnemonic BY <1>0, <1>4, SetMnemonicGood, ApplyKeepsInv DEF SetMnemonic
<1>5. CASE SetOp BY <1>0, <1>5, SlotsGood, ApplyKeepsInv DEF SetOp
<1>6. CASE SetOpCount
  <2>1. PICK n \in Nat : Apply("set_op_count", set_op_count(insn, n))
    BY <1>0, <1>6 DEF SetOpCount
  <2>2. Good(set_op_count(insn, n).insn) BY <1>0, NoneOpTyped, SlotsGood
  <2> QED BY <2>1, <2>2, ApplyKeepsInv
<1>7. CASE PushOp
  <2>1. PICK o \in Operands : Apply("push_op", push_op(insn, o)) BY <1>0, <1>7 DEF PushOp
  <2>2. Good(push_op(insn, o).insn) BY <1>0, SlotsGood
  <2> QED BY <2>1, <2>2, ApplyKeepsInv
<1>8. 0 \in Addr /\ NoReg \in Reg BY SizesAssumption DEF Addr
<1>9. CASE SetOpRegister BY <1>0, <1>8, <1>9, SlotFieldGood, ApplyKeepsInv DEF SetOpRegister
<1>10. CASE SetOpRegisterUnchecked
  BY <1>0, <1>8, <1>10, SlotFieldGood, ApplyKeepsInv DEF SetOpRegisterUnchecked
<1>11. CASE SetOpImmediate
  BY <1>0, <1>11, SlotFieldGood, ApplyKeepsInv DEF SetOpImmediate
<1>12. CASE SetCondition BY <1>0, <1>8, <1>12, ScannedGood, ApplyKeepsInv DEF SetCondition
<1>13. CASE SetLabel BY <1>0, <1>8, <1>13, ScannedGood, ApplyKeepsInv DEF SetLabel
<1>14. CASE SetNearBranchTarget
  BY <1>0, <1>8, <1>14, ScannedGood, ApplyKeepsInv DEF SetNearBranchTarget
<1>15. CASE SetMemoryBase
  BY <1>0, <1>8, <1>15, ScannedGood, ApplyKeepsInv DEF SetMemoryBase
<1>16. CASE SetMemoryIndex
  BY <1>0, <1>8, <1>16, ScannedGood, ApplyKeepsInv DEF SetMemoryIndex
<1>17. CASE SetMemoryDisplacement64
  BY <1>0, <1>8, <1>17, ScannedGood, ApplyKeepsInv DEF SetMemoryDisplacement64
<1>18. CASE ReEncode BY <1>0, <1>18, ReEncodeGood, ApplyKeepsInv DEF ReEncode
<1> QED BY <1>1, <1>2, <1>3, <1>4, <1>5, <1>6, <1>7, <1>9, <1>10, <1>11, <1>12, <1>13,
           <1>14, <1>15, <1>16, <1>17, <1>18 DEF Next

(* A decoded instruction satisfies the invariant. *)
LEMMA InitInv ==
  ASSUME DecodeContract, RoundTripContract, Init
  PROVE  Inv
<1>1. PICK w \in InWords, a \in InAddrs : insn = DecodeWord(w, a) BY DEF Init
<1>2. w \in Word /\ a \in Addr BY InputsAssumption
<1>3. Fresh(insn)
  BY <1>1, <1>2 DEF Fresh, DecodeContract, RoundTripContract
<1> QED BY <1>1, <1>2, <1>3, SizesAssumption DEF Init, Inv, Good, DecodeContract

(***************************************************************************)
(* Theorems                                                                *)
(***************************************************************************)

(* For every codec that meets the contract, the invariant always holds. *)
THEOREM InstructionInvariant ==
  ASSUME DecodeContract, EncodeContract, RoundTripContract
  PROVE  Spec => []Inv
<1>1. Init => Inv BY InitInv
<1>2. Inv /\ [Next]_vars => Inv'
  <2> SUFFICES ASSUME Inv, [Next]_vars PROVE Inv' OBVIOUS
  <2>1. CASE Next BY <2>1, StepKeepsInv
  <2>2. CASE UNCHANGED vars BY <2>2 DEF vars, Inv, Good
  <2> QED BY <2>1, <2>2
<1> QED BY <1>1, <1>2, PTL DEF Spec

(* The types hold throughout: in particular op_count never passes the
   number of slots. *)
THEOREM TypeOKAlways ==
  ASSUME DecodeContract, EncodeContract, RoundTripContract
  PROVE  Spec => []TypeOK
<1>1. Inv => TypeOK BY DEF Inv, Good, TypeOK
<1> QED BY <1>1, InstructionInvariant, PTL

(* No sequence of set_op, set_op_count and push_op leaves an operand in a
   slot past op_count. *)
THEOREM SlotsBeyondCountEmptyAlways ==
  ASSUME DecodeContract, EncodeContract, RoundTripContract
  PROVE  Spec => []SlotsBeyondCountEmpty
<1>1. Inv => SlotsBeyondCountEmpty BY DEF Inv, Good, SlotsEmpty, SlotsBeyondCountEmpty
<1> QED BY <1>1, InstructionInvariant, PTL

(* While is_modified() is FALSE, word() encodes the instruction, whatever
   edits, moves and commits came before. *)
THEOREM FreshWordAlways ==
  ASSUME DecodeContract, EncodeContract, RoundTripContract
  PROVE  Spec => []FreshWord
<1>1. Inv => FreshWord BY DEF Inv, Good, FreshWord
<1> QED BY <1>1, InstructionInvariant, PTL

(* A refused edit and a failed re_encode leave the instruction as it was. *)
THEOREM FailedEditChangesNothingAlways ==
  ASSUME DecodeContract, EncodeContract, RoundTripContract
  PROVE  Spec => FailedEditChangesNothing
<1>1. Inv /\ [Next]_vars => [~ret' => insn' = insn]_vars
  <2> SUFFICES ASSUME Inv, [Next]_vars PROVE [~ret' => insn' = insn]_vars OBVIOUS
  <2>1. CASE Next BY <2>1, StepKeepsInv
  <2>2. CASE UNCHANGED vars BY <2>2
  <2> QED BY <2>1, <2>2
<1> QED BY <1>1, InstructionInvariant, PTL DEF Spec, FailedEditChangesNothing

(***************************************************************************)
(* Field setters                                                           *)
(***************************************************************************)

(* y is x with at most one field of one operand replaced. *)
OneFieldReplaced(x, y) ==
  /\ \A i \in Slot : y.ops[i].kind = x.ops[i].kind /\ y.ops[i].dec = x.ops[i].dec
  /\ \E n \in Slot : \A i \in Slot \ {n} : y.ops[i] = x.ops[i]
  /\ <<y.code, y.mnem, y.cnt, y.ip, y.word>> = <<x.code, x.mnem, x.cnt, x.ip, x.word>>

(* Replacing the register, the index or the payload of one slot. *)
LEMMA FieldOfSlot ==
  ASSUME NEW x \in Insn, NEW n \in Live(x), NEW v
  PROVE  /\ OneFieldReplaced(x, Edited([x EXCEPT !.ops[n] = WithRegister(@, v)]).insn)
         /\ OneFieldReplaced(x, Edited([x EXCEPT !.ops[n].reg = v]).insn)
         /\ OneFieldReplaced(x, Edited([x EXCEPT !.ops[n].idx = v]).insn)
         /\ OneFieldReplaced(x, Edited([x EXCEPT !.ops[n].val = v]).insn)
<1>1. n \in Slot /\ x.ops \in [Slot -> Operands] BY DEF Live, Insn
<1>2. ASSUME NEW o, o.kind = x.ops[n].kind, o.dec = x.ops[n].dec
      PROVE  OneFieldReplaced(x, Edited([x EXCEPT !.ops[n] = o]).insn)
  <2> DEFINE y == Edited([x EXCEPT !.ops[n] = o]).insn
  <2>1. y.ops = [x.ops EXCEPT ![n] = o] BY DEF Edited, Done, Insn
  <2>2. /\ y.code = x.code /\ y.mnem = x.mnem /\ y.cnt = x.cnt
        /\ y.ip = x.ip /\ y.word = x.word
    BY DEF Edited, Done, Insn
  <2> HIDE DEF y
  <2>3. \A i \in Slot \ {n} : y.ops[i] = x.ops[i] BY <1>1, <2>1
  <2>4. y.ops[n] = o BY <1>1, <2>1
  <2>5. OneFieldReplaced(x, y) BY <1>1, <1>2, <2>2, <2>3, <2>4 DEF OneFieldReplaced
  <2> QED BY <2>5 DEF y
<1>3. x.ops[n] \in [kind : Kinds, reg : Reg, idx : Reg, val : Addr, dec : Dec]
  BY <1>1 DEF Operands
<1> DEFINE o == [x.ops[n] EXCEPT !.reg = v]
           p == [x.ops[n] EXCEPT !.idx = v]
           q == [x.ops[n] EXCEPT !.val = v]
<1>4. /\ o.kind = x.ops[n].kind /\ o.dec = x.ops[n].dec
      /\ p.kind = x.ops[n].kind /\ p.dec = x.ops[n].dec
      /\ q.kind = x.ops[n].kind /\ q.dec = x.ops[n].dec
  BY <1>3
<1>5. /\ [x EXCEPT !.ops[n] = WithRegister(@, v)] = [x EXCEPT !.ops[n] = o]
      /\ [x EXCEPT !.ops[n].reg = v] = [x EXCEPT !.ops[n] = o]
      /\ [x EXCEPT !.ops[n].idx = v] = [x EXCEPT !.ops[n] = p]
      /\ [x EXCEPT !.ops[n].val = v] = [x EXCEPT !.ops[n] = q]
  BY DEF WithRegister
<1> HIDE DEF o, p, q
<1>6. /\ OneFieldReplaced(x, Edited([x EXCEPT !.ops[n] = o]).insn)
      /\ OneFieldReplaced(x, Edited([x EXCEPT !.ops[n] = p]).insn)
      /\ OneFieldReplaced(x, Edited([x EXCEPT !.ops[n] = q]).insn)
  BY <1>2, <1>4
<1> QED BY <1>5, <1>6

(* A refused setter replaces nothing. *)
LEMMA RefusedReplacesNothing ==
  ASSUME NEW x
  PROVE  OneFieldReplaced(x, Refused(x).insn)
<1>1. 0 \in Slot BY SizesAssumption DEF Slot
<1> QED BY <1>1 DEF OneFieldReplaced, Refused

(* Every field setter, applied or refused, replaces at most one field. *)
LEMMA SettersReplaceOneField ==
  ASSUME NEW x \in Insn, NEW n, NEW r, NEW v
  PROVE  /\ OneFieldReplaced(x, set_op_register_unchecked(x, n, r).insn)
         /\ OneFieldReplaced(x, set_op_register(x, n, r).insn)
         /\ OneFieldReplaced(x, set_op_immediate(x, n, v).insn)
         /\ OneFieldReplaced(x, set_condition(x, v).insn)
         /\ OneFieldReplaced(x, set_label(x, v).insn)
         /\ OneFieldReplaced(x, set_near_branch_target(x, v).insn)
         /\ OneFieldReplaced(x, set_memory_base(x, r).insn)
         /\ OneFieldReplaced(x, set_memory_index(x, r).insn)
         /\ OneFieldReplaced(x, set_memory_displacement64(x, v).insn)
<1> USE RefusedReplacesNothing
<1>1. ASSUME NEW K, SlotsOf(x, K) # {} PROVE First(SlotsOf(x, K)) \in Live(x)
  BY <1>1, FirstIsLive DEF SlotsOf
<1>2. OneFieldReplaced(x, set_op_register_unchecked(x, n, r).insn)
  <2>1. CASE n \notin Live(x) \/ x.ops[n].kind \notin RegKinds
    BY <2>1 DEF set_op_register_unchecked
  <2>2. CASE ~(n \notin Live(x) \/ x.ops[n].kind \notin RegKinds)
    BY <2>2, FieldOfSlot DEF set_op_register_unchecked
  <2> QED BY <2>1, <2>2
<1>3. OneFieldReplaced(x, set_op_register(x, n, r).insn)
  BY <1>2 DEF set_op_register
<1>4. OneFieldReplaced(x, set_op_immediate(x, n, v).insn)
  <2>1. CASE n \notin Live(x) \/ ~Fits(x.ops[n].kind, v)
    BY <2>1 DEF set_op_immediate
  <2>2. CASE ~(n \notin Live(x) \/ ~Fits(x.ops[n].kind, v))
    BY <2>2, FieldOfSlot DEF set_op_immediate
  <2> QED BY <2>1, <2>2
<1>5. ASSUME NEW K PROVE OneFieldReplaced(x, SetFirstVal(x, K, v).insn)
  <2>1. CASE SlotsOf(x, K) = {} BY <2>1 DEF SetFirstVal
  <2>2. CASE SlotsOf(x, K) # {}
    <3>1. OneFieldReplaced(x, Edited([x EXCEPT !.ops[First(SlotsOf(x, K))].val = v]).insn)
      BY <1>1, <2>2, FieldOfSlot
    <3> QED BY <2>2, <3>1 DEF SetFirstVal
  <2> QED BY <2>1, <2>2
<1>6. OneFieldReplaced(x, set_condition(x, v).insn) BY <1>5 DEF set_condition
<1>7. OneFieldReplaced(x, set_label(x, v).insn) BY <1>5 DEF set_label
<1>8. OneFieldReplaced(x, set_near_branch_target(x, v).insn)
  BY <1>7 DEF set_near_branch_target
<1>9. OneFieldReplaced(x, set_memory_base(x, r).insn)
  <2>1. CASE SlotsOf(x, MemKinds) = {} BY <2>1 DEF set_memory_base
  <2>2. CASE SlotsOf(x, MemKinds) # {}
    <3>1. OneFieldReplaced(x, Edited([x EXCEPT !.ops[First(SlotsOf(x, MemKinds))].reg = r]).insn)
      BY <1>1, <2>2, FieldOfSlot
    <3> QED BY <2>2, <3>1 DEF set_memory_base
  <2> QED BY <2>1, <2>2
<1>10. OneFieldReplaced(x, set_memory_index(x, r).insn)
  <2> DEFINE K == {"MemExt", "SveMem"}
  <2>1. CASE SlotsOf(x, K) = {} BY <2>1 DEF set_memory_index
  <2>2. CASE SlotsOf(x, K) # {}
    <3>1. OneFieldReplaced(x, Edited([x EXCEPT !.ops[First(SlotsOf(x, K))].idx = r]).insn)
      BY <1>1, <2>2, FieldOfSlot
    <3> QED BY <2>2, <3>1 DEF set_memory_index
  <2> QED BY <2>1, <2>2
<1>11. OneFieldReplaced(x, set_memory_displacement64(x, v).insn)
  BY <1>5 DEF set_memory_displacement64
<1> QED BY <1>2, <1>3, <1>4, <1>6, <1>7, <1>8, <1>9, <1>10, <1>11

(* A step named for a field setter is that setter. *)
LEMMA SetterSteps ==
  ASSUME Inv, Next, op' \in FieldSetters
  PROVE  OneFieldReplaced(insn, insn')
<1>1. insn \in Insn BY DEF Inv, Good
<1> USE DEF Apply, FieldSetters
<1> USE SettersReplaceOneField
<1>2. CASE SetIp BY <1>2 DEF SetIp
<1>3. CASE Relocate BY <1>3 DEF Relocate
<1>4. CASE SetCode BY <1>4 DEF SetCode
<1>5. CASE SetMnemonic BY <1>5 DEF SetMnemonic
<1>6. CASE SetOp BY <1>6 DEF SetOp
<1>7. CASE SetOpCount BY <1>7 DEF SetOpCount
<1>8. CASE PushOp BY <1>8 DEF PushOp
<1>9. CASE SetOpRegister BY <1>1, <1>9 DEF SetOpRegister
<1>10. CASE SetOpRegisterUnchecked BY <1>1, <1>10 DEF SetOpRegisterUnchecked
<1>11. CASE SetOpImmediate BY <1>1, <1>11 DEF SetOpImmediate
<1>12. CASE SetCondition BY <1>1, <1>12 DEF SetCondition
<1>13. CASE SetLabel BY <1>1, <1>13 DEF SetLabel
<1>14. CASE SetNearBranchTarget BY <1>1, <1>14 DEF SetNearBranchTarget
<1>15. CASE SetMemoryBase BY <1>1, <1>15 DEF SetMemoryBase
<1>16. CASE SetMemoryIndex BY <1>1, <1>16 DEF SetMemoryIndex
<1>17. CASE SetMemoryDisplacement64 BY <1>1, <1>17 DEF SetMemoryDisplacement64
<1>18. CASE ReEncode BY <1>18 DEF ReEncode
<1> QED BY <1>2, <1>3, <1>4, <1>5, <1>6, <1>7, <1>8, <1>9, <1>10, <1>11, <1>12, <1>13,
           <1>14, <1>15, <1>16, <1>17, <1>18 DEF Next

(* A field setter keeps the variant and the decorations of every operand,
   touches one slot only, and leaves identity, address and count alone,
   whatever edits came before. *)
THEOREM DecorationsPreservedAlways ==
  ASSUME DecodeContract, EncodeContract, RoundTripContract
  PROVE  Spec => DecorationsPreserved
<1> DEFINE Preserved ==
      op' \in FieldSetters =>
        /\ \A i \in Slot : /\ insn'.ops[i].kind = insn.ops[i].kind
                           /\ insn'.ops[i].dec = insn.ops[i].dec
        /\ \E n \in Slot : \A i \in Slot \ {n} : insn'.ops[i] = insn.ops[i]
        /\ <<insn'.code, insn'.mnem, insn'.cnt, insn'.ip, insn'.word>>
             = <<insn.code, insn.mnem, insn.cnt, insn.ip, insn.word>>
<1>1. Inv /\ [Next]_vars => [Preserved]_vars
  BY SetterSteps DEF OneFieldReplaced
<1> QED BY <1>1, InstructionInvariant, PTL DEF Spec, DecorationsPreserved

(***************************************************************************)
(* The branch codec                                                        *)
(***************************************************************************)

(* The editing API over the branch codec: the registers a field can number,
   the conditions it can hold, and immediates that fit 64 bits. *)
BranchCodec ==
  /\ Word = BranchWord /\ Code = BranchCode
  /\ \A w \in BranchWord, a \in Addr : DecodeWord(w, a) = Decode(w, a)
  /\ \A x \in Insn : EncodeInsn(x) = Encode(x)
  /\ \A c \in BranchCode : MnemonicOf(c) \in Mnemonic
  /\ \A n \in RegNum : <<"W", n>> \in Reg /\ <<"X", n>> \in Reg
  /\ \A r \in Reg : NumberOf(r) \in RegNum
  /\ CondVal = Cond4
  /\ 2 * C5 <= AddrMod /\ C6 <= AddrMod /\ CUdf <= AddrMod

(***************************************************************************)
(* What the codec promises: decode                                         *)
(***************************************************************************)

(* The operands the branch decoders build. *)
LEMMA BranchOperands ==
  ASSUME BranchCodec
  PROVE  /\ \A n \in RegNum : \A sf : Gp(sf, n) \in Operands
         /\ \A v \in Addr : LabelOp(v) \in Operands /\ ImmOp(v) \in Operands
         /\ \A c \in Cond4 : CondOp(c) \in Operands
<1>0. 0 \in Addr /\ NoReg \in Reg /\ NoDec \in Dec /\ Cond4 \subseteq Addr
  BY SizesAssumption, InputsAssumption DEF Addr, BranchCodec
<1>1. ASSUME NEW n \in RegNum, NEW sf PROVE Gp(sf, n) \in Operands
  <2> DEFINE r == <<IF sf = 1 THEN "X" ELSE "W", n>>
  <2>1. r \in Reg BY DEF BranchCodec
  <2> HIDE DEF r
  <2>2. Op("Reg", r, NoReg, 0, NoDec) \in Operands
    BY <1>0, <2>1, KindsAre DEF Op, Operands, WellFormed
  <2> QED BY <2>2 DEF Gp, RegOp, r
<1>2. ASSUME NEW v \in Addr PROVE LabelOp(v) \in Operands /\ ImmOp(v) \in Operands
  BY <1>0, KindsAre DEF LabelOp, ImmOp, Op, Operands, WellFormed
<1>3. ASSUME NEW c \in Cond4 PROVE CondOp(c) \in Operands
  BY <1>0, KindsAre DEF CondOp, Op, Operands, WellFormed, BranchCodec
<1> QED BY <1>1, <1>2, <1>3

(* What decode promises of one word. *)
Decoded(d, w, a) ==
  /\ d \in Insn /\ d.word = w /\ d.ip = a /\ ~d.modified /\ SlotsEmpty(d)

(* An instruction built from at most three operands. *)
LEMMA BuiltDecoded ==
  ASSUME BranchCodec, NEW w \in BranchWord, NEW a \in Addr, NEW c \in BranchCode,
         NEW o \in Operands, NEW p \in Operands, NEW q \in Operands
  PROVE  /\ Decoded(NewInvalid(w, a), w, a)
         /\ Decoded(Made(w, a, c, <<o>>), w, a)
         /\ Decoded(Made(w, a, c, <<o, p>>), w, a)
         /\ Decoded(Made(w, a, c, <<o, p, q>>), w, a)
<1>0. /\ MAX_OPERANDS \in Nat /\ MAX_OPERANDS >= 3 /\ Word = BranchWord /\ Code = BranchCode
      /\ MnemonicOf(c) \in Mnemonic /\ NoneOp \in Operands
  BY FieldsAssumption, NoneOpTyped DEF BranchCodec
<1>1. ASSUME NEW list, list \in {<<o>>, <<o, p>>, <<o, p, q>>}
      PROVE  Decoded(Made(w, a, c, list), w, a)
  <2> DEFINE d == Made(w, a, c, list)
  <2>1. Len(list) \in 1..3 /\ DOMAIN list = 1..Len(list)
        /\ \A i \in 1..Len(list) : list[i] \in Operands
    BY <1>1
  <2>2. Filled(list) \in [Slot -> Operands]
        /\ \A i \in Slot : i >= Len(list) => Filled(list)[i] = NoneOp
    BY <1>0, <2>1 DEF Filled, Slot
  <2> DEFINE n == Len(list)
             ops == Filled(list)
             m == MnemonicOf(c)
  <2>3. d = [word |-> w, ip |-> a, code |-> c, mnem |-> m,
             cnt |-> n, modified |-> FALSE, ops |-> ops]
    <3>1. n \in 1..3 BY <2>1
    <3>2. d = [NewInvalid(w, a) EXCEPT !.code = c, !.mnem = m, !.ops = ops,
                                      !.cnt = IF n < MAX_OPERANDS THEN n ELSE MAX_OPERANDS]
      BY DEF Made, Built
    <3> HIDE DEF d, n, ops, m
    <3>3. (IF n < MAX_OPERANDS THEN n ELSE MAX_OPERANDS) = n
      BY <1>0, <3>1
    <3> QED BY <3>2, <3>3 DEF NewInvalid
  <2>4. Len(list) \in 0..MAX_OPERANDS BY <1>0, <2>1
  <2> HIDE DEF d
  <2>5. d \in Insn BY <1>0, <2>2, <2>3, <2>4 DEF Insn
  <2>6. Decoded(d, w, a) BY <2>2, <2>3, <2>5 DEF Decoded, SlotsEmpty
  <2> QED BY <2>6 DEF d
<1>2. Decoded(NewInvalid(w, a), w, a)
  <2>1. Filled(<<>>) = [i \in Slot |-> NoneOp] BY DEF Filled
  <2>2. <<"Invalid">> \in Code /\ <<"Invalid">> \in Mnemonic
    <3>1. <<"Invalid">> \in BranchCode BY DEF BranchCode
    <3>2. MnemonicOf(<<"Invalid">>) = <<"Invalid">> BY DEF MnemonicOf
    <3> QED BY <1>0, <3>1, <3>2 DEF BranchCodec
  <2>3. 0 \in 0..MAX_OPERANDS BY <1>0
  <2> QED BY <1>0, <2>1, <2>2, <2>3 DEF NewInvalid, Decoded, Insn, SlotsEmpty
<1> QED BY <1>1, <1>2

(* The labels the decoders build are addresses. *)
LEMMA Labels ==
  ASSUME NEW a \in Addr
  PROVE  /\ \A f \in 0..(C26 - 1) : RelTarget(f, a, C26, Granule) \in Addr
         /\ \A f \in 0..(C19 - 1) : RelTarget(f, a, C19, Granule) \in Addr
         /\ \A f \in 0..(C14 - 1) : RelTarget(f, a, C14, Granule) \in Addr
         /\ \A f \in 0..(C9 - 1) : RelTarget(f, a, C9, Granule) \in Addr
         /\ \A f \in 0..(C21 - 1) : RelTarget(f, a, C21, 1) \in Addr
         /\ \A f \in 0..(C21 - 1) : AdrpTarget(f, a, C21, Page) \in Addr
         /\ \A f \in 0..(C16 - 1) : SppcTarget(f, a, Granule) \in Addr
<1>1. Page = 4096 /\ AddrMod % 4096 = 0 BY FieldsAssumption
<1> QED BY <1>1, Widths, RelImmOfTarget, SppcInverse, AdrpInverse

(* The condition and family tables name members of Code. *)
LEMMA TablesNameCodes ==
  /\ \A cc \in 0..7, n \in 0..3 :
       RegCc[cc + 1] # "none" /\ CbFamily[n + 1] # "none" =>
         <<CbFamily[n + 1], RegCc[cc + 1]>> \in BranchCode
  /\ \A cc \in 0..7 : ImmCc[cc + 1] # "none" => <<"Cb", ImmCc[cc + 1]>> \in BranchCode
<1> DEFINE conds == {"gt", "ge", "lt", "hi", "hs", "lo", "eq", "ne"}
<1>1. \A cc \in 0..7 : RegCc[cc + 1] # "none" => RegCc[cc + 1] \in conds
  <2>1. /\ RegCc[1] = "gt" /\ RegCc[2] = "ge" /\ RegCc[3] = "hi" /\ RegCc[4] = "hs"
        /\ RegCc[5] = "none" /\ RegCc[6] = "none" /\ RegCc[7] = "eq" /\ RegCc[8] = "ne"
    BY DEF RegCc
  <2> QED BY <2>1
<1>2. \A cc \in 0..7 : ImmCc[cc + 1] # "none" => ImmCc[cc + 1] \in conds
  <2>1. /\ ImmCc[1] = "gt" /\ ImmCc[2] = "lt" /\ ImmCc[3] = "hi" /\ ImmCc[4] = "lo"
        /\ ImmCc[5] = "none" /\ ImmCc[6] = "none" /\ ImmCc[7] = "eq" /\ ImmCc[8] = "ne"
    BY DEF ImmCc
  <2> QED BY <2>1
<1>3. \A n \in 0..3 : CbFamily[n + 1] # "none" => CbFamily[n + 1] \in {"Cb", "Cbb", "Cbh"}
  <2>1. CbFamily[1] = "Cb" /\ CbFamily[2] = "none" /\ CbFamily[3] = "Cbb" /\ CbFamily[4] = "Cbh"
    BY DEF CbFamily
  <2> QED BY <2>1
<1>4. \A f \in {"Cb", "Cbb", "Cbh"}, k \in conds : <<f, k>> \in BranchCode
  BY DEF BranchCode
<1> HIDE DEF conds
<1> QED BY <1>1, <1>2, <1>3, <1>4

(* A word decodes to a typed instruction that remembers it. *)
LEMMA DecodeTyped ==
  ASSUME BranchCodec, NEW w \in BranchWord, NEW a \in Addr
  PROVE  Decoded(Decode(w, a), w, a)
<1>10. /\ \A c \in BranchCode, o, p, q \in Operands :
             /\ Decoded(Made(w, a, c, <<o>>), w, a)
             /\ Decoded(Made(w, a, c, <<o, p>>), w, a)
             /\ Decoded(Made(w, a, c, <<o, p, q>>), w, a)
  BY BuiltDecoded
<1> USE <1>10, BranchOperands, Labels
<1>0. Decoded(NewInvalid(w, a), w, a)
  BY BuiltDecoded, NoneOpTyped DEF BranchCode
<1>1. CASE w \in BWord
  <2>1. w.class = "b" /\ w.imm \in 0..(C26 - 1) BY <1>1 DEF BWord
  <2>2. <<"Bl">> \in BranchCode /\ <<"B", "uncond">> \in BranchCode BY DEF BranchCode
  <2>3. Decode(w, a) = DecodeB(w, a) BY <2>1 DEF Decode
  <2> QED BY <2>1, <2>2, <2>3 DEF DecodeB
<1>2. CASE w \in BCondWord
  <2>1. w.class = "bcond" /\ w.imm \in 0..(C19 - 1) /\ w.cond \in Cond4 BY <1>2 DEF BCondWord
  <2>2. <<"Bc">> \in BranchCode /\ <<"B", "cond">> \in BranchCode BY DEF BranchCode
  <2>3. Decode(w, a) = DecodeBCond(w, a) BY <2>1 DEF Decode
  <2> QED BY <1>0, <2>1, <2>2, <2>3 DEF DecodeBCond
<1>3. CASE w \in SppcWord
  <2>1. w.class \in {"retsppc", "autisppc"} /\ w.imm \in 0..(C16 - 1) BY <1>3 DEF SppcWord
  <2>2. \A f \in {"RetSppc", "AutiSppc"}, k \in {"a", "b"} : <<f, k>> \in BranchCode
    BY DEF BranchCode
  <2>3. Decode(w, a) = DecodeSppc(w, a) BY <2>1 DEF Decode
  <2> QED BY <1>0, <2>1, <2>2, <2>3 DEF DecodeSppc
<1>4. CASE w \in CbzWord
  <2>1. w.class = "cbz" /\ w.imm \in 0..(C19 - 1) /\ w.rt \in RegNum BY <1>4 DEF CbzWord
  <2>2. \A f \in {"Cbz", "Cbnz"}, k \in {"32", "64"} : <<f, k>> \in BranchCode
    BY DEF BranchCode
  <2>3. Decode(w, a) = DecodeCbz(w, a) BY <2>1 DEF Decode
  <2> DEFINE c == <<IF w.op = 1 THEN "Cbnz" ELSE "Cbz", IF w.sf = 1 THEN "64" ELSE "32">>
             o == Gp(w.sf, w.rt)
             p == LabelOp(RelTarget(w.imm, a, C19, Granule))
  <2>4. c \in BranchCode /\ o \in Operands /\ p \in Operands BY <2>1, <2>2
  <2>5. DecodeCbz(w, a) = Made(w, a, c, <<o, p>>) BY DEF DecodeCbz
  <2> HIDE DEF c, o, p
  <2> QED BY <2>3, <2>4, <2>5
<1>5. CASE w \in TbzWord
  <2>1. /\ w.class = "tbz" /\ w.imm \in 0..(C14 - 1) /\ w.rt \in RegNum
        /\ w.b5 \in {0, 1} /\ w.b40 \in 0..(C5 - 1)
    BY <1>5 DEF TbzWord, Bit
  <2>2. <<"Tbz">> \in BranchCode /\ <<"Tbnz">> \in BranchCode BY DEF BranchCode
  <2>3. Decode(w, a) = DecodeTbz(w, a) BY <2>1 DEF Decode
  <2> DEFINE c == <<IF w.op = 1 THEN "Tbnz" ELSE "Tbz">>
             o == Gp(w.b5, w.rt)
             v == w.b5 * C5 + w.b40
             q == LabelOp(RelTarget(w.imm, a, C14, Granule))
  <2>4. v \in Addr
    <3>1. C5 \in Nat \ {0} /\ 2 * C5 <= AddrMod /\ AddrMod \in Nat
      BY FieldsAssumption DEF BranchCodec
    <3>2. w.b5 * C5 = 0 \/ w.b5 * C5 = C5 BY <2>1, <3>1
    <3> QED BY <2>1, <3>1, <3>2 DEF Addr
  <2>5. c \in BranchCode /\ o \in Operands /\ q \in Operands BY <2>1, <2>2
  <2>6. DecodeTbz(w, a) = Made(w, a, c, <<o, ImmOp(v), q>>) BY DEF DecodeTbz
  <2> HIDE DEF c, o, v, q
  <2>7. ImmOp(v) \in Operands BY <2>4
  <2> QED BY <2>3, <2>5, <2>6, <2>7
<1>6. CASE w \in CbRegWord
  <2>1. /\ w.class = "cbreg" /\ w.imm \in 0..(C9 - 1) /\ w.rt \in RegNum /\ w.rm \in RegNum
        /\ w.cc \in 0..7 /\ w.size \in 0..3
    BY <1>6 DEF CbRegWord
  <2>2. Decode(w, a) = DecodeCbReg(w, a) BY <2>1 DEF Decode
  <2> DEFINE c == <<CbFamily[w.size + 1], RegCc[w.cc + 1]>>
             refused == \/ "Cmpbr" \notin Features
                        \/ RegCc[w.cc + 1] = "none" \/ CbFamily[w.size + 1] = "none"
                        \/ w.size # 0 /\ w.sf = 1
             o == Gp(w.sf, w.rt)
             p == Gp(w.sf, w.rm)
             q == LabelOp(RelTarget(w.imm, a, C9, Granule))
  <2>3. ~refused => c \in BranchCode BY <2>1, TablesNameCodes
  <2>4. o \in Operands /\ p \in Operands /\ q \in Operands BY <2>1
  <2>5. DecodeCbReg(w, a) = IF refused THEN NewInvalid(w, a) ELSE Made(w, a, c, <<o, p, q>>)
    BY DEF DecodeCbReg
  <2> HIDE DEF c, refused, o, p, q
  <2> QED BY <1>0, <2>2, <2>3, <2>4, <2>5
<1>7. CASE w \in CbImmWord
  <2>1. /\ w.class = "cbimm" /\ w.imm \in 0..(C9 - 1) /\ w.rt \in RegNum
        /\ w.cc \in 0..7 /\ w.imm6 \in 0..(C6 - 1)
    BY <1>7 DEF CbImmWord
  <2>2. Decode(w, a) = DecodeCbImm(w, a) BY <2>1 DEF Decode
  <2>3. w.imm6 \in Addr BY <2>1, FieldsAssumption DEF BranchCodec, Addr
  <2> DEFINE c == <<"Cb", ImmCc[w.cc + 1]>>
             refused == "Cmpbr" \notin Features \/ w.b14 = 1 \/ ImmCc[w.cc + 1] = "none"
             o == Gp(w.sf, w.rt)
             p == ImmOp(w.imm6)
             q == LabelOp(RelTarget(w.imm, a, C9, Granule))
  <2>4. ~refused => c \in BranchCode BY <2>1, TablesNameCodes
  <2>5. o \in Operands /\ p \in Operands /\ q \in Operands BY <2>1, <2>3
  <2>6. DecodeCbImm(w, a) = IF refused THEN NewInvalid(w, a) ELSE Made(w, a, c, <<o, p, q>>)
    BY DEF DecodeCbImm
  <2> HIDE DEF c, refused, o, p, q
  <2> QED BY <1>0, <2>2, <2>4, <2>5, <2>6
<1>8. CASE w \in AdrWord
  <2>1. w.class = "adr" /\ w.imm \in 0..(C21 - 1) /\ w.rd \in RegNum BY <1>8 DEF AdrWord
  <2>2. <<"Adr">> \in BranchCode /\ <<"Adrp">> \in BranchCode BY DEF BranchCode
  <2>3. Decode(w, a) = DecodeAdr(w, a) BY <2>1 DEF Decode
  <2> DEFINE c == <<IF w.op = 1 THEN "Adrp" ELSE "Adr">>
             t == IF w.op = 1 THEN AdrpTarget(w.imm, a, C21, Page) ELSE RelTarget(w.imm, a, C21, 1)
             o == Gp(1, w.rd)
  <2>4. c \in BranchCode /\ o \in Operands /\ t \in Addr BY <2>1, <2>2
  <2>5. DecodeAdr(w, a) = Made(w, a, c, <<o, LabelOp(t)>>) BY DEF DecodeAdr
  <2> HIDE DEF c, t, o
  <2>6. LabelOp(t) \in Operands BY <2>4
  <2> QED BY <2>3, <2>4, <2>5, <2>6
<1>9. CASE w \in UdfWord
  <2>1. w.class = "udf" /\ w.imm \in 0..(CUdf - 1) BY <1>9 DEF UdfWord
  <2>2. <<"Udf">> \in BranchCode BY DEF BranchCode
  <2>3. Decode(w, a) = DecodeUdf(w, a) BY <2>1 DEF Decode
  <2>4. w.imm \in Addr BY <2>1, FieldsAssumption DEF BranchCodec, Addr
  <2> QED BY <2>1, <2>2, <2>3, <2>4 DEF DecodeUdf
<1> QED BY <1>1, <1>2, <1>3, <1>4, <1>5, <1>6, <1>7, <1>8, <1>9 DEF BranchWord

(***************************************************************************)
(* What the codec promises: encode                                         *)
(***************************************************************************)

(* The codes, by the encoder of their class. *)
LEMMA EncodeOfCode ==
  ASSUME NEW x
  PROVE  /\ x.code = <<"Invalid">> => Encode(x) = Err("Invalid")
         /\ x.code \in {<<"B", "uncond">>, <<"Bl">>} => Encode(x) = EncodeB(x)
         /\ x.code \in {<<"B", "cond">>, <<"Bc">>} => Encode(x) = EncodeBCond(x)
         /\ x.code \in {"Cbz", "Cbnz"} \X {"32", "64"} => Encode(x) = EncodeCbz(x)
         /\ x.code \in {<<"Tbz">>, <<"Tbnz">>} => Encode(x) = EncodeTbz(x)
         /\ x.code[1] \in {"Cb", "Cbb", "Cbh"} => Encode(x) = EncodeCmpbr(x)
         /\ x.code \in {<<"Adr">>, <<"Adrp">>} => Encode(x) = EncodeAdr(x)
         /\ x.code = <<"Udf">> => Encode(x) = EncodeUdf(x)
         /\ x.code \in {"RetSppc", "AutiSppc"} \X {"a", "b"} => Encode(x) = EncodeSppc(x)
<1>1. ASSUME x.code = <<"Invalid">> PROVE Encode(x) = Err("Invalid")
  BY <1>1 DEF Encode
<1>2. ASSUME x.code \in {<<"B", "uncond">>, <<"Bl">>} PROVE Encode(x) = EncodeB(x)
  BY <1>2 DEF Encode
<1>3. ASSUME x.code \in {<<"B", "cond">>, <<"Bc">>} PROVE Encode(x) = EncodeBCond(x)
  BY <1>3 DEF Encode
<1>4. ASSUME x.code \in {"Cbz", "Cbnz"} \X {"32", "64"} PROVE Encode(x) = EncodeCbz(x)
  <2>1. x.code[1] \in {"Cbz", "Cbnz"} BY <1>4
  <2> QED BY <2>1 DEF Encode
<1>5. ASSUME x.code \in {<<"Tbz">>, <<"Tbnz">>} PROVE Encode(x) = EncodeTbz(x)
  BY <1>5 DEF Encode
<1>6. ASSUME x.code[1] \in {"Cb", "Cbb", "Cbh"} PROVE Encode(x) = EncodeCmpbr(x)
  BY <1>6 DEF Encode
<1>7. ASSUME x.code \in {<<"Adr">>, <<"Adrp">>} PROVE Encode(x) = EncodeAdr(x)
  BY <1>7 DEF Encode
<1>8. ASSUME x.code = <<"Udf">> PROVE Encode(x) = EncodeUdf(x)
  BY <1>8 DEF Encode
<1>9. ASSUME x.code \in {"RetSppc", "AutiSppc"} \X {"a", "b"} PROVE Encode(x) = EncodeSppc(x)
  <2>1. x.code[1] \in {"RetSppc", "AutiSppc"} BY <1>9
  <2> QED BY <2>1 DEF Encode
<1> QED BY <1>1, <1>2, <1>3, <1>4, <1>5, <1>6, <1>7, <1>8, <1>9

(* Every code has a class. *)
LEMMA CodeClasses ==
  ASSUME NEW c \in BranchCode
  PROVE  \/ c = <<"Invalid">>
         \/ c \in {<<"B", "uncond">>, <<"Bl">>}
         \/ c \in {<<"B", "cond">>, <<"Bc">>}
         \/ c \in {"Cbz", "Cbnz"} \X {"32", "64"}
         \/ c \in {<<"Tbz">>, <<"Tbnz">>}
         \/ c \in {"Cb", "Cbb", "Cbh"} \X {"gt", "ge", "lt", "hi", "hs", "lo", "eq", "ne"}
         \/ c \in {<<"Adr">>, <<"Adrp">>}
         \/ c = <<"Udf">>
         \/ c \in {"RetSppc", "AutiSppc"} \X {"a", "b"}
BY DEF BranchCode

(* An empty slot is no label. *)
LEMMA NoneOpIsNoLabel == NoneOp.kind = "None"
BY DEF NoneOp, Op

(* What an encoder reads: the code, the address and the live operands. *)
LEMMA EncodeReads ==
  ASSUME NEW x \in Insn, NEW y, Code = BranchCode,
         y.code = x.code, y.ip = x.ip, y.cnt = x.cnt, y.ops = x.ops
  PROVE  Encode(y) = Encode(x)
<1>1. \A n : OpAt(y, n) = OpAt(x, n) BY DEF OpAt, Live
<1>2. \A n : /\ IsRegAt(y, n) = IsRegAt(x, n) /\ IsImmAt(y, n) = IsImmAt(x, n)
             /\ IsLabelAt(y, n) = IsLabelAt(x, n) /\ RegAt(y, n) = RegAt(x, n)
             /\ ValAt(y, n) = ValAt(x, n) /\ IsXAt(y, n) = IsXAt(x, n)
  BY <1>1 DEF IsRegAt, IsImmAt, IsLabelAt, RegAt, ValAt, IsXAt
<1>3. \A n, c : LabelField(y, n, c) = LabelField(x, n, c) BY <1>2 DEF LabelField
<1>4. EncodeB(y) = EncodeB(x) BY <1>2, <1>3 DEF EncodeB
<1>5. EncodeBCond(y) = EncodeBCond(x) BY <1>1, <1>2, <1>3 DEF EncodeBCond
<1>6. EncodeSppc(y) = EncodeSppc(x) BY <1>2 DEF EncodeSppc
<1>7. EncodeCbz(y) = EncodeCbz(x) BY <1>2, <1>3 DEF EncodeCbz
<1>8. EncodeTbz(y) = EncodeTbz(x) BY <1>2, <1>3 DEF EncodeTbz
<1>9. EncodeCmpbr(y) = EncodeCmpbr(x)
  <2>1. ASSUME NEW f PROVE EncodeCbReg(y, f) = EncodeCbReg(x, f)
    <3>1. /\ IsRegAt(y, 0) = IsRegAt(x, 0) /\ IsXAt(y, 0) = IsXAt(x, 0)
          /\ IsXAt(y, 1) = IsXAt(x, 1)
          /\ RegAt(y, 0) = RegAt(x, 0) /\ RegAt(y, 1) = RegAt(x, 1)
      BY <1>2
    <3>2. (IF y.code[1] = "Cb" /\ IsXAt(y, 0) THEN 1 ELSE 0)
            = (IF x.code[1] = "Cb" /\ IsXAt(x, 0) THEN 1 ELSE 0)
      BY <3>1
    <3>3. (/\ HasReg(y.code) /\ IsRegAt(y, 0)
           /\ y.code[1] = "Cb" \/ ~(IsXAt(y, 0) \/ IsXAt(y, 1)))
            = (/\ HasReg(x.code) /\ IsRegAt(x, 0)
               /\ x.code[1] = "Cb" \/ ~(IsXAt(x, 0) \/ IsXAt(x, 1)))
      BY <3>1
    <3> QED BY <3>1, <3>2, <3>3, Zenon DEF EncodeCbReg
  <2>2. \A f : EncodeCbImm(y, f) = EncodeCbImm(x, f) BY <1>2 DEF EncodeCbImm
  <2> QED BY <1>1, <1>2, <1>3, <2>1, <2>2 DEF EncodeCmpbr
<1>10. EncodeAdr(y) = EncodeAdr(x) BY <1>2 DEF EncodeAdr
<1>11. EncodeUdf(y) = EncodeUdf(x) BY <1>2 DEF EncodeUdf
<1> QED BY <1>4, <1>5, <1>6, <1>7, <1>8, <1>9, <1>10, <1>11 DEF Encode

(* Without a label no encoder reads the address. *)
LEMMA EncodeReadsNoAddress ==
  ASSUME NEW x \in Insn, ~HasLabel(x), NEW a, Code = BranchCode
  PROVE  Encode([x EXCEPT !.ip = a]) = Encode(x)
<1> DEFINE y == [x EXCEPT !.ip = a]
<1>1. y.code = x.code /\ y.cnt = x.cnt /\ y.ops = x.ops BY DEF Insn
<1> HIDE DEF y
<1>2. \A n : OpAt(y, n) = OpAt(x, n) BY <1>1 DEF OpAt, Live
<1>3. \A n : /\ IsRegAt(y, n) = IsRegAt(x, n) /\ IsImmAt(y, n) = IsImmAt(x, n)
             /\ RegAt(y, n) = RegAt(x, n)
             /\ ValAt(y, n) = ValAt(x, n) /\ IsXAt(y, n) = IsXAt(x, n)
  BY <1>2 DEF IsRegAt, IsImmAt, RegAt, ValAt, IsXAt
<1>4. \A n : ~IsLabelAt(x, n) /\ ~IsLabelAt(y, n)
  BY <1>2, NoneOpIsNoLabel DEF IsLabelAt, OpAt, HasLabel
<1>5. EncodeB(y) = EncodeB(x) BY <1>4 DEF EncodeB, With
<1>6. EncodeBCond(y) = EncodeBCond(x) BY <1>4 DEF EncodeBCond, With
<1>7. EncodeSppc(y) = EncodeSppc(x) BY <1>4 DEF EncodeSppc, With
<1>8. EncodeCbz(y) = EncodeCbz(x) BY <1>4 DEF EncodeCbz, With
<1>9. EncodeTbz(y) = EncodeTbz(x) BY <1>3, <1>4 DEF EncodeTbz, With
<1>10. EncodeCmpbr(y) = EncodeCmpbr(x) BY <1>4 DEF EncodeCmpbr
<1>11. EncodeAdr(y) = EncodeAdr(x) BY <1>4 DEF EncodeAdr, With
<1>12. EncodeUdf(y) = EncodeUdf(x) BY <1>3 DEF EncodeUdf
<1>13. Encode(y) = Encode(x)
  BY <1>1, <1>5, <1>6, <1>7, <1>8, <1>9, <1>10, <1>11, <1>12 DEF Encode
<1> QED BY <1>13 DEF y

(***************************************************************************)
(* Encode, then decode                                                     *)
(***************************************************************************)

AllFeatures == {"Hbc", "PauthLr", "Cmpbr"} \subseteq Features

(* The labels of d are the labels x has in the same slots. *)
SameLabels(x, d) ==
  \A i \in Slot : OpAt(d, i).kind = "Label" => OpAt(x, i) = OpAt(d, i)

(* The word w is an exact encoding of x: it is a word of a branch class, it
   names the labels of x and, where the features let it decode, the code of
   x. *)
Exact(x, w) ==
  /\ w \in BranchWord
  /\ SameLabels(x, Decode(w, x.ip))
  /\ AllFeatures => Decode(w, x.ip).code = x.code

(* An encoder that returns a word had the operands and the field it asked
   for. *)
LEMMA WithWasOk ==
  ASSUME NEW s, NEW f, NEW w, With(s, f, w).ok
  PROVE  s /\ f.ok /\ With(s, f, w).v = w
BY DEF With, Ok, Err

(* The operands an encoder accepts, typed. *)
LEMMA AcceptedOperands ==
  ASSUME BranchCodec, NEW x \in Insn, NEW n
  PROVE  /\ OpAt(x, n) \in Operands /\ ValAt(x, n) \in Addr /\ x.ip \in Addr
         /\ RegAt(x, n) \in RegNum
         /\ IsLabelAt(x, n) => OpAt(x, n) = LabelOp(ValAt(x, n))
         /\ OpAt(x, n).kind = "Cond" => ValAt(x, n) \in Cond4
<1>1. OpAt(x, n) \in Operands /\ x.ip \in Addr
  BY NoneOpTyped DEF OpAt, Live, Insn
<1>2. /\ OpAt(x, n) \in [kind : Kinds, reg : Reg, idx : Reg, val : Addr, dec : Dec]
      /\ WellFormed(OpAt(x, n))
  BY <1>1 DEF Operands
<1>3. IsLabelAt(x, n) => OpAt(x, n) = LabelOp(ValAt(x, n))
  <2> DEFINE o == OpAt(x, n)
  <2>1. o.kind = "Label" => o.reg = NoReg /\ o.idx = NoReg /\ o.dec = NoDec
    BY <1>2, KindsAre DEF WellFormed
  <2> HIDE DEF o
  <2>2. o \in [kind : Kinds, reg : Reg, idx : Reg, val : Addr, dec : Dec] BY <1>2 DEF o
  <2>3. o.kind = "Label" => o = LabelOp(o.val) BY <2>1, <2>2 DEF LabelOp, Op
  <2> QED BY <2>3 DEF o, IsLabelAt, ValAt
<1> QED BY <1>1, <1>2, <1>3 DEF ValAt, RegAt, BranchCodec, WellFormed

(* A decoded instruction has its code, and its only label is the last
   operand. *)
LEMMA LastIsLabel1 ==
  ASSUME NEW w, NEW a, NEW c, NEW t, NEW x, OpAt(x, 0) = LabelOp(t)
  PROVE  LET d == Made(w, a, c, <<LabelOp(t)>>) IN d.code = c /\ SameLabels(x, d)
<1> DEFINE d == Made(w, a, c, <<LabelOp(t)>>)
<1>1. d.code = c BY Built1 DEF Made
<1>2. ASSUME NEW i \in Slot PROVE OpAt(d, i) = IF i = 0 THEN LabelOp(t) ELSE NoneOp
  <2>1. i \in Nat /\ MAX_OPERANDS \in Nat /\ MAX_OPERANDS >= 3
    BY FieldsAssumption DEF Slot
  <2> QED BY <2>1, FieldsAssumption DEF Made, Built, NewInvalid, Filled, OpAt, Live, Slot
<1> HIDE DEF d
<1> QED BY <1>1, <1>2, NoneOpIsNoLabel DEF SameLabels, d

LEMMA LastIsLabel2 ==
  ASSUME NEW w, NEW a, NEW c, NEW t, NEW x, NEW o, o.kind # "Label",
         OpAt(x, 1) = LabelOp(t)
  PROVE  LET d == Made(w, a, c, <<o, LabelOp(t)>>) IN d.code = c /\ SameLabels(x, d)
<1> DEFINE d == Made(w, a, c, <<o, LabelOp(t)>>)
<1>1. d.code = c BY Built2 DEF Made
<1>2. ASSUME NEW i \in Slot
      PROVE  OpAt(d, i) = IF i = 0 THEN o ELSE IF i = 1 THEN LabelOp(t) ELSE NoneOp
  <2>1. i \in Nat /\ MAX_OPERANDS \in Nat /\ MAX_OPERANDS >= 3
    BY FieldsAssumption DEF Slot
  <2> QED BY <2>1, FieldsAssumption DEF Made, Built, NewInvalid, Filled, OpAt, Live, Slot
<1> HIDE DEF d
<1> QED BY <1>1, <1>2, NoneOpIsNoLabel DEF SameLabels, d

LEMMA LastIsLabel3 ==
  ASSUME NEW w, NEW a, NEW c, NEW t, NEW x, NEW o, o.kind # "Label",
         NEW p, p.kind # "Label", OpAt(x, 2) = LabelOp(t)
  PROVE  LET d == Made(w, a, c, <<o, p, LabelOp(t)>>) IN d.code = c /\ SameLabels(x, d)
<1> DEFINE d == Made(w, a, c, <<o, p, LabelOp(t)>>)
<1>1. d.code = c BY Built3 DEF Made
<1>2. ASSUME NEW i \in Slot
      PROVE  OpAt(d, i) = IF i = 0 THEN o ELSE IF i = 1 THEN p
                          ELSE IF i = 2 THEN LabelOp(t) ELSE NoneOp
  <2>1. i \in Nat /\ MAX_OPERANDS \in Nat /\ MAX_OPERANDS >= 3
    BY FieldsAssumption DEF Slot
  <2> QED BY <2>1, FieldsAssumption DEF Made, Built, NewInvalid, Filled, OpAt, Live, Slot
<1> HIDE DEF d
<1> QED BY <1>1, <1>2, NoneOpIsNoLabel DEF SameLabels, d

(* An unallocated word has no label. *)
LEMMA InvalidHasNoLabel ==
  ASSUME NEW w, NEW a, NEW x PROVE SameLabels(x, NewInvalid(w, a))
<1>1. Live(NewInvalid(w, a)) = {}
  BY FieldsAssumption DEF Live, NewInvalid, Slot
<1> QED BY <1>1, NoneOpIsNoLabel DEF OpAt, SameLabels

(* What makes a word exact. *)
LEMMA ShowsExact ==
  ASSUME NEW x, NEW w \in BranchWord, NEW d, d.code = x.code, SameLabels(x, d),
         Decode(w, x.ip) \in {d, NewInvalid(w, x.ip)}, AllFeatures => Decode(w, x.ip) = d
  PROVE  Exact(x, w)
<1>1. CASE Decode(w, x.ip) = d BY <1>1 DEF Exact
<1>2. CASE Decode(w, x.ip) = NewInvalid(w, x.ip) BY <1>2, InvalidHasNoLabel DEF Exact
<1> QED BY <1>1, <1>2

(* The operands of the decoders that are not labels. *)
LEMMA OtherKinds ==
  /\ \A sf, n : Gp(sf, n).kind # "Label"
  /\ \A v : ImmOp(v).kind # "Label" /\ CondOp(v).kind # "Label"
BY DEF Gp, RegOp, ImmOp, CondOp, Op

(* B and BL encode exactly. *)
LEMMA ExactB ==
  ASSUME BranchCodec, NEW x \in Insn, x.code \in {<<"B", "uncond">>, <<"Bl">>},
         EncodeB(x).ok
  PROVE  Exact(x, EncodeB(x).v)
<1> DEFINE f == LabelField(x, 0, C26)
           flag == IF x.code = <<"Bl">> THEN 1 ELSE 0
           w == [class |-> "b", op |-> flag, imm |-> f.v]
           t == ValAt(x, 0)
<1>1. EncodeB(x) = With(IsLabelAt(x, 0), f, w) BY DEF EncodeB
<1>2. flag \in {0, 1} /\ (IF flag = 1 THEN <<"Bl">> ELSE <<"B", "uncond">>) = x.code OBVIOUS
<1> HIDE DEF flag, w
<1>3. IsLabelAt(x, 0) /\ f.ok /\ EncodeB(x).v = w BY <1>1, WithWasOk
<1>4. OpAt(x, 0) = LabelOp(t) /\ t \in Addr /\ x.ip \in Addr BY <1>3, AcceptedOperands
<1>5. f.v \in 0..(C26 - 1) /\ RelTarget(f.v, x.ip, C26, Granule) = t
  BY <1>3, <1>4, Widths, TargetOfRelImm DEF LabelField
<1> HIDE DEF f, t
<1>6. w \in BWord /\ w.class = "b" /\ w.op = flag /\ w.imm = f.v
  BY <1>2, <1>5 DEF w, BWord, Bit
<1> DEFINE d == Made(w, x.ip, x.code, <<LabelOp(t)>>)
<1>7. Decode(w, x.ip) = d
  <2>1. Decode(w, x.ip) = DecodeB(w, x.ip) BY <1>6 DEF Decode
  <2> QED BY <1>2, <1>5, <1>6, <2>1 DEF DecodeB
<1>8. w \in BranchWord BY <1>6 DEF BranchWord
<1>9. d.code = x.code /\ SameLabels(x, d) BY <1>4, LastIsLabel1
<1> HIDE DEF d
<1> QED BY <1>3, <1>7, <1>8, <1>9, ShowsExact

(* B.cond and BC.cond encode exactly. *)
LEMMA ExactBCond ==
  ASSUME BranchCodec, NEW x \in Insn, x.code \in {<<"B", "cond">>, <<"Bc">>},
         EncodeBCond(x).ok
  PROVE  Exact(x, EncodeBCond(x).v)
<1> DEFINE f == LabelField(x, 1, C19)
           o0 == IF x.code = <<"Bc">> THEN 1 ELSE 0
           w == [class |-> "bcond", o0 |-> o0, cond |-> ValAt(x, 0), imm |-> f.v]
           t == ValAt(x, 1)
           shape == OpAt(x, 0).kind = "Cond" /\ IsLabelAt(x, 1)
<1>1. EncodeBCond(x) = With(shape, f, w) BY DEF EncodeBCond
<1>2. o0 \in {0, 1} /\ (IF o0 = 1 THEN <<"Bc">> ELSE <<"B", "cond">>) = x.code OBVIOUS
<1> HIDE DEF o0, w, shape
<1>3a. shape /\ f.ok /\ EncodeBCond(x).v = w BY <1>1, WithWasOk
<1>3. OpAt(x, 0).kind = "Cond" /\ IsLabelAt(x, 1) /\ f.ok /\ EncodeBCond(x).v = w
  BY <1>3a DEF shape
<1>4. /\ OpAt(x, 1) = LabelOp(t) /\ t \in Addr /\ x.ip \in Addr
      /\ ValAt(x, 0) \in Cond4
  BY <1>3, AcceptedOperands
<1>5. f.v \in 0..(C19 - 1) /\ RelTarget(f.v, x.ip, C19, Granule) = t
  BY <1>3, <1>4, Widths, TargetOfRelImm DEF LabelField
<1> HIDE DEF f, t
<1>6. /\ w \in BCondWord /\ w.class = "bcond" /\ w.o0 = o0 /\ w.imm = f.v
      /\ w.cond = ValAt(x, 0)
  BY <1>2, <1>4, <1>5 DEF w, BCondWord, Bit
<1> DEFINE d == Made(w, x.ip, x.code, <<CondOp(ValAt(x, 0)), LabelOp(t)>>)
<1>7. Decode(w, x.ip) \in {d, NewInvalid(w, x.ip)} /\ (AllFeatures => Decode(w, x.ip) = d)
  <2>1. Decode(w, x.ip) = DecodeBCond(w, x.ip) BY <1>6 DEF Decode
  <2> QED BY <1>2, <1>5, <1>6, <2>1 DEF DecodeBCond, AllFeatures
<1>8. w \in BranchWord BY <1>6 DEF BranchWord
<1>9. d.code = x.code /\ SameLabels(x, d) BY <1>4, LastIsLabel2, OtherKinds
<1> HIDE DEF d
<1> QED BY <1>3, <1>7, <1>8, <1>9, ShowsExact

(* RET*SPPC and AUTI*SPPC encode exactly. *)
LEMMA ExactSppc ==
  ASSUME BranchCodec, NEW x \in Insn, x.code \in {"RetSppc", "AutiSppc"} \X {"a", "b"},
         EncodeSppc(x).ok
  PROVE  Exact(x, EncodeSppc(x).v)
<1> DEFINE f == SppcImm(ValAt(x, 0), x.ip, C16, Granule)
           k == IF x.code[1] = "RetSppc" THEN "retsppc" ELSE "autisppc"
           m == IF x.code[2] = "b" THEN 1 ELSE 0
           w == [class |-> k, m |-> m, imm |-> f.v]
           t == ValAt(x, 0)
<1>1. EncodeSppc(x) = With(IsLabelAt(x, 0), f, w) BY DEF EncodeSppc
<1>2. /\ k \in {"retsppc", "autisppc"} /\ m \in {0, 1}
      /\ <<IF k = "retsppc" THEN "RetSppc" ELSE "AutiSppc", IF m = 1 THEN "b" ELSE "a">> = x.code
  OBVIOUS
<1> HIDE DEF k, m, w
<1>3. IsLabelAt(x, 0) /\ f.ok /\ EncodeSppc(x).v = w BY <1>1, WithWasOk
<1>4. OpAt(x, 0) = LabelOp(t) /\ t \in Addr /\ x.ip \in Addr BY <1>3, AcceptedOperands
<1>5. f.v \in 0..(C16 - 1) /\ SppcTarget(f.v, x.ip, Granule) = t
  BY <1>3, <1>4, Widths, SppcInverse
<1> HIDE DEF f, t
<1>6. w \in SppcWord /\ w.class = k /\ w.m = m /\ w.imm = f.v
  BY <1>2, <1>5 DEF w, SppcWord, Bit
<1> DEFINE d == Made(w, x.ip, x.code, <<LabelOp(t)>>)
<1>7. Decode(w, x.ip) \in {d, NewInvalid(w, x.ip)} /\ (AllFeatures => Decode(w, x.ip) = d)
  <2>1. Decode(w, x.ip) = DecodeSppc(w, x.ip) BY <1>2, <1>6 DEF Decode
  <2> QED BY <1>2, <1>5, <1>6, <2>1 DEF DecodeSppc, AllFeatures
<1>8. w \in BranchWord BY <1>6 DEF BranchWord
<1>9. d.code = x.code /\ SameLabels(x, d) BY <1>4, LastIsLabel1
<1> HIDE DEF d
<1> QED BY <1>3, <1>7, <1>8, <1>9, ShowsExact

(* CBZ and CBNZ encode exactly. *)
LEMMA ExactCbz ==
  ASSUME BranchCodec, NEW x \in Insn, x.code \in {"Cbz", "Cbnz"} \X {"32", "64"},
         EncodeCbz(x).ok
  PROVE  Exact(x, EncodeCbz(x).v)
<1> DEFINE f == LabelField(x, 1, C19)
           sf == IF x.code[2] = "64" THEN 1 ELSE 0
           flag == IF x.code[1] = "Cbnz" THEN 1 ELSE 0
           w == [class |-> "cbz", sf |-> sf, op |-> flag, rt |-> RegAt(x, 0), imm |-> f.v]
           t == ValAt(x, 1)
           shape == IsRegAt(x, 0) /\ IsLabelAt(x, 1)
<1>1. EncodeCbz(x) = With(shape, f, w) BY DEF EncodeCbz
<1>2. /\ sf \in {0, 1} /\ flag \in {0, 1}
      /\ <<IF flag = 1 THEN "Cbnz" ELSE "Cbz", IF sf = 1 THEN "64" ELSE "32">> = x.code
  OBVIOUS
<1> HIDE DEF sf, flag, w, shape
<1>3a. shape /\ f.ok /\ EncodeCbz(x).v = w BY <1>1, WithWasOk
<1>3. IsLabelAt(x, 1) /\ f.ok /\ EncodeCbz(x).v = w BY <1>3a DEF shape
<1>4. /\ OpAt(x, 1) = LabelOp(t) /\ t \in Addr /\ x.ip \in Addr
      /\ RegAt(x, 0) \in RegNum
  BY <1>3, AcceptedOperands
<1>5. f.v \in 0..(C19 - 1) /\ RelTarget(f.v, x.ip, C19, Granule) = t
  BY <1>3, <1>4, Widths, TargetOfRelImm DEF LabelField
<1> HIDE DEF f, t
<1>6. /\ w \in CbzWord /\ w.class = "cbz" /\ w.sf = sf /\ w.op = flag /\ w.imm = f.v
      /\ w.rt = RegAt(x, 0)
  BY <1>2, <1>4, <1>5 DEF w, CbzWord, Bit
<1> DEFINE d == Made(w, x.ip, x.code, <<Gp(sf, RegAt(x, 0)), LabelOp(t)>>)
<1>7. Decode(w, x.ip) = d
  <2>1. Decode(w, x.ip) = DecodeCbz(w, x.ip) BY <1>6 DEF Decode
  <2> QED BY <1>2, <1>5, <1>6, <2>1 DEF DecodeCbz
<1>8. w \in BranchWord BY <1>6 DEF BranchWord
<1>9. d.code = x.code /\ SameLabels(x, d) BY <1>4, LastIsLabel2, OtherKinds
<1> HIDE DEF d
<1> QED BY <1>3, <1>7, <1>8, <1>9, ShowsExact

(* TBZ and TBNZ encode exactly. *)
LEMMA ExactTbz ==
  ASSUME BranchCodec, NEW x \in Insn, x.code \in {<<"Tbz">>, <<"Tbnz">>},
         EncodeTbz(x).ok
  PROVE  Exact(x, EncodeTbz(x).v)
<1> DEFINE pos == ValAt(x, 1) % U32
           f == LabelField(x, 2, C14)
           flag == IF x.code = <<"Tbnz">> THEN 1 ELSE 0
           w == [class |-> "tbz", b5 |-> pos \div C5, b40 |-> pos % C5, op |-> flag,
                 rt |-> RegAt(x, 0), imm |-> f.v]
           t == ValAt(x, 2)
           regs == IsRegAt(x, 0) /\ IsImmAt(x, 1)
           shape == IsRegAt(x, 0) /\ IsImmAt(x, 1) /\ IsLabelAt(x, 2)
<1>1. EncodeTbz(x) = IF regs /\ pos >= 2 * C5 THEN Err("InvalidImmediate") ELSE With(shape, f, w)
  BY DEF EncodeTbz
<1>2. flag \in {0, 1} /\ <<IF flag = 1 THEN "Tbnz" ELSE "Tbz">> = x.code OBVIOUS
<1>3. shape => regs /\ IsLabelAt(x, 2) OBVIOUS
<1>4. pos \in Nat
  BY AcceptedOperands, FieldsAssumption DEF Addr
<1> HIDE DEF flag, w, regs, shape, pos
<1>5. ~(regs /\ pos >= 2 * C5)
  BY <1>1 DEF Err
<1>6. shape /\ f.ok /\ EncodeTbz(x).v = w BY <1>1, <1>5, WithWasOk
<1>7. pos \div C5 \in {0, 1} /\ pos % C5 \in 0..(C5 - 1)
  <2>1. C5 \in Nat \ {0} /\ pos \in 0..(2 * C5 - 1)
    BY <1>3, <1>4, <1>5, <1>6, FieldsAssumption
  <2>2. CASE pos < C5 BY <2>1, <2>2
  <2>3. CASE pos >= C5
    <3>1. pos - C5 \in 0..(C5 - 1) BY <2>1, <2>3
    <3>2. pos = 1 * C5 + (pos - C5) BY <2>1
    <3>3. pos \div C5 = 1 /\ pos % C5 = pos - C5 BY <2>1, <3>1, <3>2
    <3> QED BY <3>1, <3>3
  <2> QED BY <2>1, <2>2, <2>3
<1>8. /\ OpAt(x, 2) = LabelOp(t) /\ t \in Addr /\ x.ip \in Addr
      /\ RegAt(x, 0) \in RegNum
  BY <1>3, <1>6, AcceptedOperands
<1>9. f.v \in 0..(C14 - 1) /\ RelTarget(f.v, x.ip, C14, Granule) = t
  BY <1>6, <1>8, Widths, TargetOfRelImm DEF LabelField
<1> HIDE DEF f, t
<1>10. /\ w \in TbzWord /\ w.class = "tbz" /\ w.op = flag /\ w.imm = f.v
  BY <1>2, <1>7, <1>8, <1>9 DEF w, TbzWord, Bit
<1> DEFINE o == Gp(w.b5, w.rt)
           p == ImmOp(w.b5 * C5 + w.b40)
           d == Made(w, x.ip, x.code, <<o, p, LabelOp(t)>>)
<1>11. o.kind # "Label" /\ p.kind # "Label" BY OtherKinds
<1>12. Decode(w, x.ip) = d
  <2>1. Decode(w, x.ip) = DecodeTbz(w, x.ip) BY <1>10 DEF Decode
  <2> QED BY <1>2, <1>9, <1>10, <2>1 DEF DecodeTbz
<1>13. w \in BranchWord BY <1>10 DEF BranchWord
<1> HIDE DEF o, p
<1>14. d.code = x.code /\ SameLabels(x, d) BY <1>8, <1>11, LastIsLabel3
<1> HIDE DEF d
<1> QED BY <1>6, <1>12, <1>13, <1>14, ShowsExact

(* The position of a name in a table. *)
LEMMA IndexFinds ==
  /\ \A c \in {"Cb", "Cbb", "Cbh"}, k \in {"gt", "ge", "lt", "hi", "hs", "lo", "eq", "ne"} :
       HasReg(<<c, k>>) => /\ IndexOf(RegCc, k) \in 0..7
                           /\ RegCc[IndexOf(RegCc, k) + 1] = k
  /\ \A c \in {"Cb", "Cbb", "Cbh"}, k \in {"gt", "ge", "lt", "hi", "hs", "lo", "eq", "ne"} :
       HasImm(<<c, k>>) => /\ c = "Cb" /\ IndexOf(ImmCc, k) \in 0..7
                           /\ ImmCc[IndexOf(ImmCc, k) + 1] = k
  /\ \A c \in {"Cb", "Cbb", "Cbh"} :
       /\ IndexOf(CbFamily, c) \in 0..3 /\ CbFamily[IndexOf(CbFamily, c) + 1] = c
       /\ c = "Cb" => IndexOf(CbFamily, c) = 0
<1>1. DOMAIN RegCc = 1..8 /\ DOMAIN ImmCc = 1..8 /\ DOMAIN CbFamily = 1..4
  BY DEF RegCc, ImmCc, CbFamily
<1>2. ASSUME NEW table \in {RegCc, ImmCc, CbFamily}, NEW k, \E i \in DOMAIN table : table[i] = k
      PROVE  /\ IndexOf(table, k) \in Int /\ IndexOf(table, k) + 1 \in DOMAIN table
             /\ table[IndexOf(table, k) + 1] = k
  <2> DEFINE i == CHOOSE i \in DOMAIN table : table[i] = k
  <2>1. i \in DOMAIN table /\ table[i] = k BY <1>2
  <2>2. IndexOf(table, k) = i - 1 BY DEF IndexOf
  <2>3. DOMAIN table \subseteq Int BY <1>1
  <2> HIDE DEF i
  <2>4. i - 1 \in Int /\ (i - 1) + 1 = i BY <2>1, <2>3
  <2> QED BY <2>1, <2>2, <2>4
<1>3. ASSUME NEW c, NEW k, HasReg(<<c, k>>)
      PROVE  IndexOf(RegCc, k) \in 0..7 /\ RegCc[IndexOf(RegCc, k) + 1] = k
  <2>1. \E i \in DOMAIN RegCc : RegCc[i] = k BY <1>3 DEF HasReg
  <2>2. IndexOf(RegCc, k) \in Int /\ IndexOf(RegCc, k) + 1 \in 1..8 BY <1>1, <1>2, <2>1
  <2> QED BY <1>2, <2>1, <2>2
<1>4. ASSUME NEW c, NEW k, HasImm(<<c, k>>)
      PROVE  c = "Cb" /\ IndexOf(ImmCc, k) \in 0..7 /\ ImmCc[IndexOf(ImmCc, k) + 1] = k
  <2>1. c = "Cb" /\ \E i \in DOMAIN ImmCc : ImmCc[i] = k BY <1>4 DEF HasImm
  <2>2. IndexOf(ImmCc, k) \in Int /\ IndexOf(ImmCc, k) + 1 \in 1..8 BY <1>1, <1>2, <2>1
  <2> QED BY <1>2, <2>1, <2>2
<1>5. CbFamily[1] = "Cb" /\ CbFamily[2] = "none" /\ CbFamily[3] = "Cbb" /\ CbFamily[4] = "Cbh"
  BY DEF CbFamily
<1>6. ASSUME NEW c \in {"Cb", "Cbb", "Cbh"}
      PROVE  /\ IndexOf(CbFamily, c) \in 0..3 /\ CbFamily[IndexOf(CbFamily, c) + 1] = c
             /\ c = "Cb" => IndexOf(CbFamily, c) = 0
  <2>1. \E i \in DOMAIN CbFamily : CbFamily[i] = c BY <1>1, <1>5
  <2>2. /\ IndexOf(CbFamily, c) \in Int /\ IndexOf(CbFamily, c) + 1 \in 1..4
        /\ CbFamily[IndexOf(CbFamily, c) + 1] = c
    BY <1>1, <1>2, <2>1
  <2> QED BY <1>5, <2>2
<1> QED BY <1>3, <1>4, <1>6

(* The register form of compare-and-branch encodes exactly. *)
LEMMA ExactCbReg ==
  ASSUME BranchCodec, NEW x \in Insn,
         x.code \in {"Cb", "Cbb", "Cbh"} \X {"gt", "ge", "lt", "hi", "hs", "lo", "eq", "ne"},
         IsLabelAt(x, 2), LabelField(x, 2, C9).ok, EncodeCbReg(x, LabelField(x, 2, C9)).ok
  PROVE  Exact(x, EncodeCbReg(x, LabelField(x, 2, C9)).v)
<1> DEFINE f == LabelField(x, 2, C9)
           word == x.code[1] = "Cb"
           sf == IF word /\ IsXAt(x, 0) THEN 1 ELSE 0
           cc == IndexOf(RegCc, x.code[2])
           n == IndexOf(CbFamily, x.code[1])
           shape == /\ HasReg(x.code) /\ IsRegAt(x, 0)
                    /\ word \/ ~(IsXAt(x, 0) \/ IsXAt(x, 1))
           w == [class |-> "cbreg", sf |-> sf, cc |-> cc, size |-> n,
                 rm |-> RegAt(x, 1), rt |-> RegAt(x, 0), imm |-> f.v]
           t == ValAt(x, 2)
<1>1. EncodeCbReg(x, f) = With(shape, f, w) BY DEF EncodeCbReg
<1>2. sf \in {0, 1} /\ (sf = 1 => x.code[1] = "Cb") OBVIOUS
<1>3. shape => HasReg(x.code) OBVIOUS
<1>4. PICK g \in {"Cb", "Cbb", "Cbh"}, k \in {"gt", "ge", "lt", "hi", "hs", "lo", "eq", "ne"} :
        x.code = <<g, k>>
  OBVIOUS
<1>5. x.code[1] = g /\ x.code[2] = k BY <1>4
<1> HIDE DEF sf, word, shape, w
<1>6. shape /\ f.ok /\ EncodeCbReg(x, f).v = w BY <1>1, WithWasOk
<1>7. cc \in 0..7 /\ RegCc[cc + 1] = k BY <1>3, <1>4, <1>5, <1>6, IndexFinds
<1>8. n \in 0..3 /\ CbFamily[n + 1] = g /\ (sf = 1 => n = 0) BY <1>2, <1>5, IndexFinds
<1>9. /\ OpAt(x, 2) = LabelOp(t) /\ t \in Addr /\ x.ip \in Addr
      /\ RegAt(x, 0) \in RegNum /\ RegAt(x, 1) \in RegNum
  BY AcceptedOperands
<1>10. f.v \in 0..(C9 - 1) /\ RelTarget(f.v, x.ip, C9, Granule) = t
  BY <1>6, <1>9, Widths, TargetOfRelImm DEF LabelField
<1> HIDE DEF f, t, cc, n
<1>11. /\ w \in CbRegWord /\ w.class = "cbreg" /\ w.sf = sf /\ w.cc = cc /\ w.size = n
       /\ w.imm = f.v
  BY <1>2, <1>7, <1>8, <1>9, <1>10 DEF w, CbRegWord, Bit
<1> DEFINE o == Gp(w.sf, w.rt)
           p == Gp(w.sf, w.rm)
           d == Made(w, x.ip, <<g, k>>, <<o, p, LabelOp(t)>>)
           refused == \/ "Cmpbr" \notin Features
                      \/ RegCc[w.cc + 1] = "none" \/ CbFamily[w.size + 1] = "none"
                      \/ w.size # 0 /\ w.sf = 1
<1>12. Decode(w, x.ip) = IF refused THEN NewInvalid(w, x.ip) ELSE d
  <2>1. Decode(w, x.ip) = DecodeCbReg(w, x.ip) BY <1>11 DEF Decode
  <2>2. DecodeCbReg(w, x.ip) = IF refused THEN NewInvalid(w, x.ip) ELSE
            Made(w, x.ip, <<CbFamily[w.size + 1], RegCc[w.cc + 1]>>,
                 <<o, p, LabelOp(RelTarget(w.imm, x.ip, C9, Granule))>>)
    BY DEF DecodeCbReg
  <2> HIDE DEF refused, o, p
  <2> QED BY <1>7, <1>8, <1>10, <1>11, <2>1, <2>2
<1>13. AllFeatures => ~refused BY <1>7, <1>8, <1>11 DEF AllFeatures
<1>14. o.kind # "Label" /\ p.kind # "Label" BY OtherKinds
<1>15. w \in BranchWord BY <1>11 DEF BranchWord
<1> HIDE DEF o, p, refused
<1>16. d.code = x.code /\ SameLabels(x, d) BY <1>4, <1>9, <1>14, LastIsLabel3
<1> HIDE DEF d
<1>17. Exact(x, w) BY <1>12, <1>13, <1>15, <1>16, ShowsExact
<1> QED BY <1>6, <1>17 DEF f

(* The immediate form. *)
LEMMA ExactCbImm ==
  ASSUME BranchCodec, NEW x \in Insn,
         x.code \in {"Cb", "Cbb", "Cbh"} \X {"gt", "ge", "lt", "hi", "hs", "lo", "eq", "ne"},
         IsLabelAt(x, 2), LabelField(x, 2, C9).ok, EncodeCbImm(x, LabelField(x, 2, C9)).ok
  PROVE  Exact(x, EncodeCbImm(x, LabelField(x, 2, C9)).v)
<1> DEFINE f == LabelField(x, 2, C9)
           h == IF ValAt(x, 1) < C6 THEN f ELSE Err("InvalidImmediate")
           sf == IF IsXAt(x, 0) THEN 1 ELSE 0
           cc == IndexOf(ImmCc, x.code[2])
           shape == HasImm(x.code) /\ IsRegAt(x, 0)
           w == [class |-> "cbimm", sf |-> sf, cc |-> cc, b14 |-> 0,
                 imm6 |-> ValAt(x, 1), rt |-> RegAt(x, 0), imm |-> f.v]
           t == ValAt(x, 2)
<1>1. EncodeCbImm(x, f) = With(shape, h, w) BY DEF EncodeCbImm
<1>2. sf \in {0, 1} OBVIOUS
<1>3. shape => HasImm(x.code) OBVIOUS
<1>4. PICK g \in {"Cb", "Cbb", "Cbh"}, k \in {"gt", "ge", "lt", "hi", "hs", "lo", "eq", "ne"} :
        x.code = <<g, k>>
  OBVIOUS
<1>5. x.code[1] = g /\ x.code[2] = k BY <1>4
<1>6. h.ok => f.ok /\ ValAt(x, 1) < C6 BY DEF Err
<1> HIDE DEF sf, shape, w, h
<1>7. shape /\ h.ok /\ EncodeCbImm(x, f).v = w BY <1>1, WithWasOk
<1>8. g = "Cb" /\ cc \in 0..7 /\ ImmCc[cc + 1] = k BY <1>3, <1>4, <1>5, <1>7, IndexFinds
<1>9. /\ OpAt(x, 2) = LabelOp(t) /\ t \in Addr /\ x.ip \in Addr
      /\ RegAt(x, 0) \in RegNum
  BY AcceptedOperands
<1>10. ValAt(x, 1) \in 0..(C6 - 1)
  <2>1. ValAt(x, 1) \in Nat BY AcceptedOperands, FieldsAssumption DEF Addr
  <2> QED BY <1>6, <1>7, <2>1, FieldsAssumption
<1>11. f.v \in 0..(C9 - 1) /\ RelTarget(f.v, x.ip, C9, Granule) = t
  BY <1>6, <1>7, <1>9, Widths, TargetOfRelImm DEF LabelField
<1> HIDE DEF f, t, cc
<1>12. /\ w \in CbImmWord /\ w.class = "cbimm" /\ w.sf = sf /\ w.cc = cc /\ w.b14 = 0
       /\ w.imm = f.v
  BY <1>2, <1>8, <1>9, <1>10, <1>11 DEF w, CbImmWord, Bit
<1> DEFINE o == Gp(w.sf, w.rt)
           p == ImmOp(w.imm6)
           d == Made(w, x.ip, <<"Cb", k>>, <<o, p, LabelOp(t)>>)
           refused == "Cmpbr" \notin Features \/ w.b14 = 1 \/ ImmCc[w.cc + 1] = "none"
<1>13. Decode(w, x.ip) = IF refused THEN NewInvalid(w, x.ip) ELSE d
  <2>1. Decode(w, x.ip) = DecodeCbImm(w, x.ip) BY <1>12 DEF Decode
  <2>2. DecodeCbImm(w, x.ip) = IF refused THEN NewInvalid(w, x.ip) ELSE
            Made(w, x.ip, <<"Cb", ImmCc[w.cc + 1]>>,
                 <<o, p, LabelOp(RelTarget(w.imm, x.ip, C9, Granule))>>)
    BY DEF DecodeCbImm
  <2> HIDE DEF refused, o, p
  <2> QED BY <1>8, <1>11, <1>12, <2>1, <2>2
<1>14. AllFeatures => ~refused BY <1>8, <1>12 DEF AllFeatures
<1>15. o.kind # "Label" /\ p.kind # "Label" BY OtherKinds
<1>16. w \in BranchWord BY <1>12 DEF BranchWord
<1> HIDE DEF o, p, refused
<1>17. d.code = x.code /\ SameLabels(x, d) BY <1>4, <1>8, <1>9, <1>15, LastIsLabel3
<1> HIDE DEF d
<1>18. Exact(x, w) BY <1>13, <1>14, <1>16, <1>17, ShowsExact
<1> QED BY <1>7, <1>18 DEF f

(* Compare-and-branch encodes exactly. *)
LEMMA ExactCmpbr ==
  ASSUME BranchCodec, NEW x \in Insn,
         x.code \in {"Cb", "Cbb", "Cbh"} \X {"gt", "ge", "lt", "hi", "hs", "lo", "eq", "ne"},
         EncodeCmpbr(x).ok
  PROVE  Exact(x, EncodeCmpbr(x).v)
<1> DEFINE f == LabelField(x, 2, C9)
<1>1. EncodeCmpbr(x) = IF ~IsLabelAt(x, 2) THEN Err("InvalidOperand")
                       ELSE IF ~f.ok THEN f
                       ELSE IF IsRegAt(x, 1) THEN EncodeCbReg(x, f)
                       ELSE IF IsImmAt(x, 1) /\ OpAt(x, 1).kind # "ShiftAmount"
                            THEN EncodeCbImm(x, f)
                       ELSE Err("InvalidOperand")
  BY DEF EncodeCmpbr
<1>2. ~Err("InvalidOperand").ok BY DEF Err
<1>3. IsLabelAt(x, 2) /\ f.ok BY <1>1, <1>2
<1>4. EncodeCmpbr(x) = EncodeCbReg(x, f) \/ EncodeCmpbr(x) = EncodeCbImm(x, f)
  BY <1>1, <1>2
<1> QED BY <1>3, <1>4, ExactCbReg, ExactCbImm

(* ADR and ADRP encode exactly. *)
LEMMA ExactAdr ==
  ASSUME BranchCodec, NEW x \in Insn, x.code \in {<<"Adr">>, <<"Adrp">>}, EncodeAdr(x).ok
  PROVE  Exact(x, EncodeAdr(x).v)
<1> DEFINE page == x.code = <<"Adrp">>
           t == ValAt(x, 1)
           f == IF page THEN AdrpImm(t, x.ip, C21, Page) ELSE RelImm(t, x.ip, C21, 1)
           flag == IF page THEN 1 ELSE 0
           w == [class |-> "adr", op |-> flag, rd |-> RegAt(x, 0), imm |-> f.v]
           shape == IsRegAt(x, 0) /\ IsLabelAt(x, 1)
<1>1. EncodeAdr(x) = With(shape, f, w) BY DEF EncodeAdr
<1>2. flag \in {0, 1} /\ <<IF flag = 1 THEN "Adrp" ELSE "Adr">> = x.code /\ (flag = 1) = page OBVIOUS
<1>3. shape => IsLabelAt(x, 1) OBVIOUS
<1> HIDE DEF flag, w, shape
<1>4. shape /\ f.ok /\ EncodeAdr(x).v = w BY <1>1, WithWasOk
<1>5. OpAt(x, 1) = LabelOp(t) /\ t \in Addr /\ x.ip \in Addr /\ RegAt(x, 0) \in RegNum
  BY <1>3, <1>4, AcceptedOperands
<1> DEFINE target == IF flag = 1 THEN AdrpTarget(f.v, x.ip, C21, Page)
                     ELSE RelTarget(f.v, x.ip, C21, 1)
<1>6. f.v \in 0..(C21 - 1) /\ target = t
  <2>1. CASE page
    <3>1. f = AdrpImm(t, x.ip, C21, 4096) /\ Page = 4096 /\ AddrMod % 4096 = 0
      BY <2>1, FieldsAssumption
    <3>2. target = AdrpTarget(f.v, x.ip, C21, 4096) BY <1>2, <2>1, <3>1
    <3> HIDE DEF f, t, target
    <3> QED BY <1>4, <1>5, <3>1, <3>2, Widths, AdrpInverse
  <2>2. CASE ~page
    <3>1. f = RelImm(t, x.ip, C21, 1) BY <2>2
    <3>2. target = RelTarget(f.v, x.ip, C21, 1) BY <1>2, <2>2
    <3> HIDE DEF f, t, target
    <3> QED BY <1>4, <1>5, <3>1, <3>2, Widths, TargetOfRelImm
  <2> QED BY <2>1, <2>2
<1> HIDE DEF f, t
<1>7. /\ w \in AdrWord /\ w.class = "adr" /\ w.op = flag /\ w.imm = f.v
  BY <1>2, <1>5, <1>6 DEF w, AdrWord, Bit
<1> DEFINE o == Gp(1, w.rd)
           d == Made(w, x.ip, x.code, <<o, LabelOp(t)>>)
<1>8. Decode(w, x.ip) = d
  <2>1. Decode(w, x.ip) = DecodeAdr(w, x.ip) BY <1>7 DEF Decode
  <2>2. DecodeAdr(w, x.ip) = Made(w, x.ip, <<IF w.op = 1 THEN "Adrp" ELSE "Adr">>,
            <<o, LabelOp(IF w.op = 1 THEN AdrpTarget(w.imm, x.ip, C21, Page)
                                     ELSE RelTarget(w.imm, x.ip, C21, 1))>>)
    BY DEF DecodeAdr
  <2> HIDE DEF o
  <2> QED BY <1>2, <1>6, <1>7, <2>1, <2>2
<1>9. w \in BranchWord BY <1>7 DEF BranchWord
<1>10. o.kind # "Label" BY OtherKinds
<1> HIDE DEF o
<1>11. d.code = x.code /\ SameLabels(x, d) BY <1>5, <1>10, LastIsLabel2
<1> HIDE DEF d
<1> QED BY <1>4, <1>8, <1>9, <1>11, ShowsExact

(* UDF has no label. *)
LEMMA ExactUdf ==
  ASSUME BranchCodec, NEW x \in Insn, x.code = <<"Udf">>, EncodeUdf(x).ok
  PROVE  Exact(x, EncodeUdf(x).v)
<1> DEFINE v == ValAt(x, 0)
           f == IF v < CUdf THEN Ok(v) ELSE Err("InvalidImmediate")
           w == [class |-> "udf", imm |-> f.v]
<1>1. EncodeUdf(x) = With(IsImmAt(x, 0), f, w) BY DEF EncodeUdf
<1>2. f.ok => f.v = v /\ v < CUdf BY DEF Ok, Err
<1>3. v \in Nat BY AcceptedOperands, FieldsAssumption DEF Addr
<1> HIDE DEF f, w
<1>4. f.ok /\ EncodeUdf(x).v = w BY <1>1, WithWasOk
<1>5. f.v \in 0..(CUdf - 1) BY <1>2, <1>3, <1>4, FieldsAssumption
<1>6. w \in UdfWord /\ w.class = "udf" /\ w.imm = f.v BY <1>5 DEF w, UdfWord
<1> DEFINE d == Made(w, x.ip, x.code, <<ImmOp(w.imm)>>)
<1>7. Decode(w, x.ip) = d
  <2>1. Decode(w, x.ip) = DecodeUdf(w, x.ip) BY <1>6 DEF Decode
  <2> QED BY <2>1 DEF DecodeUdf
<1>8. w \in BranchWord BY <1>6 DEF BranchWord
<1>9. d.code = x.code BY Built1 DEF Made
<1>10. ASSUME NEW i \in Slot PROVE OpAt(d, i) = IF i = 0 THEN ImmOp(w.imm) ELSE NoneOp
  <2>1. i \in Nat /\ MAX_OPERANDS \in Nat /\ MAX_OPERANDS >= 3
    BY FieldsAssumption DEF Slot
  <2> QED BY <2>1, FieldsAssumption DEF Made, Built, NewInvalid, Filled, OpAt, Live, Slot
<1> HIDE DEF d
<1>11. SameLabels(x, d) BY <1>10, OtherKinds, NoneOpIsNoLabel DEF SameLabels
<1> QED BY <1>4, <1>7, <1>8, <1>9, <1>11, ShowsExact

(* Whatever edit produced the instruction, a word it encodes to is exact. *)
THEOREM EncodeIsExact ==
  ASSUME BranchCodec, NEW x \in Insn, Encode(x).ok
  PROVE  Exact(x, Encode(x).v)
<1>1. x.code \in BranchCode BY DEF Insn, BranchCodec
<1>2. x.code # <<"Invalid">> BY EncodeOfCode DEF Err
<1>3. x.code \in {"Cb", "Cbb", "Cbh"} \X {"gt", "ge", "lt", "hi", "hs", "lo", "eq", "ne"}
        => Encode(x) = EncodeCmpbr(x)
  <2>1. x.code \in {"Cb", "Cbb", "Cbh"} \X {"gt", "ge", "lt", "hi", "hs", "lo", "eq", "ne"}
          => x.code[1] \in {"Cb", "Cbb", "Cbh"}
    OBVIOUS
  <2> QED BY <2>1, EncodeOfCode
<1> QED BY <1>1, <1>2, <1>3, CodeClasses, EncodeOfCode, ExactB, ExactBCond, ExactCbz, ExactTbz,
           ExactCmpbr, ExactAdr, ExactUdf, ExactSppc

(***************************************************************************)
(* The contract of the editing API                                         *)
(***************************************************************************)

(* The branch decoders and encoders are what the editing API takes them to
   be. *)
THEOREM BranchContracts ==
  ASSUME BranchCodec
  PROVE  DecodeContract /\ EncodeContract /\ RoundTripContract
<1>0. /\ Word = BranchWord /\ Code = BranchCode
      /\ \A w \in BranchWord, a \in Addr : DecodeWord(w, a) = Decode(w, a)
      /\ \A x \in Insn : EncodeInsn(x) = Encode(x)
  BY DEF BranchCodec
<1>1. DecodeContract
  BY <1>0, DecodeTyped DEF DecodeContract, Decoded
<1>2. ASSUME NEW x \in Insn, EncodeInsn(x).ok PROVE EncodeInsn(x).v \in Word
  BY <1>0, <1>2, EncodeIsExact DEF Exact
<1>3. ASSUME NEW x \in Insn, NEW w \in Word, NEW m \in BOOLEAN
      PROVE  EncodeInsn([x EXCEPT !.word = w, !.modified = m]) = EncodeInsn(x)
  <2> DEFINE y == [x EXCEPT !.word = w, !.modified = m]
  <2>1. /\ y \in Insn /\ y.code = x.code /\ y.ip = x.ip /\ y.cnt = x.cnt /\ y.ops = x.ops
    BY DEF Insn
  <2> HIDE DEF y
  <2>2. Encode(y) = Encode(x) BY <1>0, <2>1, EncodeReads
  <2>3. EncodeInsn(y) = EncodeInsn(x) BY <1>0, <2>1, <2>2
  <2> QED BY <2>3 DEF y
<1>4. ASSUME NEW x \in Insn, ~HasLabel(x), NEW a \in Addr
      PROVE  EncodeInsn([x EXCEPT !.ip = a]) = EncodeInsn(x)
  <2>1. [x EXCEPT !.ip = a] \in Insn BY DEF Insn
  <2>2. Encode([x EXCEPT !.ip = a]) = Encode(x) BY <1>0, <1>4, EncodeReadsNoAddress
  <2> QED BY <1>0, <2>1, <2>2
<1>5. EncodeContract BY <1>2, <1>3, <1>4 DEF EncodeContract
<1>6. ASSUME NEW w \in Word, NEW a \in Addr, DecodeWord(w, a).code # <<"Invalid">>
      PROVE  /\ EncodeInsn(DecodeWord(w, a)).ok
             /\ SameWord(EncodeInsn(DecodeWord(w, a)).v, w)
  <2>1. DecodeWord(w, a) = Decode(w, a) /\ Decode(w, a) \in Insn
    BY <1>0, DecodeTyped DEF Decoded
  <2>2. Encode(Decode(w, a)) = Ok(w) BY <1>0, <1>6, <2>1, DecodeThenEncode
  <2>3. EncodeInsn(DecodeWord(w, a)) = Ok(w) BY <1>0, <2>1, <2>2
  <2> QED BY <2>3, OkOk DEF SameWord
<1>7. RoundTripContract BY <1>6 DEF RoundTripContract
<1> QED BY <1>1, <1>5, <1>7

(* The theorems about the editing API hold of branches with no assumption
   about decode or encode left: word() is fresh while is_modified() is
   FALSE, a cleared slot stays clear, and the values stay typed. *)
THEOREM BranchEditsAlways ==
  ASSUME BranchCodec
  PROVE  Spec => [](TypeOK /\ SlotsBeyondCountEmpty /\ FreshWord)
<1>1. Inv => TypeOK /\ SlotsBeyondCountEmpty /\ FreshWord
  BY DEF Inv, Good, SlotsEmpty, TypeOK, SlotsBeyondCountEmpty, FreshWord
<1>2. Spec => []Inv BY BranchContracts, InstructionInvariant
<1> QED BY <1>1, <1>2, PTL

(* A label that encodes at all encodes exactly, after any edits: the word
   decodes to the target the instruction carries. *)
THEOREM LabelEncodesExactlyAlways ==
  ASSUME BranchCodec
  PROVE  Spec => []LabelEncodesExactly
<1>1. Inv => LabelEncodesExactly
  <2> SUFFICES ASSUME Inv, EncodeInsn(insn).ok
               PROVE  LET d == DecodeWord(EncodeInsn(insn).v, insn.ip)
                      IN  \A i \in Slot : OpAt(d, i).kind = "Label" =>
                            OpAt(insn, i) = OpAt(d, i)
    BY DEF LabelEncodesExactly
  <2>1. insn \in Insn /\ insn.ip \in Addr BY DEF Inv, Good, Insn
  <2>2. EncodeInsn(insn) = Encode(insn) BY <2>1 DEF BranchCodec
  <2>3. Exact(insn, Encode(insn).v) BY <2>1, <2>2, EncodeIsExact
  <2>4. DecodeWord(Encode(insn).v, insn.ip) = Decode(Encode(insn).v, insn.ip)
    BY <2>1, <2>3 DEF BranchCodec, Exact
  <2> QED BY <2>2, <2>3, <2>4 DEF Exact, SameLabels
<1>2. Spec => []Inv BY BranchContracts, InstructionInvariant
<1> QED BY <1>1, <1>2, PTL

(* With every feature enabled, as they are by default, the word encodes the
   instruction code() names, whatever operands the edits left. *)
THEOREM EncodedCodeIsKeptAlways ==
  ASSUME BranchCodec, AllFeatures
  PROVE  Spec => []EncodedCodeIsKept
<1>1. Inv => EncodedCodeIsKept
  <2> SUFFICES ASSUME Inv, EncodeInsn(insn).ok
               PROVE  DecodeWord(EncodeInsn(insn).v, insn.ip).code = insn.code
    BY DEF EncodedCodeIsKept
  <2>1. insn \in Insn /\ insn.ip \in Addr BY DEF Inv, Good, Insn
  <2>2. EncodeInsn(insn) = Encode(insn) BY <2>1 DEF BranchCodec
  <2>3. Exact(insn, Encode(insn).v) BY <2>1, <2>2, EncodeIsExact
  <2>4. DecodeWord(Encode(insn).v, insn.ip) = Decode(Encode(insn).v, insn.ip)
    BY <2>1, <2>3 DEF BranchCodec, Exact
  <2> QED BY <2>2, <2>3, <2>4 DEF Exact
<1>2. Spec => []Inv BY BranchContracts, InstructionInvariant
<1> QED BY <1>1, <1>2, PTL

(***************************************************************************)
(* Relocation                                                              *)
(***************************************************************************)

(* y is x moved to the address a, its labels with it. *)
Moved(x, y, a) ==
  /\ y.code = x.code /\ y.ip = a
  /\ \A n : /\ IsRegAt(y, n) = IsRegAt(x, n) /\ IsImmAt(y, n) = IsImmAt(x, n)
            /\ IsLabelAt(y, n) = IsLabelAt(x, n) /\ RegAt(y, n) = RegAt(x, n)
            /\ IsXAt(y, n) = IsXAt(x, n) /\ OpAt(y, n).kind = OpAt(x, n).kind
            /\ ~IsLabelAt(x, n) => ValAt(y, n) = ValAt(x, n)
            /\ IsLabelAt(x, n) => ValAt(y, n) = AddrAdd(ValAt(x, n), AddrSub(a, x.ip))

LEMMA RelocateMoves ==
  ASSUME NEW x \in Insn, NEW a \in Addr
  PROVE  Moved(x, relocate(x, a).insn, a)
<1> DEFINE y == relocate(x, a).insn
<1>1. /\ y.code = x.code /\ y.ip = a /\ y.cnt = x.cnt /\ y.ops = Relocated(x, a)
  BY DEF relocate, Edited, Done, Insn
<1> HIDE DEF y
<1>2. Live(y) = Live(x) BY <1>1 DEF Live
<1>3. ASSUME NEW n PROVE /\ OpAt(y, n).kind = OpAt(x, n).kind /\ OpAt(y, n).reg = OpAt(x, n).reg
                         /\ ~IsLabelAt(x, n) => OpAt(y, n).val = OpAt(x, n).val
                         /\ IsLabelAt(x, n) =>
                              OpAt(y, n).val = AddrAdd(OpAt(x, n).val, AddrSub(a, x.ip))
  <2>1. CASE n \notin Live(x) BY <1>2, <2>1, NoneOpIsNoLabel DEF OpAt, IsLabelAt
  <2>2. CASE n \in Live(x)
    <3>1. n \in Slot /\ n < x.cnt BY <2>2 DEF Live
    <3>2. x.ops[n] \in [kind : Kinds, reg : Reg, idx : Reg, val : Addr, dec : Dec]
      BY <3>1 DEF Insn, Operands
    <3>3. OpAt(y, n) = IF x.ops[n].kind = "Label"
                       THEN [x.ops[n] EXCEPT !.val = AddrAdd(@, AddrSub(a, x.ip))]
                       ELSE x.ops[n]
      BY <1>1, <1>2, <2>2, <3>1 DEF OpAt, Relocated
    <3>4. OpAt(x, n) = x.ops[n] BY <2>2 DEF OpAt
    <3> QED BY <3>2, <3>3, <3>4 DEF IsLabelAt
  <2> QED BY <2>1, <2>2
<1>4. Moved(x, y, a)
  BY <1>1, <1>3 DEF Moved, IsRegAt, IsImmAt, IsLabelAt, RegAt, ValAt, IsXAt
<1> QED BY <1>4 DEF y

(* A relative field depends on the distance to the label alone. *)
LEMMA FieldsKept ==
  ASSUME BranchCodec, NEW x \in Insn, NEW a \in Addr, NEW y, Moved(x, y, a), NEW n,
         IsLabelAt(x, n)
  PROVE  /\ \A card, gran : RelImm(ValAt(y, n), y.ip, card, gran)
                             = RelImm(ValAt(x, n), x.ip, card, gran)
         /\ \A card : LabelField(y, n, card) = LabelField(x, n, card)
         /\ \A card, gran : SppcImm(ValAt(y, n), y.ip, card, gran)
                             = SppcImm(ValAt(x, n), x.ip, card, gran)
<1>1. ValAt(x, n) \in Addr /\ x.ip \in Addr BY AcceptedOperands
<1>2. y.ip = a /\ ValAt(y, n) = AddrAdd(ValAt(x, n), AddrSub(a, x.ip)) BY DEF Moved
<1>3. /\ AddrSub(ValAt(y, n), a) = AddrSub(ValAt(x, n), x.ip)
      /\ AddrSub(a, ValAt(y, n)) = AddrSub(x.ip, ValAt(x, n))
  BY <1>1, <1>2, DistanceKept, SizesAssumption
<1>4. \A card, gran : RelImm(ValAt(y, n), y.ip, card, gran)
                        = RelImm(ValAt(x, n), x.ip, card, gran)
  BY <1>2, <1>3 DEF RelImm
<1>5. \A card, gran : SppcImm(ValAt(y, n), y.ip, card, gran)
                        = SppcImm(ValAt(x, n), x.ip, card, gran)
  BY <1>2, <1>3 DEF SppcImm
<1> QED BY <1>4, <1>5 DEF LabelField

(* A moved instruction with a relative label of whole granules encodes as
   before. *)
LEMMA MovedEncodes ==
  ASSUME BranchCodec, NEW x \in Insn, NEW a \in Addr, NEW y, Moved(x, y, a)
  PROVE  /\ EncodeB(y) = EncodeB(x) /\ EncodeBCond(y) = EncodeBCond(x)
         /\ EncodeSppc(y) = EncodeSppc(x) /\ EncodeCbz(y) = EncodeCbz(x)
         /\ EncodeTbz(y) = EncodeTbz(x) /\ EncodeCmpbr(y) = EncodeCmpbr(x)
         /\ EncodeUdf(y) = EncodeUdf(x)
<1>1. /\ y.code = x.code
      /\ \A n : /\ IsRegAt(y, n) = IsRegAt(x, n) /\ IsImmAt(y, n) = IsImmAt(x, n)
                /\ IsLabelAt(y, n) = IsLabelAt(x, n) /\ RegAt(y, n) = RegAt(x, n)
                /\ IsXAt(y, n) = IsXAt(x, n) /\ OpAt(y, n).kind = OpAt(x, n).kind
                /\ ~IsLabelAt(x, n) => ValAt(y, n) = ValAt(x, n)
  BY DEF Moved
<1>2. \A n : IsImmAt(x, n) \/ OpAt(x, n).kind = "Cond" => ValAt(y, n) = ValAt(x, n)
  BY <1>1 DEF IsImmAt, IsLabelAt
<1>3. ASSUME NEW n, IsLabelAt(x, n)
      PROVE  /\ \A card : LabelField(y, n, card) = LabelField(x, n, card)
             /\ \A card, gran : SppcImm(ValAt(y, n), y.ip, card, gran)
                                 = SppcImm(ValAt(x, n), x.ip, card, gran)
  BY <1>3, FieldsKept
<1>4. EncodeB(y) = EncodeB(x) BY <1>1, <1>3 DEF EncodeB, With
<1>5. EncodeBCond(y) = EncodeBCond(x)
  <2>1. CASE OpAt(x, 0).kind = "Cond" /\ IsLabelAt(x, 1)
    BY <1>1, <1>2, <1>3, <2>1 DEF EncodeBCond
  <2>2. CASE ~(OpAt(x, 0).kind = "Cond" /\ IsLabelAt(x, 1))
    BY <1>1, <2>2 DEF EncodeBCond, With
  <2> QED BY <2>1, <2>2
<1>6. EncodeSppc(y) = EncodeSppc(x) BY <1>1, <1>3 DEF EncodeSppc, With
<1>7. EncodeCbz(y) = EncodeCbz(x)
  <2>1. CASE IsLabelAt(x, 1) BY <1>1, <1>3, <2>1 DEF EncodeCbz
  <2>2. CASE ~IsLabelAt(x, 1) BY <1>1, <2>2 DEF EncodeCbz, With
  <2> QED BY <2>1, <2>2
<1>8. EncodeTbz(y) = EncodeTbz(x)
  <2>1. CASE ~(IsRegAt(x, 0) /\ IsImmAt(x, 1)) BY <1>1, <2>1 DEF EncodeTbz, With
  <2>2. CASE IsImmAt(x, 1) /\ ~IsLabelAt(x, 2) BY <1>1, <1>2, <2>2 DEF EncodeTbz, With
  <2>3. CASE IsImmAt(x, 1) /\ IsLabelAt(x, 2) BY <1>1, <1>2, <1>3, <2>3 DEF EncodeTbz
  <2> QED BY <2>1, <2>2, <2>3
<1>9. EncodeCmpbr(y) = EncodeCmpbr(x)
  <2>1. ASSUME NEW f PROVE EncodeCbReg(y, f) = EncodeCbReg(x, f)
    <3>1. /\ IsRegAt(y, 0) = IsRegAt(x, 0) /\ IsXAt(y, 0) = IsXAt(x, 0)
          /\ IsXAt(y, 1) = IsXAt(x, 1)
          /\ RegAt(y, 0) = RegAt(x, 0) /\ RegAt(y, 1) = RegAt(x, 1)
      BY <1>1
    <3>2. (IF y.code[1] = "Cb" /\ IsXAt(y, 0) THEN 1 ELSE 0)
            = (IF x.code[1] = "Cb" /\ IsXAt(x, 0) THEN 1 ELSE 0)
      BY <1>1, <3>1
    <3>3. (/\ HasReg(y.code) /\ IsRegAt(y, 0)
           /\ y.code[1] = "Cb" \/ ~(IsXAt(y, 0) \/ IsXAt(y, 1)))
            = (/\ HasReg(x.code) /\ IsRegAt(x, 0)
               /\ x.code[1] = "Cb" \/ ~(IsXAt(x, 0) \/ IsXAt(x, 1)))
      BY <1>1, <3>1
    <3> QED BY <1>1, <3>1, <3>2, <3>3, Zenon DEF EncodeCbReg
  <2>2. ASSUME NEW f, ~IsLabelAt(x, 1) PROVE EncodeCbImm(y, f) = EncodeCbImm(x, f)
    <3>1. ValAt(y, 1) = ValAt(x, 1) BY <1>1, <2>2
    <3> QED BY <1>1, <3>1 DEF EncodeCbImm
  <2>3. IsImmAt(x, 1) => ~IsLabelAt(x, 1) BY DEF IsImmAt, IsLabelAt
  <2>4. CASE ~IsLabelAt(x, 2) BY <1>1, <2>4 DEF EncodeCmpbr
  <2>5. CASE IsLabelAt(x, 2)
    <3>1. LabelField(y, 2, C9) = LabelField(x, 2, C9) BY <1>3, <2>5
    <3> QED BY <1>1, <2>1, <2>2, <2>3, <2>5, <3>1 DEF EncodeCmpbr
  <2> QED BY <2>4, <2>5
<1>10. EncodeUdf(y) = EncodeUdf(x)
  <2>1. CASE IsImmAt(x, 0) BY <1>1, <1>2, <2>1 DEF EncodeUdf
  <2>2. CASE ~IsImmAt(x, 0) BY <1>1, <2>2 DEF EncodeUdf, With
  <2> QED BY <2>1, <2>2
<1> QED BY <1>4, <1>5, <1>6, <1>7, <1>8, <1>9, <1>10

(* ADR encodes as before; ADRP does, or it no longer names a page. *)
LEMMA MovedAdrEncodes ==
  ASSUME BranchCodec, NEW x \in Insn, NEW a \in Addr, NEW y, Moved(x, y, a),
         EncodeAdr(x).ok
  PROVE  EncodeAdr(y) = EncodeAdr(x) \/ (~EncodeAdr(y).ok /\ x.code = <<"Adrp">>)
<1> DEFINE page == x.code = <<"Adrp">>
           F(z) == IF page THEN AdrpImm(ValAt(z, 1), z.ip, C21, Page)
                   ELSE RelImm(ValAt(z, 1), z.ip, C21, 1)
           W(z) == [class |-> "adr", op |-> IF page THEN 1 ELSE 0, rd |-> RegAt(z, 0),
                    imm |-> F(z).v]
           shape == IsRegAt(x, 0) /\ IsLabelAt(x, 1)
<1>1. y.code = x.code /\ IsRegAt(y, 0) = IsRegAt(x, 0) /\ IsLabelAt(y, 1) = IsLabelAt(x, 1)
      /\ RegAt(y, 0) = RegAt(x, 0) /\ y.ip = a
      /\ (IsLabelAt(x, 1) => ValAt(y, 1) = AddrAdd(ValAt(x, 1), AddrSub(a, x.ip)))
  BY DEF Moved
<1>2. EncodeAdr(x) = With(shape, F(x), W(x)) BY DEF EncodeAdr
<1>3. EncodeAdr(y) = With(shape, F(y), W(y)) BY <1>1 DEF EncodeAdr
<1>4. shape => IsLabelAt(x, 1) OBVIOUS
<1>5. W(y) = W(x) \/ F(y).v # F(x).v BY <1>1
<1>6. F(y) = F(x) \/ (~F(y).ok /\ page) \/ ~F(x).ok \/ ~shape
  <2> SUFFICES ASSUME F(x).ok, shape PROVE F(y) = F(x) \/ (~F(y).ok /\ page)
    OBVIOUS
  <2>1. IsLabelAt(x, 1) BY <1>4
  <2>2. CASE ~page BY <2>1, <2>2, FieldsKept
  <2>3. CASE page
    <3> DEFINE t == ValAt(x, 1)
               u == AddrAdd(t, AddrSub(a, x.ip))
    <3>1. t \in Addr /\ x.ip \in Addr BY AcceptedOperands
    <3>2. Page = 4096 /\ AddrMod \in Nat \ {0} /\ AddrMod % 4096 = 0 BY FieldsAssumption
    <3>3. F(x) = AdrpImm(t, x.ip, C21, 4096) /\ F(y) = AdrpImm(u, a, C21, 4096)
      BY <1>1, <2>1, <2>3, <3>2
    <3>4. t % 4096 = 0
      <4>1. AdrpImm(t, x.ip, C21, 4096).ok BY <3>3
      <4> QED BY <4>1 DEF AdrpImm, Err
    <3>5. CASE u % 4096 # 0
      <4>1. ~AdrpImm(u, a, C21, 4096).ok BY <3>5 DEF AdrpImm, Err
      <4> QED BY <2>3, <3>3, <4>1
    <3>6. CASE u % 4096 = 0
      <4>1. AddrSub(PageOf(u, 4096), PageOf(a, 4096)) = AddrSub(PageOf(t, 4096), PageOf(x.ip, 4096))
        BY <3>1, <3>2, <3>4, <3>6, PagesKept
      <4> HIDE DEF t, u, F
      <4>2. AdrpImm(u, a, C21, 4096) = AdrpImm(t, x.ip, C21, 4096)
        BY <3>4, <3>6, <4>1 DEF AdrpImm
      <4> QED BY <3>3, <4>2
    <3> QED BY <3>5, <3>6
  <2> QED BY <2>2, <2>3
<1> HIDE DEF F, W, shape
<1>7. shape /\ F(x).ok BY <1>2, WithWasOk
<1>8. CASE F(y) = F(x) BY <1>2, <1>3, <1>5, <1>8
<1>9. CASE ~F(y).ok /\ page BY <1>3, <1>7, <1>9 DEF With
<1> QED BY <1>6, <1>7, <1>8, <1>9

(* relocate keeps the word of every instruction that encodes, after any
   edits; an ADRP that leaves its page stops encoding. *)
LEMMA RelocatedEncodes ==
  ASSUME BranchCodec, NEW x \in Insn, NEW a \in Addr, NEW y \in Insn, Moved(x, y, a),
         Encode(x).ok
  PROVE  Encode(y) = Encode(x) \/ (~Encode(y).ok /\ x.code = <<"Adrp">>)
<1>1. x.code \in BranchCode /\ y.code = x.code BY DEF Insn, BranchCodec, Moved
<1>2. x.code # <<"Invalid">> BY EncodeOfCode DEF Err
<1>3. x.code \in {"Cb", "Cbb", "Cbh"} \X {"gt", "ge", "lt", "hi", "hs", "lo", "eq", "ne"}
        => Encode(x) = EncodeCmpbr(x) /\ Encode(y) = EncodeCmpbr(y)
  <2>1. x.code \in {"Cb", "Cbb", "Cbh"} \X {"gt", "ge", "lt", "hi", "hs", "lo", "eq", "ne"}
          => x.code[1] \in {"Cb", "Cbb", "Cbh"}
    OBVIOUS
  <2> QED BY <1>1, <2>1, EncodeOfCode
<1>4. CASE x.code \in {<<"Adr">>, <<"Adrp">>}
  <2>1. Encode(x) = EncodeAdr(x) /\ Encode(y) = EncodeAdr(y) BY <1>1, <1>4, EncodeOfCode
  <2> QED BY <2>1, MovedAdrEncodes
<1>5. CASE x.code \notin {<<"Adr">>, <<"Adrp">>}
  <2>1. Encode(y) = Encode(x)
    BY <1>1, <1>2, <1>3, <1>5, CodeClasses, EncodeOfCode, MovedEncodes
  <2> QED BY <2>1
<1> QED BY <1>4, <1>5

(* relocate keeps every relative displacement, in whatever state the edits
   left the instruction: it encodes to the word it had before the move, or
   it is an ADRP that moved by less than a page and no longer encodes. *)
THEOREM RelocateKeepsWordAlways ==
  ASSUME BranchCodec
  PROVE  Spec => RelocateKeepsWord
<1> DEFINE Keeps == op' = "relocate" /\ EncodeInsn(insn).ok =>
                      \/ EncodeInsn(insn').ok /\ EncodeInsn(insn').v = EncodeInsn(insn).v
                      \/ ~EncodeInsn(insn').ok /\ insn.code = <<"Adrp">>
<1>1. Inv /\ Inv' /\ Next => Keeps
  <2> SUFFICES ASSUME Inv, Inv', Next, op' = "relocate", EncodeInsn(insn).ok
               PROVE  \/ EncodeInsn(insn').ok /\ EncodeInsn(insn').v = EncodeInsn(insn).v
                      \/ ~EncodeInsn(insn').ok /\ insn.code = <<"Adrp">>
    OBVIOUS
  <2>1. PICK a \in InAddrs : insn' = relocate(insn, a).insn
    BY DEF Next, Apply, SetIp, Relocate, SetCode, SetMnemonic, SetOp, SetOpCount, PushOp,
           SetOpRegister, SetOpRegisterUnchecked, SetOpImmediate, SetCondition, SetLabel,
           SetNearBranchTarget, SetMemoryBase, SetMemoryIndex, SetMemoryDisplacement64, ReEncode
  <2>2. a \in Addr /\ insn \in Insn /\ insn' \in Insn BY InputsAssumption DEF Inv, Good
  <2>3. Moved(insn, insn', a) BY <2>1, <2>2, RelocateMoves
  <2>4. EncodeInsn(insn) = Encode(insn) /\ EncodeInsn(insn') = Encode(insn')
    BY <2>2 DEF BranchCodec
  <2> QED BY <2>2, <2>3, <2>4, RelocatedEncodes
<1>2. Spec => []Inv BY BranchContracts, InstructionInvariant
<1>3. Inv /\ Inv' /\ [Next]_vars => [Keeps]_vars BY <1>1
<1> QED BY <1>2, <1>3, PTL DEF Spec, RelocateKeepsWord
=============================================================================
