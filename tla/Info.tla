-------------------------------- MODULE Info --------------------------------
(***************************************************************************)
(* Register and memory access analysis (src/info.rs, src/implicit.rs): the *)
(* operands of an instruction and the state it touches without naming it   *)
(* become a stream of touches, and each is recorded, one after the other,  *)
(* in lists of fixed capacity that merge the accesses of one register and  *)
(* drop what does not fit.                                                 *)
(***************************************************************************)
EXTENDS Spelling, SequencesExt

CONSTANTS Sample,    \* the instructions analysed first
          Repeat     \* those an InstructionInfoFactory is then asked about

VARIABLES insn,    \* the instruction
          phase,   \* "operands", "collect" (implicit_registers), "merge" its result, "done"
          todo,    \* the touches of this phase not yet recorded
          implicit, \* ImplicitRegisters::regs, its first count entries
          regs,    \* InfoBuilder::regs, its first reg_count entries
          mem      \* InfoBuilder::mem, its first mem_count entries

vars == <<insn, phase, todo, implicit, regs, mem>>

(***************************************************************************)
(* Registers without a number, and touches                                 *)
(***************************************************************************)
Nzcv == <<"Nzcv", 0>>
Ffr == <<"Ffr", 0>>
Za == <<"Za", 0>>
Zt0 == <<"Zt0", 0>>
Pc == <<"Pc", 0>>
X(n) == Gp(1, n).reg
Sp == GpSp(1, 31).reg

Touch(r, acc) == [mem |-> FALSE, reg |-> r, idx |-> NoReg, val |-> 0, acc |-> acc]
TouchMem(base, index, offset, acc) ==
  [mem |-> TRUE, reg |-> base, idx |-> index, val |-> offset, acc |-> acc]

Stem(names, suffixes) == {<<n \o s>> : n \in names, s \in suffixes}
Named(names) == {<<n>> : n \in names}
Sized(names, sizes) == {<<n, s>> : n \in names, s \in sizes}
(* The names under which the register and immediate groups list a mnemonic. *)
Spelt(names) == Stem(names, {"", "Imm", "Reg", "Shifted", "Extended", "Dp"})

(***************************************************************************)
(* Faulty variants, used to show that the properties detect them.          *)
(***************************************************************************)
Capacity_Eight == 8
MemoryTouches_NoIndex(o, acc) ==
  IF o.kind \in MemKinds
  THEN <<Touch(o.reg, "Read"), TouchMem(o.reg, o.idx, o.val, acc)>>
  ELSE <<>>
Ls64Group_Six(n, acc) == [i \in 1..6 |-> Touch(X(n + i), acc)]
NzcvAccess_OneOf(reads, writes) ==
  IF writes THEN "Write" ELSE IF reads THEN "Read" ELSE "None"
AddReg_Twice(list, r, acc, max) ==
  IF r = NoReg \/ acc = "None" \/ Len(list) = max THEN list
  ELSE Append(list, [reg |-> r, acc |-> acc])

(***************************************************************************)
(* The lists                                                               *)
(***************************************************************************)
MAX_USED_REGS == 20
MAX_USED_MEM == 2
MAX_IMPLICIT_REGS == 10

(* OpAccess::merge *)
Merge(a, b) ==
  CASE a = "None" -> b
    [] b = "None" \/ a = b -> a
    [] OTHER -> "ReadWrite"

(* InfoBuilder::add_reg, ImplicitRegisters::add *)
AddReg(list, r, acc, max) ==
  LET same == {i \in DOMAIN list : list[i].reg = r}
  IN  IF r = NoReg \/ acc = "None" THEN list
      ELSE IF same # {} THEN [i \in DOMAIN list |->
             IF i \in same THEN [list[i] EXCEPT !.acc = Merge(@, acc)] ELSE list[i]]
      ELSE IF Len(list) < max THEN Append(list, [reg |-> r, acc |-> acc])
      ELSE list

AddMem(list, t, max) == IF Len(list) < max THEN Append(list, t) ELSE list

AccessOf(list, r) ==
  LET same == {i \in DOMAIN list : list[i].reg = r}
  IN  IF same = {} THEN "None" ELSE list[CHOOSE i \in same : TRUE].acc

(***************************************************************************)
(* Classification of instructions                                          *)
(***************************************************************************)

(* Instruction::flow_control *)
CompareBranches == {"Cb", "Cbb", "Cbh"}
DirectConditional == Named({"Bc", "Cbz", "Cbnz", "Tbz", "Tbnz"})
IndirectCalls == Named({"Blr", "Blraa", "Blraaz", "Blrab", "Blrabz"})
IndirectBranches == Named({"Br"}) \cup Stem({"Bra"}, {"a", "az", "b", "bz"})
ReturnsAuthenticated == Named({"Retaa", "Retab", "Eretaa", "Eretab", "Retaasppcr", "Retabsppcr"})
Returns == ReturnsAuthenticated \cup Named({"Ret", "Eret", "Drps"})
Exceptions == Named({"Svc", "Hvc", "Smc", "Brk", "Hlt", "Dcps1", "Dcps2", "Dcps3"})
FlowControl(x) ==
  CASE x.mnem = <<"B">> -> IF x.code = <<"B", "cond">> THEN "ConditionalBranch" ELSE "UnconditionalBranch"
    [] x.mnem \in DirectConditional \/ x.mnem[1] \in CompareBranches -> "ConditionalBranch"
    [] x.mnem = <<"Bl">> -> "Call"
    [] x.mnem \in IndirectCalls -> "IndirectCall"
    [] x.mnem \in IndirectBranches -> "IndirectBranch"
    [] x.mnem \in Returns \/ x.mnem[1] = "RetSppc" -> "Return"
    [] x.mnem \in Exceptions -> "Exception"
    [] OTHER -> "Next"

(* Instruction::set_flags *)
FlagWriters ==
  Spelt({"Adds", "Subs", "Adcs", "Sbcs", "Ands", "Bics", "Negs", "Ngcs", "Cmp", "Cmn", "Tst",
         "Ccmp", "Ccmn", "Fcmp", "Fcmpe", "Fccmp", "Fccmpe", "Rmif", "Setf8", "Setf16", "Cfinv",
         "Axflag", "Xaflag", "Rdffrs"})
WritesFlags(x) == x.mnem \in FlagWriters

(* Instruction::condition: an operand, or part of the mnemonic. *)
HasCondition(x) == x.mnem[1] \in CompareBranches \/ \E n \in Live(x) : OpAt(x, n).kind = "Cond"

(* implicit::mnemonic_reads_flags, reads_nzcv *)
FlagReaders ==
  Spelt({"Adc", "Adcs", "Sbc", "Sbcs", "Ngc", "Ngcs", "Csel", "Csinc", "Csinv", "Csneg", "Cinc",
         "Cinv", "Cneg", "Cset", "Csetm", "Ccmp", "Ccmn", "Fcsel", "Rmif", "Setf8", "Setf16",
         "Cfinv", "Axflag", "Xaflag"})
ReadsFlags(x) == HasCondition(x) \/ x.mnem \in FlagReaders

(* accumulates_into_dest *)
Accumulating ==
  Stem({"Mla", "Mls", "Sqrdmlah", "Sqrdmlsh", "Fmla", "Fmls", "Fnmla", "Fnmls", "Fcmla", "Cmla",
        "Sqrdcmlah", "Sdot", "Udot", "Usdot", "Sudot", "Bfdot", "Fdot", "Smmla", "Ummla", "Usmmla",
        "Bfmmla", "Fmmla", "Movk", "Bfi", "Bfxil", "Bfm", "Sbfm", "Ubfm", "Ins", "Sli", "Sri",
        "Bfcvtn", "Bfcvtnt", "Addha", "Addva", "Chkfeat", "Fmlalb", "Fmlalt", "Fmlslb", "Fmlslt"}, {""})
    \cup Stem({"Smlal", "Umlal", "Smlsl", "Umlsl", "Sqdmlal", "Sqdmlsl", "Fmlal", "Fmlsl"}, {"", "2"})
    \cup Sized({"Smlal", "Umlal", "Smlsl", "Umlsl", "Sqdmlal", "Sqdmlsl"}, {"2"})
    \cup Stem({"Fmop", "Bfmop", "Smop", "Umop", "Sumop", "Usmop", "Bmop"}, {"a", "s"})
    \cup Spelt({p \o z \o k : p \in {"Paci", "Pacd", "Auti", "Autd"}, z \in {"", "z"}, k \in {"a", "b"}}
                 \cup {"Xpaci", "Xpacd"})

(* has_no_dest_register *)
NoDestination ==
  Spelt({"Cmp", "Cmn", "Tst", "Ccmp", "Ccmn", "Fcmp", "Fcmpe", "Fccmp", "Fccmpe", "Rmif", "Setf8",
         "Setf16", "Wrffr", "Autiasppcr", "Autibsppcr"})

(* classify_mem, for an instruction with a memory operand: whatever is not
   listed is a load. *)
CompareSwaps == {"cas", "casp", "cast", "caspt"}
AtomicRmws == {"ld", "swp", "swpp", "ldclrp", "ldsetp", "rcwclr", "rcwsclr", "rcwswp", "rcwsswp",
               "rcwset", "rcwsset"}
StatusStores == Named({"St64bv", "St64bv0"})
StoreExclusives(m) == (m[1] \in {"xr", "xp"} /\ m[2] = "st") \/ m \in StatusStores
NamedStores ==
  Named({"stlr", "stg", "stzg", "st2g", "stz2g", "St64b"})
    \cup Sized({"St1", "St2", "St3", "St4"}, {"b", "h", "w", "d", "q"}) \cup Sized({"Stnt1"}, {"b", "h", "w", "d"})
    \cup Named({"Str"})
Stores(m) ==
  \/ m[1] = "St" /\ m[Len(m)] # "tp"
  \/ m[1] = "ar" /\ m[2] = "st"
  \/ m \in NamedStores
MemKind(m) ==
  CASE m[1] \in CompareSwaps -> "CompareSwap"
    [] m[1] \in AtomicRmws -> "AtomicRmw"
    [] m[1] = "st" -> "AtomicStore"
    [] StoreExclusives(m) -> "StoreExclusive"
    [] m[1] = "Prf" /\ m \notin Sized({"Prf"}, {"b", "h", "w", "d"}) -> "Prefetch"
    [] Stores(m) -> "Store"
    [] OTHER -> "Load"

(* is_mops_rmw, from the shapes only the memory copies and sets have. *)
IsMemBang(o) == o.kind = "MemImm" /\ o.dec = <<"PreNoOffset">>
IsMopsRmw(x) == \E n \in Live(x) : OpAt(x, n).kind = "RegBang" \/ IsMemBang(OpAt(x, n))

(* is_predicate_operand, has_merging_predicate *)
IsPredicate(o) == o.kind = "PredCounter" \/ (o.kind = "Reg" /\ BankOf(o.reg) = "P")
HasMergingPredicate(x) ==
  \E n \in Live(x) : IsPredicate(OpAt(x, n)) /\ OpAt(x, n).dec = <<"/m">>

(***************************************************************************)
(* Touches of the operands                                                 *)
(***************************************************************************)

(* add_operand_regs.  A list of vector registers wraps; a tile slice reads
   its select register and touches the array. *)
Group(bank, first, count, stride, acc) ==
  [i \in 1..count |-> Touch(<<bank, (first + (i - 1) * stride) % 32>>, acc)]
OperandRegs(o, acc) ==
  CASE o.kind \in {"Reg", "RegBang", "PredCounter"} -> <<Touch(o.reg, acc)>>
    [] o.kind = "MultiReg" -> Group(BankOf(o.reg), NumberOf(o.reg), o.val, 1, acc)
    [] o.kind = "SveVecGroup" -> Group("Z", NumberOf(o.reg), o.val, o.dec[1], acc)
    [] o.kind = "Other" /\ o.dec = <<"pair">> -> <<Touch(o.reg, acc), Touch(o.idx, acc)>>
    [] o.kind = "IndexedElement" -> <<Touch(o.reg, acc), Touch(o.idx, "Read")>>
    [] o.kind \in {"SmeTileSlice", "SmeZaSlice"} -> <<Touch(o.reg, "Read"), Touch(Za, acc)>>
    [] o.kind = "SmeTile" -> <<Touch(Za, acc)>>
    [] o.kind = "SmeZaMask" -> <<Touch(IF o.dec = <<"zt0">> THEN Zt0 ELSE Za, acc)>>
    [] o.kind = "SmeZt0Index" -> <<Touch(Zt0, acc)>>
    [] OTHER -> <<>>

(* add_memory_operand, is_writeback *)
Writeback == {"PreIndex", "PostImm", "PostReg", "PreNoOffset"}
MemoryTouches(o, acc) ==
  CASE o.kind = "MemImm" ->
         <<Touch(o.reg, IF o.dec[1] \in Writeback THEN "ReadWrite" ELSE "Read"),
           TouchMem(o.reg, NoReg, o.val, acc)>>
    [] o.kind \in {"MemExt", "SveMem"} ->
         <<Touch(o.reg, "Read"), Touch(o.idx, "Read"),
           TouchMem(o.reg, o.idx, IF o.kind = "SveMem" THEN o.val ELSE 0, acc)>>
    [] OTHER -> <<>>

EachSlot(x, F(_)) == FlattenSeq([i \in 1..x.cnt |-> F(i - 1)])

(* classify_memory_form *)
MemoryAccess(kind) ==
  CASE kind \in {"Load", "Prefetch"} -> "Read"
    [] kind \in {"Store", "StoreExclusive"} -> "Write"
    [] OTHER -> "ReadWrite"
DataAccess(kind, i, slot) ==
  CASE kind = "Load" -> "Write"
    [] kind = "StoreExclusive" -> IF i = 0 THEN "Write" ELSE "Read"
    [] kind = "AtomicRmw" -> IF i + 1 = slot THEN "Write" ELSE "Read"
    [] kind = "CompareSwap" -> IF i < slot \div 2 THEN "ReadWrite" ELSE "Read"
    [] OTHER -> "Read"
MemoryForm(x, slot) ==
  LET kind == MemKind(x.mnem)
      Data(i) == IF i = slot THEN <<>>
                 ELSE OperandRegs(OpAt(x, i), IF i > 0 /\ IsPredicate(OpAt(x, i)) THEN "Read"
                                              ELSE DataAccess(kind, i, slot))
  IN  MemoryTouches(OpAt(x, slot), MemoryAccess(kind)) \o EachSlot(x, Data)

(* classify_dataproc_form, for an instruction without a memory operand. *)
DataForm(x) ==
  LET dest == CASE x.mnem \in NoDestination -> "Read"
                [] x.mnem \in Accumulating \/ HasMergingPredicate(x) -> "ReadWrite"
                [] OTHER -> "Write"
      Data(i) == OperandRegs(OpAt(x, i), IF i = 0 THEN dest ELSE "Read")
  IN  EachSlot(x, Data)

MopsForm(x) ==
  LET Data(i) == LET o == OpAt(x, i)
                 IN  CASE IsMemBang(o) -> MemoryTouches(o, "ReadWrite")
                       [] o.kind = "RegBang" -> OperandRegs(o, "ReadWrite")
                       [] OTHER -> OperandRegs(o, "Read")
  IN  EachSlot(x, Data)

(* instruction_info, up to the implicit registers. *)
MemSlots(x) == {n \in Live(x) : OpAt(x, n).kind \in MemKinds}
OperandTouches(x) ==
  LET Reads(i) == OperandRegs(OpAt(x, i), "Read")
  IN  CASE IsMopsRmw(x) -> MopsForm(x)
        [] ~IsMopsRmw(x) /\ MemSlots(x) # {} -> MemoryForm(x, Min(MemSlots(x)))
        [] ~IsMopsRmw(x) /\ MemSlots(x) = {} /\ FlowControl(x) # "Next" -> EachSlot(x, Reads)
        [] OTHER -> DataForm(x)

(***************************************************************************)
(* Touches without an operand                                              *)
(***************************************************************************)

(* add_nzcv *)
NzcvAccess(reads, writes) ==
  CASE reads /\ writes -> "ReadWrite"
    [] reads /\ ~writes -> "Read"
    [] ~reads /\ writes -> "Write"
    [] OTHER -> "None"

(* add_link_register *)
LinkReturns == ReturnsAuthenticated \ Named({"Eretaa", "Eretab"})
LinkTouches(x) ==
  CASE FlowControl(x) \in {"Call", "IndirectCall"} -> <<Touch(X(30), "Write")>>
    [] (x.mnem = <<"Ret">> /\ x.cnt = 0) \/ x.mnem \in LinkReturns \/ x.mnem[1] = "RetSppc" ->
         <<Touch(X(30), "Read")>>
    [] OTHER -> <<>>

(* add_pointer_auth *)
SignWithSp ==
  Named({"Paciasp", "Pacibsp", "Autiasp", "Autibsp", "Paciasppc", "Pacibsppc", "Pacnbiasppc",
         "Pacnbibsppc", "Autiasppcr", "Autibsppcr"})
SignWithZero == Named({"Paciaz", "Pacibz", "Autiaz", "Autibz", "Xpaclri"})
SignX17 == Named({"Pacia1716", "Pacib1716", "Autia1716", "Autib1716"})
PauthTouches(m) ==
  CASE m \in SignWithSp \/ m[1] = "AutiSppc" -> <<Touch(X(30), "ReadWrite"), Touch(Sp, "Read")>>
    [] m \in SignWithZero -> <<Touch(X(30), "ReadWrite")>>
    [] m \in SignX17 -> <<Touch(X(17), "ReadWrite"), Touch(X(16), "Read")>>
    [] m \in ReturnsAuthenticated \/ m[1] = "RetSppc" -> <<Touch(Sp, "Read")>>
    [] OTHER -> <<>>

(* add_ls64_group: the seven registers after the one that is named. *)
Ls64Group(n, acc) == [i \in 1..7 |-> Touch(X(n + i), acc)]
Ls64Slot(m) == IF m \in StatusStores THEN 1 ELSE 0
IsLs64(m) == m[1] \in {"Ld64b", "St64b", "St64bv", "St64bv0"}
Ls64Touches(x) ==
  LET slot == Ls64Slot(x.mnem)
      n    == RegAt(x, slot)
  IN  IF IsLs64(x.mnem) /\ IsXAt(x, slot) /\ n % 2 = 0 /\ n <= 22
      THEN Ls64Group(n, IF x.mnem = <<"Ld64b">> THEN "Write" ELSE "Read")
      ELSE <<>>

(* add_ffr *)
LoadSizes == {"b", "h", "w", "d", "sb", "sh", "sw"}
FirstFaulting == Sized({"Ldff1"}, LoadSizes)
ReadFfr == Sized({"Ldnf1"}, LoadSizes) \cup Named({"Rdffr", "Rdffrs"})
FfrTouches(m) ==
  CASE m \in FirstFaulting -> <<Touch(Ffr, "ReadWrite")>>
    [] m \in ReadFfr -> <<Touch(Ffr, "Read")>>
    [] m[1] \in {"Setffr", "Wrffr"} -> <<Touch(Ffr, "Write")>>
    [] OTHER -> <<>>

(* add_sme_state *)
SmeTouches(x) ==
  IF x.mnem[1] \in {"Smstart", "Smstop"} /\ ~IsTokenAt(x, 0, <<"sm">>)
  THEN <<Touch(Za, "Write")>> ELSE <<>>

(* add_pc *)
FoldsPc(m) ==
  m[1] \in {"Paciasppc", "Pacibsppc", "Pacnbiasppc", "Pacnbibsppc", "AutiSppc"}
PcTouches(x) ==
  IF FoldsPc(x.mnem) \/ (FlowControl(x) = "Next" /\ \E n \in Live(x) : OpAt(x, n).kind = "Label")
  THEN <<Touch(Pc, "Read")>> ELSE <<>>

ImplicitTouches(x) ==
  <<Touch(Nzcv, NzcvAccess(ReadsFlags(x), WritesFlags(x)))>> \o LinkTouches(x) \o PauthTouches(x.mnem)
    \o Ls64Touches(x) \o FfrTouches(x.mnem) \o SmeTouches(x) \o PcTouches(x)

(***************************************************************************)
(* The instructions analysed                                               *)
(***************************************************************************)

(* The operands the decoders build: the variants that have one register, two
   or a group of them (with a lane in place of the second), and none that
   names the flags. *)
IsPair(o) == o.kind = "Other" /\ o.dec = <<"pair">>
GroupKinds == {"MultiReg", "SveVecGroup"}
OneRegister ==
  {"Reg", "RegBang", "PredCounter", "IndexedElement", "SmeTileSlice", "SmeZaSlice"}
    \cup MemKinds \cup GroupKinds
ShapedOperand(o) ==
  /\ o.reg # NoReg => o.kind \in OneRegister \/ IsPair(o)
  /\ o.idx # NoReg => o.kind \in {"IndexedElement", "MemExt", "SveMem"} \cup GroupKinds \/ IsPair(o)
  /\ o.kind \in GroupKinds => o.val \in Nat /\ BankOf(o.reg) # "None"
  /\ BankOf(o.reg) # "Nzcv" /\ BankOf(o.idx) # "Nzcv"

(* Only the memory copies and sets have several memory operands; a 64-byte
   transfer names an even register that leaves room for seven more. *)
Shaped(x) ==
  /\ x.cnt \in 0..MAX_OPERANDS
  /\ \A n \in Live(x) : ShapedOperand(OpAt(x, n))
  /\ IF IsMopsRmw(x) THEN \A n \in MemSlots(x) : IsMemBang(OpAt(x, n))
     ELSE \A m, n \in MemSlots(x) : m = n
  /\ IsLs64(x.mnem) =>
       /\ x.mnem \in Named({"Ld64b", "St64b", "St64bv", "St64bv0"})
       /\ MemSlots(x) # {} /\ ~IsMopsRmw(x)
       /\ Ls64Slot(x.mnem) \in Live(x)
       /\ OpAt(x, Ls64Slot(x.mnem)) \in {RegOp(X(2 * n)) : n \in 0..11}

ASSUME InfoAssumption ==
  /\ MAX_OPERANDS \in Nat
  /\ \A x \in Sample \cup Repeat : Shaped(x)

(***************************************************************************)
(* Steps                                                                   *)
(***************************************************************************)
Init ==
  /\ insn \in Sample
  /\ phase = "operands"
  /\ todo = OperandTouches(insn)
  /\ implicit = <<>>
  /\ regs = <<>>
  /\ mem = <<>>

RecordReg ==
  /\ phase \in {"operands", "merge"}
  /\ todo # <<>> /\ ~Head(todo).mem
  /\ regs' = AddReg(regs, Head(todo).reg, Head(todo).acc, MAX_USED_REGS)
  /\ todo' = Tail(todo)
  /\ UNCHANGED <<insn, phase, implicit, mem>>

RecordMem ==
  /\ phase = "operands"
  /\ todo # <<>> /\ Head(todo).mem
  /\ mem' = AddMem(mem, Head(todo), MAX_USED_MEM)
  /\ todo' = Tail(todo)
  /\ UNCHANGED <<insn, phase, implicit, regs>>

(* implicit_registers builds a bounded list of its own. *)
StartImplicit ==
  /\ phase = "operands"
  /\ todo = <<>>
  /\ phase' = "collect"
  /\ todo' = ImplicitTouches(insn)
  /\ UNCHANGED <<insn, implicit, regs, mem>>

Collect ==
  /\ phase = "collect"
  /\ todo # <<>>
  /\ implicit' = AddReg(implicit, Head(todo).reg, Head(todo).acc, MAX_IMPLICIT_REGS)
  /\ todo' = Tail(todo)
  /\ UNCHANGED <<insn, phase, regs, mem>>

Listed(list) == [i \in DOMAIN list |-> Touch(list[i].reg, list[i].acc)]
StartMerge ==
  /\ phase = "collect"
  /\ todo = <<>>
  /\ phase' = "merge"
  /\ todo' = Listed(implicit)
  /\ UNCHANGED <<insn, implicit, regs, mem>>

Return ==
  /\ phase = "merge"
  /\ todo = <<>>
  /\ phase' = "done"
  /\ UNCHANGED <<insn, todo, implicit, regs, mem>>

(* InstructionInfoFactory::info starts over for another instruction. *)
AskAgain ==
  /\ phase = "done"
  /\ insn' \in Repeat \ {insn}
  /\ phase' = "operands"
  /\ todo' = OperandTouches(insn')
  /\ implicit' = <<>>
  /\ regs' = <<>>
  /\ mem' = <<>>

Advance == RecordReg \/ RecordMem \/ StartImplicit \/ Collect \/ StartMerge \/ Return
Next == Advance \/ AskAgain

(* An analysis that has begun runs to its end. *)
Spec == Init /\ [][Next]_vars /\ WF_vars(Advance)

(***************************************************************************)
(* Properties                                                              *)
(***************************************************************************)

(* The lists stay within their arrays and no register is listed twice, so
   that looking a register up finds all there is to know of it. *)
TypeOK ==
  /\ phase \in {"operands", "collect", "merge", "done"}
  /\ Len(regs) <= MAX_USED_REGS /\ Len(mem) <= MAX_USED_MEM /\ Len(implicit) <= MAX_IMPLICIT_REGS
  /\ \A i, j \in DOMAIN regs : regs[i].reg = regs[j].reg => i = j

(* The facts an access states, and those the lists state. *)
Effects(acc) ==
  {e \in {"read", "write"} : acc = "ReadWrite" \/ acc = IF e = "read" THEN "Read" ELSE "Write"}
FactsOf(touches) ==
  UNION {{<<t.mem, t.reg, t.idx, t.val, e>> : e \in Effects(t.acc)} :
         t \in {u \in ToSet(touches) : u.mem \/ u.reg # NoReg}}

(* No more registers are touched than there is room for, nor more locations:
   what MAX_USED_REGS and MAX_USED_MEM are chosen for. *)
RegistersIn(facts) == {f[2] : f \in {g \in facts : ~g[1]}}
MemoryIn(touches) == {i \in DOMAIN touches : touches[i].mem}
Fits(x, registers, locations) ==
  /\ Cardinality(RegistersIn(FactsOf(OperandTouches(x) \o ImplicitTouches(x)))) <= registers
  /\ Cardinality(MemoryIn(OperandTouches(x))) <= locations

(* The bounded lists implement the unbounded promise: every touch of every
   operand, and every one without an operand, is in the lists when the
   analysis returns, whatever merging and capacity do on the way
   (`no_truncation_across_the_encoding_space` samples this), the implicit
   list's own capacity included; and the analysis does return. *)
Promise == INSTANCE AccessMap
  WITH due <- FactsOf(OperandTouches(insn) \o ImplicitTouches(insn)),
       known <- FactsOf(Listed(regs) \o mem)
ReportsEverything == Promise!MapSpec

(* Every register an operand shows is listed, whichever way its instruction
   was classified. *)
RegistersOf(o) ==
  CASE o.kind = "MultiReg" -> {<<BankOf(o.reg), (NumberOf(o.reg) + i) % 32>> : i \in 0..(o.val - 1)}
    [] o.kind = "SveVecGroup" ->
         {<<"Z", (NumberOf(o.reg) + i * o.dec[1]) % 32>> : i \in 0..(o.val - 1)}
    [] OTHER -> {o.reg, o.idx} \ {NoReg}
EveryRegisterShownIsListed ==
  phase = "done" =>
    \A n \in Live(insn) : \A r \in RegistersOf(OpAt(insn, n)) : AccessOf(regs, r) # "None"

(* A 64-byte transfer moves eight registers of which it names one: all eight
   are listed with the same direction. *)
TransferGroupIsWhole ==
  phase = "done" /\ IsLs64(insn.mnem) =>
    LET e == IF insn.mnem = <<"Ld64b">> THEN "write" ELSE "read"
        n == RegAt(insn, Ls64Slot(insn.mnem))
    IN  \A i \in 0..7 : e \in Effects(AccessOf(regs, X(n + i)))

(* flags_read and flags_written are computed apart from the lists and are
   "the same fact" as the access of NZCV there. *)
FlagsAgreeWithNzcv ==
  phase = "done" =>
    Effects(AccessOf(regs, Nzcv)) = {e \in {"read", "write"} :
                                       IF e = "read" THEN ReadsFlags(insn) ELSE WritesFlags(insn)}
=============================================================================
