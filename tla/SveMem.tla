------------------------------- MODULE SveMem -------------------------------
(***************************************************************************)
(* Loads, stores and prefetches of SVE (src/decode/sve/sve_mem.rs,         *)
(* src/encode/sve/imp/mem.rs, mem_enc.rs, mem_forms.rs).                   *)
(*                                                                         *)
(* A word is word<31:25>, which names one of four quadrants, and the       *)
(* fields <24:23> 22 21 20:16 15:13 12:10 9:5 4:0.  A Code is "Sve", a     *)
(* family, a type and an addressing form; its type is the size of the      *)
(* access in memory, with an s before it when it is sign extended.         *)
(***************************************************************************)
EXTENDS LdStWord

CONSTANT OverflowChecks     \* built with overflow checks (a debug build)

SveWord == [quad : {"G32", "Ld", "G64", "St"}, msz : 0..3, b22 : Bit, b21 : Bit, rm : RegNum,
            op : 0..7, pg : 0..7, rn : RegNum, zt : RegNum]

(***************************************************************************)
(* Tables                                                                  *)
(***************************************************************************)
Element == <<"b", "h", "s", "d">>
SizeName == <<"b", "h", "w", "d">>
SignedName == <<"sb", "sh", "sw">>
Log == [b |-> 0, sb |-> 0, h |-> 1, sh |-> 1, w |-> 2, sw |-> 2, d |-> 3]
IsSigned(type) == Lists(SignedName, type)
TypeName(msz, signed) == IF signed /\ msz < 3 THEN Entry(SignedName, msz) ELSE Entry(SizeName, msz)

(* dtype: the type of the access and the element it fills.  A broadcast has
   the same table, a store the rows that do not extend. *)
Dtype ==
  <<<<"b", "b">>, <<"b", "h">>, <<"b", "s">>, <<"b", "d">>, <<"sw", "d">>, <<"h", "h">>, <<"h", "s">>, <<"h", "d">>,
    <<"sh", "d">>, <<"sh", "s">>, <<"w", "s">>, <<"w", "d">>, <<"sb", "d">>, <<"sb", "s">>, <<"sb", "h">>, <<"d", "d">>>>
StoreRow == {d \in 0..15 : ~IsSigned(Entry(Dtype, d)[1])}

(* By the number of registers, and by word<21>. *)
LoadGroup == <<"Ldnt1", "Ld2", "Ld3", "Ld4">>
StoreGroup == <<"Stnt1", "St2", "St3", "St4">>
Replicate == <<"Ld1rq", "Ld1ro">>

(* Quadwords: the quadrant, <24:23> and <22>; family, type and registers;
   the shift of the index and the opcodes of the two forms. *)
QRow(quad, msz, b22, fam, type, count, lsl, ss, imm) ==
  [quad |-> quad, msz |-> msz, b22 |-> b22, fam |-> fam, type |-> type, count |-> count, lsl |-> lsl,
   ss |-> ss, imm |-> imm]
QRows ==
  {QRow("Ld", 2, 0, "Ld1", "wq", 1, 2, 4, 1), QRow("Ld", 3, 0, "Ld1", "dq", 1, 3, 4, 1),
   QRow("St", 2, 0, "St1", "wq", 1, 2, 2, 7), QRow("St", 3, 1, "St1", "dq", 1, 3, 2, 7)}
    \cup {QRow("Ld", n - 1, 0, Entry(LoadGroup, n - 1), "q", n, 4, 4, 7) : n \in 2..4}
    \cup {QRow("St", (n - 1) \div 2, (n - 1) % 2, Entry(StoreGroup, n - 1), "q", n, 4, 0, 0) : n \in 2..4}

(***************************************************************************)
(* Codes and operands                                                      *)
(***************************************************************************)
SveCode(fam, type, form) == <<"Sve", fam, type, form>>
IsQword(c) == c[3] \in {"q", "wq", "dq"}
SveMnemonic(c) ==
  CASE c[3] = "wq" -> <<c[2], "w">>
    [] c[3] = "dq" -> <<c[2], "d">>
    [] c[4] = "Reg" -> <<c[2]>>
    [] OTHER -> <<c[2], c[3]>>

(* zlist, pg_z and pg_plain: only a load zeroes the inactive elements. *)
ZList(zt, count, e) == Op("MultiReg", <<"Z", zt>>, NoReg, count, <<e>>)
IsLoadFamily(fam) ==
  Lists(LoadGroup, fam) \/ Lists(Replicate, fam) \/ fam \in {"Ld1", "Ldff1", "Ldnf1", "Ld1r"}
Governing(fam, pg) == Op("Reg", <<"P", pg>>, NoReg, 0, IF IsLoadFamily(fam) THEN <<"/z">> ELSE NoDec)

(* The addresses: m_mulvl, m_imm_hex, m_imm_dec, m_ss, m_xz, m_vi, m_vs. *)
Unscaled == 255             \* an amount that is not shown
SveAddress(mode, base, idx, imm, mod) == Op("SveMem", base, idx, AsU64(imm), <<mode>> \o mod)
ScalarImm(mode, rn, imm) == SveAddress(mode, GpSp(1, rn).reg, NoReg, imm, <<"", "Uxtx", 0>>)
ScalarVec(rn, zm, e, ext, amount) == SveAddress("ScalarVec", GpSp(1, rn).reg, <<"Z", zm>>, 0, <<e, ext, amount>>)
VecImm(zn, e, imm) == SveAddress("VecImm", <<"Z", zn>>, NoReg, imm, <<e, "Uxtx", 0>>)
VecScalar(zn, e, rm) == SveAddress("VecScalar", <<"Z", zn>>, Gp(1, rm).reg, 0, <<e, "Uxtx", 0>>)
ScalarScalar(rn, rm, lsl) ==
  Op("MemExt", GpSp(1, rn).reg, Gp(1, rm).reg, IF lsl = 0 THEN 0 ELSE 128 + lsl, <<"Uxtx">>)

(* gmod *)
Amount(scaled, n) == IF scaled /\ n # 0 THEN n ELSE Unscaled
Narrow(xs) == Entry(<<"Uxtw", "Sxtw">>, xs)

(* prefetch_op_sve: type, cache level and policy in four bits. *)
SvePrefetch(f) ==
  IF (f \div 2) % 4 = 3 THEN ImmOp(f)
  ELSE SysOp(<<Entry(<<"pld", "pst">>, f \div 8), Entry(PrfLevel, (f \div 2) % 4), Entry(PrfPolicy, f % 2)>>)

(***************************************************************************)
(* Decoding                                                                *)
(***************************************************************************)
Emit(w, ip, fam, type, form, list) ==
  LET c == SveCode(fam, type, form) IN Built(w, ip, c, SveMnemonic(c), list)
Access(w, ip, fam, type, form, count, e, addr) ==
  Emit(w, ip, fam, type, form, <<ZList(w.zt, count, e), Governing(fam, w.pg), addr>>)

(* prf: word<4> must be zero. *)
PrefetchAccess(w, ip, size, form, addr) ==
  IF w.zt >= 16 THEN NewInvalid(w, ip)
  ELSE Emit(w, ip, "Prf", Entry(SizeName, size), form, <<SvePrefetch(w.zt), Governing("Prf", w.pg), addr>>)

Imm4(w) == SignExtend(w.rm % 16, 16)
Imm6Of(w) == 32 * w.b21 + w.rm
DtypeOf(w) == 4 * w.msz + 2 * w.b22 + w.b21
MulVl(w, imm) == ScalarImm("MulVl", w.rn, imm)
Indexed(w, lsl) == ScalarScalar(w.rn, w.rm, lsl)

(* decode_ldr_str: a whole vector or predicate register. *)
DecodeTransfer(w, ip, fam) ==
  LET type == IF w.op = 2 THEN "Z" ELSE "P"
  IN  IF type = "P" /\ w.zt >= 16 THEN NewInvalid(w, ip)
      ELSE Emit(w, ip, fam, type, "Reg",
                <<RegOp(<<type, w.zt>>), MulVl(w, SignExtend(8 * Imm6Of(w) + w.pg, 512))>>)

(* decode_qword: index 31 is not an offset, and word<20> is one in the
   immediate form of a load. *)
IsQIndexed(r, w) == w.b21 = (IF r.count = 1 THEN 0 ELSE 1) /\ w.op = r.ss /\ w.rm # 31
IsQImmediate(r, w) == w.b21 = 0 /\ w.op = r.imm /\ w.rm \div 16 = (IF r.quad = "Ld" THEN 1 ELSE 0)
QAddress(w) == IF w.rm = 31 THEN VecImm(w.rn, "d", 0) ELSE VecScalar(w.rn, "d", w.rm)
DecodeQword(w, ip) ==
  LET rows == {r \in QRows : /\ <<r.quad, r.msz, r.b22>> = <<w.quad, w.msz, w.b22>>
                             /\ IsQIndexed(r, w) \/ IsQImmediate(r, w)}
      r == CHOOSE r \in rows : TRUE
      spot == <<w.quad, w.msz, w.b22, w.b21, w.op>>
  IN  IF spot = <<"G64", 0, 0, 0, 5>> THEN Access(w, ip, "Ld1", "q", "Gather", 1, "q", QAddress(w))
      ELSE IF spot = <<"St", 0, 0, 1, 1>> THEN Access(w, ip, "St1", "q", "Gather", 1, "q", QAddress(w))
      ELSE IF rows = {} THEN NewInvalid(w, ip)
      ELSE IF IsQIndexed(r, w) THEN Access(w, ip, r.fam, r.type, "Ss", r.count, "q", Indexed(w, r.lsl))
      ELSE Access(w, ip, r.fam, r.type, "Imm", r.count, "q", MulVl(w, r.count * Imm4(w)))

(* decode_contig.  Index 31 is reserved but for LDFF1, and word<20> but where
   it selects LDNF1 or a group of registers to store. *)
Group(w) == 2 * w.b22 + w.b21
DecodeLoad(w, ip) ==
  LET row  == Entry(Dtype, DtypeOf(w))
      type == Entry(SizeName, w.msz)
      e    == Entry(Element, w.msz)
      n    == Group(w) + 1
  IN  IF \/ w.op \in {0, 1} /\ w.b22 = 1
         \/ w.op \in {0, 2, 6} /\ w.rm = 31
         \/ w.op \in {1, 7} /\ w.rm >= 16
      THEN NewInvalid(w, ip)
      ELSE CASE w.op = 0 -> Access(w, ip, Entry(Replicate, w.b21), type, "Ss", 1, e, Indexed(w, w.msz))
             [] w.op = 1 -> Access(w, ip, Entry(Replicate, w.b21), type, "Imm", 1, e,
                                   IF w.b21 = 0 THEN ScalarImm("ImmDec", w.rn, 16 * Imm4(w))
                                   ELSE ScalarImm("ImmHex", w.rn, Imm4(w)))
             [] w.op \in {2, 3} -> Access(w, ip, IF w.op = 2 THEN "Ld1" ELSE "Ldff1", row[1], "Ss", 1, row[2],
                                          Indexed(w, Log[row[1]]))
             [] w.op = 5 -> Access(w, ip, IF w.rm < 16 THEN "Ld1" ELSE "Ldnf1", row[1], "Imm", 1, row[2],
                                   MulVl(w, Imm4(w)))
             [] w.op = 6 -> Access(w, ip, Entry(LoadGroup, n - 1), type, "Ss", n, e, Indexed(w, w.msz))
             [] w.op = 7 -> Access(w, ip, Entry(LoadGroup, n - 1), type, "Imm", n, e, MulVl(w, n * Imm4(w)))
             [] w.op = 4 -> NewInvalid(w, ip)

(* decode_scatter.  A byte is not scaled, and a doubleword does not fit an .s
   element, whichever bit says .s. *)
QuadOf(e) == IF e = "s" THEN "G32" ELSE "G64"
DecodeScatter(w, ip) ==
  LET vector == w.op = 5 /\ w.b22 = 1
      e == Entry(<<"d", "s">>, IF vector THEN w.b21 ELSE w.b22)
      type == Entry(SizeName, w.msz)
      ext == IF w.op = 5 THEN "Uxtx" ELSE Narrow(w.op \div 2 - 2)
  IN  IF \/ w.op \notin {1, 4, 5, 6} \/ (w.msz = 3 /\ e = "s")
         \/ w.b21 = 1 /\ (w.op = 1 \/ (w.msz = 0 /\ ~vector))
      THEN NewInvalid(w, ip)
      ELSE IF w.op = 1 THEN Access(w, ip, "Stnt1", type, "Vs", 1, e, VecScalar(w.rn, e, w.rm))
      ELSE Access(w, ip, "St1", type, QuadOf(e), 1, e,
                  IF vector THEN VecImm(w.rn, e, w.rm * 2^w.msz)
                  ELSE ScalarVec(w.rn, w.rm, e, ext, Amount(w.b21 = 1, w.msz)))

DecodeStore(w, ip) ==
  LET row  == Entry(Dtype, DtypeOf(w))
      type == Entry(SizeName, w.msz)
      e    == Entry(Element, w.msz)
      n    == Group(w) + 1
      single == w.op = 2 \/ (w.op = 7 /\ w.rm < 16)
  IN  IF w.msz = 3 /\ w.b22 = 0 /\ w.op \in {0, 2} THEN DecodeTransfer(w, ip, "Str")
      ELSE IF \/ w.op \in {2, 3} /\ w.rm = 31
              \/ single /\ DtypeOf(w) \notin StoreRow
      THEN NewInvalid(w, ip)
      ELSE CASE w.op = 2 -> Access(w, ip, "St1", row[1], "Ss", 1, row[2], Indexed(w, Log[row[1]]))
             [] w.op = 3 -> Access(w, ip, Entry(StoreGroup, n - 1), type, "Ss", n, e, Indexed(w, w.msz))
             [] w.op = 7 -> IF single THEN Access(w, ip, "St1", row[1], "Imm", 1, row[2], MulVl(w, Imm4(w)))
                            ELSE Access(w, ip, Entry(StoreGroup, n - 1), type, "Imm", n, e, MulVl(w, n * Imm4(w)))
             [] OTHER -> DecodeScatter(w, ip)

(* decode_ld1r: four opcodes of every size, in the order of dtype. *)
DecodeBroadcast(w, ip) ==
  LET row == Entry(Dtype, 4 * w.msz + w.op - 4)
  IN  Access(w, ip, "Ld1r", row[1], "Imm", 1, row[2], ScalarImm("ImmHex", w.rn, Imm6Of(w) * 2^Log[row[1]]))

(* decode_gather, decode_gather_32 and decode_gather_64: opcodes 0 to 3 take
   an offset of 32 bits, 4 to 7 one of 64 bits or a vector base, and the
   bytes that could not be scaled are prefetches.  An extended element has to
   be smaller than the one it fills. *)
IsReserved(w, signed) ==
  IF w.quad = "G32" THEN w.msz = 3 \/ (w.msz = 2 /\ signed) ELSE w.msz = 3 /\ signed
DecodeGather(w, ip) ==
  LET e == IF w.quad = "G32" THEN "s" ELSE "d"
      wide == w.quad = "G64"
      low  == w.op < 4
      offset(ext, amount) == ScalarVec(w.rn, w.rm, e, ext, amount)
      vector == VecImm(w.rn, e, w.rm * 2^w.msz)
      load(fams, signed, form, addr) ==
        IF IsReserved(w, signed) THEN NewInvalid(w, ip)
        ELSE Access(w, ip, Entry(fams, w.op % 2), TypeName(w.msz, signed), form, 1, e, addr)
      gather(form, addr) == load(<<"Ld1", "Ldff1">>, w.op % 4 < 2, form, addr)
  IN  IF ~wide /\ w.msz = 3 /\ w.b22 = 0 /\ w.op \in {0, 2} THEN DecodeTransfer(w, ip, "Ldr")
      ELSE IF ~wide /\ w.msz = 3 /\ w.b22 = 1 /\ low
      THEN PrefetchAccess(w, ip, w.op, "Imm", MulVl(w, SignExtend(Imm6Of(w), 64)))
      ELSE IF ~wide /\ w.b22 = 1 /\ ~low THEN DecodeBroadcast(w, ip)
      ELSE IF w.msz = 0 /\ w.b21 = 1 /\ low
      THEN PrefetchAccess(w, ip, w.op, w.quad, offset(Narrow(w.b22), Amount(TRUE, w.op)))
      ELSE IF w.msz = 0 /\ w.b21 = 1 /\ w.b22 = 1
      THEN PrefetchAccess(w, ip, w.op - 4, w.quad, offset("Uxtx", Amount(TRUE, w.op - 4)))
      ELSE IF low THEN gather(w.quad, offset(Narrow(w.b22), Amount(w.b21 = 1, w.msz)))
      ELSE IF w.b22 = 1 THEN gather(w.quad, offset("Uxtx", Amount(w.b21 = 1, w.msz)))
      ELSE IF w.b21 = 1 THEN gather("Vi", vector)
      ELSE CASE w.op = 7 -> PrefetchAccess(w, ip, w.msz, "Vi", vector)
             [] w.op = 4 \/ w.op = (IF wide THEN 6 ELSE 5) ->
                  load(<<"Ldnt1", "Ldnt1">>, w.op = 4, "Vs", VecScalar(w.rn, e, w.rm))
             [] w.op = 6 /\ ~wide /\ w.rm # 31 -> PrefetchAccess(w, ip, w.msz, "Ss", Indexed(w, w.msz))
             [] OTHER -> NewInvalid(w, ip)

(* The quadwords fill slots the older forms leave unallocated. *)
DecodeSveMem(w, ip) ==
  LET q == DecodeQword(w, ip)
  IN  IF ~Gated("Sve") THEN NewInvalid(w, ip)
      ELSE IF Gated("Sve2p1") /\ q.code # <<"Invalid">> THEN q
      ELSE CASE w.quad = "Ld" -> DecodeLoad(w, ip)
             [] w.quad = "St" -> DecodeStore(w, ip)
             [] OTHER -> DecodeGather(w, ip)

(***************************************************************************)
(* Encoding: the slot a Code and its address name, and the value of        *)
(* word<21:16> or word<20:16> in it.                                       *)
(***************************************************************************)
SlotAt(quad, d, o) ==
  [quad |-> quad, msz |-> d \div 4, b22 |-> (d \div 2) % 2, b21 |-> d % 2, rm |-> 0, op |-> o, pg |-> 0,
   rn |-> 0, zt |-> 0]
MszOf(c) == Log[c[3]]

(* addr and its readers: the last operand, whatever the Code. *)
AddrOf(x) == OpAt(x, x.cnt - 1)
ModeOf(x) == IF AddrOf(x).kind = "SveMem" THEN AddrOf(x).dec[1] ELSE AddrOf(x).kind
BaseNumber(x) == NumberOf(AddrOf(x).reg)
Index(x) == Ok(NumberOf(AddrOf(x).idx))
Disp(x) == AsI64(AddrOf(x).val)
ElementIs(x, e) == AddrOf(x).dec[2] = e
ExtendOf(x) == AddrOf(x).dec[3]
ScaledBit(x) == IF AddrOf(x).dec[4] = Unscaled THEN 0 ELSE 1
NarrowBit(x) == IF ExtendOf(x) = "Sxtw" THEN 1 ELSE 0
IsNarrow(x) == ExtendOf(x) \in {"Uxtw", "Sxtw"}

(* The data: prf_op for a prefetch, zt for the others. *)
Data(x) ==
  LET o == OpAt(x, 0)
      named == {f \in 0..15 : SvePrefetch(f) = o}
  IN  IF x.code[2] = "Prf"
      THEN IF o.kind = "ImmUnsigned" THEN Ok(o.val % 16)
           ELSE IF named # {} THEN Ok(CHOOSE f \in named : TRUE)
           ELSE BadOperand
      ELSE IF o.kind = "MultiReg" \/ (o.kind = "Reg" /\ BankOf(o.reg) = "Z") THEN Ok(NumberOf(o.reg))
      ELSE BadOperand
IsPredicateAt(x, n) == IsRegAt(x, n) /\ BankOf(OpAt(x, n).reg) = "P"

(* pg is shifted into word<12:10> with the opcode above it: a predicate past
   P7 sets the low bit of the opcode. *)
Write(x, slot, shape, field) ==
  LET pg == RegAt(x, 1)
  IN  With(Data(x).ok /\ IsPredicateAt(x, 1) /\ shape, field,
           [slot EXCEPT !.op = IF pg < 8 THEN @ ELSE 2 * (@ \div 2) + 1, !.pg = pg % 8, !.rn = BaseNumber(x),
                        !.b21 = @ + field.v \div 32, !.rm = field.v % 32, !.zt = Data(x).v])
Raised(field) == IF field.ok THEN Ok(field.v + 16) ELSE field

(* load_dtype_inv, store_dtype_inv and ld1r_key *)
SingleFam == {"Ld1", "Ldff1", "Ldnf1", "Ld1r", "St1"}
RowsOf(x) == {d \in 0..15 : <<x.code[3], OpAt(x, 0).dec>> = <<Entry(Dtype, d)[1], <<Entry(Dtype, d)[2]>>>>}
HasRow(x) == x.code[2] \in SingleFam => RowsOf(x) # {}
RowOf(x) == CHOOSE d \in RowsOf(x) : TRUE

(* The slot of a group of registers: its size and its place in a table. *)
GroupSlot(c, quad, table, o) == SlotAt(quad, 4 * MszOf(c) + Place(table, c[2]), o)

EncodeSs(x) ==
  LET c == x.code
      slot == CASE c[2] \in {"Ld1", "Ldff1"} -> SlotAt("Ld", RowOf(x), IF c[2] = "Ld1" THEN 2 ELSE 3)
                [] c[2] = "St1" -> SlotAt("St", RowOf(x), 2)
                [] Lists(LoadGroup, c[2]) -> GroupSlot(c, "Ld", LoadGroup, 6)
                [] Lists(StoreGroup, c[2]) -> GroupSlot(c, "St", StoreGroup, 3)
                [] Lists(Replicate, c[2]) -> GroupSlot(c, "Ld", Replicate, 0)
                [] c[2] = "Prf" -> SlotAt("G32", 4 * MszOf(c), 6)
  IN  Write(x, slot, HasRow(x) /\ ModeOf(x) = "MemExt", Index(x))

EncodeImm(x) ==
  LET c == x.code
      n(table) == Place(table, c[2]) + 1
      imm4(gran) == SignedField(Disp(x), 16, gran)
      put(modes, slot, field) == Write(x, slot, HasRow(x) /\ ModeOf(x) \in modes, field)
      hex == {"ImmHex", "ImmDec"}
  IN  CASE c[2] = "Ld1" -> put({"MulVl"}, SlotAt("Ld", RowOf(x), 5), imm4(1))
        [] c[2] = "Ldnf1" -> put({"MulVl"}, SlotAt("Ld", RowOf(x), 5), Raised(imm4(1)))
        [] c[2] = "St1" -> put({"MulVl"}, SlotAt("St", RowOf(x), 7), imm4(1))
        [] c[2] = "Ld1r" -> put(hex, SlotAt("G32", 4 * (RowOf(x) \div 4) + 2, 4 + (RowOf(x) % 4)),
                                UnsignedField(Disp(x), 64, 2^MszOf(c)))
        [] c[2] = "Prf" -> put({"MulVl"}, SlotAt("G32", 14, MszOf(c)), SignedField(Disp(x), 64, 1))
        [] Lists(LoadGroup, c[2]) -> put({"MulVl"}, GroupSlot(c, "Ld", LoadGroup, 7), imm4(n(LoadGroup)))
        [] Lists(StoreGroup, c[2]) ->
             put({"MulVl"}, GroupSlot(c, "St", StoreGroup, 7), Raised(imm4(n(StoreGroup))))
        [] Lists(Replicate, c[2]) ->   \* whatever the mode
             Write(x, GroupSlot(c, "Ld", Replicate, 1), AddrOf(x).kind = "SveMem",
                   imm4(IF ModeOf(x) = "ImmDec" THEN 16 ELSE 1))

(* enc_gather, enc_scatter, enc_prf and the vector-base forms of enc_ldnt1
   and enc_stnt1: the address decides between the opcodes. *)
AddressQuad(x) == IF ElementIs(x, "d") THEN "G64" ELSE "G32"
ShortBit(x) == IF ElementIs(x, "s") THEN 1 ELSE 0
Imm5(x) == UnsignedField(Disp(x), 32, 2^MszOf(x.code))

EncodeGather(x) ==
  LET d == 4 * MszOf(x.code)
      o == (IF IsSigned(x.code[3]) THEN 0 ELSE 2) + (IF x.code[2] = "Ldff1" THEN 1 ELSE 0)
  IN  CASE ModeOf(x) = "VecImm" -> Write(x, SlotAt(AddressQuad(x), d + 1, 4 + o), HasRow(x), Imm5(x))
        [] ModeOf(x) = "ScalarVec" /\ IsNarrow(x) ->
             Write(x, SlotAt(AddressQuad(x), d + 2 * NarrowBit(x) + ScaledBit(x), o), HasRow(x), Index(x))
        [] ModeOf(x) = "ScalarVec" /\ ~IsNarrow(x) ->
             Write(x, SlotAt("G64", d + 2 + ScaledBit(x), 4 + o), HasRow(x) /\ ElementIs(x, "d"), Index(x))
        [] OTHER -> BadOperand

EncodeScatter(x) ==
  LET d == 4 * MszOf(x.code)
  IN  CASE ModeOf(x) = "VecImm" -> Write(x, SlotAt("St", d + 2 + ShortBit(x), 5), TRUE, Imm5(x))
        [] ModeOf(x) = "ScalarVec" /\ IsNarrow(x) ->
             Write(x, SlotAt("St", d + 2 * ShortBit(x) + ScaledBit(x), 4 + 2 * NarrowBit(x)), TRUE, Index(x))
        [] ModeOf(x) = "ScalarVec" /\ ~IsNarrow(x) -> Write(x, SlotAt("St", d + ScaledBit(x), 5), TRUE, Index(x))
        [] OTHER -> BadOperand

(* The amount of a prefetch is not read, nor but for SXTW the extend of its
   32-bit form. *)
EncodePrefetch(x) ==
  LET form == x.code[4]
      m == MszOf(x.code)
  IN  CASE form = "Vi" -> IF ModeOf(x) # "VecImm" THEN BadOperand
                          ELSE Write(x, SlotAt(AddressQuad(x), 4 * m, 7), TRUE, Imm5(x))
        [] ModeOf(x) # "ScalarVec" -> BadOperand
        [] form = "G64" /\ ~IsNarrow(x) -> Write(x, SlotAt("G64", 3, 4 + m), TRUE, Index(x))
        [] OTHER -> Write(x, SlotAt(form, 2 * NarrowBit(x) + 1, m), TRUE, Index(x))

EncodeVs(x) ==
  LET d == 4 * MszOf(x.code)
      o == IF IsSigned(x.code[3]) THEN 4 ELSE IF ElementIs(x, "d") THEN 6 ELSE 5
  IN  IF ModeOf(x) # "VecScalar" THEN BadOperand
      ELSE Write(x, IF x.code[2] = "Stnt1" THEN SlotAt("St", d + 2 * ShortBit(x), 1)
                    ELSE SlotAt(AddressQuad(x), d, o), TRUE, Index(x))

(* enc_qword: an offset register of XZR is the address without one. *)
EncodeQword(x) ==
  LET r == CHOOSE q \in QRows : <<q.fam, q.type>> = <<x.code[2], x.code[3]>>
      d == 4 * r.msz + 2 * r.b22
      imm == SignedField(Disp(x), 16, r.count)
  IN  CASE x.code[4] = "Gather" ->
             Write(x, IF x.code[2] = "Ld1" THEN SlotAt("G64", 0, 5) ELSE SlotAt("St", 1, 1),
                   ModeOf(x) \in {"VecImm", "VecScalar"}, IF ModeOf(x) = "VecImm" THEN Ok(31) ELSE Index(x))
        [] x.code[4] = "Ss" ->
             Write(x, SlotAt(r.quad, d + (IF r.count = 1 THEN 0 ELSE 1), r.ss), ModeOf(x) = "MemExt", Index(x))
        [] x.code[4] = "Imm" ->
             Write(x, SlotAt(r.quad, d, r.imm), ModeOf(x) = "MulVl", IF r.quad = "Ld" THEN Raised(imm) ELSE imm)

(* enc_ldr_str: the address is looked for before the register, and is slot
   -1 of an instruction without operands. *)
EncodeTransfer(x) ==
  LET c == x.code
      imm == SignedField(Disp(x), 512, 1)
      slot == SlotAt(IF c[2] = "Str" THEN "St" ELSE "G32", 12 + imm.v \div 256, IF c[3] = "Z" THEN 2 ELSE 0)
  IN  IF x.cnt = 0 THEN IF OverflowChecks THEN Err("Panic") ELSE BadOperand
      ELSE IF ModeOf(x) # "MulVl" THEN BadOperand
      ELSE IF ~imm.ok THEN imm
      ELSE With(IsRegAt(x, 0), imm,
                [slot EXCEPT !.rm = (imm.v \div 8) % 32, !.pg = imm.v % 8, !.rn = BaseNumber(x),
                             !.zt = RegAt(x, 0)])

EncodeSveMem(x) ==
  LET fam  == x.code[2]
      form == IF ~Lists(Replicate, fam) THEN x.code[4] ELSE IF ModeOf(x) = "MemExt" THEN "Ss" ELSE "Imm"
  IN  CASE IsQword(x.code) -> EncodeQword(x)
        [] ~IsQword(x.code) /\ form = "Reg" -> EncodeTransfer(x)
        [] ~IsQword(x.code) /\ form = "Ss" -> EncodeSs(x)
        [] ~IsQword(x.code) /\ form = "Imm" -> EncodeImm(x)
        [] form = "Vs" -> EncodeVs(x)
        [] fam = "Prf" /\ form \in {"G32", "G64", "Vi"} -> EncodePrefetch(x)
        [] fam = "St1" /\ form \in {"G32", "G64"} -> EncodeScatter(x)
        [] fam \in {"Ld1", "Ldff1"} /\ form \in {"G32", "G64", "Vi"} -> EncodeGather(x)

(***************************************************************************)
(* Classification                                                          *)
(***************************************************************************)
IsSve(c) == c[1] = "Sve"
SveFeature(c) == IF IsQword(c) THEN "Sve2p1" ELSE "Sve"
=============================================================================
