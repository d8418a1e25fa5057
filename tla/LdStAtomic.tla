----------------------------- MODULE LdStAtomic -----------------------------
(***************************************************************************)
(* Loads and stores that order or modify memory: exclusive, load-acquire   *)
(* and store-release, compare-and-swap, their unprivileged forms, and the  *)
(* atomic operations of the LSE, LSFE, THE and LS64 extensions.            *)
(***************************************************************************)
EXTENDS LdStWord

SizeName == <<"b", "h", "", "">>

(***************************************************************************)
(* Faulty variants, used to show that the properties detect them.          *)
(***************************************************************************)
OrdOf_CodeOnly(x) == Place(OrdName, x.code[3])

(***************************************************************************)
(* Exclusive, ordered and compare-and-swap: decode                         *)
(***************************************************************************)

(* The name of a kind is completed by the L bit, the o0 bit and the size. *)
ExclCode(kind, sz, l, o0) ==
  CodeWith(<<kind, Entry(<<"st", "ld">>, l), Entry(<<"", "o">>, o0), Entry(SizeName, sz)>>, "Excl",
           Entry(SizeWidth, sz))

(* A status register comes first in a store-exclusive. *)
Status(l, rs) == IF l = 1 THEN <<>> ELSE <<Gp(0, rs)>>
EvenRegs(x, rs, rt) == <<Gp(x, rs), Gp(x, rs + 1), Gp(x, rt), Gp(x, rt + 1)>>
Even(w) == RsOf(w) % 2 = 0 /\ w.rt % 2 = 0

(* decode_cas and decode_casp: CASP has sizes 0 and 1 and even registers. *)
DecodeCas(w, ip) ==
  LET single == w.opc >= 2
      sz == IF single THEN w.size ELSE w.size + 2
      x  == IF sz = 3 THEN 1 ELSE 0
      c  == ExclCode(IF single THEN "cas" ELSE "casp", sz, w.opc % 2, O3Of(w))
  IN  IF Rt2Of(w) # 31 \/ ~Gated("Lse") THEN NewInvalid(w, ip)
      ELSE IF single THEN Set(w, ip, c, <<Gp(x, RsOf(w)), Gp(x, w.rt), At(w.rn)>>)
      ELSE IF ~Even(w) THEN NewInvalid(w, ip)
      ELSE Set(w, ip, c, EvenRegs(x, RsOf(w), w.rt) \o <<At(w.rn)>>)

DecodeExclusive(w, ip) ==
  LET l == w.opc % 2
      data(n) == Gp(IF w.size = 3 THEN 1 ELSE 0, n)
      c(kind) == ExclCode(kind, w.size, l, O3Of(w))
      pair == w.opc < 2 /\ w.b21 = 1
  IN  IF w.opc >= 2 /\ w.b21 = 0 THEN Set(w, ip, c("ar"), <<data(w.rt), At(w.rn)>>)
      ELSE IF pair /\ w.size >= 2
      THEN Set(w, ip, c("xp"), Status(l, RsOf(w)) \o <<data(w.rt), data(Rt2Of(w)), At(w.rn)>>)
      ELSE IF w.b21 = 0
      THEN Set(w, ip, c("xr"), Status(l, RsOf(w)) \o <<data(w.rt), At(w.rn)>>)
      ELSE DecodeCas(w, ip)

(* The unprivileged exclusives and compare-and-swaps: Rt2 is ignored. *)
DecodeLsui(w, ip) ==
  LET l == w.opc % 2
      data(n) == Gp(IF w.size = 3 THEN 1 ELSE 0, n)
      c(kind) == ExclCode(kind, w.size, l, O3Of(w))
  IN  IF ~Gated("Lsui") \/ w.b21 = 1 THEN NewInvalid(w, ip)
      ELSE IF w.opc < 2 /\ w.size >= 2
      THEN Set(w, ip, c("txr"), Status(l, RsOf(w)) \o <<data(w.rt), At(w.rn)>>)
      ELSE IF w.opc >= 2 /\ w.size = 3
      THEN Set(w, ip, c("cast"), <<Gp(1, RsOf(w)), Gp(1, w.rt), At(w.rn)>>)
      ELSE IF w.opc >= 2 /\ w.size = 1 /\ Even(w)
      THEN Set(w, ip, ExclCode("caspt", 3, l, O3Of(w)), EvenRegs(1, RsOf(w), w.rt) \o <<At(w.rn)>>)
      ELSE NewInvalid(w, ip)

(***************************************************************************)
(* Exclusive, ordered and compare-and-swap: encode                         *)
(***************************************************************************)

(* mem_imm whose displacement and mode the caller discards. *)
RegsThenMem(x, count) == (\A n \in 0..(count - 1) : IsRegAt(x, n)) /\ IsMemAt(x, count)

ExclFields(x) ==
  CHOOSE f \in [sz : 0..3, l : Bit, o0 : Bit] : ExclCode(x.code[1], f.sz, f.l, f.o0) = x.code
ExclWord(hi, sz, o2, l, o1, rs, o0, rt2, rn, rt) ==
  Pack(sz, 1, 0, hi, 2 * o2 + l, o1, Mid(rs, o0, rt2 \div 4), rt2 % 4, rn, rt)

(* The registers a load-exclusive does not name are written as ones. *)
EncodeExclSingle(x, hi) ==
  LET f == ExclFields(x)
      n == 1 - f.l
  IN  With(RegsThenMem(x, n + 1), Ok(0),
           ExclWord(hi, f.sz, 0, f.l, 0, IF f.l = 1 THEN 31 ELSE RegAt(x, 0), f.o0, 31,
                    RnAt(x, n + 1), RegAt(x, n)))
EncodeExclPair(x) ==
  LET f == ExclFields(x)
      n == 1 - f.l
  IN  With(RegsThenMem(x, n + 2), Ok(0),
           ExclWord(0, f.sz, 0, f.l, 1, IF f.l = 1 THEN 31 ELSE RegAt(x, 0), f.o0,
                    RegAt(x, n + 1), RnAt(x, n + 2), RegAt(x, n)))
EncodeOrdered(x) ==
  LET f == ExclFields(x)
  IN  With(RegsThenMem(x, 1), Ok(0),
           ExclWord(0, f.sz, 1, f.l, 0, 31, f.o0, 31, RnAt(x, 1), RegAt(x, 0)))

EncodeCas(x, hi) ==
  LET f == ExclFields(x)
  IN  With(RegsThenMem(x, 2), Ok(0),
           ExclWord(hi, f.sz, 1, f.l, 1 - hi, RegAt(x, 0), f.o0, 31, RnAt(x, 2), RegAt(x, 1)))

(* The pairs are consecutive and start at an even register. *)
EvenPairs(x) ==
  \A n \in {0, 2} : RegAt(x, n) % 2 = 0 /\ RegAt(x, n + 1) = (RegAt(x, n) + 1) % 32
EncodeCasp(x, hi) ==
  LET f == ExclFields(x)
  IN  With(RegsThenMem(x, 4) /\ EvenPairs(x), Ok(0),
           ExclWord(hi, f.sz - 2, hi, f.l, 1 - hi, RegAt(x, 0), f.o0, 31, RnAt(x, 4),
                    RegAt(x, 2)))

EncodeExclusive(x) ==
  CASE x.code[1] = "xr"    -> EncodeExclSingle(x, 0)
    [] x.code[1] = "xp"    -> EncodeExclPair(x)
    [] x.code[1] = "ar"    -> EncodeOrdered(x)
    [] x.code[1] = "cas"   -> EncodeCas(x, 0)
    [] x.code[1] = "casp"  -> EncodeCasp(x, 0)
    [] x.code[1] = "txr"   -> EncodeExclSingle(x, 1)
    [] x.code[1] = "cast"  -> EncodeCas(x, 1)
    [] x.code[1] = "caspt" -> EncodeCasp(x, 1)

(***************************************************************************)
(* Atomic memory operations: decode                                        *)
(***************************************************************************)
AtomicName == <<"add", "clr", "eor", "set", "smax", "smin", "umax", "umin">>
Ord(w) == w.opc                    \* A and R, word<23:22>

(* The acquire and release letters are part of the Code of ADD, CLR, EOR and
   SET at 32 and 64 bits only; the mnemonic always has them. *)
OrdInCode(i, size) == i < 4 /\ size >= 2
AtomicCode(i, size, ord) ==
  <<"lse", Entry(AtomicName, i), IF OrdInCode(i, size) THEN Entry(OrdName, ord) ELSE "",
    Entry(SizeName, size), Entry(SizeWidth, size)>>
AtomicMnem(dir, i, size, ord) ==
  <<dir, Entry(AtomicName, i), Entry(OrdName, ord), Entry(SizeName, size)>>

(* emit_atomic_rmw: ST<op> when the loaded value is discarded. *)
DecodeRmw(w, ip) ==
  LET x  == IF w.size = 3 THEN 1 ELSE 0
      st == w.rt = 31 /\ Ord(w) < 2
      i  == Opc3Of(w)
  IN  Built(w, ip, AtomicCode(i, w.size, Ord(w)),
            AtomicMnem(IF st THEN "st" ELSE "ld", i, w.size, Ord(w)),
            <<Gp(x, RsOf(w))>> \o (IF st THEN <<>> ELSE <<Gp(x, w.rt)>>) \o <<At(w.rn)>>)

OrdCode(name, size, ord) ==
  CodeWith(<<name, Entry(OrdName, ord), Entry(SizeName, size)>>, "Ord", Entry(SizeWidth, size))
DecodeSwp(w, ip) ==
  LET x == IF w.size = 3 THEN 1 ELSE 0
  IN  Set(w, ip, OrdCode("swp", w.size, Ord(w)), <<Gp(x, RsOf(w)), Gp(x, w.rt), At(w.rn)>>)

(* The single-register read-check-write operations, size 1 with the flags. *)
RcwName == <<<<"rcwclr", "rcwswp", "rcwset">>, <<"rcwsclr", "rcwsswp", "rcwsset">>>>
DecodeRcw(w, ip) ==
  IF Opc3Of(w) > 3 \/ ~Gated("The") THEN NewInvalid(w, ip)
  ELSE Set(w, ip, OrdCode(RcwName[w.size + 1][Opc3Of(w)], 3, Ord(w)),
           <<Gp(1, RsOf(w)), Gp(1, w.rt), At(w.rn)>>)

Ls64 == {<<"Ld64b", 5>>, <<"St64b", 1>>, <<"St64bv", 3>>, <<"St64bv0", 2>>}
HasStatus(name) == name \in {"St64bv", "St64bv0"}

(* The 64-byte forms of a word; others of its slot are not in this set. *)
Ls64Rows(w) ==
  {r \in Ls64 : /\ w.size = 3 /\ O3Of(w) = 1 /\ Ord(w) = 0 /\ Opc3Of(w) = r[2]
                /\ HasStatus(r[1]) \/ RsOf(w) = 31
                /\ w.rt % 2 = 0 /\ w.rt <= 22}
DecodeLs64(w, ip) ==
  LET name == (CHOOSE r \in Ls64Rows(w) : TRUE)[1]
  IN  IF ~Gated("Ls64") THEN NewInvalid(w, ip)
      ELSE Set(w, ip, CodeWith(<<name>>, "Ls64", ""),
               (IF HasStatus(name) THEN <<Gp(1, RsOf(w))>> ELSE <<>>)
                 \o <<Gp(1, w.rt), At(w.rn)>>)

LdaprCode(size) == CodeWith(<<"ldapr", Entry(SizeName, size)>>, "Ldapr", Entry(SizeWidth, size))
IsLdapr(w) == O3Of(w) = 1 /\ Opc3Of(w) = 4 /\ Ord(w) = 2 /\ RsOf(w) = 31

(* The FP operations; BF16 shares the H registers. *)
LsfeOp == {<<"fadd", 0>>, <<"fmax", 4>>, <<"fmin", 5>>, <<"fmaxnm", 6>>, <<"fminnm", 7>>}
LsfeCode(o3, name, ord, bf) ==
  CodeWith(<<Entry(<<"ld", "st">>, o3), IF bf THEN "b" ELSE "", name, Entry(OrdName, ord)>>,
           "Lsfe", "")
DecodeLsfe(w, ip) ==
  LET ops   == {r \in LsfeOp : r[2] = Opc3Of(w)}
      c     == LsfeCode(O3Of(w), (CHOOSE r \in ops : TRUE)[1], Ord(w), w.size = 0)
      reg(n) == FpReg(IF w.size = 0 THEN 1 ELSE w.size, n)
  IN  IF ~Gated("Lsfe") \/ ops = {} \/ (O3Of(w) = 1 /\ (w.rt # 31 \/ Ord(w) >= 2))
      THEN NewInvalid(w, ip)
      ELSE Set(w, ip, c, <<reg(RsOf(w))>> \o (IF O3Of(w) = 1 THEN <<>> ELSE <<reg(w.rt)>>)
                           \o <<At(w.rn)>>)

DecodeAtomic(w, ip) ==
  IF w.v = 1 THEN DecodeLsfe(w, ip)
  ELSE IF IsLdapr(w)
  THEN Set(w, ip, LdaprCode(w.size), <<Gp(IF w.size = 3 THEN 1 ELSE 0, w.rt), At(w.rn)>>)
  ELSE IF Ls64Rows(w) # {} THEN DecodeLs64(w, ip)
  ELSE IF O3Of(w) = 1 /\ Opc3Of(w) # 0 /\ w.size <= 1 THEN DecodeRcw(w, ip)
  ELSE IF ~Gated("Lse") \/ (O3Of(w) = 1 /\ Opc3Of(w) # 0) THEN NewInvalid(w, ip)
  ELSE IF O3Of(w) = 1 THEN DecodeSwp(w, ip)
  ELSE DecodeRmw(w, ip)

(***************************************************************************)
(* Atomic memory operations: encode                                        *)
(***************************************************************************)
AtomicWord(size, v, ord, rs, o3, opc, rn, rt) ==
  Pack(size, 7, v, 0, ord, 1, Mid(rs, o3, opc), 0, rn, rt)

(* ord_from_mnem: the letters before the size, where the Code has none. *)
OrdOf(x) ==
  Place(OrdName, IF OrdInCode(Place(AtomicName, x.code[2]), IF x.code[5] = "" THEN 0 ELSE 2)
                 THEN x.code[3] ELSE x.mnem[3])
EncodeRmw(x) ==
  LET size == CHOOSE s \in 0..3 : SizeName[s + 1] = x.code[4] /\ SizeWidth[s + 1] = x.code[5]
      n    == IF x.mnem[1] = "st" THEN 1 ELSE 2
  IN  With(RegsThenMem(x, n), Ok(0),
           AtomicWord(size, 0, OrdOf(x), RegAt(x, 0), 0, Place(AtomicName, x.code[2]),
                      RnAt(x, n), IF n = 1 THEN 31 ELSE RegAt(x, 1)))

(* SWP and the single-register read-check-write operations. *)
OrdRows ==
  {<<"swp", 0, s, s>> : s \in 0..3}
    \cup {<<RcwName[s + 1][opc], opc, s, 3>> : s \in Bit, opc \in 1..3}
EncodeOrd(x) ==
  LET f == CHOOSE f \in OrdRows \X (0..3) : OrdCode(f[1][1], f[1][4], f[2]) = x.code
  IN  With(RegsThenMem(x, 2), Ok(0),
           AtomicWord(f[1][3], 0, f[2], RegAt(x, 0), 1, f[1][2], RnAt(x, 2), RegAt(x, 1)))

(* enc_lsfe: the size is the width of the first register, BF16 by the Code. *)
EncodeLsfe(x) ==
  LET f  == CHOOSE f \in [o3 : Bit, op : LsfeOp, ord : 0..3, bf : BOOLEAN] :
              LsfeCode(f.o3, f.op[1], f.ord, f.bf) = x.code
      n  == 2 - f.o3
  IN  With(RegsThenMem(x, n) /\ (f.bf \/ (HasAccAt(x, 0) /\ AccAt(x, 0) \in 1..3)), Ok(0),
           AtomicWord(IF f.bf THEN 0 ELSE AccAt(x, 0), 1, f.ord, RegAt(x, 0), f.o3, f.op[2],
                      RnAt(x, n), IF f.o3 = 1 THEN 31 ELSE RegAt(x, 1)))

EncodeLdapr(x) ==
  LET size == CHOOSE s \in 0..3 : LdaprCode(s) = x.code
  IN  With(RegsThenMem(x, 1), Ok(0), AtomicWord(size, 0, 2, 31, 1, 4, RnAt(x, 1), RegAt(x, 0)))

(* enc_ls64 takes Rt as it is. *)
EncodeLs64(x) ==
  LET r == CHOOSE r \in Ls64 : r[1] = x.code[1]
      n == IF HasStatus(r[1]) THEN 1 ELSE 0
  IN  With(RegsThenMem(x, n + 1), Ok(0),
           AtomicWord(3, 0, 0, IF n = 1 THEN RegAt(x, 0) ELSE 31, 1, r[2], RnAt(x, n + 1),
                      RegAt(x, n)))

(***************************************************************************)
(* Features                                                                *)
(***************************************************************************)

(* Code::feature of the Codes above. *)
ExclFeature(c) ==
  IF c[1] \in {"cas", "casp"} THEN "Lse" ELSE IF c[1] \in {"txr", "cast", "caspt"} THEN "Lsui" ELSE "Base"
AtomicFeature(c) ==
  CASE FormOf(c) = "Ldapr" -> "Base"
    [] FormOf(c) = "Ls64" -> "Ls64"
    [] FormOf(c) = "Lsfe" -> "Lsfe"
    [] FormOf(c) = "Ord" /\ c[1] # "swp" -> "The"
    [] OTHER -> "Lse"
=============================================================================
