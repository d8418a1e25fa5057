------------------------------ MODULE LdStSimd ------------------------------
(***************************************************************************)
(* Advanced SIMD structure loads and stores (src/decode/ldst_simd.rs,      *)
(* src/encode/ldst_simd.rs) and the memory copy and set instructions of    *)
(* FEAT_MOPS (src/decode/mops.rs, src/encode/mops.rs).                     *)
(***************************************************************************)
EXTENDS LdStWord

(***************************************************************************)
(* Faulty variants, used to show that the properties detect them.          *)
(***************************************************************************)
Lane_NoSizeCheck(w) ==
  LET s == w.mid % 2
      field == 8 * w.size + 4 * s + w.op4
  IN  CASE (w.mid \div 4) % 4 = 0 -> {<<0, field>>}
        [] (w.mid \div 4) % 4 = 1 -> {<<1, field \div 2>>}
        [] OTHER -> {<<2 + (w.op4 % 2), IF w.op4 % 2 = 0 THEN field \div 4 ELSE field \div 8>>}

(***************************************************************************)
(* Structures: operands                                                    *)
(***************************************************************************)

(* arr_mult and size_q_of: an arrangement is an element size and whether it
   fills the register. *)
Arrangement == <<<<"8b", "16b">>, <<"4h", "8h">>, <<"2s", "4s">>, <<"1d", "2d">>>>
Arr(size, q) == Arrangement[size + 1][q + 1]
ArrOf(name) == CHOOSE f \in (0..3) \X Bit : Arr(f[1], f[2]) = name

(* vlist: `count` consecutive registers, wrapping; the encoder reads the
   first and the count. *)
NoLane == NoReg
OneLane(n) == <<"lane", n>>
VList(first, count, arr, lane) == Op("MultiReg", <<"V", first>>, lane, count, <<arr>>)

(* push_addr and recover_addr.  Rm = 31 is the post-index by the bytes
   transferred. *)
Addressing(post, rm, rn, bytes) ==
  IF ~post THEN <<At(rn)>>
  ELSE IF rm = 31 THEN <<Mem(rn, bytes, "PostImm")>>
  ELSE <<Mem(rn, 0, "PostReg"), Gp(1, rm)>>

RecoverAddr(x, n, bytes) ==
  IF ~IsMemAt(x, n) \/ ModeAt(x, n) \in {"PreIndex", "PreNoOffset"} THEN BadOperand
  ELSE CASE ModeAt(x, n) = "Offset"  -> IF DispAt(x, n) = 0 THEN Ok(<<0, 0>>) ELSE BadImmediate
         [] ModeAt(x, n) = "PostImm" -> IF DispAt(x, n) = bytes THEN Ok(<<2, 31>>) ELSE BadImmediate
         [] OTHER -> IF IsRegAt(x, n + 1) /\ RegAt(x, n + 1) # 31 THEN Ok(<<2, RegAt(x, n + 1)>>)
                     ELSE BadOperand

(***************************************************************************)
(* Structures: multiple, single and replicated                             *)
(***************************************************************************)

(* opcode, structure elements, registers. *)
MultRow == {<<0, 4, 4>>, <<2, 1, 4>>, <<4, 3, 3>>, <<6, 1, 3>>, <<7, 1, 1>>, <<8, 2, 2>>, <<10, 1, 2>>}
StructName(l, n) == <<Entry(<<"St", "Ld">>, l), Entry(<<"1", "2", "3", "4">>, n - 1)>>
MultCode(l, n)   == CodeWith(StructName(l, n), "Multiple", "")
SingleCode(l, n) == CodeWith(StructName(l, n), "Single", "")
RepCode(n)       == CodeWith(StructName(1, n), "Rep", "")
Post(w) == w.opc >= 2
Q(w) == w.size
RegBytes(q) == IF q = 1 THEN 16 ELSE 8

DecodeMultiple(w, ip) ==
  LET rows == {r \in MultRow : r[1] = w.mid % 16}
      r    == CHOOSE r \in rows : TRUE
  IN  IF \/ w.b21 = 1 \/ (~Post(w) /\ RsOf(w) # 0) \/ rows = {}
         \/ r[2] > 1 /\ w.op4 = 3 /\ Q(w) = 0
      THEN NewInvalid(w, ip)
      ELSE Set(w, ip, MultCode(w.opc % 2, r[2]),
               <<VList(w.rt, r[3], Arr(w.op4, Q(w)), NoLane)>>
                 \o Addressing(Post(w), RsOf(w), w.rn, r[3] * RegBytes(Q(w))))

(* The element size (a power of two bytes) and the lane Q:S:size holds; the
   bits of size it does not use are zero. *)
LaneOf(w) ==
  LET s == w.mid % 2
      field == 8 * w.size + 4 * s + w.op4
  IN  CASE (w.mid \div 4) % 4 = 0 -> {<<0, field>>}
        [] (w.mid \div 4) % 4 = 1 -> IF w.op4 % 2 = 0 THEN {<<1, field \div 2>>} ELSE {}
        [] OTHER -> IF w.op4 = 0 THEN {<<2, field \div 4>>}
                    ELSE IF w.op4 = 1 /\ s = 0 THEN {<<3, field \div 8>>} ELSE {}
LaneArr(log) == Arr(log, 0)

(* nregs = opcode<0>:R + 1 *)
NRegs(w) == 2 * ((w.mid \div 2) % 2) + w.b21 + 1

DecodeSingleStructure(w, ip) ==
  LET n    == NRegs(w)
      lane == CHOOSE f \in LaneOf(w) : TRUE
      replicate == (w.mid \div 4) % 4 = 3
  IN  IF ~Post(w) /\ RsOf(w) # 0 THEN NewInvalid(w, ip)
      ELSE IF replicate
      THEN IF w.opc % 2 = 0 \/ w.mid % 2 = 1 THEN NewInvalid(w, ip)
           ELSE Set(w, ip, RepCode(n),
                    <<VList(w.rt, n, Arr(w.op4, Q(w)), NoLane)>>
                      \o Addressing(Post(w), RsOf(w), w.rn, n * 2^w.op4))
      ELSE IF LaneOf(w) = {} THEN NewInvalid(w, ip)
      ELSE Set(w, ip, SingleCode(w.opc % 2, n),
               <<VList(w.rt, n, LaneArr(lane[1]), OneLane(lane[2]))>>
                 \o Addressing(Post(w), RsOf(w), w.rn, n * 2^lane[1]))

DecodeStructure(w, ip) ==
  IF w.hi = 0 THEN DecodeMultiple(w, ip) ELSE DecodeSingleStructure(w, ip)

StructWord(q, hi, post, l, r, rm, opcode, size, x) ==
  Pack(q, 1, 1, hi, post + l, r, 16 * rm + opcode, size, RnAt(x, 1), RegAt(x, 0))
IsList(x) == OpAt(x, 0).kind = "MultiReg"
CountOf(x) == OpAt(x, 0).val
ArrAt(x) == OpAt(x, 0).dec[1]
HasLane(x) == OpAt(x, 0).idx # NoLane
IsArr(a) == \E f \in (0..3) \X Bit : Arr(f[1], f[2]) = a

EncodeMultiple(x) ==
  LET f    == CHOOSE f \in Bit \X (1..4) : MultCode(f[1], f[2]) = x.code
      rows == {r \in MultRow : r[2] = f[2] /\ r[3] = CountOf(x)}
      a    == ArrOf(ArrAt(x))
      addr == RecoverAddr(x, 1, CountOf(x) * RegBytes(a[2]))
  IN  IF ~IsList(x) \/ HasLane(x) \/ rows = {} \/ ~IsArr(ArrAt(x)) THEN BadOperand
      ELSE With(TRUE, addr,
                StructWord(a[2], 0, addr.v[1], f[1], 0, addr.v[2], (CHOOSE r \in rows : TRUE)[1], a[1], x))

EncodeReplicate(x) ==
  LET n    == CHOOSE n \in 1..4 : RepCode(n) = x.code
      a    == ArrOf(ArrAt(x))
      addr == RecoverAddr(x, 1, n * 2^a[1])
  IN  IF ~IsList(x) \/ HasLane(x) \/ CountOf(x) # n \/ ~IsArr(ArrAt(x)) THEN BadOperand
      ELSE With(TRUE, addr,
                StructWord(a[2], 1, addr.v[1], 1, (n - 1) % 2, addr.v[2],
                           12 + 2 * ((n - 1) \div 2), a[1], x))

EncodeSingleStructure(x) ==
  LET f    == CHOOSE f \in Bit \X (1..4) : SingleCode(f[1], f[2]) = x.code
      n    == f[2]
      log  == CHOOSE i \in 0..3 : LaneArr(i) = ArrAt(x)
      lane == OpAt(x, 0).idx[2]
      \* Q:S:size, the lane above the unused bits and, for D, the one of size
      bits == lane * 2^log + (IF log = 3 THEN 1 ELSE 0)
      scale == IF log = 3 THEN 2 ELSE log
      addr == RecoverAddr(x, 1, n * 2^log)
  IN  IF \/ ~IsList(x) \/ ~HasLane(x) \/ CountOf(x) # n
         \/ \A i \in 0..3 : LaneArr(i) # ArrAt(x)
      THEN BadOperand
      ELSE With(TRUE, Both(IF lane < 16 \div 2^log THEN Ok(0) ELSE BadImmediate, addr),
                StructWord(bits \div 8, 1, addr.v[1], f[1], (n - 1) % 2, addr.v[2],
                           4 * scale + 2 * ((n - 1) \div 2) + ((bits \div 4) % 2), bits % 4, x))

(***************************************************************************)
(* Memory copy and memory set (FEAT_MOPS)                                  *)
(***************************************************************************)
StageName == <<"p", "m", "e">>
CopyHint == <<"", "wt", "rt", "t", "wn", "wtwn", "rtwn", "twn", "rn", "wtrn", "rtrn", "trn", "n",
              "wtn", "rtn", "tn">>
SetHint == <<"", "t", "n", "tn">>
Op1(w) == 2 * w.opc + w.b21
Op2(w) == w.mid % 16

(* (family, op1, op2): op1 is the stage of a copy, in steps of two, and 6
   marks a set, whose stage is in op2. *)
MopsCode(family, op1, op2) ==
  IF op1 = 6
  THEN CodeWith(<<Entry(<<"set", "setg">>, family), Entry(StageName, op2 \div 4),
                  Entry(SetHint, op2 % 4)>>, "Mops", "")
  ELSE CodeWith(<<Entry(<<"cpyf", "cpy">>, family), Entry(StageName, op1 \div 2),
                  Entry(CopyHint, op2)>>, "Mops", "")
MopsField == {f \in Bit \X {0, 2, 4, 6} \X (0..15) : f[2] = 6 => f[3] < 12}
SetgoCode(op2) ==
  CodeWith(<<"setgo", Entry(StageName, op2 \div 4), Entry(SetHint, op2 % 4)>>, "Mops", "")

Bang(n) == Op("RegBang", Gp(1, n).reg, NoReg, 0, NoDec)
MemBang(n) == Op("MemImm", Gp(1, n).reg, NoReg, 0, <<"PreNoOffset">>)
IsBangAt(x, n) == OpAt(x, n).kind = "RegBang"
IsMemBangAt(x, n) == IsModeAt(x, n, "PreNoOffset") /\ OpAt(x, n).val = 0

(* The three registers differ and the destination is not 31. *)
Distinct(w) == w.rt # w.rn /\ w.rt # RsOf(w) /\ w.rn # RsOf(w) /\ w.rt # 31

DecodeMops(w, ip) ==
  LET f == <<w.v, Op1(w), Op2(w)>>
      c == MopsCode(w.v, Op1(w), Op2(w))
      set == Op1(w) = 6
  IN  IF f \notin MopsField \/ ~Distinct(w) \/ (~set /\ RsOf(w) = 31) THEN NewInvalid(w, ip)
      ELSE IF set THEN Set(w, ip, c, <<MemBang(w.rt), Bang(w.rn), Gp(1, RsOf(w))>>)
      ELSE Set(w, ip, c, <<MemBang(w.rt), MemBang(RsOf(w)), Bang(w.rn)>>)

DecodeSetgOption(w, ip) ==
  IF RsOf(w) # 31 \/ Op2(w) > 11 \/ w.rt = 31 \/ w.rt = w.rn THEN NewInvalid(w, ip)
  ELSE Set(w, ip, SetgoCode(Op2(w)), <<MemBang(w.rt), Bang(w.rn)>>)

MopsWord(family, op1, rn, op2, op4, rs, rd) ==
  Pack(0, 3, family, 1, op1 \div 2, 0, 16 * rn + op2, op4, rs, rd)

EncodeMops(x) ==
  LET f == CHOOSE f \in MopsField : MopsCode(f[1], f[2], f[3]) = x.code
      set == f[2] = 6
      at == IF set THEN 1 ELSE 2      \* the size register
  IN  With(/\ IsMemBangAt(x, 0) /\ IsBangAt(x, at)
           /\ IF set THEN IsRegAt(x, 2) ELSE IsMemBangAt(x, 1), Ok(0),
           MopsWord(f[1], f[2], RegAt(x, 3 - at), f[3], 1, RegAt(x, at), RegAt(x, 0)))

EncodeSetgOption(x) ==
  LET op2 == CHOOSE f \in 0..11 : SetgoCode(f) = x.code
  IN  With(IsMemBangAt(x, 0) /\ IsBangAt(x, 1), Ok(0),
           MopsWord(1, 6, 31, op2, 0, RegAt(x, 1), RegAt(x, 0)))
=============================================================================
