----------------------------- MODULE BranchImm -----------------------------
(***************************************************************************)
(* The instructions that carry a PC-relative label in the branch and       *)
(* PC-relative-addressing groups, and UDF: their decoders                  *)
(* (src/decode/branch_sys.rs, dp_imm.rs, mod.rs) and encoders              *)
(* (src/encode/branch_sys.rs, dp_imm.rs).                                  *)
(*                                                                         *)
(* A word is a record of the fields of its encoding class.  The width of   *)
(* an immediate field is its number of values (C26 stands for 2^26, ...);  *)
(* a Code is a tuple of its spelling and its variant.                      *)
(***************************************************************************)
EXTENDS Fields

CONSTANTS
  C26, C19, C14, C9, C16, C21,   \* values of the immediate fields
  C5, C6,                        \* values of b40 (TBZ) and imm6 (CB)
  CUdf,                          \* values of the UDF immediate
  U32,                           \* number of u32 values
  Granule, Page,                 \* 4 and 4096 in the code
  RegNum, Cond4,                 \* register numbers and conditions
  Features                       \* enabled runtime features

(* The reach of a field does not wrap around the address space, and a bit
   position fits a u32. *)
ASSUME FieldsAssumption ==
  /\ Granule = 4 /\ Page = 4096
  /\ AddrMod \in Nat \ {0} /\ AddrMod % Page = 0
  /\ \A c \in {C26, C19, C14, C9, C16, C21} : c \in Nat \ {0} /\ c % 2 = 0
  /\ \A c \in {C26, C19, C14, C9, C16} : c * Granule <= AddrMod
  /\ C21 * Page <= AddrMod
  /\ C5 \in Nat \ {0} /\ C6 \in Nat \ {0} /\ CUdf \in Nat \ {0}
  /\ U32 \in Nat /\ 2 * C5 <= U32
  /\ MAX_OPERANDS \in Nat /\ MAX_OPERANDS >= 3

Bit == {0, 1}

BWord     == [class : {"b"}, op : Bit, imm : 0..(C26 - 1)]
BCondWord == [class : {"bcond"}, o0 : Bit, cond : Cond4, imm : 0..(C19 - 1)]
SppcWord  == [class : {"retsppc", "autisppc"}, m : Bit, imm : 0..(C16 - 1)]
CbzWord   == [class : {"cbz"}, sf : Bit, op : Bit, rt : RegNum, imm : 0..(C19 - 1)]
TbzWord   == [class : {"tbz"}, b5 : Bit, op : Bit, b40 : 0..(C5 - 1),
              rt : RegNum, imm : 0..(C14 - 1)]
CbRegWord == [class : {"cbreg"}, sf : Bit, cc : 0..7, size : 0..3,
              rm : RegNum, rt : RegNum, imm : 0..(C9 - 1)]
CbImmWord == [class : {"cbimm"}, sf : Bit, cc : 0..7, b14 : Bit,
              imm6 : 0..(C6 - 1), rt : RegNum, imm : 0..(C9 - 1)]
AdrWord   == [class : {"adr"}, op : Bit, rd : RegNum, imm : 0..(C21 - 1)]
UdfWord   == [class : {"udf"}, imm : 0..(CUdf - 1)]

BranchWord == BWord \cup BCondWord \cup SppcWord \cup CbzWord \cup TbzWord
                \cup CbRegWord \cup CbImmWord \cup AdrWord \cup UdfWord

(***************************************************************************)
(* Faulty variants, used to show that the properties detect them.          *)
(***************************************************************************)
HasImm_AnyFamily(c) == \E i \in DOMAIN <<"gt", "lt", "hi", "lo", "none", "none", "eq", "ne">> :
                         <<"gt", "lt", "hi", "lo", "none", "none", "eq", "ne">>[i] = c[2]

(***************************************************************************)
(* Decode                                                                  *)
(***************************************************************************)

(* The members of Code that the classes above decode to. *)
BranchCode ==
  {<<"Invalid">>, <<"B", "uncond">>, <<"Bl">>, <<"B", "cond">>, <<"Bc">>,
   <<"Tbz">>, <<"Tbnz">>, <<"Adr">>, <<"Adrp">>, <<"Udf">>}
    \cup ({"Cbz", "Cbnz"} \X {"32", "64"})
    \cup ({"RetSppc", "AutiSppc"} \X {"a", "b"})
    \cup ({"Cb", "Cbb", "Cbh"} \X {"gt", "ge", "lt", "hi", "hs", "lo", "eq", "ne"})

(* Code::mnemonic: the forms that differ in operand width or condition
   operand only share a mnemonic. *)
MnemonicOf(c) ==
  IF c[1] \in {"Cb", "Cbb", "Cbh", "RetSppc", "AutiSppc"} THEN c ELSE <<c[1]>>

Made(w, ip, c, list) == Built(w, ip, c, MnemonicOf(c), list)

DecodeB(w, ip) ==
  Made(w, ip, IF w.op = 1 THEN <<"Bl">> ELSE <<"B", "uncond">>,
       <<LabelOp(RelTarget(w.imm, ip, C26, Granule))>>)

(* decode_cond_branch: o0 selects the hinted branch of FEAT_HBC. *)
DecodeBCond(w, ip) ==
  IF w.o0 = 1 /\ "Hbc" \notin Features
  THEN NewInvalid(w, ip)
  ELSE Made(w, ip, IF w.o0 = 1 THEN <<"Bc">> ELSE <<"B", "cond">>,
            <<CondOp(w.cond), LabelOp(RelTarget(w.imm, ip, C19, Granule))>>)

(* decode_ret_sppc, decode_auti_sppc, push_sppc_label. *)
DecodeSppc(w, ip) ==
  LET c == <<IF w.class = "retsppc" THEN "RetSppc" ELSE "AutiSppc",
             IF w.m = 1 THEN "b" ELSE "a">>
  IN  IF "PauthLr" \in Features
      THEN Made(w, ip, c, <<LabelOp(SppcTarget(w.imm, ip, Granule))>>)
      ELSE NewInvalid(w, ip)

DecodeCbz(w, ip) ==
  Made(w, ip, <<IF w.op = 1 THEN "Cbnz" ELSE "Cbz", IF w.sf = 1 THEN "64" ELSE "32">>,
       <<Gp(w.sf, w.rt), LabelOp(RelTarget(w.imm, ip, C19, Granule))>>)

(* The bit position is b5:b40; the register is X exactly when b5 is 1. *)
DecodeTbz(w, ip) ==
  Made(w, ip, <<IF w.op = 1 THEN "Tbnz" ELSE "Tbz">>,
       <<Gp(w.b5, w.rt), ImmOp(w.b5 * C5 + w.b40),
         LabelOp(RelTarget(w.imm, ip, C14, Granule))>>)

(* The condition of the cc field, in the register and the immediate form;
   4 and 5 are unallocated. *)
RegCc == <<"gt", "ge", "hi", "hs", "none", "none", "eq", "ne">>
ImmCc == <<"gt", "lt", "hi", "lo", "none", "none", "eq", "ne">>

(* The family of the size field; 1 is unallocated. *)
CbFamily == <<"Cb", "none", "Cbb", "Cbh">>

DecodeCbReg(w, ip) ==
  IF \/ "Cmpbr" \notin Features
     \/ RegCc[w.cc + 1] = "none" \/ CbFamily[w.size + 1] = "none"
     \/ w.size # 0 /\ w.sf = 1
  THEN NewInvalid(w, ip)
  ELSE Made(w, ip, <<CbFamily[w.size + 1], RegCc[w.cc + 1]>>,
            <<Gp(w.sf, w.rt), Gp(w.sf, w.rm),
              LabelOp(RelTarget(w.imm, ip, C9, Granule))>>)

DecodeCbImm(w, ip) ==
  IF "Cmpbr" \notin Features \/ w.b14 = 1 \/ ImmCc[w.cc + 1] = "none"
  THEN NewInvalid(w, ip)
  ELSE Made(w, ip, <<"Cb", ImmCc[w.cc + 1]>>,
            <<Gp(w.sf, w.rt), ImmOp(w.imm6),
              LabelOp(RelTarget(w.imm, ip, C9, Granule))>>)

(* decode_pc_rel. *)
DecodeAdr(w, ip) ==
  Made(w, ip, <<IF w.op = 1 THEN "Adrp" ELSE "Adr">>,
       <<Gp(1, w.rd), LabelOp(IF w.op = 1 THEN AdrpTarget(w.imm, ip, C21, Page)
                                          ELSE RelTarget(w.imm, ip, C21, 1))>>)

DecodeUdf(w, ip) == Made(w, ip, <<"Udf">>, <<ImmOp(w.imm)>>)

(* decode_into, the arms of the classes above. *)
Decode(w, ip) ==
  CASE w.class = "b"     -> DecodeB(w, ip)
    [] w.class = "bcond" -> DecodeBCond(w, ip)
    [] w.class = "cbz"   -> DecodeCbz(w, ip)
    [] w.class = "tbz"   -> DecodeTbz(w, ip)
    [] w.class = "cbreg" -> DecodeCbReg(w, ip)
    [] w.class = "cbimm" -> DecodeCbImm(w, ip)
    [] w.class = "adr"   -> DecodeAdr(w, ip)
    [] w.class = "udf"   -> DecodeUdf(w, ip)
    [] w.class \in {"retsppc", "autisppc"} -> DecodeSppc(w, ip)

(***************************************************************************)
(* Encode                                                                  *)
(***************************************************************************)

LabelField(x, n, card) == RelImm(ValAt(x, n), x.ip, card, Granule)

EncodeB(x) ==
  LET f == LabelField(x, 0, C26)
  IN  With(IsLabelAt(x, 0), f,
           [class |-> "b", op |-> IF x.code = <<"Bl">> THEN 1 ELSE 0, imm |-> f.v])

EncodeBCond(x) ==
  LET f == LabelField(x, 1, C19)
  IN  With(OpAt(x, 0).kind = "Cond" /\ IsLabelAt(x, 1), f,
           [class |-> "bcond", o0 |-> IF x.code = <<"Bc">> THEN 1 ELSE 0,
            cond |-> ValAt(x, 0), imm |-> f.v])

(* enc_pauth_lr_sppc. *)
EncodeSppc(x) ==
  LET f == SppcImm(ValAt(x, 0), x.ip, C16, Granule)
  IN  With(IsLabelAt(x, 0), f,
           [class |-> IF x.code[1] = "RetSppc" THEN "retsppc" ELSE "autisppc",
            m |-> IF x.code[2] = "b" THEN 1 ELSE 0, imm |-> f.v])

EncodeCbz(x) ==
  LET f == LabelField(x, 1, C19)
  IN  With(IsRegAt(x, 0) /\ IsLabelAt(x, 1), f,
           [class |-> "cbz", sf |-> IF x.code[2] = "64" THEN 1 ELSE 0,
            op |-> IF x.code[1] = "Cbnz" THEN 1 ELSE 0, rt |-> RegAt(x, 0), imm |-> f.v])

(* The bit position is taken `as u32` before its range check. *)
EncodeTbz(x) ==
  LET bitpos == ValAt(x, 1) % U32
      f == LabelField(x, 2, C14)
  IN  IF IsRegAt(x, 0) /\ IsImmAt(x, 1) /\ bitpos >= 2 * C5
      THEN Err("InvalidImmediate")
      ELSE With(IsRegAt(x, 0) /\ IsImmAt(x, 1) /\ IsLabelAt(x, 2), f,
                [class |-> "tbz", b5 |-> bitpos \div C5, b40 |-> bitpos % C5,
                 op |-> IF x.code = <<"Tbnz">> THEN 1 ELSE 0, rt |-> RegAt(x, 0),
                 imm |-> f.v])

(* enc_cmpbr: the condition and size fields of a Code, by form. *)
IndexOf(table, s) == (CHOOSE i \in DOMAIN table : table[i] = s) - 1

HasReg(c) == \E i \in DOMAIN RegCc : RegCc[i] = c[2]
HasImm(c) == c[1] = "Cb" /\ \E i \in DOMAIN ImmCc : ImmCc[i] = c[2]

(* Register form: the byte and halfword families are W-only. *)
EncodeCbReg(x, f) ==
  LET word == x.code[1] = "Cb"
  IN  With(/\ HasReg(x.code) /\ IsRegAt(x, 0)
           /\ word \/ ~(IsXAt(x, 0) \/ IsXAt(x, 1)), f,
           [class |-> "cbreg", sf |-> IF word /\ IsXAt(x, 0) THEN 1 ELSE 0,
            cc |-> IndexOf(RegCc, x.code[2]), size |-> IndexOf(CbFamily, x.code[1]),
            rm |-> RegAt(x, 1), rt |-> RegAt(x, 0), imm |-> f.v])

EncodeCbImm(x, f) ==
  With(HasImm(x.code) /\ IsRegAt(x, 0),
       IF ValAt(x, 1) < C6 THEN f ELSE Err("InvalidImmediate"),
       [class |-> "cbimm", sf |-> IF IsXAt(x, 0) THEN 1 ELSE 0,
        cc |-> IndexOf(ImmCc, x.code[2]), b14 |-> 0,
        imm6 |-> ValAt(x, 1), rt |-> RegAt(x, 0), imm |-> f.v])

(* The label first; operand 1 selects the form. *)
EncodeCmpbr(x) ==
  LET f == LabelField(x, 2, C9)
  IN  IF ~IsLabelAt(x, 2) THEN Err("InvalidOperand")
      ELSE IF ~f.ok THEN f
      ELSE IF IsRegAt(x, 1) THEN EncodeCbReg(x, f)
      ELSE IF IsImmAt(x, 1) /\ OpAt(x, 1).kind # "ShiftAmount" THEN EncodeCbImm(x, f)
      ELSE Err("InvalidOperand")

(* enc_pc_rel. *)
EncodeAdr(x) ==
  LET page == x.code = <<"Adrp">>
      f == IF page THEN AdrpImm(ValAt(x, 1), x.ip, C21, Page)
                   ELSE RelImm(ValAt(x, 1), x.ip, C21, 1)
  IN  With(IsRegAt(x, 0) /\ IsLabelAt(x, 1), f,
           [class |-> "adr", op |-> IF page THEN 1 ELSE 0, rd |-> RegAt(x, 0), imm |-> f.v])

EncodeUdf(x) ==
  LET f == IF ValAt(x, 0) < CUdf THEN Ok(ValAt(x, 0)) ELSE Err("InvalidImmediate")
  IN  With(IsImmAt(x, 0), f, [class |-> "udf", imm |-> f.v])

(* encode::encode, the arms of the codes above. *)
Encode(x) ==
  CASE x.code[1] = "Invalid"          -> Err("Invalid")
    [] x.code \in {<<"B", "uncond">>, <<"Bl">>} -> EncodeB(x)
    [] x.code \in {<<"B", "cond">>, <<"Bc">>}   -> EncodeBCond(x)
    [] x.code[1] \in {"Cbz", "Cbnz"}  -> EncodeCbz(x)
    [] x.code[1] \in {"Tbz", "Tbnz"}  -> EncodeTbz(x)
    [] x.code[1] \in {"Cb", "Cbb", "Cbh"} -> EncodeCmpbr(x)
    [] x.code[1] \in {"Adr", "Adrp"}  -> EncodeAdr(x)
    [] x.code = <<"Udf">>             -> EncodeUdf(x)
    [] x.code[1] \in {"RetSppc", "AutiSppc"} -> EncodeSppc(x)

(* flow_control() names a direct branch or call. *)
IsDirect(x) == x.mnem[1] \in {"B", "Bc", "Bl", "Cbz", "Cbnz", "Tbz", "Tbnz", "Cb", "Cbb", "Cbh"}
=============================================================================
