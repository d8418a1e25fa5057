--------------------------- MODULE MCInstruction ---------------------------
(***************************************************************************)
(* The editing API over the branch and PC-relative instructions.           *)
(***************************************************************************)
EXTENDS Instruction, BranchImm

MCReg == {NoReg, <<"W", 0>>, <<"W", 9>>, <<"X", 0>>, <<"X", 9>>, <<"P", 0>>, <<"P", 9>>}
MCMnemonic == {MnemonicOf(c) : c \in BranchCode}

(* One word of each class, and one the features leave unallocated. *)
MCInWords ==
  {[class |-> "b", op |-> 1, imm |-> 7],
   [class |-> "bcond", o0 |-> 0, cond |-> 1, imm |-> 1],
   [class |-> "tbz", b5 |-> 1, op |-> 0, b40 |-> 1, rt |-> 0, imm |-> 3],
   [class |-> "cbreg", sf |-> 1, cc |-> 1, size |-> 0, rm |-> 9, rt |-> 0, imm |-> 0],
   [class |-> "cbreg", sf |-> 0, cc |-> 4, size |-> 0, rm |-> 9, rt |-> 0, imm |-> 0],
   [class |-> "cbimm", sf |-> 0, cc |-> 0, b14 |-> 0, imm6 |-> 1, rt |-> 9, imm |-> 2],
   [class |-> "retsppc", m |-> 0, imm |-> 3],
   [class |-> "adr", op |-> 1, rd |-> 0, imm |-> 3],
   [class |-> "udf", imm |-> 2]}
MCInAddrs == {0, 4, 4096, 65528}
MCInOps == {LabelOp(4), Op("ShiftAmount", NoReg, NoReg, 1, NoDec),
            Op("PredCounter", <<"P", 9>>, NoReg, 0, <<1>>),
            Op("MemImm", <<"X", 0>>, NoReg, 4, <<1>>),
            Op("SveMem", <<"X", 0>>, <<"P", 0>>, 0, <<1>>)}
MCInRegs == {<<"X", 9>>, <<"P", 0>>}
MCDec == {NoDec, <<1>>}
MCInVals == {1, 12, 33}
MCInCodes == {<<"B", "uncond">>, <<"Adr">>, <<"Cbb", "gt">>}
MCInMnemonics == {<<"B">>}

(* What the theorems about branches ask of the constants, besides the codec
   that stands for decode and encode. *)
ASSUME CodecFits ==
  /\ \A c \in BranchCode : MnemonicOf(c) \in Mnemonic
  /\ \A n \in RegNum : <<"W", n>> \in Reg /\ <<"X", n>> \in Reg
  /\ \A r \in Reg : NumberOf(r) \in RegNum
  /\ CondVal = Cond4 /\ 2 * C5 <= AddrMod /\ C6 <= AddrMod /\ CUdf <= AddrMod
  /\ {"Hbc", "PauthLr", "Cmpbr"} \subseteq Features
=============================================================================
