----------------------------- MODULE Spelling -----------------------------
(***************************************************************************)
(* What the gated groups share: the runtime features, and for data         *)
(* processing a Code that is a name and the                                *)
(* operation's width, its mnemonic is the name until the decoder replaces  *)
(* it by a preferred alias, and tables of names in the order of an opcode  *)
(* field relate the two sides.                                             *)
(***************************************************************************)
EXTENDS Fields

CONSTANT Features          \* enabled runtime features

RegNum == 0..31
Bit == {0, 1}

Suffix(sf) == IF sf = 1 THEN "64" ELSE "32"
CodeOf(name, sf) == <<name, Suffix(sf)>>
MnemonicOf(c) == <<c[1]>>

(* set, and set_alias: the operands pushed, under the code's own mnemonic or
   under an alias. *)
Plain(w, ip, c, list) == Built(w, ip, c, MnemonicOf(c), list)
Alias(w, ip, c, m, list) == Built(w, ip, c, <<m>>, list)

Is64(x) == IF x.code[2] = "64" THEN 1 ELSE 0

(* The name of an opcode field, the field of a name, and whether a table has
   it. *)
Entry(table, i) == table[i + 1]
Place(table, name) == (CHOOSE i \in DOMAIN table : table[i] = name) - 1
Lists(table, name) == \E i \in DOMAIN table : table[i] = name

BadImmediate == Err("InvalidImmediate")
BadOperand == Err("InvalidOperand")

(* FeatureSet::has: Base is always there. *)
Has(F, feature) == feature = "Base" \/ feature \in F
Gated(feature) == Has(Features, feature)

(* A named token, as a tuple of the parts of its name. *)
SysOp(name) == Op("Other", NoReg, NoReg, 0, name)
IsTokenAt(x, n, name) == OpAt(x, n) = SysOp(name)
=============================================================================
