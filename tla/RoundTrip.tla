----------------------------- MODULE RoundTrip -----------------------------
(***************************************************************************)
(* The decode, encode, decode loop that the encoder's documentation        *)
(* promises is an identity on meanings (README.md "Encoding",              *)
(* tests/roundtrip.rs): a word is decoded, re-encoded from its semantics   *)
(* alone, and the result is decoded again at the same address.             *)
(***************************************************************************)
CONSTANTS
  Word,             \* instruction words
  Sample,           \* the words that may be encountered
  Address,          \* the addresses they may sit at
  DecodeWord(_, _), \* decode::decode
  EncodeInsn(_)     \* encode::encode

VARIABLES word,     \* the word read from memory
          ip,       \* its address
          insn,     \* what it decoded to
          out,      \* what insn encoded to
          again,    \* what that decoded to
          pc        \* next step

vars == <<word, ip, insn, out, again, pc>>

Init ==
  /\ word \in Sample
  /\ ip \in Address
  /\ insn = DecodeWord(word, ip)
  /\ again = insn
  /\ out = [ok |-> FALSE, v |-> word, err |-> "None"]
  /\ pc = "encode"

EncodeStep ==
  /\ pc = "encode"
  /\ out' = EncodeInsn(insn)
  /\ pc' = IF out'.ok THEN "decode" ELSE "failed"
  /\ UNCHANGED <<word, ip, insn, again>>

RedecodeStep ==
  /\ pc = "decode"
  /\ again' = DecodeWord(out.v, ip)
  /\ pc' = "done"
  /\ UNCHANGED <<word, ip, insn, out>>

Next == EncodeStep \/ RedecodeStep

Spec == Init /\ [][Next]_vars

Valid(x) == x.code # <<"Invalid">>

(***************************************************************************)
(* Properties                                                              *)
(***************************************************************************)

(* Every field of an encoded word is in range: nothing an encoder packs
   spills into a neighbouring field. *)
TypeOK ==
  /\ pc \in {"encode", "decode", "failed", "done"}
  /\ pc \in {"decode", "done"} => out.v \in Word

(* Every word that decodes encodes again; Code::Invalid alone has no
   encoding. *)
EveryDecodeEncodes == (pc = "failed") => ~Valid(insn) /\ out.err = "Invalid"

(* The re-encoded word decodes to an equivalent instruction: same code,
   mnemonic and operands. *)
SemanticRoundTrip ==
  pc = "done" => <<again.code, again.mnem, again.cnt, again.ops>>
                   = <<insn.code, insn.mnem, insn.cnt, insn.ops>>

(* Bit-exact round trip, for the encodings with one spelling only. *)
ExactRoundTrip == pc = "done" => out.v = word
=============================================================================
