----------------------------- MODULE Formatter -----------------------------
(***************************************************************************)
(* The text path of src/format/fmt_writer.rs: FmtFormatter hands the text  *)
(* of an instruction to a sink chunk by chunk and ignores write errors; a  *)
(* BufSink takes a chunk whole or not at all.                              *)
(*                                                                         *)
(* A text is a sequence of bytes.  A byte is <<character, upper case, its  *)
(* place in the character, the bytes of the character>>.  How an operand   *)
(* is worded is left out: an operand is the list of the pieces it renders  *)
(* to, some of which follow the case option (emit_cased).                  *)
(***************************************************************************)
EXTENDS Integers, Sequences, SequencesExt

CONSTANTS
  Chars,              \* characters
  Names, CondNames,   \* texts of mnemonics and of conditions
  OperandTexts,       \* operands: sequences of pieces [text, cased]
  Columns,            \* values of first_operand_char_index
  CasedBuf,           \* bytes of the rolling buffer of emit_cased (16)
  SpacesRun,          \* spaces written at once (32)
  MaxOps, MaxCap, MaxCalls

Byte == Chars \X BOOLEAN \X (1..4) \X (1..4)
AsciiByte == Chars \X BOOLEAN \X {1} \X {1}

(* Every character of a text is there with all its bytes in order. *)
WholeChars(text) ==
  \A n \in DOMAIN text :
    LET b == text[n] IN
    /\ n - b[3] + b[4] <= Len(text)
    /\ n > b[3] - 1
    /\ \A k \in 1..b[4] : text[n - b[3] + k] = [b EXCEPT ![3] = k]

(* What is rendered in the case asked for comes from tables of ASCII names;
   the rest is whole text (a str). *)
Pieces ==
  {p \in [text : Seq(Byte), cased : BOOLEAN] :
     WholeChars(p.text) /\ (p.cased => p.text \in Seq(AsciiByte))}

ASSUME FormatterAssumption ==
  /\ CasedBuf \in Nat \ {0} /\ SpacesRun \in Nat \ {0}
  /\ {MaxOps, MaxCap, MaxCalls} \subseteq Nat /\ Columns \subseteq Nat
  /\ {".", ",", " "} \subseteq Chars
  /\ Names \cup CondNames \subseteq Seq(AsciiByte)
  /\ OperandTexts \subseteq Seq(Pieces)

VARIABLES
  cap,        \* buf.len()
  buf,        \* buf[..len]
  overflow,   \* the sink's overflow flag
  todo,       \* the chunks the running call has still to write
  handed,     \* history: every byte handed to the sink
  wanted,     \* history: the texts of the instructions formatted so far
  calls       \* format() calls so far

vars == <<cap, buf, overflow, todo, handed, wanted, calls>>

Ascii(c) == <<<<c, FALSE, 1, 1>>>>
Letters == {"a", "b", "c", "r"}
Upper(text) == [i \in DOMAIN text |-> [text[i] EXCEPT ![2] = text[i][1] \in Letters]]
Spaces(n) == [i \in 1..n |-> Ascii(" ")[1]]

(* cond is the text of a condition in operand 0 of a B.cond, else empty. *)
Instructions ==
  {i \in [name : Names, bcond : BOOLEAN, cond : CondNames \cup {<<>>}, ops : SeqOf(OperandTexts, MaxOps)] :
     i.cond # <<>> => i.bcond /\ i.ops # <<>>}
Options == [upper : BOOLEAN, column : Columns, spaced : BOOLEAN]

(***************************************************************************)
(* Faulty variants, used to show that the properties detect them.          *)
(***************************************************************************)
Taken_WhatFits(text) == SubSeq(text, 1, IF Len(text) > cap - Len(buf) THEN cap - Len(buf) ELSE Len(text))
Overflowing_LastOnly(text) == Len(text) > cap - Len(buf)
Padding_MayBeEmpty(have, o) == IF o.column >= have THEN o.column - have ELSE 1

(***************************************************************************)
(* The chunks of a call                                                    *)
(***************************************************************************)

(* A text cut into runs of n bytes, the last one shorter; none if empty. *)
Runs(text, n) ==
  [k \in 1..((Len(text) + n - 1) \div n) |->
     SubSeq(text, n * (k - 1) + 1, IF n * k < Len(text) THEN n * k ELSE Len(text))]

(* emit_cased: upper case goes through the rolling buffer. *)
Cased(text, o) == IF o.upper THEN Runs(Upper(text), CasedBuf) ELSE <<text>>
EmitSpaces(n) == Runs(Spaces(n), SpacesRun)

(* At least one space separates the mnemonic from an operand. *)
Padding(have, o) == IF o.column > have THEN o.column - have ELSE 1

(* format_mnemonic: B.cond takes its condition, operand 0, into the name. *)
MnemonicChunks(i, o) ==
  LET suffix == IF i.cond # <<>> THEN <<Ascii(".")>> \o Cased(i.cond, o) ELSE <<>>
      have   == Len(i.name) + (IF suffix = <<>> THEN 0 ELSE 1 + Len(i.cond))
      follow == Len(i.ops) > IF i.bcond THEN 1 ELSE 0
  IN  Cased(i.name, o) \o suffix \o (IF follow THEN EmitSpaces(Padding(have, o)) ELSE <<>>)

Separator(o) == IF o.spaced THEN Ascii(",") \o Ascii(" ") ELSE Ascii(",")

OperandChunks(i, n, o) ==
  FlattenSeq([k \in 1..Len(i.ops[n]) |->
                IF i.ops[n][k].cased THEN Cased(i.ops[n][k].text, o) ELSE <<i.ops[n][k].text>>])

(* format: the operands from the first one shown. *)
Chunks(i, o) ==
  LET start == IF i.bcond THEN 1 ELSE 0
  IN  MnemonicChunks(i, o)
        \o FlattenSeq([k \in 1..(IF Len(i.ops) > start THEN Len(i.ops) - start ELSE 0) |->
                         (IF k = 1 THEN <<>> ELSE <<Separator(o)>>) \o OperandChunks(i, start + k, o)])

(***************************************************************************)
(* The text a call stands for: the padded mnemonic, then the operands      *)
(* joined by the separator, in one case throughout.                        *)
(***************************************************************************)
InCase(p, o) == IF p.cased /\ o.upper THEN Upper(p.text) ELSE p.text
OperandText(pieces, o) == FlattenSeq([k \in DOMAIN pieces |-> InCase(pieces[k], o)])
Joined(texts, sep) ==
  FlattenSeq([k \in DOMAIN texts |-> IF k = 1 THEN texts[k] ELSE sep \o texts[k]])

TextOf(i, o) ==
  LET shown == IF i.bcond THEN SubSeq(i.ops, 2, Len(i.ops)) ELSE i.ops
      name  == i.name \o (IF i.cond # <<>> THEN Ascii(".") \o i.cond ELSE <<>>)
      head  == InCase([text |-> name, cased |-> TRUE], o)
      first == IF Len(head) < o.column THEN o.column ELSE Len(head) + 1
  IN  IF shown = <<>> THEN head
      ELSE head \o Spaces(first - Len(head))
             \o Joined([k \in DOMAIN shown |-> OperandText(shown[k], o)], Separator(o))

(***************************************************************************)
(* The sink                                                                *)
(***************************************************************************)
Init ==
  /\ cap \in 0..MaxCap
  /\ buf = <<>> /\ overflow = FALSE                   \* BufSink::new
  /\ todo = <<>> /\ handed = <<>> /\ wanted = <<>> /\ calls = 0

(* A call on any instruction and options, after the one before it. *)
Format ==
  /\ todo = <<>> /\ calls < MaxCalls
  /\ \E i \in Instructions, o \in Options :
       /\ todo' = Chunks(i, o)
       /\ wanted' = wanted \o TextOf(i, o)
  /\ calls' = calls + 1
  /\ UNCHANGED <<cap, buf, overflow, handed>>

Fits(text) == Len(text) <= cap - Len(buf)
Taken(text) == IF Fits(text) THEN text ELSE <<>>
Overflowing(text) == overflow \/ ~Fits(text)

(* FormatterOutput::write: write_str with its error dropped. *)
Write ==
  /\ todo # <<>>
  /\ todo' = Tail(todo)
  /\ buf' = buf \o Taken(Head(todo))
  /\ overflow' = Overflowing(Head(todo))
  /\ handed' = handed \o Head(todo)
  /\ UNCHANGED <<cap, wanted, calls>>

Next == Format \/ Write
Spec == Init /\ [][Next]_vars

(***************************************************************************)
(* Properties                                                              *)
(***************************************************************************)

(* as_str: the bytes written are valid UTF-8 and stay within the buffer,
   wherever the text was cut off: every character is there with all its
   bytes in order. *)
WrittenIsUtf8 == Len(buf) <= cap /\ WholeChars(buf)

(* overflowed() is TRUE exactly when some byte was lost, and stays so however
   much of the later text fits; without it nothing is missing. *)
OverflowedIffLost == IF overflow THEN Len(buf) < Len(handed) ELSE buf = handed

(* After a call, cut up by the case buffer and the space runs as it was, the
   sink holds the whole text of the instructions if the buffer is large
   enough for it, and says that it overflowed if it is not. *)
WholeTextWhenItFits ==
  todo = <<>> =>
    IF Len(wanted) <= cap THEN buf = wanted /\ ~overflow ELSE overflow
=============================================================================
