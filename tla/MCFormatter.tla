---------------------------- MODULE MCFormatter ----------------------------
(***************************************************************************)
(* Small texts: names shorter and longer than the case buffer and than the *)
(* operand column, and a hex prefix of a two-byte character.               *)
(***************************************************************************)
EXTENDS Formatter

MCChars == {"a", "b", "c", "r", "1", "7", "x", "#", ".", ",", " "}
Prefix == <<<<"x", FALSE, 1, 2>>, <<"x", FALSE, 2, 2>>>>
MCNames == {Ascii("a"), Ascii("a") \o Ascii("b") \o Ascii("c")}
MCCondNames == {Ascii("b") \o Ascii("c")}
RegisterText == <<[text |-> Ascii("r") \o Ascii("1") \o Ascii("a"), cased |-> TRUE]>>
NumberText == <<[text |-> Ascii("#"), cased |-> FALSE], [text |-> Prefix, cased |-> FALSE],
                [text |-> Ascii("7"), cased |-> FALSE]>>
MCOperandTexts == {<<>>, RegisterText, NumberText}
=============================================================================
