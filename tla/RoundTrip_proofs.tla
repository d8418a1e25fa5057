-------------------------- MODULE RoundTrip_proofs --------------------------
(***************************************************************************)
(* The decode, encode, decode loop: over every branch and PC-relative      *)
(* word, at every address, for every width of the fields; and over every   *)
(* data-processing word with an immediate or a register; both for every    *)
(* set of features, and the latter under each other set as well.           *)
(***************************************************************************)
EXTENDS MCGroups, DataProcessing_proofs

CONSTANTS
  C26, C19, C14, C9, C16, C21,   \* values of the immediate fields of branches
  C5, C6,                        \* values of b40 (TBZ) and imm6 (CB)
  CUdf,                          \* values of the UDF immediate
  Granule, Page,                 \* 4 and 4096 in the code
  BranchReg, Cond4               \* register numbers and conditions of branches

Br == INSTANCE BranchImm_proofs WITH RegNum <- BranchReg

(***************************************************************************)
(* Branches                                                                *)
(***************************************************************************)

(* The loop runs on branch words with the branch codec. *)
BranchLoop ==
  /\ Br!FieldsAssumption
  /\ Word = Br!BranchWord /\ Sample \subseteq Br!BranchWord /\ Address \subseteq Addr
  /\ \A w \in Br!BranchWord, a \in Addr : DecodeWord(w, a) = Br!Decode(w, a)
  /\ \A x : EncodeInsn(x) = Br!Encode(x)

(* The loop has not strayed: a word was produced only from a valid decode,
   it is the word the loop began with, and it decodes to what that decoded
   to. *)
BranchLoopInv ==
  /\ word \in Br!BranchWord /\ ip \in Addr
  /\ insn = Br!Decode(word, ip)
  /\ pc \in {"encode", "decode", "failed", "done"}
  /\ pc \in {"decode", "done"} => out = Ok(word)
  /\ pc = "done" => again = insn
  /\ pc = "failed" => insn.code = <<"Invalid">> /\ out.err = "Invalid"

LEMMA OkIs == ASSUME NEW v PROVE Ok(v).ok /\ Ok(v).v = v BY DEF Ok

LEMMA ErrIs == ASSUME NEW e PROVE ~Err(e).ok /\ Err(e).err = e BY DEF Err

(* Decoding a branch and encoding it gives its word. *)
LEMMA BranchBack ==
  ASSUME Br!FieldsAssumption, NEW w \in Br!BranchWord, NEW a \in Addr, Br!Decode(w, a).code # <<"Invalid">>
  PROVE  Br!Encode(Br!Decode(w, a)) = Ok(w)
BY Br!DecodeThenEncode DEF Br!Ok, Br!Addr, Ok, Addr

(* Code::Invalid has no encoding. *)
LEMMA InvalidHasNoEncoding ==
  ASSUME NEW x, x.code = <<"Invalid">>
  PROVE  ~Br!Encode(x).ok /\ Br!Encode(x).err = "Invalid"
<1>1. x.code[1] = "Invalid" OBVIOUS
<1>2. Br!Encode(x) = Err("Invalid") BY <1>1 DEF Br!Encode, Br!Err, Err
<1> QED BY <1>2, ErrIs

(* The loop invariant is inductive. *)
LEMMA BranchLoopInductive == ASSUME BranchLoop PROVE Spec => []BranchLoopInv
<1>1. Init => BranchLoopInv BY DEF Init, BranchLoopInv, BranchLoop
<1>2. BranchLoopInv /\ [Next]_vars => BranchLoopInv'
  <2> SUFFICES ASSUME BranchLoopInv, [Next]_vars PROVE BranchLoopInv' OBVIOUS
  <2> USE DEF BranchLoopInv
  <2>1. CASE EncodeStep
    <3>1. EncodeInsn(insn) = Br!Encode(insn) BY DEF BranchLoop
    <3>2. CASE insn.code = <<"Invalid">>
      <4>1. ~Br!Encode(insn).ok /\ Br!Encode(insn).err = "Invalid" BY <3>2, InvalidHasNoEncoding
      <4> QED BY <2>1, <3>1, <3>2, <4>1 DEF EncodeStep
    <3>3. CASE insn.code # <<"Invalid">>
      <4>1. Br!Encode(insn) = Ok(word) BY <3>3, BranchBack DEF BranchLoop
      <4>2. Br!Encode(insn).ok BY <4>1, OkIs
      <4> QED BY <2>1, <3>1, <4>1, <4>2 DEF EncodeStep
    <3> QED BY <3>2, <3>3
  <2>2. CASE RedecodeStep
    <3>1. out.v = word BY <2>2, OkIs DEF RedecodeStep
    <3>2. DecodeWord(out.v, ip) = insn BY <3>1 DEF BranchLoop
    <3> QED BY <2>2, <3>2 DEF RedecodeStep
  <2>3. CASE UNCHANGED vars BY <2>3 DEF vars
  <2> QED BY <2>1, <2>2, <2>3 DEF Next
<1> QED BY <1>1, <1>2, PTL DEF Spec

(* Re-encoding a decoded branch reproduces its word bit for bit. *)
THEOREM ExactRoundTripAlways == ASSUME BranchLoop PROVE Spec => []ExactRoundTrip
<1>1. BranchLoopInv => ExactRoundTrip BY OkIs DEF BranchLoopInv, ExactRoundTrip
<1> QED BY <1>1, BranchLoopInductive, PTL

(* No branch the decoder recognises is refused by the encoder. *)
THEOREM EveryBranchEncodesAlways == ASSUME BranchLoop PROVE Spec => []EveryDecodeEncodes
<1>1. BranchLoopInv => EveryDecodeEncodes BY DEF BranchLoopInv, EveryDecodeEncodes, Valid
<1> QED BY <1>1, BranchLoopInductive, PTL

(* The word a branch re-encodes to means what the branch meant. *)
THEOREM BranchSemanticRoundTripAlways == ASSUME BranchLoop PROVE Spec => []SemanticRoundTrip
<1>1. BranchLoopInv => SemanticRoundTrip BY DEF BranchLoopInv, SemanticRoundTrip
<1> QED BY <1>1, BranchLoopInductive, PTL

(* Every encoded word is a word of its class: no field spills over. *)
THEOREM BranchTypeOKAlways == ASSUME BranchLoop PROVE Spec => []TypeOK
<1>1. BranchLoopInv => TypeOK BY OkIs DEF BranchLoopInv, TypeOK, BranchLoop
<1> QED BY <1>1, BranchLoopInductive, PTL

(***************************************************************************)
(* What the whole codec shows                                              *)
(***************************************************************************)

(* The loop runs on words of every group with the whole codec. *)
GroupLoop ==
  /\ ValuesFit
  /\ Word = GroupWord /\ Sample \subseteq GroupWord
  /\ \A t \in GroupWord : \A a : DecodeWord(t, a) = DecodeGroup(t, a)
  /\ \A x : EncodeInsn(x) = EncodeGroup(x)

(* The instruction is what the word decodes to. *)
GroupLoopInv == word \in GroupWord /\ insn = DecodeGroup(word, ip)

LEMMA GroupLoopInductive == ASSUME GroupLoop PROVE Spec => []GroupLoopInv
<1>1. Init => GroupLoopInv BY DEF Init, GroupLoopInv, GroupLoop
<1>2. GroupLoopInv /\ [Next]_vars => GroupLoopInv'
  <2>1. ASSUME [Next]_vars PROVE word' = word /\ ip' = ip /\ insn' = insn
    BY <2>1 DEF Next, EncodeStep, RedecodeStep, vars
  <2> QED BY <2>1 DEF GroupLoopInv
<1> QED BY <1>1, <1>2, PTL DEF Spec

(* The words of two groups, and what they decode to. *)
LEMMA ImmDecoded ==
  ASSUME NEW t \in GroupWord, t.g = "imm", NEW a
  PROVE  /\ t.w \in DpImmWord /\ t = Tag("imm", t.w)
         /\ SameAs(DecodeGroup(t, a), DecodeDpImm(t.w, a))
<1>1. t \in Of("imm", DpImmWord) BY DEF GroupWord, Of
<1>2. t.w \in DpImmWord /\ t = Tag("imm", t.w) BY <1>1 DEF Of, Tag
<1>3. DecodeGroup(t, a) = [DecodeDpImm(t.w, a) EXCEPT !.word = t] BY DEF DecodeGroup
<1>4. IsBuilt(DecodeDpImm(t.w, a), t.w, a) BY <1>2, ImmIsBuilt
<1>5. SameAs([DecodeDpImm(t.w, a) EXCEPT !.word = t], DecodeDpImm(t.w, a)) BY <1>4, BuiltSame
<1> QED BY <1>2, <1>3, <1>5, Zenon

LEMMA RegDecoded ==
  ASSUME NEW t \in GroupWord, t.g = "reg", NEW a
  PROVE  /\ t.w \in DpRegWord /\ t = Tag("reg", t.w)
         /\ SameAs(DecodeGroup(t, a), DecodeDpReg(t.w, a))
<1>1. t \in Of("reg", DpRegWord) BY DEF GroupWord, Of
<1>2. t.w \in DpRegWord /\ t = Tag("reg", t.w) BY <1>1 DEF Of, Tag
<1>3. DecodeGroup(t, a) = [DecodeDpReg(t.w, a) EXCEPT !.word = t] BY DEF DecodeGroup
<1>4. IsBuilt(DecodeDpReg(t.w, a), t.w, a) BY <1>2, RegIsBuilt
<1>5. SameAs([DecodeDpReg(t.w, a) EXCEPT !.word = t], DecodeDpReg(t.w, a)) BY <1>4, BuiltSame
<1> QED BY <1>2, <1>3, <1>5, Zenon

(* A logical immediate shows the run of ones its fields describe
   (decode_bit_masks), for every element size, rotation and run. *)
THEOREM MaskIsRotatedRunAlways == ASSUME GroupLoop PROVE Spec => []MaskIsRotatedRun
<1>1. ASSUME GroupLoopInv PROVE MaskIsRotatedRun
  <2> SUFFICES ASSUME word.g = "imm", word.w.class = "logical", insn.code # <<"Invalid">>
               PROVE  MaskIsRotatedRun
    BY DEF MaskIsRotatedRun, IsLogical, Valid
  <2>1. word.w \in DpImmWord /\ SameAs(insn, DecodeDpImm(word.w, ip))
    BY <1>1, ImmDecoded DEF GroupLoopInv
  <2>2. word.w \in LogicalWord /\ SameAs(insn, DecodeLogical(word.w, ip)) BY <2>1, LogicalClass
  <2>3. ValuesFit BY DEF GroupLoop
  <2> QED BY <2>2, <2>3, MaskShown, Zenon DEF MaskIsRotatedRun
<1> QED BY <1>1, GroupLoopInductive, PTL

(* An ORR from ZR is shown as MOV but where a MOVZ or a MOVN has its value
   as well (move_wide_preferred). *)
THEOREM OrrSpelledOutOnlyForMovesAlways ==
  ASSUME GroupLoop PROVE Spec => []OrrSpelledOutOnlyForMoves
<1>1. ASSUME GroupLoopInv PROVE OrrSpelledOutOnlyForMoves
  <2> SUFFICES ASSUME word.g = "imm", word.w.class = "logical", insn.code # <<"Invalid">>,
                      word.w.opc = 1, word.w.rn = 31
               PROVE  OrrSpelledOutOnlyForMoves
    BY DEF OrrSpelledOutOnlyForMoves, IsLogical, Valid
  <2>1. word.w \in DpImmWord /\ SameAs(insn, DecodeDpImm(word.w, ip))
    BY <1>1, ImmDecoded DEF GroupLoopInv
  <2>2. word.w \in LogicalWord /\ SameAs(insn, DecodeLogical(word.w, ip)) BY <2>1, LogicalClass
  <2>3. ValuesFit BY DEF GroupLoop
  <2> QED BY <2>2, <2>3, SpelledOut, Zenon DEF OrrSpelledOutOnlyForMoves
<1> QED BY <1>1, GroupLoopInductive, PTL

(* Inverting the low bit of a condition turns it into its opposite. *)
LEMMA InvertIsOpposite ==
  ASSUME NEW c \in 0..13, NEW flags
  PROVE  Holds(Invert(c), flags) = ~Holds(c, flags)
<1> DEFINE base(k) == CASE k = 0 -> "Z" \in flags
                         [] k = 1 -> "C" \in flags
                         [] k = 2 -> "N" \in flags
                         [] k = 3 -> "V" \in flags
                         [] k = 4 -> "C" \in flags /\ ~("Z" \in flags)
                         [] k = 5 -> ("N" \in flags) = ("V" \in flags)
                         [] k = 6 -> ("N" \in flags) = ("V" \in flags) /\ ~("Z" \in flags)
                         [] OTHER -> TRUE
<1>1. ASSUME NEW d PROVE Holds(d, flags) = IF d % 2 = 1 /\ d # 15 THEN ~base(d \div 2) ELSE base(d \div 2)
  BY Zenon DEF Holds
<1>2. ASSUME NEW k \in 0..6 PROVE base(k) = TRUE \/ base(k) = FALSE
  <2>1. k \in {0, 1, 2, 3, 4, 5, 6} OBVIOUS
  <2> QED BY <2>1
<1> HIDE DEF base
<1>3. \/ (c % 2 = 0) /\ (Invert(c) % 2 = 1) /\ Invert(c) # 15
      \/ (c % 2 = 1) /\ (Invert(c) % 2 = 0) /\ c # 15
  BY DEF Invert
<1>4. (Invert(c) \div 2) = (c \div 2) BY DEF Invert
<1> DEFINE b == base(c \div 2)
<1>5. b = TRUE \/ b = FALSE
  <2>1. c \div 2 \in 0..6 OBVIOUS
  <2> QED BY <1>2, <2>1
<1>6. Holds(c, flags) = IF c % 2 = 1 /\ c # 15 THEN ~b ELSE b BY <1>1
<1>7. Holds(Invert(c), flags) = IF Invert(c) % 2 = 1 /\ Invert(c) # 15 THEN ~b ELSE b BY <1>1, <1>4
<1> HIDE DEF b
<1>8. CASE (c % 2 = 0) /\ (Invert(c) % 2 = 1) /\ Invert(c) # 15
  <2>1. Holds(c, flags) = b BY <1>6, <1>8
  <2>2. Holds(Invert(c), flags) = ~b BY <1>7, <1>8, Zenon
  <2> QED BY <1>5, <2>1, <2>2, Zenon
<1>9. CASE (c % 2 = 1) /\ (Invert(c) % 2 = 0) /\ c # 15
  <2>1. Holds(c, flags) = ~b BY <1>6, <1>9, Zenon
  <2>2. Holds(Invert(c), flags) = b BY <1>7, <1>9
  <2> QED BY <1>5, <2>1, <2>2, Zenon
<1> QED BY <1>3, <1>8, <1>9

(* CSET, CSETM, CINC, CINV and CNEG show the opposite of the condition in the
   word, and only where it has one. *)
THEOREM AliasConditionIsTheOppositeAlways ==
  ASSUME GroupLoop PROVE Spec => []AliasConditionIsTheOpposite
<1>1. ASSUME GroupLoopInv PROVE AliasConditionIsTheOpposite
  <2> SUFFICES ASSUME word.g = "reg", NEW m \in CondAliases, insn.mnem = <<m>>,
                      NEW flags \in SUBSET {"N", "Z", "C", "V"}
               PROVE  Holds(OpAt(insn, insn.cnt - 1).val, flags) = ~Holds(word.w.cond, flags)
    BY DEF AliasConditionIsTheOpposite, CondAliases
  <2>1. word.w \in DpRegWord /\ SameAs(insn, DecodeDpReg(word.w, ip))
    BY <1>1, RegDecoded DEF GroupLoopInv
  <2>2. ValuesFit BY DEF GroupLoop
  <2>3. word.w.cond \in 0..13 /\ OpAt(insn, insn.cnt - 1).val = Invert(word.w.cond)
    BY <2>1, <2>2, ConditionShown
  <2> QED BY <2>3, InvertIsOpposite
<1> QED BY <1>1, GroupLoopInductive, PTL

(***************************************************************************)
(* Data processing                                                         *)
(***************************************************************************)

(* The loop runs on data-processing words, with the whole codec. *)
DpWord == Of("imm", DpImmWord) \cup Of("reg", DpRegWord)
DataProcessingLoop == GroupLoop /\ Sample \subseteq DpWord

(* The word an instruction is written as: its own, but for the bits the
   architecture ignores. *)
Written(t) == Tag(t.g, IF t.g = "imm" THEN ImmWritten(t.w) ELSE RegWritten(t.w))

(* is_dp_imm finds exactly the names of the immediate Codes; "none" stands
   for the opcode of the wide moves that has no Code. *)
LEMMA ImmDispatch ==
  ASSUME NEW c, c[1] # "none"
  PROVE  IsDpImm(c) <=> c[1] \in ImmNames
<1> DEFINE tables == <<AddSubName, MinMaxName, LogicalName, MoveWideName, BitfieldName,
                       <<"AddgImm", "SubgImm", "Extr">> >>
<1>1. DOMAIN tables = 1..6 OBVIOUS
<1>2. /\ tables[1] = AddSubName /\ tables[2] = MinMaxName /\ tables[3] = LogicalName
      /\ tables[4] = MoveWideName /\ tables[5] = BitfieldName
      /\ tables[6] = <<"AddgImm", "SubgImm", "Extr">>
  OBVIOUS
<1>3. IsDpImm(c) <=> AmongNames(c, tables) BY DEF IsDpImm
<1> HIDE DEF tables
<1>4. AmongNames(c, tables) <=> \E i \in {1, 2, 3, 4, 5, 6} : Lists(tables[i], c[1]) BY <1>1 DEF AmongNames
<1> QED BY <1>2, <1>3, <1>4, ImmListed

(* is_dp_reg finds the names of the register Codes. *)
LEMMA RegDispatch ==
  ASSUME NEW c, NEW sf, c = CodeOf(c[1], sf), RegListed(c[1])
  PROVE  IsDpReg(c)
<1> DEFINE tables == <<LogicalShiftedName, AddSubShiftedName, ExtendedName, CarryName, CompareName, SelectName,
                       PauthName, <<"Rmif", "Setf8", "Setf16", "Addpt", "Subpt">> >>
           rest   == <<"Rmif", "Setf8", "Setf16", "Addpt", "Subpt">>
<1>1. IsSized(c)
  <2>1. c = <<c[1], Suffix(sf)>> /\ Suffix(sf) \in {"32", "64"} BY DEF CodeOf, Suffix
  <2>2. PICK n, s : c = <<n, s>> /\ s \in {"32", "64"} BY <2>1, Zenon
  <2> QED BY <2>2 DEF IsSized
<1>2. DOMAIN tables = 1..8 OBVIOUS
<1>3. /\ tables[1] = LogicalShiftedName /\ tables[2] = AddSubShiftedName /\ tables[3] = ExtendedName
      /\ tables[4] = CarryName /\ tables[5] = CompareName /\ tables[6] = SelectName
      /\ tables[7] = PauthName /\ tables[8] = rest
  OBVIOUS
<1>4. c[1] \in {"Rmif", "Setf8", "Setf16", "Addpt", "Subpt"} => Lists(rest, c[1]) BY DEF Lists
<1>5. /\ IsDpReg(c) <=> \/ AmongNames(c, tables)
                        \/ \E r \in ThreeSource \cup TwoSource : r[3] = c[1]
                        \/ \E r \in OneSource \cup LrSource : r[2] = c[1]
  BY <1>1 DEF IsDpReg
<1> HIDE DEF tables, rest
<1>6. \A i \in {1, 2, 3, 4, 5, 6, 7, 8} : Lists(tables[i], c[1]) => AmongNames(c, tables)
  BY <1>2 DEF AmongNames
<1> QED BY <1>3, <1>4, <1>5, <1>6 DEF RegListed

(* encode::encode finds the encoder of an instruction by its Code. *)
LEMMA ImmEncoded ==
  ASSUME NEW x, x.code # <<"Invalid">>, x.code[1] \in ImmNames, NEW v, EncodeDpImm(x) = Ok(v)
  PROVE  EncodeGroup(x) = Ok(Tag("imm", v))
<1>1. x.code[1] # "none" BY DEF ImmNames
<1>2. EncodeGroup(x) = In("imm", EncodeDpImm(x)) BY <1>1, ImmDispatch DEF EncodeGroup
<1> QED BY <1>2, OkIs DEF In

LEMMA RegEncoded ==
  ASSUME NEW x, x.code # <<"Invalid">>, x.code[1] \notin ImmNames, RegListed(x.code[1]),
         NEW sf, x.code = CodeOf(x.code[1], sf), NEW v, EncodeDpReg(x) = Ok(v)
  PROVE  EncodeGroup(x) = Ok(Tag("reg", v))
<1>1. ~IsDpImm(x.code) /\ IsDpReg(x.code) BY ImmDispatch, RegDispatch, GapIsNotListed
<1>2. EncodeGroup(x) = In("reg", EncodeDpReg(x)) BY <1>1 DEF EncodeGroup
<1> QED BY <1>2, OkIs DEF In

(* A word that decodes is written as Written says, which means the same. *)
LEMMA WrittenBack ==
  ASSUME ValuesFit, NEW t \in DpWord, NEW a, DecodeGroup(t, a).code # <<"Invalid">>
  PROVE  /\ EncodeGroup(DecodeGroup(t, a)) = Ok(Written(t))
         /\ Written(t) \in DpWord
         /\ SameAs(DecodeGroup(Written(t), a), DecodeGroup(t, a))
<1> DEFINE x == DecodeGroup(t, a)
<1>1. t \in GroupWord /\ t.g \in {"imm", "reg"} BY DEF DpWord, GroupWord, Of
<1>2. CASE t.g = "imm"
  <2>1. t.w \in DpImmWord /\ SameAs(x, DecodeDpImm(t.w, a)) BY <1>1, <1>2, ImmDecoded
  <2>2. x.code # <<"Invalid">> OBVIOUS
  <2>3. DecodeDpImm(t.w, a).code # <<"Invalid">> BY <2>1, <2>2 DEF SameAs
  <2> DEFINE u == ImmWritten(t.w)
  <2>4. Written(t) = Tag("imm", u) BY <1>2 DEF Written
  <2>5. u \in DpImmWord /\ SameAs(DecodeDpImm(u, a), DecodeDpImm(t.w, a))
    BY <2>1, <2>3, ImmWrittenMeansTheSame
  <2>6. EncodeDpImm(x) = Ok(u) /\ x.code[1] \in ImmNames BY <2>1, <2>2, DpImmRecovered
  <2> HIDE DEF x, u
  <2>7. EncodeGroup(x) = Ok(Tag("imm", u)) BY <2>2, <2>6, ImmEncoded
  <2>8. Tag("imm", u) \in DpWord /\ Tag("imm", u).g = "imm" /\ Tag("imm", u).w = u
    BY <2>5 DEF DpWord, Of, Tag
  <2>9. SameAs(DecodeGroup(Tag("imm", u), a), DecodeDpImm(u, a))
    <3>1. Tag("imm", u) \in GroupWord BY <2>8 DEF DpWord, GroupWord
    <3> QED BY <2>8, <3>1, ImmDecoded
  <2>10. SameAs(DecodeGroup(Tag("imm", u), a), x) BY <2>1, <2>5, <2>9 DEF SameAs
  <2> QED BY <2>4, <2>7, <2>8, <2>10 DEF x
<1>3. CASE t.g = "reg"
  <2>1. t.w \in DpRegWord /\ SameAs(x, DecodeDpReg(t.w, a)) BY <1>1, <1>3, RegDecoded
  <2>2. x.code # <<"Invalid">> OBVIOUS
  <2> DEFINE u == RegWritten(t.w)
  <2>4. Written(t) = Tag("reg", u) BY <1>3 DEF Written
  <2>5. u \in DpRegWord /\ SameAs(DecodeDpReg(u, a), DecodeDpReg(t.w, a)) BY <2>1, RegWrittenMeansTheSame
  <2>6. /\ EncodeDpReg(x) = Ok(u) /\ RegListed(x.code[1]) /\ x.code[1] \notin ImmNames
        /\ x.code = CodeOf(x.code[1], t.w.sf)
    BY <2>1, <2>2, DpRegRecovered
  <2> HIDE DEF x, u
  <2>7. EncodeGroup(x) = Ok(Tag("reg", u)) BY <2>2, <2>6, RegEncoded
  <2>8. Tag("reg", u) \in DpWord /\ Tag("reg", u).g = "reg" /\ Tag("reg", u).w = u
    BY <2>5 DEF DpWord, Of, Tag
  <2>9. SameAs(DecodeGroup(Tag("reg", u), a), DecodeDpReg(u, a))
    <3>1. Tag("reg", u) \in GroupWord BY <2>8 DEF DpWord, GroupWord
    <3> QED BY <2>8, <3>1, RegDecoded
  <2>10. SameAs(DecodeGroup(Tag("reg", u), a), x) BY <2>1, <2>5, <2>9 DEF SameAs
  <2> QED BY <2>4, <2>7, <2>8, <2>10 DEF x
<1> QED BY <1>1, <1>2, <1>3

(* The loop has not strayed: what a valid decode was written as is Written,
   and only Code::Invalid was refused. *)
DpLoopInv ==
  /\ word \in DpWord
  /\ insn = DecodeGroup(word, ip)
  /\ pc \in {"encode", "decode", "failed", "done"}
  /\ pc \in {"decode", "done"} => insn.code # <<"Invalid">> /\ out = Ok(Written(word))
  /\ pc = "done" => again = DecodeGroup(Written(word), ip)
  /\ pc = "failed" => insn.code = <<"Invalid">> /\ out.err = "Invalid"

LEMMA DpLoopInductive == ASSUME DataProcessingLoop PROVE Spec => []DpLoopInv
<1>g. GroupLoop /\ ValuesFit BY DEF DataProcessingLoop, GroupLoop
<1>d. \A t \in DpWord : t \in GroupWord BY DEF DpWord, GroupWord
<1>1. Init => DpLoopInv
  <2> SUFFICES ASSUME Init PROVE DpLoopInv OBVIOUS
  <2>1. word \in DpWord /\ insn = DecodeWord(word, ip) /\ pc = "encode" BY DEF Init, DataProcessingLoop
  <2>2. DecodeWord(word, ip) = DecodeGroup(word, ip) BY <1>g, <1>d, <2>1 DEF GroupLoop
  <2> QED BY <2>1, <2>2 DEF DpLoopInv
<1>2. DpLoopInv /\ [Next]_vars => DpLoopInv'
  <2> SUFFICES ASSUME DpLoopInv, [Next]_vars PROVE DpLoopInv' OBVIOUS
  <2> USE DEF DpLoopInv
  <2>1. CASE EncodeStep
    <3>1. EncodeInsn(insn) = EncodeGroup(insn) BY <1>g DEF GroupLoop
    <3>2. CASE insn.code = <<"Invalid">>
      <4>1. EncodeGroup(insn) = Err("Invalid") BY <3>2 DEF EncodeGroup
      <4>2. ~EncodeInsn(insn).ok /\ EncodeInsn(insn).err = "Invalid" BY <3>1, <4>1, ErrIs
      <4> QED BY <2>1, <3>2, <4>2 DEF EncodeStep
    <3>3. CASE insn.code # <<"Invalid">>
      <4>1. EncodeInsn(insn) = Ok(Written(word)) BY <1>g, <3>1, <3>3, WrittenBack
      <4>2. EncodeInsn(insn).ok BY <4>1, OkIs
      <4> QED BY <2>1, <3>3, <4>1, <4>2 DEF EncodeStep
    <3> QED BY <3>2, <3>3
  <2>2. CASE RedecodeStep
    <3>1. out.v = Written(word) BY <2>2, OkIs DEF RedecodeStep
    <3>2. Written(word) \in GroupWord BY <1>g, <1>d, <2>2, WrittenBack DEF RedecodeStep
    <3>3. DecodeWord(out.v, ip) = DecodeGroup(Written(word), ip) BY <1>g, <3>1, <3>2 DEF GroupLoop
    <3> QED BY <2>2, <3>3 DEF RedecodeStep
  <2>3. CASE UNCHANGED vars BY <2>3 DEF vars
  <2> QED BY <2>1, <2>2, <2>3 DEF Next
<1> QED BY <1>1, <1>2, PTL DEF Spec

(* No data-processing instruction the decoder recognises is refused by the
   encoder, or dispatched to another group's. *)
THEOREM EveryDecodeEncodesAlways == ASSUME DataProcessingLoop PROVE Spec => []EveryDecodeEncodes
<1>1. DpLoopInv => EveryDecodeEncodes BY DEF DpLoopInv, EveryDecodeEncodes, Valid
<1> QED BY <1>1, DpLoopInductive, PTL

(* The word such an instruction is written as means what it meant. *)
THEOREM SemanticRoundTripAlways == ASSUME DataProcessingLoop PROVE Spec => []SemanticRoundTrip
<1>1. ASSUME DpLoopInv PROVE SemanticRoundTrip
  <2> SUFFICES ASSUME pc = "done" PROVE SemanticRoundTrip BY DEF SemanticRoundTrip
  <2>1. ValuesFit BY DEF DataProcessingLoop, GroupLoop
  <2>2. SameAs(again, insn) BY <1>1, <2>1, WrittenBack DEF DpLoopInv
  <2> QED BY <2>2 DEF SemanticRoundTrip, SameAs
<1> QED BY <1>1, DpLoopInductive, PTL

(* It is the same word, but for the bits the architecture ignores. *)
THEOREM OnlyIgnoredBitsChangeAlways == ASSUME DataProcessingLoop PROVE Spec => []OnlyIgnoredBitsChange
<1>1. ASSUME DpLoopInv PROVE OnlyIgnoredBitsChange
  <2> SUFFICES ASSUME pc = "done" PROVE OnlyIgnoredBitsChange BY DEF OnlyIgnoredBitsChange
  <2>1. out.v = Written(word) BY <1>1, OkIs DEF DpLoopInv
  <2>2. word.g = "imm" \/ word.g = "reg" BY <1>1 DEF DpLoopInv, DpWord, Of
  <2>3. ImmWritten(word.w) = ImmNormal(word.w) BY DEF ImmWritten, ImmNormal, LogicalNormal
  <2>4. RegWritten(word.w) = RegNormal(word.w) BY DEF RegWritten, RegNormal, ThreeWritten
  <2> QED BY <2>1, <2>2, <2>3, <2>4 DEF OnlyIgnoredBitsChange, Written
<1> QED BY <1>1, DpLoopInductive, PTL

(* Every field of an encoded word is in range. *)
THEOREM TypeOKAlways == ASSUME DataProcessingLoop PROVE Spec => []TypeOK
<1>1. ASSUME DpLoopInv PROVE TypeOK
  <2>1. ValuesFit /\ Word = GroupWord BY DEF DataProcessingLoop, GroupLoop
  <2>2. pc \in {"decode", "done"} => Written(word) \in Word
    BY <1>1, <2>1, WrittenBack DEF DpLoopInv, DpWord, GroupWord
  <2> QED BY <1>1, <2>2, OkIs DEF DpLoopInv, TypeOK
<1> QED BY <1>1, DpLoopInductive, PTL

(***************************************************************************)
(* Features                                                                *)
(***************************************************************************)

(* The whole codec under other features runs the two decoders under them. *)
LEMMA SameImm ==
  ASSUME NEW F, NEW w, NEW a
  PROVE  Under(F)!DecodeDpImm(w, a) = OnImm(F)!DecodeDpImm(w, a)
<1> USE DEF
      Under!CodeOf, OnImm!CodeOf, Under!Alias, OnImm!Alias, Under!Plain, OnImm!Plain, Under!Gp, OnImm!Gp,
      Under!Suffix, OnImm!Suffix, Under!Op, OnImm!Op, Under!NoReg, OnImm!NoReg, Under!Built, OnImm!Built,
      Under!RegOp, OnImm!RegOp, Under!MnemonicOf, OnImm!MnemonicOf, Under!NewInvalid, OnImm!NewInvalid,
      Under!Filled, OnImm!Filled, Under!NoDec, OnImm!NoDec, Under!Slot, OnImm!Slot, Under!NoneOp, OnImm!NoneOp,
      Under!DataSize, OnImm!DataSize
<1>1. Under(F)!DecodeAddSub(w, a) = OnImm(F)!DecodeAddSub(w, a)
  BY Zenon DEF
    Under!DecodeAddSub, OnImm!DecodeAddSub, Under!AddSubName, OnImm!AddSubName, Under!ShiftedOp,
    OnImm!ShiftedOp, Under!GpSp, OnImm!GpSp
<1>2. Under(F)!DecodeLogical(w, a) = OnImm(F)!DecodeLogical(w, a)
  BY Zenon DEF
    Under!DecodeLogical, OnImm!DecodeLogical, Under!LogicalName, OnImm!LogicalName, Under!DecodeBitMasks,
    OnImm!DecodeBitMasks, Under!LogicalOp, OnImm!LogicalOp, Under!MoveWidePreferred, OnImm!MoveWidePreferred,
    Under!GpSp, OnImm!GpSp, Under!SignedOp, OnImm!SignedOp, Under!SignExtended, OnImm!SignExtended,
    Under!ElementSize, OnImm!ElementSize, Under!None, OnImm!None, Under!Some, OnImm!Some, Under!Replicate,
    OnImm!Replicate, Under!Ror, OnImm!Ror, Under!Ones, OnImm!Ones, Under!Max, OnImm!Max
<1>3. Under(F)!DecodeMoveWide(w, a) = OnImm(F)!DecodeMoveWide(w, a)
  BY Zenon DEF
    Under!DecodeMoveWide, OnImm!DecodeMoveWide, Under!MoveWideName, OnImm!MoveWideName, Under!ToLane,
    OnImm!ToLane, Under!Not, OnImm!Not, Under!IsMovAlias, OnImm!IsMovAlias, Under!SignedOp, OnImm!SignedOp,
    Under!SignExtended, OnImm!SignExtended, Under!ShiftedOp, OnImm!ShiftedOp, Under!Ones, OnImm!Ones
<1>4. Under(F)!DecodeBitfield(w, a) = OnImm(F)!DecodeBitfield(w, a)
  BY Zenon DEF
    Under!DecodeBitfield, OnImm!DecodeBitfield, Under!BitfieldName, OnImm!BitfieldName, Under!BitfieldAlias,
    OnImm!BitfieldAlias, Under!ExtendOf, OnImm!ExtendOf, Under!ImmOp, OnImm!ImmOp
<1>5. Under(F)!DecodeExtract(w, a) = OnImm(F)!DecodeExtract(w, a)
  BY Zenon DEF
    Under!DecodeExtract, OnImm!DecodeExtract, Under!ImmOp, OnImm!ImmOp
<1>6. Under(F)!DecodeTags(w, a) = OnImm(F)!DecodeTags(w, a)
  BY Zenon DEF
    Under!DecodeTags, OnImm!DecodeTags, Under!GpSp, OnImm!GpSp, Under!ImmOp, OnImm!ImmOp
<1>7. Under(F)!DecodeMinMax(w, a) = OnImm(F)!DecodeMinMax(w, a)
  BY Zenon DEF
    Under!DecodeMinMax, OnImm!DecodeMinMax, Under!MinMaxName, OnImm!MinMaxName, Under!IsSigned, OnImm!IsSigned,
    Under!SignedOp, OnImm!SignedOp, Under!AsU64, OnImm!AsU64, Under!SignExtend, OnImm!SignExtend, Under!ImmOp,
    OnImm!ImmOp
<1> QED BY <1>1, <1>2, <1>3, <1>4, <1>5, <1>6, <1>7, Zenon DEF Under!DecodeDpImm, OnImm!DecodeDpImm

LEMMA SameReg ==
  ASSUME NEW F, NEW w, NEW a
  PROVE  Under(F)!DecodeDpReg(w, a) = OnReg(F)!DecodeDpReg(w, a)
<1> USE DEF
      Under!CodeOf, OnReg!CodeOf, Under!Gp, OnReg!Gp, Under!RegShifted, OnReg!RegShifted, Under!NewInvalid,
      OnReg!NewInvalid, Under!Alias, OnReg!Alias, Under!Plain, OnReg!Plain, Under!Suffix, OnReg!Suffix,
      Under!RegOp, OnReg!RegOp, Under!ShiftName, OnReg!ShiftName, Under!NoExtend, OnReg!NoExtend, Under!Filled,
      OnReg!Filled, Under!Built, OnReg!Built, Under!MnemonicOf, OnReg!MnemonicOf, Under!Op, OnReg!Op,
      Under!NoReg, OnReg!NoReg, Under!NoDec, OnReg!NoDec, Under!Slot, OnReg!Slot, Under!NoneOp, OnReg!NoneOp
<1>1. Under(F)!DecodeLogicalShifted(w, a) = OnReg(F)!DecodeLogicalShifted(w, a)
  BY Zenon DEF
    Under!DecodeLogicalShifted, OnReg!DecodeLogicalShifted, Under!LogicalShiftedName, OnReg!LogicalShiftedName,
    Under!IsMov, OnReg!IsMov
<1>2. Under(F)!DecodeAddSubShifted(w, a) = OnReg(F)!DecodeAddSubShifted(w, a)
  BY Zenon DEF
    Under!DecodeAddSubShifted, OnReg!DecodeAddSubShifted, Under!AddSubShiftedName, OnReg!AddSubShiftedName,
    Under!CompareAlias, OnReg!CompareAlias
<1>3. Under(F)!DecodeExtended(w, a) = OnReg(F)!DecodeExtended(w, a)
  BY Zenon DEF
    Under!DecodeExtended, OnReg!DecodeExtended, Under!ExtendedName, OnReg!ExtendedName, Under!ExtendedRm,
    OnReg!ExtendedRm, Under!LslOption, OnReg!LslOption, Under!GpSp, OnReg!GpSp, Under!CompareAlias,
    OnReg!CompareAlias
<1>4. Under(F)!DecodeCarry(w, a) = OnReg(F)!DecodeCarry(w, a)
  BY Zenon DEF
    Under!DecodeCarry, OnReg!DecodeCarry, Under!CarryName, OnReg!CarryName
<1>5. Under(F)!DecodeRmif(w, a) = OnReg(F)!DecodeRmif(w, a)
  BY Zenon DEF
    Under!DecodeRmif, OnReg!DecodeRmif, Under!ImmOp, OnReg!ImmOp, Under!Imm20_15, OnReg!Imm20_15
<1>6. Under(F)!DecodeSetf(w, a) = OnReg(F)!DecodeSetf(w, a)
  BY Zenon DEF
    Under!DecodeSetf, OnReg!DecodeSetf, Under!Imm20_15, OnReg!Imm20_15
<1>7. Under(F)!DecodeCompare(w, a) = OnReg(F)!DecodeCompare(w, a)
  BY Zenon DEF
    Under!DecodeCompare, OnReg!DecodeCompare, Under!CompareName, OnReg!CompareName, Under!ImmOp, OnReg!ImmOp,
    Under!CondOp, OnReg!CondOp
<1>8. Under(F)!DecodeSelect(w, a) = OnReg(F)!DecodeSelect(w, a)
  BY Zenon DEF
    Under!DecodeSelect, OnReg!DecodeSelect, Under!SelectName, OnReg!SelectName, Under!CondOk, OnReg!CondOk,
    Under!CondOp, OnReg!CondOp, Under!Invert, OnReg!Invert
<1>9. Under(F)!DecodeThree(w, a) = OnReg(F)!DecodeThree(w, a)
  BY Zenon DEF
    Under!DecodeThree, OnReg!DecodeThree, Under!ThreeSource, OnReg!ThreeSource, Under!Bit, OnReg!Bit
<1>10. Under(F)!DecodeAddPt(w, a) = OnReg(F)!DecodeAddPt(w, a)
  BY Zenon DEF
    Under!DecodeAddPt, OnReg!DecodeAddPt, Under!GpSp, OnReg!GpSp
<1>11. Under(F)!DecodeTwo(w, a) = OnReg(F)!DecodeTwo(w, a)
  BY Zenon DEF
    Under!DecodeTwo, OnReg!DecodeTwo, Under!TwoSource, OnReg!TwoSource, Under!Gated, OnReg!Gated, Under!Has,
    OnReg!Has, Under!Bit, OnReg!Bit, Under!VarShift, OnReg!VarShift, Under!VarShiftAlias, OnReg!VarShiftAlias,
    Under!TwoOps, OnReg!TwoOps, Under!GpSp, OnReg!GpSp
<1>12. Under(F)!DecodeBasic(w, a) = OnReg(F)!DecodeBasic(w, a)
  BY Zenon DEF
    Under!DecodeBasic, OnReg!DecodeBasic, Under!OneSource, OnReg!OneSource, Under!Gated, OnReg!Gated, Under!Has,
    OnReg!Has, Under!Bit, OnReg!Bit
<1>13. Under(F)!DecodePauth(w, a) = OnReg(F)!DecodePauth(w, a)
  BY Zenon DEF
    Under!DecodePauth, OnReg!DecodePauth, Under!LrSource, OnReg!LrSource, Under!Sppcr, OnReg!Sppcr,
    Under!PauthName, OnReg!PauthName, Under!GpSp, OnReg!GpSp
<1>14. Under(F)!NewInvalid(w, a) = OnReg(F)!NewInvalid(w, a) BY Zenon
<1>15. Under(F)!DecodeCarrySlot(w, a) = OnReg(F)!DecodeCarrySlot(w, a)
  BY <1>4, <1>5, <1>6, <1>10, <1>14, Zenon DEF Under!DecodeCarrySlot, OnReg!DecodeCarrySlot
<1>16. Under(F)!DecodeOne(w, a) = OnReg(F)!DecodeOne(w, a)
  BY <1>12, <1>13, <1>14 DEF Under!DecodeOne, OnReg!DecodeOne
<1> QED BY <1>1, <1>2, <1>3, <1>7, <1>8, <1>9, <1>11, <1>15, <1>16, Zenon DEF Under!DecodeDpReg, OnReg!DecodeDpReg

(* The whole codec under other features: the same instruction, or none if
   the feature its Code declares is off. *)
LEMMA DpGate ==
  ASSUME ValuesFit, NEW F, NEW t \in DpWord, NEW a, DecodeGroup(t, a).code # <<"Invalid">>
  PROVE  LET x == DecodeGroup(t, a)
             y == Under(F)!DecodeGroup(t, a)
         IN  \/ y = IF Has(F, GroupFeature(x.code)) THEN x ELSE [NewInvalid(t.w, a) EXCEPT !.word = t]
             \/ x.code[1] \in {"Maddpt", "Msubpt"} /\ y = x
<1> DEFINE x == DecodeGroup(t, a)
           y == Under(F)!DecodeGroup(t, a)
           none == NewInvalid(t.w, a)
           f == GroupFeature(x.code)
<1>0. t \in GroupWord /\ t.g \in {"imm", "reg"} BY DEF DpWord, GroupWord, Of
<1>v. x.code # <<"Invalid">> OBVIOUS
<1> SUFFICES \/ y = IF Has(F, f) THEN x ELSE [none EXCEPT !.word = t]
             \/ x.code[1] \in {"Maddpt", "Msubpt"} /\ y = x
  OBVIOUS
<1>1. CASE t.g = "imm"
  <2> DEFINE d == DecodeDpImm(t.w, a)
             e == Under(F)!DecodeDpImm(t.w, a)
  <2>1. t.w \in DpImmWord /\ SameAs(x, d) BY <1>0, <1>1, ImmDecoded
  <2>2. x = [d EXCEPT !.word = t] BY <1>1 DEF DecodeGroup
  <2>3. y = [e EXCEPT !.word = t] BY <1>1 DEF Under!DecodeGroup
  <2>4. x.code = d.code BY <2>1 DEF SameAs
  <2>5. x.code[1] \in ImmNames BY <1>v, <2>1, DpImmRecovered
  <2>6. f = ImmFeature(d.code)
    <3>1. x.code[1] # "none" BY <2>5 DEF ImmNames
    <3>2. IsDpImm(x.code) BY <2>5, <3>1, ImmDispatch
    <3> HIDE DEF x, d
    <3> QED BY <1>v, <2>4, <3>2 DEF GroupFeature
  <2>7. GatedBy(ImmFeature(d.code), F, e, d, t.w, a)
    <3>1. d.code # <<"Invalid">> BY <1>v, <2>4
    <3> QED BY <2>1, <3>1, ImmGate, SameImm
  <2> HIDE DEF x, y, d, e, none, f
  <2>8. e = IF Has(F, f) THEN d ELSE none BY <2>6, <2>7 DEF GatedBy, none
  <2> QED BY <2>2, <2>3, <2>8
<1>2. CASE t.g = "reg"
  <2> DEFINE d == DecodeDpReg(t.w, a)
             e == Under(F)!DecodeDpReg(t.w, a)
  <2>1. t.w \in DpRegWord /\ SameAs(x, d) BY <1>0, <1>2, RegDecoded
  <2>2. x = [d EXCEPT !.word = t] BY <1>2 DEF DecodeGroup
  <2>3. y = [e EXCEPT !.word = t] BY <1>2 DEF Under!DecodeGroup
  <2>4. x.code = d.code BY <2>1 DEF SameAs
  <2>5. /\ RegListed(x.code[1]) /\ x.code[1] \notin ImmNames
        /\ x.code = CodeOf(x.code[1], t.w.sf)
    BY <1>v, <2>1, DpRegRecovered
  <2>6. f = RegFeature(d.code)
    <3>1. ~IsDpImm(x.code) /\ IsDpReg(x.code) BY <2>5, ImmDispatch, RegDispatch, GapIsNotListed
    <3> HIDE DEF x, d
    <3> QED BY <1>v, <2>4, <3>1 DEF GroupFeature
  <2>7. \/ GatedBy(RegFeature(d.code), F, e, d, t.w, a)
        \/ d.code[1] \in {"Maddpt", "Msubpt"} /\ e = d
    <3>1. d.code # <<"Invalid">> BY <1>v, <2>4
    <3> QED BY <2>1, <3>1, RegGate, SameReg
  <2> HIDE DEF x, y, d, e, none, f
  <2>8. CASE GatedBy(RegFeature(d.code), F, e, d, t.w, a)
    <3>1. e = IF Has(F, f) THEN d ELSE none BY <2>6, <2>8 DEF GatedBy, none
    <3> QED BY <2>2, <2>3, <3>1
  <2>9. CASE d.code[1] \in {"Maddpt", "Msubpt"} /\ e = d BY <2>2, <2>3, <2>4, <2>9
  <2> QED BY <2>7, <2>8, <2>9
<1> QED BY <1>0, <1>1, <1>2

(* A data-processing word decodes with only the feature its Code declares
   enabled, and no longer when that one is switched off, whatever the others:
   no gate but that of MADDPT and MSUBPT is forgotten, none is doubled, and no
   word falls through to another Code. *)
THEOREM GateIsTheDeclaredFeatureAlways ==
  ASSUME DataProcessingLoop PROVE Spec => []GateIsTheDeclaredFeature
<1>1. ASSUME DpLoopInv PROVE GateIsTheDeclaredFeature
  <2> DEFINE f == GroupFeature(insn.code)
             g == IF word.g = "sve" THEN {f, "Sve"} ELSE {f}
             pt == insn.code[1] \in {"Maddpt", "Msubpt"}
             none == [NewInvalid(word.w, ip) EXCEPT !.word = word]
  <2> SUFFICES ASSUME insn.code # <<"Invalid">>
               PROVE  Seen(g) = insn /\ (f # "Base" => ~Valid(Seen(Features \ {f})) \/ pt)
    BY Zenon DEF GateIsTheDeclaredFeature, Valid
  <2>1. ValuesFit BY DEF DataProcessingLoop, GroupLoop
  <2>2. word \in DpWord /\ insn = DecodeGroup(word, ip) BY <1>1 DEF DpLoopInv
  <2>3. g = {f} BY <2>2 DEF DpWord, Of
  <2>4. ASSUME NEW F PROVE Seen(F) = (IF Has(F, f) THEN insn ELSE none) \/ (pt /\ Seen(F) = insn)
    <3> DEFINE y == Under(F)!DecodeGroup(word, ip)
    <3>0. word \in DpWord BY <2>2
    <3>1. DecodeGroup(word, ip).code # <<"Invalid">> BY <2>2
    <3>2. \/ y = IF Has(F, GroupFeature(DecodeGroup(word, ip).code)) THEN DecodeGroup(word, ip) ELSE none
          \/ DecodeGroup(word, ip).code[1] \in {"Maddpt", "Msubpt"} /\ y = DecodeGroup(word, ip)
      BY <2>1, <3>0, <3>1, DpGate, Zenon
    <3>3. Seen(F) = y BY DEF Seen
    <3> HIDE DEF y, none
    <3> QED BY <2>2, <3>2, <3>3
  <2>5. none.code = <<"Invalid">> BY DEF NewInvalid
  <2> HIDE DEF f, g, pt, none
  <2>6. Has({f}, f) /\ (f # "Base" => ~Has(Features \ {f}, f)) BY DEF Has
  <2>7. Seen({f}) = insn BY <2>4, <2>6
  <2>8. f # "Base" => ~Valid(Seen(Features \ {f})) \/ pt BY <2>4, <2>5, <2>6 DEF Valid
  <2> QED BY <2>3, <2>7, <2>8
<1> QED BY <1>1, DpLoopInductive, PTL
=============================================================================
