--------------------------- MODULE Decoder_proofs ---------------------------
(***************************************************************************)
(* Theorems about Decoder, for every slice, address space and instruction  *)
(* length: the inductive invariant is the type invariant together with     *)
(* IpTracksPosition.  It carries the action properties, and the refinement *)
(* of LinearSweep by the loops.                                            *)
(***************************************************************************)
EXTENDS Decoder, SequenceTheorems, TLAPS

(* Wrapping addition stays in the address space and undoes wrapping
   subtraction. *)
LEMMA WrapTypes ==
  ASSUME NEW a \in Addr, NEW b \in Addr
  PROVE  /\ WrapAdd(a, b) \in Addr
         /\ WrapSub(a, b) \in Addr
         /\ WrapAdd(WrapSub(a, b), b) = a
         /\ WrapSub(WrapAdd(a, b), b) = a
         /\ WrapSub(WrapAdd(b, a), b) = a
BY SizesAssumption DEF WrapAdd, WrapSub, Addr

(* Moving a cursor forward or backward moves its address by as much. *)
LEMMA WrapMoves ==
  ASSUME NEW o \in Addr, NEW p \in Pos, NEW q \in Pos
  PROVE  /\ q >= p => WrapAdd(WrapAdd(o, p), q - p) = WrapAdd(o, q)
         /\ q < p  => WrapSub(WrapAdd(o, p), p - q) = WrapAdd(o, q)
BY SizesAssumption DEF WrapAdd, WrapSub, Addr, Pos

(* A full window inside the slice leaves the cursor inside usize, and is a
   word. *)
LEMMA WindowFits ==
  ASSUME TypeOK, NEW p \in Nat, Fits(p)
  PROVE  /\ p + INSN_LEN \in Pos
         /\ p \in Pos
         /\ Window(p) \in Word
<1>1. data \in Seq(Byte) /\ Len(data) <= MaxPos
  BY SizesAssumption DEF TypeOK
<1>2. p + INSN_LEN \in Pos /\ p \in Pos
  BY <1>1, SizesAssumption DEF Fits, Pos
<1>3. ASSUME NEW i \in 1..INSN_LEN PROVE data[p + i] \in Byte
  <2>1. p + i \in 1..Len(data)
    BY <1>1, SizesAssumption DEF Fits
  <2>. QED BY <1>1, <2>1
<1>. QED BY <1>2, <1>3 DEF Window, Word

(* The inductive invariant. *)
Inv == TypeOK /\ IpTracksPosition

(* One decode keeps the cursor and its address together, on the full word
   and on the short tail. *)
LEMMA DecodeStepInv ==
  ASSUME Inv, DecodeStep, UNCHANGED <<data, phase, origin>>
  PROVE  Inv'
<1>1. CASE Fits(pos)
  <2>1. pos \in Nat /\ pos + INSN_LEN \in Pos /\ Window(pos) \in Word
    BY <1>1, WindowFits, SizesAssumption DEF Inv, TypeOK, Pos
  <2>2. out' = DecodedInsn(pos, ip) /\ pos' = pos + INSN_LEN
        /\ ip' = WrapAdd(ip, INSN_LEN) /\ last_error' = Status(out'.valid)
    BY <1>1 DEF DecodeStep, Advance
  <2>3. INSN_LEN \in Addr /\ ip' \in Addr
    BY <2>2, WrapTypes, SizesAssumption DEF Inv, TypeOK, Addr
  <2>4. ip' = WrapAdd(origin, pos')
    BY <2>1, <2>2, WrapMoves, SizesAssumption DEF Inv, TypeOK, IpTracksPosition, Pos
  <2>5. out' \in [word : Word \cup {NoWord}, ip : Addr, valid : BOOLEAN,
                  from : {"default", "word"}]
    BY <2>1, <2>2, DecodableAssumption DEF DecodedInsn, Inv, TypeOK
  <2>6. last_error' \in {"None", "Unmatched", "EndOfInstruction"}
    BY <2>2 DEF Status
  <2>. QED
    BY <2>1, <2>2, <2>3, <2>4, <2>5, <2>6 DEF Inv, TypeOK, IpTracksPosition
<1>2. CASE ~Fits(pos)
  <2>1. out' = DefaultInsn /\ last_error' = "EndOfInstruction" /\ pos' = pos /\ ip' = ip
    BY <1>2 DEF DecodeStep, ShortTail
  <2>2. DefaultInsn \in [word : Word \cup {NoWord}, ip : Addr, valid : BOOLEAN,
                         from : {"default", "word"}]
    BY SizesAssumption DEF DefaultInsn, Addr
  <2>. QED
    BY <2>1, <2>2 DEF Inv, TypeOK, IpTracksPosition, WrapAdd
<1>. QED BY <1>1, <1>2

(* Decoder: the types of its fields hold, and the address of the cursor is
   always the caller's base plus the cursor, for every mix of decodes,
   seeks, re-basing and loops, address wrap-around included. *)
THEOREM DecoderInvariant == Spec => []Inv
<1>1. Init => Inv
  BY SizesAssumption
     DEF Init, New, Inv, TypeOK, IpTracksPosition, DefaultInsn, WrapAdd, Addr, Pos
<1>2. Inv /\ [Next]_vars => Inv'
  <2>. SUFFICES ASSUME Inv, [Next]_vars PROVE Inv'
    OBVIOUS
  <2>1. CASE DecodeInto
    BY <2>1, DecodeStepInv DEF DecodeInto
  <2>2. ASSUME NEW p \in Pos, SetPosition(p) PROVE Inv'
    <3>1. ip' = WrapAdd(origin, p)
      BY <2>2, WrapMoves, SizesAssumption
         DEF SetPosition, Inv, TypeOK, IpTracksPosition, Pos
    <3>2. p \in Addr
      BY SizesAssumption DEF Pos, Addr
    <3>. QED
      BY <2>2, <3>1, <3>2, WrapTypes DEF SetPosition, Inv, TypeOK, IpTracksPosition
  <2>3. ASSUME NEW a \in Addr, SetIp(a) PROVE Inv'
    <3>1. pos \in Addr
      BY SizesAssumption DEF Inv, TypeOK, Pos, Addr
    <3>. QED
      BY <2>3, <3>1, WrapTypes DEF SetIp, Inv, TypeOK, IpTracksPosition
  <2>4. ASSUME NEW k \in {"loop", "consume"}, IntoIter(k) PROVE Inv'
    BY <2>4, SizesAssumption
       DEF IntoIter, Inv, TypeOK, IpTracksPosition, DefaultInsn, Addr
  <2>5. CASE IterSome
    BY <2>5, DecodeStepInv DEF IterSome
  <2>6. CASE IterNone
    BY <2>6, SizesAssumption
       DEF IterNone, Inv, TypeOK, IpTracksPosition, DefaultInsn, Addr
  <2>7. CASE UNCHANGED vars
    BY <2>7 DEF vars, Inv, TypeOK, IpTracksPosition
  <2>. QED BY <2>1, <2>2, <2>3, <2>4, <2>5, <2>6, <2>7 DEF Next
<1>. QED BY <1>1, <1>2, PTL DEF Spec

(* Decoder::set_position: ip stays consistent with the position relative to
   the base. *)
THEOREM IpTracksPositionAlways == Spec => []IpTracksPosition
BY DecoderInvariant, PTL DEF Inv

(* Every instruction handed out by decode and by the iterators carries the
   word stored at its own address. *)
THEOREM WordIsAtItsAddressAlways == Spec => WordIsAtItsAddress
<1>1. ASSUME Inv, Next, out' # out, out'.from = "word"
      PROVE  LET off == WrapSub(out'.ip, origin)
             IN  Fits(off) /\ out'.word = Window(off)
  <2>1. DecodeStep /\ Fits(pos)
    BY <1>1 DEF Next, DecodeInto, SetPosition, SetIp, IntoIter, IterSome, IterNone,
                DecodeStep, ShortTail, DefaultInsn
  <2>2. out'.ip = ip /\ out'.word = Window(pos)
    BY <2>1 DEF DecodeStep, DecodedInsn
  <2>3. WrapSub(ip, origin) = pos
    <3>1. pos \in Addr /\ origin \in Addr
      BY <1>1, SizesAssumption DEF Inv, TypeOK, Pos, Addr
    <3>. QED BY <1>1, <3>1, WrapTypes DEF Inv, IpTracksPosition
  <2>. QED BY <2>1, <2>2, <2>3
<1>. QED BY <1>1, DecoderInvariant, PTL DEF Spec, WordIsAtItsAddress

(* The decoder's fields keep their types: in particular the cursor never
   leaves usize, and the address never leaves the address space. *)
THEOREM TypeOKAlways == Spec => []TypeOK
BY DecoderInvariant, PTL DEF Inv

(* last_error() describes the most recent decode: each decode leaves the
   outcome of the bytes under the cursor, a short tail included, and nothing
   else touches the status, whatever the mix of seeks, re-basing and loops. *)
THEOREM LastErrorDescribesDecodeAlways == Spec => LastErrorDescribesDecode
<1> DEFINE Decodes == DecodeInto \/ IterSome
           Reported == last_error' = Outcome(pos) /\ (out'.valid <=> Outcome(pos) = "None")
<1>1. ASSUME Inv, DecodeStep PROVE Reported
  <2>1. CASE Fits(pos)
    <3>1. Decodable(Window(pos)) \in BOOLEAN
      BY <1>1, <2>1, WindowFits, DecodableAssumption DEF Inv, TypeOK, Pos
    <3>2. out'.valid = Decodable(Window(pos)) /\ last_error' = Status(out'.valid)
      BY <1>1, <2>1 DEF DecodeStep, DecodedInsn
    <3>. QED BY <2>1, <3>1, <3>2 DEF Status, Outcome
  <2>2. CASE ~Fits(pos)
    BY <1>1, <2>2 DEF DecodeStep, ShortTail, DefaultInsn, Outcome
  <2>. QED BY <2>1, <2>2
<1>2. ASSUME Inv, Next PROVE IF Decodes THEN Reported ELSE UNCHANGED last_error
  <2>1. CASE Decodes
    BY <1>1, <1>2, <2>1 DEF DecodeInto, IterSome
  <2>2. CASE ~Decodes
    BY <1>2, <2>2 DEF Next, SetPosition, SetIp, IntoIter, IterNone
  <2>. QED BY <2>1, <2>2
<1>. QED BY <1>2, DecoderInvariant, PTL DEF Spec, LastErrorDescribesDecode

(***************************************************************************)
(* The loops implement LinearSweep                                         *)
(***************************************************************************)

(* Division by the instruction length counts whole instructions. *)
LEMMA WholeInstructions ==
  ASSUME NEW n \in Nat
  PROVE  /\ n \div INSN_LEN \in Nat
         /\ n < INSN_LEN => n \div INSN_LEN = 0
         /\ n >= INSN_LEN => /\ n \div INSN_LEN = ((n - INSN_LEN) \div INSN_LEN) + 1
                             /\ (n - INSN_LEN) \div INSN_LEN \in Nat
         /\ (n \div INSN_LEN) * INSN_LEN <= n
BY SizesAssumption

(* The words from the cursor on. *)
Remaining == IF pos <= Len(data) THEN (Len(data) - pos) \div INSN_LEN ELSE 0
ItemAt(i) == <<WrapAdd(ip, (i - 1) * INSN_LEN), Window(pos + (i - 1) * INSN_LEN)>>

(* What is left is counted in whole words, and is empty exactly when the
   window no longer fits. *)
LEMMA RemainingCounts ==
  ASSUME pos \in Nat, Len(data) \in Nat
  PROVE  /\ Remaining \in Nat
         /\ Remaining = 0 <=> ~Fits(pos)
         /\ Remaining # 0 => Remaining * INSN_LEN <= Len(data) - pos
<1>1. CASE pos <= Len(data)
  <2> DEFINE n == Len(data) - pos
  <2>1. n \in Nat /\ (Fits(pos) <=> n >= INSN_LEN) /\ (n < INSN_LEN \/ n >= INSN_LEN)
    BY <1>1, SizesAssumption DEF Fits
  <2>2. Remaining = n \div INSN_LEN
    BY <1>1 DEF Remaining
  <2> HIDE DEF n
  <2>3. /\ n \div INSN_LEN \in Nat
        /\ n < INSN_LEN => n \div INSN_LEN = 0
        /\ n >= INSN_LEN => n \div INSN_LEN # 0
        /\ (n \div INSN_LEN) * INSN_LEN <= n
    <3>1. n >= INSN_LEN =>
            \E m \in Nat : n \div INSN_LEN = m + 1
      BY <2>1, WholeInstructions
    <3>2. \A m \in Nat : m + 1 # 0 OBVIOUS
    <3>. QED BY <2>1, <3>1, <3>2, WholeInstructions
  <2>4. n < INSN_LEN => ~(n >= INSN_LEN)
    BY <2>1, SizesAssumption
  <2>. QED BY <2>1, <2>2, <2>3, <2>4 DEF n
<1>2. CASE ~(pos <= Len(data))
  <2>1. Remaining = 0 /\ ~Fits(pos)
    BY <1>2, SizesAssumption DEF Remaining, Fits
  <2>. QED BY <2>1
<1>. QED BY <1>1, <1>2

(* The items to come are a list of addresses and words. *)
LEMMA ItemsTyped ==
  ASSUME Inv
  PROVE  /\ Remaining \in Nat
         /\ Items = [i \in 1..Remaining |-> ItemAt(i)]
         /\ Items \in Seq(Addr \X Word)
         /\ Len(Items) = Remaining
         /\ (Remaining = 0 <=> ~Fits(pos))
<1>1. pos \in Nat /\ Len(data) \in Nat /\ Len(data) <= MaxPos
  BY SizesAssumption DEF Inv, TypeOK, Pos
<1>2. Remaining \in Nat /\ (Remaining = 0 <=> ~Fits(pos))
  BY <1>1, RemainingCounts
<1>3. Items = [i \in 1..Remaining |-> ItemAt(i)]
  BY DEF Items, Remaining, ItemAt
<1>4. ASSUME NEW i \in 1..Remaining PROVE ItemAt(i) \in Addr \X Word
  <2> DEFINE d == (i - 1) * INSN_LEN
  <2>1. Remaining * INSN_LEN <= Len(data) - pos
    BY <1>1, <1>4, RemainingCounts
  <2>2. d \in Nat /\ d + INSN_LEN <= Remaining * INSN_LEN
    BY <1>2, SizesAssumption
  <2> HIDE DEF d
  <2>3. Fits(pos + d) /\ pos + d \in Nat /\ d \in Addr
    BY <1>1, <1>2, <2>1, <2>2, SizesAssumption DEF Fits, Addr
  <2>4. Window(pos + d) \in Word
    BY <2>3, WindowFits DEF Inv
  <2>5. WrapAdd(ip, d) \in Addr
    BY <2>3, WrapTypes DEF Inv, TypeOK
  <2>. QED BY <2>4, <2>5 DEF ItemAt, d
<1>5. Items \in Seq(Addr \X Word) /\ Len(Items) = Remaining
  BY <1>2, <1>3, <1>4
<1>. QED BY <1>2, <1>3, <1>5

(* Handing out the word under the cursor takes the head of the items and
   leaves their tail. *)
LEMMA DecodeTakesHead ==
  ASSUME Inv, Fits(pos), DecodeStep, UNCHANGED <<data, phase, origin>>
  PROVE  /\ Items # << >>
         /\ Head(Items) = <<out'.ip, out'.word>>
         /\ Tail(Items) = Items'
<1>1. Inv' BY DecodeStepInv
<1>2. /\ out'.ip = ip /\ out'.word = Window(pos) /\ data' = data
      /\ pos' = pos + INSN_LEN /\ ip' = WrapAdd(ip, INSN_LEN)
  BY DEF DecodeStep, DecodedInsn, Advance
<1>3. pos \in Nat /\ Len(data) \in Nat /\ Len(data) <= MaxPos /\ ip \in Addr
  BY SizesAssumption DEF Inv, TypeOK, Pos
<1>4. /\ Remaining \in Nat \ {0} /\ Items = [i \in 1..Remaining |-> ItemAt(i)]
      /\ Items \in Seq(Addr \X Word) /\ Len(Items) = Remaining
  BY ItemsTyped
<1>5. Items' = [i \in 1..Remaining' |-> ItemAt(i)']
  BY DEF Items, Remaining, ItemAt
<1>6. Items # << >> BY <1>4
<1>7. Head(Items) = <<out'.ip, out'.word>>
  <2>1. 0 \in Addr /\ 1 \in 1..Remaining /\ (1 - 1) * INSN_LEN = 0
    BY <1>4, SizesAssumption DEF Addr
  <2>2. ItemAt(1) = <<ip, Window(pos)>>
    BY <1>3, <2>1, SizesAssumption DEF ItemAt, WrapAdd, Addr
  <2>. QED BY <1>2, <1>4, <2>1, <2>2
<1>8. Remaining' = Remaining - 1 /\ Remaining' \in Nat
  <2> DEFINE n == Len(data) - pos
  <2>1. n \in Nat /\ n >= INSN_LEN /\ n - INSN_LEN = Len(data') - pos'
        /\ pos <= Len(data) /\ pos' <= Len(data')
    BY <1>2, <1>3, SizesAssumption DEF Fits
  <2>2. Remaining = n \div INSN_LEN /\ Remaining' = (n - INSN_LEN) \div INSN_LEN
    BY <2>1 DEF Remaining
  <2> HIDE DEF n
  <2>3. /\ n \div INSN_LEN = ((n - INSN_LEN) \div INSN_LEN) + 1
        /\ (n - INSN_LEN) \div INSN_LEN \in Nat
    BY <2>1, WholeInstructions
  <2>4. \A a, m : m \in Nat /\ a = m + 1 => m = a - 1
    OBVIOUS
  <2>. QED BY <2>2, <2>3, <2>4
<1>9. ASSUME NEW i \in 1..Remaining' PROVE ItemAt(i)' = ItemAt(i + 1)
  <2> DEFINE d == (i - 1) * INSN_LEN
  <2>1. Remaining * INSN_LEN <= Len(data) - pos
    BY <1>3, <1>4, RemainingCounts
  <2>2. /\ d \in Nat /\ ((i + 1) - 1) * INSN_LEN = d + INSN_LEN
        /\ d + INSN_LEN <= Remaining * INSN_LEN
    BY <1>4, <1>8, SizesAssumption
  <2> HIDE DEF d
  <2>3. d \in Pos /\ INSN_LEN \in Pos /\ d + INSN_LEN \in Pos
    BY <1>3, <1>4, <2>1, <2>2, SizesAssumption DEF Pos
  <2>4. WrapAdd(WrapAdd(ip, INSN_LEN), d) = WrapAdd(ip, d + INSN_LEN)
    <3>1. d + INSN_LEN >= INSN_LEN /\ (d + INSN_LEN) - INSN_LEN = d
      BY <2>2, SizesAssumption
    <3>. QED BY <1>3, <2>3, <3>1, WrapMoves
  <2>5. Window(pos + d)' = Window(pos + (d + INSN_LEN))
    <3>1. pos' + d = pos + (d + INSN_LEN)
      BY <1>2, <1>3, <2>2, SizesAssumption
    <3>. QED BY <1>2, <3>1 DEF Window
  <2>. QED BY <1>2, <2>2, <2>4, <2>5 DEF ItemAt, WrapAdd, d
<1>10. Tail(Items) = Items'
  <2>1. Tail(Items) = [i \in 1..(Remaining - 1) |-> Items[i + 1]]
    BY <1>4, <1>6
  <2>2. \A i \in 1..(Remaining - 1) : Items[i + 1] = ItemAt(i)'
    BY <1>4, <1>8, <1>9
  <2>. QED BY <1>5, <1>8, <2>1, <2>2
<1>. QED BY <1>6, <1>7, <1>10

(* The state of the abstract loop. *)
SweepRemaining == IF Looping THEN Items ELSE << >>
SweepLast == IF Looping /\ out.from = "word" THEN <<out.ip, out.word>> ELSE << >>

(* Every step of the cursor is a step of LinearSweep or leaves its loop
   alone. *)
LEMMA StepSweeps ==
  ASSUME Inv, Next
  PROVE  [Sweep!SweepNext]_(Sweep!sweepVars)
<1> USE DEF Sweep!SweepNext, Sweep!sweepVars
<1>1. CASE DecodeInto
  BY <1>1 DEF DecodeInto, Looping
<1>2. ASSUME NEW p \in Pos, SetPosition(p) PROVE [Sweep!SweepNext]_(Sweep!sweepVars)
  BY <1>2 DEF SetPosition, Looping
<1>3. ASSUME NEW a \in Addr, SetIp(a) PROVE [Sweep!SweepNext]_(Sweep!sweepVars)
  BY <1>3 DEF SetIp, Looping
<1>4. ASSUME NEW k \in {"loop", "consume"}, IntoIter(k) PROVE Sweep!Start
  <2>1. Items \in Seq(Addr \X Word) BY ItemsTyped
  <2>2. ~Looping /\ Looping' = TRUE /\ Items' = Items /\ out'.from = "default"
    BY <1>4 DEF IntoIter, Looping, Items, DefaultInsn, Window, WrapAdd
  <2>. QED BY <2>1, <2>2 DEF Sweep!Start
<1>5. CASE IterSome
  <2>1. Looping /\ Looping' = Looping /\ Fits(pos) /\ DecodeStep
        /\ UNCHANGED <<data, phase, origin>>
    BY <1>5 DEF IterSome, Looping
  <2>2. Items # << >> /\ Head(Items) = <<out'.ip, out'.word>> /\ Tail(Items) = Items'
    BY <2>1, DecodeTakesHead
  <2>3. out'.from = "word" BY <2>1 DEF DecodeStep, DecodedInsn
  <2>. QED BY <2>1, <2>2, <2>3 DEF Sweep!Yield
<1>6. CASE IterNone
  <2>1. Items = << >> BY <1>6, ItemsTyped DEF IterNone
  <2>2. Looping /\ Looping' = FALSE
    BY <1>6 DEF IterNone, Looping
  <2>. QED BY <2>1, <2>2 DEF Sweep!Finish
<1>. QED BY <1>1, <1>2, <1>3, <1>4, <1>5, <1>6 DEF Next

(* Every `for` loop over the decoder, by &mut or by value, yields exactly the
   words that remained when it started, in order, at their addresses, and ends
   only when none is left: the decoder implements LinearSweep. *)
THEOREM IterationSweepsAlways == Spec => IterationSweeps
<1>1. Init => Sweep!SweepInit
  BY DEF Init, New, Sweep!SweepInit, Looping
<1>2. Inv /\ [Next]_vars => [Sweep!SweepNext]_(Sweep!sweepVars)
  <2>. SUFFICES ASSUME Inv, [Next]_vars PROVE [Sweep!SweepNext]_(Sweep!sweepVars)
    OBVIOUS
  <2>1. CASE UNCHANGED vars
    BY <2>1 DEF vars, Sweep!sweepVars, Looping, Items, Window, WrapAdd
  <2>. QED BY <2>1, StepSweeps
<1>. QED BY <1>1, <1>2, DecoderInvariant, PTL DEF Spec, IterationSweeps, Sweep!SweepSpec
=============================================================================
