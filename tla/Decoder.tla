------------------------------ MODULE Decoder ------------------------------
(***************************************************************************)
(* The borrowing decoder of src/decoder.rs: a cursor over a byte slice,    *)
(* the address of the byte under the cursor, and the status of the most    *)
(* recent decode.  The decode tree itself is the constant operator         *)
(* Decodable: all the cursor needs of it is whether a window of INSN_LEN   *)
(* bytes decodes to a valid instruction.                                   *)
(*                                                                         *)
(* A caller uses the decoder directly (phase "idle") or runs a `for` loop  *)
(* over it (phase "loop").  The loop borrows the decoder mutably, so no    *)
(* other operation can interleave with it: the guards on phase are that    *)
(* borrow.  A consuming loop (`for insn in decoder`) ends in phase "gone". *)
(***************************************************************************)
EXTENDS Integers, Sequences

CONSTANTS Byte,          \* values of a byte
          Images,        \* the byte slices that are decoded
          MaxPos,        \* usize::MAX
          AddrMod,       \* number of addresses (2^64 in the code)
          INSN_LEN,      \* bytes of an instruction
          Decodable(_)   \* does the decode tree accept this window of bytes?

Addr == 0..(AddrMod - 1)
Pos  == 0..MaxPos
Word == [1..INSN_LEN -> Byte]

ASSUME SizesAssumption ==
  /\ INSN_LEN \in Nat \ {0}
  /\ MaxPos \in Nat
  /\ AddrMod \in Nat
  /\ Images \subseteq Seq(Byte)
  /\ \A d \in Images : Len(d) <= MaxPos   \* no slice is longer than usize::MAX
  /\ MaxPos < AddrMod                     \* usize is no wider than u64
  /\ INSN_LEN < AddrMod

ASSUME DecodableAssumption == \A w \in Word : Decodable(w) \in BOOLEAN

VARIABLES data,        \* the byte slice
          pos,         \* byte cursor
          ip,          \* address of data[pos]
          last_error,  \* status of the most recent decode
          out,         \* the instruction most recently produced
          phase,       \* how the caller is using the decoder
          origin       \* history: the address the caller gave to data[0],
                       \* moved only by set_ip

vars == <<data, pos, ip, last_error, out, phase, origin>>

(* Instruction::default(): the invalid instruction at address 0. *)
NoWord == [i \in 1..0 |-> 0]
DefaultInsn == [word |-> NoWord, ip |-> 0, valid |-> FALSE, from |-> "default"]

(***************************************************************************)
(* Faulty variants of definitions below, used to show that the properties  *)
(* detect them.                                                            *)
(***************************************************************************)
WrapAdd_NoWrap(a, b) == a + b
Fits_Strict(p) == p + INSN_LEN < Len(data)
ShortTail_StatusLeft == out' = DefaultInsn /\ UNCHANGED <<last_error, pos, ip>>
SetPosition_KeepIp(p) ==
  phase = "idle" /\ pos' = p /\ UNCHANGED <<data, ip, last_error, out, phase, origin>>
Advance_OnlyIfValid ==
  IF out'.valid
  THEN pos' = pos + INSN_LEN /\ ip' = (ip + INSN_LEN) % AddrMod
  ELSE UNCHANGED <<pos, ip>>
DecodedInsn_NextIp(p, a) ==
  LET w == [i \in 1..INSN_LEN |-> data[p + i]]
  IN  [word |-> w, ip |-> (a + INSN_LEN) % AddrMod, valid |-> Decodable(w),
       from |-> "word"]

(* u64::wrapping_add and u64::wrapping_sub on Addr. *)
WrapAdd(a, b) == IF a + b < AddrMod THEN a + b ELSE (a + b) - AddrMod
WrapSub(a, b) == IF b <= a THEN a - b ELSE (a - b) + AddrMod

(* data.get(pos..).and_then(|r| r.get(..INSN_LEN)) is Some. *)
Fits(p) == p + INSN_LEN <= Len(data)

(* The little-endian word under the cursor, as the bytes it is made of. *)
Window(p) == [i \in 1..INSN_LEN |-> data[p + i]]

(* What decode::decode_into leaves in `out`. *)
DecodedInsn(p, a) ==
  [word |-> Window(p), ip |-> a, valid |-> Decodable(Window(p)), from |-> "word"]

(***************************************************************************)
(* Operations                                                              *)
(***************************************************************************)

(* Decoder::new: data[0] sits at ip. *)
New ==
  /\ data \in Images
  /\ pos = 0
  /\ ip \in Addr
  /\ last_error = "None"
  /\ out = DefaultInsn
  /\ phase = "idle"
  /\ origin = ip

(* The status recorded for a word that was read. *)
Status(valid) == IF valid THEN "None" ELSE "Unmatched"

(* Fixed-width ISA: one word further, whether or not it decoded. *)
Advance == pos' = pos + INSN_LEN /\ ip' = WrapAdd(ip, INSN_LEN)

(* Fewer bytes than a word are left: nothing is decoded and the cursor
   stays. *)
ShortTail ==
  /\ out' = DefaultInsn
  /\ last_error' = "EndOfInstruction"
  /\ UNCHANGED <<pos, ip>>

(* The body of Decoder::decode_into. *)
DecodeStep ==
  \/ /\ Fits(pos)
     /\ out' = DecodedInsn(pos, ip)
     /\ last_error' = Status(out'.valid)
     /\ Advance
  \/ ~Fits(pos) /\ ShortTail

(* decode / decode_into / decode_out called by the caller. *)
DecodeInto ==
  /\ phase = "idle"
  /\ DecodeStep
  /\ UNCHANGED <<data, phase, origin>>

SetPosition(p) ==
  /\ phase = "idle"
  /\ ip' = IF p >= pos THEN WrapAdd(ip, p - pos) ELSE WrapSub(ip, pos - p)
  /\ pos' = p
  /\ UNCHANGED <<data, last_error, out, phase, origin>>

SetIp(a) ==
  /\ phase = "idle"
  /\ ip' = a
  /\ origin' = WrapSub(a, pos)
  /\ UNCHANGED <<data, pos, last_error, out, phase>>

(* into_iter: by &mut (kind "loop") or by value (kind "consume"). *)
IntoIter(kind) ==
  /\ phase = "idle"
  /\ phase' = kind
  /\ out' = DefaultInsn
  /\ UNCHANGED <<data, pos, ip, last_error, origin>>

Looping == phase \in {"loop", "consume"}

(* Iterator::next returning Some(decode()). *)
IterSome ==
  /\ Looping
  /\ Fits(pos)
  /\ DecodeStep
  /\ UNCHANGED <<data, phase, origin>>

(* Iterator::next returning None: the `for` loop ends; a consumed decoder
   is dropped with its iterator. *)
IterNone ==
  /\ Looping
  /\ ~Fits(pos)
  /\ phase' = IF phase = "loop" THEN "idle" ELSE "gone"
  /\ out' = DefaultInsn
  /\ UNCHANGED <<data, pos, ip, last_error, origin>>

Init == New

Next ==
  \/ DecodeInto
  \/ \E p \in Pos : SetPosition(p)
  \/ \E a \in Addr : SetIp(a)
  \/ \E k \in {"loop", "consume"} : IntoIter(k)
  \/ IterSome
  \/ IterNone

(* A `for` loop is sequential code that keeps calling next() until it
   returns None; nothing obliges the caller to do anything else. *)
Fairness == WF_vars(IterSome \/ IterNone)

Spec == Init /\ [][Next]_vars /\ Fairness

(***************************************************************************)
(* Properties                                                              *)
(***************************************************************************)

(* Types of the decoder's fields and of the instruction it hands out. *)
TypeOK ==
  /\ data \in Images
  /\ pos \in Pos
  /\ ip \in Addr
  /\ last_error \in {"None", "Unmatched", "EndOfInstruction"}
  /\ out \in [word : Word \cup {NoWord}, ip : Addr, valid : BOOLEAN,
              from : {"default", "word"}]
  /\ phase \in {"idle", "loop", "consume", "gone"}
  /\ origin \in Addr

(* set_position "keeps ip consistent with the new position relative to the
   original base": however decodes and seeks are interleaved, across wrap of
   the address space included, the address of the cursor is the base the
   caller chose plus the cursor. *)
IpTracksPosition == ip = WrapAdd(origin, pos)

(* Every instruction handed out carries the word stored at its own address:
   the address minus the base in force is the offset of its bytes.  A decode
   and a seek that disagree about ip would break it. *)
WordIsAtItsAddress ==
  [][out' # out /\ out'.from = "word" =>
       LET off == WrapSub(out'.ip, origin)
       IN  Fits(off) /\ out'.word = Window(off)]_vars

(* What a decode of the bytes at p has to report, from the slice alone. *)
Outcome(p) ==
  CASE ~Fits(p) -> "EndOfInstruction"
    [] Fits(p) /\ Decodable(Window(p)) -> "None"
    [] Fits(p) /\ ~Decodable(Window(p)) -> "Unmatched"

(* last_error() describes the most recent decode and nothing else.  Every
   decode, asked for by the caller or by a loop, leaves the outcome of the
   bytes under the cursor before it, EndOfInstruction on a short tail
   included whatever the status was, and hands out a valid instruction
   exactly when that outcome is None; a seek, set_ip, the start of a loop and
   a next() that returns None decode nothing and leave the status alone. *)
LastErrorDescribesDecode ==
  [][IF DecodeInto \/ IterSome
     THEN last_error' = Outcome(pos) /\ (out'.valid <=> Outcome(pos) = "None")
     ELSE UNCHANGED last_error]_vars

(* The iterators implement LinearSweep: the items still to come are the
   whole words from the cursor on, at consecutive addresses. *)
Items ==
  LET n == IF pos <= Len(data) THEN (Len(data) - pos) \div INSN_LEN ELSE 0
  IN  [i \in 1..n |-> <<WrapAdd(ip, (i - 1) * INSN_LEN),
                        Window(pos + (i - 1) * INSN_LEN)>>]

Sweep == INSTANCE LinearSweep WITH
  looping   <- Looping,
  remaining <- IF Looping THEN Items ELSE << >>,
  last      <- IF Looping /\ out.from = "word" THEN <<out.ip, out.word>> ELSE << >>

(* Every loop over the decoder yields exactly the words that remain, in
   order, at their addresses, and ends only when none is left. *)
IterationSweeps == Sweep!SweepSpec

(* A loop over the decoder ends, by &mut or by value. *)
LoopTerminates == Looping ~> ~Looping
=============================================================================
