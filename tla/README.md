# A TLA+ model of fARM64

fARM64 decodes 32-bit A64 words into `Instruction` values, lets a caller edit
them, encodes them again from their semantics, reports what they access and
formats them. This directory models the crate but for the data processing of
SVE and SME, checks the models with TLC and proves the properties of its core
with TLAPS.

## 1. Inventory

| Component | Source | State | Operations | Talks to |
|-|-|-|-|-|
| Decoder cursor and iterators | `src/decoder.rs` | slice, `pos`, `ip`, `last_error` | `new`, `decode*`, `set_position`, `set_ip`, `for` by `&mut` or by value | calls the decode tree once per word |
| Instruction and editing API | `src/instruction.rs`, `src/operand.rs` | word, ip, code, mnemonic, operand slots and count, modified flag | 16 setters, `relocate`, `re_encode` | `re_encode` calls the encoders |
| The two dispatches | `decode/mod.rs`, `encode/mod.rs` | none | word to group; Code to group | call one group each |
| Data processing (immediate), PC-relative | `dp_imm.rs`, `bits.rs` | none | decode to an alias, encode from it | read `ip` |
| Branches, exceptions, hints, system | `branch_sys.rs`, `sysreg.rs`, `tables/sysins.rs` | none | decode, encode, name tables | read `ip` and the features |
| Data processing (register) | `dp_reg.rs` | none | decode, encode | |
| Loads, stores, structures, memory copy | `ldst.rs`, `ldst_simd.rs`, `mops.rs` | none | decode, encode | |
| Scalar FP and Advanced SIMD | `decode/simd_fp/`, `encode/simd_fp*.rs` | none | decode, encode | |
| Apple AMX and GXF | `apple.rs` | none | decode, encode | |
| SVE memory accesses | `sve_mem.rs`, `encode/sve/imp/mem*.rs` | none | decode, encode | |
| SVE data processing, SME | `sve/`, `sme/` | none | decode, encode | |
| Feature gates | `features.rs`, `Code::feature` | a bit set | `has`, set operations | read by every decoder |
| Access information | `info.rs`, `implicit.rs` | lists of fixed capacity | `instruction_info`, `implicit_registers` | read an `Instruction` |
| Formatter | `format/` | a bounded sink and its overflow flag | `format` | reads an `Instruction` |

The crate is single-threaded, has no I/O and persists nothing: there is no
concurrency, crash or message to model. What is hard to test here is

* long sequences of legal calls (seek, decode, re-base, loop; grow, shrink and
  replace operands) that must keep two pieces of state in step;
* edits that are refused half-way, and a `modified` flag that must never be
  too low;
* arithmetic at the ends of the address space and of a field, on values an edit
  chose and no decode produces;
* a decoder that picks one of several spellings and an encoder that has to
  undo the choice for every field value, and finds its group from the Code;
* a gate in a decoder and a feature in a table that nothing relates;
* lists and buffers of fixed capacity that merge, drop and cut;
* termination of a loop over data that does not decode.

`PROJECT.json` lists each of these at its line.

What makes each component correct: the decoder hands out every word once, at
its own address, and its status describes the last decode; an edit is all or
nothing, never resurrects an operand and never leaves a stale word unmarked;
every decoder and encoder pair is inverse up to bits the architecture ignores,
accepts exactly what the declared feature allows, and refuses a value it cannot
encode; the access lists tell every access; the sink holds valid text and
knows when some is missing.

## 2. Modules

| Module | Models |
|-|-|
| `Decoder` | the cursor; one action per operation. The exclusive borrow of a `for` loop is the guard on `phase`. |
| `LinearSweep` | abstract specification of a loop: a list of items fixed when the loop starts, handed out head first |
| `Operand` | operands as records of one shape (variant, two registers, payload, decoration) and the instruction record |
| `Instruction` | every public mutator as an operator from an instruction to the instruction and Boolean it leaves; one action each. The decode tree and the encoders are constant operators. |
| `PcRel` | signed field to label and back, with wrapping addresses |
| `Fields`, `Spelling` | the helpers and table shapes all groups share; the enabled features, the gates and the selectors of system instructions |
| `BranchImm` | every instruction with a label, and UDF |
| `BitMasks`, `DpImm` | bitmask immediates (a bit vector is the set of its one positions) and the data-processing-immediate group with its aliases |
| `DpReg` | the data-processing-register group: aliases, shifts, extends, gates |
| `SysBlock`, `System` | the name tables and the fields of the system block; then branches to a register, exceptions, hints, barriers, MSR and MRS, SYS with its named forms, 128-bit moves, TCHANGE |
| `LdStWord` | the word layout, the memory operands and the displacement helpers of all loads and stores |
| `LdStReg`, `LdStAtomic`, `LdStSimd` | single registers, pairs, tags, ordered pairs and guarded control stacks; exclusives, ordered accesses and atomics; structures and memory copy |
| `LoadStore` | the dispatch over the three |
| `SimdWord` | the word layout, arrangements and operands of all vector forms |
| `ScalarFp`, `SimdData`, `SimdSame`, `SimdMisc` | scalar floating point; copies, permutes, modified immediates and shifts; three registers; two registers, across lanes and by element |
| `SimdFp` | cryptography, and the dispatch over it and the four above |
| `SveMem` | contiguous, structured, replicating, broadcasting, gathering and scattering accesses of SVE, their quadword forms, prefetches, whole-register transfers |
| `Groups` | `decode_into` and `encode` over all the groups above; the AMX and GXF instructions of Apple |
| `RoundTrip` | decode, encode, decode again, for any decoder and encoder |
| `AccessMap` | abstract specification of an access analysis: a set of facts due, learned in any order, none forgotten and none made up |
| `Info` | `instruction_info` and `implicit_registers`: a stream of touches recorded one by one in lists that merge and are full at their capacity; refines `AccessMap` |
| `Formatter` | the chunks a call of `format` hands to the sink, and `BufSink` |
| `MC*` | instances for TLC |
| `Decoder_proofs`, `Instruction_proofs`, `Info_proofs`, `Formatter_proofs` | theorems about the module of that name |
| `BranchImm_proofs` | theorems about the branch codec alone; `Instruction_proofs` cites them for branches under the editing API |
| `DataProcessing_proofs` | theorems about the decoders, encoders and feature gates of the two data-processing groups |
| `RoundTrip_proofs` | theorems about the round-trip loop: of the branches, of all groups, and of the data-processing words |
| `Lists_proofs` | lemmas about lists, elements and joined lists of lists, for `Formatter_proofs` and `Info_proofs` |

Composition. `MCInstruction` composes `Instruction` with `BranchImm`, and
`MCGroupEdit` composes it with `Groups`; `MCBranchImm`, `MCGroups` and
`MCSimdFp` compose `RoundTrip` with `BranchImm`, `Groups` and `SimdFp`;
`MCInfo` feeds `Info` with what the group decoders produce.

Abstractions. A word is a record of the fields its decoders branch on; the bit
positions are left out, and that no field leaves its range is part of
`TypeOK`. In the immediate, register and branch groups the class of a word is
the outcome of the bit tests of the decode tree; the loads, stores and vectors,
those of SVE included, keep the tests themselves. A `Code` is a tuple (spelling, form, width), a
mnemonic is a tuple of name parts, and an operand's arrangement, lane, shift,
extend or addressing mode is one tuple `dec`, which the editing API never looks
into. When two operands of one instruction are wrong at once, the model reports
the wrong shape first, where the code reports the first operand. A table that
decoder and encoder list alike in their match arms is written once. Immediates
and addresses are numbers modulo `AddrMod`, with u32 arithmetic modulo
`U32Mod`; only the logical and move-wide immediates are bit vectors.

Operands have the shape their variant declares: `WellFormed` in `Instruction`
bounds a payload by the width of its Rust field, `ShapedOperand` and `Shaped` in
`Info` say which variants carry how many registers and what the decoders build
(at most one memory operand, two for the memory copies; a 64-byte transfer
names an even register up to 22). Both are assumptions that TLC evaluates on
the inputs of the runs.

Build-dependent behaviour: u32 overflow panics with overflow checks and wraps
without; `OverflowChecks` selects.

The definitions headed "Faulty variants" are plausible bugs. Each property of a
passing run is violated when one of them replaces the definition it is named
after, which shows that the property depends on that code.

## 3. Runs

| Run | Question | Bounds |
|-|-|-|
| `decoder` | Do decodes, seeks, re-basing and loops in any order keep the cursor, its address, the status and the items right? Does a loop end? | slices of 0, 3, 4, 7, 8 and 9 bytes, all positions up to 10, a 16-address space so that every run wraps |
| `editing` | Can any three operations leave a stale operand, an unmarked stale word, a half-applied edit, a rounded label or another instruction? | nine words, one per class; 3 slots so that they fill up; addresses at both ends of the space, on and off a page |
| `branch_round_trip` | Does every branch and PC-relative word encode back to itself? | all words of fields with 2 to 8 values, 11 addresses |
| `round_trip` | Through both dispatches: is every alias undone, which bits change, is every gate the declared feature, and do masks and conditions mean what the word means? | every opcode, option, selector, N, immr and imms; boundary values of amounts and offsets; the register numbers that select aliases, pairs and reserved forms; one size of every vector opcode; every SVE access, with the registers and immediates that select its forms |
| `simd_round_trip` | The same for scalar FP and Advanced SIMD. | every value of every field but the numbers of the destination and of the first source |
| `group_editing` | After edits of any encodable form, is what encodes exactly what the edits left? | about 900 forms, values at the bounds of their fields and one past them; one edit, and a second one in the immediate and register groups, where two operands share a constraint |
| `access_info` | Do the bounded lists report every access, exactly once per register, and does the analysis end? | decoded instructions of all groups (54 000 states), the widest SVE and SME operands, and one instruction analysed again |
| `formatting` | Wherever the buffer ends, is the text UTF-8 and the flag right, and is the text whole when it fits? | up to two instructions of up to two operands, capacities 0 to 20, a case buffer and a run of spaces of 2 bytes so that both are refilled, a two-byte character |
| `base_decodes_extensions`, `half_convert_needs_fp16`, `bitfield_edit_overflows`, `stores_reported_as_loads` | section 4 | as the run of the same module |

`MCInfo` also evaluates `WidestFits`: no instruction of its sample touches more
than the thirteen registers and two memory locations that `info.rs:55-64` names
as the most. `MCInstruction` evaluates `CodecFits`, what the theorems about
branches ask of the constants.

Three edits are enough for `editing`: each property relates one instruction to
its word or its predecessor, and the invariant that makes them hold is proved
for any number of edits (section 5). Narrow branch fields are enough because
the proofs are for every width. All other fields have their real width.

Exceptions are named where they apply: `Ignored` lists the fields a vector form
does not read, with the source lines; `SysNormal` and its companions `ImmNormal`,
`RegNormal` and `MemNormal` say which bits of the other words the decoder does
not read and what the encoder writes there, so that `OnlyIgnoredBitsChange` is
an equality of words (section 4 says which of those bits the architecture does
not ignore); and `KnownLoss` in `MCGroupEdit` the operands an encoder reads only a part of
(section 4). `EditEncodesExactly` holds of every other operand of every form.

`EveryRegisterShownIsListed` and `ReportsEverything` compare the lists with the
operands and with the touches the code makes. A sink that has overflowed may
have a hole: a chunk that does not fit is dropped whole, and a shorter one after
it is still taken, so the text then need not be a prefix; the crate promises
only the flag.

CHECK_DEADLOCK is off where a behaviour ends: a consumed decoder, the last
allowed edit or call, a finished round trip.

Fairness. Weak fairness of the step of a running `for` loop: it is straight
sequential code that calls `next()` until it returns `None`. Weak fairness of
the step of a running analysis, inside `ReportsEverything`: the call runs to
its end before it returns. Nothing obliges a caller to start either.

Bounds: `MaxEdits`, `MAX_OPERANDS`, `MaxPos`, `MaxOps`, `MaxCap`, `MaxCalls`,
`CasedBuf`, `SpacesRun`, `AddrMod`, `U32Mod`, `U32`, `U8Max`, `U16Max`,
`I32Max` and the field sizes `C*` stand for the code's limits and machine
widths; each is a constant with its assumption stated. In `group_editing` u64
and u32 are 24 and 20 bits wide, above every field, and no value reaches
`U32Mod` except the negative ones, which do so in the code.

## 4. Disagreements between documentation and code

Shown by a run:

1. `bitfield_edit_overflows`: `recover_bitfield_fields` subtracts and adds u32
   values before any range check, so a bitfield alias edited to an lsb above
   the register size panics in a build with overflow checks, where the README
   promises an `EncodeError`. `left_immhb` (`simd_fp_data.rs:552`) is a second
   place.
2. `base_decodes_extensions`: MADDPT and MSUBPT (FEAT_CPA), and SMSTART and
   SMSTOP (FEAT_SME), decode under the base feature set.
3. `half_convert_needs_fp16`: FCVT from half precision does not decode without
   FEAT_FP16; a comment says it always does.
4. `stores_reported_as_loads`: a store `info.rs` does not name is a load.

Without a run, because `OnlyIgnoredBitsChange` holds by exempting exactly these
bits (`SysNormal`): `encode/branch_sys.rs:27-38` names the Rt of TLBI and IC as the
only bits a system word loses, "everything else is a bit-exact round-trip", and
that does not hold.

* Hints, barriers, WFET and WFIT decode whatever their op1 is:
  `decode_op0_00_named` (`decode/branch_sys.rs:729-741`) does not pass it on,
  although the architecture fixes it to 011, and the encoder writes 011. So
  `0xD500201F` (op1 = 000) reads as NOP and is written back as `0xD503201F`.
  With another op1 the selector is unallocated, and the comment at
  `decode/branch_sys.rs:667` promises the generic MSR to `S0_<op1>_...`.
* The CRm of SMSTART and SMSTOP loses its high bit, and a CRm that names
  neither state is written as the one that names both
  (`decode/branch_sys.rs:783-800`, which calls it reserved).
* GCSPUSHX, GCSPOPX and GCSPOPCX drop their Rt.
* The CRm of SB and of CFINV, XAFLAG and AXFLAG, which should be zero, is
  dropped as well; here the comments of the decoder (`decode/branch_sys.rs:804,
  1075`) say so.

Met while modelling, kept in the models and named in `KnownLoss` or kept out of
a run's inputs:

* nearly all immediates are narrowed to u32 before their range check, so
  2^32 + n encodes as n (for TBZ at `encode/branch_sys.rs:287`);
* CB of two registers takes its width from the first (`branch_sys.rs:361`), as
  LDIAPP and STILP do (`ldst.rs:2014`);
* CSET, CINC and their relatives encode a condition edited to AL as another
  mnemonic (`dp_reg.rs:599`);
* exclusives, atomics, 64-byte accesses and structures post-indexed by a
  register drop an edited displacement (`ldst.rs:1041`);
* SVE accesses read the number of a base register whatever its bank, drop an
  edited displacement where the form has none, and take XZR as an index, which
  is reserved (`encode/sve/imp/mem_enc.rs:64`);
* LD64B and ST64B take an odd or too large data register (`ldst.rs:1838`);
* a move-wide shift of 64 or more reaches other fields (`dp_imm.rs:393`), and a
  governing predicate past P7 the opcode of an SVE access
  (`encode/sve/imp.rs:245`);
* an extended register ignores the type of its shift, a shifted one its
  extend, MOV both (`dp_reg.rs:413`);
* SMAX and SMIN take 128 to 255 as negative; TENTER, CLREX, ISB, DMB and SYS
  keep low bits; a generic HINT with the number of a named one, RETAASPPCR and
  RETABSPPCR of register 31, SSHLL and USHLL by 0 are other Codes; FCMLA divides
  its rotation by 90; FCMP takes any floating-point immediate for #0.0;
* URECPE of two doubles decodes; the 16-bit fixed-point vector converts and the
  vector FRINT32 and FRINT64 are not gated;
* INS is spelled MOV, and BFMLALB, BFMLALT and the FP8 FMLALL forms are in no
  list, so their destination is reported written only, where the documentation
  of `accumulates_into_dest` (`info.rs:189`) says it is read too;
* several access reports: LDTADD and the RCW atomics as loads (`info.rs:553`),
  the index register of a post-indexed structure as written (`info.rs:914`),
  compare-and-branch as reading flags (`implicit.rs:216`), the operand of WFET,
  WFIT, GCSPUSHM and GCSSS1 as written (`info.rs:251`).

## 5. Proofs

All for arbitrary constants, under the named assumptions of the modules, which
TLC evaluates for the constants of every run. Of the properties of the passing
runs, these are proved: all of `decoder` but `LoopTerminates`; all of `editing`,
`branch_round_trip` and `formatting`; all of `access_info` up to the return of
an analysis; and of `round_trip`, `MaskIsRotatedRun`,
`OrrSpelledOutOnlyForMoves` and `AliasConditionIsTheOpposite` as the run states
them, and `TypeOK`, `EveryDecodeEncodes`, `SemanticRoundTrip`, `OnlyIgnoredBitsChange` and
`GateIsTheDeclaredFeature` for the data-processing words of the sample.

**The cursor** (`Decoder_proofs`). `Inv == TypeOK /\ IpTracksPosition` is
inductive: `IpTracksPosition` needs the types of its operands for the wrapping
arithmetic, and the types need nothing else. The two action properties follow
from `Inv` in the state before the step; `LastErrorDescribesDecode` is stated
by operation, for a decode and a seek to the next word may make the same change
of the cursor: a decode leaves the outcome of the bytes under it, the short tail
included, and any other step leaves the status. `IterationSweepsAlways` is the
refinement of `LinearSweep`: the items a loop has left are a function of slice,
position and address (`Items`), a decode takes their head, and no other
operation of a running loop touches them. Assumptions: usize is no wider than
u64 and no slice is longer than usize allows.

**The editing API** (`Instruction_proofs`). The invariant is `Good(insn)`: typed,
empty past the count, and fresh (an unmodified instruction encodes to a word
equivalent to `word()`). Freshness is not inductive without the empty slots and
the types. The theorems hold of every decoder and encoder with three stated
contracts: `DecodeContract` (decode yields a typed unmodified instruction that
remembers its word), `EncodeContract` (encode never reads the word or the flag,
and reads the address only if there is a label) and `RoundTripContract`. Typing
includes `WellFormed`, so that no edit leaves a payload its Rust field could
not hold; `FailedEditChangesNothing` and `DecorationsPreserved` are proved
operation by operation.

**Branches** (`BranchImm_proofs`, second half of `Instruction_proofs`). Displacement and field are
inverse for every width and granule whose reach fits the address space, in the
byte, page and backward forms. From these and the tables, class by class:
`DecodeThenEncode` (a word that decodes encodes to itself) and, in the other
direction, `EncodeIsExact` (whatever an edited instruction encodes to is a word
that decodes to its labels and, with every feature on, its Code).
`BranchContracts` shows that the branch codec meets the three contracts above,
so the contracts are satisfiable and the theorems about editing hold of branches with
no contract assumed. The premise `BranchCodec` says that decode and encode are the
branch codec, as `MCInstruction.cfg` substitutes them, and that registers,
conditions and mnemonics include those the fields can name (`CodecFits`).
`EncodedCodeIsKept` needs `AllFeatures`: with a feature off a word that encodes
need not decode. `RelocateKeepsWord` compares the encoding before and after a move,
for the addresses and labels of each class.

**Data processing** (`DataProcessing_proofs`). Five parts.

* Bitmask immediates. Fields (N, immr, imms) that decode name an element
  size, a run of ones and a rotation. `EncodeBitMasksBack` shows that encoding
  the mask finds the same three, for every element size and register width: a
  mask repeats at no size below its own, and its run starts in one place only. `MaskShown`
  says which bits of the immediate shown are one, `PreferredIsAMove` and
  `SpelledOut` that an ORR from ZR is not shown as MOV only where a MOVZ or a
  MOVN has its value too.
* `DpImmRecovered` and `DpRegRecovered`: an instruction that decodes, whichever
  alias was chosen for it, encodes to its own word, but for the bits no decoder reads
  (`ImmWritten`, `RegWritten`). One lemma per class: the encoder finds the
  class from the Code, then undoes the alias field by field.
* `ImmWrittenMeansTheSame` and `RegWrittenMeansTheSame`: that word decodes to the
  same instruction.
* `ConditionShown`: the aliases of the conditional selects, and no other
  instruction of the group, show the inverted condition, and only one below 14.
* `RegGate` and `ImmGate`: under other features a word that decodes gives the same
  instruction or nothing, by the feature `Code::feature` declares for it, so no word falls
  through to another Code. In the tables an opcode has one name and a name one feature
  (`TwoRowFeature`, `OneRowFeature`), and the forms of pointer authentication that use LR
  have opcodes the others never take. MADDPT and MSUBPT are the exception the
  runs found too (`BaseDecodesOnlyBase`): they stay whatever the features.

The hypothesis `ValuesFit` says that values are not cut off: four operand slots,
addresses and u32 values of more than twelve bits. `DpImmAssumption` gives the
register sizes, 64, 32 and 16 bits. Both hold in the code and for the constants
of the runs.

**The round-trip loop** (`RoundTrip_proofs`). `BranchLoopInv` (what was encoded is
the word itself, and decodes to what it was decoded to) is inductive and gives
all properties of `branch_round_trip`. For the run over all groups `GroupLoop`
says what `MCGroups` substitutes for the decoder and the encoder; `GroupLoopInv`
(an instruction that is decoded is the decoding of the word) carries the three
properties about what is shown, for every sample. `DataProcessingLoop` adds that the
sample has only data-processing words, and `DpLoopInv` (what was encoded is what
`WrittenBack` says of the word) gives the rest. For the gates, `SameImm` and `SameReg` show that
the dispatch over all groups runs the two decoders under the features it is given.
`AliasConditionIsTheOpposite` compares with the architecture's definition of a
condition, `Holds`, because the code has none.

**Access information** (`Info_proofs`). Two layers.

* `TypeInv`: the lists are lists of touches, shorter than their arrays, with no
  register twice. It needs no bound on the instruction: a full list drops.
  `TypeOKAlways` follows.
* `FactInv`: what is listed together with what is still to be recorded is,
  phase by phase, exactly what is due. It needs that there is room, from two
  sources. The implicit list never drops anything: `ImplicitParts` shows that no
  instruction has more than ten touches without an operand, because a 64-byte
  transfer, with seven, neither links, signs nor faults first. For the operands
  room is the hypothesis `AllFit`: the instruction touches at most
  `MAX_USED_REGS` registers and `MAX_USED_MEM` locations. It is what the
  constants of the code are chosen for; it is not a theorem of the shape of an
  operand alone, and `WidestFits` checks a stronger bound for the sample. From
  `AllFit` the lists have room whenever a register that is due is not listed
  (`DueRegisterHasRoom`, by counting).

Then `OnlyLearnsWhatIsDue` is the step-by-step refinement of `AccessMap`, and
`ReportsEverythingWhenDone` the whole of it if analyses return.
`EveryRegisterShownIsListed` rests on `OperandTouchesCover`: each of the four
ways to classify an instruction touches every register its operands show, as
something other than None. `FlagsAgreeWithNzcv` rests on no touch but one being
about the flags, and `TransferGroupIsWhole` on the group of seven and the named
register having the same direction, which two separate functions choose.

**The formatter** (`Formatter_proofs`). The invariant is `Kept`: the sink holds
whole characters within its capacity; what was handed over followed by the
chunks to come is the text of the instructions; without the flag the sink holds
all that was handed over, with it more was handed over than fits. The work is
`ChunksKeep`: however the case buffer and the runs of spaces cut a text, the
pieces are whole characters and join to that text. Assumption: names are ASCII,
as the tables are.

Joined lists, the runs of spaces and the items of a loop are about data of any
length. They are proved without an induction theorem, by the least element of
the set of counterexamples (`LeastElement`, `Upward` in `Lists_proofs`).

Only model-checked: `LoopTerminates`, and in `ReportsEverything` that analyses
return (liveness under fairness is outside the prover); the round trip of the
groups other than branches and data processing (`round_trip`,
`simd_round_trip`), and `EditEncodesExactly` of `group_editing`: case analyses
over the opcode tables of those groups, which the runs enumerate in full;
`FeatureOffHidesNothing`, and `GateIsTheDeclaredFeature` for the other groups, which range
over every row of their tables.

## 6. Plan

Proofs still worth having: the round trip of the groups without aliases
(exceptions and barriers, AMX and GXF), then of the loads and stores, in the way of
`DpImmRecovered`; that the data-processing codec meets `EncodeContract`, so that the
theorems about editing hold of it as of branches; the gates of the loads and stores.

Not modelled:

* The data processing of SVE (integer, floating point, permutes, tables) and
  SME: independent encodings, a third of the crate's lines, that share with the
  modelled groups the dispatch, the gates, the editing API, the access lists and
  the round trip. Nothing in them has state.
* The wording of an operand in `format_operand` and the token kinds: text
  without control. The formatter's pieces, their order, case, padding and
  buffering are modelled.
* Name tables beyond identity, class, width and number; the packing of named
  fields into bit positions; the crate root, which re-exports.
