---------------------------- MODULE LinearSweep ----------------------------
(***************************************************************************)
(* What `for insn in &mut decoder` (and `for insn in decoder`) promises:   *)
(* when the loop starts there is a fixed list of instructions still to     *)
(* come, each with its own address and word; every call of next() hands    *)
(* out the head of that list, and the loop ends exactly when the list is   *)
(* empty.  Nothing is skipped, repeated or renumbered.                     *)
(*                                                                         *)
(* An item is a pair <<address, word>>.                                    *)
(***************************************************************************)
EXTENDS Sequences

CONSTANTS Addr,   \* addresses
          Word    \* instruction words

VARIABLES looping,    \* a loop over the decoder is running
          remaining,  \* the items the running loop still has to yield
          last        \* the item yielded most recently, <<>> before the first

sweepVars == <<looping, remaining, last>>

SweepInit ==
  /\ looping = FALSE
  /\ remaining = << >>
  /\ last = << >>

(* The caller starts a loop somewhere in the buffer. *)
Start ==
  /\ ~looping
  /\ looping' = TRUE
  /\ remaining' \in Seq(Addr \X Word)
  /\ last' = << >>

Yield ==
  /\ looping
  /\ remaining # << >>
  /\ last' = Head(remaining)
  /\ remaining' = Tail(remaining)
  /\ UNCHANGED looping

Finish ==
  /\ looping
  /\ remaining = << >>
  /\ looping' = FALSE
  /\ last' = << >>
  /\ UNCHANGED remaining

SweepNext == Start \/ Yield \/ Finish

SweepSpec == SweepInit /\ [][SweepNext]_sweepVars
=============================================================================
