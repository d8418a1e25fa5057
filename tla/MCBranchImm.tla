---------------------------- MODULE MCBranchImm ----------------------------
(***************************************************************************)
(* Round trip of every branch and PC-relative word, at addresses where     *)
(* the reach of a field meets a boundary.                                  *)
(***************************************************************************)
EXTENDS BranchImm, RoundTrip

(* Both ends and the middle of the address space, around page boundaries,
   and one misaligned address. *)
MCAddress == {0, 2, 4, 12, 4092, 4096, 32764, 32768, 61440, 65524, 65532}
=============================================================================
