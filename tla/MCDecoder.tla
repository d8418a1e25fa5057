----------------------------- MODULE MCDecoder -----------------------------
(* TLC instance of Decoder: every byte of a slice differs from the others,
   so a window identifies the offset it was read from. *)
EXTENDS Decoder

MCByte == 0..8
MCImages == {[i \in 1..n |-> i - 1] : n \in {0, 3, 4, 7, 8, 9}}

(* The decode tree accepts some windows and rejects others. *)
MCDecodable(w) == w[1] % 3 # 1

=============================================================================
