------------------------------ MODULE TxElement ------------------------------
(***************************************************************************)
(* One input or output in the middle of a byte string: is there one, and   *)
(* where does it end, as C, Go, JavaScript, Rust and Solidity find out.    *)
(*                                                                         *)
(* An element is a fixed part, a compact integer, as many bytes of script  *)
(* as it says, and for an input the sequence.                              *)
(***************************************************************************)
EXTENDS CompactInt

CONSTANTS
  Before,   \* Before[kind]: bytes of an element before its script (36, 8)
  After     \* After[kind]: bytes after it (4, 0)

Kinds == {"vin", "vout"}

ASSUME ElementAssumption ==
  Before \in [Kinds -> Nat] /\ After \in [Kinds -> Nat]

(* Faulty: read without a look at the length. *)
ElementOutcomeUnchecked(p, kind, b, o) == ParseOutcome(p, b, o + Before[kind])

(* What implementation p makes of the bytes b from offset o on. *)
ElementOutcome(p, kind, b, o) ==
  IF p # "sol" /\ Len(b) - o < Before[kind] + 1
  THEN "bad" ELSE ParseOutcome(p, b, o + Before[kind])

ElementLength(p, kind, b, o) ==
  Before[kind] + SerializedLength(p, b, o + Before[kind])
    + Number(b, o + Before[kind]) + After[kind]
=============================================================================
