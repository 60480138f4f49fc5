----------------------------- MODULE CompactInt -----------------------------
(***************************************************************************)
(* Bitcoin's compact integers, as C, Go, JavaScript, Rust and Solidity     *)
(* read them out of a byte string.                                         *)
(*                                                                         *)
(* A compact integer is one byte below Wide, or a tag from Wide on and     *)
(* DataLength bytes, least significant first: the tags 0xfd, 0xfe and 0xff *)
(* are read alike here.  Offsets count from 0.                             *)
(***************************************************************************)
EXTENDS Integers, Sequences

CONSTANTS
  Base,     \* the values of a byte (256)
  Wide      \* the first tag of a wide compact integer (0xfd)

DataLength == 2

ASSUME CompactAssumption == Base \in Nat /\ Wide \in 1..Base - 1

IsWide(b, o) == b[o + 1] >= Wide
Payload(b, o) == b[o + 2] + Base * b[o + 3]
Number(b, o) == IF IsWide(b, o) THEN Payload(b, o) ELSE b[o + 1]

(* The ways to write a number: the shortest, and one byte and the payload. *)
Shortest(k) == IF k < Wide THEN <<k>> ELSE <<Wide, k % Base, k \div Base>>
Padded(k) == <<Wide, k % Base, k \div Base>>

(* Faulty: the first number that is wide is taken for a byte. *)
CanonicalOffByOne(k) == IF k <= Wide THEN 1 ELSE 1 + DataLength

(* compact_int_length: the length of the shortest encoding. *)
Canonical(k) == IF k < Wide THEN 1 ELSE 1 + DataLength

(* C compares the length with the tag to the length without it, and so     *)
(* refuses every wide integer.  Nothing else keeps to the shortest form    *)
(* but Solidity, which reverts.                                            *)
ParseOutcome(p, b, o) ==
  LET left == Len(b) - o IN
  IF left <= 0 THEN IF p \in {"c", "js"} THEN "bad" ELSE "fault"
  ELSE IF ~IsWide(b, o) THEN "ok"
  ELSE IF left <= DataLength THEN IF p = "sol" THEN "fault" ELSE "bad"
  ELSE IF p = "c" /\ Canonical(Payload(b, o)) # DataLength THEN "bad"
  ELSE IF p = "sol" /\ Canonical(Payload(b, o)) # 1 + DataLength THEN "fault"
  ELSE "ok"

(* Go and JavaScript count the bytes read, the others compute the number's *)
(* shortest length anew.                                                   *)
SerializedLength(p, b, o) ==
  IF p \in {"go", "js"}
  THEN IF IsWide(b, o) THEN 1 + DataLength ELSE 1
  ELSE Canonical(Number(b, o))
=============================================================================
