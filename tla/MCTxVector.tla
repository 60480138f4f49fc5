----------------------------- MODULE MCTxVector -----------------------------
(***************************************************************************)
(* Bytes 0..3 with the tag 3, elements of one byte before and, in an       *)
(* input, one after the script: every string of up to MaxLength bytes, and *)
(* longer ones that hold wide integers and several elements.  The wide     *)
(* integers reach Word - 1, so that lengths can wrap.                      *)
(***************************************************************************)
EXTENDS TxVector

CONSTANT MaxLength

MCBefore == [k \in Kinds |-> 1]
MCAfter == [k \in Kinds |-> IF k = "vin" THEN 1 ELSE 0]

Strings(S, len) == [1..len -> S]

(* Every short string; longer ones of a count and bytes 0 and 3. *)
MCVectors ==
  UNION {Strings(0..Base - 1, len) : len \in 0..MaxLength} \cup
  UNION {{<<c>> \o s : c \in {1, 2}, s \in Strings({0, 3}, len)} :
            len \in MaxLength..MaxLength + 2} \cup
  {<<3, 3, 0>> \o s : s \in Strings({0, 1}, 6) \cup Strings({0, 1}, 9)}
=============================================================================
