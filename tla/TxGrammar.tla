------------------------------ MODULE TxGrammar ------------------------------
(***************************************************************************)
(* What an element and a vector are, from the format alone: the encodings  *)
(* of a number, the elements, and their concatenation.  The strict format  *)
(* has each number in its shortest form.                                   *)
(***************************************************************************)
EXTENDS TxElement

Encodings(k, strict) ==
  {Shortest(k)} \cup IF strict THEN {} ELSE {Padded(k)}

(* A script with its length in front. *)
IsScript(s) ==
  \E k \in 0..Len(s) :
    /\ Len(s) = Len(Shortest(k)) + k
    /\ SubSeq(s, 1, Len(Shortest(k))) = Shortest(k)

IsElement(kind, s, strict) ==
  \E k \in 0..Len(s) : \E code \in Encodings(k, strict) :
    /\ Len(s) = Before[kind] + Len(code) + k + After[kind]
    /\ SubSeq(s, Before[kind] + 1, Before[kind] + Len(code)) = code

(* A count, and as many elements: the m-th reaches to the m-th cut. *)
Cut(s, k, code, cuts, m) ==
  IF m = 0 THEN Len(code) ELSE IF m = k THEN Len(s) ELSE cuts[m]

Consists(kind, s, k, code, cuts, strict) ==
  \A m \in 1..k :
    LET from == Cut(s, k, code, cuts, m - 1)
        to == Cut(s, k, code, cuts, m)
    IN  from < to /\ IsElement(kind, SubSeq(s, from + 1, to), strict)

IsVector(kind, s, strict) ==
  \E k \in 1..Len(s) : \E code \in Encodings(k, strict) :
    /\ Len(code) <= Len(s) /\ SubSeq(s, 1, Len(code)) = code
    /\ \E cuts \in [1..k - 1 -> 1..Len(s)] :
         Consists(kind, s, k, code, cuts, strict)
=============================================================================
