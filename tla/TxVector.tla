------------------------------ MODULE TxVector ------------------------------
(***************************************************************************)
(* The length-prefixed input and output vectors of a transaction: the      *)
(* check that a byte string is one, and the extraction of the element at   *)
(* an index, as C, Go, JavaScript, Rust and Solidity run them.             *)
(***************************************************************************)
EXTENDS TxGrammar

CONSTANTS
  Impls,    \* the implementations considered
  Word,     \* 2^64
  Vectors,  \* the byte strings submitted
  Indices   \* the indices asked for

(* The tags are one, the last byte.  A vector has less than 2^32 bytes, so *)
(* that an element of a narrow length does not take it to the 64th bit.    *)
ASSUME VectorAssumption ==
  /\ Impls \subseteq {"c", "go", "js", "rust", "sol"}
  /\ Wide = Base - 1
  /\ Word \in Nat /\ Base * Base <= Word
  /\ Indices \subseteq Nat
  /\ \A b \in Vectors :
       /\ b \in Seq(0..Base - 1)
       /\ \A k \in Kinds : Len(b) + Wide + After[k] <= Word

VARIABLES
  impl,     \* which implementation runs
  kind,     \* "vin" or "vout"
  bytes,    \* the byte string
  phase,    \* "start", "loop", "seek", or how the function returned
  n,        \* the declared number of elements
  i,        \* elements passed
  offset,   \* where the next one begins, counted from 0
  spans,    \* history: <<offset, length>> of each element validated
  index,    \* the index asked for
  result    \* <<offset, length>> of the element extracted

inputVars == <<impl, kind, bytes>>
vars == <<inputVars, phase, n, i, offset, spans, index, result>>

(* The element at the offset. *)
Outcome == ElementOutcome(impl, kind, bytes, offset)
Length == ElementLength(impl, kind, bytes, offset)

(* 64-bit sums wrap in Go and in a release build of Rust, where a debug    *)
(* build panics; C never comes near, the other two have wider numbers.     *)
Overflows == impl \in {"go", "rust"} /\ offset + Length >= Word
Beyond ==
  IF impl \in {"go", "rust"} THEN (offset + Length) % Word ELSE offset + Length

(***************************************************************************)
(* validate_vin, validate_vout.                                            *)
(***************************************************************************)
GoVout == impl = "go" /\ kind = "vout"

Leave(how) ==
  /\ phase' = how
  /\ UNCHANGED <<inputVars, n, i, offset, spans, index, result>>

(* What the count at the head says: ValidateVout of Go alone takes none,   *)
(* and no count that needs a wide integer; tryAsVin looks for an empty     *)
(* view before it reads.                                                   *)
CountOutcome ==
  CASE bytes = <<>> /\ impl = "sol" -> "bad"
    [] ParseOutcome(impl, bytes, 0) = "ok" /\ bytes # <<>> ->
         IF IF GoVout THEN Number(bytes, 0) >= Wide ELSE Number(bytes, 0) = 0
         THEN "bad" ELSE "ok"
    [] OTHER -> ParseOutcome(impl, bytes, 0)

ReadCount ==
  /\ phase = "start" /\ CountOutcome = "ok"
  /\ phase' = "loop"
  /\ n' = Number(bytes, 0) /\ i' = 0
  /\ offset' = SerializedLength(impl, bytes, 0)
  /\ UNCHANGED <<inputVars, spans, index, result>>

RefuseCount ==
  /\ phase = "start"
  /\ \/ CountOutcome = "bad" /\ Leave("refused")
     \/ CountOutcome = "fault" /\ Leave("fault")

(* Is the loop still inside the vector?  ValidateVout of Go looks after    *)
(* the step instead of before it.                                          *)
Inside == GoVout \/ offset < Len(bytes)

(* Faulty: one round too many. *)
ValidatingOneMore == phase = "loop" /\ i <= n

Validating == phase = "loop" /\ i < n

PassElement ==
  /\ Validating /\ Inside /\ Outcome = "ok"
  /\ GoVout => Beyond <= Len(bytes)
  /\ i' = i + 1
  /\ offset' = Beyond
  /\ spans' = Append(spans, <<offset, Length>>)
  /\ UNCHANGED <<inputVars, phase, n, index, result>>

RefuseElement ==
  /\ Validating
  /\ \/ ~Inside /\ Leave("refused")
     \/ Inside /\ Outcome = "bad" /\ Leave("refused")
     \/ Inside /\ Outcome = "fault" /\ Leave("fault")
     \/ /\ Inside /\ Outcome = "ok"
        /\ \/ GoVout /\ Beyond > Len(bytes) /\ Leave("refused")
           \/ impl = "rust" /\ Overflows /\ Leave("fault")

(* Faulty: bytes may be left over. *)
CheckEndLoose ==
  /\ phase = "loop" /\ i = n
  /\ Leave(IF offset <= Len(bytes) THEN "accepted" ELSE "refused")

CheckEnd ==
  /\ phase = "loop" /\ i = n
  /\ Leave(IF offset = Len(bytes) THEN "accepted" ELSE "refused")

(***************************************************************************)
(* extract_input_at_index, extract_output_at_index of a vector that has    *)
(* been validated: the loop runs again from the first element.             *)
(***************************************************************************)
(* Faulty: the count takes one byte. *)
ExtractNarrowCount ==
  /\ phase = "accepted"
  /\ \E k \in Indices :
       /\ index' = k
       /\ phase' = IF k < Number(bytes, 0) THEN "seek" ELSE "missing"
  /\ i' = 0 /\ offset' = 1
  /\ UNCHANGED <<inputVars, n, spans, result>>

Extract ==
  /\ phase = "accepted"
  /\ \E k \in Indices :
       /\ index' = k
       /\ phase' = IF k < Number(bytes, 0) THEN "seek" ELSE "missing"
  /\ i' = 0 /\ offset' = SerializedLength(impl, bytes, 0)
  /\ UNCHANGED <<inputVars, n, spans, result>>

Seek ==
  /\ phase = "seek" /\ i < index
  /\ IF Outcome # "ok" THEN Leave("missing")
     ELSE /\ i' = i + 1
          /\ offset' = Beyond
          /\ UNCHANGED <<inputVars, phase, n, spans, index, result>>

(* Nothing is taken that would end beyond the vector; where the sum wraps  *)
(* to an end before the beginning, slicing panics in Go and Rust.          *)
Take ==
  /\ phase = "seek" /\ i = index
  /\ IF Outcome # "ok" \/ Beyond > Len(bytes)
     THEN Leave("missing")
     ELSE IF Beyond < offset
     THEN Leave("fault")
     ELSE /\ result' = <<offset, Beyond - offset>>
          /\ phase' = "extracted"
          /\ UNCHANGED <<inputVars, n, i, offset, spans, index>>

Init ==
  /\ impl \in Impls /\ kind \in Kinds /\ bytes \in Vectors
  /\ phase = "start"
  /\ n = 0 /\ i = 0 /\ offset = 0 /\ spans = <<>>
  /\ index = 0 /\ result = <<0, 0>>

Validate == ReadCount \/ RefuseCount \/ PassElement \/ RefuseElement \/ CheckEnd

Returned == phase \in {"refused", "fault", "missing", "extracted"}
Done == Returned /\ UNCHANGED vars

Next == Validate \/ Extract \/ Seek \/ Take \/ Done

Spec == Init /\ [][Next]_vars

(***************************************************************************)
(* Properties.                                                             *)
(***************************************************************************)
TypeOK ==
  /\ impl \in Impls /\ kind \in Kinds /\ bytes \in Seq(0..Base - 1)
  /\ phase \in {"start", "loop", "accepted", "seek"} \/ Returned
  /\ n \in 0..Base * Base - 1
  /\ i \in 0..n
  /\ offset \in Nat
  /\ offset < Word \/ impl \in {"js", "sol"}
  /\ Len(spans) <= n
  /\ index \in Indices \cup {0}

(* Where an element ends: where the next begins, the last with the bytes. *)
EndOf(k) == IF k = Len(spans) THEN Len(bytes) ELSE spans[k + 1][1]

SpanOverflows(k) == spans[k][1] + spans[k][2] >= Word

(* Extraction, a second loop over a vector, cuts it where validation did:  *)
(* the element at an index is all of what lies between two places that the *)
(* check went through, and no index below the count is refused.  It panics *)
(* only in Go and Rust, on an element whose own end needs a 65th bit.      *)
(* Rust is held to this with long scripts too, of which it documents that  *)
(* it "Errors if CompactInt represents a number larger than 253"           *)
(* (btcspv.rs:247 and 269): the code has no such check and takes them.     *)
ExtractAgrees ==
  /\ phase = "extracted" =>
       /\ result[1] = spans[index + 1][1]
       /\ result[1] + result[2] = EndOf(index + 1)
  /\ phase = "missing" => index >= n
  /\ phase = "fault" /\ n > 0 /\ Len(spans) = n =>
       impl \in {"go", "rust"} /\ SpanOverflows(index + 1)

SomeOverflow == \E k \in DOMAIN spans : SpanOverflows(k)

(* A function that indexes the slice itself panics on no bytes at all, and *)
(* on no others but where 64 bits overflow.                                *)
PanicsOnlyOnEmpty ==
  phase = "fault" /\ impl # "sol" =>
    \/ bytes = <<>>
    \/ /\ impl \in {"go", "rust"}
       /\ \/ SomeOverflow
          \/ Outcome = "ok" /\ Overflows

(* A compact integer that is longer than it has to be. *)
NonMinimal(o) == IsWide(bytes, o) /\ Canonical(Payload(bytes, o)) = 1
SomeNonMinimal ==
  \/ NonMinimal(0)
  \/ \E k \in DOMAIN spans : NonMinimal(spans[k][1] + Before[kind])

SomeWide ==
  \/ IsWide(bytes, 0)
  \/ \E k \in DOMAIN spans : IsWide(bytes, spans[k][1] + Before[kind])

(* What is accepted is a vector, and with the shortest integers in C and    *)
(* Solidity; in C it has none of more than a byte, though btcspv.h says of  *)
(* parse_compact_int that it "Returns false if insufficient bytes".  The    *)
(* others promise less: a 64-bit sum of Go or Rust may wrap, Rust steps     *)
(* over a longer integer by its shortest length, and Go's ValidateVout      *)
(* takes a vector of no outputs.                                            *)
AcceptedIsVector ==
  phase = "accepted" =>
    /\ \/ IsVector(kind, bytes, impl \notin {"go", "js"})
       \/ impl \in {"go", "rust"} /\ SomeOverflow
       \/ impl = "rust" /\ SomeNonMinimal
       \/ GoVout /\ n = 0
    /\ impl = "c" => ~SomeWide

(* An integer of the vector takes more than a byte: its count, or the      *)
(* length of a script.                                                     *)
HasWide ==
  \E k \in 1..Len(bytes) :
    LET code == Shortest(k) IN
    /\ Len(code) <= Len(bytes) /\ SubSeq(bytes, 1, Len(code)) = code
    /\ \E cuts \in [1..k - 1 -> 1..Len(bytes)] :
         /\ Consists(kind, bytes, k, code, cuts, TRUE)
         /\ \/ IsWide(bytes, 0)
            \/ \E m \in 0..k - 1 :
                 IsWide(bytes, Cut(bytes, k, code, cuts, m) + Before[kind])

(* Every vector is accepted, and no element of it makes a function panic:  *)
(* by C where every integer takes one byte, by Go with less than Wide      *)
(* outputs.  Rust too accepts long scripts, against btcspv.rs:247 ("large  *)
(* CompactInts are not supported").                                        *)
VectorIsAccepted ==
  phase \in {"refused", "fault"} =>
    \/ ~IsVector(kind, bytes, TRUE)
    \/ impl = "c" /\ HasWide
    \/ GoVout /\ IsWide(bytes, 0)

=============================================================================
