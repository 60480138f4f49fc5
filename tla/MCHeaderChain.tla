---------------------------- MODULE MCHeaderChain ----------------------------
(***************************************************************************)
(* Small instances of HeaderChain.  Base 2 with 8 digits keeps every case  *)
(* of the 256-bit code: three mantissa digits that slide through the word, *)
(* a 4-digit window above 2 low digits and below 2 high ones.              *)
(***************************************************************************)
EXTENDS HeaderChain, SequencesExt

CONSTANTS
  MaxLength   \* the longest chain submitted

MCPower == [k \in 0..MaxExponent |-> Base^k]

Headers(bits, digests) ==
  [parent : digests, mantissa : {b[1] : b \in bits},
   exponent : {b[2] : b \in bits}, digest : digests]

(* Targets 12 and 20 (inside the C window, difficulties 4 and 2), 5 (below *)
(* it), 40 and 64 (above the difficulty-1 target), and 0; a target that    *)
(* overflows the word, and an exponent whose power wraps to 0; bits with   *)
(* an exponent of 2.                                                       *)
WindowBits == {<<3, 5>>, <<5, 5>>}
EdgeBits == {<<0, 5>>, <<5, 3>>, <<4, 7>>, <<7, 9>>, <<1, 11>>}
SmallBits == {<<40, 2>>}
MisplacedBits == {<<7, 9>>, <<1, 11>>} \cup SmallBits

HeadersOf(bits, digests) ==
  {h \in Headers(bits, digests) : <<h.mantissa, h.exponent>> \in bits}

SeqsUpTo(S, n) == UNION {[1..k -> S] : k \in 0..n}

MCImpls == {"c", "go", "js", "rust", "sol"}
MCDigests == {0, 12, 19}

BitsOf(l) ==
  CASE l = "c" -> WindowBits \cup MisplacedBits
    [] l \in {"go", "rust"} -> WindowBits \cup EdgeBits
    [] l \in {"js", "sol"} -> WindowBits \cup EdgeBits \cup SmallBits

(* C is run where its window is exact and where its target leaves the word, *)
(* Go and Rust where the exponent is not below 3: there their target is the *)
(* mantissa, which is beyond what the bits denote.                          *)
MCChains ==
  [l \in Impls |->
     SeqsUpTo(HeadersOf(BitsOf(l), MCDigests), MaxLength - 1) \cup
     IF l = "c" THEN SeqsUpTo(HeadersOf(WindowBits, MCDigests), MaxLength)
     ELSE {}]

(* What the theorem about Promise!Safety assumes holds of these chains. *)
ASSUME InstanceComparable == ConstantDifficulty => Comparable

MCHeader == HeadersOf(WindowBits \cup EdgeBits \cup SmallBits, MCDigests)

=============================================================================
