-------------------------- MODULE HeaderArithmetic --------------------------
(***************************************************************************)
(* Targets and difficulties of Bitcoin headers as the five implementations *)
(* of the toolkit compute them.                                            *)
(*                                                                         *)
(* A header is reduced to the fields the chain check reads: the parent     *)
(* digest, the mantissa and exponent of nBits, and the integer that its    *)
(* own double SHA-256 digest denotes.  The 32-byte word of the code is a   *)
(* word of Digits digits in base Base; the 8-byte window out of which the  *)
(* C port reads a target is the Window digits above the Low lowest ones.   *)
(* In the code Base = 256, Digits = 32, Window = 8 and Low = 20.           *)
(***************************************************************************)
EXTENDS Integers

CONSTANTS
  Base,    \* the radix of a digit (256)
  Digits,  \* digits of a word (32)
  Window,  \* digits of the window of the C port (8)
  Low,     \* digits below that window (20)
  MaxExponent, \* the largest exponent byte of nBits (255)
  Power,   \* Power[k] = Base^k, up to that exponent
  Header   \* the headers that can be read

ASSUME SizeAssumption ==
  /\ Base \in Nat \ {0, 1}
  /\ Digits \in Nat /\ Window \in Nat /\ Low \in Nat
  /\ Window >= 2
  /\ Window + Low + 2 <= Digits  \* a mantissa cut short lies above the window

ASSUME PowerAssumption ==
  /\ MaxExponent \in Nat /\ MaxExponent >= Digits
  /\ Power \in [0..MaxExponent -> Nat \ {0}]
  /\ Power[0] = 1
  /\ \A k \in 1..MaxExponent : Power[k] = Base * Power[k - 1]

ASSUME HeaderAssumption ==
  \A h \in Header :
    /\ h.digest \in Nat /\ h.parent \in Nat /\ h.mantissa \in Nat
    /\ h.exponent \in 0..MaxExponent

(* A panic, exception or revert: the computation yields no number. *)
Fault == -1

(* 2^256 and 2^64. *)
WordSize == Power[Digits]
WindowSize == Power[Window]

(* 0xffff followed by 26 zero bytes. *)
DiffOneTarget == (Base * Base - 1) * Power[Low + Window - 2]

(***************************************************************************)
(* The target that nBits denotes: mantissa * 256^(exponent - 3).           *)
(***************************************************************************)

(* In C the exponent less 3 is a uint8 index into the little-endian word,  *)
(* which receives those of the three mantissa bytes that lie within it: all *)
(* of them only for 3..Digits, none for an index that wraps.                *)
CInRange(h) == h.exponent \in 3..Digits
CTarget(h) ==
  IF CInRange(h) THEN h.mantissa * Power[h.exponent - 3]
  ELSE IF h.exponent < 3 THEN 0
  ELSE (h.mantissa * Power[h.exponent - 3]) % WordSize

(* big.Int.Exp of a negative exponent is 1; an sdk.Uint beyond 256 bits    *)
(* panics, for the power as for the product.                               *)
GoTarget(h) ==
  LET power == IF h.exponent < 3 THEN 1 ELSE Power[h.exponent - 3]
  IN  IF power >= WordSize \/ h.mantissa * power >= WordSize
      THEN Fault
      ELSE h.mantissa * power

(* A BigInt has no width, and a negative exponent throws. *)
JsTarget(h) ==
  IF h.exponent < 3 THEN Fault ELSE h.mantissa * Power[h.exponent - 3]

(* saturating_sub stops at 0; U256 arithmetic panics on overflow. *)
RustTarget(h) ==
  LET offset == IF h.exponent <= 3 THEN 1 ELSE Power[h.exponent - 3]
  IN  IF offset >= WordSize \/ h.mantissa * offset >= WordSize
      THEN Fault
      ELSE h.mantissa * offset

(* The subtraction and the product are SafeMath and revert, but ** wraps. *)
SolTarget(h) ==
  IF h.exponent < 3
  THEN Fault
  ELSE LET power == Power[h.exponent - 3] % WordSize
       IN  IF h.mantissa * power >= WordSize THEN Fault
                                             ELSE h.mantissa * power

(***************************************************************************)
(* Difficulty: the difficulty-1 target over the target.                    *)
(***************************************************************************)

(* Go, JavaScript, Rust and Solidity divide whole words. *)
Difficulty(target) ==
  IF target = 0 THEN Fault ELSE DiffOneTarget \div target

(* Faulty: the window is taken from the first byte of the word. *)
CDifficultyFromTop(target) ==
  LET t == target \div Power[Digits - Window]
  IN  IF t = 0 THEN 0 ELSE ((Base * Base - 1) * Power[Window - 2]) \div t

(* C divides the window of the difficulty-1 target by the window of the    *)
(* target, and reports 0 when the latter is empty.                         *)
CDifficulty(target) ==
  LET t == (target \div Power[Low]) % WindowSize
  IN  IF t = 0 THEN 0 ELSE ((Base * Base - 1) * Power[Window - 2]) \div t

=============================================================================
