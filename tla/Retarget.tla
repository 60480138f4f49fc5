------------------------------ MODULE Retarget ------------------------------
(***************************************************************************)
(* The difficulty retarget: the previous target times the seconds a period *)
(* took, over the seconds it should take.                                  *)
(*                                                                         *)
(* Go, JavaScript, Rust and Solidity have integers as wide as a target.  C *)
(* works on its 32 bytes: a multiplication from the last byte to the first *)
(* and a long division from the first to the last, both in place, in       *)
(* 32-bit arithmetic.  One step of C is one byte.                          *)
(***************************************************************************)
EXTENDS Integers, Sequences

CONSTANTS
  Impls,     \* the implementations considered
  Base,      \* the values of a byte (256)
  Digits,    \* bytes of a target (32)
  WordSize,  \* 2^32
  Period,    \* seconds of two weeks (1209600)
  Adjust,    \* what Solidity divides a target by (65536)
  Targets,   \* targets submitted, most significant byte first
  Times      \* timestamps submitted

Lower == Period \div 4
Upper == Period * 4

ASSUME ImplAssumption == Impls \subseteq {"c", "go", "js", "rust", "sol"}

ASSUME SizeAssumption ==
  /\ Base \in Nat /\ Base > 1 /\ Digits \in Nat /\ Digits > 0
  /\ Period \in Nat /\ Period > 3
  /\ WordSize \in Nat /\ WordSize >= Base * Upper
  /\ Adjust \in Nat /\ Adjust > 0
  /\ Times \subseteq 0..WordSize - 1

ASSUME TargetAssumption == Targets \subseteq [1..Digits -> 0..Base - 1]

VARIABLES
  impl,      \* which implementation runs
  target,    \* previous_target
  first,     \* first_timestamp
  second,    \* second_timestamp
  pc,        \* "called", "multiply", "divide", "returned" or "fault"
  elapsed,   \* elapsed, between the bounds
  i,         \* the byte C is at
  carry,     \* C's carry
  digits,    \* C's new_target
  result,    \* what is returned, as a number
  weight,    \* history: Base to the number of bytes multiplied
  value,     \* history: the bytes of target multiplied, as a number
  product,   \* history: the bytes of new_target they became
  divided    \* history: the bytes of that product divided

inputVars == <<impl, target, first, second>>
historyVars == <<weight, value, product, divided>>
vars == <<inputVars, pc, elapsed, i, carry, digits, result, historyVars>>

(* The numbers that the first k bytes of a target spell, most significant  *)
(* first, and the number they all spell.                                   *)
Prefixes(b) ==
  LET f[k \in 0..Digits] == IF k = 0 THEN 0 ELSE f[k - 1] * Base + b[k]
  IN f
Spelt(b) == Prefixes(b)[Digits]

Power[k \in 0..Digits] == IF k = 0 THEN 1 ELSE Base * Power[k - 1]
Max256 == Power[Digits]

(* Faulty: only long periods are cut. *)
ClampAbove(e) == IF e > Upper THEN Upper ELSE IF e < 0 THEN Lower ELSE e

Clamp(e) == IF e > Upper THEN Upper ELSE IF e < Lower THEN Lower ELSE e

(* The difference of the timestamps, where it is one: it wraps in C and in *)
(* a release build of Rust, and is signed in JavaScript only.              *)
Differences ==
  IF second >= first \/ impl = "js" THEN {second - first}
  ELSE IF impl \in {"c", "rust"} THEN {(second - first) % WordSize} ELSE {}

(* Go panics, Solidity reverts, a debug build of Rust panics. *)
Underflows == second < first /\ impl \in {"go", "rust", "sol"}

(***************************************************************************)
(* The whole computation in one port with wide integers, once elapsed is   *)
(* known: FALSE in place of a number that does not fit.                    *)
(***************************************************************************)
Numeric(n) == {n} \cap 0..Max256 - 1

(* Faulty: divided before it is multiplied. *)
WideResultsDivideFirst(t, e) ==
  IF impl = "js" THEN {(t \div Period) * e} ELSE Numeric((t \div Period) * e)

WideResults(t, e) ==
  CASE impl = "js" -> {(t * e) \div Period}
    [] impl \in {"go", "rust"} -> {p \div Period : p \in Numeric(t * e)}
    [] impl = "sol" ->
         UNION {Numeric((p \div Period) * Adjust) :
                  p \in Numeric((t \div Adjust) * e)}

Init ==
  /\ impl \in Impls /\ target \in Targets
  /\ first \in Times /\ second \in Times
  /\ pc = "called" /\ elapsed = 0
  /\ i = 0 /\ carry = 0 /\ digits = [k \in 1..Digits |-> 0] /\ result = 0
  /\ weight = 1 /\ value = 0 /\ product = 0 /\ divided = 0

Underflow ==
  /\ pc = "called" /\ Underflows
  /\ pc' = "fault"
  /\ UNCHANGED <<inputVars, elapsed, i, carry, digits, result, historyVars>>

WideRetarget ==
  /\ pc = "called" /\ impl # "c"
  /\ \E d \in Differences :
       /\ elapsed' = Clamp(d)
       /\ LET r == WideResults(Spelt(target), elapsed')
          IN IF r = {} THEN pc' = "fault" /\ UNCHANGED result
                       ELSE pc' = "returned" /\ result' \in r
  /\ UNCHANGED <<inputVars, i, carry, digits, historyVars>>

CStart ==
  /\ pc = "called" /\ impl = "c"
  /\ \E d \in Differences : elapsed' = Clamp(d)
  /\ pc' = "multiply" /\ i' = Digits
  /\ UNCHANGED <<inputVars, carry, digits, result, historyVars>>

(* Faulty: the carry of the byte before is lost. *)
MultiplyByteNoCarry ==
  /\ pc = "multiply" /\ i > 0
  /\ LET current == (target[i] * elapsed) % WordSize
     IN /\ digits' = [digits EXCEPT ![i] = current % Base]
        /\ carry' = current \div Base
        /\ product' = product + (weight * (current % Base))
  /\ value' = value + weight * target[i]
  /\ weight' = weight * Base
  /\ i' = i - 1
  /\ UNCHANGED <<inputVars, pc, elapsed, result, divided>>

MultiplyByte ==
  /\ pc = "multiply" /\ i > 0
  /\ LET current == (carry + target[i] * elapsed) % WordSize
     IN /\ digits' = [digits EXCEPT ![i] = current % Base]
        /\ carry' = current \div Base
        /\ product' = product + (weight * (current % Base))
  /\ value' = value + weight * target[i]
  /\ weight' = weight * Base
  /\ i' = i - 1
  /\ UNCHANGED <<inputVars, pc, elapsed, result, divided>>

(* Faulty: the division starts with the carry of the multiplication. *)
EndMultiplyKeepCarry ==
  /\ pc = "multiply" /\ i = 0
  /\ pc' = "divide" /\ i' = 1 /\ carry' = carry
  /\ UNCHANGED <<inputVars, elapsed, digits, result, historyVars>>

(* What is left of the carry is dropped. *)
EndMultiply ==
  /\ pc = "multiply" /\ i = 0
  /\ pc' = "divide" /\ i' = 1 /\ carry' = 0
  /\ UNCHANGED <<inputVars, elapsed, digits, result, historyVars>>

(* A quotient is stored in a byte. *)
DivideByte ==
  /\ pc = "divide" /\ i <= Digits
  /\ LET current == (digits[i] + carry * Base) % WordSize
     IN /\ digits' = [digits EXCEPT ![i] = (current \div Period) % Base]
        /\ carry' = current % Period
        /\ result' = (result * Base) + ((current \div Period) % Base)
  /\ divided' = divided * Base + digits[i]
  /\ i' = i + 1
  /\ UNCHANGED <<inputVars, pc, elapsed, weight, value, product>>

EndDivide ==
  /\ pc = "divide" /\ i > Digits
  /\ pc' = "returned"
  /\ UNCHANGED <<inputVars, elapsed, i, carry, digits, result, historyVars>>

Finished == pc \in {"returned", "fault"}
Done == Finished /\ UNCHANGED vars

Next ==
  \/ Underflow \/ WideRetarget
  \/ CStart \/ MultiplyByte \/ EndMultiply \/ DivideByte \/ EndDivide
  \/ Done

Spec == Init /\ [][Next]_vars

(***************************************************************************)
(* Properties.                                                             *)
(***************************************************************************)
TypeOK ==
  /\ impl \in Impls /\ target \in Targets
  /\ first \in Times /\ second \in Times
  /\ pc \in {"called", "multiply", "divide", "returned", "fault"}
  /\ elapsed \in {0} \cup Lower..Upper
  /\ i \in 0..Digits + 1
  /\ carry \in 0..WordSize - 1
  /\ digits \in [1..Digits -> 0..Base - 1]
  /\ {weight, value, product, divided} \subseteq Nat
  /\ impl = "c" => result \in Nat

(* The bytes of C spell what its two loops have computed so far: nothing   *)
(* is lost but the carry out of the first byte, the quotient of every byte *)
(* fits a byte, and no intermediate sum wraps.                             *)
MultiplyExact ==
  impl = "c" /\ pc = "multiply" => value * elapsed = product + weight * carry

DivideExact ==
  impl = "c" /\ pc \in {"divide", "returned"} =>
    divided = result * Period + carry /\ carry < Period

(* The consensus rule: the difference is signed and cut at both ends.  Go, *)
(* Rust and Solidity refuse a negative one; C, and Rust without overflow   *)
(* checks, take it for a very long period.                                 *)
Nominal ==
  IF second < first /\ impl \in {"c", "rust"}
  THEN Clamp((second - first) % WordSize)
  ELSE IF second - first < Lower THEN Lower
  ELSE IF second - first > Upper THEN Upper ELSE second - first

Exact == (Spelt(target) * Nominal) \div Period

(* retarget_algorithm of every port "implements the Bitcoin algorithm      *)
(* precisely": what is returned is the target times the time elapsed over  *)
(* the period.  In C it is so up to the product's overflow, and the bytes  *)
(* written spell it; Solidity drops what is below Adjust, and by that less *)
(* than Adjust + 4 * Adjust.  A port faults only on what it cannot         *)
(* represent: a negative difference, or a product beyond 256 bits.         *)
(* JavaScript and C never do.                                              *)
RetargetExact ==
  /\ pc = "returned" =>
       CASE impl = "c" ->
              /\ result = ((Spelt(target) * Nominal) % Max256) \div Period
              /\ Spelt(digits) = result
         [] impl = "sol" ->
              /\ result % Adjust = 0 /\ result <= Exact
              /\ Exact - result < IF Spelt(target) % Adjust = 0 THEN Adjust
                                                                ELSE 5 * Adjust
         [] OTHER -> result = Exact
  /\ pc = "fault" =>
       /\ impl \in {"go", "rust", "sol"}
       /\ \/ second < first
          \/ Spelt(target) * Nominal >= Max256
=============================================================================
