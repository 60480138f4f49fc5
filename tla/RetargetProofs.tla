--------------------------- MODULE RetargetProofs ---------------------------
(***************************************************************************)
(* C's retarget is exact for targets of any length, bytes of any size and  *)
(* any period, as long as a word holds a byte of four periods: its two     *)
(* loops lose nothing but the carry out of the first byte.                 *)
(***************************************************************************)
EXTENDS Retarget, WellFoundedInduction, TLAPS

(* Induction on the natural numbers, for a set instead of a predicate: the *)
(* least number outside the set has a predecessor inside it.               *)
LEMMA SetInduction ==
  ASSUME NEW S, 0 \in S, \A n \in Nat : n \in S => n + 1 \in S
  PROVE  Nat \subseteq S
  <1> DEFINE T == Nat \ S
  <1>1. SUFFICES ASSUME T # {} PROVE FALSE
    OBVIOUS
  <1>2. PICK m \in T : \A y \in T : ~ (<<y, m>> \in OpToRel(<, Nat))
    BY <1>1, NatLessThanWellFounded, WFMin
  <1>3. \A y \in T : ~ (y < m)
    BY <1>2 DEF OpToRel
  <1>4. m \in Nat /\ m # 0 /\ m \notin S
    OBVIOUS
  <1>5. m - 1 \in Nat /\ m - 1 < m /\ (m - 1) + 1 = m
    BY <1>4
  <1>6. m - 1 \in S
    BY <1>3, <1>5
  <1>7. QED
    BY <1>4, <1>5, <1>6

(* A quotient is the number that leaves a small enough rest. *)
LEMMA QuotientUnique ==
  ASSUME NEW x \in Nat, NEW b \in Nat, NEW q \in Nat, NEW r \in Nat,
         x = q * b + r, r < b
  PROVE  x \div b = q /\ x % b = r
  <1> DEFINE p == x \div b
             s == x % b
  <1>1. p \in Nat /\ s \in 0..b - 1 /\ x = p * b + s
    OBVIOUS
  <1> HIDE DEF p, s
  <1>2. (q - p) * b = s - r /\ q - p \in Int
    BY <1>1
  <1>3. q - p = 0
    <2>1. CASE q - p >= 1
      <3>1. (q - p) * b >= b
        BY <2>1, <1>2
      <3>2. QED
        BY <3>1, <1>1, <1>2
    <2>2. CASE q - p <= -1
      <3>1. (q - p) * b <= -b
        BY <2>2, <1>2
      <3>2. QED
        BY <3>1, <1>1, <1>2
    <2>3. QED
      BY <2>1, <2>2, <1>2
  <1>4. QED
    BY <1>1, <1>2, <1>3 DEF p, s

(* The part of the state each loop relies on.  The carry of the            *)
(* multiplication stays below Upper and that of the division below Period, *)
(* so no sum reaches WordSize and no quotient outgrows a byte.             *)
LoopInv ==
  /\ pc \in {"multiply", "divide"} => impl = "c" /\ elapsed \in Lower..Upper
  /\ pc = "called" => i = 0 /\ carry = 0
  /\ pc \in {"called", "multiply"} => divided = 0
  /\ pc \in {"called", "multiply"} /\ impl = "c" => result = 0
  /\ pc = "called" => weight = 1 /\ value = 0 /\ product = 0
  /\ pc = "multiply" => i \in 0..Digits /\ carry < Upper
  /\ pc = "divide" => i \in 1..Digits + 1

Inv == TypeOK /\ LoopInv /\ MultiplyExact /\ DivideExact

(* The bounds of the elapsed time. *)
LEMMA Bounds ==
  /\ Lower \in Nat /\ Upper \in Nat /\ Upper > 0 /\ Lower <= Upper
  /\ Upper = 4 * Period
BY SizeAssumption DEF Lower, Upper

(* Clamp leaves no other value. *)
LEMMA ClampBounded ==
  ASSUME NEW e \in Int
  PROVE  Clamp(e) \in Lower..Upper
BY Bounds DEF Clamp

LEMMA DifferencesAreIntegers ==
  ASSUME TypeOK, NEW d \in Differences
  PROVE  d \in Int
BY SizeAssumption DEF TypeOK, Differences

(* A byte times the elapsed time, and the carry: it fits a word, and its   *)
(* own carry is again below the bound.                                     *)
LEMMA ProductFits ==
  ASSUME NEW t \in 0..Base - 1, NEW e \in 0..Upper, NEW c \in Nat, c < Upper
  PROVE  /\ c + t * e \in Nat
         /\ (c + t * e) % WordSize = c + t * e
         /\ (c + t * e) % Base \in 0..Base - 1
         /\ (c + t * e) \div Base \in Nat
         /\ (c + t * e) \div Base < Upper
<1>1. t * e \in Nat /\ t * e <= (Base - 1) * Upper
  <2>1. t * e <= t * Upper  BY Bounds, SizeAssumption
  <2>2. t * Upper <= (Base - 1) * Upper  BY Bounds, SizeAssumption
  <2> QED  BY <2>1, <2>2, Bounds, SizeAssumption
<1>2. (Base - 1) * Upper + Upper = Base * Upper  BY Bounds, SizeAssumption
<1>3. c + t * e < Base * Upper  BY <1>1, <1>2, Bounds, SizeAssumption
<1>4. DEFINE x == c + t * e
<1>5. x \in Nat /\ x < Base * Upper /\ x < WordSize
  BY <1>1, <1>3, Bounds, SizeAssumption
<1> HIDE DEF x
<1>6. x % WordSize = x  BY <1>5, SizeAssumption
<1>7. x % Base \in 0..Base - 1 /\ x \div Base \in Nat  BY <1>5, SizeAssumption
<1>8. x \div Base < Upper  BY <1>5, Bounds, SizeAssumption
<1> QED  BY <1>5, <1>6, <1>7, <1>8 DEF x

(* A byte behind the remainder: it fits a word, and its quotient a byte.   *)
LEMMA QuotientFits ==
  ASSUME NEW b \in 0..Base - 1, NEW c \in Nat, c < Period
  PROVE  /\ b + c * Base \in Nat
         /\ (b + c * Base) % WordSize = b + c * Base
         /\ (b + c * Base) \div Period \in 0..Base - 1
         /\ ((b + c * Base) \div Period) % Base = (b + c * Base) \div Period
         /\ (b + c * Base) % Period \in 0..Period - 1
<1>1. c * Base \in Nat /\ c * Base <= (Period - 1) * Base  BY SizeAssumption
<1>2. (Period - 1) * Base + Base = Period * Base  BY SizeAssumption
<1>3. Period * Base <= WordSize  BY Bounds, SizeAssumption
<1>4. DEFINE x == b + c * Base
<1>5. x \in Nat /\ x < Period * Base /\ x < WordSize
  BY <1>1, <1>2, <1>3, SizeAssumption
<1> HIDE DEF x
<1>6. x % WordSize = x  BY <1>5, SizeAssumption
<1>7. x \div Period \in 0..Base - 1 /\ x % Period \in 0..Period - 1
  BY <1>5, SizeAssumption
<1>8. (x \div Period) % Base = x \div Period  BY <1>7, SizeAssumption
<1> QED  BY <1>5, <1>6, <1>7, <1>8 DEF x

(* One byte more of the multiplication. *)
LEMMA MultiplyStep ==
  ASSUME NEW v \in Nat, NEW w \in Nat, NEW p \in Nat, NEW c \in Nat,
         NEW t \in Nat, NEW e \in Nat, v * e = p + w * c
  PROVE  (v + w * t) * e =
           (p + (w * ((c + t * e) % Base))) + (w * Base) * ((c + t * e) \div Base)
<1>1. DEFINE x == c + t * e
<1>2. x \in Nat  OBVIOUS
<1>3. (v + w * t) * e = v * e + w * (t * e)  OBVIOUS
<1>4. w * x = w * c + w * (t * e)  OBVIOUS
<1>5. (v + w * t) * e = p + w * x  BY <1>3, <1>4
<1> HIDE DEF x
<1>6. DEFINE q == x \div Base
             r == x % Base
<1>7. q \in Nat /\ r \in Nat /\ x = Base * q + r  BY <1>2, SizeAssumption
<1> HIDE DEF q, r
<1>8. w * x = w * r + (w * Base) * q  BY <1>7, SizeAssumption
<1>9. (v + w * t) * e = (p + (w * r)) + (w * Base) * q
  BY <1>5, <1>7, <1>8, SizeAssumption
<1> QED  BY <1>9 DEF q, r, x

(* One byte more of the division. *)
LEMMA DivideStep ==
  ASSUME NEW a \in Nat, NEW s \in Nat, NEW c \in Nat, NEW b \in Nat,
         a = s * Period + c
  PROVE  a * Base + b =
           ((s * Base) + ((b + c * Base) \div Period)) * Period
             + ((b + c * Base) % Period)
<1>1. DEFINE x == b + c * Base
<1>2. x \in Nat  BY SizeAssumption
<1>3. a * Base + b = (s * Base) * Period + x  BY SizeAssumption
<1> HIDE DEF x
<1>4. DEFINE q == x \div Period
             r == x % Period
<1>5. q \in Nat /\ r \in Nat /\ x = Period * q + r  BY <1>2, SizeAssumption
<1> HIDE DEF q, r
<1>6. ((s * Base) + q) * Period + r = (s * Base) * Period + (Period * q + r)
  BY <1>5, SizeAssumption
<1>7. a * Base + b = ((s * Base) + q) * Period + r  BY <1>3, <1>5, <1>6
<1> QED  BY <1>7 DEF q, r, x

LEMMA InitInv == Init => Inv
<1> SUFFICES ASSUME Init PROVE Inv
  OBVIOUS
<1>1. TypeOK  BY Bounds, SizeAssumption DEF Init, TypeOK
<1>2. LoopInv  BY DEF Init, LoopInv
<1>3. MultiplyExact /\ DivideExact  BY DEF Init, MultiplyExact, DivideExact
<1> QED  BY <1>1, <1>2, <1>3 DEF Inv

LEMMA UnderflowInv == Inv /\ Underflow => Inv'
<1> SUFFICES ASSUME Inv, Underflow PROVE Inv'
  OBVIOUS
<1> USE DEF Inv, Underflow, Underflows, inputVars, historyVars
<1>1. TypeOK'  BY DEF TypeOK
<1>2. LoopInv'  BY DEF LoopInv
<1>3. MultiplyExact' /\ DivideExact'  BY DEF MultiplyExact, DivideExact
<1> QED  BY <1>1, <1>2, <1>3

LEMMA WideRetargetInv == Inv /\ WideRetarget => Inv'
<1> SUFFICES ASSUME Inv, WideRetarget PROVE Inv'
  OBVIOUS
<1>1. PICK d \in Differences : elapsed' = Clamp(d)
  BY DEF WideRetarget
<1>2. elapsed' \in Lower..Upper
  BY <1>1, ClampBounded, DifferencesAreIntegers DEF Inv
<1>3. /\ pc = "called" /\ impl # "c" /\ pc' \in {"returned", "fault"}
      /\ UNCHANGED <<inputVars, i, carry, digits, historyVars>>
  BY DEF WideRetarget
<1> USE DEF Inv, inputVars, historyVars
<1>4. TypeOK'  BY <1>2, <1>3 DEF TypeOK
<1>5. LoopInv'  BY <1>3 DEF LoopInv
<1>6. MultiplyExact' /\ DivideExact'
  BY <1>3 DEF MultiplyExact, DivideExact
<1> QED  BY <1>4, <1>5, <1>6

LEMMA CStartInv == Inv /\ CStart => Inv'
<1> SUFFICES ASSUME Inv, CStart PROVE Inv'
  OBVIOUS
<1>1. elapsed' \in Lower..Upper
  BY ClampBounded, DifferencesAreIntegers DEF Inv, CStart
<1> USE DEF Inv, CStart, inputVars, historyVars
<1>2. TypeOK'  BY <1>1, SizeAssumption DEF TypeOK
<1>3. LoopInv'  BY <1>1, SizeAssumption, Bounds DEF LoopInv, TypeOK
<1>4. MultiplyExact'
  BY <1>1, Bounds DEF MultiplyExact, LoopInv
<1>5. DivideExact'  BY DEF DivideExact
<1> QED  BY <1>2, <1>3, <1>4, <1>5

LEMMA MultiplyByteInv == Inv /\ MultiplyByte => Inv'
<1> SUFFICES ASSUME Inv, MultiplyByte PROVE Inv'
  OBVIOUS
<1> DEFINE x == carry + target[i] * elapsed
<1>1. /\ pc = "multiply" /\ impl = "c" /\ i \in 1..Digits
      /\ elapsed \in 0..Upper /\ elapsed \in Nat /\ carry \in Nat
      /\ carry < Upper /\ result = 0 /\ divided = 0
  BY Bounds, SizeAssumption DEF Inv, TypeOK, LoopInv, MultiplyByte
<1>2. target[i] \in 0..Base - 1 /\ target[i] \in Nat
  <2>1. target[i] \in 0..Base - 1
    BY <1>1, TargetAssumption DEF Inv, TypeOK
  <2> QED  BY ONLY <2>1, SizeAssumption
<1>3. /\ x \in Nat /\ x % WordSize = x
      /\ x % Base \in 0..Base - 1 /\ x \div Base \in Nat /\ x \div Base < Upper
  BY <1>1, <1>2, ProductFits
<1>4. /\ digits' = [digits EXCEPT ![i] = x % Base]
      /\ carry' = x \div Base
      /\ product' = product + (weight * (x % Base))
      /\ value' = value + weight * target[i]
      /\ weight' = weight * Base
      /\ i' = i - 1
      /\ UNCHANGED <<impl, target, first, second, pc, elapsed, result, divided>>
  BY <1>3 DEF MultiplyByte, inputVars
<1>5. weight \in Nat /\ value \in Nat /\ product \in Nat
  BY DEF Inv, TypeOK
<1>6. value * elapsed = product + weight * carry
  BY <1>1 DEF Inv, MultiplyExact
<1>7. value' * elapsed' = product' + weight' * carry'
  <2> DEFINE t == target[i]
  <2>1. t \in Nat /\ elapsed \in Nat /\ carry \in Nat /\ x = carry + t * elapsed
    BY <1>1, <1>2
  <2>2. weight \in Nat /\ value \in Nat /\ product \in Nat  BY <1>5
  <2>3. /\ elapsed' = elapsed /\ value' = value + weight * t
        /\ product' = product + (weight * (x % Base))
        /\ weight' = weight * Base /\ carry' = x \div Base
    BY <1>4
  <2> HIDE DEF x, t
  <2>4. \A w, p, c, u, e \in Nat :
          value * e = p + w * c =>
            (value + w * u) * e =
              (p + (w * ((c + u * e) % Base)))
                + (w * Base) * ((c + u * e) \div Base)
    BY ONLY <2>2, MultiplyStep
  <2>5. \A c, u, e \in Nat :
          value * e = product + weight * c =>
            (value + weight * u) * e =
              (product + (weight * ((c + u * e) % Base)))
                + (weight * Base) * ((c + u * e) \div Base)
    BY ONLY <2>2, <2>4, Zenon
  <2>6. (value + weight * t) * elapsed =
          (product + (weight * ((carry + t * elapsed) % Base)))
            + (weight * Base) * ((carry + t * elapsed) \div Base)
    BY ONLY <1>6, <2>1, <2>5, Zenon
  <2> QED  BY <2>1, <2>3, <2>6, Zenon
<1>8. weight' \in Nat /\ value' \in Nat /\ product' \in Nat
  BY <1>2, <1>3, <1>4, <1>5, SizeAssumption
<1>9. digits' \in [1..Digits -> 0..Base - 1]
  BY <1>1, <1>3, <1>4 DEF Inv, TypeOK
<1>10. carry' \in Nat /\ carry' < Upper /\ carry' \in 0..WordSize - 1
  <2>1. Upper <= Base * Upper  BY Bounds, SizeAssumption
  <2> QED  BY <1>3, <1>4, <2>1, Bounds, SizeAssumption
<1> HIDE DEF x
<1>11. i' \in 0..Digits  BY <1>1, <1>4, SizeAssumption
<1>12. TypeOK'
  <2>1. UNCHANGED <<impl, target, first, second, pc, elapsed, result, divided>>
    BY <1>4
  <2>2. i' \in 0..Digits + 1  BY <1>11, SizeAssumption
  <2> QED  BY <1>8, <1>9, <1>10, <2>1, <2>2 DEF Inv, TypeOK
<1>13. LoopInv'
  BY <1>1, <1>4, <1>10, <1>11 DEF Inv, LoopInv
<1>14. MultiplyExact' /\ DivideExact'
  BY <1>1, <1>4, <1>7 DEF MultiplyExact, DivideExact
<1> QED  BY <1>12, <1>13, <1>14 DEF Inv

LEMMA EndMultiplyInv == Inv /\ EndMultiply => Inv'
<1> SUFFICES ASSUME Inv, EndMultiply PROVE Inv'
  OBVIOUS
<1> USE DEF Inv, EndMultiply, inputVars, historyVars
<1>1. TypeOK'  BY SizeAssumption DEF TypeOK
<1>2. LoopInv'  BY SizeAssumption DEF LoopInv
<1>3. MultiplyExact'  BY DEF MultiplyExact
<1>4. DivideExact'
  <2>1. divided = 0 /\ result = 0  BY DEF LoopInv
  <2>2. divided' = 0 /\ result' = 0 /\ carry' = 0  BY <2>1
  <2> QED  BY <2>2, SizeAssumption DEF DivideExact
<1> QED  BY <1>1, <1>2, <1>3, <1>4

LEMMA DivideByteInv == Inv /\ DivideByte => Inv'
<1> SUFFICES ASSUME Inv, DivideByte PROVE Inv'
  OBVIOUS
<1> DEFINE x == digits[i] + carry * Base
<1>1. /\ pc = "divide" /\ impl = "c" /\ i \in 1..Digits
      /\ carry \in Nat /\ carry < Period /\ result \in Nat /\ divided \in Nat
      /\ divided = result * Period + carry
  BY SizeAssumption DEF Inv, TypeOK, LoopInv, DivideExact, DivideByte
<1>2. digits[i] \in 0..Base - 1 /\ digits[i] \in Nat
  BY <1>1, SizeAssumption DEF Inv, TypeOK
<1>3. /\ x \in Nat /\ x % WordSize = x
      /\ x \div Period \in 0..Base - 1
      /\ (x \div Period) % Base = x \div Period
      /\ x % Period \in 0..Period - 1
  BY <1>1, <1>2, QuotientFits
<1>4. /\ digits' = [digits EXCEPT ![i] = x \div Period]
      /\ carry' = x % Period
      /\ result' = (result * Base) + (x \div Period)
      /\ divided' = divided * Base + digits[i]
      /\ i' = i + 1
      /\ UNCHANGED <<impl, target, first, second, pc, elapsed,
                     weight, value, product>>
  BY <1>3 DEF DivideByte, inputVars
<1>5. divided' = result' * Period + carry'
  BY <1>1, <1>2, <1>4, DivideStep
<1>6. divided' \in Nat /\ result' \in Nat
  BY <1>1, <1>2, <1>3, <1>4, SizeAssumption
<1>7. digits' \in [1..Digits -> 0..Base - 1]
  BY <1>1, <1>3, <1>4 DEF Inv, TypeOK
<1>8. carry' \in Nat /\ carry' < Period /\ carry' \in 0..WordSize - 1
  <2>1. Period <= Base * Upper  BY Bounds, SizeAssumption
  <2> QED  BY <1>3, <1>4, <2>1, Bounds, SizeAssumption
<1> HIDE DEF x
<1>9. i' \in 1..Digits + 1 /\ i' \in 0..Digits + 1
  BY <1>1, <1>4, SizeAssumption
<1>10. TypeOK'
  BY <1>1, <1>4, <1>6, <1>7, <1>8, <1>9 DEF Inv, TypeOK
<1>11. LoopInv'  BY <1>1, <1>4, <1>9 DEF Inv, LoopInv
<1>12. MultiplyExact' /\ DivideExact'
  BY <1>1, <1>4, <1>5, <1>8 DEF MultiplyExact, DivideExact
<1> QED  BY <1>10, <1>11, <1>12 DEF Inv

LEMMA EndDivideInv == Inv /\ EndDivide => Inv'
<1> SUFFICES ASSUME Inv, EndDivide PROVE Inv'
  OBVIOUS
<1> USE DEF Inv, EndDivide, inputVars, historyVars
<1>1. TypeOK'  BY DEF TypeOK
<1>2. LoopInv'  BY DEF LoopInv
<1>3. MultiplyExact' /\ DivideExact'  BY DEF MultiplyExact, DivideExact
<1> QED  BY <1>1, <1>2, <1>3

(* Every step keeps the invariant. *)
LEMMA StepInv == Inv /\ [Next]_vars => Inv'
<1> SUFFICES ASSUME Inv, [Next]_vars PROVE Inv'
  OBVIOUS
<1>1. CASE Underflow  BY <1>1, UnderflowInv
<1>2. CASE WideRetarget  BY <1>2, WideRetargetInv
<1>3. CASE CStart  BY <1>3, CStartInv
<1>4. CASE MultiplyByte  BY <1>4, MultiplyByteInv
<1>5. CASE EndMultiply  BY <1>5, EndMultiplyInv
<1>6. CASE DivideByte  BY <1>6, DivideByteInv
<1>7. CASE EndDivide  BY <1>7, EndDivideInv
<1>8. CASE UNCHANGED vars
  BY <1>8 DEF Inv, TypeOK, LoopInv, MultiplyExact, DivideExact, vars,
              inputVars, historyVars
<1> QED
  BY <1>1, <1>2, <1>3, <1>4, <1>5, <1>6, <1>7, <1>8 DEF Next, Done

LEMMA SpecInv == Spec => []Inv
BY InitInv, StepInv, PTL DEF Spec

(* Every byte C stores is a byte, its index stays within the target, and   *)
(* its carries fit a word.                                                 *)
THEOREM TypeCorrect == Spec => []TypeOK
<1>1. Inv => TypeOK  BY DEF Inv
<1> QED  BY SpecInv, <1>1, PTL

(* btcspv_retarget_algorithm's first loop loses nothing: the bytes stored  *)
(* and the carry spell the bytes read times the time elapsed.              *)
THEOREM MultiplicationIsExact == Spec => []MultiplyExact
<1>1. Inv => MultiplyExact  BY DEF Inv
<1> QED  BY SpecInv, <1>1, PTL

(* Its second loop is a division: what it has read is what it has stored   *)
(* times the period, plus a remainder below the period.                    *)
THEOREM DivisionIsExact == Spec => []DivideExact
<1>1. Inv => DivideExact  BY DEF Inv
<1> QED  BY SpecInv, <1>1, PTL

(***************************************************************************)
(* What the bytes spell.                                                   *)
(***************************************************************************)
Bytes == [1..Digits -> 0..Base - 1]

(* The functions defined by recursion are defined.                         *)
LEMMA PowerDefined ==
  Power = [k \in 0..Digits |-> IF k = 0 THEN 1 ELSE Base * Power[k - 1]]
<1> DEFINE Fits(f, m) == f = [k \in 0..m |-> IF k = 0 THEN 1 ELSE Base * f[k - 1]]
           S == {m \in Nat : \E f : Fits(f, m)}
<1>1. 0 \in S
  <2> DEFINE f == [k \in 0..0 |-> 1]
  <2>1. Fits(f, 0)  OBVIOUS
  <2> QED  BY <2>1
<1>2. \A n \in Nat : n \in S => n + 1 \in S
  <2> SUFFICES ASSUME NEW n \in Nat, NEW f, Fits(f, n)
               PROVE  \E g : Fits(g, n + 1)
    OBVIOUS
  <2> DEFINE g == [k \in 0..n + 1 |-> IF k = 0 THEN 1 ELSE Base * f[k - 1]]
  <2>1. \A k \in 0..n : g[k] = f[k]  OBVIOUS
  <2>2. Fits(g, n + 1)  BY <2>1
  <2> QED  BY <2>2
<1> HIDE DEF S
<1>3. Digits \in S  BY <1>1, <1>2, SetInduction, SizeAssumption
<1>4. \E f : Fits(f, Digits)  BY <1>3 DEF S
<1> QED  BY <1>4 DEF Power

LEMMA PrefixesDefined ==
  ASSUME NEW b
  PROVE  Prefixes(b) = [k \in 0..Digits |->
                          IF k = 0 THEN 0 ELSE Prefixes(b)[k - 1] * Base + b[k]]
<1> DEFINE Fits(f, m) ==
             f = [k \in 0..m |-> IF k = 0 THEN 0 ELSE f[k - 1] * Base + b[k]]
           S == {m \in Nat : \E f : Fits(f, m)}
<1>1. 0 \in S
  <2> DEFINE f == [k \in 0..0 |-> 0]
  <2>1. Fits(f, 0)  OBVIOUS
  <2> QED  BY <2>1
<1>2. \A n \in Nat : n \in S => n + 1 \in S
  <2> SUFFICES ASSUME NEW n \in Nat, NEW f, Fits(f, n)
               PROVE  \E g : Fits(g, n + 1)
    OBVIOUS
  <2> DEFINE g == [k \in 0..n + 1 |->
                     IF k = 0 THEN 0 ELSE f[k - 1] * Base + b[k]]
  <2>1. \A k \in 0..n : g[k] = f[k]  OBVIOUS
  <2>2. Fits(g, n + 1)  BY <2>1
  <2> QED  BY <2>2
<1> HIDE DEF S
<1>3. Digits \in S  BY <1>1, <1>2, SetInduction, SizeAssumption
<1>4. \E f : Fits(f, Digits)  BY <1>3 DEF S
<1> QED  BY <1>4 DEF Prefixes

LEMMA PowerValues ==
  /\ Power[0] = 1
  /\ \A k \in 0..Digits : Power[k] \in Nat /\ Power[k] > 0
  /\ \A k \in 1..Digits : Power[k] = Base * Power[k - 1]
<1>1. Power[0] = 1 /\ \A k \in 1..Digits : Power[k] = Base * Power[k - 1]
  BY PowerDefined, SizeAssumption
<1> DEFINE S == {m \in Nat : m <= Digits => Power[m] \in Nat /\ Power[m] > 0}
<1>2. 0 \in S  BY <1>1
<1>3. ASSUME NEW n \in Nat, n \in S
      PROVE  n + 1 \in S
  <2> SUFFICES ASSUME n + 1 <= Digits
               PROVE  Power[n + 1] \in Nat /\ Power[n + 1] > 0
    OBVIOUS
  <2>1. Power[n] \in Nat /\ Power[n] > 0  BY <1>3, SizeAssumption
  <2>2. n + 1 \in 1..Digits /\ (n + 1) - 1 = n  BY SizeAssumption
  <2>3. Power[n + 1] = Base * Power[n]  BY <1>1, <2>2
  <2> QED  BY <2>1, <2>3, SizeAssumption
<1> HIDE DEF S
<1>4. Nat \subseteq S  BY <1>2, <1>3, SetInduction
<1>5. \A k \in 0..Digits : Power[k] \in Nat /\ Power[k] > 0
  BY <1>4, SizeAssumption DEF S
<1> QED  BY <1>1, <1>5

LEMMA PrefixValues ==
  ASSUME NEW b \in Bytes
  PROVE  /\ Prefixes(b)[0] = 0
         /\ \A k \in 0..Digits : Prefixes(b)[k] \in Nat
         /\ \A k \in 1..Digits :
              Prefixes(b)[k] = Prefixes(b)[k - 1] * Base + b[k]
<1>1. /\ Prefixes(b)[0] = 0
      /\ \A k \in 1..Digits :
           Prefixes(b)[k] = Prefixes(b)[k - 1] * Base + b[k]
  BY PrefixesDefined, SizeAssumption
<1> DEFINE S == {m \in Nat : m <= Digits => Prefixes(b)[m] \in Nat}
<1>2. 0 \in S  BY <1>1
<1>3. ASSUME NEW n \in Nat, n \in S
      PROVE  n + 1 \in S
  <2> SUFFICES ASSUME n + 1 <= Digits PROVE Prefixes(b)[n + 1] \in Nat
    OBVIOUS
  <2>1. Prefixes(b)[n] \in Nat  BY <1>3, SizeAssumption
  <2>2. n + 1 \in 1..Digits /\ (n + 1) - 1 = n  BY SizeAssumption
  <2>3. Prefixes(b)[n + 1] = Prefixes(b)[n] * Base + b[n + 1]  BY <1>1, <2>2
  <2>4. b[n + 1] \in Nat  BY <2>2, SizeAssumption DEF Bytes
  <2> QED  BY <2>1, <2>3, <2>4, SizeAssumption
<1> HIDE DEF S
<1>4. Nat \subseteq S  BY <1>2, <1>3, SetInduction
<1>5. \A k \in 0..Digits : Prefixes(b)[k] \in Nat
  BY <1>4, SizeAssumption DEF S
<1> QED  BY <1>1, <1>5

(* A prefix depends on its own bytes only. *)
LEMMA PrefixesAgree ==
  ASSUME NEW a \in Bytes, NEW b \in Bytes, NEW n \in 0..Digits,
         \A k \in 1..n : a[k] = b[k]
  PROVE  Prefixes(a)[n] = Prefixes(b)[n]
<1> DEFINE S == {m \in Nat : m <= n => Prefixes(a)[m] = Prefixes(b)[m]}
<1>1. 0 \in S  BY PrefixValues
<1>2. ASSUME NEW m \in Nat, m \in S
      PROVE  m + 1 \in S
  <2> SUFFICES ASSUME m + 1 <= n
               PROVE  Prefixes(a)[m + 1] = Prefixes(b)[m + 1]
    OBVIOUS
  <2>1. Prefixes(a)[m] = Prefixes(b)[m]  BY <1>2, SizeAssumption
  <2>2. m + 1 \in 1..Digits /\ m + 1 \in 1..n /\ (m + 1) - 1 = m
    BY SizeAssumption
  <2>3. /\ Prefixes(a)[m + 1] = Prefixes(a)[m] * Base + a[m + 1]
        /\ Prefixes(b)[m + 1] = Prefixes(b)[m] * Base + b[m + 1]
    BY <2>2, PrefixValues
  <2> QED  BY <2>1, <2>2, <2>3
<1> HIDE DEF S
<1>3. n \in S  BY <1>1, <1>2, SetInduction, SizeAssumption
<1> QED  BY <1>3, SizeAssumption DEF S

(* The number that the last n bytes spell. *)
Suffixes(b) ==
  LET f[n \in 0..Digits] ==
        IF n = 0 THEN 0 ELSE b[Digits - n + 1] * Power[n - 1] + f[n - 1]
  IN f

LEMMA SuffixesDefined ==
  ASSUME NEW b
  PROVE  Suffixes(b) = [n \in 0..Digits |->
           IF n = 0 THEN 0
           ELSE b[Digits - n + 1] * Power[n - 1] + Suffixes(b)[n - 1]]
<1> DEFINE Fits(f, m) ==
             f = [n \in 0..m |-> IF n = 0 THEN 0
                    ELSE b[Digits - n + 1] * Power[n - 1] + f[n - 1]]
           S == {m \in Nat : \E f : Fits(f, m)}
<1>1. 0 \in S
  <2> DEFINE f == [k \in 0..0 |-> 0]
  <2>1. Fits(f, 0)  OBVIOUS
  <2> QED  BY <2>1
<1>2. \A m \in Nat : m \in S => m + 1 \in S
  <2> SUFFICES ASSUME NEW m \in Nat, NEW f, Fits(f, m)
               PROVE  \E g : Fits(g, m + 1)
    OBVIOUS
  <2> DEFINE g == [n \in 0..m + 1 |-> IF n = 0 THEN 0
                     ELSE b[Digits - n + 1] * Power[n - 1] + f[n - 1]]
  <2>1. \A n \in 0..m : g[n] = f[n]  OBVIOUS
  <2>2. Fits(g, m + 1)  BY <2>1
  <2> QED  BY <2>2
<1> HIDE DEF S
<1>3. Digits \in S  BY <1>1, <1>2, SetInduction, SizeAssumption
<1>4. \E f : Fits(f, Digits)  BY <1>3 DEF S
<1> QED  BY <1>4 DEF Suffixes

LEMMA SuffixValues ==
  ASSUME NEW b \in Bytes
  PROVE  /\ Suffixes(b)[0] = 0
         /\ \A n \in 0..Digits : Suffixes(b)[n] \in Nat
         /\ \A k \in 1..Digits :
              Suffixes(b)[Digits - k + 1]
                = b[k] * Power[Digits - k] + Suffixes(b)[Digits - k]
<1>1. /\ Suffixes(b)[0] = 0
      /\ \A n \in 1..Digits :
           Suffixes(b)[n] = b[Digits - n + 1] * Power[n - 1] + Suffixes(b)[n - 1]
  BY SuffixesDefined, SizeAssumption
<1> DEFINE S == {m \in Nat : m <= Digits => Suffixes(b)[m] \in Nat}
<1>2. 0 \in S  BY <1>1
<1>3. ASSUME NEW n \in Nat, n \in S
      PROVE  n + 1 \in S
  <2> SUFFICES ASSUME n + 1 <= Digits PROVE Suffixes(b)[n + 1] \in Nat
    OBVIOUS
  <2>1. Suffixes(b)[n] \in Nat  BY <1>3, SizeAssumption
  <2>2. /\ n + 1 \in 1..Digits /\ (n + 1) - 1 = n /\ n \in 0..Digits
        /\ Digits - (n + 1) + 1 \in 1..Digits
    BY SizeAssumption
  <2>3. Suffixes(b)[n + 1] = b[Digits - (n + 1) + 1] * Power[n] + Suffixes(b)[n]
    BY <1>1, <2>2
  <2>4. b[Digits - (n + 1) + 1] \in Nat /\ Power[n] \in Nat
    BY <2>2, SizeAssumption, PowerValues DEF Bytes
  <2> QED  BY <2>1, <2>3, <2>4
<1> HIDE DEF S
<1>4. Nat \subseteq S  BY <1>2, <1>3, SetInduction
<1>5. \A n \in 0..Digits : Suffixes(b)[n] \in Nat
  BY <1>4, SizeAssumption DEF S
<1>6. ASSUME NEW k \in 1..Digits
      PROVE  Suffixes(b)[Digits - k + 1]
               = b[k] * Power[Digits - k] + Suffixes(b)[Digits - k]
  <2>1. /\ Digits - k + 1 \in 1..Digits /\ Digits - (Digits - k + 1) + 1 = k
        /\ (Digits - k + 1) - 1 = Digits - k
    BY SizeAssumption
  <2> QED  BY <1>1, <2>1
<1> QED  BY <1>1, <1>5, <1>6

LEMMA SuffixesAgree ==
  ASSUME NEW a \in Bytes, NEW b \in Bytes, NEW n \in 0..Digits,
         \A k \in 1..Digits : k > Digits - n => a[k] = b[k]
  PROVE  Suffixes(a)[n] = Suffixes(b)[n]
<1> DEFINE S == {m \in Nat : m <= n => Suffixes(a)[m] = Suffixes(b)[m]}
<1>1. 0 \in S  BY SuffixValues
<1>2. ASSUME NEW m \in Nat, m \in S
      PROVE  m + 1 \in S
  <2> SUFFICES ASSUME m + 1 <= n
               PROVE  Suffixes(a)[m + 1] = Suffixes(b)[m + 1]
    OBVIOUS
  <2>1. Suffixes(a)[m] = Suffixes(b)[m]  BY <1>2, SizeAssumption
  <2> DEFINE k == Digits - m
  <2>2. /\ k \in 1..Digits /\ k > Digits - n
        /\ Digits - k + 1 = m + 1 /\ Digits - k = m
    BY SizeAssumption
  <2>3. /\ Suffixes(a)[m + 1] = a[k] * Power[m] + Suffixes(a)[m]
        /\ Suffixes(b)[m + 1] = b[k] * Power[m] + Suffixes(b)[m]
    BY <2>2, SuffixValues
  <2> QED  BY <2>1, <2>2, <2>3
<1> HIDE DEF S
<1>3. n \in S  BY <1>1, <1>2, SetInduction, SizeAssumption
<1> QED  BY <1>3, SizeAssumption DEF S

LEMMA SuffixBounded ==
  ASSUME NEW b \in Bytes
  PROVE  \A n \in 0..Digits : Suffixes(b)[n] < Power[n]
<1> DEFINE S == {m \in Nat : m <= Digits => Suffixes(b)[m] < Power[m]}
<1>1. 0 \in S  BY SuffixValues, PowerValues
<1>2. ASSUME NEW m \in Nat, m \in S
      PROVE  m + 1 \in S
  <2> SUFFICES ASSUME m + 1 <= Digits PROVE Suffixes(b)[m + 1] < Power[m + 1]
    OBVIOUS
  <2> DEFINE k == Digits - m
             d == b[k]
             w == Power[m]
             u == Suffixes(b)[m]
  <2>1. /\ k \in 1..Digits /\ Digits - k + 1 = m + 1 /\ Digits - k = m
        /\ m \in 0..Digits /\ m + 1 \in 1..Digits /\ (m + 1) - 1 = m
    BY SizeAssumption
  <2>2. Suffixes(b)[m + 1] = d * w + u  BY <2>1, SuffixValues
  <2>3. Power[m + 1] = Base * w  BY <2>1, PowerValues
  <2>4. d \in 0..Base - 1  BY <2>1 DEF Bytes
  <2>5. w \in Nat /\ u \in Nat /\ u < w
    BY <1>2, <2>1, PowerValues, SuffixValues, SizeAssumption
  <2> HIDE DEF k, d, w, u
  <2>6. d * w <= (Base - 1) * w  BY <2>4, <2>5, SizeAssumption
  <2>7. (Base - 1) * w + w = Base * w  BY <2>5, SizeAssumption
  <2> QED  BY <2>2, <2>3, <2>4, <2>5, <2>6, <2>7, SizeAssumption
<1> HIDE DEF S
<1>3. Nat \subseteq S  BY <1>1, <1>2, SetInduction
<1> QED  BY <1>3, SizeAssumption DEF S

(* A target splits at any byte. *)
LEMMA SplitAnywhere ==
  ASSUME NEW b \in Bytes
  PROVE  \A n \in 0..Digits :
           Prefixes(b)[n] * Power[Digits - n] + Suffixes(b)[Digits - n] = Suffixes(b)[Digits]
<1> DEFINE S == {m \in Nat : m <= Digits =>
             Prefixes(b)[m] * Power[Digits - m] + Suffixes(b)[Digits - m]
               = Suffixes(b)[Digits]}
<1>1. 0 \in S
  <2>1. /\ Prefixes(b)[0] = 0 /\ Digits - 0 = Digits
        /\ Power[Digits] \in Nat /\ Suffixes(b)[Digits] \in Nat
    BY PrefixValues, PowerValues, SuffixValues, SizeAssumption
  <2> QED  BY <2>1
<1>2. ASSUME NEW m \in Nat, m \in S
      PROVE  m + 1 \in S
  <2> SUFFICES ASSUME m + 1 <= Digits
               PROVE  Prefixes(b)[m + 1] * Power[Digits - (m + 1)]
                        + Suffixes(b)[Digits - (m + 1)] = Suffixes(b)[Digits]
    OBVIOUS
  <2> DEFINE k == m + 1
             d == b[k]
             w == Power[Digits - k]
             u == Suffixes(b)[Digits - k]
             q == Prefixes(b)[m]
  <2>1. /\ k \in 1..Digits /\ k - 1 = m /\ Digits - m = Digits - k + 1
        /\ m \in 0..Digits /\ Digits - k \in 0..Digits
        /\ Digits - m \in 1..Digits /\ (Digits - m) - 1 = Digits - k
    BY SizeAssumption
  <2>2. Prefixes(b)[k] = q * Base + d  BY <2>1, PrefixValues
  <2>3. Suffixes(b)[Digits - m] = d * w + u  BY <2>1, SuffixValues
  <2>4. Power[Digits - m] = Base * w  BY <2>1, PowerValues
  <2>5. d \in Nat /\ w \in Nat /\ u \in Nat /\ q \in Nat
    <3>1. d \in 0..Base - 1  BY <2>1 DEF Bytes
    <3>2. w \in Nat /\ u \in Nat  BY <2>1, PowerValues, SuffixValues
    <3>3. q \in Nat  BY <2>1, PrefixValues
    <3> QED  BY <3>1, <3>2, <3>3, SizeAssumption
  <2>6. q * (Base * w) + (d * w + u) = Suffixes(b)[Digits]
    BY <1>2, <2>1, <2>3, <2>4
  <2>7. (q * Base + d) * w + u = q * (Base * w) + (d * w + u)
    <3> HIDE DEF k, d, w, u, q
    <3> QED  BY <2>5, SizeAssumption
  <2> QED  BY <2>2, <2>6, <2>7
<1> HIDE DEF S
<1>3. Nat \subseteq S  BY <1>1, <1>2, SetInduction
<1> QED  BY <1>3, SizeAssumption DEF S

LEMMA SpeltBySuffix ==
  ASSUME NEW b \in Bytes
  PROVE  Spelt(b) \in Nat /\ Suffixes(b)[Digits] = Spelt(b)
<1>1. /\ Digits \in 0..Digits /\ Digits - Digits = 0
      /\ Power[0] = 1 /\ Suffixes(b)[0] = 0 /\ Prefixes(b)[Digits] \in Nat
  BY PowerValues, SuffixValues, PrefixValues, SizeAssumption
<1>2. Prefixes(b)[Digits] * Power[Digits - Digits]
        + Suffixes(b)[Digits - Digits] = Suffixes(b)[Digits]
  BY <1>1, SplitAnywhere
<1> QED  BY <1>1, <1>2 DEF Spelt

(***************************************************************************)
(* What is returned.                                                       *)
(***************************************************************************)
(* The bytes multiplied so far are the last ones, those divided the first, *)
(* and what the division has not read yet is still the product.            *)
MultiplyingBytes ==
  pc = "multiply" =>
    /\ weight = Power[Digits - i]
    /\ value = Suffixes(target)[Digits - i]
    /\ product = Suffixes(digits)[Digits - i]

DividingBytes ==
  pc = "divide" =>
    /\ result = Prefixes(digits)[i - 1]
    /\ divided * Power[Digits - i + 1] + Suffixes(digits)[Digits - i + 1]
         = (Spelt(target) * elapsed) % Max256

ReturnedBytes ==
  impl = "c" /\ pc = "returned" =>
    /\ result = Spelt(digits)
    /\ divided = (Spelt(target) * elapsed) % Max256

ElapsedExact == pc \in {"multiply", "divide", "returned"} => elapsed = Nominal

WideExact ==
  impl # "c" =>
    /\ pc = "returned" => result \in WideResults(Spelt(target), elapsed)
    /\ pc = "fault" =>
         \/ Underflows
         \/ elapsed = Nominal /\ WideResults(Spelt(target), elapsed) = {}

CFaultless == impl = "c" => pc # "fault"

BytesInv ==
  /\ MultiplyingBytes /\ DividingBytes /\ ReturnedBytes
  /\ ElapsedExact /\ WideExact /\ CFaultless

LEMMA NominalTime ==
  ASSUME TypeOK
  PROVE  /\ Nominal \in Lower..Upper
         /\ \A d \in Differences : Clamp(d) = Nominal
<1>1. first \in Nat /\ second \in Nat  BY SizeAssumption DEF TypeOK
<1>2. second < first => second - first < Lower /\ ~ (second - first > Upper)
  BY <1>1, Bounds
<1>3. ASSUME NEW d \in Differences
      PROVE  Clamp(d) = Nominal
  <2>1. CASE second < first /\ impl \in {"c", "rust"}
    BY <1>3, <2>1, <1>1 DEF Differences, Nominal
  <2>2. CASE ~ (second < first /\ impl \in {"c", "rust"})
    <3>1. d = second - first  BY <1>1, <1>3, <2>2 DEF Differences
    <3> QED  BY <3>1, <2>2, <1>1, Bounds DEF Clamp, Nominal
  <2> QED  BY <2>1, <2>2
<1>4. Nominal \in Lower..Upper
  <2>1. CASE second < first /\ impl \in {"c", "rust"}
    <3>1. (second - first) % WordSize \in Int  BY <1>1, SizeAssumption, Bounds
    <3> QED  BY <2>1, <3>1, ClampBounded DEF Nominal
  <2>2. CASE ~ (second < first /\ impl \in {"c", "rust"})
    BY <2>2, <1>1, Bounds DEF Nominal
  <2> QED  BY <2>1, <2>2
<1> QED  BY <1>3, <1>4

LEMMA TargetIsBytes == TypeOK => target \in Bytes /\ digits \in Bytes
BY TargetAssumption DEF TypeOK, Bytes

LEMMA InitBytes == Init => BytesInv
BY DEF Init, BytesInv, MultiplyingBytes, DividingBytes, ReturnedBytes,
       ElapsedExact, WideExact, CFaultless

LEMMA UnderflowBytes == Inv /\ BytesInv /\ Underflow => BytesInv'
BY DEF Underflow, Underflows, inputVars, historyVars, BytesInv,
       MultiplyingBytes, DividingBytes, ReturnedBytes, ElapsedExact,
       WideExact, CFaultless

LEMMA WideRetargetBytes == Inv /\ BytesInv /\ WideRetarget => BytesInv'
<1> SUFFICES ASSUME Inv, BytesInv, WideRetarget PROVE BytesInv'
  OBVIOUS
<1>1. /\ impl # "c" /\ UNCHANGED <<impl, target, first, second>>
      /\ pc' \in {"returned", "fault"}
  BY DEF WideRetarget, inputVars
<1>2. /\ Nominal' = Nominal
      /\ WideResults(Spelt(target), elapsed)' = WideResults(Spelt(target), elapsed')
  BY <1>1 DEF Nominal, WideResults, Spelt, Prefixes
<1>3. /\ elapsed' = Nominal
      /\ LET r == WideResults(Spelt(target), elapsed')
         IN IF r = {} THEN pc' = "fault" ELSE pc' = "returned" /\ result' \in r
  BY NominalTime DEF WideRetarget, Inv
<1> QED
  BY <1>1, <1>2, <1>3
  DEF BytesInv, MultiplyingBytes, DividingBytes, ReturnedBytes, ElapsedExact,
      WideExact, CFaultless

LEMMA CStartBytes == Inv /\ BytesInv /\ CStart => BytesInv'
<1> SUFFICES ASSUME Inv, BytesInv, CStart PROVE BytesInv'
  OBVIOUS
<1>1. /\ impl = "c" /\ pc' = "multiply" /\ i' = Digits
      /\ UNCHANGED <<inputVars, digits, result, historyVars>>
  BY DEF CStart
<1>2. elapsed' = Nominal /\ Nominal' = Nominal
  BY <1>1, NominalTime DEF CStart, Inv, Nominal, inputVars
<1>3. weight = 1 /\ value = 0 /\ product = 0
  BY DEF CStart, Inv, LoopInv
<1>4. MultiplyingBytes'
  <2>1. Power[0] = 1 /\ Suffixes(target)[0] = 0 /\ Suffixes(digits)[0] = 0
    BY PowerValues, SuffixValues, TargetIsBytes DEF Inv
  <2>2. Digits - i' = 0  BY <1>1, SizeAssumption
  <2>3. target' = target /\ digits' = digits
        /\ weight' = 1 /\ value' = 0 /\ product' = 0
    BY <1>1, <1>3 DEF inputVars, historyVars
  <2> QED  BY <2>1, <2>2, <2>3 DEF MultiplyingBytes
<1> QED
  BY <1>1, <1>2, <1>4
  DEF BytesInv, DividingBytes, ReturnedBytes, ElapsedExact, WideExact,
      CFaultless, inputVars

LEMMA MultiplyByteBytes == Inv /\ Inv' /\ BytesInv /\ MultiplyByte => BytesInv'
<1> SUFFICES ASSUME Inv, Inv', BytesInv, MultiplyByte PROVE BytesInv'
  OBVIOUS
<1> DEFINE x == (carry + target[i] * elapsed) % WordSize
           d == x % Base
           n == Digits - i
<1>1. /\ pc = "multiply" /\ impl = "c" /\ i \in 1..Digits
      /\ weight = Power[n]
      /\ value = Suffixes(target)[n]
      /\ product = Suffixes(digits)[n]
      /\ elapsed = Nominal
  BY SizeAssumption
  DEF Inv, LoopInv, TypeOK, BytesInv, MultiplyingBytes, ElapsedExact, MultiplyByte
<1>2. /\ digits' = [digits EXCEPT ![i] = d]
      /\ product' = product + (weight * d)
      /\ value' = value + weight * target[i]
      /\ weight' = weight * Base
      /\ i' = i - 1
      /\ UNCHANGED <<impl, target, first, second, pc, elapsed, result>>
  BY DEF MultiplyByte, inputVars
<1>3. target \in Bytes /\ digits \in Bytes /\ digits' \in Bytes
  BY TargetIsBytes DEF Inv, TypeOK, Bytes
<1> HIDE DEF x, d
<1>4. /\ n \in 0..Digits /\ n + 1 \in 1..Digits /\ (n + 1) - 1 = n
      /\ Digits - i' = n + 1 /\ Digits - i + 1 = n + 1
  BY <1>1, <1>2, SizeAssumption
<1>5. digits'[i] = d /\ \A k \in 1..Digits : k > Digits - n => digits'[k] = digits[k]
  BY <1>1, <1>2, <1>3, SizeAssumption DEF Bytes
<1>6. Suffixes(digits')[n] = Suffixes(digits)[n]
  BY <1>3, <1>4, <1>5, SuffixesAgree
<1>7. /\ Suffixes(digits')[n + 1] = d * Power[n] + Suffixes(digits)[n]
      /\ Suffixes(target)[n + 1] = target[i] * Power[n] + Suffixes(target)[n]
  BY <1>1, <1>3, <1>4, <1>5, <1>6, SuffixValues
<1>8. Power[n + 1] = Base * Power[n]
  BY <1>4, PowerValues
<1>9. /\ d \in Nat /\ target[i] \in Nat /\ Power[n] \in Nat
      /\ Suffixes(digits)[n] \in Nat /\ Suffixes(target)[n] \in Nat
  <2>1. d \in 0..Base - 1 /\ target[i] \in 0..Base - 1
    BY <1>1, <1>3, <1>5 DEF Bytes
  <2> QED  BY <2>1, <1>3, <1>4, PowerValues, SuffixValues, SizeAssumption
<1>10. MultiplyingBytes'
  <2>1. /\ weight' = Power[n + 1]
        /\ value' = Suffixes(target)[n + 1]
        /\ product' = Suffixes(digits')[n + 1]
    BY <1>1, <1>2, <1>7, <1>8, <1>9, SizeAssumption
  <2> QED  BY <2>1, <1>2, <1>4 DEF MultiplyingBytes
<1>11. Nominal' = Nominal  BY <1>2 DEF Nominal
<1> QED
  BY <1>1, <1>2, <1>10, <1>11
  DEF BytesInv, DividingBytes, ReturnedBytes, ElapsedExact, WideExact, CFaultless

(* The bytes of the product and the carry are the whole product: without   *)
(* the carry they are the product up to Max256.                            *)
LEMMA EndMultiplyBytes == Inv /\ BytesInv /\ EndMultiply => BytesInv'
<1> SUFFICES ASSUME Inv, BytesInv, EndMultiply PROVE BytesInv'
  OBVIOUS
<1>1. /\ pc = "multiply" /\ impl = "c" /\ i = 0
      /\ pc' = "divide" /\ i' = 1
      /\ UNCHANGED <<impl, target, first, second, elapsed, digits, result,
                     divided>>
  BY DEF EndMultiply, Inv, LoopInv, inputVars, historyVars
<1>2. target \in Bytes /\ digits \in Bytes
  BY TargetIsBytes DEF Inv
<1>3. Digits - i = Digits /\ Digits \in 0..Digits /\ Digits - i' + 1 = Digits
  BY <1>1, SizeAssumption
<1>4. /\ weight = Max256 /\ value = Spelt(target)
      /\ product = Suffixes(digits)[Digits] /\ product < Max256
  BY <1>1, <1>2, <1>3, SpeltBySuffix, SuffixBounded
  DEF BytesInv, MultiplyingBytes, Max256
<1>5. value * elapsed = product + weight * carry
  BY <1>1 DEF Inv, MultiplyExact
<1>6. (Spelt(target) * elapsed) % Max256 = product
  <2>1. /\ Max256 \in Nat /\ product \in Nat /\ carry \in Nat
        /\ value \in Nat /\ elapsed \in Nat
    BY <1>1, <1>3, PowerValues, Bounds, SizeAssumption
    DEF Max256, Inv, TypeOK, LoopInv
  <2>2. value * elapsed = carry * Max256 + product /\ value * elapsed \in Nat
    BY <1>4, <1>5, <2>1
  <2>3. (value * elapsed) % Max256 = product
    BY ONLY <1>4, <2>1, <2>2, QuotientUnique
  <2> QED  BY <1>4, <2>3
<1>7. DividingBytes'
  <2>1. result = 0 /\ divided = 0  BY <1>1 DEF Inv, LoopInv
  <2>2. Prefixes(digits)[0] = 0 /\ i' - 1 = 0  BY <1>1, <1>2, PrefixValues
  <2>3. /\ Power[Digits] \in Nat /\ Suffixes(digits)[Digits] \in Nat
    BY <1>2, <1>3, PowerValues, SuffixValues
  <2>4. divided * Power[Digits] + Suffixes(digits)[Digits]
          = (Spelt(target) * elapsed) % Max256
    BY <1>4, <1>6, <2>1, <2>3
  <2> QED  BY <1>1, <1>3, <2>1, <2>2, <2>4 DEF DividingBytes
<1>8. Nominal' = Nominal  BY <1>1 DEF Nominal
<1> QED
  BY <1>1, <1>7, <1>8
  DEF BytesInv, MultiplyingBytes, ReturnedBytes, ElapsedExact, WideExact,
      CFaultless

LEMMA DivideByteBytes == Inv /\ Inv' /\ BytesInv /\ DivideByte => BytesInv'
<1> SUFFICES ASSUME Inv, Inv', BytesInv, DivideByte PROVE BytesInv'
  OBVIOUS
<1> DEFINE x == (digits[i] + carry * Base) % WordSize
           q == (x \div Period) % Base
           d == digits[i]
           n == Digits - i
           p == (Spelt(target) * elapsed) % Max256
<1>1. /\ pc = "divide" /\ impl = "c" /\ i \in 1..Digits
      /\ result = Prefixes(digits)[i - 1]
      /\ divided * Power[n + 1] + Suffixes(digits)[n + 1] = p
      /\ elapsed = Nominal /\ divided \in Nat
  BY SizeAssumption
  DEF Inv, LoopInv, TypeOK, BytesInv, DividingBytes, ElapsedExact, DivideByte
<1>2. /\ digits' = [digits EXCEPT ![i] = q]
      /\ result' = (result * Base) + q
      /\ divided' = divided * Base + d
      /\ i' = i + 1
      /\ UNCHANGED <<impl, target, first, second, pc, elapsed>>
  BY DEF DivideByte, inputVars
<1>3. target \in Bytes /\ digits \in Bytes /\ digits' \in Bytes
  BY TargetIsBytes DEF Inv, TypeOK, Bytes
<1>4. p' = p
  BY <1>2 DEF Spelt, Prefixes
<1> HIDE DEF x, q, d, p
<1>5. /\ n \in 0..Digits /\ n + 1 \in 1..Digits /\ (n + 1) - 1 = n
      /\ Digits - i' + 1 = n /\ i' - 1 = i
      /\ i \in 0..Digits /\ i - 1 \in 0..Digits
  BY <1>1, <1>2, SizeAssumption
<1>6. /\ digits'[i] = q
      /\ \A k \in 1..Digits : k # i => digits'[k] = digits[k]
  BY <1>1, <1>2, <1>3 DEF Bytes
<1>7. Prefixes(digits')[i - 1] = Prefixes(digits)[i - 1]
  <2>1. \A k \in 1..i - 1 : digits'[k] = digits[k]
    BY <1>1, <1>6, SizeAssumption
  <2> QED  BY <1>3, <1>5, <2>1, PrefixesAgree
<1>8. result' = Prefixes(digits')[i' - 1]
  BY <1>1, <1>2, <1>3, <1>5, <1>6, <1>7, PrefixValues, ZenonT(30)
<1>9. Suffixes(digits')[n] = Suffixes(digits)[n]
  <2>1. \A k \in 1..Digits : k > Digits - n => digits'[k] = digits[k]
    BY <1>1, <1>6, SizeAssumption
  <2> QED  BY <1>3, <1>5, <2>1, SuffixesAgree
<1>10. divided' * Power[n] + Suffixes(digits')[n] = p
  <2> DEFINE w == Power[n]
             u == Suffixes(digits)[n]
  <2>1. Suffixes(digits)[n + 1] = d * w + u
    BY <1>1, <1>3, <1>5, SuffixValues DEF d
  <2>2. Power[n + 1] = Base * w  BY <1>5, PowerValues
  <2>3. d \in 0..Base - 1  BY <1>1, <1>3 DEF Bytes, d
  <2>4. w \in Nat /\ u \in Nat  BY <1>3, <1>5, PowerValues, SuffixValues
  <2>5. divided * (Base * w) + (d * w + u) = p  BY <1>1, <2>1, <2>2
  <2>6. (divided * Base + d) * w + u = divided * (Base * w) + (d * w + u)
    <3> HIDE DEF w, u, n
    <3> QED  BY <1>1, <2>3, <2>4, SizeAssumption
  <2> QED  BY <1>2, <1>9, <2>5, <2>6
<1>11. DividingBytes'
  BY <1>4, <1>5, <1>8, <1>10 DEF DividingBytes, p
<1>12. Nominal' = Nominal  BY <1>2 DEF Nominal
<1> QED
  BY <1>1, <1>2, <1>11, <1>12
  DEF BytesInv, MultiplyingBytes, ReturnedBytes, ElapsedExact, WideExact,
      CFaultless

LEMMA EndDivideBytes == Inv /\ BytesInv /\ EndDivide => BytesInv'
<1> SUFFICES ASSUME Inv, BytesInv, EndDivide PROVE BytesInv'
  OBVIOUS
<1>1. /\ pc = "divide" /\ impl = "c" /\ pc' = "returned"
      /\ UNCHANGED <<impl, target, first, second, elapsed, digits, result,
                     divided>>
      /\ i = Digits + 1
  BY SizeAssumption, SMTT(30)
  DEF EndDivide, Inv, TypeOK, LoopInv, inputVars, historyVars
<1>2. target \in Bytes /\ digits \in Bytes
  BY TargetIsBytes DEF Inv
<1>3. i - 1 = Digits /\ Digits - i + 1 = 0  BY <1>1, SizeAssumption
<1>4. /\ result = Spelt(digits)
      /\ divided * Power[0] + Suffixes(digits)[0]
           = (Spelt(target) * elapsed) % Max256
  BY <1>1, <1>3 DEF BytesInv, DividingBytes, Spelt
<1>5. Power[0] = 1 /\ Suffixes(digits)[0] = 0 /\ divided \in Nat
  BY <1>2, PowerValues, SuffixValues DEF Inv, TypeOK
<1>6. ReturnedBytes'
  <2>1. divided = (Spelt(target) * elapsed) % Max256  BY <1>4, <1>5
  <2>2. Spelt(digits)' = Spelt(digits) /\ Spelt(target)' = Spelt(target)
    BY <1>1 DEF Spelt, Prefixes
  <2> QED  BY <1>1, <1>4, <2>1, <2>2 DEF ReturnedBytes
<1>7. Nominal' = Nominal  BY <1>1 DEF Nominal
<1> QED
  BY <1>1, <1>6, <1>7
  DEF BytesInv, MultiplyingBytes, DividingBytes, ElapsedExact, WideExact,
      CFaultless

LEMMA StutterBytes == BytesInv /\ UNCHANGED vars => BytesInv'
<1> SUFFICES ASSUME BytesInv, UNCHANGED vars PROVE BytesInv'
  OBVIOUS
<1>1. /\ UNCHANGED <<impl, target, first, second, pc, elapsed, i, carry,
                     digits, result, weight, value, product, divided>>
  BY DEF vars, inputVars, historyVars
<1>2. /\ Spelt(target)' = Spelt(target) /\ Spelt(digits)' = Spelt(digits)
      /\ Prefixes(digits)' = Prefixes(digits)
      /\ Suffixes(digits)' = Suffixes(digits)
      /\ Suffixes(target)' = Suffixes(target)
      /\ WideResults(Spelt(target), elapsed)' = WideResults(Spelt(target), elapsed)
      /\ Nominal' = Nominal /\ Underflows' = Underflows
  BY <1>1 DEF Spelt, Prefixes, Suffixes, WideResults, Nominal, Underflows
<1> QED
  BY <1>1, <1>2
  DEF BytesInv, MultiplyingBytes, DividingBytes, ReturnedBytes, ElapsedExact,
      WideExact, CFaultless

LEMMA StepBytes == Inv /\ Inv' /\ BytesInv /\ [Next]_vars => BytesInv'
BY UnderflowBytes, WideRetargetBytes, CStartBytes, MultiplyByteBytes,
   EndMultiplyBytes, DivideByteBytes, EndDivideBytes, StutterBytes
DEF Next, Done

LEMMA CIsExact ==
  ASSUME Inv, BytesInv, impl = "c", pc = "returned"
  PROVE  /\ result = ((Spelt(target) * Nominal) % Max256) \div Period
         /\ Spelt(digits) = result
<1>1. /\ Spelt(digits) = result
      /\ divided = (Spelt(target) * Nominal) % Max256
  BY DEF BytesInv, ReturnedBytes, ElapsedExact
<1>2. /\ divided = result * Period + carry /\ carry < Period
      /\ divided \in Nat /\ result \in Nat /\ carry \in Nat /\ Period \in Nat
  BY SizeAssumption DEF Inv, DivideExact, TypeOK
<1>3. divided \div Period = result
  BY ONLY <1>2, QuotientUnique
<1> QED  BY <1>1, <1>3

(* A smaller number has the smaller quotient. *)
LEMMA QuotientBounds ==
  ASSUME NEW x \in Nat, NEW b \in Nat, b > 0
  PROVE  /\ x \div b \in Nat /\ (x \div b) * b <= x
         /\ x < (x \div b) * b + b
         /\ \A y \in Nat : y * b <= x => y <= x \div b
<1> DEFINE q == x \div b
           r == x % b
<1>1. q \in Nat /\ r \in 0..b - 1 /\ x = b * q + r
  OBVIOUS
<1> HIDE DEF q, r
<1>2. ASSUME NEW y \in Nat, y * b <= x, y > q
      PROVE  FALSE
  <2>1. (y - q) * b >= b  BY <1>1, <1>2
  <2>2. (y - q) * b = y * b - q * b  BY <1>1
  <2> QED  BY <1>1, <1>2, <2>1, <2>2
<1>3. \A y \in Nat : y * b <= x => y <= q
  BY <1>1, <1>2
<1>4. q * b <= x /\ x < q * b + b
  BY <1>1
<1> QED  BY <1>1, <1>3, <1>4 DEF q

(* Solidity's truncation, for any target t and any elapsed time e: divided *)
(* by Adjust before and multiplied by it after, the result is never above  *)
(* the exact one, and a product that does not fit does not fit exactly.    *)
LEMMA Truncated ==
  ASSUME NEW t \in Nat, NEW e \in Nat, e <= 4 * Period,
         NEW p \in Nat, p = (t \div Adjust) * e,
         NEW y \in Nat, y = p \div Period
  PROVE  /\ y * Adjust \in Nat
         /\ p <= t * e /\ y * Adjust <= t * e
         /\ y * Adjust <= (t * e) \div Period
         /\ (t * e) \div Period - y * Adjust
              < IF t % Adjust = 0 THEN Adjust ELSE 5 * Adjust
<1> DEFINE u == t \div Adjust
           r == t % Adjust
           x == t * e
           z == x \div Period
<1>1. /\ Adjust \in Nat /\ Adjust > 0 /\ Period \in Nat /\ Period > 3
  BY SizeAssumption
<1>2. u \in Nat /\ r \in 0..Adjust - 1 /\ t = u * Adjust + r
  BY <1>1
<1>3. y * Period <= p /\ p < y * Period + Period
  BY <1>1, QuotientBounds
<1>4. x \in Nat
  OBVIOUS
<1>5. z \in Nat /\ z * Period <= x
      /\ \A k \in Nat : k * Period <= x => k <= z
  BY <1>1, <1>4, QuotientBounds
<1>6. p = u * e
  OBVIOUS
<1> HIDE DEF u, r, z
<1>7. x = p * Adjust + r * e
  BY <1>1, <1>2, <1>6
<1> HIDE DEF x
<1>8. r * e \in Nat /\ p * Adjust \in Nat /\ y * Adjust \in Nat
      /\ y * Period \in Nat
  BY <1>1, <1>2
<1>9. p <= p * Adjust /\ y * Adjust <= (y * Adjust) * Period
  BY <1>1, <1>8
<1>10. (y * Adjust) * Period <= p * Adjust
  <2>1. (y * Period) * Adjust <= p * Adjust  BY <1>1, <1>3, <1>8
  <2>2. (y * Period) * Adjust = (y * Adjust) * Period  BY <1>1
  <2> QED  BY <2>1, <2>2
<1>11. p <= x /\ y * Adjust <= x /\ (y * Adjust) * Period <= x
  BY <1>1, <1>4, <1>7, <1>8, <1>9, <1>10
<1>12. y * Adjust <= z
  BY <1>5, <1>8, <1>11
<1>13. p * Adjust < (y * Adjust) * Period + Adjust * Period
  <2>1. p * Adjust < (y * Period + Period) * Adjust  BY <1>1, <1>3, <1>8
  <2>2. (y * Period + Period) * Adjust = (y * Adjust) * Period + Adjust * Period
    BY <1>1
  <2> QED  BY <2>1, <2>2
<1>14. (z - y * Adjust) * Period < Adjust * Period + r * e
  <2>1. (z - y * Adjust) * Period = z * Period - (y * Adjust) * Period
    BY <1>1, <1>5, <1>8
  <2> QED  BY <1>1, <1>4, <1>5, <1>7, <1>8, <1>13, <2>1
<1>15. z - y * Adjust \in Nat
  BY <1>5, <1>8, <1>12
<1>16. \A a, b \in Nat : a * Period < b * Period => a < b
  <2> SUFFICES ASSUME NEW a \in Nat, NEW b \in Nat, a * Period < b * Period, a >= b
               PROVE  FALSE
    OBVIOUS
  <2>1. a * Period = b * Period + (a - b) * Period /\ (a - b) * Period >= 0
    BY <1>1
  <2> QED  BY <2>1, <1>1
<1>17. CASE r = 0
  <2>1. r * e = 0  BY <1>17
  <2>2. (z - y * Adjust) * Period < Adjust * Period  BY <1>1, <1>14, <2>1
  <2>3. z - y * Adjust < Adjust  BY <1>1, <1>15, <1>16, <2>2
  <2> QED  BY <1>8, <1>11, <1>12, <1>17, <2>3 DEF z, x, r
<1>18. CASE r # 0
  <2>1. r * e <= Adjust * (4 * Period)
    <3>1. r * e <= Adjust * e  BY <1>1, <1>2
    <3>2. Adjust * e <= Adjust * (4 * Period)  BY <1>1
    <3> QED  BY <3>1, <3>2, <1>1, <1>8
  <2>2. Adjust * Period + Adjust * (4 * Period) = (5 * Adjust) * Period
    BY <1>1
  <2>3. (z - y * Adjust) * Period < (5 * Adjust) * Period
    BY <1>1, <1>8, <1>14, <1>15, <2>1, <2>2
  <2>4. z - y * Adjust < 5 * Adjust  BY <1>1, <1>15, <1>16, <2>3
  <2> QED  BY <1>8, <1>11, <1>12, <1>18, <2>4 DEF z, x, r
<1> QED  BY <1>17, <1>18

LEMMA RemaindersVanish ==
  ASSUME NEW y \in Nat
  PROVE  (y * Adjust) % Adjust = 0
<1>1. /\ y * Adjust \in Nat /\ y * Adjust = y * Adjust + 0 /\ 0 < Adjust
      /\ Adjust \in Nat
  BY SizeAssumption
<1> QED  BY ONLY <1>1, QuotientUnique

LEMMA MaxPositive == Max256 \in Nat /\ Max256 > 0
BY PowerValues, SizeAssumption DEF Max256

LEMMA SolidityIsExact ==
  ASSUME Inv, BytesInv, impl = "sol"
  PROVE  /\ pc = "returned" =>
              /\ result % Adjust = 0 /\ result <= Exact
              /\ Exact - result < IF Spelt(target) % Adjust = 0 THEN Adjust
                                                                ELSE 5 * Adjust
         /\ pc = "fault" => \/ second < first
                            \/ Spelt(target) * Nominal >= Max256
<1> DEFINE t == Spelt(target)
           e == Nominal
           p == (t \div Adjust) * e
           y == p \div Period
<1>1. t \in Nat /\ e \in Nat /\ e <= 4 * Period
  BY TargetIsBytes, SpeltBySuffix, NominalTime, Bounds DEF Inv
<1>2. p \in Nat /\ y \in Nat
  BY <1>1, SizeAssumption
<1>3. WideResults(t, e) = UNION {Numeric((q \div Period) * Adjust) : q \in Numeric(p)}
  BY DEF WideResults
<1> HIDE DEF t, e
<1>4. /\ y * Adjust \in Nat /\ p <= t * e /\ y * Adjust <= t * e
      /\ y * Adjust <= (t * e) \div Period
      /\ (t * e) \div Period - y * Adjust
           < IF t % Adjust = 0 THEN Adjust ELSE 5 * Adjust
  BY <1>1, <1>2, Truncated
<1>5. t * e \in Nat  BY <1>1
<1> HIDE DEF p
<1>6. ASSUME pc = "returned"
      PROVE  result = y * Adjust
  <2>1. result \in WideResults(t, e)
    BY <1>6 DEF BytesInv, WideExact, ElapsedExact, t, e
  <2> QED  BY <1>3, <2>1 DEF Numeric
<1>7. ASSUME pc = "fault"
      PROVE  second < first \/ t * e >= Max256
  <2>1. CASE Underflows  BY <2>1 DEF Underflows
  <2>2. CASE WideResults(t, e) = {}
    <3>1. CASE p \in Numeric(p)
      <4>1. Numeric(y * Adjust) \subseteq WideResults(t, e)  BY <1>3, <3>1
      <4>2. y * Adjust \notin 0..Max256 - 1  BY <2>2, <4>1 DEF Numeric
      <4> QED  BY <4>2, <1>4, <1>5, MaxPositive
    <3>2. CASE p \notin Numeric(p)
      <4>1. p \notin 0..Max256 - 1  BY <3>2 DEF Numeric
      <4> QED  BY <4>1, <1>2, <1>4, <1>5, MaxPositive
    <3> QED  BY <3>1, <3>2
  <2> QED  BY <1>7, <2>1, <2>2 DEF BytesInv, WideExact, t, e
<1>8. (y * Adjust) % Adjust = 0  BY <1>2, RemaindersVanish
<1> QED  BY <1>4, <1>6, <1>7, <1>8 DEF Exact, t, e

LEMMA WideIsExact ==
  ASSUME Inv, BytesInv, impl \in {"go", "js", "rust"}
  PROVE  /\ pc = "returned" => result = Exact
         /\ pc = "fault" =>
              /\ impl # "js"
              /\ second < first \/ Spelt(target) * Nominal >= Max256
<1>1. Spelt(target) * Nominal \in Nat
  <2>1. Spelt(target) \in Nat /\ Nominal \in Nat
    BY TargetIsBytes, SpeltBySuffix, NominalTime, Bounds DEF Inv
  <2> QED  BY <2>1
<1>2. CASE impl = "js"
  <2>1. WideResults(Spelt(target), Nominal) = {Exact}
    BY <1>2 DEF WideResults, Exact
  <2>2. ~ Underflows  BY <1>2 DEF Underflows
  <2> QED  BY <1>2, <2>1, <2>2 DEF BytesInv, WideExact, ElapsedExact
<1>3. CASE impl \in {"go", "rust"}
  <2>1. WideResults(Spelt(target), Nominal)
          = {p \div Period : p \in Numeric(Spelt(target) * Nominal)}
    BY <1>3 DEF WideResults
  <2>2. pc = "returned" => result \in WideResults(Spelt(target), Nominal)
    BY <1>3 DEF BytesInv, WideExact, ElapsedExact
  <2>3. pc = "fault" => \/ second < first
                        \/ WideResults(Spelt(target), Nominal) = {}
    BY <1>3 DEF BytesInv, WideExact, Underflows
  <2>4. ASSUME WideResults(Spelt(target), Nominal) = {}
        PROVE  Spelt(target) * Nominal >= Max256
    <3>1. Spelt(target) * Nominal \notin 0..Max256 - 1
      BY <2>1, <2>4 DEF Numeric
    <3> QED  BY <3>1, <1>1, MaxPositive
  <2> QED  BY <1>3, <2>1, <2>2, <2>3, <2>4 DEF Numeric, Exact
<1> QED  BY <1>2, <1>3

(* retarget_algorithm of every port, for every target and every two        *)
(* timestamps: C's 32 bytes spell the target times the time elapsed, up to *)
(* the product's overflow, over the period; Go, JavaScript and Rust return *)
(* that quotient, Solidity one that is below it by less than five Adjust;  *)
(* and a port that faults could not have represented it.                   *)
THEOREM RetargetIsExact == Spec => []RetargetExact
<1>1. Init => Inv /\ BytesInv
  BY InitInv, InitBytes
<1>2. (Inv /\ BytesInv) /\ [Next]_vars => (Inv /\ BytesInv)'
  BY StepInv, StepBytes
<1>3. Inv /\ BytesInv => RetargetExact
  <2> SUFFICES ASSUME Inv, BytesInv PROVE RetargetExact
    OBVIOUS
  <2>1. impl \in {"c", "go", "js", "rust", "sol"}
    BY ImplAssumption DEF Inv, TypeOK
  <2>2. CASE impl = "c"
    BY <2>2, CIsExact DEF RetargetExact, BytesInv, CFaultless
  <2>3. CASE impl = "sol"
    BY <2>3, SolidityIsExact DEF RetargetExact
  <2>4. CASE impl \in {"go", "js", "rust"}
    BY <2>4, WideIsExact DEF RetargetExact
  <2> QED  BY <2>1, <2>2, <2>3, <2>4
<1> QED  BY <1>1, <1>2, <1>3, PTL DEF Spec
=============================================================================
