-------------------------- MODULE HeaderChainProofs --------------------------
(***************************************************************************)
(* The header-chain check is type correct and sound for every set of       *)
(* headers, every word size and every chain length.                        *)
(***************************************************************************)
EXTENDS HeaderChain, WellFoundedInduction, TLAPS

(***************************************************************************)
(* Arithmetic of words.                                                    *)
(***************************************************************************)
(* Induction on the natural numbers, for a set instead of a predicate: the *)
(* least number outside the set has a predecessor inside it.               *)
LEMMA SetInduction ==
  ASSUME NEW S, 0 \in S, \A n \in Nat : n \in S => n + 1 \in S
  PROVE  Nat \subseteq S
  <1> DEFINE T == Nat \ S
  <1>1. SUFFICES ASSUME T # {} PROVE FALSE
    OBVIOUS
  <1>2. PICK m \in T : \A y \in T : ~ (<<y, m>> \in OpToRel(<, Nat))
    BY <1>1, NatLessThanWellFounded, WFMin
  <1>3. \A y \in T : ~ (y < m)
    BY <1>2 DEF OpToRel
  <1>4. m \in Nat /\ m # 0 /\ m \notin S
    OBVIOUS
  <1>5. m - 1 \in Nat /\ m - 1 < m /\ (m - 1) + 1 = m
    BY <1>4
  <1>6. m - 1 \in S
    BY <1>3, <1>5
  <1>7. QED
    BY <1>4, <1>5, <1>6

LEMMA PowerType ==
  ASSUME NEW k \in 0..MaxExponent
  PROVE  Power[k] \in Nat /\ Power[k] > 0
  BY PowerAssumption

(* The table is one of powers: exponents add.                              *)
LEMMA PowersMultiply ==
  ASSUME NEW j \in Nat, NEW k \in Nat, j + k <= MaxExponent
  PROVE  Power[j + k] = Power[j] * Power[k]
  <1> DEFINE S == {n \in Nat : n + k <= MaxExponent =>
                                 Power[n + k] = Power[n] * Power[k]}
  <1>1. 0 \in S
    <2>1. 0 + k = k /\ Power[0] = 1
      BY PowerAssumption
    <2>2. k <= MaxExponent => Power[k] \in Nat
      BY PowerAssumption
    <2>3. QED
      BY <2>1, <2>2
  <1>2. \A n \in Nat : n \in S => n + 1 \in S
    <2> SUFFICES ASSUME NEW n \in Nat, n \in S, (n + 1) + k <= MaxExponent
                 PROVE  Power[(n + 1) + k] = Power[n + 1] * Power[k]
      OBVIOUS
    <2>1. Power[n + k] = Power[n] * Power[k]
      BY PowerAssumption
    <2>2. /\ n + 1 \in 1..MaxExponent /\ (n + 1) + k \in 1..MaxExponent
          /\ (n + 1) - 1 = n /\ ((n + 1) + k) - 1 = n + k
      BY PowerAssumption
    <2>3. Power[n + 1] = Base * Power[n] /\ Power[(n + 1) + k] = Base * Power[n + k]
      BY <2>2, PowerAssumption
    <2>4. n \in 0..MaxExponent /\ k \in 0..MaxExponent
      BY PowerAssumption
    <2>5. Base \in Nat /\ Power[n] \in Nat /\ Power[k] \in Nat
      BY <2>4, PowerType, SizeAssumption
    <2>6. \A a, b, c \in Nat : a * (b * c) = (a * b) * c
      OBVIOUS
    <2>7. QED
      BY <2>1, <2>3, <2>5, <2>6
  <1> HIDE DEF S
  <1>3. j \in S
    BY <1>1, <1>2, SetInduction
  <1>4. QED
    BY <1>3 DEF S

LEMMA PowersGrow ==
  ASSUME NEW j \in 0..MaxExponent, NEW k \in 0..MaxExponent, j <= k
  PROVE  Power[j] <= Power[k] /\ Power[k] = Power[k - j] * Power[j]
  <1>1. k - j \in Nat /\ j \in Nat /\ (k - j) + j = k /\ k <= MaxExponent
    BY PowerAssumption
  <1>2. Power[k] = Power[k - j] * Power[j]
    BY <1>1, PowersMultiply
  <1>3. Power[j] \in Nat /\ Power[k - j] \in Nat /\ Power[k - j] >= 1
    BY <1>1, PowerType, PowerAssumption
  <1>4. \A a, b \in Nat : a >= 1 => b <= a * b
    <2>1. \A a, b \in Nat : a >= 1 => (a - 1) * b \in Nat
      OBVIOUS
    <2>2. \A a, b \in Nat : a * b = (a - 1) * b + b
      OBVIOUS
    <2>3. QED
      BY <2>1, <2>2
  <1>5. QED
    BY <1>2, <1>3, <1>4

(* A quotient is the number that leaves a small enough rest. *)
LEMMA QuotientUnique ==
  ASSUME NEW x \in Nat, NEW b \in Nat, NEW q \in Nat, NEW r \in Nat,
         x = q * b + r, r < b
  PROVE  x \div b = q /\ x % b = r
  <1> DEFINE p == x \div b
             s == x % b
  <1>1. p \in Nat /\ s \in 0..b - 1 /\ x = p * b + s
    OBVIOUS
  <1> HIDE DEF p, s
  <1>2. (q - p) * b = s - r /\ q - p \in Int
    BY <1>1
  <1>3. q - p = 0
    <2>1. CASE q - p >= 1
      <3>1. (q - p) * b >= b
        BY <2>1, <1>2
      <3>2. QED
        BY <3>1, <1>1, <1>2
    <2>2. CASE q - p <= -1
      <3>1. (q - p) * b <= -b
        BY <2>2, <1>2
      <3>2. QED
        BY <3>1, <1>1, <1>2
    <2>3. QED
      BY <2>1, <2>2, <1>2
  <1>4. QED
    BY <1>1, <1>2, <1>3 DEF p, s

LEMMA Multiples ==
  ASSUME NEW a \in Nat, NEW b \in Nat, b > 0
  PROVE  a * b \in Nat /\ (a * b) % b = 0 /\ (a * b) \div b = a
  <1>1. a * b \in Nat /\ a * b = a * b + 0
    OBVIOUS
  <1>2. QED
    BY <1>1, QuotientUnique

(* A common factor cancels. *)
LEMMA QuotientCancels ==
  ASSUME NEW a \in Nat, NEW q \in Nat, NEW p \in Nat, q > 0, p > 0
  PROVE  (a * p) \div (q * p) = a \div q
  <1> DEFINE d == a \div q
             r == a % q
  <1>1. d \in Nat /\ r \in Nat /\ r <= q - 1 /\ a = d * q + r
    OBVIOUS
  <1> HIDE DEF d, r
  <1>2. a * p = d * (q * p) + r * p
    BY <1>1
  <1>3. a * p \in Nat /\ q * p \in Nat /\ r * p \in Nat
    BY <1>1
  <1>4. r * p < q * p
    <2>1. r * p <= (q - 1) * p
      BY <1>1
    <2>2. QED
      BY <1>1, <2>1
  <1>5. QED
    BY <1>1, <1>2, <1>3, <1>4, QuotientUnique DEF d

(* Indices into the table of powers. *)
LEMMA Exponents ==
  /\ {Low, Window, Digits, Low + Window, Low + Window - 2, Window - 2}
       \subseteq 0..MaxExponent
  /\ \A e \in 0..MaxExponent :
       /\ e >= 3 => e - 3 \in 0..MaxExponent
       /\ e < 3 => 3 - e \in 0..MaxExponent
       /\ e >= 3 /\ e \notin 3..Digits =>
            /\ Low + Window <= e - 3 /\ Digits - 2 <= e - 3
            /\ (e - 3) - (Digits - 2) \in 0..MaxExponent
       /\ e >= 3 /\ e - 3 >= Digits => (e - 3) - Digits \in 0..MaxExponent
       /\ e >= 3 /\ e - 3 < Digits =>
            /\ (e - 3) + 1 \in 1..MaxExponent /\ (e - 3) + 1 <= Digits
            /\ ((e - 3) + 1) - 1 = e - 3
  <1>1. /\ Base \in Nat /\ Digits \in Nat /\ Window \in Nat /\ Low \in Nat
        /\ MaxExponent \in Nat
        /\ Window >= 2 /\ Window + Low + 2 <= Digits /\ Digits <= MaxExponent
    BY SizeAssumption, PowerAssumption
  <1>2. /\ Low \in 0..MaxExponent /\ Window \in 0..MaxExponent
        /\ Digits \in 0..MaxExponent /\ Low + Window \in 0..MaxExponent
        /\ Low + Window - 2 \in 0..MaxExponent /\ Window - 2 \in 0..MaxExponent
    BY <1>1
  <1>3. ASSUME NEW e \in 0..MaxExponent
        PROVE  /\ e >= 3 => e - 3 \in 0..MaxExponent
               /\ e < 3 => 3 - e \in 0..MaxExponent
               /\ e >= 3 /\ e \notin 3..Digits =>
                    /\ Low + Window <= e - 3 /\ Digits - 2 <= e - 3
                    /\ (e - 3) - (Digits - 2) \in 0..MaxExponent
               /\ e >= 3 /\ e - 3 >= Digits =>
                    (e - 3) - Digits \in 0..MaxExponent
               /\ e >= 3 /\ e - 3 < Digits =>
                    /\ (e - 3) + 1 \in 1..MaxExponent /\ (e - 3) + 1 <= Digits
                    /\ ((e - 3) + 1) - 1 = e - 3
    BY <1>1
  <1>4. QED
    BY <1>2, <1>3

LEMMA RemainderScales ==
  ASSUME NEW a \in Nat, NEW b \in Nat, NEW u \in Nat, b > 0, u > 0
  PROVE  (a * u) % (b * u) = (a % b) * u
  <1> DEFINE d == a \div b
             r == a % b
  <1>1. d \in Nat /\ r \in Nat /\ r <= b - 1 /\ a = d * b + r
    OBVIOUS
  <1> HIDE DEF d, r
  <1>2. a * u = d * (b * u) + r * u
    BY <1>1
  <1>3. a * u \in Nat /\ b * u \in Nat /\ r * u \in Nat
    BY <1>1
  <1>4. r * u < b * u
    <2>1. r * u <= (b - 1) * u
      BY <1>1
    <2>2. QED
      BY <1>1, <2>1
  <1>5. QED
    BY <1>1, <1>2, <1>3, <1>4, QuotientUnique DEF r

(***************************************************************************)
(* Type correctness and soundness.                                         *)
(***************************************************************************)
(* What the loop carries from one iteration to the next: the digest of the *)
(* last header counted, and in the Rust crate, when it is called with      *)
(* constant_difficulty, the one target all counted headers state.          *)
Carried ==
  /\ i > 0 => digest = chain[i].digest
  /\ (impl = "rust" /\ ConstantDifficulty) =>
       \A k \in 1..i : RustTarget(chain[k]) = target

Finished == outcome = "accepted" => ~ragged /\ i = Len(chain)

IInv == TypeOK /\ Carried /\ PrefixSound /\ Finished

LEMMA WindowSizes == WordSize \in Nat \ {0} /\ WindowSize \in Nat \ {0}
                     /\ DiffOneTarget \in Nat
  <1>1. Digits \in 0..MaxExponent /\ Window \in 0..MaxExponent
        /\ Low + Window - 2 \in 0..MaxExponent
    BY SizeAssumption, PowerAssumption
  <1>2. /\ Power[Digits] \in Nat \ {0} /\ Power[Window] \in Nat \ {0}
        /\ Power[Low + Window - 2] \in Nat \ {0}
    BY <1>1, PowerAssumption
  <1>3. Base * Base - 1 \in Nat
    BY SizeAssumption
  <1>4. DiffOneTarget \in Nat
    <2>1. \A a, b \in Nat : a * b \in Nat
      OBVIOUS
    <2>2. QED
      BY <1>2, <1>3, <2>1 DEF DiffOneTarget
  <1>5. QED
    BY <1>2, <1>4 DEF WordSize, WindowSize

(* A target is a natural number, unless it faults. *)
LEMMA TargetTypes ==
  ASSUME NEW h \in Header
  PROVE  /\ CTarget(h) \in Nat
         /\ GoTarget(h) \in Nat \cup {Fault}
         /\ JsTarget(h) \in Nat \cup {Fault}
         /\ RustTarget(h) \in Nat \cup {Fault}
         /\ SolTarget(h) \in Nat \cup {Fault}
  <1>1. h.mantissa \in Nat /\ h.exponent \in 0..MaxExponent
    BY HeaderAssumption
  <1>2. h.exponent >= 3 => Power[h.exponent - 3] \in Nat \ {0}
    <2>1. \A e \in 0..MaxExponent : e >= 3 => e - 3 \in 0..MaxExponent
      BY PowerAssumption
    <2>2. \A k \in 0..MaxExponent : Power[k] \in Nat \ {0}
      BY PowerAssumption
    <2>3. QED
      BY <1>1, <2>1, <2>2
  <1>3. \A a, b \in Nat : a * b \in Nat
    OBVIOUS
  <1>4. \A a \in Nat : a % WordSize \in Nat
    BY WindowSizes
  <1>5. CTarget(h) \in Nat
    BY <1>1, <1>2, <1>3, <1>4, SizeAssumption DEF CInRange, CTarget
  <1>6. GoTarget(h) \in Nat \cup {Fault}
    BY <1>1, <1>2, <1>3 DEF GoTarget
  <1>7. JsTarget(h) \in Nat \cup {Fault}
    BY <1>1, <1>2, <1>3 DEF JsTarget
  <1>8. RustTarget(h) \in Nat \cup {Fault}
    BY <1>1, <1>2, <1>3 DEF RustTarget
  <1>9. SolTarget(h) \in Nat \cup {Fault}
    BY <1>1, <1>2, <1>3, <1>4 DEF SolTarget
  <1>10. QED
    BY <1>5, <1>6, <1>7, <1>8, <1>9

LEMMA DifficultyType ==
  ASSUME NEW t \in Nat
  PROVE  /\ t # 0 => Difficulty(t) \in Nat
         /\ CDifficulty(t) \in Nat
  <1>1. t # 0 => Difficulty(t) \in Nat
    BY WindowSizes DEF Difficulty
  <1>2. CDifficulty(t) \in Nat
    <2>1. /\ Power[Low] \in Nat \ {0} /\ Power[Window - 2] \in Nat \ {0}
          /\ Base * Base - 1 \in Nat
      BY SizeAssumption, Exponents, PowerType
    <2>2. (Base * Base - 1) * Power[Window - 2] \in Nat
      <3>1. \A a, b \in Nat : a * b \in Nat
        OBVIOUS
      <3>2. QED
        BY <2>1, <3>1
    <2>3. t \div Power[Low] \in Nat
      BY <2>1
    <2>4. (t \div Power[Low]) % WindowSize \in Nat
      BY <2>3, WindowSizes
    <2>5. QED
      BY <2>2, <2>4 DEF CDifficulty
  <1>3. QED
    BY <1>1, <1>2

(* A header that is counted follows the last one and has a digest within   *)
(* the target it is held to, which is a number.                            *)
LEMMA OkMeans ==
  ASSUME TypeOK, NEW h \in Header,
         Verdict(h) = "ok"
  PROVE  /\ Linked(h)
         /\ TargetUsed(h) \in Nat
         /\ h.digest <= TargetUsed(h)
         /\ impl = "rust" /\ ConstantDifficulty =>
              RustTarget(h) = TargetUsed(h)
         /\ impl # "c" => TargetUsed(h) # 0
  <1> USE TargetTypes, HeaderAssumption DEF TypeOK, Fault
  <1>0. h.digest \in Nat /\ impl \in {"c", "go", "js", "rust", "sol"}
    BY ChainAssumption
  <1>1. CASE impl = "c"
    BY <1>0, <1>1 DEF Verdict, CVerdict, TargetUsed, ValidateHeaderWork
  <1>2. CASE impl = "go"
    BY <1>0, <1>2 DEF Verdict, GoVerdict, TargetUsed, ValidateHeaderWork
  <1>3. CASE impl = "js"
    BY <1>0, <1>3 DEF Verdict, JsVerdict, TargetUsed, ValidateHeaderWork
  <1>4. CASE impl = "rust"
    BY <1>0, <1>4 DEF Verdict, RustVerdict, RustCurrentTarget, TargetUsed,
                      ValidateHeaderWork
  <1>5. CASE impl = "sol"
    BY <1>0, <1>5 DEF Verdict, SolVerdict, TargetUsed, Difficulty
  <1>6. QED
    BY <1>0, <1>1, <1>2, <1>3, <1>4, <1>5

(* The credit of a counted header keeps the total a natural number. *)
LEMMA AccumulatedType ==
  ASSUME TypeOK, NEW h \in Header,
         Verdict(h) = "ok"
  PROVE  Accumulated(h) \in Nat
  <1>1. TargetUsed(h) \in Nat /\ (impl # "c" => TargetUsed(h) # 0)
    BY OkMeans
  <1>2. total \in Nat
    BY DEF TypeOK
  <1>3. CASE impl = "c"
    <2>1. CDifficulty(CTarget(h)) \in Nat
      BY <1>1, <1>3, DifficultyType DEF TargetUsed
    <2>2. QED
      BY <1>2, <1>3, <2>1, WindowSizes DEF Accumulated
  <1>4. CASE impl = "sol"
    <2>1. Difficulty(SolTarget(h)) \in Nat
      BY <1>1, <1>4, DifficultyType DEF TargetUsed
    <2>2. QED
      BY <1>2, <1>4, <2>1, WindowSizes DEF Accumulated
  <1>5. CASE impl # "c" /\ impl # "sol"
    BY <1>1, <1>2, <1>5, DifficultyType DEF Accumulated
  <1>6. QED
    BY <1>3, <1>4, <1>5

LEMMA InitIInv == Init => IInv
  <1> SUFFICES ASSUME Init PROVE IInv
    OBVIOUS
  <1>1. chain \in Seq(Header) /\ impl \in Impls
    BY ChainAssumption DEF Init
  <1>2. QED
    BY <1>1 DEF Init, IInv, TypeOK, Carried, PrefixSound, PrefixLinked,
                PrefixWorked, Finished, Outcomes

LEMMA CountKeepsIInv ==
  ASSUME IInv, CountHeader
  PROVE  IInv'
  <1> DEFINE h == chain[i + 1]
  <1>1. /\ i \in 0..Len(chain) /\ i < Len(chain) /\ chain \in Seq(Header)
        /\ TypeOK /\ Carried /\ PrefixSound
    BY DEF IInv, CountHeader, Scanning, TypeOK
  <1>2. /\ i + 1 \in 1..Len(chain) /\ h \in Header
        /\ i' = i + 1 /\ i' \in 0..Len(chain)
    BY <1>1 DEF CountHeader
  <1>3. /\ Verdict(h) = "ok"
        /\ digest' = h.digest
        /\ target' = IF impl = "rust" THEN RustCurrentTarget(h) ELSE target
        /\ total' = Accumulated(h)
        /\ UNCHANGED <<impl, chain, ragged, outcome>>
        /\ outcome = "running"
    BY DEF CountHeader, Scanning
  <1>4. /\ Linked(h) /\ TargetUsed(h) \in Nat
        /\ h.digest <= TargetUsed(h)
        /\ impl = "rust" /\ ConstantDifficulty => RustTarget(h) = TargetUsed(h)
    BY <1>1, <1>2, <1>3, OkMeans
  <1>5. TypeOK'
    <2>1. total' \in Nat
      BY <1>1, <1>2, <1>3, AccumulatedType
    <2>2. digest' \in Nat
      BY <1>2, <1>3, HeaderAssumption
    <2>3. target' \in Nat
      BY <1>1, <1>3, <1>4 DEF TargetUsed, TypeOK
    <2>4. QED
      BY <1>1, <1>2, <1>3, <2>1, <2>2, <2>3 DEF TypeOK
  <1>6. Carried'
    <2>1. i' > 0 => digest' = chain'[i']
                            .digest
      BY <1>2, <1>3
    <2>2. ASSUME impl = "rust", ConstantDifficulty, NEW k \in 1..i'
          PROVE  RustTarget(chain[k]) = target'
      <3>1. target' = TargetUsed(h) /\ target' = RustTarget(h)
        BY <1>3, <1>4, <2>2 DEF TargetUsed
      <3>2. CASE k = i + 1
        BY <3>1, <3>2
      <3>3. CASE k \in 1..i
        <4>1. i # 0 /\ target' = target
          BY <1>1, <1>3, <2>2, <3>3 DEF RustCurrentTarget
        <4>2. QED
          BY <1>1, <2>2, <3>3, <4>1 DEF Carried
      <3>4. QED
        BY <1>1, <1>2, <3>2, <3>3
    <2>3. QED
      BY <1>3, <2>1, <2>2 DEF Carried
  <1>7. PrefixSound'
    <2>1. PrefixLinked'
      <3>1. ASSUME NEW k \in 1..i', k > 1
            PROVE  chain[k].parent = chain[k - 1].digest
        <4>1. CASE k \in 1..i
          BY <1>1, <3>1, <4>1 DEF PrefixSound, PrefixLinked
        <4>2. CASE k = i + 1
          <5>1. i # 0 /\ i > 0
            BY <1>1, <3>1, <4>2
          <5>2. h.parent = digest /\ digest = chain[i].digest
            BY <1>1, <1>4, <5>1 DEF Linked, Carried
          <5>3. QED
            BY <1>1, <4>2, <5>2
        <4>3. QED
          BY <1>1, <1>2, <4>1, <4>2
      <3>2. QED
        BY <1>3, <3>1 DEF PrefixLinked
    <2>2. ASSUME impl = "rust" => ConstantDifficulty
          PROVE  PrefixWorked'
      <3>1. OwnTarget(h) = TargetUsed(h)
        BY <1>1, <1>4, <2>2 DEF OwnTarget, TargetUsed
      <3>2. ASSUME NEW k \in 1..i'
            PROVE  chain[k].digest <= OwnTarget(chain[k])
        <4>1. CASE k \in 1..i
          BY <1>1, <2>2, <4>1 DEF PrefixSound, PrefixWorked
        <4>2. CASE k = i + 1
          BY <1>4, <3>1, <4>2
        <4>3. QED
          BY <1>1, <1>2, <4>1, <4>2
      <3>3. QED
        BY <1>3, <3>2 DEF PrefixWorked, OwnTarget
    <2>3. QED
      BY <1>3, <2>1, <2>2 DEF PrefixSound
  <1>8. Finished'
    BY <1>3 DEF Finished
  <1>9. QED
    BY <1>5, <1>6, <1>7, <1>8 DEF IInv

(* Every other step only sets the outcome. *)
LEMMA StopKeepsIInv ==
  ASSUME IInv, NEW how \in Outcomes, Stop(how),
         how = "accepted" => ~ragged /\ i = Len(chain)
  PROVE  IInv'
  BY DEF IInv, Stop, TypeOK, Carried, PrefixSound, PrefixLinked, PrefixWorked,
         OwnTarget, Finished

LEMMA VerdictIsOutcome ==
  ASSUME TypeOK, NEW h
  PROVE  Verdict(h) # "ok" => Verdict(h) \in Outcomes \ {"accepted"}
  <1>1. impl \in {"c", "go", "js", "rust", "sol"}
    BY ChainAssumption DEF TypeOK
  <1>2. QED
    BY <1>1 DEF Verdict, CVerdict, GoVerdict, JsVerdict, RustVerdict,
                SolVerdict, Outcomes

LEMMA NextIInv == IInv /\ [Next]_vars => IInv'
  <1> SUFFICES ASSUME IInv, [Next]_vars PROVE IInv'
    OBVIOUS
  <1>1. CASE CountHeader
    BY <1>1, CountKeepsIInv DEF CountHeader
  <1>2. CASE BadLength
    BY <1>2, StopKeepsIInv DEF BadLength, Outcomes, Stop
  <1>3. CASE RefuseHeader
    <2>1. Verdict(chain[i + 1]) \in Outcomes \ {"accepted"}
      BY <1>3, VerdictIsOutcome DEF RefuseHeader, IInv
    <2>2. Stop(Verdict(chain[i + 1]))
      BY <1>3 DEF RefuseHeader
    <2>3. QED
      BY <2>1, <2>2, StopKeepsIInv DEF Stop
  <1>4. CASE ReturnTotal
    <2>1. Stop("accepted") /\ "accepted" \in Outcomes
      BY <1>4 DEF ReturnTotal, Outcomes
    <2>2. ~ragged /\ i = Len(chain)
      BY <1>4 DEF ReturnTotal
    <2>3. QED
      BY <2>1, <2>2, StopKeepsIInv DEF Stop
  <1>5. CASE UNCHANGED vars
    BY <1>5 DEF vars, IInv, TypeOK, Carried, PrefixSound, PrefixLinked,
                PrefixWorked, OwnTarget, Finished
  <1>6. CASE OverwriteStack
    BY <1>6, StopKeepsIInv DEF OverwriteStack, Outcomes, Stop
  <1>7. QED
    BY <1>1, <1>2, <1>3, <1>4, <1>5, <1>6 DEF Next, Done

(* The loop-carried invariant holds in every run.                          *)
THEOREM Invariance == Spec => []IInv
  BY InitIInv, NextIInv, PTL DEF Spec

(* The locals of the five functions keep their types: no total, target or  *)
(* loop counter leaves its range.                                          *)
THEOREM TypeCorrect == Spec => []TypeOK
  <1>1. IInv => TypeOK
    BY DEF IInv
  <1>2. QED
    BY <1>1, Invariance, PTL

(* At every iteration the headers already counted form a chain in which    *)
(* each meets the target it states.                                        *)
THEOREM PrefixIsSound == Spec => []PrefixSound
  <1>1. IInv => PrefixSound
    BY DEF IInv
  <1>2. QED
    BY <1>1, Invariance, PTL

(* Whatever headers are submitted, a chain that is accepted is linked and  *)
(* worked from its first header to its last.                               *)
THEOREM AcceptedIsSound == Spec => []AcceptedSound
  <1>1. IInv => AcceptedSound
    BY DEF IInv, Finished, PrefixSound, PrefixLinked, PrefixWorked,
           AcceptedSound
  <1>2. QED
    BY <1>1, Invariance, PTL

(***************************************************************************)
(* Headers that C would write beside its word.                             *)
(***************************************************************************)
(* Below the window the word ends two digits late enough for what is left  *)
(* of a misplaced mantissa not to reach it.                                *)
LEMMA MisplacedIsWeightless ==
  ASSUME NEW h \in Header, ~CInRange(h)
  PROVE  CDifficulty(CTarget(h)) = 0
  <1>0. h.mantissa \in Nat /\ h.exponent \in 0..MaxExponent
    BY HeaderAssumption
  <1>1. WindowSize \in Nat /\ WindowSize > 0 /\ Power[Low] \in Nat /\ Power[Low] > 0
    BY PowerType, Exponents DEF WindowSize
  <1>2. CASE h.exponent < 3
    <2>1. CTarget(h) = 0
      BY <1>2 DEF CTarget, CInRange
    <2>2. 0 \div Power[Low] = 0 /\ 0 % WindowSize = 0
      BY <1>1
    <2>3. QED
      BY <2>1, <2>2 DEF CDifficulty
  <1>3. CASE h.exponent >= 3
    <2> DEFINE top == Digits - 2
               u == Power[top]
               a == h.mantissa * Power[(h.exponent - 3) - top]
               b == Power[2]
               v == Power[(top - Low) - Window]
    <2>1. /\ h.exponent - 3 \in 0..MaxExponent /\ top <= h.exponent - 3
          /\ top \in 0..MaxExponent
          /\ (h.exponent - 3) - top \in 0..MaxExponent
      <3>1. top \in 0..MaxExponent
        BY SizeAssumption, PowerAssumption
      <3>2. QED
        BY <1>0, <1>3, <3>1, Exponents DEF CInRange
    <2>2. Power[h.exponent - 3] = Power[(h.exponent - 3) - top] * u
      BY <2>1, PowersGrow
    <2>3. /\ 2 \in 0..MaxExponent /\ Digits \in 0..MaxExponent
          /\ Digits - top = 2 /\ top <= Digits
      BY SizeAssumption, PowerAssumption
    <2>4. WordSize = b * u
      BY <2>1, <2>3, PowersGrow DEF WordSize
    <2>5. a \in Nat /\ u \in Nat /\ u > 0 /\ b \in Nat /\ b > 0
      BY <1>0, <2>1, <2>3, PowerType
    <2>6. h.mantissa * Power[h.exponent - 3] = a * u
      BY <1>0, <2>1, <2>2, PowerType
    <2>7. CTarget(h) = (a % b) * u
      <3>1. CTarget(h) = (h.mantissa * Power[h.exponent - 3]) % WordSize
        BY <1>0, <1>3 DEF CTarget
      <3> HIDE DEF a, b, u
      <3>2. QED
        BY <2>4, <2>5, <2>6, <3>1, RemainderScales
    <2>8. /\ top - Low \in 0..MaxExponent /\ Low \in 0..MaxExponent
          /\ Low <= top /\ Window \in 0..MaxExponent /\ Window <= top - Low
          /\ (top - Low) - Window \in 0..MaxExponent
      BY SizeAssumption, PowerAssumption
    <2>9. u = Power[top - Low] * Power[Low] /\ Power[top - Low] = v * WindowSize
      BY <2>1, <2>8, PowersGrow DEF WindowSize
    <2>10. v \in Nat /\ a % b \in Nat /\ Power[top - Low] \in Nat
      BY <2>5, <2>8, PowerType
    <2> HIDE DEF a, b, u, v, top
    <2>11. CTarget(h) = (((a % b) * v) * WindowSize) * Power[Low]
      BY <1>1, <2>7, <2>9, <2>10
    <2>12. (a % b) * v \in Nat /\ ((a % b) * v) * WindowSize \in Nat
      BY <1>1, <2>10
    <2>13. CTarget(h) \div Power[Low] = ((a % b) * v) * WindowSize
      BY <1>1, <2>11, <2>12, Multiples
    <2>14. (CTarget(h) \div Power[Low]) % WindowSize = 0
      BY <1>1, <2>12, <2>13, Multiples
    <2>15. QED
      BY <2>14 DEF CDifficulty
  <1>4. QED
    BY <1>0, <1>2, <1>3

(* The invariant is inductive together with IInv: a header with no place   *)
(* in the word weighs nothing, and CVerdict refuses what weighs nothing.   *)
THEOREM MisplacedIsNeverCounted == Spec => []MisplacedNotCounted
  <1>1. Init => MisplacedNotCounted
    BY DEF Init, MisplacedNotCounted
  <1>2. IInv /\ MisplacedNotCounted /\ [Next]_vars => MisplacedNotCounted'
    <2> SUFFICES ASSUME IInv, MisplacedNotCounted, [Next]_vars
                 PROVE  MisplacedNotCounted'
      OBVIOUS
    <2>1. CASE CountHeader
      <3>1. /\ i \in 0..Len(chain) /\ i < Len(chain) /\ chain \in Seq(Header)
            /\ i' = i + 1 /\ UNCHANGED <<impl, chain>>
            /\ Verdict(chain[i + 1]) = "ok"
        BY <2>1 DEF IInv, TypeOK, CountHeader, Scanning
      <3>2. chain[i + 1] \in Header
        BY <3>1
      <3>3. impl = "c" => CInRange(chain[i + 1])
        BY <3>1, <3>2, MisplacedIsWeightless DEF Verdict, CVerdict
      <3>4. QED
        BY <3>1, <3>3 DEF MisplacedNotCounted
    <2>2. CASE UNCHANGED <<impl, chain, i>>
      BY <2>2 DEF MisplacedNotCounted
    <2>3. QED
      BY <2>1, <2>2 DEF Next, BadLength, RefuseHeader, OverwriteStack,
                        ReturnTotal, Stop, Done, vars
  <1>3. QED
    BY <1>1, <1>2, Invariance, PTL DEF Spec

(***************************************************************************)
(* The refinement of HeaderChainSpec.                                      *)
(***************************************************************************)
LEMMA DiffOneBelowWindowEnd ==
  /\ DiffOneTarget \in Nat
  /\ DiffOneTarget < Power[Low + Window]
  /\ DiffOneTarget = ((Base * Base - 1) * Power[Window - 2]) * Power[Low]
  /\ (Base * Base - 1) * Power[Window - 2] \in Nat
  <1>1. /\ Low + Window - 2 \in 0..MaxExponent /\ Low + Window \in 0..MaxExponent
        /\ Low \in 0..MaxExponent /\ Window - 2 \in 0..MaxExponent
        /\ 0 \in 0..MaxExponent
        /\ 1 \in 1..MaxExponent /\ 2 \in 1..MaxExponent
        /\ Low + Window - 2 <= Low + Window /\ Low <= Low + Window - 2
        /\ (Low + Window) - (Low + Window - 2) = 2
        /\ (Low + Window - 2) - Low = Window - 2
    BY SizeAssumption, PowerAssumption
  <1>2. Power[2] = Base * Base
    <2>1. Power[1] = Base * Power[0] /\ Power[2] = Base * Power[1]
      BY <1>1, PowerAssumption
    <2>2. QED
      BY <2>1, PowerAssumption, SizeAssumption
  <1>3. /\ Power[Low + Window] = (Base * Base) * Power[Low + Window - 2]
        /\ Power[Low + Window - 2] = Power[Window - 2] * Power[Low]
    BY <1>1, <1>2, PowersGrow
  <1>4. /\ Power[Low + Window - 2] \in Nat /\ Power[Low + Window - 2] > 0
        /\ Power[Window - 2] \in Nat /\ Power[Low] \in Nat
    BY <1>1, PowerType
  <1>5. Base * Base \in Nat /\ Base * Base - 1 \in Nat
    BY SizeAssumption
  <1>6. \A a, p \in Nat : p > 0 => (a - 1) * p = a * p - p
    OBVIOUS
  <1>7. DiffOneTarget = (Base * Base) * Power[Low + Window - 2] - Power[Low + Window - 2]
    BY <1>4, <1>5, <1>6 DEF DiffOneTarget
  <1>8. /\ DiffOneTarget \in Nat
        /\ (Base * Base - 1) * Power[Window - 2] \in Nat
    BY <1>4, <1>5 DEF DiffOneTarget
  <1>9. (Base * Base) * Power[Low + Window - 2] \in Nat
    BY <1>4, <1>5
  <1>10. DiffOneTarget < Power[Low + Window]
    BY <1>3, <1>4, <1>7, <1>9
  <1>11. DiffOneTarget = ((Base * Base - 1) * Power[Window - 2]) * Power[Low]
    <2>1. \A a, b, c \in Nat : a * (b * c) = (a * b) * c
      OBVIOUS
    <2>2. QED
      BY <1>3, <1>4, <1>5, <2>1 DEF DiffOneTarget
  <1>12. QED
    BY <1>8, <1>10, <1>11

Nominal(h) == Promise!NominalTarget(h)

LEMMA NominalType ==
  ASSUME NEW h \in Header
  PROVE  /\ Nominal(h) \in Nat
         /\ h.exponent >= 3 =>
              /\ Nominal(h) = h.mantissa * Power[h.exponent - 3]
              /\ Power[h.exponent - 3] \in Nat /\ Power[h.exponent - 3] > 0
  <1>0. h.mantissa \in Nat /\ h.exponent \in 0..MaxExponent
    BY HeaderAssumption
  <1>1. CASE h.exponent >= 3
    <2>1. h.exponent - 3 \in 0..MaxExponent
      BY <1>0, <1>1, Exponents
    <2>2. QED
      BY <1>0, <1>1, <2>1, PowerType DEF Nominal, Promise!NominalTarget
  <1>2. CASE h.exponent < 3
    <2>1. 3 - h.exponent \in 0..MaxExponent
      BY <1>0, <1>2, Exponents
    <2>2. QED
      BY <1>0, <1>2, <2>1, PowerType DEF Nominal, Promise!NominalTarget
  <1>3. QED
    BY <1>0, <1>1, <1>2

(* What is written beside the word, or across its end, is no target of a   *)
(* header that must count.                                                 *)
LEMMA MisplacedIsNoCause ==
  ASSUME NEW h \in Header, ~CInRange(h), h.exponent >= 3, Nominal(h) > 0
  PROVE  Nominal(h) > DiffOneTarget
  <1>0. h.mantissa \in Nat /\ h.exponent \in 0..MaxExponent
    BY HeaderAssumption
  <1>1. /\ Low + Window \in 0..MaxExponent /\ h.exponent - 3 \in 0..MaxExponent
        /\ Low + Window <= h.exponent - 3
    BY <1>0, Exponents DEF CInRange
  <1>2. /\ Power[Low + Window] <= Power[h.exponent - 3]
        /\ Power[Low + Window] \in Nat /\ Power[h.exponent - 3] \in Nat
    BY <1>1, PowersGrow, PowerType
  <1>3. Nominal(h) = h.mantissa * Power[h.exponent - 3]
    BY NominalType
  <1>4. h.mantissa >= 1
    BY <1>0, <1>2, <1>3
  <1>5. h.mantissa * Power[h.exponent - 3] >= Power[h.exponent - 3]
    <2>1. (h.mantissa - 1) * Power[h.exponent - 3] \in Nat
      BY <1>0, <1>2, <1>4
    <2>2. h.mantissa * Power[h.exponent - 3]
            = (h.mantissa - 1) * Power[h.exponent - 3] + Power[h.exponent - 3]
      BY <1>0, <1>2
    <2>3. QED
      BY <1>2, <2>1, <2>2
  <1>6. QED
    BY <1>2, <1>3, <1>5, DiffOneBelowWindowEnd, NominalType

(* In its window C computes what the promise means. *)
LEMMA CWindowIsExact ==
  ASSUME NEW h \in Header, CInRange(h), Exact("c", h)
  PROVE  /\ CTarget(h) = Nominal(h)
         /\ CDifficulty(CTarget(h)) =
              IF Nominal(h) = 0 THEN 0 ELSE Difficulty(Nominal(h))
  <1>0. h.exponent >= 3
    BY SizeAssumption, HeaderAssumption DEF CInRange
  <1>1. CTarget(h) = Nominal(h) /\ Nominal(h) \in Nat
    BY <1>0, NominalType DEF CTarget
  <1>2. Nominal(h) < Power[Low + Window] /\ Nominal(h) % Power[Low] = 0
    BY <1>0, NominalType DEF Exact
  <1>3. /\ Low \in 0..MaxExponent /\ Low + Window \in 0..MaxExponent
        /\ Window \in 0..MaxExponent /\ Low <= Low + Window
        /\ (Low + Window) - Low = Window
    BY SizeAssumption, PowerAssumption
  <1>4. /\ Power[Low + Window] = WindowSize * Power[Low]
        /\ WindowSize \in Nat /\ WindowSize > 0
        /\ Power[Low] \in Nat /\ Power[Low] > 0
    BY <1>3, PowersGrow, PowerType DEF WindowSize
  <1> DEFINE q == Nominal(h) \div Power[Low]
  <1>5. q \in Nat /\ Nominal(h) = q * Power[Low]
    BY <1>1, <1>2, <1>4
  <1> HIDE DEF q
  <1>6. q < WindowSize
    <2>1. CASE q >= WindowSize
      <3>1. q * Power[Low] >= WindowSize * Power[Low]
        BY <1>4, <1>5, <2>1
      <3>2. WindowSize * Power[Low] \in Nat
        BY <1>4
      <3>3. QED
        BY <1>1, <1>2, <1>4, <1>5, <3>1, <3>2
    <2>2. QED
      BY <1>4, <1>5, <2>1
  <1>7. (CTarget(h) \div Power[Low]) % WindowSize = q
    <2>1. CTarget(h) \div Power[Low] = q
      BY <1>1 DEF q
    <2>2. q % WindowSize = q
      BY <1>4, <1>5, <1>6
    <2>3. QED
      BY <2>1, <2>2
  <1>8. Nominal(h) = 0 <=> q = 0
    BY <1>4, <1>5
  <1>9. CASE q = 0
    BY <1>1, <1>7, <1>8, <1>9 DEF CDifficulty
  <1>10. CASE q # 0
    <2>1. CDifficulty(CTarget(h)) = ((Base * Base - 1) * Power[Window - 2]) \div q
      BY <1>7, <1>10 DEF CDifficulty
    <2>2. Difficulty(Nominal(h)) = DiffOneTarget \div (q * Power[Low])
      BY <1>5, <1>8, <1>10 DEF Difficulty
    <2>3. q > 0
      BY <1>5, <1>10
    <2>4. Difficulty(Nominal(h)) = ((Base * Base - 1) * Power[Window - 2]) \div q
      BY <1>4, <1>5, <2>2, <2>3, DiffOneBelowWindowEnd, QuotientCancels
    <2>5. QED
      BY <1>1, <1>8, <1>10, <2>1, <2>4
  <1>11. QED
    BY <1>9, <1>10

(* The work counted so far is no more than that of i headers as heavy as   *)
(* the heaviest of the chain.                                              *)
WorkBounded ==
  \A most \in Nat :
    (\A k \in DOMAIN chain : Difficulty(Nominal(chain[k])) <= most) =>
      total <= i * most

RInv == IInv /\ chain \in Chains[impl] /\ WorkBounded

(* The ports agree on the targets that fit a word. *)
LEMMA TargetsAgree ==
  ASSUME NEW h \in Header, h.exponent >= 3, Nominal(h) > 0,
         Nominal(h) < WordSize
  PROVE  /\ GoTarget(h) = Nominal(h) /\ JsTarget(h) = Nominal(h)
         /\ RustTarget(h) = Nominal(h) /\ SolTarget(h) = Nominal(h)
  <1> DEFINE p == Power[h.exponent - 3]
  <1>1. /\ h.mantissa \in Nat /\ p \in Nat /\ p > 0
        /\ Nominal(h) = h.mantissa * p
    BY NominalType, HeaderAssumption
  <1>2. WordSize \in Nat /\ WordSize > 0
    BY WindowSizes
  <1>3. p < WordSize
    <2>1. h.mantissa >= 1
      BY <1>1
    <2>2. (h.mantissa - 1) * p \in Nat /\ h.mantissa * p = (h.mantissa - 1) * p + p
      BY <1>1, <2>1
    <2>3. QED
      BY <1>1, <1>2, <2>2
  <1>4. h.exponent = 3 => p = 1
    BY PowerAssumption
  <1>5. p % WordSize = p
    BY <1>1, <1>2, <1>3
  <1>6. ~(h.exponent < 3) /\ (h.exponent <= 3 => h.exponent = 3)
        /\ ~(p >= WordSize) /\ ~(h.mantissa * p >= WordSize)
    BY <1>1, <1>2, <1>3, HeaderAssumption
  <1>7. GoTarget(h) = h.mantissa * p /\ JsTarget(h) = h.mantissa * p
    BY <1>6 DEF GoTarget, JsTarget
  <1>8. RustTarget(h) = h.mantissa * p
    BY <1>4, <1>6 DEF RustTarget
  <1>9. SolTarget(h) = h.mantissa * p
    BY <1>5, <1>6 DEF SolTarget
  <1>10. QED
    BY <1>1, <1>7, <1>8, <1>9

(* And where a port has a target that is not 0, it is the one that is      *)
(* meant.                                                                  *)
LEMMA TargetsAreNominal ==
  ASSUME NEW h \in Header
  PROVE  /\ h.exponent >= 3 /\ GoTarget(h) # Fault => GoTarget(h) = Nominal(h)
         /\ JsTarget(h) # Fault => JsTarget(h) = Nominal(h)
         /\ h.exponent >= 3 /\ RustTarget(h) # Fault => RustTarget(h) = Nominal(h)
         /\ SolTarget(h) \notin {Fault, 0} => SolTarget(h) = Nominal(h)
  <1> DEFINE p == Power[h.exponent - 3]
  <1>0. /\ h.mantissa \in Nat /\ h.exponent \in 0..MaxExponent
        /\ h.exponent >= 3 => /\ p \in Nat /\ p > 0
                              /\ Nominal(h) = h.mantissa * p
    BY NominalType, HeaderAssumption
  <1>1. h.exponent \in Nat
    BY <1>0
  <1>2. h.exponent >= 3 /\ GoTarget(h) # Fault => GoTarget(h) = Nominal(h)
    BY <1>0, <1>1 DEF GoTarget
  <1>3. JsTarget(h) # Fault => JsTarget(h) = Nominal(h)
    BY <1>0, <1>1 DEF JsTarget
  <1>4. h.exponent >= 3 /\ RustTarget(h) # Fault => RustTarget(h) = Nominal(h)
    <2>1. h.exponent = 3 => p = 1
      BY PowerAssumption
    <2>2. QED
      BY <1>0, <1>1, <2>1 DEF RustTarget
  <1>5. ASSUME SolTarget(h) \notin {Fault, 0}
        PROVE  SolTarget(h) = Nominal(h)
    <2>1. h.exponent >= 3 /\ SolTarget(h) = h.mantissa * (p % WordSize)
      BY <1>1, <1>5 DEF SolTarget
    <2>2. CASE h.exponent - 3 >= Digits
      <3>1. /\ h.exponent - 3 \in 0..MaxExponent /\ Digits \in 0..MaxExponent
            /\ (h.exponent - 3) - Digits \in 0..MaxExponent
        BY <1>0, <2>1, <2>2, Exponents
      <3>2. p = Power[(h.exponent - 3) - Digits] * WordSize
        BY <2>2, <3>1, PowersGrow DEF WordSize
      <3>3. p % WordSize = 0
        BY <3>1, <3>2, Multiples, PowerType DEF WordSize
      <3>4. QED
        BY <1>0, <1>5, <2>1, <3>3
    <2>3. CASE h.exponent - 3 < Digits
      <3>1. /\ h.exponent - 3 \in 0..MaxExponent /\ Digits \in 0..MaxExponent
            /\ (h.exponent - 3) + 1 \in 1..MaxExponent
            /\ (h.exponent - 3) + 1 <= Digits
            /\ ((h.exponent - 3) + 1) - 1 = h.exponent - 3
        BY <1>0, <2>1, <2>3, Exponents
      <3>2. Power[(h.exponent - 3) + 1] = Base * p
        BY <3>1, PowerAssumption
      <3>3. Base * p <= WordSize
        <4>1. (h.exponent - 3) + 1 \in 0..MaxExponent
          BY <3>1, PowerAssumption
        <4>2. QED
          BY <3>1, <3>2, <4>1, PowersGrow DEF WordSize
      <3>4. p < Base * p /\ Base * p \in Nat
        <4>1. Base >= 2 /\ Base \in Nat
          BY SizeAssumption
        <4>2. (Base - 1) * p >= 1 * p /\ Base * p = (Base - 1) * p + p
          BY <1>0, <2>1, <4>1
        <4>3. QED
          BY <1>0, <2>1, <4>1, <4>2
      <3>5. p % WordSize = p
        BY <1>0, <2>1, <3>3, <3>4, WindowSizes
      <3>6. QED
        BY <1>0, <2>1, <3>5
    <2>4. QED
      BY <1>1, <2>1, <2>2, <2>3, SizeAssumption
  <1>6. QED
    BY <1>2, <1>3, <1>4, <1>5

(* A header is counted under the target it states, and credited the        *)
(* difficulty of that target.                                              *)
LEMMA OkCredits ==
  ASSUME TypeOK, NEW h \in Header, Verdict(h) = "ok", Exact(impl, h),
         impl = "rust" => ConstantDifficulty
  PROVE  /\ TargetUsed(h) = Nominal(h) /\ Nominal(h) \in Nat /\ Nominal(h) > 0
         /\ Difficulty(Nominal(h)) \in Nat
         /\ impl = "c" => CDifficulty(CTarget(h)) = Difficulty(Nominal(h))
  <1>0. impl \in {"c", "go", "js", "rust", "sol"}
    BY ChainAssumption DEF TypeOK
  <1>1. /\ TargetUsed(h) \in Nat /\ Nominal(h) \in Nat
        /\ impl # "c" => TargetUsed(h) # 0
        /\ impl = "rust" => TargetUsed(h) = RustTarget(h)
    BY OkMeans, NominalType
  <1>2. TargetUsed(h) # Fault
    BY <1>1 DEF Fault
  <1>3. CASE impl = "c"
    <2>1. CDifficulty(CTarget(h)) # 0
      BY <1>3 DEF Verdict, CVerdict
    <2>2. CInRange(h)
      BY <2>1, MisplacedIsWeightless
    <2>3. /\ CTarget(h) = Nominal(h) /\ Nominal(h) # 0
          /\ CDifficulty(CTarget(h)) = Difficulty(Nominal(h))
      BY <1>3, <2>1, <2>2, CWindowIsExact
    <2>4. QED
      BY <1>1, <1>3, <2>3, DifficultyType DEF TargetUsed
  <1>4. CASE impl # "c"
    <2>1. TargetUsed(h) = Nominal(h)
      BY <1>0, <1>1, <1>2, <1>4, TargetsAreNominal DEF TargetUsed, Exact
    <2>2. QED
      BY <1>1, <1>4, <2>1, DifficultyType
  <1>5. QED
    BY <1>3, <1>4

(* The total stays below the width of its integer. *)
LEMMA TotalFits ==
  ASSUME RInv, Comparable, impl # "js", i < Len(chain),
         Difficulty(Nominal(chain[i + 1])) \in Nat
  PROVE  total + Difficulty(Nominal(chain[i + 1]))
           < (IF impl = "c" THEN WindowSize ELSE WordSize)
  <1> DEFINE size == IF impl = "c" THEN WindowSize ELSE WordSize
             d == Difficulty(Nominal(chain[i + 1]))
  <1>1. /\ impl \in Impls /\ chain \in Chains[impl] /\ chain \in Seq(Header)
        /\ i \in Nat /\ i < Len(chain) /\ Len(chain) \in Nat /\ total \in Nat
        /\ i + 1 \in DOMAIN chain
    BY DEF RInv, IInv, TypeOK
  <1>2. WorkFits(impl, chain)
    BY <1>1 DEF Comparable
  <1>3. size \in Nat /\ size > 0
    BY WindowSizes
  <1> HIDE DEF size
  <1>4. PICK most \in 0..size - 1 :
          /\ Len(chain) * most < size
          /\ \A k \in DOMAIN chain : Difficulty(Nominal(chain[k])) <= most
    BY <1>2 DEF WorkFits, Nominal, size
  <1>5. most \in Nat
    BY <1>3, <1>4
  <1>6. total <= i * most /\ d <= most
    BY <1>1, <1>4, <1>5 DEF RInv, WorkBounded
  <1> HIDE DEF d
  <1>7. (i + 1) * most <= Len(chain) * most
    <2>1. (Len(chain) - (i + 1)) * most \in Nat
      BY <1>1, <1>5
    <2>2. Len(chain) * most = (Len(chain) - (i + 1)) * most + (i + 1) * most
      BY <1>1, <1>5
    <2>3. (i + 1) * most \in Nat /\ Len(chain) * most \in Nat
      BY <1>1, <1>5
    <2>4. QED
      BY <2>1, <2>2, <2>3
  <1>8. (i + 1) * most = i * most + most /\ i * most \in Nat
        /\ Len(chain) * most \in Nat
    BY <1>1, <1>5
  <1>9. total + d < size
    BY <1>1, <1>3, <1>4, <1>5, <1>6, <1>7, <1>8 DEF d
  <1>10. QED
    BY <1>9 DEF size, d

LEMMA DifficultyPositive ==
  ASSUME NEW t \in Nat, t > 0, t <= DiffOneTarget
  PROVE  Difficulty(t) \in Nat /\ Difficulty(t) > 0
  <1>1. DiffOneTarget \in Nat /\ Difficulty(t) = DiffOneTarget \div t
    BY WindowSizes DEF Difficulty
  <1>2. DiffOneTarget \div t > 0
    <2> DEFINE q == DiffOneTarget \div t
               r == DiffOneTarget % t
    <2>1. q \in Nat /\ r \in 0..t - 1 /\ DiffOneTarget = q * t + r
      BY <1>1
    <2> HIDE DEF q, r
    <2>2. q # 0
      BY <2>1
    <2>3. QED
      BY <2>1, <2>2 DEF q
  <1>3. QED
    BY <1>1, <1>2, DifficultyType

(* A header is not refused, whatever the port, if it must count: none of   *)
(* the checks of the loop, nor its arithmetic, is a cause of its own.      *)
LEMMA RefusalHasCause ==
  ASSUME RInv, Comparable, Scanning, Promise!MustCount(i + 1)
  PROVE  Verdict(chain[i + 1]) = "ok" /\ (impl = "c" => CInRange(chain[i + 1]))
  <1> DEFINE h == chain[i + 1]
             t == Nominal(h)
  <1>1. /\ impl \in {"c", "go", "js", "rust", "sol"} /\ impl \in Impls
        /\ chain \in Seq(Header) /\ chain \in Chains[impl]
        /\ i \in Nat /\ i < Len(chain) /\ i + 1 \in DOMAIN chain /\ h \in Header
        /\ total \in Nat /\ TypeOK /\ Carried
    BY ChainAssumption DEF RInv, IInv, TypeOK, Scanning
  <1>2. /\ h.digest \in Nat /\ h.digest > 0 /\ h.digest < t
        /\ t \in Nat /\ t > 0 /\ t < WordSize /\ t <= DiffOneTarget
        /\ h.exponent >= 3
    <2>1. /\ 0 < h.digest /\ h.digest < t /\ t < WordSize
          /\ DiffOneTarget >= t /\ h.exponent >= 3
      BY DEF Promise!MustCount, Nominal, Promise!WordSize, WordSize,
             Promise!DiffOneTarget, DiffOneTarget
    <2>2. /\ h.digest \in Nat /\ t \in Nat /\ h.exponent \in 0..MaxExponent
          /\ DiffOneTarget \in Nat
      BY <1>1, NominalType, HeaderAssumption, WindowSizes
    <2> HIDE DEF h, t
    <2>3. QED
      BY <2>1, <2>2
  <1>3. Linked(h)
    <2>1. CASE i = 0
      BY <2>1 DEF Linked
    <2>2. CASE i # 0
      <3>1. i + 1 > 1 /\ (i + 1) - 1 = i /\ i > 0
        BY <1>1, <2>2
      <3>2. h.parent = chain[i].digest
        BY <3>1 DEF Promise!MustCount, Promise!Follows
      <3>3. QED
        BY <1>1, <3>1, <3>2 DEF Linked, Carried
    <2>3. QED
      BY <2>1, <2>2
  <1>4. Difficulty(t) \in Nat /\ Difficulty(t) > 0
    BY <1>2, DifficultyPositive
  <1>5. ValidateHeaderWork(h, t)
    BY <1>2 DEF ValidateHeaderWork
  <1>6. /\ GoTarget(h) = t /\ JsTarget(h) = t
        /\ RustTarget(h) = t /\ SolTarget(h) = t
        /\ t # Fault
    BY <1>1, <1>2, TargetsAgree DEF Fault
  <1>7. impl # "js" =>
          total + Difficulty(t) < (IF impl = "c" THEN WindowSize ELSE WordSize)
    BY <1>1, <1>4, TotalFits
  <1>8. total + Difficulty(t) \in Nat /\ WordSize \in Nat
    BY <1>1, <1>4, WindowSizes
  <1> HIDE DEF t, h
  <1>9. CASE impl = "c"
    <2>1. CInRange(h)
      BY <1>1, <1>2, MisplacedIsNoCause, WindowSizes DEF t
    <2>2. Exact("c", h)
      BY <1>1, <1>9 DEF Comparable, h
    <2>3. CTarget(h) = t /\ CDifficulty(CTarget(h)) = Difficulty(t)
      BY <1>1, <1>2, <2>1, <2>2, CWindowIsExact DEF t
    <2>4. CDifficulty(CTarget(h)) # 0
      BY <1>4, <2>3
    <2>5. QED
      BY <1>3, <1>5, <1>9, <2>1, <2>3, <2>4 DEF Verdict, CVerdict, h
  <1>10. CASE impl = "go"
    <2>1. ~(total + Difficulty(t) >= WordSize)
      BY <1>7, <1>8, <1>10
    <2>2. QED
      BY <1>3, <1>5, <1>6, <1>10, <2>1 DEF Verdict, GoVerdict, h
  <1>11. CASE impl = "js"
    BY <1>3, <1>5, <1>6, <1>11 DEF Verdict, JsVerdict, h
  <1>12. CASE impl = "rust"
    <2>1. ~(total + Difficulty(t) >= WordSize)
      BY <1>7, <1>8, <1>12
    <2>2. ConstantDifficulty
      BY <1>1, <1>12 DEF Comparable
    <2>3. RustCurrentTarget(h) = t
      <3>1. CASE i = 0
        BY <1>6, <3>1 DEF RustCurrentTarget
      <3>2. CASE i # 0
        <4>1. 1 \in 1..i /\ 1 \in DOMAIN chain /\ chain[1] \in Header
          BY <1>1, <3>2
        <4>2. RustTarget(chain[1]) = target /\ target # Fault
          BY <1>1, <1>12, <2>2, <4>1 DEF Carried, TypeOK, Fault
        <4>3. chain[1].exponent >= 3
          BY <1>1, <1>12, <4>1 DEF Comparable, Exact
        <4>4. target = Nominal(chain[1])
          BY <4>1, <4>2, <4>3, TargetsAreNominal
        <4>5. t = Nominal(chain[1])
          BY <1>12, <2>2 DEF Promise!MustCount, Promise!Same, Nominal, t, h
        <4>6. QED
          BY <3>2, <4>4, <4>5 DEF RustCurrentTarget
      <3>3. QED
        BY <3>1, <3>2
    <2>4. QED
      BY <1>3, <1>5, <1>6, <1>12, <2>1, <2>3 DEF Verdict, RustVerdict, h
  <1>13. CASE impl = "sol"
    <2>1. ~(h.digest > SolTarget(h)) /\ Difficulty(SolTarget(h)) # Fault
      BY <1>2, <1>4, <1>6 DEF Fault
    <2>2. QED
      BY <1>3, <1>6, <1>13, <2>1 DEF Verdict, SolVerdict, h
  <1>14. QED
    BY <1>1, <1>9, <1>10, <1>11, <1>12, <1>13

(* Counting a header is counting it as promised. *)
LEMMA CountImplements ==
  ASSUME RInv, Comparable, CountHeader
  PROVE  Promise!Count /\ WorkBounded'
  <1> DEFINE h == chain[i + 1]
             t == Nominal(h)
  <1>1. /\ impl \in {"c", "go", "js", "rust", "sol"} /\ impl \in Impls
        /\ chain \in Seq(Header) /\ chain \in Chains[impl]
        /\ i \in Nat /\ i < Len(chain) /\ i + 1 \in DOMAIN chain /\ h \in Header
        /\ total \in Nat /\ TypeOK /\ Carried
    BY ChainAssumption DEF RInv, IInv, TypeOK, CountHeader, Scanning
  <1>2. /\ Verdict(h) = "ok" /\ outcome = "running" /\ ~ragged
        /\ i' = i + 1 /\ total' = Accumulated(h)
        /\ UNCHANGED <<impl, chain, ragged, outcome>>
    BY DEF CountHeader, Scanning
  <1>3. Exact(impl, h) /\ (impl = "rust" => ConstantDifficulty)
    BY <1>1 DEF Comparable
  <1>4. /\ TargetUsed(h) = t /\ t \in Nat /\ t > 0 /\ Difficulty(t) \in Nat
        /\ impl = "c" => CDifficulty(CTarget(h)) = Difficulty(t)
    BY <1>1, <1>2, <1>3, OkCredits
  <1>5. /\ Linked(h) /\ h.digest <= t
        /\ impl = "rust" /\ ConstantDifficulty => RustTarget(h) = t
    BY <1>1, <1>2, <1>4, OkMeans
  <1>6. total' = total + Difficulty(t)
    <2>1. impl # "js" =>
            total + Difficulty(t) < (IF impl = "c" THEN WindowSize ELSE WordSize)
      BY <1>1, <1>4, TotalFits
    <2>2. total + Difficulty(t) \in Nat
      BY <1>1, <1>4
    <2>3. CASE impl = "c"
      <3>1. (total + Difficulty(t)) % WindowSize = total + Difficulty(t)
        BY <2>1, <2>2, <2>3, WindowSizes
      <3>2. QED
        BY <1>2, <1>4, <2>3, <3>1 DEF Accumulated
    <2>4. CASE impl = "sol"
      <3>1. (total + Difficulty(t)) % WordSize = total + Difficulty(t)
        BY <2>1, <2>2, <2>4, WindowSizes
      <3>2. SolTarget(h) = t
        BY <1>4, <2>4 DEF TargetUsed
      <3>3. QED
        BY <1>2, <2>4, <3>1, <3>2 DEF Accumulated
    <2>5. CASE impl # "c" /\ impl # "sol"
      BY <1>2, <1>4, <2>5 DEF Accumulated
    <2>6. QED
      BY <2>3, <2>4, <2>5
  <1>7. Promise!Follows(i + 1)
    <2>1. ASSUME i + 1 > 1
          PROVE  h.parent = chain[(i + 1) - 1].digest
      <3>1. i # 0 /\ i > 0 /\ (i + 1) - 1 = i
        BY <1>1, <2>1
      <3>2. QED
        BY <1>1, <1>5, <3>1 DEF Linked, Carried
    <2>2. QED
      BY <2>1 DEF Promise!Follows
  <1>8. Promise!Same(i + 1)
    <2>1. ASSUME impl = "rust", ConstantDifficulty
          PROVE  t = Nominal(chain[1])
      <3>1. CASE i = 0
        BY <3>1
      <3>2. CASE i # 0
        <4>1. 1 \in 1..i /\ 1 \in DOMAIN chain /\ chain[1] \in Header
          BY <1>1, <3>2
        <4>2. RustTarget(chain[1]) = target /\ target # Fault
          BY <1>1, <2>1, <4>1 DEF Carried, TypeOK, Fault
        <4>3. chain[1].exponent >= 3
          BY <1>1, <2>1, <4>1 DEF Comparable, Exact
        <4>4. target = Nominal(chain[1])
          BY <4>1, <4>2, <4>3, TargetsAreNominal
        <4>5. RustCurrentTarget(h) = target
          BY <3>2 DEF RustCurrentTarget
        <4>6. QED
          BY <1>4, <2>1, <4>4, <4>5 DEF TargetUsed
      <3>3. QED
        BY <3>1, <3>2
    <2>2. QED
      BY <2>1 DEF Promise!Same, Nominal
  <1>9. Promise!MayCount(i + 1)
    BY <1>4, <1>5, <1>7, <1>8 DEF Promise!MayCount, Nominal
  <1>10. Promise!Count
    <2>1. SpecVerdict = "pending" /\ SpecVerdict' = "pending"
      BY <1>2 DEF SpecVerdict
    <2>2. total' = total + Promise!Difficulty(Promise!NominalTarget(chain[i + 1]))
      BY <1>6 DEF Nominal, Difficulty, Promise!Difficulty, Fault, Promise!Fault,
                  DiffOneTarget, Promise!DiffOneTarget
    <2>3. UNCHANGED <<chain, ragged, (impl = "rust" /\ ConstantDifficulty),
                      SpecVerdict>>
      BY <1>2, <2>1
    <2>4. QED
      BY <1>1, <1>2, <1>9, <2>1, <2>2, <2>3 DEF Promise!Count
  <1>11. WorkBounded'
    <2> SUFFICES ASSUME NEW most \in Nat,
                        \A k \in DOMAIN chain : Difficulty(Nominal(chain[k])) <= most
                 PROVE  total' <= i' * most
      BY <1>2 DEF WorkBounded, Nominal, Promise!NominalTarget
    <2>1. total <= i * most /\ Difficulty(t) <= most
      BY <1>1 DEF RInv, WorkBounded
    <2> HIDE DEF t
    <2>2. i \in Nat /\ total \in Nat /\ Difficulty(t) \in Nat
      BY <1>1, <1>4
    <2>3. (i + 1) * most = i * most + most /\ i * most \in Nat
      BY <2>2
    <2>4. QED
      BY <1>2, <1>6, <2>1, <2>2, <2>3
  <1>12. QED
    BY <1>10, <1>11

LEMMA InitRInv == Init => RInv
  <1> SUFFICES ASSUME Init PROVE RInv
    OBVIOUS
  <1>1. IInv /\ chain \in Chains[impl]
    BY InitIInv DEF Init
  <1>2. WorkBounded
    BY DEF Init, WorkBounded
  <1>3. QED
    BY <1>1, <1>2 DEF RInv

(* Every step counts, accepts or refuses as promised, or changes nothing   *)
(* the promise speaks of.                                                  *)
LEMMA StepImplements ==
  ASSUME RInv, Comparable, [Next]_vars
  PROVE  RInv' /\ [Promise!SpecNext]_(Promise!specVars)
  <1>1. IInv' /\ IInv
    BY NextIInv DEF RInv
  <1>2. UNCHANGED <<impl, chain, ragged>>
    BY DEF Next, BadLength, CountHeader, RefuseHeader, OverwriteStack,
           ReturnTotal, Stop, Done, vars
  <1>3. (chain \in Chains[impl])'
    BY <1>2 DEF RInv
  <1>4. UNCHANGED <<i, total>> => WorkBounded'
    BY <1>2 DEF RInv, WorkBounded, Nominal, Promise!NominalTarget
  <1>5. CASE CountHeader
    BY <1>1, <1>3, <1>5, CountImplements DEF RInv, Promise!SpecNext
  <1>6. ASSUME NEW how \in Outcomes \ {"running", "accepted"},
               Stop(how), outcome = "running",
               ragged \/ (i < Len(chain) /\ ~Promise!MustCount(i + 1))
        PROVE  RInv' /\ Promise!SpecNext
    <2>1. /\ SpecVerdict = "pending" /\ SpecVerdict' = "refused"
          /\ UNCHANGED <<i, total>>
      BY <1>6 DEF SpecVerdict, Stop, Outcomes
    <2>2. Promise!Refuse
      BY <1>2, <1>6, <2>1 DEF Promise!Refuse
    <2>3. QED
      BY <1>1, <1>3, <1>4, <2>1, <2>2 DEF RInv, Promise!SpecNext
  <1>7. CASE BadLength
    BY <1>6, <1>7 DEF BadLength, Outcomes
  <1>8. CASE RefuseHeader
    <2>1. /\ Stop(Verdict(chain[i + 1])) /\ Verdict(chain[i + 1]) # "ok"
          /\ Scanning /\ outcome = "running" /\ i < Len(chain)
      BY <1>8 DEF RefuseHeader, Scanning
    <2>2. Verdict(chain[i + 1]) \in Outcomes \ {"running", "accepted"}
      <3>1. impl \in {"c", "go", "js", "rust", "sol"}
        BY ChainAssumption DEF RInv, IInv, TypeOK
      <3>2. QED
        BY <2>1, <3>1 DEF Verdict, CVerdict, GoVerdict, JsVerdict, RustVerdict,
                          SolVerdict, Outcomes
    <2>3. ~Promise!MustCount(i + 1)
      BY <2>1, RefusalHasCause
    <2>4. QED
      BY <1>6, <2>1, <2>2, <2>3
  <1>9. CASE OverwriteStack
    <2>1. /\ Stop("Fault") /\ Scanning /\ impl = "c" /\ outcome = "running"
          /\ ~CInRange(chain[i + 1]) /\ i < Len(chain)
      BY <1>9 DEF OverwriteStack, Scanning
    <2>2. ~Promise!MustCount(i + 1)
      BY <2>1, RefusalHasCause
    <2>3. QED
      BY <1>6, <2>1, <2>2 DEF Outcomes
  <1>10. CASE ReturnTotal
    <2>1. /\ SpecVerdict = "pending" /\ SpecVerdict' = "accepted"
          /\ UNCHANGED <<i, total>> /\ ~ragged /\ i = Len(chain)
      BY <1>10 DEF ReturnTotal, SpecVerdict, Stop
    <2>2. Promise!Accept
      BY <1>2, <2>1 DEF Promise!Accept
    <2>3. QED
      BY <1>1, <1>3, <1>4, <2>1, <2>2 DEF RInv, Promise!SpecNext
  <1>11. CASE UNCHANGED vars
    <2>1. UNCHANGED Promise!specVars /\ UNCHANGED <<i, total>>
      BY <1>11 DEF vars, Promise!specVars, SpecVerdict
    <2>2. QED
      BY <1>1, <1>3, <1>4, <2>1 DEF RInv
  <1>12. QED
    BY <1>5, <1>7, <1>8, <1>9, <1>10, <1>11 DEF Next, Done

(* The five chain checks implement the safety part of what HeaderChainSpec *)
(* promises, for all chains on which the ports can be compared: they count *)
(* only what may count, for exactly its difficulty, accept only what has   *)
(* been counted to the end, and refuse only for cause.                     *)
THEOREM KeepsPromise == Comparable /\ Spec => Promise!Safety
  <1> SUFFICES ASSUME Comparable PROVE Spec => Promise!Safety
    OBVIOUS
  <1>1. Init => Promise!SpecInit
    <2> SUFFICES ASSUME Init PROVE Promise!SpecInit
      OBVIOUS
    <2>1. chain \in Seq(Header) /\ SpecVerdict = "pending"
      BY ChainAssumption DEF Init, SpecVerdict
    <2>2. (impl = "rust" /\ ConstantDifficulty) \in BOOLEAN
      OBVIOUS
    <2>3. QED
      BY <2>1, <2>2 DEF Init, Promise!SpecInit
  <1>2. RInv /\ [Next]_vars =>
          RInv' /\ [Promise!SpecNext]_(Promise!specVars)
    BY StepImplements
  <1>3. QED
    BY <1>1, <1>2, InitRInv, PTL DEF Spec, Promise!Safety

=============================================================================
