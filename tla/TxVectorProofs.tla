--------------------------- MODULE TxVectorProofs ---------------------------
(***************************************************************************)
(* Validation of a vector and extraction from it take the same steps, in   *)
(* every port and for all byte strings, and functions panic where they are *)
(* known to. The type of a view tells what its bytes are, and the fields   *)
(* of an input and of an output are those it was made of.                  *)
(***************************************************************************)
EXTENDS TxVector, ViewForms, FieldForms, SequenceTheorems, TLAPS, WellFoundedInduction

Bytes == 0..Base - 1

(***************************************************************************)
(* Integers and elements.                                                  *)
(***************************************************************************)
LEMMA Sizes ==
  /\ Base \in Nat /\ Wide \in Nat \ {0} /\ Wide = Base - 1 /\ Base >= 2
  /\ Word \in Nat /\ Word >= 4 /\ Base * Base <= Word
  <1>1. Base \in Nat /\ Wide \in 1..Base - 1 /\ Wide = Base - 1
        /\ Word \in Nat /\ Base * Base <= Word
    BY CompactAssumption, VectorAssumption
  <1>2. Base >= 2
    BY <1>1
  <1>3. Base * Base >= 4
    <2>1. PICK d \in Nat : Base = 2 + d
      <3>1. Base - 2 \in Nat /\ Base = 2 + (Base - 2)
        BY <1>1, <1>2
      <3>2. QED
        BY <3>1
    <2>2. (2 + d) * (2 + d) = 4 + 4 * d + d * d /\ d * d \in Nat
      BY <2>1
    <2>3. QED
      BY <2>1, <2>2
  <1>4. QED
    BY <1>1, <1>2, <1>3

(* Two digits stay below the square of the base. *)
LEMMA TwoDigits ==
  ASSUME NEW x \in Bytes, NEW y \in Bytes
  PROVE  x + Base * y \in 0..Base * Base - 1
  <1>1. PICK d \in Nat : Base = y + 1 + d
    <2>1. Base - y - 1 \in Nat /\ Base = y + 1 + (Base - y - 1)
      BY Sizes DEF Bytes
    <2>2. QED
      BY <2>1
  <1>2. /\ Base * Base = Base * (y + 1 + d)
        /\ Base * (y + 1 + d) = Base * y + Base + Base * d
        /\ Base * y \in Nat /\ Base * d \in Nat
    BY <1>1, Sizes DEF Bytes
  <1>3. x \in Nat /\ x < Base /\ Base \in Nat
    BY Sizes DEF Bytes
  <1> DEFINE s == Base * Base  u == Base * y  v == Base * d
  <1>4. s = u + Base + v /\ u \in Nat /\ v \in Nat
    BY <1>2
  <1> HIDE DEF s, u, v
  <1>5. x + u \in 0..s - 1
    BY <1>3, <1>4
  <1>6. QED
    BY <1>5 DEF s, u

(* An integer that is parsed is of one or two digits, and C takes only     *)
(* those of one.                                                           *)
LEMMA ParsedNumber ==
  ASSUME NEW p, NEW b \in Seq(Bytes), NEW o \in Nat,
         ParseOutcome(p, b, o) = "ok"
  PROVE  /\ Number(b, o) \in 0..Base * Base - 1
         /\ SerializedLength(p, b, o) \in {1, 3}
         /\ p = "c" => Number(b, o) < Wide /\ SerializedLength(p, b, o) = 1
         /\ o < Len(b)
  <1>1. Len(b) - o > 0
    BY DEF ParseOutcome
  <1>2. o + 1 \in 1..Len(b) /\ b[o + 1] \in Bytes
    BY <1>1
  <1>3. SerializedLength(p, b, o) \in {1, 3}
    BY DEF SerializedLength, Canonical, DataLength
  <1>4. CASE IsWide(b, o)
    <2>1. p # "c"
      BY <1>1, <1>4 DEF ParseOutcome, Canonical, DataLength
    <2>2. Len(b) - o > 2
      BY <1>1, <1>4 DEF ParseOutcome, DataLength
    <2>3. b[o + 2] \in Bytes /\ b[o + 3] \in Bytes
      BY <2>2
    <2>4. Number(b, o) \in 0..Base * Base - 1
      BY <1>4, <2>3, TwoDigits DEF Number, Payload
    <2>5. QED
      BY <1>2, <1>3, <2>1, <2>4
  <1>5. CASE ~IsWide(b, o)
    <2>1. Number(b, o) = b[o + 1] /\ b[o + 1] < Wide
      BY <1>2, <1>5, Sizes DEF Number, IsWide, Bytes
    <2>2. Number(b, o) \in 0..Wide - 1
      BY <1>2, <2>1, Sizes DEF Bytes
    <2>3. Number(b, o) \in 0..Base * Base - 1
      <3>1. 0 \in Bytes /\ b[o + 1] + Base * 0 = b[o + 1]
        BY <1>2, Sizes DEF Bytes
      <3>2. QED
        BY <1>2, <2>1, <3>1, TwoDigits
    <2>4. p = "c" => SerializedLength(p, b, o) = 1
      BY <2>2, Sizes DEF SerializedLength, Canonical
    <2>5. QED
      BY <1>2, <1>3, <2>2, <2>3, <2>4, Sizes
  <1>6. QED
    BY <1>4, <1>5

(* An element has a length, and in C one that cannot overflow. *)
LEMMA ParsedElement ==
  ASSUME NEW p, NEW k \in Kinds, NEW b \in Seq(Bytes), NEW o \in Nat,
         ElementOutcome(p, k, b, o) = "ok"
  PROVE  /\ ElementLength(p, k, b, o) \in Nat \ {0}
         /\ p = "c" =>
              o + ElementLength(p, k, b, o) < Len(b) + Wide + After[k]
  <1>1. Before[k] \in Nat /\ After[k] \in Nat /\ o + Before[k] \in Nat
    BY ElementAssumption
  <1>2. ParseOutcome(p, b, o + Before[k]) = "ok"
    BY DEF ElementOutcome
  <1> DEFINE at == o + Before[k]
             c == SerializedLength(p, b, at)
             x == Number(b, at)
             s == Base * Base
  <1>3. s \in Nat
    BY Sizes
  <1>4. /\ x \in 0..s - 1 /\ c \in {1, 3} /\ at < Len(b)
        /\ p = "c" => x < Wide /\ c = 1
    BY <1>1, <1>2, ParsedNumber
  <1>5. ElementLength(p, k, b, o) = Before[k] + c + x + After[k]
    BY DEF ElementLength
  <1>6. Wide \in Nat /\ Len(b) \in Nat
    BY Sizes
  <1>7. at = o + Before[k]
    OBVIOUS
  <1> DEFINE len == ElementLength(p, k, b, o)  f == Before[k]  g == After[k]
             size == Len(b)
  <1>8. /\ f \in Nat /\ g \in Nat /\ x \in Nat /\ c \in {1, 3} /\ at < size
        /\ at = o + f /\ len = f + c + x + g /\ size \in Nat
        /\ p = "c" => x < Wide /\ c = 1
    BY <1>1, <1>3, <1>4, <1>5, <1>6, <1>7
  <1> HIDE DEF at, c, x, s, len, f, g, size
  <1>9. len \in Nat \ {0} /\ (p = "c" => o + len < size + Wide + g)
    BY <1>6, <1>8
  <1>10. QED
    BY <1>9 DEF len, g, size

(* No port but Solidity can fault on an element: each looks at the length. *)
LEMMA ElementNoFault ==
  ASSUME NEW p, p # "sol", NEW k \in Kinds, NEW b \in Seq(Bytes),
         NEW o \in Nat
  PROVE  ElementOutcome(p, k, b, o) # "fault"
  <1>1. Before[k] \in Nat /\ Len(b) \in Nat
    BY ElementAssumption
  <1>2. CASE Len(b) - o < Before[k] + 1
    BY <1>2 DEF ElementOutcome
  <1>3. CASE ~(Len(b) - o < Before[k] + 1)
    <2>1. ~(Len(b) - (o + Before[k]) <= 0)
      BY <1>1, <1>3
    <2>2. ParseOutcome(p, b, o + Before[k]) # "fault"
      BY <2>1 DEF ParseOutcome
    <2>3. QED
      BY <1>3, <2>2 DEF ElementOutcome
  <1>4. QED
    BY <1>2, <1>3

(***************************************************************************)
(* The invariant.  Element k + 1 begins where element k ends.              *)
(***************************************************************************)
OutcomeAt(o) == ElementOutcome(impl, kind, bytes, o)
LengthAt(o) == ElementLength(impl, kind, bytes, o)
BeyondAt(o) ==
  IF impl \in {"go", "rust"} THEN (o + LengthAt(o)) % Word ELSE o + LengthAt(o)

StartAt(k) ==
  IF k = 0 THEN SerializedLength(impl, bytes, 0) ELSE BeyondAt(spans[k][1])

Walked ==
  \A k \in 1..Len(spans) :
    /\ spans[k] = <<StartAt(k - 1), LengthAt(StartAt(k - 1))>>
    /\ spans[k][1] \in Nat
    /\ OutcomeAt(spans[k][1]) = "ok"
    /\ GoVout \/ k < Len(spans) => StartAt(k) <= Len(bytes)

Extracting == {"accepted", "seek", "extracted", "missing"}

(* Where the loops are, and that a vector accepted holds its elements. *)
Placed ==
  /\ phase \in {"start", "loop", "seek"} \cup Extracting
               \cup {"refused", "fault"}
  /\ spans \in Seq(Nat \X Nat)
  /\ phase \in {"loop"} \cup Extracting =>
       n = Number(bytes, 0) /\ ParseOutcome(impl, bytes, 0) = "ok"
  /\ phase = "start" => spans = <<>>
  /\ phase = "loop" => Len(spans) = i /\ offset = StartAt(i)
  /\ phase \in Extracting =>
       /\ Len(spans) = n /\ \A k \in 1..n : StartAt(k) <= Len(bytes)
       /\ StartAt(n) = Len(bytes)
  /\ phase = "seek" => i <= index /\ index < n /\ offset = StartAt(i)

IInv ==
  /\ bytes \in Vectors /\ TypeOK
  /\ Walked /\ Placed /\ ExtractAgrees /\ PanicsOnlyOnEmpty

LEMMA Known ==
  ASSUME IInv
  PROVE  /\ bytes \in Seq(Bytes) /\ Len(bytes) \in Nat /\ kind \in Kinds
         /\ impl \in {"c", "go", "js", "rust", "sol"}
         /\ n \in Nat /\ i \in 0..n /\ offset \in Nat
         /\ spans \in Seq(Nat \X Nat) /\ Len(spans) \in Nat
         /\ Len(bytes) + Wide + After[kind] <= Word
  <1>1. n \in Nat
    BY Sizes DEF IInv, TypeOK
  <1>2. QED
    BY <1>1, VectorAssumption DEF IInv, TypeOK, Placed, Bytes

(* Where the element at the offset ends, in the numbers of the port. *)
LEMMA BeyondType ==
  ASSUME IInv, Outcome = "ok"
  PROVE  /\ Length \in Nat \ {0} /\ Beyond \in Nat
         /\ Beyond < Word \/ impl \in {"js", "sol"}
         /\ ~Overflows => Beyond = offset + Length
  <1>1. /\ Length \in Nat \ {0}
        /\ impl = "c" => offset + Length < Len(bytes) + Wide + After[kind]
    BY Known, ParsedElement DEF Outcome, Length
  <1> DEFINE size == Len(bytes)  g == After[kind]  len == Length
  <1>2. /\ size \in Nat /\ g \in Nat /\ offset \in Nat
        /\ size + Wide + g <= Word
        /\ impl \in {"c", "go", "js", "rust", "sol"} /\ len \in Nat \ {0}
        /\ impl = "c" => offset + len < size + Wide + g
        /\ Word \in Nat /\ Word >= 4 /\ Wide \in Nat
    BY <1>1, Known, Sizes, ElementAssumption
  <1>3. Beyond = IF impl \in {"go", "rust"} THEN (offset + len) % Word
                 ELSE offset + len
    BY DEF Beyond
  <1>4. Overflows <=> impl \in {"go", "rust"} /\ offset + len >= Word
    BY DEF Overflows
  <1> HIDE DEF size, g, len
  <1>5. CASE impl \in {"go", "rust"}
    <2>1. /\ (offset + len) % Word \in Nat /\ (offset + len) % Word < Word
          /\ offset + len < Word => (offset + len) % Word = offset + len
      BY <1>2
    <2>2. QED
      BY <1>2, <1>3, <1>4, <1>5, <2>1 DEF len
  <1>6. CASE impl \notin {"go", "rust"}
    <2>1. Beyond = offset + len
      BY <1>3, <1>6
    <2>2. offset + len \in Nat /\ (impl = "c" => offset + len < Word)
      BY <1>2
    <2>3. QED
      BY <1>2, <1>6, <2>1, <2>2 DEF len
  <1>7. QED
    BY <1>5, <1>6

(* Nothing that leaves the bytes and the spans alone moves an element. *)
LEMMA SameWalk ==
  ASSUME UNCHANGED <<inputVars, spans>>
  PROVE  /\ Walked => Walked'
         /\ \A k : StartAt(k)' = StartAt(k)
  BY DEF inputVars, Walked, StartAt, BeyondAt, LengthAt, OutcomeAt, GoVout

LEMMA InitIInv == Init => IInv
  <1> SUFFICES ASSUME Init PROVE IInv
    OBVIOUS
  <1>1. bytes \in Vectors /\ TypeOK
    BY Sizes, VectorAssumption DEF Init, TypeOK
  <1>2. Walked /\ Placed /\ ExtractAgrees /\ PanicsOnlyOnEmpty
    BY DEF Init, Walked, Placed, ExtractAgrees, PanicsOnlyOnEmpty, Extracting
  <1>3. QED
    BY <1>1, <1>2 DEF IInv

(* A function returns: with a vector accepted only at its end, and with a  *)
(* panic only where PanicsOnlyOnEmpty has one.                             *)
LEMMA LeaveKeepsIInv ==
  ASSUME IInv, NEW how \in {"refused", "fault", "accepted"}, Leave(how),
         how = "accepted" => phase = "loop" /\ i = n /\ offset = Len(bytes),
         how = "fault" /\ impl # "sol" =>
           bytes = <<>> \/ (Outcome = "ok" /\ Overflows),
         how = "fault" /\ n > 0 /\ Len(spans) = n =>
           impl \in {"go", "rust"} /\ SpanOverflows(index + 1)
  PROVE  IInv'
  <1>1. /\ phase' = how
        /\ UNCHANGED <<impl, kind, bytes, n, i, offset, spans, index, result>>
    BY DEF Leave, inputVars
  <1>2. bytes' \in Vectors /\ TypeOK'
    BY <1>1 DEF IInv, TypeOK, Returned
  <1>3. Walked' /\ \A k : StartAt(k)' = StartAt(k)
    BY <1>1, SameWalk DEF IInv, inputVars
  <1>4. Placed'
    <2>1. CASE how = "accepted"
      <3>1. /\ phase = "loop" /\ i = n /\ offset = Len(bytes)
            /\ Len(spans) = n /\ offset = StartAt(n)
            /\ n = Number(bytes, 0) /\ ParseOutcome(impl, bytes, 0) = "ok"
        BY <2>1 DEF IInv, Placed
      <3>2. \A k \in 1..n : StartAt(k) <= Len(bytes)
        <4> SUFFICES ASSUME NEW k \in 1..n PROVE StartAt(k) <= Len(bytes)
          OBVIOUS
        <4>1. CASE k = n
          BY <3>1, <4>1, Known
        <4>2. CASE k # n
          <5>1. k < Len(spans) /\ k \in 1..Len(spans)
            BY <3>1, <4>2, Known
          <5>2. QED
            BY <5>1 DEF IInv, Walked
        <4>3. QED
          BY <4>1, <4>2
      <3>3. StartAt(n) = Len(bytes) /\ n' = n
        BY <1>1, <3>1
      <3>4. StartAt(n)' = Len(bytes)'
        <4>1. StartAt(n)' = StartAt(n)
          BY <1>1, <3>3 DEF StartAt, BeyondAt, LengthAt
        <4>2. QED
          BY <1>1, <3>3, <4>1
      <3>5. QED
        BY <1>1, <1>3, <2>1, <3>1, <3>2, <3>4, Known DEF Placed, Extracting
    <2>2. CASE how # "accepted"
      BY <1>1, <2>2, Known DEF Placed, Extracting
    <2>3. QED
      BY <2>1, <2>2
  <1>5. ExtractAgrees'
    BY <1>1 DEF ExtractAgrees, SpanOverflows
  <1>6. PanicsOnlyOnEmpty'
    BY <1>1 DEF PanicsOnlyOnEmpty, Outcome, Overflows, Length
  <1>7. QED
    BY <1>2, <1>3, <1>4, <1>5, <1>6 DEF IInv

(***************************************************************************)
(* The steps of validation.                                                *)
(***************************************************************************)
LEMMA ReadCountKeepsIInv == IInv /\ ReadCount => IInv'
  <1> SUFFICES ASSUME IInv, ReadCount PROVE IInv'
    OBVIOUS
  <1>1. /\ phase = "start" /\ phase' = "loop" /\ n' = Number(bytes, 0)
        /\ i' = 0 /\ offset' = SerializedLength(impl, bytes, 0)
        /\ UNCHANGED <<impl, kind, bytes, spans, index, result>>
    BY DEF ReadCount, inputVars
  <1>2. ParseOutcome(impl, bytes, 0) = "ok"
    <2>1. CountOutcome = "ok"
      BY DEF ReadCount
    <2>2. CASE bytes = <<>> /\ impl = "sol"
      BY <2>1, <2>2 DEF CountOutcome
    <2>3. CASE ~(bytes = <<>> /\ impl = "sol")
      BY <2>1, <2>3 DEF CountOutcome
    <2>4. QED
      BY <2>2, <2>3
  <1>3. n' \in 0..Base * Base - 1 /\ offset' \in {1, 3}
    BY <1>1, <1>2, Known, ParsedNumber
  <1>4. spans = <<>>
    BY <1>1 DEF IInv, Placed
  <1>5. bytes' \in Vectors /\ TypeOK'
    <2>1. n' \in Nat /\ i' \in 0..n' /\ Len(spans') <= n' /\ offset' < Word
      BY <1>1, <1>3, <1>4, Sizes
    <2>2. offset' \in Nat
      BY <1>3
    <2>3. QED
      BY <1>1, <1>3, <2>1, <2>2 DEF IInv, TypeOK, Returned
  <1>6. Walked' /\ \A k : StartAt(k)' = StartAt(k)
    BY <1>1, SameWalk DEF IInv, inputVars
  <1>7. Placed'
    BY <1>1, <1>2, <1>4, <1>6, Known DEF Placed, Extracting, StartAt
  <1>8. ExtractAgrees' /\ PanicsOnlyOnEmpty'
    BY <1>1 DEF ExtractAgrees, PanicsOnlyOnEmpty
  <1>9. QED
    BY <1>5, <1>6, <1>7, <1>8 DEF IInv

LEMMA RefuseCountKeepsIInv == IInv /\ RefuseCount => IInv'
  <1> SUFFICES ASSUME IInv, RefuseCount PROVE IInv'
    OBVIOUS
  <1>1. CASE CountOutcome = "bad" /\ Leave("refused")
    BY <1>1, LeaveKeepsIInv
  <1>2. CASE CountOutcome = "fault" /\ Leave("fault")
    <2>1. ASSUME impl # "sol" PROVE bytes = <<>>
      <3>1. SUFFICES ASSUME bytes # <<>> PROVE FALSE
        OBVIOUS
      <3>2. ~(Len(bytes) - 0 <= 0)
        BY <3>1, Known
      <3>3. ParseOutcome(impl, bytes, 0) # "fault"
        BY <2>1, <3>2 DEF ParseOutcome
      <3>4. CASE ParseOutcome(impl, bytes, 0) = "ok"
        BY <1>2, <2>1, <3>1, <3>4 DEF CountOutcome
      <3>5. CASE ParseOutcome(impl, bytes, 0) # "ok"
        BY <1>2, <2>1, <3>1, <3>3, <3>5 DEF CountOutcome
      <3>6. QED
        BY <3>4, <3>5
    <2>2. ~(n > 0 /\ Len(spans) = n)
      <3>1. spans = <<>>
        BY DEF RefuseCount, IInv, Placed
      <3>2. QED
        BY <3>1
    <2>3. QED
      BY <1>2, <2>1, <2>2, LeaveKeepsIInv
  <1>3. QED
    BY <1>1, <1>2 DEF RefuseCount

LEMMA RefuseElementKeepsIInv == IInv /\ RefuseElement => IInv'
  <1> SUFFICES ASSUME IInv, RefuseElement PROVE IInv'
    OBVIOUS
  <1>0. Len(spans) # n
    BY Known DEF RefuseElement, Validating, IInv, Placed
  <1>1. CASE Leave("refused")
    BY <1>1, LeaveKeepsIInv
  <1>2. CASE Outcome = "fault" /\ Leave("fault")
    <2>1. impl = "sol"
      BY <1>2, Known, ElementNoFault DEF Outcome
    <2>2. QED
      BY <1>0, <1>2, <2>1, LeaveKeepsIInv
  <1>3. CASE Outcome = "ok" /\ Overflows /\ Leave("fault")
    BY <1>0, <1>3, LeaveKeepsIInv
  <1>4. QED
    BY <1>1, <1>2, <1>3 DEF RefuseElement

LEMMA PassElementKeepsIInv == IInv /\ PassElement => IInv'
  <1> SUFFICES ASSUME IInv, PassElement PROVE IInv'
    OBVIOUS
  <1>1. /\ phase = "loop" /\ i < n /\ Inside /\ Outcome = "ok"
        /\ GoVout => Beyond <= Len(bytes)
        /\ i' = i + 1 /\ offset' = Beyond
        /\ spans' = Append(spans, <<offset, Length>>)
        /\ UNCHANGED <<impl, kind, bytes, phase, n, index, result>>
    BY DEF PassElement, Validating, inputVars
  <1>2. Len(spans) = i /\ offset = StartAt(i) /\ Walked
    BY <1>1 DEF IInv, Placed
  <1>3. /\ Length \in Nat \ {0} /\ Beyond \in Nat
        /\ Beyond < Word \/ impl \in {"js", "sol"}
    BY <1>1, BeyondType
  <1>4. /\ spans' \in Seq(Nat \X Nat) /\ Len(spans') = i + 1
        /\ spans'[i + 1] = <<offset, Length>>
        /\ \A k \in 1..i : spans'[k] = spans[k]
    <2>1. <<offset, Length>> \in Nat \X Nat
      BY <1>3, Known
    <2>2. QED
      BY <1>1, <1>2, <2>1, Known
  <1>5. \A k \in 0..i : StartAt(k)' = StartAt(k)
    BY <1>1, <1>4, Known, SMTT(30) DEF StartAt, BeyondAt, LengthAt
  <1>6. ASSUME NEW k, k = i + 1 PROVE StartAt(k)' = Beyond
    <2>1. spans'[k][1] = offset /\ k # 0
      BY <1>4, <1>6, Known
    <2>2. StartAt(k)' = BeyondAt(spans[k][1])'
      BY <2>1 DEF StartAt
    <2>3. QED
      BY <1>1, <2>1, <2>2 DEF BeyondAt, LengthAt, Beyond, Length
  <1>7. bytes' \in Vectors /\ TypeOK'
    BY <1>1, <1>3, <1>4, Known DEF IInv, TypeOK, Returned
  <1>8. Walked'
    <2> SUFFICES ASSUME NEW k \in 1..i + 1
                 PROVE  /\ spans'[k] =
                              <<StartAt(k - 1)', LengthAt(StartAt(k - 1))'>>
                        /\ spans'[k][1] \in Nat
                        /\ OutcomeAt(spans[k][1])' = "ok"
                        /\ GoVout' \/ k < i + 1 => StartAt(k)' <= Len(bytes)
      BY <1>1, <1>4 DEF Walked, LengthAt, OutcomeAt
    <2>1. CASE k \in 1..i
      <3>1. /\ spans[k] = <<StartAt(k - 1), LengthAt(StartAt(k - 1))>>
            /\ spans[k][1] \in Nat /\ OutcomeAt(spans[k][1]) = "ok"
            /\ GoVout \/ k < i => StartAt(k) <= Len(bytes)
        BY <1>2, <2>1 DEF Walked
      <3>2. k - 1 \in 0..i /\ k \in 0..i
        BY <2>1, Known
      <3>3. StartAt(k) <= Len(bytes)
        <4>1. CASE GoVout \/ k < i
          BY <3>1, <4>1
        <4>2. CASE ~GoVout /\ k = i
          BY <1>1, <1>2, <4>2, Known DEF Inside
        <4>3. QED
          BY <2>1, <4>1, <4>2, Known
      <3>4. spans'[k] = spans[k]
        BY <1>4, <2>1
      <3>5. StartAt(k - 1)' = StartAt(k - 1) /\ StartAt(k)' = StartAt(k)
        BY <1>5, <3>2
      <3>6. LengthAt(StartAt(k - 1))' = LengthAt(StartAt(k - 1))
        BY <1>1, <3>5 DEF LengthAt
      <3>7. OutcomeAt(spans[k][1])' = OutcomeAt(spans[k][1])
        BY <1>1, <3>4 DEF OutcomeAt
      <3>8. QED
        BY <3>1, <3>3, <3>4, <3>5, <3>6, <3>7
    <2>2. CASE k = i + 1
      <3>1. k - 1 = i /\ i \in 0..i
        BY <2>2, Known
      <3>2. StartAt(k - 1)' = offset
        BY <1>2, <1>5, <3>1
      <3>3. LengthAt(StartAt(k - 1))' = Length
        BY <1>1, <3>2 DEF LengthAt, Length
      <3>4. spans'[k] = <<offset, Length>> /\ spans'[k][1] = offset
        BY <1>4, <2>2
      <3>5. OutcomeAt(spans[k][1])' = "ok"
        BY <1>1, <3>4 DEF OutcomeAt, Outcome
      <3>6. GoVout' \/ k < i + 1 => StartAt(k)' <= Len(bytes)
        <4>1. GoVout' <=> GoVout
          BY <1>1 DEF GoVout
        <4>2. ~(k < i + 1)
          BY <2>2, Known
        <4>3. QED
          BY <1>1, <1>6, <2>2, <4>1, <4>2
      <3>7. QED
        BY <3>2, <3>3, <3>4, <3>5, <3>6, Known
    <2>3. QED
      BY <2>1, <2>2, Known
  <1>9. Placed'
    <2>1. n' = Number(bytes, 0)' /\ ParseOutcome(impl, bytes, 0)' = "ok"
      BY <1>1 DEF IInv, Placed
    <2>2. Len(spans') = i' /\ offset' = StartAt(i)'
      <3>1. PICK k : k = i + 1
        OBVIOUS
      <3>2. StartAt(i)' = StartAt(k)'
        BY <1>1, <3>1 DEF StartAt
      <3>3. QED
        BY <1>1, <1>4, <1>6, <3>1, <3>2
    <2>3. QED
      BY <1>1, <1>4, <2>1, <2>2 DEF Placed, Extracting
  <1>10. ExtractAgrees' /\ PanicsOnlyOnEmpty'
    BY <1>1 DEF ExtractAgrees, PanicsOnlyOnEmpty
  <1>11. QED
    BY <1>7, <1>8, <1>9, <1>10 DEF IInv

LEMMA CheckEndKeepsIInv == IInv /\ CheckEnd => IInv'
  <1> SUFFICES ASSUME IInv, CheckEnd PROVE IInv'
    OBVIOUS
  <1>1. CASE offset = Len(bytes)
    BY <1>1, LeaveKeepsIInv DEF CheckEnd
  <1>2. CASE offset # Len(bytes)
    BY <1>2, LeaveKeepsIInv DEF CheckEnd
  <1>3. QED
    BY <1>1, <1>2

(***************************************************************************)
(* The steps of extraction.                                                *)
(***************************************************************************)
(* What the second loop looks at is what the first one passed. *)
LEMMA Found ==
  ASSUME IInv, phase = "seek"
  PROVE  /\ i <= index /\ index < n /\ n = Len(spans) /\ index \in Nat
         /\ Outcome = "ok" /\ spans[i + 1] = <<offset, Length>>
         /\ \A k : k = i + 1 => StartAt(k) = Beyond
         /\ Beyond <= Len(bytes)
  <1>1. /\ i <= index /\ index < n /\ offset = StartAt(i) /\ Len(spans) = n
        /\ \A k \in 1..n : StartAt(k) <= Len(bytes)
    BY DEF IInv, Placed, Extracting
  <1>2. index \in Nat
    BY VectorAssumption DEF IInv, TypeOK
  <1>3. i + 1 \in 1..n /\ (i + 1) - 1 = i /\ i + 1 # 0
    BY <1>1, <1>2, Known
  <1>4. /\ spans[i + 1] = <<StartAt(i), LengthAt(StartAt(i))>>
        /\ OutcomeAt(spans[i + 1][1]) = "ok"
    <2>1. /\ spans[i + 1] =
               <<StartAt((i + 1) - 1), LengthAt(StartAt((i + 1) - 1))>>
          /\ OutcomeAt(spans[i + 1][1]) = "ok"
      BY <1>1, <1>3 DEF IInv, Walked
    <2>2. QED
      BY <1>3, <2>1
  <1>5. spans[i + 1] = <<offset, Length>> /\ spans[i + 1][1] = offset
    BY <1>1, <1>4 DEF LengthAt, Length
  <1>6. Outcome = "ok"
    BY <1>4, <1>5 DEF OutcomeAt, Outcome
  <1>7. StartAt(i + 1) = Beyond
    BY <1>3, <1>5 DEF StartAt, BeyondAt, LengthAt, Beyond, Length
  <1>8. QED
    BY <1>1, <1>2, <1>3, <1>5, <1>6, <1>7

LEMMA ExtractKeepsIInv == IInv /\ Extract => IInv'
  <1> SUFFICES ASSUME IInv, Extract PROVE IInv'
    OBVIOUS
  <1>1. /\ phase = "accepted"
        /\ index' \in Indices
        /\ phase' = IF index' < Number(bytes, 0) THEN "seek" ELSE "missing"
        /\ i' = 0 /\ offset' = SerializedLength(impl, bytes, 0)
        /\ UNCHANGED <<impl, kind, bytes, n, spans, result>>
    BY DEF Extract, inputVars
  <1>2. /\ n = Number(bytes, 0) /\ ParseOutcome(impl, bytes, 0) = "ok"
        /\ Len(spans) = n /\ \A k \in 1..n : StartAt(k) <= Len(bytes)
        /\ StartAt(n) = Len(bytes)
    BY <1>1 DEF IInv, Placed, Extracting
  <1>3. offset' \in Nat /\ offset' < Word
    <2>1. offset' \in {1, 3}
      BY <1>1, <1>2, Known, ParsedNumber
    <2>2. QED
      BY <2>1, Sizes
  <1>4. index' \in Nat
    BY <1>1, VectorAssumption
  <1>5. bytes' \in Vectors /\ TypeOK'
    <2>1. i' \in 0..n'
      BY <1>1, Known
    <2>2. QED
      BY <1>1, <1>3, <2>1 DEF IInv, TypeOK, Returned
  <1>6. Walked' /\ \A k : StartAt(k)' = StartAt(k)
    BY <1>1, SameWalk DEF IInv, inputVars
  <1>7. Placed'
    <2>1. i' <= index' /\ offset' = StartAt(i)'
      BY <1>1, <1>4 DEF StartAt
    <2>2. StartAt(n)' = Len(bytes)'
      <3>1. StartAt(n)' = StartAt(n)
        BY <1>1 DEF StartAt, BeyondAt, LengthAt
      <3>2. QED
        BY <1>1, <1>2, <3>1
    <2>3. QED
      BY <1>1, <1>2, <1>6, <2>1, <2>2, Known DEF Placed, Extracting
  <1>8. ExtractAgrees' /\ PanicsOnlyOnEmpty'
    BY <1>1, <1>2, <1>4, Known DEF ExtractAgrees, PanicsOnlyOnEmpty
  <1>9. QED
    BY <1>5, <1>6, <1>7, <1>8 DEF IInv

LEMMA SeekKeepsIInv == IInv /\ Seek => IInv'
  <1> SUFFICES ASSUME IInv, Seek PROVE IInv'
    OBVIOUS
  <1>1. phase = "seek" /\ i < index /\ Outcome = "ok"
    BY Found DEF Seek
  <1>2. /\ i' = i + 1 /\ offset' = Beyond
        /\ UNCHANGED <<impl, kind, bytes, phase, n, spans, index, result>>
    BY <1>1 DEF Seek, inputVars
  <1>3. /\ i + 1 <= index /\ index < n /\ n = Len(spans) /\ index \in Nat
        /\ \A k : k = i + 1 => StartAt(k) = Beyond
    BY <1>1, Found, Known
  <1>4. bytes' \in Vectors /\ TypeOK'
    <2>1. i' \in 0..n'
      BY <1>2, <1>3, Known, SMTT(30)
    <2>2. offset' \in Nat /\ (offset' < Word \/ impl \in {"js", "sol"})
      BY <1>1, <1>2, BeyondType
    <2>3. QED
      BY <1>2, <2>1, <2>2 DEF IInv, TypeOK, Returned
  <1>5. Walked' /\ \A k : StartAt(k)' = StartAt(k)
    BY <1>2, SameWalk DEF IInv, inputVars
  <1>6. Placed'
    <2>1. offset' = StartAt(i)'
      <3>1. PICK k : k = i + 1
        OBVIOUS
      <3>2. StartAt(i)' = StartAt(k)'
        BY <1>2, <3>1 DEF StartAt
      <3>3. QED
        BY <1>2, <1>3, <1>5, <3>1, <3>2
    <2>2. StartAt(n)' = Len(bytes)'
      <3>1. StartAt(n)' = StartAt(n)
        BY <1>2 DEF StartAt, BeyondAt, LengthAt
      <3>2. QED
        BY <1>1, <1>2, <3>1 DEF IInv, Placed, Extracting
    <2>3. QED
      BY <1>1, <1>2, <1>3, <1>5, <2>1, <2>2, Known
         DEF IInv, Placed, Extracting
  <1>7. ExtractAgrees' /\ PanicsOnlyOnEmpty'
    BY <1>1, <1>2 DEF ExtractAgrees, PanicsOnlyOnEmpty
  <1>8. QED
    BY <1>4, <1>5, <1>6, <1>7 DEF IInv

(* The element looked for ends where the check began the next. *)
LEMMA EndIsNextStart ==
  ASSUME IInv, phase = "seek", i = index
  PROVE  EndOf(index + 1) = Beyond
  <1>1. /\ index < n /\ n = Len(spans) /\ index \in Nat
        /\ \A k : k = index + 1 => StartAt(k) = Beyond
    BY Found
  <1>2. StartAt(index + 1) = Beyond
    BY <1>1
  <1>3. CASE index + 1 = n
    <2>1. StartAt(n) = Len(bytes)
      BY DEF IInv, Placed, Extracting
    <2>2. QED
      BY <1>1, <1>2, <1>3, <2>1 DEF EndOf
  <1>4. CASE index + 1 # n
    <2>1. /\ index + 2 \in 1..Len(spans) /\ (index + 2) - 1 = index + 1
          /\ (index + 1) + 1 = index + 2
      BY <1>1, <1>4, Known
    <2>2. spans[index + 2] =
            <<StartAt((index + 2) - 1), LengthAt(StartAt((index + 2) - 1))>>
      BY <2>1 DEF IInv, Walked
    <2>3. spans[index + 2][1] = Beyond
      BY <1>2, <2>1, <2>2
    <2>4. QED
      BY <1>1, <1>4, <2>1, <2>3 DEF EndOf
  <1>5. QED
    BY <1>3, <1>4

LEMMA TakeKeepsIInv == IInv /\ Take => IInv'
  <1> SUFFICES ASSUME IInv, Take PROVE IInv'
    OBVIOUS
  <1>1. phase = "seek" /\ i = index
    BY DEF Take
  <1>2. /\ index < n /\ n = Len(spans) /\ Outcome = "ok"
        /\ spans[index + 1] = <<offset, Length>> /\ Beyond <= Len(bytes)
    BY <1>1, Found
  <1>3. Length \in Nat \ {0} /\ Beyond \in Nat
        /\ (~Overflows => Beyond = offset + Length)
    BY <1>2, BeyondType
  <1>4. ~(Outcome # "ok" \/ Beyond > Len(bytes))
    BY <1>2, <1>3, Known
  <1>5. CASE Beyond < offset
    <2>1. Overflows
      BY <1>3, <1>5, Known
    <2>2. Leave("fault")
      BY <1>4, <1>5 DEF Take
    <2>3. impl \in {"go", "rust"} /\ SpanOverflows(index + 1)
      BY <1>2, <2>1 DEF Overflows, SpanOverflows
    <2>4. QED
      BY <1>2, <2>1, <2>2, <2>3, LeaveKeepsIInv
  <1>6. CASE ~(Beyond < offset)
    <2>1. /\ result' = <<offset, Beyond - offset>> /\ phase' = "extracted"
          /\ UNCHANGED <<impl, kind, bytes, n, i, offset, spans, index>>
      BY <1>4, <1>6 DEF Take, inputVars
    <2>2. bytes' \in Vectors /\ TypeOK'
      BY <2>1 DEF IInv, TypeOK, Returned
    <2>3. Walked' /\ \A k : StartAt(k)' = StartAt(k)
      BY <2>1, SameWalk DEF IInv, inputVars
    <2>4. Placed'
      <3>1. StartAt(n)' = Len(bytes)'
        <4>1. StartAt(n)' = StartAt(n)
          BY <2>1 DEF StartAt, BeyondAt, LengthAt
        <4>2. QED
          BY <1>1, <2>1, <4>1 DEF IInv, Placed, Extracting
      <3>2. QED
        BY <1>1, <2>1, <2>3, <3>1, Known DEF IInv, Placed, Extracting
    <2>5. ExtractAgrees'
      <3>1. result'[1] = spans[index + 1][1]
        BY <1>2, <2>1
      <3>2. result'[1] + result'[2] = Beyond
        BY <1>3, <2>1, Known
      <3>3. EndOf(index + 1) = Beyond
        BY <1>1, EndIsNextStart
      <3>4. EndOf(index + 1)' = EndOf(index + 1)
        BY <2>1 DEF EndOf
      <3>5. QED
        BY <2>1, <3>1, <3>2, <3>3, <3>4 DEF ExtractAgrees
    <2>6. PanicsOnlyOnEmpty'
      BY <1>2, <2>1 DEF PanicsOnlyOnEmpty
    <2>7. QED
      BY <2>2, <2>3, <2>4, <2>5, <2>6 DEF IInv
  <1>7. QED
    BY <1>5, <1>6

LEMMA StutterKeepsIInv == IInv /\ UNCHANGED vars => IInv'
  <1> SUFFICES ASSUME IInv, UNCHANGED vars PROVE IInv'
    OBVIOUS
  <1>1. UNCHANGED <<impl, kind, bytes, phase, n, i, offset, spans,
                    index, result>>
    BY DEF vars, inputVars
  <1>2. bytes' \in Vectors /\ TypeOK'
    BY <1>1 DEF IInv, TypeOK, Returned
  <1>3. Walked' /\ \A k : StartAt(k)' = StartAt(k)
    BY <1>1, SameWalk DEF IInv, inputVars
  <1>4. Placed'
    <2>1. StartAt(i)' = StartAt(i) /\ StartAt(n)' = StartAt(n)
      BY <1>1 DEF StartAt, BeyondAt, LengthAt
    <2>2. QED
      BY <1>1, <1>3, <2>1 DEF IInv, Placed, Extracting
  <1>5. ExtractAgrees'
    BY <1>1 DEF IInv, ExtractAgrees, EndOf, SpanOverflows
  <1>6. PanicsOnlyOnEmpty'
    BY <1>1 DEF IInv, PanicsOnlyOnEmpty, SomeOverflow, SpanOverflows, Outcome,
                Overflows, Length
  <1>7. QED
    BY <1>2, <1>3, <1>4, <1>5, <1>6 DEF IInv

LEMMA NextIInv == IInv /\ [Next]_vars => IInv'
  <1> SUFFICES ASSUME IInv, [Next]_vars PROVE IInv'
    OBVIOUS
  <1>1. CASE ReadCount
    BY <1>1, ReadCountKeepsIInv
  <1>2. CASE RefuseCount
    BY <1>2, RefuseCountKeepsIInv
  <1>3. CASE PassElement
    BY <1>3, PassElementKeepsIInv
  <1>4. CASE RefuseElement
    BY <1>4, RefuseElementKeepsIInv
  <1>5. CASE CheckEnd
    BY <1>5, CheckEndKeepsIInv
  <1>6. CASE Extract
    BY <1>6, ExtractKeepsIInv
  <1>7. CASE Seek
    BY <1>7, SeekKeepsIInv
  <1>8. CASE Take
    BY <1>8, TakeKeepsIInv
  <1>9. CASE UNCHANGED vars
    BY <1>9, StutterKeepsIInv
  <1>10. QED
    BY <1>1, <1>2, <1>3, <1>4, <1>5, <1>6, <1>7, <1>8, <1>9
       DEF Next, Validate, Done

LEMMA SpecIInv == Spec => []IInv
  BY InitIInv, NextIInv, PTL DEF Spec

(***************************************************************************)
(* The grammar and the walk: integers.                                     *)
(***************************************************************************)
(* The two digits of a number are those it was put together from. *)
LEMMA DigitsBack ==
  ASSUME NEW x \in Bytes, NEW y \in Bytes
  PROVE  (x + Base * y) % Base = x /\ (x + Base * y) \div Base = y
  <1> DEFINE s == x + Base * y
             q == s \div Base
             r == s % Base
  <1>1. Base \in Nat /\ Base > 0 /\ x \in 0..Base - 1 /\ y \in Nat
    BY Sizes DEF Bytes
  <1>2. s \in Nat
    BY <1>1
  <1> HIDE DEF s
  <1>3. q \in Nat /\ r \in 0..Base - 1 /\ s = q * Base + r
    BY ONLY <1>1, <1>2
  <1> HIDE DEF q, r
  <1>4. (q - y) * Base = x - r /\ q - y \in Int
    BY ONLY <1>1, <1>3 DEF s
  <1>5. q - y = 0
    <2>1. CASE q - y >= 1
      <3>1. (q - y) * Base >= Base
        BY ONLY <2>1, <1>1, <1>4
      <3>2. QED
        BY ONLY <3>1, <1>1, <1>3, <1>4
    <2>2. CASE q - y <= -1
      <3>1. (q - y) * Base <= -Base
        BY ONLY <2>2, <1>1, <1>4
      <3>2. QED
        BY ONLY <3>1, <1>1, <1>3, <1>4
    <2>3. QED
      BY ONLY <2>1, <2>2, <1>4
  <1>6. q = y /\ r = x
    BY ONLY <1>1, <1>3, <1>4, <1>5
  <1>7. QED
    BY <1>6 DEF q, r, s

LEMMA ShortestForm ==
  ASSUME NEW k \in Nat
  PROVE  /\ k < Wide => Shortest(k) = <<k>> /\ Len(Shortest(k)) = 1
         /\ ~(k < Wide) => /\ Shortest(k) = <<Wide, k % Base, k \div Base>>
                           /\ Len(Shortest(k)) = 3
         /\ Len(Shortest(k)) \in {1, 3}
  BY DEF Shortest

(* The bytes of a part of a string. *)
LEMMA PartBytes ==
  ASSUME NEW b \in Seq(Bytes), NEW o \in Nat, NEW e \in Nat, o <= e,
         e <= Len(b)
  PROVE  /\ SubSeq(b, o + 1, e) \in Seq(Bytes)
         /\ Len(SubSeq(b, o + 1, e)) = e - o
         /\ \A k \in 1..e - o : SubSeq(b, o + 1, e)[k] = b[o + k]
  <1>1. Len(b) \in Nat
    OBVIOUS
  <1>2. \A k \in o + 1..e : b[k] \in Bytes
    BY <1>1
  <1>3. /\ SubSeq(b, o + 1, e) \in Seq(Bytes)
        /\ Len(SubSeq(b, o + 1, e)) =
             IF o + 1 <= e THEN e - (o + 1) + 1 ELSE 0
        /\ \A k \in 1..e - (o + 1) + 1 :
             SubSeq(b, o + 1, e)[k] = b[(o + 1) + k - 1]
    BY <1>2, SubSeqProperties
  <1>4. /\ e - (o + 1) + 1 = e - o
        /\ ~(o + 1 <= e) => e - o = 0
        /\ \A k \in 1..e - o : (o + 1) + k - 1 = o + k
    OBVIOUS
  <1>5. QED
    BY <1>3, <1>4

(* A string of one byte, or of three, is the tuple of them. *)
LEMMA ShortSeqs ==
  ASSUME NEW s \in Seq(Bytes)
  PROVE  /\ Len(s) = 1 => s = <<s[1]>>
         /\ Len(s) = 3 => s = <<s[1], s[2], s[3]>>
  <1>1. ASSUME Len(s) = 1 PROVE s = <<s[1]>>
    <2>1. s[1] \in Bytes
      <3>1. 1 \in 1..Len(s)
        BY <1>1
      <3>2. QED
        BY <3>1, ElementOfSeq
    <2>2. <<s[1]>> \in Seq(Bytes) /\ Len(<<s[1]>>) = Len(s)
          /\ \A k \in 1..Len(s) : s[k] = <<s[1]>>[k]
      BY <1>1, <2>1
    <2>3. QED
      BY <2>2, SeqEqual
  <1>2. ASSUME Len(s) = 3 PROVE s = <<s[1], s[2], s[3]>>
    <2>1. s[1] \in Bytes /\ s[2] \in Bytes /\ s[3] \in Bytes
      <3>1. 1 \in 1..Len(s) /\ 2 \in 1..Len(s) /\ 3 \in 1..Len(s)
        BY <1>2
      <3>2. QED
        BY <3>1, ElementOfSeq
    <2> DEFINE t == <<s[1], s[2], s[3]>>
    <2>2. t \in Seq(Bytes) /\ Len(t) = 3
          /\ t[1] = s[1] /\ t[2] = s[2] /\ t[3] = s[3]
      BY <2>1
    <2> HIDE DEF t
    <2>3. \A k \in 1..Len(s) : s[k] = t[k]
      BY <1>2, <2>2
    <2>4. s = t
      BY <1>2, <2>2, <2>3, SeqEqual
    <2>5. QED
      BY <2>4 DEF t
  <1>3. QED
    BY <1>1, <1>2

(* Where the shortest encoding of a number is, every port reads it: C if   *)
(* it is of one byte.                                                      *)
LEMMA ShortestIsRead ==
  ASSUME NEW p, NEW b \in Seq(Bytes), NEW o \in Nat, NEW k \in Nat,
         o + Len(Shortest(k)) <= Len(b),
         SubSeq(b, o + 1, o + Len(Shortest(k))) = Shortest(k),
         p = "c" => ~IsWide(b, o)
  PROVE  /\ ParseOutcome(p, b, o) = "ok" /\ Number(b, o) = k
         /\ SerializedLength(p, b, o) = Len(Shortest(k))
         /\ o < Len(b) /\ (IsWide(b, o) <=> ~(k < Wide))
  <1> DEFINE c == Shortest(k)
  <1>1. /\ c = Shortest(k) /\ Len(c) \in {1, 3} /\ Wide \in Nat
        /\ Len(b) \in Nat
    <2>1. Len(b) \in Nat
      OBVIOUS
    <2>2. QED
      BY <2>1, ShortestForm, Sizes
  <1>2. \A j \in 1..Len(c) : c[j] = b[o + j]
    <2>1. o + Len(c) \in Nat /\ o <= o + Len(c) /\ (o + Len(c)) - o = Len(c)
      BY <1>1
    <2> HIDE DEF c
    <2>2. \A j \in 1..(o + Len(c)) - o :
            SubSeq(b, o + 1, o + Len(c))[j] = b[o + j]
      BY <1>1, <2>1, PartBytes
    <2>3. QED
      BY <1>1, <2>1, <2>2
  <1>3. CASE k < Wide
    <2>1. c = <<k>> /\ Len(c) = 1
      BY <1>3, ShortestForm
    <2> HIDE DEF c
    <2>2. b[o + 1] = k
      BY <1>2, <2>1
    <2>3. ~IsWide(b, o) /\ Number(b, o) = k /\ ~(Len(b) - o <= 0) /\ o < Len(b)
      BY <1>1, <1>3, <2>1, <2>2 DEF IsWide, Number
    <2>4. QED
      BY <1>1, <1>3, <2>1, <2>3 DEF ParseOutcome, SerializedLength, Canonical
  <1>4. CASE ~(k < Wide)
    <2>1. c = <<Wide, k % Base, k \div Base>> /\ Len(c) = 3
      BY <1>4, ShortestForm
    <2> HIDE DEF c
    <2>2. b[o + 1] = Wide /\ b[o + 2] = k % Base /\ b[o + 3] = k \div Base
      BY <1>2, <2>1
    <2>3. (k % Base) + Base * (k \div Base) = k
      BY CompactAssumption
    <2>4. /\ IsWide(b, o) /\ Payload(b, o) = k /\ Number(b, o) = k
          /\ ~(Len(b) - o <= 2) /\ ~(Len(b) - o <= 0) /\ o < Len(b) /\ p # "c"
      BY <1>1, <2>1, <2>2, <2>3 DEF IsWide, Payload, Number
    <2>5. Canonical(k) = 3
      BY <1>4 DEF Canonical, DataLength
    <2>6. ParseOutcome(p, b, o) = "ok"
      BY <2>4, <2>5 DEF ParseOutcome, DataLength
    <2>7. QED
      BY <1>1, <1>4, <2>1, <2>4, <2>5, <2>6 DEF SerializedLength, DataLength
  <1>5. QED
    BY <1>3, <1>4

Strict(p) == p \notin {"go", "js"}

(* What a port reads is the encoding of a number, and its shortest one     *)
(* where the port is strict; Rust may step over a longer one.              *)
LEMMA ReadIsEncoding ==
  ASSUME NEW p \in {"c", "go", "js", "rust", "sol"}, NEW b \in Seq(Bytes),
         NEW o \in Nat, ParseOutcome(p, b, o) = "ok",
         p = "rust" => ~(IsWide(b, o) /\ Canonical(Payload(b, o)) = 1)
  PROVE  \E code \in Encodings(Number(b, o), Strict(p)) :
           /\ Len(code) = SerializedLength(p, b, o)
           /\ o + Len(code) <= Len(b)
           /\ SubSeq(b, o + 1, o + Len(code)) = code
  <1>1. Len(b) \in Nat /\ Len(b) - o > 0
    BY DEF ParseOutcome
  <1>2. o + 1 \in 1..Len(b) /\ b[o + 1] \in Bytes /\ Wide = Base - 1
    BY <1>1, Sizes
  <1>3. CASE ~IsWide(b, o)
    <2>1. Number(b, o) = b[o + 1] /\ b[o + 1] < Wide
      BY <1>2, <1>3, Sizes DEF Number, IsWide, Bytes
    <2>2. SerializedLength(p, b, o) = 1
      BY <1>3, <2>1 DEF SerializedLength, Canonical
    <2>3. Shortest(Number(b, o)) = <<b[o + 1]>>
      BY <2>1 DEF Shortest
    <2>4. o <= o + 1 /\ o + 1 \in Nat /\ o + 1 <= Len(b) /\ (o + 1) - o = 1
      BY <1>1
    <2>5. /\ SubSeq(b, o + 1, o + 1) \in Seq(Bytes)
          /\ Len(SubSeq(b, o + 1, o + 1)) = 1
          /\ SubSeq(b, o + 1, o + 1)[1] = b[o + 1]
      BY <2>4, PartBytes
    <2>6. SubSeq(b, o + 1, o + 1) = <<b[o + 1]>>
      BY <1>2, <2>5, ShortSeqs
    <2>7. QED
      BY <2>2, <2>3, <2>4, <2>6 DEF Encodings, Padded
  <1>4. CASE IsWide(b, o)
    <2>1. Len(b) - o > 2
      BY <1>1, <1>4 DEF ParseOutcome, DataLength
    <2>2. /\ b[o + 1] = Wide /\ b[o + 2] \in Bytes /\ b[o + 3] \in Bytes
      <3>1. b[o + 1] = Wide
        BY <1>2, <1>4, Sizes DEF IsWide, Bytes
      <3>2. QED
        BY <2>1, <3>1
    <2>3. /\ Number(b, o) = b[o + 2] + Base * b[o + 3]
          /\ Payload(b, o) = Number(b, o)
      BY <1>4 DEF Number, Payload
    <2>4. Number(b, o) % Base = b[o + 2] /\ Number(b, o) \div Base = b[o + 3]
      BY <2>2, <2>3, DigitsBack
    <2> DEFINE code == <<Wide, b[o + 2], b[o + 3]>>
    <2>5. o <= o + 3 /\ o + 3 \in Nat /\ o + 3 <= Len(b) /\ (o + 3) - o = 3
      BY <1>1, <2>1
    <2>6. /\ SubSeq(b, o + 1, o + 3) \in Seq(Bytes)
          /\ Len(SubSeq(b, o + 1, o + 3)) = 3
          /\ \A k \in 1..3 : SubSeq(b, o + 1, o + 3)[k] = b[o + k]
      BY <2>5, PartBytes
    <2>7. SubSeq(b, o + 1, o + 3) = code
      <3> DEFINE s == SubSeq(b, o + 1, o + 3)
      <3>1. s \in Seq(Bytes) /\ Len(s) = 3
            /\ s[1] = b[o + 1] /\ s[2] = b[o + 2] /\ s[3] = b[o + 3]
        BY <2>6
      <3> HIDE DEF s
      <3>2. s = <<s[1], s[2], s[3]>>
        BY <3>1, ShortSeqs
      <3>3. s = code
        BY <2>2, <3>1, <3>2
      <3>4. QED
        BY <3>3 DEF s
    <2>8. p # "c"
      BY <1>1, <1>4 DEF ParseOutcome, Canonical, DataLength
    <2>9. p \in {"rust", "sol"} => Canonical(Number(b, o)) = 3
      BY <1>1, <1>4, <2>3 DEF ParseOutcome, Canonical, DataLength
    <2>10. SerializedLength(p, b, o) = 3
      BY <1>4, <2>8, <2>9 DEF SerializedLength, DataLength
    <2>11. code \in Encodings(Number(b, o), Strict(p))
      <3>1. CASE p \in {"go", "js"}
        BY <2>4, <3>1 DEF Encodings, Padded, Strict
      <3>2. CASE p \in {"rust", "sol"}
        <4>1. ~(Number(b, o) < Wide)
          BY <2>9, <3>2 DEF Canonical
        <4>2. Shortest(Number(b, o)) = code
          BY <2>4, <4>1 DEF Shortest
        <4>3. QED
          BY <4>2 DEF Encodings, Padded
      <3>3. QED
        BY <2>8, <3>1, <3>2
    <2>12. Len(code) = 3
      OBVIOUS
    <2>13. QED
      BY <2>5, <2>7, <2>10, <2>11, <2>12
  <1>5. QED
    BY <1>3, <1>4

(***************************************************************************)
(* The grammar and the walk: elements.                                     *)
(***************************************************************************)
Part(b, o, e) == SubSeq(b, o + 1, e)
Strictly(q, s) == IsElement(q, s, TRUE)

(* A part of a part of a string, as long as what it is compared with. *)
LEMMA PartOfPart ==
  ASSUME NEW b \in Seq(Bytes), NEW o \in Nat, NEW e \in Nat, o <= e,
         e <= Len(b), NEW f \in Nat, NEW l \in Nat, f + l <= e - o
  PROVE  SubSeq(SubSeq(b, o + 1, e), f + 1, f + l)
           = SubSeq(b, (o + f) + 1, (o + f) + l)
  <1> DEFINE s == SubSeq(b, o + 1, e)
  <1>1. /\ s \in Seq(Bytes) /\ Len(s) = e - o
        /\ \A k \in 1..e - o : s[k] = b[o + k]
    BY PartBytes
  <1> HIDE DEF s
  <1>2. Len(b) \in Nat
    OBVIOUS
  <1>3. /\ f <= f + l /\ f + l \in Nat /\ f + l <= Len(s)
        /\ o + f <= (o + f) + l /\ (o + f) + l \in Nat /\ o + f \in Nat
        /\ (o + f) + l <= Len(b)
        /\ (f + l) - f = l /\ ((o + f) + l) - (o + f) = l
    BY <1>1, <1>2
  <1> DEFINE x == SubSeq(s, f + 1, f + l)
             y == SubSeq(b, (o + f) + 1, (o + f) + l)
  <1>4. x \in Seq(Bytes) /\ Len(x) = l /\ \A k \in 1..l : x[k] = s[f + k]
    <2> DEFINE c == f + l
    <2>1. s \in Seq(Bytes) /\ c \in Nat /\ f <= c /\ c <= Len(s) /\ c - f = l
      BY <1>1, <1>3
    <2> HIDE DEF c
    <2>2. /\ SubSeq(s, f + 1, c) \in Seq(Bytes)
          /\ Len(SubSeq(s, f + 1, c)) = c - f
          /\ \A k \in 1..c - f : SubSeq(s, f + 1, c)[k] = s[f + k]
      BY ONLY <2>1, PartBytes, f \in Nat, ZenonT(30)
    <2>3. QED
      BY <2>1, <2>2 DEF c
  <1>5. /\ y \in Seq(Bytes) /\ Len(y) = l
        /\ \A k \in 1..l : y[k] = b[(o + f) + k]
    <2> DEFINE a == o + f
    <2>1. /\ a \in Nat /\ a <= a + l /\ a + l \in Nat /\ a + l <= Len(b)
          /\ (a + l) - a = l
      BY <1>3
    <2> HIDE DEF a
    <2>2. /\ SubSeq(b, a + 1, a + l) \in Seq(Bytes)
          /\ Len(SubSeq(b, a + 1, a + l)) = (a + l) - a
          /\ \A k \in 1..(a + l) - a : SubSeq(b, a + 1, a + l)[k] = b[a + k]
      BY <2>1, PartBytes
    <2>3. QED
      BY <2>1, <2>2 DEF a
  <1> HIDE DEF x, y
  <1>6. ASSUME NEW k \in 1..l PROVE x[k] = y[k]
    <2>1. f + k \in 1..e - o /\ o + (f + k) = (o + f) + k
      OBVIOUS
    <2>2. s[f + k] = b[o + (f + k)]
      BY <1>1, <2>1
    <2>3. QED
      BY <1>4, <1>5, <2>1, <2>2
  <1>7. x = y
    BY <1>4, <1>5, <1>6, SeqEqual
  <1>8. QED
    BY <1>7 DEF s, x, y

(* C takes no integer of more than a byte. *)
LEMMA NarrowInC ==
  ASSUME NEW b \in Seq(Bytes), NEW o \in Nat, ParseOutcome("c", b, o) = "ok"
  PROVE  ~IsWide(b, o)
  <1>1. ~(Len(b) - o <= 0)
    BY DEF ParseOutcome
  <1>2. ASSUME IsWide(b, o) PROVE FALSE
    <2>1. Canonical(Payload(b, o)) # DataLength
      BY DEF Canonical, DataLength
    <2>2. ParseOutcome("c", b, o) = "bad"
      BY <1>1, <1>2, <2>1 DEF ParseOutcome
    <2>3. QED
      BY <2>2
  <1>3. QED
    BY <1>2

(* What a port passes over is an element, if it ends within the string. *)
LEMMA PassedIsElement ==
  ASSUME NEW p \in {"c", "go", "js", "rust", "sol"}, NEW q \in Kinds,
         NEW b \in Seq(Bytes), NEW o \in Nat,
         ElementOutcome(p, q, b, o) = "ok",
         o + ElementLength(p, q, b, o) <= Len(b),
         p = "rust" => ~(/\ IsWide(b, o + Before[q])
                         /\ Canonical(Payload(b, o + Before[q])) = 1)
  PROVE  /\ ElementLength(p, q, b, o) \in Nat \ {0}
         /\ IsElement(q, SubSeq(b, o + 1, o + ElementLength(p, q, b, o)),
                      Strict(p))
  <1> DEFINE f == Before[q]  g == After[q]
             len == ElementLength(p, q, b, o)
             k == Number(b, o + f)
             c == SerializedLength(p, b, o + f)
             s == SubSeq(b, o + 1, o + len)
  <1>1. f \in Nat /\ g \in Nat /\ o + f \in Nat
    BY ElementAssumption
  <1>2. ParseOutcome(p, b, o + f) = "ok"
    BY DEF ElementOutcome
  <1>3. len \in Nat \ {0}
    BY ParsedElement
  <1>4. k \in Nat /\ c \in {1, 3} /\ len = f + c + k + g
    <2>1. k \in 0..Base * Base - 1 /\ c \in {1, 3}
      BY <1>1, <1>2, ParsedNumber
    <2>2. QED
      BY <2>1, Sizes DEF ElementLength
  <1>5. PICK code \in Encodings(k, Strict(p)) :
          /\ Len(code) = c /\ (o + f) + Len(code) <= Len(b)
          /\ SubSeq(b, (o + f) + 1, (o + f) + Len(code)) = code
    <2> DEFINE a == o + f
    <2>1. a \in Nat /\ ParseOutcome(p, b, a) = "ok"
      BY <1>1, <1>2
    <2>2. p = "rust" => ~(IsWide(b, a) /\ Canonical(Payload(b, a)) = 1)
      OBVIOUS
    <2> HIDE DEF a
    <2>3. \E code \in Encodings(Number(b, a), Strict(p)) :
            /\ Len(code) = SerializedLength(p, b, a)
            /\ a + Len(code) <= Len(b)
            /\ SubSeq(b, a + 1, a + Len(code)) = code
      BY <2>1, <2>2, ReadIsEncoding
    <2>4. QED
      BY <2>3 DEF a
  <1> HIDE DEF k, c
  <1>6. o + len <= Len(b)
    OBVIOUS
  <1> HIDE DEF len, f, g
  <1>7. o <= o + len /\ o + len \in Nat /\ (o + len) - o = len
    BY <1>3
  <1>8. Len(s) = len
    BY <1>3, <1>6, <1>7, PartBytes
  <1>9. f + c <= (o + len) - o /\ c \in Nat /\ k \in 0..len
    BY <1>1, <1>3, <1>4, <1>7
  <1>10. SubSeq(s, f + 1, f + c) = SubSeq(b, (o + f) + 1, (o + f) + c)
    BY <1>1, <1>6, <1>7, <1>9, PartOfPart
  <1> HIDE DEF s
  <1>11. /\ k \in 0..Len(s) /\ Len(s) = f + Len(code) + k + g
         /\ SubSeq(s, f + 1, f + Len(code)) = code
    BY <1>4, <1>5, <1>8, <1>9, <1>10
  <1>12. IsElement(q, s, Strict(p))
    BY <1>11 DEF IsElement, f, g
  <1>13. QED
    BY <1>3, <1>12 DEF s, len

(* An element of shortest encodings is passed over by every port, and      *)
(* wholly; by C if its length takes one byte.                              *)
LEMMA ElementIsPassed ==
  ASSUME NEW p, NEW q \in Kinds, NEW b \in Seq(Bytes),
         NEW o \in Nat, NEW e \in Nat, o < e, e <= Len(b),
         Strictly(q, Part(b, o, e)),
         p = "c" => ~IsWide(b, o + Before[q])
  PROVE  /\ ElementOutcome(p, q, b, o) = "ok"
         /\ ElementLength(p, q, b, o) = e - o
  <1> DEFINE f == Before[q]  g == After[q]
             s == SubSeq(b, o + 1, e)
  <1>1. f \in Nat /\ g \in Nat /\ o + f \in Nat /\ Len(b) \in Nat
    BY ElementAssumption
  <1>2. o <= e
    OBVIOUS
  <1>3. Len(s) = e - o
    BY <1>2, PartBytes
  <1>4. PICK k \in 0..Len(s) : \E code \in Encodings(k, TRUE) :
          /\ Len(s) = f + Len(code) + k + g
          /\ SubSeq(s, f + 1, f + Len(code)) = code
    BY DEF Strictly, IsElement, Part
  <1> DEFINE code == Shortest(k)
  <1>5. Len(s) = f + Len(code) + k + g /\ SubSeq(s, f + 1, f + Len(code)) = code
    BY <1>4 DEF Encodings, Padded
  <1>6. k \in Nat
    BY <1>3
  <1>7. Len(code) \in {1, 3}
    BY <1>6, ShortestForm
  <1> HIDE DEF code, f, g
  <1>8. f + Len(code) <= e - o /\ Len(code) \in Nat
    BY <1>1, <1>3, <1>5, <1>6, <1>7
  <1>9. SubSeq(s, f + 1, f + Len(code))
          = SubSeq(b, (o + f) + 1, (o + f) + Len(code))
    BY <1>1, <1>2, <1>8, PartOfPart
  <1> HIDE DEF s
  <1>10. (o + f) + Len(code) <= Len(b)
    BY <1>1, <1>7, <1>8
  <1> DEFINE a == o + f
  <1>11. a \in Nat /\ a + Len(code) <= Len(b) /\ a + 1 \in 1..Len(b)
         /\ ~(Len(b) - o < f + 1)
    <2> DEFINE size == Len(b)  l == Len(code)
    <2>1. size \in Nat /\ (l = 1 \/ l = 3) /\ a + l <= size
      BY <1>1, <1>7, <1>10
    <2> HIDE DEF size, l
    <2>2. a + 1 <= size
      BY <1>1, <2>1
    <2>3. a \in Nat /\ a + l <= size /\ a + 1 \in 1..size /\ ~(size - o < f + 1)
      BY <1>1, <2>1, <2>2
    <2>4. QED
      BY <2>3 DEF size, l
  <1>12. SubSeq(b, a + 1, a + Len(code)) = code
    BY <1>5, <1>9
  <1> HIDE DEF a
  <1>13. p = "c" => ~IsWide(b, a)
    BY DEF a, f
  <1>14. /\ ParseOutcome(p, b, a) = "ok" /\ Number(b, a) = k
         /\ SerializedLength(p, b, a) = Len(code)
    BY <1>6, <1>11, <1>12, <1>13, ShortestIsRead, SMTT(30) DEF code
  <1>15. ElementOutcome(p, q, b, o) = "ok"
    BY <1>11, <1>14 DEF ElementOutcome, f, a
  <1>16. ElementLength(p, q, b, o) = f + Len(code) + k + g
    BY <1>14 DEF ElementLength, f, g, a
  <1>17. QED
    BY <1>1, <1>3, <1>5, <1>6, <1>7, <1>15, <1>16

(***************************************************************************)
(* The grammar and the walk: the loop follows the cuts of a vector.        *)
(***************************************************************************)
Cuts(k) == [1..k - 1 -> 1..Len(bytes)]
CutAt(k, cuts, m) == Cut(bytes, k, Shortest(k), cuts, m)

Parsed(k, cuts) ==
  /\ Len(Shortest(k)) <= Len(bytes)
  /\ SubSeq(bytes, 1, Len(Shortest(k))) = Shortest(k)
  /\ Consists(kind, bytes, k, Shortest(k), cuts, TRUE)

(* A vector, and one that the port takes. *)
Regular ==
  /\ IsVector(kind, bytes, TRUE)
  /\ ~(impl = "c" /\ HasWide) /\ ~(GoVout /\ IsWide(bytes, 0))

(* What a round adds to the offset, where no sum wraps, and how many       *)
(* elements there can be.                                                  *)
Wraps == impl \in {"go", "rust"} /\ SomeOverflow

Counting ==
  /\ phase \in {"loop", "accepted"} => n > 0 \/ GoVout
  /\ phase = "loop" /\ ~Wraps => i <= offset
  /\ phase = "accepted" =>
       StartAt(n) = Len(bytes) /\ (~Wraps => n <= Len(bytes))

Tracked ==
  Regular =>
    /\ phase \notin {"refused", "fault"}
    /\ ~SomeOverflow
    /\ phase = "loop" =>
         \A k \in 1..Len(bytes) : \A cuts \in Cuts(k) :
           Parsed(k, cuts) => n = k /\ offset = CutAt(k, cuts, i)

LEMMA VectorIsParsed ==
  ASSUME IsVector(kind, bytes, TRUE)
  PROVE  \E k \in 1..Len(bytes) : \E cuts \in Cuts(k) : Parsed(k, cuts)
  BY DEF IsVector, Encodings, Padded, Parsed, Cuts

LEMMA CutType ==
  ASSUME IInv, NEW k \in 1..Len(bytes), NEW cuts \in Cuts(k),
         Parsed(k, cuts), NEW m \in 0..k
  PROVE  CutAt(k, cuts, m) \in 1..Len(bytes)
  <1>1. Len(bytes) \in Nat /\ k \in Nat
    BY Known
  <1>2. Len(Shortest(k)) \in {1, 3} /\ Len(Shortest(k)) <= Len(bytes)
    BY <1>1, ShortestForm DEF Parsed
  <1>3. Len(Shortest(k)) \in 1..Len(bytes)
    <2> DEFINE c == Len(Shortest(k))
               len == Len(bytes)
    <2>1. len \in Nat /\ c \in {1, 3} /\ c <= len
      BY <1>1, <1>2
    <2> HIDE DEF c, len
    <2>2. c \in 1..len
      BY ONLY <2>1
    <2>3. QED
      BY <2>2 DEF c, len
  <1>4. m # 0 /\ m # k => cuts[m] \in 1..Len(bytes)
    <2> SUFFICES ASSUME m # 0, m # k PROVE cuts[m] \in 1..Len(bytes)
      OBVIOUS
    <2>1. m \in 1..k - 1
      BY <1>1
    <2>2. QED
      BY <2>1 DEF Cuts
  <1>5. Len(bytes) \in 1..Len(bytes)
    BY <1>1
  <1>6. QED
    BY <1>3, <1>4, <1>5 DEF CutAt, Cut

(* Where no integer of the vector is wide, none of any parse is. *)
Narrow(k, cuts) ==
  /\ ~IsWide(bytes, 0)
  /\ \A m \in 0..k - 1 : ~IsWide(bytes, CutAt(k, cuts, m) + Before[kind])

LEMMA NarrowVector ==
  ASSUME NEW k \in 1..Len(bytes), NEW cuts \in Cuts(k), Parsed(k, cuts),
         ~HasWide
  PROVE  Narrow(k, cuts)
  BY DEF HasWide, Narrow, Parsed, Cuts, CutAt

(* From one cut the port goes to the next. *)
LEMMA NextCut ==
  ASSUME IInv, NEW k \in 1..Len(bytes), NEW cuts \in Cuts(k),
         Parsed(k, cuts), NEW m \in 0..k - 1, ~(impl = "c" /\ HasWide)
  PROVE  /\ CutAt(k, cuts, m) < CutAt(k, cuts, m + 1)
         /\ CutAt(k, cuts, m) \in Nat /\ CutAt(k, cuts, m + 1) \in Nat
         /\ CutAt(k, cuts, m + 1) <= Len(bytes)
         /\ OutcomeAt(CutAt(k, cuts, m)) = "ok"
         /\ CutAt(k, cuts, m) + LengthAt(CutAt(k, cuts, m))
              = CutAt(k, cuts, m + 1)
  <1> DEFINE o == CutAt(k, cuts, m)  e == CutAt(k, cuts, m + 1)
  <1>1. /\ k \in Nat /\ Len(bytes) \in Nat /\ m \in 0..k /\ m + 1 \in 0..k
        /\ m + 1 \in 1..k /\ (m + 1) - 1 = m
    BY Known
  <1>2. o \in 1..Len(bytes) /\ e \in 1..Len(bytes)
    BY <1>1, CutType
  <1>3. o \in Nat /\ e \in Nat /\ e <= Len(bytes)
    BY <1>1, <1>2
  <1>4. /\ CutAt(k, cuts, (m + 1) - 1) < CutAt(k, cuts, m + 1)
        /\ IsElement(kind, SubSeq(bytes, CutAt(k, cuts, (m + 1) - 1) + 1,
                            CutAt(k, cuts, m + 1)), TRUE)
    BY <1>1 DEF Parsed, Consists, CutAt
  <1>5. o < e /\ IsElement(kind, SubSeq(bytes, o + 1, e), TRUE)
    BY <1>1, <1>4
  <1>6. impl = "c" => ~IsWide(bytes, o + Before[kind])
    BY NarrowVector DEF Narrow
  <1> HIDE DEF o, e
  <1>7. /\ ElementOutcome(impl, kind, bytes, o) = "ok"
        /\ o + ElementLength(impl, kind, bytes, o) = e
    <2>1. kind \in Kinds /\ bytes \in Seq(Bytes)
      BY Known
    <2>2. Strictly(kind, Part(bytes, o, e))
      BY <1>5 DEF Strictly, Part
    <2>3. /\ ElementOutcome(impl, kind, bytes, o) = "ok"
          /\ ElementLength(impl, kind, bytes, o) = e - o
      BY ONLY <1>3, <1>5, <1>6, <2>1, <2>2, ElementIsPassed
    <2> DEFINE l == ElementLength(impl, kind, bytes, o)
    <2> HIDE DEF l
    <2>4. o + l = e
      BY ONLY <1>3, <2>3 DEF l
    <2>5. QED
      BY <2>3, <2>4 DEF l
  <1>8. QED
    BY <1>3, <1>5, <1>7 DEF OutcomeAt, LengthAt, o, e

(* And it begins at the first. *)
LEMMA FirstCut ==
  ASSUME IInv, NEW k \in 1..Len(bytes), NEW cuts \in Cuts(k),
         Parsed(k, cuts), ~(impl = "c" /\ HasWide),
         ~(GoVout /\ IsWide(bytes, 0))
  PROVE  /\ CountOutcome = "ok" /\ Number(bytes, 0) = k
         /\ SerializedLength(impl, bytes, 0) = CutAt(k, cuts, 0)
  <1>1. k \in Nat /\ k > 0 /\ Len(bytes) \in Nat /\ Len(bytes) > 0
    BY Known
  <1>2. /\ 0 + Len(Shortest(k)) <= Len(bytes)
        /\ SubSeq(bytes, 0 + 1, 0 + Len(Shortest(k))) = Shortest(k)
    <2>1. Len(Shortest(k)) \in Nat
      BY <1>1, ShortestForm
    <2>2. 0 + Len(Shortest(k)) = Len(Shortest(k)) /\ 0 + 1 = 1
      BY <2>1
    <2>3. QED
      BY <2>2 DEF Parsed
  <1>3. impl = "c" => ~IsWide(bytes, 0)
    BY NarrowVector DEF Narrow
  <1>4. /\ ParseOutcome(impl, bytes, 0) = "ok" /\ Number(bytes, 0) = k
        /\ SerializedLength(impl, bytes, 0) = Len(Shortest(k))
        /\ (IsWide(bytes, 0) <=> ~(k < Wide))
    BY <1>1, <1>2, <1>3, Known, ShortestIsRead
  <1>5. bytes # <<>>
    BY <1>1
  <1>6. ~(IF GoVout THEN Number(bytes, 0) >= Wide ELSE Number(bytes, 0) = 0)
    BY <1>1, <1>4, Sizes
  <1>7. CountOutcome = "ok"
    BY <1>4, <1>5, <1>6 DEF CountOutcome
  <1>8. QED
    BY <1>4, <1>7 DEF CutAt, Cut

LEMMA SameGrammar ==
  ASSUME UNCHANGED inputVars
  PROVE  /\ Regular' <=> Regular
         /\ \A k : Cuts(k)' = Cuts(k)
         /\ \A k, cuts : Parsed(k, cuts)' <=> Parsed(k, cuts)
         /\ \A k, cuts, m : CutAt(k, cuts, m)' = CutAt(k, cuts, m)
  <1>1. UNCHANGED <<impl, kind, bytes>>
    BY DEF inputVars
  <1>2. \A s, k, code, cuts :
          Consists(kind, s, k, code, cuts, TRUE)'
            <=> Consists(kind, s, k, code, cuts, TRUE)
    BY <1>1 DEF Consists, Cut, IsElement
  <1>3. IsVector(kind, bytes, TRUE)' <=> IsVector(kind, bytes, TRUE)
    BY <1>1, <1>2 DEF IsVector
  <1>4. Regular' <=> Regular
    <2>1. HasWide' <=> HasWide
      BY <1>1, <1>2 DEF HasWide, IsWide, Cut
    <2>2. QED
      BY <1>1, <1>3, <2>1 DEF Regular, IsWide, GoVout
  <1>5. \A k, cuts : Parsed(k, cuts)' <=> Parsed(k, cuts)
    BY <1>1, <1>2 DEF Parsed
  <1>6. QED
    BY <1>1, <1>4, <1>5 DEF Cuts, CutAt

GInv == Counting /\ Tracked

LEMMA InitGInv == Init => GInv
  BY DEF Init, GInv, Counting, Tracked, Wraps, SomeOverflow, SpanOverflows

(* A step that leaves the loop, or stays out of it, and does not fail. *)
LEMMA OutsideKeepsGInv ==
  ASSUME GInv, UNCHANGED <<inputVars, spans>>,
         phase' \notin {"loop", "accepted"},
         Regular => phase' \notin {"refused", "fault"}
  PROVE  GInv'
  <1>1. Regular' <=> Regular
    BY SameGrammar
  <1>2. SomeOverflow' <=> SomeOverflow
    BY DEF SomeOverflow, SpanOverflows
  <1>3. QED
    BY <1>1, <1>2 DEF GInv, Counting, Tracked, Wraps

LEMMA ReadCountKeepsGInv ==
  ASSUME IInv, GInv, ReadCount
  PROVE  GInv'
  <1>1. /\ phase = "start" /\ CountOutcome = "ok" /\ phase' = "loop"
        /\ n' = Number(bytes, 0) /\ i' = 0
        /\ offset' = SerializedLength(impl, bytes, 0)
        /\ UNCHANGED <<inputVars, impl, kind, bytes, spans>>
    BY DEF ReadCount, inputVars
  <1>2. spans = <<>> /\ ~SomeOverflow'
    BY <1>1 DEF IInv, Placed, SomeOverflow, SpanOverflows
  <1>3. ParseOutcome(impl, bytes, 0) = "ok" /\ (n' # 0 \/ GoVout)
    <2>1. CASE bytes = <<>> /\ impl = "sol"
      BY <1>1, <2>1 DEF CountOutcome
    <2>2. CASE ~(bytes = <<>> /\ impl = "sol")
      <3>1. ParseOutcome(impl, bytes, 0) = "ok"
        BY <1>1, <2>2 DEF CountOutcome
      <3>2. bytes # <<>>
        BY <3>1, Known, ParsedNumber
      <3>3. ~(IF GoVout THEN Number(bytes, 0) >= Wide
                        ELSE Number(bytes, 0) = 0)
        BY <1>1, <2>2, <3>1, <3>2 DEF CountOutcome
      <3>4. QED
        BY <1>1, <3>1, <3>3
    <2>3. QED
      BY <2>1, <2>2
  <1>4. n' \in 0..Base * Base - 1 /\ offset' \in {1, 3}
    BY <1>1, <1>3, Known, ParsedNumber
  <1>5. Counting'
    <2>1. n' \in Nat
      BY <1>4, Sizes
    <2>2. QED
      BY <1>1, <1>3, <1>4, <2>1 DEF Counting, GoVout
  <1>6. Tracked'
    <2>1. /\ Regular' <=> Regular
          /\ \A k : Cuts(k)' = Cuts(k)
          /\ \A k, cuts : Parsed(k, cuts)' <=> Parsed(k, cuts)
          /\ \A k, cuts, m : CutAt(k, cuts, m)' = CutAt(k, cuts, m)
      BY <1>1, SameGrammar
    <2>2. ASSUME Regular, NEW k \in 1..Len(bytes), NEW cuts \in Cuts(k),
                 Parsed(k, cuts)
          PROVE  n' = k /\ offset' = CutAt(k, cuts, 0)
      BY <1>1, <2>2, FirstCut DEF Regular
    <2>3. \A k, cuts : CutAt(k, cuts, i)' = CutAt(k, cuts, 0)
      BY <1>1 DEF CutAt, Cut
    <2>4. QED
      BY <1>1, <1>2, <2>1, <2>2, <2>3 DEF Tracked
  <1>7. QED
    BY <1>5, <1>6 DEF GInv

LEMMA RefuseCountKeepsGInv ==
  ASSUME IInv, GInv, RefuseCount
  PROVE  GInv'
  <1>1. /\ UNCHANGED <<inputVars, spans>> /\ CountOutcome # "ok"
        /\ phase' \in {"refused", "fault"}
    BY DEF RefuseCount, Leave
  <1>2. ~Regular
    <2> SUFFICES ASSUME Regular PROVE FALSE
      OBVIOUS
    <2>1. PICK k \in 1..Len(bytes) : \E cuts \in Cuts(k) : Parsed(k, cuts)
      BY VectorIsParsed DEF Regular
    <2>2. PICK cuts \in Cuts(k) : Parsed(k, cuts)
      BY <2>1
    <2>3. CountOutcome = "ok"
      BY <2>2, FirstCut DEF Regular
    <2>4. QED
      BY <1>1, <2>3
  <1>3. QED
    BY <1>1, <1>2, OutsideKeepsGInv

(* In the loop over a vector the next element is there. *)
LEMMA NextIsThere ==
  ASSUME IInv, GInv, Regular, phase = "loop", i < n,
         NEW k \in 1..Len(bytes), NEW cuts \in Cuts(k), Parsed(k, cuts)
  PROVE  /\ Outcome = "ok" /\ Inside
         /\ offset + Length = CutAt(k, cuts, i + 1) /\ Beyond = offset + Length
         /\ offset + Length <= Len(bytes) /\ offset + Length < Word
  <1>1. n = k /\ offset = CutAt(k, cuts, i)
    BY DEF GInv, Tracked
  <1>2. i \in 0..k - 1
    BY <1>1, Known
  <1>3. /\ CutAt(k, cuts, i) < CutAt(k, cuts, i + 1)
        /\ CutAt(k, cuts, i) \in Nat /\ CutAt(k, cuts, i + 1) \in Nat
        /\ CutAt(k, cuts, i + 1) <= Len(bytes)
        /\ OutcomeAt(CutAt(k, cuts, i)) = "ok"
        /\ CutAt(k, cuts, i) + LengthAt(CutAt(k, cuts, i))
             = CutAt(k, cuts, i + 1)
    BY <1>2, NextCut DEF Regular
  <1>4. Outcome = "ok" /\ offset + Length = CutAt(k, cuts, i + 1)
    BY <1>1, <1>3 DEF Outcome, Length, OutcomeAt, LengthAt
  <1>5. offset < Len(bytes) /\ offset + Length <= Len(bytes)
    BY <1>1, <1>3, <1>4, Known
  <1>6. Len(bytes) < Word /\ Word \in Nat
    <2>1. After[kind] \in Nat
      BY Known, ElementAssumption
    <2>2. QED
      BY <2>1, Known, Sizes
  <1>7. offset + Length \in Nat
    BY <1>3, <1>4
  <1>8. offset + Length < Word
    BY <1>5, <1>6, <1>7, Known
  <1>9. Beyond = offset + Length
    BY <1>4, <1>6, <1>7, <1>8, BeyondType DEF Overflows
  <1>10. QED
    BY <1>4, <1>5, <1>8, <1>9 DEF Inside

LEMMA PassElementKeepsGInv ==
  ASSUME IInv, GInv, PassElement
  PROVE  GInv'
  <1>1. /\ phase = "loop" /\ phase' = "loop" /\ i < n /\ Outcome = "ok"
        /\ i' = i + 1 /\ offset' = Beyond
        /\ spans' = Append(spans, <<offset, Length>>)
        /\ UNCHANGED <<inputVars, impl, kind, bytes, n>>
    BY DEF PassElement, Validating, inputVars
  <1>2. /\ Length \in Nat \ {0} /\ Beyond \in Nat
        /\ (~Overflows => Beyond = offset + Length)
    BY <1>1, BeyondType
  <1>3. Len(spans) = i /\ spans \in Seq(Nat \X Nat)
    BY <1>1, Known DEF IInv, Placed
  <1>4. SomeOverflow' <=> SomeOverflow \/ offset + Length >= Word
    <2>1. <<offset, Length>> \in Nat \X Nat
      BY <1>2, Known
    <2>2. /\ spans' \in Seq(Nat \X Nat) /\ Len(spans') = i + 1
          /\ spans'[i + 1] = <<offset, Length>>
          /\ \A k \in 1..i : spans'[k] = spans[k]
      BY <1>1, <1>3, <2>1, Known, SMTT(30)
    <2>3. spans'[i + 1][1] = offset /\ spans'[i + 1][2] = Length
      BY <2>2
    <2>4. DOMAIN spans = 1..i /\ DOMAIN spans' = 1..i + 1
      BY <1>3, <2>2
    <2>5. \A k \in 1..i + 1 : k \in 1..i \/ k = i + 1
      BY Known
    <2>6. i + 1 \in 1..i + 1 /\ \A k \in 1..i : k \in 1..i + 1
      BY Known
    <2>7. ASSUME SomeOverflow' PROVE SomeOverflow \/ offset + Length >= Word
      <3>1. PICK k \in 1..i + 1 : spans'[k][1] + spans'[k][2] >= Word
        BY <2>4, <2>7 DEF SomeOverflow, SpanOverflows
      <3>2. CASE k = i + 1
        BY <2>3, <3>1, <3>2
      <3>3. CASE k \in 1..i
        BY <2>2, <2>4, <3>1, <3>3 DEF SomeOverflow, SpanOverflows
      <3>4. QED
        BY <2>5, <3>2, <3>3
    <2>8. ASSUME SomeOverflow PROVE SomeOverflow'
      <3>1. PICK k \in 1..i : spans[k][1] + spans[k][2] >= Word
        BY <2>4, <2>8 DEF SomeOverflow, SpanOverflows
      <3>2. spans'[k][1] + spans'[k][2] >= Word
        BY <2>2, <3>1
      <3>3. QED
        BY <2>4, <2>6, <3>2 DEF SomeOverflow, SpanOverflows
    <2>9. ASSUME offset + Length >= Word PROVE SomeOverflow'
      BY <2>3, <2>4, <2>6, <2>9 DEF SomeOverflow, SpanOverflows
    <2>10. QED
      BY <2>7, <2>8, <2>9
  <1>5. Counting'
    <2>1. n' > 0 \/ GoVout'
      BY <1>1 DEF GInv, Counting, GoVout
    <2>2. ASSUME ~Wraps' PROVE i' <= offset'
      <3>1. ~Wraps /\ ~Overflows
        BY <1>1, <1>4, <2>2 DEF Wraps, Overflows
      <3>2. i <= offset /\ offset' = offset + Length
        BY <1>1, <1>2, <3>1 DEF GInv, Counting
      <3>3. QED
        BY <1>1, <1>2, <3>1, <3>2, Known
    <2>3. QED
      BY <1>1, <2>1, <2>2 DEF Counting
  <1>6. Tracked'
    <2>1. /\ Regular' <=> Regular
          /\ \A k : Cuts(k)' = Cuts(k)
          /\ \A k, cuts : Parsed(k, cuts)' <=> Parsed(k, cuts)
          /\ \A k, cuts, m : CutAt(k, cuts, m)' = CutAt(k, cuts, m)
      BY <1>1, SameGrammar
    <2>2. ASSUME Regular, NEW k \in 1..Len(bytes), NEW cuts \in Cuts(k),
                 Parsed(k, cuts)
          PROVE  /\ n' = k /\ offset' = CutAt(k, cuts, i + 1)
                 /\ offset + Length < Word
      <3>1. n = k
        BY <1>1, <2>2 DEF GInv, Tracked
      <3>2. QED
        BY <1>1, <2>2, <3>1, NextIsThere
    <2>3. \A k, cuts : CutAt(k, cuts, i)' = CutAt(k, cuts, i + 1)
      BY <1>1 DEF CutAt, Cut
    <2>4. ASSUME Regular PROVE ~SomeOverflow'
      <3>1. PICK k \in 1..Len(bytes) : \E cuts \in Cuts(k) : Parsed(k, cuts)
        BY <2>4, VectorIsParsed DEF Regular
      <3>2. PICK cuts \in Cuts(k) : Parsed(k, cuts)
        BY <3>1
      <3>3. offset + Length < Word
        BY <2>2, <2>4, <3>2
      <3>4. offset + Length \in Nat /\ Word \in Nat
        BY <1>2, Known, Sizes
      <3>5. ~SomeOverflow
        BY <2>4 DEF GInv, Tracked
      <3>6. QED
        BY <1>4, <3>3, <3>4, <3>5
    <2>5. QED
      BY <1>1, <2>1, <2>2, <2>3, <2>4 DEF Tracked
  <1>7. QED
    BY <1>5, <1>6 DEF GInv

LEMMA RefuseElementKeepsGInv ==
  ASSUME IInv, GInv, RefuseElement
  PROVE  GInv'
  <1>1. /\ phase = "loop" /\ i < n /\ UNCHANGED <<inputVars, spans>>
        /\ phase' \in {"refused", "fault"}
    BY DEF RefuseElement, Validating, Leave
  <1>2. ~Regular
    <2> SUFFICES ASSUME Regular PROVE FALSE
      OBVIOUS
    <2>1. PICK k \in 1..Len(bytes) : \E cuts \in Cuts(k) : Parsed(k, cuts)
      BY VectorIsParsed DEF Regular
    <2>2. PICK cuts \in Cuts(k) : Parsed(k, cuts)
      BY <2>1
    <2>3. /\ Outcome = "ok" /\ Inside /\ Beyond = offset + Length
          /\ offset + Length <= Len(bytes) /\ offset + Length < Word
      BY <1>1, <2>2, NextIsThere
    <2>4. Length \in Nat /\ Word \in Nat
      BY <2>3, BeyondType, Sizes
    <2>5. ~(Beyond > Len(bytes)) /\ ~Overflows
      BY <2>3, <2>4, Known DEF Overflows
    <2>6. QED
      BY <2>3, <2>5 DEF RefuseElement
  <1>3. QED
    BY <1>1, <1>2, OutsideKeepsGInv

LEMMA CheckEndKeepsGInv ==
  ASSUME IInv, GInv, CheckEnd
  PROVE  GInv'
  <1>1. /\ phase = "loop" /\ i = n
        /\ phase' = IF offset = Len(bytes) THEN "accepted" ELSE "refused"
        /\ UNCHANGED <<inputVars, impl, kind, bytes, n, i, offset, spans>>
    BY DEF CheckEnd, Leave, inputVars
  <1>2. CASE offset = Len(bytes)
    <2>1. phase' = "accepted"
      BY <1>1, <1>2
    <2>2. /\ (SomeOverflow' <=> SomeOverflow) /\ (GoVout' <=> GoVout)
          /\ (Wraps' <=> Wraps)
      BY <1>1 DEF Wraps, SomeOverflow, SpanOverflows, GoVout
    <2>3. StartAt(n)' = Len(bytes)
      <3>1. offset = StartAt(i)
        BY <1>1 DEF IInv, Placed
      <3>2. \A k : StartAt(k)' = StartAt(k)
        BY <1>1, SameWalk
      <3>3. StartAt(n)' = StartAt(n)
        BY <1>1 DEF StartAt, BeyondAt, LengthAt
      <3>4. QED
        BY <1>1, <1>2, <3>1, <3>3
    <2>4. Counting'
      BY <1>1, <1>2, <2>1, <2>2, <2>3 DEF GInv, Counting
    <2>5. Tracked'
      <3>1. Regular' <=> Regular
        BY <1>1, SameGrammar
      <3>2. QED
        BY <2>1, <2>2, <3>1 DEF GInv, Tracked
    <2>6. QED
      BY <2>4, <2>5 DEF GInv
  <1>3. CASE offset # Len(bytes)
    <2>1. phase' = "refused"
      BY <1>1, <1>3
    <2>2. ~Regular
      <3> SUFFICES ASSUME Regular PROVE FALSE
        OBVIOUS
      <3>1. PICK k \in 1..Len(bytes) : \E cuts \in Cuts(k) : Parsed(k, cuts)
        BY VectorIsParsed DEF Regular
      <3>2. PICK cuts \in Cuts(k) : Parsed(k, cuts)
        BY <3>1
      <3>3. n = k /\ offset = CutAt(k, cuts, i)
        BY <1>1, <3>2 DEF GInv, Tracked
      <3>4. k # 0
        BY Known
      <3>5. offset = Len(bytes)
        BY <1>1, <3>3, <3>4 DEF CutAt, Cut
      <3>6. QED
        BY <1>3, <3>5
    <2>3. QED
      BY <1>1, <2>1, <2>2, OutsideKeepsGInv
  <1>4. QED
    BY <1>2, <1>3

(* Extraction from a vector does not panic: no sum wraps. *)
LEMMA ExtractionKeepsGInv ==
  ASSUME IInv, GInv, Extract \/ Seek \/ Take
  PROVE  GInv'
  <1>1. CASE Extract
    <2>1. UNCHANGED <<inputVars, spans>> /\ phase' \in {"seek", "missing"}
      BY <1>1 DEF Extract
    <2>2. QED
      BY <2>1, OutsideKeepsGInv
  <1>2. CASE Seek
    <2>1. UNCHANGED <<inputVars, spans>> /\ phase' \in {"seek", "missing"}
      BY <1>2 DEF Seek, Leave
    <2>2. QED
      BY <2>1, OutsideKeepsGInv
  <1>3. CASE Take
    <2>1. /\ UNCHANGED <<inputVars, spans>> /\ phase = "seek"
          /\ phase' \in {"missing", "fault", "extracted"}
      BY <1>3 DEF Take, Leave
    <2>2. ASSUME Regular, phase' = "fault" PROVE FALSE
      <3>1. /\ Outcome = "ok" /\ spans[i + 1] = <<offset, Length>>
            /\ i + 1 \in 1..Len(spans)
        BY <2>1, Found, Known
      <3>2. ~(offset + Length >= Word)
        <4>1. ~SomeOverflow
          BY <2>2 DEF GInv, Tracked
        <4>2. spans[i + 1][1] = offset /\ spans[i + 1][2] = Length
          BY <3>1
        <4>3. i + 1 \in DOMAIN spans
          BY <3>1, Known
        <4>4. QED
          BY <4>1, <4>2, <4>3 DEF SomeOverflow, SpanOverflows
      <3>3. /\ Length \in Nat /\ Beyond = offset + Length
        BY <3>1, <3>2, BeyondType DEF Overflows
      <3>4. ~(Beyond < offset)
        BY <3>3, Known
      <3>5. QED
        BY <1>3, <2>2, <3>1, <3>4 DEF Take, Leave
    <2>3. QED
      BY <2>1, <2>2, OutsideKeepsGInv
  <1>4. QED
    BY <1>1, <1>2, <1>3

LEMMA StutterKeepsGInv == GInv /\ UNCHANGED vars => GInv'
  <1> SUFFICES ASSUME GInv, UNCHANGED vars PROVE GInv'
    OBVIOUS
  <1>1. UNCHANGED <<inputVars, impl, kind, bytes, phase, n, i, offset, spans>>
    BY DEF vars, inputVars
  <1>2. /\ (SomeOverflow' <=> SomeOverflow) /\ (GoVout' <=> GoVout)
        /\ (Wraps' <=> Wraps) /\ StartAt(n)' = StartAt(n)
    BY <1>1 DEF Wraps, SomeOverflow, SpanOverflows, GoVout, StartAt, BeyondAt, LengthAt
  <1>3. Counting'
    BY <1>1, <1>2 DEF GInv, Counting
  <1>4. Tracked'
    <2>1. /\ Regular' <=> Regular
          /\ \A k : Cuts(k)' = Cuts(k)
          /\ \A k, cuts : Parsed(k, cuts)' <=> Parsed(k, cuts)
      BY <1>1, SameGrammar
    <2>2. \A k, cuts : CutAt(k, cuts, i)' = CutAt(k, cuts, i)
      BY <1>1 DEF CutAt, Cut
    <2>3. QED
      BY <1>1, <1>2, <2>1, <2>2 DEF GInv, Tracked
  <1>5. QED
    BY <1>3, <1>4 DEF GInv

LEMMA NextGInv == IInv /\ GInv /\ [Next]_vars => GInv'
  <1> SUFFICES ASSUME IInv, GInv, [Next]_vars PROVE GInv'
    OBVIOUS
  <1>1. CASE ReadCount
    BY <1>1, ReadCountKeepsGInv
  <1>2. CASE RefuseCount
    BY <1>2, RefuseCountKeepsGInv
  <1>3. CASE PassElement
    BY <1>3, PassElementKeepsGInv
  <1>4. CASE RefuseElement
    BY <1>4, RefuseElementKeepsGInv
  <1>5. CASE CheckEnd
    BY <1>5, CheckEndKeepsGInv
  <1>6. CASE Extract \/ Seek \/ Take
    BY <1>6, ExtractionKeepsGInv
  <1>7. CASE UNCHANGED vars
    BY <1>7, StutterKeepsGInv
  <1>8. QED
    BY <1>1, <1>2, <1>3, <1>4, <1>5, <1>6, <1>7 DEF Next, Validate, Done

LEMMA SpecGInv == Spec => [](IInv /\ GInv)
  <1>1. Init => IInv /\ GInv
    BY InitIInv, InitGInv
  <1>2. IInv /\ GInv /\ [Next]_vars => (IInv /\ GInv)'
    BY NextIInv, NextGInv
  <1>3. QED
    BY <1>1, <1>2, PTL DEF Spec

(***************************************************************************)
(* The theorems.                                                           *)
(***************************************************************************)
(* The loops stay within the declared count, and the offset within 64 bits *)
(* where the port has no more: that is so for C only because a vector is   *)
(* short of 2^64 by more than an element of a one-byte count.              *)
THEOREM TypeCorrect == Spec => []TypeOK
  <1>1. IInv => TypeOK
    BY DEF IInv
  <1>2. QED
    BY <1>1, SpecIInv, PTL

(* extract_input_at_index and extract_output_at_index of a vector that was *)
(* validated cut it where the validation did, refuse no index below the    *)
(* count, and panic only in Go and Rust on an element whose end needs a    *)
(* 65th bit, in every port and for every vector; in Rust also on the large *)
(* integers that its doc says are not supported.                           *)
THEOREM ExtractionAgrees == Spec => []ExtractAgrees
  <1>1. IInv => ExtractAgrees
    BY DEF IInv
  <1>2. QED
    BY <1>1, SpecIInv, PTL

(* C, Go, JavaScript and Rust panic, if at all, on no bytes, and Go and    *)
(* Rust also where the end of an element needs a 65th bit; nowhere else.   *)
THEOREM PanicsExplained == Spec => []PanicsOnlyOnEmpty
  <1>1. IInv => PanicsOnlyOnEmpty
    BY DEF IInv
  <1>2. QED
    BY <1>1, SpecIInv, PTL

(* What a port accepts is a vector of the format, and of its shortest       *)
(* encodings in C and Solidity, but for the sums that wrap, the integers    *)
(* Rust steps over wrongly and Go's empty vout; C accepts no wide integer.  *)
THEOREM AcceptedAreVectors == Spec => []AcceptedIsVector
  <1>1. IInv /\ GInv => AcceptedIsVector
    <2> SUFFICES ASSUME IInv, GInv, phase = "accepted"
                 PROVE  /\ \/ IsVector(kind, bytes, Strict(impl))
                           \/ impl \in {"go", "rust"} /\ SomeOverflow
                           \/ impl = "rust" /\ SomeNonMinimal
                           \/ GoVout /\ n = 0
                        /\ impl = "c" => ~SomeWide
      BY DEF AcceptedIsVector, Strict
    <2>1. /\ n = Number(bytes, 0) /\ ParseOutcome(impl, bytes, 0) = "ok"
          /\ Len(spans) = n /\ (n > 0 \/ GoVout) /\ StartAt(n) = Len(bytes)
          /\ \A k \in 1..n : StartAt(k) <= Len(bytes)
          /\ ~Wraps => n <= Len(bytes)
      BY DEF IInv, Placed, Extracting, GInv, Counting
    <2>2. ASSUME NEW k \in 1..n
          PROVE  /\ spans[k] = <<StartAt(k - 1), LengthAt(StartAt(k - 1))>>
                 /\ spans[k][1] \in Nat /\ spans[k][1] = StartAt(k - 1)
                 /\ OutcomeAt(spans[k][1]) = "ok" /\ k \in DOMAIN spans
      <3>1. k \in 1..Len(spans)
        BY <2>1
      <3>2. /\ spans[k] = <<StartAt(k - 1), LengthAt(StartAt(k - 1))>>
            /\ spans[k][1] \in Nat /\ OutcomeAt(spans[k][1]) = "ok"
        BY <3>1 DEF IInv, Walked
      <3>3. QED
        BY <3>1, <3>2, Known
    <2>3. ASSUME impl = "c" PROVE ~SomeWide
      <3>1. ~IsWide(bytes, 0)
        BY <2>1, <2>3, Known, NarrowInC
      <3>2. ASSUME NEW k \in DOMAIN spans
            PROVE  ~IsWide(bytes, spans[k][1] + Before[kind])
        <4>1. k \in 1..n
          BY <2>1, Known
        <4>2. spans[k][1] \in Nat /\ OutcomeAt(spans[k][1]) = "ok"
          BY <2>2, <4>1
        <4>3. /\ ParseOutcome(impl, bytes, spans[k][1] + Before[kind]) = "ok"
              /\ spans[k][1] + Before[kind] \in Nat
          BY <4>2, Known, ElementAssumption, SMTT(30) DEF OutcomeAt, ElementOutcome
        <4>4. QED
          BY <2>3, <4>3, Known, NarrowInC
      <3>3. QED
        BY <3>1, <3>2 DEF SomeWide
    <2>4. ASSUME ~(impl \in {"go", "rust"} /\ SomeOverflow),
                 ~(impl = "rust" /\ SomeNonMinimal), ~(GoVout /\ n = 0)
          PROVE  IsVector(kind, bytes, Strict(impl))
      <3>1. /\ n \in Nat /\ n > 0 /\ Len(bytes) \in Nat /\ bytes \in Seq(Bytes)
            /\ impl \in {"c", "go", "js", "rust", "sol"}
        BY <2>1, <2>4, Known
      <3>2. PICK code \in Encodings(n, Strict(impl)) :
              /\ Len(code) = StartAt(0) /\ 0 + Len(code) <= Len(bytes)
              /\ SubSeq(bytes, 0 + 1, 0 + Len(code)) = code
        <4>1. impl = "rust" =>
                ~(IsWide(bytes, 0) /\ Canonical(Payload(bytes, 0)) = 1)
          BY <2>4 DEF SomeNonMinimal, NonMinimal
        <4>2. StartAt(0) = SerializedLength(impl, bytes, 0)
          BY DEF StartAt
        <4>3. \E code \in Encodings(Number(bytes, 0), Strict(impl)) :
                /\ Len(code) = SerializedLength(impl, bytes, 0)
                /\ 0 + Len(code) <= Len(bytes)
                /\ SubSeq(bytes, 0 + 1, 0 + Len(code)) = code
          <5>1. 0 \in Nat
            OBVIOUS
          <5>2. QED
            BY <2>1, <3>1, <4>1, <5>1, ReadIsEncoding
        <4>4. QED
          BY <2>1, <4>2, <4>3
      <3>3. StartAt(0) \in {1, 3}
        <4>1. StartAt(0) = SerializedLength(impl, bytes, 0)
          BY DEF StartAt
        <4>2. QED
          BY <2>1, <3>1, <4>1, ParsedNumber
      <3>4. ASSUME NEW k \in 1..n
            PROVE  /\ StartAt(k - 1) \in Nat /\ StartAt(k) \in Nat
                   /\ StartAt(k - 1) < StartAt(k)
                   /\ IsElement(kind,
                                SubSeq(bytes, StartAt(k - 1) + 1, StartAt(k)),
                                Strict(impl))
        <4> DEFINE o == StartAt(k - 1)
        <4>1. /\ spans[k] = <<o, LengthAt(o)>> /\ spans[k][1] = o /\ o \in Nat
              /\ OutcomeAt(o) = "ok" /\ k \in DOMAIN spans
          BY <2>2
        <4>2. StartAt(k) = BeyondAt(o)
          BY <3>1, <4>1 DEF StartAt
        <4> HIDE DEF o
        <4>3. LengthAt(o) \in Nat \ {0}
          BY <3>1, <4>1, Known, ParsedElement DEF OutcomeAt, LengthAt
        <4>4. StartAt(k) = o + LengthAt(o)
          <5>1. CASE impl \in {"go", "rust"}
            <6>1. ~(o + LengthAt(o) >= Word)
              BY <2>4, <4>1, <5>1 DEF SomeOverflow, SpanOverflows
            <6>2. o + LengthAt(o) \in 0..Word - 1
              BY <4>1, <4>3, <6>1, Sizes
            <6>3. (o + LengthAt(o)) % Word = o + LengthAt(o)
              BY <6>2, Sizes
            <6>4. QED
              BY <4>2, <5>1, <6>3 DEF BeyondAt
          <5>2. CASE impl \notin {"go", "rust"}
            BY <4>2, <5>2 DEF BeyondAt
          <5>3. QED
            BY <5>1, <5>2
        <4>5. o + LengthAt(o) <= Len(bytes)
          BY <2>1, <4>4
        <4>6. impl = "rust" =>
                ~(/\ IsWide(bytes, o + Before[kind])
                  /\ Canonical(Payload(bytes, o + Before[kind])) = 1)
          BY <2>4, <4>1 DEF SomeNonMinimal, NonMinimal
        <4>7. IsElement(kind, SubSeq(bytes, o + 1, o + LengthAt(o)),
                        Strict(impl))
          BY <3>1, <4>1, <4>5, <4>6, Known, PassedIsElement
             DEF OutcomeAt, LengthAt
        <4>8. o < o + LengthAt(o) /\ o + LengthAt(o) \in Nat
          BY <4>1, <4>3
        <4>9. QED
          BY <4>1, <4>4, <4>7, <4>8 DEF o
      <3> DEFINE cuts == [m \in 1..n - 1 |-> StartAt(m)]
      <3>5. cuts \in [1..n - 1 -> 1..Len(bytes)]
        <4> SUFFICES ASSUME NEW m \in 1..n - 1 PROVE StartAt(m) \in 1..Len(bytes)
          OBVIOUS
        <4>1. m \in 1..n
          BY <3>1
        <4>2. /\ StartAt(m) <= Len(bytes) /\ StartAt(m) \in Nat
              /\ StartAt(m - 1) \in Nat /\ StartAt(m - 1) < StartAt(m)
          BY <2>1, <3>4, <4>1
        <4>3. QED
          BY <3>1, <4>2
      <3>6. ASSUME NEW m \in 0..n PROVE Cut(bytes, n, code, cuts, m) = StartAt(m)
        <4>1. CASE m = 0
          BY <3>2, <4>1 DEF Cut
        <4>2. CASE m = n
          BY <2>1, <3>1, <4>2 DEF Cut
        <4>3. CASE m # 0 /\ m # n
          <5>1. m \in 1..n - 1
            BY <3>1, <4>3
          <5>2. QED
            BY <4>3, <5>1 DEF Cut
        <4>4. QED
          BY <4>1, <4>2, <4>3
      <3> HIDE DEF cuts
      <3>7. Consists(kind, bytes, n, code, cuts, Strict(impl))
        <4> SUFFICES ASSUME NEW m \in 1..n
                     PROVE  /\ Cut(bytes, n, code, cuts, m - 1)
                                 < Cut(bytes, n, code, cuts, m)
                            /\ IsElement(kind, SubSeq(bytes,
                                 Cut(bytes, n, code, cuts, m - 1) + 1,
                                 Cut(bytes, n, code, cuts, m)), Strict(impl))
          BY DEF Consists
        <4>1. m \in 0..n /\ m - 1 \in 0..n
          BY <3>1
        <4>2. /\ Cut(bytes, n, code, cuts, m - 1) = StartAt(m - 1)
              /\ Cut(bytes, n, code, cuts, m) = StartAt(m)
          BY <3>6, <4>1
        <4>3. QED
          BY <3>4, <4>2
      <3>8. n \in 1..Len(bytes)
        BY <2>1, <2>4, <3>1 DEF Wraps
      <3>9. Len(code) <= Len(bytes) /\ SubSeq(bytes, 1, Len(code)) = code
        <4>1. Len(code) \in Nat
          BY <3>2, <3>3
        <4>2. 0 + Len(code) = Len(code) /\ 0 + 1 = 1
          BY <4>1
        <4>3. QED
          BY <3>2, <4>2
      <3>10. QED
        BY <3>2, <3>5, <3>7, <3>8, <3>9 DEF IsVector
    <2>5. QED
      BY <2>3, <2>4
  <1>2. QED
    BY <1>1, SpecGInv, PTL

(* No vector of the format is refused, and on none does a function panic,  *)
(* neither the validation nor the extraction: by C where every integer of  *)
(* it takes one byte, by Go where it does not declare too many outputs.    *)
(* That is what the code of Rust does, not what its doc says of the large  *)
(* integers.                                                               *)
THEOREM VectorsAreAccepted == Spec => []VectorIsAccepted
  <1>1. GInv => VectorIsAccepted
    BY DEF GInv, Tracked, Regular, VectorIsAccepted
  <1>2. QED
    BY <1>1, SpecGInv, PTL

(***************************************************************************)
(* Typed views, the functions of ViewBTC.sol on one another's results.     *)
(* They read elements as the port to Solidity does, with the same constants*)
(* for the format; the others are their own.  There is one tag of a wide   *)
(* integer here too, so that the shortest encoding is the only one.        *)
(***************************************************************************)
CONSTANTS Memory, HeaderFields

Views == INSTANCE TypedViews

Vectorly(q, s) == IsVector(q, s, TRUE)

(* The instance reads the same format. *)
LEMMA SameNumbers ==
  /\ \A b, o : Views!IsWide(b, o) <=> IsWide(b, o)
  /\ \A b, o : Views!Payload(b, o) = Payload(b, o)
  /\ \A b, o : Views!Number(b, o) = Number(b, o)
  /\ \A k : Views!Canonical(k) = Canonical(k)
  /\ \A p, b, o : Views!ParseOutcome(p, b, o) = ParseOutcome(p, b, o)
  /\ \A p, b, o : Views!SerializedLength(p, b, o) = SerializedLength(p, b, o)
<1>1. \A b, o : Views!IsWide(b, o) <=> IsWide(b, o)
  BY DEF Views!IsWide, IsWide
<1>2. \A b, o : Views!Payload(b, o) = Payload(b, o)
  BY DEF Views!Payload, Payload
<1>3. \A b, o : Views!Number(b, o) = Number(b, o)
  BY <1>1, <1>2 DEF Views!Number, Number
<1>4. \A k : Views!Canonical(k) = Canonical(k)
  BY DEF Views!Canonical, Canonical, Views!DataLength, DataLength
<1>5. \A p, b, o : Views!ParseOutcome(p, b, o) = ParseOutcome(p, b, o)
  BY <1>1, <1>2, <1>4
  DEF Views!ParseOutcome, ParseOutcome, Views!DataLength, DataLength
<1>6. \A p, b, o : Views!SerializedLength(p, b, o) = SerializedLength(p, b, o)
  BY <1>1, <1>3, <1>4
  DEF Views!SerializedLength, SerializedLength, Views!DataLength, DataLength
<1> QED BY <1>1, <1>2, <1>3, <1>4, <1>5, <1>6

LEMMA SameElements ==
  /\ \A p, q, b, o : Views!ElementOutcome(p, q, b, o) = ElementOutcome(p, q, b, o)
  /\ \A p, q, b, o : Views!ElementLength(p, q, b, o) = ElementLength(p, q, b, o)
  /\ \A s : Views!IsScript(s) <=> IsScript(s)
  /\ \A q, s : Views!IsElement(q, s, TRUE) <=> Strictly(q, s)
  /\ \A q, s : Views!IsVector(q, s, TRUE) <=> Vectorly(q, s)
<1>1. \A p, q, b, o :
        Views!ElementOutcome(p, q, b, o) = ElementOutcome(p, q, b, o)
  BY SameNumbers DEF Views!ElementOutcome, ElementOutcome
<1>2. \A p, q, b, o :
        Views!ElementLength(p, q, b, o) = ElementLength(p, q, b, o)
  BY SameNumbers DEF Views!ElementLength, ElementLength
<1>3. \A k : Views!Shortest(k) = Shortest(k)
  BY DEF Views!Shortest, Shortest
<1>4. \A k : Views!Encodings(k, TRUE) = Encodings(k, TRUE)
  BY <1>3 DEF Views!Encodings, Encodings, Views!Padded, Padded
<1>5. \A s : Views!IsScript(s) <=> IsScript(s)
  BY <1>3 DEF Views!IsScript, IsScript
<1>6. \A q, s : Views!IsElement(q, s, TRUE) <=> IsElement(q, s, TRUE)
  BY <1>4 DEF Views!IsElement, IsElement
<1>7. \A s, k, code, cuts, m :
        Views!Cut(s, k, code, cuts, m) = Cut(s, k, code, cuts, m)
  BY DEF Views!Cut, Cut
<1>8. ASSUME NEW q, NEW s, NEW k, NEW code, NEW cuts
      PROVE  Views!Consists(q, s, k, code, cuts, TRUE)
               <=> Consists(q, s, k, code, cuts, TRUE)
  <2> DEFINE c(m) == Cut(s, k, code, cuts, m)
  <2>1. \A m : Views!IsElement(q, SubSeq(s, c(m - 1) + 1, c(m)), TRUE)
                <=> IsElement(q, SubSeq(s, c(m - 1) + 1, c(m)), TRUE)
    BY <1>6
  <2>2. \A m : Views!Cut(s, k, code, cuts, m) = c(m)
    BY <1>7
  <2>3. Views!Consists(q, s, k, code, cuts, TRUE) <=>
          \A m \in 1..k : /\ c(m - 1) < c(m)
                          /\ Views!IsElement(q, SubSeq(s, c(m - 1) + 1, c(m)), TRUE)
    BY <2>2, Zenon DEF Views!Consists
  <2> QED BY <2>1, <2>3, Zenon DEF Consists
<1>9. \A q, s : Views!IsVector(q, s, TRUE) <=> IsVector(q, s, TRUE)
  BY <1>4, <1>8 DEF Views!IsVector, IsVector
<1> QED BY <1>1, <1>2, <1>5, <1>6, <1>9 DEF Strictly, Vectorly

(***************************************************************************)
(* What Solidity reads and what is there.                                  *)
(***************************************************************************)
LEMMA ScriptRead ==
  ASSUME NEW b \in Seq(Bytes), NEW o \in Nat, NEW e \in Nat, e <= Len(b),
         ParseOutcome("sol", b, o) = "ok",
         o + (Canonical(Number(b, o)) + Number(b, o)) = e
  PROVE  IsScript(Part(b, o, e))
<1> DEFINE k == Number(b, o)  code == Shortest(k)  s == SubSeq(b, o + 1, e)
<1>1. k \in Nat /\ Canonical(k) \in {1, 3}
  <2>1. k \in 0..Base * Base - 1
    BY ParsedNumber
  <2> QED BY <2>1, Sizes DEF Canonical, DataLength
<1>2. PICK c \in Encodings(k, Strict("sol")) :
        /\ Len(c) = SerializedLength("sol", b, o) /\ o + Len(c) <= Len(b)
        /\ SubSeq(b, o + 1, o + Len(c)) = c
  BY ReadIsEncoding
<1>3. /\ Len(code) = Canonical(k) /\ o + Len(code) <= Len(b)
      /\ SubSeq(b, o + 1, o + Len(code)) = code
  BY <1>2 DEF Encodings, Padded, Strict, SerializedLength
<1> HIDE DEF code, k
<1> DEFINE l == Len(code)
<1>4. l \in {1, 3} /\ o + (l + k) = e
  BY <1>1, <1>3 DEF k
<1> HIDE DEF l
<1>5. o <= e /\ 0 + l <= e - o /\ l \in Nat /\ e - o = l + k
  BY ONLY <1>1, <1>4, o \in Nat, e \in Nat
<1>6. Len(s) = e - o
  BY <1>5, PartBytes
<1>7. SubSeq(s, 0 + 1, 0 + l) = SubSeq(b, (o + 0) + 1, (o + 0) + l)
  BY <1>5, PartOfPart
<1>8. SubSeq(s, 1, l) = code
  <2>1. 0 + 1 = 1 /\ 0 + l = l /\ o + 0 = o
    BY <1>5
  <2> QED BY <1>3, <1>7, <2>1 DEF l
<1> HIDE DEF s
<1>9. k \in 0..Len(s)
  BY <1>1, <1>5, <1>6
<1>10. IsScript(s)
  BY <1>5, <1>6, <1>8, <1>9 DEF IsScript, l, code
<1> QED BY <1>10 DEF Part, s

Coded(b, o, k) ==
  /\ o + Len(Shortest(k)) <= Len(b)
  /\ SubSeq(b, o + 1, o + Len(Shortest(k))) = Shortest(k)

LEMMA CodedIsRead ==
  ASSUME NEW b \in Seq(Bytes), NEW o \in Nat, NEW k \in Nat, Coded(b, o, k)
  PROVE  /\ ParseOutcome("sol", b, o) = "ok" /\ Number(b, o) = k
         /\ SerializedLength("sol", b, o) = Len(Shortest(k))
BY ShortestIsRead DEF Coded

LEMMA ScriptThere ==
  ASSUME NEW s \in Seq(Bytes), IsScript(s)
  PROVE  /\ ParseOutcome("sol", s, 0) = "ok" /\ Number(s, 0) \in Nat
         /\ Canonical(Number(s, 0)) \in {1, 3}
         /\ Canonical(Number(s, 0)) + Number(s, 0) = Len(s)
<1>1. PICK k \in 0..Len(s) : /\ Len(s) = Len(Shortest(k)) + k
                             /\ SubSeq(s, 1, Len(Shortest(k))) = Shortest(k)
  BY DEF IsScript
<1>2. k \in Nat /\ Len(s) \in Nat
  OBVIOUS
<1>3. Len(Shortest(k)) \in {1, 3}
  BY <1>2, ShortestForm
<1>4. Coded(s, 0, k)
  <2>1. 0 + Len(Shortest(k)) = Len(Shortest(k)) /\ 0 + 1 = 1
    BY <1>3
  <2> QED BY <1>1, <1>2, <1>3, <2>1 DEF Coded
<1>5. /\ ParseOutcome("sol", s, 0) = "ok" /\ Number(s, 0) = k
      /\ SerializedLength("sol", s, 0) = Len(Shortest(k))
  BY <1>2, <1>4, CodedIsRead
<1> QED BY <1>1, <1>2, <1>3, <1>5 DEF SerializedLength

LEMMA WholePart ==
  ASSUME NEW s \in Seq(Bytes)
  PROVE  Part(s, 0, Len(s)) = s
<1>1. /\ SubSeq(s, 0 + 1, Len(s)) \in Seq(Bytes)
      /\ Len(SubSeq(s, 0 + 1, Len(s))) = Len(s) - 0
      /\ \A k \in 1..Len(s) - 0 : SubSeq(s, 0 + 1, Len(s))[k] = s[0 + k]
  BY PartBytes
<1> DEFINE p == SubSeq(s, 0 + 1, Len(s))
<1>2. Len(p) = Len(s) /\ \A k \in 1..Len(s) : p[k] = s[k]
  BY <1>1
<1>3. p \in Seq(Bytes)
  BY <1>1
<1> HIDE DEF p
<1>4. p = s
  BY <1>2, <1>3, SeqEqual
<1> QED BY <1>4 DEF Part, p

LEMMA ElementThere ==
  ASSUME NEW q \in Kinds, NEW s \in Seq(Bytes), Strictly(q, s)
  PROVE  /\ ParseOutcome("sol", s, Before[q]) = "ok"
         /\ Number(s, Before[q]) \in Nat
         /\ Canonical(Number(s, Before[q])) \in {1, 3}
         /\ Before[q] + Canonical(Number(s, Before[q]))
              + Number(s, Before[q]) + After[q] = Len(s)
<1> DEFINE width == Len(s)
<1>1. width \in Nat /\ Before[q] \in Nat /\ After[q] \in Nat
  BY ElementAssumption
<1>2. 0 < width
  <2>1. PICK k \in 0..Len(s) : Len(s) = Before[q] + Len(Shortest(k)) + k + After[q]
    BY DEF Strictly, IsElement, Encodings, Padded
  <2>2. Len(Shortest(k)) \in {1, 3} /\ k \in Nat
    BY ShortestForm
  <2> DEFINE l == Len(Shortest(k))  f == Before[q]  g == After[q]
  <2> HIDE DEF l, f, g
  <2>3. width = f + l + k + g /\ (l = 1 \/ l = 3) /\ f \in Nat /\ g \in Nat
    BY <1>1, <2>1, <2>2 DEF l, f, g
  <2> QED BY ONLY <2>2, <2>3
<1>3. Strictly(q, Part(s, 0, width))
  BY WholePart
<1> HIDE DEF width
<1>4. width <= Len(s) /\ width = Len(s)
  BY <1>1 DEF width
<1>5. /\ ElementOutcome("sol", q, s, 0) = "ok"
      /\ ElementLength("sol", q, s, 0) = width - 0
  <2>1. /\ q \in Kinds /\ s \in Seq(Bytes) /\ 0 \in Nat /\ width \in Nat
        /\ 0 < width /\ width <= Len(s) /\ Strictly(q, Part(s, 0, width))
        /\ "sol" # "c"
    BY <1>1, <1>2, <1>3, <1>4
  <2> QED BY ONLY <2>1, ElementIsPassed, SMTT(30)
<1>6. 0 + Before[q] = Before[q] /\ width - 0 = width
  BY <1>1
<1>7. ParseOutcome("sol", s, Before[q]) = "ok"
  BY <1>5, <1>6 DEF ElementOutcome
<1>8. Before[q] + Canonical(Number(s, Before[q]))
        + Number(s, Before[q]) + After[q] = width
  BY <1>5, <1>6 DEF ElementLength, SerializedLength
<1>9. Number(s, Before[q]) \in Nat /\ Canonical(Number(s, Before[q])) \in {1, 3}
  <2>1. Number(s, Before[q]) \in 0..Base * Base - 1
    BY <1>1, <1>7, ParsedNumber
  <2> QED BY <2>1, Sizes DEF Canonical, DataLength
<1> QED BY <1>4, <1>7, <1>8, <1>9

LEMMA ElementRead ==
  ASSUME NEW q \in Kinds, NEW b \in Seq(Bytes), NEW o \in Nat, NEW e \in Nat,
         ElementOutcome("sol", q, b, o) = "ok",
         o + ElementLength("sol", q, b, o) = e, e <= Len(b)
  PROVE  o < e /\ Strictly(q, Part(b, o, e))
<1> DEFINE l == ElementLength("sol", q, b, o)
<1>1. /\ l \in Nat \ {0}
      /\ IsElement(q, SubSeq(b, o + 1, o + l), Strict("sol"))
  BY PassedIsElement
<1>2. Strict("sol") = TRUE
  BY DEF Strict
<1>3. o + l = e
  OBVIOUS
<1> HIDE DEF l
<1>4. o < e
  BY <1>1, <1>3
<1> QED BY <1>1, <1>2, <1>3, <1>4 DEF Strictly, Part

(***************************************************************************)
(* The walk over the elements.  A recursive function is what its           *)
(* definition says, by induction over its domain.                          *)
(***************************************************************************)
LEMMA SetInduction ==
  ASSUME NEW S, 0 \in S, \A m \in Nat : m \in S => m + 1 \in S
  PROVE  Nat \subseteq S
<1> DEFINE T == Nat \ S
<1>1. SUFFICES ASSUME T # {} PROVE FALSE
  OBVIOUS
<1>2. PICK m \in T : \A y \in T : ~ (<<y, m>> \in OpToRel(<, Nat))
  BY <1>1, NatLessThanWellFounded, WFMin
<1>3. \A y \in T : ~(y < m)
  BY <1>2 DEF OpToRel
<1>4. m \in Nat /\ m # 0 /\ m \notin S
  OBVIOUS
<1>5. m - 1 \in Nat /\ m - 1 < m /\ (m - 1) + 1 = m
  BY <1>4
<1>6. m - 1 \in S
  BY <1>3, <1>5
<1> QED BY <1>4, <1>5, <1>6

Start(b) == [how |-> "ok", at |-> Canonical(Number(b, 0))]
Onward(b, q, last) ==
  IF last.how # "ok" THEN last
  ELSE IF last.at >= Len(b) THEN [last EXCEPT !.how = "overrun"]
  ELSE IF ElementOutcome("sol", q, b, last.at) # "ok"
  THEN [last EXCEPT !.how = "revert"]
  ELSE [last EXCEPT !.at = @ + ElementLength("sol", q, b, @)]

(* The same with the operators of the instance. *)
ViewsStart(b) == [how |-> "ok", at |-> Views!Canonical(Views!Number(b, 0))]
ViewsOnward(b, q, last) ==
  IF last.how # "ok" THEN last
  ELSE IF last.at >= Len(b) THEN [last EXCEPT !.how = "overrun"]
  ELSE IF Views!ElementOutcome("sol", q, b, last.at) # "ok"
  THEN [last EXCEPT !.how = "revert"]
  ELSE [last EXCEPT !.at = @ + Views!ElementLength("sol", q, b, @)]

LEMMA WalkDefined ==
  ASSUME NEW b, NEW q, Number(b, 0) \in Nat
  PROVE  /\ Views!Walk(b, q)[0] = Start(b)
         /\ \A k \in 1..Number(b, 0) :
              Views!Walk(b, q)[k] = Onward(b, q, Views!Walk(b, q)[k - 1])
<1> DEFINE N == Views!Number(b, 0)
           Next1(x) == ViewsOnward(b, q, x)
           Fits(f, m) ==
             f = [k \in 0..m |-> IF k = 0 THEN ViewsStart(b) ELSE Next1(f[k - 1])]
           S == {m \in Nat : \E f : Fits(f, m)}
<1>10. N \in Nat
  BY SameNumbers
<1>0. Views!Walk(b, q) = CHOOSE f : Fits(f, N)
  BY DEF Views!Walk, ViewsOnward, ViewsStart
<1> HIDE DEF Next1
<1> HIDE DEF Fits
<1>1. 0 \in S
  <2> DEFINE f == [k \in 0..0 |-> ViewsStart(b)]
  <2>1. Fits(f, 0)
    BY DEF Fits
  <2> QED BY <2>1
<1>2. ASSUME NEW m \in Nat, m \in S PROVE m + 1 \in S
  <2>0. PICK f : Fits(f, m)
    BY <1>2
  <2> DEFINE g == [k \in 0..m + 1 |-> IF k = 0 THEN ViewsStart(b) ELSE Next1(f[k - 1])]
  <2>1. \A k \in 0..m : f[k] = IF k = 0 THEN ViewsStart(b) ELSE Next1(f[k - 1])
    BY <2>0 DEF Fits
  <2>2. \A k \in 0..m + 1 : g[k] = IF k = 0 THEN ViewsStart(b) ELSE Next1(f[k - 1])
    OBVIOUS
  <2>3. \A k \in 0..m : g[k] = f[k]
    BY <2>1, <2>2
  <2>4. ASSUME NEW k \in 0..m + 1
        PROVE  g[k] = IF k = 0 THEN ViewsStart(b) ELSE Next1(g[k - 1])
    <3>1. k # 0 => k - 1 \in 0..m
      OBVIOUS
    <3> HIDE DEF g
    <3> QED BY <2>2, <2>3, <3>1
  <2>5. g = [k \in 0..m + 1 |-> IF k = 0 THEN ViewsStart(b) ELSE Next1(g[k - 1])]
    <3>1. g = [k \in 0..m + 1 |-> g[k]]
      OBVIOUS
    <3> HIDE DEF g
    <3> QED BY <2>4, <3>1
  <2>6. Fits(g, m + 1)
    BY <2>5 DEF Fits
  <2> QED BY <2>6
<1> HIDE DEF S
<1>3. N \in S
  BY <1>10, <1>1, <1>2, SetInduction
<1>4. Fits(Views!Walk(b, q), N)
  BY <1>0, <1>3 DEF S
<1>5. \A k \in 0..N : Views!Walk(b, q)[k] =
         IF k = 0 THEN ViewsStart(b) ELSE Next1(Views!Walk(b, q)[k - 1])
  BY <1>4 DEF Fits
<1>6. Views!Walk(b, q)[0] = ViewsStart(b)
  BY <1>10, <1>5
<1>7. \A k \in 1..N : Views!Walk(b, q)[k] = Next1(Views!Walk(b, q)[k - 1])
  BY <1>5
<1>8. N = Number(b, 0) /\ ViewsStart(b) = Start(b)
  BY SameNumbers DEF ViewsStart, Start
<1>9. \A x : Next1(x) = Onward(b, q, x)
  BY SameElements DEF Next1, ViewsOnward, Onward
<1> HIDE DEF N
<1> QED BY <1>6, <1>7, <1>8, <1>9

(* How far a walk is after some elements. *)
Stations == [how : {"ok", "overrun", "revert"}, at : Nat]

LEMMA OnwardType ==
  ASSUME NEW q \in Kinds, NEW b \in Seq(Bytes), NEW w \in Stations
  PROVE  /\ Onward(b, q, w) \in Stations
         /\ Onward(b, q, w).how = "ok" =>
              /\ w.how = "ok" /\ w.at < Len(b)
              /\ ElementOutcome("sol", q, b, w.at) = "ok"
              /\ ElementLength("sol", q, b, w.at) \in Nat \ {0}
              /\ Onward(b, q, w).at = w.at + ElementLength("sol", q, b, w.at)
<1> DEFINE at == w.at  how == w.how  l == ElementLength("sol", q, b, at)
           passed == ElementOutcome("sol", q, b, at)
<1>1. at \in Nat /\ how \in {"ok", "overrun", "revert"}
      /\ w = [how |-> how, at |-> at] /\ Len(b) \in Nat
  BY DEF Stations
<1>2. passed = "ok" => l \in Nat \ {0}
  BY <1>1, ParsedElement
<1>3. Onward(b, q, w) =
        IF how # "ok" THEN w
        ELSE IF at >= Len(b) THEN [w EXCEPT !.how = "overrun"]
        ELSE IF passed # "ok" THEN [w EXCEPT !.how = "revert"]
        ELSE [w EXCEPT !.at = at + l]
  BY <1>1 DEF Onward
<1> HIDE DEF at, how, l, passed
<1>4. CASE how # "ok"
  BY <1>1, <1>3, <1>4 DEF how
<1>5. CASE how = "ok" /\ at >= Len(b)
  <2>1. Onward(b, q, w) = [how |-> "overrun", at |-> at]
    BY <1>1, <1>3, <1>5
  <2> QED BY <1>1, <2>1 DEF Stations
<1>6. CASE how = "ok" /\ ~(at >= Len(b)) /\ passed # "ok"
  <2>1. Onward(b, q, w) = [how |-> "revert", at |-> at]
    BY <1>1, <1>3, <1>6
  <2> QED BY <1>1, <2>1 DEF Stations
<1>7. CASE how = "ok" /\ ~(at >= Len(b)) /\ passed = "ok"
  <2>1. Onward(b, q, w) = [how |-> "ok", at |-> at + l]
    BY <1>1, <1>3, <1>7
  <2>2. at + l \in Nat /\ at < Len(b)
    BY <1>1, <1>2, <1>7
  <2> QED BY <1>2, <1>7, <2>1, <2>2 DEF Stations, at, how, l, passed
<1> QED BY <1>4, <1>5, <1>6, <1>7

Counts(b) == Number(b, 0) \in Nat /\ Canonical(Number(b, 0)) \in {1, 3}

LEMMA CountRead ==
  ASSUME NEW b \in Seq(Bytes), ParseOutcome("sol", b, 0) = "ok"
  PROVE  Counts(b)
<1>1. Number(b, 0) \in 0..Base * Base - 1
  BY ParsedNumber
<1> QED BY <1>1, Sizes DEF Counts, Canonical, DataLength

LEMMA WalkType ==
  ASSUME NEW q \in Kinds, NEW b \in Seq(Bytes), Counts(b),
         NEW k \in 0..Number(b, 0)
  PROVE  /\ Views!Walk(b, q)[k] \in Stations
         /\ Views!Walk(b, q)[k].how = "ok" => Views!Walk(b, q)[k].at > k
<1> DEFINE N == Number(b, 0)  W == Views!Walk(b, q)
           S == {m \in Nat : m <= N =>
                   W[m] \in Stations /\ (W[m].how = "ok" => W[m].at > m)}
<1>1. N \in Nat /\ Canonical(N) \in {1, 3}
  BY DEF Counts
<1>2. W[0] = Start(b) /\ \A m \in 1..N : W[m] = Onward(b, q, W[m - 1])
  BY <1>1, WalkDefined
<1> HIDE DEF W
<1>3. 0 \in S
  <2>1. W[0] = [how |-> "ok", at |-> Canonical(N)]
    BY <1>2 DEF Start
  <2> HIDE DEF N
  <2> QED BY <1>1, <2>1 DEF Stations
<1>4. ASSUME NEW m \in Nat, m \in S PROVE m + 1 \in S
  <2> SUFFICES ASSUME m + 1 <= N
               PROVE  /\ W[m + 1] \in Stations
                      /\ W[m + 1].how = "ok" => W[m + 1].at > m + 1
    OBVIOUS
  <2>1. m + 1 \in 1..N /\ (m + 1) - 1 = m /\ m <= N
    BY <1>1
  <2>2. W[m + 1] = Onward(b, q, W[m])
    BY <1>2, <2>1
  <2>3. W[m] \in Stations /\ (W[m].how = "ok" => W[m].at > m)
    BY <1>4, <2>1
  <2> DEFINE w == W[m]  l == ElementLength("sol", q, b, w.at)
  <2>4. /\ Onward(b, q, w) \in Stations
        /\ Onward(b, q, w).how = "ok" =>
             w.how = "ok" /\ l \in Nat \ {0} /\ Onward(b, q, w).at = w.at + l
    BY <2>3, OnwardType
  <2>5. w.at \in Nat
    BY <2>3 DEF Stations
  <2> HIDE DEF w, l
  <2>6. w.how = "ok" => w.at > m
    BY <2>3 DEF w
  <2>7. ASSUME Onward(b, q, w).how = "ok" PROVE Onward(b, q, w).at > m + 1
    BY <2>4, <2>5, <2>6, <2>7
  <2> QED BY <2>2, <2>4, <2>7 DEF w
<1> HIDE DEF S
<1>5. k \in S
  <2>1. k \in Nat
    BY <1>1
  <2> QED BY <1>3, <1>4, <2>1, SetInduction
<1> QED BY <1>1, <1>5 DEF S, W

(* Each element of a walk was passed, and all those before it. *)
LEMMA WalkBack ==
  ASSUME NEW q \in Kinds, NEW b \in Seq(Bytes), Counts(b),
         NEW k \in 1..Number(b, 0), Views!Walk(b, q)[k].how = "ok"
  PROVE  LET w == Views!Walk(b, q)[k - 1] IN
           /\ w.how = "ok" /\ w.at \in Nat /\ w.at < Len(b)
           /\ ElementOutcome("sol", q, b, w.at) = "ok"
           /\ Views!Walk(b, q)[k].at = w.at + ElementLength("sol", q, b, w.at)
<1> DEFINE w == Views!Walk(b, q)[k - 1]
<1>1. k - 1 \in 0..Number(b, 0) /\ Number(b, 0) \in Nat
  BY DEF Counts
<1>2. w \in Stations
  BY <1>1, WalkType
<1>3. Views!Walk(b, q)[k] = Onward(b, q, w)
  BY <1>1, WalkDefined
<1> HIDE DEF w
<1>4. /\ w.how = "ok" /\ w.at < Len(b)
      /\ ElementOutcome("sol", q, b, w.at) = "ok"
      /\ Onward(b, q, w).at = w.at + ElementLength("sol", q, b, w.at)
  BY <1>2, <1>3, OnwardType
<1>5. w.at \in Nat
  BY <1>2 DEF Stations
<1> QED BY <1>3, <1>4, <1>5 DEF w

LEMMA WalkBefore ==
  ASSUME NEW q \in Kinds, NEW b \in Seq(Bytes), Counts(b),
         NEW k \in 0..Number(b, 0), Views!Walk(b, q)[k].how = "ok",
         NEW j \in 0..k
  PROVE  Views!Walk(b, q)[j].how = "ok"
<1> DEFINE W == Views!Walk(b, q)
           S == {m \in Nat : m <= k => W[k - m].how = "ok"}
<1>0. Number(b, 0) \in Nat
  BY DEF Counts
<1>1. 0 \in S
  OBVIOUS
<1>2. ASSUME NEW m \in Nat, m \in S PROVE m + 1 \in S
  <2> SUFFICES ASSUME m + 1 <= k PROVE W[k - (m + 1)].how = "ok"
    OBVIOUS
  <2>1. k - m \in 1..Number(b, 0) /\ k - (m + 1) = (k - m) - 1
    BY <1>0
  <2>2. W[k - m].how = "ok"
    BY <1>2, <2>1
  <2>3. W[(k - m) - 1].how = "ok"
    BY <2>1, <2>2, WalkBack
  <2> QED BY <2>1, <2>3
<1> HIDE DEF S
<1>3. k - j \in S
  <2>1. k - j \in Nat
    OBVIOUS
  <2> QED BY <1>1, <1>2, <2>1, SetInduction
<1>4. k - (k - j) = j /\ k - j <= k
  OBVIOUS
<1> QED BY <1>3, <1>4 DEF S

(* A walk that ends where the bytes end is over a vector. *)
Whole(q, b) ==
  /\ b # <<>> /\ ParseOutcome("sol", b, 0) = "ok" /\ Number(b, 0) # 0
  /\ Views!Walk(b, q)[Number(b, 0)].how = "ok"
  /\ Views!Walk(b, q)[Number(b, 0)].at = Len(b)

LEMMA WholeInside ==
  ASSUME NEW q \in Kinds, NEW b \in Seq(Bytes), Whole(q, b),
         NEW k \in Nat, k < Number(b, 0)
  PROVE  LET o == Views!Walk(b, q)[k].at
             e == Views!Walk(b, q)[k + 1].at
         IN  /\ Views!Walk(b, q)[k].how = "ok"
             /\ o \in Nat /\ e \in Nat /\ o < Len(b) /\ e <= Len(b)
             /\ ElementOutcome("sol", q, b, o) = "ok"
             /\ o + ElementLength("sol", q, b, o) = e
<1> DEFINE N == Number(b, 0)  W == Views!Walk(b, q)
<1>1. Counts(b) /\ N \in Nat
  BY CountRead DEF Whole, Counts
<1>2. /\ k + 1 \in 1..N /\ k + 1 \in 0..N /\ (k + 1) - 1 = k /\ N \in 0..N
      /\ Len(b) \in Nat
  BY <1>1
<1>3. W[N].how = "ok" /\ W[N].at = Len(b)
  BY DEF Whole
<1> HIDE DEF N, W
<1>4. W[k + 1].how = "ok"
  BY <1>1, <1>2, <1>3, WalkBefore DEF N, W
<1>5. /\ W[k].how = "ok" /\ W[k].at \in Nat /\ W[k].at < Len(b)
      /\ ElementOutcome("sol", q, b, W[k].at) = "ok"
      /\ W[k + 1].at = W[k].at + ElementLength("sol", q, b, W[k].at)
  BY <1>1, <1>2, <1>4, WalkBack DEF N, W
<1>6. W[k + 1].at \in Nat
  BY <1>1, <1>2, WalkType DEF N, W, Stations
<1>7. W[k + 1].at <= Len(b)
  <2>1. CASE k + 1 = N
    BY <1>2, <1>3, <2>1
  <2>2. CASE k + 1 # N
    <3>1. k + 2 \in 1..N /\ k + 2 \in 0..N /\ (k + 2) - 1 = k + 1
      BY <1>1, <1>2, <2>2
    <3>2. W[k + 2].how = "ok"
      BY <1>1, <1>2, <1>3, <3>1, WalkBefore DEF N, W
    <3>3. W[k + 1].at < Len(b)
      BY <1>1, <3>1, <3>2, WalkBack DEF N, W
    <3> QED BY <1>2, <1>6, <3>3
  <2> QED BY <2>1, <2>2
<1> QED BY <1>5, <1>6, <1>7 DEF W

LEMMA WholeIsVector ==
  ASSUME NEW q \in Kinds, NEW b \in Seq(Bytes), Whole(q, b)
  PROVE  Vectorly(q, b)
<1> DEFINE N == Number(b, 0)  W == Views!Walk(b, q)  code == Shortest(N)
           cuts == [m \in 1..N - 1 |-> W[m].at]
<1>1. /\ Counts(b) /\ N \in Nat /\ N # 0 /\ Len(b) \in Nat
      /\ ParseOutcome("sol", b, 0) = "ok"
  BY CountRead DEF Whole, Counts
<1>2. W[N].how = "ok" /\ W[N].at = Len(b)
  BY DEF Whole
<1>3. /\ Len(code) = Canonical(N) /\ Len(code) <= Len(b)
      /\ SubSeq(b, 1, Len(code)) = code
  <2>1. PICK c \in Encodings(N, Strict("sol")) :
          /\ Len(c) = SerializedLength("sol", b, 0) /\ 0 + Len(c) <= Len(b)
          /\ SubSeq(b, 0 + 1, 0 + Len(c)) = c
    BY <1>1, ReadIsEncoding
  <2>2. c = code
    BY <2>1 DEF Encodings, Padded, Strict
  <2>3. Len(code) = Canonical(N)
    BY <2>1, <2>2 DEF SerializedLength
  <2>4. Len(code) \in Nat
    BY <1>1, <2>3 DEF Counts
  <2>5. 0 + Len(code) = Len(code) /\ 0 + 1 = 1
    BY <2>4
  <2> QED BY <2>1, <2>2, <2>3, <2>5
<1>4. W[0].at = Canonical(N)
  <2>1. W[0] = Start(b)
    BY <1>1, WalkDefined
  <2> QED BY <2>1 DEF Start
<1>5. ASSUME NEW m \in 1..N - 1 PROVE W[m].at \in 1..Len(b)
  <2>1. m \in Nat /\ m < N /\ m \in 0..N
    BY <1>1
  <2> HIDE DEF N
  <2>2. W[m].how = "ok" /\ W[m].at \in Nat /\ W[m].at < Len(b)
    BY <2>1, WholeInside DEF N
  <2>3. W[m].at > m
    BY <1>1, <2>1, <2>2, WalkType DEF N
  <2> HIDE DEF W
  <2> QED BY <1>1, <2>1, <2>2, <2>3
<1>6. N \in 1..Len(b)
  <2>1. N \in 0..N
    BY <1>1
  <2>2. W[N].at > N
    BY <1>1, <1>2, <2>1, WalkType
  <2> HIDE DEF N, W
  <2> QED BY <1>1, <1>2, <2>2
<1>7. cuts \in [1..N - 1 -> 1..Len(b)]
  BY <1>5
<1>8. \A m \in 0..N : Cut(b, N, code, cuts, m) = W[m].at
  <2> SUFFICES ASSUME NEW m \in 0..N PROVE Cut(b, N, code, cuts, m) = W[m].at
    OBVIOUS
  <2>1. m # 0 /\ m # N => m \in 1..N - 1
    BY <1>1
  <2> HIDE DEF N, W, code
  <2> QED BY <1>2, <1>3, <1>4, <2>1 DEF Cut
<1> HIDE DEF cuts, code
<1>9. ASSUME NEW m \in 1..N
      PROVE  LET from == Cut(b, N, code, cuts, m - 1)
                 to == Cut(b, N, code, cuts, m)
             IN  from < to /\ IsElement(q, SubSeq(b, from + 1, to), TRUE)
  <2>1. m - 1 \in Nat /\ m - 1 < N /\ (m - 1) + 1 = m /\ m - 1 \in 0..N
        /\ m \in 0..N
    BY <1>1
  <2> DEFINE o == W[m - 1].at  e == W[m].at
  <2>2. /\ o \in Nat /\ e \in Nat /\ e <= Len(b)
        /\ ElementOutcome("sol", q, b, o) = "ok"
        /\ o + ElementLength("sol", q, b, o) = e
    <3> DEFINE j == m - 1
    <3>1. j \in Nat /\ j < Number(b, 0) /\ j + 1 = m
      BY <2>1
    <3> HIDE DEF j, N
    <3>2. /\ W[j].at \in Nat /\ W[j + 1].at \in Nat /\ W[j + 1].at <= Len(b)
          /\ ElementOutcome("sol", q, b, W[j].at) = "ok"
          /\ W[j].at + ElementLength("sol", q, b, W[j].at) = W[j + 1].at
      BY ONLY <3>1, WholeInside, q \in Kinds, b \in Seq(Bytes), Whole(q, b)
    <3> QED BY <3>1, <3>2 DEF j
  <2>3. Cut(b, N, code, cuts, m - 1) = o /\ Cut(b, N, code, cuts, m) = e
    BY <1>8, <2>1
  <2> HIDE DEF o, e
  <2>4. o < e /\ Strictly(q, Part(b, o, e))
    BY <2>2, ElementRead
  <2> QED BY <2>3, <2>4 DEF Strictly, Part
<1>10. Consists(q, b, N, code, cuts, TRUE)
  BY <1>9 DEF Consists
<1>11. code \in Encodings(N, TRUE)
  BY DEF Encodings, Padded, code
<1> HIDE DEF N
<1> QED BY <1>3, <1>6, <1>7, <1>10, <1>11 DEF IsVector, Vectorly

(***************************************************************************)
(* The invariant: what is known of a view by its type.                     *)
(***************************************************************************)
Good(type, s) ==
  /\ type = "Vin" => Whole("vin", s)
  /\ type = "Vout" => Whole("vout", s)
  /\ type = "TxIn" => Strictly("vin", s)
  /\ type = "TxOut" => Strictly("vout", s)
  /\ type \in {"ScriptSig", "ScriptPubkey"} => IsScript(s)
  /\ type = "Outpoint" => Len(s) = Before["vin"]
  /\ type \in {"PKH", "SH", "WPKH"} => Len(s) = HashSize
  /\ type = "WSH" => Len(s) = LongHashSize
  /\ type = "OpReturnPayload" => Len(s) \in 2..MaxPush
  /\ type = "Header" => Len(s) = HeaderSize
  /\ type = "HeaderArray" => Len(s) % HeaderSize = 0
  /\ type = "MerkleArray" => Len(s) % NodeSize = 0

FineIn(b, v) ==
  /\ v \in [type : Views!Types, from : Nat, len : Nat]
  /\ v.from + v.len <= Len(b)
  /\ Good(v.type, Part(b, v.from, v.from + v.len))

Fine(v) == FineIn(memory, v)

VInv ==
  /\ memory \in Seq(Bytes) /\ Len(memory) < Uint
  /\ view = Views!nullView \/ Fine(view)
  /\ Views!TypedIsSafe

LEMMA ViewedPart ==
  ASSUME NEW v PROVE Views!Viewed(v) = Part(memory, v.from, v.from + v.len)
BY DEF Views!Viewed, Part

LEMMA GoodForm ==
  ASSUME memory \in Seq(Bytes), NEW v, Fine(v)
  PROVE  /\ Part(memory, v.from, v.from + v.len) \in Seq(Bytes)
         /\ Len(Part(memory, v.from, v.from + v.len)) = v.len
         /\ Views!Form(v.type, Part(memory, v.from, v.from + v.len))
<1> DEFINE s == Part(memory, v.from, v.from + v.len)
<1>1. v.from \in Nat /\ v.len \in Nat /\ v.from + v.len \in Nat
      /\ v.from <= v.from + v.len /\ (v.from + v.len) - v.from = v.len
      /\ v.from + v.len <= Len(memory) /\ Good(v.type, s)
  BY DEF Fine, FineIn
<1>2. s \in Seq(Bytes) /\ Len(s) = v.len
  BY <1>1, PartBytes DEF Part
<1> HIDE DEF s
<1>3. \A q \in Kinds : Whole(q, s) => Views!IsVector(q, s, TRUE)
  BY <1>2, WholeIsVector, SameElements
<1>4. "vin" \in Kinds /\ "vout" \in Kinds
  BY DEF Kinds
<1>5. Whole("vin", s) => Views!IsVector("vin", s, TRUE)
  BY <1>3, <1>4
<1>6. Whole("vout", s) => Views!IsVector("vout", s, TRUE)
  BY <1>3, <1>4
<1>7. Strictly("vin", s) <=> Views!IsElement("vin", s, TRUE)
  BY SameElements
<1>8. Strictly("vout", s) <=> Views!IsElement("vout", s, TRUE)
  BY SameElements
<1>9. IsScript(s) <=> Views!IsScript(s)
  BY SameElements
<1>10. Views!Form(v.type, s)
  BY <1>1, <1>5, <1>6, <1>7, <1>8, <1>9, Zenon DEF Good, Views!Form
<1> QED BY <1>2, <1>10 DEF s

(* What a call may hand out, and where it may revert. *)
Excused(name, at, r) ==
  /\ r.how = "revert" =>
       \/ /\ name \in {"indexVin", "indexVout"}
          /\ at >= Number(Part(memory, view.from, view.from + view.len), 0)
       \/ name = "indexHeaderArray" /\ (at + 1) * HeaderSize > view.len
       \/ /\ name \in {"target", "diff"}
          /\ ~HasTarget(Part(memory, view.from, view.from + view.len))
       \/ /\ name = "diff"
          /\ Mantissa(Part(memory, view.from, view.from + view.len)) = 0
       \/ name = "opReturnPayload" /\ view.len < 3
  /\ r = Views!View(Views!nullView) =>
       \/ name = "indexHeaderArray" /\ (at + 1) * HeaderSize > view.len
       \/ name \in {"payload", "opReturnPayload"}

Handed(r) ==
  \/ r = Views!Revert \/ r = Views!Value
  \/ \E v : r = Views!View(v) /\ (v = Views!nullView \/ Fine(v))

(* The instance reads the same bits. *)
LEMMA SameBits ==
  /\ Views!Uint = Uint
  /\ \A h : Views!Mantissa(h) = Mantissa(h) /\ Views!Exponent(h) = Exponent(h)
  /\ \A h : Views!HasTarget(h) <=> HasTarget(h)
BY DEF Views!Uint, Uint, Views!Mantissa, Mantissa, Views!Exponent, Exponent,
       Views!HasTarget, HasTarget

LEMMA CallKeeps ==
  ASSUME VInv, NEW name, NEW type, NEW at, NEW results,
         Views!Call(name, type, at, results),
         \A r \in results : /\ Handed(r)
                            /\ type # "Unknown" => Excused(name, at, r)
  PROVE  VInv'
<1>1. /\ call' = [name |-> name, index |-> at, on |-> view]
      /\ view.type = type /\ memory' = memory
  BY DEF Views!Call
<1>2. PICK r \in results :
        /\ outcome' = r.how
        /\ view' = IF r.how = "view" THEN r.view ELSE view
  BY DEF Views!Call
<1>3. (view = Views!nullView \/ Fine(view))'
  <2>1. view = Views!nullView \/ FineIn(memory, view)
    BY DEF VInv, Fine
  <2>2. \/ r.how # "view"
        \/ r.view = Views!nullView \/ FineIn(memory, r.view)
    BY <1>2 DEF Handed, Fine, Views!View, Views!Revert, Views!Value
  <2>3. view' = Views!nullView \/ FineIn(memory, view')
    BY <1>2, <2>1, <2>2
  <2> QED BY <1>1, <2>3 DEF Fine, Views!nullView
<1>4. Views!TypedIsSafe'
  <2> SUFFICES ASSUME view.type \notin {"Unknown", "Null"}
               PROVE  Views!TypedIsSafe'
    BY <1>1 DEF Views!TypedIsSafe
  <2>1. Handed(r) /\ Excused(name, at, r)
    BY <1>1, <1>2
  <2>2. /\ call'.name = name /\ call'.index = at /\ call'.on = view
    BY <1>1
  <2>3. Views!Count' = Number(Part(memory, view.from, view.from + view.len), 0)
    <3>1. Views!Count' = Views!Number(SubSeq(memory', call'.on.from + 1,
                                             call'.on.from + call'.on.len), 0)
      BY DEF Views!Count, Views!Viewed
    <3> QED BY <1>1, <2>2, <3>1, SameNumbers DEF Part
  <2>4. outcome' = "view" /\ view' = Views!nullView => r = Views!View(Views!nullView)
    <3> SUFFICES ASSUME r.how = "view", r.view = Views!nullView
                 PROVE  r = Views!View(Views!nullView)
      BY <1>2
    <3> QED BY <2>1 DEF Handed, Views!View, Views!Revert, Views!Value
  <2>5. Views!HeaderMissing' <=> (at + 1) * HeaderSize > view.len
    BY <2>2 DEF Views!HeaderMissing
  <2>6. Views!Viewed(call.on)' = Part(memory, view.from, view.from + view.len)
    BY <1>1, <2>2 DEF Views!Viewed, Part
  <2>7. /\ Views!HasTarget(Views!Viewed(call.on))' <=>
             HasTarget(Part(memory, view.from, view.from + view.len))
        /\ Views!Mantissa(Views!Viewed(call.on))' =
             Mantissa(Part(memory, view.from, view.from + view.len))
    BY <2>6, SameBits DEF Views!HasTarget, Views!Mantissa, Views!Exponent,
       Views!Uint, HasTarget, Mantissa, Exponent, Uint
  <2>8. outcome' = "revert" =>
          \/ /\ call'.name \in {"indexVin", "indexVout"}
             /\ call'.index >= Views!Count'
          \/ call'.name = "indexHeaderArray" /\ Views!HeaderMissing'
          \/ /\ call'.name \in {"target", "diff"}
             /\ ~Views!HasTarget(Views!Viewed(call.on))'
          \/ /\ call'.name = "diff"
             /\ Views!Mantissa(Views!Viewed(call.on))' = 0
          \/ call'.name = "opReturnPayload" /\ call'.on.len < 3
    BY <1>2, <2>1, <2>2, <2>3, <2>5, <2>7 DEF Excused
  <2>9. outcome' = "view" /\ view' = Views!nullView =>
          \/ call'.name = "indexHeaderArray" /\ Views!HeaderMissing'
          \/ call'.name \in {"payload", "opReturnPayload"}
    BY <1>2, <2>1, <2>2, <2>4, <2>5 DEF Excused
  <2> QED BY <2>8, <2>9 DEF Views!TypedIsSafe, Views!nullView
<1> QED BY <1>1, <1>3, <1>4 DEF VInv, Uint

LEMMA ViewsInit ==
  ASSUME Views!ViewsAssumption, Views!Init
  PROVE  VInv
<1>1. memory \in Seq(Bytes) /\ Len(memory) < Uint
  BY DEF Views!Init, Views!ViewsAssumption, Views!Uint, Uint, Bytes
<1>2. Fine(view)
  <2>1. /\ view = [type |-> "Unknown", from |-> 0, len |-> Len(memory)]
        /\ Len(memory) \in Nat /\ 0 + Len(memory) <= Len(memory)
    BY <1>1 DEF Views!Init
  <2>2. view \in [type : Views!Types, from : Nat, len : Nat]
    BY <2>1 DEF Views!Types
  <2>3. Good("Unknown", Part(memory, view.from, view.from + view.len))
    BY DEF Good
  <2> QED BY <2>1, <2>2, <2>3 DEF Fine, FineIn
<1>3. Views!TypedIsSafe
  BY DEF Views!Init, Views!TypedIsSafe, Views!nullView
<1> QED BY <1>1, <1>2, <1>3 DEF VInv

(* The bytes of the view. *)
Seen == Part(memory, view.from, view.from + view.len)

LEMMA SeenKnown ==
  ASSUME VInv, view.type # "Null"
  PROVE  /\ memory \in Seq(Bytes) /\ Fine(view) /\ Views!Viewed(view) = Seen
         /\ Seen \in Seq(Bytes) /\ Len(Seen) = view.len
         /\ view.from \in Nat /\ view.len \in Nat
         /\ view.from + view.len <= Len(memory)
         /\ Good(view.type, Seen)
<1>1. memory \in Seq(Bytes) /\ Fine(view)
  BY DEF VInv, Views!nullView
<1>2. Seen \in Seq(Bytes) /\ Len(Seen) = view.len
  BY <1>1, GoodForm DEF Seen
<1>3. Views!Viewed(view) = Seen
  BY DEF Views!Viewed, Seen, Part
<1> QED BY <1>1, <1>2, <1>3 DEF Fine, FineIn, Seen

LEMMA PartInPart ==
  ASSUME NEW b \in Seq(Bytes), NEW o \in Nat, NEW e \in Nat, o <= e,
         e <= Len(b), NEW f \in Nat, NEW g \in Nat, f <= g, g <= e - o
  PROVE  Part(Part(b, o, e), f, g) = Part(b, o + f, o + g)
<1> DEFINE l == g - f
<1>1. l \in Nat /\ f + l = g /\ (o + f) + l = o + g
  OBVIOUS
<1> HIDE DEF l
<1>2. f + l <= e - o
  BY <1>1
<1>3. SubSeq(SubSeq(b, o + 1, e), f + 1, f + l)
        = SubSeq(b, (o + f) + 1, (o + f) + l)
  BY <1>1, <1>2, PartOfPart
<1> QED BY <1>1, <1>3 DEF Part

LEMMA CastFine ==
  ASSUME VInv, view.type # "Null", NEW type \in Views!Types, Good(type, Seen)
  PROVE  Fine(Views!castTo(view, type))
<1> DEFINE v == Views!castTo(view, type)
<1>1. /\ v \in [type : Views!Types, from : Nat, len : Nat]
      /\ v.type = type /\ v.from = view.from /\ v.len = view.len
  BY SeenKnown DEF Fine, FineIn, Views!castTo
<1> HIDE DEF v
<1>2. Good(v.type, Part(memory, v.from, v.from + v.len))
  BY <1>1 DEF Seen
<1>3. v.from + v.len <= Len(memory)
  BY <1>1, SeenKnown
<1> QED BY <1>1, <1>2, <1>3 DEF Fine, FineIn, v

LEMMA SliceFine ==
  ASSUME VInv, view.type # "Null", NEW type \in Views!Types,
         NEW at \in Nat, NEW len \in Nat,
         at + len <= view.len => Good(type, Part(Seen, at, at + len))
  PROVE  LET v == Views!slice(view, at, len, type) IN
           /\ v = Views!nullView \/ Fine(v)
           /\ at + len <= view.len => v # Views!nullView
<1> DEFINE v == Views!slice(view, at, len, type)
<1>1. CASE ~(at + len <= view.len)
  <2>1. at + len > view.len
    BY <1>1, SeenKnown
  <2> QED BY <1>1, <2>1 DEF Views!slice
<1>2. CASE at + len <= view.len
  <2> DEFINE f == view.from  width == view.len
  <2>1. /\ f \in Nat /\ width \in Nat /\ f + width <= Len(memory)
        /\ memory \in Seq(Bytes) /\ Len(memory) \in Nat
    BY SeenKnown
  <2>2. v = [type |-> type, from |-> f + at, len |-> len]
    <3>1. ~(at + len > view.len)
      BY <1>2, <2>1
    <3> QED BY <3>1 DEF Views!slice
  <2>3. type # "Null"
    BY DEF Views!Types
  <2>4. v \in [type : Views!Types, from : Nat, len : Nat] /\ v # Views!nullView
    <3>1. f + at \in Nat
      BY <2>1
    <3> QED BY <2>2, <2>3, <3>1 DEF Views!nullView
  <2>5. Part(memory, f + at, (f + at) + len) = Part(Seen, at, at + len)
    <3> DEFINE e == f + width
           g == at + len
    <3>1. /\ e \in Nat /\ f <= e /\ e <= Len(memory) /\ g <= e - f
          /\ g \in Nat /\ at <= g /\ f + g = (f + at) + len
      BY <1>2, <2>1
    <3> HIDE DEF e, f, g
    <3>2. Part(Part(memory, f, e), at, g) = Part(memory, f + at, f + g)
      BY <2>1, <3>1, PartInPart
    <3> QED BY <3>1, <3>2 DEF Seen, e, f, g
  <2>6. (f + at) + len <= Len(memory)
    BY <1>2, <2>1
  <2>7. Good(type, Part(memory, f + at, (f + at) + len))
    BY <1>2, <2>5
  <2> HIDE DEF f, width
  <2>8. v.type = type /\ v.from = f + at /\ v.len = len
    BY <2>2
  <2> HIDE DEF v
  <2>9. Fine(v)
    BY <2>4, <2>6, <2>7, <2>8 DEF Fine, FineIn
  <2> QED BY <2>4, <2>9 DEF v
<1> QED BY <1>1, <1>2 DEF v

(***************************************************************************)
(* The calls.                                                              *)
(***************************************************************************)
LEMMA TryAsVectorKeeps ==
  ASSUME VInv, NEW q \in Kinds, Views!TryAsVector(q)
  PROVE  VInv'
<1>1. Views!Call(Views!CastOf[q], "Unknown", 0, {Views!CastVector(q)})
  BY DEF Views!TryAsVector
<1>2. view.type = "Unknown"
  BY <1>1 DEF Views!Call
<1>3. Seen \in Seq(Bytes) /\ Views!Viewed(view) = Seen
  BY <1>2, SeenKnown
<1> DEFINE N == Number(Seen, 0)  w == Views!Walk(Seen, q)[N]
           cast == Views!View(Views!castTo(view, Views!TypeOf[q]))
           null == Views!View(Views!nullView)
<1>4. \/ Views!CastVector(q) = Views!Revert
      \/ Views!CastVector(q) = null
      \/ Views!CastVector(q) = cast /\ Whole(q, Seen)
  <2>1. Views!Number(Seen, 0) = N
        /\ Views!ParseOutcome("sol", Seen, 0) = ParseOutcome("sol", Seen, 0)
    BY SameNumbers
  <2> HIDE DEF N, cast, null
  <2>2. CASE Seen = <<>>
    BY <1>3, <2>1, <2>2 DEF Views!CastVector, null
  <2>3. CASE Seen # <<>> /\ ParseOutcome("sol", Seen, 0) # "ok"
    BY <1>3, <2>1, <2>3 DEF Views!CastVector
  <2>4. CASE Seen # <<>> /\ ParseOutcome("sol", Seen, 0) = "ok"
    <3>1. Views!CastVector(q) =
            IF N = 0 THEN null
            ELSE IF w.how = "revert" THEN Views!Revert
            ELSE IF w.how = "ok" /\ w.at = Len(Seen) THEN cast ELSE null
      BY <1>3, <2>1, <2>4
      DEF Views!CastVector, Views!WholeVector, null, cast
    <3>2. N # 0 /\ w.how = "ok" /\ w.at = Len(Seen) => Whole(q, Seen)
      BY <2>4 DEF Whole, N
    <3> QED BY <3>1, <3>2
  <2> QED BY <2>2, <2>3, <2>4
<1>5. Handed(Views!CastVector(q))
  <2>1. Whole(q, Seen) => Fine(Views!castTo(view, Views!TypeOf[q]))
    <3> SUFFICES ASSUME Whole(q, Seen)
                 PROVE  Fine(Views!castTo(view, Views!TypeOf[q]))
      OBVIOUS
    <3>1. Views!TypeOf[q] \in Views!Types /\ Good(Views!TypeOf[q], Seen)
      BY DEF Kinds, Views!TypeOf, Views!Types, Good
    <3> QED BY <1>2, <3>1, CastFine
  <2> QED BY <1>4, <2>1 DEF Handed
<1> QED BY <1>1, <1>5, CallKeeps

LEMMA IndexVectorKeeps ==
  ASSUME Views!ViewsAssumption, VInv, NEW q \in Kinds, Views!IndexVector(q)
  PROVE  VInv'
<1>1. PICK k \in Indices :
        Views!Call(Views!IndexOf[q], Views!TypeOf[q], k, {Views!Element(q, k)})
  BY DEF Views!IndexVector
<1>2. view.type = Views!TypeOf[q] /\ Views!TypeOf[q] \in {"Vin", "Vout"}
  BY <1>1 DEF Views!Call, Views!TypeOf, Kinds
<1>3. /\ Seen \in Seq(Bytes) /\ Views!Viewed(view) = Seen
      /\ Whole(q, Seen) /\ Len(Seen) = view.len /\ k \in Nat
  <2>1. view.type # "Null"
    BY <1>2
  <2>2. /\ Seen \in Seq(Bytes) /\ Views!Viewed(view) = Seen
        /\ Len(Seen) = view.len /\ Good(view.type, Seen)
    BY <2>1, SeenKnown
  <2>3. k \in Nat
    BY DEF Views!ViewsAssumption
  <2>4. (q = "vin" /\ view.type = "Vin") \/ (q = "vout" /\ view.type = "Vout")
    BY <1>2 DEF Views!TypeOf, Kinds
  <2>5. Whole(q, Seen)
    BY ONLY <2>2, <2>4 DEF Good
  <2> QED BY <2>2, <2>3, <2>5
<1> DEFINE N == Number(Seen, 0)  o == Views!Walk(Seen, q)[k].at
           e == Views!Walk(Seen, q)[k + 1].at
           len == ElementLength("sol", q, Seen, o)
           r == Views!Element(q, k)
<1>4. N \in Nat
  BY <1>3, CountRead DEF Whole, Counts
<1>5. CASE k >= N
  <2>1. r = Views!Revert
    BY <1>3, <1>5, SameNumbers DEF Views!Element
  <2>2. Handed(r) /\ Excused(Views!IndexOf[q], k, r)
    BY <1>5, <2>1
    DEF Handed, Excused, Views!IndexOf, Kinds, Views!Revert, Views!View, Seen
  <2> QED BY <1>1, <2>2, CallKeeps
<1>6. CASE ~(k >= N)
  <2>1. k < N
    BY <1>3, <1>4, <1>6
  <2>2. /\ Views!Walk(Seen, q)[k].how = "ok"
        /\ o \in Nat /\ e \in Nat /\ e <= Len(Seen)
        /\ ElementOutcome("sol", q, Seen, o) = "ok" /\ o + len = e
    BY <1>3, <2>1, WholeInside
  <2>3. len \in Nat
    BY <1>3, <2>2, ParsedElement
  <2>4. /\ Views!Number(Seen, 0) = N
        /\ Views!ElementOutcome("sol", q, Seen, o) = "ok"
        /\ Views!ElementLength("sol", q, Seen, o) = len
    BY <2>2, SameNumbers, SameElements
  <2> DEFINE type == Views!ElementOf[q]  v == Views!slice(view, o, len, type)
  <2>5. r = Views!View(v)
    BY <1>3, <1>6, <2>2, <2>4 DEF Views!Element
  <2>6. Strictly(q, Part(Seen, o, o + len))
    <3> HIDE DEF o, e
    <3>1. Strictly(q, Part(Seen, o, e))
      BY <1>3, <2>2, ElementRead
    <3> QED BY <2>2, <3>1
  <2>7. type \in Views!Types /\ Good(type, Part(Seen, o, o + len))
    BY <2>6 DEF Kinds, Views!ElementOf, Views!Types, Good
  <2>8. o + len <= view.len
    BY <1>3, <2>2
  <2> HIDE DEF o, e, len, type
  <2>9. (v = Views!nullView \/ Fine(v)) /\ v # Views!nullView
    BY <1>2, <2>2, <2>3, <2>7, <2>8, SliceFine
  <2> HIDE DEF v, r
  <2>10. Handed(r) /\ Excused(Views!IndexOf[q], k, r)
    BY <2>5, <2>9 DEF Handed, Excused, Views!View
  <2> QED BY <1>1, <2>10, CallKeeps DEF r
<1> QED BY <1>5, <1>6

(* Where the script of an element is. *)
LEMMA ScriptOfElement ==
  ASSUME VInv, NEW q \in Kinds, view.type # "Null", Strictly(q, Seen)
  PROVE  /\ Views!IntAt(Before[q]) /\ Views!ScriptLength(Before[q]) \in Nat
         /\ Before[q] \in Nat /\ After[q] \in Nat
         /\ Before[q] + Views!ScriptLength(Before[q]) + After[q] = view.len
         /\ IsScript(Part(Seen, Before[q],
                          Before[q] + Views!ScriptLength(Before[q])))
<1> DEFINE o == Before[q]  x == Number(Seen, o)  c == Canonical(x)  g == After[q]
           e == o + (c + x)
<1>1. /\ Seen \in Seq(Bytes) /\ Views!Viewed(view) = Seen
      /\ Len(Seen) = view.len /\ view.len \in Nat
  BY SeenKnown
<1>2. o \in Nat /\ g \in Nat
  BY ElementAssumption
<1>3. /\ ParseOutcome("sol", Seen, o) = "ok" /\ x \in Nat /\ c \in {1, 3}
      /\ o + c + x + g = Len(Seen)
  BY <1>1, ElementThere
<1>4. Views!ScriptLength(o) = c + x /\ Views!IntAt(o)
  BY <1>1, <1>3, SameNumbers DEF Views!ScriptLength, Views!IntAt
<1>5. o + (Canonical(Number(Seen, o)) + Number(Seen, o)) = e
  OBVIOUS
<1> HIDE DEF o, x, c, g
<1>6. c + x \in Nat /\ o + (c + x) + g = view.len /\ e <= Len(Seen) /\ e \in Nat
  BY <1>1, <1>2, <1>3
<1> HIDE DEF e
<1>7. IsScript(Part(Seen, o, e))
  BY <1>1, <1>2, <1>3, <1>5, <1>6, ScriptRead
<1> QED BY <1>2, <1>4, <1>6, <1>7 DEF o, g, e

LEMMA ScriptHanded ==
  ASSUME VInv, NEW q \in Kinds, view.type # "Null", Strictly(q, Seen),
         NEW type \in {"ScriptSig", "ScriptPubkey"}, NEW name, NEW at
  PROVE  LET r == Views!Script(Before[q], type) IN
           Handed(r) /\ Excused(name, at, r)
<1> DEFINE o == Before[q]  l == Views!ScriptLength(o)
           v == Views!slice(view, o, l, type)  r == Views!Script(o, type)
<1>1. /\ Views!IntAt(o) /\ l \in Nat /\ o \in Nat /\ After[q] \in Nat
      /\ o + l + After[q] = view.len /\ IsScript(Part(Seen, o, o + l))
  BY ScriptOfElement
<1>2. r = Views!View(v)
  BY <1>1 DEF Views!Script
<1>3. o + l <= view.len
  <2> HIDE DEF o, l
  <2> QED BY <1>1
<1>4. type \in Views!Types /\ Good(type, Part(Seen, o, o + l))
  BY <1>1 DEF Views!Types, Good
<1> HIDE DEF o, l
<1>5. (v = Views!nullView \/ Fine(v)) /\ v # Views!nullView
  BY <1>1, <1>3, <1>4, SliceFine
<1> HIDE DEF v, r
<1> QED BY <1>2, <1>5 DEF Handed, Excused, Views!View, r, o

LEMMA ScriptSigKeeps ==
  ASSUME VInv, Views!ScriptSig PROVE VInv'
<1>1. Views!Call("scriptSig", "TxIn", 0,
                 {Views!Script(Before["vin"], "ScriptSig")})
  BY DEF Views!ScriptSig
<1>2. view.type = "TxIn"
  BY <1>1 DEF Views!Call
<1>3. Strictly("vin", Seen) /\ "vin" \in Kinds
  BY <1>2, SeenKnown DEF Good, Kinds
<1> DEFINE r == Views!Script(Before["vin"], "ScriptSig")
<1>4. Handed(r) /\ Excused("scriptSig", 0, r)
  BY <1>2, <1>3, ScriptHanded
<1> HIDE DEF r
<1> QED BY <1>1, <1>4, CallKeeps DEF r

LEMMA ScriptPubkeyKeeps ==
  ASSUME VInv, Views!ScriptPubkey PROVE VInv'
<1>1. Views!Call("scriptPubkey", "TxOut", 0,
                 {Views!Script(Before["vout"], "ScriptPubkey")})
  BY DEF Views!ScriptPubkey
<1>2. view.type = "TxOut"
  BY <1>1 DEF Views!Call
<1>3. Strictly("vout", Seen) /\ "vout" \in Kinds
  BY <1>2, SeenKnown DEF Good, Kinds
<1> DEFINE r == Views!Script(Before["vout"], "ScriptPubkey")
<1>4. Handed(r) /\ Excused("scriptPubkey", 0, r)
  BY <1>2, <1>3, ScriptHanded
<1> HIDE DEF r
<1> QED BY <1>1, <1>4, CallKeeps DEF r

(* A read within the view returns a value. *)
LEMMA ReadKeeps ==
  ASSUME VInv, NEW name, NEW type, NEW at, NEW ranges,
         Views!Call(name, type, at, Views!Read(ranges)),
         \A x \in ranges : x[1] + x[2] <= view.len
  PROVE  VInv'
<1>1. Views!Read(ranges) = {Views!Value}
  BY DEF Views!Read, Views!Readable
<1>2. Handed(Views!Value) /\ Excused(name, at, Views!Value)
  BY DEF Handed, Excused, Views!Value, Views!View
<1> QED BY <1>1, <1>2, CallKeeps

LEMMA SequenceKeeps ==
  ASSUME VInv, Views!Sequence PROVE VInv'
<1> DEFINE o == Before["vin"]  l == Views!ScriptLength(o)
           ranges == {<<o + l, After["vin"]>>}
<1>1. view.type = "TxIn"
  BY DEF Views!Sequence, Views!Call
<1>2. Strictly("vin", Seen) /\ "vin" \in Kinds
  BY <1>1, SeenKnown DEF Good, Kinds
<1>3. /\ Views!IntAt(o) /\ o + l + After["vin"] = view.len
      /\ l \in Nat /\ o \in Nat /\ After["vin"] \in Nat
  BY <1>1, <1>2, ScriptOfElement
<1>4. Views!Call("sequence", "TxIn", 0, Views!Read(ranges))
  BY <1>3 DEF Views!Sequence
<1>5. \A x \in ranges : x[1] + x[2] <= view.len
  <2> DEFINE e == o + l
  <2>1. e + After["vin"] = view.len /\ view.len \in Nat
    BY <1>1, <1>3, SeenKnown
  <2>2. ranges = {<<e, After["vin"]>>}
    OBVIOUS
  <2> HIDE DEF e, ranges
  <2> QED BY <2>1, <2>2
<1> HIDE DEF ranges
<1> QED BY <1>4, <1>5, ReadKeeps

LEMMA OutpointKeeps ==
  ASSUME VInv, Views!Outpoint PROVE VInv'
<1> DEFINE o == Before["vin"]  v == Views!slice(view, 0, o, "Outpoint")
           r == Views!View(v)
<1>1. Views!Call("outpoint", "TxIn", 0, {r}) /\ view.type = "TxIn"
  BY DEF Views!Outpoint, Views!Call
<1>2. Strictly("vin", Seen) /\ "vin" \in Kinds
  BY <1>1, SeenKnown DEF Good, Kinds
<1>3. /\ o + Views!ScriptLength(o) + After["vin"] = view.len
      /\ Views!ScriptLength(o) \in Nat /\ o \in Nat /\ After["vin"] \in Nat
  BY <1>1, <1>2, ScriptOfElement
<1> HIDE DEF o
<1>4. 0 + o <= view.len /\ 0 <= 0 + o /\ 0 + o = o
  BY <1>3
<1>5. /\ Seen \in Seq(Bytes) /\ Len(Seen) = view.len
  BY <1>1, SeenKnown
<1>6. Len(Part(Seen, 0, 0 + o)) = o
  <2>1. Len(SubSeq(Seen, 0 + 1, o)) = o - 0
    BY <1>3, <1>4, <1>5, PartBytes
  <2> QED BY <1>3, <1>4, <2>1 DEF Part
<1>7. "Outpoint" \in Views!Types /\ Good("Outpoint", Part(Seen, 0, 0 + o))
  BY <1>6 DEF Views!Types, Good, o
<1>8. (v = Views!nullView \/ Fine(v)) /\ v # Views!nullView
  BY <1>1, <1>3, <1>4, <1>7, SliceFine
<1> HIDE DEF v
<1>9. Handed(r) /\ Excused("outpoint", 0, r)
  BY <1>8 DEF Handed, Excused, Views!View
<1> HIDE DEF r
<1> QED BY <1>1, <1>9, CallKeeps

LEMMA OutpointPartsKeeps ==
  ASSUME Views!ViewsAssumption, VInv, Views!OutpointParts PROVE VInv'
<1> DEFINE f == Before["vin"]  ranges == {<<0, NodeSize>>, <<NodeSize, f - NodeSize>>}
<1>1. Views!Call("txidLE, outpointIdx", "Outpoint", 0, Views!Read(ranges))
      /\ view.type = "Outpoint"
  BY DEF Views!OutpointParts, Views!Call
<1>2. view.len = f /\ view.len \in Nat /\ NodeSize \in Nat /\ f > NodeSize
  BY <1>1, SeenKnown DEF Good, Views!ViewsAssumption
<1>3. \A x \in ranges : x[1] + x[2] <= view.len
  <2> HIDE DEF f
  <2> DEFINE d == f - NodeSize
  <2>1. 0 + NodeSize <= view.len /\ NodeSize + d <= view.len
    BY <1>2
  <2> HIDE DEF d
  <2>2. ranges = {<<0, NodeSize>>, <<NodeSize, d>>}
    BY DEF d
  <2> HIDE DEF ranges
  <2> QED BY <2>1, <2>2
<1> HIDE DEF ranges
<1> QED BY <1>1, <1>3, ReadKeeps

LEMMA OutputValueKeeps ==
  ASSUME VInv, Views!OutputValue PROVE VInv'
<1> DEFINE o == Before["vout"]  ranges == {<<0, o>>}
<1>1. Views!Call("value", "TxOut", 0, Views!Read(ranges)) /\ view.type = "TxOut"
  BY DEF Views!OutputValue, Views!Call
<1>2. Strictly("vout", Seen) /\ "vout" \in Kinds
  BY <1>1, SeenKnown DEF Good, Kinds
<1>3. /\ o + Views!ScriptLength(o) + After["vout"] = view.len
      /\ Views!ScriptLength(o) \in Nat /\ o \in Nat /\ After["vout"] \in Nat
  BY <1>1, <1>2, ScriptOfElement
<1> HIDE DEF o
<1>4. \A x \in ranges : x[1] + x[2] <= view.len
  BY <1>3
<1> HIDE DEF ranges
<1> QED BY <1>1, <1>4, ReadKeeps

LEMMA PartLength ==
  ASSUME VInv, view.type # "Null", NEW at \in Nat, NEW len \in Nat,
         at + len <= view.len
  PROVE  Len(Part(Seen, at, at + len)) = len
<1>1. Seen \in Seq(Bytes) /\ Len(Seen) = view.len /\ view.len \in Nat
  BY SeenKnown
<1> DEFINE e == at + len
<1>2. e \in Nat /\ at <= e /\ e <= Len(Seen) /\ e - at = len
  BY <1>1
<1> HIDE DEF e
<1>3. Len(SubSeq(Seen, at + 1, e)) = e - at
  BY <1>1, <1>2, PartBytes
<1> QED BY <1>2, <1>3 DEF Part, e

LEMMA TryAsSPKKeeps ==
  ASSUME VInv, Views!TryAsSPK PROVE VInv'
<1> DEFINE null == Views!View(Views!nullView)
           cast == Views!View(Views!castTo(view, "ScriptPubkey"))
<1>1. view.type = "Unknown"
  BY DEF Views!TryAsSPK, Views!Call
<1>2. /\ Seen \in Seq(Bytes) /\ Views!Viewed(view) = Seen
      /\ Len(Seen) = view.len /\ view.len \in Nat
  BY <1>1, SeenKnown
<1>3. ASSUME Views!IntAt(0), view.len = Views!ScriptLength(0)
      PROVE  Fine(Views!castTo(view, "ScriptPubkey"))
  <2> DEFINE x == Number(Seen, 0)  c == Canonical(x)
  <2>1. ParseOutcome("sol", Seen, 0) = "ok" /\ view.len = c + x
    BY <1>2, <1>3, SameNumbers DEF Views!IntAt, Views!ScriptLength
  <2>2. x \in Nat /\ c \in {1, 3}
    BY <1>2, <2>1, CountRead DEF Counts
  <2>3. 0 + (c + x) = view.len
    <3> HIDE DEF c, x
    <3> QED BY <2>1, <2>2
  <2>4. IsScript(Part(Seen, 0, view.len))
    BY <1>2, <2>1, <2>3, ScriptRead
  <2>5. IsScript(Seen)
    BY <1>2, <2>4, WholePart
  <2>6. "ScriptPubkey" \in Views!Types /\ Good("ScriptPubkey", Seen)
    BY <2>5 DEF Views!Types, Good
  <2> QED BY <1>1, <2>6, CastFine
<1>4. PICK results :
        /\ Views!Call("tryAsSPK", "Unknown", 0, results)
        /\ \/ results = {null} \/ results = {Views!Revert}
           \/ results = {cast} /\ Views!IntAt(0) /\ view.len = Views!ScriptLength(0)
  BY DEF Views!TryAsSPK
<1>5. \A r \in results : Handed(r)
  BY <1>3, <1>4 DEF Handed
<1> QED BY <1>4, <1>5, CallKeeps

LEMMA SizeKeeps ==
  ASSUME VInv, NEW name, NEW type \in Views!Types, NEW fits \in BOOLEAN,
         Views!CastSize(name, type, fits), fits => Good(type, Seen)
  PROVE  VInv'
<1> DEFINE r == Views!View(IF fits THEN Views!castTo(view, type)
                          ELSE Views!nullView)
<1>1. Views!Call(name, "Unknown", 0, {r}) /\ view.type = "Unknown"
  BY DEF Views!CastSize, Views!Call
<1>2. Handed(r)
  BY <1>1, CastFine DEF Handed
<1> HIDE DEF r
<1> QED BY <1>1, <1>2, CallKeeps

LEMMA HeaderCastsKeep ==
  ASSUME VInv,
         Views!TryAsHeader \/ Views!TryAsHeaderArray \/ Views!TryAsMerkleArray
  PROVE  VInv'
<1>1. view.type = "Unknown"
  BY DEF Views!TryAsHeader, Views!TryAsHeaderArray, Views!TryAsMerkleArray,
         Views!CastSize, Views!Call
<1>2. Len(Seen) = view.len
  BY <1>1, SeenKnown
<1>3. /\ view.len = HeaderSize => Good("Header", Seen)
      /\ view.len % HeaderSize = 0 => Good("HeaderArray", Seen)
      /\ view.len % NodeSize = 0 => Good("MerkleArray", Seen)
  BY <1>2 DEF Good
<1>4. {"Header", "HeaderArray", "MerkleArray"} \subseteq Views!Types
  BY DEF Views!Types
<1>5. CASE Views!TryAsHeader
  BY <1>3, <1>4, <1>5, SizeKeeps DEF Views!TryAsHeader
<1>6. CASE Views!TryAsHeaderArray
  BY <1>3, <1>4, <1>6, SizeKeeps DEF Views!TryAsHeaderArray
<1>7. CASE Views!TryAsMerkleArray
  BY <1>3, <1>4, <1>7, SizeKeeps DEF Views!TryAsMerkleArray
<1> QED BY <1>5, <1>6, <1>7

LEMMA IndexHeaderArrayKeeps ==
  ASSUME Views!ViewsAssumption, VInv, Views!IndexHeaderArray
  PROVE  VInv'
<1>1. PICK k \in Indices :
        Views!Call("indexHeaderArray", "HeaderArray", k,
          IF k * HeaderSize >= Uint THEN {Views!Revert}
          ELSE {Views!View(Views!slice(view, k * HeaderSize, HeaderSize,
                                       "Header"))})
  BY SameBits DEF Views!IndexHeaderArray
<1> DEFINE o == k * HeaderSize
           v == Views!slice(view, o, HeaderSize, "Header")  r == Views!View(v)
<1>2. k \in Nat /\ HeaderSize \in Nat
  BY DEF Views!ViewsAssumption
<1>3. o \in Nat /\ (k + 1) * HeaderSize = o + HeaderSize
  BY ONLY <1>2
<1>4. view.type = "HeaderArray"
  BY <1>1 DEF Views!Call
<1>5. view.len \in Nat
  BY <1>4, SeenKnown
<1> HIDE DEF o
<1>6. o + HeaderSize <= view.len =>
        Good("Header", Part(Seen, o, o + HeaderSize))
  BY <1>2, <1>3, <1>4, PartLength DEF Good
<1>7. /\ v = Views!nullView \/ Fine(v)
      /\ o + HeaderSize <= view.len => v # Views!nullView
  <2>1. "Header" \in Views!Types
    BY DEF Views!Types
  <2> QED BY <1>2, <1>3, <1>4, <1>6, <2>1, SliceFine
<1> HIDE DEF v
<1>8. v = Views!nullView => (k + 1) * HeaderSize > view.len
  BY <1>2, <1>3, <1>5, <1>7
<1>9. Handed(r) /\ Excused("indexHeaderArray", k, r)
  BY <1>7, <1>8 DEF Handed, Excused, Views!View
<1>10. o >= Uint => (k + 1) * HeaderSize > view.len
  <2>1. Len(memory) < Uint /\ Len(memory) \in Nat /\ view.from \in Nat
        /\ view.from + view.len <= Len(memory)
    BY <1>4, SeenKnown DEF VInv
  <2>2. Uint \in Nat
    BY DEF Views!ViewsAssumption, Uint
  <2>3. HeaderSize > 0
    BY DEF Views!ViewsAssumption
  <2> QED BY <1>2, <1>3, <1>5, <2>1, <2>2, <2>3
<1>11. o >= Uint =>
         /\ Handed(Views!Revert)
         /\ Excused("indexHeaderArray", k, Views!Revert)
  BY <1>10 DEF Handed, Excused, Views!Revert, Views!View
<1> HIDE DEF r
<1>12. CASE o >= Uint
  <2>1. Views!Call("indexHeaderArray", "HeaderArray", k, {Views!Revert})
    BY <1>1, <1>12 DEF o
  <2> QED BY <1>11, <1>12, <2>1, CallKeeps
<1>13. CASE ~(o >= Uint)
  <2>1. Views!Call("indexHeaderArray", "HeaderArray", k, {r})
    BY <1>1, <1>13 DEF r, v, o
  <2> QED BY <1>9, <2>1, CallKeeps
<1> QED BY <1>12, <1>13

LEMMA HeaderFieldKeeps ==
  ASSUME Views!ViewsAssumption, VInv, Views!HeaderField
  PROVE  VInv'
<1>1. Views!Call("merkleRoot, time, parent", "Header", 0,
                 Views!Read(HeaderFields))
      /\ view.type = "Header"
  BY DEF Views!HeaderField, Views!Call
<1>2. view.len = HeaderSize
  BY <1>1, SeenKnown DEF Good
<1>3. \A x \in HeaderFields : x[1] + x[2] <= view.len
  BY <1>2 DEF Views!ViewsAssumption
<1> QED BY <1>1, <1>3, ReadKeeps

(* The power wraps, so what it multiplies comes out no greater.            *)
LEMMA ScaledIsLess ==
  ASSUME NEW m \in Nat, NEW p \in Nat \ {0}, NEW u \in Nat \ {0}, m * p < u
  PROVE  m * (p % u) < u /\ (m * (p % u) = 0 => m = 0)
<1>1. m = 0 \/ m >= 1
  OBVIOUS
<1>2. CASE m = 0
  <2>1. m * (p % u) = 0
    BY <1>2
  <2> QED BY <1>2, <2>1
<1>3. CASE m >= 1
  <2>1. PICK j \in Nat : m = j + 1
    <3>1. m - 1 \in Nat /\ m = (m - 1) + 1
      BY <1>3
    <3> QED BY <3>1
  <2>2. m * p = j * p + p /\ j * p \in Nat
    BY ONLY <2>1, j \in Nat, p \in Nat
  <2>3. p < u
    <3> DEFINE x == j * p  y == m * p
    <3>1. y = x + p /\ x \in Nat /\ y < u
      BY <2>2
    <3> HIDE DEF x, y
    <3> QED BY ONLY <3>1, p \in Nat, u \in Nat
  <2>4. p % u = p
    BY <2>3
  <2>5. m * p # 0
    <3> DEFINE x == j * p  y == m * p
    <3>1. y = x + p /\ x \in Nat /\ p \in Nat \ {0}
      BY <2>2
    <3> HIDE DEF x, y
    <3>2. y # 0
      BY ONLY <3>1
    <3> QED BY <3>2 DEF y
  <2> QED BY <2>4, <2>5
<1> QED BY <1>1, <1>2, <1>3

(* On bits that denote a target the computation returns, and 0 only for the *)
(* mantissa 0.                                                              *)
LEMMA TargetComputed ==
  ASSUME Views!ViewsAssumption, VInv, view.type = "Header", HasTarget(Seen)
  PROVE  /\ Views!TargetReturns
         /\ Views!Scaled(Seen) = 0 => Mantissa(Seen) = 0
<1>1. /\ Seen \in Seq(Bytes) /\ Len(Seen) = HeaderSize
      /\ view.len = HeaderSize /\ Views!Viewed(view) = Seen
  BY SeenKnown DEF Good
<1>2. BitsAt \in Nat /\ HeaderSize \in Nat /\ BitsAt + 4 <= HeaderSize
  BY DEF Views!ViewsAssumption
<1>3. BitsAt + 3 <= view.len /\ (BitsAt + 3) + 1 <= view.len
  BY <1>1, <1>2
<1>4. \A k \in 1..4 : BitsAt + k \in 1..Len(Seen)
  BY <1>1, <1>2
<1>5. \A k \in 1..4 : Seen[BitsAt + k] \in Bytes
  BY <1>1, <1>4
<1>6. /\ Seen[BitsAt + 1] \in Nat /\ Seen[BitsAt + 2] \in Nat
      /\ Seen[BitsAt + 3] \in Nat /\ Seen[BitsAt + 4] \in 0..Base - 1
  BY <1>5, Sizes DEF Bytes
<1>7. Mantissa(Seen) \in Nat
  <2> DEFINE x == Base * Seen[BitsAt + 2]  y == Base * Base
             z == y * Seen[BitsAt + 3]
  <2>1. Base \in Nat
    BY Sizes
  <2>2. x \in Nat /\ y \in Nat
    BY ONLY <1>6, <2>1
  <2>3. Mantissa(Seen) = Seen[BitsAt + 1] + x + z
    BY DEF Mantissa
  <2> HIDE DEF x, y
  <2>4. z \in Nat
    BY ONLY <1>6, <2>2
  <2> HIDE DEF z
  <2>5. Seen[BitsAt + 1] + x + z \in Nat
    BY ONLY <1>6, <2>2, <2>4
  <2> QED BY <2>3, <2>5
<1>8. Exponent(Seen) \in 0..Base - 1 /\ Exponent(Seen) >= 3
  BY <1>6 DEF Exponent, HasTarget
<1> DEFINE p == Power[Exponent(Seen) - 3]
<1>9. p \in Nat \ {0} /\ Uint \in Nat \ {0}
  <2>1. Digits \in 0..Base - 1 /\ Power \in [0..Base - 1 -> Nat \ {0}]
    BY DEF Views!ViewsAssumption
  <2>2. Base \in Nat
    BY Sizes
  <2> DEFINE e == Exponent(Seen)
  <2>3. e \in 0..Base - 1 /\ e >= 3
    BY <1>8
  <2> HIDE DEF e
  <2>4. e - 3 \in 0..Base - 1
    BY ONLY <2>2, <2>3
  <2> QED BY <2>1, <2>4 DEF Uint, e
<1>10. Mantissa(Seen) * p < Uint
  BY DEF HasTarget
<1>11. Views!Scaled(Seen) = Mantissa(Seen) * (p % Uint)
  BY SameBits DEF Views!Scaled
<1> HIDE DEF p
<1>12. /\ Mantissa(Seen) * (p % Uint) < Uint
       /\ Mantissa(Seen) * (p % Uint) = 0 => Mantissa(Seen) = 0
  BY <1>7, <1>9, <1>10, ScaledIsLess
<1>13. Views!TargetReturns
  BY <1>1, <1>3, <1>8, <1>11, <1>12, SameBits
     DEF Views!TargetReturns, Views!Readable
<1> QED BY <1>11, <1>12, <1>13

LEMMA TargetKeeps ==
  ASSUME Views!ViewsAssumption, VInv, Views!Target \/ Views!Diff
  PROVE  VInv'
<1>1. view.type = "Header"
  BY DEF Views!Target, Views!Diff, Views!Call
<1>2. Views!Viewed(view) = Seen
  BY <1>1, SeenKnown
<1>3. HasTarget(Seen) =>
        Views!TargetReturns /\ (Views!Scaled(Seen) = 0 => Mantissa(Seen) = 0)
  BY <1>1, TargetComputed
<1>4. \A name : /\ Handed(Views!Value) /\ Excused(name, 0, Views!Value)
                /\ Handed(Views!Revert)
  BY DEF Handed, Excused, Views!Value, Views!Revert, Views!View
<1>5. /\ ~HasTarget(Seen) => Excused("target", 0, Views!Revert)
      /\ ~HasTarget(Seen) \/ Mantissa(Seen) = 0 =>
           Excused("diff", 0, Views!Revert)
  BY DEF Excused, Seen, Views!Revert, Views!View
<1>6. CASE Views!Target
  <2>1. CASE Views!TargetReturns
    <3>1. Views!Call("target", "Header", 0, {Views!Value})
      BY <1>6, <2>1 DEF Views!Target
    <3> QED BY <1>4, <3>1, CallKeeps
  <2>2. CASE ~Views!TargetReturns
    <3>1. Views!Call("target", "Header", 0, {Views!Revert})
      BY <1>6, <2>2 DEF Views!Target
    <3> QED BY <1>3, <1>4, <1>5, <2>2, <3>1, CallKeeps
  <2> QED BY <2>1, <2>2
<1>7. CASE Views!Diff
  <2> DEFINE returns == Views!TargetReturns /\ Views!Scaled(Seen) # 0
  <2>1. CASE returns
    <3>1. Views!Call("diff", "Header", 0, {Views!Value})
      BY <1>2, <1>7, <2>1 DEF Views!Diff
    <3> QED BY <1>4, <3>1, CallKeeps
  <2>2. CASE ~returns
    <3>1. Views!Call("diff", "Header", 0, {Views!Revert})
      BY <1>2, <1>7, <2>2 DEF Views!Diff
    <3> QED BY <1>3, <1>4, <1>5, <2>2, <3>1, CallKeeps
  <2> QED BY <2>1, <2>2
<1> QED BY <1>6, <1>7

LEMMA MerkleNodesKeep ==
  ASSUME Views!ViewsAssumption, VInv, Views!MerkleNodes
  PROVE  VInv'
<1> DEFINE d == view.len \div NodeSize
           ranges == {<<k * NodeSize, NodeSize>> : k \in 0..d - 1}
<1>1. Views!Call("checkMerkle", "MerkleArray", 0, Views!Read(ranges))
      /\ view.type = "MerkleArray"
  BY DEF Views!MerkleNodes, Views!Call
<1>2. view.len \in Nat /\ NodeSize \in Nat \ {0}
  BY <1>1, SeenKnown DEF Views!ViewsAssumption
<1>3. d \in Nat /\ d * NodeSize <= view.len
  <2> DEFINE width == view.len  rest == width % NodeSize
  <2> HIDE DEF width
  <2>1. width \in Nat /\ NodeSize \in Nat \ {0} /\ d = width \div NodeSize
    BY <1>2 DEF width
  <2> HIDE DEF d
  <2>2. rest \in Nat /\ d \in Nat /\ width = d * NodeSize + rest
    BY ONLY <2>1
  <2> DEFINE p == d * NodeSize
  <2>3. p \in Int
    BY ONLY <2>1, <2>2
  <2> HIDE DEF rest, p
  <2>4. p <= width
    BY ONLY <2>1, <2>2, <2>3 DEF p
  <2> QED BY <2>2, <2>4 DEF width, p
<1> HIDE DEF d
<1>4. \A k \in 0..d - 1 : k * NodeSize + NodeSize <= view.len
  <2> SUFFICES ASSUME NEW k \in 0..d - 1
               PROVE  k * NodeSize + NodeSize <= view.len
    OBVIOUS
  <2>1. PICK j \in Nat : d = (k + 1) + j
    <3>1. d - (k + 1) \in Nat /\ d = (k + 1) + (d - (k + 1)) /\ k \in Nat
      BY <1>3
    <3> QED BY <3>1
  <2>2. k \in Nat
    BY <1>3
  <2>3. /\ ((k + 1) + j) * NodeSize = (k * NodeSize + NodeSize) + j * NodeSize
        /\ j * NodeSize \in Nat /\ k * NodeSize \in Nat
    BY ONLY <1>2, <2>2, j \in Nat
  <2> DEFINE x == j * NodeSize  y == k * NodeSize  z == d * NodeSize
  <2>4. z = (y + NodeSize) + x
    BY <2>1, <2>3
  <2>5. x \in Nat /\ y \in Nat /\ z <= view.len
    BY <1>3, <2>3
  <2> HIDE DEF x, y, z
  <2>6. y + NodeSize <= view.len
    BY ONLY <1>2, <2>4, <2>5
  <2> QED BY <2>6 DEF y
<1>5. \A x \in ranges : x[1] + x[2] <= view.len
  BY <1>4
<1> HIDE DEF ranges
<1> QED BY <1>1, <1>5, ReadKeeps

LEMMA HashKeeps ==
  ASSUME Views!ViewsAssumption, VInv, Views!Hash PROVE VInv'
<1> DEFINE null == Views!View(Views!nullView)
           hashes == {Views!View(p) :
             p \in {Views!nullView} \cup Views!Payloads(Views!Number(Views!Viewed(view), 0))}
<1>1. view.type = "ScriptPubkey"
  BY DEF Views!Hash, Views!Call
<1>2. /\ Seen \in Seq(Bytes) /\ Views!Viewed(view) = Seen /\ IsScript(Seen)
  BY <1>1, SeenKnown DEF Good
<1>3. Views!IntAt(0)
  BY <1>2, ScriptThere, SameNumbers DEF Views!IntAt
<1>4. PICK results :
        /\ Views!Call("payload", "ScriptPubkey", 0, results)
        /\ results = {null} \/ results = hashes
  BY <1>3 DEF Views!Hash
<1>5. ASSUME NEW p \in Views!Payloads(Views!Number(Views!Viewed(view), 0))
      PROVE  p = Views!nullView \/ Fine(p)
  <2>1. \/ p = Views!slice(view, 4, HashSize, "PKH")
        \/ p = Views!slice(view, 3, HashSize, "SH")
        \/ p = Views!slice(view, 3, HashSize, "WPKH")
        \/ p = Views!slice(view, 3, LongHashSize, "WSH")
    BY <1>5 DEF Views!Payloads
  <2>2. /\ {"PKH", "SH", "WPKH", "WSH"} \subseteq Views!Types
        /\ HashSize \in Nat /\ LongHashSize \in Nat /\ 3 \in Nat /\ 4 \in Nat
    BY DEF Views!Types, Views!ViewsAssumption
  <2>3. \A o \in Nat, type \in {"PKH", "SH", "WPKH"} :
          LET v == Views!slice(view, o, HashSize, type) IN
            v = Views!nullView \/ Fine(v)
    <3> SUFFICES ASSUME NEW o \in Nat, NEW type \in {"PKH", "SH", "WPKH"}
                 PROVE  LET v == Views!slice(view, o, HashSize, type) IN
                          v = Views!nullView \/ Fine(v)
      OBVIOUS
    <3>1. o + HashSize <= view.len => Good(type, Part(Seen, o, o + HashSize))
      BY <1>1, <2>2, PartLength DEF Good
    <3> QED BY <1>1, <2>2, <3>1, SliceFine
  <2>4. LET v == Views!slice(view, 3, LongHashSize, "WSH") IN
          v = Views!nullView \/ Fine(v)
    <3>1. 3 + LongHashSize <= view.len =>
            Good("WSH", Part(Seen, 3, 3 + LongHashSize))
      BY <1>1, <2>2, PartLength DEF Good
    <3> QED BY <1>1, <2>2, <3>1, SliceFine
  <2> QED BY <2>1, <2>2, <2>3, <2>4
<1>6. \A r \in results : Handed(r) /\ Excused("payload", 0, r)
  <2> SUFFICES ASSUME NEW p, p = Views!nullView \/ Fine(p)
               PROVE  /\ Handed(Views!View(p))
                      /\ Excused("payload", 0, Views!View(p))
    BY <1>4, <1>5
  <2> QED BY DEF Handed, Excused, Views!View
<1> QED BY <1>4, <1>6, CallKeeps

LEMMA OpReturnPayloadKeeps ==
  ASSUME Views!ViewsAssumption, VInv, Views!OpReturnPayload PROVE VInv'
<1> DEFINE null == Views!View(Views!nullView)  l == Seen[3]
           v == Views!slice(view, 3, l, "OpReturnPayload")
<1>1. view.type = "ScriptPubkey"
  BY DEF Views!OpReturnPayload, Views!Call
<1>2. /\ Seen \in Seq(Bytes) /\ Views!Viewed(view) = Seen /\ IsScript(Seen)
      /\ view.len \in Nat
  BY <1>1, SeenKnown DEF Good
<1>3. Views!IntAt(0) /\ Number(Seen, 0) \in Nat
      /\ Views!Number(Seen, 0) = Number(Seen, 0)
  BY <1>2, ScriptThere, SameNumbers DEF Views!IntAt
<1>4. PICK results :
        /\ Views!Call("opReturnPayload", "ScriptPubkey", 0, results)
        /\ \/ results = {Views!Revert} /\ ~Views!Readable(view, 2, 1)
           \/ results = {null}
           \/ /\ results = {Views!View(v)}
              /\ ~(Number(Seen, 0) > MaxPush + 2 \/ Number(Seen, 0) < 4)
              /\ l = Number(Seen, 0) - 2
  BY <1>2, <1>3 DEF Views!OpReturnPayload
<1>5. ASSUME ~Views!Readable(view, 2, 1)
      PROVE  /\ Handed(Views!Revert)
             /\ Excused("opReturnPayload", 0, Views!Revert)
  <2>1. view.len < 3
    BY <1>2, <1>5 DEF Views!Readable
  <2> QED BY <2>1 DEF Handed, Excused, Views!Revert, Views!View
<1>6. ASSUME NEW p, p = Views!nullView \/ Fine(p)
      PROVE  /\ Handed(Views!View(p))
             /\ Excused("opReturnPayload", 0, Views!View(p))
  BY <1>6 DEF Handed, Excused, Views!View
<1>7. ASSUME ~(Number(Seen, 0) > MaxPush + 2 \/ Number(Seen, 0) < 4),
             l = Number(Seen, 0) - 2
      PROVE  v = Views!nullView \/ Fine(v)
  <2>1. l \in Nat /\ l \in 2..MaxPush
    <3> DEFINE m == Number(Seen, 0)
    <3>1. m \in Nat /\ MaxPush \in Nat
      BY <1>3 DEF Views!ViewsAssumption
    <3> HIDE DEF l, m
    <3> QED BY <1>7, <3>1 DEF m
  <2> HIDE DEF l
  <2>2. 3 + l <= view.len => Good("OpReturnPayload", Part(Seen, 3, 3 + l))
    BY <1>1, <2>1, PartLength DEF Good
  <2>3. "OpReturnPayload" \in Views!Types /\ 3 \in Nat
    BY DEF Views!Types
  <2> QED BY <1>1, <2>1, <2>2, <2>3, SliceFine
<1> HIDE DEF v
<1>8. \A r \in results : Handed(r) /\ Excused("opReturnPayload", 0, r)
  BY <1>4, <1>5, <1>6, <1>7
<1> QED BY <1>4, <1>8, CallKeeps

LEMMA MistypedKeeps ==
  ASSUME VInv, Views!Mistyped PROVE VInv'
<1>1. /\ call' = [name |-> "typeAssert", index |-> 0, on |-> Views!nullView]
      /\ view' = Views!nullView /\ memory' = memory
  BY DEF Views!Mistyped
<1>2. (view = Views!nullView \/ Fine(view))'
  BY <1>1 DEF Views!nullView
<1>3. Views!TypedIsSafe'
  BY <1>1 DEF Views!TypedIsSafe, Views!nullView
<1> QED BY <1>1, <1>2, <1>3 DEF VInv, Uint

LEMMA SameViewsKeep ==
  ASSUME VInv, UNCHANGED Views!vars PROVE VInv'
<1>1. memory' = memory /\ view' = view /\ call' = call /\ outcome' = outcome
  BY DEF Views!vars
<1>2. (view = Views!nullView \/ Fine(view))'
  BY <1>1 DEF VInv, Fine, FineIn, Views!nullView
<1>3. Views!TypedIsSafe'
  BY <1>1 DEF VInv, Views!TypedIsSafe, Views!nullView, Views!Count,
              Views!Viewed, Views!Number, Views!IsWide, Views!Payload,
              Views!HeaderMissing, Views!HasTarget, Views!Mantissa,
              Views!Exponent, Views!Uint
<1> QED BY <1>1, <1>2, <1>3 DEF VInv, Uint

LEMMA ViewsNext ==
  ASSUME Views!ViewsAssumption, VInv, [Views!Next]_(Views!vars)
  PROVE  VInv'
<1>1. CASE \E q \in Kinds : Views!TryAsVector(q) \/ Views!IndexVector(q)
  BY <1>1, TryAsVectorKeeps, IndexVectorKeeps
<1>2. CASE Views!Outpoint \/ Views!ScriptSig \/ Views!Sequence
           \/ Views!OutpointParts
  BY <1>2, OutpointKeeps, ScriptSigKeeps, SequenceKeeps, OutpointPartsKeeps
<1>3. CASE Views!OutputValue \/ Views!ScriptPubkey \/ Views!TryAsSPK
           \/ Views!Hash \/ Views!OpReturnPayload
  BY <1>3, OutputValueKeeps, ScriptPubkeyKeeps, TryAsSPKKeeps, HashKeeps,
     OpReturnPayloadKeeps
<1>4. CASE Views!TryAsHeader \/ Views!TryAsHeaderArray
           \/ Views!TryAsMerkleArray
  BY <1>4, HeaderCastsKeep
<1>5. CASE Views!IndexHeaderArray \/ Views!HeaderField \/ Views!Target
           \/ Views!Diff \/ Views!MerkleNodes
  BY <1>5, IndexHeaderArrayKeeps, HeaderFieldKeeps, TargetKeeps,
     MerkleNodesKeep
<1>6. CASE Views!Mistyped
  BY <1>6, MistypedKeeps
<1>7. CASE Views!Done \/ UNCHANGED Views!vars
  BY <1>7, SameViewsKeep DEF Views!Done
<1> QED BY <1>1, <1>2, <1>3, <1>4, <1>5, <1>6, <1>7 DEF Views!Next, Views!Kinds, Kinds

LEMMA VInvTells ==
  ASSUME VInv PROVE Views!TypeTellsForm
<1> SUFFICES ASSUME view # Views!nullView
             PROVE  /\ view.type \in Views!Types
                    /\ view.from + view.len <= Len(memory)
                    /\ Views!Form(view.type, Views!Viewed(view))
  BY DEF Views!TypeTellsForm
<1>1. memory \in Seq(Bytes) /\ Fine(view)
  BY DEF VInv
<1>2. Views!Form(view.type, Views!Viewed(view))
  BY <1>1, GoodForm, ViewedPart
<1>3. view.type \in Views!Types /\ view.from + view.len <= Len(memory)
  BY <1>1 DEF Fine, FineIn
<1> QED BY <1>2, <1>3

(* The instance says the same of its variables, which are those of this    *)
(* module.                                                                 *)
LEMMA SameViews ==
  /\ Views!TypedIsSafe <=> TypedIsSafe
  /\ Views!TypeTellsForm <=> TypeTellsForm
<1>1. Views!Count = Count /\ Views!nullView = nullView
      /\ \A v : Views!Viewed(v) = Viewed(v)
      /\ (Views!HeaderMissing <=> HeaderMissing)
  BY SameNumbers DEF Views!Count, Count, Views!nullView, nullView,
       Views!Viewed, Viewed, Views!HeaderMissing, HeaderMissing
<1>2. Views!TypedIsSafe <=> TypedIsSafe
  BY <1>1, SameBits DEF Views!TypedIsSafe, TypedIsSafe
<1>3. ASSUME NEW type, NEW s PROVE Views!Form(type, s) <=> Form(type, s)
  <2>1. \A q : /\ Views!IsVector(q, s, TRUE) <=> IsVector(q, s, TRUE)
               /\ Views!IsElement(q, s, TRUE) <=> IsElement(q, s, TRUE)
    BY SameElements, Zenon DEF Strictly, Vectorly
  <2>2. Views!IsScript(s) <=> IsScript(s)
    BY SameElements, Zenon
  <2> QED BY <2>1, <2>2, Zenon DEF Views!Form, Form
<1>4. Views!Types = Types
  BY DEF Views!Types, Types
<1>5. Views!TypeTellsForm <=> TypeTellsForm
  BY <1>1, <1>3, <1>4 DEF Views!TypeTellsForm, TypeTellsForm
<1> QED BY <1>2, <1>5

(* A function of ViewBTC.sol on a view of the type it is for neither reads *)
(* beyond the view nor misses a part of it, in whatever order the functions*)
(* were called, with the exceptions that TypedIsSafe names: target and diff*)
(* revert only on bits that denote no target or, for diff, the target 0.   *)
THEOREM ViewsAreSafe ==
  ASSUME Views!ViewsAssumption
  PROVE  Views!Spec => []TypedIsSafe
<1>1. Views!Init => VInv
  BY ViewsInit
<1>2. VInv /\ [Views!Next]_(Views!vars) => VInv'
  BY ViewsNext
<1>3. VInv => TypedIsSafe
  BY SameViews DEF VInv
<1> QED BY <1>1, <1>2, <1>3, PTL DEF Views!Spec

(* The type of a view of ViewBTC.sol tells what its bytes are: an input, an*)
(* output, a whole vector of them, a script of the length it says, and so  *)
(* on; and the view lies in the memory the first one was taken of.         *)
THEOREM ViewsTellTheirForm ==
  ASSUME Views!ViewsAssumption
  PROVE  Views!Spec => []TypeTellsForm
<1>1. Views!Init => VInv
  BY ViewsInit
<1>2. VInv /\ [Views!Next]_(Views!vars) => VInv'
  BY ViewsNext
<1>3. VInv => TypeTellsForm
  BY VInvTells, SameViews
<1> QED BY <1>1, <1>2, <1>3, PTL DEF Views!Spec

(***************************************************************************)
(* Fields of inputs and outputs.                                           *)
(***************************************************************************)
CONSTANTS Elements, TxIdSize, NumberSize

Fields == INSTANCE FieldExtraction

FieldsAssumption ==
  /\ Fields!ImplAssumption /\ Fields!ElementsAssumption
  /\ Fields!SizeAssumption /\ Fields!OpcodeAssumption

(* A call has returned what its function computes from the element. *)
FInv ==
  /\ port \in Impls /\ parts \in Elements
  /\ \/ called = "none"
     \/ called = "tx_index" /\ Fields!IsInput /\ returned = Fields!OutpointIndex
     \/ called = "script_sig" /\ Fields!IsInput /\ returned = Fields!ScriptSig
     \/ called = "sequence" /\ Fields!IsInput /\ returned = Fields!Sequence
     \/ called = "value"
     \/ called = "hash" /\ ~Fields!IsInput /\ returned \in Fields!HashResults
     \/ called = "op_return" /\ ~Fields!IsInput /\ returned = Fields!OpReturn

(* What the functions compute depends on the element and the port only. *)
LEMMA FieldsSame ==
  ASSUME port' = port, parts' = parts
  PROVE  /\ Fields!IsInput' = Fields!IsInput
         /\ Fields!OutpointIndex' = Fields!OutpointIndex
         /\ Fields!ScriptSig' = Fields!ScriptSig
         /\ Fields!Sequence' = Fields!Sequence
         /\ Fields!OpReturn' = Fields!OpReturn
         /\ Fields!HashResults' = Fields!HashResults
<1>1. /\ Fields!IsInput' = Fields!IsInput
      /\ Fields!input' = Fields!input /\ Fields!spk' = Fields!spk
  BY DEF Fields!IsInput, Fields!input, Fields!spk
<1>2. /\ Fields!OutpointIndex' = Fields!OutpointIndex
      /\ Fields!Parsed' = Fields!Parsed
      /\ Fields!ScriptEnd' = Fields!ScriptEnd
      /\ Fields!IsLegacyInput' = Fields!IsLegacyInput
  BY <1>1 DEF Fields!OutpointIndex, Fields!Parsed, Fields!ScriptEnd,
                    Fields!IsLegacyInput
<1>3. Fields!ScriptSig' = Fields!ScriptSig
  BY <1>1, <1>2 DEF Fields!ScriptSig
<1>4. Fields!Sequence' = Fields!Sequence
  BY <1>1, <1>2 DEF Fields!Sequence
<1>5. /\ Fields!LengthMatches' = Fields!LengthMatches
      /\ Fields!SolBody' = Fields!SolBody
      /\ Fields!SolLength' = Fields!SolLength
      /\ Fields!SolViewed' = Fields!SolViewed
      /\ Fields!solSpk' = Fields!solSpk
  BY <1>1 DEF Fields!LengthMatches, Fields!SolBody, Fields!SolLength,
              Fields!SolViewed, Fields!solSpk
<1>6. \A k, v : Fields!Kind(k, v)' = Fields!Kind(k, v)
  BY DEF Fields!Kind
<1>7. /\ Fields!WitnessHash' = Fields!WitnessHash
      /\ Fields!LegacyHash' = Fields!LegacyHash
  BY <1>1, <1>6 DEF Fields!WitnessHash, Fields!LegacyHash
<1>8. Fields!HashOfMatching' = Fields!HashOfMatching
  BY <1>1, <1>7 DEF Fields!HashOfMatching
<1>9. Fields!SolHash' = Fields!SolHash
  BY <1>1, <1>5, <1>6 DEF Fields!SolHash
<1>10. Fields!HashResults' = Fields!HashResults
  BY <1>1, <1>5, <1>8, <1>9
  DEF Fields!HashResults, Fields!CJsHash, Fields!GoHash, Fields!RustHash
<1>11. Fields!PushedData' = Fields!PushedData
  BY <1>1 DEF Fields!PushedData
<1>12. Fields!OpReturn' = Fields!OpReturn
  BY <1>1, <1>5, <1>11
  DEF Fields!OpReturn, Fields!COpReturn, Fields!JsOpReturn,
      Fields!GoRustOpReturn, Fields!SolOpReturn
<1> QED BY <1>1, <1>2, <1>3, <1>4, <1>10, <1>12

LEMMA FieldsNext ==
  ASSUME FInv, [Fields!Next]_(Fields!vars)
  PROVE  FInv'
<1>1. ASSUME NEW function, NEW results, Fields!Call(function, results),
             function # "none",
             \/ function = "value"
             \/ \E r : /\ results = {r}
                       /\ \/ function = "tx_index" /\ Fields!IsInput
                             /\ r = Fields!OutpointIndex
                          \/ function = "script_sig" /\ Fields!IsInput
                             /\ r = Fields!ScriptSig
                          \/ function = "sequence" /\ Fields!IsInput
                             /\ r = Fields!Sequence
                          \/ function = "op_return" /\ ~Fields!IsInput
                             /\ r = Fields!OpReturn
             \/ function = "hash" /\ ~Fields!IsInput
                /\ results = Fields!HashResults
      PROVE  FInv'
  <2>1. port' = port /\ parts' = parts /\ called' = function
        /\ returned' \in results
    BY <1>1 DEF Fields!Call
  <2> QED BY <1>1, <2>1, FieldsSame DEF FInv
<1>2. CASE Fields!ExtractTxIndex
  BY <1>1, <1>2 DEF Fields!ExtractTxIndex
<1>3. CASE Fields!ExtractScriptSig
  BY <1>1, <1>3 DEF Fields!ExtractScriptSig
<1>4. CASE Fields!ExtractSequence
  BY <1>1, <1>4 DEF Fields!ExtractSequence
<1>5. CASE Fields!ExtractValue
  BY <1>1, <1>5 DEF Fields!ExtractValue
<1>6. CASE Fields!ExtractHash
  BY <1>1, <1>6 DEF Fields!ExtractHash
<1>7. CASE Fields!ExtractOpReturnData
  BY <1>1, <1>7 DEF Fields!ExtractOpReturnData
<1>8. CASE Fields!Done \/ UNCHANGED Fields!vars
  BY <1>8, FieldsSame DEF Fields!Done, Fields!vars, FInv
<1> QED
  BY <1>2, <1>3, <1>4, <1>5, <1>6, <1>7, <1>8 DEF Fields!Next

(***************************************************************************)
(* Inputs.                                                                 *)
(***************************************************************************)
LEMMA Joined ==
  ASSUME NEW a \in Seq(Bytes), NEW b \in Seq(Bytes)
  PROVE  /\ a \o b \in Seq(Bytes) /\ Len(a \o b) = Len(a) + Len(b)
         /\ \A k \in 1..Len(a) : (a \o b)[k] = a[k]
         /\ \A k \in 1..Len(b) : (a \o b)[Len(a) + k] = b[k]
<1>1. Len(a) \in Nat /\ Len(b) \in Nat
  OBVIOUS
<1>2. /\ a \o b \in Seq(Bytes) /\ Len(a \o b) = Len(a) + Len(b)
      /\ \A k \in 1..Len(a) + Len(b) :
           (a \o b)[k] = IF k <= Len(a) THEN a[k] ELSE b[k - Len(a)]
  BY ConcatProperties
<1>3. ASSUME NEW k \in 1..Len(a) PROVE (a \o b)[k] = a[k]
  <2>1. k \in 1..Len(a) + Len(b) /\ k <= Len(a)
    BY <1>1
  <2> QED BY <1>2, <2>1
<1>4. ASSUME NEW k \in 1..Len(b) PROVE (a \o b)[Len(a) + k] = b[k]
  <2> DEFINE m == Len(a) + k
  <2>1. m \in 1..Len(a) + Len(b) /\ ~(m <= Len(a)) /\ m - Len(a) = k
    BY <1>1
  <2> HIDE DEF m
  <2>2. (a \o b)[m] = b[m - Len(a)]
    BY <1>2, <2>1
  <2> QED BY <2>1, <2>2 DEF m
<1> QED BY <1>2, <1>3, <1>4

(* The bytes of w lie in s from offset o on. *)
Lies(w, s, o) == \A k \in 1..Len(w) : s[o + k] = w[k]

LEMMA PartLies ==
  ASSUME NEW s \in Seq(Bytes), NEW w \in Seq(Bytes), NEW o \in Nat,
         NEW e \in Nat, e - o = Len(w), e <= Len(s), Lies(w, s, o)
  PROVE  Part(s, o, e) = w
<1> DEFINE t == Part(s, o, e)
<1>1. Len(w) \in Nat /\ o <= e
  OBVIOUS
<1>2. t \in Seq(Bytes) /\ Len(t) = e - o /\ \A k \in 1..e - o : t[k] = s[o + k]
  BY <1>1, PartBytes DEF Part
<1> HIDE DEF t
<1>3. Len(t) = Len(w)
  BY <1>2
<1>4. \A k \in 1..Len(w) : t[k] = w[k]
  BY <1>2 DEF Lies
<1>5. t = w
  BY <1>2, <1>3, <1>4, SeqEqual
<1> QED BY <1>5 DEF t

(* What stands between two other parts. *)
LEMMA Between ==
  ASSUME NEW a \in Seq(Bytes), NEW b \in Seq(Bytes), NEW c \in Seq(Bytes),
         NEW s, s = (a \o b) \o c
  PROVE  /\ s \in Seq(Bytes) /\ Len(s) = Len(a) + Len(b) + Len(c)
         /\ Lies(b, s, Len(a))
<1> DEFINE d == a \o b  x == Len(a)  y == Len(b)  z == Len(c)
<1>1. x \in Nat /\ y \in Nat /\ z \in Nat
  OBVIOUS
<1>2. d \in Seq(Bytes) /\ Len(d) = x + y /\ \A k \in 1..y : d[x + k] = b[k]
  BY Joined
<1>3. s \in Seq(Bytes) /\ Len(s) = Len(d) + z /\ \A k \in 1..Len(d) : s[k] = d[k]
  BY <1>2, Joined
<1> HIDE DEF d, x, y, z
<1>4. Len(s) = x + y + z
  BY <1>1, <1>2, <1>3
<1>5. ASSUME NEW k \in 1..y PROVE s[x + k] = b[k]
  <2>1. x + k \in 1..Len(d)
    BY <1>1, <1>2
  <2>2. s[x + k] = d[x + k] /\ d[x + k] = b[k]
    BY <1>2, <1>3, <2>1
  <2> QED BY <2>2
<1> QED BY <1>3, <1>4, <1>5 DEF x, y, z, Lies

LEMMA Regrouped ==
  ASSUME NEW a \in Seq(Bytes), NEW b \in Seq(Bytes), NEW c \in Seq(Bytes)
  PROVE  (a \o b) \o c = a \o (b \o c)
BY ConcatAssociative

(* An input is its five parts. *)
InputParts(p) ==
  /\ p.txid \in Seq(Bytes) /\ p.index \in Seq(Bytes) /\ p.code \in Seq(Bytes)
  /\ p.script \in Seq(Bytes) /\ p.sequence \in Seq(Bytes)

LEMMA InputLaid ==
  ASSUME InputParts(parts)
  PROVE  LET a == Len(parts.txid)  b == a + Len(parts.index)
             c == b + Len(parts.code)  d == c + Len(parts.script)
             e == d + Len(parts.sequence)  s == Fields!input
         IN  /\ s \in Seq(Bytes) /\ Len(s) = e
             /\ Lies(parts.index, s, a) /\ Lies(parts.code, s, b)
             /\ Lies(parts.code \o parts.script, s, b)
             /\ parts.code \o parts.script \in Seq(Bytes)
             /\ Len(parts.code \o parts.script)
                  = Len(parts.code) + Len(parts.script)
             /\ Lies(parts.sequence, s, d)
<1> DEFINE u == parts.txid  v == parts.index  w == parts.code
           x == parts.script  y == parts.sequence  s == Fields!input
<1>1. /\ u \in Seq(Bytes) /\ v \in Seq(Bytes) /\ w \in Seq(Bytes)
      /\ x \in Seq(Bytes) /\ y \in Seq(Bytes)
  BY DEF InputParts
<1>2. s = (((u \o v) \o w) \o x) \o y
  BY DEF Fields!input
<1> HIDE DEF u, v, w, x, y, s
<1> DEFINE p == u \o v  q == w \o x  r == x \o y  f == p \o q  g == w \o r
<1>3. /\ p \in Seq(Bytes) /\ q \in Seq(Bytes) /\ r \in Seq(Bytes)
      /\ Len(p) = Len(u) + Len(v) /\ Len(q) = Len(w) + Len(x)
      /\ p \o w \in Seq(Bytes)
  BY <1>1, Joined
<1>4. q = w \o x /\ r = x \o y /\ s = ((p \o w) \o x) \o y
  BY <1>2
<1> HIDE DEF p, q, r
<1>5. /\ f \in Seq(Bytes) /\ g \in Seq(Bytes)
      /\ Len(f) = Len(p) + Len(q)
  BY <1>1, <1>3, Joined
<1>typed. /\ p \in Seq(Bytes) /\ q \in Seq(Bytes) /\ r \in Seq(Bytes)
          /\ w \in Seq(Bytes) /\ x \in Seq(Bytes) /\ y \in Seq(Bytes)
          /\ f \in Seq(Bytes) /\ <<>> \in Seq(Bytes)
  BY <1>1, <1>3, <1>5
<1>6. s = f \o y
  <2>0. p \in Seq(Bytes) /\ w \in Seq(Bytes) /\ x \in Seq(Bytes)
    BY ONLY <1>typed
  <2>4. (p \o w) \o x = p \o (w \o x)
    BY ONLY <2>0, Regrouped
  <2> QED BY <1>4, <2>4
<1>7. s = (p \o w) \o r
  <2> DEFINE z == p \o w
  <2>1. z \in Seq(Bytes) /\ s = (z \o x) \o y
    BY <1>3, <1>4
  <2> HIDE DEF z
  <2>2. (z \o x) \o y = z \o (x \o y)
    <3>1. z \in Seq(Bytes) /\ x \in Seq(Bytes) /\ y \in Seq(Bytes)
      BY <1>typed, <2>1
    <3> QED BY ONLY <3>1, Regrouped
  <2> QED BY <1>4, <2>1, <2>2 DEF z
<1>8. s = p \o g
  <2>0. p \in Seq(Bytes) /\ w \in Seq(Bytes) /\ r \in Seq(Bytes)
    BY ONLY <1>typed
  <2>1. (p \o w) \o r = p \o (w \o r)
    BY ONLY <2>0, Regrouped
  <2> QED BY <1>7, <2>1
<1>9. Lies(v, s, Len(u))
  BY <1>1, <1>5, <1>8, Between DEF p
<1>10. Lies(w, s, Len(p))
  BY <1>1, <1>3, <1>7, Between
<1>11. Lies(q, s, Len(p))
  BY ONLY <1>typed, <1>6, Between
<1> HIDE DEF f, g
<1>12. /\ s \in Seq(Bytes) /\ Len(s) = Len(f) + Len(y)
       /\ Lies(y, s, Len(f))
  <2>1. /\ f \o y \in Seq(Bytes) /\ Len(f \o y) = Len(f) + Len(y)
        /\ \A k \in 1..Len(y) : (f \o y)[Len(f) + k] = y[k]
    BY <1>1, <1>5, Joined
  <2> QED BY <1>6, <2>1 DEF Lies
<1>13. /\ Len(u) \in Nat /\ Len(v) \in Nat /\ Len(w) \in Nat
       /\ Len(x) \in Nat /\ Len(y) \in Nat
  BY <1>1
<1>14. /\ Len(f) = Len(u) + Len(v) + Len(w) + Len(x)
       /\ Len(p) + Len(q) = Len(u) + Len(v) + Len(w) + Len(x)
       /\ Len(s) = Len(u) + Len(v) + Len(w) + Len(x) + Len(y)
  BY <1>3, <1>5, <1>12, <1>13
<1>15. /\ Lies(w, s, Len(u) + Len(v)) /\ Lies(q, s, Len(u) + Len(v))
       /\ Lies(y, s, Len(u) + Len(v) + Len(w) + Len(x))
  BY <1>3, <1>10, <1>11, <1>12, <1>14
<1>16. /\ w \o x \in Seq(Bytes) /\ Len(w \o x) = Len(w) + Len(x)
       /\ Lies(w \o x, s, Len(u) + Len(v))
  BY <1>3, <1>4, <1>15
<1> QED BY <1>9, <1>12, <1>14, <1>15, <1>16 DEF s, u, v, w, x, y

LEMMA SameInFields ==
  /\ \A b, o : Fields!IsWide(b, o) <=> IsWide(b, o)
  /\ \A b, o : Fields!Number(b, o) = Number(b, o)
  /\ \A k : Fields!Canonical(k) = Canonical(k)
  /\ \A p, b, o : Fields!ParseOutcome(p, b, o) = ParseOutcome(p, b, o)
  /\ \A p, b, o : Fields!SerializedLength(p, b, o) = SerializedLength(p, b, o)
  /\ \A k : Fields!Shortest(k) = Shortest(k) /\ Fields!Padded(k) = Padded(k)
<1>1. \A b, o : Fields!IsWide(b, o) <=> IsWide(b, o)
  BY DEF Fields!IsWide, IsWide
<1>2. \A b, o : Fields!Payload(b, o) = Payload(b, o)
  BY DEF Fields!Payload, Payload
<1>3. \A b, o : Fields!Number(b, o) = Number(b, o)
  BY <1>1, <1>2 DEF Fields!Number, Number
<1>4. \A k : Fields!Canonical(k) = Canonical(k)
  BY DEF Fields!Canonical, Canonical, Fields!DataLength, DataLength
<1>5. \A p, b, o : Fields!ParseOutcome(p, b, o) = ParseOutcome(p, b, o)
  BY <1>1, <1>2, <1>4
  DEF Fields!ParseOutcome, ParseOutcome, Fields!DataLength, DataLength
<1>6. \A p, b, o : Fields!SerializedLength(p, b, o) = SerializedLength(p, b, o)
  BY <1>1, <1>3, <1>4
  DEF Fields!SerializedLength, SerializedLength, Fields!DataLength, DataLength
<1>7. \A k : Fields!Shortest(k) = Shortest(k) /\ Fields!Padded(k) = Padded(k)
  BY DEF Fields!Shortest, Shortest, Fields!Padded, Padded
<1> QED BY <1>1, <1>3, <1>4, <1>5, <1>6, <1>7

(* A number is read as it was written, and which way it was written; C and *)
(* Solidity do not read every one, and Rust one that is padded for shorter. *)
Written(p, s, o, k, code) ==
  /\ s \in Seq(Bytes) /\ o \in Nat /\ k \in Nat
  /\ code \in {Shortest(k), Padded(k)}
  /\ Lies(code, s, o) /\ o + Len(code) <= Len(s)
  /\ p = "c" => Len(code) <= 1
  /\ p \in {"rust", "sol"} => code = Shortest(k)

LEMMA CodeRead ==
  ASSUME NEW p, NEW s, NEW o, NEW k, NEW code,
         p \in {"c", "go", "js", "rust", "sol"}, Written(p, s, o, k, code)
  PROVE  /\ ParseOutcome(p, s, o) = "ok" /\ Number(s, o) = k
         /\ SerializedLength(p, s, o) = Len(code) /\ Len(code) \in {1, 3}
         /\ s[o + 1] = 0 => Len(code) = 1 /\ k = 0
<1>0. /\ s \in Seq(Bytes) /\ o \in Nat /\ k \in Nat
      /\ Lies(code, s, o) /\ o + Len(code) <= Len(s)
      /\ code = Shortest(k) \/ code = Padded(k)
      /\ p = "c" => Len(code) <= 1
      /\ p \in {"rust", "sol"} => code = Shortest(k)
  BY DEF Written
<1>1. Len(s) \in Nat /\ Base \in Nat \ {0} /\ Wide \in Nat \ {0}
  BY <1>0, CompactAssumption
<1>2. CASE k < Wide /\ code = Shortest(k)
  <2>1. Len(code) = 1 /\ s[o + 1] = k
    <3>1. Len(code) = 1 /\ 1 \in 1..Len(code) /\ code[1] = k
      BY <1>2 DEF Shortest
    <3> QED BY <1>0, <3>1 DEF Lies
  <2>2. ~(Len(s) - o <= 0)
    BY <1>0, <1>1, <2>1
  <2>3. ~IsWide(s, o)
    BY <1>0, <1>1, <1>2, <2>1 DEF IsWide
  <2>4. Canonical(k) = 1
    BY <1>2 DEF Canonical
  <2> QED BY <1>2, <2>1, <2>2, <2>3, <2>4
      DEF ParseOutcome, Number, SerializedLength
<1>3. CASE /\ code = Padded(k) /\ p # "c"
           /\ p \in {"rust", "sol"} => ~(k < Wide)
  <2>1. /\ Len(code) = 3 /\ s[o + 1] = Wide
        /\ s[o + 2] = k % Base /\ s[o + 3] = k \div Base
    <3>1. /\ Len(code) = 3 /\ code[1] = Wide
          /\ code[2] = k % Base /\ code[3] = k \div Base
      BY <1>3 DEF Padded
    <3>2. 1 \in 1..Len(code) /\ 2 \in 1..Len(code) /\ 3 \in 1..Len(code)
      BY <3>1
    <3> QED BY <1>0, <3>1, <3>2 DEF Lies
  <2>2. (k % Base) + Base * (k \div Base) = k
    <3> DEFINE q == k \div Base  r == k % Base
    <3>1. k = q * Base + r /\ q \in Nat /\ r \in Nat
      BY ONLY <1>0, <1>1
    <3> HIDE DEF q, r
    <3>2. q * Base = Base * q /\ Base * q \in Nat
      BY ONLY <1>1, <3>1
    <3>3. r + Base * q = k
      BY <3>1, <3>2
    <3> QED BY <3>3 DEF q, r
  <2>3. IsWide(s, o) /\ Payload(s, o) = k
    BY <1>0, <1>1, <2>1, <2>2 DEF IsWide, Payload
  <2>4. ~(Len(s) - o <= 0) /\ ~(Len(s) - o <= DataLength)
    BY <1>0, <1>1, <2>1 DEF DataLength
  <2>5. ~(k < Wide) => Canonical(k) = 3
    BY DEF Canonical, DataLength
  <2>6. Number(s, o) = k
    BY <2>3 DEF Number
  <2>7. ParseOutcome(p, s, o) = "ok"
    BY <1>3, <2>3, <2>4, <2>5 DEF ParseOutcome, DataLength
  <2>8. SerializedLength(p, s, o) = 3
    BY <1>3, <2>3, <2>5, <2>6 DEF SerializedLength, DataLength
  <2>9. s[o + 1] # 0
    BY <1>0, <1>1, <2>1
  <2> QED BY <2>1, <2>6, <2>7, <2>8, <2>9
<1>4. \/ k < Wide /\ code = Shortest(k)
      \/ /\ code = Padded(k) /\ p # "c"
         /\ p \in {"rust", "sol"} => ~(k < Wide)
  <2>2. ~(k < Wide) => Shortest(k) = Padded(k)
    BY DEF Shortest, Padded
  <2>3. Len(Padded(k)) = 3
    BY DEF Padded
  <2>1. k < Wide => Shortest(k) # Padded(k)
    <3>1. k < Wide => Len(Shortest(k)) = 1
      BY DEF Shortest
    <3> QED BY <2>3, <3>1
  <2>4. code = Padded(k) => p # "c"
    <3> SUFFICES ASSUME code = Padded(k), p = "c" PROVE FALSE
      OBVIOUS
    <3>1. Len(code) <= 1 /\ Len(code) = 3
      BY <1>0, <2>3
    <3> QED BY <3>1
  <2>5. code = Padded(k) /\ p \in {"rust", "sol"} => ~(k < Wide)
    BY <1>0, <2>1, <2>3
  <2>6. code = Padded(k) \/ (code = Shortest(k) /\ k < Wide)
    <3>0. code = Shortest(k) \/ code = Padded(k)
      BY <1>0
    <3>1. CASE k < Wide
      BY <3>0, <3>1
    <3>2. CASE ~(k < Wide)
      <4>1. Shortest(k) = Padded(k)
        BY <2>2, <3>2
      <4> QED BY ONLY <3>0, <4>1
    <3> QED BY <3>1, <3>2
  <2> QED BY <2>4, <2>5, <2>6
<1> QED BY <1>2, <1>3, <1>4

(* An input as the program reads it, by each port but where InputFieldsExact *)
(* excepts it.                                                             *)
LEMMA InputGiven ==
  ASSUME FieldsAssumption, parts \in Elements, Fields!IsInput
  PROVE  /\ InputParts(parts) /\ Fields!Coded(parts)
         /\ Len(parts.txid) = TxIdSize /\ Len(parts.index) = NumberSize
         /\ Len(parts.sequence) = NumberSize
         /\ TxIdSize \in Nat \ {0} /\ NumberSize \in Nat \ {0}
<1>1. parts \notin Fields!Outputs
  BY DEF Fields!IsInput, Fields!Outputs
<1>2. /\ parts \in Fields!Inputs /\ Fields!Coded(parts)
      /\ Len(parts.txid) = TxIdSize /\ Len(parts.index) = NumberSize
      /\ Len(parts.sequence) = NumberSize
  BY <1>1 DEF FieldsAssumption, Fields!ElementsAssumption
<1>3. InputParts(parts)
  BY <1>2 DEF Fields!Inputs, InputParts, Bytes
<1> QED BY <1>2, <1>3 DEF FieldsAssumption, Fields!SizeAssumption

(* What InputFieldsExact does not promise. *)
Excepted ==
  \/ port = "c" /\ Fields!LongCode
  \/ port \in {"rust", "sol"} /\ Fields!NotShortest

LEMMA InputRead ==
  ASSUME FieldsAssumption, port \in Impls, parts \in Elements,
         Fields!IsInput, ~Excepted
  PROVE  /\ Fields!Parsed = "ok"
         /\ Fields!ScriptEnd
              = Fields!ScriptAt + Len(parts.code) + Len(parts.script)
         /\ ~Fields!IsLegacyInput =>
              Len(parts.code) = 1 /\ Len(parts.script) = 0
<1> DEFINE o == Fields!ScriptAt  s == Fields!input  code == parts.code
           k == Len(parts.script)  c == Len(code)  e == Len(parts.sequence)
           d == o + c
<1>1. /\ InputParts(parts) /\ Fields!Coded(parts)
      /\ Len(parts.txid) = TxIdSize /\ Len(parts.index) = NumberSize
      /\ TxIdSize \in Nat /\ NumberSize \in Nat
  BY InputGiven
<1>2. o \in Nat /\ k \in Nat /\ c \in Nat /\ e \in Nat
      /\ o = TxIdSize + NumberSize
  BY <1>1 DEF Fields!ScriptAt, InputParts
<1>3. /\ s \in Seq(Bytes) /\ Len(s) = TxIdSize + NumberSize + c + k + e
      /\ Lies(code, s, TxIdSize + NumberSize)
  BY <1>1, InputLaid
<1>4. code \in {Shortest(k), Padded(k)}
  BY <1>1, SameInFields DEF Fields!Coded
<1>5. /\ Fields!Parsed = ParseOutcome(port, s, o)
      /\ Fields!ScriptEnd = o + SerializedLength(port, s, o) + Number(s, o)
      /\ Fields!IsLegacyInput <=> s[o + 1] # 0
  BY SameInFields DEF Fields!Parsed, Fields!ScriptEnd, Fields!IsLegacyInput
<1>6. /\ port = "c" => c <= 1
      /\ port \in {"rust", "sol"} => code = Shortest(k)
      /\ port \in {"c", "go", "js", "rust", "sol"}
  <2>1. Len(parts.code) > 1 <=> Fields!LongCode
    BY DEF Fields!LongCode
  <2>2. parts.code # Shortest(k) <=> Fields!NotShortest
    BY SameInFields DEF Fields!NotShortest
  <2>3. port \in {"c", "go", "js", "rust", "sol"}
    BY DEF FieldsAssumption, Fields!ImplAssumption
  <2> HIDE DEF k
  <2>4. ~(c > 1) => c <= 1
    BY <1>2
  <2> QED BY <2>1, <2>2, <2>3, <2>4 DEF Excepted
<1>7. c = Len(code)
  OBVIOUS
<1> HIDE DEF o, s, code, k, c, e
<1>8. Lies(code, s, o) /\ o + c <= Len(s)
  BY <1>2, <1>3
<1>11. /\ port = "c" => Len(code) <= 1
       /\ o + Len(code) <= Len(s)
  BY <1>6, <1>7, <1>8
<1>9. /\ ParseOutcome(port, s, o) = "ok" /\ Number(s, o) = k
      /\ SerializedLength(port, s, o) = c
      /\ s[o + 1] = 0 => Len(code) = 1 /\ k = 0
  <2>1. Written(port, s, o, k, code)
    BY <1>2, <1>3, <1>4, <1>6, <1>8, <1>11 DEF Written
  <2>2. /\ ParseOutcome(port, s, o) = "ok" /\ Number(s, o) = k
        /\ SerializedLength(port, s, o) = Len(code)
        /\ s[o + 1] = 0 => Len(code) = 1 /\ k = 0
    BY <1>6, <2>1, CodeRead
  <2> QED BY <1>7, <2>2
<1>10. Fields!ScriptEnd = o + c + k
  BY <1>5, <1>9
<1> QED BY <1>5, <1>9, <1>10 DEF o, s, code, k, c

(* The three functions on an input.                                        *)
LEMMA InputFields ==
  ASSUME FieldsAssumption, port \in Impls, parts \in Elements,
         Fields!IsInput
  PROVE  /\ Fields!OutpointIndex = Fields!Data(<<Fields!LE(parts.index)>>)
         /\ \/ Excepted
            \/ /\ Fields!ScriptSig
                    = Fields!Data(parts.code \o parts.script)
               /\ \/ Fields!Sequence
                        = Fields!Data(<<Fields!LE(parts.sequence)>>)
                  \/ /\ port = "go" /\ parts.script = <<>>
                     /\ Fields!Sequence
                          = Fields!Data(<<Fields!BE(parts.sequence)>>)
<1> DEFINE o == Fields!ScriptAt  s == Fields!input  k == Len(parts.script)
           c == Len(parts.code)  e == Len(parts.sequence)
           both == parts.code \o parts.script  sequence == parts.sequence
           point == parts.index
<1>1. /\ InputParts(parts) /\ Fields!Coded(parts)
      /\ Len(parts.txid) = TxIdSize /\ Len(parts.index) = NumberSize
      /\ e = NumberSize
      /\ TxIdSize \in Nat /\ NumberSize \in Nat
  BY InputGiven
<1>2. o \in Nat /\ k \in Nat /\ c \in Nat /\ o = TxIdSize + NumberSize
      /\ sequence \in Seq(Bytes) /\ point \in Seq(Bytes)
      /\ Len(sequence) = NumberSize /\ Len(point) = NumberSize
  BY <1>1 DEF Fields!ScriptAt, InputParts
<1>3. /\ s \in Seq(Bytes) /\ Len(s) = TxIdSize + NumberSize + c + k + NumberSize
      /\ Lies(point, s, TxIdSize)
      /\ Lies(both, s, TxIdSize + NumberSize)
      /\ both \in Seq(Bytes) /\ Len(both) = c + k
      /\ Lies(sequence, s, TxIdSize + NumberSize + c + k)
  BY <1>1, InputLaid
<1>4. \A b, x, y : Fields!Slice(b, x, y) = Part(b, x, x + y)
  BY DEF Fields!Slice, Part
<1> HIDE DEF o, s, k, c, e, both, sequence, point
<1>5. Fields!Slice(s, TxIdSize, NumberSize) = point
  <2> DEFINE x == TxIdSize + NumberSize
  <2>1. x \in Nat /\ x - TxIdSize = NumberSize /\ x <= Len(s)
    BY <1>1, <1>2, <1>3
  <2> HIDE DEF x
  <2>2. Part(s, TxIdSize, x) = point
    <3>1. /\ s \in Seq(Bytes) /\ point \in Seq(Bytes) /\ TxIdSize \in Nat
          /\ x \in Nat /\ x - TxIdSize = Len(point) /\ x <= Len(s)
          /\ Lies(point, s, TxIdSize)
      BY <1>1, <1>2, <1>3, <2>1
    <3> QED BY ONLY <3>1, PartLies
  <2> QED BY <1>4, <2>2 DEF x
<1>6. Fields!Slice(s, o, c + k) = both
  <2> DEFINE x == o + (c + k)
  <2>1. x \in Nat /\ x - o = c + k /\ x <= Len(s)
    BY <1>1, <1>2, <1>3
  <2>2. Lies(both, s, o)
    BY <1>2, <1>3
  <2> HIDE DEF x
  <2>3. Part(s, o, x) = both
    <3>1. /\ s \in Seq(Bytes) /\ both \in Seq(Bytes) /\ o \in Nat
          /\ x \in Nat /\ x - o = Len(both) /\ x <= Len(s) /\ Lies(both, s, o)
      BY <1>1, <1>2, <1>3, <2>1, <2>2
    <3> QED BY ONLY <3>1, PartLies
  <2> QED BY <1>4, <2>3 DEF x
<1>7. Fields!Slice(s, o + c + k, NumberSize) = sequence
  <2> DEFINE y == o + c + k  x == y + NumberSize
  <2>1. x \in Nat /\ y \in Nat /\ x - y = NumberSize /\ x <= Len(s)
        /\ y = TxIdSize + NumberSize + c + k
    BY <1>1, <1>2, <1>3
  <2> HIDE DEF x, y
  <2>2. Lies(sequence, s, y)
    BY <1>3, <2>1
  <2>3. Part(s, y, x) = sequence
    <3>1. /\ s \in Seq(Bytes) /\ sequence \in Seq(Bytes) /\ y \in Nat
          /\ x \in Nat /\ x - y = Len(sequence) /\ x <= Len(s)
          /\ Lies(sequence, s, y)
      BY <1>1, <1>2, <1>3, <2>1, <2>2
    <3> QED BY ONLY <3>1, PartLies
  <2> QED BY <1>4, <2>3 DEF x, y
<1>8. Fields!OutpointIndex = Fields!Data(<<Fields!LE(point)>>)
  BY <1>5 DEF Fields!OutpointIndex, s
<1>9. ASSUME ~Excepted
      PROVE  /\ Fields!ScriptSig = Fields!Data(both)
             /\ \/ Fields!Sequence = Fields!Data(<<Fields!LE(sequence)>>)
                \/ /\ port = "go" /\ k = 0
                   /\ Fields!Sequence = Fields!Data(<<Fields!BE(sequence)>>)
  <2>1. /\ Fields!Parsed = "ok" /\ Fields!ScriptEnd = o + c + k
        /\ ~Fields!IsLegacyInput => c = 1 /\ k = 0
    BY <1>9, InputRead DEF o, c, k
  <2>2. (o + c + k) - o = c + k
    BY <1>2
  <2>3. Fields!ScriptSig = Fields!Data(both)
    BY <1>6, <2>1, <2>2 DEF Fields!ScriptSig, s, o
  <2>4. CASE port \in {"c", "go", "js"} /\ ~Fields!IsLegacyInput
    <3>1. o + 1 = o + c + k /\ k = 0
      BY <1>2, <2>1, <2>4
    <3>2. Fields!Slice(s, o + 1, NumberSize) = sequence
      BY <1>7, <3>1
    <3>3. Fields!Sequence = Fields!Data(<<IF port = "go" THEN Fields!BE(sequence)
                                         ELSE Fields!LE(sequence)>>)
      BY <2>4, <3>2 DEF Fields!Sequence, s, o
    <3> QED BY <2>3, <3>1, <3>3
  <2>5. CASE ~(port \in {"c", "go", "js"} /\ ~Fields!IsLegacyInput)
    <3>1. Fields!Sequence
            = Fields!Data(<<Fields!LE(Fields!Slice(s, o + c + k, NumberSize))>>)
      BY <2>1, <2>5 DEF Fields!Sequence, s
    <3> QED BY <1>7, <2>3, <3>1
  <2> QED BY <2>4, <2>5
<1>10. k = 0 => parts.script = <<>>
  BY <1>1 DEF InputParts, k
<1> QED BY <1>8, <1>9, <1>10 DEF both, sequence, point

(* The instance says the same of its variables here too. *)
LEMMA SameParts ==
  /\ \A v : Fields!Data(v) = Data(v)
  /\ \A b, o, l : Fields!Slice(b, o, l) = Slice(b, o, l)
  /\ Fields!NotShortest <=> NotShortest
  /\ Fields!spk = spk
BY SameInFields DEF Fields!Data, Data, Fields!Slice, Slice,
     Fields!NotShortest, NotShortest, Fields!spk, spk

LEMMA SameInputFields ==
  Fields!InputFieldsExact <=> InputFieldsExact
<1>1. \A b : Fields!LE(b) = LE(b)
  BY DEF Fields!LE, LE
<1>2. \A b : Fields!BE(b) = BE(b)
  BY <1>1 DEF Fields!BE, BE
<1>3. Fields!LongCode <=> LongCode
  BY DEF Fields!LongCode, LongCode
<1> QED BY <1>1, <1>2, <1>3, SameParts, Zenon
         DEF Fields!InputFieldsExact, InputFieldsExact

(* The fields of an input are those it was made of, in whatever port reads *)
(* it: extract_tx_index, extract_script_sig, extract_sequence.             *)
THEOREM InputsAreExact ==
  ASSUME FieldsAssumption
  PROVE  Fields!Spec => []InputFieldsExact
<1>1. Fields!Init => FInv
  BY DEF Fields!Init, FInv
<1>2. FInv /\ [Fields!Next]_(Fields!vars) => FInv'
  BY FieldsNext
<1>3. FInv => InputFieldsExact
  <2> SUFFICES ASSUME FInv PROVE Fields!InputFieldsExact
    BY SameInputFields
  <2>1. port \in Impls /\ parts \in Elements
    BY DEF FInv
  <2>2. /\ called = "tx_index" =>
             Fields!IsInput /\ returned = Fields!OutpointIndex
        /\ called = "script_sig" =>
             Fields!IsInput /\ returned = Fields!ScriptSig
        /\ called = "sequence" =>
             Fields!IsInput /\ returned = Fields!Sequence
    BY DEF FInv
  <2>3. CASE Fields!IsInput
    BY <2>1, <2>2, <2>3, InputFields DEF Fields!InputFieldsExact, Excepted
  <2>4. CASE ~Fields!IsInput
    BY <2>2, <2>4 DEF Fields!InputFieldsExact
  <2> QED BY <2>3, <2>4
<1> QED BY <1>1, <1>2, <1>3, PTL DEF Fields!Spec

(***************************************************************************)
(* Outputs.                                                                *)
(***************************************************************************)
LEMMA FieldSizes ==
  ASSUME FieldsAssumption
  PROVE  /\ HashSize \in Nat \ {0} /\ LongHashSize \in Nat \ {0}
         /\ HashSize + 3 < LongHashSize /\ LongHashSize + 2 < Wide
         /\ MaxPush \in Nat /\ Base \in Nat /\ Wide \in 1..Base - 1
         /\ HashSize \in Bytes /\ LongHashSize \in Bytes /\ 0 \in Bytes
         /\ OP_DUP # 0 /\ OP_HASH160 # 0
<1>1. /\ HashSize \in Nat \ {0} /\ LongHashSize \in Nat \ {0}
      /\ HashSize + 3 < LongHashSize /\ LongHashSize + 2 < Wide
      /\ MaxPush \in Nat /\ Base \in Nat /\ Wide \in 1..Base - 1
  BY CompactAssumption DEF FieldsAssumption, Fields!SizeAssumption
<1>2. OP_DUP # 0 /\ OP_HASH160 # 0
  BY <1>1 DEF FieldsAssumption, Fields!OpcodeAssumption
<1>3. HashSize \in Bytes /\ LongHashSize \in Bytes /\ 0 \in Bytes
  BY <1>1 DEF Bytes
<1> QED BY <1>1, <1>2, <1>3

(* What the bytes before a script of k bytes are: one that says its length *)
(* or may say more or nothing, or its length written wide.                 *)
OneByte(code, k) ==
  Len(code) = 1 /\ code[1] \in 0..Wide - 1 /\ (code[1] = 0 \/ code[1] >= k)
WideCode(code, k) ==
  /\ Len(code) = 3 /\ code[1] = Wide
  /\ code[2] = k % Base /\ code[3] = k \div Base

LEMMA OutputGiven ==
  ASSUME FieldsAssumption, parts \in Elements, ~Fields!IsInput
  PROVE  /\ parts.code \in Seq(Bytes) /\ parts.script \in Seq(Bytes)
         /\ Len(parts.script) \in Nat
         /\ \/ OneByte(parts.code, Len(parts.script))
            \/ WideCode(parts.code, Len(parts.script))
<1> DEFINE k == Len(parts.script)
<1>1. parts \notin Fields!Inputs
  BY DEF Fields!IsInput, Fields!Inputs
<1>2. parts \in Fields!Outputs /\ (Fields!Coded(parts) \/ Fields!Belied(parts))
  BY <1>1 DEF FieldsAssumption, Fields!ElementsAssumption
<1>3. parts.code \in Seq(Bytes) /\ parts.script \in Seq(Bytes)
  BY <1>2 DEF Fields!Outputs, Bytes
<1>4. k \in Nat
  BY <1>3
<1>5. CASE Fields!Belied(parts)
  <2>1. PICK j \in 0..Wide - 1 : parts.code = <<j>> /\ (j = 0 \/ j >= k)
    BY <1>5 DEF Fields!Belied
  <2>2. Len(parts.code) = 1 /\ parts.code[1] = j
    BY <2>1
  <2>3. OneByte(parts.code, k)
    BY <2>1, <2>2 DEF OneByte
  <2> QED BY <1>3, <1>4, <2>3
<1>6. CASE Fields!Coded(parts)
  <2>1. parts.code = Shortest(k) \/ parts.code = Padded(k)
    BY <1>6, SameInFields DEF Fields!Coded
  <2>2. Wide \in Nat
    BY CompactAssumption
  <2>3. CASE k < Wide /\ parts.code = Shortest(k)
    <3>1. parts.code = <<k>>
      BY <2>3 DEF Shortest
    <3>2. Len(parts.code) = 1 /\ parts.code[1] = k
      BY <3>1
    <3> HIDE DEF k
    <3>3. k \in 0..Wide - 1 /\ k >= k
      BY <1>4, <2>2, <2>3
    <3>4. OneByte(parts.code, k)
      BY <3>2, <3>3 DEF OneByte
    <3> QED BY <1>3, <1>4, <3>4 DEF k
  <2>4. CASE parts.code = <<Wide, k % Base, k \div Base>>
    <3>1. /\ Len(parts.code) = 3 /\ parts.code[1] = Wide
          /\ parts.code[2] = k % Base /\ parts.code[3] = k \div Base
      BY <2>4
    <3> QED BY <1>3, <1>4, <3>1 DEF WideCode
  <2> QED BY <2>1, <2>3, <2>4 DEF Shortest, Padded
<1> QED BY <1>2, <1>5, <1>6

(***************************************************************************)
(* Putting a string together and taking it apart.                          *)
(***************************************************************************)
LEMMA Composed ==
  ASSUME NEW s \in Seq(Bytes), NEW a \in Seq(Bytes), NEW b \in Seq(Bytes),
         Len(s) = Len(a) + Len(b), Lies(a, s, 0), Lies(b, s, Len(a))
  PROVE  s = a \o b
<1> DEFINE t == a \o b  x == Len(a)  y == Len(b)
<1>1. /\ t \in Seq(Bytes) /\ Len(t) = x + y
      /\ \A k \in 1..x : t[k] = a[k]
      /\ \A k \in 1..y : t[x + k] = b[k]
  BY Joined
<1>2. x \in Nat /\ y \in Nat
  OBVIOUS
<1>3. /\ Len(s) = x + y
      /\ \A k \in 1..x : s[0 + k] = a[k]
      /\ \A k \in 1..y : s[x + k] = b[k]
  BY DEF Lies
<1> HIDE DEF t, x, y
<1>4. ASSUME NEW k \in 1..Len(s) PROVE s[k] = t[k]
  <2>1. CASE k <= x
    <3>1. k \in 1..x /\ 0 + k = k
      BY <1>2, <1>3, <2>1
    <3> QED BY <1>1, <1>3, <3>1
  <2>2. CASE ~(k <= x)
    <3> DEFINE j == k - x
    <3>1. j \in 1..y /\ x + j = k
      BY <1>2, <1>3, <2>2
    <3> HIDE DEF j
    <3>2. s[x + j] = b[j] /\ t[x + j] = b[j]
      BY <1>1, <1>3, <3>1
    <3> QED BY <3>1, <3>2
  <2> QED BY <2>1, <2>2
<1>5. Len(s) = Len(t)
  BY <1>1, <1>3
<1>6. s = t
  BY <1>1, <1>4, <1>5, SeqEqual
<1> QED BY <1>6 DEF t

(* Three strings in a row. *)
Row(a, b, c) == (a \o b) \o c

LEMMA Composed3 ==
  ASSUME NEW s \in Seq(Bytes), NEW a \in Seq(Bytes), NEW b \in Seq(Bytes),
         NEW c \in Seq(Bytes), Len(s) = Len(a) + Len(b) + Len(c),
         Lies(a, s, 0), Lies(b, s, Len(a)), Lies(c, s, Len(a) + Len(b))
  PROVE  s = Row(a, b, c)
<1> DEFINE t == a \o b  x == Len(a)  y == Len(b)
<1>1. /\ t \in Seq(Bytes) /\ Len(t) = x + y
      /\ \A k \in 1..x : t[k] = a[k]
      /\ \A k \in 1..y : t[x + k] = b[k]
  BY Joined
<1>2. x \in Nat /\ y \in Nat
  OBVIOUS
<1>3. /\ \A k \in 1..x : s[0 + k] = a[k]
      /\ \A k \in 1..y : s[x + k] = b[k]
      /\ Len(s) = x + y + Len(c) /\ Lies(c, s, x + y)
  BY DEF Lies
<1> HIDE DEF t, x, y
<1>4. ASSUME NEW k \in 1..Len(t) PROVE s[0 + k] = t[k]
  <2>1. CASE k <= x
    <3>1. k \in 1..x
      BY <1>1, <1>2, <2>1
    <3> QED BY <1>1, <1>3, <3>1
  <2>2. CASE ~(k <= x)
    <3> DEFINE j == k - x
    <3>1. j \in 1..y /\ x + j = k /\ 0 + k = k
      BY <1>1, <1>2, <2>2
    <3> HIDE DEF j
    <3>2. s[x + j] = b[j] /\ t[x + j] = b[j]
      BY <1>1, <1>3, <3>1
    <3> QED BY <3>1, <3>2
  <2> QED BY <2>1, <2>2
<1>5. Lies(t, s, 0)
  BY <1>4 DEF Lies
<1>6. Len(s) = Len(t) + Len(c) /\ Lies(c, s, Len(t))
  BY <1>1, <1>3
<1>7. s = t \o c
  BY ONLY <1>1, <1>5, <1>6, s \in Seq(Bytes), c \in Seq(Bytes), Composed
<1> QED BY <1>7 DEF t, Row

LEMMA Decomposed3 ==
  ASSUME NEW a \in Seq(Bytes), NEW b \in Seq(Bytes), NEW c \in Seq(Bytes),
         NEW s, s = Row(a, b, c)
  PROVE  /\ s \in Seq(Bytes) /\ Len(s) = Len(a) + Len(b) + Len(c)
         /\ Lies(a, s, 0) /\ Lies(b, s, Len(a)) /\ Lies(c, s, Len(a) + Len(b))
<1>row. s = (a \o b) \o c
  BY DEF Row
<1> DEFINE d == a \o b  x == Len(a)  y == Len(b)
<1>1. x \in Nat /\ y \in Nat
  OBVIOUS
<1>2. d \in Seq(Bytes) /\ Len(d) = x + y /\ \A k \in 1..x : d[k] = a[k]
  BY Joined
<1>3. /\ \A k \in 1..Len(d) : s[k] = d[k]
      /\ \A k \in 1..Len(c) : s[Len(d) + k] = c[k]
  BY <1>row, <1>2, Joined
<1>4. s \in Seq(Bytes) /\ Len(s) = x + y + Len(c) /\ Lies(b, s, x)
  <2>1. /\ a \in Seq(Bytes) /\ b \in Seq(Bytes) /\ c \in Seq(Bytes)
        /\ s = (a \o b) \o c
    BY <1>row
  <2>2. Lies(b, s, Len(a))
    BY ONLY <2>1, Between
  <2>3. s \in Seq(Bytes) /\ Len(s) = Len(d) + Len(c)
    BY <1>2, <2>1, Joined
  <2> QED BY <1>1, <1>2, <2>2, <2>3
<1> HIDE DEF d, x, y
<1>5. ASSUME NEW k \in 1..x PROVE s[0 + k] = a[k]
  <2>1. k \in 1..Len(d) /\ 0 + k = k
    BY <1>1, <1>2
  <2> QED BY <1>2, <1>3, <2>1
<1>6. \A k \in 1..Len(c) : s[(x + y) + k] = c[k]
  BY <1>2, <1>3
<1>7. Len(a) = x /\ \A k \in 1..Len(a) : s[0 + k] = a[k]
  BY <1>5 DEF x
<1> QED BY <1>4, <1>6, <1>7 DEF x, y, Lies

(* The standard scripts byte by byte, and where they hold the hash.        *)
ToWitness(s, len) == Len(s) = len + 2 /\ s[1] = 0 /\ s[2] = len
ToKey(s) ==
  /\ Len(s) = HashSize + 5
  /\ s[1] = OP_DUP /\ s[2] = OP_HASH160 /\ s[3] = HashSize
  /\ s[HashSize + 4] = OP_EQUALVERIFY /\ s[HashSize + 5] = OP_CHECKSIG
ToScript(s) ==
  /\ Len(s) = HashSize + 3 /\ s[1] = OP_HASH160 /\ s[2] = HashSize
  /\ s[HashSize + 3] = OP_EQUAL

LEMMA Opcodes ==
  ASSUME FieldsAssumption
  PROVE  {OP_RETURN, OP_DUP, OP_HASH160, OP_EQUALVERIFY, OP_CHECKSIG, OP_EQUAL}
           \subseteq Bytes
<1>1. Base \in Nat
  BY CompactAssumption
<1> QED
  BY <1>1, SMTT(30) DEF FieldsAssumption, Fields!OpcodeAssumption, Bytes

LEMMA LiesOne ==
  ASSUME NEW t, Len(t) = 1, NEW s, NEW o \in Nat
  PROVE  Lies(t, s, o) <=> s[o + 1] = t[1]
<1>1. \A k \in 1..1 : k = 1
  OBVIOUS
<1>2. 1 \in 1..1
  OBVIOUS
<1> QED BY <1>1, <1>2 DEF Lies

LEMMA LiesTwo ==
  ASSUME NEW t, Len(t) = 2, NEW s, NEW o \in Nat
  PROVE  Lies(t, s, o) <=> s[o + 1] = t[1] /\ s[o + 2] = t[2]
<1>1. \A k \in 1..2 : k = 1 \/ k = 2
  OBVIOUS
<1>2. 1 \in 1..2 /\ 2 \in 1..2
  OBVIOUS
<1> QED BY <1>1, <1>2 DEF Lies

LEMMA LiesThree ==
  ASSUME NEW t, Len(t) = 3, NEW s, NEW o \in Nat
  PROVE  Lies(t, s, o) <=>
           s[o + 1] = t[1] /\ s[o + 2] = t[2] /\ s[o + 3] = t[3]
<1>1. \A k \in 1..3 : k = 1 \/ k = 2 \/ k = 3
  OBVIOUS
<1>2. 1 \in 1..3 /\ 2 \in 1..3 /\ 3 \in 1..3
  OBVIOUS
<1> QED BY <1>1, <1>2 DEF Lies

(* A part of a script lies where it was taken from. *)
LEMMA Taken ==
  ASSUME NEW s \in Seq(Bytes), NEW f \in Nat, NEW l \in Nat, f + l <= Len(s)
  PROVE  LET h == Part(s, f, f + l)
         IN  h \in Seq(Bytes) /\ Len(h) = l /\ Lies(h, s, f)
<1> DEFINE e == f + l  h == Part(s, f, e)
<1>1. e \in Nat /\ f <= e /\ e - f = l /\ e <= Len(s)
  OBVIOUS
<1> HIDE DEF e
<1>2. h \in Seq(Bytes) /\ Len(h) = e - f /\ \A k \in 1..e - f : h[k] = s[f + k]
  BY <1>1, PartBytes DEF Part
<1> HIDE DEF h
<1>3. h \in Seq(Bytes) /\ Len(h) = l /\ Lies(h, s, f)
  BY <1>1, <1>2 DEF Lies
<1> QED BY <1>3 DEF h, e

LEMMA WitnessIsHash ==
  ASSUME FieldsAssumption, NEW s \in Seq(Bytes),
         NEW len \in {HashSize, LongHashSize}, ToWitness(s, len)
  PROVE  LET h == Part(s, 2, 2 + len)
         IN  s = <<0, len>> \o h /\ Len(h) = len
<1> DEFINE h == Part(s, 2, 2 + len)  a == <<0, len>>
<1>1. len \in Nat /\ len \in Bytes /\ 0 \in Bytes
  BY FieldSizes
<1>2. Len(s) = len + 2 /\ s[1] = 0 /\ s[2] = len
  BY DEF ToWitness
<1>3. h \in Seq(Bytes) /\ Len(h) = len /\ Lies(h, s, 2)
  BY <1>1, <1>2, Taken
<1>5. a \in Seq(Bytes) /\ Len(a) = 2 /\ a[1] = 0 /\ a[2] = len
  BY <1>1
<1> HIDE DEF a, h
<1>4. a \in Seq(Bytes) /\ Lies(a, s, 0)
  <2>1. Lies(a, s, 0) <=> s[0 + 1] = a[1] /\ s[0 + 2] = a[2]
    BY <1>5, LiesTwo
  <2> QED BY <1>2, <1>5, <2>1
<1>6. Len(s) = Len(a) + Len(h) /\ Lies(h, s, Len(a))
  BY <1>1, <1>2, <1>3, <1>5
<1>7. s = a \o h
  BY ONLY s \in Seq(Bytes), <1>3, <1>4, <1>6, Composed
<1> QED BY <1>3, <1>7 DEF a, h

LEMMA KeyIsHash ==
  ASSUME FieldsAssumption, NEW s \in Seq(Bytes), ToKey(s)
  PROVE  LET h == Part(s, 3, 3 + HashSize)
         IN  /\ s = <<OP_DUP, OP_HASH160, HashSize>> \o h
                      \o <<OP_EQUALVERIFY, OP_CHECKSIG>>
             /\ Len(h) = HashSize
<1> DEFINE h == Part(s, 3, 3 + HashSize)  a == <<OP_DUP, OP_HASH160, HashSize>>
           c == <<OP_EQUALVERIFY, OP_CHECKSIG>>
<1>1. /\ HashSize \in Nat /\ HashSize \in Bytes /\ OP_DUP \in Bytes
      /\ OP_HASH160 \in Bytes /\ OP_EQUALVERIFY \in Bytes /\ OP_CHECKSIG \in Bytes
  BY FieldSizes, Opcodes
<1>2. /\ Len(s) = HashSize + 5
      /\ s[1] = OP_DUP /\ s[2] = OP_HASH160 /\ s[3] = HashSize
      /\ s[HashSize + 4] = OP_EQUALVERIFY /\ s[HashSize + 5] = OP_CHECKSIG
  BY DEF ToKey
<1>3. h \in Seq(Bytes) /\ Len(h) = HashSize /\ Lies(h, s, 3)
  BY <1>1, <1>2, Taken
<1>5. /\ a \in Seq(Bytes) /\ Len(a) = 3
      /\ a[1] = OP_DUP /\ a[2] = OP_HASH160 /\ a[3] = HashSize
      /\ c \in Seq(Bytes) /\ Len(c) = 2
      /\ c[1] = OP_EQUALVERIFY /\ c[2] = OP_CHECKSIG
  BY <1>1
<1> HIDE DEF a, c, h
<1>4. a \in Seq(Bytes) /\ Lies(a, s, 0)
  <2>1. Lies(a, s, 0) <=>
          s[0 + 1] = a[1] /\ s[0 + 2] = a[2] /\ s[0 + 3] = a[3]
    BY <1>5, LiesThree
  <2> QED BY <1>2, <1>5, <2>1
<1>6. c \in Seq(Bytes) /\ Lies(c, s, 3 + HashSize)
  <2> DEFINE o == 3 + HashSize
  <2>1. o \in Nat /\ o + 1 = HashSize + 4 /\ o + 2 = HashSize + 5
    BY <1>1
  <2> HIDE DEF o
  <2>2. Lies(c, s, o) <=> s[o + 1] = c[1] /\ s[o + 2] = c[2]
    BY <1>5, <2>1, LiesTwo
  <2>3. Lies(c, s, o)
    BY <1>2, <1>5, <2>1, <2>2
  <2> QED BY <1>5, <2>3 DEF o
<1>7. /\ Len(s) = Len(a) + Len(h) + Len(c) /\ Lies(h, s, Len(a))
      /\ Lies(c, s, Len(a) + Len(h))
  BY <1>1, <1>2, <1>3, <1>5, <1>6
<1>8. s = Row(a, h, c)
  BY ONLY s \in Seq(Bytes), <1>3, <1>4, <1>6, <1>7, Composed3
<1> QED BY <1>3, <1>8 DEF a, c, h, Row

LEMMA ScriptIsHash ==
  ASSUME FieldsAssumption, NEW s \in Seq(Bytes), ToScript(s)
  PROVE  LET h == Part(s, 2, 2 + HashSize)
         IN  /\ s = <<OP_HASH160, HashSize>> \o h \o <<OP_EQUAL>>
             /\ Len(h) = HashSize
<1> DEFINE h == Part(s, 2, 2 + HashSize)  a == <<OP_HASH160, HashSize>>
           c == <<OP_EQUAL>>
<1>1. /\ HashSize \in Nat /\ HashSize \in Bytes /\ OP_HASH160 \in Bytes
      /\ OP_EQUAL \in Bytes
  BY FieldSizes, Opcodes
<1>2. /\ Len(s) = HashSize + 3 /\ s[1] = OP_HASH160 /\ s[2] = HashSize
      /\ s[HashSize + 3] = OP_EQUAL
  BY DEF ToScript
<1>3. h \in Seq(Bytes) /\ Len(h) = HashSize /\ Lies(h, s, 2)
  BY <1>1, <1>2, Taken
<1>5. /\ a \in Seq(Bytes) /\ Len(a) = 2
      /\ a[1] = OP_HASH160 /\ a[2] = HashSize
      /\ c \in Seq(Bytes) /\ Len(c) = 1 /\ c[1] = OP_EQUAL
  BY <1>1
<1> HIDE DEF a, c, h
<1>4. a \in Seq(Bytes) /\ Lies(a, s, 0)
  <2>1. Lies(a, s, 0) <=> s[0 + 1] = a[1] /\ s[0 + 2] = a[2]
    BY <1>5, LiesTwo
  <2> QED BY <1>2, <1>5, <2>1
<1>6. c \in Seq(Bytes) /\ Lies(c, s, 2 + HashSize)
  <2> DEFINE o == 2 + HashSize
  <2>1. o \in Nat /\ o + 1 = HashSize + 3
    BY <1>1
  <2> HIDE DEF o
  <2>2. Lies(c, s, o) <=> s[o + 1] = c[1]
    BY <1>5, <2>1, LiesOne
  <2>3. Lies(c, s, o)
    BY <1>2, <1>5, <2>1, <2>2
  <2> QED BY <1>5, <2>3 DEF o
<1>7. /\ Len(s) = Len(a) + Len(h) + Len(c) /\ Lies(h, s, Len(a))
      /\ Lies(c, s, Len(a) + Len(h))
  BY <1>1, <1>2, <1>3, <1>5, <1>6
<1>8. s = Row(a, h, c)
  BY ONLY s \in Seq(Bytes), <1>3, <1>4, <1>6, <1>7, Composed3
<1> QED BY <1>3, <1>8 DEF a, c, h, Row

(* A script that pays to a hash is of one of the three forms.              *)
LEMMA HashIsForm ==
  ASSUME FieldsAssumption, NEW h \in Seq(Bytes), NEW s \in Seq(Bytes), NEW k,
         k \in {"WPKH", "WSH", "PKH", "SH"}, Fields!IsHash(k, h, s)
  PROVE  \/ ToWitness(s, HashSize) \/ ToWitness(s, LongHashSize)
         \/ ToKey(s) \/ ToScript(s)
<1>1. /\ HashSize \in Nat /\ HashSize \in Bytes /\ OP_HASH160 \in Bytes
      /\ OP_EQUAL \in Bytes /\ OP_DUP \in Bytes /\ OP_EQUALVERIFY \in Bytes
      /\ OP_CHECKSIG \in Bytes /\ 0 \in Bytes /\ LongHashSize \in Bytes
      /\ LongHashSize \in Nat
  BY FieldSizes, Opcodes
<1>2. ASSUME NEW len \in {HashSize, LongHashSize}, s = <<0, len>> \o h,
             Len(h) = len
      PROVE  ToWitness(s, len)
  <2> DEFINE a == <<0, len>>
  <2>1. len \in Bytes /\ len \in Nat
    BY <1>1
  <2>2. a \in Seq(Bytes) /\ Len(a) = 2 /\ a[1] = 0 /\ a[2] = len
    BY <1>1, <2>1
  <2>4. s = a \o h
    BY <1>2
  <2> HIDE DEF a
  <2>5. /\ Len(s) = Len(a) + Len(h)
        /\ \A j \in 1..Len(a) : s[j] = a[j]
    BY <2>2, <2>4, Joined
  <2>6. 1 \in 1..Len(a) /\ 2 \in 1..Len(a)
    BY <2>2
  <2>7. s[1] = a[1] /\ s[2] = a[2]
    BY <2>5, <2>6
  <2> QED BY <1>2, <2>1, <2>2, <2>5, <2>7 DEF ToWitness
<1>3. ASSUME s = <<OP_DUP, OP_HASH160, HashSize>> \o h
                   \o <<OP_EQUALVERIFY, OP_CHECKSIG>>, Len(h) = HashSize
      PROVE  ToKey(s)
  <2> DEFINE a == <<OP_DUP, OP_HASH160, HashSize>>
             c == <<OP_EQUALVERIFY, OP_CHECKSIG>>  o == 3 + HashSize
  <2>1. o \in Nat
    BY <1>1
  <2>2. /\ a \in Seq(Bytes) /\ Len(a) = 3
        /\ a[1] = OP_DUP /\ a[2] = OP_HASH160 /\ a[3] = HashSize
        /\ c \in Seq(Bytes) /\ Len(c) = 2
        /\ c[1] = OP_EQUALVERIFY /\ c[2] = OP_CHECKSIG
    BY <1>1
  <2>3. s = Row(a, h, c)
    BY <1>3 DEF Row
  <2>4. o + 1 = HashSize + 4 /\ o + 2 = HashSize + 5 /\ o + 2 = 3 + HashSize + 2
    BY <1>1
  <2> HIDE DEF a, c
  <2>5. /\ Len(s) = Len(a) + Len(h) + Len(c)
        /\ Lies(a, s, 0) /\ Lies(c, s, Len(a) + Len(h))
    <3>1. /\ a \in Seq(Bytes) /\ h \in Seq(Bytes) /\ c \in Seq(Bytes)
          /\ s = Row(a, h, c)
      BY <2>2, <2>3
    <3> QED BY ONLY <3>1, Decomposed3
  <2>6. Len(s) = HashSize + 5 /\ Lies(c, s, o)
    BY <1>1, <1>3, <2>2, <2>5
  <2> HIDE DEF o
  <2>7. Lies(a, s, 0) <=>
          s[0 + 1] = a[1] /\ s[0 + 2] = a[2] /\ s[0 + 3] = a[3]
    BY <2>2, LiesThree
  <2>8. Lies(c, s, o) <=> s[o + 1] = c[1] /\ s[o + 2] = c[2]
    BY <2>1, <2>2, LiesTwo
  <2> QED BY <2>2, <2>4, <2>5, <2>6, <2>7, <2>8 DEF ToKey
<1>4. ASSUME s = <<OP_HASH160, HashSize>> \o h \o <<OP_EQUAL>>,
             Len(h) = HashSize
      PROVE  ToScript(s)
  <2> DEFINE a == <<OP_HASH160, HashSize>>  c == <<OP_EQUAL>>
             o == 2 + HashSize
  <2>1. o \in Nat
    BY <1>1
  <2>2. /\ a \in Seq(Bytes) /\ Len(a) = 2
        /\ a[1] = OP_HASH160 /\ a[2] = HashSize
        /\ c \in Seq(Bytes) /\ Len(c) = 1 /\ c[1] = OP_EQUAL
    BY <1>1
  <2>3. s = Row(a, h, c)
    BY <1>4 DEF Row
  <2>4. o + 1 = HashSize + 3
    BY <1>1
  <2> HIDE DEF a, c
  <2>5. /\ Len(s) = Len(a) + Len(h) + Len(c)
        /\ Lies(a, s, 0) /\ Lies(c, s, Len(a) + Len(h))
    <3>1. /\ a \in Seq(Bytes) /\ h \in Seq(Bytes) /\ c \in Seq(Bytes)
          /\ s = Row(a, h, c)
      BY <2>2, <2>3
    <3> QED BY ONLY <3>1, Decomposed3
  <2>6. Len(s) = HashSize + 3 /\ Lies(c, s, o)
    BY <1>1, <1>4, <2>2, <2>5
  <2> HIDE DEF o
  <2>7. Lies(a, s, 0) <=> s[0 + 1] = a[1] /\ s[0 + 2] = a[2]
    BY <2>2, LiesTwo
  <2>8. Lies(c, s, o) <=> s[o + 1] = c[1]
    BY <2>1, <2>2, LiesOne
  <2> QED BY <2>2, <2>4, <2>5, <2>6, <2>7, <2>8 DEF ToScript
<1> QED BY <1>2, <1>3, <1>4 DEF Fields!IsHash

(* Two strings of few bytes.                                               *)
LEMMA IsTwo ==
  ASSUME NEW t \in Seq(Bytes), Len(t) = 2, NEW a, NEW b
  PROVE  t = <<a, b>> <=> t[1] = a /\ t[2] = b
<1>1. ASSUME t[1] = a, t[2] = b PROVE t = <<a, b>>
  <2> DEFINE u == <<a, b>>
  <2>1. 1 \in 1..2 /\ 2 \in 1..2
    OBVIOUS
  <2>2. a \in Bytes /\ b \in Bytes
    <3>1. t[1] \in Bytes /\ t[2] \in Bytes
      BY <2>1
    <3> QED BY <1>1, <3>1
  <2>3. u \in Seq(Bytes) /\ Len(u) = 2 /\ u[1] = a /\ u[2] = b
    BY <2>2
  <2> HIDE DEF u
  <2>4. \A k \in 1..2 : k = 1 \/ k = 2
    OBVIOUS
  <2>5. \A k \in 1..Len(t) : t[k] = u[k]
    BY <1>1, <2>3, <2>4
  <2>6. t = u
    BY <2>3, <2>5, SeqEqual
  <2> QED BY <2>6 DEF u
<1> QED BY <1>1

LEMMA IsThree ==
  ASSUME NEW t \in Seq(Bytes), Len(t) = 3, NEW a, NEW b, NEW c
  PROVE  t = <<a, b, c>> <=> t[1] = a /\ t[2] = b /\ t[3] = c
<1>1. ASSUME t[1] = a, t[2] = b, t[3] = c PROVE t = <<a, b, c>>
  <2> DEFINE u == <<a, b, c>>
  <2>1. 1 \in 1..3 /\ 2 \in 1..3 /\ 3 \in 1..3
    OBVIOUS
  <2>2. a \in Bytes /\ b \in Bytes /\ c \in Bytes
    BY <1>1, <2>1
  <2>3. u \in Seq(Bytes) /\ Len(u) = 3 /\ u[1] = a /\ u[2] = b /\ u[3] = c
    BY <2>2
  <2> HIDE DEF u
  <2>4. \A k \in 1..3 : k = 1 \/ k = 2 \/ k = 3
    OBVIOUS
  <2>5. \A k \in 1..Len(t) : t[k] = u[k]
    BY <1>1, <2>3, <2>4
  <2>6. t = u
    BY <2>3, <2>5, SeqEqual
  <2> QED BY <2>6 DEF u
<1> QED BY <1>1

LEMMA IsFour ==
  ASSUME NEW t \in Seq(Bytes), Len(t) = 4, NEW a, NEW b, NEW c, NEW d
  PROVE  t = <<a, b, c, d>> <=> t[1] = a /\ t[2] = b /\ t[3] = c /\ t[4] = d
<1>1. ASSUME t[1] = a, t[2] = b, t[3] = c, t[4] = d PROVE t = <<a, b, c, d>>
  <2> DEFINE u == <<a, b, c, d>>
  <2>1. 1 \in 1..4 /\ 2 \in 1..4 /\ 3 \in 1..4 /\ 4 \in 1..4
    OBVIOUS
  <2>2. a \in Bytes /\ b \in Bytes /\ c \in Bytes /\ d \in Bytes
    BY <1>1, <2>1
  <2>3. /\ u \in Seq(Bytes) /\ Len(u) = 4
        /\ u[1] = a /\ u[2] = b /\ u[3] = c /\ u[4] = d
    BY <2>2
  <2> HIDE DEF u
  <2>4. \A k \in 1..4 : k = 1 \/ k = 2 \/ k = 3 \/ k = 4
    OBVIOUS
  <2>5. \A k \in 1..Len(t) : t[k] = u[k]
    BY <1>1, <2>3, <2>4
  <2>6. t = u
    BY <2>3, <2>5, SeqEqual
  <2> QED BY <2>6 DEF u
<1> QED BY <1>1

(* What the slices of a string hold that the functions compare.            *)
LEMMA SliceIs ==
  ASSUME NEW s \in Seq(Bytes), NEW f \in Nat, NEW l \in Nat, f + l <= Len(s)
  PROVE  /\ Fields!Slice(s, f, l) = Part(s, f, f + l)
         /\ Fields!Slice(s, f, l) \in Seq(Bytes)
         /\ Len(Fields!Slice(s, f, l)) = l
         /\ \A k \in 1..l : Fields!Slice(s, f, l)[k] = s[f + k]
<1> DEFINE h == Part(s, f, f + l)
<1>1. h \in Seq(Bytes) /\ Len(h) = l /\ Lies(h, s, f)
  BY Taken
<1>2. Fields!Slice(s, f, l) = h
  BY DEF Fields!Slice, Part
<1> HIDE DEF h
<1>3. \A k \in 1..l : h[k] = s[f + k]
  BY <1>1 DEF Lies
<1> QED BY <1>1, <1>2, <1>3 DEF h

LEMMA SliceTwo ==
  ASSUME NEW s \in Seq(Bytes), NEW f \in Nat, f + 2 <= Len(s), NEW a, NEW b
  PROVE  Fields!Slice(s, f, 2) = <<a, b>> <=> s[f + 1] = a /\ s[f + 2] = b
<1> DEFINE t == Fields!Slice(s, f, 2)
<1>0. s \in Seq(Bytes) /\ f \in Nat /\ 2 \in Nat /\ f + 2 <= Len(s)
  OBVIOUS
<1>1. /\ t \in Seq(Bytes) /\ Len(t) = 2 /\ \A k \in 1..2 : t[k] = s[f + k]
  BY ONLY <1>0, SliceIs
<1>2. 1 \in 1..2 /\ 2 \in 1..2
  OBVIOUS
<1> HIDE DEF t
<1>3. t[1] = s[f + 1] /\ t[2] = s[f + 2]
  BY <1>1, <1>2
<1>4. t = <<a, b>> <=> t[1] = a /\ t[2] = b
  BY <1>1, IsTwo
<1>5. t = <<a, b>> <=> s[f + 1] = a /\ s[f + 2] = b
  BY <1>3, <1>4
<1> QED BY <1>5 DEF t

LEMMA SliceThree ==
  ASSUME NEW s \in Seq(Bytes), 3 <= Len(s), NEW a, NEW b, NEW c
  PROVE  Fields!Slice(s, 0, 3) = <<a, b, c>> <=>
           s[1] = a /\ s[2] = b /\ s[3] = c
<1> DEFINE t == Fields!Slice(s, 0, 3)
<1>0. s \in Seq(Bytes) /\ 0 \in Nat /\ 3 \in Nat /\ 0 + 3 <= Len(s)
  OBVIOUS
<1>1. /\ t \in Seq(Bytes) /\ Len(t) = 3 /\ \A k \in 1..3 : t[k] = s[0 + k]
  BY ONLY <1>0, SliceIs
<1>2. 1 \in 1..3 /\ 2 \in 1..3 /\ 3 \in 1..3
  OBVIOUS
<1> HIDE DEF t
<1>3. t[1] = s[1] /\ t[2] = s[2] /\ t[3] = s[3]
  BY <1>1, <1>2
<1>4. t = <<a, b, c>> <=> t[1] = a /\ t[2] = b /\ t[3] = c
  BY <1>1, IsThree
<1>5. t = <<a, b, c>> <=> s[1] = a /\ s[2] = b /\ s[3] = c
  BY <1>3, <1>4
<1> QED BY <1>5 DEF t

LEMMA SliceFour ==
  ASSUME NEW s \in Seq(Bytes), 4 <= Len(s), NEW a, NEW b, NEW c, NEW d
  PROVE  Fields!Slice(s, 0, 4) = <<a, b, c, d>> <=>
           s[1] = a /\ s[2] = b /\ s[3] = c /\ s[4] = d
<1> DEFINE t == Fields!Slice(s, 0, 4)
<1>0. s \in Seq(Bytes) /\ 0 \in Nat /\ 4 \in Nat /\ 0 + 4 <= Len(s)
  OBVIOUS
<1>1. /\ t \in Seq(Bytes) /\ Len(t) = 4 /\ \A k \in 1..4 : t[k] = s[0 + k]
  BY ONLY <1>0, SliceIs
<1>2. 1 \in 1..4 /\ 2 \in 1..4 /\ 3 \in 1..4 /\ 4 \in 1..4
  OBVIOUS
<1> HIDE DEF t
<1>3. t[1] = s[1] /\ t[2] = s[2] /\ t[3] = s[3] /\ t[4] = s[4]
  BY <1>1, <1>2
<1>4. t = <<a, b, c, d>> <=> t[1] = a /\ t[2] = b /\ t[3] = c /\ t[4] = d
  BY <1>1, IsFour
<1>5. t = <<a, b, c, d>> <=> s[1] = a /\ s[2] = b /\ s[3] = c /\ s[4] = d
  BY <1>3, <1>4
<1> QED BY <1>5 DEF t

(***************************************************************************)
(* An output whose length is told by one byte, and as it is.               *)
(***************************************************************************)
OutputParts ==
  /\ parts.code \in Seq(Bytes) /\ parts.script \in Seq(Bytes)
  /\ Len(parts.script) \in Nat
  /\ \/ OneByte(parts.code, Len(parts.script))
     \/ WideCode(parts.code, Len(parts.script))

Exact == Len(parts.code) = 1 /\ parts.code[1] = Len(parts.script)

LEMMA ExactCode ==
  ASSUME OutputParts
  PROVE  parts.code = <<Len(parts.script)>> <=> Exact
<1> DEFINE code == parts.code  k == Len(parts.script)
<1>1. code \in Seq(Bytes)
  BY DEF OutputParts
<1>2. ASSUME Len(code) = 1, code[1] = k PROVE code = <<k>>
  <2> DEFINE u == <<k>>
  <2>1. k \in Bytes
    BY <1>1, <1>2
  <2> HIDE DEF k, code
  <2>2. u \in Seq(Bytes) /\ Len(u) = 1 /\ u[1] = k
    BY <2>1
  <2> HIDE DEF u
  <2>3. \A j \in 1..Len(code) : code[j] = u[j]
    <3>1. \A j \in 1..1 : j = 1
      OBVIOUS
    <3> QED BY <1>2, <2>2, <3>1
  <2>4. code = u
    BY <1>1, <1>2, <2>2, <2>3, SeqEqual
  <2> QED BY <2>4 DEF u
<1>3. ASSUME code = <<k>> PROVE Len(code) = 1 /\ code[1] = k
  BY <1>3
<1> HIDE DEF code, k
<1>4. code = <<k>> <=> Len(code) = 1 /\ code[1] = k
  BY <1>2, <1>3, Zenon
<1> QED BY <1>4 DEF Exact, code, k

LEMMA ExactSpk ==
  ASSUME OutputParts, Exact
  PROVE  LET s == parts.script  k == Len(s)  b == Fields!spk
         IN  /\ b \in Seq(Bytes) /\ Len(b) = k + 1 /\ b[1] = k
             /\ k \in Nat /\ k < Wide
             /\ \A j \in 1..k : b[j + 1] = s[j]
             /\ \A f, l \in Nat : f + l <= k =>
                  Fields!Slice(b, f + 1, l) = Part(s, f, f + l)
<1> DEFINE s == parts.script  k == Len(s)  b == Fields!spk  c == parts.code
<1>1. c \in Seq(Bytes) /\ s \in Seq(Bytes) /\ k \in Nat /\ Len(c) = 1 /\ c[1] = k
  BY DEF OutputParts, Exact
<1>2. k < Wide
  <2>1. CASE OneByte(c, k)
    <3>1. c[1] \in 0..Wide - 1 /\ Wide \in Nat
      BY <2>1, CompactAssumption DEF OneByte
    <3> HIDE DEF c, k
    <3> QED BY <1>1, <3>1
  <2>2. CASE WideCode(c, k)
    BY <1>1, <2>2 DEF WideCode
  <2> QED BY <2>1, <2>2 DEF OutputParts
<1>3. b = c \o s
  BY DEF Fields!spk
<1> HIDE DEF b, c
<1>4. /\ b \in Seq(Bytes) /\ Len(b) = Len(c) + k
      /\ \A j \in 1..Len(c) : b[j] = c[j]
      /\ \A j \in 1..k : b[Len(c) + j] = s[j]
  BY <1>1, <1>3, Joined
<1> HIDE DEF s, k
<1>5. Len(b) = k + 1 /\ b[1] = k
  <2>1. 1 \in 1..Len(c)
    BY <1>1
  <2> QED BY <1>1, <1>4, <2>1
<1>6. \A j \in 1..k : b[j + 1] = s[j]
  <2> SUFFICES ASSUME NEW j \in 1..k PROVE b[j + 1] = s[j]
    OBVIOUS
  <2>1. Len(c) + j = j + 1
    BY <1>1
  <2> QED BY <1>4, <2>1
<1>7. ASSUME NEW f \in Nat, NEW l \in Nat, f + l <= k
      PROVE  Fields!Slice(b, f + 1, l) = Part(s, f, f + l)
  <2> DEFINE t == Part(s, f, f + l)  o == f + 1  e == o + l
  <2>1. t \in Seq(Bytes) /\ Len(t) = l /\ Lies(t, s, f)
    BY <1>1, <1>7, Taken DEF k
  <2>2. o \in Nat /\ e \in Nat /\ e - o = l /\ e <= Len(b)
    BY <1>1, <1>5, <1>7
  <2>3. Fields!Slice(b, o, l) = Part(b, o, e)
    BY DEF Fields!Slice, Part
  <2> HIDE DEF t
  <2>4. ASSUME NEW j \in 1..Len(t) PROVE b[o + j] = t[j]
    <3> DEFINE i0 == f + j
    <3>1. i0 \in 1..k /\ i0 + 1 = o + j /\ j \in 1..l
      BY <1>1, <1>7, <2>1, <2>4
    <3> HIDE DEF i0, o
    <3>2. b[i0 + 1] = s[i0]
      BY <1>6, <3>1
    <3>3. s[f + j] = t[j]
      BY <2>1, <2>4 DEF Lies
    <3> QED BY <3>1, <3>2, <3>3 DEF i0
  <2> HIDE DEF o, e
  <2>5. Lies(t, b, o)
    BY <2>4 DEF Lies
  <2>6. Part(b, o, e) = t
    <3>1. /\ b \in Seq(Bytes) /\ t \in Seq(Bytes) /\ o \in Nat /\ e \in Nat
          /\ e - o = Len(t) /\ e <= Len(b) /\ Lies(t, b, o)
      BY <1>4, <2>1, <2>2, <2>5
    <3> QED BY ONLY <3>1, PartLies
  <2> QED BY <2>3, <2>6 DEF t, o
<1> QED BY <1>1, <1>2, <1>4, <1>5, <1>6, <1>7 DEF s, k, b

(* A script that pays to no hash, and a result that is the hash it pays to. *)
Formless(s) ==
  /\ ~ToWitness(s, HashSize) /\ ~ToWitness(s, LongHashSize)
  /\ ~ToKey(s) /\ ~ToScript(s)
Paid(r) ==
  \E k \in {"WPKH", "WSH", "PKH", "SH"} : \E h :
    Fields!Pays(k, h) /\ r = Fields!Kind(k, h)

LEMMA NothingPaid ==
  ASSUME FieldsAssumption, OutputParts, ~Exact \/ Formless(parts.script)
  PROVE  Fields!PaysNothing
<1> DEFINE s == parts.script
<1> SUFFICES ASSUME NEW k \in {"WPKH", "WSH", "PKH", "SH"},
                    NEW from \in 0..Len(s),
                    NEW len \in {HashSize, LongHashSize}, from + len <= Len(s),
                    Fields!Pays(k, Fields!Slice(s, from, len))
             PROVE  FALSE
  BY DEF Fields!PaysNothing
<1>1. s \in Seq(Bytes) /\ from \in Nat /\ len \in Nat
  BY FieldSizes DEF OutputParts
<1> DEFINE h == Fields!Slice(s, from, len)
<1>2. h \in Seq(Bytes)
  BY <1>1, SliceIs
<1>3. Fields!IsHash(k, h, s) /\ parts.code = <<Len(s)>>
  BY DEF Fields!Pays
<1> HIDE DEF h
<1>4. Exact
  BY <1>3, ExactCode
<1> HIDE DEF s
<1>5. ~Formless(s)
  BY <1>1, <1>2, <1>3, HashIsForm DEF Formless
<1> QED BY <1>4, <1>5 DEF s

LEMMA HashPaid ==
  ASSUME FieldsAssumption, OutputParts, Exact
  PROVE  LET s == parts.script
         IN  /\ ToWitness(s, HashSize) =>
                  Paid(Fields!Kind("WPKH", Part(s, 2, 2 + HashSize)))
             /\ ToWitness(s, LongHashSize) =>
                  Paid(Fields!Kind("WSH", Part(s, 2, 2 + LongHashSize)))
             /\ ToKey(s) => Paid(Fields!Kind("PKH", Part(s, 3, 3 + HashSize)))
             /\ ToScript(s) => Paid(Fields!Kind("SH", Part(s, 2, 2 + HashSize)))
<1> DEFINE s == parts.script
<1>1. s \in Seq(Bytes)
  BY DEF OutputParts
<1>2. parts.code = <<Len(s)>>
  BY ExactCode
<1>3. ASSUME ToWitness(s, HashSize)
      PROVE  Paid(Fields!Kind("WPKH", Part(s, 2, 2 + HashSize)))
  <2> DEFINE h == Part(s, 2, 2 + HashSize)
  <2>1. s = <<0, HashSize>> \o h /\ Len(h) = HashSize
    BY <1>1, <1>3, WitnessIsHash
  <2>2. Fields!Pays("WPKH", h)
    BY <1>2, <2>1 DEF Fields!Pays, Fields!IsHash
  <2> HIDE DEF h
  <2>3. Paid(Fields!Kind("WPKH", h))
    BY <2>2 DEF Paid
  <2> QED BY <2>3 DEF h
<1>4. ASSUME ToWitness(s, LongHashSize)
      PROVE  Paid(Fields!Kind("WSH", Part(s, 2, 2 + LongHashSize)))
  <2> DEFINE h == Part(s, 2, 2 + LongHashSize)
  <2>1. s = <<0, LongHashSize>> \o h /\ Len(h) = LongHashSize
    BY <1>1, <1>4, WitnessIsHash
  <2>2. Fields!Pays("WSH", h)
    BY <1>2, <2>1 DEF Fields!Pays, Fields!IsHash
  <2> HIDE DEF h
  <2>3. Paid(Fields!Kind("WSH", h))
    BY <2>2 DEF Paid
  <2> QED BY <2>3 DEF h
<1>5. ASSUME ToKey(s)
      PROVE  Paid(Fields!Kind("PKH", Part(s, 3, 3 + HashSize)))
  <2> DEFINE h == Part(s, 3, 3 + HashSize)
  <2>1. /\ s = <<OP_DUP, OP_HASH160, HashSize>> \o h
                 \o <<OP_EQUALVERIFY, OP_CHECKSIG>>
        /\ Len(h) = HashSize
    BY <1>1, <1>5, KeyIsHash
  <2>2. Fields!Pays("PKH", h)
    BY <1>2, <2>1 DEF Fields!Pays, Fields!IsHash
  <2> HIDE DEF h
  <2>3. Paid(Fields!Kind("PKH", h))
    BY <2>2 DEF Paid
  <2> QED BY <2>3 DEF h
<1>6. ASSUME ToScript(s)
      PROVE  Paid(Fields!Kind("SH", Part(s, 2, 2 + HashSize)))
  <2> DEFINE h == Part(s, 2, 2 + HashSize)
  <2>1. s = <<OP_HASH160, HashSize>> \o h \o <<OP_EQUAL>> /\ Len(h) = HashSize
    BY <1>1, <1>6, ScriptIsHash
  <2>2. Fields!Pays("SH", h)
    BY <1>2, <2>1 DEF Fields!Pays, Fields!IsHash
  <2> HIDE DEF h
  <2>3. Paid(Fields!Kind("SH", h))
    BY <2>2 DEF Paid
  <2> QED BY <2>3 DEF h
<1> QED BY <1>3, <1>4, <1>5, <1>6

(* Only a script that starts with the version may pay to a witness program, *)
(* and only one that does not to anything else.                            *)
LEMMA Witness ==
  ASSUME FieldsAssumption, OutputParts, Exact, Len(parts.script) >= 2,
         Fields!spk[2] = 0
  PROVE  LET r == Fields!WitnessHash
         IN  (r = Fields!None /\ Formless(parts.script)) \/ Paid(r)
<1> DEFINE s == parts.script  k == Len(s)  b == Fields!spk  r == Fields!WitnessHash
           len == s[2]
<1>1. /\ HashSize \in Nat /\ LongHashSize \in Nat
      /\ HashSize + 3 < LongHashSize /\ OP_DUP # 0 /\ OP_HASH160 # 0
  BY FieldSizes
<1>2. /\ b[1] = k /\ k \in Nat /\ \A j \in 1..k : b[j + 1] = s[j]
      /\ \A f, l \in Nat : f + l <= k =>
           Fields!Slice(b, f + 1, l) = Part(s, f, f + l)
  BY ExactSpk
<1>3. k >= 2 /\ b[2] = 0
  OBVIOUS
<1>4. r = IF b[3] = b[1] - 2 /\ b[3] \in {HashSize, LongHashSize}
          THEN Fields!Kind(IF b[3] = LongHashSize THEN "WSH" ELSE "WPKH",
                           Fields!Slice(b, 3, b[3]))
          ELSE Fields!None
  BY DEF Fields!WitnessHash
<1> HIDE DEF k, b, r
<1>5. s[1] = 0 /\ b[3] = len
  <2>1. 1 \in 1..k /\ 2 \in 1..k /\ 1 + 1 = 2 /\ 2 + 1 = 3
    BY <1>2, <1>3
  <2>2. b[1 + 1] = s[1] /\ b[2 + 1] = s[2]
    BY <1>2, <2>1
  <2> QED BY <1>3, <2>1, <2>2
<1>6. ~ToKey(s) /\ ~ToScript(s)
  BY <1>1, <1>5 DEF ToKey, ToScript
<1> HIDE DEF len
<1>7. CASE len = k - 2 /\ len \in {HashSize, LongHashSize}
  <2>1. k = len + 2 /\ len \in Nat
    <3>1. k \in Nat /\ len = k - 2
      BY <1>2, <1>7
    <3>2. len \in Nat
      BY ONLY <1>1, <1>7
    <3> QED BY ONLY <3>1, <3>2
  <2>2. ToWitness(s, len)
    BY <1>5, <2>1 DEF ToWitness, k, len
  <2>3. Fields!Slice(b, 3, len) = Part(s, 2, 2 + len)
    <3>1. 2 \in Nat /\ len \in Nat /\ 2 + len <= k /\ 2 + 1 = 3
      BY <1>2, <2>1
    <3>2. Fields!Slice(b, 2 + 1, len) = Part(s, 2, 2 + len)
      BY <1>2, <3>1
    <3> QED BY <3>1, <3>2
  <2>4. r = Fields!Kind(IF len = LongHashSize THEN "WSH" ELSE "WPKH",
                        Part(s, 2, 2 + len))
    BY <1>2, <1>4, <1>5, <1>7, <2>3
  <2>5. ASSUME len = LongHashSize PROVE Paid(r)
    <3>1. /\ ToWitness(s, LongHashSize)
          /\ r = Fields!Kind("WSH", Part(s, 2, 2 + LongHashSize))
      BY <2>2, <2>4, <2>5
    <3>2. Paid(Fields!Kind("WSH", Part(s, 2, 2 + LongHashSize)))
      BY <3>1, HashPaid
    <3> QED BY <3>1, <3>2
  <2>6. ASSUME len = HashSize, len # LongHashSize PROVE Paid(r)
    <3>1. /\ ToWitness(s, HashSize)
          /\ r = Fields!Kind("WPKH", Part(s, 2, 2 + HashSize))
      BY <2>2, <2>4, <2>6
    <3>2. Paid(Fields!Kind("WPKH", Part(s, 2, 2 + HashSize)))
      BY <3>1, HashPaid
    <3> QED BY <3>1, <3>2
  <2>7. Paid(r)
    BY <1>7, <2>5, <2>6
  <2> QED BY <2>7 DEF r
<1>8. CASE ~(len = k - 2 /\ len \in {HashSize, LongHashSize})
  <2>1. r = Fields!None
    BY <1>2, <1>4, <1>5, <1>8
  <2>2. ~ToWitness(s, HashSize) /\ ~ToWitness(s, LongHashSize)
    <3> SUFFICES ASSUME NEW l \in {HashSize, LongHashSize}, ToWitness(s, l)
                 PROVE  FALSE
      OBVIOUS
    <3>1. k = l + 2 /\ len = l
      BY DEF ToWitness, k, len
    <3>2. l \in Nat
      BY <1>1
    <3> QED BY <1>8, <3>1, <3>2
  <2> QED BY <1>6, <2>1, <2>2 DEF Formless, r
<1> QED BY <1>7, <1>8

LEMMA Legacy ==
  ASSUME FieldsAssumption, OutputParts, Exact, Len(parts.script) >= 2,
         Fields!spk[2] # 0
  PROVE  LET r == Fields!LegacyHash
         IN  (r = Fields!None /\ Formless(parts.script)) \/ Paid(r)
<1> DEFINE s == parts.script  k == Len(s)  b == Fields!spk  r == Fields!LegacyHash
           start == Fields!Slice(b, 0, 3)  finish == Fields!Slice(b, Len(b) - 2, 2)
           u == <<HashSize + 5, OP_DUP, OP_HASH160>>
           v == <<HashSize + 3, OP_HASH160, HashSize>>
           w == <<OP_EQUALVERIFY, OP_CHECKSIG>>
<1>1. /\ HashSize \in Nat \ {0} /\ LongHashSize \in Nat
      /\ HashSize + 3 < LongHashSize
  BY FieldSizes
<1>2. /\ b \in Seq(Bytes) /\ Len(b) = k + 1
      /\ b[1] = k /\ k \in Nat /\ \A j \in 1..k : b[j + 1] = s[j]
      /\ \A f, l \in Nat : f + l <= k =>
           Fields!Slice(b, f + 1, l) = Part(s, f, f + l)
  BY ExactSpk
<1>3. k >= 2 /\ b[2] # 0
  OBVIOUS
<1>4. \A x, y, z : start = <<x, y, z>> <=> k = x /\ b[2] = y /\ b[3] = z
  <2>1. 3 <= Len(b)
    BY <1>2, <1>3
  <2> HIDE DEF b, k
  <2>2. b \in Seq(Bytes) /\ 3 <= Len(b)
    BY <1>2, <2>1
  <2>3. \A x, y, z : Fields!Slice(b, 0, 3) = <<x, y, z>> <=>
                       b[1] = x /\ b[2] = y /\ b[3] = z
    BY ONLY <2>2, SliceThree
  <2>4. b[1] = k
    BY <1>2
  <2> QED BY <2>3, <2>4, Zenon DEF start
<1>5. \A x, y : finish = <<x, y>> <=> b[k] = x /\ b[k + 1] = y
  <2> DEFINE f == Len(b) - 2
  <2>1. f \in Nat /\ f + 2 <= Len(b) /\ f + 1 = k /\ f + 2 = k + 1
    BY <1>2, <1>3
  <2> HIDE DEF b, k, f
  <2>2. \A x, y : Fields!Slice(b, f, 2) = <<x, y>> <=>
                    b[f + 1] = x /\ b[f + 2] = y
    <3>1. b \in Seq(Bytes) /\ f \in Nat /\ f + 2 <= Len(b)
      BY <1>2, <2>1
    <3> QED BY ONLY <3>1, SliceTwo
  <2> QED BY <2>1, <2>2 DEF f
<1>6. r = CASE start = u ->
                 IF b[4] = HashSize /\ finish = w
                 THEN Fields!Kind("PKH", Fields!Slice(b, 4, HashSize))
                 ELSE Fields!None
            [] start = v ->
                 IF b[Len(b)] = OP_EQUAL
                 THEN Fields!Kind("SH", Fields!Slice(b, 3, HashSize))
                 ELSE Fields!None
            [] OTHER -> Fields!None
  BY DEF Fields!LegacyHash
<1>12. /\ start = u <=> k = HashSize + 5 /\ b[2] = OP_DUP /\ b[3] = OP_HASH160
       /\ start = v <=> k = HashSize + 3 /\ b[2] = OP_HASH160 /\ b[3] = HashSize
       /\ finish = w <=> b[k] = OP_EQUALVERIFY /\ b[k + 1] = OP_CHECKSIG
  <2> HIDE DEF start, finish, b, k
  <2> QED BY <1>4, <1>5, Zenon DEF u, v, w
<1> HIDE DEF k, b, r, start, finish, u, v, w
<1>7. s[1] = b[2] /\ s[2] = b[3] /\ s[1] # 0
  <2>1. 1 \in 1..k /\ 2 \in 1..k /\ 1 + 1 = 2 /\ 2 + 1 = 3
    BY <1>2, <1>3
  <2>2. b[1 + 1] = s[1] /\ b[2 + 1] = s[2]
    BY <1>2, <2>1
  <2> QED BY <1>3, <2>1, <2>2
<1>8. ~ToWitness(s, HashSize) /\ ~ToWitness(s, LongHashSize)
  BY <1>7 DEF ToWitness
<1>9. CASE k = HashSize + 5 /\ s[1] = OP_DUP /\ s[2] = OP_HASH160
  <2>1. start = u
    BY <1>12, <1>7, <1>9
  <2>2. /\ b[4] = s[3] /\ b[k] = s[HashSize + 4]
        /\ b[k + 1] = s[HashSize + 5]
    <3>1. /\ 3 \in 1..k /\ 3 + 1 = 4
          /\ HashSize + 4 \in 1..k /\ HashSize + 4 + 1 = k
          /\ HashSize + 5 \in 1..k /\ HashSize + 5 + 1 = k + 1
      BY <1>1, <1>2, <1>9
    <3>2. /\ b[3 + 1] = s[3] /\ b[HashSize + 4 + 1] = s[HashSize + 4]
          /\ b[HashSize + 5 + 1] = s[HashSize + 5]
      BY <1>2, <3>1
    <3> QED BY <3>1, <3>2
  <2>3. ToKey(s) <=> b[4] = HashSize /\ finish = w
    BY <1>9, <1>12, <2>2 DEF ToKey, k
  <2>4. ~ToScript(s)
    BY <1>1, <1>9 DEF ToScript, k
  <2>5. Fields!Slice(b, 4, HashSize) = Part(s, 3, 3 + HashSize)
    <3>1. 3 \in Nat /\ HashSize \in Nat /\ 3 + HashSize <= k /\ 3 + 1 = 4
      BY <1>1, <1>9
    <3>2. Fields!Slice(b, 3 + 1, HashSize) = Part(s, 3, 3 + HashSize)
      BY <1>2, <3>1
    <3> QED BY <3>1, <3>2
  <2>6. r = IF ToKey(s) THEN Fields!Kind("PKH", Part(s, 3, 3 + HashSize))
            ELSE Fields!None
    <3>1. r = IF b[4] = HashSize /\ finish = w
              THEN Fields!Kind("PKH", Fields!Slice(b, 4, HashSize))
              ELSE Fields!None
      <4>1. k # HashSize + 3
        BY <1>1, <1>9
      <4>2. start # v
        BY <1>12, <4>1
      <4> QED BY <1>6, <2>1, <4>2
    <3> QED BY <2>3, <2>5, <3>1
  <2>7. ToKey(s) => Paid(r)
    BY <2>6, HashPaid
  <2> QED BY <1>8, <2>4, <2>6, <2>7 DEF Formless, r
<1>10. CASE k = HashSize + 3 /\ s[1] = OP_HASH160 /\ s[2] = HashSize
  <2>1. start = v
    BY <1>12, <1>7, <1>10
  <2>2. start # u
    <3>1. k # HashSize + 5
      BY <1>1, <1>10
    <3> QED BY <1>12, <3>1
  <2>3. b[Len(b)] = s[HashSize + 3]
    <3>1. HashSize + 3 \in 1..k /\ HashSize + 3 + 1 = Len(b)
      BY <1>1, <1>2, <1>10
    <3>2. b[HashSize + 3 + 1] = s[HashSize + 3]
      BY <1>2, <3>1
    <3> QED BY <3>1, <3>2
  <2>4. ToScript(s) <=> b[Len(b)] = OP_EQUAL
    BY <1>10, <2>3 DEF ToScript, k
  <2>5. ~ToKey(s)
    BY <1>1, <1>10 DEF ToKey, k
  <2>6. Fields!Slice(b, 3, HashSize) = Part(s, 2, 2 + HashSize)
    <3>1. 2 \in Nat /\ HashSize \in Nat /\ 2 + HashSize <= k /\ 2 + 1 = 3
      BY <1>1, <1>10
    <3>2. Fields!Slice(b, 2 + 1, HashSize) = Part(s, 2, 2 + HashSize)
      BY <1>2, <3>1
    <3> QED BY <3>1, <3>2
  <2>7. r = IF ToScript(s) THEN Fields!Kind("SH", Part(s, 2, 2 + HashSize))
            ELSE Fields!None
    BY <1>6, <2>1, <2>2, <2>4, <2>6
  <2>8. ToScript(s) => Paid(r)
    BY <2>7, HashPaid
  <2> QED BY <1>8, <2>5, <2>7, <2>8 DEF Formless, r
<1>11. CASE /\ ~(k = HashSize + 5 /\ s[1] = OP_DUP /\ s[2] = OP_HASH160)
            /\ ~(k = HashSize + 3 /\ s[1] = OP_HASH160 /\ s[2] = HashSize)
  <2>1. /\ start # u
        /\ start # v
    BY <1>12, <1>7, <1>11
  <2>2. r = Fields!None
    BY <1>6, <2>1
  <2>3. ~ToKey(s) /\ ~ToScript(s)
    BY <1>11 DEF ToKey, ToScript, k
  <2> QED BY <1>8, <2>2, <2>3 DEF Formless, r
<1> QED BY <1>9, <1>10, <1>11

(* The output script with any length in front.                             *)
LEMMA SpkLaid ==
  ASSUME OutputParts
  PROVE  LET s == parts.script  c == parts.code  b == Fields!spk
         IN  /\ b \in Seq(Bytes) /\ Len(b) = Len(c) + Len(s) /\ Len(b) \in Nat
             /\ Len(b) >= 1 /\ b[1] = c[1] /\ c[1] \in Bytes
             /\ Len(c) = 3 => b[2] = c[2] /\ b[3] = c[3]
<1> DEFINE s == parts.script  c == parts.code  b == Fields!spk
<1>1. c \in Seq(Bytes) /\ s \in Seq(Bytes) /\ Len(s) \in Nat
      /\ (Len(c) = 1 \/ Len(c) = 3)
  BY DEF OutputParts, OneByte, WideCode
<1>2. b = c \o s
  BY DEF Fields!spk
<1> HIDE DEF b, c, s
<1>3. /\ b \in Seq(Bytes) /\ Len(b) = Len(c) + Len(s)
      /\ \A k \in 1..Len(c) : b[k] = c[k]
  BY <1>1, <1>2, Joined
<1>4. 1 \in 1..Len(c) /\ (Len(c) = 3 => 2 \in 1..Len(c) /\ 3 \in 1..Len(c))
  <2> DEFINE l == Len(c)
  <2>1. l = 1 \/ l = 3
    BY <1>1
  <2> HIDE DEF l
  <2>2. 1 \in 1..l /\ (l = 3 => 2 \in 1..l /\ 3 \in 1..l)
    BY <2>1
  <2> QED BY <2>2 DEF l
<1>5. b[1] = c[1] /\ (Len(c) = 3 => b[2] = c[2] /\ b[3] = c[3])
  BY <1>3, <1>4
<1>6. c[1] \in Bytes
  BY <1>1, <1>4
<1>7. Len(b) \in Nat /\ Len(b) >= 1
  BY <1>1, <1>3
<1> QED BY <1>3, <1>5, <1>6, <1>7 DEF b, c, s

LEMMA Unmatched ==
  ASSUME FieldsAssumption, OutputParts,
         ~Fields!LengthMatches \/ Len(Fields!spk) < 3
  PROVE  Fields!PaysNothing
<1> DEFINE s == parts.script  k == Len(s)
<1>1. SUFFICES ASSUME Exact PROVE Formless(s)
  BY NothingPaid
<1>2. Fields!spk[1] = k /\ Len(Fields!spk) = k + 1 /\ k \in Nat
  BY <1>1, ExactSpk
<1>3. HashSize \in Nat \ {0} /\ LongHashSize \in Nat \ {0}
  BY FieldSizes
<1>4. Fields!LengthMatches
  BY <1>2 DEF Fields!LengthMatches
<1> HIDE DEF k
<1>5. k < 2
  BY <1>2, <1>4
<1>6. k # HashSize + 2 /\ k # LongHashSize + 2 /\ k # HashSize + 5
      /\ k # HashSize + 3
  BY <1>2, <1>3, <1>5
<1> QED BY <1>6 DEF Formless, ToWitness, ToKey, ToScript, k

(* A length told wide that is one more than the bytes behind it.           *)
LEMMA WideMatches ==
  ASSUME FieldsAssumption, OutputParts, Fields!LengthMatches, ~Exact
  PROVE  /\ Fields!spk[1] = Wide /\ Fields!spk[2] # 0
         /\ Fields!HashOfMatching = Fields!None
<1> DEFINE s == parts.script  k == Len(s)  c == parts.code  b == Fields!spk
           start == Fields!Slice(b, 0, 3)
<1>1. /\ b \in Seq(Bytes) /\ Len(b) = Len(c) + k /\ b[1] = c[1]
      /\ c[1] \in Bytes /\ k \in Nat
      /\ Len(c) = 3 => b[2] = c[2] /\ b[3] = c[3]
  BY SpkLaid DEF OutputParts
<1>2. /\ HashSize \in Nat /\ LongHashSize \in Nat
      /\ HashSize + 3 < LongHashSize /\ LongHashSize + 2 < Wide
      /\ Base \in Nat /\ Wide \in 1..Base - 1
  BY FieldSizes
<1>3. b[1] + 1 = Len(b)
  BY DEF Fields!LengthMatches
<1>4. WideCode(c, k)
  <2> SUFFICES ASSUME OneByte(c, k) PROVE FALSE
    BY DEF OutputParts
  <2>1. Len(c) = 1
    BY DEF OneByte
  <2> HIDE DEF b, c, k
  <2>2. c[1] = k /\ c[1] \in Int
    BY <1>1, <1>2, <1>3, <2>1 DEF Bytes
  <2> QED BY <2>1, <2>2 DEF Exact, c, k
<1>5. /\ Len(c) = 3 /\ c[1] = Wide /\ c[2] = k % Base
  BY <1>4 DEF WideCode
<1> HIDE DEF b, c, k
<1>6. k = Wide - 2 /\ k \in 1..Base - 1
  BY <1>1, <1>2, <1>3, <1>5
<1>7. k % Base = k
  BY <1>2, <1>6
<1>8. b[1] = Wide /\ b[2] # 0 /\ 3 <= Len(b)
  BY <1>1, <1>5, <1>6, <1>7
<1>9. \A x, y, z : start = <<x, y, z>> => x = Wide
  <2>1. b \in Seq(Bytes) /\ 3 <= Len(b)
    BY <1>1, <1>8
  <2>2. \A x, y, z : Fields!Slice(b, 0, 3) = <<x, y, z>> <=>
                       b[1] = x /\ b[2] = y /\ b[3] = z
    BY ONLY <2>1, SliceThree
  <2>3. b[1] = Wide
    BY <1>8
  <2> QED BY <2>2, <2>3, Zenon DEF start
<1>10. HashSize + 5 # Wide /\ HashSize + 3 # Wide
  BY <1>2
<1> HIDE DEF start
<1>11. /\ start # <<HashSize + 5, OP_DUP, OP_HASH160>>
       /\ start # <<HashSize + 3, OP_HASH160, HashSize>>
  BY <1>9, <1>10, Zenon
<1>12. Fields!LegacyHash = Fields!None
  BY <1>11 DEF Fields!LegacyHash, start, b
<1>13. Fields!HashOfMatching = Fields!None
  BY <1>8, <1>12 DEF Fields!HashOfMatching, b
<1> QED BY <1>8, <1>13 DEF b

LEMMA Matching ==
  ASSUME FieldsAssumption, OutputParts, Fields!LengthMatches,
         ~(Len(Fields!spk) < 3)
  PROVE  LET r == Fields!HashOfMatching
         IN  (r = Fields!None /\ Fields!PaysNothing) \/ Paid(r)
<1>1. CASE ~Exact
  BY <1>1, WideMatches, NothingPaid
<1>2. CASE Exact
  <2>1. Len(parts.script) >= 2
    <3> DEFINE k == Len(parts.script)  l == Len(Fields!spk)
    <3>1. l = k + 1 /\ k \in Nat /\ ~(l < 3)
      BY <1>2, ExactSpk
    <3> HIDE DEF k, l
    <3>2. k >= 2
      BY <3>1
    <3> QED BY <3>2 DEF k
  <2>2. CASE Fields!spk[2] = 0
    BY <1>2, <2>1, <2>2, Witness, NothingPaid DEF Fields!HashOfMatching
  <2>3. CASE Fields!spk[2] # 0
    BY <1>2, <2>1, <2>3, Legacy, NothingPaid DEF Fields!HashOfMatching
  <2> QED BY <2>2, <2>3
<1> QED BY <1>1, <1>2

(* Rust: a push of nearly as many bytes as a byte counts.                  *)
LEMMA LongPush ==
  ASSUME FieldsAssumption, OutputParts, Fields!LengthMatches,
         ~(Len(Fields!spk) < 3), Fields!spk[2] = 0, Fields!spk[3] + 2 >= Base
  PROVE  Fields!PaysNothing /\ parts.script[2] >= Base - 2
<1> DEFINE s == parts.script  k == Len(s)  b == Fields!spk
<1>1. Exact
  BY WideMatches
<1>2. Len(b) = k + 1 /\ k \in Nat /\ \A j \in 1..k : b[j + 1] = s[j]
  BY <1>1, ExactSpk
<1>3. s \in Seq(Bytes)
  BY DEF OutputParts
<1>4. /\ HashSize \in Nat /\ LongHashSize \in Nat
      /\ HashSize + 3 < LongHashSize /\ LongHashSize + 2 < Wide
      /\ Base \in Nat /\ Wide \in 1..Base - 1 /\ OP_DUP # 0 /\ OP_HASH160 # 0
  BY FieldSizes
<1>5. ~(Len(b) < 3) /\ b[2] = 0 /\ b[3] + 2 >= Base
  OBVIOUS
<1> HIDE DEF b, k
<1>6. 1 \in 1..k /\ 2 \in 1..k /\ 1 + 1 = 2 /\ 2 + 1 = 3
  BY <1>2, <1>5
<1>7. b[1 + 1] = s[1] /\ b[2 + 1] = s[2]
  BY <1>2, <1>6
<1>8. s[2] \in Bytes
  BY <1>3, <1>6 DEF k
<1>9. s[1] = 0 /\ s[2] >= Base - 2
  BY <1>4, <1>5, <1>6, <1>7, <1>8 DEF Bytes
<1>10. s[2] # HashSize /\ s[2] # LongHashSize
  BY <1>4, <1>9
<1>11. Formless(s)
  BY <1>4, <1>9, <1>10 DEF Formless, ToWitness, ToKey, ToScript
<1> QED BY <1>9, <1>11, NothingPaid

(* Where Solidity's view of the output script ends.                        *)
LEMMA SolReads ==
  ASSUME FieldsAssumption, OutputParts
  PROVE  LET k == Len(parts.script)
         IN  \/ /\ Exact /\ Fields!SolBody = k /\ Fields!SolLength = k + 1
                /\ Fields!SolViewed
             \/ /\ ~Exact /\ Fields!SolViewed
                /\ Fields!SolBody \in {0} \cup {j \in Nat : j >= Wide}
             \/ /\ ~Exact /\ ~Fields!SolViewed
                /\ Fields!NotShortest \/ Fields!Number(Fields!spk, 0) > k
<1> DEFINE s == parts.script  k == Len(s)  c == parts.code  b == Fields!spk
<1>1. /\ b \in Seq(Bytes) /\ Len(b) = Len(c) + k /\ b[1] = c[1]
      /\ c[1] \in Bytes /\ k \in Nat /\ Len(b) \in Nat
      /\ Len(c) = 3 => b[2] = c[2] /\ b[3] = c[3]
  BY SpkLaid DEF OutputParts
<1>2. Base \in Nat /\ Wide \in 1..Base - 1
  BY FieldSizes
<1>3. /\ Fields!SolBody = Number(b, 0)
      /\ Fields!SolLength = Canonical(Number(b, 0)) + Number(b, 0)
      /\ Fields!SolViewed <=>
           ParseOutcome("sol", b, 0) = "ok" /\ Fields!SolLength <= Len(b)
      /\ Fields!Number(b, 0) = Number(b, 0)
  BY SameInFields DEF Fields!SolBody, Fields!SolLength, Fields!SolViewed
<1>4. IsWide(b, 0) <=> b[1] >= Wide
  BY DEF IsWide
<1>5. Fields!NotShortest <=> c # Shortest(k)
  BY SameInFields DEF Fields!NotShortest
<1>6. Exact <=> Len(c) = 1 /\ c[1] = k
  BY DEF Exact
<1>7. OneByte(c, k) \/ WideCode(c, k)
  BY DEF OutputParts
<1> HIDE DEF b, k
<1>8. CASE OneByte(c, k)
  <2>1. /\ Len(c) = 1 /\ c[1] \in 0..Wide - 1 /\ (c[1] = 0 \/ c[1] >= k)
    BY <1>8 DEF OneByte
  <2> HIDE DEF c
  <2>2. ~IsWide(b, 0) /\ Number(b, 0) = c[1]
    BY <1>1, <1>2, <1>4, <2>1 DEF Number
  <2>3. Canonical(c[1]) = 1
    BY <1>2, <2>1 DEF Canonical
  <2>4. ~(Len(b) - 0 <= 0) /\ Len(b) = k + 1
    BY <1>1, <2>1
  <2>5. ParseOutcome("sol", b, 0) = "ok"
    BY <2>2, <2>4 DEF ParseOutcome
  <2>6. Fields!SolLength = 1 + c[1] /\ Fields!SolBody = c[1]
    BY <1>3, <2>2, <2>3
  <2>7. CASE c[1] = k
    BY <1>1, <1>3, <1>6, <2>1, <2>4, <2>5, <2>6, <2>7 DEF k
  <2>8. CASE c[1] # k /\ c[1] = 0
    <3>1. 1 + c[1] <= Len(b)
      BY <1>1, <2>4, <2>8
    <3> QED BY <1>3, <1>6, <2>2, <2>5, <2>6, <2>8, <3>1
  <2>9. CASE c[1] # k /\ c[1] # 0
    <3>1. c[1] > k /\ ~(1 + c[1] <= Len(b))
      BY <1>1, <2>1, <2>4, <2>9
    <3>2. ~Fields!SolViewed
      BY <1>3, <2>6, <3>1
    <3> QED BY <1>3, <1>6, <2>2, <2>9, <3>1, <3>2 DEF b, k
  <2> QED BY <2>7, <2>8, <2>9
<1>9. CASE WideCode(c, k)
  <2>1. /\ Len(c) = 3 /\ c[1] = Wide
        /\ c[2] = k % Base /\ c[3] = k \div Base
    BY <1>9 DEF WideCode
  <2>2. (k % Base) + Base * (k \div Base) = k
    <3> DEFINE q == k \div Base  r == k % Base
    <3>1. k = q * Base + r /\ q \in Nat /\ r \in Nat
      BY ONLY <1>1, <1>2
    <3> HIDE DEF q, r
    <3>2. q * Base = Base * q /\ Base * q \in Nat
      BY ONLY <1>2, <3>1
    <3>3. r + Base * q = k
      BY <3>1, <3>2
    <3> QED BY <3>3 DEF q, r
  <2>3. b[1] = Wide /\ b[2] = k % Base /\ b[3] = k \div Base
    BY <1>1, <2>1
  <2>4. ~Exact
    BY <1>6, <2>1
  <2> HIDE DEF c
  <2>5. IsWide(b, 0) /\ Payload(b, 0) = k
    <3>1. Payload(b, 0) = b[2] + Base * b[3]
      BY DEF Payload
    <3> QED BY <1>2, <1>4, <2>2, <2>3, <3>1
  <2>6. Number(b, 0) = k
    BY <2>5 DEF Number
  <2>7. CASE k < Wide
    <3>1. Canonical(k) = 1
      BY <2>7 DEF Canonical
    <3>2. Len(b) = 3 + k
      BY <1>1, <2>1
    <3>3. ~(Len(b) - 0 <= 0) /\ ~(Len(b) - 0 <= DataLength)
      BY <1>1, <3>2 DEF DataLength
    <3>4. ParseOutcome("sol", b, 0) = "fault"
      BY <2>5, <3>1, <3>3 DEF ParseOutcome, DataLength
    <3>5. ~Fields!SolViewed
      BY <1>3, <3>4
    <3>6. Fields!NotShortest
      <4>1. Len(Shortest(k)) = 1
        BY <2>7 DEF Shortest
      <4> QED BY <1>5, <2>1, <4>1
    <3> QED BY <2>4, <3>5, <3>6
  <2>8. CASE ~(k < Wide)
    <3>1. k >= Wide
      BY <1>1, <1>2, <2>8
    <3>2. Canonical(k) = 3
      BY <2>8 DEF Canonical, DataLength
    <3>3. Len(b) = 3 + k
      BY <1>1, <2>1
    <3>4. ~(Len(b) - 0 <= 0) /\ ~(Len(b) - 0 <= DataLength) /\ 3 + k <= Len(b)
      BY <1>1, <3>3 DEF DataLength
    <3>5. ParseOutcome("sol", b, 0) = "ok"
      BY <2>5, <3>2, <3>4 DEF ParseOutcome, DataLength
    <3>6. Fields!SolViewed
      BY <1>3, <2>6, <3>2, <3>4, <3>5
    <3> QED BY <1>1, <1>3, <2>4, <2>6, <3>1, <3>6
  <2> QED BY <2>7, <2>8
<1> QED BY <1>7, <1>8, <1>9

LEMMA WholeSpk ==
  ASSUME OutputParts, Exact, Fields!SolLength = Len(parts.script) + 1
  PROVE  Fields!solSpk = Fields!spk
<1> DEFINE k == Len(parts.script)  b == Fields!spk  t == Fields!Slice(b, 0, k + 1)
<1>1. Fields!solSpk = t
  BY DEF Fields!solSpk
<1>2. b \in Seq(Bytes) /\ Len(b) = k + 1 /\ k \in Nat
  BY ExactSpk
<1> HIDE DEF b, k
<1>3. b \in Seq(Bytes) /\ 0 \in Nat /\ k + 1 \in Nat /\ 0 + (k + 1) <= Len(b)
  BY <1>2
<1>4. /\ t \in Seq(Bytes) /\ Len(t) = k + 1
      /\ \A j \in 1..k + 1 : t[j] = b[0 + j]
  BY ONLY <1>3, SliceIs
<1> HIDE DEF t
<1>5. Len(t) = Len(b) /\ \A j \in 1..Len(t) : t[j] = b[j]
  BY <1>2, <1>4
<1>6. t = b
  BY <1>2, <1>4, <1>5, SeqEqual
<1> QED BY <1>1, <1>6 DEF b

LEMMA SolExactReads ==
  ASSUME FieldsAssumption, OutputParts, Exact
  PROVE  /\ Fields!SolBody = Len(parts.script)
         /\ Fields!SolLength = Len(parts.script) + 1 /\ Fields!SolViewed
BY SolReads

LEMMA SolExact ==
  ASSUME FieldsAssumption, OutputParts, Exact, Fields!SolViewed,
         Fields!SolBody = Len(parts.script),
         Fields!SolLength = Len(parts.script) + 1
  PROVE  LET r == Fields!SolHash
         IN  (r = Fields!None /\ Formless(parts.script)) \/ Paid(r)
<1> DEFINE s == parts.script  k == Len(s)  b == Fields!spk  r == Fields!SolHash
           q == Fields!solSpk  start == Fields!Slice(b, 0, 3)
           four == Fields!Slice(b, 0, 4)  finish == Fields!Slice(b, k + 1 - 2, 2)
           u == <<HashSize + 5, OP_DUP, OP_HASH160, HashSize>>
           v == <<HashSize + 3, OP_HASH160, HashSize>>
           w == <<OP_EQUALVERIFY, OP_CHECKSIG>>
<1>1. /\ HashSize \in Nat \ {0} /\ LongHashSize \in Nat
      /\ HashSize + 3 < LongHashSize /\ OP_DUP # 0 /\ OP_HASH160 # 0
  BY FieldSizes
<1>2. /\ b \in Seq(Bytes) /\ Len(b) = k + 1
      /\ b[1] = k /\ k \in Nat /\ \A j \in 1..k : b[j + 1] = s[j]
      /\ \A f, l \in Nat : f + l <= k =>
           Fields!Slice(b, f + 1, l) = Part(s, f, f + l)
  BY ExactSpk
<1>3. q = b
  BY WholeSpk
<1>4. r = IF k \notin HashSize + 2..LongHashSize + 2 THEN Fields!None
          ELSE IF k = HashSize + 5 /\ four = u /\ finish = w
          THEN Fields!Kind("PKH", Fields!Slice(b, 4, HashSize))
          ELSE IF k = HashSize + 3 /\ start = v /\ b[k + 1] = OP_EQUAL
          THEN Fields!Kind("SH", Fields!Slice(b, 3, HashSize))
          ELSE IF /\ b[2] = 0 /\ k \in {HashSize + 2, LongHashSize + 2}
                  /\ b[3] = k - 2
          THEN Fields!Kind(IF b[3] = LongHashSize THEN "WSH" ELSE "WPKH",
                           Fields!Slice(b, 3, b[3]))
          ELSE Fields!None
  BY <1>3 DEF Fields!SolHash
<1>5. CASE k \notin HashSize + 2..LongHashSize + 2
  <2>1. r = Fields!None
    BY <1>4, <1>5
  <2> HIDE DEF k
  <2>2. k # HashSize + 2 /\ k # LongHashSize + 2 /\ k # HashSize + 5
        /\ k # HashSize + 3
    BY <1>1, <1>2, <1>5
  <2> QED BY <2>1, <2>2 DEF Formless, ToWitness, ToKey, ToScript, k
<1>6. CASE k \in HashSize + 2..LongHashSize + 2
  <2> HIDE DEF b, k
  <2>1. k >= 3 /\ 1 \in 1..k /\ 2 \in 1..k /\ 3 \in 1..k
        /\ 1 + 1 = 2 /\ 2 + 1 = 3 /\ 3 + 1 = 4
    BY <1>1, <1>2, <1>6
  <2>2. s[1] = b[2] /\ s[2] = b[3] /\ s[3] = b[4]
    <3>1. b[1 + 1] = s[1] /\ b[2 + 1] = s[2] /\ b[3 + 1] = s[3]
      BY <1>2, <2>1
    <3> QED BY <2>1, <3>1
  <2>3. start = v <=> k = HashSize + 3 /\ b[2] = OP_HASH160 /\ b[3] = HashSize
    <3>1. b \in Seq(Bytes) /\ 3 <= Len(b) /\ b[1] = k
      BY <1>2, <2>1
    <3>2. \A x, y, z : Fields!Slice(b, 0, 3) = <<x, y, z>> <=>
                         b[1] = x /\ b[2] = y /\ b[3] = z
      BY ONLY <3>1, SliceThree
    <3> QED BY <3>1, <3>2, Zenon DEF start, v
  <2>4. four = u <=>
          k = HashSize + 5 /\ b[2] = OP_DUP /\ b[3] = OP_HASH160
            /\ b[4] = HashSize
    <3>1. b \in Seq(Bytes) /\ 4 <= Len(b) /\ b[1] = k
      BY <1>2, <2>1
    <3>3. Fields!Slice(b, 0, 4) = <<HashSize + 5, OP_DUP, OP_HASH160, HashSize>>
            <=> /\ b[1] = HashSize + 5 /\ b[2] = OP_DUP
                /\ b[3] = OP_HASH160 /\ b[4] = HashSize
      BY ONLY <3>1, SliceFour
    <3>4. four = u
            <=> /\ b[1] = HashSize + 5 /\ b[2] = OP_DUP
                /\ b[3] = OP_HASH160 /\ b[4] = HashSize
      BY <3>3, Zenon DEF four, u
    <3> HIDE DEF four, u
    <3> QED BY <3>1, <3>4
  <2>5. finish = w <=> b[k] = OP_EQUALVERIFY /\ b[k + 1] = OP_CHECKSIG
    <3> DEFINE f == k + 1 - 2
    <3>1. b \in Seq(Bytes) /\ f \in Nat /\ f + 2 <= Len(b)
          /\ f + 1 = k /\ f + 2 = k + 1
      BY <1>2, <2>1
    <3> HIDE DEF f
    <3>2. \A x, y : Fields!Slice(b, f, 2) = <<x, y>> <=>
                      b[f + 1] = x /\ b[f + 2] = y
      BY ONLY <3>1, SliceTwo
    <3>3. finish = Fields!Slice(b, f, 2)
      BY DEF finish, f
    <3> HIDE DEF finish
    <3> QED BY <3>1, <3>2, <3>3, Zenon DEF w
  <2> HIDE DEF r, start, four, finish, u, v, w
  <2>6. ToKey(s) <=> k = HashSize + 5 /\ four = u /\ finish = w
    <3>1. CASE k # HashSize + 5
      BY <3>1 DEF ToKey, k
    <3>2. CASE k = HashSize + 5
      <4>1. /\ HashSize + 4 \in 1..k /\ HashSize + 4 + 1 = k
            /\ HashSize + 5 \in 1..k /\ HashSize + 5 + 1 = k + 1
        <5>1. HashSize \in Nat /\ k \in Nat
          BY <1>1, <1>2
        <5> QED BY ONLY <3>2, <5>1
      <4>2. /\ b[HashSize + 4 + 1] = s[HashSize + 4]
            /\ b[HashSize + 5 + 1] = s[HashSize + 5]
        BY <1>2, <4>1
      <4>3. b[k] = s[HashSize + 4] /\ b[k + 1] = s[HashSize + 5]
        BY <4>1, <4>2
      <4> QED BY <2>2, <2>4, <2>5, <3>2, <4>3 DEF ToKey, k
    <3> QED BY <3>1, <3>2
  <2>7. ToScript(s) <=> k = HashSize + 3 /\ start = v /\ b[k + 1] = OP_EQUAL
    <3>1. CASE k # HashSize + 3
      BY <3>1 DEF ToScript, k
    <3>2. CASE k = HashSize + 3
      <4>1. HashSize + 3 \in 1..k /\ HashSize + 3 + 1 = k + 1
        BY <1>1, <1>2, <3>2
      <4>2. b[HashSize + 3 + 1] = s[HashSize + 3]
        BY <1>2, <4>1
      <4>3. b[k + 1] = s[HashSize + 3]
        BY <4>1, <4>2
      <4> QED BY <2>2, <2>3, <3>2, <4>3 DEF ToScript, k
    <3> QED BY <3>1, <3>2
  <2>8. CASE ToKey(s)
    <3>1. r = Fields!Kind("PKH", Fields!Slice(b, 4, HashSize))
      BY <1>4, <1>6, <2>6, <2>8
    <3>2. 3 \in Nat /\ HashSize \in Nat /\ 3 + HashSize <= k /\ 3 + 1 = 4
      BY <1>1, <2>6, <2>8
    <3>3. Fields!Slice(b, 3 + 1, HashSize) = Part(s, 3, 3 + HashSize)
      BY <1>2, <3>2
    <3>4. r = Fields!Kind("PKH", Part(s, 3, 3 + HashSize))
      BY <3>1, <3>2, <3>3
    <3>5. Paid(Fields!Kind("PKH", Part(s, 3, 3 + HashSize)))
      BY <2>8, HashPaid
    <3>6. Paid(r)
      BY <3>4, <3>5
    <3> QED BY <3>6 DEF r
  <2>9. CASE ToScript(s) /\ ~ToKey(s)
    <3>1. r = Fields!Kind("SH", Fields!Slice(b, 3, HashSize))
      BY <1>4, <1>6, <2>6, <2>7, <2>9
    <3>2. 2 \in Nat /\ HashSize \in Nat /\ 2 + HashSize <= k /\ 2 + 1 = 3
      BY <1>1, <2>7, <2>9
    <3>3. Fields!Slice(b, 2 + 1, HashSize) = Part(s, 2, 2 + HashSize)
      BY <1>2, <3>2
    <3>4. r = Fields!Kind("SH", Part(s, 2, 2 + HashSize))
      BY <3>1, <3>2, <3>3
    <3>5. Paid(Fields!Kind("SH", Part(s, 2, 2 + HashSize)))
      BY <2>9, HashPaid
    <3>6. Paid(r)
      BY <3>4, <3>5
    <3> QED BY <3>6 DEF r
  <2>10. CASE ~ToKey(s) /\ ~ToScript(s)
    <3> DEFINE program == /\ b[2] = 0 /\ k \in {HashSize + 2, LongHashSize + 2}
                          /\ b[3] = k - 2
               l == b[3]
    <3>1. r = IF program
              THEN Fields!Kind(IF l = LongHashSize THEN "WSH" ELSE "WPKH",
                               Fields!Slice(b, 3, l))
              ELSE Fields!None
      BY <1>4, <1>6, <2>6, <2>7, <2>10
    <3>2. program <=> ToWitness(s, HashSize) \/ ToWitness(s, LongHashSize)
      <4>1. ASSUME NEW j \in {HashSize, LongHashSize}
            PROVE  ToWitness(s, j) <=> k = j + 2 /\ b[2] = 0 /\ b[3] = j
        BY <2>2 DEF ToWitness, k
      <4>2. /\ k = HashSize + 2 <=> k - 2 = HashSize
            /\ k = LongHashSize + 2 <=> k - 2 = LongHashSize
        <5>1. k \in Nat /\ HashSize \in Nat /\ LongHashSize \in Nat
          BY <1>1, <1>2
        <5> QED BY ONLY <5>1
      <4> QED BY <4>1, <4>2
    <3>3. program => l \in {HashSize, LongHashSize} /\ k = l + 2 /\ l \in Nat
      BY <1>1, <1>2
    <3>4. program => ToWitness(s, l)
      BY <1>1, <1>2, <2>2, <3>3 DEF ToWitness, k
    <3> HIDE DEF program, l
    <3>5. CASE ~program
      <4>1. r = Fields!None /\ Formless(s)
        BY <2>10, <3>1, <3>2, <3>5 DEF Formless
      <4> QED BY <4>1 DEF r
    <3>6. CASE program
      <4>1. 2 \in Nat /\ l \in Nat /\ 2 + l <= k /\ 2 + 1 = 3
        BY <3>3, <3>6
      <4>2. Fields!Slice(b, 2 + 1, l) = Part(s, 2, 2 + l)
        BY <1>2, <4>1
      <4>3. r = Fields!Kind(IF l = LongHashSize THEN "WSH" ELSE "WPKH",
                            Part(s, 2, 2 + l))
        BY <3>1, <3>6, <4>1, <4>2
      <4>4. ASSUME l = LongHashSize PROVE Paid(r)
        <5>1. /\ ToWitness(s, LongHashSize)
              /\ r = Fields!Kind("WSH", Part(s, 2, 2 + LongHashSize))
          BY <3>4, <3>6, <4>3, <4>4
        <5>2. Paid(Fields!Kind("WSH", Part(s, 2, 2 + LongHashSize)))
          BY <5>1, HashPaid
        <5> QED BY <5>1, <5>2
      <4>5. ASSUME l = HashSize, l # LongHashSize PROVE Paid(r)
        <5>1. /\ ToWitness(s, HashSize)
              /\ r = Fields!Kind("WPKH", Part(s, 2, 2 + HashSize))
          BY <3>4, <3>6, <4>3, <4>5
        <5>2. Paid(Fields!Kind("WPKH", Part(s, 2, 2 + HashSize)))
          BY <5>1, HashPaid
        <5> QED BY <5>1, <5>2
      <4>6. Paid(r)
        BY <3>3, <3>6, <4>4, <4>5
      <4> QED BY <4>6 DEF r
    <3> QED BY <3>5, <3>6
  <2> QED BY <2>8, <2>9, <2>10
<1> QED BY <1>5, <1>6

LEMMA SolHashed ==
  ASSUME FieldsAssumption, OutputParts
  PROVE  LET r == Fields!SolHash
         IN  \/ r = Fields!None /\ Fields!PaysNothing
             \/ /\ r = Fields!Fault /\ Fields!PaysNothing
                /\ \/ Fields!NotShortest
                   \/ Fields!Number(Fields!spk, 0) > Len(parts.script)
             \/ Paid(r)
<1> DEFINE s == parts.script  k == Len(s)  b == Fields!spk  r == Fields!SolHash
<1>1. /\ HashSize \in Nat \ {0} /\ LongHashSize \in Nat
      /\ HashSize + 3 < LongHashSize /\ LongHashSize + 2 < Wide
      /\ Base \in Nat /\ Wide \in 1..Base - 1 /\ OP_DUP # 0 /\ OP_HASH160 # 0
  BY FieldSizes
<1>2. CASE /\ ~Exact /\ Fields!SolViewed
           /\ Fields!SolBody \in {0} \cup {j \in Nat : j >= Wide}
  <2> DEFINE x == Fields!SolBody
  <2>1. x = 0 \/ (x \in Nat /\ x >= Wide)
    BY <1>2
  <2> HIDE DEF x
  <2>2. x \notin HashSize + 2..LongHashSize + 2
    BY <1>1, <2>1
  <2>3. r = Fields!None
    BY <1>2, <2>2 DEF Fields!SolHash, x
  <2> QED BY <1>2, <2>3, NothingPaid
<1>3. CASE /\ ~Exact /\ ~Fields!SolViewed
           /\ Fields!NotShortest \/ Fields!Number(Fields!spk, 0) > k
  BY <1>3, NothingPaid DEF Fields!SolHash
<1>4. CASE /\ Exact /\ Fields!SolBody = k /\ Fields!SolLength = k + 1
           /\ Fields!SolViewed
  BY <1>4, SolExact, NothingPaid
<1> QED BY <1>2, <1>3, <1>4, SolReads

(* What the hash functions may refuse with a panic or a revert.            *)
Refusable ==
  \/ port \in {"go", "rust"} /\ Len(Fields!spk) < 3
  \/ port = "rust" /\ parts.script[2] >= Base - 2
  \/ /\ port = "sol"
     /\ Fields!NotShortest \/ Fields!Number(Fields!spk, 0) > Len(parts.script)

LEMMA HashRead ==
  ASSUME FieldsAssumption, port \in Impls, OutputParts,
         NEW r \in Fields!HashResults
  PROVE  \/ r = Fields!None /\ Fields!PaysNothing
         \/ r = Fields!Fault /\ Fields!PaysNothing /\ Refusable
         \/ Paid(r)
<1>1. port \in {"c", "go", "js", "rust", "sol"}
  BY DEF FieldsAssumption, Fields!ImplAssumption
<1>2. Len(Fields!spk) \in Nat
  BY SpkLaid
<1>3. Len(Fields!spk) >= 3 <=> ~(Len(Fields!spk) < 3)
  BY <1>2
<1>4. CASE port \in {"c", "js"}
  <2>1. r = Fields!CJsHash
    BY <1>4 DEF Fields!HashResults
  <2>2. CASE Fields!LengthMatches /\ ~(Len(Fields!spk) < 3)
    BY <1>3, <2>1, <2>2, Matching DEF Fields!CJsHash
  <2>3. CASE ~Fields!LengthMatches \/ Len(Fields!spk) < 3
    BY <1>3, <2>1, <2>3, Unmatched DEF Fields!CJsHash
  <2> QED BY <2>2, <2>3
<1>5. CASE port = "go"
  <2>1. r = Fields!GoHash
    BY <1>5 DEF Fields!HashResults
  <2>2. CASE Fields!LengthMatches /\ ~(Len(Fields!spk) < 3)
    BY <2>1, <2>2, Matching DEF Fields!GoHash
  <2>3. CASE ~Fields!LengthMatches \/ Len(Fields!spk) < 3
    BY <1>5, <2>1, <2>3, Unmatched DEF Fields!GoHash, Refusable
  <2> QED BY <2>2, <2>3
<1>6. CASE port = "rust"
  <2>1. r \in Fields!RustHash
    BY <1>6 DEF Fields!HashResults
  <2>2. CASE Fields!LengthMatches /\ ~(Len(Fields!spk) < 3)
    <3>1. \/ r = Fields!HashOfMatching
          \/ /\ r = Fields!Fault /\ Fields!spk[2] = 0
             /\ Fields!spk[3] + 2 >= Base
      BY <2>1, <2>2 DEF Fields!RustHash
    <3>2. CASE r = Fields!HashOfMatching
      BY <2>2, <3>2, Matching
    <3>3. CASE /\ r = Fields!Fault /\ Fields!spk[2] = 0
               /\ Fields!spk[3] + 2 >= Base
      BY <1>6, <2>2, <3>3, LongPush DEF Refusable
    <3> QED BY <3>1, <3>2, <3>3
  <2>3. CASE ~Fields!LengthMatches \/ Len(Fields!spk) < 3
    <3>1. r = Fields!None \/ (r = Fields!Fault /\ Len(Fields!spk) < 3)
      BY <2>1, <2>3 DEF Fields!RustHash
    <3> QED BY <1>6, <2>3, <3>1, Unmatched DEF Refusable
  <2> QED BY <2>2, <2>3
<1>7. CASE port = "sol"
  <2>1. r = Fields!SolHash
    BY <1>7 DEF Fields!HashResults
  <2> QED BY <1>7, <2>1, SolHashed DEF Refusable
<1> QED BY <1>1, <1>4, <1>5, <1>6, <1>7

LEMMA HashIsExact ==
  ASSUME FieldsAssumption, FInv
  PROVE  Fields!HashExact
<1> SUFFICES ASSUME called = "hash"
             PROVE  CASE returned.how = "none" -> Fields!PaysNothing
                      [] returned.how = "fault" -> Fields!PaysNothing /\ Refusable
                      [] returned.how = "data" ->
                           \E k \in {"WPKH", "WSH", "PKH", "SH"} :
                             Fields!Pays(k, returned.val)
                      [] OTHER -> Fields!Pays(returned.how, returned.val)
  BY DEF Fields!HashExact, Refusable
<1>1. /\ port \in Impls /\ parts \in Elements /\ ~Fields!IsInput
      /\ returned \in Fields!HashResults
  BY DEF FInv
<1>2. OutputParts
  BY <1>1, OutputGiven DEF OutputParts
<1>3. \/ returned = Fields!None /\ Fields!PaysNothing
      \/ returned = Fields!Fault /\ Fields!PaysNothing /\ Refusable
      \/ Paid(returned)
  BY <1>1, <1>2, HashRead
<1>4. CASE returned = Fields!None /\ Fields!PaysNothing
  BY <1>4 DEF Fields!None
<1>5. CASE returned = Fields!Fault /\ Fields!PaysNothing /\ Refusable
  BY <1>5 DEF Fields!Fault
<1>6. CASE Paid(returned)
  <2>0. PICK k \in {"WPKH", "WSH", "PKH", "SH"} :
          \E h : Fields!Pays(k, h) /\ returned = Fields!Kind(k, h)
    BY <1>6 DEF Paid
  <2>1. PICK h : Fields!Pays(k, h) /\ returned = Fields!Kind(k, h)
    BY <2>0
  <2>2. /\ returned.val = h
        /\ returned.how = k \/ returned.how = "data"
    BY <2>1 DEF Fields!Kind
  <2> QED BY <2>1, <2>2
<1> QED BY <1>3, <1>4, <1>5, <1>6

(***************************************************************************)
(* What is pushed behind an OP_RETURN.                                     *)
(***************************************************************************)
LEMMA IsOne ==
  ASSUME NEW t \in Seq(Bytes), Len(t) = 1
  PROVE  t = <<t[1]>>
<1> DEFINE a == t[1]  u == <<a>>
<1>1. 1 \in 1..1
  OBVIOUS
<1>2. a \in Bytes
  BY <1>1
<1> HIDE DEF a
<1>3. u \in Seq(Bytes) /\ Len(u) = 1 /\ u[1] = a
  BY <1>2
<1> HIDE DEF u
<1>4. \A k \in 1..1 : k = 1
  OBVIOUS
<1>5. \A k \in 1..Len(t) : t[k] = u[k]
  BY <1>3, <1>4 DEF a
<1>6. t = u
  BY <1>3, <1>5, SeqEqual
<1> QED BY <1>6 DEF u, a

LEMMA PushedIs ==
  ASSUME FieldsAssumption, OutputParts, NEW d
  PROVE  LET s == parts.script
         IN  d \in Fields!Pushed <=>
               /\ Len(s) >= 2 /\ s[1] = OP_RETURN /\ s[2] <= MaxPush
               /\ 2 + s[2] <= Len(s) /\ d = Part(s, 2, 2 + s[2])
<1> DEFINE s == parts.script  k == Len(s)
<1>1. s \in Seq(Bytes) /\ k \in Nat
  BY DEF OutputParts
<1>2. /\ MaxPush \in 0..Base - 1 /\ Base \in Nat /\ OP_RETURN \in Bytes
  BY CompactAssumption, Opcodes DEF FieldsAssumption, Fields!SizeAssumption
<1>3. ASSUME NEW l \in 0..k - 2, d = Fields!Slice(s, 2, l), Fields!Pushes(d)
      PROVE  /\ k >= 2 /\ s[1] = OP_RETURN /\ s[2] = l /\ l <= MaxPush
             /\ 2 + l <= k /\ d = Part(s, 2, 2 + l)
  <2>1. l \in Nat /\ 2 + l \in Nat /\ 2 + l <= k /\ k >= 2
    BY <1>1, <1>3
  <2>2. d = Part(s, 2, 2 + l) /\ d \in Seq(Bytes) /\ Len(d) = l
    BY <1>1, <1>3, <2>1, SliceIs
  <2>3. l <= MaxPush /\ Part(s, 0, 0 + (2 + l)) = <<OP_RETURN, l>> \o d
    BY <1>3, <2>2 DEF Fields!Pushes, Part
  <2> DEFINE a == <<OP_RETURN, l>>  t == Part(s, 0, 0 + (2 + l))
  <2>4. l \in Bytes
    BY <1>2, <2>1, <2>3 DEF Bytes
  <2>5. a \in Seq(Bytes) /\ Len(a) = 2 /\ a[1] = OP_RETURN /\ a[2] = l
    BY <1>2, <2>4
  <2>6. t = a \o d
    BY <2>3
  <2>7. t \in Seq(Bytes) /\ Len(t) = 2 + l /\ Lies(t, s, 0)
    <3>1. s \in Seq(Bytes) /\ 0 \in Nat /\ 2 + l \in Nat /\ 0 + (2 + l) <= Len(s)
      BY <1>1, <2>1
    <3> QED BY ONLY <3>1, Taken
  <2> HIDE DEF a, t, k, s
  <2>8. \A j \in 1..Len(a) : t[j] = a[j]
    BY <2>2, <2>5, <2>6, Joined
  <2>9. /\ 1 \in 1..Len(a) /\ 2 \in 1..Len(a)
        /\ 1 \in 1..Len(t) /\ 2 \in 1..Len(t) /\ 0 + 1 = 1 /\ 0 + 2 = 2
    BY <2>1, <2>5, <2>7
  <2>10. s[1] = t[1] /\ s[2] = t[2]
    <3>1. s[0 + 1] = t[1] /\ s[0 + 2] = t[2]
      BY <2>7, <2>9 DEF Lies
    <3> QED BY <2>9, <3>1
  <2>11. t[1] = a[1] /\ t[2] = a[2]
    BY <2>8, <2>9
  <2> QED BY <2>1, <2>2, <2>3, <2>5, <2>10, <2>11
<1>4. ASSUME k >= 2, s[1] = OP_RETURN, s[2] <= MaxPush, 2 + s[2] <= k,
             d = Part(s, 2, 2 + s[2])
      PROVE  d \in Fields!Pushed
  <2> DEFINE l == s[2]
  <2>1. 2 \in 1..k
    BY <1>1, <1>4
  <2>2. l \in Bytes
    BY <1>1, <2>1
  <2>3. l \in Nat /\ 2 + l \in Nat /\ 2 + l <= k /\ l \in 0..k - 2
        /\ s[1] = OP_RETURN /\ l <= MaxPush
    <3>1. l \in Nat /\ 2 + l <= k /\ k \in Nat
      BY <1>1, <1>2, <1>4, <2>2 DEF Bytes
    <3> HIDE DEF l, k
    <3>2. 2 + l \in Nat /\ l \in 0..k - 2
      BY ONLY <3>1
    <3> QED BY <1>4, <3>1, <3>2 DEF l
  <2>4. d = Part(s, 2, 2 + l)
    BY <1>4
  <2>5. s[2] = l
    OBVIOUS
  <2> HIDE DEF l
  <2>6. d \in Seq(Bytes) /\ Len(d) = l /\ Lies(d, s, 2)
    <3>1. s \in Seq(Bytes) /\ 2 \in Nat /\ l \in Nat /\ 2 + l <= Len(s)
      BY <1>1, <2>3
    <3>2. /\ Part(s, 2, 2 + l) \in Seq(Bytes) /\ Len(Part(s, 2, 2 + l)) = l
          /\ Lies(Part(s, 2, 2 + l), s, 2)
      BY ONLY <3>1, Taken
    <3> QED BY <2>4, <3>2
  <2>7. d = Fields!Slice(s, 2, l)
    BY <2>4 DEF Part, Fields!Slice
  <2> DEFINE a == <<OP_RETURN, l>>  t == Part(s, 0, 0 + (2 + l))
  <2>8. a \in Seq(Bytes) /\ Len(a) = 2 /\ a[1] = OP_RETURN /\ a[2] = l
    BY <1>2, <2>2
  <2>9. t \in Seq(Bytes) /\ Len(t) = 2 + l /\ Lies(t, s, 0)
    <3>1. s \in Seq(Bytes) /\ 0 \in Nat /\ 2 + l \in Nat /\ 0 + (2 + l) <= Len(s)
      BY <1>1, <2>3
    <3> QED BY ONLY <3>1, Taken
  <2>10. t = SubSeq(s, 1, 2 + l)
    BY <2>3 DEF Part
  <2> HIDE DEF a, t, k, s
  <2>11. Lies(a, t, 0)
    <3>1. /\ 1 \in 1..Len(t) /\ 2 \in 1..Len(t) /\ 0 + 1 = 1 /\ 0 + 2 = 2
      BY <2>3, <2>9
    <3>2. s[0 + 1] = t[1] /\ s[0 + 2] = t[2]
      BY <2>9, <3>1 DEF Lies
    <3>3. Lies(a, t, 0) <=> t[0 + 1] = a[1] /\ t[0 + 2] = a[2]
      BY <2>8, LiesTwo
    <3> QED BY <2>3, <2>5, <2>8, <3>1, <3>2, <3>3
  <2>12. Lies(d, t, 2)
    <3> SUFFICES ASSUME NEW j \in 1..Len(d) PROVE t[2 + j] = d[j]
      BY DEF Lies
    <3> DEFINE m == 2 + j
    <3>1. m \in 1..Len(t) /\ 0 + m = m
      BY <2>3, <2>6, <2>9
    <3>2. s[m] = d[j]
      BY <2>6 DEF Lies
    <3> HIDE DEF m
    <3>3. s[0 + m] = t[m]
      BY <2>9, <3>1 DEF Lies
    <3>4. t[m] = d[j]
      BY <3>1, <3>2, <3>3
    <3> QED BY <3>4 DEF m
  <2>13. Len(t) = Len(a) + Len(d) /\ Lies(d, t, Len(a))
    BY <2>6, <2>8, <2>9, <2>12
  <2>14. t = a \o d
    BY ONLY <2>6, <2>8, <2>9, <2>11, <2>13, Composed
  <2>15. Fields!Pushes(d)
    BY <2>3, <2>6, <2>10, <2>14 DEF Fields!Pushes, a, k, s
  <2> QED BY <2>3, <2>7, <2>15 DEF Fields!Pushed, k, s
<1>5. ASSUME d \in Fields!Pushed
      PROVE  \E l \in 0..k - 2 : d = Fields!Slice(s, 2, l) /\ Fields!Pushes(d)
  BY <1>5 DEF Fields!Pushed
<1> QED BY <1>3, <1>4, <1>5

(* A result of OP_RETURN that DataExact allows.                            *)
DataGood(r) ==
  \/ /\ r.how = "data"
     /\ \/ r.val \in Fields!Pushed
        \/ port = "js" /\ parts.script = <<OP_RETURN>>
        \/ port # "sol" /\ parts.script[2] > MaxPush
  \/ /\ r.how = "none"
     /\ \A d \in Fields!Pushed :
          \/ port = "js" /\ d = <<>>
          \/ /\ port = "sol"
             /\ Len(d) < 2 \/ Len(parts.script) # 2 + Len(d)
  \/ /\ r.how = "fault"
     /\ \/ port \in {"go", "rust"} /\ parts.script \in {<<>>, <<OP_RETURN>>}
        \/ port = "sol" /\ Len(parts.script) < 2

LEMMA PushedGood ==
  ASSUME FieldsAssumption, OutputParts, Exact, Len(parts.script) >= 2,
         port # "sol"
  PROVE  DataGood(Fields!PushedData)
<1> DEFINE s == parts.script  k == Len(s)  b == Fields!spk
           r == Fields!PushedData  l == s[2]
<1>1. /\ s \in Seq(Bytes) /\ MaxPush \in Nat /\ Base \in Nat
  BY FieldSizes DEF OutputParts
<1>2. /\ Len(b) = k + 1 /\ k \in Nat /\ \A j \in 1..k : b[j + 1] = s[j]
      /\ \A f, m \in Nat : f + m <= k =>
           Fields!Slice(b, f + 1, m) = Part(s, f, f + m)
  BY ExactSpk
<1>3. r = IF b[2] # OP_RETURN \/ b[3] + 3 > Len(b) THEN Fields!None
          ELSE Fields!Data(Fields!Slice(b, 3, b[3]))
  BY DEF Fields!PushedData
<1> HIDE DEF b, k, r
<1>4. 1 \in 1..k /\ 2 \in 1..k /\ 1 + 1 = 2 /\ 2 + 1 = 3 /\ k >= 2
  BY <1>2 DEF k
<1>5. b[2] = s[1] /\ b[3] = l
  <2>1. b[1 + 1] = s[1] /\ b[2 + 1] = s[2]
    BY <1>2, <1>4
  <2> QED BY <1>4, <2>1
<1>6. l \in Bytes
  BY <1>1, <1>4 DEF k
<1> HIDE DEF l
<1>7. l \in Nat
  BY <1>1, <1>6 DEF Bytes
<1>8. CASE s[1] # OP_RETURN \/ 2 + l > k
  <2>1. r = Fields!None
    <3>1. b[2] # OP_RETURN \/ b[3] + 3 > Len(b)
      BY <1>2, <1>5, <1>7, <1>8
    <3> QED BY <1>3, <3>1
  <2>2. \A d \in Fields!Pushed : FALSE
    <3> SUFFICES ASSUME NEW d \in Fields!Pushed PROVE FALSE
      OBVIOUS
    <3>1. s[1] = OP_RETURN /\ 2 + l <= k
      BY PushedIs DEF k, l
    <3> QED BY <1>2, <1>7, <1>8, <3>1
  <2>3. r.how = "none"
    BY <2>1 DEF Fields!None
  <2> QED BY <2>2, <2>3 DEF DataGood, r
<1>9. CASE s[1] = OP_RETURN /\ ~(2 + l > k)
  <2>1. 2 + l <= k /\ ~(b[3] + 3 > Len(b))
    BY <1>2, <1>5, <1>7, <1>9
  <2>2. r = Fields!Data(Fields!Slice(b, 2 + 1, l))
    BY <1>3, <1>4, <1>5, <1>9, <2>1
  <2>3. Fields!Slice(b, 2 + 1, l) = Part(s, 2, 2 + l)
    BY <1>2, <1>7, <2>1
  <2>4. r.how = "data" /\ r.val = Part(s, 2, 2 + l)
    BY <2>2, <2>3 DEF Fields!Data
  <2>5. CASE l > MaxPush
    BY <2>4, <2>5 DEF DataGood, r, l
  <2>6. CASE ~(l > MaxPush)
    <3>1. l <= MaxPush
      BY <1>1, <1>7, <2>6
    <3>2. Part(s, 2, 2 + l) \in Fields!Pushed
      BY <1>4, <1>9, <2>1, <3>1, PushedIs DEF k, l
    <3> QED BY <2>4, <3>2 DEF DataGood, r
  <2> QED BY <2>5, <2>6
<1> QED BY <1>8, <1>9

LEMMA NoRoom ==
  ASSUME FieldsAssumption, OutputParts, Len(parts.script) < 2
  PROVE  Fields!Pushed = {}
<1> SUFFICES ASSUME NEW d \in Fields!Pushed PROVE FALSE
  OBVIOUS
<1>1. Len(parts.script) >= 2
  BY PushedIs
<1> DEFINE k == Len(parts.script)
<1>2. k \in Nat /\ k >= 2 /\ k < 2
  BY <1>1 DEF OutputParts
<1> HIDE DEF k
<1> QED BY <1>2

LEMMA DataRead ==
  ASSUME FieldsAssumption, port \in Impls, OutputParts, Exact
  PROVE  DataGood(Fields!OpReturn)
<1> DEFINE s == parts.script  k == Len(s)  b == Fields!spk
           r == Fields!OpReturn
<1>1. port \in {"c", "go", "js", "rust", "sol"}
  BY DEF FieldsAssumption, Fields!ImplAssumption
<1>2. s \in Seq(Bytes) /\ MaxPush \in Nat /\ Base \in Nat /\ Wide \in 1..Base - 1
  BY FieldSizes DEF OutputParts
<1>3. /\ b \in Seq(Bytes) /\ Len(b) = k + 1 /\ b[1] = k /\ k \in Nat
      /\ k < Wide /\ \A j \in 1..k : b[j + 1] = s[j]
      /\ \A f, m \in Nat : f + m <= k =>
           Fields!Slice(b, f + 1, m) = Part(s, f, f + m)
  BY ExactSpk
<1>4. k = 0 => s = <<>>
  BY <1>2
<1>5. k = 1 /\ s[1] = OP_RETURN => s = <<OP_RETURN>>
  BY <1>2, IsOne
<1>6. k < 2 => Fields!Pushed = {}
  BY NoRoom
<1>7. k >= 2 /\ port # "sol" => DataGood(Fields!PushedData)
  BY PushedGood
<1>none. /\ Fields!Pushed = {} => DataGood(Fields!None)
         /\ Fields!None.how = "none" /\ Fields!Fault.how = "fault"
         /\ \A v : Fields!Data(v).how = "data" /\ Fields!Data(v).val = v
  BY DEF DataGood, Fields!None, Fields!Fault, Fields!Data
<1>8. CASE port \in {"c", "js", "go", "rust"}
  <2> HIDE DEF b, k
  <2>1. /\ Len(b) < 3 <=> k < 2
        /\ Len(b) = 1 <=> k = 0
        /\ Len(b) = 2 <=> k = 1
        /\ Len(b) > 2 <=> k >= 2
        /\ k = 0 \/ k = 1 \/ k >= 2
        /\ k = 0 => ~(k >= 2) /\ k # 1 /\ k < 2
        /\ k = 1 => ~(k >= 2) /\ k < 2
        /\ k >= 2 => k # 0 /\ k # 1 /\ ~(k < 2)
    BY <1>3
  <2>2. k >= 1 => b[2] = s[1]
    <3> SUFFICES ASSUME k >= 1 PROVE b[2] = s[1]
      OBVIOUS
    <3>1. 1 \in 1..k /\ 1 + 1 = 2
      BY <1>3
    <3>2. b[1 + 1] = s[1]
      BY <1>3, <3>1
    <3> QED BY <3>1, <3>2
  <2>3. k = 1 => b[2] = s[1]
    BY <2>2
  <2>4. CASE port = "c"
    <3>1. r = IF Len(b) < 3 THEN Fields!None ELSE Fields!PushedData
      BY <2>4 DEF Fields!OpReturn, Fields!COpReturn, b
    <3> HIDE DEF r
    <3>2. DataGood(r)
      BY <1>6, <1>7, <1>none, <2>1, <2>4, <3>1
    <3> QED BY <3>2 DEF r
  <2>5. CASE port = "js"
    <3>1. r = CASE Len(b) = 1 -> Fields!None
                [] Len(b) = 2 -> IF b[2] = OP_RETURN THEN Fields!Data(<<>>)
                                 ELSE Fields!None
                [] Len(b) > 2 -> IF b[3] = 0 THEN Fields!None
                                 ELSE Fields!PushedData
      BY <2>5 DEF Fields!OpReturn, Fields!JsOpReturn, b
    <3> HIDE DEF r
    <3>2. CASE k = 0
      <4>1. r = Fields!None
        BY <2>1, <3>1, <3>2
      <4>2. DataGood(r)
        BY <1>6, <1>none, <2>1, <3>2, <4>1
      <4> QED BY <4>2 DEF r
    <3>3. CASE k = 1
      <4>1. r = IF b[2] = OP_RETURN THEN Fields!Data(<<>>) ELSE Fields!None
        BY <2>1, <3>1, <3>3
      <4>2. CASE s[1] = OP_RETURN
        <5>1. r.how = "data" /\ s = <<OP_RETURN>>
          BY <1>5, <1>none, <2>3, <3>3, <4>1, <4>2
        <5>2. DataGood(r)
          BY <2>5, <5>1 DEF DataGood
        <5> QED BY <5>2 DEF r
      <4>3. CASE s[1] # OP_RETURN
        <5>1. r = Fields!None
          BY <2>3, <3>3, <4>1, <4>3
        <5>2. DataGood(r)
          BY <1>6, <1>none, <2>1, <3>3, <5>1
        <5> QED BY <5>2 DEF r
      <4> QED BY <4>2, <4>3
    <3>4. CASE k >= 2
      <4>1. r = IF b[3] = 0 THEN Fields!None ELSE Fields!PushedData
        BY <2>1, <3>1, <3>4
      <4>2. CASE b[3] = 0
        <5>1. r.how = "none"
          BY <1>none, <4>1, <4>2
        <5>2. s[2] = 0
          <6>1. 2 \in 1..k /\ 2 + 1 = 3
            BY <1>3, <3>4
          <6>2. b[2 + 1] = s[2]
            BY <1>3, <6>1
          <6> QED BY <4>2, <6>1, <6>2
        <5>3. ASSUME NEW d \in Fields!Pushed PROVE d = <<>>
          <6>1. d = Part(s, 2, 2 + 0)
            BY <5>2, PushedIs
          <6>2. s \in Seq(Bytes) /\ 2 \in Nat /\ 0 \in Nat /\ 2 + 0 <= Len(s)
            BY <1>2, <3>4 DEF k
          <6>3. Part(s, 2, 2 + 0) \in Seq(Bytes) /\ Len(Part(s, 2, 2 + 0)) = 0
            BY ONLY <6>2, Taken
          <6>4. d \in Seq(Bytes) /\ Len(d) = 0
            BY <6>1, <6>3
          <6> QED BY <6>4
        <5>4. DataGood(r)
          BY <2>5, <5>1, <5>3 DEF DataGood
        <5> QED BY <5>4 DEF r
      <4>3. CASE b[3] # 0
        BY <1>7, <2>5, <3>4, <4>1, <4>3 DEF r
      <4> QED BY <4>2, <4>3
    <3> QED BY <2>1, <3>2, <3>3, <3>4
  <2>6. CASE port \in {"go", "rust"}
    <3>1. r = CASE Len(b) = 1 -> Fields!Fault
                [] Len(b) = 2 -> IF b[2] = OP_RETURN THEN Fields!Fault
                                 ELSE Fields!None
                [] Len(b) > 2 -> Fields!PushedData
      BY <2>6 DEF Fields!OpReturn, Fields!GoRustOpReturn, b
    <3> HIDE DEF r
    <3>2. CASE k = 0
      <4>1. r = Fields!Fault
        BY <2>1, <3>1, <3>2
      <4>2. r.how = "fault" /\ s = <<>>
        BY <1>4, <1>none, <3>2, <4>1
      <4>3. DataGood(r)
        BY <2>6, <4>2 DEF DataGood
      <4> QED BY <4>3 DEF r
    <3>3. CASE k = 1
      <4>1. r = IF b[2] = OP_RETURN THEN Fields!Fault ELSE Fields!None
        BY <2>1, <3>1, <3>3
      <4>2. CASE s[1] = OP_RETURN
        <5>1. r.how = "fault" /\ s = <<OP_RETURN>>
          BY <1>5, <1>none, <2>3, <3>3, <4>1, <4>2
        <5>2. DataGood(r)
          BY <2>6, <5>1 DEF DataGood
        <5> QED BY <5>2 DEF r
      <4>3. CASE s[1] # OP_RETURN
        <5>1. r = Fields!None
          BY <2>3, <3>3, <4>1, <4>3
        <5>2. DataGood(r)
          BY <1>6, <1>none, <2>1, <3>3, <5>1
        <5> QED BY <5>2 DEF r
      <4> QED BY <4>2, <4>3
    <3>4. CASE k >= 2
      <4>1. r = Fields!PushedData
        BY <2>1, <3>1, <3>4
      <4> QED BY <1>7, <2>6, <3>4, <4>1 DEF r
    <3> QED BY <2>1, <3>2, <3>3, <3>4
  <2> QED BY <1>8, <2>4, <2>5, <2>6
<1>9. CASE port = "sol"
  <2>1. r = Fields!SolOpReturn
    BY <1>9 DEF Fields!OpReturn
  <2>2. /\ Fields!SolBody = k /\ Fields!SolLength = k + 1 /\ Fields!SolViewed
    BY <1>9, SolExactReads
  <2>3. CASE k < 2
    <3>1. Fields!SolLength < 3
      <4> HIDE DEF k
      <4> QED BY <1>3, <2>2, <2>3
    <3>2. r.how = "fault"
      BY <1>none, <2>1, <3>1 DEF Fields!SolOpReturn
    <3> QED BY <1>9, <2>3, <3>2 DEF DataGood
  <2>4. CASE ~(k < 2)
    <3>1. Fields!solSpk = b
      BY <2>2, WholeSpk
    <3>2. ~(Fields!SolLength < 3) /\ k >= 2
      <4> HIDE DEF k
      <4> QED BY <1>3, <2>2, <2>4
    <3>3. r = IF \/ k > MaxPush + 2 \/ k < 4
                 \/ b[2] # OP_RETURN \/ b[3] # k - 2
              THEN Fields!None ELSE Fields!Data(Fields!Slice(b, 3, b[3]))
      BY <2>1, <2>2, <3>1, <3>2 DEF Fields!SolOpReturn
    <3> HIDE DEF r, b, k
    <3>4. b[2] = s[1] /\ b[3] = s[2] /\ s[2] \in Bytes
      <4>1. 1 \in 1..k /\ 2 \in 1..k /\ 1 + 1 = 2 /\ 2 + 1 = 3
        BY <1>3, <3>2
      <4>2. b[1 + 1] = s[1] /\ b[2 + 1] = s[2]
        BY <1>3, <4>1
      <4>3. s[2] \in Bytes
        BY <1>2, <4>1 DEF k
      <4> QED BY <4>1, <4>2, <4>3
    <3> DEFINE l == s[2]
    <3>5. l \in Nat
      BY <1>2, <3>4 DEF Bytes
    <3> HIDE DEF l
    <3>6. CASE k > MaxPush + 2 \/ k < 4 \/ s[1] # OP_RETURN \/ l # k - 2
      <4>1. r.how = "none"
        BY <1>none, <3>3, <3>4, <3>6 DEF l
      <4>2. ASSUME NEW d \in Fields!Pushed
            PROVE  Len(d) < 2 \/ k # 2 + Len(d)
        <5>1. s[1] = OP_RETURN /\ l <= MaxPush /\ 2 + l <= k
              /\ d = Part(s, 2, 2 + l)
          BY PushedIs DEF k, l
        <5>2. Len(Part(s, 2, 2 + l)) = l
          <6>1. s \in Seq(Bytes) /\ 2 \in Nat /\ l \in Nat /\ 2 + l <= Len(s)
            BY <1>2, <3>5, <5>1 DEF k
          <6> QED BY ONLY <6>1, Taken
        <5>3. Len(d) = l
          BY <5>1, <5>2
        <5> QED BY <1>2, <1>3, <3>5, <3>6, <5>1, <5>3
      <4>3. DataGood(r)
        BY <1>9, <4>1, <4>2 DEF DataGood, k
      <4> QED BY <4>3 DEF r
    <3>7. CASE /\ ~(k > MaxPush + 2) /\ ~(k < 4)
               /\ s[1] = OP_RETURN /\ l = k - 2
      <4>1. l <= MaxPush /\ 2 + l <= k /\ 2 + l = k /\ 2 \in Nat /\ 2 + 1 = 3
        BY <1>2, <1>3, <3>5, <3>7
      <4>2. r = Fields!Data(Fields!Slice(b, 3, l))
        BY <3>3, <3>4, <3>7 DEF l
      <4>3. Fields!Slice(b, 2 + 1, l) = Part(s, 2, 2 + l)
        BY <1>3, <3>5, <4>1
      <4>4. r.how = "data" /\ r.val = Part(s, 2, 2 + l)
        BY <1>none, <4>1, <4>2, <4>3
      <4>5. Part(s, 2, 2 + l) \in Fields!Pushed
        BY <3>2, <3>7, <4>1, PushedIs DEF k, l
      <4>6. DataGood(r)
        BY <4>4, <4>5 DEF DataGood
      <4> QED BY <4>6 DEF r
    <3> QED BY <3>6, <3>7
  <2> QED BY <2>3, <2>4
<1> QED BY <1>1, <1>8, <1>9

LEMMA DataIsExact ==
  ASSUME FieldsAssumption, FInv
  PROVE  Fields!DataExact
<1> SUFFICES ASSUME called = "op_return",
                    parts.code = <<Len(parts.script)>>
             PROVE  Fields!DataExact
  BY DEF Fields!DataExact
<1>1. /\ port \in Impls /\ parts \in Elements /\ ~Fields!IsInput
      /\ returned = Fields!OpReturn
  BY DEF FInv
<1>2. OutputParts
  BY <1>1, OutputGiven DEF OutputParts
<1>3. Exact
  BY <1>2, ExactCode
<1>4. DataGood(returned)
  BY <1>1, <1>2, <1>3, DataRead
<1> QED BY <1>4 DEF DataGood, Fields!DataExact

LEMMA SameOutputFields ==
  Fields!OutputFieldsExact <=> OutputFieldsExact
<1>1. \A k, h, s : Fields!IsHash(k, h, s) <=> IsHash(k, h, s)
  BY DEF Fields!IsHash, IsHash
<1>2. \A k, h : Fields!Pays(k, h) <=> Pays(k, h)
  BY <1>1 DEF Fields!Pays, Pays
<1>3. Fields!PaysNothing <=> PaysNothing
  BY <1>2, SameParts DEF Fields!PaysNothing, PaysNothing
<1>4. Fields!HashExact <=> HashExact
  BY <1>2, <1>3, SameParts, SameInFields DEF Fields!HashExact, HashExact
<1>5. \A d : Fields!Pushes(d) <=> Pushes(d)
  BY DEF Fields!Pushes, Pushes
<1>6. Fields!Pushed = Pushed
  BY <1>5, SameParts DEF Fields!Pushed, Pushed
<1>7. Fields!DataExact <=> DataExact
  BY <1>6 DEF Fields!DataExact, DataExact
<1> QED BY <1>4, <1>7 DEF Fields!OutputFieldsExact, OutputFieldsExact

(* The hash and the data of an output are exactly what its script holds:   *)
(* extract_hash, extract_op_return_data and Solidity's payload.            *)
THEOREM OutputsAreExact ==
  ASSUME FieldsAssumption
  PROVE  Fields!Spec => []OutputFieldsExact
<1>1. Fields!Init => FInv
  BY DEF Fields!Init, FInv
<1>2. FInv /\ [Fields!Next]_(Fields!vars) => FInv'
  BY FieldsNext
<1>3. FInv => OutputFieldsExact
  BY HashIsExact, DataIsExact, SameOutputFields DEF Fields!OutputFieldsExact
<1> QED BY <1>1, <1>2, <1>3, PTL DEF Fields!Spec

=============================================================================
