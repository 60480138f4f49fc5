------------------------- MODULE BcoinClientProofs -------------------------
(***************************************************************************)
(* What the client fetches is what it is taken for, whatever tree of       *)
(* blocks the node's chain wanders in, however often it reorganises, and   *)
(* for every transaction and every number of headers.                      *)
(*                                                                         *)
(* First what parseTxHex and the validation of the parts compute from any  *)
(* transaction at all, then the invariant of the calls.                    *)
(***************************************************************************)
EXTENDS BcoinClient, SequenceTheorems, WellFoundedInduction, TLAPS

(***************************************************************************)
(* The bytes of a transaction.                                             *)
(***************************************************************************)
(* s is in w, from offset o on. *)
Lies(s, w, o) ==
  /\ o + Len(s) <= Len(w)
  /\ \A k \in 1..Len(s) : w[o + k] = s[k]

LEMMA ElementParts ==
  ASSUME NEW kind \in Kinds, NEW e \in Elements(kind)
  PROVE  /\ e.before \in Seq(Nat) /\ e.script \in Seq(Nat)
         /\ e.after \in Seq(Nat)
         /\ Len(e.before) = Before[kind] /\ Len(e.after) = After[kind]
         /\ Before[kind] \in Nat /\ After[kind] \in Nat
         /\ Len(e.script) \in Nat
  <1>1. Byte \subseteq Nat
    BY CompactAssumption DEF Byte
  <1>2. /\ e.before \in Seq(Byte) /\ e.script \in Seq(Byte)
        /\ e.after \in Seq(Byte)
        /\ Len(e.before) = Before[kind] /\ Len(e.after) = After[kind]
    BY DEF Elements
  <1>3. Before[kind] \in Nat /\ After[kind] \in Nat
    BY ElementAssumption DEF Kinds
  <1>4. /\ e.before \in Seq(Nat) /\ e.script \in Seq(Nat)
        /\ e.after \in Seq(Nat)
    BY <1>1, <1>2, SeqMonotonic
  <1>5. QED
    BY <1>2, <1>3, <1>4

LEMMA CountedType ==
  ASSUME NEW n \in Nat
  PROVE  /\ Counted(n) \in Seq(Nat)
         /\ Len(Counted(n)) = IF n < Wide THEN 1 ELSE 3
  <1>1. Wide \in Nat /\ n % Base \in Nat /\ n \div Base \in Nat
    BY CompactAssumption
  <1>2. QED
    BY <1>1 DEF Counted

(* The bytes of two parts one behind the other are those of the first and, *)
(* behind it, of the second.                                               *)
LEMMA LiesConcat ==
  ASSUME NEW s \in Seq(Nat), NEW t \in Seq(Nat), NEW w \in Seq(Nat),
         NEW o \in Nat, Lies(s \o t, w, o)
  PROVE  Lies(s, w, o) /\ Lies(t, w, o + Len(s))
  <1>1. /\ Len(s) \in Nat /\ Len(t) \in Nat /\ Len(w) \in Nat
        /\ Len(s \o t) = Len(s) + Len(t)
        /\ \A k \in 1..Len(s) + Len(t) :
             (s \o t)[k] = IF k <= Len(s) THEN s[k] ELSE t[k - Len(s)]
    BY ConcatProperties, LenProperties
  <1>2. /\ o + (Len(s) + Len(t)) <= Len(w)
        /\ \A k \in 1..Len(s) + Len(t) : w[o + k] = (s \o t)[k]
    BY <1>1 DEF Lies
  <1>3. Lies(s, w, o)
    <2>1. ASSUME NEW k \in 1..Len(s) PROVE w[o + k] = s[k]
      <3>1. k \in 1..Len(s) + Len(t) /\ k <= Len(s)
        BY <1>1
      <3>2. QED
        BY <1>1, <1>2, <3>1
    <2>2. o + Len(s) <= Len(w)
      BY <1>1, <1>2
    <2>3. QED
      BY <2>1, <2>2 DEF Lies
  <1>4. ASSUME NEW k \in 1..Len(t) PROVE w[(o + Len(s)) + k] = t[k]
    <2>1. /\ Len(s) + k \in 1..Len(s) + Len(t) /\ ~(Len(s) + k <= Len(s))
          /\ (Len(s) + k) - Len(s) = k /\ o + (Len(s) + k) = (o + Len(s)) + k
      BY <1>1
    <2>2. QED
      BY <1>1, <1>2, <2>1
  <1>5. QED
    BY <1>1, <1>2, <1>3, <1>4 DEF Lies

(* A compact integer is read as what was written, also out of a part b of  *)
(* the bytes w, unless b ends before it does.                              *)
LEMMA CountedIsRead ==
  ASSUME NEW n \in Nat, NEW w \in Seq(Nat), NEW b \in Seq(Nat),
         NEW v \in Nat, NEW o \in Nat,
         Lies(b, w, v), Lies(Counted(n), w, v + o),
         ParseOutcome("js", b, o) = "ok"
  PROVE  Number(b, o) = n /\ SerializedLength("js", b, o) = Len(Counted(n))
  <1>1. /\ Len(b) \in Nat /\ Len(w) \in Nat /\ Wide \in Nat
        /\ \A k \in 1..Len(b) : w[v + k] = b[k]
    <2>1. \A k \in 1..Len(b) : w[v + k] = b[k]
      BY ONLY Lies(b, w, v), Zenon DEF Lies
    <2>2. QED
      BY <2>1, CompactAssumption
  <1>2. o < Len(b) /\ (IsWide(b, o) => o + 2 < Len(b))
    BY <1>1 DEF ParseOutcome, DataLength
  <1>3. b[o + 1] = w[(v + o) + 1]
    <2>1. o + 1 \in 1..Len(b) /\ v + (o + 1) = (v + o) + 1
      BY <1>1, <1>2
    <2>2. QED
      BY <1>1, <2>1, SMTT(30)
  <1>4. CASE n < Wide
    <2>1. Counted(n) = <<n>> /\ Len(Counted(n)) = 1
      BY <1>4 DEF Counted
    <2>2. w[(v + o) + 1] = n
      BY <2>1 DEF Lies
    <2>3. QED
      BY <1>1, <1>3, <1>4, <2>1, <2>2 DEF Number, IsWide, SerializedLength
  <1>5. CASE ~(n < Wide)
    <2>1. /\ Counted(n) = <<Wide, n % Base, n \div Base>>
          /\ Len(Counted(n)) = 3
      BY <1>5 DEF Counted
    <2>2. /\ w[(v + o) + 1] = Wide /\ w[(v + o) + 2] = n % Base
          /\ w[(v + o) + 3] = n \div Base
      <3>1. \A k \in 1..Len(Counted(n)) : w[(v + o) + k] = Counted(n)[k]
        BY ONLY Lies(Counted(n), w, v + o), Zenon DEF Lies
      <3>2. /\ 1 \in 1..Len(Counted(n)) /\ 2 \in 1..Len(Counted(n))
            /\ 3 \in 1..Len(Counted(n))
        BY ONLY <2>1
      <3>3. /\ Counted(n)[1] = Wide /\ Counted(n)[2] = n % Base
            /\ Counted(n)[3] = n \div Base
        BY ONLY <2>1
      <3>4. QED
        BY ONLY <3>1, <3>2, <3>3
    <2>3. IsWide(b, o) /\ o + 2 < Len(b)
      <3>1. b[o + 1] = Wide
        BY ONLY <1>3, <2>2
      <3>2. Wide >= Wide
        BY ONLY CompactAssumption
      <3>3. IsWide(b, o)
        BY ONLY <3>1, <3>2 DEF IsWide
      <3> QED BY ONLY <1>2, <3>3
    <2>4. b[o + 2] = n % Base /\ b[o + 3] = n \div Base
      <3>1. o + 2 \in 1..Len(b) /\ o + 3 \in 1..Len(b)
        BY ONLY <1>1, <2>3, o \in Nat
      <3>2. v + (o + 2) = (v + o) + 2 /\ v + (o + 3) = (v + o) + 3
        OBVIOUS
      <3>3. QED
        BY <1>1, <2>2, <3>1, <3>2
    <2>5. (n % Base) + Base * (n \div Base) = n
      BY CompactAssumption
    <2>6. QED
      BY <2>1, <2>3, <2>4, <2>5
      DEF Number, Payload, SerializedLength, DataLength
  <1>6. QED
    BY <1>4, <1>5

LEMMA LiesInItself ==
  ASSUME NEW b \in Seq(Nat)
  PROVE  Lies(b, b, 0)
  BY DEF Lies

(* One that is wholly there is found. *)
LEMMA CountedIsFound ==
  ASSUME NEW n \in Nat, NEW b \in Seq(Nat), NEW o \in Nat,
         Lies(Counted(n), b, o)
  PROVE  o < Len(b) /\ ParseOutcome("js", b, o) = "ok"
  <1>1. /\ Len(b) \in Nat /\ Wide \in Nat
        /\ Len(Counted(n)) = IF n < Wide THEN 1 ELSE 3
    BY CompactAssumption, CountedType
  <1>2. /\ o + Len(Counted(n)) <= Len(b)
        /\ \A k \in 1..Len(Counted(n)) : b[o + k] = Counted(n)[k]
    BY DEF Lies
  <1>3. b[o + 1] = IF n < Wide THEN n ELSE Wide
    <2>1. Counted(n)[1] = IF n < Wide THEN n ELSE Wide
      BY DEF Counted
    <2>2. QED
      BY <1>1, <1>2, <2>1
  <1>4. QED
    BY <1>1, <1>2, <1>3 DEF ParseOutcome, IsWide, DataLength

(* Where the parts of an element are. *)
LEMMA ElementLies ==
  ASSUME NEW kind \in Kinds, NEW e \in Elements(kind)
  PROVE  /\ Element(e) \in Seq(Nat)
         /\ Len(Element(e)) = Before[kind] + Len(Counted(Len(e.script)))
                                + Len(e.script) + After[kind]
         /\ \A w \in Seq(Nat), o \in Nat :
              Lies(Element(e), w, o) =>
                Lies(Counted(Len(e.script)), w, o + Before[kind])
  <1> DEFINE c == Counted(Len(e.script))
             x == e.before \o c
             y == x \o e.script
  <1>1. /\ e.before \in Seq(Nat) /\ e.script \in Seq(Nat)
        /\ e.after \in Seq(Nat) /\ c \in Seq(Nat)
        /\ Len(e.before) = Before[kind] /\ Len(e.after) = After[kind]
        /\ Before[kind] \in Nat /\ After[kind] \in Nat
        /\ Len(e.script) \in Nat /\ Len(c) \in Nat
    <2>1. /\ e.before \in Seq(Nat) /\ e.script \in Seq(Nat)
          /\ e.after \in Seq(Nat) /\ Len(e.script) \in Nat
          /\ Len(e.before) = Before[kind] /\ Len(e.after) = After[kind]
          /\ Before[kind] \in Nat /\ After[kind] \in Nat
      BY ElementParts
    <2>2. c \in Seq(Nat)
      BY <2>1, CountedType
    <2>3. Len(c) \in Nat
      BY ONLY <2>2, LenProperties
    <2>4. QED
      BY <2>1, <2>2, <2>3
  <1>2. Element(e) = y \o e.after
    BY DEF Element
  <1> HIDE DEF c
  <1>3. x \in Seq(Nat) /\ Len(x) = Before[kind] + Len(c)
    BY <1>1, ConcatProperties
  <1>4. ASSUME NEW w \in Seq(Nat), NEW o \in Nat, Lies(x, w, o)
        PROVE  Lies(c, w, o + Before[kind])
    BY <1>1, <1>4, LiesConcat
  <1> HIDE DEF x
  <1>5. y \in Seq(Nat) /\ Len(y) = Len(x) + Len(e.script)
    BY <1>1, <1>3, ConcatProperties
  <1>6. ASSUME NEW w \in Seq(Nat), NEW o \in Nat, Lies(y, w, o)
        PROVE  Lies(x, w, o)
    BY <1>1, <1>3, <1>6, LiesConcat
  <1> HIDE DEF y
  <1>7. /\ y \o e.after \in Seq(Nat)
        /\ Len(y \o e.after) = Len(y) + After[kind]
    <2>1. /\ y \o e.after \in Seq(Nat)
          /\ Len(y \o e.after) = Len(y) + Len(e.after)
      BY ONLY <1>1, <1>5, ConcatProperties, Zenon
    <2>2. QED
      BY <1>1, <2>1
  <1>8. ASSUME NEW w \in Seq(Nat), NEW o \in Nat, Lies(y \o e.after, w, o)
        PROVE  Lies(y, w, o)
    BY <1>1, <1>5, <1>8, LiesConcat
  <1>9. /\ Element(e) \in Seq(Nat)
        /\ Len(Element(e)) = Before[kind] + Len(c) + Len(e.script) + After[kind]
    BY <1>1, <1>2, <1>3, <1>5, <1>7
  <1>10. ASSUME NEW w \in Seq(Nat), NEW o \in Nat, Lies(Element(e), w, o)
         PROVE  Lies(c, w, o + Before[kind])
    BY <1>2, <1>4, <1>6, <1>8, <1>10
  <1>11. QED
    BY <1>9, <1>10 DEF c

LEMMA ElementIsPassed ==
  ASSUME NEW kind \in Kinds, NEW e \in Elements(kind),
         NEW w \in Seq(Nat), NEW b \in Seq(Nat), NEW v \in Nat, NEW o \in Nat,
         Lies(b, w, v), Lies(Element(e), w, v + o),
         ElementOutcome("js", kind, b, o) = "ok"
  PROVE  ElementLength("js", kind, b, o) = Len(Element(e))
  <1> DEFINE L == Len(e.script)
             m == o + Before[kind]
  <1>1. Before[kind] \in Nat /\ After[kind] \in Nat /\ L \in Nat /\ m \in Nat
    BY ElementParts
  <1>2. ParseOutcome("js", b, m) = "ok"
    BY DEF ElementOutcome
  <1>3. v + o \in Nat /\ (v + o) + Before[kind] = v + m
    BY <1>1
  <1>4. Lies(Counted(L), w, v + m)
    BY <1>3, ElementLies
  <1>5. Number(b, m) = L /\ SerializedLength("js", b, m) = Len(Counted(L))
    BY <1>1, <1>2, <1>4, CountedIsRead, SMTT(30)
  <1>6. QED
    BY <1>5, ElementLies DEF ElementLength

LEMMA ElementIsFound ==
  ASSUME NEW kind \in Kinds, NEW e \in Elements(kind),
         NEW b \in Seq(Nat), NEW o \in Nat, Lies(Element(e), b, o)
  PROVE  /\ o < Len(b) /\ ElementOutcome("js", kind, b, o) = "ok"
         /\ ElementLength("js", kind, b, o) = Len(Element(e))
  <1> DEFINE L == Len(e.script)
             m == o + Before[kind]
  <1>1. /\ Before[kind] \in Nat /\ After[kind] \in Nat /\ L \in Nat /\ m \in Nat
        /\ Len(b) \in Nat
    BY ElementParts
  <1>2. m < Len(b) /\ ParseOutcome("js", b, m) = "ok"
    BY <1>1, ElementLies, CountedIsFound
  <1>3. o < Len(b) /\ ElementOutcome("js", kind, b, o) = "ok"
    BY <1>1, <1>2 DEF ElementOutcome
  <1>4. QED
    <2>1. Lies(b, b, 0) /\ 0 + o = o
      BY LiesInItself
    <2>2. QED
      BY <1>3, <2>1, ElementIsPassed

(***************************************************************************)
(* The three recursive functions.                                          *)
(***************************************************************************)
LEMMA SetInduction ==
  ASSUME NEW S, 0 \in S, \A n \in Nat : n \in S => n + 1 \in S
  PROVE  Nat \subseteq S
  <1> DEFINE T == Nat \ S
  <1>1. SUFFICES ASSUME T # {} PROVE FALSE
    OBVIOUS
  <1>2. PICK m \in T : \A y \in T : ~ (<<y, m>> \in OpToRel(<, Nat))
    BY <1>1, NatLessThanWellFounded, WFMin
  <1>3. \A y \in T : ~ (y < m)
    BY <1>2 DEF OpToRel
  <1>4. m \in Nat /\ m # 0 /\ m \notin S
    OBVIOUS
  <1>5. m - 1 \in Nat /\ m - 1 < m /\ (m - 1) + 1 = m
    BY <1>4
  <1>6. m - 1 \in S
    BY <1>3, <1>5
  <1>7. QED
    BY <1>4, <1>5, <1>6

LEMMA JoinedDefined ==
  ASSUME NEW es, Len(es) \in Nat
  PROVE  Joined(es) =
           [k \in 0..Len(es) |->
              IF k = 0 THEN Counted(Len(es))
              ELSE Joined(es)[k - 1] \o Element(es[k])]
  <1> DEFINE Fits(f, m) ==
               f = [k \in 0..m |-> IF k = 0 THEN Counted(Len(es))
                                   ELSE f[k - 1] \o Element(es[k])]
             S == {m \in Nat : \E f : Fits(f, m)}
  <1>1. 0 \in S
    <2> DEFINE f == [k \in 0..0 |-> Counted(Len(es))]
    <2>1. Fits(f, 0)
      OBVIOUS
    <2>2. QED
      BY <2>1
  <1>2. ASSUME NEW n \in Nat, NEW f, Fits(f, n)
        PROVE  \E g : Fits(g, n + 1)
    <2> DEFINE g == [k \in 0..n + 1 |->
                     IF k = 0 THEN Counted(Len(es))
                     ELSE f[k - 1] \o Element(es[k])]
    <2>1. \A k \in 0..n : g[k] = f[k]
      BY <1>2
    <2>2. \A k \in 0..n + 1 :
            (IF k = 0 THEN Counted(Len(es)) ELSE f[k - 1] \o Element(es[k]))
              = (IF k = 0 THEN Counted(Len(es)) ELSE g[k - 1] \o Element(es[k]))
      <3> HIDE DEF g
      <3>1. \A k \in 0..n + 1 : k # 0 => k - 1 \in 0..n
        OBVIOUS
      <3>2. \A k \in 0..n + 1 : k # 0 => f[k - 1] = g[k - 1]
        BY <2>1, <3>1
      <3>3. QED
        BY <3>2
    <2>3. Fits(g, n + 1)
      BY <2>2, Zenon
    <2>4. QED
      BY <2>3
  <1> HIDE DEF Fits
  <1>3. \A n \in Nat : n \in S => n + 1 \in S
    BY <1>2
  <1> HIDE DEF S
  <1>4. Len(es) \in S
    BY <1>1, <1>3, SetInduction
  <1>5. \E f : Fits(f, Len(es))
    BY <1>4 DEF S
  <1>6. QED
    BY <1>5 DEF Joined, Fits

LEMMA WalkDefined ==
  ASSUME NEW kind, NEW b, Number(b, 0) \in Nat
  PROVE  Walk(kind, b) =
           [k \in 0..Number(b, 0) |->
              IF k = 0 THEN SerializedLength("js", b, 0)
              ELSE Ends(kind, b)[Walk(kind, b)[k - 1]]]
  <1> DEFINE Fits(f, m) ==
               f = [k \in 0..m |-> IF k = 0 THEN SerializedLength("js", b, 0)
                                   ELSE Ends(kind, b)[f[k - 1]]]
             S == {m \in Nat : \E f : Fits(f, m)}
  <1>1. 0 \in S
    <2> DEFINE f == [k \in 0..0 |-> SerializedLength("js", b, 0)]
    <2>1. Fits(f, 0)
      OBVIOUS
    <2>2. QED
      BY <2>1
  <1>2. ASSUME NEW n \in Nat, NEW f, Fits(f, n)
        PROVE  \E g : Fits(g, n + 1)
    <2> DEFINE g == [k \in 0..n + 1 |->
                     IF k = 0 THEN SerializedLength("js", b, 0)
                     ELSE Ends(kind, b)[f[k - 1]]]
    <2>1. \A k \in 0..n : g[k] = f[k]
      BY <1>2
    <2>2. \A k \in 0..n + 1 : k # 0 => f[k - 1] = g[k - 1]
      <3> HIDE DEF g
      <3>1. \A k \in 0..n + 1 : k # 0 => k - 1 \in 0..n
        OBVIOUS
      <3>2. QED
        BY <2>1, <3>1
    <2>3. \A k \in 0..n + 1 :
            (IF k = 0 THEN SerializedLength("js", b, 0) ELSE Ends(kind, b)[f[k - 1]])
              = (IF k = 0 THEN SerializedLength("js", b, 0) ELSE Ends(kind, b)[g[k - 1]])
      <3> HIDE DEF g
      <3>1. QED
        BY <2>2
    <2>4. Fits(g, n + 1)
      BY <2>3, Zenon
    <2>5. QED
      BY <2>4
  <1> HIDE DEF Fits
  <1>3. \A n \in Nat : n \in S => n + 1 \in S
    BY <1>2
  <1> HIDE DEF S
  <1>4. Number(b, 0) \in S
    BY <1>1, <1>3, SetInduction
  <1>5. \E f : Fits(f, Number(b, 0))
    BY <1>4 DEF S
  <1>6. QED
    BY <1>5 DEF Walk, Fits

LEMMA AfterDefined ==
  ASSUME NEW kind, NEW raw, NEW o, Small(raw, o) \in Nat
  PROVE  AfterElements(kind, raw, o) =
           [k \in 0..Small(raw, o) |->
              IF k = 0 THEN o + 1
              ELSE (AfterElements(kind, raw, o)[k - 1] + Before[kind]) + 1
                     + Small(raw, AfterElements(kind, raw, o)[k - 1] + Before[kind])
                     + After[kind]]
  <1> DEFINE Fits(f, m) ==
               f = [k \in 0..m |->
                      IF k = 0 THEN o + 1
                      ELSE (f[k - 1] + Before[kind]) + 1
                             + Small(raw, f[k - 1] + Before[kind]) + After[kind]]
             S == {m \in Nat : \E f : Fits(f, m)}
  <1>1. 0 \in S
    <2> DEFINE f == [k \in 0..0 |-> o + 1]
    <2>1. Fits(f, 0)
      OBVIOUS
    <2>2. QED
      BY <2>1
  <1>2. ASSUME NEW n \in Nat, NEW f, Fits(f, n)
        PROVE  \E g : Fits(g, n + 1)
    <2> DEFINE g == [k \in 0..n + 1 |->
                     IF k = 0 THEN o + 1
                     ELSE (f[k - 1] + Before[kind]) + 1
                            + Small(raw, f[k - 1] + Before[kind]) + After[kind]]
    <2>1. \A k \in 0..n : g[k] = f[k]
      BY <1>2
    <2>2. \A k \in 0..n + 1 : k # 0 => f[k - 1] = g[k - 1]
      <3> HIDE DEF g
      <3>1. \A k \in 0..n + 1 : k # 0 => k - 1 \in 0..n
        OBVIOUS
      <3>2. QED
        BY <2>1, <3>1
    <2>3. \A k \in 0..n + 1 :
            (IF k = 0 THEN o + 1 ELSE (f[k - 1] + Before[kind]) + 1
                    + Small(raw, f[k - 1] + Before[kind]) + After[kind])
              = (IF k = 0 THEN o + 1 ELSE (g[k - 1] + Before[kind]) + 1
                    + Small(raw, g[k - 1] + Before[kind]) + After[kind])
      <3> HIDE DEF g
      <3>1. QED
        BY <2>2
    <2>4. Fits(g, n + 1)
      BY <2>3, Zenon
    <2>5. QED
      BY <2>4
  <1> HIDE DEF Fits
  <1>3. \A n \in Nat : n \in S => n + 1 \in S
    BY <1>2
  <1> HIDE DEF S
  <1>4. Small(raw, o) \in S
    BY <1>1, <1>3, SetInduction
  <1>5. \E f : Fits(f, Small(raw, o))
    BY <1>4 DEF S
  <1>6. QED
    BY <1>5 DEF AfterElements, Fits

LEMMA JoinedValues ==
  ASSUME NEW kind \in Kinds, NEW es \in Seq(Elements(kind))
  PROVE  /\ Len(es) \in Nat
         /\ Joined(es)[0] = Counted(Len(es))
         /\ \A k \in 1..Len(es) :
              /\ es[k] \in Elements(kind)
              /\ Joined(es)[k] = Joined(es)[k - 1] \o Element(es[k])
         /\ \A k \in 0..Len(es) : Joined(es)[k] \in Seq(Nat)
  <1>1. Len(es) \in Nat /\ \A k \in 1..Len(es) : es[k] \in Elements(kind)
    OBVIOUS
  <1> DEFINE j == Joined(es)
             c == Counted(Len(es))
             n == Len(es)
  <1>2. j = [k \in 0..n |-> IF k = 0 THEN c ELSE j[k - 1] \o Element(es[k])]
    BY <1>1, JoinedDefined
  <1>3. c \in Seq(Nat)
    BY <1>1, CountedType
  <1> HIDE DEF j, c, n
  <1>4. j[0] = c /\ \A k \in 1..n : j[k] = j[k - 1] \o Element(es[k])
    <2>1. 0 \in 0..n /\ \A k \in 1..n : k \in 0..n /\ k # 0
      BY <1>1 DEF n
    <2>2. QED
      BY <1>2, <2>1, Zenon
  <1> DEFINE S == {k \in Nat : k <= n => j[k] \in Seq(Nat)}
  <1>5. 0 \in S
    BY <1>3, <1>4
  <1>6. ASSUME NEW k \in Nat, k \in S
        PROVE  k + 1 \in S
    <2> SUFFICES ASSUME k + 1 <= n PROVE j[k + 1] \in Seq(Nat)
      OBVIOUS
    <2>1. k + 1 \in 1..n /\ (k + 1) - 1 = k /\ k <= n
      BY <1>1 DEF n
    <2>2. j[k] \in Seq(Nat)
      BY <1>6, <2>1
    <2>3. Element(es[k + 1]) \in Seq(Nat)
      BY <1>1, <2>1, ElementLies DEF n
    <2>4. j[k + 1] = j[k] \o Element(es[k + 1])
      BY <1>4, <2>1
    <2>5. j[k] \o Element(es[k + 1]) \in Seq(Nat)
      BY ONLY <2>2, <2>3, ConcatProperties, Zenon
    <2>6. QED
      BY <2>4, <2>5
  <1> HIDE DEF S
  <1>7. Nat \subseteq S
    BY <1>5, <1>6, SetInduction
  <1>8. \A k \in 0..n : j[k] \in Seq(Nat)
    BY <1>1, <1>7 DEF S, n
  <1>9. QED
    BY <1>1, <1>4, <1>8 DEF j, c, n

(* The elements lie one behind the other in the vector, wherever that is. *)
LEMMA JoinedLies ==
  ASSUME NEW kind \in Kinds, NEW es \in Seq(Elements(kind)),
         NEW w \in Seq(Nat), NEW o \in Nat, Lies(Vector(es), w, o)
  PROVE  /\ Lies(Counted(Len(es)), w, o)
         /\ \A k \in 1..Len(es) :
              Lies(Element(es[k]), w, o + Len(Joined(es)[k - 1]))
  <1> DEFINE j == Joined(es)
             n == Len(es)
             S == {m \in Nat : m <= n => Lies(j[n - m], w, o)}
  <1>1. /\ n \in Nat /\ j[0] = Counted(n)
        /\ \A k \in 1..n : /\ j[k] = j[k - 1] \o Element(es[k])
                           /\ Element(es[k]) \in Seq(Nat)
        /\ \A k \in 0..n : j[k] \in Seq(Nat)
    BY JoinedValues, ElementLies
  <1>2. Lies(j[n], w, o)
    BY DEF Vector
  <1> HIDE DEF j, n
  <1>3. 0 \in S
    <2>1. n - 0 = n
      BY <1>1
    <2>2. QED
      BY <1>2, <2>1
  <1>4. ASSUME NEW k \in 1..n, Lies(j[k], w, o)
        PROVE  /\ Lies(j[k - 1], w, o)
               /\ Lies(Element(es[k]), w, o + Len(j[k - 1]))
    <2>1. j[k - 1] \in Seq(Nat)
      <3>1. k - 1 \in 0..n
        BY <1>1
      <3>2. QED
        BY <1>1, <3>1
    <2>2. QED
      BY <1>1, <1>4, <2>1, LiesConcat, ZenonT(30)
  <1>5. ASSUME NEW m \in Nat, m \in S
        PROVE  m + 1 \in S
    <2> SUFFICES ASSUME m + 1 <= n PROVE Lies(j[n - (m + 1)], w, o)
      OBVIOUS
    <2>1. n - m \in 1..n /\ n - (m + 1) = (n - m) - 1 /\ m <= n
      BY <1>1
    <2>2. Lies(j[n - m], w, o)
      BY <1>5, <2>1
    <2>3. QED
      BY <1>4, <2>1, <2>2
  <1> HIDE DEF S
  <1>6. Nat \subseteq S
    BY <1>3, <1>5, SetInduction
  <1>7. ASSUME NEW k \in 0..n PROVE Lies(j[k], w, o)
    <2>1. n - k \in Nat /\ n - k <= n /\ n - (n - k) = k
      BY <1>1
    <2>2. n - k \in S
      BY <1>6, <2>1
    <2>3. Lies(j[n - (n - k)], w, o)
      BY <2>1, <2>2 DEF S
    <2>4. QED
      BY <2>1, <2>3
  <1>8. Lies(Counted(n), w, o)
    BY <1>1, <1>7
  <1>9. ASSUME NEW k \in 1..n
        PROVE  Lies(Element(es[k]), w, o + Len(j[k - 1]))
    BY <1>1, <1>4, <1>7
  <1>10. QED
    BY <1>8, <1>9 DEF j, n

(* How long they are. *)
LEMMA JoinedLength ==
  ASSUME NEW kind \in Kinds, NEW es \in Seq(Elements(kind))
  PROVE  /\ Vector(es) \in Seq(Nat) /\ Len(es) \in Nat
         /\ Len(Joined(es)[0]) = Len(Counted(Len(es)))
         /\ \A k \in 0..Len(es) : Len(Joined(es)[k]) \in Nat
         /\ \A k \in 1..Len(es) :
              /\ es[k] \in Elements(kind)
              /\ Len(Joined(es)[k]) = Len(Joined(es)[k - 1]) + Len(Element(es[k]))
              /\ Len(Element(es[k])) \in Nat
         /\ Len(Joined(es)[Len(es)]) = Len(Vector(es))
  <1>1. ASSUME NEW k \in 1..Len(es)
        PROVE  /\ es[k] \in Elements(kind)
               /\ Len(Joined(es)[k]) = Len(Joined(es)[k - 1]) + Len(Element(es[k]))
               /\ Len(Element(es[k])) \in Nat
    <2>1. /\ Joined(es)[k] = Joined(es)[k - 1] \o Element(es[k])
          /\ es[k] \in Elements(kind)
      BY JoinedValues
    <2>2. k - 1 \in 0..Len(es)
      BY JoinedValues
    <2>3. Joined(es)[k - 1] \in Seq(Nat) /\ Element(es[k]) \in Seq(Nat)
      BY <2>1, <2>2, JoinedValues, ElementLies
    <2>4. Len(Joined(es)[k]) = Len(Joined(es)[k - 1]) + Len(Element(es[k]))
      BY ONLY <2>1, <2>3, ConcatProperties, Zenon
    <2>5. QED
      BY <2>1, <2>3, <2>4, LenProperties
  <1>2. Len(es) \in 0..Len(es)
    BY JoinedValues
  <1>3. QED
    BY <1>1, <1>2, JoinedValues, LenProperties DEF Vector

(***************************************************************************)
(* Validation.                                                             *)
(***************************************************************************)
(* Two parts of the same bytes from the same place on, a vector and what   *)
(* the validation accepts, are the same part.                              *)
LEMMA ValidatedIsVector ==
  ASSUME NEW kind \in Kinds, NEW es \in Seq(Elements(kind)),
         NEW w \in Seq(Nat), NEW b \in Seq(Nat), NEW v \in Nat,
         Lies(b, w, v), Lies(Vector(es), w, v), ValidVector(kind, b)
  PROVE  b = Vector(es)
  <1> DEFINE n == Len(es)
             j == Joined(es)
             at == Walk(kind, b)
             ends == Ends(kind, b)
             S == {k \in Nat : k <= n =>
                     \/ at[k] = Len(j[k]) /\ at[k] <= Len(b)
                     \/ at[k] = Len(b) + 1}
  <1>1. /\ n \in Nat /\ Len(b) \in Nat /\ Len(w) \in Nat
        /\ \A k \in 0..n : Len(j[k]) \in Nat
        /\ \A k \in 1..n : /\ es[k] \in Elements(kind)
                           /\ Len(j[k]) = Len(j[k - 1]) + Len(Element(es[k]))
                           /\ Len(Element(es[k])) \in Nat
        /\ Len(j[0]) = Len(Counted(n)) /\ Len(j[n]) = Len(Vector(es))
        /\ Vector(es) \in Seq(Nat)
    <2>1. Len(b) \in Nat /\ Len(w) \in Nat
      OBVIOUS
    <2>2. QED
      BY <2>1, JoinedLength, Zenon
  <1>2. v + 0 = v
    OBVIOUS
  <1>3. ParseOutcome("js", b, 0) = "ok" /\ at[Number(b, 0)] = Len(b)
    BY DEF ValidVector
  <1>4. /\ Number(b, 0) = n /\ SerializedLength("js", b, 0) = Len(Counted(n))
    BY <1>1, <1>2, <1>3, CountedIsRead, JoinedLies
  <1>5. at[0] = Len(Counted(n)) /\ \A k \in 1..n : at[k] = ends[at[k - 1]]
    BY <1>1, <1>4, WalkDefined
  <1>6. ends = [o \in 0..Len(b) + 1 |->
                  IF \/ o >= Len(b)
                     \/ ElementOutcome("js", kind, b, o) # "ok"
                     \/ o + ElementLength("js", kind, b, o) > Len(b)
                  THEN Len(b) + 1
                  ELSE o + ElementLength("js", kind, b, o)]
    BY DEF Ends
  <1>7. Len(Counted(n)) <= Len(b)
    <2>1. SerializedLength("js", b, 0) <= Len(b)
      BY <1>1, <1>3 DEF SerializedLength, ParseOutcome, DataLength
    <2>2. QED
      BY <1>4, <2>1
  <1>8. \A k \in 1..n : Lies(Element(es[k]), w, v + Len(j[k - 1]))
    BY JoinedLies
  <1> HIDE DEF n, j, at, ends
  <1>9. 0 \in S
    BY <1>1, <1>5, <1>7
  <1>10. ASSUME NEW m \in Nat, m \in S
         PROVE  m + 1 \in S
    <2> SUFFICES ASSUME m + 1 <= n
                 PROVE  \/ /\ at[m + 1] = Len(j[m + 1])
                           /\ at[m + 1] <= Len(b)
                        \/ at[m + 1] = Len(b) + 1
      OBVIOUS
    <2>1. m + 1 \in 1..n /\ (m + 1) - 1 = m /\ m \in 0..n /\ m <= n
      BY <1>1
    <2>2. at[m + 1] = ends[at[m]]
      BY <1>5, <2>1
    <2>3. /\ Len(j[m + 1]) = Len(j[m]) + Len(Element(es[m + 1]))
          /\ Len(j[m]) \in Nat /\ es[m + 1] \in Elements(kind)
      BY <1>1, <2>1
    <2>4. CASE at[m] = Len(b) + 1
      BY <1>1, <1>6, <2>2, <2>4
    <2>5. CASE at[m] = Len(j[m]) /\ at[m] <= Len(b)
      <3>1. at[m] \in 0..Len(b) + 1
        BY <1>1, <2>3, <2>5
      <3>2. CASE ElementOutcome("js", kind, b, at[m]) = "ok"
        <4>1. Lies(Element(es[m + 1]), w, v + at[m])
          BY <1>8, <2>1, <2>5
        <4>2. ElementLength("js", kind, b, at[m]) = Len(Element(es[m + 1]))
          BY <2>3, <2>5, <3>2, <4>1, ElementIsPassed
        <4>3. ends[at[m]] =
                IF \/ at[m] >= Len(b)
                   \/ at[m] + Len(Element(es[m + 1])) > Len(b)
                THEN Len(b) + 1 ELSE at[m] + Len(Element(es[m + 1]))
          BY <1>6, <3>1, <3>2, <4>2
        <4>4. Len(Element(es[m + 1])) \in Nat
          BY <1>1, <2>1
        <4>5. Len(b) \in Nat
          OBVIOUS
        <4>6. CASE \/ at[m] >= Len(b)
                   \/ at[m] + Len(Element(es[m + 1])) > Len(b)
          <5>1. at[m + 1] = Len(b) + 1
            BY <2>2, <4>3, <4>6
          <5>2. QED
            BY <5>1
        <4>7. CASE ~ \/ at[m] >= Len(b)
                     \/ at[m] + Len(Element(es[m + 1])) > Len(b)
          <5>1. at[m + 1] = at[m] + Len(Element(es[m + 1]))
            BY <2>2, <4>3, <4>7
          <5>2. at[m + 1] = Len(j[m + 1])
            BY <2>3, <2>5, <5>1
          <5>3. at[m] \in Nat
            BY <2>3, <2>5
          <5>4. at[m] + Len(Element(es[m + 1])) <= Len(b)
            BY <4>4, <4>5, <4>7, <5>3
          <5>5. QED
            BY <5>1, <5>2, <5>4
        <4>8. QED
          BY <4>6, <4>7
      <3>3. CASE ElementOutcome("js", kind, b, at[m]) # "ok"
        BY <1>6, <2>2, <3>1, <3>3
      <3>4. QED
        BY <3>2, <3>3
    <2>6. QED
      BY <1>10, <2>1, <2>4, <2>5
  <1> HIDE DEF S
  <1>11. n \in S
    BY <1>1, <1>9, <1>10, SetInduction
  <1>12. Len(b) = Len(Vector(es))
    BY <1>1, <1>3, <1>4, <1>11 DEF S
  <1>13. \A k \in 1..Len(b) : b[k] = Vector(es)[k]
    BY <1>12 DEF Lies
  <1>14. QED
    BY <1>1, <1>12, <1>13, SeqEqual

(* And the validation accepts a vector of anything. *)
LEMMA VectorValidates ==
  ASSUME NEW kind \in Kinds, NEW es \in Seq(Elements(kind)), es # <<>>
  PROVE  ValidVector(kind, Vector(es))
  <1> DEFINE n == Len(es)
             j == Joined(es)
             b == Vector(es)
             at == Walk(kind, b)
             ends == Ends(kind, b)
             S == {k \in Nat : k <= n => at[k] = Len(j[k])}
  <1>1. /\ n \in Nat /\ n > 0 /\ Len(b) \in Nat
        /\ \A k \in 0..n : Len(j[k]) \in Nat
        /\ \A k \in 1..n : /\ es[k] \in Elements(kind)
                           /\ Len(j[k]) = Len(j[k - 1]) + Len(Element(es[k]))
                           /\ Len(Element(es[k])) \in Nat
        /\ Len(j[0]) = Len(Counted(n)) /\ Len(j[n]) = Len(b)
        /\ b \in Seq(Nat)
    <2>1. Len(es) \in Nat /\ Len(es) > 0
      OBVIOUS
    <2>2. Vector(es) \in Seq(Nat)
      BY JoinedLength
    <2>3. Len(Vector(es)) \in Nat
      BY ONLY <2>2
    <2>4. QED
      BY <2>1, <2>2, <2>3, JoinedLength, Zenon
  <1>2. Lies(b, b, 0) /\ 0 + 0 = 0
    BY <1>1, LiesInItself
  <1>3. Lies(Counted(n), b, 0)
    BY <1>1, <1>2, JoinedLies
  <1>4. ParseOutcome("js", b, 0) = "ok"
    BY <1>1, <1>3, CountedIsFound
  <1>5. Number(b, 0) = n /\ SerializedLength("js", b, 0) = Len(Counted(n))
    BY <1>1, <1>2, <1>3, <1>4, CountedIsRead
  <1>6. at[0] = Len(Counted(n)) /\ \A k \in 1..n : at[k] = ends[at[k - 1]]
    BY <1>1, <1>5, WalkDefined
  <1>7. ends = [o \in 0..Len(b) + 1 |->
                  IF \/ o >= Len(b)
                     \/ ElementOutcome("js", kind, b, o) # "ok"
                     \/ o + ElementLength("js", kind, b, o) > Len(b)
                  THEN Len(b) + 1
                  ELSE o + ElementLength("js", kind, b, o)]
    BY DEF Ends
  <1>8. \A k \in 1..n : Lies(Element(es[k]), b, 0 + Len(j[k - 1]))
    BY <1>1, <1>2, JoinedLies
  <1> HIDE DEF n, j, b, at, ends
  <1>9. 0 \in S
    BY <1>1, <1>6
  <1>10. ASSUME NEW m \in Nat, m \in S
         PROVE  m + 1 \in S
    <2> SUFFICES ASSUME m + 1 <= n
                 PROVE  at[m + 1] = Len(j[m + 1])
      OBVIOUS
    <2>1. m + 1 \in 1..n /\ (m + 1) - 1 = m /\ m \in 0..n /\ m <= n
      BY <1>1
    <2>2. at[m + 1] = ends[at[m]] /\ at[m] = Len(j[m])
      BY <1>6, <1>10, <2>1
    <2>3. /\ Len(j[m + 1]) = Len(j[m]) + Len(Element(es[m + 1]))
          /\ Len(j[m]) \in Nat /\ es[m + 1] \in Elements(kind)
          /\ Len(Element(es[m + 1])) \in Nat
      BY <1>1, <2>1
    <2>4. Lies(Element(es[m + 1]), b, at[m])
      BY <1>8, <2>1, <2>2, <2>3
    <2>5. at[m] + Len(Element(es[m + 1])) <= Len(b)
      BY <2>4 DEF Lies
    <2>6. /\ at[m] < Len(b) /\ ElementOutcome("js", kind, b, at[m]) = "ok"
          /\ ElementLength("js", kind, b, at[m]) = Len(Element(es[m + 1]))
      BY <1>1, <2>2, <2>3, <2>4, ElementIsFound
    <2>7. at[m] \in 0..Len(b) + 1
      BY <1>1, <2>2, <2>3, <2>6
    <2>8. ends[at[m]] =
            IF \/ at[m] >= Len(b)
               \/ at[m] + Len(Element(es[m + 1])) > Len(b)
            THEN Len(b) + 1 ELSE at[m] + Len(Element(es[m + 1]))
      BY <1>7, <2>6, <2>7
    <2>9. at[m] \in Nat /\ Len(b) \in Nat
      BY <1>1, <2>2, <2>3
    <2>10. ~ \/ at[m] >= Len(b)
             \/ at[m] + Len(Element(es[m + 1])) > Len(b)
      BY <2>3, <2>5, <2>6, <2>9
    <2>11. at[m + 1] = at[m] + Len(Element(es[m + 1]))
      BY <2>2, <2>8, <2>10
    <2>12. QED
      BY <2>2, <2>3, <2>11
  <1> HIDE DEF S
  <1>11. n \in S
    BY <1>1, <1>9, <1>10, SetInduction
  <1>12. at[n] = Len(b)
    BY <1>1, <1>11 DEF S
  <1>13. QED
    BY <1>1, <1>4, <1>5, <1>12 DEF ValidVector, b, at

(***************************************************************************)
(* The cut.                                                                *)
(***************************************************************************)
LEMMA SmallType ==
  ASSUME NEW raw \in Seq(Nat), NEW o \in Nat
  PROVE  Small(raw, o) \in Nat
  <1>1. CASE o >= Len(raw)
    BY <1>1 DEF Small
  <1>2. CASE ~(o >= Len(raw))
    <2>1. o + 1 \in 1..Len(raw)
      BY <1>2
    <2>2. raw[o + 1] \in Nat
      BY <2>1
    <2>3. QED
      BY <1>2, <2>2 DEF Small, DataLength
  <1>3. QED
    BY <1>1, <1>2

LEMMA AfterValues ==
  ASSUME NEW kind \in Kinds, NEW raw \in Seq(Nat), NEW o \in Nat
  PROVE  LET after == AfterElements(kind, raw, o)
             n == Small(raw, o)
         IN /\ n \in Nat /\ after[0] = o + 1
            /\ \A k \in 0..n : after[k] \in Nat
            /\ \A k \in 1..n :
                 after[k] = (after[k - 1] + Before[kind]) + 1
                              + Small(raw, after[k - 1] + Before[kind])
                              + After[kind]
  <1> DEFINE after == AfterElements(kind, raw, o)
             n == Small(raw, o)
             S == {k \in Nat : k <= n => after[k] \in Nat}
  <1>1. n \in Nat /\ Before[kind] \in Nat /\ After[kind] \in Nat
    BY SmallType, ElementAssumption DEF Kinds
  <1>2. after = [k \in 0..n |->
                   IF k = 0 THEN o + 1
                   ELSE (after[k - 1] + Before[kind]) + 1
                          + Small(raw, after[k - 1] + Before[kind])
                          + After[kind]]
    BY <1>1, AfterDefined
  <1> HIDE DEF after, n
  <1>3. /\ after[0] = o + 1
        /\ \A k \in 1..n :
             after[k] = (after[k - 1] + Before[kind]) + 1
                          + Small(raw, after[k - 1] + Before[kind])
                          + After[kind]
    <2>1. 0 \in 0..n /\ \A k \in 1..n : k \in 0..n /\ k # 0
      BY <1>1
    <2>2. QED
      BY <1>2, <2>1, Zenon
  <1>4. 0 \in S
    BY <1>3
  <1>5. ASSUME NEW k \in Nat, k \in S PROVE k + 1 \in S
    <2> SUFFICES ASSUME k + 1 <= n PROVE after[k + 1] \in Nat
      OBVIOUS
    <2>1. k + 1 \in 1..n /\ (k + 1) - 1 = k /\ k <= n
      BY <1>1
    <2>2. after[k] \in Nat
      BY <1>5, <2>1
    <2>3. after[k] + Before[kind] \in Nat
      BY <1>1, <2>2
    <2>4. Small(raw, after[k] + Before[kind]) \in Nat
      BY <2>3, SmallType
    <2>5. after[k + 1] = (after[k] + Before[kind]) + 1
                           + Small(raw, after[k] + Before[kind]) + After[kind]
      BY <1>3, <2>1
    <2>6. QED
      BY <1>1, <2>3, <2>4, <2>5
  <1> HIDE DEF S
  <1>6. Nat \subseteq S
    BY <1>4, <1>5, SetInduction
  <1>7. \A k \in 0..n : after[k] \in Nat
    BY <1>1, <1>6 DEF S
  <1>8. QED
    BY <1>1, <1>3, <1>7 DEF after, n

LEMMA AfterVectorType ==
  ASSUME NEW kind \in Kinds, NEW raw \in Seq(Nat), NEW o \in Nat
  PROVE  AfterVector(kind, raw, o) \in Nat
  <1>1. Small(raw, o) \in 0..Small(raw, o)
    BY SmallType
  <1>2. QED
    BY <1>1, AfterValues DEF AfterVector

(* What a byte holds is read as what was written. *)
LEMMA SmallIsRead ==
  ASSUME NEW n \in Nat, n < Wide, NEW raw \in Seq(Nat), NEW o \in Nat,
         Lies(Counted(n), raw, o)
  PROVE  Small(raw, o) = n
  <1>1. Counted(n) = <<n>> /\ Len(Counted(n)) = 1 /\ Counted(n)[1] = n
    BY DEF Counted
  <1>2. o + 1 <= Len(raw) /\ raw[o + 1] = n
    BY <1>1 DEF Lies
  <1>3. QED
    BY <1>2, CompactAssumption DEF Small, IsWide

(* A vector of narrow elements is stepped over as a whole. *)
LEMMA AfterVectorIsEnd ==
  ASSUME NEW kind \in Kinds, NEW es \in Seq(Elements(kind)),
         NEW raw \in Seq(Nat), NEW o \in Nat, Lies(Vector(es), raw, o),
         Len(es) < Wide, \A k \in 1..Len(es) : Len(es[k].script) < Wide
  PROVE  AfterVector(kind, raw, o) = o + Len(Vector(es))
  <1> DEFINE n == Len(es)
             j == Joined(es)
             after == AfterElements(kind, raw, o)
             S == {k \in Nat : k <= n => after[k] = o + Len(j[k])}
  <1>1. n \in Nat /\ Len(j[0]) = 1 /\ Small(raw, o) = n
    <2>1. Len(es) \in Nat
      OBVIOUS
    <2>2. Small(raw, o) = Len(es)
      BY <2>1, SmallIsRead, JoinedLies
    <2>3. Len(j[0]) = Len(Counted(Len(es))) /\ Len(Counted(Len(es))) = 1
      BY <2>1, JoinedLength, CountedType
    <2>4. QED
      BY <2>1, <2>2, <2>3
  <1>2. /\ after[0] = o + 1
        /\ \A k \in 1..n :
             after[k] = (after[k - 1] + Before[kind]) + 1
                          + Small(raw, after[k - 1] + Before[kind])
                          + After[kind]
    BY <1>1, AfterValues
  <1>3. ASSUME NEW k \in 1..n
        PROVE  /\ Len(j[k - 1]) \in Nat
               /\ Len(j[k]) = Len(j[k - 1]) + Before[kind] + 1
                                + Len(es[k].script) + After[kind]
               /\ Small(raw, (o + Len(j[k - 1])) + Before[kind])
                    = Len(es[k].script)
    <2>1. k - 1 \in 0..n
      BY <1>1
    <2>2. /\ es[k] \in Elements(kind) /\ Len(j[k - 1]) \in Nat
          /\ Len(j[k]) = Len(j[k - 1]) + Len(Element(es[k]))
      BY <2>1, JoinedLength
    <2>3. /\ Len(es[k].script) \in Nat /\ Len(es[k].script) < Wide
          /\ Before[kind] \in Nat /\ After[kind] \in Nat
      BY <2>2, ElementParts
    <2>4. /\ Len(Counted(Len(es[k].script))) = 1
          /\ Len(Element(es[k])) = Before[kind] + 1 + Len(es[k].script)
                                     + After[kind]
      BY <2>2, <2>3, CountedType, ElementLies
    <2>5. Lies(Element(es[k]), raw, o + Len(j[k - 1]))
      BY JoinedLies
    <2>6. o + Len(j[k - 1]) \in Nat
      BY <2>2
    <2>7. Lies(Counted(Len(es[k].script)), raw, (o + Len(j[k - 1])) + Before[kind])
      BY <2>2, <2>5, <2>6, ElementLies
    <2>8. (o + Len(j[k - 1])) + Before[kind] \in Nat
      BY <2>3, <2>6
    <2>9. Small(raw, (o + Len(j[k - 1])) + Before[kind]) = Len(es[k].script)
      BY <2>3, <2>7, <2>8, SmallIsRead
    <2>10. Len(j[k]) = Len(j[k - 1]) + Before[kind] + 1
                        + Len(es[k].script) + After[kind]
      <3> DEFINE x == Len(j[k - 1])
                 y == Len(es[k].script)
      <3>1. x \in Nat /\ y \in Nat
        BY <2>2, <2>3
      <3>2. Len(j[k]) = x + (Before[kind] + 1 + y + After[kind])
        BY <2>2, <2>4
      <3> HIDE DEF x, y
      <3>3. Len(j[k]) = x + Before[kind] + 1 + y + After[kind]
        BY ONLY <2>3, <3>1, <3>2
      <3>4. QED
        BY <3>3 DEF x, y
    <2>11. QED
      BY <2>2, <2>9, <2>10
  <1>4. \A k \in 1..n : Len(es[k].script) \in Nat
    BY JoinedLength, ElementParts
  <1>5. Before[kind] \in Nat /\ After[kind] \in Nat
    BY ElementAssumption DEF Kinds
  <1>6. Len(j[n]) = Len(Vector(es)) /\ AfterVector(kind, raw, o) = after[n]
    BY <1>1, JoinedLength DEF AfterVector
  <1> HIDE DEF n, j, after
  <1>7. 0 \in S
    BY <1>1, <1>2
  <1>8. ASSUME NEW k \in Nat, k \in S PROVE k + 1 \in S
    <2> SUFFICES ASSUME k + 1 <= n PROVE after[k + 1] = o + Len(j[k + 1])
      OBVIOUS
    <2>1. k + 1 \in 1..n /\ (k + 1) - 1 = k /\ k <= n
      BY <1>1
    <2>2. after[k] = o + Len(j[k])
      BY <1>8, <2>1
    <2>3. /\ Len(j[k]) \in Nat
          /\ Len(j[k + 1]) = Len(j[k]) + Before[kind] + 1
                               + Len(es[k + 1].script) + After[kind]
          /\ Small(raw, after[k] + Before[kind]) = Len(es[k + 1].script)
      BY <1>3, <2>1, <2>2
    <2>4. after[k + 1] = (after[k] + Before[kind]) + 1
                           + Small(raw, after[k] + Before[kind]) + After[kind]
      BY <1>2, <2>1
    <2>5. Len(es[k + 1].script) \in Nat
      BY <1>4, <2>1
    <2> DEFINE x == Len(j[k])
               y == Len(es[k + 1].script)
    <2>6. x \in Nat /\ y \in Nat /\ after[k] = o + x
      BY <2>2, <2>3, <2>5
    <2>7. /\ after[k + 1] = (after[k] + Before[kind]) + 1 + y + After[kind]
          /\ Len(j[k + 1]) = x + Before[kind] + 1 + y + After[kind]
      BY <2>3, <2>4
    <2> HIDE DEF x, y
    <2>8. after[k + 1] = ((o + x) + Before[kind]) + 1 + y + After[kind]
      BY <2>6, <2>7
    <2>9. o + (x + Before[kind] + 1 + y + After[kind])
            = ((o + x) + Before[kind]) + 1 + y + After[kind]
      BY ONLY <1>5, <2>6, o \in Nat, SMTT(30)
    <2>10. QED
      BY <2>7, <2>8, <2>9
  <1> HIDE DEF S
  <1>9. n \in S
    BY <1>1, <1>7, <1>8, SetInduction
  <1>10. after[n] = o + Len(j[n])
    BY <1>1, <1>9 DEF S
  <1>11. QED
    BY <1>6, <1>10

(* What subarray returns. *)
LEMMA BytesType ==
  ASSUME NEW raw \in Seq(Nat), NEW from \in Nat, NEW to \in Int
  PROVE  Bytes(raw, from, to) \in Seq(Nat)
  <1> DEFINE last == IF to < Len(raw) THEN to ELSE Len(raw)
  <1>1. last \in Int /\ last <= Len(raw) /\ from + 1 \in Int /\ Len(raw) \in Nat
    OBVIOUS
  <1>2. \A i \in from + 1..last : raw[i] \in Nat
    <2>1. \A i \in from + 1..last : i \in 1..Len(raw)
      BY <1>1
    <2>2. QED
      BY <2>1
  <1> HIDE DEF last
  <1>3. SubSeq(raw, from + 1, last) \in Seq(Nat)
    BY <1>1, <1>2, SubSeqProperties
  <1>4. QED
    BY <1>3 DEF Bytes, last

LEMMA BytesAreThose ==
  ASSUME NEW s \in Seq(Nat), NEW raw \in Seq(Nat), NEW o \in Nat,
         Lies(s, raw, o)
  PROVE  Bytes(raw, o, o + Len(s)) = s
  <1>1. /\ Len(s) \in Nat /\ Len(raw) \in Nat /\ o + Len(s) <= Len(raw)
        /\ \A k \in 1..Len(s) : raw[o + k] = s[k]
    BY DEF Lies
  <1>2. Bytes(raw, o, o + Len(s)) = SubSeq(raw, o + 1, o + Len(s))
    <2>1. (IF o + Len(s) < Len(raw) THEN o + Len(s) ELSE Len(raw)) = o + Len(s)
      BY <1>1
    <2>2. QED
      BY <2>1 DEF Bytes
  <1> DEFINE m == o + 1
             n == o + Len(s)
  <1>3. m \in Int /\ n \in Int /\ n - m + 1 = Len(s)
    BY <1>1
  <1>4. \A i \in m..n : raw[i] \in Nat
    <2>1. \A i \in m..n : i \in 1..Len(raw)
      BY <1>1
    <2>2. QED
      BY <2>1
  <1>5. \A i \in 1..Len(s) : raw[m + i - 1] = s[i]
    <2>1. \A i \in 1..Len(s) : m + i - 1 = o + i
      BY <1>1
    <2>2. QED
      BY <1>1, <2>1
  <1>6. m <= n \/ Len(s) = 0
    BY <1>1
  <1> HIDE DEF m, n
  <1>7. /\ SubSeq(raw, m, n) \in Seq(Nat)
        /\ Len(SubSeq(raw, m, n)) = IF m <= n THEN n - m + 1 ELSE 0
        /\ \A i \in 1..n - m + 1 : SubSeq(raw, m, n)[i] = raw[m + i - 1]
    BY <1>3, <1>4, SubSeqProperties
  <1>8. Len(SubSeq(raw, m, n)) = Len(s)
    BY <1>1, <1>3, <1>6, <1>7
  <1>9. \A i \in 1..Len(SubSeq(raw, m, n)) : SubSeq(raw, m, n)[i] = s[i]
    BY <1>3, <1>5, <1>7, <1>8
  <1>10. SubSeq(raw, m, n) = s
    BY <1>7, <1>8, <1>9, SeqEqual
  <1>11. QED
    BY <1>2, <1>10 DEF m, n

(***************************************************************************)
(* The transactions.                                                       *)
(***************************************************************************)
LEMMA FourLie ==
  ASSUME NEW a \in Seq(Nat), NEW b \in Seq(Nat), NEW c \in Seq(Nat),
         NEW d \in Seq(Nat), NEW w \in Seq(Nat), NEW o \in Nat,
         Lies(a \o b \o c \o d, w, o)
  PROVE  /\ Lies(a, w, o) /\ Lies(b, w, o + Len(a))
         /\ Lies(c, w, o + Len(a) + Len(b))
         /\ Lies(d, w, o + Len(a) + Len(b) + Len(c))
  <1> DEFINE x == a \o b
             y == x \o c
  <1>1. x \in Seq(Nat) /\ Len(x) = Len(a) + Len(b)
    BY ONLY a \in Seq(Nat), b \in Seq(Nat), ConcatProperties, Zenon
  <1>2. Lies(x, w, o) => Lies(a, w, o) /\ Lies(b, w, o + Len(a))
    BY LiesConcat
  <1> HIDE DEF x
  <1>3. y \in Seq(Nat) /\ Len(y) = Len(x) + Len(c)
    BY ONLY <1>1, c \in Seq(Nat), ConcatProperties, Zenon
  <1>4. Lies(y, w, o) => Lies(x, w, o) /\ Lies(c, w, o + Len(x))
    BY <1>1, LiesConcat
  <1>5. Lies(y \o d, w, o)
    BY DEF x
  <1> HIDE DEF y
  <1>6. Lies(y, w, o) /\ Lies(d, w, o + Len(y))
    BY <1>3, <1>5, LiesConcat
  <1>7. /\ o + Len(x) = o + Len(a) + Len(b)
        /\ o + Len(y) = o + Len(a) + Len(b) + Len(c)
    <2>1. Len(a) \in Nat /\ Len(b) \in Nat /\ Len(c) \in Nat
      OBVIOUS
    <2>2. QED
      BY ONLY <1>1, <1>3, <2>1, o \in Nat
  <1>8. QED
    BY <1>2, <1>4, <1>6, <1>7

LEMMA FourType ==
  ASSUME NEW a \in Seq(Nat), NEW b \in Seq(Nat), NEW c \in Seq(Nat),
         NEW d \in Seq(Nat)
  PROVE  a \o b \o c \o d \in Seq(Nat)
  <1>1. a \o b \in Seq(Nat)
    BY ConcatProperties, Zenon
  <1>2. a \o b \o c \in Seq(Nat)
    BY <1>1, ConcatProperties, Zenon
  <1>3. QED
    BY <1>2, ConcatProperties, Zenon

LEMMA TxParts ==
  ASSUME NEW t \in DOMAIN Tx
  PROVE  /\ NumberSize \in Nat
         /\ Tx[t].version \in Seq(Nat) /\ Len(Tx[t].version) = NumberSize
         /\ Tx[t].locktime \in Seq(Nat) /\ Len(Tx[t].locktime) = NumberSize
         /\ Tx[t].witness \in Seq(Nat) /\ Tx[t].marked \in BOOLEAN
         /\ Tx[t].ins \in Seq(Elements("vin")) /\ Tx[t].ins # <<>>
         /\ Tx[t].outs \in Seq(Elements("vout")) /\ Tx[t].outs # <<>>
  <1>1. Byte \subseteq Nat
    BY CompactAssumption DEF Byte
  <1>2. Tx[t] \in Transaction /\ NumberSize \in Nat
    BY TxAssumption
  <1>3. /\ Tx[t].version \in Seq(Byte) /\ Tx[t].locktime \in Seq(Byte)
        /\ Tx[t].witness \in Seq(Byte) /\ Tx[t].marked \in BOOLEAN
        /\ Tx[t].ins \in Seq(Elements("vin"))
        /\ Tx[t].outs \in Seq(Elements("vout"))
        /\ Len(Tx[t].version) = NumberSize /\ Len(Tx[t].locktime) = NumberSize
        /\ Tx[t].ins # <<>> /\ Tx[t].outs # <<>>
    BY <1>2 DEF Transaction
  <1>4. /\ Tx[t].version \in Seq(Nat) /\ Tx[t].locktime \in Seq(Nat)
        /\ Tx[t].witness \in Seq(Nat)
    BY <1>1, <1>3, SeqMonotonic
  <1>5. QED
    BY <1>2, <1>3, <1>4

Mark(t) == IF Tx[t].marked THEN <<0, 1>> ELSE <<>>

(* Where the parts are that the cut looks for. *)
LEMMA RawLies ==
  ASSUME NEW t \in DOMAIN Tx
  PROVE  /\ Raw(t) \in Seq(Nat) /\ Len(Raw(t)) >= NumberSize
         /\ Len(Mark(t)) = IF Tx[t].marked THEN 2 ELSE 0
         /\ Lies(Tx[t].version, Raw(t), 0)
         /\ Lies(Mark(t), Raw(t), NumberSize)
         /\ Lies(Vector(Tx[t].ins), Raw(t), NumberSize + Len(Mark(t)))
         /\ Lies(Vector(Tx[t].outs), Raw(t),
                 NumberSize + Len(Mark(t)) + Len(Vector(Tx[t].ins)))
         /\ Lies(Tx[t].locktime, Raw(t), Len(Raw(t)) - NumberSize)
  <1> DEFINE a == Tx[t].version
             m == Mark(t)
             b == Vector(Tx[t].ins)
             c == Vector(Tx[t].outs)
             d == Tx[t].witness
             l == Tx[t].locktime
             x == a \o m
             y == x \o b \o c \o d
  <1>1. /\ a \in Seq(Nat) /\ m \in Seq(Nat) /\ b \in Seq(Nat)
        /\ c \in Seq(Nat) /\ d \in Seq(Nat) /\ l \in Seq(Nat)
    <2>1. "vin" \in Kinds /\ "vout" \in Kinds
      BY DEF Kinds
    <2>2. m \in Seq(Nat)
      BY DEF Mark
    <2>3. b \in Seq(Nat) /\ c \in Seq(Nat)
      BY <2>1, TxParts, JoinedLength
    <2>4. QED
      BY <2>2, <2>3, TxParts
  <1>2. /\ NumberSize \in Nat /\ Len(a) = NumberSize /\ Len(l) = NumberSize
        /\ Len(m) = (IF Tx[t].marked THEN 2 ELSE 0)
    BY TxParts DEF Mark
  <1>3. Raw(t) = y \o l
    BY DEF Raw, Mark
  <1> HIDE DEF a, m, b, c, d, l
  <1>4. x \in Seq(Nat) /\ Len(x) = Len(a) + Len(m)
    BY <1>1, ConcatProperties, Zenon
  <1>5. \A w \in Seq(Nat) : Lies(x, w, 0) =>
                              Lies(a, w, 0) /\ Lies(m, w, 0 + Len(a))
    BY <1>1, LiesConcat
  <1> HIDE DEF x
  <1>6. y \in Seq(Nat)
    BY <1>1, <1>4, FourType
  <1>7. \A w \in Seq(Nat) : Lies(y, w, 0) =>
                              /\ Lies(x, w, 0) /\ Lies(b, w, 0 + Len(x))
                              /\ Lies(c, w, 0 + Len(x) + Len(b))
    BY <1>1, <1>4, FourLie
  <1> HIDE DEF y
  <1>8. y \o l \in Seq(Nat) /\ Len(y \o l) = Len(y) + Len(l)
    BY <1>1, <1>6, ConcatProperties, Zenon
  <1> DEFINE w == y \o l
  <1>9. Lies(w, w, 0)
    BY <1>8, LiesInItself
  <1>10. Lies(y, w, 0) /\ Lies(l, w, 0 + Len(y))
    BY <1>1, <1>6, <1>8, <1>9, LiesConcat
  <1>11. w \in Seq(Nat) /\ Len(w) = Len(y) + Len(l) /\ w = Raw(t)
    BY <1>3, <1>8
  <1> HIDE DEF w
  <1>12. Len(y) \in Nat /\ Len(a) \in Nat /\ Len(m) \in Nat
    BY <1>1, <1>6, LenProperties
  <1>13. /\ 0 + Len(a) = NumberSize /\ 0 + Len(x) = NumberSize + Len(m)
         /\ 0 + Len(y) = Len(w) - NumberSize /\ Len(w) >= NumberSize
    BY <1>2, <1>4, <1>11, <1>12
  <1>14. /\ Lies(a, w, 0) /\ Lies(m, w, NumberSize)
         /\ Lies(b, w, NumberSize + Len(m))
         /\ Lies(c, w, NumberSize + Len(m) + Len(b))
         /\ Lies(l, w, Len(w) - NumberSize)
    BY <1>5, <1>7, <1>10, <1>11, <1>13
  <1>15. QED
    BY <1>2, <1>11, <1>13, <1>14 DEF a, m, b, c, l

(* The marker is told from the count of the inputs. *)
LEMMA MarkerIsSeen ==
  ASSUME NEW t \in DOMAIN Tx
  PROVE  hasWitnessBytes(Raw(t)) <=> Tx[t].marked
  <1>1. NumberSize \in Nat /\ Tx[t].marked \in BOOLEAN
    BY TxParts
  <1>2. CASE Tx[t].marked
    <2>1. /\ Len(Mark(t)) = 2 /\ Mark(t)[1] = 0 /\ Mark(t)[2] = 1
      BY <1>2 DEF Mark
    <2>2. \A k \in 1..Len(Mark(t)) : Raw(t)[NumberSize + k] = Mark(t)[k]
      BY RawLies DEF Lies
    <2>3. Raw(t)[NumberSize + 1] = 0 /\ Raw(t)[NumberSize + 2] = 1
      BY <2>1, <2>2
    <2>4. QED
      BY <1>2, <2>3 DEF hasWitnessBytes
  <1>3. CASE ~Tx[t].marked
    <2> DEFINE n == Len(Tx[t].ins)
    <2>1. n \in Nat /\ n # 0 /\ "vin" \in Kinds
      BY TxParts DEF Kinds
    <2>2. NumberSize + Len(Mark(t)) = NumberSize
      BY <1>1, <1>3, RawLies
    <2>3. Lies(Counted(n), Raw(t), NumberSize)
      BY <1>1, <2>1, <2>2, RawLies, TxParts, JoinedLies
    <2> HIDE DEF n
    <2>4. Len(Counted(n)) >= 1 /\ Counted(n)[1] # 0
      BY <2>1, CompactAssumption DEF Counted
    <2>5. 1 \in 1..Len(Counted(n))
      BY <2>1, <2>4, CountedType
    <2>6. Raw(t)[NumberSize + 1] # 0
      BY <2>3, <2>4, <2>5 DEF Lies
    <2>7. QED
      BY <1>3, <2>6 DEF hasWitnessBytes
  <1>4. QED
    BY <1>2, <1>3

(* A transaction without wide integers is cut into its parts. *)
LEMMA NarrowIsCut ==
  ASSUME NEW t \in DOMAIN Tx, Narrow(t)
  PROVE  parseTxHex(Raw(t)) =
           [version |-> Tx[t].version, vin |-> Vector(Tx[t].ins),
            vout |-> Vector(Tx[t].outs), locktime |-> Tx[t].locktime]
  <1> DEFINE raw == Raw(t)
             ins == Tx[t].ins
             outs == Tx[t].outs
             v == NumberSize + Len(Mark(t))
             o == v + Len(Vector(ins))
  <1>1. /\ "vin" \in Kinds /\ "vout" \in Kinds
        /\ ins \in Seq(Elements("vin")) /\ outs \in Seq(Elements("vout"))
        /\ raw \in Seq(Nat) /\ NumberSize \in Nat /\ Len(Mark(t)) \in Nat
        /\ Vector(ins) \in Seq(Nat) /\ Vector(outs) \in Seq(Nat)
        /\ Tx[t].version \in Seq(Nat) /\ Len(Tx[t].version) = NumberSize
        /\ Tx[t].locktime \in Seq(Nat) /\ Len(Tx[t].locktime) = NumberSize
    <2>1. "vin" \in Kinds /\ "vout" \in Kinds
      BY DEF Kinds
    <2>2. Vector(ins) \in Seq(Nat) /\ Vector(outs) \in Seq(Nat)
      BY <2>1, TxParts, JoinedLength
    <2>3. Len(Mark(t)) \in Nat
      BY RawLies
    <2>4. QED
      BY <2>1, <2>2, <2>3, TxParts, RawLies
  <1>2. NumberSize + (IF hasWitnessBytes(raw) THEN 2 ELSE 0) = v
    BY MarkerIsSeen, RawLies
  <1>3. v \in Nat /\ o \in Nat
    <2>1. Len(Vector(ins)) \in Nat
      BY <1>1, LenProperties
    <2>2. QED
      BY <1>1, <2>1
  <1>4. Lies(Vector(ins), raw, v) /\ Lies(Vector(outs), raw, o)
    BY RawLies
  <1>5. /\ Len(ins) < Wide /\ \A k \in 1..Len(ins) : Len(ins[k].script) < Wide
        /\ Len(outs) < Wide /\ \A k \in 1..Len(outs) : Len(outs[k].script) < Wide
    <2>1. DOMAIN ins = 1..Len(ins) /\ DOMAIN outs = 1..Len(outs)
      BY <1>1, LenProperties
    <2>2. QED
      BY <2>1 DEF Narrow
  <1> HIDE DEF raw, ins, outs, v, o
  <1>6. AfterVector("vin", raw, v) = v + Len(Vector(ins))
    BY <1>1, <1>3, <1>4, <1>5, AfterVectorIsEnd
  <1>7. AfterVector("vin", raw, v) = o
    BY <1>6 DEF o
  <1>8. AfterVector("vout", raw, o) = o + Len(Vector(outs))
    BY <1>1, <1>3, <1>4, <1>5, AfterVectorIsEnd
  <1>9. Bytes(raw, v, o) = Vector(ins)
    <2>1. Bytes(raw, v, v + Len(Vector(ins))) = Vector(ins)
      BY <1>1, <1>3, <1>4, BytesAreThose
    <2>2. QED
      BY <2>1 DEF o
  <1>10. Bytes(raw, o, o + Len(Vector(outs))) = Vector(outs)
    BY <1>1, <1>3, <1>4, BytesAreThose
  <1>11. Bytes(raw, 0, NumberSize) = Tx[t].version
    <2>1. Lies(Tx[t].version, raw, 0) /\ 0 + Len(Tx[t].version) = NumberSize
      BY <1>1, RawLies DEF raw
    <2>2. QED
      BY <1>1, <2>1, BytesAreThose
  <1>12. Bytes(raw, Len(raw) - NumberSize, Len(raw)) = Tx[t].locktime
    <2>1. /\ Lies(Tx[t].locktime, raw, Len(raw) - NumberSize)
          /\ Len(raw) - NumberSize \in Nat
          /\ (Len(raw) - NumberSize) + Len(Tx[t].locktime) = Len(raw)
      BY <1>1, RawLies DEF raw
    <2>2. QED
      BY <1>1, <2>1, BytesAreThose
  <1>13. QED
    BY <1>2, <1>7, <1>8, <1>9, <1>10, <1>11, <1>12 DEF parseTxHex, raw, ins, outs

(* What it is cut into is bytes in any case. *)
LEMMA CutType ==
  ASSUME NEW t \in DOMAIN Tx
  PROVE  LET p == parseTxHex(Raw(t))
         IN /\ p.version = Tx[t].version
            /\ p.vin \in Seq(Nat) /\ p.vout \in Seq(Nat)
            /\ p.locktime \in Seq(Nat)
  <1> DEFINE raw == Raw(t)
             v == NumberSize + IF hasWitnessBytes(raw) THEN 2 ELSE 0
             o == AfterVector("vin", raw, v)
             p == parseTxHex(raw)
  <1>1. /\ "vin" \in Kinds /\ "vout" \in Kinds /\ raw \in Seq(Nat)
        /\ NumberSize \in Nat /\ Len(raw) \in Nat /\ Len(raw) >= NumberSize
        /\ Tx[t].version \in Seq(Nat) /\ Len(Tx[t].version) = NumberSize
        /\ Lies(Tx[t].version, raw, 0)
    BY TxParts, RawLies, LenProperties DEF Kinds
  <1>2. /\ p.version = Bytes(raw, 0, NumberSize) /\ p.vin = Bytes(raw, v, o)
        /\ p.vout = Bytes(raw, o, AfterVector("vout", raw, o))
        /\ p.locktime = Bytes(raw, Len(raw) - NumberSize, Len(raw))
    BY DEF parseTxHex
  <1>3. v \in Nat
    BY <1>1
  <1> HIDE DEF raw, v, o, p
  <1>4. o \in Nat
    BY <1>1, <1>3, AfterVectorType DEF o
  <1>5. AfterVector("vout", raw, o) \in Nat
    BY <1>1, <1>4, AfterVectorType
  <1>6. Bytes(raw, v, o) \in Seq(Nat)
    BY <1>1, <1>3, <1>4, BytesType
  <1>7. Bytes(raw, o, AfterVector("vout", raw, o)) \in Seq(Nat)
    BY <1>1, <1>4, <1>5, BytesType
  <1>8. Bytes(raw, Len(raw) - NumberSize, Len(raw)) \in Seq(Nat)
    <2>1. Len(raw) - NumberSize \in Nat
      BY <1>1
    <2>2. QED
      BY <1>1, <2>1, BytesType
  <1>9. Bytes(raw, 0, NumberSize) = Tx[t].version
    <2>1. 0 + Len(Tx[t].version) = NumberSize
      BY <1>1
    <2>2. QED
      BY <1>1, <2>1, BytesAreThose
  <1>10. QED
    BY <1>2, <1>6, <1>7, <1>8, <1>9 DEF raw, p

(* Parts that validate are the transaction's, wherever they were cut: both *)
(* are read from the same bytes, from the same place on.                   *)
LEMMA ValidIsWhole ==
  ASSUME NEW t \in DOMAIN Tx, ValidParts(t, parseTxHex(Raw(t)))
  PROVE  /\ parseTxHex(Raw(t)).vin = Vector(Tx[t].ins)
         /\ parseTxHex(Raw(t)).vout = Vector(Tx[t].outs)
  <1> DEFINE p == parseTxHex(Raw(t))
             a == Tx[t].version
             b == Vector(Tx[t].ins)
             c == Vector(Tx[t].outs)
             d == Tx[t].locktime
             w == Preimage(t)
  <1>1. /\ "vin" \in Kinds /\ "vout" \in Kinds
        /\ Tx[t].ins \in Seq(Elements("vin"))
        /\ Tx[t].outs \in Seq(Elements("vout"))
        /\ a \in Seq(Nat) /\ d \in Seq(Nat)
    BY TxParts DEF Kinds
  <1>2. b \in Seq(Nat) /\ c \in Seq(Nat)
    BY <1>1, JoinedLength
  <1>3. /\ p.version = a /\ p.vin \in Seq(Nat) /\ p.vout \in Seq(Nat)
        /\ p.locktime \in Seq(Nat)
    BY CutType
  <1>4. /\ ValidVector("vin", p.vin) /\ ValidVector("vout", p.vout)
        /\ p.version \o p.vin \o p.vout \o p.locktime = w
    BY DEF ValidParts
  <1>5. w = a \o b \o c \o d
    BY DEF Preimage
  <1> HIDE DEF p, a, b, c, d, w
  <1>6. w \in Seq(Nat)
    BY <1>1, <1>2, <1>5, FourType
  <1>7. Lies(w, w, 0)
    BY <1>6, LiesInItself
  <1>8. Lies(b, w, 0 + Len(a)) /\ Lies(c, w, 0 + Len(a) + Len(b))
    BY <1>1, <1>2, <1>5, <1>6, <1>7, FourLie
  <1>9. /\ Lies(p.vin, w, 0 + Len(a))
        /\ Lies(p.vout, w, 0 + Len(a) + Len(p.vin))
    <2>1. a \o p.vin \o p.vout \o p.locktime = w
      BY <1>3, <1>4
    <2>2. QED
      BY <1>1, <1>3, <1>6, <1>7, <2>1, FourLie, ZenonT(30)
  <1>10. 0 + Len(a) \in Nat /\ 0 + Len(a) + Len(b) \in Nat
    BY <1>1, <1>2, LenProperties
  <1>11. p.vin = b
    BY <1>1, <1>3, <1>4, <1>6, <1>8, <1>9, <1>10, ValidatedIsVector DEF b
  <1>12. p.vout = c
    BY <1>1, <1>3, <1>4, <1>6, <1>8, <1>9, <1>10, <1>11, ValidatedIsVector DEF c
  <1>13. QED
    BY <1>11, <1>12 DEF p, b, c

(* A transaction without wide integers validates. *)
LEMMA NarrowIsValid ==
  ASSUME NEW t \in DOMAIN Tx, Narrow(t)
  PROVE  ValidParts(t, parseTxHex(Raw(t)))
  <1>1. /\ "vin" \in Kinds /\ "vout" \in Kinds
        /\ Tx[t].ins \in Seq(Elements("vin")) /\ Tx[t].ins # <<>>
        /\ Tx[t].outs \in Seq(Elements("vout")) /\ Tx[t].outs # <<>>
    BY TxParts DEF Kinds
  <1>2. /\ ValidVector("vin", Vector(Tx[t].ins))
        /\ ValidVector("vout", Vector(Tx[t].outs))
    BY <1>1, VectorValidates
  <1> DEFINE p == parseTxHex(Raw(t))
  <1>3. /\ p.version = Tx[t].version /\ p.vin = Vector(Tx[t].ins)
        /\ p.vout = Vector(Tx[t].outs) /\ p.locktime = Tx[t].locktime
    BY NarrowIsCut
  <1> HIDE DEF p
  <1>4. ValidParts(t, p)
    BY <1>2, <1>3, Zenon DEF ValidParts, Preimage
  <1>5. QED
    BY <1>4 DEF p

(***************************************************************************)
(* The invariant.                                                          *)
(***************************************************************************)
(* How far a call has come at each of its awaits. *)
Progress ==
  /\ pc \in {"idle", "getTX", "getBlockHeader", "getInfo"} => headers = <<>>
  /\ pc \in {"getTX", "getBlockHeader"} => IsProof
  /\ pc = "getInfo" => ~IsProof
  /\ pc \in {"getHeader", "getblockheader"} /\ IsProof => headers = <<>>
  /\ pc = "getblockheader" => Missing /\ hash # None
  /\ pc \in {"getblockbyheight", "returned", "validated"} =>
       IsProof /\ Len(headers) = 1
  /\ pc = "listed" => Len(headers) = call.count

(* A branch is made from a block that holds the transaction. *)
Branched ==
  IF pc \in {"returned", "validated"}
  THEN branch \in Blocks /\ call.txid \in Txs[branch]
  ELSE branch = None

(* The block a raw header is asked for is the one of that height. *)
OnChain ==
  pc = "getblockheader" /\ seen = reorg => hash = BlockAt(NextHeight)

NoNulls == call.enc # "btcspv" => \A k \in DOMAIN headers : headers[k] # None

Confirmed == pc = "validated" => (valid <=> ValidProof)

(* Until a block is disconnected, what getTX has found stays where it was, *)
(* and its header is found there.                                          *)
Found ==
  /\ IsProof /\ seen = reorg
  /\ pc \in {"getBlockHeader", "getHeader", "getblockheader",
             "getblockbyheight", "returned", "validated"}
  => BlockAt(height) # None /\ \A k \in DOMAIN headers : headers[k] # None

IInv ==
  /\ TypeOK /\ Progress /\ Branched /\ OnChain /\ NoNulls /\ Confirmed
  /\ UndisturbedIsChain /\ Found

(***************************************************************************)
(* The node.                                                               *)
(***************************************************************************)
LEMMA BlockAtType ==
  ASSUME best \in Seq(Blocks), NEW h \in Int
  PROVE  BlockAt(h) \in Blocks \cup {None}
  BY DEF BlockAt, Tip

(* A block that joins the chain leaves those below it where they are. *)
LEMMA ConnectKeepsBlocks ==
  ASSUME NodeTypeOK, Connect, NEW h \in Int, BlockAt(h) # None
  PROVE  BlockAt(h)' = BlockAt(h)
  <1>1. PICK b \in Blocks : best' = Append(best, b)
    BY DEF Connect
  <1>2. best \in Seq(Blocks) /\ h \in 0..Tip
    BY DEF NodeTypeOK, BlockAt
  <1>3. Len(best') = Len(best) + 1 /\ best'[h + 1] = best[h + 1]
    BY <1>1, <1>2 DEF Tip
  <1>4. QED
    BY <1>2, <1>3 DEF BlockAt, Tip

LEMMA NodeKeepsType ==
  ASSUME NodeTypeOK, NodeStep
  PROVE  NodeTypeOK' /\ (reorg' = reorg \/ reorg' = reorg + 1)
  <1>1. CASE Connect
    <2>1. PICK b \in Blocks \ {Genesis} :
            Parent[b] = best[Len(best)] /\ best' = Append(best, b)
      BY <1>1 DEF Connect
    <2>2. best' \in Seq(Blocks) /\ best' # <<>> /\ best'[1] = Genesis
      BY <2>1 DEF NodeTypeOK
    <2>3. ASSUME NEW k \in 2..Len(best')
          PROVE  Parent[best'[k]] = best'[k - 1]
      <3>1. CASE k = Len(best) + 1
        BY <2>1, <3>1 DEF NodeTypeOK
      <3>2. CASE k \in 2..Len(best)
        BY <2>1, <3>2 DEF NodeTypeOK
      <3>3. QED
        BY <2>1, <3>1, <3>2 DEF NodeTypeOK
    <2>4. QED
      BY <1>1, <2>2, <2>3 DEF Connect, NodeTypeOK
  <1>2. CASE Disconnect
    <2>1. /\ best' = SubSeq(best, 1, Len(best) - 1) /\ Len(best) > 1
          /\ best \in Seq(Blocks) /\ reorg' = reorg + 1 /\ reorg < MaxReorg
      BY <1>2 DEF Disconnect, Tip, NodeTypeOK
    <2>2. /\ best' \in Seq(Blocks) /\ Len(best') = Len(best) - 1
          /\ \A k \in 1..Len(best') : best'[k] = best[k]
      BY <2>1
    <2>3. best' # <<>> /\ best'[1] = Genesis
      <3>1. Len(best') >= 1 /\ 1 \in 1..Len(best')
        BY <2>1, <2>2
      <3>2. best'[1] = Genesis
        BY <2>2, <3>1 DEF NodeTypeOK
      <3>3. QED
        BY <3>1, <3>2
    <2>4. \A k \in 2..Len(best') : Parent[best'[k]] = best'[k - 1]
      BY <2>1, <2>2 DEF NodeTypeOK
    <2>5. reorg' \in 0..MaxReorg
      BY <2>1, NodeAssumption DEF NodeTypeOK
    <2>6. QED
      BY <2>1, <2>2, <2>3, <2>4, <2>5 DEF NodeTypeOK
  <1>3. QED
    BY <1>1, <1>2 DEF NodeStep

LEMMA NodeKeepsIInv ==
  ASSUME IInv, NodeStep, UNCHANGED clientVars
  PROVE  IInv'
  <1>1. NodeTypeOK' /\ (reorg' = reorg \/ reorg' = reorg + 1)
    BY NodeKeepsType DEF IInv, TypeOK
  <1>2. /\ UNCHANGED <<pc, call, height, hash, headers, branch, valid, seen>>
        /\ NodeTypeOK /\ seen \in 0..reorg /\ reorg \in Nat
    BY NodeAssumption DEF clientVars, IInv, TypeOK, NodeTypeOK
  <1>3. TypeOK'
    BY <1>1, <1>2 DEF IInv, TypeOK, ProofCalls, HeadersCalls, Awaits, Ended
  <1>4. Progress' /\ Branched' /\ NoNulls' /\ Confirmed'
    BY <1>2 DEF IInv, Progress, Branched, NoNulls, Confirmed, ValidProof,
                IsProof, Missing
  <1>5. ASSUME seen' = reorg', NEW h \in Int, BlockAt(h) # None
        PROVE  seen = reorg /\ BlockAt(h)' = BlockAt(h)
    <2>1. reorg' = reorg /\ seen = reorg
      BY <1>1, <1>2, <1>5
    <2>2. Connect
      BY <1>2, <2>1 DEF NodeStep, Disconnect
    <2>3. QED
      BY <1>2, <1>5, <2>1, <2>2, ConnectKeepsBlocks
  <1>6. /\ height \in Int /\ Len(headers) \in Int
        /\ \A k \in DOMAIN headers : height + k - 1 \in Int
    BY DEF IInv, TypeOK
  <1>7. seen' = reorg' => seen = reorg
    BY <1>1, <1>2
  <1>8. OnChain'
    <2>1. ASSUME pc' = "getblockheader", seen' = reorg'
          PROVE  hash' = BlockAt(NextHeight)'
      <3>1. hash # None /\ hash = BlockAt(NextHeight) /\ NextHeight \in Int
        BY <1>2, <1>6, <1>7, <2>1 DEF IInv, Progress, OnChain, NextHeight
      <3>2. BlockAt(NextHeight)' = BlockAt(NextHeight)
        BY <1>2, <1>5, <2>1, <3>1 DEF NextHeight, BlockAt, Tip
      <3>3. QED
        BY <1>2, <3>1, <3>2
    <2>2. QED
      BY <2>1 DEF OnChain
  <1>9. UndisturbedIsChain'
    <2>1. ASSUME pc' # "idle", seen' = reorg'
          PROVE  /\ \A k \in DOMAIN headers' :
                      headers'[k] \in {None, BlockAt(height + k - 1)'}
                 /\ branch' \in {None, BlockAt(height)'}
      <3>1. /\ \A k \in DOMAIN headers :
                 headers[k] \in {None, BlockAt(height + k - 1)}
            /\ branch \in {None, BlockAt(height)}
        BY <1>2, <1>7, <2>1 DEF IInv, UndisturbedIsChain
      <3>2. ASSUME NEW k \in DOMAIN headers'
            PROVE  headers'[k] \in {None, BlockAt(height + k - 1)'}
        BY <1>2, <1>5, <1>6, <2>1, <3>1, <3>2 DEF BlockAt, Tip
      <3>3. branch' \in {None, BlockAt(height)'}
        BY <1>2, <1>5, <1>6, <2>1, <3>1 DEF BlockAt, Tip
      <3>4. QED
        BY <3>2, <3>3
    <2>2. QED
      BY <1>2, <2>1 DEF UndisturbedIsChain, BlockAt, Tip
  <1>10. Found'
    <2> SUFFICES ASSUME IsProof', seen' = reorg',
                        pc' \in {"getBlockHeader", "getHeader",
                                "getblockheader", "getblockbyheight",
                                "returned", "validated"}
                 PROVE  /\ BlockAt(height)' # None
                        /\ \A k \in DOMAIN headers' : headers'[k] # None
      BY DEF Found
    <2>1. BlockAt(height) # None /\ \A k \in DOMAIN headers : headers[k] # None
      BY <1>2, <1>7 DEF IInv, Found, IsProof
    <2>2. BlockAt(height)' = BlockAt(height)
      BY <1>2, <1>5, <1>6, <2>1 DEF BlockAt, Tip
    <2>3. QED
      BY <1>2, <2>1, <2>2
  <1>11. QED
    BY <1>3, <1>4, <1>8, <1>9, <1>10 DEF IInv

(***************************************************************************)
(* The client.                                                             *)
(***************************************************************************)
LEMMA InitIInv == Init => IInv
  <1> SUFFICES ASSUME Init PROVE IInv
    OBVIOUS
  <1>1. NodeTypeOK /\ seen \in 0..reorg
    BY NodeAssumption DEF Init, NodeInit, NodeTypeOK
  <1>2. height \in Nat
    <2>1. height = 0 \/ height \in Heights
      BY DEF Init
    <2>2. CASE height = 0
      BY <2>2
    <2>3. CASE height \in Heights
      BY <2>3, FetchAssumption
    <2>4. QED
      BY <2>1, <2>2, <2>3
  <1>3. call \in ProofCalls \cup HeadersCalls
    BY DEF Init
  <1>4. call.count \in Nat
    BY <1>3, FetchAssumption DEF ProofCalls, ProofCall, HeadersCalls,
                                 HeadersCall
  <1>5. /\ pc = "idle" /\ headers = <<>> /\ branch = None /\ hash = None
        /\ valid = FALSE
    BY DEF Init
  <1>6. TypeOK
    <2>1. headers \in Seq(Blocks \cup {None}) /\ Len(headers) <= call.count
      BY <1>4, <1>5
    <2>2. QED
      BY <1>1, <1>2, <1>3, <1>5, <2>1 DEF TypeOK
  <1>7. Progress /\ Branched /\ OnChain /\ NoNulls /\ Confirmed /\ Found
    BY <1>5 DEF Progress, Branched, OnChain, NoNulls, Confirmed, Found
  <1>8. UndisturbedIsChain
    BY <1>5 DEF UndisturbedIsChain
  <1>9. QED
    BY <1>6, <1>7, <1>8 DEF IInv

(* What holds before each step of the client. *)
LEMMA Known ==
  ASSUME IInv
  PROVE  /\ NodeTypeOK /\ best \in Seq(Blocks) /\ reorg \in Nat
         /\ call.count \in Nat /\ (IsProof => call.count = 1)
         /\ (IsProof => call.enc = "btcspv")
         /\ headers \in Seq(Blocks \cup {None}) /\ Len(headers) \in Nat
         /\ height \in Nat /\ height \in Int /\ NextHeight \in Int
  <1>1. call.count \in Nat /\ (IsProof => call.count = 1 /\ call.enc = "btcspv")
    BY FetchAssumption DEF IInv, TypeOK, ProofCalls, ProofCall, HeadersCalls,
                           HeadersCall, IsProof
  <1>2. QED
    BY <1>1, NodeAssumption DEF IInv, TypeOK, NodeTypeOK, NextHeight

LEMMA ProofsAreWanted ==
  ASSUME IInv, IsProof
  PROVE  call.txid \in Wanted /\ call.txid \in DOMAIN Tx
  <1>1. call \in ProofCalls
    BY DEF IInv, TypeOK, IsProof, HeadersCalls, HeadersCall
  <1>2. call.txid \in Wanted
    BY <1>1 DEF ProofCalls, ProofCall
  <1>3. QED
    BY <1>2, FetchAssumption

(* The end of a call changes nothing but the pc. *)
LEMMA EndKeepsIInv ==
  ASSUME IInv, UNCHANGED nodeVars, pc # "idle",
         NEW how \in {"failed", "listed", "getHeader"}, End(how),
         pc \notin {"returned", "validated"},
         how = "listed" => Len(headers) = call.count,
         how = "getHeader" =>
           IsProof /\ headers = <<>> /\ pc = "getBlockHeader"
  PROVE  IInv'
  <1>1. UNCHANGED <<best, reorg, call, height, hash, headers, branch, valid, seen>>
        /\ pc' = how
    BY DEF End, nodeVars
  <1>2. TypeOK'
    BY <1>1 DEF IInv, TypeOK, NodeTypeOK, Awaits, Ended, ProofCalls,
                HeadersCalls
  <1>3. Progress' /\ Branched' /\ OnChain' /\ NoNulls' /\ Confirmed'
    BY <1>1 DEF IInv, Progress, Branched, OnChain, NoNulls, Confirmed, IsProof,
                Missing
  <1>4. UndisturbedIsChain'
    BY <1>1 DEF IInv, UndisturbedIsChain, BlockAt, Tip
  <1>5. Found'
    BY <1>1 DEF IInv, Found, IsProof, BlockAt, Tip
  <1>6. QED
    BY <1>2, <1>3, <1>4, <1>5 DEF IInv

(* The tip's height, or that of a transaction, takes the place of the       *)
(* argument before anything has been fetched.                               *)
LEMMA HeightKeepsIInv ==
  ASSUME IInv, UNCHANGED nodeVars, height' \in Nat,
         UNCHANGED <<call, hash, headers, branch, valid, seen>>,
         \/ pc = "getTX" /\ pc' = "getBlockHeader" /\ BlockAt(height') # None
         \/ pc = "getInfo" /\ pc' = "getHeader"
  PROVE  IInv'
  <1>1. headers = <<>> /\ branch = None
    BY DEF IInv, Progress, Branched
  <1>2. TypeOK'
    BY DEF IInv, TypeOK, NodeTypeOK, Awaits, Ended, ProofCalls, HeadersCalls,
           nodeVars
  <1>3. Progress' /\ Branched' /\ OnChain' /\ NoNulls' /\ Confirmed'
    BY <1>1 DEF IInv, Progress, Branched, OnChain, NoNulls, Confirmed, IsProof,
                Missing
  <1>4. UndisturbedIsChain'
    BY <1>1 DEF UndisturbedIsChain
  <1>5. Found'
    <2>1. CASE pc = "getTX"
      <3>1. BlockAt(height)' = BlockAt(height')
        BY DEF BlockAt, Tip, nodeVars
      <3>2. DOMAIN headers' = {}
        BY <1>1
      <3>3. QED
        BY <2>1, <3>1, <3>2 DEF Found
    <2>2. CASE pc = "getInfo"
      BY <2>2 DEF IInv, Progress, Found, IsProof
    <2>3. QED
      BY <2>1, <2>2
  <1>6. QED
    BY <1>2, <1>3, <1>4, <1>5 DEF IInv

LEMMA PushKeepsIInv ==
  ASSUME IInv, UNCHANGED nodeVars, NEW block \in Blocks \cup {None},
         pc \in {"getHeader", "getblockheader"}, Missing, Push(block),
         seen = reorg => block \in {None, BlockAt(NextHeight)},
         call.enc # "btcspv" => block # None,
         IsProof /\ seen = reorg => block # None
  PROVE  IInv'
  <1> DEFINE n == Len(headers)
  <1>1. /\ headers' = Append(headers, block)
        /\ pc' = IF IsProof THEN "getblockbyheight" ELSE "getHeader"
        /\ UNCHANGED <<best, reorg, call, height, hash, branch, valid, seen>>
    BY DEF Push, nodeVars
  <1>2. /\ headers' \in Seq(Blocks \cup {None}) /\ Len(headers') = n + 1
        /\ n \in Nat /\ headers'[n + 1] = block
        /\ \A k \in 1..n : headers'[k] = headers[k]
    BY <1>1, Known
  <1>3. Len(headers') <= call.count
    BY <1>2, Known DEF Missing
  <1>4. TypeOK'
    BY <1>1, <1>2, <1>3
    DEF IInv, TypeOK, NodeTypeOK, Awaits, Ended, ProofCalls, HeadersCalls
  <1>5. branch = None
    BY DEF IInv, Branched
  <1>6. Progress'
    <2>1. CASE IsProof
      <3>1. n = 0 /\ pc' = "getblockbyheight" /\ IsProof'
        BY <1>1, <2>1 DEF IInv, Progress, IsProof
      <3>2. QED
        BY <1>2, <3>1 DEF Progress
    <2>2. CASE ~IsProof
      BY <1>1, <2>2 DEF Progress, IsProof
    <2>3. QED
      BY <2>1, <2>2
  <1>7. Branched' /\ OnChain' /\ Confirmed'
    BY <1>1, <1>5 DEF Branched, OnChain, Confirmed
  <1>8. NoNulls'
    <2>1. ASSUME call.enc # "btcspv", NEW k \in 1..n + 1
          PROVE  headers'[k] # None
      <3>1. CASE k \in 1..n
        BY <1>2, <2>1, <3>1, Known DEF IInv, NoNulls
      <3>2. CASE k = n + 1
        BY <1>2, <2>1, <3>2
      <3>3. QED
        BY <1>2, <3>1, <3>2
    <2>2. DOMAIN headers' = 1..n + 1
      BY <1>2
    <2>3. QED
      BY <1>1, <2>1, <2>2 DEF NoNulls
  <1>9. UndisturbedIsChain'
    <2>1. ASSUME seen = reorg, NEW k \in 1..n + 1
          PROVE  headers'[k] \in {None, BlockAt(height + k - 1)}
      <3>1. CASE k \in 1..n
        <4>1. k \in DOMAIN headers
          BY <3>1, Known
        <4>2. headers[k] \in {None, BlockAt(height + k - 1)}
          BY <2>1, <4>1 DEF IInv, UndisturbedIsChain
        <4>3. QED
          BY <1>2, <3>1, <4>2
      <3>2. CASE k = n + 1
        <4>1. height + k - 1 = NextHeight
          BY <1>2, <3>2, Known DEF NextHeight
        <4>2. QED
          BY <1>2, <2>1, <3>2, <4>1
      <3>3. QED
        BY <1>2, <3>1, <3>2
    <2>2. DOMAIN headers' = 1..n + 1
      BY <1>2
    <2>3. \A h : BlockAt(h)' = BlockAt(h)
      BY <1>1 DEF BlockAt, Tip
    <2>4. QED
      BY <1>1, <1>5, <2>1, <2>2, <2>3 DEF UndisturbedIsChain, BlockAt, Tip
  <1>10. Found'
    <2> SUFFICES ASSUME IsProof', seen' = reorg'
                 PROVE  /\ BlockAt(height)' # None
                        /\ \A k \in DOMAIN headers' : headers'[k] # None
      BY DEF Found
    <2>1. IsProof /\ seen = reorg
      BY <1>1 DEF IsProof
    <2>2. BlockAt(height) # None /\ headers = <<>>
      BY <2>1 DEF IInv, Found, Progress
    <2>3. BlockAt(height)' # None
      BY <1>1, <2>2 DEF BlockAt, Tip
    <2>4. DOMAIN headers' = {1} /\ headers'[1] = block
      BY <1>1, <2>2
    <2>5. QED
      BY <2>1, <2>3, <2>4
  <1>11. QED
    BY <1>4, <1>6, <1>7, <1>8, <1>9, <1>10 DEF IInv

LEMMA ClientKeepsIInv ==
  ASSUME IInv, Client, UNCHANGED nodeVars
  PROVE  IInv'
  <1>1. CASE Call
    <2>1. /\ pc = "idle" /\ seen' = reorg
          /\ pc' = IF IsProof THEN "getTX"
                   ELSE IF height = 0 THEN "getInfo" ELSE "getHeader"
          /\ UNCHANGED <<best, reorg, call, height, hash, headers, branch, valid>>
      BY <1>1 DEF Call, nodeVars
    <2>2. headers = <<>> /\ branch = None
      BY <2>1 DEF IInv, Progress, Branched
    <2>3. TypeOK'
      BY <2>1, Known DEF IInv, TypeOK, NodeTypeOK, Awaits, Ended, ProofCalls,
                         HeadersCalls
    <2>4. Progress' /\ Branched' /\ OnChain' /\ NoNulls' /\ Confirmed'
      BY <2>1, <2>2 DEF IInv, Progress, Branched, OnChain, NoNulls, Confirmed,
                        IsProof, Missing
    <2>5. UndisturbedIsChain'
      BY <2>1, <2>2 DEF UndisturbedIsChain
    <2>6. Found'
      BY <2>1 DEF Found, IsProof
    <2>7. QED
      BY <2>3, <2>4, <2>5, <2>6 DEF IInv
  <1>2. CASE GetTX
    <2>1. CASE HeightOf(call.txid) < 0
      BY <1>2, <2>1, EndKeepsIInv DEF GetTX
    <2>2. CASE ~(HeightOf(call.txid) < 0)
      <3>1. /\ pc = "getTX" /\ height' = HeightOf(call.txid)
            /\ pc' = "getBlockHeader"
            /\ UNCHANGED <<call, hash, headers, branch, valid, seen>>
        BY <1>2, <2>2 DEF GetTX
      <3>2. height' \in Nat /\ BlockAt(height') # None
        <4>1. CASE \E h \in 0..Tip : call.txid \in Txs[best[h + 1]]
          <5>1. HeightOf(call.txid) \in 0..Tip
            BY <4>1 DEF HeightOf
          <5>2. BlockAt(height') = best[height' + 1]
            BY <3>1, <5>1 DEF BlockAt
          <5>3. best[height' + 1] \in Blocks
            BY <3>1, <5>1, Known DEF Tip
          <5>4. QED
            BY <3>1, <5>1, <5>2, <5>3, Known, NodeAssumption DEF Tip
        <4>2. CASE ~\E h \in 0..Tip : call.txid \in Txs[best[h + 1]]
          BY <2>2, <4>2 DEF HeightOf
        <4>3. QED
          BY <4>1, <4>2
      <3>3. QED
        BY <3>1, <3>2, HeightKeepsIInv
    <2>3. QED
      BY <2>1, <2>2
  <1>3. CASE GetBlockHeader
    <2>1. pc = "getBlockHeader" /\ IsProof /\ headers = <<>>
      BY <1>3 DEF GetBlockHeader, IInv, Progress
    <2>2. End("failed") \/ End("getHeader")
      BY <1>3 DEF GetBlockHeader
    <2>3. QED
      BY <2>1, <2>2, EndKeepsIInv
  <1>4. CASE GetInfo
    <2>1. /\ pc = "getInfo" /\ pc' = "getHeader" /\ height' = Tip
          /\ UNCHANGED <<call, hash, headers, branch, valid, seen>>
      BY <1>4 DEF GetInfo
    <2>2. height' \in Nat
      BY <2>1, Known DEF Tip, NodeTypeOK
    <2>3. QED
      BY <2>1, <2>2, HeightKeepsIInv
  <1>5. CASE GetHeader
    <2>1. pc = "getHeader" /\ Missing
          /\ BlockAt(NextHeight) \in Blocks \cup {None}
      BY <1>5, Known, BlockAtType DEF GetHeader
    <2>2. CASE BlockAt(NextHeight) = None /\ NoHeader
      <3>1. CASE call.enc = "btcspv"
        <4>1. IsProof => NextHeight = height
          BY <2>1, Known DEF IInv, Progress, NextHeight
        <4>2. ~(IsProof /\ seen = reorg)
          BY <2>1, <2>2, <4>1 DEF IInv, Found
        <4>3. QED
          BY <2>1, <2>2, <3>1, <4>2, PushKeepsIInv DEF NoHeader
      <3>2. CASE call.enc # "btcspv"
        BY <2>1, <2>2, <3>2, EndKeepsIInv DEF NoHeader
      <3>3. QED
        BY <3>1, <3>2
    <2>3. CASE BlockAt(NextHeight) # None /\ Push(BlockAt(NextHeight))
      BY <2>1, <2>3, PushKeepsIInv
    <2>4. CASE /\ BlockAt(NextHeight) # None
               /\ hash' = BlockAt(NextHeight) /\ pc' = "getblockheader"
               /\ UNCHANGED <<call, height, headers, branch, valid, seen>>
      <3>1. UNCHANGED <<best, reorg>>
        BY DEF nodeVars
      <3>2. TypeOK'
        BY <2>1, <2>4, <3>1 DEF IInv, TypeOK, NodeTypeOK, Awaits, Ended,
                                ProofCalls, HeadersCalls
      <3>3. Progress' /\ Branched' /\ NoNulls' /\ Confirmed'
        BY <2>1, <2>4 DEF IInv, Progress, Branched, NoNulls, Confirmed, IsProof,
                          Missing
      <3>4. OnChain' /\ UndisturbedIsChain'
        BY <2>1, <2>4, <3>1 DEF IInv, OnChain, UndisturbedIsChain, NextHeight,
                                BlockAt, Tip
      <3>5. Found'
        BY <2>1, <2>4, <3>1 DEF IInv, Found, IsProof, BlockAt, Tip
      <3>6. QED
        BY <3>2, <3>3, <3>4, <3>5 DEF IInv
    <2>5. QED
      BY <1>5, <2>2, <2>3, <2>4 DEF GetHeader
  <1>6. CASE GetRawHeader
    <2>1. /\ pc = "getblockheader" /\ Push(hash) /\ Missing /\ hash # None
          /\ hash \in Blocks \cup {None}
      BY <1>6 DEF GetRawHeader, IInv, Progress, TypeOK
    <2>2. seen = reorg => hash = BlockAt(NextHeight)
      BY <2>1 DEF IInv, OnChain
    <2>3. QED
      BY <2>1, <2>2, PushKeepsIInv
  <1>7. CASE ReturnHeaders
    <2>1. pc = "getHeader" /\ Len(headers) = call.count /\ End("listed")
      BY <1>7, Known DEF ReturnHeaders, Missing, IInv, TypeOK
    <2>2. QED
      BY <2>1, EndKeepsIInv
  <1>8. CASE GetMerkleProof
    <2>1. pc = "getblockbyheight" /\ IsProof /\ Len(headers) = 1
      BY <1>8 DEF GetMerkleProof, IInv, Progress
    <2>2. CASE End("failed")
      BY <2>1, <2>2, EndKeepsIInv
    <2>3. CASE /\ BlockAt(height) # None
               /\ call.txid \in Txs[BlockAt(height)]
               /\ branch' = BlockAt(height) /\ pc' = "returned"
               /\ UNCHANGED <<call, height, hash, headers, valid, seen>>
      <3>1. UNCHANGED <<best, reorg>>
        BY DEF nodeVars
      <3>2. BlockAt(height) \in Blocks
        BY <2>3, Known, BlockAtType
      <3>3. TypeOK'
        <4>1. branch' \in Blocks \cup {None}
          BY <2>3, <3>2
        <4>2. UNCHANGED <<best, reorg, call, height, hash, headers, valid, seen>>
          BY <2>3, <3>1
        <4>3. NodeTypeOK'
          BY <4>2 DEF IInv, TypeOK, NodeTypeOK
        <4>4. /\ call' \in ProofCalls \cup HeadersCalls
              /\ height' \in Nat /\ hash' \in Blocks \cup {None}
              /\ headers' \in Seq(Blocks \cup {None}) /\ Len(headers') <= call'.count
              /\ valid' \in BOOLEAN /\ seen' \in 0..reorg'
          BY <4>2 DEF IInv, TypeOK
        <4>5. pc' = "returned"
          BY <2>3
        <4>6. QED
          BY <4>1, <4>3, <4>4, <4>5 DEF TypeOK
      <3>4. Progress' /\ Branched' /\ OnChain' /\ NoNulls' /\ Confirmed'
        BY <2>1, <2>3, <3>2 DEF IInv, Progress, Branched, OnChain, NoNulls,
                                Confirmed, IsProof, Missing
      <3>5. UndisturbedIsChain'
        BY <2>1, <2>3, <3>1 DEF IInv, UndisturbedIsChain, BlockAt, Tip
      <3>6. Found'
        BY <2>1, <2>3, <3>1 DEF IInv, Found, IsProof, BlockAt, Tip
      <3>7. QED
        BY <3>3, <3>4, <3>5, <3>6 DEF IInv
    <2>4. QED
      BY <1>8, <2>2, <2>3 DEF GetMerkleProof
  <1>9. CASE RequestFails
    BY <1>9, EndKeepsIInv DEF RequestFails
  <1>10. CASE Validate
    <2>1. /\ pc = "returned" /\ pc' = "validated" /\ valid' = ValidProof
          /\ UNCHANGED <<best, reorg, call, height, hash, headers, branch, seen>>
      BY <1>10 DEF Validate, nodeVars
    <2>2. valid' \in BOOLEAN
      BY <2>1 DEF ValidProof
    <2>3. TypeOK'
      BY <2>1, <2>2 DEF IInv, TypeOK, NodeTypeOK, Awaits, Ended, ProofCalls,
                        HeadersCalls
    <2>4. Progress' /\ Branched' /\ OnChain' /\ NoNulls'
      BY <2>1 DEF IInv, Progress, Branched, OnChain, NoNulls, IsProof, Missing
    <2>5. Confirmed'
      BY <2>1 DEF Confirmed, ValidProof
    <2>6. UndisturbedIsChain'
      BY <2>1 DEF IInv, UndisturbedIsChain, BlockAt, Tip
    <2>7. Found'
      BY <2>1 DEF IInv, Found, IsProof, BlockAt, Tip
    <2>8. QED
      BY <2>3, <2>4, <2>5, <2>6, <2>7 DEF IInv
  <1>11. QED
    BY <1>1, <1>2, <1>3, <1>4, <1>5, <1>6, <1>7, <1>8, <1>9, <1>10 DEF Client

LEMMA NextIInv == IInv /\ [Next]_vars => IInv'
  <1> SUFFICES ASSUME IInv, [Next]_vars PROVE IInv'
    OBVIOUS
  <1>1. CASE Client /\ UNCHANGED nodeVars
    BY <1>1, ClientKeepsIInv
  <1>2. CASE NodeStep /\ UNCHANGED clientVars
    BY <1>2, NodeKeepsIInv
  <1>3. CASE UNCHANGED vars
    BY <1>3
    DEF vars, nodeVars, clientVars, IInv, TypeOK, NodeTypeOK, Awaits, Ended,
        ProofCalls, HeadersCalls, Progress, Branched, OnChain, NoNulls,
        Confirmed, ValidProof, UndisturbedIsChain, Found, IsProof, Missing,
        NextHeight, BlockAt, Tip
  <1>4. QED
    BY <1>1, <1>2, <1>3 DEF Next

(***************************************************************************)
(* The theorems.                                                           *)
(***************************************************************************)
(* The invariant holds at every moment of every call. *)
THEOREM Invariance == Spec => []IInv
  BY InitIInv, NextIInv, PTL DEF Spec

(* The variables keep their types: no height below the genesis block is    *)
(* asked for, and no more headers than are wanted.                         *)
THEOREM TypeCorrect == Spec => []TypeOK
  <1>1. IInv => TypeOK
    BY DEF IInv
  <1>2. QED
    BY <1>1, Invariance, PTL

(* Whatever the chain does between two requests, the header of a proof     *)
(* that validates is that of a block that holds the transaction.           *)
THEOREM ValidatedConfirms == Spec => []ValidatedIsConfirmed
  <1>1. IInv => ValidatedIsConfirmed
    <2> SUFFICES ASSUME IInv, pc = "validated", valid
                 PROVE  headers[1] \in Blocks /\ call.txid \in Txs[headers[1]]
      BY DEF ValidatedIsConfirmed
    <2>1. /\ headers[1] # None /\ Root[branch] = Root[headers[1]]
          /\ branch \in Blocks /\ call.txid \in Txs[branch]
          /\ Len(headers) = 1
      BY DEF IInv, Confirmed, ValidProof, Branched, Progress
    <2>2. headers[1] \in Blocks
      <3>1. 1 \in 1..Len(headers) /\ headers \in Seq(Blocks \cup {None})
        BY <2>1, Known
      <3>2. headers[1] \in Blocks \cup {None}
        BY <3>1
      <3>3. QED
        BY <2>1, <3>2
    <2>3. QED
      BY <2>1, <2>2, FetchAssumption
  <1>2. QED
    BY <1>1, Invariance, PTL

(* A call during which no block is disconnected sees one chain, however    *)
(* many blocks join it.                                                    *)
THEOREM UndisturbedSeesChain == Spec => []UndisturbedIsChain
  <1>1. IInv => UndisturbedIsChain
    BY DEF IInv
  <1>2. QED
    BY <1>1, Invariance, PTL

(* And it holds the inputs and outputs of that transaction, however wide   *)
(* its integers are and wherever parseTxHex has cut it.                    *)
THEOREM ValidatedWhole == Spec => []ValidatedIsWhole
  <1>1. IInv => ValidatedIsWhole
    <2> SUFFICES ASSUME IInv, pc = "validated", valid
                 PROVE  /\ txinfo[call.txid].vin = Vector(Tx[call.txid].ins)
                        /\ txinfo[call.txid].vout = Vector(Tx[call.txid].outs)
      BY DEF ValidatedIsWhole
    <2>1. PartsAreValid[call.txid] /\ IsProof
      BY DEF IInv, Confirmed, ValidProof, Progress
    <2>2. call.txid \in Wanted /\ call.txid \in DOMAIN Tx
      BY <2>1, ProofsAreWanted
    <2>3. txinfo[call.txid] = parseTxHex(Raw(call.txid))
      BY <2>2 DEF txinfo
    <2>4. ValidParts(call.txid, parseTxHex(Raw(call.txid)))
      BY <2>1, <2>2, <2>3 DEF PartsAreValid
    <2>5. QED
      BY <2>2, <2>3, <2>4, ValidIsWhole
  <1>2. QED
    BY <1>1, Invariance, PTL

(* Without a reorganisation a proof validates, if nothing in its           *)
(* transaction is wide.                                                    *)
THEOREM UndisturbedValidates == Spec => []UndisturbedIsValid
  <1>1. IInv => UndisturbedIsValid
    <2> SUFFICES ASSUME IInv, pc = "validated", seen = reorg, Narrow(call.txid)
                 PROVE  valid
      BY DEF UndisturbedIsValid
    <2>1. /\ IsProof /\ Len(headers) = 1 /\ branch \in Blocks
          /\ (valid <=> ValidProof)
      BY DEF IInv, Confirmed, Branched, Progress
    <2>2. 1 \in DOMAIN headers
      BY <2>1, Known
    <2>3. headers[1] # None
      BY <2>1, <2>2 DEF IInv, Found
    <2>4. headers[1] = BlockAt(height) /\ branch = BlockAt(height)
      <3>1. height + 1 - 1 = height
        BY Known
      <3>2. /\ headers[1] \in {None, BlockAt(height + 1 - 1)}
            /\ branch \in {None, BlockAt(height)}
        BY <2>2 DEF IInv, UndisturbedIsChain
      <3>3. QED
        BY <2>1, <2>3, <3>1, <3>2, NodeAssumption
    <2>5. call.txid \in Wanted /\ call.txid \in DOMAIN Tx
      BY <2>1, ProofsAreWanted
    <2>6. ValidParts(call.txid, parseTxHex(Raw(call.txid)))
      BY <2>5, NarrowIsValid
    <2>7. PartsAreValid[call.txid]
      BY <2>5, <2>6 DEF PartsAreValid, txinfo
    <2>8. QED
      BY <2>1, <2>3, <2>4, <2>7 DEF ValidProof
  <1>2. QED
    BY <1>1, Invariance, PTL

(* In the json and the hex encoding the headers are all there, or the call *)
(* throws.                                                                 *)
THEOREM OthersThrowAlways == Spec => []OthersThrow
  <1>1. IInv => OthersThrow
    BY DEF IInv, Progress, NoNulls, OthersThrow
  <1>2. QED
    BY <1>1, Invariance, PTL
=============================================================================
