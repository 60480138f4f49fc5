--------------------------- MODULE SwapDemoProofs ---------------------------
(***************************************************************************)
(* What main of swap-demo.c keeps, for every witness and every stack       *)
(* behind it: its variables have their types, what it decides upon lies in *)
(* the witness, no error of the chain check is taken for work, and it      *)
(* keeps the promise of SwapSpec.                                          *)
(*                                                                         *)
(* The promise reads the witness by its format, main with a walk that may  *)
(* leave it.  They meet in two invariants: the walk stands where the       *)
(* elements of any way to read the witness end (Faithful), and what main   *)
(* accepts is a vector (Walked, Accepted).  There is then one way at most. *)
(***************************************************************************)
EXTENDS SwapDemo, WellFoundedInduction, TLAPS

(***************************************************************************)
(* Views and elements.                                                     *)
(***************************************************************************)
(* AS_LE_* and the counts read bytes, wherever they read.                  *)
LEMMA AtByte ==
  ASSUME given \in Cases, NEW o \in Nat
  PROVE  At(o) \in Bytes
<1>1. witness.bytes \in Seq(Bytes) /\ given.beyond \in Seq(Bytes)
  BY SwapAssumption DEF witness
<1>2. 0 \in Bytes
  BY CompactAssumption DEF Bytes
<1>3. Front \in Nat
  BY SwapAssumption
<1>4. Len(witness.bytes) \in Nat /\ Len(given.beyond) \in Nat
  BY <1>1
<1>5. CASE Front + o < Len(witness.bytes)
  <2>1. Front + o + 1 \in 1..Len(witness.bytes)
    BY <1>3, <1>4, <1>5
  <2>2. witness.bytes[Front + o + 1] \in Bytes
    BY <1>1, <2>1
  <2> QED BY <1>5, <2>2 DEF At
<1>6. CASE /\ ~(Front + o < Len(witness.bytes))
           /\ Front + o - Len(witness.bytes) < Len(given.beyond)
  <2>1. Front + o - Len(witness.bytes) + 1 \in 1..Len(given.beyond)
    <3> DEFINE w == Len(witness.bytes)  m == Len(given.beyond)
    <3>1. w \in Nat /\ m \in Nat /\ ~(Front + o < w) /\ Front + o - w < m
      BY <1>4, <1>6
    <3> HIDE DEF w, m
    <3>2. Front + o - w + 1 \in 1..m
      BY <1>3, <3>1
    <3> QED BY <3>2 DEF w, m
  <2>2. given.beyond[Front + o - Len(witness.bytes) + 1] \in Bytes
    BY <1>1, <2>1
  <2> QED BY <1>6, <2>2 DEF At
<1>7. CASE /\ ~(Front + o < Len(witness.bytes))
           /\ ~(Front + o - Len(witness.bytes) < Len(given.beyond))
  BY <1>2, <1>7 DEF At
<1> QED BY <1>5, <1>6, <1>7

(* A view is a sequence of bytes of its length. *)
LEMMA SliceBytes ==
  ASSUME given \in Cases, NEW loc \in Nat, NEW len \in Nat
  PROVE  /\ Slice(loc, len) \in Seq(Bytes)
         /\ Len(Slice(loc, len)) = len
<1>1. \A k \in 1..len : At(loc + k - 1) \in Bytes
  BY AtByte
<1> QED BY <1>1 DEF Slice

(* A part of a sequence, element by element. *)
LEMMA PartOfSeq ==
  ASSUME NEW S, NEW s \in Seq(S), NEW from \in Nat, NEW len \in Nat,
         from + len <= Len(s)
  PROVE  /\ SubSeq(s, from + 1, from + len) \in Seq(S)
         /\ Len(SubSeq(s, from + 1, from + len)) = len
         /\ SubSeq(s, from + 1, from + len) = [k \in 1..len |-> s[from + k]]
<1> DEFINE n == Len(s)  p == SubSeq(s, from + 1, from + len)
<1>1. n \in Nat
  OBVIOUS
<1>2. from + 1 \in 1..n + 1 /\ from + len \in 0..n /\ from + len - (from + 1) + 1 = len
  BY <1>1
<1>3. p \in Seq(S) /\ Len(p) = len
  BY <1>1, <1>2
<1>4. \A k \in 1..len : p[k] = s[from + 1 + k - 1]
  BY <1>1, <1>2
<1>5. \A k \in 1..len : p[k] = s[from + k]
  <2>1. \A k \in 1..len : from + 1 + k - 1 = from + k
    OBVIOUS
  <2> QED BY <1>4, <2>1
<1> HIDE DEF p
<1>6. p = [k \in 1..len |-> s[from + k]]
  BY <1>3, <1>5
<1> QED BY <1>3, <1>6 DEF p

(* An element that C takes is not empty, and its length fits a byte.       *)
LEMMA ElementBounds ==
  ASSUME NEW kind \in Kinds, NEW b \in Seq(Bytes), NEW o \in Nat,
         ElementOutcome("c", kind, b, o) = "ok"
  PROVE  /\ ElementLength("c", kind, b, o) \in Nat
         /\ ElementLength("c", kind, b, o) \in 1..MaxElement(kind)
<1> DEFINE at == o + Before[kind]
<1>1. Before[kind] \in Nat /\ After[kind] \in Nat
  BY ElementAssumption
<1>2. ParseOutcome("c", b, at) = "ok"
  BY DEF ElementOutcome
<1>3. Len(b) - at > 0
  <2>1. Len(b) \in Nat /\ at \in Nat
    BY <1>1
  <2>2. Len(b) - at <= 0 => ParseOutcome("c", b, at) = "bad"
    BY <2>1 DEF ParseOutcome
  <2> QED BY <1>2, <2>1, <2>2
<1>4. b[at + 1] \in Bytes
  <2>1. at + 1 \in 1..Len(b)
    BY <1>1, <1>3
  <2> QED BY <2>1
<1>5. ~IsWide(b, at)
  <2>1. \A k : Canonical(k) # DataLength
    BY DEF Canonical, DataLength
  <2> QED BY <1>1, <1>2, <1>3, <2>1 DEF ParseOutcome, DataLength
<1>6. Number(b, at) = b[at + 1] /\ b[at + 1] < Wide
  BY <1>4, <1>5, CompactAssumption DEF Number, IsWide, Bytes
<1>7. PICK c \in {1, 3} :
        ElementLength("c", kind, b, o)
          = Before[kind] + c + b[at + 1] + After[kind]
  BY <1>6 DEF ElementLength, SerializedLength, Canonical, DataLength
<1>8. b[at + 1] \in Nat /\ b[at + 1] < Base /\ Base \in Nat
  BY <1>4, CompactAssumption DEF Bytes
<1> DEFINE x == b[at + 1]  p == Before[kind]  q == After[kind]
           len == ElementLength("c", kind, b, o)
<1>9. /\ p \in Nat /\ q \in Nat /\ x \in Nat /\ x < Base /\ Base \in Nat
      /\ len = p + c + x + q /\ MaxElement(kind) = p + 2 + Base + q
  BY <1>1, <1>7, <1>8 DEF MaxElement
<1> HIDE DEF x, p, q, len
<1>10. len \in 1..MaxElement(kind) /\ len \in Nat
  BY <1>9
<1> QED BY <1>10 DEF len

(***************************************************************************)
(* Types.  A vector that is checked has been taken, and has a head.        *)
(***************************************************************************)
Heads ==
  \A kind \in Kinds : Checking(kind) => fields[kind].len \in Nat \ {0}

TypeInv == given \in Cases /\ TypeOK /\ Heads

LEMMA TypeInit == Init => TypeInv
BY CompactAssumption
   DEF Init, TypeInv, TypeOK, Heads, Checking, Pcs, FieldNames, Null, View,
       Bytes, Deciding

(* A check changes nothing but what comes next. *)
LEMMA TypeCheck ==
  ASSUME TypeInv, NEW at \in Pcs \ {"done"}, NEW holds, NEW to \in Deciding \cup
                   {"load_witness", "headers"}, NEW error,
         error # "none", Check(at, holds, to, error)
  PROVE  TypeInv'
<1>1. UNCHANGED <<given, offset, fields, i, end>>
  BY DEF Check
<1>2. CASE pc' = to /\ returned' = returned /\ pc = at
  BY <1>1, <1>2 DEF TypeInv, TypeOK, Heads, Checking, Pcs, Deciding
<1>3. CASE pc' = "done" /\ returned' = error
  BY <1>1, <1>3 DEF TypeInv, TypeOK, Heads, Checking, Pcs
<1> QED BY <1>2, <1>3 DEF Check, Continue, Return

(* The element at the end of what has been passed. *)
LEMMA TypeBeyond ==
  ASSUME NEW kind \in Kinds, NEW b \in Seq(Bytes), end \in Nat \ {0},
         Outcome(kind, b) = "ok"
  PROVE  Beyond(kind, b) \in Nat \ {0}
BY ElementBounds DEF Outcome, Beyond

(* What is left of the witness for a vector. *)
LEMMA RestBytes == TypeInv => Rest \in Seq(Bytes)
<1> SUFFICES ASSUME TypeInv PROVE Rest \in Seq(Bytes)
  OBVIOUS
<1> DEFINE n == Len(witness.bytes)
<1>1. n \in Nat
  BY SwapAssumption DEF TypeInv, witness
<1>2. n - Front - Back \in Int
  BY <1>1, SwapAssumption
<1> HIDE DEF n
<1>3. (n - Front - Back) % Width \in Nat
  BY <1>2, SwapAssumption
<1>4. wit_len \in Nat
  BY <1>3 DEF wit_len, n
<1>5. left \in Nat
  BY <1>4, SwapAssumption DEF TypeInv, TypeOK, left
<1> QED BY <1>5, SliceBytes DEF Rest, TypeInv, TypeOK

LEMMA TypeStep == TypeInv /\ [Next]_vars => TypeInv'
<1> SUFFICES ASSUME TypeInv, [Next]_vars PROVE TypeInv'
  OBVIOUS
<1>1. CASE LoadArgs
  BY <1>1, TypeCheck DEF LoadArgs, Pcs
<1>2. CASE LoadWitness
  BY <1>2, TypeCheck DEF LoadWitness, Pcs
<1>3. At(0) \in Nat /\ At(offset) \in Bytes /\ At(offset) \in Nat
  BY AtByte, CompactAssumption DEF TypeInv, TypeOK, Bytes
<1>4. CASE ExtractHeaders
  <2>1. HeaderSize * At(0) \in Nat
    BY <1>3, SwapAssumption
  <2> QED BY <1>4, <2>1 DEF TypeInv, TypeOK, Heads, Checking, ExtractHeaders,
             Continue, View, Pcs, FieldNames
<1>5. CASE ExtractNodes
  <2>1. NodeSize * At(offset) \in Nat
    BY <1>3, SwapAssumption
  <2> QED BY <1>5, <2>1 DEF TypeInv, TypeOK, Heads, Checking, ExtractNodes,
             Continue, View, Pcs, FieldNames
<1>6. CASE ReadNumbers
  <2>1. /\ offset \in Nat /\ offset + NumberSize \in Nat /\ NumberSize \in Nat
        /\ offset' \in Nat
    BY <1>6, SwapAssumption DEF TypeInv, TypeOK, ReadNumbers
  <2>2. fields' \in [FieldNames -> [loc : Nat, len : Nat \cup {-1}]]
    BY <1>6, <2>1 DEF TypeInv, TypeOK, ReadNumbers, View, FieldNames
  <2> QED BY <1>6, <2>1, <2>2 DEF TypeInv, TypeOK, Heads, Checking,
             ReadNumbers, Continue, Pcs
<1>7. ASSUME NEW kind \in Kinds, TakeElement(kind) PROVE TypeInv'
  <2>1. i' \in Bytes
    BY <1>3, <1>7, CompactAssumption DEF TypeInv, TypeOK, TakeElement, Bytes
  <2>2. end' \in Nat \ {0}
    <3>2. Rest \in Seq(Bytes)
      BY RestBytes
    <3>3. CASE Outcome(kind, Rest) = "ok"
      BY <1>7, <3>2, <3>3, TypeBeyond DEF TypeInv, TypeOK, TakeElement
    <3>4. CASE Outcome(kind, Rest) # "ok"
      BY <1>7, <3>4 DEF TypeInv, TypeOK, TakeElement, Whole
    <3> QED BY <3>3, <3>4
  <2> QED BY <1>7, <2>1, <2>2 DEF TypeInv, TypeOK, Heads, Checking, TakeElement
<1>8. ASSUME NEW kind \in Kinds, Overrun(kind) PROVE TypeInv'
  BY <1>8 DEF TypeInv, TypeOK, Heads, Checking, Overrun, Return, Pcs
<1>9. ASSUME NEW kind \in Kinds, Taken(kind) PROVE TypeInv'
  BY <1>9, CompactAssumption DEF TypeInv, TypeOK, Heads, Checking, Taking,
     Taken, Continue, View, Pcs, FieldNames, Kinds, Bytes
<1>10. ASSUME NEW kind \in Kinds, Checking(kind)
       PROVE  Of(kind) \in Seq(Bytes) /\ Count(kind) \in Bytes
  <2>1. fields[kind].loc \in Nat /\ fields[kind].len \in Nat \ {0}
    BY <1>10 DEF TypeInv, TypeOK, Heads, FieldNames, Kinds
  <2>2. Of(kind) \in Seq(Bytes) /\ Len(Of(kind)) = fields[kind].len
    BY <2>1, SliceBytes DEF Of, TypeInv
  <2> QED BY <2>1, <2>2 DEF Count
<1>11. ASSUME NEW kind \in Kinds, CheckElement(kind) PROVE TypeInv'
  <2>1. Of(kind) \in Seq(Bytes) /\ Count(kind) \in Bytes
    BY <1>10, <1>11 DEF CheckElement
  <2>2. i' \in Bytes
    BY <1>11, <2>1, CompactAssumption DEF TypeInv, TypeOK, CheckElement, Bytes
  <2>3. end' \in Nat \ {0}
    BY <1>11, <2>1, TypeBeyond DEF TypeInv, TypeOK, CheckElement, Sound
  <2> QED BY <1>11, <2>2, <2>3 DEF TypeInv, TypeOK, Heads, Checking,
             CheckElement
<1>12. ASSUME NEW kind \in Kinds, RefuseVector(kind) PROVE TypeInv'
  BY <1>12 DEF TypeInv, TypeOK, Heads, Checking, RefuseVector, Return, Pcs
<1>13. ASSUME NEW kind \in Kinds, AcceptVector(kind) PROVE TypeInv'
  BY <1>13, CompactAssumption DEF TypeInv, TypeOK, Heads, Checking,
     AcceptVector, Continue, Pcs, Bytes
<1>14. CASE CheckEnd
  <2>1. NumberSize \in Nat /\ offset \in Nat /\ offset' \in Nat
    BY <1>14, SwapAssumption DEF TypeInv, TypeOK, CheckEnd
  <2>2. fields' \in [FieldNames -> [loc : Nat, len : Nat \cup {-1}]]
    BY <1>14, <2>1 DEF TypeInv, TypeOK, CheckEnd, View
  <2>3. /\ pc' \in {"inclusion", "done"}
        /\ pc' = "done" <=> returned' # "none"
        /\ UNCHANGED <<given, i, end>>
    BY <1>14 DEF TypeInv, TypeOK, CheckEnd, Continue, Return
  <2> QED BY <2>1, <2>2, <2>3 DEF TypeInv, TypeOK, Heads, Checking, Pcs, Deciding
<1>15. CASE Decide
  <2>1. CASE CheckInclusion
    BY <2>1, TypeCheck DEF CheckInclusion, Deciding, Pcs
  <2>2. CASE CheckChain
    BY <2>2, TypeCheck DEF CheckChain, Deciding, Pcs
  <2>3. CASE CheckListing
    BY <2>3, TypeCheck DEF CheckListing, Deciding, Pcs
  <2>4. lock.ret # "none" /\ capacity.ret # "none"
    BY SwapAssumption DEF TypeInv, lock, capacity
  <2>5. CASE LoadLock
    BY <2>4, <2>5, TypeCheck DEF LoadLock, Deciding, Pcs
  <2>6. CASE CheckPayee
    BY <2>6, TypeCheck DEF CheckPayee, Deciding, Pcs
  <2>7. CASE CheckCapacity
    BY <2>4, <2>7 DEF TypeInv, TypeOK, Heads, Checking, CheckCapacity, Return,
       Pcs
  <2> QED BY <1>15, <2>1, <2>2, <2>3, <2>5, <2>6, <2>7 DEF Decide
<1>16. CASE UNCHANGED vars
  BY <1>16 DEF TypeInv, TypeOK, Heads, Checking, vars
<1> QED
  BY <1>1, <1>2, <1>4, <1>5, <1>6, <1>7, <1>8, <1>9, <1>11, <1>12, <1>13,
     <1>14, <1>15, <1>16 DEF Next, Parse, Done

(* The variables keep their types, for every witness and every stack. *)
THEOREM TypeCorrect == Spec => []TypeOK
<1>1. TypeInv => TypeOK
  BY DEF TypeInv
<1> QED BY <1>1, TypeInit, TypeStep, PTL DEF Spec

(***************************************************************************)
(* The layout.  Field by field, each begins where the one before ended;    *)
(* the offset is the end of the last; and neither can have grown beyond    *)
(* what a byte can count.                                                  *)
(***************************************************************************)
WithVout == {"check_vout", "end"} \cup Deciding
WithVin == {"check_vin", "take_vout"} \cup WithVout
WithNumbers == {"take_vin"} \cup WithVin
WithNodes == {"numbers"} \cup WithNumbers
WithHeaders == {"nodes"} \cup WithNodes

Most(size) == size * (Base - 1)

Laid ==
  /\ pc \in WithHeaders =>
       fields["headers"].loc = 1 /\ fields["headers"].len \in 0..Most(HeaderSize)
  /\ pc \in WithNodes =>
       /\ fields["nodes"].loc = End("headers") + 1
       /\ fields["nodes"].len \in 0..Most(NodeSize)
  /\ pc \in WithNumbers =>
       /\ fields["tx_index"] = View(End("nodes"), NumberSize)
       /\ fields["version"] = View(End("tx_index"), NumberSize)
  /\ pc \in WithVin =>
       /\ fields["vin"].loc = End("version")
       /\ fields["vin"].len \in 0..1 + Most(MaxElement("vin"))
  /\ pc \in WithVout =>
       /\ fields["vout"].loc = End("vin")
       /\ fields["vout"].len \in 0..1 + Most(MaxElement("vout"))

Passed ==
  /\ pc \in {"load_args", "load_witness", "headers"} => offset = 0
  /\ pc = "nodes" => offset = End("headers")
  /\ pc = "numbers" => offset = End("nodes")
  /\ pc = "take_vin" => offset = End("version")
  /\ pc \in {"check_vin", "take_vout"} => offset = End("vin")
  /\ pc \in {"check_vout", "end"} => offset = End("vout")

(* While a vector is taken, its elements so far account for its length.    *)
Summed ==
  /\ \A kind \in Kinds : Taking(kind) => end - 1 <= i * MaxElement(kind)
  /\ pc \in {"load_args", "load_witness", "headers", "nodes", "numbers"} =>
       i = 0 /\ end = 1

Sized == pc \in {"headers"} \cup WithHeaders => Len(witness.bytes) <= MaxWitness

LayoutInv == Laid /\ Passed /\ Summed /\ Sized /\ TilesWitness

LEMMA LayoutInit == Init => LayoutInv
BY ElementAssumption, CompactAssumption
   DEF Init, LayoutInv, Laid, Passed, Summed, Sized, TilesWitness, WithHeaders,
       WithNodes, WithNumbers, WithVin, WithVout, Deciding, Taking

(* Nothing is claimed of a script that has refused. *)
LEMMA LayoutStop ==
  ASSUME pc' = "done", returned' # "CKB_SUCCESS"
  PROVE  LayoutInv'
BY DEF LayoutInv, Laid, Passed, Summed, Sized, TilesWitness, WithHeaders,
       WithNodes, WithNumbers, WithVin, WithVout, Deciding, Taking

(* A check that holds leaves the layout as it is. *)
LEMMA LayoutCheck ==
  ASSUME LayoutInv, NEW at \in Deciding, NEW holds, NEW to \in Deciding,
         NEW error, error # "CKB_SUCCESS", Check(at, holds, to, error)
  PROVE  LayoutInv'
<1>1. UNCHANGED <<given, offset, fields, i, end>> /\ pc \in Deciding
  BY DEF Check
<1>2. CASE pc' \in Deciding
  <2>1. Laid' /\ TilesWitness'
    BY <1>1, <1>2 DEF LayoutInv, Laid, TilesWitness, End, witness, WithHeaders,
       WithNodes, WithNumbers, WithVin, WithVout
  <2>2. Passed' /\ Summed' /\ Sized'
    BY <1>1, <1>2 DEF LayoutInv, Passed, Summed, Sized, Taking, Deciding,
       witness, WithHeaders, WithNodes, WithNumbers, WithVin, WithVout
  <2> QED BY <2>1, <2>2 DEF LayoutInv
<1>3. CASE pc' = "done" /\ returned' = error
  BY <1>3, LayoutStop
<1> QED BY <1>2, <1>3 DEF Check, Continue, Return

(* One more element may add as much as an element can have.                *)
LEMMA OneMore ==
  ASSUME NEW e \in Nat \ {0}, NEW n \in Nat, NEW m \in Nat, NEW len \in 1..m,
         e - 1 <= n * m
  PROVE  e + len - 1 <= (n + 1) * m
<1>1. (n + 1) * m = n * m + m /\ n * m \in Nat
  OBVIOUS
<1> QED BY <1>1

(* The offset at the last check, if the counts are bytes. *)
LEMMA LastOffset ==
  ASSUME TypeInv, LayoutInv, pc = "end"
  PROVE  offset + NumberSize <= MaxFields
<1> DEFINE h == fields["headers"].len  n == fields["nodes"].len
           v == fields["vin"].len  o == fields["vout"].len
           hm == Most(HeaderSize)  nm == Most(NodeSize)
           vm == Most(MaxElement("vin"))  om == Most(MaxElement("vout"))
<1>1. h \in 0..hm /\ n \in 0..nm /\ v \in 0..1 + vm /\ o \in 0..1 + om
  BY DEF LayoutInv, Laid, WithHeaders, WithNodes, WithNumbers, WithVin, WithVout
<1>2. offset = 2 + h + n + 2 * NumberSize + v + o
  <2>1. /\ fields["headers"].loc = 1 /\ fields["nodes"].loc = 1 + h + 1
        /\ fields["tx_index"] = View(1 + h + 1 + n, NumberSize)
        /\ fields["version"] = View(1 + h + 1 + n + NumberSize, NumberSize)
        /\ fields["vin"].loc = 1 + h + 1 + n + NumberSize + NumberSize
        /\ fields["vout"].loc = fields["vin"].loc + v
        /\ offset = fields["vout"].loc + o
    BY DEF LayoutInv, Laid, Passed, End, View, WithHeaders, WithNodes,
       WithNumbers, WithVin, WithVout
  <2> HIDE DEF h, n, v, o
  <2> QED BY <1>1, <2>1, SwapAssumption
<1>3. MaxFields = 4 + hm + nm + vm + om + 3 * NumberSize
  <2>1. /\ HeaderSize \in Nat /\ NodeSize \in Nat /\ NumberSize \in Nat
        /\ Base - 1 \in Nat
        /\ MaxElement("vin") \in Nat /\ MaxElement("vout") \in Nat
    BY SwapAssumption, CompactAssumption, ElementAssumption
       DEF MaxElement, Kinds
  <2>2. \A p, q, r, s, k \in Nat :
          (p + q + r + s) * k = p * k + q * k + r * k + s * k
    OBVIOUS
  <2>3. (HeaderSize + NodeSize + MaxElement("vin") + MaxElement("vout"))
          * (Base - 1) = hm + nm + vm + om
    BY ONLY <2>1, <2>2 DEF Most
  <2>4. hm \in Nat /\ nm \in Nat /\ vm \in Nat /\ om \in Nat
    BY <2>1 DEF Most
  <2> HIDE DEF hm, nm, vm, om
  <2> QED BY <2>1, <2>3, <2>4 DEF MaxFields
<1>4. hm \in Int /\ nm \in Int /\ vm \in Int /\ om \in Int
  BY SwapAssumption, CompactAssumption, ElementAssumption, SMTT(30)
     DEF Most, MaxElement, Kinds
<1> HIDE DEF h, n, v, o, hm, nm, vm, om
<1> QED BY <1>1, <1>2, <1>3, <1>4, SwapAssumption

(* A length that wrapped would be larger than any offset. *)
LEMMA NoWrap ==
  ASSUME NEW n \in Nat, NEW m \in Nat, NEW f \in Nat, NEW b \in Nat,
         NEW w \in Nat \ {0}, n < w, f + m + b < w, m = (n - f - b) % w
  PROVE  f + m + b = n
<1>1. CASE n - f - b >= 0
  <2>1. (n - f - b) % w = n - f - b
    BY <1>1
  <2> QED BY <2>1
<1>2. CASE n - f - b < 0
  <2>1. n - f - b + w \in 0..w - 1
    BY <1>2
  <2>2. (n - f - b) % w = n - f - b + w
    BY <1>2, <2>1
  <2> QED BY <2>2
<1> QED BY <1>1, <1>2

LEMMA LayoutStep == TypeInv /\ LayoutInv /\ [Next]_vars => LayoutInv'
<1> SUFFICES ASSUME TypeInv, LayoutInv, [Next]_vars PROVE LayoutInv'
  OBVIOUS
<1> USE DEF WithHeaders, WithNodes, WithNumbers, WithVin, WithVout
<1>1. CASE LoadArgs
  BY <1>1, LayoutStop DEF LayoutInv, Laid, Passed, Summed, Sized, TilesWitness,
     LoadArgs, Check, Continue, Return, Deciding, Taking, TypeInv, TypeOK
<1>2. CASE LoadWitness
  BY <1>2, LayoutStop DEF LayoutInv, Laid, Passed, Summed, Sized, TilesWitness,
     LoadWitness, Check, Continue, Return, Deciding, Taking, TypeInv, TypeOK,
     witness
<1>3. \A x \in Nat : At(x) \in 0..Base - 1 /\ At(x) \in Nat
  BY AtByte, CompactAssumption DEF TypeInv, Bytes
<1>4. offset \in Nat
  BY DEF TypeInv, TypeOK
<1>5. ASSUME NEW size \in Nat, NEW x \in Nat
      PROVE  size * At(x) \in 0..Most(size)
  <2>1. \A p, q, r \in Nat : q <= r => p * q \in 0..p * r
    OBVIOUS
  <2>2. At(x) \in Nat /\ Base - 1 \in Nat /\ At(x) <= Base - 1
    BY <1>3, CompactAssumption
  <2> QED BY ONLY <1>5, <2>1, <2>2 DEF Most
<1>6. CASE ExtractHeaders
  <2>0. HeaderSize \in Nat
    BY SwapAssumption
  <2>1. HeaderSize * At(0) \in 0..Most(HeaderSize)
    BY ONLY <1>5, <2>0
  <2>2. /\ pc' = "nodes" /\ offset' = 1 + HeaderSize * At(0)
        /\ fields'["headers"] = View(1, HeaderSize * At(0))
        /\ UNCHANGED <<given, returned, i, end>>
    BY <1>6 DEF ExtractHeaders, Continue, LayoutInv, Passed, TypeInv, TypeOK,
       FieldNames
  <2> QED BY <1>6, <2>1, <2>2 DEF LayoutInv, Laid, Passed, Summed, Sized,
     TilesWitness, ExtractHeaders, Deciding, Taking, TypeInv, TypeOK, End,
     View, witness
<1>7. CASE ExtractNodes
  <2>1. NodeSize * At(offset) \in 0..Most(NodeSize)
    BY <1>4, <1>5, SwapAssumption
  <2>2. /\ pc' = "numbers" /\ offset' = offset + 1 + NodeSize * At(offset)
        /\ offset = End("headers")
        /\ fields' = [fields EXCEPT
                        !["nodes"] = View(offset + 1, NodeSize * At(offset))]
        /\ UNCHANGED <<given, returned, i, end>>
    BY <1>7 DEF ExtractNodes, Continue, LayoutInv, Passed
  <2>3. /\ fields'["headers"] = fields["headers"]
        /\ fields'["nodes"] = View(offset + 1, NodeSize * At(offset))
    BY <2>2 DEF TypeInv, TypeOK, FieldNames
  <2>4. Laid' /\ Passed'
    BY <1>7, <1>4, <2>1, <2>2, <2>3 DEF LayoutInv, Laid, Passed, ExtractNodes,
       Deciding, End, View
  <2> QED BY <1>7, <2>2, <2>4 DEF LayoutInv, Summed, Sized, TilesWitness,
     ExtractNodes, Deciding, Taking, TypeInv, TypeOK, witness
<1>8. CASE ReadNumbers
  <2>1. /\ pc = "numbers" /\ pc' = "take_vin" /\ offset' = offset + 2 * NumberSize
        /\ offset = End("nodes")
        /\ UNCHANGED <<given, returned, i, end>>
    BY <1>8 DEF ReadNumbers, Continue, LayoutInv, Passed
  <2>2. /\ fields'["headers"] = fields["headers"]
        /\ fields'["nodes"] = fields["nodes"]
        /\ fields'["tx_index"] = View(offset, NumberSize)
        /\ fields'["version"] = View(offset + NumberSize, NumberSize)
    BY <1>8 DEF ReadNumbers, TypeInv, TypeOK, FieldNames
  <2>3. Laid' /\ Passed'
    BY <2>1, <2>2, <1>4, SwapAssumption DEF LayoutInv, Laid, Passed, Deciding,
       End, View
  <2>4. Summed'
    <3>1. \A kind \in Kinds : 0 <= 0 * MaxElement(kind)
      BY ElementAssumption, CompactAssumption DEF MaxElement
    <3>2. i' = 0 /\ end' - 1 = 0
      BY <2>1 DEF LayoutInv, Summed
    <3> QED BY <2>1, <3>1, <3>2 DEF Summed, Taking
  <2> QED BY <2>1, <2>3, <2>4 DEF LayoutInv, Sized, TilesWitness, Deciding,
     TypeInv, TypeOK, witness
<1>9. ASSUME NEW kind \in Kinds
      PROVE  MaxElement(kind) \in Nat
  BY ElementAssumption, CompactAssumption DEF MaxElement
<1>10. ASSUME NEW kind \in Kinds, TakeElement(kind) PROVE LayoutInv'
  <2>1. UNCHANGED <<given, pc, returned, offset, fields>> /\ i' = i + 1
        /\ Taking(kind)
    BY <1>10 DEF TakeElement
  <2>2. end - 1 <= i * MaxElement(kind)
    BY <2>1 DEF LayoutInv, Summed
  <2>3. end' - 1 <= (i + 1) * MaxElement(kind)
    <3>1. i \in Nat /\ end \in Nat \ {0}
      BY CompactAssumption DEF TypeInv, TypeOK, Bytes
    <3>2. CASE end' = end
      <4> DEFINE m == MaxElement(kind)  p == i * m  q == (i + 1) * m
      <4>1. m \in Nat
        BY <1>9, <1>10
      <4> HIDE DEF m
      <4>2. q = p + m /\ p \in Nat
        BY ONLY <3>1, <4>1
      <4>3. end - 1 <= p
        BY <2>2 DEF m
      <4> HIDE DEF p, q
      <4>4. end' - 1 <= q
        BY ONLY <3>1, <3>2, <4>1, <4>2, <4>3
      <4> QED BY <4>4 DEF q, m, p
    <3>3. CASE end' = Beyond(kind, Rest) /\ Outcome(kind, Rest) = "ok"
      <4>1. Rest \in Seq(Bytes)
        BY RestBytes
      <4>2. ElementLength("c", kind, Rest, end) \in 1..MaxElement(kind)
        BY <3>1, <3>3, <4>1, ElementBounds DEF Outcome
      <4> DEFINE len == ElementLength("c", kind, Rest, end)
                 m == MaxElement(kind)
      <4>3. end' = end + len /\ len \in 1..m /\ m \in Nat
        BY <1>9, <1>10, <3>3, <4>2 DEF Beyond
      <4>4. end - 1 <= i * m
        BY <2>2
      <4> HIDE DEF len, m
      <4>5. end + len - 1 <= (i + 1) * m
        BY ONLY <3>1, <4>3, <4>4, OneMore
      <4>6. end' - 1 <= (i + 1) * m
        BY ONLY <3>1, <4>3, <4>5
      <4> QED BY <4>6 DEF m
    <3>4. \/ end' = end
          \/ end' = Beyond(kind, Rest) /\ Outcome(kind, Rest) = "ok"
      BY <1>10 DEF TakeElement, Whole
    <3> QED BY ONLY <3>2, <3>3, <3>4
  <2>4. Summed'
    BY <2>1, <2>3 DEF LayoutInv, Summed, Taking, Kinds
  <2> QED BY <2>1, <2>4 DEF LayoutInv, Laid, Passed, Sized, TilesWitness, End,
     witness, Taking, Deciding
<1>11. ASSUME NEW kind \in Kinds, Overrun(kind) PROVE LayoutInv'
  BY <1>11, LayoutStop DEF Overrun, Return
<1>12. ASSUME NEW kind \in Kinds, Taken(kind) PROVE LayoutInv'
  <2>1. end \in 0..1 + Most(MaxElement(kind))
    <3>1. end - 1 <= i * MaxElement(kind) /\ i \in Nat /\ i <= Base - 1
          /\ end \in Nat /\ Base - 1 \in Nat
      BY <1>12, CompactAssumption DEF LayoutInv, Summed, Taken, TypeInv, TypeOK,
         Bytes
    <3>2. \A p, q, m \in Nat : p <= q => p * m <= m * q /\ m * q \in Nat
                                       /\ p * m \in Nat
      OBVIOUS
    <3>3. i * MaxElement(kind) <= Most(MaxElement(kind))
          /\ Most(MaxElement(kind)) \in Nat /\ i * MaxElement(kind) \in Nat
      BY ONLY <1>9, <1>12, <3>1, <3>2 DEF Most
    <3> QED BY <3>1, <3>3
  <2>2. /\ i' = 0 /\ end' = 1 /\ UNCHANGED <<given, returned>>
        /\ offset' = offset + end
        /\ fields'[kind] = View(offset, end)
        /\ \A f \in FieldNames \ {kind} : fields'[f] = fields[f]
    BY <1>12 DEF Taken, Continue, TypeInv, TypeOK, FieldNames, Kinds
  <2>3. CASE kind = "vin"
    <3>1. pc = "take_vin" /\ pc' = "check_vin" /\ offset = End("version")
      BY <1>12, <2>3 DEF Taken, Taking, Continue, LayoutInv, Passed
    <3>2. Laid' /\ Passed'
      BY <1>4, <2>1, <2>2, <2>3, <3>1 DEF LayoutInv, Laid, Passed, Deciding,
         End, View, FieldNames
    <3> QED BY <2>2, <3>1, <3>2 DEF LayoutInv, Summed, Sized, TilesWitness,
       Taking, Deciding, TypeInv, TypeOK, witness
  <2>4. CASE kind = "vout"
    <3>1. pc = "take_vout" /\ pc' = "check_vout" /\ offset = End("vin")
      BY <1>12, <2>4 DEF Taken, Taking, Continue, LayoutInv, Passed
    <3>2. Laid' /\ Passed'
      BY <1>4, <2>1, <2>2, <2>4, <3>1 DEF LayoutInv, Laid, Passed, Deciding,
         End, View, FieldNames
    <3> QED BY <2>2, <3>1, <3>2 DEF LayoutInv, Summed, Sized, TilesWitness,
       Taking, Deciding, TypeInv, TypeOK, witness
  <2> QED BY <2>3, <2>4 DEF Kinds
<1>13. ASSUME NEW kind \in Kinds, CheckElement(kind) PROVE LayoutInv'
  BY <1>13, SMTT(30) DEF LayoutInv, Laid, Passed, Summed, Sized, TilesWitness, Taking,
     Checking, CheckElement, End, witness, Deciding, TypeInv, TypeOK
<1>14. ASSUME NEW kind \in Kinds, RefuseVector(kind) PROVE LayoutInv'
  BY <1>14, LayoutStop DEF RefuseVector, Return
<1>15. ASSUME NEW kind \in Kinds, AcceptVector(kind) PROVE LayoutInv'
  <2>1. Summed'
    <3>1. \A k \in Kinds : 0 <= 0 * MaxElement(k)
      BY ElementAssumption, CompactAssumption DEF MaxElement
    <3>2. i' = 0 /\ end' - 1 = 0 /\ pc' \in {"take_vout", "end"}
      BY <1>15 DEF AcceptVector, Continue
    <3> QED BY <3>1, <3>2 DEF Summed, Taking
  <2> QED BY <1>15, <2>1 DEF LayoutInv, Laid, Passed, Sized, TilesWitness,
     Checking, AcceptVector, Continue, End, witness, Deciding, TypeInv, TypeOK
<1>17. CASE CheckEnd
  <2>1. CASE offset' = wit_len
    <3>1. /\ pc = "end" /\ pc' = "inclusion" /\ offset' = offset + NumberSize
          /\ UNCHANGED <<given, returned, i, end>>
          /\ fields'["locktime"] = View(offset, NumberSize)
          /\ \A f \in FieldNames \ {"locktime"} : fields'[f] = fields[f]
      BY <1>17, <2>1 DEF CheckEnd, Continue, TypeInv, TypeOK, FieldNames
    <3>2. Front + offset' + Back = Len(witness.bytes)
      <4> DEFINE n == Len(witness.bytes)
      <4>1. n \in Nat /\ n < Width
        <5>1. n \in Nat /\ n <= MaxWitness
          BY <3>1, SwapAssumption DEF LayoutInv, Sized, TypeInv, witness
        <5> HIDE DEF n
        <5> QED BY <5>1, RoomAssumption, SwapAssumption
      <4>2. offset' \in Nat /\ offset' <= MaxFields /\ MaxFields \in Nat
        <5> DEFINE sum == HeaderSize + NodeSize + MaxElement("vin")
                            + MaxElement("vout")
        <5>1. sum \in Nat /\ Base - 1 \in Nat /\ NumberSize \in Nat
          BY SwapAssumption, CompactAssumption, ElementAssumption, SMTT(30)
             DEF MaxElement, Kinds
        <5>2. MaxFields = 4 + sum * (Base - 1) + 3 * NumberSize
          BY DEF MaxFields
        <5> HIDE DEF sum
        <5>3. sum * (Base - 1) \in Nat
          BY ONLY <5>1
        <5>4. MaxFields \in Nat
          BY ONLY <5>1, <5>2, <5>3
        <5> QED BY <1>4, <3>1, <5>4, LastOffset, SwapAssumption
      <4>3. offset' = (n - Front - Back) % Width
        BY <2>1 DEF wit_len
      <4> HIDE DEF n
      <4>4. Front + offset' + Back < Width
        <5>1. Front \in Nat /\ Back \in Nat /\ Width \in Nat
          BY SwapAssumption
        <5>2. Front + MaxFields + Back < Width
          BY RoomAssumption
        <5> DEFINE x == offset'  m == MaxFields
        <5>3. x \in Nat /\ m \in Nat /\ x <= m /\ Front + m + Back < Width
          BY <4>2, <5>2
        <5> HIDE DEF x, m
        <5>4. Front + x + Back < Width
          BY ONLY <5>1, <5>3
        <5> QED BY <5>4 DEF x
      <4>5. Front + offset' + Back = n
        BY <4>1, <4>2, <4>3, <4>4, NoWrap, SwapAssumption
      <4> QED BY <4>5 DEF n
    <3>3. Laid'
      BY <3>1 DEF LayoutInv, Laid, Deciding, End, FieldNames
    <3>4. TilesWitness'
      <4>1. fields'["locktime"].loc = End("vout")' /\ End("locktime")' = offset'
        BY <3>1 DEF LayoutInv, Passed, End, View, FieldNames
      <4>2. witness' = witness
        BY <3>1 DEF witness
      <4>3. \A f \in {"headers", "nodes", "tx_index", "version", "vin", "vout"} :
              fields'[f] = fields[f]
        BY <3>1 DEF FieldNames
      <4>4. /\ fields["headers"].loc = 1
            /\ fields["nodes"].loc = End("headers") + 1
            /\ fields["tx_index"].loc = End("nodes")
            /\ fields["version"].loc = End("tx_index")
            /\ fields["vin"].loc = End("version")
            /\ fields["vout"].loc = End("vin")
        BY <3>1 DEF LayoutInv, Laid, View
      <4>5. Front + End("locktime")' + Back = Len(witness'.bytes)
        BY <3>2, <4>1, <4>2
      <4> QED BY <4>1, <4>2, <4>3, <4>4, <4>5 DEF TilesWitness, End
    <3> QED BY <3>1, <3>3, <3>4 DEF LayoutInv, Passed, Summed, Sized, Taking,
       Deciding, witness
  <2>2. CASE offset' # wit_len
    BY <1>17, <2>2, LayoutStop DEF CheckEnd, Return
  <2> QED BY <2>1, <2>2
<1>18. CASE Decide
  <2>1. CASE CheckInclusion
    BY <2>1, LayoutCheck DEF CheckInclusion, Deciding
  <2>2. CASE CheckChain
    BY <2>2, LayoutCheck DEF CheckChain, Deciding
  <2>3. CASE CheckListing
    BY <2>3, LayoutCheck DEF CheckListing, Deciding
  <2>4. CASE LoadLock
    BY <2>4, LayoutCheck DEF LoadLock, Deciding
  <2>5. CASE CheckPayee
    BY <2>5, LayoutCheck, ZenonT(30) DEF CheckPayee, Deciding
  <2>6. CASE CheckCapacity
    <3>1. TilesWitness' /\ pc' = "done"
      BY <2>6 DEF CheckCapacity, Return, LayoutInv, TilesWitness, Deciding, End,
         witness
    <3> QED BY <3>1 DEF LayoutInv, Laid, Passed, Summed, Sized, Deciding, Taking
  <2> QED BY <1>18, <2>1, <2>2, <2>3, <2>4, <2>5, <2>6 DEF Decide
<1>16. CASE UNCHANGED vars
  BY <1>16 DEF LayoutInv, Laid, Passed, Summed, Sized, TilesWitness, vars,
     Taking, End, witness
<1> QED
  BY <1>1, <1>2, <1>6, <1>7, <1>8, <1>10, <1>11, <1>12, <1>13, <1>14, <1>15,
     <1>16, <1>17, <1>18 DEF Next, Parse, Done

(* What the script decides upon lies in the witness, field behind field,   *)
(* from its first byte to its last.                                        *)
THEOREM FieldsTile == Spec => []TilesWitness
<1>1. TypeInv /\ LayoutInv => TilesWitness
  BY DEF LayoutInv
<1> QED BY <1>1, TypeInit, TypeStep, LayoutInit, LayoutStep, PTL DEF Spec
(***************************************************************************)
(* Errors and work.                                                        *)
(***************************************************************************)
WholeHeaders ==
  pc \in WithHeaders =>
    \E n \in Nat : fields["headers"].len = HeaderSize * n

(* What the chain check has been asked for. *)
Asked ==
  pc = "listing" => accDiff \notin {InvalidChain, LowWork}

(* The first field is written once.                                        *)
LEMMA HeadersStay ==
  ASSUME TypeInv, [Next]_vars, pc \in WithHeaders
  PROVE  fields'["headers"] = fields["headers"] /\ given' = given
<1>1. fields \in [FieldNames -> [loc : Nat, len : Nat \cup {-1}]]
      /\ "headers" \in FieldNames
  BY DEF TypeInv, TypeOK, FieldNames
<1>2. CASE ExtractNodes
  BY <1>1, <1>2 DEF ExtractNodes
<1>3. CASE ReadNumbers
  BY <1>1, <1>3 DEF ReadNumbers
<1>4. ASSUME NEW kind \in Kinds, Taken(kind)
      PROVE  fields'["headers"] = fields["headers"] /\ given' = given
  <2>1. kind # "headers"
    BY DEF Kinds
  <2> QED BY <1>1, <1>4, <2>1 DEF Taken
<1>5. CASE CheckEnd
  BY <1>1, <1>5 DEF CheckEnd
<1>6. CASE Decide
  BY <1>6 DEF Decide, CheckInclusion, CheckChain, CheckListing, LoadLock,
     CheckPayee, CheckCapacity, Check
<1>7. ASSUME NEW kind \in Kinds,
             \/ TakeElement(kind) \/ Overrun(kind) \/ CheckElement(kind)
             \/ RefuseVector(kind) \/ AcceptVector(kind)
      PROVE  fields'["headers"] = fields["headers"] /\ given' = given
  BY <1>7 DEF TakeElement, Overrun, CheckElement, RefuseVector, AcceptVector
<1>8. CASE UNCHANGED vars
  BY <1>8 DEF vars
<1>9. ~LoadArgs /\ ~LoadWitness /\ ~ExtractHeaders
  BY DEF LoadArgs, LoadWitness, ExtractHeaders, Check, WithHeaders, WithNodes,
     WithNumbers, WithVin, WithVout, Deciding
<1> QED
  BY <1>2, <1>3, <1>4, <1>5, <1>6, <1>7, <1>8, <1>9 DEF Next, Parse, Done

(* No step comes to the field behind the headers but by reading them.      *)
LEMMA WholeHeadersStep == TypeInv /\ WholeHeaders /\ [Next]_vars => WholeHeaders'
<1> SUFFICES ASSUME TypeInv, WholeHeaders, [Next]_vars, pc' \in WithHeaders
             PROVE  \E n \in Nat : fields'["headers"].len = HeaderSize * n
  BY DEF WholeHeaders
<1>1. CASE pc \in WithHeaders
  BY <1>1, HeadersStay DEF WholeHeaders
<1>2. CASE ExtractHeaders
  <2>1. At(0) \in Nat
    BY AtByte DEF TypeInv, Bytes
  <2>2. fields'["headers"].len = HeaderSize * At(0)
    BY <1>2 DEF ExtractHeaders, View, TypeInv, TypeOK, FieldNames
  <2> QED BY <2>1, <2>2
<1>3. CASE ~ExtractHeaders /\ pc \notin WithHeaders
  <2>1. pc \in {"load_args", "load_witness", "headers", "done"}
    BY <1>3 DEF TypeInv, TypeOK, Pcs, WithHeaders, WithNodes, WithNumbers,
       WithVin, WithVout
  <2>2. LoadArgs \/ LoadWitness \/ UNCHANGED vars
    BY <1>3, <2>1 DEF Next, Parse, Done, Decide, ExtractNodes, ReadNumbers,
       TakeElement, Overrun, Taken, CheckElement, RefuseVector, AcceptVector,
       Taking, Checking, CheckEnd, Check, CheckInclusion, CheckChain,
       CheckListing, LoadLock, CheckPayee, CheckCapacity
  <2> QED BY <1>3, <2>1, <2>2 DEF LoadArgs, LoadWitness, Check, Continue,
     Return, vars, WithHeaders, WithNodes, WithNumbers, WithVin, WithVout,
     Deciding
<1> QED BY <1>1, <1>2, <1>3

LEMMA AskedStep == TypeInv /\ Asked /\ [Next]_vars => Asked'
<1> SUFFICES ASSUME TypeInv, Asked, [Next]_vars, pc' = "listing"
             PROVE  (accDiff \notin {InvalidChain, LowWork})'
  BY DEF Asked
<1>1. CheckChain \/ UNCHANGED vars
  BY DEF Next, Parse, Done, Decide, ExtractHeaders, ExtractNodes, ReadNumbers,
     LoadArgs, LoadWitness, TakeElement, Overrun, Taken, CheckElement,
     RefuseVector, AcceptVector, Taking, Checking, CheckEnd, Check,
     CheckInclusion, CheckListing, LoadLock, CheckPayee, CheckCapacity,
     Continue, Return
<1>2. accDiff' = accDiff
  <2>1. UNCHANGED <<given, fields>>
    BY <1>1 DEF CheckChain, Check, vars
  <2> QED BY <2>1 DEF accDiff, Of, Slice, At, witness
<1>3. CASE CheckChain
  BY <1>2, <1>3 DEF CheckChain, Check, Continue, Return, InvalidChain, LowWork
<1>4. CASE UNCHANGED vars
  BY <1>2, <1>4 DEF Asked, vars, InvalidChain, LowWork
<1> QED BY <1>1, <1>3, <1>4

(* A multiple is divided without a rest.                                   *)
LEMMA NoRest ==
  ASSUME NEW b \in Nat \ {0}, NEW n \in Nat
  PROVE  (b * n) % b = 0
<1> DEFINE x == b * n
           q == x \div b
           r == x % b
<1>1. q \in Nat /\ r \in 0..b - 1 /\ x = q * b + r /\ x = n * b /\ x \in Nat
  OBVIOUS
<1> HIDE DEF x, q, r
<1>2. (n - q) * b = r /\ n - q \in Int
  BY <1>1
<1>3. CASE n - q >= 1
  <2>1. (n - q) * b >= b
    BY <1>2, <1>3
  <2> QED BY <2>1, <1>1, <1>2
<1>4. CASE n - q <= -1
  <2>1. (n - q) * b <= -b
    BY <1>2, <1>4
  <2> QED BY <2>1, <1>1, <1>2
<1>5. CASE n - q = 0
  <2>1. r = 0
    BY <1>2, <1>5
  <2> QED BY <2>1 DEF r, x
<1> QED BY <1>2, <1>3, <1>4, <1>5

(* The work of whole headers is not the number that stands for a bad        *)
(* length.                                                                 *)
WorkFits == Work(Of("headers")) # BadLength

LEMMA ErrorsTold ==
  ASSUME WholeHeaders, Asked, WorkFits
  PROVE  ErrorIsNotWork
<1> SUFFICES ASSUME pc = "listing" PROVE accDiff # BadLength
  BY DEF ErrorIsNotWork, Asked
<1>1. PICK n \in Nat : fields["headers"].len = HeaderSize * n
  BY DEF WholeHeaders, WithHeaders, WithNodes, WithNumbers, WithVin, WithVout,
     Deciding
<1>2. fields["headers"].len % HeaderSize = 0
  BY <1>1, NoRest, SwapAssumption
<1> QED BY <1>2 DEF accDiff, WorkFits

(* main asks for two errors of the three, and the third does not come from  *)
(* headers that main has cut out: none is taken for work, as long as the    *)
(* work of whole headers stays below the errors.                           *)
THEOREM ErrorsAreNotWork == Spec => [](WorkFits => ErrorIsNotWork)
<1>1. Init => WholeHeaders /\ Asked
  BY DEF Init, WholeHeaders, Asked, WithHeaders, WithNodes, WithNumbers, WithVin,
     WithVout, Deciding
<1>2. WholeHeaders /\ Asked => (WorkFits => ErrorIsNotWork)
  BY ErrorsTold
<1> QED BY <1>1, <1>2, TypeInit, TypeStep, WholeHeadersStep, AskedStep, PTL DEF Spec

(***************************************************************************)
(* The format.  What a recursive definition says of every number follows   *)
(* by induction, for a set in the place of a predicate.                    *)
(***************************************************************************)
LEMMA SetInduction ==
  ASSUME NEW S, 0 \in S, \A n \in Nat : n \in S => n + 1 \in S
  PROVE  Nat \subseteq S
<1> DEFINE T == Nat \ S
<1>1. SUFFICES ASSUME T # {} PROVE FALSE
  OBVIOUS
<1>2. PICK m \in T : \A y \in T : ~ (<<y, m>> \in OpToRel(<, Nat))
  BY <1>1, NatLessThanWellFounded, WFMin
<1>3. \A y \in T : ~(y < m)
  BY <1>2 DEF OpToRel
<1>4. m \in Nat /\ m # 0 /\ m \notin S
  OBVIOUS
<1>5. m - 1 \in Nat /\ m - 1 < m /\ (m - 1) + 1 = m
  BY <1>4
<1>6. m - 1 \in S
  BY <1>3, <1>5
<1> QED BY <1>4, <1>5, <1>6

(* A number read out of bytes is a natural number. *)
LEMMA LEType ==
  ASSUME NEW b \in Seq(Bytes)
  PROVE  LE(b) \in Nat
<1> DEFINE n == Len(b)
           Sums(f, m) == f = [k \in 0..m |->
                                IF k = 0 THEN 0 ELSE b[n + 1 - k] + Base * f[k - 1]]
           S == {q \in Nat : \E f : Sums(f, q)}
           sum == CHOOSE f : Sums(f, n)
           E == {m \in Nat : m <= n => sum[m] \in Nat}
<1>0. n \in Nat /\ Base \in Nat /\ \A k \in 1..n : b[k] \in Nat
  BY CompactAssumption DEF Bytes
<1> HIDE DEF Sums
<1>1. 0 \in S
  <2> DEFINE f == [k \in 0..0 |-> 0]
  <2>1. Sums(f, 0)  BY DEF Sums
  <2> QED BY <2>1
<1>2. ASSUME NEW m \in Nat, m \in S PROVE m + 1 \in S
  <2>0. PICK f : Sums(f, m)
    BY <1>2
  <2> DEFINE g == [k \in 0..m + 1 |-> IF k = 0 THEN 0 ELSE b[n + 1 - k] + Base * f[k - 1]]
  <2>1. \A k \in 0..m : f[k] = IF k = 0 THEN 0 ELSE b[n + 1 - k] + Base * f[k - 1]
    BY <2>0 DEF Sums
  <2>2. \A k \in 0..m + 1 : g[k] = IF k = 0 THEN 0 ELSE b[n + 1 - k] + Base * f[k - 1]
    OBVIOUS
  <2>3. \A k \in 0..m : g[k] = f[k]
    BY <2>1, <2>2
  <2>4. ASSUME NEW k \in 0..m + 1
        PROVE  g[k] = IF k = 0 THEN 0 ELSE b[n + 1 - k] + Base * g[k - 1]
    <3>1. k # 0 => k - 1 \in 0..m
      OBVIOUS
    <3> HIDE DEF g
    <3> QED BY <2>2, <2>3, <3>1
  <2>5. g = [k \in 0..m + 1 |-> IF k = 0 THEN 0 ELSE b[n + 1 - k] + Base * g[k - 1]]
    <3>1. g = [k \in 0..m + 1 |-> g[k]]
      OBVIOUS
    <3> HIDE DEF g
    <3> QED BY <2>4, <3>1
  <2>6. Sums(g, m + 1)
    BY <2>5 DEF Sums
  <2> QED BY <2>6
<1> HIDE DEF S
<1>3. n \in S
  BY <1>0, <1>1, <1>2, SetInduction
<1>4. Sums(sum, n)
  BY <1>3 DEF S
<1> HIDE DEF sum
<1>5. /\ sum[0] = 0
      /\ \A k \in 1..n : sum[k] = b[n + 1 - k] + Base * sum[k - 1]
  <2>1. \A k \in 0..n : sum[k] =
          IF k = 0 THEN 0 ELSE b[n + 1 - k] + Base * sum[k - 1]
    BY <1>4 DEF Sums
  <2> QED BY <1>0, <2>1
<1>6. 0 \in E
  BY <1>5
<1>7. ASSUME NEW m \in Nat, m \in E PROVE m + 1 \in E
  <2> SUFFICES ASSUME m + 1 <= n PROVE sum[m + 1] \in Nat
    OBVIOUS
  <2>1. sum[m] \in Nat
    BY <1>0, <1>7
  <2>2. m + 1 \in 1..n /\ n + 1 - (m + 1) \in 1..n /\ (m + 1) - 1 = m
    BY <1>0
  <2>3. sum[m + 1] = b[n + 1 - (m + 1)] + Base * sum[m]
    BY <1>5, <2>2
  <2>4. b[n + 1 - (m + 1)] \in Nat
    BY <1>0, <2>2
  <2>5. Base * sum[m] \in Nat
    BY ONLY <1>0, <2>1
  <2> QED BY ONLY <2>3, <2>4, <2>5
<1> HIDE DEF E
<1>8. n \in E
  BY <1>0, <1>6, <1>7, SetInduction
<1>9. sum[n] \in Nat
  BY <1>0, <1>8 DEF E
<1> QED BY <1>9 DEF LE, sum, Sums

LEMMA BEType ==
  ASSUME NEW b \in Seq(Bytes)
  PROVE  BE(b) \in Nat
<1> DEFINE n == Len(b)  r == [k \in 1..n |-> b[n + 1 - k]]
<1>1. \A k \in 1..n : n + 1 - k \in 1..n /\ n \in Nat
  OBVIOUS
<1>2. \A k \in 1..n : r[k] \in Bytes
  BY <1>1
<1>3. r \in Seq(Bytes)
  BY <1>2
<1> QED BY <1>3, LEType DEF BE

(* The ends of elements are what their definition says, for every count. *)
LEMMA EndsDefined ==
  ASSUME NEW kind, NEW s, s[1] \in Nat
  PROVE  /\ Ends(kind, s)[0] = {1}
         /\ \A k \in 1..s[1] :
              Ends(kind, s)[k] =
                UNION {{to \in from + 1..Len(s) :
                          IsElement(kind, SubSeq(s, from + 1, to))} :
                         from \in Ends(kind, s)[k - 1]}
<1> DEFINE Next1(x) == UNION {{to \in from + 1..Len(s) :
                          IsElement(kind, SubSeq(s, from + 1, to))} :
                         from \in x}
           Fits(f, m) == f = [k \in 0..m |-> IF k = 0 THEN {1} ELSE Next1(f[k - 1])]
           S == {q \in Nat : \E f : Fits(f, q)}
<1>0. Ends(kind, s) = CHOOSE f : Fits(f, s[1])
  BY DEF Ends
<1> HIDE DEF Next1
<1> HIDE DEF Fits
<1>1. 0 \in S
  <2> DEFINE f == [k \in 0..0 |-> {1}]
  <2>1. Fits(f, 0)  BY DEF Fits
  <2> QED BY <2>1
<1>2. ASSUME NEW m \in Nat, m \in S PROVE m + 1 \in S
  <2>0. PICK f : Fits(f, m)
    BY <1>2
  <2> DEFINE g == [k \in 0..m + 1 |-> IF k = 0 THEN {1} ELSE Next1(f[k - 1])]
  <2>1. \A k \in 0..m : f[k] = IF k = 0 THEN {1} ELSE Next1(f[k - 1])
    BY <2>0 DEF Fits
  <2>2. \A k \in 0..m + 1 : g[k] = IF k = 0 THEN {1} ELSE Next1(f[k - 1])
    OBVIOUS
  <2>3. \A k \in 0..m : g[k] = f[k]
    BY <2>1, <2>2
  <2>4. ASSUME NEW k \in 0..m + 1
        PROVE  g[k] = IF k = 0 THEN {1} ELSE Next1(g[k - 1])
    <3>1. k # 0 => k - 1 \in 0..m
      OBVIOUS
    <3> HIDE DEF g
    <3> QED BY <2>2, <2>3, <3>1
  <2>5. g = [k \in 0..m + 1 |-> IF k = 0 THEN {1} ELSE Next1(g[k - 1])]
    <3>1. g = [k \in 0..m + 1 |-> g[k]]
      OBVIOUS
    <3> HIDE DEF g
    <3> QED BY <2>4, <3>1
  <2>6. Fits(g, m + 1)
    BY <2>5 DEF Fits
  <2> QED BY <2>6
<1> HIDE DEF S
<1>3. s[1] \in S
  BY <1>1, <1>2, SetInduction
<1>4. Fits(Ends(kind, s), s[1])
  BY <1>0, <1>3 DEF S
<1>5. \A k \in 0..s[1] : Ends(kind, s)[k] =
         IF k = 0 THEN {1} ELSE Next1(Ends(kind, s)[k - 1])
  BY <1>4 DEF Fits
<1>6. Ends(kind, s)[0] = {1}
  BY <1>5
<1>7. \A k \in 1..s[1] : Ends(kind, s)[k] = Next1(Ends(kind, s)[k - 1])
  BY <1>5
<1> QED BY <1>6, <1>7 DEF Next1

(* One element more ends where an element from an end before it does. *)
LEMMA EndsStep ==
  ASSUME NEW kind, NEW s, s[1] \in Nat, NEW k \in 1..s[1], NEW to
  PROVE  to \in Ends(kind, s)[k] <=>
           \E from \in Ends(kind, s)[k - 1] :
             to \in from + 1..Len(s) /\ IsElement(kind, SubSeq(s, from + 1, to))
BY EndsDefined

(* Where some elements end, fewer do. *)
LEMMA EndsBefore ==
  ASSUME NEW kind, NEW s, s[1] \in Nat,
         NEW k \in 0..s[1], Ends(kind, s)[k] # {}, NEW j \in 0..k
  PROVE  Ends(kind, s)[j] # {}
<1> DEFINE S == {m \in Nat : m <= k => Ends(kind, s)[k - m] # {}}
<1>1. 0 \in S
  OBVIOUS
<1>2. ASSUME NEW m \in Nat, m \in S PROVE m + 1 \in S
  <2> SUFFICES ASSUME m + 1 <= k PROVE Ends(kind, s)[k - (m + 1)] # {}
    OBVIOUS
  <2>1. k - m \in 1..s[1] /\ k - (m + 1) = (k - m) - 1
    OBVIOUS
  <2>2. PICK to : to \in Ends(kind, s)[k - m]
    BY <1>2
  <2> HIDE DEF S
  <2>3. \E from \in Ends(kind, s)[(k - m) - 1] : TRUE
    BY <2>1, <2>2, EndsStep
  <2> QED BY <2>1, <2>3
<1> HIDE DEF S
<1>3. k - j \in S
  BY <1>1, <1>2, SetInduction
<1> QED BY <1>3 DEF S

(* An element is as long as its script says. *)
Size(kind, x) == Before[kind] + 1 + x + After[kind]

LEMMA ElementRead ==
  ASSUME NEW kind \in Kinds, NEW s \in Seq(Bytes), NEW from \in Nat,
         NEW to \in from + 1..Len(s), IsElement(kind, SubSeq(s, from + 1, to))
  PROVE  /\ from + Before[kind] + 1 \in 1..to
         /\ s[from + Before[kind] + 1] < Wide
         /\ to = from + Size(kind, s[from + Before[kind] + 1])
<1> DEFINE e == SubSeq(s, from + 1, to)  p == Before[kind]
<1>1. p \in Nat /\ After[kind] \in Nat
  BY ElementAssumption
<1>2. Len(s) \in Nat /\ to \in Nat /\ from < to /\ to <= Len(s)
  OBVIOUS
<1>3. Len(e) = to - from /\ \A k \in 1..to - from : e[k] = s[from + k]
  BY <1>2
<1>4. Len(e) > p /\ e[p + 1] < Wide /\ Len(e) = p + 1 + e[p + 1] + After[kind]
  BY DEF IsElement
<1> HIDE DEF e, p
<1>5. p + 1 \in 1..to - from
  BY <1>1, <1>2, <1>3, <1>4
<1>6. e[p + 1] = s[from + p + 1]
  BY <1>1, <1>3, <1>5
<1>7. from + p + 1 \in 1..Len(s) /\ from + p + 1 \in 1..to
  BY <1>1, <1>2, <1>5
<1>8. s[from + p + 1] \in Nat
  BY <1>7, CompactAssumption DEF Bytes
<1> DEFINE x == s[from + p + 1]  q == After[kind]
<1>9. /\ p \in Nat /\ q \in Nat /\ x \in Nat /\ to \in Nat
      /\ to - from = p + 1 + x + q
  BY <1>1, <1>2, <1>3, <1>4, <1>6, <1>8
<1>10. Size(kind, x) = p + 1 + x + q
  BY DEF Size, p
<1> HIDE DEF x, q
<1>11. to = from + Size(kind, x)
  BY ONLY <1>9, <1>10, from \in Nat
<1> QED BY <1>4, <1>6, <1>7, <1>11 DEF x, p

LEMMA ElementWritten ==
  ASSUME NEW kind \in Kinds, NEW s \in Seq(Bytes), NEW from \in Nat,
         from + Before[kind] + 1 \in 1..Len(s),
         s[from + Before[kind] + 1] < Wide,
         NEW to \in Nat, to = from + Size(kind, s[from + Before[kind] + 1]),
         to <= Len(s)
  PROVE  to \in from + 1..Len(s) /\ IsElement(kind, SubSeq(s, from + 1, to))
<1> DEFINE e == SubSeq(s, from + 1, to)  p == Before[kind]
<1> DEFINE x == s[from + p + 1]  q == After[kind]
<1>1. p \in Nat /\ q \in Nat
  BY ElementAssumption
<1>2. Len(s) \in Nat /\ x \in Nat /\ x < Wide
  BY CompactAssumption DEF Bytes
<1>3. Size(kind, x) = p + 1 + x + q /\ to = from + Size(kind, x)
  BY DEF Size
<1> HIDE DEF x, p, q
<1>4. to \in from + 1..Len(s) /\ p + 1 \in 1..to - from
  BY <1>1, <1>2, <1>3
<1>5. Len(e) = to - from /\ \A k \in 1..to - from : e[k] = s[from + k]
  BY <1>2, <1>4
<1> HIDE DEF e
<1>6. e[p + 1] = x
  BY <1>1, <1>4, <1>5 DEF x
<1>7. Len(e) > p /\ e[p + 1] < Wide /\ Len(e) = p + 1 + e[p + 1] + q
  BY <1>1, <1>2, <1>3, <1>4, <1>5, <1>6
<1> QED BY <1>4, <1>7 DEF IsElement, e, p, q

(* C sees an element where its script has a length of one byte. *)
LEMMA OutcomeRead ==
  ASSUME NEW kind \in Kinds, NEW b \in Seq(Bytes), NEW o \in Nat,
         ElementOutcome("c", kind, b, o) = "ok"
  PROVE  /\ o + Before[kind] + 1 \in 1..Len(b)
         /\ b[o + Before[kind] + 1] < Wide
         /\ ElementLength("c", kind, b, o) = Size(kind, b[o + Before[kind] + 1])
<1> DEFINE at == o + Before[kind]
<1>1. Before[kind] \in Nat /\ After[kind] \in Nat /\ at \in Nat /\ Len(b) \in Nat
  BY ElementAssumption
<1>2. ParseOutcome("c", b, at) = "ok"
  BY DEF ElementOutcome
<1>3. at + 1 \in 1..Len(b)
  <2>1. Len(b) - at <= 0 => ParseOutcome("c", b, at) = "bad"
    BY DEF ParseOutcome
  <2> QED BY <1>1, <1>2, <2>1
<1>4. ~IsWide(b, at)
  <2>1. \A k : Canonical(k) # DataLength
    BY DEF Canonical, DataLength
  <2> QED BY <1>1, <1>2, <1>3, <2>1 DEF ParseOutcome, DataLength
<1>5. b[at + 1] \in Bytes
  BY <1>3
<1>6. b[at + 1] < Wide /\ b[at + 1] \in Nat
  BY <1>4, <1>5, CompactAssumption, SwapAssumption DEF IsWide, Bytes
<1>7. SerializedLength("c", b, at) = 1 /\ Number(b, at) = b[at + 1]
  BY <1>4, <1>6 DEF SerializedLength, Number, Canonical
<1> QED BY <1>1, <1>3, <1>6, <1>7 DEF ElementLength, Size

LEMMA OutcomeOk ==
  ASSUME NEW kind \in Kinds, NEW b \in Seq(Bytes), NEW o \in Nat,
         o + Before[kind] + 1 \in 1..Len(b), b[o + Before[kind] + 1] < Wide
  PROVE  ElementOutcome("c", kind, b, o) = "ok"
<1> DEFINE at == o + Before[kind]
<1>1. Before[kind] \in Nat /\ at \in Nat /\ Len(b) \in Nat
  BY ElementAssumption
<1>2. ~IsWide(b, at)
  BY CompactAssumption DEF IsWide, Bytes
<1>3. ~(Len(b) - at <= 0) /\ ~(Len(b) - o < Before[kind] + 1)
  BY <1>1
<1> QED BY <1>2, <1>3 DEF ElementOutcome, ParseOutcome

(***************************************************************************)
(* The witness proper, as the script and as SwapSpec read it.              *)
(***************************************************************************)
Words == SubSeq(witness.bytes, Front + 1, Len(witness.bytes) - Back)

LEMMA WordsRead ==
  ASSUME given \in Cases
  PROVE  /\ Words \in Seq(Bytes) /\ Len(Words) \in Nat
         /\ Words # <<>> => Len(witness.bytes) = Front + Len(Words) + Back
         /\ \A o \in Nat : o < Len(Words) =>
              Words[o + 1] = At(o) /\ At(o) \in Bytes /\ At(o) \in Nat
<1> DEFINE n == Len(witness.bytes)  w == Len(Words)
<1>1. witness.bytes \in Seq(Bytes) /\ n \in Nat /\ Front \in Nat /\ Back \in Nat
  BY SwapAssumption DEF witness
<1>2. Words \in Seq(Bytes) /\ w \in Nat
  <2>1. Front + 1 \in Int /\ n - Back \in Int
    BY <1>1
  <2>2. \A k \in Front + 1..n - Back : k \in 1..n /\ witness.bytes[k] \in Bytes
    BY <1>1
  <2> HIDE DEF n
  <2> QED BY <2>1, <2>2 DEF Words, n
<1>3. w = IF Front + 1 <= n - Back THEN n - Back - (Front + 1) + 1 ELSE 0
  <2>1. Front + 1 \in Int /\ n - Back \in Int
    BY <1>1
  <2> QED BY <1>1, <2>1 DEF Words
<1>4. \A k \in 1..w : Words[k] = witness.bytes[Front + k]
  <2>1. \A k \in 1..w : Words[k] = witness.bytes[Front + 1 + k - 1]
    BY <1>1, <1>3 DEF Words
  <2>2. \A k \in 1..w : Front + 1 + k - 1 = Front + k
    BY <1>1
  <2> QED BY <2>1, <2>2
<1>5. Words # <<>> => w # 0
  BY <1>2
<1> DEFINE m == n
<1> HIDE DEF n, w
<1>6. Words # <<>> => n = Front + w + Back
  BY <1>1, <1>2, <1>3, <1>5
<1>7. ASSUME NEW o \in Nat, o < w
      PROVE  Words[o + 1] = At(o) /\ At(o) \in Bytes /\ At(o) \in Nat
  <2>1. Front + o < n /\ o + 1 \in 1..w /\ Front + (o + 1) = Front + o + 1
    BY <1>1, <1>2, <1>3, <1>7
  <2>2. At(o) = witness.bytes[Front + o + 1]
    BY <2>1 DEF At, n
  <2>3. Words[o + 1] = witness.bytes[Front + (o + 1)]
    BY <1>4, <2>1
  <2>4. At(o) \in Bytes
    BY AtByte
  <2> QED BY <2>1, <2>2, <2>3, <2>4, CompactAssumption DEF Bytes
<1> QED BY <1>2, <1>6, <1>7 DEF w, n

(* What lies inside is read alike. *)
LEMMA PartRead ==
  ASSUME given \in Cases, NEW from \in Nat, NEW len \in Nat,
         from + len <= Len(Words)
  PROVE  SubSeq(Words, from + 1, from + len) = Slice(from, len)
<1>1. Words \in Seq(Bytes) /\ Len(Words) \in Nat
  BY WordsRead
<1>2. ASSUME NEW k \in 1..len PROVE Words[from + k] = At(from + k - 1)
  <2>1. /\ from + k - 1 \in Nat /\ from + k - 1 < Len(Words)
        /\ (from + k - 1) + 1 = from + k
    BY <1>1
  <2>2. Words[(from + k - 1) + 1] = At(from + k - 1)
    BY <2>1, WordsRead
  <2> QED BY <2>1, <2>2
<1>3. SubSeq(Words, from + 1, from + len) = [k \in 1..len |-> Words[from + k]]
  BY <1>1, PartOfSeq
<1> QED BY <1>2, <1>3 DEF Slice

(* The length of the witness does not wrap when something is in it. *)
LEMMA WordsLength ==
  ASSUME given \in Cases, Words # <<>>, Len(witness.bytes) <= MaxWitness
  PROVE  wit_len = Len(Words)
<1> DEFINE n == Len(witness.bytes)  w == Len(Words)
<1>1. n \in Nat /\ w \in Nat /\ n = Front + w + Back
  <2>1. n \in Nat
    BY SwapAssumption DEF witness
  <2> QED BY <2>1, WordsRead
<1>2. /\ Front \in Nat /\ Back \in Nat /\ Width \in Nat \ {0}
      /\ MaxWitness \in Nat /\ MaxWitness < Width
  BY SwapAssumption, RoomAssumption
<1>3. wit_len = (n - Front - Back) % Width /\ n <= MaxWitness
  BY DEF wit_len
<1> HIDE DEF n, w
<1>4. n - Front - Back = w /\ w \in 0..Width - 1
  BY <1>1, <1>2, <1>3
<1>5. w % Width = w
  BY ONLY <1>2, <1>4
<1> QED BY <1>3, <1>4, <1>5 DEF w

(***************************************************************************)
(* The fields.  The counts in front of the headers and the nodes say how   *)
(* long these are; where the witness has all fields, each lies where       *)
(* SwapSpec finds it.                                                      *)
(***************************************************************************)
Counted ==
  /\ pc \in WithHeaders => fields["headers"].len = HeaderSize * At(0)
  /\ pc \in WithNodes => fields["nodes"].len = NodeSize * At(End("headers"))
  /\ pc \in Deciding => fields["locktime"].len = NumberSize

LEMMA CountedStep == TypeInv /\ LayoutInv /\ Counted /\ [Next]_vars => Counted'
<1> SUFFICES ASSUME TypeInv, LayoutInv, Counted, [Next]_vars PROVE Counted'
  OBVIOUS
<1> USE DEF WithHeaders, WithNodes, WithNumbers, WithVin, WithVout, Deciding
<1>1. ASSUME UNCHANGED given PROVE \A o : At(o)' = At(o)
  BY <1>1 DEF At, witness
<1>2. CASE LoadArgs \/ LoadWitness
  BY <1>2 DEF LoadArgs, LoadWitness, Check, Continue, Return, Counted
<1>3. CASE ExtractHeaders
  BY <1>3, <1>1 DEF ExtractHeaders, Continue, View, Counted, TypeInv, TypeOK,
     FieldNames
<1>4. CASE ExtractNodes
  <2>1. /\ fields'["headers"] = fields["headers"]
        /\ fields'["nodes"] = View(offset + 1, NodeSize * At(offset))
        /\ offset = End("headers") /\ pc = "nodes" /\ pc' = "numbers"
        /\ UNCHANGED given
    BY <1>4 DEF ExtractNodes, Continue, TypeInv, TypeOK, FieldNames, LayoutInv,
       Passed
  <2> QED BY <1>1, <2>1 DEF Counted, End, View
<1>5. CASE ReadNumbers
  <2>1. /\ fields'["headers"] = fields["headers"]
        /\ fields'["nodes"] = fields["nodes"]
        /\ pc = "numbers" /\ pc' = "take_vin" /\ UNCHANGED given
    BY <1>5 DEF ReadNumbers, Continue, TypeInv, TypeOK, FieldNames
  <2> QED BY <1>1, <2>1 DEF Counted, End
<1>6. ASSUME NEW kind \in Kinds, Taken(kind) PROVE Counted'
  <2>1. /\ fields'["headers"] = fields["headers"]
        /\ fields'["nodes"] = fields["nodes"]
        /\ pc \in {"take_vin", "take_vout"} /\ pc' \in {"check_vin", "check_vout"}
        /\ UNCHANGED given
    BY <1>6 DEF Taken, Taking, Continue, TypeInv, TypeOK, FieldNames, Kinds
  <2> QED BY <1>1, <2>1 DEF Counted, End
<1>7. CASE CheckEnd
  <2>1. /\ fields'["headers"] = fields["headers"]
        /\ fields'["nodes"] = fields["nodes"]
        /\ fields'["locktime"].len = NumberSize
        /\ pc = "end" /\ pc' \in {"inclusion", "done"} /\ UNCHANGED given
    BY <1>7 DEF CheckEnd, Continue, Return, View, TypeInv, TypeOK, FieldNames
  <2> QED BY <1>1, <2>1 DEF Counted, End
<1>8. ASSUME NEW kind \in Kinds,
             \/ TakeElement(kind) \/ Overrun(kind) \/ CheckElement(kind)
             \/ RefuseVector(kind) \/ AcceptVector(kind)
      PROVE  Counted'
  <2>1. /\ UNCHANGED <<given, fields>>
        /\ pc \in {"take_vin", "take_vout", "check_vin", "check_vout"}
        /\ pc' \in {"take_vin", "take_vout", "check_vin", "check_vout", "end",
                    "done"}
    BY <1>8 DEF TakeElement, Overrun, CheckElement, RefuseVector, AcceptVector,
       Taking, Checking, Continue, Return
  <2> QED BY <1>1, <2>1 DEF Counted, End
<1>9. CASE Decide
  <2>1. UNCHANGED <<given, fields>> /\ pc \in Deciding
        /\ pc' \in Deciding \cup {"done"}
    BY <1>9 DEF Decide, CheckInclusion, CheckChain, CheckListing, LoadLock,
       CheckPayee, CheckCapacity, Check, Continue, Return
  <2> QED BY <1>1, <2>1 DEF Counted, End
<1>10. CASE UNCHANGED vars
  BY <1>10, <1>1 DEF vars, Counted, End
<1> QED
  BY <1>2, <1>3, <1>4, <1>5, <1>6, <1>7, <1>8, <1>9, <1>10 DEF Next, Parse, Done

LEMMA Parts ==
  ASSUME NEW from, NEW len
  PROVE  Promise!Part(from, len) = SubSeq(Words, from + 1, from + len)
BY DEF Promise!Part, Words

(* The places of SwapSpec. *)
LEMMA Places ==
  ASSUME given \in Cases, Promise!HasFields
  PROVE  /\ Words # <<>> /\ 0 < Len(Words)
         /\ Promise!AfterHeaders = 1 + HeaderSize * At(0)
         /\ Promise!AfterHeaders \in Nat
         /\ Promise!AfterHeaders < Len(Words)
         /\ Promise!AfterNodes =
              Promise!AfterHeaders + 1 + NodeSize * At(Promise!AfterHeaders)
         /\ Promise!AfterNodes \in Nat
         /\ Promise!VinAt = Promise!AfterNodes + 2 * NumberSize
         /\ Promise!VinAt \in Nat
         /\ Promise!LocktimeAt = Len(Words) - NumberSize
         /\ Promise!LocktimeAt \in Nat
         /\ Promise!VinAt <= Promise!LocktimeAt
<1>1. /\ Words # <<>> /\ Promise!AfterHeaders < Len(Words)
      /\ Promise!VinAt <= Promise!LocktimeAt
  BY DEF Promise!HasFields, Words
<1>2. Len(Words) \in Nat /\ 0 < Len(Words) /\ Words \in Seq(Bytes)
  BY <1>1, WordsRead
<1>3. Words[1] = At(0) /\ At(0) \in Nat
  <2>1. Words[0 + 1] = At(0) /\ At(0) \in Nat
    BY <1>2, WordsRead
  <2> QED BY <2>1
<1>4. /\ HeaderSize \in Nat /\ NodeSize \in Nat /\ NumberSize \in Nat
  BY SwapAssumption
<1>5. Promise!AfterHeaders = 1 + HeaderSize * At(0)
  BY <1>3 DEF Promise!AfterHeaders, Words
<1>6. Promise!AfterHeaders \in Nat
  <2>1. HeaderSize * At(0) \in Nat
    BY ONLY <1>3, <1>4
  <2> QED BY <1>5, <2>1
<1> DEFINE a == Promise!AfterHeaders
<1>7. Words[a + 1] = At(a) /\ At(a) \in Nat
  BY <1>1, <1>6, WordsRead
<1>8. Promise!AfterNodes = a + 1 + NodeSize * Words[a + 1]
  BY DEF Promise!AfterNodes, Words
<1>9. Promise!AfterNodes = a + 1 + NodeSize * At(a) /\ Promise!AfterNodes \in Nat
  <2>1. NodeSize * At(a) \in Nat
    BY ONLY <1>4, <1>7
  <2> QED BY <1>6, <1>7, <1>8, <2>1
<1>10. Promise!VinAt = Promise!AfterNodes + 2 * NumberSize
  BY DEF Promise!VinAt
<1>11. Promise!VinAt \in Nat
  BY <1>4, <1>9, <1>10
<1>12. Promise!LocktimeAt = Len(Words) - NumberSize
  BY DEF Promise!LocktimeAt, Words
<1>13. Promise!LocktimeAt \in Nat
  BY <1>1, <1>2, <1>4, <1>11, <1>12
<1> QED BY <1>1, <1>2, <1>5, <1>6, <1>9, <1>10, <1>11, <1>12, <1>13

LEMMA Positions ==
  ASSUME TypeInv, LayoutInv, Counted, Promise!HasFields
  PROVE  /\ pc \in WithHeaders => End("headers") = Promise!AfterHeaders
         /\ pc \in WithNodes => End("nodes") = Promise!AfterNodes
         /\ pc \in WithNumbers => End("version") = Promise!VinAt
         /\ pc \in WithVin => fields["vin"].loc = Promise!VinAt
         /\ pc \in WithVout =>
              fields["vout"].loc = Promise!VinAt + fields["vin"].len
<1> USE DEF WithHeaders, WithNodes, WithNumbers, WithVin, WithVout
<1>1. given \in Cases
  BY DEF TypeInv
<1>2. ASSUME pc \in WithHeaders PROVE End("headers") = Promise!AfterHeaders
  BY <1>1, <1>2, Places DEF LayoutInv, Laid, Counted, End
<1>3. ASSUME pc \in WithNodes PROVE End("nodes") = Promise!AfterNodes
  BY <1>1, <1>2, <1>3, Places DEF LayoutInv, Laid, Counted, End
<1>4. ASSUME pc \in WithNumbers PROVE End("version") = Promise!VinAt
  <2>1. /\ End("tx_index") = End("nodes") + NumberSize
        /\ End("version") = End("tx_index") + NumberSize
    BY <1>4 DEF LayoutInv, Laid, End, View
  <2>2. End("nodes") = Promise!AfterNodes /\ Promise!AfterNodes \in Nat
        /\ NumberSize \in Nat /\ Promise!VinAt = Promise!AfterNodes + 2 * NumberSize
    BY <1>1, <1>3, <1>4, Places, SwapAssumption
  <2> QED BY <2>1, <2>2
<1>5. ASSUME pc \in WithVin PROVE fields["vin"].loc = Promise!VinAt
  BY <1>4, <1>5 DEF LayoutInv, Laid
<1>6. ASSUME pc \in WithVout
      PROVE  fields["vout"].loc = Promise!VinAt + fields["vin"].len
  BY <1>5, <1>6 DEF LayoutInv, Laid, End
<1> QED BY <1>2, <1>3, <1>4, <1>5, <1>6

(***************************************************************************)
(* The vectors.  The walk of a check stands at the one place where so many *)
(* elements end, or has left the vector and there is none.                 *)
(***************************************************************************)
Walked ==
  \A kind \in Kinds : Checking(kind) =>
    /\ i <= Count(kind)
    /\ i > 0 => Count(kind) < Wide
    /\ end <= fields[kind].len => end \in Ends(kind, Of(kind))[i]
    /\ Ends(kind, Of(kind))[i] \subseteq {end}

Accepted ==
  /\ pc \in {"take_vout"} \cup WithVout => IsVin(Of("vin"))
  /\ pc \in {"end"} \cup Deciding => IsVout(Of("vout"))

(* A vector that is checked is a string of bytes with a count.             *)
LEMMA CheckedBytes ==
  ASSUME TypeInv, NEW kind \in Kinds, Checking(kind)
  PROVE  /\ Of(kind) \in Seq(Bytes) /\ Of(kind) # <<>>
         /\ Len(Of(kind)) = fields[kind].len /\ fields[kind].len \in Nat
         /\ Of(kind)[1] = Count(kind) /\ Count(kind) \in Nat
         /\ i \in Nat /\ end \in Nat
<1>1. fields[kind].loc \in Nat /\ fields[kind].len \in Nat \ {0}
  BY DEF TypeInv, TypeOK, Heads, FieldNames, Kinds
<1>2. Of(kind) \in Seq(Bytes) /\ Len(Of(kind)) = fields[kind].len
  BY <1>1, SliceBytes DEF Of, TypeInv
<1>3. Of(kind)[1] \in Bytes
  BY <1>1, <1>2
<1>4. i \in Nat /\ end \in Nat
  BY CompactAssumption DEF TypeInv, TypeOK, Bytes
<1> QED BY <1>1, <1>2, <1>3, <1>4, CompactAssumption DEF Count, Bytes

LEMMA OfStays ==
  ASSUME NEW f, UNCHANGED given, fields'[f] = fields[f]
  PROVE  Of(f)' = Of(f)
<1>1. \A o : At(o)' = At(o)
  BY DEF At, witness
<1> QED BY <1>1 DEF Of, Slice

LEMMA WalkedCheck ==
  ASSUME TypeInv, Walked, NEW kind \in Kinds, CheckElement(kind)
  PROVE  Walked'
<1> DEFINE s == Of(kind)  x == s[end + Before[kind] + 1]
<1>1. Checking(kind) /\ i < Count(kind) /\ Sound(kind)
      /\ i' = i + 1 /\ end' = Beyond(kind, s)
      /\ UNCHANGED <<given, pc, fields>>
  BY DEF CheckElement
<1>2. /\ s \in Seq(Bytes) /\ s # <<>> /\ Len(s) = fields[kind].len
      /\ s[1] = Count(kind) /\ Count(kind) \in Nat /\ i \in Nat /\ end \in Nat
      /\ Len(s) \in Nat
  BY <1>1, CheckedBytes
<1>3. /\ end <= fields[kind].len => end \in Ends(kind, s)[i]
      /\ Ends(kind, s)[i] \subseteq {end}
  BY <1>1 DEF Walked
<1>4. Count(kind) < Wide /\ end < Len(s) /\ ElementOutcome("c", kind, s, end) = "ok"
  BY <1>1, <1>2 DEF Sound, Outcome
<1>5. /\ end + Before[kind] + 1 \in 1..Len(s) /\ x < Wide
      /\ end' = end + Size(kind, x)
  BY <1>1, <1>2, <1>4, OutcomeRead DEF Beyond
<1>6. end' \in Nat
  <2>1. x \in Nat /\ Before[kind] \in Nat /\ After[kind] \in Nat
    <3>1. Bytes \subseteq Nat
      BY ONLY CompactAssumption DEF Bytes
    <3>2. s[end + Before[kind] + 1] \in Bytes
      BY ONLY <1>2, <1>5
    <3>3. Before[kind] \in Nat /\ After[kind] \in Nat
      BY ONLY ElementAssumption, kind \in Kinds
    <3> QED BY ONLY <3>1, <3>2, <3>3 DEF x
  <2> HIDE DEF x
  <2>2. Size(kind, x) \in Nat
    BY ONLY <2>1 DEF Size
  <2> QED BY <1>2, <1>5, <2>2
<1>7. i + 1 \in 1..s[1] /\ (i + 1) - 1 = i
  BY <1>1, <1>2
<1> HIDE DEF s
<1>8. ASSUME end' <= Len(s) PROVE end' \in Ends(kind, s)[i + 1]
  <2>1. end' \in end + 1..Len(s) /\ IsElement(kind, SubSeq(s, end + 1, end'))
    BY <1>2, <1>5, <1>6, <1>8, ElementWritten
  <2>2. end \in Ends(kind, s)[i]
    BY <1>2, <1>3, <1>4
  <2> QED BY <1>2, <1>7, <2>1, <2>2, EndsStep
<1>9. ASSUME NEW to \in Ends(kind, s)[i + 1] PROVE to = end'
  <2>1. PICK from \in Ends(kind, s)[i] :
          to \in from + 1..Len(s) /\ IsElement(kind, SubSeq(s, from + 1, to))
    BY <1>2, <1>7, EndsStep
  <2>2. from = end
    BY <1>3
  <2>3. to = end + Size(kind, x)
    BY <1>2, <2>1, <2>2, ElementRead
  <2> QED BY <1>5, <2>3
<1>10. Of(kind)' = s /\ Count(kind)' = Count(kind)
  <2>1. Of(kind)' = s
    BY <1>1, OfStays DEF s
  <2> QED BY <2>1 DEF Count, s
<1>11. \A k \in Kinds : Checking(k)' => k = kind
  BY <1>1 DEF Checking, Kinds
<1> QED BY <1>1, <1>2, <1>4, <1>7, <1>8, <1>9, <1>10, <1>11 DEF Walked

(* main refuses what is no vector, *)
LEMMA RefusedIsNone ==
  ASSUME TypeInv, Walked, NEW kind \in Kinds, RefuseVector(kind)
  PROVE  ~IsVector(kind, Of(kind))
<1> DEFINE s == Of(kind)
<1>1. /\ Checking(kind)
      /\ \/ Count(kind) = 0
         \/ i < Count(kind) /\ ~Sound(kind)
         \/ i = Count(kind) /\ end # fields[kind].len
  BY DEF RefuseVector
<1>2. /\ s \in Seq(Bytes) /\ s # <<>> /\ Len(s) = fields[kind].len
      /\ s[1] = Count(kind) /\ Count(kind) \in Nat /\ i \in Nat /\ end \in Nat
      /\ Len(s) \in Nat
  BY <1>1, CheckedBytes
<1>3. Ends(kind, s)[i] \subseteq {end}
  BY <1>1 DEF Walked
<1> SUFFICES ASSUME s[1] \in 1..Wide - 1, Len(s) \in Ends(kind, s)[s[1]]
             PROVE  FALSE
  BY DEF IsVector
<1>4. CASE i < Count(kind) /\ ~Sound(kind)
  <2>1. s[1] \in 0..s[1] /\ i + 1 \in 0..s[1] /\ i + 1 \in 1..s[1]
        /\ (i + 1) - 1 = i
    BY <1>2, <1>4
  <2> HIDE DEF s
  <2>2. PICK to : to \in Ends(kind, s)[i + 1]
    BY <1>2, <2>1, EndsBefore
  <2>3. PICK from \in Ends(kind, s)[i] :
          to \in from + 1..Len(s) /\ IsElement(kind, SubSeq(s, from + 1, to))
    BY <1>2, <2>1, <2>2, EndsStep
  <2>4. from = end
    BY <1>3
  <2>5. /\ end + Before[kind] + 1 \in 1..to /\ to \in end + 1..Len(s)
        /\ s[end + Before[kind] + 1] < Wide
    BY <1>2, <2>3, <2>4, ElementRead
  <2>6. end + Before[kind] + 1 \in 1..Len(s) /\ end < Len(s)
    BY <1>2, <2>5
  <2>7. ElementOutcome("c", kind, s, end) = "ok"
    BY <1>2, <2>5, <2>6, OutcomeOk
  <2>8. Count(kind) < Wide
    BY <1>2, CompactAssumption
  <2> QED BY <1>2, <1>4, <2>6, <2>7, <2>8 DEF Sound, Outcome, s
<1>5. CASE i = Count(kind) /\ end # fields[kind].len
  BY <1>2, <1>3, <1>5
<1> QED BY <1>1, <1>2, <1>4, <1>5

(* and accepts what is one. *)
LEMMA AcceptedIsVector ==
  ASSUME TypeInv, Walked, NEW kind \in Kinds, AcceptVector(kind)
  PROVE  IsVector(kind, Of(kind))
<1> DEFINE s == Of(kind)
<1>1. Checking(kind) /\ Count(kind) # 0 /\ i = Count(kind) /\ end = fields[kind].len
  BY DEF AcceptVector
<1>2. /\ s # <<>> /\ Len(s) = fields[kind].len
      /\ s[1] = Count(kind) /\ Count(kind) \in Nat /\ end \in Nat
  BY <1>1, CheckedBytes
<1>3. Count(kind) < Wide /\ end \in Ends(kind, s)[i]
  BY <1>1, <1>2 DEF Walked
<1> QED BY <1>1, <1>2, <1>3, CompactAssumption DEF IsVector

(* A walk that begins stands behind the count. *)
LEMMA WalkedTaken ==
  ASSUME TypeInv, NEW kind \in Kinds, Taken(kind)
  PROVE  Walked'
<1>1. /\ Taking(kind) /\ i' = 0 /\ end' = 1 /\ UNCHANGED given
      /\ fields'[kind] = View(offset, end)
      /\ pc' = IF kind = "vin" THEN "check_vin" ELSE "check_vout"
  BY DEF Taken, Continue, TypeInv, TypeOK, FieldNames, Kinds
<1> DEFINE s == Slice(offset, end)
<1>2. offset \in Nat /\ end \in Nat \ {0}
  BY DEF TypeInv, TypeOK
<1>3. s \in Seq(Bytes) /\ Len(s) = end
  BY <1>2, SliceBytes DEF TypeInv
<1>4. s[1] \in Bytes /\ s[1] \in Nat
  BY <1>2, <1>3, CompactAssumption DEF Bytes
<1>5. Of(kind)' = s
  <2>1. \A o : At(o)' = At(o)
    BY <1>1 DEF At, witness
  <2> QED BY <1>1, <2>1 DEF Of, Slice, View
<1>6. Count(kind)' = s[1]
  BY <1>5 DEF Count
<1> HIDE DEF s
<1>7. Ends(kind, s)[0] = {1}
  BY <1>4, EndsDefined
<1>8. \A k \in Kinds : Checking(k)' => k = kind
  BY <1>1 DEF Checking, Kinds
<1>9. /\ i' <= Count(kind)' /\ ~(i' > 0)
      /\ end' \in Ends(kind, Of(kind)')[i'] /\ Ends(kind, Of(kind)')[i'] \subseteq {end'}
  BY <1>1, <1>4, <1>5, <1>6, <1>7
<1> QED BY <1>8, <1>9 DEF Walked

LEMMA AcceptedStep ==
  TypeInv /\ Walked /\ Accepted /\ [Next]_vars => Walked' /\ Accepted'
<1> SUFFICES ASSUME TypeInv, Walked, Accepted, [Next]_vars
             PROVE  Walked' /\ Accepted'
  OBVIOUS
<1> USE DEF WithVout, Deciding
<1>1. ASSUME NEW kind \in Kinds, CheckElement(kind) PROVE Walked' /\ Accepted'
  <2>1. /\ UNCHANGED <<given, pc, fields>>
    BY <1>1 DEF CheckElement
  <2>2. Of("vin")' = Of("vin") /\ Of("vout")' = Of("vout")
    BY <2>1, OfStays
  <2> QED BY <1>1, <2>1, <2>2, WalkedCheck DEF Accepted
<1>2. ASSUME NEW kind \in Kinds, Taken(kind) PROVE Walked' /\ Accepted'
  <2>1. CASE kind = "vin"
    <3>1. pc' = "check_vin"
      BY <1>2, <2>1 DEF Taken, Continue
    <3> QED BY <1>2, <3>1, WalkedTaken DEF Accepted
  <2>2. CASE kind = "vout"
    <3>1. /\ pc = "take_vout" /\ pc' = "check_vout" /\ UNCHANGED given
          /\ fields'["vin"] = fields["vin"]
      BY <1>2, <2>2 DEF Taken, Taking, Continue, TypeInv, TypeOK, FieldNames
    <3>2. Of("vin")' = Of("vin")
      BY <3>1, OfStays
    <3> QED BY <1>2, <3>1, <3>2, WalkedTaken DEF Accepted
  <2> QED BY <1>2, <2>1, <2>2 DEF Kinds
<1>3. ASSUME NEW kind \in Kinds, AcceptVector(kind) PROVE Walked' /\ Accepted'
  <2>1. /\ UNCHANGED <<given, fields>> /\ Checking(kind)
        /\ pc' = IF kind = "vin" THEN "take_vout" ELSE "end"
    BY <1>3 DEF AcceptVector, Continue
  <2>2. Of("vin")' = Of("vin") /\ Of("vout")' = Of("vout")
    BY <2>1, OfStays
  <2>3. IsVector(kind, Of(kind))
    BY <1>3, AcceptedIsVector
  <2>4. Walked'
    BY <2>1 DEF Walked, Checking, Kinds
  <2>5. CASE kind = "vin"
    BY <2>1, <2>2, <2>3, <2>4, <2>5 DEF Accepted, IsVin
  <2>6. CASE kind = "vout"
    BY <2>1, <2>2, <2>3, <2>4, <2>6 DEF Accepted, IsVout, Checking
  <2> QED BY <2>5, <2>6 DEF Kinds
<1>4. CASE CheckEnd
  <2>1. /\ pc = "end" /\ pc' \in {"inclusion", "done"} /\ UNCHANGED given
        /\ fields'["vin"] = fields["vin"] /\ fields'["vout"] = fields["vout"]
    BY <1>4 DEF CheckEnd, Continue, Return, TypeInv, TypeOK, FieldNames
  <2>2. Of("vin")' = Of("vin") /\ Of("vout")' = Of("vout")
    BY <2>1, OfStays
  <2> QED BY <2>1, <2>2 DEF Walked, Accepted, Checking
<1>5. CASE Decide
  <2>1. UNCHANGED <<given, fields>> /\ pc \in Deciding
        /\ pc' \in Deciding \cup {"done"}
    BY <1>5 DEF Decide, CheckInclusion, CheckChain, CheckListing, LoadLock,
       CheckPayee, CheckCapacity, Check, Continue, Return
  <2>2. Of("vin")' = Of("vin") /\ Of("vout")' = Of("vout")
    BY <2>1, OfStays
  <2> QED BY <2>1, <2>2 DEF Walked, Accepted, Checking
<1>6. ASSUME NEW kind \in Kinds, TakeElement(kind) PROVE Walked' /\ Accepted'
  <2>1. UNCHANGED <<given, pc, fields>> /\ Taking(kind)
    BY <1>6 DEF TakeElement
  <2>2. Of("vin")' = Of("vin") /\ Of("vout")' = Of("vout")
    BY <2>1, OfStays
  <2> QED BY <2>1, <2>2 DEF Walked, Accepted, Checking, Taking, Kinds
<1>7. CASE LoadArgs \/ LoadWitness \/ ExtractHeaders \/ ExtractNodes \/ ReadNumbers
  <2>1. pc' \in {"load_witness", "headers", "nodes", "numbers", "take_vin", "done"}
    BY <1>7 DEF LoadArgs, LoadWitness, ExtractHeaders, ExtractNodes, ReadNumbers,
       Check, Continue, Return
  <2> QED BY <2>1 DEF Walked, Accepted, Checking
<1>8. ASSUME NEW kind \in Kinds, Overrun(kind) \/ RefuseVector(kind)
      PROVE  Walked' /\ Accepted'
  <2>1. pc' = "done"
    BY <1>8 DEF Overrun, RefuseVector, Return
  <2> QED BY <2>1 DEF Walked, Accepted, Checking
<1>9. CASE UNCHANGED vars
  <2>1. UNCHANGED <<given, pc, fields, i, end>>
    BY <1>9 DEF vars
  <2>2. Of("vin")' = Of("vin") /\ Of("vout")' = Of("vout")
    BY <2>1, OfStays
  <2>3. Accepted'
    BY <2>1, <2>2 DEF Accepted
  <2>4. \A kind \in Kinds : Of(kind)' = Of(kind) /\ Count(kind)' = Count(kind)
    BY <2>2 DEF Kinds, Count
  <2>5. Walked'
    BY <2>1, <2>4 DEF Walked, Checking
  <2> QED BY <2>3, <2>5
<1> QED
  BY <1>1, <1>2, <1>3, <1>4, <1>5, <1>6, <1>7, <1>8, <1>9 DEF Next, Parse, Done

(***************************************************************************)
(* The one way to read the witness.  Where SwapSpec finds a transaction    *)
(* with v bytes of inputs, main finds the same: it stands behind the same  *)
(* elements while it takes the vectors, and their fields are the parts.    *)
(***************************************************************************)
Formed(v) ==
  /\ Promise!HasFields /\ v \in 0..Promise!LocktimeAt - Promise!VinAt
  /\ IsVin(Promise!Transaction(v).vin) /\ IsVout(Promise!Transaction(v).vout)

PartAt(kind, v) == IF kind = "vin" THEN Promise!VinAt ELSE Promise!VinAt + v
PartLen(kind, v) ==
  IF kind = "vin" THEN v ELSE Promise!LocktimeAt - Promise!VinAt - v
PartOf(kind, v) == Slice(PartAt(kind, v), PartLen(kind, v))

Behind(kind) == IF kind = "vin" THEN WithVin ELSE WithVout

Faithful ==
  \A v \in Nat : Formed(v) => \A kind \in Kinds :
    /\ Taking(kind) => /\ i <= PartOf(kind, v)[1]
                       /\ Ends(kind, PartOf(kind, v))[i] \subseteq {end}
    /\ pc \in Behind(kind) => fields[kind].len = PartLen(kind, v)

LEMMA PartsInside ==
  ASSUME given \in Cases, Promise!HasFields,
         NEW v \in 0..Promise!LocktimeAt - Promise!VinAt, NEW kind \in Kinds
  PROVE  /\ PartAt(kind, v) \in Nat /\ PartLen(kind, v) \in Nat
         /\ PartAt(kind, v) + PartLen(kind, v) <= Len(Words)
         /\ PartOf(kind, v) \in Seq(Bytes)
         /\ Len(PartOf(kind, v)) = PartLen(kind, v)
         /\ Promise!Transaction(v).vin = PartOf("vin", v)
         /\ Promise!Transaction(v).vout = PartOf("vout", v)
<1>1. /\ Promise!VinAt \in Nat /\ Promise!LocktimeAt \in Nat
      /\ Promise!LocktimeAt = Len(Words) - NumberSize
      /\ Promise!VinAt <= Promise!LocktimeAt
      /\ NumberSize \in Nat /\ Len(Words) \in Nat
  BY Places, WordsRead, SwapAssumption
<1>2. \A k \in Kinds : /\ PartAt(k, v) \in Nat /\ PartLen(k, v) \in Nat
                       /\ PartAt(k, v) + PartLen(k, v) <= Len(Words)
  BY <1>1 DEF PartAt, PartLen, Kinds
<1>3. PartOf(kind, v) \in Seq(Bytes) /\ Len(PartOf(kind, v)) = PartLen(kind, v)
  BY <1>2, SliceBytes DEF PartOf
<1>4. \A k \in Kinds :
        Promise!Part(PartAt(k, v), PartLen(k, v)) = PartOf(k, v)
  BY <1>2, Parts, PartRead DEF PartOf
<1>5. /\ Promise!Transaction(v).vin = Promise!Part(PartAt("vin", v), PartLen("vin", v))
      /\ Promise!Transaction(v).vout =
           Promise!Part(PartAt("vout", v), PartLen("vout", v))
  BY DEF Promise!Transaction, PartAt, PartLen
<1> QED BY <1>2, <1>3, <1>4, <1>5 DEF Kinds

LEMMA FormedVectors ==
  ASSUME given \in Cases, NEW v, Formed(v), NEW kind \in Kinds
  PROVE  /\ IsVector(kind, PartOf(kind, v))
         /\ PartOf(kind, v) # <<>> /\ PartOf(kind, v)[1] \in Nat
         /\ PartLen(kind, v) \in Nat \ {0}
<1>1. v \in 0..Promise!LocktimeAt - Promise!VinAt /\ Promise!HasFields
  BY DEF Formed
<1>2. IsVector(kind, PartOf(kind, v))
  <2>1. IsVin(PartOf("vin", v)) /\ IsVout(PartOf("vout", v))
    BY <1>1, PartsInside DEF Formed
  <2> QED BY <2>1 DEF IsVin, IsVout, Kinds
<1>3. /\ PartOf(kind, v) \in Seq(Bytes) /\ PartOf(kind, v) # <<>>
      /\ Len(PartOf(kind, v)) = PartLen(kind, v) /\ PartLen(kind, v) \in Nat
  BY <1>1, <1>2, PartsInside DEF IsVector
<1> QED BY <1>2, <1>3, CompactAssumption DEF IsVector

(* What main reads of the vector that it takes is the part.                *)
LEMMA TakenFrom ==
  ASSUME TypeInv, LayoutInv, Counted, Faithful,
         NEW v \in Nat, Formed(v), NEW kind \in Kinds, Taking(kind)
  PROVE  /\ offset = PartAt(kind, v) /\ At(offset) = PartOf(kind, v)[1]
         /\ Inside
         /\ left \in Nat /\ PartLen(kind, v) <= left
         /\ Rest \in Seq(Bytes) /\ Len(Rest) = left
         /\ \A k \in 1..PartLen(kind, v) : Rest[k] = PartOf(kind, v)[k]
<1>1. given \in Cases /\ offset \in Nat
  BY DEF TypeInv, TypeOK
<1>2. Promise!HasFields /\ v \in 0..Promise!LocktimeAt - Promise!VinAt
  BY DEF Formed
<1>3. offset = PartAt(kind, v)
  <2>1. CASE kind = "vin"
    <3>1. pc = "take_vin" /\ offset = End("version")
      BY <2>1 DEF Taking, LayoutInv, Passed
    <3> QED BY <1>2, <2>1, <3>1, Positions DEF PartAt, WithNumbers
  <2>2. CASE kind = "vout"
    <3>1. pc = "take_vout" /\ offset = End("vin")
      BY <2>2 DEF Taking, LayoutInv, Passed
    <3>2. fields["vin"].loc = Promise!VinAt
      BY <1>2, <3>1, Positions DEF WithVin
    <3>3. fields["vin"].len = v
      BY <3>1 DEF Faithful, Behind, WithVin, Kinds, PartLen
    <3> QED BY <2>2, <3>1, <3>2, <3>3 DEF End, PartAt
  <2> QED BY <2>1, <2>2 DEF Kinds
<1> DEFINE w == Len(Words)  len == PartLen(kind, v)  n == Len(witness.bytes)
<1>4. w \in Nat /\ len \in Nat \ {0} /\ offset + len <= w
  BY <1>1, <1>2, <1>3, PartsInside, FormedVectors, WordsRead
<1>5. Words # <<>> /\ n = Front + w + Back /\ n \in Nat
  <2>1. n \in Nat
    BY <1>1, SwapAssumption DEF witness
  <2> QED BY <1>1, <1>2, <2>1, Places, WordsRead
<1>6. n <= MaxWitness
  BY DEF LayoutInv, Sized, Taking, WithHeaders, WithNodes, WithNumbers, WithVin
<1>7. wit_len = w
  BY <1>1, <1>5, <1>6, WordsLength
<1>8. /\ Front \in Nat /\ Back \in Nat /\ Width \in Nat \ {0}
      /\ MaxWitness \in Nat /\ MaxWitness < Width
  BY SwapAssumption, RoomAssumption
<1> HIDE DEF w, len, n
<1>9. left = w - offset
  <2>1. w - offset \in 0..Width - 1
    BY <1>1, <1>4, <1>5, <1>6, <1>8
  <2>2. (w - offset) % Width = w - offset
    BY ONLY <1>8, <2>1
  <2> QED BY <1>7, <2>2 DEF left
<1>10. left \in Nat /\ len <= left
  BY <1>1, <1>4, <1>9
<1>11. Rest \in Seq(Bytes) /\ Len(Rest) = left
  BY <1>1, <1>10, SliceBytes DEF Rest
<1>12. \A k \in 1..len : Rest[k] = PartOf(kind, v)[k]
  <2>1. \A k \in 1..len : k \in 1..left
    BY <1>4, <1>10
  <2> QED BY <1>3, <2>1 DEF Rest, PartOf, Slice, len
<1>13. Inside
  BY <1>1, <1>4, <1>5, <1>8 DEF Inside, n
<1>14. At(offset) = PartOf(kind, v)[1]
  <2>1. 1 \in 1..len /\ offset + 1 - 1 = offset
    BY <1>1, <1>4
  <2>2. PartOf(kind, v)[1] = At(offset + 1 - 1)
    BY <1>3, <2>1 DEF PartOf, Slice, len
  <2> QED BY <2>1, <2>2
<1> QED BY <1>3, <1>10, <1>11, <1>12, <1>13, <1>14 DEF len

(* An element of the part is one that main takes. *)
LEMMA TakenElement ==
  ASSUME TypeInv, LayoutInv, Counted, Faithful,
         NEW v \in Nat, Formed(v), NEW kind \in Kinds, Taking(kind),
         i < At(offset)
  PROVE  /\ Whole(kind) /\ Outcome(kind, Rest) = "ok" /\ Beyond(kind, Rest) <= left
         /\ i + 1 <= PartOf(kind, v)[1]
         /\ Ends(kind, PartOf(kind, v))[i + 1] \subseteq {Beyond(kind, Rest)}
<1> DEFINE s == PartOf(kind, v)  len == PartLen(kind, v)
<1>1. /\ At(offset) = s[1] /\ left \in Nat /\ len <= left
      /\ Rest \in Seq(Bytes) /\ Len(Rest) = left
      /\ \A k \in 1..len : Rest[k] = s[k]
  BY TakenFrom
<1>2. /\ s \in Seq(Bytes) /\ Len(s) = len /\ len \in Nat /\ s[1] \in Nat
      /\ s[1] \in 1..Wide - 1 /\ Len(s) \in Ends(kind, s)[s[1]]
  BY PartsInside, FormedVectors DEF TypeInv, Formed, IsVector
<1>3. i \in Nat /\ end \in Nat /\ Ends(kind, s)[i] \subseteq {end}
  BY CompactAssumption DEF TypeInv, TypeOK, Bytes, Faithful
<1> DEFINE at == end + Before[kind] + 1
<1> HIDE DEF s, len, at
<1>4. i + 1 \in 0..s[1] /\ i + 1 \in 1..s[1] /\ s[1] \in 0..s[1] /\ (i + 1) - 1 = i
  BY <1>1, <1>2, <1>3
<1>5. ASSUME NEW to \in Ends(kind, s)[i + 1]
      PROVE  /\ at \in 1..to /\ to \in end + 1..Len(s) /\ s[at] < Wide
             /\ to = end + Size(kind, s[at])
  <2>1. PICK from \in Ends(kind, s)[i] :
          to \in from + 1..Len(s) /\ IsElement(kind, SubSeq(s, from + 1, to))
    BY <1>2, <1>4, EndsStep
  <2>2. from = end
    BY <1>3
  <2> QED BY <1>2, <1>3, <2>1, <2>2, ElementRead DEF at
<1>6. PICK to : to \in Ends(kind, s)[i + 1]
  BY <1>2, <1>4, EndsBefore
<1>7. at \in 1..Len(Rest) /\ Rest[at] = s[at] /\ Rest[at] < Wide
  <2>1. at \in 1..len /\ s[at] < Wide
    BY <1>2, <1>3, <1>5, <1>6
  <2> QED BY <1>1, <1>2, <2>1
<1>8. Outcome(kind, Rest) = "ok"
  BY <1>1, <1>3, <1>7, OutcomeOk DEF Outcome, at
<1>9. Beyond(kind, Rest) = end + Size(kind, s[at])
  BY <1>1, <1>3, <1>7, <1>8, OutcomeRead DEF Outcome, Beyond, at
<1>10. Beyond(kind, Rest) <= left
  <2>1. to = Beyond(kind, Rest) /\ to \in end + 1..Len(s)
    BY <1>5, <1>6, <1>9
  <2> QED BY <1>1, <1>2, <1>3, <2>1
<1>11. At(offset) < Wide
  BY <1>1, <1>2, CompactAssumption
<1>12. Ends(kind, s)[i + 1] \subseteq {Beyond(kind, Rest)}
  BY <1>5, <1>9
<1> QED BY <1>4, <1>8, <1>10, <1>11, <1>12 DEF Whole, s

(* Nothing makes main read behind the witness where a transaction is.      *)
LEMMA OverrunIsNone ==
  ASSUME TypeInv, LayoutInv, Counted, Faithful, NEW kind \in Kinds, Overrun(kind),
         NEW v \in Nat, Formed(v)
  PROVE  FALSE
<1>1. Taking(kind) /\ i < At(offset)
  BY DEF Overrun
<1>2. Inside /\ left \in Nat
  BY <1>1, TakenFrom
<1>3. Outcome(kind, Rest) = "ok" /\ Beyond(kind, Rest) <= left
  BY <1>1, TakenElement
<1>4. Beyond(kind, Rest) \in Nat
  <2>1. Rest \in Seq(Bytes) /\ end \in Nat \ {0}
    BY <1>1, TakenFrom DEF TypeInv, TypeOK
  <2> QED BY <1>3, <2>1, TypeBeyond
<1> QED BY <1>1, <1>2, <1>3, <1>4 DEF Overrun

(* What a witness is does not change. *)
LEMMA WitnessStays ==
  ASSUME UNCHANGED given
  PROVE  /\ \A o : At(o)' = At(o)
         /\ \A v : Formed(v)' = Formed(v)
         /\ \A kind, v : /\ PartAt(kind, v)' = PartAt(kind, v)
                         /\ PartLen(kind, v)' = PartLen(kind, v)
                         /\ PartOf(kind, v)' = PartOf(kind, v)
<1>1. witness' = witness
  BY DEF witness
<1>2. \A o : At(o)' = At(o)
  BY DEF At, witness
<1>3. /\ Promise!AfterHeaders' = Promise!AfterHeaders
      /\ Promise!LocktimeAt' = Promise!LocktimeAt
  BY <1>1 DEF Promise!AfterHeaders, Promise!LocktimeAt
<1>4. Promise!AfterNodes' = Promise!AfterNodes
  BY <1>1, <1>3 DEF Promise!AfterNodes
<1>5. Promise!VinAt' = Promise!VinAt
  BY <1>4 DEF Promise!VinAt
<1>6. Promise!HasFields' = Promise!HasFields
  BY <1>1, <1>3, <1>5 DEF Promise!HasFields
<1>7. \A from, len : Promise!Part(from, len)' = Promise!Part(from, len)
  BY <1>1 DEF Promise!Part
<1>8. \A v : Promise!Transaction(v)' = Promise!Transaction(v)
  BY <1>3, <1>4, <1>5, <1>7 DEF Promise!Transaction
<1>9. \A v : Formed(v)' = Formed(v)
  BY <1>3, <1>5, <1>6, <1>8 DEF Formed
<1>10. \A kind, v : /\ PartAt(kind, v)' = PartAt(kind, v)
                    /\ PartLen(kind, v)' = PartLen(kind, v)
  BY <1>3, <1>5 DEF PartAt, PartLen
<1>11. \A kind, v : PartOf(kind, v)' = PartOf(kind, v)
  BY <1>2, <1>10 DEF PartOf, Slice
<1> QED BY <1>2, <1>9, <1>10, <1>11

LEMMA FaithfulStep ==
  TypeInv /\ LayoutInv /\ Counted /\ Faithful /\ [Next]_vars => Faithful'
<1> SUFFICES ASSUME TypeInv, LayoutInv, Counted, Faithful, [Next]_vars,
                    NEW v \in Nat, Formed(v)', NEW k \in Kinds
             PROVE  /\ Taking(k)' => /\ i' <= PartOf(k, v)'[1]
                                     /\ Ends(k, PartOf(k, v)')[i'] \subseteq {end'}
                    /\ pc' \in Behind(k) => fields'[k].len = PartLen(k, v)'
  BY DEF Faithful, Behind, WithVin, WithVout, Deciding
<1> USE DEF WithVin, WithVout, Deciding
<1>0. UNCHANGED given
  BY DEF Next, Parse, Done, Decide, LoadArgs, LoadWitness, ExtractHeaders,
     ExtractNodes, ReadNumbers, TakeElement, Overrun, Taken, CheckElement,
     RefuseVector, AcceptVector, CheckEnd, Check, CheckInclusion, CheckChain,
     CheckListing, LoadLock, CheckPayee, CheckCapacity, vars
<1>1. /\ Formed(v) /\ PartOf(k, v)' = PartOf(k, v)
      /\ PartLen(k, v)' = PartLen(k, v)
  BY <1>0, WitnessStays
<1>2. /\ Taking(k) => /\ i <= PartOf(k, v)[1]
                      /\ Ends(k, PartOf(k, v))[i] \subseteq {end}
      /\ pc \in Behind(k) => fields[k].len = PartLen(k, v)
  BY <1>1 DEF Faithful
<1>3. /\ 0 <= PartOf(k, v)[1] /\ Ends(k, PartOf(k, v))[0] \subseteq {1}
  BY <1>1, FormedVectors, EndsDefined DEF TypeInv
<1>4. CASE LoadArgs \/ LoadWitness \/ ExtractHeaders \/ ExtractNodes
  <2>1. pc' \in {"load_witness", "headers", "nodes", "numbers", "done"}
    BY <1>4 DEF LoadArgs, LoadWitness, ExtractHeaders, ExtractNodes, Check,
       Continue, Return
  <2> QED BY <2>1 DEF Taking, Behind
<1>5. CASE ReadNumbers
  <2>1. pc' = "take_vin" /\ i' = 0 /\ end' = 1
    BY <1>5 DEF ReadNumbers, Continue, LayoutInv, Summed
  <2> QED BY <1>1, <1>3, <2>1 DEF Taking, Behind
<1>6. ASSUME NEW kind \in Kinds, TakeElement(kind)
      PROVE  /\ Taking(k)' => /\ i' <= PartOf(k, v)'[1]
                              /\ Ends(k, PartOf(k, v)')[i'] \subseteq {end'}
             /\ pc' \in Behind(k) => fields'[k].len = PartLen(k, v)'
  <2>1. /\ Taking(kind) /\ i < At(offset) /\ i' = i + 1
        /\ end' = IF Whole(kind) THEN Beyond(kind, Rest) ELSE end
        /\ UNCHANGED <<pc, fields>>
    BY <1>6 DEF TakeElement
  <2>2. CASE k = kind
    BY <1>1, <1>2, <2>1, <2>2, TakenElement DEF Taking
  <2>3. CASE k # kind
    <3>1. ~Taking(k)'
      BY <2>1, <2>3 DEF Taking, Kinds
    <3> QED BY <1>1, <1>2, <2>1, <3>1
  <2> QED BY <2>2, <2>3
<1>7. ASSUME NEW kind \in Kinds, Taken(kind)
      PROVE  /\ Taking(k)' => /\ i' <= PartOf(k, v)'[1]
                              /\ Ends(k, PartOf(k, v)')[i'] \subseteq {end'}
             /\ pc' \in Behind(k) => fields'[k].len = PartLen(k, v)'
  <2>1. /\ Taking(kind) /\ i = At(offset) /\ fields'[kind] = View(offset, end)
        /\ pc' = IF kind = "vin" THEN "check_vin" ELSE "check_vout"
        /\ k # kind => fields'[k] = fields[k]
    BY <1>7 DEF Taken, Continue, TypeInv, TypeOK, FieldNames, Kinds
  <2>2. ~Taking(k)'
    BY <2>1 DEF Taking
  <2>3. CASE k = kind
    <3>1. At(offset) = PartOf(k, v)[1]
      BY <1>1, <2>1, <2>3, TakenFrom
    <3>2. Ends(k, PartOf(k, v))[PartOf(k, v)[1]] \subseteq {end}
      BY <1>2, <2>1, <2>3, <3>1
    <3>3. Len(PartOf(k, v)) \in Ends(k, PartOf(k, v))[PartOf(k, v)[1]]
      BY <1>1, FormedVectors DEF TypeInv, IsVector
    <3>4. Len(PartOf(k, v)) = PartLen(k, v)
      BY <1>1, PartsInside DEF TypeInv, Formed
    <3>5. end = PartLen(k, v)
      BY <3>2, <3>3, <3>4
    <3> QED BY <1>1, <2>1, <2>2, <2>3, <3>5 DEF View
  <2>4. CASE k # kind
    <3>1. pc' \in Behind(k) => pc \in Behind(k)
      BY <2>1, <2>4 DEF Behind, Taking, Kinds
    <3> QED BY <1>1, <1>2, <2>1, <2>2, <2>4, <3>1
  <2> QED BY <2>3, <2>4
<1>8. ASSUME NEW kind \in Kinds, AcceptVector(kind)
      PROVE  /\ Taking(k)' => /\ i' <= PartOf(k, v)'[1]
                              /\ Ends(k, PartOf(k, v)')[i'] \subseteq {end'}
             /\ pc' \in Behind(k) => fields'[k].len = PartLen(k, v)'
  <2>1. /\ Checking(kind) /\ i' = 0 /\ end' = 1 /\ UNCHANGED fields
        /\ pc' = IF kind = "vin" THEN "take_vout" ELSE "end"
    BY <1>8 DEF AcceptVector, Continue
  <2>2. pc' \in Behind(k) => pc \in Behind(k)
    BY <2>1 DEF Behind, Checking, Kinds
  <2> QED BY <1>1, <1>2, <1>3, <2>1, <2>2
<1>9. ASSUME NEW kind \in Kinds, CheckElement(kind)
      PROVE  /\ Taking(k)' => /\ i' <= PartOf(k, v)'[1]
                              /\ Ends(k, PartOf(k, v)')[i'] \subseteq {end'}
             /\ pc' \in Behind(k) => fields'[k].len = PartLen(k, v)'
  <2>1. Checking(kind) /\ UNCHANGED <<pc, fields>>
    BY <1>9 DEF CheckElement
  <2>2. ~Taking(k)'
    BY <2>1 DEF Checking, Taking, Kinds
  <2> QED BY <1>1, <1>2, <2>1, <2>2
<1>10. ASSUME NEW kind \in Kinds, Overrun(kind) \/ RefuseVector(kind)
       PROVE  pc' = "done"
  BY <1>10 DEF Overrun, RefuseVector, Return
<1>11. CASE pc' = "done"
  BY <1>11 DEF Taking, Behind
<1>12. CASE CheckEnd
  <2>1. /\ pc = "end" /\ pc' \in {"inclusion", "done"} /\ fields'[k] = fields[k]
    BY <1>12 DEF CheckEnd, Continue, Return, TypeInv, TypeOK, FieldNames, Kinds
  <2> QED BY <1>1, <1>2, <2>1 DEF Taking, Behind
<1>13. CASE Decide
  <2>1. UNCHANGED fields /\ pc \in Deciding /\ pc' \in Deciding \cup {"done"}
    BY <1>13 DEF Decide, CheckInclusion, CheckChain, CheckListing, LoadLock,
       CheckPayee, CheckCapacity, Check, Continue, Return
  <2> QED BY <1>1, <1>2, <2>1 DEF Taking, Behind
<1>14. CASE UNCHANGED vars
  BY <1>1, <1>2, <1>14 DEF vars, Taking
<1> QED
  BY <1>4, <1>5, <1>6, <1>7, <1>8, <1>9, <1>10, <1>11, <1>12, <1>13, <1>14
     DEF Next, Parse, Done

(***************************************************************************)
(* The decision.  What main decides upon are the fields of the one         *)
(* transaction that SwapSpec finds.                                        *)
(***************************************************************************)
LEMMA WordsThere ==
  ASSUME given \in Cases, NEW m \in Nat \ {0},
         Front + m + Back = Len(witness.bytes)
  PROVE  Words # <<>> /\ Len(Words) = m
<1> DEFINE n == Len(witness.bytes)
<1>1. n \in Nat /\ Front \in Nat /\ Back \in Nat
  BY SwapAssumption DEF witness
<1>2. Front + 1 \in Int /\ n - Back \in Int /\ Front + 1 <= n - Back
      /\ n - Back - (Front + 1) + 1 = m
  BY <1>1
<1> HIDE DEF n
<1>3. Len(Words) = m
  BY <1>2 DEF Words, n
<1> QED BY <1>3

vinLen == fields["vin"].len
Decided == Promise!Transaction(vinLen)

LEMMA DecidedPlaces ==
  ASSUME TypeInv, LayoutInv, Counted, pc \in Deciding
  PROVE  /\ Promise!HasFields
         /\ vinLen \in 0..Promise!LocktimeAt - Promise!VinAt
         /\ End("locktime") = Len(Words)
         /\ Promise!LocktimeAt = fields["locktime"].loc
<1> USE DEF WithHeaders, WithNodes, WithNumbers, WithVin, WithVout
<1> DEFINE h == fields["headers"].len  n == fields["nodes"].len
           v == fields["vin"].len  o == fields["vout"].len  w == End("locktime")
<1>1. given \in Cases
  BY DEF TypeInv
<1>2. h \in Nat /\ n \in Nat /\ v \in Nat /\ o \in Nat
  BY DEF LayoutInv, Laid
<1>3. /\ NumberSize \in Nat /\ Front \in Nat /\ Back \in Nat
  BY SwapAssumption
<1>4. /\ fields["headers"].loc = 1 /\ fields["nodes"].loc = End("headers") + 1
      /\ fields["tx_index"] = View(End("nodes"), NumberSize)
      /\ fields["version"] = View(End("tx_index"), NumberSize)
      /\ fields["vin"].loc = End("version") /\ fields["vout"].loc = End("vin")
      /\ fields["locktime"].loc = End("vout")
      /\ fields["locktime"].len = NumberSize
      /\ Front + w + Back = Len(witness.bytes)
  BY DEF LayoutInv, Laid, TilesWitness, Counted
<1>5. /\ End("headers") = 1 + h /\ End("nodes") = 2 + h + n
      /\ End("version") = 2 + h + n + 2 * NumberSize
      /\ End("vin") = 2 + h + n + 2 * NumberSize + v
      /\ End("vout") = 2 + h + n + 2 * NumberSize + v + o
      /\ w = 2 + h + n + 2 * NumberSize + v + o + NumberSize
  <2>1. /\ End("headers") = 1 + h /\ End("nodes") = End("headers") + 1 + n
        /\ End("tx_index") = End("nodes") + NumberSize
        /\ End("version") = End("tx_index") + NumberSize
        /\ End("vin") = End("version") + v /\ End("vout") = End("vin") + o
        /\ w = End("vout") + NumberSize
    BY <1>4 DEF End, View
  <2> HIDE DEF h, n, v, o, w
  <2> QED BY <1>2, <1>3, <2>1
<1> HIDE DEF h, n, v, o, w
<1>6. w \in Nat \ {0} /\ 1 + h < w /\ 1 + h \in Nat
  BY <1>2, <1>3, <1>5
<1>7. Words # <<>> /\ Len(Words) = w
  BY <1>1, <1>4, <1>6, WordsThere
<1>8. Words[1] = At(0)
  <2>1. Words[0 + 1] = At(0)
    BY <1>1, <1>6, <1>7, WordsRead
  <2> QED BY <2>1
<1>9. Promise!AfterHeaders = 1 + h
  BY <1>8 DEF Promise!AfterHeaders, Words, Counted, h
<1>10. Words[1 + h + 1] = At(1 + h)
  BY <1>1, <1>6, <1>7, WordsRead
<1>11. Promise!AfterNodes = 2 + h + n
  <2>1. Promise!AfterNodes = (1 + h) + 1 + NodeSize * At(1 + h)
    BY <1>9, <1>10 DEF Promise!AfterNodes, Words
  <2>2. n = NodeSize * At(1 + h)
    BY <1>5 DEF Counted, n
  <2> QED BY <1>2, <2>1, <2>2
<1>12. Promise!VinAt = 2 + h + n + 2 * NumberSize
  BY <1>11 DEF Promise!VinAt
<1>13. Promise!LocktimeAt = w - NumberSize
  BY <1>7 DEF Promise!LocktimeAt, Words
<1>14. Promise!LocktimeAt = 2 + h + n + 2 * NumberSize + v + o
  BY <1>2, <1>3, <1>5, <1>13
<1>15. Promise!HasFields
  <2>1. Promise!AfterHeaders < Len(Words) /\ Promise!VinAt <= Promise!LocktimeAt
    BY <1>2, <1>3, <1>6, <1>7, <1>9, <1>12, <1>14
  <2> QED BY <1>7, <2>1 DEF Promise!HasFields, Words
<1>16. v \in 0..Promise!LocktimeAt - Promise!VinAt
  BY <1>2, <1>3, <1>12, <1>14
<1> QED BY <1>4, <1>5, <1>7, <1>14, <1>15, <1>16 DEF vinLen, v, w

LEMMA DecidedFields ==
  ASSUME TypeInv, LayoutInv, Counted, pc \in Deciding
  PROVE  /\ Promise!Headers = Of("headers") /\ Promise!Nodes = Of("nodes")
         /\ Promise!Index = Of("tx_index")
         /\ Decided = [version |-> Of("version"), vin |-> Of("vin"),
                       vout |-> Of("vout"), locktime |-> Of("locktime")]
         /\ \A f \in FieldNames : /\ fields[f].loc \in Nat /\ fields[f].len \in Nat
                                  /\ End(f) <= Len(Words)
<1> USE DEF WithHeaders, WithNodes, WithNumbers, WithVin, WithVout
<1>1. given \in Cases
  BY DEF TypeInv
<1>2. /\ Promise!HasFields /\ vinLen \in 0..Promise!LocktimeAt - Promise!VinAt
      /\ End("locktime") = Len(Words)
      /\ Promise!LocktimeAt = fields["locktime"].loc
  BY DecidedPlaces
<1>3. /\ End("headers") = Promise!AfterHeaders
      /\ End("nodes") = Promise!AfterNodes
      /\ fields["vin"].loc = Promise!VinAt
      /\ fields["vout"].loc = Promise!VinAt + vinLen
  BY <1>2, Positions DEF vinLen
<1>4. /\ fields["headers"].loc = 1 /\ fields["nodes"].loc = End("headers") + 1
      /\ fields["tx_index"] = View(End("nodes"), NumberSize)
      /\ fields["version"] = View(End("tx_index"), NumberSize)
      /\ fields["vin"].loc = End("version") /\ fields["vout"].loc = End("vin")
      /\ fields["locktime"].loc = End("vout")
      /\ fields["locktime"].len = NumberSize
      /\ fields["headers"].len = HeaderSize * At(0)
      /\ fields["nodes"].len = NodeSize * At(End("headers"))
  BY DEF LayoutInv, Laid, TilesWitness, Counted
<1>5. /\ NumberSize \in Nat /\ Len(Words) \in Nat
  BY <1>1, SwapAssumption, WordsRead
<1>6. \A f \in FieldNames : fields[f].loc \in Nat /\ fields[f].len \in Nat
  <2>1. \A f \in FieldNames : fields[f].loc \in Nat
    BY DEF TypeInv, TypeOK
  <2>2. /\ fields["headers"].len \in Nat /\ fields["nodes"].len \in Nat
        /\ fields["vin"].len \in Nat /\ fields["vout"].len \in Nat
    BY DEF LayoutInv, Laid
  <2>3. /\ fields["tx_index"].len \in Nat /\ fields["version"].len \in Nat
        /\ fields["locktime"].len \in Nat
    BY <1>4, <1>5 DEF View
  <2> QED BY <2>1, <2>2, <2>3 DEF FieldNames
<1>7. \A f \in FieldNames : End(f) <= Len(Words)
  <2>1. \A f \in FieldNames : End(f) \in Nat
    BY <1>6 DEF End
  <2>2. \A f \in FieldNames : fields[f].loc <= End(f)
    BY <1>6 DEF End
  <2>3. fields["tx_index"].loc = End("nodes")
        /\ fields["version"].loc = End("tx_index")
    BY <1>4 DEF View
  <2>4. /\ End("headers") <= End("nodes") /\ End("nodes") <= End("tx_index")
        /\ End("tx_index") <= End("version") /\ End("version") <= End("vin")
        /\ End("vin") <= End("vout") /\ End("vout") <= End("locktime")
    <3>1. End("headers") + 1 <= End("nodes")
      BY <1>4, <2>2 DEF FieldNames
    <3> QED BY <1>4, <2>1, <2>2, <2>3, <3>1 DEF FieldNames
  <2> QED BY <1>2, <2>1, <2>4 DEF FieldNames
<1>8. \A f \in FieldNames :
        Promise!Part(fields[f].loc, fields[f].len) = Of(f)
  BY <1>1, <1>6, <1>7, Parts, PartRead DEF Of, End
<1>9. Words[1] = At(0) /\ Words[Promise!AfterHeaders + 1] = At(Promise!AfterHeaders)
  <2>1. Words[0 + 1] = At(0)
    BY <1>1, <1>2, Places, WordsRead
  <2>2. Words[Promise!AfterHeaders + 1] = At(Promise!AfterHeaders)
    BY <1>1, <1>2, Places, WordsRead
  <2> QED BY <2>1, <2>2
<1>10. Promise!Headers = Of("headers")
  <2>1. Promise!Headers = Promise!Part(1, HeaderSize * At(0))
    BY <1>9 DEF Promise!Headers, Words
  <2> QED BY <1>4, <1>8, <2>1 DEF FieldNames
<1>11. Promise!Nodes = Of("nodes")
  <2>1. Promise!Nodes = Promise!Part(Promise!AfterHeaders + 1,
                                     NodeSize * At(Promise!AfterHeaders))
    BY <1>9 DEF Promise!Nodes, Words
  <2> QED BY <1>3, <1>4, <1>8, <2>1 DEF FieldNames
<1>12. Promise!Index = Of("tx_index")
  <2>1. Promise!Index = Promise!Part(Promise!AfterNodes, NumberSize)
    BY DEF Promise!Index
  <2>2. fields["tx_index"].loc = Promise!AfterNodes
        /\ fields["tx_index"].len = NumberSize
    BY <1>3, <1>4 DEF View
  <2> QED BY <1>8, <2>1, <2>2 DEF FieldNames
<1>13. /\ fields["version"].loc = Promise!AfterNodes + NumberSize
       /\ fields["version"].len = NumberSize
  BY <1>3, <1>4 DEF View, End
<1>14. fields["vout"].len = Promise!LocktimeAt - Promise!VinAt - vinLen
  <2>1. Promise!LocktimeAt = fields["vout"].loc + fields["vout"].len
    BY <1>2, <1>4 DEF End
  <2>2. /\ Promise!VinAt \in Nat /\ vinLen \in Nat /\ fields["vout"].len \in Nat
    BY <1>3, <1>6 DEF FieldNames, vinLen
  <2> QED BY <1>3, <2>1, <2>2
<1>15. /\ Of("version") = Promise!Part(Promise!AfterNodes + NumberSize, NumberSize)
       /\ Of("vin") = Promise!Part(Promise!VinAt, vinLen)
       /\ Of("vout") = Promise!Part(Promise!VinAt + vinLen,
                         Promise!LocktimeAt - Promise!VinAt - vinLen)
       /\ Of("locktime") = Promise!Part(Promise!LocktimeAt, NumberSize)
  <2>1. \A f \in {"version", "vin", "vout", "locktime"} :
          Of(f) = Promise!Part(fields[f].loc, fields[f].len)
    BY <1>8 DEF FieldNames
  <2> QED BY <1>2, <1>3, <1>4, <1>13, <1>14, <2>1 DEF vinLen
<1> QED BY <1>6, <1>7, <1>10, <1>11, <1>12, <1>15 DEF Decided, Promise!Transaction

(* It is a transaction of the witness, and the only one. *)
LEMMA DecidedOnly ==
  ASSUME TypeInv, LayoutInv, Counted, Accepted, Faithful, pc \in Deciding
  PROVE  Promise!Transactions = {Decided}
<1>1. Promise!HasFields /\ vinLen \in 0..Promise!LocktimeAt - Promise!VinAt
  BY DecidedPlaces
<1>2. IsVin(Decided.vin) /\ IsVout(Decided.vout)
  BY DecidedFields DEF Accepted, WithVout
<1>3. Decided \in Promise!Transactions
  BY <1>1, <1>2 DEF Promise!Transactions, Decided
<1>4. ASSUME NEW t \in Promise!Transactions PROVE t = Decided
  <2>1. PICK v \in 0..Promise!LocktimeAt - Promise!VinAt :
          t = Promise!Transaction(v) /\ IsVin(t.vin) /\ IsVout(t.vout)
    BY <1>1 DEF Promise!Transactions
  <2>2. v \in Nat
    OBVIOUS
  <2>3. Formed(v)
    BY <1>1, <2>1 DEF Formed
  <2>4. fields["vin"].len = v
    BY <2>2, <2>3 DEF Faithful, Behind, PartLen, Kinds, WithVin, WithVout
  <2> QED BY <2>1, <2>4 DEF Decided, vinLen
<1> QED BY <1>3, <1>4

(* What the checks that have passed have found. *)
ScriptLoaded ==
  /\ script.ret = "CKB_SUCCESS" /\ script.len <= ScriptSize /\ script.verified
  /\ Len(script.args) = 2 * AmountSize + OutpointSize
WitnessLoaded ==
  witness.ret = "CKB_SUCCESS" /\ Len(witness.bytes) <= MaxWitness
Included == Prove(TxId, Root, Of("nodes"), LE(Of("tx_index")))
Worked == accDiff \notin {InvalidChain, LowWork} /\ accDiff >= RequiredWork
Listed == view_eq(View(fields["vin"].loc + 1, OutpointSize), Listing)
LockLoaded == lock.ret = "CKB_SUCCESS" /\ lock.verified

Gathered ==
  /\ pc \notin {"load_args", "done"} => ScriptLoaded
  /\ pc \notin {"load_args", "load_witness", "done"} => WitnessLoaded
  /\ pc \in {"chain", "listing", "lock", "payee", "capacity"} => Included
  /\ pc \in {"listing", "lock", "payee", "capacity"} => Worked
  /\ pc \in {"lock", "payee", "capacity"} => Listed
  /\ pc \in {"payee", "capacity"} => LockLoaded
  /\ pc = "capacity" => ExpectedPayee = Owner

LEMMA GatheredStep == TypeInv /\ Gathered /\ [Next]_vars => Gathered'
<1> SUFFICES ASSUME TypeInv, Gathered, [Next]_vars PROVE Gathered'
  OBVIOUS
<1>1. CASE LoadArgs
  BY <1>1 DEF LoadArgs, Check, Continue, Return, Gathered, ScriptLoaded, script
<1>2. CASE LoadWitness
  BY <1>2 DEF LoadWitness, Check, Continue, Return, Gathered, ScriptLoaded,
     WitnessLoaded, script, witness
<1>3. CASE Parse
  <2>1. /\ UNCHANGED given /\ pc \notin {"load_args", "load_witness", "done"}
        /\ pc' \notin {"load_args", "load_witness", "chain", "listing", "lock",
                       "payee", "capacity"}
    BY <1>3 DEF Parse, ExtractHeaders, ExtractNodes, ReadNumbers, TakeElement,
       Overrun, Taken, CheckElement, RefuseVector, AcceptVector, CheckEnd,
       Taking, Checking, Continue, Return, Kinds
  <2> QED BY <2>1 DEF Gathered, ScriptLoaded, WitnessLoaded, script, witness
<1>4. ASSUME UNCHANGED <<given, fields>>
      PROVE  /\ ScriptLoaded' = ScriptLoaded /\ WitnessLoaded' = WitnessLoaded
             /\ Included' = Included /\ Worked' = Worked /\ Listed' = Listed
             /\ LockLoaded' = LockLoaded
             /\ (ExpectedPayee = Owner)' = (ExpectedPayee = Owner)
  <2>1. \A o : At(o)' = At(o)
    BY <1>4 DEF At, witness
  <2>2. \A f : Of(f)' = Of(f)
    BY <1>4, <2>1 DEF Of, Slice
  <2>3. \A l, n : Slice(l, n)' = Slice(l, n)
    BY <2>1 DEF Slice
  <2>4. /\ ScriptLoaded' = ScriptLoaded /\ WitnessLoaded' = WitnessLoaded
        /\ LockLoaded' = LockLoaded
    BY <1>4 DEF ScriptLoaded, WitnessLoaded, LockLoaded, script, witness, lock
  <2>5. Included' = Included
    BY <1>4, <2>2, <2>3 DEF Included, TxId, Root
  <2>6. Worked' = Worked
    BY <1>4, <2>2 DEF Worked, accDiff, RequiredWork, script, InvalidChain, LowWork,
       BadLength
  <2>7. Listed' = Listed
    BY <1>4, <2>3 DEF Listed, view_eq, Listing, script
  <2>8. SecondOutput' = SecondOutput
    BY <1>4, <2>2 DEF SecondOutput, Count
  <2>9. OpReturnData(SecondOutput)' = OpReturnData(SecondOutput)
    BY <2>1, <2>8 DEF OpReturnData
  <2>10. ExpectedPayee' = ExpectedPayee /\ Owner' = Owner
    BY <1>4, <2>3, <2>9 DEF ExpectedPayee, Owner, lock
  <2> QED BY <2>4, <2>5, <2>6, <2>7, <2>10
<1>5. CASE Decide
  <2>1. UNCHANGED <<given, fields>> /\ pc \in Deciding
    BY <1>5 DEF Decide, CheckInclusion, CheckChain, CheckListing, LoadLock,
       CheckPayee, CheckCapacity, Check, Deciding
  <2>2. \/ pc' = "done"
        \/ pc = "inclusion" /\ pc' = "chain" /\ Included
        \/ pc = "chain" /\ pc' = "listing" /\ Worked
        \/ pc = "listing" /\ pc' = "lock" /\ Listed
        \/ pc = "lock" /\ pc' = "payee" /\ LockLoaded
        \/ pc = "payee" /\ pc' = "capacity" /\ ExpectedPayee = Owner
    BY <1>5 DEF Decide, CheckInclusion, CheckChain, CheckListing, LoadLock,
       CheckPayee, CheckCapacity, Check, Continue, Return, Included, Worked,
       Listed, LockLoaded
  <2> QED BY <1>4, <2>1, <2>2 DEF Gathered, Deciding
<1>6. CASE UNCHANGED vars
  BY <1>4, <1>6 DEF Gathered, vars
<1> QED BY <1>1, <1>2, <1>3, <1>5, <1>6 DEF Next, Done

LEMMA NumbersRead ==
  ASSUME given \in Cases, ScriptLoaded
  PROVE  RequiredWork \in Nat /\ Amount \in Nat /\ LE(capacity.bytes) \in Nat
<1>1. script.args \in Seq(Bytes) /\ capacity.bytes \in Seq(Bytes)
  BY SwapAssumption DEF script, capacity
<1> DEFINE a == script.args
           work == SubSeq(a, AmountSize + 1, 2 * AmountSize)
           amount == SubSeq(a, 1, AmountSize)
<1>2. AmountSize \in Nat /\ OutpointSize \in Nat
  BY SwapAssumption, ElementAssumption DEF OutpointSize, Kinds
<1>3. a \in Seq(Bytes) /\ Len(a) = 2 * AmountSize + OutpointSize
  BY <1>1 DEF ScriptLoaded
<1> HIDE DEF a
<1>4. \A k \in 1..2 * AmountSize : a[k] \in Bytes
  BY <1>2, <1>3
<1>5. work \in Seq(Bytes) /\ amount \in Seq(Bytes)
  <2>1. work \in Seq(Bytes)
    BY <1>2, <1>3, <1>4
  <2>2. amount \in Seq(Bytes)
    BY <1>2, <1>3, <1>4
  <2> QED BY <2>1, <2>2
<1> HIDE DEF work, amount
<1>6. BE(work) \in Nat /\ LE(amount) \in Nat /\ LE(capacity.bytes) \in Nat
  BY <1>1, <1>5, LEType, BEType
<1> QED BY <1>6 DEF RequiredWork, Amount, work, amount, a

(***************************************************************************)
(* What main decides is what SwapSpec asks.                                *)
(***************************************************************************)
LEMMA HeadersRead ==
  ASSUME TypeInv, LayoutInv, Counted, pc \in Deciding
  PROVE  LET b == witness.bytes
             last == Front + 1 + HeaderSize * b[Front + 1]
         IN  /\ Front < Len(b) /\ last <= Len(b)
             /\ SubSeq(b, Front + 2, last) = Of("headers")
<1> DEFINE b == witness.bytes  n == Len(b)  w == Len(Words)
           h == HeaderSize * b[Front + 1]
<1>1. given \in Cases /\ b \in Seq(Bytes) /\ n \in Nat
  BY SwapAssumption DEF TypeInv, witness
<1>2. Promise!HasFields
  BY DecidedPlaces
<1>3. /\ fields["headers"].len \in Nat /\ End("headers") <= w
  BY DecidedFields DEF FieldNames
<1>4. fields["headers"].loc = 1 /\ fields["headers"].len = HeaderSize * At(0)
  BY DEF LayoutInv, Laid, Counted, WithHeaders, WithNodes, WithNumbers, WithVin,
     WithVout
<1>5. /\ n = Front + w + Back /\ w \in Nat /\ 0 < w
      /\ Front \in Nat /\ Back \in Nat
  BY <1>1, <1>2, Places, WordsRead, SwapAssumption DEF b, n
<1>6. At(0) = b[Front + 1]
  <2>1. Front + 0 < Len(witness.bytes) /\ Front + 0 + 1 = Front + 1
    BY <1>5
  <2> QED BY <2>1 DEF At
<1>7. h = fields["headers"].len
  BY <1>4, <1>6
<1>8. h \in Nat /\ 1 + h <= w
  <2>1. End("headers") = 1 + fields["headers"].len
    BY <1>4 DEF End
  <2> QED BY <1>3, <1>7, <2>1
<1>9. ASSUME NEW k \in 1..h PROVE At(1 + k - 1) = b[Front + 1 + k]
  <2>1. k \in Nat /\ k < w
    BY <1>5, <1>8
  <2>2. 1 + k - 1 = k /\ Front + 1 + k = Front + k + 1 /\ Front + k < n
    BY <1>5, <2>1
  <2> HIDE DEF h
  <2> QED BY <2>2 DEF At, b, n
<1> HIDE DEF b, n, w, h
<1>10. SubSeq(b, Front + 2, Front + 1 + h) = [k \in 1..h |-> b[Front + 1 + k]]
  <2>1. Front + 1 \in Nat /\ Front + 1 + h <= n /\ Front + 1 + 1 = Front + 2
    BY <1>1, <1>5, <1>8
  <2> QED BY <1>1, <1>8, <2>1, PartOfSeq DEF n
<1>11. Of("headers") = [k \in 1..h |-> At(1 + k - 1)]
  BY <1>4, <1>7 DEF Of, Slice
<1>12. SubSeq(b, Front + 2, Front + 1 + h) = Of("headers")
  BY <1>9, <1>10, <1>11
<1>13. Front < n /\ Front + 1 + h <= n
  BY <1>5, <1>8
<1> QED BY <1>12, <1>13 DEF b, n, h

(* The work that main compares is that of the headers. *)
LEMMA WorkRead ==
  ASSUME TypeInv, LayoutInv, Counted, pc \in Deciding, ScriptLoaded,
         WorkAgrees(witness.bytes)
  PROVE  /\ Worked <=> WorkOf(Promise!Headers) >= RequiredWork
         /\ Promise!Headers = <<>> => WorkOf(Promise!Headers) = 0
<1> DEFINE hs == Of("headers")
<1>1. Promise!Headers = hs
  BY DecidedFields
<1>2. /\ IF WorkOf(hs) = -1 THEN Work(hs) \in {InvalidChain, LowWork}
         ELSE WorkOf(hs) \in 0..LowWork - 1 /\ Work(hs) = WorkOf(hs)
      /\ hs = <<>> => WorkOf(hs) = 0
  BY HeadersRead DEF WorkAgrees
<1>3. RequiredWork \in Nat /\ Word \in Nat
  BY NumbersRead, SwapAssumption DEF TypeInv
<1>4. accDiff = Work(hs)
  <2>1. fields["headers"].len = HeaderSize * At(0)
    BY DEF Counted, WithHeaders, WithNodes, WithNumbers, WithVin, WithVout
  <2>2. At(0) \in Nat
    BY AtByte, CompactAssumption DEF TypeInv, Bytes
  <2>3. HeaderSize \in Nat \ {0}
    BY SwapAssumption
  <2>4. fields["headers"].len % HeaderSize = 0
    BY <2>1, <2>2, <2>3, NoRest
  <2> QED BY <2>4 DEF accDiff
<1>5. Worked <=> WorkOf(hs) >= RequiredWork
  <2> HIDE DEF hs
  <2>1. CASE WorkOf(hs) = -1
    BY <1>2, <1>3, <1>4, <2>1 DEF Worked
  <2>2. CASE WorkOf(hs) # -1
    <3>1. accDiff = WorkOf(hs) /\ WorkOf(hs) \in Int /\ WorkOf(hs) < Word - 3
      BY <1>2, <1>3, <1>4, <2>2 DEF LowWork
    <3> QED BY <1>3, <3>1 DEF Worked, InvalidChain, LowWork
  <2> QED BY <2>1, <2>2
<1> QED BY <1>1, <1>2, <1>5

(* The root that main reads is that of the first header, if there is one.  *)
LEMMA IncludedRead ==
  ASSUME TypeInv, LayoutInv, Counted, pc \in Deciding, Promise!Headers # <<>>
  PROVE  Included <=> Includes(Promise!Part(1, HeaderSize), Decided,
                               Promise!Nodes, Promise!Index)
<1> DEFINE first == Slice(1, HeaderSize)  w == Len(Words)
<1>1. given \in Cases
  BY DEF TypeInv
<1>2. /\ HeaderSize \in Nat \ {0} /\ RootAt \in Nat /\ NodeSize \in Nat
      /\ RootAt + NodeSize <= HeaderSize
  BY SwapAssumption
<1>3. /\ Promise!Headers = Of("headers") /\ fields["headers"].len \in Nat
      /\ fields["headers"].loc = 1
      /\ fields["headers"].len = HeaderSize * At(0)
      /\ End("headers") <= w
  BY DecidedFields
     DEF FieldNames, LayoutInv, Laid, Counted, WithHeaders, WithNodes,
         WithNumbers, WithVin, WithVout
<1>4. At(0) \in Nat /\ w \in Nat
  BY <1>1, AtByte, WordsRead, CompactAssumption DEF Bytes
<1>5. fields["headers"].len # 0
  <2>1. Of("headers") = [k \in 1..fields["headers"].len |-> At(1 + k - 1)]
    BY <1>3 DEF Of, Slice
  <2>2. ASSUME fields["headers"].len = 0 PROVE Of("headers") = <<>>
    BY <2>1, <2>2
  <2> QED BY <1>3, <2>2
<1>6. HeaderSize <= HeaderSize * At(0)
  <2>1. At(0) >= 1
    BY <1>2, <1>3, <1>4, <1>5
  <2> QED BY ONLY <1>2, <1>4, <2>1
<1>7. 1 + HeaderSize <= w
  <2>1. End("headers") = 1 + fields["headers"].len
    BY <1>3 DEF End
  <2> HIDE DEF w
  <2> QED BY <1>2, <1>3, <1>4, <1>6, <2>1
<1>8. Promise!Part(1, HeaderSize) = first
  BY <1>1, <1>2, <1>7, Parts, PartRead
<1>9. first \in Seq(Bytes) /\ Len(first) = HeaderSize
  BY <1>1, <1>2, SliceBytes
<1>10. ASSUME NEW k \in 1..NodeSize
       PROVE  first[RootAt + k] = At(1 + RootAt + k - 1)
  <2>1. RootAt + k \in 1..HeaderSize /\ 1 + (RootAt + k) - 1 = 1 + RootAt + k - 1
    BY <1>2
  <2>2. \A q \in 1..HeaderSize : first[q] = At(1 + q - 1)
    BY DEF Slice
  <2> HIDE DEF first
  <2> QED BY <2>1, <2>2
<1> HIDE DEF first
<1>11. SubSeq(first, RootAt + 1, RootAt + NodeSize)
         = [k \in 1..NodeSize |-> first[RootAt + k]]
  BY <1>2, <1>9, PartOfSeq
<1>12. Root = [k \in 1..NodeSize |-> At(1 + RootAt + k - 1)]
  BY <1>3 DEF Root, Slice
<1>13. Root = SubSeq(first, RootAt + 1, RootAt + NodeSize)
  BY <1>10, <1>11, <1>12
<1>14. /\ Promise!Nodes = Of("nodes") /\ Promise!Index = Of("tx_index")
       /\ Decided = [version |-> Of("version"), vin |-> Of("vin"),
                     vout |-> Of("vout"), locktime |-> Of("locktime")]
  BY DecidedFields
<1> QED BY <1>8, <1>13, <1>14 DEF Included, Includes, TxId

(* A vector has a first element, which is not longer than the vector. *)
LEMMA FirstElement ==
  ASSUME NEW kind \in Kinds, NEW s \in Seq(Bytes), IsVector(kind, s)
  PROVE  1 + Before[kind] + 1 <= Len(s)
<1>1. s[1] \in Nat /\ s[1] \in 1..Wide - 1 /\ Len(s) \in Ends(kind, s)[s[1]]
  BY CompactAssumption DEF IsVector
<1>2. 1 \in 0..s[1] /\ s[1] \in 0..s[1] /\ 1 \in 1..s[1] /\ 1 - 1 = 0
  BY <1>1, CompactAssumption
<1>3. Ends(kind, s)[1] # {}
  BY <1>1, <1>2, EndsBefore
<1>4. PICK to \in 1 + 1..Len(s) : IsElement(kind, SubSeq(s, 1 + 1, to))
  <2>1. PICK to : to \in Ends(kind, s)[1]
    BY <1>3
  <2>2. PICK from \in Ends(kind, s)[0] :
          to \in from + 1..Len(s) /\ IsElement(kind, SubSeq(s, from + 1, to))
    BY <1>1, <1>2, <2>1, EndsStep
  <2>3. from = 1
    BY <1>1, <2>2, EndsDefined
  <2> QED BY <2>2, <2>3
<1>5. 1 + Before[kind] + 1 \in 1..to
  BY <1>4, ElementRead
<1> QED BY <1>4, <1>5, ElementAssumption

(* The outpoint that main compares is that of the first input. *)
LEMMA BoughtRead ==
  ASSUME TypeInv, LayoutInv, Counted, Accepted, pc \in Deciding, ScriptLoaded
  PROVE  Listed <=> SubSeq(Decided.vin, 2, 1 + OutpointSize) = Listing
<1> DEFINE s == Of("vin")  at == fields["vin"].loc
<1>1. given \in Cases /\ OutpointSize \in Nat /\ AmountSize \in Nat
  BY SwapAssumption, ElementAssumption DEF TypeInv, OutpointSize, Kinds
<1>2. Decided.vin = s /\ at \in Nat /\ fields["vin"].len \in Nat
  BY DecidedFields DEF FieldNames
<1>3. s \in Seq(Bytes) /\ Len(s) = fields["vin"].len
  BY <1>1, <1>2, SliceBytes DEF Of
<1>4. IsVector("vin", s)
  BY DEF Accepted, IsVin, WithVout
<1>5. 1 + OutpointSize <= Len(s)
  <2>1. 1 + OutpointSize + 1 <= Len(s)
    BY <1>3, <1>4, FirstElement DEF Kinds, OutpointSize
  <2> QED BY <1>1, <1>2, <1>3, <2>1
<1>6. Len(Listing) = OutpointSize
  <2> DEFINE a == script.args
  <2>1. a \in Seq(Bytes)
    BY <1>1, SwapAssumption DEF script
  <2>2. Len(a) = 2 * AmountSize + OutpointSize
    BY DEF ScriptLoaded
  <2> HIDE DEF a
  <2>3. SubSeq(a, 2 * AmountSize + 1, 2 * AmountSize + OutpointSize) = 
          SubSeq(a, 2 * AmountSize + 1, Len(a))
    BY <2>2
  <2>4. 2 * AmountSize \in Nat
    BY <1>1
  <2>5. Len(SubSeq(a, 2 * AmountSize + 1, Len(a))) = OutpointSize
    BY <1>1, <2>1, <2>2, <2>3, <2>4, PartOfSeq
  <2> QED BY <2>5 DEF Listing, a
<1>7. SubSeq(s, 1 + 1, 1 + OutpointSize) = [k \in 1..OutpointSize |-> s[1 + k]]
  BY <1>1, <1>3, <1>5, PartOfSeq
<1>8. ASSUME NEW k \in 1..OutpointSize PROVE s[1 + k] = At(at + 1 + k - 1)
  <2>1. 1 + k \in 1..fields["vin"].len /\ at + (1 + k) - 1 = at + 1 + k - 1
    BY <1>1, <1>2, <1>3, <1>5
  <2>2. \A q \in 1..fields["vin"].len : s[q] = At(at + q - 1)
    BY DEF Of, Slice
  <2> HIDE DEF s, at
  <2> QED BY <2>1, <2>2
<1>9. Slice(at + 1, OutpointSize) = [k \in 1..OutpointSize |-> At(at + 1 + k - 1)]
  BY DEF Slice
<1> HIDE DEF s, at
<1>10. Slice(at + 1, OutpointSize) = SubSeq(s, 2, 1 + OutpointSize)
  <2>1. 1 + 1 = 2
    OBVIOUS
  <2> QED BY <1>7, <1>8, <1>9, <2>1
<1> QED BY <1>2, <1>6, <1>10 DEF Listed, view_eq, View, at

(* The payee that main finds is the one that the outputs name, if they do. *)
LEMMA SecondRead ==
  ASSUME TypeInv, LayoutInv, Counted, pc \in Deciding,
         NEW c1 \in 2..Len(Of("vout")), NEW c2 \in 2..Len(Of("vout")),
         Of("vout")[1] >= 2,
         IsElement("vout", SubSeq(Of("vout"), 2, c1)),
         IsElement("vout", SubSeq(Of("vout"), c1 + 1, c2))
  PROVE  /\ SecondOutput = View(fields["vout"].loc + c1, c2 - c1)
         /\ c1 + ValueSize + 1 <= c2
<1> DEFINE s == Of("vout")  p == ValueSize
<1>1. /\ given \in Cases /\ fields["vout"].loc \in Nat
      /\ fields["vout"].len \in Nat
  BY DecidedFields DEF TypeInv, FieldNames
<1>2. s \in Seq(Bytes) /\ Len(s) \in Nat /\ "vout" \in Kinds
  BY <1>1, SliceBytes DEF Of, Kinds
<1>3. p \in Nat /\ Before["vout"] = p
  BY ElementAssumption DEF ValueSize, Kinds
<1> HIDE DEF s
<1>4. c1 \in 1 + 1..Len(s) /\ c1 \in Nat /\ 1 + 1 = 2
  BY <1>2 DEF s
<1>5. /\ 1 + p + 1 \in 1..c1 /\ s[1 + p + 1] < Wide
      /\ c1 = 1 + Size("vout", s[1 + p + 1])
  <2>1. IsElement("vout", SubSeq(s, 1 + 1, c1))
    BY <1>4 DEF s
  <2> QED BY <1>2, <1>3, <1>4, <2>1, ElementRead
<1>6. c2 \in c1 + 1..Len(s)
  <2>1. SubSeq(s, c1 + 1, c2) # <<>>
    <3> DEFINE x == SubSeq(s, c1 + 1, c2)
    <3>1. Len(x) > p
      BY <1>3 DEF IsElement, s
    <3> HIDE DEF x, p
    <3>2. x # <<>>
      BY <1>3, <3>1
    <3> QED BY <3>2 DEF x
  <2>2. c1 + 1 <= c2
    BY <1>2, <1>4, <2>1 DEF s
  <2> QED BY <1>2, <1>4, <2>2 DEF s
<1>7. /\ c1 + p + 1 \in 1..c2 /\ s[c1 + p + 1] < Wide
      /\ c2 = c1 + Size("vout", s[c1 + p + 1])
  <2>1. IsElement("vout", SubSeq(s, c1 + 1, c2))
    BY DEF s
  <2> QED BY <1>2, <1>3, <1>4, <1>6, <2>1, ElementRead
<1>8. ElementLength("c", "vout", s, 1) = Size("vout", s[1 + p + 1])
  <2>1. 1 + p + 1 \in 1..Len(s)
    BY <1>2, <1>3, <1>4, <1>5
  <2>2. ElementOutcome("c", "vout", s, 1) = "ok"
    BY <1>2, <1>3, <1>5, <2>1, OutcomeOk
  <2> QED BY <1>2, <1>3, <2>2, OutcomeRead
<1>9. ElementLength("c", "vout", s, c1) = Size("vout", s[c1 + p + 1])
  <2>1. c1 + p + 1 \in 1..Len(s)
    BY <1>2, <1>3, <1>4, <1>6, <1>7
  <2>2. ElementOutcome("c", "vout", s, c1) = "ok"
    BY <1>2, <1>3, <1>4, <1>7, <2>1, OutcomeOk
  <2> QED BY <1>2, <1>3, <1>4, <2>2, OutcomeRead
<1> DEFINE x == Size("vout", s[1 + p + 1])  y == Size("vout", s[c1 + p + 1])
<1>10. 1 + ElementLength("c", "vout", s, 1) = c1
  BY <1>5, <1>8
<1>11. ElementLength("c", "vout", s, c1) = c2 - c1
  <2>1. y = c2 - c1
    <3>1. y \in Int
      <4>1. s[c1 + p + 1] \in Nat
        <5>1. c1 + p + 1 \in 1..Len(s)
          BY <1>2, <1>3, <1>4, <1>6, <1>7
        <5> QED BY <1>2, <5>1, CompactAssumption DEF Bytes
      <4> QED BY <1>2, <4>1, ElementAssumption DEF Size
    <3> HIDE DEF y
    <3> QED BY <1>4, <1>7, <3>1 DEF y
  <2> QED BY <1>9, <2>1
<1>12. ~(Count("vout") < 2)
  <2>1. s[1] \in Nat /\ s[1] >= 2
    BY <1>2, <1>4, CompactAssumption DEF Bytes, s
  <2> QED BY <2>1 DEF Count, s
<1>13. SecondOutput = View(fields["vout"].loc + c1, c2 - c1)
  BY <1>10, <1>11, <1>12 DEF SecondOutput, s
<1> QED BY <1>3, <1>4, <1>7, <1>13

LEMMA PayeeRead ==
  ASSUME TypeInv, LayoutInv, Counted, pc \in Deciding,
         Payee(Of("vout")) # <<>>
  PROVE  /\ OpReturnData(SecondOutput) # Null
         /\ ExpectedPayee = Payee(Of("vout"))
<1> DEFINE s == Of("vout")  at == fields["vout"].loc  p == ValueSize
           e == CHOOSE x \in SecondScripts(s) : Names(x)
<1>1. \E x \in SecondScripts(s) : Names(x)
  BY DEF Payee
<1>2. e \in SecondScripts(s) /\ Names(e)
  BY <1>1
<1>3. Payee(s) = SubSeq(e, 3, 2 + PayeeSize)
  BY <1>1 DEF Payee
<1> HIDE DEF e, s
<1>4. PICK c1 \in 2..Len(s), c2 \in 2..Len(s) :
        /\ s[1] >= 2
        /\ IsElement("vout", SubSeq(s, 2, c1))
        /\ IsElement("vout", SubSeq(s, c1 + 1, c2))
        /\ e = SubSeq(s, c1 + p + 2, c2)
  BY <1>2 DEF SecondScripts
<1>5. /\ given \in Cases /\ at \in Nat /\ fields["vout"].len \in Nat
      /\ p \in Nat /\ PayeeSize \in Nat \ {0}
  BY DecidedFields, SwapAssumption, ElementAssumption
     DEF TypeInv, FieldNames, ValueSize, Kinds
<1>6. s \in Seq(Bytes) /\ Len(s) = fields["vout"].len
  BY <1>5, SliceBytes DEF Of, s
<1>7. SecondOutput = View(at + c1, c2 - c1) /\ c1 + p + 1 <= c2
  BY <1>4, SecondRead DEF s
<1>8. c1 \in Nat /\ c2 \in Nat /\ c2 <= Len(s)
  BY <1>4, <1>5, <1>6
<1> DEFINE m == c2 - c1 - p - 1  o == c1 + p + 1
<1>9. m \in Nat /\ o \in Nat /\ o + m = c2 /\ o + 1 = c1 + p + 2
  BY <1>5, <1>7, <1>8
<1> HIDE DEF m, o, at
<1>10. /\ e \in Seq(Bytes) /\ Len(e) = m
       /\ e = [k \in 1..m |-> s[o + k]]
  <2>1. e = SubSeq(s, o + 1, o + m) /\ o + m <= Len(s)
    BY <1>4, <1>8, <1>9
  <2> QED BY <1>6, <1>9, <2>1, PartOfSeq
<1>11. ASSUME NEW k \in 1..m PROVE e[k] = At(at + o + k - 1)
  <2>1. o + k \in 1..fields["vout"].len /\ at + (o + k) - 1 = at + o + k - 1
    <3> DEFINE n == fields["vout"].len
    <3>1. n \in Nat /\ at \in Nat /\ c2 <= n
      BY <1>5, <1>6, <1>8
    <3> HIDE DEF n
    <3>2. o + k <= c2
      BY <1>9
    <3>3. o + k \in 1..n
      BY ONLY <1>8, <1>9, <3>1, <3>2, k \in 1..m
    <3> QED BY <1>9, <3>1, <3>3, SMTT(30) DEF n
  <2>2. \A q \in 1..fields["vout"].len : s[q] = At(at + q - 1)
    BY DEF Of, Slice, s, at
  <2> QED BY <1>10, <2>1, <2>2
<1>12. /\ m > 1 /\ e[1] = OP_RETURN /\ e[2] >= PayeeSize /\ m >= 2 + e[2]
  BY <1>2, <1>10 DEF Names
<1>13. e[1] = At(at + o) /\ e[2] = At(at + o + 1) /\ e[2] \in Nat
  <2>1. 1 \in 1..m /\ 2 \in 1..m /\ at + o + 1 - 1 = at + o
        /\ at + o + 2 - 1 = at + o + 1
    BY <1>5, <1>9, <1>12
  <2>2. e[1] = At(at + o) /\ e[2] = At(at + o + 1)
    BY <1>11, <2>1
  <2>3. e[2] \in Bytes
    <3>1. e \in Seq(Bytes) /\ 2 \in 1..Len(e)
      BY <1>10, <2>1
    <3> QED BY <3>1
  <2> QED BY <2>2, <2>3, CompactAssumption DEF Bytes
<1>14. /\ SecondOutput.loc + p + 1 = at + o /\ SecondOutput.loc + p + 2 = at + o + 1
       /\ SecondOutput.loc + p + 3 = at + o + 2 /\ SecondOutput.len = m + p + 1
       /\ SecondOutput # Null
  BY <1>5, <1>7, <1>8, <1>9 DEF View, Null, o, m
<1>15. OpReturnData(SecondOutput) = View(at + o + 2, e[2])
  <2>1. ~(m + p + 1 < e[2] + p + 3)
    <3> DEFINE x == e[2]
    <3>1. x \in Nat /\ m >= 2 + x
      BY <1>12, <1>13
    <3>2. p \in Nat /\ m \in Nat
      BY <1>5, <1>9
    <3> HIDE DEF x, p
    <3>3. ~(m + p + 1 < x + p + 3)
      BY ONLY <3>1, <3>2
    <3> QED BY ONLY <3>3 DEF x
  <2> QED BY <1>12, <1>13, <1>14, <2>1 DEF OpReturnData
<1>16. OpReturnData(SecondOutput) # Null
  BY <1>13, <1>15 DEF View, Null
<1>17. ExpectedPayee = Slice(at + o + 2, PayeeSize)
  BY <1>15, <1>16 DEF ExpectedPayee, View
<1>18. SubSeq(e, 3, 2 + PayeeSize) = [k \in 1..PayeeSize |-> e[2 + k]]
  <2>1. 2 + PayeeSize <= Len(e) /\ 2 + 1 = 3
    BY <1>5, <1>9, <1>10, <1>12, <1>13
  <2> QED BY <1>5, <1>10, <2>1, PartOfSeq
<1>19. ASSUME NEW k \in 1..PayeeSize PROVE e[2 + k] = At(at + o + 2 + k - 1)
  <2>1. 2 + k \in 1..m /\ at + o + (2 + k) - 1 = at + o + 2 + k - 1
    BY <1>5, <1>9, <1>12, <1>13
  <2> QED BY <1>11, <2>1
<1>20. ExpectedPayee = SubSeq(e, 3, 2 + PayeeSize)
  BY <1>17, <1>18, <1>19 DEF Slice
<1> QED BY <1>3, <1>16, <1>20 DEF s

(***************************************************************************)
(* The promise.  Every return of main is an answer that SwapSpec allows;   *)
(* every other step is none of its business.                               *)
(***************************************************************************)
RInv ==
  /\ TypeInv /\ LayoutInv /\ Counted
  /\ Walked /\ Accepted /\ Faithful /\ Gathered

LEMMA RInit == Init => RInv /\ Verdict = "pending"
<1> SUFFICES ASSUME Init PROVE RInv /\ Verdict = "pending"
  OBVIOUS
<1>1. pc = "load_args" /\ returned = "none"
  BY DEF Init
<1>2. TypeInv /\ LayoutInv
  BY TypeInit, LayoutInit
<1>3. Counted /\ Walked /\ Accepted /\ Faithful /\ Gathered
  BY <1>1 DEF Counted, Walked, Accepted, Faithful, Gathered, Checking, Taking,
     Behind, WithHeaders, WithNodes, WithNumbers, WithVin, WithVout, Deciding
<1> QED BY <1>1, <1>2, <1>3 DEF RInv, Verdict

LEMMA RStep == RInv /\ [Next]_vars => RInv'
BY TypeStep, LayoutStep, CountedStep, AcceptedStep, FaithfulStep, GatheredStep
   DEF RInv

LEMMA GivenStays == [Next]_vars => UNCHANGED given
BY DEF Next, Parse, Done, Decide, LoadArgs, LoadWitness, ExtractHeaders,
   ExtractNodes, ReadNumbers, TakeElement, Overrun, Taken, CheckElement,
   RefuseVector, AcceptVector, CheckEnd, CheckInclusion, CheckChain,
   CheckListing, LoadLock, CheckPayee, CheckCapacity, Check, vars

(* What the transaction holds is there from the start. *)
LEMMA InputsStay ==
  ASSUME UNCHANGED given
  PROVE  /\ Words' = Words /\ Loads' = Loads
         /\ [work |-> RequiredWork, outpoint |-> Listing, amount |-> Amount]'
              = [work |-> RequiredWork, outpoint |-> Listing, amount |-> Amount]
         /\ [owner |-> Owner, capacity |-> LE(capacity.bytes)]'
              = [owner |-> Owner, capacity |-> LE(capacity.bytes)]
<1>1. UNCHANGED <<script, witness, lock, capacity>>
  BY DEF script, witness, lock, capacity
<1> QED BY <1>1 DEF Words, Loads, RequiredWork, Listing, Amount, Owner

LEMMA NoAnswer ==
  ASSUME UNCHANGED given, UNCHANGED returned
  PROVE  UNCHANGED Promise!specVars
<1>1. Verdict' = Verdict
  BY DEF Verdict
<1> QED BY <1>1, InputsStay DEF Promise!specVars, Words

LEMMA Answered ==
  ASSUME TypeInv, UNCHANGED given, pc # "done"
  PROVE  /\ returned' = "CKB_SUCCESS" /\ Promise!MayRelease => Promise!SpecNext
         /\ returned' = "Fault" /\ Promise!MayCrash => Promise!SpecNext
         /\ returned' \notin {"none", "Fault", "CKB_SUCCESS"}
              /\ ~Promise!MustRelease => Promise!SpecNext
<1>1. Verdict = "pending"
  BY DEF TypeInv, TypeOK, Verdict
<1>2. /\ returned' = "CKB_SUCCESS" => Verdict' = "released"
      /\ returned' = "Fault" => Verdict' = "crashed"
      /\ returned' \notin {"none", "Fault", "CKB_SUCCESS"} => Verdict' = "refused"
  BY DEF Verdict
<1>3. \A v : Verdict' = v => Promise!Answer(v)
  BY <1>1, InputsStay DEF Promise!Answer, Words
<1> QED BY <1>2, <1>3 DEF Promise!SpecNext, Promise!Release, Promise!Refuse,
           Promise!Crash

(* Without a way to read the witness there is nothing to release for. *)
LEMMA NotFormed ==
  ASSUME \A v \in Nat : ~Formed(v)
  PROVE  Promise!Transactions = {} /\ Promise!MayCrash /\ ~Promise!MustRelease
<1>1. ASSUME NEW t \in Promise!Transactions PROVE FALSE
  <2>1. Promise!HasFields
    BY DEF Promise!Transactions
  <2>2. PICK v \in 0..Promise!LocktimeAt - Promise!VinAt :
          t = Promise!Transaction(v) /\ IsVin(t.vin) /\ IsVout(t.vout)
    BY <2>1 DEF Promise!Transactions
  <2>3. v \in Nat /\ Formed(v)
    BY <2>1, <2>2 DEF Formed
  <2> QED BY <2>3
<1> QED BY <1>1 DEF Promise!MayCrash, Promise!MustRelease

LEMMA RefusedVector ==
  ASSUME RInv, NEW kind \in Kinds, RefuseVector(kind)
  PROVE  ~Promise!MustRelease
<1>1. ASSUME NEW v \in Nat, Formed(v) PROVE FALSE
  <2>1. pc \in Behind(kind) /\ pc \in WithVin /\ pc \in WithNumbers
        /\ (kind = "vout" => pc \in WithVout)
    BY DEF RefuseVector, Checking, Behind, Kinds, WithVin, WithVout, WithNumbers
  <2>2. fields[kind].len = PartLen(kind, v)
    BY <1>1, <2>1 DEF RInv, Faithful
  <2>3. Promise!HasFields
    BY <1>1 DEF Formed
  <2>4. fields[kind].loc = PartAt(kind, v)
    <3>1. fields["vin"].loc = Promise!VinAt
      BY <2>1, <2>3, Positions DEF RInv
    <3>2. CASE kind = "vout"
      <4>1. fields["vout"].loc = Promise!VinAt + fields["vin"].len
        BY <2>1, <2>3, <3>2, Positions DEF RInv
      <4>2. fields["vin"].len = PartLen("vin", v)
        BY <1>1, <2>1 DEF RInv, Faithful, Behind, Kinds
      <4> QED BY <3>2, <4>1, <4>2 DEF PartAt, PartLen
    <3> QED BY <3>1, <3>2 DEF PartAt, Kinds
  <2>5. Of(kind) = PartOf(kind, v)
    BY <2>2, <2>4 DEF Of, PartOf
  <2>6. IsVector(kind, Of(kind))
    BY <1>1, <2>5, FormedVectors DEF RInv, TypeInv
  <2> QED BY <2>6, RefusedIsNone DEF RInv
<1> QED BY <1>1, NotFormed

(* A witness that main finds too long or too short is one that no          *)
(* transaction and its locktime end.                                       *)
LEMMA RefusedEnd ==
  ASSUME RInv, CheckEnd, returned' # returned
  PROVE  ~Promise!MustRelease
<1>1. /\ pc = "end" /\ offset' = offset + NumberSize /\ offset' # wit_len
  BY DEF CheckEnd, Continue
<1>2. ASSUME NEW v \in Nat, Formed(v) PROVE FALSE
  <2>1. /\ Promise!HasFields /\ given \in Cases
        /\ v \in 0..Promise!LocktimeAt - Promise!VinAt
    BY <1>2 DEF Formed, RInv, TypeInv
  <2>2. pc \in WithVin /\ pc \in WithVout
    BY <1>1 DEF WithVin, WithVout
  <2>3. /\ fields["vin"].len = v
        /\ fields["vout"].len = Promise!LocktimeAt - Promise!VinAt - v
    BY <1>2, <2>2 DEF RInv, Faithful, Behind, PartLen, Kinds
  <2>4. fields["vout"].loc = Promise!VinAt + fields["vin"].len
    BY <2>1, <2>2, Positions DEF RInv
  <2>5. offset = fields["vout"].loc + fields["vout"].len
    BY <1>1 DEF RInv, LayoutInv, Passed, End
  <2>6. /\ Promise!LocktimeAt = Len(Words) - NumberSize /\ Len(Words) \in Nat
        /\ Promise!VinAt \in Nat /\ NumberSize \in Nat /\ Words # <<>>
    BY <2>1, Places, WordsRead, SwapAssumption
  <2>7. offset + NumberSize = Len(Words)
    <3> DEFINE w == Len(Words)
    <3> HIDE DEF w
    <3>1. offset = Promise!LocktimeAt
      <4>1. Promise!LocktimeAt \in Int
        BY <2>6
      <4> QED BY <2>3, <2>4, <2>5, <2>6, <4>1
    <3> QED BY <2>6, <3>1 DEF w
  <2>8. Len(witness.bytes) <= MaxWitness
    BY <1>1 DEF RInv, LayoutInv, Sized, WithHeaders, WithNodes, WithNumbers,
       WithVin, WithVout
  <2>9. wit_len = Len(Words)
    BY <2>1, <2>6, <2>8, WordsLength
  <2> QED BY <1>1, <2>7, <2>9
<1> QED BY <1>2, NotFormed

LEMMA DecidedLoads ==
  ASSUME RInv, pc \in Deciding
  PROVE  ScriptLoaded /\ WitnessLoaded
BY DEF RInv, Gathered, Deciding

(* What must be released passes every check, *)
LEMMA MustPass ==
  ASSUME RInv, WorkTold, pc \in Deciding, Promise!MustRelease
  PROVE  /\ Loads /\ Included /\ Worked /\ Listed
         /\ LE(capacity.bytes) >= Amount /\ Payee(Of("vout")) = Owner
<1>1. Promise!Transactions = {Decided}
  BY DecidedOnly DEF RInv
<1>2. /\ Loads /\ Promise!Proven(Decided) /\ Promise!Bought(Decided)
      /\ Payee(Decided.vout) = Owner
  BY <1>1 DEF Promise!MustRelease
<1>3. Promise!Headers # <<>> /\ WorkOf(Promise!Headers) >= RequiredWork
      /\ Includes(Promise!Part(1, HeaderSize), Decided, Promise!Nodes, Promise!Index)
  BY <1>2 DEF Promise!Proven
<1>4. WorkAgrees(witness.bytes)
  BY DEF WorkTold, RInv, TypeInv, witness
<1>5. Included /\ Worked
  BY <1>3, <1>4, IncludedRead, WorkRead, DecidedLoads DEF RInv
<1>6. SubSeq(Decided.vin, 2, 1 + OutpointSize) = Listing
      /\ LE(capacity.bytes) >= Amount
  BY <1>2 DEF Promise!Bought
<1>7. Listed
  BY <1>6, BoughtRead, DecidedLoads DEF RInv
<1>8. Decided.vout = Of("vout")
  BY DecidedFields DEF RInv
<1> QED BY <1>2, <1>5, <1>6, <1>7, <1>8

(* and what passes them all may be released. *)
LEMMA PassMay ==
  ASSUME RInv, WorkTold, pc = "capacity", capacity.ret = "CKB_SUCCESS",
         ~(LE(capacity.bytes) < Amount)
  PROVE  Promise!MayRelease
<1>1. pc \in Deciding
  BY DEF Deciding
<1>2. Promise!Transactions = {Decided}
  BY <1>1, DecidedOnly DEF RInv
<1>3. /\ ScriptLoaded /\ WitnessLoaded /\ Included /\ Worked /\ Listed
      /\ LockLoaded /\ ExpectedPayee = Owner
  BY DEF RInv, Gathered
<1>4. Loads
  BY <1>3 DEF Loads, ScriptLoaded, WitnessLoaded, LockLoaded
<1>5. WorkAgrees(witness.bytes)
  BY DEF WorkTold, RInv, TypeInv, witness
<1>6. RequiredWork \in Nat /\ Amount \in Nat /\ LE(capacity.bytes) \in Nat
  BY <1>3, NumbersRead DEF RInv, TypeInv
<1>7. /\ WorkOf(Promise!Headers) >= RequiredWork
      /\ Promise!Headers = <<>> => WorkOf(Promise!Headers) = 0
  BY <1>1, <1>3, <1>5, WorkRead DEF RInv
<1>8. Promise!Proven(Decided) \/ Promise!NothingAsked
  <2>1. CASE Promise!Headers = <<>>
    <3>1. RequiredWork = 0
      BY <1>6, <1>7, <2>1
    <3> QED BY <2>1, <3>1 DEF Promise!NothingAsked
  <2>2. CASE Promise!Headers # <<>>
    <3>1. Includes(Promise!Part(1, HeaderSize), Decided, Promise!Nodes, Promise!Index)
      BY <1>1, <1>3, <2>2, IncludedRead DEF RInv
    <3> QED BY <1>7, <2>2, <3>1 DEF Promise!Proven
  <2> QED BY <2>1, <2>2
<1>9. Promise!Bought(Decided)
  <2>1. SubSeq(Decided.vin, 2, 1 + OutpointSize) = Listing
    BY <1>1, <1>3, BoughtRead DEF RInv
  <2>2. LE(capacity.bytes) >= Amount
    BY <1>6
  <2> QED BY <2>1, <2>2 DEF Promise!Bought
<1>10. Payee(Decided.vout) \in {<<>>, Owner}
  <2>1. Decided.vout = Of("vout")
    BY <1>1, DecidedFields DEF RInv
  <2> QED BY <1>1, <1>3, <2>1, PayeeRead DEF RInv
<1> QED BY <1>2, <1>4, <1>8, <1>9, <1>10 DEF Promise!MayRelease

(* An owner is not nobody. *)
LEMMA OwnerThere ==
  ASSUME given \in Cases, LockLoaded
  PROVE  Owner # <<>>
<1> DEFINE h == lock.code_hash
<1>1. h \in Seq(Bytes) /\ PayeeSize \in Nat \ {0} /\ 0 + PayeeSize <= Len(h)
  BY SwapAssumption DEF lock, LockLoaded
<1> HIDE DEF h
<1>2. Len(SubSeq(h, 0 + 1, 0 + PayeeSize)) = PayeeSize
  BY <1>1, PartOfSeq
<1>3. Len(Owner) = PayeeSize
  <2>1. Owner = SubSeq(h, 0 + 1, 0 + PayeeSize)
    BY <1>1 DEF Owner, h
  <2> QED BY <1>2, <2>1
<1> QED BY <1>1, <1>3

LEMMA StepImplements ==
  WorkTold /\ RInv /\ [Next]_vars => [Promise!SpecNext]_(Promise!specVars)
<1> SUFFICES ASSUME WorkTold, RInv, [Next]_vars, ~UNCHANGED returned
             PROVE  Promise!SpecNext
  BY GivenStays, NoAnswer
<1>1. UNCHANGED given /\ TypeInv /\ given \in Cases
  BY GivenStays DEF RInv, TypeInv
<1>2. CASE LoadArgs
  <2>1. returned' = "ERROR_ENCODING" /\ ~Loads /\ pc # "done"
    BY <1>2 DEF LoadArgs, Check, Continue, Return, Loads
  <2> QED BY <1>1, <2>1, Answered DEF Promise!MustRelease
<1>3. CASE LoadWitness
  <2>1. returned' \in {"ERROR_WITNESS_SIZE", "ERROR_SYSCALL"} /\ ~Loads
        /\ pc # "done"
    BY <1>3 DEF LoadWitness, Check, Continue, Return, Loads
  <2> QED BY <1>1, <2>1, Answered DEF Promise!MustRelease
<1>4. ASSUME NEW kind \in Kinds, Overrun(kind) PROVE Promise!SpecNext
  <2>1. \A v \in Nat : ~Formed(v)
    BY <1>4, OverrunIsNone DEF RInv
  <2>2. returned' = "Fault" /\ pc # "done"
    BY <1>4 DEF Overrun, Return, Taking
  <2> QED BY <1>1, <2>1, <2>2, NotFormed, Answered
<1>5. ASSUME NEW kind \in Kinds, RefuseVector(kind) PROVE Promise!SpecNext
  <2>1. returned' \in {"ERROR_BAD_VIN", "ERROR_BAD_VOUT"} /\ pc # "done"
    BY <1>5 DEF RefuseVector, Return, Checking
  <2> QED BY <1>1, <1>5, <2>1, RefusedVector, Answered
<1>6. CASE CheckEnd
  <2>1. returned' = "ERROR_BAD_WITNESS" /\ pc # "done"
    BY <1>6 DEF CheckEnd, Continue, Return
  <2> QED BY <1>1, <1>6, <2>1, RefusedEnd, Answered
<1>7. CASE CheckInclusion
  <2>1. returned' = "ERROR_INVALID_MERKLE_PROOF" /\ ~Included
        /\ pc \in Deciding /\ pc # "done"
    BY <1>7 DEF CheckInclusion, Check, Continue, Return, Included, Deciding
  <2> QED BY <1>1, <2>1, MustPass, Answered
<1>8. CASE CheckChain
  <2>1. returned' \in {"ERROR_INVALID_HEADER_CHAIN", "ERROR_LOW_WORK_HEADER_CHAIN",
                       "ERROR_NOT_ENOUGH_WORK"}
        /\ ~Worked /\ pc \in Deciding /\ pc # "done"
    BY <1>8 DEF CheckChain, Check, Continue, Return, Worked, Deciding
  <2> QED BY <1>1, <2>1, MustPass, Answered
<1>9. CASE CheckListing
  <2>1. returned' = "ERROR_WRONG_LISTING" /\ ~Listed
        /\ pc \in Deciding /\ pc # "done"
    BY <1>9 DEF CheckListing, Check, Continue, Return, Listed, Deciding
  <2> QED BY <1>1, <2>1, MustPass, Answered
<1>10. CASE LoadLock
  <2>1. ~LockLoaded /\ pc \in Deciding /\ pc # "done"
        /\ returned' = (IF lock.ret = "CKB_SUCCESS" THEN "ERROR_ENCODING" ELSE lock.ret)
    BY <1>10 DEF LoadLock, Check, Continue, Return, LockLoaded, Deciding
  <2>2. returned' \notin {"none", "Fault", "CKB_SUCCESS"}
    BY <1>1, <2>1, SwapAssumption DEF lock
  <2>3. ~Promise!MustRelease
    BY <2>1 DEF Promise!MustRelease, Loads, LockLoaded
  <2> QED BY <1>1, <2>1, <2>2, <2>3, Answered
<1>11. CASE CheckPayee
  <2>1. /\ pc = "payee" /\ pc \in Deciding
        /\ \/ returned' = "ERROR_WRONG_PAYEE" /\ ExpectedPayee # Owner
           \/ returned' = "Fault" /\ OpReturnData(SecondOutput) = Null
    BY <1>11 DEF CheckPayee, Check, Continue, Return, Deciding
  <2>2. LockLoaded
    BY <2>1 DEF RInv, Gathered
  <2>3. CASE returned' = "ERROR_WRONG_PAYEE" /\ ExpectedPayee # Owner
    <3>1. ASSUME Promise!MustRelease PROVE FALSE
      <4>1. Payee(Of("vout")) = Owner /\ Owner # <<>>
        BY <1>1, <2>1, <2>2, <3>1, MustPass, OwnerThere
      <4>2. ExpectedPayee = Payee(Of("vout"))
        BY <2>1, <4>1, PayeeRead DEF RInv
      <4> QED BY <2>3, <4>1, <4>2
    <3> QED BY <1>1, <2>1, <2>3, <3>1, Answered
  <2>4. CASE returned' = "Fault" /\ OpReturnData(SecondOutput) = Null
    <3>1. Promise!Transactions = {Decided} /\ Decided.vout = Of("vout")
      BY <2>1, DecidedOnly, DecidedFields DEF RInv
    <3>2. Payee(Of("vout")) = <<>>
      BY <2>1, <2>4, PayeeRead DEF RInv
    <3>3. Promise!MayCrash
      BY <3>1, <3>2 DEF Promise!MayCrash
    <3> QED BY <1>1, <2>1, <2>4, <3>3, Answered
  <2> QED BY <2>1, <2>3, <2>4
<1>12. CASE CheckCapacity
  <2>1. pc = "capacity" /\ pc \in Deciding /\ pc # "done"
    BY <1>12 DEF CheckCapacity, Deciding
  <2>2. CASE capacity.ret # "CKB_SUCCESS"
    <3>1. returned' = capacity.ret
      BY <1>12, <2>2 DEF CheckCapacity, Return
    <3>2. returned' \notin {"none", "Fault", "CKB_SUCCESS"}
      BY <1>1, <2>2, <3>1, SwapAssumption DEF capacity
    <3>3. ~Promise!MustRelease
      BY <2>2 DEF Promise!MustRelease, Loads
    <3> QED BY <1>1, <2>1, <3>2, <3>3, Answered
  <2>3. CASE capacity.ret = "CKB_SUCCESS" /\ LE(capacity.bytes) < Amount
    <3>1. returned' = "ERROR_NOT_ENOUGH_OUTPUT_CAPACITY"
      BY <1>12, <2>3 DEF CheckCapacity, Return
    <3>2. Amount \in Nat /\ LE(capacity.bytes) \in Nat
      BY <1>1, <2>1, DecidedLoads, NumbersRead
    <3>3. ~Promise!MustRelease
      BY <2>1, <2>3, <3>2, MustPass
    <3> QED BY <1>1, <2>1, <3>1, <3>3, Answered
  <2>4. CASE capacity.ret = "CKB_SUCCESS" /\ ~(LE(capacity.bytes) < Amount)
    <3>1. returned' = "CKB_SUCCESS"
      BY <1>12, <2>4 DEF CheckCapacity, Return
    <3>2. Promise!MayRelease
      BY <2>1, <2>4, PassMay
    <3> QED BY <1>1, <2>1, <3>1, <3>2, Answered
  <2> QED BY <2>2, <2>3, <2>4
<1> QED
  BY <1>2, <1>3, <1>4, <1>5, <1>6, <1>7, <1>8, <1>9, <1>10, <1>11, <1>12
     DEF Next, Parse, Decide, Done, vars, ExtractHeaders, ExtractNodes,
         ReadNumbers, TakeElement, Taken, CheckElement, AcceptVector, Continue

(* The script keeps its promise, whatever the witness, the script, the     *)
(* output and the stack behind the witness are: what it releases may be    *)
(* released, what it refuses need not be, and it crashes only where no     *)
(* transaction is to be read or none names a payee.                        *)
THEOREM KeepsPromise == WorkTold /\ Spec => Promise!Safety
<1> SUFFICES ASSUME WorkTold PROVE Spec => Promise!Safety
  OBVIOUS
<1> QED BY RInit, RStep, StepImplements, PTL DEF Spec, Promise!Safety
=============================================================================
