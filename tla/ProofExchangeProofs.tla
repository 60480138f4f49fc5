------------------------ MODULE ProofExchangeProofs ------------------------
(***************************************************************************)
(* What is read and found valid, for proofs of any contents, documents     *)
(* changed in any way, any number of hops, and whatever a vin, a vout and  *)
(* a Merkle proof may be.                                                  *)
(***************************************************************************)
EXTENDS ProofExchange, SequenceTheorems, WellFoundedInduction, TLAPS

(* The least of some numbers. *)
LEMMA LeastExists ==
  ASSUME NEW S \in SUBSET Nat, S # {}
  PROVE  Min(S) \in S /\ \A n \in S : Min(S) <= n
<1>1. PICK m \in S : \A n \in S : ~ (<<n, m>> \in OpToRel(<, Nat))
  BY NatLessThanWellFounded, WFMin
<1>2. \A n \in S : ~ (n < m)
  BY <1>1 DEF OpToRel
<1>3. \E k \in S : \A n \in S : k <= n
  <2>1. \A n \in S : m <= n
    BY <1>2
  <2> QED
    BY <2>1
<1> QED
  BY <1>3 DEF Min

(***************************************************************************)
(* What the variables hold.                                                *)
(***************************************************************************)
Proofs == [Fields -> ByteStrings]
Documents == [Fields -> Text]
Orders == {Order(w) : w \in Writers}
Verdicts == {"valid", "InvalidVin", "InvalidVout", "WrongTxID", "WrongDigest",
             "WrongMerkleRoot", "WrongPrevHash", "BadMerkleProof"}

TypeInv ==
  /\ original \in Proofs /\ mem \in Proofs /\ kept \in Proofs
  /\ doc \in Documents /\ order \in Orders
  /\ port \in Ports
  /\ edited \in BOOLEAN /\ reused \in BOOLEAN
  /\ outcome \in {"sent", "read", "refused", "panic"} \cup Verdicts

LEMMA KnownPorts ==
  ASSUME NEW p \in Ports
  PROVE  p \in {"js", "go", "py", "rust"} /\ p \in Writers
BY ExchangeAssumption DEF Writers

LEMMA EmptyIsProof ==
  ASSUME NEW p
  PROVE  Empty(p) \in Proofs
<1>1. \A f \in Fields : Size(f) \in Nat
  BY ExchangeAssumption DEF Size
<1>2. 0 \in Byte
  BY ExchangeAssumption
<1>3. ASSUME NEW f \in Fields
      PROVE  Empty(p)[f] \in ByteStrings
  <2>1. [k \in 1..Size(f) |-> 0] \in Seq(Byte)
    BY <1>1, <1>2
  <2>2. <<>> \in Seq(Byte)
    OBVIOUS
  <2> QED
    BY <2>1, <2>2 DEF Empty, ByteStrings
<1> QED
  BY <1>3 DEF Empty, Proofs

LEMMA DocumentsAreTexts ==
  ASSUME NEW w, NEW proof \in Proofs
  PROVE  Document(w, proof) \in Documents
<1>1. ASSUME NEW f \in Fields
      PROVE  HexOf(w, proof[f]) \in Text
  BY DEF HexOf, Text, Proofs
<1> QED
  BY <1>1 DEF Document, Documents

(* Every field stands once in a document. *)
LEMMA OrdersComplete ==
  ASSUME NEW o \in Orders
  PROVE  /\ DOMAIN o = 1..10 /\ Len(o) = 10
         /\ \A k \in 1..10 : o[k] \in Fields
         /\ \A f \in Fields : \E k \in 1..10 : o[k] = f
<1>1. PICK w \in Writers : o = Order(w)
  BY DEF Orders
<1>2. w \in {"js", "py", "go", "client", "rust"}
  BY ExchangeAssumption DEF Writers
<1>3. \/ o = <<"version", "vin", "vout", "locktime", "tx_id",
               "intermediate_nodes", "raw", "hash", "prevhash", "merkle_root">>
      \/ o = <<"version", "vin", "vout", "locktime", "tx_id",
               "raw", "hash", "prevhash", "merkle_root", "intermediate_nodes">>
      \/ o = <<"version", "vin", "vout", "locktime", "tx_id",
               "hash", "raw", "prevhash", "merkle_root", "intermediate_nodes">>
  BY <1>1, <1>2 DEF Order
<1>4. DOMAIN o = 1..10 /\ Len(o) = 10
  BY <1>3
<1>5. Fields = {"version", "vin", "vout", "locktime", "intermediate_nodes",
                "tx_id", "hash", "prevhash", "merkle_root", "raw"}
  BY DEF Fields, Vectors, Digests
<1>6. Fields = {o[1], o[2], o[3], o[4], o[5], o[6], o[7], o[8], o[9], o[10]}
  BY <1>3, <1>5
<1>7. \A k \in 1..10 : k \in {1, 2, 3, 4, 5, 6, 7, 8, 9, 10}
  OBVIOUS
<1>8. \A k \in 1..10 : o[k] \in Fields
  BY <1>6, <1>7
<1>9. \A f \in Fields : \E k \in 1..10 : o[k] = f
  BY <1>6
<1> QED
  BY <1>4, <1>8, <1>9

(***************************************************************************)
(* Reading.                                                                *)
(***************************************************************************)
ReadsAll == \A f \in Fields : Reads(port, f, doc[f]) = "ok"

AllStored(before) == [f \in Fields |-> Stored(port, f, doc[f], before[f])]

LEMMA ReadsResults ==
  ASSUME NEW p \in Ports, NEW f \in Fields, NEW t \in Text
  PROVE  Reads(p, f, t) \in {"ok", "refused", "panic"}
BY KnownPorts DEF Reads, JsReads, GoReads, PyReads, RustReads

LEMMA StoredIsBytes ==
  ASSUME NEW p, NEW f \in Fields, NEW t \in Text, NEW old \in ByteStrings
  PROVE  Stored(p, f, t, old) \in ByteStrings
<1>1. t.hex \in Seq(Byte) /\ old \in Seq(Byte)
  BY DEF Text, ByteStrings
<1>2. old \o t.hex \in Seq(Byte)
  BY <1>1
<1> QED
  BY <1>1, <1>2 DEF Stored, ByteStrings

(* A reader that takes every field stores every field; one that does not   *)
(* stops at the first it does not take.                                    *)
LEMMA ReadStep ==
  ASSUME TypeInv, NEW before \in Proofs, Read(before)
  PROVE  /\ mem' \in Proofs /\ kept' \in Proofs
         /\ ReadsAll => mem' = AllStored(before)
         /\ outcome' \in {"read", "refused", "panic"}
         /\ outcome' = "read" <=> ReadsAll /\ Completes(port, mem')
         /\ outcome' = "panic" =>
              \E f \in Fields : Reads(port, f, doc[f]) = "panic"
<1> DEFINE stop == {k \in DOMAIN order : Reads(port, order[k], doc[order[k]]) # "ok"}
           upTo == IF stop = {} THEN Len(order) ELSE Min(stop) - 1
           read == {order[k] : k \in 1..upTo}
           taken == [f \in Fields |->
                       IF f \in read THEN Stored(port, f, doc[f], before[f])
                                     ELSE before[f]]
<1>1. /\ mem' = taken
      /\ outcome' = CASE stop # {} ->
                           Reads(port, order[upTo + 1], doc[order[upTo + 1]])
                      [] stop = {} /\ Completes(port, taken) -> "read"
                      [] OTHER -> "refused"
      /\ kept' = IF port = "go" THEN mem' ELSE kept
  BY DEF Read
<1>2. /\ DOMAIN order = 1..10 /\ Len(order) = 10
      /\ \A k \in 1..10 : order[k] \in Fields
      /\ \A f \in Fields : \E k \in 1..10 : order[k] = f
  BY OrdersComplete DEF TypeInv
<1>3. \A f \in Fields : Stored(port, f, doc[f], before[f]) \in ByteStrings
  BY StoredIsBytes DEF TypeInv, Proofs, Documents
<1>4. taken \in Proofs
  <2> HIDE DEF read
  <2> QED
    BY <1>3 DEF Proofs
<1>5. stop = {} <=> ReadsAll
  BY <1>2 DEF ReadsAll
<1>6. ASSUME stop = {}
      PROVE  taken = AllStored(before)
  <2>1. upTo = 10
    BY <1>2, <1>6
  <2>2. \A f \in Fields : f \in read
    BY <1>2, <2>1
  <2> HIDE DEF read
  <2> QED
    BY <2>2 DEF AllStored
<1>7. ASSUME stop # {}
      PROVE  /\ upTo + 1 \in 1..10
             /\ Reads(port, order[upTo + 1], doc[order[upTo + 1]]) # "ok"
  <2>1. stop \in SUBSET Nat
    BY <1>2
  <2>2. Min(stop) \in stop
    BY <1>7, <2>1, LeastExists
  <2>3. Min(stop) \in 1..10
    BY <1>2, <2>2
  <2>4. upTo = Min(stop) - 1
    BY <1>7
  <2>5. upTo + 1 = Min(stop)
    BY <2>3, <2>4
  <2> QED
    BY <2>2, <2>3, <2>5
<1> HIDE DEF stop, upTo, taken
<1>8. ASSUME stop # {}
      PROVE  /\ outcome' = Reads(port, order[upTo + 1], doc[order[upTo + 1]])
             /\ order[upTo + 1] \in Fields
             /\ outcome' \in {"refused", "panic"}
  <2>1. order[upTo + 1] \in Fields
    BY <1>2, <1>7, <1>8
  <2>2. outcome' = Reads(port, order[upTo + 1], doc[order[upTo + 1]])
    BY <1>1, <1>8
  <2>3. Reads(port, order[upTo + 1], doc[order[upTo + 1]]) \in {"ok", "refused", "panic"}
    BY <2>1, ReadsResults DEF TypeInv, Documents
  <2> QED
    BY <1>7, <1>8, <2>1, <2>2, <2>3
<1>9. ASSUME stop = {}
      PROVE  outcome' = IF Completes(port, taken) THEN "read" ELSE "refused"
  BY <1>1, <1>9
<1>10. kept' \in Proofs
  BY <1>1, <1>4 DEF TypeInv
<1> QED
  BY <1>1, <1>4, <1>5, <1>6, <1>8, <1>9, <1>10

(* Into a new variable, what is stored is what the document says. *)
LEMMA NewStoresMeaning ==
  ASSUME TypeInv
  PROVE  AllStored(Empty(port)) = Meaning
<1>1. ASSUME NEW f \in Fields
      PROVE  Stored(port, f, doc[f], Empty(port)[f])
               = IF doc[f].form = "absent" THEN Empty(port)[f] ELSE doc[f].hex
  <2>1. /\ doc[f].hex \in Seq(Byte)
        /\ doc[f].form = "absent" => doc[f].hex = <<>>
    BY DEF TypeInv, Documents, Text, ByteStrings
  <2>2. /\ port # "go" => Empty(port)[f] = <<>>
        /\ f \in Vectors => Empty(port)[f] = <<>>
    BY DEF Empty
  <2>3. <<>> \o doc[f].hex = doc[f].hex
    BY <2>1
  <2> QED
    BY <2>1, <2>2, <2>3 DEF Stored
<1> QED
  BY <1>1 DEF AllStored, Meaning

(***************************************************************************)
(* Validating.                                                             *)
(***************************************************************************)
Passes(p, proof) ==
  /\ IsVin(proof["vin"]) /\ IsVout(proof["vout"])
  /\ Hash256(Serialized(proof)) = proof["tx_id"]
  /\ Hash256(proof["raw"]) = proof["hash"]
  /\ Bytes(proof["raw"], NumberSize + DigestSize, DigestSize) = proof["merkle_root"]
  /\ Bytes(proof["raw"], NumberSize, DigestSize) = proof["prevhash"]
  /\ Prove(p, proof["tx_id"], proof["merkle_root"],
           proof["intermediate_nodes"], index)

LEMMA SevenChecks ==
  ASSUME NEW c1, NEW c2, NEW c3, NEW c4, NEW c5, NEW c6, NEW c7
  PROVE  <<c1, c2, c3>> \o <<c4, c5, c6>> \o <<c7>>
           = <<c1, c2, c3, c4, c5, c6, c7>>
<1> DEFINE S == {c1, c2, c3, c4, c5, c6, c7}
           a == <<c1, c2, c3>>
           b == <<c4, c5, c6>>
           d == <<c7>>
           e == <<c1, c2, c3, c4, c5, c6, c7>>
<1>1. a \in Seq(S) /\ b \in Seq(S) /\ d \in Seq(S) /\ e \in Seq(S)
  OBVIOUS
<1>2. /\ Len(a) = 3 /\ Len(b) = 3 /\ Len(d) = 1 /\ Len(e) = 7
      /\ a[1] = c1 /\ a[2] = c2 /\ a[3] = c3
      /\ b[1] = c4 /\ b[2] = c5 /\ b[3] = c6 /\ d[1] = c7
      /\ e[1] = c1 /\ e[2] = c2 /\ e[3] = c3 /\ e[4] = c4 /\ e[5] = c5
      /\ e[6] = c6 /\ e[7] = c7
  OBVIOUS
<1> HIDE DEF S, a, b, d, e
<1>3. /\ a \o b \in Seq(S) /\ Len(a \o b) = 6
      /\ \A k \in 1..6 : (a \o b)[k] = IF k <= 3 THEN a[k] ELSE b[k - 3]
  <2>1. /\ a \o b \in Seq(S) /\ Len(a \o b) = Len(a) + Len(b)
        /\ \A k \in 1..Len(a) + Len(b) :
             (a \o b)[k] = IF k <= Len(a) THEN a[k] ELSE b[k - Len(a)]
    BY ONLY <1>1, ConcatProperties, Zenon
  <2> QED
    BY <1>2, <2>1
<1> DEFINE f == a \o b
<1>4. f \in Seq(S) /\ Len(f) = 6
  BY <1>3
<1>5. /\ f[1] = c1 /\ f[2] = c2 /\ f[3] = c3
      /\ f[4] = c4 /\ f[5] = c5 /\ f[6] = c6
  BY <1>2, <1>3
<1> HIDE DEF f
<1>6. /\ f \o d \in Seq(S) /\ Len(f \o d) = 7
      /\ \A k \in 1..7 : (f \o d)[k] = IF k <= 6 THEN f[k] ELSE d[k - 6]
  <2>1. /\ f \o d \in Seq(S) /\ Len(f \o d) = Len(f) + Len(d)
        /\ \A k \in 1..Len(f) + Len(d) :
             (f \o d)[k] = IF k <= Len(f) THEN f[k] ELSE d[k - Len(f)]
    BY ONLY <1>1, <1>4, ConcatProperties, Zenon
  <2> QED
    BY <1>2, <1>4, <2>1
<1>7. \A k \in 1..7 : (f \o d)[k] = e[k]
  BY <1>2, <1>5, <1>6, SMTT(30)
<1>8. f \o d = e
  BY <1>1, <1>2, <1>6, <1>7, SeqEqual
<1> QED
  BY <1>8 DEF f, a, b, d, e

LEMMA FirstFailureTells ==
  ASSUME NEW p, NEW proof
  PROVE  /\ FirstFailure(ProofChecks(p, proof)) \in Verdicts
         /\ FirstFailure(ProofChecks(p, proof)) = "valid" <=> Passes(p, proof)
<1> DEFINE c == ProofChecks(p, proof)
<1>1. c = << <<"InvalidVin", IsVin(proof["vin"])>>,
             <<"InvalidVout", IsVout(proof["vout"])>>,
             <<"WrongTxID", Hash256(Serialized(proof)) = proof["tx_id"]>>,
             <<"WrongDigest", Hash256(proof["raw"]) = proof["hash"]>>,
             <<"WrongMerkleRoot",
               Bytes(proof["raw"], NumberSize + DigestSize, DigestSize)
                 = proof["merkle_root"]>>,
             <<"WrongPrevHash",
               Bytes(proof["raw"], NumberSize, DigestSize) = proof["prevhash"]>>,
             <<"BadMerkleProof",
               Prove(p, proof["tx_id"], proof["merkle_root"],
                     proof["intermediate_nodes"], index)>> >>
  <2> DEFINE c1 == <<"InvalidVin", IsVin(proof["vin"])>>
             c2 == <<"InvalidVout", IsVout(proof["vout"])>>
             c3 == <<"WrongTxID", Hash256(Serialized(proof)) = proof["tx_id"]>>
             c4 == <<"WrongDigest", Hash256(proof["raw"]) = proof["hash"]>>
             c5 == <<"WrongMerkleRoot",
                     Bytes(proof["raw"], NumberSize + DigestSize, DigestSize)
                       = proof["merkle_root"]>>
             c6 == <<"WrongPrevHash",
                     Bytes(proof["raw"], NumberSize, DigestSize)
                       = proof["prevhash"]>>
             c7 == <<"BadMerkleProof",
                     Prove(p, proof["tx_id"], proof["merkle_root"],
                           proof["intermediate_nodes"], index)>>
  <2>1. c = <<c1, c2, c3>> \o <<c4, c5, c6>> \o <<c7>>
    BY Zenon DEF ProofChecks, HeaderChecks
  <2> HIDE DEF c, c1, c2, c3, c4, c5, c6, c7
  <2>2. c = <<c1, c2, c3, c4, c5, c6, c7>>
    BY <2>1, SevenChecks
  <2> QED
    BY <2>2, Zenon DEF c1, c2, c3, c4, c5, c6, c7
<1> HIDE DEF c
<1>2. DOMAIN c = {1, 2, 3, 4, 5, 6, 7}
  BY <1>1
<1>3. \A k \in DOMAIN c : c[k][1] \in Verdicts \ {"valid"}
  BY <1>1, <1>2 DEF Verdicts
<1>4. (\A k \in DOMAIN c : c[k][2]) <=> Passes(p, proof)
  <2>1. /\ c[1][2] <=> IsVin(proof["vin"])
        /\ c[2][2] <=> IsVout(proof["vout"])
    BY <1>1
  <2>2. /\ c[3][2] <=> Hash256(Serialized(proof)) = proof["tx_id"]
        /\ c[4][2] <=> Hash256(proof["raw"]) = proof["hash"]
    BY <1>1
  <2>3. /\ c[5][2] <=> Bytes(proof["raw"], NumberSize + DigestSize, DigestSize)
                         = proof["merkle_root"]
        /\ c[6][2] <=> Bytes(proof["raw"], NumberSize, DigestSize)
                         = proof["prevhash"]
    BY <1>1
  <2>4. c[7][2] <=> Prove(p, proof["tx_id"], proof["merkle_root"],
                          proof["intermediate_nodes"], index)
    BY <1>1
  <2> QED
    BY <1>2, <2>1, <2>2, <2>3, <2>4 DEF Passes
<1>5. Failing(c) = {} <=> Passes(p, proof)
  BY <1>4 DEF Failing
<1>6. ASSUME Failing(c) # {}
      PROVE  Min(Failing(c)) \in DOMAIN c
  <2>1. Failing(c) \in SUBSET Nat
    BY <1>2 DEF Failing
  <2>2. Min(Failing(c)) \in Failing(c)
    BY <1>6, <2>1, LeastExists
  <2> QED
    BY <2>2 DEF Failing
<1> QED
  BY <1>3, <1>5, <1>6 DEF FirstFailure, c, Verdicts

(* Part of a header, cut out or compared byte by byte. *)
LEMMA CutOut ==
  ASSUME NEW raw \in ByteStrings, NEW field \in ByteStrings, NEW first \in Nat
  PROVE  Bytes(raw, first, DigestSize) = field <=> Holds(raw, first, field)
<1> DEFINE last == Min({first + DigestSize, Len(raw)})
           part == SubSeq(raw, first + 1, last)
<1>1. DigestSize \in Nat /\ Len(raw) \in Nat /\ Len(field) \in Nat
  BY ExchangeAssumption DEF ByteStrings
<1>2. /\ last \in {first + DigestSize, Len(raw)}
      /\ last <= first + DigestSize /\ last <= Len(raw)
  <2>1. {first + DigestSize, Len(raw)} \in SUBSET Nat
    BY <1>1
  <2> QED
    BY <2>1, LeastExists
<1> HIDE DEF last
<1>3. last \in Nat
  BY <1>1, <1>2
<1>4. raw \in Seq(Byte) /\ field \in Seq(Byte)
  BY DEF ByteStrings
<1>5. /\ part \in Seq(Byte)
      /\ Len(part) = IF first < last THEN last - first ELSE 0
      /\ \A k \in 1..Len(part) : part[k] = raw[first + k]
  <2>1. \A k \in (first + 1)..last : raw[k] \in Byte
    BY <1>1, <1>2, <1>3, <1>4
  <2>2. part \in Seq(Byte)
    BY <1>3, <1>4, <2>1
  <2>3. Len(part) = IF first < last THEN last - first ELSE 0
    BY <1>1, <1>2, <1>3, <1>4
  <2>4. \A k \in 1..Len(part) : part[k] = raw[first + k]
    BY <1>1, <1>2, <1>3, <1>4, <2>3
  <2> QED
    BY <2>2, <2>3, <2>4
<1> HIDE DEF part
<1>6. Bytes(raw, first, DigestSize) = part
  BY DEF Bytes, part, last
<1>7. ASSUME part = field
      PROVE  Holds(raw, first, field)
  BY <1>1, <1>2, <1>3, <1>5, <1>7 DEF Holds
<1>8. ASSUME Holds(raw, first, field)
      PROVE  part = field
  <2>1. Len(field) <= DigestSize
    BY <1>8 DEF Holds
  <2>2. \A k \in 1..DigestSize :
          /\ k <= Len(field) <=> first + k <= Len(raw)
          /\ k <= Len(field) => field[k] = raw[first + k]
    BY <1>8 DEF Holds
  <2>3. Len(part) <= DigestSize
    BY <1>1, <1>2, <1>3, <1>5
  <2>4. \A k \in 1..DigestSize : k <= Len(part) <=> first + k <= Len(raw)
    BY <1>1, <1>2, <1>3, <1>5
  <2>5. Len(part) = Len(field)
    <3>1. ~ (Len(part) < Len(field))
      <4> SUFFICES ASSUME Len(part) < Len(field) PROVE FALSE
        OBVIOUS
      <4>1. Len(field) \in 1..DigestSize
        BY <1>1, <1>5, <2>1
      <4> QED
        BY <4>1, <2>2, <2>4, <1>1, <1>5
    <3>2. ~ (Len(field) < Len(part))
      <4> SUFFICES ASSUME Len(field) < Len(part) PROVE FALSE
        OBVIOUS
      <4>1. Len(part) \in 1..DigestSize
        BY <1>1, <1>5, <2>3
      <4> QED
        BY <4>1, <2>2, <2>4, <1>1, <1>5
    <3> QED
      BY <3>1, <3>2, <1>1, <1>5
  <2>6. \A k \in 1..Len(field) : field[k] = part[k]
    BY <1>1, <1>5, <2>1, <2>2, <2>5
  <2> QED
    BY <1>4, <1>5, <2>5, <2>6
<1> QED
  BY <1>6, <1>7, <1>8

LEMMA WholePasses ==
  ASSUME NEW proof \in Proofs
  PROVE  Passes(port, proof) <=> Whole(proof)
<1>1. /\ proof["raw"] \in ByteStrings /\ proof["prevhash"] \in ByteStrings
      /\ proof["merkle_root"] \in ByteStrings
  BY DEF Proofs, Fields, Digests
<1>2. NumberSize \in Nat /\ NumberSize + DigestSize \in Nat
  BY ExchangeAssumption
<1> QED
  BY <1>1, <1>2, CutOut DEF Passes, Whole

(* A hash has the size of a digest. *)
HashSized == \A b \in ByteStrings : Len(Hash256(b)) = DigestSize

LEMMA SerializedIsBytes ==
  ASSUME NEW proof \in Proofs
  PROVE  Serialized(proof) \in ByteStrings
<1>1. /\ proof["version"] \in Seq(Byte) /\ proof["vin"] \in Seq(Byte)
      /\ proof["vout"] \in Seq(Byte) /\ proof["locktime"] \in Seq(Byte)
  BY DEF Proofs, Fields, Vectors, ByteStrings
<1>2. proof["version"] \o proof["vin"] \in Seq(Byte)
  BY <1>1
<1>3. (proof["version"] \o proof["vin"]) \o proof["vout"] \in Seq(Byte)
  BY <1>1, <1>2
<1>4. ((proof["version"] \o proof["vin"]) \o proof["vout"]) \o proof["locktime"]
        \in Seq(Byte)
  BY <1>1, <1>3
<1> QED
  BY <1>4 DEF Serialized, ByteStrings

LEMMA MeaningIsProof ==
  ASSUME TypeInv
  PROVE  Meaning \in Proofs
BY EmptyIsProof DEF TypeInv, Documents, Proofs, Text, Meaning

(* The digests of a whole proof have their size, where the header has.     *)
LEMMA WholeSizes ==
  ASSUME HashSized, NEW proof \in Proofs, Whole(proof),
         Len(proof["raw"]) = HeaderSize
  PROVE  \A f \in Fields \ Vectors : Len(proof[f]) = Size(f)
<1>1. /\ proof["raw"] \in ByteStrings /\ proof["prevhash"] \in ByteStrings
      /\ proof["merkle_root"] \in ByteStrings /\ Serialized(proof) \in ByteStrings
  BY SerializedIsBytes DEF Proofs, Fields, Digests
<1>2. Len(proof["tx_id"]) = DigestSize /\ Len(proof["hash"]) = DigestSize
  BY <1>1 DEF Whole, HashSized
<1>3. /\ DigestSize \in Nat /\ DigestSize > 0 /\ NumberSize \in Nat
      /\ HeaderSize \in Nat /\ HeaderSize >= NumberSize + 2 * DigestSize
  BY ExchangeAssumption
<1>4. ASSUME NEW field \in ByteStrings, NEW first \in Nat,
             first + DigestSize <= HeaderSize, Holds(proof["raw"], first, field)
      PROVE  Len(field) = DigestSize
  <2>1. Len(field) \in Nat /\ Len(field) <= DigestSize
    BY <1>4 DEF Holds, ByteStrings
  <2>2. DigestSize \in 1..DigestSize
    BY <1>3
  <2>3. DigestSize <= Len(field)
    BY <1>3, <1>4, <2>2 DEF Holds
  <2> QED
    BY <1>3, <2>1, <2>3
<1>5. Len(proof["prevhash"]) = DigestSize /\ Len(proof["merkle_root"]) = DigestSize
  BY <1>1, <1>3, <1>4 DEF Whole
<1>6. \A f \in Fields \ Vectors :
        f \in {"raw", "tx_id", "hash", "prevhash", "merkle_root"}
  BY DEF Fields, Digests
<1> QED
  BY <1>2, <1>5, <1>6 DEF Size

(* What is whole and tolerated is taken by its reader... *)
LEMMA WholeIsRead ==
  ASSUME TypeInv, HashSized, Whole(Meaning), Tolerated
  PROVE  ReadsAll /\ Completes(port, Meaning)
<1>1. port \in {"js", "go", "py", "rust"}
  BY KnownPorts DEF TypeInv
<1>2. port # "py" => \A f \in Fields \ Vectors : Len(Meaning[f]) = Size(f)
  BY WholeSizes, MeaningIsProof DEF Tolerated
<1>3. ASSUME NEW f \in Fields
      PROVE  /\ doc[f] \in Text
             /\ doc[f].form # "absent" => Meaning[f] = doc[f].hex
             /\ doc[f].form = "absent" => Meaning[f] = Empty(port)[f]
             /\ doc[f].form = "absent" => doc[f].hex = <<>>
  BY DEF TypeInv, Documents, Meaning, Text
<1>4. ASSUME NEW f \in Fields, port # "py",
             doc[f].form # "absent" \/ port = "js"
      PROVE  ~ WrongSize(f, doc[f])
  <2>1. Meaning[f] = doc[f].hex
    BY <1>3, <1>4 DEF Empty
  <2> QED
    BY <1>2, <1>4, <2>1 DEF WrongSize
<1>5. CASE port = "js"
  BY <1>4, <1>5 DEF ReadsAll, Reads, JsReads, Tolerated, Completes
<1>6. CASE port = "go"
  BY <1>4, <1>6 DEF ReadsAll, Reads, GoReads, Tolerated, Completes
<1>7. CASE port = "py"
  BY <1>7 DEF ReadsAll, Reads, PyReads, Tolerated, Completes
<1>8. CASE port = "rust"
  <2>1. ASSUME NEW f \in Fields
        PROVE  ~ (doc[f].form = "bare" /\ doc[f].hex = <<>>)
    <3> SUFFICES ASSUME doc[f].form = "bare", doc[f].hex = <<>> PROVE FALSE
      OBVIOUS
    <3>1. Meaning[f] = <<>> /\ Len(Meaning[f]) = 0
      BY <1>3
    <3>2. Size(f) > 0 /\ NumberSize > 0
      BY ExchangeAssumption DEF Size
    <3>3. f \in {"version", "vin", "vout", "locktime", "intermediate_nodes"}
            \/ f \in Fields \ Vectors
      BY DEF Vectors
    <3>4. f \notin Fields \ Vectors
      BY <1>2, <1>8, <3>1, <3>2
    <3>5. f \notin {"version", "locktime", "intermediate_nodes"}
      BY <1>8, <3>1, <3>2 DEF Tolerated
    <3>6. f \notin {"vin", "vout"}
      BY <3>1, ExchangeAssumption DEF Whole
    <3> QED
      BY <3>3, <3>4, <3>5, <3>6
  <2>2. \A f \in Fields : doc[f].form \notin NotHex \cup {"absent"}
    BY <1>8 DEF Tolerated
  <2>3. ASSUME NEW f \in Fields
        PROVE  Reads(port, f, doc[f]) = "ok"
    BY <1>4, <1>8, <2>1, <2>2 DEF Reads, RustReads
  <2> QED
    BY <1>8, <2>2, <2>3 DEF ReadsAll, Completes
<1> QED
  BY <1>1, <1>5, <1>6, <1>7, <1>8

(* ... and passes there. *)
LEMMA WholeIsValid ==
  ASSUME TypeInv, Whole(Meaning), Tolerated
  PROVE  ~ Panics(port, Meaning) /\ Passes(port, Meaning)
<1>1. Passes(port, Meaning)
  BY WholePasses, MeaningIsProof
<1>2. ~ GoPanics(Meaning)
  BY ExchangeAssumption DEF Whole, GoPanics
<1>3. port = "rust" => ~ RustPanics(Meaning)
  BY <1>2 DEF RustPanics, Tolerated
<1> QED
  BY <1>1, <1>2, <1>3 DEF Panics

(* What is taken and passes is whole and tolerated. *)
LEMMA ValidIsWhole ==
  ASSUME TypeInv, ReadsAll, Completes(port, Meaning),
         ~ Panics(port, Meaning), Passes(port, Meaning)
  PROVE  Whole(Meaning) /\ Tolerated
<1>1. port \in {"js", "go", "py", "rust"}
  BY KnownPorts DEF TypeInv
<1>2. Whole(Meaning)
  BY WholePasses, MeaningIsProof
<1>3. "raw" \in Fields /\ "raw" \notin Vectors /\ Size("raw") = HeaderSize
      /\ HeaderSize > 0 /\ HeaderSize \in Nat
  BY ExchangeAssumption DEF Fields, Vectors, Size
<1>4. doc["raw"] \in Text /\ Reads(port, "raw", doc["raw"]) = "ok"
  BY <1>3 DEF TypeInv, Documents, ReadsAll
<1>5. Meaning["raw"] = IF doc["raw"].form = "absent" THEN Empty(port)["raw"]
                                                    ELSE doc["raw"].hex
  BY <1>3 DEF Meaning
<1>6. CASE port = "js"
  <2>1. Len(doc["raw"].hex) = HeaderSize
    BY <1>3, <1>4, <1>6 DEF Reads, JsReads, WrongSize
  <2>2. doc["raw"].form # "absent"
    BY <1>3, <1>4, <2>1 DEF Text
  <2> QED
    BY <1>2, <1>5, <1>6, <2>1, <2>2 DEF ReadsAll, Reads, JsReads, Tolerated
<1>7. CASE port = "go"
  <2>1. Len(Meaning["raw"]) = HeaderSize
    <3>1. CASE doc["raw"].form = "absent"
      <4>1. Meaning["raw"] = [k \in 1..HeaderSize |-> 0]
        BY <1>3, <1>5, <1>7, <3>1 DEF Empty
      <4> QED
        BY <1>3, <4>1, ExchangeAssumption
    <3>2. CASE doc["raw"].form # "absent"
      BY <1>3, <1>4, <1>5, <1>7, <3>2 DEF Reads, GoReads, WrongSize
    <3> QED
      BY <3>1, <3>2
  <2>2. \A f \in Fields : doc[f].form \notin NotHex
    BY <1>7 DEF ReadsAll, Reads, GoReads, NotHex
  <2> QED
    BY <1>2, <1>7, <2>1, <2>2 DEF Tolerated
<1>8. CASE port = "py"
  <2>1. \A f \in Fields : doc[f].form \notin NotHex \cup {"absent"}
    BY <1>8 DEF ReadsAll, Reads, PyReads
  <2> QED
    BY <1>2, <1>8, <2>1 DEF Tolerated, Completes
<1>9. CASE port = "rust"
  <2>1. \A f \in Fields : doc[f].form # "absent"
    BY <1>9 DEF Completes
  <2>2. ASSUME NEW f \in Fields
        PROVE  /\ ~ (doc[f].form = "bare" /\ doc[f].hex = <<>>)
               /\ doc[f].form \notin NotHex /\ ~ WrongSize(f, doc[f])
    <3>1. RustReads(f, doc[f]) = "ok"
      BY <1>9 DEF ReadsAll, Reads
    <3>2. ~ (doc[f].form = "bare" /\ doc[f].hex = <<>>)
      BY <3>1 DEF RustReads
    <3>3. doc[f].form \notin NotHex
      BY <2>1, <3>1, <3>2 DEF RustReads
    <3>4. ~ WrongSize(f, doc[f])
      BY <2>1, <3>1, <3>2, <3>3 DEF RustReads
    <3> QED
      BY <3>2, <3>3, <3>4
  <2>3. Len(Meaning["raw"]) = HeaderSize
    BY <1>3, <1>5, <2>1, <2>2 DEF WrongSize
  <2>4. \A f \in {"version", "locktime"} : Len(Meaning[f]) = NumberSize
    BY <1>2, <1>9 DEF Panics, RustPanics, Whole
  <2>5. "intermediate_nodes" \in Fields
    BY DEF Fields, Vectors
  <2> QED
    BY <1>2, <1>9, <2>1, <2>2, <2>3, <2>4, <2>5 DEF Tolerated
<1> QED
  BY <1>1, <1>6, <1>7, <1>8, <1>9

(***************************************************************************)
(* The invariant.                                                          *)
(***************************************************************************)
(* A document nobody has changed spells the original, and so does the      *)
(* memory it was read into.                                                *)
FaithfulInv ==
  ~ edited /\ ~ reused =>
    /\ \E w \in Writers : doc = Document(w, original)
    /\ outcome \notin {"sent", "refused", "panic"} => mem = original

(* A document that was read was taken as a whole. *)
ReadInv ==
  outcome = "read" =>
    ReadsAll /\ Completes(port, mem) /\ (~ reused => mem = Meaning)

Inv == TypeInv /\ FaithfulInv /\ ReadInv /\ PanicsKnown

(* The invariant together with what it says of verdicts. *)
ExactInv == Inv /\ VerdictExact

LEMMA UnreadIsUnjudged ==
  ASSUME outcome = "sent"
  PROVE  ReadInv /\ PanicsKnown /\ VerdictExact
BY DEF ReadInv, PanicsKnown, VerdictExact, Judged

LEMMA InitInv == Init => ExactInv
<1> SUFFICES ASSUME Init PROVE ExactInv
  OBVIOUS
<1>1. original \in Proofs
  BY ExchangeAssumption DEF Init, Proofs
<1>2. PICK w \in Writers : doc = Document(w, original) /\ order = Order(w)
  BY DEF Init
<1>3. /\ port \in Ports /\ mem = Empty(port) /\ kept = Empty("go")
      /\ edited = FALSE /\ reused = FALSE /\ outcome = "sent"
  BY DEF Init
<1>4. TypeInv
  BY <1>1, <1>2, <1>3, EmptyIsProof, DocumentsAreTexts DEF TypeInv, Orders
<1>5. FaithfulInv
  BY <1>2, <1>3 DEF FaithfulInv
<1> QED
  BY <1>3, <1>4, <1>5, UnreadIsUnjudged DEF Inv, ExactInv

LEMMA EditInv ==
  ASSUME Inv, NEW f \in Fields, NEW t, Edit(f, t)
  PROVE  Inv' /\ VerdictExact'
<1>1. /\ outcome = "sent" /\ t \in Text /\ doc' = [doc EXCEPT ![f] = t]
      /\ edited' = TRUE
      /\ UNCHANGED <<original, order, port, mem, kept, reused, outcome>>
  BY DEF Edit
<1>2. TypeInv'
  BY <1>1 DEF Inv, TypeInv, Documents
<1>3. FaithfulInv'
  BY <1>1 DEF FaithfulInv
<1>4. ReadInv' /\ PanicsKnown' /\ VerdictExact'
  BY <1>1 DEF ReadInv, PanicsKnown, VerdictExact, Judged
<1> QED
  BY <1>2, <1>3, <1>4 DEF Inv

(* A document as it was written means what was written. *)
LEMMA MeaningOfDocument ==
  ASSUME NEW w, NEW proof \in Proofs, doc = Document(w, proof)
  PROVE  Meaning = proof
<1>1. ASSUME NEW f \in Fields
      PROVE  doc[f].form # "absent" /\ doc[f].hex = proof[f]
  BY DEF Document, HexOf
<1> QED
  BY <1>1 DEF Meaning, Proofs

LEMMA ReadKeeps ==
  ASSUME Inv, NEW before \in Proofs, Read(before)
  PROVE  Inv'
<1>1. /\ outcome = "sent"
      /\ reused' = (reused \/ before # Empty(port))
      /\ UNCHANGED <<original, doc, order, edited, port>>
  BY DEF Read
<1>2. /\ mem' \in Proofs /\ kept' \in Proofs
      /\ ReadsAll => mem' = AllStored(before)
      /\ outcome' \in {"read", "refused", "panic"}
      /\ outcome' = "read" <=> ReadsAll /\ Completes(port, mem')
      /\ outcome' = "panic" => \E f \in Fields : Reads(port, f, doc[f]) = "panic"
  BY ReadStep DEF Inv
<1>3. TypeInv'
  BY <1>1, <1>2 DEF Inv, TypeInv
<1>4. ReadsAll' = ReadsAll /\ Meaning' = Meaning
      /\ Completes(port, mem)' = Completes(port, mem')
  BY <1>1 DEF ReadsAll, Meaning, Completes
<1>5. ~ reused' /\ outcome' = "read" => mem' = Meaning
  BY <1>1, <1>2, NewStoresMeaning DEF Inv
<1>6. ReadInv'
  BY <1>2, <1>4, <1>5 DEF ReadInv
<1>7. FaithfulInv'
  <2> SUFFICES ASSUME ~ edited', ~ reused'
               PROVE  /\ \E w \in Writers : doc' = Document(w, original')
                      /\ outcome' \notin {"sent", "refused", "panic"}
                           => mem' = original'
    BY DEF FaithfulInv
  <2>1. ~ edited /\ ~ reused
    BY <1>1
  <2>2. PICK w \in Writers : doc = Document(w, original)
    BY <2>1 DEF Inv, FaithfulInv
  <2>3. Meaning = original
    BY <2>2, MeaningOfDocument DEF Inv, TypeInv
  <2> QED
    BY <1>1, <1>2, <1>5, <2>2, <2>3
<1>8. PanicsKnown'
  <2> SUFFICES ASSUME outcome' = "panic" PROVE PanicsKnown'
    BY DEF PanicsKnown
  <2>1. PICK f \in Fields : Reads(port, f, doc[f]) = "panic"
    BY <1>2
  <2>2. port \in {"js", "go", "py", "rust"}
    BY KnownPorts DEF Inv, TypeInv
  <2>3. port = "rust" /\ RustReads(f, doc[f]) = "panic"
    BY <2>1, <2>2 DEF Reads, JsReads, GoReads, PyReads
  <2>4. doc[f].form = "bare" /\ doc[f].hex = <<>>
    BY <2>3 DEF RustReads
  <2> QED
    BY <1>1, <2>3, <2>4 DEF PanicsKnown
<1> QED
  BY <1>3, <1>6, <1>7, <1>8 DEF Inv

LEMMA ReadExact ==
  ASSUME Inv, HashSized, NEW before \in Proofs, Read(before)
  PROVE  VerdictExact'
<1>1. /\ reused' = (reused \/ before # Empty(port))
      /\ UNCHANGED <<doc, port, index>>
  BY DEF Read
<1>2. /\ ReadsAll => mem' = AllStored(before)
      /\ outcome' \in {"read", "refused", "panic"}
      /\ outcome' = "read" <=> ReadsAll /\ Completes(port, mem')
  BY ReadStep DEF Inv
<1>3. Whole(Meaning)' = Whole(Meaning) /\ Tolerated' = Tolerated
  BY <1>1 DEF Whole, Meaning, Tolerated
<1>4. ASSUME ~ reused', outcome' # "read"
      PROVE  ~ (Whole(Meaning) /\ Tolerated)
  BY <1>1, <1>2, <1>4, WholeIsRead, NewStoresMeaning DEF Inv
<1> QED
  BY <1>2, <1>3, <1>4 DEF VerdictExact, Judged

LEMMA ValidateKeeps ==
  ASSUME Inv, Validate
  PROVE  Inv'
<1>1. /\ outcome = "read"
      /\ outcome' = IF Panics(port, mem) THEN "panic"
                                         ELSE FirstFailure(ProofChecks(port, mem))
      /\ UNCHANGED <<original, doc, order, edited, port, mem, kept, reused>>
  BY DEF Validate
<1>2. outcome' \in {"panic"} \cup Verdicts
  BY <1>1, FirstFailureTells
<1>3. TypeInv'
  BY <1>1, <1>2 DEF Inv, TypeInv
<1>4. outcome' # "read"
  BY <1>2 DEF Verdicts
<1>5. FaithfulInv' /\ ReadInv'
  BY <1>1, <1>4 DEF Inv, FaithfulInv, ReadInv
<1>6. PanicsKnown'
  <2> SUFFICES ASSUME outcome' = "panic" PROVE PanicsKnown'
    BY DEF PanicsKnown
  <2>1. "panic" \notin Verdicts
    BY DEF Verdicts
  <2>2. Panics(port, mem)
    BY <1>1, <2>1, FirstFailureTells
  <2> QED
    BY <1>1, <2>2 DEF PanicsKnown, Panics, GoPanics, RustPanics
<1> QED
  BY <1>3, <1>5, <1>6 DEF Inv

LEMMA ValidateExact ==
  ASSUME Inv, Validate
  PROVE  VerdictExact'
<1>1. /\ outcome = "read"
      /\ outcome' = IF Panics(port, mem) THEN "panic"
                                         ELSE FirstFailure(ProofChecks(port, mem))
      /\ UNCHANGED <<doc, port, index, reused>>
  BY DEF Validate
<1>2. Whole(Meaning)' = Whole(Meaning) /\ Tolerated' = Tolerated
  BY <1>1 DEF Whole, Meaning, Tolerated
<1>3. ASSUME ~ reused
      PROVE  outcome' = "valid" <=> Whole(Meaning) /\ Tolerated
  <2>1. mem = Meaning /\ ReadsAll /\ Completes(port, Meaning)
    BY <1>1, <1>3 DEF Inv, ReadInv
  <2>2. outcome' = "valid" <=> ~ Panics(port, mem) /\ Passes(port, mem)
    BY <1>1, FirstFailureTells
  <2> QED
    BY <2>1, <2>2, WholeIsValid, ValidIsWhole DEF Inv
<1> QED
  BY <1>1, <1>2, <1>3 DEF VerdictExact

LEMMA SendInv ==
  ASSUME Inv, NEW w \in Writers, NEW proof \in Proofs, Send(w, proof),
         edited' \in BOOLEAN, reused' \in BOOLEAN,
         ~ edited' /\ ~ reused' => proof = original
  PROVE  Inv' /\ VerdictExact'
<1>1. /\ doc' = Document(w, proof) /\ order' = Order(w) /\ port' \in Ports
      /\ mem' = Empty(port') /\ outcome' = "sent"
      /\ UNCHANGED <<original, kept>>
  BY DEF Send
<1>2. TypeInv'
  BY <1>1, EmptyIsProof, DocumentsAreTexts DEF Inv, TypeInv, Orders
<1>3. FaithfulInv'
  BY <1>1 DEF FaithfulInv
<1>4. ReadInv' /\ PanicsKnown' /\ VerdictExact'
  BY <1>1 DEF ReadInv, PanicsKnown, VerdictExact, Judged
<1> QED
  BY <1>2, <1>3, <1>4 DEF Inv

LEMMA ForwardInv ==
  ASSUME Inv, Forward
  PROVE  Inv' /\ VerdictExact'
<1>1. /\ outcome \notin {"sent", "read", "refused", "panic"}
      /\ Send(port, mem) /\ edited' = edited /\ reused' = reused
  BY DEF Forward
<1>2. port \in Writers
  BY KnownPorts DEF Inv, TypeInv
<1>3. mem \in Proofs /\ edited \in BOOLEAN /\ reused \in BOOLEAN
  BY DEF Inv, TypeInv
<1>4. ~ edited /\ ~ reused => mem = original
  BY <1>1 DEF Inv, FaithfulInv
<1> QED
  BY <1>1, <1>2, <1>3, <1>4, SendInv

LEMMA SendAgainInv ==
  ASSUME Inv, SendAgain
  PROVE  Inv' /\ VerdictExact'
<1>1. Send("client", original) /\ edited' = FALSE /\ reused' = FALSE
  BY DEF SendAgain
<1>2. "client" \in Writers /\ original \in Proofs
  BY DEF Inv, TypeInv, Writers
<1> QED
  BY <1>1, <1>2, SendInv

LEMMA StutterInv ==
  ASSUME UNCHANGED vars
  PROVE  /\ Inv => Inv'
         /\ VerdictExact => VerdictExact'
BY DEF vars, Inv, TypeInv, FaithfulInv, ReadInv, PanicsKnown, ReadsAll,
       Completes, Meaning, VerdictExact, Judged, Whole, Tolerated

LEMMA StepInv == Inv /\ [Next]_vars => Inv'
<1> SUFFICES ASSUME Inv, [Next]_vars PROVE Inv'
  OBVIOUS
<1>1. ASSUME NEW f \in Fields, NEW t \in Texts(doc[f]), Edit(f, t)
      PROVE  Inv'
  BY <1>1, EditInv
<1>2. CASE ReadNew
  BY <1>2, ReadKeeps, EmptyIsProof DEF ReadNew
<1>3. CASE ReadAgain
  BY <1>3, ReadKeeps DEF ReadAgain, Inv, TypeInv
<1>4. CASE Validate
  BY <1>4, ValidateKeeps
<1>5. CASE Forward
  BY <1>5, ForwardInv
<1>6. CASE SendAgain
  BY <1>6, SendAgainInv
<1>7. CASE UNCHANGED vars
  BY <1>7, StutterInv
<1> QED
  BY <1>1, <1>2, <1>3, <1>4, <1>5, <1>6, <1>7 DEF Next, Done

LEMMA StepExact == HashSized /\ Inv /\ VerdictExact /\ [Next]_vars => VerdictExact'
<1> SUFFICES ASSUME HashSized, Inv, VerdictExact, [Next]_vars
             PROVE  VerdictExact'
  OBVIOUS
<1>1. ASSUME NEW f \in Fields, NEW t \in Texts(doc[f]), Edit(f, t)
      PROVE  VerdictExact'
  BY <1>1, EditInv
<1>2. CASE ReadNew
  BY <1>2, ReadExact, EmptyIsProof DEF ReadNew
<1>3. CASE ReadAgain
  BY <1>3, ReadExact DEF ReadAgain, Inv, TypeInv
<1>4. CASE Validate
  BY <1>4, ValidateExact
<1>5. CASE Forward
  BY <1>5, ForwardInv
<1>6. CASE SendAgain
  BY <1>6, SendAgainInv
<1>7. CASE UNCHANGED vars
  BY <1>7, StutterInv
<1> QED
  BY <1>1, <1>2, <1>3, <1>4, <1>5, <1>6, <1>7 DEF Next, Done

LEMMA SpecInv == Spec => []Inv
<1>1. Init => Inv
  BY InitInv DEF ExactInv
<1> QED
  BY <1>1, StepInv, PTL DEF Spec

(* Writing and reading in every port, one after the other, however many:   *)
(* the proof that arrives is the proof that was sent, unless it was changed *)
(* on the way or Go decoded it on top of another.                          *)
THEOREM ProofsArriveAsSent == Spec => []ArrivesAsSent
<1>1. Inv => ArrivesAsSent
  BY DEF Inv, FaithfulInv, ArrivesAsSent
<1> QED
  BY SpecInv, <1>1, PTL

(* The only inputs on which a reader or a validator panics: the list is    *)
(* complete for every document, also one read on top of another.           *)
THEOREM PanicsAreKnown == Spec => []PanicsKnown
<1>1. Inv => PanicsKnown
  BY DEF Inv
<1> QED
  BY SpecInv, <1>1, PTL

(* Reading and validating a document in any port finds valid exactly the   *)
(* whole proofs, apart from the differences that Tolerated lists, as long  *)
(* as hashes have the size of a digest.                                    *)
THEOREM VerdictsAreExact == HashSized /\ Spec => []VerdictExact
<1> SUFFICES ASSUME HashSized PROVE Spec => []VerdictExact
  OBVIOUS
<1>1. Init => Inv /\ VerdictExact
  BY InitInv DEF ExactInv
<1>2. (Inv /\ VerdictExact) /\ [Next]_vars => (Inv /\ VerdictExact)'
  BY StepInv, StepExact
<1> QED
  BY <1>1, <1>2, PTL DEF Spec
=============================================================================
