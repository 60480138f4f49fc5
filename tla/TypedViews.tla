----------------------------- MODULE TypedViews -----------------------------
(***************************************************************************)
(* The typed views of ViewBTC.sol: a caller takes an untyped view of some  *)
(* bytes and calls one function after another, each on the view that the   *)
(* last one returned.  A function reverts on a view of another type than   *)
(* the one it is for and reads on the strength of that; only the tryAs     *)
(* functions look at all of the bytes.                                     *)
(***************************************************************************)
EXTENDS ViewForms

CONSTANTS
  Memory,        \* the byte strings viewed
  Indices,
  HeaderFields,  \* <<offset, length>> of the Merkle root, the time and the parent
  OP_RETURN

ASSUME ViewsAssumption ==
  /\ Memory \subseteq Seq(0..Base - 1) /\ Indices \subseteq Nat
  /\ Digits \in 0..Base - 1 /\ Power \in [0..Base - 1 -> Nat \ {0}]
  /\ Power[0] = 1
  /\ \A k \in 1..Base - 1 : Power[k] = Base * Power[k - 1]
  /\ \A b \in Memory : Len(b) < Uint
  /\ HeaderSize \in Nat \ {0} /\ NodeSize \in Nat \ {0}
  /\ BitsAt \in Nat /\ BitsAt + 4 <= HeaderSize
  /\ \A f \in HeaderFields : f[1] + f[2] <= HeaderSize
  /\ Before["vin"] > NodeSize
  /\ HashSize \in Nat \ {0} /\ LongHashSize \in Nat
  /\ LongHashSize >= HashSize + 3
  /\ MaxPush \in Nat

vars == <<memory, view, call, outcome>>

castTo(v, type) == [v EXCEPT !.type = type]

(* A slice that does not fit the view is null. *)
slice(v, index, len, type) ==
  IF index + len > v.len THEN nullView
  ELSE [type |-> type, from |-> v.from + index, len |-> len]

(* A read that does not fit reverts. *)
Readable(v, index, len) == index + len <= v.len

(***************************************************************************)
(* A call of a function on the view.  Its modifier typeAssert comes first: *)
(* on a view of another type the call reverts, whichever function it is.   *)
(***************************************************************************)
Revert == [how |-> "revert", view |-> nullView]
Value == [how |-> "value", view |-> nullView]
View(v) == [how |-> "view", view |-> v]

Call(name, type, index, results) ==
  /\ outcome \in {"view", "value"} /\ view.type = type
  /\ call' = [name |-> name, index |-> index, on |-> view]
  /\ \E r \in results :
       /\ outcome' = r.how
       /\ view' = IF r.how = "view" THEN r.view ELSE view
  /\ UNCHANGED memory

Mistyped ==
  /\ outcome \in {"view", "value"}
  /\ call' = [name |-> "typeAssert", index |-> 0, on |-> nullView]
  /\ outcome' = "mistyped" /\ view' = nullView
  /\ UNCHANGED memory

Read(ranges) ==
  IF \A r \in ranges : Readable(view, r[1], r[2]) THEN {Value} ELSE {Revert}

(***************************************************************************)
(* tryAsVin, tryAsVout, indexVin, indexVout.                               *)
(***************************************************************************)
TypeOf == [vin |-> "Vin", vout |-> "Vout"]
CastOf == [vin |-> "tryAsVin", vout |-> "tryAsVout"]
IndexOf == [vin |-> "indexVin", vout |-> "indexVout"]
ElementOf == [vin |-> "TxIn", vout |-> "TxOut"]

(* Where the elements of a vector begin, as long as there are any. *)
Walk(b, kind) ==
  LET step[k \in 0..Number(b, 0)] ==
        IF k = 0 THEN [how |-> "ok", at |-> Canonical(Number(b, 0))]
        ELSE LET last == step[k - 1] IN
             IF last.how # "ok" THEN last
             ELSE IF last.at >= Len(b) THEN [last EXCEPT !.how = "overrun"]
             ELSE IF ElementOutcome("sol", kind, b, last.at) # "ok"
             THEN [last EXCEPT !.how = "revert"]
             ELSE [last EXCEPT !.at = @ + ElementLength("sol", kind, b, @)]
  IN step

(* Faulty: the last element may end beyond the view. *)
WholeVectorLoose(b, walked) == walked.how = "ok"

WholeVector(b, walked) == walked.how = "ok" /\ walked.at = Len(b)

CastVector(kind) ==
  LET b == Viewed(view)
      walked == Walk(b, kind)[Number(b, 0)]
  IN CASE b = <<>> -> View(nullView)
       [] b # <<>> /\ ParseOutcome("sol", b, 0) # "ok" -> Revert
       [] OTHER ->
            IF Number(b, 0) = 0 THEN View(nullView)
            ELSE IF walked.how = "revert" THEN Revert
            ELSE IF WholeVector(b, walked)
            THEN View(castTo(view, TypeOf[kind])) ELSE View(nullView)

TryAsVector(kind) ==
  Call(CastOf[kind], "Unknown", 0, {CastVector(kind)})

(* A walk that leaves the view is a read beyond it. *)
Element(kind, index) ==
  LET b == Viewed(view)
      walked == Walk(b, kind)[index]
  IN IF index >= Number(b, 0) THEN Revert
     ELSE IF walked.how # "ok" THEN Revert
     ELSE IF ElementOutcome("sol", kind, b, walked.at) # "ok" THEN Revert
     ELSE LET len == ElementLength("sol", kind, b, walked.at)
          IN View(slice(view, walked.at, len, ElementOf[kind]))

IndexVector(kind) ==
  \E k \in Indices :
    Call(IndexOf[kind], TypeOf[kind], k, {Element(kind, k)})

(***************************************************************************)
(* Inputs: outpoint, scriptSig, sequence, and txidLE, outpointIdx.         *)
(***************************************************************************)
IntAt(index) == ParseOutcome("sol", Viewed(view), index) = "ok"
ScriptLength(index) ==
  LET script == Number(Viewed(view), index) IN Canonical(script) + script

Outpoint == Call("outpoint", "TxIn", 0,
                 {View(slice(view, 0, Before["vin"], "Outpoint"))})

Script(index, type) ==
  IF IntAt(index) THEN View(slice(view, index, ScriptLength(index), type))
  ELSE Revert

ScriptSig == Call("scriptSig", "TxIn", 0, {Script(Before["vin"], "ScriptSig")})

Sequence ==
  Call("sequence", "TxIn", 0,
       IF IntAt(Before["vin"])
       THEN LET end == Before["vin"] + ScriptLength(Before["vin"])
            IN Read({<<end, After["vin"]>>})
       ELSE {Revert})

OutpointParts ==
  Call("txidLE, outpointIdx", "Outpoint", 0,
       Read({<<0, NodeSize>>, <<NodeSize, Before["vin"] - NodeSize>>}))

(***************************************************************************)
(* Outputs: value, scriptPubkey, tryAsSPK, payload, opReturnPayload.       *)
(***************************************************************************)
OutputValue == Call("value", "TxOut", 0, Read({<<0, Before["vout"]>>}))

ScriptPubkey ==
  Call("scriptPubkey", "TxOut", 0, {Script(Before["vout"], "ScriptPubkey")})

(* Faulty: a script may be shorter than it says. *)
TryAsSPKLoose ==
  Call("tryAsSPK", "Unknown", 0,
       IF view.len = 0 THEN {View(nullView)}
       ELSE IF ~IntAt(0) THEN {Revert}
       ELSE IF view.len <= ScriptLength(0)
       THEN {View(castTo(view, "ScriptPubkey"))} ELSE {View(nullView)})

TryAsSPK ==
  Call("tryAsSPK", "Unknown", 0,
       IF view.len = 0 THEN {View(nullView)}
       ELSE IF ~IntAt(0) THEN {Revert}
       ELSE IF view.len = ScriptLength(0)
       THEN {View(castTo(view, "ScriptPubkey"))} ELSE {View(nullView)})

(* Which hashes a script of this length may hold; what the pattern around  *)
(* it has to be is left to FieldExtraction.                                *)
Payloads(body) ==
  {slice(view, 4, HashSize, "PKH") : k \in {body} \cap {HashSize + 5}} \cup
  {slice(view, 3, HashSize, "SH") : k \in {body} \cap {HashSize + 3}} \cup
  {slice(view, 3, HashSize, "WPKH") : k \in {body} \cap {HashSize + 2}} \cup
  {slice(view, 3, LongHashSize, "WSH") : k \in {body} \cap {LongHashSize + 2}}

Hash ==
  LET body == Number(Viewed(view), 0) IN
  Call("payload", "ScriptPubkey", 0,
       IF ~IntAt(0) THEN {Revert}
       ELSE IF \/ body \notin HashSize + 2..LongHashSize + 2
               \/ body + 1 # view.len
       THEN {View(nullView)}
       ELSE {View(p) : p \in {nullView} \cup Payloads(body)})

(* Both bytes are read before anything is compared. *)
OpReturnPayload ==
  LET b == Viewed(view) IN
  Call("opReturnPayload", "ScriptPubkey", 0,
       IF ~IntAt(0) \/ ~Readable(view, 2, 1) THEN {Revert}
       ELSE IF \/ Number(b, 0) > MaxPush + 2 \/ Number(b, 0) < 4
               \/ b[2] # OP_RETURN \/ b[3] # Number(b, 0) - 2
       THEN {View(nullView)}
       ELSE {View(slice(view, 3, b[3], "OpReturnPayload"))})

(***************************************************************************)
(* Headers and the nodes of a proof.                                       *)
(***************************************************************************)
CastSize(name, type, fits) ==
  Call(name, "Unknown", 0,
       {View(IF fits THEN castTo(view, type) ELSE nullView)})

TryAsHeader == CastSize("tryAsHeader", "Header", view.len = HeaderSize)
TryAsHeaderArray ==
  CastSize("tryAsHeaderArray", "HeaderArray", view.len % HeaderSize = 0)
TryAsMerkleArray ==
  CastSize("tryAsMerkleArray", "MerkleArray", view.len % NodeSize = 0)

(* The product is SafeMath and reverts where it needs more than 256 bits. *)
IndexHeaderArray ==
  \E k \in Indices :
    Call("indexHeaderArray", "HeaderArray", k,
         IF k * HeaderSize >= Uint THEN {Revert}
         ELSE {View(slice(view, k * HeaderSize, HeaderSize, "Header"))})

(* workHash and work hash the whole view, which cannot fail. *)
HeaderField ==
  Call("merkleRoot, time, parent", "Header", 0, Read(HeaderFields))

(* The subtraction and the product of target are SafeMath too, but not the *)
(* power between them, which wraps; so a large exponent has the target 0,  *)
(* as has the mantissa 0, and diff divides by it.                          *)
Scaled(header) == Mantissa(header) * (Power[Exponent(header) - 3] % Uint)

TargetReturns ==
  LET header == Viewed(view) IN
  /\ Readable(view, BitsAt, 3) /\ Readable(view, BitsAt + 3, 1)
  /\ Exponent(header) >= 3 /\ Scaled(header) < Uint

Target ==
  Call("target", "Header", 0, IF TargetReturns THEN {Value} ELSE {Revert})

Diff ==
  Call("diff", "Header", 0,
       IF TargetReturns /\ Scaled(Viewed(view)) # 0 THEN {Value} ELSE {Revert})

(* The loop of checkMerkle reads one node after the other. *)
MerkleNodes ==
  Call("checkMerkle", "MerkleArray", 0,
       Read({<<k * NodeSize, NodeSize>> :
               k \in 0..(view.len \div NodeSize) - 1}))

Init ==
  /\ memory \in Memory
  /\ view = [type |-> "Unknown", from |-> 0, len |-> Len(memory)]
  /\ call = [name |-> "ref", index |-> 0, on |-> nullView]
  /\ outcome = "view"

Done == outcome \in {"revert", "mistyped"} /\ UNCHANGED vars

Next ==
  \/ \E kind \in Kinds : TryAsVector(kind) \/ IndexVector(kind)
  \/ Outpoint \/ ScriptSig \/ Sequence \/ OutpointParts
  \/ OutputValue \/ ScriptPubkey \/ TryAsSPK \/ Hash \/ OpReturnPayload
  \/ TryAsHeader \/ TryAsHeaderArray \/ TryAsMerkleArray
  \/ IndexHeaderArray \/ HeaderField \/ Target \/ Diff \/ MerkleNodes
  \/ Mistyped \/ Done

Spec == Init /\ [][Next]_vars
=============================================================================
