--------------------------- MODULE ProofExchange ---------------------------
(***************************************************************************)
(* An SPV proof as an object: written as JSON by the client or by a port,  *)
(* read by another port, validated there, and written again for the next.  *)
(*                                                                         *)
(* A field of the document is a text: hexadecimal with or without "0x",    *)
(* something that is not hexadecimal, or no field at all.  A "half" text   *)
(* has a byte whose second character is no digit, which JavaScript reads   *)
(* by its first.  What is inside a field is opaque: whether bytes are a    *)
(* vin, a vout or a Merkle proof is decided by the constants IsVin, IsVout *)
(* and Prove, which stand for the functions modelled in TxVector and       *)
(* MerkleProof.                                                            *)
(*                                                                         *)
(* One port keeps something from one document to the next: a variable of   *)
(* Go may be decoded into again.                                           *)
(***************************************************************************)
EXTENDS Integers, Sequences, FiniteSetsExt

CONSTANTS
  Ports,                 \* the ports that read, validate and write
  Byte,                  \* the values of a byte
  NumberSize,            \* bytes of a version or a locktime (4)
  DigestSize,            \* bytes of a digest (32)
  HeaderSize,            \* bytes of a header (80)
  Hash256(_),            \* double SHA-256 of a byte string
  IsVin(_), IsVout(_),   \* validate_vin, validate_vout
  Prove(_, _, _, _, _),  \* Prove(p, txid, root, nodes, index): prove of port p
  Originals,             \* the proofs and indices that are sent
  Texts(_),              \* Texts(t): what a text may be changed to
  MaxHops                \* bound: documents sent in a behaviour

Vectors == {"version", "vin", "vout", "locktime", "intermediate_nodes"}
Digests == {"tx_id", "hash", "prevhash", "merkle_root"}
Fields == Vectors \cup Digests \cup {"raw"}
Writers == Ports \cup {"client"}

Size(f) == IF f = "raw" THEN HeaderSize ELSE DigestSize

ByteStrings == Seq(Byte)
Text ==
  {t \in [form : {"0x", "bare", "half", "bad", "absent"}, hex : ByteStrings] :
     t.form = "absent" => t.hex = <<>>}
NotHex == {"half", "bad"}

ASSUME ExchangeAssumption ==
  /\ Ports \subseteq {"js", "go", "py", "rust"}
  /\ {NumberSize, DigestSize, HeaderSize, MaxHops} \subseteq Nat \ {0}
  /\ HeaderSize >= NumberSize + 2 * DigestSize
  /\ \A o \in Originals : o.proof \in [Fields -> ByteStrings]
  /\ 0 \in Byte
  /\ ~IsVin(<<>>) /\ ~IsVout(<<>>)

VARIABLES
  original,  \* the proof first sent
  index,     \* its index, a number no port rewrites
  doc,       \* the document under way: a text for every field
  order,     \* the order of its fields
  edited,    \* history: some field was changed since the original was sent
  hops,      \* documents sent so far
  port,      \* who reads it
  mem,       \* the proof in that port's memory
  kept,      \* what Go's variable holds from earlier documents
  reused,    \* history: Go decoded into a variable that was not empty
  outcome    \* "sent", "read", "refused", "panic", "valid" or an error

vars == <<original, index, doc, order, edited, hops, port, mem, kept, reused,
          outcome>>

(***************************************************************************)
(* Writing.  JavaScript writes an empty array as an empty text, the client *)
(* puts no prefix before anything.                                         *)
(***************************************************************************)
(* Faulty: a JavaScript that drops a leading zero byte. *)
HexOfTrimmed(w, b) ==
  [form |-> IF w = "client" \/ (w = "js" /\ b = <<>>) THEN "bare" ELSE "0x",
   hex |-> IF w = "js" /\ b # <<>> /\ b[1] = 0 THEN Tail(b) ELSE b]

HexOf(w, b) ==
  [form |-> IF w = "client" \/ (w = "js" /\ b = <<>>) THEN "bare" ELSE "0x",
   hex |-> b]

Document(w, proof) == [f \in Fields |-> HexOf(w, proof[f])]

Order(w) ==
  CASE w \in {"js", "py"} ->
         <<"version", "vin", "vout", "locktime", "tx_id",
           "intermediate_nodes", "raw", "hash", "prevhash", "merkle_root">>
    [] w \in {"go", "client"} ->
         <<"version", "vin", "vout", "locktime", "tx_id",
           "raw", "hash", "prevhash", "merkle_root", "intermediate_nodes">>
    [] w = "rust" ->
         <<"version", "vin", "vout", "locktime", "tx_id",
           "hash", "raw", "prevhash", "merkle_root", "intermediate_nodes">>

(***************************************************************************)
(* Reading: what each port says of one field.                              *)
(***************************************************************************)
WrongSize(f, t) == f \notin Vectors /\ Len(t.hex) # Size(f)

(* A missing or empty text is an empty array; parseInt is content with one *)
(* digit of a byte.                                                        *)
JsReads(f, t) == IF t.form = "bad" \/ WrongSize(f, t) THEN "refused" ELSE "ok"

(* A missing field leaves the variable as it is. *)
GoReads(f, t) ==
  IF t.form # "absent" /\ (t.form \in NotHex \/ WrongSize(f, t))
  THEN "refused" ELSE "ok"

(* No sizes are checked. *)
PyReads(f, t) == IF t.form \in NotHex \cup {"absent"} THEN "refused" ELSE "ok"

(* Faulty: what is not hexadecimal is unwrapped. *)
RustReadsUnwrap(f, t) ==
  CASE t.form \in NotHex \/ (t.form = "bare" /\ t.hex = <<>>) -> "panic"
    [] t.form = "absent" -> "ok"
    [] OTHER -> IF WrongSize(f, t) THEN "refused" ELSE "ok"

(* strip_0x_prefix slices two characters off a text that may be shorter. *)
(* What is missing is noticed at the end.                                *)
RustReads(f, t) ==
  CASE t.form = "bare" /\ t.hex = <<>> -> "panic"
    [] t.form = "absent" -> "ok"
    [] t.form \in NotHex -> "refused"
    [] OTHER -> IF WrongSize(f, t) THEN "refused" ELSE "ok"

Reads(p, f, t) ==
  CASE p = "js" -> JsReads(f, t)
    [] p = "go" -> GoReads(f, t)
    [] p = "py" -> PyReads(f, t)
    [] p = "rust" -> RustReads(f, t)

(* UnmarshalJSON of HexBytes appends to what the variable holds. *)
Stored(p, f, t, old) ==
  IF p # "go" THEN t.hex
  ELSE IF t.form = "absent" THEN old
  ELSE IF f \in Vectors THEN old \o t.hex ELSE t.hex

(* A new variable: arrays of Go are zeroed. *)
Empty(p) ==
  [f \in Fields |-> IF p = "go" /\ f \notin Vectors
                    THEN [k \in 1..Size(f) |-> 0] ELSE <<>>]

Serialized(proof) ==
  proof["version"] \o proof["vin"] \o proof["vout"] \o proof["locktime"]

(* The parser that Python's dict_to_spv_proof calls. *)
IsTx(b) ==
  \E k \in NumberSize..Len(b) - NumberSize :
    /\ IsVin(SubSeq(b, NumberSize + 1, k))
    /\ IsVout(SubSeq(b, k + 1, Len(b) - NumberSize))

(* The whole document has been read. *)
Completes(p, proof) ==
  /\ p = "rust" => \A f \in Fields : doc[f].form # "absent"
  /\ p = "py" => IsTx(Serialized(proof))

(***************************************************************************)
(* Validating.  The checks come in the same order in every port; the       *)
(* outcome is the first that fails.                                        *)
(***************************************************************************)
Bytes(b, from, len) == SubSeq(b, from + 1, Min({from + len, Len(b)}))

(* Faulty: the root is not compared. *)
HeaderChecksNoRoot(proof) ==
  << <<"WrongDigest", Hash256(proof["raw"]) = proof["hash"]>>,
     <<"WrongPrevHash",
       Bytes(proof["raw"], NumberSize, DigestSize) = proof["prevhash"]>> >>

HeaderChecks(proof) ==
  << <<"WrongDigest", Hash256(proof["raw"]) = proof["hash"]>>,
     <<"WrongMerkleRoot",
       Bytes(proof["raw"], NumberSize + DigestSize, DigestSize)
         = proof["merkle_root"]>>,
     <<"WrongPrevHash",
       Bytes(proof["raw"], NumberSize, DigestSize) = proof["prevhash"]>> >>

(* Faulty: the id is taken on trust. *)
ProofChecksNoTxId(p, proof) ==
  << <<"InvalidVin", IsVin(proof["vin"])>>,
     <<"InvalidVout", IsVout(proof["vout"])>> >>
  \o HeaderChecks(proof) \o
  << <<"BadMerkleProof",
       Prove(p, proof["tx_id"], proof["merkle_root"],
             proof["intermediate_nodes"], index)>> >>

ProofChecks(p, proof) ==
  << <<"InvalidVin", IsVin(proof["vin"])>>,
     <<"InvalidVout", IsVout(proof["vout"])>>,
     <<"WrongTxID", Hash256(Serialized(proof)) = proof["tx_id"]>> >>
  \o HeaderChecks(proof) \o
  << <<"BadMerkleProof",
       Prove(p, proof["tx_id"], proof["merkle_root"],
             proof["intermediate_nodes"], index)>> >>

Failing(checks) == {k \in DOMAIN checks : ~checks[k][2]}
FirstFailure(checks) ==
  IF Failing(checks) = {} THEN "valid" ELSE checks[Min(Failing(checks))][1]

(* An empty vector is read beyond its end before anything is decided, and  *)
(* Rust copies version and locktime into arrays of four bytes.             *)
GoPanics(proof) ==
  \/ proof["vin"] = <<>>
  \/ IsVin(proof["vin"]) /\ proof["vout"] = <<>>

RustPanics(proof) ==
  \/ GoPanics(proof)
  \/ /\ IsVin(proof["vin"]) /\ IsVout(proof["vout"])
     /\ \E f \in {"version", "locktime"} : Len(proof[f]) # NumberSize

Panics(p, proof) ==
  \/ p \in {"go", "py"} /\ GoPanics(proof)
  \/ p = "rust" /\ RustPanics(proof)

(***************************************************************************)
(* The steps.                                                              *)
(***************************************************************************)
Init ==
  /\ \E o \in Originals : original = o.proof /\ index = o.index
  /\ \E w \in Writers : doc = Document(w, original) /\ order = Order(w)
  /\ edited = FALSE /\ reused = FALSE /\ hops = 1
  /\ port \in Ports
  /\ mem = Empty(port) /\ kept = Empty("go")
  /\ outcome = "sent"

(* Someone changes one field of a document under way. *)
Edit(f, t) ==
  /\ outcome = "sent" /\ ~edited /\ t \in Text
  /\ doc' = [doc EXCEPT ![f] = t]
  /\ edited' = TRUE
  /\ UNCHANGED <<original, index, order, hops, port, mem, kept, reused,
                 outcome>>

(* The reader decodes field by field, in the document's order, and stops   *)
(* at the first it cannot take; what came before stays in the variable.    *)
Read(before) ==
  /\ outcome = "sent"
  /\ LET stop ==
           {k \in DOMAIN order : Reads(port, order[k], doc[order[k]]) # "ok"}
         upTo == IF stop = {} THEN Len(order) ELSE Min(stop) - 1
         read == {order[k] : k \in 1..upTo}
         taken == [f \in Fields |->
                     IF f \in read THEN Stored(port, f, doc[f], before[f])
                                   ELSE before[f]]
     IN /\ mem' = taken
        /\ outcome' = CASE stop # {} ->
                             Reads(port, order[upTo + 1], doc[order[upTo + 1]])
                        [] stop = {} /\ Completes(port, taken) -> "read"
                        [] OTHER -> "refused"
  /\ kept' = IF port = "go" THEN mem' ELSE kept
  /\ reused' = (reused \/ before # Empty(port))
  /\ UNCHANGED <<original, index, doc, order, edited, hops, port>>

ReadNew == Read(Empty(port))
ReadAgain == port = "go" /\ kept # Empty("go") /\ Read(kept)

Validate ==
  /\ outcome = "read"
  /\ outcome' = IF Panics(port, mem) THEN "panic"
                                     ELSE FirstFailure(ProofChecks(port, mem))
  /\ UNCHANGED <<original, index, doc, order, edited, hops, port, mem, kept,
                 reused>>

Send(w, proof) ==
  /\ hops < MaxHops
  /\ hops' = hops + 1
  /\ doc' = Document(w, proof) /\ order' = Order(w)
  /\ port' \in Ports
  /\ mem' = Empty(port')
  /\ outcome' = "sent"
  /\ UNCHANGED <<original, index, kept>>

(* A port that has read a proof writes it for the next one. *)
Forward ==
  /\ outcome \notin {"sent", "read", "refused", "panic"}
  /\ Send(port, mem)
  /\ UNCHANGED <<edited, reused>>

(* The client is run once more for the same transaction and writes the *)
(* original again, after a failure or not.                             *)
SendAgain ==
  /\ outcome \notin {"sent", "read"}
  /\ Send("client", original)
  /\ edited' = FALSE /\ reused' = FALSE

Done == outcome \notin {"sent", "read"} /\ hops = MaxHops /\ UNCHANGED vars

Next ==
  \/ \E f \in Fields : \E t \in Texts(doc[f]) : Edit(f, t)
  \/ ReadNew \/ ReadAgain
  \/ Validate
  \/ Forward
  \/ SendAgain
  \/ Done

Spec == Init /\ [][Next]_vars

(***************************************************************************)
(* Properties.                                                             *)
(***************************************************************************)
(* What a document says to its reader: a field that is missing is empty,   *)
(* or in an array of Go all zeros.                                         *)
Meaning ==
  [f \in Fields |-> IF doc[f].form = "absent" THEN Empty(port)[f]
                                              ELSE doc[f].hex]

(* A field is the part of a header behind its first bytes, as far as the   *)
(* header reaches.                                                         *)
Holds(raw, first, field) ==
  /\ Len(field) <= DigestSize
  /\ \A k \in 1..DigestSize :
       /\ k <= Len(field) <=> first + k <= Len(raw)
       /\ k <= Len(field) => field[k] = raw[first + k]

Whole(proof) ==
  /\ IsVin(proof["vin"]) /\ IsVout(proof["vout"])
  /\ Hash256(Serialized(proof)) = proof["tx_id"]
  /\ Hash256(proof["raw"]) = proof["hash"]
  /\ Holds(proof["raw"], NumberSize, proof["prevhash"])
  /\ Holds(proof["raw"], NumberSize + DigestSize, proof["merkle_root"])
  /\ Prove(port, proof["tx_id"], proof["merkle_root"],
           proof["intermediate_nodes"], index)

(* Where the ports part company over a document: sizes, fields that are    *)
(* missing, and texts too short to hold a prefix.  Python parses the       *)
(* transaction before it looks at its parts.                               *)
Tolerated ==
  /\ \A f \in Fields :
       doc[f].form \notin (IF port = "js" THEN {"bad"} ELSE NotHex)
  /\ port # "py" => Len(Meaning["raw"]) = HeaderSize
  /\ port \in {"py", "rust"} => \A f \in Fields : doc[f].form # "absent"
  /\ port = "py" => IsTx(Serialized(Meaning))
  /\ port = "rust" =>
       /\ \A f \in {"version", "locktime"} : Len(Meaning[f]) = NumberSize
       /\ ~(/\ doc["intermediate_nodes"].form = "bare"
            /\ doc["intermediate_nodes"].hex = <<>>)

Judged == outcome \notin {"sent", "read"}

(* A document read into a new variable is found valid exactly if the proof *)
(* it describes is whole: the reading and the validation of every port,    *)
(* one after the other, miss nothing and refuse nothing, apart from what   *)
(* Tolerated says of each port.                                            *)
VerdictExact ==
  Judged /\ ~reused => ((outcome = "valid") <=> (Whole(Meaning) /\ Tolerated))

(* Through however many ports a proof passes, it arrives as it was sent,   *)
(* unless somebody changed it or Go decoded it on top of another.          *)
ArrivesAsSent ==
  outcome \notin {"sent", "refused", "panic"} /\ ~edited /\ ~reused =>
    mem = original

(* Decoding into a used variable of Go makes no valid proof of an original *)
(* that was sent unchanged but that original, also after an attempt that   *)
(* stopped half way; in the edits of Texts.                                *)
ReuseIsSafe == outcome = "valid" /\ ~edited => mem = original

(* The ports panic, or raise outside of any handler, only on an empty vin  *)
(* or vout and, in Rust, on a text of less than two characters and on a    *)
(* version or locktime of another size.                                    *)
PanicsKnown ==
  outcome = "panic" =>
    \/ /\ port \in {"go", "py", "rust"}
       /\ \E f \in {"vin", "vout"} : mem[f] = <<>>
    \/ /\ port = "rust"
       /\ \/ \E f \in Fields : doc[f].form = "bare" /\ doc[f].hex = <<>>
          \/ \E f \in {"version", "locktime"} : Len(mem[f]) # NumberSize
=============================================================================
