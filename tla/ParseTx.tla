------------------------------ MODULE ParseTx ------------------------------
(***************************************************************************)
(* parseTxHex of BcoinClient.js, which cuts a transaction into the parts   *)
(* its id is computed from, and what validateProof makes of the parts.     *)
(*                                                                         *)
(* The cut steps over every compact integer as if it were one byte; the    *)
(* validation reads it as the format has it.                               *)
(***************************************************************************)
EXTENDS TxElement

CONSTANTS
  NumberSize,   \* bytes of a version, a locktime (4)
  Tx            \* the transactions, by their ids

Byte == 0..Base - 1

(* An input or an output. *)
Elements(kind) ==
  {e \in [before : Seq(Byte), script : Seq(Byte), after : Seq(Byte)] :
     Len(e.before) = Before[kind] /\ Len(e.after) = After[kind]}

(* A transaction of a block, with inputs and outputs, and marked as having *)
(* a witness or without one.                                               *)
Transaction ==
  {t \in [version : Seq(Byte), marked : BOOLEAN, ins : Seq(Elements("vin")),
          outs : Seq(Elements("vout")), witness : Seq(Byte),
          locktime : Seq(Byte)] :
     /\ Len(t.version) = NumberSize /\ Len(t.locktime) = NumberSize
     /\ t.ins # <<>> /\ t.outs # <<>>
     /\ t.marked \/ t.witness = <<>>}

ASSUME TxAssumption ==
  NumberSize \in Nat /\ \A t \in DOMAIN Tx : Tx[t] \in Transaction

(***************************************************************************)
(* The transaction as the node serialises it.                              *)
(***************************************************************************)
Counted(n) == IF n < Wide THEN <<n>> ELSE <<Wide, n % Base, n \div Base>>

Element(e) == e.before \o Counted(Len(e.script)) \o e.script \o e.after

(* The count, and the first k elements behind it. *)
Joined(es) ==
  LET joined[k \in 0..Len(es)] ==
        IF k = 0 THEN Counted(Len(es)) ELSE joined[k - 1] \o Element(es[k])
  IN joined

Vector(es) == Joined(es)[Len(es)]

Raw(t) ==
  Tx[t].version \o (IF Tx[t].marked THEN <<0, 1>> ELSE <<>>)
    \o Vector(Tx[t].ins) \o Vector(Tx[t].outs)
    \o Tx[t].witness \o Tx[t].locktime

(* The id is the digest of these bytes, and of no others. *)
Preimage(t) ==
  Tx[t].version \o Vector(Tx[t].ins) \o Vector(Tx[t].outs) \o Tx[t].locktime

(***************************************************************************)
(* parseTxHex.                                                             *)
(***************************************************************************)
(* subarray: what is not there is left out. *)
Bytes(raw, from, to) ==
  SubSeq(raw, from + 1, IF to < Len(raw) THEN to ELSE Len(raw))

(* determineVarIntDataLength(raw[offset]) || raw[offset] *)
Small(raw, o) ==
  IF o >= Len(raw) THEN 0 ELSE IF IsWide(raw, o) THEN DataLength ELSE raw[o + 1]

(* The offset after k rounds of the loop over the vector at o, and at the  *)
(* end of the loop.                                                        *)
AfterElements(kind, raw, o) ==
  LET after[k \in 0..Small(raw, o)] ==
        IF k = 0 THEN o + 1
        ELSE LET size == after[k - 1] + Before[kind]
             IN size + 1 + Small(raw, size) + After[kind]
  IN after

AfterVector(kind, raw, o) == AfterElements(kind, raw, o)[Small(raw, o)]

hasWitnessBytes(raw) == raw[NumberSize + 1] = 0 /\ raw[NumberSize + 2] # 0

(* Faulty: the marker and the flag are not stepped over. *)
parseTxHexMarked(raw) ==
  LET vin == NumberSize
      vout == AfterVector("vin", raw, vin)
  IN [version |-> Bytes(raw, 0, NumberSize),
      vin |-> Bytes(raw, vin, vout),
      vout |-> Bytes(raw, vout, AfterVector("vout", raw, vout)),
      locktime |-> Bytes(raw, Len(raw) - NumberSize, Len(raw))]

parseTxHex(raw) ==
  LET vin == NumberSize + IF hasWitnessBytes(raw) THEN 2 ELSE 0
      vout == AfterVector("vin", raw, vin)
  IN [version |-> Bytes(raw, 0, NumberSize),
      vin |-> Bytes(raw, vin, vout),
      vout |-> Bytes(raw, vout, AfterVector("vout", raw, vout)),
      locktime |-> Bytes(raw, Len(raw) - NumberSize, Len(raw))]

(***************************************************************************)
(* validateVin, validateVout, and the comparison of ids in validateProof.  *)
(***************************************************************************)
(* Where the element at each offset ends: behind the vector if it is not    *)
(* wholly there.                                                            *)
Ends(kind, b) ==
  [o \in 0..Len(b) + 1 |->
     IF \/ o >= Len(b)
        \/ ElementOutcome("js", kind, b, o) # "ok"
        \/ o + ElementLength("js", kind, b, o) > Len(b)
     THEN Len(b) + 1
     ELSE o + ElementLength("js", kind, b, o)]

(* Where the first k elements of the vector end. *)
Walk(kind, b) ==
  LET ends == Ends(kind, b)
      at[k \in 0..Number(b, 0)] ==
        IF k = 0 THEN SerializedLength("js", b, 0) ELSE ends[at[k - 1]]
  IN at

ValidVector(kind, b) ==
  /\ ParseOutcome("js", b, 0) = "ok" /\ Number(b, 0) > 0
  /\ Walk(kind, b)[Number(b, 0)] = Len(b)

(* Faulty: the inputs are not looked at. *)
ValidPartsNoVin(t, p) ==
  /\ ValidVector("vout", p.vout)
  /\ p.version \o p.vin \o p.vout \o p.locktime = Preimage(t)

ValidParts(t, p) ==
  /\ ValidVector("vin", p.vin) /\ ValidVector("vout", p.vout)
  /\ p.version \o p.vin \o p.vout \o p.locktime = Preimage(t)

(***************************************************************************)
(* What the properties ask.                                                *)
(***************************************************************************)
(* No count and no length of the transaction is a wide integer. *)
Narrow(t) ==
  /\ Len(Tx[t].ins) < Wide /\ Len(Tx[t].outs) < Wide
  /\ \A k \in DOMAIN Tx[t].ins : Len(Tx[t].ins[k].script) < Wide
  /\ \A k \in DOMAIN Tx[t].outs : Len(Tx[t].outs[k].script) < Wide
=============================================================================
