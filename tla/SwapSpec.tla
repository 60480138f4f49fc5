------------------------------ MODULE SwapSpec ------------------------------
(***************************************************************************)
(* What the script of a CKB cell for sale promises: the cell is released   *)
(* for a Bitcoin transaction that is proven to be in a chain with the work *)
(* asked for, spends the listing's outpoint, and names the owner of the    *)
(* first CKB output, which receives the amount.                            *)
(*                                                                         *)
(* The witness is read by its format: it is the concatenation of its       *)
(* fields in some way, or in none.  The edge is left open: without headers *)
(* nothing is promised to who asks for no work, a transaction that names   *)
(* nobody may have any outcome, and a witness of no format may crash the   *)
(* script, which releases nothing either.                                  *)
(***************************************************************************)
EXTENDS Integers, Sequences

CONSTANTS
  HeaderSize, NodeSize, NumberSize, OutpointSize,
  IsVin(_), IsVout(_),   \* the vectors of inputs and of outputs
  Payee(_),              \* whom a vector of outputs names, or <<>>
  Includes(_, _, _, _),  \* of a header, a transaction, nodes and an index
  WorkOf(_)              \* the work of headers, or -1 for no valid chain

VARIABLES
  words,    \* the bytes of the witness
  loads,    \* whether every load succeeds and fits its buffer
  wanted,   \* the listing: work, outpoint, amount
  paid,     \* the first CKB output: owner, capacity
  verdict   \* "pending", "released", "refused" or "crashed"

specVars == <<words, loads, wanted, paid, verdict>>

Part(from, len) == SubSeq(words, from + 1, from + len)

(* Where the fields behind the headers begin, and those behind the nodes.  *)
AfterHeaders == 1 + HeaderSize * words[1]
AfterNodes == AfterHeaders + 1 + NodeSize * words[AfterHeaders + 1]
VinAt == AfterNodes + 2 * NumberSize
LocktimeAt == Len(words) - NumberSize

Headers == Part(1, HeaderSize * words[1])
Nodes == Part(AfterHeaders + 1, NodeSize * words[AfterHeaders + 1])
Index == Part(AfterNodes, NumberSize)

(* The transaction whose vector of inputs has v bytes. *)
Transaction(v) ==
  [version |-> Part(AfterNodes + NumberSize, NumberSize),
   vin |-> Part(VinAt, v),
   vout |-> Part(VinAt + v, LocktimeAt - VinAt - v),
   locktime |-> Part(LocktimeAt, NumberSize)]

HasFields ==
  words # <<>> /\ AfterHeaders < Len(words) /\ VinAt <= LocktimeAt

Transactions ==
  IF ~HasFields THEN {}
  ELSE {t \in {Transaction(v) : v \in 0..LocktimeAt - VinAt} :
          IsVin(t.vin) /\ IsVout(t.vout)}

Proven(t) ==
  /\ Headers # <<>>
  /\ Includes(Part(1, HeaderSize), t, Nodes, Index)
  /\ WorkOf(Headers) >= wanted.work

NothingAsked == Headers = <<>> /\ wanted.work = 0

Bought(t) ==
  /\ SubSeq(t.vin, 2, 1 + OutpointSize) = wanted.outpoint
  /\ paid.capacity >= wanted.amount

MayRelease ==
  loads /\ \E t \in Transactions :
    /\ Proven(t) \/ NothingAsked
    /\ Bought(t)
    /\ Payee(t.vout) \in {<<>>, paid.owner}

MustRelease ==
  loads /\ \E t \in Transactions :
    Proven(t) /\ Bought(t) /\ Payee(t.vout) = paid.owner

MayCrash ==
  Transactions = {} \/ \E t \in Transactions : Payee(t.vout) = <<>>

Answer(v) ==
  /\ verdict = "pending" /\ verdict' = v
  /\ UNCHANGED <<words, loads, wanted, paid>>

Release == Answer("released") /\ MayRelease
Refuse == Answer("refused") /\ ~MustRelease
Crash == Answer("crashed") /\ MayCrash

SpecNext == Release \/ Refuse \/ Crash

(* The inputs are whatever the transaction holds; the script answers. *)
Safety == verdict = "pending" /\ [][SpecNext]_specVars

Spec == Safety /\ <>(verdict # "pending")
=============================================================================
