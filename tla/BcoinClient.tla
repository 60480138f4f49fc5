---------------------------- MODULE BcoinClient ----------------------------
(***************************************************************************)
(* The calls of BcoinClient.js and of the command line in front of it: an  *)
(* SPV proof put together out of five requests, and a chain of headers     *)
(* fetched one height at a time, each from a node whose best chain may     *)
(* change between any two requests; then validateProof on the proof.       *)
(*                                                                         *)
(* What the two programs compute from one block is in MerkleProof: the     *)
(* branch of a transaction leads to the root of the block it is taken      *)
(* from.  Here a branch is the block it comes from, and a header is the    *)
(* block whose 80 bytes it holds.                                          *)
(***************************************************************************)
EXTENDS BcoinNode, ParseTx

CONSTANTS
  Wanted,    \* the transactions proofs are asked for
  Root,      \* Root[b]: the Merkle root in the header of b
  Heights,   \* the --height arguments; 0 means none is given
  Counts     \* the [count] arguments

(* Equal roots are roots of the same transactions: no collisions. *)
ASSUME FetchAssumption ==
  /\ Root \in [Blocks -> Int]
  /\ \A a, b \in Blocks : Root[a] = Root[b] => Txs[a] = Txs[b]
  /\ Wanted \subseteq DOMAIN Tx
  /\ Heights \subseteq Nat /\ Counts \subseteq Nat

VARIABLES
  pc,       \* the await the client is at, or how the call ended
  call,     \* the function and its arguments
  height,   \* tx.height, or the first height of the chain of headers
  hash,     \* json.hash of the header being fetched
  headers,  \* what getHeader gave: blocks, or None for null
  branch,   \* intermediate_nodes and index: the block they were made from
  valid,    \* what validateProof says of the proof
  seen      \* history: reorg when the call began

clientVars == <<pc, call, height, hash, headers, branch, valid, seen>>
vars == <<nodeVars, clientVars>>

ProofCall(t) == [op |-> "getProof", txid |-> t, enc |-> "btcspv", count |-> 1]
HeadersCall(enc, count) ==
  [op |-> "getHeaders", txid |-> 0, enc |-> enc, count |-> count]

ProofCalls == {ProofCall(t) : t \in Wanted}
HeadersCalls ==
  {HeadersCall(enc, count) : enc \in {"btcspv", "json", "hex"}, count \in Counts}
IsProof == call.op = "getProof"

Init ==
  /\ NodeInit
  /\ pc = "idle"
  /\ \/ call \in ProofCalls /\ height = 0
     \/ call \in HeadersCalls /\ height \in Heights
  /\ hash = None /\ headers = <<>> /\ branch = None
  /\ valid = FALSE /\ seen = 0

End(how) ==
  /\ pc' = how
  /\ UNCHANGED <<call, height, hash, headers, branch, valid, seen>>

(***************************************************************************)
(* getProof, getHeaders.                                                   *)
(***************************************************************************)
(* --height 0 counts as no height: the height of the tip is asked for. *)
Call ==
  /\ pc = "idle"
  /\ pc' = IF IsProof THEN "getTX"
           ELSE IF height = 0 THEN "getInfo" ELSE "getHeader"
  /\ seen' = reorg
  /\ UNCHANGED <<call, height, hash, headers, branch, valid>>

(* Faulty: an unconfirmed transaction is not refused. *)
GetTXUnconfirmed ==
  /\ pc = "getTX"
  /\ height' = HeightOf(call.txid)
  /\ pc' = "getBlockHeader"
  /\ UNCHANGED <<call, hash, headers, branch, valid, seen>>

(* An unknown transaction and an unconfirmed one both end the call. *)
GetTX ==
  /\ pc = "getTX"
  /\ IF HeightOf(call.txid) < 0 THEN End("failed")
     ELSE /\ height' = HeightOf(call.txid)
          /\ pc' = "getBlockHeader"
          /\ UNCHANGED <<call, hash, headers, branch, valid, seen>>

(* The answer is looked at once and then dropped. *)
GetBlockHeader ==
  /\ pc = "getBlockHeader"
  /\ End(IF BlockAt(height) = None THEN "failed" ELSE "getHeader")

GetInfo ==
  /\ pc = "getInfo"
  /\ height' = Tip
  /\ pc' = "getHeader"
  /\ UNCHANGED <<call, hash, headers, branch, valid, seen>>

(***************************************************************************)
(* getHeader, once for a proof, and the loop of getHeaderChainByCount.     *)
(***************************************************************************)
(* Faulty: one header too many. *)
MissingOneMore == Len(headers) <= call.count

Missing == Len(headers) < call.count

(* Faulty: the height asked for is that of the header before. *)
NextHeightBehind == height + Len(headers) - 1

NextHeight == height + Len(headers)

(* Faulty: the headers before are lost. *)
PushAlone(header) ==
  /\ headers' = <<header>>
  /\ pc' = IF IsProof THEN "getblockbyheight" ELSE "getHeader"
  /\ UNCHANGED <<call, height, hash, branch, valid, seen>>

Push(header) ==
  /\ headers' = Append(headers, header)
  /\ pc' = IF IsProof THEN "getblockbyheight" ELSE "getHeader"
  /\ UNCHANGED <<call, height, hash, branch, valid, seen>>

(* Faulty: a header that is not there is null in every encoding. *)
NoHeaderNull == Push(None)

(* getHeader returns null, which getProof does not look at; the loop throws *)
(* "Cannot find header" in the other encodings.                             *)
NoHeader == IF call.enc = "btcspv" THEN Push(None) ELSE End("failed")

GetHeader ==
  /\ pc = "getHeader" /\ Missing
  /\ \/ BlockAt(NextHeight) = None /\ NoHeader
     \/ /\ BlockAt(NextHeight) # None /\ call.enc = "json"
        /\ Push(BlockAt(NextHeight))
     \/ /\ BlockAt(NextHeight) # None /\ call.enc # "json"
        /\ hash' = BlockAt(NextHeight)
        /\ pc' = "getblockheader"
        /\ UNCHANGED <<call, height, headers, branch, valid, seen>>

(* By hash the node finds a block also when it left the best chain. *)
GetRawHeader == pc = "getblockheader" /\ Push(hash)

ReturnHeaders == pc = "getHeader" /\ ~Missing /\ End("listed")

(***************************************************************************)
(* getMerkleProof asks for the block by height, and looks the transaction  *)
(* up in it.                                                               *)
(***************************************************************************)
GetMerkleProof ==
  /\ pc = "getblockbyheight"
  /\ IF BlockAt(height) = None \/ call.txid \notin Txs[BlockAt(height)]
     THEN End("failed")
     ELSE /\ branch' = BlockAt(height)
          /\ pc' = "returned"
          /\ UNCHANGED <<call, height, hash, headers, valid, seen>>

(* Any request may fail on its way. *)
RequestFails ==
  /\ \/ pc \in {"getTX", "getBlockHeader", "getblockheader",
                "getblockbyheight", "getInfo"}
     \/ pc = "getHeader" /\ Missing
  /\ End("failed")

(***************************************************************************)
(* validateProof.  The header's fields all come from one block, so         *)
(* validateHeader fails only when there is none.                           *)
(***************************************************************************)
(* What parseTxHex makes of the answer to getTX. *)
txinfo == [t \in Wanted |-> parseTxHex(Raw(t))]
PartsAreValid == [t \in Wanted |-> ValidParts(t, txinfo[t])]

(* Faulty: the branch is not led to the header's root. *)
ValidProofNoBranch == headers[1] # None /\ PartsAreValid[call.txid]

ValidProof ==
  /\ headers[1] # None /\ PartsAreValid[call.txid]
  /\ Root[branch] = Root[headers[1]]

Validate ==
  /\ pc = "returned"
  /\ valid' = ValidProof
  /\ pc' = "validated"
  /\ UNCHANGED <<call, height, hash, headers, branch, seen>>

Client ==
  \/ Call \/ GetTX \/ GetBlockHeader \/ GetInfo \/ GetHeader \/ GetRawHeader
  \/ ReturnHeaders \/ GetMerkleProof \/ RequestFails \/ Validate

Next ==
  \/ Client /\ UNCHANGED nodeVars
  \/ NodeStep /\ UNCHANGED clientVars

(* The node answers or the request fails, but nothing obliges a chain to   *)
(* change.                                                                 *)
Spec == Init /\ [][Next]_vars /\ WF_vars(Client /\ UNCHANGED nodeVars)

(***************************************************************************)
(* Properties.                                                             *)
(***************************************************************************)
Awaits ==
  {"getTX", "getBlockHeader", "getInfo", "getHeader", "getblockheader",
   "getblockbyheight"}
Ended == {"listed", "validated", "failed"}

(* The variables have their types; in particular heights are none below the *)
(* genesis block, and no more headers are fetched than were asked for.      *)
TypeOK ==
  /\ NodeTypeOK
  /\ pc \in {"idle", "returned"} \cup Awaits \cup Ended
  /\ call \in ProofCalls \cup HeadersCalls
  /\ height \in Nat
  /\ hash \in Blocks \cup {None} /\ branch \in Blocks \cup {None}
  /\ headers \in Seq(Blocks \cup {None}) /\ Len(headers) <= call.count
  /\ valid \in BOOLEAN
  /\ seen \in 0..reorg

(* A proof that validateProof accepts shows what it is for, whatever the    *)
(* chain did while it was fetched: the header it names is that of a block   *)
(* that holds the transaction.                                              *)
ValidatedIsConfirmed ==
  pc = "validated" /\ valid =>
    headers[1] \in Blocks /\ call.txid \in Txs[headers[1]]

(* And it holds the inputs and outputs of that transaction: where the cut   *)
(* went wrong, the validation of the parts notices.                         *)
ValidatedIsWhole ==
  pc = "validated" /\ valid =>
    /\ txinfo[call.txid].vin = Vector(Tx[call.txid].ins)
    /\ txinfo[call.txid].vout = Vector(Tx[call.txid].outs)

(* While no block is disconnected, blocks that arrive during the call do no *)
(* harm: the headers are those of the best chain from that height on, as    *)
(* far as there were any, and a branch is one of the same block.            *)
UndisturbedIsChain ==
  pc # "idle" /\ seen = reorg =>
    /\ \A k \in DOMAIN headers : headers[k] \in {None, BlockAt(height + k - 1)}
    /\ branch \in {None, BlockAt(height)}

(* So a proof fetched without one validates, if no count and no length in   *)
(* its transaction takes more than a byte.                                  *)
UndisturbedIsValid ==
  pc = "validated" /\ seen = reorg /\ Narrow(call.txid) => valid

(* Only in the btcspv encoding can there be a null among the headers, or    *)
(* too few of them.                                                         *)
OthersThrow ==
  pc = "listed" /\ call.enc # "btcspv" =>
    Len(headers) = call.count /\ \A k \in DOMAIN headers : headers[k] # None

(* Whatever the node's chain does, every call returns or throws.            *)
EveryCallEnds == <>(pc \in Ended)
=============================================================================
