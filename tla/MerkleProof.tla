----------------------------- MODULE MerkleProof -----------------------------
(***************************************************************************)
(* A Merkle inclusion proof from a block's transactions to the verdict.    *)
(*                                                                         *)
(* The prover is the JavaScript client: createTree hashes the transaction  *)
(* ids level by level into one array, createBranch walks that array from   *)
(* the leaf to the root and collects siblings.  The verifier is prove and  *)
(* the loop it calls, in one of the six ports.  What reaches the verifier  *)
(* is what the prover made, or some other proof against the same root.     *)
(*                                                                         *)
(* Each step of the prover is one level, each step of the verifier one     *)
(* node.  The hash is any function of two digests.                         *)
(***************************************************************************)
EXTENDS Integers, Sequences

CONSTANTS
  Impls,          \* the verifiers considered
  Digest,         \* the digests
  Hash256(_, _),  \* double SHA-256 of two concatenated digests
  Blocks,         \* the transaction id vectors of the blocks considered
  SignBit,        \* the sign bit of a 32-bit integer (2^31)
  Others(_, _)    \* Others(p, ds): proofs the prover did not make, from its
                  \* proof p and the digests ds of the tree

Proofs ==
  [txid : Digest, nodes : Seq(Digest), index : 0..2 * SignBit - 1,
   root : Digest, ragged : BOOLEAN]

ASSUME ImplAssumption == Impls \subseteq {"c", "go", "js", "py", "rust", "sol"}

ASSUME SignBitAssumption == SignBit \in Nat \ {0}

ASSUME HashAssumption == \A a, b \in Digest : Hash256(a, b) \in Digest

ASSUME BlockAssumption ==
  \A b \in Blocks : b \in Seq(Digest) /\ Len(b) \in 1..SignBit

VARIABLES
  phase,    \* "tree", "branch", "sent", "loop", "accepted" or "rejected"
  impl,     \* which verifier runs
  txs,      \* the transaction ids of the block, in block order
  txIndex,  \* the position of the transaction to prove
  nodes,    \* all levels of the tree, from the leaves up, in one array
  start,    \* where the current level begins in nodes
  size,     \* how many nodes the current level has
  index,    \* the prover's index, shifted once per level
  branch,   \* siblings collected so far
  starts,   \* history: start of every level of the tree
  sizes,    \* history: size of every level
  path,     \* history: the value of index at every level
  proof,    \* what the verifier is given
  current,  \* the verifier's running digest
  idx,      \* the verifier's index, shifted once per node
  step      \* nodes consumed

blockVars == <<impl, txs, txIndex>>
treeVars == <<nodes, starts, sizes>>
cursorVars == <<start, size>>
branchVars == <<index, branch, path>>
loopVars == <<current, idx, step>>

vars == <<phase, blockVars, treeVars, cursorVars, branchVars, proof, loopVars>>

(***************************************************************************)
(* The prover.                                                             *)
(***************************************************************************)
Lesser(a, b) == IF a <= b THEN a ELSE b

Half(n) == (n + 1) \div 2

(* The last node of a level of odd size is paired with itself. *)
PairDigest(m) ==
  Hash256(nodes[start + 2 * m], nodes[start + Lesser(2 * m + 1, size - 1)])

(* One iteration of the while loop of createTree. *)
HashLevel ==
  /\ phase = "tree" /\ size > 1
  /\ nodes' = [k \in 0..start + size + Half(size) - 1 |->
                 IF k < start + size THEN nodes[k]
                                     ELSE PairDigest(k - (start + size))]
  /\ start' = start + size
  /\ size' = Half(size)
  /\ starts' = Append(starts, start') /\ sizes' = Append(sizes, size')
  /\ UNCHANGED <<phase, blockVars, branchVars, proof, loopVars>>

(* createBranch goes back to the leaves of the finished tree. *)
TreeDone ==
  /\ phase = "tree" /\ size = 1
  /\ phase' = "branch"
  /\ start' = 0 /\ size' = Len(txs)
  /\ UNCHANGED <<blockVars, treeVars, branchVars, proof, loopVars>>

(* Faulty: the sibling is always the node to the right. *)
RightNeighbour(n) == n + 1

(* index ^ 1 *)
FlipLowBit(n) == IF n % 2 = 0 THEN n + 1 ELSE n - 1

Sibling == nodes[start + Lesser(FlipLowBit(index), size - 1)]

(* Faulty: the index is not shifted with the level. *)
PushSiblingNoShift ==
  /\ phase = "branch" /\ size > 1
  /\ branch' = Append(branch, Sibling)
  /\ index' = index
  /\ path' = Append(path, index')
  /\ start' = start + size
  /\ size' = Half(size)
  /\ UNCHANGED <<phase, blockVars, treeVars, proof, loopVars>>

PushSibling ==
  /\ phase = "branch" /\ size > 1
  /\ branch' = Append(branch, Sibling)
  /\ index' = index \div 2
  /\ path' = Append(path, index')
  /\ start' = start + size
  /\ size' = Half(size)
  /\ UNCHANGED <<phase, blockVars, treeVars, proof, loopVars>>

(* The root is the last node pushed; a verifier has it from the header.     *)
HonestProof ==
  [txid |-> txs[txIndex + 1], nodes |-> branch, index |-> txIndex,
   root |-> nodes[start + size - 1], ragged |-> FALSE]

Submit ==
  /\ phase = "branch" /\ size = 1
  /\ phase' = "sent"
  /\ \/ proof' = HonestProof
     \/ \E p \in Others(HonestProof, {nodes[k] : k \in DOMAIN nodes}) :
          p \in Proofs /\ p.root = HonestProof.root /\ proof' = p
  /\ UNCHANGED <<blockVars, treeVars, cursorVars, branchVars, loopVars>>

(***************************************************************************)
(* The verifier.                                                           *)
(***************************************************************************)

(* The shortcut at the head of prove. *)
CoinbaseOnly ==
  proof.txid = proof.root /\ proof.index = 0 /\ proof.nodes = <<>>

(* The ports that append txid, nodes and root into one byte string refuse  *)
(* one of 64 bytes; the two that take a typed array compare.               *)
NoNodes ==
  IF impl \in {"rust", "sol"} /\ proof.txid = proof.root
  THEN "accepted" ELSE "rejected"

(* Faulty: the refusal of a proof of no node is gone. *)
EntryVerdictNo64 ==
  CASE proof.ragged                            -> "rejected"
    [] ~proof.ragged /\ proof.nodes = <<>>     -> "accepted"
    [] OTHER                                   -> "loop"

(* What is decided before the loop.  Rust alone has a case for one node.   *)
EntryVerdict ==
  CASE proof.ragged                            -> "rejected"
    [] ~proof.ragged /\ CoinbaseOnly           -> "accepted"
    [] ~proof.ragged /\ proof.nodes = <<>> /\ ~CoinbaseOnly -> NoNodes
    [] ~proof.ragged /\ impl = "rust" /\ Len(proof.nodes) = 1 -> "accepted"
    [] OTHER                                   -> "loop"

Answer(verdict) ==
  /\ phase' = verdict
  /\ UNCHANGED <<blockVars, treeVars, cursorVars, branchVars, proof, loopVars>>

AnswerAtOnce ==
  /\ phase = "sent" /\ EntryVerdict # "loop"
  /\ Answer(EntryVerdict)

EnterLoop ==
  /\ phase = "sent" /\ EntryVerdict = "loop"
  /\ phase' = "loop"
  /\ current' = proof.txid /\ idx' = proof.index /\ step' = 0
  /\ UNCHANGED <<blockVars, treeVars, cursorVars, branchVars, proof>>

(* In JavaScript n % 2 of a negative odd n is -1, which is not 1. *)
IsRight(n) == n > 0 /\ n % 2 = 1

(* Faulty: the node always goes to the right. *)
FoldLeftOnly(node) == Hash256(current, node)

Fold(node) ==
  IF IsRight(idx) THEN Hash256(node, current) ELSE Hash256(current, node)

(* >>= of JavaScript works on a signed 32-bit integer. *)
Shifted(n) ==
  IF impl = "js" /\ n >= SignBit THEN (n - 2 * SignBit) \div 2 ELSE n \div 2

FoldNode ==
  /\ phase = "loop" /\ step < Len(proof.nodes)
  /\ current' = Fold(proof.nodes[step + 1])
  /\ idx' = Shifted(idx)
  /\ step' = step + 1
  /\ UNCHANGED <<phase, blockVars, treeVars, cursorVars, branchVars, proof>>

CompareRoot ==
  /\ phase = "loop" /\ step = Len(proof.nodes)
  /\ Answer(IF current = proof.root THEN "accepted" ELSE "rejected")

(***************************************************************************)
(* Both of them, one after the other.                                      *)
(***************************************************************************)
Init ==
  /\ phase = "tree"
  /\ impl \in Impls
  /\ txs \in Blocks
  /\ txIndex \in 0..Len(txs) - 1
  /\ nodes = [k \in 0..Len(txs) - 1 |-> txs[k + 1]]
  /\ start = 0 /\ size = Len(txs)
  /\ starts = <<0>> /\ sizes = <<Len(txs)>>
  /\ index = txIndex /\ branch = <<>> /\ path = <<txIndex>>
  /\ proof = [txid |-> txs[1], nodes |-> <<>>, index |-> 0,
              root |-> txs[1], ragged |-> FALSE]
  /\ current = txs[1] /\ idx = 0 /\ step = 0

Answered == phase \in {"accepted", "rejected"}

(* Both functions have returned. *)
Done == Answered /\ UNCHANGED vars

Next ==
  \/ HashLevel \/ TreeDone \/ PushSibling \/ Submit
  \/ AnswerAtOnce \/ EnterLoop \/ FoldNode \/ CompareRoot
  \/ Done

(* Neither side stops between two iterations of a loop. *)
Spec == Init /\ [][Next]_vars /\ WF_vars(Next)

(***************************************************************************)
(* Properties.                                                             *)
(***************************************************************************)
Phases == {"tree", "branch", "sent", "loop", "accepted", "rejected"}

TypeOK ==
  /\ phase \in Phases
  /\ impl \in Impls
  /\ txs \in Blocks /\ txIndex \in 0..Len(txs) - 1
  /\ start \in Nat /\ size \in Nat \ {0}
  /\ start + size - 1 \in DOMAIN nodes
  /\ \A k \in DOMAIN nodes : nodes[k] \in Digest
  /\ starts \in Seq(Nat) /\ sizes \in Seq(Nat \ {0})
  /\ branch \in Seq(Digest) /\ path \in Seq(Nat)
  /\ index \in Nat
  /\ phase # "tree" => index < size
  /\ proof \in Proofs
  /\ current \in Digest
  /\ idx \in Int
  /\ step \in 0..Len(proof.nodes)

(* The proof that createBranch makes for any transaction of any block is    *)
(* not refused by any port.  Two programs written apart have to agree on    *)
(* the side of each node, on the duplicate at the end of an odd level, and  *)
(* on what a block of one transaction looks like.                           *)
Complete == phase = "rejected" => proof # HonestProof

(* A proof whose index no port misreads and which no special case touches. *)
Ordinary ==
  /\ impl = "rust" => Len(proof.nodes) # 1
  /\ impl = "js" => proof.index < SignBit

(* What a proof says, node by node: the index it has left, and its          *)
(* transaction hashed with every node so far, the node on the left where    *)
(* the index is odd.                                                       *)
Positions(p) ==
  LET position[k \in 0..Len(p.nodes)] ==
        IF k = 0 THEN p.index ELSE position[k - 1] \div 2
  IN  position

Pair(p, k, d) ==
  IF Positions(p)[k - 1] % 2 = 1 THEN <<p.nodes[k], d>> ELSE <<d, p.nodes[k]>>

Digests(p) ==
  LET digest[k \in 0..Len(p.nodes)] ==
        IF k = 0 THEN p.txid
        ELSE LET pair == Pair(p, k, digest[k - 1])
             IN  Hash256(pair[1], pair[2])
  IN  digest

Folded(p) == Digests(p)[Len(p.nodes)]

(* The byte-string ports refuse a proof of no node with an index other     *)
(* than 0, the two others do not read its index.                           *)
Proves(p) ==
  /\ ~p.ragged
  /\ Folded(p) = p.root
  /\ p.nodes = <<>> /\ p.index # 0 => impl \in {"rust", "sol"}

(* Every port accepts exactly the proofs whose transaction hashes to the    *)
(* root, whatever route through its special cases the answer takes.         *)
VerdictExact == Answered /\ Ordinary => (phase = "accepted") = Proves(proof)

(* What an accepted proof shows: its transaction id is a digest of the      *)
(* tree, and one of the block's transactions if it has one node per level.  *)
(* ("`index` is not a reliable indicator of location within a block".)      *)
AcceptedMember ==
  phase = "accepted" /\ Ordinary =>
    /\ \E k \in DOMAIN nodes : nodes[k] = proof.txid
    /\ Len(proof.nodes) = Len(sizes) - 1 =>
         \E k \in DOMAIN txs : txs[k] = proof.txid

(* No digest the verifier computed is a transaction id of the block or,     *)
(* unless it is over the same pair, a node of its tree above them.         *)
NoCollision ==
  \A k \in 1..Len(proof.nodes) :
    /\ \A n \in DOMAIN txs : Digests(proof)[k] # txs[n]
    /\ \A l \in 1..Len(sizes) - 1 : \A m \in 0..Half(sizes[l]) - 1 :
         nodes[starts[l + 1] + m] = Digests(proof)[k] =>
           Pair(proof, k, Digests(proof)[k - 1]) =
             <<nodes[starts[l] + 2 * m],
               nodes[starts[l] + Lesser(2 * m + 1, sizes[l] - 1)]>>

=============================================================================
