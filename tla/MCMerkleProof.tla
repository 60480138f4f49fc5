---------------------------- MODULE MCMerkleProof ----------------------------
(***************************************************************************)
(* Blocks of one to five transactions, and proofs altered in any of their  *)
(* parts.  A leaf is <<n>> and the digest of a and b is <<a, b>>, so no    *)
(* two pairs collide; the pairs that no tree of these blocks holds can     *)
(* never lead to a root, and are one digest.                               *)
(***************************************************************************)
EXTENDS MerkleProof, SequencesExt

CONSTANTS
  Sizes,     \* how many transactions the blocks have
  Indices    \* the indices of altered proofs

Leaf(n) == <<n>>
Stranger == Leaf(0)

MCBlocks == {[k \in 1..n |-> Leaf(k)] : n \in Sizes}

RECURSIVE DigestsAbove(_)
DigestsAbove(level) ==
  Range(level) \cup
    IF Len(level) = 1 THEN {}
    ELSE DigestsAbove([m \in 1..Half(Len(level)) |->
                         <<level[2 * m - 1], level[Lesser(2 * m, Len(level))]>>])

TreeDigests == UNION {DigestsAbove(b) : b \in MCBlocks}
MCDigest == TreeDigests \cup {Stranger}

MCHash256(a, b) == IF <<a, b>> \in TreeDigests THEN <<a, b>> ELSE Stranger

(* The digests of the trees, at least, are each of one pair, or a leaf.     *)
ASSUME InstanceCollisionFree ==
  \A a, b \in MCDigest :
    MCHash256(a, b) # Stranger =>
      /\ MCHash256(a, b) \notin UNION {Range(t) : t \in MCBlocks}
      /\ \A c, d \in MCDigest :
           MCHash256(c, d) = MCHash256(a, b) => c = a /\ d = b

(* Every part of the prover's proof p replaced or left: any digest of the  *)
(* tree for the transaction, a stretch of the nodes or one node more, some *)
(* other index, bytes left over.                                           *)
MCOthers(p, digests) ==
  [txid : digests \cup {Stranger},
   nodes : {SubSeq(p.nodes, a, b) : a \in 1..2, b \in 0..Len(p.nodes)}
             \cup {Append(p.nodes, d) : d \in digests \cup {Stranger}},
   index : Indices \cup {p.index, p.index \div 2},
   root : {p.root},
   ragged : BOOLEAN]

(* validatespv.rs says prove "Evaluates a Bitcoin merkle inclusion proof":  *)
(* what the Rust crate accepts should hash to the root, whatever the number *)
(* of nodes.                                                                *)
RustEvaluates ==
  phase = "accepted" /\ impl = "rust" => Folded(proof) = proof.root

=============================================================================
