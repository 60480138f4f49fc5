------------------------------ MODULE BcoinNode ------------------------------
(***************************************************************************)
(* The bcoin node, as the client's requests see it: a best chain that      *)
(* grows and reorganises between two requests, an index of the confirmed   *)
(* transactions, and every block it ever stored.  The node is not part of  *)
(* the repository; it is modelled from the requests the client makes.      *)
(***************************************************************************)
EXTENDS Integers, Sequences

CONSTANTS
  Blocks,     \* the blocks there are, in a tree
  Genesis,    \* its root
  Parent,     \* Parent[b]: the block b names as its predecessor
  Txs,        \* Txs[b]: the transactions of b
  MaxReorg    \* how often a block is disconnected, at most

(* What is not there. *)
None == "none"

ASSUME NodeAssumption ==
  /\ None \notin Blocks
  /\ Genesis \in Blocks
  /\ Parent \in [Blocks \ {Genesis} -> Blocks]
  /\ MaxReorg \in Nat

VARIABLES
  best,      \* the best chain, best[h + 1] at height h
  reorg      \* how many blocks have been disconnected

nodeVars == <<best, reorg>>

Tip == Len(best) - 1

(* GET /header/:height, and the getblockbyheight call. *)
BlockAt(h) == IF h \in 0..Tip THEN best[h + 1] ELSE None

(* GET /tx/:hash: where the index has it, or -1 for an unconfirmed one. *)
HeightOf(tx) ==
  IF \E h \in 0..Tip : tx \in Txs[best[h + 1]]
  THEN CHOOSE h \in 0..Tip : tx \in Txs[best[h + 1]]
  ELSE -1

NodeInit == best = <<Genesis>> /\ reorg = 0

Connect ==
  /\ \E b \in Blocks \ {Genesis} :
       Parent[b] = best[Len(best)] /\ best' = Append(best, b)
  /\ UNCHANGED reorg

Disconnect ==
  /\ Len(best) > 1 /\ reorg < MaxReorg
  /\ best' = SubSeq(best, 1, Tip)
  /\ reorg' = reorg + 1

NodeStep == Connect \/ Disconnect

(* The best chain is a path of the tree from the genesis block. *)
NodeTypeOK ==
  /\ best \in Seq(Blocks) /\ best # <<>>
  /\ best[1] = Genesis
  /\ \A k \in 2..Len(best) : Parent[best[k]] = best[k - 1]
  /\ reorg \in 0..MaxReorg

=============================================================================
