-------------------------- MODULE MerkleProofProofs --------------------------
(***************************************************************************)
(* No port refuses the proof the client makes: for every hash function,    *)
(* every block of any number of transactions and every one of them.        *)
(*                                                                         *)
(* The argument: the prover leaves behind, level by level, the position it *)
(* passed (path) and the sibling it took; the verifier's digest after k    *)
(* nodes is the node of level k + 1 at that position.                      *)
(***************************************************************************)
EXTENDS MerkleProof, WellFoundedInduction, TLAPS

(* Each level follows its predecessor in the array and is half as long. *)
Stacked ==
  /\ Len(sizes) >= 1 /\ Len(starts) = Len(sizes)
  /\ starts[1] = 0 /\ sizes[1] = Len(txs)
  /\ \A k \in 1..Len(sizes) - 1 :
       /\ sizes[k] > 1
       /\ starts[k + 1] = starts[k] + sizes[k]
       /\ sizes[k + 1] = Half(sizes[k])
  /\ DOMAIN nodes = 0..starts[Len(sizes)] + sizes[Len(sizes)] - 1
  /\ \A k \in 1..Len(sizes) :
       starts[k] + sizes[k] <= starts[Len(sizes)] + sizes[Len(sizes)]

(* The digest over pair m of the nodes of level k. *)
PairOf(k, m) ==
  Hash256(nodes[starts[k] + 2 * m],
          nodes[starts[k] + Lesser(2 * m + 1, sizes[k] - 1)])

(* Leaves are the transaction ids, other nodes the digests of their pairs. *)
Hashed ==
  /\ \A k \in 0..Len(txs) - 1 : nodes[k] = txs[k + 1]
  /\ \A k \in 1..Len(sizes) - 1 : \A m \in 0..Half(sizes[k]) - 1 :
       nodes[starts[k + 1] + m] = PairOf(k, m)

Cursor ==
  /\ phase = "tree" =>
       /\ start = starts[Len(sizes)] /\ size = sizes[Len(sizes)]
       /\ branch = <<>>
  /\ phase # "tree" =>
       /\ sizes[Len(sizes)] = 1
       /\ Len(branch) + 1 <= Len(sizes)
       /\ start = starts[Len(branch) + 1]
       /\ size = sizes[Len(branch) + 1]
  /\ phase \notin {"tree", "branch"} => size = 1
  /\ phase \in {"tree", "branch", "sent"} => step = 0

(* What the prover has noted of the levels it has passed. *)
Walked ==
  /\ Len(path) = Len(branch) + 1
  /\ Len(path) <= Len(sizes)
  /\ path[1] = txIndex
  /\ index = path[Len(path)]
  /\ \A k \in 1..Len(path) :
       path[k] < sizes[k] /\ path[k] < SignBit
  /\ \A k \in 1..Len(branch) :
       /\ path[k + 1] = path[k] \div 2
       /\ branch[k] = nodes[starts[k] +
                              Lesser(FlipLowBit(path[k]), sizes[k] - 1)]

(* Where the verifier of the prover's own proof is. *)
Following ==
  phase = "loop" /\ proof = HonestProof =>
    /\ idx = path[step + 1]
    /\ current = nodes[starts[step + 1] + path[step + 1]]

IInv == TypeOK /\ Stacked /\ Hashed /\ Cursor /\ Walked /\ Following /\ Complete

(***************************************************************************)
(* Arithmetic of the positions.                                            *)
(***************************************************************************)

(* Halving a position of a level gives a position of the next one.         *)
LEMMA HalfPosition ==
  ASSUME NEW n \in Nat \ {0, 1}, NEW p \in Nat, p < n
  PROVE  p \div 2 \in Nat /\ p \div 2 < Half(n) /\ p \div 2 <= p
BY DEF Half

(* The next level is not empty and shorter.                                *)
LEMMA HalfSize ==
  ASSUME NEW n \in Nat \ {0, 1}
  PROVE  Half(n) \in Nat \ {0} /\ Half(n) < n
BY DEF Half

(* A node and its sibling, in the order the low bit of its position says,   *)
(* are the pair whose digest stands above them.                            *)
LEMMA SiblingPair ==
  ASSUME NEW n \in Nat \ {0, 1}, NEW p \in Nat, p < n
  PROVE  /\ p % 2 = 1 => /\ Lesser(FlipLowBit(p), n - 1) = 2 * (p \div 2)
                         /\ Lesser(2 * (p \div 2) + 1, n - 1) = p
         /\ p % 2 # 1 => /\ p = 2 * (p \div 2)
                         /\ Lesser(FlipLowBit(p), n - 1) =
                              Lesser(2 * (p \div 2) + 1, n - 1)
BY DEF Lesser, FlipLowBit

(* A level that ends no later than the tree has its last node in the tree.  *)
LEMMA LastPosition ==
  ASSUME NEW a \in Nat, NEW b \in Nat \ {0}, NEW t \in Nat, a + b <= t + 1
  PROVE  a + b - 1 \in 0..t
OBVIOUS

(* Both nodes of a pair are nodes of its level.                            *)
LEMMA PairInside ==
  ASSUME NEW n \in Nat \ {0, 1}, NEW m \in 0..Half(n) - 1
  PROVE  /\ 2 * m \in 0..n - 1
         /\ Lesser(2 * m + 1, n - 1) \in 0..n - 1
BY DEF Half, Lesser

(***************************************************************************)
(* What the invariant says of the types, in small pieces.                  *)
(***************************************************************************)
LEMMA Scalars ==
  ASSUME TypeOK
  PROVE  /\ start \in Nat /\ size \in Nat \ {0} /\ index \in Nat
         /\ phase # "tree" => index < size
BY DEF TypeOK

LEMMA Histories ==
  ASSUME TypeOK, Stacked
  PROVE  /\ starts \in Seq(Nat) /\ sizes \in Seq(Nat \ {0})
         /\ path \in Seq(Nat) /\ branch \in Seq(Digest)
         /\ Len(sizes) \in Nat \ {0}
         /\ \A k \in 1..Len(sizes) : starts[k] \in Nat /\ sizes[k] \in Nat \ {0}
         /\ DOMAIN nodes = 0..starts[Len(sizes)] + sizes[Len(sizes)] - 1
<1>1. /\ starts \in Seq(Nat) /\ sizes \in Seq(Nat \ {0})
      /\ path \in Seq(Nat) /\ branch \in Seq(Digest)
  BY DEF TypeOK
<1>2. /\ Len(sizes) >= 1 /\ Len(starts) = Len(sizes)
      /\ DOMAIN nodes = 0..starts[Len(sizes)] + sizes[Len(sizes)] - 1
  BY DEF Stacked
<1>3. \A k \in 1..Len(sizes) : starts[k] \in Nat /\ sizes[k] \in Nat \ {0}
  BY <1>1, <1>2, SMTT(30)
<1> QED
  BY <1>1, <1>2, <1>3

(***************************************************************************)
(* The invariant holds initially.                                          *)
(***************************************************************************)
LEMMA InitInv == Init => IInv
<1> SUFFICES ASSUME Init PROVE IInv
  OBVIOUS
<1>1. txs \in Seq(Digest) /\ Len(txs) \in Nat /\ Len(txs) >= 1
      /\ Len(txs) <= SignBit /\ SignBit \in Nat
  BY BlockAssumption, SignBitAssumption DEF Init
<1>2. txIndex \in Nat /\ txIndex < Len(txs)
  BY <1>1 DEF Init
<1>3. starts = <<0>> /\ sizes = <<Len(txs)>> /\ Len(sizes) = 1
      /\ starts[1] = 0 /\ sizes[1] = Len(txs)
  BY DEF Init
<1>4. \A k \in 1..Len(txs) : txs[k] \in Digest
  BY <1>1
<1>5. DOMAIN nodes = 0..Len(txs) - 1
      /\ \A k \in 0..Len(txs) - 1 : nodes[k] = txs[k + 1]
  BY <1>1 DEF Init
<1>6. TypeOK
  <2>1. proof \in Proofs
    BY <1>1, <1>4 DEF Init, Proofs
  <2>2. starts \in Seq(Nat) /\ sizes \in Seq(Nat \ {0})
    BY <1>1, <1>3
  <2>3. \A k \in DOMAIN nodes : nodes[k] \in Digest
    BY <1>1, <1>4, <1>5
  <2> QED BY <1>1, <1>2, <1>4, <1>5, <2>1, <2>2, <2>3 DEF Init, TypeOK, Phases
<1>7. Stacked
  BY <1>1, <1>3, <1>5 DEF Stacked
<1>8. Hashed
  BY <1>1, <1>3, <1>5 DEF Hashed
<1>9. Cursor
  BY <1>3 DEF Init, Cursor
<1>10. Walked
  BY <1>1, <1>2, <1>3 DEF Init, Walked
<1> QED
  BY <1>6, <1>7, <1>8, <1>9, <1>10 DEF Init, IInv, Following, Complete

(***************************************************************************)
(* The steps of the prover.                                                *)
(***************************************************************************)

(* A new level leaves the levels below it as they are.                     *)
LEMMA HashLevelInv == IInv /\ HashLevel => IInv'
<1> SUFFICES ASSUME IInv, HashLevel PROVE IInv'
  OBVIOUS
<1>0. TypeOK /\ Stacked /\ Hashed /\ Cursor /\ Walked
  BY DEF IInv
<1> DEFINE L == Len(sizes)
<1>1. start \in Nat /\ size \in Nat \ {0, 1} /\ phase = "tree"
  BY <1>0 DEF HashLevel, TypeOK
<1>len. /\ L \in Nat \ {0} /\ Len(starts) = L
        /\ start = starts[L] /\ size = sizes[L]
  BY <1>0, <1>1 DEF TypeOK, Cursor, Stacked
<1>dom. DOMAIN nodes = 0..start + size - 1
  BY <1>0, <1>len DEF Stacked
<1>branch. branch = <<>>
  BY <1>0, <1>1 DEF Cursor
<1>2. Half(size) \in Nat \ {0} /\ Half(size) < size
  BY <1>1, HalfSize
<1>3. start' = start + size /\ size' = Half(size)
  BY DEF HashLevel
<1>app. /\ starts \in Seq(Nat) /\ starts' = Append(starts, start + size)
        /\ sizes \in Seq(Nat \ {0}) /\ sizes' = Append(sizes, Half(size))
  BY <1>0 DEF HashLevel, TypeOK
<1>4. /\ Len(sizes') = L + 1 /\ Len(starts') = L + 1
      /\ starts'[L + 1] = start + size /\ sizes'[L + 1] = Half(size)
      /\ \A k \in 1..L : starts'[k] = starts[k] /\ sizes'[k] = sizes[k]
  <2>1. /\ Len(starts') = L + 1 /\ starts'[L + 1] = start + size
        /\ \A k \in 1..L : starts'[k] = starts[k]
    BY <1>len, <1>app
  <2>2. /\ Len(sizes') = L + 1 /\ sizes'[L + 1] = Half(size)
        /\ \A k \in 1..L : sizes'[k] = sizes[k]
    BY <1>app
  <2> QED BY <2>1, <2>2
<1>5. \A k \in 1..L : /\ starts[k] \in Nat /\ sizes[k] \in Nat \ {0}
                       /\ starts[k] + sizes[k] <= start + size
  <2>1. \A k \in 1..L : starts[k] \in Nat /\ sizes[k] \in Nat \ {0}
    BY <1>len, <1>app
  <2>2. \A k \in 1..L : starts[k] + sizes[k] <= start + size
    BY <1>0, <1>len DEF Stacked
  <2> QED BY <2>1, <2>2
<1>6. /\ DOMAIN nodes' = 0..start + size + Half(size) - 1
      /\ \A k \in 0..start + size - 1 : nodes'[k] = nodes[k]
      /\ \A m \in 0..Half(size) - 1 : nodes'[start + size + m] = PairDigest(m)
  <2>1. nodes' = [k \in 0..start + size + Half(size) - 1 |->
                    IF k < start + size THEN nodes[k]
                                        ELSE PairDigest(k - (start + size))]
    BY DEF HashLevel
  <2>2. \A m \in 0..Half(size) - 1 :
          /\ start + size + m \in 0..start + size + Half(size) - 1
          /\ ~(start + size + m < start + size)
          /\ (start + size + m) - (start + size) = m
    BY <1>1, <1>2
  <2>3. \A k \in 0..start + size - 1 :
          k \in 0..start + size + Half(size) - 1 /\ k < start + size
    BY <1>1, <1>2
  <2> QED BY <2>1, <2>2, <2>3, Zenon
<1>7. UNCHANGED <<phase, impl, txs, txIndex, index, branch, path, proof,
                  current, idx, step>>
  BY DEF HashLevel, blockVars, branchVars, loopVars
<1> HIDE DEF L
<1>8. TypeOK'
  <2>1. starts' \in Seq(Nat) /\ sizes' \in Seq(Nat \ {0})
    <3>1. start + size \in Nat
      BY <1>1
    <3> QED BY <3>1, <1>2, <1>app
  <2>2. ASSUME NEW m \in 0..Half(size) - 1 PROVE PairDigest(m) \in Digest
    <3>1. 2 * m \in 0..size - 1 /\ Lesser(2 * m + 1, size - 1) \in 0..size - 1
      BY <1>1, PairInside
    <3>2. /\ start + 2 * m \in 0..start + size - 1
          /\ start + Lesser(2 * m + 1, size - 1) \in 0..start + size - 1
      BY <1>1, <3>1
    <3>3. \A k \in 0..start + size - 1 : nodes[k] \in Digest
      BY <1>0, <1>dom DEF TypeOK
    <3> QED BY <3>2, <3>3, HashAssumption DEF PairDigest
  <2>3. ASSUME NEW k \in 0..start + size + Half(size) - 1
        PROVE  nodes'[k] \in Digest
    <3>1. CASE k < start + size
      <4>1. k \in 0..start + size - 1
        BY <3>1, <1>1, <1>2
      <4> QED BY <4>1, <1>0, <1>dom, <1>6 DEF TypeOK
    <3>2. CASE k >= start + size
      <4>1. k - (start + size) \in 0..Half(size) - 1
            /\ k = start + size + (k - (start + size))
        BY <3>2, <1>1, <1>2
      <4> QED BY <4>1, <1>6, <2>2
    <3> QED BY <3>1, <3>2, <1>1, <1>2
  <2>4. start' + size' - 1 \in DOMAIN nodes'
    BY <1>1, <1>2, <1>3, <1>6
  <2>5. start' \in Nat /\ size' \in Nat \ {0} /\ phase' = "tree"
    BY <1>1, <1>2, <1>3, <1>7
  <2>6. \A k \in DOMAIN nodes' : nodes'[k] \in Digest
    BY <2>3, <1>6
  <2> QED BY <1>0, <1>7, <2>1, <2>4, <2>5, <2>6 DEF TypeOK
<1>9. Stacked'
  <2>1. Len(txs') = Len(txs) /\ starts[1] = 0 /\ sizes[1] = Len(txs)
    BY <1>0, <1>7 DEF Stacked
  <2>2. ASSUME NEW k \in 1..L
        PROVE  /\ sizes'[k] > 1
               /\ starts'[k + 1] = starts'[k] + sizes'[k]
               /\ sizes'[k + 1] = Half(sizes'[k])
    <3>1. CASE k = L
      BY <3>1, <1>1, <1>len, <1>4
    <3>2. CASE k # L
      <4>1. k \in 1..L - 1 /\ k + 1 \in 1..L
        BY <3>2, <1>len
      <4> QED BY <4>1, <1>0, <1>4 DEF Stacked, L
    <3> QED BY <3>1, <3>2
  <2>3. ASSUME NEW k \in 1..L + 1
        PROVE  starts'[k] + sizes'[k] <= start + size + Half(size)
    <3>1. CASE k = L + 1
      BY <3>1, <1>1, <1>2, <1>4
    <3>2. CASE k # L + 1
      <4>1. k \in 1..L
        BY <3>2, <1>len
      <4>2. starts'[k] = starts[k] /\ sizes'[k] = sizes[k]
        BY <4>1, <1>4
      <4>3. /\ starts[k] \in Nat /\ sizes[k] \in Nat
            /\ starts[k] + sizes[k] <= start + size
        BY <4>1, <1>5
      <4> QED BY <4>2, <4>3, <1>1, <1>2
    <3> QED BY <3>1, <3>2
  <2>4. L + 1 - 1 = L /\ L + 1 >= 1 /\ 1 \in 1..L
    BY <1>len
  <2>5. /\ starts'[Len(sizes')] = start + size /\ sizes'[Len(sizes')] = Half(size)
        /\ Len(sizes') = L + 1 /\ Len(starts') = L + 1
    BY <1>4
  <2>6. starts'[1] = 0 /\ sizes'[1] = Len(txs')
    BY <1>4, <2>1, <2>4
  <2>7. DOMAIN nodes' = 0..starts'[Len(sizes')] + sizes'[Len(sizes')] - 1
    BY <1>6, <2>5
  <2>8. \A k \in 1..Len(sizes') :
          starts'[k] + sizes'[k] <= starts'[Len(sizes')] + sizes'[Len(sizes')]
    BY <2>3, <2>5
  <2>9. Len(sizes') >= 1 /\ Len(sizes') - 1 = L
    BY <2>5, <1>len
  <2> QED BY <2>2, <2>5, <2>6, <2>7, <2>8, <2>9 DEF Stacked
<1>10. Hashed'
  <2>1. \A k \in 0..Len(txs') - 1 : nodes'[k] = txs'[k + 1]
    <3>1. Len(txs) <= start + size /\ Len(txs) \in Nat
      BY <1>0, <1>len, <1>5 DEF Stacked
    <3>2. \A k \in 0..Len(txs) - 1 : k \in 0..start + size - 1
      BY <3>1, <1>1
    <3> QED BY <1>0, <1>6, <1>7, <3>2 DEF Hashed
  <2>2. ASSUME NEW k \in 1..L, NEW m \in 0..Half(sizes'[k]) - 1
        PROVE  nodes'[starts'[k + 1] + m] = PairOf(k, m)'
    <3>0. sizes[k] \in Nat \ {0, 1} /\ m \in 0..Half(sizes[k]) - 1
      <4>1. k = L \/ k \in 1..L - 1
        BY <1>len
      <4>2. sizes[k] > 1
        BY <4>1, <1>0, <1>1, <1>len, SMTT(30) DEF Stacked, L
      <4> QED BY <4>2, <1>4, <1>5
    <3>1. /\ 2 * m \in 0..sizes[k] - 1
          /\ Lesser(2 * m + 1, sizes[k] - 1) \in 0..sizes[k] - 1
      BY <3>0, PairInside
    <3>2. /\ starts[k] + 2 * m \in 0..start + size - 1
          /\ starts[k] + Lesser(2 * m + 1, sizes[k] - 1) \in 0..start + size - 1
      BY <3>1, <1>1, <1>5
    <3>3. PairOf(k, m)' = PairOf(k, m)
      BY <3>2, <1>4, <1>6 DEF PairOf
    <3>4. CASE k # L
      <4>0. k \in 1..L - 1 /\ k + 1 \in 1..L
        BY <3>4, <1>len
      <4>1. /\ sizes[k + 1] = Half(sizes[k])
            /\ starts'[k + 1] = starts[k + 1]
            /\ nodes[starts[k + 1] + m] = PairOf(k, m)
        BY <4>0, <3>0, <1>0, <1>4 DEF Stacked, Hashed, L
      <4>2. starts[k + 1] + m \in 0..start + size - 1
        BY <4>0, <4>1, <3>0, <1>1, <1>5, HalfSize
      <4> QED BY <4>1, <4>2, <3>3, <1>6
    <3>5. CASE k = L
      <4>1. PairOf(k, m) = PairDigest(m)
        BY <3>5, <1>len DEF PairOf, PairDigest
      <4> QED BY <3>0, <3>3, <3>5, <4>1, <1>len, <1>4, <1>6
    <3> QED BY <3>4, <3>5
  <2>3. Len(sizes') - 1 = L
    BY <1>len, <1>4
  <2> QED BY <2>1, <2>2, <2>3 DEF Hashed
<1>11. Cursor'
  BY <1>0, <1>1, <1>3, <1>4, <1>7, <1>branch DEF Cursor
<1>12. Walked'
  <2>1. Len(path) = 1 /\ Len(path) <= L + 1 /\ 1 \in 1..L /\ Len(branch) = 0
    BY <1>0, <1>branch, <1>len DEF Walked
  <2>2. /\ path[1] = txIndex /\ index = path[1]
        /\ path[1] < sizes[1] /\ path[1] < SignBit
    BY <2>1, <1>0 DEF Walked
  <2>3. sizes'[1] = sizes[1]
    BY <2>1, <1>4
  <2>4. \A k \in 1..Len(path) : k = 1
    BY <2>1
  <2>5. 1..Len(branch) = {}
    BY <2>1
  <2> QED BY <1>4, <1>7, <2>1, <2>2, <2>3, <2>4, <2>5 DEF Walked
<1> QED
  BY <1>1, <1>7, <1>8, <1>9, <1>10, <1>11, <1>12 DEF IInv, Following, Complete

(* createBranch starts at the leaves; the levels are all there.            *)
LEMMA TreeDoneInv == IInv /\ TreeDone => IInv'
<1> SUFFICES ASSUME IInv, TreeDone PROVE IInv'
  OBVIOUS
<1>0. TypeOK /\ Stacked /\ Hashed /\ Cursor /\ Walked
  BY DEF IInv
<1>1. /\ phase = "tree" /\ size = 1 /\ phase' = "branch"
      /\ start' = 0 /\ size' = Len(txs) /\ branch = <<>>
      /\ UNCHANGED <<impl, txs, txIndex, nodes, starts, sizes, index, branch,
                     path, proof, current, idx, step>>
  BY <1>0 DEF TreeDone, Cursor, blockVars, treeVars, branchVars, loopVars
<1>2. /\ Len(txs) \in Nat /\ Len(txs) >= 1 /\ Len(sizes) \in Nat
      /\ starts[1] = 0 /\ sizes[1] = Len(txs)
  BY <1>0, BlockAssumption DEF TypeOK, Stacked
<1>3. index = txIndex /\ txIndex \in Nat /\ txIndex < Len(txs)
  <2>1. Len(path) = 1
    BY <1>0, <1>1 DEF Walked
  <2>2. index = txIndex
    BY <2>1, <1>0 DEF Walked
  <2>3. txIndex \in 0..Len(txs) - 1
    BY <1>0 DEF TypeOK
  <2> QED BY <2>2, <2>3, <1>2
<1>4. TypeOK'
  <2>1. Len(txs) - 1 \in DOMAIN nodes
    <3> DEFINE t == starts[Len(sizes)] + sizes[Len(sizes)]
    <3>1. t \in Nat /\ DOMAIN nodes = 0..t - 1
      <4>1. Len(sizes) \in 1..Len(sizes)
        BY <1>0, Histories
      <4>2. starts[Len(sizes)] \in Nat /\ sizes[Len(sizes)] \in Nat
        BY <4>1, <1>0, Histories
      <4>3. DOMAIN nodes = 0..starts[Len(sizes)] + sizes[Len(sizes)] - 1
        BY <1>0, Histories
      <4> QED BY <4>2, <4>3
    <3>2. starts[1] + sizes[1] <= t
      <4>1. 1 \in 1..Len(sizes)
        BY <1>0, Histories
      <4> QED BY <4>1, <1>0 DEF Stacked
    <3>3. Len(txs) <= t
      BY <3>1, <3>2, <1>2
    <3> HIDE DEF t
    <3> QED BY <3>1, <3>3, <1>2
  <2> QED BY <1>0, <1>1, <1>2, <1>3, <2>1 DEF TypeOK, Phases
<1>5. Stacked' /\ Hashed' /\ Walked'
  BY <1>0, <1>1 DEF Stacked, Hashed, PairOf, Walked
<1>6. Cursor'
  <2>1. sizes[Len(sizes)] = 1 /\ Len(branch) = 0
    BY <1>0, <1>1 DEF Cursor
  <2> QED BY <1>0, <1>1, <1>2, <2>1 DEF Cursor, Stacked
<1> QED
  BY <1>1, <1>4, <1>5, <1>6 DEF IInv, Following, Complete

(* A sibling noted at each level, the index halved.                        *)
LEMMA PushSiblingInv == IInv /\ PushSibling => IInv'
<1> SUFFICES ASSUME IInv, PushSibling PROVE IInv'
  OBVIOUS
<1>0. TypeOK /\ Stacked /\ Hashed /\ Cursor /\ Walked
  BY DEF IInv
<1> DEFINE B == Len(branch)
<1>1. /\ phase = "branch" /\ size \in Nat \ {0, 1} /\ start \in Nat
      /\ index \in Nat /\ index < size
  BY <1>0, Scalars DEF PushSibling
<1>2. UNCHANGED <<phase, impl, txs, txIndex, nodes, starts, sizes, proof,
                  current, idx, step>>
  BY DEF PushSibling, blockVars, treeVars, loopVars
<1>3. /\ start' = start + size /\ size' = Half(size) /\ index' = index \div 2
      /\ branch' = Append(branch, Sibling) /\ path' = Append(path, index \div 2)
  BY DEF PushSibling
<1>4. /\ B \in Nat /\ Len(path) = B + 1 /\ B + 1 <= Len(sizes) /\ Len(sizes) \in Nat
      /\ start = starts[B + 1] /\ size = sizes[B + 1]
      /\ sizes[Len(sizes)] = 1
  <2>1. B \in Nat /\ Len(sizes) \in Nat
    BY <1>0, Histories
  <2>2. Len(path) = B + 1
    BY <1>0 DEF Walked
  <2> QED BY <2>1, <2>2, <1>0, <1>1 DEF Cursor
<1>5. B + 1 \in 1..Len(sizes) - 1 /\ B + 2 \in 1..Len(sizes)
  BY <1>1, <1>4
<1>6. /\ starts[B + 2] = start + size /\ sizes[B + 2] = Half(size)
  <2>1. B + 1 + 1 = B + 2
    BY <1>4
  <2> QED BY <2>1, <1>0, <1>4, <1>5 DEF Stacked
<1>7. /\ index \div 2 \in Nat /\ index \div 2 < Half(size) /\ index \div 2 <= index
      /\ Half(size) \in Nat \ {0}
  BY <1>1, HalfPosition, HalfSize
<1>8. Sibling \in Digest
  <2>1. Lesser(FlipLowBit(index), size - 1) \in 0..size - 1
    BY <1>1 DEF Lesser, FlipLowBit
  <2>2. start + size <= starts[Len(sizes)] + sizes[Len(sizes)]
    BY <1>0, <1>4, <1>5 DEF Stacked
  <2>3. DOMAIN nodes = 0..starts[Len(sizes)] + sizes[Len(sizes)] - 1
        /\ starts[Len(sizes)] \in Nat
    BY <1>0, Histories
  <2>4. sizes[Len(sizes)] = 1
    BY <1>4
  <2>5. start + Lesser(FlipLowBit(index), size - 1) \in
          0..starts[Len(sizes)] + sizes[Len(sizes)] - 1
    BY <2>1, <2>2, <2>3, <2>4, <1>1
  <2> QED BY <2>3, <2>5, <1>0 DEF TypeOK, Sibling
<1>9. /\ branch \in Seq(Digest) /\ Len(branch') = B + 1 /\ branch'[B + 1] = Sibling
      /\ \A k \in 1..B : branch'[k] = branch[k]
  BY <1>0, <1>3, <1>8 DEF TypeOK
<1>10. /\ path \in Seq(Nat) /\ Len(path') = B + 2 /\ path'[B + 2] = index \div 2
       /\ \A k \in 1..B + 1 : path'[k] = path[k]
  <2>1. path \in Seq(Nat)
    BY <1>0 DEF TypeOK
  <2> QED BY <2>1, <1>3, <1>4
<1> HIDE DEF B
<1>11. TypeOK'
  <2>1. start' \in Nat /\ size' \in Nat \ {0} /\ index' \in Nat /\ index' < size'
    BY <1>1, <1>3, <1>7
  <2>2. start' + size' - 1 \in DOMAIN nodes'
    <3>1. starts[B + 2] + sizes[B + 2] <= starts[Len(sizes)] + sizes[Len(sizes)]
      BY <1>0, <1>5 DEF Stacked
    <3>2. starts[Len(sizes)] \in Nat
      BY <1>0, Histories
    <3>3. DOMAIN nodes' = 0..starts[Len(sizes)] + sizes[Len(sizes)] - 1
      BY <1>0, <1>2 DEF Stacked
    <3>4. sizes[Len(sizes)] = 1
      BY <1>4
    <3>5. start' + size' <= starts[Len(sizes)] + 1
      BY <3>1, <3>4, <1>3, <1>6
    <3>6. start' + size' - 1 \in 0..starts[Len(sizes)]
      <4>1. start' \in Nat /\ size' \in Nat \ {0}
        BY <2>1
      <4> QED BY <4>1, <3>2, <3>5, LastPosition
    <3>7. starts[Len(sizes)] + sizes[Len(sizes)] - 1 = starts[Len(sizes)]
      BY <3>2, <3>4
    <3> QED BY <3>3, <3>6, <3>7
  <2>3. branch' \in Seq(Digest) /\ path' \in Seq(Nat)
    <3>1. branch' \in Seq(Digest)
      BY <1>3, <1>8, <1>9
    <3>2. path' \in Seq(Nat)
      BY <1>3, <1>7, <1>10
    <3> QED BY <3>1, <3>2
  <2> QED BY <1>0, <1>2, <2>1, <2>2, <2>3 DEF TypeOK
<1>12. Stacked' /\ Hashed'
  BY <1>0, <1>2 DEF Stacked, Hashed, PairOf
<1>13. Cursor'
  <2>1. Len(branch') + 1 = B + 2 /\ B + 2 <= Len(sizes)
    BY <1>4, <1>5, <1>9
  <2> QED BY <2>1, <1>0, <1>1, <1>2, <1>3, <1>4, <1>6 DEF Cursor
<1>14. Walked'
  <2>1. path[B + 1] = index
    BY <1>0, <1>4 DEF Walked
  <2>2. ASSUME NEW k \in 1..B + 2
        PROVE  path'[k] < sizes[k] /\ path'[k] < SignBit
    <3>1. CASE k = B + 2
      <4>1. index < SignBit
        BY <1>0, <1>4, <2>1 DEF Walked, B
      <4> QED BY <3>1, <4>1, <1>1, <1>6, <1>7, <1>10, SignBitAssumption
    <3>2. CASE k # B + 2
      <4>1. k \in 1..B + 1
        BY <3>2, <1>4
      <4> QED BY <4>1, <1>0, <1>4, <1>10 DEF Walked
    <3> QED BY <3>1, <3>2
  <2>3. ASSUME NEW k \in 1..B + 1
        PROVE  /\ path'[k + 1] = path'[k] \div 2
               /\ branch'[k] = nodes[starts[k] +
                                 Lesser(FlipLowBit(path'[k]), sizes[k] - 1)]
    <3>1. CASE k = B + 1
      <4>1. path'[k] = index /\ k + 1 = B + 2 /\ starts[k] = start /\ sizes[k] = size
        BY <3>1, <2>1, <1>4, <1>10
      <4> QED BY <3>1, <4>1, <1>9, <1>10 DEF Sibling
    <3>2. CASE k # B + 1
      <4>1. k \in 1..B /\ k \in 1..B + 1 /\ k + 1 \in 1..B + 1
        BY <3>2, <1>4
      <4>2. /\ path[k + 1] = path[k] \div 2
            /\ branch[k] = nodes[starts[k] + Lesser(FlipLowBit(path[k]), sizes[k] - 1)]
        BY <4>1, <1>0 DEF Walked, B
      <4> QED BY <4>1, <4>2, <1>9, <1>10
    <3> QED BY <3>1, <3>2
  <2>4. /\ Len(path') = Len(branch') + 1 /\ Len(path') <= Len(sizes)
        /\ path'[1] = txIndex /\ index' = path'[Len(path')]
    <3>1. path[1] = txIndex /\ 1 \in 1..B + 1
      BY <1>0, <1>4 DEF Walked
    <3> QED BY <3>1, <1>3, <1>4, <1>5, <1>9, <1>10
  <2> QED BY <1>2, <1>9, <1>10, <2>2, <2>3, <2>4 DEF Walked
<1> QED
  BY <1>1, <1>2, <1>11, <1>12, <1>13, <1>14 DEF IInv, Following, Complete

(***************************************************************************)
(* The steps of the verifier leave the prover's part alone.                *)
(***************************************************************************)
LEMMA Rest ==
  ASSUME TypeOK, Stacked, Hashed, Cursor, Walked,
         UNCHANGED <<impl, txs, txIndex, nodes, starts, sizes, start, size,
                     index, branch, path>>,
         phase # "tree", phase' # "tree",
         phase' \notin {"branch"} => size = 1,
         phase' \in {"branch", "sent"} => step' = 0
  PROVE  Stacked' /\ Hashed' /\ Cursor' /\ Walked' /\ HonestProof' = HonestProof
BY DEF Stacked, Hashed, PairOf, Cursor, Walked, HonestProof

(* The prover's own proof is a proof.                                      *)
LEMMA HonestTyped ==
  ASSUME TypeOK
  PROVE  HonestProof \in Proofs
<1>1. /\ txs \in Seq(Digest) /\ Len(txs) <= SignBit /\ Len(txs) \in Nat
      /\ SignBit \in Nat
  BY BlockAssumption, SignBitAssumption DEF TypeOK
<1>2. txIndex \in 0..Len(txs) - 1
  BY DEF TypeOK
<1>3. txIndex \in 0..2 * SignBit - 1 /\ txIndex + 1 \in 1..Len(txs)
  BY <1>1, <1>2
<1>4. txs[txIndex + 1] \in Digest
  BY <1>1, <1>3
<1>5. nodes[start + size - 1] \in Digest
  BY DEF TypeOK
<1>6. branch \in Seq(Digest)
  BY DEF TypeOK
<1> QED BY <1>3, <1>4, <1>5, <1>6 DEF HonestProof, Proofs

LEMMA SubmitInv == IInv /\ Submit => IInv'
<1> SUFFICES ASSUME IInv, Submit PROVE IInv'
  OBVIOUS
<1>0. TypeOK /\ Stacked /\ Hashed /\ Cursor /\ Walked
  BY DEF IInv
<1>1. /\ phase = "branch" /\ size = 1 /\ phase' = "sent"
      /\ UNCHANGED <<impl, txs, txIndex, nodes, starts, sizes, start, size,
                     index, branch, path, current, idx, step>>
  BY DEF Submit, blockVars, treeVars, cursorVars, branchVars, loopVars
<1>2. proof' \in Proofs
  BY <1>0, HonestTyped DEF Submit
<1>3. step = 0
  BY <1>0, <1>1 DEF Cursor
<1>4. Stacked' /\ Hashed' /\ Cursor' /\ Walked'
  BY <1>0, <1>1, <1>3, Rest
<1>5. TypeOK'
  <2>1. 0 \in 0..Len(proof'.nodes)
    <3>1. proof'.nodes \in Seq(Digest)
      BY <1>2 DEF Proofs
    <3> QED BY <3>1
  <2> QED BY <1>0, <1>1, <1>2, <1>3, <2>1 DEF TypeOK, Phases
<1> QED
  BY <1>1, <1>4, <1>5 DEF IInv, Following, Complete

(* What the honest proof looks like when it is submitted.                  *)
LEMMA HonestFacts ==
  ASSUME TypeOK, Stacked, Hashed, Cursor, Walked, size = 1, phase # "tree",
         proof = HonestProof
  PROVE  /\ Len(sizes) = Len(branch) + 1 /\ Len(path) = Len(sizes)
         /\ proof.nodes = branch /\ proof.index = txIndex /\ ~proof.ragged
         /\ proof.txid = nodes[txIndex]
         /\ proof.root = nodes[starts[Len(sizes)]]
         /\ path[Len(sizes)] = 0
<1>1. /\ proof.nodes = branch /\ proof.index = txIndex /\ proof.ragged = FALSE
      /\ proof.txid = txs[txIndex + 1] /\ proof.root = nodes[start + size - 1]
  BY DEF HonestProof
<1>2. Len(sizes) = Len(branch) + 1
  <2>1. /\ Len(branch) \in Nat /\ Len(sizes) \in Nat \ {0}
    BY Histories
  <2>2. /\ Len(branch) + 1 <= Len(sizes) /\ sizes[Len(branch) + 1] = 1
    BY DEF Cursor
  <2>3. Len(branch) + 1 \in 1..Len(sizes) - 1 => sizes[Len(branch) + 1] > 1
    BY DEF Stacked
  <2> QED BY <2>1, <2>2, <2>3
<1>3. Len(path) = Len(sizes)
  BY <1>2 DEF Walked
<1>4. start = starts[Len(sizes)] /\ start \in Nat
  BY <1>2, Scalars DEF Cursor
<1>5. start + size - 1 = starts[Len(sizes)]
  BY <1>4
<1>6. txs[txIndex + 1] = nodes[txIndex]
  BY DEF Hashed, TypeOK
<1>7. path[Len(sizes)] = 0
  <2>1. path[Len(path)] = index /\ index < size /\ index \in Nat
    BY Scalars DEF Walked
  <2> QED BY <2>1, <1>3
<1> QED BY <1>1, <1>2, <1>3, <1>5, <1>6, <1>7

LEMMA AnswerAtOnceInv == IInv /\ AnswerAtOnce => IInv'
<1> SUFFICES ASSUME IInv, AnswerAtOnce PROVE IInv'
  OBVIOUS
<1>0. TypeOK /\ Stacked /\ Hashed /\ Cursor /\ Walked
  BY DEF IInv
<1>1. /\ phase = "sent" /\ phase' = EntryVerdict /\ EntryVerdict # "loop"
      /\ UNCHANGED <<impl, txs, txIndex, nodes, starts, sizes, start, size,
                     index, branch, path, proof, current, idx, step>>
  BY DEF AnswerAtOnce, Answer, blockVars, treeVars, cursorVars, branchVars,
         loopVars
<1>2. EntryVerdict \in {"accepted", "rejected"}
  BY <1>1 DEF EntryVerdict, NoNodes
<1>3. size = 1
  BY <1>0, <1>1 DEF Cursor
<1>4. Stacked' /\ Hashed' /\ Cursor' /\ Walked' /\ HonestProof' = HonestProof
  BY <1>0, <1>1, <1>2, <1>3, Rest
<1>5. TypeOK'
  BY <1>0, <1>1, <1>2 DEF TypeOK, Phases
<1>6. proof = HonestProof => EntryVerdict # "rejected"
  <2> SUFFICES ASSUME proof = HonestProof PROVE EntryVerdict # "rejected"
    OBVIOUS
  <2>1. ~proof.ragged /\ proof.nodes = branch /\ proof.index = txIndex
        /\ Len(sizes) = Len(branch) + 1 /\ proof.txid = nodes[txIndex]
        /\ proof.root = nodes[starts[Len(sizes)]]
    BY <1>0, <1>1, <1>3, HonestFacts
  <2>2. CASE branch = <<>>
    <3>1. Len(sizes) = 1
      BY <2>1, <2>2
    <3>2. starts[1] = 0 /\ Len(txs) = 1
      BY <3>1, <1>0, <1>1 DEF Stacked, Cursor
    <3>3. txIndex = 0
      BY <3>2, <1>0 DEF TypeOK
    <3>4. CoinbaseOnly
      BY <2>1, <2>2, <3>1, <3>2, <3>3 DEF CoinbaseOnly
    <3> QED BY <2>1, <3>4 DEF EntryVerdict, CoinbaseOnly
  <2>3. CASE branch # <<>>
    BY <2>1, <2>3 DEF EntryVerdict, CoinbaseOnly
  <2> QED BY <2>2, <2>3
<1> QED
  BY <1>1, <1>2, <1>4, <1>5, <1>6 DEF IInv, Following, Complete

LEMMA EnterLoopInv == IInv /\ EnterLoop => IInv'
<1> SUFFICES ASSUME IInv, EnterLoop PROVE IInv'
  OBVIOUS
<1>0. TypeOK /\ Stacked /\ Hashed /\ Cursor /\ Walked
  BY DEF IInv
<1>1. /\ phase = "sent" /\ phase' = "loop"
      /\ current' = proof.txid /\ idx' = proof.index /\ step' = 0
      /\ UNCHANGED <<impl, txs, txIndex, nodes, starts, sizes, start, size,
                     index, branch, path, proof>>
  BY DEF EnterLoop, blockVars, treeVars, cursorVars, branchVars
<1>2. size = 1
  BY <1>0, <1>1 DEF Cursor
<1>3. Stacked' /\ Hashed' /\ Cursor' /\ Walked' /\ HonestProof' = HonestProof
  BY <1>0, <1>1, <1>2, Rest
<1>4. TypeOK'
  <2>1. proof.txid \in Digest /\ proof.index \in Int /\ 0 \in 0..Len(proof.nodes)
    <3>1. /\ proof.txid \in Digest /\ proof.nodes \in Seq(Digest)
          /\ proof.index \in 0..2 * SignBit - 1
      BY <1>0 DEF TypeOK, Proofs
    <3>2. SignBit \in Nat
      BY SignBitAssumption
    <3> QED BY <3>1, <3>2
  <2> QED BY <1>0, <1>1, <2>1 DEF TypeOK, Phases
<1>5. Following'
  <2> SUFFICES ASSUME proof = HonestProof
               PROVE  /\ idx' = path[0 + 1]
                      /\ current' = nodes[starts[0 + 1] + path[0 + 1]]
    BY <1>1, <1>3 DEF Following
  <2>1. proof.index = txIndex /\ proof.txid = nodes[txIndex]
    BY <1>0, <1>1, <1>2, HonestFacts
  <2>2. path[1] = txIndex /\ starts[1] = 0
    BY <1>0 DEF Walked, Stacked
  <2>3. txIndex \in Int
    BY <1>0 DEF TypeOK
  <2> QED BY <2>1, <2>2, <2>3, <1>1
<1> QED
  BY <1>1, <1>3, <1>4, <1>5 DEF IInv, Complete

(* The verifier's step goes up one level of the prover's tree.             *)
LEMMA FoldNodeInv == IInv /\ FoldNode => IInv'
<1> SUFFICES ASSUME IInv, FoldNode PROVE IInv'
  OBVIOUS
<1>0. TypeOK /\ Stacked /\ Hashed /\ Cursor /\ Walked /\ Following
  BY DEF IInv
<1>1. /\ phase = "loop" /\ phase' = "loop" /\ step < Len(proof.nodes)
      /\ current' = Fold(proof.nodes[step + 1])
      /\ idx' = Shifted(idx) /\ step' = step + 1
      /\ UNCHANGED <<impl, txs, txIndex, nodes, starts, sizes, start, size,
                     index, branch, path, proof>>
  BY DEF FoldNode, blockVars, treeVars, cursorVars, branchVars
<1>2. size = 1
  BY <1>0, <1>1 DEF Cursor
<1>3. Stacked' /\ Hashed' /\ Cursor' /\ Walked' /\ HonestProof' = HonestProof
  BY <1>0, <1>1, <1>2, Rest
<1>4. /\ proof.nodes \in Seq(Digest) /\ step \in 0..Len(proof.nodes)
      /\ current \in Digest /\ idx \in Int
  BY <1>0 DEF TypeOK, Proofs
<1>5. step + 1 \in 1..Len(proof.nodes) /\ step \in Nat
  BY <1>1, <1>4
<1>6. TypeOK'
  <2>1. Fold(proof.nodes[step + 1]) \in Digest
    BY <1>4, <1>5, HashAssumption DEF Fold
  <2>2. Shifted(idx) \in Int
    BY <1>4, SignBitAssumption DEF Shifted
  <2>3. step + 1 \in 0..Len(proof.nodes)
    BY <1>5
  <2> QED BY <1>0, <1>1, <2>1, <2>2, <2>3 DEF TypeOK
<1>7. Following'
  <2> SUFFICES ASSUME proof = HonestProof
               PROVE  /\ idx' = path[step + 1 + 1]
                      /\ current' = nodes[starts[step + 1 + 1] + path[step + 1 + 1]]
    BY <1>1, <1>3 DEF Following
  <2> DEFINE k == step + 1
             p == path[step + 1]
             n == sizes[step + 1]
             m == p \div 2
  <2>1. /\ proof.nodes = branch
        /\ Len(sizes) = Len(branch) + 1 /\ Len(path) = Len(sizes)
    BY <1>0, <1>1, <1>2, HonestFacts
  <2>2. idx = p /\ current = nodes[starts[k] + p]
    BY <1>0, <1>1 DEF Following
  <2>3. k \in 1..Len(branch) /\ k \in 1..Len(sizes) - 1 /\ k \in 1..Len(path)
    <3>1. Len(branch) \in Nat
      BY <1>0, Histories
    <3> QED BY <3>1, <1>5, <2>1
  <2>4. p \in Nat /\ p < n /\ p < SignBit
    <3>1. path \in Seq(Nat)
      BY <1>0, Histories
    <3>2. p \in Nat
      BY <3>1, <2>3
    <3> QED BY <3>2, <2>3, <1>0 DEF Walked
  <2>5. n \in Nat \ {0, 1}
    <3>1. n \in Nat \ {0}
      BY <1>0, <2>3, Histories
    <3>2. n > 1
      BY <1>0, <2>3 DEF Stacked
    <3> QED BY <3>1, <3>2
  <2>6. path[k + 1] = m
        /\ branch[k] = nodes[starts[k] + Lesser(FlipLowBit(p), n - 1)]
    BY <1>0, <2>3 DEF Walked
  <2>7. nodes[starts[k + 1] + m] =
          Hash256(nodes[starts[k] + 2 * m], nodes[starts[k] + Lesser(2 * m + 1, n - 1)])
    <3>1. m \in 0..Half(n) - 1
      <4>1. m \in Nat /\ m < Half(n) /\ Half(n) \in Nat \ {0}
        BY <2>4, <2>5, HalfPosition, HalfSize
      <4> QED BY <4>1
    <3> QED BY <3>1, <2>3, <1>0 DEF Hashed, PairOf
  <2>8. current' = nodes[starts[k + 1] + m]
    <3>1. current' = Fold(branch[k])
      BY <1>1, <2>1
    <3>2. CASE p % 2 = 1
      <4>1. IsRight(idx)
        BY <3>2, <2>2, <2>4 DEF IsRight
      <4>2. /\ Lesser(FlipLowBit(p), n - 1) = 2 * m
            /\ Lesser(2 * m + 1, n - 1) = p
        BY <3>2, <2>4, <2>5, SiblingPair
      <4> QED BY <3>1, <4>1, <4>2, <2>2, <2>6, <2>7 DEF Fold
    <3>3. CASE p % 2 # 1
      <4>1. ~IsRight(idx)
        BY <3>3, <2>2 DEF IsRight
      <4>2. /\ p = 2 * m
            /\ Lesser(FlipLowBit(p), n - 1) = Lesser(2 * m + 1, n - 1)
        BY <3>3, <2>4, <2>5, SiblingPair
      <4> QED BY <3>1, <4>1, <4>2, <2>2, <2>6, <2>7 DEF Fold
    <3> QED BY <3>2, <3>3
  <2>9. idx' = m
    BY <1>1, <2>2, <2>4, SignBitAssumption DEF Shifted
  <2> QED BY <2>6, <2>8, <2>9
<1> QED
  BY <1>1, <1>3, <1>6, <1>7 DEF IInv, Complete

(* At the last level the only position is the root's.                      *)
LEMMA CompareRootInv == IInv /\ CompareRoot => IInv'
<1> SUFFICES ASSUME IInv, CompareRoot PROVE IInv'
  OBVIOUS
<1>0. TypeOK /\ Stacked /\ Hashed /\ Cursor /\ Walked /\ Following
  BY DEF IInv
<1>1. /\ phase = "loop" /\ step = Len(proof.nodes)
      /\ phase' = (IF current = proof.root THEN "accepted" ELSE "rejected")
      /\ UNCHANGED <<impl, txs, txIndex, nodes, starts, sizes, start, size,
                     index, branch, path, proof, current, idx, step>>
  BY DEF CompareRoot, Answer, blockVars, treeVars, cursorVars, branchVars,
         loopVars
<1>2. size = 1 /\ phase' \in {"accepted", "rejected"}
  BY <1>0, <1>1 DEF Cursor
<1>3. Stacked' /\ Hashed' /\ Cursor' /\ Walked' /\ HonestProof' = HonestProof
  BY <1>0, <1>1, <1>2, Rest
<1>4. TypeOK'
  BY <1>0, <1>1, <1>2 DEF TypeOK, Phases
<1>5. proof = HonestProof => current = proof.root
  <2> SUFFICES ASSUME proof = HonestProof PROVE current = proof.root
    OBVIOUS
  <2>1. /\ proof.nodes = branch /\ Len(sizes) = Len(branch) + 1
        /\ proof.root = nodes[starts[Len(sizes)]] /\ path[Len(sizes)] = 0
    BY <1>0, <1>1, <1>2, HonestFacts
  <2>2. current = nodes[starts[Len(sizes)] + path[Len(sizes)]]
    BY <2>1, <1>0, <1>1 DEF Following
  <2>3. starts[Len(sizes)] \in Nat
    BY <1>0, Histories
  <2> QED BY <2>1, <2>2, <2>3
<1> QED
  BY <1>1, <1>2, <1>3, <1>4, <1>5 DEF IInv, Following, Complete

(***************************************************************************)
(* The theorems.                                                           *)
(***************************************************************************)

(* No step of either side leaves the invariant.                            *)
LEMMA NextInv == IInv /\ [Next]_vars => IInv'
<1> SUFFICES ASSUME IInv, [Next]_vars PROVE IInv'
  OBVIOUS
<1>1. CASE HashLevel
  BY <1>1, HashLevelInv
<1>2. CASE TreeDone
  BY <1>2, TreeDoneInv
<1>3. CASE PushSibling
  BY <1>3, PushSiblingInv
<1>4. CASE Submit
  BY <1>4, SubmitInv
<1>5. CASE AnswerAtOnce
  BY <1>5, AnswerAtOnceInv
<1>6. CASE EnterLoop
  BY <1>6, EnterLoopInv
<1>7. CASE FoldNode
  BY <1>7, FoldNodeInv
<1>8. CASE CompareRoot
  BY <1>8, CompareRootInv
<1>9. CASE UNCHANGED vars
  BY <1>9 DEF vars, blockVars, treeVars, cursorVars, branchVars, loopVars,
     IInv, TypeOK, Stacked, Hashed, PairOf, Cursor, Walked, Following,
     HonestProof, Complete
<1> QED
  BY <1>1, <1>2, <1>3, <1>4, <1>5, <1>6, <1>7, <1>8, <1>9 DEF Next, Done

(* The types, and the shape of the tree and of the way through it.         *)
THEOREM Invariance == Spec => []IInv
BY InitInv, NextInv, PTL DEF Spec

(* The variables keep their types, the prover's index stays inside its     *)
(* level and the verifier's step inside the proof.                         *)
THEOREM TypeCorrect == Spec => []TypeOK
<1>1. IInv => TypeOK
  BY DEF IInv
<1> QED BY <1>1, Invariance, PTL

(* The proof that the client makes for any transaction of any block is     *)
(* refused by none of the six ports.                                       *)
THEOREM Completeness == Spec => []Complete
<1>1. IInv => Complete
  BY DEF IInv
<1> QED BY <1>1, Invariance, PTL

(***************************************************************************)
(* What a proof says, as the two recursive functions compute it.           *)
(***************************************************************************)
LEMMA SetInduction ==
  ASSUME NEW S, 0 \in S, \A n \in Nat : n \in S => n + 1 \in S
  PROVE  Nat \subseteq S
<1> DEFINE T == Nat \ S
<1>1. SUFFICES ASSUME T # {} PROVE FALSE
  OBVIOUS
<1>2. PICK m \in T : \A y \in T : ~ (<<y, m>> \in OpToRel(<, Nat))
  BY <1>1, NatLessThanWellFounded, WFMin
<1>3. \A y \in T : ~ (y < m)
  BY <1>2 DEF OpToRel
<1>4. m \in Nat /\ m # 0 /\ m \notin S
  OBVIOUS
<1>5. m - 1 \in Nat /\ m - 1 < m /\ (m - 1) + 1 = m
  BY <1>4
<1>6. m - 1 \in S
  BY <1>3, <1>5
<1> QED
  BY <1>4, <1>5, <1>6

(* A function whose value at a number is made from the value before it      *)
(* exists, however far it goes.                                            *)
LEMMA PositionsDefined ==
  ASSUME NEW p \in Proofs
  PROVE  Positions(p) =
           [k \in 0..Len(p.nodes) |->
              IF k = 0 THEN p.index ELSE Positions(p)[k - 1] \div 2]
<1> DEFINE Fits(f, m) ==
             f = [k \in 0..m |-> IF k = 0 THEN p.index ELSE f[k - 1] \div 2]
           S == {m \in Nat : \E f : Fits(f, m)}
<1>1. 0 \in S
  <2> DEFINE f == [k \in 0..0 |-> p.index]
  <2>1. Fits(f, 0)
    OBVIOUS
  <2> QED BY <2>1
<1>2. ASSUME NEW n \in Nat, NEW f, Fits(f, n)
      PROVE  \E g : Fits(g, n + 1)
  <2> DEFINE g == [k \in 0..n + 1 |->
                     IF k = 0 THEN p.index ELSE f[k - 1] \div 2]
  <2>1. \A k \in 0..n : g[k] = f[k]
    BY <1>2
  <2>2. \A k \in 0..n + 1 :
          (IF k = 0 THEN p.index ELSE f[k - 1] \div 2)
            = (IF k = 0 THEN p.index ELSE g[k - 1] \div 2)
    <3> HIDE DEF g
    <3>1. \A k \in 0..n + 1 : k # 0 => k - 1 \in 0..n
      OBVIOUS
    <3>2. \A k \in 0..n + 1 : k # 0 => f[k - 1] = g[k - 1]
      BY <2>1, <3>1
    <3> QED BY <3>2
  <2>3. Fits(g, n + 1)
    BY <2>2, Zenon
  <2> QED BY <2>3
<1> HIDE DEF Fits
<1>3. \A n \in Nat : n \in S => n + 1 \in S
  BY <1>2
<1>4. Len(p.nodes) \in Nat
  BY DEF Proofs
<1> HIDE DEF S
<1>5. Len(p.nodes) \in S
  BY <1>1, <1>3, <1>4, SetInduction
<1>6. \E f : Fits(f, Len(p.nodes))
  BY <1>5 DEF S
<1> QED BY <1>6 DEF Positions, Fits

(* The digest over a pair. *)
HashPair(pair) == Hash256(pair[1], pair[2])

LEMMA DigestsDefined ==
  ASSUME NEW p \in Proofs
  PROVE  Digests(p) =
           [k \in 0..Len(p.nodes) |->
              IF k = 0 THEN p.txid ELSE HashPair(Pair(p, k, Digests(p)[k - 1]))]
<1> DEFINE Fits(f, m) ==
             f = [k \in 0..m |-> IF k = 0 THEN p.txid
                                 ELSE HashPair(Pair(p, k, f[k - 1]))]
           S == {m \in Nat : \E f : Fits(f, m)}
<1>1. 0 \in S
  <2> DEFINE f == [k \in 0..0 |-> p.txid]
  <2>1. Fits(f, 0)
    OBVIOUS
  <2> QED BY <2>1
<1>2. ASSUME NEW n \in Nat, NEW f, Fits(f, n)
      PROVE  \E g : Fits(g, n + 1)
  <2> DEFINE g == [k \in 0..n + 1 |->
                     IF k = 0 THEN p.txid ELSE HashPair(Pair(p, k, f[k - 1]))]
  <2>1. \A k \in 0..n : g[k] = f[k]
    BY <1>2
  <2>2. \A k \in 0..n + 1 :
          (IF k = 0 THEN p.txid ELSE HashPair(Pair(p, k, f[k - 1])))
            = (IF k = 0 THEN p.txid ELSE HashPair(Pair(p, k, g[k - 1])))
    <3> HIDE DEF g
    <3>1. \A k \in 0..n + 1 : k # 0 => k - 1 \in 0..n
      OBVIOUS
    <3>2. \A k \in 0..n + 1 : k # 0 => f[k - 1] = g[k - 1]
      BY <2>1, <3>1
    <3> QED BY <3>2
  <2>3. Fits(g, n + 1)
    BY <2>2, Zenon
  <2> QED BY <2>3
<1> HIDE DEF Fits
<1>3. \A n \in Nat : n \in S => n + 1 \in S
  BY <1>2
<1>4. Len(p.nodes) \in Nat
  BY DEF Proofs
<1> HIDE DEF S
<1>5. Len(p.nodes) \in S
  BY <1>1, <1>3, <1>4, SetInduction
<1>6. \E f : Fits(f, Len(p.nodes))
  BY <1>5 DEF S
<1> QED BY <1>6 DEF Digests, Fits, HashPair

(* The index that is left never grows.                                     *)
LEMMA PositionsValues ==
  ASSUME NEW p \in Proofs
  PROVE  /\ Len(p.nodes) \in Nat
         /\ Positions(p)[0] = p.index
         /\ \A k \in 1..Len(p.nodes) :
              Positions(p)[k] = Positions(p)[k - 1] \div 2
         /\ \A k \in 0..Len(p.nodes) :
              Positions(p)[k] \in Nat /\ Positions(p)[k] <= p.index
<1> DEFINE f == Positions(p)
           n == Len(p.nodes)
           S == {k \in Nat : k <= n => f[k] \in Nat /\ f[k] <= p.index}
<1>1. n \in Nat /\ p.index \in Nat
  BY SignBitAssumption DEF Proofs
<1>2. f = [k \in 0..n |-> IF k = 0 THEN p.index ELSE f[k - 1] \div 2]
  BY PositionsDefined
<1> HIDE DEF f, n
<1>3. f[0] = p.index /\ \A k \in 1..n : f[k] = f[k - 1] \div 2
  <2>1. 0 \in 0..n /\ \A k \in 1..n : k \in 0..n /\ k # 0
    BY <1>1
  <2> QED BY <1>2, <2>1, Zenon
<1>4. 0 \in S
  BY <1>1, <1>3
<1>5. ASSUME NEW k \in Nat, k \in S
      PROVE  k + 1 \in S
  <2> SUFFICES ASSUME k + 1 <= n
               PROVE  f[k + 1] \in Nat /\ f[k + 1] <= p.index
    OBVIOUS
  <2>1. k + 1 \in 1..n /\ (k + 1) - 1 = k /\ k <= n
    BY <1>1
  <2>2. f[k] \in Nat /\ f[k] <= p.index
    BY <1>5, <2>1
  <2>3. f[k + 1] = f[k] \div 2
    BY <1>3, <2>1
  <2> QED BY <2>2, <2>3, <1>1
<1> HIDE DEF S
<1>6. Nat \subseteq S
  BY <1>4, <1>5, SetInduction
<1>7. \A k \in 0..n : f[k] \in Nat /\ f[k] <= p.index
  BY <1>1, <1>6 DEF S
<1> QED BY <1>1, <1>3, <1>7 DEF f, n

(* Every digest on the way is over the node and the digest before it.      *)
LEMMA DigestsValues ==
  ASSUME NEW p \in Proofs
  PROVE  /\ Digests(p)[0] = p.txid
         /\ \A k \in 1..Len(p.nodes) :
              Digests(p)[k] =
                IF Positions(p)[k - 1] % 2 = 1
                THEN Hash256(p.nodes[k], Digests(p)[k - 1])
                ELSE Hash256(Digests(p)[k - 1], p.nodes[k])
<1> DEFINE f == Digests(p)
           n == Len(p.nodes)
<1>1. n \in Nat
  BY DEF Proofs
<1>2. f = [k \in 0..n |-> IF k = 0 THEN p.txid
                          ELSE HashPair(Pair(p, k, f[k - 1]))]
  BY DigestsDefined
<1> HIDE DEF f, n
<1>3. f[0] = p.txid /\ \A k \in 1..n : f[k] = HashPair(Pair(p, k, f[k - 1]))
  <2>1. 0 \in 0..n /\ \A k \in 1..n : k \in 0..n /\ k # 0
    BY <1>1
  <2> QED BY <1>2, <2>1, Zenon
<1>4. ASSUME NEW k, NEW d
      PROVE  HashPair(Pair(p, k, d)) =
               IF Positions(p)[k - 1] % 2 = 1 THEN Hash256(p.nodes[k], d)
                                              ELSE Hash256(d, p.nodes[k])
  BY DEF HashPair, Pair
<1> QED BY <1>3, <1>4 DEF f, n

(***************************************************************************)
(* The verifier computes what the proof says, whoever made it.             *)
(***************************************************************************)

(* The loop has come as far along the proof as step says.                  *)
Climbing ==
  phase = "loop" =>
    /\ ~proof.ragged /\ proof.nodes # <<>>
    /\ Ordinary => /\ idx = Positions(proof)[step]
                   /\ current = Digests(proof)[step]

(* The root comes from a header.                                           *)
Rooted ==
  phase \notin {"tree", "branch"} => proof.root = nodes[start + size - 1]

VInv == IInv /\ Climbing /\ Rooted /\ VerdictExact

LEMMA InitVInv == Init => VInv
<1> SUFFICES ASSUME Init PROVE VInv
  OBVIOUS
<1>1. phase = "tree"
  BY DEF Init
<1> QED BY <1>1, InitInv DEF VInv, Climbing, Rooted, VerdictExact, Answered

(* While the prover works there is nothing to say.                         *)
LEMMA ProverVInv ==
  ASSUME VInv, IInv', phase' \in {"tree", "branch"}
  PROVE  VInv'
BY DEF VInv, Climbing, Rooted, VerdictExact, Answered

LEMMA SubmitVInv == VInv /\ IInv' /\ Submit => VInv'
<1> SUFFICES ASSUME VInv, IInv', Submit PROVE VInv'
  OBVIOUS
<1>1. /\ phase' = "sent" /\ proof'.root = HonestProof.root
      /\ UNCHANGED <<nodes, start, size>>
  BY DEF Submit, treeVars, cursorVars
<1>2. HonestProof.root = nodes[start + size - 1]
  BY DEF HonestProof
<1> QED BY <1>1, <1>2 DEF VInv, Climbing, Rooted, VerdictExact, Answered

(* The shortcuts answer as the whole computation would.                    *)
LEMMA ShortcutsExact ==
  ASSUME TypeOK, Ordinary, EntryVerdict # "loop"
  PROVE  (EntryVerdict = "accepted") = Proves(proof)
<1>1. proof \in Proofs
  BY DEF TypeOK
<1>2. proof.nodes = <<>> => Folded(proof) = proof.txid
  <2> SUFFICES ASSUME proof.nodes = <<>> PROVE Folded(proof) = proof.txid
    OBVIOUS
  <2>1. Len(proof.nodes) = 0
    OBVIOUS
  <2> QED BY <1>1, <2>1, DigestsValues DEF Folded
<1>3. CASE proof.ragged
  BY <1>3 DEF EntryVerdict, Proves
<1>4. CASE ~proof.ragged /\ CoinbaseOnly
  BY <1>2, <1>4 DEF EntryVerdict, CoinbaseOnly, Proves
<1>5. CASE ~proof.ragged /\ proof.nodes = <<>> /\ ~CoinbaseOnly
  <2>1. EntryVerdict = NoNodes
    BY <1>5 DEF EntryVerdict
  <2>2. CASE impl \in {"rust", "sol"}
    BY <1>2, <1>5, <2>1, <2>2 DEF NoNodes, Proves
  <2>3. CASE impl \notin {"rust", "sol"}
    BY <1>2, <1>5, <2>1, <2>3 DEF NoNodes, Proves, CoinbaseOnly
  <2> QED BY <2>2, <2>3
<1>6. CASE ~proof.ragged /\ proof.nodes # <<>>
  BY <1>6 DEF EntryVerdict, CoinbaseOnly, Ordinary
<1> QED BY <1>3, <1>4, <1>5, <1>6

LEMMA AnswerAtOnceVInv == VInv /\ IInv' /\ AnswerAtOnce => VInv'
<1> SUFFICES ASSUME VInv, IInv', AnswerAtOnce PROVE VInv'
  OBVIOUS
<1>1. /\ phase = "sent" /\ phase' = EntryVerdict /\ EntryVerdict # "loop"
      /\ UNCHANGED <<impl, nodes, start, size, proof>>
  BY DEF AnswerAtOnce, Answer, blockVars, treeVars, cursorVars
<1>2. TypeOK
  BY DEF VInv, IInv
<1>3. EntryVerdict \in {"accepted", "rejected"}
  BY <1>1 DEF EntryVerdict, NoNodes
<1>4. Ordinary' = Ordinary /\ Proves(proof)' = Proves(proof)
  BY <1>1 DEF Ordinary, Proves, Folded, Digests, Pair, Positions
<1>5. VerdictExact'
  BY <1>1, <1>2, <1>4, ShortcutsExact DEF VerdictExact
<1>6. Rooted'
  BY <1>1 DEF VInv, Rooted
<1> QED BY <1>1, <1>3, <1>5, <1>6 DEF VInv, Climbing

LEMMA EnterLoopVInv == VInv /\ IInv' /\ EnterLoop => VInv'
<1> SUFFICES ASSUME VInv, IInv', EnterLoop PROVE VInv'
  OBVIOUS
<1>1. /\ phase = "sent" /\ phase' = "loop" /\ EntryVerdict = "loop"
      /\ current' = proof.txid /\ idx' = proof.index /\ step' = 0
      /\ UNCHANGED <<impl, nodes, start, size, proof>>
  BY DEF EnterLoop, blockVars, treeVars, cursorVars
<1>2. proof \in Proofs
  BY DEF VInv, IInv, TypeOK
<1>3. ~proof.ragged /\ proof.nodes # <<>>
  BY <1>1 DEF EntryVerdict, NoNodes
<1>4. Positions(proof)[0] = proof.index /\ Digests(proof)[0] = proof.txid
  BY <1>2, PositionsValues, DigestsValues
<1>5. Positions(proof)' = Positions(proof) /\ Digests(proof)' = Digests(proof)
  BY <1>1 DEF Digests, Pair, Positions
<1>6. Climbing'
  BY <1>1, <1>3, <1>4, <1>5 DEF Climbing
<1>7. Rooted'
  BY <1>1 DEF VInv, Rooted
<1> QED BY <1>1, <1>6, <1>7 DEF VInv, VerdictExact, Answered

(* Every port shifts an index below the sign bit as division does, and      *)
(* reads its low bit off the rest.                                         *)
LEMMA FoldNodeVInv == VInv /\ IInv' /\ FoldNode => VInv'
<1> SUFFICES ASSUME VInv, IInv', FoldNode PROVE VInv'
  OBVIOUS
<1>1. /\ phase = "loop" /\ phase' = "loop" /\ step < Len(proof.nodes)
      /\ current' = Fold(proof.nodes[step + 1])
      /\ idx' = Shifted(idx) /\ step' = step + 1
      /\ UNCHANGED <<impl, nodes, start, size, proof>>
  BY DEF FoldNode, blockVars, treeVars, cursorVars
<1>2. proof \in Proofs /\ step \in 0..Len(proof.nodes)
  BY DEF VInv, IInv, TypeOK
<1>3. /\ Positions(proof)' = Positions(proof) /\ Digests(proof)' = Digests(proof)
      /\ Ordinary' = Ordinary
  BY <1>1 DEF Digests, Pair, Positions, Ordinary
<1>4. ASSUME Ordinary
      PROVE  /\ idx' = Positions(proof)[step + 1]
             /\ current' = Digests(proof)[step + 1]
  <2>1. idx = Positions(proof)[step] /\ current = Digests(proof)[step]
    BY <1>1, <1>4 DEF VInv, Climbing
  <2>2. /\ Len(proof.nodes) \in Nat
        /\ step + 1 \in 1..Len(proof.nodes) /\ (step + 1) - 1 = step
    BY <1>1, <1>2, PositionsValues
  <2>3. idx \in Nat /\ idx <= proof.index /\ proof.index \in Nat
    BY <1>2, <2>1, PositionsValues, SignBitAssumption DEF Proofs
  <2>4. Shifted(idx) = idx \div 2
    BY <1>4, <2>3, SignBitAssumption DEF Shifted, Ordinary
  <2>5. IsRight(idx) = (idx % 2 = 1)
    <3>1. idx % 2 = 1 => idx > 0
      BY <2>3
    <3> QED BY <3>1 DEF IsRight
  <2>6. Positions(proof)[step + 1] = Positions(proof)[step] \div 2
    BY <1>2, <2>2, PositionsValues
  <2>7. Digests(proof)[step + 1] =
          IF Positions(proof)[step] % 2 = 1
          THEN Hash256(proof.nodes[step + 1], Digests(proof)[step])
          ELSE Hash256(Digests(proof)[step], proof.nodes[step + 1])
    BY <1>2, <2>2, DigestsValues
  <2>8. current' = Digests(proof)[step + 1]
    BY <1>1, <2>1, <2>5, <2>7 DEF Fold
  <2> QED BY <1>1, <2>1, <2>4, <2>6, <2>8
<1>5. Climbing'
  BY <1>1, <1>3, <1>4 DEF VInv, Climbing
<1>6. Rooted'
  BY <1>1 DEF VInv, Rooted
<1> QED BY <1>1, <1>5, <1>6 DEF VInv, VerdictExact, Answered

LEMMA CompareRootVInv == VInv /\ IInv' /\ CompareRoot => VInv'
<1> SUFFICES ASSUME VInv, IInv', CompareRoot PROVE VInv'
  OBVIOUS
<1>1. /\ phase = "loop" /\ step = Len(proof.nodes)
      /\ phase' = (IF current = proof.root THEN "accepted" ELSE "rejected")
      /\ UNCHANGED <<impl, nodes, start, size, proof>>
  BY DEF CompareRoot, Answer, blockVars, treeVars, cursorVars
<1>2. Ordinary' = Ordinary /\ Proves(proof)' = Proves(proof)
  BY <1>1 DEF Ordinary, Proves, Folded, Digests, Pair, Positions
<1>3. ASSUME Ordinary
      PROVE  Proves(proof) = (current = proof.root)
  BY <1>1, <1>3 DEF VInv, Climbing, Proves, Folded
<1>4. VerdictExact'
  BY <1>1, <1>2, <1>3 DEF VerdictExact
<1>5. Rooted'
  BY <1>1 DEF VInv, Rooted
<1> QED BY <1>1, <1>4, <1>5 DEF VInv, Climbing

LEMMA NextVInv == VInv /\ [Next]_vars => VInv'
<1> SUFFICES ASSUME VInv, [Next]_vars PROVE VInv'
  OBVIOUS
<1>0. IInv'
  BY NextInv DEF VInv
<1>1. CASE HashLevel \/ TreeDone \/ PushSibling
  <2>1. phase' \in {"tree", "branch"}
    BY <1>1 DEF HashLevel, TreeDone, PushSibling
  <2> QED BY <1>0, <2>1, ProverVInv
<1>2. CASE Submit
  BY <1>0, <1>2, SubmitVInv
<1>3. CASE AnswerAtOnce
  BY <1>0, <1>3, AnswerAtOnceVInv
<1>4. CASE EnterLoop
  BY <1>0, <1>4, EnterLoopVInv
<1>5. CASE FoldNode
  BY <1>0, <1>5, FoldNodeVInv
<1>6. CASE CompareRoot
  BY <1>0, <1>6, CompareRootVInv
<1>7. CASE UNCHANGED vars
  <2>1. UNCHANGED <<phase, impl, nodes, start, size, proof, current, idx, step>>
    BY <1>7 DEF vars, blockVars, treeVars, cursorVars, loopVars
  <2>2. Climbing'
    BY <2>1, SMTT(30) DEF VInv, Climbing, Ordinary, Digests, Pair, Positions
  <2>3. VerdictExact'
    <3>1. Ordinary' = Ordinary /\ Proves(proof)' = Proves(proof)
      BY <2>1 DEF Ordinary, Proves, Folded, Digests, Pair, Positions
    <3> QED BY <2>1, <3>1 DEF VInv, VerdictExact, Answered
  <2> QED BY <1>0, <2>1, <2>2, <2>3 DEF VInv, Rooted
<1> QED
  BY <1>1, <1>2, <1>3, <1>4, <1>5, <1>6, <1>7 DEF Next, Done

LEMMA SpecVInv == Spec => []VInv
BY InitVInv, NextVInv, PTL DEF Spec

(* Each of the six ports accepts exactly the proofs whose transaction       *)
(* hashes to the root along the nodes, by whatever shortcut it answers and  *)
(* whatever the hash function is.                                          *)
THEOREM VerdictsExact == Spec => []VerdictExact
<1>1. VInv => VerdictExact
  BY DEF VInv
<1> QED BY <1>1, SpecVInv, PTL

(***************************************************************************)
(* An accepted proof goes from the root back into the tree.                *)
(***************************************************************************)

(* The prover has come to the last level, which is the root.               *)
LEMMA AtTheTop ==
  ASSUME TypeOK, Stacked, Cursor, size = 1, phase # "tree"
  PROVE  start + size - 1 = starts[Len(sizes)] /\ sizes[Len(sizes)] = 1
<1>1. /\ Len(branch) \in Nat /\ Len(sizes) \in Nat \ {0}
  BY Histories
<1>2. /\ Len(branch) + 1 <= Len(sizes) /\ sizes[Len(branch) + 1] = 1
      /\ start = starts[Len(branch) + 1] /\ sizes[Len(sizes)] = 1
  BY DEF Cursor
<1>3. Len(branch) + 1 \in 1..Len(sizes) - 1 => sizes[Len(branch) + 1] > 1
  BY DEF Stacked
<1>4. Len(sizes) = Len(branch) + 1
  BY <1>1, <1>2, <1>3
<1>5. start \in Nat
  BY Scalars
<1> QED BY <1>2, <1>4, <1>5

(* The digest d is a node of level l.                                      *)
OnLevel(d, l) == \E m \in 0..sizes[l] - 1 : nodes[starts[l] + m] = d

(* What stands below a node of the tree in the proof stands below it in     *)
(* the tree.                                                               *)
LEMMA OneLevelDown ==
  ASSUME TypeOK, Stacked, Hashed, NoCollision,
         NEW k \in 1..Len(proof.nodes), NEW l \in 1..Len(sizes) - 1,
         OnLevel(Digests(proof)[k], l + 1)
  PROVE  OnLevel(Digests(proof)[k - 1], l)
<1> DEFINE d == Digests(proof)[k - 1]
           n == sizes[l]
<1>1. n \in Nat \ {0, 1} /\ sizes[l + 1] = Half(n)
  <2>1. n \in Nat \ {0} /\ Len(sizes) \in Nat \ {0}
    BY Histories
  <2>2. n > 1 /\ sizes[l + 1] = Half(n)
    BY DEF Stacked
  <2> QED BY <2>1, <2>2
<1>2. PICK m \in 0..Half(n) - 1 : nodes[starts[l + 1] + m] = Digests(proof)[k]
  BY <1>1 DEF OnLevel
<1> DEFINE a == 2 * m
           b == Lesser(2 * m + 1, n - 1)
<1>3. Pair(proof, k, d) = <<nodes[starts[l] + a], nodes[starts[l] + b]>>
  BY <1>2 DEF NoCollision
<1>4. a \in 0..n - 1 /\ b \in 0..n - 1
  BY <1>1, PairInside
<1>5. d = nodes[starts[l] + a] \/ d = nodes[starts[l] + b]
  BY <1>3 DEF Pair
<1> QED BY <1>4, <1>5 DEF OnLevel

(* As many levels down as the proof has nodes and the tree has levels.     *)
LEMMA Descent ==
  ASSUME TypeOK, Stacked, Hashed, NoCollision,
         OnLevel(Digests(proof)[Len(proof.nodes)], Len(sizes))
  PROVE  \A j \in Nat :
           j <= Len(proof.nodes) /\ j < Len(sizes) =>
             OnLevel(Digests(proof)[Len(proof.nodes) - j], Len(sizes) - j)
<1> DEFINE n == Len(proof.nodes)
           h == Len(sizes)
           S == {j \in Nat : j <= n /\ j < h =>
                   OnLevel(Digests(proof)[n - j], h - j)}
<1>1. n \in Nat /\ h \in Nat \ {0}
  <2>1. n \in Nat
    BY DEF TypeOK, Proofs
  <2> QED BY <2>1, Histories
<1>2. 0 \in S
  <2>1. n - 0 = n /\ h - 0 = h
    BY <1>1
  <2> QED BY <2>1
<1>3. ASSUME NEW j \in Nat, j \in S
      PROVE  j + 1 \in S
  <2> SUFFICES ASSUME j + 1 <= n, j + 1 < h
               PROVE  OnLevel(Digests(proof)[n - (j + 1)], h - (j + 1))
    OBVIOUS
  <2>0. n - j \in 1..n /\ h - (j + 1) \in 1..h - 1
    BY <1>1
  <2>1. PICK k \in 1..n : k = n - j
    BY <2>0
  <2>2. PICK l \in 1..h - 1 : l = h - (j + 1)
    BY <2>0
  <2>3. k - 1 = n - (j + 1) /\ l + 1 = h - j /\ j <= n /\ j < h
    BY <1>1, <2>1, <2>2
  <2>4. OnLevel(Digests(proof)[k], l + 1)
    BY <1>3, <2>1, <2>3
  <2>5. OnLevel(Digests(proof)[k - 1], l)
    BY <2>4, OneLevelDown
  <2> QED BY <2>2, <2>3, <2>5
<1> HIDE DEF S
<1>4. Nat \subseteq S
  BY <1>2, <1>3, SetInduction
<1> QED BY <1>4 DEF S

(* Nodes of a level are nodes of the tree, those of the first level are     *)
(* the transaction ids.                                                    *)
LEMMA LevelInside ==
  ASSUME TypeOK, Stacked, Hashed, NEW l \in 1..Len(sizes), NEW d, OnLevel(d, l)
  PROVE  /\ \E k \in DOMAIN nodes : nodes[k] = d
         /\ l = 1 => \E k \in DOMAIN txs : txs[k] = d
<1>1. PICK m \in 0..sizes[l] - 1 : nodes[starts[l] + m] = d
  BY DEF OnLevel
<1>2. /\ starts[l] \in Nat /\ sizes[l] \in Nat \ {0}
      /\ Len(sizes) \in 1..Len(sizes)
      /\ starts[Len(sizes)] \in Nat /\ sizes[Len(sizes)] \in Nat \ {0}
      /\ DOMAIN nodes = 0..starts[Len(sizes)] + sizes[Len(sizes)] - 1
  BY Histories, SMTT(30)
<1>3. starts[l] + sizes[l] <= starts[Len(sizes)] + sizes[Len(sizes)]
  BY DEF Stacked
<1>4. starts[l] + m \in DOMAIN nodes
  <2> DEFINE a == starts[l]  n == sizes[l]
             t == starts[Len(sizes)] + sizes[Len(sizes)]
  <2>1. /\ a \in Nat /\ n \in Nat \ {0} /\ t \in Nat /\ a + n <= t
        /\ m \in 0..n - 1 /\ DOMAIN nodes = 0..t - 1
    BY <1>2, <1>3, SMTT(30)
  <2> HIDE DEF a, n, t
  <2>2. a + m \in 0..t - 1
    BY ONLY <2>1
  <2> QED BY <2>1, <2>2 DEF a
<1>5. ASSUME l = 1 PROVE \E k \in DOMAIN txs : txs[k] = d
  <2>1. starts[1] = 0 /\ sizes[1] = Len(txs) /\ txs \in Seq(Digest)
    BY BlockAssumption DEF Stacked, TypeOK
  <2>2. m \in 0..Len(txs) - 1 /\ starts[l] + m = m
    BY <1>5, <2>1
  <2>3. txs[m + 1] = d
    BY <1>1, <2>2 DEF Hashed
  <2>4. m + 1 \in DOMAIN txs
    BY <2>1, <2>2
  <2> QED BY <2>3, <2>4
<1> QED BY <1>1, <1>4, <1>5

LEMMA MemberAccepted ==
  ASSUME VInv, NoCollision
  PROVE  AcceptedMember
<1> SUFFICES ASSUME phase = "accepted", Ordinary
             PROVE  /\ \E k \in DOMAIN nodes : nodes[k] = proof.txid
                    /\ Len(proof.nodes) = Len(sizes) - 1 =>
                         \E k \in DOMAIN txs : txs[k] = proof.txid
  BY DEF AcceptedMember
<1> DEFINE n == Len(proof.nodes)
           h == Len(sizes)
<1>0. TypeOK /\ Stacked /\ Hashed /\ Cursor /\ VerdictExact /\ Rooted
  BY DEF VInv, IInv
<1>1. proof \in Proofs /\ n \in Nat /\ h \in Nat \ {0}
  <2>1. proof \in Proofs /\ n \in Nat
    BY <1>0 DEF TypeOK, Proofs
  <2> QED BY <1>0, <2>1, Histories
<1>2. size = 1
  BY <1>0 DEF Cursor
<1>3. Digests(proof)[n] = nodes[starts[h]]
  <2>1. Folded(proof) = proof.root
    BY <1>0 DEF VerdictExact, Answered, Proves
  <2>2. proof.root = nodes[starts[h]]
    BY <1>0, <1>2, AtTheTop DEF Rooted
  <2> QED BY <2>1, <2>2 DEF Folded
<1>4. OnLevel(Digests(proof)[n], h)
  <2>1. sizes[h] = 1 /\ starts[h] \in Nat
    BY <1>0, <1>1, <1>2, AtTheTop, Histories
  <2>2. 0 \in 0..sizes[h] - 1 /\ starts[h] + 0 = starts[h]
    BY <2>1
  <2> QED BY <1>3, <2>2 DEF OnLevel
<1>5. \A j \in Nat : j <= n /\ j < h => OnLevel(Digests(proof)[n - j], h - j)
  BY <1>0, <1>4, Descent
<1>6. n < h
  <2> SUFFICES ASSUME h <= n PROVE FALSE
    BY <1>1
  <2>1. h - 1 \in Nat /\ h - 1 <= n /\ h - 1 < h /\ h - (h - 1) = 1
        /\ n - (h - 1) \in 1..n
    BY <1>1
  <2>2. OnLevel(Digests(proof)[n - (h - 1)], 1)
    BY <1>5, <2>1
  <2>3. \E k \in DOMAIN txs : txs[k] = Digests(proof)[n - (h - 1)]
    BY <1>0, <1>1, <2>2, LevelInside
  <2> QED BY <2>1, <2>3 DEF NoCollision
<1>7. OnLevel(Digests(proof)[0], h - n)
  BY <1>1, <1>5, <1>6
<1>8. Digests(proof)[0] = proof.txid
  BY <1>1, DigestsValues
<1>9. h - n \in 1..h /\ (n = h - 1 => h - n = 1)
  BY <1>1, <1>6
<1> QED BY <1>0, <1>7, <1>8, <1>9, LevelInside

(* What a port accepts, of whatever length, begins in the tree: at a        *)
(* transaction of the block if the proof is as long as the tree is high,    *)
(* for every hash function in whose digests the verifier meets no           *)
(* collision with the tree.                                                *)
THEOREM AcceptedIsMember == Spec => [](NoCollision => AcceptedMember)
<1>1. VInv => (NoCollision => AcceptedMember)
  BY MemberAccepted
<1> QED BY <1>1, SpecVInv, PTL

=============================================================================
