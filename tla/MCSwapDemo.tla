----------------------------- MODULE MCSwapDemo -----------------------------
(***************************************************************************)
(* Bytes 0..5 with the tag 5, headers of two bytes, everything else of one *)
(* or two: witnesses for transactions that pay and that do not, with none, *)
(* one or two headers and nodes, and each of them with any one byte        *)
(* replaced, cut short, or longer; three stacks behind the witness; system *)
(* calls that fail, and listings that ask for less, more or something      *)
(* else.                                                                   *)
(***************************************************************************)
EXTENDS SwapDemo

MCBefore == [k \in Kinds |-> 1]
MCAfter == [k \in Kinds |-> IF k = "vin" THEN 1 ELSE 0]

(***************************************************************************)
(* The functions the script calls, on such bytes.                          *)
(***************************************************************************)
MCHash256(b) ==
  LET sum[k \in 0..Len(b)] == IF k = 0 THEN 1 ELSE sum[k - 1] + k * b[k]
  IN <<sum[Len(b)] % Base>>

Folded(txid, nodes, index) ==
  LET fold[k \in 0..Len(nodes)] ==
        IF k = 0 THEN txid
        ELSE IF (index \div 2 ^ (k - 1)) % 2 = 1
             THEN MCHash256(<<nodes[k]>> \o fold[k - 1])
             ELSE MCHash256(fold[k - 1] \o <<nodes[k]>>)
  IN fold[Len(nodes)]

MCProve(txid, root, nodes, index) ==
  /\ Folded(txid, nodes, index) = root
  /\ nodes = <<>> => index = 0

(* A header is its work, which is its digest, and its root; behind the     *)
(* first one the digest of its parent is in the place of the root.         *)
WorkAt(hs, k) == hs[2 * k - 1]
LinkedAt(hs, k) == k = 1 \/ hs[2 * k] = WorkAt(hs, k - 1)

MCWork(hs) ==
  LET work[k \in 0..Len(hs) \div 2] ==
        IF k = 0 THEN 0
        ELSE CASE work[k - 1] \in {InvalidChain, LowWork} -> work[k - 1]
               [] work[k - 1] < LowWork /\ ~LinkedAt(hs, k) -> InvalidChain
               [] work[k - 1] < LowWork /\ LinkedAt(hs, k) ->
                    IF WorkAt(hs, k) = 0 THEN LowWork
                    ELSE work[k - 1] + WorkAt(hs, k)
  IN work[Len(hs) \div 2]

MCWorkOf(hs) ==
  LET n == Len(hs) \div 2
      sum[k \in 0..n] == IF k = 0 THEN 0 ELSE sum[k - 1] + WorkAt(hs, k)
  IN  IF \A k \in 1..n : LinkedAt(hs, k) /\ WorkAt(hs, k) > 0
      THEN sum[n] ELSE -1

(***************************************************************************)
(* The cases.                                                              *)
(***************************************************************************)
Vin1 == <<1, 2, 1, 3, 0>>
Vin2 == <<2, 2, 0, 0, 1, 0, 0>>
Pay == <<0, 4, OP_RETURN, 2, 3, 1>>
Vouts ==
  {<<2, 1, 0>> \o Pay,                            \* pays
   <<2, 1, 1, 3>> \o <<0, 3, OP_RETURN, 1, 3>>,   \* a push that is too short
   <<2, 1, 0, 0, 1, OP_RETURN>>,                  \* a script that is
   <<1, 1, 0>>}                                   \* no second output
Transactions ==
  {[vin |-> v, vout |-> o] : v \in {Vin1, Vin2}, o \in Vouts}

(* The witness of a transaction with these nodes, this index and this work *)
(* in each of the headers.                                                 *)
Template(t, nodes, index, works) ==
  LET txid == MCHash256(<<1>> \o t.vin \o t.vout \o <<1>>)
      header(k) == <<works[k], IF k > 1 THEN works[k - 1]
                               ELSE Folded(txid, nodes, index)[1]>>
      hs[k \in 0..Len(works)] == IF k = 0 THEN <<>> ELSE hs[k - 1] \o header(k)
  IN <<0, Len(works)>> \o hs[Len(works)] \o <<Len(nodes)>> \o nodes
       \o <<index, 1>> \o t.vin \o t.vout \o <<1, 0>>

Templates ==
  {Template(t, <<2>>, 1, <<2>>) : t \in Transactions} \cup
  {Template([vin |-> Vin1, vout |-> <<2, 1, 0>> \o Pay], nodes, 0, works) :
     nodes \in {<<>>, <<2, 3>>}, works \in {<<>>, <<1, 2>>, <<3, 0>>}}

Replaced(s) == {[s EXCEPT ![k] = v] : k \in DOMAIN s, v \in Bytes}
Cut(s) == {SubSeq(s, 1, k) : k \in 0..Len(s)}
Witnesses ==
  UNION {Replaced(s) \cup Cut(s) \cup {s \o <<4>>} : s \in Templates}

Script(ret, len, verified, args) ==
  [ret |-> ret, len |-> len, verified |-> verified, args |-> args]
Args(amount, work, outpoint) == amount \o work \o outpoint
Listed(args) == Script("CKB_SUCCESS", 9, TRUE, args)
Loaded(bytes) == [ret |-> "CKB_SUCCESS", bytes |-> bytes]
Locked(ret, verified) ==
  [ret |-> ret, verified |-> verified, code_hash |-> <<3, 1, 0>>]
Case(s, w, l, c, b) ==
  [script |-> s, witness |-> w, lock |-> l, capacity |-> c, beyond |-> b]

Good == Listed(Args(<<5, 0>>, <<0, 2>>, <<2>>))
Mine == Locked("CKB_SUCCESS", TRUE)
Paid == Loaded(<<0, 1>>)
Scripts ==
  {Listed(Args(a, w, o)) : a \in {<<0, 0>>, <<5, 0>>, <<0, 2>>},
     w \in {<<0, 0>>, <<0, 2>>, <<1, 0>>, <<5, 5>>}, o \in {<<2>>, <<3>>}}
    \cup {Script("CKB_ITEM_MISSING", 9, TRUE, Good.args),
          Script("CKB_SUCCESS", ScriptSize + 1, TRUE, Good.args),
          Script("CKB_SUCCESS", 9, FALSE, Good.args), Listed(Good.args \o <<2>>)}

MCCases ==
  {Case(Good, Loaded(b), Mine, Paid, s) :
     b \in Witnesses, s \in {<<>>, [k \in 1..40 |-> 1],
                             <<3, 1, OP_RETURN, 2>> \o [k \in 1..9 |-> 4]}}
    \cup {Case(s, Loaded(b), Mine, Paid, <<>>) : s \in Scripts, b \in Templates}
    \cup {Case(Good, w, l, c, <<>>) :
            w \in {Loaded(b) : b \in Templates} \cup
                  {[ret |-> "CKB_ITEM_MISSING", bytes |-> <<>>],
                   Loaded([k \in 1..MaxWitness + 1 |-> 1])},
            l \in {Locked("CKB_SUCCESS", v) : v \in BOOLEAN} \cup
                  {Locked("CKB_INDEX_OUT_OF_BOUND", TRUE)},
            c \in {Paid, Loaded(<<4, 0>>),
                   [ret |-> "CKB_INDEX_OUT_OF_BOUND", bytes |-> <<0, 0>>]}}

ASSUME InstanceWorkTold == WorkTold
=============================================================================
