-------------------------- MODULE MCProofExchange --------------------------
(***************************************************************************)
(* Digests of two bytes, numbers of one, headers of six.  The hash has no  *)
(* collision among the strings met here.  The vin is <<1>>, or <<1, 1>>    *)
(* where a second vector is wanted, the vout <<2>>.                        *)
(***************************************************************************)
EXTENDS ProofExchange

MCByte == 0..9999

MCHash(b) ==
  LET sum[k \in 0..Len(b)] ==
        IF k = 0 THEN 17 ELSE (sum[k - 1] * 31 + b[k] + 7) % 9973
  IN <<sum[Len(b)], Len(b)>>

MCIsVin(b) == b = <<1>>
MCIsVout(b) == b = <<2>>

Part(nodes, k) == SubSeq(nodes, DigestSize * (k - 1) + 1, DigestSize * k)

(* prove: Rust takes any proof of one node, the others fold. *)
MCProve(p, txid, root, nodes, i) ==
  LET steps == Len(nodes) \div DigestSize
      up[k \in 0..steps] ==
        IF k = 0 THEN txid
        ELSE IF (i \div 2 ^ (k - 1)) % 2 = 1
             THEN MCHash(Part(nodes, k) \o up[k - 1])
             ELSE MCHash(up[k - 1] \o Part(nodes, k))
  IN /\ Len(nodes) % DigestSize = 0 /\ Len(txid) = DigestSize
     /\ \/ p = "rust" /\ steps = 1
        \/ steps > 0 /\ up[steps] = root
        \/ steps = 0 /\ i = 0 /\ txid = root

(* A proof all parts of which agree, from what may be chosen freely. *)
Honest(number, nodes, i, rest) ==
  LET txid == MCHash(number \o <<1, 2>> \o number)
      root == CHOOSE r \in {MCHash(txid), txid} \cup
                {MCHash(txid \o n) : n \in {nodes}} \cup
                {MCHash(n \o txid) : n \in {nodes}} \cup
                {MCHash(MCHash(SubSeq(n, 1, 2) \o txid) \o SubSeq(n, 3, 4)) :
                   n \in {nodes \o <<0, 0, 0, 0>>}} :
                MCProve("js", txid, r, nodes, i)
      raw == <<5, 0, 6>> \o root \o rest
  IN [proof |-> [f \in Fields |->
        CASE f \in {"version", "locktime"} -> number
          [] f = "vin" -> <<1>> [] f = "vout" -> <<2>>
          [] f = "tx_id" -> txid [] f = "intermediate_nodes" -> nodes
          [] f = "raw" -> raw [] f = "hash" -> MCHash(raw)
          [] f = "prevhash" -> <<0, 6>> [] f = "merkle_root" -> root],
      index |-> i]

(* The same proof in a block without a parent. *)
Genesis(o) ==
  LET raw == <<5, 0, 0>> \o o.proof["merkle_root"] \o <<7>>
  IN [o EXCEPT !.proof["raw"] = raw, !.proof["hash"] = MCHash(raw),
               !.proof["prevhash"] = <<0, 0>>]

(* Blocks of one, of two, and of three or four; a version and a locktime   *)
(* of two bytes; a header of one byte more; a header that holds another    *)
(* parent; a header whose parent is all zeros; and a transaction all of    *)
(* which is in the vout, which is one to Python's parser.                  *)
MCOriginals ==
  {Honest(<<0>>, <<>>, 0, <<7>>), Honest(<<0>>, <<3, 4>>, 0, <<7>>),
   Honest(<<0>>, <<3, 4>>, 1, <<7>>), Honest(<<0>>, <<3, 4, 8, 9>>, 1, <<7>>),
   Honest(<<0, 0>>, <<3, 4>>, 1, <<7>>), Honest(<<0>>, <<3, 4>>, 0, <<7, 7>>),
   [Honest(<<0>>, <<3, 4>>, 1, <<7>>) EXCEPT !.proof["prevhash"] = <<0, 5>>],
   Genesis(Honest(<<0>>, <<>>, 0, <<7>>)),
   [Honest(<<0>>, <<3, 4>>, 0, <<7>>) EXCEPT !.proof["vin"] = <<>>,
                                             !.proof["vout"] = <<1, 2>>]}

(* The text gone, spoilt, spoilt so that JavaScript does not notice,        *)
(* emptied, without its prefix, or of other bytes.                          *)
MCTexts(t) ==
  {[form |-> "absent", hex |-> <<>>], [form |-> "bad", hex |-> <<>>],
   [form |-> "half", hex |-> <<9>> \o SubSeq(t.hex, 2, Len(t.hex))],
   [form |-> IF t.hex = <<>> THEN "bad" ELSE "half", hex |-> t.hex],
   [form |-> "bare", hex |-> <<>>], [form |-> "0x", hex |-> <<>>],
   [t EXCEPT !.form = "bare"], [t EXCEPT !.hex = @ \o <<1>>],
   [t EXCEPT !.hex = <<9>> \o SubSeq(@, 2, Len(@))]}
=============================================================================
