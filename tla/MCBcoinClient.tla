--------------------------- MODULE MCBcoinClient ---------------------------
(***************************************************************************)
(* A genesis block and three branches.  Transactions of one kind are       *)
(* confirmed in a2 and in b2 at the same height and in c3 one higher;      *)
(* those of the other in a2 alone, in b3 one higher, or nowhere else.      *)
(*                                                                         *)
(* Bytes 0..4 with the tag 4, everything of fixed size one byte.           *)
(***************************************************************************)
EXTENDS BcoinClient

MCBefore == [k \in Kinds |-> 1]
MCAfter == [k \in Kinds |-> IF k = "vin" THEN 1 ELSE 0]

In(script) == [before |-> <<3>>, script |-> script, after |-> <<1>>]
Out(script) == [before |-> <<2>>, script |-> script, after |-> <<>>]
Make(marked, ins, outs) ==
  [version |-> <<1>>, marked |-> marked, ins |-> ins, outs |-> outs,
   witness |-> IF marked THEN <<1, 0, 4>> ELSE <<>>, locktime |-> <<0>>]

(* Two narrow transactions; then a script, a script, a count above what a  *)
(* byte holds, and one that the cut comes to the end of nevertheless.      *)
MCTx ==
  <<Make(FALSE, <<In(<<4>>)>>, <<Out(<<1, 2>>), Out(<<>>)>>),
    Make(TRUE, <<In(<<>>), In(<<0, 1, 2>>)>>, <<Out(<<4>>)>>),
    Make(FALSE, <<In(<<1, 1, 1, 1>>)>>, <<Out(<<>>)>>),
    Make(TRUE, <<In(<<>>)>>, <<Out(<<1, 2, 3, 4, 0>>)>>),
    Make(FALSE, <<In(<<>>)>>, [k \in 1..4 |-> Out(<<>>)]),
    Make(FALSE, <<In(<<0, 2, 3, 2>>)>>, <<Out(<<>>)>>)>>

MCWanted == DOMAIN MCTx

MCBlocks == {"g", "a2", "a3", "a4", "b2", "b3", "c2", "c3"}

MCParent ==
  [b \in MCBlocks \ {"g"} |->
     CASE b \in {"a2", "b2", "c2"} -> "g"
       [] b = "a3" -> "a2"
       [] b = "a4" -> "a3"
       [] b = "b3" -> "b2"
       [] b = "c3" -> "c2"]

MCTxs ==
  [b \in MCBlocks |->
     CASE b = "a2" -> MCWanted
       [] b \in {"b2", "c3"} -> {t \in MCWanted : t % 2 = 1}
       [] b = "b3" -> {t \in MCWanted : t % 2 = 0}
       [] OTHER -> {}]

(* The coinbase transaction makes every root differ. *)
MCRoot ==
  LET numbered == <<"g", "a2", "a3", "a4", "b2", "b3", "c2", "c3">>
  IN  [b \in MCBlocks |-> CHOOSE n \in 1..8 : numbered[n] = b]
=============================================================================
