------------------------- MODULE MCCheckBitcoinSigs -------------------------
(***************************************************************************)
(* Numbers of two digits in base 4, so that a sequence number has its      *)
(* eighth bit at 2 and its top bit at 8; locktimes up to 3 and from 8 up   *)
(* to 11 are past.  Two outpoints, two outputs, three keys of which two    *)
(* are each other's negative.                                              *)
(***************************************************************************)
EXTENDS CheckBitcoinSigs

MCPoints == {[x |-> 1, y |-> 4], [x |-> 1, y |-> 7], [x |-> 2, y |-> 4]}

MCOutpoints == {"o1", "o2"}
Out(v) == [value |-> v, script |-> "there"]
In(o, s) == [outpoint |-> o, sequence |-> s]

MCPayments ==
  {[outpoint |-> o, inputValue |-> 5, outputValue |-> v,
    outputScript |-> "there"] : o \in MCOutpoints, v \in {3, 4}}

MCPrevouts ==
  {[script |-> scriptCode(OwnerHash([x |-> 1, y |-> 7])), value |-> v] :
     v \in {5, 6}}

Tx(version, vin, vout, locktime) ==
  [version |-> version, vin |-> vin, vout |-> vout, locktime |-> locktime]

Outs == {<<Out(3)>>, <<Out(4)>>, <<Out(3), Out(4)>>, <<Out(3), Out(3)>>}

(* One input with every kind of version, sequence number and locktime;     *)
(* pairs of inputs; the order of inputs and of outputs; and vectors that   *)
(* are refused.                                                            *)
MCTransactions ==
  {Tx(v, <<In("o1", s)>>, <<Out(3)>>, l) :
     v \in {1, 2, 5}, s \in {0, 2, 8, 15}, l \in {0, 3, 4, 11, 12}} \cup
  {Tx(2, <<In("o1", s), In("o2", r)>>, outs, l) :
     s \in {0, 15}, r \in {0, 2, 15}, outs \in Outs, l \in {0, 4}} \cup
  {Tx(1, <<In("o2", 0), In("o1", 0)>>, <<Out(4), Out(3)>>, 0)} \cup
  {Tx(1, <<In(o, 0)>>, outs, 0) : o \in MCOutpoints, outs \in Outs} \cup
  {Tx(1, <<>>, <<Out(3)>>, 0), Tx(1, <<In("o1", 0)>>, <<>>, 0)}
=============================================================================
