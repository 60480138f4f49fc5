------------------------- MODULE MCFieldExtraction -------------------------
(***************************************************************************)
(* Bytes 0..19 with the tag 19; hashes of 2 and 6 bytes; pushes of up to 9 *)
(* bytes.  The outputs are the standard scripts and OP_RETURNs, each with  *)
(* every byte replaced in turn, with one byte more or less, with a wrong   *)
(* length in front, every script of up to two bytes, and two long scripts  *)
(* whose length needs a wide integer.                                      *)
(***************************************************************************)
EXTENDS FieldExtraction, FiniteSets

CONSTANT OP_PUSHDATA1

Byte == 0..Base - 1
Repeat(b, len) == [k \in 1..len |-> b]

WPKH(h) == <<0, HashSize>> \o Repeat(h, HashSize)
WSH(h) == <<0, LongHashSize>> \o Repeat(h, LongHashSize)
PKH(h) == <<OP_DUP, OP_HASH160, HashSize>> \o Repeat(h, HashSize)
            \o <<OP_EQUALVERIFY, OP_CHECKSIG>>
SH(h) == <<OP_HASH160, HashSize>> \o Repeat(h, HashSize) \o <<OP_EQUAL>>
Pushing(len) == <<OP_RETURN, len>> \o Repeat(17, len)
LongPushing(len) == <<OP_RETURN, OP_PUSHDATA1, len>> \o Repeat(17, len)

Templates ==
  UNION {{WPKH(h), WSH(h), PKH(h), SH(h)} : h \in {0, 17}} \cup
  {Pushing(len) : len \in {0, 1, 2, MaxPush}} \cup {LongPushing(MaxPush + 1)}

Altered(s) ==
  {[s EXCEPT ![k] = b] : k \in DOMAIN s, b \in Byte} \cup
  {SubSeq(s, 1, Len(s) - 1)} \cup {Append(s, b) : b \in {0, 17}}

Scripts ==
  UNION {Altered(s) : s \in Templates} \cup {<<>>} \cup
  {<<b>> : b \in Byte} \cup (Byte \X Byte)

Output(code, script) == [value |-> <<3, 1>>, code |-> code, script |-> script]

MCOutputs ==
  {Output(<<Len(s)>>, s) : s \in Scripts} \cup
  UNION {{Output(<<k>>, s) : k \in {0, Len(s) + 1, Len(s) + 2}} :
           s \in Templates} \cup
  {Output(Shortest(Len(s)), s) :
     s \in {Repeat(0, Base), Repeat(1, Base + OP_RETURN)}} \cup
  {Output(Padded(Len(s)), s) : s \in Templates}

MCInputs ==
  {[txid |-> <<1, 2>>, index |-> i, code |-> code, script |-> Repeat(b, len),
    sequence |-> s] :
     i \in {<<0, 0>>, <<5, 1>>}, s \in {<<0, 0>>, <<18, 18>>, <<4, 7>>},
     b \in {0, 19}, code \in {<<0>>, <<1>>, <<3>>, <<19, 0, 0>>, <<19, 3, 0>>,
                              <<19, 0, 1>>},
     len \in {0, 1, 3, 20}}

MCElements == MCOutputs \cup {p \in MCInputs : Coded(p)}
=============================================================================
