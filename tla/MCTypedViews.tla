---------------------------- MODULE MCTypedViews ----------------------------
(***************************************************************************)
(* Bytes 0..7 with the tag 7; an outpoint of 3 bytes, a sequence of 1, a   *)
(* value of 1; hashes of 1 and 4 bytes; integers of four bytes.  A header  *)
(* is a parent, a root and the bits, whose exponents 3..7 multiply a       *)
(* mantissa by 1 to 8^4, which is more than an integer holds.  The memory  *)
(* holds vectors of one and two elements and scripts, each with every byte *)
(* replaced in turn, with one byte less or more, headers with all kinds of *)
(* bits, alone and in arrays, and all short strings.                       *)
(***************************************************************************)
EXTENDS TypedViews, FiniteSets

MCBefore == [vin |-> 3, vout |-> 1]
MCAfter == [vin |-> 1, vout |-> 0]
MCHeaderFields == {<<0, 1>>, <<1, 1>>}
MCPower == [k \in 0..Base - 1 |-> Base ^ k]

Byte == 0..Base - 1
Repeat(b, len) == [k \in 1..len |-> b]

Prefixed(s) == Shortest(Len(s)) \o s

Scripts ==
  {<<>>, <<OP_RETURN>>, <<0, 1, 5>>, <<3, 1, 5, 3>>, <<0, 3, 5, 5, 5>>,
   <<OP_RETURN, 2, 5, 5>>, <<OP_RETURN, 4, 5, 5, 5, 5>>, Repeat(5, 9)}

Ins ==
  {<<4, 4, 1>> \o Prefixed(s) \o <<2>> : s \in {<<>>, <<5>>, Repeat(5, 7)}}
Outs == {<<3>> \o Prefixed(s) : s \in Scripts}

Whole ==
  UNION {{<<1>> \o e : e \in els} : els \in {Ins, Outs}} \cup
  UNION {{<<2>> \o e \o f : e \in els, f \in els} : els \in {Ins, Outs}} \cup
  {Prefixed(s) : s \in Scripts}

Bits == {<<a, b, c, exp>> : a \in {0, 1, 7}, b, c \in {0, 1, 7}, exp \in Byte}
Headers == {<<1, 1>> \o bits : bits \in Bits}

Altered(s) ==
  {s} \cup {[s EXCEPT ![k] = b] : k \in DOMAIN s, b \in Byte} \cup
  {SubSeq(s, 1, Len(s) - 1)} \cup {Append(s, b) : b \in {0, 7}}

MCMemory ==
  UNION {Altered(s) : s \in Whole} \cup
  UNION {[1..len -> Byte] : len \in 0..3} \cup
  UNION {{h, h \o h, h \o <<1>>} : h \in Headers}
=============================================================================
