------------------------------ MODULE ViewForms ------------------------------
(***************************************************************************)
(* Views of memory as ViewBTC.sol has them, each of a type, and what the   *)
(* type promises: of the bytes, and of the functions called on the view.   *)
(***************************************************************************)
EXTENDS TxGrammar, ScriptSizes

CONSTANTS
  HeaderSize,    \* 80
  BitsAt,        \* 72, where the bits of a header begin
  NodeSize,      \* 32
  Power,         \* Power[k] = Base^k
  Digits         \* 32, the bytes of a uint256

VARIABLES
  memory,
  view,    \* the last view returned
  call,    \* the last call: [name, index, on]
  outcome  \* "view", "value", "revert" or "mistyped"

(***************************************************************************)
(* TypedMemView, an npm package: a view is a type, a place and a length.   *)
(***************************************************************************)
nullView == [type |-> "Null", from |-> 0, len |-> 0]

Viewed(v) == SubSeq(memory, v.from + 1, v.from + v.len)

Count == Number(Viewed(call.on), 0)
HeaderMissing == (call.index + 1) * HeaderSize > call.on.len

(* The bits of a header: a mantissa of three bytes and an exponent of one. *)
(* The target mantissa * 256^(exponent - 3) may be no integer of 256 bits. *)
Uint == Power[Digits]
Mantissa(header) ==
  header[BitsAt + 1] + Base * header[BitsAt + 2]
    + Base * Base * header[BitsAt + 3]
Exponent(header) == header[BitsAt + 4]

HasTarget(header) ==
  /\ Exponent(header) >= 3
  /\ Mantissa(header) * Power[Exponent(header) - 3] < Uint

(* The check that gave a view its type has done what the functions on that *)
(* type leave out: none of them reads beyond its view, and each part there *)
(* has to be is there.  Excepted are an index that is not there, bits that *)
(* are no target, or for the difficulty the target 0, scripts that are no  *)
(* hash and no OP_RETURN, and opReturnPayload on a script of less than two *)
(* bytes, which reads a third.  For the arithmetic of target and diff that *)
(* says that it fails on no header whose bits denote one.                  *)
TypedIsSafe ==
  call.on.type \notin {"Unknown", "Null"} =>
    /\ outcome = "revert" =>
         \/ call.name \in {"indexVin", "indexVout"} /\ call.index >= Count
         \/ call.name = "indexHeaderArray" /\ HeaderMissing
         \/ call.name \in {"target", "diff"} /\ ~HasTarget(Viewed(call.on))
         \/ call.name = "diff" /\ Mantissa(Viewed(call.on)) = 0
         \/ call.name = "opReturnPayload" /\ call.on.len < 3
    /\ outcome = "view" /\ view = nullView =>
         \/ call.name = "indexHeaderArray" /\ HeaderMissing
         \/ call.name \in {"payload", "opReturnPayload"}

(* What the bytes of a view of each type are, from the formats alone. *)
Form(type, s) ==
  /\ type = "Vin" => IsVector("vin", s, TRUE)
  /\ type = "Vout" => IsVector("vout", s, TRUE)
  /\ type = "TxIn" => IsElement("vin", s, TRUE)
  /\ type = "TxOut" => IsElement("vout", s, TRUE)
  /\ type \in {"ScriptSig", "ScriptPubkey"} => IsScript(s)
  /\ type = "Outpoint" => Len(s) = Before["vin"]
  /\ type \in {"PKH", "SH", "WPKH"} => Len(s) = HashSize
  /\ type = "WSH" => Len(s) = LongHashSize
  /\ type = "OpReturnPayload" => Len(s) \in 2..MaxPush
  /\ type = "Header" => Len(s) = HeaderSize
  /\ type = "HeaderArray" => Len(s) % HeaderSize = 0
  /\ type = "MerkleArray" => Len(s) % NodeSize = 0

Types ==
  {"Unknown", "Vin", "Vout", "TxIn", "TxOut", "ScriptSig", "ScriptPubkey",
   "Outpoint", "PKH", "SH", "WPKH", "WSH", "OpReturnPayload", "Header",
   "HeaderArray", "MerkleArray"}

(* The type of a view tells what its bytes are, however it was come by:    *)
(* a view of type TxIn is an input, one of type Vin a whole vector, and so *)
(* on for every type that ViewBTC.sol hands out, and it lies in the memory *)
(* the caller gave.                                                        *)
TypeTellsForm ==
  view # nullView =>
    /\ view.type \in Types /\ view.from + view.len <= Len(memory)
    /\ Form(view.type, Viewed(view))
=============================================================================
