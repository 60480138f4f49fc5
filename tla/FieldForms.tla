------------------------------ MODULE FieldForms -----------------------------
(***************************************************************************)
(* The element that fields are taken out of, the field taken, and what the *)
(* one has to do with the other: the parts an input was made of, the       *)
(* hashes that standard scripts pay to, what an OP_RETURN holds. The       *)
(* opcodes are constants with their names in Bitcoin.                      *)
(***************************************************************************)
EXTENDS CompactInt, ScriptSizes

CONSTANTS OP_RETURN, OP_DUP, OP_HASH160, OP_EQUALVERIFY, OP_CHECKSIG, OP_EQUAL

VARIABLES
  port,     \* which implementation runs
  parts,    \* what the element was made of
  called,   \* the function called, or "none"
  returned  \* what it returned

(* The script of an output with its length in front; the eight bytes of    *)
(* the value before it only shift every offset.                            *)
spk == parts.code \o parts.script

Data(v) == [how |-> "data", val |-> v]
Slice(b, from, len) == SubSeq(b, from + 1, from + len)

(* Least significant byte first. *)
LE(b) ==
  LET sum[k \in 0..Len(b)] ==
        IF k = 0 THEN 0 ELSE sum[k - 1] + b[k] * Base ^ (k - 1)
  IN sum[Len(b)]

(* BytesToUint: most significant byte first. *)
BE(b) == LE([k \in 1..Len(b) |-> b[Len(b) + 1 - k]])

NotShortest == parts.code # Shortest(Len(parts.script))
LongCode == Len(parts.code) > 1

(* The fields of an input are those it was made of, wherever its script     *)
(* ends: extract_tx_index, extract_script_sig, extract_sequence.  C does    *)
(* not parse a wide length, Rust and Solidity none that is not minimal, and *)
(* Go turns the sequence of a witness input around, though the comment of   *)
(* ExtractSequenceWitness has it extract the sequence integer, whose bytes  *)
(* are little-endian.                                                       *)
InputFieldsExact ==
  /\ called = "tx_index" => returned = Data(<<LE(parts.index)>>)
  /\ \/ port = "c" /\ LongCode
     \/ port \in {"rust", "sol"} /\ NotShortest
     \/ /\ called = "script_sig" => returned = Data(parts.code \o parts.script)
        /\ called = "sequence" =>
             \/ returned = Data(<<LE(parts.sequence)>>)
             \/ /\ port = "go" /\ parts.script = <<>>
                /\ returned = Data(<<BE(parts.sequence)>>)

(* The standard scripts and what they pay to. *)
IsHash(k, h, s) ==
  CASE k = "WPKH" -> s = <<0, HashSize>> \o h /\ Len(h) = HashSize
    [] k = "WSH" -> s = <<0, LongHashSize>> \o h /\ Len(h) = LongHashSize
    [] k = "PKH" -> s = <<OP_DUP, OP_HASH160, HashSize>> \o h
                          \o <<OP_EQUALVERIFY, OP_CHECKSIG>>
                    /\ Len(h) = HashSize
    [] k = "SH" -> s = <<OP_HASH160, HashSize>> \o h \o <<OP_EQUAL>>
                          /\ Len(h) = HashSize

Pays(k, h) == IsHash(k, h, parts.script) /\ parts.code = <<Len(parts.script)>>
PaysNothing ==
  \A k \in {"WPKH", "WSH", "PKH", "SH"} :
    \A from \in 0..Len(parts.script), len \in {HashSize, LongHashSize} :
      from + len <= Len(parts.script) =>
        ~Pays(k, Slice(parts.script, from, len))

(* extract_hash and payload return the hash of exactly the standard         *)
(* scripts, of the right kind where they name one, whatever else the output *)
(* holds; beyond that Go and Rust panic, but only on scripts too short to   *)
(* hold an opcode and a length or, in Rust, on a push near 255 bytes, and   *)
(* Solidity reverts where the length is not minimal or reaches too far.     *)
HashExact ==
  called = "hash" =>
    CASE returned.how = "none" -> PaysNothing
      [] returned.how = "fault" ->
           /\ PaysNothing
           /\ \/ port \in {"go", "rust"} /\ Len(spk) < 3
              \/ port = "rust" /\ parts.script[2] >= Base - 2
              \/ port = "sol" /\ (NotShortest \/ Number(spk, 0) > Len(parts.script))
      [] returned.how = "data" ->
           \E k \in {"WPKH", "WSH", "PKH", "SH"} : Pays(k, returned.val)
      [] OTHER -> Pays(returned.how, returned.val)

(* One push behind OP_RETURN, by a length byte, and what follows it. *)
Pushes(d) ==
  /\ Len(d) <= MaxPush /\ 2 + Len(d) <= Len(parts.script)
  /\ SubSeq(parts.script, 1, 2 + Len(d)) = <<OP_RETURN, Len(d)>> \o d
Pushed ==
  {d \in {Slice(parts.script, 2, k) : k \in 0..Len(parts.script) - 2} :
     Pushes(d)}

(* What an OP_RETURN holds is returned as it was pushed, and nothing but an *)
(* OP_RETURN holds anything: extract_op_return_data on the outputs of a     *)
(* validated vector.  Solidity wants at least two bytes that fill the       *)
(* script; JavaScript refuses an empty push and takes a bare opcode for     *)
(* one, where Go and Rust panic.  Not covered: a length byte above MaxPush, *)
(* which is the opcode OP_PUSHDATA1, and lengths of more than one byte.     *)
DataExact ==
  called = "op_return" /\ parts.code = <<Len(parts.script)>> =>
    CASE returned.how = "data" ->
           \/ returned.val \in Pushed
           \/ port = "js" /\ parts.script = <<OP_RETURN>>
           \/ port # "sol" /\ parts.script[2] > MaxPush
      [] returned.how = "none" ->
           \A d \in Pushed :
             \/ port = "js" /\ d = <<>>
             \/ port = "sol" /\ (Len(d) < 2 \/ Len(parts.script) # 2 + Len(d))
      [] returned.how = "fault" ->
           \/ port \in {"go", "rust"} /\ parts.script \in {<<>>, <<OP_RETURN>>}
           \/ port = "sol" /\ Len(parts.script) < 2

(* The hash and the data of an output, as above. *)
OutputFieldsExact == HashExact /\ DataExact
=============================================================================
