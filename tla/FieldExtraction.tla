-------------------------- MODULE FieldExtraction --------------------------
(***************************************************************************)
(* What C, Go, JavaScript, Rust and Solidity take out of one input or one  *)
(* output of a transaction: the outpoint, the script and the sequence of   *)
(* an input; the value, the hash a standard script pays to and the data of *)
(* an OP_RETURN of an output.                                              *)
(*                                                                         *)
(* An element is a byte string that was put together from its parts, and a *)
(* step is a call of one function on it.                                   *)
(***************************************************************************)
EXTENDS FieldForms

CONSTANTS
  Impls,          \* the implementations considered
  Elements,       \* the inputs and outputs considered: their parts
  TxIdSize,       \* bytes of a transaction id (32)
  NumberSize      \* bytes of an index or a sequence (4)

(* code is the compact integer before the script, which it may belie in an *)
(* output: a byte that says more than there is, or nothing.                *)
Inputs ==
  [txid : Seq(0..Base - 1), index : Seq(0..Base - 1), code : Seq(0..Base - 1),
   script : Seq(0..Base - 1), sequence : Seq(0..Base - 1)]
Outputs ==
  [value : Seq(0..Base - 1), code : Seq(0..Base - 1),
   script : Seq(0..Base - 1)]

ASSUME ImplAssumption == Impls \subseteq {"c", "go", "js", "rust", "sol"}

Coded(p) == p.code \in {Shortest(Len(p.script)), Padded(Len(p.script))}
Belied(p) ==
  \E k \in 0..Wide - 1 : p.code = <<k>> /\ (k = 0 \/ k >= Len(p.script))

ASSUME ElementsAssumption ==
  \A p \in Elements :
    \/ /\ p \in Inputs /\ Coded(p) /\ Len(p.txid) = TxIdSize
       /\ Len(p.index) = NumberSize /\ Len(p.sequence) = NumberSize
    \/ p \in Outputs /\ (Coded(p) \/ Belied(p))

ASSUME SizeAssumption ==
  /\ {TxIdSize, NumberSize, HashSize, LongHashSize} \subseteq Nat \ {0}
  /\ HashSize + 3 < LongHashSize /\ LongHashSize + 2 < Wide
  /\ MaxPush \in 0..Base - 1

(* Opcodes are bytes, and none of these is the version of a witness program. *)
ASSUME OpcodeAssumption ==
  {OP_RETURN, OP_DUP, OP_HASH160, OP_EQUALVERIFY, OP_CHECKSIG, OP_EQUAL}
    \subseteq 1..Base - 1

vars == <<port, parts, called, returned>>

IsInput == "sequence" \in DOMAIN parts

input ==
  parts.txid \o parts.index \o parts.code \o parts.script \o parts.sequence

(***************************************************************************)
(* Results: bytes, a number in a sequence of one, no result (a null view,  *)
(* an error, a JavaScript exception), or a panic, a revert or the use of a *)
(* null view.  Rust and Solidity say which kind of hash it is.             *)
(***************************************************************************)
None == [how |-> "none", val |-> <<>>]
Fault == [how |-> "fault", val |-> <<>>]
Kind(k, v) ==
  [how |-> IF port \in {"rust", "sol"} THEN k ELSE "data", val |-> v]

(***************************************************************************)
(* Inputs.                                                                 *)
(***************************************************************************)
ScriptAt == TxIdSize + NumberSize
Parsed == ParseOutcome(port, input, ScriptAt)
ScriptEnd ==
  ScriptAt + SerializedLength(port, input, ScriptAt) + Number(input, ScriptAt)

IsLegacyInput == input[ScriptAt + 1] # 0

OutpointIndex == Data(<<LE(Slice(input, TxIdSize, NumberSize))>>)

ScriptSig ==
  CASE Parsed = "ok" -> Data(Slice(input, ScriptAt, ScriptEnd - ScriptAt))
    [] Parsed = "bad" -> None
    [] Parsed = "fault" -> Fault

(* Faulty: the sequence of every input is looked for behind one byte. *)
SequenceFixed == Data(<<LE(Slice(input, ScriptAt + 1, NumberSize))>>)

(* Where there are two functions the caller asks IsLegacyInput which one   *)
(* to use.  ExtractSequenceWitness of Go reads the bytes in the other      *)
(* order; C reads the number through the null view of a failed parse.      *)
Sequence ==
  IF port \in {"c", "go", "js"} /\ ~IsLegacyInput
  THEN LET bytes == Slice(input, ScriptAt + 1, NumberSize)
       IN Data(<<IF port = "go" THEN BE(bytes) ELSE LE(bytes)>>)
  ELSE CASE Parsed = "ok" -> Data(<<LE(Slice(input, ScriptEnd, NumberSize))>>)
         [] Parsed = "bad" -> IF port = "c" THEN Fault ELSE None
         [] Parsed = "fault" -> Fault

(***************************************************************************)
(* Outputs.                                                                *)
(***************************************************************************)
Value == Data(<<LE(parts.value)>>)

(* Is the byte in front the length of the rest? *)
LengthMatches == spk[1] + 1 = Len(spk)

WitnessHash ==
  IF spk[3] = spk[1] - 2 /\ spk[3] \in {HashSize, LongHashSize}
  THEN Kind(IF spk[3] = LongHashSize THEN "WSH" ELSE "WPKH",
            Slice(spk, 3, spk[3]))
  ELSE None

(* Faulty: what follows the hash is not looked at. *)
LegacyHashNoPostfix ==
  CASE Slice(spk, 0, 3) = <<HashSize + 5, OP_DUP, OP_HASH160>> ->
         IF spk[4] = HashSize
         THEN Kind("PKH", Slice(spk, 4, HashSize)) ELSE None
    [] Slice(spk, 0, 3) = <<HashSize + 3, OP_HASH160, HashSize>> ->
         Kind("SH", Slice(spk, 3, HashSize))
    [] OTHER -> None

LegacyHash ==
  CASE Slice(spk, 0, 3) = <<HashSize + 5, OP_DUP, OP_HASH160>> ->
         IF /\ spk[4] = HashSize
            /\ Slice(spk, Len(spk) - 2, 2) = <<OP_EQUALVERIFY, OP_CHECKSIG>>
         THEN Kind("PKH", Slice(spk, 4, HashSize)) ELSE None
    [] Slice(spk, 0, 3) = <<HashSize + 3, OP_HASH160, HashSize>> ->
         IF spk[Len(spk)] = OP_EQUAL
         THEN Kind("SH", Slice(spk, 3, HashSize)) ELSE None
    [] OTHER -> None

(* An output whose script is shorter than two bytes: C reads beyond it and *)
(* refuses whatever it finds there, JavaScript's slice throws.             *)
HashOfMatching == IF spk[2] = 0 THEN WitnessHash ELSE LegacyHash

CJsHash == IF LengthMatches /\ Len(spk) >= 3 THEN HashOfMatching ELSE None

GoHash ==
  IF ~LengthMatches THEN None
  ELSE IF Len(spk) < 3 THEN Fault ELSE HashOfMatching

(* Rust slices three bytes before it compares the length, and adds 2 to a  *)
(* byte, which a debug build does not let wrap.                            *)
RustHash ==
  IF Len(spk) < 3 THEN {Fault}
  ELSE IF ~LengthMatches THEN {None}
  ELSE {HashOfMatching} \cup
       {r \in {Fault} : spk[2] = 0 /\ spk[1] >= 2 /\ spk[3] + 2 >= Base}

(* Solidity's scriptPubkey: as many bytes as the compact integer says; if  *)
(* there are fewer, a view that none of the functions below accepts.       *)
SolBody == Number(spk, 0)
SolLength == Canonical(SolBody) + SolBody
SolViewed == ParseOutcome("sol", spk, 0) = "ok" /\ SolLength <= Len(spk)
solSpk == Slice(spk, 0, SolLength)

SolHash ==
  IF ~SolViewed THEN Fault
  ELSE IF \/ SolBody \notin HashSize + 2..LongHashSize + 2
          \/ SolBody + 1 # SolLength
  THEN None
  ELSE IF /\ SolBody = HashSize + 5
          /\ Slice(solSpk, 0, 4) = <<HashSize + 5, OP_DUP, OP_HASH160, HashSize>>
          /\ Slice(solSpk, SolLength - 2, 2) = <<OP_EQUALVERIFY, OP_CHECKSIG>>
  THEN Kind("PKH", Slice(solSpk, 4, HashSize))
  ELSE IF /\ SolBody = HashSize + 3
          /\ Slice(solSpk, 0, 3) = <<HashSize + 3, OP_HASH160, HashSize>>
          /\ solSpk[SolLength] = OP_EQUAL
  THEN Kind("SH", Slice(solSpk, 3, HashSize))
  ELSE IF /\ solSpk[2] = 0
          /\ SolBody \in {HashSize + 2, LongHashSize + 2}
          /\ solSpk[3] = SolBody - 2
  THEN Kind(IF solSpk[3] = LongHashSize THEN "WSH" ELSE "WPKH",
            Slice(solSpk, 3, solSpk[3]))
  ELSE None

HashResults ==
  CASE port \in {"c", "js"} -> {CJsHash}
    [] port = "go" -> {GoHash}
    [] port = "rust" -> RustHash
    [] port = "sol" -> {SolHash}

(* OP_RETURN: the byte behind the opcode is taken for the length of what   *)
(* follows.  Where there is no such byte C refuses, JavaScript slices to   *)
(* NaN, which is empty, Go and Rust panic; a slice of no bytes is an error *)
(* in JavaScript.                                                          *)
PushedData ==
  IF spk[2] # OP_RETURN \/ spk[3] + 3 > Len(spk) THEN None
  ELSE Data(Slice(spk, 3, spk[3]))

COpReturn == IF Len(spk) < 3 THEN None ELSE PushedData

JsOpReturn ==
  CASE Len(spk) = 1 -> None
    [] Len(spk) = 2 -> IF spk[2] = OP_RETURN THEN Data(<<>>) ELSE None
    [] Len(spk) > 2 -> IF spk[3] = 0 THEN None ELSE PushedData

GoRustOpReturn ==
  CASE Len(spk) = 1 -> Fault
    [] Len(spk) = 2 -> IF spk[2] = OP_RETURN THEN Fault ELSE None
    [] Len(spk) > 2 -> PushedData

(* Both bytes are read before anything is compared. *)
SolOpReturn ==
  IF ~SolViewed \/ SolLength < 3 THEN Fault
  ELSE IF \/ SolBody > MaxPush + 2 \/ SolBody < 4
          \/ solSpk[2] # OP_RETURN \/ solSpk[3] # SolBody - 2
  THEN None
  ELSE Data(Slice(solSpk, 3, solSpk[3]))

OpReturn ==
  CASE port = "c" -> COpReturn
    [] port = "js" -> JsOpReturn
    [] port \in {"go", "rust"} -> GoRustOpReturn
    [] port = "sol" -> SolOpReturn

(***************************************************************************)
(* The calls.                                                              *)
(***************************************************************************)
Init ==
  /\ port \in Impls /\ parts \in Elements
  /\ called = "none" /\ returned = None

Call(function, results) ==
  /\ called = "none"
  /\ called' = function
  /\ returned' \in results
  /\ UNCHANGED <<port, parts>>

ExtractTxIndex == IsInput /\ Call("tx_index", {OutpointIndex})
ExtractScriptSig == IsInput /\ Call("script_sig", {ScriptSig})
ExtractSequence == IsInput /\ Call("sequence", {Sequence})
ExtractValue == ~IsInput /\ Call("value", {Value})
ExtractHash == ~IsInput /\ Call("hash", HashResults)
ExtractOpReturnData == ~IsInput /\ Call("op_return", {OpReturn})

Done == called # "none" /\ UNCHANGED vars

Next ==
  \/ ExtractTxIndex \/ ExtractScriptSig \/ ExtractSequence
  \/ ExtractValue \/ ExtractHash \/ ExtractOpReturnData
  \/ Done

Spec == Init /\ [][Next]_vars
=============================================================================
