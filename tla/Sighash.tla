------------------------------ MODULE Sighash -------------------------------
(***************************************************************************)
(* The digest that a signature on an input of a transaction signs, as      *)
(* sighash.js makes it, with what it reports beside the digest: whether    *)
(* the transaction may be locked, and what of it the signature leaves open.*)
(*                                                                         *)
(* Every part of the bytes that are hashed has a fixed width but for the   *)
(* script of the output spent, and an output states its own length: equal  *)
(* bytes are equal parts.  Digests do not collide, so the bytes hashed     *)
(* stand for the digest.                                                   *)
(***************************************************************************)
EXTENDS Integers, Sequences

CONSTANTS
  Base,        \* 256
  LowTop,      \* 0x80, the top bit of a byte
  Final,       \* 0xffffffff
  PastHeight,  \* 600000, a height that has been reached
  FirstTime,   \* 500000000, the first locktime that is no height
  PastTime,    \* 1550000000, a time that has come
  Outpoints, Scripts,
  Transactions,
  Indices,     \* of the inputs to be signed
  Flags,       \* bytes
  Prevouts     \* the outputs spent, [script, value]

Input == [outpoint : Outpoints, sequence : 0..Final]
Output == [value : Nat, script : Scripts]
Transaction ==
  [version : 0..Final, vin : Seq(Input), vout : Seq(Output), locktime : 0..Final]

(* A vector of inputs or outputs that is refused as malformed is empty. *)
ASSUME SighashAssumption ==
  /\ LowTop \in 1..Base - 1 /\ Final \in Nat
  /\ PastHeight \in Nat /\ FirstTime \in Nat /\ PastTime \in Nat
  /\ PastHeight < FirstTime /\ FirstTime <= PastTime /\ PastTime < Final
  /\ Transactions \subseteq Transaction
  /\ \A p \in Prevouts : p = [script |-> p.script, value |-> p.value]
  /\ Indices \subseteq Nat /\ Flags \subseteq 0..255

VARIABLES
  tx, index, flag, prevout,  \* the arguments
  phase,    \* "called", "parsed", "returned" or "thrown"
  inputs,   \* the inputs and outputs that the flag leaves in view
  outputs,
  report    \* what is returned

args == <<tx, index, flag, prevout>>
vars == <<args, phase, inputs, outputs, report>>

validateFlag(f) == f \in {1, 3, 129, 131}

anyoneCanPay(f) == (f \div 128) % 2 = 1
single(f) == f % 4 = 3

(***************************************************************************)
(* The parts of the preimage.                                              *)
(***************************************************************************)
NullHash == <<"null">>
Hash(parts) == <<"hash256", parts>>

(* Faulty: SINGLE leaves the other inputs open as well as the outputs. *)
hashPrevoutsLoose(ins, f) ==
  IF anyoneCanPay(f) \/ single(f) THEN NullHash
  ELSE Hash([k \in DOMAIN ins |-> ins[k].outpoint])

hashPrevouts(ins, f) ==
  IF anyoneCanPay(f) THEN NullHash
  ELSE Hash([k \in DOMAIN ins |-> ins[k].outpoint])

hashSequence(ins, f) ==
  IF anyoneCanPay(f) \/ single(f) THEN NullHash
  ELSE Hash([k \in DOMAIN ins |-> ins[k].sequence])

hashOutputs(outs) == IF outs = <<>> THEN NullHash ELSE Hash(outs)

(* What of a vector a flag leaves: all of it, or the element at the index. *)
Only(s, k) == IF k < Len(s) THEN <<s[k + 1]>> ELSE <<>>

inputsFor(t, k, f) == IF anyoneCanPay(f) THEN Only(t.vin, k) ELSE t.vin

outputsFor(t, k, f) == IF single(f) THEN Only(t.vout, k) ELSE t.vout

Preimage(t, k, f, ins, outs, p) ==
  << t.version, hashPrevouts(ins, f), hashSequence(ins, f),
     t.vin[k + 1].outpoint, p.script, p.value, t.vin[k + 1].sequence,
     hashOutputs(outs), t.locktime, f >>

(***************************************************************************)
(* Locks.                                                                  *)
(***************************************************************************)
(* A locktime that has not been reached. *)
Future(lock) == lock > PastTime \/ (lock > PastHeight /\ lock < FirstTime)

(* Faulty: inputs that are still to come are not thought of. *)
possibleAbsoluteLockNow(ins, lock, f) ==
  (\E k \in DOMAIN ins : ins[k].sequence # Final) /\ Future(lock)

possibleAbsoluteLock(ins, lock, f) ==
  \/ anyoneCanPay(f)
  \/ (\E k \in DOMAIN ins : ins[k].sequence # Final) /\ Future(lock)

(* The bit asked for is the eighth of the sequence number. *)
possibleRelativeLock(ins, version) ==
  /\ version % Base # 1
  /\ \E k \in DOMAIN ins : (ins[k].sequence \div LowTop) % 2 = 0

(***************************************************************************)
(* sighash.                                                                *)
(***************************************************************************)
Throw == phase' = "thrown" /\ UNCHANGED <<args, inputs, outputs, report>>

RefuseFlag == phase = "called" /\ ~validateFlag(flag) /\ Throw

RefuseVectors ==
  /\ phase = "called" /\ validateFlag(flag)
  /\ tx.vin = <<>> \/ tx.vout = <<>>
  /\ Throw

ParseVectors ==
  /\ phase = "called" /\ validateFlag(flag)
  /\ tx.vin # <<>> /\ tx.vout # <<>>
  /\ phase' = "parsed"
  /\ inputs' = inputsFor(tx, index, flag)
  /\ outputs' = outputsFor(tx, index, flag)
  /\ UNCHANGED <<args, report>>

(* Undefined is not an array: there is no such input, or, under SINGLE, no *)
(* output of the same index.                                               *)
Undefined ==
  index >= Len(tx.vin) \/ (single(flag) /\ index >= Len(tx.vout))

HashUndefined == phase = "parsed" /\ Undefined /\ Throw

Report(t, k, f, ins, outs, p) ==
  [ digest |-> Preimage(t, k, f, ins, outs, p),
    possibleAbsoluteLock |-> possibleAbsoluteLock(ins, t.locktime, f),
    possibleRelativeLock |-> possibleRelativeLock(ins, t.version),
    updateableOutputs |-> single(f),
    updateableInputs |-> anyoneCanPay(f) ]

HashPreimage ==
  /\ phase = "parsed" /\ ~Undefined
  /\ report' = Report(tx, index, flag, inputs, outputs, prevout)
  /\ phase' = "returned"
  /\ UNCHANGED <<args, inputs, outputs>>

Calculate ==
  RefuseFlag \/ RefuseVectors \/ ParseVectors \/ HashUndefined \/ HashPreimage

Call ==
  /\ tx \in Transactions /\ index \in Indices
  /\ flag \in Flags /\ prevout \in Prevouts
  /\ phase = "called" /\ inputs = <<>> /\ outputs = <<>> /\ report = <<>>

(***************************************************************************)
(* Properties.                                                             *)
(***************************************************************************)
(* The digest of another transaction, where there is one. *)
HasDigest(t, k, f) ==
  /\ t.vin # <<>> /\ t.vout # <<>> /\ k < Len(t.vin)
  /\ single(f) => k < Len(t.vout)

Digest(t, k, f, p) ==
  Preimage(t, k, f, inputsFor(t, k, f), outputsFor(t, k, f), p)

SameDigest(t, k) ==
  HasDigest(t, k, flag) /\ Digest(t, k, flag, prevout) = report.digest

(* What t has in common with tx, by the meaning of the flag. *)
Agrees(t, k) ==
  /\ t.version = tx.version /\ t.locktime = tx.locktime
  /\ t.vin[k + 1] = tx.vin[index + 1]
  /\ IF single(flag) THEN t.vout[k + 1] = tx.vout[index + 1]
                     ELSE t.vout = tx.vout
  /\ anyoneCanPay(flag) \/
       /\ Len(t.vin) = Len(tx.vin)
       /\ \A m \in DOMAIN t.vin :
            /\ t.vin[m].outpoint = tx.vin[m].outpoint
            /\ single(flag) \/ t.vin[m].sequence = tx.vin[m].sequence

AddInput(t, new) == [t EXCEPT !.vin = Append(@, new)]
AddOutput(t, new) == [t EXCEPT !.vout = Append(@, new)]

(* A signature is good for another transaction only if that spends the     *)
(* same output in the same way, with the same version and locktime; unless *)
(* the flag says otherwise, has the same inputs in the same order, and the *)
(* same outputs.  With SINGLE alone the other inputs may still change      *)
(* their sequence numbers.  What the report calls updateable is open, and  *)
(* nothing else: an input, or an output, can be added under the same       *)
(* signature exactly if the report says so.                                *)
SignsWhatItShould ==
  phase = "returned" =>
    \A t \in Transactions :
      /\ \A k \in Indices : SameDigest(t, k) => Agrees(t, k)
      /\ \A k \in DOMAIN t.vin :
           report.updateableInputs <=>
             SameDigest(AddInput(tx, t.vin[k]), index)
      /\ \A k \in DOMAIN t.vout :
           report.updateableOutputs <=>
             SameDigest(AddOutput(tx, t.vout[k]), index)

(* By consensus: a transaction with an input that is not final waits for   *)
(* its locktime; and in one of version 2 or more an input waits for its    *)
(* sequence number (BIP 68), if that is not zero and its top bit is not    *)
(* set.                                                                    *)
AbsolutelyLocked(t) ==
  /\ Future(t.locktime)
  /\ \E k \in DOMAIN t.vin : t.vin[k].sequence # Final

RelativelyLocked(t, m) ==
  /\ t.version >= 2
  /\ t.vin[m].sequence # 0 /\ 2 * t.vin[m].sequence <= Final

(* Where the bit in the lowest byte, or the lowest byte of the version,    *)
(* says there is no lock and the whole number does not.                    *)
Misread(t, m) ==
  t.version % Base = 1 \/ (t.vin[m].sequence \div LowTop) % 2 = 1

(* If no absolute lock is reported, no transaction the signature is good   *)
(* for has one, those included that get their inputs later; and if no      *)
(* relative lock is reported ("True if there is a lock", the comment of    *)
(* possibleRelativeLock), none of the inputs signed over has one, but for  *)
(* the numbers that are misread.  SINGLE alone is excepted as far as the   *)
(* other inputs go: their sequence numbers may turn a lock on later.       *)
LocksReported ==
  phase = "returned" =>
    /\ ~report.possibleAbsoluteLock => ~AbsolutelyLocked(tx)
    /\ \A t \in Transactions, k \in Indices :
         SameDigest(t, k) =>
           /\ ~report.possibleAbsoluteLock /\ flag # 3 => ~AbsolutelyLocked(t)
           /\ ~report.possibleRelativeLock =>
                \A m \in IF flag = 1 THEN DOMAIN t.vin ELSE {k + 1} :
                  RelativelyLocked(t, m) => Misread(t, m)
=============================================================================
