-------------------------- MODULE CheckBitcoinSigs --------------------------
(***************************************************************************)
(* A digest made in JavaScript is signed, and the contract library that    *)
(* makes the same digest for a payment of one input and one output says    *)
(* whether it was the owner who signed that payment.                       *)
(*                                                                         *)
(* A public key is a point [x, y]; its negative has the same x and an odd  *)
(* y for an even one.  Hashes do not collide: hash160 and the account of a *)
(* key are what is hashed.  A signature is [key, digest]; ecrecover on     *)
(* another digest than was signed gives nobody's account.                  *)
(***************************************************************************)
EXTENDS Sighash

CONSTANTS
  Points,    \* the public keys
  Payments   \* [outpoint, inputValue, outputValue, outputScript]

(* Of the two points with one x, one has an even y and the other an odd.   *)
ASSUME PointsAssumption ==
  /\ \A p \in Points : p = [x |-> p.x, y |-> p.y] /\ p.y \in Nat
  /\ \A p, q \in Points : p.x = q.x /\ p.y % 2 = q.y % 2 => p = q

ASSUME PaymentsAssumption ==
  Payments \subseteq [outpoint : Outpoints, inputValue : Nat,
                      outputValue : Nat, outputScript : Scripts]

VARIABLES
  signer,    \* whose signature there is
  request,   \* what the caller of the contract asks for
  verdict    \* "none", "valid", "invalid" or "revert"

sigVars == <<signer, request, verdict>>

(***************************************************************************)
(* Keys and scripts.  A key is presented raw, compressed or as bytes of    *)
(* another length.                                                         *)
(***************************************************************************)
Raw(p) == [form |-> "raw", x |-> p.x, y |-> p.y]
Compressed(p) == [form |-> "compressed", x |-> p.x, prefix |-> 2 + (p.y % 2)]
Garbage == [form |-> "garbage"]

hash160(key) == <<"hash160", key>>
accountFromPubkey(key) == <<"account", key>>

(* Faulty: a key and its negative are one. *)
PubkeyHashOfX(key) == hash160([x |-> key.x, prefix |-> 2])

(* The digest in p2wpkhFromPubkey. *)
PubkeyHash(key) ==
  hash160([x |-> key.x,
           prefix |-> IF key.form = "raw"
                      THEN 2 + (key.y % 2) ELSE key.prefix])

p2wpkhFromPubkey(key) == <<"0014", PubkeyHash(key)>>

scriptCode(pkh) == <<"1976a914", pkh, "88ac">>

(***************************************************************************)
(* wpkhSpendSighash: everything else about the transaction is fixed.       *)
(***************************************************************************)
wpkhSpendPreimage(payment, pkh) ==
  << 1, Hash(<<payment.outpoint>>), Hash(<<0>>),
     payment.outpoint, scriptCode(pkh), payment.inputValue, 0,
     Hash(<<[value |-> payment.outputValue,
             script |-> payment.outputScript]>>),
     0, 1 >>

(* ecrecover, a precompiled contract. *)
ecrecover(digest, sig) ==
  IF sig.digest = digest THEN accountFromPubkey(sig.key)
                         ELSE accountFromPubkey(Garbage)

checkSig(key, digest, sig) ==
  ecrecover(digest, sig) = accountFromPubkey(key)

checkBitcoinSig(script, key, digest, sig) ==
  IF key.form # "raw" THEN "revert"
  ELSE IF p2wpkhFromPubkey(key) # script THEN "invalid"
  ELSE IF checkSig(key, digest, sig) THEN "valid" ELSE "invalid"

(***************************************************************************)
(* The run: sighash, a signature, and the contract.                        *)
(***************************************************************************)
Presented == {Raw(p) : p \in Points} \cup {Compressed(p) : p \in Points}
               \cup {Garbage}

(* Who owns an output knows the hash of a compressed key. *)
OwnerHash(p) == hash160([x |-> p.x, prefix |-> 2 + (p.y % 2)])

Sign ==
  /\ phase = "returned" /\ phase' = "signed"
  /\ signer' \in Points
  /\ UNCHANGED <<args, inputs, outputs, report, request, verdict>>

(* The caller asks whether the owner has signed the payment. *)
Check ==
  /\ phase = "signed" /\ phase' = "checked"
  /\ \E owner \in Points, payment \in Payments, key \in Presented :
       LET pkh == OwnerHash(owner)
       IN /\ request' = [owner |-> owner, payment |-> payment, key |-> key]
          /\ verdict' = checkBitcoinSig(<<"0014", pkh>>, key,
                           wpkhSpendPreimage(payment, pkh),
                           [key |-> Raw(signer), digest |-> report.digest])
  /\ UNCHANGED <<args, inputs, outputs, report, signer>>

Init ==
  /\ Call
  /\ signer \in {CHOOSE p \in Points : TRUE}
  /\ request = <<>> /\ verdict = "none"

Done == phase \in {"thrown", "checked"} /\ UNCHANGED <<vars, sigVars>>

Next == (Calculate /\ UNCHANGED sigVars) \/ Sign \/ Check \/ Done

Spec == Init /\ [][Next]_<<vars, sigVars>>

(***************************************************************************)
(* Properties.                                                             *)
(***************************************************************************)
(* The transaction that a payment stands for. *)
PaymentTx(p) ==
  [ version |-> 1,
    vin |-> <<[outpoint |-> p.outpoint, sequence |-> 0]>>,
    vout |-> <<[value |-> p.outputValue, script |-> p.outputScript]>>,
    locktime |-> 0 ]

(* The contract takes a signature exactly if it is the owner's, under his  *)
(* raw key, and signs all of the payment asked for and nothing but it: the *)
(* digests of two programs in two languages agree on that transaction and  *)
(* on no other, under no other flag.                                       *)
ValidIsOwnersPayment ==
  verdict \in {"valid", "invalid"} =>
    (verdict = "valid" <=>
       /\ signer = request.owner /\ request.key = Raw(signer)
       /\ tx = PaymentTx(request.payment) /\ flag = 1
       /\ prevout = [ script |-> scriptCode(OwnerHash(signer)),
                      value |-> request.payment.inputValue ])
=============================================================================
