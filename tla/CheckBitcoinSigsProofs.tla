----------------------- MODULE CheckBitcoinSigsProofs -----------------------
(***************************************************************************)
(* What a signature hash commits to, and what the contract makes of it,    *)
(* for transactions of any number of inputs and outputs, any numbers in    *)
(* them, and any set of keys.                                              *)
(***************************************************************************)
EXTENDS CheckBitcoinSigs, TLAPS

(* A parsed call has the vectors the flag leaves, a returned one the report *)
(* made of them; what was signed and asked stays what it was.               *)
ArgsInv ==
  /\ tx \in Transactions /\ index \in Indices
  /\ flag \in Flags /\ prevout \in Prevouts

ParsedInv ==
  phase \in {"parsed", "returned", "signed", "checked"} =>
    /\ validateFlag(flag) /\ tx.vin # <<>> /\ tx.vout # <<>>
    /\ inputs = inputsFor(tx, index, flag)
    /\ outputs = outputsFor(tx, index, flag)

ReportInv ==
  phase \in {"returned", "signed", "checked"} =>
    /\ ~ Undefined
    /\ report = Report(tx, index, flag, inputs, outputs, prevout)

SignedInv == phase \in {"signed", "checked"} => signer \in Points

CheckedInv ==
  verdict # "none" =>
    /\ phase = "checked"
    /\ request \in [owner : Points, payment : Payments, key : Presented]
    /\ verdict = checkBitcoinSig(
                   <<"0014", OwnerHash(request.owner)>>, request.key,
                   wpkhSpendPreimage(request.payment, OwnerHash(request.owner)),
                   [key |-> Raw(signer), digest |-> report.digest])

Inv == ArgsInv /\ ParsedInv /\ ReportInv /\ SignedInv /\ CheckedInv

LEMMA InitInv == Init => Inv
BY DEF Init, Call, Inv, ArgsInv, ParsedInv, ReportInv, SignedInv, CheckedInv

LEMMA CalculateInv == Inv /\ Calculate /\ UNCHANGED sigVars => Inv'
<1> SUFFICES ASSUME Inv, Calculate, UNCHANGED sigVars PROVE Inv'
  OBVIOUS
<1>0. UNCHANGED <<args, sigVars>> /\ phase \in {"called", "parsed"}
      /\ verdict = "none"
  BY DEF Calculate, RefuseFlag, RefuseVectors, ParseVectors, HashUndefined,
         HashPreimage, Throw, Inv, CheckedInv
<1>1. CASE phase' = "thrown"
  BY <1>0, <1>1
  DEF Inv, ArgsInv, ParsedInv, ReportInv, SignedInv, CheckedInv, args, sigVars
<1>2. CASE ParseVectors
  BY <1>0, <1>2
  DEF ParseVectors, Inv, ArgsInv, ParsedInv, ReportInv, SignedInv, CheckedInv,
      args, sigVars
<1>3. CASE HashPreimage
  BY <1>0, <1>3
  DEF HashPreimage, Inv, ArgsInv, ParsedInv, ReportInv, SignedInv, CheckedInv,
      Undefined, args, sigVars
<1> QED
  BY <1>1, <1>2, <1>3
  DEF Calculate, RefuseFlag, RefuseVectors, HashUndefined, Throw

LEMMA SignInv == Inv /\ Sign => Inv'
BY DEF Sign, Inv, ArgsInv, ParsedInv, ReportInv, SignedInv, CheckedInv,
       Undefined, args

LEMMA CheckInv == Inv /\ Check => Inv'
<1> SUFFICES ASSUME Inv, Check PROVE Inv'
  OBVIOUS
<1>1. /\ phase = "signed" /\ phase' = "checked"
      /\ UNCHANGED <<tx, index, flag, prevout, inputs, outputs, report, signer>>
  BY DEF Check, args
<1>2. PICK owner \in Points, payment \in Payments, key \in Presented :
        /\ request' = [owner |-> owner, payment |-> payment, key |-> key]
        /\ verdict' = checkBitcoinSig(
                        <<"0014", OwnerHash(owner)>>, key,
                        wpkhSpendPreimage(payment, OwnerHash(owner)),
                        [key |-> Raw(signer), digest |-> report.digest])
  BY DEF Check
<1>3. /\ request' \in [owner : Points, payment : Payments, key : Presented]
      /\ request'.owner = owner /\ request'.payment = payment
      /\ request'.key = key
  BY <1>2
<1>4. CheckedInv'
  BY <1>1, <1>2, <1>3 DEF CheckedInv, Presented
<1> QED
  BY <1>1, <1>4
  DEF Inv, ArgsInv, ParsedInv, ReportInv, SignedInv, Undefined

LEMMA StepInv == Inv /\ [Next]_<<vars, sigVars>> => Inv'
<1> SUFFICES ASSUME Inv, [Next]_<<vars, sigVars>> PROVE Inv'
  OBVIOUS
<1>1. CASE UNCHANGED <<vars, sigVars>>
  BY <1>1
  DEF vars, args, sigVars, Inv, ArgsInv, ParsedInv, ReportInv, SignedInv,
      CheckedInv, Undefined
<1> QED
  BY <1>1, CalculateInv, SignInv, CheckInv DEF Next, Done

LEMMA SpecInv == Spec => []Inv
BY InitInv, StepInv, PTL DEF Spec

(***************************************************************************)
(* Flags, vectors, and what equal preimages have in common.                *)
(***************************************************************************)
LEMMA FlagBits ==
  ASSUME NEW f, validateFlag(f)
  PROVE  /\ f \in Nat
         /\ anyoneCanPay(f) <=> f \in {129, 131}
         /\ single(f) <=> f \in {3, 131}
BY DEF validateFlag, anyoneCanPay, single

LEMMA Transactional ==
  ASSUME NEW t \in Transactions
  PROVE  /\ t \in Transaction
         /\ t.vin \in Seq(Input) /\ t.vout \in Seq(Output)
         /\ t.version \in 0..Final /\ t.locktime \in 0..Final
BY SighashAssumption DEF Transaction

LEMMA SameOutpoints ==
  ASSUME NEW a \in Seq(Input), NEW b \in Seq(Input), NEW f, ~ anyoneCanPay(f),
         hashPrevouts(a, f) = hashPrevouts(b, f)
  PROVE  Len(a) = Len(b) /\ \A k \in DOMAIN a : a[k].outpoint = b[k].outpoint
<1>1. [k \in DOMAIN a |-> a[k].outpoint] = [k \in DOMAIN b |-> b[k].outpoint]
  BY DEF hashPrevouts, Hash
<1>2. DOMAIN a = DOMAIN b
  BY <1>1
<1> QED
  BY <1>1, <1>2

LEMMA SameSequences ==
  ASSUME NEW a \in Seq(Input), NEW b \in Seq(Input), NEW f,
         ~ anyoneCanPay(f), ~ single(f),
         hashSequence(a, f) = hashSequence(b, f)
  PROVE  \A k \in DOMAIN a : a[k].sequence = b[k].sequence
<1>1. [k \in DOMAIN a |-> a[k].sequence] = [k \in DOMAIN b |-> b[k].sequence]
  BY DEF hashSequence, Hash
<1>2. DOMAIN a = DOMAIN b
  BY <1>1
<1> QED
  BY <1>1, <1>2

LEMMA SameOutputs ==
  ASSUME NEW a \in Seq(Output), NEW b \in Seq(Output),
         hashOutputs(a) = hashOutputs(b)
  PROVE  a = b
BY DEF hashOutputs, Hash, NullHash

(* Equal preimages are equal part by part. *)
LEMMA SameParts ==
  ASSUME NEW t, NEW k, NEW u, NEW m, NEW f, NEW g, NEW p, NEW q,
         Digest(t, k, f, p) = Digest(u, m, g, q)
  PROVE  /\ t.version = u.version /\ t.locktime = u.locktime /\ f = g
         /\ p.script = q.script /\ p.value = q.value
         /\ t.vin[k + 1].outpoint = u.vin[m + 1].outpoint
         /\ t.vin[k + 1].sequence = u.vin[m + 1].sequence
         /\ hashPrevouts(inputsFor(t, k, f), f)
              = hashPrevouts(inputsFor(u, m, g), g)
         /\ hashSequence(inputsFor(t, k, f), f)
              = hashSequence(inputsFor(u, m, g), g)
         /\ hashOutputs(outputsFor(t, k, f)) = hashOutputs(outputsFor(u, m, g))
<1>1. Preimage(t, k, f, inputsFor(t, k, f), outputsFor(t, k, f), p)
        = Preimage(u, m, g, inputsFor(u, m, g), outputsFor(u, m, g), q)
  BY DEF Digest
<1> QED
  BY <1>1 DEF Preimage

(***************************************************************************)
(* SignsWhatItShould.                                                      *)
(***************************************************************************)
LEMMA ElementsInView ==
  ASSUME NEW t \in Transactions, NEW k \in Nat, NEW f, validateFlag(f),
         HasDigest(t, k, f)
  PROVE  /\ k + 1 \in DOMAIN t.vin /\ t.vin[k + 1] \in Input
         /\ inputsFor(t, k, f) = IF anyoneCanPay(f) THEN <<t.vin[k + 1]>> ELSE t.vin
         /\ outputsFor(t, k, f) = IF single(f) THEN <<t.vout[k + 1]>> ELSE t.vout
         /\ single(f) => k + 1 \in DOMAIN t.vout
         /\ inputsFor(t, k, f) \in Seq(Input)
         /\ outputsFor(t, k, f) \in Seq(Output)
<1>1. t.vin \in Seq(Input) /\ t.vout \in Seq(Output)
  BY Transactional
<1>2. k < Len(t.vin) /\ (single(f) => k < Len(t.vout))
  BY DEF HasDigest
<1>3. k + 1 \in DOMAIN t.vin /\ t.vin[k + 1] \in Input
  BY <1>1, <1>2
<1>4. single(f) => k + 1 \in DOMAIN t.vout /\ t.vout[k + 1] \in Output
  BY <1>1, <1>2
<1>5. /\ inputsFor(t, k, f) = IF anyoneCanPay(f) THEN <<t.vin[k + 1]>> ELSE t.vin
      /\ outputsFor(t, k, f) = IF single(f) THEN <<t.vout[k + 1]>> ELSE t.vout
  BY <1>2 DEF inputsFor, outputsFor, Only
<1> QED
  BY <1>1, <1>3, <1>4, <1>5

(* What was returned is the digest of the transaction given. *)
LEMMA ReturnedDigest ==
  ASSUME Inv, phase \in {"returned", "signed", "checked"}
  PROVE  /\ tx \in Transactions /\ index \in Nat /\ validateFlag(flag)
         /\ HasDigest(tx, index, flag)
         /\ report.digest = Digest(tx, index, flag, prevout)
         /\ report.updateableInputs = anyoneCanPay(flag)
         /\ report.updateableOutputs = single(flag)
         /\ report.possibleAbsoluteLock
              = possibleAbsoluteLock(inputsFor(tx, index, flag), tx.locktime, flag)
         /\ report.possibleRelativeLock
              = possibleRelativeLock(inputsFor(tx, index, flag), tx.version)
<1>1. /\ tx \in Transactions /\ index \in Nat
      /\ validateFlag(flag) /\ tx.vin # <<>> /\ tx.vout # <<>> /\ ~ Undefined
      /\ report = Report(tx, index, flag, inputsFor(tx, index, flag),
                         outputsFor(tx, index, flag), prevout)
  BY SighashAssumption DEF Inv, ArgsInv, ParsedInv, ReportInv
<1>2. tx.vin \in Seq(Input) /\ tx.vout \in Seq(Output)
  BY <1>1, Transactional
<1>3. HasDigest(tx, index, flag)
  BY <1>1, <1>2 DEF Undefined, HasDigest
<1> QED
  BY <1>1, <1>3 DEF Report, Digest

LEMMA InputsWithTwoParts ==
  ASSUME NEW a \in Input, NEW b \in Input,
         a.outpoint = b.outpoint, a.sequence = b.sequence
  PROVE  a = b
BY DEF Input

LEMMA SameDigestAgrees ==
  ASSUME Inv, phase = "returned",
         NEW t \in Transactions, NEW k \in Indices, SameDigest(t, k)
  PROVE  Agrees(t, k)
<1>1. /\ tx \in Transactions /\ index \in Nat /\ validateFlag(flag)
      /\ HasDigest(tx, index, flag) /\ k \in Nat
      /\ HasDigest(t, k, flag)
      /\ Digest(t, k, flag, prevout) = Digest(tx, index, flag, prevout)
  BY ReturnedDigest, SighashAssumption DEF SameDigest
<1> DEFINE a == inputsFor(t, k, flag)
           b == inputsFor(tx, index, flag)
           c == outputsFor(t, k, flag)
           d == outputsFor(tx, index, flag)
<1>2. /\ t.version = tx.version /\ t.locktime = tx.locktime
      /\ t.vin[k + 1].outpoint = tx.vin[index + 1].outpoint
      /\ t.vin[k + 1].sequence = tx.vin[index + 1].sequence
      /\ hashPrevouts(a, flag) = hashPrevouts(b, flag)
      /\ hashSequence(a, flag) = hashSequence(b, flag)
      /\ hashOutputs(c) = hashOutputs(d)
  BY <1>1, SameParts
<1>3. /\ t.vin[k + 1] \in Input
      /\ a = IF anyoneCanPay(flag) THEN <<t.vin[k + 1]>> ELSE t.vin
      /\ c = IF single(flag) THEN <<t.vout[k + 1]>> ELSE t.vout
      /\ a \in Seq(Input) /\ c \in Seq(Output)
  BY <1>1, ElementsInView
<1>4. /\ tx.vin[index + 1] \in Input
      /\ b = IF anyoneCanPay(flag) THEN <<tx.vin[index + 1]>> ELSE tx.vin
      /\ d = IF single(flag) THEN <<tx.vout[index + 1]>> ELSE tx.vout
      /\ b \in Seq(Input) /\ d \in Seq(Output)
  BY <1>1, ElementsInView
<1> HIDE DEF a, b, c, d
<1>5. t.vin[k + 1] = tx.vin[index + 1]
  BY <1>2, <1>3, <1>4, InputsWithTwoParts
<1>6. c = d
  BY <1>2, <1>3, <1>4, SameOutputs
<1>7. IF single(flag) THEN t.vout[k + 1] = tx.vout[index + 1]
                      ELSE t.vout = tx.vout
  BY <1>3, <1>4, <1>6
<1>8. ASSUME ~ anyoneCanPay(flag)
      PROVE  /\ Len(t.vin) = Len(tx.vin)
             /\ \A m \in DOMAIN t.vin :
                  /\ t.vin[m].outpoint = tx.vin[m].outpoint
                  /\ single(flag) \/ t.vin[m].sequence = tx.vin[m].sequence
  <2>1. a = t.vin /\ b = tx.vin
    BY <1>3, <1>4, <1>8
  <2>2. Len(a) = Len(b) /\ \A m \in DOMAIN a : a[m].outpoint = b[m].outpoint
    BY <1>2, <1>3, <1>4, <1>8, SameOutpoints
  <2>3. single(flag) \/ \A m \in DOMAIN a : a[m].sequence = b[m].sequence
    BY <1>2, <1>3, <1>4, <1>8, SameSequences
  <2> QED
    BY <2>1, <2>2, <2>3
<1> QED
  BY <1>2, <1>5, <1>7, <1>8 DEF Agrees

(* An input more changes the digest unless any may be added. *)
LEMMA AddedInput ==
  ASSUME Inv, phase = "returned", NEW new \in Input
  PROVE  report.updateableInputs <=> SameDigest(AddInput(tx, new), index)
<1> DEFINE u == AddInput(tx, new)
<1>1. /\ tx \in Transactions /\ index \in Nat /\ validateFlag(flag)
      /\ HasDigest(tx, index, flag)
      /\ report.digest = Digest(tx, index, flag, prevout)
      /\ report.updateableInputs = anyoneCanPay(flag)
  BY ReturnedDigest
<1>2. /\ tx \in Transaction /\ tx.vin \in Seq(Input)
      /\ index < Len(tx.vin) /\ tx.vin # <<>> /\ tx.vout # <<>>
      /\ single(flag) => index < Len(tx.vout)
  BY <1>1, Transactional DEF HasDigest
<1>3. /\ u.version = tx.version /\ u.locktime = tx.locktime
      /\ u.vout = tx.vout /\ u.vin = Append(tx.vin, new)
  BY <1>2 DEF AddInput, Transaction
<1>4. /\ u.vin \in Seq(Input) /\ Len(u.vin) = Len(tx.vin) + 1
      /\ u.vin[index + 1] = tx.vin[index + 1] /\ index < Len(u.vin)
      /\ u.vin # <<>>
  BY <1>1, <1>2, <1>3
<1> HIDE DEF u
<1>5. HasDigest(u, index, flag)
  BY <1>2, <1>3, <1>4 DEF HasDigest
<1>6. CASE anyoneCanPay(flag)
  <2>1. inputsFor(u, index, flag) = inputsFor(tx, index, flag)
    BY <1>2, <1>4, <1>6 DEF inputsFor, Only
  <2>2. outputsFor(u, index, flag) = outputsFor(tx, index, flag)
    BY <1>3 DEF outputsFor
  <2>3. Digest(u, index, flag, prevout) = Digest(tx, index, flag, prevout)
    BY <1>3, <1>4, <2>1, <2>2 DEF Digest, Preimage
  <2> QED
    BY <1>1, <1>5, <1>6, <2>3 DEF SameDigest, u
<1>7. CASE ~ anyoneCanPay(flag)
  <2>1. ASSUME Digest(u, index, flag, prevout) = Digest(tx, index, flag, prevout)
        PROVE  FALSE
    <3>1. hashPrevouts(inputsFor(u, index, flag), flag)
            = hashPrevouts(inputsFor(tx, index, flag), flag)
      BY <2>1, SameParts
    <3>2. inputsFor(u, index, flag) = u.vin /\ inputsFor(tx, index, flag) = tx.vin
      BY <1>7 DEF inputsFor
    <3>3. Len(u.vin) = Len(tx.vin)
      BY <1>2, <1>4, <1>7, <3>1, <3>2, SameOutpoints
    <3> QED
      BY <1>2, <1>4, <3>3
  <2> QED
    BY <1>1, <1>7, <2>1 DEF SameDigest, u
<1> QED
  BY <1>6, <1>7

(* So does an output, unless only one is signed. *)
LEMMA AddedOutput ==
  ASSUME Inv, phase = "returned", NEW new \in Output
  PROVE  report.updateableOutputs <=> SameDigest(AddOutput(tx, new), index)
<1> DEFINE u == AddOutput(tx, new)
<1>1. /\ tx \in Transactions /\ index \in Nat /\ validateFlag(flag)
      /\ HasDigest(tx, index, flag)
      /\ report.digest = Digest(tx, index, flag, prevout)
      /\ report.updateableOutputs = single(flag)
  BY ReturnedDigest
<1>2. /\ tx \in Transaction /\ tx.vout \in Seq(Output)
      /\ index < Len(tx.vin) /\ tx.vin # <<>> /\ tx.vout # <<>>
      /\ single(flag) => index < Len(tx.vout)
  BY <1>1, Transactional DEF HasDigest
<1>3. /\ u.version = tx.version /\ u.locktime = tx.locktime
      /\ u.vin = tx.vin /\ u.vout = Append(tx.vout, new)
  BY <1>2 DEF AddOutput, Transaction
<1>4. /\ u.vout \in Seq(Output) /\ Len(u.vout) = Len(tx.vout) + 1
      /\ single(flag) => u.vout[index + 1] = tx.vout[index + 1]
                           /\ index < Len(u.vout)
      /\ u.vout # <<>>
  BY <1>1, <1>2, <1>3
<1> HIDE DEF u
<1>5. HasDigest(u, index, flag)
  BY <1>2, <1>3, <1>4 DEF HasDigest
<1>6. inputsFor(u, index, flag) = inputsFor(tx, index, flag)
  BY <1>3 DEF inputsFor
<1>7. CASE single(flag)
  <2>1. outputsFor(u, index, flag) = outputsFor(tx, index, flag)
    BY <1>2, <1>4, <1>7 DEF outputsFor, Only
  <2>2. Digest(u, index, flag, prevout) = Digest(tx, index, flag, prevout)
    BY <1>3, <1>6, <2>1 DEF Digest, Preimage
  <2> QED
    BY <1>1, <1>5, <1>7, <2>2 DEF SameDigest, u
<1>8. CASE ~ single(flag)
  <2>1. ASSUME Digest(u, index, flag, prevout) = Digest(tx, index, flag, prevout)
        PROVE  FALSE
    <3>1. hashOutputs(outputsFor(u, index, flag))
            = hashOutputs(outputsFor(tx, index, flag))
      BY <2>1, SameParts
    <3>2. outputsFor(u, index, flag) = u.vout /\ outputsFor(tx, index, flag) = tx.vout
      BY <1>8 DEF outputsFor
    <3>3. u.vout = tx.vout
      BY <1>2, <1>4, <3>1, <3>2, SameOutputs
    <3> QED
      BY <1>2, <1>4, <3>3
  <2> QED
    BY <1>1, <1>8, <2>1 DEF SameDigest, u
<1> QED
  BY <1>7, <1>8

(* sighash, for any two transactions: the digest commits to everything the *)
(* flag does not leave open, and the report tells exactly what it leaves.  *)
THEOREM SignatureCommits == Spec => []SignsWhatItShould
<1>1. Inv => SignsWhatItShould
  <2> SUFFICES ASSUME Inv, phase = "returned", NEW t \in Transactions
               PROVE  /\ \A k \in Indices : SameDigest(t, k) => Agrees(t, k)
                      /\ \A k \in DOMAIN t.vin :
                           report.updateableInputs <=>
                             SameDigest(AddInput(tx, t.vin[k]), index)
                      /\ \A k \in DOMAIN t.vout :
                           report.updateableOutputs <=>
                             SameDigest(AddOutput(tx, t.vout[k]), index)
    BY DEF SignsWhatItShould
  <2>1. \A k \in DOMAIN t.vin : t.vin[k] \in Input
    BY Transactional
  <2>2. \A k \in DOMAIN t.vout : t.vout[k] \in Output
    BY Transactional
  <2> QED
    BY <2>1, <2>2, SameDigestAgrees, AddedInput, AddedOutput
<1> QED
  BY SpecInv, <1>1, PTL

(***************************************************************************)
(* LocksReported.                                                          *)
(***************************************************************************)
(* No relative lock reported over the inputs in view: each of them, or the *)
(* version, shows the bit that is read as none.                            *)
LEMMA NoRelativeLock ==
  ASSUME NEW ins \in Seq(Input), NEW version \in Nat,
         ~ possibleRelativeLock(ins, version), NEW m \in DOMAIN ins
  PROVE  version % Base = 1 \/ (ins[m].sequence \div LowTop) % 2 = 1
<1>1. ins[m].sequence \in Nat
  <2>1. ins[m] \in Input
    OBVIOUS
  <2> QED
    BY <2>1, SighashAssumption DEF Input
<1>2. (ins[m].sequence \div LowTop) % 2 \in 0..1
  BY <1>1, SighashAssumption, SMTT(30)
<1> QED
  BY <1>2 DEF possibleRelativeLock

LEMMA AbsoluteLockSeen ==
  ASSUME Inv, phase = "returned", ~ report.possibleAbsoluteLock,
         NEW t \in Transactions, NEW k \in Indices, SameDigest(t, k), flag # 3
  PROVE  ~ AbsolutelyLocked(t)
<1>1. /\ tx \in Transactions /\ validateFlag(flag)
      /\ ~ possibleAbsoluteLock(inputsFor(tx, index, flag), tx.locktime, flag)
  BY ReturnedDigest
<1>2. ~ anyoneCanPay(flag) /\ ~ single(flag)
  BY <1>1, FlagBits DEF possibleAbsoluteLock, validateFlag
<1>3. ~ (/\ \E m \in DOMAIN tx.vin : tx.vin[m].sequence # Final
         /\ Future(tx.locktime))
  BY <1>1, <1>2 DEF possibleAbsoluteLock, inputsFor
<1>4. /\ t.locktime = tx.locktime /\ Len(t.vin) = Len(tx.vin)
      /\ \A m \in DOMAIN t.vin : t.vin[m].sequence = tx.vin[m].sequence
  BY <1>2, SameDigestAgrees DEF Agrees
<1>5. DOMAIN t.vin = DOMAIN tx.vin
  BY <1>1, <1>4, Transactional
<1> QED
  BY <1>3, <1>4, <1>5 DEF AbsolutelyLocked

LEMMA RelativeLockSeen ==
  ASSUME Inv, phase = "returned", ~ report.possibleRelativeLock,
         NEW t \in Transactions, NEW k \in Indices, SameDigest(t, k),
         NEW m \in IF flag = 1 THEN DOMAIN t.vin ELSE {k + 1}
  PROVE  Misread(t, m)
<1>1. /\ tx \in Transactions /\ index \in Nat /\ validateFlag(flag)
      /\ HasDigest(tx, index, flag)
      /\ ~ possibleRelativeLock(inputsFor(tx, index, flag), tx.version)
  BY ReturnedDigest
<1>2. /\ t.version = tx.version /\ t.vin[k + 1] = tx.vin[index + 1]
      /\ ~ anyoneCanPay(flag) =>
           /\ Len(t.vin) = Len(tx.vin)
           /\ \A j \in DOMAIN t.vin :
                single(flag) \/ t.vin[j].sequence = tx.vin[j].sequence
  BY SameDigestAgrees DEF Agrees
<1>3. tx.version \in Nat
  BY <1>1, Transactional, SighashAssumption
<1> DEFINE ins == inputsFor(tx, index, flag)
<1>4. /\ ins \in Seq(Input)
      /\ ins = IF anyoneCanPay(flag) THEN <<tx.vin[index + 1]>> ELSE tx.vin
      /\ index + 1 \in DOMAIN tx.vin
  BY <1>1, ElementsInView
<1> HIDE DEF ins
<1>5. \A j \in DOMAIN ins :
        tx.version % Base = 1 \/ (ins[j].sequence \div LowTop) % 2 = 1
  BY <1>1, <1>3, <1>4, NoRelativeLock DEF ins
<1>6. CASE flag = 1
  <2>1. ~ anyoneCanPay(flag) /\ ~ single(flag)
    BY <1>1, <1>6, FlagBits
  <2>2. m \in DOMAIN t.vin /\ DOMAIN t.vin = DOMAIN tx.vin
    BY <1>1, <1>2, <1>6, <2>1, Transactional
  <2>3. t.vin[m].sequence = ins[m].sequence /\ m \in DOMAIN ins
    BY <1>2, <1>4, <2>1, <2>2
  <2> QED
    BY <1>2, <1>5, <2>3 DEF Misread
<1>7. CASE flag # 1
  <2>1. m = k + 1
    BY <1>7
  <2>2. \E j \in DOMAIN ins : ins[j] = tx.vin[index + 1]
    <3>1. CASE anyoneCanPay(flag)
      <4>1. ins = <<tx.vin[index + 1]>>
        BY <1>4, <3>1
      <4>2. 1 \in DOMAIN ins /\ ins[1] = tx.vin[index + 1]
        BY <4>1
      <4> QED
        BY <4>2
    <3>2. CASE ~ anyoneCanPay(flag)
      BY <1>4, <3>2
    <3> QED
      BY <3>1, <3>2
  <2> QED
    BY <1>2, <1>5, <2>1, <2>2 DEF Misread
<1> QED
  BY <1>6, <1>7

(* sighash's report of locks, for transactions of any shape: a lock that   *)
(* is not reported is not there, in the transaction given and in every     *)
(* other the signature is good for, within the bits that are read.         *)
THEOREM LocksAreReported == Spec => []LocksReported
<1>1. Inv => LocksReported
  <2> SUFFICES ASSUME Inv, phase = "returned" PROVE LocksReported
    BY DEF LocksReported
  <2>1. ASSUME ~ report.possibleAbsoluteLock
        PROVE  ~ AbsolutelyLocked(tx)
    <3>1. ~ possibleAbsoluteLock(inputsFor(tx, index, flag), tx.locktime, flag)
      BY <2>1, ReturnedDigest
    <3> QED
      BY <3>1 DEF possibleAbsoluteLock, inputsFor, AbsolutelyLocked
  <2> QED
    BY <2>1, AbsoluteLockSeen, RelativeLockSeen DEF LocksReported
<1> QED
  BY SpecInv, <1>1, PTL

(***************************************************************************)
(* ValidIsOwnersPayment.                                                   *)
(***************************************************************************)
(* Who has the key hash of an owner is the owner. *)
LEMMA RawKeys ==
  ASSUME NEW p \in Points, NEW q \in Points
  PROVE  /\ Raw(p) \in Presented /\ Raw(p).form = "raw"
         /\ Raw(p) = Raw(q) => p = q
         /\ Raw(p) # Garbage
         /\ OwnerHash(p) = OwnerHash(q) => p = q
         /\ PubkeyHash(Raw(p)) = OwnerHash(p)
<1>1. /\ p = [x |-> p.x, y |-> p.y] /\ q = [x |-> q.x, y |-> q.y]
      /\ p.y \in Nat /\ q.y \in Nat
      /\ p.x = q.x /\ p.y % 2 = q.y % 2 => p = q
  BY PointsAssumption
<1>2. Raw(p) \in Presented /\ Raw(p).form = "raw"
  BY DEF Raw, Presented
<1>3. Raw(p) = Raw(q) => p = q
  <2>1. Raw(p).x = p.x /\ Raw(p).y = p.y /\ Raw(q).x = q.x /\ Raw(q).y = q.y
    BY DEF Raw
  <2> QED
    BY <1>1, <2>1
<1>4. Raw(p) # Garbage
  BY DEF Raw, Garbage
<1>5. OwnerHash(p) = OwnerHash(q) => p = q
  <2> SUFFICES ASSUME OwnerHash(p) = OwnerHash(q) PROVE p = q
    OBVIOUS
  <2>1. [x |-> p.x, prefix |-> 2 + (p.y % 2)] = [x |-> q.x, prefix |-> 2 + (q.y % 2)]
    BY DEF OwnerHash, hash160
  <2>2. p.x = q.x /\ 2 + (p.y % 2) = 2 + (q.y % 2)
    BY <2>1
  <2>3. p.y % 2 \in Int /\ q.y % 2 \in Int
    BY <1>1
  <2> QED
    BY <1>1, <2>2, <2>3
<1>6. PubkeyHash(Raw(p)) = OwnerHash(p)
  BY DEF PubkeyHash, OwnerHash, Raw
<1> QED
  BY <1>2, <1>3, <1>4, <1>5, <1>6

(* The library accepts a key and a signature only from the owner, over the *)
(* preimage it makes itself.                                               *)
LEMMA AcceptedSignature ==
  ASSUME NEW owner \in Points, NEW s \in Points, NEW key \in Presented,
         NEW pre, NEW digest,
         NEW v, v = checkBitcoinSig(<<"0014", OwnerHash(owner)>>, key, pre,
                                    [key |-> Raw(s), digest |-> digest])
  PROVE  v = "valid" <=> s = owner /\ key = Raw(s) /\ pre = digest
<1> DEFINE sig == [key |-> Raw(s), digest |-> digest]
<1>1. sig.key = Raw(s) /\ sig.digest = digest
  OBVIOUS
<1> HIDE DEF sig
<1>2. checkSig(key, pre, sig) <=> IF digest = pre THEN Raw(s) = key ELSE Garbage = key
  BY <1>1 DEF checkSig, ecrecover, accountFromPubkey
<1>3. p2wpkhFromPubkey(key) = <<"0014", OwnerHash(owner)>>
        <=> PubkeyHash(key) = OwnerHash(owner)
  BY DEF p2wpkhFromPubkey
<1>4. v = "valid" <=> /\ key.form = "raw"
                      /\ p2wpkhFromPubkey(key) = <<"0014", OwnerHash(owner)>>
                      /\ checkSig(key, pre, sig)
  BY DEF checkBitcoinSig, sig
<1>5. ASSUME v = "valid"
      PROVE  s = owner /\ key = Raw(s) /\ pre = digest
  <2>1. key.form = "raw" /\ key # Garbage
    BY <1>4, <1>5 DEF Garbage
  <2>2. digest = pre /\ key = Raw(s)
    BY <1>2, <1>4, <1>5, <2>1
  <2>3. OwnerHash(s) = OwnerHash(owner)
    BY <1>3, <1>4, <1>5, <2>2, RawKeys
  <2> QED
    BY <2>2, <2>3, RawKeys
<1>6. ASSUME s = owner, key = Raw(s), pre = digest
      PROVE  v = "valid"
  BY <1>2, <1>3, <1>4, <1>6, RawKeys
<1> QED
  BY <1>5, <1>6

(* The preimage of the library is the digest of PaymentTx, signed with the *)
(* flag ALL, and of nothing else.                                          *)
LEMMA PreimageOfPayment ==
  ASSUME NEW t \in Transactions, NEW k \in Nat, NEW f, validateFlag(f),
         HasDigest(t, k, f), NEW p \in Prevouts,
         NEW payment \in Payments, NEW pkh
  PROVE  wpkhSpendPreimage(payment, pkh) = Digest(t, k, f, p)
           <=> /\ t = PaymentTx(payment) /\ f = 1
               /\ p = [script |-> scriptCode(pkh), value |-> payment.inputValue]
<1> DEFINE o == payment.outpoint
           out == [value |-> payment.outputValue, script |-> payment.outputScript]
<1>0. /\ p = [script |-> p.script, value |-> p.value]
      /\ o \in Outpoints /\ out \in Output
  BY SighashAssumption, PaymentsAssumption DEF Output
<1>1. wpkhSpendPreimage(payment, pkh)
        = << 1, Hash(<<o>>), Hash(<<0>>), o, scriptCode(pkh),
             payment.inputValue, 0, Hash(<<out>>), 0, 1 >>
  BY DEF wpkhSpendPreimage
<1>2. /\ k + 1 \in DOMAIN t.vin /\ t.vin[k + 1] \in Input
      /\ t \in Transaction /\ t.vin \in Seq(Input) /\ t.vout \in Seq(Output)
      /\ t.vout # <<>>
  BY ElementsInView, Transactional DEF HasDigest
<1> HIDE DEF o, out
<1>3. ASSUME wpkhSpendPreimage(payment, pkh) = Digest(t, k, f, p)
      PROVE  /\ t = PaymentTx(payment) /\ f = 1
             /\ p = [script |-> scriptCode(pkh), value |-> payment.inputValue]
  <2>1. /\ t.version = 1 /\ t.locktime = 0 /\ f = 1
        /\ p.script = scriptCode(pkh) /\ p.value = payment.inputValue
        /\ hashPrevouts(inputsFor(t, k, f), f) = Hash(<<o>>)
        /\ hashSequence(inputsFor(t, k, f), f) = Hash(<<0>>)
        /\ hashOutputs(outputsFor(t, k, f)) = Hash(<<out>>)
    BY <1>1, <1>3 DEF Digest, Preimage
  <2>2. ~ anyoneCanPay(f) /\ ~ single(f)
    BY <2>1, FlagBits
  <2>3. inputsFor(t, k, f) = t.vin /\ outputsFor(t, k, f) = t.vout
    BY <2>2 DEF inputsFor, outputsFor
  <2>4. /\ [j \in DOMAIN t.vin |-> t.vin[j].outpoint] = <<o>>
        /\ [j \in DOMAIN t.vin |-> t.vin[j].sequence] = <<0>>
    BY <2>1, <2>2, <2>3 DEF hashPrevouts, hashSequence, Hash
  <2>5. DOMAIN t.vin = 1..1
    BY <2>4
  <2>6. t.vin[1].outpoint = o /\ t.vin[1].sequence = 0
    BY <2>4, <2>5
  <2>7. t.vin = <<[outpoint |-> o, sequence |-> 0]>>
    <3>1. t.vin[1] \in Input
      BY <1>2, <2>5
    <3>2. t.vin[1] = [outpoint |-> o, sequence |-> 0]
      BY <2>6, <3>1 DEF Input
    <3>3. Len(t.vin) = 1
      <4>1. DOMAIN t.vin = 1..Len(t.vin) /\ Len(t.vin) \in Nat
        BY <1>2
      <4>2. 1 \in DOMAIN t.vin
        BY <2>5
      <4>3. Len(t.vin) \in DOMAIN t.vin
        BY <4>1, <4>2
      <4>4. Len(t.vin) \in 1..1
        BY <2>5, <4>3
      <4> QED
        BY <4>4
    <3> QED
      BY <1>2, <3>2, <3>3
  <2>8. t.vout = <<out>>
    BY <2>1, <2>3, <1>2 DEF hashOutputs, Hash, NullHash
  <2> QED
    BY <1>0, <1>2, <2>1, <2>7, <2>8 DEF PaymentTx, Transaction, o, out
<1>4. ASSUME t = PaymentTx(payment), f = 1,
             p = [script |-> scriptCode(pkh), value |-> payment.inputValue]
      PROVE  wpkhSpendPreimage(payment, pkh) = Digest(t, k, f, p)
  <2>1. /\ t.version = 1 /\ t.locktime = 0
        /\ t.vin = <<[outpoint |-> o, sequence |-> 0]>> /\ t.vout = <<out>>
        /\ p.script = scriptCode(pkh) /\ p.value = payment.inputValue
    BY <1>4 DEF PaymentTx, o, out
  <2>2. ~ anyoneCanPay(f) /\ ~ single(f)
    BY <1>4, FlagBits
  <2>3. inputsFor(t, k, f) = t.vin /\ outputsFor(t, k, f) = t.vout
    BY <2>2 DEF inputsFor, outputsFor
  <2>4. k + 1 = 1
    BY <1>2, <2>1
  <2>5. t.vin[k + 1].outpoint = o /\ t.vin[k + 1].sequence = 0
    BY <2>1, <2>4
  <2>6. /\ [j \in DOMAIN t.vin |-> t.vin[j].outpoint] = <<o>>
        /\ [j \in DOMAIN t.vin |-> t.vin[j].sequence] = <<0>>
    BY <2>1
  <2>7. /\ hashPrevouts(t.vin, f) = Hash(<<o>>)
        /\ hashSequence(t.vin, f) = Hash(<<0>>)
        /\ hashOutputs(t.vout) = Hash(<<out>>)
    BY <2>1, <2>2, <2>6 DEF hashPrevouts, hashSequence, hashOutputs
  <2> QED
    BY <1>1, <1>4, <2>1, <2>3, <2>5, <2>7 DEF Digest, Preimage
<1> QED
  BY <1>3, <1>4

(* CheckBitcoinSigs.checkBitcoinSig against sighash.js: for every set of   *)
(* keys and payments, and transactions of any shape, the contract accepts  *)
(* exactly the owner's signature over the payment asked for.               *)
THEOREM OnlyOwnersPayment == Spec => []ValidIsOwnersPayment
<1>1. Inv => ValidIsOwnersPayment
  <2> SUFFICES ASSUME Inv, verdict \in {"valid", "invalid"}
               PROVE  ValidIsOwnersPayment
    BY DEF ValidIsOwnersPayment
  <2> DEFINE owner == request.owner
             payment == request.payment
             pkh == OwnerHash(owner)
  <2>1. /\ phase = "checked" /\ owner \in Points /\ payment \in Payments
        /\ request.key \in Presented /\ signer \in Points
        /\ verdict = checkBitcoinSig(
                       <<"0014", pkh>>, request.key,
                       wpkhSpendPreimage(payment, pkh),
                       [key |-> Raw(signer), digest |-> report.digest])
    BY DEF Inv, CheckedInv, SignedInv
  <2>2. /\ tx \in Transactions /\ index \in Nat /\ validateFlag(flag)
        /\ HasDigest(tx, index, flag) /\ prevout \in Prevouts
        /\ report.digest = Digest(tx, index, flag, prevout)
    BY <2>1, ReturnedDigest DEF Inv, ArgsInv
  <2> HIDE DEF owner, payment, pkh
  <2>3. verdict = "valid" <=>
          /\ signer = owner /\ request.key = Raw(signer)
          /\ wpkhSpendPreimage(payment, pkh) = report.digest
    BY <2>1, AcceptedSignature DEF pkh
  <2>4. wpkhSpendPreimage(payment, pkh) = report.digest <=>
          /\ tx = PaymentTx(payment) /\ flag = 1
          /\ prevout = [script |-> scriptCode(pkh), value |-> payment.inputValue]
    BY <2>1, <2>2, PreimageOfPayment
  <2> QED
    BY <2>3, <2>4 DEF ValidIsOwnersPayment, owner, payment, pkh
<1> QED
  BY SpecInv, <1>1, PTL
=============================================================================
