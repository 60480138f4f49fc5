------------------------------ MODULE SwapDemo ------------------------------
(***************************************************************************)
(* swap-demo.c: the lock script of a CKB cell for sale, on the C port.     *)
(* main takes the witness apart field by field, then checks the inclusion  *)
(* of the Bitcoin transaction, the headers, the listing and the payment,   *)
(* in the order of the code.                                               *)
(*                                                                         *)
(* A view is an offset into the witness and a length.  Prove and Work      *)
(* stand for the functions of MerkleProof and HeaderChain, Hash256 for any *)
(* function of bytes, a case for the answers of the system calls.          *)
(***************************************************************************)
EXTENDS TxElement

CONSTANTS
  HeaderSize,   \* bytes of a header (80)
  RootAt,       \* where its Merkle root begins (36)
  NodeSize,     \* bytes of a digest (32)
  NumberSize,   \* bytes of a version, an index, a locktime (4)
  AmountSize,   \* bytes of an amount of CKB or of work (8)
  PayeeSize,    \* bytes of the owner that are compared (20)
  Front, Back,  \* bytes around the witness proper (20, 8)
  MaxWitness,   \* MAX_WITNESS_SIZE
  ScriptSize,   \* SCRIPT_SIZE
  Width,        \* 2^32
  Word,         \* 2^64
  OP_RETURN,    \* 0x6a
  Hash256(_),
  Prove(_, _, _, _),
  Work(_),      \* the work of whole headers, or an error
  WorkOf(_),    \* the work of HeaderChainSpec, or -1 where it has none
  Cases         \* what the system calls may load, and the stack behind it

Bytes == 0..Base - 1

ASSUME SwapAssumption ==
  /\ HeaderSize \in Nat \ {0} /\ RootAt \in Nat /\ NodeSize \in Nat
  /\ RootAt + NodeSize <= HeaderSize
  /\ NumberSize \in Nat /\ AmountSize \in Nat /\ PayeeSize \in Nat \ {0}
  /\ Front \in Nat /\ Back \in Nat
  /\ MaxWitness \in Nat /\ ScriptSize \in Nat /\ Width \in Nat \ {0}
  /\ Word \in Nat
  /\ \A c \in Cases :
       /\ {c.witness.bytes, c.beyond, c.script.args, c.lock.code_hash,
           c.capacity.bytes} \subseteq Seq(Bytes)
       /\ {"none", "Fault"} \cap {c.lock.ret, c.capacity.ret} = {}
       /\ c.lock.verified => Len(c.lock.code_hash) >= PayeeSize

OutpointSize == Before["vin"]
ValueSize == Before["vout"]

(* No count of headers, nodes and elements makes the offset wrap. *)
MaxElement(kind) == Before[kind] + 2 + Base + After[kind]
MaxFields ==
  4 + (HeaderSize + NodeSize + MaxElement("vin") + MaxElement("vout"))
        * (Base - 1) + 3 * NumberSize

ASSUME RoomAssumption ==
  MaxWitness < Width /\ Front + MaxFields + Back < Width

VARIABLES
  given,     \* one of the cases
  pc,        \* the next step, or "done"
  returned,  \* what main returned
  offset,    \* bytes of the witness passed
  fields,    \* the view of each field
  i,         \* elements of a vector passed
  end        \* where the next one begins in the vector

vars == <<given, pc, returned, offset, fields, i, end>>

script == given.script      \* ckb_load_script: ret, len, verified, args
witness == given.witness    \* ckb_load_witness: ret, bytes
lock == given.lock          \* the first output's lock: ret, verified, code_hash
capacity == given.capacity  \* the first output's capacity: ret, bytes

(***************************************************************************)
(* Views.                                                                  *)
(***************************************************************************)
View(loc, len) == [loc |-> loc, len |-> len]
Null == View(0, -1)

(* A byte of the witness proper, or of what lies behind it on the stack.   *)
At(o) ==
  LET size == Len(witness.bytes) IN
  IF Front + o < size THEN witness.bytes[Front + o + 1]
  ELSE IF Front + o - size < Len(given.beyond)
       THEN given.beyond[Front + o - size + 1] ELSE 0

Slice(loc, len) == [k \in 1..len |-> At(loc + k - 1)]
Of(f) == Slice(fields[f].loc, fields[f].len)

(* btcspv_view_eq: equal lengths and equal bytes. *)
view_eq(v, bytes) == v.len = Len(bytes) /\ Slice(v.loc, v.len) = bytes

(* AS_LE_UINT32, AS_LE_UINT64. *)
LE(b) ==
  LET sum[k \in 0..Len(b)] ==
        IF k = 0 THEN 0 ELSE b[Len(b) + 1 - k] + Base * sum[k - 1]
  IN sum[Len(b)]

(* AS_UINT64. *)
BE(b) == LE([k \in 1..Len(b) |-> b[Len(b) + 1 - k]])

(***************************************************************************)
(* The steps of main.                                                      *)
(***************************************************************************)
FieldNames ==
  {"headers", "nodes", "tx_index", "version", "vin", "vout", "locktime"}

Init ==
  /\ given \in Cases
  /\ pc = "load_args" /\ returned = "none"
  /\ offset = 0 /\ fields = [f \in FieldNames |-> Null]
  /\ i = 0 /\ end = 1

Continue(to) == pc' = to /\ UNCHANGED returned
Return(code) == pc' = "done" /\ returned' = code

(* A step that reads and decides. *)
Check(at, holds, to, error) ==
  /\ pc = at
  /\ IF holds THEN Continue(to) ELSE Return(error)
  /\ UNCHANGED <<given, offset, fields, i, end>>

LoadArgs ==
  Check("load_args",
        /\ script.ret = "CKB_SUCCESS" /\ script.len <= ScriptSize
        /\ script.verified
        /\ Len(script.args) = 2 * AmountSize + OutpointSize,
        "load_witness", "ERROR_ENCODING")

LoadWitness ==
  Check("load_witness",
        witness.ret = "CKB_SUCCESS" /\ Len(witness.bytes) <= MaxWitness,
        "headers", IF witness.ret = "CKB_SUCCESS"
                   THEN "ERROR_WITNESS_SIZE" ELSE "ERROR_SYSCALL")

(* Faulty: the length prefix is taken for a part of the headers. *)
ExtractHeadersPrefixed ==
  /\ pc = "headers" /\ Continue("nodes")
  /\ fields' = [fields EXCEPT !["headers"] = View(0, 1 + HeaderSize * At(0))]
  /\ offset' = offset + 1 + HeaderSize * At(0)
  /\ UNCHANGED <<given, i, end>>

ExtractHeaders ==
  /\ pc = "headers" /\ Continue("nodes")
  /\ fields' = [fields EXCEPT !["headers"] = View(1, HeaderSize * At(0))]
  /\ offset' = offset + 1 + HeaderSize * At(0)
  /\ UNCHANGED <<given, i, end>>

ExtractNodes ==
  /\ pc = "nodes" /\ Continue("numbers")
  /\ fields' = [fields EXCEPT
       !["nodes"] = View(offset + 1, NodeSize * At(offset))]
  /\ offset' = offset + 1 + NodeSize * At(offset)
  /\ UNCHANGED <<given, i, end>>

ReadNumbers ==
  /\ pc = "numbers" /\ Continue("take_vin")
  /\ fields' = [fields EXCEPT
       !["tx_index"] = View(offset, NumberSize),
       !["version"] = View(offset + NumberSize, NumberSize)]
  /\ offset' = offset + 2 * NumberSize
  /\ UNCHANGED <<given, i, end>>

(***************************************************************************)
(* extract_vin and extract_vout add up the lengths of the elements; each   *)
(* is found by a new walk from the head of the vector.  An element that is *)
(* not wholly there, or is behind such a one, has no length.               *)
(***************************************************************************)
Taking(kind) == pc = IF kind = "vin" THEN "take_vin" ELSE "take_vout"

(* The length of wit and of tmp_vin and tmp_vout, which wraps for a short  *)
(* witness and where the fields before have passed its end.                *)
wit_len == (Len(witness.bytes) - Front - Back) % Width
left == (wit_len - offset) % Width
Inside == Front + offset + Back <= Len(witness.bytes)

Outcome(kind, b) == ElementOutcome("c", kind, b, end)
Beyond(kind, b) == end + ElementLength("c", kind, b, end)
Rest == Slice(offset, left)

(* btcspv_extract_input_at_index, btcspv_extract_output_at_index: a count   *)
(* of more than a byte is not minimal.                                      *)
Whole(kind) ==
  /\ At(offset) < Wide
  /\ Outcome(kind, Rest) = "ok" /\ Beyond(kind, Rest) <= left

(* Faulty: one round too many. *)
TakeElementOneMore(kind) ==
  /\ Taking(kind) /\ i <= At(offset)
  /\ i' = i + 1
  /\ end' = IF Whole(kind) THEN Beyond(kind, Rest) ELSE end
  /\ UNCHANGED <<given, pc, returned, offset, fields>>

TakeElement(kind) ==
  /\ Taking(kind) /\ i < At(offset)
  /\ i' = i + 1
  /\ end' = IF Whole(kind) THEN Beyond(kind, Rest) ELSE end
  /\ UNCHANGED <<given, pc, returned, offset, fields>>

(* The walk to the element behind one that is not wholly there reads on    *)
(* behind the witness, perhaps to where no memory is.                      *)
Overrun(kind) ==
  /\ Taking(kind) /\ i < At(offset)
  /\ \/ ~Inside
     \/ /\ i + 1 < At(offset) /\ At(offset) < Wide
        /\ Outcome(kind, Rest) = "ok" /\ Beyond(kind, Rest) > left
  /\ Return("Fault")
  /\ UNCHANGED <<given, offset, fields, i, end>>

Taken(kind) ==
  /\ Taking(kind) /\ i = At(offset)
  /\ Continue(IF kind = "vin" THEN "check_vin" ELSE "check_vout")
  /\ fields' = [fields EXCEPT ![kind] = View(offset, end)]
  /\ offset' = offset + end
  /\ i' = 0 /\ end' = 1
  /\ UNCHANGED given

(***************************************************************************)
(* btcspv_validate_vin and btcspv_validate_vout of what was taken.         *)
(***************************************************************************)
Checking(kind) == pc = IF kind = "vin" THEN "check_vin" ELSE "check_vout"
Count(kind) == Of(kind)[1]
Sound(kind) ==
  Count(kind) < Wide /\ end < fields[kind].len /\ Outcome(kind, Of(kind)) = "ok"

CheckElement(kind) ==
  /\ Checking(kind) /\ i < Count(kind) /\ Sound(kind)
  /\ i' = i + 1
  /\ end' = Beyond(kind, Of(kind))
  /\ UNCHANGED <<given, pc, returned, offset, fields>>

RefuseVector(kind) ==
  /\ Checking(kind)
  /\ \/ Count(kind) = 0
     \/ i < Count(kind) /\ ~Sound(kind)
     \/ i = Count(kind) /\ end # fields[kind].len
  /\ Return(IF kind = "vin" THEN "ERROR_BAD_VIN" ELSE "ERROR_BAD_VOUT")
  /\ UNCHANGED <<given, offset, fields, i, end>>

AcceptVector(kind) ==
  /\ Checking(kind) /\ Count(kind) # 0
  /\ i = Count(kind) /\ end = fields[kind].len
  /\ Continue(IF kind = "vin" THEN "take_vout" ELSE "end")
  /\ i' = 0 /\ end' = 1
  /\ UNCHANGED <<given, offset, fields>>

(* Faulty: bytes may be left over. *)
CheckEndLoose ==
  /\ pc = "end"
  /\ fields' = [fields EXCEPT !["locktime"] = View(offset, NumberSize)]
  /\ offset' = offset + NumberSize
  /\ IF offset' <= wit_len THEN Continue("inclusion")
     ELSE Return("ERROR_BAD_WITNESS")
  /\ UNCHANGED <<given, i, end>>

(* Only here is the length of the witness looked at. *)
CheckEnd ==
  /\ pc = "end"
  /\ fields' = [fields EXCEPT !["locktime"] = View(offset, NumberSize)]
  /\ offset' = offset + NumberSize
  /\ IF offset' = wit_len THEN Continue("inclusion")
     ELSE Return("ERROR_BAD_WITNESS")
  /\ UNCHANGED <<given, i, end>>

(***************************************************************************)
(* The proof of the transaction.                                           *)
(***************************************************************************)
TxId == Hash256(Of("version") \o Of("vin") \o Of("vout") \o Of("locktime"))

(* extract_merkle_root_le of the first 80 bytes, also where no header is.  *)
Root == Slice(fields["headers"].loc + RootAt, NodeSize)

CheckInclusion ==
  Check("inclusion", Prove(TxId, Root, Of("nodes"), LE(Of("tx_index"))),
        "chain", "ERROR_INVALID_MERKLE_PROOF")

(* Errors are the largest numbers; main asks for two of the three. *)
BadLength == Word - 1
InvalidChain == Word - 2
LowWork == Word - 3

accDiff ==
  IF fields["headers"].len % HeaderSize # 0
  THEN BadLength ELSE Work(Of("headers"))
RequiredWork == BE(SubSeq(script.args, AmountSize + 1, 2 * AmountSize))

(* Faulty: an error is taken for work. *)
CheckChainNoErrors ==
  Check("chain", accDiff >= RequiredWork, "listing", "ERROR_NOT_ENOUGH_WORK")

CheckChain ==
  Check("chain",
        accDiff \notin {InvalidChain, LowWork} /\ accDiff >= RequiredWork,
        "listing",
        CASE accDiff = InvalidChain -> "ERROR_INVALID_HEADER_CHAIN"
          [] accDiff = LowWork -> "ERROR_LOW_WORK_HEADER_CHAIN"
          [] OTHER -> "ERROR_NOT_ENOUGH_WORK")

(***************************************************************************)
(* The payment.                                                            *)
(***************************************************************************)
Listing == SubSeq(script.args, 2 * AmountSize + 1, Len(script.args))

CheckListing ==
  Check("listing", view_eq(View(fields["vin"].loc + 1, OutpointSize), Listing),
        "lock", "ERROR_WRONG_LISTING")

LoadLock ==
  Check("lock", lock.ret = "CKB_SUCCESS" /\ lock.verified, "payee",
        IF lock.ret = "CKB_SUCCESS" THEN "ERROR_ENCODING" ELSE lock.ret)

(* extract_output_at_index(&vout, 1), of a vector that has been checked.   *)
SecondOutput ==
  LET at == 1 + ElementLength("c", "vout", Of("vout"), 1) IN
  IF Count("vout") < 2 THEN Null
  ELSE View(fields["vout"].loc + at,
            ElementLength("c", "vout", Of("vout"), at))

(* extract_op_return_data.  The two bytes it looks at may be behind an     *)
(* output with a short script.                                             *)
OpReturnData(output) ==
  LET size == At(output.loc + ValueSize + 2) IN
  IF \/ output = Null
     \/ At(output.loc + ValueSize + 1) # OP_RETURN
     \/ output.len < size + ValueSize + 3
  THEN Null ELSE View(output.loc + ValueSize + 3, size)

(* What memcmp compares, whatever the size of the data: the bytes from     *)
(* address 0 on where there is none, if reading them is no fault.          *)
ExpectedPayee ==
  LET data == OpReturnData(SecondOutput) IN
  IF data = Null THEN [k \in 1..PayeeSize |-> 0]
  ELSE Slice(data.loc, PayeeSize)

Owner == SubSeq(lock.code_hash, 1, PayeeSize)

CheckPayee ==
  \/ Check("payee", ExpectedPayee = Owner, "capacity", "ERROR_WRONG_PAYEE")
  \/ /\ pc = "payee" /\ OpReturnData(SecondOutput) = Null
     /\ Check("payee", FALSE, "capacity", "Fault")

Amount == LE(SubSeq(script.args, 1, AmountSize))

CheckCapacity ==
  /\ pc = "capacity"
  /\ Return(CASE capacity.ret # "CKB_SUCCESS" -> capacity.ret
              [] capacity.ret = "CKB_SUCCESS" /\ LE(capacity.bytes) < Amount ->
                   "ERROR_NOT_ENOUGH_OUTPUT_CAPACITY"
              [] OTHER -> "CKB_SUCCESS")
  /\ UNCHANGED <<given, offset, fields, i, end>>

Done == pc = "done" /\ UNCHANGED vars

Parse ==
  \/ ExtractHeaders \/ ExtractNodes \/ ReadNumbers
  \/ \E kind \in Kinds :
       \/ TakeElement(kind) \/ Overrun(kind) \/ Taken(kind)
       \/ CheckElement(kind) \/ RefuseVector(kind) \/ AcceptVector(kind)
  \/ CheckEnd

Decide ==
  CheckInclusion \/ CheckChain \/ CheckListing \/ LoadLock \/ CheckPayee
    \/ CheckCapacity

Next == LoadArgs \/ LoadWitness \/ Parse \/ Decide \/ Done

(* The script runs until it returns. *)
Spec == Init /\ [][Next]_vars /\ WF_vars(Next)

(***************************************************************************)
(* The format that SwapSpec reads the witness by.                          *)
(***************************************************************************)
Includes(header, t, nodes, index) ==
  Prove(Hash256(t.version \o t.vin \o t.vout \o t.locktime),
        SubSeq(header, RootAt + 1, RootAt + NodeSize), nodes, LE(index))

IsElement(kind, s) ==
  /\ Len(s) > Before[kind] /\ s[Before[kind] + 1] < Wide
  /\ Len(s) = Before[kind] + 1 + s[Before[kind] + 1] + After[kind]

(* Where so many elements behind the count of s may end. *)
Ends(kind, s) ==
  LET ends[k \in 0..s[1]] ==
        IF k = 0 THEN {1}
        ELSE UNION {{to \in from + 1..Len(s) :
                       IsElement(kind, SubSeq(s, from + 1, to))} :
                      from \in ends[k - 1]}
  IN ends

IsVector(kind, s) ==
  s # <<>> /\ s[1] \in 1..Wide - 1 /\ Len(s) \in Ends(kind, s)[s[1]]
IsVin(s) == IsVector("vin", s)
IsVout(s) == IsVector("vout", s)

(* The script of the second output, if there are two. *)
SecondScripts(s) ==
  {SubSeq(s, cut[1] + ValueSize + 2, cut[2]) : cut \in
     {c \in (2..Len(s)) \X (2..Len(s)) :
        /\ s[1] >= 2
        /\ IsElement("vout", SubSeq(s, 2, c[1]))
        /\ IsElement("vout", SubSeq(s, c[1] + 1, c[2]))}}

(* OP_RETURN and a push of as many bytes as it says, and not too few. *)
Names(s) ==
  /\ Len(s) > 1 /\ s[1] = OP_RETURN
  /\ s[2] >= PayeeSize /\ Len(s) >= 2 + s[2]

Payee(vout) ==
  IF \E s \in SecondScripts(vout) : Names(s)
  THEN SubSeq(CHOOSE s \in SecondScripts(vout) : Names(s), 3, 2 + PayeeSize)
  ELSE <<>>

Loads ==
  /\ script.ret = "CKB_SUCCESS" /\ script.len <= ScriptSize
  /\ script.verified
  /\ Len(script.args) = 2 * AmountSize + OutpointSize
  /\ witness.ret = "CKB_SUCCESS" /\ Len(witness.bytes) <= MaxWitness
  /\ lock.ret = "CKB_SUCCESS" /\ lock.verified
  /\ capacity.ret = "CKB_SUCCESS"

Verdict ==
  CASE returned = "none" -> "pending"
    [] returned = "CKB_SUCCESS" -> "released"
    [] returned = "Fault" -> "crashed"
    [] OTHER -> "refused"

Promise == INSTANCE SwapSpec WITH
  words <- SubSeq(witness.bytes, Front + 1, Len(witness.bytes) - Back),
  loads <- Loads,
  wanted <- [work |-> RequiredWork, outpoint |-> Listing, amount |-> Amount],
  paid <- [owner |-> Owner, capacity |-> LE(capacity.bytes)],
  verdict <- Verdict

(* The chain check computes the work there is, or says that there is none:  *)
(* what HeaderChain shows of headers whose work stays below the errors.     *)
WorkAgrees(b) ==
  LET last == Front + 1 + HeaderSize * b[Front + 1]
      hs == SubSeq(b, Front + 2, last)
  IN  Front < Len(b) /\ last <= Len(b) =>
        /\ IF WorkOf(hs) = -1 THEN Work(hs) \in {InvalidChain, LowWork}
           ELSE WorkOf(hs) \in 0..LowWork - 1 /\ Work(hs) = WorkOf(hs)
        /\ hs = <<>> => WorkOf(hs) = 0

WorkTold == \A c \in Cases : WorkAgrees(c.witness.bytes)

(***************************************************************************)
(* Properties.                                                             *)
(***************************************************************************)
Deciding == {"inclusion", "chain", "listing", "lock", "payee", "capacity"}
Pcs ==
  {"load_args", "load_witness", "headers", "nodes", "numbers", "take_vin",
   "check_vin", "take_vout", "check_vout", "end", "done"} \cup Deciding

(* The variables have their types; in particular the counter of elements    *)
(* stays a byte.                                                            *)
TypeOK ==
  /\ pc \in Pcs
  /\ pc = "done" <=> returned # "none"
  /\ offset \in Nat
  /\ fields \in [FieldNames -> [loc : Nat, len : Nat \cup {-1}]]
  /\ i \in Bytes /\ end \in Nat \ {0}

End(f) == fields[f].loc + fields[f].len

(* Once the length has been checked, the fields lie one behind the other    *)
(* from the first byte of the witness to the last, and none reaches behind  *)
(* it: what the unchecked reads before that found there decides nothing.    *)
TilesWitness ==
  pc \in Deciding \/ returned = "CKB_SUCCESS" =>
    /\ fields["headers"].loc = 1
    /\ fields["nodes"].loc = End("headers") + 1
    /\ fields["tx_index"].loc = End("nodes")
    /\ fields["version"].loc = End("tx_index")
    /\ fields["vin"].loc = End("version")
    /\ fields["vout"].loc = End("vin")
    /\ fields["locktime"].loc = End("vout")
    /\ Front + End("locktime") + Back = Len(witness.bytes)

(* main asks for two of the three errors of the chain check.  The third     *)
(* cannot occur, or it would be taken for the largest work there is.        *)
ErrorIsNotWork ==
  pc = "listing" => accDiff \notin {BadLength, InvalidChain, LowWork}

(* The script keeps its promise, whatever the witness and whatever lies     *)
(* behind it: it releases only what may be released, refuses only what need *)
(* not be, and answers.                                                     *)
Promised == Promise!Spec
=============================================================================
