# bitcoin-spv in TLA+

Models of the SPV toolkit bitcoin-spv: the same small library of checks on
Bitcoin headers, transactions and Merkle proofs, written once each in C, Go,
JavaScript, Python, Rust and Solidity, and a JavaScript client that fetches
proofs from a bcoin node. The models are checked with TLC on small instances;
theorems about them are proved with TLAPS for every value of the constants.

The library is sequential and keeps no state between calls. What is hard about
it is elsewhere:

- **five or six programs for one purpose**: widths, overflow, negative numbers,
  panics and exceptions differ from language to language, and a proof accepted
  by one port should be accepted by all;
- **loops over untrusted bytes**, in which the state carried from one iteration
  to the next (a digest, a target, an offset, a shifted index) decides what is
  accepted;
- **pairs of programs that have to agree**: the prover with the verifier, the
  validation of a vector with the extraction from it;
- **lengths that bytes state of themselves**: a script takes a witness apart by
  counts it has not checked, and asks only at the end whether they fit;
- **one concurrent part**: the client puts a proof together out of several
  requests, and the node's best chain may change between any two of them.

## Inventory

| component | state | operations | interacts with | hard parts | what makes it correct |
|---|---|---|---|---|---|
| header chain check (`evalspv.c`, `validate_spv.go`, `ValidateSPV.js`, `validatespv.rs`, `ViewSPV.sol`) | loop locals: counter, digest, target, total | `validateHeaderChain` / `checkChain` | calls target and difficulty arithmetic | state carried over iterations, 256-bit widths, exponents out of range | accepted headers link, meet their own targets and are credited with their own difficulty |
| Merkle proofs (`prove`, `verifyHash256Merkle`, `checkMerkle`; `merkle.js`) | tree array, running digest, shifted index | build tree, build branch, verify | client -> any port | odd levels, special cases by length, signed shift | complete for honest proofs; accepts exactly what hashes to the root |
| compact integers and vectors | offset, element counter | validate vin/vout, extract element | used by all proof checks | lengths out of the data, wrap at 2^64, non-minimal integers | accepted = well formed; extraction agrees with validation |
| SPV proof objects (`validateProof`, `SPVProof.Validate`, ...) | none | validate header, validate proof | vectors, txid, header, Merkle proof | order of checks | a valid proof shows a confirmed transaction |
| `BcoinClient` | locals across awaits | `getProof`, `getHeader`, `getMerkleProof`, `parseTxHex`, `getHeaderChainByCount`, `getHeaderChain` | bcoin node over HTTP/RPC | reorganisations between requests, nulls, failures; wide integers in `parseTxHex` | what is returned is a proof, or an error |
| bcoin node (external) | best chain, transaction index | answers requests, connects and disconnects blocks | `BcoinClient` | | |
| output scripts, input fields | none | `extractHash`, `extractOpReturnData`, sequences | proof consumers | exact script patterns | recognises exactly the standard forms |
| retarget | none | `retargetAlgorithm` | headers | byte-wise arithmetic in C, underflow | all ports agree with the formula |
| JSON and hex | Go's variable | serialise, deserialise per port | files exchanged between ports | byte order, `0x` prefix | round trips, across ports |
| sighash (`sighash.js`) | none | `sighash`, the timelock predicates | signers, contracts | what each flag leaves open; an index of an input used on the outputs | commits to the right parts, and reports what it does not commit to |
| `CheckBitcoinSigs.sol` | none | `wpkhSpendSighash`, `p2wpkhFromPubkey`, `checkSig`, `checkBitcoinSig` | signatures on digests of `sighash.js` or another wallet | the same digest written twice; parity of a key | valid exactly for the owner's signature on the payment |
| typed views (`ViewBTC.sol`) | a view: type, place, length | the `tryAs` casts, `indexVin`, `outpoint`, `payload`, ... | all of ViewSPV | functions rely on what an earlier call has checked | the type tells what the bytes are |
| swap demo (`swap-demo.c`) | witness and cell bytes, offset into the witness | one run of the script | C port, CKB system calls | the length is checked after the reads, null views, sentinels of the chain check | the cell is released for a proven payment and for nothing else |
| C bindings (`c/src/lib.rs`) | none | bind C to the Rust test vectors | C port | | |
| command lines (`bin/cli`, `golang/cli`) | none | parse arguments, print | client, Go port | default height | |
| vendored libraries, hash functions | | | | | out of scope; a hash is any function |

## Modules

    HeaderArithmetic        targets and difficulties of the five ports
      HeaderChainSpec       what a chain check promises
      HeaderChain           the loop, in five ports  --refines--> HeaderChainSpec
        MCHeaderChain       instances        HeaderChainProofs   theorems
    MerkleProof             tree, branch, verifier of six ports
        MCMerkleProof       instances        MerkleProofProofs   theorems
    CompactInt              compact integers of five ports
      TxElement             one input or output among bytes
        TxGrammar           elements and vectors as the format has them
          TxVector          vins, vouts, their elements
            MCTxVector      instances        TxVectorProofs      theorems
          ViewForms         views, and what their types promise
            TypedViews      the functions of ViewBTC on one another's results
              MCTypedViews  instances        TxVectorProofs      theorems
        ParseTx             the client's cut of a transaction, and its checks
        SwapDemo            the script of a cell for sale  --refines--> SwapSpec
          MCSwapDemo        instances        SwapDemoProofs      theorems
      FieldForms            an element, its parts, and what a field of it is
        FieldExtraction     the functions that extract fields, in five ports
          MCFieldExtraction instances        TxVectorProofs      theorems
    ScriptSizes             constants of ViewForms and FieldForms
    BcoinNode               the node, external
      BcoinClient           getProof, validateProof, headers   (with ParseTx)
        MCBcoinClient       instances        BcoinClientProofs   theorems
    ProofExchange           proofs as objects and as JSON, in four ports
        MCProofExchange     instances        ProofExchangeProofs theorems
    Sighash                 what a signature signs
      CheckBitcoinSigs      a signature on such a digest, and the contract
        MCCheckBitcoinSigs  instances        CheckBitcoinSigsProofs theorems
    Retarget                the retarget, C's byte by byte
        MCRetarget          instances        RetargetProofs      theorems

### HeaderArithmetic, HeaderChain, HeaderChainSpec

A header is what the loop reads of it: parent digest, mantissa and exponent of
nBits, and its own digest as an integer. Nothing ties the digest to the other
fields, so the models cover every hash function and every header whatever it
cost to mine. The base of a digit, the number of digits of a word and the
window of the C port are constants (256, 32 and 8 in the code).

`XTarget(h)` and `XDifficulty(t)` are the arithmetic of port X with its own
overflow: a `Fault` is a panic (Go's `sdk.Uint`, Rust's `U256`), an exception
(JavaScript) or a revert (SafeMath). `XVerdict(h)` is what the body of the loop
decides about the next header, in that port's order of checks. The actions are
common: `BadLength` (the length is no multiple of 80), `CountHeader` and
`RefuseHeader` (one iteration), `ReturnTotal`, and `Done` once it has returned.

`HeaderChainSpec` is the promise in terms of the chain alone: count a header
only if it may count, refuse only for cause, credit each header exactly its own
difficulty. `HeaderChain` implements it under the mapping counted <- i,
work <- total, verdict <- the outcome (property `Promised`, safety and
termination). The specification leaves open the edge on which the ports differ:
Solidity counts a digest equal to the target and a zero digest, the others
refuse both, and targets that do not fit a word fault in some ports.

- `PrefixSound`, `AcceptedSound`: links and own targets, at every moment and of
  an accepted chain. The code keeps neither as such: it keeps one digest and,
  in Rust, one target variable across iterations.
- `MisplacedNotCounted`: a C target whose exponent is outside the word is
  written beside it, by undefined behaviour. The action `OverwriteStack` lets
  that end the program; otherwise the write changes nothing the loop reads, the
  word keeps at most the bytes that fall into it, and the property says that no
  such header is ever counted: its work is 0 or its digest too large. A build
  in which the write hits a variable of the loop could do anything; that is not
  in the model.
- `RustOwnTarget`: what `types.rs` says of the Rust crate, which the code does
  not keep without constant difficulty (a violation run).

### MerkleProof

The prover is `createTree` (one `HashLevel` per level), then `createBranch`
(one `PushSibling` per level), as the client calls them; `Submit` hands the
verifier either that proof or another one against the same root, which the
verifier takes from a header and not from the proof. The verifier
is `prove` with `verifyHash256Merkle` of any port: `AnswerAtOnce` stands for the
shortcuts by length, `FoldNode` for an iteration, `CompareRoot` for the end.
`EntryVerdict` and `Shifted` hold the differences between the ports: Rust
answers a proof of one node without hashing; Rust and Solidity compare txid and
root when there is no node where the others refuse 64 bytes; JavaScript shifts
a signed 32-bit index.

- `Complete`: no port refuses the prover's proof.
- `VerdictExact`: a port accepts exactly what hashes to the root, by a reference
  computation (`Digests`, `Folded`) that takes no shortcuts. It is stated for
  `Ordinary` proofs, that is, without Rust's one-node case and JavaScript
  indices of 2^31 and more.
- `AcceptedMember`: an accepted proof's id is a digest of the tree, and a
  transaction of the block if the proof is as long as the tree is high (the
  format itself cannot tell an inner node from a transaction otherwise).

### BcoinNode, ParseTx, BcoinClient

`BcoinNode` is the part of a bcoin node the client sees: a best chain that
connects and disconnects blocks of a tree, lookups by height in the best chain,
by hash among all blocks, and of transactions in the index. It is external.

`BcoinClient` has one action per await of `getProof`, of `getHeaderChainByCount`
in its three encodings and of the functions they call (`GetTX`,
`GetBlockHeader`, `GetInfo`, `GetHeader`, `GetRawHeader`, `GetMerkleProof`),
each of which may see another best chain, and may fail (`RequestFails`); then
`Validate`, which is `validateProof` on the result. For the `headers` command
height 0 means the tip. A header is the block it belongs to and a branch the
block it was made from; `MerkleProof` is what justifies that abstraction.

`ParseTx` is the pure part of the call: `parseTxHex`, which cuts the bytes of a
transaction into version, vin, vout and locktime, taking a count or a script
length of more than a byte for the number of its bytes; and the checks
`validateProof` makes of the parts: both vectors valid, and the digest of all
four the txid. Digests do not collide, so the latter compares the bytes.

- `ValidatedIsConfirmed`: whatever the chain did, a proof that validates names
  a header of a block that holds the transaction.
- `ValidatedIsWhole`: and it holds the inputs and outputs of that transaction,
  though the cut is wrong for wide integers. Equal bytes do not say so by
  themselves: a cut at the wrong place that happens to reach the end of the
  outputs puts the same bytes together again, and only the validation of the
  vectors tells.
- `UndisturbedIsChain`: without a reorganisation the headers are those of the
  best chain, blocks that arrive notwithstanding.
- `UndisturbedIsValid`: and a proof validates, if no integer in its transaction
  is wide.
- `OthersThrow`: only the btcspv encoding may hold a null.
- `EveryCallEnds`: whatever the chain does, every call returns or throws.

### CompactInt, TxElement, TxGrammar, TxVector

One run of `validateVin`/`validateVout` (`ReadCount`, `PassElement`,
`RefuseElement`, `CheckEnd`), then one of `extractInputAtIndex` or
`extractOutputAtIndex` on a vector that was accepted (`Extract`, `Seek`,
`Take`). Bytes are numbers below `Base`; an element is `Before[kind]` bytes, a
compact integer, a script of that length and `After[kind]` bytes; `TxElement`
says whether there is one at an offset and where it ends. `ParseOutcome`
holds the ports' treatment of wide integers, `SerializedLength` how they step
over one, `Beyond` the 64-bit sums of Go and Rust (in Rust a choice: a release
build wraps, a debug build panics).

- `AcceptedIsVector`, `VectorIsAccepted`: acceptance against the grammar of the
  format, `IsVector` in `TxGrammar`, with the exceptions named there: sums that
  wrap, non-minimal integers in Rust, the empty vout in Go, and in C a vector
  whose count or one of whose script lengths is a wide integer, of which C
  accepts none. Rust is held to the vectors with wide script lengths that its
  comments say it refuses; see the divergences below.
- `ExtractAgrees`: the element extracted begins and ends where validation began
  and ended to pass over it, and no index below the count is refused. A panic is
  left to Go and Rust, on an element whose end needs a 65th bit.
- `PanicsOnlyOnEmpty`: Go and Rust panic on an empty string and, where a 64-bit
  sum wraps, on the slice it makes; nowhere else.

### ViewForms, TypedViews

The state is the memory and the last view returned. Each action is a call of a
function of `ViewBTC` on that view, so that a behaviour is a chain of calls such
as `tryAsVin`, `indexVin`, `scriptSig`. `Call` has the modifier `typeAssert` for
its guard; a call on a view of another type is `Mistyped` and reverts. A view of
a type comes from a `tryAs` function or from another typed view, which is how
the contracts use them; `ref` with a type, which the test contracts use, asserts
what nobody has checked and is left out. Slices, reads and casts belong to the
npm package memview.sol and are external: a slice that does not fit is the null
view, a read that does not fit reverts. The state and the properties are in
`ViewForms`, the calls in `TypedViews`.

- `TypeTellsForm`: a view of a type holds what the type says, against the
  grammar in `TxGrammar`, however many calls ago it was checked.
- `TypedIsSafe`: so the functions on typed views, which do not check again, never
  revert and never return null, with the exceptions named there: an index that
  is not there, scripts of another form, a script of less than two bytes, and
  a header whose bits denote no target or, for `diff`, the target 0.

`target` and `diff` can fail for another reason than the bytes that are there.
`Target` and `Diff` have their arithmetic: the exponent less three and the
product are SafeMath and revert, the power between them is not and wraps, and
`diff` divides by the result. `HasTarget` is what the bits denote, without the
code's order of steps or its width: an integer of 256 bits. So the property says
that neither reverts where there is an answer, and does not say that they refuse
where there is none: a wrapped power makes the target 0, which `target` returns.
`workHash` and `work` only hash the view and have no action.

### Sighash, CheckBitcoinSigs

`Sighash` is `sighash` of `sighash.js`: `RefuseFlag`, `RefuseVectors`,
`ParseVectors` (which cuts inputs and outputs down by the flag),
`HashUndefined` (no input, or no output, of that index) and `HashPreimage`. A
preimage is the tuple of its ten parts. In the bytes each part has a fixed width
but for the script of the output spent, so equal bytes are equal parts, and
digests are taken not to collide. A vector that `validateVin` or `validateVout`
refuses is the empty one.

`CheckBitcoinSigs` then signs that digest (`Sign`, external) and asks the
contract library (`Check`): is this the signature of the owner of an output, on
a payment of one input and one output, whose digest the library makes for
itself. A key is a point; its compressed form keeps the parity of y.

- `SignsWhatItShould`: a signature fits another transaction only where the flag
  allows it to differ; and inputs, or outputs, can be added under the same
  signature exactly if the report says so.
- `LocksReported`: if no absolute lock is reported, no transaction with that
  signature has one, those included whose inputs are added later; SINGLE alone
  is excepted. If no relative lock is reported, no input signed over has one, but
  for the numbers of which the code reads the wrong bit (`Misread`).
- `ValidIsOwnersPayment`: the library's answer is "valid" exactly if the owner,
  under his raw key, has signed with flag ALL the transaction that is the
  payment asked for. This relates two programs in two languages.

### FieldForms, FieldExtraction

An element is put together from its parts, and each action is a call of one
extraction function on the bytes: `ExtractTxIndex`, `ExtractScriptSig`,
`ExtractSequence`, `ExtractValue`, `ExtractHash`, `ExtractOpReturnData`. The
value's eight bytes are kept apart from the script, since they only shift every
offset. Solidity works on the view `scriptPubkey` returns, which is as long as
the compact integer says and not as the output is; the others on the whole
output. A result is bytes, a number, "none" (an error, an exception, a null
view) or "fault" (a panic, a revert, the use of a null view). The state and the
properties are in `FieldForms`.

- `InputFieldsExact`: the fields returned are those the input was made of, with
  the exceptions of a port's treatment of wide integers.
  It says of Go that it turns the sequence of a witness input around.
- `OutputFieldsExact`: a hash is returned for exactly the standard scripts
  (`HashExact`), and the data of an OP_RETURN is what was pushed (`DataExact`).

### ProofExchange

The life of a proof as an object: a port or the client writes it
(`Document`, `Order`), somebody may change one field of the text (`Edit`), a
port reads it field by field in the document's order (`ReadNew`), validates it
(`Validate`) and writes it again for another (`Forward`). What is inside a
field is opaque: `IsVin`, `IsVout` and `Prove` are constants that stand for
`TxVector` and `MerkleProof`. A text is hexadecimal, with or without the prefix,
or one of the ways it can fail to be. Go may decode into a variable that holds
an earlier proof (`ReadAgain`), with the appending of its `HexBytes` and the
fields that a failed attempt left behind.

- `VerdictExact`: a document is found valid exactly if the proof it describes
  is whole, up to what `Tolerated` says of each port. All but Python ask for the
  size of the header. Python parses the transaction with another library before
  it looks at its parts, and refuses what that does not take for one.
  JavaScript takes a byte with one digit. JavaScript and Go take a missing field
  for an empty one, Go for zeros where the field is an array. Rust asks for the
  sizes of version and locktime, and does not take the empty text, without a
  prefix, for an empty list of nodes.
- `ArrivesAsSent`: from port to port nothing changes.
- `ReuseIsSafe`: Go's appending never makes a valid proof that was not sent.
- `PanicsKnown`: Go, Python and Rust panic on an empty vin or vout, Rust also on
  a text shorter than the prefix and on a version or locktime of another size;
  there are no other panics.

### SwapDemo, SwapSpec

`main` of `swap-demo.c` from the arguments of the cell to its capacity, one
action per step: `LoadArgs`, `LoadWitness`; the fields of the witness
(`ExtractHeaders`, `ExtractNodes`, `ReadNumbers`, one `TakeElement` per element
of `extract_vin` and `extract_vout`, then `CheckElement` per element of
`validate_vin` and `validate_vout`); `CheckEnd`, where the length is compared
at last; then `CheckInclusion`, `CheckChain`, `CheckListing`, `LoadLock`,
`CheckPayee`, `CheckCapacity`. Each ends the run with an error code of its own.

A view is an offset into the witness and a length. A byte behind the witness is
one of `given.beyond`, what happens to be on the stack, and reading far enough
may be a fault (`Overrun`). Lengths are modulo `Width`, as `witness_len - 28`
and `wit.len - offset` are. The proof and the chain check are the constants
`Prove` and `Work`, which stand for `MerkleProof` and `HeaderChain`.

`SwapSpec` says what the script is for, without offsets or order: the witness is
the concatenation of its fields in *some* way, the transaction in it is proven
with the work asked for, spends the listing's outpoint and names the owner of
the first output, which receives the amount. `MayRelease` and `MustRelease`
differ on the edge that the code leaves open, named there. What a vector is and
whom its outputs name are constants of `SwapSpec`; the last section of
`SwapDemo` gives them for all byte strings by the grammar (`IsVector`, `Payee`),
beside the walk of the code and not from it.

- `TilesWitness`: once the length has been compared, the fields lie one behind
  the other from the first byte to the last: what the unchecked reads found
  behind the witness decides nothing, and no difference that wrapped is taken
  for a length that fits.
- `ErrorIsNotWork`: the one error value of the chain check that main does not
  ask for cannot occur; it would be taken for the largest work there is.
- `Promised`: the script implements `SwapSpec`, with termination. The work that
  `SwapSpec` speaks of is that of `HeaderChainSpec`; `WorkTold` is what has to
  hold between it and the chain check, and the run evaluates it on its cases.

### Retarget

`WideRetarget` is the formula in Go, JavaScript, Rust and Solidity, with what
each does when the timestamps go backwards or a product does not fit. C's loops
are stepped byte by byte: `MultiplyByte` from the last byte, `EndMultiply`,
`DivideByte` from the first. History variables say what the bytes read and
written so far spell.

- `MultiplyExact`, `DivideExact`: the loops compute the product and the
  quotient: no 32-bit sum wraps, no quotient outgrows its byte.
- `RetargetExact`: what is returned, and spelled by C's bytes, is the formula;
  modulo 2^256 before the division in C, and without the low 16 bits in
  Solidity; and a port faults only on what it cannot represent.

## Runs

| run | shows | bounds |
|---|---|---|
| `header_chain` | invariants of all ports and `Promised` | base 2, 8 digits, window 4 above 2; chains of up to 2 headers, for C of up to 3 within its window and of up to 2 beside the word; up to 8 nBits values; digests 0, 12, 19 |
| `header_chain_rust_target` | `RustOwnTarget` violated | the same headers, Rust without constant difficulty |
| `merkle_proof` | completeness and exactness of six verifiers | blocks of 1 to 5 transactions, every part of a proof altered |
| `merkle_proof_rust_one_node` | `RustEvaluates` violated | a block of two |
| `bcoin_client` | the six properties above, `EveryCallEnds` among them | 8 blocks in three branches, `MaxReorg` = 4 blocks disconnected; 6 transactions in base 5; heights 0 to 2, counts 0 to 3 |
| `swap_demo` | `TilesWitness`, `ErrorIsNotWork`, `Promised` | base 6, headers of 2 bytes; 14 well-formed witnesses, each with any byte replaced by any other, cut anywhere, or a byte longer; 3 stacks; listings and answers of the system calls that succeed and fail |
| `tx_vector` | the four properties above | all strings of up to 5 bytes in base 4, structured ones of up to 12, `Word` 16 |
| `typed_views` | `TypedIsSafe`, `TypeTellsForm` | base 8, words of 4 digits, headers of 6 bytes with bits of every kind; vectors of one and two elements and scripts, each with any byte replaced by any other, one less or one more; all strings of up to 3 bytes |
| `check_bitcoin_sigs` | the three properties above | base 4; 118 transactions, 7 flags of which 3 invalid, 2 indices, 2 prevouts; 3 keys, 4 payments |
| `field_extraction` | `InputFieldsExact`, `OutputFieldsExact` | bytes 0..19, hashes of 2 and 6 bytes, pushes of up to 9 |
| `proof_exchange` | the four properties above | 9 proofs, every field of the document altered in 9 ways, 2 documents |
| `retarget` | the three properties above | all targets of 3 bytes in base 4, period 8, nine timestamps, words of 8 bits |

Why these bounds are enough to meet the interesting cases. A chain of two
headers is the first in which a link, a carried digest or a carried target
matters, three the first in which a stale one of two iterations ago does. The
nBits values put a target in the C window, below it, above the difficulty-1
target, at zero, beyond the word, and at a power that wraps to zero; Go and Rust
are not given exponents below 3, where their targets differ from the others'.
Blocks of up to five transactions have odd levels at the leaves and above (3; 5
has two in a row) and none (1, 2, 4). Four disconnected blocks let the client
see all three branches in one call, and a transaction move to another height.
Its six transactions are two narrow ones, with and without a witness, one each
with a wide input script, output script and count, and one whose wrong cut comes
to the end of the outputs. The witnesses of `swap_demo` have none, one and two
headers and nodes, one and two inputs, and outputs that pay, that push too few
bytes, whose script ends in OP_RETURN, and of which there is no second; a
replaced byte turns every count, length, index and digest into every other, so
that fields end early, late and behind the witness. Five bytes hold a vin of two
inputs or a wide integer; the longer strings hold both, and `Word` = 16 is the
square of the base, so that a wide integer reaches the width as an eight-byte
one does in the code. The memory of `typed_views` has scripts of every standard
length, OP_RETURNs and scripts of wide length, alone and in outputs; a replaced
byte makes counts and lengths reach beyond the view, and indices go to one
beyond the last element; one more, 700, is so large that the product of
`indexHeaderArray` overflows. The bits of its headers have every exponent, so
that a subtraction fails, a product fits, overflows, and is 0 because the power
wrapped, and mantissas of 0 and more. The transactions of `check_bitcoin_sigs`
vary one part at a time against each flag: version, sequences with and without
bit 7 and the top bit, locktimes on both sides of each threshold, the order and
the number of inputs and outputs; two of the keys are each other's negative. The
scripts of `field_extraction` are the four standard forms and OP_RETURNs, each
with every byte replaced by every other, a byte more or less, and a wrong length
in front. One field is altered at a time: a second change could only hide the
first from a port that stops at it. The nine proofs are of blocks of one, two
and more transactions, with a version of another size, a longer header, another
parent than the header's, a parent of zeros (which a missing field of Go stands
for) and an empty vin. Two documents are what it takes to decode on top of an
earlier one. Three bytes give the retarget a first, a middle and a last byte;
the timestamps differ by less than a quarter of the period, by more than four
periods, by values between and by negative ones, and the largest targets make
the product overflow.

The two violation runs each state what a comment of the repository says and TLC
shows the step that breaks it; the findings in `PROJECT.json` quote the line.

### Known divergences without a run

Met while reading and modelling. The invariants except these cases by name or
by a bound, so each stays visible in the modules.

- `extract_target` on exponents below 3: Rust saturates at the comment
  `btcspv.rs:502`, Go multiplies by 1, JavaScript throws, Solidity reverts.
- `btcspv_calculate_difficulty` uses 8 bytes of the target, where `btcspv.h:365`
  promises the difficulty; outside that window the two differ.
- An exponent outside 3..32 makes `btcspv_extract_target_le` write beside the
  word (`btcspv.c:450`).
- `swap-demo.c` reads the work of the arguments big-endian (line 240) and the
  amounts little-endian (line 300); the comment on the arguments (line 46) names
  no order.
- `swap-demo.c` takes a witness without headers, whose Merkle root is then read
  from what follows, if the listing asks for no work (line 225); compares
  20 bytes of the OP_RETURN data whatever their number, and of a null view
  (line 283); and reads behind a witness whose counts lead there before it
  refuses it (lines 112, 127, 214).
- `getHeaderChainByCount` under a reorganisation returns headers that do not
  link, and nulls past the tip (`BcoinClient.js:156`).
- `getProof` under a reorganisation returns an object that does not validate,
  and cuts transactions with wide integers wrongly (`BcoinClient.js:257`).
- Rust steps over a non-minimal integer by its minimal length
  (`types.rs:395`); Go's `ValidateVin` wraps at 2^64 (`bitcoin_spv.go:394`);
  Go's `ValidateVout` accepts a vector of no outputs.
- Rust's `determine_output_length` and `extract_output_at_index` are documented
  to fail where "CompactInt represents a number larger than 253; large
  CompactInts are not supported" (`btcspv.rs:247`, 269). The code has no such
  check: it reads integers of every width and takes long scripts, as
  `VectorIsAccepted` and `ExtractAgrees` ask of it.
- `extract_op_return_data` takes OP_PUSHDATA1 for a length.
- `retargetAlgorithm` "implements the Bitcoin algorithm precisely" in all
  ports' words, but Solidity drops the low 16 bits, and a negative interval
  counts as four periods in C, as a quarter in JavaScript, as a fault in Go and
  Solidity and, by the build, as either in Rust.
- C refuses every integer of more than a byte: the check of minimality compares a
  length that counts the tag with one that does not (`btcspv.c:91`).
- Go's `ExtractSequenceWitness` reads the little-endian sequence big-endian
  (`bitcoin_spv.go:218`).
- `opReturnPayload` reads the third byte of a script before it looks at the
  length (`ViewBTC.sol:223`) and reverts on a script of less than two bytes,
  where line 220 has it return null.
- `possibleRelativeLock` tests bit 7 of the sequence number for the flag that
  disables a lock, which is the top bit of the four bytes (`sighash.js:184`): an
  input with 0x80 is reported as free and waits for 128 blocks.
- Under SINGLE an input without an output of its index cannot be signed:
  `[undefined]` is hashed, which throws (`sighash.js:223`), where BIP 143, to
  whose "semantics" line 132 refers, has a null hash.
- `sighash.js`: the comments on the two kinds of locks are swapped (lines 12 and
  13, and 149 and 173); the version is told by its lowest byte (line 180), so
  one of 257 counts as 1; the sizes of `prevoutScript` and `prevoutValue` are
  not looked at. Under ANYONECANPAY an absolute lock is always reported as
  possible, and under SINGLE alone only the present sequence numbers are
  looked at (line 162).
- `indexHeaderArray` "errors on overruns" (`ViewBTC.sol:347`) by returning the
  null view, which the next function refuses; it reverts only where the product
  of index and 80 needs more than 256 bits.
- `target` returns 0 for exponents so large that `256 ** _exponent` wraps
  (`ViewBTC.sol:392`), though the product around it is SafeMath.
- A header of more than 80 bytes is accepted by Python.
- JavaScript's empty array is written as a text that Rust panics on.

## Fairness

`HeaderChain`, `MerkleProof`: weak fairness of the whole next-state relation. A
called function runs until it returns; there is no other process. It is used by
`Promised`, whose specification promises a verdict; likewise in `SwapDemo`,
where the virtual machine runs the script until it returns. `BcoinClient` has
weak fairness of the client's steps only, which `EveryCallEnds` rests on: the
node answers or the request fails, but nothing obliges a chain to change.
`TxVector`, `TypedViews`,
`CheckBitcoinSigs`, `FieldExtraction`, `ProofExchange` and `Retarget` are
checked for safety and state none. The runs without `CHECK_DEADLOCK FALSE` show
in addition that no function gets stuck before it returns.

## Proofs

`HeaderChainProofs` proves `TypeCorrect`, `PrefixIsSound` and `AcceptedIsSound`
for every base, word size, set of headers, set of chains and subset of ports.
The invariant is `IInv`: `PrefixSound` is not inductive alone, since the step
that counts a header compares its parent with the variable `digest` and its
digest with a target that in Rust is the variable `target`. `IInv` adds that
`digest` is the last counted header's, that `target` is a natural number, and,
for Rust with constant difficulty, that it is the target of every header
counted. The assumptions are those on the sizes, on the table of powers and on
the headers' fields. `MisplacedIsNeverCounted` rests on the place of C's window:
a word has at least two digits above it, where what is left of a mantissa cut
short by the end of the word lies (`SizeAssumption`, which a window of 8 digits
above 20 in a word of 32 meets).

`KeepsPromise` is the safety part of the refinement: every step of `HeaderChain`
is a step of `HeaderChainSpec` or none. It needs `Comparable`, the hypothesis
that the chain is one on which the port can keep the promise at all: the work of
the whole chain fits the integer that accumulates it (a word, in C the window;
JavaScript's integers have no end), each target is one that the port represents
(in C one within the window, or of an exponent for which nothing is counted; not
of an exponent below 3 in Go and Rust), and Rust is asked for constant
difficulty. `MCHeaderChain` evaluates `Comparable` on its chains, so that the
run checks the promise where the theorem states it. The argument is arithmetic:
a port's target, cut out of its word, is the nominal one (`Power` and division),
and so is the quotient that is its difficulty.

`MerkleProofProofs` proves `TypeCorrect` and `Completeness` for every block of
up to 2^31 transactions (`SignBit`), every index and *every* hash function. The
invariant describes the finished tree by its levels (`starts`, `sizes`), says
that each node is the digest of its two children, that the branch holds the
sibling of `path[l]` at every level, and that the verifier's running digest is
the tree's node at `path[step]` while it is fed the honest proof. The step that
matters is `FoldNode`: the low bit of the verifier's index is that of the
prover's, and the duplicate at the end of an odd level is the node itself. The
case of Rust's one node and JavaScript's sign are discharged from the proof's
form and the bound on the block.

`VerdictsExact` is about every other proof, too, of any length and index, and
again for every hash function: while the loop runs, index and digest are those
of the reference computation at that step (`Climbing`), and each shortcut by
length answers what the computation would (`ShortcutsExact`). `AcceptedIsMember`
goes down from the root: if the reference computation ends there, then its last
pair is the root's pair of children, and so on level by level until the proof or
the tree is at its end. Each step down reads a pair off its digest, so this one
has a hypothesis about the hash: `NoCollision`, that no digest the verifier
computed is a transaction id of the block, or a node of its tree that is the
digest of another pair. It speaks of the one run and not of a hash free of
collisions, which no hash of finite length is; `MCMerkleProof` evaluates it on
the hash of the instance (`InstanceCollisionFree`).

`RetargetProofs` proves `TypeCorrect`, `MultiplicationIsExact`,
`DivisionIsExact` and `RetargetIsExact` for every byte size, length, period and
target, from one assumption of substance: a word holds a byte of four periods,
which for 256, 1209600 and 2^32 it does with room to spare. The invariant adds
to the three that the carry stays below `Upper` while multiplying and below
`Period` while dividing. From the first it follows that carry + byte * elapsed
is below `Base * Upper` and therefore a word, from the second that the quotient
is a byte; these two facts are the lemmas `ProductFits` and `QuotientFits`.
`RetargetIsExact` says that the bytes as a whole spell the result. `Suffixes`
and `Prefixes` are recursive functions that say what the last and the first
bytes spell; a second invariant, `BytesInv`, ties them to the history variables,
and facts about all numbers of bytes are proved by the least counterexample to
them (`WFMin`), since the library's induction theorems are out of reach.
Division byte by byte and at once agree because a quotient is determined by its
bounds.

`SwapDemoProofs` proves `TypeCorrect`, `FieldsTile`, `ErrorsAreNotWork` and
`KeepsPromise` for all sizes, witnesses and stacks. Its invariant `LayoutInv`
says, at every step, that each field read so far begins where the one before it
ends, and that the sum of the lengths so far is bounded by the counts times the
largest element (`Summed`). From the bound follows `NoWrap`: the last offset is
below `Width`, whatever the counts are, so that equality modulo 2^32 is
equality. The assumption of substance, `RoomAssumption`, is that 255 of
everything together fit 2^32, which holds in the code with room to spare.
`ErrorsAreNotWork` follows the one error main does not ask for back to its
cause: the length of the headers is a multiple of that of one, because main has
cut them out by a count (`WholeHeaders`), and so the chain check does not return
it. The hypothesis `WorkFits` is that the work itself is not that value, the
largest of its type.

`KeepsPromise` of `SwapDemoProofs` is the safety part of the refinement: every
return of `main` is an answer that `SwapSpec` allows, every other step changes
nothing it sees. The two read the witness differently. `SwapSpec` quantifies
over all ways to cut it, and an element may end wherever the grammar lets it;
`main` walks, counts modulo 2^32, looks at the length last and may have read the
stack behind the witness on the way. Two invariants bring them together. Of
*every* way to read the witness, if there is one, `main` stands where its
elements end while it takes a vector, and has its vector once it has taken it
(`Faithful`): so it does not overrun, refuse a vector or find the end misplaced
where there is one, and there is one way at most (`DecidedOnly`). Conversely the
walk of a check stands at the one place where so many elements end, or has left
the vector and there is none (`Walked`), so that what is accepted is a vector
(`Accepted`). Recursive functions (`LE`, `Ends`) are shown to satisfy their
equations by the least counterexample (`SetInduction`). What remains is that the
decisions read the same bytes: the root of the first header, the first outpoint,
the script of the second output (`IncludedRead`, `BoughtRead`, `PayeeRead`).
The hypothesis `WorkTold` is that the chain check of whole headers returns the
work there is, below the errors, or the error that says there is none, which is
what `KeepsPromise` of `HeaderChainProofs` shows of it; that the system calls
load byte strings, and that a verified script has a code hash as long as what is
compared of it, is assumed (`SwapAssumption`); nothing of what the bytes are.

`BcoinClientProofs` proves `TypeCorrect`, `ValidatedConfirms`,
`UndisturbedSeesChain`, `OthersThrowAlways`, `ValidatedWhole` and
`UndisturbedValidates` for every tree of blocks, every number of disconnected
blocks, all transactions and all counts. The invariant `IInv` adds to the
properties how far a call has come at each await (`Progress`), that a branch
comes from a block with the transaction (`Branched`), that the hash a raw header
is asked for is that of the height wanted (`OnChain`), that nulls are in the
btcspv encoding alone (`NoNulls`), and what `valid` was computed from
(`Confirmed`). The step of the node that matters is `Connect`: a block that
joins leaves every height below it as it is (`ConnectKeepsBlocks`); `Disconnect`
changes `reorg`, after which the call is no longer undisturbed.
`ValidatedConfirms` then needs the one assumption that equal roots are roots of
the same transactions.

`ValidatedWhole` and `UndisturbedValidates` are about bytes. The serialised
vectors are recursive functions, and so is the offset of the client's cut; both
are taken element by element, with a vector described by what lies where in the
transaction (`Lies`). That a validated cut is the right one then needs no
knowledge of how it was made: two readings of the same bytes from the same place
count the same number of elements, and element by element take the same bytes,
because the grammar can be read in one way only. Without wide integers, the cut
is at the right place to begin with; that the proof of an undisturbed call is
complete is the part `Found` of the invariant.

`TxVectorProofs` proves `TypeCorrect`, `ExtractionAgrees`, `PanicsExplained`,
`AcceptedAreVectors` and `VectorsAreAccepted` for five ports, every set of byte
strings, every index and every size of the fixed parts. Extraction walks the
vector a second time, by other code, so `ExtractAgrees` needs an invariant about
both walks: while validating, the elements passed so far lie one behind the
other, `spans[k + 1]` beginning where `spans[k]` ends (`Walked`), and while
seeking, the offset is where the i-th of them begins (`Placed`), the bytes
ending where the one after the last would; the vector does not change between
the two. The assumption of substance is that a vector is shorter than 2^64 by
more than an element whose script length is a single byte, so that C's sums of
such lengths do not wrap; Go's and Rust's 64-bit sums of wide lengths may, and
`PanicsExplained` says that this and the empty string are all they panic on.

Acceptance against the grammar has an invariant of its own, `GInv`. That an
accepted string is a vector is read off the elements passed over, which are cuts
of it. For the converse, the loop is shown to follow the cuts of *every* way to
read the string (`Tracked`), so that it can neither refuse an element nor stop
beside the end; there is one such way, though the proof need not say so.

`ViewsAreSafe` and `ViewsTellTheirForm`, of the same module, are about
`TypedViews`, which the module instantiates as `Views` on the variables of
`ViewForms`, for every memory and every set of indices. Each needs the other: a
function reverts on no view of its type because the view has the form of its
type, and what it returns has its form because no slice in it was too long. The
invariant `VInv` is therefore both: the memory is bytes, the last view is null
or lies in it and has its form, and the last call was safe. The form kept there
(`Good`) is the property's but for a vector, of which it says that the walk of
`indexVin` passes over it to its end; from that the grammar's form is derived.
For `target` and `diff` it is shown that a wrapped power is no greater than the
power, so that a product that fits unwrapped fits wrapped, and that where bits
denote a target nothing wraps, so that the target is 0 only with the mantissa.
`tryAsVin` walks a vector and `indexVin` walks it again up to an index; that the
walk succeeds up to there if it does to the end is shown by looking at the least
index where it does not. The assumptions are those on the sizes, that a memory
is shorter than the largest integer, that there is a table of powers, and that
there is one tag of a wide integer, without which there would be more encodings
of a length than the shortest.

`InputsAreExact` and `OutputsAreExact`, also there, are about `FieldExtraction`,
instantiated as `Fields` on the variables of `FieldForms`, for every input,
every output and every choice of the sizes and opcodes. The invariant `FInv` is
short: a call has returned what its function computes from the element. What the
theorems say lies in the bytes, in that what is computed is what the element was
made of. For inputs that is where each part lies in their concatenation, and
that a parsed compact integer is the length that was written (`InputLaid`,
`CodeRead`, `InputRead`). For outputs a function finds a hash exactly if the
script is one of the four forms: from the bytes it compared follows the form,
with the hash as its slice, and from the form follow the bytes (`Matching`), no
other form having the same ones; where the length in front is not the script's,
nothing is paid to (`Unmatched`, `LongPush`). `DataExact` is shown likewise
(`PushedIs`, `DataRead`). The hypotheses, `FieldsAssumption`, are the
assumptions TLC evaluates on the instance: elements are put together from their
parts with a length that is that of the script, in an output also one that
belies it; a script of a long hash is longer than one of a short hash with all
its opcodes; the opcodes are bytes and not 0. Nothing asks that they differ from
each other. As for the views, there is one tag of a wide integer.

`CheckBitcoinSigsProofs` proves `SignatureCommits`, `LocksAreReported` and
`OnlyOwnersPayment` for every set of transactions of any number of inputs and
outputs, every flag, key and payment. The invariant says that what is in view
are the inputs and outputs the flag leaves, and the report the one made of them.
From equal digests equal parts follow, and from these, flag by flag, equal
inputs and outputs or equal numbers in them (`SameParts`, `SameOutpoints`,
`SameSequences`, `SameOutputs`); the other direction, that what is reported free
can be added, exhibits the transaction with one more. The assumptions of
substance are that transactions are of the form `Transaction`, and that a point
is determined by its x and the parity of its y, without which a compressed key
would have two owners.

`ProofExchangeProofs` proves `ProofsArriveAsSent`, `PanicsAreKnown` and
`VerdictsAreExact` for every proof, every edit and every number of documents,
whatever a vin, a vout and a Merkle proof may be. The invariant says
that a document nobody has edited is the one its writer made of the proof, and
that what was read new is what the document means (`FaithfulInv`, `ReadInv`).
Reading stops at the first field that fails, so the proof looks at the least
such position in the document's order. `VerdictsAreExact` has the hypothesis
`HashSized`, that a digest has the size of one: the ports that measure the
digests would otherwise refuse what Python accepts.

Not proved, only model-checked. `Promised` of `HeaderChain` and `SwapDemo` where
it says that there is a verdict, and `EveryCallEnds`: they rest on fairness,
which is out of the prover's reach. `ReuseIsSafe`, which holds for the edits the
instance makes and not for every set of them: an edited document that is refused
may leave bytes to which those of the next append, and make another proof of the
two. Every other property of a run that is expected to pass is a theorem.

## Not modelled

- What a C target with an exponent below 3 or above 32 overwrites beside the
  word, beyond ending the program.
- Sentinel return values of C and Solidity that a total could equal; it takes
  about 2^64 units of work.
- The three widths of a wide compact integer, which the ports treat alike
  except in length.
- Extraction from a vector that was not validated.
- `getHeaderChain`, which uses names it never imports and cannot run.
- The parser behind Python's `validate_vin`: the riemann library is not in the
  repository.
- The molecule reader and the system calls of CKB, whose answers are inputs of
  `SwapDemo`, and what lies at address 0.
- `isSha256Preimage` and `isKeccak256Preimage`, which compare a hash, and the
  reading of the arguments of `sighash` from hexadecimal.
- The signature scheme: a signature is its key and its digest. The views of
  memview.sol beyond slice, cast and read, and views typed by `ref`.
- Elliptic curves, hash functions, HTTP, printing.

## Plan

Done so far: the core (`HeaderChain`, `MerkleProof`), the client, vectors and
fields, the exchange of proofs, the retarget, the swap demo, typed views,
signature hashes, and theorems about each of these. What is left, in order of
what matters most:

1. An abstract specification of `ProofExchange`, valid iff whole, that the
   ports implement up to `Tolerated`.
