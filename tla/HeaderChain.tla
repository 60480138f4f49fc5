----------------------------- MODULE HeaderChain -----------------------------
(***************************************************************************)
(* The header-chain check as C, Go, JavaScript, Rust and Solidity run it:  *)
(* one step per iteration of the loop over the headers, then the return.   *)
(*                                                                         *)
(* The variables are the loop-carried locals of the five functions.  What  *)
(* a function decides about the next header is an operator of its own, in  *)
(* the order of that function's checks; the loop around it is common.      *)
(***************************************************************************)
EXTENDS HeaderArithmetic, Sequences

CONSTANTS
  Impls,               \* the implementations considered
  Chains,              \* Chains[impl]: the header chains submitted to impl
  ConstantDifficulty   \* the constant_difficulty argument of the Rust crate

ASSUME ChainAssumption ==
  /\ Impls \subseteq {"c", "go", "js", "rust", "sol"}
  /\ ConstantDifficulty \in BOOLEAN
  /\ \A impl \in Impls : \A c \in Chains[impl] : c \in Seq(Header)

VARIABLES
  impl,     \* which implementation runs
  chain,    \* the headers of the byte array it is given
  ragged,   \* whether the length of the array is no multiple of 80
  i,        \* headers processed: the loop counter
  digest,   \* digest of the last header processed
  target,   \* the target variable Rust declares outside its loop
  total,    \* difficulty accumulated
  outcome   \* "running", or how the function returned

vars == <<impl, chain, ragged, i, digest, target, total, outcome>>

Outcomes == {"running", "accepted", "BadLength", "DifficultyChange",
             "InvalidChain", "LowWork", "Fault"}

(* Faulty: the link of the second header is skipped along with the first. *)
LinkedOffByOne(h) == i <= 1 \/ h.parent = digest

Linked(h) == i = 0 \/ h.parent = digest

(* Every port but checkChain refuses the zero digest and wants digest < target. *)
ValidateHeaderWork(h, t) == h.digest # 0 /\ h.digest < t

(***************************************************************************)
(* What each function decides about the next header.                       *)
(***************************************************************************)
CVerdict(h) ==
  IF ~Linked(h) THEN "InvalidChain"
  ELSE IF CDifficulty(CTarget(h)) = 0 \/ ~ValidateHeaderWork(h, CTarget(h))
       THEN "LowWork"
       ELSE "ok"

GoVerdict(h) ==
  IF ~Linked(h) THEN "InvalidChain"
  ELSE IF GoTarget(h) = Fault THEN "Fault"
  ELSE IF ~ValidateHeaderWork(h, GoTarget(h)) THEN "LowWork"
  ELSE IF total + Difficulty(GoTarget(h)) >= WordSize THEN "Fault" ELSE "ok"

(* Faulty: the work of the header is not checked. *)
JsVerdictNoWork(h) ==
  IF ~Linked(h) THEN "InvalidChain"
  ELSE IF JsTarget(h) = Fault THEN "Fault" ELSE "ok"

JsVerdict(h) ==
  IF ~Linked(h) THEN "InvalidChain"
  ELSE IF JsTarget(h) = Fault THEN "Fault"
  ELSE IF ~ValidateHeaderWork(h, JsTarget(h)) THEN "LowWork" ELSE "ok"

(* Only the first header's target is ever assigned to the variable. *)
RustCurrentTarget(h) == IF i = 0 THEN RustTarget(h) ELSE target

RustVerdict(h) ==
  LET t == RustCurrentTarget(h)
  IN  IF (i = 0 \/ ConstantDifficulty) /\ RustTarget(h) = Fault THEN "Fault"
      ELSE IF ConstantDifficulty /\ RustTarget(h) # t THEN "DifficultyChange"
      ELSE IF ~Linked(h) THEN "InvalidChain"
      ELSE IF ~ValidateHeaderWork(h, t) THEN "LowWork"
      ELSE IF total + Difficulty(t) >= WordSize THEN "Fault" ELSE "ok"

(* checkChain compares with > and has no zero-digest check, so a zero      *)
(* target can reach the division.                                          *)
SolVerdict(h) ==
  IF ~Linked(h) THEN "InvalidChain"
  ELSE IF SolTarget(h) = Fault THEN "Fault"
  ELSE IF h.digest > SolTarget(h) THEN "LowWork"
  ELSE IF Difficulty(SolTarget(h)) = Fault THEN "Fault" ELSE "ok"

Verdict(h) ==
  CASE impl = "c"    -> CVerdict(h)
    [] impl = "go"   -> GoVerdict(h)
    [] impl = "js"   -> JsVerdict(h)
    [] impl = "rust" -> RustVerdict(h)
    [] impl = "sol"  -> SolVerdict(h)

(* The target a counted header was held to, and what it is credited. *)
TargetUsed(h) ==
  CASE impl = "c"    -> CTarget(h)
    [] impl = "go"   -> GoTarget(h)
    [] impl = "js"   -> JsTarget(h)
    [] impl = "rust" -> RustCurrentTarget(h)
    [] impl = "sol"  -> SolTarget(h)

(* Faulty: the difficulty of the last header replaces the total. *)
AccumulatedLast(h) ==
  IF impl = "c" THEN CDifficulty(CTarget(h)) ELSE Difficulty(TargetUsed(h))

(* The uint64 of C and the uint256 of Solidity wrap. *)
Accumulated(h) ==
  CASE impl = "c"   -> (total + CDifficulty(CTarget(h))) % WindowSize
    [] impl = "sol" -> (total + Difficulty(SolTarget(h))) % WordSize
    [] OTHER        -> total + Difficulty(TargetUsed(h))

(***************************************************************************)
(* The loop.                                                               *)
(***************************************************************************)
Init ==
  /\ impl \in Impls
  /\ chain \in Chains[impl]
  /\ ragged \in BOOLEAN
  /\ i = 0 /\ digest = 0 /\ target = 0 /\ total = 0
  /\ outcome = "running"

Stop(how) ==
  /\ outcome' = how
  /\ UNCHANGED <<impl, chain, ragged, i, digest, target, total>>

BadLength == outcome = "running" /\ ragged /\ Stop("BadLength")

Scanning == outcome = "running" /\ ~ragged /\ i < Len(chain)

(* Faulty: the digest is not carried to the next iteration. *)
CountHeaderStaleDigest ==
  /\ Scanning
  /\ LET h == chain[i + 1]
     IN  /\ Verdict(h) = "ok"
         /\ i' = i + 1
         /\ target' = IF impl = "rust" THEN RustCurrentTarget(h) ELSE target
         /\ total' = Accumulated(h)
  /\ UNCHANGED <<impl, chain, ragged, digest, outcome>>

CountHeader ==
  /\ Scanning
  /\ LET h == chain[i + 1]
     IN  /\ Verdict(h) = "ok"
         /\ i' = i + 1
         /\ digest' = h.digest
         /\ target' = IF impl = "rust" THEN RustCurrentTarget(h) ELSE target
         /\ total' = Accumulated(h)
  /\ UNCHANGED <<impl, chain, ragged, outcome>>

RefuseHeader ==
  /\ Scanning
  /\ Verdict(chain[i + 1]) # "ok"
  /\ Stop(Verdict(chain[i + 1]))

(* The mantissa of such a header is written beside the word, to the stack:  *)
(* undefined, it may end the program.                                      *)
OverwriteStack ==
  /\ Scanning /\ impl = "c"
  /\ Linked(chain[i + 1]) /\ ~CInRange(chain[i + 1])
  /\ Stop("Fault")

ReturnTotal ==
  /\ outcome = "running" /\ ~ragged
  /\ i = Len(chain)
  /\ Stop("accepted")

(* The function has returned: nothing happens any more. *)
Done == outcome # "running" /\ UNCHANGED vars

Next ==
  \/ BadLength \/ CountHeader \/ RefuseHeader \/ OverwriteStack \/ ReturnTotal
  \/ Done

(* A function that is called runs until it returns. *)
Spec == Init /\ [][Next]_vars /\ WF_vars(Next)

(***************************************************************************)
(* Properties.                                                             *)
(***************************************************************************)
TypeOK ==
  /\ impl \in Impls
  /\ chain \in Seq(Header)
  /\ ragged \in BOOLEAN
  /\ i \in 0..Len(chain)
  /\ digest \in Nat
  /\ target \in Nat
  /\ total \in Nat
  /\ outcome \in Outcomes

(* The target header h is held to in implementation impl, when it is read   *)
(* from h itself.                                                          *)
OwnTarget(h) ==
  CASE impl = "c"    -> CTarget(h)
    [] impl = "go"   -> GoTarget(h)
    [] impl = "js"   -> JsTarget(h)
    [] impl = "rust" -> RustTarget(h)
    [] impl = "sol"  -> SolTarget(h)

(* The headers counted so far form a chain: each names the digest of the   *)
(* one before it.  The code compares with one digest variable, assigned at *)
(* the end of an iteration and used at the start of the next one.          *)
PrefixLinked ==
  \A k \in 1..i : k > 1 => chain[k].parent = chain[k - 1].digest

(* Each header counted so far meets the target it states itself, and not   *)
(* some other header's: "Header does not meet its own difficulty target"   *)
(* is the reason the ports give for a refusal.                             *)
PrefixWorked ==
  \A k \in 1..i : chain[k].digest <= OwnTarget(chain[k])

(* Both together.  The Rust crate is held to the second only when its      *)
(* caller asks for constant difficulty; RustOwnTarget shows why.           *)
PrefixSound ==
  /\ PrefixLinked
  /\ (impl = "rust" => ConstantDifficulty) => PrefixWorked

(* An accepted chain is sound to its last header, with no bytes left over. *)
AcceptedSound ==
  (outcome = "accepted" /\ (impl = "rust" => ConstantDifficulty)) =>
    /\ ~ragged
    /\ \A k \in 1..Len(chain) :
         /\ k > 1 => chain[k].parent = chain[k - 1].digest
         /\ chain[k].digest <= OwnTarget(chain[k])

(* C counts no header whose mantissa is written beside the word, whatever   *)
(* part of it lies within: the window read for the difficulty is too far    *)
(* from the word's end, and nothing else looks at the exponent.             *)
MisplacedNotCounted == impl = "c" => \A k \in 1..i : CInRange(chain[k])

(* types.rs says of InsufficientWork "Header does not meet its own         *)
(* difficulty target": every header the Rust crate counts should meet its  *)
(* own target.                                                             *)
RustOwnTarget ==
  impl = "rust" => \A k \in 1..i : chain[k].digest < RustTarget(chain[k])

(***************************************************************************)
(* The chain check implements what HeaderChainSpec promises.               *)
(***************************************************************************)
SpecVerdict ==
  CASE outcome = "running"  -> "pending"
    [] outcome = "accepted" -> "accepted"
    [] OTHER                -> "refused"

Promise == INSTANCE HeaderChainSpec
             WITH counted <- i, work <- total, verdict <- SpecVerdict,
                  uniform <- (impl = "rust" /\ ConstantDifficulty)

Promised == Promise!Spec

(* Where a port can keep the promise.  C computes in its window, so it is   *)
(* exact for the targets that lie there and need no digit below; Go and     *)
(* Rust take the mantissa itself for a target with an exponent below 3.     *)
Exact(l, h) ==
  CASE l = "c" ->
         CInRange(h) =>
           /\ h.mantissa * Power[h.exponent - 3] < Power[Low + Window]
           /\ (h.mantissa * Power[h.exponent - 3]) % Power[Low] = 0
    [] l \in {"go", "rust"} -> h.exponent >= 3
    [] OTHER -> TRUE

(* The work of a chain fits the integer that accumulates it, as it does if  *)
(* it fits when every header counts for as much as the heaviest.            *)
WorkFits(l, c) ==
  LET size == IF l = "c" THEN WindowSize ELSE WordSize
  IN  \E most \in 0..size - 1 :
        /\ Len(c) * most < size
        /\ \A k \in DOMAIN c : Difficulty(Promise!NominalTarget(c[k])) <= most

Comparable ==
  /\ "rust" \in Impls => ConstantDifficulty
  /\ \A l \in Impls : \A c \in Chains[l] :
       (l # "js" => WorkFits(l, c)) /\ \A k \in DOMAIN c : Exact(l, c[k])

=============================================================================
