--------------------------- MODULE HeaderChainSpec ---------------------------
(***************************************************************************)
(* What checking a chain of headers promises, whatever the language: the   *)
(* headers are taken in order, a header counts only if it names its        *)
(* predecessor's digest and its digest is within its own target, it counts *)
(* for exactly its own difficulty, and a chain is refused only for cause.  *)
(*                                                                         *)
(* The five implementations disagree at the edge of "within" (Solidity     *)
(* counts a digest equal to the target, and a zero digest), on targets     *)
(* that do not fit a word and on exponents below 3, so the edge is left    *)
(* open: a header that MayCount need not, and one that MustCount is never  *)
(* the cause of a refusal.                                                 *)
(***************************************************************************)
EXTENDS HeaderArithmetic, Sequences

VARIABLES
  chain,    \* the headers submitted
  ragged,   \* whether bytes that make no whole header follow them
  uniform,  \* whether the caller wants every header to state one target
  counted,  \* how many of them have been counted
  work,     \* the difficulty they have been credited
  verdict   \* "pending", "accepted" or "refused"

specVars == <<chain, ragged, uniform, counted, work, verdict>>

(* mantissa * 256^(exponent - 3), rounded down. *)
NominalTarget(h) ==
  IF h.exponent >= 3 THEN h.mantissa * Power[h.exponent - 3]
                     ELSE h.mantissa \div Power[3 - h.exponent]

Follows(k) == k > 1 => chain[k].parent = chain[k - 1].digest

Same(k) == uniform => NominalTarget(chain[k]) = NominalTarget(chain[1])

MayCount(k) ==
  /\ Follows(k) /\ Same(k)
  /\ chain[k].digest <= NominalTarget(chain[k])
  /\ NominalTarget(chain[k]) > 0

MustCount(k) ==
  /\ Follows(k) /\ Same(k)
  /\ 0 < chain[k].digest /\ chain[k].digest < NominalTarget(chain[k])
  /\ NominalTarget(chain[k]) < WordSize
  /\ DiffOneTarget >= NominalTarget(chain[k])
  /\ chain[k].exponent >= 3

SpecInit ==
  /\ chain \in Seq(Header) /\ ragged \in BOOLEAN /\ uniform \in BOOLEAN
  /\ counted = 0 /\ work = 0 /\ verdict = "pending"

Count ==
  /\ verdict = "pending" /\ ~ragged
  /\ counted < Len(chain)
  /\ MayCount(counted + 1)
  /\ counted' = counted + 1
  /\ work' = work + Difficulty(NominalTarget(chain[counted + 1]))
  /\ UNCHANGED <<chain, ragged, uniform, verdict>>

Accept ==
  /\ verdict = "pending" /\ ~ragged
  /\ counted = Len(chain)
  /\ verdict' = "accepted"
  /\ UNCHANGED <<chain, ragged, uniform, counted, work>>

Refuse ==
  /\ verdict = "pending"
  /\ ragged \/ (counted < Len(chain) /\ ~MustCount(counted + 1))
  /\ verdict' = "refused"
  /\ UNCHANGED <<chain, ragged, uniform, counted, work>>

SpecNext == Count \/ Accept \/ Refuse

Safety == SpecInit /\ [][SpecNext]_specVars

Spec == Safety /\ WF_specVars(SpecNext)

=============================================================================
