----------------------------- MODULE ByteTotals -----------------------------
(***************************************************************************)
(* Sums of byte charges.  The runtime keeps every total as a counter that  *)
(* is adjusted step by step (external_bytes, provisional_bytes,            *)
(* pinned_bytes, deferred_bytes, cached_bytes, ...).  The properties of    *)
(* the project compare such a counter with the sum it stands for.  And the *)
(* division that the batch decoders cut their jobs with.                   *)
(*                                                                         *)
(* The sum is a cardinality: one token per charged byte.  A fold would     *)
(* compute the same number, but what a fold computes is out of the proof   *)
(* system's reach, while cardinalities have library theorems.              *)
(***************************************************************************)
EXTENDS Integers, FiniteSets

\* One token per byte that the owners of f are charged, none above cap.
Tokens(f, cap) == {t \in (DOMAIN f) \X (1..cap) : t[2] <= f[t[1]]}

\* The sum of f, for a function f with values in 0..cap.
Total(f, cap) == Cardinality(Tokens(f, cap))

\* Division that rounds up (usize::div_ceil).
DivCeil(a, b) == (a + b - 1) \div b
=============================================================================
