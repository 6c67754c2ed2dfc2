--------------------------- MODULE MCKeyedLimiter ---------------------------
(***************************************************************************)
(* The keyed limiter with few clients and callers.                         *)
(***************************************************************************)
EXTENDS KeyedLimiter, TLC

CONSTANTS c1, c2, t1, t2, b1, b2, b3

\* Bucket objects, callers and clients are interchangeable.
LimiterSymmetry == Permutations(Buckets) \cup Permutations(Callers) \cup Permutations(Clients)
=============================================================================
