------------------------------ MODULE MCSystem ------------------------------
(***************************************************************************)
(* The whole gateway on small instances.                                   *)
(***************************************************************************)
EXTENDS System, TLC

CONSTANTS j1, j2, j3, w1, w2, k1, k2, a1, a2

\* j1 and j2 are two requests with one key.
MCKeyOf == [j \in Jobs |-> IF j = j3 THEN k2 ELSE k1]

MCTypeOf == [j \in Jobs |-> IF j = j3 THEN "NOTIFICATION" ELSE "PAYMENT_WEBHOOK"]

Symmetry == Permutations(Workers) \cup Permutations(Admins)
=============================================================================
