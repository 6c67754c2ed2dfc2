------------------------------ MODULE MCIngress ------------------------------
(***************************************************************************)
(* The chain in front of Enqueue on a small instance.                      *)
(***************************************************************************)
EXTENDS Ingress, TLC

CONSTANTS j1, j2, j3, w, k1, k2, k3, c1, c2

\* j1 and j2 are one client's requests with one key.
MCKeyOf == [j \in Jobs |-> CASE j = j3 -> k2 [] j = w -> k3 [] OTHER -> k1]

MCTypeOf == [j \in Jobs |-> CASE j \in {j1, j2} -> "REGISTRATION"
                             [] j = w -> "NOTIFICATION"
                             [] OTHER -> "PAYMENT_WEBHOOK"]

MCClientOf == [j \in Jobs |-> IF j = j3 THEN c2 ELSE c1]

RequestSymmetry == Permutations({j1, j2})
=============================================================================
