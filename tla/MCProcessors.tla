---------------------------- MODULE MCProcessors ----------------------------
(***************************************************************************)
(* The processors on a few jobs, at least one of each type.                *)
(***************************************************************************)
EXTENDS Processors, TLC

CONSTANTS q1, q2, p1, r1, n1, s1, s2

MCTypeOf == [j \in Jobs |->
  CASE j \in {q1, q2} -> "QR_SCAN" [] j = p1 -> "PAYMENT_WEBHOOK"
    [] j = r1 -> "REGISTRATION" [] j = n1 -> "NOTIFICATION"]

\* q1 and q2 scan one code.
MCSubjectOf == [j \in Jobs |-> IF j \in {q1, q2} THEN s1 ELSE s2]

Good == [json |-> TRUE, missing |-> FALSE, enum |-> "valid"]

\* A payment and a notification, whose enumerated field is checked in two
\* places, come with every value of it, with a field missing and without JSON;
\* the others are well formed.
MCPayloadsOf == [j \in Jobs |->
  IF j \in {p1, n1}
  THEN {[Good EXCEPT !.enum = e] : e \in {"empty", "unknown", "valid"}}
         \cup {[Good EXCEPT !.missing = TRUE], [Good EXCEPT !.json = FALSE]}
  ELSE {Good}]

ScanSymmetry == Permutations({q1, q2})
=============================================================================
