---------------------------- MODULE MCWorkerPool ----------------------------
(***************************************************************************)
(* The worker pool on small instances.                                     *)
(***************************************************************************)
EXTENDS WorkerPool, TLC

CONSTANTS j1, j2, j3, j4, w1, w2

\* j1 is HIGH, j2 LOW; j3 is MEDIUM and, where Registry leaves its type out,
\* has no processor.
MCTypeOf == (j1 :> "PAYMENT_WEBHOOK") @@ (j2 :> "NOTIFICATION")
            @@ (j3 :> "REGISTRATION") @@ (j4 :> "QR_SCAN")

TypeOfJobs == [j \in Jobs |-> MCTypeOf[j]]

\* Workers are interchangeable.
WorkerSymmetry == Permutations(Workers)
=============================================================================
