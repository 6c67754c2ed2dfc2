--------------------------- MODULE GatewayPromise ---------------------------
(***************************************************************************)
(* What the gateway promises its clients while nothing fails.  Each        *)
(* idempotency key comes to belong to one job for good; every request with *)
(* the key is told that job; and that job ends, once, as SUCCESS or as     *)
(* DEAD_LETTER.  Lists, channel, workers, locks and retries do not appear. *)
(***************************************************************************)
CONSTANTS Jobs, Keys, KeyOf, Valid, NoJob

VARIABLES
  owner,   \* the job each key belongs to, or NoJob
  told,    \* the job each request was told, or NoJob
  result   \* how each job ended, or "open"

Results == {"SUCCESS", "DEAD_LETTER"}

GPInit ==
  /\ owner = [k \in Keys |-> NoJob]
  /\ told = [j \in Jobs |-> NoJob]
  /\ result = [j \in Jobs |-> "open"]

Own(j) ==
  /\ j \in Valid /\ owner[KeyOf[j]] = NoJob
  /\ owner' = [owner EXCEPT ![KeyOf[j]] = j]
  /\ UNCHANGED <<told, result>>

Tell(j) ==
  /\ told[j] = NoJob /\ owner[KeyOf[j]] # NoJob
  /\ told' = [told EXCEPT ![j] = owner[KeyOf[j]]]
  /\ UNCHANGED <<owner, result>>

End(j) ==
  /\ owner[KeyOf[j]] = j /\ result[j] = "open"
  /\ \E r \in Results : result' = [result EXCEPT ![j] = r]
  /\ UNCHANGED <<owner, told>>

GPNext == \E j \in Jobs : Own(j) \/ Tell(j) \/ End(j)

\* Every request is told a job, and that job ends.
GPProgress == \A j \in Valid : <>(\E i \in Jobs : told[j] = i /\ result[i] \in Results)

GPSafety == GPInit /\ [][GPNext]_<<owner, told, result>>

GPSpec == GPSafety /\ GPProgress
=============================================================================
