---------------------------- MODULE Backpressure ----------------------------
(***************************************************************************)
(* internal/api/middleware/backpressure.go in front of Enqueue: a request  *)
(* adds up the lengths of the three lists and is shed at the threshold.    *)
(* TotalDepth pipelines three LLEN commands, which is not a transaction,   *)
(* and the request pushes its job some time after the check.  The other    *)
(* pushes onto the same lists meet no check: the pool's retries and the    *)
(* job it gives back at shutdown, the admins' retries, and the welcome     *)
(* notifications that the registration processor enqueues.                 *)
(***************************************************************************)
EXTENDS GatewayService

CONSTANTS
  Threshold,    \* QUEUE_MAX_DEPTH
  MaxInFlight,  \* requests inside the handler chain at one time
  Welcomes,     \* the jobs no request asks for: welcome notifications
  MaxBackground \* bound: pushes without a check in one behaviour

ASSUME BackpressureAssumption ==
  /\ Threshold \in Int /\ MaxInFlight \in Nat \ {0} /\ MaxBackground \in Nat
  /\ Welcomes \subseteq {j \in Jobs : TypeOf[j] = "NOTIFICATION"}

VARIABLES
  bpc,      \* where each request is in the middleware
  sum,      \* the depth it has added up so far; 0 outside the check
  opened,   \* history: the requests let through because the check failed
  unchecked,   \* history: the pushes that met no check since the depth was last
               \* below the threshold
  background   \* history: all pushes that met no check

checkVars == <<bpc, sum, opened>>
pushVars == <<unchecked, background>>
bpVars == <<gwVars, checkVars, pushVars>>

Reading == {"HIGH", "MEDIUM", "LOW"}

BackpressureTypeOK ==
  /\ GwTypeOK
  /\ bpc \in [Jobs -> {"out", "shed", "passed"} \cup Reading]
  /\ sum \in [Jobs -> Nat]
  /\ opened \in SUBSET Jobs
  /\ unchecked \in Nat
  /\ background \in 0..MaxBackground

BpInit ==
  /\ GwInit
  /\ bpc = [j \in Jobs |-> "out"]
  /\ sum = [j \in Jobs |-> 0]
  /\ opened = {}
  /\ unchecked = 0
  /\ background = 0

\* The depth at one instant, which no request can read.
TotalDepth == Len(queue["HIGH"]) + Len(queue["MEDIUM"]) + Len(queue["LOW"])

InFlight == {j \in Jobs : bpc[j] \in Reading \/ (bpc[j] = "passed" /\ rpc[j] \notin Outcomes)}

\* net/http hands the request to the chain; threshold <= 0 turns the check off.
Arrive(j) ==
  /\ bpc[j] = "out" /\ j \notin Welcomes
  /\ Cardinality(InFlight) < MaxInFlight
  /\ bpc' = [bpc EXCEPT ![j] = IF Threshold > 0 THEN "HIGH" ELSE "passed"]
  /\ UNCHANGED <<gwVars, sum, opened, pushVars>>

\* Mutant: the dead-letter list is read as a fourth one.
AfterReadDeadLetter(p, depth) ==
  CASE p = "HIGH" -> "MEDIUM"
    [] p = "MEDIUM" -> "LOW"
    [] p = "LOW" -> "DEAD_LETTER"

\* Mutant: the request counts itself.
AfterReadEager(p, depth) ==
  CASE p = "HIGH" -> "MEDIUM"
    [] p = "MEDIUM" -> "LOW"
    [] p = "LOW" -> IF depth + 1 >= Threshold THEN "shed" ELSE "passed"

\* What follows the LLEN of one list.
AfterRead(p, depth) ==
  CASE p = "HIGH" -> "MEDIUM"
    [] p = "MEDIUM" -> "LOW"
    [] p = "LOW" -> IF depth >= Threshold THEN "shed" ELSE "passed"

ReadDepth(j) ==
  LET p == bpc[j]
      depth == sum[j] + Len(queue[p])
  IN  /\ p \in Reading
      /\ Call("redis", rlive[j], TRUE)
      /\ sum' = [sum EXCEPT ![j] = IF p = "LOW" THEN 0 ELSE depth]
      /\ bpc' = [bpc EXCEPT ![j] = AfterRead(p, depth)]
      /\ UNCHANGED <<queue, deadLetter, row, attempts, doneKey, lockKey, accepted, gatewayVars, opened, pushVars>>

\* "Fail open": the pipeline returned an error.
ReadFails(j) ==
  /\ bpc[j] \in Reading
  /\ Call("redis", rlive[j], FALSE) \/ Call("depth", rlive[j], FALSE)
  /\ bpc' = [bpc EXCEPT ![j] = "passed"]
  /\ sum' = [sum EXCEPT ![j] = 0]
  /\ opened' = opened \cup {j}
  /\ UNCHANGED <<queue, deadLetter, row, attempts, doneKey, lockKey, accepted, gatewayVars, pushVars>>

\* next.ServeHTTP: the handler calls Enqueue.
Handle(j) == bpc[j] = "passed" /\ Enqueue(j) /\ UNCHANGED <<checkVars, pushVars>>

\* The dispatcher of the pool takes the next job off the lists.
Consume(p) ==
  /\ Served(p)
  /\ queue' = [queue EXCEPT ![p] = Tail(@)]
  /\ unchecked' = IF TotalDepth' < Threshold THEN 0 ELSE unchecked
  /\ UNCHANGED <<deadLetter, row, attempts, doneKey, lockKey, accepted, faults, gatewayVars, checkVars, background>>

\* Mutant: the second Push of requeueAfter is not only for a failed first one.
PushUncheckedTwice(c) ==
  /\ background < MaxBackground /\ background' = background + 1
  /\ queue' = [queue EXCEPT ![keyForPriority(c)] = @ \o <<c, c>>]
  /\ unchecked' = IF TotalDepth' < Threshold THEN 0 ELSE unchecked + 1
  /\ UNCHANGED <<deadLetter, row, attempts, doneKey, lockKey, accepted, faults, gatewayVars, checkVars>>

\* A push that no check precedes.
PushUnchecked(c) ==
  /\ background < MaxBackground /\ background' = background + 1
  /\ Push(c)
  /\ unchecked' = IF TotalDepth' < Threshold THEN 0 ELSE unchecked + 1
  /\ UNCHANGED <<deadLetter, row, attempts, doneKey, lockKey, accepted, faults, gatewayVars, checkVars>>

\* requeueAfter; likewise the dispatcher at shutdown, and RetryJob.
Requeue == \E c \in Copy : c.id \in accepted /\ PushUnchecked(c)

\* enqueueWelcome, while the job of a registration runs.
Welcome ==
  /\ \E j \in accepted : TypeOf[j] = "REGISTRATION"
  /\ \E w \in Welcomes : PushUnchecked(NewJob(w))

BpNext ==
  \/ \E j \in Jobs :
       \/ Arrive(j) \/ ReadDepth(j) \/ ReadFails(j) \/ Handle(j)
       \/ bpc[j] # "out" /\ ClientGone(j) /\ UNCHANGED <<checkVars, pushVars>>
  \/ \E p \in Priorities : Consume(p)
  \/ Requeue \/ Welcome

BpSpec == BpInit /\ [][BpNext]_bpVars

-----------------------------------------------------------------------------
(***************************************************************************)
(* Properties.                                                             *)
(***************************************************************************)
\* The check is not atomic with the push, nor the three reads with each
\* other, yet the depth exceeds the threshold by at most the requests that
\* were inside the chain together, those let through because the check
\* failed, and the pushes that met no check since it was last below.
DepthBound ==
  Threshold > 0 => TotalDepth <= Threshold - 1 + MaxInFlight + Cardinality(opened) + unchecked
=============================================================================
