------------------------------- MODULE Stores -------------------------------
(***************************************************************************)
(* The state every part of the gateway shares, and the calls that change   *)
(* it: the Redis priority lists and dead-letter list (internal/queue), the *)
(* Redis keys job:done:<id> and job:lock:<id> (internal/cache), and the    *)
(* jobs and job_attempts tables (internal/repository).  The components     *)
(* extend this module and take one step per call.                          *)
(***************************************************************************)
EXTENDS Integers, Sequences, FiniteSets

CONSTANTS
  Jobs,        \* job ids (uuid.NewString)
  TypeOf,      \* the job type of each job id
  MaxRetries,  \* Job.MaxRetries, the same for every job (GatewayConfig.MaxRetries)
  NoCopy,      \* a nil *domain.Job
  Env,         \* what the environment may do in this instance
  MaxFaults    \* bound: failed calls to a reachable store in one behaviour

JobTypes == {"REGISTRATION", "PAYMENT_WEBHOOK", "QR_SCAN", "NOTIFICATION"}

\* "redis", "db":   a call to that store may fail although its context is live
\* "depth":         the pipeline of the depth check may fail
\* "provider":      the notification provider may report a failure
\* "shortBackoff":  a jittered retry delay may elapse before the deferred unlock
\* "slowJob":       a job may hold its lock longer than lockTTL
\* "shutdown":      the Start context may be cancelled
\* "crash":         the process may die at any point and be started again
\* "clientGone":    a client may disconnect, which cancels its request's context
EnvEvents == {"redis", "db", "depth", "provider", "shortBackoff", "slowJob", "shutdown", "crash",
              "clientGone"}

(***************************************************************************)
(* A job as it travels through the queue.  Of the JSON document only the   *)
(* id and the retry count differ between two copies of one job.            *)
(***************************************************************************)
Copy == [id : Jobs, retry : 0..MaxRetries]

Priorities == {"HIGH", "MEDIUM", "LOW"}

\* "FAILED" is declared by the code but never assigned to a job, only to an
\* attempt; "absent" stands for a row that does not exist.
JobStatus == {"QUEUED", "PROCESSING", "SUCCESS", "FAILED", "DEAD_LETTER"}

Row == [status : JobStatus \cup {"absent"}, retry : 0..MaxRetries]

ASSUME StoresAssumption ==
  /\ IsFiniteSet(Jobs)
  /\ TypeOf \in [Jobs -> JobTypes]
  /\ MaxRetries \in Nat
  /\ NoCopy \notin Copy
  /\ Env \subseteq EnvEvents
  /\ MaxFaults \in Nat

VARIABLES
  queue,       \* the three priority lists; LPUSH appends, BRPOP takes the head
  deadLetter,  \* the list jobs:dead-letter
  row,         \* the jobs table
  attempts,    \* the number of job_attempts rows of each job
  doneKey,     \* the ids whose job:done:<id> key exists
  lockKey,     \* the ids whose job:lock:<id> key exists
  accepted,    \* history: the jobs whose first Push took effect
  faults       \* history: how many calls failed with a live context

storeVars == <<queue, deadLetter, row, attempts, doneKey, lockKey, accepted, faults>>

StoresTypeOK ==
  /\ queue \in [Priorities -> Seq(Copy)]
  /\ deadLetter \in Seq(Copy)
  /\ row \in [Jobs -> Row]
  /\ attempts \in [Jobs -> Nat]
  /\ doneKey \in SUBSET Jobs
  /\ lockKey \in SUBSET Jobs
  /\ accepted \in SUBSET Jobs
  /\ faults \in 0..MaxFaults

StoresInit(rowStatus) ==
  /\ queue = [p \in Priorities |-> <<>>]
  /\ deadLetter = <<>>
  /\ row = [j \in Jobs |-> [status |-> rowStatus, retry |-> 0]]
  /\ attempts = [j \in Jobs |-> 0]
  /\ doneKey = {}
  /\ lockKey = {}
  /\ accepted = {}
  /\ faults = 0

(***************************************************************************)
(* internal/domain.                                                        *)
(***************************************************************************)
PriorityForType(t) ==
  CASE t \in {"PAYMENT_WEBHOOK", "QR_SCAN"} -> "HIGH"
    [] t = "NOTIFICATION" -> "LOW"
    [] OTHER -> "MEDIUM"

NewJob(j) == [id |-> j, retry |-> 0]

\* Mutant: one retry too many.
CanRetryOffByOne(c) == c.retry <= MaxRetries

CanRetry(c) == c.retry < MaxRetries

(***************************************************************************)
(* A call to a store.  A cancelled context makes the call fail before it   *)
(* is sent; with a live context it fails only by a fault of the store.     *)
(* A call is one command: that go-redis may send one again by itself after *)
(* a lost reply, and then report success, is left out.                     *)
(***************************************************************************)
Call(store, live, ok) ==
  \/ live /\ ok /\ UNCHANGED faults
  \/ ~live /\ ~ok /\ UNCHANGED faults
  \/ live /\ ~ok /\ store \in Env /\ faults < MaxFaults /\ faults' = faults + 1

(***************************************************************************)
(* internal/queue: Push, the list that Pop serves, and the copy it takes.  *)
(***************************************************************************)
keyForPriority(c) == PriorityForType(TypeOf[c.id])

Push(c) == queue' = [queue EXCEPT ![keyForPriority(c)] = Append(@, c)]

\* BRPOP looks at the lists in the order HIGH, MEDIUM, LOW.
Before(p) ==
  CASE p = "HIGH" -> {}
    [] p = "MEDIUM" -> {"HIGH"}
    [] p = "LOW" -> {"HIGH", "MEDIUM"}

Served(p) == queue[p] # <<>> /\ \A h \in Before(p) : queue[h] = <<>>

QueueEmpty == \A p \in Priorities : queue[p] = <<>>

PushDeadLetter(c) == deadLetter' = Append(deadLetter, c)

(***************************************************************************)
(* internal/repository: UPDATE changes nothing when the row is missing.    *)
(***************************************************************************)
Create(j) == row' = [row EXCEPT ![j] = [status |-> "QUEUED", retry |-> 0]]

Update(c, status) ==
  row' = [row EXCEPT ![c.id] = IF @.status = "absent" THEN @
                               ELSE [status |-> status, retry |-> c.retry]]

AddAttempt(c) == attempts' = [attempts EXCEPT ![c.id] = @ + 1]

Terminal(j) == row[j].status \in {"SUCCESS", "DEAD_LETTER"}
=============================================================================
