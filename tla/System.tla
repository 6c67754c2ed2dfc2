------------------------------- MODULE System -------------------------------
(***************************************************************************)
(* The whole gateway: HTTP requests that enqueue jobs, the worker pool     *)
(* that runs them, and the admin requests that retry dead-lettered ones,   *)
(* over the same Redis and Postgres.                                       *)
(***************************************************************************)
EXTENDS WorkerPool, GatewayService, AdminService

sysVars == <<storeVars, poolVars, gatewayVars, adminVars>>

SysInit == StoresInit("absent") /\ PoolInit /\ GatewayInit /\ AdminInit

\* The requests in progress die with the process and release nothing.
SysRestart ==
  /\ Restart
  /\ rpc' = [j \in Jobs |-> IF rpc[j] \in Outcomes \cup {"new"} THEN rpc[j] ELSE "error"]
  /\ apc' = [a \in Admins |-> IF apc[a] \in {"update", "push"} THEN "error" ELSE apc[a]]
  /\ UNCHANGED <<idemKey, rlive, answer, ajob>>

SysNext ==
  \/ PoolStep /\ UNCHANGED <<gatewayVars, adminVars>>
  \/ GatewayStep /\ UNCHANGED <<poolVars, adminVars>>
  \/ AdminStep /\ UNCHANGED <<poolVars, gatewayVars>>
  \/ SysRestart

SysSpec == SysInit /\ [][SysNext]_sysVars

\* Every goroutine keeps running, those of the requests included.
SysFairSpec ==
  /\ SysSpec
  /\ WF_sysVars(Dispatcher /\ UNCHANGED <<gatewayVars, adminVars>>)
  /\ \A w \in Workers : WF_sysVars(Worker(w) /\ UNCHANGED <<gatewayVars, adminVars>>)
  /\ \A c \in Copy : WF_sysVars(Retry(c) /\ UNCHANGED <<gatewayVars, adminVars>>)
  /\ \A j \in Jobs : WF_sysVars(Enqueue(j) /\ UNCHANGED <<poolVars, adminVars>>)

-----------------------------------------------------------------------------
(***************************************************************************)
(* Properties.                                                             *)
(***************************************************************************)

\* Every variable has its type.
SysTypeOK == TypeOK /\ GatewayTypeOK /\ AdminTypeOK

\* What each request was told, and how each job ended.
toldNow == [j \in Jobs |-> CASE rpc[j] = "accepted" -> j [] rpc[j] = "duplicate" -> answer[j] [] OTHER -> NoJob]
resultNow == [j \in Jobs |-> IF Terminal(j) THEN row[j].status ELSE "open"]

Promise == INSTANCE GatewayPromise WITH owner <- idemKey, told <- toldNow, result <- resultNow

\* While nothing fails the whole system implements GatewayPromise: of the
\* requests with one key all are answered, by 202 or 200, with the one job
\* the key came to stand for, and that job ends exactly once, whichever
\* workers run it and however often it is retried.
KeepsPromise == Promise!GPSpec

\* A worker never holds a job whose row does not exist, although Enqueue
\* writes the row and the list in two steps and may die between them.
RunHasRow == \A w \in Workers : InLock(w) => row[wjob[w].id].status # "absent"

\* There is at most one job_attempts row per call of a processor, across
\* retries, crashes and admin retries.
AttemptsPerRun == \A j \in Jobs : attempts[j] <= runs[j]

\* README: a dead-lettered job can be re-queued by an admin.  Once the pushed
\* job is off the list it is being worked on or has a result.
AdminRetryWorks ==
  \A a \in Admins : apc[a] = "queued" =>
    LET j == ajob[a].id IN Terminal(j) \/ PlacesOf(j) # {}
=============================================================================
