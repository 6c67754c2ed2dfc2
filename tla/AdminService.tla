---------------------------- MODULE AdminService ----------------------------
(***************************************************************************)
(* internal/service/admin_service.go: RetryJob, the one operation of the   *)
(* admin API that changes state.  It reads the row, resets it and pushes   *)
(* the job; it looks neither at the job:done marker nor at the dead-letter *)
(* list.                                                                   *)
(***************************************************************************)
EXTENDS Stores

CONSTANTS Admins   \* the admin requests, each one call of RetryJob

VARIABLES
  apc,      \* where each admin request is
  ajob      \* the job it was asked to retry

adminVars == <<apc, ajob>>

\* "queued", "notFound", "conflict" and "error" are the outcomes: 200, 404,
\* 409 and 500.
AdminPC == {"new", "update", "push", "queued", "notFound", "conflict", "error"}

AdminTypeOK ==
  /\ apc \in [Admins -> AdminPC]
  /\ ajob \in [Admins -> Copy \cup {NoCopy}]
  /\ \A a \in Admins : apc[a] \in {"update", "push"} => ajob[a] \in Copy

AdminInit ==
  /\ apc = [a \in Admins |-> "new"]
  /\ ajob = [a \in Admins |-> NoCopy]

AdminMove(a, from, to) == apc[a] = from /\ apc' = [apc EXCEPT ![a] = to]

\* What RetryJob makes of the status it reads.
Retryable(status) ==
  CASE status = "absent" -> "notFound"
    [] status \in {"FAILED", "DEAD_LETTER"} -> "update"
    [] OTHER -> "conflict"

\* GetByID and the check of the status; the job read has its count reset.
AdminRead(a, j) ==
  /\ \E ok \in BOOLEAN :
       /\ Call("db", TRUE, ok)
       /\ AdminMove(a, "new", IF ok THEN Retryable(row[j].status) ELSE "error")
  /\ ajob' = [ajob EXCEPT ![a] = NewJob(j)]
  /\ UNCHANGED <<queue, deadLetter, row, attempts, doneKey, lockKey, accepted>>

AdminUpdate(a) ==
  /\ \E ok \in BOOLEAN :
       /\ Call("db", TRUE, ok)
       /\ AdminMove(a, "update", IF ok THEN "push" ELSE "error")
       /\ Update(ajob[a], "QUEUED") \/ (~ok /\ UNCHANGED row)
  /\ UNCHANGED <<queue, deadLetter, attempts, doneKey, lockKey, accepted, ajob>>

\* A failed push leaves the row QUEUED.
AdminPush(a) ==
  /\ \E ok \in BOOLEAN :
       /\ Call("redis", TRUE, ok)
       /\ AdminMove(a, "push", IF ok THEN "queued" ELSE "error")
       /\ Push(ajob[a]) \/ (~ok /\ UNCHANGED queue)
  /\ UNCHANGED <<deadLetter, row, attempts, doneKey, lockKey, accepted, ajob>>

RetryJob(a) == (\E j \in Jobs : AdminRead(a, j)) \/ AdminUpdate(a) \/ AdminPush(a)

AdminStep == \E a \in Admins : RetryJob(a)
=============================================================================
