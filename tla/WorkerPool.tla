----------------------------- MODULE WorkerPool -----------------------------
(***************************************************************************)
(* internal/worker/pool.go: one dispatcher that pops the Redis lists into  *)
(* a buffered channel, the workers that run jobs from it under a lock, one *)
(* goroutine per delayed retry, and Shutdown, which waits for them.  Every *)
(* call to Redis or Postgres is a step of its own.                         *)
(***************************************************************************)
EXTENDS Stores

CONSTANTS
  Workers,     \* worker goroutines
  Registry,    \* the job types that have a processor
  MaxRestarts  \* bound: how often the process is started again

ASSUME PoolAssumption ==
  /\ IsFiniteSet(Workers) /\ Cardinality(Workers) \in Nat
  /\ Workers # {}
  /\ Registry \subseteq JobTypes
  /\ MaxRestarts \in Nat

VARIABLES
  ctxLive,   \* the Start context is not cancelled
  dpc,       \* where the dispatcher is
  held,      \* the job the dispatcher has popped
  jobs,      \* the buffered channel
  wpc,       \* where each worker is
  wjob,      \* the job each worker has received
  timer,     \* retry goroutines waiting for their timer, by copy
  repush,    \* retry goroutines whose first Push returned an error, by copy
  waiter,    \* what the goroutine of Shutdown waits for
  ret,       \* what Shutdown returned
  runs,      \* history: how often Process returned for each job
  restarts   \* history: how often the process was started again

localVars == <<ctxLive, dpc, held, jobs, wpc, wjob, timer, repush, waiter, ret>>
poolVars == <<localVars, runs, restarts>>

\* NewPool: make(chan *domain.Job, d.WorkerCount*2)
ChanCap == 2 * Cardinality(Workers)

DispatcherPC == {"check", "pop", "send", "exited"}

\* Between SetNX and the deferred Del a worker owns the lock of its job.  The
\* labels "dlUpdate" .. "dlDone" are toDeadLetter, also reached without the lock.
DeadLetterPC == {"dlUpdate", "dlPush", "dlDone"}
LockedPC == {"mark", "run", "succUpdate", "succDone", "succAttempt",
             "attemptDead", "attemptRetry", "retryUpdate", "spawn", "unlock"}
WorkerPC == {"idle", "getDone", "setLock", "exited"} \cup LockedPC \cup DeadLetterPC

PoolTypeOK ==
  /\ ctxLive \in BOOLEAN
  /\ dpc \in DispatcherPC
  /\ held \in Copy \cup {NoCopy}
  /\ dpc = "send" => held \in Copy
  /\ jobs \in Seq(Copy) /\ Len(jobs) <= ChanCap
  /\ wpc \in [Workers -> WorkerPC]
  /\ wjob \in [Workers -> Copy \cup {NoCopy}]
  /\ \A w \in Workers : wpc[w] \notin {"idle", "exited"} => wjob[w] \in Copy
  /\ timer \in [Copy -> Nat]
  /\ repush \in [Copy -> Nat]
  /\ waiter \in {"none", "dispatcher", "workers", "retries", "drained"}
  /\ ret \in {"none", "nil", "timeout"}
  /\ runs \in [Jobs -> Nat]
  /\ restarts \in 0..MaxRestarts

PoolInit ==
  /\ ctxLive = TRUE
  /\ dpc = "check"
  /\ held = NoCopy
  /\ jobs = <<>>
  /\ wpc = [w \in Workers |-> "idle"]
  /\ wjob = [w \in Workers |-> NoCopy]
  /\ timer = [c \in Copy |-> 0]
  /\ repush = [c \in Copy |-> 0]
  /\ waiter = "none"
  /\ ret = "none"
  /\ runs = [j \in Jobs |-> 0]
  /\ restarts = 0

-----------------------------------------------------------------------------
(***************************************************************************)
(* dispatch.  The channel is closed exactly when the dispatcher returns.   *)
(***************************************************************************)
closed == dpc = "exited"

\* Mutant: the loop does not look at ctx.Err().
DispatchCheckNeverEnds ==
  /\ dpc = "check"
  /\ dpc' = "pop"
  /\ UNCHANGED <<storeVars, ctxLive, held, jobs, wpc, wjob, timer, repush, waiter, ret, runs, restarts>>

DispatchCheck ==
  /\ dpc = "check"
  /\ dpc' = IF ctxLive THEN "pop" ELSE "exited"
  /\ UNCHANGED <<storeVars, ctxLive, held, jobs, wpc, wjob, timer, repush, waiter, ret, runs, restarts>>

\* A BRPOP that is already waiting is not interrupted by the cancellation.
DispatchPop(p) ==
  /\ dpc = "pop"
  /\ Served(p)
  /\ queue' = [queue EXCEPT ![p] = Tail(@)]
  /\ held' = Head(queue[p])
  /\ dpc' = "send"
  /\ UNCHANGED <<deadLetter, row, attempts, doneKey, lockKey, accepted, faults,
                 ctxLive, jobs, wpc, wjob, timer, repush, waiter, ret, runs, restarts>>

\* Mutant: Pop gives up although a list has a job.
DispatchNoJobEarly ==
  /\ dpc = "pop"
  /\ dpc' = "check"
  /\ UNCHANGED <<storeVars, ctxLive, held, jobs, wpc, wjob, timer, repush, waiter, ret, runs, restarts>>

\* Pop returns (nil, nil): the poll timed out, or the context was cancelled
\* before the command was sent.
DispatchNoJob ==
  /\ dpc = "pop"
  /\ QueueEmpty \/ ~ctxLive
  /\ dpc' = "check"
  /\ UNCHANGED <<storeVars, ctxLive, held, jobs, wpc, wjob, timer, repush, waiter, ret, runs, restarts>>

\* Pop returns an error; when only the reply was lost the popped copy is gone.
DispatchPopError(p) ==
  /\ dpc = "pop"
  /\ Call("redis", TRUE, FALSE)
  /\ \/ UNCHANGED queue
     \/ Served(p) /\ queue' = [queue EXCEPT ![p] = Tail(@)]
  /\ dpc' = "check"
  /\ UNCHANGED <<deadLetter, row, attempts, doneKey, lockKey, accepted,
                 ctxLive, held, jobs, wpc, wjob, timer, repush, waiter, ret, runs, restarts>>

\* select, first case.
DispatchSend ==
  /\ dpc = "send"
  /\ Len(jobs) < ChanCap
  /\ jobs' = Append(jobs, held)
  /\ held' = NoCopy
  /\ dpc' = "check"
  /\ UNCHANGED <<storeVars, ctxLive, wpc, wjob, timer, repush, waiter, ret, runs, restarts>>

\* Mutant: the popped job is requeued and the select is entered again.
DispatchRequeueKeeps ==
  /\ dpc = "send"
  /\ ~ctxLive
  /\ Push(held)
  /\ UNCHANGED <<deadLetter, row, attempts, doneKey, lockKey, accepted, faults, dpc, held,
                 ctxLive, jobs, wpc, wjob, timer, repush, waiter, ret, runs, restarts>>

\* select, second case: the push has a background context and its error is dropped.
DispatchRequeue ==
  /\ dpc = "send"
  /\ ~ctxLive
  /\ \E ok \in BOOLEAN :
       /\ Call("redis", TRUE, ok)
       /\ Push(held) \/ (~ok /\ UNCHANGED queue)
  /\ held' = NoCopy
  /\ dpc' = "exited"
  /\ UNCHANGED <<deadLetter, row, attempts, doneKey, lockKey, accepted,
                 ctxLive, jobs, wpc, wjob, timer, repush, waiter, ret, runs, restarts>>

Dispatcher ==
  \/ DispatchCheck
  \/ \E p \in Priorities : DispatchPop(p) \/ DispatchPopError(p)
  \/ DispatchNoJob
  \/ DispatchSend
  \/ DispatchRequeue

-----------------------------------------------------------------------------
(***************************************************************************)
(* worker and process.                                                     *)
(***************************************************************************)
Registered(j) == TypeOf[j] \in Registry

\* A worker between SetNX and the deferred Del.
InLock(w) ==
  \/ wpc[w] \in LockedPC
  \/ wpc[w] \in DeadLetterPC /\ Registered(wjob[w].id)

\* process returns without a deferred Del.
Return(w) ==
  /\ wpc' = [wpc EXCEPT ![w] = "idle"]
  /\ wjob' = [wjob EXCEPT ![w] = NoCopy]

Goto(w, pc) == wpc' = [wpc EXCEPT ![w] = pc] /\ UNCHANGED wjob

WorkerReceive(w) ==
  /\ wpc[w] = "idle"
  /\ jobs # <<>>
  /\ jobs' = Tail(jobs)
  /\ wjob' = [wjob EXCEPT ![w] = Head(jobs)]
  /\ wpc' = [wpc EXCEPT ![w] = IF Registered(Head(jobs).id) THEN "getDone" ELSE "dlUpdate"]
  /\ UNCHANGED <<storeVars, ctxLive, dpc, held, timer, repush, waiter, ret, runs, restarts>>

WorkerExit(w) ==
  /\ wpc[w] = "idle"
  /\ closed /\ jobs = <<>>
  /\ Goto(w, "exited")
  /\ UNCHANGED <<storeVars, ctxLive, dpc, held, jobs, timer, repush, waiter, ret, runs, restarts>>

\* A failed Get reads as "not done".
WorkerGetDone(w) ==
  /\ wpc[w] = "getDone"
  /\ \E ok \in BOOLEAN :
       /\ Call("redis", ctxLive, ok)
       /\ IF ok /\ wjob[w].id \in doneKey THEN Return(w) ELSE Goto(w, "setLock")
  /\ UNCHANGED <<queue, deadLetter, row, attempts, doneKey, lockKey, accepted,
                 ctxLive, dpc, held, jobs, timer, repush, waiter, ret, runs, restarts>>

\* Mutant: the result of SetNX is ignored.
WorkerSetLockAnyway(w) ==
  /\ wpc[w] = "setLock"
  /\ \E ok \in BOOLEAN :
       /\ Call("redis", ctxLive, ok)
       /\ lockKey' = IF ok THEN lockKey \cup {wjob[w].id} ELSE lockKey
  /\ Goto(w, "mark")
  /\ UNCHANGED <<queue, deadLetter, row, attempts, doneKey, accepted,
                 ctxLive, dpc, held, jobs, timer, repush, waiter, ret, runs, restarts>>

\* A failed SetNX reads as "locked by another worker"; when only its reply was
\* lost the key exists although nobody owns it.
WorkerSetLock(w) ==
  /\ wpc[w] = "setLock"
  /\ \E ok \in BOOLEAN :
       /\ Call("redis", ctxLive, ok)
       /\ IF ok /\ wjob[w].id \notin lockKey
          THEN /\ lockKey' = lockKey \cup {wjob[w].id}
               /\ Goto(w, "mark")
          ELSE /\ \/ UNCHANGED lockKey
                  \/ ~ok /\ ctxLive /\ lockKey' = lockKey \cup {wjob[w].id}
               /\ Return(w)
  /\ UNCHANGED <<queue, deadLetter, row, attempts, doneKey, accepted,
                 ctxLive, dpc, held, jobs, timer, repush, waiter, ret, runs, restarts>>

\* Update whose error is only logged or dropped, then go on.  A write that
\* reports an error may have taken effect: its reply was lost, or the context
\* was cancelled while it was in flight.
UpdateThen(w, c, status, pc) ==
  /\ \E ok \in BOOLEAN :
       /\ Call("db", ctxLive, ok)
       /\ Update(c, status) \/ (~ok /\ UNCHANGED row)
  /\ wpc' = [wpc EXCEPT ![w] = pc]
  /\ wjob' = [wjob EXCEPT ![w] = c]
  /\ UNCHANGED <<queue, deadLetter, attempts, doneKey, lockKey, accepted,
                 ctxLive, dpc, held, jobs, timer, repush, waiter, ret, runs, restarts>>

WorkerMark(w) == wpc[w] = "mark" /\ UpdateThen(w, wjob[w], "PROCESSING", "run")

\* Mutant: the marker is set before the row is written.
WorkerRunMarkFirst(w) ==
  /\ wpc[w] = "run"
  /\ runs' = [runs EXCEPT ![wjob[w].id] = @ + 1]
  /\ Goto(w, "succDone") \/ Goto(w, "attemptDead") \/ (CanRetry(wjob[w]) /\ Goto(w, "attemptRetry"))
  /\ UNCHANGED <<storeVars, ctxLive, dpc, held, jobs, timer, repush, waiter, ret, restarts>>

\* Process returns nil, a non-retryable error or any other error; which of the
\* two failure paths follows is fixed by the error and by the retry budget.
WorkerRun(w) ==
  /\ wpc[w] = "run"
  /\ runs' = [runs EXCEPT ![wjob[w].id] = @ + 1]
  /\ \/ Goto(w, "succUpdate")
     \/ Goto(w, "attemptDead")
     \/ CanRetry(wjob[w]) /\ Goto(w, "attemptRetry")
  /\ UNCHANGED <<storeVars, ctxLive, dpc, held, jobs, timer, repush, waiter, ret, restarts>>

\* Mutant: the success path runs on into the failure path.
WorkerSuccessFallsThrough(w) == wpc[w] = "succUpdate" /\ UpdateThen(w, wjob[w], "SUCCESS", "attemptDead")

WorkerSuccess(w) == wpc[w] = "succUpdate" /\ UpdateThen(w, wjob[w], "SUCCESS", "succDone")

\* Set(job:done:<id>) whose error is dropped.  The Redis client looks at the
\* context before it sends a command, not while it waits for the reply.
SetDone(w) ==
  \E ok \in BOOLEAN :
    /\ Call("redis", ctxLive, ok)
    /\ \/ ctxLive /\ doneKey' = doneKey \cup {wjob[w].id}
       \/ ~ok /\ UNCHANGED doneKey

WorkerSuccessDone(w) ==
  /\ wpc[w] = "succDone"
  /\ SetDone(w)
  /\ Goto(w, "succAttempt")
  /\ UNCHANGED <<queue, deadLetter, row, attempts, lockKey, accepted,
                 ctxLive, dpc, held, jobs, timer, repush, waiter, ret, runs, restarts>>

\* Mutant: no return at the end of the success path.
AttemptNextNoReturn(pc) ==
  CASE pc = "succAttempt" -> "attemptDead"
    [] pc = "attemptDead" -> "dlUpdate"
    [] pc = "attemptRetry" -> "retryUpdate"

AttemptNext(pc) ==
  CASE pc = "succAttempt" -> "unlock"
    [] pc = "attemptDead" -> "dlUpdate"
    [] pc = "attemptRetry" -> "retryUpdate"

WorkerAttempt(w) ==
  /\ wpc[w] \in {"succAttempt", "attemptDead", "attemptRetry"}
  /\ \E ok \in BOOLEAN :
       /\ Call("db", ctxLive, ok)
       /\ AddAttempt(wjob[w]) \/ (~ok /\ UNCHANGED attempts)
  /\ Goto(w, AttemptNext(wpc[w]))
  /\ UNCHANGED <<queue, deadLetter, row, doneKey, lockKey, accepted,
                 ctxLive, dpc, held, jobs, timer, repush, waiter, ret, runs, restarts>>

\* Mutant: the dead-lettered row gets the status FAILED.
WorkerDeadLetterFailed(w) == wpc[w] = "dlUpdate" /\ UpdateThen(w, wjob[w], "FAILED", "dlPush")

WorkerDeadLetter(w) == wpc[w] = "dlUpdate" /\ UpdateThen(w, wjob[w], "DEAD_LETTER", "dlPush")

WorkerDeadLetterPush(w) ==
  /\ wpc[w] = "dlPush"
  /\ \E ok \in BOOLEAN :
       /\ Call("redis", ctxLive, ok)
       /\ \/ ctxLive /\ PushDeadLetter(wjob[w])
          \/ ~ok /\ UNCHANGED deadLetter
  /\ Goto(w, "dlDone")
  /\ UNCHANGED <<queue, row, attempts, doneKey, lockKey, accepted,
                 ctxLive, dpc, held, jobs, timer, repush, waiter, ret, runs, restarts>>

WorkerDeadLetterDone(w) ==
  /\ wpc[w] = "dlDone"
  /\ SetDone(w)
  /\ IF Registered(wjob[w].id) THEN Goto(w, "unlock") ELSE Return(w)
  /\ UNCHANGED <<queue, deadLetter, row, attempts, lockKey, accepted,
                 ctxLive, dpc, held, jobs, timer, repush, waiter, ret, runs, restarts>>

\* Mutant: RetryCount is not incremented.
WorkerRetryUncounted(w) == wpc[w] = "retryUpdate" /\ UpdateThen(w, wjob[w], "QUEUED", "spawn")

WorkerRetry(w) ==
  /\ wpc[w] = "retryUpdate"
  /\ UpdateThen(w, [wjob[w] EXCEPT !.retry = @ + 1], "QUEUED", "spawn")

\* Mutant: the goroutine that requeues the job is not started.
WorkerSpawnNothing(w) ==
  /\ wpc[w] = "spawn"
  /\ Goto(w, "unlock")
  /\ UNCHANGED <<storeVars, ctxLive, dpc, held, jobs, timer, repush, waiter, ret, runs, restarts>>

\* retryWG.Add(1); go p.requeueAfter(...)
WorkerSpawn(w) ==
  /\ wpc[w] = "spawn"
  /\ timer' = [timer EXCEPT ![wjob[w]] = @ + 1]
  /\ Goto(w, "unlock")
  /\ UNCHANGED <<storeVars, ctxLive, dpc, held, jobs, repush, waiter, ret, runs, restarts>>

\* The deferred Del uses the pool's context and does not look at the owner.
WorkerUnlock(w) ==
  /\ wpc[w] = "unlock"
  /\ \E ok \in BOOLEAN :
       /\ Call("redis", ctxLive, ok)
       /\ \/ ctxLive /\ lockKey' = lockKey \ {wjob[w].id}
          \/ ~ok /\ UNCHANGED lockKey
  /\ Return(w)
  /\ UNCHANGED <<queue, deadLetter, row, attempts, doneKey, accepted,
                 ctxLive, dpc, held, jobs, timer, repush, waiter, ret, runs, restarts>>

Worker(w) ==
  \/ WorkerReceive(w) \/ WorkerExit(w)
  \/ WorkerGetDone(w) \/ WorkerSetLock(w) \/ WorkerMark(w) \/ WorkerRun(w)
  \/ WorkerSuccess(w) \/ WorkerSuccessDone(w) \/ WorkerAttempt(w)
  \/ WorkerDeadLetter(w) \/ WorkerDeadLetterPush(w) \/ WorkerDeadLetterDone(w)
  \/ WorkerRetry(w) \/ WorkerSpawn(w) \/ WorkerUnlock(w)

-----------------------------------------------------------------------------
(***************************************************************************)
(* requeueAfter: one goroutine per delayed retry.                          *)
(***************************************************************************)

\* The jittered delay lies in [0, base * 2^(n-1)].  Unless the environment has
\* "shortBackoff" it outlives the deferred unlock of the worker that chose it.
DelayElapsed(c) ==
  "shortBackoff" \in Env \/ \A w \in Workers : wpc[w] = "unlock" => wjob[w].id # c.id

\* select, first case: Push(ctx); an error, with or without effect, leads to
\* the second Push.
RetryTimer(c) ==
  /\ timer[c] > 0
  /\ DelayElapsed(c)
  /\ timer' = [timer EXCEPT ![c] = @ - 1]
  /\ \E ok \in BOOLEAN :
       /\ Call("redis", ctxLive, ok)
       /\ \/ ok /\ Push(c) /\ UNCHANGED repush
          \/ /\ ~ok
             /\ repush' = [repush EXCEPT ![c] = @ + 1]
             /\ UNCHANGED queue \/ (ctxLive /\ Push(c))
  /\ UNCHANGED <<deadLetter, row, attempts, doneKey, lockKey, accepted,
                 ctxLive, dpc, held, jobs, wpc, wjob, waiter, ret, runs, restarts>>

\* Push(context.Background()) whose error is dropped.
BackgroundPush(c) ==
  \E ok \in BOOLEAN :
    /\ Call("redis", TRUE, ok)
    /\ Push(c) \/ (~ok /\ UNCHANGED queue)

\* Mutant: when the second Push fails another retry goroutine is started.
RetryAgainRearms(c) ==
  /\ repush[c] > 0
  /\ repush' = [repush EXCEPT ![c] = @ - 1]
  /\ \E ok \in BOOLEAN :
       /\ Call("redis", TRUE, ok)
       /\ \/ ok /\ Push(c) /\ UNCHANGED timer
          \/ ~ok /\ UNCHANGED queue /\ timer' = [timer EXCEPT ![c] = @ + 1]
  /\ UNCHANGED <<deadLetter, row, attempts, doneKey, lockKey, accepted,
                 ctxLive, dpc, held, jobs, wpc, wjob, waiter, ret, runs, restarts>>

RetryAgain(c) ==
  /\ repush[c] > 0
  /\ repush' = [repush EXCEPT ![c] = @ - 1]
  /\ BackgroundPush(c)
  /\ UNCHANGED <<deadLetter, row, attempts, doneKey, lockKey, accepted,
                 ctxLive, dpc, held, jobs, wpc, wjob, timer, waiter, ret, runs, restarts>>

\* select, second case.
RetryCancelled(c) ==
  /\ timer[c] > 0
  /\ ~ctxLive
  /\ timer' = [timer EXCEPT ![c] = @ - 1]
  /\ BackgroundPush(c)
  /\ UNCHANGED <<deadLetter, row, attempts, doneKey, lockKey, accepted,
                 ctxLive, dpc, held, jobs, wpc, wjob, repush, waiter, ret, runs, restarts>>

Retry(c) == RetryTimer(c) \/ RetryAgain(c) \/ RetryCancelled(c)

-----------------------------------------------------------------------------
(***************************************************************************)
(* Cancellation of the Start context, and Shutdown.                        *)
(***************************************************************************)
Cancel ==
  /\ ctxLive /\ "shutdown" \in Env
  /\ ctxLive' = FALSE
  /\ UNCHANGED <<storeVars, dpc, held, jobs, wpc, wjob, timer, repush, waiter, ret, runs, restarts>>

Shutdown ==
  /\ ~ctxLive /\ waiter = "none"
  /\ waiter' = "dispatcher"
  /\ UNCHANGED <<storeVars, ctxLive, dpc, held, jobs, wpc, wjob, timer, repush, ret, runs, restarts>>

\* Mutant: Shutdown does not wait for the workers.
ShutdownWaitNoWorkers ==
  /\ \/ /\ waiter = "dispatcher" /\ dpc = "exited"
        /\ waiter' = "retries"
     \/ /\ waiter = "retries" /\ \A c \in Copy : timer[c] = 0 /\ repush[c] = 0
        /\ waiter' = "drained"
  /\ UNCHANGED <<storeVars, ctxLive, dpc, held, jobs, wpc, wjob, timer, repush, ret, runs, restarts>>

\* dispatcherWG.Wait(), workers.Wait(), retryWG.Wait(), in this order.
ShutdownWait ==
  /\ \/ /\ waiter = "dispatcher" /\ dpc = "exited"
        /\ waiter' = "workers"
     \/ /\ waiter = "workers" /\ \A w \in Workers : wpc[w] = "exited"
        /\ waiter' = "retries"
     \/ /\ waiter = "retries" /\ \A c \in Copy : timer[c] = 0 /\ repush[c] = 0
        /\ waiter' = "drained"
  /\ UNCHANGED <<storeVars, ctxLive, dpc, held, jobs, wpc, wjob, timer, repush, ret, runs, restarts>>

ShutdownReturn ==
  /\ waiter # "none" /\ ret = "none"
  /\ ret' \in {"timeout"} \cup (IF waiter = "drained" THEN {"nil"} ELSE {})
  /\ UNCHANGED <<storeVars, ctxLive, dpc, held, jobs, wpc, wjob, timer, repush, waiter, runs, restarts>>

\* The process ends, after Shutdown or by a crash, and a new one calls Start.
\* The stores keep what they had.
Restart ==
  /\ ret # "none" \/ "crash" \in Env
  /\ restarts < MaxRestarts
  /\ restarts' = restarts + 1
  /\ ctxLive' = TRUE /\ dpc' = "check" /\ held' = NoCopy /\ jobs' = <<>>
  /\ wpc' = [w \in Workers |-> "idle"] /\ wjob' = [w \in Workers |-> NoCopy]
  /\ timer' = [c \in Copy |-> 0] /\ repush' = [c \in Copy |-> 0]
  /\ waiter' = "none" /\ ret' = "none"
  /\ UNCHANGED <<storeVars, runs>>

\* The TTL of a lock runs out.  Unless the environment has "slowJob" every job
\* ends within lockTTL, so only a lock nobody owns lives that long.
LockExpire(j) ==
  /\ j \in lockKey
  /\ "slowJob" \in Env \/ ~\E w \in Workers : InLock(w) /\ wjob[w].id = j
  /\ lockKey' = lockKey \ {j}
  /\ UNCHANGED <<queue, deadLetter, row, attempts, doneKey, accepted, faults, poolVars>>

PoolStep ==
  \/ Dispatcher
  \/ \E w \in Workers : Worker(w)
  \/ \E c \in Copy : Retry(c)
  \/ Cancel \/ Shutdown \/ ShutdownWait \/ ShutdownReturn
  \/ \E j \in Jobs : LockExpire(j)

\* Every goroutine keeps running; processors, timers and polls end.
PoolFairness ==
  /\ WF_<<storeVars, poolVars>>(Dispatcher)
  /\ \A w \in Workers : WF_<<storeVars, poolVars>>(Worker(w))
  /\ \A c \in Copy : WF_<<storeVars, poolVars>>(Retry(c))
  /\ WF_<<storeVars, poolVars>>(ShutdownWait)

-----------------------------------------------------------------------------
(***************************************************************************)
(* The pool alone: the rows exist, and Submit is the Push of Enqueue.      *)
(***************************************************************************)
Submit(j) ==
  /\ j \notin accepted
  /\ Push(NewJob(j))
  /\ accepted' = accepted \cup {j}
  /\ UNCHANGED <<deadLetter, row, attempts, doneKey, lockKey, faults, poolVars>>

vars == <<storeVars, poolVars>>

Init == StoresInit("QUEUED") /\ PoolInit

Next == PoolStep \/ Restart \/ \E j \in Jobs : Submit(j)

Spec == Init /\ [][Next]_vars

FairSpec == Spec /\ PoolFairness

-----------------------------------------------------------------------------
(***************************************************************************)
(* Properties.                                                             *)
(***************************************************************************)

\* Every variable has its type, a dispatcher that sends and a worker that
\* processes have a job, and the channel never exceeds its capacity.
TypeOK == StoresTypeOK /\ PoolTypeOK

\* The places that hold a copy of job j and will still act on it.  A worker
\* that only has to release its lock, or to record its success, is not one.
OnList(j, p) == {<<"queue", p, i>> : i \in {k \in DOMAIN queue[p] : queue[p][k].id = j}}
InChannel(j) == {<<"channel", i>> : i \in {k \in DOMAIN jobs : jobs[k].id = j}}
AtDispatcher(j) == IF held \in Copy /\ held.id = j THEN {<<"dispatcher">>} ELSE {}
WorksOn(w, j) == wpc[w] \notin {"idle", "exited", "succAttempt", "unlock"} /\ wjob[w].id = j
AtWorker(j) == {<<"worker", w>> : w \in {v \in Workers : WorksOn(v, j)}}
Sleeping(tag, j, t) == UNION {{<<tag, r, n>> : n \in 1..t[[id |-> j, retry |-> r]]} : r \in 0..MaxRetries}

PlacesOf(j) ==
  (UNION {OnList(j, p) : p \in Priorities}) \cup InChannel(j) \cup AtDispatcher(j) \cup AtWorker(j)
  \cup Sleeping("timer", j, timer) \cup Sleeping("repush", j, repush)

Copies(j) == Cardinality(PlacesOf(j)) + (IF j \in doneKey THEN 1 ELSE 0)

\* No call has failed and the pool was neither stopped nor killed.
Undisturbed == ctxLive /\ faults = 0 /\ restarts = 0

\* Until something fails an accepted job is in exactly one place: one list,
\* channel slot, worker or retry goroutine, until its job:done marker is set.
\* So no hand-over between them loses or doubles a job.
OnePlace == Undisturbed => \A j \in accepted : Copies(j) = 1

\* Only a Push that failed after taking effect (requeueAfter pushes again)
\* makes a second copy: crashes, shutdown and all other errors never do.
CopiesPerFault == \A j \in Jobs : Copies(j) <= 1 + faults

\* The same as a bound on the work done: every copy spends at most its own
\* retry budget.
RunBudget == \A j \in Jobs : runs[j] <= (MaxRetries + 1) * (1 + faults)

\* The lock keeps two workers from being inside process with the same job.
MutualExclusion ==
  \A v, w \in Workers : InLock(v) /\ InLock(w) /\ wjob[v].id = wjob[w].id => v = w

\* The comment in Shutdown: once it waits for the retries every worker has
\* returned, with nothing left in the channel, and a clean drain leaves no
\* goroutine behind.
ShutdownOrder ==
  /\ waiter \in {"workers", "retries", "drained"} => dpc = "exited"
  /\ waiter \in {"retries", "drained"} => /\ jobs = <<>>
                                          /\ \A w \in Workers : wpc[w] = "exited"
  /\ waiter = "drained" => \A c \in Copy : timer[c] = 0 /\ repush[c] = 0

\* "retryWG.Wait() never races with a concurrent Add".
NoAddDuringWait ==
  [][(waiter \in {"retries", "drained"} => \A c \in Copy : timer'[c] <= timer[c])]_vars

\* A job:done marker is only ever set for a job whose row is terminal: the
\* row is written first, and a crash or a cancellation between the two leaves
\* the marker unset.  (A failed Update with a live context is only logged.)
DoneIsTerminal == faults = 0 => \A j \in doneKey : Terminal(j)

\* A terminal row is never written again by the pool, across shutdowns,
\* crashes and retries, while no call fails.
TerminalStays == [][(faults' = 0 => \A j \in Jobs : Terminal(j) => row'[j] = row[j])]_vars

\* A finished job was either a success or has exactly one entry in the
\* dead-letter list, and the list holds nothing else, although toDeadLetter
\* writes the row, the list and the marker one by one and may die between.
DeadLetterMatches ==
  faults = 0 => \A j \in Jobs :
    LET entries == {i \in DOMAIN deadLetter : deadLetter[i].id = j}
    IN  /\ j \in doneKey => Cardinality(entries) = IF row[j].status = "DEAD_LETTER" THEN 1 ELSE 0
        /\ entries # {} => row[j].status = "DEAD_LETTER"

\* An accepted job that is not terminal still has a copy somewhere.
NotLost == \A j \in accepted : Terminal(j) \/ PlacesOf(j) # {}

\* The same, asked only when Shutdown has drained the pool cleanly.
DrainKeepsJobs == waiter = "drained" => NotLost

\* Unless something fails every accepted job reaches SUCCESS or DEAD_LETTER,
\* is marked done and leaves no lock behind.
AllFinish ==
  \A j \in Jobs :
    j \in accepted ~> (Terminal(j) /\ j \in doneKey /\ j \notin lockKey) \/ ~Undisturbed

\* Shutdown always drains, although every call of a worker fails once the
\* context is cancelled: nobody waits for ever on a full channel, a closed
\* channel or a timer.
ShutdownDrains == waiter = "dispatcher" ~> waiter = "drained"
=============================================================================
