--------------------------- MODULE ServiceProofs ----------------------------
(***************************************************************************)
(* Theorems about the two services, each by itself.  The worker pool, for  *)
(* every set of jobs and workers, every retry limit and every environment  *)
(* the statement allows; then the idempotency of Enqueue, for every number *)
(* of requests and keys and every sequence of faults and disconnects.      *)
(***************************************************************************)
EXTENDS WorkerPool, GatewayService, TLAPS

(***************************************************************************)
(* A worker on the retry path has budget left.  TypeOK needs it: the copy  *)
(* that goes back to the queue must still have a retry count within        *)
(* MaxRetries.                                                             *)
(***************************************************************************)
BudgetLeft ==
  \A w \in Workers : wpc[w] \in {"attemptRetry", "retryUpdate"} => CanRetry(wjob[w])

TypeInv == TypeOK /\ BudgetLeft

-----------------------------------------------------------------------------
(***************************************************************************)
(* The calls on the stores keep the stores well typed.                     *)
(***************************************************************************)

\* What is left of a list when its head is taken.
LEMMA HeadTail ==
  ASSUME NEW S, NEW s \in Seq(S), s # <<>>
  PROVE  /\ Head(s) \in S /\ Tail(s) \in Seq(S)
         /\ Len(s) \in Nat /\ Len(Tail(s)) = Len(s) - 1
         /\ \A i \in 1..Len(Tail(s)) : Tail(s)[i] = s[i + 1]
OBVIOUS

\* A call leaves the fault counter within its bound.
LEMMA CallType ==
  ASSUME faults \in 0..MaxFaults, NEW store, NEW live, NEW ok, Call(store, live, ok)
  PROVE  faults' \in 0..MaxFaults
BY StoresAssumption DEF Call

\* Push adds a copy to the list of its priority.
LEMMA PushType ==
  ASSUME queue \in [Priorities -> Seq(Copy)], NEW c \in Copy, Push(c)
  PROVE  queue' \in [Priorities -> Seq(Copy)]
<1>1. keyForPriority(c) \in Priorities
  BY Zenon DEF keyForPriority, PriorityForType, Priorities
<1>2. Append(queue[keyForPriority(c)], c) \in Seq(Copy)
  BY <1>1
<1>. QED  BY <1>1, <1>2, Zenon DEF Push

\* Popping a served list yields a copy.
LEMMA PopType ==
  ASSUME queue \in [Priorities -> Seq(Copy)], NEW p \in Priorities, Served(p)
  PROVE  /\ Head(queue[p]) \in Copy
         /\ [queue EXCEPT ![p] = Tail(@)] \in [Priorities -> Seq(Copy)]
<1>1. queue[p] \in Seq(Copy) /\ queue[p] # <<>>
  BY Zenon DEF Served
<1>2. Head(queue[p]) \in Copy /\ Tail(queue[p]) \in Seq(Copy)
  BY <1>1, HeadTail, Zenon
<1>. QED  BY <1>2, Zenon

\* Update writes a well-formed row.
LEMMA UpdateType ==
  ASSUME row \in [Jobs -> Row], NEW c \in Copy, NEW s \in JobStatus, Update(c, s)
  PROVE  row' \in [Jobs -> Row]
<1>1. c.id \in Jobs /\ c.retry \in 0..MaxRetries
  BY Zenon DEF Copy
<1>2. [status |-> s, retry |-> c.retry] \in Row
  BY <1>1, Zenon DEF Row
<1>. QED  BY <1>1, <1>2, Zenon DEF Update

\* ChanCap is a natural number.
LEMMA ChanCapType == ChanCap \in Nat
BY PoolAssumption DEF ChanCap

-----------------------------------------------------------------------------
\* The initial state is well typed.
LEMMA InitTypeInv == Init => TypeInv
<1>. SUFFICES ASSUME Init PROVE TypeInv
  BY Zenon
<1>1. StoresTypeOK
  BY StoresAssumption DEF Init, StoresInit, StoresTypeOK, Row, JobStatus
<1>2. PoolTypeOK
  BY StoresAssumption, PoolAssumption, ChanCapType
  DEF Init, PoolInit, PoolTypeOK, DispatcherPC, WorkerPC
<1>3. BudgetLeft
  BY ZenonT(40) DEF Init, PoolInit, BudgetLeft
<1>. QED  BY <1>1, <1>2, <1>3, Zenon DEF TypeInv, TypeOK

\* Every step keeps the type invariant: one lemma for the dispatcher, one for
\* the workers, one for the rest.
LEMMA DispatcherTypeInv ==
  ASSUME TypeInv, Dispatcher PROVE TypeInv'
<1>. USE DEF TypeInv, TypeOK, StoresTypeOK, PoolTypeOK, BudgetLeft, DispatcherPC
<1>1. CASE DispatchCheck
  BY <1>1, Zenon DEF DispatchCheck, storeVars
<1>2. ASSUME NEW p \in Priorities, DispatchPop(p) PROVE TypeInv'
  <2>1. Head(queue[p]) \in Copy /\ queue' \in [Priorities -> Seq(Copy)]
    BY <1>2, PopType, Zenon DEF DispatchPop
  <2>. QED  BY <1>2, <2>1, Zenon DEF DispatchPop
<1>3. CASE DispatchNoJob
  BY <1>3, Zenon DEF DispatchNoJob, storeVars
<1>4. ASSUME NEW p \in Priorities, DispatchPopError(p) PROVE TypeInv'
  <2>1. faults' \in 0..MaxFaults
    BY <1>4, CallType, Zenon DEF DispatchPopError
  <2>2. queue' \in [Priorities -> Seq(Copy)]
    BY <1>4, PopType, Zenon DEF DispatchPopError
  <2>. QED  BY <1>4, <2>1, <2>2, Zenon DEF DispatchPopError
<1>5. CASE DispatchSend
  <2>1. jobs' \in Seq(Copy) /\ Len(jobs') <= ChanCap
    BY <1>5, ChanCapType DEF DispatchSend
  <2>. QED  BY <1>5, <2>1, Zenon DEF DispatchSend, storeVars
<1>6. CASE DispatchRequeue
  <2>1. faults' \in 0..MaxFaults
    BY <1>6, CallType, Zenon DEF DispatchRequeue
  <2>2. queue' \in [Priorities -> Seq(Copy)]
    BY <1>6, PushType, Zenon DEF DispatchRequeue
  <2>. QED  BY <1>6, <2>1, <2>2, Zenon DEF DispatchRequeue
<1>. QED  BY <1>1, <1>2, <1>3, <1>4, <1>5, <1>6, Zenon DEF Dispatcher

\* What Return and Goto do to the two worker variables.
LEMMA GotoType ==
  ASSUME TypeInv, NEW w \in Workers, NEW pc \in WorkerPC, Goto(w, pc),
         wpc[w] \notin {"idle", "exited"} \/ pc \in {"idle", "exited"},
         pc \in {"attemptRetry", "retryUpdate"} => CanRetry(wjob[w])
  PROVE  /\ wpc' \in [Workers -> WorkerPC]
         /\ wjob' \in [Workers -> Copy \cup {NoCopy}]
         /\ \A v \in Workers : wpc'[v] \notin {"idle", "exited"} => wjob'[v] \in Copy
         /\ BudgetLeft'
BY Zenon DEF TypeInv, TypeOK, PoolTypeOK, Goto, BudgetLeft, CanRetry

\* process returns: the worker is idle and holds no job.
LEMMA ReturnType ==
  ASSUME TypeInv, NEW w \in Workers, Return(w)
  PROVE  /\ wpc' \in [Workers -> WorkerPC]
         /\ wjob' \in [Workers -> Copy \cup {NoCopy}]
         /\ \A v \in Workers : wpc'[v] \notin {"idle", "exited"} => wjob'[v] \in Copy
         /\ BudgetLeft'
BY Zenon DEF TypeInv, TypeOK, PoolTypeOK, Return, BudgetLeft, CanRetry, WorkerPC

\* UpdateThen stores the copy it is given.
LEMMA UpdateThenType ==
  ASSUME TypeInv, NEW w \in Workers, NEW c \in Copy, NEW s \in JobStatus,
         NEW pc \in WorkerPC \ {"attemptRetry", "retryUpdate"}, UpdateThen(w, c, s, pc)
  PROVE  TypeInv'
<1>1. faults' \in 0..MaxFaults
  BY CallType, Zenon DEF UpdateThen, TypeInv, TypeOK, StoresTypeOK
<1>2. row' \in [Jobs -> Row]
  BY UpdateType, Zenon DEF UpdateThen, TypeInv, TypeOK, StoresTypeOK
<1>3. StoresTypeOK'
  BY <1>1, <1>2, Zenon DEF UpdateThen, TypeInv, TypeOK, StoresTypeOK
<1>4. PoolTypeOK'
  BY Zenon DEF UpdateThen, TypeInv, TypeOK, PoolTypeOK
<1>5. BudgetLeft'
  BY Zenon DEF UpdateThen, TypeInv, TypeOK, PoolTypeOK, BudgetLeft, CanRetry
<1>. QED  BY <1>3, <1>4, <1>5, Zenon DEF TypeInv, TypeOK

\* Every step of a worker keeps the types and the retry budget.
LEMMA WorkerTypeInv ==
  ASSUME TypeInv, NEW w \in Workers, Worker(w) PROVE TypeInv'
<1>0. /\ \A pc \in {"idle", "exited", "getDone", "setLock", "mark", "run", "succUpdate", "succDone",
                    "succAttempt", "attemptDead", "attemptRetry", "retryUpdate", "spawn", "unlock",
                    "dlUpdate", "dlPush", "dlDone"} : pc \in WorkerPC
      /\ wpc[w] \notin {"idle", "exited"} => wjob[w] \in Copy
      /\ wjob[w] \in Copy => wjob[w].id \in Jobs
  BY Zenon DEF WorkerPC, LockedPC, DeadLetterPC, TypeInv, TypeOK, PoolTypeOK, Copy
<1>1. CASE WorkerReceive(w)
  <2>1. Head(jobs) \in Copy /\ Tail(jobs) \in Seq(Copy) /\ Len(Tail(jobs)) <= ChanCap
    BY <1>1, HeadTail, ChanCapType DEF WorkerReceive, TypeInv, TypeOK, PoolTypeOK
  <2>2. StoresTypeOK'
    BY <1>1, Zenon DEF WorkerReceive, storeVars, TypeInv, TypeOK, StoresTypeOK
  <2>3. PoolTypeOK'
    BY <1>1, <1>0, <2>1, Zenon DEF WorkerReceive, TypeInv, TypeOK, PoolTypeOK
  <2>4. BudgetLeft'
    BY <1>1, Zenon DEF WorkerReceive, TypeInv, TypeOK, PoolTypeOK, BudgetLeft, CanRetry
  <2>. QED  BY <2>2, <2>3, <2>4, Zenon DEF TypeInv, TypeOK
<1>2. CASE WorkerExit(w)
  BY <1>2, <1>0, GotoType, Zenon DEF WorkerExit, storeVars, TypeInv, TypeOK, StoresTypeOK, PoolTypeOK
<1>3. CASE WorkerGetDone(w)
  <2>1. faults' \in 0..MaxFaults
    BY <1>3, CallType, Zenon DEF WorkerGetDone, TypeInv, TypeOK, StoresTypeOK
  <2>2. Return(w) \/ Goto(w, "setLock")
    BY <1>3, Zenon DEF WorkerGetDone
  <2>. QED  BY <1>3, <1>0, <2>1, <2>2, GotoType, ReturnType, ZenonT(40)
            DEF WorkerGetDone, TypeInv, TypeOK, StoresTypeOK, PoolTypeOK
<1>4. CASE WorkerSetLock(w)
  <2>1. faults' \in 0..MaxFaults
    BY <1>4, CallType, Zenon DEF WorkerSetLock, TypeInv, TypeOK, StoresTypeOK
  <2>2. Return(w) \/ Goto(w, "mark")
    BY <1>4, Zenon DEF WorkerSetLock
  <2>3. lockKey' \in SUBSET Jobs
    BY <1>4, <1>0, Zenon DEF WorkerSetLock, TypeInv, TypeOK, StoresTypeOK
  <2>. QED  BY <1>4, <1>0, <2>1, <2>2, <2>3, GotoType, ReturnType, Zenon
            DEF WorkerSetLock, TypeInv, TypeOK, StoresTypeOK, PoolTypeOK
<1>5. CASE WorkerMark(w)
  BY <1>5, <1>0, UpdateThenType, Zenon DEF WorkerMark, JobStatus
<1>6. CASE WorkerRun(w)
  <2>1. runs' \in [Jobs -> Nat]
    BY <1>6, <1>0 DEF WorkerRun, TypeInv, TypeOK, PoolTypeOK
  <2>2. \/ Goto(w, "succUpdate") \/ Goto(w, "attemptDead")
        \/ CanRetry(wjob[w]) /\ Goto(w, "attemptRetry")
    BY <1>6, Zenon DEF WorkerRun
  <2>. QED  BY <1>6, <1>0, <2>1, <2>2, GotoType, Zenon
            DEF WorkerRun, storeVars, TypeInv, TypeOK, StoresTypeOK, PoolTypeOK
<1>7. CASE WorkerSuccess(w)
  BY <1>7, <1>0, UpdateThenType, Zenon DEF WorkerSuccess, JobStatus
<1>8. CASE WorkerSuccessDone(w)
  <2>1. faults' \in 0..MaxFaults /\ doneKey' \in SUBSET Jobs
    BY <1>8, <1>0, CallType, Zenon DEF WorkerSuccessDone, SetDone, TypeInv, TypeOK, StoresTypeOK
  <2>. QED  BY <1>8, <1>0, <2>1, GotoType, Zenon
            DEF WorkerSuccessDone, TypeInv, TypeOK, StoresTypeOK, PoolTypeOK
<1>9. CASE WorkerAttempt(w)
  <2>1. faults' \in 0..MaxFaults
    BY <1>9, CallType, Zenon DEF WorkerAttempt, TypeInv, TypeOK, StoresTypeOK
  <2>2. attempts' \in [Jobs -> Nat]
    BY <1>9, <1>0 DEF WorkerAttempt, AddAttempt, TypeInv, TypeOK, StoresTypeOK
  <2>3. \/ Goto(w, "unlock") \/ Goto(w, "dlUpdate")
        \/ CanRetry(wjob[w]) /\ Goto(w, "retryUpdate")
    BY <1>9, Zenon DEF WorkerAttempt, AttemptNext, TypeInv, BudgetLeft
  <2>4. StoresTypeOK'
    BY <1>9, <2>1, <2>2, Zenon DEF WorkerAttempt, TypeInv, TypeOK, StoresTypeOK
  <2>5. /\ wpc' \in [Workers -> WorkerPC]
        /\ wjob' \in [Workers -> Copy \cup {NoCopy}]
        /\ \A v \in Workers : wpc'[v] \notin {"idle", "exited"} => wjob'[v] \in Copy
        /\ BudgetLeft'
    BY <1>9, <1>0, <2>3, GotoType, Zenon DEF WorkerAttempt
  <2>. QED  BY <1>9, <2>4, <2>5, Zenon DEF WorkerAttempt, TypeInv, TypeOK, PoolTypeOK
<1>10. CASE WorkerDeadLetter(w)
  BY <1>10, <1>0, UpdateThenType, Zenon DEF WorkerDeadLetter, JobStatus
<1>11. CASE WorkerDeadLetterPush(w)
  <2>1. faults' \in 0..MaxFaults
    BY <1>11, CallType, Zenon DEF WorkerDeadLetterPush, TypeInv, TypeOK, StoresTypeOK
  <2>2. deadLetter' \in Seq(Copy)
    <3>1. deadLetter' = Append(deadLetter, wjob[w]) \/ deadLetter' = deadLetter
      BY <1>11, Zenon DEF WorkerDeadLetterPush, PushDeadLetter
    <3>2. wjob[w] \in Copy /\ deadLetter \in Seq(Copy)
      BY <1>11, <1>0, Zenon DEF WorkerDeadLetterPush, TypeInv, TypeOK, StoresTypeOK
    <3>. QED  BY <3>1, <3>2
  <2>. QED  BY <1>11, <1>0, <2>1, <2>2, GotoType, Zenon
            DEF WorkerDeadLetterPush, TypeInv, TypeOK, StoresTypeOK, PoolTypeOK
<1>12. CASE WorkerDeadLetterDone(w)
  <2>1. faults' \in 0..MaxFaults /\ doneKey' \in SUBSET Jobs
    BY <1>12, <1>0, CallType, Zenon DEF WorkerDeadLetterDone, SetDone, TypeInv, TypeOK, StoresTypeOK
  <2>2. Return(w) \/ Goto(w, "unlock")
    BY <1>12, Zenon DEF WorkerDeadLetterDone
  <2>. QED  BY <1>12, <1>0, <2>1, <2>2, GotoType, ReturnType, Zenon
            DEF WorkerDeadLetterDone, TypeInv, TypeOK, StoresTypeOK, PoolTypeOK
<1>13. CASE WorkerRetry(w)
  <2>1. [wjob[w] EXCEPT !.retry = @ + 1] \in Copy
    BY <1>13, <1>0, StoresAssumption DEF WorkerRetry, TypeInv, BudgetLeft, CanRetry, Copy
  <2>. QED  BY <1>13, <1>0, <2>1, UpdateThenType DEF WorkerRetry, JobStatus
<1>14. CASE WorkerSpawn(w)
  <2>1. timer' \in [Copy -> Nat]
    BY <1>14, <1>0 DEF WorkerSpawn, TypeInv, TypeOK, PoolTypeOK
  <2>. QED  BY <1>14, <1>0, <2>1, GotoType, Zenon
            DEF WorkerSpawn, storeVars, TypeInv, TypeOK, StoresTypeOK, PoolTypeOK
<1>15. CASE WorkerUnlock(w)
  <2>1. faults' \in 0..MaxFaults /\ lockKey' \in SUBSET Jobs
    BY <1>15, CallType, Zenon DEF WorkerUnlock, TypeInv, TypeOK, StoresTypeOK
  <2>. QED  BY <1>15, <2>1, ReturnType, Zenon
            DEF WorkerUnlock, TypeInv, TypeOK, StoresTypeOK, PoolTypeOK
<1>. QED
  BY <1>1, <1>2, <1>3, <1>4, <1>5, <1>6, <1>7, <1>8, <1>9, <1>10, <1>11, <1>12, <1>13, <1>14, <1>15, Zenon
  DEF Worker
\* The retry goroutines.
LEMMA RetryTypeInv ==
  ASSUME TypeInv, NEW c \in Copy, Retry(c) PROVE TypeInv'
<1>. USE DEF TypeInv, TypeOK, StoresTypeOK, PoolTypeOK, BudgetLeft
<1>1. CASE RetryTimer(c)
  <2>1. faults' \in 0..MaxFaults
    BY <1>1, CallType, Zenon DEF RetryTimer
  <2>2. queue' \in [Priorities -> Seq(Copy)]
    BY <1>1, PushType, Zenon DEF RetryTimer
  <2>3. timer' \in [Copy -> Nat] /\ repush' \in [Copy -> Nat]
    BY <1>1 DEF RetryTimer
  <2>. QED  BY <1>1, <2>1, <2>2, <2>3, Zenon DEF RetryTimer
<1>2. ASSUME BackgroundPush(c)
      PROVE  faults' \in 0..MaxFaults /\ queue' \in [Priorities -> Seq(Copy)]
  BY <1>2, CallType, PushType, Zenon DEF BackgroundPush
<1>3. CASE RetryAgain(c)
  <2>1. repush' \in [Copy -> Nat]
    BY <1>3 DEF RetryAgain
  <2>. QED  BY <1>2, <1>3, <2>1, Zenon DEF RetryAgain
<1>4. CASE RetryCancelled(c)
  <2>1. timer' \in [Copy -> Nat]
    BY <1>4 DEF RetryCancelled
  <2>. QED  BY <1>2, <1>4, <2>1, Zenon DEF RetryCancelled
<1>. QED  BY <1>1, <1>3, <1>4, Zenon DEF Retry

\* Every step of the pool alone keeps the type invariant.
LEMMA NextTypeInv == TypeInv /\ [Next]_vars => TypeInv'
<1>. SUFFICES ASSUME TypeInv, [Next]_vars PROVE TypeInv'
  BY Zenon
<1>. USE DEF TypeInv, TypeOK, StoresTypeOK, PoolTypeOK, BudgetLeft
<1>1. CASE Cancel
  BY <1>1, Zenon DEF Cancel, storeVars
<1>2. CASE Shutdown
  BY <1>2, Zenon DEF Shutdown, storeVars
<1>3. CASE ShutdownWait
  BY <1>3, Zenon DEF ShutdownWait, storeVars
<1>4. CASE ShutdownReturn
  BY <1>4, Zenon DEF ShutdownReturn, storeVars
<1>5. CASE Restart
  BY <1>5, PoolAssumption, ChanCapType DEF Restart, storeVars, DispatcherPC, WorkerPC
<1>6. ASSUME NEW j \in Jobs, LockExpire(j) PROVE TypeInv'
  BY <1>6, Zenon DEF LockExpire, poolVars, localVars
<1>7. ASSUME NEW j \in Jobs, Submit(j) PROVE TypeInv'
  <2>1. NewJob(j) \in Copy
    BY StoresAssumption DEF NewJob, Copy
  <2>2. queue' \in [Priorities -> Seq(Copy)]
    BY <1>7, <2>1, PushType, Zenon DEF Submit
  <2>. QED  BY <1>7, <2>2, Zenon DEF Submit, poolVars, localVars
<1>8. CASE UNCHANGED vars
  BY <1>8, Zenon DEF vars, storeVars, poolVars, localVars
<1>. QED
  BY <1>1, <1>2, <1>3, <1>4, <1>5, <1>6, <1>7, <1>8, Zenon,
     DispatcherTypeInv, WorkerTypeInv, RetryTypeInv
  DEF Next, PoolStep

\* Every behaviour of the pool is well typed.  As a Copy has a retry count of
\* at most MaxRetries this includes the retry budget of pool.go: no copy in
\* any list, channel, worker or retry goroutine, and no row, ever exceeds it.
THEOREM TypeCorrect == Spec => []TypeOK
<1>1. Spec => []TypeInv
  BY InitTypeInv, NextTypeInv, PTL DEF Spec
<1>. QED  BY <1>1, PTL DEF TypeInv
-----------------------------------------------------------------------------
(***************************************************************************)
(* Mutual exclusion.  The invariant that is inductive says who owns the    *)
(* lock: a worker between SetNX and Del has its job's key in Redis, so no  *)
(* other SetNX for that job succeeds meanwhile.                            *)
(***************************************************************************)
LockOwned == \A w \in Workers : InLock(w) => wjob[w].id \in lockKey

LockInv == LockOwned /\ MutualExclusion

\* A step that moves worker w without entering the lock, and deletes no key.
LEMMA MoveKeepsLock ==
  ASSUME TypeInv, LockInv, NEW w \in Workers, NEW pc, NEW c,
         wpc' = [wpc EXCEPT ![w] = pc], wjob' = [wjob EXCEPT ![w] = c],
         InLock(w)' => InLock(w) /\ c.id = wjob[w].id,
         lockKey \subseteq lockKey'
  PROVE  LockInv'
<1>1. \A v \in Workers \ {w} : wpc'[v] = wpc[v] /\ wjob'[v] = wjob[v]
  BY Zenon DEF TypeInv, TypeOK, PoolTypeOK
<1>2. \A v \in Workers \ {w} : InLock(v)' <=> InLock(v)
  BY <1>1, Zenon DEF InLock, Registered
<1>3. wjob'[w] = c
  BY Zenon DEF TypeInv, TypeOK, PoolTypeOK
<1>4. \A v \in Workers : InLock(v)' => InLock(v) /\ wjob'[v].id = wjob[v].id
  BY <1>1, <1>2, <1>3, Zenon
<1>5. LockOwned'
  BY <1>4, Zenon DEF LockInv, LockOwned
<1>6. MutualExclusion'
  BY <1>4, Zenon DEF LockInv, MutualExclusion
<1>. QED  BY <1>5, <1>6, Zenon DEF LockInv

\* The two ways a worker moves on without touching its job.
LEMMA GotoKeepsLock ==
  ASSUME TypeInv, LockInv, NEW w \in Workers, NEW pc, Goto(w, pc),
         InLock(w)' => InLock(w), lockKey \subseteq lockKey'
  PROVE  LockInv'
<1>1. wjob' = [wjob EXCEPT ![w] = wjob[w]]
  BY Zenon DEF Goto, TypeInv, TypeOK, PoolTypeOK
<1>2. wpc' = [wpc EXCEPT ![w] = pc]
  BY Zenon DEF Goto
<1>. QED  BY <1>1, <1>2, MoveKeepsLock, Zenon

\* A worker that returns owns no lock; the others keep theirs.
LEMMA ReturnKeepsLock ==
  ASSUME TypeInv, LockInv, NEW w \in Workers, Return(w), lockKey \subseteq lockKey'
  PROVE  LockInv'
<1>1. ~ InLock(w)'
  BY Zenon DEF Return, InLock, LockedPC, DeadLetterPC, TypeInv, TypeOK, PoolTypeOK
<1>. QED  BY <1>1, MoveKeepsLock, Zenon DEF Return

\* The steps of a worker.
LEMMA WorkerLockInv ==
  ASSUME TypeInv, LockInv, NEW w \in Workers, Worker(w) PROVE LockInv'
<1>0. wpc \in [Workers -> WorkerPC] /\ wjob \in [Workers -> Copy \cup {NoCopy}]
  BY Zenon DEF TypeInv, TypeOK, PoolTypeOK
<1>. USE DEF InLock, LockedPC, DeadLetterPC
<1>1. CASE WorkerReceive(w)
  <2>1. ~ InLock(w)'
    BY <1>0, <1>1, Zenon DEF WorkerReceive, Registered
  <2>2. PICK pc : wpc' = [wpc EXCEPT ![w] = pc]
    BY <1>1, Zenon DEF WorkerReceive
  <2>. QED  BY <1>1, <2>1, <2>2, MoveKeepsLock, ZenonT(40) DEF WorkerReceive, storeVars
<1>2. CASE WorkerExit(w)
  BY <1>0, <1>2, GotoKeepsLock, Zenon DEF WorkerExit, Goto, storeVars
<1>3. CASE WorkerGetDone(w)
  <2>1. CASE Return(w)
    BY <1>3, <2>1, ReturnKeepsLock, Zenon DEF WorkerGetDone
  <2>2. CASE Goto(w, "setLock")
    BY <1>0, <1>3, <2>2, GotoKeepsLock, Zenon DEF WorkerGetDone, Goto
  <2>. QED  BY <1>3, <2>1, <2>2, Zenon DEF WorkerGetDone
<1>4. CASE WorkerSetLock(w)
  <2>1. CASE Return(w)
    <3>1. lockKey \subseteq lockKey'
      BY <1>4, Zenon DEF WorkerSetLock
    <3>. QED  BY <3>1, <2>1, ReturnKeepsLock, Zenon
  <2>2. CASE /\ wjob[w].id \notin lockKey
             /\ lockKey' = lockKey \cup {wjob[w].id}
             /\ Goto(w, "mark")
    <3>1. \A v \in Workers : wjob'[v] = wjob[v] /\ (v # w => wpc'[v] = wpc[v])
      BY <1>0, <2>2, Zenon DEF Goto
    <3>2. \A v \in Workers \ {w} : InLock(v)' => InLock(v) /\ wjob[v].id # wjob[w].id
      BY <2>2, <3>1, Zenon DEF LockInv, LockOwned, Registered
    <3>3. LockOwned'
      BY <2>2, <3>1, <3>2, Zenon DEF LockInv, LockOwned
    <3>4. MutualExclusion'
      BY <3>1, <3>2 DEF LockInv, MutualExclusion
    <3>. QED  BY <3>3, <3>4, Zenon DEF LockInv
  <2>. QED  BY <1>4, <2>1, <2>2, Zenon DEF WorkerSetLock
<1>5. ASSUME NEW c, c.id = wjob[w].id, NEW s, NEW pc, UpdateThen(w, c, s, pc), InLock(w)' => InLock(w)
      PROVE  LockInv'
  BY <1>5, MoveKeepsLock, ZenonT(40) DEF UpdateThen
<1>6. ASSUME NEW c, c.id = wjob[w].id, NEW s, NEW pc, UpdateThen(w, c, s, pc), wpc[w] \in LockedPC
      PROVE  LockInv'
  BY <1>5, <1>6, Zenon
<1>7. CASE WorkerMark(w)
  BY <1>6, <1>7, Zenon DEF WorkerMark
<1>8. CASE WorkerRun(w)
  BY <1>0, <1>8, GotoKeepsLock, Zenon DEF WorkerRun, Goto, storeVars
<1>9. CASE WorkerSuccess(w)
  BY <1>6, <1>9, Zenon DEF WorkerSuccess
<1>10. CASE WorkerSuccessDone(w)
  BY <1>0, <1>10, GotoKeepsLock, Zenon DEF WorkerSuccessDone
<1>11. CASE WorkerAttempt(w)
  BY <1>0, <1>11, GotoKeepsLock, Zenon DEF WorkerAttempt
<1>12. CASE WorkerDeadLetter(w)
  <2>1. wjob' = [wjob EXCEPT ![w] = wjob[w]] /\ wpc' = [wpc EXCEPT ![w] = "dlPush"]
    BY <1>12, Zenon DEF WorkerDeadLetter, UpdateThen
  <2>2. InLock(w)' => InLock(w)
    BY <1>0, <1>12, <2>1, Zenon DEF WorkerDeadLetter, Registered
  <2>. QED  BY <1>5, <1>12, <2>2, Zenon DEF WorkerDeadLetter
<1>13. CASE WorkerDeadLetterPush(w)
  <2>1. InLock(w)' => InLock(w)
    BY <1>0, <1>13, Zenon DEF WorkerDeadLetterPush, Goto, Registered
  <2>. QED  BY <1>13, <2>1, GotoKeepsLock, Zenon DEF WorkerDeadLetterPush
<1>14. CASE WorkerDeadLetterDone(w)
  BY <1>0, <1>14, GotoKeepsLock, ReturnKeepsLock, Zenon DEF WorkerDeadLetterDone
<1>15. CASE WorkerRetry(w)
  <2>1. [wjob[w] EXCEPT !.retry = @ + 1].id = wjob[w].id
    BY <1>15, Zenon DEF WorkerRetry, TypeInv, TypeOK, PoolTypeOK, Copy
  <2>. QED  BY <1>6, <1>15, <2>1, Zenon DEF WorkerRetry
<1>16. CASE WorkerSpawn(w)
  BY <1>0, <1>16, GotoKeepsLock, Zenon DEF WorkerSpawn, storeVars
<1>17. CASE WorkerUnlock(w)
  <2>1. \A v \in Workers : v # w => wpc'[v] = wpc[v] /\ wjob'[v] = wjob[v]
    BY <1>0, <1>17, Zenon DEF WorkerUnlock, Return
  <2>2. ~ InLock(w)' /\ InLock(w)
    BY <1>0, <1>17, Zenon DEF WorkerUnlock, Return
  <2>3. \A v \in Workers : InLock(v)' => InLock(v) /\ v # w /\ wjob'[v] = wjob[v]
    BY <2>1, <2>2, Zenon DEF Registered
  <2>4. \A v \in Workers : InLock(v)' => wjob[v].id # wjob[w].id
    BY <2>2, <2>3, Zenon DEF LockInv, MutualExclusion
  <2>5. lockKey \ {wjob[w].id} \subseteq lockKey'
    BY <1>17, Zenon DEF WorkerUnlock
  <2>6. LockOwned'
    BY <2>3, <2>4, <2>5, Zenon DEF LockInv, LockOwned
  <2>7. MutualExclusion'
    BY <2>3, Zenon DEF LockInv, MutualExclusion
  <2>. QED  BY <2>6, <2>7, Zenon DEF LockInv
<1>. QED
  BY <1>1, <1>2, <1>3, <1>4, <1>7, <1>8, <1>9, <1>10, <1>11, <1>12, <1>13, <1>14, <1>15, <1>16, <1>17, Zenon
  DEF Worker

\* A step that changes neither a worker nor a lock.
LEMMA FrameKeepsLock ==
  ASSUME LockInv, UNCHANGED <<wpc, wjob, lockKey>> PROVE LockInv'
BY Zenon DEF LockInv, LockOwned, MutualExclusion, InLock, Registered

\* Every step keeps the lock of a worker inside process its own.
LEMMA NextLockInv ==
  ASSUME "slowJob" \notin Env, TypeInv, LockInv, [Next]_vars PROVE LockInv'
<1>1. CASE Dispatcher
  BY <1>1, FrameKeepsLock, Zenon
  DEF Dispatcher, DispatchCheck, DispatchPop, DispatchNoJob, DispatchPopError, DispatchSend,
      DispatchRequeue, storeVars
<1>2. ASSUME NEW c \in Copy, Retry(c) PROVE LockInv'
  BY <1>2, FrameKeepsLock, Zenon DEF Retry, RetryTimer, RetryAgain, RetryCancelled
<1>3. CASE Cancel \/ Shutdown \/ ShutdownWait \/ ShutdownReturn
  BY <1>3, FrameKeepsLock, ZenonT(40) DEF Cancel, Shutdown, ShutdownWait, ShutdownReturn, storeVars
<1>4. CASE Restart
  BY <1>4, Zenon DEF Restart, LockInv, LockOwned, MutualExclusion, InLock, LockedPC, DeadLetterPC
<1>5. ASSUME NEW j \in Jobs, LockExpire(j) PROVE LockInv'
  <2>1. \A w \in Workers : InLock(w) => wjob[w].id # j
    BY <1>5, Zenon DEF LockExpire
  <2>2. UNCHANGED <<wpc, wjob>> /\ lockKey' = lockKey \ {j}
    BY <1>5, Zenon DEF LockExpire, poolVars, localVars
  <2>3. \A w \in Workers : InLock(w)' <=> InLock(w)
    BY <2>2, Zenon DEF InLock, Registered
  <2>. QED  BY <2>1, <2>2, <2>3, Zenon DEF LockInv, LockOwned, MutualExclusion
<1>6. ASSUME NEW j \in Jobs, Submit(j) PROVE LockInv'
  BY <1>6, FrameKeepsLock, Zenon DEF Submit, poolVars, localVars
<1>7. CASE UNCHANGED vars
  BY <1>7, FrameKeepsLock, Zenon DEF vars, storeVars, poolVars, localVars
<1>. QED  BY <1>1, <1>2, <1>3, <1>4, <1>5, <1>6, <1>7, WorkerLockInv, Zenon DEF Next, PoolStep

\* As long as no job outlives the TTL of its lock, two workers are never
\* inside process with the same job, however often the job is on the queue,
\* whatever calls fail, and across crashes and restarts.
THEOREM MutualExclusionHolds ==
  ASSUME "slowJob" \notin Env
  PROVE  Spec => []MutualExclusion
<1>1. Init => LockInv
  BY Zenon DEF Init, PoolInit, LockInv, LockOwned, MutualExclusion, InLock, LockedPC, DeadLetterPC
<1>2. TypeInv /\ LockInv /\ [Next]_vars => LockInv'
  BY NextLockInv, Zenon
<1>. QED  BY <1>1, <1>2, InitTypeInv, NextTypeInv, PTL DEF Spec, LockInv
-----------------------------------------------------------------------------
(***************************************************************************)
(* Shutdown.  ShutdownOrder alone is not inductive: when the last worker   *)
(* has returned the channel must be known to be empty for good, because    *)
(* its only sender closed it before the first worker could leave.          *)
(***************************************************************************)
ExitAfterClose == \A w \in Workers : wpc[w] = "exited" => dpc = "exited" /\ jobs = <<>>

ShutdownInv == ShutdownOrder /\ ExitAfterClose

\* A step that starts nothing: the dispatcher and the workers that have
\* returned stay away, the channel gets no job and no timer is added.
LEMMA QuietKeepsShutdown ==
  ASSUME ShutdownInv, UNCHANGED waiter,
         dpc = "exited" => dpc' = "exited",
         \A w \in Workers : wpc[w] = "exited" <=> wpc'[w] = "exited",
         jobs = <<>> /\ dpc = "exited" => jobs' = <<>>,
         (\A c \in Copy : timer[c] = 0 /\ repush[c] = 0) =>
           \/ \A c \in Copy : timer'[c] = 0 /\ repush'[c] = 0
           \/ \E w \in Workers : wpc[w] # "exited"
  PROVE  ShutdownInv'
BY Zenon DEF ShutdownInv, ShutdownOrder, ExitAfterClose

\* The steps of a worker.
LEMMA WorkerShutdownInv ==
  ASSUME TypeInv, ShutdownInv, NEW w \in Workers, Worker(w) PROVE ShutdownInv'
<1>0. wpc \in [Workers -> WorkerPC] /\ jobs \in Seq(Copy)
  BY Zenon DEF TypeInv, TypeOK, PoolTypeOK
<1>1. UNCHANGED <<waiter, dpc>> /\ wpc[w] # "exited"
  BY Zenon DEF Worker, WorkerReceive, WorkerExit, WorkerGetDone, WorkerSetLock, WorkerMark, WorkerRun,
         WorkerSuccess, WorkerSuccessDone, WorkerAttempt, WorkerDeadLetter, WorkerDeadLetterPush,
         WorkerDeadLetterDone, WorkerRetry, WorkerSpawn, WorkerUnlock, UpdateThen
<1>2. CASE WorkerExit(w)
  BY <1>0, <1>1, <1>2, Zenon
  DEF WorkerExit, Goto, closed, ShutdownInv, ShutdownOrder, ExitAfterClose
<1>3. CASE WorkerReceive(w)
  <2>1. \A v \in Workers : wpc[v] # "exited"
    BY <1>3, Zenon DEF WorkerReceive, ShutdownInv, ExitAfterClose
  <2>2. \A v \in Workers : wpc'[v] # "exited"
    BY <1>0, <1>3, <2>1, Zenon DEF WorkerReceive
  <2>. QED  BY <1>1, <2>1, <2>2, Zenon DEF ShutdownInv, ShutdownOrder, ExitAfterClose
<1>4. CASE ~ WorkerExit(w) /\ ~ WorkerReceive(w)
  <2>1. UNCHANGED jobs
    BY <1>4, Zenon DEF Worker, WorkerGetDone, WorkerSetLock, WorkerMark, WorkerRun, WorkerSuccess,
         WorkerSuccessDone, WorkerAttempt, WorkerDeadLetter, WorkerDeadLetterPush,
         WorkerDeadLetterDone, WorkerRetry, WorkerSpawn, WorkerUnlock, UpdateThen
  <2>2. PICK pc : wpc' = [wpc EXCEPT ![w] = pc] /\ pc # "exited"
    <3>1. CASE WorkerAttempt(w)
      <4>1. AttemptNext(wpc[w]) # "exited"
        BY <3>1, Zenon DEF WorkerAttempt, AttemptNext
      <4>. QED  BY <3>1, <4>1, Zenon DEF WorkerAttempt, Goto
    <3>. QED  BY <1>4, <3>1, Zenon
         DEF Worker, WorkerGetDone, WorkerSetLock, WorkerMark, WorkerRun, WorkerSuccess,
         WorkerSuccessDone, WorkerDeadLetter, WorkerDeadLetterPush,
         WorkerDeadLetterDone, WorkerRetry, WorkerSpawn, WorkerUnlock, UpdateThen, Goto, Return
  <2>3. \A v \in Workers : wpc[v] = "exited" <=> wpc'[v] = "exited"
    BY <1>0, <1>1, <2>2, Zenon
  <2>. QED  BY <1>1, <2>1, <2>3, QuietKeepsShutdown, Zenon
<1>. QED  BY <1>2, <1>3, <1>4, Zenon

\* Every step keeps the order in which Shutdown waits.
LEMMA NextShutdownInv ==
  ASSUME TypeInv, ShutdownInv, [Next]_vars PROVE ShutdownInv'
<1>1. CASE Dispatcher
  BY <1>1, QuietKeepsShutdown, Zenon
  DEF Dispatcher, DispatchCheck, DispatchPop, DispatchNoJob, DispatchPopError, DispatchSend,
      DispatchRequeue
<1>2. ASSUME NEW c \in Copy, Retry(c) PROVE ShutdownInv'
  <2>1. timer[c] # 0 \/ repush[c] # 0
    BY <1>2 DEF Retry, RetryTimer, RetryAgain, RetryCancelled
  <2>. QED  BY <1>2, <2>1, QuietKeepsShutdown, Zenon DEF Retry, RetryTimer, RetryAgain, RetryCancelled
<1>3. CASE Cancel \/ ShutdownReturn
  BY <1>3, QuietKeepsShutdown, Zenon DEF Cancel, ShutdownReturn
<1>4. CASE Shutdown
  BY <1>4, ZenonT(40) DEF Shutdown, ShutdownInv, ShutdownOrder, ExitAfterClose
<1>5. CASE ShutdownWait
  <2>1. waiter = "workers" /\ (\A w \in Workers : wpc[w] = "exited") => jobs = <<>>
    BY PoolAssumption, Zenon DEF ShutdownInv, ExitAfterClose
  <2>. QED  BY <1>5, <2>1, Zenon DEF ShutdownWait, ShutdownInv, ShutdownOrder, ExitAfterClose
<1>6. CASE Restart
  BY <1>6, Zenon DEF Restart, ShutdownInv, ShutdownOrder, ExitAfterClose
<1>7. ASSUME NEW j \in Jobs, LockExpire(j) \/ Submit(j) PROVE ShutdownInv'
  BY <1>7, QuietKeepsShutdown, Zenon DEF LockExpire, Submit, poolVars, localVars
<1>8. CASE UNCHANGED vars
  BY <1>8, QuietKeepsShutdown, Zenon DEF vars, poolVars, localVars
<1>. QED  BY <1>1, <1>2, <1>3, <1>4, <1>5, <1>6, <1>7, <1>8, WorkerShutdownInv, Zenon DEF Next, PoolStep

\* Both invariants hold in every behaviour.
LEMMA ShutdownInvariant == Spec => [](TypeInv /\ ShutdownInv)
<1>1. Init => ShutdownInv
  BY Zenon DEF Init, PoolInit, ShutdownInv, ShutdownOrder, ExitAfterClose
<1>2. TypeInv /\ ShutdownInv /\ [Next]_vars => ShutdownInv'
  BY NextShutdownInv, Zenon
<1>. QED  BY <1>1, <1>2, InitTypeInv, NextTypeInv, PTL DEF Spec

\* Shutdown waits in an order that is safe: when it reaches the retries every
\* worker has returned and the channel is empty, and a clean drain leaves no
\* goroutine behind, with any number of workers and any failures.
THEOREM ShutdownOrderHolds == Spec => []ShutdownOrder
BY ShutdownInvariant, PTL DEF ShutdownInv

\* The claim of the comment in Shutdown: retryWG.Wait() never races with a
\* concurrent Add.
THEOREM NoAddDuringWaitHolds == Spec => NoAddDuringWait
<1>1. ASSUME TypeInv, ShutdownInv, [Next]_vars, waiter \in {"retries", "drained"}, NEW c \in Copy
      PROVE  timer'[c] <= timer[c]
  <2>0. timer \in [Copy -> Nat] /\ \A w \in Workers : wpc[w] = "exited"
    BY <1>1, Zenon DEF TypeInv, TypeOK, PoolTypeOK, ShutdownInv, ShutdownOrder
  <2>1. ~ \E w \in Workers : WorkerSpawn(w)
    BY <2>0, Zenon DEF WorkerSpawn
  <2>2. \/ UNCHANGED timer
        \/ Restart
        \/ \E d \in Copy : timer' = [timer EXCEPT ![d] = @ - 1]
    <3>1. CASE Dispatcher
      BY <3>1, Zenon DEF Dispatcher, DispatchCheck, DispatchPop, DispatchNoJob, DispatchPopError,
                  DispatchSend, DispatchRequeue
    <3>2. ASSUME NEW w \in Workers, Worker(w) PROVE UNCHANGED timer
      BY <2>1, <3>2, Zenon
      DEF Worker, WorkerReceive, WorkerExit, WorkerGetDone, WorkerSetLock, WorkerMark, WorkerRun,
          WorkerSuccess, WorkerSuccessDone, WorkerAttempt, WorkerDeadLetter, WorkerDeadLetterPush,
          WorkerDeadLetterDone, WorkerRetry, WorkerUnlock, UpdateThen
    <3>3. ASSUME NEW d \in Copy, Retry(d)
          PROVE  UNCHANGED timer \/ timer' = [timer EXCEPT ![d] = @ - 1]
      BY <3>3, Zenon DEF Retry, RetryTimer, RetryAgain, RetryCancelled
    <3>4. CASE Cancel \/ Shutdown \/ ShutdownWait \/ ShutdownReturn
      BY <3>4, Zenon DEF Cancel, Shutdown, ShutdownWait, ShutdownReturn
    <3>5. ASSUME NEW j \in Jobs, LockExpire(j) \/ Submit(j) PROVE UNCHANGED timer
      BY <3>5, Zenon DEF LockExpire, Submit, poolVars, localVars
    <3>6. CASE UNCHANGED vars
      BY <3>6, Zenon DEF vars, poolVars, localVars
    <3>. QED  BY <1>1, <3>1, <3>2, <3>3, <3>4, <3>5, <3>6, Zenon DEF Next, PoolStep
  <2>3. CASE Restart
    BY <2>0, <2>3 DEF Restart
  <2>. QED  BY <2>0, <2>2, <2>3
<1>2. TypeInv /\ ShutdownInv /\ [Next]_vars =>
        [(waiter \in {"retries", "drained"} => \A c \in Copy : timer'[c] <= timer[c])]_vars
  BY <1>1, Zenon
<1>. QED  BY <1>2, ShutdownInvariant, PTL DEF Spec, NoAddDuringWait

-----------------------------------------------------------------------------
(***************************************************************************)
(* What a step may write: facts for the modules that prove more about the  *)
(* pool.                                                                   *)
(***************************************************************************)
\* A call counts a fault exactly when it fails although its context is live.
LEMMA CallFaults ==
  ASSUME NEW store, NEW live \in BOOLEAN, NEW ok \in BOOLEAN, Call(store, live, ok)
  PROVE  faults' \in {faults, faults + 1} /\ (live /\ ~ok => faults' = faults + 1)
BY Zenon DEF Call

\* A step of one worker leaves the others where they are, and touches neither
\* the lists nor what the dispatcher holds.
LEMMA WorkerFrame ==
  ASSUME TypeInv, NEW w \in Workers, Worker(w)
  PROVE  /\ \A v \in Workers \ {w} : wpc'[v] = wpc[v] /\ wjob'[v] = wjob[v]
         /\ UNCHANGED <<queue, held, dpc, repush, accepted, ctxLive, restarts>>
<1>0. wpc \in [Workers -> WorkerPC] /\ wjob \in [Workers -> Copy \cup {NoCopy}]
  BY Zenon DEF TypeInv, TypeOK, PoolTypeOK
<1>1. UNCHANGED <<queue, held, dpc, repush, accepted, ctxLive, restarts>>
  BY Zenon DEF Worker, WorkerReceive, WorkerExit, WorkerGetDone, WorkerSetLock, WorkerMark, WorkerRun,
         WorkerSuccess, WorkerSuccessDone, WorkerAttempt, WorkerDeadLetter, WorkerDeadLetterPush,
         WorkerDeadLetterDone, WorkerRetry, WorkerSpawn, WorkerUnlock, UpdateThen, storeVars
<1>2. \E pc : wpc' = [wpc EXCEPT ![w] = pc]
  BY Zenon DEF Worker, WorkerReceive, WorkerExit, WorkerGetDone, WorkerSetLock, WorkerMark, WorkerRun,
         WorkerSuccess, WorkerSuccessDone, WorkerAttempt, WorkerDeadLetter, WorkerDeadLetterPush,
         WorkerDeadLetterDone, WorkerRetry, WorkerSpawn, WorkerUnlock, UpdateThen, Goto, Return
<1>3. wjob' = wjob \/ \E c : wjob' = [wjob EXCEPT ![w] = c]
  BY Zenon DEF Worker, WorkerReceive, WorkerExit, WorkerGetDone, WorkerSetLock, WorkerMark, WorkerRun,
         WorkerSuccess, WorkerSuccessDone, WorkerAttempt, WorkerDeadLetter, WorkerDeadLetterPush,
         WorkerDeadLetterDone, WorkerRetry, WorkerSpawn, WorkerUnlock, UpdateThen, Goto, Return
<1>. QED  BY <1>0, <1>1, <1>2, <1>3, Zenon

\* Where each step of a worker leaves it.
LEMMA WorkerTo ==
  ASSUME TypeInv, NEW w \in Workers
  PROVE  /\ \A pc : Goto(w, pc) => wpc'[w] = pc /\ wjob'[w] = wjob[w]
         /\ Return(w) => wpc'[w] = "idle" /\ wjob'[w] = NoCopy
         /\ \A c, s, pc : UpdateThen(w, c, s, pc) => wpc'[w] = pc /\ wjob'[w] = c
<1>0. wpc \in [Workers -> WorkerPC] /\ wjob \in [Workers -> Copy \cup {NoCopy}]
  BY Zenon DEF TypeInv, TypeOK, PoolTypeOK
<1>1. \A pc : Goto(w, pc) => wpc'[w] = pc /\ wjob'[w] = wjob[w]
  BY <1>0, Zenon DEF Goto
<1>2. Return(w) => wpc'[w] = "idle" /\ wjob'[w] = NoCopy
  BY <1>0, Zenon DEF Return
<1>3. \A c, s, pc : UpdateThen(w, c, s, pc) => wpc'[w] = pc /\ wjob'[w] = c
  BY <1>0, Zenon DEF UpdateThen
<1>. QED  BY <1>1, <1>2, <1>3, Zenon

\* The four steps of a worker that write the row of its job.
LEMMA WorkerUpdates ==
  ASSUME TypeInv, NEW w \in Workers, Worker(w)
  PROVE  \/ row' = row
         \/ /\ wpc[w] \in {"mark", "succUpdate", "dlUpdate", "retryUpdate"}
            /\ \E c \in Copy, s \in JobStatus : c.id = wjob[w].id /\ Update(c, s)
<1>. DEFINE Writes == \/ row' = row
                      \/ /\ wpc[w] \in {"mark", "succUpdate", "dlUpdate", "retryUpdate"}
                         /\ \E c \in Copy, s \in JobStatus : c.id = wjob[w].id /\ Update(c, s)
<1>0. wpc[w] \notin {"idle", "exited"} => wjob[w] \in Copy
  BY Zenon DEF TypeInv, TypeOK, PoolTypeOK
<1>1. ASSUME NEW c \in Copy, c.id = wjob[w].id, NEW s \in JobStatus, NEW pc, UpdateThen(w, c, s, pc),
             wpc[w] \in {"mark", "succUpdate", "dlUpdate", "retryUpdate"}
      PROVE  Writes
  BY <1>1, Zenon DEF UpdateThen
<1>2. CASE WorkerMark(w)
  BY <1>0, <1>1, <1>2, Zenon DEF WorkerMark, JobStatus
<1>3. CASE WorkerSuccess(w)
  BY <1>0, <1>1, <1>3, Zenon DEF WorkerSuccess, JobStatus
<1>4. CASE WorkerDeadLetter(w)
  BY <1>0, <1>1, <1>4, Zenon DEF WorkerDeadLetter, JobStatus
<1>5. CASE WorkerRetry(w)
  <2>1. wjob[w] \in Copy /\ CanRetry(wjob[w])
    BY <1>0, <1>5, Zenon DEF TypeInv, BudgetLeft, WorkerRetry
  <2>2. PICK c : c = [wjob[w] EXCEPT !.retry = @ + 1]
    BY Zenon
  <2>3. c \in Copy /\ c.id = wjob[w].id
    BY <2>1, <2>2, StoresAssumption DEF CanRetry, Copy
  <2>. QED  BY <1>1, <1>5, <2>2, <2>3, Zenon DEF WorkerRetry, JobStatus
<1>6. CASE ~(WorkerMark(w) \/ WorkerSuccess(w) \/ WorkerDeadLetter(w) \/ WorkerRetry(w))
  <2>1. row' = row
    BY <1>6, Zenon DEF Worker, WorkerReceive, WorkerExit, WorkerGetDone, WorkerSetLock, WorkerRun,
         WorkerSuccessDone, WorkerAttempt, WorkerDeadLetterPush, WorkerDeadLetterDone, WorkerSpawn,
         WorkerUnlock, storeVars
  <2>. QED  BY <2>1, Zenon
<1>. QED  BY <1>2, <1>3, <1>4, <1>5, <1>6, Zenon

\* Only the workers write rows.
LEMMA OthersWriteNothing ==
  ASSUME PoolStep, ~ \E w \in Workers : Worker(w)
  PROVE  UNCHANGED <<row, doneKey, deadLetter, attempts, runs, accepted, wpc, wjob, restarts>> /\ ctxLive' \in {ctxLive, FALSE}
<1>1. CASE Dispatcher
  BY <1>1, Zenon DEF Dispatcher, DispatchCheck, DispatchPop, DispatchNoJob, DispatchPopError, DispatchSend,
      DispatchRequeue, storeVars
<1>2. ASSUME NEW c \in Copy, Retry(c)
      PROVE  UNCHANGED <<row, doneKey, deadLetter, attempts, runs, accepted, wpc, wjob, restarts>> /\ ctxLive' \in {ctxLive, FALSE}
  BY <1>2, Zenon DEF Retry, RetryTimer, RetryAgain, RetryCancelled
<1>3. CASE Cancel \/ Shutdown \/ ShutdownWait \/ ShutdownReturn
  BY <1>3, Zenon DEF Cancel, Shutdown, ShutdownWait, ShutdownReturn, storeVars
<1>4. ASSUME NEW j \in Jobs, LockExpire(j)
      PROVE  UNCHANGED <<row, doneKey, deadLetter, attempts, runs, accepted, wpc, wjob, restarts>> /\ ctxLive' \in {ctxLive, FALSE}
  BY <1>4, Zenon DEF LockExpire, poolVars, localVars
<1>. QED  BY <1>1, <1>2, <1>3, <1>4, Zenon DEF PoolStep

-----------------------------------------------------------------------------
(***************************************************************************)
(* Enqueue.                                                                *)
(***************************************************************************)

\* From its claim until it fails or is accepted, a request holds its key:
\* nobody but its holder ever deletes a key.
HoldsKey ==
  \A j \in Jobs : rpc[j] \in {"create", "push", "release", "accepted"} => idemKey[KeyOf[j]] = j

\* A request that pushes has created its row.
PushHasRow == \A j \in Jobs : rpc[j] = "push" => row[j].status # "absent"

\* The part of the types that the argument needs.
GwShape ==
  /\ idemKey \in [Keys -> Jobs \cup {NoJob}]
  /\ rpc \in [Jobs -> RequestPC]
  /\ row \in [Jobs -> Row]
  /\ accepted \subseteq Jobs

GwInv == GwShape /\ HoldsKey /\ PushHasRow /\ QueuedHasRow

\* The invariant holds before the first request.
LEMMA GwInitInv == GwInit => GwInv
BY GatewayAssumption, StoresAssumption
DEF GwInit, GwInv, GwShape, HoldsKey, PushHasRow, QueuedHasRow, StoresInit, GatewayInit,
    RequestPC, Outcomes, Row

\* A step of a request, and a disconnect, preserve the invariant.
LEMMA GwStepInv == GwInv /\ [GatewayStep]_gwVars => GwInv'
<1> SUFFICES ASSUME GwInv, [GatewayStep]_gwVars PROVE GwInv'
  BY Zenon
<1> USE GatewayAssumption, StoresAssumption
        DEF GwInv, GwShape, HoldsKey, PushHasRow, QueuedHasRow, RequestPC, Outcomes
<1>1. CASE UNCHANGED gwVars
  BY <1>1, Zenon DEF gwVars, storeVars, gatewayVars
<1>2. ASSUME NEW j \in Jobs, Enqueue(j) \/ ClientGone(j) PROVE GwInv'
  <2>0. KeyOf[j] \in Keys
    BY Zenon
  <2>1. CASE Validate(j)
    BY <2>1, Zenon DEF Validate, Step, storeVars
  <2>2. CASE Claim(j)
    BY <2>0, <2>2 DEF Claim, Step
  <2>3. CASE GetExisting(j)
    BY <2>3, Zenon DEF GetExisting, Step
  <2>4. CASE GetRow(j)
    BY <2>4, Zenon DEF GetRow, Step
  <2>5. CASE CreateRow(j)
    <3>1. [status |-> "QUEUED", retry |-> 0] \in Row
      BY DEF Row, JobStatus
    <3>2. \/ row' = row
          \/ row' = [row EXCEPT ![j] = [status |-> "QUEUED", retry |-> 0]]
      BY <2>5, Zenon DEF CreateRow, Create
    <3>3. /\ row' \in [Jobs -> Row]
          /\ \A i \in Jobs : row[i].status # "absent" => row'[i].status # "absent"
      BY <3>1, <3>2
    <3>4. rpc'[j] = "push" => row'[j].status # "absent"
      BY <2>5 DEF CreateRow, Create, Step
    <3> QED
      BY <2>5, <3>3, <3>4 DEF CreateRow, Step
  <2>6. CASE PushJob(j)
    BY <2>6 DEF PushJob, Step
  <2>7. CASE Release(j)
    BY <2>0, <2>7 DEF Release, Step
  <2>8. CASE ClientGone(j)
    BY <2>8, Zenon DEF ClientGone, storeVars
  <2> QED
    BY <1>2, <2>1, <2>2, <2>3, <2>4, <2>5, <2>6, <2>7, <2>8, Zenon DEF Enqueue
<1> QED
  BY <1>1, <1>2, Zenon DEF GatewayStep

\* The invariant always holds.
LEMMA GwInvariant == GwSpec => []GwInv
BY GwInitInv, GwStepInv, PTL DEF GwSpec

\* A job answered 202 keeps its idempotency key: no failing or duplicate
\* request ever deletes or overwrites the key SetNX gave to another one.
THEOREM AcceptedKeepsKeyHolds == GwSpec => []AcceptedKeepsKey
<1>1. GwInv => AcceptedKeepsKey
  BY Zenon DEF GwInv, HoldsKey, AcceptedKeepsKey
<1> QED
  BY <1>1, GwInvariant, PTL

\* Of the requests with one idempotency key Enqueue accepts at most one.
THEOREM OneAcceptedPerKeyHolds == GwSpec => []OneAcceptedPerKey
<1>1. GwInv => OneAcceptedPerKey
  BY Zenon DEF GwInv, HoldsKey, OneAcceptedPerKey
<1> QED
  BY <1>1, GwInvariant, PTL

\* Enqueue never pushes a job whose row it has not created.
THEOREM QueuedHasRowHolds == GwSpec => []QueuedHasRow
<1>1. GwInv => QueuedHasRow
  BY Zenon DEF GwInv
<1> QED
  BY <1>1, GwInvariant, PTL

-----------------------------------------------------------------------------
(***************************************************************************)
(* While Redis answers, the key of a failed request is free again.         *)
(***************************************************************************)

\* The holder of a key is on its way from the claim to its answer, was
\* accepted, or lost its client.
HolderWorks ==
  \A j \in Jobs : idemKey[KeyOf[j]] = j => ~rlive[j] \/ rpc[j] \in {"create", "push", "release", "accepted"}

\* A step keeps it, as long as Redis does not fail.
LEMMA HolderWorksStep ==
  ASSUME "redis" \notin Env
  PROVE  GwInv /\ HolderWorks /\ [GatewayStep]_gwVars => HolderWorks'
<1> SUFFICES ASSUME GwInv, HolderWorks, [GatewayStep]_gwVars PROVE HolderWorks'
  BY Zenon
<1> USE GatewayAssumption DEF GwInv, GwShape, HolderWorks, HoldsKey, RequestPC, Outcomes
<1>1. CASE UNCHANGED gwVars
  BY <1>1, Zenon DEF gwVars, gatewayVars
<1>2. ASSUME NEW j \in Jobs, Enqueue(j) \/ ClientGone(j) PROVE HolderWorks'
  <2>0. KeyOf[j] \in Keys /\ NoJob # j
    OBVIOUS
  <2>1. CASE Validate(j)
    BY <2>1, Zenon DEF Validate, Step
  <2>2. CASE Claim(j)
    BY <2>0, <2>2 DEF Claim, Step, Call
  <2>3. CASE GetExisting(j)
    BY <2>3, Zenon DEF GetExisting, Step
  <2>4. CASE GetRow(j)
    BY <2>4, Zenon DEF GetRow, Step
  <2>5. CASE CreateRow(j)
    BY <2>5 DEF CreateRow, Step
  <2>6. CASE PushJob(j)
    BY <2>6 DEF PushJob, Step
  <2>7. CASE Release(j)
    BY <2>0, <2>7 DEF Release, Step, Call
  <2>8. CASE ClientGone(j)
    BY <2>8 DEF ClientGone
  <2> QED
    BY <1>2, <2>1, <2>2, <2>3, <2>4, <2>5, <2>6, <2>7, <2>8, Zenon DEF Enqueue
<1> QED
  BY <1>1, <1>2, Zenon DEF GatewayStep

\* "release key so a retry can succeed": whatever Postgres does and whichever
\* clients leave, a request that failed while its client was there does not
\* hold its key, provided Redis answers.
THEOREM FailureFreesKeyHolds ==
  ASSUME "redis" \notin Env
  PROVE  GwSpec => []FailureFreesKey
<1>1. GwInit => HolderWorks
  BY GatewayAssumption DEF GwInit, GatewayInit, HolderWorks
<1>2. GwInv /\ HolderWorks /\ [GatewayStep]_gwVars => HolderWorks'
  BY HolderWorksStep, Zenon
<1>3. HolderWorks => FailureFreesKey
  BY Zenon DEF HolderWorks, FailureFreesKey
<1> QED
  BY <1>1, <1>2, <1>3, GwInvariant, PTL DEF GwSpec
=============================================================================
