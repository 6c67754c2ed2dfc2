---------------------------- MODULE SystemProofs ----------------------------
(***************************************************************************)
(* The parts of the gateway over shared stores: what was proved of the     *)
(* pool alone holds beside requests and admins that write the same lists   *)
(* and rows, and dies and restarts with them.                              *)
(***************************************************************************)
EXTENDS System, ServiceProofs

SysInv == TypeInv /\ GatewayTypeOK /\ AdminTypeOK

\* The first state is well typed.
LEMMA SysInitInv == SysInit => SysInv
<1>. SUFFICES ASSUME SysInit PROVE SysInv
  BY Zenon
<1>1. StoresTypeOK
  BY StoresAssumption DEF SysInit, StoresInit, StoresTypeOK, Row
<1>2. PoolTypeOK /\ BudgetLeft
  BY PoolAssumption, ChanCapType
  DEF SysInit, PoolInit, PoolTypeOK, BudgetLeft, DispatcherPC, WorkerPC
<1>3. GatewayTypeOK
  BY Zenon DEF SysInit, GatewayInit, GatewayTypeOK, RequestPC
<1>4. AdminTypeOK
  BY Zenon DEF SysInit, AdminInit, AdminTypeOK, AdminPC
<1>. QED  BY <1>1, <1>2, <1>3, <1>4, Zenon DEF SysInv, TypeInv, TypeOK

\* What a step outside the pool may change without breaking the pool's types.
LEMMA OutsideTypeInv ==
  ASSUME TypeInv, UNCHANGED poolVars, faults' \in 0..MaxFaults,
         queue' \in [Priorities -> Seq(Copy)], row' \in [Jobs -> Row], accepted' \in SUBSET Jobs,
         UNCHANGED <<deadLetter, attempts, doneKey, lockKey>>
  PROVE  TypeInv'
<1>1. StoresTypeOK'
  BY Zenon DEF TypeInv, TypeOK, StoresTypeOK
<1>2. PoolTypeOK' /\ BudgetLeft'
  BY Zenon DEF TypeInv, TypeOK, PoolTypeOK, BudgetLeft, poolVars, localVars
<1>. QED  BY <1>1, <1>2, Zenon DEF TypeInv, TypeOK

\* A new job is a copy, and a created row is a row.
LEMMA NewJobType == \A j \in Jobs : NewJob(j) \in Copy /\ [status |-> "QUEUED", retry |-> 0] \in Row
BY StoresAssumption DEF NewJob, Copy, Row, JobStatus

\* What a step of a request does to the stores; it reaches the push by
\* creating its row.
LEMMA EnqueueStores ==
  ASSUME SysInv, NEW j \in Jobs, Enqueue(j) \/ ClientGone(j)
  PROVE  /\ faults' \in 0..MaxFaults
         /\ queue' = queue \/ (Push(NewJob(j)) /\ rpc[j] = "push")
         /\ row' = row \/ Create(j)
         /\ accepted' \in SUBSET Jobs
         /\ UNCHANGED <<deadLetter, attempts, doneKey, lockKey>>
         /\ \A i \in Jobs : i # j => rpc'[i] = rpc[i]
         /\ rpc'[j] = "push" => Create(j) \/ rpc[j] = "push"
<1>0. faults \in 0..MaxFaults /\ accepted \in SUBSET Jobs /\ rpc \in [Jobs -> RequestPC]
  BY Zenon DEF SysInv, TypeInv, TypeOK, StoresTypeOK, GatewayTypeOK
<1>1. CASE Validate(j)
  BY <1>0, <1>1, Zenon DEF Validate, Step, storeVars
<1>2. CASE Claim(j)
  <2>1. faults' \in 0..MaxFaults
    BY <1>0, <1>2, CallType, Zenon DEF Claim
  <2>. QED  BY <1>0, <1>2, <2>1, Zenon DEF Claim, Step
<1>3. CASE GetExisting(j)
  <2>1. faults' \in 0..MaxFaults
    BY <1>0, <1>3, CallType, Zenon DEF GetExisting
  <2>. QED  BY <1>0, <1>3, <2>1, Zenon DEF GetExisting, Step
<1>4. CASE GetRow(j)
  <2>1. faults' \in 0..MaxFaults
    BY <1>0, <1>4, CallType, Zenon DEF GetRow
  <2>. QED  BY <1>0, <1>4, <2>1, Zenon DEF GetRow, Step
<1>5. CASE CreateRow(j)
  <2>1. faults' \in 0..MaxFaults
    BY <1>0, <1>5, CallType, Zenon DEF CreateRow
  <2>. QED  BY <1>0, <1>5, <2>1, Zenon DEF CreateRow, Step
<1>6. CASE PushJob(j)
  <2>1. faults' \in 0..MaxFaults
    BY <1>0, <1>6, CallType, Zenon DEF PushJob
  <2>. QED  BY <1>0, <1>6, <2>1, Zenon DEF PushJob, Step
<1>7. CASE Release(j)
  <2>1. faults' \in 0..MaxFaults
    BY <1>0, <1>7, CallType, Zenon DEF Release
  <2>. QED  BY <1>0, <1>7, <2>1, Zenon DEF Release, Step
<1>8. CASE ClientGone(j)
  BY <1>0, <1>8, Zenon DEF ClientGone, storeVars
<1>. QED  BY <1>1, <1>2, <1>3, <1>4, <1>5, <1>6, <1>7, <1>8, Zenon DEF Enqueue

\* The variables of the requests keep their types.
LEMMA EnqueueType ==
  ASSUME SysInv, NEW j \in Jobs, Enqueue(j) \/ ClientGone(j)
  PROVE  GatewayTypeOK'
<1>. USE GatewayAssumption DEF SysInv, GatewayTypeOK, RequestPC, Outcomes
<1>1. CASE Validate(j)
  BY <1>1, Zenon DEF Validate, Step
<1>2. CASE Claim(j)
  BY <1>2 DEF Claim, Step
<1>3. CASE GetExisting(j)
  BY <1>3 DEF GetExisting, Step
<1>4. CASE GetRow(j) \/ CreateRow(j) \/ PushJob(j)
  BY <1>4 DEF GetRow, CreateRow, PushJob, Step
<1>5. CASE Release(j)
  BY <1>5, Zenon DEF Release, Step
<1>6. CASE ClientGone(j)
  BY <1>6, Zenon DEF ClientGone
<1>. QED  BY <1>1, <1>2, <1>3, <1>4, <1>5, <1>6, Zenon DEF Enqueue

\* A step of a request keeps everything well typed.
LEMMA GatewaySysInv ==
  ASSUME SysInv, GatewayStep, UNCHANGED <<poolVars, adminVars>> PROVE SysInv'
<1>1. PICK j \in Jobs : Enqueue(j) \/ ClientGone(j)
  BY Zenon DEF GatewayStep
<1>2. queue' \in [Priorities -> Seq(Copy)]
  BY <1>1, EnqueueStores, NewJobType, PushType, Zenon DEF SysInv, TypeInv, TypeOK, StoresTypeOK
<1>3. row' \in [Jobs -> Row]
  BY <1>1, EnqueueStores, NewJobType, Zenon DEF Create, SysInv, TypeInv, TypeOK, StoresTypeOK
<1>4. TypeInv'
  BY <1>1, <1>2, <1>3, EnqueueStores, OutsideTypeInv, Zenon DEF SysInv
<1>5. GatewayTypeOK'
  BY <1>1, EnqueueType, Zenon
<1>6. AdminTypeOK'
  BY Zenon DEF SysInv, AdminTypeOK, adminVars
<1>. QED  BY <1>4, <1>5, <1>6, Zenon DEF SysInv

\* What a step of an admin does to the stores: it writes and pushes the job
\* it has read, which had a row.
AdminEffect(a) ==
  /\ faults' \in 0..MaxFaults
  /\ queue' = queue \/ (Push(ajob[a]) /\ apc[a] = "push")
  /\ row' = row \/ (Update(ajob[a], "QUEUED") /\ apc[a] = "update")
  /\ UNCHANGED <<deadLetter, attempts, doneKey, lockKey, accepted>>
  /\ \A b \in Admins : b # a => apc'[b] = apc[b] /\ ajob'[b] = ajob[b]
  /\ apc'[a] \in {"update", "push"} =>
       \/ ajob'[a] = ajob[a] /\ apc[a] = "update"
       \/ \E j \in Jobs : ajob'[a] = NewJob(j) /\ row[j].status # "absent"

\* Every step of RetryJob has that effect and keeps the admins' types.
LEMMA RetryJobEffect ==
  ASSUME SysInv, NEW a \in Admins, RetryJob(a)
  PROVE  AdminEffect(a) /\ AdminTypeOK'
<1>0. /\ faults \in 0..MaxFaults
      /\ apc \in [Admins -> AdminPC] /\ ajob \in [Admins -> Copy \cup {NoCopy}]
      /\ \A b \in Admins : apc[b] \in {"update", "push"} => ajob[b] \in Copy
  BY Zenon DEF SysInv, TypeInv, TypeOK, StoresTypeOK, AdminTypeOK
<1>. USE DEF AdminEffect, AdminTypeOK, AdminPC, AdminMove
<1>1. ASSUME NEW j \in Jobs, AdminRead(a, j) PROVE AdminEffect(a) /\ AdminTypeOK'
  <2>1. faults' \in 0..MaxFaults
    BY <1>0, <1>1, CallType, Zenon DEF AdminRead
  <2>2. /\ ajob' = [ajob EXCEPT ![a] = NewJob(j)]
        /\ UNCHANGED <<queue, deadLetter, row, attempts, doneKey, lockKey, accepted>>
    BY <1>1, Zenon DEF AdminRead
  <2>3. /\ apc' \in [Admins -> AdminPC]
        /\ \A b \in Admins : b # a => apc'[b] = apc[b]
        /\ apc'[a] \in {"update", "push"} => row[j].status # "absent"
    BY <1>0, <1>1, Zenon DEF AdminRead, Retryable
  <2>4. /\ ajob' \in [Admins -> Copy \cup {NoCopy}]
        /\ ajob'[a] = NewJob(j) /\ NewJob(j) \in Copy
        /\ \A b \in Admins : b # a => ajob'[b] = ajob[b]
    BY <1>0, <2>2, NewJobType, Zenon
  <2>5. AdminTypeOK'
    BY <1>0, <2>3, <2>4, Zenon
  <2>. QED  BY <2>1, <2>2, <2>3, <2>4, <2>5, Zenon
<1>2. CASE AdminUpdate(a)
  <2>1. faults' \in 0..MaxFaults
    BY <1>0, <1>2, CallType, Zenon DEF AdminUpdate
  <2>. QED  BY <1>0, <1>2, <2>1, Zenon DEF AdminUpdate
<1>3. CASE AdminPush(a)
  <2>1. faults' \in 0..MaxFaults
    BY <1>0, <1>3, CallType, Zenon DEF AdminPush
  <2>. QED  BY <1>0, <1>3, <2>1, Zenon DEF AdminPush
<1>. QED  BY <1>1, <1>2, <1>3, Zenon DEF RetryJob

\* A step of an admin keeps everything well typed.
LEMMA AdminSysInv ==
  ASSUME SysInv, AdminStep, UNCHANGED <<poolVars, gatewayVars>> PROVE SysInv'
<1>1. PICK a \in Admins : RetryJob(a)
  BY Zenon DEF AdminStep
<1>2. AdminEffect(a) /\ AdminTypeOK'
  BY <1>1, RetryJobEffect, Zenon
<1>3. apc[a] \in {"update", "push"} => ajob[a] \in Copy
  BY Zenon DEF SysInv, AdminTypeOK
<1>4. queue' \in [Priorities -> Seq(Copy)]
  BY <1>2, <1>3, PushType, Zenon DEF AdminEffect, SysInv, TypeInv, TypeOK, StoresTypeOK
<1>5. row' \in [Jobs -> Row]
  BY <1>2, <1>3, UpdateType, Zenon DEF AdminEffect, SysInv, TypeInv, TypeOK, StoresTypeOK, JobStatus
<1>6. accepted' \in SUBSET Jobs
  BY <1>2, Zenon DEF AdminEffect, SysInv, TypeInv, TypeOK, StoresTypeOK
<1>7. TypeInv'
  BY <1>2, <1>4, <1>5, <1>6, OutsideTypeInv, Zenon DEF AdminEffect, SysInv
<1>8. GatewayTypeOK'
  BY Zenon DEF SysInv, GatewayTypeOK, gatewayVars
<1>. QED  BY <1>2, <1>7, <1>8, Zenon DEF SysInv

\* Every step of the whole keeps the types.
LEMMA SysStepInv == SysInv /\ [SysNext]_sysVars => SysInv'
<1>. SUFFICES ASSUME SysInv, [SysNext]_sysVars PROVE SysInv'
  BY Zenon
<1>1. CASE PoolStep /\ UNCHANGED <<gatewayVars, adminVars>>
  <2>1. TypeInv'
    BY <1>1, NextTypeInv, Zenon DEF Next, SysInv
  <2>. QED  BY <1>1, <2>1, Zenon DEF SysInv, GatewayTypeOK, AdminTypeOK, gatewayVars, adminVars
<1>2. CASE SysRestart
  <2>1. TypeInv'
    BY <1>2, NextTypeInv, Zenon DEF SysRestart, Next, SysInv
  <2>2. GatewayTypeOK'
    BY <1>2, Zenon DEF SysRestart, SysInv, GatewayTypeOK, RequestPC, Outcomes
  <2>3. AdminTypeOK'
    BY <1>2, Zenon DEF SysRestart, SysInv, AdminTypeOK, AdminPC
  <2>. QED  BY <2>1, <2>2, <2>3, Zenon DEF SysInv
<1>3. CASE UNCHANGED sysVars
  <2>1. TypeInv'
    BY <1>3, NextTypeInv, Zenon DEF SysInv, sysVars, vars
  <2>. QED  BY <1>3, <2>1, Zenon DEF SysInv, GatewayTypeOK, AdminTypeOK, sysVars, gatewayVars, adminVars
<1>. QED  BY <1>1, <1>2, <1>3, GatewaySysInv, AdminSysInv, Zenon DEF SysNext

\* The whole gateway is well typed, and so no copy of a job exceeds its retry
\* budget although admins reset the count: for any number of requests,
\* workers and admins, any faults and any restarts.
THEOREM SystemTypeCorrect == SysSpec => []SysTypeOK
<1>1. SysInv => SysTypeOK
  BY Zenon DEF SysInv, TypeInv, SysTypeOK
<1>. QED  BY <1>1, SysInitInv, SysStepInv, PTL DEF SysSpec

-----------------------------------------------------------------------------
\* Requests and admins touch neither the locks nor the workers, so that the
\* exclusion proved of the pool survives their pushes of further copies of a
\* job, as long as no job outlives the TTL of its lock.
THEOREM SystemMutualExclusion ==
  ASSUME "slowJob" \notin Env
  PROVE  SysSpec => []MutualExclusion
<1>1. SysInit => LockInv
  BY DEF SysInit, PoolInit, LockInv, LockOwned, MutualExclusion, InLock, LockedPC, DeadLetterPC
<1>2. SysInv /\ LockInv /\ [SysNext]_sysVars => LockInv'
  <2>. SUFFICES ASSUME SysInv, LockInv, [SysNext]_sysVars PROVE LockInv'
    BY Zenon
  <2>1. CASE PoolStep \/ SysRestart \/ UNCHANGED sysVars
    BY <2>1, NextLockInv, Zenon DEF SysRestart, Next, SysInv, sysVars, vars
  <2>2. CASE GatewayStep /\ UNCHANGED <<poolVars, adminVars>>
    <3>1. lockKey' = lockKey
      BY <2>2, EnqueueStores, Zenon DEF GatewayStep
    <3>. QED  BY <2>2, <3>1, FrameKeepsLock, Zenon DEF poolVars, localVars
  <2>3. CASE AdminStep /\ UNCHANGED <<poolVars, gatewayVars>>
    <3>1. lockKey' = lockKey
      BY <2>3, RetryJobEffect, Zenon DEF AdminStep, AdminEffect
    <3>. QED  BY <2>3, <3>1, FrameKeepsLock, Zenon DEF poolVars, localVars
  <2>. QED  BY <2>1, <2>2, <2>3, Zenon DEF SysNext
<1>3. LockInv => MutualExclusion
  BY Zenon DEF LockInv
<1>. QED  BY <1>1, <1>2, <1>3, SysInitInv, SysStepInv, PTL DEF SysSpec

-----------------------------------------------------------------------------
(***************************************************************************)
(* The row of a job that runs exists.  The invariant that is inductive     *)
(* follows the copies: wherever one is, its job has a row, since Enqueue   *)
(* creates the row before its push, admins read it before theirs, and no   *)
(* statement deletes one.                                                  *)
(***************************************************************************)
Rowed == {c \in Copy : row[c.id].status # "absent"}

PoolRowed ==
  /\ queue \in [Priorities -> Seq(Rowed)]
  /\ dpc = "send" => held \in Rowed
  /\ jobs \in Seq(Rowed)
  /\ \A w \in Workers : wpc[w] \notin {"idle", "exited"} => wjob[w] \in Rowed
  /\ \A c \in Copy : timer[c] > 0 \/ repush[c] > 0 => c \in Rowed

RowInv ==
  /\ PoolRowed
  /\ \A j \in Jobs : rpc[j] = "push" => NewJob(j) \in Rowed
  /\ \A a \in Admins : apc[a] \in {"update", "push"} => ajob[a] \in Rowed

\* More rows make more sequences.
LEMMA SeqMonotone == ASSUME NEW S, NEW T, S \subseteq T PROVE Seq(S) \subseteq Seq(T)
OBVIOUS

\* Push and pop on lists of copies that have their rows.
LEMMA ListRowed ==
  ASSUME NEW S, queue \in [Priorities -> Seq(S)]
  PROVE  /\ \A c \in S : Push(c) => queue' \in [Priorities -> Seq(S)]
         /\ \A p \in Priorities : Served(p) =>
              Head(queue[p]) \in S /\ [queue EXCEPT ![p] = Tail(@)] \in [Priorities -> Seq(S)]
<1>1. ASSUME NEW c \in S, Push(c) PROVE queue' \in [Priorities -> Seq(S)]
  <2>1. keyForPriority(c) \in Priorities
    BY Zenon DEF keyForPriority, PriorityForType, Priorities
  <2>2. Append(queue[keyForPriority(c)], c) \in Seq(S)
    BY <2>1
  <2>. QED  BY <1>1, <2>1, <2>2, Zenon DEF Push
<1>2. ASSUME NEW p \in Priorities, Served(p)
      PROVE  Head(queue[p]) \in S /\ [queue EXCEPT ![p] = Tail(@)] \in [Priorities -> Seq(S)]
  <2>1. queue[p] \in Seq(S) /\ queue[p] # <<>>
    BY <1>2, Zenon DEF Served
  <2>2. Head(queue[p]) \in S /\ Tail(queue[p]) \in Seq(S)
    BY <2>1, HeadTail, Zenon
  <2>. QED  BY <2>2, Zenon
<1>. QED  BY <1>1, <1>2, Zenon

\* Rows stay: an UPDATE and an INSERT leave no row absent that was there.
LEMMA RowsStay ==
  ASSUME row \in [Jobs -> Row],
         \/ row' = row
         \/ \E c \in Copy, s \in JobStatus : Update(c, s)
         \/ \E j \in Jobs : Create(j)
  PROVE  Rowed \subseteq Rowed'
<1>1. \A i \in Jobs : row[i].status # "absent" => row'[i].status # "absent"
  <2>1. CASE row' = row
    BY <2>1, Zenon
  <2>2. ASSUME NEW c \in Copy, NEW s \in JobStatus, Update(c, s)
        PROVE \A i \in Jobs : row[i].status # "absent" => row'[i].status # "absent"
    <3>1. c.id \in Jobs /\ s # "absent"
      BY Zenon DEF Copy, JobStatus
    <3>. QED  BY <2>2, <3>1, Zenon DEF Update
  <2>3. ASSUME NEW j \in Jobs, Create(j)
        PROVE \A i \in Jobs : row[i].status # "absent" => row'[i].status # "absent"
    BY <2>3, Zenon DEF Create
  <2>. QED  BY <2>1, <2>2, <2>3, Zenon
<1>. QED  BY <1>1, Zenon DEF Rowed, Copy

\* What every step owes: rows stay, and each place holds copies with rows.
LEMMA KeepRowed ==
  ASSUME TypeInv', Rowed \subseteq Rowed',
         queue' \in [Priorities -> Seq(Rowed)],
         dpc' = "send" => held' \in Rowed,
         jobs' \in Seq(Rowed),
         \A w \in Workers : wpc'[w] \notin {"idle", "exited"} =>
           \E c \in Rowed : wjob'[w].id = c.id,
         \A c \in Copy : timer'[c] > 0 \/ repush'[c] > 0 => c \in Rowed
  PROVE  PoolRowed'
<1>1. Seq(Rowed) \subseteq Seq(Rowed')
  BY SeqMonotone, Zenon
<1>2. queue' \in [Priorities -> Seq(Rowed')]
  BY <1>1, Zenon
<1>3. \A w \in Workers : wpc'[w] \notin {"idle", "exited"} => wjob'[w] \in Rowed'
  <2>. SUFFICES ASSUME NEW w \in Workers, wpc'[w] \notin {"idle", "exited"} PROVE wjob'[w] \in Rowed'
    BY Zenon
  <2>1. wjob'[w] \in Copy
    BY Zenon DEF TypeInv, TypeOK, PoolTypeOK
  <2>2. PICK c \in Rowed' : wjob'[w].id = c.id
    BY Zenon
  <2>. QED  BY <2>1, <2>2, Zenon DEF Rowed
<1>. QED  BY <1>1, <1>2, <1>3, Zenon DEF PoolRowed

\* The dispatcher moves copies that have rows.
LEMMA DispatcherRowed ==
  ASSUME TypeInv, PoolRowed, Dispatcher PROVE PoolRowed'
<1>0. TypeInv'
  BY DispatcherTypeInv, Zenon
<1>1. row' = row
  BY Zenon DEF Dispatcher, DispatchCheck, DispatchPop, DispatchPopError, DispatchNoJob, DispatchSend,
         DispatchRequeue, storeVars
<1>2. Rowed \subseteq Rowed'
  BY <1>1, Zenon DEF Rowed
<1>3. UNCHANGED <<wpc, wjob, timer, repush>>
  BY Zenon DEF Dispatcher, DispatchCheck, DispatchPop, DispatchPopError, DispatchNoJob, DispatchSend,
         DispatchRequeue
<1>4. /\ \A w \in Workers : wpc'[w] \notin {"idle", "exited"} => \E c \in Rowed : wjob'[w].id = c.id
      /\ \A c \in Copy : timer'[c] > 0 \/ repush'[c] > 0 => c \in Rowed
  BY <1>3, Zenon DEF PoolRowed
<1>5. /\ queue' \in [Priorities -> Seq(Rowed)]
      /\ dpc' = "send" => held' \in Rowed
      /\ jobs' \in Seq(Rowed)
  <2>. USE DEF PoolRowed
  <2>1. CASE DispatchCheck \/ DispatchNoJob
    BY <2>1, Zenon DEF DispatchCheck, DispatchNoJob, storeVars
  <2>2. ASSUME NEW p \in Priorities, DispatchPop(p) PROVE <1>5!:
    BY <2>2, ListRowed, Zenon DEF DispatchPop
  <2>3. ASSUME NEW p \in Priorities, DispatchPopError(p) PROVE <1>5!:
    <3>0. Served(p) => [queue EXCEPT ![p] = Tail(@)] \in [Priorities -> Seq(Rowed)]
      BY ListRowed, Zenon
    <3>1. queue' \in [Priorities -> Seq(Rowed)]
      BY <2>3, <3>0, Zenon DEF DispatchPopError
    <3>. QED  BY <2>3, <3>1, Zenon DEF DispatchPopError
  <2>4. CASE DispatchSend
    BY <2>4 DEF DispatchSend, storeVars
  <2>5. CASE DispatchRequeue
    BY <2>5, ListRowed, Zenon DEF DispatchRequeue
  <2>. QED  BY <2>1, <2>2, <2>3, <2>4, <2>5, Zenon DEF Dispatcher
<1>. QED  BY <1>0, <1>2, <1>4, <1>5, KeepRowed, Zenon

\* So do the retry goroutines.
LEMMA RetryRowed ==
  ASSUME TypeInv, PoolRowed, NEW c \in Copy, Retry(c) PROVE PoolRowed'
<1>0. TypeInv'
  BY RetryTypeInv, Zenon
<1>1. UNCHANGED <<row, dpc, held, jobs, wpc, wjob>>
  BY Zenon DEF Retry, RetryTimer, RetryAgain, RetryCancelled
<1>2. Rowed \subseteq Rowed'
  BY <1>1, Zenon DEF Rowed
<1>3. c \in Rowed
  BY Zenon DEF Retry, RetryTimer, RetryAgain, RetryCancelled, PoolRowed
<1>4. queue' = queue \/ Push(c)
  BY Zenon DEF Retry, RetryTimer, RetryAgain, RetryCancelled, BackgroundPush
<1>5. queue' \in [Priorities -> Seq(Rowed)]
  BY <1>3, <1>4, ListRowed, Zenon DEF PoolRowed
<1>6. \A d \in Copy : d # c => timer'[d] = timer[d] /\ repush'[d] = repush[d]
  BY Zenon DEF TypeInv, TypeOK, PoolTypeOK, Retry, RetryTimer, RetryAgain, RetryCancelled
<1>7. \A d \in Copy : timer'[d] > 0 \/ repush'[d] > 0 => d \in Rowed
  BY <1>3, <1>6, Zenon DEF PoolRowed
<1>8. \A w \in Workers : wpc'[w] \notin {"idle", "exited"} => \E d \in Rowed : wjob'[w].id = d.id
  BY <1>1, Zenon DEF PoolRowed
<1>. QED  BY <1>0, <1>1, <1>2, <1>5, <1>7, <1>8, KeepRowed, Zenon DEF PoolRowed

\* Apart from receiving one, a worker keeps its job or returns, and writes at
\* most the row of its job.
WorkerMoves(w) ==
  \/ row' = row /\ Return(w)
  \/ row' = row /\ \E pc \in WorkerPC : Goto(w, pc) /\ (pc = "exited" \/ wpc[w] \notin {"idle", "exited"})
  \/ \E c \in Copy, s \in JobStatus, pc \in WorkerPC :
       UpdateThen(w, c, s, pc) /\ c.id = wjob[w].id /\ wpc[w] \notin {"idle", "exited"}

\* Every other step of a worker is such a move.
LEMMA WorkerMovesOnly ==
  ASSUME TypeInv, NEW w \in Workers, Worker(w), ~WorkerReceive(w) PROVE WorkerMoves(w)
<1>0. /\ \A pc \in {"exited", "setLock", "mark", "run", "succUpdate", "succDone", "succAttempt",
                    "attemptDead", "attemptRetry", "retryUpdate", "spawn", "unlock",
                    "dlUpdate", "dlPush", "dlDone"} : pc \in WorkerPC
      /\ wpc[w] \notin {"idle", "exited"} => wjob[w] \in Copy
      /\ \A s \in {"PROCESSING", "SUCCESS", "DEAD_LETTER", "QUEUED"} : s \in JobStatus
  BY Zenon DEF WorkerPC, LockedPC, DeadLetterPC, TypeInv, TypeOK, PoolTypeOK, JobStatus
<1>. USE DEF WorkerMoves
<1>1. CASE WorkerExit(w)
  BY <1>0, <1>1, Zenon DEF WorkerExit, storeVars
<1>2. CASE WorkerGetDone(w)
  BY <1>0, <1>2, Zenon DEF WorkerGetDone
<1>3. CASE WorkerSetLock(w)
  BY <1>0, <1>3, Zenon DEF WorkerSetLock
<1>4. CASE WorkerMark(w)
  BY <1>0, <1>4, Zenon DEF WorkerMark
<1>5. CASE WorkerRun(w)
  BY <1>0, <1>5, Zenon DEF WorkerRun, storeVars
<1>6. CASE WorkerSuccess(w)
  BY <1>0, <1>6, Zenon DEF WorkerSuccess
<1>7. CASE WorkerSuccessDone(w)
  BY <1>0, <1>7, Zenon DEF WorkerSuccessDone
<1>8. CASE WorkerAttempt(w)
  BY <1>0, <1>8, Zenon DEF WorkerAttempt, AttemptNext
<1>9. CASE WorkerDeadLetter(w)
  BY <1>0, <1>9, Zenon DEF WorkerDeadLetter
<1>10. CASE WorkerDeadLetterPush(w)
  BY <1>0, <1>10, Zenon DEF WorkerDeadLetterPush
<1>11. CASE WorkerDeadLetterDone(w)
  BY <1>0, <1>11, Zenon DEF WorkerDeadLetterDone
<1>12. CASE WorkerRetry(w)
  <2>1. /\ [wjob[w] EXCEPT !.retry = @ + 1] \in Copy
        /\ [wjob[w] EXCEPT !.retry = @ + 1].id = wjob[w].id
    BY <1>0, <1>12, StoresAssumption DEF WorkerRetry, TypeInv, BudgetLeft, CanRetry, Copy
  <2>. QED  BY <1>0, <1>12, <2>1, Zenon DEF WorkerRetry
<1>13. CASE WorkerSpawn(w)
  BY <1>0, <1>13, Zenon DEF WorkerSpawn, storeVars
<1>14. CASE WorkerUnlock(w)
  BY <1>14, Zenon DEF WorkerUnlock
<1>. QED
  BY <1>1, <1>2, <1>3, <1>4, <1>5, <1>6, <1>7, <1>8, <1>9, <1>10, <1>11, <1>12, <1>13, <1>14, Zenon DEF Worker

\* A worker holds what it received; it neither writes the lists nor removes a
\* row, and the retry it starts is for the job it holds.
LEMMA WorkerRowed ==
  ASSUME TypeInv, PoolRowed, NEW w \in Workers, Worker(w) PROVE PoolRowed'
<1>0. TypeInv'
  BY WorkerTypeInv, Zenon
<1>1. row \in [Jobs -> Row] /\ wpc \in [Workers -> WorkerPC]
      /\ wjob \in [Workers -> Copy \cup {NoCopy}] /\ timer \in [Copy -> Nat]
  BY Zenon DEF TypeInv, TypeOK, StoresTypeOK, PoolTypeOK
<1>2. wpc[w] \notin {"idle", "exited"} => wjob[w] \in Rowed /\ wjob[w] \in Copy
  BY Zenon DEF PoolRowed, Rowed
<1>3. UNCHANGED <<queue, dpc, held, repush>>
  BY Zenon DEF Worker, WorkerReceive, WorkerExit, WorkerGetDone, WorkerSetLock, WorkerMark, WorkerRun,
     WorkerSuccess, WorkerSuccessDone, WorkerAttempt, WorkerDeadLetter, WorkerDeadLetterPush,
     WorkerDeadLetterDone, WorkerRetry, WorkerSpawn, WorkerUnlock, UpdateThen, storeVars
<1>4. CASE WorkerReceive(w)
  <2>1. Head(jobs) \in Rowed /\ Tail(jobs) \in Seq(Rowed)
    BY <1>4, HeadTail, Zenon DEF WorkerReceive, PoolRowed
  <2>2. row' = row /\ timer' = timer /\ jobs' = Tail(jobs)
    BY <1>4, Zenon DEF WorkerReceive, storeVars
  <2>3. \A v \in Workers : wpc'[v] \notin {"idle", "exited"} => \E c \in Rowed : wjob'[v].id = c.id
    BY <1>1, <1>4, <2>1, Zenon DEF WorkerReceive, PoolRowed
  <2>. QED  BY <1>0, <1>3, <2>1, <2>2, <2>3, KeepRowed, Zenon DEF PoolRowed, Rowed
<1>5. CASE ~WorkerReceive(w)
  <2>1. jobs' = jobs
    BY <1>5, Zenon DEF Worker, WorkerExit, WorkerGetDone, WorkerSetLock, WorkerMark, WorkerRun,
       WorkerSuccess, WorkerSuccessDone, WorkerAttempt, WorkerDeadLetter, WorkerDeadLetterPush,
       WorkerDeadLetterDone, WorkerRetry, WorkerSpawn, WorkerUnlock, UpdateThen, storeVars
  <2>2. WorkerMoves(w)
    BY <1>5, WorkerMovesOnly, Zenon
  <2>3. timer' = timer \/ (timer' = [timer EXCEPT ![wjob[w]] = @ + 1] /\ wpc[w] = "spawn")
    BY <1>5, Zenon DEF Worker, WorkerExit, WorkerGetDone, WorkerSetLock, WorkerMark, WorkerRun,
       WorkerSuccess, WorkerSuccessDone, WorkerAttempt, WorkerDeadLetter, WorkerDeadLetterPush,
       WorkerDeadLetterDone, WorkerRetry, WorkerSpawn, WorkerUnlock, UpdateThen, storeVars
  <2>4. \A v \in Workers : wpc'[v] \notin {"idle", "exited"} => \E c \in Rowed : wjob'[v].id = c.id
    <3>1. CASE Return(w)
      BY <1>1, <3>1, Zenon DEF Return, PoolRowed
    <3>2. ASSUME NEW pc \in WorkerPC, Goto(w, pc), pc = "exited" \/ wpc[w] \notin {"idle", "exited"}
          PROVE  <2>4!:
      BY <1>1, <3>2, Zenon DEF Goto, PoolRowed
    <3>3. ASSUME NEW c \in Copy, NEW s \in JobStatus, NEW pc \in WorkerPC, UpdateThen(w, c, s, pc),
                 c.id = wjob[w].id, wpc[w] \notin {"idle", "exited"}
          PROVE  <2>4!:
      BY <1>1, <1>2, <3>3, Zenon DEF UpdateThen, PoolRowed
    <3>. QED  BY <2>2, <3>1, <3>2, <3>3, Zenon DEF WorkerMoves
  <2>5. \A c \in Copy : timer'[c] > 0 \/ repush'[c] > 0 => c \in Rowed
    BY <1>1, <1>2, <1>3, <2>3, Zenon DEF PoolRowed
  <2>6. Rowed \subseteq Rowed'
    <3>1. row' = row \/ \E c \in Copy, s \in JobStatus : Update(c, s)
      BY <2>2, Zenon DEF WorkerMoves, UpdateThen
    <3>. QED  BY <1>1, <3>1, RowsStay, Zenon
  <2>. QED  BY <1>0, <1>3, <2>1, <2>4, <2>5, <2>6, KeepRowed, Zenon DEF PoolRowed
<1>. QED  BY <1>4, <1>5, Zenon

\* A step of the pool, or a restart, which empties every place but the lists.
LEMMA PoolStepRowed ==
  ASSUME TypeInv, PoolRowed, [PoolStep \/ Restart]_vars PROVE PoolRowed' /\ Rowed \subseteq Rowed'
<1>1. CASE Dispatcher
  <2>1. row' = row
    BY <1>1, Zenon DEF Dispatcher, DispatchCheck, DispatchPop, DispatchPopError, DispatchNoJob, DispatchSend,
           DispatchRequeue, storeVars
  <2>. QED  BY <1>1, <2>1, DispatcherRowed, Zenon DEF Rowed
<1>2. ASSUME NEW w \in Workers, Worker(w) PROVE PoolRowed' /\ Rowed \subseteq Rowed'
  <2>1. row' = row \/ \E c \in Copy, s \in JobStatus : Update(c, s)
    BY <1>2, WorkerMovesOnly, Zenon DEF WorkerMoves, UpdateThen, WorkerReceive, storeVars
  <2>2. Rowed \subseteq Rowed'
    BY <2>1, RowsStay, Zenon DEF TypeInv, TypeOK, StoresTypeOK
  <2>. QED  BY <1>2, <2>2, WorkerRowed, Zenon
<1>3. ASSUME NEW c \in Copy, Retry(c) PROVE PoolRowed' /\ Rowed \subseteq Rowed'
  <2>1. row' = row
    BY <1>3, Zenon DEF Retry, RetryTimer, RetryAgain, RetryCancelled
  <2>. QED  BY <1>3, <2>1, RetryRowed, Zenon DEF Rowed
<1>4. CASE UNCHANGED <<queue, row, dpc, held, jobs, wpc, wjob, timer, repush>>
  BY <1>4, Zenon DEF PoolRowed, Rowed
<1>5. CASE Restart
  <2>1. UNCHANGED <<queue, row>> /\ dpc' = "check" /\ jobs' = <<>>
    BY <1>5, Zenon DEF Restart, storeVars
  <2>2. \A v \in Workers : wpc'[v] = "idle"
    BY <1>5, Zenon DEF Restart
  <2>3. \A c \in Copy : ~(timer'[c] > 0 \/ repush'[c] > 0)
    BY <1>5 DEF Restart
  <2>4. Rowed' = Rowed
    BY <2>1, Zenon DEF Rowed
  <2>5. jobs' \in Seq(Rowed')
    BY <2>1
  <2>6. queue' \in [Priorities -> Seq(Rowed')] /\ dpc' # "send"
    BY <2>1, <2>4, Zenon DEF PoolRowed
  <2>. QED  BY <2>2, <2>3, <2>4, <2>5, <2>6, Zenon DEF PoolRowed
<1>6. ASSUME Cancel \/ Shutdown \/ ShutdownWait \/ ShutdownReturn \/ (\E j \in Jobs : LockExpire(j))
             \/ UNCHANGED vars
      PROVE  UNCHANGED <<queue, row, dpc, held, jobs, wpc, wjob, timer, repush>>
  BY <1>6, ZenonT(40) DEF Cancel, Shutdown, ShutdownWait, ShutdownReturn, LockExpire, vars, storeVars,
     poolVars, localVars
<1>. QED  BY <1>1, <1>2, <1>3, <1>4, <1>5, <1>6, Zenon DEF PoolStep

\* A step outside the pool that keeps the rows and pushes only a copy with one.
LEMMA OutsideRowed ==
  ASSUME PoolRowed, Rowed \subseteq Rowed', UNCHANGED poolVars, NEW c,
         queue' = queue \/ (c \in Rowed /\ Push(c))
  PROVE  PoolRowed'
<1>1. queue' \in [Priorities -> Seq(Rowed)]
  BY ListRowed, Zenon DEF PoolRowed
<1>2. Seq(Rowed) \subseteq Seq(Rowed')
  BY SeqMonotone, Zenon
<1>3. UNCHANGED <<dpc, held, jobs, wpc, wjob, timer, repush>>
  BY Zenon DEF poolVars, localVars
<1>. QED  BY <1>1, <1>2, <1>3, Zenon DEF PoolRowed

\* A request pushes its job after it has created the row.
LEMMA GatewayRowInv ==
  ASSUME SysInv, RowInv, GatewayStep, UNCHANGED <<poolVars, adminVars>> PROVE RowInv'
<1>1. PICK j \in Jobs : Enqueue(j) \/ ClientGone(j)
  BY Zenon DEF GatewayStep
<1>2. /\ queue' = queue \/ (Push(NewJob(j)) /\ rpc[j] = "push")
      /\ row' = row \/ Create(j)
      /\ \A i \in Jobs : i # j => rpc'[i] = rpc[i]
      /\ rpc'[j] = "push" => Create(j) \/ rpc[j] = "push"
  BY <1>1, EnqueueStores, Zenon
<1>3. Rowed \subseteq Rowed'
  BY <1>2, RowsStay, Zenon DEF SysInv, TypeInv, TypeOK, StoresTypeOK
<1>4. PoolRowed'
  BY <1>2, <1>3, OutsideRowed, Zenon DEF RowInv
<1>5. Create(j) => NewJob(j) \in Rowed'
  BY NewJobType DEF Create, Rowed, NewJob, SysInv, TypeInv, TypeOK, StoresTypeOK
<1>6. \A i \in Jobs : rpc'[i] = "push" => NewJob(i) \in Rowed'
  BY <1>2, <1>3, <1>5, Zenon DEF RowInv
<1>7. \A a \in Admins : apc'[a] \in {"update", "push"} => ajob'[a] \in Rowed'
  BY <1>3, Zenon DEF RowInv, adminVars
<1>. QED  BY <1>4, <1>6, <1>7, Zenon DEF RowInv

\* An admin pushes a job whose row it has read.
LEMMA AdminRowInv ==
  ASSUME SysInv, RowInv, AdminStep, UNCHANGED <<poolVars, gatewayVars>> PROVE RowInv'
<1>1. PICK a \in Admins : RetryJob(a)
  BY Zenon DEF AdminStep
<1>2. AdminEffect(a)
  BY <1>1, RetryJobEffect, Zenon
<1>3. apc[a] \in {"update", "push"} => ajob[a] \in Rowed /\ ajob[a] \in Copy
  BY Zenon DEF RowInv, Rowed
<1>4. Rowed \subseteq Rowed'
  <2>1. row' = row \/ \E c \in Copy, s \in JobStatus : Update(c, s)
    BY <1>2, <1>3, Zenon DEF AdminEffect, JobStatus
  <2>. QED  BY <2>1, RowsStay, Zenon DEF SysInv, TypeInv, TypeOK, StoresTypeOK
<1>5. PoolRowed'
  BY <1>2, <1>3, <1>4, OutsideRowed, Zenon DEF RowInv, AdminEffect
<1>6. \A i \in Jobs : rpc'[i] = "push" => NewJob(i) \in Rowed'
  BY <1>4, Zenon DEF RowInv, gatewayVars
<1>7. \A j \in Jobs : row[j].status # "absent" => NewJob(j) \in Rowed
  BY NewJobType, Zenon DEF Rowed, NewJob
<1>8. \A b \in Admins : apc'[b] \in {"update", "push"} => ajob'[b] \in Rowed'
  BY <1>2, <1>3, <1>4, <1>7, Zenon DEF RowInv, AdminEffect
<1>. QED  BY <1>5, <1>6, <1>8, Zenon DEF RowInv

\* Every step keeps a row behind every copy.
LEMMA SysRowInv == SysInv /\ RowInv /\ [SysNext]_sysVars => RowInv'
<1>. SUFFICES ASSUME SysInv, RowInv, [SysNext]_sysVars PROVE RowInv'
  BY Zenon
<1>1. CASE (PoolStep /\ UNCHANGED <<gatewayVars, adminVars>>) \/ SysRestart \/ UNCHANGED sysVars
  <2>1. PoolRowed' /\ Rowed \subseteq Rowed'
    BY <1>1, PoolStepRowed, Zenon DEF SysRestart, SysInv, RowInv, sysVars, vars
  <2>2. \A i \in Jobs : rpc'[i] = "push" => rpc[i] = "push"
    BY <1>1, Zenon DEF SysRestart, Outcomes, gatewayVars, sysVars
  <2>3. \A a \in Admins : apc'[a] \in {"update", "push"} => apc'[a] = apc[a] /\ ajob'[a] = ajob[a]
    BY <1>1, Zenon DEF SysRestart, adminVars, sysVars
  <2>. QED  BY <2>1, <2>2, <2>3, Zenon DEF RowInv
<1>. QED  BY <1>1, GatewayRowInv, AdminRowInv, Zenon DEF SysNext

\* A worker never processes a job whose row does not exist, although the row
\* and the list are written in two steps, by a process that may die between
\* them, and whichever calls fail or take effect while reporting an error.
THEOREM SystemRunHasRow == SysSpec => []RunHasRow
<1>1. SysInit => RowInv
  <2>. SUFFICES ASSUME SysInit PROVE RowInv
    BY Zenon
  <2>1. queue \in [Priorities -> Seq(Rowed)] /\ jobs \in Seq(Rowed)
    BY DEF SysInit, StoresInit, PoolInit
  <2>2. \A c \in Copy : ~(timer[c] > 0 \/ repush[c] > 0)
    BY DEF SysInit, PoolInit
  <2>3. dpc # "send" /\ \A w \in Workers : wpc[w] = "idle"
    BY Zenon DEF SysInit, PoolInit
  <2>4. /\ \A j \in Jobs : rpc[j] = "new"
        /\ \A a \in Admins : apc[a] = "new"
    BY Zenon DEF SysInit, GatewayInit, AdminInit
  <2>. QED  BY <2>1, <2>2, <2>3, <2>4, Zenon DEF RowInv, PoolRowed
<1>2. SysInv /\ RowInv => RunHasRow
  BY Zenon DEF RowInv, PoolRowed, Rowed, RunHasRow, InLock, LockedPC, DeadLetterPC
<1>. QED  BY <1>1, <1>2, SysInitInv, SysStepInv, SysRowInv, PTL DEF SysSpec

-----------------------------------------------------------------------------
(***************************************************************************)
(* The promises of Enqueue, kept beside the pool and the admins.           *)
(***************************************************************************)

\* The labels of a request that has not pushed its job.
Undecided == {"new", "claim", "get", "getRow", "create", "push"}

\* A request that has not pushed has no copy of its job anywhere, and one
\* that has not created its row has none.
FreshInv ==
  \A j \in Jobs : /\ rpc[j] \in Undecided => j \notin accepted
                  /\ rpc[j] \in Undecided \ {"push"} => row[j].status = "absent"
                  /\ rpc[j] = "claim" => j \in Valid

\* A step of a request pushes the job, creates the row, or does neither.
LEMMA EnqueueDoes ==
  ASSUME SysInv, NEW j \in Jobs, Enqueue(j) \/ ClientGone(j)
  PROVE  /\ \/ /\ rpc[j] = "push" /\ rpc'[j] \in {"accepted", "release"}
               /\ Push(NewJob(j)) /\ accepted' = accepted \cup {j} /\ row' = row
            \/ rpc[j] = "create" /\ rpc'[j] \in {"push", "release"} /\ Create(j) /\ UNCHANGED <<queue, accepted>>
            \/ UNCHANGED <<queue, row, accepted>>
         /\ rpc'[j] \in Undecided => rpc[j] \in Undecided
         /\ rpc'[j] \in Undecided \ {"push"} => rpc[j] \in Undecided \ {"push", "create"} \/ rpc'[j] = rpc[j]
         /\ rpc'[j] = "claim" => j \in Valid \/ rpc[j] = "claim"
         /\ faults' \in {faults, faults + 1}
<1>0. rpc \in [Jobs -> RequestPC] /\ rlive[j] \in BOOLEAN
  BY Zenon DEF SysInv, GatewayTypeOK
<1>. USE DEF Undecided
<1>1. CASE Validate(j)
  BY <1>0, <1>1, Zenon DEF Validate, Step, storeVars
<1>2. CASE Claim(j)
  <2>1. faults' \in {faults, faults + 1}
    BY <1>0, <1>2, CallFaults, Zenon DEF Claim
  <2>. QED  BY <1>0, <1>2, <2>1, Zenon DEF Claim, Step
<1>3. CASE GetExisting(j)
  <2>1. faults' \in {faults, faults + 1}
    BY <1>0, <1>3, CallFaults, Zenon DEF GetExisting
  <2>. QED  BY <1>0, <1>3, <2>1, Zenon DEF GetExisting, Step
<1>4. CASE GetRow(j)
  <2>1. faults' \in {faults, faults + 1}
    BY <1>0, <1>4, CallFaults, Zenon DEF GetRow
  <2>. QED  BY <1>0, <1>4, <2>1, Zenon DEF GetRow, Step
<1>5. CASE CreateRow(j)
  <2>1. faults' \in {faults, faults + 1}
    BY <1>0, <1>5, CallFaults, Zenon DEF CreateRow
  <2>. QED  BY <1>0, <1>5, <2>1, Zenon DEF CreateRow, Step
<1>6. CASE PushJob(j)
  <2>1. faults' \in {faults, faults + 1}
    BY <1>0, <1>6, CallFaults, Zenon DEF PushJob
  <2>. QED  BY <1>0, <1>6, <2>1, Zenon DEF PushJob, Step
<1>7. CASE Release(j)
  <2>1. faults' \in {faults, faults + 1}
    BY <1>0, <1>7, CallFaults, Zenon DEF Release
  <2>. QED  BY <1>0, <1>7, <2>1, Zenon DEF Release, Step
<1>8. CASE ClientGone(j)
  BY <1>0, <1>8, Zenon DEF ClientGone, storeVars
<1>. QED  BY <1>1, <1>2, <1>3, <1>4, <1>5, <1>6, <1>7, <1>8, Zenon DEF Enqueue

\* What the pool, the admins and a restart leave of the rows: a missing one
\* stays missing, one that is there stays there; and nothing is accepted.
LEMMA RowsElsewhere ==
  ASSUME SysInv, PoolStep \/ AdminStep \/ SysRestart \/ UNCHANGED sysVars
  PROVE  /\ \A j \in Jobs : row'[j].status = "absent" <=> row[j].status = "absent"
         /\ accepted' = accepted
<1>0. row \in [Jobs -> Row]
  BY Zenon DEF SysInv, TypeInv, TypeOK, StoresTypeOK
<1>1. ASSUME NEW c \in Copy, NEW s \in JobStatus, Update(c, s)
      PROVE  \A j \in Jobs : row'[j].status = "absent" <=> row[j].status = "absent"
  BY <1>0, <1>1, Zenon DEF Update, JobStatus, Copy
<1>2. ASSUME NEW w \in Workers, Worker(w)
      PROVE  /\ \A j \in Jobs : row'[j].status = "absent" <=> row[j].status = "absent"
             /\ accepted' = accepted
  BY <1>1, <1>2, WorkerUpdates, WorkerFrame, Zenon DEF SysInv
<1>3. CASE PoolStep /\ ~ \E w \in Workers : Worker(w)
  BY <1>3, OthersWriteNothing, Zenon
<1>4. CASE AdminStep
  <2>1. PICK a \in Admins : RetryJob(a)
    BY <1>4, Zenon DEF AdminStep
  <2>2. AdminEffect(a) /\ (apc[a] = "update" => ajob[a] \in Copy)
    BY <2>1, RetryJobEffect, Zenon DEF SysInv, AdminTypeOK
  <2>3. "QUEUED" \in JobStatus
    BY Zenon DEF JobStatus
  <2>. QED  BY <1>1, <2>2, <2>3, Zenon DEF AdminEffect
<1>5. CASE SysRestart \/ UNCHANGED sysVars
  <2>1. UNCHANGED <<row, accepted>>
    BY <1>5, Zenon DEF SysRestart, Restart, sysVars, storeVars
  <2>. QED  BY <2>1, Zenon
<1>. QED  BY <1>2, <1>3, <1>4, <1>5, Zenon

\* The invariants of the requests, in every step of the whole.
LEMMA SysGwStep == SysInv /\ GwInv /\ FreshInv /\ [SysNext]_sysVars => GwInv' /\ FreshInv'
<1>. SUFFICES ASSUME SysInv, GwInv, FreshInv, [SysNext]_sysVars PROVE GwInv' /\ FreshInv'
  BY Zenon
<1>0. SysInv'
  BY SysStepInv, Zenon
<1>1. GwShape'
  BY <1>0, Zenon DEF SysInv, TypeInv, TypeOK, StoresTypeOK, GatewayTypeOK, GwShape
<1>2. CASE GatewayStep /\ UNCHANGED <<poolVars, adminVars>>
  <2>1. GwInv'
    BY <1>2, GwStepInv, Zenon
  <2>2. PICK j \in Jobs : Enqueue(j) \/ ClientGone(j)
    BY <1>2, Zenon DEF GatewayStep
  <2>3. \A i \in Jobs : i # j => rpc'[i] = rpc[i]
    BY <2>2, EnqueueStores, Zenon
  <2>4. row \in [Jobs -> Row] /\ rpc \in [Jobs -> RequestPC]
    BY Zenon DEF SysInv, TypeInv, TypeOK, StoresTypeOK, GatewayTypeOK
  <2>5. CASE /\ rpc[j] = "push" /\ rpc'[j] \in {"accepted", "release"}
             /\ accepted' = accepted \cup {j} /\ row' = row
    BY <2>1, <2>3, <2>5, Zenon DEF FreshInv, Undecided
  <2>6. CASE rpc[j] = "create" /\ rpc'[j] \in {"push", "release"} /\ Create(j) /\ accepted' = accepted
    BY <2>1, <2>3, <2>4, <2>6, Zenon DEF FreshInv, Undecided, Create
  <2>7. CASE UNCHANGED <<row, accepted>>
    <3>1. /\ rpc'[j] \in Undecided => rpc[j] \in Undecided
          /\ rpc'[j] \in Undecided \ {"push"} => rpc[j] \in Undecided \ {"push", "create"} \/ rpc'[j] = rpc[j]
          /\ rpc'[j] = "claim" => j \in Valid \/ rpc[j] = "claim"
      BY <2>2, EnqueueDoes, Zenon
    <3>. QED  BY <2>1, <2>3, <2>7, <3>1, Zenon DEF FreshInv, Undecided
  <2>. QED  BY <2>1, <2>2, <2>5, <2>6, <2>7, EnqueueDoes, Zenon
<1>3. CASE \/ PoolStep /\ UNCHANGED <<gatewayVars, adminVars>>
           \/ AdminStep /\ UNCHANGED <<poolVars, gatewayVars>>
           \/ SysRestart \/ UNCHANGED sysVars
  <2>1. /\ \A j \in Jobs : row'[j].status = "absent" <=> row[j].status = "absent"
        /\ accepted' = accepted
    BY <1>3, RowsElsewhere, Zenon
  <2>2. /\ idemKey' = idemKey
        /\ \A j \in Jobs : rpc'[j] = rpc[j] \/ rpc'[j] = "error"
    BY <1>3, Zenon DEF SysRestart, gatewayVars, sysVars
  <2>3. HoldsKey' /\ PushHasRow' /\ QueuedHasRow'
    BY <2>1, <2>2, Zenon DEF GwInv, GwShape, HoldsKey, PushHasRow, QueuedHasRow
  <2>4. FreshInv'
    BY <2>1, <2>2, Zenon DEF FreshInv, Undecided
  <2>. QED  BY <1>1, <2>3, <2>4, Zenon DEF GwInv
<1>. QED  BY <1>2, <1>3, Zenon DEF SysNext

\* They hold from the start.
LEMMA SysGwInvariant == SysSpec => [](SysInv /\ GwInv /\ FreshInv)
<1>1. SysInit => GwInv /\ FreshInv
  <2>. SUFFICES ASSUME SysInit PROVE GwInv /\ FreshInv
    BY Zenon
  <2>1. StoresInit("absent") /\ GatewayInit
    BY Zenon DEF SysInit
  <2>2. GwInv
    BY <2>1, GwInitInv, Zenon DEF GwInit
  <2>3. FreshInv
    BY <2>1, Zenon DEF FreshInv, Undecided, StoresInit, GatewayInit
  <2>. QED  BY <2>2, <2>3, Zenon
<1>. QED  BY <1>1, SysGwStep, SysInitInv, SysStepInv, PTL DEF SysSpec

\* Of the requests with one key at most one is answered 202, it keeps its
\* key, and its job has a row: whatever the pool and the admins do meanwhile,
\* and whenever the process dies and starts again over the same stores.
THEOREM SystemKeepsKeys == SysSpec => [](AcceptedKeepsKey /\ OneAcceptedPerKey /\ QueuedHasRow)
<1>1. GwInv => AcceptedKeepsKey /\ OneAcceptedPerKey /\ QueuedHasRow
  BY Zenon DEF GwInv, HoldsKey, AcceptedKeepsKey, OneAcceptedPerKey
<1>. QED  BY <1>1, SysGwInvariant, PTL

-----------------------------------------------------------------------------
(***************************************************************************)
(* What the clients are promised while no call fails and no client goes.   *)
(* The process may still die or be stopped: a request that dies with it is *)
(* told nothing, and its key stays with the job it named.                  *)
(***************************************************************************)
\* No call to a store fails, and no client disconnects.
Calm == "redis" \notin Env /\ "db" \notin Env /\ "clientGone" \notin Env

\* The steps of a request whose calls all succeed.
Asks(j) ==
  \/ /\ rpc[j] = "new" /\ rpc'[j] = IF j \in Valid THEN "claim" ELSE "invalid"
     /\ UNCHANGED <<idemKey, answer, accepted, row>>
  \/ /\ rpc[j] = "claim" /\ idemKey[KeyOf[j]] = NoJob /\ rpc'[j] = "create"
     /\ idemKey' = [idemKey EXCEPT ![KeyOf[j]] = j] /\ UNCHANGED <<answer, accepted, row>>
  \/ /\ rpc[j] = "claim" /\ idemKey[KeyOf[j]] # NoJob /\ rpc'[j] = "get"
     /\ UNCHANGED <<idemKey, answer, accepted, row>>
  \/ /\ rpc[j] = "get" /\ rpc'[j] = "getRow"
     /\ answer' = [answer EXCEPT ![j] = IF idemKey[KeyOf[j]] # NoJob THEN idemKey[KeyOf[j]] ELSE j]
     /\ UNCHANGED <<idemKey, accepted, row>>
  \/ rpc[j] = "getRow" /\ rpc'[j] = "duplicate" /\ UNCHANGED <<idemKey, answer, accepted, row>>
  \/ rpc[j] = "create" /\ rpc'[j] = "push" /\ Create(j) /\ UNCHANGED <<idemKey, answer, accepted>>
  \/ /\ rpc[j] = "push" /\ rpc'[j] = "accepted" /\ accepted' = accepted \cup {j}
     /\ UNCHANGED <<idemKey, answer, row>>

\* A key that is taken stays with a request that claimed it, and a duplicate
\* has read the key of the request that holds it.
AnswerInv ==
  /\ \A j \in Jobs : /\ rlive[j] = TRUE /\ rpc[j] # "release"
                     /\ j \in accepted => rpc[j] = "accepted"
                     /\ rpc[j] = "get" => idemKey[KeyOf[j]] # NoJob
                     /\ rpc[j] \in {"getRow", "duplicate"} =>
                          answer[j] = idemKey[KeyOf[j]] /\ idemKey[KeyOf[j]] # NoJob
  /\ \A k \in Keys : idemKey[k] # NoJob =>
       KeyOf[idemKey[k]] = k /\ rpc[idemKey[k]] \in {"create", "push", "accepted", "error"}

\* Every step of a request is one of those.
LEMMA CalmAsks ==
  ASSUME Calm, SysInv, NEW j \in Jobs, rlive[j] = TRUE, rpc[j] # "release",
         Enqueue(j) \/ ClientGone(j)
  PROVE  Asks(j) /\ UNCHANGED <<rlive, faults>> /\ \A i \in Jobs : i # j => rpc'[i] = rpc[i]
<1>0. rpc \in [Jobs -> RequestPC]
  BY Zenon DEF SysInv, GatewayTypeOK
<1>1. \A ok \in BOOLEAN : Call("redis", rlive[j], ok) \/ Call("db", rlive[j], ok) => ok = TRUE /\ faults' = faults
  BY Zenon DEF Call, Calm
<1>2. CASE Validate(j)
  BY <1>0, <1>2, ZenonT(30) DEF Validate, Step, storeVars, Asks
<1>3. CASE Claim(j)
  BY <1>0, <1>1, <1>3, Zenon DEF Claim, Step, Asks
<1>4. CASE GetExisting(j)
  BY <1>0, <1>1, <1>4, Zenon DEF GetExisting, Step, Asks
<1>5. CASE GetRow(j)
  BY <1>0, <1>1, <1>5, ZenonT(30) DEF GetRow, Step, Asks
<1>6. CASE CreateRow(j)
  BY <1>0, <1>1, <1>6, ZenonT(30) DEF CreateRow, Step, Asks
<1>7. CASE PushJob(j)
  BY <1>0, <1>1, <1>7, ZenonT(30) DEF PushJob, Step, Asks
<1>8. CASE Release(j)
  BY <1>8, Zenon DEF Release, Step
<1>9. CASE ClientGone(j)
  BY <1>9, Zenon DEF ClientGone, Calm
<1>. QED  BY <1>2, <1>3, <1>4, <1>5, <1>6, <1>7, <1>8, <1>9, Zenon DEF Enqueue

\* Every step of the whole keeps the answers.
LEMMA AnswerStep ==
  ASSUME Calm, SysInv, AnswerInv, [SysNext]_sysVars
  PROVE  AnswerInv'
<1>0. /\ KeyOf \in [Jobs -> Keys] /\ NoJob \notin Jobs
      /\ idemKey \in [Keys -> Jobs \cup {NoJob}] /\ rpc \in [Jobs -> RequestPC]
      /\ answer \in [Jobs -> Jobs \cup {NoJob}]
  BY GatewayAssumption, Zenon DEF SysInv, GatewayTypeOK
<1>1. CASE GatewayStep
  <2>1. PICK j \in Jobs : Enqueue(j) \/ ClientGone(j)
    BY <1>1, Zenon DEF GatewayStep
  <2>2. Asks(j) /\ UNCHANGED rlive /\ \A i \in Jobs : i # j => rpc'[i] = rpc[i]
    BY <2>1, CalmAsks, Zenon DEF AnswerInv
  <2>3. CASE UNCHANGED <<idemKey, answer, accepted>>
    BY <1>0, <2>2, <2>3 DEF Asks, AnswerInv
  <2>4. CASE /\ rpc[j] = "claim" /\ idemKey[KeyOf[j]] = NoJob /\ rpc'[j] = "create"
             /\ idemKey' = [idemKey EXCEPT ![KeyOf[j]] = j] /\ UNCHANGED <<answer, accepted>>
    BY <1>0, <2>2, <2>4 DEF AnswerInv
  <2>5. CASE /\ rpc[j] = "get" /\ rpc'[j] = "getRow"
             /\ answer' = [answer EXCEPT ![j] = IF idemKey[KeyOf[j]] # NoJob THEN idemKey[KeyOf[j]] ELSE j]
             /\ UNCHANGED <<idemKey, accepted>>
    BY <1>0, <2>2, <2>5 DEF AnswerInv
  <2>6. CASE /\ rpc[j] = "push" /\ rpc'[j] = "accepted" /\ accepted' = accepted \cup {j}
             /\ UNCHANGED <<idemKey, answer>>
    BY <1>0, <2>2, <2>6 DEF AnswerInv
  <2>. QED  BY <2>2, <2>3, <2>4, <2>5, <2>6, Zenon DEF Asks
<1>2. CASE \/ PoolStep /\ UNCHANGED <<gatewayVars, adminVars>>
           \/ AdminStep /\ UNCHANGED <<poolVars, gatewayVars>>
           \/ SysRestart \/ UNCHANGED sysVars
  <2>1. accepted' = accepted
    BY <1>2, RowsElsewhere, Zenon
  <2>2. UNCHANGED <<idemKey, rlive, answer>>
    BY <1>2, Zenon DEF SysRestart, gatewayVars, sysVars
  <2>3. \A j \in Jobs : rpc'[j] = rpc[j] \/ (rpc'[j] = "error" /\ rpc[j] \notin {"accepted", "duplicate"})
    BY <1>2, Zenon DEF SysRestart, gatewayVars, sysVars, Outcomes
  <2>. QED  BY <1>0, <2>1, <2>2, <2>3 DEF AnswerInv
<1>. QED  BY <1>1, <1>2, Zenon DEF SysNext

\* They hold from the start.
LEMMA AnswerInvariant ==
  ASSUME Calm
  PROVE  SysSpec => [](SysInv /\ AnswerInv)
<1>1. SysInit => AnswerInv
  BY GatewayAssumption, Zenon DEF SysInit, GatewayInit, StoresInit, AnswerInv
<1>2. SysInv /\ AnswerInv /\ [SysNext]_sysVars => AnswerInv'
  BY AnswerStep, Zenon
<1>. QED  BY <1>1, <1>2, SysInitInv, SysStepInv, PTL DEF SysSpec

\* Nothing restarts a process that is neither stopped nor killed.
KeepsRunning == ctxLive = TRUE /\ waiter = "none" /\ ret = "none" /\ \A j \in Jobs : rpc[j] # "error"

LEMMA KeepsRunningStep ==
  ASSUME Calm, "crash" \notin Env, "shutdown" \notin Env,
         SysInv, AnswerInv, KeepsRunning, [SysNext]_sysVars
  PROVE  KeepsRunning'
<1>1. CASE PoolStep /\ UNCHANGED <<gatewayVars, adminVars>>
  <2>1. ASSUME Dispatcher PROVE UNCHANGED <<ctxLive, waiter, ret>>
    BY <2>1, Zenon DEF Dispatcher, DispatchCheck, DispatchPop, DispatchNoJob, DispatchPopError, DispatchSend,
        DispatchRequeue
  <2>2. ASSUME NEW c \in Copy, Retry(c) PROVE UNCHANGED <<ctxLive, waiter, ret>>
    BY <2>2, Zenon DEF Retry, RetryTimer, RetryAgain, RetryCancelled
  <2>3. ASSUME NEW w \in Workers, Worker(w) PROVE UNCHANGED <<ctxLive, waiter, ret>>
    BY <2>3, Zenon
       DEF Worker, WorkerReceive, WorkerExit, WorkerGetDone, WorkerSetLock, WorkerMark, WorkerRun,
           WorkerSuccess, WorkerSuccessDone, WorkerAttempt, WorkerDeadLetter, WorkerDeadLetterPush,
           WorkerDeadLetterDone, WorkerRetry, WorkerSpawn, WorkerUnlock, UpdateThen, SetDone, Goto, Return, localVars
  <2>4. ~ Cancel /\ ~ Shutdown /\ ~ ShutdownWait /\ ~ ShutdownReturn
    BY Zenon DEF Cancel, Shutdown, ShutdownWait, ShutdownReturn, KeepsRunning
  <2>5. ASSUME NEW j \in Jobs, LockExpire(j) PROVE UNCHANGED <<ctxLive, waiter, ret>>
    BY <2>5, Zenon DEF LockExpire, poolVars, localVars
  <2>6. UNCHANGED <<ctxLive, waiter, ret>>
    BY <1>1, <2>1, <2>2, <2>3, <2>4, <2>5, Zenon DEF PoolStep
  <2>. QED  BY <1>1, <2>6, Zenon DEF KeepsRunning, gatewayVars
<1>2. CASE GatewayStep /\ UNCHANGED <<poolVars, adminVars>>
  <2>1. PICK j \in Jobs : Enqueue(j) \/ ClientGone(j)
    BY <1>2, Zenon DEF GatewayStep
  <2>2. Asks(j) /\ \A i \in Jobs : i # j => rpc'[i] = rpc[i]
    BY <2>1, CalmAsks, Zenon DEF AnswerInv
  <2>3. UNCHANGED <<ctxLive, waiter, ret>>
    BY <1>2, Zenon DEF poolVars, localVars
  <2>. QED  BY <2>2, <2>3, Zenon DEF Asks, KeepsRunning
<1>3. CASE (AdminStep /\ UNCHANGED <<poolVars, gatewayVars>>) \/ UNCHANGED sysVars
  <2>1. UNCHANGED <<ctxLive, waiter, ret, rpc>>
    BY <1>3, Zenon DEF poolVars, localVars, gatewayVars, sysVars
  <2>. QED  BY <2>1, Zenon DEF KeepsRunning
<1>4. ~ SysRestart
  BY Zenon DEF SysRestart, Restart, KeepsRunning
<1>. QED  BY <1>1, <1>2, <1>3, <1>4, Zenon DEF SysNext

\* While nothing fails a request answered 200 names another request with the
\* same key, one that is still being accepted or was answered 202; and this
\* whatever workers and admins do to the job meanwhile.
THEOREM SystemDuplicates ==
  ASSUME Calm, "crash" \notin Env, "shutdown" \notin Env
  PROVE  SysSpec => []DuplicateNamesOriginal
<1>2. SysInit => KeepsRunning
  BY Zenon DEF SysInit, PoolInit, GatewayInit, KeepsRunning
<1>3. SysInv /\ AnswerInv /\ KeepsRunning /\ [SysNext]_sysVars => KeepsRunning'
  BY KeepsRunningStep, Zenon
<1>4. SysInv /\ AnswerInv /\ KeepsRunning => DuplicateNamesOriginal
  BY GatewayAssumption DEF AnswerInv, KeepsRunning, DuplicateNamesOriginal, SysInv, GatewayTypeOK
<1>. QED  BY <1>2, <1>3, <1>4, AnswerInvariant, PTL DEF SysSpec

-----------------------------------------------------------------------------
(***************************************************************************)
(* The steps of requests and of the pool as the other side sees them.      *)
(***************************************************************************)
\* A step of a request as the pool sees it: a submission, or no more than a
\* new row.
LEMMA RequestSeen ==
  ASSUME SysInv, FreshInv, GatewayStep, UNCHANGED poolVars
  PROVE  /\ UNCHANGED <<jobs, held, dpc, wpc, wjob, timer, repush, ctxLive, restarts, runs>>
         /\ UNCHANGED <<doneKey, lockKey, deadLetter, attempts>>
         /\ faults' \in {faults, faults + 1}
         /\ \/ /\ \E i \in Jobs : i \notin accepted /\ Push(NewJob(i)) /\ accepted' = accepted \cup {i}
               /\ row' = row
            \/ UNCHANGED <<queue, accepted>>
         /\ \A i \in Jobs : row'[i] = row[i] \/ (row[i].status = "absent" /\ row'[i].status = "QUEUED")
<1>1. PICK j \in Jobs : Enqueue(j) \/ ClientGone(j)
  BY Zenon DEF GatewayStep
<1>2. UNCHANGED <<doneKey, lockKey, deadLetter, attempts>>
  BY <1>1, Zenon DEF Enqueue, ClientGone, Validate, Claim, GetExisting, GetRow, CreateRow, PushJob, Release, storeVars
<1>3. UNCHANGED <<jobs, held, dpc, wpc, wjob, timer, repush, ctxLive, restarts, runs>>
  BY Zenon DEF poolVars, localVars
<1>4. rpc[j] = "push" => j \notin accepted
  BY Zenon DEF FreshInv, Undecided
<1>5. ASSUME rpc[j] = "create", Create(j)
      PROVE  \A i \in Jobs : row'[i] = row[i] \/ (row[i].status = "absent" /\ row'[i].status = "QUEUED")
  BY <1>5 DEF FreshInv, Undecided, Create, SysInv, TypeInv, TypeOK, StoresTypeOK
<1>. QED  BY <1>1, <1>2, <1>3, <1>4, <1>5, EnqueueDoes

\* No call fails when no store does.
LEMMA CalmPool ==
  ASSUME Calm, TypeInv, PoolStep
  PROVE  faults' = faults
<1>0. \A live, ok : Call("redis", live, ok) \/ Call("db", live, ok) => faults' = faults
  BY Zenon DEF Call, Calm
<1>1. CASE Dispatcher
  BY <1>0, <1>1, Zenon DEF Dispatcher, DispatchCheck, DispatchPop, DispatchNoJob, DispatchPopError, DispatchSend,
      DispatchRequeue, storeVars
<1>2. ASSUME NEW c \in Copy, Retry(c) PROVE faults' = faults
  BY <1>0, <1>2, Zenon DEF Retry, RetryTimer, RetryAgain, RetryCancelled, BackgroundPush
<1>3. ASSUME NEW w \in Workers, Worker(w) PROVE faults' = faults
  BY <1>0, <1>3, Zenon
     DEF Worker, WorkerReceive, WorkerExit, WorkerGetDone, WorkerSetLock, WorkerMark, WorkerRun,
         WorkerSuccess, WorkerSuccessDone, WorkerAttempt, WorkerDeadLetter, WorkerDeadLetterPush,
         WorkerDeadLetterDone, WorkerRetry, WorkerSpawn, WorkerUnlock, UpdateThen, SetDone, storeVars
<1>4. CASE Cancel \/ Shutdown \/ ShutdownWait \/ ShutdownReturn
  BY <1>4, Zenon DEF Cancel, Shutdown, ShutdownWait, ShutdownReturn, storeVars
<1>5. ASSUME NEW j \in Jobs, LockExpire(j) PROVE faults' = faults
  BY <1>5, Zenon DEF LockExpire
<1>. QED  BY <1>1, <1>2, <1>3, <1>4, <1>5 DEF PoolStep

\* A step of a request takes its key, is told the holder of the key, or does
\* nothing that a client sees.
LEMMA RequestTells ==
  ASSUME SysInv, GwInv, FreshInv, AnswerInv, NEW j \in Jobs, Asks(j), \A i \in Jobs : i # j => rpc'[i] = rpc[i]
  PROVE  Promise!Own(j) \/ Promise!Tell(j) \/ UNCHANGED <<idemKey, toldNow, resultNow>>
<1>0. /\ KeyOf \in [Jobs -> Keys] /\ NoJob \notin Jobs
      /\ idemKey \in [Keys -> Jobs \cup {NoJob}] /\ rpc \in [Jobs -> RequestPC]
      /\ answer \in [Jobs -> Jobs \cup {NoJob}] /\ row \in [Jobs -> Row]
  BY GatewayAssumption DEF SysInv, GatewayTypeOK, TypeInv, TypeOK, StoresTypeOK
<1>1. resultNow' = resultNow
  <2>1. CASE row' = row
    BY <2>1, Zenon DEF resultNow, Terminal
  <2>2. CASE rpc[j] = "create" /\ Create(j)
    <3>1. \A i \in Jobs : row'[i] = row[i] \/ (row[i].status = "absent" /\ row'[i].status = "QUEUED")
      BY <1>0, <2>2 DEF FreshInv, Undecided, Create
    <3>. QED  BY <3>1, Zenon DEF resultNow, Terminal
  <2>. QED  BY <2>1, <2>2 DEF Asks
<1>2. ASSUME answer'[j] = answer[j] \/ rpc[j] = "get", \A i \in Jobs : i # j => answer'[i] = answer[i],
             rpc[j] \notin {"accepted", "duplicate"}, rpc'[j] \notin {"accepted", "duplicate"}
      PROVE  toldNow' = toldNow
  BY <1>2, Zenon DEF toldNow
<1>3. CASE /\ rpc[j] = "claim" /\ idemKey[KeyOf[j]] = NoJob /\ rpc'[j] = "create"
           /\ idemKey' = [idemKey EXCEPT ![KeyOf[j]] = j] /\ UNCHANGED answer
  <2>1. j \in Valid /\ toldNow' = toldNow
    BY <1>2, <1>3 DEF FreshInv
  <2>. QED  BY <1>1, <1>3, <2>1 DEF Promise!Own
<1>4. CASE /\ \/ rpc[j] = "push" /\ rpc'[j] = "accepted"
              \/ rpc[j] = "getRow" /\ rpc'[j] = "duplicate"
           /\ UNCHANGED <<idemKey, answer>>
  <2>1. idemKey[KeyOf[j]] # NoJob /\ (rpc[j] = "push" => idemKey[KeyOf[j]] = j)
        /\ (rpc[j] = "getRow" => answer[j] = idemKey[KeyOf[j]])
    BY <1>0, <1>4 DEF AnswerInv, GwInv, HoldsKey
  <2>2. toldNow[j] = NoJob
    BY <1>4, Zenon DEF toldNow
  <2>3. toldNow' = [toldNow EXCEPT ![j] = idemKey[KeyOf[j]]]
    BY <1>4, <2>1, Zenon DEF toldNow
  <2>. QED  BY <1>1, <1>4, <2>1, <2>2, <2>3 DEF Promise!Tell
<1>5. CASE /\ idemKey' = idemKey /\ rpc[j] \in {"new", "claim", "get", "create"}
           /\ rpc'[j] \in {"claim", "invalid", "get", "getRow", "push"}
           /\ answer'[j] = answer[j] \/ rpc[j] = "get"
           /\ \A i \in Jobs : i # j => answer'[i] = answer[i]
  BY <1>1, <1>2, <1>5
<1>. QED  BY <1>0, <1>3, <1>4, <1>5 DEF Asks

-----------------------------------------------------------------------------
(***************************************************************************)
(* Attempts.  Between the call of the processor and the AddAttempt that    *)
(* records it, a worker owes the row; it can lose it but not add a second. *)
(***************************************************************************)
Owing == {"succUpdate", "succDone", "succAttempt", "attemptDead", "attemptRetry"}

OwedBy(j, pc, c) == IF pc \in Owing /\ c.id = j THEN 1 ELSE 0

\* A worker's step records no more than was run.
LEMMA WorkerOwes ==
  ASSUME TypeInv, NEW w \in Workers, Worker(w), NEW j \in Jobs
  PROVE  /\ attempts'[j] + OwedBy(j, wpc'[w], wjob'[w]) + runs[j]
              <= attempts[j] + OwedBy(j, wpc[w], wjob[w]) + runs'[j]
         /\ attempts'[j] \in Nat /\ runs'[j] \in Nat
<1>0. attempts \in [Jobs -> Nat] /\ runs \in [Jobs -> Nat] /\ (wpc[w] \in Owing \cup {"run"} => wjob[w].id \in Jobs)
  BY Zenon DEF TypeInv, TypeOK, StoresTypeOK, PoolTypeOK, Copy, Owing
<1>. DEFINE NoMore == /\ attempts'[j] + OwedBy(j, wpc'[w], wjob'[w]) + runs[j]
                           <= attempts[j] + OwedBy(j, wpc[w], wjob[w]) + runs'[j]
                      /\ attempts'[j] \in Nat /\ runs'[j] \in Nat
<1>1. ASSUME UNCHANGED <<attempts, runs>>,
             wpc'[w] \notin Owing \/ (wpc[w] \in Owing /\ wjob'[w] = wjob[w])
      PROVE  NoMore
  BY <1>0, <1>1 DEF OwedBy
<1>2. CASE WorkerRun(w)
  <2>1. wpc[w] = "run" /\ wpc'[w] \in Owing /\ wjob'[w] = wjob[w] /\ attempts' = attempts
        /\ runs' = [runs EXCEPT ![wjob[w].id] = @ + 1]
    BY <1>2, WorkerTo, Zenon DEF WorkerRun, storeVars, Owing
  <2>. QED  BY <1>0, <2>1 DEF OwedBy, Owing
<1>3. CASE WorkerAttempt(w)
  <2>1. /\ wpc[w] \in {"succAttempt", "attemptDead", "attemptRetry"} /\ runs' = runs
        /\ AddAttempt(wjob[w]) \/ attempts' = attempts
        /\ Goto(w, AttemptNext(wpc[w]))
    BY <1>3, Zenon DEF WorkerAttempt
  <2>2. wpc'[w] \notin Owing
    BY <2>1, WorkerTo DEF AttemptNext, Owing
  <2>. QED  BY <1>0, <2>1, <2>2 DEF OwedBy, Owing, AddAttempt
<1>4. CASE WorkerSuccess(w)
  <2>1. UpdateThen(w, wjob[w], "SUCCESS", "succDone") /\ wpc[w] = "succUpdate"
    BY <1>4, Zenon DEF WorkerSuccess
  <2>2. UNCHANGED <<attempts, runs>>
    BY <2>1, Zenon DEF UpdateThen
  <2>3. wjob'[w] = wjob[w]
    BY <2>1, WorkerTo
  <2>. QED  BY <1>1, <2>1, <2>2, <2>3 DEF Owing
<1>5. CASE WorkerSuccessDone(w)
  <2>1. wpc[w] = "succDone" /\ Goto(w, "succAttempt") /\ UNCHANGED <<attempts, runs>>
    BY <1>5, Zenon DEF WorkerSuccessDone, SetDone
  <2>2. wjob'[w] = wjob[w]
    BY <2>1, WorkerTo, Zenon
  <2>. QED  BY <1>1, <2>1, <2>2 DEF Owing
<1>6. CASE WorkerReceive(w) \/ WorkerExit(w) \/ WorkerGetDone(w) \/ WorkerSetLock(w)
  <2>0. wpc \in [Workers -> WorkerPC]
    BY DEF TypeInv, TypeOK, PoolTypeOK
  <2>1. UNCHANGED <<attempts, runs>>
    BY <1>6, Zenon DEF WorkerReceive, WorkerExit, WorkerGetDone, WorkerSetLock, storeVars
  <2>2. wpc'[w] \notin Owing
    BY <1>6, <2>0 DEF WorkerReceive, WorkerExit, WorkerGetDone, WorkerSetLock, Owing, Goto, Return
  <2>. QED  BY <1>1, <2>1, <2>2
<1>7. CASE WorkerMark(w) \/ WorkerDeadLetter(w) \/ WorkerRetry(w)
  <2>1. UNCHANGED <<attempts, runs>>
    BY <1>7 DEF WorkerMark, WorkerDeadLetter, WorkerRetry, UpdateThen
  <2>2. wpc'[w] \notin Owing
    BY <1>7, WorkerTo DEF WorkerMark, WorkerDeadLetter, WorkerRetry, Owing
  <2>. QED  BY <1>1, <2>1, <2>2, Zenon
<1>8. CASE WorkerDeadLetterPush(w) \/ WorkerDeadLetterDone(w) \/ WorkerSpawn(w) \/ WorkerUnlock(w)
  <2>1. UNCHANGED <<attempts, runs>>
    BY <1>8, Zenon DEF WorkerDeadLetterPush, WorkerDeadLetterDone, WorkerSpawn, WorkerUnlock, storeVars
  <2>2. Goto(w, "dlDone") \/ Goto(w, "unlock") \/ Return(w)
    BY <1>8, Zenon DEF WorkerDeadLetterPush, WorkerDeadLetterDone, WorkerSpawn, WorkerUnlock
  <2>3. wpc'[w] \in {"dlDone", "unlock", "idle"}
    BY <2>2, WorkerTo, Zenon
  <2>. QED  BY <1>1, <2>1, <2>3, Zenon DEF Owing
<1>. QED  BY <1>2, <1>3, <1>4, <1>5, <1>6, <1>7, <1>8, Zenon DEF Worker
=============================================================================
