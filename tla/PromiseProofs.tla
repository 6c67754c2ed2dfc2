---------------------------- MODULE PromiseProofs ---------------------------
(***************************************************************************)
(* What the gateway as a whole promises: the bounds on copies, runs and    *)
(* attempts beside the requests, and the promise to the clients that the   *)
(* requests and the pool implement together.                               *)
(***************************************************************************)
EXTENDS SystemProofs, RecordProofs

-----------------------------------------------------------------------------
(***************************************************************************)
(* The promises of the pool, kept beside the requests.  No admin retries:  *)
(* RetryJob pushes a second copy of a job.                                 *)
(***************************************************************************)
\* Every step of the whole keeps the pool's budget.
LEMMA SysBudget ==
  ASSUME Admins = {}, SysInv, FreshInv, Budget, [SysNext]_sysVars
  PROVE  Budget'
<1>. SUFFICES ASSUME NEW m \in Modes, NEW j \in Jobs PROVE WithinBudget(m, j)'
  BY Zenon DEF Budget
<1>1. TypeInv /\ TypeInv' /\ PartsNat /\ PartsNat' /\ WithinBudget(m, j)
  BY SysStepInv, PartsType, PartsTypeNext DEF Budget, SysInv
<1>2. CASE PoolStep
  BY <1>1, <1>2, PoolStepBudget
<1>3. CASE GatewayStep /\ UNCHANGED <<poolVars, adminVars>>
  <2>1. CASE \E i \in Jobs : i \notin accepted /\ Push(NewJob(i)) /\ accepted' = accepted \cup {i} /\ row' = row
    BY <1>1, <1>3, <2>1, RequestSeen, SubmitBudget
  <2>2. CASE UNCHANGED <<queue, accepted>>
    <3>1. \A i \in Jobs : Terminal(i)' => Terminal(i)
      BY <1>3, RequestSeen, Zenon DEF Terminal
    <3>. QED  BY <1>1, <1>3, <2>2, <3>1, RequestSeen, CreateBudget
  <2>. QED  BY <1>3, <2>1, <2>2, RequestSeen
<1>4. CASE SysRestart
  BY <1>1, <1>4, RestartBudget DEF SysRestart
<1>5. CASE UNCHANGED sysVars
  <2>1. UNCHANGED <<queue, jobs, held, wpc, wjob, timer, repush, doneKey, runs, row, deadLetter, accepted, faults>>
    BY <1>5, Zenon DEF sysVars, storeVars, poolVars, localVars
  <2>. QED  BY <1>1, <2>1, SpentType DEF WithinBudget, Load, Granted
<1>. QED  BY <1>2, <1>3, <1>4, <1>5 DEF SysNext, AdminStep

\* And the order in which the pool writes its records.
LEMMA SysRecords ==
  ASSUME Admins = {}, SysInv, GwInv, FreshInv, Budget, RecordInv, [SysNext]_sysVars
  PROVE  RecordInv'
<1>1. CASE PoolStep
  <2>1. AcceptedHasRow
    BY Zenon DEF GwInv, QueuedHasRow, AcceptedHasRow
  <2>. QED  BY <1>1, <2>1, RecordStep DEF SysInv
<1>2. CASE SysRestart
  <2>1. UNCHANGED <<row, doneKey, deadLetter, faults>> /\ wpc' = [w \in Workers |-> "idle"]
    BY <1>2, Zenon DEF SysRestart, Restart, storeVars
  <2>2. \A w \in Workers : WrittenBy(w)'
    BY <2>1, Zenon DEF WrittenBy
  <2>3. \A j \in Jobs : RecordedFor(j)' <=> RecordedFor(j)
    BY <2>1, Zenon DEF RecordedFor, Listed, Terminal
  <2>. QED  BY <2>1, <2>2, <2>3 DEF RecordInv
<1>3. CASE \/ GatewayStep /\ UNCHANGED <<poolVars, adminVars>>
           \/ UNCHANGED sysVars
  <2>1. /\ UNCHANGED <<doneKey, deadLetter, wpc, wjob, ctxLive>> /\ faults' \in {faults, faults + 1}
        /\ \A i \in Jobs : row'[i] = row[i] \/ (row[i].status = "absent" /\ row'[i].status = "QUEUED")
    <3>1. CASE UNCHANGED sysVars
      <4>1. UNCHANGED <<row, doneKey, deadLetter, wpc, wjob, ctxLive, faults>>
        BY <3>1, Zenon DEF sysVars, storeVars, poolVars, localVars
      <4>. QED  BY <4>1, Zenon
    <3>. QED  BY <1>3, <3>1, RequestSeen
  <2>. SUFFICES ASSUME faults' = 0
                PROVE  (ctxLive => \A w \in Workers : WrittenBy(w))' /\ \A j \in Jobs : RecordedFor(j)'
    BY Zenon DEF RecordInv
  <2>2. faults = 0
    BY <2>1, StoresAssumption DEF SysInv, TypeInv, TypeOK, StoresTypeOK
  <2>3. \A w \in Workers : wpc[w] \in {"succDone", "dlPush", "dlDone"} => wjob[w].id \in Jobs
    BY Zenon DEF SysInv, TypeInv, TypeOK, PoolTypeOK, Copy
  <2>4. \A j : Listed(j)' <=> Listed(j)
    BY <2>1, Zenon DEF Listed
  <2>5. \A w \in Workers : WrittenBy(w) => WrittenBy(w)'
    BY <2>1, <2>3, <2>4 DEF WrittenBy
  <2>6. \A j \in Jobs : RecordedFor(j) => RecordedFor(j)'
    BY <2>1, <2>4, Zenon DEF RecordedFor, Terminal
  <2>. QED  BY <2>1, <2>2, <2>5, <2>6 DEF RecordInv
<1>. QED  BY <1>1, <1>2, <1>3 DEF SysNext, AdminStep

\* And, as long as nothing fails, where an accepted job is.
LEMMA SysPlaces ==
  ASSUME "shortBackoff" \notin Env, Admins = {}, SysInv, FreshInv, PlaceInv, [SysNext]_sysVars
  PROVE  PlaceInv'
<1>1. CASE PoolStep
  BY <1>1, RegisteredStep, HeldStep, PresentStep DEF PlaceInv, SysInv
<1>2. CASE SysRestart
  <2>1. /\ restarts' = restarts + 1 /\ restarts \in Nat /\ held' = NoCopy
        /\ wpc' = [w \in Workers |-> "idle"]
    BY <1>2, PoolAssumption DEF SysRestart, Restart, SysInv, TypeInv, TypeOK, PoolTypeOK
  <2>2. ~ Undisturbed'
    BY <2>1 DEF Undisturbed
  <2>. QED  BY <2>1, <2>2, StoresAssumption DEF PlaceInv, OnlyRegistered, HeldToSend, PresentInv, LockedPC
<1>3. CASE \/ GatewayStep /\ UNCHANGED <<poolVars, adminVars>>
           \/ UNCHANGED sysVars
  <2>1. /\ UNCHANGED <<jobs, held, dpc, wpc, wjob, timer, repush, doneKey, lockKey, ctxLive, restarts>>
        /\ faults' \in {faults, faults + 1}
        /\ \/ \E i \in Jobs : Push(NewJob(i)) /\ accepted' = accepted \cup {i}
           \/ UNCHANGED <<queue, accepted>>
    <3>1. CASE UNCHANGED sysVars
      <4>1. UNCHANGED <<jobs, held, dpc, wpc, wjob, timer, repush, doneKey, lockKey, ctxLive, restarts, queue, accepted, faults>>
        BY <3>1, Zenon DEF sysVars, storeVars, poolVars, localVars
      <4>. QED  BY <4>1, Zenon
    <3>. QED  BY <1>3, <3>1, RequestSeen
  <2>2. /\ \A j : Queued(j) => Queued(j)'
        /\ \A j \in accepted' \ accepted : Queued(j)'
    <3>1. ASSUME NEW i \in Jobs, Push(NewJob(i)), accepted' = accepted \cup {i}
          PROVE  Queued(i)' /\ \A j : Queued(j) => Queued(j)'
      <4>1. PICK c : c = NewJob(i)
        BY Zenon
      <4>2. c \in Copy /\ c.id = i
        BY <4>1, StoresAssumption DEF NewJob, Copy
      <4>. QED  BY <3>1, <4>1, <4>2, PushQueued DEF SysInv
    <3>2. CASE UNCHANGED <<queue, accepted>>
      BY <3>2, Zenon DEF Queued
    <3>. QED  BY <2>1, <3>1, <3>2
  <2>3. OnlyRegistered' /\ HeldToSend'
    BY <2>1, Zenon DEF PlaceInv, OnlyRegistered, HeldToSend, Registered
  <2>4. Undisturbed' => Undisturbed
    BY <2>1, StoresAssumption DEF Undisturbed, SysInv, TypeInv, TypeOK, StoresTypeOK
  <2>5. Undisturbed => PresentInv'
    BY <2>1, <2>2, MovesNothing, Zenon DEF PlaceInv
  <2>. QED  BY <2>3, <2>4, <2>5, Zenon DEF PlaceInv, PresentInv
<1>. QED  BY <1>1, <1>2, <1>3 DEF SysNext, AdminStep

\* What holds of the pool at the start.
LEMMA SysPoolInit == SysInit => Budget /\ RecordInv /\ PlaceInv
<1>. SUFFICES ASSUME SysInit PROVE Budget /\ RecordInv /\ PlaceInv
  BY Zenon
<1>1. StoresInit("absent") /\ PoolInit
  BY Zenon DEF SysInit
<1>2. Budget
  BY <1>1, InitBudget, Zenon DEF Budget
<1>3. RecordInv
  <2>1. \A w \in Workers : WrittenBy(w)
    BY <1>1, Zenon DEF PoolInit, WrittenBy
  <2>2. \A j \in Jobs : RecordedFor(j)
    BY <1>1 DEF StoresInit, RecordedFor, Listed
  <2>. QED  BY <2>1, <2>2, Zenon DEF RecordInv
<1>4. PlaceInv
  <2>1. wpc = [w \in Workers |-> "idle"] /\ held = NoCopy /\ accepted = {} /\ lockKey = {}
    BY <1>1, Zenon DEF PoolInit, StoresInit
  <2>2. \A w \in Workers : Handed(w)
    BY <2>1, Zenon DEF Handed
  <2>. QED  BY <2>1, <2>2, StoresAssumption DEF PlaceInv, OnlyRegistered, HeldToSend, PresentInv, LockedPC
<1>. QED  BY <1>2, <1>3, <1>4, Zenon

\* The pool's invariants in the whole.
LEMMA SysPoolInvariant ==
  ASSUME Admins = {}
  PROVE  SysSpec => [](SysInv /\ GwInv /\ FreshInv /\ Budget /\ RecordInv)
<1>1. SysInv /\ GwInv /\ FreshInv /\ Budget /\ RecordInv /\ [SysNext]_sysVars => Budget' /\ RecordInv'
  BY SysBudget, SysRecords, Zenon
<1>. QED  BY <1>1, SysPoolInit, SysGwInvariant, PTL DEF SysSpec

\* With requests as the only source of jobs the pool keeps its bounds: copies
\* and runs of a job are bounded by the calls that failed, a failing Push of
\* Enqueue included, and while none fails a job's row, dead-letter entry and
\* job:done marker agree.
THEOREM SystemKeepsBudgets ==
  ASSUME Admins = {}
  PROVE  SysSpec => [](RunBudget /\ CopiesPerFault /\ DoneIsTerminal /\ DeadLetterMatches)
<1>1. SysInv => TypeInv
  BY Zenon DEF SysInv
<1>. QED  BY <1>1, SysPoolInvariant, BudgetBoundsRuns, BudgetBoundsCopies, RecordsDone, RecordsListed, PTL

\* Until something fails a job that Enqueue pushed is in exactly one place.
THEOREM SystemOnePlace ==
  ASSUME "shortBackoff" \notin Env, Admins = {}
  PROVE  SysSpec => []OnePlace
<1>1. SysInv => TypeInv
  BY Zenon DEF SysInv
<1>2. SysInv /\ FreshInv /\ PlaceInv /\ [SysNext]_sysVars => PlaceInv'
  BY SysPlaces, Zenon
<1>. QED  BY <1>1, <1>2, SysPoolInit, SysPoolInvariant, PlaceIsOne, PTL DEF SysSpec

-----------------------------------------------------------------------------
(***************************************************************************)
(* The refinement.  While no call fails and no client goes, a request owns *)
(* a key or tells its client, and a worker that writes a terminal row ends *)
(* a job; every other step leaves the promise alone.                       *)
(***************************************************************************)
\* The step of a worker that writes a terminal row ends the job its key
\* stands for, and no other step changes a result.
LEMMA PoolEnds ==
  ASSUME Calm, SysInv, GwInv, Budget, AnswerInv, faults = 0, PoolStep,
         UNCHANGED gatewayVars
  PROVE  (\E j \in Jobs : Promise!End(j)) \/ UNCHANGED <<idemKey, toldNow, resultNow>>
<1>0. UNCHANGED <<idemKey, rpc, answer>> /\ toldNow' = toldNow /\ row \in [Jobs -> Row]
  BY Zenon DEF gatewayVars, toldNow, SysInv, TypeInv, TypeOK, StoresTypeOK
<1>1. \A j \in Jobs : Terminal(j) => row'[j] = row[j]
  BY TerminalFrozen, Zenon DEF SysInv
<1>2. ASSUME NEW w \in Workers, wpc[w] \in {"mark", "succUpdate", "dlUpdate", "retryUpdate"},
             NEW c \in Copy, NEW s \in JobStatus, c.id = wjob[w].id, Update(c, s)
      PROVE  (\E j \in Jobs : Promise!End(j)) \/ resultNow' = resultNow
  <2>1. PICK j : j = wjob[w].id
    BY Zenon
  <2>2. j \in Jobs /\ j \in accepted
    BY <1>2, <2>1, WorksOnAccepted DEF SysInv
  <2>3. idemKey[KeyOf[j]] = j
    BY <2>2, Zenon DEF AnswerInv, GwInv, HoldsKey
  <2>4. \A i \in Jobs : i # j => row'[i] = row[i]
    BY <1>0, <1>2, <2>1 DEF Update
  <2>5. CASE Terminal(j)
    BY <1>1, <2>4, <2>5 DEF resultNow, Terminal
  <2>6. CASE ~ Terminal(j) /\ ~ Terminal(j)'
    BY <2>4, <2>6 DEF resultNow, Terminal
  <2>7. CASE ~ Terminal(j) /\ Terminal(j)'
    <3>1. resultNow[j] = "open" /\ row'[j].status \in Promise!Results
      BY <2>2, <2>7, Zenon DEF resultNow, Terminal, Promise!Results
    <3>2. resultNow' = [resultNow EXCEPT ![j] = row'[j].status]
      BY <2>2, <2>4, <2>7, Zenon DEF resultNow, Terminal
    <3>3. Promise!End(j)
      BY <1>0, <2>3, <3>1, <3>2, Zenon DEF Promise!End
    <3>. QED  BY <2>2, <3>3, Zenon
  <2>. QED  BY <2>5, <2>6, <2>7
<1>3. CASE row' = row
  <2>1. resultNow' = resultNow
    BY <1>3, Zenon DEF resultNow, Terminal
  <2>. QED  BY <1>0, <2>1
<1>4. ASSUME NEW w \in Workers, Worker(w)
      PROVE  (\E j \in Jobs : Promise!End(j)) \/ UNCHANGED <<idemKey, toldNow, resultNow>>
  <2>1. \/ row' = row
        \/ /\ wpc[w] \in {"mark", "succUpdate", "dlUpdate", "retryUpdate"}
           /\ \E c \in Copy, s \in JobStatus : c.id = wjob[w].id /\ Update(c, s)
    BY <1>4, WorkerUpdates DEF SysInv
  <2>. QED  BY <1>0, <1>2, <1>3, <2>1
<1>5. CASE ~ \E w \in Workers : Worker(w)
  BY <1>3, <1>5, OthersWriteNothing
<1>. QED  BY <1>4, <1>5

\* Every step of the whole is a step of the promise, or none.
LEMMA SystemStepRefines ==
  ASSUME Calm, Admins = {},
         SysInv, GwInv, FreshInv, Budget, AnswerInv, faults = 0, [SysNext]_sysVars
  PROVE  faults' = 0 /\ [Promise!GPNext]_<<idemKey, toldNow, resultNow>>
<1>. SUFFICES faults' = 0 /\ (Promise!GPNext \/ UNCHANGED <<idemKey, toldNow, resultNow>>)
  BY Zenon
<1>1. CASE PoolStep /\ UNCHANGED <<gatewayVars, adminVars>>
  <2>1. faults' = 0
    BY <1>1, CalmPool DEF SysInv
  <2>2. (\E j \in Jobs : Promise!End(j)) \/ UNCHANGED <<idemKey, toldNow, resultNow>>
    BY <1>1, PoolEnds
  <2>. QED  BY <2>1, <2>2 DEF Promise!GPNext
<1>2. CASE GatewayStep
  <2>1. PICK j \in Jobs : Enqueue(j) \/ ClientGone(j)
    BY <1>2, Zenon DEF GatewayStep
  <2>2. Asks(j) /\ UNCHANGED faults /\ \A i \in Jobs : i # j => rpc'[i] = rpc[i]
    BY <2>1, CalmAsks, Zenon DEF AnswerInv
  <2>3. Promise!Own(j) \/ Promise!Tell(j) \/ UNCHANGED <<idemKey, toldNow, resultNow>>
    BY <2>2, RequestTells, Zenon
  <2>. QED  BY <2>2, <2>3 DEF Promise!GPNext
<1>3. CASE SysRestart
  <2>1. UNCHANGED <<row, faults, idemKey, answer>>
    BY <1>3, Zenon DEF SysRestart, Restart, storeVars
  <2>2. \A j \in Jobs : rpc'[j] = rpc[j] \/ (rpc'[j] = "error" /\ rpc[j] \notin {"accepted", "duplicate"})
    BY <1>3, Zenon DEF SysRestart, Outcomes
  <2>3. toldNow' = toldNow /\ resultNow' = resultNow
    BY <2>1, <2>2, Zenon DEF toldNow, resultNow, Terminal
  <2>. QED  BY <2>1, <2>3, Zenon
<1>4. CASE UNCHANGED sysVars
  <2>1. UNCHANGED <<row, faults, idemKey, answer, rpc>>
    BY <1>4, Zenon DEF sysVars, storeVars, gatewayVars
  <2>2. toldNow' = toldNow /\ resultNow' = resultNow
    BY <2>1, Zenon DEF toldNow, resultNow, Terminal
  <2>. QED  BY <2>1, <2>2, Zenon
<1>. QED  BY <1>1, <1>2, <1>3, <1>4 DEF SysNext, AdminStep

\* The whole system implements the safety part of GatewayPromise while no
\* call to a store fails, whatever else happens: crashes, shutdowns, slow
\* jobs and short retry delays included.  A key once owned is owned for good,
\* every answered request with the key is told its owner, and only the owner
\* of a key ends, once.
THEOREM SystemImplementsPromise ==
  ASSUME Calm, Admins = {}
  PROVE  SysSpec => Promise!GPSafety
<1>1. SysInit => Promise!GPInit /\ faults = 0
  BY DEF SysInit, StoresInit, GatewayInit, Promise!GPInit, toldNow, resultNow, Terminal
<1>2. SysInv /\ GwInv /\ FreshInv /\ Budget /\ AnswerInv /\ faults = 0 /\ [SysNext]_sysVars
        => (faults = 0)' /\ [Promise!GPNext]_<<idemKey, toldNow, resultNow>>
  BY SystemStepRefines, Zenon
<1>. QED  BY <1>1, <1>2, SysPoolInvariant, AnswerInvariant, PTL DEF SysSpec, Promise!GPSafety

\* While no call fails, no step of the whole writes a terminal row again: a
\* request's Create makes a row that was missing.
THEOREM SystemTerminalStays ==
  ASSUME Admins = {}
  PROVE  SysSpec => TerminalStays
<1>1. SysInv /\ FreshInv /\ Budget /\ [SysNext]_sysVars
        => [(faults' = 0 => \A j \in Jobs : Terminal(j) => row'[j] = row[j])]_vars
  <2>. SUFFICES ASSUME SysInv, FreshInv, Budget, [SysNext]_sysVars, faults' = 0, NEW j \in Jobs, Terminal(j)
                PROVE  row'[j] = row[j]
    BY Zenon
  <2>1. CASE PoolStep
    <3>1. faults = 0
      BY <2>1, FaultsGrow, StoresAssumption DEF SysInv, TypeInv, TypeOK, StoresTypeOK
    <3>. QED  BY <2>1, <3>1, TerminalFrozen DEF SysInv
  <2>2. CASE GatewayStep /\ UNCHANGED <<poolVars, adminVars>>
    BY <2>2, RequestSeen, Zenon DEF Terminal
  <2>3. CASE SysRestart \/ UNCHANGED sysVars
    BY <2>3, Zenon DEF SysRestart, Restart, sysVars, storeVars
  <2>. QED  BY <2>1, <2>2, <2>3, Zenon DEF SysNext, AdminStep
<1>. QED  BY <1>1, SysPoolInvariant, PTL DEF SysSpec, TerminalStays

-----------------------------------------------------------------------------
(***************************************************************************)
(* Attempts: what all the workers owe, together with what is recorded, is  *)
(* never more than was run.                                                *)
(***************************************************************************)
Owed(j, pc, wj) == SumOver(Workers, [w \in Workers |-> OwedBy(j, pc[w], wj[w])])

AttemptInv == \A j \in Jobs : attempts[j] + Owed(j, wpc, wjob) <= runs[j]

\* What is owed is a number.
LEMMA OwedType ==
  ASSUME NEW j
  PROVE  Owed(j, wpc, wjob) \in Nat
<1>. DEFINE f == [v \in Workers |-> OwedBy(j, wpc[v], wjob[v])]
<1>1. \A v \in Workers : f[v] \in Nat
  BY Zenon DEF OwedBy
<1>2. SumOver(Workers, f) \in Nat
  BY <1>1, SumType, PoolAssumption
<1>. QED  BY <1>2, Zenon DEF Owed

\* A worker's step changes only its own part.
LEMMA OwedMoves ==
  ASSUME NEW j, NEW w \in Workers, \A v \in Workers \ {w} : wpc'[v] = wpc[v] /\ wjob'[v] = wjob[v]
  PROVE  /\ Owed(j, wpc, wjob) \in Nat
         /\ Owed(j, wpc', wjob') = Owed(j, wpc, wjob) - OwedBy(j, wpc[w], wjob[w]) + OwedBy(j, wpc'[w], wjob'[w])
<1>. DEFINE f == [v \in Workers |-> OwedBy(j, wpc[v], wjob[v])]
            g == [v \in Workers |-> OwedBy(j, wpc'[v], wjob'[v])]
<1>1. \A v \in Workers : f[v] \in Nat /\ g[v] \in Nat
  BY Zenon DEF OwedBy
<1>2. \A v \in Workers \ {w} : g[v] = f[v]
  BY Zenon
<1>3. f[w] = OwedBy(j, wpc[w], wjob[w]) /\ g[w] = OwedBy(j, wpc'[w], wjob'[w])
  BY Zenon
<1>4. SumOver(Workers, f) \in Nat /\ SumOver(Workers, g) = SumOver(Workers, f) - f[w] + g[w]
  <2>. HIDE DEF f, g
  <2>. QED  BY <1>1, <1>2, SumType, SumChange, PoolAssumption
<1>. QED  BY <1>3, <1>4 DEF Owed

\* Every step of the whole.
LEMMA AttemptStep == SysInv /\ AttemptInv /\ [SysNext]_sysVars => AttemptInv'
<1>. SUFFICES ASSUME SysInv, AttemptInv, [SysNext]_sysVars, NEW j \in Jobs
              PROVE  attempts'[j] + Owed(j, wpc', wjob') <= runs'[j]
  BY Zenon DEF AttemptInv
<1>0. attempts[j] \in Nat /\ runs[j] \in Nat /\ attempts[j] + Owed(j, wpc, wjob) <= runs[j]
  BY Zenon DEF SysInv, TypeInv, TypeOK, StoresTypeOK, PoolTypeOK, AttemptInv
<1>1. ASSUME NEW w \in Workers, Worker(w)
      PROVE  attempts'[j] + Owed(j, wpc', wjob') <= runs'[j]
  <2>1. \A v \in Workers \ {w} : wpc'[v] = wpc[v] /\ wjob'[v] = wjob[v]
    BY <1>1, WorkerFrame DEF SysInv
  <2>2. /\ Owed(j, wpc, wjob) \in Nat
        /\ Owed(j, wpc', wjob') = Owed(j, wpc, wjob) - OwedBy(j, wpc[w], wjob[w]) + OwedBy(j, wpc'[w], wjob'[w])
    BY <2>1, OwedMoves, Zenon
  <2>3. /\ attempts'[j] + OwedBy(j, wpc'[w], wjob'[w]) + runs[j]
             <= attempts[j] + OwedBy(j, wpc[w], wjob[w]) + runs'[j]
        /\ attempts'[j] \in Nat /\ runs'[j] \in Nat
    BY <1>1, WorkerOwes DEF SysInv
  <2>4. OwedBy(j, wpc[w], wjob[w]) \in Nat /\ OwedBy(j, wpc'[w], wjob'[w]) \in Nat
    BY Zenon DEF OwedBy
  <2>. DEFINE before == OwedBy(j, wpc[w], wjob[w])
              after == OwedBy(j, wpc'[w], wjob'[w])
              owed == Owed(j, wpc, wjob)
              owedNow == Owed(j, wpc', wjob')
  <2>5. /\ attempts[j] + owed <= runs[j] /\ owedNow = owed - before + after
        /\ attempts'[j] + after + runs[j] <= attempts[j] + before + runs'[j]
    BY <1>0, <2>2, <2>3, Zenon
  <2>6. owed \in Nat /\ before \in Nat /\ after \in Nat
    BY <2>2, <2>4, Zenon
  <2>. HIDE DEF before, after, owed, owedNow
  <2>7. attempts'[j] + owedNow <= runs'[j]
    BY <1>0, <2>3, <2>5, <2>6
  <2>. QED  BY <2>7, Zenon DEF owedNow
<1>2. CASE UNCHANGED <<attempts, runs, wpc, wjob>>
  BY <1>0, <1>2, Zenon
<1>3. CASE PoolStep /\ ~ \E w \in Workers : Worker(w)
  BY <1>2, <1>3, OthersWriteNothing
<1>4. CASE GatewayStep /\ UNCHANGED <<poolVars, adminVars>>
  <2>1. PICK i \in Jobs : Enqueue(i) \/ ClientGone(i)
    BY <1>4, Zenon DEF GatewayStep
  <2>2. attempts' = attempts
    BY <2>1, EnqueueStores
  <2>. QED  BY <1>2, <1>4, <2>2 DEF poolVars, localVars
<1>5. CASE AdminStep /\ UNCHANGED <<poolVars, gatewayVars>>
  <2>1. PICK a \in Admins : RetryJob(a)
    BY <1>5, Zenon DEF AdminStep
  <2>2. attempts' = attempts
    BY <2>1, RetryJobEffect DEF AdminEffect
  <2>. QED  BY <1>2, <1>5, <2>2 DEF poolVars, localVars
<1>6. CASE SysRestart
  <2>1. UNCHANGED <<attempts, runs>> /\ wpc' = [w \in Workers |-> "idle"]
    BY <1>6 DEF SysRestart, Restart, storeVars
  <2>2. \A w \in Workers : OwedBy(j, wpc'[w], wjob'[w]) = 0
    BY <2>1 DEF OwedBy, Owing
  <2>3. Owed(j, wpc', wjob') = 0
    BY <2>2, SumZero DEF Owed
  <2>4. Owed(j, wpc, wjob) \in Nat
    BY OwedType, Zenon
  <2>. QED  BY <1>0, <2>1, <2>3, <2>4
<1>7. CASE UNCHANGED sysVars
  BY <1>2, <1>7, Zenon DEF sysVars, storeVars, poolVars, localVars
<1>. QED  BY <1>1, <1>3, <1>4, <1>5, <1>6, <1>7, Zenon DEF SysNext

\* No job has more job_attempts rows than its processor was called, across
\* retries, crashes, failed inserts that took effect, and admin retries.
THEOREM SystemAttempts == SysSpec => []AttemptsPerRun
<1>1. SysInit => AttemptInv
  <2>. SUFFICES ASSUME SysInit, NEW j \in Jobs PROVE attempts[j] + Owed(j, wpc, wjob) <= runs[j]
    BY Zenon DEF AttemptInv
  <2>1. attempts[j] = 0 /\ runs[j] = 0 /\ wpc = [w \in Workers |-> "idle"]
    BY Zenon DEF SysInit, StoresInit, PoolInit
  <2>2. \A w \in Workers : OwedBy(j, wpc[w], wjob[w]) = 0
    BY <2>1 DEF OwedBy, Owing
  <2>3. Owed(j, wpc, wjob) = 0
    BY <2>2, SumZero DEF Owed
  <2>. QED  BY <2>1, <2>3
<1>2. SysInv /\ AttemptInv => AttemptsPerRun
  <2>. SUFFICES ASSUME SysInv, AttemptInv, NEW j \in Jobs PROVE attempts[j] <= runs[j]
    BY Zenon DEF AttemptsPerRun
  <2>1. attempts[j] \in Nat /\ runs[j] \in Nat /\ attempts[j] + Owed(j, wpc, wjob) <= runs[j]
    BY Zenon DEF SysInv, TypeInv, TypeOK, StoresTypeOK, PoolTypeOK, AttemptInv
  <2>2. Owed(j, wpc, wjob) \in Nat
    BY OwedType, Zenon
  <2>. QED  BY <2>1, <2>2
<1>. QED  BY <1>1, <1>2, AttemptStep, SysInitInv, SysStepInv, PTL DEF SysSpec
=============================================================================
