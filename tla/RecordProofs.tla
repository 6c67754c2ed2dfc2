---------------------------- MODULE RecordProofs -----------------------------
(***************************************************************************)
(* What the budget of copies means while no call has failed: a terminal    *)
(* row stays, the row, the job:done marker and the dead-letter list agree, *)
(* and every accepted job is in exactly one place.                         *)
(***************************************************************************)
EXTENDS CopyProofs

(***************************************************************************)
(* While no call has failed: what the bounds say about one job.            *)
(***************************************************************************)

\* A worker contributes to the load of its job, and while no call has failed
\* the budget of a job is one.
LEMMA LoadOfOne ==
  ASSUME TypeInv, Budget, faults = 0, NEW m \in Modes \ {"runs"}, NEW j \in Jobs
  PROVE  /\ Spent(m, j) \in Nat /\ Load(m, j) \in Nat
         /\ \A w \in Workers : OfWorker(m, j, wpc[w], wjob[w]) \in Nat /\ OfWorker(m, j, wpc[w], wjob[w]) <= Load(m, j)
         /\ Load(m, j) + Spent(m, j) <= IF j \in accepted THEN 1 ELSE 0
<1>1. PartsNat /\ WithinBudget(m, j)
  BY PartsType, Zenon DEF Budget
<1>2. Granted(m, j) = IF j \in accepted THEN 1 ELSE 0
  BY DEF Granted, Full
<1>3. Load(m, j) \in Nat /\ AtWorkers(m, j, wpc, wjob) <= Load(m, j)
      /\ AtWorkers(m, j, wpc, wjob) \in Nat /\ Spent(m, j) \in Nat
  BY <1>1 DEF Load, PartsNat
<1>4. ASSUME NEW w \in Workers
      PROVE  OfWorker(m, j, wpc[w], wjob[w]) \in Nat /\ OfWorker(m, j, wpc[w], wjob[w]) <= AtWorkers(m, j, wpc, wjob)
  <2>. DEFINE f == [v \in Workers |-> OfWorker(m, j, wpc[v], wjob[v])]
  <2>1. \A v \in Workers : f[v] \in Nat
    BY AtWorkersType, Zenon
  <2>2. f[w] <= SumOver(Workers, f)
    <3>. HIDE DEF f
    <3>. QED  BY <2>1, SumBound, PoolAssumption, Zenon
  <2>. QED  BY <2>1, <2>2, Zenon DEF AtWorkers
<1>5. \A w \in Workers : OfWorker(m, j, wpc[w], wjob[w]) \in Nat /\ OfWorker(m, j, wpc[w], wjob[w]) <= Load(m, j)
  BY <1>3, <1>4
<1>. QED  BY <1>1, <1>2, <1>3, <1>5, Zenon DEF WithinBudget

\* No step takes a fault back.
LEMMA FaultsGrow ==
  ASSUME TypeInv, PoolStep
  PROVE  faults' \in {faults, faults + 1}
<1>0. ctxLive \in BOOLEAN
  BY Zenon DEF TypeInv, TypeOK, PoolTypeOK
<1>1. CASE Dispatcher
  BY <1>1, CallFaults, Zenon DEF Dispatcher, DispatchCheck, DispatchPop, DispatchNoJob, DispatchPopError, DispatchSend,
      DispatchRequeue, storeVars
<1>2. ASSUME NEW c \in Copy, Retry(c) PROVE faults' \in {faults, faults + 1}
  BY <1>0, <1>2, CallFaults, Zenon DEF Retry, RetryTimer, RetryAgain, RetryCancelled, BackgroundPush
<1>3. ASSUME NEW w \in Workers, Worker(w) PROVE faults' \in {faults, faults + 1}
  BY <1>0, <1>3, CallFaults, Zenon
     DEF Worker, WorkerReceive, WorkerExit, WorkerGetDone, WorkerSetLock, WorkerMark, WorkerRun,
         WorkerSuccess, WorkerSuccessDone, WorkerAttempt, WorkerDeadLetter, WorkerDeadLetterPush,
         WorkerDeadLetterDone, WorkerRetry, WorkerSpawn, WorkerUnlock, UpdateThen, SetDone, storeVars
<1>4. CASE Cancel \/ Shutdown \/ ShutdownWait \/ ShutdownReturn
  BY <1>4, Zenon DEF Cancel, Shutdown, ShutdownWait, ShutdownReturn, storeVars
<1>5. ASSUME NEW j \in Jobs, LockExpire(j) PROVE faults' \in {faults, faults + 1}
  BY <1>5, Zenon DEF LockExpire
<1>. QED  BY <1>1, <1>2, <1>3, <1>4, <1>5, Zenon DEF PoolStep

\* A terminal row has used up the budget of its job: no copy is left that
\* could write it again.
LEMMA TerminalFrozen ==
  ASSUME TypeInv, Budget, faults = 0, PoolStep, NEW j \in Jobs, Terminal(j)
  PROVE  row'[j] = row[j]
<1>1. ASSUME NEW w \in Workers, Worker(w) PROVE row'[j] = row[j]
  <2>1. "rows" \in Modes \ {"runs"} /\ Spent("rows", j) = 1
    BY Zenon DEF Modes, Spent
  <2>2. OfWorker("rows", j, wpc[w], wjob[w]) = 0
    <3>1. /\ Load("rows", j) \in Nat
          /\ OfWorker("rows", j, wpc[w], wjob[w]) \in Nat /\ OfWorker("rows", j, wpc[w], wjob[w]) <= Load("rows", j)
          /\ Load("rows", j) + 1 <= IF j \in accepted THEN 1 ELSE 0
      BY <2>1, LoadOfOne, Zenon
    <3>. QED  BY <3>1
  <2>3. CASE row' = row
    BY <2>3, Zenon
  <2>4. ASSUME wpc[w] \in {"mark", "succUpdate", "dlUpdate", "retryUpdate"},
               NEW c \in Copy, NEW s \in JobStatus, c.id = wjob[w].id, Update(c, s)
        PROVE  row'[j] = row[j]
    <3>1. wjob[w] \in Copy /\ row \in [Jobs -> Row]
      BY <2>4, Zenon DEF TypeInv, TypeOK, PoolTypeOK, StoresTypeOK
    <3>2. wjob[w].id # j
      BY <2>2, <2>4, <3>1 DEF OfWorker, WorkerWeight, Weight
    <3>. QED  BY <2>4, <3>1, <3>2 DEF Update
  <2>. QED  BY <1>1, <2>3, <2>4, WorkerUpdates, Zenon
<1>2. CASE ~ \E w \in Workers : Worker(w)
  BY <1>2, OthersWriteNothing, Zenon
<1>. QED  BY <1>1, <1>2, Zenon

\* While no call fails a terminal row is never written again, whatever
\* crashes, shutdowns and retries come between.
THEOREM TerminalStaysHolds == Spec => TerminalStays
<1>1. TypeInv /\ Budget /\ [Next]_vars => [(faults' = 0 => \A j \in Jobs : Terminal(j) => row'[j] = row[j])]_vars
  <2>. SUFFICES ASSUME TypeInv, Budget, Next, faults' = 0, NEW j \in Jobs, Terminal(j) PROVE row'[j] = row[j]
    BY Zenon
  <2>1. CASE PoolStep
    <3>1. faults = 0
      BY <2>1, FaultsGrow, StoresAssumption DEF TypeInv, TypeOK, StoresTypeOK
    <3>. QED  BY <2>1, <3>1, TerminalFrozen, Zenon
  <2>2. CASE Restart
    BY <2>2, Zenon DEF Restart, storeVars
  <2>3. ASSUME NEW i \in Jobs, Submit(i) PROVE row'[j] = row[j]
    BY <2>3, Zenon DEF Submit
  <2>. QED  BY <2>1, <2>2, <2>3, Zenon DEF Next
<1>. QED  BY <1>1, BudgetInvariant, PTL DEF Spec, TerminalStays

-----------------------------------------------------------------------------
(***************************************************************************)
(* The row, the dead-letter entry and the job:done marker, in that order.  *)
(* A worker that has come past a write, with its context still live, finds *)
(* what it wrote: nobody else has a copy with which to undo it.            *)
(***************************************************************************)
Listed(j) == \E i \in DOMAIN deadLetter : deadLetter[i].id = j

WrittenBy(w) ==
  /\ wpc[w] = "succDone" => row[wjob[w].id].status = "SUCCESS"
  /\ wpc[w] \in {"dlPush", "dlDone"} => row[wjob[w].id].status = "DEAD_LETTER"
  /\ wpc[w] = "dlDone" => Listed(wjob[w].id)

RecordedFor(j) ==
  /\ j \in doneKey => Terminal(j)
  /\ Listed(j) => row[j].status = "DEAD_LETTER"
  /\ j \in doneKey /\ row[j].status = "DEAD_LETTER" => Listed(j)

RecordInv ==
  faults = 0 => /\ ctxLive => \A w \in Workers : WrittenBy(w)
                /\ \A j \in Jobs : RecordedFor(j)

AcceptedHasRow == \A j \in accepted : row[j].status # "absent"

\* What a worker's step writes, when its context is live and no call fails.
LEMMA WorkerRecords ==
  ASSUME TypeInv, faults = 0, faults' = 0, ctxLive, NEW w \in Workers, Worker(w)
  PROVE  /\ wpc'[w] = "succDone" => wpc[w] = "succUpdate" /\ Update(wjob[w], "SUCCESS")
         /\ wpc'[w] = "dlPush" => wpc[w] = "dlUpdate" /\ Update(wjob[w], "DEAD_LETTER")
         /\ wpc'[w] = "dlDone" => wpc[w] = "dlPush" /\ PushDeadLetter(wjob[w])
         /\ wpc'[w] \in {"succDone", "dlPush", "dlDone"} => wjob'[w] = wjob[w]
<1>0. wpc \in [Workers -> WorkerPC] /\ wjob \in [Workers -> Copy \cup {NoCopy}]
  BY Zenon DEF TypeInv, TypeOK, PoolTypeOK
<1>1. \A store : ~ Call(store, TRUE, FALSE)
  BY DEF Call
<1>2. CASE WorkerSuccess(w)
  <2>1. wpc[w] = "succUpdate" /\ UpdateThen(w, wjob[w], "SUCCESS", "succDone")
    BY <1>2, Zenon DEF WorkerSuccess
  <2>2. wpc'[w] = "succDone" /\ wjob'[w] = wjob[w]
    BY <2>1, WorkerTo, Zenon
  <2>3. Update(wjob[w], "SUCCESS")
    BY <1>1, <2>1, Zenon DEF UpdateThen
  <2>. QED  BY <2>1, <2>2, <2>3, Zenon
<1>3. CASE WorkerDeadLetter(w)
  <2>1. wpc[w] = "dlUpdate" /\ UpdateThen(w, wjob[w], "DEAD_LETTER", "dlPush")
    BY <1>3, Zenon DEF WorkerDeadLetter
  <2>2. wpc'[w] = "dlPush" /\ wjob'[w] = wjob[w]
    BY <2>1, WorkerTo, Zenon
  <2>3. Update(wjob[w], "DEAD_LETTER")
    BY <1>1, <2>1, Zenon DEF UpdateThen
  <2>. QED  BY <2>1, <2>2, <2>3, Zenon
<1>4. CASE WorkerDeadLetterPush(w)
  <2>1. wpc[w] = "dlPush" /\ Goto(w, "dlDone")
    BY <1>4, Zenon DEF WorkerDeadLetterPush
  <2>2. wpc'[w] = "dlDone" /\ wjob'[w] = wjob[w]
    BY <2>1, WorkerTo, Zenon
  <2>3. PushDeadLetter(wjob[w])
    BY <1>1, <1>4, Zenon DEF WorkerDeadLetterPush
  <2>. QED  BY <2>1, <2>2, <2>3, Zenon
<1>5. CASE ~(WorkerSuccess(w) \/ WorkerDeadLetter(w) \/ WorkerDeadLetterPush(w))
  <2>1. wpc'[w] \notin {"succDone", "dlPush", "dlDone"}
    <3>1. CASE WorkerReceive(w)
      BY <1>0, <3>1, Zenon DEF WorkerReceive
    <3>2. CASE WorkerExit(w)
      BY <3>2, WorkerTo DEF WorkerExit
    <3>11. CASE WorkerSpawn(w)
      <4>1. Goto(w, "unlock")
        BY <3>11, Zenon DEF WorkerSpawn
      <4>. QED  BY <4>1, WorkerTo
    <3>3. CASE WorkerGetDone(w)
      BY <3>3, WorkerTo DEF WorkerGetDone
    <3>4. CASE WorkerSetLock(w)
      BY <3>4, WorkerTo DEF WorkerSetLock
    <3>5. CASE WorkerMark(w) \/ WorkerRetry(w)
      BY <3>5, WorkerTo DEF WorkerMark, WorkerRetry
    <3>6. CASE WorkerRun(w)
      BY <3>6, WorkerTo DEF WorkerRun
    <3>7. CASE WorkerSuccessDone(w)
      BY <3>7, WorkerTo DEF WorkerSuccessDone
    <3>8. CASE WorkerAttempt(w)
      BY <3>8, WorkerTo DEF WorkerAttempt, AttemptNext
    <3>9. CASE WorkerDeadLetterDone(w)
      BY <3>9, WorkerTo DEF WorkerDeadLetterDone
    <3>10. CASE WorkerUnlock(w)
      BY <3>10, WorkerTo, Zenon DEF WorkerUnlock
    <3>. QED  BY <1>5, <3>1, <3>2, <3>3, <3>4, <3>5, <3>6, <3>7, <3>8, <3>9, <3>10, <3>11 DEF Worker
  <2>. QED  BY <2>1, Zenon
<1>. QED  BY <1>2, <1>3, <1>4, <1>5

\* Who sets a marker and who adds an entry.
LEMMA WorkerAdds ==
  ASSUME TypeInv, NEW w \in Workers, Worker(w)
  PROVE  /\ \/ doneKey' = doneKey
            \/ ctxLive /\ wpc[w] \in {"succDone", "dlDone"} /\ doneKey' = doneKey \cup {wjob[w].id}
         /\ \/ deadLetter' = deadLetter
            \/ ctxLive /\ wpc[w] = "dlPush" /\ deadLetter' = Append(deadLetter, wjob[w])
<1>1. \/ doneKey' = doneKey
      \/ ctxLive /\ wpc[w] \in {"succDone", "dlDone"} /\ doneKey' = doneKey \cup {wjob[w].id}
  BY Zenon DEF Worker, WorkerReceive, WorkerExit, WorkerGetDone, WorkerSetLock, WorkerMark, WorkerRun,
         WorkerSuccess, WorkerSuccessDone, WorkerAttempt, WorkerDeadLetter, WorkerDeadLetterPush,
         WorkerDeadLetterDone, WorkerRetry, WorkerSpawn, WorkerUnlock, UpdateThen, SetDone, storeVars
<1>2. \/ deadLetter' = deadLetter
      \/ ctxLive /\ wpc[w] = "dlPush" /\ deadLetter' = Append(deadLetter, wjob[w])
  BY Zenon DEF Worker, WorkerReceive, WorkerExit, WorkerGetDone, WorkerSetLock, WorkerMark, WorkerRun,
         WorkerSuccess, WorkerSuccessDone, WorkerAttempt, WorkerDeadLetter, WorkerDeadLetterPush,
         WorkerDeadLetterDone, WorkerRetry, WorkerSpawn, WorkerUnlock, UpdateThen, PushDeadLetter, storeVars
<1>. QED  BY <1>1, <1>2

\* A worker on a job has a job that was accepted, while no call has failed.
LEMMA WorksOnAccepted ==
  ASSUME TypeInv, Budget, faults = 0, NEW w \in Workers, wpc[w] \notin {"idle", "exited", "succAttempt", "unlock"}
  PROVE  wjob[w] \in Copy /\ wjob[w].id \in Jobs /\ wjob[w].id \in accepted /\ wjob[w].id \notin doneKey
<1>1. wjob[w] \in Copy /\ wjob[w].id \in Jobs /\ wpc[w] \in WorkerPC
  BY Zenon DEF TypeInv, TypeOK, PoolTypeOK, Copy
<1>2. PICK j \in Jobs : j = wjob[w].id
  BY <1>1, Zenon
<1>3. OfWorker("copies", j, wpc[w], wjob[w]) = 1
  BY <1>1, <1>2, Zenon DEF OfWorker, WorkerWeight, Weight
<1>4. /\ Load("copies", j) \in Nat /\ Spent("copies", j) \in Nat /\ 1 <= Load("copies", j)
      /\ Load("copies", j) + Spent("copies", j) <= IF j \in accepted THEN 1 ELSE 0
  BY <1>3, LoadOfOne, Zenon DEF Modes
<1>5. j \in accepted /\ Spent("copies", j) = 0
  BY <1>4
<1>. QED  BY <1>1, <1>2, <1>5 DEF Spent

\* Every step of the pool keeps the records in order.
LEMMA RecordStep ==
  ASSUME TypeInv, Budget, RecordInv, AcceptedHasRow, PoolStep
  PROVE  RecordInv'
<1>. SUFFICES ASSUME faults' = 0
              PROVE  (ctxLive => \A w \in Workers : WrittenBy(w))' /\ \A j \in Jobs : RecordedFor(j)'
  BY Zenon DEF RecordInv
<1>1. faults = 0
  BY FaultsGrow, StoresAssumption DEF TypeInv, TypeOK, StoresTypeOK
<1>2. (ctxLive => \A w \in Workers : WrittenBy(w)) /\ \A j \in Jobs : RecordedFor(j)
  BY <1>1, Zenon DEF RecordInv
<1>3. \A j \in Jobs : Terminal(j) => row'[j] = row[j]
  BY <1>1, TerminalFrozen, Zenon
<1>4. CASE ~ \E w \in Workers : Worker(w)
  <2>1. UNCHANGED <<row, doneKey, deadLetter, wpc, wjob>> /\ ctxLive' \in {ctxLive, FALSE}
    BY <1>4, OthersWriteNothing, Zenon
  <2>2. \A w \in Workers : WrittenBy(w)' <=> WrittenBy(w)
    BY <2>1, Zenon DEF WrittenBy, Listed
  <2>3. \A j \in Jobs : RecordedFor(j)' <=> RecordedFor(j)
    BY <2>1, Zenon DEF RecordedFor, Listed, Terminal
  <2>4. ctxLive' => ctxLive
    BY <2>1, Zenon
  <2>. QED  BY <1>2, <2>2, <2>3, <2>4, Zenon
<1>5. ASSUME NEW w \in Workers, Worker(w)
      PROVE  (ctxLive => \A v \in Workers : WrittenBy(v))' /\ \A j \in Jobs : RecordedFor(j)'
  <2>0. /\ \A v \in Workers \ {w} : wpc'[v] = wpc[v] /\ wjob'[v] = wjob[v]
        /\ ctxLive' = ctxLive
    BY <1>5, WorkerFrame
  <2>1. /\ deadLetter \in Seq(Copy) /\ row \in [Jobs -> Row]
        /\ \A v \in Workers : wpc[v] \notin {"idle", "exited"} => wjob[v] \in Copy /\ wjob[v].id \in Jobs
    BY Zenon DEF TypeInv, TypeOK, StoresTypeOK, PoolTypeOK, Copy
  <2>2. /\ \/ doneKey' = doneKey
           \/ ctxLive /\ wpc[w] \in {"succDone", "dlDone"} /\ doneKey' = doneKey \cup {wjob[w].id}
        /\ \/ deadLetter' = deadLetter
           \/ ctxLive /\ wpc[w] = "dlPush" /\ deadLetter' = Append(deadLetter, wjob[w])
    BY <1>5, WorkerAdds
  <2>3. \A j : Listed(j) => Listed(j)'
    <3>1. CASE deadLetter' = deadLetter
      BY <3>1, Zenon DEF Listed
    <3>2. CASE deadLetter' = Append(deadLetter, wjob[w])
      BY <2>1, <3>2 DEF Listed
    <3>. QED  BY <2>2, <3>1, <3>2
  <2>4. \A j : Listed(j)' /\ ~ Listed(j) => ctxLive /\ wpc[w] = "dlPush" /\ wjob[w].id = j
    BY <2>1, <2>2 DEF Listed
  <2>5. ASSUME NEW v \in Workers \ {w}, ctxLive PROVE WrittenBy(v)'
    <3>1. wpc[v] \in {"succDone", "dlPush", "dlDone"} => wjob[v].id \in Jobs /\ row'[wjob[v].id] = row[wjob[v].id]
      BY <1>2, <1>3, <2>1, <2>5, Zenon DEF WrittenBy, Terminal
    <3>. QED  BY <1>2, <2>0, <2>3, <2>5, <3>1 DEF WrittenBy
  <2>6. ASSUME ctxLive PROVE WrittenBy(w)'
    <3>1. /\ wpc'[w] = "succDone" => wpc[w] = "succUpdate" /\ Update(wjob[w], "SUCCESS")
          /\ wpc'[w] = "dlPush" => wpc[w] = "dlUpdate" /\ Update(wjob[w], "DEAD_LETTER")
          /\ wpc'[w] = "dlDone" => wpc[w] = "dlPush" /\ PushDeadLetter(wjob[w])
          /\ wpc'[w] \in {"succDone", "dlPush", "dlDone"} => wjob'[w] = wjob[w]
      BY <1>1, <1>5, <2>6, WorkerRecords
    <3>2. wpc[w] \in {"succUpdate", "dlUpdate", "dlPush"} => wjob[w].id \in Jobs /\ row[wjob[w].id].status # "absent"
      BY <1>1, WorksOnAccepted, Zenon DEF AcceptedHasRow
    <3>3. wpc'[w] = "succDone" => row'[wjob'[w].id].status = "SUCCESS"
      BY <2>1, <3>1, <3>2 DEF Update
    <3>4. wpc'[w] = "dlPush" => row'[wjob'[w].id].status = "DEAD_LETTER"
      BY <2>1, <3>1, <3>2 DEF Update
    <3>5. wpc'[w] = "dlDone" => row'[wjob'[w].id].status = "DEAD_LETTER" /\ Listed(wjob[w].id)'
      <4>. SUFFICES ASSUME wpc'[w] = "dlDone" PROVE row'[wjob'[w].id].status = "DEAD_LETTER" /\ Listed(wjob[w].id)'
        BY Zenon
      <4>1. wpc[w] = "dlPush" /\ deadLetter' = Append(deadLetter, wjob[w]) /\ wjob'[w] = wjob[w]
        BY <3>1, Zenon DEF PushDeadLetter
      <4>2. row[wjob[w].id].status = "DEAD_LETTER" /\ row'[wjob[w].id] = row[wjob[w].id]
        BY <1>2, <1>3, <2>6, <3>2, <4>1 DEF WrittenBy, Terminal
      <4>3. wjob[w] \in Copy
        BY <2>1, <4>1, Zenon
      <4>4. \E i \in DOMAIN deadLetter' : deadLetter'[i].id = wjob'[w].id
        <5>1. Len(deadLetter) + 1 \in DOMAIN deadLetter' /\ deadLetter'[Len(deadLetter) + 1] = wjob[w]
          BY <2>1, <4>1, <4>3
        <5>. QED  BY <4>1, <5>1, Zenon
      <4>. QED  BY <4>1, <4>2, <4>4 DEF Listed
    <3>. QED  BY <3>3, <3>4, <3>5, Zenon DEF WrittenBy
  <2>7. ASSUME NEW j \in Jobs PROVE RecordedFor(j)'
    <3>1. RecordedFor(j)
      BY <1>2, Zenon
    <3>2. wpc[w] \in {"succDone", "dlPush", "dlDone"} /\ ctxLive =>
             /\ wjob[w].id \in Jobs /\ row'[wjob[w].id] = row[wjob[w].id]
             /\ row[wjob[w].id].status \in {"SUCCESS", "DEAD_LETTER"}
             /\ wpc[w] \in {"dlPush", "dlDone"} => row[wjob[w].id].status = "DEAD_LETTER"
             /\ wpc[w] = "succDone" => row[wjob[w].id].status = "SUCCESS"
             /\ wpc[w] = "dlDone" => Listed(wjob[w].id)
      BY <1>2, <1>3, <2>1, Zenon DEF WrittenBy, Terminal
    <3>3. j \in doneKey' /\ j \notin doneKey => ctxLive /\ wpc[w] \in {"succDone", "dlDone"} /\ wjob[w].id = j
      BY <2>2
    <3>4. j \in doneKey' => Terminal(j)' /\ row'[j] = row[j]
      BY <1>3, <3>1, <3>2, <3>3 DEF RecordedFor, Terminal
    <3>5. Listed(j)' => row'[j].status = "DEAD_LETTER"
      BY <1>3, <2>4, <3>1, <3>2 DEF RecordedFor, Terminal
    <3>6. j \in doneKey' /\ row'[j].status = "DEAD_LETTER" => Listed(j)'
      BY <2>3, <3>1, <3>2, <3>3, <3>4 DEF RecordedFor
    <3>. QED  BY <3>4, <3>5, <3>6, Zenon DEF RecordedFor
  <2>. QED  BY <2>0, <2>5, <2>6, <2>7
<1>. QED  BY <1>4, <1>5, Zenon

\* No step of the pool deletes a row.
LEMMA PoolRowsStay ==
  ASSUME TypeInv, PoolStep, NEW j \in Jobs, row[j].status # "absent"
  PROVE  row'[j].status # "absent"
<1>1. ASSUME NEW w \in Workers, Worker(w) PROVE row'[j].status # "absent"
  <2>1. ASSUME NEW c \in Copy, NEW s \in JobStatus, Update(c, s) PROVE row'[j].status # "absent"
    BY <2>1, Zenon DEF Update, JobStatus, Copy, TypeInv, TypeOK, StoresTypeOK
  <2>. QED  BY <1>1, <2>1, WorkerUpdates, Zenon
<1>2. CASE ~ \E w \in Workers : Worker(w)
  BY <1>2, OthersWriteNothing, Zenon
<1>. QED  BY <1>1, <1>2, Zenon

\* The records of the pool alone, where every row exists from the start.
RowsExist == \A j \in Jobs : row[j].status # "absent"

LEMMA RecordInvariant == Spec => [](TypeInv /\ Budget /\ RecordInv)
<1>1. Init => RecordInv /\ RowsExist
  <2>. SUFFICES ASSUME Init PROVE RecordInv /\ RowsExist
    BY Zenon
  <2>1. RowsExist
    BY Zenon DEF Init, StoresInit, RowsExist
  <2>2. \A w \in Workers : WrittenBy(w)
    BY Zenon DEF Init, PoolInit, WrittenBy
  <2>3. \A j \in Jobs : RecordedFor(j)
    BY DEF Init, StoresInit, RecordedFor, Listed
  <2>. QED  BY <2>1, <2>2, <2>3 DEF RecordInv
<1>2. TypeInv /\ Budget /\ RecordInv /\ RowsExist /\ [Next]_vars => RecordInv' /\ RowsExist'
  <2>. SUFFICES ASSUME TypeInv, Budget, RecordInv, RowsExist, [Next]_vars PROVE RecordInv' /\ RowsExist'
    BY Zenon
  <2>1. CASE PoolStep
    <3>1. AcceptedHasRow
      BY Zenon DEF AcceptedHasRow, RowsExist, TypeInv, TypeOK, StoresTypeOK
    <3>2. RowsExist'
      BY <2>1, PoolRowsStay DEF RowsExist
    <3>. QED  BY <2>1, <3>1, <3>2, RecordStep
  <2>2. CASE Restart
    <3>1. UNCHANGED <<row, doneKey, deadLetter, faults>> /\ wpc' = [w \in Workers |-> "idle"]
      BY <2>2, Zenon DEF Restart, storeVars
    <3>2. \A w \in Workers : WrittenBy(w)'
      BY <3>1, Zenon DEF WrittenBy
    <3>3. \A j \in Jobs : RecordedFor(j)' <=> RecordedFor(j)
      BY <3>1, Zenon DEF RecordedFor, Listed, Terminal
    <3>. QED  BY <3>1, <3>2, <3>3, Zenon DEF RecordInv, RowsExist
  <2>3. CASE UNCHANGED vars \/ \E i \in Jobs : Submit(i)
    <3>1. UNCHANGED <<row, doneKey, deadLetter, faults, wpc, wjob, ctxLive>>
      BY <2>3, Zenon DEF Submit, vars, storeVars, poolVars, localVars
    <3>2. \A w \in Workers : WrittenBy(w)' <=> WrittenBy(w)
      BY <3>1, Zenon DEF WrittenBy, Listed
    <3>3. \A j \in Jobs : RecordedFor(j)' <=> RecordedFor(j)
      BY <3>1, Zenon DEF RecordedFor, Listed, Terminal
    <3>. QED  BY <3>1, <3>2, <3>3, Zenon DEF RecordInv, RowsExist
  <2>. QED  BY <2>1, <2>2, <2>3, Zenon DEF Next
<1>. QED  BY <1>1, <1>2, BudgetInvariant, PTL DEF Spec

\* What the records say of the markers.
LEMMA RecordsDone == TypeInv /\ RecordInv => DoneIsTerminal
BY Zenon DEF RecordInv, RecordedFor, DoneIsTerminal, TypeInv, TypeOK, StoresTypeOK

\* While no call fails, job:done:<id> is only ever set for a job whose row
\* says SUCCESS or DEAD_LETTER, and that row stays.
THEOREM DoneIsTerminalHolds == Spec => []DoneIsTerminal
BY RecordsDone, RecordInvariant, PTL

\* What the records and the budget say of the dead-letter list.
LEMMA RecordsListed == TypeInv /\ Budget /\ RecordInv => DeadLetterMatches
<1>. SUFFICES ASSUME TypeInv, Budget, RecordInv, faults = 0, NEW j \in Jobs
     PROVE  LET entries == {i \in DOMAIN deadLetter : deadLetter[i].id = j}
            IN  /\ j \in doneKey => Cardinality(entries) = IF row[j].status = "DEAD_LETTER" THEN 1 ELSE 0
                /\ entries # {} => row[j].status = "DEAD_LETTER"
  BY Zenon DEF DeadLetterMatches
<1>. DEFINE entries == {i \in DOMAIN deadLetter : deadLetter[i].id = j}
<1>1. RecordedFor(j) /\ (Listed(j) <=> entries # {})
  BY Zenon DEF RecordInv, Listed
<1>2. IsFiniteSet(entries) /\ Cardinality(entries) <= 1
  <2>1. deadLetter \in Seq(Copy)
    BY Zenon DEF TypeInv, TypeOK, StoresTypeOK
  <2>. DEFINE f == [k \in DOMAIN deadLetter |-> k]
  <2>2. \A t \in entries : \E k \in {i \in DOMAIN deadLetter : deadLetter[i].id = j} : f[k] = t
    BY Zenon
  <2>3. IsFiniteSet(entries) /\ Cardinality(entries) <= InList("copies", j, deadLetter)
    <3>. HIDE DEF entries, f
    <3>. QED  BY <2>1, <2>2, ListPlaces, Zenon
  <2>4. /\ Spent("entries", j) \in Nat /\ Load("entries", j) \in Nat
        /\ Load("entries", j) + Spent("entries", j) <= IF j \in accepted THEN 1 ELSE 0
    BY LoadOfOne, Zenon DEF Modes
  <2>5. Spent("entries", j) <= 1 /\ Spent("entries", j) = InList("copies", j, deadLetter)
    BY <2>4 DEF Spent
  <2>6. Cardinality(entries) \in Nat
    BY <2>3, FS_CardinalityType, Zenon
  <2>. QED  BY <2>3, <2>4, <2>5, <2>6
<1>3. Cardinality(entries) \in Nat /\ (Cardinality(entries) = 0 <=> entries = {})
  <2>. HIDE DEF entries
  <2>. QED  BY <1>2, FS_CardinalityType, FS_EmptySet
<1>4. j \in doneKey => Cardinality(entries) = IF row[j].status = "DEAD_LETTER" THEN 1 ELSE 0
  BY <1>1, <1>2, <1>3 DEF RecordedFor
<1>. QED  BY <1>1, <1>4, Zenon DEF RecordedFor

\* While no call fails, a finished job that is not a success has exactly one
\* entry in the dead-letter list, and only dead-lettered jobs have entries.
THEOREM DeadLetterMatchesHolds == Spec => []DeadLetterMatches
BY RecordsListed, RecordInvariant, PTL

-----------------------------------------------------------------------------
(***************************************************************************)
(* Until something fails no job is lost.  Present says where an accepted   *)
(* job can be.  A worker drops its copy when SetNX finds the key taken, so *)
(* the invariant must say who took it: a worker inside the lock, who has   *)
(* the copy, or has just set the marker or started the retry goroutine.    *)
(***************************************************************************)
Queued(j) == \E p \in Priorities : \E k \in DOMAIN queue[p] : queue[p][k].id = j
Buffered(j) == \E k \in DOMAIN jobs : jobs[k].id = j
Held(j) == held \in Copy /\ held.id = j
Waits(j, t) == \E c \in Copy : c.id = j /\ t[c] > 0

Present(j) ==
  \/ Queued(j) \/ Buffered(j) \/ Held(j) \/ j \in doneKey
  \/ \E w \in Workers : WorksOn(w, j)
  \/ Waits(j, timer) \/ Waits(j, repush)

HeldToSend == held \in Copy => dpc = "send"

\* What a worker that has given its copy away leaves behind.
Handed(w) ==
  /\ wpc[w] = "succAttempt" => wjob[w].id \in doneKey
  /\ wpc[w] = "unlock" => wjob[w].id \in doneKey \/ Waits(wjob[w].id, timer)

PresentInv ==
  Undisturbed => /\ \A j \in accepted : Present(j)
                 /\ \A j \in lockKey : \E w \in Workers : InLock(w) /\ wjob[w].id = j
                 /\ \A w \in Workers : Handed(w)

\* Only a job with a processor gets past the lookup in the registry.
OnlyRegistered ==
  \A w \in Workers : wpc[w] \in {"getDone", "setLock"} \cup LockedPC => Registered(wjob[w].id)

\* Nothing else goes back to an undisturbed state.
LEMMA StaysUndisturbed ==
  ASSUME TypeInv, PoolStep, Undisturbed'
  PROVE  Undisturbed
<1>1. faults = 0
  BY FaultsGrow, StoresAssumption DEF Undisturbed, TypeInv, TypeOK, StoresTypeOK
<1>2. ctxLive /\ restarts = 0
  <2>1. CASE \E w \in Workers : Worker(w)
    BY <2>1, WorkerFrame, Zenon DEF Undisturbed
  <2>2. CASE ~ \E w \in Workers : Worker(w)
    BY <2>2, OthersWriteNothing, Zenon DEF Undisturbed
  <2>. QED  BY <2>1, <2>2, Zenon
<1>. QED  BY <1>1, <1>2, Zenon DEF Undisturbed

\* Every step of a worker keeps the registry's promise.
LEMMA RegisteredStep ==
  ASSUME TypeInv, OnlyRegistered, PoolStep
  PROVE  OnlyRegistered'
<1>1. ASSUME NEW w \in Workers, Worker(w) PROVE OnlyRegistered'
  <2>0. wpc \in [Workers -> WorkerPC] /\ wjob \in [Workers -> Copy \cup {NoCopy}]
        /\ \A v \in Workers \ {w} : wpc'[v] = wpc[v] /\ wjob'[v] = wjob[v]
    BY <1>1, WorkerFrame, Zenon DEF TypeInv, TypeOK, PoolTypeOK
  <2>1. SUFFICES wpc'[w] \in {"getDone", "setLock"} \cup LockedPC => Registered(wjob'[w].id)
    BY <2>0, <2>1, Zenon DEF OnlyRegistered, Registered
  <2>2. wpc[w] \in {"getDone", "setLock"} \cup LockedPC => Registered(wjob[w].id)
    BY Zenon DEF OnlyRegistered
  <2>3. CASE WorkerReceive(w)
    BY <2>0, <2>3, Zenon DEF WorkerReceive, LockedPC
  <2>4. CASE WorkerDeadLetterDone(w)
    BY <2>4, WorkerTo, Zenon DEF WorkerDeadLetterDone, LockedPC
  <2>5. ASSUME NEW pc, Goto(w, pc), wpc[w] \in {"getDone", "setLock"} \cup LockedPC \/ pc \notin {"getDone", "setLock"} \cup LockedPC
        PROVE  wpc'[w] \in {"getDone", "setLock"} \cup LockedPC => Registered(wjob'[w].id)
    BY <2>2, <2>5, WorkerTo, Zenon
  <2>6. ASSUME Return(w)
        PROVE  wpc'[w] \in {"getDone", "setLock"} \cup LockedPC => Registered(wjob'[w].id)
    BY <2>6, WorkerTo, Zenon DEF LockedPC
  <2>7. ASSUME NEW c, c.id = wjob[w].id, NEW s, NEW pc, UpdateThen(w, c, s, pc),
               wpc[w] \in {"getDone", "setLock"} \cup LockedPC \/ pc \notin {"getDone", "setLock"} \cup LockedPC
        PROVE  wpc'[w] \in {"getDone", "setLock"} \cup LockedPC => Registered(wjob'[w].id)
    BY <2>2, <2>7, WorkerTo, Zenon
  <2>8. CASE WorkerExit(w)
    BY <2>5, <2>8, Zenon DEF WorkerExit, LockedPC
  <2>9. CASE WorkerGetDone(w)
    BY <2>5, <2>6, <2>9 DEF WorkerGetDone, LockedPC
  <2>10. CASE WorkerSetLock(w)
    BY <2>5, <2>6, <2>10 DEF WorkerSetLock, LockedPC
  <2>11. CASE WorkerMark(w) \/ WorkerSuccess(w)
    BY <2>7, <2>11, Zenon DEF WorkerMark, WorkerSuccess, LockedPC
  <2>12. CASE WorkerRun(w)
    BY <2>5, <2>12, Zenon DEF WorkerRun, LockedPC
  <2>13. CASE WorkerSuccessDone(w)
    BY <2>5, <2>13, Zenon DEF WorkerSuccessDone, LockedPC
  <2>14. CASE WorkerAttempt(w)
    BY <2>5, <2>14, Zenon DEF WorkerAttempt, LockedPC
  <2>15. CASE WorkerDeadLetter(w)
    BY <2>7, <2>15, Zenon DEF WorkerDeadLetter, LockedPC
  <2>16. CASE WorkerDeadLetterPush(w)
    BY <2>5, <2>16, Zenon DEF WorkerDeadLetterPush, LockedPC
  <2>17. CASE WorkerRetry(w)
    <3>1. PICK c : c = [wjob[w] EXCEPT !.retry = @ + 1]
      BY Zenon
    <3>2. c.id = wjob[w].id
      BY <2>17, <3>1 DEF WorkerRetry, TypeInv, TypeOK, PoolTypeOK, Copy
    <3>. QED  BY <2>7, <2>17, <3>1, <3>2, Zenon DEF WorkerRetry, LockedPC
  <2>18. CASE WorkerSpawn(w)
    BY <2>5, <2>18 DEF WorkerSpawn, LockedPC
  <2>19. CASE WorkerUnlock(w)
    BY <2>6, <2>19, Zenon DEF WorkerUnlock
  <2>. QED  BY <1>1, <2>3, <2>4, <2>8, <2>9, <2>10, <2>11, <2>12, <2>13, <2>14, <2>15, <2>16, <2>17, <2>18, <2>19
            DEF Worker
<1>2. CASE ~ \E w \in Workers : Worker(w)
  BY <1>2, OthersWriteNothing, Zenon DEF OnlyRegistered, Registered
<1>. QED  BY <1>1, <1>2, Zenon

\* What becomes of the copy, the lock and the promise of a worker that takes a
\* step while nothing fails; i is its job.
Hands(w, i) ==
  /\ WorksOn(w, i) => \/ WorksOn(w, i)' \/ i \in doneKey' \/ Waits(i, timer')
                      \/ wpc[w] = "setLock" /\ i \in lockKey
  /\ InLock(w) /\ i \in lockKey' => InLock(w)' /\ wjob'[w].id = i
  /\ lockKey' \subseteq lockKey \cup {i}
  /\ i \in lockKey' /\ i \notin lockKey => InLock(w)' /\ wjob'[w].id = i
  /\ Handed(w)'

\* Every step of a worker, but the receipt of a job, hands over its copy.
LEMMA WorkerHands ==
  ASSUME TypeInv, OnlyRegistered, Undisturbed, Undisturbed', NEW w \in Workers, Worker(w), ~ WorkerReceive(w),
         Handed(w), NEW i, i = wjob[w].id
  PROVE  Hands(w, i)
<1>0. \A store : ~ Call(store, ctxLive, FALSE)
  BY DEF Call, Undisturbed
<1>1. wpc[w] \notin {"idle", "exited"} => wjob[w] \in Copy
  BY Zenon DEF TypeInv, TypeOK, PoolTypeOK
\* A step from one label to the next with the lock and the copy kept.
<1>2. ASSUME lockKey' = lockKey, wjob'[w].id = wjob[w].id, InLock(w) => InLock(w)',
             wpc'[w] \notin {"idle", "exited", "succAttempt", "unlock"}
      PROVE  Hands(w, i)
  <2>1. WorksOn(w, i)'
    BY <1>2, Zenon DEF WorksOn
  <2>2. Handed(w)'
    BY <1>2, Zenon DEF Handed
  <2>. QED  BY <1>2, <2>1, <2>2, Zenon DEF Hands
<1>3. CASE WorkerExit(w)
  <2>1. wpc[w] = "idle" /\ wpc'[w] = "exited" /\ lockKey' = lockKey
    BY <1>3, WorkerTo, Zenon DEF WorkerExit, storeVars
  <2>. QED  BY <2>1, Zenon DEF WorksOn, InLock, LockedPC, DeadLetterPC, Handed, Hands
<1>4. CASE WorkerGetDone(w)
  <2>1. wpc[w] = "getDone" /\ UNCHANGED <<lockKey, doneKey>>
    BY <1>4, Zenon DEF WorkerGetDone
  <2>2. (Return(w) /\ i \in doneKey) \/ Goto(w, "setLock")
    BY <1>4, Zenon DEF WorkerGetDone
  <2>3. CASE Return(w) /\ i \in doneKey
    <3>1. wpc'[w] = "idle"
      BY <2>3, WorkerTo, Zenon
    <3>. QED  BY <2>1, <2>3, <3>1, Zenon DEF InLock, LockedPC, DeadLetterPC, Handed, Hands
  <2>4. CASE Goto(w, "setLock")
    <3>1. wpc'[w] = "setLock" /\ wjob'[w] = wjob[w]
      BY <2>4, WorkerTo, Zenon
    <3>. QED  BY <1>2, <2>1, <3>1, Zenon DEF InLock, LockedPC, DeadLetterPC
  <2>. QED  BY <2>2, <2>3, <2>4
<1>5. CASE WorkerSetLock(w)
  <2>1. wpc[w] = "setLock" /\ ~ InLock(w)
    BY <1>5, Zenon DEF WorkerSetLock, InLock, LockedPC, DeadLetterPC
  <2>2. \/ i \notin lockKey /\ lockKey' = lockKey \cup {i} /\ Goto(w, "mark")
        \/ i \in lockKey /\ lockKey' = lockKey /\ Return(w)
    BY <1>0, <1>5, Zenon DEF WorkerSetLock
  <2>3. CASE i \notin lockKey /\ lockKey' = lockKey \cup {i} /\ Goto(w, "mark")
    <3>1. wpc'[w] = "mark" /\ wjob'[w] = wjob[w]
      BY <2>3, WorkerTo, Zenon
    <3>2. InLock(w)' /\ WorksOn(w, i)' /\ Handed(w)'
      BY <3>1, Zenon DEF InLock, LockedPC, WorksOn, Handed
    <3>. QED  BY <2>1, <2>3, <3>1, <3>2 DEF Hands
  <2>4. CASE i \in lockKey /\ lockKey' = lockKey /\ Return(w)
    <3>1. wpc'[w] = "idle"
      BY <2>4, WorkerTo, Zenon
    <3>. QED  BY <2>1, <2>4, <3>1, Zenon DEF Handed, Hands
  <2>. QED  BY <2>2, <2>3, <2>4, Zenon
<1>6. ASSUME NEW c, c.id = wjob[w].id, NEW s, NEW pc, UpdateThen(w, c, s, pc),
             pc \notin {"idle", "exited", "succAttempt", "unlock"},
             \/ pc \in LockedPC
             \/ pc \in DeadLetterPC /\ wpc[w] \in DeadLetterPC
      PROVE  Hands(w, i)
  <2>0. lockKey' = lockKey
    BY <1>6, Zenon DEF UpdateThen
  <2>1. wpc'[w] = pc /\ wjob'[w] = c /\ lockKey' = lockKey
    BY <1>6, <2>0, WorkerTo, Zenon
  <2>2. InLock(w) => InLock(w)'
    BY <1>6, <2>1, Zenon DEF InLock, LockedPC, DeadLetterPC
  <2>. QED  BY <1>2, <1>6, <2>1, <2>2
<1>7. CASE WorkerMark(w) \/ WorkerSuccess(w)
  BY <1>6, <1>7, Zenon DEF WorkerMark, WorkerSuccess, LockedPC
<1>8. CASE WorkerDeadLetter(w)
  BY <1>6, <1>8, Zenon DEF WorkerDeadLetter, DeadLetterPC
<1>9. CASE WorkerRetry(w)
  <2>1. PICK c : c = [wjob[w] EXCEPT !.retry = @ + 1]
    BY Zenon
  <2>2. c.id = wjob[w].id
    BY <1>1, <1>9, <2>1, Zenon DEF WorkerRetry, Copy
  <2>3. UpdateThen(w, c, "QUEUED", "spawn")
    BY <1>9, <2>1, Zenon DEF WorkerRetry
  <2>. QED  BY <1>6, <2>2, <2>3, Zenon DEF LockedPC
<1>10. CASE WorkerRun(w)
  <2>1. lockKey' = lockKey /\ wjob'[w] = wjob[w] /\ wpc'[w] \in {"succUpdate", "attemptDead", "attemptRetry"}
    BY <1>10, WorkerTo, Zenon DEF WorkerRun, storeVars
  <2>. QED  BY <1>2, <2>1, Zenon DEF InLock, LockedPC
<1>11. CASE WorkerSuccessDone(w)
  <2>1. wpc'[w] = "succAttempt" /\ wjob'[w] = wjob[w] /\ lockKey' = lockKey
    BY <1>11, WorkerTo, Zenon DEF WorkerSuccessDone
  <2>2. i \in doneKey'
    BY <1>0, <1>11, Zenon DEF WorkerSuccessDone, SetDone
  <2>. QED  BY <2>1, <2>2, ZenonT(30) DEF InLock, LockedPC, Handed, Hands
<1>12. CASE WorkerAttempt(w)
  <2>1. /\ UNCHANGED <<lockKey, doneKey>> /\ wjob'[w] = wjob[w]
        /\ \/ wpc[w] = "succAttempt" /\ wpc'[w] = "unlock"
           \/ wpc[w] = "attemptDead" /\ wpc'[w] = "dlUpdate"
           \/ wpc[w] = "attemptRetry" /\ wpc'[w] = "retryUpdate"
    BY <1>12, WorkerTo, Zenon DEF WorkerAttempt, AttemptNext
  <2>2. CASE wpc[w] = "succAttempt" /\ wpc'[w] = "unlock"
    BY <2>1, <2>2, Zenon DEF WorksOn, InLock, LockedPC, Handed, Hands
  <2>3. CASE wpc[w] = "attemptDead" /\ wpc'[w] = "dlUpdate"
    <3>1. Registered(wjob[w].id)
      BY <2>3, Zenon DEF OnlyRegistered, LockedPC
    <3>2. InLock(w)'
      BY <2>1, <2>3, <3>1 DEF InLock, DeadLetterPC, Registered
    <3>. QED  BY <1>2, <2>1, <2>3, <3>2
  <2>4. CASE wpc[w] = "attemptRetry" /\ wpc'[w] = "retryUpdate"
    BY <1>2, <2>1, <2>4 DEF InLock, LockedPC
  <2>. QED  BY <2>1, <2>2, <2>3, <2>4
<1>13. CASE WorkerDeadLetterPush(w)
  <2>1. wpc[w] = "dlPush" /\ wpc'[w] = "dlDone" /\ wjob'[w] = wjob[w] /\ lockKey' = lockKey
    BY <1>13, WorkerTo, Zenon DEF WorkerDeadLetterPush
  <2>2. InLock(w) => InLock(w)'
    BY <2>1, Zenon DEF InLock, LockedPC, DeadLetterPC, Registered
  <2>. QED  BY <1>2, <2>1, <2>2
<1>14. CASE WorkerDeadLetterDone(w)
  <2>1. wpc[w] = "dlDone" /\ lockKey' = lockKey /\ i \in doneKey'
    BY <1>0, <1>14, Zenon DEF WorkerDeadLetterDone, SetDone
  <2>2. CASE Registered(wjob[w].id)
    <3>1. wpc'[w] = "unlock" /\ wjob'[w] = wjob[w]
      BY <1>14, <2>2, WorkerTo, ZenonT(30) DEF WorkerDeadLetterDone
    <3>. QED  BY <2>1, <3>1, ZenonT(30) DEF InLock, LockedPC, Handed, Hands
  <2>3. CASE ~ Registered(wjob[w].id)
    <3>1. wpc'[w] = "idle"
      BY <1>14, <2>3, WorkerTo, Zenon DEF WorkerDeadLetterDone
    <3>2. ~ InLock(w)
      BY <2>1, <2>3, Zenon DEF InLock, LockedPC
    <3>. QED  BY <2>1, <3>1, <3>2, ZenonT(30) DEF Handed, Hands
  <2>. QED  BY <2>2, <2>3, Zenon
<1>15. CASE WorkerSpawn(w)
  <2>1. /\ wpc[w] = "spawn" /\ wpc'[w] = "unlock" /\ wjob'[w] = wjob[w] /\ lockKey' = lockKey
        /\ timer' = [timer EXCEPT ![wjob[w]] = @ + 1]
    BY <1>15, WorkerTo, Zenon DEF WorkerSpawn, storeVars
  <2>2. wjob[w] \in Copy /\ timer \in [Copy -> Nat]
    BY <1>1, <2>1 DEF TypeInv, TypeOK, PoolTypeOK
  <2>3. timer'[wjob[w]] > 0
    BY <2>1, <2>2
  <2>4. Waits(i, timer')
    BY <2>2, <2>3, Zenon DEF Waits
  <2>. QED  BY <2>1, <2>4, Zenon DEF InLock, LockedPC, Handed, Hands
<1>16. CASE WorkerUnlock(w)
  <2>1. wpc[w] = "unlock" /\ wpc'[w] = "idle" /\ lockKey' = lockKey \ {i}
    BY <1>0, <1>16, WorkerTo, Zenon DEF WorkerUnlock
  <2>. QED  BY <2>1, Zenon DEF WorksOn, Handed, Hands
<1>. QED
  BY <1>3, <1>4, <1>5, <1>7, <1>8, <1>9, <1>10, <1>11, <1>12, <1>13, <1>14, <1>15, <1>16 DEF Worker

\* Sequences and timers: what a move leaves in place.
LEMMA BufferedMoves ==
  ASSUME NEW s \in Seq(Copy), NEW j
  PROVE  /\ \A c \in Copy, k \in DOMAIN s : k \in DOMAIN Append(s, c) /\ Append(s, c)[k] = s[k]
         /\ \A c \in Copy : Len(s) + 1 \in DOMAIN Append(s, c) /\ Append(s, c)[Len(s) + 1] = c
         /\ s # <<>> => \A k \in DOMAIN s : \/ s[k] = Head(s)
                                            \/ k - 1 \in DOMAIN Tail(s) /\ Tail(s)[k - 1] = s[k]
OBVIOUS

\* A push keeps what is on the lists and adds its copy.
LEMMA PushQueued ==
  ASSUME TypeInv, NEW c \in Copy, Push(c)
  PROVE  Queued(c.id)' /\ \A j : Queued(j) => Queued(j)'
<1>1. PICK p \in Priorities : p = keyForPriority(c)
  BY Zenon DEF keyForPriority, PriorityForType, Priorities
<1>2. queue \in [Priorities -> Seq(Copy)] /\ queue' = [queue EXCEPT ![p] = Append(@, c)]
  BY <1>1, Zenon DEF Push, TypeInv, TypeOK, StoresTypeOK
<1>3. queue'[p] = Append(queue[p], c) /\ \A q \in Priorities \ {p} : queue'[q] = queue[q]
  BY <1>2, Zenon
<1>4. queue[p] \in Seq(Copy)
  BY <1>2, Zenon
<1>5. Queued(c.id)'
  <2>1. Len(queue[p]) + 1 \in DOMAIN queue'[p] /\ queue'[p][Len(queue[p]) + 1] = c
    BY <1>3, <1>4, BufferedMoves
  <2>. QED  BY <2>1, Zenon DEF Queued
<1>6. ASSUME NEW j, Queued(j) PROVE Queued(j)'
  <2>0. PICK q \in Priorities : \E k \in DOMAIN queue[q] : queue[q][k].id = j
    BY <1>6, Zenon DEF Queued
  <2>1. PICK k \in DOMAIN queue[q] : queue[q][k].id = j
    BY <2>0, Zenon
  <2>2. CASE q = p
    <3>1. k \in DOMAIN queue'[p] /\ queue'[p][k] = queue[p][k]
      BY <1>3, <1>4, <2>1, <2>2, BufferedMoves
    <3>. QED  BY <2>1, <2>2, <3>1 DEF Queued
  <2>3. CASE q # p
    BY <1>3, <2>1, <2>3 DEF Queued
  <2>. QED  BY <2>2, <2>3, Zenon
<1>. QED  BY <1>5, <1>6, Zenon

\* The steps of a worker.
LEMMA WorkerPresent ==
  ASSUME TypeInv, OnlyRegistered, Undisturbed, Undisturbed', PresentInv, NEW w \in Workers, Worker(w)
  PROVE  PresentInv'
<1>1. /\ \A j \in accepted : Present(j)
      /\ \A j \in lockKey : \E v \in Workers : InLock(v) /\ wjob[v].id = j
      /\ \A v \in Workers : Handed(v)
  BY Zenon DEF PresentInv
<1>2. /\ \A v \in Workers \ {w} : wpc'[v] = wpc[v] /\ wjob'[v] = wjob[v]
      /\ UNCHANGED <<queue, held, repush, accepted>>
  BY WorkerFrame, Zenon
<1>3. doneKey \subseteq doneKey'
  BY WorkerAdds, Zenon
<1>4. \A j : Waits(j, timer) => Waits(j, timer')
  <2>1. CASE WorkerSpawn(w)
    <3>1. timer \in [Copy -> Nat] /\ timer' = [timer EXCEPT ![wjob[w]] = @ + 1]
      BY <2>1, Zenon DEF WorkerSpawn, TypeInv, TypeOK, PoolTypeOK
    <3>2. \A c \in Copy : timer[c] > 0 => timer'[c] > 0
      BY <3>1
    <3>. QED  BY <3>2, Zenon DEF Waits
  <2>2. CASE ~ WorkerSpawn(w)
    <3>1. timer' = timer
      BY <2>2, Zenon DEF Worker, WorkerReceive, WorkerExit, WorkerGetDone, WorkerSetLock, WorkerMark, WorkerRun,
         WorkerSuccess, WorkerSuccessDone, WorkerAttempt, WorkerDeadLetter, WorkerDeadLetterPush,
         WorkerDeadLetterDone, WorkerRetry, WorkerUnlock, UpdateThen
    <3>. QED  BY <3>1, Zenon
  <2>. QED  BY <2>1, <2>2, Zenon
<1>5. \A v \in Workers \ {w} : /\ Handed(v)' /\ (InLock(v)' <=> InLock(v))
                               /\ \A j : WorksOn(v, j)' <=> WorksOn(v, j)
  <2>1. \A v \in Workers \ {w} : Handed(v)'
    BY <1>1, <1>2, <1>3, <1>4 DEF Handed
  <2>2. \A v \in Workers \ {w} : (InLock(v)' <=> InLock(v)) /\ \A j : WorksOn(v, j)' <=> WorksOn(v, j)
    BY <1>2, Zenon DEF InLock, WorksOn, Registered
  <2>. QED  BY <2>1, <2>2, Zenon
<1>6. CASE WorkerReceive(w)
  <2>0. wpc \in [Workers -> WorkerPC] /\ wjob \in [Workers -> Copy \cup {NoCopy}] /\ jobs \in Seq(Copy)
    BY Zenon DEF TypeInv, TypeOK, PoolTypeOK
  <2>1. /\ wpc[w] = "idle" /\ jobs # <<>> /\ jobs' = Tail(jobs) /\ wjob'[w] = Head(jobs)
        /\ wpc'[w] \in {"getDone", "dlUpdate"} /\ lockKey' = lockKey
    BY <1>6, <2>0, Zenon DEF WorkerReceive, storeVars
  <2>10. PICK h : h = Head(jobs)
    BY Zenon
  <2>2. WorksOn(w, h.id)' /\ Handed(w)'
    BY <2>1, <2>10, Zenon DEF WorksOn, Handed
  <2>3. ~ InLock(w) /\ \A j : ~ WorksOn(w, j)
    BY <2>1, Zenon DEF InLock, WorksOn, LockedPC, DeadLetterPC
  <2>4. ASSUME NEW j \in accepted PROVE Present(j)'
    <3>1. Present(j)
      BY <1>1, Zenon
    <3>2. CASE Buffered(j)
      <4>1. PICK k \in DOMAIN jobs : jobs[k].id = j
        BY <3>2, Zenon DEF Buffered
      <4>2. jobs[k] = Head(jobs) \/ (k - 1 \in DOMAIN jobs' /\ jobs'[k - 1] = jobs[k])
        BY <2>0, <2>1, <4>1, BufferedMoves
      <4>. QED  BY <2>2, <2>10, <4>1, <4>2, ZenonT(30) DEF Present, Buffered
    <3>3. CASE \E v \in Workers : WorksOn(v, j)
      BY <1>5, <2>3, <3>3, Zenon DEF Present
    <3>4. CASE Queued(j) \/ Held(j)
      BY <1>2, <3>4, Zenon DEF Present, Queued, Held
    <3>5. CASE j \in doneKey \/ Waits(j, timer) \/ Waits(j, repush)
      BY <1>2, <1>3, <1>4, <3>5 DEF Present
    <3>. QED  BY <3>1, <3>2, <3>3, <3>4, <3>5 DEF Present
  <2>5. ASSUME NEW j \in lockKey' PROVE \E v \in Workers : InLock(v)' /\ wjob'[v].id = j
    BY <1>1, <1>2, <1>5, <2>1, <2>3
  <2>. QED  BY <1>2, <1>5, <2>2, <2>4, <2>5, ZenonT(30) DEF PresentInv
<1>7. CASE ~ WorkerReceive(w)
  <2>1. PICK i : i = wjob[w].id
    BY Zenon
  <2>2. Hands(w, i)
    BY <1>1, <1>7, <2>1, WorkerHands
  <2>3. jobs' = jobs
    BY <1>7, Zenon DEF Worker, WorkerExit, WorkerGetDone, WorkerSetLock, WorkerMark, WorkerRun,
         WorkerSuccess, WorkerSuccessDone, WorkerAttempt, WorkerDeadLetter, WorkerDeadLetterPush,
         WorkerDeadLetterDone, WorkerRetry, WorkerSpawn, WorkerUnlock, UpdateThen
  <2>4. ASSUME NEW j \in accepted PROVE Present(j)'
    <3>1. Present(j)
      BY <1>1, Zenon
    <3>2. CASE Queued(j) \/ Held(j) \/ Buffered(j)
      BY <1>2, <2>3, <3>2, ZenonT(30) DEF Present, Queued, Held, Buffered
    <3>3. CASE j \in doneKey \/ Waits(j, timer) \/ Waits(j, repush)
      BY <1>2, <1>3, <1>4, <3>3, Zenon DEF Present
    <3>4. ASSUME NEW v \in Workers \ {w}, WorksOn(v, j) PROVE Present(j)'
      BY <1>5, <3>4, Zenon DEF Present
    <3>5. CASE WorksOn(w, j)
      <4>1. i = j
        BY <2>1, <3>5, Zenon DEF WorksOn
      <4>2. WorksOn(w, j)' \/ j \in doneKey' \/ Waits(j, timer') \/ (wpc[w] = "setLock" /\ j \in lockKey)
        BY <2>2, <3>5, <4>1 DEF Hands
      <4>3. CASE wpc[w] = "setLock" /\ j \in lockKey
        <5>1. PICK v \in Workers : InLock(v) /\ wjob[v].id = j
          BY <1>1, <4>3, Zenon
        <5>2. v # w
          BY <4>3, <5>1, Zenon DEF InLock, LockedPC, DeadLetterPC
        <5>3. WorksOn(v, j) \/ j \in doneKey \/ Waits(j, timer)
          <6>1. Handed(v)
            BY <1>1, Zenon
          <6>2. CASE wpc[v] \in {"succAttempt", "unlock"}
            BY <5>1, <6>1, <6>2 DEF Handed
          <6>3. CASE wpc[v] \notin {"succAttempt", "unlock"}
            BY <5>1, <6>3, Zenon DEF WorksOn, InLock, LockedPC, DeadLetterPC
          <6>. QED  BY <6>2, <6>3, Zenon
        <5>. QED  BY <3>3, <3>4, <5>2, <5>3
      <4>. QED  BY <4>2, <4>3, Zenon DEF Present
    <3>. QED  BY <3>1, <3>2, <3>3, <3>4, <3>5 DEF Present
  <2>5. ASSUME NEW j \in lockKey' PROVE \E v \in Workers : InLock(v)' /\ wjob'[v].id = j
    <3>1. CASE j \in lockKey
      <4>1. PICK v \in Workers : InLock(v) /\ wjob[v].id = j
        BY <1>1, <3>1, Zenon
      <4>2. CASE v = w
        BY <2>1, <2>2, <4>1, <4>2 DEF Hands
      <4>3. CASE v # w
        BY <1>2, <1>5, <4>1, <4>3
      <4>. QED  BY <4>2, <4>3, Zenon
    <3>2. CASE j \notin lockKey
      BY <2>2, <3>2, Zenon DEF Hands
    <3>. QED  BY <3>1, <3>2, Zenon
  <2>6. Handed(w)'
    BY <2>2, Zenon DEF Hands
  <2>. QED  BY <1>2, <1>5, <2>4, <2>5, <2>6 DEF PresentInv
<1>. QED  BY <1>6, <1>7, Zenon

\* The steps of the dispatcher.
LEMMA DispatcherPresent ==
  ASSUME TypeInv, HeldToSend, Undisturbed, Undisturbed', PresentInv, Dispatcher
  PROVE  PresentInv'
<1>0. /\ queue \in [Priorities -> Seq(Copy)] /\ jobs \in Seq(Copy) /\ (dpc = "send" => held \in Copy)
      /\ ~ Call("redis", TRUE, FALSE) /\ ctxLive
  BY DEF TypeInv, TypeOK, StoresTypeOK, PoolTypeOK, Call, Undisturbed
<1>1. UNCHANGED <<wpc, wjob, timer, repush, doneKey, lockKey, accepted>>
  BY Zenon DEF Dispatcher, DispatchCheck, DispatchPop, DispatchNoJob, DispatchPopError, DispatchSend,
      DispatchRequeue, storeVars
<1>2. /\ \A w \in Workers : (InLock(w)' <=> InLock(w)) /\ (Handed(w)' <=> Handed(w))
      /\ \A w \in Workers : \A j : WorksOn(w, j)' <=> WorksOn(w, j)
  BY <1>1, Zenon DEF InLock, Handed, WorksOn, Registered
<1>3. SUFFICES ASSUME NEW j, Queued(j) \/ Buffered(j) \/ Held(j)
               PROVE  Queued(j)' \/ Buffered(j)' \/ Held(j)'
  <2>1. \A j : Present(j) => Present(j)'
    BY <1>1, <1>2, <1>3, Zenon DEF Present
  <2>. QED  BY <1>1, <1>2, <2>1, Zenon DEF PresentInv
<1>4. CASE DispatchCheck \/ DispatchNoJob
  <2>1. UNCHANGED <<queue, jobs, held>>
    BY <1>4, Zenon DEF DispatchCheck, DispatchNoJob, storeVars
  <2>. QED  BY <1>3, <2>1, Zenon DEF Queued, Buffered, Held
<1>5. ASSUME NEW p \in Priorities, DispatchPop(p)
      PROVE  Queued(j)' \/ Buffered(j)' \/ Held(j)'
  <2>1. /\ ~ Held(j) /\ jobs' = jobs /\ held' = Head(queue[p]) /\ queue[p] # <<>> /\ queue[p] \in Seq(Copy)
        /\ queue'[p] = Tail(queue[p]) /\ \A q \in Priorities \ {p} : queue'[q] = queue[q]
    BY <1>0, <1>5, Zenon DEF DispatchPop, Served, HeldToSend, Held
  <2>2. CASE Buffered(j)
    BY <2>1, <2>2, Zenon DEF Buffered
  <2>3. CASE Queued(j)
    <3>1. PICK q \in Priorities : \E k \in DOMAIN queue[q] : queue[q][k].id = j
      BY <2>3, Zenon DEF Queued
    <3>2. PICK k \in DOMAIN queue[q] : queue[q][k].id = j
      BY <3>1, Zenon
    <3>3. CASE q # p
      BY <2>1, <3>2, <3>3 DEF Queued
    <3>4. CASE q = p
      <4>1. queue[p][k] = Head(queue[p]) \/ (k - 1 \in DOMAIN queue'[p] /\ queue'[p][k - 1] = queue[p][k])
        BY <2>1, <3>2, <3>4, BufferedMoves
      <4>2. Head(queue[p]) \in Copy
        BY <2>1, HeadTail, Zenon
      <4>. QED  BY <2>1, <3>2, <3>4, <4>1, <4>2, Zenon DEF Queued, Held
    <3>. QED  BY <3>3, <3>4, Zenon
  <2>. QED  BY <1>3, <2>1, <2>2, <2>3
<1>6. CASE DispatchSend
  <2>1. held \in Copy /\ jobs' = Append(jobs, held) /\ queue' = queue
    BY <1>0, <1>6, Zenon DEF DispatchSend, storeVars
  <2>2. CASE Queued(j)
    BY <2>1, <2>2, Zenon DEF Queued
  <2>3. CASE Buffered(j)
    <3>1. PICK k \in DOMAIN jobs : jobs[k].id = j
      BY <2>3, Zenon DEF Buffered
    <3>2. k \in DOMAIN jobs' /\ jobs'[k] = jobs[k]
      BY <1>0, <2>1, <3>1, BufferedMoves
    <3>. QED  BY <3>1, <3>2, Zenon DEF Buffered
  <2>4. CASE Held(j)
    <3>1. Len(jobs) + 1 \in DOMAIN jobs' /\ jobs'[Len(jobs) + 1] = held
      BY <1>0, <2>1, BufferedMoves, Zenon
    <3>. QED  BY <2>4, <3>1, Zenon DEF Buffered, Held
  <2>. QED  BY <1>3, <2>2, <2>3, <2>4
<1>7. ~ DispatchRequeue /\ \A p \in Priorities : ~ DispatchPopError(p)
  BY <1>0, Zenon DEF DispatchRequeue, DispatchPopError
<1>. QED  BY <1>4, <1>5, <1>6, <1>7 DEF Dispatcher

\* The retry goroutines.  The delay outlives the deferred unlock, so the worker
\* that started the goroutine has left when it pushes.
LEMMA RetryPresent ==
  ASSUME "shortBackoff" \notin Env, TypeInv, Undisturbed, Undisturbed', PresentInv, NEW c \in Copy, Retry(c)
  PROVE  PresentInv'
<1>0. /\ timer \in [Copy -> Nat] /\ repush \in [Copy -> Nat] /\ ctxLive = TRUE
      /\ \A ok \in BOOLEAN : Call("redis", ctxLive, ok) \/ Call("redis", TRUE, ok) => ok = TRUE
  BY DEF TypeInv, TypeOK, PoolTypeOK, Call, Undisturbed
<1>1. UNCHANGED <<jobs, held, wpc, wjob, doneKey, lockKey, accepted>>
  BY Zenon DEF Retry, RetryTimer, RetryAgain, RetryCancelled
<1>2. /\ \A w \in Workers : InLock(w)' <=> InLock(w)
      /\ \A w \in Workers : \A j : WorksOn(w, j)' <=> WorksOn(w, j)
  BY <1>1, Zenon DEF InLock, WorksOn, Registered
<1>3. Push(c) /\ ~ RetryCancelled(c)
  <2>1. ~ RetryCancelled(c)
    BY <1>0, Zenon DEF RetryCancelled
  <2>2. CASE RetryTimer(c)
    <3>1. PICK ok \in BOOLEAN : /\ Call("redis", ctxLive, ok)
                                /\ (ok /\ Push(c)) \/ ~ ok
      BY <2>2, Zenon DEF RetryTimer
    <3>. QED  BY <1>0, <2>1, <3>1, Zenon
  <2>3. CASE RetryAgain(c)
    <3>1. PICK ok \in BOOLEAN : Call("redis", TRUE, ok) /\ (Push(c) \/ ~ ok)
      BY <2>3, Zenon DEF RetryAgain, BackgroundPush
    <3>. QED  BY <1>0, <2>1, <3>1, Zenon
  <2>. QED  BY <2>1, <2>2, <2>3, Zenon DEF Retry
<1>4. Queued(c.id)' /\ \A j : Queued(j) => Queued(j)'
  BY <1>3, PushQueued, Zenon
<1>5. \A d \in Copy \ {c} : timer'[d] = timer[d] /\ repush'[d] = repush[d]
  <2>1. CASE RetryTimer(c)
    BY <1>0, <2>1, Zenon DEF RetryTimer
  <2>2. CASE RetryAgain(c)
    BY <1>0, <2>2, Zenon DEF RetryAgain
  <2>. QED  BY <1>3, <2>1, <2>2, Zenon DEF Retry
<1>6. \A j : j # c.id => (Waits(j, timer) => Waits(j, timer')) /\ (Waits(j, repush) => Waits(j, repush'))
  BY <1>5, Zenon DEF Waits
<1>7. \A j : Present(j) => Present(j)'
  <2>. SUFFICES ASSUME NEW j, Present(j) PROVE Present(j)'
    BY Zenon
  <2>1. CASE j = c.id
    BY <1>4, <2>1, Zenon DEF Present
  <2>2. CASE j # c.id
    <3>1. Buffered(j) \/ Held(j) \/ j \in doneKey => Buffered(j)' \/ Held(j)' \/ j \in doneKey'
      BY <1>1, Zenon DEF Buffered, Held
    <3>. QED  BY <1>2, <1>4, <1>6, <2>2, <3>1 DEF Present
  <2>. QED  BY <2>1, <2>2, Zenon
<1>8. \A w \in Workers : Handed(w) => Handed(w)'
  <2>. SUFFICES ASSUME NEW w \in Workers, Handed(w) PROVE Handed(w)'
    BY Zenon
  <2>1. CASE RetryTimer(c)
    <3>1. wpc[w] = "unlock" => wjob[w].id # c.id
      BY <2>1, Zenon DEF RetryTimer, DelayElapsed
    <3>. QED  BY <1>1, <1>6, <3>1, ZenonT(30) DEF Handed
  <2>2. CASE RetryAgain(c)
    <3>1. timer' = timer
      BY <2>2, Zenon DEF RetryAgain
    <3>. QED  BY <1>1, <3>1, Zenon DEF Handed
  <2>. QED  BY <1>3, <2>1, <2>2, Zenon DEF Retry
<1>. QED  BY <1>1, <1>2, <1>7, <1>8 DEF PresentInv
\* The dispatcher holds a copy only while it sends.
LEMMA HeldStep ==
  ASSUME TypeInv, HeldToSend, PoolStep
  PROVE  HeldToSend'
<1>0. NoCopy \notin Copy
  BY StoresAssumption, Zenon
<1>1. CASE Dispatcher
  BY <1>0, <1>1, Zenon DEF Dispatcher, DispatchCheck, DispatchPop, DispatchNoJob, DispatchPopError, DispatchSend,
     DispatchRequeue, HeldToSend
<1>2. ASSUME NEW w \in Workers, Worker(w) PROVE HeldToSend'
  BY <1>2, WorkerFrame, Zenon DEF HeldToSend
<1>3. CASE (\E c \in Copy : Retry(c)) \/ Cancel \/ Shutdown \/ ShutdownWait \/ ShutdownReturn \/ \E j \in Jobs : LockExpire(j)
  <2>1. UNCHANGED <<held, dpc>>
    BY <1>3, Zenon DEF Retry, RetryTimer, RetryAgain, RetryCancelled, Cancel, Shutdown, ShutdownWait,
       ShutdownReturn, LockExpire, poolVars, localVars
  <2>. QED  BY <2>1, Zenon DEF HeldToSend
<1>. QED  BY <1>1, <1>2, <1>3, Zenon DEF PoolStep

\* A step that moves no copy: only locks may go, and jobs be accepted that a
\* list has.
LEMMA MovesNothing ==
  ASSUME PresentInv, Undisturbed, UNCHANGED <<jobs, held, wpc, wjob, timer, repush, doneKey>>,
         \A j : Queued(j) => Queued(j)', \A j \in accepted' \ accepted : Queued(j)', lockKey' \subseteq lockKey
  PROVE  PresentInv'
<1>1. /\ \A w \in Workers : (InLock(w)' <=> InLock(w)) /\ (Handed(w)' <=> Handed(w))
      /\ \A w \in Workers : \A j : WorksOn(w, j)' <=> WorksOn(w, j)
  BY ZenonT(30) DEF InLock, Handed, WorksOn, Registered
<1>2. \A j : (Buffered(j)' <=> Buffered(j)) /\ (Held(j)' <=> Held(j))
  BY Zenon DEF Buffered, Held
<1>3. \A j : Present(j) => Present(j)'
  BY <1>1, <1>2, Zenon DEF Present
<1>4. \A j \in accepted' : Present(j)'
  BY <1>3, Zenon DEF Present, PresentInv
<1>. QED  BY <1>1, <1>4, Zenon DEF PresentInv

\* Every step of the pool.
LEMMA PresentStep ==
  ASSUME "shortBackoff" \notin Env, TypeInv, OnlyRegistered, HeldToSend, PresentInv, PoolStep
  PROVE  PresentInv'
<1>. SUFFICES ASSUME Undisturbed' PROVE PresentInv'
  BY Zenon DEF PresentInv
<1>1. Undisturbed
  BY StaysUndisturbed, Zenon
<1>2. CASE Dispatcher
  BY <1>1, <1>2, DispatcherPresent, Zenon
<1>3. ASSUME NEW w \in Workers, Worker(w) PROVE PresentInv'
  BY <1>1, <1>3, WorkerPresent, Zenon
<1>4. ASSUME NEW c \in Copy, Retry(c) PROVE PresentInv'
  BY <1>1, <1>4, RetryPresent, Zenon
<1>5. CASE Cancel \/ Shutdown \/ ShutdownWait \/ ShutdownReturn \/ \E j \in Jobs : LockExpire(j)
  <2>1. /\ UNCHANGED <<queue, jobs, held, wpc, wjob, timer, repush, doneKey, accepted>>
        /\ lockKey' = lockKey \/ \E j \in Jobs : lockKey' = lockKey \ {j}
    BY <1>5, Zenon DEF Cancel, Shutdown, ShutdownWait, ShutdownReturn, LockExpire, poolVars, localVars, storeVars
  <2>2. \A j : Queued(j) => Queued(j)'
    BY <2>1, Zenon DEF Queued
  <2>. QED  BY <1>1, <2>1, <2>2, MovesNothing
<1>. QED  BY <1>2, <1>3, <1>4, <1>5, Zenon DEF PoolStep

\* The three facts together, across restarts and submissions.
PlaceInv == OnlyRegistered /\ HeldToSend /\ PresentInv

LEMMA PlaceInvariant ==
  ASSUME "shortBackoff" \notin Env
  PROVE  Spec => [](TypeInv /\ Budget /\ PlaceInv)
<1>1. Init => PlaceInv
  <2>. SUFFICES ASSUME Init PROVE PlaceInv
    BY Zenon
  <2>1. wpc = [w \in Workers |-> "idle"] /\ held = NoCopy /\ accepted = {} /\ lockKey = {}
    BY Zenon DEF Init, PoolInit, StoresInit
  <2>2. \A w \in Workers : Handed(w)
    BY <2>1, Zenon DEF Handed
  <2>. QED  BY <2>1, <2>2, StoresAssumption DEF PlaceInv, OnlyRegistered, HeldToSend, PresentInv, LockedPC
<1>2. TypeInv /\ PlaceInv /\ [Next]_vars => PlaceInv'
  <2>. SUFFICES ASSUME TypeInv, PlaceInv, [Next]_vars PROVE PlaceInv'
    BY Zenon
  <2>1. CASE PoolStep
    BY <2>1, RegisteredStep, HeldStep, PresentStep, Zenon DEF PlaceInv
  <2>2. CASE Restart
    <3>1. /\ restarts' = restarts + 1 /\ restarts \in Nat /\ held' = NoCopy
          /\ wpc' = [w \in Workers |-> "idle"]
      BY <2>2, PoolAssumption DEF Restart, TypeInv, TypeOK, PoolTypeOK
    <3>2. ~ Undisturbed'
      BY <3>1 DEF Undisturbed
    <3>. QED  BY <3>1, <3>2, StoresAssumption DEF PlaceInv, OnlyRegistered, HeldToSend, PresentInv, LockedPC
  <2>3. ASSUME NEW i \in Jobs, Submit(i) PROVE PlaceInv'
    <3>1. /\ UNCHANGED <<jobs, held, dpc, wpc, wjob, timer, repush, doneKey, lockKey, ctxLive, faults, restarts>>
          /\ Push(NewJob(i)) /\ accepted' = accepted \cup {i}
      BY <2>3, Zenon DEF Submit, poolVars, localVars
    <3>2. NewJob(i) \in Copy /\ NewJob(i).id = i
      BY StoresAssumption DEF NewJob, Copy
    <3>3. Queued(i)' /\ \A j : Queued(j) => Queued(j)'
      <4>1. PICK c : c = NewJob(i)
        BY Zenon
      <4>. QED  BY <3>1, <3>2, <4>1, PushQueued, Zenon
    <3>4. OnlyRegistered' /\ HeldToSend'
      BY <3>1, Zenon DEF PlaceInv, OnlyRegistered, HeldToSend, Registered
    <3>5. Undisturbed' => Undisturbed
      BY <3>1, Zenon DEF Undisturbed
    <3>6. Undisturbed => PresentInv'
      BY <3>1, <3>3, MovesNothing DEF PlaceInv
    <3>. QED  BY <3>4, <3>5, <3>6, Zenon DEF PlaceInv, PresentInv
  <2>4. CASE UNCHANGED vars
    <3>1. /\ UNCHANGED <<queue, jobs, held, dpc, wpc, wjob, timer, repush, doneKey, lockKey, ctxLive, faults, restarts>>
          /\ accepted' = accepted
      BY <2>4, Zenon DEF vars, storeVars, poolVars, localVars
    <3>2. \A j : Queued(j) => Queued(j)'
      BY <3>1, Zenon DEF Queued
    <3>4. OnlyRegistered' /\ HeldToSend'
      BY <3>1, Zenon DEF PlaceInv, OnlyRegistered, HeldToSend, Registered
    <3>5. Undisturbed' => Undisturbed
      BY <3>1, Zenon DEF Undisturbed
    <3>6. Undisturbed => PresentInv'
      BY <3>1, <3>2, MovesNothing, Zenon DEF PlaceInv
    <3>. QED  BY <3>4, <3>5, <3>6, Zenon DEF PlaceInv, PresentInv
  <2>. QED  BY <2>1, <2>2, <2>3, <2>4 DEF Next
<1>. QED  BY <1>1, <1>2, BudgetInvariant, PTL DEF Spec

\* Who is present has a place.
LEMMA PresentPlace ==
  ASSUME TypeInv, NEW j \in Jobs, Present(j)
  PROVE  j \in doneKey \/ PlacesOf(j) # {}
<1>0. timer \in [Copy -> Nat] /\ repush \in [Copy -> Nat]
  BY Zenon DEF TypeInv, TypeOK, PoolTypeOK
<1>1. CASE Queued(j)
  <2>1. PICK p \in Priorities : \E k \in DOMAIN queue[p] : queue[p][k].id = j
    BY <1>1, Zenon DEF Queued
  <2>2. PICK k \in DOMAIN queue[p] : queue[p][k].id = j
    BY <2>1, Zenon
  <2>3. <<"queue", p, k>> \in OnList(j, p)
    BY <2>2, Zenon DEF OnList
  <2>. QED  BY <2>3, Zenon DEF PlacesOf
<1>2. CASE Buffered(j)
  <2>1. PICK k \in DOMAIN jobs : jobs[k].id = j
    BY <1>2, Zenon DEF Buffered
  <2>2. <<"channel", k>> \in InChannel(j)
    BY <2>1, Zenon DEF InChannel
  <2>. QED  BY <2>2, Zenon DEF PlacesOf
<1>3. CASE Held(j)
  <2>1. <<"dispatcher">> \in AtDispatcher(j)
    BY <1>3, Zenon DEF Held, AtDispatcher
  <2>. QED  BY <2>1, Zenon DEF PlacesOf
<1>4. ASSUME NEW w \in Workers, WorksOn(w, j) PROVE PlacesOf(j) # {}
  <2>1. <<"worker", w>> \in AtWorker(j)
    BY <1>4, Zenon DEF AtWorker
  <2>. QED  BY <2>1, Zenon DEF PlacesOf
<1>5. ASSUME NEW tag, NEW t, t \in [Copy -> Nat], Waits(j, t) PROVE \E x : x \in Sleeping(tag, j, t)
  <2>1. PICK c \in Copy : c.id = j /\ t[c] > 0
    BY <1>5, Zenon DEF Waits
  <2>2. c.retry \in 0..MaxRetries /\ c = [id |-> j, retry |-> c.retry] /\ t[c] \in Nat
    BY <1>5, <2>1, Zenon DEF Copy
  <2>3. 1 \in 1..t[[id |-> j, retry |-> c.retry]]
    BY <2>1, <2>2
  <2>4. <<tag, c.retry, 1>> \in Sleeping(tag, j, t)
    BY <2>2, <2>3 DEF Sleeping
  <2>. QED  BY <2>4, Zenon
<1>6. CASE Waits(j, timer)
  <2>1. PICK x : x \in Sleeping("timer", j, timer)
    BY <1>0, <1>5, <1>6
  <2>. QED  BY <2>1, Zenon DEF PlacesOf
<1>7. CASE Waits(j, repush)
  <2>1. PICK x : x \in Sleeping("repush", j, repush)
    BY <1>0, <1>5, <1>7
  <2>. QED  BY <2>1, Zenon DEF PlacesOf
<1>. QED  BY <1>1, <1>2, <1>3, <1>4, <1>6, <1>7 DEF Present

\* Who is present, and has at most one copy, has one.
LEMMA PlaceIsOne == TypeInv /\ Budget /\ PlaceInv => OnePlace
<1>. SUFFICES ASSUME TypeInv, Budget, PlaceInv, Undisturbed, NEW j \in accepted PROVE Copies(j) = 1
  BY Zenon DEF OnePlace
<1>0. j \in Jobs /\ faults = 0
  BY Zenon DEF TypeInv, TypeOK, StoresTypeOK, Undisturbed
<1>1. j \in doneKey \/ PlacesOf(j) # {}
  BY <1>0, PresentPlace, Zenon DEF PlaceInv, PresentInv
<1>2. IsFiniteSet(PlacesOf(j)) /\ Cardinality(PlacesOf(j)) <= Load("copies", j)
  BY <1>0, PlacesBound, Zenon
<1>3. Cardinality(PlacesOf(j)) \in Nat /\ (PlacesOf(j) # {} => Cardinality(PlacesOf(j)) > 0)
  <2>1. Cardinality(PlacesOf(j)) \in Nat /\ (Cardinality(PlacesOf(j)) = 0 <=> PlacesOf(j) = {})
    BY <1>2, FS_CardinalityType, FS_EmptySet, Zenon
  <2>. QED  BY <2>1
<1>4. Load("copies", j) \in Nat /\ Load("copies", j) + Spent("copies", j) <= 1
  BY <1>0, LoadOfOne, Zenon DEF Modes
<1>5. Spent("copies", j) = IF j \in doneKey THEN 1 ELSE 0
  BY Zenon DEF Spent
<1>6. Copies(j) = Cardinality(PlacesOf(j)) + Spent("copies", j)
  BY <1>5, Zenon DEF Copies
<1>. QED  BY <1>1, <1>2, <1>3, <1>4, <1>5, <1>6

\* As long as nothing fails and nobody cancels or kills the pool, an accepted
\* job has exactly one copy, until and instead of which it has its marker: no
\* hand-over from list to dispatcher, channel, worker and retry goroutine
\* loses or doubles it.  (A retry delay that ends before the deferred unlock
\* does lose one: run pool_retry_race.)
THEOREM OnePlaceHolds ==
  ASSUME "shortBackoff" \notin Env
  PROVE  Spec => []OnePlace
BY PlaceIsOne, PlaceInvariant, PTL
=============================================================================
