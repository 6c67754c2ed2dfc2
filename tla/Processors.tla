----------------------------- MODULE Processors -----------------------------
(***************************************************************************)
(* The four processors (internal/worker/ *_processor.go) with the check of *)
(* the payload at ingress (handlers.validatePayload): what a job leaves in *)
(* the tables, the cache and the mail provider when calls fail half way    *)
(* and the pool runs Process again.                                        *)
(*                                                                         *)
(* The pool is reduced to when it runs a copy of a job and what it does    *)
(* with the result of Process; that one worker at a time runs a job is     *)
(* shown in WorkerPool.  A call that reports an error may have taken       *)
(* effect: its reply was lost, or it was in flight when Shutdown cancelled *)
(* the context.  A push whose reply was lost is made again, which leaves   *)
(* two copies of the job, each with a run to come.                         *)
(***************************************************************************)
EXTENDS Stores

CONSTANTS
  Subjects,   \* QR codes and gateway order ids
  SubjectOf,  \* the code or the order each job is about
  NoEvent,    \* the QR codes that are sent without an event_id
  PayloadsOf, \* the bodies that may come with each job in this instance
  NoStatus,   \* no payment row
  MaxShutdowns, \* bound: shutdowns of the worker in one behaviour
  MaxRequests \* bound: requests in one behaviour

\* What the checks can tell about a body: whether it is JSON, whether one of
\* the required text fields is empty, and what payment_status or channel holds.
Payload == [json : BOOLEAN, missing : BOOLEAN, enum : {"empty", "unknown", "valid"}]

NoBody == [json |-> FALSE, missing |-> TRUE, enum |-> "empty"]

ASSUME ProcessorsAssumption ==
  /\ SubjectOf \in [Jobs -> Subjects]
  /\ NoEvent \subseteq Subjects
  /\ PayloadsOf \in [Jobs -> SUBSET Payload]
  /\ NoStatus \notin Jobs
  /\ MaxShutdowns \in Nat /\ MaxRequests \in Nat

VARIABLES
  payload,     \* the body of each job
  ppc,         \* where the run of each job is
  copies,      \* the retry counts of each job's copies on its list, oldest first
  cur,         \* the retry count of the copy whose run is in progress
  live,        \* the context of the pool is not cancelled
  shutdowns,   \* history: how often it was cancelled
  seenKey,     \* the codes whose qr:seen:<event>:<code> key exists
  scans,       \* qr_scan_events rows of each code
  windowScans, \* history: those of them made since the code's key last expired
  attendance,  \* the attendance counter
  payments,    \* the payment_events row of each order: the job that wrote it
  regs,        \* registrations rows of each job
  welcomes,    \* welcome notifications enqueued for each job
  sent,        \* messages the provider delivered for each job
  notes        \* notification_events rows with status SENT of each job

effectVars == <<seenKey, scans, windowScans, attendance, payments, regs, welcomes, sent, notes>>
lifeVars == <<live, shutdowns>>
procVars == <<storeVars, payload, ppc, copies, cur, lifeVars, effectVars>>

\* "idle": no run of the job is in progress.
ProcessPC == {"new", "rejected", "idle", "dedup", "store", "incr", "upsert", "create", "welcome",
              "send", "recordSent", "recordFailed", "audit", "nil", "retryable", "nonRetryable",
              "mark", "push", "pushAgain"}

ProcTypeOK ==
  /\ StoresTypeOK
  /\ payload \in [Jobs -> Payload]
  /\ ppc \in [Jobs -> ProcessPC]
  /\ copies \in [Jobs -> Seq(0..MaxRetries)] /\ cur \in [Jobs -> 0..MaxRetries]
  /\ live \in BOOLEAN /\ shutdowns \in 0..MaxShutdowns
  /\ seenKey \subseteq Subjects
  /\ scans \in [Subjects -> Nat] /\ windowScans \in [Subjects -> Nat]
  /\ attendance \in Nat
  /\ payments \in [Subjects -> Jobs \cup {NoStatus}]
  /\ regs \in [Jobs -> Nat] /\ welcomes \in [Jobs -> Nat]
  /\ sent \in [Jobs -> Nat] /\ notes \in [Jobs -> Nat]

ProcInit ==
  /\ StoresInit("absent")
  /\ payload = [j \in Jobs |-> NoBody]
  /\ ppc = [j \in Jobs |-> "new"]
  /\ copies = [j \in Jobs |-> <<>>] /\ cur = [j \in Jobs |-> 0]
  /\ live = TRUE /\ shutdowns = 0
  /\ seenKey = {}
  /\ scans = [s \in Subjects |-> 0] /\ windowScans = [s \in Subjects |-> 0]
  /\ attendance = 0
  /\ payments = [s \in Subjects |-> NoStatus]
  /\ regs = [j \in Jobs |-> 0] /\ welcomes = [j \in Jobs |-> 0]
  /\ sent = [j \in Jobs |-> 0] /\ notes = [j \in Jobs |-> 0]

otherStores == <<queue, deadLetter, attempts, lockKey, accepted>>

-----------------------------------------------------------------------------
(***************************************************************************)
(* The two checks of a payload.                                            *)
(***************************************************************************)

\* Mutant: the channel is only checked for being there.
validatePayloadAnyChannel(t, p) ==
  /\ p.json
  /\ ~p.missing
  /\ t \in {"PAYMENT_WEBHOOK", "NOTIFICATION"} => p.enum # "empty"

\* validatePayload, before the job is enqueued.
validatePayload(t, p) ==
  /\ p.json
  /\ ~p.missing
  /\ t = "PAYMENT_WEBHOOK" => p.enum # "empty"
  /\ t = "NOTIFICATION" => p.enum = "valid"

\* The checks at the top of each Process; a failure is ErrNonRetryable.
Processable(t, p) ==
  /\ p.json
  /\ ~p.missing
  /\ t \in {"PAYMENT_WEBHOOK", "NOTIFICATION"} => p.enum = "valid"

\* The handler checks the body that came with the request and hands it to
\* Enqueue.
Accept(j, body) ==
  /\ ppc[j] = "new"
  /\ Cardinality({i \in Jobs : ppc[i] # "new"}) < MaxRequests
  /\ \/ /\ validatePayload(TypeOf[j], body)
        /\ Create(j) /\ ppc' = [ppc EXCEPT ![j] = "idle"]
        /\ payload' = [payload EXCEPT ![j] = body]
        /\ copies' = [copies EXCEPT ![j] = <<NewJob(j).retry>>]
     \/ /\ ~validatePayload(TypeOf[j], body)
        /\ UNCHANGED <<row, payload, copies>> /\ ppc' = [ppc EXCEPT ![j] = "rejected"]
  /\ UNCHANGED <<otherStores, doneKey, faults, cur, lifeVars, effectVars>>

-----------------------------------------------------------------------------
(***************************************************************************)
(* What the pool does with a copy before Process.                          *)
(***************************************************************************)
FirstStep(t) ==
  CASE t = "QR_SCAN" -> "dedup" [] t = "PAYMENT_WEBHOOK" -> "upsert"
    [] t = "REGISTRATION" -> "create" [] t = "NOTIFICATION" -> "send"

\* A worker takes the lock and runs the copy.  The marker job:done:<id> does
\* not forbid it: the worker may have read the marker before the run of
\* another copy set it, and take the lock after that run has let go of it.
Begin(j) ==
  /\ live /\ ppc[j] = "idle" /\ copies[j] # <<>>
  /\ copies' = [copies EXCEPT ![j] = Tail(@)]
  /\ cur' = [cur EXCEPT ![j] = Head(copies[j])]
  /\ ppc' = [ppc EXCEPT ![j] = IF Processable(TypeOf[j], payload[j]) THEN FirstStep(TypeOf[j]) ELSE "nonRetryable"]
  /\ UNCHANGED <<storeVars, payload, lifeVars, effectVars>>

\* A copy is dropped without a run: the marker is set, another worker holds
\* the lock, or the lock cannot be had.
Skip(j) ==
  /\ copies[j] # <<>>
  /\ copies' = [copies EXCEPT ![j] = Tail(@)]
  /\ \/ j \in doneKey /\ UNCHANGED faults
     \/ ppc[j] \notin {"idle", "push", "pushAgain"} /\ UNCHANGED faults
     \/ Call("redis", live, FALSE)
  /\ UNCHANGED <<otherStores, row, doneKey, payload, ppc, cur, lifeVars, effectVars>>

-----------------------------------------------------------------------------
(***************************************************************************)
(* Process.                                                                *)
(***************************************************************************)
Bump(f, x) == [f EXCEPT ![x] = @ + 1]

\* A call of job j to a store at label from: on success go on, on an error go
\* to onError; the effect of a call that reports an error may be there or not.
Try(j, store, from, onSuccess, onError, Effect, NoEffect) ==
  /\ ppc[j] = from
  /\ \E ok \in BOOLEAN :
       /\ Call(store, live, ok)
       /\ ppc' = [ppc EXCEPT ![j] = IF ok THEN onSuccess ELSE onError]
       /\ Effect \/ (~ok /\ NoEffect)
  /\ UNCHANGED <<otherStores, row, doneKey, payload, copies, cur, lifeVars>>

\* Mutant: the result of SetNX is ignored.
QRDedupAnyway(j) ==
  /\ Try(j, "redis", "dedup", "store", "retryable",
         seenKey' = seenKey \cup {SubjectOf[j]}, UNCHANGED seenKey)
  /\ UNCHANGED <<scans, windowScans, attendance, payments, regs, welcomes, sent, notes>>

\* Mutant: a duplicate scan is not stored but counted.
QRDedupCounts(j) ==
  /\ LET s == SubjectOf[j]
     IN  Try(j, "redis", "dedup", IF s \in seenKey THEN "incr" ELSE "store", "retryable",
             seenKey' = seenKey \cup {s}, UNCHANGED seenKey)
  /\ UNCHANGED <<scans, windowScans, attendance, payments, regs, welcomes, sent, notes>>

\* QRScanProcessor: SetNX; a code seen before ends the run successfully.
QRDedup(j) ==
  /\ LET s == SubjectOf[j]
     IN  Try(j, "redis", "dedup", IF s \in seenKey THEN "nil" ELSE "store", "retryable",
             seenKey' = seenKey \cup {s}, UNCHANGED seenKey)
  /\ UNCHANGED <<scans, windowScans, attendance, payments, regs, welcomes, sent, notes>>

QRStore(j) ==
  /\ LET s == SubjectOf[j]
     IN  Try(j, "db", "store", IF s \in NoEvent THEN "audit" ELSE "incr", "retryable",
             scans' = Bump(scans, s) /\ windowScans' = Bump(windowScans, s),
             UNCHANGED <<scans, windowScans>>)
  /\ UNCHANGED <<seenKey, attendance, payments, regs, welcomes, sent, notes>>

\* Incr, whose error is only logged.
QRIncr(j) ==
  /\ Try(j, "redis", "incr", "audit", "audit", attendance' = attendance + 1, UNCHANGED attendance)
  /\ UNCHANGED <<seenKey, scans, windowScans, payments, regs, welcomes, sent, notes>>

\* PaymentProcessor: the row of the order is written or overwritten.
PaymentUpsert(j) ==
  /\ Try(j, "db", "upsert", "audit", "retryable",
         payments' = [payments EXCEPT ![SubjectOf[j]] = j], UNCHANGED payments)
  /\ UNCHANGED <<seenKey, scans, windowScans, attendance, regs, welcomes, sent, notes>>

\* RegistrationProcessor: a row with a fresh id per run, then the welcome,
\* whose key is that id, so Enqueue never takes it for a duplicate.
RegistrationCreate(j) ==
  /\ Try(j, "db", "create", "welcome", "retryable", regs' = Bump(regs, j), UNCHANGED regs)
  /\ UNCHANGED <<seenKey, scans, windowScans, attendance, payments, welcomes, sent, notes>>

\* Mutant: a welcome that cannot be enqueued fails the registration.
RegistrationWelcomeFails(j) ==
  /\ \E store \in {"redis", "db"} :
       Try(j, store, "welcome", "audit", "retryable", welcomes' = Bump(welcomes, j), UNCHANGED welcomes)
  /\ UNCHANGED <<seenKey, scans, windowScans, attendance, payments, regs, sent, notes>>

RegistrationWelcome(j) ==
  /\ \E store \in {"redis", "db"} :
       Try(j, store, "welcome", "audit", "audit", welcomes' = Bump(welcomes, j), UNCHANGED welcomes)
  /\ UNCHANGED <<seenKey, scans, windowScans, attendance, payments, regs, sent, notes>>

\* NotificationProcessor: send, then record the result either way.
NotificationSend(j) ==
  /\ Try(j, "provider", "send", "recordSent", "recordFailed", sent' = Bump(sent, j), UNCHANGED sent)
  /\ UNCHANGED <<seenKey, scans, windowScans, attendance, payments, regs, welcomes, notes>>

\* Mutant: the error of Send is forgotten once it is recorded.
NotificationRecordOnly(j) ==
  /\ \/ Try(j, "db", "recordSent", "audit", "retryable", notes' = Bump(notes, j), UNCHANGED notes)
     \/ Try(j, "db", "recordFailed", "audit", "retryable", UNCHANGED notes, UNCHANGED notes)
  /\ UNCHANGED <<seenKey, scans, windowScans, attendance, payments, regs, welcomes, sent>>

NotificationRecord(j) ==
  /\ \/ Try(j, "db", "recordSent", "audit", "retryable", notes' = Bump(notes, j), UNCHANGED notes)
     \/ Try(j, "db", "recordFailed", "retryable", "retryable", UNCHANGED notes, UNCHANGED notes)
  /\ UNCHANGED <<seenKey, scans, windowScans, attendance, payments, regs, welcomes, sent>>

\* CreateAuditLog, whose error is only logged.
Audit(j) ==
  /\ Try(j, "db", "audit", "nil", "nil", TRUE, TRUE)
  /\ UNCHANGED effectVars

-----------------------------------------------------------------------------
(***************************************************************************)
(* What the pool does with the result.                                     *)
(***************************************************************************)

\* The row, then the marker job:done:<id> or the next try.  The errors of
\* both calls are ignored.
Record(j, retry, status, next) ==
  /\ \E ok \in BOOLEAN :
       /\ Call("db", live, ok)
       /\ Update([id |-> j, retry |-> retry], status) \/ (~ok /\ UNCHANGED row)
  /\ cur' = [cur EXCEPT ![j] = retry]
  /\ ppc' = [ppc EXCEPT ![j] = next]
  /\ UNCHANGED <<otherStores, doneKey, payload, copies, lifeVars, effectVars>>

\* Mutant: every failure is retried, of whatever kind and however often.
FinishAlwaysRetries(j) ==
  /\ ppc[j] \in {"nil", "retryable", "nonRetryable"}
  /\ IF ppc[j] # "nil" THEN Record(j, cur[j] + 1, "QUEUED", "push") ELSE Record(j, cur[j], "SUCCESS", "mark")

Finish(j) ==
  LET again == ppc[j] = "retryable" /\ CanRetry([id |-> j, retry |-> cur[j]])
  IN  /\ ppc[j] \in {"nil", "retryable", "nonRetryable"}
      /\ IF again THEN Record(j, cur[j] + 1, "QUEUED", "push")
         ELSE Record(j, cur[j], IF ppc[j] = "nil" THEN "SUCCESS" ELSE "DEAD_LETTER", "mark")

Mark(j) ==
  /\ ppc[j] = "mark" /\ ppc' = [ppc EXCEPT ![j] = "idle"]
  /\ \E ok \in BOOLEAN :
       /\ Call("redis", live, ok)
       /\ doneKey' = doneKey \cup {j} \/ (~ok /\ UNCHANGED doneKey)
  /\ UNCHANGED <<otherStores, row, payload, copies, cur, lifeVars, effectVars>>

Pushed(j) == copies' = [copies EXCEPT ![j] = Append(@, cur[j])]

\* requeueAfter: a push with the pool's context; after an error, and when the
\* context is cancelled, one with a context of its own.
Requeue(j) ==
  /\ ppc[j] = "push"
  /\ \E ok \in BOOLEAN :
       /\ Call("redis", live, ok)
       /\ ppc' = [ppc EXCEPT ![j] = IF ok THEN "idle" ELSE "pushAgain"]
       /\ (live /\ Pushed(j)) \/ (~ok /\ UNCHANGED copies)
  /\ UNCHANGED <<otherStores, row, doneKey, payload, cur, lifeVars, effectVars>>

RequeueAgain(j) ==
  /\ ppc[j] = "pushAgain" /\ ppc' = [ppc EXCEPT ![j] = "idle"]
  /\ \E ok \in BOOLEAN :
       /\ Call("redis", TRUE, ok)
       /\ Pushed(j) \/ (~ok /\ UNCHANGED copies)
  /\ UNCHANGED <<otherStores, row, doneKey, payload, cur, lifeVars, effectVars>>

\* Shutdown cancels the context under the runs in progress; the next process
\* starts when they and their requeues have ended.
Cancel ==
  /\ live /\ shutdowns < MaxShutdowns
  /\ live' = FALSE /\ shutdowns' = shutdowns + 1
  /\ UNCHANGED <<storeVars, payload, ppc, copies, cur, effectVars>>

Restart ==
  /\ ~live /\ \A j \in Jobs : ppc[j] \in {"new", "rejected", "idle"}
  /\ live' = TRUE
  /\ UNCHANGED <<storeVars, payload, ppc, copies, cur, shutdowns, effectVars>>

\* dedupTTL runs out.  It is longer than the time from SetNX to the insert.
DedupExpire(s) ==
  /\ s \in seenKey
  /\ \A j \in Jobs : SubjectOf[j] = s => ppc[j] \notin {"store", "incr"}
  /\ seenKey' = seenKey \ {s}
  /\ windowScans' = [windowScans EXCEPT ![s] = 0]
  /\ UNCHANGED <<storeVars, payload, ppc, copies, cur, lifeVars, scans, attendance, payments, regs, welcomes, sent, notes>>

Process(j) ==
  \/ QRDedup(j) \/ QRStore(j) \/ QRIncr(j) \/ PaymentUpsert(j)
  \/ RegistrationCreate(j) \/ RegistrationWelcome(j)
  \/ NotificationSend(j) \/ NotificationRecord(j) \/ Audit(j)

RunCopy(j) == Begin(j) \/ Skip(j) \/ Process(j) \/ Finish(j) \/ Mark(j) \/ Requeue(j) \/ RequeueAgain(j)

ProcNext ==
  \/ \E j \in Jobs : (\E body \in PayloadsOf[j] : Accept(j, body)) \/ RunCopy(j)
  \/ \E s \in Subjects : DedupExpire(s)
  \/ Cancel \/ Restart

ProcSpec == ProcInit /\ [][ProcNext]_procVars

-----------------------------------------------------------------------------
(***************************************************************************)
(* Properties.                                                             *)
(***************************************************************************)

\* Within one dedup window a code is stored at most once, however many jobs
\* carry it and however often their runs fail and are repeated.
OneScanPerWindow == \A s \in Subjects : windowScans[s] <= 1

\* "or double counting": the attendance counter never exceeds the
\* rows stored.
NoDoubleCount == attendance <= Cardinality(UNION {{s} \X (1..scans[s]) : s \in Subjects})

\* Each row of a registration and each message of a notification beyond the
\* first is paid for by a failed call or a shutdown, and each welcome beyond
\* the first by a failed call: a second run of a registration draws a new id,
\* so its welcome is not the duplicate that enqueueWelcome's "deterministic ->
\* no dup" makes it, but only a push whose reply was lost brings that run.
EffectsPerFault ==
  \A j \in Jobs : /\ regs[j] <= 1 + faults + shutdowns /\ sent[j] <= 1 + faults + shutdowns
                  /\ welcomes[j] <= 1 + faults

\* A payment, registration or notification that ends as SUCCESS has left its
\* effect: the row, or a message that was sent and recorded.
SuccessHasEffect ==
  \A j \in Jobs : row[j].status = "SUCCESS" =>
    /\ TypeOf[j] = "PAYMENT_WEBHOOK" => payments[SubjectOf[j]] # NoStatus
    /\ TypeOf[j] = "REGISTRATION" => regs[j] >= 1
    /\ TypeOf[j] = "NOTIFICATION" => sent[j] >= 1 /\ notes[j] >= 1

\* "marked SUCCESS without writing a second row": a QR scan ends as SUCCESS
\* only when there is a first row of its code.
ScanRecorded ==
  \A j \in Jobs : TypeOf[j] = "QR_SCAN" /\ row[j].status = "SUCCESS" => scans[SubjectOf[j]] >= 1

\* "so clients get a clear 400 instead of a silently dead-lettered job": of
\* the jobs that validatePayload lets in, Process refuses no other than a
\* payment whose status it does not know, which the handler does not check.
PoisonOnlyPayment ==
  \A j \in Jobs : ppc[j] = "nonRetryable" => TypeOf[j] = "PAYMENT_WEBHOOK" /\ payload[j].enum = "unknown"
=============================================================================
