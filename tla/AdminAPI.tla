------------------------------- MODULE AdminAPI -------------------------------
(***************************************************************************)
(* The reads of the admin API (admin_handler.go, admin_service.go) and the *)
(* queries behind them (job_repository.go), while rows are inserted, the   *)
(* pool changes their status and admins retry jobs.  A client that wants   *)
(* the whole of a list asks for it page by page; each page is a query of   *)
(* its own over what the table holds by then.                              *)
(***************************************************************************)
EXTENDS AdminService

CONSTANTS
  Lists,        \* what may be asked for: dead-letter-jobs, or jobs with a filter
  Limits,       \* values of the limit parameter: <<>> is none, or no number
  MaxPage,      \* 500
  DefaultPage,  \* 50
  Written,      \* bound: the statuses the pool writes
  MaxLeft       \* bound: how many rows leave their place in a list while it is read

ASSUME AdminAssumption ==
  /\ MaxPage \in Nat /\ DefaultPage \in 1..MaxPage /\ MaxLeft \in Nat
  /\ Written \subseteq {"PROCESSING", "SUCCESS", "QUEUED", "DEAD_LETTER"}
  /\ Limits # {} /\ Limits \subseteq Seq(Int) /\ \A l \in Limits : Len(l) <= 1
  /\ Lists # {} /\ Lists \subseteq [dead : BOOLEAN, status : JobStatus \cup {""}, jobType : JobTypes \cup {""}]

VARIABLES
  created,   \* the rank of each row's created_at, 1 is the oldest; 0: no row.
             \* Rows may have the same rank: the column has no UNIQUE
  updated,   \* the same for the updated_at of the DEAD_LETTER rows
  walk,      \* the client that reads a list to its end, and the history of it
  stats      \* the call of Stats

apiVars == <<storeVars, adminVars, created, updated, walk, stats>>

\* limit, offset: the parameters; seen: the ids it got; stay: those that were
\* in the list all the time, with the same time and alone with it; left: how
\* many have dropped out of the list or have changed their place in it.
Walk == [pc : {"idle", "reading", "done"}, list : Lists, limit : Limits, offset : Nat,
         seen : SUBSET Jobs, stay : SUBSET Jobs, left : Nat]

Stats == [pc : {"idle", "status", "type", "depths", "done", "error"}, byStatus : [JobStatus -> Nat],
          byType : [JobTypes -> Nat], depths : SUBSET (Priorities \X Nat), deadLetter : Nat]

Rows == {j \in Jobs : row[j].status # "absent"}
DeadRows == {j \in Jobs : row[j].status = "DEAD_LETTER"}

\* The rows of S, and no others, have a rank.
Ranks(at, S) == at \in [Jobs -> Nat] /\ \A j \in Jobs : at[j] > 0 <=> j \in S

\* Every variable has its type, and the rows a list is sorted from have times.
APITypeOK ==
  /\ StoresTypeOK /\ AdminTypeOK
  /\ Ranks(created, Rows)
  /\ Ranks(updated, DeadRows)
  /\ walk \in Walk
  /\ stats \in Stats

APIInit ==
  /\ StoresInit("absent") /\ AdminInit
  /\ created = [j \in Jobs |-> 0] /\ updated = [j \in Jobs |-> 0]
  /\ walk = [pc |-> "idle", list |-> CHOOSE l \in Lists : TRUE, limit |-> CHOOSE n \in Limits : TRUE,
             offset |-> 0, seen |-> {}, stay |-> {}, left |-> 0]
  /\ stats = [pc |-> "idle", byStatus |-> [s \in JobStatus |-> 0], byType |-> [t \in JobTypes |-> 0],
              depths |-> {}, deadLetter |-> 0]

-----------------------------------------------------------------------------
(***************************************************************************)
(* The queries.                                                            *)
(***************************************************************************)
atoiDefault(s, def) == IF s = <<>> THEN def ELSE s[1]

\* ORDER BY at DESC, which leaves open how rows of the same time are sorted:
\* the first n rows of S are any n of which none is older than the others.
InOrder(A, B, at) == \A i \in A, j \in B : at[i] >= at[j]
First(S, at, n) == {A \in SUBSET S : Cardinality(A) = n /\ InOrder(A, S \ A, at)}

\* A limit out of its range is the default.
PageSize(limit) == IF limit <= 0 \/ limit > MaxPage THEN DefaultPage ELSE limit

Lesser(m, n) == IF m <= n THEN m ELSE n

\* LIMIT and OFFSET: the pages that may come back.
Pages(S, at, limit, offset) ==
  UNION {First(S \ A, at, Lesser(PageSize(limit), Cardinality(S \ A))) :
         A \in First(S, at, Lesser(offset, Cardinality(S)))}

Matches(j, f) ==
  /\ f.status = "" \/ row[j].status = f.status
  /\ f.jobType = "" \/ TypeOf[j] = f.jobType

\* The rows of a list, and what it is sorted by.
Listing(l) == IF l.dead THEN DeadRows ELSE {j \in Rows : Matches(j, l)}
SortKey(l) == IF l.dead THEN updated ELSE created

\* Mutant: the offset counts pages of the size asked for.
ListJobsByNumber(l, limit, offset) ==
  LET n == atoiDefault(limit, DefaultPage)
  IN  Pages(Listing(l), SortKey(l), n, offset * n)

\* ListJobs, DeadLetterJobs, List and ListDeadLetter.
ListJobs(l, limit, offset) == Pages(Listing(l), SortKey(l), atoiDefault(limit, DefaultPage), offset)

\* out[n:] of sorted rows; rows of the same time are sorted in any order.
Behind(S, at, n) == {S \ A : A \in First(S, at, n)}

\* What the offset leaves.
FakeRest(S, at, offset) ==
  CASE offset > 0 /\ offset < Cardinality(S) -> Behind(S, at, offset)
    [] offset >= Cardinality(S) -> {{}}
    [] OTHER -> {S}

\* Mutant: the bound of the slice is one too low.
FakeListShort(S, at, limit, offset) ==
  UNION {IF limit > 0 /\ limit < Cardinality(T) THEN First(T, at, limit - 1) ELSE {T} :
         T \in FakeRest(S, at, offset)}

\* testutil.InMemoryStore.List, on the rows that match.
FakeList(S, at, limit, offset) ==
  UNION {IF limit > 0 /\ limit < Cardinality(T) THEN First(T, at, limit) ELSE {T} :
         T \in FakeRest(S, at, offset)}

-----------------------------------------------------------------------------
(***************************************************************************)
(* The table changes.  created_at and updated_at are read from the clock   *)
(* before the statement runs, and kept to the microsecond: a row may sort  *)
(* below one written earlier, or have the time of another.  Only the order *)
(* of the times matters, so a time is a rank.                              *)
(***************************************************************************)
Unranked(at, j) ==
  LET alone == at[j] > 0 /\ \A i \in Jobs \ {j} : at[i] # at[j]
  IN  [i \in Jobs |-> CASE i = j -> 0 [] i # j /\ alone /\ at[i] > at[j] -> at[i] - 1 [] OTHER -> at[i]]

\* Row j gets a time between those of the others, or one of theirs.
Between(at, j, k) ==
  [i \in Jobs |-> CASE i = j -> k [] i # j /\ at[i] >= k -> at[i] + 1 [] OTHER -> at[i]]

Timed(at, j) ==
  LET others == {i \in Jobs \ {j} : at[i] > 0}
  IN  {Between(at, j, k) : k \in {1} \cup {at[i] + 1 : i \in others}}
        \cup {[at EXCEPT ![j] = at[i]] : i \in others}

\* updated_at after row has changed for j.
Touched(j) ==
  \/ row'[j].status # "DEAD_LETTER" /\ updated' = Unranked(updated, j)
  \/ row'[j].status = "DEAD_LETTER" /\ updated' \in Timed(Unranked(updated, j), j)

\* No other row of S has the time of j.
Alone(S, at, j) == \A i \in S \ {j} : at[i] # at[j]

\* What a change means for the client that is reading l.  A row that has moved
\* in the list is gone from its place.
ObservedIn(l, moved) ==
  LET gone == (Listing(l) \ Listing(l)') \cup (IF l.dead THEN moved \cap Listing(l) ELSE {})
  IN  \/ walk.pc # "reading" /\ UNCHANGED walk
      \/ /\ walk.pc = "reading" /\ walk.left + Cardinality(gone) <= MaxLeft
         /\ walk' = [walk EXCEPT !.stay = {j \in @ \ gone : Alone(Listing(l)', SortKey(l)', j)},
                                 !.left = @ + Cardinality(gone)]

Observed(moved) == \E l \in {walk.list} : ObservedIn(l, moved)

\* Bound: a behaviour ends with its reader.
Going == walk.pc # "done" /\ stats.pc \notin {"done", "error"}

\* Mutant: created_at is not set.
InsertUntimed(j) ==
  /\ Going
  /\ row[j].status = "absent" /\ Create(j)
  /\ UNCHANGED created
  /\ UNCHANGED <<queue, deadLetter, attempts, doneKey, lockKey, accepted, faults, adminVars, updated, stats>>
  /\ Observed({})

\* Create, called by Enqueue.
Insert(j) ==
  /\ Going
  /\ row[j].status = "absent" /\ Create(j)
  /\ created' \in Timed(created, j)
  /\ UNCHANGED <<queue, deadLetter, attempts, doneKey, lockKey, accepted, faults, adminVars, updated, stats>>
  /\ Observed({})

\* The status changes of the pool.  A job that is run again, after an update
\* that was lost or from a second copy, goes from any status to any other; a
\* DEAD_LETTER row may be written again as it is, with a new updated_at.
Work(j) ==
  /\ Going
  /\ row[j].status # "absent"
  /\ \E s \in Written : Update(NewJob(j), s)
  /\ Touched(j)
  /\ UNCHANGED <<queue, deadLetter, attempts, doneKey, lockKey, accepted, faults, adminVars, created, stats>>
  /\ Observed({j})

\* RetryJob.
Retry(a) ==
  /\ Going
  /\ RetryJob(a)
  /\ UNCHANGED <<created, stats>>
  /\ IF row' = row THEN UNCHANGED <<updated, walk>> ELSE Touched(ajob[a].id) /\ Observed({ajob[a].id})

-----------------------------------------------------------------------------
(***************************************************************************)
(* The reads.  They change nothing another reader could see, so a          *)
(* behaviour has one reader: a client that walks a list, or one that calls *)
(* Stats.  For the same reason a query that fails is not counted as a      *)
(* fault.                                                                  *)
(***************************************************************************)
Query(store, ok) == (ok \/ store \in Env) /\ UNCHANGED faults

StartWalk ==
  /\ walk.pc = "idle" /\ stats.pc = "idle"
  /\ \E l \in Lists, n \in Limits :
       walk' = [walk EXCEPT !.pc = "reading", !.list = l, !.limit = n,
                            !.stay = {j \in Listing(l) : Alone(Listing(l), SortKey(l), j)}]
  /\ UNCHANGED <<storeVars, adminVars, created, updated, stats>>

\* The client asks for the page behind what it got, until one is empty; it
\* repeats a request answered 500.
NextPage ==
  /\ walk.pc = "reading"
  /\ \E ok \in BOOLEAN, page \in ListJobs(walk.list, walk.limit, walk.offset) :
       /\ Query("db", ok)
       /\ walk' = CASE ~ok -> walk
                    [] ok /\ page = {} -> [walk EXCEPT !.pc = "done"]
                    [] OTHER -> [walk EXCEPT !.offset = @ + Cardinality(page), !.seen = @ \cup page]
  /\ UNCHANGED <<queue, deadLetter, row, attempts, doneKey, lockKey, accepted, adminVars, created, updated, stats>>

\* The total of Stats, and what the counts by type add up to.
Total(n) == n["QUEUED"] + n["PROCESSING"] + n["SUCCESS"] + n["FAILED"] + n["DEAD_LETTER"]
TypeTotal(n) == n["REGISTRATION"] + n["PAYMENT_WEBHOOK"] + n["QR_SCAN"] + n["NOTIFICATION"]

CountByStatus == [s \in JobStatus |-> Cardinality({j \in Jobs : row[j].status = s})]
CountByType == [t \in JobTypes |-> Cardinality({j \in Jobs : row[j].status # "absent" /\ TypeOf[j] = t})]

StatsMove(from, to, result) ==
  /\ stats.pc = from /\ walk.pc = "idle"
  /\ \E ok \in BOOLEAN :
       /\ Query("db", ok)
       /\ stats' = IF ok THEN [result EXCEPT !.pc = to] ELSE [stats EXCEPT !.pc = "error"]
  /\ UNCHANGED <<queue, deadLetter, row, attempts, doneKey, lockKey, accepted, adminVars, created, updated, walk>>

\* Mutant: the types are counted first.
StatsTypesFirst ==
  \/ StatsMove("idle", "type", [stats EXCEPT !.byType = CountByType])
  \/ StatsMove("type", "depths", [stats EXCEPT !.byStatus = CountByStatus])

\* Stats: two queries over a table that changes between them.
StatsCounts ==
  \/ StatsMove("idle", "type", [stats EXCEPT !.byStatus = CountByStatus])
  \/ StatsMove("type", "depths", [stats EXCEPT !.byType = CountByType])

\* The lengths of the lists; one that cannot be read is left out, and that of
\* the dead letters is 0 then.
StatsDepths ==
  /\ stats.pc = "depths"
  /\ \E P \in SUBSET Priorities, n \in {0, Len(deadLetter)} :
       /\ Query("redis", P = Priorities /\ n = Len(deadLetter))
       /\ stats' = [stats EXCEPT !.pc = "done", !.depths = {<<p, Len(queue[p])>> : p \in P},
                                 !.deadLetter = n]
  /\ UNCHANGED <<queue, deadLetter, row, attempts, doneKey, lockKey, accepted, adminVars, created, updated, walk>>

APINext ==
  \/ \E j \in Jobs : Insert(j) \/ Work(j)
  \/ \E a \in Admins : Retry(a)
  \/ StartWalk \/ NextPage \/ StatsCounts \/ StatsDepths

APISpec == APIInit /\ [][APINext]_apiVars

-----------------------------------------------------------------------------
(***************************************************************************)
(* Properties.                                                             *)
(***************************************************************************)

\* Reading a list page by page while it changes: a client that has reached
\* the end has got every row that was in the list all the while, except at
\* most one for each row that dropped out of the list or moved in it in the
\* meantime, and except rows that shared their time with another: ORDER BY
\* has no tie-breaker, so two of them may change places between two pages.
WalkComplete ==
  walk.pc = "done" => Cardinality(walk.stay \ walk.seen) <= walk.left

\* The counts of Stats come from two queries, yet they can be reconciled: the
\* total, which is added up from the first one, never exceeds what the second
\* one counts by type, since rows are inserted and never deleted.
StatsAddUp ==
  stats.pc \in {"depths", "done"} => Total(stats.byStatus) <= TypeTotal(stats.byType)

\* The pages the two stores may return for a limit and an offset: the same,
\* if the limit is in its range or a page of the default size holds the rest
\* of the list; for other limits the store of the tests has no default and
\* returns more rows than Postgres, never others.
SamePages(S, limit, offset) ==
  LET fake == FakeList(S, created, limit, offset)
      postgres == Pages(S, created, limit, offset)
  IN  /\ limit \in 1..MaxPage \/ Cardinality(S) <= offset + DefaultPage => fake = postgres
      /\ \A T \in postgres : \E U \in fake : T \subseteq U

\* The store the tests run on answers List as Postgres does, in every table a
\* read may find, for every filter and offset and, in the sense of SamePages,
\* for every limit: 0 stands for those below 1, MaxPage + 1 for those above
\* MaxPage.
FakeAgrees ==
  walk.pc = "idle" /\ stats.pc = "idle" =>
    \A l \in Lists : ~ l.dead =>
      \A limit \in 0..(MaxPage + 1), offset \in 0..Cardinality(Jobs) : SamePages(Listing(l), limit, offset)
=============================================================================
