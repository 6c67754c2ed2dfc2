--------------------------- MODULE GatewayService ---------------------------
(***************************************************************************)
(* internal/service/gateway_service.go: Enqueue, called by the HTTP        *)
(* handlers with the request's context.  A request claims its idempotency  *)
(* key, writes the job row and pushes the job; a request whose key is      *)
(* taken answers with the job that holds it.                               *)
(*                                                                         *)
(* A request is named by the job id it draws (uuid.NewString), so requests *)
(* and job ids are the same set; KeyOf tells which requests are duplicates. *)
(***************************************************************************)
EXTENDS Stores

CONSTANTS
  Keys,    \* idempotency keys idemp:<type>:<key>
  KeyOf,   \* the key of each request: the header, or the hash of type and body
  Valid,   \* the requests with a known job type and a JSON body
  NoJob    \* the empty string: no job id

ASSUME GatewayAssumption ==
  /\ KeyOf \in [Jobs -> Keys]
  /\ Valid \subseteq Jobs
  /\ NoJob \notin Jobs

VARIABLES
  idemKey,   \* the job id stored under each idempotency key, or NoJob
  rpc,       \* where each request is
  rlive,     \* the request's context is not cancelled
  answer     \* the job id a duplicate request will answer with

gatewayVars == <<idemKey, rpc, rlive, answer>>

\* "accepted", "duplicate", "invalid" and "error" are the outcomes: 202, 200,
\* 400 and 500.
Outcomes == {"accepted", "duplicate", "invalid", "error"}
RequestPC == {"new", "claim", "get", "getRow", "create", "push", "release"} \cup Outcomes

GatewayTypeOK ==
  /\ idemKey \in [Keys -> Jobs \cup {NoJob}]
  /\ rpc \in [Jobs -> RequestPC]
  /\ rlive \in [Jobs -> BOOLEAN]
  /\ answer \in [Jobs -> Jobs \cup {NoJob}]

GatewayInit ==
  /\ idemKey = [k \in Keys |-> NoJob]
  /\ rpc = [j \in Jobs |-> "new"]
  /\ rlive = [j \in Jobs |-> TRUE]
  /\ answer = [j \in Jobs |-> NoJob]

Step(j, from, to) == rpc[j] = from /\ rpc' = [rpc EXCEPT ![j] = to]

\* The checks at the top of Enqueue.
Validate(j) ==
  /\ Step(j, "new", IF j \in Valid THEN "claim" ELSE "invalid")
  /\ UNCHANGED <<storeVars, idemKey, rlive, answer>>

\* Mutant: Set in the place of SetNX, after a Get.
ClaimOverwrites(j) ==
  /\ Call("redis", rlive[j], TRUE)
  /\ Step(j, "claim", IF idemKey[KeyOf[j]] = NoJob THEN "create" ELSE "get")
  /\ idemKey' = [idemKey EXCEPT ![KeyOf[j]] = j]
  /\ UNCHANGED <<queue, deadLetter, row, attempts, doneKey, lockKey, accepted, rlive, answer>>

\* SetNX.  An error, even one whose effect took place, fails the request.
Claim(j) ==
  LET k == KeyOf[j]
      took == [idemKey EXCEPT ![k] = IF @ = NoJob THEN j ELSE @]
  IN  /\ \E ok \in BOOLEAN :
           /\ Call("redis", rlive[j], ok)
           /\ \/ ok /\ idemKey[k] = NoJob /\ idemKey' = took /\ Step(j, "claim", "create")
              \/ ok /\ idemKey[k] # NoJob /\ UNCHANGED idemKey /\ Step(j, "claim", "get")
              \/ /\ ~ok /\ Step(j, "claim", "error")
                 /\ UNCHANGED idemKey \/ (rlive[j] /\ idemKey' = took)
      /\ UNCHANGED <<queue, deadLetter, row, attempts, doneKey, lockKey, accepted, rlive, answer>>

\* Mutant: the duplicate answers with its own id.
GetExistingOwn(j) ==
  /\ Step(j, "get", "getRow")
  /\ \E ok \in BOOLEAN : Call("redis", rlive[j], ok)
  /\ answer' = [answer EXCEPT ![j] = j]
  /\ UNCHANGED <<queue, deadLetter, row, attempts, doneKey, lockKey, accepted, idemKey, rlive>>

\* Get: on an error, or when the key is gone by now, the request's own id.
GetExisting(j) ==
  /\ Step(j, "get", "getRow")
  /\ \E ok \in BOOLEAN :
       /\ Call("redis", rlive[j], ok)
       /\ answer' = [answer EXCEPT ![j] = IF ok /\ idemKey[KeyOf[j]] # NoJob
                                          THEN idemKey[KeyOf[j]] ELSE j]
  /\ UNCHANGED <<queue, deadLetter, row, attempts, doneKey, lockKey, accepted, idemKey, rlive>>

\* GetByID: the row, or a stub with the same id.
GetRow(j) ==
  /\ Step(j, "getRow", "duplicate")
  /\ \E ok \in BOOLEAN : Call("db", rlive[j], ok)
  /\ UNCHANGED <<queue, deadLetter, row, attempts, doneKey, lockKey, accepted, idemKey, rlive, answer>>

\* Mutant: the error of Create is only logged.
CreateRowUnchecked(j) ==
  /\ \E ok \in BOOLEAN :
       /\ Call("db", rlive[j], ok)
       /\ Create(j) \/ (~ok /\ UNCHANGED row)
  /\ Step(j, "create", "push")
  /\ UNCHANGED <<queue, deadLetter, attempts, doneKey, lockKey, accepted, idemKey, rlive, answer>>

\* Create.  An INSERT that reports an error may still have taken effect: its
\* reply was lost, or the context was cancelled while it was in flight.
CreateRow(j) ==
  /\ \E ok \in BOOLEAN :
       /\ Call("db", rlive[j], ok)
       /\ \/ ok /\ Create(j) /\ Step(j, "create", "push")
          \/ /\ ~ok /\ Step(j, "create", "release")
             /\ UNCHANGED row \/ Create(j)
  /\ UNCHANGED <<queue, deadLetter, attempts, doneKey, lockKey, accepted, idemKey, rlive, answer>>

\* Push.  The row stays when the push fails.
PushJob(j) ==
  /\ \E ok \in BOOLEAN :
       /\ Call("redis", rlive[j], ok)
       /\ LET pushed == Push(NewJob(j)) /\ accepted' = accepted \cup {j}
          IN  \/ ok /\ pushed /\ Step(j, "push", "accepted")
              \/ /\ ~ok /\ Step(j, "push", "release")
                 /\ UNCHANGED <<queue, accepted>> \/ (rlive[j] /\ pushed)
  /\ UNCHANGED <<deadLetter, row, attempts, doneKey, lockKey, idemKey, rlive, answer>>

\* Mutant: the key is not released.
ReleaseForgotten(j) ==
  /\ Step(j, "release", "error")
  /\ UNCHANGED <<storeVars, idemKey, rlive, answer>>

\* Del, "release key so a retry can succeed", with the request's context.
Release(j) ==
  /\ Step(j, "release", "error")
  /\ \E ok \in BOOLEAN :
       /\ Call("redis", rlive[j], ok)
       /\ idemKey' = IF ok THEN [idemKey EXCEPT ![KeyOf[j]] = NoJob] ELSE idemKey
  /\ UNCHANGED <<queue, deadLetter, row, attempts, doneKey, lockKey, accepted, rlive, answer>>

\* net/http cancels the context of a request whose client disconnects.
ClientGone(j) ==
  /\ "clientGone" \in Env
  /\ rlive[j] /\ rpc[j] \notin Outcomes
  /\ rlive' = [rlive EXCEPT ![j] = FALSE]
  /\ UNCHANGED <<storeVars, idemKey, rpc, answer>>

Enqueue(j) ==
  \/ Validate(j) \/ Claim(j) \/ GetExisting(j) \/ GetRow(j)
  \/ CreateRow(j) \/ PushJob(j) \/ Release(j)

GatewayStep == \E j \in Jobs : Enqueue(j) \/ ClientGone(j)

-----------------------------------------------------------------------------
\* The gateway alone; nobody consumes the lists.
gwVars == <<storeVars, gatewayVars>>

GwInit == StoresInit("absent") /\ GatewayInit

GwSpec == GwInit /\ [][GatewayStep]_gwVars

-----------------------------------------------------------------------------
(***************************************************************************)
(* Properties.                                                             *)
(***************************************************************************)

\* Every variable has its type.
GwTypeOK == StoresTypeOK /\ GatewayTypeOK

\* Of the requests that share an idempotency key at most one is answered
\* 202, whatever fails and however the requests overlap.
OneAcceptedPerKey ==
  \A i, j \in Jobs :
    rpc[i] = "accepted" /\ rpc[j] = "accepted" /\ KeyOf[i] = KeyOf[j] => i = j

\* A job that was answered 202 keeps its key, so that later requests with
\* the key are recognised as duplicates of it.
AcceptedKeepsKey == \A j \in Jobs : rpc[j] = "accepted" => idemKey[KeyOf[j]] = j

\* A duplicate names another request of the same key which is still being
\* accepted or was accepted; never itself, never a job that does not exist.
DuplicateNamesOriginal ==
  \A j \in Jobs : rpc[j] = "duplicate" =>
    LET i == answer[j]
    IN  /\ i # j /\ KeyOf[i] = KeyOf[j]
        /\ rpc[i] \in {"create", "push", "accepted"}

\* "release key so a retry can succeed": a request that failed no longer
\* holds its key, unless its client has gone: the Del has the request's
\* context and fails with it.
FailureFreesKey == \A j \in Jobs : rpc[j] = "error" /\ rlive[j] => idemKey[KeyOf[j]] # j

\* A push is never ahead of its row: a job on the lists always has one.
QueuedHasRow == \A j \in accepted : row[j].status # "absent"
=============================================================================
