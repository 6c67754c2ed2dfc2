------------------------------- MODULE Ingress -------------------------------
(***************************************************************************)
(* internal/api: the chain a gateway request passes, in the order of       *)
(* router.go: the global rate limit, the body limit, the per-client rate   *)
(* limit, the depth check, the handler, Enqueue, and the status answered.  *)
(*                                                                         *)
(* A limiter is what RateBound promises: GlobalLimiter is one Bucket under *)
(* a lock, and KeyedLimiter is proved to behave as one bucket per client.  *)
(* The two have rates of their own; a tick refills one unit of each.       *)
(***************************************************************************)
EXTENDS Backpressure

CONSTANTS
  Clients,       \* client addresses
  ClientOf,      \* the client of each request
  Suspect,       \* the requests something may be wrong with
  GlobalUnit, GlobalCapacity,   \* units of a token, and of a full bucket
  RouteUnit, RouteCapacity,
  MaxTicks       \* bound: the length of a behaviour, in ticks

ASSUME IngressAssumption ==
  /\ ClientOf \in [Jobs -> Clients]
  /\ Suspect \subseteq Jobs \ Welcomes
  /\ GlobalUnit \in Nat \ {0} /\ GlobalCapacity \in Nat
  /\ RouteUnit \in Nat \ {0} /\ RouteCapacity \in Nat
  /\ MaxTicks \in Nat

VARIABLES
  flaw,       \* what is wrong with each request
  gLevel,     \* the units in the global bucket
  gVerdict,   \* what the global limiter said to each request
  cLevel,     \* the units in each client's bucket
  cVerdict,   \* what the per-client limiter said
  status,     \* the HTTP status answered, or 0
  clock,      \* ticks since the start
  load        \* history: the depth when a request's check began, and the pushes
              \* during it; 0 once the request has passed

limitVars == <<gLevel, gVerdict, cLevel, cVerdict>>
ingVars == <<bpVars, limitVars, flaw, status, clock, load>>

Global == INSTANCE RateBound WITH Clients <- {"global"}, Callers <- Jobs,
            Capacity <- GlobalCapacity, Unit <- GlobalUnit, level <- gLevel, verdict <- gVerdict
Route == INSTANCE RateBound WITH Callers <- Jobs,
            Capacity <- RouteCapacity, Unit <- RouteUnit, level <- cLevel, verdict <- cVerdict

\* "declared": a Content-Length over the limit; "large": a body that turns out
\* to be over it; "body": one that is empty, cannot be read or is refused by
\* validatePayload; "signature": a payment webhook with a wrong HMAC.
Flaws == {"none", "declared", "large", "body", "signature"}

\* The refusals: answers given in place of calling Enqueue.
Refusals == {400, 401, 413, 429, 503}
Statuses == {0, 200, 202, 500} \cup Refusals

Verdicts == {"none", "allow", "deny"}

IngressTypeOK ==
  /\ BackpressureTypeOK
  /\ flaw \in [Jobs -> Flaws]
  /\ gLevel \in [{"global"} -> 0..GlobalCapacity]
  /\ gVerdict \in [Jobs -> Verdicts]
  /\ cLevel \in [Clients -> 0..RouteCapacity]
  /\ cVerdict \in [Jobs -> Verdicts]
  /\ status \in [Jobs -> Statuses]
  /\ clock \in 0..MaxTicks
  /\ load \in [Jobs -> Nat]

IngInit ==
  /\ BpInit
  /\ Global!RBInit /\ Route!RBInit
  /\ flaw \in [Jobs -> Flaws]
  /\ \A j \in Jobs : /\ flaw[j] # "none" => j \in Suspect
                     /\ flaw[j] = "signature" => TypeOf[j] = "PAYMENT_WEBHOOK"
  /\ status = [j \in Jobs |-> 0]
  /\ clock = 0
  /\ load = [j \in Jobs |-> 0]

-----------------------------------------------------------------------------
\* httpx.WriteJSON, WriteError.
Answer(j, code) == status' = [status EXCEPT ![j] = code]

\* The requests net/http is serving.
InChain == {j \in Jobs : gVerdict[j] # "none" /\ status[j] = 0}

\* RateLimit(d.GlobalLimiter, "global", ...)
GlobalLimit(j) ==
  /\ gVerdict[j] = "none" /\ j \notin Welcomes
  /\ Cardinality(InChain) < MaxInFlight
  /\ Global!RBAllow(j, "global")
  /\ IF gLevel["global"] >= GlobalUnit THEN UNCHANGED status ELSE Answer(j, 429)
  /\ UNCHANGED <<bpVars, cLevel, cVerdict, flaw, clock, load>>

\* BodyLimit: a length that is declared too large costs no token of the client.
BodyLimit(j) ==
  /\ gVerdict[j] = "allow" /\ cVerdict[j] = "none" /\ status[j] = 0
  /\ flaw[j] = "declared"
  /\ Answer(j, 413)
  /\ UNCHANGED <<bpVars, limitVars, flaw, clock, load>>

\* Mutant: the bucket is the global one's once more.
ClientLimitForgotten(j) ==
  /\ gVerdict[j] = "allow" /\ cVerdict[j] = "none"
  /\ flaw[j] # "declared"
  /\ cVerdict' = [cVerdict EXCEPT ![j] = "allow"]
  /\ UNCHANGED <<bpVars, gLevel, gVerdict, cLevel, flaw, status, clock, load>>

\* RateLimit(d.ClientLimiter, "route", ClientIPKey, ...)
ClientLimit(j) ==
  /\ gVerdict[j] = "allow" /\ cVerdict[j] = "none"
  /\ flaw[j] # "declared"
  /\ Route!RBAllow(j, ClientOf[j])
  /\ IF cLevel[ClientOf[j]] >= RouteUnit THEN UNCHANGED status ELSE Answer(j, 429)
  /\ UNCHANGED <<bpVars, gLevel, gVerdict, flaw, clock, load>>

\* The depth check, with the depth its reads can account for.
CheckDepth(j) ==
  /\ cVerdict[j] = "allow"
  /\ \/ /\ Arrive(j)
        /\ load' = [load EXCEPT ![j] = TotalDepth]
     \/ /\ ReadDepth(j) \/ ReadFails(j)
        /\ load' = IF bpc'[j] = "passed" THEN [load EXCEPT ![j] = 0] ELSE load
  /\ IF bpc'[j] = "shed" THEN Answer(j, 503) ELSE UNCHANGED status
  /\ UNCHANGED <<limitVars, flaw, clock>>

HandlerStatus(j) == CASE flaw[j] = "large" -> 413 [] flaw[j] = "signature" -> 401 [] OTHER -> 400

\* readBody, the signature check and validatePayload, in front of Enqueue.
Refuse(j) ==
  /\ bpc[j] = "passed" /\ flaw[j] # "none"
  /\ Step(j, "new", "invalid")
  /\ Answer(j, HandlerStatus(j))
  /\ UNCHANGED <<storeVars, idemKey, rlive, answer, checkVars, pushVars, limitVars, flaw, clock, load>>

\* Mutant: a failing store is reported as an unavailable one.
StatusOfUnavailable(outcome) ==
  CASE outcome = "accepted" -> 202
    [] outcome = "duplicate" -> 200
    [] outcome = "invalid" -> 400
    [] outcome = "error" -> 503

\* What accept and mapError make of what Enqueue returns.
StatusOf(outcome) ==
  CASE outcome = "accepted" -> 202
    [] outcome = "duplicate" -> 200
    [] outcome = "invalid" -> 400
    [] outcome = "error" -> 500

\* A push raises the depth that every check in progress may count.
CountPush == load' = [i \in Jobs |-> IF bpc[i] \in Reading THEN load[i] + 1 ELSE load[i]]

\* accept.
Accept(j) ==
  /\ flaw[j] = "none" /\ Handle(j)
  /\ IF rpc'[j] \in Outcomes THEN Answer(j, StatusOf(rpc'[j])) ELSE UNCHANGED status
  /\ IF queue' = queue THEN UNCHANGED load ELSE CountPush
  /\ UNCHANGED <<limitVars, flaw, clock>>

Disconnect(j) ==
  /\ bpc[j] # "out" /\ ClientGone(j)
  /\ UNCHANGED <<checkVars, pushVars, limitVars, flaw, status, clock, load>>

Request(j) == GlobalLimit(j) \/ BodyLimit(j) \/ ClientLimit(j) \/ CheckDepth(j)
              \/ Refuse(j) \/ Accept(j)

Dispatch == (\E p \in Priorities : Consume(p)) /\ UNCHANGED <<limitVars, flaw, status, clock, load>>

\* The pool, an admin or a processor pushes a job of its own accord.
Background == (Requeue \/ Welcome) /\ CountPush /\ UNCHANGED <<limitVars, flaw, status, clock>>

Tick ==
  /\ clock < MaxTicks
  /\ clock' = clock + 1
  /\ Global!RBTick /\ Route!RBTick
  /\ UNCHANGED <<bpVars, flaw, status, load>>

IngNext == (\E j \in Jobs : Request(j) \/ Disconnect(j)) \/ Dispatch \/ Background \/ Tick

IngSpec == IngInit /\ [][IngNext]_ingVars

-----------------------------------------------------------------------------
(***************************************************************************)
(* Properties.                                                             *)
(***************************************************************************)

\* A request that is refused, by whichever stage and whatever fails on the
\* way, leaves nothing behind: no key, no row and no job, so that a client
\* may correct or repeat it.
RefusalLeavesNoTrace ==
  \A j \in Jobs : status[j] \in Refusals =>
    /\ j \notin accepted
    /\ row[j].status = "absent"
    /\ \A k \in Keys : idemKey[k] # j

Admitted(c) == {j \in Jobs : cVerdict[j] = "allow" /\ ClientOf[j] = c}

\* The two limiters compose: no client gets more requests past them than its
\* burst and its rate allow, nor all clients together more than the global ones.
AdmissionBound ==
  /\ \A c \in Clients : RouteUnit * Cardinality(Admitted(c)) <= RouteCapacity + clock
  /\ GlobalUnit * Cardinality({j \in Jobs : cVerdict[j] = "allow"}) <= GlobalCapacity + clock

\* Nobody is shed without a cause: the three LLEN are no snapshot, yet a
\* request answered 503 met at least Threshold jobs that were on the lists
\* when its check began or were pushed during it.
ShedHasCause == \A j \in Jobs : bpc[j] = "shed" => load[j] >= Threshold
=============================================================================
