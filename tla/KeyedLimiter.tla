---------------------------- MODULE KeyedLimiter ----------------------------
(***************************************************************************)
(* internal/ratelimiter: the token bucket, the map of one bucket per       *)
(* client, and the janitor that evicts idle buckets.  Allow looks the      *)
(* bucket up under the map's lock, drops that lock, and then takes a token *)
(* under the bucket's own; time may pass, and the janitor may run, between *)
(* the two.                                                                *)
(*                                                                         *)
(* Time is a count of ticks and tokens are counted in units of what one    *)
(* tick refills: rps is a token in every Unit ticks.                       *)
(***************************************************************************)
EXTENDS Integers

CONSTANTS
  Clients,     \* limiter keys: client addresses
  Callers,     \* request goroutines
  Unit,        \* the ticks in which one token refills: 1 / rps
  Burst,       \* the burst asked for
  IdleTTL,     \* idleTTL, after the default was put in
  MaxStall,    \* longest time a caller spends between its lookup and its token
  JanitorLag,  \* longest time from a tick of the janitor's ticker to its sweep
  Buckets,     \* bucket objects; one that nobody refers to is allocated again
  NoBucket,    \* a nil *Bucket
  MaxTime      \* bound: the length of a behaviour, in ticks

\* NewBucket turns a burst that is not positive into 1.
Capacity == Unit * (IF Burst <= 0 THEN 1 ELSE Burst)

ASSUME LimiterAssumption ==
  /\ Unit \in Nat \ {0}
  /\ Burst \in Int
  /\ IdleTTL \in Nat \ {0}
  /\ MaxStall \in Nat
  /\ JanitorLag \in Nat
  /\ NoBucket \notin Buckets
  /\ MaxTime \in Nat

VARIABLES
  now,       \* the clock
  buckets,   \* KeyedLimiter.buckets: the bucket of each client, or NoBucket
  seen,      \* entry.seen; 0 without an entry
  heap,      \* the tokens and the last refill of each bucket
  cpc,       \* where each caller is: outside, or between lookup and token
  client,    \* whose bucket the caller is using
  mine,      \* the bucket pointer the caller took from the map
  since,     \* when it looked it up; 0 outside
  verdict,   \* what Allow returned last
  jpc,       \* where the janitor is
  cutoff,    \* the cutoff it computed
  due,       \* the tick of its ticker it is waiting for or serving
  stopped    \* the stop channel is closed

callerVars == <<cpc, client, mine, since, verdict>>
janitorVars == <<jpc, cutoff, due, stopped>>
limiterVars == <<now, buckets, seen, heap, callerVars, janitorVars>>

LimiterTypeOK ==
  /\ now \in 0..MaxTime
  /\ buckets \in [Clients -> Buckets \cup {NoBucket}]
  /\ seen \in [Clients -> 0..MaxTime]
  /\ heap \in [Buckets -> [tokens : 0..Capacity, last : 0..MaxTime]]
  /\ cpc \in [Callers -> {"out", "have"}]
  /\ client \in [Callers -> Clients]
  /\ mine \in [Callers -> Buckets \cup {NoBucket}]
  /\ since \in [Callers -> 0..MaxTime]
  /\ verdict \in [Callers -> {"none", "allow", "deny"}]
  /\ jpc \in {"wait", "sweep", "exited"}
  /\ cutoff \in Int
  /\ due \in Nat
  /\ stopped \in BOOLEAN

LimiterInit ==
  /\ now = 0
  /\ buckets = [c \in Clients |-> NoBucket]
  /\ seen = [c \in Clients |-> 0]
  /\ heap = [b \in Buckets |-> [tokens |-> 0, last |-> 0]]
  /\ cpc = [t \in Callers |-> "out"]
  /\ client \in [Callers -> Clients]
  /\ mine = [t \in Callers |-> NoBucket]
  /\ since = [t \in Callers |-> 0]
  /\ verdict = [t \in Callers |-> "none"]
  /\ jpc = "wait" /\ cutoff = 0 /\ due = IdleTTL /\ stopped = FALSE

-----------------------------------------------------------------------------
\* min(capacity, tokens + elapsed * refillPerSec)
Refilled(b) ==
  LET t == heap[b].tokens + (now - heap[b].last)
  IN  IF t <= Capacity THEN t ELSE Capacity

NewBucket == [tokens |-> Capacity, last |-> now]

Garbage(b) == b \notin {buckets[c] : c \in Clients} \cup {mine[t] : t \in Callers}

\* Allow of the map, up to the unlock: the first half under k.mu.
Lookup(t, c) ==
  /\ cpc[t] = "out"
  /\ \E b \in Buckets :
       /\ \/ b = buckets[c] /\ UNCHANGED <<buckets, heap>>
          \/ /\ buckets[c] = NoBucket /\ Garbage(b)
             /\ buckets' = [buckets EXCEPT ![c] = b]
             /\ heap' = [heap EXCEPT ![b] = NewBucket]
       /\ mine' = [mine EXCEPT ![t] = b]
  /\ seen' = [seen EXCEPT ![c] = now]
  /\ client' = [client EXCEPT ![t] = c]
  /\ since' = [since EXCEPT ![t] = now]
  /\ cpc' = [cpc EXCEPT ![t] = "have"]
  /\ verdict' = [verdict EXCEPT ![t] = "none"]
  /\ UNCHANGED <<now, janitorVars>>

\* Mutant: lastRefill is only moved when a token is taken.
AllowKeepsLast(t) ==
  LET b == mine[t]
      ok == Refilled(b) >= Unit
  IN  /\ cpc[t] = "have"
      /\ heap' = [heap EXCEPT ![b] = [tokens |-> IF ok THEN Refilled(b) - Unit ELSE Refilled(b),
                                      last |-> IF ok THEN now ELSE @.last]]
      /\ verdict' = [verdict EXCEPT ![t] = IF ok THEN "allow" ELSE "deny"]
      /\ cpc' = [cpc EXCEPT ![t] = "out"]
      /\ mine' = [mine EXCEPT ![t] = NoBucket]
      /\ since' = [since EXCEPT ![t] = 0]
      /\ UNCHANGED <<now, buckets, seen, client, janitorVars>>

\* Mutant: any positive amount counts as a token.
AllowOverdraws(t) ==
  LET b == mine[t]
      ok == Refilled(b) > 0
  IN  /\ cpc[t] = "have"
      /\ heap' = [heap EXCEPT ![b] = [tokens |-> IF ok THEN Refilled(b) - Unit ELSE Refilled(b),
                                      last |-> now]]
      /\ verdict' = [verdict EXCEPT ![t] = IF ok THEN "allow" ELSE "deny"]
      /\ cpc' = [cpc EXCEPT ![t] = "out"]
      /\ mine' = [mine EXCEPT ![t] = NoBucket]
      /\ since' = [since EXCEPT ![t] = 0]
      /\ UNCHANGED <<now, buckets, seen, client, janitorVars>>

\* Bucket.Allow, on the pointer taken from the map.
Allow(t) ==
  LET b == mine[t]
      ok == Refilled(b) >= Unit
  IN  /\ cpc[t] = "have"
      /\ heap' = [heap EXCEPT ![b] = [tokens |-> IF ok THEN Refilled(b) - Unit ELSE Refilled(b),
                                      last |-> now]]
      /\ verdict' = [verdict EXCEPT ![t] = IF ok THEN "allow" ELSE "deny"]
      /\ cpc' = [cpc EXCEPT ![t] = "out"]
      /\ mine' = [mine EXCEPT ![t] = NoBucket]
      /\ since' = [since EXCEPT ![t] = 0]
      /\ UNCHANGED <<now, buckets, seen, client, janitorVars>>

\* Mutant: the cutoff lies two periods back.
JanitorTickLate ==
  /\ jpc = "wait" /\ now >= due
  /\ cutoff' = now - 2 * IdleTTL
  /\ jpc' = "sweep"
  /\ UNCHANGED <<now, buckets, seen, heap, callerVars, due, stopped>>

\* case <-ticker.C, up to the lock of the map.
JanitorTick ==
  /\ jpc = "wait" /\ now >= due
  /\ cutoff' = now - IdleTTL
  /\ jpc' = "sweep"
  /\ UNCHANGED <<now, buckets, seen, heap, callerVars, due, stopped>>

\* Mutant: the sweep drops every bucket.
JanitorSweepAll ==
  /\ jpc = "sweep"
  /\ buckets' = [c \in Clients |-> NoBucket]
  /\ seen' = [c \in Clients |-> 0]
  /\ jpc' = "wait" /\ cutoff' = 0 /\ due' = due + IdleTTL
  /\ UNCHANGED <<now, heap, callerVars, stopped>>

\* The loop over the map, under its lock.
JanitorSweep ==
  /\ jpc = "sweep"
  /\ buckets' = [c \in Clients |-> IF seen[c] < cutoff THEN NoBucket ELSE buckets[c]]
  /\ seen' = [c \in Clients |-> IF seen[c] < cutoff THEN 0 ELSE seen[c]]
  /\ jpc' = "wait" /\ cutoff' = 0 /\ due' = due + IdleTTL
  /\ UNCHANGED <<now, heap, callerVars, stopped>>

\* case <-k.stop; when a tick is ready too, select may take either.
JanitorStop ==
  /\ jpc = "wait" /\ stopped
  /\ jpc' = "exited"
  /\ UNCHANGED <<now, buckets, seen, heap, callerVars, cutoff, due, stopped>>

Close ==
  /\ ~stopped
  /\ stopped' = TRUE
  /\ UNCHANGED <<now, buckets, seen, heap, callerVars, jpc, cutoff, due>>

\* Time passes, except where a goroutine would exceed its bound.
Tick ==
  /\ now < MaxTime
  /\ \A t \in Callers : cpc[t] = "have" => now - since[t] < MaxStall
  /\ jpc # "exited" => now - due < JanitorLag
  /\ now' = now + 1
  /\ UNCHANGED <<buckets, seen, heap, callerVars, janitorVars>>

LimiterNext ==
  \/ \E t \in Callers : Allow(t) \/ \E c \in Clients : Lookup(t, c)
  \/ JanitorTick \/ JanitorSweep \/ JanitorStop \/ Close
  \/ Tick

LimiterSpec == LimiterInit /\ [][LimiterNext]_limiterVars

-----------------------------------------------------------------------------
(***************************************************************************)
(* Properties.                                                             *)
(***************************************************************************)

\* The units each client could take now: an evicted client has a full bucket.
levelNow == [c \in Clients |-> IF buckets[c] = NoBucket THEN Capacity ELSE Refilled(buckets[c])]

Promise == INSTANCE RateBound WITH level <- levelNow

\* The limiter answers exactly as if no bucket were ever evicted, when a
\* bucket is idle long enough to be full again before the janitor drops it
\* (IdleTTL >= Capacity + MaxStall): eviction, and the gap between the two
\* locks of Allow, give no client a token more or less.
ActsAsOneBucket == Promise!RBSpec

\* The pointer a caller took is still the client's bucket when it is used,
\* although Allow has dropped the map's lock by then.
NoStaleBucket == \A t \in Callers : cpc[t] = "have" => mine[t] = buckets[client[t]]

\* "Idle buckets are evicted by a background janitor to bound memory": until
\* Close no client stays in the map for longer than two periods.
IdleEvicted ==
  \A c \in Clients :
    buckets[c] # NoBucket /\ jpc # "exited" => now - seen[c] <= 2 * IdleTTL + JanitorLag
=============================================================================
