-------------------------- MODULE ComponentProofs ---------------------------
(***************************************************************************)
(* What holds of the components that stand by themselves: the keyed        *)
(* limiter and the processors.                                             *)
(***************************************************************************)
EXTENDS KeyedLimiter, Processors, TLAPS, FiniteSetTheorems

(***************************************************************************)
(* The keyed limiter implements RateBound, never uses an evicted bucket    *)
(* and forgets idle clients, for every number of clients and callers and   *)
(* every rate, burst and TTL.                                              *)
(***************************************************************************)

(***************************************************************************)
(* The inductive invariant.                                                *)
(***************************************************************************)

\* Two clients never share a bucket.
OwnBucket ==
  \A c, d \in Clients : buckets[c] = buckets[d] /\ buckets[c] # NoBucket => c = d

\* A caller in the gap holds its client's bucket, and looked it up no earlier
\* than MaxStall ago and no later than the entry was last seen.
CallerHolds ==
  \A t \in Callers : cpc[t] = "have" =>
    /\ mine[t] = buckets[client[t]] /\ mine[t] # NoBucket
    /\ since[t] <= seen[client[t]] /\ now - since[t] <= MaxStall

\* A bucket was refilled at most MaxStall after its entry was last seen.
RefillSeen ==
  \A c \in Clients : buckets[c] # NoBucket =>
    heap[buckets[c]].last <= seen[c] + MaxStall /\ heap[buckets[c]].last <= now

\* Entries are seen in the past, and the cutoff lies a TTL before now.
ClockOrder ==
  /\ \A c \in Clients : seen[c] <= now
  /\ jpc = "sweep" => cutoff <= now - IdleTTL

\* The ticker: a tick is served within JanitorLag, and what the last sweep
\* left in the map was seen after its cutoff.
TickerOrder ==
  /\ jpc # "exited" => now <= due + JanitorLag
  /\ now >= due - IdleTTL
  /\ jpc = "sweep" => cutoff >= due - IdleTTL
  /\ \A c \in Clients : buckets[c] # NoBucket => seen[c] >= due - 2 * IdleTTL

LimiterInv ==
  /\ LimiterTypeOK /\ OwnBucket /\ CallerHolds /\ RefillSeen /\ ClockOrder /\ TickerOrder

\* The capacity of a bucket is a natural number.
LEMMA CapacityType == Capacity \in Nat
<1>1. (IF Burst <= 0 THEN 1 ELSE Burst) \in Nat
  BY LimiterAssumption
<1>2. \A m, n \in Nat : m * n \in Nat
  OBVIOUS
<1> QED
  BY <1>1, <1>2, LimiterAssumption, Zenon DEF Capacity

\* A refilled bucket holds at most its capacity.
LEMMA RefilledType ==
  ASSUME LimiterTypeOK, NEW b \in Buckets, heap[b].last <= now
  PROVE  Refilled(b) \in 0..Capacity
BY CapacityType, LimiterAssumption DEF Refilled, LimiterTypeOK

\* The invariant holds when the limiter is built.
LEMMA LimiterInitInv == LimiterInit => LimiterInv
<1> SUFFICES ASSUME LimiterInit PROVE LimiterInv
  BY Zenon
<1>1. [tokens |-> 0, last |-> 0] \in [tokens : 0..Capacity, last : 0..MaxTime]
  BY CapacityType, LimiterAssumption
<1>2. LimiterTypeOK
  <2>1. heap \in [Buckets -> [tokens : 0..Capacity, last : 0..MaxTime]]
    BY <1>1, Zenon DEF LimiterInit
  <2>2. now \in 0..MaxTime /\ seen \in [Clients -> 0..MaxTime] /\ since \in [Callers -> 0..MaxTime]
    BY LimiterAssumption DEF LimiterInit
  <2>3. cutoff \in Int /\ due \in Nat
    BY LimiterAssumption DEF LimiterInit
  <2>4. stopped \in BOOLEAN
    BY Zenon DEF LimiterInit
  <2>5. buckets \in [Clients -> Buckets \cup {NoBucket}] /\ mine \in [Callers -> Buckets \cup {NoBucket}]
    BY Zenon DEF LimiterInit
  <2>6. /\ cpc \in [Callers -> {"out", "have"}] /\ client \in [Callers -> Clients]
        /\ verdict \in [Callers -> {"none", "allow", "deny"}] /\ jpc \in {"wait", "sweep", "exited"}
    BY Zenon DEF LimiterInit
  <2> QED
    BY <2>1, <2>2, <2>3, <2>4, <2>5, <2>6, Zenon DEF LimiterTypeOK
<1>3. OwnBucket /\ CallerHolds /\ RefillSeen
  BY Zenon DEF LimiterInit, OwnBucket, CallerHolds, RefillSeen
<1>4. ClockOrder /\ TickerOrder
  BY LimiterAssumption DEF LimiterInit, ClockOrder, TickerOrder
<1> QED
  BY <1>2, <1>3, <1>4, Zenon DEF LimiterInv

\* Looking a bucket up preserves the invariant.
LEMMA LookupInv ==
  ASSUME LimiterInv, NEW t \in Callers, NEW c \in Clients, Lookup(t, c)
  PROVE  LimiterInv'
<1> USE LimiterAssumption DEF LimiterInv
<1>1. PICK b \in Buckets :
        /\ \/ b = buckets[c] /\ UNCHANGED <<buckets, heap>>
           \/ /\ buckets[c] = NoBucket /\ Garbage(b)
              /\ buckets' = [buckets EXCEPT ![c] = b]
              /\ heap' = [heap EXCEPT ![b] = NewBucket]
        /\ mine' = [mine EXCEPT ![t] = b]
  BY Zenon DEF Lookup
<1>2. NewBucket \in [tokens : 0..Capacity, last : 0..MaxTime]
  BY CapacityType DEF NewBucket, LimiterTypeOK
<1>3. b # NoBucket /\ buckets'[c] = b /\ \A d \in Clients \ {c} : buckets'[d] = buckets[d]
  BY <1>1, Zenon DEF LimiterTypeOK
<1>4. \A d \in Clients \ {c} : b # buckets[d]
  BY <1>1, Zenon DEF Garbage, OwnBucket
<1>5. \A d \in Clients \ {c} : buckets[d] # NoBucket => heap'[buckets[d]] = heap[buckets[d]]
  BY <1>1, <1>4, Zenon DEF LimiterTypeOK
<1>6. heap'[b].last <= now
  BY <1>1, <1>2 DEF RefillSeen, NewBucket, LimiterTypeOK
<1>7. LimiterTypeOK'
  <2>1. heap' \in [Buckets -> [tokens : 0..Capacity, last : 0..MaxTime]]
    BY <1>1, <1>2, Zenon DEF LimiterTypeOK
  <2>2. buckets' \in [Clients -> Buckets \cup {NoBucket}] /\ mine' \in [Callers -> Buckets \cup {NoBucket}]
    BY <1>1 DEF LimiterTypeOK
  <2>3. /\ seen' \in [Clients -> 0..MaxTime] /\ since' \in [Callers -> 0..MaxTime]
        /\ cpc' \in [Callers -> {"out", "have"}] /\ client' \in [Callers -> Clients]
        /\ verdict' \in [Callers -> {"none", "allow", "deny"}]
    BY Zenon DEF LimiterTypeOK, Lookup
  <2> QED
    BY <2>1, <2>2, <2>3, Zenon DEF LimiterTypeOK, Lookup, janitorVars
<1>8. OwnBucket'
  BY <1>3, <1>4, Zenon DEF OwnBucket
<1>9. CallerHolds'
  <2> SUFFICES ASSUME NEW u \in Callers, cpc'[u] = "have"
               PROVE  /\ mine'[u] = buckets'[client'[u]] /\ mine'[u] # NoBucket
                      /\ since'[u] <= seen'[client'[u]] /\ now' - since'[u] <= MaxStall
    BY Zenon DEF CallerHolds
  <2>1. CASE u = t
    BY <1>1, <1>3, <2>1 DEF Lookup, LimiterTypeOK
  <2>2. CASE u # t
    <3>1. /\ cpc[u] = "have" /\ mine'[u] = mine[u] /\ client'[u] = client[u] /\ since'[u] = since[u]
          /\ now' = now /\ client[u] \in Clients
      BY <1>1, <2>2, Zenon DEF Lookup, LimiterTypeOK
    <3>2. mine[u] = buckets[client[u]] /\ mine[u] # NoBucket
      BY <3>1, Zenon DEF CallerHolds
    <3>3. buckets'[client[u]] = buckets[client[u]]
      BY <1>1, <3>1, <3>2, Zenon DEF LimiterTypeOK
    <3>4. since[u] <= seen'[client[u]] /\ now - since[u] <= MaxStall
      BY <3>1 DEF Lookup, CallerHolds, ClockOrder, LimiterTypeOK
    <3> QED
      BY <3>1, <3>2, <3>3, <3>4, Zenon
  <2> QED
    BY <2>1, <2>2, Zenon
<1>10. RefillSeen'
  <2>1. \A d \in Clients \ {c} : seen'[d] = seen[d]
    BY Zenon DEF Lookup, LimiterTypeOK
  <2>2. seen'[c] = now /\ now' = now /\ now \in Nat
    BY DEF Lookup, LimiterTypeOK
  <2>3. heap'[b].last \in Nat
    BY <1>7 DEF LimiterTypeOK
  <2> QED
    BY <1>3, <1>5, <1>6, <2>1, <2>2, <2>3 DEF RefillSeen
<1>11. ClockOrder'
  BY DEF Lookup, ClockOrder, LimiterTypeOK, janitorVars
<1>12. TickerOrder'
  <2>1. now >= due - 2 * IdleTTL
    BY DEF TickerOrder, LimiterTypeOK
  <2> QED
    BY <1>3, <2>1, Zenon DEF Lookup, TickerOrder, LimiterTypeOK, janitorVars
<1> QED
  BY <1>7, <1>8, <1>9, <1>10, <1>11, <1>12, Zenon

\* Taking a token preserves the invariant.
LEMMA AllowInv ==
  ASSUME LimiterInv, NEW t \in Callers, Allow(t)
  PROVE  LimiterInv'
<1> USE LimiterAssumption DEF LimiterInv
<1> DEFINE c == client[t]
           b == mine[t]
<1>1. c \in Clients /\ b \in Buckets /\ b = buckets[c] /\ b # NoBucket
  BY Zenon DEF Allow, CallerHolds, LimiterTypeOK
<1>2. Refilled(b) \in 0..Capacity
  BY <1>1, RefilledType, Zenon DEF RefillSeen
<1>3. [tokens |-> IF Refilled(b) >= Unit THEN Refilled(b) - Unit ELSE Refilled(b), last |-> now]
        \in [tokens : 0..Capacity, last : 0..MaxTime]
  BY <1>2, CapacityType DEF LimiterTypeOK
<1>4. LimiterTypeOK'
  BY <1>1, <1>3 DEF LimiterTypeOK, Allow, janitorVars
<1>5. OwnBucket' /\ ClockOrder' /\ TickerOrder'
  BY Zenon DEF Allow, OwnBucket, ClockOrder, TickerOrder, janitorVars
<1>6. CallerHolds'
  BY Zenon DEF Allow, CallerHolds, LimiterTypeOK
<1>7. RefillSeen'
  <2>1. now <= seen[c] + MaxStall
    BY <1>1 DEF Allow, CallerHolds, LimiterTypeOK
  <2>2. heap'[b].last = now
    BY <1>1, Zenon DEF Allow, LimiterTypeOK
  <2>3. \A d \in Clients : buckets[d] # NoBucket /\ buckets[d] # b => heap'[buckets[d]] = heap[buckets[d]]
    BY <1>1, Zenon DEF Allow, LimiterTypeOK
  <2>4. UNCHANGED <<buckets, seen, now>> /\ now \in Nat
    BY DEF Allow, LimiterTypeOK
  <2> QED
    BY <1>1, <2>1, <2>2, <2>3, <2>4 DEF RefillSeen, OwnBucket
<1> QED
  BY <1>4, <1>5, <1>6, <1>7, Zenon

\* What a sweep leaves in the map was seen after its cutoff.
LEMMA SweepTicker ==
  ASSUME LimiterTypeOK, ClockOrder, TickerOrder, JanitorSweep
  PROVE  TickerOrder'
<1>. USE LimiterAssumption
<1>1. now' = now /\ due' = due + IdleTTL /\ jpc' = "wait" /\ cutoff >= due - IdleTTL
  BY Zenon DEF JanitorSweep, TickerOrder
<1>2. now >= due
  BY <1>1 DEF JanitorSweep, ClockOrder, LimiterTypeOK
<1>3. \A c \in Clients : buckets'[c] # NoBucket => seen'[c] = seen[c] /\ seen[c] >= cutoff
  BY DEF JanitorSweep, LimiterTypeOK
<1>4. \A c \in Clients : buckets'[c] # NoBucket => seen'[c] >= due' - 2 * IdleTTL
  BY <1>1, <1>3 DEF LimiterTypeOK
<1>5. now' <= due' + JanitorLag
  BY <1>1 DEF JanitorSweep, TickerOrder, LimiterTypeOK
<1>. QED  BY <1>1, <1>2, <1>4, <1>5 DEF TickerOrder, LimiterTypeOK

\* The sweep preserves the invariant: it never takes away the bucket of a
\* caller in the gap, which was seen too recently.
LEMMA SweepInv ==
  ASSUME LimiterInv, IdleTTL >= MaxStall, JanitorSweep
  PROVE  LimiterInv'
<1> USE LimiterAssumption DEF LimiterInv
<1>1. LimiterTypeOK'
  BY DEF LimiterTypeOK, JanitorSweep, callerVars
<1>2. OwnBucket' /\ RefillSeen' /\ ClockOrder'
  BY DEF JanitorSweep, OwnBucket, RefillSeen, ClockOrder, LimiterTypeOK
<1>3. CallerHolds'
  <2> SUFFICES ASSUME NEW t \in Callers, cpc[t] = "have"
               PROVE  /\ mine[t] = buckets'[client[t]] /\ mine[t] # NoBucket
                      /\ since[t] <= seen'[client[t]] /\ now - since[t] <= MaxStall
    BY Zenon DEF CallerHolds, JanitorSweep, callerVars
  <2>1. client[t] \in Clients /\ ~(seen[client[t]] < cutoff)
    BY DEF JanitorSweep, CallerHolds, ClockOrder, LimiterTypeOK
  <2> QED
    BY <2>1, Zenon DEF JanitorSweep, CallerHolds, LimiterTypeOK
<1>4. TickerOrder'
  BY SweepTicker, Zenon
<1> QED
  BY <1>1, <1>2, <1>3, <1>4, Zenon

\* Every step preserves the invariant.
LEMMA LimiterStepInv ==
  ASSUME IdleTTL >= MaxStall
  PROVE  LimiterInv /\ [LimiterNext]_limiterVars => LimiterInv'
<1> SUFFICES ASSUME LimiterInv, [LimiterNext]_limiterVars PROVE LimiterInv'
  BY Zenon
<1> USE LimiterAssumption
<1>1. CASE UNCHANGED limiterVars
  BY <1>1, Zenon DEF limiterVars, callerVars, janitorVars, LimiterInv, LimiterTypeOK, OwnBucket, CallerHolds,
              RefillSeen, ClockOrder, TickerOrder
<1>2. ASSUME NEW t \in Callers, Allow(t) \/ \E c \in Clients : Lookup(t, c) PROVE LimiterInv'
  BY <1>2, AllowInv, LookupInv, Zenon
<1>3. CASE JanitorSweep
  BY <1>3, SweepInv, Zenon
<1>4. CASE JanitorTick \/ JanitorStop \/ Close
  <2> USE <1>4 DEF LimiterInv, JanitorTick, JanitorStop, Close, callerVars
  <2>1. /\ UNCHANGED <<now, buckets, seen, heap, callerVars, due>>
        /\ jpc' \in {"wait", "sweep", "exited"} /\ cutoff' \in Int
    BY DEF LimiterTypeOK
  <2>2. stopped' \in BOOLEAN
    BY Zenon DEF LimiterTypeOK
  <2>3. LimiterTypeOK'
    BY <2>1, <2>2, Zenon DEF LimiterTypeOK
  <2>4. OwnBucket' /\ CallerHolds' /\ RefillSeen'
    BY <2>1, Zenon DEF OwnBucket, CallerHolds, RefillSeen
  <2>5. ClockOrder' /\ TickerOrder'
    BY DEF ClockOrder, TickerOrder, LimiterTypeOK
  <2> QED
    BY <2>3, <2>4, <2>5, Zenon
<1>5. CASE Tick
  <2> USE <1>5 DEF LimiterInv, Tick, callerVars, janitorVars
  <2>1. LimiterTypeOK'
    BY DEF LimiterTypeOK
  <2>2. OwnBucket'
    BY Zenon DEF OwnBucket
  <2>3. CallerHolds'
    BY DEF CallerHolds, LimiterTypeOK
  <2>4. RefillSeen'
    BY DEF RefillSeen, LimiterTypeOK
  <2>5. ClockOrder' /\ TickerOrder'
    BY DEF ClockOrder, TickerOrder, LimiterTypeOK
  <2> QED
    BY <2>1, <2>2, <2>3, <2>4, <2>5, Zenon
<1> QED
  BY <1>1, <1>2, <1>3, <1>4, <1>5, Zenon DEF LimiterNext

\* The invariant always holds.
LEMMA LimiterInvariant ==
  ASSUME IdleTTL >= MaxStall
  PROVE  LimiterSpec => []LimiterInv
BY LimiterInitInv, LimiterStepInv, PTL DEF LimiterSpec
-----------------------------------------------------------------------------
(***************************************************************************)
(* The theorems.                                                           *)
(***************************************************************************)

\* The bucket pointer a caller took under the map's lock is still the
\* client's bucket when Bucket.Allow runs on it, if no goroutine stalls
\* between the two for longer than the idle TTL.
THEOREM NoStaleBucketHolds ==
  ASSUME IdleTTL >= MaxStall
  PROVE  LimiterSpec => []NoStaleBucket
<1>1. LimiterInv => NoStaleBucket
  BY Zenon DEF LimiterInv, CallerHolds, NoStaleBucket
<1> QED
  BY <1>1, LimiterInvariant, PTL

\* What holds however long a caller stalls, even on a bucket that was evicted
\* meanwhile: it has a bucket, and no bucket was refilled in the future.
StalledInv ==
  /\ LimiterTypeOK /\ ClockOrder /\ TickerOrder
  /\ \A t \in Callers : cpc[t] = "have" => mine[t] # NoBucket
  /\ \A b \in Buckets : heap[b].last <= now

\* Every step preserves it, with no condition on the TTL.
LEMMA StalledStep == StalledInv /\ [LimiterNext]_limiterVars => StalledInv'
<1>. SUFFICES ASSUME StalledInv, [LimiterNext]_limiterVars PROVE StalledInv'
  BY Zenon
<1>. USE LimiterAssumption DEF StalledInv
<1>1. CASE UNCHANGED limiterVars
  BY <1>1, Zenon DEF limiterVars, callerVars, janitorVars, LimiterTypeOK, ClockOrder, TickerOrder
<1>2. ASSUME NEW t \in Callers, Allow(t) PROVE StalledInv'
  <2>1. mine[t] \in Buckets
    BY <1>2, Zenon DEF Allow, LimiterTypeOK
  <2>2. Refilled(mine[t]) \in 0..Capacity
    BY <2>1, RefilledType, Zenon
  <2>3. [tokens |-> IF Refilled(mine[t]) >= Unit THEN Refilled(mine[t]) - Unit ELSE Refilled(mine[t]), last |-> now]
          \in [tokens : 0..Capacity, last : 0..MaxTime]
    BY <2>2, CapacityType DEF LimiterTypeOK
  <2>4. LimiterTypeOK'
    BY <1>2, <2>1, <2>3 DEF LimiterTypeOK, Allow, janitorVars
  <2>5. ClockOrder' /\ TickerOrder'
    BY <1>2, Zenon DEF Allow, ClockOrder, TickerOrder, janitorVars
  <2>6. \A u \in Callers : cpc'[u] = "have" => mine'[u] # NoBucket
    BY <1>2, Zenon DEF Allow, LimiterTypeOK
  <2>7. \A b \in Buckets : heap'[b].last <= now'
    BY <1>2, <2>1 DEF Allow, LimiterTypeOK
  <2>. QED  BY <2>4, <2>5, <2>6, <2>7, Zenon
<1>3. ASSUME NEW t \in Callers, NEW c \in Clients, Lookup(t, c) PROVE StalledInv'
  <2>1. PICK b \in Buckets :
          /\ \/ b = buckets[c] /\ UNCHANGED <<buckets, heap>>
             \/ /\ buckets[c] = NoBucket /\ Garbage(b)
                /\ buckets' = [buckets EXCEPT ![c] = b]
                /\ heap' = [heap EXCEPT ![b] = NewBucket]
          /\ mine' = [mine EXCEPT ![t] = b]
    BY <1>3, Zenon DEF Lookup
  <2>2. NewBucket \in [tokens : 0..Capacity, last : 0..MaxTime] /\ NewBucket.last = now /\ b # NoBucket
    BY CapacityType DEF NewBucket, LimiterTypeOK
  <2>3. heap' \in [Buckets -> [tokens : 0..Capacity, last : 0..MaxTime]]
    BY <2>1, <2>2, Zenon DEF LimiterTypeOK
  <2>4. buckets' \in [Clients -> Buckets \cup {NoBucket}] /\ mine' \in [Callers -> Buckets \cup {NoBucket}]
    BY <2>1 DEF LimiterTypeOK
  <2>5. /\ seen' \in [Clients -> 0..MaxTime] /\ since' \in [Callers -> 0..MaxTime]
        /\ cpc' \in [Callers -> {"out", "have"}] /\ client' \in [Callers -> Clients]
        /\ verdict' \in [Callers -> {"none", "allow", "deny"}]
    BY <1>3, Zenon DEF LimiterTypeOK, Lookup
  <2>6. LimiterTypeOK'
    BY <1>3, <2>3, <2>4, <2>5, Zenon DEF LimiterTypeOK, Lookup, janitorVars
  <2>7. \A u \in Callers : cpc'[u] = "have" => mine'[u] # NoBucket
    BY <1>3, <2>1, <2>2, Zenon DEF Lookup, LimiterTypeOK
  <2>8. \A d \in Buckets : heap'[d].last <= now'
    BY <1>3, <2>1, <2>2 DEF Lookup, LimiterTypeOK
  <2>9. ClockOrder'
    BY <1>3 DEF Lookup, ClockOrder, LimiterTypeOK, janitorVars
  <2>10. now >= due - 2 * IdleTTL
    BY DEF TickerOrder, LimiterTypeOK
  <2>11. \A d \in Clients \ {c} : buckets'[d] = buckets[d]
    BY <2>1, Zenon DEF LimiterTypeOK
  <2>12. UNCHANGED <<now, jpc, cutoff, due>>
    BY <1>3, Zenon DEF Lookup, janitorVars
  <2>13. seen'[c] = now /\ \A d \in Clients \ {c} : seen'[d] = seen[d]
    BY <1>3, Zenon DEF Lookup, LimiterTypeOK
  <2>14. \A d \in Clients : buckets'[d] # NoBucket => seen'[d] >= due - 2 * IdleTTL
    BY <2>10, <2>11, <2>13, Zenon DEF TickerOrder
  <2>15. TickerOrder'
    BY <2>12, <2>14, Zenon DEF TickerOrder
  <2>. QED  BY <2>6, <2>7, <2>8, <2>9, <2>15, Zenon
<1>4. CASE JanitorSweep
  <2>1. LimiterTypeOK'
    BY <1>4 DEF LimiterTypeOK, JanitorSweep, callerVars
  <2>2. ClockOrder'
    BY <1>4 DEF JanitorSweep, ClockOrder, LimiterTypeOK
  <2>3. TickerOrder'
    BY <1>4, SweepTicker, Zenon
  <2>. QED  BY <1>4, <2>1, <2>2, <2>3, Zenon DEF JanitorSweep, callerVars
<1>5. CASE JanitorTick \/ JanitorStop \/ Close
  <2>1. /\ UNCHANGED <<now, buckets, seen, heap, callerVars, due>>
        /\ jpc' \in {"wait", "sweep", "exited"} /\ cutoff' \in Int
    BY <1>5 DEF JanitorTick, JanitorStop, Close, callerVars, LimiterTypeOK
  <2>2. stopped' \in BOOLEAN
    BY <1>5, Zenon DEF JanitorTick, JanitorStop, Close, LimiterTypeOK
  <2>3. LimiterTypeOK'
    BY <2>1, <2>2, Zenon DEF LimiterTypeOK, callerVars
  <2>4. ClockOrder' /\ TickerOrder'
    BY <1>5 DEF JanitorTick, JanitorStop, Close, callerVars, ClockOrder, TickerOrder, LimiterTypeOK
  <2>. QED  BY <2>1, <2>3, <2>4, Zenon DEF callerVars
<1>6. CASE Tick
  <2>1. LimiterTypeOK'
    BY <1>6 DEF LimiterTypeOK, Tick, callerVars, janitorVars
  <2>2. ClockOrder' /\ TickerOrder'
    BY <1>6 DEF ClockOrder, TickerOrder, LimiterTypeOK, Tick, callerVars, janitorVars
  <2>3. \A b \in Buckets : heap'[b].last <= now'
    BY <1>6 DEF LimiterTypeOK, Tick
  <2>. QED  BY <1>6, <2>1, <2>2, <2>3, Zenon DEF Tick, callerVars
<1>. QED  BY <1>1, <1>2, <1>3, <1>4, <1>5, <1>6, Zenon DEF LimiterNext

\* It always holds.
LEMMA StalledInvariant == LimiterSpec => []StalledInv
<1>1. LimiterInit => StalledInv
  <2>1. LimiterInit => heap = [b \in Buckets |-> [tokens |-> 0, last |-> 0]] /\ now = 0
    BY Zenon DEF LimiterInit
  <2>2. LimiterInit => \A b \in Buckets : heap[b].last <= now
    BY <2>1
  <2>3. LimiterInit => cpc = [t \in Callers |-> "out"]
    BY Zenon DEF LimiterInit
  <2>. QED  BY <2>2, <2>3, LimiterInitInv, Zenon DEF LimiterInv, StalledInv
<1>. QED  BY <1>1, StalledStep, PTL DEF LimiterSpec

\* Every variable of the limiter has its type, however long a caller stalls:
\* no bucket is ever overdrawn or holds more than its burst, even one that the
\* janitor evicted between the lookup and the token.
THEOREM LimiterTypeCorrect == LimiterSpec => []LimiterTypeOK
<1>1. StalledInv => LimiterTypeOK
  BY Zenon DEF StalledInv
<1>. QED  BY <1>1, StalledInvariant, PTL

\* The janitor forgets every client within two periods and its own delay.
THEOREM IdleEvictedHolds == LimiterSpec => []IdleEvicted
<1>1. StalledInv => IdleEvicted
  BY LimiterAssumption DEF StalledInv, LimiterTypeOK, TickerOrder, IdleEvicted
<1>. QED  BY <1>1, StalledInvariant, PTL

\* Every step of the limiter is a step of RateBound or leaves it alone.
LEMMA LimiterStepRefines ==
  ASSUME IdleTTL >= Capacity + MaxStall
  PROVE  LimiterInv /\ [LimiterNext]_limiterVars => [Promise!RBNext]_<<levelNow, verdict>>
<1> SUFFICES ASSUME LimiterInv, [LimiterNext]_limiterVars
             PROVE  Promise!RBNext \/ (levelNow' = levelNow /\ verdict' = verdict)
  BY Zenon DEF levelNow
<1> USE LimiterAssumption, CapacityType DEF LimiterInv
<1>0. \A c \in Clients : buckets[c] # NoBucket =>
        /\ buckets[c] \in Buckets /\ Refilled(buckets[c]) \in 0..Capacity
        /\ heap[buckets[c]].tokens \in 0..Capacity /\ heap[buckets[c]].last \in 0..now
  BY RefilledType DEF LimiterTypeOK, RefillSeen
<1>1. CASE UNCHANGED limiterVars
  BY <1>1, Zenon DEF limiterVars, callerVars, levelNow, Refilled
<1>2. ASSUME NEW t \in Callers, NEW c \in Clients, Lookup(t, c)
      PROVE  Promise!RBAsk(t)
  <2>1. PICK b \in Buckets :
          \/ b = buckets[c] /\ UNCHANGED <<buckets, heap>>
          \/ /\ buckets[c] = NoBucket /\ Garbage(b)
             /\ buckets' = [buckets EXCEPT ![c] = b]
             /\ heap' = [heap EXCEPT ![b] = NewBucket]
    BY <1>2, Zenon DEF Lookup
  <2>2. now' = now /\ verdict' = [verdict EXCEPT ![t] = "none"]
    BY <1>2, Zenon DEF Lookup
  <2>3. CASE UNCHANGED <<buckets, heap>>
    BY <2>2, <2>3, Zenon DEF levelNow, Refilled, Promise!RBAsk
  <2>4. CASE /\ buckets[c] = NoBucket /\ Garbage(b)
             /\ buckets' = [buckets EXCEPT ![c] = b]
             /\ heap' = [heap EXCEPT ![b] = NewBucket]
    <3>1. \A d \in Clients \ {c} :
            buckets'[d] = buckets[d] /\ (buckets[d] # NoBucket => heap'[buckets[d]] = heap[buckets[d]])
      BY <2>4 DEF Garbage, LimiterTypeOK
    <3>2. buckets'[c] = b /\ b # NoBucket /\ heap'[b] = NewBucket
      BY <2>4, Zenon DEF LimiterTypeOK
    <3>3. Refilled(b)' = Capacity
      BY <2>2, <3>2 DEF Refilled, NewBucket, LimiterTypeOK
    <3>4. levelNow'[c] = levelNow[c]
      BY <2>4, <3>2, <3>3, Zenon DEF levelNow, Refilled
    <3>5. \A d \in Clients \ {c} : levelNow'[d] = levelNow[d]
      BY <2>2, <3>1, Zenon DEF levelNow, Refilled
    <3> QED
      BY <2>2, <3>4, <3>5, Zenon DEF Promise!RBAsk, levelNow
  <2> QED
    BY <2>1, <2>3, <2>4, Zenon
<1>3. ASSUME NEW t \in Callers, Allow(t)
      PROVE  Promise!RBAllow(t, client[t]) /\ client[t] \in Clients
  <2>0. PICK c \in Clients, b \in Buckets : c = client[t] /\ b = mine[t]
    BY <1>3, Zenon DEF Allow, CallerHolds, LimiterTypeOK
  <2>1. b = buckets[c] /\ b # NoBucket
    BY <1>3, <2>0, Zenon DEF Allow, CallerHolds, LimiterTypeOK
  <2>a. PICK left : left = IF Refilled(b) >= Unit THEN Refilled(b) - Unit ELSE Refilled(b)
    BY Zenon
  <2>2. levelNow[c] = Refilled(b) /\ Refilled(b) \in 0..Capacity
    BY <1>0, <2>1, Zenon DEF levelNow
  <2>3. now' = now /\ buckets' = buckets /\ heap'[b] = [tokens |-> left, last |-> now]
    BY <1>3, <2>0, <2>a, Zenon DEF Allow, LimiterTypeOK
  <2>4. levelNow'[c] = left
    <3>1. left \in 0..Capacity
      BY <2>2, <2>a
    <3>2. Refilled(b)' = left
      BY <2>3, <3>1 DEF Refilled, LimiterTypeOK
    <3> QED
      BY <2>1, <2>3, <3>2, Zenon DEF levelNow, Refilled
  <2>5. \A d \in Clients \ {c} : buckets[d] # NoBucket => heap'[buckets[d]] = heap[buckets[d]]
    BY <1>3, <2>0, <2>1, Zenon DEF Allow, OwnBucket, LimiterTypeOK
  <2>6. \A d \in Clients \ {c} : levelNow'[d] = levelNow[d]
    BY <2>3, <2>5, Zenon DEF levelNow, Refilled
  <2>7. verdict' = [verdict EXCEPT ![t] = IF levelNow[c] >= Unit THEN "allow" ELSE "deny"]
    BY <1>3, <2>0, <2>2, Zenon DEF Allow
  <2>8. levelNow' = [levelNow EXCEPT ![c] = IF @ >= Unit THEN @ - Unit ELSE @]
    BY <2>2, <2>a, <2>4, <2>6, Zenon DEF levelNow
  <2> QED
    BY <2>0, <2>7, <2>8, Zenon DEF Promise!RBAllow
<1>4. ASSUME JanitorSweep PROVE levelNow' = levelNow /\ verdict' = verdict
  <2>1. ASSUME NEW c \in Clients PROVE levelNow'[c] = levelNow[c]
    <3>1. CASE buckets[c] # NoBucket /\ seen[c] < cutoff
      <4>1. heap[buckets[c]].last <= seen[c] + MaxStall /\ seen[c] < now - IdleTTL
        BY <1>4, <3>1 DEF JanitorSweep, RefillSeen, ClockOrder, LimiterTypeOK
      <4>2. now - heap[buckets[c]].last >= Capacity
        BY <1>0, <3>1, <4>1 DEF LimiterTypeOK
      <4>3. Refilled(buckets[c]) = Capacity
        <5>1. PICK x \in Int : x = heap[buckets[c]].tokens + (now - heap[buckets[c]].last)
          BY <1>0, <3>1 DEF LimiterTypeOK
        <5>2. x >= Capacity
          BY <1>0, <3>1, <4>2, <5>1 DEF LimiterTypeOK
        <5>3. Refilled(buckets[c]) = IF x <= Capacity THEN x ELSE Capacity
          BY <5>1, Zenon DEF Refilled
        <5> QED
          BY <5>2, <5>3
      <4> QED
        BY <1>4, <3>1, <4>3, Zenon DEF JanitorSweep, levelNow
    <3>2. CASE ~(buckets[c] # NoBucket /\ seen[c] < cutoff)
      BY <1>4, <3>2, Zenon DEF JanitorSweep, levelNow, Refilled
    <3> QED
      BY <3>1, <3>2, Zenon
  <2> QED
    BY <1>4, <2>1, Zenon DEF JanitorSweep, callerVars, levelNow
<1>5. CASE JanitorTick \/ JanitorStop \/ Close
  BY <1>5, Zenon DEF JanitorTick, JanitorStop, Close, callerVars, levelNow, Refilled
<1>6. CASE Tick
  <2>1. now' = now + 1 /\ UNCHANGED <<buckets, heap, verdict>>
    BY <1>6, Zenon DEF Tick, callerVars
  <2>2. ASSUME NEW c \in Clients
        PROVE  levelNow'[c] = IF levelNow[c] + 1 <= Capacity THEN levelNow[c] + 1 ELSE Capacity
    <3>1. CASE buckets[c] = NoBucket
      BY <2>1, <3>1 DEF levelNow
    <3>2. CASE buckets[c] # NoBucket
      <4>1. PICK b \in Buckets : b = buckets[c] /\ b = buckets'[c] /\ b # NoBucket
        BY <1>0, <2>1, <3>2, Zenon
      <4>2. PICK m \in Int, l \in Int : m = heap[b].tokens /\ l = heap[b].last /\ heap' = heap
        BY <1>0, <2>1, <3>2, <4>1
      <4>3. Refilled(b) = IF m + (now - l) <= Capacity THEN m + (now - l) ELSE Capacity
        BY <4>2, Zenon DEF Refilled
      <4>4. Refilled(b)' = IF m + ((now + 1) - l) <= Capacity THEN m + ((now + 1) - l) ELSE Capacity
        BY <2>1, <4>2, Zenon DEF Refilled
      <4>5. levelNow[c] = Refilled(b) /\ levelNow'[c] = Refilled(b)'
        BY <2>1, <4>1, Zenon DEF levelNow, Refilled
      <4>6. now \in Int
        BY DEF LimiterTypeOK
      <4> QED
        BY <4>3, <4>4, <4>5, <4>6
    <3> QED
      BY <3>1, <3>2, Zenon
  <2> QED
    BY <2>1, <2>2, Zenon DEF Promise!RBNext, Promise!RBTick, levelNow
<1> QED
  BY <1>1, <1>2, <1>3, <1>4, <1>5, <1>6, Zenon DEF LimiterNext, Promise!RBNext

\* The limiter implements RateBound: evicting an idle bucket, and the gap
\* between the two locks of Allow, never change an answer, provided the idle
\* TTL is at least the time a bucket needs to fill plus the longest stall.
THEOREM LimiterImplementsRateBound ==
  ASSUME IdleTTL >= Capacity + MaxStall
  PROVE  LimiterSpec => ActsAsOneBucket
<1>1. IdleTTL >= MaxStall
  BY LimiterAssumption, CapacityType
<1>2. LimiterInit => Promise!RBInit
  BY Zenon DEF LimiterInit, Promise!RBInit, levelNow
<1>3. LimiterInv /\ [LimiterNext]_limiterVars => [Promise!RBNext]_<<levelNow, verdict>>
  BY LimiterStepRefines, Zenon
<1> QED
  BY <1>1, <1>2, <1>3, LimiterInvariant, PTL DEF LimiterSpec, ActsAsOneBucket, Promise!RBSpec
-----------------------------------------------------------------------------
(***************************************************************************)
(* What holds of the processors for any number of jobs, codes, retries and *)
(* failed calls.                                                           *)
(***************************************************************************)

\* A job is about to store a scan.
Storing(j) == ppc[j] = "store"

\* Who is about to store a scan of a code is alone and has set its key, and
\* the code has no scan in this window yet.
ScanInv ==
  /\ ppc \in [Jobs -> ProcessPC]
  /\ windowScans \in [Subjects -> 0..1]
  /\ \A s \in Subjects : windowScans[s] = 1 => s \in seenKey
  /\ \A j \in Jobs : Storing(j) => windowScans[SubjectOf[j]] = 0 /\ SubjectOf[j] \in seenKey
  /\ \A i, j \in Jobs : Storing(i) /\ Storing(j) /\ SubjectOf[i] = SubjectOf[j] => i = j

\* Where a step of job j leads to.
LEMMA MoveType ==
  ASSUME NEW j \in Jobs, NEW pc \in ProcessPC, ppc \in [Jobs -> ProcessPC], ppc' = [ppc EXCEPT ![j] = pc]
  PROVE  ppc' \in [Jobs -> ProcessPC] /\ ppc'[j] = pc /\ \A i \in Jobs \ {j} : ppc'[i] = ppc[i]
  BY Zenon

\* A step that neither stores a scan nor touches a key keeps the invariant.
LEMMA QuietScan ==
  ASSUME ScanInv, NEW j \in Jobs, NEW pc \in ProcessPC \ {"store"}, ppc' = [ppc EXCEPT ![j] = pc],
         UNCHANGED <<seenKey, windowScans>>
  PROVE  ScanInv'
<1>1. ppc' \in [Jobs -> ProcessPC] /\ ppc'[j] = pc /\ \A i \in Jobs \ {j} : ppc'[i] = ppc[i]
  BY MoveType, Zenon DEF ScanInv
<1>2. \A i \in Jobs : Storing(i)' => Storing(i)
  BY <1>1, Zenon DEF Storing
<1> QED
  BY <1>1, <1>2, Zenon DEF ScanInv

\* Begin never leads straight to the insert.
LEMMA FirstStepType == \A t \in JobTypes : FirstStep(t) \in ProcessPC \ {"store", "audit", "nil", "welcome", "recordSent"}
  BY Zenon DEF FirstStep, JobTypes, ProcessPC

\* Each job takes its own steps; only QRDedup leads to the insert.
LEMMA ScanStep == ScanInv /\ [ProcNext]_procVars => ScanInv'
<1> SUFFICES ASSUME ScanInv, [ProcNext]_procVars PROVE ScanInv'
  BY Zenon
<1> USE ProcessorsAssumption, StoresAssumption
<1>1. ASSUME NEW j \in Jobs, NEW body \in PayloadsOf[j], Accept(j, body) PROVE ScanInv'
  <2>1. \E pc \in ProcessPC \ {"store"} : ppc' = [ppc EXCEPT ![j] = pc]
    BY <1>1, Zenon DEF Accept, ProcessPC
  <2> QED
    BY <1>1, <2>1, QuietScan, Zenon DEF Accept, effectVars
<1>2. ASSUME NEW j \in Jobs, Begin(j) PROVE ScanInv'
  <2>1. \E pc \in ProcessPC \ {"store"} : ppc' = [ppc EXCEPT ![j] = pc]
    BY <1>2, FirstStepType, Zenon DEF Begin, ProcessPC
  <2> QED
    BY <1>2, <2>1, QuietScan, Zenon DEF Begin, effectVars
<1>3. ASSUME NEW j \in Jobs, QRDedup(j) PROVE ScanInv'
  <2>1. CASE SubjectOf[j] \in seenKey
    <3>1. \E pc \in ProcessPC \ {"store"} : ppc' = [ppc EXCEPT ![j] = pc]
      BY <1>3, <2>1, Zenon DEF QRDedup, Try, ProcessPC
    <3>2. UNCHANGED <<seenKey, windowScans>>
      BY <1>3, <2>1, Zenon DEF QRDedup, Try
    <3> QED
      BY <3>1, <3>2, QuietScan, Zenon
  <2>2. CASE SubjectOf[j] \notin seenKey
    <3>1. \/ ppc' = [ppc EXCEPT ![j] = "store"] /\ seenKey' = seenKey \cup {SubjectOf[j]}
          \/ ppc' = [ppc EXCEPT ![j] = "retryable"] /\ seenKey' \in {seenKey, seenKey \cup {SubjectOf[j]}}
      BY <1>3, <2>2, Zenon DEF QRDedup, Try
    <3>2. UNCHANGED windowScans
      BY <1>3, Zenon DEF QRDedup
    <3>3. SubjectOf[j] \in Subjects /\ windowScans[SubjectOf[j]] = 0
      BY <2>2 DEF ScanInv
    <3>4. \A i \in Jobs : Storing(i) => SubjectOf[i] # SubjectOf[j]
      BY <2>2, Zenon DEF ScanInv
    <3>5. /\ ppc' \in [Jobs -> ProcessPC]
          /\ \A i \in Jobs \ {j} : ppc'[i] = ppc[i]
          /\ Storing(j)' => SubjectOf[j] \in seenKey'
          /\ seenKey \subseteq seenKey'
      BY <3>1, MoveType, Zenon DEF ScanInv, ProcessPC, Storing
    <3> QED
      BY <3>2, <3>3, <3>4, <3>5, Zenon DEF ScanInv, Storing
  <2> QED
    BY <2>1, <2>2, Zenon
<1>4. ASSUME NEW j \in Jobs, QRStore(j) PROVE ScanInv'
  <2> DEFINE s == SubjectOf[j]
  <2>1. Storing(j) /\ s \in Subjects /\ UNCHANGED seenKey
    BY <1>4, Zenon DEF QRStore, Try, Storing
  <2>2. windowScans' = windowScans \/ windowScans' = [windowScans EXCEPT ![s] = @ + 1]
    BY <1>4, Zenon DEF QRStore, Try, Bump
  <2>3. \E pc \in ProcessPC \ {"store"} : ppc' = [ppc EXCEPT ![j] = pc]
    BY <1>4, Zenon DEF QRStore, Try, ProcessPC
  <2>4. /\ ppc' \in [Jobs -> ProcessPC]
        /\ \A i \in Jobs : Storing(i)' => Storing(i) /\ i # j
    BY <2>3, MoveType, Zenon DEF ScanInv, Storing
  <2>5. \A i \in Jobs : Storing(i)' => SubjectOf[i] # s
    BY <2>1, <2>4, Zenon DEF ScanInv
  <2>6. windowScans[s] = 0 /\ s \in seenKey
    BY <2>1, Zenon DEF ScanInv
  <2>7. windowScans' \in [Subjects -> 0..1] /\ \A x \in Subjects \ {s} : windowScans'[x] = windowScans[x]
    BY <2>1, <2>2, <2>6 DEF ScanInv
  <2> QED
    BY <2>1, <2>4, <2>5, <2>6, <2>7, Zenon DEF ScanInv
<1>5. ASSUME NEW j \in Jobs,
             \/ QRIncr(j) \/ PaymentUpsert(j) \/ RegistrationCreate(j) \/ RegistrationWelcome(j)
             \/ NotificationSend(j) \/ NotificationRecord(j)
      PROVE  ScanInv'
  <2>1. UNCHANGED <<seenKey, windowScans>>
    BY <1>5, Zenon DEF QRIncr, PaymentUpsert, RegistrationCreate, RegistrationWelcome, NotificationSend, NotificationRecord
  <2>2. \E pc \in ProcessPC \ {"store"} : ppc' = [ppc EXCEPT ![j] = pc]
    BY <1>5, Zenon DEF QRIncr, PaymentUpsert, RegistrationCreate, RegistrationWelcome, NotificationSend,
                NotificationRecord, Try, ProcessPC
  <2> QED
    BY <2>1, <2>2, QuietScan, Zenon
<1>6. ASSUME NEW j \in Jobs, Audit(j) \/ Finish(j) \/ Mark(j) \/ Requeue(j) \/ RequeueAgain(j) PROVE ScanInv'
  <2>1. UNCHANGED <<seenKey, windowScans>>
    BY <1>6, Zenon DEF Audit, Finish, Record, Mark, Requeue, RequeueAgain, effectVars
  <2>2. \E pc \in ProcessPC \ {"store"} : ppc' = [ppc EXCEPT ![j] = pc]
    BY <1>6, Zenon DEF Audit, Finish, Record, Mark, Requeue, RequeueAgain, Try, ProcessPC
  <2> QED
    BY <2>1, <2>2, QuietScan, Zenon
<1>7. ASSUME NEW s \in Subjects, DedupExpire(s) PROVE ScanInv'
  <2>1. \A i \in Jobs : Storing(i) => SubjectOf[i] # s
    BY <1>7, Zenon DEF DedupExpire, Storing
  <2>2. windowScans' = [windowScans EXCEPT ![s] = 0] /\ seenKey' = seenKey \ {s} /\ UNCHANGED ppc
    BY <1>7, Zenon DEF DedupExpire
  <2> QED
    BY <2>1, <2>2 DEF ScanInv, Storing
<1>8. CASE UNCHANGED procVars \/ Cancel \/ Restart \/ \E j \in Jobs : Skip(j)
  BY <1>8, Zenon DEF procVars, effectVars, Cancel, Restart, Skip, ScanInv, Storing
<1> QED
  BY <1>1, <1>2, <1>3, <1>4, <1>5, <1>6, <1>7, <1>8, Zenon DEF ProcNext, RunCopy, Process

\* qrscan_processor.go: within one dedup window a code is stored at most
\* once, for any number of jobs that carry it, retries and failed calls.
THEOREM OneScanPerWindowHolds == ProcSpec => []OneScanPerWindow
<1>1. ProcInit => ScanInv
  BY ProcessorsAssumption DEF ProcInit, ScanInv, Storing, ProcessPC
<1>2. ScanInv => OneScanPerWindow
  <2>1. \A n \in 0..1 : n <= 1
    OBVIOUS
  <2>. QED  BY <2>1, Zenon DEF ScanInv, OneScanPerWindow
<1> QED
  BY <1>1, <1>2, ScanStep, PTL DEF ProcSpec

-----------------------------------------------------------------------------
(***************************************************************************)
(* What a run leaves behind, by the place it has reached.                  *)
(***************************************************************************)
StageOf(pc) ==
  CASE pc \in {"dedup", "store", "incr"} -> {"QR_SCAN"}
    [] pc = "upsert" -> {"PAYMENT_WEBHOOK"}
    [] pc \in {"create", "welcome"} -> {"REGISTRATION"}
    [] pc \in {"send", "recordSent", "recordFailed"} -> {"NOTIFICATION"}
    [] OTHER -> JobTypes

\* The effect SuccessHasEffect asks for.
HasEffect(j) ==
  /\ TypeOf[j] = "PAYMENT_WEBHOOK" => payments[SubjectOf[j]] # NoStatus
  /\ TypeOf[j] = "REGISTRATION" => regs[j] >= 1
  /\ TypeOf[j] = "NOTIFICATION" => sent[j] >= 1 /\ notes[j] >= 1

\* A run is made of the calls of its type, and past a call that succeeded
\* its effect is there.
Shape(j) ==
  /\ TypeOf[j] \in StageOf(ppc[j])
  /\ ppc[j] \notin {"new", "rejected"} => validatePayload(TypeOf[j], payload[j])
  /\ ppc[j] = "nonRetryable" => ~Processable(TypeOf[j], payload[j])
  /\ ppc[j] = "welcome" => regs[j] >= 1
  /\ ppc[j] = "recordSent" => sent[j] >= 1
  /\ ppc[j] \in {"audit", "nil"} \/ row[j].status = "SUCCESS" => HasEffect(j)
  /\ TypeOf[j] # "REGISTRATION" => regs[j] = 0 /\ welcomes[j] = 0
  /\ TypeOf[j] # "NOTIFICATION" => sent[j] = 0

\* The runs of a job that may still make a row, enqueue a welcome or send a
\* message are its n copies and the run in progress at one of these places.
RowAt == {"new", "create", "retryable", "push", "pushAgain"}
WelcomeAt == RowAt \cup {"welcome"}
SendAt == {"new", "send", "recordFailed", "retryable", "push", "pushAgain"}

At(pc, ps) == IF pc \in ps THEN 1 ELSE 0

\* What a job has left and may still leave is paid for by f failed calls and c
\* shutdowns.  While the context is cancelled, a call whose effect a later run
\* would repeat is still in hand: the shutdown has been counted and has cost
\* nothing yet.
RowOK(pc, n, r, w, f, c, l) ==
  /\ n \in Nat /\ r \in Nat /\ w \in Nat /\ f \in Nat /\ c \in Nat /\ l \in BOOLEAN
  /\ r + n + At(pc, RowAt) <= 1 + f + c
  /\ ~l /\ pc = "create" => r + n + At(pc, RowAt) <= f + c
  /\ w + n + At(pc, WelcomeAt) <= 1 + f

SendOK(pc, n, m, f, c, l) ==
  /\ n \in Nat /\ m \in Nat /\ f \in Nat /\ c \in Nat /\ l \in BOOLEAN
  /\ m + n + At(pc, SendAt) <= 1 + f + c
  /\ ~l /\ pc \in {"send", "recordSent"} => m + n + At(pc, SendAt) <= f + c

RowBound(j) ==
  TypeOf[j] = "REGISTRATION" => RowOK(ppc[j], Len(copies[j]), regs[j], welcomes[j], faults, shutdowns, live)

SendBound(j) ==
  TypeOf[j] = "NOTIFICATION" => SendOK(ppc[j], Len(copies[j]), sent[j], faults, shutdowns, live)

RunInv(j) == Shape(j) /\ RowBound(j) /\ SendBound(j)

EffectType ==
  /\ ppc \in [Jobs -> ProcessPC]
  /\ copies \in [Jobs -> Seq(Int)] /\ cur \in [Jobs -> Int]
  /\ payload \in [Jobs -> Payload]
  /\ row \in [Jobs -> [status : JobStatus \cup {"absent"}, retry : Int]]
  /\ payments \in [Subjects -> Jobs \cup {NoStatus}]
  /\ regs \in [Jobs -> Nat] /\ welcomes \in [Jobs -> Nat]
  /\ sent \in [Jobs -> Nat] /\ notes \in [Jobs -> Nat]
  /\ faults \in Nat /\ shutdowns \in Nat /\ live \in BOOLEAN

EffectInv == EffectType /\ \A j \in Jobs : RunInv(j)

\* What the other jobs have left is not touched by a step of job j.
Frame(j) ==
  /\ UNCHANGED <<live, shutdowns>>
  /\ faults' \in Nat /\ faults <= faults'
  /\ \A s \in Subjects : payments[s] # NoStatus => payments'[s] # NoStatus
  /\ \A i \in Jobs \ {j} : /\ ppc'[i] = ppc[i] /\ copies'[i] = copies[i] /\ payload'[i] = payload[i]
                            /\ row'[i] = row[i] /\ regs'[i] = regs[i] /\ welcomes'[i] = welcomes[i]
                            /\ sent'[i] = sent[i] /\ notes'[i] = notes[i]

\* The places a run goes through at its end.
Ends(p, q) ==
  \/ p = "audit" /\ q = "nil"
  \/ p = "mark" /\ q = "idle"
  \/ p \in {"nil", "retryable", "nonRetryable"} /\ q = "mark"
  \/ p = "retryable" /\ q = "push"

\* How each kind of step keeps the two bounds: more failed calls, ...
LEMMA RowGrows ==
  ASSUME NEW n, NEW r, NEW w, NEW f, NEW c, NEW l, NEW p, NEW g \in Nat, f <= g,
         RowOK(p, n, r, w, f, c, l)
  PROVE  RowOK(p, n, r, w, g, c, l)
BY DEF RowOK, At, RowAt, WelcomeAt

LEMMA SendGrows ==
  ASSUME NEW n, NEW m, NEW f, NEW c, NEW l, NEW p, NEW g \in Nat, f <= g,
         SendOK(p, n, m, f, c, l)
  PROVE  SendOK(p, n, m, g, c, l)
BY DEF SendOK, At, SendAt

\* ... a job that is accepted, ...
LEMMA RowAccept ==
  ASSUME NEW n, NEW r, NEW w, NEW f, NEW c, NEW l,
         RowOK("new", n, r, w, f, c, l)
  PROVE  /\ RowOK("idle", 1, r, w, f, c, l)
         /\ RowOK("rejected", n, r, w, f, c, l)
BY DEF RowOK, At, RowAt, WelcomeAt

LEMMA SendAccept ==
  ASSUME NEW n, NEW m, NEW f, NEW c, NEW l,
         SendOK("new", n, m, f, c, l)
  PROVE  /\ SendOK("idle", 1, m, f, c, l)
         /\ SendOK("rejected", n, m, f, c, l)
BY DEF SendOK, At, SendAt

\* ... a copy that is dropped, ...
LEMMA RowSkip ==
  ASSUME NEW n, NEW r, NEW w, NEW f, NEW c, NEW l, NEW p, NEW g \in {f, f + 1}, n - 1 \in Nat,
         RowOK(p, n, r, w, f, c, l)
  PROVE  RowOK(p, n - 1, r, w, g, c, l)
BY DEF RowOK, At, RowAt, WelcomeAt

LEMMA SendSkip ==
  ASSUME NEW n, NEW m, NEW f, NEW c, NEW l, NEW p, NEW g \in {f, f + 1}, n - 1 \in Nat,
         SendOK(p, n, m, f, c, l)
  PROVE  SendOK(p, n - 1, m, g, c, l)
BY DEF SendOK, At, SendAt

\* ... a run that begins, ...
LEMMA RowBegin ==
  ASSUME NEW n, NEW r, NEW w, NEW f, NEW c, NEW l, NEW q, RowOK("idle", n, r, w, f, c, l),
         q \in {"dedup", "upsert", "create", "send", "nonRetryable"}, n - 1 \in Nat, l
  PROVE  RowOK(q, n - 1, r, w, f, c, l)
BY DEF RowOK, At, RowAt, WelcomeAt

LEMMA SendBegin ==
  ASSUME NEW n, NEW m, NEW f, NEW c, NEW l, NEW q, SendOK("idle", n, m, f, c, l),
         q \in {"dedup", "upsert", "create", "send", "nonRetryable"}, n - 1 \in Nat, l
  PROVE  SendOK(q, n - 1, m, f, c, l)
BY DEF SendOK, At, SendAt

\* ... the calls of a registration, ...
LEMMA RowCreate ==
  ASSUME NEW n, NEW r, NEW w, NEW f, NEW c, NEW l,
         RowOK("create", n, r, w, f, c, l)
  PROVE  /\ RowOK("welcome", n, r + 1, w, f, c, l)
         /\ \A q \in {r, r + 1} : /\ RowOK("retryable", n, q, w, f + 1, c, l)
                                  /\ ~l => RowOK("retryable", n, q, w, f, c, l)
BY DEF RowOK, At, RowAt, WelcomeAt

LEMMA RowWelcome ==
  ASSUME NEW n, NEW r, NEW w, NEW f, NEW c, NEW l,
         RowOK("welcome", n, r, w, f, c, l)
  PROVE  \A x \in {w, w + 1}, g \in {f, f + 1} : RowOK("audit", n, r, x, g, c, l)
BY DEF RowOK, At, RowAt, WelcomeAt

\* ... and of a notification, ...
LEMMA SendOff ==
  ASSUME NEW n, NEW m, NEW f, NEW c, NEW l,
         SendOK("send", n, m, f, c, l)
  PROVE  /\ l => SendOK("recordSent", n, m + 1, f, c, l)
         /\ \A q \in {m, m + 1} : /\ SendOK("recordFailed", n, q, f + 1, c, l)
                                  /\ ~l => SendOK("recordFailed", n, q, f, c, l)
BY DEF SendOK, At, SendAt

LEMMA SendRecorded ==
  ASSUME NEW n, NEW m, NEW f, NEW c, NEW l,
         SendOK("recordSent", n, m, f, c, l)
  PROVE  /\ SendOK("audit", n, m, f, c, l) /\ SendOK("retryable", n, m, f + 1, c, l)
         /\ ~l => SendOK("retryable", n, m, f, c, l)
BY DEF SendOK, At, SendAt

LEMMA SendFailed ==
  ASSUME NEW n, NEW m, NEW f, NEW c, NEW l,
         SendOK("recordFailed", n, m, f, c, l)
  PROVE  \A g \in {f, f + 1} : SendOK("retryable", n, m, g, c, l)
BY DEF SendOK, At, SendAt

\* ... a run that ends, ...
LEMMA RowEnd ==
  ASSUME NEW n, NEW r, NEW w, NEW f, NEW c, NEW l, NEW p, NEW q, NEW g \in {f, f + 1}, Ends(p, q),
         RowOK(p, n, r, w, f, c, l)
  PROVE  RowOK(q, n, r, w, g, c, l)
BY DEF Ends, RowOK, At, RowAt, WelcomeAt

LEMMA SendEnd ==
  ASSUME NEW n, NEW m, NEW f, NEW c, NEW l, NEW p, NEW q, NEW g \in {f, f + 1}, Ends(p, q),
         SendOK(p, n, m, f, c, l)
  PROVE  SendOK(q, n, m, g, c, l)
BY DEF Ends, SendOK, At, SendAt

\* ... a copy that is pushed once or twice, ...
LEMMA RowPushed ==
  ASSUME NEW n, NEW r, NEW w, NEW f, NEW c, NEW l, NEW p, NEW k, NEW g, RowOK(p, n, r, w, f, c, l),
         p \in {"push", "pushAgain"}, k \in {n, n + 1}, g \in {f, f + 1}
  PROVE  /\ RowOK("idle", k, r, w, g, c, l)
         /\ RowOK("pushAgain", k, r, w, f + 1, c, l)
         /\ RowOK("pushAgain", n, r, w, f, c, l)
BY DEF RowOK, At, RowAt, WelcomeAt

LEMMA SendPushed ==
  ASSUME NEW n, NEW m, NEW f, NEW c, NEW l, NEW p, NEW k, NEW g, SendOK(p, n, m, f, c, l),
         p \in {"push", "pushAgain"}, k \in {n, n + 1}, g \in {f, f + 1}
  PROVE  /\ SendOK("idle", k, m, g, c, l)
         /\ SendOK("pushAgain", k, m, f + 1, c, l)
         /\ SendOK("pushAgain", n, m, f, c, l)
BY DEF SendOK, At, SendAt

\* ... a shutdown and a new start.
LEMMA RowShut ==
  ASSUME NEW n, NEW r, NEW w, NEW f, NEW c, NEW l, NEW p,
         RowOK(p, n, r, w, f, c, l)
  PROVE  /\ RowOK(p, n, r, w, f, c + 1, FALSE)
         /\ RowOK(p, n, r, w, f, c, TRUE)
BY DEF RowOK, At, RowAt, WelcomeAt

LEMMA SendShut ==
  ASSUME NEW n, NEW m, NEW f, NEW c, NEW l, NEW p,
         SendOK(p, n, m, f, c, l)
  PROVE  /\ SendOK(p, n, m, f, c + 1, FALSE)
         /\ SendOK(p, n, m, f, c, TRUE)
BY DEF SendOK, At, SendAt

\* What they bound.
LEMMA RowPaid ==
  ASSUME NEW n, NEW r, NEW w, NEW f, NEW c, NEW l, NEW p,
         RowOK(p, n, r, w, f, c, l)
  PROVE  /\ r <= 1 + f + c
         /\ w <= 1 + f
BY DEF RowOK, At, RowAt, WelcomeAt

LEMMA SendPaid ==
  ASSUME NEW n, NEW m, NEW f, NEW c, NEW l, NEW p,
         SendOK(p, n, m, f, c, l)
  PROVE  m <= 1 + f + c
BY DEF SendOK, At, SendAt

\* What is left of a sequence without its head.
LEMMA TailType ==
  ASSUME NEW S, NEW q \in Seq(S), q # <<>>
  PROVE  /\ Tail(q) \in Seq(S) /\ Head(q) \in S
         /\ Len(Tail(q)) = Len(q) - 1 /\ Len(q) - 1 \in Nat
  OBVIOUS

\* The number of copies is a number.
LEMMA CopiesType ==
  ASSUME EffectType, NEW j \in Jobs
  PROVE  copies[j] \in Seq(Int) /\ Len(copies[j]) \in Nat
<1>1. copies[j] \in Seq(Int)
  BY Zenon DEF EffectType
<1>. QED  BY <1>1

\* So the invariant is a matter of the job that takes the step.
LEMMA OthersKeep ==
  ASSUME EffectInv, NEW j \in Jobs, EffectType', Frame(j), RunInv(j)'
  PROVE  EffectInv'
<1> SUFFICES ASSUME NEW i \in Jobs, i # j PROVE RunInv(i)'
  BY Zenon DEF EffectInv
<1>1. /\ RunInv(i) /\ SubjectOf[i] \in Subjects
      /\ regs[i] \in Nat /\ sent[i] \in Nat /\ welcomes[i] \in Nat /\ notes[i] \in Nat
      /\ faults \in Nat /\ shutdowns \in Nat
  BY ProcessorsAssumption, Zenon DEF EffectInv, EffectType
<1>2. HasEffect(i) => HasEffect(i)'
  BY <1>1, Zenon DEF Frame, HasEffect
<1>3. /\ ppc'[i] = ppc[i] /\ copies'[i] = copies[i] /\ row'[i] = row[i] /\ payload'[i] = payload[i]
      /\ faults' \in Nat /\ faults <= faults' /\ live' = live /\ shutdowns' = shutdowns
      /\ regs'[i] = regs[i] /\ welcomes'[i] = welcomes[i] /\ sent'[i] = sent[i]
  BY Zenon DEF Frame
<1>4. Shape(i)'
  BY <1>1, <1>2, <1>3, Zenon DEF RunInv, Shape
<1>5. Len(copies[i]) \in Nat /\ live \in BOOLEAN
  BY CopiesType, Zenon DEF EffectInv, EffectType
<1>6. RowBound(i)' /\ SendBound(i)'
  <2>1. /\ RowOK(ppc[i], Len(copies[i]), regs[i], welcomes[i], faults, shutdowns, live) =>
             RowOK(ppc[i], Len(copies[i]), regs[i], welcomes[i], faults', shutdowns, live)
        /\ SendOK(ppc[i], Len(copies[i]), sent[i], faults, shutdowns, live) =>
             SendOK(ppc[i], Len(copies[i]), sent[i], faults', shutdowns, live)
    BY <1>3, RowGrows, SendGrows, Zenon
  <2>2. RowBound(i) /\ SendBound(i)
    BY <1>1, Zenon DEF RunInv
  <2>. QED  BY <1>3, <2>1, <2>2, Zenon DEF RowBound, SendBound
<1> QED
  BY <1>4, <1>6, Zenon DEF RunInv

\* A call that fails is counted, unless the context is cancelled.
LEMMA CallCounts ==
  ASSUME NEW store, NEW l \in BOOLEAN, NEW ok \in BOOLEAN, Call(store, l, ok)
  PROVE  \/ ok /\ l /\ faults' = faults
         \/ ~ok /\ l /\ faults' = faults + 1
         \/ ~ok /\ ~l /\ faults' = faults
  BY Zenon DEF Call

\* The type of a job's count that goes up.
LEMMA BumpType ==
  ASSUME NEW g \in [Jobs -> Nat], NEW h, NEW j \in Jobs, h = g \/ h = [g EXCEPT ![j] = @ + 1]
  PROVE  h \in [Jobs -> Nat] /\ h[j] \in {g[j], g[j] + 1} /\ g[j] \in Nat /\ \A i \in Jobs \ {j} : h[i] = g[i]
OBVIOUS

\* What a call of a processor may do: its job moves on, and one thing that
\* the job leaves behind may be added to.
LEMMA CallFrame ==
  ASSUME EffectType, NEW j \in Jobs, NEW pc \in ProcessPC, ppc' = [ppc EXCEPT ![j] = pc],
         faults' \in {faults, faults + 1}, UNCHANGED <<row, payload, copies, cur, live, shutdowns>>,
         payments' \in {payments, [payments EXCEPT ![SubjectOf[j]] = j]},
         regs' \in {regs, [regs EXCEPT ![j] = @ + 1]}, welcomes' \in {welcomes, [welcomes EXCEPT ![j] = @ + 1]},
         sent' \in {sent, [sent EXCEPT ![j] = @ + 1]}, notes' \in {notes, [notes EXCEPT ![j] = @ + 1]}
  PROVE  EffectType' /\ Frame(j) /\ ppc'[j] = pc
<1>1. ppc' \in [Jobs -> ProcessPC] /\ ppc'[j] = pc /\ \A i \in Jobs \ {j} : ppc'[i] = ppc[i]
  BY MoveType, Zenon DEF EffectType
<1>2. faults' \in Nat /\ faults <= faults'
  <2>1. faults \in Nat
    BY Zenon DEF EffectType
  <2>. QED  BY <2>1
<1>3. /\ regs' \in [Jobs -> Nat] /\ welcomes' \in [Jobs -> Nat]
      /\ sent' \in [Jobs -> Nat] /\ notes' \in [Jobs -> Nat]
      /\ \A i \in Jobs \ {j} : regs'[i] = regs[i] /\ welcomes'[i] = welcomes[i] /\ sent'[i] = sent[i] /\ notes'[i] = notes[i]
  <2>0. /\ regs \in [Jobs -> Nat] /\ welcomes \in [Jobs -> Nat]
        /\ sent \in [Jobs -> Nat] /\ notes \in [Jobs -> Nat]
    BY Zenon DEF EffectType
  <2>1. regs' \in [Jobs -> Nat] /\ \A i \in Jobs \ {j} : regs'[i] = regs[i]
    BY <2>0, BumpType, Zenon
  <2>2. welcomes' \in [Jobs -> Nat] /\ \A i \in Jobs \ {j} : welcomes'[i] = welcomes[i]
    BY <2>0, BumpType, Zenon
  <2>3. sent' \in [Jobs -> Nat] /\ \A i \in Jobs \ {j} : sent'[i] = sent[i]
    BY <2>0, BumpType, Zenon
  <2>4. notes' \in [Jobs -> Nat] /\ \A i \in Jobs \ {j} : notes'[i] = notes[i]
    BY <2>0, BumpType, Zenon
  <2>. QED  BY <2>1, <2>2, <2>3, <2>4, Zenon
<1>4. /\ payments' \in [Subjects -> Jobs \cup {NoStatus}]
      /\ \A s \in Subjects : payments[s] # NoStatus => payments'[s] # NoStatus
  <2>1. payments \in [Subjects -> Jobs \cup {NoStatus}] /\ NoStatus \notin Jobs
    BY ProcessorsAssumption, Zenon DEF EffectType
  <2>. QED  BY <2>1, Zenon
<1>5. EffectType'
  BY <1>1, <1>2, <1>3, <1>4, Zenon DEF EffectType
<1>. QED  BY <1>1, <1>2, <1>3, <1>4, <1>5, Zenon DEF Frame

\* One step per call of a processor.
LEMMA EffectStep == EffectInv /\ [ProcNext]_procVars => EffectInv'
<1> SUFFICES ASSUME EffectInv, [ProcNext]_procVars PROVE EffectInv'
  BY Zenon
<1>0. /\ EffectType /\ faults \in Nat /\ shutdowns \in Nat /\ live \in BOOLEAN
      /\ \A j \in Jobs : /\ Shape(j) /\ RowBound(j) /\ SendBound(j)
                         /\ TypeOf[j] \in JobTypes /\ SubjectOf[j] \in Subjects
                         /\ ppc[j] \in ProcessPC /\ regs[j] \in Nat /\ welcomes[j] \in Nat
                         /\ sent[j] \in Nat /\ notes[j] \in Nat /\ Len(copies[j]) \in Nat
  BY CopiesType, ProcessorsAssumption, StoresAssumption, Zenon DEF EffectInv, EffectType, RunInv
<1>1. ASSUME NEW j \in Jobs, NEW body \in PayloadsOf[j], Accept(j, body) PROVE EffectInv'
  <2>1. /\ ppc[j] = "new"
        /\ \/ /\ ppc' = [ppc EXCEPT ![j] = "idle"] /\ validatePayload(TypeOf[j], body)
              /\ row' = [row EXCEPT ![j] = [status |-> "QUEUED", retry |-> 0]]
              /\ payload' = [payload EXCEPT ![j] = body] /\ copies' = [copies EXCEPT ![j] = <<0>>]
           \/ ppc' = [ppc EXCEPT ![j] = "rejected"] /\ UNCHANGED <<row, payload, copies>>
        /\ UNCHANGED <<cur, live, shutdowns, faults, payments, regs, welcomes, sent, notes>>
    BY <1>1, Zenon DEF Accept, Create, NewJob, lifeVars, effectVars
  <2>2. EffectType'
    <3>1. ppc' \in [Jobs -> ProcessPC]
      BY <1>0, <2>1, Zenon DEF EffectType, ProcessPC
    <3>2. row' \in [Jobs -> [status : JobStatus \cup {"absent"}, retry : Int]]
      <4>1. [status |-> "QUEUED", retry |-> 0] \in [status : JobStatus \cup {"absent"}, retry : Int]
        BY DEF JobStatus
      <4>2. row \in [Jobs -> [status : JobStatus \cup {"absent"}, retry : Int]]
        BY <1>0, Zenon DEF EffectType
      <4>3. row' = row \/ row' = [row EXCEPT ![j] = [status |-> "QUEUED", retry |-> 0]]
        BY <2>1, Zenon
      <4>4. CASE row' = [row EXCEPT ![j] = [status |-> "QUEUED", retry |-> 0]]
        <5>. DEFINE T == [status : JobStatus \cup {"absent"}, retry : Int]
                    r == [status |-> "QUEUED", retry |-> 0]
        <5>1. row \in [Jobs -> T] /\ r \in T /\ row' = [row EXCEPT ![j] = r]
          BY <4>1, <4>2, <4>4, Zenon
        <5>2. row' \in [Jobs -> T]
          <6>. HIDE DEF T, r
          <6>. QED  BY <5>1, Zenon
        <5>. QED  BY <5>2, Zenon
      <4>. QED  BY <4>2, <4>3, <4>4, Zenon
    <3>3. body \in Payload
      BY ProcessorsAssumption, Zenon
    <3>4. payload' \in [Jobs -> Payload]
      <4>1. payload \in [Jobs -> Payload]
        BY <1>0, Zenon DEF EffectType
      <4>2. payload' = payload \/ payload' = [payload EXCEPT ![j] = body]
        BY <2>1, Zenon
      <4>. QED  BY <3>3, <4>1, <4>2, Zenon
    <3>5. copies' \in [Jobs -> Seq(Int)]
      <4>0. <<0>> \in Seq(Int)
        OBVIOUS
      <4>1. PICK q : q = <<0>> /\ q \in Seq(Int)
        BY <4>0, Zenon
      <4>2. copies \in [Jobs -> Seq(Int)]
        BY <1>0, Zenon DEF EffectType
      <4>3. copies' = copies \/ copies' = [copies EXCEPT ![j] = q]
        BY <2>1, <4>1, Zenon
      <4>. QED  BY <4>1, <4>2, <4>3, Zenon
    <3> QED
      BY <1>0, <2>1, <3>1, <3>2, <3>4, <3>5, Zenon DEF EffectType
  <2>3. Frame(j)
    <3>1. faults <= faults
      BY <1>0
    <3>. QED  BY <1>0, <2>1, <3>1, Zenon DEF EffectType, Frame
  <2>4. \/ /\ ppc'[j] = "idle" /\ validatePayload(TypeOf[j], payload'[j])
           /\ row'[j].status = "QUEUED" /\ copies'[j] = <<0>>
        \/ ppc'[j] = "rejected" /\ row' = row /\ copies' = copies
    <3>1. [status |-> "QUEUED", retry |-> 0].status = "QUEUED"
      OBVIOUS
    <3>. QED  BY <1>0, <2>1, <3>1, Zenon DEF EffectType
  <2>5. Shape(j)'
    BY <1>0, <2>1, <2>4, Zenon DEF Shape, StageOf, HasEffect
  <2>6. RowBound(j)' /\ SendBound(j)'
    <3>1. /\ Len(copies[j]) \in Nat /\ regs[j] \in Nat /\ welcomes[j] \in Nat /\ sent[j] \in Nat
          /\ RowBound(j) /\ SendBound(j) /\ faults \in Nat /\ shutdowns \in Nat /\ live \in BOOLEAN
      BY <1>0, Zenon
    <3>2. Len(<<0>>) = 1
      OBVIOUS
    <3>3. RowOK("new", Len(copies[j]), regs[j], welcomes[j], faults, shutdowns, live) =>
            RowOK("idle", 1, regs[j], welcomes[j], faults, shutdowns, live) /\ RowOK("rejected", Len(copies[j]), regs[j], welcomes[j], faults, shutdowns, live)
      BY <3>1, RowAccept, Zenon
    <3>4. SendOK("new", Len(copies[j]), sent[j], faults, shutdowns, live) =>
            SendOK("idle", 1, sent[j], faults, shutdowns, live) /\ SendOK("rejected", Len(copies[j]), sent[j], faults, shutdowns, live)
      BY <3>1, SendAccept, Zenon
    <3>5. CASE ppc'[j] = "idle" /\ copies'[j] = <<0>>
      BY <2>1, <3>1, <3>2, <3>3, <3>4, <3>5, Zenon DEF RowBound, SendBound
    <3>6. CASE ppc'[j] = "rejected" /\ copies' = copies
      BY <2>1, <3>1, <3>3, <3>4, <3>6, Zenon DEF RowBound, SendBound
    <3>. QED  BY <2>4, <3>5, <3>6, Zenon
  <2> QED
    BY <2>2, <2>3, <2>5, <2>6, OthersKeep, Zenon DEF RunInv
<1>2. ASSUME NEW j \in Jobs, Begin(j) PROVE EffectInv'
  <2>1. /\ live /\ ppc[j] = "idle" /\ copies[j] # <<>>
        /\ copies' = [copies EXCEPT ![j] = Tail(@)] /\ cur' = [cur EXCEPT ![j] = Head(copies[j])]
        /\ ppc' = [ppc EXCEPT ![j] = IF Processable(TypeOf[j], payload[j]) THEN FirstStep(TypeOf[j]) ELSE "nonRetryable"]
        /\ UNCHANGED <<row, payload, live, shutdowns, faults, payments, regs, welcomes, sent, notes>>
    BY <1>2, Zenon DEF Begin, storeVars, lifeVars, effectVars
  <2>2. /\ FirstStep(TypeOf[j]) \in {"dedup", "upsert", "create", "send"}
        /\ TypeOf[j] \in StageOf(FirstStep(TypeOf[j])) /\ TypeOf[j] \in StageOf("nonRetryable")
    BY <1>0, Zenon DEF FirstStep, StageOf, JobTypes
  <2>3. copies[j] \in Seq(Int)
    BY <1>0, Zenon DEF EffectType
  <2>4. /\ Tail(copies[j]) \in Seq(Int) /\ Head(copies[j]) \in Int /\ Len(Tail(copies[j])) = Len(copies[j]) - 1
        /\ Len(copies[j]) - 1 \in Nat
    <3>1. copies[j] # <<>>
      BY <2>1, Zenon
    <3>. QED  BY <2>3, <3>1, TailType, Zenon
  <2>5. ppc'[j] = IF Processable(TypeOf[j], payload[j]) THEN FirstStep(TypeOf[j]) ELSE "nonRetryable"
    BY <1>0, <2>1, Zenon DEF EffectType
  <2>6. EffectType' /\ Frame(j) /\ copies'[j] = Tail(copies[j])
    <3>1. ppc' \in [Jobs -> ProcessPC]
      BY <1>0, <2>1, <2>2, Zenon DEF EffectType, ProcessPC
    <3>2. copies' \in [Jobs -> Seq(Int)] /\ cur' \in [Jobs -> Int] /\ copies'[j] = Tail(copies[j])
      BY <1>0, <2>1, <2>4, Zenon DEF EffectType
    <3>3. faults <= faults
      BY <1>0
    <3>4. EffectType'
      BY <1>0, <2>1, <3>1, <3>2, Zenon DEF EffectType
    <3>. QED  BY <1>0, <2>1, <3>2, <3>3, <3>4, Zenon DEF EffectType, Frame
  <2>7. Shape(j)'
    <3>1. CASE Processable(TypeOf[j], payload[j])
      BY <1>0, <2>1, <2>2, <2>5, <3>1, Zenon DEF Shape, HasEffect
    <3>2. CASE ~Processable(TypeOf[j], payload[j])
      <4>1. ppc'[j] = "nonRetryable"
        BY <2>5, <3>2, Zenon
      <4>2. HasEffect(j) => HasEffect(j)'
        BY <2>1, Zenon DEF HasEffect
      <4>3. Shape(j)
        BY <1>0, Zenon
      <4>. QED  BY <2>1, <2>2, <3>2, <4>1, <4>2, <4>3, Zenon DEF Shape
    <3>. QED  BY <3>1, <3>2, Zenon
  <2>8. RowBound(j)' /\ SendBound(j)'
    <3>1. ppc'[j] \in {"dedup", "upsert", "create", "send", "nonRetryable"} /\ Len(copies'[j]) = Len(copies[j]) - 1
      BY <2>2, <2>4, <2>5, <2>6, Zenon
    <3>2. /\ RowOK("idle", Len(copies[j]), regs[j], welcomes[j], faults, shutdowns, live) =>
               RowOK(ppc'[j], Len(copies[j]) - 1, regs[j], welcomes[j], faults, shutdowns, live)
          /\ SendOK("idle", Len(copies[j]), sent[j], faults, shutdowns, live) =>
               SendOK(ppc'[j], Len(copies[j]) - 1, sent[j], faults, shutdowns, live)
      <4>1. live /\ Len(copies[j]) - 1 \in Nat
        BY <2>1, <2>4, Zenon
      <4>2. ppc'[j] \in {"dedup", "upsert", "create", "send", "nonRetryable"}
        BY <3>1, Zenon
      <4>3. RowOK("idle", Len(copies[j]), regs[j], welcomes[j], faults, shutdowns, live) =>
              RowOK(ppc'[j], Len(copies[j]) - 1, regs[j], welcomes[j], faults, shutdowns, live)
        BY <4>1, <4>2, RowBegin, Zenon
      <4>4. SendOK("idle", Len(copies[j]), sent[j], faults, shutdowns, live) =>
              SendOK(ppc'[j], Len(copies[j]) - 1, sent[j], faults, shutdowns, live)
        BY <4>1, <4>2, SendBegin, Zenon
      <4>. QED  BY <4>3, <4>4, Zenon
    <3>3. RowBound(j) /\ SendBound(j)
      BY <1>0, Zenon
    <3>. QED  BY <2>1, <3>1, <3>2, <3>3, Zenon DEF RowBound, SendBound
  <2> QED
    BY <2>6, <2>7, <2>8, OthersKeep, Zenon DEF RunInv
<1>3. ASSUME NEW j \in Jobs, QRDedup(j) \/ QRStore(j) \/ QRIncr(j) PROVE EffectInv'
  <2>1. /\ ppc[j] \in {"dedup", "store", "incr"}
        /\ \E pc \in {"nil", "store", "retryable", "audit", "incr"} : ppc' = [ppc EXCEPT ![j] = pc]
        /\ faults' \in {faults, faults + 1}
        /\ UNCHANGED <<row, payload, copies, cur, live, shutdowns, regs, welcomes, sent, notes, payments>>
    BY <1>0, <1>3, CallCounts, Zenon DEF QRDedup, QRStore, QRIncr, Try, lifeVars
  <2>2. EffectType' /\ Frame(j) /\ ppc'[j] \in {"nil", "store", "retryable", "audit", "incr"}
    <3>1. {"nil", "store", "retryable", "audit", "incr"} \subseteq ProcessPC
      BY Zenon DEF ProcessPC
    <3>. QED  BY <1>0, <2>1, <3>1, CallFrame, Zenon
  <2>3. TypeOf[j] = "QR_SCAN"
    BY <1>0, <2>1, Zenon DEF Shape, StageOf
  <2>4. Shape(j)'
    BY <1>0, <2>1, <2>2, <2>3, Zenon DEF Shape, StageOf, HasEffect, JobTypes
  <2> QED
    BY <2>2, <2>3, <2>4, OthersKeep, Zenon DEF RunInv, RowBound, SendBound
<1>4. ASSUME NEW j \in Jobs, PaymentUpsert(j) PROVE EffectInv'
  <2>1. /\ ppc[j] = "upsert"
        /\ \E pc \in {"audit", "retryable"} : ppc' = [ppc EXCEPT ![j] = pc]
        /\ ppc' = [ppc EXCEPT ![j] = "audit"] => payments' = [payments EXCEPT ![SubjectOf[j]] = j]
        /\ payments' \in {payments, [payments EXCEPT ![SubjectOf[j]] = j]}
        /\ faults' \in {faults, faults + 1}
        /\ UNCHANGED <<row, payload, copies, cur, live, shutdowns, regs, welcomes, sent, notes>>
    <3>1. [ppc EXCEPT ![j] = "audit"] # [ppc EXCEPT ![j] = "retryable"]
      BY <1>0 DEF EffectType
    <3>2. PICK ok \in BOOLEAN :
            /\ Call("db", live, ok)
            /\ ppc' = [ppc EXCEPT ![j] = IF ok THEN "audit" ELSE "retryable"]
            /\ payments' = [payments EXCEPT ![SubjectOf[j]] = j] \/ (~ok /\ UNCHANGED payments)
      BY <1>4, Zenon DEF PaymentUpsert, Try
    <3>3. faults' \in {faults, faults + 1}
      BY <1>0, <3>2, CallCounts, Zenon
    <3>. QED  BY <1>4, <3>1, <3>2, <3>3, Zenon DEF PaymentUpsert, Try, lifeVars
  <2>2. EffectType' /\ Frame(j) /\ ppc'[j] \in {"audit", "retryable"}
    <3>1. {"audit", "retryable"} \subseteq ProcessPC
      BY Zenon DEF ProcessPC
    <3>. QED  BY <1>0, <2>1, <3>1, CallFrame, Zenon
  <2>3. TypeOf[j] = "PAYMENT_WEBHOOK"
    BY <1>0, <2>1, Zenon DEF Shape, StageOf
  <2>4. payments[SubjectOf[j]] # NoStatus => payments'[SubjectOf[j]] # NoStatus
    BY <1>0, <2>2, Zenon DEF Frame
  <2>5. ppc'[j] = "audit" => payments'[SubjectOf[j]] # NoStatus
    <3>1. ppc'[j] = "audit" => ppc' = [ppc EXCEPT ![j] = "audit"]
      BY <1>0, <2>1 DEF EffectType
    <3>2. [payments EXCEPT ![SubjectOf[j]] = j][SubjectOf[j]] = j /\ j # NoStatus
      BY <1>0, ProcessorsAssumption, Zenon DEF EffectType
    <3>3. CASE ppc'[j] = "audit"
      BY <2>1, <3>1, <3>2, <3>3, Zenon
    <3>. QED  BY <3>3, Zenon
  <2>6. Shape(j)'
    BY <1>0, <2>1, <2>2, <2>3, <2>4, <2>5, Zenon DEF Shape, StageOf, HasEffect, JobTypes
  <2> QED
    BY <2>2, <2>3, <2>6, OthersKeep, Zenon DEF RunInv, RowBound, SendBound
<1>5. ASSUME NEW j \in Jobs, RegistrationCreate(j) PROVE EffectInv'
  <2>1. /\ ppc[j] = "create"
        /\ regs' \in {regs, [regs EXCEPT ![j] = @ + 1]}
        /\ \/ /\ ppc' = [ppc EXCEPT ![j] = "welcome"] /\ faults' = faults
              /\ regs' = [regs EXCEPT ![j] = @ + 1]
           \/ ppc' = [ppc EXCEPT ![j] = "retryable"] /\ faults' = faults + 1
           \/ ppc' = [ppc EXCEPT ![j] = "retryable"] /\ faults' = faults /\ ~live
        /\ UNCHANGED <<row, payload, copies, cur, live, shutdowns, welcomes, sent, notes, payments>>
    <3>1. PICK ok \in BOOLEAN :
            /\ Call("db", live, ok)
            /\ ppc' = [ppc EXCEPT ![j] = IF ok THEN "welcome" ELSE "retryable"]
            /\ regs' = [regs EXCEPT ![j] = @ + 1] \/ (~ok /\ UNCHANGED regs)
      BY <1>5, Zenon DEF RegistrationCreate, Try, Bump
    <3>2. \/ ok /\ live /\ faults' = faults
          \/ ~ok /\ live /\ faults' = faults + 1
          \/ ~ok /\ ~live /\ faults' = faults
      BY <1>0, <3>1, CallCounts, Zenon
    <3>. QED  BY <1>5, <3>1, <3>2, Zenon DEF RegistrationCreate, Try, lifeVars
  <2>2. EffectType' /\ Frame(j)
    <3>1. {"welcome", "retryable"} \subseteq ProcessPC
      BY Zenon DEF ProcessPC
    <3>. QED  BY <1>0, <2>1, <3>1, CallFrame, Zenon
  <2>3. TypeOf[j] = "REGISTRATION"
    BY <1>0, <2>1, Zenon DEF Shape, StageOf
  <2>4. /\ regs'[j] \in {regs[j], regs[j] + 1}
        /\ \/ ppc'[j] = "welcome" /\ faults' = faults /\ regs'[j] = regs[j] + 1
           \/ ppc'[j] = "retryable" /\ faults' = faults + 1
           \/ ppc'[j] = "retryable" /\ faults' = faults /\ ~live
    BY <1>0, <2>1, Zenon DEF EffectType
  <2>5. (ppc'[j] = "welcome" => regs'[j] >= 1) /\ (regs[j] >= 1 => regs'[j] >= 1)
    BY <1>0, <2>4
  <2>6. Shape(j)'
    BY <1>0, <2>1, <2>3, <2>4, <2>5, Zenon DEF Shape, StageOf, HasEffect, JobTypes
  <2>7. RowBound(j)' /\ SendBound(j)'
    <3>1. /\ Len(copies[j]) \in Nat /\ regs[j] \in Nat /\ welcomes[j] \in Nat /\ sent[j] \in Nat
          /\ RowBound(j) /\ SendBound(j) /\ faults \in Nat /\ shutdowns \in Nat /\ live \in BOOLEAN
      BY <1>0, Zenon
    <3>2. RowOK("create", Len(copies[j]), regs[j], welcomes[j], faults, shutdowns, live)
      BY <2>1, <2>3, <3>1, Zenon DEF RowBound
    <3>3. /\ RowOK("welcome", Len(copies[j]), regs[j] + 1, welcomes[j], faults, shutdowns, live)
          /\ \A q \in {regs[j], regs[j] + 1} :
               /\ RowOK("retryable", Len(copies[j]), q, welcomes[j], faults + 1, shutdowns, live)
               /\ ~live => RowOK("retryable", Len(copies[j]), q, welcomes[j], faults, shutdowns, live)
      BY <3>2, RowCreate, Zenon
    <3>4. RowOK(ppc'[j], Len(copies[j]), regs'[j], welcomes[j], faults', shutdowns, live)
      BY <2>4, <3>3, Zenon
    <3>. QED  BY <2>1, <2>3, <3>4, Zenon DEF RowBound, SendBound
  <2> QED
    BY <2>2, <2>6, <2>7, OthersKeep, Zenon DEF RunInv
<1>6. ASSUME NEW j \in Jobs, RegistrationWelcome(j) PROVE EffectInv'
  <2>1. /\ ppc[j] = "welcome"
        /\ ppc' = [ppc EXCEPT ![j] = "audit"] /\ faults' \in {faults, faults + 1}
        /\ welcomes' \in {welcomes, [welcomes EXCEPT ![j] = @ + 1]}
        /\ UNCHANGED <<row, payload, copies, cur, live, shutdowns, regs, sent, notes, payments>>
    <3>1. PICK store \in {"redis", "db"}, ok \in BOOLEAN :
            /\ Call(store, live, ok)
            /\ ppc' = [ppc EXCEPT ![j] = IF ok THEN "audit" ELSE "audit"]
            /\ welcomes' = [welcomes EXCEPT ![j] = @ + 1] \/ (~ok /\ UNCHANGED welcomes)
      <4>1. PICK store \in {"redis", "db"} :
              Try(j, store, "welcome", "audit", "audit", welcomes' = Bump(welcomes, j), UNCHANGED welcomes)
        BY <1>6, Zenon DEF RegistrationWelcome
      <4>. QED  BY <4>1, Zenon DEF Try, Bump
    <3>2. faults' \in {faults, faults + 1}
      BY <1>0, <3>1, CallCounts, Zenon
    <3>. QED  BY <1>6, <3>1, <3>2, Zenon DEF RegistrationWelcome, Try, lifeVars
  <2>2. EffectType' /\ Frame(j) /\ ppc'[j] = "audit"
    <3>1. "audit" \in ProcessPC
      BY Zenon DEF ProcessPC
    <3>. QED  BY <1>0, <2>1, <3>1, CallFrame, Zenon
  <2>3. TypeOf[j] = "REGISTRATION"
    BY <1>0, <2>1, Zenon DEF Shape, StageOf
  <2>4. welcomes'[j] \in {welcomes[j], welcomes[j] + 1}
    BY <1>0, <2>1, Zenon DEF EffectType
  <2>5. Shape(j)'
    BY <1>0, <2>1, <2>2, <2>3, Zenon DEF Shape, StageOf, HasEffect, JobTypes
  <2>6. RowBound(j)' /\ SendBound(j)'
    <3>1. /\ Len(copies[j]) \in Nat /\ regs[j] \in Nat /\ welcomes[j] \in Nat /\ sent[j] \in Nat
          /\ RowBound(j) /\ SendBound(j) /\ faults \in Nat /\ shutdowns \in Nat /\ live \in BOOLEAN
      BY <1>0, Zenon
    <3>2. RowOK("welcome", Len(copies[j]), regs[j], welcomes[j], faults, shutdowns, live)
      BY <2>1, <2>3, <3>1, Zenon DEF RowBound
    <3>3. \A x \in {welcomes[j], welcomes[j] + 1}, g \in {faults, faults + 1} :
            RowOK("audit", Len(copies[j]), regs[j], x, g, shutdowns, live)
      BY <3>2, RowWelcome, Zenon
    <3>4. RowOK("audit", Len(copies[j]), regs[j], welcomes'[j], faults', shutdowns, live)
      BY <2>1, <2>4, <3>3, Zenon
    <3>. QED  BY <2>1, <2>2, <2>3, <3>4, Zenon DEF RowBound, SendBound
  <2> QED
    BY <2>2, <2>5, <2>6, OthersKeep, Zenon DEF RunInv
<1>7. ASSUME NEW j \in Jobs, NotificationSend(j) PROVE EffectInv'
  <2>1. /\ ppc[j] = "send"
        /\ sent' \in {sent, [sent EXCEPT ![j] = @ + 1]}
        /\ \/ /\ ppc' = [ppc EXCEPT ![j] = "recordSent"] /\ faults' = faults /\ live
              /\ sent' = [sent EXCEPT ![j] = @ + 1]
           \/ ppc' = [ppc EXCEPT ![j] = "recordFailed"] /\ faults' = faults + 1
           \/ ppc' = [ppc EXCEPT ![j] = "recordFailed"] /\ faults' = faults /\ ~live
        /\ UNCHANGED <<row, payload, copies, cur, live, shutdowns, regs, welcomes, notes, payments>>
    <3>1. PICK ok \in BOOLEAN :
            /\ Call("provider", live, ok)
            /\ ppc' = [ppc EXCEPT ![j] = IF ok THEN "recordSent" ELSE "recordFailed"]
            /\ sent' = [sent EXCEPT ![j] = @ + 1] \/ (~ok /\ UNCHANGED sent)
      BY <1>7, Zenon DEF NotificationSend, Try, Bump
    <3>2. \/ ok /\ live /\ faults' = faults
          \/ ~ok /\ live /\ faults' = faults + 1
          \/ ~ok /\ ~live /\ faults' = faults
      BY <1>0, <3>1, CallCounts, Zenon
    <3>. QED  BY <1>7, <3>1, <3>2, Zenon DEF NotificationSend, Try, lifeVars
  <2>2. EffectType' /\ Frame(j)
    <3>1. {"recordSent", "recordFailed"} \subseteq ProcessPC
      BY Zenon DEF ProcessPC
    <3>. QED  BY <1>0, <2>1, <3>1, CallFrame, Zenon
  <2>3. TypeOf[j] = "NOTIFICATION"
    BY <1>0, <2>1, Zenon DEF Shape, StageOf
  <2>4. /\ sent'[j] \in {sent[j], sent[j] + 1}
        /\ \/ ppc'[j] = "recordSent" /\ faults' = faults /\ live /\ sent'[j] = sent[j] + 1
           \/ ppc'[j] = "recordFailed" /\ faults' = faults + 1
           \/ ppc'[j] = "recordFailed" /\ faults' = faults /\ ~live
    BY <1>0, <2>1, Zenon DEF EffectType
  <2>5. (ppc'[j] = "recordSent" => sent'[j] >= 1) /\ (sent[j] >= 1 => sent'[j] >= 1)
    BY <1>0, <2>4
  <2>6. Shape(j)'
    BY <1>0, <2>1, <2>3, <2>4, <2>5, Zenon DEF Shape, StageOf, HasEffect, JobTypes
  <2>7. RowBound(j)' /\ SendBound(j)'
    <3>1. /\ Len(copies[j]) \in Nat /\ regs[j] \in Nat /\ welcomes[j] \in Nat /\ sent[j] \in Nat
          /\ RowBound(j) /\ SendBound(j) /\ faults \in Nat /\ shutdowns \in Nat /\ live \in BOOLEAN
      BY <1>0, Zenon
    <3>2. SendOK("send", Len(copies[j]), sent[j], faults, shutdowns, live)
      BY <2>1, <2>3, <3>1, Zenon DEF SendBound
    <3>3. /\ live => SendOK("recordSent", Len(copies[j]), sent[j] + 1, faults, shutdowns, live)
          /\ \A q \in {sent[j], sent[j] + 1} :
               /\ SendOK("recordFailed", Len(copies[j]), q, faults + 1, shutdowns, live)
               /\ ~live => SendOK("recordFailed", Len(copies[j]), q, faults, shutdowns, live)
      BY <3>2, SendOff, Zenon
    <3>4. SendOK(ppc'[j], Len(copies[j]), sent'[j], faults', shutdowns, live)
      BY <2>4, <3>3, Zenon
    <3>. QED  BY <2>1, <2>3, <3>4, Zenon DEF RowBound, SendBound
  <2> QED
    BY <2>2, <2>6, <2>7, OthersKeep, Zenon DEF RunInv
<1>8. ASSUME NEW j \in Jobs, NotificationRecord(j) PROVE EffectInv'
  <2>1. /\ \/ /\ ppc[j] = "recordSent" /\ ppc' = [ppc EXCEPT ![j] = "audit"]
              /\ faults' = faults /\ notes' = [notes EXCEPT ![j] = @ + 1]
           \/ ppc[j] = "recordSent" /\ ppc' = [ppc EXCEPT ![j] = "retryable"] /\ faults' = faults + 1
           \/ ppc[j] = "recordSent" /\ ppc' = [ppc EXCEPT ![j] = "retryable"] /\ faults' = faults /\ ~live
           \/ ppc[j] = "recordFailed" /\ ppc' = [ppc EXCEPT ![j] = "retryable"] /\ faults' \in {faults, faults + 1}
        /\ notes' \in {notes, [notes EXCEPT ![j] = @ + 1]}
        /\ UNCHANGED <<row, payload, copies, cur, live, shutdowns, regs, welcomes, sent, payments>>
    <3>1. PICK ok \in BOOLEAN :
            /\ Call("db", live, ok)
            /\ \/ /\ ppc[j] = "recordSent" /\ ppc' = [ppc EXCEPT ![j] = IF ok THEN "audit" ELSE "retryable"]
                  /\ notes' = [notes EXCEPT ![j] = @ + 1] \/ (~ok /\ UNCHANGED notes)
               \/ /\ ppc[j] = "recordFailed" /\ ppc' = [ppc EXCEPT ![j] = IF ok THEN "retryable" ELSE "retryable"]
                  /\ UNCHANGED notes
      BY <1>8, Zenon DEF NotificationRecord, Try, Bump
    <3>2. \/ ok /\ live /\ faults' = faults
          \/ ~ok /\ live /\ faults' = faults + 1
          \/ ~ok /\ ~live /\ faults' = faults
      BY <1>0, <3>1, CallCounts, Zenon
    <3>3. UNCHANGED <<row, payload, copies, cur, live, shutdowns, regs, welcomes, sent, payments>>
      BY <1>8, Zenon DEF NotificationRecord, Try, lifeVars
    <3>. QED  BY <3>1, <3>2, <3>3, Zenon
  <2>2. EffectType' /\ Frame(j)
    <3>1. {"audit", "retryable"} \subseteq ProcessPC
      BY Zenon DEF ProcessPC
    <3>2. faults' \in {faults, faults + 1} /\ \E pc \in {"audit", "retryable"} : ppc' = [ppc EXCEPT ![j] = pc]
      BY <2>1, Zenon
    <3>. QED  BY <1>0, <2>1, <3>1, <3>2, CallFrame, Zenon
  <2>3. TypeOf[j] = "NOTIFICATION"
    BY <1>0, <2>1, Zenon DEF Shape, StageOf
  <2>4. /\ notes'[j] \in {notes[j], notes[j] + 1}
        /\ \/ ppc[j] = "recordSent" /\ ppc'[j] = "audit" /\ faults' = faults /\ notes'[j] = notes[j] + 1
           \/ ppc[j] = "recordSent" /\ ppc'[j] = "retryable" /\ faults' = faults + 1
           \/ ppc[j] = "recordSent" /\ ppc'[j] = "retryable" /\ faults' = faults /\ ~live
           \/ ppc[j] = "recordFailed" /\ ppc'[j] = "retryable" /\ faults' \in {faults, faults + 1}
    BY <1>0, <2>1, Zenon DEF EffectType
  <2>5. (ppc'[j] = "audit" => notes'[j] >= 1) /\ (notes[j] >= 1 => notes'[j] >= 1)
    BY <1>0, <2>4
  <2>6. Shape(j)'
    BY <1>0, <2>1, <2>3, <2>4, <2>5, Zenon DEF Shape, StageOf, HasEffect, JobTypes
  <2>7. RowBound(j)' /\ SendBound(j)'
    <3>1. /\ Len(copies[j]) \in Nat /\ regs[j] \in Nat /\ welcomes[j] \in Nat /\ sent[j] \in Nat
          /\ RowBound(j) /\ SendBound(j) /\ faults \in Nat /\ shutdowns \in Nat /\ live \in BOOLEAN
      BY <1>0, Zenon
    <3>2. SendOK(ppc[j], Len(copies[j]), sent[j], faults, shutdowns, live)
      BY <2>3, <3>1, Zenon DEF SendBound
    <3>3. /\ SendOK("recordSent", Len(copies[j]), sent[j], faults, shutdowns, live) =>
               /\ SendOK("audit", Len(copies[j]), sent[j], faults, shutdowns, live)
               /\ SendOK("retryable", Len(copies[j]), sent[j], faults + 1, shutdowns, live)
               /\ ~live => SendOK("retryable", Len(copies[j]), sent[j], faults, shutdowns, live)
          /\ SendOK("recordFailed", Len(copies[j]), sent[j], faults, shutdowns, live) =>
               \A g \in {faults, faults + 1} : SendOK("retryable", Len(copies[j]), sent[j], g, shutdowns, live)
      BY SendRecorded, SendFailed, Zenon
    <3>4. SendOK(ppc'[j], Len(copies[j]), sent[j], faults', shutdowns, live)
      BY <2>4, <3>2, <3>3, Zenon
    <3>. QED  BY <2>1, <2>3, <3>4, Zenon DEF RowBound, SendBound
  <2> QED
    BY <2>2, <2>6, <2>7, OthersKeep, Zenon DEF RunInv
<1>9. ASSUME NEW j \in Jobs, Audit(j) \/ Mark(j) PROVE EffectInv'
  <2>1. /\ \/ ppc[j] = "audit" /\ ppc' = [ppc EXCEPT ![j] = "nil"]
           \/ ppc[j] = "mark" /\ ppc' = [ppc EXCEPT ![j] = "idle"]
        /\ faults' \in {faults, faults + 1}
        /\ UNCHANGED <<row, payload, copies, cur, live, shutdowns, regs, welcomes, sent, notes, payments>>
    BY <1>0, <1>9, CallCounts, Zenon DEF Audit, Mark, Try, lifeVars, effectVars
  <2>2. EffectType' /\ Frame(j)
    <3>1. {"nil", "idle"} \subseteq ProcessPC
      BY Zenon DEF ProcessPC
    <3>. QED  BY <1>0, <2>1, <3>1, CallFrame, Zenon
  <2>3. \/ ppc[j] = "audit" /\ ppc'[j] = "nil"
        \/ ppc[j] = "mark" /\ ppc'[j] = "idle"
    BY <1>0, <2>1, Zenon DEF EffectType
  <2>4. Shape(j)'
    BY <1>0, <2>1, <2>3, Zenon DEF Shape, StageOf, HasEffect, JobTypes
  <2>5. RowBound(j)' /\ SendBound(j)'
    <3>1. /\ Len(copies[j]) \in Nat /\ regs[j] \in Nat /\ welcomes[j] \in Nat /\ sent[j] \in Nat
          /\ RowBound(j) /\ SendBound(j) /\ faults \in Nat /\ shutdowns \in Nat /\ live \in BOOLEAN
      BY <1>0, Zenon
    <3>2. Ends(ppc[j], ppc'[j])
      BY <2>3, Zenon DEF Ends
    <3>3. faults' \in {faults, faults + 1}
      BY <2>1, Zenon
    <3>4. RowOK(ppc[j], Len(copies[j]), regs[j], welcomes[j], faults, shutdowns, live) =>
            RowOK(ppc'[j], Len(copies[j]), regs[j], welcomes[j], faults', shutdowns, live)
      BY <3>1, <3>2, <3>3, RowEnd, Zenon
    <3>5. SendOK(ppc[j], Len(copies[j]), sent[j], faults, shutdowns, live) =>
            SendOK(ppc'[j], Len(copies[j]), sent[j], faults', shutdowns, live)
      BY <3>1, <3>2, <3>3, SendEnd, Zenon
    <3>. QED  BY <2>1, <3>1, <3>4, <3>5, Zenon DEF RowBound, SendBound
  <2> QED
    BY <2>2, <2>4, <2>5, OthersKeep, Zenon DEF RunInv
<1>10. ASSUME NEW j \in Jobs, Finish(j) PROVE EffectInv'
  <2>1. /\ ppc[j] \in {"nil", "retryable", "nonRetryable"}
        /\ \E n \in {cur[j], cur[j] + 1}, st \in {"QUEUED", "SUCCESS", "DEAD_LETTER"}, pc \in {"push", "mark"} :
              /\ st = "SUCCESS" => ppc[j] = "nil"
              /\ pc = "push" => ppc[j] = "retryable"
              /\ Record(j, n, st, pc)
    BY <1>10, Zenon DEF Finish
  <2>2. PICK n \in {cur[j], cur[j] + 1}, st \in {"QUEUED", "SUCCESS", "DEAD_LETTER"}, pc \in {"push", "mark"} :
          /\ st = "SUCCESS" => ppc[j] = "nil"
          /\ pc = "push" => ppc[j] = "retryable"
          /\ Record(j, n, st, pc)
    BY <2>1, Zenon
  <2>3. /\ ppc' = [ppc EXCEPT ![j] = pc] /\ cur' = [cur EXCEPT ![j] = n]
        /\ \/ row' = row
           \/ row' = [row EXCEPT ![j] = IF @.status = "absent" THEN @ ELSE [status |-> st, retry |-> n]]
        /\ faults' \in {faults, faults + 1}
        /\ UNCHANGED <<payload, copies, live, shutdowns, regs, welcomes, sent, notes, payments>>
    <3>1. PICK ok \in BOOLEAN : /\ Call("db", live, ok)
                                /\ Update([id |-> j, retry |-> n], st) \/ (~ok /\ UNCHANGED row)
      BY <2>2, Zenon DEF Record
    <3>2. faults' \in {faults, faults + 1}
      BY <1>0, <3>1, CallCounts, Zenon
    <3>3. Update([id |-> j, retry |-> n], st) =>
            row' = [row EXCEPT ![j] = IF @.status = "absent" THEN @ ELSE [status |-> st, retry |-> n]]
      BY Zenon DEF Update
    <3>. QED  BY <2>2, <3>1, <3>2, <3>3, Zenon DEF Record, lifeVars, effectVars
  <2>4. n \in Int /\ pc \in ProcessPC
    <3>1. cur[j] \in Int
      BY <1>0, Zenon DEF EffectType
    <3>. QED  BY <3>1 DEF ProcessPC
  <2>5. /\ row' \in [Jobs -> [status : JobStatus \cup {"absent"}, retry : Int]]
        /\ \A i \in Jobs \ {j} : row'[i] = row[i]
        /\ row'[j].status = "SUCCESS" => row[j].status = "SUCCESS" \/ ppc[j] = "nil"
    <3>1. /\ row \in [Jobs -> [status : JobStatus \cup {"absent"}, retry : Int]]
          /\ row[j] \in [status : JobStatus \cup {"absent"}, retry : Int]
      BY <1>0, Zenon DEF EffectType
    <3>2. /\ [status |-> st, retry |-> n] \in [status : JobStatus \cup {"absent"}, retry : Int]
          /\ [status |-> st, retry |-> n].status = st
      BY <2>2, <2>4 DEF JobStatus
    <3>. QED  BY <2>2, <2>3, <3>1, <3>2, Zenon
  <2>6. EffectType' /\ Frame(j) /\ ppc'[j] = pc
    <3>1. ppc' \in [Jobs -> ProcessPC] /\ ppc'[j] = pc /\ \A i \in Jobs \ {j} : ppc'[i] = ppc[i]
      BY <1>0, <2>3, <2>4, MoveType, Zenon DEF EffectType
    <3>2. cur' \in [Jobs -> Int]
      BY <1>0, <2>3, <2>4, Zenon DEF EffectType
    <3>3. faults' \in Nat /\ faults <= faults'
      BY <1>0, <2>3
    <3>4. EffectType'
      BY <1>0, <2>3, <2>5, <3>1, <3>2, <3>3, Zenon DEF EffectType
    <3>. QED  BY <1>0, <2>3, <2>5, <3>1, <3>3, <3>4, Zenon DEF Frame
  <2>7. Shape(j)'
    <3>1. /\ StageOf(ppc'[j]) = JobTypes /\ HasEffect(j)' = HasEffect(j)
      BY <2>3, <2>6, Zenon DEF StageOf, HasEffect
    <3>2. ppc'[j] \in {"push", "mark"}
      BY <2>6, Zenon
    <3>. QED  BY <1>0, <2>1, <2>3, <2>5, <3>1, <3>2, Zenon DEF Shape
  <2>8. RowBound(j)' /\ SendBound(j)'
    <3>1. /\ Len(copies[j]) \in Nat /\ regs[j] \in Nat /\ welcomes[j] \in Nat /\ sent[j] \in Nat
          /\ RowBound(j) /\ SendBound(j) /\ faults \in Nat /\ shutdowns \in Nat /\ live \in BOOLEAN
      BY <1>0, Zenon
    <3>2. Ends(ppc[j], ppc'[j])
      BY <2>1, <2>2, <2>6, Zenon DEF Ends
    <3>3. faults' \in {faults, faults + 1}
      BY <2>3, Zenon
    <3>4. RowOK(ppc[j], Len(copies[j]), regs[j], welcomes[j], faults, shutdowns, live) =>
            RowOK(ppc'[j], Len(copies[j]), regs[j], welcomes[j], faults', shutdowns, live)
      BY <3>1, <3>2, <3>3, RowEnd, Zenon
    <3>5. SendOK(ppc[j], Len(copies[j]), sent[j], faults, shutdowns, live) =>
            SendOK(ppc'[j], Len(copies[j]), sent[j], faults', shutdowns, live)
      BY <3>1, <3>2, <3>3, SendEnd, Zenon
    <3>. QED  BY <2>3, <3>1, <3>4, <3>5, Zenon DEF RowBound, SendBound
  <2> QED
    BY <2>6, <2>7, <2>8, OthersKeep, Zenon DEF RunInv
<1>11. ASSUME NEW j \in Jobs, Requeue(j) \/ RequeueAgain(j) PROVE EffectInv'
  <2>1. /\ ppc[j] \in {"push", "pushAgain"}
        /\ copies' \in {copies, [copies EXCEPT ![j] = Append(@, cur[j])]}
        /\ \/ ppc' = [ppc EXCEPT ![j] = "idle"] /\ faults' \in {faults, faults + 1}
           \/ ppc' = [ppc EXCEPT ![j] = "pushAgain"] /\ faults' = faults + 1
           \/ ppc' = [ppc EXCEPT ![j] = "pushAgain"] /\ faults' = faults /\ copies' = copies
        /\ UNCHANGED <<row, payload, cur, live, shutdowns, regs, welcomes, sent, notes, payments>>
    BY <1>0, <1>11, CallCounts, Zenon DEF Requeue, RequeueAgain, Pushed, lifeVars, effectVars
  <2>2. copies[j] \in Seq(Int) /\ cur[j] \in Int
    BY <1>0, Zenon DEF EffectType
  <2>3. Append(copies[j], cur[j]) \in Seq(Int) /\ Len(Append(copies[j], cur[j])) = Len(copies[j]) + 1
    BY <2>2
  <2>4. /\ copies' \in [Jobs -> Seq(Int)] /\ \A i \in Jobs \ {j} : copies'[i] = copies[i]
        /\ Len(copies'[j]) \in {Len(copies[j]), Len(copies[j]) + 1}
        /\ copies' = copies => Len(copies'[j]) = Len(copies[j])
    <3>1. copies \in [Jobs -> Seq(Int)]
      BY <1>0, Zenon DEF EffectType
    <3>2. CASE copies' = copies
      BY <3>1, <3>2, Zenon
    <3>3. CASE copies' = [copies EXCEPT ![j] = Append(@, cur[j])] /\ copies' # copies
      BY <2>3, <3>1, <3>3, Zenon
    <3>. QED  BY <2>1, <3>2, <3>3, Zenon
  <2>5. /\ ppc' \in [Jobs -> ProcessPC] /\ \A i \in Jobs \ {j} : ppc'[i] = ppc[i]
        /\ \/ ppc'[j] = "idle" /\ faults' \in {faults, faults + 1}
           \/ ppc'[j] = "pushAgain" /\ faults' = faults + 1
           \/ ppc'[j] = "pushAgain" /\ faults' = faults /\ copies' = copies
    BY <1>0, <2>1, MoveType, Zenon DEF EffectType, ProcessPC
  <2>6. faults' \in Nat /\ faults <= faults'
    BY <1>0, <2>5
  <2>7. EffectType'
    BY <1>0, <2>1, <2>4, <2>5, <2>6, Zenon DEF EffectType
  <2>8. Frame(j)
    BY <1>0, <2>1, <2>4, <2>5, <2>6, Zenon DEF Frame
  <2>9. Shape(j)'
    BY <1>0, <2>1, <2>5, Zenon DEF Shape, StageOf, HasEffect, JobTypes
  <2>10. RowBound(j)' /\ SendBound(j)'
    <3>1. /\ Len(copies[j]) \in Nat /\ regs[j] \in Nat /\ welcomes[j] \in Nat /\ sent[j] \in Nat
          /\ RowBound(j) /\ SendBound(j) /\ faults \in Nat /\ shutdowns \in Nat /\ live \in BOOLEAN
      BY <1>0, Zenon
    <3>2. PICK m \in {Len(copies[j]), Len(copies[j]) + 1}, g \in {faults, faults + 1} :
            /\ Len(copies'[j]) = m /\ faults' = g
            /\ \/ ppc'[j] = "idle"
               \/ ppc'[j] = "pushAgain" /\ g = faults + 1
               \/ ppc'[j] = "pushAgain" /\ g = faults /\ m = Len(copies[j])
      BY <2>4, <2>5, Zenon
    <3>3. ppc[j] \in {"push", "pushAgain"}
      BY <2>1, Zenon
    <3>4. RowOK(ppc[j], Len(copies[j]), regs[j], welcomes[j], faults, shutdowns, live) =>
            /\ RowOK("idle", m, regs[j], welcomes[j], g, shutdowns, live)
            /\ RowOK("pushAgain", m, regs[j], welcomes[j], faults + 1, shutdowns, live)
            /\ RowOK("pushAgain", Len(copies[j]), regs[j], welcomes[j], faults, shutdowns, live)
      BY <3>2, <3>3, RowPushed, Zenon
    <3>5. SendOK(ppc[j], Len(copies[j]), sent[j], faults, shutdowns, live) =>
            /\ SendOK("idle", m, sent[j], g, shutdowns, live)
            /\ SendOK("pushAgain", m, sent[j], faults + 1, shutdowns, live)
            /\ SendOK("pushAgain", Len(copies[j]), sent[j], faults, shutdowns, live)
      BY <3>2, <3>3, SendPushed, Zenon
    <3>6. /\ RowOK(ppc[j], Len(copies[j]), regs[j], welcomes[j], faults, shutdowns, live) => RowOK(ppc'[j], m, regs[j], welcomes[j], g, shutdowns, live)
          /\ SendOK(ppc[j], Len(copies[j]), sent[j], faults, shutdowns, live) => SendOK(ppc'[j], m, sent[j], g, shutdowns, live)
      BY <3>2, <3>4, <3>5, Zenon
    <3>. QED  BY <2>1, <3>1, <3>2, <3>6, Zenon DEF RowBound, SendBound
  <2> QED
    BY <2>7, <2>8, <2>9, <2>10, OthersKeep, Zenon DEF RunInv
<1>12. ASSUME NEW j \in Jobs, Skip(j) PROVE EffectInv'
  <2>1. /\ copies[j] # <<>> /\ copies' = [copies EXCEPT ![j] = Tail(@)]
        /\ faults' \in {faults, faults + 1}
        /\ UNCHANGED <<ppc, row, payload, cur, live, shutdowns, regs, welcomes, sent, notes, payments>>
    <3>1. faults' \in {faults, faults + 1}
      BY <1>12, Zenon DEF Skip, Call
    <3>. QED  BY <1>12, <3>1, Zenon DEF Skip, lifeVars, effectVars
  <2>2. copies[j] \in Seq(Int)
    BY <1>0, Zenon DEF EffectType
  <2>3. Tail(copies[j]) \in Seq(Int) /\ Len(Tail(copies[j])) = Len(copies[j]) - 1 /\ Len(copies[j]) - 1 \in Nat
    BY <2>1, <2>2
  <2>4. /\ copies' \in [Jobs -> Seq(Int)] /\ \A i \in Jobs \ {j} : copies'[i] = copies[i]
        /\ Len(copies'[j]) = Len(copies[j]) - 1
    BY <1>0, <2>1, <2>3, Zenon DEF EffectType
  <2>5. faults' \in Nat /\ faults <= faults'
    BY <1>0, <2>1
  <2>6. EffectType' /\ Frame(j)
    BY <1>0, <2>1, <2>4, <2>5, Zenon DEF EffectType, Frame
  <2>7. Shape(j)'
    BY <1>0, <2>1, Zenon DEF Shape, HasEffect
  <2>8. RowBound(j)' /\ SendBound(j)'
    <3>1. /\ Len(copies[j]) \in Nat /\ regs[j] \in Nat /\ welcomes[j] \in Nat /\ sent[j] \in Nat
          /\ RowBound(j) /\ SendBound(j) /\ faults \in Nat /\ shutdowns \in Nat /\ live \in BOOLEAN
      BY <1>0, Zenon
    <3>2. RowOK(ppc[j], Len(copies[j]), regs[j], welcomes[j], faults, shutdowns, live) =>
            RowOK(ppc[j], Len(copies[j]) - 1, regs[j], welcomes[j], faults', shutdowns, live)
      BY <2>1, <2>3, RowSkip, Zenon
    <3>3. SendOK(ppc[j], Len(copies[j]), sent[j], faults, shutdowns, live) =>
            SendOK(ppc[j], Len(copies[j]) - 1, sent[j], faults', shutdowns, live)
      BY <2>1, <2>3, SendSkip, Zenon
    <3>. QED  BY <2>1, <2>4, <3>1, <3>2, <3>3, Zenon DEF RowBound, SendBound
  <2> QED
    BY <2>6, <2>7, <2>8, OthersKeep, Zenon DEF RunInv
<1>13. CASE UNCHANGED procVars \/ \E s \in Subjects : DedupExpire(s)
  <2>1. UNCHANGED <<ppc, copies, cur, live, shutdowns, payload, row, payments, regs, welcomes, sent, notes, faults>>
    BY <1>13, Zenon DEF procVars, DedupExpire, storeVars, lifeVars, effectVars
  <2>2. EffectType'
    BY <1>0, <2>1, Zenon DEF EffectType
  <2>3. \A j \in Jobs : Shape(j)'
    BY <1>0, <2>1, Zenon DEF Shape, HasEffect
  <2>4. \A j \in Jobs : RowBound(j)' /\ SendBound(j)'
    BY <1>0, <2>1, Zenon DEF RowBound, SendBound
  <2>. QED  BY <2>2, <2>3, <2>4, Zenon DEF EffectInv, RunInv
<1>14. CASE Cancel \/ Restart
  <2>1. /\ UNCHANGED <<ppc, copies, cur, payload, row, payments, regs, welcomes, sent, notes, faults>>
        /\ \/ shutdowns' = shutdowns + 1 /\ live' = FALSE
           \/ shutdowns' = shutdowns /\ live' = TRUE
        /\ live' \in BOOLEAN
    BY <1>14, Zenon DEF Cancel, Restart, storeVars, effectVars
  <2>2. EffectType'
    <3>1. shutdowns' \in Nat
      BY <1>0, <2>1
    <3>. QED  BY <1>0, <2>1, <3>1, Zenon DEF EffectType
  <2>3. \A j \in Jobs : Shape(j)'
    BY <1>0, <2>1, Zenon DEF Shape, HasEffect
  <2>4. ASSUME NEW j \in Jobs PROVE RowBound(j)' /\ SendBound(j)'
    <3>1. /\ Len(copies[j]) \in Nat /\ regs[j] \in Nat /\ welcomes[j] \in Nat /\ sent[j] \in Nat
          /\ RowBound(j) /\ SendBound(j) /\ faults \in Nat /\ shutdowns \in Nat /\ live \in BOOLEAN
      BY <1>0, Zenon
    <3>2. RowOK(ppc[j], Len(copies[j]), regs[j], welcomes[j], faults, shutdowns, live) =>
            /\ RowOK(ppc[j], Len(copies[j]), regs[j], welcomes[j], faults, shutdowns + 1, FALSE)
            /\ RowOK(ppc[j], Len(copies[j]), regs[j], welcomes[j], faults, shutdowns, TRUE)
      BY <3>1, RowShut, Zenon
    <3>3. SendOK(ppc[j], Len(copies[j]), sent[j], faults, shutdowns, live) =>
            /\ SendOK(ppc[j], Len(copies[j]), sent[j], faults, shutdowns + 1, FALSE)
            /\ SendOK(ppc[j], Len(copies[j]), sent[j], faults, shutdowns, TRUE)
      BY <3>1, SendShut, Zenon
    <3>4. CASE shutdowns' = shutdowns + 1 /\ live' = FALSE
      BY <2>1, <3>1, <3>2, <3>3, <3>4, Zenon DEF RowBound, SendBound
    <3>5. CASE shutdowns' = shutdowns /\ live' = TRUE
      BY <2>1, <3>1, <3>2, <3>3, <3>5, Zenon DEF RowBound, SendBound
    <3>. QED  BY <2>1, <3>4, <3>5, Zenon
  <2>. QED  BY <2>2, <2>3, <2>4, Zenon DEF EffectInv, RunInv
<1> QED
  BY <1>1, <1>2, <1>3, <1>4, <1>5, <1>6, <1>7, <1>8, <1>9, <1>10, <1>11, <1>12, <1>13, <1>14, Zenon
  DEF ProcNext, RunCopy, Process

\* The invariant in every reachable state.
LEMMA EffectInvariant == ProcSpec => []EffectInv
<1>1. ProcInit => EffectInv
  <2>. SUFFICES ASSUME ProcInit PROVE EffectInv
    BY Zenon
  <2>. USE ProcessorsAssumption, StoresAssumption
  <2>1. EffectType
    BY DEF ProcInit, StoresInit, EffectType, ProcessPC, JobStatus, Payload, NoBody
  <2>2. ASSUME NEW j \in Jobs PROVE Shape(j) /\ RowBound(j) /\ SendBound(j)
    <3>1. /\ ppc[j] = "new" /\ row[j].status = "absent" /\ regs[j] = 0 /\ welcomes[j] = 0 /\ sent[j] = 0
          /\ Len(copies[j]) = 0 /\ faults = 0 /\ shutdowns = 0 /\ TypeOf[j] \in JobTypes
      BY DEF ProcInit, StoresInit
    <3>2. Shape(j)
      BY <3>1, Zenon DEF Shape, StageOf
    <3>3. RowOK("new", 0, 0, 0, 0, 0, live) /\ SendOK("new", 0, 0, 0, 0, live)
      BY DEF ProcInit, RowOK, SendOK, At, RowAt, WelcomeAt, SendAt
    <3>. QED  BY <3>1, <3>2, <3>3, Zenon DEF RowBound, SendBound
  <2>. QED  BY <2>1, <2>2, Zenon DEF EffectInv, RunInv
<1> QED
  BY <1>1, EffectStep, PTL DEF ProcSpec

\* A payment, registration or notification that ends as SUCCESS has left its
\* effect, whichever calls failed and had to be repeated before.
THEOREM SuccessHasEffectHolds == ProcSpec => []SuccessHasEffect
<1>1. EffectInv => SuccessHasEffect
  BY Zenon DEF EffectInv, RunInv, Shape, HasEffect, SuccessHasEffect
<1> QED
  BY <1>1, EffectInvariant, PTL

\* registration_processor.go, notification_processor.go, pool.go: each further
\* row or message of one job is paid for by a failed call or a shutdown, and
\* each further welcome by a failed call, for any number of copies of the job.
THEOREM EffectsPerFaultHolds == ProcSpec => []EffectsPerFault
<1>1. EffectInv => EffectsPerFault
  <2>. SUFFICES ASSUME EffectInv, NEW j \in Jobs
                PROVE  /\ regs[j] <= 1 + faults + shutdowns /\ sent[j] <= 1 + faults + shutdowns
                       /\ welcomes[j] <= 1 + faults
    BY Zenon DEF EffectsPerFault
  <2>1. /\ Len(copies[j]) \in Nat /\ faults \in Nat /\ shutdowns \in Nat /\ live \in BOOLEAN
        /\ regs[j] \in Nat /\ sent[j] \in Nat /\ welcomes[j] \in Nat
    BY CopiesType, Zenon DEF EffectInv, EffectType
  <2>2. /\ TypeOf[j] # "REGISTRATION" => regs[j] = 0 /\ welcomes[j] = 0
        /\ TypeOf[j] # "NOTIFICATION" => sent[j] = 0
        /\ TypeOf[j] = "REGISTRATION" => RowOK(ppc[j], Len(copies[j]), regs[j], welcomes[j], faults, shutdowns, live)
        /\ TypeOf[j] = "NOTIFICATION" => SendOK(ppc[j], Len(copies[j]), sent[j], faults, shutdowns, live)
    BY Zenon DEF EffectInv, RunInv, Shape, RowBound, SendBound
  <2>3. RowOK(ppc[j], Len(copies[j]), regs[j], welcomes[j], faults, shutdowns, live) =>
          regs[j] <= 1 + faults + shutdowns /\ welcomes[j] <= 1 + faults
    BY <2>1, RowPaid, Zenon
  <2>4. SendOK(ppc[j], Len(copies[j]), sent[j], faults, shutdowns, live) => sent[j] <= 1 + faults + shutdowns
    BY <2>1, SendPaid, Zenon
  <2>5. 0 <= 1 + faults + shutdowns /\ 0 <= 1 + faults
    BY <2>1
  <2>. QED  BY <2>2, <2>3, <2>4, <2>5, Zenon
<1> QED
  BY <1>1, EffectInvariant, PTL

\* Of the jobs that the handler's validatePayload lets in, Process refuses
\* only a payment with an unknown status.
THEOREM PoisonOnlyPaymentHolds == ProcSpec => []PoisonOnlyPayment
<1>1. EffectInv => PoisonOnlyPayment
  <2>. SUFFICES ASSUME EffectInv, NEW j \in Jobs, ppc[j] = "nonRetryable"
                PROVE  TypeOf[j] = "PAYMENT_WEBHOOK" /\ payload[j].enum = "unknown"
    BY Zenon DEF PoisonOnlyPayment
  <2>1. validatePayload(TypeOf[j], payload[j]) /\ ~Processable(TypeOf[j], payload[j])
    BY Zenon DEF EffectInv, RunInv, Shape
  <2>2. payload[j] \in Payload
    BY Zenon DEF EffectInv, EffectType
  <2>. QED  BY <2>1, <2>2, Zenon DEF validatePayload, Processable, Payload
<1> QED
  BY <1>1, EffectInvariant, PTL

-----------------------------------------------------------------------------
(***************************************************************************)
(* Types, and the count of the scans.                                      *)
(***************************************************************************)
\* What a call may do to the count of failed calls.
LEMMA CallKeepsType ==
  ASSUME faults \in 0..MaxFaults, NEW store, NEW ok \in BOOLEAN, NEW l \in BOOLEAN, Call(store, l, ok)
  PROVE  faults' \in 0..MaxFaults
BY StoresAssumption DEF Call

\* Every step keeps the types.
LEMMA ProcTypeStep == ProcTypeOK /\ [ProcNext]_procVars => ProcTypeOK'
<1>. SUFFICES ASSUME ProcTypeOK, [ProcNext]_procVars PROVE ProcTypeOK'
  BY Zenon
<1>0. /\ faults \in 0..MaxFaults /\ ppc \in [Jobs -> ProcessPC] /\ row \in [Jobs -> Row]
      /\ live \in BOOLEAN /\ payload \in [Jobs -> Payload] /\ shutdowns \in 0..MaxShutdowns
      /\ copies \in [Jobs -> Seq(0..MaxRetries)] /\ cur \in [Jobs -> 0..MaxRetries]
  BY Zenon DEF ProcTypeOK, StoresTypeOK
<1>1. ASSUME NEW j \in Jobs, NEW body \in PayloadsOf[j], Accept(j, body) PROVE ProcTypeOK'
  <2>1. row' \in [Jobs -> Row]
    <3>1. [status |-> "QUEUED", retry |-> 0] \in Row
      BY StoresAssumption DEF Row, JobStatus
    <3>2. row' = row \/ row' = [row EXCEPT ![j] = [status |-> "QUEUED", retry |-> 0]]
      BY <1>1, Zenon DEF Accept, Create
    <3>. QED  BY <1>0, <3>1, <3>2, Zenon
  <2>2. ppc' \in [Jobs -> ProcessPC]
    BY <1>0, <1>1, Zenon DEF Accept, ProcessPC
  <2>3. payload' \in [Jobs -> Payload]
    <3>1. body \in Payload /\ payload' \in {payload, [payload EXCEPT ![j] = body]}
      BY <1>1, ProcessorsAssumption, Zenon DEF Accept
    <3>. QED  BY <1>0, <3>1, Zenon
  <2>4. copies' \in [Jobs -> Seq(0..MaxRetries)]
    <3>1. <<0>> \in Seq(0..MaxRetries)
      BY StoresAssumption
    <3>2. NewJob(j).retry = 0
      BY DEF NewJob
    <3>3. copies' = copies \/ copies' = [copies EXCEPT ![j] = <<0>>]
      BY <1>1, <3>2, Zenon DEF Accept
    <3>. QED  BY <1>0, <3>1, <3>3, Zenon
  <2>. QED  BY <1>1, <2>1, <2>2, <2>3, <2>4, Zenon DEF Accept, otherStores, lifeVars, effectVars, StoresTypeOK, ProcTypeOK
<1>2. ASSUME NEW j \in Jobs, Begin(j) PROVE ProcTypeOK'
  <2>1. ppc' \in [Jobs -> ProcessPC]
    BY <1>0, <1>2, FirstStepType, StoresAssumption, Zenon DEF Begin, ProcessPC
  <2>2. copies[j] \in Seq(0..MaxRetries) /\ copies[j] # <<>>
    BY <1>0, <1>2, Zenon DEF Begin
  <2>3. Tail(copies[j]) \in Seq(0..MaxRetries) /\ Head(copies[j]) \in 0..MaxRetries
    BY <2>2, TailType, Zenon
  <2>4. copies' \in [Jobs -> Seq(0..MaxRetries)] /\ cur' \in [Jobs -> 0..MaxRetries]
    BY <1>0, <1>2, <2>3, Zenon DEF Begin
  <2>. QED  BY <1>2, <2>1, <2>4, Zenon DEF Begin, storeVars, lifeVars, effectVars, StoresTypeOK, ProcTypeOK
<1>3. ASSUME NEW j \in Jobs, QRDedup(j) \/ QRStore(j) \/ QRIncr(j) PROVE ProcTypeOK'
  <2>1. faults' \in 0..MaxFaults
    BY <1>0, <1>3, CallKeepsType, Zenon DEF QRDedup, QRStore, QRIncr, Try
  <2>2. ppc' \in [Jobs -> ProcessPC]
    BY <1>0, <1>3, Zenon DEF QRDedup, QRStore, QRIncr, Try, ProcessPC
  <2>3. /\ seenKey' \in {seenKey, seenKey \cup {SubjectOf[j]}}
        /\ attendance' \in {attendance, attendance + 1}
        /\ scans' \in {scans, [scans EXCEPT ![SubjectOf[j]] = @ + 1]}
        /\ windowScans' \in {windowScans, [windowScans EXCEPT ![SubjectOf[j]] = @ + 1]}
    BY <1>3, Zenon DEF QRDedup, QRStore, QRIncr, Try, Bump
  <2>4. /\ seenKey' \subseteq Subjects /\ attendance' \in Nat
        /\ scans' \in [Subjects -> Nat] /\ windowScans' \in [Subjects -> Nat]
    <3>1. /\ seenKey \subseteq Subjects /\ attendance \in Nat
          /\ scans \in [Subjects -> Nat] /\ windowScans \in [Subjects -> Nat] /\ SubjectOf[j] \in Subjects
      BY ProcessorsAssumption, Zenon DEF ProcTypeOK
    <3>. QED  BY <2>3, <3>1
  <2>. QED  BY <1>3, <2>1, <2>2, <2>4, Zenon DEF QRDedup, QRStore, QRIncr, Try, otherStores, lifeVars, StoresTypeOK, ProcTypeOK
<1>4. ASSUME NEW j \in Jobs, PaymentUpsert(j) \/ RegistrationCreate(j) \/ RegistrationWelcome(j) PROVE ProcTypeOK'
  <2>1. faults' \in 0..MaxFaults
    <3>1. CASE PaymentUpsert(j) \/ RegistrationCreate(j)
      BY <1>0, <3>1, CallKeepsType, Zenon DEF PaymentUpsert, RegistrationCreate, Try
    <3>2. CASE RegistrationWelcome(j)
      <4>1. PICK store \in {"redis", "db"} :
              Try(j, store, "welcome", "audit", "audit", welcomes' = Bump(welcomes, j), UNCHANGED welcomes)
        BY <3>2, Zenon DEF RegistrationWelcome
      <4>. QED  BY <1>0, <4>1, CallKeepsType, Zenon DEF Try
    <3>. QED  BY <1>4, <3>1, <3>2, Zenon
  <2>2. ppc' \in [Jobs -> ProcessPC]
    BY <1>0, <1>4, Zenon DEF PaymentUpsert, RegistrationCreate, RegistrationWelcome, Try, ProcessPC
  <2>3. /\ payments' \in {payments, [payments EXCEPT ![SubjectOf[j]] = j]}
        /\ regs' \in {regs, [regs EXCEPT ![j] = @ + 1]}
        /\ welcomes' \in {welcomes, [welcomes EXCEPT ![j] = @ + 1]}
    BY <1>4, Zenon DEF PaymentUpsert, RegistrationCreate, RegistrationWelcome, Try, Bump
  <2>4. /\ payments' \in [Subjects -> Jobs \cup {NoStatus}]
        /\ regs' \in [Jobs -> Nat] /\ welcomes' \in [Jobs -> Nat]
    <3>1. /\ payments \in [Subjects -> Jobs \cup {NoStatus}] /\ SubjectOf[j] \in Subjects
          /\ regs \in [Jobs -> Nat] /\ welcomes \in [Jobs -> Nat]
      BY ProcessorsAssumption, Zenon DEF ProcTypeOK
    <3>2. payments' \in [Subjects -> Jobs \cup {NoStatus}]
      BY <2>3, <3>1, Zenon
    <3>. QED  BY <2>3, <3>1, <3>2, BumpType, Zenon
  <2>. QED  BY <1>4, <2>1, <2>2, <2>4, Zenon
            DEF PaymentUpsert, RegistrationCreate, RegistrationWelcome, Try, otherStores, lifeVars, StoresTypeOK, ProcTypeOK
<1>5. ASSUME NEW j \in Jobs, NotificationSend(j) \/ NotificationRecord(j) \/ Audit(j) PROVE ProcTypeOK'
  <2>1. faults' \in 0..MaxFaults
    BY <1>0, <1>5, CallKeepsType, Zenon DEF NotificationSend, NotificationRecord, Audit, Try
  <2>2. ppc' \in [Jobs -> ProcessPC]
    BY <1>0, <1>5, Zenon DEF NotificationSend, NotificationRecord, Audit, Try, ProcessPC
  <2>3. sent' \in {sent, [sent EXCEPT ![j] = @ + 1]} /\ notes' \in {notes, [notes EXCEPT ![j] = @ + 1]}
    BY <1>5, Zenon DEF NotificationSend, NotificationRecord, Audit, Try, Bump, effectVars
  <2>4. sent' \in [Jobs -> Nat] /\ notes' \in [Jobs -> Nat]
    <3>1. sent \in [Jobs -> Nat] /\ notes \in [Jobs -> Nat]
      BY Zenon DEF ProcTypeOK
    <3>. QED  BY <2>3, <3>1, BumpType, Zenon
  <2>. QED  BY <1>5, <2>1, <2>2, <2>4, Zenon
            DEF NotificationSend, NotificationRecord, Audit, Try, otherStores, lifeVars, effectVars, StoresTypeOK, ProcTypeOK
<1>6. ASSUME NEW j \in Jobs, Finish(j) PROVE ProcTypeOK'
  <2>1. cur[j] \in 0..MaxRetries
    BY <1>0, Zenon
  <2>2. PICK n \in 0..MaxRetries, st \in JobStatus, pc \in ProcessPC : Record(j, n, st, pc)
    <3>1. /\ CanRetry([id |-> j, retry |-> cur[j]]) => cur[j] + 1 \in 0..MaxRetries
          /\ {"QUEUED", "SUCCESS", "DEAD_LETTER"} \subseteq JobStatus /\ {"push", "mark"} \subseteq ProcessPC
      BY <2>1, StoresAssumption DEF CanRetry, JobStatus, ProcessPC
    <3>2. CASE ppc[j] = "retryable" /\ CanRetry([id |-> j, retry |-> cur[j]])
      <4>1. Record(j, cur[j] + 1, "QUEUED", "push")
        BY <1>6, <3>2, Zenon DEF Finish
      <4>. QED  BY <3>1, <3>2, <4>1, Zenon
    <3>3. CASE ~(ppc[j] = "retryable" /\ CanRetry([id |-> j, retry |-> cur[j]]))
      <4>1. PICK st \in {"SUCCESS", "DEAD_LETTER"} : Record(j, cur[j], st, "mark")
        BY <1>6, <3>3, Zenon DEF Finish
      <4>. QED  BY <2>1, <3>1, <4>1, Zenon
    <3>. QED  BY <3>2, <3>3, Zenon
  <2>3. faults' \in 0..MaxFaults
    BY <1>0, <2>2, CallKeepsType, Zenon DEF Record
  <2>4. row' \in [Jobs -> Row]
    <3>1. [status |-> st, retry |-> n] \in Row
      BY <2>2 DEF Row
    <3>2. row' = row \/ row' = [row EXCEPT ![j] = IF @.status = "absent" THEN @ ELSE [status |-> st, retry |-> n]]
      <4>1. Update([id |-> j, retry |-> n], st) =>
              row' = [row EXCEPT ![j] = IF @.status = "absent" THEN @ ELSE [status |-> st, retry |-> n]]
        BY Zenon DEF Update
      <4>. QED  BY <2>2, <4>1, Zenon DEF Record
    <3>. QED  BY <1>0, <3>1, <3>2, Zenon
  <2>5. ppc' \in [Jobs -> ProcessPC] /\ cur' \in [Jobs -> 0..MaxRetries]
    BY <1>0, <2>2, Zenon DEF Record
  <2>. QED  BY <2>2, <2>3, <2>4, <2>5, Zenon DEF Record, otherStores, lifeVars, effectVars, StoresTypeOK, ProcTypeOK
<1>7. ASSUME NEW j \in Jobs, Mark(j) \/ Requeue(j) \/ RequeueAgain(j) PROVE ProcTypeOK'
  <2>1. faults' \in 0..MaxFaults
    BY <1>0, <1>7, CallKeepsType, Zenon DEF Mark, Requeue, RequeueAgain
  <2>2. ppc' \in [Jobs -> ProcessPC]
    BY <1>0, <1>7, Zenon DEF Mark, Requeue, RequeueAgain, ProcessPC
  <2>3. copies' \in [Jobs -> Seq(0..MaxRetries)]
    <3>1. copies[j] \in Seq(0..MaxRetries) /\ cur[j] \in 0..MaxRetries
      BY <1>0, Zenon
    <3>2. Append(copies[j], cur[j]) \in Seq(0..MaxRetries)
      BY <3>1
    <3>3. copies' \in {copies, [copies EXCEPT ![j] = Append(@, cur[j])]}
      BY <1>7, Zenon DEF Mark, Requeue, RequeueAgain, Pushed
    <3>. QED  BY <1>0, <3>2, <3>3, Zenon
  <2>4. doneKey' \in SUBSET Jobs
    BY <1>7, Zenon DEF Mark, Requeue, RequeueAgain, StoresTypeOK, ProcTypeOK
  <2>. QED  BY <1>7, <2>1, <2>2, <2>3, <2>4, Zenon
            DEF Mark, Requeue, RequeueAgain, otherStores, lifeVars, effectVars, StoresTypeOK, ProcTypeOK
<1>8. ASSUME NEW j \in Jobs, Skip(j) PROVE ProcTypeOK'
  <2>1. faults' \in 0..MaxFaults
    BY <1>0, <1>8, CallKeepsType, Zenon DEF Skip
  <2>2. copies[j] \in Seq(0..MaxRetries) /\ copies[j] # <<>>
    BY <1>0, <1>8, Zenon DEF Skip
  <2>3. Tail(copies[j]) \in Seq(0..MaxRetries)
    BY <2>2, TailType, Zenon
  <2>4. copies' \in [Jobs -> Seq(0..MaxRetries)]
    BY <1>0, <1>8, <2>3, Zenon DEF Skip
  <2>. QED  BY <1>8, <2>1, <2>4, Zenon DEF Skip, otherStores, lifeVars, effectVars, StoresTypeOK, ProcTypeOK
<1>9. ASSUME NEW s \in Subjects, DedupExpire(s) PROVE ProcTypeOK'
  BY <1>9, Zenon DEF DedupExpire, storeVars, lifeVars, StoresTypeOK, ProcTypeOK
<1>10. CASE Cancel \/ Restart
  <2>1. live' \in BOOLEAN /\ shutdowns' \in 0..MaxShutdowns
    <3>1. /\ live' \in BOOLEAN
          /\ shutdowns' = shutdowns \/ (shutdowns < MaxShutdowns /\ shutdowns' = shutdowns + 1)
      BY <1>10, Zenon DEF Cancel, Restart
    <3>2. MaxShutdowns \in Nat
      BY ProcessorsAssumption, Zenon
    <3>. QED  BY <1>0, <3>1, <3>2
  <2>. QED  BY <1>10, <2>1, Zenon DEF Cancel, Restart, storeVars, effectVars, StoresTypeOK, ProcTypeOK
<1>11. CASE UNCHANGED procVars
  BY <1>11, Zenon DEF procVars, storeVars, lifeVars, effectVars, StoresTypeOK, ProcTypeOK
<1>. QED  BY <1>1, <1>2, <1>3, <1>4, <1>5, <1>6, <1>7, <1>8, <1>9, <1>10, <1>11, Zenon
          DEF ProcNext, RunCopy, Process

\* Every variable of the processors has its type.
THEOREM ProcTypeCorrect == ProcSpec => []ProcTypeOK
<1>1. ProcInit => ProcTypeOK
  BY ProcessorsAssumption, StoresAssumption
  DEF ProcInit, StoresInit, ProcTypeOK, StoresTypeOK, ProcessPC, Row, JobStatus, Payload, NoBody
<1>. QED  BY <1>1, ProcTypeStep, PTL DEF ProcSpec

\* A job between its insert and its Incr has a row that is not counted yet.
Uncounted(pc) == {j \in Jobs : pc[j] = "incr"}

\* The rows of event scans, numbered for each code.
Stored(f) == UNION {{s} \X (1..f[s]) : s \in Subjects}

CountInv ==
  IsFiniteSet(Stored(scans)) /\ attendance + Cardinality(Uncounted(ppc)) <= Cardinality(Stored(scans))

\* Uncounted changes with the job that moves.
LEMMA UncountedMoves ==
  ASSUME NEW p \in [Jobs -> ProcessPC], NEW q \in [Jobs -> ProcessPC], NEW j \in Jobs,
         \A i \in Jobs \ {j} : q[i] = p[i]
  PROVE  /\ Cardinality(Uncounted(p)) \in Nat
         /\ Cardinality(Uncounted(q)) =
              Cardinality(Uncounted(p)) - (IF p[j] = "incr" THEN 1 ELSE 0) + (IF q[j] = "incr" THEN 1 ELSE 0)
<1>1. \A S : S \subseteq Jobs => IsFiniteSet(S) /\ Cardinality(S) \in Nat
  BY StoresAssumption, FS_Subset, FS_CardinalityType, Zenon
<1>2. Uncounted(p) \subseteq Jobs /\ Uncounted(q) \subseteq Jobs
  BY Zenon DEF Uncounted
<1>3. CASE (p[j] = "incr") = (q[j] = "incr")
  <2>1. Uncounted(q) = Uncounted(p)
    BY <1>3, Zenon DEF Uncounted
  <2>. QED  BY <1>1, <1>2, <1>3, <2>1
<1>4. CASE p[j] = "incr" /\ q[j] # "incr"
  <2>1. Uncounted(q) = Uncounted(p) \ {j} /\ j \in Uncounted(p)
    BY <1>4, Zenon DEF Uncounted
  <2>2. Cardinality(Uncounted(p) \ {j}) = Cardinality(Uncounted(p)) - 1
    BY <1>1, <1>2, <2>1, FS_RemoveElement, Zenon
  <2>. QED  BY <1>1, <1>2, <1>4, <2>1, <2>2
<1>5. CASE p[j] # "incr" /\ q[j] = "incr"
  <2>1. Uncounted(q) = Uncounted(p) \cup {j} /\ j \notin Uncounted(p)
    BY <1>5 DEF Uncounted
  <2>2. Cardinality(Uncounted(p) \cup {j}) = Cardinality(Uncounted(p)) + 1
    BY <1>1, <1>2, <2>1, FS_AddElement, Zenon
  <2>. QED  BY <1>1, <1>2, <1>5, <2>1, <2>2
<1>. QED  BY <1>3, <1>4, <1>5, Zenon

\* An insert adds one row.
LEMMA StoredGrows ==
  ASSUME NEW f \in [Subjects -> Nat], NEW g \in [Subjects -> Nat], NEW s \in Subjects,
         g[s] = f[s] + 1, \A x \in Subjects \ {s} : g[x] = f[x], IsFiniteSet(Stored(f))
  PROVE  IsFiniteSet(Stored(g)) /\ Cardinality(Stored(g)) = Cardinality(Stored(f)) + 1
<1>1. \A h \in [Subjects -> Nat] : \A x, n : <<x, n>> \in Stored(h) <=> x \in Subjects /\ n \in 1..h[x]
  BY DEF Stored
<1>2. \A h \in [Subjects -> Nat] : \A t \in Stored(h) : t = <<t[1], t[2]>>
  BY DEF Stored
<1>3. <<s, g[s]>> \notin Stored(f)
  BY <1>1
<1>4. Stored(g) = Stored(f) \cup {<<s, g[s]>>}
  <2>1. ASSUME NEW t \in Stored(g) PROVE t \in Stored(f) \cup {<<s, g[s]>>}
    <3>1. t = <<t[1], t[2]>> /\ t[1] \in Subjects /\ t[2] \in 1..g[t[1]]
      BY <1>1, <1>2, <2>1
    <3>2. t[2] \in 1..f[t[1]] \/ (t[1] = s /\ t[2] = g[s])
      BY <3>1
    <3>. QED  BY <1>1, <3>1, <3>2
  <2>2. ASSUME NEW t \in Stored(f) PROVE t \in Stored(g)
    <3>1. t = <<t[1], t[2]>> /\ t[1] \in Subjects /\ t[2] \in 1..f[t[1]]
      BY <1>1, <1>2, <2>2
    <3>2. t[2] \in 1..g[t[1]]
      BY <3>1
    <3>. QED  BY <1>1, <3>1, <3>2
  <2>3. <<s, g[s]>> \in Stored(g)
    BY <1>1
  <2>. QED  BY <2>1, <2>2, <2>3, Zenon
<1>. QED  BY <1>3, <1>4, FS_AddElement

\* A step that stores and counts nothing.
LEMMA QuietCount ==
  ASSUME ProcTypeOK, CountInv, NEW j \in Jobs, NEW pc \in ProcessPC, pc # "incr", ppc[j] # "incr",
         ppc' = [ppc EXCEPT ![j] = pc], UNCHANGED <<scans, attendance>>
  PROVE  CountInv'
<1>1. PICK q : q = ppc'
  BY Zenon
<1>2. q \in [Jobs -> ProcessPC] /\ q[j] = pc /\ \A i \in Jobs \ {j} : q[i] = ppc[i]
  BY <1>1, MoveType, Zenon DEF ProcTypeOK
<1>3. Cardinality(Uncounted(ppc)) \in Nat /\ Cardinality(Uncounted(q)) = Cardinality(Uncounted(ppc))
  <2>1. ppc \in [Jobs -> ProcessPC]
    BY Zenon DEF ProcTypeOK
  <2>2. /\ Cardinality(Uncounted(ppc)) \in Nat
        /\ Cardinality(Uncounted(q)) = Cardinality(Uncounted(ppc)) - (IF ppc[j] = "incr" THEN 1 ELSE 0) + (IF q[j] = "incr" THEN 1 ELSE 0)
    BY <1>2, <2>1, UncountedMoves, Zenon
  <2>. QED  BY <1>2, <2>2
<1>. QED  BY <1>1, <1>3, Zenon DEF CountInv

\* Every step of a run keeps the count: Incr is only reached through an
\* insert that took effect, and left by at most one more.
LEMMA CountStep == ProcTypeOK /\ CountInv /\ [ProcNext]_procVars => CountInv'
<1>. SUFFICES ASSUME ProcTypeOK, CountInv, [ProcNext]_procVars PROVE CountInv'
  BY Zenon
<1>0. /\ attendance \in Nat /\ ppc \in [Jobs -> ProcessPC] /\ scans \in [Subjects -> Nat]
      /\ Cardinality(Stored(scans)) \in Nat
  BY FS_CardinalityType, Zenon DEF ProcTypeOK, CountInv
<1>1. ASSUME NEW j \in Jobs, NEW body \in PayloadsOf[j], Accept(j, body) PROVE CountInv'
  <2>1. \E pc \in ProcessPC \ {"incr"} : ppc' = [ppc EXCEPT ![j] = pc]
    BY <1>1, Zenon DEF Accept, ProcessPC
  <2>. QED  BY <1>1, <2>1, QuietCount, Zenon DEF Accept, effectVars
<1>2. ASSUME NEW j \in Jobs, Begin(j) PROVE CountInv'
  <2>1. \A t \in JobTypes : FirstStep(t) \in ProcessPC \ {"incr"}
    BY Zenon DEF FirstStep, JobTypes, ProcessPC
  <2>2. \E pc \in ProcessPC \ {"incr"} : ppc' = [ppc EXCEPT ![j] = pc]
    BY <1>2, <2>1, StoresAssumption, Zenon DEF Begin, ProcessPC
  <2>. QED  BY <1>2, <2>2, QuietCount, Zenon DEF Begin, effectVars
<1>3. ASSUME NEW j \in Jobs, QRStore(j) PROVE CountInv'
  <2>1. /\ SubjectOf[j] \in Subjects /\ attendance' = attendance /\ ppc[j] = "store"
        /\ \/ scans' = [scans EXCEPT ![SubjectOf[j]] = @ + 1] /\ \E pc \in ProcessPC : ppc' = [ppc EXCEPT ![j] = pc]
           \/ scans' = scans /\ ppc' = [ppc EXCEPT ![j] = "retryable"]
    BY <1>3, ProcessorsAssumption, Zenon DEF QRStore, Try, Bump, ProcessPC
  <2>2. CASE scans' = scans /\ ppc' = [ppc EXCEPT ![j] = "retryable"]
    <3>1. "retryable" \in ProcessPC
      BY Zenon DEF ProcessPC
    <3>. QED  BY <2>1, <2>2, <3>1, QuietCount, Zenon
  <2>3. ASSUME scans' = [scans EXCEPT ![SubjectOf[j]] = @ + 1], NEW pc \in ProcessPC, ppc' = [ppc EXCEPT ![j] = pc]
        PROVE  CountInv'
    <3>1. PICK q, t, s : q = ppc' /\ t = scans' /\ s = SubjectOf[j]
      BY Zenon
    <3>2. q \in [Jobs -> ProcessPC] /\ \A i \in Jobs \ {j} : q[i] = ppc[i]
      BY <1>0, <2>3, <3>1, MoveType, Zenon
    <3>3. Cardinality(Uncounted(ppc)) \in Nat /\ Cardinality(Uncounted(q)) \in {Cardinality(Uncounted(ppc)), Cardinality(Uncounted(ppc)) + 1}
      BY <1>0, <2>1, <3>2, UncountedMoves
    <3>4. t \in [Subjects -> Nat] /\ s \in Subjects /\ t[s] = scans[s] + 1 /\ \A x \in Subjects \ {s} : t[x] = scans[x]
      BY <1>0, <2>1, <2>3, <3>1
    <3>5. IsFiniteSet(Stored(t)) /\ Cardinality(Stored(t)) = Cardinality(Stored(scans)) + 1
      BY <1>0, <3>4, StoredGrows, Zenon DEF CountInv
    <3>. QED  BY <1>0, <2>1, <3>1, <3>3, <3>4, <3>5 DEF CountInv
  <2>. QED  BY <2>1, <2>2, <2>3, Zenon
<1>4. ASSUME NEW j \in Jobs, QRIncr(j) PROVE CountInv'
  <2>1. /\ ppc[j] = "incr" /\ ppc' = [ppc EXCEPT ![j] = "audit"] /\ scans' = scans
        /\ attendance' \in {attendance, attendance + 1}
    BY <1>4, Zenon DEF QRIncr, Try
  <2>2. PICK q : q = ppc'
    BY Zenon
  <2>3. q \in [Jobs -> ProcessPC] /\ q[j] = "audit" /\ \A i \in Jobs \ {j} : q[i] = ppc[i]
    BY <1>0, <2>1, <2>2, MoveType, Zenon DEF ProcessPC
  <2>4. Cardinality(Uncounted(ppc)) \in Nat /\ Cardinality(Uncounted(q)) = Cardinality(Uncounted(ppc)) - 1
    <3>1. /\ Cardinality(Uncounted(ppc)) \in Nat
          /\ Cardinality(Uncounted(q)) = Cardinality(Uncounted(ppc)) - (IF ppc[j] = "incr" THEN 1 ELSE 0) + (IF q[j] = "incr" THEN 1 ELSE 0)
      BY <1>0, <2>3, UncountedMoves, Zenon
    <3>. QED  BY <2>1, <2>3, <3>1
  <2>. QED  BY <1>0, <2>1, <2>2, <2>4 DEF CountInv
<1>5. ASSUME NEW j \in Jobs,
             \/ QRDedup(j) \/ PaymentUpsert(j) \/ RegistrationCreate(j) \/ RegistrationWelcome(j)
             \/ NotificationSend(j) \/ NotificationRecord(j)
      PROVE  CountInv'
  <2>1. UNCHANGED <<scans, attendance>>
    BY <1>5, Zenon DEF QRDedup, PaymentUpsert, RegistrationCreate, RegistrationWelcome, NotificationSend, NotificationRecord
  <2>2. ppc[j] # "incr" /\ \E pc \in ProcessPC \ {"incr"} : ppc' = [ppc EXCEPT ![j] = pc]
    BY <1>5, Zenon DEF QRDedup, PaymentUpsert, RegistrationCreate, RegistrationWelcome, NotificationSend,
                NotificationRecord, Try, ProcessPC
  <2>. QED  BY <2>1, <2>2, QuietCount, Zenon
<1>6. ASSUME NEW j \in Jobs, Audit(j) \/ Finish(j) \/ Mark(j) \/ Requeue(j) \/ RequeueAgain(j) PROVE CountInv'
  <2>1. UNCHANGED <<scans, attendance>>
    BY <1>6, Zenon DEF Audit, Finish, Record, Mark, Requeue, RequeueAgain, effectVars
  <2>2. ppc[j] # "incr" /\ \E pc \in ProcessPC \ {"incr"} : ppc' = [ppc EXCEPT ![j] = pc]
    BY <1>6, Zenon DEF Audit, Finish, Record, Mark, Requeue, RequeueAgain, Try, ProcessPC
  <2>. QED  BY <2>1, <2>2, QuietCount, Zenon
<1>7. CASE \/ UNCHANGED procVars \/ Cancel \/ Restart
           \/ (\E s \in Subjects : DedupExpire(s)) \/ \E j \in Jobs : Skip(j)
  <2>1. UNCHANGED <<ppc, scans, attendance>>
    BY <1>7, Zenon DEF procVars, effectVars, DedupExpire, Cancel, Restart, Skip
  <2>. QED  BY <2>1, Zenon DEF CountInv
<1>. QED  BY <1>1, <1>2, <1>3, <1>4, <1>5, <1>6, <1>7, Zenon DEF ProcNext, RunCopy, Process

\* qrscan_processor.go: attendance never exceeds the scans stored, however
\* runs fail between the insert and the Incr and are repeated.
THEOREM NoDoubleCountHolds == ProcSpec => []NoDoubleCount
<1>1. ProcInit => CountInv
  <2>. SUFFICES ASSUME ProcInit PROVE CountInv
    BY Zenon
  <2>1. attendance = 0 /\ ppc = [j \in Jobs |-> "new"] /\ scans = [s \in Subjects |-> 0]
    BY Zenon DEF ProcInit
  <2>2. Uncounted(ppc) = {} /\ Stored(scans) = {}
    BY <2>1 DEF Uncounted, Stored
  <2>. QED  BY <2>1, <2>2, FS_EmptySet DEF CountInv
<1>2. ProcTypeOK /\ CountInv => NoDoubleCount
  <2>1. ProcTypeOK => IsFiniteSet(Uncounted(ppc))
    BY StoresAssumption, FS_Subset, Zenon DEF Uncounted
  <2>2. ProcTypeOK /\ CountInv =>
          attendance \in Nat /\ Cardinality(Uncounted(ppc)) \in Nat /\ Cardinality(Stored(scans)) \in Nat
    BY <2>1, FS_CardinalityType, Zenon DEF ProcTypeOK, CountInv
  <2>. QED  BY <2>2 DEF CountInv, NoDoubleCount, Stored
<1>. QED  BY <1>1, <1>2, CountStep, ProcTypeCorrect, PTL DEF ProcSpec
=============================================================================
