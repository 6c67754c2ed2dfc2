--------------------------- MODULE IngressProofs ----------------------------
(***************************************************************************)
(* The chain in front of Enqueue, for every number of requests, clients    *)
(* and keys, every rate, threshold and sequence of faults: first the bound *)
(* on the queue depth, which the depth check with Enqueue behind it keeps, *)
(* then the chain as a whole.                                              *)
(***************************************************************************)
EXTENDS Ingress, ServiceProofs, FiniteSetTheorems

-----------------------------------------------------------------------------
(***************************************************************************)
(* The bound on the queue depth.  Whoever still may push after its check   *)
(* was in the chain at the last instant the depth was below the threshold. *)
(* A request in the middle of its three reads is counted by what it would  *)
(* add up if it read the remaining lists now.  A pop can make that sum     *)
(* fall, but a pop of a later list means the earlier ones are empty, so    *)
(* the depth itself is then no larger than the sum.                        *)
(***************************************************************************)

\* The request may still push: its check is over and its push is not, or the
\* check would let it through if the lists stayed as they are.
MayPush(j) ==
  \/ bpc[j] = "passed" /\ rpc[j] \in {"new", "claim", "create", "push"}
  \/ bpc[j] = "HIGH" /\ TotalDepth < Threshold
  \/ bpc[j] = "MEDIUM" /\ sum[j] + Len(queue["MEDIUM"]) + Len(queue["LOW"]) < Threshold
  \/ bpc[j] = "LOW" /\ sum[j] + Len(queue["LOW"]) < Threshold

Pending == {j \in Jobs : MayPush(j)}

BpShape ==
  /\ queue \in [Priorities -> Seq(Copy)]
  /\ rpc \in [Jobs -> RequestPC]
  /\ bpc \in [Jobs -> {"out", "shed", "passed"} \cup Reading]
  /\ sum \in [Jobs -> Nat]
  /\ opened \subseteq Jobs
  /\ unchecked \in Nat /\ background \in 0..MaxBackground
  /\ \A j \in opened : bpc[j] = "passed"
  /\ \A j \in Jobs : bpc[j] # "passed" => rpc[j] = "new"

FlightBound == Cardinality(InFlight) <= MaxInFlight

\* What is at most the bound: a depth d and those who may still add to it.
Bounded(d, P, O, u) ==
  Threshold > 0 /\ d >= Threshold =>
    d + Cardinality(P) <= Threshold - 1 + MaxInFlight + Cardinality(O) + u

DepthInv == Bounded(TotalDepth, Pending, opened, unchecked)

BpInv == BpShape /\ FlightBound /\ DepthInv

-----------------------------------------------------------------------------
(***************************************************************************)
(* The four ways a step changes the depth and the sets.                   *)
(***************************************************************************)

\* Sets of requests are finite and their cardinality is monotonic.
LEMMA RequestSets ==
  ASSUME NEW S \in SUBSET Jobs, NEW T \in SUBSET S
  PROVE  /\ IsFiniteSet(S) /\ IsFiniteSet(T)
         /\ Cardinality(S) \in Nat /\ Cardinality(T) \in Nat /\ Cardinality(T) <= Cardinality(S)
<1>1. IsFiniteSet(S)
  BY StoresAssumption, FS_Subset, Zenon
<1>2. IsFiniteSet(T) /\ Cardinality(T) <= Cardinality(S)
  BY <1>1, FS_Subset, Zenon
<1> QED
  BY <1>1, <1>2, FS_CardinalityType, Zenon

\* Nothing is added to the lists, and nobody to those who may push, unless
\* the depth is below the threshold.
LEMMA BoundShrinks ==
  ASSUME NEW d \in Nat, NEW e \in Nat, NEW P \in SUBSET Jobs, NEW Q \in SUBSET Jobs,
         NEW O \in SUBSET Jobs, NEW u \in Nat, NEW v \in Nat, Bounded(d, P, O, u),
         e >= Threshold => e <= d,
         e >= Threshold => Q \subseteq P,
         e >= Threshold => v = u
  PROVE  Bounded(e, Q, O, v)
<1> SUFFICES ASSUME Threshold > 0, e >= Threshold
             PROVE  e + Cardinality(Q) <= Threshold - 1 + MaxInFlight + Cardinality(O) + u
  BY Zenon DEF Bounded
<1>1. Cardinality(Q) \in Nat /\ Cardinality(P) \in Nat /\ Cardinality(Q) <= Cardinality(P)
  BY RequestSets, Zenon
<1>2. Cardinality(O) \in Nat
  BY RequestSets, Zenon
<1>3. e <= d /\ d >= Threshold
  BY BackpressureAssumption
<1>4. d + Cardinality(P) <= Threshold - 1 + MaxInFlight + Cardinality(O) + u
  BY <1>3, Zenon DEF Bounded
<1> QED
  BY <1>1, <1>2, <1>3, <1>4, BackpressureAssumption

\* One of those who may push does.
LEMMA BoundPush ==
  ASSUME NEW d \in Nat, NEW P \in SUBSET Jobs, NEW Q \in SUBSET Jobs, NEW O \in SUBSET Jobs,
         NEW F \in SUBSET Jobs, P \subseteq F, Cardinality(F) <= MaxInFlight,
         NEW j \in P, Q \subseteq P \ {j}, NEW u \in Nat, Bounded(d, P, O, u)
  PROVE  Bounded(d + 1, Q, O, u)
<1> SUFFICES ASSUME Threshold > 0, d + 1 >= Threshold
             PROVE  d + 1 + Cardinality(Q) <= Threshold - 1 + MaxInFlight + Cardinality(O) + u
  BY Zenon DEF Bounded
<1>1. Cardinality(P) \in Nat /\ IsFiniteSet(P) /\ Cardinality(P) <= Cardinality(F) /\ Cardinality(F) \in Nat
  BY RequestSets, Zenon
<1>2. Cardinality(P \ {j}) = Cardinality(P) - 1
  BY <1>1, FS_RemoveElement, Zenon
<1>3. Cardinality(Q) \in Nat /\ Cardinality(Q) <= Cardinality(P \ {j})
  BY RequestSets, Zenon
<1>4. Cardinality(O) \in Nat
  BY RequestSets, Zenon
<1>5. CASE d >= Threshold
  <2>1. d + Cardinality(P) <= Threshold - 1 + MaxInFlight + Cardinality(O) + u
    BY <1>5, Zenon DEF Bounded
  <2> QED
    BY <2>1, <1>1, <1>2, <1>3, <1>4, BackpressureAssumption
<1>6. CASE ~(d >= Threshold)
  BY <1>1, <1>2, <1>3, <1>4, <1>6, BackpressureAssumption
<1> QED
  BY <1>5, <1>6, Zenon

\* Somebody pushes who met no check.
LEMMA BoundUnchecked ==
  ASSUME NEW d \in Nat, NEW P \in SUBSET Jobs, NEW Q \in SUBSET P, NEW O \in SUBSET Jobs,
         NEW F \in SUBSET Jobs, P \subseteq F, Cardinality(F) <= MaxInFlight,
         NEW u \in Nat, NEW v \in Nat, v = (IF d + 1 < Threshold THEN 0 ELSE u + 1), Bounded(d, P, O, u)
  PROVE  Bounded(d + 1, Q, O, v)
<1> SUFFICES ASSUME Threshold > 0, d + 1 >= Threshold
             PROVE  d + 1 + Cardinality(Q) <= Threshold - 1 + MaxInFlight + Cardinality(O) + v
  BY Zenon DEF Bounded
<1>0. v = u + 1
  BY BackpressureAssumption
<1>1. Cardinality(P) \in Nat /\ Cardinality(P) <= Cardinality(F) /\ Cardinality(F) \in Nat
  BY RequestSets, Zenon
<1>2. Cardinality(Q) \in Nat /\ Cardinality(Q) <= Cardinality(P)
  BY RequestSets, Zenon
<1>3. Cardinality(O) \in Nat
  BY RequestSets, Zenon
<1>4. CASE d >= Threshold
  <2>1. d + Cardinality(P) <= Threshold - 1 + MaxInFlight + Cardinality(O) + u
    BY <1>4, Zenon DEF Bounded
  <2> QED
    BY <2>1, <1>0, <1>1, <1>2, <1>3, BackpressureAssumption
<1>5. CASE ~(d >= Threshold)
  BY <1>0, <1>1, <1>2, <1>3, <1>5, BackpressureAssumption
<1> QED
  BY <1>4, <1>5, Zenon

\* A request is let through unchecked.
LEMMA BoundOpen ==
  ASSUME NEW d \in Nat, NEW P \in SUBSET Jobs, NEW Q \in SUBSET Jobs, NEW O \in SUBSET Jobs,
         NEW j \in Jobs \ O, Q \subseteq P \cup {j}, NEW u \in Nat, Bounded(d, P, O, u)
  PROVE  Bounded(d, Q, O \cup {j}, u)
<1> SUFFICES ASSUME Threshold > 0, d >= Threshold
             PROVE  d + Cardinality(Q) <= Threshold - 1 + MaxInFlight + Cardinality(O \cup {j}) + u
  BY Zenon DEF Bounded
<1>1. Cardinality(P) \in Nat /\ IsFiniteSet(P) /\ Cardinality(O) \in Nat /\ IsFiniteSet(O)
  BY RequestSets, Zenon
<1>2. Cardinality(O \cup {j}) = Cardinality(O) + 1
  BY <1>1, FS_AddElement, Zenon
<1>3. Cardinality(P \cup {j}) \in Nat /\ Cardinality(P \cup {j}) <= Cardinality(P) + 1
  <2>1. Cardinality(P \cup {j}) = IF j \in P THEN Cardinality(P) ELSE Cardinality(P) + 1
    BY <1>1, FS_AddElement, Zenon
  <2> QED
    BY <1>1, <2>1
<1>4. Cardinality(Q) \in Nat /\ Cardinality(Q) <= Cardinality(P \cup {j})
  <2>1. P \cup {j} \in SUBSET Jobs
    BY Zenon
  <2> QED
    BY <2>1, RequestSets, Zenon
<1>5. d + Cardinality(P) <= Threshold - 1 + MaxInFlight + Cardinality(O) + u
  BY Zenon DEF Bounded
<1> QED
  BY <1>1, <1>2, <1>3, <1>4, <1>5, BackpressureAssumption
-----------------------------------------------------------------------------
(***************************************************************************)
(* The steps.                                                              *)
(***************************************************************************)

\* The lengths of the lists are natural numbers.
LEMMA DepthType ==
  ASSUME BpShape
  PROVE  /\ Len(queue["HIGH"]) \in Nat /\ Len(queue["MEDIUM"]) \in Nat /\ Len(queue["LOW"]) \in Nat
         /\ TotalDepth \in Nat
BY DEF BpShape, Priorities, TotalDepth

\* Whoever may still push is in the chain.
LEMMA PendingInFlight ==
  ASSUME BpShape
  PROVE  Pending \subseteq InFlight /\ InFlight \subseteq Jobs
BY Zenon DEF BpShape, Pending, MayPush, InFlight, Reading, Outcomes

\* Push makes one list longer by one.
LEMMA PushDepth ==
  ASSUME BpShape, NEW c \in Copy, Push(c)
  PROVE  /\ queue' \in [Priorities -> Seq(Copy)]
         /\ TotalDepth' = TotalDepth + 1
         /\ Len(queue["MEDIUM"]) <= Len(queue'["MEDIUM"])
         /\ Len(queue["LOW"]) <= Len(queue'["LOW"])
         /\ Len(queue'["MEDIUM"]) + Len(queue'["LOW"]) <= Len(queue["MEDIUM"]) + Len(queue["LOW"]) + 1
         /\ Len(queue'["LOW"]) <= Len(queue["LOW"]) + 1
<1>1. PICK p \in Priorities : p = keyForPriority(c)
  BY Zenon DEF keyForPriority, PriorityForType, Priorities
<1>2. queue' = [queue EXCEPT ![p] = Append(queue[p], c)]
  BY <1>1, Zenon DEF Push, BpShape
<1>3. Append(queue[p], c) \in Seq(Copy) /\ Len(Append(queue[p], c)) = Len(queue[p]) + 1
  BY DEF BpShape
<1>4. queue' \in [Priorities -> Seq(Copy)]
  BY <1>2, <1>3, Zenon DEF BpShape
<1>5. \A x \in Priorities : Len(queue'[x]) = IF x = p THEN Len(queue[x]) + 1 ELSE Len(queue[x])
  BY <1>2, <1>3, Zenon DEF BpShape
<1>6. p \in {"HIGH", "MEDIUM", "LOW"} /\ {"HIGH", "MEDIUM", "LOW"} = Priorities
  BY Zenon DEF Priorities
<1>7. PICK a \in Nat, b \in Nat, d \in Nat :
        a = Len(queue["HIGH"]) /\ b = Len(queue["MEDIUM"]) /\ d = Len(queue["LOW"])
  BY DepthType, Zenon
<1>8. /\ Len(queue'["HIGH"]) = IF "HIGH" = p THEN a + 1 ELSE a
      /\ Len(queue'["MEDIUM"]) = IF "MEDIUM" = p THEN b + 1 ELSE b
      /\ Len(queue'["LOW"]) = IF "LOW" = p THEN d + 1 ELSE d
  BY <1>5, <1>7, Zenon DEF Priorities
<1>9. PICK x \in Nat, y \in Nat, z \in Nat :
        x = Len(queue'["HIGH"]) /\ y = Len(queue'["MEDIUM"]) /\ z = Len(queue'["LOW"])
  BY <1>8
<1>10. x + y + z = a + b + d + 1 /\ b <= y /\ d <= z /\ y + z <= b + d + 1 /\ z <= d + 1
  BY <1>6, <1>8, <1>9
<1>11. TotalDepth = a + b + d /\ TotalDepth' = x + y + z
  BY <1>7, <1>9, Zenon DEF TotalDepth
<1> QED
  BY <1>4, <1>7, <1>9, <1>10, <1>11, Zenon

\* What is left of a list when its head is taken.
LEMMA TailLength ==
  ASSUME NEW S, NEW s \in Seq(S), s # <<>>
  PROVE  Tail(s) \in Seq(S) /\ Len(s) \in Nat /\ Len(Tail(s)) = Len(s) - 1
OBVIOUS

\* Consume makes one list shorter by one, and those before it are empty.
LEMMA ConsumeDepth ==
  ASSUME BpShape, NEW p \in Priorities, Consume(p)
  PROVE  /\ queue' \in [Priorities -> Seq(Copy)]
         /\ \A x \in Priorities : /\ Len(queue'[x]) \in Nat
                                  /\ Len(queue'[x]) <= Len(queue[x])
                                  /\ x # p => Len(queue'[x]) = Len(queue[x])
         /\ p \in {"MEDIUM", "LOW"} => Len(queue'["HIGH"]) = 0
         /\ p = "LOW" => Len(queue'["MEDIUM"]) = 0
<1>1. queue[p] \in Seq(Copy) /\ queue[p] # <<>>
  BY Zenon DEF Consume, Served, BpShape
<1>2. Tail(queue[p]) \in Seq(Copy) /\ Len(Tail(queue[p])) = Len(queue[p]) - 1 /\ Len(queue[p]) \in Nat
  BY <1>1, TailLength, Zenon
<1>3. queue' = [queue EXCEPT ![p] = Tail(queue[p])]
  BY Zenon DEF Consume, BpShape
<1>4. queue' \in [Priorities -> Seq(Copy)]
  BY <1>2, <1>3, Zenon DEF BpShape
<1>5. ASSUME NEW x \in Priorities
      PROVE  /\ Len(queue'[x]) \in Nat
             /\ Len(queue'[x]) <= Len(queue[x])
             /\ x # p => Len(queue'[x]) = Len(queue[x])
  <2>1. CASE x = p
    <3>1. queue'[x] = Tail(queue[p])
      BY <1>3, <2>1, Zenon DEF BpShape
    <3> QED
      BY <1>2, <1>4, <2>1, <3>1
  <2>2. CASE x # p
    BY <1>3, <1>4, <2>2 DEF BpShape
  <2> QED
    BY <2>1, <2>2, Zenon
<1>6. \A h \in Before(p) : queue[h] = <<>>
  BY Zenon DEF Consume, Served
<1>7. p \in {"MEDIUM", "LOW"} => "HIGH" \in Before(p)
  BY Zenon DEF Before
<1>8. p = "LOW" => "MEDIUM" \in Before(p)
  BY Zenon DEF Before
<1>9. \A x \in {"HIGH", "MEDIUM"} : x # p /\ queue[x] = <<>> => Len(queue'[x]) = 0
  BY <1>5 DEF Priorities
<1> QED
  BY <1>4, <1>5, <1>6, <1>7, <1>8, <1>9, Zenon

\* A pop: whoever gains by it, gains because the depth is below the threshold.
LEMMA ConsumeInv ==
  ASSUME BpInv, NEW p \in Priorities, Consume(p)
  PROVE  BpInv'
<1> USE DEF BpInv
<1>1. UNCHANGED <<rpc, bpc, sum, opened, background>>
  BY Zenon DEF Consume, gatewayVars, checkVars
<1>0. unchecked' = (IF TotalDepth' < Threshold THEN 0 ELSE unchecked) /\ unchecked \in Nat /\ unchecked' \in Nat
  BY DEF Consume, BpShape
<1>2. BpShape'
  BY <1>0, <1>1, ConsumeDepth, Zenon DEF BpShape
<1>3. FlightBound'
  BY <1>1, Zenon DEF FlightBound, InFlight
<1>4. PICK a \in Nat, b \in Nat, c \in Nat :
        a = Len(queue["HIGH"]) /\ b = Len(queue["MEDIUM"]) /\ c = Len(queue["LOW"])
  BY DepthType, Zenon
<1>5. PICK x \in Nat, y \in Nat, z \in Nat :
        x = Len(queue'["HIGH"]) /\ y = Len(queue'["MEDIUM"]) /\ z = Len(queue'["LOW"])
  BY ConsumeDepth, Zenon DEF Priorities
<1>6. /\ x <= a /\ y <= b /\ z <= c
      /\ y # b => x = 0
      /\ z # c => x = 0 /\ y = 0
  BY <1>4, <1>5, ConsumeDepth, Zenon DEF Priorities
<1>7. TotalDepth = a + b + c /\ TotalDepth' = x + y + z
  BY <1>4, <1>5, Zenon DEF TotalDepth
<1>8. TotalDepth' >= Threshold => Pending' \subseteq Pending
  <2> SUFFICES ASSUME x + y + z >= Threshold, NEW j \in Jobs, MayPush(j)'
               PROVE  MayPush(j)
    BY <1>7, Zenon DEF Pending
  <2>1. sum[j] \in Nat
    BY Zenon DEF BpShape
  <2>2. CASE bpc[j] = "passed" /\ rpc[j] \in {"new", "claim", "create", "push"}
    BY <2>2, Zenon DEF MayPush
  <2>3. CASE bpc[j] = "HIGH" /\ x + y + z < Threshold
    BY <2>3, BackpressureAssumption
  <2>4. CASE bpc[j] = "MEDIUM" /\ sum[j] + y + z < Threshold
    <3>1. sum[j] + b + c < Threshold
      BY <2>1, <2>4, <1>6, BackpressureAssumption
    <3> QED
      BY <2>4, <3>1, <1>4, Zenon DEF MayPush
  <2>5. CASE bpc[j] = "LOW" /\ sum[j] + z < Threshold
    <3>1. sum[j] + c < Threshold
      BY <2>1, <2>5, <1>6, BackpressureAssumption
    <3> QED
      BY <2>5, <3>1, <1>4, Zenon DEF MayPush
  <2> QED
    BY <1>1, <1>5, <1>7, <2>2, <2>3, <2>4, <2>5, Zenon DEF MayPush
<1>9. TotalDepth' <= TotalDepth /\ TotalDepth \in Nat /\ TotalDepth' \in Nat
  BY <1>6, <1>7
<1>10. Pending \in SUBSET Jobs /\ Pending' \in SUBSET Jobs /\ opened \in SUBSET Jobs /\ opened' = opened
  BY <1>1, Zenon DEF Pending, BpShape
<1>11. TotalDepth' >= Threshold => unchecked' = unchecked
  BY <1>0, <1>9, BackpressureAssumption
<1>12. DepthInv'
  <2>1. PICK d, e, P, Q, u, v : /\ d = TotalDepth /\ e = TotalDepth' /\ P = Pending /\ Q = Pending'
                                /\ u = unchecked /\ v = unchecked'
    BY Zenon
  <2>2. /\ d \in Nat /\ e \in Nat /\ P \in SUBSET Jobs /\ Q \in SUBSET Jobs /\ opened \in SUBSET Jobs
        /\ u \in Nat /\ v \in Nat /\ Bounded(d, P, opened, u)
    BY <1>0, <1>9, <1>10, <2>1, Zenon DEF DepthInv
  <2>3. e <= d /\ (e >= Threshold => Q \subseteq P) /\ (e >= Threshold => v = u)
    BY <1>8, <1>9, <1>11, <2>1, Zenon
  <2>4. Bounded(e, Q, opened, v)
    BY <2>2, <2>3, BoundShrinks, Zenon
  <2> QED
    BY <1>10, <2>1, <2>4, Zenon DEF DepthInv
<1> QED
  BY <1>2, <1>3, <1>12, Zenon

\* A step that leaves the lists alone and lets nobody in.
LEMMA QuietInv ==
  ASSUME BpInv, BpShape', queue' = queue, opened' = opened, unchecked' = unchecked, InFlight' \subseteq InFlight,
         TotalDepth >= Threshold => Pending' \subseteq Pending
  PROVE  BpInv'
<1> USE DEF BpInv
<1>1. FlightBound'
  <2>1. Cardinality(InFlight') <= Cardinality(InFlight) /\ Cardinality(InFlight') \in Nat /\ Cardinality(InFlight) \in Nat
    BY PendingInFlight, RequestSets, Zenon
  <2> QED
    BY <2>1, BackpressureAssumption DEF FlightBound
<1>2. TotalDepth' = TotalDepth /\ TotalDepth \in Nat
  BY DepthType, Zenon DEF TotalDepth
<1>3. Pending \in SUBSET Jobs /\ Pending' \in SUBSET Jobs /\ opened \in SUBSET Jobs /\ unchecked \in Nat
  BY Zenon DEF Pending, BpShape
<1>4. TotalDepth >= Threshold => TotalDepth <= TotalDepth
  BY <1>2
<1>5. DepthInv'
  BY <1>2, <1>3, <1>4, BoundShrinks, Zenon DEF DepthInv
<1> QED
  BY <1>1, <1>5, Zenon

\* A request enters the chain.
LEMMA ArriveInv ==
  ASSUME BpInv, NEW j \in Jobs, Arrive(j)
  PROVE  BpInv'
<1> USE DEF BpInv
<1>1. UNCHANGED <<queue, rpc, sum, opened, unchecked, background>>
  BY Zenon DEF Arrive, gwVars, storeVars, gatewayVars, pushVars
<1>2. bpc' = [bpc EXCEPT ![j] = IF Threshold > 0 THEN "HIGH" ELSE "passed"] /\ bpc[j] = "out"
  BY Zenon DEF Arrive
<1>3. BpShape'
  BY <1>1, <1>2, Zenon DEF BpShape, Reading
<1>4. FlightBound'
  <2>1. InFlight' \subseteq InFlight \cup {j} /\ InFlight \subseteq Jobs
    BY <1>1, <1>2, Zenon DEF InFlight, BpShape
  <2>2. IsFiniteSet(InFlight) /\ Cardinality(InFlight) \in Nat
    BY <2>1, RequestSets, Zenon
  <2>3. Cardinality(InFlight \cup {j}) = IF j \in InFlight THEN Cardinality(InFlight) ELSE Cardinality(InFlight) + 1
    BY <2>2, FS_AddElement, Zenon
  <2>4. InFlight \cup {j} \in SUBSET Jobs /\ InFlight' \in SUBSET (InFlight \cup {j})
    BY <2>1, Zenon
  <2>5. Cardinality(InFlight') <= Cardinality(InFlight \cup {j}) /\ Cardinality(InFlight') \in Nat
    BY <2>4, RequestSets, Zenon
  <2>6. Cardinality(InFlight) < MaxInFlight
    BY Zenon DEF Arrive
  <2> QED
    BY <2>2, <2>3, <2>5, <2>6, BackpressureAssumption DEF FlightBound
<1>5. TotalDepth' = TotalDepth /\ TotalDepth \in Nat
  BY <1>1, DepthType, Zenon DEF TotalDepth
<1>6. CASE Threshold > 0
  <2>1. TotalDepth >= Threshold => Pending' \subseteq Pending
    <3> SUFFICES ASSUME TotalDepth >= Threshold, NEW i \in Jobs, MayPush(i)' PROVE MayPush(i)
      BY Zenon DEF Pending
    <3>1. CASE i = j
      BY <1>2, <1>5, <1>6, <3>1, BackpressureAssumption DEF MayPush, BpShape
    <3>2. CASE i # j
      BY <1>1, <1>2, <1>5, <3>2, Zenon DEF MayPush, BpShape
    <3> QED
      BY <3>1, <3>2, Zenon
  <2>2. /\ Pending \in SUBSET Jobs /\ Pending' \in SUBSET Jobs /\ opened \in SUBSET Jobs /\ opened' = opened
        /\ unchecked \in Nat /\ unchecked' = unchecked
    BY <1>1, Zenon DEF Pending, BpShape
  <2>4. TotalDepth <= TotalDepth
    BY <1>5
  <2>3. DepthInv'
    BY <1>5, <2>1, <2>2, <2>4, BoundShrinks, Zenon DEF DepthInv
  <2> QED
    BY <1>3, <1>4, <2>3, Zenon
<1>7. CASE ~(Threshold > 0)
  <2>1. DepthInv'
    BY <1>7, Zenon DEF DepthInv, Bounded
  <2> QED
    BY <1>3, <1>4, <2>1, Zenon
<1> QED
  BY <1>6, <1>7, Zenon

\* A request reads the length of one list.
LEMMA ReadDepthInv ==
  ASSUME BpInv, NEW j \in Jobs, ReadDepth(j)
  PROVE  BpInv'
<1> USE DEF BpInv
<1>1. PICK p \in Reading : p = bpc[j]
  BY Zenon DEF ReadDepth
<1>2. PICK n \in Nat, s \in Nat : n = Len(queue[p]) /\ s = sum[j]
  BY DepthType, Zenon DEF BpShape, Reading
<1>3. /\ UNCHANGED <<queue, rpc, opened, unchecked, background>>
      /\ sum' = [sum EXCEPT ![j] = IF p = "LOW" THEN 0 ELSE s + n]
      /\ bpc' = [bpc EXCEPT ![j] = AfterRead(p, s + n)]
  BY <1>1, <1>2, Zenon DEF ReadDepth, gatewayVars, pushVars
<1>4. AfterRead(p, s + n) = IF p = "HIGH" THEN "MEDIUM" ELSE IF p = "MEDIUM" THEN "LOW"
                            ELSE IF s + n >= Threshold THEN "shed" ELSE "passed"
  BY <1>1, Zenon DEF AfterRead, Reading
<1>5. rpc[j] = "new" /\ j \notin opened
  BY <1>1, Zenon DEF BpShape, Reading
<1>6. BpShape'
  <2>1. sum' \in [Jobs -> Nat]
    BY <1>3 DEF BpShape
  <2>2. bpc' \in [Jobs -> {"out", "shed", "passed"} \cup Reading]
    BY <1>3, <1>4, Zenon DEF BpShape, Reading
  <2> QED
    BY <1>3, <1>5, <2>1, <2>2, Zenon DEF BpShape
<1>7. InFlight' \subseteq InFlight
  BY <1>1, <1>3, Zenon DEF InFlight, BpShape
<1>8. TotalDepth >= Threshold => Pending' \subseteq Pending
  <2> SUFFICES ASSUME TotalDepth >= Threshold, NEW i \in Jobs, MayPush(i)' PROVE MayPush(i)
    BY Zenon DEF Pending
  <2>1. CASE i # j
    BY <1>3, <2>1, Zenon DEF MayPush, BpShape, TotalDepth
  <2>2. CASE i = j
    <3>1. bpc'[j] = AfterRead(p, s + n) /\ (p # "LOW" => sum'[j] = s + n)
      BY <1>3, Zenon DEF BpShape
    <3>2. CASE p = "HIGH"
      <4>1. s + n + Len(queue["MEDIUM"]) + Len(queue["LOW"]) < Threshold
        BY <1>3, <1>4, <2>2, <3>1, <3>2, Zenon DEF MayPush
      <4> QED
        <5>1. PICK b \in Nat, c \in Nat : b = Len(queue["MEDIUM"]) /\ c = Len(queue["LOW"])
          BY DepthType, Zenon
        <5>2. TotalDepth = n + b + c
          BY <1>2, <3>2, <5>1, Zenon DEF TotalDepth
        <5>3. s + n + b + c < Threshold
          BY <4>1, <5>1, Zenon
        <5>4. n + b + c >= Threshold
          BY <5>2, Zenon
        <5> QED
          BY <5>3, <5>4, BackpressureAssumption
    <3>3. CASE p = "MEDIUM"
      <4>1. s + n + Len(queue["LOW"]) < Threshold
        BY <1>3, <1>4, <2>2, <3>1, <3>3, Zenon DEF MayPush
      <4> QED
        BY <1>1, <1>2, <2>2, <3>3, <4>1, DepthType, Zenon DEF MayPush
    <3>4. CASE p = "LOW"
      <4>1. ~(s + n >= Threshold)
        BY <1>4, <2>2, <3>1, <3>4, Zenon DEF MayPush
      <4>2. sum[j] + Len(queue["LOW"]) < Threshold
        BY <1>2, <3>4, <4>1, BackpressureAssumption
      <4> QED
        BY <1>1, <2>2, <3>4, <4>2, Zenon DEF MayPush
    <3> QED
      BY <3>2, <3>3, <3>4, Zenon DEF Reading
  <2> QED
    BY <2>1, <2>2, Zenon
<1> QED
  BY <1>3, <1>6, <1>7, <1>8, QuietInv, Zenon

\* The check fails and the request passes.
LEMMA ReadFailsInv ==
  ASSUME BpInv, NEW j \in Jobs, ReadFails(j)
  PROVE  BpInv'
<1> USE DEF BpInv
<1>1. /\ UNCHANGED <<queue, rpc, unchecked, background>> /\ bpc[j] \in Reading
      /\ sum' = [sum EXCEPT ![j] = 0]
      /\ bpc' = [bpc EXCEPT ![j] = "passed"] /\ opened' = opened \cup {j}
  BY Zenon DEF ReadFails, gatewayVars, pushVars
<1>2. BpShape' /\ j \notin opened
  BY <1>1, Zenon DEF BpShape, Reading
<1>3. FlightBound'
  <2>1. InFlight' \subseteq InFlight
    BY <1>1, Zenon DEF InFlight, BpShape
  <2>2. Cardinality(InFlight') <= Cardinality(InFlight) /\ Cardinality(InFlight') \in Nat /\ Cardinality(InFlight) \in Nat
    BY <2>1, PendingInFlight, RequestSets, Zenon
  <2> QED
    BY <2>2, BackpressureAssumption DEF FlightBound
<1>4. TotalDepth' = TotalDepth /\ TotalDepth \in Nat
  BY <1>1, DepthType, Zenon DEF TotalDepth
<1>5. Pending' \subseteq Pending \cup {j}
  BY <1>1, <1>4, Zenon DEF Pending, MayPush, BpShape
<1>6. Pending \in SUBSET Jobs /\ Pending' \in SUBSET Jobs /\ opened \in SUBSET Jobs /\ unchecked \in Nat
  BY Zenon DEF Pending, BpShape
<1>7. DepthInv'
  BY <1>1, <1>2, <1>4, <1>5, <1>6, BoundOpen, Zenon DEF DepthInv
<1> QED
  BY <1>2, <1>3, <1>7, Zenon

\* A push lets nobody through who would not have been let through before it.
LEMMA PushShrinks ==
  ASSUME BpShape, NEW i \in Jobs, MayPush(i)', UNCHANGED <<bpc, sum>>, rpc'[i] = rpc[i],
         queue' \in [Priorities -> Seq(Copy)], TotalDepth' = TotalDepth + 1,
         Len(queue["MEDIUM"]) <= Len(queue'["MEDIUM"]), Len(queue["LOW"]) <= Len(queue'["LOW"])
  PROVE  MayPush(i)
<1>1. PICK b \in Nat, d \in Nat, y \in Nat, z \in Nat, n \in Nat, s \in Nat :
        /\ b = Len(queue["MEDIUM"]) /\ d = Len(queue["LOW"]) /\ n = TotalDepth /\ s = sum[i]
        /\ y = Len(queue'["MEDIUM"]) /\ z = Len(queue'["LOW"])
  <2>1. Len(queue'["MEDIUM"]) \in Nat /\ Len(queue'["LOW"]) \in Nat
    BY DEF Priorities
  <2>2. sum[i] \in Nat
    BY Zenon DEF BpShape
  <2> QED
    BY <2>1, <2>2, DepthType, Zenon
<1>2. b <= y /\ d <= z /\ TotalDepth' = n + 1
  BY <1>1, Zenon
<1>3. \/ bpc[i] = "passed" /\ rpc[i] \in {"new", "claim", "create", "push"}
      \/ bpc[i] = "HIGH" /\ n + 1 < Threshold
      \/ bpc[i] = "MEDIUM" /\ s + y + z < Threshold
      \/ bpc[i] = "LOW" /\ s + z < Threshold
  BY <1>1, <1>2, Zenon DEF MayPush, BpShape
<1>4. (n + 1 < Threshold => n < Threshold) /\ (s + z < Threshold => s + d < Threshold)
  BY <1>2, BackpressureAssumption
<1>5. s + y + z < Threshold => s + b + d < Threshold
  BY <1>2, BackpressureAssumption
<1> QED
  BY <1>1, <1>3, <1>4, <1>5, Zenon DEF MayPush

\* A push that met no check.
LEMMA PushUncheckedInv ==
  ASSUME BpInv, NEW c \in Copy, PushUnchecked(c)
  PROVE  BpInv'
<1> USE DEF BpInv
<1>1. UNCHANGED <<rpc, bpc, sum, opened>> /\ Push(c)
  BY Zenon DEF PushUnchecked, gatewayVars, checkVars
<1>2. /\ queue' \in [Priorities -> Seq(Copy)] /\ TotalDepth' = TotalDepth + 1
      /\ Len(queue["MEDIUM"]) <= Len(queue'["MEDIUM"]) /\ Len(queue["LOW"]) <= Len(queue'["LOW"])
  BY <1>1, PushDepth, Zenon
<1>3. /\ unchecked' = (IF TotalDepth' < Threshold THEN 0 ELSE unchecked + 1)
      /\ unchecked \in Nat /\ unchecked' \in Nat
  BY DEF PushUnchecked, BpShape
<1>4. background' \in 0..MaxBackground
  BY BackpressureAssumption DEF PushUnchecked, BpShape
<1>5. BpShape'
  BY <1>1, <1>2, <1>3, <1>4, Zenon DEF BpShape
<1>6. FlightBound'
  BY <1>1, Zenon DEF FlightBound, InFlight
<1>7. Pending' \in SUBSET Pending
  BY <1>1, <1>2, PushShrinks, Zenon DEF Pending
<1>8. /\ Pending \in SUBSET Jobs /\ opened \in SUBSET Jobs
      /\ InFlight \in SUBSET Jobs /\ Pending \subseteq InFlight
  BY PendingInFlight, Zenon DEF Pending, BpShape
<1>9. TotalDepth \in Nat /\ Cardinality(InFlight) <= MaxInFlight
  BY DepthType, Zenon DEF FlightBound
<1>10. unchecked' = (IF TotalDepth + 1 < Threshold THEN 0 ELSE unchecked + 1)
  BY <1>2, <1>3, Zenon
<1>11. DepthInv'
  BY <1>1, <1>2, <1>3, <1>7, <1>8, <1>9, <1>10, BoundUnchecked, Zenon DEF DepthInv
<1> QED
  BY <1>5, <1>6, <1>11, Zenon

\* The handler runs a step of Enqueue.
LEMMA HandleInv ==
  ASSUME BpInv, NEW j \in Jobs, Handle(j)
  PROVE  BpInv'
<1> USE DEF BpInv
<1>1. bpc[j] = "passed" /\ UNCHANGED <<bpc, sum, opened, unchecked, background>>
  BY Zenon DEF Handle, checkVars, pushVars
<1>2. PICK from \in RequestPC \ Outcomes, to \in RequestPC :
        /\ rpc[j] = from /\ rpc' = [rpc EXCEPT ![j] = to]
        /\ to \in {"new", "claim", "create", "push"} => from \in {"new", "claim", "create", "push"}
        /\ from = "push" => to \notin {"new", "claim", "create", "push"}
  <2>1. \/ \E from \in {"new", "claim", "create"}, to \in RequestPC : Step(j, from, to)
        \/ \E from \in {"get", "getRow", "push", "release"}, to \in {"getRow", "duplicate", "accepted", "release", "error"} :
             Step(j, from, to)
    <3>0. Enqueue(j)
      BY Zenon DEF Handle
    <3>1. CASE Validate(j)
      BY <3>1, Zenon DEF Validate, RequestPC, Outcomes
    <3>2. CASE Claim(j)
      BY <3>2, Zenon DEF Claim, RequestPC, Outcomes
    <3>3. CASE GetExisting(j)
      BY <3>3, Zenon DEF GetExisting
    <3>4. CASE GetRow(j)
      BY <3>4, Zenon DEF GetRow
    <3>5. CASE CreateRow(j)
      BY <3>5, Zenon DEF CreateRow, RequestPC
    <3>6. CASE PushJob(j)
      BY <3>6, Zenon DEF PushJob
    <3>7. CASE Release(j)
      BY <3>7, Zenon DEF Release
    <3> QED
      BY <3>0, <3>1, <3>2, <3>3, <3>4, <3>5, <3>6, <3>7, Zenon DEF Enqueue
  <2> QED
    BY <2>1 DEF Step, RequestPC, Outcomes
<1>3. \/ queue' = queue
      \/ rpc[j] = "push" /\ Push(NewJob(j))
  BY Zenon DEF Handle, Enqueue, Validate, Claim, GetExisting, GetRow, CreateRow, PushJob, Release, Step, storeVars
<1>4. InFlight' \subseteq InFlight
  BY <1>1, <1>2, Zenon DEF InFlight, BpShape
<1>5. rpc' \in [Jobs -> RequestPC] /\ \A i \in Jobs : bpc'[i] # "passed" => rpc'[i] = "new"
  BY <1>1, <1>2, Zenon DEF BpShape
<1>6. CASE queue' = queue
  <2>1. BpShape'
    BY <1>1, <1>5, <1>6, Zenon DEF BpShape
  <2>2. Pending' \subseteq Pending
    BY <1>1, <1>2, <1>6, Zenon DEF Pending, MayPush, BpShape, TotalDepth
  <2> QED
    BY <1>1, <1>4, <1>6, <2>1, <2>2, QuietInv, Zenon
<1>7. CASE rpc[j] = "push" /\ Push(NewJob(j))
  <2>1. NewJob(j) \in Copy
    BY StoresAssumption DEF NewJob, Copy
  <2>2. /\ queue' \in [Priorities -> Seq(Copy)] /\ TotalDepth' = TotalDepth + 1
        /\ Len(queue["MEDIUM"]) <= Len(queue'["MEDIUM"]) /\ Len(queue["LOW"]) <= Len(queue'["LOW"])
    BY <1>7, <2>1, PushDepth, Zenon
  <2>3. BpShape'
    BY <1>1, <1>5, <2>2, Zenon DEF BpShape
  <2>4. FlightBound'
    <3>1. Cardinality(InFlight') <= Cardinality(InFlight) /\ Cardinality(InFlight') \in Nat /\ Cardinality(InFlight) \in Nat
      BY <1>4, PendingInFlight, RequestSets, Zenon
    <3> QED
      BY <3>1, BackpressureAssumption DEF FlightBound
  <2>5. j \in Pending
    BY <1>1, <1>7, Zenon DEF Pending, MayPush
  <2>6. Pending' \subseteq Pending \ {j}
    <3> SUFFICES ASSUME NEW i \in Jobs, MayPush(i)' PROVE MayPush(i) /\ i # j
      BY Zenon DEF Pending
    <3>1. i # j
      BY <1>1, <1>2, <1>7, Zenon DEF MayPush, BpShape
    <3>2. rpc'[i] = rpc[i]
      BY <1>2, <3>1, Zenon DEF BpShape
    <3> QED
      BY <1>1, <2>2, <3>1, <3>2, PushShrinks, Zenon
  <2>7. /\ Pending \in SUBSET Jobs /\ Pending' \in SUBSET Jobs /\ opened \in SUBSET Jobs
        /\ InFlight \in SUBSET Jobs /\ Pending \subseteq InFlight /\ unchecked \in Nat
    BY PendingInFlight, Zenon DEF Pending, BpShape
  <2>8. TotalDepth \in Nat /\ Cardinality(InFlight) <= MaxInFlight
    BY DepthType, Zenon DEF FlightBound
  <2>9. DepthInv'
    BY <1>1, <2>2, <2>5, <2>6, <2>7, <2>8, BoundPush, Zenon DEF DepthInv
  <2> QED
    BY <2>3, <2>4, <2>9, Zenon
<1> QED
  BY <1>3, <1>6, <1>7, Zenon

\* Every step preserves the invariant.
LEMMA BpStepInv == BpInv /\ [BpNext]_bpVars => BpInv'
<1> SUFFICES ASSUME BpInv, [BpNext]_bpVars PROVE BpInv'
  BY Zenon
<1>1. ASSUME UNCHANGED <<queue, rpc, bpc, sum, opened, unchecked, background>> PROVE BpInv'
  BY <1>1, Zenon DEF BpInv, BpShape, FlightBound, InFlight, DepthInv, Bounded, TotalDepth, Pending, MayPush
<1>2. CASE UNCHANGED bpVars
  BY <1>1, <1>2, Zenon DEF bpVars, gwVars, storeVars, gatewayVars, checkVars, pushVars
<1>3. ASSUME NEW j \in Jobs, ClientGone(j) /\ UNCHANGED <<checkVars, pushVars>> PROVE BpInv'
  BY <1>1, <1>3, Zenon DEF ClientGone, storeVars, checkVars, pushVars
<1>4. CASE Requeue \/ Welcome
  <2>1. \A w \in Welcomes : NewJob(w) \in Copy
    BY StoresAssumption, BackpressureAssumption DEF NewJob, Copy
  <2> QED
    BY <1>4, <2>1, PushUncheckedInv, Zenon DEF Requeue, Welcome
<1> QED
  BY <1>2, <1>3, <1>4, ArriveInv, ReadDepthInv, ReadFailsInv, HandleInv, ConsumeInv, Zenon DEF BpNext

\* The invariant holds before the first request.
LEMMA BpInitInv == BpInit => BpInv
<1> SUFFICES ASSUME BpInit PROVE BpInv
  BY Zenon
<1>1. BpShape
  BY BackpressureAssumption DEF BpInit, GwInit, StoresInit, GatewayInit, BpShape, RequestPC
<1>2. InFlight = {} /\ Cardinality({}) = 0
  BY FS_EmptySet, Zenon DEF InFlight, BpInit, Reading
<1>3. FlightBound
  BY <1>2, BackpressureAssumption DEF FlightBound
<1>4. TotalDepth = 0
  <2>1. queue["HIGH"] = <<>> /\ queue["MEDIUM"] = <<>> /\ queue["LOW"] = <<>>
    BY Zenon DEF BpInit, GwInit, StoresInit, Priorities
  <2> QED
    BY <2>1 DEF TotalDepth
<1>5. DepthInv
  BY <1>4, BackpressureAssumption DEF DepthInv, Bounded
<1> QED
  BY <1>1, <1>3, <1>5, Zenon DEF BpInv

\* The invariant bounds the depth.
LEMMA BpInvBoundsDepth == BpInv => DepthBound
<1> SUFFICES ASSUME BpInv, Threshold > 0
             PROVE  TotalDepth <= Threshold - 1 + MaxInFlight + Cardinality(opened) + unchecked
  BY Zenon DEF DepthBound
<1>1. TotalDepth \in Nat
  BY DepthType, Zenon DEF BpInv
<1>2. Cardinality(Pending) \in Nat /\ Cardinality(opened) \in Nat /\ unchecked \in Nat
  BY RequestSets, Zenon DEF BpInv, BpShape, Pending
<1>3. TotalDepth >= Threshold => TotalDepth + Cardinality(Pending) <= Threshold - 1 + MaxInFlight + Cardinality(opened) + unchecked
  BY Zenon DEF BpInv, DepthInv, Bounded
<1> QED
  BY <1>1, <1>2, <1>3, BackpressureAssumption

\* The depth of the queue exceeds the threshold by less than the number of
\* requests in the chain, plus those the failed check let through and the jobs
\* that the pool, an admin or a processor pushed past the check since it was
\* last below, although the check reads the three lists one after another and
\* long before the push.
\* The strict order in which the dispatcher serves the lists is what makes
\* three separate reads as good as one.
THEOREM DepthBoundHolds == BpSpec => []DepthBound
<1>1. BpSpec => []BpInv
  BY BpInitInv, BpStepInv, PTL DEF BpSpec
<1> QED
  BY <1>1, BpInvBoundsDepth, PTL

-----------------------------------------------------------------------------
(***************************************************************************)
(* The chain.  A step of it is a step of the depth check with Enqueue      *)
(* behind it, or leaves both alone, or refuses a request Enqueue has not   *)
(* seen; so what the parts promise on their own they keep together.        *)
(***************************************************************************)

\* What a step of the chain is to the parts.
LEMMA IngressStep ==
  [IngNext]_ingVars => [BpNext]_bpVars \/ \E j \in Jobs : Refuse(j)
<1> SUFFICES ASSUME IngNext PROVE [BpNext]_bpVars \/ \E j \in Jobs : Refuse(j)
  BY Zenon DEF ingVars
<1>1. ASSUME NEW j \in Jobs, Request(j) PROVE [BpNext]_bpVars \/ Refuse(j)
  BY <1>1, Zenon DEF Request, GlobalLimit, BodyLimit, ClientLimit, CheckDepth, Accept, BpNext
<1>2. ASSUME NEW j \in Jobs, Disconnect(j) PROVE BpNext
  BY <1>2, Zenon DEF Disconnect, BpNext
<1>3. CASE Dispatch
  BY <1>3, Zenon DEF Dispatch, BpNext
<1>4. CASE Tick
  BY <1>4, Zenon DEF Tick
<1>5. CASE Background
  BY <1>5, Zenon DEF Background, BpNext
<1> QED
  BY <1>1, <1>2, <1>3, <1>4, <1>5, Zenon DEF IngNext

\* What a step of the depth check is to Enqueue.
LEMMA CheckStep ==
  [BpNext]_bpVars => [GatewayStep]_gwVars \/ UNCHANGED <<gatewayVars, row, accepted>>
<1> SUFFICES ASSUME BpNext PROVE GatewayStep \/ UNCHANGED <<gatewayVars, row, accepted>>
  BY Zenon DEF bpVars
<1>1. ASSUME NEW j \in Jobs, Arrive(j) \/ ReadDepth(j) \/ ReadFails(j)
      PROVE  UNCHANGED <<gatewayVars, row, accepted>>
  BY <1>1, Zenon DEF Arrive, ReadDepth, ReadFails, gwVars, storeVars
<1>2. ASSUME NEW j \in Jobs, Handle(j) \/ ClientGone(j) PROVE GatewayStep
  BY <1>2, Zenon DEF Handle, GatewayStep
<1>3. ASSUME NEW p \in Priorities, Consume(p) PROVE UNCHANGED <<gatewayVars, row, accepted>>
  BY <1>3, Zenon DEF Consume
<1>4. CASE Requeue \/ Welcome
  BY <1>4, Zenon DEF Requeue, Welcome, PushUnchecked
<1> QED
  BY <1>1, <1>2, <1>3, <1>4, Zenon DEF BpNext

-----------------------------------------------------------------------------
(***************************************************************************)
(* The invariants of the parts.                                            *)
(***************************************************************************)

\* A refusal is a step of neither part, but disturbs neither.
LEMMA RefuseKeepsParts ==
  ASSUME NEW j \in Jobs, Refuse(j)
  PROVE  (BpInv => BpInv') /\ (GwInv => GwInv') /\ (HolderWorks => HolderWorks')
<1>1. /\ UNCHANGED <<storeVars, idemKey, rlive, checkVars, pushVars>>
      /\ bpc[j] = "passed" /\ rpc[j] = "new" /\ rpc' = [rpc EXCEPT ![j] = "invalid"]
  BY Zenon DEF Refuse, Step
<1>2. UNCHANGED <<queue, row, accepted, bpc, sum, opened, unchecked, background>>
  BY <1>1, Zenon DEF storeVars, checkVars, pushVars
<1>3. ASSUME BpInv PROVE BpInv'
  <2>1. BpShape'
    BY <1>1, <1>2, <1>3, Zenon DEF BpInv, BpShape, RequestPC, Outcomes
  <2>2. InFlight' \subseteq InFlight
    BY <1>1, <1>2, <1>3, Zenon DEF InFlight, BpInv, BpShape, Outcomes
  <2>3. Pending' \subseteq Pending
    BY <1>1, <1>2, <1>3, Zenon DEF Pending, MayPush, BpInv, BpShape, TotalDepth
  <2> QED
    BY <1>2, <1>3, <2>1, <2>2, <2>3, QuietInv
<1>4. ASSUME GwInv PROVE GwInv'
  BY <1>1, <1>2, <1>4, Zenon DEF GwInv, GwShape, HoldsKey, PushHasRow, QueuedHasRow, RequestPC, Outcomes
<1>5. ASSUME HolderWorks PROVE HolderWorks'
  BY <1>1, <1>5 DEF HolderWorks
<1> QED
  BY <1>3, <1>4, <1>5, Zenon

\* Every step of the chain preserves the invariants of its parts.
LEMMA PartsStep == BpInv /\ GwInv /\ [IngNext]_ingVars => BpInv' /\ GwInv'
<1> SUFFICES ASSUME BpInv, GwInv, [IngNext]_ingVars PROVE BpInv' /\ GwInv'
  BY Zenon
<1>1. CASE [BpNext]_bpVars
  <2>1. BpInv'
    BY <1>1, BpStepInv, Zenon
  <2>2. CASE [GatewayStep]_gwVars
    BY <2>1, <2>2, GwStepInv, Zenon
  <2>3. CASE UNCHANGED <<gatewayVars, row, accepted>>
    BY <2>1, <2>3, Zenon DEF gatewayVars, GwInv, GwShape, HoldsKey, PushHasRow, QueuedHasRow
  <2> QED
    BY <1>1, <2>2, <2>3, CheckStep, Zenon
<1>2. CASE \E j \in Jobs : Refuse(j)
  BY <1>2, RefuseKeepsParts, Zenon
<1> QED
  BY <1>1, <1>2, IngressStep, Zenon

\* The invariants of the parts hold behind the chain.
LEMMA PartsInvariant == IngSpec => [](BpInv /\ GwInv)
<1>1. IngInit => BpInv /\ GwInv
  BY BpInitInv, GwInitInv, Zenon DEF IngInit, BpInit
<1> QED
  BY <1>1, PartsStep, PTL DEF IngSpec

\* The bound on the depth holds behind the two rate limiters and in front of
\* handlers that refuse requests, as it does for the check alone.
THEOREM IngressDepthBound == IngSpec => []DepthBound
<1>1. BpInv => DepthBound
  BY BpInvBoundsDepth, Zenon
<1> QED
  BY <1>1, PartsInvariant, PTL

\* Behind the whole chain a job answered 202 keeps its key, and no job is on
\* the lists without a row.
THEOREM IngressKeepsKeys == IngSpec => [](AcceptedKeepsKey /\ QueuedHasRow)
<1>1. GwInv => AcceptedKeepsKey /\ QueuedHasRow
  BY Zenon DEF GwInv, HoldsKey, AcceptedKeepsKey
<1> QED
  BY <1>1, PartsInvariant, PTL

\* Behind the whole chain a request that failed gives its key back while its
\* client is there and Redis answers; the depth check may fail all the same.
THEOREM IngressFreesKeys ==
  ASSUME "redis" \notin Env
  PROVE  IngSpec => []FailureFreesKey
<1>1. IngInit => HolderWorks
  BY GatewayAssumption DEF IngInit, BpInit, GwInit, GatewayInit, HolderWorks
<1>2. BpInv /\ GwInv /\ HolderWorks /\ [IngNext]_ingVars => HolderWorks'
  <2> SUFFICES ASSUME GwInv, HolderWorks, [IngNext]_ingVars PROVE HolderWorks'
    BY Zenon
  <2>1. CASE [GatewayStep]_gwVars
    BY <2>1, HolderWorksStep, Zenon
  <2>2. CASE UNCHANGED <<gatewayVars, row, accepted>>
    BY <2>2, Zenon DEF gatewayVars, HolderWorks
  <2>3. CASE \E j \in Jobs : Refuse(j)
    BY <2>3, RefuseKeepsParts, Zenon
  <2> QED
    BY <2>1, <2>2, <2>3, IngressStep, CheckStep, Zenon
<1>3. HolderWorks => FailureFreesKey
  BY Zenon DEF HolderWorks, FailureFreesKey
<1> QED
  BY <1>1, <1>2, <1>3, PartsInvariant, PTL DEF IngSpec

-----------------------------------------------------------------------------
(***************************************************************************)
(* A refused request has touched nothing.                                  *)
(***************************************************************************)

\* No stage lets the request any further.
Stopped(j) ==
  \/ gVerdict[j] = "deny" \/ flaw[j] = "declared" \/ cVerdict[j] = "deny"
  \/ bpc[j] = "shed"
  \/ rpc[j] = "invalid"

\* The stages in their order, and what a request that has not claimed its key
\* has done to the stores: nothing.
ChainInv ==
  /\ gVerdict \in [Jobs -> Verdicts] /\ cVerdict \in [Jobs -> Verdicts]
  /\ status \in [Jobs -> Statuses]
  /\ bpc \in [Jobs -> {"out", "shed", "passed"} \cup Reading]
  /\ \A j \in Jobs :
       /\ cVerdict[j] # "none" => gVerdict[j] = "allow" /\ flaw[j] # "declared"
       /\ bpc[j] # "out" => cVerdict[j] = "allow"
       /\ rpc[j] # "new" => bpc[j] = "passed"
       /\ status[j] \in Refusals => Stopped(j)
       /\ rpc[j] \in {"new", "claim", "invalid"} =>
            j \notin accepted /\ row[j].status = "absent" /\ \A k \in Keys : idemKey[k] # j

\* The verdict of a limiter on one request.
LEMMA VerdictOf ==
  /\ \A j \in Jobs, c \in Clients : Route!RBAllow(j, c) =>
       cVerdict' = [cVerdict EXCEPT ![j] = IF cLevel[c] >= RouteUnit THEN "allow" ELSE "deny"]
  /\ \A j \in Jobs : Global!RBAllow(j, "global") =>
       gVerdict' = [gVerdict EXCEPT ![j] = IF gLevel["global"] >= GlobalUnit THEN "allow" ELSE "deny"]
BY Zenon DEF Route!RBAllow, Global!RBAllow

\* A step of the depth check.
LEMMA CheckMoves ==
  ASSUME NEW j \in Jobs, Arrive(j) \/ ReadDepth(j) \/ ReadFails(j)
  PROVE  /\ UNCHANGED <<rpc, row, accepted, idemKey>>
         /\ bpc[j] = "out" \/ bpc[j] \in Reading
         /\ \E to \in {"shed", "passed"} \cup Reading : bpc' = [bpc EXCEPT ![j] = to]
<1>1. CASE Arrive(j)
  BY <1>1, Zenon DEF Arrive, gwVars, storeVars, gatewayVars, Reading
<1>2. CASE ReadDepth(j)
  <2>1. \A p \in Reading : \A d : AfterRead(p, d) \in {"shed", "passed"} \cup Reading
    BY Zenon DEF AfterRead, Reading
  <2> QED
    BY <1>2, <2>1, Zenon DEF ReadDepth, gatewayVars
<1>3. CASE ReadFails(j)
  BY <1>3, Zenon DEF ReadFails, gatewayVars
<1> QED
  BY <1>1, <1>2, <1>3, Zenon

\* A step of Enqueue, seen from what the request has done to the stores.
LEMMA EnqueueTrace ==
  ASSUME GwInv, NEW j \in Jobs, Enqueue(j),
         rpc[j] \in {"new", "claim", "invalid"} =>
           j \notin accepted /\ row[j].status = "absent" /\ \A k \in Keys : idemKey[k] # j
  PROVE  /\ \E to \in RequestPC \ {"new"} : rpc' = [rpc EXCEPT ![j] = to]
         /\ rpc'[j] \in {"claim", "invalid"} =>
              j \notin accepted' /\ row'[j].status = "absent" /\ \A k \in Keys : idemKey'[k] # j
         /\ rpc'[j] = "invalid" => rpc[j] = "new"
         /\ \A i \in Jobs \ {j} : /\ i \in accepted' => i \in accepted
                                  /\ row'[i] = row[i]
                                  /\ \A k \in Keys : idemKey'[k] = i => idemKey[k] = i
<1> USE GatewayAssumption DEF GwInv, GwShape
<1>0. KeyOf[j] \in Keys
  BY Zenon
<1>1. CASE Validate(j)
  <2>1. /\ UNCHANGED <<row, accepted, idemKey>> /\ rpc[j] = "new"
        /\ \E to \in {"claim", "invalid"} : rpc' = [rpc EXCEPT ![j] = to]
    BY <1>1, Zenon DEF Validate, Step, storeVars
  <2> QED
    BY <2>1, Zenon DEF RequestPC, Outcomes
<1>2. CASE Claim(j)
  BY <1>0, <1>2 DEF Claim, Step, RequestPC, Outcomes
<1>3. CASE GetExisting(j) \/ GetRow(j)
  BY <1>3, Zenon DEF GetExisting, GetRow, Step, RequestPC, Outcomes
<1>4. CASE CreateRow(j)
  BY <1>4, Zenon DEF CreateRow, Create, Step, RequestPC, Outcomes
<1>5. CASE PushJob(j)
  BY <1>5, Zenon DEF PushJob, Step, RequestPC, Outcomes
<1>6. CASE Release(j)
  BY <1>0, <1>6, Zenon DEF Release, Step, RequestPC, Outcomes
<1> QED
  BY <1>1, <1>2, <1>3, <1>4, <1>5, <1>6, Zenon DEF Enqueue

\* It holds before the first request.
LEMMA ChainInitInv == IngInit => ChainInv
BY GatewayAssumption
DEF IngInit, BpInit, GwInit, StoresInit, GatewayInit, Route!RBInit, Global!RBInit, ChainInv, Verdicts,
    Statuses, Refusals

\* Every step of the chain preserves it.
LEMMA ChainStep == GwInv /\ ChainInv /\ [IngNext]_ingVars => ChainInv'
<1> SUFFICES ASSUME GwInv, ChainInv, [IngNext]_ingVars PROVE ChainInv'
  BY Zenon
<1>0. rpc \in [Jobs -> RequestPC] /\ flaw' = flaw
  BY Zenon DEF GwInv, GwShape, IngNext, Request, GlobalLimit, BodyLimit, ClientLimit, CheckDepth, Refuse, Accept,
               Disconnect, Dispatch, Background, Tick, ingVars
<1>a. ASSUME UNCHANGED <<gVerdict, cVerdict, status, bpc, rpc, row, accepted, idemKey>> PROVE ChainInv'
  BY <1>0, <1>a, Zenon DEF ChainInv, Stopped
<1>1. CASE UNCHANGED ingVars
  BY <1>1, <1>a, Zenon DEF ingVars, bpVars, gwVars, storeVars, gatewayVars, checkVars, limitVars
<1>2. ASSUME NEW j \in Jobs, GlobalLimit(j) PROVE ChainInv'
  <2>1. /\ UNCHANGED <<cVerdict, bpc, rpc, row, accepted, idemKey>> /\ gVerdict[j] = "none"
        /\ \E v \in {"allow", "deny"} : gVerdict' = [gVerdict EXCEPT ![j] = v]
        /\ status' = status \/ (status' = [status EXCEPT ![j] = 429] /\ gVerdict'[j] = "deny")
    <3>1. UNCHANGED <<cVerdict, bpc, rpc, row, accepted, idemKey>> /\ gVerdict[j] = "none"
      BY <1>2, Zenon DEF GlobalLimit, bpVars, gwVars, storeVars, gatewayVars, checkVars
    <3>2. \/ gVerdict' = [gVerdict EXCEPT ![j] = "allow"] /\ status' = status
          \/ gVerdict' = [gVerdict EXCEPT ![j] = "deny"] /\ status' = [status EXCEPT ![j] = 429]
      BY <1>2, VerdictOf DEF GlobalLimit, Answer
    <3> QED
      BY <3>1, <3>2 DEF ChainInv
  <2>2. gVerdict' \in [Jobs -> Verdicts] /\ status' \in [Jobs -> Statuses]
    BY <2>1 DEF ChainInv, Verdicts, Statuses, Refusals
  <2>3. \A i \in Jobs : \/ gVerdict'[i] = gVerdict[i] /\ status'[i] = status[i]
                        \/ gVerdict[i] = "none" /\ (status'[i] = status[i] \/ gVerdict'[i] = "deny")
    BY <2>1 DEF ChainInv
  <2> QED
    BY <1>0, <2>1, <2>2, <2>3 DEF ChainInv, Stopped
<1>3. ASSUME NEW j \in Jobs, BodyLimit(j) PROVE ChainInv'
  <2>1. /\ UNCHANGED <<gVerdict, cVerdict, bpc, rpc, row, accepted, idemKey>> /\ flaw[j] = "declared"
        /\ status' = [status EXCEPT ![j] = 413]
    BY <1>3, Zenon DEF BodyLimit, Answer, bpVars, gwVars, storeVars, gatewayVars, checkVars, limitVars
  <2> QED
    BY <1>0, <2>1 DEF ChainInv, Stopped, Statuses, Refusals
<1>4. ASSUME NEW j \in Jobs, ClientLimit(j) PROVE ChainInv'
  <2>1. /\ UNCHANGED <<gVerdict, bpc, rpc, row, accepted, idemKey>>
        /\ cVerdict[j] = "none" /\ gVerdict[j] = "allow" /\ flaw[j] # "declared"
        /\ \E v \in {"allow", "deny"} : cVerdict' = [cVerdict EXCEPT ![j] = v]
        /\ status' = status \/ (status' = [status EXCEPT ![j] = 429] /\ cVerdict'[j] = "deny")
    <3>1. /\ UNCHANGED <<gVerdict, bpc, rpc, row, accepted, idemKey>>
          /\ cVerdict[j] = "none" /\ gVerdict[j] = "allow" /\ flaw[j] # "declared"
      BY <1>4, Zenon DEF ClientLimit, bpVars, gwVars, storeVars, gatewayVars, checkVars
    <3>2. \/ cVerdict' = [cVerdict EXCEPT ![j] = "allow"] /\ status' = status
          \/ cVerdict' = [cVerdict EXCEPT ![j] = "deny"] /\ status' = [status EXCEPT ![j] = 429]
      BY <1>4, VerdictOf, IngressAssumption DEF ClientLimit, Answer
    <3> QED
      BY <3>1, <3>2 DEF ChainInv
  <2> QED
    BY <1>0, <2>1 DEF ChainInv, Stopped, Verdicts, Statuses, Refusals
<1>5. ASSUME NEW j \in Jobs, CheckDepth(j) PROVE ChainInv'
  <2>1. /\ UNCHANGED <<gVerdict, cVerdict, rpc, row, accepted, idemKey>> /\ cVerdict[j] = "allow"
        /\ bpc[j] = "out" \/ bpc[j] \in Reading
        /\ \E to \in {"shed", "passed"} \cup Reading :
             /\ bpc' = [bpc EXCEPT ![j] = to]
             /\ IF to = "shed" THEN status' = [status EXCEPT ![j] = 503] ELSE status' = status
    BY <1>5, CheckMoves DEF CheckDepth, Answer, limitVars
  <2> QED
    BY <1>0, <2>1 DEF ChainInv, Stopped, Statuses, Refusals, Reading
<1>6. ASSUME NEW j \in Jobs, Refuse(j) PROVE ChainInv'
  <2>1. /\ UNCHANGED <<gVerdict, cVerdict, bpc, row, accepted, idemKey>>
        /\ rpc[j] = "new" /\ bpc[j] = "passed" /\ rpc' = [rpc EXCEPT ![j] = "invalid"]
        /\ \E code \in Refusals : status' = [status EXCEPT ![j] = code]
    <3>1. HandlerStatus(j) \in Refusals
      BY DEF HandlerStatus, Refusals
    <3> QED
      BY <1>6, <3>1, Zenon DEF Refuse, Step, Answer, storeVars, checkVars, limitVars
  <2> QED
    BY <1>0, <2>1 DEF ChainInv, Stopped, Statuses
<1>7. ASSUME NEW j \in Jobs, Accept(j) PROVE ChainInv'
  <2>1. /\ UNCHANGED <<gVerdict, cVerdict, bpc>> /\ bpc[j] = "passed" /\ Enqueue(j)
        /\ status' = status \/ (rpc'[j] \in Outcomes /\ status' = [status EXCEPT ![j] = StatusOf(rpc'[j])])
    BY <1>7, Zenon DEF Accept, Handle, Answer, checkVars, limitVars
  <2>2. rpc'[j] \in Outcomes =>
          StatusOf(rpc'[j]) \in Statuses /\ (StatusOf(rpc'[j]) \in Refusals => rpc'[j] = "invalid")
    BY DEF StatusOf, Outcomes, Statuses, Refusals
  <2>3. /\ status' \in [Jobs -> Statuses]
        /\ \A i \in Jobs : status'[i] \in Refusals => status'[i] = status[i] \/ (i = j /\ rpc'[j] = "invalid")
    BY <2>1, <2>2, Zenon DEF ChainInv
  <2>4. PICK to \in RequestPC \ {"new"} : rpc' = [rpc EXCEPT ![j] = to]
    BY <2>1, EnqueueTrace, Zenon DEF ChainInv
  <2>5. /\ rpc'[j] \in {"claim", "invalid"} =>
             j \notin accepted' /\ row'[j].status = "absent" /\ \A k \in Keys : idemKey'[k] # j
        /\ \A i \in Jobs \ {j} : /\ i \in accepted' => i \in accepted
                                 /\ row'[i] = row[i]
                                 /\ \A k \in Keys : idemKey'[k] = i => idemKey[k] = i
    BY <2>1, EnqueueTrace, Zenon DEF ChainInv
  <2>6. \A i \in Jobs : Stopped(i) /\ status[i] \in Refusals => Stopped(i)'
    <3>1. rpc[j] # "invalid"
      BY <2>1, Zenon DEF Enqueue, Validate, Claim, GetExisting, GetRow, CreateRow, PushJob, Release, Step
    <3> QED
      BY <1>0, <2>1, <2>4, <3>1 DEF Stopped, ChainInv
  <2> QED
    BY <1>0, <2>1, <2>3, <2>4, <2>5, <2>6 DEF ChainInv, Stopped
<1>8. ASSUME NEW j \in Jobs, Disconnect(j) PROVE ChainInv'
  BY <1>8, <1>a, Zenon DEF Disconnect, ClientGone, storeVars, checkVars, limitVars
<1>9. CASE Dispatch
  BY <1>9, <1>a, Zenon DEF Dispatch, Consume, gatewayVars, checkVars, limitVars
<1>10. CASE Tick
  BY <1>10, <1>a, Zenon DEF Tick, Global!RBTick, Route!RBTick, bpVars, gwVars, storeVars, gatewayVars, checkVars
<1>11. CASE Background
  BY <1>11, <1>a, Zenon DEF Background, Requeue, Welcome, PushUnchecked, gatewayVars, checkVars, limitVars
<1> QED
  BY <1>1, <1>2, <1>3, <1>4, <1>5, <1>6, <1>7, <1>8, <1>9, <1>10, <1>11, Zenon DEF IngNext, Request

\* A request answered 400, 401, 413, 429 or 503 has claimed no key, written no
\* row and pushed no job, whichever stage refused it and whatever else was
\* going on: only a request that got as far as SetNX can leave something, and
\* such a request is answered 200, 202 or 500.
THEOREM RefusalLeavesNoTraceHolds == IngSpec => []RefusalLeavesNoTrace
<1>1. ChainInv /\ GwInv => RefusalLeavesNoTrace
  BY Zenon DEF ChainInv, Stopped, RefusalLeavesNoTrace, GwInv, GwShape
<1> QED
  BY <1>1, ChainInitInv, ChainStep, PartsInvariant, PTL DEF IngSpec
-----------------------------------------------------------------------------
(***************************************************************************)
(* The two limiters.                                                       *)
(***************************************************************************)

GlobalAllowed == {j \in Jobs : gVerdict[j] = "allow"}

\* What was let through, and what is left, came from the bursts and the ticks.
LimitInv ==
  /\ clock \in Nat /\ gLevel["global"] \in Nat /\ gLevel \in [{"global"} -> Nat]
  /\ cLevel \in [Clients -> Nat]
  /\ GlobalUnit * Cardinality(GlobalAllowed) + gLevel["global"] <= GlobalCapacity + clock
  /\ \A c \in Clients : RouteUnit * Cardinality(Admitted(c)) + cLevel[c] <= RouteCapacity + clock

\* One more request costs a unit's worth more.
LEMMA OneMore ==
  ASSUME NEW u \in Nat, NEW S \in SUBSET Jobs, NEW T \in SUBSET Jobs, NEW j \in Jobs, T \subseteq S \cup {j}
  PROVE  /\ u * Cardinality(S) \in Nat /\ u * Cardinality(T) \in Nat
         /\ u * Cardinality(T) <= u * Cardinality(S) + u
<1>1. IsFiniteSet(S) /\ Cardinality(S) \in Nat
  BY RequestSets, Zenon
<1>2. Cardinality(S \cup {j}) = IF j \in S THEN Cardinality(S) ELSE Cardinality(S) + 1
  BY <1>1, FS_AddElement, Zenon
<1>3. Cardinality(T) <= Cardinality(S \cup {j}) /\ Cardinality(T) \in Nat
  <2>1. S \cup {j} \in SUBSET Jobs
    BY Zenon
  <2> QED
    BY <2>1, RequestSets, Zenon
<1>4. PICK n \in Nat, m \in Nat : n = Cardinality(S) /\ m = Cardinality(T)
  BY <1>1, <1>3, Zenon
<1>5. m <= n + 1
  BY <1>1, <1>2, <1>3, <1>4
<1>6. u * m <= u * (n + 1) /\ u * (n + 1) = u * n + u
  BY <1>5
<1>7. u * n \in Nat /\ u * m \in Nat
  OBVIOUS
<1> QED
  BY <1>4, <1>6, <1>7, Zenon

\* Every step keeps the account.
LEMMA LimitStep == ChainInv /\ LimitInv /\ [IngNext]_ingVars => LimitInv'
<1> SUFFICES ASSUME ChainInv, LimitInv, [IngNext]_ingVars PROVE LimitInv'
  BY Zenon
<1> USE IngressAssumption
<1>a. ASSUME UNCHANGED <<gVerdict, cVerdict, gLevel, cLevel, clock>> PROVE LimitInv'
  BY <1>a, Zenon DEF LimitInv, GlobalAllowed, Admitted
<1>1. CASE UNCHANGED ingVars
  BY <1>1, <1>a, Zenon DEF ingVars, limitVars
<1>2. ASSUME NEW j \in Jobs, GlobalLimit(j) PROVE LimitInv'
  <2>1. /\ UNCHANGED <<cVerdict, cLevel, clock>>
        /\ gVerdict' = [gVerdict EXCEPT ![j] = IF gLevel["global"] >= GlobalUnit THEN "allow" ELSE "deny"]
        /\ gLevel' = [gLevel EXCEPT !["global"] = IF gLevel["global"] >= GlobalUnit
                                                  THEN gLevel["global"] - GlobalUnit ELSE gLevel["global"]]
    BY <1>2, VerdictOf, Zenon DEF GlobalLimit, Global!RBAllow, LimitInv
  <2>2. \A c \in Clients : RouteUnit * Cardinality(Admitted(c)') + cLevel'[c] <= RouteCapacity + clock'
    BY <2>1, Zenon DEF LimitInv, Admitted
  <2>3. gLevel' \in [{"global"} -> Nat] /\ gLevel'["global"] \in Nat
    BY <2>1 DEF LimitInv
  <2>4. GlobalUnit * Cardinality(GlobalAllowed') + gLevel'["global"] <= GlobalCapacity + clock'
    <3>1. CASE gLevel["global"] >= GlobalUnit
      <4>1. GlobalAllowed' \subseteq GlobalAllowed \cup {j} /\ GlobalAllowed \in SUBSET Jobs /\ GlobalAllowed' \in SUBSET Jobs
        BY <2>1, Zenon DEF GlobalAllowed, ChainInv
      <4>2. /\ GlobalUnit * Cardinality(GlobalAllowed) \in Nat /\ GlobalUnit * Cardinality(GlobalAllowed') \in Nat
            /\ GlobalUnit * Cardinality(GlobalAllowed') <= GlobalUnit * Cardinality(GlobalAllowed) + GlobalUnit
        BY <4>1, OneMore, Zenon
      <4>3. gLevel'["global"] = gLevel["global"] - GlobalUnit
        BY <2>1, <3>1, Zenon DEF LimitInv
      <4>4. PICK m \in Nat, n \in Nat, l \in Nat, d \in Nat :
              /\ m = GlobalUnit * Cardinality(GlobalAllowed) /\ n = GlobalUnit * Cardinality(GlobalAllowed')
              /\ l = gLevel["global"] /\ d = clock
        BY <4>2, Zenon DEF LimitInv
      <4>5. n <= m + GlobalUnit /\ m + l <= GlobalCapacity + d
        BY <4>2, <4>4, Zenon DEF LimitInv
      <4>6. n + (l - GlobalUnit) <= GlobalCapacity + d
        BY <4>5
      <4> QED
        BY <2>1, <4>3, <4>4, <4>6, Zenon
    <3>2. CASE ~(gLevel["global"] >= GlobalUnit)
      <4>1. GlobalAllowed' = GlobalAllowed
        BY <1>2, <2>1, <3>2, Zenon DEF GlobalAllowed, ChainInv, GlobalLimit
      <4>2. gLevel'["global"] = gLevel["global"]
        BY <2>1, <3>2, Zenon DEF LimitInv
      <4> QED
        BY <2>1, <4>1, <4>2, Zenon DEF LimitInv
    <3> QED
      BY <3>1, <3>2, Zenon
  <2> QED
    BY <2>1, <2>2, <2>3, <2>4, Zenon DEF LimitInv
<1>3. ASSUME NEW j \in Jobs, ClientLimit(j) PROVE LimitInv'
  <2>0. ClientOf[j] \in Clients
    BY Zenon
  <2> DEFINE d == ClientOf[j]
  <2>1. /\ UNCHANGED <<gVerdict, gLevel, clock>>
        /\ cVerdict' = [cVerdict EXCEPT ![j] = IF cLevel[d] >= RouteUnit THEN "allow" ELSE "deny"]
        /\ cLevel' = [cLevel EXCEPT ![d] = IF cLevel[d] >= RouteUnit THEN cLevel[d] - RouteUnit ELSE cLevel[d]]
    BY <1>3, <2>0, VerdictOf, Zenon DEF ClientLimit, Route!RBAllow, LimitInv
  <2>2. GlobalUnit * Cardinality(GlobalAllowed') + gLevel'["global"] <= GlobalCapacity + clock'
    BY <2>1, Zenon DEF LimitInv, GlobalAllowed
  <2>3. cLevel' \in [Clients -> Nat]
    BY <2>0, <2>1 DEF LimitInv
  <2>4. ASSUME NEW c \in Clients
        PROVE  RouteUnit * Cardinality(Admitted(c)') + cLevel'[c] <= RouteCapacity + clock'
    <3>1. CASE c = d /\ cLevel[d] >= RouteUnit
      <4>1. Admitted(c)' \subseteq Admitted(c) \cup {j} /\ Admitted(c) \in SUBSET Jobs /\ Admitted(c)' \in SUBSET Jobs
        BY <2>1, Zenon DEF Admitted, ChainInv
      <4>2. /\ RouteUnit * Cardinality(Admitted(c)) \in Nat /\ RouteUnit * Cardinality(Admitted(c)') \in Nat
            /\ RouteUnit * Cardinality(Admitted(c)') <= RouteUnit * Cardinality(Admitted(c)) + RouteUnit
        BY <4>1, OneMore, Zenon
      <4>3. cLevel'[c] = cLevel[c] - RouteUnit /\ cLevel[c] \in Nat
        BY <2>1, <3>1, Zenon DEF LimitInv
      <4>4. PICK m \in Nat, n \in Nat, l \in Nat, t \in Nat :
              /\ m = RouteUnit * Cardinality(Admitted(c)) /\ n = RouteUnit * Cardinality(Admitted(c)')
              /\ l = cLevel[c] /\ t = clock
        BY <4>2, <4>3, Zenon DEF LimitInv
      <4>5. n <= m + RouteUnit /\ m + l <= RouteCapacity + t
        BY <4>2, <4>4, Zenon DEF LimitInv
      <4>6. n + (l - RouteUnit) <= RouteCapacity + t
        BY <4>5
      <4> QED
        BY <2>1, <4>3, <4>4, <4>6, Zenon
    <3>2. CASE ~(c = d /\ cLevel[d] >= RouteUnit)
      <4>1. Admitted(c)' = Admitted(c)
        BY <1>3, <2>1, <3>2, Zenon DEF Admitted, ChainInv, ClientLimit
      <4>2. cLevel'[c] = cLevel[c]
        BY <2>1, <3>2, Zenon DEF LimitInv
      <4> QED
        BY <2>1, <4>1, <4>2, Zenon DEF LimitInv
    <3> QED
      BY <3>1, <3>2, Zenon
  <2> QED
    BY <2>1, <2>2, <2>3, <2>4, Zenon DEF LimitInv
<1>4. CASE Tick
  <2>1. /\ UNCHANGED <<gVerdict, cVerdict>> /\ clock' = clock + 1
        /\ gLevel' = [c \in {"global"} |-> IF gLevel[c] + 1 <= GlobalCapacity THEN gLevel[c] + 1 ELSE GlobalCapacity]
        /\ cLevel' = [c \in Clients |-> IF cLevel[c] + 1 <= RouteCapacity THEN cLevel[c] + 1 ELSE RouteCapacity]
    BY <1>4, Zenon DEF Tick, Global!RBTick, Route!RBTick
  <2>2. /\ gLevel' \in [{"global"} -> Nat] /\ gLevel'["global"] \in Nat /\ gLevel'["global"] <= gLevel["global"] + 1
        /\ cLevel' \in [Clients -> Nat] /\ \A c \in Clients : cLevel'[c] <= cLevel[c] + 1
    BY <2>1 DEF LimitInv
  <2>3. GlobalUnit * Cardinality(GlobalAllowed) \in Nat /\ \A c \in Clients : RouteUnit * Cardinality(Admitted(c)) \in Nat
    <3>1. Cardinality(GlobalAllowed) \in Nat /\ \A c \in Clients : Cardinality(Admitted(c)) \in Nat
      BY RequestSets, Zenon DEF GlobalAllowed, Admitted
    <3> QED
      BY <3>1
  <2>4. GlobalAllowed' = GlobalAllowed /\ \A c \in Clients : Admitted(c)' = Admitted(c)
    BY <2>1, Zenon DEF GlobalAllowed, Admitted
  <2> QED
    BY <2>1, <2>2, <2>3, <2>4 DEF LimitInv
<1>5. ASSUME NEW j \in Jobs, BodyLimit(j) \/ CheckDepth(j) \/ Refuse(j) \/ Accept(j) \/ Disconnect(j) PROVE LimitInv'
  BY <1>5, <1>a, Zenon DEF BodyLimit, CheckDepth, Refuse, Accept, Disconnect, limitVars
<1>6. CASE Dispatch \/ Background
  BY <1>6, <1>a, Zenon DEF Dispatch, Background, limitVars
<1> QED
  BY <1>1, <1>2, <1>3, <1>4, <1>5, <1>6, Zenon DEF IngNext, Request

\* For every rate, burst and number of clients: no client gets more requests to
\* the depth check than its own burst and rate allow, nor all of them together
\* more than the global ones, in whatever order the two limiters are asked.
THEOREM AdmissionBoundHolds == IngSpec => []AdmissionBound
<1>1. IngInit => LimitInv
  <2> SUFFICES ASSUME IngInit PROVE LimitInv
    BY Zenon
  <2>1. /\ gLevel = [c \in {"global"} |-> GlobalCapacity] /\ cLevel = [c \in Clients |-> RouteCapacity] /\ clock = 0
        /\ gVerdict = [j \in Jobs |-> "none"] /\ cVerdict = [j \in Jobs |-> "none"]
    BY Zenon DEF IngInit, Global!RBInit, Route!RBInit
  <2>2. GlobalAllowed = {} /\ \A c \in Clients : Admitted(c) = {}
    BY <2>1, Zenon DEF GlobalAllowed, Admitted
  <2>3. Cardinality(GlobalAllowed) = 0 /\ \A c \in Clients : Cardinality(Admitted(c)) = 0
    BY <2>2, FS_EmptySet, Zenon
  <2> QED
    BY <2>1, <2>3, IngressAssumption DEF LimitInv
<1>2. ChainInv /\ LimitInv => AdmissionBound
  <2> SUFFICES ASSUME ChainInv, LimitInv PROVE AdmissionBound
    BY Zenon
  <2> DEFINE A == {j \in Jobs : cVerdict[j] = "allow"}
  <2>1. ASSUME NEW c \in Clients PROVE RouteUnit * Cardinality(Admitted(c)) <= RouteCapacity + clock
    <3>1. Cardinality(Admitted(c)) \in Nat
      BY RequestSets, Zenon DEF Admitted
    <3>2. RouteUnit * Cardinality(Admitted(c)) \in Nat
      BY <3>1, IngressAssumption
    <3> QED
      BY <3>2, IngressAssumption DEF LimitInv
  <2>2. A \in SUBSET GlobalAllowed /\ GlobalAllowed \in SUBSET Jobs
    BY Zenon DEF GlobalAllowed, ChainInv
  <2>3. Cardinality(A) \in Nat /\ Cardinality(GlobalAllowed) \in Nat /\ Cardinality(A) <= Cardinality(GlobalAllowed)
    BY <2>2, RequestSets, Zenon
  <2>4. GlobalUnit * Cardinality(A) <= GlobalUnit * Cardinality(GlobalAllowed)
    BY <2>3, IngressAssumption
  <2>5. GlobalUnit * Cardinality(A) \in Nat /\ GlobalUnit * Cardinality(GlobalAllowed) \in Nat
    BY <2>3, IngressAssumption
  <2>6. GlobalUnit * Cardinality(A) <= GlobalCapacity + clock
    BY <2>4, <2>5, IngressAssumption DEF LimitInv
  <2> QED
    BY <2>1, <2>6, Zenon DEF AdmissionBound
<1> QED
  BY <1>1, <1>2, ChainInitInv, ChainStep, LimitStep, PartsInvariant, PTL DEF IngSpec
-----------------------------------------------------------------------------
(***************************************************************************)
(* Shedding has a cause.                                                   *)
(***************************************************************************)

\* What a check has counted, and would count if it read the rest now, was on
\* the lists when it began or was pushed since.
Accounted(j) ==
  /\ bpc[j] \in {"out", "HIGH"} => sum[j] = 0
  /\ bpc[j] = "HIGH" => TotalDepth <= load[j]
  /\ bpc[j] = "MEDIUM" => sum[j] + Len(queue["MEDIUM"]) + Len(queue["LOW"]) <= load[j]
  /\ bpc[j] = "LOW" => sum[j] + Len(queue["LOW"]) <= load[j]
  /\ bpc[j] = "shed" => load[j] >= Threshold

LoadInv == load \in [Jobs -> Nat] /\ \A j \in Jobs : Accounted(j)

\* Fewer jobs on the lists are accounted for as well.
LEMMA FewerAccounted ==
  ASSUME BpShape, LoadInv, UNCHANGED <<bpc, sum, load>>,
         Len(queue'["HIGH"]) \in Nat, Len(queue'["MEDIUM"]) \in Nat, Len(queue'["LOW"]) \in Nat,
         TotalDepth' <= TotalDepth, Len(queue'["MEDIUM"]) <= Len(queue["MEDIUM"]),
         Len(queue'["LOW"]) <= Len(queue["LOW"])
  PROVE  LoadInv'
<1> SUFFICES ASSUME NEW j \in Jobs PROVE Accounted(j)'
  BY Zenon DEF LoadInv
<1>0. TotalDepth' \in Nat /\ sum[j] \in Nat /\ load[j] \in Nat
  <2>1. PICK x \in Nat, y \in Nat, z \in Nat :
          x = Len(queue'["HIGH"]) /\ y = Len(queue'["MEDIUM"]) /\ z = Len(queue'["LOW"])
    BY Zenon
  <2>2. x + y + z \in Nat
    OBVIOUS
  <2>3. TotalDepth' \in Nat
    BY <2>1, <2>2, Zenon DEF TotalDepth
  <2> QED
    BY <2>3, Zenon DEF BpShape, LoadInv
<1>1. PICK b \in Nat, c \in Nat, d \in Nat, x \in Nat, y \in Nat, z \in Nat, s \in Nat, l \in Nat :
        /\ b = Len(queue["MEDIUM"]) /\ c = Len(queue["LOW"]) /\ d = TotalDepth
        /\ x = TotalDepth' /\ y = Len(queue'["MEDIUM"]) /\ z = Len(queue'["LOW"])
        /\ s = sum[j] /\ l = load[j]
  BY <1>0, DepthType, Zenon
<1>2. x <= d /\ y <= b /\ z <= c
  BY <1>1, Zenon
<1>3. (d <= l => x <= l) /\ (s + b + c <= l => s + y + z <= l) /\ (s + c <= l => s + z <= l)
  BY <1>2
<1> QED
  BY <1>1, <1>3, Zenon DEF LoadInv, Accounted

\* A push is counted by every check in progress.
LEMMA MoreAccounted ==
  ASSUME BpShape, LoadInv, UNCHANGED <<bpc, sum>>, NEW c \in Copy, Push(c), CountPush
  PROVE  LoadInv'
<1>1. /\ queue' \in [Priorities -> Seq(Copy)] /\ TotalDepth' = TotalDepth + 1
      /\ Len(queue'["MEDIUM"]) + Len(queue'["LOW"]) <= Len(queue["MEDIUM"]) + Len(queue["LOW"]) + 1
      /\ Len(queue'["LOW"]) <= Len(queue["LOW"]) + 1
  BY PushDepth, Zenon
<1>2. load' = [i \in Jobs |-> IF bpc[i] \in Reading THEN load[i] + 1 ELSE load[i]]
  BY Zenon DEF CountPush
<1>3. load' \in [Jobs -> Nat]
  BY <1>2 DEF LoadInv
<1>4. ASSUME NEW i \in Jobs PROVE Accounted(i)'
  <2>0. Len(queue'["MEDIUM"]) \in Nat /\ Len(queue'["LOW"]) \in Nat
    BY <1>1 DEF Priorities
  <2>1. PICK b \in Nat, e \in Nat, d \in Nat, y \in Nat, z \in Nat :
          /\ b = Len(queue["MEDIUM"]) /\ e = Len(queue["LOW"]) /\ d = TotalDepth
          /\ y = Len(queue'["MEDIUM"]) /\ z = Len(queue'["LOW"])
    BY <2>0, DepthType, Zenon
  <2>2. TotalDepth' = d + 1 /\ y + z <= b + e + 1 /\ z <= e + 1 /\ sum[i] \in Nat /\ load[i] \in Nat
    BY <1>1, <2>1, Zenon DEF BpShape, LoadInv
  <2>3. CASE bpc[i] \in Reading
    <3>1. load'[i] = load[i] + 1
      BY <1>2, <2>3, Zenon
    <3>2. /\ d <= load[i] => d + 1 <= load[i] + 1
          /\ sum[i] + b + e <= load[i] => sum[i] + y + z <= load[i] + 1
          /\ sum[i] + e <= load[i] => sum[i] + z <= load[i] + 1
      BY <2>2
    <3>3. bpc[i] # "shed"
      BY <2>3, Zenon DEF Reading
    <3> QED
      BY <2>1, <2>2, <3>1, <3>2, <3>3, Zenon DEF LoadInv, Accounted
  <2>4. CASE bpc[i] \notin Reading
    BY <1>2, <2>4, Zenon DEF LoadInv, Accounted, Reading
  <2> QED
    BY <2>3, <2>4, Zenon
<1> QED
  BY <1>3, <1>4, Zenon DEF LoadInv

\* Every step of the chain preserves it.
LEMMA LoadStep == BpInv /\ LoadInv /\ [IngNext]_ingVars => LoadInv'
<1> SUFFICES ASSUME BpShape, LoadInv, [IngNext]_ingVars PROVE LoadInv'
  BY Zenon DEF BpInv
<1>a. ASSUME UNCHANGED <<queue, bpc, sum, load>> PROVE LoadInv'
  BY <1>a, Zenon DEF LoadInv, Accounted, TotalDepth
<1>1. CASE UNCHANGED ingVars
  BY <1>1, <1>a, Zenon DEF ingVars, bpVars, gwVars, storeVars, checkVars
<1>2. ASSUME NEW j \in Jobs, GlobalLimit(j) \/ BodyLimit(j) \/ ClientLimit(j) \/ Refuse(j) \/ Disconnect(j)
      PROVE  LoadInv'
  BY <1>2, <1>a, Zenon DEF GlobalLimit, BodyLimit, ClientLimit, Refuse, Disconnect, ClientGone,
                          bpVars, gwVars, storeVars, checkVars
<1>3. ASSUME NEW j \in Jobs, CheckDepth(j) PROVE LoadInv'
  <2>1. CASE Arrive(j) /\ load' = [load EXCEPT ![j] = TotalDepth]
    <3>1. UNCHANGED <<queue, sum>> /\ bpc[j] = "out" /\ \E to \in {"HIGH", "passed"} : bpc' = [bpc EXCEPT ![j] = to]
      BY <2>1, Zenon DEF Arrive, gwVars, storeVars
    <3>2. TotalDepth' = TotalDepth /\ TotalDepth \in Nat
      BY <3>1, DepthType, Zenon DEF TotalDepth
    <3> QED
      BY <2>1, <3>1, <3>2 DEF LoadInv, Accounted, BpShape
  <2>2. ASSUME ReadDepth(j) \/ ReadFails(j), load' = IF bpc'[j] = "passed" THEN [load EXCEPT ![j] = 0] ELSE load
        PROVE  LoadInv'
    <3>1. queue' = queue /\ TotalDepth' = TotalDepth
      BY <2>2, Zenon DEF ReadDepth, ReadFails, TotalDepth
    <3>2. \A i \in Jobs \ {j} : bpc'[i] = bpc[i] /\ sum'[i] = sum[i] /\ load'[i] = load[i]
      BY <2>2, Zenon DEF ReadDepth, ReadFails, BpShape, LoadInv
    <3>3. load' \in [Jobs -> Nat]
      BY <2>2, Zenon DEF LoadInv
    <3>4. \A i \in Jobs \ {j} : Accounted(i)'
      BY <3>1, <3>2, Zenon DEF LoadInv, Accounted
    <3>5. Accounted(j)'
      <4>1. CASE bpc'[j] = "passed"
        BY <4>1, Zenon DEF Accounted
      <4>2. CASE bpc'[j] # "passed"
        <5>1. ReadDepth(j) /\ load' = load
          BY <2>2, <4>2, Zenon DEF ReadFails, BpShape
        <5>2. PICK p \in Reading : p = bpc[j]
          BY <5>1, Zenon DEF ReadDepth
        <5>3. PICK a \in Nat, b \in Nat, c \in Nat, s \in Nat :
                a = Len(queue["HIGH"]) /\ b = Len(queue["MEDIUM"]) /\ c = Len(queue["LOW"]) /\ s = sum[j]
          BY DepthType, Zenon DEF BpShape
        <5>4. TotalDepth = a + b + c
          BY <5>3, Zenon DEF TotalDepth
        <5>5. CASE p = "HIGH"
          <6>1. bpc'[j] = "MEDIUM" /\ sum'[j] = s + a /\ s = 0 /\ a + b + c <= load[j]
            BY <5>1, <5>2, <5>3, <5>4, <5>5, Zenon DEF ReadDepth, AfterRead, BpShape, LoadInv, Accounted
          <6>2. s + a + b + c <= load[j]
            BY <6>1 DEF LoadInv
          <6>3. sum'[j] + Len(queue'["MEDIUM"]) + Len(queue'["LOW"]) <= load'[j]
            BY <3>1, <5>1, <5>3, <6>1, <6>2, Zenon
          <6> QED
            BY <6>1, <6>3, Zenon DEF Accounted
        <5>6. CASE p = "MEDIUM"
          <6>1. bpc'[j] = "LOW" /\ sum'[j] = s + b /\ s + b + c <= load[j]
            BY <5>1, <5>2, <5>3, <5>6, ZenonT(40) DEF ReadDepth, AfterRead, BpShape, LoadInv, Accounted
          <6> QED
            BY <3>1, <5>1, <5>3, <6>1, Zenon DEF Accounted
        <5>7. CASE p = "LOW"
          <6>1. bpc'[j] = "shed" /\ s + c >= Threshold /\ s + c <= load[j]
            BY <4>2, <5>1, <5>2, <5>3, <5>7, Zenon DEF ReadDepth, AfterRead, BpShape, LoadInv, Accounted
          <6>2. load[j] >= Threshold
            BY <6>1, BackpressureAssumption DEF LoadInv
          <6> QED
            BY <5>1, <6>1, <6>2, Zenon DEF Accounted
        <5> QED
          BY <5>5, <5>6, <5>7, Zenon DEF Reading
      <4> QED
        BY <4>1, <4>2, Zenon
    <3> QED
      BY <3>3, <3>4, <3>5, Zenon DEF LoadInv
  <2> QED
    BY <1>3, <2>1, <2>2, Zenon DEF CheckDepth
<1>4. ASSUME NEW j \in Jobs, Accept(j) PROVE LoadInv'
  <2>1. /\ UNCHANGED <<bpc, sum>>
        /\ IF queue' = queue THEN load' = load ELSE CountPush
        /\ queue' = queue \/ Push(NewJob(j))
    BY <1>4, Zenon DEF Accept, Handle, Enqueue, Validate, Claim, GetExisting, GetRow, CreateRow, PushJob, Release,
                      storeVars, checkVars
  <2>2. CASE queue' = queue
    BY <1>a, <2>1, <2>2, Zenon
  <2>3. CASE queue' # queue
    <3>1. NewJob(j) \in Copy
      BY StoresAssumption DEF NewJob, Copy
    <3> QED
      BY <2>1, <2>3, <3>1, MoreAccounted, Zenon
  <2> QED
    BY <2>2, <2>3, Zenon
<1>5. CASE Dispatch
  <2>1. PICK p \in Priorities : Consume(p)
    BY <1>5, Zenon DEF Dispatch
  <2>2. UNCHANGED <<bpc, sum, load>>
    BY <1>5, <2>1, Zenon DEF Dispatch, Consume, checkVars
  <2>3. \A x \in Priorities : Len(queue'[x]) \in Nat /\ Len(queue'[x]) <= Len(queue[x])
    BY <2>1, ConsumeDepth, Zenon
  <2>4. TotalDepth' <= TotalDepth
    <3>1. PICK a \in Nat, b \in Nat, c \in Nat, x \in Nat, y \in Nat, z \in Nat :
            /\ a = Len(queue["HIGH"]) /\ b = Len(queue["MEDIUM"]) /\ c = Len(queue["LOW"])
            /\ x = Len(queue'["HIGH"]) /\ y = Len(queue'["MEDIUM"]) /\ z = Len(queue'["LOW"])
      BY <2>3, DepthType, Zenon DEF Priorities
    <3>2. x <= a /\ y <= b /\ z <= c
      BY <2>3, <3>1, Zenon DEF Priorities
    <3>3. x + y + z <= a + b + c
      BY <3>2
    <3> QED
      BY <3>1, <3>3, Zenon DEF TotalDepth
  <2> QED
    BY <2>2, <2>3, <2>4, FewerAccounted, Zenon DEF Priorities
<1>6. CASE Tick
  BY <1>6, <1>a, Zenon DEF Tick, bpVars, gwVars, storeVars, checkVars
<1>7. CASE Background
  <2>1. \A w \in Welcomes : NewJob(w) \in Copy
    BY StoresAssumption, BackpressureAssumption DEF NewJob, Copy
  <2>2. PICK c \in Copy : Push(c) /\ UNCHANGED <<bpc, sum>> /\ CountPush
    BY <1>7, <2>1, Zenon DEF Background, Requeue, Welcome, PushUnchecked, checkVars
  <2> QED
    BY <2>2, MoreAccounted, Zenon
<1> QED
  BY <1>1, <1>2, <1>3, <1>4, <1>5, <1>6, <1>7, Zenon DEF IngNext, Request

\* No request is shed unless, for every threshold, that many jobs were on the
\* lists when its check began or were pushed during it: three separate reads
\* never count a job twice.
THEOREM ShedHasCauseHolds == IngSpec => []ShedHasCause
<1>1. IngInit => LoadInv
  BY DEF IngInit, BpInit, LoadInv, Accounted
<1>2. LoadInv => ShedHasCause
  BY Zenon DEF LoadInv, Accounted, ShedHasCause
<1> QED
  BY <1>1, <1>2, LoadStep, PartsInvariant, PTL DEF IngSpec

-----------------------------------------------------------------------------
(***************************************************************************)
(* Types.                                                                  *)
(***************************************************************************)
\* What the invariants above do not say of the types.
RestType ==
  /\ deadLetter \in Seq(Copy) /\ attempts \in [Jobs -> Nat]
  /\ doneKey \in SUBSET Jobs /\ lockKey \in SUBSET Jobs /\ faults \in 0..MaxFaults
  /\ rlive \in [Jobs -> BOOLEAN] /\ answer \in [Jobs -> Jobs \cup {NoJob}]
  /\ flaw \in [Jobs -> Flaws]
  /\ gLevel \in [{"global"} -> 0..GlobalCapacity] /\ cLevel \in [Clients -> 0..RouteCapacity]
  /\ clock \in 0..MaxTicks

\* What a step of Enqueue, or a disconnect, does to them.
LEMMA EnqueueRest ==
  ASSUME RestType, GwInv, NEW j \in Jobs, Enqueue(j) \/ ClientGone(j)
  PROVE  /\ UNCHANGED <<deadLetter, attempts, doneKey, lockKey>> /\ faults' \in 0..MaxFaults
         /\ rlive' \in [Jobs -> BOOLEAN] /\ answer' \in [Jobs -> Jobs \cup {NoJob}]
<1>1. UNCHANGED <<deadLetter, attempts, doneKey, lockKey>>
  BY Zenon DEF Enqueue, ClientGone, Validate, Claim, GetExisting, GetRow, CreateRow, PushJob, Release, storeVars
<1>2. faults' \in 0..MaxFaults
  <2>1. \A store, live, ok : Call(store, live, ok) => faults' \in 0..MaxFaults
    BY StoresAssumption DEF Call, RestType
  <2>2. faults' = faults => faults' \in 0..MaxFaults
    BY Zenon DEF RestType
  <2>. QED  BY <2>1, <2>2, Zenon DEF Enqueue, ClientGone, Validate, Claim, GetExisting, GetRow, CreateRow, PushJob, Release, storeVars
<1>3. rlive' \in [Jobs -> BOOLEAN]
  <2>1. rlive' \in {rlive, [rlive EXCEPT ![j] = FALSE]}
    BY Zenon DEF Enqueue, ClientGone, Validate, Claim, GetExisting, GetRow, CreateRow, PushJob, Release
  <2>. QED  BY <2>1, Zenon DEF RestType
<1>4. answer' \in [Jobs -> Jobs \cup {NoJob}]
  <2>1. answer' = answer \/ GetExisting(j)
    BY Zenon DEF Enqueue, ClientGone, Validate, Claim, GetRow, CreateRow, PushJob, Release
  <2>2. idemKey[KeyOf[j]] \in Jobs \cup {NoJob}
    BY GatewayAssumption, Zenon DEF GwInv, GwShape
  <2>. QED  BY <2>1, <2>2, Zenon DEF RestType, GetExisting
<1>. QED  BY <1>1, <1>2, <1>3, <1>4, Zenon

\* Every step of the chain keeps them.
LEMMA RestStep == GwInv /\ RestType /\ [IngNext]_ingVars => RestType'
<1>. SUFFICES ASSUME GwInv, RestType, [IngNext]_ingVars PROVE RestType'
  BY Zenon
<1>1. ASSUME UNCHANGED <<deadLetter, attempts, doneKey, lockKey, rlive, answer, flaw, gLevel, cLevel, clock>>,
             faults' \in 0..MaxFaults
      PROVE  RestType'
  BY <1>1, Zenon DEF RestType
<1>2. faults \in 0..MaxFaults
  BY Zenon DEF RestType
<1>3. ASSUME NEW j \in Jobs, GlobalLimit(j) \/ ClientLimit(j) PROVE RestType'
  <2>1. UNCHANGED <<deadLetter, attempts, doneKey, lockKey, faults, rlive, answer, flaw, clock>>
    BY <1>3, Zenon DEF GlobalLimit, ClientLimit, bpVars, gwVars, storeVars, gatewayVars
  <2>2. gLevel' \in [{"global"} -> 0..GlobalCapacity]
    BY <1>3, IngressAssumption DEF GlobalLimit, ClientLimit, Global!RBAllow, RestType
  <2>3. cLevel' \in [Clients -> 0..RouteCapacity]
    <3>1. \/ cLevel' = cLevel
          \/ cLevel' = [cLevel EXCEPT ![ClientOf[j]] = IF @ >= RouteUnit THEN @ - RouteUnit ELSE @]
      BY <1>3, Zenon DEF GlobalLimit, ClientLimit, Route!RBAllow
    <3>2. cLevel \in [Clients -> 0..RouteCapacity] /\ ClientOf[j] \in Clients
      BY IngressAssumption, Zenon DEF RestType
    <3>3. \A n \in 0..RouteCapacity : (IF n >= RouteUnit THEN n - RouteUnit ELSE n) \in 0..RouteCapacity
      BY IngressAssumption
    <3>. QED  BY <3>1, <3>2, <3>3, Zenon
  <2>. QED  BY <2>1, <2>2, <2>3, Zenon DEF RestType
<1>4. ASSUME NEW j \in Jobs, BodyLimit(j) \/ Refuse(j) PROVE RestType'
  <2>1. UNCHANGED <<deadLetter, attempts, doneKey, lockKey, faults, rlive, answer, flaw, gLevel, cLevel, clock>>
    BY <1>4, Zenon DEF BodyLimit, Refuse, bpVars, gwVars, storeVars, gatewayVars, limitVars
  <2>. QED  BY <1>1, <1>2, <2>1
<1>5. ASSUME NEW j \in Jobs, CheckDepth(j) PROVE RestType'
  <2>1. UNCHANGED <<deadLetter, attempts, doneKey, lockKey, rlive, answer, flaw, gLevel, cLevel, clock>>
    BY <1>5, Zenon DEF CheckDepth, Arrive, ReadDepth, ReadFails, gwVars, storeVars, gatewayVars, limitVars
  <2>2. \A store, live, ok : Call(store, live, ok) => faults' \in 0..MaxFaults
    BY <1>2, StoresAssumption DEF Call
  <2>3. faults' \in 0..MaxFaults
    BY <1>2, <1>5, <2>2, Zenon DEF CheckDepth, Arrive, ReadDepth, ReadFails, gwVars, storeVars
  <2>. QED  BY <1>1, <2>1, <2>3, Zenon
<1>6. ASSUME NEW j \in Jobs, Accept(j) \/ Disconnect(j) PROVE RestType'
  <2>1. (Enqueue(j) \/ ClientGone(j)) /\ UNCHANGED <<flaw, gLevel, cLevel, clock>>
    BY <1>6, Zenon DEF Accept, Handle, Disconnect, limitVars
  <2>. QED  BY <2>1, EnqueueRest, Zenon DEF RestType
<1>7. CASE Dispatch \/ Background
  <2>1. UNCHANGED <<deadLetter, attempts, doneKey, lockKey, faults, rlive, answer, flaw, gLevel, cLevel, clock>>
    BY <1>7, Zenon DEF Dispatch, Consume, Background, Requeue, Welcome, PushUnchecked, gatewayVars, limitVars
  <2>. QED  BY <1>1, <1>2, <2>1, Zenon
<1>8. CASE Tick
  <2>1. UNCHANGED <<deadLetter, attempts, doneKey, lockKey, faults, rlive, answer, flaw>>
    BY <1>8, Zenon DEF Tick, bpVars, gwVars, storeVars, gatewayVars
  <2>2. gLevel' \in [{"global"} -> 0..GlobalCapacity] /\ cLevel' \in [Clients -> 0..RouteCapacity]
    BY <1>8, IngressAssumption DEF Tick, Global!RBTick, Route!RBTick, RestType
  <2>3. clock' \in 0..MaxTicks
    BY <1>8, IngressAssumption DEF Tick, RestType
  <2>. QED  BY <2>1, <2>2, <2>3, Zenon DEF RestType
<1>9. CASE UNCHANGED ingVars
  <2>1. UNCHANGED <<deadLetter, attempts, doneKey, lockKey, faults, rlive, answer, flaw, gLevel, cLevel, clock>>
    BY <1>9, Zenon DEF ingVars, bpVars, gwVars, storeVars, gatewayVars, limitVars
  <2>. QED  BY <1>1, <1>2, <2>1, Zenon
<1>. QED  BY <1>3, <1>4, <1>5, <1>6, <1>7, <1>8, <1>9, Zenon DEF IngNext, Request

\* Every variable of the chain has its type; in particular no bucket is ever
\* below zero or above its burst.
THEOREM IngressTypeCorrect == IngSpec => []IngressTypeOK
<1>1. IngInit => RestType /\ LoadInv
  BY IngressAssumption, StoresAssumption
  DEF IngInit, BpInit, GwInit, StoresInit, GatewayInit, Global!RBInit, Route!RBInit, RestType, LoadInv, Accounted
<1>2. BpInv /\ GwInv /\ ChainInv /\ LoadInv /\ RestType => IngressTypeOK
  BY Zenon DEF BpInv, BpShape, GwInv, GwShape, ChainInv, LoadInv, RestType, IngressTypeOK, BackpressureTypeOK, GwTypeOK,
         StoresTypeOK, GatewayTypeOK
<1>. QED  BY <1>1, <1>2, ChainInitInv, ChainStep, LoadStep, RestStep, PartsInvariant, PTL DEF IngSpec
=============================================================================
