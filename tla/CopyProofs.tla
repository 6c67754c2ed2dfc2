----------------------------- MODULE CopyProofs -----------------------------
(***************************************************************************)
(* What the worker pool does with the copies of a job, by counting: how    *)
(* many there can be, and how often they can be run.                       *)
(***************************************************************************)
EXTENDS ServiceProofs, Functions, FiniteSetTheorems

(***************************************************************************)
(* Finite sums.  A sum of natural numbers is the number of tokens when x   *)
(* is given f[x] of them: so defined, its laws follow from those of        *)
(* cardinalities and need no induction.                                    *)
(***************************************************************************)
Tokens(S, f) == {x \in S \X Nat : x[2] \in 1..f[x[1]]}

SumOver(S, f) == Cardinality(Tokens(S, f))

\* The tokens of one element.
LEMMA TokensOfOne ==
  ASSUME NEW x, NEW n \in Nat
  PROVE  IsFiniteSet({x} \X (1..n)) /\ Cardinality({x} \X (1..n)) = n
<1>1. IsFiniteSet({x}) /\ Cardinality({x}) = 1
  BY FS_Singleton, Zenon
<1>2. IsFiniteSet(1..n) /\ Cardinality(1..n) = n
  BY FS_Interval
<1>3. /\ IsFiniteSet({x} \X (1..n))
      /\ Cardinality({x} \X (1..n)) = Cardinality({x}) * Cardinality(1..n)
  BY <1>1, <1>2, FS_Product, Zenon
<1>. QED  BY <1>1, <1>2, <1>3

\* Finitely many elements have finitely many tokens.
LEMMA TokensFinite ==
  ASSUME NEW S, IsFiniteSet(S), NEW f, \A x \in S : f[x] \in Nat
  PROVE  IsFiniteSet(Tokens(S, f))
<1>. DEFINE own == [x \in S |-> {x} \X (1..f[x])]
            all == {own[x] : x \in S}
<1>1. own \in Surjection(S, all)
  BY Zenon DEF Surjection
<1>2. IsFiniteSet(all)
  BY <1>1, FS_Surjection, Zenon
<1>3. \A T \in all : IsFiniteSet(T)
  <2>1. \A x \in S : own[x] = {x} \X (1..f[x])
    BY Zenon
  <2>2. \A x \in S : IsFiniteSet({x} \X (1..f[x]))
    BY TokensOfOne, Zenon
  <2>. QED  BY <2>1, <2>2, Zenon
<1>4. IsFiniteSet(UNION all)
  BY <1>2, <1>3, FS_UNION, Zenon
<1>5. Tokens(S, f) \subseteq UNION all
  <2>. SUFFICES ASSUME NEW t \in Tokens(S, f) PROVE t \in UNION all
    BY Zenon
  <2>1. t[1] \in S /\ t = <<t[1], t[2]>> /\ t[2] \in 1..f[t[1]]
    BY DEF Tokens
  <2>2. t \in own[t[1]]
    BY <2>1, Zenon
  <2>. QED  BY <2>1, <2>2, Zenon
<1>. QED  BY <1>4, <1>5, FS_Subset, Zenon

\* A sum is a natural number.
LEMMA SumType ==
  ASSUME NEW S, IsFiniteSet(S), NEW f, \A x \in S : f[x] \in Nat
  PROVE  SumOver(S, f) \in Nat
BY TokensFinite, FS_CardinalityType, Zenon DEF SumOver

\* One element can be taken out of the sum.
LEMMA SumSplit ==
  ASSUME NEW S, IsFiniteSet(S), NEW f, \A y \in S : f[y] \in Nat, NEW x \in S
  PROVE  SumOver(S, f) = SumOver(S \ {x}, f) + f[x]
<1>. DEFINE own == {x} \X (1..f[x])
            rest == Tokens(S \ {x}, f)
<1>1. Tokens(S, f) = rest \cup own
  BY DEF Tokens
<1>2. rest \cap own = {}
  BY Zenon DEF Tokens
<1>3. IsFiniteSet(rest)
  <2>1. IsFiniteSet(S \ {x})
    BY FS_RemoveElement, Zenon
  <2>. QED  BY <2>1, TokensFinite, Zenon
<1>4. IsFiniteSet(own) /\ Cardinality(own) = f[x]
  BY TokensOfOne, Zenon
<1>5. Cardinality(rest \cup own) = Cardinality(rest) + Cardinality(own) - Cardinality(rest \cap own)
  BY <1>3, <1>4, FS_Union, Zenon
<1>6. Cardinality(rest) \in Nat /\ Cardinality(rest \cap own) = 0
  BY <1>2, <1>3, FS_CardinalityType, FS_EmptySet, Zenon
<1>. QED  BY <1>1, <1>4, <1>5, <1>6 DEF SumOver

\* A sum depends only on the summands.
LEMMA SumEqual ==
  ASSUME NEW S, NEW f, NEW g, \A x \in S : f[x] = g[x]
  PROVE  SumOver(S, f) = SumOver(S, g)
<1>1. Tokens(S, f) = Tokens(S, g)
  BY Zenon DEF Tokens
<1>. QED  BY <1>1, Zenon DEF SumOver

\* Changing one summand changes the sum by the difference.
LEMMA SumChange ==
  ASSUME NEW S, IsFiniteSet(S), NEW f, NEW g,
         \A y \in S : f[y] \in Nat /\ g[y] \in Nat,
         NEW x \in S, \A y \in S \ {x} : g[y] = f[y]
  PROVE  SumOver(S, g) = SumOver(S, f) - f[x] + g[x]
<1>1. SumOver(S, f) = SumOver(S \ {x}, f) + f[x]
  BY SumSplit
<1>2. SumOver(S, g) = SumOver(S \ {x}, g) + g[x]
  BY SumSplit
<1>3. SumOver(S \ {x}, f) = SumOver(S \ {x}, g)
  BY SumEqual, Zenon
<1>4. SumOver(S \ {x}, f) \in Nat
  <2>1. IsFiniteSet(S \ {x})
    BY FS_RemoveElement, Zenon
  <2>. QED  BY <2>1, SumType, Zenon
<1>. QED  BY <1>1, <1>2, <1>3, <1>4

\* A summand is at most the sum.
LEMMA SumBound ==
  ASSUME NEW S, IsFiniteSet(S), NEW f, \A y \in S : f[y] \in Nat, NEW x \in S
  PROVE  f[x] <= SumOver(S, f)
<1>1. IsFiniteSet(S \ {x})
  BY FS_RemoveElement, Zenon
<1>2. SumOver(S \ {x}, f) \in Nat
  BY <1>1, SumType, Zenon
<1>. QED  BY <1>2, SumSplit

\* A sum of zeros.
LEMMA SumZero ==
  ASSUME NEW S, NEW f, \A x \in S : f[x] = 0
  PROVE  SumOver(S, f) = 0
<1>1. Tokens(S, f) = {}
  BY DEF Tokens
<1>. QED  BY <1>1, FS_EmptySet, Zenon DEF SumOver

\* Dropping the first of a list of summands moves the others up.
LEMMA SumShift ==
  ASSUME NEW n \in Nat, NEW f, \A k \in 1..(n + 1) : f[k] \in Nat,
         NEW g, \A k \in 1..n : g[k] = f[k + 1]
  PROVE  SumOver(1..(n + 1), f) = f[1] + SumOver(1..n, g)
<1>. DEFINE S == (1..(n + 1)) \ {1}
            up == [t \in Tokens(1..n, g) |-> <<t[1] + 1, t[2]>>]
<1>1. SumOver(1..(n + 1), f) = SumOver(S, f) + f[1]
  <2>1. PICK T : T = 1..(n + 1)
    BY Zenon
  <2>2. IsFiniteSet(T) /\ 1 \in T
    BY <2>1, FS_Interval
  <2>3. SumOver(T, f) = SumOver(T \ {1}, f) + f[1]
    BY <2>1, <2>2, SumSplit
  <2>. QED  BY <2>1, <2>3, Zenon
<1>2. IsFiniteSet(Tokens(1..n, g))
  <2>1. IsFiniteSet(1..n)
    BY FS_Interval
  <2>2. \A k \in 1..n : g[k] \in Nat
    OBVIOUS
  <2>. QED  BY <2>1, <2>2, TokensFinite, Zenon
<1>3. up \in Bijection(Tokens(1..n, g), Tokens(S, f))
  <2>1. up \in [Tokens(1..n, g) -> Tokens(S, f)]
    <3>. SUFFICES ASSUME NEW t \in Tokens(1..n, g) PROVE <<t[1] + 1, t[2]>> \in Tokens(S, f)
      BY Zenon
    <3>1. t[1] \in 1..n /\ t[2] \in Nat /\ t[2] \in 1..g[t[1]]
      BY Zenon DEF Tokens
    <3>2. t[1] + 1 \in S /\ t[2] \in 1..f[t[1] + 1]
      BY <3>1
    <3>. QED  BY <3>1, <3>2, Zenon DEF Tokens
  <2>2. \A t, u \in Tokens(1..n, g) : up[t] = up[u] => t = u
    <3>. SUFFICES ASSUME NEW t \in Tokens(1..n, g), NEW u \in Tokens(1..n, g), up[t] = up[u] PROVE t = u
      BY Zenon
    <3>1. t[1] \in Int /\ u[1] \in Int /\ t = <<t[1], t[2]>> /\ u = <<u[1], u[2]>>
      BY DEF Tokens
    <3>2. t[1] + 1 = u[1] + 1 /\ t[2] = u[2]
      BY Zenon
    <3>3. t[1] = u[1]
      BY <3>1, <3>2
    <3>. QED  BY <3>1, <3>2, <3>3, Zenon
  <2>3. \A u \in Tokens(S, f) : \E t \in Tokens(1..n, g) : up[t] = u
    <3>. SUFFICES ASSUME NEW u \in Tokens(S, f) PROVE \E t \in Tokens(1..n, g) : up[t] = u
      BY Zenon
    <3>1. u[1] \in 2..(n + 1) /\ u[2] \in Nat /\ u[2] \in 1..f[u[1]] /\ u = <<u[1], u[2]>>
      BY DEF Tokens
    <3>2. u[1] - 1 \in 1..n /\ u[2] \in 1..g[u[1] - 1]
      BY <3>1
    <3>3. <<u[1] - 1, u[2]>> \in Tokens(1..n, g)
      BY <3>1, <3>2, Zenon DEF Tokens
    <3>. QED  BY <3>1, <3>3
  <2>. QED  BY <2>1, <2>2, <2>3, Zenon DEF Bijection, Injection, Surjection, IsInjective
<1>4. Cardinality(Tokens(S, f)) = Cardinality(Tokens(1..n, g))
  BY <1>2, <1>3, FS_Bijection DEF ExistsBijection
<1>5. SumOver(1..n, g) \in Nat
  BY <1>2, FS_CardinalityType, Zenon DEF SumOver
<1>. QED  BY <1>1, <1>4, <1>5 DEF SumOver

\* The size of a set as a sum of ones.
LEMMA CountAsSum ==
  ASSUME NEW S, IsFiniteSet(S), NEW f, \A x \in S : f[x] \in {0, 1}
  PROVE  Cardinality({x \in S : f[x] = 1}) = SumOver(S, f)
<1>. DEFINE ones == {x \in S : f[x] = 1}
            tok == [x \in ones |-> <<x, 1>>]
<1>1. IsFiniteSet(ones)
  BY FS_Subset, Zenon
<1>2. tok \in Bijection(ones, Tokens(S, f))
  <2>1. tok \in [ones -> Tokens(S, f)]
    BY DEF Tokens
  <2>2. \A t \in Tokens(S, f) : \E x \in ones : tok[x] = t
    BY DEF Tokens
  <2>3. \A x, y \in ones : tok[x] = tok[y] => x = y
    BY Zenon
  <2>. QED  BY <2>1, <2>2, <2>3, Zenon DEF Bijection, Injection, Surjection, IsInjective
<1>. QED  BY <1>1, <1>2, FS_Bijection, Zenon DEF ExistsBijection, SumOver

-----------------------------------------------------------------------------
(***************************************************************************)
(* One argument gives four bounds.  A copy weighs what it may still add,   *)
(* and beside it stands what it has added: under "copies" the job:done     *)
(* marker, under "runs" the calls of Process, under "rows" a terminal      *)
(* status, under "entries" the entries of the dead-letter list.            *)
(***************************************************************************)
Modes == {"copies", "runs", "rows", "entries"}

Weight(m, c) == IF m = "runs" THEN MaxRetries + 1 - c.retry ELSE 1

\* The same for a copy in the hands of a worker, which may have run it,
\* written its row or pushed it to the dead-letter list.
WorkerWeight(m, pc, c) ==
  CASE pc \in {"idle", "exited", "succAttempt", "unlock"} -> 0
    [] pc \in {"getDone", "setLock", "mark", "run", "spawn"} -> Weight(m, c)
    [] pc \in {"attemptRetry", "retryUpdate"} -> IF m = "runs" THEN MaxRetries - c.retry ELSE 1
    [] pc = "dlPush" -> IF m \in {"copies", "entries"} THEN 1 ELSE 0
    [] pc \in {"succDone", "dlDone"} -> IF m = "copies" THEN 1 ELSE 0
    [] OTHER -> IF m = "runs" THEN 0 ELSE 1

Of(m, j, c) == IF c \in Copy /\ c.id = j THEN Weight(m, c) ELSE 0

OfWorker(m, j, pc, c) == IF c \in Copy /\ c.id = j THEN WorkerWeight(m, pc, c) ELSE 0

InList(m, j, s) == SumOver(1..Len(s), [k \in 1..Len(s) |-> Of(m, j, s[k])])

InLists(m, j, q) == InList(m, j, q["HIGH"]) + InList(m, j, q["MEDIUM"]) + InList(m, j, q["LOW"])

AtWorkers(m, j, pc, wj) == SumOver(Workers, [w \in Workers |-> OfWorker(m, j, pc[w], wj[w])])

InTimers(m, j, t) == SumOver(Copy, [c \in Copy |-> t[c] * Of(m, j, c)])

-----------------------------------------------------------------------------
(***************************************************************************)
(* How the sums change.                                                    *)
(***************************************************************************)

\* Copies have natural weights, of at most the full budget.
LEMMA OfType ==
  ASSUME NEW m \in Modes, NEW j
  PROVE  \A c : Of(m, j, c) \in Nat
BY StoresAssumption DEF Of, Weight, Copy

\* There are finitely many copies.
LEMMA CopyFinite == IsFiniteSet(Copy)
<1>. DEFINE pairs == Jobs \X (0..MaxRetries)
            f == [x \in pairs |-> [id |-> x[1], retry |-> x[2]]]
<1>1. IsFiniteSet(pairs)
  <2>1. IsFiniteSet(0..MaxRetries)
    BY FS_Interval, StoresAssumption
  <2>. QED  BY <2>1, FS_Product, StoresAssumption, Zenon
<1>2. f \in Surjection(pairs, Copy)
  <2>1. f \in [pairs -> Copy]
    BY Zenon DEF Copy
  <2>2. \A c \in Copy : \E x \in pairs : f[x] = c
    <3>. SUFFICES ASSUME NEW c \in Copy PROVE \E x \in pairs : f[x] = c
      BY Zenon
    <3>1. <<c.id, c.retry>> \in pairs /\ c = [id |-> c.id, retry |-> c.retry]
      BY Zenon DEF Copy
    <3>. QED  BY <3>1, Zenon
  <2>. QED  BY <2>1, <2>2, Zenon DEF Surjection
<1>. QED  BY <1>1, <1>2, FS_Surjection, Zenon

\* The weight of a list is a natural number.
LEMMA InListType ==
  ASSUME NEW m \in Modes, NEW j, NEW s \in Seq(Copy)
  PROVE  InList(m, j, s) \in Nat
<1>. DEFINE f == [k \in 1..Len(s) |-> Of(m, j, s[k])]
<1>1. IsFiniteSet(1..Len(s))
  BY FS_Interval
<1>2. \A k \in 1..Len(s) : f[k] \in Nat
  BY OfType, Zenon
<1>. QED  BY <1>1, <1>2, SumType, Zenon DEF InList

\* Append adds the weight of its copy.
LEMMA InListAppend ==
  ASSUME NEW m \in Modes, NEW j, NEW s \in Seq(Copy), NEW c \in Copy
  PROVE  InList(m, j, Append(s, c)) = InList(m, j, s) + Of(m, j, c)
<1>. DEFINE n == Len(s)
            f == [k \in 1..n |-> Of(m, j, s[k])]
            g == [k \in 1..(n + 1) |-> Of(m, j, Append(s, c)[k])]
<1>0. n \in Nat /\ Len(Append(s, c)) = n + 1
  OBVIOUS
<1>1. g[n + 1] = Of(m, j, c) /\ \A k \in 1..n : g[k] = f[k]
  OBVIOUS
<1>2. \A k \in 1..(n + 1) : g[k] \in Nat
  BY OfType, Zenon
<1>3. SumOver(1..(n + 1), g) = SumOver((1..(n + 1)) \ {n + 1}, g) + g[n + 1]
  <2>1. PICK T : T = 1..(n + 1)
    BY Zenon
  <2>2. IsFiniteSet(T) /\ n + 1 \in T
    BY <1>0, <2>1, FS_Interval
  <2>3. SumOver(T, g) = SumOver(T \ {n + 1}, g) + g[n + 1]
    BY <1>2, <2>1, <2>2, SumSplit
  <2>. QED  BY <2>1, <2>3, Zenon
<1>4. (1..(n + 1)) \ {n + 1} = 1..n
  BY <1>0
<1>5. SumOver(1..n, g) = SumOver(1..n, f)
  BY <1>1, SumEqual, Zenon
<1>. QED  BY <1>0, <1>1, <1>3, <1>4, <1>5, Zenon DEF InList

\* Tail takes away the weight of the head.
LEMMA InListTail ==
  ASSUME NEW m \in Modes, NEW j, NEW s \in Seq(Copy), s # <<>>
  PROVE  InList(m, j, s) = Of(m, j, Head(s)) + InList(m, j, Tail(s))
<1>. DEFINE n == Len(s) - 1
            f == [k \in 1..(n + 1) |-> Of(m, j, s[k])]
            g == [k \in 1..n |-> Of(m, j, Tail(s)[k])]
<1>0. n \in Nat /\ Len(s) = n + 1 /\ Len(Tail(s)) = n
  OBVIOUS
<1>1. f[1] = Of(m, j, Head(s))
  BY <1>0
<1>2. \A k \in 1..n : g[k] = f[k + 1]
  BY <1>0
<1>3. \A k \in 1..(n + 1) : f[k] \in Nat
  BY OfType, Zenon
<1>4. SumOver(1..(n + 1), f) = f[1] + SumOver(1..n, g)
  <2>. HIDE DEF n, f, g
  <2>. QED  BY <1>0, <1>2, <1>3, SumShift
<1>. QED  BY <1>0, <1>1, <1>4, Zenon DEF InList

\* The three lists together.
LEMMA InListsType ==
  ASSUME NEW m \in Modes, NEW j, NEW q \in [Priorities -> Seq(Copy)]
  PROVE  InLists(m, j, q) \in Nat
BY InListType DEF InLists, Priorities

\* Replacing one list of the three.
LEMMA InListsPut ==
  ASSUME NEW m \in Modes, NEW j, NEW q \in [Priorities -> Seq(Copy)], NEW s \in Seq(Copy), NEW p \in Priorities
  PROVE  InLists(m, j, [q EXCEPT ![p] = s]) = InLists(m, j, q) - InList(m, j, q[p]) + InList(m, j, s)
<1>1. InList(m, j, s) \in Nat /\ \A r \in Priorities : InList(m, j, q[r]) \in Nat
  BY InListType, Zenon
<1>. QED  BY <1>1 DEF InLists, Priorities

\* The weight of the retry goroutines is a natural number.
LEMMA InTimersType ==
  ASSUME NEW m \in Modes, NEW j, NEW t \in [Copy -> Nat]
  PROVE  InTimers(m, j, t) \in Nat /\ \A c \in Copy : [d \in Copy |-> t[d] * Of(m, j, d)][c] \in Nat
<1>1. \A a, b \in Nat : a * b \in Nat
  OBVIOUS
<1>2. \A c \in Copy : t[c] \in Nat /\ Of(m, j, c) \in Nat
  BY OfType, Zenon
<1>3. \A c \in Copy : [d \in Copy |-> t[d] * Of(m, j, d)][c] \in Nat
  BY <1>1, <1>2, Zenon
<1>. QED  BY <1>3, CopyFinite, SumType, Zenon DEF InTimers

\* One goroutine more for copy c.
LEMMA InTimersMore ==
  ASSUME NEW m \in Modes, NEW j, NEW t \in [Copy -> Nat], NEW u \in [Copy -> Nat], NEW c \in Copy,
         u[c] = t[c] + 1, \A d \in Copy \ {c} : u[d] = t[d]
  PROVE  InTimers(m, j, u) = InTimers(m, j, t) + Of(m, j, c)
<1>. DEFINE f == [d \in Copy |-> t[d] * Of(m, j, d)]
            g == [d \in Copy |-> u[d] * Of(m, j, d)]
<1>1. \A a, b \in Nat : a * b \in Nat /\ (a + 1) * b = a * b + b
  OBVIOUS
<1>2. \A d \in Copy : f[d] \in Nat /\ g[d] \in Nat
  BY InTimersType, Zenon
<1>3. \A d \in Copy \ {c} : g[d] = f[d]
  BY Zenon
<1>4. SumOver(Copy, g) = SumOver(Copy, f) - f[c] + g[c]
  <2>. HIDE DEF f, g
  <2>. QED  BY <1>2, <1>3, CopyFinite, SumChange
<1>5. g[c] = f[c] + Of(m, j, c)
  BY <1>1, OfType
<1>6. f[c] \in Nat /\ SumOver(Copy, f) \in Nat /\ Of(m, j, c) \in Nat
  BY <1>2, CopyFinite, SumType, OfType, Zenon
<1>. QED  BY <1>4, <1>5, <1>6 DEF InTimers

\* The weight of a copy in the hands of a worker is a natural number.
LEMMA OfWorkerType ==
  ASSUME NEW m \in Modes, NEW j, NEW pc \in WorkerPC, NEW c,
         pc \in {"attemptRetry", "retryUpdate"} => CanRetry(c)
  PROVE  OfWorker(m, j, pc, c) \in Nat
BY StoresAssumption DEF OfWorker, WorkerWeight, Weight, Copy, Modes

\* So is the weight of all workers together.
LEMMA AtWorkersType ==
  TypeInv => \A m \in Modes, j \in Jobs :
               /\ \A w \in Workers : OfWorker(m, j, wpc[w], wjob[w]) \in Nat
               /\ AtWorkers(m, j, wpc, wjob) \in Nat
<1>. SUFFICES ASSUME TypeInv, NEW m \in Modes, NEW j \in Jobs
              PROVE  /\ \A w \in Workers : OfWorker(m, j, wpc[w], wjob[w]) \in Nat
                     /\ AtWorkers(m, j, wpc, wjob) \in Nat
  BY Zenon
<1>. DEFINE f == [w \in Workers |-> OfWorker(m, j, wpc[w], wjob[w])]
<1>1. \A w \in Workers : wpc[w] \in WorkerPC
  BY Zenon DEF TypeInv, TypeOK, PoolTypeOK
<1>2. \A w \in Workers : f[w] \in Nat
  BY <1>1, OfWorkerType, Zenon DEF TypeInv, BudgetLeft
<1>3. SumOver(Workers, f) \in Nat
  BY <1>2, SumType, PoolAssumption, Zenon
<1>. QED  BY <1>2, <1>3, Zenon DEF AtWorkers

\* The same of the next state.
LEMMA AtWorkersTypeNext ==
  (TypeInv => \A m \in Modes, j \in Jobs :
                /\ \A w \in Workers : OfWorker(m, j, wpc[w], wjob[w]) \in Nat
                /\ AtWorkers(m, j, wpc, wjob) \in Nat)'
BY AtWorkersType, PTL

\* When only one worker moves, only its summand changes.
LEMMA AtWorkersMove ==
  ASSUME TypeInv, TypeInv', NEW m \in Modes, NEW j \in Jobs, NEW w \in Workers,
         \A v \in Workers \ {w} : wpc'[v] = wpc[v] /\ wjob'[v] = wjob[v]
  PROVE  AtWorkers(m, j, wpc', wjob')
           = AtWorkers(m, j, wpc, wjob) - OfWorker(m, j, wpc[w], wjob[w]) + OfWorker(m, j, wpc'[w], wjob'[w])
<1>. DEFINE f == [v \in Workers |-> OfWorker(m, j, wpc[v], wjob[v])]
            g == [v \in Workers |-> OfWorker(m, j, wpc'[v], wjob'[v])]
<1>1. \A v \in Workers : OfWorker(m, j, wpc[v], wjob[v]) \in Nat
  BY AtWorkersType, Zenon
<1>2. \A v \in Workers : OfWorker(m, j, wpc'[v], wjob'[v]) \in Nat
  BY AtWorkersTypeNext, Zenon
<1>3. \A v \in Workers : f[v] \in Nat /\ g[v] \in Nat
  BY <1>1, <1>2, Zenon
<1>4. \A v \in Workers \ {w} : g[v] = f[v]
  BY Zenon
<1>5. SumOver(Workers, g) = SumOver(Workers, f) - f[w] + g[w]
  <2>. HIDE DEF f, g
  <2>. QED  BY <1>3, <1>4, SumChange, PoolAssumption
<1>. QED  BY <1>5, Zenon DEF AtWorkers

-----------------------------------------------------------------------------
(***************************************************************************)
(* The inductive invariant: all the copies of a job, with what they have   *)
(* used up, never exceed one full budget for its submission and one for    *)
(* each fault.  Only a Push that fails after it took effect uses the       *)
(* budget of its fault; every other failing call gives it away.            *)
(***************************************************************************)
Load(m, j) ==
  InLists(m, j, queue) + InList(m, j, jobs) + Of(m, j, held) + AtWorkers(m, j, wpc, wjob)
    + InTimers(m, j, timer) + InTimers(m, j, repush)

Spent(m, j) ==
  CASE m = "copies" -> IF j \in doneKey THEN 1 ELSE 0
    [] m = "runs" -> runs[j]
    [] m = "rows" -> IF Terminal(j) THEN 1 ELSE 0
    [] m = "entries" -> InList("copies", j, deadLetter)

Full(m) == IF m = "runs" THEN MaxRetries + 1 ELSE 1

Granted(m, j) == Full(m) * ((IF j \in accepted THEN 1 ELSE 0) + faults)

WithinBudget(m, j) == Load(m, j) + Spent(m, j) <= Granted(m, j)

Budget == \A m \in Modes, j \in Jobs : WithinBudget(m, j)

PartsNat ==
  \A m \in Modes, j \in Jobs :
    /\ InLists(m, j, queue) \in Nat /\ InList(m, j, jobs) \in Nat /\ Of(m, j, held) \in Nat
    /\ AtWorkers(m, j, wpc, wjob) \in Nat
    /\ InTimers(m, j, timer) \in Nat /\ InTimers(m, j, repush) \in Nat
    /\ Spent(m, j) \in Nat /\ Granted(m, j) \in Nat /\ Full(m) \in Nat

\* What has been spent is a natural number, and changes with four variables.
LEMMA SpentType ==
  ASSUME TypeInv, NEW m \in Modes, NEW j \in Jobs
  PROVE  /\ Spent(m, j) \in Nat
         /\ UNCHANGED <<doneKey, runs, row, deadLetter>> => Spent(m, j)' = Spent(m, j)
<1>1. InList("copies", j, deadLetter) \in Nat
  BY InListType, Zenon DEF Modes, TypeInv, TypeOK, StoresTypeOK
<1>2. Spent(m, j) \in Nat
  BY <1>1, Zenon DEF Spent, Modes, TypeInv, TypeOK, PoolTypeOK
<1>3. UNCHANGED <<doneKey, runs, row, deadLetter>> => Spent(m, j)' = Spent(m, j)
  BY Zenon DEF Spent, Terminal
<1>. QED  BY <1>2, <1>3, Zenon

\* All the numbers in the invariant are natural.
LEMMA PartsType == TypeInv => PartsNat
<1>. SUFFICES ASSUME TypeInv, NEW m \in Modes, NEW j \in Jobs
     PROVE /\ InLists(m, j, queue) \in Nat /\ InList(m, j, jobs) \in Nat /\ Of(m, j, held) \in Nat
           /\ AtWorkers(m, j, wpc, wjob) \in Nat
           /\ InTimers(m, j, timer) \in Nat /\ InTimers(m, j, repush) \in Nat
           /\ Spent(m, j) \in Nat /\ Granted(m, j) \in Nat /\ Full(m) \in Nat
  BY Zenon DEF PartsNat
<1>1. InLists(m, j, queue) \in Nat /\ InList(m, j, jobs) \in Nat /\ Of(m, j, held) \in Nat
  BY OfType, InListType, InListsType, Zenon DEF TypeInv, TypeOK, StoresTypeOK, PoolTypeOK
<1>2. AtWorkers(m, j, wpc, wjob) \in Nat
  BY AtWorkersType, Zenon
<1>3. InTimers(m, j, timer) \in Nat /\ InTimers(m, j, repush) \in Nat
  <2>1. NewJob(j) \in Copy
    BY StoresAssumption DEF NewJob, Copy
  <2>. QED  BY <2>1, InTimersType, Zenon DEF TypeInv, TypeOK, PoolTypeOK
<1>4. Spent(m, j) \in Nat
  BY SpentType, Zenon
<1>5. Full(m) \in Nat
  BY StoresAssumption DEF Full
<1>6. Granted(m, j) \in Nat
  <2>1. (IF j \in accepted THEN 1 ELSE 0) + faults \in Nat
    BY StoresAssumption DEF TypeInv, TypeOK, StoresTypeOK
  <2>2. \A a, b \in Nat : a * b \in Nat
    OBVIOUS
  <2>. QED  BY <1>5, <2>1, <2>2, Zenon DEF Granted
<1>. QED  BY <1>1, <1>2, <1>3, <1>4, <1>5, <1>6, Zenon

\* A copy weighs at most a full budget.
LEMMA OfFull ==
  ASSUME NEW m \in Modes, NEW j, NEW c
  PROVE  Of(m, j, c) <= Full(m)
BY StoresAssumption DEF Of, Weight, Full, Copy

\* What a fault and what a submission add to the budget.
LEMMA GrantedGrows ==
  ASSUME TypeInv, NEW m \in Modes, NEW j \in Jobs, faults' \in {faults, faults + 1},
         accepted \subseteq accepted'
  PROVE  /\ Granted(m, j) <= Granted(m, j)'
         /\ faults' = faults + 1 => Granted(m, j) + Full(m) <= Granted(m, j)'
         /\ j \notin accepted /\ j \in accepted' => Granted(m, j) + Full(m) <= Granted(m, j)'
<1>1. Full(m) \in Nat /\ faults \in Nat
  BY StoresAssumption DEF Full, TypeInv, TypeOK, StoresTypeOK
<1>2. \A a, b, c \in Nat : a <= b => c * a <= c * b
  OBVIOUS
<1>3. \A a, b, c \in Nat : a + 1 <= b => c * a + c <= c * b
  <2>1. \A a, c \in Nat : c * (a + 1) = c * a + c
    OBVIOUS
  <2>. QED  BY <1>2, <2>1
<1>. DEFINE n == (IF j \in accepted THEN 1 ELSE 0) + faults
            k == (IF j \in accepted' THEN 1 ELSE 0) + faults'
<1>4. /\ n \in Nat /\ k \in Nat /\ n <= k
      /\ faults' = faults + 1 => n + 1 <= k
      /\ j \notin accepted /\ j \in accepted' => n + 1 <= k
  <2>. DEFINE b == IF j \in accepted THEN 1 ELSE 0
              d == IF j \in accepted' THEN 1 ELSE 0
  <2>1. b \in {0, 1} /\ d \in {0, 1} /\ b <= d /\ (j \notin accepted /\ j \in accepted' => b = 0 /\ d = 1)
    OBVIOUS
  <2>2. faults' \in Nat /\ faults <= faults'
    BY <1>1
  <2>3. n = b + faults /\ k = d + faults'
    BY Zenon
  <2>4. \A x, y \in {0, 1}, f, g \in Nat : x <= y /\ g \in {f, f + 1} =>
          /\ x + f \in Nat /\ y + g \in Nat /\ x + f <= y + g
          /\ g = f + 1 => x + f + 1 <= y + g
          /\ x = 0 /\ y = 1 => x + f + 1 <= y + g
    OBVIOUS
  <2>. HIDE DEF b, d, n, k
  <2>. QED  BY <1>1, <2>1, <2>2, <2>3, <2>4, Zenon
<1>5. Granted(m, j) = Full(m) * n /\ Granted(m, j)' = Full(m) * k
  BY Zenon DEF Granted, Full
<1>. HIDE DEF n, k
<1>. QED  BY <1>1, <1>2, <1>3, <1>4, <1>5, Zenon

\* Push puts the weight of its copy on the lists.
LEMMA PushLoad ==
  ASSUME TypeInv, NEW m \in Modes, NEW j, NEW c \in Copy, Push(c)
  PROVE  InLists(m, j, queue') = InLists(m, j, queue) + Of(m, j, c)
<1>1. keyForPriority(c) \in Priorities
  BY Zenon DEF keyForPriority, PriorityForType, Priorities
<1>2. queue \in [Priorities -> Seq(Copy)]
  BY Zenon DEF TypeInv, TypeOK, StoresTypeOK
<1>3. PICK p : p = keyForPriority(c)
  BY Zenon
<1>4. PICK s : s = Append(queue[p], c)
  BY Zenon
<1>5. s \in Seq(Copy) /\ InList(m, j, s) = InList(m, j, queue[p]) + Of(m, j, c)
  BY <1>1, <1>2, <1>3, <1>4, InListAppend
<1>6. InLists(m, j, queue') = InLists(m, j, queue) - InList(m, j, queue[p]) + InList(m, j, s)
  BY <1>1, <1>2, <1>3, <1>4, <1>5, InListsPut, Zenon DEF Push
<1>7. InList(m, j, queue[p]) \in Nat /\ InLists(m, j, queue) \in Nat /\ Of(m, j, c) \in Nat
  BY <1>1, <1>2, <1>3, OfType, InListType, InListsType, Zenon
<1>. QED  BY <1>5, <1>6, <1>7

\* Pop takes the weight of the copy it returns.
LEMMA PopLoad ==
  ASSUME TypeInv, NEW m \in Modes, NEW j, NEW p \in Priorities, Served(p),
         queue' = [queue EXCEPT ![p] = Tail(@)]
  PROVE  /\ InLists(m, j, queue) = Of(m, j, Head(queue[p])) + InLists(m, j, queue')
         /\ Of(m, j, Head(queue[p])) \in Nat /\ InLists(m, j, queue') \in Nat
<1>1. queue \in [Priorities -> Seq(Copy)] /\ queue[p] \in Seq(Copy) /\ queue[p] # <<>>
  BY Zenon DEF TypeInv, TypeOK, StoresTypeOK, Served
<1>2. PICK s : s = Tail(queue[p])
  BY Zenon
<1>3. s \in Seq(Copy) /\ InList(m, j, queue[p]) = Of(m, j, Head(queue[p])) + InList(m, j, s)
  BY <1>1, <1>2, InListTail, HeadTail, Zenon
<1>4. InLists(m, j, queue') = InLists(m, j, queue) - InList(m, j, queue[p]) + InList(m, j, s)
  BY <1>1, <1>2, <1>3, InListsPut, Zenon
<1>5. /\ InList(m, j, s) \in Nat /\ InLists(m, j, queue) \in Nat
      /\ Of(m, j, Head(queue[p])) \in Nat
  BY <1>1, <1>3, OfType, InListType, InListsType, Zenon
<1>6. InLists(m, j, queue') \in Nat
  BY <1>1, <1>2, <1>3, InListsType, Zenon
<1>. QED  BY <1>3, <1>4, <1>5, <1>6

\* A step may take from the load, or take as much as it grants.
LEMMA BudgetKept ==
  ASSUME PartsNat, PartsNat', NEW m \in Modes, NEW j \in Jobs, WithinBudget(m, j),
         Load(m, j)' + Spent(m, j)' + Granted(m, j) <= Load(m, j) + Spent(m, j) + Granted(m, j)'
  PROVE  WithinBudget(m, j)'
<1>1. Load(m, j) \in Nat /\ Spent(m, j) \in Nat /\ Granted(m, j) \in Nat
  BY DEF PartsNat, Load
<1>2. Load(m, j)' \in Nat /\ Spent(m, j)' \in Nat /\ Granted(m, j)' \in Nat
  BY DEF PartsNat, Load
<1>. QED  BY <1>1, <1>2 DEF WithinBudget

\* The steps of the dispatcher.
LEMMA DispatcherBudget ==
  ASSUME TypeInv, PartsNat, PartsNat', NEW m \in Modes, NEW j \in Jobs, WithinBudget(m, j), Dispatcher
  PROVE  WithinBudget(m, j)'
<1>0. Of(m, j, NoCopy) = 0
  BY StoresAssumption, Zenon DEF Of
<1>1. UNCHANGED <<wpc, wjob, timer, repush, doneKey, runs, row, deadLetter, accepted>>
  BY Zenon DEF Dispatcher, DispatchCheck, DispatchPop, DispatchNoJob, DispatchPopError, DispatchSend,
      DispatchRequeue, storeVars
<1>2. faults' \in {faults, faults + 1}
  BY CallFaults, Zenon DEF Dispatcher, DispatchCheck, DispatchPop, DispatchNoJob, DispatchPopError, DispatchSend,
      DispatchRequeue, storeVars
<1>3. Spent(m, j)' = Spent(m, j) /\ Granted(m, j) <= Granted(m, j)'
  BY <1>1, <1>2, GrantedGrows, SpentType, Zenon
<1>. DEFINE NoMore == InLists(m, j, queue') + InList(m, j, jobs') + Of(m, j, held')
                        <= InLists(m, j, queue) + InList(m, j, jobs) + Of(m, j, held)
<1>4. SUFFICES NoMore
  <2>1. AtWorkers(m, j, wpc', wjob') = AtWorkers(m, j, wpc, wjob)
    BY <1>1, Zenon
  <2>2. InTimers(m, j, timer') = InTimers(m, j, timer) /\ InTimers(m, j, repush') = InTimers(m, j, repush)
    BY <1>1, Zenon
  <2>3. Load(m, j)' <= Load(m, j)
    BY <1>4, <2>1, <2>2 DEF Load, PartsNat
  <2>4. Load(m, j) \in Nat /\ Load(m, j)' \in Nat
    BY DEF Load, PartsNat
  <2>5. Spent(m, j) \in Nat /\ Granted(m, j) \in Nat /\ Granted(m, j)' \in Nat
    BY Zenon DEF PartsNat
  <2>. QED  BY <1>3, <2>3, <2>4, <2>5, BudgetKept
<1>5. InLists(m, j, queue) \in Nat /\ InList(m, j, jobs) \in Nat /\ Of(m, j, held) \in Nat
  BY Zenon DEF PartsNat
<1>6. CASE DispatchCheck \/ DispatchNoJob
  <2>1. UNCHANGED <<queue, jobs, held>>
    BY <1>6, Zenon DEF DispatchCheck, DispatchNoJob, storeVars
  <2>. QED  BY <2>1, <1>5
<1>7. ASSUME NEW p \in Priorities, DispatchPop(p)
      PROVE  NoMore
  <2>1. /\ InLists(m, j, queue) = Of(m, j, held') + InLists(m, j, queue') /\ InLists(m, j, queue') \in Nat
        /\ Of(m, j, held') \in Nat
    BY <1>7, PopLoad, Zenon DEF DispatchPop
  <2>2. jobs' = jobs
    BY <1>7, Zenon DEF DispatchPop
  <2>. QED  BY <1>5, <2>1, <2>2
<1>8. ASSUME NEW p \in Priorities, DispatchPopError(p)
      PROVE  NoMore
  <2>1. UNCHANGED <<jobs, held>>
    BY <1>8, Zenon DEF DispatchPopError
  <2>2. CASE UNCHANGED queue
    BY <1>5, <2>1, <2>2
  <2>3. CASE Served(p) /\ queue' = [queue EXCEPT ![p] = Tail(@)]
    <3>1. /\ InLists(m, j, queue) = Of(m, j, Head(queue[p])) + InLists(m, j, queue')
          /\ InLists(m, j, queue') \in Nat /\ Of(m, j, Head(queue[p])) \in Nat
      BY <2>3, PopLoad, Zenon
    <3>. QED  BY <1>5, <2>1, <3>1
  <2>. QED  BY <1>8, <2>2, <2>3, Zenon DEF DispatchPopError
<1>9. dpc = "send" => held \in Copy
  BY Zenon DEF TypeInv, TypeOK, PoolTypeOK
<1>10. CASE DispatchSend
  <2>1. jobs \in Seq(Copy)
    BY Zenon DEF TypeInv, TypeOK, PoolTypeOK
  <2>2. jobs' = Append(jobs, held) /\ held \in Copy /\ held' = NoCopy /\ queue' = queue
    BY <1>9, <1>10, Zenon DEF DispatchSend, storeVars
  <2>3. InList(m, j, jobs') = InList(m, j, jobs) + Of(m, j, held)
    BY <2>1, <2>2, InListAppend, Zenon
  <2>. QED  BY <1>0, <1>5, <2>2, <2>3
<1>11. CASE DispatchRequeue
  <2>1. held \in Copy /\ held' = NoCopy /\ jobs' = jobs /\ (Push(held) \/ queue' = queue)
    BY <1>9, <1>11, Zenon DEF DispatchRequeue
  <2>2. CASE Push(held)
    <3>1. InLists(m, j, queue') = InLists(m, j, queue) + Of(m, j, held)
      BY <2>1, <2>2, PushLoad, Zenon
    <3>. QED  BY <1>0, <1>5, <2>1, <3>1
  <2>3. CASE queue' = queue
    BY <1>0, <1>5, <2>1, <2>3
  <2>. QED  BY <2>1, <2>2, <2>3, Zenon
<1>. QED  BY <1>6, <1>7, <1>8, <1>10, <1>11, Zenon DEF Dispatcher

\* The retry goroutines: the first Push may have taken effect although it
\* failed, and is then repeated.
LEMMA RetryBudget ==
  ASSUME TypeInv, PartsNat, PartsNat', NEW m \in Modes, NEW j \in Jobs, WithinBudget(m, j),
         NEW c \in Copy, Retry(c)
  PROVE  WithinBudget(m, j)'
<1>0. timer \in [Copy -> Nat] /\ repush \in [Copy -> Nat] /\ ctxLive \in BOOLEAN
  BY Zenon DEF TypeInv, TypeOK, PoolTypeOK
<1>1. UNCHANGED <<jobs, held, wpc, wjob, doneKey, runs, row, deadLetter, accepted>>
  BY Zenon DEF Retry, RetryTimer, RetryAgain, RetryCancelled
<1>2. faults' \in {faults, faults + 1}
  BY <1>0, CallFaults, Zenon DEF Retry, RetryTimer, RetryAgain, RetryCancelled, BackgroundPush
<1>3. /\ Spent(m, j)' = Spent(m, j) /\ Granted(m, j) <= Granted(m, j)'
      /\ faults' = faults + 1 => Granted(m, j) + Full(m) <= Granted(m, j)'
  BY <1>1, <1>2, GrantedGrows, SpentType, Zenon
<1>. DEFINE before == InLists(m, j, queue) + InTimers(m, j, timer) + InTimers(m, j, repush)
            after == InLists(m, j, queue') + InTimers(m, j, timer') + InTimers(m, j, repush')
<1>4. SUFFICES \/ after <= before
               \/ after <= before + Full(m) /\ faults' = faults + 1
  <2>1. AtWorkers(m, j, wpc', wjob') = AtWorkers(m, j, wpc, wjob)
    BY <1>1, Zenon
  <2>2. InList(m, j, jobs') = InList(m, j, jobs) /\ Of(m, j, held') = Of(m, j, held)
    BY <1>1, Zenon
  <2>3. PICK r \in Nat : r = InList(m, j, jobs) + Of(m, j, held) + AtWorkers(m, j, wpc, wjob)
    BY DEF PartsNat
  <2>4. before \in Nat /\ after \in Nat /\ Load(m, j) = before + r /\ Load(m, j)' = after + r
    BY <2>1, <2>2, <2>3 DEF Load, PartsNat
  <2>5. Spent(m, j) \in Nat /\ Granted(m, j) \in Nat /\ Granted(m, j)' \in Nat /\ Full(m) \in Nat
    BY Zenon DEF PartsNat
  <2>6. Load(m, j)' + Spent(m, j)' + Granted(m, j) <= Load(m, j) + Spent(m, j) + Granted(m, j)'
    <3>. HIDE DEF before, after
    <3>. QED  BY <1>3, <1>4, <2>4, <2>5
  <2>. QED  BY <2>6, BudgetKept, Zenon
<1>5. /\ InLists(m, j, queue) \in Nat /\ InTimers(m, j, timer) \in Nat /\ InTimers(m, j, repush) \in Nat
      /\ InLists(m, j, queue') \in Nat /\ InTimers(m, j, timer') \in Nat /\ InTimers(m, j, repush') \in Nat
  BY Zenon DEF PartsNat
<1>6. Of(m, j, c) \in Nat /\ Full(m) \in Nat /\ Of(m, j, c) <= Full(m)
  BY OfType, OfFull, Zenon DEF PartsNat
<1>7. Push(c) => InLists(m, j, queue') = InLists(m, j, queue) + Of(m, j, c)
  BY PushLoad, Zenon
<1>8. timer[c] > 0 /\ timer' = [timer EXCEPT ![c] = @ - 1] =>
        InTimers(m, j, timer) = InTimers(m, j, timer') + Of(m, j, c)
  <2>1. PICK t, u : t = timer /\ u = timer'
    BY Zenon
  <2>2. ASSUME t[c] > 0, u = [t EXCEPT ![c] = @ - 1]
        PROVE  InTimers(m, j, t) = InTimers(m, j, u) + Of(m, j, c)
    <3>1. t \in [Copy -> Nat]
      BY <1>0, <2>1, Zenon
    <3>2. u \in [Copy -> Nat] /\ t[c] = u[c] + 1 /\ \A d \in Copy \ {c} : t[d] = u[d]
      BY <2>2, <3>1
    <3>. QED  BY <3>1, <3>2, InTimersMore, Zenon
  <2>. QED  BY <2>1, <2>2, Zenon
<1>9. repush[c] > 0 /\ repush' = [repush EXCEPT ![c] = @ - 1] =>
        InTimers(m, j, repush) = InTimers(m, j, repush') + Of(m, j, c)
  <2>1. PICK t, u : t = repush /\ u = repush'
    BY Zenon
  <2>2. ASSUME t[c] > 0, u = [t EXCEPT ![c] = @ - 1]
        PROVE  InTimers(m, j, t) = InTimers(m, j, u) + Of(m, j, c)
    <3>1. t \in [Copy -> Nat]
      BY <1>0, <2>1
    <3>2. u \in [Copy -> Nat] /\ t[c] = u[c] + 1 /\ \A d \in Copy \ {c} : t[d] = u[d]
      BY <2>2, <3>1
    <3>. QED  BY <3>1, <3>2, InTimersMore, Zenon
  <2>. QED  BY <2>1, <2>2, Zenon
<1>10. repush' = [repush EXCEPT ![c] = @ + 1] => InTimers(m, j, repush') = InTimers(m, j, repush) + Of(m, j, c)
  <2>1. PICK t, u : t = repush /\ u = repush'
    BY Zenon
  <2>2. ASSUME u = [t EXCEPT ![c] = @ + 1]
        PROVE  InTimers(m, j, u) = InTimers(m, j, t) + Of(m, j, c)
    <3>1. t \in [Copy -> Nat]
      BY <1>0, <2>1, Zenon
    <3>2. u \in [Copy -> Nat] /\ u[c] = t[c] + 1 /\ \A d \in Copy \ {c} : u[d] = t[d]
      BY <2>2, <3>1
    <3>. QED  BY <3>1, <3>2, InTimersMore
  <2>. QED  BY <2>1, <2>2, Zenon
<1>11. CASE RetryTimer(c)
  <2>1. \/ Push(c) /\ repush' = repush
        \/ repush' = [repush EXCEPT ![c] = @ + 1] /\ queue' = queue
        \/ repush' = [repush EXCEPT ![c] = @ + 1] /\ Push(c) /\ faults' = faults + 1
    BY <1>0, <1>11, CallFaults, Zenon DEF RetryTimer
  <2>2. InTimers(m, j, timer) = InTimers(m, j, timer') + Of(m, j, c)
    BY <1>8, <1>11, Zenon DEF RetryTimer
  <2>. QED  BY <1>5, <1>6, <1>7, <1>10, <2>1, <2>2
<1>12. CASE RetryAgain(c)
  <2>1. (Push(c) \/ queue' = queue) /\ timer' = timer
    BY <1>12, Zenon DEF RetryAgain, BackgroundPush
  <2>2. InTimers(m, j, repush) = InTimers(m, j, repush') + Of(m, j, c)
    BY <1>9, <1>12, Zenon DEF RetryAgain
  <2>. QED  BY <1>5, <1>6, <1>7, <2>1, <2>2
<1>13. CASE RetryCancelled(c)
  <2>1. (Push(c) \/ queue' = queue) /\ repush' = repush
    BY <1>13, Zenon DEF RetryCancelled, BackgroundPush
  <2>2. InTimers(m, j, timer) = InTimers(m, j, timer') + Of(m, j, c)
    BY <1>8, <1>13, Zenon DEF RetryCancelled
  <2>. QED  BY <1>5, <1>6, <1>7, <2>1, <2>2
<1>. QED  BY <1>11, <1>12, <1>13, Zenon DEF Retry

\* Update spends one terminal status at most, the one it is called with.
LEMMA UpdateSpends ==
  ASSUME TypeInv, NEW m \in Modes, NEW j \in Jobs, NEW w, NEW c \in Copy, NEW s, NEW pc, UpdateThen(w, c, s, pc)
  PROVE  /\ Spent(m, j)' \in Nat /\ Spent(m, j)' <= Spent(m, j) + 1
         /\ m # "rows" \/ c.id # j \/ s \notin {"SUCCESS", "DEAD_LETTER"} => Spent(m, j)' <= Spent(m, j)
<1>0. row \in [Jobs -> Row] /\ c.id \in Jobs
  BY Zenon DEF Copy, TypeInv, TypeOK, StoresTypeOK
<1>1. UNCHANGED <<doneKey, runs, deadLetter>> /\ (row' = row \/ Update(c, s))
  BY Zenon DEF UpdateThen
<1>2. CASE m # "rows"
  <2>1. Spent(m, j)' = Spent(m, j)
    BY <1>1, <1>2, Zenon DEF Spent, Modes
  <2>. QED  BY <1>2, <2>1, SpentType
<1>3. CASE m = "rows"
  <2>1. Spent(m, j) = (IF Terminal(j) THEN 1 ELSE 0) /\ Spent(m, j)' = IF Terminal(j)' THEN 1 ELSE 0
    BY <1>3, Zenon DEF Spent
  <2>2. c.id # j \/ s \notin {"SUCCESS", "DEAD_LETTER"} => (Terminal(j)' => Terminal(j))
    <3>1. CASE row' = row
      BY <3>1, Zenon DEF Terminal
    <3>2. CASE Update(c, s)
      BY <1>0, <3>2, Zenon DEF Update, Terminal
    <3>. QED  BY <1>1, <3>1, <3>2, Zenon
  <2>. QED  BY <1>3, <2>1, <2>2
<1>. QED  BY <1>2, <1>3, Zenon

\* What each step of a worker does to the weight of its copy: a worker gives
\* its copy up, sets the marker, runs the job, or keeps what it has.
LEMMA WorkerWeightStep ==
  ASSUME TypeInv, NEW m \in Modes, NEW j \in Jobs, NEW w \in Workers, Worker(w),
         ~ WorkerReceive(w), ~ WorkerSpawn(w)
  PROVE  Spent(m, j)' + OfWorker(m, j, wpc'[w], wjob'[w]) <= Spent(m, j) + OfWorker(m, j, wpc[w], wjob[w])
<1>. DEFINE NoMore == Spent(m, j)' + OfWorker(m, j, wpc'[w], wjob'[w])
                        <= Spent(m, j) + OfWorker(m, j, wpc[w], wjob[w])
<1>0. wpc[w] \notin {"idle", "exited"} => wjob[w] \in Copy
  BY Zenon DEF TypeInv, TypeOK, PoolTypeOK
<1>1. runs \in [Jobs -> Nat] /\ Spent(m, j) \in Nat
  BY SpentType, Zenon DEF TypeInv, TypeOK, PoolTypeOK
<1>2. ASSUME UNCHANGED <<doneKey, runs, row, deadLetter>> PROVE Spent(m, j)' = Spent(m, j)
  BY <1>2, SpentType, Zenon
<1>3. \A c : OfWorker(m, j, "idle", c) = 0 /\ OfWorker(m, j, "exited", c) = 0 /\ OfWorker(m, j, "unlock", c) = 0
             /\ OfWorker(m, j, "succAttempt", c) = 0
  BY Zenon DEF OfWorker, WorkerWeight
<1>4. \A c : /\ OfWorker(m, j, "getDone", c) = Of(m, j, c) /\ OfWorker(m, j, "setLock", c) = Of(m, j, c)
             /\ OfWorker(m, j, "mark", c) = Of(m, j, c) /\ OfWorker(m, j, "run", c) = Of(m, j, c)
             /\ OfWorker(m, j, "spawn", c) = Of(m, j, c)
  BY Zenon DEF OfWorker, WorkerWeight, Of
<1>5. \A c : Of(m, j, c) \in Nat
  BY OfType, Zenon
<1>6. CASE WorkerExit(w)
  <2>1. wpc[w] = "idle" /\ wpc'[w] = "exited" /\ UNCHANGED <<doneKey, runs, row, deadLetter>>
    BY <1>6, WorkerTo, ZenonT(30) DEF WorkerExit, storeVars
  <2>. QED  BY <1>1, <1>2, <1>3, <2>1
<1>7. CASE WorkerGetDone(w)
  <2>1. wpc[w] = "getDone" /\ UNCHANGED <<doneKey, runs, row, deadLetter>>
    BY <1>7, Zenon DEF WorkerGetDone
  <2>2. wpc'[w] = "idle" \/ (wpc'[w] = "setLock" /\ wjob'[w] = wjob[w])
    <3>1. Return(w) \/ Goto(w, "setLock")
      BY <1>7, Zenon DEF WorkerGetDone
    <3>2. CASE Return(w)
      BY <3>2, WorkerTo, Zenon
    <3>3. CASE Goto(w, "setLock")
      BY <3>3, WorkerTo, Zenon
    <3>. QED  BY <3>1, <3>2, <3>3, Zenon
  <2>. QED  BY <1>1, <1>2, <1>3, <1>4, <1>5, <2>1, <2>2
<1>8. CASE WorkerSetLock(w)
  <2>1. wpc[w] = "setLock" /\ UNCHANGED <<doneKey, runs, row, deadLetter>>
    BY <1>8, Zenon DEF WorkerSetLock
  <2>2. wpc'[w] = "idle" \/ (wpc'[w] = "mark" /\ wjob'[w] = wjob[w])
    <3>1. Return(w) \/ Goto(w, "mark")
      BY <1>8, Zenon DEF WorkerSetLock
    <3>2. CASE Return(w)
      BY <3>2, WorkerTo, Zenon
    <3>3. CASE Goto(w, "mark")
      BY <3>3, WorkerTo, Zenon
    <3>. QED  BY <3>1, <3>2, <3>3, Zenon
  <2>. QED  BY <1>1, <1>2, <1>3, <1>4, <1>5, <2>1, <2>2
<1>9. CASE WorkerMark(w)
  <2>1. wpc[w] = "mark" /\ wpc'[w] = "run" /\ wjob'[w] = wjob[w] /\ UpdateThen(w, wjob[w], "PROCESSING", "run")
    BY <1>9, WorkerTo, Zenon DEF WorkerMark
  <2>2. Spent(m, j)' \in Nat /\ Spent(m, j)' <= Spent(m, j)
    BY <1>0, <2>1, UpdateSpends
  <2>. QED  BY <1>1, <1>4, <1>5, <2>1, <2>2
<1>10. CASE WorkerRun(w)
  <2>1. wpc[w] = "run" /\ wjob'[w] = wjob[w] /\ UNCHANGED <<doneKey, row, deadLetter>>
    BY <1>10, WorkerTo, ZenonT(30) DEF WorkerRun, storeVars
  <2>2. wjob[w] \in Copy /\ wjob[w].id \in Jobs /\ wjob[w].retry \in 0..MaxRetries
    BY <1>0, <2>1, Zenon DEF Copy
  <2>3. runs'[j] = IF j = wjob[w].id THEN runs[j] + 1 ELSE runs[j]
    BY <1>1, <1>10, <2>2, ZenonT(30) DEF WorkerRun
  <2>4. wpc'[w] \in {"succUpdate", "attemptDead", "attemptRetry"}
    BY <1>10, WorkerTo, Zenon DEF WorkerRun
  <2>5. CASE wjob[w].id = j
    <3>1. CASE m # "runs"
      <4>1. Spent(m, j)' = Spent(m, j)
        BY <2>1, <3>1, Zenon DEF Spent, Terminal, Modes
      <4>2. OfWorker(m, j, wpc'[w], wjob'[w]) = 1 /\ OfWorker(m, j, wpc[w], wjob[w]) = 1
        BY <2>1, <2>2, <2>4, <2>5, <3>1 DEF OfWorker, WorkerWeight, Weight
      <4>. QED  BY <1>1, <4>1, <4>2
    <3>2. CASE m = "runs"
      <4>1. Spent(m, j)' = Spent(m, j) + 1
        BY <2>3, <2>5, <3>2, Zenon DEF Spent
      <4>2. /\ OfWorker(m, j, wpc[w], wjob[w]) = MaxRetries + 1 - wjob[w].retry
            /\ OfWorker(m, j, wpc'[w], wjob'[w]) \in {0, MaxRetries - wjob[w].retry}
        BY <2>1, <2>2, <2>4, <2>5, <3>2 DEF OfWorker, WorkerWeight, Weight
      <4>. QED  BY <1>1, <2>2, <4>1, <4>2, StoresAssumption
    <3>. QED  BY <3>1, <3>2, Zenon
  <2>6. CASE wjob[w].id # j
    <3>1. Spent(m, j)' = Spent(m, j)
      BY <2>1, <2>3, <2>6, Zenon DEF Spent, Terminal, Modes
    <3>2. OfWorker(m, j, wpc'[w], wjob'[w]) = 0 /\ OfWorker(m, j, wpc[w], wjob[w]) = 0
      BY <2>1, <2>6, Zenon DEF OfWorker
    <3>. QED  BY <1>1, <3>1, <3>2
  <2>. QED  BY <2>5, <2>6, Zenon
<1>11. ASSUME UNCHANGED <<doneKey, runs, row, deadLetter>>, wjob'[w] = wjob[w],
              \/ wpc[w] = "attemptDead" /\ wpc'[w] = "dlUpdate"
              \/ wpc[w] = "attemptRetry" /\ wpc'[w] = "retryUpdate"
       PROVE  NoMore
  <2>1. OfWorker(m, j, wpc'[w], wjob'[w]) = OfWorker(m, j, wpc[w], wjob[w])
    BY <1>11, Zenon DEF OfWorker, WorkerWeight
  <2>2. OfWorker(m, j, wpc[w], wjob[w]) \in Nat
    BY AtWorkersType, Zenon
  <2>. QED  BY <1>1, <1>2, <1>11, <2>1, <2>2
<1>12. ASSUME NEW s, NEW pc, UpdateThen(w, wjob[w], s, pc),
              \/ wpc[w] = "succUpdate" /\ pc = "succDone"
              \/ wpc[w] = "dlUpdate" /\ pc = "dlPush"
       PROVE  NoMore
  <2>1. wjob'[w] = wjob[w] /\ wpc'[w] = pc /\ wjob[w] \in Copy
    BY <1>0, <1>12, WorkerTo, Zenon
  <2>2. /\ Spent(m, j)' \in Nat /\ Spent(m, j)' <= Spent(m, j) + 1
        /\ m # "rows" \/ wjob[w].id # j => Spent(m, j)' <= Spent(m, j)
    BY <1>12, <2>1, UpdateSpends, Zenon
  <2>3. CASE m = "rows" /\ wjob[w].id = j
    <3>1. OfWorker(m, j, wpc'[w], wjob'[w]) = 0 /\ OfWorker(m, j, wpc[w], wjob[w]) = 1
      BY <1>12, <2>1, <2>3, Zenon DEF OfWorker, WorkerWeight
    <3>. QED  BY <1>1, <2>2, <3>1
  <2>4. CASE m # "rows" \/ wjob[w].id # j
    <3>1. OfWorker(m, j, wpc'[w], wjob'[w]) <= OfWorker(m, j, wpc[w], wjob[w])
      BY <1>12, <2>1, <2>4 DEF OfWorker, WorkerWeight, Modes
    <3>2. OfWorker(m, j, wpc[w], wjob[w]) \in Nat /\ OfWorker(m, j, wpc'[w], wjob'[w]) \in Nat
      BY <1>12, <2>1, Zenon DEF OfWorker, WorkerWeight
    <3>. QED  BY <1>1, <2>2, <2>4, <3>1, <3>2
  <2>. QED  BY <2>3, <2>4, Zenon
<1>13. CASE WorkerSuccess(w) \/ WorkerDeadLetter(w)
  BY <1>12, <1>13, Zenon DEF WorkerSuccess, WorkerDeadLetter
<1>14. CASE WorkerDeadLetterPush(w)
  <2>1. /\ UNCHANGED <<doneKey, runs, row>> /\ wjob'[w] = wjob[w] /\ wpc[w] = "dlPush" /\ wpc'[w] = "dlDone"
        /\ deadLetter' = deadLetter \/ deadLetter' = Append(deadLetter, wjob[w])
        /\ wjob[w] \in Copy /\ deadLetter \in Seq(Copy)
    BY <1>0, <1>14, WorkerTo, Zenon DEF WorkerDeadLetterPush, PushDeadLetter, TypeInv, TypeOK, StoresTypeOK
  <2>2. /\ OfWorker(m, j, wpc[w], wjob[w]) \in Nat /\ OfWorker(m, j, wpc'[w], wjob'[w]) \in Nat
        /\ OfWorker(m, j, wpc'[w], wjob'[w]) <= OfWorker(m, j, wpc[w], wjob[w])
    BY <2>1 DEF OfWorker, WorkerWeight
  <2>3. CASE m # "entries" \/ deadLetter' = deadLetter
    <3>1. Spent(m, j)' = Spent(m, j)
      BY <2>1, <2>3, Zenon DEF Spent, Terminal, Modes
    <3>. QED  BY <1>1, <2>2, <3>1
  <2>4. CASE m = "entries" /\ deadLetter' = Append(deadLetter, wjob[w])
    <3>1. Spent(m, j)' = Spent(m, j) + Of("copies", j, wjob[w])
      BY <2>1, <2>4, InListAppend, Zenon DEF Spent, Modes
    <3>2. /\ OfWorker(m, j, wpc'[w], wjob'[w]) = 0
          /\ OfWorker(m, j, wpc[w], wjob[w]) = Of("copies", j, wjob[w])
      BY <2>1, <2>4, Zenon DEF OfWorker, WorkerWeight, Of, Weight
    <3>. QED  BY <1>1, <2>2, <3>1, <3>2
  <2>. QED  BY <2>1, <2>3, <2>4, ZenonT(30)
<1>15. CASE WorkerAttempt(w)
  <2>1. /\ UNCHANGED <<doneKey, runs, row, deadLetter>> /\ wjob'[w] = wjob[w]
        /\ \/ wpc[w] = "succAttempt" /\ wpc'[w] = "unlock"
           \/ wpc[w] = "attemptDead" /\ wpc'[w] = "dlUpdate"
           \/ wpc[w] = "attemptRetry" /\ wpc'[w] = "retryUpdate"
    BY <1>15, WorkerTo, Zenon DEF WorkerAttempt, AttemptNext
  <2>2. CASE wpc[w] = "succAttempt" /\ wpc'[w] = "unlock"
    BY <1>1, <1>2, <1>3, <2>1, <2>2
  <2>. QED  BY <1>11, <2>1, <2>2, Zenon
<1>16. ASSUME SetDone(w), UNCHANGED <<runs, row, deadLetter>>, wpc[w] \in {"succDone", "dlDone"},
              wpc'[w] \in {"succAttempt", "unlock", "idle"}
       PROVE  NoMore
  <2>1. OfWorker(m, j, wpc'[w], wjob'[w]) = 0
    BY <1>3, <1>16, Zenon
  <2>2. OfWorker(m, j, wpc[w], wjob[w]) \in Nat
    BY AtWorkersType, Zenon
  <2>3. CASE Spent(m, j)' = Spent(m, j)
    BY <1>1, <2>1, <2>2, <2>3
  <2>4. CASE Spent(m, j)' # Spent(m, j)
    <3>1. m = "copies" /\ j \notin doneKey /\ j \in doneKey'
      <4>1. m = "copies"
        BY <1>16, <2>4, Zenon DEF Spent, Terminal, Modes
      <4>. QED  BY <1>16, <2>4, <4>1, Zenon DEF Spent, SetDone
    <3>2. wjob[w].id = j /\ wjob[w] \in Copy
      BY <1>0, <1>16, <3>1, Zenon DEF SetDone
    <3>3. OfWorker(m, j, wpc[w], wjob[w]) = 1
      BY <1>16, <3>1, <3>2, Zenon DEF OfWorker, WorkerWeight
    <3>4. Spent(m, j)' = 1 /\ Spent(m, j) = 0
      BY <3>1, Zenon DEF Spent
    <3>. QED  BY <2>1, <3>3, <3>4
  <2>. QED  BY <2>3, <2>4, Zenon
<1>17. CASE WorkerSuccessDone(w)
  <2>1. SetDone(w) /\ UNCHANGED <<runs, row, deadLetter>> /\ wpc[w] = "succDone" /\ wpc'[w] = "succAttempt"
    BY <1>17, WorkerTo, Zenon DEF WorkerSuccessDone
  <2>. QED  BY <1>16, <2>1, Zenon
<1>18. CASE WorkerDeadLetterDone(w)
  <2>1. SetDone(w) /\ UNCHANGED <<runs, row, deadLetter>> /\ wpc[w] = "dlDone" /\ wpc'[w] \in {"unlock", "idle"}
    BY <1>18, WorkerTo, ZenonT(30) DEF WorkerDeadLetterDone
  <2>. QED  BY <1>16, <2>1, Zenon
<1>19. CASE WorkerRetry(w)
  <2>1. /\ wpc[w] = "retryUpdate" /\ wpc'[w] = "spawn"
        /\ wjob'[w] = [wjob[w] EXCEPT !.retry = @ + 1] /\ UpdateThen(w, wjob'[w], "QUEUED", "spawn")
    BY <1>19, WorkerTo, Zenon DEF WorkerRetry
  <2>2. wjob[w] \in Copy /\ CanRetry(wjob[w])
    BY <1>0, <2>1, Zenon DEF TypeInv, BudgetLeft
  <2>3. wjob'[w] \in Copy /\ wjob'[w].id = wjob[w].id /\ wjob'[w].retry = wjob[w].retry + 1
    BY <2>1, <2>2, StoresAssumption DEF CanRetry, Copy
  <2>4. OfWorker(m, j, wpc[w], wjob[w]) \in Nat
    BY AtWorkersType, Zenon
  <2>5. OfWorker(m, j, wpc'[w], wjob'[w]) = OfWorker(m, j, wpc[w], wjob[w])
    <3>1. wjob[w].retry \in Nat /\ MaxRetries \in Nat
      BY <2>2, StoresAssumption DEF Copy
    <3>. QED  BY <2>1, <2>2, <2>3, <3>1 DEF OfWorker, WorkerWeight, Weight
  <2>6. Spent(m, j)' \in Nat /\ Spent(m, j)' <= Spent(m, j)
    <3>1. PICK c : c = wjob'[w]
      OBVIOUS
    <3>. QED  BY <2>1, <2>3, <3>1, UpdateSpends
  <2>. QED  BY <1>1, <2>4, <2>5, <2>6
<1>20. CASE WorkerUnlock(w)
  <2>1. UNCHANGED <<doneKey, runs, row, deadLetter>> /\ wpc[w] = "unlock" /\ wpc'[w] = "idle"
    BY <1>20, WorkerTo, Zenon DEF WorkerUnlock
  <2>2. Spent(m, j)' = Spent(m, j)
    BY <1>2, <2>1, Zenon
  <2>3. OfWorker(m, j, wpc'[w], wjob'[w]) = 0 /\ OfWorker(m, j, wpc[w], wjob[w]) = 0
    BY <1>3, <2>1, Zenon
  <2>. QED  BY <1>1, <2>2, <2>3
<1>. QED  BY <1>6, <1>7, <1>8, <1>9, <1>10, <1>13, <1>14, <1>15, <1>17, <1>18, <1>19, <1>20, ZenonT(30) DEF Worker

\* The steps of a worker.
LEMMA WorkerBudget ==
  ASSUME TypeInv, TypeInv', PartsNat, PartsNat', NEW m \in Modes, NEW j \in Jobs, WithinBudget(m, j),
         NEW w \in Workers, Worker(w)
  PROVE  WithinBudget(m, j)'
<1>. DEFINE was == OfWorker(m, j, wpc[w], wjob[w])
            is == OfWorker(m, j, wpc'[w], wjob'[w])
<1>1. /\ \A v \in Workers \ {w} : wpc'[v] = wpc[v] /\ wjob'[v] = wjob[v]
      /\ UNCHANGED <<queue, held, repush, accepted>>
  BY WorkerFrame, ZenonT(30)
<1>2. AtWorkers(m, j, wpc', wjob') = AtWorkers(m, j, wpc, wjob) - was + is
  BY <1>1, AtWorkersMove, ZenonT(30)
<1>3. was \in Nat /\ is \in Nat
  BY AtWorkersType, AtWorkersTypeNext, Zenon
<1>4. faults' \in {faults, faults + 1}
  <2>1. ctxLive \in BOOLEAN
    BY Zenon DEF TypeInv, TypeOK, PoolTypeOK
  <2>. QED  BY <2>1, CallFaults, Zenon
       DEF Worker, WorkerReceive, WorkerExit, WorkerGetDone, WorkerSetLock, WorkerMark, WorkerRun,
         WorkerSuccess, WorkerSuccessDone, WorkerAttempt, WorkerDeadLetter, WorkerDeadLetterPush,
         WorkerDeadLetterDone, WorkerRetry, WorkerSpawn, WorkerUnlock, UpdateThen, SetDone, storeVars
<1>5. Granted(m, j) <= Granted(m, j)'
  BY <1>1, <1>4, GrantedGrows, ZenonT(30)
<1>. DEFINE NoMore == is + InList(m, j, jobs') + InTimers(m, j, timer') + Spent(m, j)'
                        <= was + InList(m, j, jobs) + InTimers(m, j, timer) + Spent(m, j)
<1>6. SUFFICES NoMore
  <2>1. /\ InLists(m, j, queue') = InLists(m, j, queue) /\ Of(m, j, held') = Of(m, j, held)
        /\ InTimers(m, j, repush') = InTimers(m, j, repush)
    BY <1>1, ZenonT(30)
  <2>2. PICK r \in Nat : r = InLists(m, j, queue) + Of(m, j, held) + InTimers(m, j, repush)
    <3>1. InLists(m, j, queue) \in Nat /\ Of(m, j, held) \in Nat /\ InTimers(m, j, repush) \in Nat
      BY Zenon DEF PartsNat
    <3>. HIDE DEF was, is, NoMore
    <3>. QED  BY <3>1
  <2>3. PICK o \in Int : o = AtWorkers(m, j, wpc, wjob) - was
    <3>1. AtWorkers(m, j, wpc, wjob) \in Nat /\ was \in Nat
      BY <1>3, Zenon DEF PartsNat
    <3>. HIDE DEF was, is, NoMore
    <3>. QED  BY <3>1
  <2>4. /\ Load(m, j) = r + o + was + InList(m, j, jobs) + InTimers(m, j, timer)
        /\ Load(m, j)' = r + o + is + InList(m, j, jobs') + InTimers(m, j, timer')
    <3>. HIDE DEF was, is
    <3>. QED  BY <1>2, <1>3, <2>1, <2>2, <2>3 DEF Load, PartsNat
  <2>5. /\ InList(m, j, jobs) \in Nat /\ InTimers(m, j, timer) \in Nat /\ Spent(m, j) \in Nat
        /\ InList(m, j, jobs') \in Nat /\ InTimers(m, j, timer') \in Nat /\ Spent(m, j)' \in Nat
        /\ Granted(m, j) \in Nat /\ Granted(m, j)' \in Nat
    BY Zenon DEF PartsNat
  <2>6. Load(m, j)' + Spent(m, j)' + Granted(m, j) <= Load(m, j) + Spent(m, j) + Granted(m, j)'
    <3>. HIDE DEF was, is
    <3>. QED  BY <1>3, <1>5, <1>6, <2>4, <2>5
  <2>. QED  BY <2>6, BudgetKept, ZenonT(30)
<1>7. /\ InList(m, j, jobs) \in Nat /\ InTimers(m, j, timer) \in Nat /\ Spent(m, j) \in Nat
      /\ InList(m, j, jobs') \in Nat /\ InTimers(m, j, timer') \in Nat /\ Spent(m, j)' \in Nat
  BY Zenon DEF PartsNat
<1>8. CASE WorkerReceive(w)
  <2>0. jobs \in Seq(Copy) /\ wpc \in [Workers -> WorkerPC] /\ wjob \in [Workers -> Copy \cup {NoCopy}]
    BY Zenon DEF TypeInv, TypeOK, PoolTypeOK
  <2>1. /\ wpc[w] = "idle" /\ jobs # <<>> /\ jobs' = Tail(jobs) /\ wjob'[w] = Head(jobs)
        /\ wpc'[w] \in {"getDone", "dlUpdate"} /\ UNCHANGED <<timer, doneKey, runs, row, deadLetter>>
    BY <1>8, <2>0, Zenon DEF WorkerReceive, storeVars
  <2>2. InList(m, j, jobs) = Of(m, j, Head(jobs)) + InList(m, j, jobs')
    BY <2>0, <2>1, InListTail, ZenonT(30)
  <2>3. is <= Of(m, j, Head(jobs)) /\ was = 0 /\ Of(m, j, Head(jobs)) \in Nat
    <3>1. was = 0
      BY <2>1, Zenon DEF OfWorker, WorkerWeight
    <3>2. Of(m, j, Head(jobs)) \in Nat
      BY OfType, Zenon
    <3>3. is <= Of(m, j, Head(jobs))
      BY <2>1, StoresAssumption DEF OfWorker, WorkerWeight, Of, Weight, Copy
    <3>. QED  BY <3>1, <3>2, <3>3, Zenon
  <2>4. Spent(m, j)' = Spent(m, j) /\ InTimers(m, j, timer') = InTimers(m, j, timer)
    BY <2>1, SpentType, Zenon
  <2>. HIDE DEF was, is
  <2>. QED  BY <1>3, <1>7, <2>2, <2>3, <2>4
<1>9. CASE WorkerSpawn(w)
  <2>0. timer \in [Copy -> Nat] /\ (wpc[w] \notin {"idle", "exited"} => wjob[w] \in Copy)
    BY Zenon DEF TypeInv, TypeOK, PoolTypeOK
  <2>1. /\ wpc[w] = "spawn" /\ wpc'[w] = "unlock" /\ wjob[w] \in Copy
        /\ timer' = [timer EXCEPT ![wjob[w]] = @ + 1] /\ UNCHANGED <<jobs, doneKey, runs, row, deadLetter>>
    BY <1>9, <2>0, WorkerTo, Zenon DEF WorkerSpawn, storeVars
  <2>2. is = 0 /\ was = Of(m, j, wjob[w])
    BY <2>1, Zenon DEF OfWorker, WorkerWeight, Of
  <2>3. InTimers(m, j, timer') = InTimers(m, j, timer) + Of(m, j, wjob[w])
    <3>1. PICK t, u, c : t = timer /\ u = timer' /\ c = wjob[w]
      BY Zenon
    <3>2. c \in Copy /\ t \in [Copy -> Nat]
      BY <2>0, <2>1, <3>1, ZenonT(30)
    <3>3. u \in [Copy -> Nat] /\ u[c] = t[c] + 1 /\ \A d \in Copy \ {c} : u[d] = t[d]
      BY <2>1, <3>1, <3>2
    <3>4. InTimers(m, j, u) = InTimers(m, j, t) + Of(m, j, c)
      BY <3>2, <3>3, InTimersMore, Zenon
    <3>. QED  BY <3>1, <3>4, Zenon
  <2>4. Spent(m, j)' = Spent(m, j) /\ InList(m, j, jobs') = InList(m, j, jobs)
    BY <2>1, SpentType, Zenon
  <2>. HIDE DEF was, is
  <2>. QED  BY <1>3, <1>7, <2>2, <2>3, <2>4
<1>10. CASE ~ WorkerReceive(w) /\ ~ WorkerSpawn(w)
  <2>1. Spent(m, j)' + is <= Spent(m, j) + was
    BY <1>10, WorkerWeightStep, Zenon
  <2>2. UNCHANGED <<jobs, timer>>
    BY <1>10, Zenon DEF Worker, WorkerExit, WorkerGetDone, WorkerSetLock, WorkerMark, WorkerRun,
         WorkerSuccess, WorkerSuccessDone, WorkerAttempt, WorkerDeadLetter, WorkerDeadLetterPush,
         WorkerDeadLetterDone, WorkerRetry, WorkerUnlock, UpdateThen
  <2>3. InList(m, j, jobs') = InList(m, j, jobs) /\ InTimers(m, j, timer') = InTimers(m, j, timer)
    BY <2>2, Zenon
  <2>. HIDE DEF was, is
  <2>. QED  BY <1>3, <1>7, <2>1, <2>3
<1>. QED  BY <1>8, <1>9, <1>10, ZenonT(30)

\* Every step of the pool keeps the budget.
LEMMA PoolStepBudget ==
  ASSUME TypeInv, TypeInv', PartsNat, PartsNat', NEW m \in Modes, NEW j \in Jobs, WithinBudget(m, j), PoolStep
  PROVE  WithinBudget(m, j)'
<1>1. CASE Cancel \/ Shutdown \/ ShutdownWait \/ ShutdownReturn
  <2>1. UNCHANGED <<queue, jobs, held, wpc, wjob, timer, repush, doneKey, runs, row, deadLetter, accepted, faults>>
    BY <1>1, Zenon DEF Cancel, Shutdown, ShutdownWait, ShutdownReturn, storeVars
  <2>. QED  BY <2>1, SpentType, Zenon DEF WithinBudget, Load, Granted
<1>2. ASSUME NEW i \in Jobs, LockExpire(i) PROVE WithinBudget(m, j)'
  <2>1. UNCHANGED <<queue, jobs, held, wpc, wjob, timer, repush, doneKey, runs, row, deadLetter, accepted, faults>>
    BY <1>2, Zenon DEF LockExpire, poolVars, localVars
  <2>. QED  BY <2>1, SpentType, Zenon DEF WithinBudget, Load, Granted
<1>. QED  BY <1>1, <1>2, DispatcherBudget, WorkerBudget, RetryBudget, Zenon DEF PoolStep

\* What weighs nothing: an empty channel, idle workers, no goroutines.
LEMMA NothingLocal ==
  ASSUME NEW m \in Modes, NEW j
  PROVE  /\ Of(m, j, NoCopy) = 0 /\ InList(m, j, <<>>) = 0
         /\ AtWorkers(m, j, [w \in Workers |-> "idle"], [w \in Workers |-> NoCopy]) = 0
         /\ InTimers(m, j, [c \in Copy |-> 0]) = 0
<1>1. Of(m, j, NoCopy) = 0
  BY StoresAssumption, Zenon DEF Of
<1>2. InList(m, j, <<>>) = 0
  <2>. DEFINE f == [k \in 1..Len(<<>>) |-> Of(m, j, <<>>[k])]
  <2>1. \A k \in 1..Len(<<>>) : f[k] = 0
    OBVIOUS
  <2>2. SumOver(1..Len(<<>>), f) = 0
    <3>. HIDE DEF f
    <3>. QED  BY <2>1, SumZero, Zenon
  <2>. QED  BY <2>2, Zenon DEF InList
<1>3. AtWorkers(m, j, [w \in Workers |-> "idle"], [w \in Workers |-> NoCopy]) = 0
  <2>. DEFINE f == [w \in Workers |-> OfWorker(m, j, [v \in Workers |-> "idle"][w], [v \in Workers |-> NoCopy][w])]
  <2>1. \A w \in Workers : f[w] = 0
    BY StoresAssumption, Zenon DEF OfWorker
  <2>2. SumOver(Workers, f) = 0
    <3>. HIDE DEF f
    <3>. QED  BY <2>1, SumZero, Zenon
  <2>. QED  BY <2>2, Zenon DEF AtWorkers
<1>4. InTimers(m, j, [c \in Copy |-> 0]) = 0
  <2>. DEFINE f == [c \in Copy |-> [d \in Copy |-> 0][c] * Of(m, j, c)]
  <2>0. \A n \in Nat : 0 * n = 0
    OBVIOUS
  <2>1. \A c \in Copy : f[c] = 0
    BY <2>0, OfType, Zenon
  <2>2. SumOver(Copy, f) = 0
    <3>. HIDE DEF f
    <3>. QED  BY <2>1, SumZero, Zenon
  <2>. QED  BY <2>2, Zenon DEF InTimers
<1>. QED  BY <1>1, <1>2, <1>3, <1>4, Zenon

\* A restart forgets copies, it makes none.
LEMMA RestartBudget ==
  ASSUME TypeInv, PartsNat, NEW m \in Modes, NEW j \in Jobs, WithinBudget(m, j), Restart
  PROVE  WithinBudget(m, j)'
<1>1. /\ held' = NoCopy /\ jobs' = <<>>
      /\ wpc' = [w \in Workers |-> "idle"] /\ wjob' = [w \in Workers |-> NoCopy]
      /\ timer' = [c \in Copy |-> 0] /\ repush' = [c \in Copy |-> 0]
      /\ UNCHANGED <<queue, doneKey, runs, row, deadLetter, accepted, faults>>
  BY Zenon DEF Restart, storeVars
<1>2. /\ Of(m, j, held') = 0 /\ InList(m, j, jobs') = 0 /\ AtWorkers(m, j, wpc', wjob') = 0
      /\ InTimers(m, j, timer') = 0 /\ InTimers(m, j, repush') = 0
  BY <1>1, NothingLocal, Zenon
<1>3. Load(m, j)' = InLists(m, j, queue)
  BY <1>1, <1>2 DEF Load, PartsNat
<1>4. Spent(m, j)' = Spent(m, j) /\ Granted(m, j)' = Granted(m, j)
  BY <1>1, SpentType, Zenon DEF Granted
<1>5. InLists(m, j, queue) <= Load(m, j) /\ InLists(m, j, queue) \in Nat /\ Load(m, j) \in Nat
  BY DEF Load, PartsNat
<1>6. Spent(m, j) \in Nat /\ Granted(m, j) \in Nat
  BY Zenon DEF PartsNat
<1>. QED  BY <1>3, <1>4, <1>5, <1>6 DEF WithinBudget

\* The first Push of a job is what its budget is for.
LEMMA SubmitBudget ==
  ASSUME TypeInv, PartsNat, PartsNat', NEW m \in Modes, NEW j \in Jobs, WithinBudget(m, j), NEW i \in Jobs,
         i \notin accepted, Push(NewJob(i)), accepted' = accepted \cup {i}, faults' \in {faults, faults + 1},
         UNCHANGED <<jobs, held, wpc, wjob, timer, repush, doneKey, runs, row, deadLetter>>
  PROVE  WithinBudget(m, j)'
<1>1. NewJob(i) \in Copy
  BY StoresAssumption DEF NewJob, Copy
<1>2. InLists(m, j, queue') = InLists(m, j, queue) + Of(m, j, NewJob(i))
  BY <1>1, PushLoad, Zenon
<1>3. Of(m, j, NewJob(i)) \in Nat
  BY OfType, Zenon
<1>4. Load(m, j)' = Load(m, j) + Of(m, j, NewJob(i)) /\ Spent(m, j)' = Spent(m, j)
  BY <1>2, <1>3, SpentType DEF Load, PartsNat
<1>5. Granted(m, j) + Of(m, j, NewJob(i)) <= Granted(m, j)'
  <2>1. Full(m) \in Nat /\ Granted(m, j) \in Nat /\ Granted(m, j)' \in Nat
    BY Zenon DEF PartsNat
  <2>2. Granted(m, j) <= Granted(m, j)' /\ (i = j => Granted(m, j) + Full(m) <= Granted(m, j)')
    BY GrantedGrows, Zenon
  <2>3. Of(m, j, NewJob(i)) <= Full(m) /\ (i # j => Of(m, j, NewJob(i)) = 0)
    <3>1. NewJob(i).id = i
      BY Zenon DEF NewJob
    <3>2. i # j => Of(m, j, NewJob(i)) = 0
      BY <3>1, Zenon DEF Of
    <3>. QED  BY <3>2, OfFull, Zenon
  <2>. QED  BY <1>3, <2>1, <2>2, <2>3
<1>6. Load(m, j) \in Nat /\ Spent(m, j) \in Nat /\ Granted(m, j) \in Nat /\ Granted(m, j)' \in Nat
  BY DEF Load, PartsNat
<1>. QED  BY <1>3, <1>4, <1>5, <1>6 DEF WithinBudget

\* At the start there is no copy.
LEMMA InitBudget ==
  ASSUME PoolInit, NEW s, s \notin {"SUCCESS", "DEAD_LETTER"}, StoresInit(s), NEW m \in Modes, NEW j \in Jobs
  PROVE  WithinBudget(m, j)
<1>1. /\ queue = [p \in Priorities |-> <<>>] /\ held = NoCopy /\ jobs = <<>>
      /\ wpc = [w \in Workers |-> "idle"] /\ wjob = [w \in Workers |-> NoCopy]
      /\ timer = [c \in Copy |-> 0] /\ repush = [c \in Copy |-> 0]
      /\ runs = [i \in Jobs |-> 0] /\ doneKey = {} /\ accepted = {} /\ faults = 0
      /\ deadLetter = <<>> /\ row = [i \in Jobs |-> [status |-> s, retry |-> 0]]
  BY Zenon DEF PoolInit, StoresInit
<1>2. /\ Of(m, j, held) = 0 /\ InList(m, j, jobs) = 0 /\ AtWorkers(m, j, wpc, wjob) = 0
      /\ InTimers(m, j, timer) = 0 /\ InTimers(m, j, repush) = 0
  BY <1>1, NothingLocal, Zenon
<1>3. InLists(m, j, queue) = 0
  BY <1>1, NothingLocal DEF InLists, Priorities
<1>4. Spent(m, j) = 0
  <2>1. InList("copies", j, deadLetter) = 0 /\ ~ Terminal(j)
    BY <1>1, NothingLocal, Zenon DEF Modes, Terminal
  <2>. QED  BY <1>1, <2>1, Zenon DEF Spent, Modes
<1>5. Granted(m, j) = 0
  <2>1. Full(m) \in Nat /\ \A n \in Nat : n * 0 = 0
    BY StoresAssumption DEF Full
  <2>. QED  BY <1>1, <2>1 DEF Granted
<1>. QED  BY <1>2, <1>3, <1>4, <1>5 DEF WithinBudget, Load

\* The naturals of the next state.
LEMMA PartsTypeNext == (TypeInv => PartsNat)'
BY PartsType, PTL

\* Every step of the pool alone keeps the budget.
LEMMA NextBudget == TypeInv /\ Budget /\ [Next]_vars => Budget'
<1>. SUFFICES ASSUME TypeInv, Budget, [Next]_vars, NEW m \in Modes, NEW j \in Jobs PROVE WithinBudget(m, j)'
  BY Zenon DEF Budget
<1>1. TypeInv' /\ PartsNat /\ PartsNat' /\ WithinBudget(m, j)
  BY NextTypeInv, PartsType, PartsTypeNext, Zenon DEF Budget
<1>2. CASE PoolStep
  BY <1>1, <1>2, PoolStepBudget, Zenon
<1>3. CASE Restart
  BY <1>1, <1>3, RestartBudget, Zenon
<1>4. ASSUME NEW i \in Jobs, Submit(i) PROVE WithinBudget(m, j)'
  <2>1. /\ i \notin accepted /\ Push(NewJob(i)) /\ accepted' = accepted \cup {i}
        /\ UNCHANGED <<jobs, held, wpc, wjob, timer, repush, doneKey, runs, row, deadLetter, faults>>
    BY <1>4, Zenon DEF Submit, poolVars, localVars
  <2>. QED  BY <1>1, <2>1, SubmitBudget, Zenon
<1>5. CASE UNCHANGED vars
  <2>1. UNCHANGED <<queue, jobs, held, wpc, wjob, timer, repush, doneKey, runs, row, deadLetter, accepted, faults>>
    BY <1>5, Zenon DEF vars, storeVars, poolVars, localVars
  <2>. QED  BY <1>1, <2>1, SpentType, Zenon DEF WithinBudget, Load, Granted
<1>. QED  BY <1>2, <1>3, <1>4, <1>5, Zenon DEF Next

\* The budget holds in every behaviour of the pool.
LEMMA BudgetInvariant == Spec => [](TypeInv /\ Budget)
<1>1. Init => Budget
  BY InitBudget, Zenon DEF Init, Budget
<1>. QED  BY <1>1, NextBudget, InitTypeInv, NextTypeInv, PTL DEF Spec

\* The budget bounds the runs.
LEMMA BudgetBoundsRuns == TypeInv /\ Budget => RunBudget
<1>. SUFFICES ASSUME TypeInv, Budget, NEW j \in Jobs PROVE runs[j] <= (MaxRetries + 1) * (1 + faults)
  BY Zenon DEF RunBudget
<1>1. PartsNat /\ WithinBudget("runs", j) /\ "runs" \in Modes
  BY PartsType, Zenon DEF Budget, Modes
<1>2. runs[j] = Spent("runs", j) /\ Full("runs") = MaxRetries + 1
  BY Zenon DEF Spent, Full
<1>3. Load("runs", j) \in Nat /\ Spent("runs", j) \in Nat /\ Granted("runs", j) \in Nat
  BY <1>1 DEF Load, PartsNat
<1>4. Granted("runs", j) <= (MaxRetries + 1) * (1 + faults)
  <2>1. \A a, b, c \in Nat : a <= b => c * a <= c * b
    OBVIOUS
  <2>2. MaxRetries + 1 \in Nat /\ faults \in Nat
    BY StoresAssumption DEF TypeInv, TypeOK, StoresTypeOK
  <2>3. (IF j \in accepted THEN 1 ELSE 0) + faults \in Nat /\ 1 + faults \in Nat
        /\ (IF j \in accepted THEN 1 ELSE 0) + faults <= 1 + faults
    BY <2>2
  <2>. QED  BY <1>2, <2>1, <2>2, <2>3, Zenon DEF Granted
<1>5. (MaxRetries + 1) * (1 + faults) \in Nat
  <2>1. \A a, b \in Nat : a * b \in Nat
    OBVIOUS
  <2>2. MaxRetries + 1 \in Nat /\ 1 + faults \in Nat
    BY StoresAssumption DEF TypeInv, TypeOK, StoresTypeOK
  <2>. QED  BY <2>1, <2>2, Zenon
<1>. QED  BY <1>1, <1>2, <1>3, <1>4, <1>5 DEF WithinBudget

\* Whatever fails, crashes or is cancelled, a job is run at most once for
\* each retry it is allowed, times one for its submission and one for each
\* fault: RetryCount travels with the copy and is never lost on the way.
THEOREM RunBudgetHolds == Spec => []RunBudget
BY BudgetBoundsRuns, BudgetInvariant, PTL

-----------------------------------------------------------------------------
(***************************************************************************)
(* From weights to places: PlacesOf names every unit of the load.          *)
(***************************************************************************)

\* What a function reaches from a finite set is no larger.
LEMMA ImageBound ==
  ASSUME NEW S, IsFiniteSet(S), NEW T, NEW f, \A t \in T : \E x \in S : f[x] = t
  PROVE  IsFiniteSet(T) /\ Cardinality(T) <= Cardinality(S)
<1>. DEFINE P == {x \in S : f[x] \in T}
            g == [x \in P |-> f[x]]
<1>1. IsFiniteSet(P) /\ Cardinality(P) <= Cardinality(S)
  BY FS_Subset, Zenon
<1>2. g \in Surjection(P, T)
  BY Zenon DEF Surjection
<1>3. IsFiniteSet(T) /\ Cardinality(T) <= Cardinality(P)
  BY <1>1, <1>2, FS_Surjection, Zenon
<1>4. Cardinality(T) \in Nat /\ Cardinality(P) \in Nat /\ Cardinality(S) \in Nat
  BY <1>1, <1>3, FS_CardinalityType, Zenon
<1>. QED  BY <1>1, <1>3, <1>4

\* Two finite sets together.
LEMMA UnionBound ==
  ASSUME NEW S, IsFiniteSet(S), NEW T, IsFiniteSet(T)
  PROVE  IsFiniteSet(S \cup T) /\ Cardinality(S \cup T) <= Cardinality(S) + Cardinality(T)
<1>1. /\ IsFiniteSet(S \cup T)
      /\ Cardinality(S \cup T) = Cardinality(S) + Cardinality(T) - Cardinality(S \cap T)
  BY FS_Union, Zenon
<1>2. IsFiniteSet(S \cap T)
  BY FS_Subset, Zenon
<1>3. Cardinality(S) \in Nat /\ Cardinality(T) \in Nat /\ Cardinality(S \cap T) \in Nat
  BY <1>2, FS_CardinalityType, Zenon
<1>. QED  BY <1>1, <1>3

\* The positions of a list that hold job j.
LEMMA ListPlaces ==
  ASSUME NEW s \in Seq(Copy), NEW j, NEW T, NEW f,
         \A t \in T : \E k \in {i \in DOMAIN s : s[i].id = j} : f[k] = t
  PROVE  IsFiniteSet(T) /\ Cardinality(T) <= InList("copies", j, s)
<1>. DEFINE g == [k \in 1..Len(s) |-> Of("copies", j, s[k])]
            S == {k \in 1..Len(s) : g[k] = 1}
<1>1. \A k \in 1..Len(s) : g[k] = IF s[k].id = j THEN 1 ELSE 0
  BY DEF Of, Weight
<1>2. IsFiniteSet(1..Len(s))
  BY FS_Interval
<1>3. IsFiniteSet(S)
  <2>1. PICK D : D = 1..Len(s)
    BY Zenon
  <2>2. IsFiniteSet(D) /\ S \subseteq D
    BY <1>2, <2>1, Zenon
  <2>. HIDE DEF S
  <2>. QED  BY <2>2, FS_Subset, Zenon
<1>4. Cardinality(S) = SumOver(1..Len(s), g)
  <2>1. \A k \in 1..Len(s) : g[k] \in {0, 1}
    BY <1>1, Zenon
  <2>2. PICK D : D = 1..Len(s)
    BY Zenon
  <2>3. Cardinality({k \in D : g[k] = 1}) = SumOver(D, g)
    <3>. HIDE DEF g
    <3>. QED  BY <1>2, <2>1, <2>2, CountAsSum, Zenon
  <2>. QED  BY <2>2, <2>3, Zenon
<1>5. \A t \in T : \E k \in S : f[k] = t
  BY <1>1
<1>6. IsFiniteSet(T) /\ Cardinality(T) <= Cardinality(S)
  <2>. HIDE DEF S
  <2>. QED  BY <1>3, <1>5, ImageBound, Zenon
<1>. QED  BY <1>4, <1>6, Zenon DEF InList

\* The goroutines that hold job j.
LEMMA TimerPlaces ==
  ASSUME NEW t \in [Copy -> Nat], NEW j \in Jobs, NEW tag
  PROVE  IsFiniteSet(Sleeping(tag, j, t)) /\ Cardinality(Sleeping(tag, j, t)) <= InTimers("copies", j, t)
<1>. DEFINE P == Sleeping(tag, j, t)
           g == [c \in Copy |-> t[c] * Of("copies", j, c)]
            f == [x \in Tokens(Copy, g) |-> <<tag, x[1].retry, x[2]>>]
<1>1. \A c \in Copy : g[c] \in Nat
  <2>1. \A c \in Copy : Of("copies", j, c) \in {0, 1} /\ t[c] \in Nat
    BY Zenon DEF Of, Weight
  <2>2. \A n \in Nat : n * 1 \in Nat /\ n * 0 \in Nat
    OBVIOUS
  <2>. QED  BY <2>1, <2>2, Zenon
<1>2. IsFiniteSet(Tokens(Copy, g))
  BY <1>1, CopyFinite, TokensFinite, Zenon
<1>3. ASSUME NEW p \in P PROVE \E x \in Tokens(Copy, g) : f[x] = p
  <2>1. PICK r \in 0..MaxRetries : \E n \in 1..t[[id |-> j, retry |-> r]] : p = <<tag, r, n>>
    BY Zenon DEF Sleeping
  <2>2. PICK n \in 1..t[[id |-> j, retry |-> r]] : p = <<tag, r, n>>
    BY <2>1, Zenon
  <2>3. PICK c : c = [id |-> j, retry |-> r]
    BY Zenon
  <2>4. c \in Copy /\ c.id = j /\ c.retry = r
    BY <2>3, Zenon DEF Copy
  <2>5. Of("copies", j, c) = 1 /\ t[c] \in Nat /\ \A k \in Nat : k * 1 = k
    BY <2>4 DEF Of, Weight
  <2>6. g[c] = t[c]
    BY <2>4, <2>5, Zenon
  <2>7. n \in Nat /\ n \in 1..g[c]
    BY <2>3, <2>5, <2>6
  <2>8. <<c, n>> \in Tokens(Copy, g)
    <3>. HIDE DEF g
    <3>. QED  BY <2>4, <2>7, Zenon DEF Tokens
  <2>9. f[<<c, n>>] = p
    BY <2>2, <2>4, <2>8, Zenon
  <2>. QED  BY <2>8, <2>9, Zenon
<1>4. IsFiniteSet(P) /\ Cardinality(P) <= Cardinality(Tokens(Copy, g))
  <2>. HIDE DEF f, g
  <2>. QED  BY <1>2, <1>3, ImageBound, Zenon
<1>. QED  BY <1>4, Zenon DEF InTimers, SumOver

\* There are at most as many places as the load counts.
LEMMA PlacesBound ==
  ASSUME TypeInv, NEW j \in Jobs
  PROVE  IsFiniteSet(PlacesOf(j)) /\ Cardinality(PlacesOf(j)) <= Load("copies", j)
<1>. DEFINE Q == UNION {OnList(j, p) : p \in Priorities}
            H(p) == OnList(j, p)
            C == InChannel(j)
            D == AtDispatcher(j)
            W == AtWorker(j)
            T == Sleeping("timer", j, timer)
            R == Sleeping("repush", j, repush)
<1>0. PartsNat /\ "copies" \in Modes
  BY PartsType, Zenon DEF Modes
<1>1. /\ queue \in [Priorities -> Seq(Copy)] /\ jobs \in Seq(Copy) /\ timer \in [Copy -> Nat]
      /\ repush \in [Copy -> Nat] /\ wpc \in [Workers -> WorkerPC]
      /\ \A w \in Workers : wpc[w] \notin {"idle", "exited"} => wjob[w] \in Copy
  BY Zenon DEF TypeInv, TypeOK, StoresTypeOK, PoolTypeOK
<1>2. \A p \in Priorities : IsFiniteSet(H(p)) /\ Cardinality(H(p)) <= InList("copies", j, queue[p])
  <2>. SUFFICES ASSUME NEW p \in Priorities
                PROVE  IsFiniteSet(H(p)) /\ Cardinality(H(p)) <= InList("copies", j, queue[p])
    BY Zenon
  <2>. DEFINE f == [k \in DOMAIN queue[p] |-> <<"queue", p, k>>]
  <2>1. \A t \in H(p) : \E k \in {i \in DOMAIN queue[p] : queue[p][i].id = j} : f[k] = t
    BY Zenon DEF OnList
  <2>2. queue[p] \in Seq(Copy)
    BY <1>1, Zenon
  <2>. HIDE DEF H, f
  <2>. QED  BY <2>1, <2>2, ListPlaces
<1>3. IsFiniteSet(Q) /\ Cardinality(Q) <= InLists("copies", j, queue)
  <2>1. Q = H("HIGH") \cup H("MEDIUM") \cup H("LOW")
    BY Zenon DEF Priorities
  <2>2. \A p \in {"HIGH", "MEDIUM", "LOW"} : InList("copies", j, queue[p]) \in Nat
    BY <1>0, <1>1, InListType, Zenon DEF Priorities
  <2>3. /\ IsFiniteSet(H("HIGH")) /\ Cardinality(H("HIGH")) <= InList("copies", j, queue["HIGH"])
        /\ IsFiniteSet(H("MEDIUM")) /\ Cardinality(H("MEDIUM")) <= InList("copies", j, queue["MEDIUM"])
        /\ IsFiniteSet(H("LOW")) /\ Cardinality(H("LOW")) <= InList("copies", j, queue["LOW"])
    BY <1>2, Zenon DEF Priorities
  <2>. HIDE DEF Q, H
  <2>4. IsFiniteSet(H("HIGH") \cup H("MEDIUM")) /\ IsFiniteSet(Q)
    BY <2>1, <2>3, UnionBound, Zenon
  <2>5. /\ Cardinality(H("HIGH") \cup H("MEDIUM")) <= Cardinality(H("HIGH")) + Cardinality(H("MEDIUM"))
        /\ Cardinality(Q) <= Cardinality(H("HIGH") \cup H("MEDIUM")) + Cardinality(H("LOW"))
    BY <2>1, <2>3, <2>4, UnionBound, Zenon
  <2>6. /\ Cardinality(H("HIGH")) \in Nat /\ Cardinality(H("MEDIUM")) \in Nat /\ Cardinality(H("LOW")) \in Nat
        /\ Cardinality(H("HIGH") \cup H("MEDIUM")) \in Nat /\ Cardinality(Q) \in Nat
    BY <2>3, <2>4, FS_CardinalityType, Zenon
  <2>. QED  BY <2>2, <2>3, <2>4, <2>5, <2>6 DEF InLists
<1>4. IsFiniteSet(C) /\ Cardinality(C) <= InList("copies", j, jobs)
  <2>. DEFINE f == [k \in DOMAIN jobs |-> <<"channel", k>>]
  <2>1. \A t \in C : \E k \in {i \in DOMAIN jobs : jobs[i].id = j} : f[k] = t
    BY Zenon DEF InChannel
  <2>. HIDE DEF C, f
  <2>. QED  BY <1>1, <2>1, ListPlaces, Zenon
<1>5. IsFiniteSet(D) /\ Cardinality(D) <= Of("copies", j, held)
  <2>1. CASE held \in Copy /\ held.id = j
    <3>1. PICK d : d = <<"dispatcher">>
      BY Zenon
    <3>2. D = {d} /\ Of("copies", j, held) = 1
      BY <2>1, <3>1, Zenon DEF AtDispatcher, Of, Weight
    <3>. QED  BY <3>2, FS_Singleton
  <2>2. CASE ~(held \in Copy /\ held.id = j)
    <3>1. D = {} /\ Of("copies", j, held) = 0
      BY <2>2, Zenon DEF AtDispatcher, Of
    <3>. QED  BY <3>1, FS_EmptySet
  <2>. QED  BY <2>1, <2>2, Zenon
<1>6. IsFiniteSet(W) /\ Cardinality(W) <= AtWorkers("copies", j, wpc, wjob)
  <2>. DEFINE g == [w \in Workers |-> OfWorker("copies", j, wpc[w], wjob[w])]
              S == {w \in Workers : g[w] = 1}
              f == [w \in S |-> <<"worker", w>>]
  <2>1. \A w \in Workers : g[w] \in {0, 1}
    BY Zenon DEF OfWorker, WorkerWeight, Weight
  <2>2. IsFiniteSet(S)
    <3>1. S \subseteq Workers
      BY Zenon
    <3>. HIDE DEF S
    <3>. QED  BY <3>1, PoolAssumption, FS_Subset, Zenon
  <2>3. Cardinality(S) = SumOver(Workers, g)
    <3>. HIDE DEF g
    <3>. QED  BY <2>1, PoolAssumption, CountAsSum, Zenon
  <2>4. ASSUME NEW v \in Workers, WorksOn(v, j) PROVE v \in S
    <3>1. wjob[v] \in Copy /\ wjob[v].id = j /\ wpc[v] \notin {"idle", "exited", "succAttempt", "unlock"}
      BY <1>1, <2>4, Zenon DEF WorksOn
    <3>. QED  BY <3>1, Zenon DEF OfWorker, WorkerWeight, Weight
  <2>5. \A t \in W : \E w \in S : f[w] = t
    BY <2>4, Zenon DEF AtWorker
  <2>6. IsFiniteSet(W) /\ Cardinality(W) <= Cardinality(S)
    <3>. HIDE DEF W, S, f
    <3>. QED  BY <2>2, <2>5, ImageBound, Zenon
  <2>. QED  BY <2>3, <2>6, Zenon DEF AtWorkers
<1>7. IsFiniteSet(T) /\ Cardinality(T) <= InTimers("copies", j, timer)
  <2>1. timer \in [Copy -> Nat]
    BY <1>1, Zenon
  <2>. QED  BY <2>1, TimerPlaces, Zenon
<1>8. IsFiniteSet(R) /\ Cardinality(R) <= InTimers("copies", j, repush)
  <2>1. repush \in [Copy -> Nat]
    BY <1>1, Zenon
  <2>. QED  BY <2>1, TimerPlaces, Zenon
<1>9. PlacesOf(j) = Q \cup C \cup D \cup W \cup T \cup R
  BY Zenon DEF PlacesOf
<1>10. /\ InLists("copies", j, queue) \in Nat /\ InList("copies", j, jobs) \in Nat /\ Of("copies", j, held) \in Nat
       /\ AtWorkers("copies", j, wpc, wjob) \in Nat
       /\ InTimers("copies", j, timer) \in Nat /\ InTimers("copies", j, repush) \in Nat
  BY <1>0, Zenon DEF PartsNat
<1>. HIDE DEF Q, C, D, W, T, R
<1>. DEFINE QC == Q \cup C
            QCD == QC \cup D
            QCDW == QCD \cup W
            QCDWT == QCDW \cup T
<1>11. IsFiniteSet(QC) /\ Cardinality(QC) <= Cardinality(Q) + Cardinality(C)
  BY <1>3, <1>4, UnionBound, Zenon
<1>. HIDE DEF QC
<1>12. IsFiniteSet(QCD) /\ Cardinality(QCD) <= Cardinality(QC) + Cardinality(D)
  BY <1>5, <1>11, UnionBound, Zenon
<1>. HIDE DEF QCD
<1>13. IsFiniteSet(QCDW) /\ Cardinality(QCDW) <= Cardinality(QCD) + Cardinality(W)
  BY <1>6, <1>12, UnionBound, Zenon
<1>. HIDE DEF QCDW
<1>14. IsFiniteSet(QCDWT) /\ Cardinality(QCDWT) <= Cardinality(QCDW) + Cardinality(T)
  BY <1>7, <1>13, UnionBound, Zenon
<1>. HIDE DEF QCDWT
<1>15. IsFiniteSet(QCDWT \cup R) /\ Cardinality(QCDWT \cup R) <= Cardinality(QCDWT) + Cardinality(R)
  BY <1>8, <1>14, UnionBound, Zenon
<1>16. PlacesOf(j) = QCDWT \cup R
  BY <1>9, Zenon DEF QC, QCD, QCDW, QCDWT
<1>17. /\ Cardinality(Q) \in Nat /\ Cardinality(C) \in Nat /\ Cardinality(D) \in Nat /\ Cardinality(W) \in Nat
       /\ Cardinality(T) \in Nat /\ Cardinality(R) \in Nat /\ Cardinality(QC) \in Nat /\ Cardinality(QCD) \in Nat
       /\ Cardinality(QCDW) \in Nat /\ Cardinality(QCDWT) \in Nat /\ Cardinality(QCDWT \cup R) \in Nat
  BY <1>3, <1>4, <1>5, <1>6, <1>7, <1>8, <1>11, <1>12, <1>13, <1>14, <1>15, FS_CardinalityType
<1>18. Cardinality(QCDWT \cup R) <= Load("copies", j)
  BY <1>3, <1>4, <1>5, <1>6, <1>7, <1>8, <1>10, <1>11, <1>12, <1>13, <1>14, <1>15, <1>17 DEF Load
<1>. QED  BY <1>15, <1>16, <1>18, Zenon

\* The budget bounds the copies.
LEMMA BudgetBoundsCopies == TypeInv /\ Budget => CopiesPerFault
<1>. SUFFICES ASSUME TypeInv, Budget, NEW j \in Jobs PROVE Copies(j) <= 1 + faults
  BY Zenon DEF CopiesPerFault
<1>1. PartsNat /\ WithinBudget("copies", j) /\ "copies" \in Modes
  BY PartsType, Zenon DEF Budget, Modes
<1>2. IsFiniteSet(PlacesOf(j)) /\ Cardinality(PlacesOf(j)) <= Load("copies", j)
  BY PlacesBound, Zenon
<1>3. Cardinality(PlacesOf(j)) \in Nat /\ Load("copies", j) \in Nat /\ faults \in Nat
  <2>1. Cardinality(PlacesOf(j)) \in Nat
    BY <1>2, FS_CardinalityType, Zenon
  <2>2. Load("copies", j) \in Nat
    BY <1>1 DEF Load, PartsNat
  <2>3. faults \in Nat
    BY StoresAssumption DEF TypeInv, TypeOK, StoresTypeOK
  <2>. QED  BY <2>1, <2>2, <2>3, Zenon
<1>4. Spent("copies", j) \in {0, 1} /\ Copies(j) = Cardinality(PlacesOf(j)) + Spent("copies", j)
  BY Zenon DEF Copies, Spent
<1>5. Granted("copies", j) <= 1 + faults /\ Granted("copies", j) \in Nat
  BY <1>1, <1>3 DEF Granted, Full, PartsNat
<1>. QED  BY <1>1, <1>2, <1>3, <1>4, <1>5 DEF WithinBudget

\* Whatever is lost, repeated or cut short, a job has at most one copy for its
\* submission and one for each failed call: no other step makes a copy.
THEOREM CopiesPerFaultHolds == Spec => []CopiesPerFault
BY BudgetBoundsCopies, BudgetInvariant, PTL

\* What a request's step leaves of the pool's budget, whatever fails: a new
\* row is not terminal, and a failed call only raises the budget.
LEMMA CreateBudget ==
  ASSUME TypeInv, PartsNat, PartsNat', NEW m \in Modes, NEW j \in Jobs, WithinBudget(m, j),
         faults' \in {faults, faults + 1}, \A i \in Jobs : Terminal(i)' => Terminal(i),
         UNCHANGED <<queue, jobs, held, wpc, wjob, timer, repush, doneKey, runs, deadLetter, accepted>>
  PROVE  WithinBudget(m, j)'
<1>1. Load(m, j)' = Load(m, j)
  BY Zenon DEF Load
<1>2. Spent(m, j)' <= Spent(m, j)
  <2>1. Spent(m, j) \in Nat /\ Spent(m, j)' \in Nat
    BY Zenon DEF PartsNat
  <2>2. CASE m = "rows"
    BY <2>2 DEF Spent
  <2>3. CASE m # "rows"
    <3>1. Spent(m, j)' = Spent(m, j)
      BY <2>3, Zenon DEF Spent, Modes
    <3>. QED  BY <2>1, <3>1
  <2>. QED  BY <2>2, <2>3
<1>3. Granted(m, j) <= Granted(m, j)'
  BY GrantedGrows, Zenon
<1>4. Load(m, j) \in Nat /\ Spent(m, j) \in Nat /\ Granted(m, j) \in Nat
  BY DEF Load, PartsNat
<1>5. Spent(m, j)' \in Nat /\ Granted(m, j)' \in Nat
  BY Zenon DEF PartsNat
<1>. QED  BY <1>1, <1>2, <1>3, <1>4, <1>5 DEF WithinBudget
=============================================================================
