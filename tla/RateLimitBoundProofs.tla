------------------------- MODULE RateLimitBoundProofs -------------------------
(***************************************************************************)
(* How many requests the limiters of RateLimit let in, and whom they       *)
(* refuse, for any limits, windows and buckets, any number of workers, of  *)
(* requests and of deaths: AdmitsAtMost and RefusesOnlyTheBusy.            *)
(*                                                                         *)
(* The invariant has a layer for the memory of the workers, one for the    *)
(* counter of "fixed" and one for the counters of "rolling"; each is       *)
(* inductive on top of TypeOK and what RateLimitProofs shows of expiries.  *)
(***************************************************************************)
EXTENDS RateLimitProofs, FiniteSetTheorems

-----------------------------------------------------------------------------
(* Sums *)

\* What is numbered.
LEMMA NumberedMember ==
    ASSUME NEW T, NEW f \in [T -> Nat], NEW S \in SUBSET T, NEW p
    PROVE  p \in Numbered(f, S) <=> \E x \in S : \E n \in 1 .. f[x] : p = <<x, n>>
BY DEF Numbered

\* A sum is a number.
LEMMA SumTyped ==
    ASSUME NEW T, IsFiniteSet(T), NEW f \in [T -> Nat], NEW S \in SUBSET T
    PROVE  IsFiniteSet(Numbered(f, S)) /\ Sum(f, S) \in Nat
<1> DEFINE row(x) == {x} \X (1 .. f[x])
           rows == {row(x) : x \in S}
           rowOf == [x \in S |-> row(x)]
<1>1. IsFiniteSet(S)
  BY FS_Subset
<1>2. rowOf \in Surjection(S, rows)
  BY DEF Surjection
<1>3. IsFiniteSet(rows)
  BY <1>1, <1>2, FS_Surjection
<1>4. ASSUME NEW x \in S PROVE IsFiniteSet(row(x))
  <2>1. f[x] \in Nat
    OBVIOUS
  <2>2. ASSUME NEW n \in Nat PROVE IsFiniteSet(1 .. n)
    BY FS_Interval
  <2>3. IsFiniteSet(1 .. f[x]) /\ IsFiniteSet({x})
    BY <2>1, <2>2, FS_Singleton
  <2> QED BY <2>3, FS_Product
<1>5. IsFiniteSet(UNION rows)
  BY <1>3, <1>4, FS_UNION
<1>6. IsFiniteSet(Numbered(f, S))
  BY <1>5 DEF Numbered
<1> QED BY <1>6, FS_CardinalityType DEF Sum

\* A sum is no larger than one that counts all that it counts.
LEMMA SumCovered ==
    ASSUME NEW T, IsFiniteSet(T), NEW f \in [T -> Nat], NEW g \in [T -> Nat],
           NEW S \in SUBSET T, NEW R \in SUBSET T,
           \A x \in S : f[x] > 0 => x \in R /\ f[x] <= g[x]
    PROVE  Sum(f, S) <= Sum(g, R)
<1>1. Numbered(f, S) \subseteq Numbered(g, R)
  <2> SUFFICES ASSUME NEW x \in S, NEW n \in Nat, n \in 1 .. f[x]
               PROVE  x \in R /\ n \in 1 .. g[x]
    BY NumberedMember
  <2> QED OBVIOUS
<1>2. IsFiniteSet(Numbered(g, R))
  BY SumTyped
<1> QED BY <1>1, <1>2, FS_Subset DEF Sum

\* Of the same counts the sum is the same.
LEMMA SumEqual ==
    ASSUME NEW T, IsFiniteSet(T), NEW f \in [T -> Nat], NEW g \in [T -> Nat],
           NEW S \in SUBSET T, \A x \in S : f[x] = g[x]
    PROVE  Sum(f, S) = Sum(g, S)
BY DEF Sum, Numbered

\* A sum over two sets that share nothing.
LEMMA SumSplit ==
    ASSUME NEW T, IsFiniteSet(T), NEW f \in [T -> Nat],
           NEW S \in SUBSET T, NEW R \in SUBSET T, S \cap R = {}
    PROVE  Sum(f, S \cup R) = Sum(f, S) + Sum(f, R)
<1>1. Numbered(f, S \cup R) = Numbered(f, S) \cup Numbered(f, R)
  BY DEF Numbered
<1>2. Numbered(f, S) \cap Numbered(f, R) = {}
  <2> SUFFICES ASSUME NEW p \in Numbered(f, S), p \in Numbered(f, R) PROVE FALSE
    OBVIOUS
  <2>1. PICK x \in S, n \in Nat : n \in 1 .. f[x] /\ p = <<x, n>>
    BY NumberedMember
  <2>2. PICK y \in R, m \in Nat : m \in 1 .. f[y] /\ p = <<y, m>>
    BY NumberedMember
  <2> QED BY <2>1, <2>2
<1>3. IsFiniteSet(Numbered(f, S)) /\ IsFiniteSet(Numbered(f, R))
  BY SumTyped
<1>4. Cardinality(Numbered(f, S)) \in Nat /\ Cardinality(Numbered(f, R)) \in Nat
  BY <1>3, FS_CardinalityType
<1>5. Cardinality(Numbered(f, S) \cap Numbered(f, R)) = 0
  BY <1>2, FS_EmptySet
<1>6. Cardinality(Numbered(f, S) \cup Numbered(f, R))
        = Cardinality(Numbered(f, S)) + Cardinality(Numbered(f, R))
          - Cardinality(Numbered(f, S) \cap Numbered(f, R))
  BY <1>3, FS_Union
<1>7. Cardinality(Numbered(f, S) \cup Numbered(f, R))
        = Cardinality(Numbered(f, S)) + Cardinality(Numbered(f, R))
  BY <1>4, <1>5, <1>6
<1> QED BY <1>1, <1>7 DEF Sum

\* One more is counted.
LEMMA SumPlus ==
    ASSUME NEW T, IsFiniteSet(T), NEW f \in [T -> Nat], NEW S \in SUBSET T, NEW t \in T,
           NEW g \in [T -> Nat], g[t] = f[t] + 1, \A x \in T : x # t => g[x] = f[x]
    PROVE  /\ t \in S => Sum(g, S) = Sum(f, S) + 1
           /\ t \notin S => Sum(g, S) = Sum(f, S)
<1> DEFINE more == <<t, f[t] + 1>>
<1>1. /\ g \in [T -> Nat] /\ g[t] = f[t] + 1 /\ f[t] \in Nat
      /\ \A x \in T : x # t => g[x] = f[x]
  OBVIOUS
<1>2. ASSUME t \in S PROVE Sum(g, S) = Sum(f, S) + 1
  <2>1. Numbered(g, S) = Numbered(f, S) \cup {more}
    <3>1. ASSUME NEW p \in Numbered(g, S) PROVE p \in Numbered(f, S) \cup {more}
      <4>1. PICK x \in S : \E n \in 1 .. g[x] : p = <<x, n>>
        BY <1>1, NumberedMember
      <4>2. PICK n \in 1 .. g[x] : p = <<x, n>>
        BY <4>1
      <4>3. CASE n \in 1 .. f[x]
        BY <4>2, <4>3, NumberedMember
      <4>4. CASE n \notin 1 .. f[x]
        <5>1. f[x] \in Nat /\ g[x] \in Nat /\ n \in Nat
          BY <1>1
        <5>2. x = t
          BY <1>1, <4>4
        <5>3. n = f[t] + 1
          BY <1>1, <4>4, <5>1, <5>2
        <5> QED BY <4>2, <5>2, <5>3
      <4> QED BY <4>3, <4>4
    <3>2. ASSUME NEW p \in Numbered(f, S) PROVE p \in Numbered(g, S)
      <4>1. PICK x \in S : \E n \in 1 .. f[x] : p = <<x, n>>
        BY NumberedMember
      <4>2. f[x] \in Nat /\ g[x] \in Nat /\ f[x] <= g[x]
        BY <1>1
      <4>3. 1 .. f[x] \subseteq 1 .. g[x]
        BY <4>2
      <4> QED BY <1>1, <4>1, <4>3, NumberedMember
    <3>3. more \in Numbered(g, S)
      <4>1. f[t] + 1 \in 1 .. g[t]
        BY <1>1
      <4> QED BY <1>1, <1>2, <4>1, NumberedMember
    <3> QED BY <3>1, <3>2, <3>3
  <2>2. more \notin Numbered(f, S)
    <3> SUFFICES ASSUME more \in Numbered(f, S) PROVE FALSE
      OBVIOUS
    <3>1. PICK x \in S : \E n \in 1 .. f[x] : more = <<x, n>>
      BY NumberedMember
    <3>2. x = t /\ f[t] + 1 \in 1 .. f[t]
      BY <3>1
    <3> QED BY <1>1, <3>2
  <2>3. IsFiniteSet(Numbered(f, S))
    BY SumTyped
  <2> QED BY <2>1, <2>2, <2>3, FS_AddElement DEF Sum
<1>3. ASSUME t \notin S PROVE Sum(g, S) = Sum(f, S)
  <2>1. \A x \in S : g[x] = f[x]
    BY <1>1, <1>3
  <2> QED BY <1>1, <2>1, SumEqual
<1> QED BY <1>2, <1>3

\* Where nothing is counted there is nothing to sum.
LEMMA SumZero ==
    ASSUME NEW T, IsFiniteSet(T), NEW f \in [T -> Nat], NEW S \in SUBSET T,
           \A x \in S : f[x] = 0
    PROVE  Sum(f, S) = 0
<1>1. Numbered(f, S) = {}
  BY DEF Numbered
<1> QED BY <1>1, FS_EmptySet DEF Sum

-----------------------------------------------------------------------------
(* Buckets *)

\* A bucket is no earlier than the k-th where its time is not.
LEMMA BucketFrom ==
    ASSUME NEW t \in Nat, NEW k \in Int
    PROVE  /\ BucketOf(t) \in Nat /\ BucketOf(t) <= t
           /\ BucketOf(t) >= k <=> t >= Bucket * k
<1> DEFINE b == Bucket
           q == t \div b
<1>1. b \in Nat /\ b > 0
  BY WindowsAssumption
<1>2. q \in 0 .. t
  BY <1>1, Division
<1>3. q \in Int /\ t = b * q + (t % b) /\ 0 <= t % b /\ t % b < b
  BY <1>1 , SMT
<1>4. ASSUME q >= k PROVE t >= b * k
  <2>1. b * q >= b * k
    BY <1>1, <1>3, <1>4, SMTT(20)
  <2> QED BY <1>1, <1>3, <2>1
<1>5. ASSUME q < k PROVE t < b * k
  <2>1. q + 1 <= k
    BY <1>3, <1>5
  <2>2. b * (q + 1) <= b * k
    BY <1>1, <1>3, <2>1, SMTT(20)
  <2>3. b * (q + 1) = b * q + b
    BY <1>1, <1>3, SMTT(20)
  <2> QED BY <1>1, <1>3, <2>2, <2>3
<1>6. q >= k \/ q < k
  BY <1>3
<1>7. t >= b * k /\ t < b * k => FALSE
  <2>1. b * k \in Int
    BY <1>1, SMT
  <2> QED BY <2>1
<1>8. q >= k <=> t >= b * k
  BY <1>4, <1>5, <1>6, <1>7, Zenon
<1>9. q \in Nat /\ q <= t
  BY <1>2
<1> QED BY <1>8, <1>9, Zenon DEF BucketOf

\* The next tick begins the next bucket, or none.
LEMMA NextBucket ==
    ASSUME NEW t \in Nat
    PROVE  BucketOf(t + 1) \in {BucketOf(t), BucketOf(t) + 1}
<1>1. BucketOf(t) \in Int /\ BucketOf(t + 1) \in Int /\ Bucket \in Nat \ {0}
  BY BucketFrom, WindowsAssumption
<1>2. BucketOf(t) >= BucketOf(t)
  BY <1>1
<1>3. t >= Bucket * BucketOf(t)
  BY <1>1, <1>2, BucketFrom
<1>4. BucketOf(t + 1) >= BucketOf(t)
  <2>1. Bucket * BucketOf(t) \in Int
    BY <1>1, SMT
  <2>2. t + 1 >= Bucket * BucketOf(t)
    BY <1>3, <2>1
  <2> QED BY <1>1, <2>2, BucketFrom
<1>5. ~(BucketOf(t) >= BucketOf(t) + 1)
  BY <1>1
<1>6. ~(t >= Bucket * (BucketOf(t) + 1))
  BY <1>1, <1>5, BucketFrom
<1>7. ~(BucketOf(t + 1) >= BucketOf(t) + 2)
  <2>1. Bucket * (BucketOf(t) + 2) = Bucket * (BucketOf(t) + 1) + Bucket
    BY <1>1, SMTT(20)
  <2>2. Bucket * (BucketOf(t) + 1) \in Int
    BY <1>1, SMT
  <2>3. ~(t + 1 >= Bucket * (BucketOf(t) + 2))
    BY <1>1, <1>6, <2>1, <2>2
  <2> QED BY <1>1, <2>3, BucketFrom
<1> QED BY <1>1, <1>4, <1>7

\* What is late by less than a bucket was begun in this bucket or in the last.
LEMMA LateBucket ==
    ASSUME NEW t \in Nat, NEW u \in Nat, u <= t, t - u < Bucket
    PROVE  BucketOf(u) <= BucketOf(t) /\ BucketOf(u) >= BucketOf(t) - 1
<1>1. BucketOf(t) \in Int /\ BucketOf(u) \in Int /\ Bucket \in Nat \ {0}
  BY BucketFrom, WindowsAssumption
<1>2. BucketOf(t) >= BucketOf(t) /\ BucketOf(u) >= BucketOf(u)
  BY <1>1
<1>3. t >= Bucket * BucketOf(t) /\ u >= Bucket * BucketOf(u)
  BY <1>1, <1>2, BucketFrom
<1>4. Bucket * BucketOf(t) \in Int /\ Bucket * BucketOf(u) \in Int
  BY <1>1, SMT
<1>5. BucketOf(t) >= BucketOf(u)
  BY <1>1, <1>3, <1>4, BucketFrom
<1>6. Bucket * (BucketOf(t) - 1) = Bucket * BucketOf(t) - Bucket
  BY <1>1, SMTT(20)
<1>7. u >= Bucket * (BucketOf(t) - 1)
  BY <1>1, <1>3, <1>4, <1>6
<1> QED BY <1>1, <1>5, <1>7, BucketFrom

\* A rolling window is of whole buckets, at least one.
LEMMA WholeBuckets ==
    ASSUME TypeOK, kind = "rolling"
    PROVE  NumBuckets \in Nat \ {0} /\ Window = Bucket * NumBuckets
<1> DEFINE b == Bucket
           q == Window \div b
<1>1. Window \in Nat /\ Window > 0 /\ b \in Nat /\ b > 0 /\ Window % b = 0
  BY WindowsAssumption DEF TypeOK, Window
<1>2. q \in 0 .. Window
  BY <1>1, Division
<1>3. Window = b * q + (Window % b)
  BY <1>1, SMT
<1>4. Window = b * q
  <2>1. b * q \in Int
    BY <1>1, <1>2, SMT
  <2> QED BY <1>1, <1>3, <2>1
<1>5. q # 0
  BY <1>1, <1>4
<1> QED BY <1>2, <1>4, <1>5 DEF NumBuckets

-----------------------------------------------------------------------------
(* The invariant *)

\* Nothing was asked, remembered or admitted at a time to come.
Past ==
    \A t \in Time : t > now =>
        /\ asked[t] = 0 /\ admitted["redis"][t] = 0
        /\ \A w \in Workers : memory[w][t] = 0 /\ admitted[w][t] = 0

\* A request is late by less than a bucket, and under "fixed" reads no counters.
Clocks ==
    \A w \in Workers : worker[w].pc # "idle" =>
        /\ worker[w].at <= now /\ now - worker[w].at < Bucket
        /\ timely => worker[w].at = now
        /\ kind = "fixed" => worker[w].pc # "mget"

\* A worker remembers what it admits, and at most what was asked; the request under
\* way is not among it yet.
RemembersWell(w) ==
    /\ \A t \in Time : admitted[w][t] <= memory[w][t]
    /\ Sum(admitted[w], Remembered) <= Limit
    /\ timely => /\ \A t \in Time : memory[w][t] <= asked[t]
                 /\ worker[w].pc # "idle" => memory[w][now] < asked[now]

Remembrance == \A w \in Workers : RemembersWell(w)

\* Under "fixed": what the counter counts, and the requests about to be counted,
\* were asked since its life began.
Between(first, last) == {t \in Time : first <= t /\ t <= last}
Asking == {w \in Workers : worker[w].pc = "incr"}
Start == IF left[0] > 0 THEN now + left[0] - Window ELSE now

FixedAsked ==
    kind = "fixed" =>
        /\ left[0] <= Window
        /\ timely /\ ~lost =>
             count[0] + Cardinality(Asking) <= Sum(asked, Between(Start, now))

\* The life of the counter began at i: of those admitted in the window before, one
\* was before its expiry was set, so that at most Limit - 1 are still in the window.
\* This life has let in no more than the limit, and less one until its first request
\* is let in; those let in after that first one are at most Limit - 1 as well, which
\* is what the next life will find.
FixedLife(i) ==
    LET adm == admitted["redis"] IN
    /\ Sum(adm, Between(i - Window + 1, i - 1)) <= Limit - 1
    /\ Sum(adm, Between(i, now)) <= count[0]
    /\ Sum(adm, Between(i, now)) <= Limit
    /\ (\E w \in Workers : worker[w].pc = "expire") =>
          /\ Sum(adm, Between(i, now)) <= count[0] - 1
          /\ Sum(adm, Between(i, now)) <= Limit - 1
    /\ left[0] > 0 =>
          /\ Sum(adm, Between(now + left[0] - Window + 1, now)) <= count[0] - 1
          /\ Sum(adm, Between(now + left[0] - Window + 1, now)) <= Limit - 1

FixedBound ==
    LET adm == admitted["redis"] IN
    kind = "fixed" =>
        /\ count[0] = 0 => Sum(adm, Between(now - Window + 1, now)) <= Limit - 1 /\ adm[now] = 0
        /\ count[0] > 0 => \E i \in 0 .. now : FixedLife(i)

\* Under "rolling": the present bucket and the first that is looked at; the times and
\* the counters from bucket k on; the requests that wait to be counted there and those
\* that were, and the requests that are late.
Here == BucketOf(now)
First == Here - NumBuckets
From(k) == {t \in Time : BucketOf(t) >= k}
CountersFrom(k) == {c \in Counters : c >= k}
Late(w) == BucketOf(worker[w].at) < BucketOf(now)
Waiting(k) == {w \in Workers : worker[w].pc = "incr" /\ BucketOf(worker[w].at) >= k}
Counted(k) == {w \in Workers : worker[w].pc \in {"expire", "mget"} /\ BucketOf(worker[w].at) >= k}
Latecomers == {w \in Workers : worker[w].pc # "idle" /\ Late(w)}

\* A counter lives until no window looks at it, and none is of a bucket to come.
LivesLong ==
    kind = "rolling" => \A c \in Counters :
        /\ left[c] > 0 => now + left[c] >= Bucket * (c + 1) + Window
        /\ c > Here => count[c] = 0

\* The counters from any bucket on count only what was asked there.
CountAsked ==
    kind = "rolling" =>
       \A k \in Int : Sum(count, CountersFrom(k)) + Cardinality(Waiting(k)) <= Sum(asked, From(k))

\* What the late requests can be missing from the counters.
Slack == IF timely THEN 0 ELSE Cardinality(Workers)
Excess == IF timely THEN 0 ELSE 2 * Cardinality(Workers) - 1

\* What was let in from bucket k on, and what is counted there and may still be, is
\* counted, but for one request of each worker that was late when k began.
AdmittedCounted ==
    kind = "rolling" =>
        \A k \in First .. Here :
           Sum(admitted["redis"], From(k)) + Cardinality(Counted(k))
             + (IF k = Here THEN Cardinality(Latecomers) ELSE 0)
               <= Sum(count, CountersFrom(k)) + Slack

\* The bound, with room for the requests that are late now: each of them may still be
\* let in by a count that misses the present bucket, but only while the buckets
\* before it count no more than the limit.
LateCounted == Counted(First) \cap Latecomers
RecentCounters == {c \in Counters : First <= c /\ c < Here}

RollingBound ==
    kind = "rolling" =>
       LET adm == Sum(admitted["redis"], From(First)) IN
       /\ adm <= Limit + Excess
       /\ \/ adm + Cardinality(Latecomers) <= Limit + Excess
          \/ adm + Cardinality(LateCounted) <= Sum(count, RecentCounters) + Slack

MemoryInv == Past /\ Clocks /\ Remembrance
FixedInv == IInv /\ MemoryInv /\ FixedAsked
RollingInv == IInv /\ MemoryInv /\ LivesLong
RollingWhole == RollingInv /\ CountAsked /\ AdmittedCounted /\ RollingBound

BoundInv ==
    /\ IInv /\ MemoryInv
    /\ FixedAsked /\ FixedBound
    /\ LivesLong /\ CountAsked /\ AdmittedCounted /\ RollingBound

-----------------------------------------------------------------------------
(* Steps *)

\* What the memory of a worker decides changes nothing of another store.
LEMMA FallsBackStep ==
    ASSUME TypeOK, NEW w \in Workers, FallsBack(w)
    PROVE  /\ admitted'["redis"] = admitted["redis"]
           /\ \A v \in Workers \ {w} : memory'[v] = memory[v] /\ admitted'[v] = admitted[v]
           /\ \/ /\ Sum(memory[w], Remembered) < Limit
                 /\ admitted'[w] = [admitted[w] EXCEPT ![now] = @ + 1]
                 /\ memory'[w] = [memory[w] EXCEPT ![now] = @ + 1]
              \/ /\ ~(Sum(memory[w], Remembered) < Limit) /\ admitted' = admitted
                 /\ IF kind = "fixed" THEN memory' = memory
                    ELSE memory'[w] = [memory[w] EXCEPT ![now] = @ + 1]
<1>1. "redis" \in Stores /\ "redis" \notin Workers /\ Workers \subseteq Stores
  BY WorkersAssumption DEF Stores
<1>2. admitted \in [Stores -> [Time -> Nat]] /\ memory \in [Workers -> [Time -> Nat]]
  BY DEF TypeOK
<1>3. ASSUME Remembers(w)
      PROVE  /\ memory'[w] = [memory[w] EXCEPT ![now] = @ + 1]
             /\ \A v \in Workers \ {w} : memory'[v] = memory[v]
  BY <1>2, <1>3 DEF Remembers
<1>4. ASSUME Admits(w)
      PROVE  /\ admitted'[w] = [admitted[w] EXCEPT ![now] = @ + 1]
             /\ \A s \in Stores \ {w} : admitted'[s] = admitted[s]
  BY <1>1, <1>2, <1>4 DEF Admits
<1>5. CASE Sum(memory[w], Remembered) < Limit
  <2>1. Admits(w) /\ Remembers(w)
    BY <1>5 DEF FallsBack, MemoryAdmits
  <2> QED BY <1>1, <1>3, <1>4, <1>5, <2>1
<1>6. CASE ~(Sum(memory[w], Remembered) < Limit)
  <2>1. admitted' = admitted /\ IF kind = "fixed" THEN memory' = memory ELSE Remembers(w)
    BY <1>6 DEF FallsBack, MemoryRefuses, Refuses
  <2> QED BY <1>3, <1>6, <2>1
<1> QED BY <1>5, <1>6

\* What Redis decides changes nothing of a worker's memory.
LEMMA DecidesStep ==
    ASSUME TypeOK, NEW w \in Workers, NEW total, Decides(w, total)
    PROVE  /\ \A v \in Workers : admitted'[v] = admitted[v]
           /\ \/ total > Limit /\ admitted' = admitted
              \/ /\ ~(total > Limit)
                 /\ admitted'["redis"] = [admitted["redis"] EXCEPT ![now] = @ + 1]
<1>1. "redis" \in Stores /\ "redis" \notin Workers /\ Workers \subseteq Stores
  BY WorkersAssumption DEF Stores
<1>2. admitted \in [Stores -> [Time -> Nat]]
  BY DEF TypeOK
<1>3. CASE total > Limit
  BY <1>3 DEF Decides, Refuses
<1>4. CASE ~(total > Limit)
  <2>1. admitted' = [admitted EXCEPT !["redis"][now] = @ + 1]
    BY <1>4 DEF Decides, Admits
  <2> QED BY <1>1, <1>2, <1>4, <2>1
<1> QED BY <1>3, <1>4

\* Where a request stands after a step of its own, or the death of its worker.
LEMMA WorkerStep ==
    ASSUME TypeOK, NEW w \in Workers, Request(w) \/ Crashes(w)
    PROVE  /\ UNCHANGED <<kind, timely, now>>
           /\ \A v \in Workers \ {w} : worker'[v] = worker[v]
           /\ \/ worker'[w].pc = "idle"
              \/ Asks(w) /\ worker'[w].pc = "incr" /\ worker'[w].at = now
              \/ /\ worker[w].pc # "idle" /\ worker'[w].at = worker[w].at
                 /\ worker'[w].pc # "incr" /\ ~Asks(w)
                 /\ kind = "fixed" => worker'[w].pc = "expire"
<1>1. CASE Asks(w)
  <2>1. worker' = [worker EXCEPT ![w] = [pc |-> "incr", at |-> now]]
    BY <1>1 DEF Asks
  <2>2. worker'[w] = [pc |-> "incr", at |-> now] /\ \A v \in Workers \ {w} : worker'[v] = worker[v]
    BY <2>1 DEF TypeOK
  <2> QED BY <1>1, <2>2 DEF Asks, config
<1>2. ASSUME Answered(w)
      PROVE  worker'[w].pc = "idle" /\ \A v \in Workers \ {w} : worker'[v] = worker[v]
  BY <1>2, AnsweredTyped DEF Answered
<1>3. ASSUME NEW pc \in {"expire", "mget"}, Goes(w, pc), worker[w].pc # "idle",
             kind = "fixed" => pc = "expire"
      PROVE  /\ \A v \in Workers \ {w} : worker'[v] = worker[v]
             /\ worker[w].pc # "idle" /\ worker'[w].at = worker[w].at
             /\ worker'[w].pc # "incr" /\ ~Asks(w)
             /\ kind = "fixed" => worker'[w].pc = "expire"
  <2>1. pc \in {"idle", "incr", "expire", "mget"}
    OBVIOUS
  <2>2. ~Asks(w)
    BY <1>3 DEF Asks
  <2> QED BY <1>3, <2>1, <2>2, GoesTyped
<1>4. CASE Increments(w)
  <2>1. UNCHANGED <<kind, timely, now>> /\ worker[w].pc # "idle"
    BY <1>4 DEF Increments, config
  <2>2. count[CounterOf(w)] \in Nat
    BY CounterTyped, RedisTyped
  <2>3. \/ Goes(w, "expire") \/ (Goes(w, "mget") /\ kind # "fixed")
        \/ Decides(w, count'[CounterOf(w)])
    BY <1>4, <2>2 DEF Increments
  <2> QED BY <1>2, <1>3, <2>1, <2>3 DEF Decides
<1>5. CASE Expires(w)
  <2>1. UNCHANGED <<kind, timely, now>> /\ worker[w].pc # "idle"
    BY <1>5 DEF Expires, config
  <2>2. (Goes(w, "mget") /\ kind # "fixed") \/ Decides(w, 1)
    BY <1>5 DEF Expires
  <2> QED BY <1>2, <1>3, <2>1, <2>2 DEF Decides
<1>6. CASE Counts(w)
  BY <1>2, <1>6 DEF Counts, Decides, config
<1>7. CASE FailsToIncrement(w) \/ FailsToExpire(w) \/ FailsToCount(w)
  <2>1. UNCHANGED <<kind, timely, now>> /\ FallsBack(w)
    BY <1>7 DEF FailsToIncrement, FailsToExpire, FailsToCount, config
  <2> QED BY <1>2, <2>1 DEF FallsBack
<1>8. CASE Crashes(w)
  BY <1>2, <1>8 DEF Crashes, config
<1> QED BY <1>1, <1>4, <1>5, <1>6, <1>7, <1>8 DEF Request

\* What a request that is not new does to what was asked, remembered and let in.
LEMMA HistoryStep ==
    ASSUME TypeOK, NEW w \in Workers, Request(w), ~Asks(w)
    PROVE  /\ asked' = asked /\ worker[w].pc # "idle"
           /\ \/ /\ memory' = memory /\ \A v \in Workers : admitted'[v] = admitted[v]
                 /\ \/ admitted'["redis"] = admitted["redis"]
                    \/ admitted'["redis"] = [admitted["redis"] EXCEPT ![now] = @ + 1]
              \/ FallsBack(w)
<1>1. CASE Increments(w)
  <2>1. memory' = memory /\ asked' = asked /\ worker[w].pc # "idle"
    BY <1>1 DEF Increments
  <2>2. count[CounterOf(w)] \in Nat
    BY CounterTyped, RedisTyped
  <2>3. admitted' = admitted \/ Decides(w, count'[CounterOf(w)])
    BY <1>1, <2>2 DEF Increments
  <2> QED BY <2>1, <2>3, DecidesStep
<1>2. CASE Expires(w)
  <2>1. memory' = memory /\ asked' = asked /\ worker[w].pc # "idle"
    BY <1>2 DEF Expires
  <2>2. admitted' = admitted \/ Decides(w, 1)
    BY <1>2 DEF Expires
  <2> QED BY <2>1, <2>2, DecidesStep
<1>3. CASE Counts(w)
  <2>1. memory' = memory /\ asked' = asked /\ worker[w].pc # "idle"
    BY <1>3 DEF Counts
  <2>2. PICK total : Decides(w, total)
    BY <1>3 DEF Counts
  <2> QED BY <2>1, <2>2, DecidesStep
<1>4. CASE FailsToIncrement(w) \/ FailsToExpire(w) \/ FailsToCount(w)
  BY <1>4 DEF FailsToIncrement, FailsToExpire, FailsToCount
<1> QED BY <1>1, <1>2, <1>3, <1>4 DEF Request

\* The sets summed over are finite.
LEMMA TimesFinite ==
    /\ IsFiniteSet(Time) /\ IsFiniteSet(Counters) /\ Time \subseteq Nat
    /\ IsFiniteSet(Workers)
<1>1. MaxTime \in Nat
  BY BoundsAssumption
<1>2. IsFiniteSet(0 .. MaxTime)
  BY <1>1, FS_Interval
<1>3. IsFiniteSet((0 .. MaxTime) \cup {MaxTime + 1})
  BY <1>2, FS_AddElement
<1> QED BY <1>2, <1>3, WorkersAssumption DEF Time, Counters

\* A limit, a window and a bucket are not empty.
LEMMA LimitTyped ==
    ASSUME TypeOK
    PROVE  Limit \in Nat \ {0} /\ Window \in Nat \ {0} /\ now \in Nat /\ Bucket \in Nat \ {0}
BY LimitsAssumption, WindowsAssumption, TimesFinite DEF TypeOK, Limit, Window

\* What is remembered at a time is that of its tick, and of a time is that of before.
LEMMA RememberedSame ==
    ASSUME UNCHANGED <<kind, now>>
    PROVE  Remembered' = Remembered /\ Limit' = Limit /\ Window' = Window
BY DEF Remembered, BucketsCounted, NumBuckets, BucketOf, Window, Limit

\* A tick adds nothing to what is remembered but its own time.
LEMMA RememberedNext ==
    ASSUME TypeOK, kind' = kind, now' = now + 1
    PROVE  Remembered' \subseteq Remembered \cup {now + 1}
<1> SUFFICES ASSUME NEW t \in Remembered', t # now + 1
             PROVE  t \in Remembered
  OBVIOUS
<1>1. Window' = Window /\ NumBuckets' = NumBuckets /\ Limit' = Limit
  BY DEF Window, Limit, NumBuckets
<1>2. t \in Time /\ t \in Nat /\ now \in Nat /\ t <= now + 1 /\ t <= now
  BY TimesFinite, LimitTyped DEF Remembered
<1>3. CASE kind = "fixed"
  <2>1. t > now + 1 - Window
    BY <1>1, <1>2, <1>3, LimitTyped DEF Remembered
  <2> QED BY <1>2, <1>3, <2>1, LimitTyped DEF Remembered
<1>4. CASE kind # "fixed"
  <2> DEFINE b == BucketOf(now)
             c == BucketOf(now + 1)
  <2>1. b \in Int /\ c \in {b, b + 1} /\ BucketOf(t) \in Int
    BY <1>2, NextBucket, BucketFrom
  <2>2. BucketOf(t) <= b
    <3>1. b >= BucketOf(t) <=> now >= Bucket * BucketOf(t)
      BY <1>2, <2>1, BucketFrom
    <3>2. BucketOf(t) >= BucketOf(t) <=> t >= Bucket * BucketOf(t)
      BY <1>2, <2>1, BucketFrom
    <3>3. Bucket * BucketOf(t) \in Int
      BY <2>1, LimitTyped, SMT
    <3> QED BY <1>2, <2>1, <3>1, <3>2, <3>3
  <2>3. BucketOf(t) \in (c - NumBuckets) .. c
    BY <1>1, <1>4 DEF Remembered, BucketsCounted, BucketOf
  <2>4. NumBuckets \in Int
    BY LimitTyped, SMT DEF NumBuckets
  <2>5. BucketOf(t) \in (b - NumBuckets) .. b
    BY <2>1, <2>2, <2>3, <2>4
  <2> QED BY <1>2, <1>4, <2>5 DEF Remembered, BucketsCounted
<1> QED BY <1>3, <1>4

-----------------------------------------------------------------------------
(* What a worker remembers *)

\* What a table of counts has after one more was counted now.
LEMMA OneMoreNow ==
    ASSUME TypeOK, NEW f \in [Time -> Nat], NEW g, g = f \/ g = [f EXCEPT ![now] = @ + 1]
    PROVE  /\ g \in [Time -> Nat] /\ \A t \in Time : t # now => g[t] = f[t]
           /\ g[now] = f[now] \/ g[now] = f[now] + 1
           /\ \A t \in Time : f[t] <= g[t]
<1>1. now \in Time /\ f[now] \in Nat /\ \A t \in Time : f[t] \in Nat
  BY DEF TypeOK
<1>2. CASE g = f
  BY <1>1, <1>2
<1>3. CASE g = [f EXCEPT ![now] = @ + 1]
  <2>1. g[now] = f[now] + 1 /\ \A t \in Time : t # now => g[t] = f[t]
    BY <1>1, <1>3
  <2>2. g \in [Time -> Nat]
    BY <1>1, <1>3
  <2>3. \A t \in Time : f[t] <= g[t]
    BY <1>1, <2>1
  <2> QED BY <2>1, <2>2, <2>3
<1> QED BY <1>2, <1>3

\* One more admission or request counts in a sum over times with the present one.
LEMMA SumNow ==
    ASSUME TypeOK, NEW f \in [Time -> Nat], NEW S \in SUBSET Time,
           NEW g, g = [f EXCEPT ![now] = @ + 1]
    PROVE  /\ Sum(f, S) \in Nat
           /\ now \in S => Sum(g, S) = Sum(f, S) + 1
           /\ now \notin S => Sum(g, S) = Sum(f, S)
<1>1. now \in Time /\ IsFiniteSet(Time)
  BY TimesFinite DEF TypeOK
<1>2. g \in [Time -> Nat] /\ g[now] = f[now] + 1 /\ \A t \in Time : t # now => g[t] = f[t]
  BY <1>1
<1>3. Sum(f, S) \in Nat
  BY <1>1, SumTyped
<1> DEFINE h == g
<1>4. h \in [Time -> Nat] /\ h[now] = f[now] + 1 /\ \A t \in Time : t # now => h[t] = f[t]
  BY <1>2
<1> HIDE DEF h
<1>5. /\ now \in S => Sum(h, S) = Sum(f, S) + 1
      /\ now \notin S => Sum(h, S) = Sum(f, S)
  BY ONLY <1>1, <1>4, SumPlus
<1> QED BY <1>3, <1>5, Zenon DEF h

\* The tables that are summed, and where.
LEMMA HistoryTyped ==
    ASSUME TypeOK
    PROVE  /\ asked \in [Time -> Nat] /\ admitted["redis"] \in [Time -> Nat]
           /\ \A w \in Workers : memory[w] \in [Time -> Nat] /\ admitted[w] \in [Time -> Nat]
           /\ now \in Time /\ Remembered \in SUBSET Time
BY DEF TypeOK, Stores, Remembered

\* What is asked, remembered and admitted is so at the present time.
LEMMA PastKeeps ==
    ASSUME TypeOK, Past, NEW w \in Workers, Request(w) \/ Crashes(w)
    PROVE  Past'
<1>1. now' = now
  BY WorkerStep
<1> SUFFICES ASSUME NEW t \in Time, t > now, NEW v \in Workers
             PROVE  /\ asked'[t] = 0 /\ admitted'["redis"][t] = 0
                    /\ memory'[v][t] = 0 /\ admitted'[v][t] = 0
  <2>1. ASSUME NEW t \in Time, t > now
        PROVE  /\ asked'[t] = 0 /\ admitted'["redis"][t] = 0
               /\ \A v \in Workers : memory'[v][t] = 0 /\ admitted'[v][t] = 0
    BY <2>1, w \in Workers
  <2> QED BY <1>1, <2>1 DEF Past
<1>2. /\ asked[t] = 0 /\ admitted["redis"][t] = 0
      /\ memory[v][t] = 0 /\ admitted[v][t] = 0 /\ memory[w][t] = 0 /\ admitted[w][t] = 0
  BY DEF Past
<1>3. t # now
  BY LimitTyped
<1>4. CASE Asks(w)
  <2>1. asked' = [asked EXCEPT ![now] = @ + 1] /\ memory' = memory /\ admitted' = admitted
    BY <1>4 DEF Asks
  <2> QED BY <1>2, <1>3, <2>1, OneMoreNow, HistoryTyped
<1>5. CASE Request(w) /\ ~Asks(w)
  <2>1. asked' = asked
    BY <1>5, HistoryStep
  <2>2. CASE FallsBack(w)
    <3>1. admitted'["redis"] = admitted["redis"]
      BY <2>2, FallsBackStep
    <3>2. CASE v # w
      BY <1>2, <2>1, <2>2, <3>1, <3>2, FallsBackStep
    <3>3. CASE v = w
      <4>1. /\ memory'[w] = memory[w] \/ memory'[w] = [memory[w] EXCEPT ![now] = @ + 1]
            /\ admitted'[w] = admitted[w] \/ admitted'[w] = [admitted[w] EXCEPT ![now] = @ + 1]
        BY <2>2, FallsBackStep
      <4>2. memory'[w][t] = memory[w][t]
        BY <1>3, <4>1, OneMoreNow, HistoryTyped
      <4>3. admitted'[w][t] = admitted[w][t]
        BY <1>3, <4>1, OneMoreNow, HistoryTyped
      <4> QED BY <1>2, <2>1, <3>1, <3>3, <4>2, <4>3
    <3> QED BY <3>2, <3>3
  <2>3. CASE ~FallsBack(w)
    <3>1. memory' = memory /\ admitted'[v] = admitted[v]
      BY <1>5, <2>3, HistoryStep
    <3>2. \/ admitted'["redis"] = admitted["redis"]
          \/ admitted'["redis"] = [admitted["redis"] EXCEPT ![now] = @ + 1]
      BY <1>5, <2>3, HistoryStep
    <3>3. admitted'["redis"][t] = admitted["redis"][t]
      BY <1>3, <3>2, OneMoreNow, HistoryTyped
    <3> QED BY <1>2, <2>1, <3>1, <3>3
  <2> QED BY <2>2, <2>3
<1>6. CASE Crashes(w)
  <2>1. /\ asked' = asked
        /\ memory' = [memory EXCEPT ![w] = [u \in Time |-> 0]]
        /\ admitted' = [admitted EXCEPT ![w] = [u \in Time |-> 0]]
    BY <1>6 DEF Crashes
  <2>2. w # "redis" /\ v \in Stores /\ "redis" \in Stores /\ w \in Stores
    BY WorkersAssumption DEF Stores
  <2>3. memory'[v][t] = 0
    BY <1>2, <2>1 DEF TypeOK
  <2>4. admitted'[v][t] = 0
    BY <1>2, <2>1, <2>2 DEF TypeOK
  <2>5. admitted'["redis"] = admitted["redis"]
    BY <2>1, <2>2 DEF TypeOK
  <2> QED BY <1>2, <2>1, <2>3, <2>4, <2>5
<1> QED BY <1>4, <1>5, <1>6

\* A request is asked at the present time, and keeps its own.
LEMMA ClocksKeeps ==
    ASSUME TypeOK, Clocks, NEW w \in Workers, Request(w) \/ Crashes(w)
    PROVE  Clocks'
<1> SUFFICES ASSUME NEW v \in Workers, worker'[v].pc # "idle"
             PROVE  /\ worker'[v].at <= now' /\ now' - worker'[v].at < Bucket
                    /\ timely' => worker'[v].at = now'
                    /\ kind' = "fixed" => worker'[v].pc # "mget"
  BY DEF Clocks
<1>1. UNCHANGED <<kind, timely, now>>
  BY WorkerStep
<1>2. CASE v # w
  <2>1. worker'[v] = worker[v]
    BY <1>2, WorkerStep
  <2> QED BY <1>1, <2>1 DEF Clocks
<1>3. CASE v = w /\ Asks(w)
  <2>1. worker'[w].at = now /\ worker'[w].pc = "incr"
    BY <1>3, WorkerStep
  <2> QED BY <1>1, <1>3, <2>1, LimitTyped
<1>4. CASE v = w /\ ~Asks(w)
  <2>1. /\ worker[w].pc # "idle" /\ worker'[w].at = worker[w].at
        /\ kind = "fixed" => worker'[w].pc = "expire"
    BY <1>4, WorkerStep
  <2> QED BY <1>1, <1>4, <2>1 DEF Clocks
<1> QED BY <1>2, <1>3, <1>4

\* What a store lets in keeps it within the limit.
LEMMA RemembersKeeps ==
    ASSUME TypeOK, Past, Clocks, Remembrance, NEW w \in Workers, Request(w) \/ Crashes(w)
    PROVE  Remembrance'
<1> SUFFICES ASSUME NEW v \in Workers
             PROVE  /\ \A t \in Time : admitted'[v][t] <= memory'[v][t]
                    /\ Sum(admitted'[v], Remembered) <= Limit
                    /\ timely => /\ \A t \in Time : memory'[v][t] <= asked'[t]
                                 /\ worker'[v].pc # "idle" => memory'[v][now] < asked'[now]
  <2>1. UNCHANGED <<kind, timely, now>>
    BY WorkerStep
  <2>2. Remembered' = Remembered /\ Limit' = Limit
    BY <2>1, RememberedSame
  <2> QED BY <2>1, <2>2 DEF Remembrance, RemembersWell, Sum, Numbered
<1>1. /\ \A t \in Time : admitted[v][t] <= memory[v][t]
      /\ Sum(admitted[v], Remembered) <= Limit
      /\ timely => /\ \A t \in Time : memory[v][t] <= asked[t]
                   /\ worker[v].pc # "idle" => memory[v][now] < asked[now]
  BY DEF Remembrance, RemembersWell
<1>2. /\ memory[v] \in [Time -> Nat] /\ admitted[v] \in [Time -> Nat]
      /\ asked \in [Time -> Nat] /\ now \in Time /\ Remembered \in SUBSET Time
  BY HistoryTyped
<1>3. CASE Asks(w)
  <2>1. asked' = [asked EXCEPT ![now] = @ + 1] /\ memory' = memory /\ admitted' = admitted
    BY <1>3 DEF Asks
  <2>2. \A t \in Time : asked[t] <= asked'[t] /\ asked'[now] = asked[now] + 1 /\ asked'[t] \in Nat
    BY <1>2, <2>1, OneMoreNow
  <2>3. timely => \A t \in Time : memory'[v][t] <= asked'[t]
    BY <1>1, <1>2, <2>1, <2>2
  <2>4. timely => memory'[v][now] < asked'[now]
    BY <1>1, <1>2, <2>1, <2>2
  <2> QED BY <1>1, <2>1, <2>3, <2>4
<1>4. CASE Request(w) /\ ~Asks(w) /\ (v # w \/ ~FallsBack(w))
  <2>1. asked' = asked /\ worker[w].pc # "idle"
    BY <1>4, HistoryStep
  <2>2. memory'[v] = memory[v] /\ admitted'[v] = admitted[v]
    <3>1. CASE FallsBack(w)
      BY <1>4, <3>1, FallsBackStep
    <3>2. CASE ~FallsBack(w)
      BY <1>4, <3>2, HistoryStep
    <3> QED BY <3>1, <3>2
  <2>3. worker'[v].pc # "idle" => worker[v].pc # "idle"
    BY <2>1, WorkerStep
  <2> QED BY <1>1, <2>1, <2>2, <2>3
<1>5. CASE Request(w) /\ ~Asks(w) /\ FallsBack(w) /\ v = w
  <2>1. asked' = asked /\ worker[w].pc # "idle"
    BY <1>5, HistoryStep
  <2>2. worker'[w].pc = "idle"
    BY <1>5, AnsweredTyped DEF FallsBack, Answered
  <2>3. memory'[w] = memory[w] \/ memory'[w] = [memory[w] EXCEPT ![now] = @ + 1]
    BY <1>5, FallsBackStep
  <2>4. /\ \A t \in Time : t # now => memory'[w][t] = memory[w][t]
        /\ memory'[w][now] <= memory[w][now] + 1
        /\ \A t \in Time : memory[w][t] <= memory'[w][t]
        /\ \A t \in Time : memory'[w][t] \in Nat
    BY <1>2, <1>5, <2>3, OneMoreNow
  <2>5. timely => \A t \in Time : memory'[w][t] <= asked'[t]
    <3> SUFFICES ASSUME timely, NEW t \in Time PROVE memory'[w][t] <= asked[t]
      BY <2>1
    <3>1. CASE t = now
      <4>1. memory[w][now] < asked[now] /\ memory[w][now] \in Nat /\ asked[now] \in Nat
        BY <1>1, <1>2, <1>5, <2>1
      <4>2. memory'[w][now] \in Nat
        BY <1>2, <2>4
      <4> QED BY <2>4, <3>1, <4>1, <4>2
    <3>2. CASE t # now
      BY <1>1, <1>5, <2>4, <3>2
    <3> QED BY <3>1, <3>2
  <2>6. CASE admitted'[w] = admitted[w]
    <3>1. \A t \in Time : admitted'[w][t] <= memory'[w][t]
      BY <1>1, <1>2, <1>5, <2>4, <2>6
    <3> QED BY <1>1, <1>5, <2>2, <2>5, <2>6, <3>1
  <2>7. CASE admitted'[w] # admitted[w]
    <3>1. /\ Sum(memory[w], Remembered) < Limit
          /\ admitted'[w] = [admitted[w] EXCEPT ![now] = @ + 1]
          /\ memory'[w] = [memory[w] EXCEPT ![now] = @ + 1]
      BY <1>5, <2>7, FallsBackStep
    <3>2. \A t \in Time : admitted'[w][t] <= memory'[w][t]
      <4> SUFFICES ASSUME NEW t \in Time PROVE admitted'[w][t] <= memory'[w][t]
        OBVIOUS
      <4>1. admitted[w][t] <= memory[w][t] /\ admitted[w][t] \in Nat /\ memory[w][t] \in Nat
        BY <1>1, <1>2, <1>5
      <4>2. CASE t = now
        <5>1. admitted'[w][t] = admitted[w][t] + 1 /\ memory'[w][t] = memory[w][t] + 1
          BY <1>2, <1>5, <3>1, <4>2
        <5> QED BY <4>1, <5>1
      <4>3. CASE t # now
        BY <1>2, <1>5, <3>1, <4>1, <4>3
      <4> QED BY <4>2, <4>3
    <3>3. Sum(admitted[w], Remembered) <= Sum(memory[w], Remembered)
      BY <1>1, <1>2, <1>5, SumCovered, TimesFinite
    <3>4. Sum(admitted[w], Remembered) \in Nat /\ Sum(memory[w], Remembered) \in Nat
      BY <1>2, <1>5, SumTyped, TimesFinite
    <3>5. \/ Sum(admitted'[w], Remembered) = Sum(admitted[w], Remembered) + 1
          \/ Sum(admitted'[w], Remembered) = Sum(admitted[w], Remembered)
      BY <1>2, <1>5, <3>1, SumNow
    <3>6. Sum(admitted'[w], Remembered) <= Limit
      BY <3>1, <3>3, <3>4, <3>5, LimitTyped
    <3> QED BY <1>5, <2>2, <2>5, <3>2, <3>6
  <2> QED BY <2>6, <2>7
<1>6. CASE Crashes(w)
  <2>1. /\ asked' = asked
        /\ memory' = [memory EXCEPT ![w] = [u \in Time |-> 0]]
        /\ admitted' = [admitted EXCEPT ![w] = [u \in Time |-> 0]]
        /\ worker' = [worker EXCEPT ![w] = [pc |-> "idle", at |-> 0]]
    BY <1>6 DEF Crashes, Answered
  <2>2. v \in Stores /\ w \in Stores
    BY DEF Stores
  <2>3. CASE v # w
    <3>1. memory'[v] = memory[v] /\ admitted'[v] = admitted[v] /\ worker'[v] = worker[v]
      BY <2>1, <2>2, <2>3, AnsweredTyped DEF TypeOK
    <3> QED BY <1>1, <2>1, <3>1
  <2>4. CASE v = w
    <3> DEFINE none == [u \in Time |-> 0]
    <3>1. memory'[v] = none /\ worker'[v].pc = "idle"
      BY <2>1, <2>4, AnsweredTyped DEF TypeOK
    <3>2. admitted'[v] = none
      BY <2>1, <2>2, <2>4 DEF TypeOK
    <3>3. none \in [Time -> Nat] /\ \A t \in Time : none[t] = 0
      OBVIOUS
    <3> HIDE DEF none
    <3>4. Sum(none, Remembered) = 0
      BY <1>2, <3>3, SumZero, TimesFinite
    <3>5. \A t \in Time : asked[t] >= 0
      BY <1>2
    <3> QED BY <2>1, <3>1, <3>2, <3>3, <3>4, <3>5, LimitTyped
  <2> QED BY <2>3, <2>4
<1> QED BY <1>3, <1>4, <1>5, <1>6

\* A tick finds no request under way that is to be timely, and forgets the oldest.
LEMMA MemoryTicks ==
    ASSUME TypeOK, MemoryInv, Ticks
    PROVE  MemoryInv'
<1>1. /\ now < MaxTime /\ now' = now + 1 /\ UNCHANGED <<kind, timely>>
      /\ UNCHANGED <<worker, memory, asked, admitted>>
      /\ \A w \in Workers : worker[w].pc # "idle" => ~timely /\ now' - worker[w].at < Bucket
  BY DEF Ticks, config
<1>2. now \in Nat /\ now + 1 \in Time
  BY <1>1, BoundsAssumption DEF TypeOK, Time
<1>3. Past'
  <2>1. \A t \in Time : t > now + 1 => t > now
    BY <1>2, TimesFinite
  <2> QED BY <1>1, <2>1 DEF MemoryInv, Past
<1>4. Clocks'
  <2> SUFFICES ASSUME NEW w \in Workers, worker[w].pc # "idle"
               PROVE  /\ worker[w].at <= now + 1 /\ now + 1 - worker[w].at < Bucket
                      /\ timely => worker[w].at = now + 1
                      /\ kind = "fixed" => worker[w].pc # "mget"
    BY <1>1 DEF Clocks
  <2>1. worker[w].at <= now /\ worker[w].at \in Nat
    BY TimesFinite DEF MemoryInv, Clocks, TypeOK
  <2> QED BY <1>1, <1>2, <2>1 DEF MemoryInv, Clocks
<1>5. Remembrance'
  <2> SUFFICES ASSUME NEW w \in Workers PROVE RemembersWell(w)'
    BY DEF Remembrance
  <2>1. RemembersWell(w)
    BY DEF MemoryInv, Remembrance
  <2>2. timely => worker[w].pc = "idle"
    BY <1>1
  <2>3. /\ memory[w] \in [Time -> Nat] /\ admitted[w] \in [Time -> Nat]
        /\ Remembered \in SUBSET Time
    BY HistoryTyped
  <2>4. Remembered' \subseteq Remembered \cup {now + 1} /\ Remembered' \in SUBSET Time
    <3>1. Remembered' \subseteq Remembered \cup {now + 1}
      BY <1>1, RememberedNext
    <3> QED BY <1>2, <2>3, <3>1
  <2>5. admitted[w][now + 1] = 0
    BY <1>2 DEF MemoryInv, Past
  <2>6. Sum(admitted[w], Remembered') <= Sum(admitted[w], Remembered)
    <3>1. \A t \in Remembered' : admitted[w][t] > 0 =>
             t \in Remembered /\ admitted[w][t] <= admitted[w][t]
      BY <2>3, <2>4, <2>5
    <3> DEFINE f == admitted[w]
               S == Remembered'
               R == Remembered
    <3>2. f \in [Time -> Nat] /\ S \in SUBSET Time /\ R \in SUBSET Time
      BY <2>3, <2>4
    <3>3. \A t \in S : f[t] > 0 => t \in R /\ f[t] <= f[t]
      BY <3>1
    <3> HIDE DEF f, S, R
    <3>4. Sum(f, S) <= Sum(f, R)
      BY <3>2, <3>3, SumCovered, TimesFinite
    <3> QED BY <3>4 DEF f, S, R
  <2>7. Sum(admitted[w], Remembered) <= Limit /\ Sum(admitted[w], Remembered) \in Nat
    BY <2>1, <2>3, SumTyped, TimesFinite DEF RemembersWell
  <2>8. Sum(admitted[w], Remembered') \in Nat
    <3> DEFINE S == Remembered'
    <3>1. S \in SUBSET Time
      BY <2>4
    <3> HIDE DEF S
    <3>2. Sum(admitted[w], S) \in Nat
      BY <2>3, <3>1, SumTyped, TimesFinite
    <3> QED BY <3>2 DEF S
  <2>9. Sum(admitted[w], Remembered') <= Limit
    BY <2>6, <2>7, <2>8, LimitTyped
  <2>10. Sum(admitted[w], Remembered)' = Sum(admitted[w], Remembered') /\ Limit' = Limit
    BY <1>1 DEF Sum, Numbered, Limit
  <2>11. (\A t \in Time : admitted[w][t] <= memory[w][t])'
    BY <1>1, <2>1 DEF RemembersWell
  <2>12. Sum(admitted[w], Remembered)' <= Limit'
    BY <2>9, <2>10
  <2>13. (timely => /\ \A t \in Time : memory[w][t] <= asked[t]
                    /\ worker[w].pc # "idle" => memory[w][now] < asked[now])'
    BY <1>1, <2>1, <2>2 DEF RemembersWell
  <2> QED BY <2>11, <2>12, <2>13 DEF RemembersWell
<1> QED BY <1>3, <1>4, <1>5 DEF MemoryInv

\* At first nothing is remembered.
LEMMA MemoryInit ==
    ASSUME Init, TypeOK
    PROVE  MemoryInv
<1>1. /\ worker = [w \in Workers |-> [pc |-> "idle", at |-> 0]]
      /\ memory = [w \in Workers |-> [t \in Time |-> 0]]
      /\ asked = [t \in Time |-> 0]
      /\ admitted = [s \in Stores |-> [t \in Time |-> 0]]
  BY DEF Init
<1>2. /\ \A t \in Time : asked[t] = 0 /\ admitted["redis"][t] = 0
      /\ \A w \in Workers : \A t \in Time : memory[w][t] = 0 /\ admitted[w][t] = 0
      /\ \A w \in Workers : worker[w].pc = "idle"
  BY <1>1 DEF Stores
<1>3. Past /\ Clocks
  BY <1>2 DEF Past, Clocks
<1>4. Remembrance
  <2> SUFFICES ASSUME NEW w \in Workers PROVE RemembersWell(w)
    BY DEF Remembrance
  <2>1. admitted[w] \in [Time -> Nat] /\ Remembered \in SUBSET Time
    BY HistoryTyped
  <2>2. Sum(admitted[w], Remembered) = 0
    BY <1>2, <2>1, SumZero, TimesFinite
  <2> QED BY <1>2, <2>2, LimitTyped DEF RemembersWell
<1> QED BY <1>3, <1>4 DEF MemoryInv

\* The layer of the memories is inductive, whatever Redis does.
LEMMA MemoryNext ==
    ASSUME TypeOK, MemoryInv, [Next]_vars
    PROVE  MemoryInv'
<1>1. ASSUME NEW w \in Workers, Request(w) \/ Crashes(w) PROVE MemoryInv'
  BY <1>1, PastKeeps, ClocksKeeps, RemembersKeeps DEF MemoryInv
<1>2. CASE Ticks
  BY <1>2, MemoryTicks
<1>3. CASE UNCHANGED vars
  <2>1. UNCHANGED <<kind, timely, now, count, left, worker, memory, asked, admitted, crashes, lost>>
    BY <1>3 DEF vars
  <2>2. Past' /\ Clocks'
    BY <2>1 DEF MemoryInv, Past, Clocks
  <2>3. Remembrance'
    <3>1. Remembered' = Remembered /\ Limit' = Limit
      BY <2>1, RememberedSame
    <3> QED BY <2>1, <3>1 DEF MemoryInv, Remembrance, RemembersWell, Sum, Numbered
  <2> QED BY <2>2, <2>3 DEF MemoryInv
<1> QED BY <1>1, <1>2, <1>3 DEF Next

-----------------------------------------------------------------------------
(* The counter of "fixed" *)

\* The death of a worker, as its failures, leaves what Redis let in.
LEMMA RedisKeepsAdmissions ==
    ASSUME TypeOK, NEW w \in Workers, FallsBack(w) \/ Crashes(w)
    PROVE  admitted'["redis"] = admitted["redis"]
<1>1. CASE FallsBack(w)
  BY <1>1, FallsBackStep
<1>2. CASE Crashes(w)
  <2>1. admitted' = [admitted EXCEPT ![w] = [t \in Time |-> 0]]
    BY <1>2 DEF Crashes
  <2>2. w # "redis" /\ "redis" \in Stores
    BY WorkersAssumption DEF Stores
  <2> QED BY <2>1, <2>2 DEF TypeOK
<1> QED BY <1>1, <1>2

\* What a request does under "fixed": it is asked, begins the counter, is counted,
\* sets the expiry or is given up.
FixedBegins(w) ==
    /\ worker[w].pc = "incr" /\ worker'[w].pc = "expire"
    /\ count[0] = 0 /\ count'[0] = 1 /\ left' = left /\ lost' = lost
    /\ admitted' = admitted

FixedCounted(w) ==
    /\ worker[w].pc = "incr" /\ worker'[w].pc = "idle"
    /\ count[0] > 0 /\ count'[0] = count[0] + 1 /\ left' = left /\ lost' = lost
    /\ \/ count'[0] > Limit /\ admitted' = admitted
       \/ /\ ~(count'[0] > Limit)
          /\ admitted'["redis"] = [admitted["redis"] EXCEPT ![now] = @ + 1]

FixedExpires(w) ==
    /\ worker[w].pc = "expire" /\ worker'[w].pc = "idle"
    /\ count' = count /\ left[0] = 0 /\ left'[0] = Window /\ lost' = lost
    /\ admitted'["redis"] = [admitted["redis"] EXCEPT ![now] = @ + 1]

FixedGivesUp(w) ==
    /\ worker'[w].pc = "idle" /\ (lost => lost')
    /\ admitted'["redis"] = admitted["redis"]
    /\ \/ count' = count /\ left' = left /\ (worker[w].pc = "expire" => lost')
       \/ worker[w].pc = "incr" /\ count'[0] = count[0] + 1 /\ left' = left
       \/ worker[w].pc = "expire" /\ count' = count /\ left[0] = 0 /\ left'[0] = Window

\* Those are all the steps of a worker under "fixed".
LEMMA FixedStep ==
    ASSUME IInv, MemoryInv, kind = "fixed", NEW w \in Workers, Request(w) \/ Crashes(w)
    PROVE  \/ Asks(w)
           \/ /\ asked' = asked
              /\ FixedBegins(w) \/ FixedCounted(w) \/ FixedExpires(w) \/ FixedGivesUp(w)
<1>1. TypeOK /\ CounterOf(w) = 0 /\ 0 \in Counters /\ Lifetime = Window
  BY CounterTyped DEF IInv, CounterOf, Lifetime
<1>2. count \in [Counters -> Nat] /\ count[0] \in Nat /\ left[0] \in Nat /\ Limit \in Nat \ {0}
  BY <1>1, RedisTyped, LimitTyped DEF TypeOK
<1>3. left \in [Counters -> 0 .. Window + Bucket]
  BY <1>1 DEF TypeOK
<1>4. worker[w].pc # "mget"
  BY DEF MemoryInv, Clocks
<1>5. CASE Increments(w)
  <2>1. count'[0] = count[0] + 1
    BY <1>1, <1>5, IncrementedTyped DEF Increments
  <2>2. worker[w].pc = "incr" /\ left' = left /\ lost' = lost /\ asked' = asked
    BY <1>5 DEF Increments
  <2>3. CASE count[0] = 0
    <3>1. Goes(w, "expire") /\ admitted' = admitted
      BY <1>1, <1>5, <2>3 DEF Increments
    <3>2. worker'[w].pc = "expire"
      BY <1>1, <3>1, GoesTyped
    <3> QED BY <2>1, <2>2, <2>3, <3>1, <3>2 DEF FixedBegins
  <2>4. CASE count[0] # 0
    <3>1. count[0] > 0 /\ Decides(w, count'[0])
      BY <1>1, <1>2, <1>5, <2>4 DEF Increments
    <3>2. worker'[w].pc = "idle"
      BY <1>1, <3>1, AnsweredTyped DEF Decides, Answered
    <3>3. \/ count'[0] > Limit /\ admitted' = admitted
          \/ /\ ~(count'[0] > Limit)
             /\ admitted'["redis"] = [admitted["redis"] EXCEPT ![now] = @ + 1]
      BY <1>1, <3>1, DecidesStep
    <3>4. FixedCounted(w)
      BY <2>1, <2>2, <3>1, <3>2, <3>3 DEF FixedCounted
    <3> QED BY <2>2, <3>4
  <2> QED BY <2>3, <2>4
<1>6. CASE Expires(w)
  <2>1. worker[w].pc = "expire" /\ asked' = asked /\ count' = count /\ lost' = lost
    BY <1>6 DEF Expires, redis
  <2>2. Decides(w, 1) /\ left' = [left EXCEPT ![0] = Window]
    BY <1>1, <1>6 DEF Expires
  <2>3. left[0] = 0 /\ left'[0] = Window
    BY <1>1, <1>3, <2>1, <2>2 DEF IInv, ExpiryDue
  <2>4. worker'[w].pc = "idle"
    BY <1>1, <2>2, AnsweredTyped DEF Decides, Answered
  <2>5. ~(1 > Limit)
    BY <1>2
  <2>6. admitted'["redis"] = [admitted["redis"] EXCEPT ![now] = @ + 1]
    BY <1>1, <2>2, <2>5, DecidesStep
  <2> QED BY <2>1, <2>3, <2>4, <2>6 DEF FixedExpires
<1>7. CASE FailsToIncrement(w)
  <2>1. FallsBack(w) /\ worker[w].pc = "incr" /\ asked' = asked /\ left' = left
    BY <1>7 DEF FailsToIncrement
  <2>2. worker'[w].pc = "idle" /\ admitted'["redis"] = admitted["redis"]
    BY <1>1, <2>1, AnsweredTyped, RedisKeepsAdmissions DEF FallsBack, Answered
  <2>3. CASE UNCHANGED <<count, lost>>
    BY <2>1, <2>2, <2>3 DEF FixedGivesUp
  <2>4. CASE Incremented(w) /\ lost' = (lost \/ count[CounterOf(w)] = 0)
    <3>1. count'[0] = count[0] + 1
      BY <1>1, <2>4, IncrementedTyped
    <3> QED BY <2>1, <2>2, <2>4, <3>1 DEF FixedGivesUp
  <2> QED BY <1>7, <2>3, <2>4 DEF FailsToIncrement
<1>8. CASE FailsToExpire(w)
  <2>1. FallsBack(w) /\ worker[w].pc = "expire" /\ asked' = asked /\ count' = count
    BY <1>8 DEF FailsToExpire
  <2>2. worker'[w].pc = "idle" /\ admitted'["redis"] = admitted["redis"]
    BY <1>1, <2>1, AnsweredTyped, RedisKeepsAdmissions DEF FallsBack, Answered
  <2>3. left[0] = 0
    BY <1>1, <2>1 DEF IInv, ExpiryDue
  <2>4. CASE left' = [left EXCEPT ![CounterOf(w)] = Lifetime] /\ UNCHANGED lost
    <3>1. left'[0] = Window
      BY <1>1, <1>3, <2>4
    <3> QED BY <2>1, <2>2, <2>3, <2>4, <3>1 DEF FixedGivesUp
  <2>5. CASE UNCHANGED left /\ lost' = TRUE
    BY <2>1, <2>2, <2>5 DEF FixedGivesUp
  <2> QED BY <1>8, <2>4, <2>5 DEF FailsToExpire
<1>9. CASE Crashes(w)
  <2>1. /\ count' = count /\ left' = left /\ asked' = asked
        /\ lost' = (lost \/ worker[w].pc = "expire")
    BY <1>9 DEF Crashes, redis
  <2>2. worker'[w].pc = "idle" /\ admitted'["redis"] = admitted["redis"]
    BY <1>1, <1>9, AnsweredTyped, RedisKeepsAdmissions DEF Crashes, Answered
  <2> QED BY <2>1, <2>2 DEF FixedGivesUp
<1> QED BY <1>4, <1>5, <1>6, <1>7, <1>8, <1>9 DEF Request, Counts, FailsToCount

\* Workers that ask, one more or one less.
LEMMA AskingStep ==
    ASSUME TypeOK, NEW w \in Workers, \A v \in Workers \ {w} : worker'[v] = worker[v]
    PROVE  /\ Cardinality(Asking) \in Nat /\ Cardinality(Asking') \in Nat
           /\ worker[w].pc # "incr" /\ worker'[w].pc = "incr"
                => Cardinality(Asking') = Cardinality(Asking) + 1
           /\ worker[w].pc = "incr" /\ worker'[w].pc # "incr"
                => Cardinality(Asking') = Cardinality(Asking) - 1
           /\ worker[w].pc # "incr" /\ worker'[w].pc # "incr" => Asking' = Asking
<1>1. Asking \in SUBSET Workers /\ Asking' \in SUBSET Workers /\ IsFiniteSet(Workers)
  BY TimesFinite DEF Asking
<1>2. IsFiniteSet(Asking) /\ IsFiniteSet(Asking')
  BY <1>1, FS_Subset
<1>3. Cardinality(Asking) \in Nat /\ Cardinality(Asking') \in Nat
  BY <1>2, FS_CardinalityType
<1>4. ASSUME worker[w].pc # "incr", worker'[w].pc = "incr"
      PROVE  Cardinality(Asking') = Cardinality(Asking) + 1
  <2>1. Asking' = Asking \cup {w} /\ w \notin Asking
    BY <1>4 DEF Asking
  <2> QED BY <1>2, <2>1, FS_AddElement
<1>5. ASSUME worker[w].pc = "incr", worker'[w].pc # "incr"
      PROVE  Cardinality(Asking') = Cardinality(Asking) - 1
  <2>1. Asking' = Asking \ {w} /\ w \in Asking
    BY <1>5 DEF Asking
  <2> QED BY <1>2, <2>1, FS_RemoveElement
<1>6. ASSUME worker[w].pc # "incr", worker'[w].pc # "incr" PROVE Asking' = Asking
  BY <1>6 DEF Asking
<1> QED BY <1>3, <1>4, <1>5, <1>6

\* A period is of the model's times.
LEMMA BetweenTyped ==
    ASSUME NEW i, NEW j
    PROVE  Between(i, j) \in SUBSET Time
BY DEF Between

\* The counter counts one more for one that was asked and waits no longer.
LEMMA FixedAskedKeeps ==
    ASSUME FixedInv, NEW w \in Workers, Request(w) \/ Crashes(w)
    PROVE  FixedAsked'
<1>1. TypeOK /\ UNCHANGED <<kind, timely, now>> /\ \A v \in Workers \ {w} : worker'[v] = worker[v]
  BY WorkerStep DEF FixedInv, IInv
<1> SUFFICES ASSUME kind = "fixed"
             PROVE  /\ left'[0] <= Window
                    /\ timely /\ ~lost' =>
                         count'[0] + Cardinality(Asking') <= Sum(asked', Between(Start', now))
  <2>1. Window' = Window
    BY <1>1 DEF Window
  <2>2. Sum(asked, Between(Start, now))' = Sum(asked', Between(Start', now))
    BY <1>1 DEF Sum, Numbered, Between
  <2>3. Cardinality(Asking)' = Cardinality(Asking')
    BY DEF Asking
  <2> QED BY <1>1, <2>1, <2>2, <2>3 DEF FixedAsked
<1>2. /\ left[0] <= Window
      /\ timely /\ ~lost => count[0] + Cardinality(Asking) <= Sum(asked, Between(Start, now))
  BY DEF FixedInv, FixedAsked
<1>3. /\ Window \in Nat \ {0} /\ now \in Nat /\ now \in Time /\ Limit \in Nat \ {0}
      /\ asked \in [Time -> Nat] /\ count[0] \in Nat /\ left[0] \in Nat
  <2>1. 0 \in Counters
    BY BoundsAssumption DEF Counters, Time
  <2> QED BY <1>1, <2>1, LimitTyped, HistoryTyped, RedisTyped
<1>4. /\ Cardinality(Asking) \in Nat /\ Cardinality(Asking') \in Nat
      /\ worker[w].pc # "incr" /\ worker'[w].pc = "incr"
           => Cardinality(Asking') = Cardinality(Asking) + 1
      /\ worker[w].pc = "incr" /\ worker'[w].pc # "incr"
           => Cardinality(Asking') = Cardinality(Asking) - 1
      /\ worker[w].pc # "incr" /\ worker'[w].pc # "incr" => Asking' = Asking
  BY <1>1, AskingStep
<1>5. /\ Start \in Int /\ Start <= now
      /\ Sum(asked, Between(Start, now)) \in Nat
  <2>1. Start \in Int /\ Start <= now
    BY <1>2, <1>3 DEF Start
  <2> QED BY <1>3, <2>1, SumTyped, BetweenTyped, TimesFinite
<1>6. left' = left => Start' = Start
  BY <1>1 DEF Start, Window
<1>7. CASE Asks(w)
  <2>1. /\ asked' = [asked EXCEPT ![now] = @ + 1]
        /\ UNCHANGED <<count, left, lost>> /\ worker[w].pc = "idle" /\ worker'[w].pc = "incr"
    BY <1>1, <1>7 DEF Asks, redis, TypeOK
  <2>2. now \in Between(Start, now)
    BY <1>3, <1>5 DEF Between
  <2>3. Sum(asked', Between(Start, now)) = Sum(asked, Between(Start, now)) + 1
    BY <1>1, <1>3, <2>1, <2>2, SumNow, BetweenTyped
  <2>4. Cardinality(Asking') = Cardinality(Asking) + 1
    BY <1>4, <2>1
  <2> QED BY <1>2, <1>3, <1>4, <1>5, <1>6, <2>1, <2>3, <2>4
<1>8. ASSUME asked' = asked, left' = left, worker[w].pc = "incr", worker'[w].pc # "incr",
             count'[0] = count[0] + 1 \/ count' = count, lost => lost'
      PROVE  /\ left'[0] <= Window
             /\ timely /\ ~lost' =>
                  count'[0] + Cardinality(Asking') <= Sum(asked', Between(Start', now))
  <2>1. Cardinality(Asking') = Cardinality(Asking) - 1
    BY <1>4, <1>8
  <2> QED BY <1>2, <1>3, <1>4, <1>5, <1>6, <1>8, <2>1
<1>9. ASSUME asked' = asked, left[0] = 0, left'[0] = Window, count' = count,
             worker[w].pc = "expire", worker'[w].pc = "idle", lost => lost'
      PROVE  /\ left'[0] <= Window
             /\ timely /\ ~lost' =>
                  count'[0] + Cardinality(Asking') <= Sum(asked', Between(Start', now))
  <2>1. Asking' = Asking
    BY <1>4, <1>9
  <2>2. Start = now /\ Start' = now
    BY <1>1, <1>3, <1>9 DEF Start, Window
  <2> QED BY <1>2, <1>3, <1>9, <2>1, <2>2
<1>10. ASSUME asked' = asked, left' = left, count' = count,
              worker[w].pc # "incr", worker'[w].pc = "idle", lost => lost'
      PROVE  /\ left'[0] <= Window
             /\ timely /\ ~lost' =>
                  count'[0] + Cardinality(Asking') <= Sum(asked', Between(Start', now))
  <2>1. Asking' = Asking
    BY <1>4, <1>10
  <2> QED BY <1>2, <1>6, <1>10, <2>1
<1>11. CASE asked' = asked /\ (FixedBegins(w) \/ FixedCounted(w))
  BY <1>3, <1>8, <1>11 DEF FixedBegins, FixedCounted
<1>12. CASE asked' = asked /\ FixedExpires(w)
  BY <1>9, <1>12 DEF FixedExpires
<1>13. CASE asked' = asked /\ FixedGivesUp(w)
  <2>1. /\ worker'[w].pc = "idle" /\ (lost => lost')
        /\ \/ count' = count /\ left' = left
           \/ worker[w].pc = "incr" /\ count'[0] = count[0] + 1 /\ left' = left
           \/ worker[w].pc = "expire" /\ count' = count /\ left[0] = 0 /\ left'[0] = Window
    BY <1>13 DEF FixedGivesUp
  <2>2. CASE worker[w].pc = "incr" /\ left' = left
    BY <1>8, <1>13, <2>1, <2>2
  <2>3. CASE worker[w].pc # "incr" /\ left' = left /\ count' = count
    BY <1>10, <1>13, <2>1, <2>3
  <2>4. CASE worker[w].pc = "expire" /\ count' = count /\ left[0] = 0 /\ left'[0] = Window
    BY <1>9, <1>13, <2>1, <2>4
  <2> QED BY <2>1, <2>2, <2>3, <2>4
<1>14. Asks(w) \/ (asked' = asked /\ (FixedBegins(w) \/ FixedCounted(w) \/ FixedExpires(w) \/ FixedGivesUp(w)))
  BY FixedStep DEF FixedInv
<1> QED BY <1>7, <1>11, <1>12, <1>13, <1>14

\* When a tick ends, no request is under way: what is counted has its expiry.
LEMMA FixedAskedTicks ==
    ASSUME FixedInv, Ticks
    PROVE  FixedAsked'
<1>1. TypeOK /\ 0 \in Counters
  BY BoundsAssumption DEF FixedInv, IInv, Counters, Time
<1>2. /\ now' = now + 1 /\ UNCHANGED <<kind, timely, worker, asked, lost>>
      /\ left' = [c \in Counters |-> IF left[c] = 0 THEN 0 ELSE left[c] - 1]
      /\ count' = [c \in Counters |-> IF left[c] = 1 THEN 0 ELSE count[c]]
      /\ \A w \in Workers : worker[w].pc # "idle" => ~timely
  BY DEF Ticks, config
<1>3. /\ Window \in Nat \ {0} /\ now \in Nat /\ now \in Time
      /\ asked \in [Time -> Nat] /\ count[0] \in Nat /\ left[0] \in Nat
  BY <1>1, LimitTyped, HistoryTyped, RedisTyped
<1>4. /\ left'[0] = IF left[0] = 0 THEN 0 ELSE left[0] - 1
      /\ count'[0] = IF left[0] = 1 THEN 0 ELSE count[0]
  BY <1>1, <1>2
<1> SUFFICES ASSUME kind = "fixed"
             PROVE  /\ left'[0] <= Window
                    /\ timely /\ ~lost =>
                         count'[0] + Cardinality(Asking) <= Sum(asked, Between(Start', now + 1))
  <2>1. Window' = Window /\ Asking' = Asking
    BY <1>2 DEF Window, Asking
  <2>2. Sum(asked, Between(Start, now))' = Sum(asked, Between(Start', now + 1))
    BY <1>2 DEF Sum, Numbered, Between
  <2> QED BY <1>2, <2>1, <2>2 DEF FixedAsked
<1>5. /\ left[0] <= Window
      /\ timely /\ ~lost => count[0] + Cardinality(Asking) <= Sum(asked, Between(Start, now))
  BY DEF FixedInv, FixedAsked
<1>6. left'[0] <= Window
  BY <1>3, <1>4, <1>5
<1>7. ASSUME timely, ~lost
      PROVE  count'[0] + Cardinality(Asking) <= Sum(asked, Between(Start', now + 1))
  <2>1. Asking = {}
    BY <1>2, <1>7 DEF Asking
  <2>2. Cardinality(Asking) = 0
    BY <2>1, FS_EmptySet
  <2>3. count[0] > 0 => left[0] > 0
    <3>1. ~ \E w \in Workers : worker[w].pc = "expire"
      BY <1>2, <1>7
    <3> QED BY <1>1, <1>3, <1>7, <3>1 DEF FixedInv, IInv, CountersExpire
  <2>4. Sum(asked, Between(Start', now + 1)) \in Nat
    BY <1>3, SumTyped, BetweenTyped, TimesFinite
  <2>5. CASE left[0] > 1
    <3>1. Start' = Start
      BY <1>2, <1>3, <1>4, <2>5 DEF Start, Window
    <3>2. Start \in Int
      BY <1>3 DEF Start
    <3>3. \A t \in Between(Start, now) : t \in Between(Start, now + 1)
      BY <1>3, <3>2, TimesFinite DEF Between
    <3>4. Sum(asked, Between(Start, now)) <= Sum(asked, Between(Start, now + 1))
      <4>1. \A t \in Between(Start, now) : asked[t] > 0 =>
               t \in Between(Start, now + 1) /\ asked[t] <= asked[t]
        <5>1. \A t \in Time : asked[t] <= asked[t]
          BY <1>3
        <5> QED BY <3>3, <5>1, BetweenTyped
      <4> QED BY <1>3, <4>1, SumCovered, BetweenTyped, TimesFinite
    <3>5. Sum(asked, Between(Start, now)) \in Nat
      BY <1>3, SumTyped, BetweenTyped, TimesFinite
    <3>6. count'[0] = count[0]
      BY <1>4, <2>5
    <3> QED BY <1>3, <1>5, <1>7, <2>2, <2>4, <3>1, <3>4, <3>5, <3>6
  <2>6. CASE ~(left[0] > 1)
    <3>1. count'[0] = 0
      BY <1>3, <1>4, <2>3, <2>6
    <3> QED BY <2>2, <2>4, <3>1
  <2> QED BY <2>5, <2>6
<1> QED BY <1>6, <1>7

\* The first request that is admitted begins a life, and the counter, which is
\* read back with the increment, closes it at the limit.
LEMMA FixedBoundKeeps ==
    ASSUME FixedInv, FixedBound, NEW w \in Workers, Request(w) \/ Crashes(w)
    PROVE  FixedBound'
<1>1. TypeOK /\ UNCHANGED <<kind, timely, now>> /\ \A v \in Workers \ {w} : worker'[v] = worker[v]
  BY WorkerStep DEF FixedInv, IInv
<1> DEFINE adm == admitted["redis"]
           adn == admitted'["redis"]
           due == \E v \in Workers : worker'[v].pc = "expire"
           life(i) ==
              /\ Sum(adn, Between(i - Window + 1, i - 1)) <= Limit - 1
              /\ Sum(adn, Between(i, now)) <= count'[0]
              /\ Sum(adn, Between(i, now)) <= Limit
              /\ due => /\ Sum(adn, Between(i, now)) <= count'[0] - 1
                        /\ Sum(adn, Between(i, now)) <= Limit - 1
              /\ left'[0] > 0 =>
                    /\ Sum(adn, Between(now + left'[0] - Window + 1, now)) <= count'[0] - 1
                    /\ Sum(adn, Between(now + left'[0] - Window + 1, now)) <= Limit - 1
<1>2. SUFFICES ASSUME kind = "fixed"
               PROVE  /\ count'[0] = 0 => /\ Sum(adn, Between(now - Window + 1, now)) <= Limit - 1
                                          /\ adn[now] = 0
                      /\ count'[0] > 0 => \E i \in 0 .. now : life(i)
  <2>1. Window' = Window /\ Limit' = Limit
    BY <1>1 DEF Window, Limit
  <2>2. ASSUME NEW i \in Int, life(i)
        PROVE  FixedLife(i)'
    BY <1>1, <2>1, <2>2 DEF FixedLife, Sum, Numbered, Between
  <2>3. Sum(admitted["redis"], Between(now - Window + 1, now))'
          = Sum(adn, Between(now - Window + 1, now))
    BY <1>1, <2>1 DEF Sum, Numbered, Between
  <2>4. 0 .. now \subseteq Int
    OBVIOUS
  <2>5. ASSUME \E i \in 0 .. now : life(i)
        PROVE  \E i \in 0 .. now : FixedLife(i)'
    <3>1. PICK i \in 0 .. now : life(i)
      BY <2>5
    <3> HIDE DEF life
    <3>2. FixedLife(i)'
      BY <2>2, <2>4, <3>1
    <3> QED BY <3>2
  <2> HIDE DEF life
  <2> QED BY <1>1, <2>1, <2>3, <2>5 DEF FixedBound
<1>3. /\ Window \in Nat \ {0} /\ now \in Nat /\ now \in Time /\ Limit \in Nat \ {0}
      /\ adm \in [Time -> Nat] /\ count[0] \in Nat /\ left[0] \in Nat
      /\ (left[0] > 0 => count[0] > 0)
  <2>1. 0 \in Counters
    BY BoundsAssumption DEF Counters, Time
  <2> QED BY <1>1, <2>1, LimitTyped, HistoryTyped, RedisTyped
<1>4. \A i, j \in Int : Sum(adm, Between(i, j)) \in Nat
  BY <1>3, SumTyped, BetweenTyped, TimesFinite
<1>5. /\ count[0] = 0 => Sum(adm, Between(now - Window + 1, now)) <= Limit - 1 /\ adm[now] = 0
      /\ count[0] > 0 => \E i \in 0 .. now : FixedLife(i)
  BY <1>2 DEF FixedBound
\* Nothing is let in, and the counter goes on, or there is none.
<1>6. ASSUME adn = adm, count' = count, left' = left,
             due => \E v \in Workers : worker[v].pc = "expire"
      PROVE  /\ count'[0] = 0 => /\ Sum(adn, Between(now - Window + 1, now)) <= Limit - 1
                                 /\ adn[now] = 0
             /\ count'[0] > 0 => \E i \in 0 .. now : life(i)
  <2>1. \A i \in 0 .. now : FixedLife(i) => life(i)
    BY <1>6 DEF FixedLife
  <2> HIDE DEF life
  <2> QED BY <1>5, <1>6, <2>1
\* A life begins.
<1>7. ASSUME adn = adm, count[0] = 0, count'[0] = 1, left' = left
      PROVE  count'[0] > 0 /\ \E i \in 0 .. now : life(i)
  <2>1. Sum(adm, Between(now, now)) = 0
    <3>1. \A t \in Between(now, now) : adm[t] = 0
      BY <1>3, <1>5, <1>7, TimesFinite DEF Between
    <3> QED BY <1>3, <3>1, SumZero, BetweenTyped, TimesFinite
  <2>2. Sum(adm, Between(now - Window + 1, now - 1)) <= Sum(adm, Between(now - Window + 1, now))
    <3>1. \A t \in Between(now - Window + 1, now - 1) : t \in Between(now - Window + 1, now)
      <4> SUFFICES ASSUME NEW t \in Time, t <= now - 1 PROVE t <= now
        BY DEF Between
      <4>1. t \in Nat
        BY TimesFinite
      <4> QED BY <1>3, <4>1
    <3>2. \A t \in Time : adm[t] <= adm[t]
      BY <1>3
    <3> HIDE DEF adm
    <3> QED BY <1>3, <3>1, <3>2, SumCovered, BetweenTyped, TimesFinite
  <2>3. Sum(adm, Between(now - Window + 1, now - 1)) <= Limit - 1
    <3>1. now - Window + 1 \in Int /\ now - 1 \in Int /\ now \in Int
      BY <1>3
    <3>2. /\ Sum(adm, Between(now - Window + 1, now - 1)) \in Nat
          /\ Sum(adm, Between(now - Window + 1, now)) \in Nat
      BY <1>4, <3>1
    <3> QED BY <1>3, <1>5, <1>7, <2>2, <3>2
  <2>4. life(now)
    BY <1>3, <1>7, <2>1, <2>3
  <2> HIDE DEF life
  <2> QED BY <1>3, <1>7, <2>4
\* One more is counted, and let in below the limit.
<1>8. ASSUME count[0] > 0, count'[0] = count[0] + 1, left' = left,
             due => \E v \in Workers : worker[v].pc = "expire",
             \/ adn = adm
             \/ count'[0] <= Limit /\ adn = [adm EXCEPT ![now] = @ + 1]
      PROVE  count'[0] > 0 /\ \E i \in 0 .. now : life(i)
  <2>1. PICK i \in 0 .. now : FixedLife(i)
    BY <1>5, <1>8
  <2> DEFINE before == Between(i - Window + 1, i - 1)
             this == Between(i, now)
             set == Between(now + left[0] - Window + 1, now)
  <2>2. /\ Sum(adm, before) \in Nat /\ Sum(adm, this) \in Nat /\ Sum(adm, set) \in Nat
        /\ before \in SUBSET Time /\ this \in SUBSET Time /\ set \in SUBSET Time
        /\ now \notin before
    <3>1. i \in Int /\ now \in Int /\ i - Window + 1 \in Int /\ i - 1 \in Int /\ ~(now <= i - 1)
          /\ now + left[0] - Window + 1 \in Int
      BY <1>3
    <3>2. now \notin before
      BY <3>1 DEF Between
    <3> QED BY <1>4, <3>1, <3>2, BetweenTyped
  <2>3. /\ Sum(adm, before) <= Limit - 1
        /\ Sum(adm, this) <= count[0] /\ Sum(adm, this) <= Limit
        /\ (\E v \in Workers : worker[v].pc = "expire") => Sum(adm, this) <= count[0] - 1
        /\ (\E v \in Workers : worker[v].pc = "expire") => Sum(adm, this) <= Limit - 1
        /\ left[0] > 0 => Sum(adm, set) <= count[0] - 1
        /\ left[0] > 0 => Sum(adm, set) <= Limit - 1
    BY <2>1 DEF FixedLife
  <2> HIDE DEF before, this, set, adm, adn, due
  <2>4. CASE adn = adm
    <3>1. /\ Sum(adn, before) <= Limit - 1
          /\ Sum(adn, this) <= count'[0] /\ Sum(adn, this) <= Limit
          /\ due => Sum(adn, this) <= count'[0] - 1
          /\ due => Sum(adn, this) <= Limit - 1
          /\ left'[0] > 0 => Sum(adn, set) <= count'[0] - 1
          /\ left'[0] > 0 => Sum(adn, set) <= Limit - 1
      BY <1>3, <1>8, <2>2, <2>3, <2>4
    <3>2. life(i)
      BY <1>8, <3>1 DEF before, this, set
    <3> HIDE DEF life
    <3> QED BY <1>3, <1>8, <3>2
  <2>5. CASE count'[0] <= Limit /\ adn = [adm EXCEPT ![now] = @ + 1]
    <3>1. Sum(adn, before) = Sum(adm, before)
      BY <1>1, <1>3, <2>2, <2>5, SumNow
    <3>2. Sum(adn, this) = Sum(adm, this) + 1 \/ Sum(adn, this) = Sum(adm, this)
      BY <1>1, <1>3, <2>2, <2>5, SumNow
    <3>3. Sum(adn, set) = Sum(adm, set) + 1 \/ Sum(adn, set) = Sum(adm, set)
      BY <1>1, <1>3, <2>2, <2>5, SumNow
    <3>4. count[0] + 1 <= Limit
      BY <1>8, <2>5
    <3>5. /\ Sum(adn, this) <= count'[0] /\ Sum(adn, this) <= Limit
          /\ due => Sum(adn, this) <= count'[0] - 1
          /\ due => Sum(adn, this) <= Limit - 1
      BY <1>3, <1>8, <2>2, <2>3, <3>2, <3>4
    <3>6. /\ left'[0] > 0 => Sum(adn, set) <= count'[0] - 1
          /\ left'[0] > 0 => Sum(adn, set) <= Limit - 1
      BY <1>3, <1>8, <2>2, <2>3, <3>3, <3>4
    <3>7. life(i)
      BY <1>8, <2>3, <3>1, <3>5, <3>6 DEF before, this, set
    <3> HIDE DEF life
    <3> QED BY <1>3, <1>8, <3>7
  <2> QED BY <1>8, <2>4, <2>5
\* The expiry is set, by the one that was to set it.
<1>9. ASSUME worker[w].pc = "expire", worker'[w].pc = "idle", count' = count,
             left'[0] = Window,
             adn = adm \/ adn = [adm EXCEPT ![now] = @ + 1]
      PROVE  count'[0] > 0 /\ \E i \in 0 .. now : life(i)
  <2>1. count[0] > 0
    BY <1>2, <1>9 DEF FixedInv, IInv, ExpiryDue, CounterOf
  <2>2. ~due
    <3>1. \A v \in Workers : worker[v].pc = "expire" => v = w
      BY <1>2, <1>9 DEF FixedInv, IInv, ExpiresOnce, CounterOf
    <3> QED BY <1>1, <1>9, <3>1
  <2>3. PICK i \in 0 .. now : FixedLife(i)
    BY <1>5, <2>1
  <2> DEFINE before == Between(i - Window + 1, i - 1)
             this == Between(i, now)
             set == Between(now + Window - Window + 1, now)
  <2>4. /\ Sum(adm, before) \in Nat /\ Sum(adm, this) \in Nat
        /\ before \in SUBSET Time /\ this \in SUBSET Time /\ set \in SUBSET Time
        /\ now \notin before
    <3>1. i \in Int /\ now \in Int /\ i - Window + 1 \in Int /\ i - 1 \in Int /\ ~(now <= i - 1)
          /\ now + left[0] - Window + 1 \in Int
      BY <1>3
    <3>2. now \notin before
      BY <3>1 DEF Between
    <3> QED BY <1>4, <3>1, <3>2, BetweenTyped
  <2>5. /\ Sum(adm, before) <= Limit - 1
        /\ Sum(adm, this) <= count[0] - 1
        /\ Sum(adm, this) <= Limit - 1
    BY <1>9, <2>3 DEF FixedLife
  <2>6. set = {}
    <3> SUFFICES ASSUME NEW t \in Time, now + Window - Window + 1 <= t, t <= now PROVE FALSE
      BY DEF Between
    <3>1. t \in Nat
      BY TimesFinite
    <3> QED BY <1>3, <3>1
  <2> HIDE DEF before, this, adm, adn, due
  <2>7. /\ Sum(adn, before) = Sum(adm, before)
        /\ Sum(adn, this) = Sum(adm, this) + 1 \/ Sum(adn, this) = Sum(adm, this)
    <3>1. CASE adn = adm
      BY <3>1
    <3>2. CASE adn = [adm EXCEPT ![now] = @ + 1]
      BY <1>1, <1>3, <2>4, <3>2, SumNow
    <3> QED BY <1>9, <3>1, <3>2
  <2>8. Sum(adn, set) = 0
    BY <2>6, FS_EmptySet DEF Sum, Numbered
  <2>9. /\ Sum(adn, before) <= Limit - 1
        /\ Sum(adn, this) <= count'[0] /\ Sum(adn, this) <= Limit
        /\ Sum(adn, set) <= count'[0] - 1 /\ Sum(adn, set) <= Limit - 1
    BY <1>3, <1>9, <2>1, <2>4, <2>5, <2>7, <2>8
  <2>10. life(i)
    BY <1>9, <2>2, <2>9 DEF before, this
  <2> HIDE DEF life
  <2> QED BY <1>9, <2>1, <2>10
<1>10. worker'[w].pc # "expire" => (due => \E v \in Workers : worker[v].pc = "expire")
  BY <1>1
<1> HIDE DEF life, due
<1>11. CASE Asks(w)
  <2>1. count' = count /\ left' = left /\ admitted' = admitted /\ worker'[w].pc # "expire"
    BY <1>1, <1>11 DEF Asks, redis, TypeOK
  <2> QED BY <1>6, <1>10, <2>1
<1>12. CASE FixedBegins(w)
  BY <1>3, <1>7, <1>12 DEF FixedBegins
<1>13. CASE FixedCounted(w)
  <2>1. count'[0] <= Limit \/ admitted' = admitted
    BY <1>3, <1>13 DEF FixedCounted
  <2> QED BY <1>3, <1>8, <1>10, <1>13, <2>1 DEF FixedCounted
<1>14. CASE FixedExpires(w)
  BY <1>9, <1>14 DEF FixedExpires
<1>15. CASE FixedGivesUp(w)
  <2>1. /\ worker'[w].pc = "idle" /\ adn = adm
        /\ \/ count' = count /\ left' = left
           \/ worker[w].pc = "incr" /\ count'[0] = count[0] + 1 /\ left' = left
           \/ worker[w].pc = "expire" /\ count' = count /\ left[0] = 0 /\ left'[0] = Window
    BY <1>15 DEF FixedGivesUp
  <2>2. CASE count' = count /\ left' = left
    BY <1>6, <1>10, <2>1, <2>2
  <2>3. CASE count'[0] = count[0] + 1 /\ left' = left
    <3>1. CASE count[0] = 0
      BY <1>7, <2>1, <2>3, <3>1
    <3>2. CASE count[0] > 0
      BY <1>8, <1>10, <2>1, <2>3, <3>2
    <3> QED BY <1>3, <1>7, <1>8, <1>10, <2>1, <2>3, <3>1, <3>2
  <2>4. CASE worker[w].pc = "expire" /\ count' = count /\ left'[0] = Window
    BY <1>9, <2>1, <2>4
  <2> QED BY <2>1, <2>2, <2>3, <2>4
<1>16. Asks(w) \/ FixedBegins(w) \/ FixedCounted(w) \/ FixedExpires(w) \/ FixedGivesUp(w)
  BY <1>2, FixedStep DEF FixedInv
<1> QED BY <1>11, <1>12, <1>13, <1>14, <1>15, <1>16

\* Of two periods, one within the other but for what counts nothing.
LEMMA BetweenCovered ==
    ASSUME NEW f \in [Time -> Nat], NEW i \in Int, NEW j \in Int, NEW k \in Int, NEW m \in Int,
           \A t \in Time : i <= t /\ t <= j /\ f[t] > 0 => k <= t /\ t <= m
    PROVE  /\ Sum(f, Between(i, j)) <= Sum(f, Between(k, m))
           /\ Sum(f, Between(i, j)) \in Nat /\ Sum(f, Between(k, m)) \in Nat
<1>1. \A t \in Between(i, j) : f[t] > 0 => t \in Between(k, m) /\ f[t] <= f[t]
  <2> SUFFICES ASSUME NEW t \in Between(i, j), f[t] > 0 PROVE t \in Between(k, m) /\ f[t] <= f[t]
    OBVIOUS
  <2>1. t \in Time /\ i <= t /\ t <= j /\ f[t] \in Nat
    BY DEF Between
  <2> QED BY <2>1 DEF Between
<1>2. IsFiniteSet(Time) /\ Between(i, j) \in SUBSET Time /\ Between(k, m) \in SUBSET Time
  BY TimesFinite, BetweenTyped
<1>3. Sum(f, Between(i, j)) <= Sum(f, Between(k, m))
  BY <1>1, <1>2, SumCovered
<1> QED BY <1>2, <1>3, SumTyped

\* A life that ends becomes the one before, and its first request is out of the
\* window.
LEMMA FixedBoundTicks ==
    ASSUME FixedInv, FixedBound, Ticks
    PROVE  FixedBound'
<1>1. TypeOK /\ 0 \in Counters
  BY BoundsAssumption DEF FixedInv, IInv, Counters, Time
<1>2. /\ now' = now + 1 /\ now < MaxTime /\ UNCHANGED <<kind, timely, worker, admitted>>
      /\ left' = [c \in Counters |-> IF left[c] = 0 THEN 0 ELSE left[c] - 1]
      /\ count' = [c \in Counters |-> IF left[c] = 1 THEN 0 ELSE count[c]]
  BY DEF Ticks, config
<1>3. /\ left'[0] = IF left[0] = 0 THEN 0 ELSE left[0] - 1
      /\ count'[0] = IF left[0] = 1 THEN 0 ELSE count[0]
  BY <1>1, <1>2
<1> DEFINE adm == admitted["redis"]
           due == \E v \in Workers : worker[v].pc = "expire"
           life(i) ==
              /\ Sum(adm, Between(i - Window + 1, i - 1)) <= Limit - 1
              /\ Sum(adm, Between(i, now + 1)) <= count'[0]
              /\ Sum(adm, Between(i, now + 1)) <= Limit
              /\ due => /\ Sum(adm, Between(i, now + 1)) <= count'[0] - 1
                        /\ Sum(adm, Between(i, now + 1)) <= Limit - 1
              /\ left'[0] > 0 =>
                    /\ Sum(adm, Between(now + 1 + left'[0] - Window + 1, now + 1)) <= count'[0] - 1
                    /\ Sum(adm, Between(now + 1 + left'[0] - Window + 1, now + 1)) <= Limit - 1
<1>4. SUFFICES ASSUME kind = "fixed"
               PROVE  /\ count'[0] = 0 =>
                           /\ Sum(adm, Between(now + 1 - Window + 1, now + 1)) <= Limit - 1
                           /\ adm[now + 1] = 0
                      /\ count'[0] > 0 => \E i \in 0 .. now + 1 : life(i)
  <2>1. Window' = Window /\ Limit' = Limit
    BY <1>2 DEF Window, Limit
  <2>2. ASSUME NEW i \in Int, life(i)
        PROVE  FixedLife(i)'
    BY <1>2, <2>1, <2>2 DEF FixedLife, Sum, Numbered, Between
  <2>3. Sum(admitted["redis"], Between(now - Window + 1, now))'
          = Sum(adm, Between(now + 1 - Window + 1, now + 1))
    <3> DEFINE lhs == Sum(admitted["redis"], Between(now - Window + 1, now))'
               first == now' - Window' + 1
               last == now'
    <3>1. lhs = Sum(admitted'["redis"], Between(first, last))
      BY DEF Sum, Numbered, Between
    <3>2. now' = now + 1 /\ admitted' = admitted /\ now \in Int /\ Window \in Int
      BY <1>1, <1>2, LimitTyped
    <3>3. first = now + 1 - Window + 1 /\ last = now + 1
      BY <2>1, <3>2
    <3> HIDE DEF lhs, first, last
    <3>4. lhs = Sum(adm, Between(now + 1 - Window + 1, now + 1))
      BY <3>1, <3>2, <3>3
    <3> QED BY <3>4 DEF lhs
  <2>4. 0 .. now + 1 \subseteq Int
    OBVIOUS
  <2>5. ASSUME \E i \in 0 .. now + 1 : life(i)
        PROVE  \E i \in 0 .. now + 1 : FixedLife(i)'
    <3>1. PICK i \in 0 .. now + 1 : life(i)
      BY <2>5
    <3> HIDE DEF life
    <3>2. FixedLife(i)'
      BY <2>2, <2>4, <3>1
    <3> QED BY <3>2
  <2> HIDE DEF life
  <2> QED BY <1>2, <2>1, <2>3, <2>5 DEF FixedBound
<1>5. /\ Window \in Nat \ {0} /\ now \in Nat /\ now + 1 \in Time /\ Limit \in Nat \ {0}
      /\ adm \in [Time -> Nat] /\ count[0] \in Nat /\ left[0] \in Nat
      /\ (left[0] > 0 => count[0] > 0)
  <2>1. now + 1 \in Time
    BY <1>1, <1>2, LimitTyped, BoundsAssumption DEF Time
  <2> QED BY <1>1, <2>1, LimitTyped, HistoryTyped, RedisTyped
<1>6. adm[now + 1] = 0
  BY <1>5 DEF FixedInv, MemoryInv, Past
<1>7. /\ count[0] = 0 => Sum(adm, Between(now - Window + 1, now)) <= Limit - 1
      /\ count[0] > 0 => \E i \in 0 .. now : FixedLife(i)
  BY <1>4 DEF FixedBound
<1>8. ASSUME NEW i \in Int, NEW j \in Int, i >= j
      PROVE  /\ Sum(adm, Between(i, now + 1)) <= Sum(adm, Between(j, now))
             /\ Sum(adm, Between(i, now + 1)) \in Nat /\ Sum(adm, Between(j, now)) \in Nat
  <2>1. \A t \in Time : i <= t /\ t <= now + 1 /\ adm[t] > 0 => j <= t /\ t <= now
    <3> SUFFICES ASSUME NEW t \in Time, i <= t, t <= now + 1, adm[t] > 0
                 PROVE  j <= t /\ t <= now
      OBVIOUS
    <3>1. t \in Nat /\ t # now + 1
      BY <1>6, TimesFinite
    <3> QED BY <1>5, <1>8, <3>1
  <2> HIDE DEF adm
  <2> QED BY <1>5, <2>1, BetweenCovered
<1>9. CASE left[0] = 1
  <2>1. PICK i \in 0 .. now : FixedLife(i)
    BY <1>5, <1>7, <1>9
  <2>2. now + left[0] - Window + 1 = now + 1 - Window + 1 /\ now + 1 - Window + 1 \in Int
    BY <1>5, <1>9
  <2>3. Sum(adm, Between(now + 1 - Window + 1, now)) <= Limit - 1
    BY <1>9, <2>1, <2>2 DEF FixedLife
  <2>4. Sum(adm, Between(now + 1 - Window + 1, now + 1)) <= Limit - 1
    <3> DEFINE k == now + 1 - Window + 1
    <3>1. /\ Sum(adm, Between(k, now + 1)) <= Sum(adm, Between(k, now))
          /\ Sum(adm, Between(k, now + 1)) \in Nat /\ Sum(adm, Between(k, now)) \in Nat
      BY <1>8, <2>2
    <3> HIDE DEF k
    <3> QED BY <1>5, <2>3, <3>1 DEF k
  <2> QED BY <1>3, <1>6, <1>9, <2>4
<1>10. CASE left[0] # 1 /\ count[0] = 0
  <2> DEFINE k == now + 1 - Window + 1
             m == now - Window + 1
  <2>1. k \in Int /\ m \in Int /\ k >= m
    BY <1>5
  <2> HIDE DEF k, m
  <2>2. /\ Sum(adm, Between(k, now + 1)) <= Sum(adm, Between(m, now))
        /\ Sum(adm, Between(k, now + 1)) \in Nat /\ Sum(adm, Between(m, now)) \in Nat
    BY <1>8, <2>1
  <2>3. Sum(adm, Between(m, now)) <= Limit - 1
    BY <1>7, <1>10 DEF m
  <2>4. Sum(adm, Between(k, now + 1)) <= Limit - 1
    BY <1>5, <2>2, <2>3
  <2> QED BY <1>3, <1>6, <1>10, <2>4 DEF k
<1>11. CASE left[0] # 1 /\ count[0] > 0
  <2>1. PICK i \in 0 .. now : FixedLife(i)
    BY <1>7, <1>11
  <2>2. i \in Int /\ i \in 0 .. now + 1
    BY <1>5
  <2>3. count'[0] = count[0]
    BY <1>3, <1>11
  <2> DEFINE j == now + left[0] - Window + 1
  <2>4. /\ Sum(adm, Between(i, now + 1)) <= Sum(adm, Between(i, now))
        /\ Sum(adm, Between(i, now + 1)) \in Nat /\ Sum(adm, Between(i, now)) \in Nat
    BY <1>8, <2>2
  <2>5. j \in Int /\ (left'[0] > 0 => left[0] > 0 /\ now + 1 + left'[0] - Window + 1 = j)
    BY <1>3, <1>5
  <2>6. /\ Sum(adm, Between(j, now + 1)) <= Sum(adm, Between(j, now))
        /\ Sum(adm, Between(j, now + 1)) \in Nat /\ Sum(adm, Between(j, now)) \in Nat
    BY <1>8, <2>5
  <2>7. /\ Sum(adm, Between(i - Window + 1, i - 1)) <= Limit - 1
        /\ Sum(adm, Between(i, now)) <= count[0] /\ Sum(adm, Between(i, now)) <= Limit
        /\ due => Sum(adm, Between(i, now)) <= count[0] - 1 /\ Sum(adm, Between(i, now)) <= Limit - 1
        /\ left[0] > 0 => Sum(adm, Between(j, now)) <= count[0] - 1 /\ Sum(adm, Between(j, now)) <= Limit - 1
    BY <2>1 DEF FixedLife
  <2> HIDE DEF adm, due, j
  <2>8. /\ Sum(adm, Between(i, now + 1)) <= count'[0] /\ Sum(adm, Between(i, now + 1)) <= Limit
        /\ due => Sum(adm, Between(i, now + 1)) <= count'[0] - 1
        /\ due => Sum(adm, Between(i, now + 1)) <= Limit - 1
    BY <1>5, <2>3, <2>4, <2>7
  <2>9. /\ left[0] > 0 => Sum(adm, Between(j, now + 1)) <= count'[0] - 1
        /\ left[0] > 0 => Sum(adm, Between(j, now + 1)) <= Limit - 1
    BY <1>5, <2>3, <2>6, <2>7
  <2>10. life(i)
    BY <2>5, <2>7, <2>8, <2>9
  <2> HIDE DEF life
  <2> QED BY <1>11, <2>2, <2>3, <2>10
<1> QED BY <1>5, <1>9, <1>10, <1>11

\* So Redis admits fewer than twice the limit.
LEMMA FixedBoundHolds ==
    ASSUME FixedInv, FixedBound, kind = "fixed"
    PROVE  Sum(admitted["redis"], Last(Window)) <= 2 * Limit - 1
<1> DEFINE adm == admitted["redis"]
           recent == Between(now - Window + 1, now)
<1>1. TypeOK /\ 0 \in Counters
  BY BoundsAssumption DEF FixedInv, IInv, Counters, Time
<1>2. /\ Window \in Nat \ {0} /\ now \in Nat /\ Limit \in Nat \ {0}
      /\ adm \in [Time -> Nat] /\ count[0] \in Nat
  BY <1>1, LimitTyped, HistoryTyped, RedisTyped
<1>3. Last(Window) = recent
  <2> SUFFICES ASSUME NEW t \in Time PROVE t > now - Window <=> now - Window + 1 <= t
    BY DEF Last, Between
  <2> QED BY <1>2, TimesFinite
<1>4. CASE count[0] = 0
  <2>1. Sum(adm, recent) <= Limit - 1
    BY <1>4 DEF FixedBound
  <2>2. Sum(adm, recent) \in Nat
    BY <1>2, SumTyped, BetweenTyped, TimesFinite
  <2> HIDE DEF adm, recent
  <2> QED BY <1>2, <1>3, <2>1, <2>2 DEF adm
<1>5. CASE count[0] > 0
  <2>1. PICK i \in 0 .. now : FixedLife(i)
    BY <1>5 DEF FixedBound
  <2> DEFINE before == Between(i - Window + 1, i - 1)
             this == Between(i, now)
  <2>2. /\ Sum(adm, before) <= Limit - 1 /\ Sum(adm, this) <= Limit
    BY <2>1 DEF FixedLife
  <2>3. /\ before \in SUBSET Time /\ this \in SUBSET Time /\ recent \in SUBSET Time
        /\ IsFiniteSet(Time)
    BY BetweenTyped, TimesFinite
  <2>4. before \cap this = {}
    <3> SUFFICES ASSUME NEW t \in Time, t <= i - 1, i <= t PROVE FALSE
      BY DEF Between
    <3> QED BY <1>2, TimesFinite
  <2>5. \A t \in recent : t \in before \cup this
    <3> SUFFICES ASSUME NEW t \in Time, now - Window + 1 <= t, t <= now
                 PROVE  (i - Window + 1 <= t /\ t <= i - 1) \/ (i <= t /\ t <= now)
      BY DEF Between
    <3> QED BY <1>2, TimesFinite
  <2>6. \A t \in Time : adm[t] <= adm[t]
    BY <1>2
  <2> HIDE DEF adm, before, this, recent
  <2>7. Sum(adm, recent) <= Sum(adm, before \cup this)
    <3>1. before \cup this \in SUBSET Time
      BY <2>3
    <3> QED BY <1>2, <2>3, <2>5, <2>6, <3>1, SumCovered
  <2>8. Sum(adm, before \cup this) = Sum(adm, before) + Sum(adm, this)
    BY <1>2, <2>3, <2>4, SumSplit
  <2>9. Sum(adm, before) \in Nat /\ Sum(adm, this) \in Nat /\ Sum(adm, recent) \in Nat
    BY <1>2, <2>3, SumTyped
  <2> QED BY <1>2, <1>3, <2>2, <2>7, <2>8, <2>9 DEF adm
<1> QED BY <1>2, <1>4, <1>5

-----------------------------------------------------------------------------
(* The counters of "rolling" *)

\* The bucket a request is counted in.
BucketAt(w) == BucketOf(worker[w].at)

\* What a request does under "rolling": it is asked, counted, sets the expiry, is
\* let in by Redis or is given up.
RollingCounts(w) ==
    /\ worker[w].pc = "incr" /\ worker'[w].pc \in {"expire", "mget"}
    /\ worker'[w].at = worker[w].at
    /\ count' = [count EXCEPT ![BucketAt(w)] = @ + 1] /\ left' = left
    /\ admitted'["redis"] = admitted["redis"]

RollingExpires(w) ==
    /\ worker[w].pc = "expire" /\ worker'[w].pc = "mget" /\ worker'[w].at = worker[w].at
    /\ count' = count /\ left' = [left EXCEPT ![BucketAt(w)] = Window + Bucket]
    /\ admitted'["redis"] = admitted["redis"]

RollingLetsIn(w) ==
    /\ worker[w].pc = "mget" /\ worker'[w].pc = "idle"
    /\ count' = count /\ left' = left
    /\ ~(Sum(count, BucketsCounted(BucketAt(w)) \cap Counters) > Limit)
    /\ admitted'["redis"] = [admitted["redis"] EXCEPT ![now] = @ + 1]

RollingGivesUp(w) ==
    /\ worker'[w].pc = "idle"
    /\ \/ count' = count
       \/ worker[w].pc = "incr" /\ count' = [count EXCEPT ![BucketAt(w)] = @ + 1]
    /\ \/ left' = left
       \/ worker[w].pc = "expire" /\ left' = [left EXCEPT ![BucketAt(w)] = Window + Bucket]
    /\ admitted'["redis"] = admitted["redis"]

\* Those are all the steps of a worker under "rolling".
LEMMA RollingStep ==
    ASSUME IInv, kind = "rolling", NEW w \in Workers, Request(w) \/ Crashes(w)
    PROVE  \/ Asks(w)
           \/ /\ asked' = asked
              /\ RollingCounts(w) \/ RollingExpires(w) \/ RollingLetsIn(w) \/ RollingGivesUp(w)
<1>1. TypeOK /\ CounterOf(w) = BucketAt(w) /\ Lifetime = Window + Bucket /\ kind # "fixed"
  BY DEF IInv, CounterOf, Lifetime, BucketAt
<1>2. count[CounterOf(w)] \in Nat
  BY <1>1, CounterTyped, RedisTyped
<1>3. CASE Increments(w)
  <2>1. worker[w].pc = "incr" /\ asked' = asked /\ left' = left
        /\ count' = [count EXCEPT ![BucketAt(w)] = @ + 1]
    BY <1>1, <1>3 DEF Increments, Incremented
  <2>2. admitted' = admitted /\ (Goes(w, "expire") \/ Goes(w, "mget"))
    BY <1>1, <1>2, <1>3 DEF Increments
  <2>3. worker'[w].pc \in {"expire", "mget"} /\ worker'[w].at = worker[w].at
    BY <1>1, <2>2, GoesTyped
  <2> QED BY <2>1, <2>2, <2>3 DEF RollingCounts
<1>4. CASE Expires(w)
  <2>1. /\ worker[w].pc = "expire" /\ asked' = asked /\ count' = count
        /\ left' = [left EXCEPT ![BucketAt(w)] = Window + Bucket]
        /\ Goes(w, "mget") /\ admitted' = admitted
    BY <1>1, <1>4 DEF Expires
  <2>2. worker'[w].pc = "mget" /\ worker'[w].at = worker[w].at
    BY <1>1, <2>1, GoesTyped
  <2> QED BY <2>1, <2>2 DEF RollingExpires
<1>5. CASE Counts(w)
  <2> DEFINE total == Sum(count, BucketsCounted(BucketAt(w)) \cap Counters)
  <2>1. worker[w].pc = "mget" /\ asked' = asked /\ count' = count /\ left' = left
    BY <1>5 DEF Counts, redis
  <2>2. Decides(w, total)
    BY <1>5 DEF Counts, BucketAt
  <2> HIDE DEF total
  <2>3. worker'[w].pc = "idle"
    BY <1>1, <2>2, AnsweredTyped DEF Decides, Answered
  <2>4. \/ admitted' = admitted
        \/ /\ ~(total > Limit)
           /\ admitted'["redis"] = [admitted["redis"] EXCEPT ![now] = @ + 1]
    BY <1>1, <2>2, DecidesStep
  <2> QED BY <2>1, <2>3, <2>4 DEF RollingLetsIn, RollingGivesUp, total
<1>6. CASE FailsToIncrement(w) \/ FailsToExpire(w) \/ FailsToCount(w)
  <2>1. FallsBack(w) /\ asked' = asked
    BY <1>6 DEF FailsToIncrement, FailsToExpire, FailsToCount
  <2>2. worker'[w].pc = "idle" /\ admitted'["redis"] = admitted["redis"]
    BY <1>1, <2>1, AnsweredTyped, RedisKeepsAdmissions DEF FallsBack, Answered
  <2>3. /\ \/ count' = count
           \/ worker[w].pc = "incr" /\ count' = [count EXCEPT ![BucketAt(w)] = @ + 1]
        /\ \/ left' = left
           \/ worker[w].pc = "expire" /\ left' = [left EXCEPT ![BucketAt(w)] = Window + Bucket]
    BY <1>1, <1>6 DEF FailsToIncrement, FailsToExpire, FailsToCount, Incremented, redis
  <2> QED BY <2>1, <2>2, <2>3 DEF RollingGivesUp
<1>7. CASE Crashes(w)
  <2>1. count' = count /\ left' = left /\ asked' = asked
    BY <1>7 DEF Crashes, redis
  <2>2. worker'[w].pc = "idle" /\ admitted'["redis"] = admitted["redis"]
    BY <1>1, <1>7, AnsweredTyped, RedisKeepsAdmissions DEF Crashes, Answered
  <2> QED BY <2>1, <2>2 DEF RollingGivesUp
<1> QED BY <1>3, <1>4, <1>5, <1>6, <1>7 DEF Request

\* What a new request leaves.
LEMMA AsksStep ==
    ASSUME TypeOK, NEW w \in Workers, Asks(w)
    PROVE  /\ worker[w].pc = "idle" /\ worker'[w].pc = "incr" /\ worker'[w].at = now
           /\ UNCHANGED <<count, left, admitted, memory>>
           /\ asked' = [asked EXCEPT ![now] = @ + 1]
BY DEF Asks, redis, TypeOK

\* The bucket of a request under way is the present one or, late, the one before.
LEMMA BucketAtTyped ==
    ASSUME TypeOK, Clocks, NEW w \in Workers, worker[w].pc # "idle"
    PROVE  /\ BucketAt(w) \in Nat /\ BucketAt(w) \in Counters
           /\ Here \in Nat /\ BucketAt(w) \in {Here - 1, Here}
           /\ timely => BucketAt(w) = Here
           /\ Bucket * BucketAt(w) <= now /\ Bucket * BucketAt(w) \in Int
<1>1. /\ worker[w].at \in Time /\ worker[w].at <= now /\ now - worker[w].at < Bucket
      /\ timely => worker[w].at = now
  BY DEF TypeOK, Clocks
<1>2. worker[w].at \in Nat /\ now \in Nat /\ Bucket \in Nat \ {0}
  BY <1>1, TimesFinite, LimitTyped
<1>3. BucketAt(w) \in Nat /\ BucketAt(w) <= worker[w].at /\ Here \in Nat
  BY <1>2, BucketFrom DEF BucketAt, Here
<1>4. BucketAt(w) <= Here /\ BucketAt(w) >= Here - 1
  BY <1>1, <1>2, LateBucket DEF BucketAt, Here
<1>5. BucketAt(w) \in Counters
  BY <1>1, <1>3, BoundsAssumption DEF Counters, Time
<1>6. timely => BucketAt(w) = Here
  BY <1>1 DEF BucketAt, Here
<1>7. Bucket * BucketAt(w) \in Int
  BY <1>2, <1>3, SMT
<1>8. worker[w].at >= Bucket * BucketAt(w)
  BY <1>2, <1>3, BucketFrom DEF BucketAt
<1>9. Bucket * BucketAt(w) <= now
  <2> DEFINE p == Bucket * BucketAt(w)
  <2>1. p \in Int /\ worker[w].at >= p
    BY <1>7, <1>8
  <2> HIDE DEF p
  <2>2. p <= now
    BY <1>1, <1>2, <2>1
  <2> QED BY <2>2 DEF p
<1>10. BucketAt(w) \in {Here - 1, Here}
  BY <1>3, <1>4
<1> QED BY <1>3, <1>5, <1>6, <1>7, <1>9, <1>10

\* Sets of workers that one worker enters or leaves.
LEMMA OneWorker ==
    ASSUME NEW S \in SUBSET Workers, NEW R \in SUBSET Workers, NEW w \in Workers,
           \A v \in Workers \ {w} : v \in S <=> v \in R
    PROVE  /\ Cardinality(S) \in Nat /\ Cardinality(R) \in Nat
           /\ w \in S /\ w \notin R => Cardinality(R) = Cardinality(S) - 1
           /\ w \notin S /\ w \in R => Cardinality(R) = Cardinality(S) + 1
           /\ (w \in S <=> w \in R) => Cardinality(R) = Cardinality(S)
           /\ Cardinality(R) <= Cardinality(S) + 1
<1>1. IsFiniteSet(S) /\ IsFiniteSet(R)
  BY TimesFinite, FS_Subset
<1>2. Cardinality(S) \in Nat /\ Cardinality(R) \in Nat
  BY <1>1, FS_CardinalityType
<1>3. ASSUME w \in S, w \notin R PROVE Cardinality(R) = Cardinality(S) - 1
  <2>1. R = S \ {w}
    BY <1>3
  <2> QED BY <1>1, <1>3, <2>1, FS_RemoveElement
<1>4. ASSUME w \notin S, w \in R PROVE Cardinality(R) = Cardinality(S) + 1
  <2>1. R = S \cup {w}
    BY <1>4
  <2> QED BY <1>1, <1>4, <2>1, FS_AddElement
<1>5. ASSUME w \in S <=> w \in R PROVE Cardinality(R) = Cardinality(S)
  <2>1. R = S
    BY <1>5
  <2> QED BY <2>1
<1> QED BY <1>2, <1>3, <1>4, <1>5

\* A set of workers has no more than there are, and fewer where one is missing.
LEMMA SomeWorkers ==
    ASSUME NEW S \in SUBSET Workers
    PROVE  /\ Cardinality(S) \in Nat /\ Cardinality(Workers) \in Nat
           /\ Cardinality(S) <= Cardinality(Workers)
           /\ \A w \in Workers : w \notin S => Cardinality(S) <= Cardinality(Workers) - 1
<1>1. IsFiniteSet(Workers) /\ IsFiniteSet(S) /\ Cardinality(S) <= Cardinality(Workers)
  BY TimesFinite, FS_Subset
<1>2. Cardinality(S) \in Nat /\ Cardinality(Workers) \in Nat
  BY <1>1, FS_CardinalityType
<1>3. Cardinality(S) = Cardinality(Workers) => S = Workers
  BY <1>1, FS_Subset
<1> QED BY <1>1, <1>2, <1>3

\* A sum of counters one of which counts one more.
LEMMA SumCount ==
    ASSUME TypeOK, NEW c \in Counters, NEW S \in SUBSET Counters,
           NEW g, g = [count EXCEPT ![c] = @ + 1]
    PROVE  /\ Sum(count, S) \in Nat
           /\ c \in S => Sum(g, S) = Sum(count, S) + 1
           /\ c \notin S => Sum(g, S) = Sum(count, S)
<1> DEFINE f == count
           h == g
<1>1. f \in [Counters -> Nat] /\ IsFiniteSet(Counters)
  BY TimesFinite DEF TypeOK
<1>2. h \in [Counters -> Nat] /\ h[c] = f[c] + 1 /\ \A x \in Counters : x # c => h[x] = f[x]
  BY <1>1
<1> HIDE DEF f, h
<1>3. Sum(f, S) \in Nat
  BY <1>1, SumTyped
<1>4. /\ c \in S => Sum(h, S) = Sum(f, S) + 1
      /\ c \notin S => Sum(h, S) = Sum(f, S)
  BY ONLY <1>1, <1>2, SumPlus
<1> QED BY <1>3, <1>4, Zenon DEF f, h

\* No step but a tick moves the buckets looked at.
LEMMA HereSame ==
    ASSUME UNCHANGED <<kind, timely, now>>
    PROVE  /\ Here' = Here /\ First' = First /\ Window' = Window /\ Limit' = Limit
           /\ NumBuckets' = NumBuckets /\ Slack' = Slack /\ Excess' = Excess
           /\ \A k \in Int : From(k)' = From(k) /\ CountersFrom(k)' = CountersFrom(k)
BY DEF Here, First, Window, Limit, NumBuckets, Slack, Excess, BucketOf, From, CountersFrom

\* The present bucket, and the first that is looked at.
LEMMA HereTyped ==
    ASSUME TypeOK, kind = "rolling"
    PROVE  /\ Here \in Nat /\ NumBuckets \in Nat \ {0} /\ First \in Int /\ First < Here
           /\ Window = Bucket * NumBuckets /\ Bucket \in Nat \ {0} /\ Window \in Nat
           /\ now \in Nat /\ Limit \in Nat \ {0}
<1>1. now \in Nat /\ Bucket \in Nat \ {0} /\ Window \in Nat /\ Limit \in Nat \ {0}
  BY LimitTyped
<1>2. Here \in Nat
  BY <1>1, BucketFrom DEF Here
<1>3. NumBuckets \in Nat \ {0} /\ Window = Bucket * NumBuckets
  BY WholeBuckets
<1> QED BY <1>1, <1>2, <1>3 DEF First

\* An expiry is set when its bucket is under way, or one bucket later.
LEMMA LivesLongKeeps ==
    ASSUME IInv, MemoryInv, LivesLong, NEW w \in Workers, Request(w) \/ Crashes(w)
    PROVE  LivesLong'
<1>1. TypeOK /\ UNCHANGED <<kind, timely, now>>
  BY WorkerStep DEF IInv
<1> SUFFICES ASSUME kind = "rolling", NEW c \in Counters
             PROVE  /\ left'[c] > 0 => now + left'[c] >= Bucket * (c + 1) + Window
                    /\ c > Here => count'[c] = 0
  BY <1>1, HereSame DEF LivesLong
<1>2. /\ left[c] > 0 => now + left[c] >= Bucket * (c + 1) + Window
      /\ c > Here => count[c] = 0
  BY DEF LivesLong
<1>3. /\ count \in [Counters -> Nat] /\ left \in [Counters -> 0 .. Window + Bucket]
      /\ Counters \subseteq Nat /\ now \in Nat /\ Window \in Nat /\ Bucket \in Nat \ {0}
      /\ Here \in Nat
  <2>1. count \in [Counters -> Nat] /\ left \in [Counters -> 0 .. Window + Bucket]
    BY <1>1 DEF TypeOK
  <2>2. Counters \subseteq Nat
    BY BoundsAssumption DEF Counters, Time
  <2> QED BY <1>1, <2>1, <2>2, HereTyped
<1>4. ASSUME worker[w].pc # "idle"
      PROVE  /\ BucketAt(w) \in Counters /\ ~(BucketAt(w) > Here)
             /\ now + (Window + Bucket) >= Bucket * (BucketAt(w) + 1) + Window
  <2>1. /\ BucketAt(w) \in Counters /\ BucketAt(w) \in Nat /\ BucketAt(w) \in {Here - 1, Here}
        /\ Bucket * BucketAt(w) <= now /\ Bucket * BucketAt(w) \in Int
    BY <1>1, <1>4, BucketAtTyped DEF MemoryInv
  <2>2. Bucket * (BucketAt(w) + 1) = Bucket * BucketAt(w) + Bucket
    BY <1>3, <2>1, SMTT(20)
  <2> DEFINE p == Bucket * BucketAt(w)
             q == Bucket * (BucketAt(w) + 1)
  <2>3. p \in Int /\ p <= now /\ q = p + Bucket
    BY <2>1, <2>2
  <2> HIDE DEF p, q
  <2>4. now + (Window + Bucket) >= q + Window
    BY <1>3, <2>3
  <2> QED BY <1>3, <2>1, <2>4 DEF q
<1>5. ASSUME worker[w].pc # "idle", count' = [count EXCEPT ![BucketAt(w)] = @ + 1], c > Here
      PROVE  count'[c] = 0
  BY <1>2, <1>3, <1>4, <1>5
<1>6. ASSUME worker[w].pc # "idle", left' = [left EXCEPT ![BucketAt(w)] = Window + Bucket],
             left'[c] > 0
      PROVE  now + left'[c] >= Bucket * (c + 1) + Window
  <2>1. CASE c = BucketAt(w)
    <3>1. left'[c] = Window + Bucket
      BY <1>3, <1>6, <2>1
    <3> QED BY <1>4, <1>6, <2>1, <3>1
  <2>2. CASE c # BucketAt(w)
    <3>1. left'[c] = left[c]
      BY <1>3, <1>6, <2>2
    <3> QED BY <1>2, <1>6, <3>1
  <2> QED BY <2>1, <2>2
<1>7. \/ count' = count
      \/ worker[w].pc # "idle" /\ count' = [count EXCEPT ![BucketAt(w)] = @ + 1]
  BY <1>1, RollingStep, AsksStep
     DEF RollingCounts, RollingExpires, RollingLetsIn, RollingGivesUp
<1>8. \/ left' = left
      \/ worker[w].pc # "idle" /\ left' = [left EXCEPT ![BucketAt(w)] = Window + Bucket]
  BY <1>1, RollingStep, AsksStep
     DEF RollingCounts, RollingExpires, RollingLetsIn, RollingGivesUp
<1> QED BY <1>2, <1>5, <1>6, <1>7, <1>8

\* No counter of the last buckets is gone.
LEMMA CountersStay ==
    ASSUME RollingInv, Ticks, kind = "rolling", NEW c \in Counters,
           c >= BucketOf(now + 1) - NumBuckets
    PROVE  count'[c] = count[c]
<1>1. TypeOK
  BY DEF RollingInv, IInv
<1>2. count'[c] = IF left[c] = 1 THEN 0 ELSE count[c]
  BY DEF Ticks
<1>3. /\ now \in Nat /\ Bucket \in Nat \ {0} /\ NumBuckets \in Nat \ {0} /\ c \in Nat
      /\ Window = Bucket * NumBuckets /\ Window \in Nat
  BY <1>1, HereTyped, BoundsAssumption DEF Counters, Time
<1>4. left[c] # 1
  <2> SUFFICES ASSUME left[c] = 1 PROVE FALSE
    OBVIOUS
  <2>1. now + 1 >= Bucket * (c + 1) + Window
    BY DEF RollingInv, LivesLong
  <2>2. Bucket * (c + 1 + NumBuckets) = Bucket * (c + 1) + Bucket * NumBuckets
    BY <1>3, SMTT(20)
  <2>3. now + 1 >= Bucket * (c + 1 + NumBuckets)
    BY <1>3, <2>1, <2>2
  <2>4. BucketOf(now + 1) >= c + 1 + NumBuckets /\ BucketOf(now + 1) \in Nat
    BY <1>3, <2>3, BucketFrom
  <2> QED BY <1>3, <2>4
<1> QED BY <1>2, <1>4

\* A tick takes from what is left what it adds to the clock.
LEMMA LivesLongTicks ==
    ASSUME RollingInv, Ticks
    PROVE  LivesLong'
<1>1. TypeOK
  BY DEF RollingInv, IInv
<1>2. /\ now' = now + 1 /\ kind' = kind
      /\ left' = [c \in Counters |-> IF left[c] = 0 THEN 0 ELSE left[c] - 1]
      /\ count' = [c \in Counters |-> IF left[c] = 1 THEN 0 ELSE count[c]]
  BY DEF Ticks, config
<1> SUFFICES ASSUME kind = "rolling", NEW c \in Counters
             PROVE  /\ left'[c] > 0 => now + 1 + left'[c] >= Bucket * (c + 1) + Window
                    /\ c > Here' => count'[c] = 0
  <2>1. Window' = Window
    BY <1>2 DEF Window
  <2> QED BY <1>2, <2>1 DEF LivesLong
<1>3. /\ left[c] > 0 => now + left[c] >= Bucket * (c + 1) + Window
      /\ c > Here => count[c] = 0
  BY DEF RollingInv, LivesLong
<1>4. left[c] \in Nat /\ now \in Nat /\ Here \in Nat /\ c \in Nat
  BY <1>1, RedisTyped, HereTyped, BoundsAssumption DEF Counters, Time
<1>5. Here' \in {Here, Here + 1}
  BY <1>2, <1>4, NextBucket DEF Here, BucketOf
<1>6. c > Here' => count'[c] = 0
  BY <1>2, <1>3, <1>4, <1>5
<1>7. left'[c] > 0 => left[c] > 0 /\ now + 1 + left'[c] = now + left[c]
  BY <1>2, <1>4
<1> QED BY <1>3, <1>6, <1>7

\* A request is counted in the bucket it was asked in.
LEMMA CountAskedKeeps ==
    ASSUME IInv, MemoryInv, CountAsked, NEW w \in Workers, Request(w) \/ Crashes(w)
    PROVE  CountAsked'
<1>1. /\ TypeOK /\ UNCHANGED <<kind, timely, now>>
      /\ \A v \in Workers \ {w} : worker'[v] = worker[v]
  BY WorkerStep DEF IInv
<1> SUFFICES ASSUME kind = "rolling", NEW k \in Int
             PROVE  Sum(count', CountersFrom(k)) + Cardinality(Waiting(k)')
                      <= Sum(asked', From(k))
  <2>1. \A m \in Int : /\ Sum(count, CountersFrom(m))' = Sum(count', CountersFrom(m))
                       /\ Sum(asked, From(m))' = Sum(asked', From(m))
    BY <1>1 DEF Sum, Numbered, CountersFrom, From, BucketOf
  <2> QED BY <1>1, <2>1 DEF CountAsked
<1>2. Sum(count, CountersFrom(k)) + Cardinality(Waiting(k)) <= Sum(asked, From(k))
  BY DEF CountAsked
<1>3. /\ CountersFrom(k) \in SUBSET Counters /\ From(k) \in SUBSET Time
      /\ asked \in [Time -> Nat] /\ now \in Time
      /\ Waiting(k) \in SUBSET Workers /\ Waiting(k)' \in SUBSET Workers
      /\ count \in [Counters -> Nat]
  BY <1>1, HistoryTyped DEF CountersFrom, From, Waiting, TypeOK
<1>4. Sum(count, CountersFrom(k)) \in Nat /\ Sum(asked, From(k)) \in Nat
  BY <1>3, SumTyped, TimesFinite
<1>5. \A v \in Workers \ {w} : v \in Waiting(k) <=> v \in Waiting(k)'
  BY <1>1 DEF Waiting, BucketOf
<1>6. /\ Cardinality(Waiting(k)) \in Nat /\ Cardinality(Waiting(k)') \in Nat
      /\ w \in Waiting(k) /\ w \notin Waiting(k)'
           => Cardinality(Waiting(k)') = Cardinality(Waiting(k)) - 1
      /\ w \notin Waiting(k) /\ w \in Waiting(k)'
           => Cardinality(Waiting(k)') = Cardinality(Waiting(k)) + 1
      /\ (w \in Waiting(k) <=> w \in Waiting(k)')
           => Cardinality(Waiting(k)') = Cardinality(Waiting(k))
  BY <1>3, <1>5, OneWorker
<1>7. /\ w \in Waiting(k) <=> worker[w].pc = "incr" /\ BucketAt(w) >= k
      /\ worker'[w].pc = "incr" /\ worker'[w].at = now => (w \in Waiting(k)' <=> now \in From(k))
      /\ worker'[w].pc # "incr" => w \notin Waiting(k)'
  BY <1>3 DEF Waiting, From, BucketAt, BucketOf
<1>8. CASE Asks(w)
  <2>1. /\ worker[w].pc = "idle" /\ worker'[w].pc = "incr" /\ worker'[w].at = now
        /\ count' = count /\ asked' = [asked EXCEPT ![now] = @ + 1]
    BY <1>1, <1>8, AsksStep
  <2>2. /\ now \in From(k) => Sum(asked', From(k)) = Sum(asked, From(k)) + 1
        /\ now \notin From(k) => Sum(asked', From(k)) = Sum(asked, From(k))
    BY <1>1, <1>3, <2>1, SumNow
  <2> QED BY <1>2, <1>4, <1>6, <1>7, <2>1, <2>2
<1>9. ASSUME asked' = asked, count' = count, worker'[w].pc # "incr"
      PROVE  Sum(count', CountersFrom(k)) + Cardinality(Waiting(k)')
               <= Sum(asked', From(k))
  <2>1. Cardinality(Waiting(k)') <= Cardinality(Waiting(k))
    BY <1>6, <1>7, <1>9
  <2> QED BY <1>2, <1>4, <1>6, <1>9, <2>1
<1>10. ASSUME asked' = asked, count' = [count EXCEPT ![BucketAt(w)] = @ + 1],
              worker[w].pc = "incr", worker'[w].pc # "incr"
       PROVE  Sum(count', CountersFrom(k)) + Cardinality(Waiting(k)')
                <= Sum(asked', From(k))
  <2>1. BucketAt(w) \in Counters
    BY <1>1, <1>10, BucketAtTyped DEF MemoryInv
  <2>2. /\ BucketAt(w) \in CountersFrom(k)
             => Sum(count', CountersFrom(k)) = Sum(count, CountersFrom(k)) + 1
        /\ BucketAt(w) \notin CountersFrom(k)
             => Sum(count', CountersFrom(k)) = Sum(count, CountersFrom(k))
    BY <1>1, <1>3, <1>10, <2>1, SumCount
  <2>3. BucketAt(w) \in CountersFrom(k) <=> w \in Waiting(k)
    BY <1>7, <1>10, <2>1 DEF CountersFrom
  <2> QED BY <1>2, <1>4, <1>6, <1>7, <1>10, <2>2, <2>3
<1>11. CASE asked' = asked /\ (RollingCounts(w) \/ RollingExpires(w) \/ RollingLetsIn(w))
  BY <1>9, <1>10, <1>11 DEF RollingCounts, RollingExpires, RollingLetsIn
<1>12. CASE asked' = asked /\ RollingGivesUp(w)
  BY <1>9, <1>10, <1>12 DEF RollingGivesUp
<1> QED BY <1>1, <1>8, <1>11, <1>12, RollingStep

\* A tick only drops counters.
LEMMA CountAskedTicks ==
    ASSUME RollingInv, CountAsked, Ticks
    PROVE  CountAsked'
<1>1. TypeOK
  BY DEF RollingInv, IInv
<1>2. /\ UNCHANGED <<kind, worker, asked>>
      /\ count' = [c \in Counters |-> IF left[c] = 1 THEN 0 ELSE count[c]]
  BY DEF Ticks, config
<1> SUFFICES ASSUME kind = "rolling", NEW k \in Int
             PROVE  Sum(count', CountersFrom(k)) + Cardinality(Waiting(k)) <= Sum(asked, From(k))
  <2>1. \A m \in Int : /\ Sum(count, CountersFrom(m))' = Sum(count', CountersFrom(m))
                       /\ Sum(asked, From(m))' = Sum(asked, From(m))
                       /\ Waiting(m)' = Waiting(m)
    BY <1>2 DEF Sum, Numbered, CountersFrom, From, BucketOf, Waiting
  <2> QED BY <1>2, <2>1 DEF CountAsked
<1>3. Sum(count, CountersFrom(k)) + Cardinality(Waiting(k)) <= Sum(asked, From(k))
  BY DEF CountAsked
<1>4. /\ CountersFrom(k) \in SUBSET Counters /\ From(k) \in SUBSET Time
      /\ asked \in [Time -> Nat] /\ Waiting(k) \in SUBSET Workers
      /\ count \in [Counters -> Nat] /\ IsFiniteSet(Counters) /\ IsFiniteSet(Time)
  BY <1>1, HistoryTyped, TimesFinite DEF CountersFrom, From, Waiting, TypeOK
<1> DEFINE left1 == [c \in Counters |-> IF left[c] = 1 THEN 0 ELSE count[c]]
<1>5. left1 \in [Counters -> Nat] /\ \A c \in Counters : left1[c] <= count[c]
  BY <1>4
<1> HIDE DEF left1
<1>6. Sum(left1, CountersFrom(k)) <= Sum(count, CountersFrom(k))
  <2>1. \A c \in CountersFrom(k) : left1[c] > 0 => c \in CountersFrom(k) /\ left1[c] <= count[c]
    BY <1>4, <1>5
  <2> QED BY <1>4, <1>5, <2>1, SumCovered
<1>7. /\ Sum(left1, CountersFrom(k)) \in Nat /\ Sum(count, CountersFrom(k)) \in Nat
      /\ Sum(asked, From(k)) \in Nat /\ Cardinality(Waiting(k)) \in Nat
  BY <1>4, <1>5, SumTyped, SomeWorkers
<1>8. Sum(left1, CountersFrom(k)) + Cardinality(Waiting(k)) <= Sum(asked, From(k))
  BY <1>3, <1>6, <1>7
<1> QED BY <1>2, <1>8 DEF left1

\* The sets of workers that a step of w changes only by w.
LEMMA PartiesStep ==
    ASSUME RollingInv, kind = "rolling", NEW w \in Workers, Request(w) \/ Crashes(w),
           NEW k \in Int
    PROVE  /\ Counted(k) \in SUBSET Workers /\ Counted(k)' \in SUBSET Workers
           /\ Latecomers \in SUBSET Workers /\ Latecomers' \in SUBSET Workers
           /\ LateCounted \in SUBSET Workers /\ LateCounted' \in SUBSET Workers
           /\ \A v \in Workers \ {w} : /\ v \in Counted(k) <=> v \in Counted(k)'
                                       /\ v \in Latecomers <=> v \in Latecomers'
                                       /\ v \in LateCounted <=> v \in LateCounted'
           /\ w \in Counted(k) <=> worker[w].pc \in {"expire", "mget"} /\ BucketAt(w) >= k
           /\ w \in Latecomers <=> worker[w].pc # "idle" /\ BucketAt(w) < Here
           /\ w \in LateCounted <=> /\ worker[w].pc \in {"expire", "mget"}
                                    /\ BucketAt(w) >= First /\ BucketAt(w) < Here
           /\ worker'[w].at = worker[w].at =>
                 /\ w \in Counted(k)' <=> worker'[w].pc \in {"expire", "mget"} /\ BucketAt(w) >= k
                 /\ w \in Latecomers' <=> worker'[w].pc # "idle" /\ BucketAt(w) < Here
                 /\ w \in LateCounted' <=> /\ worker'[w].pc \in {"expire", "mget"}
                                           /\ BucketAt(w) >= First /\ BucketAt(w) < Here
           /\ worker'[w].pc = "idle" =>
                 w \notin Counted(k)' /\ w \notin Latecomers' /\ w \notin LateCounted'
           /\ Asks(w) => w \notin Counted(k)' /\ w \notin Latecomers' /\ w \notin LateCounted'
<1>1. /\ TypeOK /\ UNCHANGED <<kind, timely, now>>
      /\ \A v \in Workers \ {w} : worker'[v] = worker[v]
  BY WorkerStep DEF RollingInv, IInv
<1>2. Here' = Here /\ First' = First /\ Here \in Nat
  BY <1>1, HereSame, HereTyped
<1>3. Asks(w) => worker'[w].pc = "incr" /\ worker'[w].at = now
  BY <1>1, AsksStep
<1>4. \A v \in Workers : Late(v)' <=> BucketOf(worker'[v].at) < Here
  BY <1>2 DEF Late, BucketOf, Here
<1>5. /\ Counted(k) \in SUBSET Workers /\ Counted(k)' \in SUBSET Workers
      /\ \A v \in Workers \ {w} : v \in Counted(k) <=> v \in Counted(k)'
      /\ w \in Counted(k) <=> worker[w].pc \in {"expire", "mget"} /\ BucketAt(w) >= k
      /\ worker'[w].at = worker[w].at =>
            (w \in Counted(k)' <=> worker'[w].pc \in {"expire", "mget"} /\ BucketAt(w) >= k)
      /\ worker'[w].pc \in {"idle", "incr"} => w \notin Counted(k)'
  BY <1>1 DEF Counted, BucketAt, BucketOf
<1>6. /\ Latecomers \in SUBSET Workers /\ Latecomers' \in SUBSET Workers
      /\ \A v \in Workers \ {w} : v \in Latecomers <=> v \in Latecomers'
      /\ w \in Latecomers <=> worker[w].pc # "idle" /\ BucketAt(w) < Here
      /\ worker'[w].at = worker[w].at =>
            (w \in Latecomers' <=> worker'[w].pc # "idle" /\ BucketAt(w) < Here)
      /\ worker'[w].pc = "idle" => w \notin Latecomers'
      /\ worker'[w].at = now => w \notin Latecomers'
  <2>1. ~(BucketOf(now) < Here)
    BY <1>2 DEF Here
  <2>2. Latecomers' = {v \in Workers : worker'[v].pc # "idle" /\ BucketOf(worker'[v].at) < Here}
    BY <1>4 DEF Latecomers
  <2>3. Latecomers = {v \in Workers : worker[v].pc # "idle" /\ BucketOf(worker[v].at) < Here}
    BY DEF Latecomers, Late, Here
  <2> QED BY <1>1, <2>1, <2>2, <2>3 DEF BucketAt
<1>7. /\ Counted(First) \in SUBSET Workers /\ Counted(First)' \in SUBSET Workers
      /\ \A v \in Workers \ {w} : v \in Counted(First) <=> v \in Counted(First)'
      /\ w \in Counted(First) <=> worker[w].pc \in {"expire", "mget"} /\ BucketAt(w) >= First
      /\ worker'[w].at = worker[w].at =>
            (w \in Counted(First)' <=> worker'[w].pc \in {"expire", "mget"} /\ BucketAt(w) >= First)
      /\ worker'[w].pc \in {"idle", "incr"} => w \notin Counted(First)'
  <2>1. Counted(First)' = {v \in Workers : worker'[v].pc \in {"expire", "mget"}
                                           /\ BucketOf(worker'[v].at) >= First}
    BY <1>2 DEF Counted, BucketOf
  <2> QED BY <1>1, <2>1 DEF Counted, BucketAt
<1> QED BY <1>3, <1>5, <1>6, <1>7 DEF LateCounted

\* The numbers that the bound of "rolling" relates, before and after a step, for the
\* buckets from k on.
LEMMA RollingDeltas ==
    ASSUME RollingInv, kind = "rolling", NEW w \in Workers, Request(w) \/ Crashes(w),
           NEW k \in Int, k <= Here,
           NEW a, a = Sum(admitted["redis"], From(k)),
           NEW an, an = Sum(admitted'["redis"], From(k)),
           NEW r, r = Sum(count, CountersFrom(k)), NEW rn, rn = Sum(count', CountersFrom(k)),
           NEW q, q = Sum(count, RecentCounters), NEW qn, qn = Sum(count', RecentCounters),
           NEW p, p = Cardinality(Counted(k)), NEW pn, pn = Cardinality(Counted(k)'),
           NEW l, l = Cardinality(Latecomers), NEW ln, ln = Cardinality(Latecomers'),
           NEW e, e = Cardinality(LateCounted), NEW en, en = Cardinality(LateCounted')
    PROVE  /\ a \in Nat /\ r \in Nat /\ q \in Nat /\ p \in Nat /\ l \in Nat /\ e \in Nat
           /\ an \in Nat /\ rn \in Nat /\ qn \in Nat /\ pn \in Nat /\ ln \in Nat /\ en \in Nat
           /\ \/ an = a /\ rn = r /\ qn = q /\ pn = p /\ ln = l /\ en = e
              \/ /\ RollingCounts(w) /\ an = a /\ ln = l
                 /\ BucketAt(w) >= k => rn = r + 1 /\ pn = p + 1
                 /\ BucketAt(w) < k => rn = r /\ pn = p
                 /\ BucketAt(w) < Here => qn = q + 1 /\ en = e + 1
                 /\ BucketAt(w) = Here => qn = q /\ en = e
              \/ /\ RollingLetsIn(w) /\ an = a + 1 /\ rn = r /\ qn = q
                 /\ BucketAt(w) >= k => pn = p - 1
                 /\ BucketAt(w) < k => pn = p
                 /\ BucketAt(w) < Here => ln = l - 1 /\ en = e - 1
                 /\ BucketAt(w) = Here => ln = l /\ en = e
              \/ an = a /\ rn >= r /\ qn >= q /\ pn <= p /\ ln <= l /\ en <= e
<1>1. TypeOK /\ Clocks
  BY DEF RollingInv, IInv, MemoryInv
<1>2. /\ CountersFrom(k) \in SUBSET Counters /\ From(k) \in SUBSET Time
      /\ RecentCounters \in SUBSET Counters /\ now \in Time
      /\ admitted["redis"] \in [Time -> Nat] /\ count \in [Counters -> Nat]
  BY <1>1, HistoryTyped DEF CountersFrom, From, RecentCounters, TypeOK
<1>3. a \in Nat /\ r \in Nat /\ q \in Nat
  BY <1>2, SumTyped, TimesFinite
<1>4. now \in From(k)
  BY <1>2 DEF From, Here
<1>5. /\ p \in Nat /\ pn \in Nat
      /\ w \in Counted(k) /\ w \notin Counted(k)' => pn = p - 1
      /\ w \notin Counted(k) /\ w \in Counted(k)' => pn = p + 1
      /\ (w \in Counted(k) <=> w \in Counted(k)') => pn = p
  BY PartiesStep, OneWorker
<1>6. /\ l \in Nat /\ ln \in Nat
      /\ w \in Latecomers /\ w \notin Latecomers' => ln = l - 1
      /\ (w \in Latecomers <=> w \in Latecomers') => ln = l
  BY PartiesStep, OneWorker
<1>7. /\ e \in Nat /\ en \in Nat
      /\ w \in LateCounted /\ w \notin LateCounted' => en = e - 1
      /\ w \notin LateCounted /\ w \in LateCounted' => en = e + 1
      /\ (w \in LateCounted <=> w \in LateCounted') => en = e
  BY PartiesStep, OneWorker
<1>8. ASSUME worker[w].pc # "idle"
      PROVE  /\ BucketAt(w) \in Counters /\ BucketAt(w) \in Nat
             /\ Here \in Nat /\ BucketAt(w) \in {Here - 1, Here}
             /\ First \in Int /\ BucketAt(w) >= First
             /\ BucketAt(w) >= k \/ BucketAt(w) < k
  <2>1. /\ BucketAt(w) \in Counters /\ BucketAt(w) \in Nat
        /\ Here \in Nat /\ BucketAt(w) \in {Here - 1, Here}
    BY <1>1, <1>8, BucketAtTyped
  <2>2. First \in Int /\ First < Here
    BY <1>1, HereTyped
  <2> QED BY <2>1, <2>2
<1>9. ASSUME worker[w].pc # "idle", count' = [count EXCEPT ![BucketAt(w)] = @ + 1]
      PROVE  /\ BucketAt(w) >= k => rn = r + 1
             /\ BucketAt(w) < k => rn = r
             /\ BucketAt(w) < Here => qn = q + 1
             /\ BucketAt(w) = Here => qn = q
  <2>1. /\ BucketAt(w) >= k => BucketAt(w) \in CountersFrom(k)
        /\ BucketAt(w) < k => BucketAt(w) \notin CountersFrom(k)
        /\ BucketAt(w) < Here => BucketAt(w) \in RecentCounters
        /\ BucketAt(w) = Here => BucketAt(w) \notin RecentCounters
    BY <1>8, <1>9 DEF CountersFrom, RecentCounters
  <2>2. /\ BucketAt(w) \in CountersFrom(k) => rn = r + 1
        /\ BucketAt(w) \notin CountersFrom(k) => rn = r
    BY <1>1, <1>2, <1>8, <1>9, SumCount
  <2>3. /\ BucketAt(w) \in RecentCounters => qn = q + 1
        /\ BucketAt(w) \notin RecentCounters => qn = q
    BY <1>1, <1>2, <1>8, <1>9, SumCount
  <2> QED BY <2>1, <2>2, <2>3
<1>10. CASE Asks(w)
  <2>1. count' = count /\ admitted' = admitted /\ worker[w].pc = "idle"
    BY <1>1, <1>10, AsksStep
  <2>2. w \notin Counted(k) /\ w \notin Latecomers /\ w \notin LateCounted
    BY <2>1, PartiesStep
  <2>3. w \notin Counted(k)' /\ w \notin Latecomers' /\ w \notin LateCounted'
    BY <1>10, PartiesStep
  <2>4. an = a /\ rn = r /\ qn = q
    BY <2>1
  <2>5. pn = p /\ ln = l /\ en = e
    BY <1>5, <1>6, <1>7, <2>2, <2>3
  <2> QED BY <1>3, <1>5, <1>6, <1>7, <2>4, <2>5
<1>11. CASE RollingCounts(w)
  <2>1. /\ worker[w].pc = "incr" /\ worker'[w].pc \in {"expire", "mget"}
        /\ worker'[w].at = worker[w].at /\ admitted'["redis"] = admitted["redis"]
        /\ count' = [count EXCEPT ![BucketAt(w)] = @ + 1]
    BY <1>11 DEF RollingCounts
  <2>2. /\ w \notin Counted(k) /\ (w \in Counted(k)' <=> BucketAt(w) >= k)
        /\ w \notin LateCounted /\ (w \in LateCounted' <=> BucketAt(w) < Here)
        /\ w \in Latecomers <=> w \in Latecomers'
    BY <1>8, <2>1, PartiesStep
  <2>3. an = a
    BY <2>1
  <2>4. /\ BucketAt(w) >= k => rn = r + 1 /\ pn = p + 1
        /\ BucketAt(w) < k => rn = r /\ pn = p
    BY <1>5, <1>8, <1>9, <2>1, <2>2
  <2>5. /\ BucketAt(w) < Here => qn = q + 1 /\ en = e + 1
        /\ BucketAt(w) = Here => qn = q /\ en = e
    BY <1>7, <1>8, <1>9, <2>1, <2>2
  <2>6. ln = l
    BY <1>6, <2>2
  <2>7. rn \in Nat /\ qn \in Nat
    BY <1>3, <1>8, <2>1, <2>4, <2>5
  <2> QED BY <1>3, <1>5, <1>6, <1>7, <1>11, <2>3, <2>4, <2>5, <2>6, <2>7
<1>12. CASE RollingExpires(w)
  <2>1. /\ worker[w].pc = "expire" /\ worker'[w].pc = "mget"
        /\ worker'[w].at = worker[w].at /\ admitted'["redis"] = admitted["redis"]
        /\ count' = count
    BY <1>12 DEF RollingExpires
  <2>2. /\ w \in Counted(k) <=> w \in Counted(k)'
        /\ w \in LateCounted <=> w \in LateCounted'
        /\ w \in Latecomers <=> w \in Latecomers'
    BY <2>1, PartiesStep
  <2>3. pn = p /\ ln = l /\ en = e
    BY <1>5, <1>6, <1>7, <2>2
  <2>4. an = a /\ rn = r /\ qn = q
    BY <2>1
  <2> QED BY <1>3, <1>5, <1>6, <1>7, <2>3, <2>4
<1>13. CASE RollingLetsIn(w)
  <2>1. /\ worker[w].pc = "mget" /\ worker'[w].pc = "idle" /\ count' = count
        /\ admitted'["redis"] = [admitted["redis"] EXCEPT ![now] = @ + 1]
    BY <1>13 DEF RollingLetsIn
  <2>2. /\ w \in Counted(k) <=> BucketAt(w) >= k
        /\ w \in LateCounted <=> BucketAt(w) < Here
        /\ w \in Latecomers <=> BucketAt(w) < Here
        /\ w \notin Counted(k)' /\ w \notin LateCounted' /\ w \notin Latecomers'
    BY <1>8, <2>1, PartiesStep
  <2>3. an = a + 1
    BY <1>1, <1>2, <1>4, <2>1, SumNow
  <2>4. rn = r /\ qn = q
    BY <2>1
  <2>5. /\ BucketAt(w) >= k => pn = p - 1
        /\ BucketAt(w) < k => pn = p
    BY <1>5, <1>8, <2>1, <2>2
  <2>6. /\ BucketAt(w) < Here => ln = l - 1 /\ en = e - 1
        /\ BucketAt(w) = Here => ln = l /\ en = e
    BY <1>6, <1>7, <1>8, <2>1, <2>2
  <2> QED BY <1>3, <1>5, <1>6, <1>7, <1>13, <2>3, <2>4, <2>5, <2>6
<1>14. CASE RollingGivesUp(w)
  <2>1. /\ worker'[w].pc = "idle" /\ admitted'["redis"] = admitted["redis"]
        /\ \/ count' = count
           \/ worker[w].pc = "incr" /\ count' = [count EXCEPT ![BucketAt(w)] = @ + 1]
    BY <1>14 DEF RollingGivesUp
  <2>2. w \notin Counted(k)' /\ w \notin LateCounted' /\ w \notin Latecomers'
    BY <2>1, PartiesStep
  <2>3. pn <= p /\ ln <= l /\ en <= e
    BY <1>5, <1>6, <1>7, <2>2
  <2>4. an = a
    BY <2>1
  <2>5. (rn = r \/ rn = r + 1) /\ (qn = q \/ qn = q + 1)
    <3>1. CASE count' = count
      BY <3>1
    <3>2. CASE worker[w].pc = "incr" /\ count' = [count EXCEPT ![BucketAt(w)] = @ + 1]
      BY <1>8, <1>9, <3>2
    <3> QED BY <2>1, <3>1, <3>2
  <2> QED BY <1>3, <1>5, <1>6, <1>7, <2>3, <2>4, <2>5
<1> QED BY <1>10, <1>11, <1>12, <1>13, <1>14, RollingStep DEF RollingInv

\* With no request late there is no slack.
LEMMA SlackTyped ==
    /\ Slack \in Nat /\ Excess \in Int /\ Cardinality(Workers) \in Nat
    /\ timely => Slack = 0 /\ Excess = 0
    /\ ~timely => Slack = Cardinality(Workers) /\ Excess = 2 * Cardinality(Workers) - 1
<1>1. Cardinality(Workers) \in Nat
  BY SomeWorkers
<1> QED BY <1>1 DEF Slack, Excess

\* Every admission by Redis is of a request it counted, but for the late ones.
LEMMA AdmittedCountedKeeps ==
    ASSUME RollingInv, AdmittedCounted, NEW w \in Workers, Request(w) \/ Crashes(w)
    PROVE  AdmittedCounted'
<1>1. TypeOK /\ Clocks /\ UNCHANGED <<kind, timely, now>>
  BY WorkerStep DEF RollingInv, IInv, MemoryInv
<1> SUFFICES ASSUME kind = "rolling", NEW k \in First .. Here
             PROVE  Sum(admitted'["redis"], From(k)) + Cardinality(Counted(k)')
                      + (IF k = Here THEN Cardinality(Latecomers') ELSE 0)
                        <= Sum(count', CountersFrom(k)) + Slack
  <2>1. /\ Here' = Here /\ First' = First /\ Slack' = Slack
        /\ \A k \in Int : From(k)' = From(k) /\ CountersFrom(k)' = CountersFrom(k)
    BY <1>1, HereSame
  <2>2. \A k \in Int : /\ Sum(admitted["redis"], From(k))' = Sum(admitted'["redis"], From(k))
                       /\ Sum(count, CountersFrom(k))' = Sum(count', CountersFrom(k))
    BY <2>1 DEF Sum, Numbered
  <2>3. kind = "rolling" => First .. Here \subseteq Int
    BY <1>1, HereTyped
  <2> QED BY <1>1, <2>1, <2>2, <2>3 DEF AdmittedCounted
<1>2. Here \in Nat /\ First \in Int /\ Here >= First /\ Slack \in Nat /\ k \in Int /\ k <= Here
  BY <1>1, HereTyped, SlackTyped
<1> DEFINE a == Sum(admitted["redis"], From(k))
           an == Sum(admitted'["redis"], From(k))
           r == Sum(count, CountersFrom(k))
           rn == Sum(count', CountersFrom(k))
           q == Sum(count, RecentCounters)
           qn == Sum(count', RecentCounters)
           p == Cardinality(Counted(k))
           pn == Cardinality(Counted(k)')
           l == Cardinality(Latecomers)
           ln == Cardinality(Latecomers')
           e == Cardinality(LateCounted)
           en == Cardinality(LateCounted')
<1>3. /\ a \in Nat /\ r \in Nat /\ p \in Nat /\ l \in Nat
      /\ an \in Nat /\ rn \in Nat /\ pn \in Nat /\ ln \in Nat
      /\ \/ an = a /\ rn = r /\ qn = q /\ pn = p /\ ln = l /\ en = e
         \/ /\ RollingCounts(w) /\ an = a /\ ln = l
            /\ BucketAt(w) >= k => rn = r + 1 /\ pn = p + 1
            /\ BucketAt(w) < k => rn = r /\ pn = p
         \/ /\ RollingLetsIn(w) /\ an = a + 1 /\ rn = r
            /\ BucketAt(w) >= k => pn = p - 1
            /\ BucketAt(w) < k => pn = p
            /\ BucketAt(w) < Here => ln = l - 1
            /\ BucketAt(w) = Here => ln = l
         \/ an = a /\ rn >= r /\ pn <= p /\ ln <= l
  <2>1. /\ a \in Nat /\ r \in Nat /\ q \in Nat /\ p \in Nat /\ l \in Nat /\ e \in Nat
        /\ an \in Nat /\ rn \in Nat /\ qn \in Nat /\ pn \in Nat /\ ln \in Nat /\ en \in Nat
        /\ \/ an = a /\ rn = r /\ qn = q /\ pn = p /\ ln = l /\ en = e
           \/ /\ RollingCounts(w) /\ an = a /\ ln = l
              /\ BucketAt(w) >= k => rn = r + 1 /\ pn = p + 1
              /\ BucketAt(w) < k => rn = r /\ pn = p
              /\ BucketAt(w) < Here => qn = q + 1 /\ en = e + 1
              /\ BucketAt(w) = Here => qn = q /\ en = e
           \/ /\ RollingLetsIn(w) /\ an = a + 1 /\ rn = r /\ qn = q
              /\ BucketAt(w) >= k => pn = p - 1
              /\ BucketAt(w) < k => pn = p
              /\ BucketAt(w) < Here => ln = l - 1 /\ en = e - 1
              /\ BucketAt(w) = Here => ln = l /\ en = e
           \/ an = a /\ rn >= r /\ qn >= q /\ pn <= p /\ ln <= l /\ en <= e
    BY <1>2, RollingDeltas
  <2> HIDE DEF a, an, r, rn, q, qn, p, pn, l, ln, e, en
  <2> QED BY <2>1
<1>4. RollingLetsIn(w) \/ RollingCounts(w) => BucketAt(w) \in {Here - 1, Here}
  BY <1>1, BucketAtTyped DEF RollingLetsIn, RollingCounts
<1>5. a + p + (IF k = Here THEN l ELSE 0) <= r + Slack
  BY DEF AdmittedCounted
<1> HIDE DEF a, an, r, rn, q, qn, p, pn, l, ln, e, en
<1>6. CASE k = Here
  <2>1. an + pn + ln <= rn + Slack
    BY <1>2, <1>3, <1>4, <1>5, <1>6
  <2> QED BY <1>6, <2>1 DEF an, pn, ln, rn
<1>7. CASE k # Here
  <2>1. RollingLetsIn(w) \/ RollingCounts(w) => BucketAt(w) >= k /\ ~(BucketAt(w) < k)
    BY <1>2, <1>4, <1>7
  <2>2. an + pn + 0 <= rn + Slack
    BY <1>2, <1>3, <1>5, <1>7, <2>1
  <2> QED BY <1>7, <2>2 DEF an, pn, rn
<1> QED BY <1>6, <1>7

\* What a request that is let in found counted.
LEMMA FoundCounted ==
    ASSUME RollingInv, kind = "rolling", NEW w \in Workers, RollingLetsIn(w)
    PROVE  /\ BucketAt(w) = Here => Sum(count, CountersFrom(First)) <= Limit
           /\ BucketAt(w) < Here => Sum(count, RecentCounters) <= Limit
<1>1. TypeOK /\ Clocks /\ worker[w].pc # "idle"
  BY DEF RollingInv, IInv, MemoryInv, RollingLetsIn
<1>2. /\ Here \in Nat /\ First \in Int /\ NumBuckets \in Nat \ {0} /\ First = Here - NumBuckets
      /\ BucketAt(w) \in {Here - 1, Here} /\ Limit \in Nat
  BY <1>1, HereTyped, BucketAtTyped DEF First
<1>3. /\ count \in [Counters -> Nat] /\ IsFiniteSet(Counters) /\ Counters \subseteq Nat
  <2>1. Counters \subseteq Nat
    BY BoundsAssumption DEF Counters, Time
  <2> QED BY <1>1, <2>1, TimesFinite DEF TypeOK
<1> DEFINE found == BucketsCounted(BucketAt(w)) \cap Counters
           f == count
<1>4. ~(Sum(count, found) > Limit)
  BY DEF RollingLetsIn
<1>5. Sum(count, found) \in Nat
  BY <1>3, SumTyped
<1>6. ASSUME NEW S \in SUBSET Counters, \A c \in S : count[c] > 0 => c \in found
      PROVE  Sum(count, S) <= Limit
  <2>1. found \in SUBSET Counters /\ f \in [Counters -> Nat]
    BY <1>3
  <2>2. \A c \in S : f[c] > 0 => c \in found /\ f[c] <= f[c]
    BY <1>3, <1>6
  <2>3. f = count
    OBVIOUS
  <2> HIDE DEF found, f
  <2>4. Sum(f, S) <= Sum(f, found) /\ Sum(f, S) \in Nat
    BY <1>3, <2>1, <2>2, SumCovered, SumTyped
  <2> QED BY <1>2, <1>4, <1>5, <2>3, <2>4
<1>7. ASSUME BucketAt(w) = Here
      PROVE  Sum(count, CountersFrom(First)) <= Limit
  <2>1. \A c \in CountersFrom(First) : count[c] > 0 => c \in found
    <3> SUFFICES ASSUME NEW c \in Counters, c >= First, count[c] > 0 PROVE c \in found
      BY DEF CountersFrom
    <3>1. ~(c > Here)
      BY DEF RollingInv, LivesLong
    <3>2. c \in Nat
      BY <1>3
    <3> QED BY <1>2, <1>7, <3>1, <3>2 DEF BucketsCounted
  <2>2. CountersFrom(First) \in SUBSET Counters
    BY DEF CountersFrom
  <2> QED BY <1>6, <2>1, <2>2
<1>8. ASSUME BucketAt(w) < Here
      PROVE  Sum(count, RecentCounters) <= Limit
  <2>1. \A c \in RecentCounters : c \in found
    <3> SUFFICES ASSUME NEW c \in Counters, First <= c, c < Here PROVE c \in found
      BY DEF RecentCounters
    <3>1. c \in Nat /\ BucketAt(w) = Here - 1
      BY <1>2, <1>3, <1>8
    <3> QED BY <1>2, <3>1 DEF BucketsCounted
  <2>2. RecentCounters \in SUBSET Counters
    BY DEF RecentCounters
  <2> QED BY <1>6, <2>1, <2>2
<1> QED BY <1>7, <1>8

\* A request let in by a count that holds its own bucket found all the others
\* counted; one that is late, all but those of the present bucket.
LEMMA RollingBoundKeeps ==
    ASSUME RollingWhole, NEW w \in Workers, Request(w) \/ Crashes(w)
    PROVE  RollingBound'
<1>1. TypeOK /\ Clocks /\ RollingInv /\ UNCHANGED <<kind, timely, now>>
  BY WorkerStep DEF RollingWhole, RollingInv, IInv, MemoryInv
<1> SUFFICES ASSUME kind = "rolling"
             PROVE  /\ Sum(admitted'["redis"], From(First)) <= Limit + Excess
                    /\ \/ Sum(admitted'["redis"], From(First)) + Cardinality(Latecomers')
                            <= Limit + Excess
                       \/ Sum(admitted'["redis"], From(First)) + Cardinality(LateCounted')
                            <= Sum(count', RecentCounters) + Slack
  <2>1. Here' = Here /\ First' = First /\ Slack' = Slack /\ Excess' = Excess /\ Limit' = Limit
    BY <1>1, HereSame
  <2>2. kind = "rolling" => First \in Int
    BY <1>1, HereTyped
  <2>3. kind = "rolling" => From(First)' = From(First)
    BY <1>1, <2>1 DEF From, BucketOf
  <2>4. RecentCounters' = RecentCounters
    BY <2>1 DEF RecentCounters
  <2>5. kind = "rolling" => Sum(admitted["redis"], From(First))' = Sum(admitted'["redis"], From(First))
    BY <2>3 DEF Sum, Numbered
  <2>6. Sum(count, RecentCounters)' = Sum(count', RecentCounters)
    BY <2>4 DEF Sum, Numbered
  <2> QED BY <1>1, <2>1, <2>5, <2>6 DEF RollingBound
<1>2. /\ Here \in Nat /\ First \in Int /\ First < Here /\ First <= Here /\ First \in First .. Here
      /\ Limit \in Nat \ {0}
  BY <1>1, HereTyped
<1> DEFINE a == Sum(admitted["redis"], From(First))
           an == Sum(admitted'["redis"], From(First))
           r == Sum(count, CountersFrom(First))
           rn == Sum(count', CountersFrom(First))
           q == Sum(count, RecentCounters)
           qn == Sum(count', RecentCounters)
           l == Cardinality(Latecomers)
           ln == Cardinality(Latecomers')
           e == Cardinality(LateCounted)
           en == Cardinality(LateCounted')
           size == Cardinality(Workers)
<1>3. PICK k \in First .. Here : k = First
  BY <1>2
<1> DEFINE p == Cardinality(Counted(k))
           pn == Cardinality(Counted(k)')
<1>4. /\ a \in Nat /\ r \in Nat /\ q \in Nat /\ p \in Nat /\ l \in Nat /\ e \in Nat
      /\ an \in Nat /\ rn \in Nat /\ qn \in Nat /\ pn \in Nat /\ ln \in Nat /\ en \in Nat
      /\ \/ an = a /\ rn = r /\ qn = q /\ pn = p /\ ln = l /\ en = e
         \/ /\ RollingCounts(w) /\ an = a /\ ln = l
            /\ BucketAt(w) >= k => rn = r + 1 /\ pn = p + 1
            /\ BucketAt(w) < k => rn = r /\ pn = p
            /\ BucketAt(w) < Here => qn = q + 1 /\ en = e + 1
            /\ BucketAt(w) = Here => qn = q /\ en = e
         \/ /\ RollingLetsIn(w) /\ an = a + 1 /\ rn = r /\ qn = q
            /\ BucketAt(w) >= k => pn = p - 1
            /\ BucketAt(w) < k => pn = p
            /\ BucketAt(w) < Here => ln = l - 1 /\ en = e - 1
            /\ BucketAt(w) = Here => ln = l /\ en = e
         \/ an = a /\ rn >= r /\ qn >= q /\ pn <= p /\ ln <= l /\ en <= e
  <2>1. /\ k \in Int /\ k <= Here
        /\ a = Sum(admitted["redis"], From(k)) /\ an = Sum(admitted'["redis"], From(k))
        /\ r = Sum(count, CountersFrom(k)) /\ rn = Sum(count', CountersFrom(k))
    BY <1>2, <1>3
  <2> HIDE DEF a, an, r, rn
  <2> QED BY <1>1, <2>1, RollingDeltas
<1>5. a + p <= r + Slack
  <2>1. Sum(admitted["redis"], From(k)) + Cardinality(Counted(k))
          + (IF k = Here THEN Cardinality(Latecomers) ELSE 0)
            <= Sum(count, CountersFrom(k)) + Slack
    BY DEF RollingWhole, AdmittedCounted
  <2>2. k # Here /\ k = First
    BY <1>2, <1>3
  <2> QED BY <1>4, <2>1, <2>2
<1>6. /\ a <= Limit + Excess
      /\ a + l <= Limit + Excess \/ a + e <= q + Slack
  BY DEF RollingWhole, RollingBound
<1>7. /\ Slack \in Nat /\ Excess \in Int /\ size \in Nat
      /\ timely => Slack = 0 /\ Excess = 0
      /\ ~timely => Slack = size /\ Excess = 2 * size - 1
  BY SlackTyped
<1>8. RollingLetsIn(w) \/ RollingCounts(w) =>
         /\ BucketAt(w) \in {Here - 1, Here} /\ BucketAt(w) \in Nat
         /\ timely => BucketAt(w) = Here
  BY <1>1, BucketAtTyped DEF RollingLetsIn, RollingCounts
<1>9. RollingLetsIn(w) /\ BucketAt(w) = Here => r <= Limit
  BY <1>1, FoundCounted
<1>10. RollingLetsIn(w) /\ BucketAt(w) < Here => q <= Limit
  BY <1>1, FoundCounted
<1>11. timely => l = 0
  <2> SUFFICES ASSUME timely PROVE Latecomers = {}
    BY FS_EmptySet
  <2>1. \A v \in Workers : worker[v].pc # "idle" => BucketAt(v) = Here
    BY <1>1, BucketAtTyped
  <2>2. \A v \in Workers : worker[v].pc # "idle" => ~(BucketAt(v) < Here)
    BY <1>2, <2>1
  <2> QED BY <2>2 DEF Latecomers, Late, BucketAt, Here
<1>12. ASSUME RollingLetsIn(w) PROVE size >= 1 /\ (BucketAt(w) = Here => l <= size - 1)
  <2>1. size >= 1
    <3>1. Workers \in SUBSET Workers /\ {} \in SUBSET Workers /\ Cardinality({}) = 0
      BY FS_EmptySet
    <3>2. Cardinality({}) <= size - 1
      BY <3>1, SomeWorkers
    <3> QED BY <1>7, <3>1, <3>2
  <2>2. BucketAt(w) = Here => w \notin Latecomers
    <3>1. ~(Here < Here)
      BY <1>2
    <3> QED BY <3>1 DEF Latecomers, Late, BucketAt, Here
  <2>3. Latecomers \in SUBSET Workers
    BY DEF Latecomers
  <2> QED BY <2>1, <2>2, <2>3, SomeWorkers
<1> HIDE DEF a, an, r, rn, q, qn, p, pn, l, ln, e, en, size
<1>13. CASE RollingLetsIn(w) /\ an = a + 1 /\ BucketAt(w) = Here /\ pn = p - 1 /\ ln = l
  <2>1. a + 1 <= r + Slack /\ r <= Limit
    BY <1>4, <1>5, <1>7, <1>9, <1>13
  <2>2. CASE timely
    <3>1. an + ln <= Limit + Excess /\ an <= Limit + Excess
      BY <1>2, <1>4, <1>7, <1>11, <1>13, <2>1, <2>2
    <3> QED BY <3>1 DEF an, ln
  <2>3. CASE ~timely
    <3>1. an + ln <= Limit + Excess /\ an <= Limit + Excess
      BY <1>2, <1>4, <1>7, <1>12, <1>13, <2>1, <2>3
    <3> QED BY <3>1 DEF an, ln
  <2> QED BY <2>2, <2>3
<1>14. CASE RollingLetsIn(w) /\ an = a + 1 /\ qn = q /\ BucketAt(w) < Here
              /\ ln = l - 1 /\ en = e - 1
  <2>1. ~timely /\ q <= Limit /\ size >= 1
    BY <1>2, <1>8, <1>10, <1>12, <1>14
  <2>2. CASE a + l <= Limit + Excess
    <3>1. an + ln <= Limit + Excess /\ an <= Limit + Excess
      BY <1>2, <1>4, <1>7, <1>14, <2>2
    <3> QED BY <3>1 DEF an, ln
  <2>3. CASE a + e <= q + Slack
    <3>1. an + en <= qn + Slack /\ an <= Limit + Excess
      BY <1>2, <1>4, <1>7, <1>14, <2>1, <2>3
    <3> QED BY <3>1 DEF an, en, qn
  <2> QED BY <1>6, <2>2, <2>3
<1>15. CASE an = a /\ ln <= l /\ ((en <= e /\ qn >= q) \/ (en = e + 1 /\ qn = q + 1))
  <2>1. CASE a + l <= Limit + Excess
    <3>1. an + ln <= Limit + Excess /\ an <= Limit + Excess
      BY <1>2, <1>4, <1>6, <1>7, <1>15, <2>1
    <3> QED BY <3>1 DEF an, ln
  <2>2. CASE a + e <= q + Slack
    <3>1. an + en <= qn + Slack /\ an <= Limit + Excess
      BY <1>2, <1>4, <1>6, <1>7, <1>15, <2>2
    <3> QED BY <3>1 DEF an, en, qn
  <2> QED BY <1>6, <2>1, <2>2
<1>16. BucketAt(w) = Here => BucketAt(w) >= k
  BY <1>2, <1>3
<1>17. CASE an = a /\ rn = r /\ qn = q /\ pn = p /\ ln = l /\ en = e
  <2>1. an = a /\ ln <= l /\ en <= e /\ qn >= q
    BY <1>4, <1>17
  <2> QED BY <1>15, <2>1, Zenon
<1>18. CASE /\ RollingCounts(w) /\ an = a /\ ln = l
            /\ BucketAt(w) < Here => qn = q + 1 /\ en = e + 1
            /\ BucketAt(w) = Here => qn = q /\ en = e
  <2>1. BucketAt(w) < Here \/ BucketAt(w) = Here
    BY <1>2, <1>8, <1>18
  <2>2. ln <= l /\ (BucketAt(w) = Here => en <= e /\ qn >= q)
    BY <1>4, <1>18
  <2>3. an = a /\ ln <= l /\ ((en <= e /\ qn >= q) \/ (en = e + 1 /\ qn = q + 1))
    BY <1>18, <2>1, <2>2, Zenon
  <2> QED BY <1>15, <2>3, Zenon
<1>19. CASE /\ RollingLetsIn(w) /\ an = a + 1 /\ qn = q
            /\ BucketAt(w) >= k => pn = p - 1
            /\ BucketAt(w) < Here => ln = l - 1 /\ en = e - 1
            /\ BucketAt(w) = Here => ln = l
  <2>1. BucketAt(w) < Here \/ BucketAt(w) = Here
    BY <1>2, <1>8, <1>19
  <2> QED BY <1>13, <1>14, <1>16, <1>19, <2>1
<1>20. CASE an = a /\ qn >= q /\ ln <= l /\ en <= e
  <2>1. an = a /\ ln <= l /\ en <= e /\ qn >= q
    BY <1>20
  <2> QED BY <1>15, <2>1, Zenon
<1> QED BY <1>4, <1>17, <1>18, <1>19, <1>20

\* A later time is in no earlier bucket.
LEMMA BucketOrder ==
    ASSUME NEW t \in Nat, NEW u \in Nat, t <= u
    PROVE  BucketOf(t) \in Nat /\ BucketOf(u) \in Nat /\ BucketOf(t) <= BucketOf(u)
<1>1. BucketOf(t) \in Nat /\ BucketOf(u) \in Nat /\ Bucket \in Nat \ {0}
  BY BucketFrom, WindowsAssumption
<1>2. BucketOf(t) >= BucketOf(t)
  BY <1>1
<1>3. t >= Bucket * BucketOf(t) /\ Bucket * BucketOf(t) \in Int
  BY <1>1, <1>2, BucketFrom, SMT
<1>4. u >= Bucket * BucketOf(t)
  BY <1>3
<1> QED BY <1>1, <1>4, BucketFrom

\* What a tick does: the counters of the window stay, and what was admitted.
LEMMA RollingTicks ==
    ASSUME RollingInv, Ticks, kind = "rolling", NEW h, h = BucketOf(now + 1)
    PROVE  /\ now' = now + 1 /\ now + 1 \in Time /\ UNCHANGED <<kind, timely, worker, admitted>>
           /\ h \in {Here, Here + 1} /\ Here' = h /\ First' = h - NumBuckets
           /\ Slack' = Slack /\ Excess' = Excess /\ Limit' = Limit
           /\ count' \in [Counters -> Nat]
           /\ \A c \in Counters : c >= h - NumBuckets => count'[c] = count[c]
           /\ \A k \in Int : /\ From(k)' = From(k) /\ CountersFrom(k)' = CountersFrom(k)
                             /\ Counted(k)' = Counted(k)
           /\ h = Here => Latecomers' = Latecomers
           /\ timely => Latecomers' = {}
<1>1. TypeOK
  BY DEF RollingInv, IInv
<1>2. /\ now' = now + 1 /\ now < MaxTime /\ UNCHANGED <<kind, timely, worker, admitted>>
      /\ count' = [c \in Counters |-> IF left[c] = 1 THEN 0 ELSE count[c]]
      /\ timely => \A w \in Workers : worker[w].pc = "idle"
  BY DEF Ticks, config
<1>3. now \in Nat /\ Here \in Nat /\ now + 1 \in Time
  BY <1>1, <1>2, HereTyped, BoundsAssumption DEF Time
<1>4. h \in {Here, Here + 1}
  BY <1>3, NextBucket DEF Here
<1>5. Here' = h /\ BucketOf(now)' = h
  BY <1>2 DEF Here, BucketOf
<1>6. NumBuckets' = NumBuckets /\ Limit' = Limit
  BY <1>2 DEF NumBuckets, Window, Limit
<1>7. Slack' = Slack /\ Excess' = Excess
  BY <1>2 DEF Slack, Excess
<1>8. count' \in [Counters -> Nat]
  BY <1>1, <1>2 DEF TypeOK
<1>9. \A c \in Counters : c >= h - NumBuckets => count'[c] = count[c]
  BY CountersStay
<1>10. \A k \in Int : /\ From(k)' = From(k) /\ CountersFrom(k)' = CountersFrom(k)
                      /\ Counted(k)' = Counted(k)
  BY <1>2 DEF From, CountersFrom, Counted, BucketOf
<1>11. Latecomers' = {w \in Workers : worker[w].pc # "idle" /\ BucketOf(worker[w].at) < h}
  BY <1>2, <1>5 DEF Latecomers, Late, BucketOf
<1>12. h = Here => Latecomers' = Latecomers
  BY <1>11 DEF Latecomers, Late, Here
<1>13. timely => Latecomers' = {}
  BY <1>2, <1>11
<1> QED BY <1>2, <1>3, <1>4, <1>5, <1>6, <1>7, <1>8, <1>9, <1>10, <1>12, <1>13 DEF First

\* In a bucket to come nothing was admitted, and no request waits for an answer.
LEMMA NothingToCome ==
    ASSUME RollingInv, kind = "rolling"
    PROVE  /\ Sum(admitted["redis"], From(Here + 1)) = 0
           /\ Counted(Here + 1) = {}
<1>1. TypeOK /\ Past /\ Clocks
  BY DEF RollingInv, IInv, MemoryInv
<1>2. Here \in Nat /\ now \in Nat /\ admitted["redis"] \in [Time -> Nat]
  BY <1>1, HereTyped, HistoryTyped
<1>3. ASSUME NEW t \in Time, t <= now PROVE ~(BucketOf(t) >= Here + 1)
  <2>1. t \in Nat
    BY TimesFinite
  <2>2. BucketOf(t) \in Nat /\ BucketOf(t) <= Here
    BY <1>2, <1>3, <2>1, BucketOrder DEF Here
  <2> QED BY <1>2, <2>2
<1>4. \A t \in From(Here + 1) : admitted["redis"][t] = 0
  <2> SUFFICES ASSUME NEW t \in Time, BucketOf(t) >= Here + 1 PROVE admitted["redis"][t] = 0
    BY DEF From
  <2>1. t > now
    BY <1>2, <1>3, TimesFinite
  <2> QED BY <1>1, <2>1 DEF Past
<1>5. From(Here + 1) \in SUBSET Time
  BY DEF From
<1>6. Sum(admitted["redis"], From(Here + 1)) = 0
  BY <1>2, <1>4, <1>5, SumZero, TimesFinite
<1>7. \A w \in Workers : worker[w].pc # "idle" => worker[w].at \in Time /\ worker[w].at <= now
  BY <1>1 DEF TypeOK, Clocks
<1>8. Counted(Here + 1) = {}
  <2> SUFFICES ASSUME NEW w \in Workers, worker[w].pc \in {"expire", "mget"},
                      BucketOf(worker[w].at) >= Here + 1
               PROVE  FALSE
    BY DEF Counted
  <2> QED BY <1>3, <1>7
<1> QED BY <1>6, <1>8

\* A sum of counters that a tick leaves alone.
LEMMA CountersSum ==
    ASSUME RollingInv, Ticks, kind = "rolling", NEW S \in SUBSET Counters,
           \A c \in S : count'[c] = count[c]
    PROVE  Sum(count', S) = Sum(count, S) /\ Sum(count, S) \in Nat
<1> DEFINE f == count
           g == count'
<1>1. f \in [Counters -> Nat] /\ g \in [Counters -> Nat] /\ IsFiniteSet(Counters)
  <2>1. count \in [Counters -> Nat]
    BY DEF RollingInv, IInv, TypeOK
  <2> QED BY <2>1, RollingTicks, TimesFinite
<1>2. \A c \in S : g[c] = f[c]
  OBVIOUS
<1> HIDE DEF f, g
<1>3. Sum(g, S) = Sum(f, S) /\ Sum(f, S) \in Nat
  BY <1>1, <1>2, SumEqual, SumTyped
<1> QED BY <1>3 DEF f, g

\* A new bucket begins with no more than the late requests.
LEMMA AdmittedCountedTicks ==
    ASSUME RollingInv, AdmittedCounted, Ticks
    PROVE  AdmittedCounted'
<1> DEFINE h == BucketOf(now + 1)
           adm == admitted["redis"]
<1>1. TypeOK
  BY DEF RollingInv, IInv
<1> SUFFICES ASSUME kind = "rolling", NEW k \in Int, h - NumBuckets <= k, k <= h
             PROVE  Sum(adm, From(k)) + Cardinality(Counted(k))
                      + (IF k = h THEN Cardinality(Latecomers') ELSE 0)
                        <= Sum(count', CountersFrom(k)) + Slack
  <2>1. kind' = kind
    BY DEF Ticks, config
  <2>2. ASSUME kind = "rolling"
        PROVE  /\ Here' = h /\ First' = h - NumBuckets /\ Slack' = Slack
               /\ h \in Int /\ NumBuckets \in Int
               /\ \A k \in Int : /\ Sum(admitted["redis"], From(k))' = Sum(adm, From(k))
                                 /\ Sum(count, CountersFrom(k))' = Sum(count', CountersFrom(k))
                                 /\ Counted(k)' = Counted(k)
    <3>1. /\ Here' = h /\ First' = h - NumBuckets /\ Slack' = Slack /\ admitted' = admitted
          /\ \A k \in Int : /\ From(k)' = From(k) /\ CountersFrom(k)' = CountersFrom(k)
                            /\ Counted(k)' = Counted(k)
          /\ h \in {Here, Here + 1}
      BY <2>2, RollingTicks
    <3>2. h \in Int /\ NumBuckets \in Int
      BY <1>1, <2>2, <3>1, HereTyped
    <3>3. \A k \in Int : /\ Sum(admitted["redis"], From(k))' = Sum(adm, From(k))
                         /\ Sum(count, CountersFrom(k))' = Sum(count', CountersFrom(k))
      BY <3>1 DEF Sum, Numbered
    <3> QED BY <3>1, <3>2, <3>3
  <2> HIDE DEF h, adm
  <2>3. kind = "rolling" => \A k \in h - NumBuckets .. h : k \in Int /\ h - NumBuckets <= k /\ k <= h
    BY <2>2
  <2> QED BY <2>1, <2>2, <2>3 DEF AdmittedCounted
<1>2. /\ h \in {Here, Here + 1} /\ admitted' = admitted
      /\ \A c \in Counters : c >= h - NumBuckets => count'[c] = count[c]
      /\ h = Here => Latecomers' = Latecomers
      /\ timely => Latecomers' = {}
  BY RollingTicks
<1>3. /\ Here \in Nat /\ NumBuckets \in Nat \ {0} /\ First = Here - NumBuckets
      /\ adm \in [Time -> Nat] /\ Slack \in Nat
  BY <1>1, HereTyped, SlackTyped, HistoryTyped DEF First
<1>4. Sum(count', CountersFrom(k)) = Sum(count, CountersFrom(k)) /\ Sum(count, CountersFrom(k)) \in Nat
  <2>1. CountersFrom(k) \in SUBSET Counters
    BY DEF CountersFrom
  <2>2. \A c \in CountersFrom(k) : count'[c] = count[c]
    <3> SUFFICES ASSUME NEW c \in Counters, c >= k PROVE c >= h - NumBuckets
      BY <1>2 DEF CountersFrom
    <3>1. c \in Nat /\ h \in Int
      BY <1>2, <1>3, BoundsAssumption DEF Counters, Time
    <3> QED BY <1>3, <3>1
  <2> QED BY <2>1, <2>2, CountersSum
<1>5. /\ Sum(adm, From(k)) \in Nat /\ Cardinality(Counted(k)) \in Nat
      /\ Cardinality(Latecomers') \in Nat /\ Cardinality(Latecomers') <= Slack
      /\ Cardinality(Latecomers) \in Nat
  <2>1. From(k) \in SUBSET Time /\ Counted(k) \in SUBSET Workers
        /\ Latecomers' \in SUBSET Workers /\ Latecomers \in SUBSET Workers
    BY DEF From, Counted, Latecomers
  <2>2. Sum(adm, From(k)) \in Nat
    BY <1>3, <2>1, SumTyped, TimesFinite
  <2>3. /\ Cardinality(Counted(k)) \in Nat /\ Cardinality(Latecomers') \in Nat
        /\ Cardinality(Latecomers') <= Cardinality(Workers) /\ Cardinality(Latecomers) \in Nat
    BY <2>1, SomeWorkers
  <2>4. timely => Cardinality(Latecomers') = 0
    BY <1>2, FS_EmptySet
  <2> QED BY <2>2, <2>3, <2>4, SlackTyped
<1>6. CASE k = h /\ h = Here + 1
  <2>1. Sum(adm, From(k)) = 0 /\ Counted(k) = {}
    BY <1>6, NothingToCome
  <2>2. Cardinality(Counted(k)) = 0
    BY <2>1, FS_EmptySet
  <2> HIDE DEF h, adm
  <2> QED BY <1>3, <1>4, <1>5, <1>6, <2>1, <2>2
<1>7. CASE h = Here \/ k # h
  <2>1. k \in First .. Here
    BY <1>2, <1>3, <1>7
  <2>2. Sum(adm, From(k)) + Cardinality(Counted(k))
          + (IF k = Here THEN Cardinality(Latecomers) ELSE 0)
            <= Sum(count, CountersFrom(k)) + Slack
    BY <2>1 DEF AdmittedCounted
  <2>3. /\ h = Here => Cardinality(Latecomers') = Cardinality(Latecomers)
        /\ h # Here => k # h
    BY <1>2, <1>7
  <2> HIDE DEF h, adm
  <2> QED BY <1>3, <1>4, <1>5, <2>2, <2>3
<1> QED BY <1>2, <1>6, <1>7

\* In a new bucket the bound follows from what the counters hold.
LEMMA RollingBoundTicks ==
    ASSUME RollingWhole, Ticks
    PROVE  RollingBound'
<1> DEFINE h == BucketOf(now + 1)
           f1 == h - NumBuckets
           adm == admitted["redis"]
           late == LateCounted'
           recent == {c \in Counters : f1 <= c /\ c < h}
<1>1. TypeOK /\ RollingInv
  BY DEF RollingWhole, RollingInv, IInv
<1> SUFFICES ASSUME kind = "rolling"
             PROVE  /\ Sum(adm, From(f1)) <= Limit + Excess
                    /\ \/ Sum(adm, From(f1)) + Cardinality(Latecomers') <= Limit + Excess
                       \/ Sum(adm, From(f1)) + Cardinality(late) <= Sum(count', recent) + Slack
  <2>1. kind' = kind
    BY DEF Ticks, config
  <2>2. ASSUME kind = "rolling"
        PROVE  /\ Limit' = Limit /\ Excess' = Excess /\ Slack' = Slack
               /\ Sum(admitted["redis"], From(First))' = Sum(adm, From(f1))
               /\ Sum(count, RecentCounters)' = Sum(count', recent)
    <3>1. /\ Here' = h /\ First' = f1 /\ Slack' = Slack /\ Excess' = Excess /\ Limit' = Limit
          /\ admitted' = admitted
      BY <1>1, <2>2, RollingTicks
    <3>2. From(First)' = From(f1)
      BY <3>1 DEF From, BucketOf
    <3>3. RecentCounters' = recent
      BY <3>1 DEF RecentCounters
    <3>4. Sum(admitted["redis"], From(First))' = Sum(adm, From(f1))
      BY <3>1, <3>2 DEF Sum, Numbered
    <3>5. Sum(count, RecentCounters)' = Sum(count', recent)
      BY <3>3 DEF Sum, Numbered
    <3> QED BY <3>1, <3>4, <3>5
  <2> HIDE DEF h, f1, adm, late, recent
  <2> QED BY <2>1, <2>2 DEF RollingBound, late
<1>2. /\ h \in {Here, Here + 1} /\ First' = f1 /\ Here' = h
      /\ \A c \in Counters : c >= f1 => count'[c] = count[c]
      /\ \A k \in Int : Counted(k)' = Counted(k)
      /\ h = Here => Latecomers' = Latecomers
      /\ UNCHANGED <<worker, admitted>>
  BY <1>1, RollingTicks
<1>3. /\ Here \in Nat /\ NumBuckets \in Nat \ {0} /\ First = Here - NumBuckets /\ First \in Int
      /\ adm \in [Time -> Nat] /\ Slack \in Nat /\ Excess \in Int /\ Limit \in Nat
      /\ h \in Int /\ f1 \in Int /\ Counters \subseteq Nat
  <2>1. Counters \subseteq Nat
    BY BoundsAssumption DEF Counters, Time
  <2> QED BY <1>1, <1>2, <2>1, HereTyped, SlackTyped, HistoryTyped DEF First
<1>4. late \in SUBSET Workers /\ late \subseteq Counted(f1)
      /\ (h = Here => late = LateCounted)
  <2>1. LateCounted' = (Counted(First) \cap Latecomers)'
    BY DEF LateCounted
  <2>2. Counted(First)' = Counted(f1)
    BY <1>2 DEF Counted, BucketOf
  <2>3. late = Counted(f1) \cap Latecomers'
    BY <2>1, <2>2
  <2>4. h = Here => f1 = First
    BY <1>3
  <2> QED BY <1>2, <2>3, <2>4 DEF LateCounted, Counted
<1>5. recent \in SUBSET Counters /\ RecentCounters \in SUBSET Counters
      /\ From(f1) \in SUBSET Time /\ From(First) \in SUBSET Time
  BY DEF RecentCounters, From
<1>6. Sum(count', recent) = Sum(count, recent)
  <2>1. \A c \in recent : count'[c] = count[c]
    <3> SUFFICES ASSUME NEW c \in Counters, f1 <= c PROVE c >= f1
      BY <1>2
    <3> QED BY <1>3
  <2> QED BY <1>1, <1>5, <2>1, CountersSum
<1>7. /\ Sum(adm, From(First)) <= Limit + Excess
      /\ \/ Sum(adm, From(First)) + Cardinality(Latecomers) <= Limit + Excess
         \/ Sum(adm, From(First)) + Cardinality(LateCounted)
              <= Sum(count, RecentCounters) + Slack
  BY DEF RollingWhole, RollingBound
<1>8. CASE h = Here
  <2>1. f1 = First /\ recent = RecentCounters /\ late = LateCounted
    BY <1>3, <1>4, <1>8 DEF RecentCounters
  <2>2. Latecomers' = Latecomers
    BY <1>2, <1>8
  <2> HIDE DEF h, f1, adm, late, recent
  <2> QED BY <1>6, <1>7, <2>1, <2>2
<1>9. CASE h = Here + 1
  <2>1. f1 = First + 1 /\ f1 \in First .. Here
    BY <1>3, <1>9
  <2>2. Sum(adm, From(f1)) <= Sum(adm, From(First))
    <3>1. \A t \in From(f1) : adm[t] > 0 => t \in From(First) /\ adm[t] <= adm[t]
      <4> SUFFICES ASSUME NEW t \in Time, BucketOf(t) >= f1
                   PROVE  BucketOf(t) >= First /\ adm[t] <= adm[t]
        BY DEF From
      <4>1. BucketOf(t) \in Nat
        BY TimesFinite, BucketFrom
      <4>2. adm[t] \in Nat
        BY <1>3
      <4> QED BY <1>3, <2>1, <4>1, <4>2
    <3> HIDE DEF adm, f1
    <3> QED BY <1>3, <1>5, <3>1, SumCovered, TimesFinite
  <2>3. /\ Sum(adm, From(f1)) \in Nat /\ Sum(adm, From(First)) \in Nat
        /\ Cardinality(Counted(f1)) \in Nat /\ Cardinality(late) \in Nat
        /\ Cardinality(late) <= Cardinality(Counted(f1)) /\ Cardinality(Latecomers) \in Nat
    <3>1. Counted(f1) \in SUBSET Workers /\ Latecomers \in SUBSET Workers
      BY DEF Counted, Latecomers
    <3>2. IsFiniteSet(Counted(f1))
      BY <3>1, TimesFinite, FS_Subset
    <3>3. Cardinality(late) <= Cardinality(Counted(f1))
      BY <1>4, <3>2, FS_Subset
    <3>4. Cardinality(Counted(f1)) \in Nat /\ Cardinality(late) \in Nat
          /\ Cardinality(Latecomers) \in Nat
      BY <1>4, <3>1, SomeWorkers
    <3> HIDE DEF adm, f1, late
    <3>5. Sum(adm, From(f1)) \in Nat /\ Sum(adm, From(First)) \in Nat
      BY <1>3, <1>5, SumTyped, TimesFinite
    <3> QED BY <3>3, <3>4, <3>5
  <2>4. Sum(adm, From(f1)) + Cardinality(Counted(f1))
          + (IF f1 = Here THEN Cardinality(Latecomers) ELSE 0)
            <= Sum(count, CountersFrom(f1)) + Slack
    BY <2>1 DEF RollingWhole, AdmittedCounted
  <2>5. Sum(count, CountersFrom(f1)) <= Sum(count, recent)
        /\ Sum(count, CountersFrom(f1)) \in Nat /\ Sum(count, recent) \in Nat
    <3> DEFINE f == count
    <3>1. f \in [Counters -> Nat] /\ CountersFrom(f1) \in SUBSET Counters /\ IsFiniteSet(Counters)
      BY <1>1, TimesFinite DEF TypeOK, CountersFrom
    <3>2. \A c \in CountersFrom(f1) : f[c] > 0 => c \in recent /\ f[c] <= f[c]
      <4> SUFFICES ASSUME NEW c \in Counters, c >= f1, f[c] > 0
                   PROVE  f1 <= c /\ c < h /\ f[c] <= f[c]
        BY DEF CountersFrom
      <4>1. ~(c > Here)
        BY DEF RollingWhole, RollingInv, LivesLong
      <4>2. c \in Nat /\ f[c] \in Nat
        BY <1>3, <3>1
      <4> QED BY <1>3, <1>9, <4>1, <4>2
    <3> HIDE DEF f, f1, recent
    <3>3. Sum(f, CountersFrom(f1)) <= Sum(f, recent)
          /\ Sum(f, CountersFrom(f1)) \in Nat /\ Sum(f, recent) \in Nat
      BY <1>5, <3>1, <3>2, SumCovered, SumTyped
    <3> QED BY <3>3 DEF f
  <2> HIDE DEF h, f1, adm, late, recent
  <2>6. Sum(adm, From(f1)) <= Limit + Excess
    BY <1>3, <1>7, <2>2, <2>3
  <2>7. Sum(adm, From(f1)) + Cardinality(late) <= Sum(count', recent) + Slack
    BY <1>3, <1>6, <2>3, <2>4, <2>5
  <2> QED BY <2>6, <2>7
<1> QED BY <1>2, <1>8, <1>9

\* The buckets looked at cover the window, and at most a bucket more.
LEMMA InWindow ==
    ASSUME TypeOK, kind = "rolling", NEW t \in Time
    PROVE  /\ t > now - Window => BucketOf(t) >= Here - NumBuckets
           /\ BucketOf(t) >= Here - NumBuckets => t > now - (Window + Bucket)
<1> DEFINE p == Bucket * Here
           q == Bucket * (Here - NumBuckets)
           r == Bucket * (Here + 1)
<1>1. /\ Here \in Nat /\ NumBuckets \in Nat \ {0} /\ now \in Nat
      /\ Window = Bucket * NumBuckets /\ Bucket \in Nat \ {0} /\ Window \in Nat
      /\ t \in Nat /\ Here - NumBuckets \in Int
  BY HereTyped, TimesFinite
<1>2. now >= p /\ ~(now >= r)
  <2>1. Here >= Here /\ ~(Here >= Here + 1)
    BY <1>1
  <2> QED BY <1>1, <2>1, BucketFrom DEF Here
<1>3. p \in Int /\ q = p - Window /\ r = p + Bucket
  <2>1. p \in Int
    BY <1>1, SMT
  <2>2. q = p - Window
    BY <1>1, SMTT(20)
  <2>3. r = p + Bucket
    BY <1>1, SMTT(20)
  <2> QED BY <2>1, <2>2, <2>3
<1>4. BucketOf(t) >= Here - NumBuckets <=> t >= q
  BY <1>1, BucketFrom
<1> HIDE DEF p, q, r
<1> QED BY <1>1, <1>2, <1>3, <1>4

\* What was admitted in the last Window ticks was so in the buckets looked at.
LEMMA RollingBoundHolds ==
    ASSUME RollingWhole, kind = "rolling"
    PROVE  Sum(admitted["redis"], Last(Window)) <= Limit + Excess
<1> DEFINE adm == admitted["redis"]
<1>1. TypeOK
  BY DEF RollingWhole, RollingInv, IInv
<1>2. /\ Here \in Nat /\ NumBuckets \in Nat \ {0} /\ First \in Int /\ now \in Nat
      /\ First = Here - NumBuckets /\ Window = Bucket * NumBuckets /\ Bucket \in Nat \ {0}
      /\ adm \in [Time -> Nat] /\ Limit \in Nat /\ Excess \in Int /\ Window \in Nat
  BY <1>1, HereTyped, SlackTyped, HistoryTyped DEF First
<1>4. ASSUME NEW t \in Time, t > now - Window
      PROVE  BucketOf(t) >= First
  BY <1>1, <1>2, <1>4, InWindow
<1>5. \A t \in Last(Window) : adm[t] > 0 => t \in From(First) /\ adm[t] <= adm[t]
  <2> SUFFICES ASSUME NEW t \in Time, t > now - Window
               PROVE  BucketOf(t) >= First /\ adm[t] <= adm[t]
    BY DEF Last, From
  <2>1. adm[t] \in Nat
    BY <1>2
  <2> QED BY <1>4, <2>1
<1>6. Last(Window) \in SUBSET Time /\ From(First) \in SUBSET Time /\ IsFiniteSet(Time)
  BY TimesFinite DEF Last, From
<1>7. Sum(adm, From(First)) <= Limit + Excess
  BY DEF RollingWhole, RollingBound
<1> HIDE DEF adm
<1>8. /\ Sum(adm, Last(Window)) <= Sum(adm, From(First))
      /\ Sum(adm, Last(Window)) \in Nat /\ Sum(adm, From(First)) \in Nat
  BY <1>2, <1>5, <1>6, SumCovered, SumTyped
<1>9. Sum(adm, Last(Window)) <= Limit + Excess
  BY <1>2, <1>7, <1>8
<1> QED BY <1>9 DEF adm

-----------------------------------------------------------------------------
(* Theorems *)

\* At first nothing is counted, asked or admitted.
LEMMA BoundInit ==
    ASSUME Init
    PROVE  BoundInv
<1>1. IInv /\ TypeOK /\ MemoryInv
  BY InitIInv, MemoryInit DEF IInv
<1>2. /\ count = [c \in Counters |-> 0] /\ left = [c \in Counters |-> 0]
      /\ worker = [w \in Workers |-> [pc |-> "idle", at |-> 0]]
      /\ asked = [t \in Time |-> 0] /\ now = 0
      /\ admitted = [s \in Stores |-> [t \in Time |-> 0]]
  BY DEF Init
<1> DEFINE adm == admitted["redis"]
           f == count
<1>3. /\ adm \in [Time -> Nat] /\ \A t \in Time : adm[t] = 0
      /\ f \in [Counters -> Nat] /\ \A c \in Counters : f[c] = 0 /\ left[c] = 0
      /\ asked \in [Time -> Nat] /\ \A t \in Time : asked[t] = 0
      /\ \A w \in Workers : worker[w].pc = "idle"
      /\ 0 \in Counters /\ now \in Time /\ Limit \in Nat \ {0} /\ Window \in Nat \ {0}
  <2>1. "redis" \in Stores
    BY DEF Stores
  <2>2. 0 \in Counters
    BY BoundsAssumption DEF Counters, Time
  <2>3. now \in Time /\ Limit \in Nat \ {0} /\ Window \in Nat \ {0}
    BY <1>1, LimitTyped DEF TypeOK
  <2> QED BY <1>2, <2>1, <2>2, <2>3
<1> HIDE DEF adm, f
<1>4. ASSUME NEW S \in SUBSET Time
      PROVE  Sum(adm, S) = 0 /\ Sum(asked, S) = 0
  BY <1>3, SumZero, TimesFinite
<1>5. ASSUME NEW S \in SUBSET Counters
      PROVE  Sum(f, S) = 0
  BY <1>3, SumZero, TimesFinite
<1>6. Cardinality({}) = 0
  BY FS_EmptySet
<1>7. FixedAsked
  <2>1. Between(Start, now) \in SUBSET Time
    BY BetweenTyped
  <2>2. Sum(asked, Between(Start, now)) = 0
    BY <1>4, <2>1
  <2>3. Asking = {}
    BY <1>3 DEF Asking
  <2>4. count[0] = 0 /\ left[0] = 0
    BY <1>3 DEF f
  <2> QED BY <1>3, <1>6, <2>2, <2>3, <2>4 DEF FixedAsked
<1>8. FixedBound
  <2>1. Between(now - Window + 1, now) \in SUBSET Time
    BY BetweenTyped
  <2>2. Sum(adm, Between(now - Window + 1, now)) = 0 /\ adm[now] = 0
    BY <1>3, <1>4, <2>1
  <2>3. count[0] = 0
    BY <1>3 DEF f
  <2> QED BY <1>3, <2>2, <2>3 DEF FixedBound, adm
<1>9. LivesLong
  BY <1>3 DEF LivesLong, f
<1>10. CountAsked
  <2> SUFFICES ASSUME NEW k \in Int
               PROVE  Sum(count, CountersFrom(k)) + Cardinality(Waiting(k)) <= Sum(asked, From(k))
    BY DEF CountAsked
  <2>1. CountersFrom(k) \in SUBSET Counters /\ From(k) \in SUBSET Time /\ Waiting(k) = {}
    BY <1>3 DEF CountersFrom, From, Waiting
  <2>2. Sum(f, CountersFrom(k)) = 0 /\ Sum(asked, From(k)) = 0
    BY <1>4, <1>5, <2>1
  <2> QED BY <1>6, <2>1, <2>2 DEF f
<1>11. /\ Slack \in Nat /\ Limit + Excess >= 0 /\ Latecomers = {} /\ \A k \in Int : Counted(k) = {}
  BY <1>3, SlackTyped DEF Latecomers, Counted
<1>12. AdmittedCounted
  <2> SUFFICES ASSUME NEW k \in First .. Here
               PROVE  Sum(admitted["redis"], From(k)) + Cardinality(Counted(k))
                        + (IF k = Here THEN Cardinality(Latecomers) ELSE 0)
                          <= Sum(count, CountersFrom(k)) + Slack
    BY DEF AdmittedCounted
  <2>1. CountersFrom(k) \in SUBSET Counters /\ From(k) \in SUBSET Time /\ Counted(k) = {}
    BY <1>3 DEF CountersFrom, From, Counted
  <2>2. Sum(f, CountersFrom(k)) = 0 /\ Sum(adm, From(k)) = 0
    BY <1>4, <1>5, <2>1
  <2> QED BY <1>6, <1>11, <2>1, <2>2 DEF f, adm
<1>13. RollingBound
  <2>1. From(First) \in SUBSET Time
    BY DEF From
  <2>2. Sum(adm, From(First)) = 0
    BY <1>4, <2>1
  <2> QED BY <1>3, <1>6, <1>11, <2>2, SlackTyped DEF RollingBound, adm
<1> QED BY <1>1, <1>7, <1>8, <1>9, <1>10, <1>12, <1>13 DEF BoundInv

\* Nothing moves where nothing happens.
LEMMA BoundStays ==
    ASSUME BoundInv, UNCHANGED vars
    PROVE  FixedAsked' /\ FixedBound' /\ LivesLong' /\ CountAsked' /\ AdmittedCounted' /\ RollingBound'
<1>1. UNCHANGED <<kind, timely, now, count, left, worker, memory, asked, admitted, crashes, lost>>
  BY DEF vars
<1>2. /\ Here' = Here /\ First' = First /\ Window' = Window /\ Limit' = Limit
      /\ Slack' = Slack /\ Excess' = Excess
      /\ \A k \in Int : From(k)' = From(k) /\ CountersFrom(k)' = CountersFrom(k)
  BY <1>1, HereSame
<1>3. FixedAsked'
  <2>1. Start' = Start /\ Asking' = Asking
    BY <1>1, <1>2 DEF Start, Asking
  <2>2. Sum(asked, Between(Start, now))' = Sum(asked, Between(Start, now))
    BY <1>1, <2>1 DEF Sum, Numbered, Between
  <2> QED BY <1>1, <1>2, <2>1, <2>2 DEF BoundInv, FixedAsked
<1>4. FixedBound'
  <2>1. \A i \in 0 .. now : FixedLife(i) => FixedLife(i)'
    BY <1>1, <1>2 DEF FixedLife, Sum, Numbered, Between
  <2>2. Sum(admitted["redis"], Between(now - Window + 1, now))'
          = Sum(admitted["redis"], Between(now - Window + 1, now))
    BY <1>1, <1>2 DEF Sum, Numbered, Between
  <2> QED BY <1>1, <1>2, <2>1, <2>2 DEF BoundInv, FixedBound
<1>5. LivesLong'
  BY <1>1, <1>2 DEF BoundInv, LivesLong
<1>6. \A k \in Int : /\ Sum(count, CountersFrom(k))' = Sum(count, CountersFrom(k))
                     /\ Sum(asked, From(k))' = Sum(asked, From(k))
                     /\ Sum(admitted["redis"], From(k))' = Sum(admitted["redis"], From(k))
                     /\ Waiting(k)' = Waiting(k) /\ Counted(k)' = Counted(k)
  BY <1>1, <1>2 DEF Sum, Numbered, Waiting, Counted, BucketOf
<1>7. CountAsked'
  BY <1>1, <1>6 DEF BoundInv, CountAsked
<1>8. Latecomers' = Latecomers /\ LateCounted' = LateCounted /\ RecentCounters' = RecentCounters
  BY <1>1, <1>2 DEF Latecomers, Late, LateCounted, Counted, BucketOf, RecentCounters
<1>9. kind = "rolling" => First \in Int /\ First .. Here \subseteq Int
  BY HereTyped DEF BoundInv, IInv
<1>10. AdmittedCounted'
  BY <1>1, <1>2, <1>6, <1>8, <1>9 DEF BoundInv, AdmittedCounted
<1>11. RollingBound'
  <2>1. Sum(count, RecentCounters)' = Sum(count, RecentCounters)
    BY <1>1, <1>8 DEF Sum, Numbered
  <2>2. kind = "rolling" => Sum(admitted["redis"], From(First))' = Sum(admitted["redis"], From(First))
    BY <1>1, <1>2, <1>9 DEF Sum, Numbered
  <2> QED BY <1>1, <1>2, <1>8, <2>1, <2>2 DEF BoundInv, RollingBound
<1> QED BY <1>3, <1>4, <1>5, <1>7, <1>10, <1>11

\* All layers together are inductive.
LEMMA BoundNext ==
    ASSUME BoundInv, [Next]_vars
    PROVE  BoundInv'
<1>1. IInv' /\ MemoryInv' /\ FixedInv /\ RollingInv /\ RollingWhole
  <2>1. IInv'
    BY NextIInv DEF BoundInv
  <2>2. MemoryInv'
    BY MemoryNext DEF BoundInv, IInv
  <2> QED BY <2>1, <2>2 DEF BoundInv, FixedInv, RollingInv, RollingWhole
<1>2. ASSUME NEW w \in Workers, Request(w) \/ Crashes(w) PROVE BoundInv'
  <2>1. FixedAsked' /\ FixedBound'
    BY <1>1, <1>2, FixedAskedKeeps, FixedBoundKeeps DEF BoundInv
  <2>2. LivesLong' /\ CountAsked'
    BY <1>2, LivesLongKeeps, CountAskedKeeps DEF BoundInv
  <2>3. AdmittedCounted' /\ RollingBound'
    BY <1>1, <1>2, AdmittedCountedKeeps, RollingBoundKeeps DEF BoundInv
  <2> QED BY <1>1, <2>1, <2>2, <2>3 DEF BoundInv
<1>3. CASE Ticks
  <2>1. FixedAsked' /\ FixedBound'
    BY <1>1, <1>3, FixedAskedTicks, FixedBoundTicks DEF BoundInv
  <2>2. LivesLong' /\ CountAsked' /\ AdmittedCounted' /\ RollingBound'
    BY <1>1, <1>3, LivesLongTicks, CountAskedTicks, AdmittedCountedTicks, RollingBoundTicks
    DEF BoundInv
  <2> QED BY <1>1, <2>1, <2>2 DEF BoundInv
<1>4. CASE UNCHANGED vars
  BY <1>1, <1>4, BoundStays DEF BoundInv
<1> QED BY <1>2, <1>3, <1>4 DEF Next

\* What a worker has admitted lately it remembers.
LEMMA MemoryBoundHolds ==
    ASSUME TypeOK, MemoryInv, NEW w \in Workers
    PROVE  Sum(admitted[w], Last(Window)) <= Limit
<1> DEFINE adm == admitted[w]
<1>1. /\ adm \in [Time -> Nat] /\ IsFiniteSet(Time) /\ Last(Window) \in SUBSET Time
      /\ Remembered \in SUBSET Time /\ Limit \in Nat
  BY HistoryTyped, TimesFinite, LimitTyped DEF Last
<1>2. /\ Window \in Nat \ {0} /\ now \in Nat
  BY LimitTyped
<1>3. ASSUME NEW t \in Last(Window) PROVE t \in Remembered
  <2>1. t \in Time /\ t <= now /\ t > now - Window /\ t \in Nat
    BY TimesFinite DEF Last
  <2>2. CASE kind = "fixed"
    BY <2>1, <2>2 DEF Remembered
  <2>3. CASE kind # "fixed"
    <3>1. kind = "rolling"
      BY <2>3, KindsAssumption DEF TypeOK
    <3>2. /\ Here \in Nat /\ NumBuckets \in Nat \ {0} /\ Window = Bucket * NumBuckets
          /\ Bucket \in Nat \ {0}
      BY <3>1, HereTyped
    <3>3. BucketOf(t) \in Nat /\ BucketOf(t) <= Here
      BY <1>2, <2>1, BucketOrder DEF Here
    <3>4. BucketOf(t) >= Here - NumBuckets
      BY <2>1, <3>1, InWindow
    <3>5. BucketOf(t) \in (Here - NumBuckets) .. Here
      BY <3>2, <3>3, <3>4
    <3> QED BY <2>1, <2>3, <3>5 DEF Remembered, BucketsCounted, Here
  <2> QED BY <2>2, <2>3
<1>4. Sum(adm, Remembered) <= Limit
  BY DEF MemoryInv, Remembrance, RemembersWell
<1>5. \A t \in Last(Window) : adm[t] > 0 => t \in Remembered /\ adm[t] <= adm[t]
  <2> SUFFICES ASSUME NEW t \in Last(Window) PROVE t \in Remembered /\ adm[t] <= adm[t]
    OBVIOUS
  <2>1. adm[t] \in Nat
    BY <1>1
  <2> QED BY <1>3, <2>1
<1> HIDE DEF adm
<1>6. /\ Sum(adm, Last(Window)) <= Sum(adm, Remembered)
      /\ Sum(adm, Last(Window)) \in Nat /\ Sum(adm, Remembered) \in Nat
  BY <1>1, <1>5, SumCovered, SumTyped
<1>7. Sum(adm, Last(Window)) <= Limit
  BY <1>1, <1>4, <1>6
<1> QED BY <1>7 DEF adm

\* In any Window ticks a worker's memory lets in no more than the limit, nor do the
\* counters of "rolling" where no request is late; the one counter of "fixed" lets in
\* fewer than twice as many, and late workers add to "rolling" at most one each where
\* the window begins and one each, but for one, where it ends (public_chatbot.py:307-338,
\* rate_limit.py:79-129).
THEOREM AdmissionsBounded == Spec => []AdmitsAtMost
<1>1. ASSUME BoundInv PROVE AdmitsAtMost
  <2> SUFFICES ASSUME NEW s \in Stores PROVE Sum(admitted[s], Last(Window)) <= Bound(s)
    BY DEF AdmitsAtMost
  <2>1. TypeOK /\ MemoryInv /\ FixedInv /\ RollingWhole
    BY <1>1 DEF BoundInv, IInv, FixedInv, RollingWhole, RollingInv
  <2>2. CASE s \in Workers
    <3>1. Bound(s) = Limit
      BY <2>2 DEF Bound
    <3>2. Sum(admitted[s], Last(Window)) <= Limit
      BY <2>1, <2>2, MemoryBoundHolds
    <3> QED BY <3>1, <3>2
  <2>3. CASE s \notin Workers
    <3>1. s = "redis"
      BY <2>3 DEF Stores
    <3>2. CASE kind = "fixed"
      <4>1. FixedBound
        BY <1>1 DEF BoundInv
      <4>2. Bound(s) = 2 * Limit - 1
        BY <2>3, <3>2 DEF Bound
      <4>3. Sum(admitted["redis"], Last(Window)) <= 2 * Limit - 1
        BY <2>1, <3>2, <4>1, FixedBoundHolds
      <4> QED BY <3>1, <4>2, <4>3
    <3>3. CASE kind # "fixed"
      <4>1. kind = "rolling"
        BY <2>1, <3>3, KindsAssumption DEF TypeOK
      <4>2. Sum(admitted["redis"], Last(Window)) <= Limit + Excess
        BY <2>1, <4>1, RollingBoundHolds
      <4>3. Bound(s) = Limit + Excess
        <5>1. Limit \in Nat /\ Cardinality(Workers) \in Nat
          BY <2>1, LimitTyped, SlackTyped
        <5>2. CASE timely
          BY <4>1, <5>1, <5>2 DEF Bound, Excess
        <5>3. CASE ~timely
          BY <2>3, <4>1, <5>1, <5>3 DEF Bound, Excess
        <5> QED BY <5>2, <5>3
      <4> QED BY <3>1, <4>2, <4>3
    <3> QED BY <3>2, <3>3
  <2> QED BY <2>2, <2>3
<1>2. Init => BoundInv
  BY BoundInit
<1>3. BoundInv /\ [Next]_vars => BoundInv'
  BY BoundNext
<1>4. BoundInv => AdmitsAtMost
  BY <1>1
<1> QED BY <1>2, <1>3, <1>4, PTL DEF Spec

\* What a worker still remembers, or the window of a limiter looks at, is recent.
LEMMA RememberedRecent ==
    ASSUME TypeOK
    PROVE  Remembered \subseteq Last(Span) /\ now \in Remembered
<1>1. /\ Window \in Nat \ {0} /\ now \in Nat /\ now \in Time /\ Bucket \in Nat \ {0}
  BY LimitTyped DEF TypeOK
<1>2. CASE kind = "fixed"
  BY <1>1, <1>2 DEF Remembered, Last, Span
<1>3. CASE kind # "fixed"
  <2>1. kind = "rolling"
    BY <1>3, KindsAssumption DEF TypeOK
  <2>2. Here \in Nat /\ NumBuckets \in Nat \ {0}
    BY <2>1, HereTyped
  <2>3. Span = Window + Bucket
    BY <1>3 DEF Span
  <2>4. ASSUME NEW t \in Remembered PROVE t \in Last(Span)
    <3>1. t \in Time /\ t <= now /\ BucketOf(t) \in (Here - NumBuckets) .. Here
      BY <1>3 DEF Remembered, BucketsCounted, Here
    <3>2. BucketOf(t) \in Nat
      BY <3>1, TimesFinite, BucketFrom
    <3>3. BucketOf(t) >= Here - NumBuckets
      BY <2>2, <3>1, <3>2
    <3> QED BY <2>1, <2>3, <3>1, <3>3, InWindow DEF Last
  <2>5. Here \in (Here - NumBuckets) .. Here /\ now <= now
    BY <1>1, <2>2
  <2>6. now \in Remembered
    BY <1>1, <1>3, <2>5 DEF Remembered, BucketsCounted, Here
  <2> QED BY <2>4, <2>6
<1> QED BY <1>2, <1>3

\* A memory refuses only who was asked for more than the limit.
LEMMA MemoryRefusesTheBusy ==
    ASSUME TypeOK, MemoryInv, timely, NEW w \in Workers, FallsBack(w), worker[w].pc # "idle",
           UNCHANGED admitted
    PROVE  Sum(asked, Last(Span)) > Limit
<1> DEFINE f == memory[w]
           g == [f EXCEPT ![now] = @ + 1]
<1>1. /\ f \in [Time -> Nat] /\ asked \in [Time -> Nat] /\ now \in Time /\ now \in Remembered
      /\ Remembered \in SUBSET Time /\ Last(Span) \in SUBSET Time /\ IsFiniteSet(Time)
      /\ Remembered \subseteq Last(Span) /\ Limit \in Nat /\ admitted[w] \in [Time -> Nat]
  BY HistoryTyped, TimesFinite, LimitTyped, RememberedRecent DEF Last
<1>2. (\A t \in Time : f[t] <= asked[t]) /\ f[now] < asked[now]
  BY DEF MemoryInv, Remembrance, RemembersWell
<1>3. ~(Sum(f, Remembered) < Limit)
  <2>1. admitted'[w] # [admitted[w] EXCEPT ![now] = @ + 1]
    <3>1. admitted[w][now] \in Nat /\ admitted' = admitted
      BY <1>1
    <3>2. [admitted[w] EXCEPT ![now] = @ + 1][now] = admitted[w][now] + 1
      BY <1>1
    <3> QED BY <3>1, <3>2
  <2> QED BY <2>1, FallsBackStep
<1>4. g \in [Time -> Nat] /\ \A t \in Time : g[t] <= asked[t]
  BY <1>1, <1>2
<1> HIDE DEF f
<1>5. Sum(g, Remembered) = Sum(f, Remembered) + 1 /\ Sum(f, Remembered) \in Nat
  BY <1>1, SumNow
<1> HIDE DEF g
<1>6. Sum(g, Remembered) <= Sum(asked, Last(Span)) /\ Sum(asked, Last(Span)) \in Nat
  <2>1. \A t \in Remembered : g[t] > 0 => t \in Last(Span) /\ g[t] <= asked[t]
    BY <1>1, <1>4
  <2> QED BY <1>1, <1>4, <2>1, SumCovered, SumTyped
<1> QED BY <1>1, <1>3, <1>5, <1>6

\* So does the counter of "fixed", if it expires.
LEMMA FixedRefusesTheBusy ==
    ASSUME FixedInv, kind = "fixed", timely, ~lost, NEW w \in Workers, worker[w].pc = "incr",
           count[0] + 1 > Limit
    PROVE  Sum(asked, Last(Span)) > Limit
<1>1. TypeOK /\ 0 \in Counters
  BY BoundsAssumption DEF FixedInv, IInv, Counters, Time
<1>2. /\ Window \in Nat \ {0} /\ now \in Nat /\ Limit \in Nat /\ asked \in [Time -> Nat]
      /\ count[0] \in Nat /\ left[0] \in Nat
  BY <1>1, LimitTyped, HistoryTyped, RedisTyped
<1>3. count[0] + Cardinality(Asking) <= Sum(asked, Between(Start, now))
  BY DEF FixedInv, FixedAsked
<1>4. Cardinality(Asking) \in Nat /\ Cardinality(Asking) # 0
  <2>1. Asking \in SUBSET Workers /\ w \in Asking
    BY DEF Asking
  <2>2. IsFiniteSet(Asking)
    BY <2>1, TimesFinite, FS_Subset
  <2>3. Cardinality(Asking) # 0
    BY <2>1, <2>2, FS_EmptySet
  <2> QED BY <2>2, <2>3, FS_CardinalityType
<1>5. Between(Start, now) \subseteq Last(Span)
  <2> SUFFICES ASSUME NEW t \in Time, Start <= t, t <= now PROVE t > now - Window
    BY DEF Between, Last, Span
  <2>1. t \in Nat
    BY TimesFinite
  <2>2. CASE left[0] > 0
    BY <1>2, <2>1, <2>2 DEF Start
  <2>3. CASE ~(left[0] > 0)
    BY <1>2, <2>1, <2>3 DEF Start
  <2> QED BY <2>2, <2>3
<1>6. /\ Sum(asked, Between(Start, now)) <= Sum(asked, Last(Span))
      /\ Sum(asked, Between(Start, now)) \in Nat /\ Sum(asked, Last(Span)) \in Nat
  <2>1. \A t \in Between(Start, now) : asked[t] > 0 => t \in Last(Span) /\ asked[t] <= asked[t]
    <3> SUFFICES ASSUME NEW t \in Time PROVE asked[t] <= asked[t]
      BY <1>5 DEF Between
    <3>1. asked[t] \in Nat
      BY <1>2
    <3> QED BY <3>1
  <2>2. Between(Start, now) \in SUBSET Time /\ Last(Span) \in SUBSET Time /\ IsFiniteSet(Time)
    BY BetweenTyped, TimesFinite DEF Last
  <2> QED BY <1>2, <2>1, <2>2, SumCovered, SumTyped
<1> QED BY <1>2, <1>3, <1>4, <1>6

\* So do the counters of "rolling".
LEMMA RollingRefusesTheBusy ==
    ASSUME RollingInv, CountAsked, kind = "rolling", timely, NEW w \in Workers,
           worker[w].pc # "idle",
           Sum(count, BucketsCounted(BucketAt(w)) \cap Counters) > Limit
    PROVE  Sum(asked, Last(Span)) > Limit
<1> DEFINE found == BucketsCounted(BucketAt(w)) \cap Counters
           f == count
<1>1. TypeOK /\ Past /\ Clocks
  BY DEF RollingInv, IInv, MemoryInv
<1>2. /\ Here \in Nat /\ First \in Int /\ NumBuckets \in Nat \ {0} /\ First = Here - NumBuckets
      /\ BucketAt(w) = Here /\ Limit \in Nat /\ Span = Window + Bucket
  BY <1>1, HereTyped, BucketAtTyped DEF First, Span
<1>3. /\ f \in [Counters -> Nat] /\ IsFiniteSet(Counters) /\ Counters \subseteq Nat
      /\ asked \in [Time -> Nat] /\ now \in Nat /\ Time \subseteq Nat /\ IsFiniteSet(Time)
  <2>1. Counters \subseteq Nat
    BY BoundsAssumption DEF Counters, Time
  <2> QED BY <1>1, <2>1, TimesFinite, HistoryTyped, LimitTyped DEF TypeOK
<1>4. Sum(f, found) > Limit
  OBVIOUS
<1>5. /\ Sum(f, found) <= Sum(f, CountersFrom(First))
      /\ Sum(f, found) \in Nat /\ Sum(f, CountersFrom(First)) \in Nat
  <2>1. \A c \in found : f[c] > 0 => c \in CountersFrom(First) /\ f[c] <= f[c]
    <3> SUFFICES ASSUME NEW c \in Counters, c \in (Here - NumBuckets) .. Here
                 PROVE  c >= First /\ f[c] <= f[c]
      BY <1>2 DEF BucketsCounted, CountersFrom
    <3>1. f[c] \in Nat /\ c \in Nat
      BY <1>3
    <3> QED BY <1>2, <3>1
  <2>2. found \in SUBSET Counters /\ CountersFrom(First) \in SUBSET Counters
    BY DEF CountersFrom
  <2> HIDE DEF f, found
  <2> QED BY <1>3, <2>1, <2>2, SumCovered, SumTyped
<1>6. /\ Sum(f, CountersFrom(First)) <= Sum(asked, From(First))
      /\ Sum(asked, From(First)) \in Nat
  <2>1. Sum(f, CountersFrom(First)) + Cardinality(Waiting(First)) <= Sum(asked, From(First))
    BY <1>2 DEF CountAsked
  <2>2. Waiting(First) \in SUBSET Workers /\ From(First) \in SUBSET Time
    BY DEF Waiting, From
  <2>3. Cardinality(Waiting(First)) \in Nat /\ Sum(asked, From(First)) \in Nat
    BY <1>3, <2>2, SomeWorkers, SumTyped
  <2> HIDE DEF f
  <2> QED BY <1>5, <2>1, <2>3
<1>7. Sum(asked, From(First)) <= Sum(asked, Last(Span)) /\ Sum(asked, Last(Span)) \in Nat
  <2>1. \A t \in From(First) : asked[t] > 0 => t \in Last(Span) /\ asked[t] <= asked[t]
    <3> SUFFICES ASSUME NEW t \in Time, BucketOf(t) >= First, asked[t] > 0
                 PROVE  t <= now /\ t > now - Span /\ asked[t] <= asked[t]
      BY DEF From, Last
    <3>1. asked[t] \in Nat /\ t \in Nat
      BY <1>3
    <3>2. ~(t > now)
      BY <1>1, <3>1 DEF Past
    <3>3. t > now - (Window + Bucket)
      BY <1>1, <1>2, InWindow
    <3> QED BY <1>2, <1>3, <3>1, <3>2, <3>3
  <2>2. From(First) \in SUBSET Time /\ Last(Span) \in SUBSET Time
    BY DEF From, Last
  <2> QED BY <1>3, <2>1, <2>2, SumCovered, SumTyped
<1> HIDE DEF f, found
<1> QED BY <1>2, <1>4, <1>5, <1>6, <1>7

\* The step that refuses is one of the worker's own, and each has its reason.
LEMMA BusyStep ==
    ASSUME BoundInv, NEW v \in Workers, Request(v) \/ Crashes(v), NEW w \in Workers,
           Refused(w), timely, kind = "fixed" => ~lost
    PROVE  Sum(asked, Last(Span)) > Limit
<1>1. TypeOK /\ MemoryInv /\ Clocks /\ FixedInv /\ RollingInv /\ CountAsked
  BY DEF BoundInv, IInv, MemoryInv, FixedInv, RollingInv
<1>2. /\ worker[w].pc # "idle" /\ worker'[w].pc = "idle" /\ admitted' = admitted
      /\ crashes' = crashes
  BY DEF Refused, Answers
<1>3. v = w
  BY <1>1, <1>2, WorkerStep
<1>4. ~Crashes(w)
  BY <1>1, <1>2 DEF Crashes, TypeOK
<1>5. ASSUME NEW total, Decides(w, total) PROVE total > Limit
  <2>1. admitted'["redis"] # [admitted["redis"] EXCEPT ![now] = @ + 1]
    <3>1. /\ admitted["redis"][now] \in Nat /\ admitted["redis"] \in [Time -> Nat]
          /\ now \in Time /\ admitted' = admitted
      BY <1>1, <1>2, HistoryTyped
    <3>2. [admitted["redis"] EXCEPT ![now] = @ + 1][now] = admitted["redis"][now] + 1
      BY <3>1
    <3> QED BY <3>1, <3>2
  <2> QED BY <1>1, <1>5, <2>1, DecidesStep
<1>6. CASE Increments(w)
  <2>1. kind = "fixed" /\ worker[w].pc = "incr" /\ Decides(w, count'[0])
    <3>1. ~Goes(w, "expire") /\ ~Goes(w, "mget")
      BY <1>1, <1>2, GoesTyped
    <3>2. kind = "fixed" /\ Decides(w, count'[CounterOf(w)])
      BY <1>6, <3>1 DEF Increments
    <3> QED BY <1>6, <3>2 DEF Increments, CounterOf
  <2>2. count'[0] = count[0] + 1
    BY <1>1, <1>6, <2>1, IncrementedTyped DEF Increments, CounterOf
  <2> QED BY <1>1, <1>5, <2>1, <2>2, FixedRefusesTheBusy
<1>7. ~Expires(w)
  <2> SUFFICES ASSUME Expires(w) PROVE FALSE
    OBVIOUS
  <2>1. ~Goes(w, "mget")
    BY <1>1, <1>2, GoesTyped
  <2>2. Decides(w, 1)
    BY <2>1 DEF Expires
  <2>3. 1 > Limit /\ Limit \in Nat \ {0}
    BY <1>1, <1>5, <2>2, LimitTyped
  <2> QED BY <2>3
<1>8. CASE Counts(w)
  <2>1. kind = "rolling"
    BY <1>1, <1>8, KindsAssumption DEF Counts, Clocks, TypeOK
  <2>2. Decides(w, Sum(count, BucketsCounted(BucketAt(w)) \cap Counters))
    BY <1>8 DEF Counts, BucketAt
  <2> QED BY <1>1, <1>2, <1>5, <2>1, <2>2, RollingRefusesTheBusy
<1>9. CASE FailsToIncrement(w) \/ FailsToExpire(w) \/ FailsToCount(w)
  <2>1. FallsBack(w)
    BY <1>9 DEF FailsToIncrement, FailsToExpire, FailsToCount
  <2> QED BY <1>1, <1>2, <2>1, MemoryRefusesTheBusy
<1> QED BY <1>2, <1>3, <1>4, <1>6, <1>7, <1>8, <1>9 DEF Request, Asks

\* Where no request is late, nobody is refused who asked for no more than the limit in
\* the last Window ticks, or a bucket more under "rolling": not by Redis, not by the
\* memory of a worker that took over from it, and under "fixed" as long as no counter
\* was left without expiry (public_chatbot.py:307-338, rate_limit.py:79-129).
THEOREM OnlyTheBusyRefused == Spec => RefusesOnlyTheBusy
<1> DEFINE busy == \A w \in Workers :
                      Refused(w) /\ timely /\ (kind = "fixed" => ~lost)
                        => Sum(asked, Last(Span)) > Limit
<1>1. BoundInv /\ [Next]_vars => [busy]_vars
  <2> SUFFICES ASSUME BoundInv, Next, NEW w \in Workers, Refused(w), timely,
                      kind = "fixed" => ~lost
               PROVE  Sum(asked, Last(Span)) > Limit
    OBVIOUS
  <2>1. ASSUME NEW v \in Workers, Request(v) \/ Crashes(v)
        PROVE  Sum(asked, Last(Span)) > Limit
    BY <2>1, BusyStep
  <2>2. CASE Ticks
    BY <2>2 DEF Ticks, Refused, Answers
  <2> QED BY <2>1, <2>2 DEF Next
<1>2. Init => BoundInv
  BY BoundInit
<1>3. BoundInv /\ [Next]_vars => BoundInv'
  BY BoundNext
<1> QED BY <1>1, <1>2, <1>3, PTL DEF Spec, RefusesOnlyTheBusy
===============================================================================
