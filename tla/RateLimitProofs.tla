--------------------------- MODULE RateLimitProofs ---------------------------
(***************************************************************************)
(* Proofs about RateLimit, for any limits, windows and numbers of workers, *)
(* requests and crashes.                                                   *)
(***************************************************************************)
EXTENDS RateLimit, TLAPS

\* A bucket's number is no larger than the time.
LEMMA Division ==
    ASSUME NEW t \in Nat, NEW b \in Nat, b > 0
    PROVE  t \div b \in 0 .. t
<1>1. t \div b \in Int /\ t = b * (t \div b) + (t % b) /\ 0 <= t % b /\ t % b < b
  BY SMT
<1>2. t \div b >= 0
  BY <1>1, SMTT(20)
<1>3. t \div b <= t
  BY <1>1, <1>2, SMTT(20)
<1> QED BY <1>1, <1>2, <1>3

\* A request that is to set the expiry of a counter found it without, and is the
\* only one.
ExpiryDue ==
    \A w \in Workers :
        worker[w].pc = "expire" => count[CounterOf(w)] > 0 /\ left[CounterOf(w)] = 0

ExpiresOnce ==
    \A v, w \in Workers :
        worker[v].pc = "expire" /\ worker[w].pc = "expire" /\ CounterOf(v) = CounterOf(w)
          => v = w

IInv == TypeOK /\ ExpiryDue /\ ExpiresOnce /\ CountersExpire

-----------------------------------------------------------------------------
(* Operators *)

\* The counter of a request is one of the model's.
LEMMA CounterTyped ==
    ASSUME TypeOK, NEW w \in Workers
    PROVE  CounterOf(w) \in Counters
<1>1. worker[w].at \in Nat /\ worker[w].at <= MaxTime
  BY BoundsAssumption DEF TypeOK, Time
<1>2. Bucket \in Nat /\ Bucket > 0
  BY WindowsAssumption
<1>3. BucketOf(worker[w].at) \in 0 .. worker[w].at
  BY <1>1, <1>2, Division DEF BucketOf
<1> QED BY <1>1, <1>3, BoundsAssumption DEF CounterOf, Counters, Time

\* A counter there is not has no expiry.
LEMMA RedisTyped ==
    ASSUME TypeOK, NEW c \in Counters
    PROVE  count[c] \in Nat /\ left[c] \in Nat /\ (left[c] > 0 => count[c] > 0)
<1>1. Window + Bucket \in Nat
  BY WindowsAssumption DEF TypeOK, Window
<1> QED BY <1>1 DEF TypeOK

\* A counter is given some time to live, and no more than the types allow.
LEMMA LifetimeTyped ==
    ASSUME TypeOK
    PROVE  Lifetime \in 1 .. Window + Bucket
<1>1. Window \in Nat \ {0}
  BY WindowsAssumption DEF TypeOK, Window
<1> QED BY <1>1, WindowsAssumption DEF Lifetime

\* One more in a table of counts.
LEMMA OneMore ==
    ASSUME NEW S, NEW T, NEW f \in [S -> [T -> Nat]], NEW s \in S, NEW t \in T
    PROVE  [f EXCEPT ![s][t] = @ + 1] \in [S -> [T -> Nat]]
<1>1. f[s] \in [T -> Nat]
  OBVIOUS
<1>2. [f[s] EXCEPT ![t] = @ + 1] \in [T -> Nat]
  BY <1>1
<1> QED BY <1>2

\* What is answered by a store leaves its types alone.
LEMMA AdmitsTyped ==
    ASSUME TypeOK, NEW s \in Stores, Admits(s) \/ Refuses
    PROVE  admitted' \in [Stores -> [Time -> Nat]]
<1>1. admitted \in [Stores -> [Time -> Nat]] /\ now \in Time
  BY DEF TypeOK
<1>2. CASE Admits(s)
  BY <1>1, <1>2, OneMore DEF Admits
<1>3. CASE Refuses
  BY <1>1, <1>3 DEF Refuses
<1> QED BY <1>2, <1>3

LEMMA FallsBackTyped ==
    ASSUME TypeOK, NEW w \in Workers, FallsBack(w)
    PROVE  /\ memory' \in [Workers -> [Time -> Nat]]
           /\ admitted' \in [Stores -> [Time -> Nat]]
           /\ worker' = [worker EXCEPT ![w] = [pc |-> "idle", at |-> 0]]
<1>1. MemoryAdmits(w) \/ MemoryRefuses(w)
  BY DEF FallsBack
<1>2. memory' = memory \/ Remembers(w)
  BY <1>1 DEF MemoryAdmits, MemoryRefuses
<1>3. memory \in [Workers -> [Time -> Nat]] /\ now \in Time
  BY DEF TypeOK
<1>6. memory' \in [Workers -> [Time -> Nat]]
  <2>1. CASE memory' = memory
    BY <1>3, <2>1
  <2>2. CASE Remembers(w)
    <3>1. [memory EXCEPT ![w][now] = @ + 1] \in [Workers -> [Time -> Nat]]
      BY <1>3, OneMore
    <3> QED BY <2>2, <3>1 DEF Remembers
  <2> QED BY <1>2, <2>1, <2>2
<1>4. Admits(w) \/ Refuses
  BY <1>1 DEF MemoryAdmits, MemoryRefuses
<1>5. admitted' \in [Stores -> [Time -> Nat]]
  BY <1>4, AdmitsTyped DEF Stores
<1> QED BY <1>5, <1>6 DEF FallsBack, Answered

\* A decision answers the request.
LEMMA DecidesTyped ==
    ASSUME TypeOK, NEW w \in Workers, NEW total, Decides(w, total)
    PROVE  /\ admitted' \in [Stores -> [Time -> Nat]]
           /\ worker' = [worker EXCEPT ![w] = [pc |-> "idle", at |-> 0]]
<1>1. Admits("redis") \/ Refuses
  BY DEF Decides
<1> QED BY <1>1, AdmitsTyped DEF Decides, Answered, Stores

\* Where a request stands after it was answered, and after it went on.
LEMMA AnsweredTyped ==
    ASSUME TypeOK, NEW w \in Workers,
           worker' = [worker EXCEPT ![w] = [pc |-> "idle", at |-> 0]]
    PROVE  /\ worker' \in [Workers -> [pc : {"idle", "incr", "expire", "mget"}, at : Time]]
           /\ worker'[w].pc = "idle"
           /\ \A v \in Workers \ {w} : worker'[v] = worker[v]
BY BoundsAssumption DEF TypeOK, Time

LEMMA GoesTyped ==
    ASSUME TypeOK, NEW w \in Workers, NEW pc \in {"idle", "incr", "expire", "mget"},
           Goes(w, pc)
    PROVE  /\ worker' \in [Workers -> [pc : {"idle", "incr", "expire", "mget"}, at : Time]]
           /\ worker'[w].pc = pc /\ worker'[w].at = worker[w].at
           /\ \A v \in Workers \ {w} : worker'[v] = worker[v]
<1>1. worker \in [Workers -> [pc : {"idle", "incr", "expire", "mget"}, at : Time]]
  BY DEF TypeOK
<1>2. worker' = [worker EXCEPT ![w] = [@ EXCEPT !.pc = pc]]
  BY DEF Goes
<1>3. /\ [worker[w] EXCEPT !.pc = pc] \in [pc : {"idle", "incr", "expire", "mget"}, at : Time]
      /\ worker'[w] = [worker[w] EXCEPT !.pc = pc]
  BY <1>1, <1>2
<1> QED BY <1>1, <1>2, <1>3

\* As long as the limiter stays, a request whose time stays keeps its counter.
LEMMA SameCounter ==
    ASSUME NEW w \in Workers, kind' = kind, worker'[w].at = worker[w].at
    PROVE  CounterOf(w)' = CounterOf(w)
BY DEF CounterOf, BucketOf

-----------------------------------------------------------------------------
(* Each action keeps the invariant *)

\* Answers that touch neither counter nor expiry, by requests with no expiry to set.
LEMMA AnswerKeeps ==
    ASSUME IInv, NEW w \in Workers, UNCHANGED <<kind, count, left>>, lost' = lost,
           worker[w].pc # "expire", worker'[w].pc # "expire",
           \A v \in Workers \ {w} : worker'[v] = worker[v]
    PROVE  ExpiryDue' /\ ExpiresOnce' /\ CountersExpire'
<1>1. \A v \in Workers : worker[v].pc = "expire" \/ worker'[v].pc = "expire"
                            => v # w /\ worker'[v] = worker[v] /\ CounterOf(v)' = CounterOf(v)
  BY SameCounter
<1>2. ExpiryDue'
  BY <1>1 DEF IInv, ExpiryDue
<1>3. ExpiresOnce'
  BY <1>1 DEF IInv, ExpiresOnce
<1>4. CountersExpire'
  BY <1>1 DEF IInv, CountersExpire
<1> QED BY <1>2, <1>3, <1>4

LEMMA AsksKeeps ==
    ASSUME IInv, NEW w \in Workers, Asks(w)
    PROVE  IInv'
<1>1. worker' = [worker EXCEPT ![w] = [pc |-> "incr", at |-> now]]
  BY DEF Asks
<1>2. TypeOK'
  BY <1>1 DEF IInv, TypeOK, Asks, config, redis, Window, Limit
<1>3. /\ worker[w].pc = "idle" /\ worker'[w].pc = "incr"
      /\ \A v \in Workers \ {w} : worker'[v] = worker[v]
  BY <1>1 DEF IInv, TypeOK, Asks
<1>4. UNCHANGED <<kind, count, left>> /\ lost' = lost
  BY DEF Asks, config, redis
<1> QED BY <1>2, <1>3, <1>4, AnswerKeeps DEF IInv

LEMMA CountsKeeps ==
    ASSUME IInv, NEW w \in Workers, Counts(w)
    PROVE  IInv'
<1>1. TypeOK
  BY DEF IInv
<1>2. /\ admitted' \in [Stores -> [Time -> Nat]]
      /\ worker' = [worker EXCEPT ![w] = [pc |-> "idle", at |-> 0]]
  BY <1>1, DecidesTyped DEF Counts
<1>3. /\ worker' \in [Workers -> [pc : {"idle", "incr", "expire", "mget"}, at : Time]]
      /\ worker'[w].pc = "idle"
      /\ \A v \in Workers \ {w} : worker'[v] = worker[v]
  BY <1>1, <1>2, AnsweredTyped
<1>4. /\ worker[w].pc = "mget" /\ lost' = lost
      /\ UNCHANGED <<kind, timely, now, count, left, memory, asked, crashes>>
  BY DEF Counts, config, redis
<1>5. TypeOK'
  BY <1>1, <1>2, <1>3, <1>4 DEF TypeOK, Window
<1> QED BY <1>3, <1>4, <1>5, AnswerKeeps DEF IInv

LEMMA FailsToCountKeeps ==
    ASSUME IInv, NEW w \in Workers, FailsToCount(w)
    PROVE  IInv'
<1>1. TypeOK
  BY DEF IInv
<1>2. /\ memory' \in [Workers -> [Time -> Nat]]
      /\ admitted' \in [Stores -> [Time -> Nat]]
      /\ worker' = [worker EXCEPT ![w] = [pc |-> "idle", at |-> 0]]
  BY <1>1, FallsBackTyped DEF FailsToCount
<1>3. /\ worker' \in [Workers -> [pc : {"idle", "incr", "expire", "mget"}, at : Time]]
      /\ worker'[w].pc = "idle"
      /\ \A v \in Workers \ {w} : worker'[v] = worker[v]
  BY <1>1, <1>2, AnsweredTyped
<1>4. /\ worker[w].pc = "mget" /\ lost' = lost
      /\ UNCHANGED <<kind, timely, now, count, left, asked, crashes>>
  BY DEF FailsToCount, config, redis
<1>5. TypeOK'
  BY <1>1, <1>2, <1>3, <1>4 DEF TypeOK, Window
<1> QED BY <1>3, <1>4, <1>5, AnswerKeeps DEF IInv

\* INCR obeyed: where a counter begins, the request that began it goes on to set
\* its expiry, or one is lost.
LEMMA IncrementedTyped ==
    ASSUME TypeOK, NEW w \in Workers, Incremented(w)
    PROVE  /\ count' \in [Counters -> Nat]
           /\ count'[CounterOf(w)] = count[CounterOf(w)] + 1
           /\ \A c \in Counters \ {CounterOf(w)} : count'[c] = count[c]
           /\ \A c \in Counters : count[c] > 0 => count'[c] > 0
<1>1. CounterOf(w) \in Counters
  BY CounterTyped
<1>2. count \in [Counters -> Nat]
  BY DEF TypeOK
<1> QED BY <1>1, <1>2 DEF Incremented

LEMMA IncrementsKeeps ==
    ASSUME IInv, NEW w \in Workers, Increments(w)
    PROVE  IInv'
<1> DEFINE here == CounterOf(w)
<1>1. TypeOK
  BY DEF IInv
<1>2. here \in Counters /\ count[here] \in Nat
  BY <1>1, CounterTyped DEF TypeOK
<1>3. /\ count' \in [Counters -> Nat]
      /\ count'[here] = count[here] + 1
      /\ \A c \in Counters \ {here} : count'[c] = count[c]
      /\ \A c \in Counters : count[c] > 0 => count'[c] > 0
  BY <1>1, IncrementedTyped DEF Increments
<1>4. /\ worker[w].pc = "incr"
      /\ UNCHANGED <<kind, timely, now, left, memory, asked, crashes, lost>>
  BY DEF Increments, config
<1>5. \/ count[here] = 0 /\ Goes(w, "expire") /\ UNCHANGED admitted
      \/ count[here] > 0 /\ ((Goes(w, "mget") /\ UNCHANGED admitted) \/ Decides(w, count'[here]))
  BY <1>2 DEF Increments
<1>6. /\ admitted' \in [Stores -> [Time -> Nat]]
      /\ worker' \in [Workers -> [pc : {"idle", "incr", "expire", "mget"}, at : Time]]
      /\ worker'[w].pc = "expire" => count[here] = 0 /\ worker'[w].at = worker[w].at
      /\ count[here] = 0 => worker'[w].pc = "expire"
      /\ \A v \in Workers \ {w} : worker'[v] = worker[v]
  <2>1. CASE count[here] = 0 /\ Goes(w, "expire") /\ UNCHANGED admitted
    BY <1>1, <2>1, GoesTyped DEF TypeOK
  <2>2. CASE count[here] > 0 /\ Goes(w, "mget") /\ UNCHANGED admitted
    BY <1>1, <2>2, GoesTyped DEF TypeOK
  <2>3. CASE count[here] > 0 /\ Decides(w, count'[here])
    <3>1. /\ admitted' \in [Stores -> [Time -> Nat]]
          /\ worker' = [worker EXCEPT ![w] = [pc |-> "idle", at |-> 0]]
      BY <1>1, <2>3, DecidesTyped
    <3>2. /\ worker' \in [Workers -> [pc : {"idle", "incr", "expire", "mget"}, at : Time]]
          /\ worker'[w].pc = "idle"
          /\ \A v \in Workers \ {w} : worker'[v] = worker[v]
      BY <1>1, <3>1, AnsweredTyped
    <3>3. count[here] # 0
      BY <1>2, <2>3
    <3> QED BY <3>1, <3>2, <3>3
  <2> QED BY <1>5, <2>1, <2>2, <2>3
<1>7. TypeOK'
  BY <1>1, <1>3, <1>4, <1>6 DEF TypeOK, Window
<1>8. \A v \in Workers : worker'[v].pc = "expire" => CounterOf(v)' = CounterOf(v)
  BY <1>4, <1>6, SameCounter
<1>9. \A v \in Workers : worker[v].pc = "expire" =>
        /\ v # w /\ worker'[v].pc = "expire" /\ CounterOf(v)' = CounterOf(v)
        /\ count[CounterOf(v)] > 0 /\ CounterOf(v) \in Counters
  BY <1>1, <1>4, <1>6, <1>8, CounterTyped DEF IInv, ExpiryDue
<1>10. count[here] = 0 => left[here] = 0
  <2>1. left[here] \in Nat /\ (left[here] > 0 => count[here] > 0)
    BY <1>1, <1>2, RedisTyped
  <2> QED BY <1>2, <2>1
<1>11. ExpiryDue'
  <2> SUFFICES ASSUME NEW v \in Workers, worker'[v].pc = "expire"
               PROVE  count'[CounterOf(v)] > 0 /\ left[CounterOf(v)] = 0
    BY <1>4, <1>8 DEF ExpiryDue
  <2>1. CASE v = w
    BY <1>2, <1>3, <1>6, <1>10, <2>1
  <2>2. CASE v # w
    <3>1. worker[v].pc = "expire"
      BY <1>6, <2>2
    <3>2. left[CounterOf(v)] = 0
      BY <3>1 DEF IInv, ExpiryDue
    <3> QED BY <1>3, <1>9, <3>1, <3>2
  <2> QED BY <2>1, <2>2
<1>12. ExpiresOnce'
  <2>1. \A v \in Workers \ {w} : worker'[v].pc = "expire" /\ worker'[w].pc = "expire"
                                 => CounterOf(v) # here
    <3> SUFFICES ASSUME NEW v \in Workers \ {w}, worker'[v].pc = "expire",
                        worker'[w].pc = "expire", CounterOf(v) = here
                 PROVE  FALSE
      OBVIOUS
    <3>1. worker[v].pc = "expire"
      BY <1>6
    <3>2. count[here] > 0 /\ count[here] = 0
      BY <1>6, <1>9, <3>1
    <3> QED BY <3>2
  <2> QED BY <1>6, <1>8, <2>1 DEF IInv, ExpiresOnce
<1>13. CountersExpire'
  <2> SUFFICES ASSUME NEW c \in Counters, count'[c] > 0, left[c] = 0, ~lost
               PROVE  \E v \in Workers : worker'[v].pc = "expire" /\ CounterOf(v)' = c
    BY <1>4 DEF CountersExpire
  <2>1. CASE c = here /\ count[here] = 0
    BY <1>6, <1>8, <2>1
  <2>2. CASE count[c] > 0
    BY <1>9, <2>2 DEF IInv, CountersExpire
  <2> QED BY <1>2, <1>3, <2>1, <2>2
<1> QED BY <1>7, <1>11, <1>12, <1>13 DEF IInv

LEMMA FailsToIncrementKeeps ==
    ASSUME IInv, NEW w \in Workers, FailsToIncrement(w)
    PROVE  IInv'
<1> DEFINE here == CounterOf(w)
<1>1. TypeOK
  BY DEF IInv
<1>2. here \in Counters /\ count[here] \in Nat
  BY <1>1, CounterTyped, RedisTyped
<1>3. /\ memory' \in [Workers -> [Time -> Nat]]
      /\ admitted' \in [Stores -> [Time -> Nat]]
      /\ worker' = [worker EXCEPT ![w] = [pc |-> "idle", at |-> 0]]
  BY <1>1, FallsBackTyped DEF FailsToIncrement
<1>4. /\ worker' \in [Workers -> [pc : {"idle", "incr", "expire", "mget"}, at : Time]]
      /\ worker'[w].pc = "idle"
      /\ \A v \in Workers \ {w} : worker'[v] = worker[v]
  BY <1>1, <1>3, AnsweredTyped
<1>5. /\ worker[w].pc = "incr"
      /\ UNCHANGED <<kind, timely, now, left, asked, crashes>>
      /\ \/ UNCHANGED <<count, lost>>
         \/ Incremented(w) /\ lost' = (lost \/ count[here] = 0)
  BY DEF FailsToIncrement, config
<1>6. CASE UNCHANGED <<count, lost>>
  <2>1. TypeOK'
    BY <1>1, <1>3, <1>4, <1>5, <1>6 DEF TypeOK, Window
  <2>2. UNCHANGED <<kind, count, left>> /\ lost' = lost
    BY <1>5, <1>6
  <2> QED BY <1>4, <1>5, <2>1, <2>2, AnswerKeeps DEF IInv
<1>7. CASE Incremented(w) /\ lost' = (lost \/ count[here] = 0)
  <2>1. /\ count' \in [Counters -> Nat]
        /\ count'[here] = count[here] + 1
        /\ \A c \in Counters \ {here} : count'[c] = count[c]
        /\ \A c \in Counters : count[c] > 0 => count'[c] > 0
    BY <1>1, <1>7, IncrementedTyped
  <2>2. lost' \in BOOLEAN
    BY <1>1, <1>7 DEF TypeOK
  <2>3. TypeOK'
    BY <1>1, <1>3, <1>4, <1>5, <2>1, <2>2 DEF TypeOK, Window
  <2>4. \A v \in Workers : worker[v].pc = "expire" \/ worker'[v].pc = "expire" =>
          /\ worker'[v] = worker[v] /\ CounterOf(v)' = CounterOf(v)
          /\ CounterOf(v) \in Counters
    BY <1>1, <1>4, <1>5, SameCounter, CounterTyped
  <2>5. ExpiryDue'
    BY <1>5, <2>1, <2>4 DEF IInv, ExpiryDue
  <2>6. ExpiresOnce'
    BY <2>4 DEF IInv, ExpiresOnce
  <2>7. CountersExpire'
    <3> SUFFICES ASSUME NEW c \in Counters, count'[c] > 0, left[c] = 0, ~lost'
                 PROVE  \E v \in Workers : worker'[v].pc = "expire" /\ CounterOf(v)' = c
      BY <1>5 DEF CountersExpire
    <3>1. ~lost /\ count[here] # 0
      BY <1>7
    <3>2. count[c] > 0
      BY <1>2, <2>1, <3>1
    <3> QED BY <2>4, <3>1, <3>2 DEF IInv, CountersExpire
  <2> QED BY <2>3, <2>5, <2>6, <2>7 DEF IInv
<1> QED BY <1>5, <1>6, <1>7

\* The expiry of a counter is set by the request that was to set it, and by no other.
LEMMA ExpiryKeeps ==
    ASSUME IInv, NEW w \in Workers, worker[w].pc = "expire", worker'[w].pc # "expire",
           UNCHANGED <<kind, count>>, lost' = lost \/ lost' = TRUE,
           left' = [left EXCEPT ![CounterOf(w)] = Lifetime] \/ (left' = left /\ lost' = TRUE),
           \A v \in Workers \ {w} : worker'[v] = worker[v]
    PROVE  /\ left' \in [Counters -> 0 .. Window + Bucket]
           /\ \A c \in Counters : left'[c] > 0 => count'[c] > 0
           /\ ExpiryDue' /\ ExpiresOnce' /\ CountersExpire'
<1> DEFINE here == CounterOf(w)
<1>1. TypeOK
  BY DEF IInv
<1>2. here \in Counters
  BY <1>1, CounterTyped
<1>3. count[here] > 0 /\ left[here] = 0
  BY DEF IInv, ExpiryDue
<1>4. Lifetime \in 1 .. Window + Bucket /\ Lifetime > 0 /\ Lifetime \in 0 .. Window + Bucket
  BY <1>1, LifetimeTyped
<1>5. left \in [Counters -> 0 .. Window + Bucket]
  BY <1>1 DEF TypeOK
<1>6. left' \in [Counters -> 0 .. Window + Bucket]
  BY <1>4, <1>5
<1>7. \A c \in Counters : c # here => left'[c] = left[c]
  BY <1>5
<1>8. \A c \in Counters : left'[c] > 0 => count'[c] > 0
  BY <1>1, <1>3, <1>7, RedisTyped
<1>9. \A v \in Workers : worker'[v].pc = "expire" =>
        /\ v # w /\ worker[v].pc = "expire" /\ CounterOf(v)' = CounterOf(v)
        /\ CounterOf(v) \in Counters /\ CounterOf(v) # here
  BY <1>1, SameCounter, CounterTyped DEF IInv, ExpiresOnce
<1>10. ExpiryDue'
  BY <1>7, <1>9 DEF IInv, ExpiryDue
<1>11. ExpiresOnce'
  BY <1>9 DEF IInv, ExpiresOnce
<1>12. CountersExpire'
  <2> SUFFICES ASSUME NEW c \in Counters, count[c] > 0, left'[c] = 0, ~lost'
               PROVE  \E v \in Workers : worker'[v].pc = "expire" /\ CounterOf(v)' = c
    BY DEF CountersExpire
  <2>1. ~lost /\ left' = [left EXCEPT ![here] = Lifetime]
    BY DEF IInv
  <2>2. c # here
    BY <1>2, <1>4, <1>5, <2>1
  <2>3. PICK v \in Workers : worker[v].pc = "expire" /\ CounterOf(v) = c
    BY <1>7, <2>1, <2>2 DEF IInv, CountersExpire
  <2>4. worker'[v] = worker[v] /\ CounterOf(v)' = CounterOf(v)
    BY <2>2, <2>3, SameCounter
  <2> QED BY <2>3, <2>4
<1> QED BY <1>6, <1>8, <1>10, <1>11, <1>12

LEMMA ExpiresKeeps ==
    ASSUME IInv, NEW w \in Workers, Expires(w)
    PROVE  IInv'
<1>1. TypeOK
  BY DEF IInv
<1>2. /\ worker[w].pc = "expire"
      /\ left' = [left EXCEPT ![CounterOf(w)] = Lifetime]
      /\ UNCHANGED <<kind, timely, now, count, memory, asked, crashes, lost>>
  BY DEF Expires, config
<1>6. Decides(w, 1) \/ (Goes(w, "mget") /\ UNCHANGED admitted)
  <2>1. CASE kind = "fixed"
    BY <2>1 DEF Expires
  <2>2. CASE kind # "fixed"
    BY <2>2 DEF Expires
  <2> QED BY <2>1, <2>2
<1>3. /\ admitted' \in [Stores -> [Time -> Nat]]
      /\ worker' \in [Workers -> [pc : {"idle", "incr", "expire", "mget"}, at : Time]]
      /\ worker'[w].pc # "expire"
      /\ \A v \in Workers \ {w} : worker'[v] = worker[v]
  <2>1. CASE Decides(w, 1)
    <3>1. /\ admitted' \in [Stores -> [Time -> Nat]]
          /\ worker' = [worker EXCEPT ![w] = [pc |-> "idle", at |-> 0]]
      BY <1>1, <2>1, DecidesTyped
    <3> QED BY <1>1, <3>1, AnsweredTyped
  <2>2. CASE Goes(w, "mget") /\ UNCHANGED admitted
    BY <1>1, <2>2, GoesTyped DEF TypeOK
  <2> QED BY <1>6, <2>1, <2>2
<1>4. /\ left' \in [Counters -> 0 .. Window + Bucket]
      /\ \A c \in Counters : left'[c] > 0 => count'[c] > 0
      /\ ExpiryDue' /\ ExpiresOnce' /\ CountersExpire'
  <2>1. /\ worker[w].pc = "expire" /\ worker'[w].pc # "expire"
        /\ UNCHANGED <<kind, count>> /\ lost' = lost
        /\ left' = [left EXCEPT ![CounterOf(w)] = Lifetime]
    BY <1>2, <1>3
  <2> QED BY <1>3, <2>1, ExpiryKeeps
<1>5. TypeOK'
  BY <1>1, <1>2, <1>3, <1>4 DEF TypeOK, Window
<1> QED BY <1>4, <1>5 DEF IInv

LEMMA FailsToExpireKeeps ==
    ASSUME IInv, NEW w \in Workers, FailsToExpire(w)
    PROVE  IInv'
<1>1. TypeOK
  BY DEF IInv
<1>2. /\ worker[w].pc = "expire"
      /\ \/ left' = [left EXCEPT ![CounterOf(w)] = Lifetime] /\ lost' = lost
         \/ left' = left /\ lost' = TRUE
      /\ UNCHANGED <<kind, timely, now, count, asked, crashes>>
      /\ FallsBack(w)
  BY DEF FailsToExpire, config
<1>3. /\ memory' \in [Workers -> [Time -> Nat]]
      /\ admitted' \in [Stores -> [Time -> Nat]]
      /\ worker' = [worker EXCEPT ![w] = [pc |-> "idle", at |-> 0]]
  BY <1>1, <1>2, FallsBackTyped
<1>4. /\ worker' \in [Workers -> [pc : {"idle", "incr", "expire", "mget"}, at : Time]]
      /\ worker'[w].pc = "idle"
      /\ \A v \in Workers \ {w} : worker'[v] = worker[v]
  BY <1>1, <1>3, AnsweredTyped
<1>5. /\ left' \in [Counters -> 0 .. Window + Bucket]
      /\ \A c \in Counters : left'[c] > 0 => count'[c] > 0
      /\ ExpiryDue' /\ ExpiresOnce' /\ CountersExpire'
  <2>1. /\ worker[w].pc = "expire" /\ worker'[w].pc # "expire"
        /\ UNCHANGED <<kind, count>> /\ (lost' = lost \/ lost' = TRUE)
        /\ \/ left' = [left EXCEPT ![CounterOf(w)] = Lifetime]
           \/ left' = left /\ lost' = TRUE
    BY <1>2, <1>4
  <2> QED BY <1>4, <2>1, ExpiryKeeps
<1>6. lost' \in BOOLEAN
  BY <1>1, <1>2 DEF TypeOK
<1>7. TypeOK'
  BY <1>1, <1>2, <1>3, <1>4, <1>5, <1>6 DEF TypeOK, Window
<1> QED BY <1>5, <1>7 DEF IInv

LEMMA CrashesKeeps ==
    ASSUME IInv, NEW w \in Workers, Crashes(w)
    PROVE  IInv'
<1>1. TypeOK
  BY DEF IInv
<1>2. /\ worker' = [worker EXCEPT ![w] = [pc |-> "idle", at |-> 0]]
      /\ memory' = [memory EXCEPT ![w] = [t \in Time |-> 0]]
      /\ admitted' = [admitted EXCEPT ![w] = [t \in Time |-> 0]]
      /\ crashes < MaxCrashes /\ crashes' = crashes + 1
      /\ lost' = (lost \/ worker[w].pc = "expire")
      /\ UNCHANGED <<kind, timely, now, count, left, asked>>
  BY DEF Crashes, Answered, config, redis
<1>3. /\ worker' \in [Workers -> [pc : {"idle", "incr", "expire", "mget"}, at : Time]]
      /\ worker'[w].pc = "idle"
      /\ \A v \in Workers \ {w} : worker'[v] = worker[v]
  BY <1>1, <1>2, AnsweredTyped
<1>4. [t \in Time |-> 0] \in [Time -> Nat]
  OBVIOUS
<1>5. memory' \in [Workers -> [Time -> Nat]]
  BY <1>1, <1>2, <1>4 DEF TypeOK
<1>6. admitted' \in [Stores -> [Time -> Nat]]
  BY <1>1, <1>2, <1>4 DEF TypeOK
<1>7. crashes' \in 0 .. MaxCrashes /\ lost' \in BOOLEAN
  BY <1>1, <1>2, BoundsAssumption DEF TypeOK
<1>8. TypeOK'
  BY <1>1, <1>2, <1>3, <1>5, <1>6, <1>7 DEF TypeOK, Window
<1>9. \A v \in Workers : worker'[v].pc = "expire" =>
        worker[v].pc = "expire" /\ CounterOf(v)' = CounterOf(v)
  BY <1>2, <1>3, SameCounter
<1>10. ExpiryDue'
  BY <1>2, <1>9 DEF IInv, ExpiryDue
<1>11. ExpiresOnce'
  BY <1>9 DEF IInv, ExpiresOnce
<1>12. CountersExpire'
  <2> SUFFICES ASSUME NEW c \in Counters, count[c] > 0, left[c] = 0, ~lost'
               PROVE  \E v \in Workers : worker'[v].pc = "expire" /\ CounterOf(v)' = c
    BY <1>2 DEF CountersExpire
  <2>1. ~lost /\ worker[w].pc # "expire"
    BY <1>2
  <2>2. PICK v \in Workers : worker[v].pc = "expire" /\ CounterOf(v) = c
    BY <2>1 DEF IInv, CountersExpire
  <2>3. worker'[v] = worker[v]
    BY <1>3, <2>1, <2>2
  <2> QED BY <1>9, <2>2, <2>3
<1> QED BY <1>8, <1>10, <1>11, <1>12 DEF IInv

LEMMA TicksKeeps ==
    ASSUME IInv, Ticks
    PROVE  IInv'
<1>1. TypeOK
  BY DEF IInv
<1>2. /\ now < MaxTime /\ now' = now + 1
      /\ left' = [c \in Counters |-> IF left[c] = 0 THEN 0 ELSE left[c] - 1]
      /\ count' = [c \in Counters |-> IF left[c] = 1 THEN 0 ELSE count[c]]
      /\ UNCHANGED <<kind, timely, worker, memory, asked, admitted, crashes, lost>>
  BY DEF Ticks, config
<1>3. now' \in Time
  BY <1>1, <1>2, BoundsAssumption DEF TypeOK, Time
<1>4. Window + Bucket \in Nat
  BY <1>1, WindowsAssumption DEF TypeOK, Window
<1>5. \A c \in Counters : left[c] \in 0 .. Window + Bucket /\ count[c] \in Nat
                         /\ (left[c] > 0 => count[c] > 0)
  BY <1>1 DEF TypeOK
<1>6. left' \in [Counters -> 0 .. Window + Bucket]
  BY <1>2, <1>4, <1>5
<1>7. count' \in [Counters -> Nat]
  BY <1>2, <1>5
<1>8. \A c \in Counters : left'[c] > 0 => count'[c] > 0
  BY <1>2, <1>4, <1>5
<1>9. TypeOK'
  BY <1>1, <1>2, <1>3, <1>6, <1>7, <1>8 DEF TypeOK, Window
<1>10. \A v \in Workers : CounterOf(v)' = CounterOf(v) /\ CounterOf(v) \in Counters
  BY <1>1, <1>2, SameCounter, CounterTyped
<1>11. ExpiryDue'
  BY <1>2, <1>10 DEF IInv, ExpiryDue
<1>12. ExpiresOnce'
  BY <1>2, <1>10 DEF IInv, ExpiresOnce
<1>13. CountersExpire'
  <2> SUFFICES ASSUME NEW c \in Counters, count'[c] > 0, left'[c] = 0, ~lost
               PROVE  \E v \in Workers : worker[v].pc = "expire" /\ CounterOf(v) = c
    BY <1>2, <1>10 DEF CountersExpire
  <2>1. left[c] # 1 /\ count[c] > 0
    BY <1>2
  <2>2. left[c] = 0
    BY <1>2, <1>4, <1>5, <2>1
  <2> QED BY <2>1, <2>2 DEF IInv, CountersExpire
<1> QED BY <1>9, <1>11, <1>12, <1>13 DEF IInv

-----------------------------------------------------------------------------
(* Theorems *)

LEMMA InitIInv == Init => IInv
<1> SUFFICES ASSUME Init PROVE IInv
  OBVIOUS
<1>1. kind \in Kinds /\ Window \in Nat /\ Bucket \in Nat
  BY WindowsAssumption DEF Init, Window
<1>2. 0 \in Time /\ 0 \in 0 .. Window + Bucket /\ 0 \in 0 .. MaxCrashes
  BY <1>1, BoundsAssumption DEF Time
<1>3. [t \in Time |-> 0] \in [Time -> Nat]
  OBVIOUS
<1>4. TypeOK
  BY <1>1, <1>2, <1>3 DEF Init, TypeOK
<1>5. ExpiryDue /\ ExpiresOnce
  BY DEF Init, ExpiryDue, ExpiresOnce
<1>6. CountersExpire
  BY DEF Init, CountersExpire
<1> QED BY <1>4, <1>5, <1>6 DEF IInv

LEMMA NextIInv == IInv /\ [Next]_vars => IInv'
<1> SUFFICES ASSUME IInv, [Next]_vars PROVE IInv'
  OBVIOUS
<1>1. ASSUME NEW w \in Workers, Request(w) PROVE IInv'
  BY <1>1, AsksKeeps, IncrementsKeeps, ExpiresKeeps, CountsKeeps, FailsToIncrementKeeps,
     FailsToExpireKeeps, FailsToCountKeeps DEF Request
<1>2. ASSUME NEW w \in Workers, Crashes(w) PROVE IInv'
  BY <1>2, CrashesKeeps
<1>3. CASE Ticks
  BY <1>3, TicksKeeps
<1>4. CASE UNCHANGED vars
  <2>1. UNCHANGED <<kind, timely, now, count, left, worker, memory, asked, admitted, crashes, lost>>
    BY <1>4 DEF vars
  <2>2. TypeOK'
    BY <2>1 DEF IInv, TypeOK, Window
  <2>3. \A v \in Workers : CounterOf(v)' = CounterOf(v)
    BY <2>1, SameCounter
  <2>4. ExpiryDue'
    BY <2>1, <2>3 DEF IInv, ExpiryDue
  <2>5. ExpiresOnce'
    BY <2>1, <2>3 DEF IInv, ExpiresOnce
  <2>6. CountersExpire'
    BY <2>1, <2>3 DEF IInv, CountersExpire
  <2> QED BY <2>2, <2>4, <2>5, <2>6 DEF IInv
<1> QED BY <1>1, <1>2, <1>3, <1>4 DEF Next

\* Every variable keeps its type, whatever is asked, fails and dies.
THEOREM TypeCorrect == Spec => []TypeOK
<1>1. IInv => TypeOK
  BY DEF IInv
<1> QED BY <1>1, InitIInv, NextIInv, PTL DEF Spec

\* Of any number of workers that count at once, late or not, one sets the expiry
\* of each counter, as long as none of its commands fails and it does not die.
THEOREM CountersExpireOnce == Spec => []CountersExpire
<1>1. IInv => CountersExpire
  BY DEF IInv
<1> QED BY <1>1, InitIInv, NextIInv, PTL DEF Spec
=============================================================================
