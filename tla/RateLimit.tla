------------------------------ MODULE RateLimit ------------------------------
(***************************************************************************)
(* The two limiters of requests that work, each for one client: "fixed",   *)
(* one counter that expires (_check_rate_limit in routers/                 *)
(* public_chatbot.py), and "rolling", a counter for each bucket of time    *)
(* (RateLimiter in utils/rate_limit.py, which guards the sign-in).  Both   *)
(* count in Redis for all worker processes, and when a command of theirs   *)
(* fails in the memory of one.                                             *)
(*                                                                         *)
(* Every action is one command on Redis.  Time passes between commands     *)
(* only where the deployment is not timely, and then for less than a       *)
(* bucket.                                                                 *)
(***************************************************************************)
EXTENDS Integers, FiniteSets

CONSTANTS
    Workers,       \* processes
    Kinds,         \* the limiters looked at, of "fixed" and "rolling"
    Limits,        \* requests each limiter allows
    Windows,       \* in how many ticks
    Bucket,        \* ticks in a bucket of "rolling"
    MaxTime,       \* bound on the clock
    MaxRequests,   \* bounds on the requests of the client, for each limiter
    MaxCrashes     \* bound on the processes that die

ASSUME WorkersAssumption == IsFiniteSet(Workers) /\ "redis" \notin Workers
ASSUME KindsAssumption == Kinds \subseteq {"fixed", "rolling"}
ASSUME LimitsAssumption == Limits \in [Kinds -> Nat \ {0}]
\* The sign-in's window of 180 seconds is three buckets of 60.
ASSUME WindowsAssumption ==
    /\ Windows \in [Kinds -> Nat \ {0}] /\ Bucket \in Nat \ {0}
    /\ "rolling" \in Kinds => Windows["rolling"] % Bucket = 0
ASSUME BoundsAssumption == MaxTime \in Nat /\ MaxRequests \in [Kinds -> Nat] /\ MaxCrashes \in Nat

VARIABLES
    kind,       \* the limiter
    timely,     \* no request takes as long as a tick
    now,        \* the clock
    count,      \* the counters in Redis, 0 where there is none
    left,       \* ticks until a counter expires, 0 where it has no expiry
    worker,     \* where a worker's request stands
    memory,     \* how many requests of each time a worker keeps in memory
    asked,      \* history: the requests of each time
    admitted,   \* history: those let in, by Redis or by a worker's memory
    crashes,
    lost        \* observer: a counter was left without expiry

vars == <<kind, timely, now, count, left, worker, memory, asked, admitted, crashes, lost>>
redis == <<count, left>>
config == <<kind, timely>>

Time == 0 .. MaxTime
Counters == Time \cup {MaxTime + 1}

\* Redis, and the memory of each worker, admit requests on their own.
Stores == Workers \cup {"redis"}

Limit == Limits[kind]
Window == Windows[kind]

NumBuckets == Window \div Bucket
BucketOf(t) == t \div Bucket

\* The counter a request is counted by.
CounterOf(w) == IF kind = "fixed" THEN 0 ELSE BucketOf(worker[w].at)

\* How long a counter lives. Mutant: a bucket more.
LifetimeOfTwo == Window + 2 * Bucket
Lifetime == IF kind = "fixed" THEN Window ELSE Window + Bucket

\* The requests that f counts in S, numbered, and how many they are.
Numbered(f, S) == UNION {{x} \X (1 .. f[x]) : x \in S}
Sum(f, S) == Cardinality(Numbered(f, S))

-----------------------------------------------------------------------------
(* What a store decides *)

Answered(w) == worker' = [worker EXCEPT ![w] = [pc |-> "idle", at |-> 0]]
Goes(w, pc) == worker' = [worker EXCEPT ![w].pc = pc]

Admits(store) == admitted' = [admitted EXCEPT ![store][now] = @ + 1]

Refuses == UNCHANGED admitted

\* The buckets of the window: those it holds, and the one under way.
\* Mutant: as many as the window holds.
BucketsHeld(b) == (b - NumBuckets + 1) .. b
BucketsCounted(b) == (b - NumBuckets) .. b

\* The times whose requests the memory of a worker still has.
Remembered ==
    {t \in Time : /\ t <= now
                  /\ IF kind = "fixed" THEN t > now - Window
                     ELSE BucketOf(t) \in BucketsCounted(BucketOf(now))}

\* In memory "fixed" keeps what it admits, "rolling" what it is asked.
Remembers(w) == memory' = [memory EXCEPT ![w][now] = @ + 1]

MemoryAdmits(w) == Admits(w) /\ Remembers(w)

MemoryRefuses(w) ==
    /\ Refuses
    /\ IF kind = "fixed" THEN UNCHANGED memory ELSE Remembers(w)

\* A command failed: the memory of the worker decides.
FallsBack(w) ==
    /\ Answered(w)
    /\ IF Sum(memory[w], Remembered) < Limit THEN MemoryAdmits(w) ELSE MemoryRefuses(w)

-----------------------------------------------------------------------------
(* A request *)

\* The clock is read.
Asks(w) ==
    /\ worker[w].pc = "idle"
    /\ Sum(asked, Time) < MaxRequests[kind]
    /\ asked' = [asked EXCEPT ![now] = @ + 1]
    /\ worker' = [worker EXCEPT ![w] = [pc |-> "incr", at |-> now]]
    /\ UNCHANGED <<config, now, redis, memory, admitted, crashes, lost>>

\* Mutant of Decides: the request that reaches the limit is refused as well.
DecidesEarly(w, total) ==
    /\ Answered(w)
    /\ IF total >= Limit THEN Refuses ELSE Admits("redis")

Decides(w, total) ==
    /\ Answered(w)
    /\ IF total > Limit THEN Refuses ELSE Admits("redis")

Incremented(w) == count' = [count EXCEPT ![CounterOf(w)] = @ + 1]

\* INCR: the first of a counter sets its expiry, and "fixed" decides otherwise.
Increments(w) ==
    /\ worker[w].pc = "incr"
    /\ Incremented(w)
    /\ CASE count[CounterOf(w)] = 0 -> Goes(w, "expire") /\ UNCHANGED admitted
         [] count[CounterOf(w)] > 0 /\ kind = "fixed" -> Decides(w, count'[CounterOf(w)])
         [] OTHER -> Goes(w, "mget") /\ UNCHANGED admitted
    /\ UNCHANGED <<config, now, left, memory, asked, crashes, lost>>

\* EXPIRE. Mutant: of the bucket under way, the clock read once more.
ExpiresCurrent(w) ==
    /\ worker[w].pc = "expire"
    /\ left' = [left EXCEPT ![IF kind = "fixed" THEN 0 ELSE BucketOf(now)] = Lifetime]
    /\ IF kind = "fixed" THEN Decides(w, 1) ELSE Goes(w, "mget") /\ UNCHANGED admitted
    /\ UNCHANGED <<config, now, count, memory, asked, crashes, lost>>

Expires(w) ==
    /\ worker[w].pc = "expire"
    /\ left' = [left EXCEPT ![CounterOf(w)] = Lifetime]
    /\ IF kind = "fixed" THEN Decides(w, 1) ELSE Goes(w, "mget") /\ UNCHANGED admitted
    /\ UNCHANGED <<config, now, count, memory, asked, crashes, lost>>

\* MGET.
Counts(w) ==
    /\ worker[w].pc = "mget"
    /\ Decides(w, Sum(count, BucketsCounted(BucketOf(worker[w].at)) \cap Counters))
    /\ UNCHANGED <<config, now, redis, memory, asked, crashes, lost>>

\* A command fails, before or after Redis has obeyed it.
FailsToIncrement(w) ==
    /\ worker[w].pc = "incr"
    /\ \/ UNCHANGED <<count, lost>>
       \/ Incremented(w) /\ lost' = (lost \/ count[CounterOf(w)] = 0)
    /\ FallsBack(w)
    /\ UNCHANGED <<config, now, left, asked, crashes>>

FailsToExpire(w) ==
    /\ worker[w].pc = "expire"
    /\ \/ left' = [left EXCEPT ![CounterOf(w)] = Lifetime] /\ UNCHANGED lost
       \/ UNCHANGED left /\ lost' = TRUE
    /\ FallsBack(w)
    /\ UNCHANGED <<config, now, count, asked, crashes>>

FailsToCount(w) ==
    /\ worker[w].pc = "mget"
    /\ FallsBack(w)
    /\ UNCHANGED <<config, now, redis, asked, crashes, lost>>

-----------------------------------------------------------------------------
(* The environment *)

\* A worker dies and is started again, with an empty memory.
Crashes(w) ==
    /\ worker[w].pc # "idle" \/ Sum(memory[w], Time) > 0
    /\ crashes < MaxCrashes /\ crashes' = crashes + 1
    /\ Answered(w)
    /\ memory' = [memory EXCEPT ![w] = [t \in Time |-> 0]]
    /\ admitted' = [admitted EXCEPT ![w] = [t \in Time |-> 0]]
    /\ lost' = (lost \/ worker[w].pc = "expire")
    /\ UNCHANGED <<config, now, redis, asked>>

\* A tick: a request that is late was begun less than a bucket ago.
Ticks ==
    /\ now < MaxTime /\ now' = now + 1
    /\ \A w \in Workers :
         worker[w].pc # "idle" => ~timely /\ now' - worker[w].at < Bucket
    /\ left' = [c \in Counters |-> IF left[c] = 0 THEN 0 ELSE left[c] - 1]
    /\ count' = [c \in Counters |-> IF left[c] = 1 THEN 0 ELSE count[c]]
    /\ UNCHANGED <<config, worker, memory, asked, admitted, crashes, lost>>

Init ==
    /\ kind \in Kinds /\ timely \in BOOLEAN
    /\ now = 0
    /\ count = [c \in Counters |-> 0] /\ left = [c \in Counters |-> 0]
    /\ worker = [w \in Workers |-> [pc |-> "idle", at |-> 0]]
    /\ memory = [w \in Workers |-> [t \in Time |-> 0]]
    /\ asked = [t \in Time |-> 0]
    /\ admitted = [s \in Stores |-> [t \in Time |-> 0]]
    /\ crashes = 0 /\ lost = FALSE

Request(w) ==
    \/ Asks(w) \/ Increments(w) \/ Expires(w) \/ Counts(w)
    \/ FailsToIncrement(w) \/ FailsToExpire(w) \/ FailsToCount(w)

Next ==
    \/ \E w \in Workers : Request(w) \/ Crashes(w)
    \/ Ticks

Spec == Init /\ [][Next]_vars

-----------------------------------------------------------------------------
(* Correctness *)

\* The types of the variables.
TypeOK ==
    /\ kind \in Kinds /\ timely \in BOOLEAN /\ now \in Time
    /\ count \in [Counters -> Nat]
    /\ left \in [Counters -> 0 .. Window + Bucket]
    /\ \A c \in Counters : left[c] > 0 => count[c] > 0
    /\ worker \in [Workers -> [pc : {"idle", "incr", "expire", "mget"}, at : Time]]
    /\ memory \in [Workers -> [Time -> Nat]]
    /\ asked \in [Time -> Nat]
    /\ admitted \in [Stores -> [Time -> Nat]]
    /\ crashes \in 0 .. MaxCrashes /\ lost \in BOOLEAN

\* A counter without expiry has the one request under way that will set it, unless
\* a command that should have set it failed or its process died: only the request
\* that INCR answers 1 sets it, and no other ever will (public_chatbot.py:311-314,
\* rate_limit.py:82-84).
CountersExpire ==
    \A c \in Counters :
        count[c] > 0 /\ left[c] = 0
          => lost \/ \E w \in Workers : worker[w].pc = "expire" /\ CounterOf(w) = c

\* The last n ticks.
Last(n) == {t \in Time : t <= now /\ t > now - n}

\* In no Window ticks does a store admit more than the limit, with two exceptions.
\* Under "fixed" Redis may let in almost twice as many, all but the first of one
\* life of the counter and all of the next (public_chatbot.py:307-308 accepts that
\* the window does not slide). Under "rolling" workers that are late at the turn of
\* a bucket are counted in the bucket before: one more for each of them where the
\* window begins, in a bucket it no longer counts, and one more for each other
\* worker where it ends, after the last that counted all (rate_limit.py:79-99).
Bound(store) ==
    IF store \in Workers \/ (kind = "rolling" /\ timely) THEN Limit
    ELSE IF kind = "fixed" THEN 2 * Limit - 1
    ELSE Limit + 2 * Cardinality(Workers) - 1

AdmitsAtMost == \A s \in Stores : Sum(admitted[s], Last(Window)) <= Bound(s)

\* A client is refused only for what it asked shortly before: Limit requests in
\* Window ticks, or in a bucket more under "rolling", which counts in whole
\* buckets. Under "fixed" that takes a counter that was never left without expiry
\* (public_chatbot.py:307-321, rate_limit.py:84-99, 108-129).
Span == IF kind = "fixed" THEN Window ELSE Window + Bucket

Answers(w) == worker[w].pc # "idle" /\ worker'[w].pc = "idle"

Refused(w) == Answers(w) /\ UNCHANGED <<admitted, crashes>>

RefusesOnlyTheBusy ==
    [][\A w \in Workers :
         Refused(w) /\ timely /\ (kind = "fixed" => ~lost)
           => Sum(asked, Last(Span)) > Limit]_vars
=============================================================================
