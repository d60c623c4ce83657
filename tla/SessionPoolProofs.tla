------------------------- MODULE SessionPoolProofs -------------------------
(***************************************************************************)
(* SessionPool keeps its invariants and implements SessionRegistry, for    *)
(* any nodes, sessions, timeouts and leases.                               *)
(***************************************************************************)
EXTENDS SessionPool, TLAPS

USE TimeoutAssumption, LeasesAssumption, CrashesAssumption, NamesAssumption

-----------------------------------------------------------------------------
(* Types.                                                                  *)

\* A node between two commands is about a session; one whose cleaner works is
\* in no handler.
ThreadOK ==
    \A n \in Nodes :
        /\ job[n] # "idle" \/ cleaner[n] = "reap" => who[n] \in Sessions
        /\ cleaner[n] \in Working \cup {"off"} => job[n] = "idle"

Typed == TypeOK /\ ThreadOK

LEMMA InitTyped == Init => Typed
  BY DEF Init, Typed, TypeOK, ThreadOK, Working

LEMMA ClientTyped ==
  ASSUME Typed, NEW n \in Nodes, Client(n)
  PROVE  Typed'
<1> PICK s \in Sessions : Connects(s, n) \/ Joins(s, n) \/ HearsBeat(s, n) \/ Disconnects(s, n)
  BY DEF Client
<1> USE DEF Typed, TypeOK, ThreadOK, lockVars, poolVars, handlerVars, cleanerVars, config
<1>1. CASE Connects(s, n)
  BY <1>1 DEF Connects, Seen
<1>2. CASE Joins(s, n)
  BY <1>2 DEF Joins, Seen
<1>3. CASE HearsBeat(s, n)
  BY <1>3 DEF HearsBeat, Free
<1>4. CASE Disconnects(s, n)
  BY <1>4 DEF Disconnects, Free
<1>5. QED
  BY <1>1, <1>2, <1>3, <1>4

LEMMA HandlerTyped ==
  ASSUME Typed, NEW n \in Nodes, Handler(n)
  PROVE  Typed'
<1> USE DEF Typed, TypeOK, ThreadOK, lockVars, poolVars, handlerVars, cleanerVars, config
<1>1. CASE WritesBeat(n)
  BY <1>1 DEF WritesBeat, Seen, Returns, Working
<1>2. CASE LeavesPool(n)
  BY <1>2 DEF LeavesPool, Dropped, Returns, Working
<1>3. CASE FailsToLeave(n)
  BY <1>3 DEF FailsToLeave, Returns, Working
<1>4. QED
  BY <1>1, <1>2, <1>3 DEF Handler

LEMMA CleanerTyped ==
  ASSUME Typed, NEW n \in Nodes, Cleaner(n)
  PROVE  Typed'
<1> USE DEF Typed, TypeOK, ThreadOK, lockVars, poolVars, handlerVars, cleanerVars, config,
            At, Goes, Working
<1>1. CASE Aquires(n)
  BY <1>1 DEF Aquires, Aquired
<1>2. CASE Renews(n)
  BY <1>2 DEF Renews, Renewed
<1>3. CASE Lists(n)
  BY <1>3 DEF Lists
<1>4. ASSUME NEW s \in Sessions, Reads(n, s) PROVE Typed'
  BY <1>4 DEF Reads
<1>5. CASE Reaps(n)
  BY <1>5 DEF Reaps, Dropped
<1>6. CASE Sleeps(n)
  BY <1>6 DEF Sleeps
<1>7. CASE Wakes(n)
  BY <1>7 DEF Wakes
<1>8. CASE ChecksLock(n)
  BY <1>8 DEF ChecksLock
<1>9. CASE DeletesLock(n)
  BY <1>9 DEF DeletesLock, Deleted
<1>10. QED
  BY <1>1, <1>2, <1>3, <1>4, <1>5, <1>6, <1>7, <1>8, <1>9 DEF Cleaner

LEMMA OtherTyped ==
  ASSUME Typed, Ticks \/ \E n \in Nodes : Starts(n) \/ Crashes(n)
  PROVE  Typed'
<1> USE DEF Typed, TypeOK, ThreadOK, lockVars, poolVars, handlerVars, cleanerVars, config
<1>1. CASE Ticks
  BY <1>1 DEF Ticks, Down, IsStale
<1>2. ASSUME NEW n \in Nodes, Starts(n) PROVE Typed'
  BY <1>2 DEF Starts, Goes, Working
<1>3. ASSUME NEW n \in Nodes, Crashes(n) PROVE Typed'
  BY <1>3 DEF Crashes, Goes, Returns, Working
<1>4. QED
  BY <1>1, <1>2, <1>3

LEMMA NextTyped == Typed /\ [Next]_vars => Typed'
<1> SUFFICES ASSUME Typed, [Next]_vars PROVE Typed'
  OBVIOUS
<1>1. CASE UNCHANGED vars
  BY <1>1 DEF vars, lockVars, poolVars, handlerVars, cleanerVars, config, Typed, TypeOK, ThreadOK
<1>2. QED
  BY <1>1, ClientTyped, HandlerTyped, CleanerTyped, OtherTyped DEF Next

\* Every variable keeps its type, and no handler runs between two commands of
\* its node's cleaner or of another handler.
THEOREM TypeCorrect == Spec => []TypeOK
<1>1. Spec => []Typed
  BY InitTyped, NextTyped, PTL DEF Spec
<1>2. Typed => TypeOK
  BY DEF Typed
<1>3. QED
  BY <1>1, <1>2, PTL

-----------------------------------------------------------------------------
(* The lock.  Time passes for a trusted cleaner only while it sleeps, and  *)
(* it goes to sleep with the whole lease before it.                        *)

Holding == {"loop", "list", "scan", "reap", "asleep", "release", "delete"}

LockInv ==
    /\ \A n \in Nodes : cleaner[n] # "asleep" => nap[n] = 0
    /\ Trusted => \A n \in Nodes :
         /\ cleaner[n] \in Holding => owner = n /\ left > nap[n]
         /\ cleaner[n] \in {"list", "scan", "reap"} => left = lease

LEMMA InitLock == Init => LockInv
  BY DEF Init, LockInv, Holding

\* What leaves the lock and the cleaners alone leaves the invariant.
LEMMA FrameLock ==
  ASSUME LockInv, UNCHANGED <<lockVars, cleaner, nap, config>>
  PROVE  LockInv'
  BY DEF LockInv, lockVars, config, Trusted

LEMMA CleanerLock ==
  ASSUME Typed, LockInv, NEW n \in Nodes, Cleaner(n)
  PROVE  LockInv'
<1> USE DEF Typed, TypeOK, LockInv, Trusted, Holding, lockVars, config, At, Goes, Working
<1>1. CASE Aquires(n)
  BY <1>1 DEF Aquires, Aquired
<1>2. CASE Renews(n)
  BY <1>2 DEF Renews, Renewed
<1>3. CASE Lists(n)
  <2>1. cleaner[n] = "list" /\ UNCHANGED <<lockVars, nap, config>>
    BY <1>3 DEF Lists
  <2>2. QED
    BY <1>3, <2>1 DEF Lists
<1>4. ASSUME NEW s \in Sessions, Reads(n, s) PROVE LockInv'
  BY <1>4 DEF Reads
<1>5. CASE Reaps(n)
  BY <1>5 DEF Reaps
<1>6. CASE Sleeps(n)
  <2>1. \A m \in Nodes \ {n} : cleaner'[m] = cleaner[m] /\ nap'[m] = nap[m]
    BY <1>6 DEF Sleeps
  <2>2. cleaner[n] = "scan" /\ cleaner'[n] = "asleep" /\ nap'[n] = Timeout
    BY <1>6 DEF Sleeps
  <2>3. UNCHANGED <<lockVars, config>>
    BY <1>6 DEF Sleeps
  <2>4. QED
    BY <2>1, <2>2, <2>3
<1>7. CASE Wakes(n)
  BY <1>7 DEF Wakes
<1>8. CASE ChecksLock(n)
  BY <1>8 DEF ChecksLock
<1>9. CASE DeletesLock(n)
  BY <1>9 DEF DeletesLock, Deleted
<1>10. QED
  BY <1>1, <1>2, <1>3, <1>4, <1>5, <1>6, <1>7, <1>8, <1>9 DEF Cleaner

LEMMA TicksLock ==
  ASSUME Typed, LockInv, Ticks
  PROVE  LockInv'
<1> USE DEF Typed, TypeOK, LockInv, Trusted, Holding, config
<1>1. \A m \in Nodes : nap'[m] = Down(nap[m]) /\ cleaner'[m] = cleaner[m]
  BY DEF Ticks
<1>2. left' = Down(left) /\ owner' = (IF left' = 0 THEN None ELSE owner) /\ UNCHANGED config
  BY DEF Ticks
<1>3. timely => \A m \in Nodes :
        cleaner[m] \in {"off", "ended"} \/ (cleaner[m] = "asleep" /\ nap[m] > 0)
  BY DEF Ticks, AtRest
<1>4. QED
  BY <1>1, <1>2, <1>3 DEF Down

LEMMA NextLock == Typed /\ LockInv /\ [Next]_vars => LockInv'
<1> SUFFICES ASSUME Typed, LockInv, [Next]_vars PROVE LockInv'
  OBVIOUS
<1>1. CASE UNCHANGED vars
  BY <1>1, FrameLock DEF vars, cleanerVars
<1>2. ASSUME NEW n \in Nodes, Client(n) PROVE LockInv'
  BY <1>2, FrameLock DEF Client, Connects, Joins, HearsBeat, Disconnects, cleanerVars
<1>3. ASSUME NEW n \in Nodes, Handler(n) PROVE LockInv'
  BY <1>3, FrameLock DEF Handler, WritesBeat, LeavesPool, FailsToLeave, cleanerVars
<1>4. ASSUME NEW n \in Nodes, Starts(n) PROVE LockInv'
  BY <1>4 DEF Starts, Goes, LockInv, Trusted, Holding, lockVars, config, Typed, TypeOK
<1>5. ASSUME NEW n \in Nodes, Crashes(n) PROVE LockInv'
  BY <1>5 DEF Crashes, Goes, LockInv, Trusted, Holding, config, Typed, TypeOK
<1>6. QED
  BY <1>1, <1>2, <1>3, <1>4, <1>5, CleanerLock, TicksLock DEF Next

LEMMA TypedLock == Spec => [](Typed /\ LockInv)
<1>1. Init => Typed /\ LockInv
  BY InitTyped, InitLock
<1>2. Typed /\ LockInv /\ [Next]_vars => (Typed /\ LockInv)'
  BY NextTyped, NextLock
<1>3. QED
  BY <1>1, <1>2, PTL DEF Spec

\* Where the lease outlasts the sleep and no event loop is held up, a cleaner in
\* its loop holds the lock until it wakes.
THEOREM LockProtects == Spec => []LeaseProtects
<1>1. Typed /\ LockInv => LeaseProtects
  BY DEF LockInv, LeaseProtects, Holding, InLoop
<1>2. QED
  BY <1>1, TypedLock, PTL

-----------------------------------------------------------------------------
(* Sessions.  Whoever was never silent is not taken out by a reaper: it    *)
(* has read an age beyond the timeout, and the session was silent then.    *)

Leaving(n, s) == job[n] = "leave" /\ who[n] = s

PoolInv ==
    /\ pool \subseteq entered
    /\ \A s \in pool : age[s] > Timeout => s \in silent
    /\ \A s \in entered : conn[s] # "new"
    /\ \A s \in entered \ silent : conn[s] \in Nodes => s \in pool

JobInv ==
    \A n \in Nodes :
        /\ cleaner[n] = "reap" => who[n] \in silent
        /\ job[n] = "beat" => conn[who[n]] = n
        /\ job[n] = "leave" => /\ conn[who[n]] = "closed"
                               /\ who[n] \notin silent => who[n] \in pool
                               /\ \A m \in Nodes \ {n} : ~Leaving(m, who[n])

SessionInv == PoolInv /\ JobInv

LEMMA InitSession == Init => SessionInv
  BY DEF Init, SessionInv, PoolInv, JobInv, Leaving

LEMMA ClientSession ==
  ASSUME Typed, SessionInv, NEW n \in Nodes, Client(n)
  PROVE  SessionInv'
<1> PICK s \in Sessions : Connects(s, n) \/ Joins(s, n) \/ HearsBeat(s, n) \/ Disconnects(s, n)
  BY DEF Client
<1> USE DEF Typed, TypeOK, ThreadOK, SessionInv, PoolInv, JobInv, Leaving,
            lockVars, poolVars, handlerVars, cleanerVars, config
<1>1. CASE Connects(s, n)
  BY <1>1 DEF Connects, Seen
<1>2. CASE Joins(s, n)
  BY <1>2 DEF Joins, Seen
<1>3. CASE HearsBeat(s, n)
  BY <1>3 DEF HearsBeat, Free, Working
<1>4. CASE Disconnects(s, n)
  BY <1>4 DEF Disconnects, Free, Working
<1>5. QED
  BY <1>1, <1>2, <1>3, <1>4

LEMMA HandlerSession ==
  ASSUME Typed, SessionInv, NEW n \in Nodes, Handler(n)
  PROVE  SessionInv'
<1> USE DEF Typed, TypeOK, ThreadOK, SessionInv, PoolInv, JobInv, Leaving,
            lockVars, poolVars, handlerVars, cleanerVars, config
<1>1. CASE WritesBeat(n)
  BY <1>1 DEF WritesBeat, Seen, Returns, Working
<1>2. CASE LeavesPool(n)
  BY <1>2 DEF LeavesPool, Dropped, Returns, Working
<1>3. CASE FailsToLeave(n)
  BY <1>3 DEF FailsToLeave, Returns, Working
<1>4. QED
  BY <1>1, <1>2, <1>3 DEF Handler

LEMMA CleanerSession ==
  ASSUME Typed, SessionInv, NEW n \in Nodes, Cleaner(n)
  PROVE  SessionInv'
<1> USE DEF Typed, TypeOK, ThreadOK, SessionInv, PoolInv, JobInv, Leaving,
            lockVars, poolVars, handlerVars, cleanerVars, config, At, Goes, Working
<1>1. CASE Aquires(n)
  BY <1>1 DEF Aquires
<1>2. CASE Renews(n)
  BY <1>2 DEF Renews
<1>3. CASE Lists(n)
  BY <1>3 DEF Lists
<1>4. ASSUME NEW s \in Sessions, Reads(n, s) PROVE SessionInv'
  BY <1>4 DEF Reads, IsStale
<1>5. CASE Reaps(n)
  BY <1>5 DEF Reaps, Dropped
<1>6. CASE Sleeps(n)
  BY <1>6 DEF Sleeps
<1>7. CASE Wakes(n)
  BY <1>7 DEF Wakes
<1>8. CASE ChecksLock(n)
  BY <1>8 DEF ChecksLock
<1>9. CASE DeletesLock(n)
  BY <1>9 DEF DeletesLock
<1>10. QED
  BY <1>1, <1>2, <1>3, <1>4, <1>5, <1>6, <1>7, <1>8, <1>9 DEF Cleaner

LEMMA OtherSession ==
  ASSUME Typed, SessionInv, Ticks \/ \E n \in Nodes : Starts(n) \/ Crashes(n)
  PROVE  SessionInv'
<1> USE DEF Typed, TypeOK, ThreadOK, SessionInv, PoolInv, JobInv, Leaving,
            lockVars, poolVars, handlerVars, cleanerVars, config
<1>1. CASE Ticks
  BY <1>1 DEF Ticks
<1>2. ASSUME NEW n \in Nodes, Starts(n) PROVE SessionInv'
  BY <1>2 DEF Starts, Goes
<1>3. ASSUME NEW n \in Nodes, Crashes(n) PROVE SessionInv'
  BY <1>3 DEF Crashes, Goes, Returns
<1>4. QED
  BY <1>1, <1>2, <1>3

LEMMA NextSession == Typed /\ SessionInv /\ [Next]_vars => SessionInv'
<1> SUFFICES ASSUME Typed, SessionInv, [Next]_vars PROVE SessionInv'
  OBVIOUS
<1>1. CASE UNCHANGED vars
  BY <1>1 DEF vars, poolVars, handlerVars, cleanerVars, SessionInv, PoolInv, JobInv, Leaving
<1>2. QED
  BY <1>1, ClientSession, HandlerSession, CleanerSession, OtherSession DEF Next

LEMMA TypedSession == Spec => [](Typed /\ SessionInv)
<1>1. Init => Typed /\ SessionInv
  BY InitTyped, InitSession
<1>2. Typed /\ SessionInv /\ [Next]_vars => (Typed /\ SessionInv)'
  BY NextTyped, NextSession
<1>3. QED
  BY <1>1, <1>2, PTL DEF Spec

\* A connected session that was never silent for too long is in the pool.
THEOREM BeatingKept == Spec => []BeatingIsKept
<1>1. Typed /\ SessionInv => BeatingIsKept
  BY DEF SessionInv, PoolInv, BeatingIsKept
<1>2. QED
  BY <1>1, TypedSession, PTL

\* The disconnect of such a session finds its entry.
THEOREM BeatingCleanedUp == Spec => BeatingIsCleanedUp
<1>1. Typed /\ SessionInv /\ [Next]_vars
        => [\A n \in Nodes : FailsToLeave(n) => who[n] \in silent]_vars
  BY DEF SessionInv, JobInv, FailsToLeave
<1>2. QED
  BY <1>1, TypedSession, PTL DEF Spec, BeatingIsCleanedUp

-----------------------------------------------------------------------------
(* Every step is a step of SessionRegistry or leaves it alone.             *)

RegistryStep == Registry!RegistryNext \/ UNCHANGED Registry!registryVars

\* What each kind of step shows.
LEMMA Stutters ==
  ASSUME UNCHANGED <<pool, silent, config>>, Gone' = Gone, Cleaning' = Cleaning
  PROVE  RegistryStep
  BY DEF RegistryStep, Registry!registryVars, config, Trusted

LEMMA Enters ==
  ASSUME NEW s \in Sessions, s \notin Gone, pool' = pool \cup {s},
         UNCHANGED <<silent, config>>, Gone' = Gone, Cleaning' = Cleaning
  PROVE  RegistryStep
  BY DEF RegistryStep, Registry!RegistryNext, Registry!Enter, config, Trusted

LEMMA Ends ==
  ASSUME NEW s \in Sessions, pool' = pool \ {s}, Gone' = Gone \cup {s},
         UNCHANGED <<silent, config>>, Cleaning' = Cleaning
  PROVE  RegistryStep
  BY DEF RegistryStep, Registry!RegistryNext, Registry!Leave, config, Trusted

LEMMA StopsCleaning ==
  ASSUME NEW n \in Nodes, Cleaning' = Cleaning \ {n}, Gone' = Gone,
         UNCHANGED <<pool, silent, config>>
  PROVE  RegistryStep
  BY DEF RegistryStep, Registry!RegistryNext, Registry!EndCleaning, config, Trusted

\* The sessions that have ended, after a step of the node n's thread.
LEMMA GoneSame ==
  ASSUME UNCHANGED <<conn, job>>,
         \A m \in Nodes : job[m] = "leave" => who'[m] = who[m]
  PROVE  Gone' = Gone
  BY DEF Gone

LEMMA CleaningSame ==
  ASSUME UNCHANGED cleaner
  PROVE  Cleaning' = Cleaning
  BY DEF Cleaning

LEMMA ClientRegistry ==
  ASSUME Typed, SessionInv, NEW n \in Nodes, Client(n)
  PROVE  RegistryStep
<1> PICK s \in Sessions : Connects(s, n) \/ Joins(s, n) \/ HearsBeat(s, n) \/ Disconnects(s, n)
  BY DEF Client
<1>1. Cleaning' = Cleaning
  BY CleaningSame DEF Connects, Joins, HearsBeat, Disconnects, cleanerVars
<1>2. CASE Connects(s, n)
  <2>1. Gone' = Gone /\ s \notin Gone
    BY <1>2 DEF Connects, Gone, Typed, TypeOK
  <2>2. CASE Seen(s)
    BY <1>1, <1>2, <2>1, <2>2, Enters DEF Connects, Seen
  <2>3. CASE UNCHANGED poolVars
    BY <1>1, <1>2, <2>1, <2>3, Stutters DEF Connects, poolVars
  <2>4. QED
    BY <1>2, <2>2, <2>3 DEF Connects
<1>3. CASE Joins(s, n)
  <2>1. Gone' = Gone /\ s \notin Gone
    BY <1>3 DEF Joins, handlerVars, Gone
  <2>2. QED
    BY <1>1, <1>3, <2>1, Enters DEF Joins, Seen
<1>4. CASE HearsBeat(s, n)
  <2>1. Gone' = Gone
    BY <1>4 DEF HearsBeat, Free, Gone, Typed, TypeOK
  <2>2. QED
    BY <1>1, <1>4, <2>1, Stutters DEF HearsBeat, poolVars
<1>5. CASE Disconnects(s, n)
  <2>1. CASE s \in pool
    <3>1. Gone' = Gone
      BY <1>5, <2>1 DEF Disconnects, Free, Gone, Typed, TypeOK
    <3>2. QED
      BY <1>1, <1>5, <3>1, Stutters DEF Disconnects, poolVars
  <2>2. CASE s \notin pool
    <3>1. \A m \in Nodes : ~Leaving(m, s)
      BY <1>5 DEF Disconnects, SessionInv, JobInv, Leaving
    <3>2. Gone' = Gone \cup {s}
      BY <1>5, <2>2, <3>1 DEF Disconnects, Gone, Leaving, Typed, TypeOK
    <3>3. QED
      BY <1>1, <1>5, <2>2, <3>2, Ends DEF Disconnects, poolVars
  <2>3. QED
    BY <2>1, <2>2
<1>6. QED
  BY <1>2, <1>3, <1>4, <1>5

LEMMA HandlerRegistry ==
  ASSUME Typed, SessionInv, NEW n \in Nodes, Handler(n)
  PROVE  RegistryStep
<1>1. Cleaning' = Cleaning
  BY CleaningSame DEF Handler, WritesBeat, LeavesPool, FailsToLeave, cleanerVars
<1>2. CASE WritesBeat(n)
  <2>1. who[n] \in Sessions /\ conn[who[n]] = n
    BY <1>2 DEF WritesBeat, Typed, ThreadOK, SessionInv, JobInv
  <2>2. Gone' = Gone /\ who[n] \notin Gone
    BY <1>2, <2>1 DEF WritesBeat, Returns, Gone, Typed, TypeOK
  <2>3. QED
    BY <1>1, <1>2, <2>1, <2>2, Enters DEF WritesBeat, Seen
<1>3. ASSUME job[n] = "leave", Returns(n), UNCHANGED conn
      PROVE  who[n] \in Sessions /\ Gone' = Gone \cup {who[n]}
  <2>1. /\ who[n] \in Sessions /\ conn[who[n]] = "closed"
        /\ \A m \in Nodes \ {n} : ~Leaving(m, who[n])
    BY <1>3 DEF Typed, ThreadOK, SessionInv, JobInv
  <2>2. \A m \in Nodes \ {n} : job'[m] = job[m] /\ who'[m] = who[m]
    BY <1>3 DEF Returns
  <2>3. job'[n] = "idle"
    BY <1>3 DEF Returns, Typed, TypeOK
  <2>4. QED
    BY <1>3, <2>1, <2>2, <2>3 DEF Gone, Leaving
<1>4. CASE LeavesPool(n)
  BY <1>1, <1>3, <1>4, Ends DEF LeavesPool, Dropped
<1>5. CASE FailsToLeave(n)
  <2>1. pool' = pool \ {who[n]}
    BY <1>5 DEF FailsToLeave, poolVars
  <2>2. QED
    BY <1>1, <1>3, <1>5, <2>1, Ends DEF FailsToLeave, poolVars
<1>6. QED
  BY <1>2, <1>4, <1>5 DEF Handler

LEMMA CleanerRegistry ==
  ASSUME Typed, LockInv, SessionInv, NEW n \in Nodes, Cleaner(n)
  PROVE  RegistryStep
<1>1. UNCHANGED <<conn, job, silent, config>>
  BY DEF Cleaner, Aquires, Renews, Lists, Reads, Reaps, Sleeps, Wakes, ChecksLock,
         DeletesLock, handlerVars, poolVars, Dropped
<1>2. Gone' = Gone
  <2>1. \A m \in Nodes : job[m] = "leave" => who'[m] = who[m]
    BY DEF Cleaner, Aquires, Renews, Lists, Reads, Reaps, Sleeps, Wakes, ChecksLock,
           DeletesLock, At, Typed, TypeOK
  <2>2. QED
    BY <1>1, <2>1, GoneSame
<1> USE DEF Typed, TypeOK, At, Goes, Cleaning, InLoop, Working
<1>3. CASE Aquires(n)
  <2>1. CASE Aquired(n) /\ Goes(n, "loop")
    <3>1. Trusted => Cleaning = {}
      BY <2>1 DEF Aquired, LockInv, Holding
    <3>2. Cleaning' = Cleaning \cup {n}
      BY <1>3, <2>1 DEF Aquires
    <3>3. UNCHANGED <<pool, silent, config>>
      BY <1>3 DEF Aquires, poolVars
    <3>4. QED
      BY <1>2, <3>1, <3>2, <3>3
         DEF RegistryStep, Registry!RegistryNext, Registry!BeginCleaning, config, Trusted
  <2>2. CASE Goes(n, "ended")
    <3>1. Cleaning' = Cleaning
      BY <1>3, <2>2 DEF Aquires
    <3>2. QED
      BY <1>2, <1>3, <3>1, Stutters DEF Aquires, poolVars
  <2>3. QED
    BY <1>3, <2>1, <2>2 DEF Aquires
<1>4. CASE Renews(n)
  <2>1. UNCHANGED <<pool, silent, config>>
    BY <1>4 DEF Renews, poolVars
  <2>2. Cleaning' = Cleaning \/ Cleaning' = Cleaning \ {n}
    BY <1>4 DEF Renews
  <2>3. QED
    BY <1>2, <2>1, <2>2, Stutters, StopsCleaning
<1>5. CASE Lists(n) \/ Sleeps(n) \/ Wakes(n) \/ ChecksLock(n) \/ DeletesLock(n)
  <2>1. Cleaning' = Cleaning
    BY <1>5 DEF Lists, Sleeps, Wakes, ChecksLock, DeletesLock
  <2>2. UNCHANGED <<pool, silent, config>>
    BY <1>5 DEF Lists, Sleeps, Wakes, ChecksLock, DeletesLock, poolVars
  <2>3. QED
    BY <1>2, <2>1, <2>2, Stutters
<1>6. ASSUME NEW s \in Sessions, Reads(n, s) PROVE RegistryStep
  <2>1. Cleaning' = Cleaning
    BY <1>6 DEF Reads
  <2>2. QED
    BY <1>2, <1>6, <2>1, Stutters DEF Reads, poolVars
<1>7. CASE Reaps(n)
  <2>1. who[n] \in silent /\ who[n] \in Sessions /\ n \in Cleaning
    BY <1>7 DEF Reaps, SessionInv, JobInv, ThreadOK
  <2>2. CASE who[n] \in pool
    <3>1. Cleaning' = Cleaning
      BY <1>7, <2>2 DEF Reaps
    <3>2. pool' = pool \ {who[n]}
      BY <1>7, <2>2 DEF Reaps, Dropped
    <3>3. QED
      BY <1>1, <1>2, <2>1, <3>1, <3>2
         DEF RegistryStep, Registry!RegistryNext, Registry!Reap, config, Trusted
  <2>3. CASE who[n] \notin pool
    <3>1. Cleaning' = Cleaning \ {n}
      BY <1>7, <2>3 DEF Reaps
    <3>2. QED
      BY <1>2, <1>7, <2>3, <3>1, StopsCleaning DEF Reaps, poolVars
  <2>4. QED
    BY <2>2, <2>3
<1>8. QED
  BY <1>3, <1>4, <1>5, <1>6, <1>7 DEF Cleaner

LEMMA OtherRegistry ==
  ASSUME Typed, SessionInv, Ticks \/ \E n \in Nodes : Starts(n) \/ Crashes(n)
  PROVE  RegistryStep
<1>1. CASE Ticks
  <2>1. Gone' = Gone /\ Cleaning' = Cleaning /\ UNCHANGED <<pool, config>>
    BY <1>1 DEF Ticks, handlerVars, Gone, Cleaning
  <2>2. PICK S \in SUBSET Sessions : S \subseteq pool /\ silent' = silent \cup S
    BY <1>1 DEF Ticks, Typed, TypeOK
  <2>3. QED
    BY <2>1, <2>2 DEF RegistryStep, Registry!RegistryNext, Registry!FallSilent, config, Trusted
<1>2. ASSUME NEW n \in Nodes, Starts(n) PROVE RegistryStep
  <2>1. Gone' = Gone
    BY <1>2 DEF Starts, handlerVars, Gone
  <2>2. Cleaning' = Cleaning
    BY <1>2 DEF Starts, Goes, Cleaning, InLoop, Typed, TypeOK
  <2>3. QED
    BY <1>2, <2>1, <2>2, Stutters DEF Starts, poolVars
<1>3. ASSUME NEW n \in Nodes, Crashes(n) PROVE RegistryStep
  <2>1. Cleaning' = Cleaning \ {n}
    BY <1>3 DEF Crashes, Goes, Cleaning, InLoop, Typed, TypeOK
  <2> DEFINE S == Gone' \ Gone
  <2>2. S \in SUBSET Sessions /\ Gone' = Gone \cup S
    <3>1. Gone \subseteq Gone'
      BY <1>3 DEF Crashes, Returns, Gone, Typed, TypeOK
    <3>2. QED
      BY <3>1 DEF Gone
  <2>3. UNCHANGED <<pool, silent, config>>
    BY <1>3 DEF Crashes, poolVars
  <2> HIDE DEF S
  <2>4. Registry!Die(n, S)
    BY <2>1, <2>2, <2>3 DEF Registry!Die, config, Trusted
  <2>5. QED
    BY <2>2, <2>4 DEF RegistryStep, Registry!RegistryNext
<1>4. QED
  BY <1>1, <1>2, <1>3

LEMMA NextRegistry == Typed /\ LockInv /\ SessionInv /\ [Next]_vars => RegistryStep
<1> SUFFICES ASSUME Typed, LockInv, SessionInv, [Next]_vars PROVE RegistryStep
  OBVIOUS
<1>1. CASE UNCHANGED vars
  <2>1. Gone' = Gone /\ Cleaning' = Cleaning /\ UNCHANGED <<pool, silent, config>>
    BY <1>1 DEF vars, poolVars, handlerVars, cleanerVars, Gone, Cleaning
  <2>2. QED
    BY <2>1, Stutters
<1>2. QED
  BY <1>1, ClientRegistry, HandlerRegistry, CleanerRegistry, OtherRegistry DEF Next

\* The registry kept in Redis by handlers and cleaners of all nodes implements
\* the abstract one.
THEOREM Refines == Spec => KeepsRegistry
<1>1. Init => Registry!RegistryInit
  BY DEF Init, Registry!RegistryInit, Gone, Cleaning, InLoop, Trusted
<1>2. Typed /\ LockInv /\ SessionInv /\ [Next]_vars
        => [Registry!RegistryNext]_(Registry!registryVars)
  BY NextRegistry DEF RegistryStep
<1>3. QED
  BY <1>1, <1>2, TypedLock, TypedSession, PTL DEF Spec, KeepsRegistry, Registry!RegistrySpec
=============================================================================
