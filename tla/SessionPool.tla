---------------------------- MODULE SessionPool ----------------------------
(***************************************************************************)
(* The registry of socket sessions that all nodes of a deployment share in *)
(* Redis (socket/main.py: SESSION_POOL, its handlers and                   *)
(* periodic_session_pool_cleanup; socket/utils.py: RedisLock, RedisDict).  *)
(*                                                                         *)
(* Each node is one event loop and the Redis client is synchronous: until  *)
(* a handler or the cleaner awaits, nothing else runs on its node, but the *)
(* other nodes run between any two of its commands.  Every action here is  *)
(* one command on Redis, or one read with the decision taken on it.        *)
(***************************************************************************)
EXTENDS Naturals, FiniteSets

CONSTANTS
    Nodes,        \* the nodes of the deployment
    Sessions,     \* socket ids; an id is never used twice
    None,         \* the lock is free; nobody is being handled
    Dead,         \* the lock id of a process that no longer exists
    Timeout,      \* SESSION_POOL_TIMEOUT, in ticks of a minute
    Leases,       \* the values of WEBSOCKET_REDIS_LOCK_TIMEOUT, in ticks
    MaxCrashes    \* bound on the crashes of nodes

ASSUME TimeoutAssumption == Timeout \in Nat \ {0}
ASSUME LeasesAssumption == Leases \subseteq Nat \ {0}
ASSUME CrashesAssumption == MaxCrashes \in Nat
ASSUME NamesAssumption ==
    /\ None \notin Nodes /\ Dead \notin Nodes /\ None # Dead /\ None \notin Sessions
    /\ "new" \notin Nodes /\ "closed" \notin Nodes

VARIABLES
    owner,     \* the lock's key: a node's lock id, Dead or None
    left,      \* ticks until the key expires
    pool,      \* the keys of SESSION_POOL
    age,       \* ticks since last_seen_at, saturated
    entered,   \* history: sessions that have been entered
    silent,    \* history: those that were once silent for more than Timeout
    conn,      \* where a session's socket is: a node, "new" or "closed"
    job,       \* the handler a node is in the middle of
    who,       \* the session that handler, or the node's reaper, is about
    cleaner,   \* where a node's cleaner is
    todo,      \* the sids its round has still to look at
    nap,       \* ticks until it wakes
    lease,     \* the deployment's lock timeout
    timely,    \* no event loop is held up for as long as a tick
    crashes

lockVars == <<owner, left>>
poolVars == <<pool, age, entered, silent>>
handlerVars == <<conn, job>>
cleanerVars == <<cleaner, todo, nap>>
config == <<lease, timely>>
vars == <<lockVars, poolVars, handlerVars, who, cleanerVars, config, crashes>>

-----------------------------------------------------------------------------
(* The event loop of a node.                                               *)

Working == {"loop", "list", "scan", "reap", "release", "delete"}
InLoop == {"loop", "list", "scan", "reap", "asleep"}

\* Up, and neither a handler nor the cleaner between two commands.
Free(n) == job[n] = "idle" /\ cleaner[n] \notin Working \cup {"off"}

\* The cleaner goes on: no handler is between two commands.
At(n, place) == cleaner[n] = place /\ job[n] = "idle"

Goes(n, place) == cleaner' = [cleaner EXCEPT ![n] = place]

\* A timer runs down.
\* Mutant: past its end.
DownPastZero(k) == k - 1
Down(k) == IF k = 0 THEN 0 ELSE k - 1

Seen(s) ==
    /\ pool' = pool \cup {s}
    /\ age' = [age EXCEPT ![s] = 0]
    /\ entered' = entered \cup {s}
    /\ UNCHANGED silent

Dropped(s) ==
    /\ pool' = pool \ {s}
    /\ age' = [age EXCEPT ![s] = 0]
    /\ UNCHANGED <<entered, silent>>

-----------------------------------------------------------------------------
(* RedisLock: SET NX EX, SET XX EX, and a release of two commands.         *)

\* Mutant: without NX.
AquiredFromAny(n) == owner' = n /\ left' = lease
Aquired(n) == owner = None /\ owner' = n /\ left' = lease

Renewed(n) == owner # None /\ owner' = n /\ left' = lease

Deleted == owner' = None /\ left' = 0

-----------------------------------------------------------------------------
(* Handlers.                                                               *)

\* connect: a session whose token is good is entered; one without stays
\* unknown until user-join.
Connects(s, n) ==
    /\ conn[s] = "new" /\ Free(n)
    /\ conn' = [conn EXCEPT ![s] = n]
    /\ Seen(s) \/ UNCHANGED poolVars
    /\ UNCHANGED <<lockVars, job, who, cleanerVars, config, crashes>>

Joins(s, n) ==
    /\ conn[s] = n /\ Free(n)
    /\ Seen(s)
    /\ UNCHANGED <<lockVars, handlerVars, who, cleanerVars, config, crashes>>

\* heartbeat: the entry is read, and written back with the time if it is there.
HearsBeat(s, n) ==
    /\ conn[s] = n /\ Free(n)
    /\ s \in pool
    /\ job' = [job EXCEPT ![n] = "beat"]
    /\ who' = [who EXCEPT ![n] = s]
    /\ UNCHANGED <<lockVars, poolVars, conn, cleanerVars, config, crashes>>

Returns(n) ==
    /\ job' = [job EXCEPT ![n] = "idle"]
    /\ who' = [who EXCEPT ![n] = None]

WritesBeat(n) ==
    /\ job[n] = "beat"
    /\ Seen(who[n])
    /\ Returns(n)
    /\ UNCHANGED <<lockVars, conn, cleanerVars, config, crashes>>

\* disconnect: nothing more is done for a sid that is not in the pool.
Disconnects(s, n) ==
    /\ conn[s] = n /\ Free(n)
    /\ conn' = [conn EXCEPT ![s] = "closed"]
    /\ IF s \in pool
       THEN job' = [job EXCEPT ![n] = "leave"] /\ who' = [who EXCEPT ![n] = s]
       ELSE UNCHANGED <<job, who>>
    /\ UNCHANGED <<lockVars, poolVars, cleanerVars, config, crashes>>

LeavesPool(n) ==
    /\ job[n] = "leave" /\ who[n] \in pool
    /\ Dropped(who[n])
    /\ Returns(n)
    /\ UNCHANGED <<lockVars, conn, cleanerVars, config, crashes>>

\* The entry read or deleted is no longer there: KeyError, and neither the
\* pool of used models nor the documents are cleaned.
FailsToLeave(n) ==
    /\ job[n] = "leave" /\ who[n] \notin pool
    /\ Returns(n)
    /\ UNCHANGED <<lockVars, poolVars, conn, cleanerVars, config, crashes>>

-----------------------------------------------------------------------------
(* periodic_session_pool_cleanup, once per start of a node.                *)

Starts(n) ==
    /\ cleaner[n] = "off"
    /\ Goes(n, "begin")
    /\ UNCHANGED <<lockVars, poolVars, handlerVars, who, todo, nap, config, crashes>>

Aquires(n) ==
    /\ At(n, "begin")
    /\ \/ Aquired(n) /\ Goes(n, "loop")
       \/ owner # None /\ UNCHANGED lockVars /\ Goes(n, "ended")
    /\ UNCHANGED <<poolVars, handlerVars, who, todo, nap, config, crashes>>

Renews(n) ==
    /\ At(n, "loop")
    /\ \/ Renewed(n) /\ Goes(n, "list")
       \/ owner = None /\ UNCHANGED lockVars /\ Goes(n, "release")
    /\ UNCHANGED <<poolVars, handlerVars, who, todo, nap, config, crashes>>

\* Mutant: each node looks after its own sessions.
ListsOwn(n) ==
    /\ At(n, "list")
    /\ todo' = [todo EXCEPT ![n] = {s \in pool : conn[s] = n}]
    /\ Goes(n, "scan")
    /\ UNCHANGED <<lockVars, poolVars, handlerVars, who, nap, config, crashes>>

Lists(n) ==
    /\ At(n, "list")
    /\ todo' = [todo EXCEPT ![n] = pool]
    /\ Goes(n, "scan")
    /\ UNCHANGED <<lockVars, poolVars, handlerVars, who, nap, config, crashes>>

\* Mutants: a beat that comes just in time is too late; any entry is stale.
IsStaleAtTimeout(s) == s \in pool /\ age[s] >= Timeout
IsStaleIfAny(s) == s \in pool

IsStale(s) == s \in pool /\ age[s] > Timeout

Reads(n, s) ==
    /\ At(n, "scan") /\ s \in todo[n]
    /\ todo' = [todo EXCEPT ![n] = @ \ {s}]
    /\ IF IsStale(s)
       THEN Goes(n, "reap") /\ who' = [who EXCEPT ![n] = s]
       ELSE UNCHANGED <<cleaner, who>>
    /\ UNCHANGED <<lockVars, poolVars, handlerVars, nap, config, crashes>>

\* del SESSION_POOL[sid]: KeyError ends the cleaner if the entry has gone.
Reaps(n) ==
    /\ At(n, "reap")
    /\ who' = [who EXCEPT ![n] = None]
    /\ IF who[n] \in pool
       THEN Dropped(who[n]) /\ Goes(n, "scan") /\ UNCHANGED todo
       ELSE Goes(n, "release") /\ todo' = [todo EXCEPT ![n] = {}] /\ UNCHANGED poolVars
    /\ UNCHANGED <<lockVars, handlerVars, nap, config, crashes>>

Sleeps(n) ==
    /\ At(n, "scan") /\ todo[n] = {}
    /\ nap' = [nap EXCEPT ![n] = Timeout]
    /\ Goes(n, "asleep")
    /\ UNCHANGED <<lockVars, poolVars, handlerVars, who, todo, config, crashes>>

Wakes(n) ==
    /\ At(n, "asleep") /\ nap[n] = 0
    /\ Goes(n, "loop")
    /\ UNCHANGED <<lockVars, poolVars, handlerVars, who, todo, nap, config, crashes>>

\* finally: release_lock reads the key, and deletes it if it is its own.
ChecksLock(n) ==
    /\ At(n, "release")
    /\ Goes(n, IF owner = n THEN "delete" ELSE "ended")
    /\ UNCHANGED <<lockVars, poolVars, handlerVars, who, todo, nap, config, crashes>>

DeletesLock(n) ==
    /\ At(n, "delete")
    /\ Deleted
    /\ Goes(n, "ended")
    /\ UNCHANGED <<poolVars, handlerVars, who, todo, nap, config, crashes>>

-----------------------------------------------------------------------------
(* The environment: time, and nodes that die.                              *)

\* Every timer is about as long as a tick or longer; the commands of a
\* handler or of a round take far less, unless the deployment is not timely.
AtRest(n) ==
    /\ job[n] = "idle"
    /\ cleaner[n] \in {"off", "ended"} \/ (cleaner[n] = "asleep" /\ nap[n] > 0)

Ticks ==
    /\ timely => \A n \in Nodes : AtRest(n)
    /\ age' = [s \in Sessions |-> IF s \in pool /\ ~IsStale(s) THEN age[s] + 1 ELSE age[s]]
    /\ silent' = silent \cup {s \in pool : age'[s] > Timeout}
    /\ left' = Down(left)
    /\ owner' = IF left' = 0 THEN None ELSE owner
    /\ nap' = [n \in Nodes |-> Down(nap[n])]
    /\ UNCHANGED <<pool, entered, handlerVars, who, cleaner, todo, config, crashes>>

\* Its sockets close without a handler; a new start draws a new lock id.
Crashes(n) ==
    /\ cleaner[n] # "off" /\ crashes < MaxCrashes
    /\ crashes' = crashes + 1
    /\ conn' = [s \in Sessions |-> IF conn[s] = n THEN "closed" ELSE conn[s]]
    /\ Returns(n)
    /\ Goes(n, "off")
    /\ todo' = [todo EXCEPT ![n] = {}]
    /\ nap' = [nap EXCEPT ![n] = 0]
    /\ owner' = IF owner = n THEN Dead ELSE owner
    /\ UNCHANGED <<left, poolVars, config>>

-----------------------------------------------------------------------------
Init ==
    /\ owner = None /\ left = 0
    /\ pool = {} /\ age = [s \in Sessions |-> 0]
    /\ entered = {} /\ silent = {}
    /\ conn = [s \in Sessions |-> "new"]
    /\ job = [n \in Nodes |-> "idle"] /\ who = [n \in Nodes |-> None]
    /\ cleaner = [n \in Nodes |-> "off"]
    /\ todo = [n \in Nodes |-> {}] /\ nap = [n \in Nodes |-> 0]
    /\ lease \in Leases /\ timely \in BOOLEAN
    /\ crashes = 0

Handler(n) == WritesBeat(n) \/ LeavesPool(n) \/ FailsToLeave(n)

Cleaner(n) ==
    \/ Aquires(n) \/ Renews(n) \/ Lists(n)
    \/ \E s \in Sessions : Reads(n, s)
    \/ Reaps(n) \/ Sleeps(n) \/ Wakes(n) \/ ChecksLock(n) \/ DeletesLock(n)

Client(n) ==
    \E s \in Sessions :
        Connects(s, n) \/ Joins(s, n) \/ HearsBeat(s, n) \/ Disconnects(s, n)

Next ==
    \/ \E n \in Nodes : Client(n) \/ Handler(n) \/ Starts(n) \/ Cleaner(n) \/ Crashes(n)
    \/ Ticks

Spec == Init /\ [][Next]_vars

\* A node that is up goes on, and time passes, whatever clients do: an event
\* loop takes what is due in the order it came due.  Clients, starts and
\* crashes are the environment's.
Fairness ==
    /\ \A n \in Nodes : WF_vars(Handler(n)) /\ SF_vars(Cleaner(n))
    /\ SF_vars(Ticks)

FairSpec == Spec /\ Fairness

-----------------------------------------------------------------------------
(* Correctness.                                                            *)

\* The types of the variables.
TypeOK ==
    /\ owner \in Nodes \cup {Dead, None} /\ left \in Nat
    /\ pool \subseteq Sessions /\ entered \subseteq Sessions /\ silent \subseteq Sessions
    /\ age \in [Sessions -> Nat]
    /\ conn \in [Sessions -> Nodes \cup {"new", "closed"}]
    /\ job \in [Nodes -> {"idle", "beat", "leave"}]
    /\ who \in [Nodes -> Sessions \cup {None}]
    /\ cleaner \in [Nodes -> Working \cup {"off", "begin", "asleep", "ended"}]
    /\ todo \in [Nodes -> SUBSET Sessions] /\ nap \in [Nodes -> Nat]
    /\ lease \in Leases /\ timely \in BOOLEAN
    /\ crashes \in 0..MaxCrashes

\* Where the lease outlasts the sleep between two rounds and no event loop is
\* held up, a cleaner in its loop holds the lock, and it will not expire
\* before the cleaner wakes: no renewal takes another node's lock, and no
\* release deletes one.
Trusted == timely /\ lease > Timeout

LeaseProtects ==
    Trusted => \A n \in Nodes : cleaner[n] \in InLoop => owner = n /\ left > nap[n]

\* A connected session that has never been silent for too long is in the pool,
\* whatever the cleaners of all nodes and the other sessions do: its handlers
\* and events are served.
BeatingIsKept ==
    \A s \in entered \ silent : conn[s] \in Nodes => s \in pool

\* The disconnect of such a session comes to its end: the pool of used models
\* and the documents are rid of it.
BeatingIsCleanedUp ==
    [][\A n \in Nodes : FailsToLeave(n) => who[n] \in silent]_vars

\* The registry keeps its promises: what SessionRegistry says of the pool, of
\* the sessions that have ended and of the nodes that clean.
Gone == {s \in Sessions :
           conn[s] = "closed" /\ \A n \in Nodes : ~(job[n] = "leave" /\ who[n] = s)}

Cleaning == {n \in Nodes : cleaner[n] \in InLoop}

Registry == INSTANCE SessionRegistry WITH
    gone <- Gone, cleaning <- Cleaning, trusted <- Trusted

KeepsRegistry == Registry!RegistrySpec

\* What a session left behind is reaped, as long as a cleaner runs.
Orphan(s) == s \in pool \cap Gone

OrphansAreReaped ==
    \A s \in Sessions : Orphan(s) ~> (~Orphan(s) \/ Cleaning = {})
=============================================================================
