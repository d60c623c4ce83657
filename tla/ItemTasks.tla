------------------------------ MODULE ItemTasks ------------------------------
(***************************************************************************)
(* The debounced saves of a document edited together: each update stops    *)
(* the saves that are pending and schedules its own (socket/main.py), by   *)
(* the registry of tasks in tasks/__init__.py, which is kept in memory     *)
(* and, with Redis, in a hash and a set that all server nodes share.       *)
(*                                                                         *)
(* Handlers of updates, saves, their clean-ups and the listeners for stop  *)
(* commands interleave at awaits. Without Redis stopping has no await      *)
(* between two tasks but for the end of the first: see Next.               *)
(*                                                                         *)
(* Data: an update, its handler, the save it schedules and the content it  *)
(* carries have the same number, in the order of arrival. The registries   *)
(* of several nodes are modelled as one: a task's number is not reused.    *)
(***************************************************************************)
EXTENDS Naturals, FiniteSets

CONSTANTS
    MaxUpdates,   \* bound: updates
    Nodes,        \* the server nodes
    Modes,        \* the settings of Redis to look at
    QuickEntries  \* TRUE: an entry reaches Redis within the debounce

ASSUME TasksAssumption ==
    /\ MaxUpdates \in Nat
    /\ Modes \subseteq BOOLEAN
    /\ QuickEntries \in BOOLEAN

VARIABLES
    redis,     \* there is a Redis; never changes
    node,      \* for each update the node that handles it; never changes
    request,   \* for each update the handler of ydoc:document:update
    save,      \* for each update the task debounced_save
    ahead,     \* for each save those scheduled before it
    tasks,     \* the dictionary tasks
    items,     \* the list item_tasks[document], in the order of scheduling
    hash,      \* <prefix>:tasks
    set,       \* <prefix>:tasks:item:<document>
    commands,  \* stop commands the listeners have not received
    note,      \* whose content the note has, 0 for its first
    last,      \* observer: the save scheduled last
    lost,      \* observer: a later handler scheduled none, or that save was refused
    overtaken  \* observer: it was written while one scheduled before it slept on

setting == <<redis, node>>
registry == <<tasks, items>>
shared == <<hash, set, commands>>
observers == <<last, lost, overtaken>>
vars == <<setting, request, save, ahead, registry, shared, note, observers>>

Id == 1 .. MaxUpdates
Request == [pc : {"none", "list", "stop", "join", "broadcast", "enter", "done"},
            todo : SUBSET Id,    \* with Redis: the tasks it has yet to stop;
                                 \* without: the one it awaits
            next : Nat,          \* without: the index of the next one
            live : BOOLEAN]      \* and whether its list is still item_tasks[document]
Save == [pc : {"none", "asleep", "done"}, cancelled : BOOLEAN,
         cleanup : {"none", "entry", "delete", "local", "done"}]

TypeOK ==
    /\ redis \in BOOLEAN
    /\ node \in [Id -> Nodes]
    /\ ~redis => \A u, v \in Id : node[u] = node[v]
    /\ request \in [Id -> Request]
    /\ save \in [Id -> Save]
    /\ ahead \in [Id -> SUBSET Id]
    /\ tasks \subseteq Id
    /\ items \subseteq Id
    /\ hash \subseteq Id
    /\ set \subseteq Id
    /\ commands \subseteq Id
    /\ ~redis => hash = {} /\ set = {} /\ commands = {}
    /\ note \in Id \cup {0}
    /\ last \in Id \cup {0}
    /\ lost \in BOOLEAN
    /\ overtaken \in BOOLEAN

\* Nodes work on one registry only through a Redis.
Init ==
    /\ redis \in Modes
    /\ node \in [Id -> Nodes]
    /\ ~redis => \A u, v \in Id : node[u] = node[v]
    /\ request = [u \in Id |-> [pc |-> "none", todo |-> {}, next |-> 1, live |-> FALSE]]
    /\ save = [u \in Id |-> [pc |-> "none", cancelled |-> FALSE, cleanup |-> "none"]]
    /\ ahead = [u \in Id |-> {}]
    /\ tasks = {}
    /\ items = {}
    /\ hash = {}
    /\ set = {}
    /\ commands = {}
    /\ note = 0
    /\ last = 0
    /\ lost = FALSE
    /\ overtaken = FALSE

-----------------------------------------------------------------------------
(* Helpers *)

RequestAt(u, pc) == request[u].pc = pc
RequestGoes(u, pc) == request' = [request EXCEPT ![u].pc = pc]

\* task.cancel(): nothing for a task that is done.
Cancelled(u) == [save EXCEPT ![u].cancelled = save[u].pc = "asleep"]

\* A save ends; its done callback starts the clean-up.
Ended(u) == [save EXCEPT ![u].pc = "done", ![u].cleanup = IF redis THEN "entry" ELSE "local"]

-----------------------------------------------------------------------------
(* ydoc:document:update *)

\* Updates are numbered in the order in which they arrive.
Arrives(u) ==
    /\ RequestAt(u, "none")
    /\ \A v \in 1 .. u - 1 : ~RequestAt(v, "none")
    /\ RequestGoes(u, "list")
    /\ UNCHANGED <<setting, save, ahead, registry, shared, note, observers>>

\* stop_item_tasks: the tasks of the document, a copy of the set or the list itself.
ListsTasks(u) ==
    /\ RequestAt(u, "list")
    /\ LET found == IF redis THEN set ELSE items
       IN request' = [request EXCEPT ![u] =
            [pc |-> IF found = {} THEN "broadcast" ELSE "stop",
             todo |-> IF redis THEN found ELSE {}, next |-> 1, live |-> ~redis]]
    /\ UNCHANGED <<setting, save, ahead, registry, shared, note, observers>>

\* With Redis: a command is published for each.
PublishesStop(u) ==
    /\ redis
    /\ RequestAt(u, "stop")
    /\ \E v \in request[u].todo :
         /\ commands' = commands \cup {v}
         /\ request' = [request EXCEPT ![u] = [request[u] EXCEPT !.todo = @ \ {v},
                          !.pc = IF request[u].todo = {v} THEN "broadcast" ELSE "stop"]]
    /\ UNCHANGED <<setting, save, ahead, registry, hash, set, note, observers>>

\* Where in the list a task is, and the one an iteration over it comes to next:
\* none past its end, or when the list is no longer the document's.
Position(v) == Cardinality(ahead[v] \cap items) + 1
Following(u) == {v \in items : request[u].live /\ Position(v) = request[u].next}

\* Without: the next task of the list is popped, cancelled and awaited. One that
\* is not found ends the loop, as does the end of the list.
StopsNext(u) ==
    /\ ~redis
    /\ RequestAt(u, "stop")
    /\ \/ /\ Following(u) \cap tasks = {}
          /\ RequestGoes(u, "broadcast")
          /\ UNCHANGED <<save, tasks>>
       \/ \E v \in Following(u) \cap tasks :
             /\ tasks' = tasks \ {v}
             /\ save' = Cancelled(v)
             /\ request' = [request EXCEPT ![u] =
                  [pc |-> IF save[v].pc = "asleep" THEN "join" ELSE "stop",
                   todo |-> {v}, next |-> @.next + 1, live |-> @.live]]
    /\ UNCHANGED <<setting, ahead, items, shared, note, observers>>

\* Mutant of Joins: the clean-up of the task is awaited as well.
JoinsCleanup(u) ==
    /\ RequestAt(u, "join")
    /\ \A v \in request[u].todo : save[v].cleanup = "done"
    /\ RequestGoes(u, "stop")
    /\ UNCHANGED <<setting, save, ahead, registry, shared, note, observers>>

Joins(u) ==
    /\ RequestAt(u, "join")
    /\ \A v \in request[u].todo : save[v].pc = "done"
    /\ RequestGoes(u, "stop")
    /\ UNCHANGED <<setting, save, ahead, registry, shared, note, observers>>

\* Mutant: the entry is made without looking for a Redis.
SchedulesAndEnters(u) ==
    /\ RequestAt(u, "broadcast")
    /\ save' = [save EXCEPT ![u].pc = "asleep"]
    /\ ahead' = [ahead EXCEPT ![u] = {v \in Id : save[v].pc # "none"}]
    /\ tasks' = tasks \cup {u}
    /\ items' = items \cup {u}
    /\ RequestGoes(u, "enter")
    /\ last' = u
    /\ lost' = FALSE
    /\ overtaken' = FALSE
    /\ UNCHANGED <<setting, shared, note>>

\* The update was stored and broadcast: a save is scheduled, ...
Schedules(u) ==
    /\ RequestAt(u, "broadcast")
    /\ save' = [save EXCEPT ![u].pc = "asleep"]
    /\ ahead' = [ahead EXCEPT ![u] = {v \in Id : save[v].pc # "none"}]
    /\ tasks' = tasks \cup {u}
    /\ items' = items \cup {u}
    /\ RequestGoes(u, IF redis THEN "enter" ELSE "done")
    /\ last' = u
    /\ lost' = FALSE
    /\ overtaken' = FALSE
    /\ UNCHANGED <<setting, shared, note>>

\* ... unless the session is not in the pool or the update carries no content.
EndsUnsaved(u) ==
    /\ RequestAt(u, "broadcast")
    /\ RequestGoes(u, "done")
    /\ lost' = TRUE
    /\ UNCHANGED <<setting, save, ahead, registry, shared, note, last, overtaken>>

\* redis_save_task
EntersTask(u) ==
    /\ RequestAt(u, "enter")
    /\ hash' = hash \cup {u}
    /\ set' = set \cup {u}
    /\ RequestGoes(u, "done")
    /\ UNCHANGED <<setting, save, ahead, registry, commands, note, observers>>

-----------------------------------------------------------------------------
(* redis_task_command_listener *)

\* Mutant: a stop command is for every task of the node.
ReceivesStopForAll(u) ==
    /\ u \in commands
    /\ commands' = commands \ {u}
    /\ save' = [v \in Id |-> IF node[v] = node[u] THEN Cancelled(v)[v] ELSE save[v]]
    /\ UNCHANGED <<setting, request, ahead, registry, hash, set, note, observers>>

ReceivesStop(u) ==
    /\ u \in commands
    /\ commands' = commands \ {u}
    /\ save' = IF u \in tasks THEN Cancelled(u) ELSE save
    /\ UNCHANGED <<setting, request, ahead, registry, hash, set, note, observers>>

\* The listener of the task's node had not subscribed yet, or has died: nothing
\* restarts one whose connection failed, and what is published meanwhile is lost.
LosesStop(u) ==
    /\ u \in commands
    /\ commands' = commands \ {u}
    /\ UNCHANGED <<setting, request, save, ahead, registry, hash, set, note, observers>>

-----------------------------------------------------------------------------
(* debounced_save *)

\* Half a second has passed, for every save the same: of those in one event loop
\* the first to sleep wakes first. Nothing orders the loops of two nodes.
SleepIsOver(u) ==
    /\ save[u].pc = "asleep" /\ ~save[u].cancelled
    /\ \A v \in ahead[u] : node[v] = node[u] => save[v].pc # "asleep"
    /\ QuickEntries => ~RequestAt(u, "enter")

\* A save scheduled before this one is held up and no stop has reached it.
Overtakes(u) == \E v \in ahead[u] : save[v].pc = "asleep" /\ ~save[v].cancelled

\* It writes the note, ...
Wakes(u) ==
    /\ SleepIsOver(u)
    /\ note' = u
    /\ save' = Ended(u)
    /\ overtaken' = (overtaken \/ (u = last /\ Overtakes(u)))
    /\ UNCHANGED <<setting, request, ahead, registry, shared, last, lost>>

\* ... if there is one and the user may have it.
WakesRefused(u) ==
    /\ SleepIsOver(u)
    /\ save' = Ended(u)
    /\ lost' = (lost \/ u = last)
    /\ UNCHANGED <<setting, request, ahead, registry, shared, note, last, overtaken>>

SleepCancelled(u) ==
    /\ save[u].pc = "asleep"
    /\ save[u].cancelled
    /\ save' = Ended(u)
    /\ UNCHANGED <<setting, request, ahead, registry, shared, note, observers>>

-----------------------------------------------------------------------------
(* cleanup_task *)

CleanupAt(u, pc) == save[u].cleanup = pc
CleanupGoes(u, pc) == save' = [save EXCEPT ![u].cleanup = pc]

\* redis_cleanup_task: the entries are removed and the set is counted, ...
RemovesEntry(u) ==
    /\ CleanupAt(u, "entry")
    /\ hash' = hash \ {u}
    /\ set' = set \ {u}
    /\ CleanupGoes(u, IF set' = {} THEN "delete" ELSE "local")
    /\ UNCHANGED <<setting, request, ahead, registry, commands, note, observers>>

\* ... and if it was empty it is deleted, by a second command.
DeletesSet(u) ==
    /\ CleanupAt(u, "delete")
    /\ set' = {}
    /\ CleanupGoes(u, "local")
    /\ UNCHANGED <<setting, request, ahead, registry, hash, commands, note, observers>>

\* Mutant: nothing is cleaned up for a task that was stopped, as stop_task took it out.
RemovesTaskUnlessStopped(u) ==
    /\ CleanupAt(u, "local")
    /\ \A v \in Id : RequestAt(v, "join") => u \notin request[v].todo
    /\ tasks' = tasks \ {u}
    /\ items' = IF u \in tasks THEN items \ {u} ELSE items
    /\ CleanupGoes(u, "done")
    /\ UNCHANGED <<setting, request, ahead, shared, note, observers>>

\* The registry in memory. A handler that awaits the task resumes before this.
\* An emptied list is dropped: the handlers that iterate over it are at its end.
RemovesTask(u) ==
    /\ CleanupAt(u, "local")
    /\ \A v \in Id : RequestAt(v, "join") => u \notin request[v].todo
    /\ tasks' = tasks \ {u}
    /\ items' = items \ {u}
    /\ request' = IF items # {} /\ items' = {}
                  THEN [v \in Id |-> [request[v] EXCEPT !.live = FALSE]] ELSE request
    /\ CleanupGoes(u, "done")
    /\ UNCHANGED <<setting, ahead, shared, note, observers>>

-----------------------------------------------------------------------------
RequestStep(u) == \/ ListsTasks(u) \/ PublishesStop(u) \/ Joins(u)
                  \/ Schedules(u) \/ EndsUnsaved(u) \/ EntersTask(u)
SaveStep(u) == \/ Wakes(u) \/ WakesRefused(u) \/ SleepCancelled(u)
               \/ RemovesEntry(u) \/ DeletesSet(u) \/ RemovesTask(u)

\* Without Redis a handler that is stopping tasks does not yield.
Stopping(u) == ~redis /\ RequestAt(u, "stop")

Next ==
    \/ \E u \in Id : StopsNext(u)
    \/ /\ \A u \in Id : ~Stopping(u)
       /\ \E u \in Id :
            \/ Arrives(u) \/ RequestStep(u) \/ SaveStep(u)
            \/ ReceivesStop(u) \/ LosesStop(u)

Spec == Init /\ [][Next]_vars

\* The event loop runs every coroutine that can run, and sleeps end. Nothing is
\* asked of those who edit, or of the listeners.
Fairness ==
    /\ WF_vars(\E u \in Id : StopsNext(u))
    /\ \A u \in Id : WF_vars((\A v \in Id : ~Stopping(v)) /\ (RequestStep(u) \/ SaveStep(u)))

FairSpec == Spec /\ Fairness

-----------------------------------------------------------------------------
(* Properties *)

Quiet ==
    /\ \A u \in Id : RequestAt(u, "none") \/ RequestAt(u, "done")
    /\ \A u \in Id : save[u].pc = "none" \/ CleanupAt(u, "done")
    /\ commands = {}

\* A save of another node than the last one's, where that one overtook some.
HeldUp(v) == overtaken /\ v \in Id /\ node[v] # node[last]

\* When all is done, the note has the content of the save that was scheduled
\* last: no interleaving of handlers stops that one without scheduling another,
\* and no other is written after it (main.py:656-701, 578-610). Only a handler
\* that ends without scheduling a save may have stopped it, and only the note's
\* access check refuse it (lost). And older content may replace it only by a save
\* of another node, whose loop was held up for longer than the last save slept
\* and which no stop command had reached by then: the code does not order the
\* nodes (main.py:694, tasks/__init__.py:41-57, 160-174).
LastScheduledIsSaved == Quiet /\ ~lost => note = last \/ HeldUp(note)

\* When all is done, no task is registered: the document is not active for ever
\* (__init__.py:73-82, 101-114). With Redis an entry must not arrive after the
\* clean-up of its own task, which QuickEntries assumes.
AllForgotten ==
    Quiet => tasks = {} /\ items = {} /\ hash = {} /\ set = {}

\* The content of the save scheduled last reaches the note, where a save held up
\* on another node may then replace it: no handler waits for ever for a save it
\* has stopped, and none sleeps for ever. (main.py:656-701, __init__.py:176-206.)
LastContentArrives ==
    \A u \in Id : (last = u /\ ~lost) ~> (note = u \/ HeldUp(note) \/ last # u \/ lost)

=============================================================================
