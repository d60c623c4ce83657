-------------------------- MODULE ItemTasksProofs --------------------------
(***************************************************************************)
(* ItemTasks keeps its invariants for any number of updates: the save      *)
(* scheduled last is the one the note ends with, unless one of another     *)
(* node was held up past it, and no task stays registered.                 *)
(***************************************************************************)
EXTENDS ItemTasks, TLAPS

USE TasksAssumption

-----------------------------------------------------------------------------
(* Types.                                                                  *)

\* Only with Redis is there an entry to make.
EntryOK == \A u \in Id : RequestAt(u, "enter") => redis

Typed == TypeOK /\ EntryOK

LEMMA InitTyped == Init => Typed
<1> SUFFICES ASSUME Init PROVE Typed
  OBVIOUS
<1> USE DEF Init
<1>1. request \in [Id -> Request]
  BY DEF Request
<1>2. save \in [Id -> Save]
  BY DEF Save
<1>3. /\ redis \in BOOLEAN /\ ahead \in [Id -> SUBSET Id]
      /\ node \in [Id -> Nodes] /\ (~redis => \A u, v \in Id : node[u] = node[v])
  OBVIOUS
<1>4. EntryOK
  BY DEF EntryOK, RequestAt
<1>5. QED
  BY <1>1, <1>2, <1>3, <1>4 DEF Typed, TypeOK

Place == {"none", "list", "stop", "join", "broadcast", "enter", "done"}

LEMMA RequestFields ==
  ASSUME NEW r \in Request
  PROVE  r.pc \in Place /\ r.todo \subseteq Id /\ r.next \in Nat /\ r.live \in BOOLEAN
  BY DEF Request, Place

LEMMA SaveFields ==
  ASSUME NEW s \in Save
  PROVE  /\ s.pc \in {"none", "asleep", "done"} /\ s.cancelled \in BOOLEAN
         /\ s.cleanup \in {"none", "entry", "delete", "local", "done"}
  BY DEF Save

LEMMA RequestMoves ==
  ASSUME request \in [Id -> Request], NEW u \in Id, NEW pc \in Place, RequestGoes(u, pc)
  PROVE  /\ request' \in [Id -> Request]
         /\ request'[u].pc = pc /\ request'[u].todo = request[u].todo
         /\ \A v \in Id : v # u => request'[v] = request[v]
  BY DEF RequestGoes, Request, Place

LEMMA RequestBecomes ==
  ASSUME request \in [Id -> Request], NEW u \in Id, NEW r \in Request,
         request' = [request EXCEPT ![u] = r]
  PROVE  /\ request' \in [Id -> Request]
         /\ request'[u] = r
         /\ \A v \in Id : v # u => request'[v] = request[v]
  OBVIOUS

LEMMA CleanupMoves ==
  ASSUME save \in [Id -> Save], NEW u \in Id,
         NEW pc \in {"none", "entry", "delete", "local", "done"}, CleanupGoes(u, pc)
  PROVE  /\ save' \in [Id -> Save]
         /\ save'[u].cleanup = pc
         /\ save'[u].pc = save[u].pc /\ save'[u].cancelled = save[u].cancelled
         /\ \A v \in Id : v # u => save'[v] = save[v]
  BY DEF CleanupGoes, Save

LEMMA ScheduleMoves ==
  ASSUME save \in [Id -> Save], NEW u \in Id, Schedules(u)
  PROVE  /\ save' \in [Id -> Save]
         /\ save'[u].pc = "asleep"
         /\ save'[u].cancelled = save[u].cancelled /\ save'[u].cleanup = save[u].cleanup
         /\ \A v \in Id : v # u => save'[v] = save[v]
<1>1. save' = [save EXCEPT ![u].pc = "asleep"]
  BY DEF Schedules
<1>2. QED
  BY <1>1 DEF Save

LEMMA CancelMoves ==
  ASSUME save \in [Id -> Save], NEW u \in Id
  PROVE  /\ Cancelled(u) \in [Id -> Save]
         /\ \A v \in Id : /\ Cancelled(u)[v].pc = save[v].pc
                          /\ Cancelled(u)[v].cleanup = save[v].cleanup
                          /\ v # u => Cancelled(u)[v] = save[v]
         /\ Cancelled(u)[u].cancelled = (save[u].pc = "asleep")
<1>1. PICK cancelled \in BOOLEAN :
        /\ Cancelled(u) = [save EXCEPT ![u] = [@ EXCEPT !.cancelled = cancelled]]
        /\ cancelled = (save[u].pc = "asleep")
  BY DEF Cancelled
<1>2. save[u] \in Save /\ cancelled \in BOOLEAN
  BY <1>1
<1>3. /\ [save[u] EXCEPT !.cancelled = cancelled] \in Save
      /\ [save[u] EXCEPT !.cancelled = cancelled].pc = save[u].pc
      /\ [save[u] EXCEPT !.cancelled = cancelled].cleanup = save[u].cleanup
      /\ [save[u] EXCEPT !.cancelled = cancelled].cancelled = cancelled
  <2> SUFFICES ASSUME NEW s \in Save, NEW c \in BOOLEAN
               PROVE  /\ [s EXCEPT !.cancelled = c] \in Save
                      /\ [s EXCEPT !.cancelled = c].pc = s.pc
                      /\ [s EXCEPT !.cancelled = c].cleanup = s.cleanup
                      /\ [s EXCEPT !.cancelled = c].cancelled = c
    BY <1>2
  <2>1. QED
    BY DEF Save
<1>4. QED
  BY <1>1, <1>2, <1>3

LEMMA EndMoves ==
  ASSUME save \in [Id -> Save], redis \in BOOLEAN, NEW u \in Id
  PROVE  /\ Ended(u) \in [Id -> Save]
         /\ Ended(u)[u].pc = "done" /\ Ended(u)[u].cancelled = save[u].cancelled
         /\ Ended(u)[u].cleanup = IF redis THEN "entry" ELSE "local"
         /\ \A v \in Id : v # u => Ended(u)[v] = save[v]
  BY DEF Ended, Save

\* What StopsNext does with the task it stops.
LEMMA StopMoves ==
  ASSUME Typed, NEW u \in Id, StopsNext(u)
  PROVE  \/ RequestGoes(u, "broadcast") /\ UNCHANGED <<save, tasks>>
         \/ \E v \in Following(u) \cap tasks :
              /\ tasks' = tasks \ {v} /\ save' = Cancelled(v)
              /\ request' \in [Id -> Request]
              /\ request'[u].pc = (IF save[v].pc = "asleep" THEN "join" ELSE "stop")
              /\ request'[u].todo = {v}
              /\ \A w \in Id : w # u => request'[w] = request[w]
<1> DEFINE r(v) == [pc |-> IF save[v].pc = "asleep" THEN "join" ELSE "stop",
                    todo |-> {v}, next |-> request[u].next + 1, live |-> request[u].live]
<1>0. TypeOK
  BY DEF Typed
<1>1. CASE \E v \in Following(u) \cap tasks :
             /\ tasks' = tasks \ {v}
             /\ save' = Cancelled(v)
             /\ request' = [request EXCEPT ![u] = r(v)]
  <2>1. PICK v \in Following(u) \cap tasks :
             /\ tasks' = tasks \ {v}
             /\ save' = Cancelled(v)
             /\ request' = [request EXCEPT ![u] = r(v)]
    BY <1>1
  <2>2. v \in Id /\ request[u] \in Request /\ request \in [Id -> Request]
    BY <1>0 DEF Following, TypeOK
  <2>3. /\ r(v) \in Request /\ r(v).todo = {v}
        /\ r(v).pc = (IF save[v].pc = "asleep" THEN "join" ELSE "stop")
    <3>1. request[u].next \in Nat /\ request[u].live \in BOOLEAN
      BY <2>2, RequestFields
    <3>2. {v} \in SUBSET Id
      BY <2>2
    <3> HIDE DEF Id
    <3>3. QED
      BY <3>1, <3>2 DEF Request
  <2> HIDE DEF r
  <2>4. QED
    BY <2>1, <2>2, <2>3, RequestBecomes
<1>2. QED
  BY <1>0, <1>1 DEF StopsNext

\* A handler whose list is dropped keeps all else.
LEMMA ListDropped ==
  ASSUME TypeOK, NEW u \in Id, RemovesTask(u)
  PROVE  /\ request' \in [Id -> Request]
         /\ \A v \in Id : /\ request'[v].pc = request[v].pc
                          /\ request'[v].todo = request[v].todo
<1>1. \A v \in Id : LET r == [request[v] EXCEPT !.live = FALSE]
                    IN r \in Request /\ r.pc = request[v].pc /\ r.todo = request[v].todo
  <2> SUFFICES ASSUME NEW v \in Id, NEW r, r = [request[v] EXCEPT !.live = FALSE]
               PROVE  r \in Request /\ r.pc = request[v].pc /\ r.todo = request[v].todo
    OBVIOUS
  <2>1. request[v] \in Request
    BY DEF TypeOK
  <2> HIDE DEF Id
  <2>2. QED
    BY <2>1 DEF Request
<1>2. CASE request' = [v \in Id |-> [request[v] EXCEPT !.live = FALSE]]
  BY <1>1, <1>2
<1>3. CASE request' = request
  BY <1>3 DEF TypeOK
<1>4. QED
  BY <1>2, <1>3 DEF RemovesTask

LEMMA RequestTyped ==
  ASSUME Typed, NEW u \in Id, Arrives(u) \/ RequestStep(u) \/ StopsNext(u)
  PROVE  Typed'
<1> USE DEF Typed, setting, registry, shared, observers
<1>0. TypeOK /\ EntryOK /\ request[u].todo \subseteq Id
  BY RequestFields DEF TypeOK
<1>1. CASE Arrives(u)
  BY <1>0, <1>1, RequestMoves DEF Arrives, TypeOK, EntryOK, RequestAt, Place
<1>2. CASE ListsTasks(u)
  <2> DEFINE found == IF redis THEN set ELSE items
             r == [pc |-> IF found = {} THEN "broadcast" ELSE "stop",
                   todo |-> IF redis THEN found ELSE {}, next |-> 1, live |-> ~redis]
  <2>1. request' = [request EXCEPT ![u] = r]
    BY <1>2 DEF ListsTasks
  <2>2. found \subseteq Id /\ redis \in BOOLEAN
    BY <1>0 DEF TypeOK
  <2>3. r \in Request /\ r.pc # "enter"
    BY <2>2 DEF Request
  <2> HIDE DEF r
  <2>4. request' \in [Id -> Request] /\ request'[u] = r
        /\ \A v \in Id : v # u => request'[v] = request[v]
    BY <1>0, <2>1, <2>3, RequestBecomes DEF TypeOK
  <2>5. QED
    BY <1>0, <1>2, <2>3, <2>4 DEF ListsTasks, TypeOK, EntryOK, RequestAt
<1>3. CASE PublishesStop(u)
  <2> DEFINE r(v) == [request[u] EXCEPT !.todo = @ \ {v},
                        !.pc = IF request[u].todo = {v} THEN "broadcast" ELSE "stop"]
  <2>1. PICK v \in request[u].todo :
           commands' = commands \cup {v} /\ request' = [request EXCEPT ![u] = r(v)]
    BY <1>3 DEF PublishesStop
  <2>2. request[u] \in Request /\ v \in Id
    BY <1>0 DEF TypeOK
  <2>3. r(v) \in Request /\ r(v).pc # "enter"
    <3> HIDE DEF Id
    <3>1. QED
      BY <2>2 DEF Request
  <2> HIDE DEF r
  <2>4. request' \in [Id -> Request] /\ request'[u] = r(v)
        /\ \A w \in Id : w # u => request'[w] = request[w]
    BY <1>0, <2>1, <2>3, RequestBecomes DEF TypeOK
  <2>5. QED
    BY <1>0, <1>3, <2>1, <2>2, <2>3, <2>4 DEF PublishesStop, TypeOK, EntryOK, RequestAt
<1>4. CASE StopsNext(u)
  <2>1. CASE RequestGoes(u, "broadcast") /\ UNCHANGED <<save, tasks>>
    BY <1>0, <1>4, <2>1, RequestMoves DEF StopsNext, TypeOK, EntryOK, RequestAt, Place
  <2>2. CASE \E v \in Following(u) \cap tasks :
              /\ tasks' = tasks \ {v} /\ save' = Cancelled(v)
              /\ request' \in [Id -> Request]
              /\ request'[u].pc = (IF save[v].pc = "asleep" THEN "join" ELSE "stop")
              /\ request'[u].todo = {v}
              /\ \A w \in Id : w # u => request'[w] = request[w]
    <3>1. PICK v \in Following(u) \cap tasks :
              /\ tasks' = tasks \ {v} /\ save' = Cancelled(v)
              /\ request' \in [Id -> Request]
              /\ request'[u].pc \in {"join", "stop"}
              /\ \A w \in Id : w # u => request'[w] = request[w]
      BY <2>2
    <3>2. v \in Id /\ Cancelled(v) \in [Id -> Save]
      BY <1>0, CancelMoves DEF TypeOK
    <3>3. EntryOK'
      BY <1>0, <1>4, <3>1 DEF StopsNext, EntryOK, RequestAt
    <3>4. QED
      BY <1>0, <1>4, <3>1, <3>2, <3>3 DEF StopsNext, TypeOK
  <2>3. QED
    BY <1>4, <2>1, <2>2, StopMoves
<1>5. CASE Joins(u)
  BY <1>0, <1>5, RequestMoves DEF Joins, TypeOK, EntryOK, RequestAt, Place
<1>6. CASE Schedules(u)
  <2>1. save' \in [Id -> Save]
    BY <1>0, <1>6, ScheduleMoves DEF TypeOK
  <2>2. ahead' \in [Id -> SUBSET Id]
    BY <1>0, <1>6 DEF Schedules, TypeOK
  <2>3. RequestGoes(u, IF redis THEN "enter" ELSE "done") /\ u \in Id
    BY <1>6 DEF Schedules
  <2>4. request' \in [Id -> Request] /\ EntryOK'
    BY <1>0, <1>6, <2>3, RequestMoves DEF Schedules, TypeOK, EntryOK, RequestAt, Place
  <2>5. QED
    BY <1>0, <1>6, <2>1, <2>2, <2>4 DEF Schedules, TypeOK
<1>7. CASE EndsUnsaved(u)
  BY <1>0, <1>7, RequestMoves DEF EndsUnsaved, TypeOK, EntryOK, RequestAt, Place
<1>8. CASE EntersTask(u)
  BY <1>0, <1>8, RequestMoves DEF EntersTask, TypeOK, EntryOK, RequestAt, Place
<1>9. QED
  BY <1>1, <1>2, <1>3, <1>4, <1>5, <1>6, <1>7, <1>8 DEF RequestStep

LEMMA SaveTyped ==
  ASSUME Typed, NEW u \in Id, SaveStep(u) \/ ReceivesStop(u) \/ LosesStop(u)
  PROVE  Typed'
<1> USE DEF Typed, setting, registry, shared, observers, EntryOK, RequestAt
<1>0. TypeOK /\ EntryOK
  OBVIOUS
<1>1. CASE Wakes(u)
  BY <1>0, <1>1, EndMoves DEF Wakes, TypeOK
<1>2. CASE WakesRefused(u)
  BY <1>0, <1>2, EndMoves DEF WakesRefused, TypeOK
<1>3. CASE SleepCancelled(u)
  BY <1>0, <1>3, EndMoves DEF SleepCancelled, TypeOK
<1>4. CASE RemovesEntry(u)
  BY <1>0, <1>4, CleanupMoves DEF RemovesEntry, TypeOK
<1>5. CASE DeletesSet(u)
  BY <1>0, <1>5, CleanupMoves DEF DeletesSet, TypeOK
<1>6. CASE RemovesTask(u)
  <2>1. request' \in [Id -> Request] /\ \A v \in Id : request'[v].pc = request[v].pc
    BY <1>0, <1>6, ListDropped
  <2>2. QED
    BY <1>0, <1>6, <2>1, CleanupMoves DEF RemovesTask, TypeOK
<1>7. CASE ReceivesStop(u)
  BY <1>0, <1>7, CancelMoves DEF ReceivesStop, TypeOK
<1>8. CASE LosesStop(u)
  BY <1>0, <1>8 DEF LosesStop, TypeOK
<1>9. QED
  BY <1>1, <1>2, <1>3, <1>4, <1>5, <1>6, <1>7, <1>8 DEF SaveStep

LEMMA NextSteps ==
  ASSUME Next
  PROVE  \E u \in Id : \/ Arrives(u) \/ RequestStep(u) \/ StopsNext(u)
                       \/ SaveStep(u) \/ ReceivesStop(u) \/ LosesStop(u)
  BY DEF Next

LEMMA StepTyped == Typed /\ [Next]_vars => Typed'
<1> SUFFICES ASSUME Typed, [Next]_vars PROVE Typed'
  OBVIOUS
<1>1. CASE Next
  BY <1>1, NextSteps, RequestTyped, SaveTyped
<1>2. CASE UNCHANGED vars
  BY <1>2 DEF Typed, TypeOK, EntryOK, RequestAt, vars, setting, registry, shared, observers
<1>3. QED
  BY <1>1, <1>2

LEMMA AlwaysTyped == Spec => []Typed
  BY InitTyped, StepTyped, PTL DEF Spec

\* Every variable keeps its type.
THEOREM TypeCorrect == Spec => []TypeOK
<1>1. Typed => TypeOK
  BY DEF Typed
<1>2. QED
  BY AlwaysTyped, <1>1, PTL

-----------------------------------------------------------------------------
(* The inductive invariant.                                                *)

Scheduled == {v \in Id : save[v].pc # "none"}
Asleep == {v \in Id : save[v].pc = "asleep"}
Stopped == {v \in Id : save[v].cancelled}

\* The saves whose clean-up has begun, has not ended, is to remove the entry.
Cleaned == {v \in Id : save[v].cleanup # "none"}
Leaving == {v \in Id : save[v].cleanup \in {"entry", "delete", "local"}}
AtEntry == {v \in Id : save[v].cleanup = "entry"}

\* The handlers that have yet to make the entry of their save.
Entering == {u \in Id : request[u].pc = "enter"}

\* A handler that has stopped tasks, or may have, and has not scheduled its own.
Pending == \E w \in Id : request[w].pc \in {"stop", "join", "broadcast"}

\* A handler schedules its save once, at its end, ...
OnceOK == \A u \in Scheduled : request[u].pc \in {"enter", "done"}

\* ... and nothing is known of a save before.
KnownOK ==
    /\ Stopped \cup Cleaned \subseteq Scheduled
    /\ Cleaned \cap Asleep = {}
    /\ tasks \cup items \cup hash \cup set \cup commands \subseteq Scheduled
    /\ \A u \in Id : request[u].todo \subseteq Scheduled

\* The save scheduled last is behind all others.
LatestOK ==
    /\ last # 0 => last \in Scheduled
    /\ \A v \in Scheduled : last # 0 /\ (v = last \/ v \in ahead[last])
    /\ last = 0 => note = 0

\* It is stopped only by a handler that is still to schedule another, ...
SafeOK ==
    last # 0 /\ ~lost /\ last \in commands \cup Stopped => Pending

\* ... so that it is written, and after it only saves that it has overtaken.
ReachedOK ==
    last # 0 /\ ~lost =>
        \/ last \in Asleep
        \/ /\ note = last \/ HeldUp(note)
           /\ \A v \in Asleep : v \in Stopped \/ HeldUp(v)
        \/ Pending

\* What is registered in memory is cleaned up later, ...
RegisteredOK == tasks \cup items \subseteq Asleep \cup Leaving

\* ... an entry not made yet is in nobody's way, ...
EnteringOK ==
    /\ Entering \subseteq Scheduled \ (Stopped \cup set \cup hash \cup commands)
    /\ \A u \in Id : request[u].todo \cap Entering = {}

\* ... and one that is made is removed, if it comes before the save ends.
EnteredOK ==
    QuickEntries => Entering \subseteq Asleep /\ hash \cup set \subseteq Asleep \cup AtEntry

IInv == /\ Typed /\ OnceOK /\ KnownOK /\ LatestOK /\ SafeOK /\ ReachedOK
        /\ RegisteredOK /\ EnteringOK /\ EnteredOK

LEMMA InitInv == Init => IInv
<1> SUFFICES ASSUME Init PROVE IInv
  OBVIOUS
<1>1. Typed
  BY InitTyped
<1>2. Scheduled = {} /\ Asleep = {} /\ Stopped = {} /\ Cleaned = {} /\ Leaving = {}
      /\ AtEntry = {} /\ Entering = {}
  BY DEF Init, Scheduled, Asleep, Stopped, Cleaned, Leaving, AtEntry, Entering
<1>3. \A u \in Id : request[u].todo = {}
  BY DEF Init
<1>4. QED
  BY <1>1, <1>2, <1>3 DEF Init, IInv, OnceOK, KnownOK, LatestOK, SafeOK, ReachedOK,
                          RegisteredOK, EnteringOK, EnteredOK

LEMMA PendingNext ==
  ASSUME NEW u \in Id, request'[u].pc \in {"stop", "join", "broadcast"}
  PROVE  Pending'
  BY DEF Pending

-----------------------------------------------------------------------------
(* What a step does to the sets of saves.                                  *)

LEMMA AsleepScheduled == Asleep \subseteq Scheduled
  BY DEF Asleep, Scheduled

LEMMA SameSets ==
  ASSUME save' = save
  PROVE  /\ Scheduled' = Scheduled /\ Asleep' = Asleep /\ Stopped' = Stopped
         /\ Cleaned' = Cleaned /\ Leaving' = Leaving /\ AtEntry' = AtEntry
  BY DEF Scheduled, Asleep, Stopped, Cleaned, Leaving, AtEntry

LEMMA ScheduleSets ==
  ASSUME TypeOK, NEW u \in Id, Schedules(u)
  PROVE  /\ Scheduled' = Scheduled \cup {u} /\ Asleep' = Asleep \cup {u}
         /\ Stopped' = Stopped
         /\ Cleaned' = Cleaned /\ Leaving' = Leaving /\ AtEntry' = AtEntry
<1>1. /\ save'[u].pc = "asleep"
      /\ save'[u].cancelled = save[u].cancelled /\ save'[u].cleanup = save[u].cleanup
      /\ \A v \in Id : v # u => save'[v] = save[v]
  BY ScheduleMoves DEF TypeOK
<1>2. Scheduled' = Scheduled \cup {u} /\ Asleep' = Asleep \cup {u}
  BY <1>1 DEF Scheduled, Asleep
<1>3. Stopped' = Stopped
  BY <1>1 DEF Stopped
<1>4. Cleaned' = Cleaned /\ Leaving' = Leaving /\ AtEntry' = AtEntry
  BY <1>1 DEF Cleaned, Leaving, AtEntry
<1>5. QED
  BY <1>2, <1>3, <1>4

LEMMA CancelSets ==
  ASSUME TypeOK, NEW u \in Id, save' = Cancelled(u)
  PROVE  /\ Scheduled' = Scheduled /\ Asleep' = Asleep /\ Stopped' \subseteq Stopped \cup {u}
         /\ Asleep \cap Stopped \subseteq Stopped'
         /\ Cleaned' = Cleaned /\ Leaving' = Leaving /\ AtEntry' = AtEntry
<1>1. /\ \A v \in Id : /\ save'[v].pc = save[v].pc
                       /\ save'[v].cleanup = save[v].cleanup
                       /\ v # u => save'[v] = save[v]
      /\ save'[u].cancelled = (save[u].pc = "asleep")
  <2>1. save \in [Id -> Save]
    BY DEF TypeOK
  <2>2. QED
    BY <2>1, CancelMoves
<1>2. Scheduled' = Scheduled /\ Asleep' = Asleep
  BY <1>1 DEF Scheduled, Asleep
<1>3. Stopped' \subseteq Stopped \cup {u} /\ Asleep \cap Stopped \subseteq Stopped'
  BY <1>1 DEF Stopped, Asleep
<1>4. Cleaned' = Cleaned /\ Leaving' = Leaving /\ AtEntry' = AtEntry
  BY <1>1 DEF Cleaned, Leaving, AtEntry
<1>5. QED
  BY <1>2, <1>3, <1>4

LEMMA EndSets ==
  ASSUME TypeOK, NEW u \in Asleep, save' = Ended(u)
  PROVE  /\ Scheduled' = Scheduled /\ Asleep' = Asleep \ {u} /\ Stopped' = Stopped
         /\ Cleaned' = Cleaned \cup {u} /\ Leaving' = Leaving \cup {u}
         /\ AtEntry' = (IF redis THEN AtEntry \cup {u} ELSE AtEntry \ {u})
<1>0. u \in Id /\ save[u].pc = "asleep"
  BY DEF Asleep
<1>1. /\ save'[u].pc = "done" /\ save'[u].cancelled = save[u].cancelled
      /\ save'[u].cleanup = (IF redis THEN "entry" ELSE "local")
      /\ \A v \in Id : v # u => save'[v] = save[v]
  BY <1>0, EndMoves DEF TypeOK
<1>2. Scheduled' = Scheduled /\ Asleep' = Asleep \ {u}
  BY <1>0, <1>1 DEF Scheduled, Asleep
<1>3. Stopped' = Stopped
  BY <1>0, <1>1 DEF Stopped
<1>4. Cleaned' = Cleaned \cup {u} /\ Leaving' = Leaving \cup {u}
      /\ AtEntry' = (IF redis THEN AtEntry \cup {u} ELSE AtEntry \ {u})
  BY <1>0, <1>1 DEF Cleaned, Leaving, AtEntry
<1>5. QED
  BY <1>2, <1>3, <1>4

LEMMA CleanupSets ==
  ASSUME TypeOK, NEW u \in Id, NEW pc \in {"delete", "local", "done"}, CleanupGoes(u, pc)
  PROVE  /\ Scheduled' = Scheduled /\ Asleep' = Asleep /\ Stopped' = Stopped
         /\ Cleaned' = Cleaned \cup {u} /\ AtEntry' = AtEntry \ {u}
         /\ Leaving' = (IF pc = "done" THEN Leaving \ {u} ELSE Leaving \cup {u})
<1>1. /\ save'[u].cleanup = pc
      /\ save'[u].pc = save[u].pc /\ save'[u].cancelled = save[u].cancelled
      /\ \A v \in Id : v # u => save'[v] = save[v]
  BY CleanupMoves DEF TypeOK
<1>2. Scheduled' = Scheduled /\ Asleep' = Asleep
  BY <1>1 DEF Scheduled, Asleep
<1>3. Stopped' = Stopped
  BY <1>1 DEF Stopped
<1>4. Cleaned' = Cleaned \cup {u} /\ AtEntry' = AtEntry \ {u}
      /\ Leaving' = (IF pc = "done" THEN Leaving \ {u} ELSE Leaving \cup {u})
  BY <1>1 DEF Cleaned, Leaving, AtEntry
<1>5. QED
  BY <1>2, <1>3, <1>4

\* A step that neither writes nor ends a save leaves the note on its way.
LEMMA ReachedStays ==
  ASSUME ReachedOK, UNCHANGED <<setting, note, observers>>, Asleep' = Asleep,
         Asleep \cap Stopped \subseteq Stopped', ~lost /\ Pending => Pending'
  PROVE  ReachedOK'
  BY DEF ReachedOK, HeldUp, setting, observers

-----------------------------------------------------------------------------
(* The handlers keep the invariant.                                        *)

LEMMA ArrivesKeeps ==
  ASSUME IInv, NEW u \in Id, Arrives(u)
  PROVE  IInv'
<1> USE DEF IInv, setting, registry, shared, observers
<1>0. Typed' /\ TypeOK
  BY RequestTyped DEF Typed, RequestStep, SaveStep
<1>1. request'[u].pc = "list" /\ request'[u].todo = request[u].todo
      /\ \A w \in Id : w # u => request'[w] = request[w]
  BY <1>0, RequestMoves DEF Arrives, TypeOK, Place
<1>2. Scheduled' = Scheduled /\ Asleep' = Asleep /\ Stopped' = Stopped
      /\ Cleaned' = Cleaned /\ Leaving' = Leaving /\ AtEntry' = AtEntry
  BY SameSets DEF Arrives
<1>3. Entering' = Entering
  BY <1>1 DEF Arrives, RequestAt, Entering
<1>4. lost' \/ (Pending => Pending')
  BY <1>1 DEF Arrives, Pending, RequestAt
<1>5. Scheduled \cup Asleep \cup Entering \subseteq Id /\ last \in Id \cup {0}
  BY <1>0 DEF TypeOK, Scheduled, Asleep, Entering
<1>6. OnceOK'
  BY <1>1, <1>2, <1>5 DEF Arrives, OnceOK, RequestAt
<1>7. KnownOK'
  BY <1>1, <1>2 DEF Arrives, KnownOK
<1>8. LatestOK'
  BY <1>2 DEF Arrives, LatestOK
<1>9. SafeOK'
  BY <1>2, <1>4 DEF Arrives, SafeOK
<1>10. ReachedOK'
  BY <1>2, <1>4, ReachedStays DEF Arrives
<1>11. RegisteredOK'
  BY <1>0, <1>1, <1>2, <1>3, <1>4, <1>5 DEF Arrives, RegisteredOK
<1>12. EnteringOK'
  BY <1>1, <1>2, <1>3 DEF Arrives, EnteringOK
<1>13. EnteredOK'
  BY <1>0, <1>1, <1>2, <1>3, <1>4, <1>5 DEF Arrives, EnteredOK
<1>14. QED
  BY <1>0, <1>6, <1>7, <1>8, <1>9, <1>10, <1>11, <1>12, <1>13

LEMMA ListsKeeps ==
  ASSUME IInv, NEW u \in Id, ListsTasks(u)
  PROVE  IInv'
<1> USE DEF IInv, setting, registry, shared, observers
<1>0. Typed' /\ TypeOK
  BY RequestTyped DEF Typed, RequestStep, SaveStep
<1>1. request'[u] = [pc |-> IF (IF redis THEN set ELSE items) = {} THEN "broadcast" ELSE "stop",
                     todo |-> IF redis THEN set ELSE {}, next |-> 1, live |-> ~redis]
      /\ \A w \in Id : w # u => request'[w] = request[w]
  BY <1>0 DEF ListsTasks, TypeOK
<1>2. request'[u].pc \in {"broadcast", "stop"} /\ request'[u].todo \subseteq set
  BY <1>1
<1>3. Pending'
  BY <1>2, PendingNext
<1>4. Scheduled' = Scheduled /\ Asleep' = Asleep /\ Stopped' = Stopped
      /\ Cleaned' = Cleaned /\ Leaving' = Leaving /\ AtEntry' = AtEntry
  BY SameSets DEF ListsTasks
<1>5. Entering' = Entering
  BY <1>1, <1>2 DEF ListsTasks, RequestAt, Entering
<1>6. Scheduled \cup Asleep \cup Entering \subseteq Id /\ last \in Id \cup {0}
  BY <1>0 DEF TypeOK, Scheduled, Asleep, Entering
<1>7. OnceOK'
  BY <1>4 DEF ListsTasks, OnceOK, RequestAt
<1>8. KnownOK'
  BY <1>0, <1>1, <1>2, <1>3, <1>4, <1>5, <1>6 DEF ListsTasks, KnownOK
<1>9. LatestOK'
  BY <1>4 DEF ListsTasks, LatestOK
<1>10. SafeOK'
  BY <1>3 DEF ListsTasks, SafeOK
<1>11. ReachedOK'
  BY <1>3 DEF ListsTasks, ReachedOK
<1>12. RegisteredOK'
  BY <1>4 DEF ListsTasks, RegisteredOK
<1>13. EnteringOK'
  BY <1>4, <1>5 DEF ListsTasks, EnteringOK
<1>14. EnteredOK'
  BY <1>0, <1>1, <1>2, <1>3, <1>4, <1>5, <1>6 DEF ListsTasks, EnteredOK
<1>15. QED
  BY <1>0, <1>7, <1>8, <1>9, <1>10, <1>11, <1>12, <1>13, <1>14

LEMMA PublishesKeeps ==
  ASSUME IInv, NEW u \in Id, PublishesStop(u)
  PROVE  IInv'
<1> USE DEF IInv, setting, registry, shared, observers
<1>0. Typed' /\ TypeOK
  BY RequestTyped DEF Typed, RequestStep, SaveStep
<1>1. PICK v \in request[u].todo :
        /\ commands' = commands \cup {v}
        /\ request' = [request EXCEPT ![u] = [request[u] EXCEPT !.todo = @ \ {v},
                          !.pc = IF request[u].todo = {v} THEN "broadcast" ELSE "stop"]]
  BY DEF PublishesStop
<1>2. request'[u].pc \in {"broadcast", "stop"} /\ request'[u].todo = request[u].todo \ {v}
      /\ \A w \in Id : w # u => request'[w] = request[w]
  BY <1>0, <1>1 DEF TypeOK, Request
<1>3. Pending'
  BY <1>2, PendingNext
<1>4. Scheduled' = Scheduled /\ Asleep' = Asleep /\ Stopped' = Stopped
      /\ Cleaned' = Cleaned /\ Leaving' = Leaving /\ AtEntry' = AtEntry
  BY SameSets DEF PublishesStop
<1>5. Entering' = Entering
  BY <1>2 DEF PublishesStop, RequestAt, Entering
<1>6. v \in Scheduled /\ v \notin Entering
  BY <1>1 DEF KnownOK, EnteringOK
<1>7. Scheduled \cup Asleep \cup Entering \subseteq Id /\ last \in Id \cup {0}
  BY <1>0 DEF TypeOK, Scheduled, Asleep, Entering
<1>8. OnceOK'
  BY <1>4 DEF PublishesStop, OnceOK, RequestAt
<1>9. KnownOK'
  BY <1>4 DEF PublishesStop, KnownOK
<1>10. LatestOK'
  BY <1>4 DEF PublishesStop, LatestOK
<1>11. SafeOK'
  BY <1>3 DEF PublishesStop, SafeOK
<1>12. ReachedOK'
  BY <1>0, <1>1, <1>2, <1>3, <1>4, <1>5, <1>6, <1>7 DEF PublishesStop, ReachedOK
<1>13. RegisteredOK'
  BY <1>4 DEF PublishesStop, RegisteredOK
<1>14. EnteringOK'
  BY <1>4, <1>5 DEF PublishesStop, EnteringOK
<1>15. EnteredOK'
  BY <1>4, <1>5 DEF PublishesStop, EnteredOK
<1>16. QED
  BY <1>0, <1>8, <1>9, <1>10, <1>11, <1>12, <1>13, <1>14, <1>15

LEMMA StopsKeeps ==
  ASSUME IInv, NEW u \in Id, StopsNext(u)
  PROVE  IInv'
<1> USE DEF IInv, setting, registry, shared, observers
<1>0. Typed' /\ TypeOK
  BY RequestTyped DEF Typed
<1>1. Scheduled \cup Asleep \cup Entering \subseteq Id /\ last \in Id \cup {0}
  BY <1>0 DEF TypeOK, Scheduled, Asleep, Entering
<1>2. Entering = {}
  BY DEF Typed, EntryOK, StopsNext, RequestAt, Entering
<1>3. /\ request'[u].pc \in {"join", "stop", "broadcast"}
      /\ request'[u].todo \subseteq Scheduled
      /\ \A w \in Id : w # u => request'[w] = request[w]
      /\ Scheduled' = Scheduled /\ Asleep' = Asleep
      /\ Stopped' \subseteq Scheduled
      /\ Cleaned' = Cleaned /\ Leaving' = Leaving /\ AtEntry' = AtEntry
      /\ tasks' \subseteq tasks
  <2>1. CASE RequestGoes(u, "broadcast") /\ UNCHANGED <<save, tasks>>
    <3>1. /\ request'[u].pc = "broadcast" /\ request'[u].todo = request[u].todo
          /\ \A w \in Id : w # u => request'[w] = request[w]
      BY <1>0, <2>1, RequestMoves DEF TypeOK, Place
    <3>2. QED
      BY <2>1, <3>1, SameSets DEF KnownOK
  <2>2. CASE \E v \in Following(u) \cap tasks :
              /\ tasks' = tasks \ {v} /\ save' = Cancelled(v)
              /\ request' \in [Id -> Request]
              /\ request'[u].pc = (IF save[v].pc = "asleep" THEN "join" ELSE "stop")
              /\ request'[u].todo = {v}
              /\ \A w \in Id : w # u => request'[w] = request[w]
    <3>1. PICK v \in Following(u) \cap tasks :
              /\ tasks' = tasks \ {v} /\ save' = Cancelled(v)
              /\ request'[u].pc \in {"join", "stop"} /\ request'[u].todo = {v}
              /\ \A w \in Id : w # u => request'[w] = request[w]
      BY <2>2
    <3>2. v \in Id /\ v \in Scheduled
      BY <1>0 DEF TypeOK, KnownOK
    <3>3. /\ Scheduled' = Scheduled /\ Asleep' = Asleep /\ Stopped' \subseteq Stopped \cup {v}
          /\ Cleaned' = Cleaned /\ Leaving' = Leaving /\ AtEntry' = AtEntry
      BY <1>0, <3>1, <3>2, CancelSets
    <3>4. QED
      BY <3>1, <3>2, <3>3 DEF KnownOK
  <2>3. QED
    BY <2>1, <2>2, StopMoves
<1>4. Pending'
  BY <1>3, PendingNext
<1>5. Entering' = {}
  BY <1>2, <1>3 DEF Entering
<1>6. OnceOK'
  BY <1>1, <1>3 DEF StopsNext, OnceOK, RequestAt
<1>7. KnownOK'
  BY <1>3 DEF StopsNext, KnownOK
<1>8. LatestOK'
  BY <1>3 DEF StopsNext, LatestOK
<1>9. SafeOK' /\ ReachedOK'
  BY <1>4 DEF SafeOK, ReachedOK
<1>10. RegisteredOK'
  BY <1>3 DEF StopsNext, RegisteredOK
<1>11. EnteringOK' /\ EnteredOK'
  BY <1>3, <1>5 DEF StopsNext, EnteringOK, EnteredOK
<1>12. QED
  BY <1>0, <1>6, <1>7, <1>8, <1>9, <1>10, <1>11

LEMMA JoinsKeeps ==
  ASSUME IInv, NEW u \in Id, Joins(u)
  PROVE  IInv'
<1> USE DEF IInv, setting, registry, shared, observers
<1>0. Typed' /\ TypeOK
  BY RequestTyped DEF Typed, RequestStep, SaveStep
<1>1. request'[u].pc = "stop" /\ request'[u].todo = request[u].todo
      /\ \A w \in Id : w # u => request'[w] = request[w]
  BY <1>0, RequestMoves DEF Joins, TypeOK, Place
<1>2. Scheduled' = Scheduled /\ Asleep' = Asleep /\ Stopped' = Stopped
      /\ Cleaned' = Cleaned /\ Leaving' = Leaving /\ AtEntry' = AtEntry
  BY SameSets DEF Joins
<1>3. Entering' = Entering
  BY <1>1 DEF Joins, RequestAt, Entering
<1>4. Pending'
  BY <1>1, PendingNext
<1>5. Scheduled \cup Asleep \cup Entering \subseteq Id /\ last \in Id \cup {0}
  BY <1>0 DEF TypeOK, Scheduled, Asleep, Entering
<1>6. OnceOK'
  BY <1>1, <1>2, <1>5 DEF Joins, OnceOK, RequestAt
<1>7. KnownOK'
  BY <1>1, <1>2 DEF Joins, KnownOK
<1>8. LatestOK'
  BY <1>2 DEF Joins, LatestOK
<1>9. SafeOK'
  BY <1>0, <1>1, <1>2, <1>3, <1>4, <1>5 DEF Joins, SafeOK
<1>10. ReachedOK'
  BY <1>4 DEF Joins, ReachedOK
<1>11. RegisteredOK'
  BY <1>0, <1>1, <1>2, <1>3, <1>4, <1>5 DEF Joins, RegisteredOK
<1>12. EnteringOK'
  BY <1>1, <1>2, <1>3 DEF Joins, EnteringOK
<1>13. EnteredOK'
  BY <1>0, <1>1, <1>2, <1>3, <1>4, <1>5 DEF Joins, EnteredOK
<1>14. QED
  BY <1>0, <1>6, <1>7, <1>8, <1>9, <1>10, <1>11, <1>12, <1>13

LEMMA SchedulesKeeps ==
  ASSUME IInv, NEW u \in Id, Schedules(u)
  PROVE  IInv'
<1> USE DEF IInv, setting, registry, shared, observers
<1>0. Typed' /\ TypeOK
  BY RequestTyped DEF Typed, RequestStep, SaveStep
<1>1. request'[u].pc = (IF redis THEN "enter" ELSE "done") /\ request'[u].todo = request[u].todo
      /\ \A w \in Id : w # u => request'[w] = request[w]
  BY <1>0, RequestMoves DEF Schedules, TypeOK, Place
<1>2. /\ Scheduled' = Scheduled \cup {u} /\ Asleep' = Asleep \cup {u} /\ Stopped' = Stopped
      /\ Cleaned' = Cleaned /\ Leaving' = Leaving /\ AtEntry' = AtEntry
  BY <1>0, ScheduleSets
<1>3. Entering' = IF redis THEN Entering \cup {u} ELSE Entering
  BY <1>1 DEF Schedules, RequestAt, Entering
<1>4. ahead'[u] = Scheduled
  BY <1>0 DEF Schedules, TypeOK, Scheduled
<1>5. u \notin Scheduled /\ u # 0
  BY DEF Schedules, RequestAt, OnceOK, Id
<1>6. u \notin hash \cup set \cup commands \cup Stopped \cup Cleaned
      /\ \A w \in Id : u \notin request[w].todo
  BY <1>5 DEF KnownOK
<1>7. Scheduled \cup Asleep \cup Entering \subseteq Id /\ last \in Id \cup {0}
  BY <1>0 DEF TypeOK, Scheduled, Asleep, Entering
<1>8. OnceOK'
  BY <1>1, <1>2, <1>7 DEF Schedules, OnceOK, RequestAt
<1>9. KnownOK'
  BY <1>0, <1>1, <1>2, <1>3, <1>4, <1>5, <1>6, <1>7 DEF Schedules, KnownOK
<1>10. LatestOK'
  BY <1>0, <1>1, <1>2, <1>3, <1>4, <1>5, <1>6, <1>7 DEF Schedules, LatestOK
<1>11. SafeOK'
  BY <1>2, <1>6 DEF Schedules, SafeOK
<1>12. ReachedOK'
  BY <1>2 DEF Schedules, ReachedOK
<1>13. RegisteredOK'
  BY <1>2 DEF Schedules, RegisteredOK
<1>14. EnteringOK'
  BY <1>1, <1>2, <1>3, <1>6 DEF Schedules, EnteringOK
<1>15. EnteredOK'
  BY <1>2, <1>3 DEF Schedules, EnteredOK
<1>16. QED
  BY <1>0, <1>8, <1>9, <1>10, <1>11, <1>12, <1>13, <1>14, <1>15

LEMMA EndsUnsavedKeeps ==
  ASSUME IInv, NEW u \in Id, EndsUnsaved(u)
  PROVE  IInv'
<1> USE DEF IInv, setting, registry, shared, observers
<1>0. Typed' /\ TypeOK
  BY RequestTyped DEF Typed, RequestStep, SaveStep
<1>1. request'[u].pc = "done" /\ request'[u].todo = request[u].todo
      /\ \A w \in Id : w # u => request'[w] = request[w]
  BY <1>0, RequestMoves DEF EndsUnsaved, TypeOK, Place
<1>2. Scheduled' = Scheduled /\ Asleep' = Asleep /\ Stopped' = Stopped
      /\ Cleaned' = Cleaned /\ Leaving' = Leaving /\ AtEntry' = AtEntry
  BY SameSets DEF EndsUnsaved
<1>3. Entering' = Entering
  BY <1>1 DEF EndsUnsaved, RequestAt, Entering
<1>4. lost' \/ (Pending => Pending')
  BY <1>1 DEF EndsUnsaved, Pending, RequestAt
<1>5. Scheduled \cup Asleep \cup Entering \subseteq Id /\ last \in Id \cup {0}
  BY <1>0 DEF TypeOK, Scheduled, Asleep, Entering
<1>6. OnceOK'
  BY <1>1, <1>2, <1>5 DEF EndsUnsaved, OnceOK, RequestAt
<1>7. KnownOK'
  BY <1>1, <1>2 DEF EndsUnsaved, KnownOK
<1>8. LatestOK'
  BY <1>0, <1>1, <1>2, <1>3, <1>4, <1>5 DEF EndsUnsaved, LatestOK
<1>9. SafeOK'
  BY DEF EndsUnsaved, SafeOK
<1>10. ReachedOK'
  BY DEF EndsUnsaved, ReachedOK
<1>11. RegisteredOK'
  BY <1>2 DEF EndsUnsaved, RegisteredOK
<1>12. EnteringOK'
  BY <1>1, <1>2, <1>3 DEF EndsUnsaved, EnteringOK
<1>13. EnteredOK'
  BY <1>0, <1>1, <1>2, <1>3, <1>4, <1>5 DEF EndsUnsaved, EnteredOK
<1>14. QED
  BY <1>0, <1>6, <1>7, <1>8, <1>9, <1>10, <1>11, <1>12, <1>13

LEMMA EntersKeeps ==
  ASSUME IInv, NEW u \in Id, EntersTask(u)
  PROVE  IInv'
<1> USE DEF IInv, setting, registry, shared, observers
<1>0. Typed' /\ TypeOK
  BY RequestTyped DEF Typed, RequestStep, SaveStep
<1>1. request'[u].pc = "done" /\ request'[u].todo = request[u].todo
      /\ \A w \in Id : w # u => request'[w] = request[w]
  BY <1>0, RequestMoves DEF EntersTask, TypeOK, Place
<1>2. Scheduled' = Scheduled /\ Asleep' = Asleep /\ Stopped' = Stopped
      /\ Cleaned' = Cleaned /\ Leaving' = Leaving /\ AtEntry' = AtEntry
  BY SameSets DEF EntersTask
<1>3. Entering' = Entering \ {u} /\ u \in Entering
  BY <1>1 DEF EntersTask, RequestAt, Entering
<1>4. Pending => Pending'
  BY <1>1 DEF EntersTask, Pending, RequestAt
<1>5. u \in Scheduled
  BY <1>3 DEF EnteringOK
<1>6. Scheduled \cup Asleep \cup Entering \subseteq Id /\ last \in Id \cup {0}
  BY <1>0 DEF TypeOK, Scheduled, Asleep, Entering
<1>7. OnceOK'
  BY <1>0, <1>1, <1>2, <1>3, <1>4, <1>5, <1>6 DEF EntersTask, OnceOK, RequestAt
<1>8. KnownOK'
  BY <1>1, <1>2, <1>5 DEF EntersTask, KnownOK
<1>9. LatestOK'
  BY <1>2 DEF EntersTask, LatestOK
<1>10. SafeOK'
  BY <1>0, <1>1, <1>2, <1>3, <1>4, <1>5, <1>6 DEF EntersTask, SafeOK
<1>11. ReachedOK'
  BY <1>1, <1>2, <1>4, ReachedStays DEF EntersTask
<1>12. RegisteredOK'
  BY <1>2 DEF EntersTask, RegisteredOK
<1>13. EnteringOK'
  BY <1>1, <1>2, <1>3 DEF EntersTask, EnteringOK
<1>14. EnteredOK'
  BY <1>0, <1>1, <1>2, <1>3, <1>4, <1>5, <1>6 DEF EntersTask, EnteredOK
<1>15. QED
  BY <1>0, <1>7, <1>8, <1>9, <1>10, <1>11, <1>12, <1>13, <1>14

-----------------------------------------------------------------------------
(* So do the saves, their clean-ups and the listener.                      *)

LEMMA WakesKeeps ==
  ASSUME IInv, NEW u \in Id, Wakes(u)
  PROVE  IInv'
<1> USE DEF IInv, setting, registry, shared, observers
<1>0. Typed' /\ TypeOK
  BY SaveTyped DEF Typed, RequestStep, SaveStep
<1>1. Scheduled \cup Asleep \cup Entering \subseteq Id /\ last \in Id \cup {0}
  BY <1>0 DEF TypeOK, Scheduled, Asleep, Entering
<1>2. u \in Asleep
  BY DEF Wakes, SleepIsOver, Asleep
<1>3. /\ Scheduled' = Scheduled /\ Asleep' = Asleep \ {u} /\ Stopped' = Stopped
      /\ Cleaned' = Cleaned \cup {u} /\ Leaving' = Leaving \cup {u}
      /\ AtEntry' = (IF redis THEN AtEntry \cup {u} ELSE AtEntry \ {u})
  BY <1>0, <1>2, EndSets DEF Wakes
<1>4. request' = request /\ Entering' = Entering /\ (Pending' <=> Pending)
  BY DEF Wakes, Entering, Pending
<1>5. ~redis => hash \cup set = {}
  BY <1>0 DEF TypeOK
<1>6. /\ QuickEntries => u \notin Entering
      /\ u \notin Stopped
  BY DEF Wakes, SleepIsOver, Stopped, RequestAt, Entering
<1>7. u \in Scheduled /\ u \notin Cleaned
  BY <1>2 DEF KnownOK, Scheduled, Asleep
<1>8. u = last => \A v \in Asleep' : v \in Stopped' \/ HeldUp(v)'
  <2> SUFFICES ASSUME u = last, NEW v \in Asleep', v \notin Stopped'
               PROVE  HeldUp(v)'
    OBVIOUS
  <2>1. v \in Id /\ v \in ahead[u] /\ save[v].pc = "asleep" /\ ~save[v].cancelled
    BY <1>1, <1>3, AsleepScheduled DEF LatestOK, Asleep, Stopped
  <2>2. node[v] # node[last] /\ overtaken'
    BY <2>1 DEF Wakes, SleepIsOver, Overtakes
  <2>3. QED
    BY <2>1, <2>2 DEF Wakes, HeldUp
<1>9. OnceOK'
  BY <1>3 DEF Wakes, OnceOK
<1>10. KnownOK'
  BY <1>0, <1>1, <1>2, <1>3, <1>4, <1>5, <1>6, <1>7, <1>8 DEF Wakes, KnownOK
<1>11. LatestOK'
  BY <1>3, <1>7 DEF Wakes, LatestOK
<1>12. SafeOK'
  BY <1>0, <1>1, <1>2, <1>3, <1>4, <1>5, <1>6, <1>7, <1>8 DEF Wakes, SafeOK
<1>13. ReachedOK'
  <2>1. CASE u = last
    BY <1>8, <2>1 DEF Wakes, ReachedOK
  <2>2. CASE u # last
    <3>1. overtaken \in BOOLEAN /\ overtaken' \in BOOLEAN
      BY <1>0 DEF Typed, TypeOK
    <3>2. overtaken' <=> overtaken
      BY <2>2, Zenon DEF Wakes
    <3>3. \A v : HeldUp(v)' <=> HeldUp(v)
      BY <3>2 DEF Wakes, HeldUp
    <3>4. QED
      BY <1>2, <1>3, <1>4, <1>6, <2>2, <3>3 DEF Wakes, ReachedOK
  <2>3. QED
    BY <2>1, <2>2
<1>14. RegisteredOK'
  BY <1>0, <1>1, <1>2, <1>3, <1>4, <1>5, <1>6, <1>7, <1>8 DEF Wakes, RegisteredOK
<1>15. EnteringOK'
  BY <1>3, <1>4 DEF Wakes, EnteringOK
<1>16. EnteredOK'
  BY <1>3, <1>4, <1>5, <1>6 DEF Wakes, EnteredOK
<1>17. QED
  BY <1>0, <1>9, <1>10, <1>11, <1>12, <1>13, <1>14, <1>15, <1>16

LEMMA WakesRefusedKeeps ==
  ASSUME IInv, NEW u \in Id, WakesRefused(u)
  PROVE  IInv'
<1> USE DEF IInv, setting, registry, shared, observers
<1>0. Typed' /\ TypeOK
  BY SaveTyped DEF Typed, RequestStep, SaveStep
<1>1. Scheduled \cup Asleep \cup Entering \subseteq Id /\ last \in Id \cup {0}
  BY <1>0 DEF TypeOK, Scheduled, Asleep, Entering
<1>2. u \in Asleep
  BY DEF WakesRefused, SleepIsOver, Asleep
<1>3. /\ Scheduled' = Scheduled /\ Asleep' = Asleep \ {u} /\ Stopped' = Stopped
      /\ Cleaned' = Cleaned \cup {u} /\ Leaving' = Leaving \cup {u}
      /\ AtEntry' = (IF redis THEN AtEntry \cup {u} ELSE AtEntry \ {u})
  BY <1>0, <1>2, EndSets DEF WakesRefused
<1>4. request' = request /\ Entering' = Entering /\ (Pending' <=> Pending)
  BY DEF WakesRefused, Entering, Pending
<1>5. ~redis => hash \cup set = {}
  BY <1>0 DEF TypeOK
<1>6. QuickEntries => u \notin Entering
  BY DEF WakesRefused, SleepIsOver, RequestAt, Entering
<1>7. u \in Scheduled /\ u \notin Cleaned
  BY <1>2 DEF KnownOK, Scheduled, Asleep
<1>8. \A v : HeldUp(v)' <=> HeldUp(v)
  BY DEF WakesRefused, HeldUp
<1>9. OnceOK'
  BY <1>3 DEF WakesRefused, OnceOK
<1>10. KnownOK'
  BY <1>0, <1>1, <1>2, <1>3, <1>4, <1>5, <1>6, <1>7, <1>8 DEF WakesRefused, KnownOK
<1>11. LatestOK'
  BY <1>3 DEF WakesRefused, LatestOK
<1>12. SafeOK'
  BY <1>0, <1>1, <1>2, <1>3, <1>4, <1>5, <1>6, <1>7, <1>8 DEF WakesRefused, SafeOK
<1>13. ReachedOK'
  BY <1>3, <1>4, <1>8 DEF WakesRefused, ReachedOK
<1>14. RegisteredOK'
  BY <1>0, <1>1, <1>2, <1>3, <1>4, <1>5, <1>6, <1>7, <1>8 DEF WakesRefused, RegisteredOK
<1>15. EnteringOK'
  BY <1>3, <1>4 DEF WakesRefused, EnteringOK
<1>16. EnteredOK'
  BY <1>0, <1>1, <1>2, <1>3, <1>4, <1>5, <1>6, <1>7, <1>8 DEF WakesRefused, EnteredOK
<1>17. QED
  BY <1>0, <1>9, <1>10, <1>11, <1>12, <1>13, <1>14, <1>15, <1>16

LEMMA SleepCancelledKeeps ==
  ASSUME IInv, NEW u \in Id, SleepCancelled(u)
  PROVE  IInv'
<1> USE DEF IInv, setting, registry, shared, observers
<1>0. Typed' /\ TypeOK
  BY SaveTyped DEF Typed, RequestStep, SaveStep
<1>1. Scheduled \cup Asleep \cup Entering \subseteq Id /\ last \in Id \cup {0}
  BY <1>0 DEF TypeOK, Scheduled, Asleep, Entering
<1>2. u \in Asleep
  BY DEF SleepCancelled, SleepIsOver, Asleep
<1>3. /\ Scheduled' = Scheduled /\ Asleep' = Asleep \ {u} /\ Stopped' = Stopped
      /\ Cleaned' = Cleaned \cup {u} /\ Leaving' = Leaving \cup {u}
      /\ AtEntry' = (IF redis THEN AtEntry \cup {u} ELSE AtEntry \ {u})
  BY <1>0, <1>2, EndSets DEF SleepCancelled
<1>4. request' = request /\ Entering' = Entering /\ (Pending' <=> Pending)
  BY DEF SleepCancelled, Entering, Pending
<1>5. ~redis => hash \cup set = {}
  BY <1>0 DEF TypeOK
<1>6. u \in Stopped
  BY DEF SleepCancelled, Stopped
<1>7. u \in Scheduled /\ u \notin Cleaned
  BY <1>2 DEF KnownOK, Scheduled, Asleep
<1>8. u \notin Entering /\ (u = last /\ ~lost => Pending)
  BY <1>1, <1>2, <1>6 DEF EnteringOK, SafeOK, Id
<1>9. OnceOK'
  BY <1>3 DEF SleepCancelled, OnceOK
<1>10. KnownOK'
  BY <1>0, <1>1, <1>2, <1>3, <1>4, <1>5, <1>6, <1>7, <1>8 DEF SleepCancelled, KnownOK
<1>11. LatestOK'
  BY <1>3 DEF SleepCancelled, LatestOK
<1>12. SafeOK'
  BY <1>3, <1>4 DEF SleepCancelled, SafeOK
<1>13. ReachedOK'
  <2>1. \A v : HeldUp(v)' <=> HeldUp(v)
    BY DEF SleepCancelled, HeldUp
  <2>2. QED
    BY <1>2, <1>3, <1>4, <1>8, <2>1 DEF SleepCancelled, ReachedOK
<1>14. RegisteredOK'
  BY <1>3 DEF SleepCancelled, RegisteredOK
<1>15. EnteringOK'
  BY <1>3, <1>4 DEF SleepCancelled, EnteringOK
<1>16. EnteredOK'
  BY <1>0, <1>1, <1>2, <1>3, <1>4, <1>5, <1>6, <1>7, <1>8 DEF SleepCancelled, EnteredOK
<1>17. QED
  BY <1>0, <1>9, <1>10, <1>11, <1>12, <1>13, <1>14, <1>15, <1>16

LEMMA RemovesEntryKeeps ==
  ASSUME IInv, NEW u \in Id, RemovesEntry(u)
  PROVE  IInv'
<1> USE DEF IInv, setting, registry, shared, observers
<1>0. Typed' /\ TypeOK
  BY SaveTyped DEF Typed, RequestStep, SaveStep
<1>1. Scheduled \cup Asleep \cup Entering \subseteq Id /\ last \in Id \cup {0}
  BY <1>0 DEF TypeOK, Scheduled, Asleep, Entering
<1>2. /\ Scheduled' = Scheduled /\ Asleep' = Asleep /\ Stopped' = Stopped
      /\ Cleaned' = Cleaned \cup {u} /\ AtEntry' = AtEntry \ {u}
      /\ Leaving' = Leaving \cup {u}
  BY <1>0, CleanupSets DEF RemovesEntry
<1>3. u \in Cleaned /\ u \in AtEntry
  BY DEF RemovesEntry, CleanupAt, Cleaned, AtEntry
<1>4. request' = request /\ Entering' = Entering /\ (Pending' <=> Pending)
  BY DEF RemovesEntry, Entering, Pending
<1>5. u \in Scheduled
  BY <1>3 DEF KnownOK
<1>6. OnceOK'
  BY <1>2 DEF RemovesEntry, OnceOK
<1>7. KnownOK'
  BY <1>0, <1>1, <1>2, <1>3, <1>4, <1>5 DEF RemovesEntry, KnownOK
<1>8. LatestOK'
  BY <1>2 DEF RemovesEntry, LatestOK
<1>9. SafeOK'
  BY <1>0, <1>1, <1>2, <1>3, <1>4, <1>5 DEF RemovesEntry, SafeOK
<1>10. ReachedOK'
  BY <1>2, <1>4, ReachedStays DEF RemovesEntry
<1>11. RegisteredOK'
  BY <1>2 DEF RemovesEntry, RegisteredOK
<1>12. EnteringOK'
  BY <1>2, <1>4 DEF RemovesEntry, EnteringOK
<1>13. EnteredOK'
  BY <1>0, <1>1, <1>2, <1>3, <1>4, <1>5 DEF RemovesEntry, EnteredOK
<1>14. QED
  BY <1>0, <1>6, <1>7, <1>8, <1>9, <1>10, <1>11, <1>12, <1>13

LEMMA DeletesSetKeeps ==
  ASSUME IInv, NEW u \in Id, DeletesSet(u)
  PROVE  IInv'
<1> USE DEF IInv, setting, registry, shared, observers
<1>0. Typed' /\ TypeOK
  BY SaveTyped DEF Typed, RequestStep, SaveStep
<1>1. Scheduled \cup Asleep \cup Entering \subseteq Id /\ last \in Id \cup {0}
  BY <1>0 DEF TypeOK, Scheduled, Asleep, Entering
<1>2. /\ Scheduled' = Scheduled /\ Asleep' = Asleep /\ Stopped' = Stopped
      /\ Cleaned' = Cleaned \cup {u} /\ AtEntry' = AtEntry \ {u}
      /\ Leaving' = Leaving \cup {u}
  BY <1>0, CleanupSets DEF DeletesSet
<1>3. u \in Cleaned /\ u \notin AtEntry
  BY DEF DeletesSet, CleanupAt, Cleaned, AtEntry
<1>4. request' = request /\ Entering' = Entering /\ (Pending' <=> Pending)
  BY DEF DeletesSet, Entering, Pending
<1>5. u \in Scheduled
  BY <1>3 DEF KnownOK
<1>6. OnceOK'
  BY <1>2 DEF DeletesSet, OnceOK
<1>7. KnownOK'
  BY <1>2, <1>3 DEF DeletesSet, KnownOK
<1>8. LatestOK'
  BY <1>2 DEF DeletesSet, LatestOK
<1>9. SafeOK'
  BY <1>0, <1>1, <1>2, <1>3, <1>4, <1>5 DEF DeletesSet, SafeOK
<1>10. ReachedOK'
  BY <1>2, <1>4, ReachedStays DEF DeletesSet
<1>11. RegisteredOK'
  BY <1>2 DEF DeletesSet, RegisteredOK
<1>12. EnteringOK'
  BY <1>2, <1>4 DEF DeletesSet, EnteringOK
<1>13. EnteredOK'
  BY <1>0, <1>1, <1>2, <1>3, <1>4, <1>5 DEF DeletesSet, EnteredOK
<1>14. QED
  BY <1>0, <1>6, <1>7, <1>8, <1>9, <1>10, <1>11, <1>12, <1>13

LEMMA RemovesTaskKeeps ==
  ASSUME IInv, NEW u \in Id, RemovesTask(u)
  PROVE  IInv'
<1> USE DEF IInv, setting, registry, shared, observers
<1>0. Typed' /\ TypeOK
  BY SaveTyped DEF Typed, RequestStep, SaveStep
<1>1. Scheduled \cup Asleep \cup Entering \subseteq Id /\ last \in Id \cup {0}
  BY <1>0 DEF TypeOK, Scheduled, Asleep, Entering
<1>2. /\ Scheduled' = Scheduled /\ Asleep' = Asleep /\ Stopped' = Stopped
      /\ Cleaned' = Cleaned \cup {u} /\ AtEntry' = AtEntry \ {u}
      /\ Leaving' = Leaving \ {u}
  BY <1>0, CleanupSets DEF RemovesTask
<1>3. u \in Cleaned /\ u \notin AtEntry
  BY DEF RemovesTask, CleanupAt, Cleaned, AtEntry
<1>4. \A w \in Id : request'[w].pc = request[w].pc /\ request'[w].todo = request[w].todo
  BY <1>0, ListDropped
<1>5. Entering' = Entering /\ (Pending' <=> Pending)
  BY <1>4 DEF Entering, Pending
<1>6. u \in Scheduled
  BY <1>3 DEF KnownOK
<1>7. OnceOK'
  BY <1>1, <1>2 DEF RemovesTask, OnceOK
<1>8. KnownOK'
  BY <1>2, <1>3 DEF RemovesTask, KnownOK
<1>9. LatestOK'
  BY <1>2 DEF RemovesTask, LatestOK
<1>10. SafeOK'
  BY <1>0, <1>1, <1>2, <1>3, <1>4, <1>5, <1>6 DEF RemovesTask, SafeOK
<1>11. ReachedOK'
  BY <1>2, <1>5, ReachedStays DEF RemovesTask
<1>12. RegisteredOK'
  BY <1>2 DEF RemovesTask, RegisteredOK
<1>13. EnteringOK'
  BY <1>2, <1>5 DEF RemovesTask, EnteringOK
<1>14. EnteredOK'
  BY <1>2, <1>3, <1>5 DEF RemovesTask, EnteredOK
<1>15. QED
  BY <1>0, <1>7, <1>8, <1>9, <1>10, <1>11, <1>12, <1>13, <1>14

LEMMA ReceivesKeeps ==
  ASSUME IInv, NEW u \in Id, ReceivesStop(u)
  PROVE  IInv'
<1> USE DEF IInv, setting, registry, shared, observers
<1>0. Typed' /\ TypeOK
  BY SaveTyped DEF Typed, RequestStep, SaveStep
<1>1. Scheduled \cup Asleep \cup Entering \subseteq Id /\ last \in Id \cup {0}
  BY <1>0 DEF TypeOK, Scheduled, Asleep, Entering
<1>2. u \in Scheduled /\ u \notin Entering
  BY DEF ReceivesStop, KnownOK, EnteringOK
<1>3. /\ Scheduled' = Scheduled /\ Asleep' = Asleep /\ Stopped' \subseteq Stopped \cup {u}
      /\ Asleep \cap Stopped \subseteq Stopped'
      /\ Cleaned' = Cleaned /\ Leaving' = Leaving /\ AtEntry' = AtEntry
  BY <1>0, CancelSets, SameSets DEF ReceivesStop
<1>4. request' = request /\ Entering' = Entering /\ (Pending' <=> Pending)
  BY DEF ReceivesStop, Entering, Pending
<1>5. OnceOK'
  BY <1>0, <1>1, <1>2, <1>3, <1>4 DEF ReceivesStop, OnceOK
<1>6. KnownOK'
  BY <1>3 DEF ReceivesStop, KnownOK
<1>7. LatestOK'
  BY <1>3 DEF ReceivesStop, LatestOK
<1>8. SafeOK'
  BY <1>3, <1>4 DEF ReceivesStop, SafeOK
<1>9. ReachedOK'
  BY <1>3, <1>4, ReachedStays DEF ReceivesStop
<1>10. RegisteredOK'
  BY <1>3 DEF ReceivesStop, RegisteredOK
<1>11. EnteringOK'
  BY <1>3, <1>4 DEF ReceivesStop, EnteringOK
<1>12. EnteredOK'
  BY <1>0, <1>1, <1>2, <1>3, <1>4 DEF ReceivesStop, EnteredOK
<1>13. QED
  BY <1>0, <1>5, <1>6, <1>7, <1>8, <1>9, <1>10, <1>11, <1>12

LEMMA LosesKeeps ==
  ASSUME IInv, NEW u \in Id, LosesStop(u)
  PROVE  IInv'
<1> USE DEF IInv, setting, registry, shared, observers
<1>0. Typed' /\ TypeOK
  BY SaveTyped DEF Typed, RequestStep, SaveStep
<1>1. Scheduled' = Scheduled /\ Asleep' = Asleep /\ Stopped' = Stopped
      /\ Cleaned' = Cleaned /\ Leaving' = Leaving /\ AtEntry' = AtEntry
  BY SameSets DEF LosesStop
<1>2. request' = request /\ Entering' = Entering /\ (Pending' <=> Pending)
  BY DEF LosesStop, Entering, Pending
<1>3. OnceOK'
  BY <1>1 DEF LosesStop, OnceOK
<1>4. KnownOK'
  BY <1>1 DEF LosesStop, KnownOK
<1>5. LatestOK'
  BY <1>1 DEF LosesStop, LatestOK
<1>6. SafeOK'
  BY <1>1, <1>2 DEF LosesStop, SafeOK
<1>7. ReachedOK'
  BY <1>1, <1>2, ReachedStays DEF LosesStop
<1>8. RegisteredOK'
  BY <1>1 DEF LosesStop, RegisteredOK
<1>9. EnteringOK'
  BY <1>1, <1>2 DEF LosesStop, EnteringOK
<1>10. EnteredOK'
  BY <1>0, <1>1, <1>2 DEF LosesStop, EnteredOK
<1>11. QED
  BY <1>0, <1>3, <1>4, <1>5, <1>6, <1>7, <1>8, <1>9, <1>10

LEMMA StepInv == IInv /\ [Next]_vars => IInv'
<1> SUFFICES ASSUME IInv, [Next]_vars PROVE IInv'
  OBVIOUS
<1>1. CASE Next
  <2>1. PICK u \in Id : \/ Arrives(u) \/ RequestStep(u) \/ StopsNext(u)
                        \/ SaveStep(u) \/ ReceivesStop(u) \/ LosesStop(u)
    BY <1>1, NextSteps
  <2>2. CASE Arrives(u) \/ RequestStep(u) \/ StopsNext(u)
    BY <2>2, ArrivesKeeps, ListsKeeps, PublishesKeeps, StopsKeeps, JoinsKeeps,
       SchedulesKeeps, EndsUnsavedKeeps, EntersKeeps DEF RequestStep
  <2>3. CASE SaveStep(u) \/ ReceivesStop(u) \/ LosesStop(u)
    BY <2>3, WakesKeeps, WakesRefusedKeeps, SleepCancelledKeeps, RemovesEntryKeeps,
       DeletesSetKeeps, RemovesTaskKeeps, ReceivesKeeps, LosesKeeps DEF SaveStep
  <2>4. QED
    BY <2>1, <2>2, <2>3
<1>2. CASE UNCHANGED vars
  <2>1. Typed'
    BY StepTyped DEF IInv
  <2>2. /\ Scheduled' = Scheduled /\ Asleep' = Asleep /\ Stopped' = Stopped
        /\ Cleaned' = Cleaned /\ Leaving' = Leaving /\ AtEntry' = AtEntry
    BY <1>2, SameSets DEF vars
  <2>3. Entering' = Entering /\ (Pending' <=> Pending)
    BY <1>2 DEF vars, Entering, Pending
  <2> USE <1>2, <2>2, <2>3 DEF IInv, vars, setting, registry, shared, observers
  <2>4. OnceOK' /\ KnownOK'
    BY DEF OnceOK, KnownOK
  <2>5. LatestOK' /\ SafeOK' /\ ReachedOK'
    BY ReachedStays DEF LatestOK, SafeOK
  <2>6. RegisteredOK' /\ EnteringOK' /\ EnteredOK'
    BY DEF RegisteredOK, EnteringOK, EnteredOK
  <2>7. QED
    BY <2>1, <2>4, <2>5, <2>6
<1>3. QED
  BY <1>1, <1>2

LEMMA AlwaysInv == Spec => []IInv
  BY InitInv, StepInv, PTL DEF Spec

-----------------------------------------------------------------------------
(* The properties.                                                         *)

LEMMA QuietSets ==
  ASSUME IInv, Quiet
  PROVE  Asleep = {} /\ Leaving = {} /\ ~Pending
<1>1. \A v \in Id : save[v].pc = "none" \/ save[v].cleanup = "done"
  BY DEF Quiet, CleanupAt
<1>2. Asleep = {}
  BY <1>1 DEF IInv, KnownOK, Asleep, Cleaned
<1>3. Leaving = {}
  BY <1>1 DEF IInv, KnownOK, Leaving, Cleaned, Scheduled
<1>4. ~Pending
  BY DEF Quiet, RequestAt, Pending
<1>5. QED
  BY <1>2, <1>3, <1>4

\* When all is done, the note has the content of the save that was scheduled
\* last, if its access check has not refused it and no later handler has ended
\* without scheduling one, or of one held up on another node: socket/main.py:656-701.
THEOREM LastSaved == Spec => []LastScheduledIsSaved
<1>1. IInv => LastScheduledIsSaved
  BY QuietSets DEF IInv, LatestOK, ReachedOK, LastScheduledIsSaved
<1>2. QED
  BY AlwaysInv, <1>1, PTL

\* When all is done no task is registered, if an entry reaches Redis before the
\* save it is for has slept: tasks/__init__.py:73-82, 101-114.
THEOREM AllForgottenOnce == QuickEntries => (Spec => []AllForgotten)
<1> SUFFICES ASSUME QuickEntries PROVE Spec => []AllForgotten
  OBVIOUS
<1>1. IInv => AllForgotten
  <2> SUFFICES ASSUME IInv, Quiet PROVE tasks = {} /\ items = {} /\ hash = {} /\ set = {}
    BY DEF AllForgotten
  <2>1. tasks = {} /\ items = {}
    BY QuietSets DEF IInv, RegisteredOK
  <2>2. AtEntry \subseteq Leaving
    BY DEF AtEntry, Leaving
  <2>3. hash = {} /\ set = {}
    BY <2>2, QuietSets DEF IInv, EnteredOK
  <2>4. QED
    BY <2>1, <2>3
<1>2. QED
  BY AlwaysInv, <1>1, PTL

=============================================================================
