------------------------------ MODULE CollabDoc ------------------------------
(***************************************************************************)
(* One document edited together: the ydoc handlers of socket/main.py and   *)
(* YdocManager (socket/utils.py) over Redis, with several server nodes.    *)
(* The debounced save of the note and the tasks it runs in are left out:   *)
(* they neither read nor write what is modelled here.                      *)
(*                                                                         *)
(* Every event of a socket is handled by a coroutine of its own, so the    *)
(* handlers of one session interleave with each other and with those of    *)
(* the other sessions. One action is one command to Redis, to the room or  *)
(* to the client; a session stands for the node it is connected to.        *)
(*                                                                         *)
(* Data: an edit is a number; a Yjs update and a document state are sets   *)
(* of edits, and applying an update is union.                              *)
(***************************************************************************)
EXTENDS Naturals, Sequences

CONSTANTS
    Session,    \* the sockets; each opens the document at most once
    MaxEdits,   \* bound: edits made
    Threshold   \* COMPACTION_THRESHOLD (500 in the code)

ASSUME CollabAssumption ==
    /\ MaxEdits \in Nat
    /\ Threshold \in Nat \ {0}

VARIABLES
    updates,   \* the list <prefix>:<document>:updates
    users,     \* the set <prefix>:<document>:users
    room,      \* the sessions in the room doc_<document>
    pool,      \* SESSION_POOL
    client,    \* what the page of a session is doing
    doc,       \* the document as that page has it
    join,      \* handler of ydoc:document:join or :state, and the state it read
    quit,      \* handlers of ydoc:document:leave and of disconnect
    update,    \* for each edit the handler of its ydoc:document:update
    bus,       \* for each edit the sessions whose node has not yet routed it
    torn       \* observer: a clean-up or a compaction was overtaken

stored == <<updates, users>>
pages == <<client, doc>>
handlers == <<join, quit, update>>
vars == <<stored, room, pool, pages, handlers, bus, torn>>

Edit == 1 .. MaxEdits
Join == [pc : {"idle", "add", "enter", "read", "send"}, state : SUBSET Edit]
Handler == {"leave", "disconnect"}
Quit == [leave : {"idle", "remove", "exit", "users", "clear", "forget"},
         disconnect : {"idle", "scan", "remove", "users", "clear", "forget"}]
Update == [pc : {"none", "append", "count", "read", "write", "emit", "done"},
           by : SUBSET Session, read : Seq(SUBSET Edit)]

TypeOK ==
    /\ updates \in Seq(SUBSET Edit)
    /\ users \subseteq Session
    /\ room \subseteq Session
    /\ pool \subseteq Session
    /\ client \in [Session -> {"away", "joining", "editing", "left", "gone"}]
    /\ doc \in [Session -> SUBSET Edit]
    /\ join \in [Session -> Join]
    /\ quit \in [Session -> Quit]
    /\ update \in [Edit -> Update]
    /\ bus \in [Edit -> SUBSET Session]
    /\ torn \in BOOLEAN

Init ==
    /\ updates = <<>>
    /\ users = {}
    /\ room = {}
    /\ pool = Session
    /\ client = [s \in Session |-> "away"]
    /\ doc = [s \in Session |-> {}]
    /\ join = [s \in Session |-> [pc |-> "idle", state |-> {}]]
    /\ quit = [s \in Session |-> [leave |-> "idle", disconnect |-> "idle"]]
    /\ update = [e \in Edit |-> [pc |-> "none", by |-> {}, read |-> <<>>]]
    /\ bus = [e \in Edit |-> {}]
    /\ torn = FALSE

-----------------------------------------------------------------------------
(* Helpers *)

Merged(us) == UNION {us[i] : i \in DOMAIN us}

\* What the handlers' checks do not exclude: a clean-up that finds a user or an
\* update under way, an append without a user, a compaction of a changed list.
Tears(condition) == torn' = (torn \/ condition)

Online == {s \in Session : client[s] # "gone"}

Broadcasting(e) == update[e].pc \in {"count", "read", "write", "emit"} \/ bus[e] # {}

-----------------------------------------------------------------------------
(* ydoc:document:join and ydoc:document:state *)

JoinAt(s, pc) == join[s].pc = pc
JoinGoes(s, pc) == join' = [join EXCEPT ![s].pc = pc]

\* The page opens the document. A session the pool does not know is ignored.
Joins(s) ==
    /\ client[s] = "away"
    /\ s \in pool
    /\ client' = [client EXCEPT ![s] = "joining"]
    /\ JoinGoes(s, "add")
    /\ UNCHANGED <<stored, room, pool, doc, quit, update, bus, torn>>

AddsUser(s) ==
    /\ JoinAt(s, "add")
    /\ users' = users \cup {s}
    /\ JoinGoes(s, "enter")
    /\ UNCHANGED <<updates, room, pool, pages, quit, update, bus, torn>>

\* A socket that is no longer connected enters no room.
EntersRoom(s) ==
    /\ JoinAt(s, "enter")
    /\ room' = IF client[s] = "gone" THEN room ELSE room \cup {s}
    /\ JoinGoes(s, "read")
    /\ UNCHANGED <<stored, pool, pages, quit, update, bus, torn>>

ReadsUpdates(s) ==
    /\ JoinAt(s, "read")
    /\ join' = [join EXCEPT ![s] = [pc |-> "send", state |-> Merged(updates)]]
    /\ UNCHANGED <<stored, room, pool, pages, quit, update, bus, torn>>

\* The page merges the state and lets its user edit.
SendsState(s) ==
    /\ JoinAt(s, "send")
    /\ IF client[s] \in {"joining", "editing"}
       THEN /\ doc' = [doc EXCEPT ![s] = @ \cup join[s].state]
            /\ client' = [client EXCEPT ![s] = "editing"]
       ELSE UNCHANGED pages
    /\ join' = [join EXCEPT ![s] = [pc |-> "idle", state |-> {}]]
    /\ UNCHANGED <<stored, room, pool, quit, update, bus, torn>>

\* ydoc:document:state: a member of the room asks for the state anew. (A list
\* deleted between the two reads of the handler gives an empty state.)
ResendsState(s) ==
    /\ client[s] = "editing"
    /\ JoinAt(s, "idle")
    /\ s \in room
    /\ updates # <<>>
    /\ join' = [join EXCEPT ![s] = [pc |-> "send", state |-> Merged(updates)]]
    /\ UNCHANGED <<stored, room, pool, pages, quit, update, bus, torn>>

-----------------------------------------------------------------------------
(* ydoc:document:update *)

UpdateAt(e, pc) == update[e].pc = pc
UpdateGoes(e, pc) == update' = [update EXCEPT ![e].pc = pc]

\* The user types; edits are numbered in the order they are made.
Edits(s) ==
    /\ client[s] = "editing"
    /\ \E e \in Edit :
         /\ UpdateAt(e, "none")
         /\ \A f \in Edit : f < e => ~UpdateAt(f, "none")
         /\ doc' = [doc EXCEPT ![s] = @ \cup {e}]
         /\ update' = [update EXCEPT ![e].pc = "append", ![e].by = {s}]
    /\ UNCHANGED <<stored, room, pool, client, join, quit, bus, torn>>

Appends(e) ==
    /\ UpdateAt(e, "append")
    /\ updates' = Append(updates, {e})
    /\ UpdateGoes(e, "count")
    /\ Tears(users = {})
    /\ UNCHANGED <<users, room, pool, pages, join, quit, bus>>

Counts(e) ==
    /\ UpdateAt(e, "count")
    /\ UpdateGoes(e, IF Len(updates) >= Threshold THEN "read" ELSE "emit")
    /\ UNCHANGED <<stored, room, pool, pages, join, quit, bus, torn>>

\* _compact_updates_redis reads the list, ...
ReadsForCompaction(e) ==
    /\ UpdateAt(e, "read")
    /\ IF Len(updates) <= 1
       THEN UpdateGoes(e, "emit")
       ELSE update' = [update EXCEPT ![e].pc = "write", ![e].read = updates]
    /\ UNCHANGED <<stored, room, pool, pages, join, quit, bus, torn>>

\* Mutant of Compacted: the two halves do not meet.
CompactedWithGap(read) ==
    LET mid == Len(read) \div 2
    IN <<Merged(SubSeq(read, 1, mid))>> \o SubSeq(read, mid + 2, Len(read))

Compacted(read) ==
    LET mid == Len(read) \div 2
    IN <<Merged(SubSeq(read, 1, mid))>> \o SubSeq(read, mid + 1, Len(read))

\* ... and replaces it by a snapshot of its first half and the rest of it.
Compacts(e) ==
    /\ UpdateAt(e, "write")
    /\ updates' = Compacted(update[e].read)
    /\ update' = [update EXCEPT ![e].pc = "emit", ![e].read = <<>>]
    /\ Tears(updates # update[e].read)
    /\ UNCHANGED <<users, room, pool, pages, join, quit, bus>>

\* Mutant of Emits: the session is asked for before the broadcast.
EmitsForKnown(e) ==
    /\ UpdateAt(e, "emit")
    /\ bus' = [bus EXCEPT ![e] = IF update[e].by \subseteq pool
                                 THEN Online \ update[e].by ELSE {}]
    /\ update' = [update EXCEPT ![e].pc = "done", ![e].by = {}]
    /\ UNCHANGED <<stored, room, pool, pages, join, quit, torn>>

\* The update is published to all nodes, for the room but its sender.
Emits(e) ==
    /\ UpdateAt(e, "emit")
    /\ bus' = [bus EXCEPT ![e] = Online \ update[e].by]
    /\ update' = [update EXCEPT ![e].pc = "done", ![e].by = {}]
    /\ UNCHANGED <<stored, room, pool, pages, join, quit, torn>>

\* A node hands a published update to its session, if that is in the room.
Routes(e, s) ==
    /\ s \in bus[e]
    /\ bus' = [bus EXCEPT ![e] = @ \ {s}]
    /\ doc' = IF s \in room /\ client[s] \in {"joining", "editing"}
              THEN [doc EXCEPT ![s] = @ \cup {e}] ELSE doc
    /\ UNCHANGED <<stored, room, pool, client, handlers, torn>>

-----------------------------------------------------------------------------
(* ydoc:document:leave, disconnect, and the reaper of sessions *)

QuitAt(s, h, pc) == quit[s][h] = pc
QuitGoes(s, h, pc) == quit' = [quit EXCEPT ![s][h] = pc]

Leaves(s) ==
    /\ client[s] \in {"joining", "editing"}
    /\ client' = [client EXCEPT ![s] = "left"]
    /\ doc' = [doc EXCEPT ![s] = {}]
    /\ QuitGoes(s, "leave", "remove")
    /\ UNCHANGED <<stored, room, pool, join, update, bus, torn>>

\* The socket is closed. A session the pool does not know cleans nothing up.
Disconnects(s) ==
    /\ client[s] # "gone"
    /\ client' = [client EXCEPT ![s] = "gone"]
    /\ doc' = [doc EXCEPT ![s] = {}]
    /\ room' = room \ {s}
    /\ pool' = pool \ {s}
    /\ IF s \in pool THEN QuitGoes(s, "disconnect", "scan") ELSE UNCHANGED quit
    /\ bus' = [e \in Edit |-> bus[e] \ {s}]
    /\ UNCHANGED <<stored, join, update, torn>>

\* periodic_session_pool_cleanup: no heartbeat was seen for SESSION_POOL_TIMEOUT.
Reaps(s) ==
    /\ s \in pool
    /\ pool' = pool \ {s}
    /\ UNCHANGED <<stored, room, pages, handlers, bus, torn>>

\* remove_user_from_all_documents finds the documents that have users.
Scans(s) ==
    /\ QuitAt(s, "disconnect", "scan")
    /\ QuitGoes(s, "disconnect", IF users = {} THEN "idle" ELSE "remove")
    /\ UNCHANGED <<stored, room, pool, pages, join, update, bus, torn>>

\* Mutant of RemovesUser: both handlers go on to leave the room.
RemovesUserAndExits(s, h) ==
    /\ QuitAt(s, h, "remove")
    /\ users' = users \ {s}
    /\ QuitGoes(s, h, "exit")
    /\ UNCHANGED <<updates, room, pool, pages, join, update, bus, torn>>

RemovesUser(s, h) ==
    /\ QuitAt(s, h, "remove")
    /\ users' = users \ {s}
    /\ QuitGoes(s, h, IF h = "leave" THEN "exit" ELSE "users")
    /\ UNCHANGED <<updates, room, pool, pages, join, update, bus, torn>>

\* Mutant of ExitsRoom: the handler of leave leaves the clean-up to disconnect.
ExitsRoomOnly(s) ==
    /\ QuitAt(s, "leave", "exit")
    /\ room' = room \ {s}
    /\ QuitGoes(s, "leave", "idle")
    /\ UNCHANGED <<stored, pool, pages, join, update, bus, torn>>

\* The socket leaves the room, and only a document that exists is asked about.
ExitsRoom(s) ==
    /\ QuitAt(s, "leave", "exit")
    /\ room' = room \ {s}
    /\ QuitGoes(s, "leave", IF updates = <<>> THEN "idle" ELSE "users")
    /\ UNCHANGED <<stored, pool, pages, join, update, bus, torn>>

ChecksUsers(s, h) ==
    /\ QuitAt(s, h, "users")
    /\ QuitGoes(s, h, IF users = {} THEN "clear" ELSE "idle")
    /\ UNCHANGED <<stored, room, pool, pages, join, update, bus, torn>>

\* clear_document: the list, then the set.
ClearsUpdates(s, h) ==
    /\ QuitAt(s, h, "clear")
    /\ updates' = <<>>
    /\ QuitGoes(s, h, "forget")
    /\ Tears(users # {} \/ \E e \in Edit : Broadcasting(e))
    /\ UNCHANGED <<users, room, pool, pages, join, update, bus>>

ClearsUsers(s, h) ==
    /\ QuitAt(s, h, "forget")
    /\ users' = {}
    /\ QuitGoes(s, h, "idle")
    /\ Tears(users # {})
    /\ UNCHANGED <<updates, room, pool, pages, join, update, bus>>

-----------------------------------------------------------------------------
PageStep(s) == Joins(s) \/ Edits(s) \/ Leaves(s) \/ Disconnects(s) \/ ResendsState(s)
JoinStep(s) == AddsUser(s) \/ EntersRoom(s) \/ ReadsUpdates(s) \/ SendsState(s)
UpdateStep(e) == \/ Appends(e) \/ Counts(e) \/ ReadsForCompaction(e) \/ Compacts(e)
                 \/ Emits(e)
QuitStep(s) == \/ Scans(s) \/ ExitsRoom(s)
               \/ \E h \in Handler : \/ RemovesUser(s, h) \/ ChecksUsers(s, h)
                                     \/ ClearsUpdates(s, h) \/ ClearsUsers(s, h)

Next ==
    \/ \E s \in Session : PageStep(s) \/ JoinStep(s) \/ QuitStep(s) \/ Reaps(s)
    \/ \E e \in Edit : UpdateStep(e) \/ \E s \in Session : Routes(e, s)

Spec == Init /\ [][Next]_vars

-----------------------------------------------------------------------------
(* Properties *)

\* Whatever was stored reaches everyone who edits: an update that a joiner does
\* not find in the list still has to be broadcast to the room the joiner has
\* already entered. Nothing falls between the two (main.py:548-571, 671-687).
NothingFallsBetween ==
    ~torn => \A s \in Session, e \in Merged(updates) :
        client[s] = "editing" =>
            \/ e \in doc[s] \cup join[s].state
            \/ s \in bus[e] /\ s \in room
            \/ UpdateAt(e, "count") \/ UpdateAt(e, "read") \/ UpdateAt(e, "write")
            \/ UpdateAt(e, "emit")

\* Whatever someone who edits has seen is kept for the next one to join, through
\* compactions and other users' departures (utils.py:148-162, main.py:704-734).
SeenIsStored ==
    ~torn => \A s \in Session : client[s] = "editing" =>
        \A e \in doc[s] : e \in Merged(updates) \/ UpdateAt(e, "append")

Quiet ==
    /\ \A s \in Session : JoinAt(s, "idle") /\ \A h \in Handler : QuitAt(s, h, "idle")
    /\ \A e \in Edit : UpdateAt(e, "none") \/ UpdateAt(e, "done")

\* The list of a document that nobody uses is not kept: of two users who leave
\* at once, by whichever way, one clears it (main.py:726-731, utils.py:225-238).
AbandonedIsCleared ==
    ~torn /\ Quiet /\ users = {} => updates = <<>>

=============================================================================
