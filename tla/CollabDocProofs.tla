--------------------------- MODULE CollabDocProofs ---------------------------
(***************************************************************************)
(* Proofs about CollabDoc, for any sessions, edits and threshold.          *)
(***************************************************************************)
EXTENDS CollabDoc, SequenceTheorems, TLAPS

-----------------------------------------------------------------------------
(* Lists of updates *)

\* An update appended to the list is merged with what the list holds.
LEMMA AppendMerges ==
    ASSUME NEW us \in Seq(SUBSET Edit), NEW u \in SUBSET Edit
    PROVE  Append(us, u) \in Seq(SUBSET Edit) /\ Merged(Append(us, u)) = Merged(us) \cup u
  <1>1. /\ Len(Append(us, u)) = Len(us) + 1
        /\ \A i \in 1 .. Len(us) : Append(us, u)[i] = us[i]
        /\ Append(us, u)[Len(us) + 1] = u
    OBVIOUS
  <1>2. \A i \in 1 .. Len(us) + 1 : i \in 1 .. Len(us) \/ i = Len(us) + 1
    OBVIOUS
  <1>3. Merged(Append(us, u)) \subseteq Merged(us) \cup u
    <2> SUFFICES ASSUME NEW i \in 1 .. Len(us) + 1, NEW e \in Append(us, u)[i]
                 PROVE  e \in Merged(us) \cup u
      BY <1>1 DEF Merged
    <2> QED
      BY <1>1, <1>2 DEF Merged
  <1>4. Merged(us) \cup u \subseteq Merged(Append(us, u))
    BY <1>1 DEF Merged
  <1> QED
    BY <1>3, <1>4

\* A compaction loses nothing and keeps the list non-empty, however long it is
\* (utils.py:148-162).
LEMMA CompactionKeeps ==
    ASSUME NEW read \in Seq(SUBSET Edit)
    PROVE  /\ Compacted(read) \in Seq(SUBSET Edit)
           /\ Compacted(read) # <<>>
           /\ Merged(Compacted(read)) = Merged(read)
  <1> DEFINE mid == Len(read) \div 2
             first == SubSeq(read, 1, mid)
             rest == SubSeq(read, mid + 1, Len(read))
  <1>1. mid \in 0 .. Len(read)
    OBVIOUS
  <1>2. /\ first \in Seq(SUBSET Edit) /\ Len(first) = mid
        /\ \A i \in 1 .. mid : first[i] = read[i]
    BY <1>1, SubSeqProperties
  <1>3. /\ rest \in Seq(SUBSET Edit) /\ Len(rest) = Len(read) - mid
        /\ \A i \in 1 .. Len(read) - mid : rest[i] = read[mid + i]
    <2> HIDE DEF mid
    <2>1. \A i \in mid + 1 .. Len(read) : read[i] \in SUBSET Edit
      BY <1>1
    <2>2. /\ rest \in Seq(SUBSET Edit)
          /\ Len(rest) = IF mid + 1 =< Len(read) THEN Len(read) - (mid + 1) + 1 ELSE 0
          /\ \A i \in 1 .. Len(read) - (mid + 1) + 1 : rest[i] = read[(mid + 1) + i - 1]
      BY <1>1, <2>1, SubSeqProperties
    <2> QED
      BY <1>1, <2>2
  <1>4. Compacted(read) = <<Merged(first)>> \o rest
    BY DEF Compacted
  <1>5. Merged(first) \in SUBSET Edit
    BY <1>2 DEF Merged
  <1> HIDE DEF first, rest, mid
  <1>6. /\ Compacted(read) \in Seq(SUBSET Edit)
        /\ Len(Compacted(read)) = 1 + Len(read) - mid
        /\ Compacted(read)[1] = Merged(first)
        /\ \A i \in 1 .. Len(read) - mid : Compacted(read)[1 + i] = read[mid + i]
    BY <1>1, <1>3, <1>4, <1>5
  <1>7. Merged(Compacted(read)) \subseteq Merged(read)
    <2> SUFFICES ASSUME NEW i \in 1 .. 1 + Len(read) - mid, NEW e \in Compacted(read)[i]
                 PROVE  e \in Merged(read)
      BY <1>6 DEF Merged
    <2>1. CASE i = 1
      BY <1>1, <1>2, <1>6, <2>1 DEF Merged
    <2>2. CASE i # 1
      <3>1. i - 1 \in 1 .. Len(read) - mid /\ mid + (i - 1) \in 1 .. Len(read)
        BY <1>1, <2>2
      <3>2. Compacted(read)[1 + (i - 1)] = read[mid + (i - 1)] /\ 1 + (i - 1) = i
        BY <1>6, <3>1
      <3> QED
        BY <3>1, <3>2 DEF Merged
    <2> QED
      BY <2>1, <2>2
  <1>8. Merged(read) \subseteq Merged(Compacted(read))
    <2> SUFFICES ASSUME NEW i \in 1 .. Len(read), NEW e \in read[i]
                 PROVE  e \in Merged(Compacted(read))
      BY DEF Merged
    <2>1. CASE i <= mid
      <3>1. e \in Merged(first)
        BY <1>1, <1>2, <2>1 DEF Merged
      <3> QED
        BY <1>1, <1>6, <3>1 DEF Merged
    <2>2. CASE ~(i <= mid)
      <3>1. i - mid \in 1 .. Len(read) - mid /\ mid + (i - mid) = i
        BY <1>1, <2>2
      <3>2. 1 + (i - mid) \in 1 .. Len(Compacted(read))
        BY <1>1, <1>6, <3>1
      <3> QED
        BY <1>6, <3>1, <3>2 DEF Merged
    <2> QED
      BY <2>1, <2>2
  <1> QED
    BY <1>1, <1>6, <1>7, <1>8

-----------------------------------------------------------------------------
(* Type correctness *)

\* The records of the handlers keep their types as their program counters move.
LEMMA JoinMoves ==
    ASSUME TypeOK, NEW s \in Session, NEW pc \in {"idle", "add", "enter", "read", "send"},
           NEW state \in SUBSET Edit
    PROVE  /\ [join EXCEPT ![s].pc = pc] \in [Session -> Join]
           /\ [join EXCEPT ![s] = [pc |-> pc, state |-> state]] \in [Session -> Join]
  BY DEF TypeOK, Join

LEMMA LeaveMoves ==
    ASSUME TypeOK, NEW s \in Session,
           NEW pc \in {"idle", "remove", "exit", "users", "clear", "forget"}
    PROVE  [quit EXCEPT ![s]["leave"] = pc] \in [Session -> Quit]
  BY DEF TypeOK, Quit

LEMMA DisconnectMoves ==
    ASSUME TypeOK, NEW s \in Session,
           NEW pc \in {"idle", "scan", "remove", "users", "clear", "forget"}
    PROVE  [quit EXCEPT ![s]["disconnect"] = pc] \in [Session -> Quit]
  BY DEF TypeOK, Quit

LEMMA UpdateMoves ==
    ASSUME TypeOK, NEW e \in Edit,
           NEW pc \in {"none", "append", "count", "read", "write", "emit", "done"}
    PROVE  [update EXCEPT ![e].pc = pc] \in [Edit -> Update]
  BY DEF TypeOK, Update

LEMMA UpdateSent ==
    ASSUME TypeOK, NEW e \in Edit, NEW pc \in {"append", "done"}, NEW by \in SUBSET Session
    PROVE  [update EXCEPT ![e].pc = pc, ![e].by = by] \in [Edit -> Update]
  BY DEF TypeOK, Update

LEMMA UpdateReads ==
    ASSUME TypeOK, NEW e \in Edit, NEW pc \in {"write", "emit"},
           NEW read \in Seq(SUBSET Edit)
    PROVE  [update EXCEPT ![e].pc = pc, ![e].read = read] \in [Edit -> Update]
  BY DEF TypeOK, Update

\* What is merged from a list of updates is a document.
LEMMA MergedType ==
    ASSUME NEW us \in Seq(SUBSET Edit)
    PROVE  Merged(us) \in SUBSET Edit
  BY DEF Merged

LEMMA JoinTyped ==
    ASSUME TypeOK, NEW s \in Session, JoinStep(s) \/ Joins(s) \/ ResendsState(s)
    PROVE  TypeOK'
  <1>1. Merged(updates) \in SUBSET Edit /\ {} \in SUBSET Edit
    BY MergedType DEF TypeOK
  <1>2. join[s].state \in SUBSET Edit
    BY DEF TypeOK, Join
  <1> USE DEF stored, pages
  <1>3. CASE Joins(s)
    <2>1. [client EXCEPT ![s] = "joining"]
            \in [Session -> {"away", "joining", "editing", "left", "gone"}]
      BY DEF TypeOK
    <2> QED
      BY <1>3, <2>1, JoinMoves DEF Joins, JoinGoes, TypeOK
  <1>4. CASE AddsUser(s)
    BY <1>4, JoinMoves DEF AddsUser, JoinGoes, TypeOK
  <1>5. CASE EntersRoom(s)
    BY <1>5, JoinMoves DEF EntersRoom, JoinGoes, TypeOK
  <1>6. CASE ReadsUpdates(s)
    BY <1>1, <1>6, JoinMoves DEF ReadsUpdates, TypeOK
  <1>7. CASE SendsState(s)
    <2>1. [client EXCEPT ![s] = "editing"]
            \in [Session -> {"away", "joining", "editing", "left", "gone"}]
      BY DEF TypeOK
    <2>2. [doc EXCEPT ![s] = @ \cup join[s].state] \in [Session -> SUBSET Edit]
      BY <1>2 DEF TypeOK
    <2> QED
      BY <1>1, <1>7, <2>1, <2>2, JoinMoves DEF SendsState, TypeOK
  <1>8. CASE ResendsState(s)
    BY <1>1, <1>8, JoinMoves DEF ResendsState, TypeOK
  <1> QED
    BY <1>3, <1>4, <1>5, <1>6, <1>7, <1>8 DEF JoinStep

LEMMA UpdateTyped ==
    ASSUME TypeOK, NEW e \in Edit, UpdateStep(e)
    PROVE  TypeOK'
  <1>1. /\ updates \in Seq(SUBSET Edit) /\ {e} \in SUBSET Edit
        /\ update[e].read \in Seq(SUBSET Edit) /\ update[e].by \in SUBSET Session
        /\ <<>> \in Seq(SUBSET Edit) /\ {} \in SUBSET Session
    BY DEF TypeOK, Update
  <1>2. update'  \in [Edit -> Update] /\ UNCHANGED <<users, room, pool, pages, join, quit>>
    <2> USE DEF stored, pages
    <2>1. CASE Appends(e)
      BY <2>1, UpdateMoves DEF Appends, UpdateGoes
    <2>2. CASE Counts(e)
      BY <2>2, UpdateMoves DEF Counts, UpdateGoes
    <2>3. CASE ReadsForCompaction(e)
      <3>1. /\ [update EXCEPT ![e].pc = "emit"] \in [Edit -> Update]
            /\ [update EXCEPT ![e].pc = "write", ![e].read = updates] \in [Edit -> Update]
        BY <1>1, UpdateMoves, UpdateReads
      <3> QED
        BY <2>3, <3>1 DEF ReadsForCompaction, UpdateGoes
    <2>4. CASE Compacts(e)
      BY <1>1, <2>4, UpdateReads DEF Compacts
    <2>5. CASE Emits(e)
      BY <1>1, <2>5, UpdateSent DEF Emits
    <2> QED
      BY <2>1, <2>2, <2>3, <2>4, <2>5 DEF UpdateStep
  <1>3. updates' \in Seq(SUBSET Edit)
    BY <1>1, AppendMerges, CompactionKeeps
    DEF UpdateStep, Appends, Counts, ReadsForCompaction, Compacts, Emits, stored, TypeOK
  <1>4. bus' \in [Edit -> SUBSET Session]
    <2>1. [bus EXCEPT ![e] = Online \ update[e].by] \in [Edit -> SUBSET Session]
      BY DEF TypeOK, Online
    <2> QED
      BY <2>1 DEF UpdateStep, Appends, Counts, ReadsForCompaction, Compacts, Emits, TypeOK
  <1>5. torn' \in BOOLEAN
    <2>1. CASE Appends(e) \/ Compacts(e)
      BY <2>1 DEF Appends, Compacts, Tears, TypeOK
    <2>2. CASE Counts(e) \/ ReadsForCompaction(e) \/ Emits(e)
      BY <2>2 DEF Counts, ReadsForCompaction, Emits, TypeOK
    <2> QED
      BY <2>1, <2>2 DEF UpdateStep
  <1> QED
    BY <1>2, <1>3, <1>4, <1>5 DEF TypeOK, pages

LEMMA QuitTyped ==
    ASSUME TypeOK, NEW s \in Session, QuitStep(s) \/ Leaves(s) \/ Disconnects(s) \/ Reaps(s)
    PROVE  TypeOK'
  <1>1. /\ [client EXCEPT ![s] = "left"] \in [Session -> {"away", "joining", "editing", "left", "gone"}]
        /\ [client EXCEPT ![s] = "gone"] \in [Session -> {"away", "joining", "editing", "left", "gone"}]
        /\ [doc EXCEPT ![s] = {}] \in [Session -> SUBSET Edit]
    BY DEF TypeOK
  <1>2. <<>> \in Seq(SUBSET Edit)
    OBVIOUS
  <1> USE DEF stored, pages
  <1>3. CASE Leaves(s)
    BY <1>1, <1>3, LeaveMoves DEF Leaves, QuitGoes, TypeOK
  <1>4. CASE Disconnects(s)
    <2>1. [e \in Edit |-> bus[e] \ {s}] \in [Edit -> SUBSET Session]
      BY DEF TypeOK
    <2>2. quit' = quit \/ quit' = [quit EXCEPT ![s]["disconnect"] = "scan"]
      BY <1>4 DEF Disconnects, QuitGoes
    <2>3. quit \in [Session -> Quit] /\ [quit EXCEPT ![s]["disconnect"] = "scan"] \in [Session -> Quit]
      BY DisconnectMoves DEF TypeOK
    <2> QED
      BY <1>1, <1>4, <2>1, <2>2, <2>3 DEF Disconnects, TypeOK
  <1>5. CASE Reaps(s)
    BY <1>5 DEF Reaps, handlers, TypeOK
  <1>6. CASE Scans(s)
    BY <1>6, DisconnectMoves DEF Scans, QuitGoes, TypeOK
  <1>7. CASE ExitsRoom(s)
    BY <1>7, LeaveMoves DEF ExitsRoom, QuitGoes, TypeOK
  <1>8. ASSUME NEW h \in Handler,
               RemovesUser(s, h) \/ ChecksUsers(s, h) \/ ClearsUpdates(s, h) \/ ClearsUsers(s, h)
        PROVE  TypeOK'
    <2>1. ASSUME NEW pc \in {"idle", "users", "clear", "forget"}
          PROVE  [quit EXCEPT ![s][h] = pc] \in [Session -> Quit]
      BY <2>1, LeaveMoves, DisconnectMoves DEF Handler
    <2>2. CASE RemovesUser(s, h)
      BY <1>8, <2>1, <2>2, LeaveMoves DEF RemovesUser, QuitGoes, Handler, TypeOK
    <2>3. CASE ChecksUsers(s, h)
      BY <2>1, <2>3 DEF ChecksUsers, QuitGoes, TypeOK
    <2>4. CASE ClearsUpdates(s, h) \/ ClearsUsers(s, h)
      <3>1. quit' \in [Session -> Quit] /\ updates' \in Seq(SUBSET Edit)
        BY <1>2, <2>1, <2>4 DEF ClearsUpdates, ClearsUsers, QuitGoes, TypeOK
      <3>2. torn' \in BOOLEAN
        BY <2>4 DEF ClearsUpdates, ClearsUsers, Tears, TypeOK
      <3> QED
        BY <2>4, <3>1, <3>2 DEF ClearsUpdates, ClearsUsers, TypeOK
    <2> QED
      BY <1>8, <2>2, <2>3, <2>4
  <1> QED
    BY <1>3, <1>4, <1>5, <1>6, <1>7, <1>8 DEF QuitStep

LEMMA TypeStep == TypeOK /\ [Next]_vars => TypeOK'
  <1> SUFFICES ASSUME TypeOK, [Next]_vars PROVE TypeOK'
    OBVIOUS
  <1>1. ASSUME NEW s \in Session, Edits(s)
        PROVE  TypeOK'
    <2> PICK e \in Edit : /\ doc' = [doc EXCEPT ![s] = @ \cup {e}]
                          /\ update' = [update EXCEPT ![e].pc = "append", ![e].by = {s}]
      BY <1>1 DEF Edits
    <2>1. doc' \in [Session -> SUBSET Edit]
      BY DEF TypeOK
    <2>2. update' \in [Edit -> Update]
      BY {s} \in SUBSET Session, UpdateSent
    <2> QED
      BY <1>1, <2>1, <2>2 DEF Edits, TypeOK, stored
  <1>2. ASSUME NEW e \in Edit, NEW s \in Session, Routes(e, s)
        PROVE  TypeOK'
    <2>1. [bus EXCEPT ![e] = @ \ {s}] \in [Edit -> SUBSET Session]
      BY DEF TypeOK
    <2>2. [doc EXCEPT ![s] = @ \cup {e}] \in [Session -> SUBSET Edit]
      BY DEF TypeOK
    <2> QED
      BY <1>2, <2>1, <2>2 DEF Routes, stored, handlers, TypeOK
  <1>3. CASE UNCHANGED vars
    BY <1>3 DEF vars, stored, pages, handlers, TypeOK
  <1> QED
    BY <1>1, <1>2, <1>3, JoinTyped, UpdateTyped, QuitTyped DEF Next, PageStep

\* Every variable keeps its type.
THEOREM TypeCorrect == Spec => []TypeOK
  <1>1. Init => TypeOK
    <2> SUFFICES ASSUME Init PROVE TypeOK
      OBVIOUS
    <2>1. join \in [Session -> Join] /\ quit \in [Session -> Quit]
      BY DEF Init, Join, Quit
    <2>2. update \in [Edit -> Update]
      <3>1. <<>> \in Seq(SUBSET Edit)
        OBVIOUS
      <3> QED
        BY <3>1 DEF Init, Update
    <2>3. /\ updates \in Seq(SUBSET Edit)
          /\ client \in [Session -> {"away", "joining", "editing", "left", "gone"}]
          /\ doc \in [Session -> SUBSET Edit] /\ bus \in [Edit -> SUBSET Session]
      BY DEF Init
    <2> QED
      BY <2>1, <2>2, <2>3 DEF Init, TypeOK
  <1> QED
    BY <1>1, TypeStep, PTL DEF Spec

-----------------------------------------------------------------------------
(* What a step does to the records of the handlers *)

LEMMA JoinGoing ==
    ASSUME TypeOK, NEW s \in Session, NEW pc, JoinGoes(s, pc), NEW t \in Session
    PROVE  /\ join'[t].state = join[t].state
           /\ join'[t].pc = IF t = s THEN pc ELSE join[t].pc
  BY DEF TypeOK, Join, JoinGoes

LEMMA QuitGoing ==
    ASSUME TypeOK, NEW s \in Session, NEW h \in Handler, NEW pc, QuitGoes(s, h, pc),
           NEW t \in Session
    PROVE  /\ quit'[t].leave = IF t = s /\ h = "leave" THEN pc ELSE quit[t].leave
           /\ quit'[t].disconnect
                = IF t = s /\ h = "disconnect" THEN pc ELSE quit[t].disconnect
  <1>1. CASE h = "leave"
    BY <1>1 DEF TypeOK, Quit, QuitGoes
  <1>2. CASE h = "disconnect"
    BY <1>2 DEF TypeOK, Quit, QuitGoes
  <1> QED
    BY <1>1, <1>2 DEF Handler

LEMMA UpdateGoing ==
    ASSUME TypeOK, NEW e \in Edit, NEW pc, UpdateGoes(e, pc), NEW f \in Edit
    PROVE  /\ update'[f].by = update[f].by
           /\ update'[f].read = update[f].read
           /\ update'[f].pc = IF f = e THEN pc ELSE update[f].pc
  BY DEF TypeOK, Update, UpdateGoes

\* The step of a session that joins or is at its page, ...
JoinMove(s) == Joins(s) \/ ResendsState(s) \/ JoinStep(s)

\* ... of one that leaves, and of an update.
QuitMove(s) == Leaves(s) \/ Disconnects(s) \/ Reaps(s) \/ QuitStep(s)

\* The cases of a step.
LEMMA StepCases ==
    ASSUME [Next]_vars
    PROVE  \/ \E s \in Session : JoinMove(s) \/ QuitMove(s) \/ Edits(s)
           \/ \E e \in Edit : UpdateStep(e) \/ \E s \in Session : Routes(e, s)
           \/ UNCHANGED vars
  BY DEF Next, PageStep, JoinMove, QuitMove

-----------------------------------------------------------------------------
(* The inductive invariant *)

Using(s) == client[s] \in {"joining", "editing"}
Parted(s) == client[s] \in {"left", "gone"}

\* Handlers of leaving run for those who have left.
Departed ==
    \A s \in Session : /\ quit[s].leave # "idle" => Parted(s)
                       /\ quit[s].disconnect # "idle" => client[s] = "gone"

\* Who uses the document has entered its room, or has nothing of it yet.
Placed(s) ==
    /\ client[s] = "away" => JoinAt(s, "idle")
    /\ client[s] = "away" \/ JoinAt(s, "add") =>
         doc[s] = {} /\ join[s].state = {} /\ s \notin room
    /\ Using(s) => JoinAt(s, "add") \/ JoinAt(s, "enter") \/ s \in room
    /\ client[s] = "editing" => JoinAt(s, "idle") \/ JoinAt(s, "send")
Places == \A s \in Session : Placed(s)

\* The author of an update that is not yet published has it.
Authored ==
    \A e \in Edit : \A s \in update[e].by :
      (client[s] = "editing" /\ e \in doc[s]) \/ Parted(s)

\* A compaction rewrites more than one update.
Compactable == \A e \in Edit : UpdateAt(e, "write") => Len(update[e].read) > 1

\* Every user is recorded, and what a user has or will get is stored.
Recorded ==
    /\ \A s \in Session : Using(s) =>
         /\ JoinAt(s, "add") \/ s \in users
         /\ join[s].state \subseteq Merged(updates)
         /\ \A e \in doc[s] : e \in Merged(updates) \/ UpdateAt(e, "append")
    /\ \A e \in Edit : Broadcasting(e) => e \in Merged(updates)

\* What is stored is known to who uses the document, or under way.
InHand(e) == update[e].pc \in {"count", "read", "write", "emit"}
Reached(s) ==
    \A e \in Merged(updates) :
      e \in doc[s] \cup join[s].state \/ (s \in bus[e] /\ s \in room) \/ InHand(e)
Told(s) == client[s] = "editing" \/ (client[s] = "joining" /\ JoinAt(s, "send"))
Delivered == \A s \in Session : Told(s) => Reached(s)

\* When the last user was removed, a handler is on its way to clear the list.
Clears(s) == \/ quit[s].leave \in {"exit", "users", "clear"}
             \/ quit[s].disconnect \in {"users", "clear"}
Clearing == users = {} /\ updates # <<>> => \E s \in Session : Clears(s)

-----------------------------------------------------------------------------
(* Departed *)

LEMMA DepartedKept ==
    ASSUME TypeOK, Departed, [Next]_vars
    PROVE  Departed'
  <1> USE DEF stored, pages, handlers
  <1>1. ASSUME NEW s \in Session, JoinMove(s)
        PROVE  Departed'
    <2>1. quit' = quit /\ \A t \in Session : client[t] \in {"left", "gone"} => client'[t] = client[t]
      BY <1>1 DEF JoinMove, JoinStep, Joins, ResendsState, AddsUser, EntersRoom, ReadsUpdates,
                  SendsState, TypeOK
    <2> QED
      BY <2>1 DEF Departed, Parted
  <1>2. ASSUME NEW s \in Session, Edits(s)
        PROVE  Departed'
    BY <1>2 DEF Edits, Departed, Parted
  <1>3. ASSUME NEW e \in Edit, UpdateStep(e)
        PROVE  Departed'
    BY <1>3 DEF UpdateStep, Appends, Counts, ReadsForCompaction, Compacts, Emits, Departed,
                Parted
  <1>4. ASSUME NEW e \in Edit, NEW s \in Session, Routes(e, s)
        PROVE  Departed'
    BY <1>4 DEF Routes, Departed, Parted
  <1>5. CASE UNCHANGED vars
    BY <1>5 DEF vars, Departed, Parted
  <1>6. ASSUME NEW s \in Session, Leaves(s) \/ Disconnects(s) \/ Reaps(s)
        PROVE  Departed'
    <2>1. CASE Leaves(s)
      <3>1. \A t \in Session : client'[t] = IF t = s THEN "left" ELSE client[t]
        BY <2>1 DEF Leaves, TypeOK
      <3>2. client[s] # "gone" /\ "leave" \in Handler
        BY <2>1 DEF Leaves, Handler
      <3> QED
        BY <2>1, <3>1, <3>2, QuitGoing DEF Leaves, Departed, Parted
    <2>2. CASE Disconnects(s)
      <3>1. \A t \in Session : client'[t] = IF t = s THEN "gone" ELSE client[t]
        BY <2>2 DEF Disconnects, TypeOK
      <3>2. "disconnect" \in Handler
        BY DEF Handler
      <3> QED
        BY <2>2, <3>1, <3>2, QuitGoing DEF Disconnects, Departed, Parted
    <2>3. CASE Reaps(s)
      BY <2>3 DEF Reaps, Departed, Parted
    <2> QED
      BY <1>6, <2>1, <2>2, <2>3
  <1>7. ASSUME NEW s \in Session, QuitStep(s)
        PROVE  Departed'
    <2>1. ASSUME NEW h \in Handler, NEW pc, quit[s][h] # "idle", QuitGoes(s, h, pc),
                 client' = client
          PROVE  Departed'
      <3>1. CASE h = "leave"
        BY <2>1, <3>1, QuitGoing DEF Departed, Parted
      <3>2. CASE h = "disconnect"
        BY <2>1, <3>2, QuitGoing DEF Departed, Parted
      <3> QED
        BY <3>1, <3>2 DEF Handler
    <2>2. CASE Scans(s)
      BY <2>1, <2>2 DEF Scans, QuitAt, Handler
    <2>3. CASE ExitsRoom(s)
      BY <2>1, <2>3 DEF ExitsRoom, QuitAt, Handler
    <2>4. ASSUME NEW h \in Handler,
                 RemovesUser(s, h) \/ ChecksUsers(s, h) \/ ClearsUpdates(s, h) \/ ClearsUsers(s, h)
          PROVE  Departed'
      BY <2>1, <2>4 DEF RemovesUser, ChecksUsers, ClearsUpdates, ClearsUsers, QuitAt
    <2> QED
      BY <1>7, <2>2, <2>3, <2>4 DEF QuitStep
  <1> QED
    BY <1>1, <1>2, <1>3, <1>4, <1>5, <1>6, <1>7, StepCases DEF QuitMove

-----------------------------------------------------------------------------
(* What a step of one who leaves may change *)

LEMMA QuitFrame ==
    ASSUME TypeOK, Departed, NEW s \in Session, QuitMove(s)
    PROVE  /\ UNCHANGED <<join, update>> /\ (torn => torn')
           /\ \A t \in Session :
                /\ client'[t] = client[t] \/ (Parted(t)' /\ client[t] # "gone")
                /\ doc'[t] = doc[t] \/ (Parted(t)' /\ doc'[t] = {})
                /\ t \in room' => t \in room
                /\ t \in room => t \in room' \/ Parted(t)'
                /\ t \in users => t \in users' \/ Parted(t)' \/ torn'
                /\ \A e \in Edit : t \in bus[e] => t \in bus'[e] \/ Parted(t)'
           /\ \A e \in Edit : bus'[e] \subseteq bus[e]
           /\ \/ updates' = updates
              \/ updates' = <<>> /\ (torn' \/ (users = {} /\ \A e \in Edit : ~Broadcasting(e)))
  <1> USE DEF stored, pages, handlers, Parted
  <1>1. CASE Leaves(s)
    BY <1>1 DEF Leaves, TypeOK
  <1>2. CASE Disconnects(s)
    <2>1. /\ UNCHANGED <<join, update, updates, users, torn>>
          /\ \A t \in Session : client'[t] = IF t = s THEN "gone" ELSE client[t]
          /\ \A t \in Session : doc'[t] = IF t = s THEN {} ELSE doc[t]
          /\ room' = room \ {s} /\ client[s] # "gone"
          /\ \A e \in Edit : bus'[e] = bus[e] \ {s}
      BY <1>2 DEF Disconnects, TypeOK
    <2> QED
      BY <2>1
  <1>3. CASE Reaps(s) \/ Scans(s)
    BY <1>3 DEF Reaps, Scans, TypeOK
  <1>4. CASE ExitsRoom(s)
    <2>1. client[s] \in {"left", "gone"}
      BY <1>4 DEF ExitsRoom, QuitAt, Departed
    <2> QED
      BY <1>4, <2>1 DEF ExitsRoom
  <1>5. ASSUME NEW h \in Handler, RemovesUser(s, h)
        PROVE  client[s] \in {"left", "gone"} /\ users' = users \ {s}
               /\ UNCHANGED <<updates, room, pool, pages, join, update, bus, torn>>
    BY <1>5 DEF RemovesUser, QuitAt, Departed, Handler
  <1>6. ASSUME NEW h \in Handler, ChecksUsers(s, h)
        PROVE  UNCHANGED <<stored, room, pool, pages, join, update, bus, torn>>
    BY <1>6 DEF ChecksUsers
  <1>7. ASSUME NEW h \in Handler, ClearsUpdates(s, h)
        PROVE  /\ UNCHANGED <<users, room, pool, pages, join, update, bus>>
               /\ updates' = <<>> /\ (torn => torn')
               /\ torn' \/ (users = {} /\ \A e \in Edit : ~Broadcasting(e))
    BY <1>7 DEF ClearsUpdates, Tears
  <1>8. ASSUME NEW h \in Handler, ClearsUsers(s, h)
        PROVE  /\ UNCHANGED <<updates, room, pool, pages, join, update, bus>>
               /\ (torn => torn') /\ (users = {} \/ torn')
    BY <1>8 DEF ClearsUsers, Tears
  <1> QED
    BY <1>1, <1>2, <1>3, <1>4, <1>5, <1>6, <1>7, <1>8 DEF QuitMove, QuitStep

\* A step of one who joins, and of one who edits, concerns nobody else.
LEMMA JoinFrame ==
    ASSUME TypeOK, NEW s \in Session, JoinMove(s)
    PROVE  /\ UNCHANGED <<updates, pool, quit, update, bus, torn>>
           /\ users \subseteq users' /\ room \subseteq room'
           /\ \A t \in Session \ {s} : /\ client'[t] = client[t] /\ doc'[t] = doc[t]
                                       /\ join'[t] = join[t] /\ (t \in room' => t \in room)
  BY DEF JoinMove, JoinStep, Joins, ResendsState, AddsUser, EntersRoom, ReadsUpdates,
         SendsState, JoinGoes, TypeOK, stored, pages

LEMMA EditFrame ==
    ASSUME TypeOK, NEW s \in Session, Edits(s)
    PROVE  /\ UNCHANGED <<stored, room, pool, client, join, quit, bus, torn>>
           /\ client[s] = "editing"
           /\ \E e \in Edit :
                /\ UpdateAt(e, "none")
                /\ \A t \in Session : doc'[t] = IF t = s THEN doc[t] \cup {e} ELSE doc[t]
                /\ \A f \in Edit : update'[f] = IF f = e THEN update'[e] ELSE update[f]
                /\ update'[e].pc = "append" /\ update'[e].by = {s}
  <1> PICK e \in Edit : /\ UpdateAt(e, "none")
                        /\ doc' = [doc EXCEPT ![s] = @ \cup {e}]
                        /\ update' = [update EXCEPT ![e].pc = "append", ![e].by = {s}]
    BY DEF Edits
  <1>1. /\ \A f \in Edit : update'[f] = IF f = e THEN update'[e] ELSE update[f]
        /\ update'[e].pc = "append" /\ update'[e].by = {s}
    BY DEF TypeOK, Update
  <1>2. \A t \in Session : doc'[t] = IF t = s THEN doc[t] \cup {e} ELSE doc[t]
    BY DEF TypeOK
  <1> QED
    BY <1>1, <1>2 DEF Edits

\* A step of an update: the list keeps what it merges, or another job is torn,
\* and the update is stored by the time it is published.
LEMMA UpdateFrame ==
    ASSUME TypeOK, Compactable, NEW e \in Edit, UpdateStep(e)
    PROVE  /\ UNCHANGED <<users, room, pool, pages, join, quit>> /\ (torn => torn')
           /\ \A f \in Edit : /\ f # e => update'[f] = update[f] /\ bus'[f] = bus[f]
                              /\ bus[f] \subseteq bus'[f] \/ UpdateAt(e, "emit")
           /\ update'[e].by \subseteq update[e].by
           /\ \/ Appends(e) /\ Merged(updates') = Merged(updates) \cup {e} /\ bus' = bus
              \/ ~Appends(e) /\ InHand(e) /\ (Merged(updates') = Merged(updates) \/ torn')
           /\ \/ InHand(e)' /\ bus' = bus
              \/ Emits(e) /\ bus'[e] = Online \ update[e].by
  <1> USE DEF stored, pages, InHand
  <1>1. CASE Appends(e)
    <2>1. Merged(updates') = Merged(updates) \cup {e}
      BY <1>1, AppendMerges DEF Appends, TypeOK
    <2>2. \A f \in Edit : f # e => update'[f] = update[f]
      BY <1>1 DEF Appends, UpdateGoes, TypeOK
    <2> QED
      BY <1>1, <2>1, <2>2, UpdateGoing DEF Appends, Tears
  <1>2. CASE Counts(e)
    <2>1. \A f \in Edit : f # e => update'[f] = update[f]
      BY <1>2 DEF Counts, UpdateGoes, TypeOK
    <2> QED
      BY <1>2, <2>1, UpdateGoing DEF Counts, Appends, UpdateAt
  <1>3. CASE ReadsForCompaction(e)
    <2>1. \A f \in Edit : f # e => update'[f] = update[f]
      BY <1>3 DEF ReadsForCompaction, UpdateGoes, TypeOK
    <2>2. update'[e].pc \in {"write", "emit"} /\ update'[e].by = update[e].by
      BY <1>3 DEF ReadsForCompaction, UpdateGoes, TypeOK, Update
    <2> QED
      BY <1>3, <2>1, <2>2 DEF ReadsForCompaction, Appends, UpdateAt
  <1>4. CASE Compacts(e)
    <2>1. \A f \in Edit : f # e => update'[f] = update[f]
      BY <1>4 DEF Compacts, TypeOK
    <2>2. update'[e].pc = "emit" /\ update'[e].by = update[e].by
      BY <1>4 DEF Compacts, TypeOK, Update
    <2>3. Merged(updates') = Merged(updates) \/ torn'
      BY <1>4, CompactionKeeps DEF Compacts, Tears, TypeOK
    <2> QED
      BY <1>4, <2>1, <2>2, <2>3 DEF Compacts, Appends, UpdateAt, Tears
  <1>5. CASE Emits(e)
    <2>1. \A f \in Edit : f # e => update'[f] = update[f] /\ bus'[f] = bus[f]
      BY <1>5 DEF Emits, TypeOK
    <2>2. update'[e].by = {} /\ bus'[e] = Online \ update[e].by
      BY <1>5 DEF Emits, TypeOK, Update
    <2> QED
      BY <1>5, <2>1, <2>2 DEF Emits, Appends, UpdateAt
  <1> QED
    BY <1>1, <1>2, <1>3, <1>4, <1>5 DEF UpdateStep

LEMMA RouteFrame ==
    ASSUME TypeOK, NEW e \in Edit, NEW s \in Session, Routes(e, s)
    PROVE  /\ UNCHANGED <<stored, room, pool, client, handlers, torn>> /\ s \in bus[e]
           /\ \A f \in Edit : bus'[f] = IF f = e THEN bus[f] \ {s} ELSE bus[f]
           /\ \A t \in Session : doc'[t] = IF t = s /\ s \in room /\ Using(s)
                                           THEN doc[t] \cup {e} ELSE doc[t]
           /\ \A f \in Edit : bus'[f] \subseteq bus[f]
           /\ \A t \in Session : doc[t] \subseteq doc'[t] /\ doc'[t] \subseteq doc[t] \cup {e}
  <1>1. /\ UNCHANGED <<stored, room, pool, client, handlers, torn>> /\ s \in bus[e]
        /\ \A f \in Edit : bus'[f] = IF f = e THEN bus[f] \ {s} ELSE bus[f]
        /\ \A t \in Session : doc'[t] = IF t = s /\ s \in room /\ Using(s)
                                        THEN doc[t] \cup {e} ELSE doc[t]
    BY DEF Routes, Using, TypeOK
  <1>2. \A f \in Edit : bus'[f] \subseteq bus[f]
    BY <1>1
  <1>3. \A t \in Session : doc[t] \subseteq doc'[t] /\ doc'[t] \subseteq doc[t] \cup {e}
    BY <1>1
  <1> QED
    BY <1>1, <1>2, <1>3

-----------------------------------------------------------------------------
(* Places, and what an author has *)

LEMMA PlacesKept ==
    ASSUME TypeOK, Departed, Places, Compactable, [Next]_vars
    PROVE  Places'
  <1> SUFFICES ASSUME NEW t \in Session PROVE Placed(t)'
    BY DEF Places
  <1> USE DEF stored, pages, handlers, JoinAt, Using, Parted, Placed
  <1>0. Placed(t)
    BY DEF Places
  <1>1. ASSUME NEW s \in Session, JoinMove(s), t # s
        PROVE  Placed(t)'
    BY <1>0, <1>1, JoinFrame
  <1>2. CASE Joins(t)
    <2>1. client'[t] = "joining" /\ UNCHANGED <<doc, room>>
      BY <1>2 DEF Joins, TypeOK
    <2> QED
      BY <1>0, <1>2, <2>1, JoinGoing DEF Joins
  <1>3. CASE AddsUser(t)
    BY <1>0, <1>3, JoinGoing DEF AddsUser
  <1>4. CASE EntersRoom(t)
    BY <1>0, <1>4, JoinGoing DEF EntersRoom
  <1>5. CASE ReadsUpdates(t)
    <2>1. join'[t] = [pc |-> "send", state |-> Merged(updates)]
      BY <1>5 DEF ReadsUpdates, TypeOK
    <2> QED
      BY <1>0, <1>5, <2>1 DEF ReadsUpdates
  <1>6. CASE SendsState(t)
    <2>1. join'[t] = [pc |-> "idle", state |-> {}]
      BY <1>6 DEF SendsState, TypeOK
    <2>2. client'[t] = IF Using(t) THEN "editing" ELSE client[t]
      BY <1>6 DEF SendsState, TypeOK
    <2>3. ~Using(t) => doc'[t] = doc[t]
      BY <1>6 DEF SendsState
    <2> QED
      BY <1>0, <1>6, <2>1, <2>2, <2>3 DEF SendsState
  <1>7. CASE ResendsState(t)
    <2>1. join'[t] = [pc |-> "send", state |-> Merged(updates)]
      BY <1>7 DEF ResendsState, TypeOK
    <2> QED
      BY <1>0, <1>7, <2>1 DEF ResendsState
  <1>8. ASSUME NEW s \in Session, QuitMove(s)
        PROVE  Placed(t)'
    BY <1>0, <1>8, QuitFrame
  <1>9. ASSUME NEW s \in Session, Edits(s)
        PROVE  Placed(t)'
    BY <1>0, <1>9, EditFrame
  <1>10. ASSUME NEW e \in Edit, UpdateStep(e)
         PROVE  Placed(t)'
    BY <1>0, <1>10, UpdateFrame
  <1>11. ASSUME NEW e \in Edit, NEW s \in Session, Routes(e, s)
         PROVE  Placed(t)'
    BY <1>0, <1>11, RouteFrame
  <1>12. CASE UNCHANGED vars
    BY <1>0, <1>12 DEF vars
  <1> QED
    BY <1>1, <1>2, <1>3, <1>4, <1>5, <1>6, <1>7, <1>8, <1>9, <1>10, <1>11, <1>12, StepCases
    DEF JoinMove, JoinStep

LEMMA AuthoredKept ==
    ASSUME TypeOK, Departed, Compactable, Authored, [Next]_vars
    PROVE  Authored'
  <1> USE DEF stored, pages, handlers, Parted
  <1>1. /\ \A f \in Edit : update[f].by \subseteq Session
        /\ \A f \in Edit, t \in Session : t \in update[f].by =>
             (client[t] = "editing" /\ f \in doc[t]) \/ Parted(t)
    BY DEF TypeOK, Update, Authored
  <1> SUFFICES ASSUME NEW f \in Edit, NEW t \in Session, t \in update'[f].by
               PROVE  (client'[t] = "editing" /\ f \in doc'[t]) \/ Parted(t)'
    <2>1. TypeOK'
      BY TypeStep
    <2> QED
      BY <2>1 DEF Authored, TypeOK, Update
  <1> HIDE DEF Parted
  <1>2. ASSUME NEW s \in Session, JoinMove(s)
        PROVE  (client'[t] = "editing" /\ f \in doc'[t]) \/ Parted(t)'
    <2>1. /\ update' = update
          /\ Parted(t) => client'[t] = client[t]
          /\ client[t] = "editing" => client'[t] = "editing" /\ doc[t] \subseteq doc'[t]
      BY <1>2 DEF JoinMove, JoinStep, Joins, ResendsState, AddsUser, EntersRoom, ReadsUpdates,
                  SendsState, TypeOK, Parted
    <2> QED
      BY <1>1, <2>1 DEF Parted
  <1>3. ASSUME NEW s \in Session, QuitMove(s)
        PROVE  (client'[t] = "editing" /\ f \in doc'[t]) \/ Parted(t)'
    BY <1>1, <1>3, QuitFrame DEF Parted
  <1>4. ASSUME NEW s \in Session, Edits(s)
        PROVE  (client'[t] = "editing" /\ f \in doc'[t]) \/ Parted(t)'
    <2>1. /\ client' = client /\ doc[t] \subseteq doc'[t]
          /\ \/ update'[f].by = {s} /\ f \in doc'[s] /\ client[s] = "editing"
             \/ update'[f] = update[f]
      BY <1>4, EditFrame
    <2> QED
      BY <1>1, <2>1 DEF Parted
  <1>5. ASSUME NEW e \in Edit, UpdateStep(e)
        PROVE  (client'[t] = "editing" /\ f \in doc'[t]) \/ Parted(t)'
    BY <1>1, <1>5, UpdateFrame DEF Parted
  <1>6. ASSUME NEW e \in Edit, NEW s \in Session, Routes(e, s)
        PROVE  (client'[t] = "editing" /\ f \in doc'[t]) \/ Parted(t)'
    <2>1. client' = client /\ doc[t] \subseteq doc'[t] /\ update' = update
      BY <1>6, RouteFrame
    <2> QED
      BY <1>1, <2>1 DEF Parted
  <1>7. CASE UNCHANGED vars
    BY <1>1, <1>7 DEF vars, Parted
  <1> QED
    BY <1>2, <1>3, <1>4, <1>5, <1>6, <1>7, StepCases

LEMMA CompactableKept ==
    ASSUME TypeOK, Departed, Compactable, [Next]_vars
    PROVE  Compactable'
  <1> SUFFICES ASSUME NEW f \in Edit, update'[f].pc = "write"
               PROVE  Len(update'[f].read) > 1
    BY DEF Compactable, UpdateAt
  <1>1. ASSUME update'[f] = update[f]
        PROVE  Len(update'[f].read) > 1
    BY <1>1 DEF Compactable, UpdateAt
  <1>2. CASE UpdateStep(f)
    <2>1. CASE ReadsForCompaction(f)
      BY <2>1 DEF ReadsForCompaction, UpdateGoes, TypeOK, Update
    <2>2. CASE ~ReadsForCompaction(f)
      <3>1. update'[f].pc \in {"count", "read", "emit", "done"}
        BY <1>2, <2>2 DEF UpdateStep, Appends, Counts, Compacts, Emits, UpdateGoes, TypeOK, Update
      <3> QED
        BY <3>1
    <2> QED
      BY <2>1, <2>2
  <1>3. ASSUME NEW e \in Edit, e # f, UpdateStep(e)
        PROVE  update'[f] = update[f]
    BY <1>3, UpdateFrame
  <1>4. ASSUME NEW s \in Session, JoinMove(s) \/ QuitMove(s)
        PROVE  update'[f] = update[f]
    BY <1>4, JoinFrame, QuitFrame
  <1>5. ASSUME NEW s \in Session, Edits(s)
        PROVE  update'[f] = update[f]
    BY <1>5, EditFrame
  <1>6. ASSUME NEW e \in Edit, NEW s \in Session, Routes(e, s)
        PROVE  update'[f] = update[f]
    BY <1>6, RouteFrame DEF handlers
  <1>7. CASE UNCHANGED vars
    BY <1>1, <1>7 DEF vars, handlers
  <1> QED
    BY <1>1, <1>2, <1>3, <1>4, <1>5, <1>6, <1>7, StepCases

-----------------------------------------------------------------------------
(* What a user has, and what is broadcast, is stored *)

\* What Recorded says of one session and of one update.
RecordedOf(s) ==
    Using(s) => /\ JoinAt(s, "add") \/ s \in users
                /\ join[s].state \subseteq Merged(updates)
                /\ \A e \in doc[s] : e \in Merged(updates) \/ UpdateAt(e, "append")
StoredOf(e) == InHand(e) \/ bus[e] # {} => e \in Merged(updates)

LEMMA RecordedParts ==
    /\ Recorded <=> (\A s \in Session : RecordedOf(s)) /\ (\A e \in Edit : StoredOf(e))
    /\ Recorded' <=> (\A s \in Session : RecordedOf(s)') /\ (\A e \in Edit : StoredOf(e)')
  <1>1. /\ \A e \in Edit : Broadcasting(e) <=> InHand(e) \/ bus[e] # {}
        /\ \A e \in Edit : Broadcasting(e)' <=> InHand(e)' \/ bus'[e] # {}
    BY DEF Broadcasting, InHand
  <1> QED
    BY <1>1 DEF Recorded, RecordedOf, StoredOf

LEMMA RecordedByJoin ==
    ASSUME TypeOK, Places, Recorded, NEW s \in Session, JoinMove(s)
    PROVE  RecordedOf(s)'
  <1> USE DEF stored, pages, Using, JoinAt, UpdateAt
  <1>1. RecordedOf(s) /\ Placed(s)
    BY RecordedParts DEF Places
  <1>2. UNCHANGED <<updates, update>> /\ users \subseteq users'
    BY JoinFrame
  <1> SUFFICES ASSUME Using(s)'
               PROVE  /\ JoinAt(s, "add")' \/ s \in users'
                      /\ join'[s].state \subseteq Merged(updates)
                      /\ \A e \in doc'[s] : e \in Merged(updates) \/ UpdateAt(e, "append")
    BY <1>2 DEF RecordedOf
  <1>3. CASE Joins(s)
    BY <1>1, <1>3, JoinGoing DEF Joins, Placed
  <1>4. CASE AddsUser(s)
    BY <1>1, <1>4, JoinGoing DEF AddsUser, RecordedOf
  <1>5. CASE EntersRoom(s)
    BY <1>1, <1>5, JoinGoing DEF EntersRoom, RecordedOf
  <1>6. CASE ReadsUpdates(s) \/ ResendsState(s)
    <2>1. join'[s] = [pc |-> "send", state |-> Merged(updates)] /\ ~JoinAt(s, "add")
      BY <1>6 DEF ReadsUpdates, ResendsState, TypeOK
    <2> QED
      BY <1>1, <1>2, <1>6, <2>1 DEF ReadsUpdates, ResendsState, RecordedOf
  <1>7. CASE SendsState(s)
    <2>1. join'[s].state = {} /\ ~JoinAt(s, "add") /\ Using(s)
      BY <1>7 DEF SendsState, TypeOK
    <2>2. doc'[s] = doc[s] \cup join[s].state
      BY <1>7, <2>1 DEF SendsState, TypeOK
    <2> QED
      BY <1>1, <1>2, <2>1, <2>2 DEF RecordedOf
  <1> QED
    BY <1>3, <1>4, <1>5, <1>6, <1>7 DEF JoinMove, JoinStep

LEMMA RecordedKept ==
    ASSUME TypeOK, Departed, Places, Compactable, Recorded, [Next]_vars, ~torn'
    PROVE  Recorded'
  <1>0. /\ \A t \in Session : RecordedOf(t) /\ Placed(t)
        /\ \A f \in Edit : StoredOf(f)
    BY RecordedParts DEF Places
  <1> SUFFICES /\ \A t \in Session : RecordedOf(t)'
               /\ \A f \in Edit : StoredOf(f)'
    BY RecordedParts
  <1> USE DEF stored, pages, handlers, Using, JoinAt, UpdateAt
  <1>1. ASSUME NEW s \in Session, JoinMove(s)
        PROVE  /\ \A t \in Session : RecordedOf(t)'
               /\ \A f \in Edit : StoredOf(f)'
    <2>1. ASSUME NEW t \in Session, t # s
          PROVE  RecordedOf(t)'
      BY <1>0, <1>1, <2>1, JoinFrame DEF RecordedOf
    <2> QED
      BY <1>0, <1>1, <2>1, JoinFrame, RecordedByJoin DEF StoredOf, InHand
  <1>2. ASSUME NEW s \in Session, QuitMove(s)
        PROVE  /\ \A t \in Session : RecordedOf(t)'
               /\ \A f \in Edit : StoredOf(f)'
    <2>1. \A t \in Session : Using(t)' =>
            /\ Using(t) /\ doc'[t] = doc[t] /\ join'[t] = join[t]
            /\ t \in users => t \in users'
      BY <1>2, QuitFrame DEF Parted
    <2>2. \A f \in Edit : update'[f] = update[f] /\ bus'[f] \subseteq bus[f]
      BY <1>2, QuitFrame
    <2>3. CASE updates' = updates
      <3>1. ASSUME NEW t \in Session
            PROVE  RecordedOf(t)'
        BY <1>0, <2>1, <2>3, QuitFrame, <1>2 DEF RecordedOf
      <3>2. \A f \in Edit : StoredOf(f)'
        BY <1>0, <2>2, <2>3 DEF StoredOf, InHand
      <3> QED
        BY <3>1, <3>2
    <2>4. CASE users = {} /\ \A f \in Edit : ~Broadcasting(f)
      <3>1. \A t \in Session : Using(t) => doc[t] = {} /\ join[t].state = {} /\ JoinAt(t, "add")
        BY <1>0, <2>4 DEF RecordedOf, Placed
      <3>2. \A f \in Edit : ~InHand(f) /\ bus[f] = {}
        BY <2>4 DEF Broadcasting, InHand
      <3> QED
        BY <2>1, <2>2, <3>1, <3>2 DEF RecordedOf, StoredOf, InHand
    <2> QED
      BY <1>2, <2>3, <2>4, QuitFrame
  <1>3. ASSUME NEW s \in Session, Edits(s)
        PROVE  /\ \A t \in Session : RecordedOf(t)'
               /\ \A f \in Edit : StoredOf(f)'
    <2> PICK e \in Edit :
          /\ UpdateAt(e, "none")
          /\ \A t \in Session : doc'[t] = IF t = s THEN doc[t] \cup {e} ELSE doc[t]
          /\ \A f \in Edit : update'[f] = IF f = e THEN update'[e] ELSE update[f]
          /\ update'[e].pc = "append"
      BY <1>3, EditFrame
    <2>1. UNCHANGED <<updates, users, client, join, bus>>
      BY <1>3, EditFrame
    <2>2. \A t \in Session : doc[t] \subseteq Edit
      BY DEF TypeOK
    <2>3. \A f \in Edit : UpdateAt(f, "append") => UpdateAt(f, "append")'
      OBVIOUS
    <2>4. \A t \in Session : RecordedOf(t)'
      BY <1>0, <2>1, <2>2, <2>3 DEF RecordedOf
    <2> QED
      BY <1>0, <2>1, <2>4 DEF StoredOf, InHand
  <1>4. ASSUME NEW e \in Edit, UpdateStep(e)
        PROVE  /\ \A t \in Session : RecordedOf(t)'
               /\ \A f \in Edit : StoredOf(f)'
    <2>1. /\ UNCHANGED <<users, client, doc, join>>
          /\ \A f \in Edit : f # e => update'[f] = update[f] /\ bus'[f] = bus[f]
      BY <1>4, UpdateFrame
    <2>2. \/ UpdateAt(e, "append") /\ Merged(updates') = Merged(updates) \cup {e}
          \/ InHand(e) /\ Merged(updates') = Merged(updates)
      BY <1>4, UpdateFrame DEF Appends
    <2>3. e \in Merged(updates')
      BY <1>0, <2>2 DEF StoredOf
    <2>4. \A t \in Session : doc[t] \subseteq Edit
      BY DEF TypeOK
    <2>5. \A t \in Session : RecordedOf(t)'
      BY <1>0, <2>1, <2>2, <2>3, <2>4 DEF RecordedOf
    <2> QED
      BY <1>0, <2>1, <2>2, <2>3, <2>5 DEF StoredOf, InHand
  <1>5. ASSUME NEW e \in Edit, NEW s \in Session, Routes(e, s)
        PROVE  /\ \A t \in Session : RecordedOf(t)'
               /\ \A f \in Edit : StoredOf(f)'
    <2>1. /\ UNCHANGED <<updates, users, client, join, update>>
          /\ \A f \in Edit : bus'[f] \subseteq bus[f]
          /\ \A t \in Session : doc'[t] \subseteq doc[t] \cup {e}
      BY <1>5, RouteFrame
    <2>2. e \in Merged(updates)
      BY <1>0, <1>5, RouteFrame DEF StoredOf
    <2>3. ASSUME NEW t \in Session PROVE RecordedOf(t)'
      <3> SUFFICES ASSUME Using(t)
                   PROVE  /\ JoinAt(t, "add") \/ t \in users
                          /\ join[t].state \subseteq Merged(updates)
                          /\ \A g \in doc'[t] : g \in Merged(updates) \/ UpdateAt(g, "append")
        BY <2>1 DEF RecordedOf
      <3>1. RecordedOf(t) /\ doc'[t] \subseteq doc[t] \cup {e}
        BY <1>0, <2>1
      <3> QED
        BY <2>2, <3>1 DEF RecordedOf
    <2>4. ASSUME NEW f \in Edit PROVE StoredOf(f)'
      BY <1>0, <2>1 DEF StoredOf, InHand
    <2> QED
      BY <2>3, <2>4
  <1>6. CASE UNCHANGED vars
    BY <1>0, <1>6 DEF vars, RecordedOf, StoredOf, InHand
  <1> QED
    BY <1>1, <1>2, <1>3, <1>4, <1>5, <1>6, StepCases

-----------------------------------------------------------------------------
(* What is stored is known to the users, or on its way *)

LEMMA DeliveredByJoin ==
    ASSUME TypeOK, Delivered, NEW s \in Session, JoinMove(s), Told(s)'
    PROVE  Reached(s)'
  <1> USE DEF stored, pages, Told, JoinAt
  <1>1. UNCHANGED <<updates, update, bus>> /\ room \subseteq room'
    BY JoinFrame
  <1>2. CASE ReadsUpdates(s) \/ ResendsState(s)
    <2>1. join'[s].state = Merged(updates)
      BY <1>2 DEF ReadsUpdates, ResendsState, TypeOK
    <2> QED
      BY <1>1, <2>1 DEF Reached
  <1>3. CASE SendsState(s)
    <2>1. client[s] \in {"joining", "editing"} /\ JoinAt(s, "send")
      BY <1>3 DEF SendsState, TypeOK
    <2>2. doc'[s] = doc[s] \cup join[s].state
      BY <1>3, <2>1 DEF SendsState, TypeOK
    <2>3. Reached(s)
      BY <2>1 DEF Delivered
    <2> QED
      BY <1>1, <2>2, <2>3 DEF Reached, InHand
  <1>4. CASE Joins(s) \/ AddsUser(s) \/ EntersRoom(s)
    <2>1. /\ join'[s].state = join[s].state /\ doc' = doc
          /\ client'[s] = "editing" => client[s] = "editing"
          /\ join'[s].pc # "send"
      BY <1>4, JoinGoing DEF Joins, AddsUser, EntersRoom, TypeOK
    <2>2. Reached(s)
      BY <2>1 DEF Delivered
    <2> QED
      BY <1>1, <2>1, <2>2 DEF Reached, InHand
  <1> QED
    BY <1>2, <1>3, <1>4 DEF JoinMove, JoinStep

LEMMA DeliveredKept ==
    ASSUME TypeOK, Departed, Places, Authored, Compactable, Delivered, [Next]_vars, ~torn'
    PROVE  Delivered'
  <1> USE DEF stored, pages, handlers, JoinAt, Told
  <1>1. ASSUME NEW s \in Session, JoinMove(s)
        PROVE  Delivered'
    <2>1. ASSUME NEW t \in Session, t # s, Told(t)'
          PROVE  Reached(t)'
      <3>1. Told(t)
        BY <1>1, <2>1, JoinFrame
      <3> QED
        BY <1>1, <2>1, <3>1, JoinFrame DEF Delivered, Reached, InHand
    <2> QED
      BY <1>1, <2>1, DeliveredByJoin DEF Delivered
  <1>2. ASSUME NEW s \in Session, QuitMove(s)
        PROVE  Delivered'
    <2> SUFFICES ASSUME NEW t \in Session, Told(t)' PROVE Reached(t)'
      BY DEF Delivered
    <2>1. /\ client'[t] = client[t] /\ doc'[t] = doc[t] /\ join' = join /\ update' = update
          /\ t \in room => t \in room'
          /\ \A e \in Edit : t \in bus[e] => t \in bus'[e]
      BY <1>2, QuitFrame DEF Parted
    <2>2. Reached(t)
      BY <2>1 DEF Delivered
    <2>3. Merged(updates') \subseteq Merged(updates) /\ Merged(updates) \in SUBSET Edit
      <3>1. Merged(<<>>) = {}
        BY DEF Merged
      <3> QED
        BY <1>2, <3>1, QuitFrame, MergedType DEF TypeOK
    <2> QED
      BY <2>1, <2>2, <2>3 DEF Reached, InHand
  <1>3. ASSUME NEW s \in Session, Edits(s)
        PROVE  Delivered'
    <2> PICK e \in Edit :
          /\ UpdateAt(e, "none")
          /\ \A t \in Session : doc'[t] = IF t = s THEN doc[t] \cup {e} ELSE doc[t]
          /\ \A f \in Edit : update'[f] = IF f = e THEN update'[e] ELSE update[f]
          /\ update'[e].pc = "append"
      BY <1>3, EditFrame
    <2>1. UNCHANGED <<updates, room, client, join, bus>>
      BY <1>3, EditFrame
    <2>2. Merged(updates) \in SUBSET Edit
      BY MergedType DEF TypeOK
    <2>3. \A f \in Edit : InHand(f) => InHand(f)'
      BY DEF InHand, UpdateAt
    <2> QED
      BY <2>1, <2>2, <2>3 DEF Delivered, Reached
  <1>4. ASSUME NEW e \in Edit, UpdateStep(e)
        PROVE  Delivered'
    <2> SUFFICES ASSUME NEW t \in Session, Told(t)', NEW f \in Merged(updates')
                 PROVE  \/ f \in doc'[t] \cup join'[t].state
                        \/ t \in bus'[f] /\ t \in room'
                        \/ InHand(f)'
      BY DEF Delivered, Reached
    <2>1. /\ UNCHANGED <<room, client, doc, join>>
          /\ \A g \in Edit : g # e => update'[g] = update[g] /\ bus'[g] = bus[g]
      BY <1>4, UpdateFrame
    <2>2. CASE f # e
      <3>1. f \in Merged(updates)
        BY <1>4, <2>2, UpdateFrame
      <3>2. f \in Edit
        BY <3>1, MergedType DEF TypeOK
      <3> QED
        BY <2>1, <2>2, <3>1, <3>2 DEF Delivered, Reached, InHand
    <2>3. CASE f = e /\ ~InHand(e)'
      <3>1. bus'[e] = Online \ update[e].by
        BY <1>4, <2>3, UpdateFrame
      <3>2. t \in room
        BY <2>1 DEF Places, Placed, Using
      <3>3. t \in Online
        BY <2>1 DEF Online
      <3>4. t \in update[e].by => e \in doc[t]
        BY <2>1 DEF Authored, Parted
      <3> QED
        BY <2>1, <2>3, <3>1, <3>2, <3>3, <3>4
    <2> QED
      BY <2>2, <2>3
  <1>5. ASSUME NEW e \in Edit, NEW s \in Session, Routes(e, s)
        PROVE  Delivered'
    <2>1. /\ UNCHANGED <<updates, room, client, join, update>>
          /\ \A f \in Edit : bus'[f] = IF f = e THEN bus[f] \ {s} ELSE bus[f]
          /\ \A t \in Session : doc'[t] = IF t = s /\ s \in room /\ Using(s)
                                          THEN doc[t] \cup {e} ELSE doc[t]
      BY <1>5, RouteFrame
    <2>2. Merged(updates) \in SUBSET Edit
      BY MergedType DEF TypeOK
    <2> SUFFICES ASSUME NEW t \in Session, Told(t)', NEW f \in Merged(updates)
                 PROVE  \/ f \in doc'[t] \cup join[t].state
                        \/ f \in Edit /\ t \in bus'[f] /\ t \in room
                        \/ InHand(f)
      BY <2>1, <2>2 DEF Delivered, Reached, InHand
    <2>3. f \in Edit /\ Told(t)
      BY <2>1, <2>2 DEF Told, JoinAt
    <2>4. CASE f \in doc[t] \cup join[t].state \/ InHand(f)
      BY <2>1, <2>4
    <2>5. CASE t \in bus[f] /\ t \in room
      <3>1. CASE f = e /\ t = s
        <4>1. Using(s)
          BY <2>3, <3>1 DEF Told, Using
        <4> QED
          BY <2>1, <2>5, <3>1, <4>1
      <3>2. CASE f # e \/ t # s
        BY <2>1, <2>3, <2>5, <3>2
      <3> QED
        BY <3>1, <3>2
    <2> QED
      BY <2>3, <2>4, <2>5 DEF Delivered, Reached
  <1>6. CASE UNCHANGED vars
    BY <1>6 DEF vars, Delivered, Reached, InHand
  <1> QED
    BY <1>1, <1>2, <1>3, <1>4, <1>5, <1>6, StepCases

-----------------------------------------------------------------------------
(* Who clears an abandoned document *)

LEMMA ClearingByQuit ==
    ASSUME TypeOK, Departed, Clearing, NEW s \in Session, QuitMove(s), ~torn',
           users' = {}, updates' # <<>>
    PROVE  \E t \in Session : Clears(t)'
  <1> USE DEF stored, pages, handlers, QuitAt, Handler
  <1>1. ASSUME NEW h \in Handler, NEW pc, QuitGoes(s, h, pc), ~Clears(s) \/ Clears(s)',
               users = {}, updates # <<>>
        PROVE  \E t \in Session : Clears(t)'
    BY <1>1, QuitGoing DEF Clearing, Clears
  <1>2. CASE Leaves(s)
    <2>1. quit[s].leave = "idle" /\ quit[s].disconnect # "remove"
            /\ (Clears(s) => Clears(s)')
      BY <1>2, QuitGoing DEF Leaves, Departed, Parted, Clears
    <2> QED
      BY <1>1, <1>2, <2>1 DEF Leaves
  <1>3. CASE Disconnects(s)
    <2>1. CASE quit' = quit
      BY <1>3, <2>1 DEF Disconnects, Clearing, Clears
    <2>2. CASE QuitGoes(s, "disconnect", "scan")
      <3>1. Clears(s) => Clears(s)'
        BY <1>3, <2>2, QuitGoing DEF Disconnects, Departed, Clears
      <3> QED
        BY <1>1, <1>3, <2>2, <3>1 DEF Disconnects
    <2> QED
      BY <1>3, <2>1, <2>2 DEF Disconnects
  <1>4. CASE Reaps(s)
    BY <1>4 DEF Reaps, Clearing, Clears
  <1>5. CASE Scans(s)
    <2> PICK pc \in {"idle", "remove"} : QuitGoes(s, "disconnect", pc)
      BY <1>5 DEF Scans
    <2>1. Clears(s) => Clears(s)'
      BY <1>5, QuitGoing DEF Scans, Clears
    <2> QED
      BY <1>1, <1>5, <2>1 DEF Scans
  <1>6. CASE ExitsRoom(s)
    <2>1. QuitGoes(s, "leave", "users")
      BY <1>6 DEF ExitsRoom
    <2> QED
      BY <2>1, QuitGoing DEF Clears
  <1>7. ASSUME NEW h \in Handler, RemovesUser(s, h) \/ ChecksUsers(s, h)
        PROVE  \E t \in Session : Clears(t)'
    <2>1. \/ h = "leave" /\ \E pc \in {"exit", "clear"} : QuitGoes(s, h, pc)
          \/ h = "disconnect" /\ \E pc \in {"users", "clear"} : QuitGoes(s, h, pc)
      BY <1>7 DEF RemovesUser, ChecksUsers
    <2> QED
      BY <2>1, QuitGoing DEF Clears
  <1>8. ASSUME NEW h \in Handler, ClearsUsers(s, h)
        PROVE  \E t \in Session : Clears(t)'
    <2>1. QuitGoes(s, h, "idle") /\ users = {} /\ updates' = updates
      BY <1>8 DEF ClearsUsers, Tears
    <2>2. Clears(s) => Clears(s)'
      <3>1. CASE h = "leave"
        BY <1>8, <2>1, <3>1, QuitGoing DEF ClearsUsers, Clears
      <3>2. CASE h = "disconnect"
        BY <1>8, <2>1, <3>2, QuitGoing DEF ClearsUsers, Clears
      <3> QED
        BY <3>1, <3>2
    <2> QED
      BY <1>1, <2>1, <2>2
  <1>9. ASSUME NEW h \in Handler, ClearsUpdates(s, h)
        PROVE  FALSE
    BY <1>9 DEF ClearsUpdates
  <1> QED
    BY <1>2, <1>3, <1>4, <1>5, <1>6, <1>7, <1>8, <1>9 DEF QuitMove, QuitStep

LEMMA ClearingKept ==
    ASSUME TypeOK, Departed, Compactable, Clearing, [Next]_vars, ~torn'
    PROVE  Clearing'
  <1> USE DEF stored, pages, handlers
  <1>1. ASSUME NEW s \in Session, JoinMove(s) \/ Edits(s)
        PROVE  Clearing'
    BY <1>1, JoinFrame, EditFrame DEF Clearing, Clears
  <1>2. ASSUME NEW s \in Session, QuitMove(s)
        PROVE  Clearing'
    BY <1>2, ClearingByQuit DEF Clearing
  <1>3. ASSUME NEW e \in Edit, UpdateStep(e)
        PROVE  Clearing'
    <2>1. UNCHANGED <<users, quit>>
      BY <1>3, UpdateFrame
    <2>2. updates = <<>> /\ users = {} => updates' = <<>>
      <3>1. CASE Appends(e)
        BY <3>1 DEF Appends, Tears
      <3>2. CASE Compacts(e)
        <4>1. updates = update[e].read /\ Len(update[e].read) > 1
          BY <3>2 DEF Compacts, Tears, Compactable
        <4> QED
          BY <4>1
      <3>3. CASE Counts(e) \/ ReadsForCompaction(e) \/ Emits(e)
        BY <3>3 DEF Counts, ReadsForCompaction, Emits
      <3> QED
        BY <1>3, <3>1, <3>2, <3>3 DEF UpdateStep
    <2> QED
      BY <2>1, <2>2 DEF Clearing, Clears
  <1>4. ASSUME NEW e \in Edit, NEW s \in Session, Routes(e, s)
        PROVE  Clearing'
    BY <1>4, RouteFrame DEF Clearing, Clears
  <1>5. CASE UNCHANGED vars
    BY <1>5 DEF vars, Clearing, Clears
  <1> QED
    BY <1>1, <1>2, <1>3, <1>4, <1>5, StepCases

-----------------------------------------------------------------------------
(* The theorems *)

Inv == /\ Departed /\ Places /\ Authored /\ Compactable
       /\ ~torn => Recorded /\ Delivered /\ Clearing

LEMMA Invariance == Spec => [](TypeOK /\ Inv)
  <1>1. Init => Inv
    <2> SUFFICES ASSUME Init PROVE Inv
      OBVIOUS
    <2>1. Departed /\ Places /\ Authored /\ Compactable
      BY DEF Init, Departed, Places, Placed, Authored, Compactable, JoinAt, UpdateAt, Using
    <2>2. Merged(updates) = {}
      BY DEF Init, Merged
    <2>3. Recorded /\ Delivered /\ Clearing
      BY <2>2 DEF Init, Recorded, Broadcasting, Delivered, Told, Reached, Using, Clearing
    <2> QED
      BY <2>1, <2>3 DEF Inv
  <1>2. TypeOK /\ Inv /\ [Next]_vars => Inv'
    <2> SUFFICES ASSUME TypeOK, Inv, [Next]_vars PROVE Inv'
      OBVIOUS
    <2>1. Departed /\ Places /\ Authored /\ Compactable
      BY DEF Inv
    <2>2. Departed' /\ Places' /\ Authored' /\ Compactable'
      BY <2>1, DepartedKept, PlacesKept, AuthoredKept, CompactableKept
    <2>3. torn => torn'
      BY <2>1, StepCases, JoinFrame, QuitFrame, EditFrame, UpdateFrame, RouteFrame DEF vars
    <2>4. ASSUME ~torn'
          PROVE  Recorded' /\ Delivered' /\ Clearing'
      BY <2>1, <2>3, <2>4, RecordedKept, DeliveredKept, ClearingKept DEF Inv
    <2> QED
      BY <2>2, <2>4 DEF Inv
  <1> QED
    BY <1>1, <1>2, TypeCorrect, TypeStep, PTL DEF Spec

\* Whatever someone who edits has seen is kept for the next one to join, as long
\* as no clean-up and no compaction was overtaken (utils.py:148-162,
\* main.py:704-734).
THEOREM SeenStored == Spec => []SeenIsStored
  <1>1. Inv => SeenIsStored
    BY DEF Inv, Recorded, SeenIsStored, Using
  <1> QED
    BY <1>1, Invariance, PTL

\* Whatever was stored reaches everyone who edits: a joiner finds it in the list
\* or is in the room when it is broadcast (main.py:548-571, 671-687).
THEOREM NothingFalls == Spec => []NothingFallsBetween
  <1>1. Inv => NothingFallsBetween
    BY DEF Inv, Delivered, Told, Reached, InHand, UpdateAt, NothingFallsBetween
  <1> QED
    BY <1>1, Invariance, PTL

\* When everyone has left and every handler has returned, the list is cleared
\* (main.py:726-731, utils.py:225-238).
THEOREM AbandonedCleared == Spec => []AbandonedIsCleared
  <1>1. Inv => AbandonedIsCleared
    <2> SUFFICES ASSUME Clearing, Quiet, users = {}, updates # <<>>
                 PROVE  FALSE
      BY DEF Inv, AbandonedIsCleared
    <2>1. \A s \in Session : quit[s]["leave"] = "idle" /\ quit[s]["disconnect"] = "idle"
      BY DEF Quiet, QuitAt, Handler
    <2> QED
      BY <2>1 DEF Clearing, Clears
  <1> QED
    BY <1>1, Invariance, PTL

=============================================================================
