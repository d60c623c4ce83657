------------------------ MODULE CrawlAttachmentProofs ------------------------
(***************************************************************************)
(* Proofs about CrawlAttachment, for any jobs, versions and failures.      *)
(***************************************************************************)
EXTENDS CrawlAttachment, TLAPS

Holding == {"load", "delete", "save", "record"}
Reading == Holding \cup {"download"}

-----------------------------------------------------------------------------
(* The inductive invariant *)

\* Nothing is recorded of a version the site has not served yet; a job holds a
\* version when it is about to store or record one.
RowDated == row.hash <= file /\ (IsDone => row.hash # 0)

JobsDated ==
    \A j \in Jobs : /\ job[j].data <= file
                    /\ job[j].pc \in Holding => job[j].data # 0
                    /\ job[j].pc \in {"idle", "look"} => job[j].known = 0 /\ ~job[j].blind
                    /\ job[j].blind => job[j].known = 0

Dated == RowDated /\ JobsDated

\* Beside a lone job nothing runs, and without accident every job is alone.
Exclusive ==
    /\ \A j \in alone : job[j].pc # "idle" /\ \A k \in Jobs : job[k].pc # "idle" => k = j
    /\ sound => \A j \in Jobs : job[j].pc # "idle" => j \in alone

\* A lone job knows the row, unless it could not look it up; what it is about to
\* record is not older than the row says, and stored.
LoneKnows ==
    \A j \in alone :
      /\ job[j].pc \in Reading /\ ~job[j].blind => job[j].known = row.hash /\ ~IsDone
      /\ job[j].pc \in Holding => job[j].data # job[j].known /\ row.hash <= job[j].data
      /\ job[j].pc = "record" => job[j].data \in chunks

\* What would be skipped can be found, but for a job that does not know of it
\* and is storing it again.
Found == row.hash # 0 /\ (IsDone \/ row.hash = file) => row.hash \in chunks

Restoring(j) == job[j].blind /\ job[j].pc \in {"save", "record"}

Sound == sound => Found \/ \E j \in alone : Restoring(j)

Inv == TypeOK /\ Dated /\ Exclusive /\ LoneKnows /\ Sound

-----------------------------------------------------------------------------
(* How the local state of one job changes; the other jobs keep theirs. *)

Moves(j, pc, known, blind, data) ==
    /\ job' \in [Jobs -> Job]
    /\ job'[j].pc = pc /\ job'[j].known = known
    /\ job'[j].blind = blind /\ job'[j].data = data
    /\ \A k \in Jobs \ {j} : job'[k] = job[k]

LEMMA Updated ==
    ASSUME job \in [Jobs -> Job], NEW j \in Jobs, NEW x \in Job, job' = [job EXCEPT ![j] = x]
    PROVE  Moves(j, x.pc, x.known, x.blind, x.data)
  BY DEF Moves

LEMMA GoesMoves ==
    ASSUME job \in [Jobs -> Job], NEW j \in Jobs, NEW pc \in {"look"} \cup Reading, Goes(j, pc)
    PROVE  Moves(j, pc, job[j].known, job[j].blind, job[j].data)
  <1> DEFINE x == [job[j] EXCEPT !.pc = pc]
  <1>1. x \in Job /\ x.pc = pc /\ x.known = job[j].known /\ x.blind = job[j].blind
        /\ x.data = job[j].data
    BY DEF Job, Reading, Holding
  <1>2. job' = [job EXCEPT ![j] = x]
    BY DEF Goes
  <1> QED
    BY <1>1, <1>2, Updated

LEMMA EndsMoves ==
    ASSUME job \in [Jobs -> Job], NEW j \in Jobs, Ends(j)
    PROVE  Moves(j, "idle", 0, FALSE, 0)
  <1>1. Idle \in Job /\ Idle.pc = "idle" /\ Idle.known = 0 /\ Idle.blind = FALSE /\ Idle.data = 0
    BY DEF Idle, Job
  <1> QED
    BY <1>1, Updated DEF Ends

LEMMA KnowsMoves ==
    ASSUME job \in [Jobs -> Job], NEW j \in Jobs, row \in Row,
           job' = [job EXCEPT ![j].pc = "download", ![j].known = row.hash]
    PROVE  Moves(j, "download", row.hash, job[j].blind, job[j].data)
  <1> DEFINE x == [job[j] EXCEPT !.pc = "download", !.known = row.hash]
  <1>1. x \in Job /\ x.pc = "download" /\ x.known = row.hash /\ x.blind = job[j].blind
        /\ x.data = job[j].data
    BY DEF Job, Row
  <1> QED
    BY <1>1, Updated

LEMMA BlindMoves ==
    ASSUME job \in [Jobs -> Job], NEW j \in Jobs,
           job' = [job EXCEPT ![j].pc = "download", ![j].blind = TRUE]
    PROVE  Moves(j, "download", job[j].known, TRUE, job[j].data)
  <1> DEFINE x == [job[j] EXCEPT !.pc = "download", !.blind = TRUE]
  <1>1. x \in Job /\ x.pc = "download" /\ x.known = job[j].known /\ x.blind = TRUE
        /\ x.data = job[j].data
    BY DEF Job
  <1> QED
    BY <1>1, Updated

LEMMA DownloadMoves ==
    ASSUME job \in [Jobs -> Job], NEW j \in Jobs, file \in File, DownloadsNew(j)
    PROVE  Moves(j, "load", job[j].known, job[j].blind, file)
  <1> DEFINE x == [job[j] EXCEPT !.pc = "load", !.data = file]
  <1>1. x \in Job /\ x.pc = "load" /\ x.known = job[j].known /\ x.blind = job[j].blind
        /\ x.data = file
    BY DEF Job
  <1> QED
    BY <1>1, Updated DEF DownloadsNew

-----------------------------------------------------------------------------
(* Type correctness *)

\* The row is a row: the part of TypeOK about it.
RowOK == row \in Row /\ (row.status = "none" => row = NoRow)

LEMMA CountType ==
    ASSUME failures \in 0 .. MaxFailures, Fails \/ Succeeds
    PROVE  failures' \in 0 .. MaxFailures
  BY AttachmentAssumption DEF Fails, Succeeds

\* A row that names a version is a row.
LEMMA RowType ==
    ASSUME NEW h \in File, NEW s \in {"processed", "error"},
           row' = [hash |-> h, status |-> s]
    PROVE  RowOK'
  BY DEF RowOK, Row

LEMMA ErrorType ==
    ASSUME RowOK, NotDownloaded
    PROVE  RowOK'
  <1>1. CASE row' = row
    BY <1>1 DEF RowOK
  <1>2. CASE row' = [row EXCEPT !.status = "error"]
    BY <1>2 DEF RowOK, Row
  <1> QED
    BY <1>1, <1>2 DEF NotDownloaded

\* A job in the middle of its work has a version in its hands.
Held == \A j \in Jobs : job[j].pc \in Holding => job[j].data \in File

LEMMA HeldType ==
    ASSUME TypeOK, Dated
    PROVE  Held
  BY DEF TypeOK, Dated, JobsDated, Held, Job

LEMMA FailedType ==
    ASSUME TypeOK, Held, NEW j \in Jobs, job[j].pc \in Holding, row' \in {row, Failed(j)}
    PROVE  RowOK'
  <1>1. CASE row' = row
    BY <1>1 DEF RowOK, TypeOK
  <1>2. CASE row' = Failed(j)
    BY <1>2, RowType DEF Failed, Held
  <1> QED
    BY <1>1, <1>2

-----------------------------------------------------------------------------
(* What actions have in common *)

\* Without accident the only job is alone, and what would be skipped can be found
\* unless it does not know of it.
LEMMA LoneOnly ==
    ASSUME Inv, sound, NEW j \in Jobs, job[j].pc # "idle"
    PROVE  j \in alone /\ (Found \/ Restoring(j))
  <1>1. j \in alone
    BY DEF Inv, Exclusive
  <1>2. \A k \in alone : k = j
    BY DEF Inv, Exclusive
  <1> QED
    BY <1>1, <1>2 DEF Inv, Sound

LEMMA EndsKeeps ==
    ASSUME Inv, NEW j \in Jobs, job[j].pc # "idle", Ends(j), file' = file,
           sound' => sound \/ j \in alone
    PROVE  /\ job' \in [Jobs -> Job] /\ alone' = {}
           /\ JobsDated' /\ Exclusive' /\ LoneKnows'
  <1>1. Moves(j, "idle", 0, FALSE, 0)
    BY EndsMoves DEF Inv, TypeOK
  <1>2. alone' = {}
    BY DEF Inv, Exclusive, Ends, TypeOK
  <1>3. JobsDated'
    <2>1. file \in File
      BY DEF Inv, TypeOK
    <2> QED
      BY <1>1, <2>1 DEF Inv, Dated, JobsDated, Moves, File, Holding
  <1>4. sound' => \A k \in Jobs : job'[k].pc = "idle"
    <2> SUFFICES ASSUME sound', NEW k \in Jobs
                 PROVE  job'[k].pc = "idle"
      OBVIOUS
    <2>1. CASE k = j
      BY <1>1, <2>1 DEF Moves
    <2>2. CASE k # j
      <3>1. job'[k] = job[k]
        BY <1>1, <2>2 DEF Moves
      <3>2. job[k].pc = "idle"
        BY <2>2 DEF Inv, Exclusive
      <3> QED
        BY <3>1, <3>2
    <2> QED
      BY <2>1, <2>2
  <1> QED
    BY <1>1, <1>2, <1>3, <1>4 DEF Moves, Exclusive, LoneKnows

LEMMA GoesKeeps ==
    ASSUME Inv, NEW j \in Jobs, job[j].pc # "idle", NEW pc, NEW known, NEW blind, NEW data,
           Moves(j, pc, known, blind, data), pc # "idle",
           alone' = alone, sound' = sound
    PROVE  Exclusive'
  <1>1. \A k \in Jobs : job'[k].pc # "idle" => job[k].pc # "idle"
    BY DEF Moves
  <1>2. \A k \in alone : k = j
    BY DEF Inv, Exclusive, TypeOK
  <1>3. \A k \in alone : job'[k].pc # "idle"
    BY <1>2 DEF Moves
  <1> QED
    BY <1>1, <1>2, <1>3 DEF Inv, Exclusive

\* The other jobs keep what JobsDated says of them, and no other is alone.
LEMMA MovesKeeps ==
    ASSUME Inv, NEW j \in Jobs, job[j].pc # "idle", NEW pc, NEW known, NEW blind, NEW data,
           Moves(j, pc, known, blind, data), file' = file,
           alone' = alone, sound' = sound,
           data <= file,
           pc \in Holding => data # 0,
           pc \notin {"idle", "look"},
           blind => known = 0
    PROVE  /\ job' \in [Jobs -> Job] /\ JobsDated' /\ Exclusive'
           /\ \A k \in alone' : k = j
  <1>1. JobsDated'
    BY DEF Inv, Dated, JobsDated, Moves
  <1>2. \A k \in alone' : k = j
    BY DEF Inv, Exclusive, TypeOK
  <1> QED
    BY <1>1, <1>2, GoesKeeps DEF Moves

\* Nothing but the chunks and what is not spoken of here has changed.
LEMMA SameRow ==
    ASSUME Inv, row' = row, file' = file
    PROVE  RowDated' /\ RowOK' /\ (IsDone' <=> IsDone)
  BY DEF Inv, TypeOK, Dated, RowDated, RowOK, IsDone

-----------------------------------------------------------------------------
(* The steps keep the invariant *)

\* What is left to show of a step by which job j ends.
LEMMA EndingKeeps ==
    ASSUME Inv, NEW j \in Jobs, job[j].pc # "idle", Ends(j),
           sound' => sound \/ j \in alone,
           file' = file, due' \in BOOLEAN, admin' = admin, Fails \/ Succeeds,
           RowOK', RowDated', chunks' \in SUBSET File, sound' \in BOOLEAN,
           sound' => Found'
    PROVE  Inv'
  <1>1. /\ job' \in [Jobs -> Job] /\ alone' = {}
        /\ JobsDated' /\ Exclusive' /\ LoneKnows'
    BY EndsKeeps
  <1>2. failures' \in 0 .. MaxFailures
    BY CountType DEF Inv, TypeOK
  <1>3. TypeOK'
    BY <1>1, <1>2 DEF Inv, TypeOK, RowOK
  <1> QED
    BY <1>1, <1>3 DEF Inv, Dated, Sound

\* What is left to show of a step by which job j goes on.
LEMMA GoingKeeps ==
    ASSUME Inv, NEW j \in Jobs, job[j].pc # "idle",
           NEW pc \in Reading, NEW known, NEW blind, NEW data,
           Moves(j, pc, known, blind, data),
           data <= file, pc \in Holding => data # 0, blind => known = 0,
           file' = file, due' = due, admin' = admin, row' = row, Fails \/ Succeeds,
           alone' = alone, sound' = sound, chunks' \in SUBSET File,
           j \in alone =>
             /\ ~blind => known = row.hash /\ ~IsDone
             /\ pc \in Holding => data # known /\ row.hash <= data
             /\ pc = "record" => data \in chunks',
           sound /\ j \in alone /\ (Found \/ Restoring(j)) => Found' \/ Restoring(j)'
    PROVE  Inv'
  <1>1. /\ job' \in [Jobs -> Job] /\ JobsDated' /\ Exclusive'
        /\ \A k \in alone' : k = j
    <2>1. pc # "idle" /\ pc # "look"
      BY DEF Reading, Holding
    <2> QED
      BY <2>1, MovesKeeps
  <1>2. failures' \in 0 .. MaxFailures
    BY CountType DEF Inv, TypeOK
  <1>3. RowDated' /\ RowOK' /\ (IsDone' <=> IsDone)
    BY SameRow
  <1>4. TypeOK'
    BY <1>1, <1>2, <1>3 DEF Inv, TypeOK, RowOK
  <1>5. LoneKnows'
    BY <1>1, <1>3 DEF LoneKnows, Moves
  <1>6. Sound'
    BY LoneOnly DEF Sound
  <1> QED
    BY <1>1, <1>3, <1>4, <1>5, <1>6 DEF Inv, Dated

LEMMA LooksUpKeeps ==
    ASSUME Inv, NEW j \in Jobs, LooksUp(j)
    PROVE  Inv'
  <1> USE DEF LooksUp
  <1>1. ASSUME sound PROVE Found
    BY <1>1, LoneOnly DEF Restoring
  <1>2. Found' <=> Found
    BY DEF Found, IsDone
  <1>3. job[j].known = 0 /\ ~job[j].blind /\ job[j].data <= file
    BY DEF Inv, Dated, JobsDated
  <1>4. CASE IsDone /\ Ends(j) /\ Succeeds
    <2>1. RowDated' /\ RowOK'
      BY SameRow
    <2> QED
      BY <1>1, <1>2, <1>4, <2>1, EndingKeeps DEF Inv, TypeOK
  <1>5. CASE /\ ~IsDone /\ Succeeds /\ UNCHANGED alone
             /\ job' = [job EXCEPT ![j].pc = "download", ![j].known = row.hash]
    <2>1. Moves(j, "download", row.hash, job[j].blind, job[j].data)
      BY <1>5, KnowsMoves DEF Inv, TypeOK
    <2> QED
      BY <1>1, <1>2, <1>3, <1>5, <2>1, GoingKeeps DEF Inv, TypeOK, Reading, Holding
  <1>6. CASE /\ Fails /\ UNCHANGED alone
             /\ job' = [job EXCEPT ![j].pc = "download", ![j].blind = TRUE]
    <2>1. Moves(j, "download", job[j].known, TRUE, job[j].data)
      BY <1>6, BlindMoves DEF Inv, TypeOK
    <2> QED
      BY <1>1, <1>2, <1>3, <1>6, <2>1, GoingKeeps DEF Inv, TypeOK, Reading, Holding
  <1> QED
    BY <1>4, <1>5, <1>6

LEMMA DownloadsNothingKeeps ==
    ASSUME Inv, NEW j \in Jobs, DownloadsNothing(j)
    PROVE  Inv'
  <1> USE DEF DownloadsNothing
  <1>1. RowOK'
    BY ErrorType DEF Inv, TypeOK, RowOK
  <1>2. row'.hash = row.hash /\ (IsDone' => IsDone)
    BY DEF NotDownloaded, IsDone, Inv, TypeOK, Row
  <1>3. RowDated'
    BY <1>2 DEF Inv, Dated, RowDated
  <1>4. sound => Found'
    BY <1>2, LoneOnly DEF Found, Restoring
  <1> QED
    BY <1>1, <1>3, <1>4, EndingKeeps DEF Inv, TypeOK

LEMMA DownloadsSameKeeps ==
    ASSUME Inv, NEW j \in Jobs, DownloadsSame(j)
    PROVE  Inv'
  <1> USE DEF DownloadsSame
  <1>1. file \in File /\ ~job[j].blind
    BY DEF Inv, TypeOK, Dated, JobsDated, File
  <1>2. CASE row' = [hash |-> file, status |-> "processed"] /\ Succeeds
    <2>1. RowOK'
      BY <1>1, <1>2, RowType
    <2>2. RowDated'
      BY <1>1, <1>2 DEF RowDated, IsDone, File
    <2>3. sound => Found'
      <3> SUFFICES ASSUME sound PROVE file \in chunks
        BY <1>2 DEF Found
      <3>1. j \in alone /\ Found
        BY <1>1, LoneOnly DEF Restoring
      <3>2. row.hash = file
        BY <1>1, <3>1 DEF Inv, LoneKnows, Reading
      <3> QED
        BY <1>1, <3>1, <3>2 DEF Found, File
    <2> QED
      BY <1>2, <2>1, <2>2, <2>3, EndingKeeps DEF Inv, TypeOK
  <1>3. CASE row' = row /\ Fails
    <2>1. RowOK' /\ RowDated' /\ (IsDone' <=> IsDone)
      BY <1>3, SameRow
    <2>2. sound => Found'
      BY <1>3, <2>1, LoneOnly DEF Found, Restoring
    <2> QED
      BY <1>3, <2>1, <2>2, EndingKeeps DEF Inv, TypeOK
  <1> QED
    BY <1>2, <1>3 DEF Upserts

LEMMA DownloadsNewKeeps ==
    ASSUME Inv, NEW j \in Jobs, DownloadsNew(j)
    PROVE  Inv'
  <1>1. file \in File
    BY DEF Inv, TypeOK
  <1>2. Moves(j, "load", job[j].known, job[j].blind, file)
    BY <1>1, DownloadMoves DEF Inv, TypeOK
  <1>3. Found' <=> Found
    BY DEF Found, IsDone, DownloadsNew
  <1>4. ~Restoring(j)
    BY DEF Restoring, DownloadsNew
  <1>5. job[j].blind => job[j].known = 0
    BY DEF Inv, Dated, JobsDated
  <1>6. row.hash <= file
    BY DEF Inv, Dated, RowDated
  <1>7. j \in alone /\ ~job[j].blind => job[j].known = row.hash /\ ~IsDone
    BY DEF Inv, LoneKnows, Reading, DownloadsNew
  <1> QED
    BY <1>1, <1>2, <1>3, <1>4, <1>5, <1>6, <1>7, GoingKeeps
    DEF DownloadsNew, Inv, TypeOK, File, Reading, Holding, Succeeds

LEMMA LoadsKeeps ==
    ASSUME Inv, NEW j \in Jobs, Loads(j)
    PROVE  Inv'
  <1> USE DEF Loads
  <1>1. Moves(j, "delete", job[j].known, job[j].blind, job[j].data)
    BY GoesMoves DEF Inv, TypeOK, Reading, Holding
  <1>2. Found' <=> Found
    BY DEF Found, IsDone
  <1>3. ~Restoring(j)
    BY DEF Restoring
  <1>4. /\ job[j].data # 0 /\ job[j].data <= file
        /\ job[j].blind => job[j].known = 0
    BY DEF Inv, Dated, JobsDated, Holding
  <1>5. j \in alone => /\ ~job[j].blind => job[j].known = row.hash /\ ~IsDone
                       /\ job[j].data # job[j].known /\ row.hash <= job[j].data
    BY DEF Inv, LoneKnows, Reading, Holding
  <1> QED
    BY <1>1, <1>2, <1>3, <1>4, <1>5, GoingKeeps
    DEF Inv, TypeOK, Reading, Holding, Succeeds

LEMMA LoadsNothingKeeps ==
    ASSUME Inv, NEW j \in Jobs, LoadsNothing(j)
    PROVE  Inv'
  <1> USE DEF LoadsNothing
  <1>1. RowOK'
    BY HeldType, FailedType DEF Inv, Holding
  <1>2. RowDated'
    <2>1. CASE row' = row
      BY <2>1, SameRow
    <2>2. CASE row' = Failed(j)
      BY <2>2 DEF Failed, RowDated, IsDone, Inv, Dated, JobsDated
    <2> QED
      BY <2>1, <2>2
  <1>3. sound' => sound /\ row' = row
    BY DEF Accident
  <1>4. sound' => Found'
    BY <1>3, LoneOnly DEF Found, Restoring, IsDone
  <1>5. sound' \in BOOLEAN
    BY DEF Accident, Inv, TypeOK
  <1> QED
    BY <1>1, <1>2, <1>3, <1>4, <1>5, EndingKeeps DEF Inv, TypeOK

LEMMA DeletesKeeps ==
    ASSUME Inv, NEW j \in Jobs, Deletes(j)
    PROVE  Inv'
  <1> USE DEF Deletes
  <1>1. Moves(j, "save", job[j].known, job[j].blind, job[j].data)
    BY GoesMoves DEF Inv, TypeOK, Reading, Holding
  <1>2. /\ job[j].data # 0 /\ job[j].data <= file
        /\ job[j].blind => job[j].known = 0
    BY DEF Inv, Dated, JobsDated, Holding
  <1>3. j \in alone => /\ ~job[j].blind => job[j].known = row.hash /\ ~IsDone
                       /\ job[j].data # job[j].known /\ row.hash <= job[j].data
    BY DEF Inv, LoneKnows, Reading, Holding
  <1>4. ASSUME sound, j \in alone, Found \/ Restoring(j)
        PROVE  Found' \/ Restoring(j)'
    <2>1. CASE job[j].blind
      BY <1>1, <2>1 DEF Moves, Restoring
    <2>2. CASE ~job[j].blind
      \* The row is older than what the job holds.
      <3>1. row.hash # file
        BY <1>2, <1>3, <1>4, <2>2 DEF Inv, TypeOK, Row, File, Job
      <3> QED
        BY <1>3, <1>4, <2>2, <3>1 DEF Found, IsDone
    <2> QED
      BY <2>1, <2>2
  <1>5. chunks' \in SUBSET File
    BY DEF Inv, TypeOK
  <1> QED
    BY <1>1, <1>2, <1>3, <1>4, <1>5, GoingKeeps
    DEF Inv, TypeOK, Reading, Holding

LEMMA SavesKeeps ==
    ASSUME Inv, NEW j \in Jobs, Saves(j)
    PROVE  Inv'
  <1> USE DEF Saves
  <1>1. Moves(j, "record", job[j].known, job[j].blind, job[j].data)
    BY GoesMoves DEF Inv, TypeOK, Reading, Holding
  <1>2. /\ job[j].data # 0 /\ job[j].data <= file
        /\ job[j].blind => job[j].known = 0
    BY DEF Inv, Dated, JobsDated, Holding
  <1>3. j \in alone => /\ ~job[j].blind => job[j].known = row.hash /\ ~IsDone
                       /\ job[j].data # job[j].known /\ row.hash <= job[j].data
    BY DEF Inv, LoneKnows, Reading, Holding
  <1>4. ASSUME Found \/ Restoring(j)
        PROVE  Found' \/ Restoring(j)'
    BY <1>1, <1>4 DEF Moves, Restoring, Found, IsDone
  <1>5. chunks' \in SUBSET File
    BY HeldType DEF Inv, TypeOK, Held, Holding
  <1>6. job[j].data \in chunks'
    OBVIOUS
  <1> QED
    BY <1>1, <1>2, <1>3, <1>4, <1>5, <1>6, GoingKeeps
    DEF Inv, TypeOK, Reading, Holding

LEMMA FailsToSaveKeeps ==
    ASSUME Inv, NEW j \in Jobs, FailsToSave(j)
    PROVE  Inv'
  <1> USE DEF FailsToSave
  <1>1. RowOK'
    BY HeldType, FailedType DEF Inv, Holding
  <1>2. RowDated'
    <2>1. CASE row' = row
      BY <2>1, SameRow
    <2>2. CASE row' = Failed(j)
      BY <2>2 DEF Failed, RowDated, IsDone, Inv, Dated, JobsDated
    <2> QED
      BY <2>1, <2>2
  <1>3. sound' => sound /\ row' = row /\ ~job[j].blind
    BY DEF Accident
  <1>4. sound' => Found'
    BY <1>3, LoneOnly DEF Found, Restoring, IsDone
  <1>5. chunks' \in SUBSET File
    BY HeldType DEF Inv, TypeOK, Held, Holding
  <1>6. sound' \in BOOLEAN
    BY DEF Accident, Inv, TypeOK
  <1> QED
    BY <1>1, <1>2, <1>3, <1>4, <1>5, <1>6, EndingKeeps DEF Inv, TypeOK

LEMMA RecordsKeeps ==
    ASSUME Inv, NEW j \in Jobs, Records(j)
    PROVE  Inv'
  <1> USE DEF Records
  <1>1. job[j].data \in File /\ job[j].data <= file
    BY HeldType DEF Inv, Held, Holding, Dated, JobsDated
  <1>2. CASE /\ row' = [hash |-> job[j].data, status |-> "processed"]
             /\ Succeeds /\ sound' = (sound \/ j \in alone)
    <2>1. RowOK'
      BY <1>1, <1>2, RowType
    <2>2. RowDated'
      BY <1>1, <1>2 DEF RowDated, IsDone, File
    <2>3. sound' => j \in alone
      BY <1>2, LoneOnly
    <2>4. sound' => Found'
      BY <1>2, <2>3 DEF Found, Inv, LoneKnows
    <2>5. sound' \in BOOLEAN
      BY <1>2 DEF Inv, TypeOK
    <2> QED
      BY <1>2, <2>1, <2>2, <2>3, <2>4, <2>5, EndingKeeps DEF Inv, TypeOK
  <1>3. CASE row' = row /\ Fails /\ Accident(job[j].blind)
    <2>1. RowOK' /\ RowDated' /\ (IsDone' <=> IsDone)
      BY <1>3, SameRow
    <2>2. sound' => sound /\ ~job[j].blind
      BY <1>3 DEF Accident
    <2>3. sound' => Found'
      BY <1>3, <2>1, <2>2, LoneOnly DEF Found, Restoring
    <2>4. sound' \in BOOLEAN
      BY <1>3 DEF Accident, Inv, TypeOK
    <2> QED
      BY <1>3, <2>1, <2>2, <2>3, <2>4, EndingKeeps DEF Inv, TypeOK
  <1> QED
    BY <1>2, <1>3

LEMMA CrashesKeeps ==
    ASSUME Inv, NEW j \in Jobs, Crashes(j)
    PROVE  Inv'
  <1> USE DEF Crashes
  <1>1. RowOK' /\ RowDated' /\ (IsDone' <=> IsDone)
    BY SameRow
  <1>2. sound' => sound /\ ~job[j].blind
    BY DEF Accident
  <1>3. sound' => Found'
    BY <1>1, <1>2, LoneOnly DEF Found, Restoring
  <1>4. sound' \in BOOLEAN
    BY DEF Accident, Inv, TypeOK
  <1> QED
    BY <1>1, <1>2, <1>3, <1>4, EndingKeeps DEF Inv, TypeOK

\* The processing of attachments begins.
LEMMA BeginsKeeps ==
    ASSUME Inv, NEW j \in Jobs, Begins(j), due' \in BOOLEAN, Fails \/ Succeeds
    PROVE  Inv'
  <1> USE DEF Begins
  <1>1. Moves(j, "look", job[j].known, job[j].blind, job[j].data)
    BY GoesMoves DEF Inv, TypeOK
  <1>2. RowDated' /\ RowOK' /\ (IsDone' <=> IsDone)
    BY SameRow
  <1>3. failures' \in 0 .. MaxFailures
    BY CountType DEF Inv, TypeOK
  <1>4. JobsDated'
    BY <1>1 DEF Inv, Dated, JobsDated, Moves, Holding
  <1>5. TypeOK'
    BY <1>1, <1>2, <1>3 DEF Inv, TypeOK, RowOK, Moves, Accident
  <1>6. CASE Quiet
    <2>1. alone' = {j} /\ \A k \in Jobs : job'[k].pc # "idle" => k = j
      BY <1>1, <1>6 DEF Quiet, Moves
    <2>2. Exclusive' /\ LoneKnows'
      BY <1>1, <2>1 DEF Exclusive, LoneKnows, Moves, Reading, Holding
    <2>3. sound => Found
      BY <1>6 DEF Inv, Sound, Exclusive, Quiet, TypeOK
    <2>4. Sound'
      BY <1>2, <2>3 DEF Sound, Found, Accident
    <2> QED
      BY <1>2, <1>4, <1>5, <2>2, <2>4 DEF Inv, Dated
  <1>7. CASE ~Quiet
    <2>1. alone' = {} /\ ~sound'
      BY <1>7 DEF Accident
    <2> QED
      BY <1>2, <1>4, <1>5, <2>1 DEF Inv, Dated, Exclusive, LoneKnows, Sound
  <1> QED
    BY <1>6, <1>7

LEMMA DropsChunksKeeps ==
    ASSUME Inv, DropsChunks
    PROVE  Inv'
  <1> USE DEF DropsChunks
  <1>1. failures' \in 0 .. MaxFailures
    BY CountType DEF Inv, TypeOK
  <1>2. RowDated' /\ JobsDated'
    BY DEF Inv, Dated, RowDated, JobsDated, IsDone
  <1>3. CASE chunks' = {} /\ alone' = {} /\ Accident(TRUE)
    BY <1>1, <1>2, <1>3 DEF Inv, TypeOK, Dated, Exclusive, LoneKnows, Sound, Accident
  <1>4. CASE UNCHANGED <<chunks, alone, sound>>
    BY <1>1, <1>2, <1>4
    DEF Inv, TypeOK, Dated, Exclusive, LoneKnows, Sound, Found, Restoring, IsDone
  <1> QED
    BY <1>3, <1>4

\* Steps beside the attachment: only the file may be newer, and the page due.
LEMMA AsideKeeps ==
    ASSUME Inv, UNCHANGED <<row, chunks, job, alone, sound>>,
           file' = file \/ Publishes, due' \in BOOLEAN, admin' \in {"idle", "pages"},
           failures' \in 0 .. MaxFailures
    PROVE  Inv'
  <1>1. file' \in File /\ file <= file'
    BY AttachmentAssumption DEF Publishes, Inv, TypeOK, File
  <1>2. TypeOK'
    BY <1>1 DEF Inv, TypeOK
  <1>3. RowDated'
    BY <1>1 DEF Inv, TypeOK, File, Row, Dated, RowDated, IsDone
  <1>4. JobsDated'
    BY <1>1 DEF Inv, TypeOK, File, Job, Dated, JobsDated
  <1>5. Found => Found'
    <2>1. row.hash = file' => row.hash = file
      BY <1>1 DEF Inv, TypeOK, File, Row, Dated, RowDated, Publishes
    <2> QED
      BY <2>1 DEF Found, IsDone
  <1>6. Sound'
    BY <1>5 DEF Inv, Sound, Restoring
  <1> QED
    BY <1>2, <1>3, <1>4, <1>6 DEF Inv, Dated, Exclusive, LoneKnows, IsDone

-----------------------------------------------------------------------------
(* The theorems *)

LEMMA Initially == Init => Inv
  <1> SUFFICES ASSUME Init PROVE Inv
    OBVIOUS
  <1>1. TypeOK
    BY AttachmentAssumption DEF Init, TypeOK, File, Row, Job, NoRow, Idle
  <1>2. Dated
    BY DEF Init, Dated, RowDated, JobsDated, NoRow, Idle, IsDone, Holding
  <1> QED
    BY <1>1, <1>2 DEF Init, Inv, Exclusive, LoneKnows, Sound, Found, NoRow, Idle

LEMMA NextKeeps ==
    ASSUME Inv, [Next]_vars
    PROVE  Inv'
  <1>1. ASSUME NEW j \in Jobs, CrawlsPage(j) \/ TestsPage(j)
        PROVE  Inv'
    BY <1>1, BeginsKeeps DEF CrawlsPage, TestsPage, Succeeds, Inv, TypeOK
  <1>2. ASSUME NEW j \in Jobs, Step(j)
        PROVE  Inv'
    BY <1>2, LooksUpKeeps, DownloadsNothingKeeps, DownloadsSameKeeps, DownloadsNewKeeps,
       LoadsKeeps, LoadsNothingKeeps, DeletesKeeps, SavesKeeps, FailsToSaveKeeps, RecordsKeeps
    DEF Step
  <1>3. CASE StoresPageOnly \/ PageChanges
    BY <1>3, AsideKeeps DEF StoresPageOnly, PageChanges, Inv, TypeOK
  <1>4. CASE Publishes
    BY <1>4, AsideKeeps DEF Publishes, Inv, TypeOK
  <1>5. CASE DropsPages
    <2>1. failures' \in 0 .. MaxFailures
      BY <1>5, CountType DEF DropsPages, Inv, TypeOK
    <2> QED
      BY <1>5, <2>1, AsideKeeps DEF DropsPages, Inv, TypeOK
  <1>6. CASE UNCHANGED vars
    BY <1>6, AsideKeeps DEF vars, Inv, TypeOK
  <1> QED
    BY <1>1, <1>2, <1>3, <1>4, <1>5, <1>6, DropsChunksKeeps, CrashesKeeps DEF Next, Starts

LEMMA Always == Spec => []Inv
  <1>1. Init => Inv
    BY Initially
  <1>2. Inv /\ [Next]_vars => Inv'
    BY NextKeeps
  <1> QED
    BY <1>1, <1>2, PTL DEF Spec

\* Every variable keeps its type for any jobs, versions and failures; a row that
\* does not exist has no hash.
THEOREM TypeCorrect == Spec => []TypeOK
  <1>1. Inv => TypeOK
    BY DEF Inv
  <1> QED
    BY <1>1, Always, PTL

\* What is recorded as processed can be found, whatever failed or crashed, as long
\* as no accident made row and chunks disagree (crawler_attachments.py:490-633).
THEOREM ProcessedSearchable == Spec => []ProcessedIsSearchable
  <1>1. Inv => ProcessedIsSearchable
    <2> SUFFICES ASSUME Inv, sound, Quiet, row.status = "processed"
                 PROVE  row.hash \in chunks
      BY DEF ProcessedIsSearchable
    <2>1. Found
      BY DEF Inv, Sound, Exclusive, Quiet, TypeOK
    <2>2. row.hash # 0
      BY DEF Inv, Dated, RowDated, IsDone
    <2> QED
      BY <2>1, <2>2 DEF Found, IsDone
  <1> QED
    BY <1>1, Always, PTL
=============================================================================
