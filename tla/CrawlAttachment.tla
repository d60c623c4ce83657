--------------------------- MODULE CrawlAttachment ---------------------------
(***************************************************************************)
(* One file a crawled page links to: its row in crawled_attachment, its    *)
(* chunks in the vector collection, and the jobs that process it           *)
(* (tasks/crawler_attachments.py).                                         *)
(*                                                                         *)
(* Attachments are processed at the end of the crawl of their page         *)
(* (tasks/crawler.py), when the page had to be stored anew, and by the     *)
(* test of a page (routers/crawler.py).  What CrawlPage says of the page   *)
(* is one bit here: whether the next crawl will store it.                  *)
(*                                                                         *)
(* Data: the site serves version 1, 2, ... of the file; the content hash   *)
(* and the chunks name the version they were made from, 0 is NULL.         *)
(***************************************************************************)
EXTENDS Naturals

CONSTANTS
    Jobs,         \* the processes that crawl or test the page
    MaxFile,      \* bound: versions of the file
    MaxFailures   \* bound: failed accesses and crashes

ASSUME AttachmentAssumption == MaxFile \in Nat \ {0} /\ MaxFailures \in Nat

VARIABLES
    file,      \* what the site serves
    due,       \* the row of the page does not name what the site serves
    row,       \* the row of the attachment; status "none" when there is none
    chunks,    \* the versions whose chunks are in the collection
    job,       \* where process_one_attachment stands, and its locals
    admin,     \* delete_site_data has still to delete the "pages", or is idle
    failures,  \* how many accesses failed
    alone,     \* observer: the job beside which no other has run so far
    sound      \* observer: since the last accident a lone job has stored the file

vars == <<file, due, row, chunks, job, admin, failures, alone, sound>>

File == 1 .. MaxFile
Row == [hash : File \cup {0}, status : {"none", "processed", "error"}]
Job == [pc : {"idle", "look", "download", "load", "delete", "save", "record"},
        known : File \cup {0},   \* existing.content_hash
        blind : BOOLEAN,         \* the lookup of the row failed
        data : File \cup {0}]    \* what was downloaded

NoRow == [hash |-> 0, status |-> "none"]
Idle == [pc |-> "idle", known |-> 0, blind |-> FALSE, data |-> 0]

\* The types of the variables; a row that does not exist has no hash.
TypeOK ==
    /\ file \in File
    /\ due \in BOOLEAN
    /\ row \in Row
    /\ row.status = "none" => row = NoRow
    /\ chunks \in SUBSET File
    /\ job \in [Jobs -> Job]
    /\ admin \in {"idle", "pages"}
    /\ failures \in 0 .. MaxFailures
    /\ alone \in SUBSET Jobs
    /\ sound \in BOOLEAN

Init ==
    /\ file = 1 /\ due = TRUE
    /\ row = NoRow /\ chunks = {}
    /\ job = [j \in Jobs |-> Idle]
    /\ admin = "idle"
    /\ failures = 0
    /\ alone = {} /\ sound = TRUE

-----------------------------------------------------------------------------
(* Accesses *)

Fails == failures < MaxFailures /\ failures' = failures + 1
Succeeds == UNCHANGED failures

\* CrawledAttachments.upsert; its failure is logged and swallowed.
Upserts(r) == (row' = r /\ Succeeds) \/ (row' = row /\ Fails)

Goes(j, pc) == job' = [job EXCEPT ![j].pc = pc]
Ends(j) == job' = [job EXCEPT ![j] = Idle] /\ alone' = alone \ {j}

Quiet == \A j \in Jobs : job[j].pc = "idle"

\* An accident: until a lone job has stored the file again, row and chunks need
\* not agree.
Accident(happened) == sound' = (sound /\ ~happened)

-----------------------------------------------------------------------------
(* Where the processing of attachments is called from *)

Begins(j) ==
    /\ job[j].pc = "idle"
    /\ Goes(j, "look")
    /\ alone' = IF Quiet THEN {j} ELSE {}
    /\ Accident(~Quiet)
    /\ UNCHANGED <<file, row, chunks, admin>>

\* The tail of _process_url: the page was stored, its row says so (unless that
\* failed), and its HTML was fetched.
CrawlsPage(j) ==
    /\ due
    /\ Begins(j)
    /\ \/ due' = FALSE /\ Succeeds
       \/ due' = TRUE /\ Fails

\* test_single_page leaves the hash of the page's row alone.
TestsPage(j) ==
    /\ Begins(j)
    /\ UNCHANGED <<due, failures>>

\* The page was stored and its attachments were not looked at: they are
\* switched off (as a reingest does by default), the HTML could not be fetched,
\* or the process died first.
StoresPageOnly ==
    /\ due /\ due' = FALSE
    /\ UNCHANGED <<file, row, chunks, job, admin, failures, alone, sound>>

-----------------------------------------------------------------------------
(* process_one_attachment *)

\* Mutant of IsDone: any row will do.
IsDoneIfAny == row.status # "none"

IsDone == row.status = "processed"

\* A failed lookup passes for an attachment never seen.
LooksUp(j) ==
    /\ job[j].pc = "look"
    /\ \/ IsDone /\ Ends(j) /\ Succeeds
       \/ /\ ~IsDone
          /\ job' = [job EXCEPT ![j].pc = "download", ![j].known = row.hash]
          /\ Succeeds /\ UNCHANGED alone
       \/ /\ job' = [job EXCEPT ![j].pc = "download", ![j].blind = TRUE]
          /\ Fails /\ UNCHANGED alone
    /\ UNCHANGED <<file, due, row, chunks, admin, sound>>

\* Mutant of NotDownloaded: the hash of what should have come is recorded.
NotDownloadedWithHash == row' \in {row, [hash |-> file, status |-> "error"]}

\* The error is recorded without a hash, and that may fail too.
NotDownloaded == row' \in {row, [row EXCEPT !.status = "error"]}

DownloadsNothing(j) ==
    /\ job[j].pc = "download"
    /\ Ends(j)
    /\ NotDownloaded
    /\ Fails
    /\ UNCHANGED <<file, due, chunks, admin, sound>>

\* The bytes are those of the last attempt: processed, whatever came of it.
DownloadsSame(j) ==
    /\ job[j].pc = "download"
    /\ job[j].known = file
    /\ Ends(j)
    /\ Upserts([hash |-> file, status |-> "processed"])
    /\ UNCHANGED <<file, due, chunks, admin, sound>>

\* Mutant of DownloadsNew: the bytes are not kept.
DownloadsNewUnkept(j) ==
    /\ job[j].pc = "download"
    /\ job[j].known # file
    /\ Goes(j, "load")
    /\ UNCHANGED <<file, due, row, chunks, admin, failures, alone, sound>>

DownloadsNew(j) ==
    /\ job[j].pc = "download"
    /\ job[j].known # file
    /\ job' = [job EXCEPT ![j].pc = "load", ![j].data = file]
    /\ UNCHANGED <<file, due, row, chunks, admin, failures, alone, sound>>

Loads(j) ==
    /\ job[j].pc = "load"
    /\ Goes(j, "delete")
    /\ UNCHANGED <<file, due, row, chunks, admin, failures, alone, sound>>

Failed(j) == [hash |-> job[j].data, status |-> "error"]

\* Both loaders came back empty-handed, which is recorded with the new hash, or
\* the recognition of an image raised, which is not.
LoadsNothing(j) ==
    /\ job[j].pc = "load"
    /\ Ends(j)
    /\ row' \in {row, Failed(j)}
    /\ Accident(row' # row)
    /\ Fails
    /\ UNCHANGED <<file, due, chunks, admin>>

\* A failed deletion is swallowed.
Deletes(j) ==
    /\ job[j].pc = "delete"
    /\ \/ chunks' = {} /\ Succeeds
       \/ chunks' = chunks /\ Fails
    /\ Goes(j, "save")
    /\ UNCHANGED <<file, due, row, admin, alone, sound>>

Saves(j) ==
    /\ job[j].pc = "save"
    /\ chunks' = chunks \cup {job[j].data}
    /\ Goes(j, "record")
    /\ Succeeds
    /\ UNCHANGED <<file, due, row, admin, alone, sound>>

\* Embedding or insertion raised or returned False, a part of the chunks may
\* have been inserted; the error is recorded with the new hash, unless that
\* fails too.
FailsToSave(j) ==
    /\ job[j].pc = "save"
    /\ chunks' \in {chunks, chunks \cup {job[j].data}}
    /\ Ends(j)
    /\ row' \in {row, Failed(j)}
    /\ Accident(row' # row \/ job[j].blind)
    /\ Fails
    /\ UNCHANGED <<file, due, admin>>

Records(j) ==
    /\ job[j].pc = "record"
    /\ \/ /\ row' = [hash |-> job[j].data, status |-> "processed"]
          /\ Succeeds
          /\ sound' = (sound \/ j \in alone)
       \/ /\ row' = row
          /\ Fails
          /\ Accident(job[j].blind)
    /\ Ends(j)
    /\ UNCHANGED <<file, due, chunks, admin>>

\* The process dies. One that did not know of the row may have taken the chunks
\* away under it.
Crashes(j) ==
    /\ job[j].pc # "idle"
    /\ Ends(j)
    /\ Accident(job[j].blind)
    /\ Fails
    /\ UNCHANGED <<file, due, row, chunks, admin>>

-----------------------------------------------------------------------------
(* The administrator, and the site *)

\* delete_site_data: all chunks of the site, then the rows of its pages. Either
\* failure is swallowed. The rows of attachments stay.
DropsChunks ==
    /\ admin = "idle"
    /\ admin' = "pages"
    /\ \/ /\ chunks' = {} /\ Succeeds
          /\ alone' = {} /\ Accident(TRUE)
       \/ UNCHANGED <<chunks, alone, sound>> /\ Fails
    /\ UNCHANGED <<file, due, row, job>>

DropsPages ==
    /\ admin = "pages"
    /\ admin' = "idle"
    /\ \/ due' = TRUE /\ Succeeds
       \/ UNCHANGED due /\ Fails
    /\ UNCHANGED <<file, row, chunks, job, alone, sound>>

\* The site changes the page, or a reingest resets its hash.
PageChanges ==
    /\ ~due /\ due' = TRUE
    /\ UNCHANGED <<file, row, chunks, job, admin, failures, alone, sound>>

Publishes ==
    /\ file < MaxFile /\ file' = file + 1
    /\ UNCHANGED <<due, row, chunks, job, admin, failures, alone, sound>>

-----------------------------------------------------------------------------
Step(j) ==
    \/ LooksUp(j)
    \/ DownloadsNothing(j) \/ DownloadsSame(j) \/ DownloadsNew(j)
    \/ Loads(j) \/ LoadsNothing(j)
    \/ Deletes(j) \/ Saves(j) \/ FailsToSave(j) \/ Records(j)

Starts == \E j \in Jobs : CrawlsPage(j) \/ TestsPage(j)

Next ==
    \/ Starts \/ StoresPageOnly
    \/ \E j \in Jobs : Step(j) \/ Crashes(j)
    \/ DropsChunks \/ DropsPages
    \/ PageChanges \/ Publishes

Spec == Init /\ [][Next]_vars

\* A job that was begun goes on. Nothing says that pages keep being stored.
Fairness ==
    /\ \A j \in Jobs : WF_vars(Step(j))
    /\ WF_vars(DropsPages)

FairSpec == Spec /\ Fairness

-----------------------------------------------------------------------------
(* Properties *)

\* What is recorded as processed, and so never looked at again, can be found:
\* through failed lookups, downloads, deletions and upserts and through crashes,
\* as long as the chunks are not deleted with their site, jobs do not overlap, no
\* failed attempt has left the hash that makes the next one skip the file
\* (crawler_attachments.py:519-529), and again once a lone job has stored it.
ProcessedIsSearchable ==
    sound /\ Quiet /\ row.status = "processed" => row.hash \in chunks

\* As long as the page keeps being stored anew or tested and accesses do not fail
\* for ever, attempts are repeated until one has the file recorded as processed;
\* that is final, and the file is found from then on, but where an accident came
\* after it was last stored. One of those is a failed attempt that left the hash
\* of its bytes: the next one takes them for processed and no other follows
\* (crawler_attachments.py:491-493, 519-529, 545-555, 595-619).
EndsProcessed ==
    []<><<Starts>>_vars
        => <>[](row.status = "processed" /\ (sound => row.hash \in chunks))
=============================================================================
