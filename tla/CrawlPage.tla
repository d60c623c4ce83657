------------------------------ MODULE CrawlPage ------------------------------
(***************************************************************************)
(* One page of a crawled site: its row in crawled_page, its chunks in the  *)
(* vector collection, and the jobs that write both: crawls (tasks/         *)
(* crawler.py, started by the scheduler, an administrator or the worker),  *)
(* the deletion of a site and the test of a page (routers/crawler.py).     *)
(*                                                                         *)
(* The jobs run in several processes; every action is one access to the    *)
(* site, the table or the collection, any of which may fail, and a process *)
(* may die between two of them.                                            *)
(*                                                                         *)
(* Data: the site serves version 1, 2, ... of the page; a content hash, a  *)
(* validator (ETag or Last-Modified) and the chunks name the version they  *)
(* were made from, 0 is NULL.                                              *)
(***************************************************************************)
EXTENDS Naturals

CONSTANTS
    Crawls,        \* the processes that crawl
    MaxVersion,    \* bound: versions of the page
    MaxFailures,   \* bound: failed accesses and crashes
    SameDatabase   \* TRUE: the crawler's tables are in the main database

ASSUME CrawlAssumption ==
    /\ MaxVersion \in Nat \ {0}
    /\ MaxFailures \in Nat
    /\ SameDatabase \in BOOLEAN

VARIABLES
    version,   \* what the site serves
    row,       \* the row of crawled_page; status "none" when there is none
    chunks,    \* the versions whose chunks are in the collection
    crawl,     \* for each process where _process_url stands, and its locals
    admin,     \* delete_site_data has deleted the chunks ("row") or is idle
    test,      \* where test_single_page stands, and the version it loaded
    failures,  \* how many accesses failed
    alone,     \* observer: the crawl beside which no other job has run so far
    trusted    \* observer: since jobs last overlapped, or an administrator's
               \* job last failed, a lone crawl has stored the page

vars == <<version, row, chunks, crawl, admin, test, failures, alone, trusted>>
jobVars == <<crawl, admin, test>>
observers == <<alone, trusted>>

Version == 1 .. MaxVersion
Row == [hash : Version \cup {0}, etag : Version \cup {0},
        status : {"none", "ok", "error"}]  \* "ok": success, unchanged or pending
Crawl == [pc : {"idle", "head", "load", "delete", "save", "upsert"},
          forced : BOOLEAN,  \* begun by a reingest
          found : Row,       \* get_by_url, until the hash is compared
          etag : Version \cup {0}, docs : Version \cup {0}]

NoRow == [hash |-> 0, etag |-> 0, status |-> "none"]
Exists(r) == r.status # "none"
Idle == [pc |-> "idle", forced |-> FALSE, found |-> NoRow, etag |-> 0, docs |-> 0]

TypeOK ==
    /\ version \in Version
    /\ row \in Row
    /\ ~Exists(row) => row = NoRow
    /\ chunks \in SUBSET Version
    /\ crawl \in [Crawls -> Crawl]
    /\ admin \in {"idle", "row"}
    /\ test \in [pc : {"idle", "save", "upsert"}, docs : Version \cup {0}]
    /\ failures \in 0 .. MaxFailures
    /\ alone \in SUBSET Crawls
    /\ trusted \in BOOLEAN

Init ==
    /\ version = 1
    /\ row = NoRow
    /\ chunks = {}
    /\ crawl = [c \in Crawls |-> Idle]
    /\ admin = "idle"
    /\ test = [pc |-> "idle", docs |-> 0]
    /\ failures = 0
    /\ alone = {}
    /\ trusted = TRUE

-----------------------------------------------------------------------------
(* Accesses *)

Fails ==
    /\ failures < MaxFailures
    /\ failures' = failures + 1

Succeeds == UNCHANGED failures

\* A write of the row, whose failure is logged and swallowed.
WritesRow(r) == (row' = r /\ Succeeds) \/ (row' = row /\ Fails)

\* A deletion of the page's chunks, whose failure is logged and swallowed.
DeletesChunks == (chunks' = {} /\ Succeeds) \/ (chunks' = chunks /\ Fails)

MarkUnchanged == IF Exists(row) THEN WritesRow([row EXCEPT !.status = "ok"])
                 ELSE UNCHANGED <<row, failures>>

\* Mutant of MarkError: the hash of the failed version is recorded, as
\* process_one_attachment does for attachments.
MarkErrorWithHash(docs) == row' \in {row, [row EXCEPT !.status = "error", !.hash = docs]}

\* The error is recorded, in a new row if need be; the old hash is kept. That
\* write may fail too.
MarkError(docs) == row' \in {row, [row EXCEPT !.status = "error"]}

Goes(c, pc) == crawl' = [crawl EXCEPT ![c].pc = pc]
Ends(c) == crawl' = [crawl EXCEPT ![c] = Idle] /\ alone' = alone \ {c}

NoCrawl == \A c \in Crawls : crawl[c].pc = "idle"
NoAdmin == admin = "idle" /\ test.pc = "idle"

\* A job begins, and these crawls may be alone from now on: beside another job
\* it spoils both.
Begin(lone) ==
    IF NoCrawl /\ NoAdmin THEN alone' = lone /\ UNCHANGED trusted
    ELSE alone' = {} /\ trusted' = FALSE

\* A job of an administrator ends; if it failed, the page is not what its row says.
EndOfAdmin == trusted' = (trusted /\ failures' = failures) /\ UNCHANGED alone

-----------------------------------------------------------------------------
(* _process_url *)

\* Of the row that was found the hash and the validators are looked at.
Begins(c, mode, found) ==
    /\ crawl[c].pc = "idle"
    /\ crawl' = [crawl EXCEPT ![c] =
         [Idle EXCEPT !.pc = IF mode = "incremental" /\ Exists(found) THEN "head"
                             ELSE "load",
                      !.forced = mode = "reingest",
                      !.found = IF Exists(found) THEN [found EXCEPT !.status = "ok"]
                                ELSE NoRow]]
    /\ Begin({c})
    /\ UNCHANGED <<version, chunks, admin, test>>

\* The row is looked up; a failed lookup looks like a page never seen.
Starts(c, mode) ==
    /\ UNCHANGED row
    /\ \/ Begins(c, mode, row) /\ Succeeds
       \/ Begins(c, mode, NoRow) /\ Fails

\* An administrator has the page crawled anew. A row is made for an unknown
\* page; hash and validators are reset, in the main database. A failed lookup
\* passes for an unknown page and a failed reset is logged.
Reingests(c) ==
    LET known == IF Exists(row) THEN row ELSE [NoRow EXCEPT !.status = "ok"]
        reset == IF SameDatabase THEN [known EXCEPT !.hash = 0, !.etag = 0] ELSE known
    IN \/ row' = reset /\ Begins(c, "reingest", row') /\ Succeeds
       \/ /\ row' \in {reset, known, [known EXCEPT !.status = "ok"]}
          /\ \E found \in {row', NoRow} : Begins(c, "reingest", found)
          /\ Fails

\* Mutant of Validates: a missing validator is equal to a missing one.
ValidatesMissing(c, etag) == crawl[c].found.etag = etag

Validates(c, etag) == etag # 0 /\ crawl[c].found.etag = etag

\* The HEAD request: its answer may lack validators. The one the row knows
\* ends the crawl.
ChecksHead(c) ==
    /\ crawl[c].pc = "head"
    /\ \E etag \in {0, version} :
         IF Validates(c, etag)
         THEN Ends(c) /\ MarkUnchanged
         ELSE /\ crawl' = [crawl EXCEPT ![c].pc = "load", ![c].etag = etag]
              /\ UNCHANGED <<row, failures, alone>>
    /\ UNCHANGED <<version, chunks, admin, test, trusted>>

\* Nothing could be loaded.
LoadsNothing(c) ==
    /\ crawl[c].pc = "load"
    /\ Ends(c)
    /\ MarkError(0)
    /\ Fails
    /\ UNCHANGED <<version, chunks, admin, test, trusted>>

\* The page has the hash the row knows.
LoadsSame(c) ==
    /\ crawl[c].pc = "load"
    /\ crawl[c].found.hash = version
    /\ Ends(c)
    /\ MarkUnchanged
    /\ UNCHANGED <<version, chunks, admin, test, trusted>>

\* A new version: the chunks of a page already known are deleted first.
LoadsNew(c) ==
    /\ crawl[c].pc = "load"
    /\ crawl[c].found.hash # version
    /\ crawl' = [crawl EXCEPT ![c].docs = version, ![c].found = NoRow,
                   ![c].pc = IF Exists(crawl[c].found) THEN "delete" ELSE "save"]
    /\ UNCHANGED <<version, row, chunks, admin, test, failures, observers>>

Deletes(c) ==
    /\ crawl[c].pc = "delete"
    /\ DeletesChunks
    /\ Goes(c, "save")
    /\ UNCHANGED <<version, row, admin, test, observers>>

Saves(c) ==
    /\ crawl[c].pc = "save"
    /\ chunks' = chunks \cup {crawl[c].docs}
    /\ Goes(c, "upsert")
    /\ Succeeds
    /\ UNCHANGED <<version, row, admin, test, observers>>

\* Embedding or insertion raised; a part of the chunks may have been inserted.
FailsToSave(c) ==
    /\ crawl[c].pc = "save"
    /\ chunks' \in {chunks, chunks \cup {crawl[c].docs}}
    /\ Ends(c)
    /\ MarkError(crawl[c].docs)
    /\ Fails
    /\ UNCHANGED <<version, admin, test, trusted>>

\* The row names the stored version. The validator is that of the HEAD request,
\* if there was one; otherwise the row keeps its old one.
Upserts(c) ==
    /\ crawl[c].pc = "upsert"
    /\ \/ /\ row' = [hash |-> crawl[c].docs, status |-> "ok",
                     etag |-> IF crawl[c].etag # 0 THEN crawl[c].etag ELSE row.etag]
          /\ Succeeds
          /\ trusted' = (trusted \/ c \in alone)
       \/ Fails /\ UNCHANGED <<row, trusted>>
    /\ Ends(c)
    /\ UNCHANGED <<version, chunks, admin, test>>

\* The process dies.
Crashes(c) ==
    /\ crawl[c].pc # "idle"
    /\ Ends(c)
    /\ Fails
    /\ UNCHANGED <<version, row, chunks, admin, test, trusted>>

-----------------------------------------------------------------------------
(* The administrator, and the site *)

\* delete_site_data: the chunks first, then the row.
DropsChunks ==
    /\ admin = "idle"
    /\ DeletesChunks
    /\ admin' = "row"
    /\ Begin({})
    /\ UNCHANGED <<version, row, crawl, test>>

\* Mutant of DropsRow: the row is only marked as deleted.
DropsRowSoftly ==
    /\ admin = "row"
    /\ WritesRow([row EXCEPT !.status = "none"])
    /\ admin' = "idle"
    /\ EndOfAdmin
    /\ UNCHANGED <<version, chunks, crawl, test>>

DropsRow ==
    /\ admin = "row"
    /\ WritesRow(NoRow)
    /\ admin' = "idle"
    /\ EndOfAdmin
    /\ UNCHANGED <<version, chunks, crawl, test>>

\* test_single_page stores the page whatever the row says, and leaves the hash
\* and the validators of the row alone.
TestLoads ==
    /\ test.pc = "idle"
    /\ DeletesChunks
    /\ test' = [pc |-> "save", docs |-> version]
    /\ Begin({})
    /\ UNCHANGED <<version, row, crawl, admin>>

TestSaves ==
    /\ test.pc = "save"
    /\ \/ /\ chunks' = chunks \cup {test.docs}
          /\ test' = [test EXCEPT !.pc = "upsert"]
          /\ Succeeds
       \/ /\ chunks' \in {chunks, chunks \cup {test.docs}}
          /\ test' = [pc |-> "idle", docs |-> 0]
          /\ Fails
    /\ EndOfAdmin
    /\ UNCHANGED <<version, row, crawl, admin>>

TestUpserts ==
    /\ test.pc = "upsert"
    /\ WritesRow([row EXCEPT !.status = "ok"])
    /\ test' = [pc |-> "idle", docs |-> 0]
    /\ EndOfAdmin
    /\ UNCHANGED <<version, chunks, crawl, admin>>

\* The site serves a new version of the page.
Publishes ==
    /\ version < MaxVersion
    /\ version' = version + 1
    /\ UNCHANGED <<row, chunks, jobVars, failures, observers>>

-----------------------------------------------------------------------------
CrawlStep(c) == \/ ChecksHead(c) \/ LoadsNothing(c) \/ LoadsSame(c) \/ LoadsNew(c)
                \/ Deletes(c) \/ Saves(c) \/ FailsToSave(c) \/ Upserts(c)
AdminStep == DropsRow \/ TestSaves \/ TestUpserts

Next ==
    \/ \E c \in Crawls : \/ CrawlStep(c) \/ Crashes(c) \/ Reingests(c)
                         \/ \E mode \in {"incremental", "full"} : Starts(c, mode)
    \/ AdminStep \/ DropsChunks \/ TestLoads
    \/ Publishes

Spec == Init /\ [][Next]_vars

\* A job that was begun goes on, and crawls of one mode or the other keep being
\* started (by the schedule, an administrator, or the worker).
Fairness ==
    /\ \A c \in Crawls : WF_vars(CrawlStep(c))
    /\ WF_vars(AdminStep)
    /\ WF_vars(\E c \in Crawls, mode \in {"incremental", "full"} : Starts(c, mode))

FairSpec == Spec /\ Fairness

-----------------------------------------------------------------------------
(* Properties *)

\* No administrator's job is under way, and none has spoilt the page.
Settled == trusted /\ NoAdmin

\* What the crawler will call unchanged can be found: a page whose hash or
\* validator is known is never stored again, so its chunks must be there. True
\* through failures and crashes of a crawl at any point, through deletions and
\* tests, as long as jobs do not overlap, and true again once a lone crawl has
\* stored the page (crawler.py:427-452).
UnchangedIsSearchable ==
    Settled /\ version \in {row.hash, row.etag} => version \in chunks

\* When jobs have stopped overlapping, accesses failing and administrators
\* reingesting (which takes the chunks away for a while), the version the site
\* serves becomes searchable and stays so (crawler.py:410-498).
Calm == Settled /\ \A c \in Crawls : ~crawl[c].forced

Converges == <>[]Calm => <>[](version \in chunks)

=============================================================================
