--------------------------- MODULE CrawlPageProofs ---------------------------
(***************************************************************************)
(* Proofs about CrawlPage, for any crawls, versions and failures, whichever*)
(* database the reset of a reingest reaches.                               *)
(***************************************************************************)
EXTENDS CrawlPage, TLAPS

Writing == {"delete", "save", "upsert"}

-----------------------------------------------------------------------------
(* The inductive invariant *)

\* Nothing is recorded of a version the site has not served yet, and a crawl
\* writes no validator newer than the text it loaded.
Dated ==
    /\ row.hash <= version /\ row.etag <= version
    /\ \A c \in Crawls : /\ crawl[c].docs <= version /\ crawl[c].etag <= version
                         /\ crawl[c].pc \in Writing => crawl[c].etag <= crawl[c].docs
    /\ test.docs <= version

\* Beside a lone crawl nothing runs, and while the page is trusted one job at
\* most is under way.
Exclusive ==
    /\ \A c \in alone : NoAdmin /\ \A d \in Crawls : crawl[d].pc # "idle" => d = c
    /\ trusted => /\ \A c \in Crawls : crawl[c].pc # "idle" => c \in alone
                  /\ admin = "idle" \/ test.pc = "idle"
                  /\ ~NoAdmin => NoCrawl

\* A lone crawl knows the row, and has stored what it is about to record.
LoneKnows ==
    \A c \in alone :
      /\ crawl[c].pc # "idle"
      /\ crawl[c].pc = "load" /\ Exists(crawl[c].found) => crawl[c].found.hash = row.hash
      /\ crawl[c].pc = "head" => crawl[c].found.hash = row.hash
      /\ crawl[c].pc \in Writing => row.hash <= crawl[c].docs /\ row.etag <= crawl[c].docs
      /\ crawl[c].pc = "delete" => row.hash # crawl[c].docs
      /\ crawl[c].pc = "upsert" => crawl[c].docs \in chunks

\* The same of a test, and what UnchangedIsSearchable says of the hash.
Sound ==
    trusted => /\ row.etag <= row.hash
               /\ NoAdmin /\ row.hash = version => version \in chunks
               /\ test.pc # "idle" => row.hash <= test.docs
               /\ test.pc = "upsert" => test.docs \in chunks

-----------------------------------------------------------------------------
(* Type correctness *)

\* What is written into a row is a row, and one that is there if it was.
LEMMA RowType ==
    ASSUME NEW r \in Row, NEW s \in {"ok", "error"}
    PROVE  /\ [r EXCEPT !.status = s] \in Row /\ Exists([r EXCEPT !.status = s])
           /\ [r EXCEPT !.hash = 0, !.etag = 0] \in Row
           /\ Exists(r) => Exists([r EXCEPT !.hash = 0, !.etag = 0])
  BY DEF Row, Exists

LEMMA NoRowType == NoRow \in Row /\ ~Exists(NoRow)
  BY DEF NoRow, Row, Exists

LEMMA IdleType == Idle \in Crawl
  BY NoRowType DEF Idle, Crawl

\* The row is a row: the part of TypeOK about it.
RowOK == row \in Row /\ (~Exists(row) => row = NoRow)

LEMMA WritesRowType ==
    ASSUME RowOK, failures \in 0 .. MaxFailures, NEW r \in Row, ~Exists(r) => r = NoRow,
           WritesRow(r)
    PROVE  RowOK' /\ failures' \in 0 .. MaxFailures
  <1>1. failures' \in 0 .. MaxFailures
    BY CrawlAssumption DEF WritesRow, Succeeds, Fails
  <1>2. row' = r \/ row' = row
    BY DEF WritesRow
  <1> QED
    BY <1>1, <1>2 DEF RowOK, Exists

\* How the local state of one crawl changes; the other crawls keep theirs.
Others(c) == crawl' \in [Crawls -> Crawl] /\ \A d \in Crawls \ {c} : crawl'[d] = crawl[d]

LEMMA Updated ==
    ASSUME crawl \in [Crawls -> Crawl], NEW c \in Crawls, NEW x \in Crawl,
           crawl' = [crawl EXCEPT ![c] = x]
    PROVE  Others(c) /\ crawl'[c] = x
  BY DEF Others

LEMMA GoesMoves ==
    ASSUME crawl \in [Crawls -> Crawl], NEW c \in Crawls,
           NEW pc \in {"load", "save", "upsert"}, Goes(c, pc)
    PROVE  /\ Others(c) /\ crawl'[c].pc = pc
           /\ crawl'[c].docs = crawl[c].docs /\ crawl'[c].etag = crawl[c].etag
           /\ crawl'[c].found = crawl[c].found
  <1> DEFINE x == [crawl[c] EXCEPT !.pc = pc]
  <1>1. /\ x \in Crawl /\ x.pc = pc /\ x.docs = crawl[c].docs
        /\ x.etag = crawl[c].etag /\ x.found = crawl[c].found
    BY DEF Crawl
  <1>2. crawl' = [crawl EXCEPT ![c] = x]
    BY DEF Goes
  <1> QED
    BY <1>1, <1>2, Updated

LEMMA EndsMoves ==
    ASSUME crawl \in [Crawls -> Crawl], NEW c \in Crawls, Ends(c)
    PROVE  Others(c) /\ crawl'[c] = Idle
  BY IdleType, Updated DEF Ends

LEMMA LooksMoves ==
    ASSUME crawl \in [Crawls -> Crawl], NEW c \in Crawls, NEW etag \in Version \cup {0},
           crawl' = [crawl EXCEPT ![c].pc = "load", ![c].etag = etag]
    PROVE  /\ Others(c) /\ crawl'[c].pc = "load" /\ crawl'[c].etag = etag
           /\ crawl'[c].docs = crawl[c].docs /\ crawl'[c].found = crawl[c].found
  <1> DEFINE x == [crawl[c] EXCEPT !.pc = "load", !.etag = etag]
  <1>1. /\ x \in Crawl /\ x.pc = "load" /\ x.docs = crawl[c].docs
        /\ x.etag = etag /\ x.found = crawl[c].found
    BY DEF Crawl
  <1>2. crawl' = [crawl EXCEPT ![c] = x]
    OBVIOUS
  <1> QED
    BY <1>1, <1>2, Updated

LEMMA LoadsMoves ==
    ASSUME crawl \in [Crawls -> Crawl], version \in Version, NEW c \in Crawls, LoadsNew(c)
    PROVE  /\ Others(c) /\ crawl'[c].docs = version /\ crawl'[c].etag = crawl[c].etag
           /\ crawl'[c].pc = IF Exists(crawl[c].found) THEN "delete" ELSE "save"
  <1> DEFINE pc == IF Exists(crawl[c].found) THEN "delete" ELSE "save"
             x == [crawl[c] EXCEPT !.docs = version, !.found = NoRow, !.pc = pc]
  <1>1. pc \in {"delete", "save"}
    OBVIOUS
  <1> HIDE DEF pc
  <1>2. x \in Crawl /\ x.pc = pc /\ x.docs = version /\ x.etag = crawl[c].etag
    BY <1>1, NoRowType DEF Crawl
  <1>3. crawl' = [crawl EXCEPT ![c] = x]
    BY DEF LoadsNew, pc
  <1> QED
    BY <1>2, <1>3, Updated DEF pc

LEMMA BeginsMoves ==
    ASSUME crawl \in [Crawls -> Crawl], NEW c \in Crawls, NEW mode, NEW found \in Row,
           Begins(c, mode, found)
    PROVE  /\ Others(c) /\ crawl'[c].docs = 0 /\ crawl'[c].etag = 0
           /\ crawl'[c].pc \in {"head", "load"}
           /\ crawl'[c].pc = "head" => Exists(found)
           /\ Exists(crawl'[c].found) => Exists(found)
           /\ Exists(found) => crawl'[c].found.hash = found.hash
  <1> DEFINE pc == IF mode = "incremental" /\ Exists(found) THEN "head" ELSE "load"
             known == IF Exists(found) THEN [found EXCEPT !.status = "ok"] ELSE NoRow
             x == [Idle EXCEPT !.pc = pc, !.forced = mode = "reingest", !.found = known]
  <1>1. pc \in {"head", "load"} /\ (pc = "head" => Exists(found))
    OBVIOUS
  <1>2. known \in Row /\ (Exists(known) => Exists(found))
    BY RowType, NoRowType
  <1>3. Exists(found) => known.hash = found.hash
    BY DEF Row
  <1>4. crawl' = [crawl EXCEPT ![c] = x]
    BY DEF Begins
  <1> HIDE DEF pc, known
  <1>5. /\ x \in Crawl /\ x.pc = pc /\ x.docs = 0 /\ x.etag = 0 /\ x.found = known
    BY <1>1, <1>2, IdleType DEF Crawl, Idle
  <1> QED
    BY <1>1, <1>2, <1>3, <1>4, <1>5, Updated

\* What a job that begins or ends does to the observers.
ObserversOK == alone \in SUBSET Crawls /\ trusted \in BOOLEAN

LEMMA FailsType ==
    ASSUME failures \in 0 .. MaxFailures, Fails \/ Succeeds
    PROVE  failures' \in 0 .. MaxFailures
  BY CrawlAssumption DEF Fails, Succeeds

LEMMA BeginType ==
    ASSUME ObserversOK, NEW lone \in SUBSET Crawls, Begin(lone)
    PROVE  ObserversOK'
  BY DEF ObserversOK, Begin

LEMMA TestType ==
    ASSUME version \in Version,
           test \in [pc : {"idle", "save", "upsert"}, docs : Version \cup {0}]
    PROVE  /\ test.docs \in Version \cup {0}
           /\ [test EXCEPT !.pc = "upsert"] \in [pc : {"idle", "save", "upsert"}, docs : Version \cup {0}]
           /\ [pc |-> "idle", docs |-> 0] \in [pc : {"idle", "save", "upsert"}, docs : Version \cup {0}]
           /\ [pc |-> "save", docs |-> version] \in [pc : {"idle", "save", "upsert"}, docs : Version \cup {0}]
  OBVIOUS

\* The type invariant, part by part, in a state and in the next one.
Parts == /\ version \in Version /\ RowOK /\ chunks \in SUBSET Version
         /\ crawl \in [Crawls -> Crawl] /\ admin \in {"idle", "row"}
         /\ test \in [pc : {"idle", "save", "upsert"}, docs : Version \cup {0}]
         /\ failures \in 0 .. MaxFailures /\ ObserversOK

LEMMA TypeParts == (TypeOK <=> Parts) /\ (TypeOK' <=> Parts')
  BY DEF TypeOK, Parts, RowOK, ObserversOK

\* A row that is marked is a row.
LEMMA MarksType ==
    ASSUME RowOK, failures \in 0 .. MaxFailures, MarkUnchanged
    PROVE  RowOK' /\ failures' \in 0 .. MaxFailures
  <1>1. CASE Exists(row)
    <2>1. WritesRow([row EXCEPT !.status = "ok"])
      BY <1>1 DEF MarkUnchanged
    <2>2. [row EXCEPT !.status = "ok"] \in Row /\ Exists([row EXCEPT !.status = "ok"])
      BY RowType DEF RowOK
    <2> QED
      BY <2>1, <2>2, WritesRowType
  <1>2. CASE ~Exists(row)
    BY <1>2 DEF MarkUnchanged, RowOK, Exists
  <1> QED
    BY <1>1, <1>2

LEMMA ErrorType ==
    ASSUME RowOK, NEW docs, MarkError(docs)
    PROVE  RowOK'
  <1>1. [row EXCEPT !.status = "error"] \in Row /\ Exists([row EXCEPT !.status = "error"])
    BY RowType DEF RowOK
  <1>2. row' = row \/ row' = [row EXCEPT !.status = "error"]
    BY DEF MarkError
  <1> QED
    BY <1>1, <1>2 DEF RowOK, Exists

\* A reingest leaves a row with a hash of NULL or the old one.
LEMMA ReingestsMoves ==
    ASSUME RowOK, NEW c \in Crawls, Reingests(c)
    PROVE  /\ row' \in Row /\ Exists(row')
           /\ \/ row'.hash = row.hash /\ row'.etag = row.etag
              \/ row'.hash = 0 /\ row'.etag = 0
           /\ \E found \in {row', NoRow} : Begins(c, "reingest", found)
           /\ Fails \/ Succeeds
  <1> DEFINE stub == [NoRow EXCEPT !.status = "ok"]
             known == IF Exists(row) THEN row ELSE stub
             null == [known EXCEPT !.hash = 0, !.etag = 0]
             reset == IF SameDatabase THEN null ELSE known
             lost == [known EXCEPT !.status = "ok"]
  <1>1. stub \in Row /\ Exists(stub) /\ stub.hash = 0 /\ stub.etag = 0
    BY DEF NoRow, Row, Exists
  <1>2. /\ known \in Row /\ Exists(known)
        /\ known.hash = row.hash /\ known.etag = row.etag
    <2>1. CASE Exists(row)
      BY <2>1 DEF RowOK
    <2>2. CASE ~Exists(row)
      BY <2>2, <1>1 DEF RowOK, NoRow
    <2> QED
      BY <2>1, <2>2
  <1>3. /\ row' \in {reset, known, lost}
        /\ \E found \in {row', NoRow} : Begins(c, "reingest", found)
        /\ Fails \/ Succeeds
    BY DEF Reingests
  <1> HIDE DEF known
  <1>4. null \in Row /\ Exists(null) /\ null.hash = 0 /\ null.etag = 0
    BY <1>2, RowType DEF Row
  <1>5. lost \in Row /\ Exists(lost) /\ lost.hash = known.hash /\ lost.etag = known.etag
    BY <1>2, RowType DEF Row
  <1> HIDE DEF null, lost
  <1>6. row' = null \/ row' = known \/ row' = lost
    BY <1>3
  <1>7. \/ row'.hash = row.hash /\ row'.etag = row.etag
        \/ row'.hash = 0 /\ row'.etag = 0
    BY <1>2, <1>4, <1>5, <1>6
  <1>8. row' \in Row /\ Exists(row')
    BY <1>2, <1>4, <1>5, <1>6
  <1> HIDE DEF stub, reset
  <1> QED
    BY <1>3, <1>7, <1>8

\* A recorded version is a row.
LEMMA UpsertsMoves ==
    ASSUME RowOK, crawl \in [Crawls -> Crawl], NEW c \in Crawls, Upserts(c)
    PROVE  /\ \/ /\ row' \in Row /\ Exists(row') /\ Succeeds
                 /\ row'.hash = crawl[c].docs
                 /\ \/ row'.etag = crawl[c].etag
                    \/ row'.etag = row.etag
                 /\ trusted' = (trusted \/ c \in alone)
              \/ row' = row /\ Fails /\ trusted' = trusted
           /\ Ends(c)
  <1> DEFINE etag == IF crawl[c].etag # 0 THEN crawl[c].etag ELSE row.etag
             new == [hash |-> crawl[c].docs, status |-> "ok", etag |-> etag]
  <1>1. etag \in Version \cup {0} /\ crawl[c].docs \in Version \cup {0}
    BY DEF Crawl, Row, RowOK
  <1>2. \/ row' = new /\ Succeeds /\ trusted' = (trusted \/ c \in alone)
        \/ row' = row /\ Fails /\ trusted' = trusted
    BY DEF Upserts
  <1>3. etag = crawl[c].etag \/ etag = row.etag
    OBVIOUS
  <1> HIDE DEF etag
  <1>4. new \in Row /\ Exists(new) /\ new.hash = crawl[c].docs /\ new.etag = etag
    BY <1>1 DEF Row, Exists
  <1>5. Ends(c)
    BY DEF Upserts
  <1> QED
    BY <1>2, <1>3, <1>4, <1>5

\* A job that stores chunks has loaded a version.
Loaded == /\ \A c \in Crawls : crawl[c].pc \in Writing => crawl[c].docs \in Version
          /\ test.pc # "idle" => test.docs \in Version

\* Every action keeps the types.
LEMMA CrawlTypeStep ==
    ASSUME TypeOK, Loaded, NEW c \in Crawls, CrawlStep(c) \/ Crashes(c)
    PROVE  TypeOK'
  <1> USE TypeParts DEF Parts
  <1>1. CASE ChecksHead(c)
    <2>1. crawl' \in [Crawls -> Crawl]
      <3>1. PICK etag \in {0, version} :
              Ends(c) \/ crawl' = [crawl EXCEPT ![c].pc = "load", ![c].etag = etag]
        BY <1>1 DEF ChecksHead
      <3> QED
        BY <3>1, EndsMoves, LooksMoves DEF Others
    <2>2. RowOK' /\ failures' \in 0 .. MaxFailures
      BY <1>1, MarksType DEF ChecksHead, RowOK, Exists
    <2>3. ObserversOK'
      BY <1>1 DEF ChecksHead, ObserversOK, Ends
    <2> QED
      BY <1>1, <2>1, <2>2, <2>3 DEF ChecksHead
  <1>2. CASE LoadsNothing(c) \/ LoadsSame(c) \/ Crashes(c)
    <2>1. RowOK' /\ failures' \in 0 .. MaxFailures
      BY <1>2, MarksType, ErrorType, FailsType
         DEF LoadsNothing, LoadsSame, Crashes, RowOK, Exists
    <2>2. crawl' \in [Crawls -> Crawl] /\ ObserversOK'
      BY <1>2, EndsMoves DEF LoadsNothing, LoadsSame, Crashes, Others, ObserversOK, Ends
    <2> QED
      BY <1>2, <2>1, <2>2 DEF LoadsNothing, LoadsSame, Crashes
  <1>3. CASE LoadsNew(c)
    <2>1. crawl' \in [Crawls -> Crawl]
      BY <1>3, LoadsMoves DEF Others
    <2> QED
      BY <1>3, <2>1 DEF LoadsNew, ObserversOK, RowOK, Exists, observers
  <1>4. CASE Deletes(c) \/ Saves(c)
    <2>1. chunks' \in SUBSET Version
      BY <1>4 DEF Deletes, Saves, DeletesChunks, Loaded, Writing
    <2>2. failures' \in 0 .. MaxFailures
      BY <1>4, FailsType DEF Deletes, Saves, DeletesChunks
    <2>3. crawl' \in [Crawls -> Crawl]
      BY <1>4, GoesMoves DEF Deletes, Saves, Others
    <2> QED
      BY <1>4, <2>1, <2>2, <2>3 DEF Deletes, Saves, ObserversOK, RowOK, Exists, observers
  <1>5. CASE FailsToSave(c)
    <2>1. chunks' \in SUBSET Version
      BY <1>5 DEF FailsToSave, Loaded, Writing
    <2>2. failures' \in 0 .. MaxFailures /\ RowOK'
      BY <1>5, FailsType, ErrorType DEF FailsToSave
    <2>3. crawl' \in [Crawls -> Crawl] /\ ObserversOK'
      BY <1>5, EndsMoves DEF FailsToSave, Others, ObserversOK, Ends
    <2> QED
      BY <1>5, <2>1, <2>2, <2>3 DEF FailsToSave
  <1>6. CASE Upserts(c)
    <2>1. RowOK' /\ trusted' \in BOOLEAN /\ Ends(c)
      BY <1>6, UpsertsMoves DEF RowOK, Exists, ObserversOK
    <2>2. failures' \in 0 .. MaxFailures
      BY <1>6, UpsertsMoves, FailsType
    <2>3. crawl' \in [Crawls -> Crawl]
      BY <2>1, EndsMoves DEF Others
    <2>4. alone' \in SUBSET Crawls
      BY <2>1 DEF Ends, ObserversOK
    <2> QED
      BY <1>6, <2>1, <2>2, <2>3, <2>4 DEF Upserts, ObserversOK
  <1> QED
    BY <1>1, <1>2, <1>3, <1>4, <1>5, <1>6 DEF CrawlStep

LEMMA BeginTypeStep ==
    ASSUME TypeOK, NEW c \in Crawls,
           Reingests(c) \/ \E mode \in {"incremental", "full"} : Starts(c, mode)
    PROVE  TypeOK'
  <1> USE TypeParts DEF Parts
  <1>1. /\ RowOK' /\ (Fails \/ Succeeds)
        /\ \E mode \in {"incremental", "full", "reingest"} : \E found \in Row :
             Begins(c, mode, found)
    <2>1. CASE Reingests(c)
      BY <2>1, ReingestsMoves, NoRowType DEF RowOK
    <2>2. ASSUME NEW mode \in {"incremental", "full"}, Starts(c, mode)
          PROVE  /\ row' = row /\ (Fails \/ Succeeds)
                 /\ Begins(c, mode, row) \/ Begins(c, mode, NoRow)
      BY <2>2 DEF Starts
    <2> QED
      BY <2>1, <2>2, NoRowType DEF RowOK, Exists
  <1>2. PICK mode \in {"incremental", "full", "reingest"}, found \in Row :
          Begins(c, mode, found)
    BY <1>1
  <1>3. crawl' \in [Crawls -> Crawl]
    BY <1>2, BeginsMoves DEF Others
  <1>4. ObserversOK'
    BY <1>2, BeginType DEF Begins
  <1>5. failures' \in 0 .. MaxFailures
    BY <1>1, FailsType
  <1> QED
    BY <1>1, <1>2, <1>3, <1>4, <1>5 DEF Begins

LEMMA AdminTypeStep ==
    ASSUME TypeOK, Loaded, AdminStep \/ DropsChunks \/ TestLoads
    PROVE  TypeOK'
  <1> USE TypeParts DEF Parts
  <1>1. CASE DropsRow
    <2>1. RowOK' /\ failures' \in 0 .. MaxFailures
      BY <1>1, WritesRowType, NoRowType DEF DropsRow
    <2> QED
      BY <1>1, <2>1 DEF DropsRow, EndOfAdmin, ObserversOK
  <1>2. CASE TestSaves
    <2>1. chunks' \in SUBSET Version
      BY <1>2 DEF TestSaves, Loaded
    <2>2. failures' \in 0 .. MaxFailures
      BY <1>2, FailsType DEF TestSaves
    <2>3. test' \in [pc : {"idle", "save", "upsert"}, docs : Version \cup {0}]
      BY <1>2, TestType DEF TestSaves
    <2> QED
      BY <1>2, <2>1, <2>2, <2>3 DEF TestSaves, EndOfAdmin, ObserversOK, RowOK, Exists
  <1>3. CASE TestUpserts
    <2>1. RowOK' /\ failures' \in 0 .. MaxFailures
      <3>1. [row EXCEPT !.status = "ok"] \in Row /\ Exists([row EXCEPT !.status = "ok"])
        BY RowType DEF RowOK
      <3> QED
        BY <1>3, <3>1, WritesRowType DEF TestUpserts
    <2> QED
      BY <1>3, <2>1, TestType DEF TestUpserts, EndOfAdmin, ObserversOK
  <1>4. CASE DropsChunks
    <2>1. chunks' \in SUBSET Version /\ failures' \in 0 .. MaxFailures
      BY <1>4, FailsType DEF DropsChunks, DeletesChunks
    <2>2. ObserversOK'
      BY <1>4, BeginType DEF DropsChunks
    <2> QED
      BY <1>4, <2>1, <2>2 DEF DropsChunks, RowOK, Exists
  <1>5. CASE TestLoads
    <2>1. chunks' \in SUBSET Version /\ failures' \in 0 .. MaxFailures
      BY <1>5, FailsType DEF TestLoads, DeletesChunks
    <2>2. ObserversOK'
      BY <1>5, BeginType DEF TestLoads
    <2> QED
      BY <1>5, <2>1, <2>2, TestType DEF TestLoads, RowOK, Exists
  <1> QED
    BY <1>1, <1>2, <1>3, <1>4, <1>5 DEF AdminStep

LEMMA TypeStep ==
    ASSUME TypeOK, Loaded, [Next]_vars
    PROVE  TypeOK'
  <1>1. CASE Publishes
    BY <1>1, CrawlAssumption DEF Publishes, TypeOK, Version, jobVars, observers, Exists
  <1>2. CASE UNCHANGED vars
    BY <1>2 DEF vars, TypeOK, Exists
  <1> QED
    BY <1>1, <1>2, CrawlTypeStep, BeginTypeStep, AdminTypeStep DEF Next

\* A version that was loaded is a version.
LEMMA LoadedStep ==
    ASSUME TypeOK, Loaded, [Next]_vars
    PROVE  Loaded'
  <1> USE TypeParts DEF Parts
  <1>1. ASSUME NEW c \in Crawls, CrawlStep(c) \/ Crashes(c) PROVE Loaded'
    <2>1. CASE Ends(c) /\ test' = test
      BY <2>1, EndsMoves DEF Loaded, Others, Idle, Writing
    <2>2. CASE ChecksHead(c) /\ ~Ends(c)
      <3>1. PICK etag \in {0, version} :
              crawl' = [crawl EXCEPT ![c].pc = "load", ![c].etag = etag]
        BY <2>2 DEF ChecksHead
      <3> QED
        BY <2>2, <3>1, LooksMoves DEF ChecksHead, Loaded, Others, Writing
    <2>3. CASE LoadsNew(c)
      BY <2>3, LoadsMoves DEF LoadsNew, Loaded, Others, Writing
    <2>4. CASE Deletes(c) \/ Saves(c)
      BY <2>4, GoesMoves DEF Deletes, Saves, Loaded, Others, Writing
    <2> QED
      BY <1>1, <2>1, <2>2, <2>3, <2>4
         DEF CrawlStep, ChecksHead, LoadsNothing, LoadsSame, FailsToSave, Upserts, Crashes
  <1>2. ASSUME NEW c \in Crawls, NEW mode, NEW found \in Row, Begins(c, mode, found)
        PROVE Loaded'
    BY <1>2, BeginsMoves DEF Begins, Loaded, Others, Writing
  <1>3. ASSUME NEW c \in Crawls,
               Reingests(c) \/ \E mode \in {"incremental", "full"} : Starts(c, mode)
        PROVE Loaded'
    BY <1>2, <1>3, ReingestsMoves, NoRowType DEF Starts, RowOK
  <1>4. CASE DropsRow \/ DropsChunks \/ Publishes \/ UNCHANGED vars
    BY <1>4 DEF DropsRow, DropsChunks, Publishes, jobVars, vars, Loaded
  <1>5. CASE TestLoads
    <2>1. test'.docs = version /\ crawl' = crawl
      BY <1>5 DEF TestLoads
    <2> QED
      BY <2>1 DEF Loaded
  <1>6. CASE TestSaves \/ TestUpserts
    <2>1. crawl' = crawl /\ (test'.pc # "idle" => test.pc # "idle" /\ test'.docs = test.docs)
      BY <1>6 DEF TestSaves, TestUpserts
    <2> QED
      BY <2>1 DEF Loaded
  <1> QED
    BY <1>1, <1>3, <1>4, <1>5, <1>6 DEF Next, AdminStep

\* Types are correct for every bound: whatever fails or dies, a row that is
\* dropped is gone with its hash and validators, and no chunks are stored but
\* of a version that was loaded.
THEOREM TypeCorrect == Spec => []TypeOK
  <1>1. Init => TypeOK /\ Loaded
    <2> SUFFICES ASSUME Init PROVE TypeOK /\ Loaded
      OBVIOUS
    <2>1. crawl \in [Crawls -> Crawl] /\ \A c \in Crawls : crawl[c].pc = "idle"
      BY IdleType DEF Init, Idle
    <2> QED
      BY <2>1, NoRowType, CrawlAssumption, TypeParts
         DEF Init, Parts, Loaded, Writing, RowOK, ObserversOK, Version
  <1>2. TypeOK /\ Loaded /\ [Next]_vars => (TypeOK /\ Loaded)'
    BY TypeStep, LoadedStep
  <1> QED
    BY <1>1, <1>2, PTL DEF Spec

-----------------------------------------------------------------------------
(* What the steps do, as far as the invariant goes *)

\* The crawl ends with the page as it was, but for chunks stored in part.
GivesUp(c) ==
    /\ Ends(c)
    /\ row'.hash = row.hash /\ row'.etag = row.etag
    /\ chunks \subseteq chunks'
    /\ UNCHANGED <<version, admin, test, trusted>>

\* The HEAD request does not end the crawl.
Looks(c) ==
    /\ crawl[c].pc = "head" /\ Others(c)
    /\ crawl'[c].pc = "load" /\ crawl'[c].etag \in {0, version}
    /\ crawl'[c].docs = crawl[c].docs /\ crawl'[c].found = crawl[c].found
    /\ UNCHANGED <<version, row, chunks, admin, test, observers>>

\* A new version is loaded.
Loads(c) ==
    /\ crawl[c].pc = "load" /\ crawl[c].found.hash # version /\ Others(c)
    /\ crawl'[c].docs = version /\ crawl'[c].etag = crawl[c].etag
    /\ crawl'[c].pc = IF Exists(crawl[c].found) THEN "delete" ELSE "save"
    /\ UNCHANGED <<version, row, chunks, admin, test, observers>>

\* The crawl records the version it stored.
Records(c) ==
    /\ crawl[c].pc = "upsert"
    /\ Ends(c)
    /\ row'.hash = crawl[c].docs /\ row'.etag \in {crawl[c].etag, row.etag}
    /\ trusted' = (trusted \/ c \in alone)
    /\ UNCHANGED <<version, chunks, admin, test>>

\* A crawl begins and has found the row, or nothing.
Begun(c) ==
    /\ \E mode \in {"incremental", "full", "reingest"} :
         Begins(c, mode, row') \/ Begins(c, mode, NoRow)
    /\ row' \in Row
    /\ \/ row'.hash = row.hash /\ row'.etag = row.etag
       \/ row'.hash = 0 /\ row'.etag = 0

LEMMA MarksMoves ==
    ASSUME row \in Row,
           MarkUnchanged \/ (\E docs : MarkError(docs)) \/ WritesRow([row EXCEPT !.status = "ok"])
    PROVE  row'.hash = row.hash /\ row'.etag = row.etag
  <1>1. \/ row' = row \/ row' = [row EXCEPT !.status = "ok"]
        \/ row' = [row EXCEPT !.status = "error"]
    BY DEF MarkUnchanged, MarkError, WritesRow
  <1> QED
    BY <1>1 DEF Row

LEMMA CrawlMoves ==
    ASSUME TypeOK, NEW c \in Crawls, CrawlStep(c) \/ Crashes(c)
    PROVE  \/ GivesUp(c) \/ Looks(c) \/ Loads(c)
           \/ Deletes(c) \/ Saves(c) \/ Records(c)
  <1> USE TypeParts DEF Parts
  <1>1. CASE ChecksHead(c)
    <2>1. ASSUME Ends(c), MarkUnchanged PROVE GivesUp(c)
      BY <1>1, <2>1, MarksMoves DEF ChecksHead, GivesUp, RowOK
    <2>2. ASSUME NEW etag \in {0, version},
                 crawl' = [crawl EXCEPT ![c].pc = "load", ![c].etag = etag],
                 UNCHANGED <<row, failures, alone>>
          PROVE  Looks(c)
      <3>1. /\ Others(c) /\ crawl'[c].pc = "load" /\ crawl'[c].etag = etag
            /\ crawl'[c].docs = crawl[c].docs /\ crawl'[c].found = crawl[c].found
        BY <2>2, LooksMoves
      <3> QED
        BY <1>1, <2>2, <3>1 DEF ChecksHead, Looks, observers
    <2> QED
      BY <1>1, <2>1, <2>2 DEF ChecksHead
  <1>2. CASE LoadsNothing(c) \/ LoadsSame(c) \/ Crashes(c) \/ FailsToSave(c)
    <2>1. row'.hash = row.hash /\ row'.etag = row.etag
      BY <1>2, MarksMoves DEF LoadsNothing, LoadsSame, Crashes, FailsToSave, RowOK
    <2> QED
      BY <1>2, <2>1 DEF LoadsNothing, LoadsSame, Crashes, FailsToSave, GivesUp
  <1>3. CASE Upserts(c)
    BY <1>3, UpsertsMoves DEF Upserts, GivesUp, Records
  <1>4. CASE LoadsNew(c)
    <2>1. Others(c) /\ crawl'[c].docs = version /\ crawl'[c].etag = crawl[c].etag
      BY <1>4, LoadsMoves
    <2>2. crawl'[c].pc = IF Exists(crawl[c].found) THEN "delete" ELSE "save"
      BY <1>4, LoadsMoves
    <2>3. /\ crawl[c].pc = "load" /\ crawl[c].found.hash # version
          /\ UNCHANGED <<version, row, chunks, admin, test, observers>>
      BY <1>4 DEF LoadsNew, observers
    <2> QED
      BY <2>1, <2>2, <2>3 DEF Loads
  <1> QED
    BY <1>1, <1>2, <1>3, <1>4 DEF CrawlStep

LEMMA BeginMoves ==
    ASSUME TypeOK, NEW c \in Crawls,
           Reingests(c) \/ \E mode \in {"incremental", "full"} : Starts(c, mode)
    PROVE  Begun(c)
  BY TypeParts, ReingestsMoves DEF Parts, Begun, Starts, RowOK

-----------------------------------------------------------------------------
(* The inductive invariant is inductive *)

\* Versions are numbers.
LEMMA Numbers ==
    ASSUME TypeOK
    PROVE  /\ version \in Nat /\ row.hash \in Nat /\ row.etag \in Nat /\ test.docs \in Nat
           /\ \A c \in Crawls : crawl[c].docs \in Nat /\ crawl[c].etag \in Nat
  <1>1. Version \cup {0} \subseteq Nat
    BY CrawlAssumption DEF Version
  <1>2. row.hash \in Version \cup {0} /\ row.etag \in Version \cup {0}
    BY DEF TypeOK, Row
  <1>3. \A c \in Crawls : crawl[c].docs \in Version \cup {0} /\ crawl[c].etag \in Version \cup {0}
    BY DEF TypeOK, Crawl
  <1>4. version \in Version \cup {0} /\ test.docs \in Version \cup {0}
    BY DEF TypeOK
  <1> QED
    BY <1>1, <1>2, <1>3, <1>4

LEMMA DatedStep ==
    ASSUME TypeOK, Dated, [Next]_vars
    PROVE  Dated'
  <1> USE TypeParts, Numbers DEF Parts
  <1>1. ASSUME NEW c \in Crawls, CrawlStep(c) \/ Crashes(c) PROVE Dated'
    <2>1. CASE GivesUp(c)
      BY <2>1, EndsMoves DEF GivesUp, Dated, Others, Idle, Writing
    <2>2. CASE Looks(c)
      <3>1. \A d \in Crawls \ {c} : crawl'[d] = crawl[d]
        BY <2>2 DEF Looks, Others
      <3>2. UNCHANGED <<version, row, test>>
        BY <2>2 DEF Looks
      <3>3. /\ crawl'[c].docs <= version /\ crawl'[c].etag <= version
            /\ crawl'[c].pc \notin Writing
        BY <2>2 DEF Looks, Dated, Writing
      <3> QED
        BY <3>1, <3>2, <3>3 DEF Dated, Writing
    <2>3. CASE Loads(c)
      <3>1. \A d \in Crawls \ {c} : crawl'[d] = crawl[d]
        BY <2>3 DEF Loads, Others
      <3>2. UNCHANGED <<version, row, test>>
        BY <2>3 DEF Loads
      <3>3. crawl'[c].docs = version /\ crawl'[c].etag <= version
        BY <2>3 DEF Loads, Dated
      <3> QED
        BY <3>1, <3>2, <3>3 DEF Dated
    <2>4. CASE Deletes(c) \/ Saves(c)
      BY <2>4, GoesMoves DEF Deletes, Saves, Dated, Others, Writing
    <2>5. CASE Records(c)
      <3>1. crawl[c].etag <= version /\ crawl[c].docs <= version
        BY DEF Dated
      <3>2. row'.hash <= version /\ row'.etag <= version
        BY <2>5, <3>1 DEF Records, Dated
      <3> QED
        BY <2>5, <3>2, EndsMoves DEF Records, Dated, Others, Idle, Writing
    <2> QED
      BY <1>1, <2>1, <2>2, <2>3, <2>4, <2>5, CrawlMoves
  <1>2. ASSUME NEW c \in Crawls, Begun(c) PROVE Dated'
    <2>1. PICK mode \in {"incremental", "full", "reingest"} :
            Begins(c, mode, row') \/ Begins(c, mode, NoRow)
      BY <1>2 DEF Begun
    <2>2. Others(c) /\ crawl'[c].docs = 0 /\ crawl'[c].etag = 0
      BY <1>2, <2>1, BeginsMoves, NoRowType DEF Begun
    <2>3. UNCHANGED <<version, test>>
      BY <2>1 DEF Begins
    <2>4. row'.hash <= version /\ row'.etag <= version
      BY <1>2 DEF Begun, Dated
    <2> QED
      BY <2>2, <2>3, <2>4 DEF Dated, Others
  <1>3. CASE DropsRow \/ TestUpserts
    <2>1. row'.hash <= version /\ row'.etag <= version
      BY <1>3, MarksMoves DEF DropsRow, TestUpserts, WritesRow, NoRow, Dated, RowOK
    <2>2. test'.docs <= version /\ UNCHANGED <<version, crawl>>
      BY <1>3 DEF DropsRow, TestUpserts, Dated
    <2> QED
      BY <2>1, <2>2 DEF Dated
  <1>4. CASE DropsChunks \/ TestLoads \/ TestSaves
    <2>1. test'.docs <= version /\ UNCHANGED <<version, crawl, row>>
      BY <1>4 DEF DropsChunks, TestLoads, TestSaves, Dated
    <2> QED
      BY <2>1 DEF Dated
  <1>5. CASE Publishes
    <2>1. version' = version + 1 /\ UNCHANGED <<row, crawl, test>>
      BY <1>5 DEF Publishes, jobVars
    <2> QED
      BY <2>1 DEF Dated
  <1>6. CASE UNCHANGED vars
    BY <1>6 DEF vars, Dated
  <1> QED
    BY <1>1, <1>2, <1>3, <1>4, <1>5, <1>6, BeginMoves DEF Next, AdminStep

LEMMA ExclusiveStep ==
    ASSUME TypeOK, Exclusive, LoneKnows, [Next]_vars
    PROVE  Exclusive'
  <1> USE TypeParts DEF Parts
  <1>1. ASSUME NEW c \in Crawls, CrawlStep(c) \/ Crashes(c) PROVE Exclusive'
    <2>1. UNCHANGED <<admin, test>>
      BY <1>1, CrawlMoves DEF GivesUp, Looks, Loads, Deletes, Saves, Records
    <2>2. CASE GivesUp(c)
      <3>1. /\ Others(c) /\ crawl'[c].pc = "idle" /\ alone' = alone \ {c}
            /\ trusted' = trusted
        BY <2>2, EndsMoves DEF GivesUp, Ends, Idle
      <3> QED
        BY <2>1, <3>1 DEF Exclusive, Others, NoAdmin, NoCrawl, ObserversOK
    <2>3. CASE Records(c)
      <3>1. /\ Others(c) /\ crawl'[c].pc = "idle" /\ alone' = alone \ {c}
            /\ trusted' = (trusted \/ c \in alone)
        BY <2>3, EndsMoves DEF Records, Ends, Idle
      <3> QED
        BY <2>1, <3>1 DEF Exclusive, Others, NoAdmin, NoCrawl, ObserversOK
    <2>4. CASE Looks(c) \/ Loads(c) \/ Deletes(c) \/ Saves(c)
      <3>1. Others(c) /\ crawl'[c].pc # "idle" /\ crawl[c].pc # "idle"
        BY <2>4, GoesMoves DEF Looks, Loads, Deletes, Saves
      <3>2. UNCHANGED <<alone, trusted>>
        BY <2>4 DEF Looks, Loads, Deletes, Saves, observers
      <3> QED
        BY <2>1, <3>1, <3>2 DEF Exclusive, Others, NoAdmin, NoCrawl, ObserversOK
    <2> QED
      BY <1>1, <2>2, <2>3, <2>4, CrawlMoves
  <1>2. ASSUME NEW c \in Crawls, Begun(c) PROVE Exclusive'
    <2>1. PICK mode \in {"incremental", "full", "reingest"} :
            Begins(c, mode, row') \/ Begins(c, mode, NoRow)
      BY <1>2 DEF Begun
    <2>2. Others(c) /\ crawl'[c].pc # "idle"
      BY <1>2, <2>1, BeginsMoves, NoRowType DEF Begun
    <2>3. Begin({c}) /\ UNCHANGED <<admin, test>>
      BY <2>1 DEF Begins
    <2> QED
      BY <2>2, <2>3 DEF Exclusive, Begin, Others, NoAdmin, NoCrawl
  <1>3. CASE DropsRow \/ TestSaves \/ TestUpserts
    <2>1. trusted' => trusted
      BY <1>3 DEF DropsRow, TestSaves, TestUpserts, EndOfAdmin
    <2>2. crawl' = crawl /\ alone' = alone
      BY <1>3 DEF DropsRow, TestSaves, TestUpserts, EndOfAdmin
    <2>3. admin' = "idle" \/ admin' = admin
      BY <1>3 DEF DropsRow, TestSaves, TestUpserts
    <2>4. test'.pc = "idle" \/ test.pc # "idle"
      BY <1>3 DEF DropsRow, TestSaves, TestUpserts
    <2>5. ~NoAdmin
      BY <1>3 DEF DropsRow, TestSaves, TestUpserts, NoAdmin
    <2> QED
      BY <2>1, <2>2, <2>3, <2>4, <2>5 DEF Exclusive, NoAdmin, NoCrawl
  <1>4. CASE DropsChunks \/ TestLoads
    BY <1>4 DEF DropsChunks, TestLoads, Begin, Exclusive, NoAdmin, NoCrawl
  <1>5. CASE Publishes \/ UNCHANGED vars
    BY <1>5 DEF Publishes, jobVars, observers, vars, Exclusive, NoAdmin, NoCrawl
  <1> QED
    BY <1>1, <1>2, <1>3, <1>4, <1>5, BeginMoves DEF Next, AdminStep

\* A crawl under way is the only one that can be alone.
LEMMA OneLone ==
    ASSUME TypeOK, Exclusive, NEW c \in Crawls, crawl[c].pc # "idle"
    PROVE  alone \subseteq {c}
  BY DEF Exclusive, TypeOK

LEMMA LoneKnowsStep ==
    ASSUME TypeOK, Dated, Exclusive, LoneKnows, [Next]_vars
    PROVE  LoneKnows'
  <1> USE TypeParts DEF Parts
  <1>1. ASSUME NEW c \in Crawls, CrawlStep(c) \/ Crashes(c) PROVE LoneKnows'
    <2>1. crawl[c].pc # "idle"
      BY <1>1 DEF CrawlStep, ChecksHead, LoadsNothing, LoadsSame, LoadsNew, Deletes,
                  Saves, FailsToSave, Upserts, Crashes
    <2>2. alone \subseteq {c}
      BY <2>1, OneLone
    <2>3. CASE GivesUp(c) \/ Records(c)
      <3>1. alone' = {}
        BY <2>2, <2>3 DEF GivesUp, Records, Ends
      <3> QED
        BY <3>1 DEF LoneKnows
    <2>4. CASE Looks(c)
      <3>1. alone' = alone /\ row' = row /\ crawl'[c].pc = "load"
            /\ crawl'[c].found = crawl[c].found /\ crawl[c].pc = "head"
        BY <2>4 DEF Looks, observers
      <3> QED
        BY <2>2, <3>1 DEF LoneKnows, Writing
    <2>5. CASE Loads(c)
      <3>1. alone' = alone /\ row' = row /\ crawl'[c].docs = version
        BY <2>5 DEF Loads, observers
      <3>2. row.hash <= version /\ row.etag <= version
        BY DEF Dated
      <3>3. crawl'[c].pc \in {"delete", "save"}
        BY <2>5 DEF Loads
      <3>4. c \in alone /\ crawl'[c].pc = "delete" => row.hash # version
        BY <2>5 DEF Loads, LoneKnows
      <3> QED
        BY <2>2, <3>1, <3>2, <3>3, <3>4 DEF LoneKnows
    <2>6. CASE Deletes(c) \/ Saves(c)
      <3>1. /\ alone' = alone /\ row' = row /\ crawl[c].pc \in {"delete", "save"}
            /\ crawl'[c].pc \in {"save", "upsert"} /\ crawl'[c].docs = crawl[c].docs
        BY <2>6, GoesMoves DEF Deletes, Saves, observers
      <3>2. crawl'[c].pc = "upsert" => crawl'[c].docs \in chunks'
        BY <2>6, GoesMoves DEF Deletes, Saves
      <3> QED
        BY <2>2, <3>1, <3>2 DEF LoneKnows, Writing
    <2> QED
      BY <1>1, <2>3, <2>4, <2>5, <2>6, CrawlMoves
  <1>2. ASSUME NEW c \in Crawls, Begun(c) PROVE LoneKnows'
    <2>1. PICK mode \in {"incremental", "full", "reingest"}, found \in {row', NoRow} :
            Begins(c, mode, found)
      BY <1>2 DEF Begun
    <2>2. found \in Row
      BY <1>2, NoRowType DEF Begun
    <2>3. /\ crawl'[c].pc \in {"head", "load"}
          /\ crawl'[c].pc = "head" => Exists(found)
          /\ Exists(crawl'[c].found) => Exists(found)
          /\ Exists(found) => crawl'[c].found.hash = found.hash
      BY <2>1, <2>2, BeginsMoves
    <2>4. Exists(found) => found = row'
      BY <2>1, NoRowType
    <2>5. alone' \subseteq {c}
      BY <2>1 DEF Begins, Begin
    <2>6. (Exists(crawl[c].found))' <=> Exists(crawl'[c].found)
      BY DEF Exists
    <2> QED
      BY <2>3, <2>4, <2>5, <2>6 DEF LoneKnows, Writing
  <1>3. CASE DropsRow \/ TestSaves \/ TestUpserts
    <2>1. ~NoAdmin /\ alone' = alone
      BY <1>3 DEF DropsRow, TestSaves, TestUpserts, EndOfAdmin, NoAdmin
    <2>2. alone' = {}
      BY <2>1 DEF Exclusive
    <2> QED
      BY <2>2 DEF LoneKnows
  <1>4. CASE DropsChunks \/ TestLoads
    <2>1. alone' = {}
      BY <1>4 DEF DropsChunks, TestLoads, Begin
    <2> QED
      BY <2>1 DEF LoneKnows
  <1>5. CASE Publishes \/ UNCHANGED vars
    BY <1>5 DEF Publishes, jobVars, observers, vars, LoneKnows, Exists
  <1> QED
    BY <1>1, <1>2, <1>3, <1>4, <1>5, BeginMoves DEF Next, AdminStep

\* An administrator's job that failed leaves a page that is not trusted.
LEMMA EndMoves ==
    ASSUME TypeOK, EndOfAdmin
    PROVE  trusted' => trusted /\ ~Fails
  <1>1. Fails => failures' # failures
    BY CrawlAssumption DEF TypeOK, Fails
  <1>2. trusted' => trusted /\ failures' = failures
    BY DEF EndOfAdmin
  <1> QED
    BY <1>1, <1>2

LEMMA SoundStep ==
    ASSUME TypeOK, Dated, Exclusive, LoneKnows, Sound, [Next]_vars
    PROVE  Sound'
  <1> USE TypeParts, Numbers DEF Parts
  <1>1. ASSUME NEW c \in Crawls, CrawlStep(c) \/ Crashes(c) PROVE Sound'
    <2> SUFFICES ASSUME trusted' PROVE Sound'
      BY DEF Sound
    <2>1. crawl[c].pc # "idle"
      BY <1>1 DEF CrawlStep, ChecksHead, LoadsNothing, LoadsSame, LoadsNew, Deletes,
                  Saves, FailsToSave, Upserts, Crashes
    <2>2. (trusted \/ Records(c)) => c \in alone /\ NoAdmin
      BY <2>1 DEF Exclusive, Records
    <2>3. UNCHANGED <<version, admin, test>>
      BY <1>1, CrawlMoves DEF GivesUp, Looks, Loads, Deletes, Saves, Records
    <2>4. CASE GivesUp(c) \/ Looks(c) \/ Loads(c) \/ Saves(c)
      <3>1. trusted /\ chunks \subseteq chunks' /\ row'.hash = row.hash /\ row'.etag = row.etag
        BY <2>4 DEF GivesUp, Looks, Loads, Saves, observers
      <3> QED
        BY <2>3, <3>1 DEF Sound, NoAdmin
    <2>5. CASE Deletes(c)
      <3>1. trusted /\ row' = row /\ crawl[c].pc = "delete" /\ c \in alone /\ NoAdmin
        BY <2>2, <2>5 DEF Deletes, observers
      <3>2. row.hash # version
        BY <3>1 DEF LoneKnows, Dated, Writing
      <3> QED
        BY <2>3, <3>1, <3>2 DEF Sound, NoAdmin
    <2>6. CASE Records(c)
      <3>1. c \in alone /\ NoAdmin /\ crawl[c].pc = "upsert"
        BY <2>2, <2>6 DEF Records
      <3>2. crawl[c].docs \in chunks /\ row.etag <= crawl[c].docs
        BY <3>1 DEF LoneKnows, Writing
      <3>3. crawl[c].etag <= crawl[c].docs
        BY <3>1 DEF Dated, Writing
      <3>4. row'.hash = crawl[c].docs /\ row'.etag <= crawl[c].docs /\ chunks' = chunks
        BY <2>6, <3>2, <3>3 DEF Records
      <3> QED
        BY <2>3, <3>1, <3>2, <3>4 DEF Sound, NoAdmin
    <2> QED
      BY <1>1, <2>4, <2>5, <2>6, CrawlMoves
  <1>2. ASSUME NEW c \in Crawls, Begun(c) PROVE Sound'
    <2>1. PICK mode \in {"incremental", "full", "reingest"}, found \in {row', NoRow} :
            Begins(c, mode, found)
      BY <1>2 DEF Begun
    <2>2. UNCHANGED <<version, chunks, admin, test>> /\ Begin({c})
      BY <2>1 DEF Begins
    <2>3. trusted' => trusted /\ NoAdmin
      BY <2>2 DEF Begin
    <2>4. \/ row'.hash = row.hash /\ row'.etag = row.etag
          \/ row'.hash = 0 /\ row'.etag = 0
      BY <1>2 DEF Begun
    <2>5. version # 0
      BY CrawlAssumption DEF Version
    <2> QED
      BY <2>2, <2>3, <2>4, <2>5 DEF Sound, NoAdmin
  <1>3. CASE DropsRow
    <2>1. trusted' => trusted /\ row' = NoRow
      BY <1>3, EndMoves DEF DropsRow, WritesRow
    <2>2. test' = test /\ version' = version /\ version # 0 /\ chunks' = chunks
      BY <1>3, CrawlAssumption DEF DropsRow, Version
    <2>3. trusted' => test.pc = "idle"
      BY <1>3, <2>1 DEF DropsRow, Exclusive
    <2> QED
      BY <2>1, <2>2, <2>3 DEF Sound, NoRow, NoAdmin
  <1>4. CASE TestSaves
    <2>1. CASE Fails
      BY <1>4, <2>1, EndMoves DEF TestSaves, Sound
    <2>2. CASE chunks' = chunks \cup {test.docs} /\ test' = [test EXCEPT !.pc = "upsert"]
      <3>1. /\ row' = row /\ version' = version /\ test.pc = "save"
            /\ test'.pc = "upsert" /\ test'.docs = test.docs
        BY <1>4, <2>2 DEF TestSaves
      <3>2. trusted' => trusted
        BY <1>4 DEF TestSaves, EndOfAdmin
      <3> QED
        BY <2>2, <3>1, <3>2 DEF Sound, NoAdmin
    <2> QED
      BY <1>4, <2>1, <2>2 DEF TestSaves
  <1>5. CASE TestUpserts
    <2>1. trusted' => trusted
      BY <1>5 DEF TestUpserts, EndOfAdmin
    <2>2. row'.hash = row.hash /\ row'.etag = row.etag
      BY <1>5, MarksMoves DEF TestUpserts, RowOK
    <2>3. /\ UNCHANGED <<version, chunks>> /\ test.pc = "upsert" /\ test'.pc = "idle"
      BY <1>5 DEF TestUpserts
    <2>4. trusted /\ row.hash = version => version \in chunks
      BY <2>3 DEF Sound, Dated
    <2> QED
      BY <2>1, <2>2, <2>3, <2>4 DEF Sound
  <1>6. CASE DropsChunks
    BY <1>6 DEF DropsChunks, Begin, Sound, NoAdmin
  <1>7. CASE TestLoads
    <2>1. row' = row /\ test'.pc = "save" /\ test'.docs = version /\ (trusted' => trusted)
      BY <1>7 DEF TestLoads, Begin
    <2> QED
      BY <2>1 DEF Sound, NoAdmin, Dated
  <1>8. CASE Publishes
    <2>1. /\ UNCHANGED <<row, chunks, admin, test, trusted>> /\ version' = version + 1
      BY <1>8 DEF Publishes, jobVars, observers
    <2>2. row.hash <= version
      BY DEF Dated
    <2> QED
      BY <2>1, <2>2 DEF Sound, NoAdmin
  <1>9. CASE UNCHANGED vars
    BY <1>9 DEF vars, Sound, NoAdmin
  <1> QED
    BY <1>1, <1>2, <1>3, <1>4, <1>5, <1>6, <1>7, <1>8, <1>9, BeginMoves DEF Next, AdminStep

\* What crawls will call unchanged can be found: for any number of crawls,
\* versions, failures and crashes (crawler.py:427-452).
THEOREM UnchangedSearchable == Spec => []UnchangedIsSearchable
  <1>1. Init => Dated /\ Exclusive /\ LoneKnows /\ Sound
    <2> SUFFICES ASSUME Init PROVE Dated /\ Exclusive /\ LoneKnows /\ Sound
      OBVIOUS
    <2>1. \A c \in Crawls : crawl[c] = Idle
      BY DEF Init
    <2> QED
      BY <2>1 DEF Init, Idle, NoRow, Dated, Exclusive, LoneKnows, Sound, NoAdmin,
                  NoCrawl, Writing
  <1>2. TypeOK /\ Dated /\ Exclusive /\ LoneKnows /\ Sound /\ [Next]_vars
        => (Dated /\ Exclusive /\ LoneKnows /\ Sound)'
    BY DatedStep, ExclusiveStep, LoneKnowsStep, SoundStep
  <1>3. TypeOK /\ Dated /\ Sound => UnchangedIsSearchable
    <2> SUFFICES ASSUME TypeOK, Dated, Sound, Settled, version \in {row.hash, row.etag}
                 PROVE  version \in chunks
      BY DEF UnchangedIsSearchable
    <2>1. row.etag <= row.hash /\ row.hash <= version
      BY DEF Sound, Dated, Settled
    <2>2. row.hash = version
      BY <2>1, Numbers
    <2> QED
      BY <2>2 DEF Sound, Settled
  <1> QED
    BY <1>1, <1>2, <1>3, TypeCorrect, PTL DEF Spec

=============================================================================
