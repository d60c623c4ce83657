-------------------------- MODULE MCCrawlAttachment --------------------------
(***************************************************************************)
(* Instances of CrawlAttachment for TLC, and a claim the program makes.    *)
(***************************************************************************)
EXTENDS CrawlAttachment

\* Sites are deleted while nothing is crawled.
DropsWhenQuiet == DropsChunks => Quiet

\* routers/crawler.py:363-365: the deletion of a site is to be used when one wants
\* a clean slate before it is crawled again. Once no more sites are deleted, a
\* page that keeps being stored anew has its attachments back.
RecrawlRestores ==
    []<><<Starts>>_vars /\ <>[][~DropsChunks]_vars => <>[](chunks # {})
=============================================================================
