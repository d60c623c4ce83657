----------------------------- MODULE MCCrawlPage -----------------------------
(***************************************************************************)
(* CrawlPage on small instances.                                           *)
(***************************************************************************)
EXTENDS CrawlPage

CONSTANTS c1, c2

MCCrawls == {c1, c2}
=============================================================================
