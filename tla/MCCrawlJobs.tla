----------------------------- MODULE MCCrawlJobs -----------------------------
(* Model checking of CrawlJobs: two jobs, on a site each or on one they share. *)
EXTENDS CrawlJobs, TLC

CONSTANTS j1, j2, o1, o2, u1, u2

MCSeed == j1 :> o1 @@ j2 :> o2
MCOwnSite == j1 :> ({u1} \cup Textless) @@ j2 :> {u2}
MCSharedSite == j1 :> {u1} @@ j2 :> {u1}
=============================================================================
