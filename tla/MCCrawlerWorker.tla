--------------------------- MODULE MCCrawlerWorker ---------------------------
(* Model checking of CrawlerWorker on small webs. *)
EXTENDS CrawlerWorker, TLC

CONSTANTS a, b, c, d, e, bad

\* Children are pushed at most one level below the deepest page that expands.
MCDepths == 0 .. MaxDepth

\* Webs over five pages and one URL that does not validate: a chain, cycles, a
\* page linked from two depths, a link to a page that waits in the queue, and a
\* fan-out wider than the queue.
MCLinkMaps ==
    { (a :> <<b, bad, c>> @@ b :> <<c, d>> @@ c :> <<a, e>> @@ d :> <<e>> @@ e :> <<>>
         @@ bad :> <<>>),
      (a :> <<b, c>> @@ b :> <<a>> @@ c :> <<d, e, b>> @@ d :> <<a>> @@ e :> <<>>
         @@ bad :> <<>>) }
=============================================================================
