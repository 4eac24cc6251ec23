--------------------------- MODULE MCCrawlerQueue ---------------------------
(* Model checking of CrawlerQueue: five URLs over a buffer of three, so that *)
(* eviction, a clear and a re-push of an evicted URL all happen.             *)
EXTENDS CrawlerQueue, TLC

\* -1 exercises push()'s guard on a negative depth.
MCPushDepths == {-1, 0, 1}

UrlSymmetry == Permutations(Urls)
=============================================================================
