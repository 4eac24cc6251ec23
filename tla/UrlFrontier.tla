----------------------------- MODULE UrlFrontier -----------------------------
(***************************************************************************)
(* What a crawl frontier promises, without queue, capacity or counters:    *)
(* each URL is new, then pending once, then gone for good.                 *)
(* CrawlerQueue implements it.                                             *)
(***************************************************************************)
CONSTANT Urls

VARIABLE phase

FTypeOK == phase \in [Urls -> {"new", "pending", "gone"}]

FInit == phase = [u \in Urls |-> "new"]

\* A new URL becomes pending; admitting it may push one pending URL out.
Admit(u) ==
    /\ phase[u] = "new"
    /\ \/ phase' = [phase EXCEPT ![u] = "pending"]
       \/ \E v \in Urls : /\ phase[v] = "pending"
                          /\ phase' = [phase EXCEPT ![u] = "pending", ![v] = "gone"]

\* One pending URL is handed to the crawler.
Take(u) ==
    /\ phase[u] = "pending"
    /\ phase' = [phase EXCEPT ![u] = "gone"]

\* Everything pending is given up.
GiveUp ==
    phase' = [u \in Urls |-> IF phase[u] = "pending" THEN "gone" ELSE phase[u]]

FNext == (\E u \in Urls : Admit(u) \/ Take(u)) \/ GiveUp

FSpec == FInit /\ [][FNext]_phase
=============================================================================
