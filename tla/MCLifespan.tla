----------------------------- MODULE MCLifespan -----------------------------
(* Model checking of Lifespan: a page with tokens in two shards, and another *)
(* page that shares one of the shards.                                       *)
EXTENDS Lifespan, TLC

CONSTANTS w1, w2, w3, a, b, p1, p2

MCShardOf == w1 :> a @@ w2 :> a @@ w3 :> b
MCPageOf == w1 :> p1 @@ w2 :> p2 @@ w3 :> p1
=============================================================================
