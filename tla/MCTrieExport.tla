---------------------------- MODULE MCTrieExport ----------------------------
(* Model checking of TrieExport: two words in one shard, one in another. *)
EXTENDS TrieExport, TLC

CONSTANTS w1, w2, w3, a, b

MCShardOf == w1 :> a @@ w2 :> a @@ w3 :> b
=============================================================================
