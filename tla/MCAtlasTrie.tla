----------------------------- MODULE MCAtlasTrie -----------------------------
(* Model checking of AtlasTrie: words that share prefixes and one that is a  *)
(* prefix of another.                                                        *)
EXTENDS AtlasTrie, TLC

CONSTANTS a, b, o1, o2, u1, u2

MCWords == {<<a>>, <<a, b, a>>, <<b>>}
MCSymmetry == Permutations({u1, u2}) \cup Permutations({o1, o2})
=============================================================================
