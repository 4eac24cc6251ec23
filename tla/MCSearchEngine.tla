--------------------------- MODULE MCSearchEngine ---------------------------
(* Model checking of SearchEngine: a word and a prefix of it, with a node    *)
(* between them that is no word; queries for both words, for one of them     *)
(* twice and for the prefix that is none.                                    *)
EXTENDS SearchEngine, TLC

CONSTANTS a, b, o1, o2

MCWords == {<<a>>, <<a, b, a>>}
MCQueries == {<< <<a, b, a>>, <<a>>, <<a>> >>, << <<a, b>> >>}
MCWindows == {<<1, -1>>, <<1, 1>>}
MCSymmetry == Permutations({o1, o2})
=============================================================================
