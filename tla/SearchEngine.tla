---------------------------- MODULE SearchEngine ----------------------------
(***************************************************************************)
(* SearchEngine.query_with_total() (search/engine.py) and rank_results()   *)
(* (search/ranking.py) over the trie of AtlasTrie.  A query takes the      *)
(* trie's lock once per token, and crawlers, deletes and resets run        *)
(* between its lookups; everything after the last lookup is local.         *)
(*                                                                         *)
(* Queries only read, so one at a time covers any number of them.  Title   *)
(* and snippet are copied from the store and decide nothing: a page        *)
(* without them stays in the answer.                                       *)
(***************************************************************************)
EXTENDS AtlasTrie, Functions

LOCAL INSTANCE FiniteSetsExt
LOCAL INSTANCE SequencesExt

CONSTANTS
    Queries,      \* token sequences, what tokenize_list() makes of a query
    Windows,      \* pairs of a limit and an offset
    NoAnswer

\* URLs are numbered in the order in which Python sorts them.
ASSUME UrlsAssumption == Urls \subseteq Nat /\ IsFiniteSet(Urls)
ASSUME QueriesAssumption == Queries \subseteq Seq(Nodes \ {Root}) \ {<<>>}
ASSUME WindowsAssumption == Windows \subseteq Int \X Int

VARIABLES
    asked,       \* the tokens of the query
    looked,      \* how many of them are looked up
    hits,        \* aggregated: [url -> what its postings add up to]
    answer,      \* what the last query answered
    steady,      \* history: the index has not changed since the query began
    throughout,  \* history: <<word, url>> that had a posting all that time
    sometime     \* history: <<word, url>> that had one at some moment of it

query == <<asked, looked, hits, answer>>
history == <<steady, throughout, sometime>>
svars == <<vars, query, history>>

IndexedPairs(tokens) ==
    {p \in ToSet(tokens) \X Urls : metadata[p[1]][p[2]] # NoPosting}

SInit ==
    /\ Init
    /\ asked = <<>>
    /\ looked = 0
    /\ hits = Nothing
    /\ answer = NoAnswer
    /\ steady = TRUE
    /\ throughout = {}
    /\ sometime = {}

-----------------------------------------------------------------------------
(* _lookup_and_aggregate() *)

\* Two postings of one URL: frequencies are summed, the shallower depth and the
\* first origin stay.  Also _merge_postings() of the trie.
Merged(a, p) ==
    IF a = NoPosting THEN p
    ELSE [a EXCEPT !.tf = @ + p.tf, !.depth = Shallower(@, p.depth)]

MergeAll(h, postings) ==
    [u \in Urls |-> IF postings[u] = NoPosting THEN h[u]
                    ELSE Merged(h[u], postings[u])]

Ask(tokens) ==
    /\ importing = {}
    /\ asked = <<>> \/ answer # NoAnswer
    /\ asked' = tokens
    /\ looked' = 0
    /\ hits' = Nothing
    /\ answer' = NoAnswer
    /\ steady' = TRUE
    /\ throughout' = IndexedPairs(tokens)
    /\ sometime' = IndexedPairs(tokens)
    /\ UNCHANGED vars

\* Mutant of PrefixFound: the prefix itself is skipped.
PrefixFoundBelow(p) ==
    LET below == {n \in nodes : Extends(n, p) /\ n # p /\ n \in isWord}
    IN  FoldSet(LAMBDA n, h : MergeAll(h, metadata[n]), Nothing, below)

\* search(p, prefix=True): the merge over the words of the subtree of p.
PrefixFound(p) ==
    LET subtree == {n \in nodes : Extends(n, p) /\ n \in isWord}
    IN  FoldSet(LAMBDA n, h : MergeAll(h, metadata[n]), Nothing, subtree)

\* Mutant of LookedUp: the engine searches with prefix=True.
LookedUpByPrefix(token) == PrefixFound(token)

\* trie.search(token, exact=True), a copy of the postings under the lock.
LookedUp(token) == Found(token)

\* One turn of the loop over the tokens.
Lookup ==
    /\ importing = {}
    /\ answer = NoAnswer /\ looked < Len(asked)
    /\ looked' = looked + 1
    /\ hits' = MergeAll(hits, LookedUp(asked[looked + 1]))
    /\ UNCHANGED <<vars, asked, answer, history>>

-----------------------------------------------------------------------------
(* Ranking and the answer *)

FrequencyWeight == 10
DepthPenalty == 5
BaseScore == 1000

\* compute_score()
Score(h) == h.tf * FrequencyWeight + BaseScore - h.depth * DepthPenalty

Hits == {u \in Urls : hits[u] # NoPosting}

\* Mutant of RanksBefore: ties in the score are broken by the URL alone.
RanksBeforeByUrl(u, v) ==
    LET su == Score(hits[u])
        sv == Score(hits[v])
    IN  su > sv \/ (su = sv /\ u < v)

\* The sort key of rank_results(): (-score, depth, url).
RanksBefore(u, v) ==
    LET su == Score(hits[u])
        sv == Score(hits[v])
    IN  \/ su > sv
        \/ (su = sv /\ hits[u].depth < hits[v].depth)
        \/ (su = sv /\ hits[u].depth = hits[v].depth /\ u < v)

\* rank_results(): the hits, each before those it ranks before.
Ranked ==
    CHOOSE r \in [1..Cardinality(Hits) -> Hits] :
        \A i, k \in DOMAIN r : i < k => RanksBefore(r[i], r[k])

\* _normalize_pagination(): below zero means zero.
Clamped(n) == IF n < 0 THEN 0 ELSE n

\* ranked[offset : offset + limit]
Window(ranked, limit, offset) ==
    SubSeq(ranked, offset + 1, IF offset + limit < Len(ranked) THEN offset + limit
                               ELSE Len(ranked))

\* After the last lookup: count, rank, cut out the window.
Respond(limit, offset) ==
    /\ asked # <<>> /\ answer = NoAnswer /\ looked = Len(asked)
    /\ answer' = [total |-> Cardinality(Hits),
                  limit |-> Clamped(limit), offset |-> Clamped(offset),
                  results |-> Window(Ranked, Clamped(limit), Clamped(offset))]
    /\ UNCHANGED <<vars, asked, looked, hits, history>>

Query ==
    \/ \E tokens \in Queries : Ask(tokens)
    \/ Lookup
    \/ \E w \in Windows : Respond(w[1], w[2])

-----------------------------------------------------------------------------
(* What the index does meanwhile *)

Recorded ==
    /\ UNCHANGED query
    /\ steady' = (steady /\ metadata' = metadata)
    /\ throughout' = throughout \cap IndexedPairs(asked)'
    /\ sometime' = sometime \cup IndexedPairs(asked)'

\* No query is running, or it ends with the process.
Forgotten ==
    /\ asked' = <<>> /\ looked' = 0 /\ hits' = Nothing /\ answer' = NoAnswer
    /\ steady' = TRUE /\ throughout' = {} /\ sometime' = {}

Crawling ==
    /\ \/ \E w \in Words, u \in Urls, d \in Depths, o \in Origins : Insert(w, u, d, o)
       \/ \E o \in Origins : Purge(o)
       \/ Clear
    /\ IF asked # <<>> /\ answer = NoAnswer THEN Recorded ELSE Forgotten

Booting == (Reboot \/ \E w \in Words : BulkInsert(w)) /\ Forgotten

SNext == Query \/ Crawling \/ Booting

SSpec == SInit /\ [][SNext]_svars

-----------------------------------------------------------------------------
(* What a query should answer, stated per page instead of per token. *)

Matching(tokens, u) == {i \in 1..Len(tokens) : Found(tokens[i])[u] # NoPosting}

Matches(tokens) == {u \in Urls : Matching(tokens, u) # {}}

LeastDepth(tokens, u) == Min({Found(tokens[i])[u].depth : i \in Matching(tokens, u)})

\* Twice the occurrences, less the smallest depth: a fifth of the score.
Relevance(tokens, u) ==
    2 * SumFunction([i \in Matching(tokens, u) |-> Found(tokens[i])[u].tf])
        - LeastDepth(tokens, u)

Outranks(tokens, u, v) ==
    /\ u \in Matches(tokens)
    /\ v \in Matches(tokens) =>
        \/ Relevance(tokens, u) > Relevance(tokens, v)
        \/ /\ Relevance(tokens, u) = Relevance(tokens, v)
           /\ \/ LeastDepth(tokens, u) < LeastDepth(tokens, v)
              \/ LeastDepth(tokens, u) = LeastDepth(tokens, v) /\ u < v

\* Type invariant of the query and its history.
STypeOK ==
    /\ asked \in Queries \cup {<<>>}
    /\ looked \in 0..Len(asked)
    /\ hits \in [Urls -> Posting \cup {NoPosting}]
    /\ answer # NoAnswer =>
        /\ looked = Len(asked)
        /\ answer.total \in 0..Cardinality(Urls)
        /\ answer.limit \in Nat /\ answer.offset \in Nat
        /\ answer.results \in Seq(Urls)
    /\ steady \in BOOLEAN
    /\ throughout \subseteq sometime /\ sometime \subseteq ToSet(asked) \X Urls

\* engine.py:119, "Paginate after ranking so page N is deterministic": over an
\* index that did not change, the answer counts every page with one of the
\* tokens, and place offset + i of it holds the page that exactly offset + i - 1
\* others outrank.  So consecutive windows neither repeat nor skip a page.
AnswerExact ==
    (answer # NoAnswer /\ steady) =>
        LET found == Matches(asked)
            place(u) == Cardinality({v \in found : Outranks(asked, v, u)}) - answer.offset
        IN  /\ answer.total = Cardinality(found)
            /\ ToSet(answer.results) = {u \in found : place(u) \in 0..answer.limit - 1}
            /\ \A i \in DOMAIN answer.results : place(answer.results[i]) = i - 1

\* engine.py:162, the lookups are not one atomic read: whatever crawls, deletes
\* and resets ran between them, no page is missed that matched all the time, and
\* none is shown that never matched.
AnswerIsRegular ==
    answer # NoAnswer =>
        LET matched(pairs) == {p[2] : p \in pairs}
        IN  /\ matched(throughout) \subseteq Hits
            /\ Hits \subseteq matched(sometime)
            /\ answer.total = Cardinality(Hits)
            /\ ToSet(answer.results) \subseteq Hits

\* trie.py:207-209: a prefix search adds up exactly the exact searches of the
\* words that begin with the prefix, purged and re-created branches included.
PrefixMergesWords ==
    \A p \in Nodes \ {Root}, u \in Urls :
        LET words == {w \in Words : Extends(w, p) /\ Found(w)[u] # NoPosting}
            merged == PrefixFound(p)[u]
        IN  /\ merged = NoPosting <=> words = {}
            /\ merged # NoPosting =>
                /\ merged.tf = SumFunction([w \in words |-> Found(w)[u].tf])
                /\ merged.depth = Min({Found(w)[u].depth : w \in words})

\* ranking.py:61-64 on top of trie.py:148-154: one more occurrence of a word on a
\* page, at whatever depth, never lets another page overtake it in any query.
OccurrenceNeverDemotes ==
    [][\A u, v \in Urls, tokens \in Queries :
        (/\ inserts' > inserts
         /\ \E w \in Words : metadata'[w][u] # metadata[w][u]
         /\ u # v /\ Outranks(tokens, u, v))
            => Outranks(tokens, u, v)']_svars
=============================================================================
