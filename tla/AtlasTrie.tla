------------------------------ MODULE AtlasTrie ------------------------------
(***************************************************************************)
(* AtlasTrie (storage/trie.py): the character trie behind search.  A word  *)
(* is a sequence of characters and a node is the path that leads to it.    *)
(* Every operation holds the trie's RLock throughout, so each is one       *)
(* step; crawler threads interleave between the tokens of a page.          *)
(*                                                                         *)
(* Words are folded and not empty, URLs and origins not empty: that is     *)
(* what the tokenizer and the crawler hand over, and the early returns of  *)
(* insert() for anything else change nothing.  The dirty flag and the      *)
(* shard files are TrieExport's; here a shutdown and a boot carry the      *)
(* index over through walk() and bulk_insert().                            *)
(***************************************************************************)
EXTENDS Integers, Sequences, FiniteSets

CONSTANTS
    Chars,
    Words,        \* the tokens, sequences of characters
    Urls,
    Origins,      \* seed URLs of the crawl jobs
    Depths,
    NoPosting,
    MaxInserts,   \* bound on insert()
    MaxReboots    \* bound on shutdown and boot

Posting == [tf : Nat \ {0}, depth : Depths, origin : Origins]

ASSUME WordsAssumption == Words \subseteq Seq(Chars) \ {<<>>} /\ IsFiniteSet(Words)
ASSUME DepthsAssumption == Depths \subseteq Nat
ASSUME NoPostingAssumption == NoPosting \notin Posting
ASSUME TrieBoundsAssumption == MaxInserts \in Nat /\ MaxReboots \in Nat

VARIABLES
    nodes,       \* the nodes there are
    isWord,      \* those with is_word set
    metadata,    \* [node -> [url -> its posting]]
    wordCount,   \* _word_count
    nodeCount,   \* _node_count
    importing,   \* words the importer has read at boot and not yet inserted
    saved,       \* their postings
    inserts, reboots

tree == <<nodes, isWord, metadata, wordCount, nodeCount>>
boot == <<importing, saved>>
vars == <<tree, boot, inserts, reboots>>

Root == <<>>
Path(w) == {SubSeq(w, 1, i) : i \in 0..Len(w)}
Nodes == {Root} \cup UNION {Path(w) : w \in Words}

Nothing == [u \in Urls |-> NoPosting]
Carries(postings) == \E u \in Urls : postings[u] # NoPosting

Init ==
    /\ nodes = {Root}
    /\ isWord = {}
    /\ metadata = [n \in Nodes |-> Nothing]
    /\ wordCount = 0
    /\ nodeCount = 1
    /\ importing = {}
    /\ saved = [w \in Words |-> Nothing]
    /\ inserts = 0
    /\ reboots = 0

-----------------------------------------------------------------------------
(* Writing *)

\* Descend to w, creating what is missing, and make it a word.
Reach(w) ==
    /\ nodes' = nodes \cup Path(w)
    /\ nodeCount' = nodeCount + Cardinality(Path(w) \ nodes)
    /\ isWord' = isWord \cup {w}
    /\ wordCount' = IF w \in isWord THEN wordCount ELSE wordCount + 1

\* Mutant of Shallower: the deeper of the two.
ShallowerNot(d, e) == IF d < e THEN e ELSE d

Shallower(d, e) == IF d < e THEN d ELSE e

\* Mutant of Counted: the posting follows the crawl that saw the page last.
CountedLastOrigin(p, d, o) ==
    IF p = NoPosting THEN [tf |-> 1, depth |-> d, origin |-> o]
    ELSE [p EXCEPT !.tf = @ + 1, !.depth = Shallower(@, d), !.origin = o]

\* The posting p after one more occurrence at depth d for origin o.
Counted(p, d, o) ==
    IF p = NoPosting THEN [tf |-> 1, depth |-> d, origin |-> o]
    ELSE [p EXCEPT !.tf = @ + 1, !.depth = Shallower(@, d)]

\* insert()
Insert(w, u, d, o) ==
    /\ importing = {}
    /\ inserts < MaxInserts
    /\ inserts' = inserts + 1
    /\ Reach(w)
    /\ metadata' = [metadata EXCEPT ![w][u] = Counted(@, d, o)]
    /\ UNCHANGED <<boot, reboots>>

WithoutOrigin(postings, o) ==
    [u \in Urls |-> IF postings[u] # NoPosting /\ postings[u].origin = o
                    THEN NoPosting ELSE postings[u]]

\* Mutant of Purge: a node left without postings is unlinked, children and all.
PurgeUnlinks(o) ==
    LET emptied == {n \in nodes : Carries(metadata[n])
                                  /\ ~Carries(WithoutOrigin(metadata[n], o))}
    IN  /\ importing = {}
        /\ metadata' = [n \in Nodes |-> WithoutOrigin(metadata[n], o)]
        /\ isWord' = {n \in isWord : Carries(metadata'[n])}
        /\ wordCount' = wordCount - Cardinality(isWord \ isWord')
        /\ nodes' = nodes \ emptied
        /\ nodeCount' = nodeCount - Cardinality(emptied)
        /\ UNCHANGED <<boot, inserts, reboots>>

\* purge_by_origin(): the postings go, a word without postings is none any
\* more, the nodes stay.
Purge(o) ==
    /\ importing = {}
    /\ metadata' = [n \in Nodes |-> WithoutOrigin(metadata[n], o)]
    /\ isWord' = {n \in isWord : Carries(metadata'[n])}
    /\ LET unindexed == Cardinality(isWord \ isWord')
       IN  wordCount' = IF wordCount > unindexed THEN wordCount - unindexed ELSE 0
    /\ UNCHANGED <<nodes, nodeCount, boot, inserts, reboots>>

Emptied ==
    /\ nodes' = {Root}
    /\ isWord' = {}
    /\ metadata' = [n \in Nodes |-> Nothing]
    /\ wordCount' = 0
    /\ nodeCount' = 1

\* clear()
Clear ==
    /\ importing = {}
    /\ Emptied
    /\ UNCHANGED <<boot, inserts, reboots>>

-----------------------------------------------------------------------------
(* Shutdown and boot *)

\* walk(): the words with postings.
Walked == {n \in nodes : n \in isWord /\ Carries(metadata[n])}

\* The index is exported, the process ends and a new one starts with an empty
\* trie; import_legacy_data_to_trie() has read the records of each word.
Reboot ==
    /\ importing = {}
    /\ reboots < MaxReboots
    /\ reboots' = reboots + 1
    /\ importing' = Walked
    /\ saved' = [w \in Words |-> IF w \in Walked THEN metadata[w] ELSE Nothing]
    /\ Emptied
    /\ UNCHANGED inserts

\* bulk_insert(): the postings replace those of the same URLs.
BulkInsert(w) ==
    /\ w \in importing
    /\ importing' = importing \ {w}
    /\ Reach(w)
    /\ metadata' = [metadata EXCEPT ![w] =
                      [u \in Urls |-> IF saved[w][u] = NoPosting THEN @[u]
                                      ELSE saved[w][u]]]
    /\ saved' = [saved EXCEPT ![w] = Nothing]
    /\ UNCHANGED <<inserts, reboots>>

Next ==
    \/ \E w \in Words, u \in Urls, d \in Depths, o \in Origins : Insert(w, u, d, o)
    \/ \E o \in Origins : Purge(o)
    \/ Clear \/ Reboot
    \/ \E w \in Words : BulkInsert(w)

Spec == Init /\ [][Next]_vars

-----------------------------------------------------------------------------
(* Reading *)

\* search(word, exact=True): the postings of w, if it is a word that can be
\* reached from the root.
Found(w) == IF Path(w) \subseteq nodes /\ w \in isWord THEN metadata[w] ELSE Nothing

Extends(w, p) == p \in Path(w)

\* starts_with()
StartsWith(p) == Path(p) \subseteq nodes

-----------------------------------------------------------------------------
\* Type invariant of the trie and its importer.
TypeOK ==
    /\ nodes \subseteq Nodes
    /\ isWord \subseteq Words
    /\ metadata \in [Nodes -> [Urls -> Posting \cup {NoPosting}]]
    /\ wordCount \in Nat /\ nodeCount \in Nat
    /\ importing \subseteq Words
    /\ saved \in [Words -> [Urls -> Posting \cup {NoPosting}]]
    /\ inserts \in Nat /\ reboots \in Nat

\* trie.py:136-138, 374-378: a word is exactly a node with postings, so search,
\* contains() and walk() agree, whatever was purged and inserted again.
WordIffPostings == \A n \in Nodes : n \in isWord <=> Carries(metadata[n])

\* trie.py:128-134: no purge cuts a word off from the root.
WordsReachable == Root \in nodes /\ \A w \in isWord : Path(w) \subseteq nodes

\* trie.py:75-76, the counters the dashboard shows: they are the number of words
\* and of nodes after any sequence of inserts, purges, resets and boots.
CountersExact ==
    /\ wordCount = Cardinality(isWord)
    /\ nodeCount = Cardinality(nodes)

\* The three together, which the operations keep only together: what a purge or a
\* boot does to one of them the next insert relies on for another.
Consistent == WordIffPostings /\ WordsReachable /\ CountersExact

\* What exact search answers, and will answer when the boot is over, is what the
\* flat index holds: sums, shallowest depths, first origins, exact purges, and
\* nothing lost or changed by a shutdown and a boot.
Index == INSTANCE InvertedIndex WITH
            postings <- [w \in Words |-> IF w \in importing THEN saved[w] ELSE Found(w)]
ImplementsIndex == Index!ISpec

\* trie.py:253, "True when any indexed word starts with prefix".
StartsWithMeansIndexed ==
    importing = {} =>
        \A p \in Nodes \ {Root} : StartsWith(p) <=> \E w \in isWord : Extends(w, p)

\* engine.py:155, "origin does not change between postings for the same URL".
OneOriginPerUrl ==
    \A v, w \in isWord, u \in Urls :
        (metadata[v][u] # NoPosting /\ metadata[w][u] # NoPosting)
            => metadata[v][u].origin = metadata[w][u].origin
=============================================================================
