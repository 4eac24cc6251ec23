--------------------------- MODULE AtlasTrieProofs ---------------------------
(***************************************************************************)
(* Safety of the trie for any alphabet, words, URLs, origins and depths,   *)
(* and any number of inserts and reboots.                                  *)
(*                                                                         *)
(* WordIffPostings needs to know that whatever the importer still holds    *)
(* has postings (SavedCarries); the counters need the sets they count to   *)
(* be finite, which follows from Words being finite.                       *)
(***************************************************************************)
EXTENDS AtlasTrie, FiniteSetTheorems, SequenceTheorems, TLAPS

SavedCarries == \A w \in importing : Carries(saved[w])

\* A word the importer still holds has no postings yet.
NotYetImported == \A w \in importing : ~Carries(metadata[w])

TInv == TypeOK /\ WordIffPostings /\ WordsReachable /\ CountersExact
               /\ SavedCarries /\ IsFiniteSet(nodes)

Table == [Nodes -> [Urls -> Posting \cup {NoPosting}]]

-----------------------------------------------------------------------------
(* Operators *)

\* The path of a word is a finite set of nodes from the root to the word.
LEMMA PathFacts ==
    ASSUME NEW w \in Words
    PROVE  /\ Path(w) \subseteq Nodes
           /\ Root \in Path(w)
           /\ w \in Path(w)
           /\ w \in Nodes
           /\ IsFiniteSet(Path(w))
<1>1. w \in Seq(Chars) /\ Len(w) \in Nat
  BY WordsAssumption, LenProperties
<1>2. Path(w) \subseteq Nodes
  BY DEF Nodes
<1>3. Root \in Path(w)
  <2>1. SubSeq(w, 1, 0) = <<>>
    BY <1>1, SubSeqEmpty
  <2> QED
    BY <1>1, <2>1 DEF Path, Root
<1>4. w \in Path(w)
  <2>1. SubSeq(w, 1, Len(w)) = w
    BY <1>1, SubSeqFull
  <2>2. SubSeq(w, 1, Len(w)) \in Path(w)
    BY <1>1 DEF Path
  <2> QED
    BY <2>1, <2>2
<1>5. IsFiniteSet(Path(w))
  <2> DEFINE cut == [i \in 0..Len(w) |-> SubSeq(w, 1, i)]
  <2>1. cut \in Surjection(0..Len(w), Path(w))
    <3>1. cut \in [0..Len(w) -> Path(w)]
      BY DEF Path
    <3>2. \A n \in Path(w) : \E i \in 0..Len(w) : cut[i] = n
      BY DEF Path
    <3> HIDE DEF cut
    <3> QED
      BY <3>1, <3>2 DEF Surjection
  <2>2. IsFiniteSet(0..Len(w))
    BY <1>1, FS_Interval
  <2> QED
    BY <2>1, <2>2, FS_Surjection
<1> QED
  BY <1>2, <1>3, <1>4, <1>5

\* A one-to-one numbering of a finite set uses every number up to its size.
LEMMA OneToOneIsOnto ==
    ASSUME NEW S, IsFiniteSet(S), NEW f \in [S -> 1 .. Cardinality(S)],
           \A x, y \in S : f[x] = f[y] => x = y
    PROVE  \A i \in 1 .. Cardinality(S) : \E x \in S : f[x] = i
<1>1. Cardinality(S) \in Nat
  BY FS_CardinalityType
<1>2. f \in Injection(S, 1 .. Cardinality(S))
  BY DEF Injection, IsInjective
<1>3. IsFiniteSet(1 .. Cardinality(S)) /\ Cardinality(1 .. Cardinality(S)) = Cardinality(S)
  BY <1>1, FS_Interval
<1>4. f \in Surjection(S, 1 .. Cardinality(S))
  BY <1>2, <1>3, FS_Injection
<1> QED
  BY <1>4 DEF Surjection

LEMMA NothingCarriesNothing == Nothing \in [Urls -> Posting \cup {NoPosting}] /\ ~Carries(Nothing)
BY DEF Nothing, Carries

\* Counting an occurrence gives a posting, whatever was there before.
LEMMA CountedType ==
    ASSUME NEW p \in Posting \cup {NoPosting}, NEW d \in Depths, NEW o \in Origins
    PROVE  Counted(p, d, o) \in Posting /\ Counted(p, d, o) # NoPosting
<1>1. Counted(p, d, o) \in Posting
  <2>1. CASE p = NoPosting
    BY <2>1 DEF Counted, Posting
  <2>2. CASE p # NoPosting
    <3>1. Shallower(p.depth, d) \in Depths /\ p.tf + 1 \in Nat \ {0}
      BY <2>2 DEF Posting, Shallower
    <3>2. ASSUME NEW t \in Nat \ {0}, NEW e \in Depths
          PROVE  [p EXCEPT !.tf = t, !.depth = e] \in Posting
      BY <2>2 DEF Posting
    <3>3. Counted(p, d, o) = [p EXCEPT !.tf = p.tf + 1, !.depth = Shallower(p.depth, d)]
      BY <2>2 DEF Counted
    <3> QED
      BY <3>1, <3>2, <3>3
  <2> QED
    BY <2>1, <2>2
<1> QED
  BY <1>1, NoPostingAssumption

\* A purge leaves postings of the same type, and none where there was none.
LEMMA WithoutOriginFacts ==
    ASSUME NEW P \in [Urls -> Posting \cup {NoPosting}], NEW o
    PROVE  /\ WithoutOrigin(P, o) \in [Urls -> Posting \cup {NoPosting}]
           /\ Carries(WithoutOrigin(P, o)) => Carries(P)
BY DEF WithoutOrigin, Carries

-----------------------------------------------------------------------------
(* The steps *)

\* Making w a word keeps the tree connected and its counters exact.
LEMMA ReachInv ==
    ASSUME TInv, NEW w \in Words, Reach(w)
    PROVE  /\ nodes' \subseteq Nodes /\ isWord' \subseteq Words
           /\ wordCount' \in Nat /\ nodeCount' \in Nat
           /\ IsFiniteSet(nodes') /\ WordsReachable' /\ CountersExact'
<1> USE DEF TInv
<1>1. nodes' \subseteq Nodes /\ isWord' \subseteq Words
  BY PathFacts DEF Reach, TypeOK
<1>2. WordsReachable'
  BY PathFacts DEF Reach, WordsReachable
<1>3. IsFiniteSet(Path(w) \ nodes) /\ IsFiniteSet(nodes')
  BY PathFacts, FS_Difference, FS_Union DEF Reach
<1>4. Cardinality(nodes') = Cardinality(nodes) + Cardinality(Path(w) \ nodes)
  <2> DEFINE new == Path(w) \ nodes
  <2>1. nodes' = nodes \cup new /\ nodes \cap new = {}
    BY DEF Reach
  <2>2. Cardinality(nodes \cup new)
            = Cardinality(nodes) + Cardinality(new) - Cardinality(nodes \cap new)
    BY <1>3, FS_Union
  <2>3. Cardinality(nodes \cap new) = 0
    BY <2>1, FS_EmptySet
  <2>4. Cardinality(nodes) \in Nat /\ Cardinality(new) \in Nat
    BY <1>3, FS_CardinalityType
  <2> HIDE DEF new
  <2>5. Cardinality(nodes') = Cardinality(nodes) + Cardinality(new)
    BY <2>1, <2>2, <2>3, <2>4
  <2> QED
    BY <2>5 DEF new
<1>5. nodeCount' = Cardinality(nodes') /\ nodeCount' \in Nat
  <2>1. nodeCount' = nodeCount + Cardinality(Path(w) \ nodes) /\ nodeCount = Cardinality(nodes)
    BY DEF Reach, CountersExact
  <2>2. Cardinality(nodes') \in Nat
    BY <1>3, FS_CardinalityType
  <2> QED
    BY <2>1, <2>2, <1>4
<1>6. wordCount' = Cardinality(isWord') /\ wordCount' \in Nat
  <2>1. IsFiniteSet(isWord)
    BY WordsAssumption, FS_Subset DEF TypeOK
  <2>2. Cardinality(isWord \cup {w})
            = IF w \in isWord THEN Cardinality(isWord) ELSE Cardinality(isWord) + 1
    BY <2>1, FS_AddElement
  <2>3. wordCount = Cardinality(isWord) /\ wordCount \in Nat
    BY DEF CountersExact, TypeOK
  <2> QED
    BY <2>2, <2>3 DEF Reach
<1> QED
  BY <1>1, <1>2, <1>3, <1>5, <1>6 DEF CountersExact

LEMMA EmptiedInv ==
    ASSUME Emptied
    PROVE  /\ nodes' \subseteq Nodes /\ isWord' \subseteq Words
           /\ metadata' \in Table
           /\ wordCount' \in Nat /\ nodeCount' \in Nat
           /\ IsFiniteSet(nodes')
           /\ WordIffPostings' /\ WordsReachable' /\ CountersExact'
<1>1. metadata' \in Table /\ WordIffPostings'
  BY NothingCarriesNothing DEF Emptied, Table, WordIffPostings
<1>2. nodes' \subseteq Nodes /\ isWord' \subseteq Words /\ WordsReachable'
  BY DEF Emptied, Nodes, WordsReachable
<1>3. wordCount' \in Nat /\ nodeCount' \in Nat /\ IsFiniteSet(nodes') /\ CountersExact'
  BY FS_EmptySet, FS_Singleton DEF Emptied, CountersExact
<1> QED
  BY <1>1, <1>2, <1>3

LEMMA InitInv == Init => TInv
<1> SUFFICES ASSUME Init PROVE TInv
  OBVIOUS
<1>1. TypeOK
  BY NothingCarriesNothing DEF Init, TypeOK, Nodes
<1>2. WordIffPostings /\ SavedCarries
  BY NothingCarriesNothing DEF Init, WordIffPostings, SavedCarries
<1>3. WordsReachable /\ CountersExact /\ IsFiniteSet(nodes)
  BY FS_EmptySet, FS_Singleton DEF Init, WordsReachable, CountersExact
<1> QED
  BY <1>1, <1>2, <1>3 DEF TInv

LEMMA InsertInv ==
    ASSUME TInv, NEW w \in Words, NEW u \in Urls, NEW d \in Depths, NEW o \in Origins,
           Insert(w, u, d, o)
    PROVE  TInv'
<1>1. Reach(w) /\ w \in Nodes
  BY PathFacts DEF Insert
<1> DEFINE new == Counted(metadata[w][u], d, o)
<1>2. metadata' = [metadata EXCEPT ![w] = [metadata[w] EXCEPT ![u] = new]]
  BY DEF Insert
<1>3. new \in Posting /\ new # NoPosting
  BY <1>1, CountedType DEF TInv, TypeOK
<1> HIDE DEF new
<1>4. metadata' \in Table
  BY <1>1, <1>2, <1>3 DEF TInv, TypeOK, Table
<1>5. WordIffPostings'
  BY <1>1, <1>2, <1>3 DEF TInv, TypeOK, WordIffPostings, Carries, Reach
<1>6. TypeOK'
  BY <1>1, <1>4, ReachInv DEF TInv, TypeOK, Table, Insert, boot
<1>7. SavedCarries'
  BY DEF TInv, SavedCarries, Insert, boot
<1> QED
  BY <1>1, <1>5, <1>6, <1>7, ReachInv DEF TInv

LEMMA BulkInsertInv ==
    ASSUME TInv, NEW w \in Words, BulkInsert(w)
    PROVE  TInv'
<1>1. Reach(w) /\ w \in Nodes
  BY PathFacts DEF BulkInsert
<1> DEFINE new == [u \in Urls |-> IF saved[w][u] = NoPosting THEN metadata[w][u]
                                  ELSE saved[w][u]]
<1>2. metadata' = [metadata EXCEPT ![w] = new]
  BY DEF BulkInsert
<1>3. new \in [Urls -> Posting \cup {NoPosting}] /\ Carries(new)
  BY <1>1 DEF TInv, TypeOK, SavedCarries, BulkInsert, Carries
<1> HIDE DEF new
<1>4. metadata' \in Table
  BY <1>1, <1>2, <1>3 DEF TInv, TypeOK, Table
<1>5. WordIffPostings'
  BY <1>1, <1>2, <1>3 DEF TInv, TypeOK, WordIffPostings, Reach
<1>6. TypeOK'
  <2>1. saved' = [saved EXCEPT ![w] = Nothing] /\ Nothing \in [Urls -> Posting \cup {NoPosting}]
    BY NothingCarriesNothing DEF BulkInsert
  <2>2. saved' \in [Words -> [Urls -> Posting \cup {NoPosting}]]
    BY <2>1 DEF TInv, TypeOK
  <2> QED
    BY <1>1, <1>4, <2>2, ReachInv DEF TInv, TypeOK, Table, BulkInsert
<1>7. SavedCarries'
  BY DEF TInv, TypeOK, SavedCarries, BulkInsert
<1> QED
  BY <1>1, <1>5, <1>6, <1>7, ReachInv DEF TInv

LEMMA PurgeInv ==
    ASSUME TInv, NEW o \in Origins, Purge(o)
    PROVE  TInv'
<1>1. metadata' \in Table
  BY WithoutOriginFacts DEF TInv, TypeOK, Table, Purge
<1>2. isWord' = {n \in isWord : Carries(metadata'[n])} /\ isWord' \subseteq isWord
  BY DEF Purge
<1>3. WordIffPostings'
  <2>1. ASSUME NEW n \in Nodes PROVE Carries(metadata'[n]) => Carries(metadata[n])
    BY WithoutOriginFacts DEF TInv, TypeOK, Purge
  <2> QED
    BY <1>2, <2>1 DEF TInv, WordIffPostings
<1>4. WordsReachable' /\ IsFiniteSet(nodes')
  BY <1>2 DEF TInv, WordsReachable, Purge
<1>5. wordCount' = Cardinality(isWord') /\ wordCount' \in Nat
  <2> DEFINE gone == isWord \ isWord'
  <2>1. IsFiniteSet(isWord) /\ IsFiniteSet(isWord')
    BY <1>2, WordsAssumption, FS_Subset DEF TInv, TypeOK
  <2>2. Cardinality(gone) = Cardinality(isWord) - Cardinality(isWord \cap isWord')
    BY <2>1, FS_Difference
  <2>3. isWord \cap isWord' = isWord'
    BY <1>2
  <2>4. /\ Cardinality(isWord) \in Nat
        /\ Cardinality(isWord') \in Nat
    BY <2>1, FS_CardinalityType
  <2>5. wordCount = Cardinality(isWord)
    BY DEF TInv, CountersExact
  <2>6. wordCount' = IF wordCount > Cardinality(gone) THEN wordCount - Cardinality(gone) ELSE 0
    BY DEF Purge
  <2> HIDE DEF gone
  <2> QED
    BY <2>2, <2>3, <2>4, <2>5, <2>6
<1>6. TypeOK'
  BY <1>1, <1>2, <1>5 DEF TInv, TypeOK, Table, Purge, boot
<1>7. CountersExact'
  BY <1>5 DEF TInv, CountersExact, Purge
<1>8. SavedCarries'
  BY DEF TInv, SavedCarries, Purge, boot
<1> QED
  BY <1>3, <1>4, <1>6, <1>7, <1>8 DEF TInv

LEMMA ClearInv == ASSUME TInv, Clear PROVE TInv'
<1>1. TypeOK'
  BY EmptiedInv DEF TInv, TypeOK, Table, Clear, boot
<1>2. SavedCarries'
  BY DEF TInv, SavedCarries, Clear, boot
<1> QED
  BY <1>1, <1>2, EmptiedInv DEF TInv, Clear

LEMMA RebootInv == ASSUME TInv, Reboot PROVE TInv'
<1>1. Walked \subseteq Words /\ \A w \in Walked : Carries(metadata[w])
  BY DEF TInv, TypeOK, Walked
<1>2. SavedCarries'
  BY <1>1 DEF SavedCarries, Reboot
<1>3. saved' \in [Words -> [Urls -> Posting \cup {NoPosting}]]
  <2>1. \A w \in Words : metadata[w] \in [Urls -> Posting \cup {NoPosting}]
    BY PathFacts DEF TInv, TypeOK
  <2> QED
    BY <2>1, NothingCarriesNothing DEF Reboot
<1>4. TypeOK'
  BY <1>1, <1>3, EmptiedInv DEF TInv, TypeOK, Table, Reboot
<1> QED
  BY <1>2, <1>4, EmptiedInv DEF TInv, Reboot

\* The invariant holds in every reachable state.
THEOREM TInvHolds == Spec => []TInv
<1>1. TInv /\ [Next]_vars => TInv'
  <2> SUFFICES ASSUME TInv, [Next]_vars PROVE TInv'
    OBVIOUS
  <2>1. CASE \E w \in Words, u \in Urls, d \in Depths, o \in Origins : Insert(w, u, d, o)
    BY <2>1, InsertInv
  <2>2. CASE \E o \in Origins : Purge(o)
    BY <2>2, PurgeInv
  <2>3. CASE Clear
    BY <2>3, ClearInv
  <2>4. CASE Reboot
    BY <2>4, RebootInv
  <2>5. CASE \E w \in Words : BulkInsert(w)
    BY <2>5, BulkInsertInv
  <2>6. CASE UNCHANGED vars
    BY <2>6 DEF vars, tree, boot, TInv, TypeOK, WordIffPostings, WordsReachable,
                CountersExact, SavedCarries
  <2> QED
    BY <2>1, <2>2, <2>3, <2>4, <2>5, <2>6 DEF Next
<1> QED
  BY <1>1, InitInv, PTL DEF Spec

\* trie.py: the trie, the counters and the importer keep their types.
THEOREM TrieTypeCorrect == Spec => []TypeOK
BY TInvHolds, PTL DEF TInv

\* trie.py:136-138, 374-378: a node is a word exactly when it has postings.
THEOREM TrieWordsHavePostings == Spec => []WordIffPostings
BY TInvHolds, PTL DEF TInv

\* trie.py:128-134: every word can be reached from the root.
THEOREM TrieWordsReachable == Spec => []WordsReachable
BY TInvHolds, PTL DEF TInv

\* trie.py:75-76: the counters are exact.
THEOREM TrieCounters == Spec => []CountersExact
BY TInvHolds, PTL DEF TInv

\* trie.py:128-138, 374-378: words, postings, paths and counters agree in every state.
THEOREM TrieConsistent == Spec => []Consistent
BY TInvHolds, PTL DEF TInv, Consistent

-----------------------------------------------------------------------------
(* Refinement: the tree implements the flat index *)

Answers == [w \in Words |-> IF w \in importing THEN saved[w] ELSE metadata[w]]

RInv == TInv /\ NotYetImported

\* Postings that carry nothing are the empty ones.
LEMMA CarriesNothing ==
    ASSUME NEW P \in [Urls -> Posting \cup {NoPosting}], ~Carries(P)
    PROVE  P = Nothing
BY DEF Carries, Nothing

\* A search finds the metadata of the word's node, be it a word or not.
LEMMA FoundIsMetadata ==
    ASSUME TInv, NEW w \in Words
    PROVE  Found(w) = metadata[w]
<1>1. w \in Nodes /\ metadata[w] \in [Urls -> Posting \cup {NoPosting}]
  BY PathFacts DEF TInv, TypeOK
<1>2. CASE w \in isWord
  BY <1>2 DEF TInv, WordsReachable, Found
<1>3. CASE w \notin isWord
  <2>1. metadata[w] = Nothing
    BY <1>1, <1>3, CarriesNothing DEF TInv, WordIffPostings
  <2> QED
    BY <1>3, <2>1 DEF Found
<1> QED
  BY <1>2, <1>3

\* The refinement mapping of ImplementsIndex.
Mapped == [w \in Words |-> IF w \in importing THEN saved[w] ELSE Found(w)]

MapsToAnswers == Mapped = Answers
AnswersTypeOK == Answers \in [Words -> [Urls -> Posting \cup {NoPosting}]]

LEMMA Mapping == TInv => MapsToAnswers
BY FoundIsMetadata DEF Answers, Mapped, MapsToAnswers

LEMMA AnswersType == TInv => AnswersTypeOK
<1> SUFFICES ASSUME TInv PROVE AnswersTypeOK
  OBVIOUS
<1>1. ASSUME NEW w \in Words
      PROVE  Answers[w] \in [Urls -> Posting \cup {NoPosting}]
  BY PathFacts DEF TInv, TypeOK, Answers
<1> QED
  BY <1>1 DEF Answers, AnswersTypeOK

LEMMA MappingNext == TInv' => MapsToAnswers' /\ AnswersTypeOK'
<1>1. TInv => MapsToAnswers /\ AnswersTypeOK
  BY Mapping, AnswersType
<1> QED
  BY <1>1, PTL

\* Insert records one occurrence.
LEMMA InsertRefines ==
    ASSUME TInv, NEW w \in Words, NEW u \in Urls, NEW d \in Depths, NEW o \in Origins,
           Insert(w, u, d, o)
    PROVE  /\ Answers' = [Answers EXCEPT ![w] = [Answers[w] EXCEPT ![u] = Counted(Answers[w][u], d, o)]]
           /\ Answers[w][u] \in Posting \cup {NoPosting}
<1>1. importing = {} /\ importing' = {}
  BY DEF Insert, boot
<1>2. Answers = [v \in Words |-> metadata[v]] /\ Answers' = [v \in Words |-> metadata'[v]]
  BY <1>1 DEF Answers
<1>3. w \in Nodes /\ \A v \in Words : v \in Nodes
  BY PathFacts
<1>4. metadata' = [metadata EXCEPT ![w] = [metadata[w] EXCEPT ![u] = Counted(metadata[w][u], d, o)]]
  BY DEF Insert
<1>5. metadata \in Table
  BY DEF TInv, TypeOK, Table
<1> QED
  BY <1>2, <1>3, <1>4, <1>5 DEF Table

\* A posting that was counted once more adds one occurrence.
LEMMA CountedAdds ==
    ASSUME NEW p \in Posting \cup {NoPosting}, NEW d \in Depths, NEW o \in Origins
    PROVE  Index!Adds(p, Counted(p, d, o), d, o)
<1>1. CASE p = NoPosting
  BY <1>1 DEF Counted, Index!Adds
<1>2. CASE p # NoPosting
  <2> DEFINE q == [p EXCEPT !.tf = p.tf + 1, !.depth = Shallower(p.depth, d)]
  <2>1. Counted(p, d, o) = q
    BY <1>2 DEF Counted
  <2>2. q.tf = p.tf + 1 /\ q.origin = p.origin /\ q.depth = Shallower(p.depth, d)
    BY <1>2 DEF Posting
  <2>3. p.depth \in Nat /\ d \in Nat
    BY <1>2, DepthsAssumption DEF Posting
  <2> HIDE DEF q
  <2>4. q.depth \in {d, p.depth} /\ q.depth <= d /\ q.depth <= p.depth
    BY <2>2, <2>3 DEF Shallower
  <2> QED
    BY <1>2, <2>1, <2>2, <2>4, CountedType DEF Index!Adds
<1> QED
  BY <1>1, <1>2

LEMMA PurgeRefines ==
    ASSUME TInv, NEW o \in Origins, Purge(o)
    PROVE  Answers' = [w \in Words |-> [u \in Urls |->
                          IF Answers[w][u] # NoPosting /\ Answers[w][u].origin = o
                          THEN NoPosting ELSE Answers[w][u]]]
BY PathFacts DEF Purge, Answers, boot, WithoutOrigin

LEMMA ClearRefines ==
    ASSUME Clear
    PROVE  Answers' = [w \in Words |-> Nothing]
BY PathFacts DEF Clear, Emptied, Answers, boot

\* A shutdown and a boot move the postings to the importer.
LEMMA RebootRefines == ASSUME TInv, Reboot PROVE Answers' = Answers
<1>1. importing = {} /\ importing' = Walked
  BY DEF Reboot
<1>2. ASSUME NEW w \in Words PROVE w \notin Walked => metadata[w] = Nothing
  <2>1. w \in Nodes /\ metadata[w] \in [Urls -> Posting \cup {NoPosting}]
    BY PathFacts DEF TInv, TypeOK
  <2>2. w \notin Walked => ~Carries(metadata[w])
    BY <2>1, PathFacts DEF Walked, TInv, WordIffPostings, WordsReachable
  <2> QED
    BY <2>1, <2>2, CarriesNothing
<1>3. ASSUME NEW w \in Words PROVE Answers'[w] = Answers[w]
  BY <1>1, <1>2, PathFacts DEF Answers, Reboot, Emptied
<1> QED
  BY <1>3 DEF Answers

\* The importer gives back exactly what it holds.
LEMMA BulkInsertRefines ==
    ASSUME RInv, NEW w \in Words, BulkInsert(w)
    PROVE  Answers' = Answers
<1> DEFINE new == [u \in Urls |-> IF saved[w][u] = NoPosting THEN metadata[w][u]
                                  ELSE saved[w][u]]
<1>1. metadata' = [metadata EXCEPT ![w] = new] /\ saved' = [saved EXCEPT ![w] = Nothing]
  BY DEF BulkInsert
<1>2. w \in importing /\ importing' = importing \ {w}
  BY DEF BulkInsert
<1>3. w \in Nodes /\ metadata \in Table /\ saved[w] \in [Urls -> Posting \cup {NoPosting}]
  BY PathFacts DEF RInv, TInv, TypeOK, Table
<1>4. new = saved[w]
  BY <1>2, <1>3 DEF RInv, NotYetImported, Carries
<1> HIDE DEF new
<1>5. ASSUME NEW v \in Words PROVE Answers'[v] = Answers[v]
  <2>1. v \in Nodes
    BY PathFacts
  <2> QED
    BY <1>1, <1>2, <1>3, <1>4, <2>1 DEF Answers, Table, RInv, TInv, TypeOK
<1> QED
  BY <1>5 DEF Answers

LEMMA NotYetImportedInv ==
    ASSUME RInv, [Next]_vars
    PROVE  NotYetImported'
<1>1. CASE importing' = {}
  BY <1>1 DEF NotYetImported
<1>2. CASE Reboot
  BY <1>2, NothingCarriesNothing, PathFacts
     DEF Reboot, Emptied, NotYetImported, Walked, RInv, TInv, TypeOK
<1>3. ASSUME NEW w \in Words, BulkInsert(w) PROVE NotYetImported'
  BY <1>3, PathFacts DEF BulkInsert, NotYetImported, RInv, TInv, TypeOK
<1>4. CASE UNCHANGED vars
  BY <1>4 DEF vars, tree, boot, RInv, NotYetImported
<1> QED
  BY <1>1, <1>2, <1>3, <1>4 DEF Next, Insert, Purge, Clear, boot

\* trie.py, insert(), purge_by_origin(), clear(), walk() and bulk_insert(): the
\* tree answers every exact search as the flat index of InvertedIndex does.
THEOREM TrieImplementsIndex == Spec => ImplementsIndex
<1>1. Init => RInv /\ Index!IInit
  <2> SUFFICES ASSUME Init PROVE RInv /\ Index!IInit
    OBVIOUS
  <2>1. TInv /\ NotYetImported
    BY InitInv DEF Init, NotYetImported
  <2>2. Answers = [w \in Words |-> Nothing]
    BY PathFacts DEF Init, Answers
  <2> QED
    BY <2>1, <2>2, Mapping DEF RInv, Mapped, MapsToAnswers, Index!IInit, Nothing
<1>2. RInv /\ TInv' /\ [Next]_vars => RInv' /\ [Index!INext]_Mapped
  <2> SUFFICES ASSUME RInv, TInv', [Next]_vars PROVE RInv' /\ [Index!INext]_Mapped
    OBVIOUS
  <2>1. TInv /\ RInv'
    BY NotYetImportedInv DEF RInv
  <2>2. Mapped = Answers /\ Mapped' = Answers'
    BY <2>1, Mapping, MappingNext DEF MapsToAnswers
  <2>3. ASSUME NEW w \in Words, NEW u \in Urls, NEW d \in Depths, NEW o \in Origins,
               Insert(w, u, d, o)
        PROVE  Index!INext
    <3> DEFINE q == Counted(Answers[w][u], d, o)
    <3>1. /\ Answers' = [Answers EXCEPT ![w] = [Answers[w] EXCEPT ![u] = q]]
          /\ Index!Adds(Answers[w][u], q, d, o)
      BY <2>1, <2>3, InsertRefines, CountedAdds
    <3>2. /\ Answers \in [Words -> [Urls -> Posting \cup {NoPosting}]]
          /\ Answers' \in [Words -> [Urls -> Posting \cup {NoPosting}]]
      BY <2>1, AnswersType, MappingNext DEF AnswersTypeOK
    <3> HIDE DEF q
    <3>3. Answers'[w][u] = q
      BY <3>1, <3>2
    <3>4. \A v \in Words, x \in Urls :
              <<v, x>> # <<w, u>> => Answers'[v][x] = Answers[v][x]
      BY <3>1, <3>2
    <3>5. Mapped' \in [Words -> [Urls -> Posting \cup {NoPosting}]]
      BY <2>2, <3>2
    <3>6. Index!Occurs(w, u, d, o)
      BY <2>2, <3>1, <3>3, <3>4, <3>5
         DEF Index!Occurs, Index!ITypeOK, Index!IPosting, Posting, Mapped
    <3> QED
      BY <3>6 DEF Index!INext
  <2>4. ASSUME NEW o \in Origins, Purge(o) PROVE Index!INext
    BY <2>1, <2>2, <2>4, PurgeRefines DEF Index!INext, Index!Forget, Mapped
  <2>5. ASSUME Clear PROVE Index!INext
    BY <2>2, <2>5, ClearRefines DEF Index!INext, Index!Wipe, Nothing, Mapped
  <2>6. ASSUME Reboot PROVE UNCHANGED Mapped
    BY <2>1, <2>2, <2>6, RebootRefines
  <2>7. ASSUME NEW w \in Words, BulkInsert(w) PROVE UNCHANGED Mapped
    BY <2>2, <2>7, BulkInsertRefines
  <2>8. ASSUME UNCHANGED vars PROVE UNCHANGED Mapped
    BY <2>2, <2>8 DEF vars, tree, boot, Answers
  <2> QED
    BY <2>1, <2>3, <2>4, <2>5, <2>6, <2>7, <2>8 DEF Next
<1>3. Spec => []TInv
  BY TInvHolds
<1> QED
  BY <1>1, <1>2, <1>3, PTL DEF Spec, ImplementsIndex, Index!ISpec, Mapped
=============================================================================
