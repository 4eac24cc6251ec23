-------------------------- MODULE SearchEngineProofs --------------------------
(***************************************************************************)
(* Queries for any words, URLs, origins, windows and any interleaving of   *)
(* lookups with crawls, deletes and resets.                                *)
(*                                                                         *)
(* What the lookups have gathered lies between two histories: pages that   *)
(* had a posting all the time are in it, and nothing is in it that had     *)
(* none at any moment (Gathered).  The rank order is total, so ranking     *)
(* loses no hit.  Over a quiet index what was gathered is, page by page,   *)
(* the sum over the tokens looked up so far and the least of their depths; *)
(* one more occurrence makes one summand larger.  A prefix search adds the *)
(* postings of the words below in the order of its walk, and a sum over a  *)
(* finite set does not depend on the order (FoldFacts).                    *)
(***************************************************************************)
EXTENDS SearchEngine, AtlasTrieProofs, FoldFacts

LOCAL INSTANCE FiniteSetsExt
LOCAL INSTANCE SequencesExt

Row == [Urls -> Posting \cup {NoPosting}]

-----------------------------------------------------------------------------
(* The rank order *)

LEMMA HitTypes ==
    ASSUME hits \in Row, NEW u \in Hits
    PROVE  /\ u \in Nat /\ hits[u].tf \in Nat /\ hits[u].depth \in Nat
           /\ Score(hits[u]) \in Int
<1>1. hits[u] \in Posting /\ u \in Nat
  BY UrlsAssumption DEF Row, Hits
<1>2. hits[u].tf \in Nat /\ hits[u].depth \in Nat
  BY <1>1, DepthsAssumption DEF Posting
<1> QED
  BY <1>1, <1>2 DEF Score, FrequencyWeight, DepthPenalty, BaseScore

\* Ties in the score and the depth are broken by the URL.
LEMMA RankingIsTotal ==
    ASSUME hits \in Row, NEW u \in Hits, NEW v \in Hits
    PROVE  /\ ~RanksBefore(u, u)
           /\ u # v => RanksBefore(u, v) \/ RanksBefore(v, u)
           /\ \A w \in Hits : RanksBefore(u, v) /\ RanksBefore(v, w) => RanksBefore(u, w)
BY HitTypes DEF RanksBefore

LEMMA HitsAreFinite ==
    IsFiniteSet(Hits) /\ Cardinality(Hits) \in Nat /\ Cardinality(Hits) <= Cardinality(Urls)
BY UrlsAssumption, FS_Subset, FS_CardinalityType DEF Hits

\* The hits that rank before one, and so its place.
Before(u) == {v \in Hits : RanksBefore(v, u)}
Place(u) == Cardinality(Before(u)) + 1

LEMMA PlaceFacts ==
    ASSUME hits \in Row, NEW u \in Hits
    PROVE  /\ Place(u) \in 1 .. Cardinality(Hits)
           /\ \A v \in Hits : RanksBefore(u, v) => Place(u) < Place(v)
<1>1. IsFiniteSet(Before(u)) /\ Cardinality(Before(u)) \in Nat
  BY HitsAreFinite, FS_Subset, FS_CardinalityType DEF Before
<1>2. Cardinality(Before(u)) <= Cardinality(Hits) - 1
  <2>1. Before(u) \subseteq Hits \ {u}
    BY RankingIsTotal DEF Before
  <2>2. IsFiniteSet(Hits \ {u}) /\ Cardinality(Hits \ {u}) = Cardinality(Hits) - 1
    BY HitsAreFinite, FS_RemoveElement
  <2> QED
    BY <2>1, <2>2, FS_Subset
<1>3. ASSUME NEW v \in Hits, RanksBefore(u, v) PROVE Place(u) < Place(v)
  <2>1. Before(u) \cup {u} \subseteq Before(v) /\ u \notin Before(u)
    BY <1>3, RankingIsTotal DEF Before
  <2>2. Cardinality(Before(u) \cup {u}) = Cardinality(Before(u)) + 1
    BY <1>1, <2>1, FS_AddElement
  <2>3. IsFiniteSet(Before(v)) /\ Cardinality(Before(v)) \in Nat
    BY HitsAreFinite, FS_Subset, FS_CardinalityType DEF Before
  <2>4. Cardinality(Before(u) \cup {u}) <= Cardinality(Before(v))
    BY <2>1, <2>3, FS_Subset
  <2> QED
    BY <1>1, <2>2, <2>3, <2>4 DEF Place
<1> QED
  BY <1>1, <1>2, <1>3, HitsAreFinite DEF Place

\* Sorting loses no hit and doubles none: each is at its place.
LEMMA RankedFacts ==
    ASSUME hits \in Row
    PROVE  /\ Ranked \in [1 .. Cardinality(Hits) -> Hits]
           /\ \A i, k \in 1 .. Cardinality(Hits) : i < k => RanksBefore(Ranked[i], Ranked[k])
<1> DEFINE n == Cardinality(Hits)
           place == [u \in Hits |-> Place(u)]
           r == [i \in 1 .. n |-> CHOOSE u \in Hits : place[u] = i]
<1>1. n \in Nat
  BY HitsAreFinite
<1>2. place \in [Hits -> 1 .. n]
  BY PlaceFacts
<1>3. \A u, v \in Hits : place[u] = place[v] => u = v
  BY PlaceFacts, RankingIsTotal
<1>4. \A u, v \in Hits : RanksBefore(u, v) => place[u] < place[v]
  BY PlaceFacts
<1> HIDE DEF place
<1>5. \A i \in 1 .. n : \E u \in Hits : place[u] = i
  BY <1>2, <1>3, HitsAreFinite, OneToOneIsOnto
<1>6. \A i \in 1 .. n : r[i] \in Hits /\ place[r[i]] = i
  BY <1>5
<1>7. r \in [1 .. n -> Hits]
  BY <1>6
<1>8. ASSUME NEW i \in 1 .. n, NEW k \in 1 .. n, i < k PROVE RanksBefore(r[i], r[k])
  <2>1. r[i] # r[k]
    BY <1>6, <1>8
  <2>2. ~RanksBefore(r[k], r[i])
    BY <1>4, <1>6, <1>8
  <2> QED
    BY <1>6, <2>1, <2>2, RankingIsTotal
<1>9. \E s \in [1 .. n -> Hits] : \A i, k \in DOMAIN s : i < k => RanksBefore(s[i], s[k])
  BY <1>7, <1>8
<1> QED
  BY <1>9 DEF Ranked

\* A window of the ranked hits.
LEMMA WindowFacts ==
    ASSUME hits \in Row, NEW limit \in Nat, NEW offset \in Nat
    PROVE  Window(Ranked, limit, offset) \in Seq(Hits)
<1> DEFINE n == Cardinality(Hits)
           last == IF offset + limit < Len(Ranked) THEN offset + limit ELSE Len(Ranked)
<1>1. n \in Nat /\ Ranked \in [1 .. n -> Hits]
  BY HitsAreFinite, RankedFacts
<1>2. Ranked \in Seq(Hits) /\ Len(Ranked) = n
  BY <1>1
<1>3. offset + 1 \in Int /\ last \in Int /\ last <= n
  BY <1>1, <1>2
<1>4. \A i \in offset + 1 .. last : Ranked[i] \in Hits
  BY <1>1, <1>3
<1> HIDE DEF last
<1>5. SubSeq(Ranked, offset + 1, last) \in Seq(Hits)
  BY <1>3, <1>4, SubSeqProperties
<1> QED
  BY <1>5 DEF Window, last

\* Each ranked hit is at its place.
LEMMA RankedAtPlace ==
    ASSUME hits \in Row
    PROVE  \A i \in 1 .. Cardinality(Hits) : Place(Ranked[i]) = i
<1> DEFINE n == Cardinality(Hits)
           p == [i \in 1 .. n |-> Place(Ranked[i])]
           Up == {i \in Nat : i \in 1 .. n => p[i] >= i}
           Down == {i \in Nat : i < n => p[n - i] <= n - i}
<1>1. n \in Nat /\ \A i \in 1 .. n : p[i] \in 1 .. n
  BY HitsAreFinite, RankedFacts, PlaceFacts
<1>2. \A i, k \in 1 .. n : i < k => p[i] < p[k]
  BY RankedFacts, PlaceFacts
<1> HIDE DEF p, n
<1>3. \A i \in Nat : i \in Up
  <2>1. 0 \in Up /\ \A i \in Nat : i \in Up => i + 1 \in Up
    <3>1. ASSUME NEW i \in Nat, i \in Up, i + 1 \in 1 .. n PROVE p[i + 1] >= i + 1
      <4>1. CASE i = 0
        BY <1>1, <3>1, <4>1
      <4>2. CASE i # 0
        <5>1. i \in 1 .. n /\ p[i] >= i
          BY <1>1, <3>1, <4>2
        <5> QED
          BY <1>1, <1>2, <3>1, <5>1
      <4> QED
        BY <4>1, <4>2
    <3> QED
      BY <3>1
  <2> HIDE DEF Up
  <2> QED
    BY <2>1, NatSetInduction
<1>4. \A i \in Nat : i \in Down
  <2>1. 0 \in Down
    BY <1>1
  <2>2. ASSUME NEW i \in Nat, i \in Down, i + 1 < n PROVE p[n - (i + 1)] <= n - (i + 1)
    <3>1. n - i \in 1 .. n /\ n - (i + 1) \in 1 .. n /\ p[n - i] <= n - i
      BY <1>1, <2>2
    <3>2. p[n - (i + 1)] < p[n - i]
      BY <1>1, <1>2, <3>1
    <3> QED
      BY <1>1, <3>1, <3>2
  <2>3. \A i \in Nat : i \in Down => i + 1 \in Down
    BY <2>2
  <2> HIDE DEF Down
  <2> QED
    BY <2>1, <2>3, NatSetInduction
<1>5. ASSUME NEW i \in 1 .. n PROVE p[i] = i
  <2>1. p[i] >= i
    BY <1>3
  <2>2. n - i \in Nat /\ n - i < n /\ n - (n - i) = i
    BY <1>1
  <2>3. p[i] <= i
    BY <1>4, <2>2
  <2> QED
    BY <1>1, <2>1, <2>3
<1> QED
  BY <1>5 DEF p, n

\* What is at which place of a window.
LEMMA WindowPlaces ==
    ASSUME hits \in Row, NEW limit \in Nat, NEW offset \in Nat
    PROVE  LET w == Window(Ranked, limit, offset)
               place(u) == Cardinality(Before(u)) - offset
           IN  /\ \A i \in DOMAIN w : place(w[i]) = i - 1
               /\ ToSet(w) = {u \in Hits : place(u) \in 0 .. limit - 1}
<1> DEFINE n == Cardinality(Hits)
           last == IF offset + limit < n THEN offset + limit ELSE n
           w == Window(Ranked, limit, offset)
<1>1. n \in Nat /\ Ranked \in [1 .. n -> Hits] /\ Len(Ranked) = n
  BY HitsAreFinite, RankedFacts
<1>2. last \in Int /\ last <= n /\ last <= offset + limit
  BY <1>1
<1>3. w = SubSeq(Ranked, offset + 1, last)
  BY <1>1 DEF Window
<1> HIDE DEF w, n
<1>4. \A i \in offset + 1 .. last : Ranked[i] \in Hits
  BY <1>1, <1>2
<1>5. /\ w \in Seq(Hits)
      /\ Len(w) = IF offset + 1 <= last THEN last - offset ELSE 0
      /\ \A i \in 1 .. last - offset : w[i] = Ranked[offset + i]
  <2> HIDE DEF last
  <2>1. offset + 1 \in Int /\ last - (offset + 1) + 1 = last - offset
    BY <1>2
  <2>2. /\ w \in Seq(Hits)
        /\ Len(w) = IF offset + 1 <= last THEN last - (offset + 1) + 1 ELSE 0
        /\ \A i \in 1 .. last - (offset + 1) + 1 : w[i] = Ranked[(offset + 1) + i - 1]
    BY <1>2, <1>3, <1>4, <2>1, SubSeqProperties
  <2>3. \A i \in Int : (offset + 1) + i - 1 = offset + i
    OBVIOUS
  <2> QED
    BY <2>1, <2>2, <2>3
<1>6. \A u \in Hits : Cardinality(Before(u)) = Place(u) - 1 /\ Place(u) \in 1 .. n
  <2>1. \A u \in Hits : Cardinality(Before(u)) \in Nat
    BY HitsAreFinite, FS_Subset, FS_CardinalityType DEF Before
  <2> QED
    BY <2>1, PlaceFacts DEF Place, n
<1>7. DOMAIN w = 1 .. Len(w)
  <2>1. w \in Seq(Hits)
    BY <1>5
  <2> QED
    BY <2>1
<1>8. \A i \in DOMAIN w :
          /\ i \in 1 .. last - offset /\ offset + i \in 1 .. n
          /\ w[i] \in Hits /\ Place(w[i]) = offset + i
  <2>1. ASSUME NEW i \in DOMAIN w
        PROVE  i \in 1 .. last - offset /\ offset + i \in 1 .. n
    BY <1>1, <1>2, <1>5, <1>7
  <2> QED
    BY <1>1, <1>5, <2>1, RankedAtPlace DEF n
<1>9. \A i \in DOMAIN w : Cardinality(Before(w[i])) - offset = i - 1
  BY <1>6, <1>7, <1>8
<1>10. \A i \in DOMAIN w : w[i] \in Hits /\ i - 1 \in 0 .. limit - 1
  BY <1>2, <1>8
<1>11. ASSUME NEW u \in Hits, Cardinality(Before(u)) - offset \in 0 .. limit - 1
       PROVE  u \in ToSet(w)
  <2> DEFINE i == Place(u) - offset
  <2>1. i \in 1 .. limit /\ offset + i = Place(u) /\ Place(u) \in 1 .. n
    BY <1>6, <1>11
  <2>2. i \in 1 .. last - offset
    BY <1>1, <2>1
  <2>3. w[i] = Ranked[Place(u)] /\ i \in DOMAIN w
    <3>1. w[i] = Ranked[offset + i]
      BY <1>5, <2>2
    <3>2. i \in 1 .. Len(w)
      <4> HIDE DEF i, last
      <4>1. offset + 1 <= last
        BY <1>2, <2>2
      <4>2. Len(w) = last - offset
        BY <1>5, <4>1
      <4> QED
        BY <2>2, <4>2
    <3> QED
      BY <1>7, <2>1, <3>1, <3>2
  <2>4. Place(Ranked[Place(u)]) = Place(u) /\ Ranked[Place(u)] \in Hits
    BY <1>1, <2>1, RankedAtPlace DEF n
  <2>5. Ranked[Place(u)] = u
    <3> SUFFICES ASSUME Ranked[Place(u)] # u PROVE FALSE
      OBVIOUS
    <3>1. RanksBefore(Ranked[Place(u)], u) \/ RanksBefore(u, Ranked[Place(u)])
      BY <2>4, RankingIsTotal
    <3>2. Place(u) < Place(u)
      BY <2>4, <3>1, PlaceFacts
    <3> QED
      BY <2>1, <3>2
  <2> QED
    BY <2>3, <2>5 DEF ToSet
<1>12. ToSet(w) = {u \in Hits : Cardinality(Before(u)) - offset \in 0 .. limit - 1}
  BY <1>9, <1>10, <1>11 DEF ToSet
<1> QED
  BY <1>9, <1>12 DEF w

-----------------------------------------------------------------------------
(* The index meanwhile *)

\* A query only reads: what the trie guarantees, it guarantees to queries too.
LEMMA QueriesOnlyRead == SSpec => Spec
<1>1. SInit => Init
  BY DEF SInit
<1>2. [SNext]_svars => [Next]_vars
  BY DEF SNext, Query, Ask, Lookup, Respond, Crawling, Booting, Next, svars
<1> QED
  BY <1>1, <1>2, PTL DEF SSpec, Spec

LEMMA FoundAtNode ==
    ASSUME TInv, NEW n \in Nodes
    PROVE  Found(n) = metadata[n] /\ metadata[n] \in Row
<1>1. metadata[n] \in Row
  BY DEF TInv, TypeOK, Row
<1>2. CASE n \in isWord
  BY <1>1, <1>2 DEF TInv, WordsReachable, Found
<1>3. CASE n \notin isWord
  <2>1. metadata[n] = Nothing
    BY <1>1, <1>3, CarriesNothing DEF TInv, WordIffPostings, Row
  <2> QED
    BY <1>1, <1>3, <2>1 DEF Found
<1> QED
  BY <1>2, <1>3

\* A merge is a posting, and a page is among the hits once one word has it.
LEMMA MergeFacts ==
    ASSUME NEW h \in Row, NEW p \in Row
    PROVE  /\ MergeAll(h, p) \in Row
           /\ \A u \in Urls : MergeAll(h, p)[u] # NoPosting
                                  <=> h[u] # NoPosting \/ p[u] # NoPosting
<1>1. ASSUME NEW a \in Posting, NEW b \in Posting
      PROVE  Merged(a, b) \in Posting
  <2>1. /\ a.tf + b.tf \in Nat \ {0} /\ Shallower(a.depth, b.depth) \in Depths
        /\ a.origin \in Origins /\ DOMAIN a = {"tf", "depth", "origin"}
    BY DEF Posting, Shallower
  <2>2. a # NoPosting
    BY NoPostingAssumption
  <2>3. Merged(a, b) = [a EXCEPT !.tf = @ + b.tf, !.depth = Shallower(@, b.depth)]
    BY <2>2 DEF Merged
  <2> QED
    BY <2>1, <2>3 DEF Posting
<1>2. ASSUME NEW u \in Urls
      PROVE  /\ MergeAll(h, p)[u] \in Posting \cup {NoPosting}
             /\ MergeAll(h, p)[u] # NoPosting <=> h[u] # NoPosting \/ p[u] # NoPosting
  <2>1. h[u] \in Posting \cup {NoPosting} /\ p[u] \in Posting \cup {NoPosting}
    BY DEF Row
  <2>2. MergeAll(h, p)[u] = IF p[u] = NoPosting THEN h[u] ELSE Merged(h[u], p[u])
    BY DEF MergeAll
  <2>3. h[u] = NoPosting => Merged(h[u], p[u]) = p[u]
    BY DEF Merged
  <2> QED
    BY <1>1, <2>1, <2>2, <2>3, NoPostingAssumption
<1> QED
  BY <1>2 DEF MergeAll, Row

-----------------------------------------------------------------------------
(* Merged postings *)

\* Those of the rows I in which page u has a posting.
WithPosting(I, row, u) == {i \in I : row[i][u] # NoPosting}

\* h is the merge of the rows I, in whatever order they were merged.
IsMerge(h, I, row) ==
    \A u \in Urls :
        /\ h[u] # NoPosting <=> WithPosting(I, row, u) # {}
        /\ h[u] # NoPosting =>
            /\ h[u].tf = SumFunction([i \in WithPosting(I, row, u) |-> row[i][u].tf])
            /\ \E i \in WithPosting(I, row, u) : h[u].depth = row[i][u].depth
            /\ \A i \in WithPosting(I, row, u) : h[u].depth <= row[i][u].depth

LEMMA MergeOfNone == ASSUME NEW row PROVE IsMerge(Nothing, {}, row)
BY DEF IsMerge, WithPosting, Nothing

LEMMA MergeOfOneMore ==
    ASSUME NEW I, IsFiniteSet(I), NEW k, k \notin I,
           NEW row, \A i \in I \cup {k} : row[i] \in Row,
           NEW h \in Row, IsMerge(h, I, row)
    PROVE  IsMerge(MergeAll(h, row[k]), I \cup {k}, row)
<1> DEFINE m == MergeAll(h, row[k])
<1> SUFFICES ASSUME NEW u \in Urls
             PROVE  LET R == WithPosting(I \cup {k}, row, u)
                    IN  /\ m[u] # NoPosting <=> R # {}
                        /\ m[u] # NoPosting =>
                            /\ m[u].tf = SumFunction([i \in R |-> row[i][u].tf])
                            /\ \E i \in R : m[u].depth = row[i][u].depth
                            /\ \A i \in R : m[u].depth <= row[i][u].depth
  BY DEF IsMerge
<1> DEFINE T == WithPosting(I, row, u)
           R == WithPosting(I \cup {k}, row, u)
           f == [i \in T |-> row[i][u].tf]
           e == [i \in R |-> row[i][u].tf]
<1>1. /\ m \in Row
      /\ m[u] # NoPosting <=> h[u] # NoPosting \/ row[k][u] # NoPosting
      /\ m[u] = IF row[k][u] = NoPosting THEN h[u] ELSE Merged(h[u], row[k][u])
  <2>1. row[k] \in Row
    OBVIOUS
  <2> QED
    BY <2>1, MergeFacts DEF MergeAll
<1>2. \A i \in R : row[i][u] \in Posting /\ row[i][u].tf \in Nat /\ row[i][u].depth \in Nat
  BY DepthsAssumption DEF Row, WithPosting, Posting
<1>3. /\ h[u] # NoPosting <=> T # {}
      /\ h[u] # NoPosting =>
          /\ h[u].tf = SumFunction(f)
          /\ \E i \in T : h[u].depth = row[i][u].depth
          /\ \A i \in T : h[u].depth <= row[i][u].depth
      /\ h[u] \in Posting \cup {NoPosting}
  BY DEF IsMerge, Row
<1>4. CASE row[k][u] = NoPosting
  <2>1. R = T
    BY <1>4 DEF WithPosting
  <2>2. m[u] = h[u]
    BY <1>1, <1>4
  <2> QED
    BY <1>3, <2>1, <2>2
<1>5. CASE row[k][u] # NoPosting
  <2>1. R = T \cup {k} /\ k \notin T /\ T \subseteq R
    BY <1>5 DEF WithPosting
  <2>2. IsFiniteSet(T)
    BY FS_Subset DEF WithPosting
  <2>3. f \in [T -> Nat] /\ e \in [T \cup {k} -> Nat] /\ \A i \in T : e[i] = f[i]
    BY <1>2, <2>1
  <2>4. e[k] = row[k][u].tf
    BY <2>1
  <2> HIDE DEF m, T, R, f, e
  <2>5. SumFunction(e) = SumFunction(f) + row[k][u].tf
    BY <2>1, <2>2, <2>3, <2>4, SumExtends
  <2>6. m[u] = Merged(h[u], row[k][u]) /\ m[u] # NoPosting /\ R # {} /\ k \in R
    BY <1>1, <1>5, <2>1
  <2>7. CASE h[u] = NoPosting
    <3>1. m[u] = row[k][u]
      BY <2>6, <2>7 DEF Merged
    <3>2. T = {} /\ SumFunction(f) = 0
      BY <1>3, <2>2, <2>3, <2>7, SumType
    <3>3. m[u].tf = SumFunction(e)
      BY <1>2, <2>5, <2>6, <3>1, <3>2
    <3>4. R = {k} /\ row[k][u].depth \in Nat
      BY <1>2, <2>1, <3>2
    <3>5. \E i \in R : m[u].depth = row[i][u].depth
      BY <3>1, <3>4
    <3>6. \A i \in R : m[u].depth <= row[i][u].depth
      BY <3>1, <3>4
    <3> QED
      BY <2>6, <3>3, <3>5, <3>6 DEF e, R
  <2>8. CASE h[u] # NoPosting
    <3>1. h[u] \in Posting /\ row[k][u] \in Posting
      BY <1>2, <1>3, <2>6, <2>8
    <3>2. /\ m[u].tf = h[u].tf + row[k][u].tf
          /\ m[u].depth = Shallower(h[u].depth, row[k][u].depth)
      BY <2>6, <2>8, <3>1 DEF Merged, Posting
    <3>3. h[u].depth \in Nat
      BY <3>1, DepthsAssumption DEF Posting
    <3>4. m[u].tf = SumFunction(e)
      BY <1>3, <2>5, <2>8, <3>2
    <3>5. \E i \in R : m[u].depth = row[i][u].depth
      BY <1>3, <2>1, <2>8, <3>2 DEF Shallower
    <3>6. \A i \in R : m[u].depth <= row[i][u].depth
      BY <1>2, <1>3, <2>1, <2>6, <2>8, <3>2, <3>3 DEF Shallower
    <3> QED
      BY <2>6, <3>4, <3>5, <3>6 DEF e, R
  <2> QED
    BY <2>7, <2>8
<1> QED
  BY <1>4, <1>5

-----------------------------------------------------------------------------
(* A query and its histories *)

QTypes ==
    /\ asked \in Queries \cup {<<>>} /\ looked \in 0 .. Len(asked) /\ hits \in Row
    /\ steady \in BOOLEAN
    /\ throughout \subseteq sometime /\ sometime \subseteq ToSet(asked) \X Urls

\* While lookups are still to come, the histories enclose what they will find.
Watched == answer = NoAnswer =>
    /\ throughout \subseteq IndexedPairs(asked)
    /\ IndexedPairs(asked) \subseteq sometime

\* What was there throughout is found, and what is found was there.
Gathered ==
    /\ \A i \in 1 .. looked, u \in Urls :
           <<asked[i], u>> \in throughout => hits[u] # NoPosting
    /\ \A u \in Urls : hits[u] # NoPosting =>
           \E i \in 1 .. looked : <<asked[i], u>> \in sometime

Answered == answer # NoAnswer =>
    /\ looked = Len(asked)
    /\ answer.total = Cardinality(Hits)
    /\ answer.limit \in Nat /\ answer.offset \in Nat
    /\ answer.results \in Seq(Hits)

SInv == QTypes /\ Watched /\ Gathered /\ Answered

LEMMA NothingIsARow == Nothing \in Row
BY DEF Nothing, Row

LEMMA PairFacts ==
    ASSUME NEW tokens
    PROVE  /\ IndexedPairs(tokens) \subseteq ToSet(tokens) \X Urls
           /\ \A t, u : <<t, u>> \in IndexedPairs(tokens) <=>
                  t \in ToSet(tokens) /\ u \in Urls /\ metadata[t][u] # NoPosting
BY DEF IndexedPairs

LEMMA SInvStarts == SInit => SInv
BY NothingIsARow DEF SInit, Init, SInv, QTypes, Watched, Gathered, Answered, IndexedPairs,
   Nothing, ToSet

LEMMA ForgottenInv == ASSUME Forgotten PROVE SInv'
BY NothingIsARow DEF Forgotten, SInv, QTypes, Watched, Gathered, Answered, IndexedPairs,
   Nothing, ToSet

LEMMA AskInv == ASSUME TInv, NEW tokens \in Queries, Ask(tokens) PROVE SInv'
<1>1. /\ asked' = tokens /\ looked' = 0 /\ hits' = Nothing /\ answer' = NoAnswer
      /\ steady' = TRUE /\ throughout' = IndexedPairs(tokens)
      /\ sometime' = IndexedPairs(tokens) /\ metadata' = metadata
  BY DEF Ask, vars, tree
<1>2. IndexedPairs(asked)' = IndexedPairs(tokens)
  BY <1>1 DEF IndexedPairs
<1>3. Len(tokens) \in Nat
  BY QueriesAssumption
<1> QED
  BY <1>1, <1>2, <1>3, NothingIsARow, PairFacts
  DEF SInv, QTypes, Watched, Gathered, Answered, Nothing

LEMMA LookupInv == ASSUME TInv, SInv, Lookup PROVE SInv'
<1> DEFINE i == looked + 1
           t == asked[i]
<1>1. /\ answer = NoAnswer /\ looked < Len(asked) /\ looked' = i
      /\ hits' = MergeAll(hits, Found(t))
      /\ UNCHANGED <<asked, answer, steady, throughout, sometime, metadata>>
  BY DEF Lookup, LookedUp, vars, tree, history
<1>2. asked \in Seq(Nodes) /\ looked \in Nat /\ i \in 1 .. Len(asked)
  BY <1>1, QueriesAssumption DEF SInv, QTypes
<1>3. t \in Nodes /\ t \in ToSet(asked)
  BY <1>2 DEF ToSet
<1>4. /\ hits' \in Row
      /\ \A u \in Urls : hits'[u] # NoPosting
                             <=> hits[u] # NoPosting \/ metadata[t][u] # NoPosting
  BY <1>1, <1>3, FoundAtNode, MergeFacts DEF SInv, QTypes
<1>5. \A u \in Urls : /\ <<t, u>> \in throughout => metadata[t][u] # NoPosting
                      /\ metadata[t][u] # NoPosting => <<t, u>> \in sometime
  BY <1>1, <1>3, PairFacts DEF SInv, Watched
<1>6. 1 .. looked' = (1 .. looked) \cup {i}
  BY <1>1, <1>2
<1>7. Gathered'
  BY <1>1, <1>4, <1>5, <1>6 DEF SInv, Gathered
<1>8. Watched'
  BY <1>1 DEF SInv, Watched, IndexedPairs
<1>9. QTypes'
  BY <1>1, <1>2, <1>4 DEF SInv, QTypes
<1> QED
  BY <1>1, <1>7, <1>8, <1>9 DEF SInv, Answered

LEMMA RespondInv ==
    ASSUME SInv, NEW limit \in Int, NEW offset \in Int, Respond(limit, offset)
    PROVE  SInv'
<1>1. /\ looked = Len(asked)
      /\ answer' = [total |-> Cardinality(Hits),
                    limit |-> Clamped(limit), offset |-> Clamped(offset),
                    results |-> Window(Ranked, Clamped(limit), Clamped(offset))]
      /\ UNCHANGED <<asked, looked, hits, steady, throughout, sometime, metadata>>
  BY DEF Respond, vars, tree, history
<1>2. Clamped(limit) \in Nat /\ Clamped(offset) \in Nat
  BY DEF Clamped
<1>3. Window(Ranked, Clamped(limit), Clamped(offset)) \in Seq(Hits)
  BY <1>2, WindowFacts DEF SInv, QTypes
<1>4. Hits' = Hits
  BY <1>1 DEF Hits
<1>5. Answered'
  BY <1>1, <1>2, <1>3, <1>4 DEF Answered
<1>6. Gathered' /\ QTypes'
  BY <1>1 DEF SInv, Gathered, QTypes
<1>7. Watched'
  BY <1>1 DEF SInv, Watched, IndexedPairs, Respond
<1> QED
  BY <1>5, <1>6, <1>7 DEF SInv

LEMMA RecordedInv == ASSUME SInv, Recorded, answer = NoAnswer PROVE SInv'
<1>1. /\ UNCHANGED <<asked, looked, hits, answer>>
      /\ steady' = (steady /\ metadata' = metadata)
      /\ throughout' = throughout \cap IndexedPairs(asked)'
      /\ sometime' = sometime \cup IndexedPairs(asked)'
  BY DEF Recorded, query
<1>2. IndexedPairs(asked)' \subseteq ToSet(asked) \X Urls
  BY <1>1 DEF IndexedPairs
<1>3. steady' \in BOOLEAN
  BY <1>1 DEF SInv, QTypes
<1>4. QTypes'
  BY <1>1, <1>2, <1>3 DEF SInv, QTypes
<1>5. Watched'
  BY <1>1 DEF Watched
<1>6. Gathered'
  BY <1>1 DEF SInv, Gathered
<1> QED
  BY <1>1, <1>4, <1>5, <1>6 DEF SInv, Answered

LEMMA SInvSteps == ASSUME TInv, SInv, [SNext]_svars PROVE SInv'
<1>1. ASSUME NEW tokens \in Queries, Ask(tokens) PROVE SInv'
  BY <1>1, AskInv
<1>2. CASE Lookup
  BY <1>2, LookupInv
<1>3. ASSUME NEW w \in Windows, Respond(w[1], w[2]) PROVE SInv'
  BY <1>3, RespondInv, WindowsAssumption
<1>4. CASE Crawling
  BY <1>4, RecordedInv, ForgottenInv DEF Crawling
<1>5. CASE Booting
  BY <1>5, ForgottenInv DEF Booting
<1>6. CASE UNCHANGED svars
  BY <1>6 DEF svars, vars, tree, query, history, SInv, QTypes, Watched, Gathered, Answered,
     IndexedPairs, Hits
<1> QED
  BY <1>1, <1>2, <1>3, <1>4, <1>5, <1>6 DEF SNext, Query

LEMMA SInvHolds == SSpec => [](TInv /\ SInv)
<1>1. TInv /\ SInv /\ [SNext]_svars => SInv'
  BY SInvSteps
<1> QED
  BY <1>1, SInvStarts, QueriesOnlyRead, TInvHolds, PTL DEF SSpec

\* Whatever a query meets, its tokens, its hits and its answer keep their types.
THEOREM SearchTypeCorrect == SSpec => []STypeOK
<1>1. ASSUME SInv PROVE STypeOK
  <2>1. answer # NoAnswer =>
            answer.total \in 0 .. Cardinality(Urls) /\ answer.results \in Seq(Urls)
    <3> SUFFICES ASSUME answer # NoAnswer
                 PROVE  answer.total \in 0 .. Cardinality(Urls) /\ answer.results \in Seq(Urls)
      OBVIOUS
    <3>1. answer.total = Cardinality(Hits) /\ answer.results \in Seq(Hits)
      BY <1>1 DEF SInv, Answered
    <3>2. Cardinality(Urls) \in Nat /\ Hits \subseteq Urls
      BY UrlsAssumption, FS_CardinalityType DEF Hits
    <3> QED
      BY <3>1, <3>2, HitsAreFinite
  <2> QED
    BY <1>1, <2>1 DEF SInv, QTypes, Answered, STypeOK, Row
<1> QED
  BY <1>1, SInvHolds, PTL

\* The lookups of a query are not one atomic read; yet, whatever inserts, purges, resets
\* and boots come between them, no page is missed that had one of the words all the time,
\* none is shown that never had one, the total counts the hits and the results are some.
THEOREM AnswersAreRegular == SSpec => []AnswerIsRegular
<1>1. ASSUME SInv PROVE AnswerIsRegular
  <2> SUFFICES ASSUME answer # NoAnswer
               PROVE  LET matched(pairs) == {p[2] : p \in pairs}
                      IN  /\ matched(throughout) \subseteq Hits
                          /\ Hits \subseteq matched(sometime)
                          /\ answer.total = Cardinality(Hits)
                          /\ ToSet(answer.results) \subseteq Hits
    BY DEF AnswerIsRegular
  <2>1. looked = Len(asked) /\ answer.total = Cardinality(Hits)
        /\ answer.results \in Seq(Hits)
    BY <1>1 DEF SInv, Answered
  <2>2. ASSUME NEW p \in throughout PROVE p[2] \in Hits
    <3>1. p \in ToSet(asked) \X Urls /\ asked \in Seq(Nodes)
      <4>1. throughout \subseteq ToSet(asked) \X Urls
        BY <1>1 DEF SInv, QTypes
      <4>2. asked \in Queries \cup {<<>>}
        BY <1>1 DEF SInv, QTypes
      <4>3. Queries \subseteq Seq(Nodes) /\ <<>> \in Seq(Nodes)
        BY QueriesAssumption
      <4>4. asked \in Seq(Nodes)
        BY <4>2, <4>3
      <4> QED
        BY <4>1, <4>4
    <3>2. PICK i \in 1 .. Len(asked) : p = <<asked[i], p[2]>> /\ p[2] \in Urls
      BY <3>1 DEF ToSet
    <3> QED
      BY <1>1, <2>1, <3>2 DEF SInv, Gathered, Hits
  <2>3. ASSUME NEW u \in Hits PROVE \E p \in sometime : p[2] = u
    <3>1. PICK i \in 1 .. looked : <<asked[i], u>> \in sometime
      BY <1>1 DEF SInv, Gathered, Hits
    <3> QED
      BY <3>1
  <2>4. ToSet(answer.results) \subseteq Hits
    BY <2>1 DEF ToSet
  <2> QED
    BY <2>1, <2>2, <2>3, <2>4
<1> QED
  BY <1>1, SInvHolds, PTL

-----------------------------------------------------------------------------
(* An answer over an index that did not change *)

AskedRows == [i \in 1 .. Len(asked) |-> metadata[asked[i]]]

\* While the index stays, the hits are the merge of the rows looked up so far, and what
\* was answered is a window of their ranking.
MInv ==
    /\ steady => IsMerge(hits, 1 .. looked, AskedRows)
    /\ answer # NoAnswer => answer.results = Window(Ranked, answer.limit, answer.offset)

LEMMA AskedTypes ==
    ASSUME TInv, QTypes
    PROVE  /\ asked \in Seq(Nodes) /\ Len(asked) \in Nat /\ looked \in Nat
           /\ \A i \in 1 .. Len(asked) :
                  asked[i] \in Nodes /\ AskedRows[i] = metadata[asked[i]] /\ AskedRows[i] \in Row
<1>1. Queries \subseteq Seq(Nodes) /\ <<>> \in Seq(Nodes)
  BY QueriesAssumption
<1>2. asked \in Seq(Nodes)
  BY <1>1 DEF QTypes
<1> QED
  BY <1>2, FoundAtNode DEF QTypes, AskedRows

LEMMA MInvNone ==
    ASSUME hits = Nothing, looked = 0, answer = NoAnswer
    PROVE  MInv
<1>1. 1 .. looked = {}
  OBVIOUS
<1> QED
  BY <1>1, MergeOfNone DEF MInv

\* The same for the next state.
LEMMA MInvNoneNext == (hits = Nothing /\ looked = 0 /\ answer = NoAnswer)' => MInv'
<1>1. hits = Nothing /\ looked = 0 /\ answer = NoAnswer => MInv
  BY MInvNone
<1> QED
  BY <1>1, PTL

LEMMA MInvLookup == ASSUME TInv, SInv, MInv, Lookup PROVE MInv'
<1> DEFINE i == looked + 1
<1>1. /\ answer = NoAnswer /\ looked < Len(asked) /\ looked' = i
      /\ hits' = MergeAll(hits, Found(asked[i]))
      /\ UNCHANGED <<asked, answer, steady, metadata>>
  BY DEF Lookup, LookedUp, vars, tree, history
<1>2. /\ looked \in Nat /\ Len(asked) \in Nat /\ hits \in Row
      /\ \A k \in 1 .. Len(asked) :
             asked[k] \in Nodes /\ AskedRows[k] = metadata[asked[k]] /\ AskedRows[k] \in Row
  BY AskedTypes DEF SInv, QTypes
<1>3. /\ 1 .. looked' = (1 .. looked) \cup {i} /\ i \notin 1 .. looked
      /\ i \in 1 .. Len(asked) /\ \A k \in (1 .. looked) \cup {i} : k \in 1 .. Len(asked)
  BY <1>1, <1>2
<1>4. IsFiniteSet(1 .. looked)
  BY <1>2, FS_Interval
<1>5. hits' = MergeAll(hits, AskedRows[i])
  BY <1>1, <1>2, <1>3, FoundAtNode
<1>6. ASSUME steady PROVE IsMerge(hits', (1 .. looked) \cup {i}, AskedRows)
  <2>1. IsMerge(hits, 1 .. looked, AskedRows)
    BY <1>6 DEF MInv
  <2> QED
    BY <1>2, <1>3, <1>4, <1>5, <2>1, MergeOfOneMore
<1>7. AskedRows' = AskedRows
  BY <1>1 DEF AskedRows
<1>8. steady' => IsMerge(hits', 1 .. looked', AskedRows')
  BY <1>1, <1>3, <1>6, <1>7
<1>9. IsMerge(hits, 1 .. looked, AskedRows)' <=> IsMerge(hits', 1 .. looked', AskedRows')
  BY DEF IsMerge, WithPosting
<1> QED
  BY <1>1, <1>8, <1>9 DEF MInv

LEMMA MInvKept ==
    ASSUME MInv, UNCHANGED <<asked, looked, hits, answer>>,
           steady' => steady /\ metadata' = metadata
    PROVE  MInv'
<1>1. steady' => AskedRows' = AskedRows
  BY DEF AskedRows
<1>2. IsMerge(hits, 1 .. looked, AskedRows)' <=> IsMerge(hits, 1 .. looked, AskedRows')
  BY DEF IsMerge, WithPosting
<1>3. Ranked' = Ranked
  BY DEF Ranked, Hits, RanksBefore
<1>4. Window(Ranked, answer.limit, answer.offset)' = Window(Ranked, answer.limit, answer.offset)
  BY <1>3 DEF Window
<1> QED
  BY <1>1, <1>2, <1>4 DEF MInv

LEMMA MInvRespond ==
    ASSUME MInv, NEW limit, NEW offset, Respond(limit, offset)
    PROVE  MInv'
<1>1. /\ answer' = [total |-> Cardinality(Hits),
                    limit |-> Clamped(limit), offset |-> Clamped(offset),
                    results |-> Window(Ranked, Clamped(limit), Clamped(offset))]
      /\ UNCHANGED <<asked, looked, hits, steady, metadata>>
  BY DEF Respond, vars, tree, history
<1>2. AskedRows' = AskedRows
  BY <1>1 DEF AskedRows
<1>3. IsMerge(hits, 1 .. looked, AskedRows)' <=> IsMerge(hits, 1 .. looked, AskedRows)
  BY <1>1, <1>2 DEF IsMerge, WithPosting
<1>4. Ranked' = Ranked
  BY <1>1 DEF Ranked, Hits, RanksBefore
<1>5. Window(Ranked, answer.limit, answer.offset)'
          = Window(Ranked, answer'.limit, answer'.offset)
  BY <1>4 DEF Window
<1>6. answer'.results = Window(Ranked, answer'.limit, answer'.offset)
  BY <1>1
<1> QED
  BY <1>1, <1>3, <1>5, <1>6 DEF MInv

LEMMA MInvSteps == ASSUME TInv, SInv, MInv, [SNext]_svars PROVE MInv'
<1>1. ASSUME NEW tokens \in Queries, Ask(tokens) PROVE MInv'
  BY <1>1, MInvNoneNext DEF Ask
<1>2. CASE Lookup
  BY <1>2, MInvLookup
<1>3. ASSUME NEW w \in Windows, Respond(w[1], w[2]) PROVE MInv'
  BY <1>3, MInvRespond
<1>4. ASSUME Forgotten PROVE MInv'
  BY <1>4, MInvNoneNext DEF Forgotten
<1>5. ASSUME Recorded PROVE MInv'
  BY <1>5, MInvKept DEF Recorded, query
<1>6. CASE UNCHANGED svars
  BY <1>6, MInvKept DEF svars, vars, tree, query, history
<1> QED
  BY <1>1, <1>2, <1>3, <1>4, <1>5, <1>6 DEF SNext, Query, Crawling, Booting

LEMMA MInvHolds == SSpec => [](TInv /\ SInv /\ MInv)
<1>1. SInit => MInv
  BY MInvNone DEF SInit
<1>2. TInv /\ SInv /\ MInv /\ [SNext]_svars => MInv'
  BY MInvSteps
<1> QED
  BY <1>1, <1>2, SInvHolds, PTL DEF SSpec

\* What relevance and least depth of a page say about its postings.
TokenCounts(tokens, u) == [i \in Matching(tokens, u) |-> metadata[tokens[i]][u].tf]

RelevanceMeans ==
    \A tokens \in Seq(Nodes), u \in Urls :
        /\ Matching(tokens, u) = {i \in 1 .. Len(tokens) : metadata[tokens[i]][u] # NoPosting}
        /\ IsFiniteSet(Matching(tokens, u))
        /\ TokenCounts(tokens, u) \in [Matching(tokens, u) -> Nat]
        /\ \A i \in Matching(tokens, u) :
               metadata[tokens[i]][u] \in Posting /\ metadata[tokens[i]][u].depth \in Nat
        /\ u \in Matches(tokens) <=> Matching(tokens, u) # {}
        /\ u \in Matches(tokens) =>
            /\ LeastDepth(tokens, u) \in Nat
            /\ \E i \in Matching(tokens, u) :
                   LeastDepth(tokens, u) = metadata[tokens[i]][u].depth
            /\ \A i \in Matching(tokens, u) :
                   LeastDepth(tokens, u) <= metadata[tokens[i]][u].depth
        /\ Relevance(tokens, u) = 2 * SumFunction(TokenCounts(tokens, u)) - LeastDepth(tokens, u)
        /\ SumFunction(TokenCounts(tokens, u)) \in Nat

LEMMA RelevanceFacts == TInv => RelevanceMeans
<1> SUFFICES ASSUME TInv, NEW tokens \in Seq(Nodes), NEW u \in Urls
             PROVE  RelevanceMeans!(tokens, u)
  BY DEF RelevanceMeans
<1> DEFINE M == Matching(tokens, u)
           post(i) == metadata[tokens[i]][u]
<1>1. \A i \in 1 .. Len(tokens) : Found(tokens[i])[u] = post(i) /\ tokens[i] \in Nodes
  BY FoundAtNode
<1>2. M = {i \in 1 .. Len(tokens) : post(i) # NoPosting}
  BY <1>1 DEF Matching
<1>3. IsFiniteSet(M)
  <2>1. IsFiniteSet(1 .. Len(tokens))
    BY FS_Interval
  <2> QED
    BY <1>2, <2>1, FS_Subset
<1>4. \A i \in M : post(i) \in Posting /\ post(i).tf \in Nat /\ post(i).depth \in Nat
  <2>1. \A i \in 1 .. Len(tokens) : post(i) \in Posting \cup {NoPosting}
    BY <1>1, FoundAtNode DEF Row
  <2> QED
    BY <1>2, <2>1, DepthsAssumption DEF Posting
<1>5. TokenCounts(tokens, u) \in [M -> Nat]
  BY <1>4 DEF TokenCounts
<1>6. u \in Matches(tokens) <=> M # {}
  BY DEF Matches
<1>7. \A i \in M : Found(tokens[i])[u] = post(i)
  BY <1>1, <1>2
<1> HIDE DEF M
<1>8. ASSUME M # {}
      PROVE  /\ LeastDepth(tokens, u) \in Nat
             /\ \E i \in M : LeastDepth(tokens, u) = post(i).depth
             /\ \A i \in M : LeastDepth(tokens, u) <= post(i).depth
  <2> DEFINE D == {Found(tokens[i])[u].depth : i \in M}
  <2>1. D \in SUBSET Nat /\ D # {}
    BY <1>4, <1>7, <1>8
  <2>2. \E n \in D : \A m \in D : n <= m
    <3> HIDE DEF D
    <3> QED
      BY <2>1, SmallestNumber
  <2>3. LeastDepth(tokens, u) = CHOOSE n \in D : \A m \in D : n <= m
    BY DEF LeastDepth, Min, M
  <2>4. LeastDepth(tokens, u) \in D /\ \A m \in D : LeastDepth(tokens, u) <= m
    <3> HIDE DEF D
    <3> QED
      BY <2>2, <2>3
  <2> QED
    BY <1>7, <2>1, <2>4
<1>9. /\ Relevance(tokens, u) = 2 * SumFunction(TokenCounts(tokens, u)) - LeastDepth(tokens, u)
      /\ SumFunction(TokenCounts(tokens, u)) \in Nat
  <2>1. [i \in M |-> Found(tokens[i])[u].tf] = TokenCounts(tokens, u)
    BY <1>7 DEF TokenCounts, M
  <2> QED
    BY <1>3, <1>5, <2>1, SumType DEF Relevance, M
<1> QED
  BY <1>2, <1>3, <1>4, <1>5, <1>6, <1>8, <1>9 DEF M

\* The score of a hit is five times its relevance and a constant.
LEMMA HitsAreMatches ==
    ASSUME TInv, hits \in Row, NEW tokens \in Seq(Nodes),
           IsMerge(hits, 1 .. Len(tokens), [i \in 1 .. Len(tokens) |-> metadata[tokens[i]]])
    PROVE  /\ Hits = Matches(tokens)
           /\ \A u \in Hits :
                  /\ LeastDepth(tokens, u) = hits[u].depth
                  /\ Relevance(tokens, u) = 2 * hits[u].tf - hits[u].depth
<1> DEFINE row == [i \in 1 .. Len(tokens) |-> metadata[tokens[i]]]
<1>1. ASSUME NEW u \in Urls PROVE WithPosting(1 .. Len(tokens), row, u) = Matching(tokens, u)
  BY RelevanceFacts DEF RelevanceMeans, WithPosting
<1>2. Hits = Matches(tokens)
  <2>1. \A u \in Urls : hits[u] # NoPosting <=> Matching(tokens, u) # {}
    BY <1>1 DEF IsMerge
  <2> QED
    BY <2>1 DEF Hits, Matches
<1>3. ASSUME NEW u \in Hits
      PROVE  /\ LeastDepth(tokens, u) = hits[u].depth
             /\ Relevance(tokens, u) = 2 * hits[u].tf - hits[u].depth
  <2>1. u \in Urls /\ hits[u] # NoPosting /\ hits[u].depth \in Nat
    BY HitTypes DEF Hits
  <2>2. /\ hits[u].tf = SumFunction([i \in Matching(tokens, u) |-> row[i][u].tf])
        /\ \E i \in Matching(tokens, u) : hits[u].depth = row[i][u].depth
        /\ \A i \in Matching(tokens, u) : hits[u].depth <= row[i][u].depth
    BY <1>1, <2>1 DEF IsMerge
  <2>3. Matching(tokens, u) \subseteq 1 .. Len(tokens)
    BY DEF Matching
  <2>4. [i \in Matching(tokens, u) |-> row[i][u].tf] = TokenCounts(tokens, u)
    BY <2>3 DEF TokenCounts
  <2>5. LeastDepth(tokens, u) = hits[u].depth
    <3>1. /\ LeastDepth(tokens, u) \in Nat
          /\ \E i \in Matching(tokens, u) : LeastDepth(tokens, u) = metadata[tokens[i]][u].depth
          /\ \A i \in Matching(tokens, u) : LeastDepth(tokens, u) <= metadata[tokens[i]][u].depth
      BY <1>2, <2>1, RelevanceFacts DEF RelevanceMeans
    <3>2. \A i \in Matching(tokens, u) : row[i][u].depth = metadata[tokens[i]][u].depth
      BY <2>3
    <3> HIDE DEF row
    <3>3. LeastDepth(tokens, u) <= hits[u].depth
      BY <2>2, <3>1, <3>2
    <3>4. hits[u].depth <= LeastDepth(tokens, u)
      BY <2>2, <3>1, <3>2
    <3> QED
      BY <2>1, <3>1, <3>3, <3>4
  <2>6. Relevance(tokens, u) = 2 * SumFunction(TokenCounts(tokens, u)) - LeastDepth(tokens, u)
    BY <2>1, RelevanceFacts DEF RelevanceMeans
  <2> QED
    BY <2>2, <2>4, <2>5, <2>6
<1> QED
  BY <1>2, <1>3

\* engine.py:119, "Paginate after ranking so page N is deterministic": over an index
\* that does not change while the query runs, the total is the number of pages with one
\* of its words, and at each place of the window stands the page which exactly as many
\* outrank as there are places before it, for any tokens, postings and windows.
THEOREM AnswersAreExact == SSpec => []AnswerExact
<1>1. ASSUME TInv, SInv, MInv PROVE AnswerExact
  <2> SUFFICES ASSUME answer # NoAnswer, steady
               PROVE  LET found == Matches(asked)
                          place(u) == Cardinality({v \in found : Outranks(asked, v, u)})
                                          - answer.offset
                      IN  /\ answer.total = Cardinality(found)
                          /\ ToSet(answer.results)
                                 = {u \in found : place(u) \in 0 .. answer.limit - 1}
                          /\ \A i \in DOMAIN answer.results : place(answer.results[i]) = i - 1
    BY DEF AnswerExact
  <2>1. /\ hits \in Row /\ asked \in Seq(Nodes)
        /\ answer.total = Cardinality(Hits) /\ answer.limit \in Nat /\ answer.offset \in Nat
        /\ answer.results = Window(Ranked, answer.limit, answer.offset)
    BY <1>1, AskedTypes DEF SInv, QTypes, Answered, MInv
  <2>2. IsMerge(hits, 1 .. Len(asked), [i \in 1 .. Len(asked) |-> metadata[asked[i]]])
    BY <1>1 DEF SInv, Answered, MInv, AskedRows
  <2>3. /\ Hits = Matches(asked)
        /\ \A u \in Hits : /\ LeastDepth(asked, u) = hits[u].depth
                           /\ Relevance(asked, u) = 2 * hits[u].tf - hits[u].depth
    BY <1>1, <2>1, <2>2, HitsAreMatches
  <2>4. ASSUME NEW u \in Hits, NEW v \in Hits PROVE Outranks(asked, v, u) <=> RanksBefore(v, u)
    <3>1. /\ hits[u].tf \in Nat /\ hits[u].depth \in Nat /\ u \in Nat
          /\ hits[v].tf \in Nat /\ hits[v].depth \in Nat /\ v \in Nat
      BY <2>1, HitTypes
    <3>2. /\ Score(hits[u]) > Score(hits[v]) <=> Relevance(asked, u) > Relevance(asked, v)
          /\ Score(hits[v]) > Score(hits[u]) <=> Relevance(asked, v) > Relevance(asked, u)
          /\ Score(hits[v]) = Score(hits[u]) <=> Relevance(asked, v) = Relevance(asked, u)
      BY <2>3, <3>1 DEF Score, FrequencyWeight, DepthPenalty, BaseScore
    <3> QED
      BY <2>3, <3>1, <3>2 DEF Outranks, RanksBefore
  <2>5. ASSUME NEW u \in Hits PROVE {v \in Matches(asked) : Outranks(asked, v, u)} = Before(u)
    BY <2>3, <2>4 DEF Before
  <2>6. /\ \A i \in DOMAIN answer.results :
               Cardinality(Before(answer.results[i])) - answer.offset = i - 1
        /\ ToSet(answer.results) =
               {u \in Hits : Cardinality(Before(u)) - answer.offset \in 0 .. answer.limit - 1}
    BY <2>1, WindowPlaces
  <2>7. \A i \in DOMAIN answer.results : answer.results[i] \in Hits
    BY <2>6 DEF ToSet
  <2> QED
    BY <2>1, <2>3, <2>5, <2>6, <2>7
<1> QED
  BY <1>1, MInvHolds, PTL

LEMMA MatchingBefore ==
    ASSUME RelevanceMeans, RelevanceMeans', NEW tokens \in Seq(Nodes), NEW u \in Urls
    PROVE  /\ Matching(tokens, u) = {i \in 1 .. Len(tokens) : metadata[tokens[i]][u] # NoPosting}
           /\ Matching(tokens, u)' =
                  {i \in 1 .. Len(tokens) : metadata'[tokens[i]][u] # NoPosting}
           /\ \A i \in 1 .. Len(tokens) : tokens[i] \in Nodes
           /\ u \in Matches(tokens) <=> Matching(tokens, u) # {}
           /\ u \in Matches(tokens)' <=> Matching(tokens, u)' # {}
<1>1. Matching(tokens, u) = {i \in 1 .. Len(tokens) : metadata[tokens[i]][u] # NoPosting}
      /\ (u \in Matches(tokens) <=> Matching(tokens, u) # {})
  BY DEF RelevanceMeans
<1>2. /\ Matching(tokens, u)' =
             {i \in 1 .. Len(tokens) : metadata'[tokens[i]][u] # NoPosting}
      /\ (u \in Matches(tokens)' <=> Matching(tokens, u)' # {})
  BY DEF RelevanceMeans
<1>3. \A i \in 1 .. Len(tokens) : tokens[i] \in Nodes
  OBVIOUS
<1> QED
  BY <1>1, <1>2, <1>3

\* A page whose postings only gain does not lose relevance or come to lie deeper ...
LEMMA GainsKeepRelevance ==
    ASSUME RelevanceMeans, RelevanceMeans', NEW tokens \in Seq(Nodes), NEW u \in Matches(tokens),
           \A n \in Nodes : metadata[n][u] # NoPosting =>
               /\ metadata'[n][u] # NoPosting
               /\ metadata'[n][u].tf >= metadata[n][u].tf
               /\ metadata'[n][u].depth <= metadata[n][u].depth
    PROVE  /\ u \in Matches(tokens)'
           /\ LeastDepth(tokens, u)' <= LeastDepth(tokens, u)
           /\ SumFunction(TokenCounts(tokens, u)') >= SumFunction(TokenCounts(tokens, u))
<1>1. u \in Urls
  BY DEF Matches
<1>2. Matching(tokens, u) \subseteq Matching(tokens, u)' /\ Matching(tokens, u) # {}
  BY <1>1, MatchingBefore
<1>3. u \in Matches(tokens)'
  BY <1>1, <1>2, MatchingBefore
<1>4. LeastDepth(tokens, u)' <= LeastDepth(tokens, u)
  <2>1. PICK i \in Matching(tokens, u) : LeastDepth(tokens, u) = metadata[tokens[i]][u].depth
    BY <1>1 DEF RelevanceMeans
  <2>2. /\ LeastDepth(tokens, u)' <= metadata'[tokens[i]][u].depth
        /\ LeastDepth(tokens, u)' \in Nat
        /\ metadata'[tokens[i]][u].depth \in Nat
    BY <1>1, <1>2, <1>3, <2>1 DEF RelevanceMeans
  <2>3. metadata'[tokens[i]][u].depth <= metadata[tokens[i]][u].depth
    BY <1>1, <2>1 DEF RelevanceMeans
  <2>4. metadata[tokens[i]][u].depth \in Nat
    BY <1>1, <2>1 DEF RelevanceMeans
  <2> QED
    BY <2>1, <2>2, <2>3, <2>4
<1>5. SumFunction(TokenCounts(tokens, u)) <= SumFunction(TokenCounts(tokens, u)')
  <2>1. /\ TokenCounts(tokens, u) \in [Matching(tokens, u) -> Nat]
        /\ TokenCounts(tokens, u)' \in [Matching(tokens, u)' -> Nat]
        /\ IsFiniteSet(Matching(tokens, u)')
    BY <1>1 DEF RelevanceMeans
  <2>2. ASSUME NEW i \in Matching(tokens, u)
        PROVE  TokenCounts(tokens, u)[i] <= TokenCounts(tokens, u)'[i]
    <3>1. i \in Matching(tokens, u)' /\ tokens[i] \in Nodes /\ metadata[tokens[i]][u] # NoPosting
      BY <1>1, <1>2, MatchingBefore
    <3>2. metadata'[tokens[i]][u].tf >= metadata[tokens[i]][u].tf
      BY <3>1
    <3>3. TokenCounts(tokens, u)[i] = metadata[tokens[i]][u].tf
          /\ TokenCounts(tokens, u)'[i] = metadata'[tokens[i]][u].tf
      BY <3>1 DEF TokenCounts
    <3> QED
      BY <2>1, <3>1, <3>2, <3>3
  <2> QED
    BY <1>2, <2>1, <2>2, SumMonotonic
<1>6. /\ SumFunction(TokenCounts(tokens, u)) \in Nat
      /\ SumFunction(TokenCounts(tokens, u)') \in Nat
  BY <1>1 DEF RelevanceMeans
<1> QED
  BY <1>3, <1>4, <1>5, <1>6

\* ... and one whose postings stay keeps both.
LEMMA StayingKeepsRelevance ==
    ASSUME RelevanceMeans, RelevanceMeans', NEW tokens \in Seq(Nodes), NEW v \in Urls,
           \A n \in Nodes : metadata'[n][v] = metadata[n][v]
    PROVE  /\ v \in Matches(tokens)' => v \in Matches(tokens)
           /\ v \in Matches(tokens) =>
                  /\ LeastDepth(tokens, v)' = LeastDepth(tokens, v)
                  /\ Relevance(tokens, v)' = Relevance(tokens, v)
<1>1. \A i \in 1 .. Len(tokens) : metadata'[tokens[i]][v] = metadata[tokens[i]][v]
  OBVIOUS
<1>2. Matching(tokens, v)' = Matching(tokens, v)
      /\ Matching(tokens, v) \subseteq 1 .. Len(tokens)
  BY <1>1, MatchingBefore
<1>3. TokenCounts(tokens, v)' = TokenCounts(tokens, v)
  BY <1>1, <1>2 DEF TokenCounts
<1>4. v \in Matches(tokens)' <=> v \in Matches(tokens)
  BY <1>2, MatchingBefore
<1>5. ASSUME v \in Matches(tokens) PROVE LeastDepth(tokens, v)' = LeastDepth(tokens, v)
  <2>1. /\ LeastDepth(tokens, v) \in Nat
        /\ \E i \in Matching(tokens, v) : LeastDepth(tokens, v) = metadata[tokens[i]][v].depth
        /\ \A i \in Matching(tokens, v) : LeastDepth(tokens, v) <= metadata[tokens[i]][v].depth
    BY <1>5 DEF RelevanceMeans
  <2>2. /\ LeastDepth(tokens, v)' \in Nat
        /\ \E i \in Matching(tokens, v) : LeastDepth(tokens, v)' = metadata'[tokens[i]][v].depth
        /\ \A i \in Matching(tokens, v) : LeastDepth(tokens, v)' <= metadata'[tokens[i]][v].depth
    <3>1. /\ LeastDepth(tokens, v)' \in Nat
          /\ \E i \in Matching(tokens, v)' :
                 LeastDepth(tokens, v)' = metadata'[tokens[i]][v].depth
          /\ \A i \in Matching(tokens, v)' :
                 LeastDepth(tokens, v)' <= metadata'[tokens[i]][v].depth
      BY <1>4, <1>5 DEF RelevanceMeans
    <3> QED
      BY <1>2, <3>1
  <2>3. \A i \in Matching(tokens, v) : metadata'[tokens[i]][v].depth = metadata[tokens[i]][v].depth
    BY <1>1, <1>2
  <2>4. LeastDepth(tokens, v)' <= LeastDepth(tokens, v)
    BY <2>1, <2>2, <2>3
  <2>5. LeastDepth(tokens, v) <= LeastDepth(tokens, v)'
    BY <2>1, <2>2, <2>3
  <2> QED
    BY <2>1, <2>2, <2>4, <2>5
<1>6. /\ Relevance(tokens, v) = 2 * SumFunction(TokenCounts(tokens, v)) - LeastDepth(tokens, v)
      /\ Relevance(tokens, v)' =
             2 * SumFunction(TokenCounts(tokens, v)') - LeastDepth(tokens, v)'
  BY DEF RelevanceMeans
<1> QED
  BY <1>3, <1>4, <1>5, <1>6

LEMMA OccurrenceStep ==
    ASSUME TInv, RelevanceMeans, RelevanceMeans', [SNext]_svars, inserts' > inserts,
           NEW u \in Urls, NEW v \in Urls, u # v, NEW tokens \in Queries,
           \E w \in Words : metadata'[w][u] # metadata[w][u],
           Outranks(tokens, u, v)
    PROVE  Outranks(tokens, u, v)'
<1>1. PICK w \in Words, x \in Urls, d \in Depths, o \in Origins : Insert(w, x, d, o)
  <2>1. inserts \in Nat
    BY DEF TInv, TypeOK
  <2>2. inserts' # inserts
    BY <2>1
  <2> QED
    BY <2>2 DEF SNext, Query, Ask, Lookup, Respond, Crawling, Booting, Purge, Clear, Reboot,
       BulkInsert, svars, vars
<1>2. metadata' = [metadata EXCEPT ![w][x] = Counted(@, d, o)]
  BY <1>1 DEF Insert
<1>3. metadata \in [Nodes -> Row] /\ w \in Nodes
  BY PathFacts DEF TInv, TypeOK, Row
<1>4. \A n \in Nodes, y \in Urls :
          metadata'[n][y] = IF n = w /\ y = x THEN Counted(metadata[n][y], d, o)
                            ELSE metadata[n][y]
  BY <1>2, <1>3 DEF Row
<1>5. x = u
  <2>1. Words \subseteq Nodes
    BY PathFacts
  <2> QED
    BY <1>4, <2>1
<1>6. tokens \in Seq(Nodes)
  BY QueriesAssumption
<1>7. \A n \in Nodes : metadata'[n][v] = metadata[n][v]
  BY <1>4, <1>5
<1>8. ASSUME NEW n \in Nodes, metadata[n][u] # NoPosting
      PROVE  /\ metadata'[n][u] # NoPosting
             /\ metadata'[n][u].tf >= metadata[n][u].tf
             /\ metadata'[n][u].depth <= metadata[n][u].depth
  <2>1. /\ metadata[n][u] \in Posting /\ metadata[n][u].tf \in Nat
        /\ metadata[n][u].depth \in Nat /\ d \in Nat
    BY <1>3, <1>8, DepthsAssumption DEF Row, Posting
  <2>2. CASE n = w
    <3>1. /\ metadata'[n][u] =
                 [metadata[n][u] EXCEPT !.tf = @ + 1, !.depth = Shallower(@, d)]
      BY <1>4, <1>5, <1>8, <2>2 DEF Counted
    <3>2. metadata'[n][u].tf = metadata[n][u].tf + 1
          /\ metadata'[n][u].depth = Shallower(metadata[n][u].depth, d)
      BY <2>1, <3>1 DEF Posting
    <3>3. metadata'[n][u] # NoPosting
      <4>1. Counted(metadata[n][u], d, o) \in Posting
        BY <2>1, CountedType
      <4> QED
        BY <1>4, <1>5, <2>2, <4>1, NoPostingAssumption
    <3> QED
      BY <2>1, <3>2, <3>3 DEF Shallower
  <2>3. CASE n # w
    BY <1>4, <1>8, <2>1, <2>3
  <2> QED
    BY <2>2, <2>3
<1>9. u \in Matches(tokens)
  BY DEF Outranks
<1>10. /\ u \in Matches(tokens)'
       /\ LeastDepth(tokens, u)' <= LeastDepth(tokens, u)
       /\ SumFunction(TokenCounts(tokens, u)') >= SumFunction(TokenCounts(tokens, u))
  BY <1>6, <1>8, <1>9, GainsKeepRelevance
<1>11. /\ v \in Matches(tokens)' => v \in Matches(tokens)
       /\ v \in Matches(tokens) =>
              /\ LeastDepth(tokens, v)' = LeastDepth(tokens, v)
              /\ Relevance(tokens, v)' = Relevance(tokens, v)
  BY <1>6, <1>7, StayingKeepsRelevance
<1>12. /\ Relevance(tokens, u) = 2 * SumFunction(TokenCounts(tokens, u)) - LeastDepth(tokens, u)
       /\ Relevance(tokens, u)' =
              2 * SumFunction(TokenCounts(tokens, u)') - LeastDepth(tokens, u)'
       /\ SumFunction(TokenCounts(tokens, u)) \in Nat
       /\ SumFunction(TokenCounts(tokens, u)') \in Nat
       /\ LeastDepth(tokens, u) \in Nat /\ LeastDepth(tokens, u)' \in Nat
  BY <1>6, <1>9, <1>10 DEF RelevanceMeans
<1>13. v \in Matches(tokens) =>
           Relevance(tokens, v) \in Int /\ LeastDepth(tokens, v) \in Nat
  <2> SUFFICES ASSUME v \in Matches(tokens)
               PROVE  Relevance(tokens, v) \in Int /\ LeastDepth(tokens, v) \in Nat
    OBVIOUS
  <2> DEFINE sum == SumFunction(TokenCounts(tokens, v))
  <2>1. Relevance(tokens, v) = 2 * sum - LeastDepth(tokens, v)
    BY <1>6 DEF RelevanceMeans
  <2>2. sum \in Nat
    BY <1>6 DEF RelevanceMeans
  <2>3. LeastDepth(tokens, v) \in Nat
    BY <1>6 DEF RelevanceMeans
  <2> HIDE DEF sum
  <2> QED
    BY <2>1, <2>2, <2>3
<1>14. ASSUME v \in Matches(tokens)'
       PROVE  \/ Relevance(tokens, u)' > Relevance(tokens, v)'
              \/ /\ Relevance(tokens, u)' = Relevance(tokens, v)'
                 /\ \/ LeastDepth(tokens, u)' < LeastDepth(tokens, v)'
                    \/ LeastDepth(tokens, u)' = LeastDepth(tokens, v)' /\ u < v
  <2>1. \/ Relevance(tokens, u) > Relevance(tokens, v)
        \/ /\ Relevance(tokens, u) = Relevance(tokens, v)
           /\ \/ LeastDepth(tokens, u) < LeastDepth(tokens, v)
              \/ LeastDepth(tokens, u) = LeastDepth(tokens, v) /\ u < v
    BY <1>11, <1>14 DEF Outranks
  <2> QED
    BY <1>10, <1>11, <1>12, <1>13, <1>14, <2>1
<1> QED
  BY <1>10, <1>14 DEF Outranks

\* ranking.py:61-64 on top of trie.py:148-154: however pages, words and queries are chosen,
\* one more occurrence of a word on a page never lets another page overtake it: neither does
\* the sum fall nor the smallest depth grow.
THEOREM OccurrencesNeverDemote == SSpec => OccurrenceNeverDemotes
<1>1. TInv /\ RelevanceMeans /\ RelevanceMeans' /\ [SNext]_svars =>
          [\A u, v \in Urls, tokens \in Queries :
              (/\ inserts' > inserts
               /\ \E w \in Words : metadata'[w][u] # metadata[w][u]
               /\ u # v /\ Outranks(tokens, u, v))
                  => Outranks(tokens, u, v)']_svars
  BY OccurrenceStep
<1> QED
  BY <1>1, RelevanceFacts, QueriesOnlyRead, TInvHolds, PTL DEF SSpec, OccurrenceNeverDemotes

-----------------------------------------------------------------------------
(* Prefix search *)

Subtree(p) == {n \in nodes : Extends(n, p) /\ n \in isWord}

\* The fold over the words of a subtree is their merge.
LEMMA PrefixFoundIsMerge ==
    ASSUME TInv, NEW p
    PROVE  IsMerge(PrefixFound(p), Subtree(p), metadata)
<1> DEFINE S == Subtree(p)
           chosen == [T \in SUBSET S |-> CHOOSE n \in T : TRUE]
           step == [n \in S |-> [h \in Row |-> MergeAll(h, metadata[n])]]
           Folds(k) == k = [T \in SUBSET S |->
                               IF T = {} THEN Nothing
                               ELSE LET n == CHOOSE n \in T : TRUE
                                    IN  MergeAll(k[T \ {n}], metadata[n])]
           fold == CHOOSE k : Folds(k)
           P == {T \in SUBSET S : fold[T] \in Row /\ IsMerge(fold[T], T, metadata)}
<1>1. IsFiniteSet(S) /\ \A n \in S : metadata[n] \in Row
  <2>1. S \subseteq nodes /\ nodes \subseteq Nodes /\ IsFiniteSet(nodes)
    BY DEF Subtree, TInv, TypeOK
  <2> QED
    BY <2>1, FS_Subset, FoundAtNode
<1>2. PrefixFound(p) = fold[S]
  BY DEF PrefixFound, FoldSet, MapThenFoldSet, Subtree
<1> HIDE DEF S
<1>11. IsFiniteSet(S)
  BY <1>1
<1>3. \A T \in SUBSET S : T # {} => chosen[T] \in T
  OBVIOUS
<1>4. step \in [S -> [Row -> Row]]
  BY <1>1, MergeFacts
<1>5. \E k : Folds(k)
  <2>11. PICK g : SolvesFold(g, S, Row, Nothing, step, chosen)
    <3> HIDE DEF step, chosen
    <3>1. Foldable(S, Row, Nothing, step, chosen)
      BY <1>11, <1>3, <1>4, NothingIsARow DEF Foldable
    <3> QED
      BY <3>1, FoldsExist
  <2>1. /\ g \in [SUBSET S -> Row]
        /\ \A T \in SUBSET S :
               g[T] = IF T = {} THEN Nothing ELSE step[chosen[T]][g[T \ {chosen[T]}]]
    <3> HIDE DEF step, chosen
    <3> QED
      BY <2>11 DEF SolvesFold
  <2>2. ASSUME NEW T \in SUBSET S
        PROVE  g[T] = IF T = {} THEN Nothing
                      ELSE MergeAll(g[T \ {CHOOSE n \in T : TRUE}],
                                    metadata[CHOOSE n \in T : TRUE])
    <3>1. CASE T = {}
      BY <2>1, <3>1
    <3>2. CASE T # {}
      <4>1. chosen[T] \in S /\ chosen[T] = (CHOOSE n \in T : TRUE)
        BY <1>3, <3>2
      <4>2. g[T \ {chosen[T]}] \in Row
        BY <2>1
      <4>3. g[T] = step[chosen[T]][g[T \ {chosen[T]}]]
        BY <2>1, <3>2
      <4>4. step[chosen[T]][g[T \ {chosen[T]}]]
                = MergeAll(g[T \ {chosen[T]}], metadata[chosen[T]])
        <5> HIDE DEF chosen
        <5> QED
          BY <4>1, <4>2
      <4> HIDE DEF chosen, step
      <4> QED
        BY <3>2, <4>1, <4>3, <4>4
    <3> QED
      BY <3>1, <3>2
  <2>3. Folds(g)
    <3>1. g = [T \in SUBSET S |-> g[T]]
      BY <2>1
    <3> QED
      BY <2>2, <3>1
  <2> HIDE DEF Folds
  <2> QED
    BY <2>3
<1>6. Folds(fold)
  <2> HIDE DEF Folds
  <2> QED
    BY <1>5
<1>7. \A T \in SUBSET S : fold[T] = IF T = {} THEN Nothing
                                    ELSE MergeAll(fold[T \ {CHOOSE n \in T : TRUE}],
                                                  metadata[CHOOSE n \in T : TRUE])
  <2> HIDE DEF fold
  <2> QED
    BY <1>6
<1> HIDE DEF fold
<1>8. ASSUME NEW T \in SUBSET S, \A n \in T : T \ {n} \in P
      PROVE  fold[T] \in Row /\ IsMerge(fold[T], T, metadata)
  <2>1. CASE T = {}
    BY <1>7, <2>1, NothingIsARow, MergeOfNone
  <2>2. CASE T # {}
    <3>1. PICK n \in T : n = CHOOSE m \in T : TRUE
      BY <2>2
    <3>2. fold[T] = MergeAll(fold[T \ {n}], metadata[n])
      BY <1>7, <2>2, <3>1
    <3>3. fold[T \ {n}] \in Row /\ IsMerge(fold[T \ {n}], T \ {n}, metadata)
      BY <1>8
    <3>4. /\ IsFiniteSet(T \ {n}) /\ n \notin T \ {n} /\ (T \ {n}) \cup {n} = T
          /\ \A m \in T : metadata[m] \in Row
      BY <1>1, FS_Subset
    <3>5. IsMerge(MergeAll(fold[T \ {n}], metadata[n]), (T \ {n}) \cup {n}, metadata)
      BY <3>3, <3>4, MergeOfOneMore
    <3> QED
      BY <3>2, <3>3, <3>4, <3>5, MergeFacts
  <2> QED
    BY <2>1, <2>2
<1>9. \A T \in SUBSET S : (\A n \in T : T \ {n} \in P) => T \in P
  BY <1>8
<1> HIDE DEF P
<1>10. S \in P
  BY <1>11, <1>9, FiniteSetInduction
<1> QED
  BY <1>2, <1>10 DEF P, S

\* trie.py:207-209: whatever words were inserted, purged, reset and imported, a prefix search
\* adds up exactly the exact searches of the words that begin with the prefix, in whatever
\* order the walk of the subtree meets them.
THEOREM PrefixSearchMerges == SSpec => []PrefixMergesWords
<1>1. ASSUME TInv PROVE PrefixMergesWords
  <2> SUFFICES ASSUME NEW p \in Nodes \ {Root}, NEW u \in Urls
               PROVE  LET words == {w \in Words : Extends(w, p) /\ Found(w)[u] # NoPosting}
                          merged == PrefixFound(p)[u]
                      IN  /\ merged = NoPosting <=> words = {}
                          /\ merged # NoPosting =>
                              /\ merged.tf = SumFunction([w \in words |-> Found(w)[u].tf])
                              /\ merged.depth = Min({Found(w)[u].depth : w \in words})
    BY DEF PrefixMergesWords
  <2> DEFINE words == {w \in Words : Extends(w, p) /\ Found(w)[u] # NoPosting}
             merged == PrefixFound(p)[u]
             D == {Found(w)[u].depth : w \in words}
  <2>1. \A w \in Words : Found(w) = metadata[w] /\ metadata[w] \in Row /\ w \in Nodes
    BY <1>1, FoundAtNode, PathFacts
  <2>2. words = WithPosting(Subtree(p), metadata, u)
    <3>1. ASSUME NEW w \in Words, metadata[w][u] # NoPosting PROVE w \in isWord /\ w \in nodes
      <4>1. w \in isWord
        BY <1>1, <2>1, <3>1 DEF TInv, WordIffPostings, Carries
      <4> QED
        BY <1>1, <4>1, PathFacts DEF TInv, WordsReachable
    <3>2. isWord \subseteq Words
      BY <1>1 DEF TInv, TypeOK
    <3> QED
      BY <2>1, <3>1, <3>2 DEF WithPosting, Subtree
  <2>3. /\ merged # NoPosting <=> words # {}
        /\ merged # NoPosting =>
            /\ merged.tf = SumFunction([w \in words |-> metadata[w][u].tf])
            /\ \E w \in words : merged.depth = metadata[w][u].depth
            /\ \A w \in words : merged.depth <= metadata[w][u].depth
    <3>1. IsMerge(PrefixFound(p), Subtree(p), metadata)
      BY <1>1, PrefixFoundIsMerge
    <3> HIDE DEF words
    <3> QED
      BY <2>2, <3>1 DEF IsMerge
  <2>4. [w \in words |-> Found(w)[u].tf] = [w \in words |-> metadata[w][u].tf]
    BY <2>1
  <2>5. \A w \in words : Found(w)[u].depth = metadata[w][u].depth /\ metadata[w][u].depth \in Nat
    BY <2>1, DepthsAssumption DEF Row, Posting
  <2>6. ASSUME merged # NoPosting PROVE merged.depth = Min(D)
    <3>1. merged.depth \in D /\ (\A d \in D : merged.depth <= d) /\ D \subseteq Nat
      <4> HIDE DEF words, merged
      <4> QED
        BY <2>3, <2>5, <2>6
    <3> HIDE DEF D, merged
    <3>2. ASSUME NEW d \in D, \A e \in D : d <= e PROVE d = merged.depth
      <4>1. d <= merged.depth /\ merged.depth <= d /\ d \in Nat /\ merged.depth \in Nat
        BY <3>1, <3>2
      <4> QED
        BY <4>1
    <3>3. Min(D) = CHOOSE d \in D : \A e \in D : d <= e
      BY DEF Min
    <3> QED
      BY <3>1, <3>2, <3>3
  <2> HIDE DEF words, merged
  <2> QED
    BY <2>3, <2>4, <2>6 DEF words, merged
<1> QED
  BY <1>1, QueriesOnlyRead, TInvHolds, PTL

\* Beside any queries too, the trie stays consistent ...
THEOREM SearchKeepsTrie == SSpec => []Consistent
BY QueriesOnlyRead, TrieConsistent, PTL

\* ... and implements the flat index.
THEOREM SearchKeepsIndex == SSpec => ImplementsIndex
BY QueriesOnlyRead, TrieImplementsIndex, PTL
=============================================================================
