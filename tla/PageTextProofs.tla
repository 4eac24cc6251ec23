--------------------------- MODULE PageTextProofs ---------------------------
(***************************************************************************)
(* Proofs about the way of a page into the index and back, in this order:  *)
(*   - the flags follow the tree: of each element with a flag at most one  *)
(*     is open, and the counter is the number of open elements it counts;  *)
(*   - the text: stripping tags and joining pieces are folds that change   *)
(*     no run of characters between blanks, so what the parser wrote and   *)
(*     what a reader saw keep the same words at every callback;            *)
(*   - the preview: the same, with where the words of a paragraph may end; *)
(*   - the shard file: digits read back as the number, an escaped field    *)
(*     holds no separator and decodes to itself, so a line splits where it *)
(*     was joined; and the words were folded before, which is for good;    *)
(*   - searching: letter by letter, folding commutes with cutting into     *)
(*     words, so both sides have the same folded words.                    *)
(* Folds over sequences are reasoned about by SequenceInduction, which     *)
(* follows from FoldFacts: a set with the empty sequence, and with each of *)
(* its members lengthened by one element, has all sequences.               *)
(***************************************************************************)
EXTENDS PageText, FoldFacts, SequenceTheorems

-----------------------------------------------------------------------------
(* The flags of the parser *)

\* Well-formed pages: end tags are left out only where a paragraph ends another, and no
\* stray end tag is inside boilerplate.
WellFormed == ~Sloppy /\ ("p" \in Tags => "p" \in BlockLevel)

\* The open elements whose text the preview leaves out.
Skipped(s) == {i \in 1 .. Len(s) : s[i] \in SnippetSkipTags}

Has(s, t) == \E i \in 1 .. Len(s) : s[i] = t

\* Of the elements with a flag, at most one each is open.
Flagged == {"script", "title", "p"}
Once(s) == \A i, k \in 1 .. Len(s) : s[i] \in Flagged /\ s[i] = s[k] => i = k

\* What the flags and the counter are for open elements s.
Fits(script, title, p, skipped, s) ==
    /\ script <=> Has(s, "script")
    /\ title <=> Has(s, "title")
    /\ p <=> Has(s, "p")
    /\ skipped = Cardinality(Skipped(s))

FInv ==
    /\ open \in Seq(Tags) /\ skipTags \in Nat
    /\ inScriptOrStyle \in BOOLEAN /\ inTitle \in BOOLEAN /\ inP \in BOOLEAN
    /\ Once(open)
    /\ Fits(inScriptOrStyle, inTitle, inP, skipTags, open)

LEMMA InsideMeans == open \in Seq(Tags) => \A S : Inside(S) <=> \E t \in S : Has(open, t)
BY LenProperties DEF Inside, ToSet, Has

LEMMA FlagsMean ==
    open \in Seq(Tags) =>
        (FlagsFollowTree <=> Fits(inScriptOrStyle, inTitle, inP, skipTags, open))
<1> SUFFICES ASSUME open \in Seq(Tags)
             PROVE  FlagsFollowTree <=> Fits(inScriptOrStyle, inTitle, inP, skipTags, open)
  OBVIOUS
<1>1. DOMAIN open = 1 .. Len(open)
  BY LenProperties
<1>2. /\ Inside(InvisibleTags) <=> Has(open, "script")
      /\ Inside({"title"}) <=> Has(open, "title")
      /\ Inside({"p"}) <=> Has(open, "p")
  BY InsideMeans DEF InvisibleTags
<1>3. Quantify(DOMAIN open, LAMBDA i : open[i] \in SnippetSkipTags) = Cardinality(Skipped(open))
  BY <1>1 DEF Quantify, Skipped
<1> QED
  BY <1>2, <1>3 DEF FlagsFollowTree, Fits

LEMMA FrontAndLast ==
    ASSUME NEW T, NEW s \in Seq(T), s # <<>>
    PROVE  /\ Front(s) \in Seq(T) /\ Last(s) \in T /\ Len(s) \in Nat \ {0}
           /\ Len(Front(s)) = Len(s) - 1
           /\ \A i \in 1 .. Len(s) - 1 : Front(s)[i] = s[i]
           /\ s[Len(s)] = Last(s)
<1>1. Len(s) \in Nat \ {0} /\ \A i \in 1 .. Len(s) : s[i] \in T
  BY EmptySeq, LenProperties
<1>2. /\ SubSeq(s, 1, Len(s) - 1) \in Seq(T)
      /\ Len(SubSeq(s, 1, Len(s) - 1)) = Len(s) - 1
      /\ \A i \in 1 .. Len(s) - 1 : SubSeq(s, 1, Len(s) - 1)[i] = s[i]
  <2>1. \A i \in 1 .. Len(s) - 1 : s[i] \in T
    BY <1>1
  <2> DEFINE m == 1
             n == Len(s) - 1
  <2>2. m \in Int /\ n \in Int /\ \A i \in m .. n : s[i] \in T
    BY <1>1, <2>1
  <2>3. m <= n \/ n = 0
    <3>1. \A k \in Nat \ {0} : 1 <= k - 1 \/ k - 1 = 0
      OBVIOUS
    <3> QED
      BY <1>1, <3>1
  <2>4. /\ SubSeq(s, m, n) \in Seq(T)
        /\ Len(SubSeq(s, m, n)) = IF m <= n THEN n - m + 1 ELSE 0
        /\ \A i \in 1 .. n - m + 1 : SubSeq(s, m, n)[i] = s[m + i - 1]
    <3> HIDE DEF m, n
    <3> QED
      BY <2>2, SubSeqProperties
  <2> QED
    BY <1>1, <2>3, <2>4
<1> QED
  BY <1>1, <1>2 DEF Front, Last

LEMMA SkippedOfAppend ==
    ASSUME NEW s \in Seq(Tags), NEW t \in Tags
    PROVE  /\ Cardinality(Skipped(s)) \in Nat
           /\ Cardinality(Skipped(Append(s, t)))
                  = IF t \in SnippetSkipTags THEN Cardinality(Skipped(s)) + 1
                    ELSE Cardinality(Skipped(s))
<1>1. /\ Len(s) \in Nat /\ Len(Append(s, t)) = Len(s) + 1
      /\ \A i \in 1 .. Len(s) : Append(s, t)[i] = s[i]
      /\ Append(s, t)[Len(s) + 1] = t
  BY AppendProperties, LenProperties
<1>2. IsFiniteSet(Skipped(s))
  <2>1. IsFiniteSet(1 .. Len(s))
    BY <1>1, FS_Interval
  <2> QED
    BY <2>1, FS_Subset DEF Skipped
<1>3. Skipped(Append(s, t)) = IF t \in SnippetSkipTags THEN Skipped(s) \cup {Len(s) + 1}
                              ELSE Skipped(s)
  BY <1>1 DEF Skipped
<1>4. Len(s) + 1 \notin Skipped(s)
  BY <1>1 DEF Skipped
<1>5. Cardinality(Skipped(s) \cup {Len(s) + 1}) = Cardinality(Skipped(s)) + 1
  BY <1>2, <1>4, FS_AddElement
<1> QED
  BY <1>2, <1>3, <1>5, FS_CardinalityType

LEMMA SkippedOfFront ==
    ASSUME NEW s \in Seq(Tags), s # <<>>
    PROVE  Cardinality(Skipped(s))
               = IF Last(s) \in SnippetSkipTags THEN Cardinality(Skipped(Front(s))) + 1
                 ELSE Cardinality(Skipped(Front(s)))
<1>1. /\ Front(s) \in Seq(Tags) /\ Last(s) \in Tags
      /\ Len(s) \in Nat \ {0} /\ Len(Front(s)) = Len(s) - 1
      /\ \A i \in 1 .. Len(s) - 1 : Front(s)[i] = s[i]
      /\ s[Len(s)] = Last(s)
  BY FrontAndLast
<1>2. Append(Front(s), Last(s)) = s
  <2>1. /\ Append(Front(s), Last(s)) \in Seq(Tags)
        /\ Len(Append(Front(s), Last(s))) = Len(Front(s)) + 1
        /\ \A i \in 1 .. Len(Front(s)) : Append(Front(s), Last(s))[i] = Front(s)[i]
        /\ Append(Front(s), Last(s))[Len(Front(s)) + 1] = Last(s)
    BY <1>1, AppendProperties
  <2>2. \A i \in 1 .. Len(s) : Append(Front(s), Last(s))[i] = s[i]
    BY <1>1, <2>1
  <2>3. Len(Append(Front(s), Last(s))) = Len(s)
    BY <1>1, <2>1
  <2> QED
    BY <2>1, <2>2, <2>3, SeqEqual
<1> QED
  BY <1>1, <1>2, SkippedOfAppend

LEMMA OpensOfAppend ==
    ASSUME NEW s \in Seq(Tags), NEW t \in Tags
    PROVE  /\ Append(s, t) \in Seq(Tags)
           /\ \A u : Has(Append(s, t), u) <=> Has(s, u) \/ u = t
           /\ Once(s) /\ (t \in Flagged => ~Has(s, t)) => Once(Append(s, t))
<1>1. /\ Append(s, t) \in Seq(Tags)
      /\ Len(s) \in Nat /\ Len(Append(s, t)) = Len(s) + 1
      /\ \A i \in 1 .. Len(s) : Append(s, t)[i] = s[i]
      /\ Append(s, t)[Len(s) + 1] = t
  BY AppendProperties, LenProperties
<1>2. \A u : Has(Append(s, t), u) <=> Has(s, u) \/ u = t
  BY <1>1 DEF Has
<1>3. Once(s) /\ (t \in Flagged => ~Has(s, t)) => Once(Append(s, t))
  BY <1>1 DEF Has, Once
<1> QED
  BY <1>1, <1>2, <1>3

LEMMA OpensOfFront ==
    ASSUME NEW s \in Seq(Tags), s # <<>>
    PROVE  /\ Front(s) \in Seq(Tags) /\ Last(s) \in Tags
           /\ \A u : Has(s, u) <=> Has(Front(s), u) \/ u = Last(s)
           /\ Once(s) => Once(Front(s)) /\ (Last(s) \in Flagged => ~Has(Front(s), Last(s)))
<1>1. /\ Front(s) \in Seq(Tags) /\ Last(s) \in Tags
      /\ Len(s) \in Nat \ {0} /\ Len(Front(s)) = Len(s) - 1
      /\ \A i \in 1 .. Len(s) - 1 : Front(s)[i] = s[i]
      /\ s[Len(s)] = Last(s)
  BY FrontAndLast
<1>2. \A u : Has(s, u) <=> Has(Front(s), u) \/ u = Last(s)
  BY <1>1 DEF Has
<1>3. Once(s) => Once(Front(s)) /\ (Last(s) \in Flagged => ~Has(Front(s), Last(s)))
  BY <1>1 DEF Has, Once
<1> QED
  BY <1>1, <1>2, <1>3

NothingRead ==
    /\ inScriptOrStyle = FALSE /\ inTitle = FALSE /\ inP = FALSE
    /\ skipTags = 0 /\ open = <<>>

LEMMA FInvFresh == NothingRead => FInv
<1>1. <<>> \in Seq(Tags) /\ 1 .. Len(<<>>) = {}
  <2>1. <<>> \in Seq(Tags) /\ Len(<<>>) = 0
    BY EmptySeq
  <2> QED
    BY <2>1
<1>2. Skipped(<<>>) = {}
  BY <1>1 DEF Skipped
<1>3. Once(<<>>) /\ \A t : ~Has(<<>>, t)
  BY <1>1 DEF Once, Has
<1>4. Cardinality({}) = 0
  BY FS_EmptySet
<1> QED
  <2> SUFFICES ASSUME NothingRead PROVE FInv
    OBVIOUS
  <2> USE DEF NothingRead
  <2>1. Fits(inScriptOrStyle, inTitle, inP, skipTags, <<>>)
    BY <1>2, <1>3, <1>4 DEF Fits
  <2>2. Fits(inScriptOrStyle, inTitle, inP, skipTags, open)
    BY <2>1
  <2>3. open \in Seq(Tags) /\ Once(open)
    BY <1>1, <1>3
  <2> QED
    BY <2>2, <2>3 DEF FInv

\* What a start tag finds, and what it leaves.
LEMMA FInvOpen == ASSUME FInv, WellFormed, NEW t \in Tags, OpenElement(t) PROVE FInv'
<1>1. /\ open \in Seq(Tags) /\ Once(open) /\ skipTags \in Nat
      /\ Fits(inScriptOrStyle, inTitle, inP, skipTags, open)
  BY DEF FInv
<1>2. /\ ~Has(open, "script") /\ ~Has(open, "title")
      /\ t = "title" => open = <<>>
      /\ Has(open, "p") /\ t \in BlockLevel \ {"br"} => ImpliedEnd(t) /\ t = "p"
  BY <1>1, InsideMeans DEF OpenElement, MayOpen, Visible, InvisibleTags, WellFormed, VoidTags
<1>3. /\ inScriptOrStyle' = (inScriptOrStyle \/ t = "script")
      /\ inTitle' = (inTitle \/ t = "title")
      /\ inP' = (inP \/ t = "p")
      /\ skipTags' = IF t \in SnippetSkipTags THEN skipTags + 1 ELSE skipTags
  BY DEF OpenElement, HandleStarttag, InvisibleTags
<1>4. CASE t \in VoidTags
  <2>1. t = "br" /\ open' = open
    BY <1>4 DEF OpenElement, VoidTags
  <2>2. /\ inScriptOrStyle' = inScriptOrStyle /\ inTitle' = inTitle /\ inP' = inP
        /\ skipTags' = skipTags
    BY <1>3, <2>1 DEF SnippetSkipTags, FInv
  <2> QED
    BY <1>1, <2>1, <2>2 DEF FInv
<1>5. CASE t \notin VoidTags
  <2> DEFINE s == IF ImpliedEnd(t) THEN Front(open) ELSE open
  <2>1. open' = Append(s, t)
    BY <1>5 DEF OpenElement
  <2>2. /\ s \in Seq(Tags) /\ Once(s)
        /\ t \in Flagged => ~Has(s, t)
        /\ \A u : Has(open, u) \/ u = t <=> Has(s, u) \/ u = t
        /\ Cardinality(Skipped(s)) = Cardinality(Skipped(open))
    <3>1. CASE ImpliedEnd(t)
      <4>1. open # <<>> /\ Last(open) = "p" /\ t \in BlockLevel \ {"br"}
        BY <3>1 DEF ImpliedEnd, VoidTags
      <4>2. Has(open, "p") /\ t = "p"
        BY <1>1, <1>2, <4>1, OpensOfFront
      <4>3. "p" \notin SnippetSkipTags /\ "p" \in Flagged
        BY DEF SnippetSkipTags, Flagged
      <4> QED
        BY <1>1, <3>1, <4>1, <4>2, <4>3, OpensOfFront, SkippedOfFront
    <3>2. CASE ~ImpliedEnd(t)
      <4>1. ~(t = "p" /\ Has(open, "p"))
        <5>1. t = "p" => t \in BlockLevel \ {"br"}
          BY DEF WellFormed
        <5> QED
          BY <1>2, <3>2, <5>1
      <4>2. t = "title" => ~Has(open, t)
        BY <1>2
      <4>3. t \in Flagged => ~Has(open, t)
        BY <1>2, <4>1, <4>2 DEF Flagged
      <4> QED
        BY <1>1, <3>2, <4>3
    <3> QED
      BY <3>1, <3>2
  <2> HIDE DEF s
  <2>3. open' \in Seq(Tags) /\ Once(open') /\ \A u : Has(open', u) <=> Has(open, u) \/ u = t
    BY <2>1, <2>2, OpensOfAppend
  <2>4. skipTags' = Cardinality(Skipped(open')) /\ skipTags' \in Nat
    BY <1>1, <1>3, <2>1, <2>2, SkippedOfAppend DEF Fits
  <2>5. /\ inScriptOrStyle' <=> Has(open', "script")
        /\ inTitle' <=> Has(open', "title")
        /\ inP' <=> Has(open', "p")
    BY <1>1, <1>3, <2>3 DEF Fits
  <2> QED
    BY <1>3, <2>3, <2>4, <2>5 DEF FInv, Fits
<1> QED
  BY <1>4, <1>5

LEMMA FInvClose == ASSUME FInv, CloseElement PROVE FInv'
<1> DEFINE t == Last(open)
<1>1. /\ open \in Seq(Tags) /\ Once(open) /\ skipTags \in Nat /\ open # <<>>
      /\ Fits(inScriptOrStyle, inTitle, inP, skipTags, open)
  BY DEF FInv, CloseElement
<1>2. /\ inScriptOrStyle' = (inScriptOrStyle /\ t # "script")
      /\ inTitle' = (inTitle /\ t # "title")
      /\ inP' = (inP /\ t # "p")
      /\ skipTags' = IF t \in SnippetSkipTags /\ skipTags > 0 THEN skipTags - 1 ELSE skipTags
      /\ open' = Front(open)
  BY DEF CloseElement, HandleEndtag, InvisibleTags, SkipAfterEnd
<1>3. /\ open' \in Seq(Tags) /\ Once(open')
      /\ \A u : Has(open, u) <=> Has(open', u) \/ u = t
      /\ t \in Flagged => ~Has(open', t)
      /\ Cardinality(Skipped(open')) \in Nat
      /\ Cardinality(Skipped(open)) = IF t \in SnippetSkipTags THEN Cardinality(Skipped(open')) + 1
                                      ELSE Cardinality(Skipped(open'))
  BY <1>1, <1>2, OpensOfFront, SkippedOfFront, SkippedOfAppend
<1> HIDE DEF t
<1>4. \A u \in Flagged : Has(open', u) <=> Has(open, u) /\ t # u
  BY <1>3
<1>5. /\ inScriptOrStyle' <=> Has(open', "script")
      /\ inTitle' <=> Has(open', "title")
      /\ inP' <=> Has(open', "p")
  BY <1>1, <1>2, <1>4 DEF Fits, Flagged
<1>6. skipTags' = Cardinality(Skipped(open'))
  BY <1>1, <1>2, <1>3 DEF Fits
<1> QED
  BY <1>2, <1>3, <1>5, <1>6 DEF FInv, Fits

\* An end tag nobody opened leaves flags and counter alone, because no boilerplate is open.
LEMMA FInvStray ==
    ASSUME FInv, WellFormed, NEW t, StrayEnd(t)
    PROVE  UNCHANGED <<inScriptOrStyle, inTitle, inP, skipTags, open>>
<1>1. open \in Seq(Tags) /\ Fits(inScriptOrStyle, inTitle, inP, skipTags, open)
  BY DEF FInv
<1>2. \A u \in SnippetSkipTags : ~Has(open, u)
  BY <1>1, InsideMeans DEF StrayEnd, WellFormed
<1>3. Skipped(open) = {}
  BY <1>2 DEF Skipped, Has
<1>4. skipTags = 0
  BY <1>1, <1>3, FS_EmptySet DEF Fits
<1>5. t \in {"a", "b"} /\ open' = open /\ HandleEndtag(t)
  BY DEF StrayEnd, tree
<1>6. skipTags' = skipTags
  <2>1. skipTags' = SkipAfterEnd(t)
    BY <1>5 DEF HandleEndtag
  <2>2. ~(skipTags > 0)
    BY <1>4
  <2> QED
    BY <2>1, <2>2 DEF SkipAfterEnd
<1>7. inScriptOrStyle' = inScriptOrStyle /\ inTitle' = inTitle /\ inP' = inP
  BY <1>5 DEF HandleEndtag, FInv, InvisibleTags
<1> QED
  BY <1>5, <1>6, <1>7

LEMMA FInvKept ==
    ASSUME FInv, UNCHANGED <<inScriptOrStyle, inTitle, inP, skipTags, open>>
    PROVE  FInv'
BY DEF FInv, Once, Fits, Has, Skipped

LEMMA FInvSteps == ASSUME FInv, WellFormed, [PNext]_pvars PROVE FInv'
<1>1. ASSUME NEW t \in Tags, OpenElement(t) PROVE FInv'
  BY <1>1, FInvOpen
<1>2. ASSUME NEW t \in Tags, StrayEnd(t) PROVE FInv'
  BY <1>2, FInvStray, FInvKept
<1>3. CASE CloseElement
  BY <1>3, FInvClose
<1>4. ASSUME NEW d \in Data, Text(d) PROVE FInv'
  BY <1>4, FInvKept DEF Text, HandleData
<1>5. ASSUME NEW u, NEW o, NEW d, IndexPage(u, o, d) PROVE FInv'
  <2>1. NothingRead'
    BY <1>5 DEF IndexPage, Renew, NothingRead
  <2> QED
    BY <2>1, FInvFresh, PTL
<1>6. ASSUME Export \/ Import \/ UNCHANGED pvars PROVE FInv'
  BY <1>6, FInvKept DEF Export, Import, pvars, parser, tree
<1> QED
  BY <1>1, <1>2, <1>3, <1>4, <1>5, <1>6 DEF PNext, Parse, ParserEvent

LEMMA FInvHolds == ASSUME WellFormed PROVE PSpec => [](FInv /\ FlagsFollowTree)
<1>1. PInit => FInv
  BY FInvFresh DEF PInit, Fresh, NothingRead
<1>2. FInv /\ [PNext]_pvars => FInv'
  BY FInvSteps
<1>3. FInv => FlagsFollowTree
  BY FlagsMean DEF FInv
<1> QED
  BY <1>1, <1>2, <1>3, PTL DEF PSpec

\* core/parser.py keeps three flags and one counter where a browser keeps a tree.  On
\* every page whose end tags match, whatever it nests and however long it is, the flags
\* are those of the elements that are open and the counter is their number: no element
\* that closes reopens the text around it, and no stray end tag outside boilerplate shifts
\* the counter.
THEOREM FlagsAreTheTree == ASSUME WellFormed PROVE PSpec => []FlagsFollowTree
BY FInvHolds, PTL

-----------------------------------------------------------------------------
(* Folds over sequences *)

LEMMA LargestNumber ==
    ASSUME NEW n \in Nat, NEW T \in SUBSET (1 .. n), T # {}
    PROVE  Max(T) \in T /\ \A x \in T : x <= Max(T)
<1> DEFINE R == {n - x : x \in T}
<1>1. R \in SUBSET Nat /\ R # {}
  <2>1. \A x \in T : x \in 1 .. n
    OBVIOUS
  <2>2. \A x \in 1 .. n : n - x \in Nat
    OBVIOUS
  <2> QED
    BY <2>1, <2>2
<1>2. PICK m \in R : \A k \in R : m <= k
  <2> HIDE DEF R
  <2> QED
    BY <1>1, SmallestNumber
<1>3. PICK y \in T : m = n - y
  BY <1>2
<1>4. \A x \in T : y >= x
  <2>1. ASSUME NEW x \in T PROVE y >= x
    <3>1. n - y <= n - x
      BY <1>2, <1>3
    <3> QED
      BY <3>1
  <2> QED
    BY <2>1
<1>5. Max(T) \in T /\ \A x \in T : Max(T) >= x
  BY <1>3, <1>4 DEF Max
<1> QED
  BY <1>5

LEMMA LargestOfFirst == ASSUME NEW n \in Nat \ {0} PROVE Max(1 .. n) = n /\ (1 .. n) \ {n} = 1 .. n - 1
<1>1. (1 .. n) \in SUBSET (1 .. n) /\ 1 .. n # {} /\ n \in 1 .. n
  OBVIOUS
<1>2. Max(1 .. n) \in 1 .. n /\ \A x \in 1 .. n : x <= Max(1 .. n)
  BY <1>1, LargestNumber
<1>3. n <= Max(1 .. n) /\ Max(1 .. n) \in 1 .. n
  BY <1>1, <1>2
<1> QED
  BY <1>3

\* Such a fold has a solution: b to start from, F what a character makes of a state.
Solved(g, s, V, b, F) ==
    /\ g \in [SUBSET (1 .. Len(s)) -> V]
    /\ g[{}] = b
    /\ \A T \in SUBSET (1 .. Len(s)) : T # {} =>
           Max(T) \in 1 .. Len(s) /\ g[T] = F[s[Max(T)]][g[T \ {Max(T)}]]

\* And this is what a solution does, if what it makes of states outside V is not known.
Follows(k, s, V, b, F) ==
    /\ k[{}] = b
    /\ \A T \in SUBSET (1 .. Len(s)) : T # {} /\ k[T \ {Max(T)}] \in V =>
           k[T] = F[s[Max(T)]][k[T \ {Max(T)}]]

LEMMA SequenceFoldsExist ==
    ASSUME NEW A, NEW s \in Seq(A), NEW V, NEW b \in V, NEW F \in [A -> [V -> V]]
    PROVE  \E g : Solved(g, s, V, b, F)
<1> DEFINE n == Len(s)
           G == [i \in 1 .. n |-> F[s[i]]]
           c == [T \in SUBSET (1 .. n) |-> Max(T)]
<1>1. n \in Nat /\ \A i \in 1 .. n : s[i] \in A
  BY LenProperties
<1>2. IsFiniteSet(1 .. n)
  BY <1>1, FS_Interval
<1>3. \A T \in SUBSET (1 .. n) : T # {} => c[T] \in T /\ c[T] = Max(T)
  BY <1>1, LargestNumber
<1>4. G \in [1 .. n -> [V -> V]]
  BY <1>1
<1> HIDE DEF G, c, n
<1>5. Foldable(1 .. n, V, b, G, c)
  BY <1>2, <1>3, <1>4 DEF Foldable
<1>6. PICK g : SolvesFold(g, 1 .. n, V, b, G, c)
  BY <1>5, FoldsExist
<1>7. /\ g \in [SUBSET (1 .. n) -> V]
      /\ \A T \in SUBSET (1 .. n) : g[T] = IF T = {} THEN b ELSE G[c[T]][g[T \ {c[T]}]]
  BY <1>6 DEF SolvesFold
<1>8. ASSUME NEW T \in SUBSET (1 .. n), T # {}
      PROVE  Max(T) \in 1 .. n /\ g[T] = F[s[Max(T)]][g[T \ {Max(T)}]]
  <2>1. c[T] = Max(T) /\ Max(T) \in 1 .. n
    BY <1>3, <1>8
  <2>2. G[Max(T)] = F[s[Max(T)]]
    BY <2>1 DEF G
  <2> QED
    BY <1>7, <1>8, <2>1, <2>2
<1>9. g[{}] = b
  BY <1>7
<1> QED
  BY <1>7, <1>8, <1>9 DEF n, Solved

\* The states after the first characters, one after the other, and the last of them.
Steps(r, s, b, F) == r[0] = b /\ \A i \in 1 .. Len(s) : r[i] = F[s[i]][r[i - 1]]

Read(s, V, b, F) == (CHOOSE r : r \in [0 .. Len(s) -> V] /\ Steps(r, s, b, F))[Len(s)]

LEMMA StepsAreUnique ==
    ASSUME NEW A, NEW s \in Seq(A), NEW t \in Seq(A), NEW b, NEW F,
           Len(s) <= Len(t), \A i \in 1 .. Len(s) : t[i] = s[i],
           NEW r, Steps(r, s, b, F), NEW q, Steps(q, t, b, F)
    PROVE  \A i \in 0 .. Len(s) : q[i] = r[i]
<1> DEFINE P == {i \in Nat : i <= Len(s) => q[i] = r[i]}
<1>1. Len(s) \in Nat /\ Len(t) \in Nat
  BY LenProperties
<1>2. 0 \in P
  BY DEF Steps
<1>3. ASSUME NEW i \in Nat, i \in P PROVE i + 1 \in P
  <2>1. CASE i + 1 <= Len(s)
    <3>1. i + 1 \in 1 .. Len(s) /\ i + 1 \in 1 .. Len(t) /\ (i + 1) - 1 = i /\ q[i] = r[i]
      BY <1>1, <1>3, <2>1
    <3>2. r[i + 1] = F[s[i + 1]][r[i]] /\ q[i + 1] = F[t[i + 1]][q[i]]
      BY <3>1 DEF Steps
    <3> QED
      BY <3>1, <3>2
  <2> QED
    BY <2>1
<1> HIDE DEF P
<1>4. \A i \in Nat : i \in P
  BY <1>2, <1>3, NatSetInduction
<1> QED
  BY <1>1, <1>4 DEF P

LEMMA StepsOfFold ==
    ASSUME NEW A, NEW s \in Seq(A), NEW V, NEW b \in V, NEW F \in [A -> [V -> V]],
           NEW k, Follows(k, s, V, b, F)
    PROVE  /\ [i \in 0 .. Len(s) |-> k[1 .. i]] \in [0 .. Len(s) -> V]
           /\ Steps([i \in 0 .. Len(s) |-> k[1 .. i]], s, b, F)
<1> DEFINE n == Len(s)
           r == [i \in 0 .. n |-> k[1 .. i]]
           P == {i \in Nat : i <= n => r[i] \in V}
<1>1. n \in Nat /\ \A i \in 1 .. n : s[i] \in A
  BY LenProperties
<1>2. r[0] = b
  <2>1. 1 .. 0 = {} /\ 0 \in 0 .. n
    BY <1>1
  <2> QED
    BY <2>1 DEF Follows
<1>3. ASSUME NEW i \in 1 .. n, r[i - 1] \in V PROVE r[i] = F[s[i]][r[i - 1]]
  <2>1. /\ i \in Nat \ {0} /\ i \in 0 .. n /\ i - 1 \in 0 .. n
        /\ i \in 1 .. i
    BY <1>1
  <2>2. Max(1 .. i) = i /\ (1 .. i) \ {i} = 1 .. i - 1
    BY <2>1, LargestOfFirst
  <2>3. (1 .. i) \in SUBSET (1 .. n) /\ k[1 .. i - 1] \in V
    BY <1>1, <1>3, <2>1
  <2>4. k[1 .. i] = F[s[i]][k[1 .. i - 1]]
    <3>1. 1 .. i # {}
      BY <2>1
    <3> QED
      BY <2>2, <2>3, <3>1 DEF Follows
  <2> QED
    BY <2>1, <2>4
<1>4. 0 \in P
  BY <1>2
<1>5. ASSUME NEW i \in Nat, i \in P PROVE i + 1 \in P
  <2>1. CASE i + 1 <= n
    <3>1. i + 1 \in 1 .. n /\ i <= n /\ (i + 1) - 1 = i
      BY <1>1, <2>1
    <3>2. r[i] \in V /\ s[i + 1] \in A
      BY <1>1, <1>5, <3>1
    <3>3. r[i + 1] = F[s[i + 1]][r[i]]
      BY <1>3, <3>1, <3>2
    <3> HIDE DEF r
    <3> QED
      BY <3>2, <3>3
  <2> QED
    BY <2>1
<1>6. \A i \in 0 .. n : r[i] \in V
  <2> HIDE DEF P, r
  <2>1. \A i \in Nat : i \in P
    BY <1>4, <1>5, NatSetInduction
  <2>2. \A i \in 0 .. n : i \in Nat /\ i <= n
    BY <1>1
  <2> QED
    BY <2>1, <2>2 DEF P
<1>7. \A i \in 1 .. n : r[i] = F[s[i]][r[i - 1]]
  <2>1. \A i \in 1 .. n : i - 1 \in 0 .. n
    BY <1>1
  <2> HIDE DEF r
  <2> QED
    BY <1>3, <1>6, <2>1
<1>8. r \in [0 .. n -> V]
  BY <1>6
<1> HIDE DEF r
<1>9. Steps(r, s, b, F)
  BY <1>2, <1>7 DEF Steps
<1> QED
  BY <1>8, <1>9 DEF r

\* The fold ends where the reading ends.
LEMMA FoldReads ==
    ASSUME NEW A, NEW s \in Seq(A), NEW V, NEW b \in V, NEW F \in [A -> [V -> V]],
           NEW k, Follows(k, s, V, b, F)
    PROVE  k[1 .. Len(s)] = Read(s, V, b, F)
<1> DEFINE r == [i \in 0 .. Len(s) |-> k[1 .. i]]
           q == CHOOSE q : q \in [0 .. Len(s) -> V] /\ Steps(q, s, b, F)
<1>1. r \in [0 .. Len(s) -> V] /\ Steps(r, s, b, F)
  BY StepsOfFold
<1>2. q \in [0 .. Len(s) -> V] /\ Steps(q, s, b, F)
  <2> HIDE DEF r
  <2>1. \E x : x \in [0 .. Len(s) -> V] /\ Steps(x, s, b, F)
    BY <1>1
  <2> QED
    BY <2>1
<1>3. Len(s) \in Nat /\ Len(s) <= Len(s) /\ Len(s) \in 0 .. Len(s)
  BY LenProperties
<1>4. r[Len(s)] = k[1 .. Len(s)]
  BY <1>3
<1>5. Read(s, V, b, F) = q[Len(s)]
  BY DEF Read
<1> HIDE DEF r, q
<1>6. \A i \in 0 .. Len(s) : q[i] = r[i]
  BY <1>1, <1>2, <1>3, StepsAreUnique
<1> QED
  BY <1>3, <1>4, <1>5, <1>6

LEMMA ReadInSteps ==
    ASSUME NEW A, NEW s \in Seq(A), NEW V, NEW b \in V, NEW F \in [A -> [V -> V]]
    PROVE  \E r \in [0 .. Len(s) -> V] : Steps(r, s, b, F) /\ Read(s, V, b, F) = r[Len(s)]
<1>1. PICK g : Solved(g, s, V, b, F)
  BY SequenceFoldsExist
<1>2. Follows(g, s, V, b, F)
  BY <1>1 DEF Solved, Follows
<1>3. /\ [i \in 0 .. Len(s) |-> g[1 .. i]] \in [0 .. Len(s) -> V]
      /\ Steps([i \in 0 .. Len(s) |-> g[1 .. i]], s, b, F)
  BY <1>2, StepsOfFold
<1> DEFINE r == CHOOSE r : r \in [0 .. Len(s) -> V] /\ Steps(r, s, b, F)
<1>4. r \in [0 .. Len(s) -> V] /\ Steps(r, s, b, F)
  BY <1>3
<1> QED
  BY <1>4 DEF Read

\* Reading nothing, and one character more.
LEMMA ReadNone ==
    ASSUME NEW A, NEW V, NEW b \in V, NEW F \in [A -> [V -> V]]
    PROVE  Read(<<>>, V, b, F) = b
<1>1. ASSUME NEW e \in Seq(A), e = <<>> PROVE Read(e, V, b, F) = b
  <2>1. PICK r \in [0 .. Len(e) -> V] : Steps(r, e, b, F) /\ Read(e, V, b, F) = r[Len(e)]
    BY ReadInSteps
  <2>2. Len(e) = 0
    BY <1>1, EmptySeq
  <2> QED
    BY <2>1, <2>2 DEF Steps
<1>2. <<>> \in Seq(A)
  BY EmptySeq
<1> QED
  BY <1>1, <1>2

LEMMA ReadAppend ==
    ASSUME NEW A, NEW s \in Seq(A), NEW c \in A, NEW V, NEW b \in V, NEW F \in [A -> [V -> V]]
    PROVE  /\ Read(s, V, b, F) \in V
           /\ Read(Append(s, c), V, b, F) = F[c][Read(s, V, b, F)]
<1> DEFINE n == Len(s)
           t == Append(s, c)
<1>1. /\ n \in Nat /\ t \in Seq(A) /\ Len(t) = n + 1
      /\ \A i \in 1 .. n : t[i] = s[i]
      /\ t[n + 1] = c
  BY AppendProperties, LenProperties
<1> HIDE DEF t
<1>2. PICK r \in [0 .. Len(s) -> V] : Steps(r, s, b, F) /\ Read(s, V, b, F) = r[Len(s)]
  BY ReadInSteps
<1>3. PICK q \in [0 .. Len(t) -> V] : Steps(q, t, b, F) /\ Read(t, V, b, F) = q[Len(t)]
  BY <1>1, ReadInSteps
<1>4. Len(s) <= Len(t) /\ Len(s) \in 0 .. Len(s)
  BY <1>1
<1>5. \A i \in 0 .. Len(s) : q[i] = r[i]
  BY <1>1, <1>2, <1>3, <1>4, StepsAreUnique
<1>6. q[Len(t)] = F[c][q[n]]
  <2>1. n + 1 \in 1 .. Len(t) /\ (n + 1) - 1 = n
    BY <1>1
  <2>2. q[n + 1] = F[t[n + 1]][q[(n + 1) - 1]]
    BY <1>3, <2>1 DEF Steps
  <2> QED
    BY <1>1, <2>1, <2>2
<1>7. Read(s, V, b, F) \in V
  BY <1>2, <1>4
<1> QED
  BY <1>2, <1>3, <1>4, <1>5, <1>6, <1>7 DEF t

LEMMA AppendOfConcat ==
    ASSUME NEW A, NEW s \in Seq(A), NEW d \in Seq(A), NEW c \in A
    PROVE  s \o Append(d, c) = Append(s \o d, c)
<1>1. <<c>> \in Seq(A) /\ Append(d, c) = d \o <<c>>
  BY AppendIsConcat
<1>2. s \o d \in Seq(A)
  BY ConcatProperties
<1>3. Append(s \o d, c) = (s \o d) \o <<c>>
  BY <1>2, AppendIsConcat
<1>4. (s \o d) \o <<c>> = s \o (d \o <<c>>)
  BY <1>1, ConcatAssociative
<1> QED
  BY <1>1, <1>3, <1>4

\* Sequences have what the empty one has and a longer one has with all before it.
LEMMA SequenceInduction ==
    ASSUME NEW A, NEW P, <<>> \in P,
           \A s \in Seq(A) : \A c \in A : s \in P => Append(s, c) \in P
    PROVE  \A s \in Seq(A) : s \in P
<1> DEFINE N == {n \in Nat : \A s \in Seq(A) : Len(s) = n => s \in P}
<1>1. 0 \in N
  <2>1. ASSUME NEW s \in Seq(A), Len(s) = 0 PROVE s = <<>>
    BY <2>1, EmptySeq
  <2> QED
    BY <2>1
<1>2. ASSUME NEW n \in Nat, n \in N PROVE n + 1 \in N
  <2>1. ASSUME NEW s \in Seq(A), Len(s) = n + 1 PROVE s \in P
    <3>1. s # <<>>
      BY <2>1, EmptySeq
    <3>2. PICK u \in Seq(A), c \in A : s = Append(u, c)
      BY <3>1, SequenceEmptyOrAppend
    <3>3. Len(u) \in Nat /\ Len(s) = Len(u) + 1
      BY <3>2, AppendProperties, LenProperties
    <3>4. Len(u) = n
      BY <2>1, <3>3
    <3> QED
      BY <1>2, <3>2, <3>4
  <2> QED
    BY <2>1
<1> HIDE DEF N
<1>3. \A n \in Nat : n \in N
  BY <1>1, <1>2, NatSetInduction
<1> QED
  BY <1>3, LenProperties DEF N

-----------------------------------------------------------------------------
(* Runs of characters *)

Begun == [runs |-> <<>>, run |-> <<>>]

\* One character more, and the end.
RunStep(a, c, Sep) ==
    IF c \notin Sep THEN [a EXCEPT !.run = Append(@, c)]
    ELSE IF a.run = <<>> THEN a
    ELSE [runs |-> Append(a.runs, a.run), run |-> <<>>]

Flushed(a) == IF a.run = <<>> THEN a.runs ELSE Append(a.runs, a.run)

RunStates(A) == [runs : Seq(Seq(A)), run : Seq(A)]

RunReader(A, Sep) == [c \in A |-> [a \in RunStates(A) |-> RunStep(a, c, Sep)]]

\* The recursion of the fold in Runs, and what it ends with.
RunFold(k, s, Sep) ==
    k = [T \in SUBSET DOMAIN s |->
            IF T = {} THEN Begun ELSE RunStep(k[T \ {Max(T)}], s[Max(T)], Sep)]

RunState(s, Sep) == (CHOOSE k : RunFold(k, s, Sep))[DOMAIN s]

LEMMA RunsIsFold == ASSUME NEW s, NEW Sep PROVE Runs(s, Sep) = Flushed(RunState(s, Sep))
BY DEF Runs, FoldLeft, MapThenFoldSet, RunState, RunFold, RunStep, Begun, Flushed

LEMMA RunStepType ==
    ASSUME NEW A, NEW Sep
    PROVE  Begun \in RunStates(A) /\ RunReader(A, Sep) \in [A -> [RunStates(A) -> RunStates(A)]]
<1>1. <<>> \in Seq(A) /\ <<>> \in Seq(Seq(A))
  BY EmptySeq
<1>2. ASSUME NEW a \in RunStates(A), NEW c \in A PROVE RunStep(a, c, Sep) \in RunStates(A)
  <2>1. a.runs \in Seq(Seq(A)) /\ a.run \in Seq(A)
    BY DEF RunStates
  <2>2. Append(a.run, c) \in Seq(A) /\ Append(a.runs, a.run) \in Seq(Seq(A))
    BY <2>1, AppendProperties
  <2> QED
    BY <1>1, <2>1, <2>2 DEF RunStep, RunStates
<1> QED
  BY <1>1, <1>2 DEF Begun, RunStates, RunReader

LEMMA RunStateIsRead ==
    ASSUME NEW A, NEW s \in Seq(A), NEW Sep
    PROVE  RunState(s, Sep) = Read(s, RunStates(A), Begun, RunReader(A, Sep))
<1> DEFINE n == Len(s)
           V == RunStates(A)
           F == RunReader(A, Sep)
           k == CHOOSE k : RunFold(k, s, Sep)
<1>1. n \in Nat /\ DOMAIN s = 1 .. n /\ \A i \in 1 .. n : s[i] \in A
  BY LenProperties
<1>2. Begun \in V /\ F \in [A -> [V -> V]]
  BY RunStepType
<1>3. \A c \in A, a \in V : F[c][a] = RunStep(a, c, Sep)
  BY DEF RunReader
<1>4. RunState(s, Sep) = k[1 .. n]
  BY <1>1 DEF RunState
<1> HIDE DEF V, F
<1>5. PICK g : Solved(g, s, V, Begun, F)
  BY <1>2, SequenceFoldsExist
<1>6. RunFold(g, s, Sep)
  <2>1. ASSUME NEW T \in SUBSET (1 .. n), T # {}
        PROVE  g[T] = RunStep(g[T \ {Max(T)}], s[Max(T)], Sep)
    <3>1. s[Max(T)] \in A /\ g[T \ {Max(T)}] \in V
      BY <1>1, <1>5, <2>1 DEF Solved
    <3> QED
      BY <1>3, <1>5, <2>1, <3>1 DEF Solved
  <2> QED
    BY <1>1, <1>5, <2>1 DEF Solved, RunFold
<1>7. RunFold(k, s, Sep)
  BY <1>6
<1> HIDE DEF k
<1>8. Follows(k, s, V, Begun, F)
  <2>1. ASSUME NEW T \in SUBSET (1 .. n), T # {}, k[T \ {Max(T)}] \in V
        PROVE  k[T] = F[s[Max(T)]][k[T \ {Max(T)}]]
    <3>1. s[Max(T)] \in A
      BY <1>1, <2>1, LargestNumber
    <3>2. k[T] = RunStep(k[T \ {Max(T)}], s[Max(T)], Sep)
      BY <1>1, <1>7, <2>1 DEF RunFold
    <3> QED
      BY <1>3, <2>1, <3>1, <3>2
  <2>2. k[{}] = Begun
    BY <1>1, <1>7 DEF RunFold
  <2> QED
    BY <2>1, <2>2 DEF Follows
<1> QED
  BY <1>2, <1>4, <1>8, FoldReads DEF V, F

LEMMA RunOfNone == ASSUME NEW Sep PROVE RunState(<<>>, Sep) = Begun
<1>1. <<>> \in Seq({})
  BY EmptySeq
<1> DEFINE V == RunStates({})
           F == RunReader({}, Sep)
<1>2. Begun \in V /\ F \in [{} -> [V -> V]]
  BY RunStepType
<1>3. RunState(<<>>, Sep) = Read(<<>>, V, Begun, F)
  BY <1>1, RunStateIsRead
<1> HIDE DEF V, F
<1> QED
  BY <1>2, <1>3, ReadNone

LEMMA RunOfAppend ==
    ASSUME NEW A, NEW s \in Seq(A), NEW c \in A, NEW Sep
    PROVE  /\ RunState(s, Sep) \in RunStates(A)
           /\ RunState(Append(s, c), Sep) = RunStep(RunState(s, Sep), c, Sep)
<1> DEFINE V == RunStates(A)
           F == RunReader(A, Sep)
<1>1. Begun \in V /\ F \in [A -> [V -> V]]
  BY RunStepType
<1>2. Append(s, c) \in Seq(A)
  BY AppendProperties
<1>3. RunState(s, Sep) = Read(s, V, Begun, F)
  BY RunStateIsRead
<1>4. RunState(Append(s, c), Sep) = Read(Append(s, c), V, Begun, F)
  BY <1>2, RunStateIsRead
<1>5. \A a \in V : F[c][a] = RunStep(a, c, Sep)
  BY DEF RunReader
<1> HIDE DEF V, F
<1>6. Read(s, V, Begun, F) \in V /\ Read(Append(s, c), V, Begun, F) = F[c][Read(s, V, Begun, F)]
  BY <1>1, ReadAppend
<1> QED
  BY <1>3, <1>4, <1>5, <1>6 DEF V

\* A separator ends the run; what has been read before it counts only by its runs.
LEMMA RunOfSeparator ==
    ASSUME NEW A, NEW s \in Seq(A), NEW Sep, NEW c \in A \cap Sep
    PROVE  RunState(Append(s, c), Sep) = [runs |-> Runs(s, Sep), run |-> <<>>]
<1>1. RunState(s, Sep) \in RunStates(A)
      /\ RunState(Append(s, c), Sep) = RunStep(RunState(s, Sep), c, Sep)
  BY RunOfAppend
<1>2. ASSUME NEW a \in RunStates(A), a.run = <<>> PROVE a = [runs |-> a.runs, run |-> <<>>]
  BY <1>2 DEF RunStates
<1> QED
  BY <1>1, <1>2, RunsIsFold DEF RunStep, Flushed

\* Two readings in the same state stay so over the same characters.
LEMMA RunsGoOnAlike ==
    ASSUME NEW A, NEW s \in Seq(A), NEW u \in Seq(A), NEW S, NEW U,
           RunState(s, S) = RunState(u, U),
           NEW D \in SUBSET A, \A c \in D : c \in S <=> c \in U
    PROVE  \A d \in Seq(D) : RunState(s \o d, S) = RunState(u \o d, U)
<1> DEFINE P == {d \in Seq(D) : RunState(s \o d, S) = RunState(u \o d, U)}
<1>1. <<>> \in P
  <2>1. s \o <<>> = s /\ u \o <<>> = u /\ <<>> \in Seq(D)
    BY ConcatEmptySeq, EmptySeq
  <2> QED
    BY <2>1
<1>2. ASSUME NEW d \in Seq(D), NEW c \in D, d \in P PROVE Append(d, c) \in P
  <2>1. d \in Seq(A) /\ c \in A /\ Append(d, c) \in Seq(D)
    BY SeqMonotonic, AppendProperties
  <2>2. s \o Append(d, c) = Append(s \o d, c) /\ u \o Append(d, c) = Append(u \o d, c)
    BY <2>1, AppendOfConcat
  <2>3. s \o d \in Seq(A) /\ u \o d \in Seq(A)
    BY <2>1, ConcatProperties
  <2>4. \A x \in Seq(A) : \A Sep : RunState(Append(x, c), Sep) = RunStep(RunState(x, Sep), c, Sep)
    BY <2>1, RunOfAppend
  <2>5. /\ RunState(Append(s \o d, c), S) = RunStep(RunState(s \o d, S), c, S)
        /\ RunState(Append(u \o d, c), U) = RunStep(RunState(u \o d, U), c, U)
    BY <2>3, <2>4
  <2>6. RunState(s \o d, S) = RunState(u \o d, U) /\ (c \in S <=> c \in U)
    BY <1>2
  <2> QED
    BY <2>1, <2>2, <2>4, <2>5, <2>6 DEF RunStep
<1> HIDE DEF P
<1>3. \A d \in Seq(D) : d \in P
  BY <1>1, <1>2, SequenceInduction
<1> QED
  BY <1>3 DEF P

-----------------------------------------------------------------------------
(* Sequences of sequences *)

FlatReader(A) == [c \in Seq(A) |-> [a \in Seq(A) |-> a \o c]]

FlattenFold(f, ss) ==
    f = [i \in 1 .. Len(ss) |-> IF i = 1 THEN ss[i] ELSE f[i - 1] \o ss[i]]

LEMMA FlattenIsRead ==
    ASSUME NEW A, NEW ss \in Seq(Seq(A))
    PROVE  /\ FlattenSeq(ss) = Read(ss, Seq(A), <<>>, FlatReader(A))
           /\ <<>> \in Seq(A) /\ FlatReader(A) \in [Seq(A) -> [Seq(A) -> Seq(A)]]
<1> DEFINE n == Len(ss)
           V == Seq(A)
           F == FlatReader(A)
           f == CHOOSE f : FlattenFold(f, ss)
<1>1. n \in Nat /\ \A i \in 1 .. n : ss[i] \in V
  BY LenProperties
<1>2. <<>> \in V /\ F \in [V -> [V -> V]]
  BY EmptySeq, ConcatProperties DEF FlatReader
<1>3. \A a \in V, c \in V : F[c][a] = a \o c
  BY DEF FlatReader
<1>4. FlattenSeq(ss) = IF n = 0 THEN ss ELSE f[n]
  BY DEF FlattenSeq, FlattenFold
<1>5. PICK r \in [0 .. n -> V] : Steps(r, ss, <<>>, F) /\ Read(ss, V, <<>>, F) = r[n]
  <2>1. ss \in Seq(V)
    OBVIOUS
  <2> HIDE DEF V, F
  <2>2. \E r \in [0 .. Len(ss) -> V] : Steps(r, ss, <<>>, F) /\ Read(ss, V, <<>>, F) = r[Len(ss)]
    BY <1>2, <2>1, ReadInSteps
  <2> QED
    BY <2>2
<1> HIDE DEF F, f
<1>6. ASSUME NEW i \in 1 .. n PROVE r[i] = IF i = 1 THEN ss[i] ELSE r[i - 1] \o ss[i]
  <2>1. r[i] = F[ss[i]][r[i - 1]] /\ r[0] = <<>>
    BY <1>5 DEF Steps
  <2>2. i - 1 \in 0 .. n /\ r[i - 1] \in V /\ ss[i] \in V
    <3>1. i - 1 \in 0 .. n
      BY <1>1
    <3> HIDE DEF V, n
    <3> QED
      BY <1>1, <1>5, <3>1
  <2>3. r[i] = r[i - 1] \o ss[i]
    BY <1>3, <2>1, <2>2
  <2>4. <<>> \o ss[i] = ss[i]
    BY <2>2, ConcatEmptySeq
  <2>5. i = 1 => r[i - 1] = <<>>
    BY <2>1
  <2> QED
    BY <2>3, <2>4, <2>5
<1>7. FlattenFold([i \in 1 .. n |-> r[i]], ss)
  <2>1. \A i \in 1 .. n : i # 1 => i - 1 \in 1 .. n
    BY <1>1
  <2> QED
    BY <1>6, <2>1 DEF FlattenFold
<1>8. FlattenFold(f, ss)
  BY <1>7 DEF f
<1>9. \A i \in 1 .. n : f[i] = IF i = 1 THEN ss[i] ELSE f[i - 1] \o ss[i]
  BY <1>8 DEF FlattenFold
<1> DEFINE P == {i \in Nat : i + 1 <= n => f[i + 1] = r[i + 1]}
<1>10. 0 \in P
  <2>1. CASE 1 <= n
    <3>1. 1 \in 1 .. n /\ 0 + 1 = 1
      BY <1>1, <2>1
    <3>2. f[1] = ss[1] /\ r[1] = ss[1]
      BY <1>6, <1>9, <3>1
    <3> QED
      BY <3>1, <3>2
  <2> QED
    BY <2>1
<1>11. ASSUME NEW i \in Nat, i \in P PROVE i + 1 \in P
  <2>1. CASE (i + 1) + 1 <= n
    <3> DEFINE j == i + 1
    <3>1. j + 1 \in 1 .. n /\ j + 1 # 1 /\ (j + 1) - 1 = j /\ j <= n
      BY <1>1, <2>1
    <3>2. f[j] = r[j]
      BY <1>11, <3>1
    <3> HIDE DEF j
    <3>3. f[j + 1] = f[j] \o ss[j + 1] /\ r[j + 1] = r[j] \o ss[j + 1]
      BY <1>6, <1>9, <3>1
    <3>4. f[j + 1] = r[j + 1]
      BY <3>2, <3>3
    <3> QED
      BY <3>4 DEF j
  <2> QED
    BY <2>1
<1>12. n # 0 => f[n] = r[n]
  <2> HIDE DEF P
  <2>1. n # 0 => n - 1 \in Nat /\ (n - 1) + 1 = n
    BY <1>1
  <2>2. n # 0 => n - 1 \in P
    BY <1>10, <1>11, <2>1, NatSetInduction
  <2> QED
    BY <1>1, <2>1, <2>2 DEF P
<1>13. n = 0 => ss = <<>> /\ r[n] = <<>>
  BY <1>5, EmptySeq DEF Steps
<1> QED
  BY <1>2, <1>4, <1>5, <1>12, <1>13 DEF F

LEMMA FlattenNone == FlattenSeq(<<>>) = <<>>
BY DEF FlattenSeq

LEMMA FlattenAppend ==
    ASSUME NEW A, NEW ss \in Seq(Seq(A)), NEW c \in Seq(A)
    PROVE  /\ FlattenSeq(ss) \in Seq(A)
           /\ FlattenSeq(Append(ss, c)) = FlattenSeq(ss) \o c
<1> DEFINE V == Seq(A)
           F == FlatReader(A)
<1>1. Append(ss, c) \in Seq(V)
  BY AppendProperties
<1>2. FlattenSeq(ss) = Read(ss, V, <<>>, F) /\ <<>> \in V /\ F \in [V -> [V -> V]]
  BY FlattenIsRead
<1>3. FlattenSeq(Append(ss, c)) = Read(Append(ss, c), V, <<>>, F)
  BY <1>1, FlattenIsRead
<1>4. \A a \in V : F[c][a] = a \o c
  BY DEF FlatReader
<1> HIDE DEF F, V
<1>5. ss \in Seq(V) /\ c \in V
  BY DEF V
<1>6. Read(ss, V, <<>>, F) \in V /\ Read(Append(ss, c), V, <<>>, F) = F[c][Read(ss, V, <<>>, F)]
  BY <1>2, <1>5, ReadAppend
<1> QED
  BY <1>2, <1>3, <1>4, <1>6 DEF V

-----------------------------------------------------------------------------
(* Sanitising *)

\* The fold of StripTags.
StripStep(a, i, s) ==
    IF a.inside THEN [a EXCEPT !.inside = s[i] # ">"]
    ELSE IF /\ s[i] = "<"
            /\ i < Len(s) /\ s[i + 1] # ">"
            /\ \E j \in i + 1 .. Len(s) : s[j] = ">"
    THEN [kept |-> Append(a.kept, "space"), inside |-> TRUE]
    ELSE [a EXCEPT !.kept = Append(@, s[i])]

Places(s) == [i \in DOMAIN s |-> i]

StripFold(k, s) ==
    k = [T \in SUBSET DOMAIN Places(s) |->
            IF T = {} THEN [kept |-> <<>>, inside |-> FALSE]
            ELSE StripStep(k[T \ {Max(T)}], Places(s)[Max(T)], s)]

LEMMA StripIsFold == ASSUME NEW s
    PROVE StripTags(s) = (CHOOSE k : StripFold(k, s))[DOMAIN Places(s)].kept
BY DEF StripTags, FoldLeft, MapThenFoldSet, StripFold, StripStep, Places

\* Text without a "<" has no tags.
LEMMA NothingToStrip ==
    ASSUME NEW A, "<" \notin A, NEW s \in Seq(A)
    PROVE  StripTags(s) = s
<1> DEFINE n == Len(s)
           V == [kept : Seq(A), inside : {FALSE}]
           b == [kept |-> <<>>, inside |-> FALSE]
           ids == Places(s)
           F == [i \in 1 .. n |-> [a \in V |-> [kept |-> Append(a.kept, s[i]), inside |-> FALSE]]]
           k == CHOOSE k : StripFold(k, s)
<1>1. n \in Nat /\ DOMAIN s = 1 .. n /\ \A i \in 1 .. n : s[i] \in A
  BY LenProperties
<1>2. ids \in Seq(1 .. n) /\ DOMAIN ids = 1 .. n /\ Len(ids) = n /\ \A i \in 1 .. n : ids[i] = i
  BY <1>1 DEF Places
<1>3. b \in V
  BY EmptySeq
<1>4. F \in [1 .. n -> [V -> V]]
  <2>1. ASSUME NEW i \in 1 .. n, NEW a \in V PROVE Append(a.kept, s[i]) \in Seq(A)
    BY <1>1, AppendProperties
  <2> QED
    BY <2>1
<1>5. \A i \in 1 .. n, a \in V : StripStep(a, i, s) = F[i][a]
  <2>1. ASSUME NEW i \in 1 .. n, NEW a \in V
        PROVE  StripStep(a, i, s) = [kept |-> Append(a.kept, s[i]), inside |-> FALSE]
    <3>1. s[i] # "<" /\ a.inside = FALSE /\ a = [kept |-> a.kept, inside |-> FALSE]
      BY <1>1
    <3> QED
      BY <3>1 DEF StripStep
  <2> QED
    BY <2>1
<1>6. StripTags(s) = k[1 .. n].kept
  BY <1>2, StripIsFold
<1>7. \A i \in 1 .. n, a \in V : F[i][a] = [kept |-> Append(a.kept, s[i]), inside |-> FALSE]
  OBVIOUS
<1> HIDE DEF F, k, b, ids
<1>8. PICK g : Solved(g, ids, V, b, F)
  <2> HIDE DEF V
  <2> QED
    BY <1>2, <1>3, <1>4, SequenceFoldsExist
<1>9. StripFold(g, s)
  <2>1. ASSUME NEW T \in SUBSET (1 .. n), T # {}
        PROVE  g[T] = StripStep(g[T \ {Max(T)}], ids[Max(T)], s)
    <3> HIDE DEF V
    <3>1. Max(T) \in 1 .. n /\ g[T \ {Max(T)}] \in V
      BY <1>2, <1>8, <2>1 DEF Solved
    <3>2. g[T] = F[ids[Max(T)]][g[T \ {Max(T)}]]
      BY <1>2, <1>8, <2>1 DEF Solved
    <3> QED
      BY <1>2, <1>5, <3>1, <3>2
  <2> HIDE DEF V
  <2> QED
    BY <1>2, <1>8, <2>1 DEF Solved, StripFold, ids, b
<1>10. StripFold(k, s)
  BY <1>9 DEF k
<1>11. Follows(k, ids, V, b, F)
  <2> HIDE DEF V
  <2>1. ASSUME NEW T \in SUBSET (1 .. n), T # {}, k[T \ {Max(T)}] \in V
        PROVE  k[T] = F[ids[Max(T)]][k[T \ {Max(T)}]]
    <3>1. Max(T) \in 1 .. n
      BY <1>1, <2>1, LargestNumber
    <3>2. k[T] = StripStep(k[T \ {Max(T)}], ids[Max(T)], s)
      BY <1>2, <1>10, <2>1 DEF StripFold, ids
    <3> QED
      BY <1>2, <1>5, <2>1, <3>1, <3>2
  <2>2. k[{}] = b
    BY <1>2, <1>10 DEF StripFold, ids, b
  <2> QED
    BY <1>2, <2>1, <2>2 DEF Follows
<1>12. PICK r \in [0 .. n -> V] : Steps(r, ids, b, F) /\ k[1 .. n] = r[n]
  <2> DEFINE D == 1 .. n
  <2>1. ids \in Seq(D) /\ n = Len(ids) /\ F \in [D -> [V -> V]]
    BY <1>2, <1>4
  <2> HIDE DEF V, D
  <2>2. k[1 .. Len(ids)] = Read(ids, V, b, F)
    BY <1>3, <1>11, <2>1, FoldReads
  <2>3. \E r \in [0 .. Len(ids) -> V] : Steps(r, ids, b, F) /\ Read(ids, V, b, F) = r[Len(ids)]
    BY <1>3, <2>1, ReadInSteps
  <2> QED
    BY <2>1, <2>2, <2>3
<1> DEFINE P == {i \in Nat : i <= n => Len(r[i].kept) = i /\ \A j \in 1 .. i : r[i].kept[j] = s[j]}
<1>13. 0 \in P
  <2>1. r[0].kept = <<>>
    BY <1>12 DEF Steps, b
  <2> QED
    BY <2>1
<1>14. ASSUME NEW i \in Nat, i \in P PROVE i + 1 \in P
  <2>1. CASE i + 1 <= n
    <3>1. /\ i + 1 \in 1 .. n /\ i \in 0 .. n /\ i <= n /\ (i + 1) - 1 = i
      BY <1>1, <2>1
    <3>2. r[i + 1] = F[i + 1][r[i]]
      BY <1>2, <1>12, <3>1 DEF Steps
    <3>3. r[i] \in V
      BY <1>12, <3>1
    <3>4. r[i + 1].kept = Append(r[i].kept, s[i + 1])
      <4> HIDE DEF V
      <4>1. F[i + 1][r[i]] = [kept |-> Append(r[i].kept, s[i + 1]), inside |-> FALSE]
        BY <1>7, <3>1, <3>3
      <4> QED
        BY <3>2, <4>1
    <3>5. r[i].kept \in Seq(A) /\ s[i + 1] \in A
      BY <1>1, <3>1, <3>3
    <3>6. Len(r[i].kept) = i /\ \A j \in 1 .. i : r[i].kept[j] = s[j]
      BY <1>14, <3>1
    <3>7. /\ Len(r[i + 1].kept) = i + 1
          /\ \A j \in 1 .. i : r[i + 1].kept[j] = r[i].kept[j]
          /\ r[i + 1].kept[i + 1] = s[i + 1]
      BY <3>4, <3>5, <3>6, AppendProperties
    <3>8. \A j \in 1 .. i + 1 : j \in 1 .. i \/ j = i + 1
      OBVIOUS
    <3>9. \A j \in 1 .. i + 1 : r[i + 1].kept[j] = s[j]
      BY <3>6, <3>7, <3>8
    <3> QED
      BY <3>7, <3>9
  <2> QED
    BY <2>1
<1>15. Len(r[n].kept) = n /\ \A j \in 1 .. n : r[n].kept[j] = s[j]
  <2> HIDE DEF P
  <2>1. n \in P
    BY <1>1, <1>13, <1>14, NatSetInduction
  <2> QED
    BY <1>1, <2>1 DEF P
<1>16. r[n].kept \in Seq(A)
  BY <1>1, <1>12
<1>17. r[n].kept = s
  BY <1>15, <1>16, SeqEqual
<1> QED
  BY <1>6, <1>12, <1>17

\* Words with one space between them.
Spaced(words) == [i \in DOMAIN words |-> IF i = 1 THEN words[1] ELSE <<"space">> \o words[i]]

Joined(words) == FlattenSeq(Spaced(words))

LEMMA SanitizeJoins ==
    ASSUME NEW A, "<" \notin A, NEW s \in Seq(A)
    PROVE  Sanitize(s) = Joined(Runs(s, Blanks))
BY NothingToStrip DEF Sanitize, Joined, Spaced

LEMMA JoinedNone == Joined(<<>>) = <<>>
<1>1. Spaced(<<>>) = <<>>
  BY DEF Spaced
<1> QED
  BY <1>1, FlattenNone DEF Joined

LEMMA JoinedAppend ==
    ASSUME NEW A, "space" \in A, NEW words \in Seq(Seq(A)), NEW w \in Seq(A)
    PROVE  /\ Joined(words) \in Seq(A)
           /\ Joined(Append(words, w)) = IF words = <<>> THEN w ELSE Append(Joined(words), "space") \o w
<1> DEFINE n == Len(words)
           more == Append(words, w)
           x == IF words = <<>> THEN w ELSE <<"space">> \o w
<1>1. n \in Nat /\ DOMAIN words = 1 .. n /\ \A i \in 1 .. n : words[i] \in Seq(A)
  BY LenProperties
<1>2. /\ more \in Seq(Seq(A)) /\ Len(more) = n + 1 /\ DOMAIN more = 1 .. n + 1
      /\ \A i \in 1 .. n : more[i] = words[i]
      /\ more[n + 1] = w
  BY AppendProperties, LenProperties
<1>3. <<"space">> \in Seq(A) /\ Len(<<"space">>) = 1
  OBVIOUS
<1>4. \A v \in Seq(A) : <<"space">> \o v \in Seq(A)
  BY <1>3, ConcatProperties
<1>5. Spaced(words) \in Seq(Seq(A)) /\ Len(Spaced(words)) = n
      /\ \A i \in 1 .. n : Spaced(words)[i] = IF i = 1 THEN words[1] ELSE <<"space">> \o words[i]
  BY <1>1, <1>4 DEF Spaced
<1>6. x \in Seq(A)
  BY <1>4
<1>7. Spaced(more) \in Seq(Seq(A)) /\ Len(Spaced(more)) = n + 1
      /\ \A i \in 1 .. n + 1 : Spaced(more)[i] = IF i = 1 THEN more[1] ELSE <<"space">> \o more[i]
  <2>1. \A i \in 1 .. n + 1 : more[i] \in Seq(A)
    BY <1>1, <1>2
  <2> HIDE DEF more
  <2> QED
    BY <1>1, <1>2, <1>4, <2>1 DEF Spaced
<1>8. n \in Nat /\ (words = <<>> <=> n = 0)
  BY <1>1, EmptySeq
<1> HIDE DEF more, n
<1>9. Spaced(more) = Append(Spaced(words), x)
  <2>1. /\ Append(Spaced(words), x) \in Seq(Seq(A))
        /\ Len(Append(Spaced(words), x)) = n + 1
        /\ \A i \in 1 .. n : Append(Spaced(words), x)[i] = Spaced(words)[i]
        /\ Append(Spaced(words), x)[n + 1] = x
    <3>1. Spaced(words) \in Seq(Seq(A)) /\ Len(Spaced(words)) = n
      BY <1>5
    <3> HIDE DEF x
    <3> QED
      BY <1>6, <3>1, AppendProperties
  <2>2. ASSUME NEW i \in 1 .. n PROVE Spaced(more)[i] = Spaced(words)[i]
    <3>1. i \in 1 .. n + 1 /\ 1 \in 1 .. n
      BY <1>8
    <3> QED
      BY <1>2, <1>5, <1>7, <3>1
  <2>3. Spaced(more)[n + 1] = x
    <3>1. n + 1 \in 1 .. n + 1 /\ (n + 1 = 1 <=> n = 0)
      BY <1>8
    <3> QED
      BY <1>2, <1>7, <1>8, <3>1
  <2>4. \A i \in 1 .. n + 1 : i \in 1 .. n \/ i = n + 1
    BY <1>8
  <2>5. \A i \in 1 .. n + 1 : Spaced(more)[i] = Append(Spaced(words), x)[i]
    BY <2>1, <2>2, <2>3, <2>4
  <2> HIDE DEF x
  <2> QED
    BY <1>7, <2>1, <2>5, SeqEqual
<1>10. Joined(words) \in Seq(A) /\ Joined(more) = Joined(words) \o x
  <2> HIDE DEF x
  <2> QED
    BY <1>5, <1>6, <1>9, FlattenAppend DEF Joined
<1>11. CASE words = <<>>
  <2>1. Joined(words) \o x = w
    BY <1>11, JoinedNone, ConcatEmptySeq
  <2> QED
    BY <1>10, <1>11, <2>1 DEF more
<1>12. CASE words # <<>>
  <2>1. x = <<"space">> \o w
    BY <1>12
  <2>2. Joined(words) \o (<<"space">> \o w) = (Joined(words) \o <<"space">>) \o w
    <3>1. \A v \in Seq(A) : Joined(words) \o (v \o w) = (Joined(words) \o v) \o w
      BY <1>10, ConcatAssociative
    <3> QED
      BY <1>3, <3>1
  <2>3. Append(Joined(words), "space") = Joined(words) \o <<"space">>
    BY <1>10, AppendIsConcat
  <2> QED
    BY <1>10, <1>12, <2>1, <2>2, <2>3 DEF more
<1> QED
  BY <1>11, <1>12


LEMMA RunTypes ==
    ASSUME NEW A, NEW s \in Seq(A), NEW Sep
    PROVE  /\ RunState(s, Sep).runs \in Seq(Seq(A)) /\ RunState(s, Sep).run \in Seq(A)
           /\ RunState(s, Sep) = [runs |-> RunState(s, Sep).runs, run |-> RunState(s, Sep).run]
           /\ Append(RunState(s, Sep).runs, RunState(s, Sep).run) \in Seq(Seq(A))
<1>1. RunState(s, Sep) \in RunStates(A)
  <2>1. CASE A = {}
    <3>1. RunState(s, Sep) = Read(s, RunStates(A), Begun, RunReader(A, Sep))
      BY RunStateIsRead
    <3>2. s = <<>>
      <4>1. Len(s) \in Nat /\ \A i \in 1 .. Len(s) : s[i] \in A
        BY LenProperties
      <4>2. Len(s) = 0
        BY <2>1, <4>1
      <4> QED
        BY <4>2, EmptySeq
    <3> QED
      BY <3>2, RunOfNone, RunStepType
  <2>2. CASE A # {}
    <3>1. PICK c \in A : TRUE
      BY <2>2
    <3> QED
      BY <3>1, RunOfAppend
  <2> QED
    BY <2>1, <2>2
<1>2. /\ RunState(s, Sep).runs \in Seq(Seq(A)) /\ RunState(s, Sep).run \in Seq(A)
      /\ RunState(s, Sep) = [runs |-> RunState(s, Sep).runs, run |-> RunState(s, Sep).run]
  BY <1>1 DEF RunStates
<1> QED
  BY <1>2, AppendProperties

LEMMA RunOfLetter ==
    ASSUME NEW A, NEW s \in Seq(A), NEW Sep, NEW c \in A \ Sep
    PROVE  RunState(Append(s, c), Sep)
               = [runs |-> RunState(s, Sep).runs, run |-> Append(RunState(s, Sep).run, c)]
<1>1. RunState(Append(s, c), Sep) = RunStep(RunState(s, Sep), c, Sep)
  BY RunOfAppend
<1>2. RunState(s, Sep) = [runs |-> RunState(s, Sep).runs, run |-> RunState(s, Sep).run]
  BY RunTypes
<1>3. \A a : RunStep(a, c, Sep) = [a EXCEPT !.run = Append(a.run, c)]
  BY DEF RunStep
<1> QED
  BY <1>1, <1>2, <1>3

LEMMA RunsSplit ==
    ASSUME NEW s, NEW Sep
    PROVE  Runs(s, Sep) = IF RunState(s, Sep).run = <<>> THEN RunState(s, Sep).runs
                          ELSE Append(RunState(s, Sep).runs, RunState(s, Sep).run)
BY RunsIsFold DEF Flushed

\* What the runs between spaces say about the runs between more separators, while the
\* last of them is still being read.
Agrees(s, Sep, Wide) ==
    LET a == RunState(s, Sep)
    IN  IF a.run = <<>>
        THEN RunState(s, Wide).run = <<>> /\ Runs(Joined(a.runs), Wide) = Runs(s, Wide)
        ELSE RunState(Joined(Append(a.runs, a.run)), Wide) = RunState(s, Wide)

LEMMA AgreesThrough ==
    ASSUME NEW s, NEW Sep, NEW Wide, Agrees(s, Sep, Wide)
    PROVE  Runs(Joined(Runs(s, Sep)), Wide) = Runs(s, Wide)
BY RunsSplit DEF Agrees

LEMMA AgreesAfterSeparator ==
    ASSUME NEW A, NEW s \in Seq(A), NEW Sep, NEW Wide, Sep \subseteq Wide,
           NEW c \in A \cap Sep, Agrees(s, Sep, Wide)
    PROVE  Agrees(Append(s, c), Sep, Wide)
<1>1. c \in A \cap Wide
  OBVIOUS
<1>2. RunState(Append(s, c), Sep) = [runs |-> Runs(s, Sep), run |-> <<>>]
  BY RunOfSeparator
<1>3. RunState(Append(s, c), Wide) = [runs |-> Runs(s, Wide), run |-> <<>>]
  BY <1>1, RunOfSeparator
<1>4. Runs(Append(s, c), Wide) = Runs(s, Wide)
  BY <1>3, RunsSplit
<1>5. Runs(Joined(Runs(s, Sep)), Wide) = Runs(s, Wide)
  BY AgreesThrough
<1> QED
  BY <1>2, <1>3, <1>4, <1>5 DEF Agrees

LEMMA AgreesAfterLetter ==
    ASSUME NEW A, NEW s \in Seq(A), NEW Sep, NEW Wide, "space" \in A \cap Wide,
           NEW c \in A \ Sep, Agrees(s, Sep, Wide)
    PROVE  Agrees(Append(s, c), Sep, Wide)
<1> DEFINE runs == RunState(s, Sep).runs
           run == RunState(s, Sep).run
           J == Joined(runs)
<1>1. /\ runs \in Seq(Seq(A)) /\ run \in Seq(A)
      /\ RunState(s, Wide) = [runs |-> RunState(s, Wide).runs, run |-> RunState(s, Wide).run]
  BY RunTypes
<1>2. RunState(Append(s, c), Sep) = [runs |-> runs, run |-> Append(run, c)]
  BY RunOfLetter
<1>3. \A x \in Seq(A) : RunState(Append(x, c), Wide) = RunStep(RunState(x, Wide), c, Wide)
  BY RunOfAppend
<1>4. /\ run = <<>> => RunState(s, Wide).run = <<>> /\ Runs(J, Wide) = Runs(s, Wide)
      /\ run # <<>> => RunState(Joined(Append(runs, run)), Wide) = RunState(s, Wide)
  BY DEF Agrees
<1>5. SUFFICES /\ Append(run, c) # <<>>
               /\ RunState(Joined(Append(runs, Append(run, c))), Wide) = RunState(Append(s, c), Wide)
  BY <1>2 DEF Agrees
<1> HIDE DEF runs, run
<1>6. Append(run, c) \in Seq(A) /\ Append(run, c) # <<>>
  BY <1>1, AppendProperties
<1>7. J \in Seq(A)
  BY <1>1, JoinedAppend
<1>8. Append(J, "space") \in Seq(A)
  BY <1>7, AppendProperties
<1>9. \A w \in Seq(A) : Joined(Append(runs, w)) = IF runs = <<>> THEN w ELSE Append(J, "space") \o w
  BY <1>1, JoinedAppend
<1>10. CASE run # <<>>
  <2>1. Append(J, "space") \o Append(run, c) = Append(Append(J, "space") \o run, c)
    BY <1>1, <1>8, AppendOfConcat
  <2>2. Joined(Append(runs, Append(run, c))) = Append(Joined(Append(runs, run)), c)
    BY <1>1, <1>6, <1>9, <2>1
  <2>3. Joined(Append(runs, run)) \in Seq(A)
    <3>1. Append(runs, run) \in Seq(Seq(A))
      BY <1>1, AppendProperties
    <3> QED
      BY <1>1, <3>1, JoinedAppend
  <2> QED
    BY <1>3, <1>4, <1>6, <1>10, <2>2, <2>3
<1>11. CASE run = <<>>
  <2>1. Append(run, c) = <<c>> /\ <<c>> \in Seq(A)
    BY <1>11
  <2>2. RunState(s, Wide) = [runs |-> Runs(s, Wide), run |-> <<>>]
    BY <1>1, <1>4, <1>11, RunsSplit
  <2>3. CASE runs = <<>>
    <3>1. J = <<>> /\ <<>> \in Seq(A)
      BY <2>3, JoinedNone, EmptySeq
    <3>2. RunState(<<>>, Wide) = Begun
      BY RunOfNone
    <3>3. Runs(<<>>, Wide) = <<>>
      BY <3>2, RunsSplit DEF Begun
    <3>4. RunState(s, Wide) = RunState(<<>>, Wide)
      BY <1>4, <1>11, <2>2, <3>1, <3>2, <3>3 DEF Begun
    <3>5. <<c>> = Append(<<>>, c)
      OBVIOUS
    <3>6. Joined(Append(runs, <<c>>)) = <<c>>
      BY <1>9, <2>1, <2>3
    <3> QED
      BY <1>3, <1>6, <2>1, <3>1, <3>4, <3>5, <3>6
  <2>4. CASE runs # <<>>
    <3>1. Append(J, "space") \o <<c>> = Append(Append(J, "space"), c)
      BY <1>8, AppendIsConcat
    <3>2. RunState(Append(J, "space"), Wide) = [runs |-> Runs(J, Wide), run |-> <<>>]
      <4> HIDE DEF J
      <4> QED
        BY <1>7, RunOfSeparator
    <3>3. RunState(Append(J, "space"), Wide) = RunState(s, Wide)
      BY <1>4, <1>11, <2>2, <3>2
    <3>4. Joined(Append(runs, <<c>>)) = Append(Append(J, "space"), c)
      BY <1>9, <2>1, <2>4, <3>1
    <3> QED
      BY <1>3, <1>6, <1>8, <2>1, <3>3, <3>4
  <2> QED
    BY <2>3, <2>4
<1> QED
  BY <1>10, <1>11

\* The runs of the runs with spaces between them are the runs, and so for all separators
\* that have the first ones among them.
LEMMA RunsOfJoinedRuns ==
    ASSUME NEW A, NEW Sep, "space" \in A \cap Sep, NEW Wide, Sep \subseteq Wide, NEW s \in Seq(A)
    PROVE  /\ Joined(Runs(s, Sep)) \in Seq(A)
           /\ Runs(Joined(Runs(s, Sep)), Wide) = Runs(s, Wide)
<1> DEFINE P == {u \in Seq(A) : Agrees(u, Sep, Wide)}
<1>1. <<>> \in P
  <2>1. RunState(<<>>, Sep) = Begun /\ RunState(<<>>, Wide) = Begun /\ <<>> \in Seq(A)
    BY RunOfNone, EmptySeq
  <2> QED
    BY <2>1, JoinedNone DEF Agrees, Begun
<1>2. ASSUME NEW u \in Seq(A), NEW c \in A, u \in P PROVE Append(u, c) \in P
  <2>1. Append(u, c) \in Seq(A)
    BY AppendProperties
  <2>2. Agrees(Append(u, c), Sep, Wide)
    <3>1. CASE c \in Sep
      BY <1>2, <3>1, AgreesAfterSeparator
    <3>2. CASE c \notin Sep
      BY <1>2, <3>2, AgreesAfterLetter
    <3> QED
      BY <3>1, <3>2
  <2> QED
    BY <2>1, <2>2
<1> HIDE DEF P
<1>3. \A u \in Seq(A) : u \in P
  BY <1>1, <1>2, SequenceInduction
<1>4. Agrees(s, Sep, Wide)
  BY <1>3 DEF P
<1>5. Runs(s, Sep) \in Seq(Seq(A))
  BY RunTypes, RunsSplit
<1>6. Joined(Runs(s, Sep)) \in Seq(A)
  BY <1>5, JoinedAppend, EmptySeq
<1> QED
  BY <1>4, <1>6, AgreesThrough

LEMMA SanitizeKeepsRuns ==
    ASSUME NEW A, "<" \notin A, "space" \in A, NEW s \in Seq(A), NEW Wide, Blanks \subseteq Wide
    PROVE  Sanitize(s) \in Seq(A) /\ Runs(Sanitize(s), Wide) = Runs(s, Wide)
<1>1. "space" \in A \cap Blanks
  BY DEF Blanks
<1> QED
  BY <1>1, SanitizeJoins, RunsOfJoinedRuns

-----------------------------------------------------------------------------
(* The text and what is shown *)

\* Pages whose blocks are the parser's blocks: no nav, and none that is in no set of the
\* parser, like main.  Clean data has no "<" that an entity stands for.
Rendered == WellFormed /\ BlockLevel = Tags \cap BlockTags

Readable == Chars \ {"<"}
Marks == Readable \cup {"break"}

CleanData == Data \subseteq Seq(Readable)

\* A space separates in S as a boundary does in U, and other characters do in both or none.
Matched(S, U) == "space" \in S /\ "break" \in U /\ \A c \in Readable : c \in S <=> c \in U

LEMMA MatchedSeparators == Matched(Blanks, Gaps) /\ Matched(Chars \ Letters, NotAlnum)
BY DEF Matched, Gaps, NotAlnum, Blanks, Chars, Letters, Readable, Ignorable

XTypes == text \in Seq(Readable) /\ shown \in Seq(Marks)

Alike(S, U) == RunState(text, S) = RunState(shown, U)

LEMMA CharsOfMarks == Readable \subseteq Marks /\ "space" \in Readable /\ \A s \in Seq(Readable) : s \in Seq(Marks)
<1>1. Readable \subseteq Marks
  BY DEF Marks
<1>2. "space" \in Readable
  BY DEF Readable, Chars, Blanks
<1> QED
  BY <1>1, <1>2, SeqMonotonic

\* The same boundary for both.
LEMMA AlikeAtBoundary ==
    ASSUME XTypes, NEW S, NEW U, Matched(S, U), Alike(S, U), NEW block \in BOOLEAN,
           text' = IF block THEN Append(text, "space") ELSE text,
           shown' = IF block THEN Append(shown, "break") ELSE shown
    PROVE  XTypes' /\ Alike(S, U)'
<1>1. /\ text \in Seq(Readable) /\ text \in Seq(Marks) /\ shown \in Seq(Marks)
      /\ "space" \in Readable /\ "space" \in Marks /\ "break" \in Marks
  BY CharsOfMarks DEF XTypes, Marks
<1>2. CASE block
  <2>1. text' = Append(text, "space") /\ shown' = Append(shown, "break")
    BY <1>2
  <2>2. text' \in Seq(Readable) /\ shown' \in Seq(Marks)
    BY <1>1, <2>1, AppendProperties
  <2>3. RunState(text', S) = [runs |-> Runs(text, S), run |-> <<>>]
    <3>1. "space" \in Marks \cap S
      BY <1>1 DEF Matched
    <3> QED
      BY <1>1, <2>1, <3>1, RunOfSeparator
  <2>4. RunState(shown', U) = [runs |-> Runs(shown, U), run |-> <<>>]
    <3>1. "break" \in Marks \cap U
      BY <1>1 DEF Matched
    <3> QED
      BY <1>1, <2>1, <3>1, RunOfSeparator
  <2>5. Runs(text, S) = Runs(shown, U)
    BY RunsSplit DEF Alike
  <2> QED
    BY <2>2, <2>3, <2>4, <2>5 DEF XTypes, Alike
<1>3. CASE ~block
  BY <1>3 DEF XTypes, Alike
<1> QED
  BY <1>2, <1>3

\* The same characters for both.
LEMMA AlikeThroughData ==
    ASSUME XTypes, NEW S, NEW U, Matched(S, U), Alike(S, U), NEW d \in Seq(Readable),
           NEW visible \in BOOLEAN,
           text' = IF visible THEN text \o d ELSE text,
           shown' = IF visible THEN shown \o d ELSE shown
    PROVE  XTypes' /\ Alike(S, U)'
<1>1. /\ text \in Seq(Readable) /\ text \in Seq(Marks) /\ shown \in Seq(Marks)
      /\ d \in Seq(Marks) /\ Readable \in SUBSET Marks
  BY CharsOfMarks DEF XTypes
<1>2. CASE visible
  <2>1. text' = text \o d /\ shown' = shown \o d
    BY <1>2
  <2>2. text' \in Seq(Readable) /\ shown' \in Seq(Marks)
    BY <1>1, <2>1, ConcatProperties
  <2>3. \A c \in Readable : c \in S <=> c \in U
    BY DEF Matched
  <2>4. RunState(text, S) = RunState(shown, U)
    BY DEF Alike
  <2>5. \A e \in Seq(Readable) : RunState(text \o e, S) = RunState(shown \o e, U)
    BY <1>1, <2>3, <2>4, RunsGoOnAlike
  <2> QED
    BY <2>1, <2>2, <2>5 DEF XTypes, Alike
<1>3. CASE ~visible
  BY <1>3 DEF XTypes, Alike
<1> QED
  BY <1>2, <1>3

LEMMA VisibleMeans == FInv => (Visible <=> ~inScriptOrStyle /\ ~inTitle)
BY InsideMeans DEF FInv, Fits, Visible, InvisibleTags

\* A step of the parser, or none.
LEMMA AlikeSteps ==
    ASSUME FInv, Rendered, CleanData, XTypes, NEW S, NEW U, Matched(S, U), Alike(S, U),
           ParserEvent \/ UNCHANGED <<text, shown>>
    PROVE  XTypes' /\ Alike(S, U)'
<1>1. ASSUME NEW t \in Tags, OpenElement(t) PROVE XTypes' /\ Alike(S, U)'
  <2> DEFINE block == t \in BlockTags
  <2>1. text' = IF block THEN Append(text, "space") ELSE text
    BY <1>1 DEF OpenElement, HandleStarttag, Separates
  <2>2. shown' = IF block THEN Append(shown, "break") ELSE shown
    BY <1>1 DEF OpenElement, Boundary, Rendered
  <2>3. block \in BOOLEAN
    OBVIOUS
  <2> HIDE DEF block
  <2> QED
    BY <2>1, <2>2, <2>3, AlikeAtBoundary
<1>2. ASSUME NEW t \in Tags, StrayEnd(t) PROVE XTypes' /\ Alike(S, U)'
  <2>1. text' = text /\ shown' = shown
    BY <1>2 DEF StrayEnd, HandleEndtag, Separates, BlockTags, tree
  <2> QED
    BY <2>1 DEF XTypes, Alike
<1>3. ASSUME CloseElement PROVE XTypes' /\ Alike(S, U)'
  <2> DEFINE t == Last(open)
             block == t \in BlockTags
  <2>1. t \in Tags
    BY <1>3, OpensOfFront DEF CloseElement, FInv
  <2>2. text' = IF block THEN Append(text, "space") ELSE text
    BY <1>3 DEF CloseElement, HandleEndtag, Separates
  <2>3. shown' = IF block THEN Append(shown, "break") ELSE shown
    BY <1>3, <2>1 DEF CloseElement, Boundary, Rendered
  <2>4. block \in BOOLEAN
    OBVIOUS
  <2> HIDE DEF block
  <2> QED
    BY <2>2, <2>3, <2>4, AlikeAtBoundary
<1>4. ASSUME NEW d \in Data, Text(d) PROVE XTypes' /\ Alike(S, U)'
  <2>1. d \in Seq(Readable)
    BY DEF CleanData
  <2>2. text' = IF Visible THEN text \o d ELSE text
    BY <1>4, VisibleMeans DEF Text, HandleData
  <2>3. shown' = IF Visible THEN shown \o d ELSE shown
    BY <1>4 DEF Text
  <2>4. Visible \in BOOLEAN
    BY DEF Visible
  <2> QED
    BY <2>1, <2>2, <2>3, <2>4, AlikeThroughData
<1>5. ASSUME UNCHANGED <<text, shown>> PROVE XTypes' /\ Alike(S, U)'
  BY <1>5 DEF XTypes, Alike
<1> QED
  BY <1>1, <1>2, <1>3, <1>4, <1>5 DEF ParserEvent

XInv == XTypes /\ Alike(Blanks, Gaps) /\ Alike(Chars \ Letters, NotAlnum)

LEMMA XInvFresh == text = <<>> /\ shown = <<>> => XInv
<1>1. \A S : RunState(<<>>, S) = Begun
  BY RunOfNone
<1> QED
  BY <1>1, EmptySeq DEF XInv, XTypes, Alike

LEMMA XInvSteps == ASSUME FInv, Rendered, CleanData, XInv, [PNext]_pvars PROVE XInv'
<1>1. ASSUME ParserEvent \/ UNCHANGED <<text, shown>> PROVE XInv'
  <2>1. \A S, U : Matched(S, U) /\ Alike(S, U) => XTypes' /\ Alike(S, U)'
    BY <1>1, AlikeSteps DEF XInv
  <2> QED
    BY <2>1, MatchedSeparators DEF XInv
<1>2. ASSUME NEW u, NEW o, NEW d, IndexPage(u, o, d) PROVE XInv'
  <2>1. (text = <<>> /\ shown = <<>>)'
    BY <1>2 DEF IndexPage, Renew
  <2> QED
    BY <2>1, XInvFresh, PTL
<1>3. ASSUME Export \/ Import \/ UNCHANGED pvars PROVE UNCHANGED <<text, shown>>
  BY <1>3 DEF Export, Import, pvars, parser, tree
<1> QED
  BY <1>1, <1>2, <1>3 DEF PNext, Parse

LEMMA TextOfXInv == XInv => TextIsWhatIsShown
<1> SUFFICES ASSUME XInv PROVE TextIsWhatIsShown
  OBVIOUS
<1>1. text \in Seq(Readable) /\ "<" \notin Readable /\ "space" \in Readable
  BY CharsOfMarks DEF XInv, XTypes, Readable
<1>2. Runs(GetText, Blanks) = Runs(text, Blanks)
  BY <1>1, SanitizeKeepsRuns DEF GetText
<1>3. Runs(text, Blanks) = Runs(shown, Gaps)
  BY RunsSplit DEF XInv, Alike
<1> QED
  BY <1>2, <1>3 DEF TextIsWhatIsShown

LEMMA XInvHolds == ASSUME Rendered, CleanData PROVE PSpec => [](FInv /\ XInv)
<1>1. PInit => FInv /\ XInv
  BY FInvFresh, XInvFresh DEF PInit, Fresh, NothingRead
<1>2. FInv /\ XInv /\ [PNext]_pvars => (FInv /\ XInv)'
  BY FInvSteps, XInvSteps DEF Rendered
<1> QED
  BY <1>1, <1>2, PTL DEF PSpec

\* get_text() glues the pieces that handle_data() saw, with spaces where block tags
\* stood, and sanitize_html_input() joins what is left with single spaces.  For every
\* page, of any length, whose blocks are all among the parser's block tags and whose text
\* has no "<" from an entity, its words are those a reader sees, in their order: blocks
\* never run together, an inline tag never cuts a word, and what is invisible stays out.
THEOREM TextIsTheShownWords == ASSUME Rendered, CleanData PROVE PSpec => []TextIsWhatIsShown
BY XInvHolds, TextOfXInv, PTL

-----------------------------------------------------------------------------
(* The preview *)

\* Links in paragraphs have no line breaks, and boilerplate is the parser's.
PlainParagraphs == Rendered /\ ~LinkBreaks /\ "nav" \notin Tags

\* A paragraph is open, and not in boilerplate.
InText(s) ==
    /\ Has(s, "p")
    /\ \A i, k \in 1 .. Len(s) : i < k /\ s[k] = "p" => s[i] \notin SnippetSkipTags

NoBlockInside(s) ==
    \A i, k \in 1 .. Len(s) : i < k /\ s[i] = "p" => s[k] \notin BlockLevel

VTypes == snippet \in Seq(Readable) /\ preview \in Seq(Marks)

\* Snippet and preview have the same runs; within a paragraph also the one that is read.
VInv ==
    /\ VTypes
    /\ NoBlockInside(open)
    /\ Runs(snippet, Blanks) = Runs(preview, Gaps)
    /\ InText(open) => RunState(snippet, Blanks) = RunState(preview, Gaps)

\* Whether HandleData captures, in terms of the tree.
LEMMA CaptureMeans ==
    FInv => /\ Captured <=> Has(open, "p") /\ Skipped(open) = {}
            /\ Captured => InText(open)
            /\ skipTags = 0 <=> Skipped(open) = {}
<1> SUFFICES ASSUME FInv
             PROVE  /\ Captured <=> Has(open, "p") /\ Skipped(open) = {}
                    /\ Captured => InText(open)
                    /\ skipTags = 0 <=> Skipped(open) = {}
  OBVIOUS
<1>1. IsFiniteSet(Skipped(open))
  <2>1. Len(open) \in Nat
    BY LenProperties DEF FInv
  <2>2. IsFiniteSet(1 .. Len(open))
    BY <2>1, FS_Interval
  <2> QED
    BY <2>2, FS_Subset DEF Skipped
<1>2. skipTags = 0 <=> Skipped(open) = {}
  BY <1>1, FS_EmptySet DEF FInv, Fits
<1>3. Captured <=> Has(open, "p") /\ Skipped(open) = {}
  BY <1>2 DEF Captured, FInv, Fits
<1>4. Has(open, "p") /\ Skipped(open) = {} => InText(open)
  BY DEF InText, Skipped
<1> QED
  BY <1>2, <1>3, <1>4

\* A boundary in the preview, and a space in the snippet if the paragraph goes on.
LEMMA PreviewBoundary ==
    ASSUME VTypes, Runs(snippet, Blanks) = Runs(preview, Gaps),
           NEW captured \in BOOLEAN,
           snippet' = IF captured THEN Append(snippet, "space") ELSE snippet,
           preview' = Append(preview, "break")
    PROVE  /\ VTypes' /\ (Runs(snippet, Blanks) = Runs(preview, Gaps))'
           /\ captured => (RunState(snippet, Blanks) = RunState(preview, Gaps))'
<1>1. /\ snippet \in Seq(Readable) /\ preview \in Seq(Marks)
      /\ "space" \in Readable \cap Blanks /\ "break" \in Marks \cap Gaps
  BY CharsOfMarks, MatchedSeparators DEF VTypes, Marks, Matched
<1>2. preview' \in Seq(Marks) /\ Append(snippet, "space") \in Seq(Readable)
  BY <1>1, AppendProperties
<1>3. RunState(preview', Gaps) = [runs |-> Runs(preview, Gaps), run |-> <<>>]
  BY <1>1, RunOfSeparator
<1>4. RunState(Append(snippet, "space"), Blanks) = [runs |-> Runs(snippet, Blanks), run |-> <<>>]
  BY <1>1, RunOfSeparator
<1>5. /\ Runs(preview', Gaps) = Runs(preview, Gaps)
      /\ Runs(Append(snippet, "space"), Blanks) = Runs(snippet, Blanks)
  BY <1>3, <1>4, RunsSplit
<1> QED
  BY <1>1, <1>2, <1>3, <1>4, <1>5 DEF VTypes

LEMMA PreviewKept ==
    ASSUME VInv, UNCHANGED <<snippet, preview>>, NoBlockInside(open'), InText(open') => InText(open)
    PROVE  VInv'
BY DEF VInv, VTypes, NoBlockInside, InText, Has

LEMMA OpenShape ==
    ASSUME FInv, WellFormed, NEW t \in Tags, OpenElement(t)
    PROVE  /\ Has(open, "p") /\ t \in BlockLevel \ VoidTags => ImpliedEnd(t) /\ t = "p"
           /\ ImpliedEnd(t) => open # <<>> /\ Last(open) = "p" /\ t \in BlockLevel \ VoidTags
           /\ open' = IF t \in VoidTags THEN open
                      ELSE Append(IF ImpliedEnd(t) THEN Front(open) ELSE open, t)
<1>1. Has(open, "p") /\ t \in BlockLevel \ VoidTags => ImpliedEnd(t) /\ t = "p"
  BY InsideMeans DEF OpenElement, MayOpen, WellFormed, FInv
<1> QED
  BY <1>1 DEF OpenElement, ImpliedEnd

\* A line break.
LEMMA VInvVoid ==
    ASSUME FInv, PlainParagraphs, VInv, NEW t \in Tags \cap VoidTags, OpenElement(t)
    PROVE  VInv'
<1>1. t = "br" /\ open' = open /\ t \in BlockLevel /\ t \in BlockTags
  BY DEF OpenElement, VoidTags, PlainParagraphs, Rendered, BlockTags
<1>2. snippet' = IF Captured THEN Append(snippet, "space") ELSE snippet
  <2>1. inP' = inP /\ skipTags' = skipTags
    BY <1>1 DEF OpenElement, HandleStarttag, SnippetSkipTags, FInv
  <2> QED
    BY <1>1, <2>1 DEF OpenElement, HandleStarttag, Separates, Captured
<1>3. preview' = Append(preview, "break")
  BY <1>1 DEF OpenElement, Boundary
<1>4. Captured \in BOOLEAN
  BY DEF Captured, FInv
<1>5. /\ VTypes' /\ (Runs(snippet, Blanks) = Runs(preview, Gaps))'
      /\ Captured => (RunState(snippet, Blanks) = RunState(preview, Gaps))'
  BY <1>2, <1>3, <1>4, PreviewBoundary DEF VInv
<1>6. InText(open) => Captured
  <2> SUFFICES ASSUME InText(open), Skipped(open) # {} PROVE FALSE
    BY CaptureMeans DEF InText
  <2>1. PICK i \in 1 .. Len(open) : open[i] \in SnippetSkipTags
    BY DEF Skipped
  <2>2. PICK k \in 1 .. Len(open) : open[k] = "p"
    BY DEF InText, Has
  <2>3. ~(i < k) /\ i # k
    BY <2>1, <2>2 DEF InText, SnippetSkipTags
  <2>4. Len(open) \in Nat /\ open[i] \in Tags
    BY LenProperties DEF FInv
  <2>5. k < i
    BY <2>3, <2>4
  <2>6. open[i] \notin BlockLevel
    BY <2>2, <2>5 DEF VInv, NoBlockInside
  <2>7. open[i] = "a"
    BY <2>1, <2>4, <2>6 DEF SnippetSkipTags, PlainParagraphs, Rendered, BlockTags
  <2>8. Inside({"a"}) /\ Inside({"p"})
    BY <2>2, <2>7, InsideMeans DEF FInv, Has
  <2> QED
    BY <1>1, <2>8 DEF OpenElement, MayOpen, PlainParagraphs
<1>7. NoBlockInside(open)' /\ (InText(open)' <=> InText(open))
  BY <1>1 DEF VInv, NoBlockInside, InText, Has
<1> QED
  BY <1>5, <1>6, <1>7 DEF VInv

\* The start of a block.
LEMMA VInvBlock ==
    ASSUME FInv, FInv', PlainParagraphs, VInv, NEW t \in BlockLevel \ VoidTags, OpenElement(t)
    PROVE  VInv'
<1>1. t \in Tags /\ t \in BlockTags /\ WellFormed
  BY DEF PlainParagraphs, Rendered
<1> DEFINE s == IF ImpliedEnd(t) THEN Front(open) ELSE open
<1>2. /\ Has(open, "p") => ImpliedEnd(t) /\ t = "p"
      /\ ImpliedEnd(t) => open # <<>> /\ Last(open) = "p"
      /\ open' = Append(s, t)
  BY <1>1, OpenShape
<1>3. s \in Seq(Tags) /\ ~Has(s, "p")
  <2>1. open \in Seq(Tags) /\ Once(open)
    BY DEF FInv
  <2>2. CASE ImpliedEnd(t)
    BY <1>2, <2>1, <2>2, OpensOfFront DEF Flagged
  <2>3. CASE ~ImpliedEnd(t)
    BY <1>2, <2>1, <2>3
  <2> QED
    BY <2>2, <2>3
<1> HIDE DEF s
<1>4. /\ Len(s) \in Nat /\ Len(open') = Len(s) + 1
      /\ \A i \in 1 .. Len(s) : open'[i] = s[i]
      /\ open'[Len(s) + 1] = t
  BY <1>1, <1>2, <1>3, AppendProperties, LenProperties
<1>5. snippet' = IF Captured' THEN Append(snippet, "space") ELSE snippet
  BY <1>1 DEF OpenElement, HandleStarttag, Separates, Captured
<1>6. preview' = Append(preview, "break")
  BY DEF OpenElement, Boundary
<1>7. Captured' \in BOOLEAN
  BY DEF Captured, FInv
<1>8. /\ VTypes' /\ (Runs(snippet, Blanks) = Runs(preview, Gaps))'
      /\ Captured' => (RunState(snippet, Blanks) = RunState(preview, Gaps))'
  BY <1>5, <1>6, <1>7, PreviewBoundary DEF VInv
<1>9. InText(open)' => Captured'
  <2> SUFFICES ASSUME InText(open') PROVE Captured'
    BY DEF InText, Has
  <2>1. \A i \in 1 .. Len(open') : i \in 1 .. Len(s) \/ i = Len(s) + 1
    BY <1>4
  <2>2. t = "p"
    BY <1>3, <1>4, <2>1 DEF InText, Has
  <2>3. \A i \in 1 .. Len(s) : open'[i] \notin SnippetSkipTags
    <3>1. Len(s) + 1 \in 1 .. Len(open')
      BY <1>4
    <3>2. \A i \in 1 .. Len(s) : i < Len(s) + 1 /\ i \in 1 .. Len(open')
      BY <1>4
    <3> QED
      BY <1>4, <2>2, <3>1, <3>2 DEF InText
  <2>4. Skipped(open') = {}
    BY <1>4, <2>1, <2>2, <2>3 DEF Skipped, SnippetSkipTags
  <2>5. Captured' <=> Has(open', "p") /\ Skipped(open') = {}
    <3>1. Captured' <=> Has(open, "p")' /\ (Skipped(open) = {})'
      BY CaptureMeans, PTL
    <3> QED
      BY <3>1 DEF Has, Skipped
  <2> QED
    BY <2>4, <2>5 DEF InText
<1>10. NoBlockInside(open)'
  <2>1. ASSUME NEW i \in 1 .. Len(open'), NEW k \in 1 .. Len(open'), i < k PROVE open'[i] # "p"
    <3>1. i \in 1 .. Len(s)
      BY <1>4, <2>1
    <3> QED
      BY <1>3, <1>4, <3>1 DEF Has
  <2> QED
    BY <2>1 DEF NoBlockInside
<1> QED
  BY <1>8, <1>9, <1>10 DEF VInv

\* The start of an inline element.
LEMMA VInvInline ==
    ASSUME FInv, PlainParagraphs, VInv, NEW t \in Tags \ BlockLevel, OpenElement(t)
    PROVE  VInv'
<1>1. t \notin VoidTags /\ t \notin BlockTags /\ t # "p" /\ WellFormed
  BY DEF PlainParagraphs, Rendered, VoidTags, BlockTags
<1>2. open' = Append(open, t) /\ open \in Seq(Tags)
  BY <1>1, OpenShape DEF FInv
<1>3. /\ Len(open) \in Nat /\ Len(open') = Len(open) + 1
      /\ \A i \in 1 .. Len(open) : open'[i] = open[i]
      /\ open'[Len(open) + 1] = t
  BY <1>2, AppendProperties, LenProperties
<1>4. snippet' = snippet /\ preview' = preview
  BY <1>1 DEF OpenElement, HandleStarttag, Separates, Boundary
<1>5. \A i \in 1 .. Len(open') : i \in 1 .. Len(open) \/ i = Len(open) + 1
  BY <1>3
<1>6. NoBlockInside(open')
  <2>1. ASSUME NEW i \in 1 .. Len(open'), NEW k \in 1 .. Len(open'), i < k, open'[i] = "p"
        PROVE  open'[k] \notin BlockLevel
    <3>1. i \in 1 .. Len(open)
      BY <1>3, <2>1
    <3>2. CASE k \in 1 .. Len(open)
      BY <1>3, <2>1, <3>1, <3>2 DEF VInv, NoBlockInside
    <3>3. CASE k = Len(open) + 1
      BY <1>3, <3>3
    <3> QED
      BY <1>5, <3>2, <3>3
  <2> QED
    BY <2>1 DEF NoBlockInside
<1>7. InText(open') => InText(open)
  <2> SUFFICES ASSUME InText(open') PROVE InText(open)
    OBVIOUS
  <2>1. Has(open, "p")
    BY <1>1, <1>3, <1>5 DEF InText, Has
  <2>2. \A i \in 1 .. Len(open) : i \in 1 .. Len(open')
    BY <1>3
  <2> QED
    BY <1>3, <2>1, <2>2 DEF InText
<1> QED
  BY <1>4, <1>6, <1>7, PreviewKept

LEMMA VInvClose ==
    ASSUME FInv, PlainParagraphs, VInv, CloseElement
    PROVE  VInv'
<1> DEFINE t == Last(open)
<1>1. /\ open \in Seq(Tags) /\ open # <<>> /\ open' = Front(open)
      /\ preview' = IF t \in BlockLevel THEN Append(preview, "break") ELSE preview
      /\ snippet' = snippet
  BY DEF FInv, CloseElement, Boundary, HandleEndtag
<1>2. /\ t \in Tags /\ Len(open) \in Nat \ {0} /\ Len(open') = Len(open) - 1
      /\ \A i \in 1 .. Len(open) - 1 : open'[i] = open[i]
      /\ open[Len(open)] = t
  BY <1>1, FrontAndLast
<1> HIDE DEF t
<1>3. \A i \in 1 .. Len(open') : i \in 1 .. Len(open) /\ open'[i] = open[i] /\ i < Len(open)
  BY <1>2
<1>4. NoBlockInside(open')
  BY <1>3 DEF VInv, NoBlockInside
<1>5. CASE t \in BlockLevel
  <2>1. ~Has(open', "p")
    <3>1. Len(open) \in 1 .. Len(open)
      BY <1>2
    <3> QED
      BY <1>2, <1>3, <1>5, <3>1 DEF VInv, NoBlockInside, Has
  <2>2. snippet' = IF FALSE THEN Append(snippet, "space") ELSE snippet
    BY <1>1
  <2>3. VTypes' /\ (Runs(snippet, Blanks) = Runs(preview, Gaps))'
    BY <1>1, <1>5, <2>2, PreviewBoundary DEF VInv
  <2>4. NoBlockInside(open)' /\ ~InText(open)'
    BY <1>4, <2>1 DEF NoBlockInside, InText, Has
  <2> QED
    BY <2>3, <2>4 DEF VInv
<1>6. CASE t \notin BlockLevel
  <2>1. t # "p"
    BY <1>2, <1>6 DEF PlainParagraphs, Rendered, BlockTags
  <2>2. \A i \in 1 .. Len(open) : i \in 1 .. Len(open') \/ i = Len(open)
    BY <1>2
  <2>3. InText(open') => InText(open)
    <3> SUFFICES ASSUME InText(open') PROVE InText(open)
      OBVIOUS
    <3>1. Has(open, "p")
      BY <1>3 DEF InText, Has
    <3>2. ASSUME NEW i \in 1 .. Len(open), NEW k \in 1 .. Len(open), i < k, open[k] = "p"
          PROVE  open[i] \notin SnippetSkipTags
      <4>1. k \in 1 .. Len(open')
        BY <1>2, <2>1, <2>2, <3>2
      <4>2. i \in 1 .. Len(open')
        BY <1>2, <3>2, <4>1
      <4> QED
        BY <1>3, <3>2, <4>1, <4>2 DEF InText
    <3> QED
      BY <3>1, <3>2 DEF InText
  <2> QED
    BY <1>1, <1>4, <1>6, <2>3, PreviewKept
<1> QED
  BY <1>5, <1>6

LEMMA VInvText ==
    ASSUME FInv, CleanData, VInv, NEW d \in Data, Text(d)
    PROVE  VInv'
<1>1. snippet' = IF Visible /\ Captured THEN snippet \o d ELSE snippet
  BY VisibleMeans DEF Text, HandleData
<1>2. InParagraph <=> Visible /\ Captured
  <2>1. Inside({"p"}) <=> Has(open, "p")
    BY InsideMeans DEF FInv
  <2>2. Inside(SnippetSkipTags) <=> Skipped(open) # {}
    BY InsideMeans DEF FInv, Skipped, Has
  <2> QED
    BY <2>1, <2>2, CaptureMeans DEF InParagraph
<1>3. preview' = IF Visible /\ Captured THEN preview \o d ELSE preview
  BY <1>2 DEF Text
<1>4. open' = open
  BY DEF Text
<1>5. CASE Visible /\ Captured
  <2>1. snippet' = snippet \o d /\ preview' = preview \o d
    BY <1>1, <1>3, <1>5
  <2>2. /\ snippet \in Seq(Readable) /\ snippet \in Seq(Marks) /\ preview \in Seq(Marks)
        /\ d \in Seq(Readable) /\ d \in Seq(Marks) /\ Readable \in SUBSET Marks
    BY CharsOfMarks DEF VInv, VTypes, CleanData
  <2>3. snippet' \in Seq(Readable) /\ preview' \in Seq(Marks)
    BY <2>1, <2>2, ConcatProperties
  <2>4. RunState(snippet, Blanks) = RunState(preview, Gaps)
    BY <1>5, CaptureMeans DEF VInv
  <2>5. \A c \in Readable : c \in Blanks <=> c \in Gaps
    BY MatchedSeparators DEF Matched
  <2>6. \A e \in Seq(Readable) : RunState(snippet \o e, Blanks) = RunState(preview \o e, Gaps)
    BY <2>2, <2>4, <2>5, RunsGoOnAlike
  <2>7. (RunState(snippet, Blanks) = RunState(preview, Gaps))'
    BY <2>1, <2>2, <2>6
  <2>8. (Runs(snippet, Blanks) = Runs(preview, Gaps))'
    BY <2>7, RunsSplit
  <2>9. NoBlockInside(open)'
    BY <1>4 DEF VInv, NoBlockInside
  <2> QED
    BY <2>3, <2>7, <2>8, <2>9 DEF VInv, VTypes
<1>6. CASE ~(Visible /\ Captured)
  BY <1>1, <1>3, <1>4, <1>6, PreviewKept DEF VInv, NoBlockInside
<1> QED
  BY <1>5, <1>6

LEMMA VInvFresh == snippet = <<>> /\ preview = <<>> /\ open = <<>> => VInv
<1>1. \A S : RunState(<<>>, S) = Begun
  BY RunOfNone
<1>2. \A S : Runs(<<>>, S) = <<>>
  BY <1>1, RunsSplit DEF Begun
<1>3. NoBlockInside(<<>>)
  BY DEF NoBlockInside
<1> QED
  BY <1>1, <1>2, <1>3, EmptySeq DEF VInv, VTypes

LEMMA VInvSteps ==
    ASSUME FInv, FInv', PlainParagraphs, CleanData, VInv, [PNext]_pvars
    PROVE  VInv'
<1>1. ASSUME NEW t \in Tags, OpenElement(t) PROVE VInv'
  BY <1>1, VInvVoid, VInvBlock, VInvInline
<1>2. ASSUME NEW t \in Tags, StrayEnd(t) PROVE VInv'
  <2>1. UNCHANGED <<snippet, preview, open>>
    BY <1>2 DEF StrayEnd, HandleEndtag, tree
  <2> QED
    BY <2>1, PreviewKept DEF VInv, NoBlockInside
<1>3. CASE CloseElement
  BY <1>3, VInvClose
<1>4. ASSUME NEW d \in Data, Text(d) PROVE VInv'
  BY <1>4, VInvText
<1>5. ASSUME NEW u, NEW o, NEW d, IndexPage(u, o, d) PROVE VInv'
  <2>1. (snippet = <<>> /\ preview = <<>> /\ open = <<>>)'
    BY <1>5 DEF IndexPage, Renew
  <2> QED
    BY <2>1, VInvFresh, PTL
<1>6. ASSUME Export \/ Import \/ UNCHANGED pvars PROVE VInv'
  <2>1. UNCHANGED <<snippet, preview, open>>
    BY <1>6 DEF Export, Import, pvars, parser, tree
  <2> QED
    BY <2>1, PreviewKept DEF VInv, NoBlockInside
<1> QED
  BY <1>1, <1>2, <1>3, <1>4, <1>5, <1>6 DEF PNext, Parse, ParserEvent

LEMMA SnippetOfVInv == VInv => SnippetIsParagraphs
<1> SUFFICES ASSUME VInv PROVE SnippetIsParagraphs
  OBVIOUS
<1>1. snippet \in Seq(Readable) /\ "<" \notin Readable /\ "space" \in Readable
  BY CharsOfMarks DEF VInv, VTypes, Readable
<1>2. Runs(GetSnippet, Blanks) = Runs(snippet, Blanks)
  BY <1>1, SanitizeKeepsRuns DEF GetSnippet
<1> QED
  BY <1>2 DEF SnippetIsParagraphs, VInv

\* get_snippet() promises the paragraphs of the page without its boilerplate.  handle_data()
\* decides by a flag and a counter, and only start tags put spaces into the snippet; yet
\* for every page whose blocks are the parser's, whose links have no line breaks in them
\* and whose text has no "<" from an entity, the preview has the words of the paragraphs
\* outside headers and links, each whole and in order, and no other.
THEOREM SnippetIsTheParagraphs ==
    ASSUME PlainParagraphs, CleanData
    PROVE  PSpec => []SnippetIsParagraphs
<1>1. PInit => FInv /\ VInv
  BY FInvFresh, VInvFresh DEF PInit, Fresh, NothingRead
<1>2. FInv /\ VInv /\ [PNext]_pvars => (FInv /\ VInv)'
  BY FInvSteps, VInvSteps DEF PlainParagraphs, Rendered
<1> QED
  BY <1>1, <1>2, SnippetOfVInv, PTL DEF PSpec

-----------------------------------------------------------------------------
(* Numbers in the shard file *)

Digit == {Digits[i] : i \in 1 .. 10}

ValueOf(c) == (CHOOSE i \in DOMAIN Digits : Digits[i] = c) - 1

LEMMA DigitsDiffer ==
    /\ DOMAIN Digits = 1 .. 10 /\ ToSet(Digits) = Digit
    /\ \A i \in 0 .. 9 : Digits[i + 1] \in Digit /\ ValueOf(Digits[i + 1]) = i
    /\ \A c \in Digit : ValueOf(c) \in Nat /\ c \notin {"tab", "newline", "return"}
<1>1. DOMAIN Digits = 1 .. 10
  BY DEF Digits
<1>2. \A i, k \in 1 .. 10 : Digits[i] = Digits[k] => i = k
  BY DEF Digits
<1>3. \A i \in 1 .. 10 : (CHOOSE k \in 1 .. 10 : Digits[k] = Digits[i]) = i
  BY <1>2
<1>4. \A i \in 1 .. 10 : ValueOf(Digits[i]) = i - 1
  BY <1>1, <1>3 DEF ValueOf
<1>5. \A i \in 0 .. 9 : i + 1 \in 1 .. 10 /\ (i + 1) - 1 = i
  OBVIOUS
<1>6. \A i \in 1 .. 10 : Digits[i] \notin {"tab", "newline", "return"}
  BY DEF Digits
<1>7. \A i \in 0 .. 9 : Digits[i + 1] \in Digit /\ ValueOf(Digits[i + 1]) = i
  <2>1. ASSUME NEW i \in 0 .. 9 PROVE Digits[i + 1] \in Digit /\ ValueOf(Digits[i + 1]) = i
    <3>1. ValueOf(Digits[i + 1]) = (i + 1) - 1
      BY <1>4, <1>5
    <3> QED
      BY <1>5, <3>1 DEF Digit
  <2> QED
    BY <2>1
<1>8. \A c \in Digit : ValueOf(c) \in Nat /\ c \notin {"tab", "newline", "return"}
  <2>1. ASSUME NEW c \in Digit PROVE ValueOf(c) \in Nat /\ c \notin {"tab", "newline", "return"}
    <3>1. PICK i \in 1 .. 10 : c = Digits[i]
      BY DEF Digit
    <3>2. i - 1 \in Nat
      OBVIOUS
    <3> QED
      BY <1>4, <1>6, <3>1, <3>2
  <2> QED
    BY <2>1
<1> QED
  BY <1>1, <1>7, <1>8 DEF ToSet, Digit

\* The fold of NumberOf.
NumberFold(k, s) ==
    k = [T \in SUBSET DOMAIN s |->
            IF T = {} THEN 0 ELSE 10 * k[T \ {Max(T)}] + ValueOf(s[Max(T)])]

NumberReader == [c \in Digit |-> [v \in Nat |-> 10 * v + ValueOf(c)]]

LEMMA NumberIsFold ==
    ASSUME NEW s PROVE NumberOf(s) = (CHOOSE k : NumberFold(k, s))[DOMAIN s]
BY DEF NumberOf, FoldLeft, MapThenFoldSet, NumberFold, ValueOf

LEMMA NumberIsRead ==
    ASSUME NEW s \in Seq(Digit)
    PROVE  /\ NumberOf(s) = Read(s, Nat, 0, NumberReader)
           /\ NumberReader \in [Digit -> [Nat -> Nat]]
<1> DEFINE n == Len(s)
           F == NumberReader
           k == CHOOSE k : NumberFold(k, s)
<1>1. n \in Nat /\ DOMAIN s = 1 .. n /\ \A i \in 1 .. n : s[i] \in Digit
  BY LenProperties
<1>2. 0 \in Nat /\ F \in [Digit -> [Nat -> Nat]]
  BY DigitsDiffer DEF NumberReader
<1>3. \A c \in Digit, v \in Nat : F[c][v] = 10 * v + ValueOf(c)
  BY DEF NumberReader
<1>4. NumberOf(s) = k[1 .. n]
  BY <1>1, NumberIsFold
<1> HIDE DEF F
<1>5. PICK g : Solved(g, s, Nat, 0, F)
  BY <1>2, SequenceFoldsExist
<1>6. NumberFold(g, s)
  <2>1. ASSUME NEW T \in SUBSET (1 .. n), T # {}
        PROVE  g[T] = 10 * g[T \ {Max(T)}] + ValueOf(s[Max(T)])
    <3>1. s[Max(T)] \in Digit /\ g[T \ {Max(T)}] \in Nat
      BY <1>1, <1>5, <2>1 DEF Solved
    <3> QED
      BY <1>3, <1>5, <2>1, <3>1 DEF Solved
  <2> QED
    BY <1>1, <1>5, <2>1 DEF Solved, NumberFold
<1>7. NumberFold(k, s)
  BY <1>6
<1> HIDE DEF k
<1>8. Follows(k, s, Nat, 0, F)
  <2>1. ASSUME NEW T \in SUBSET (1 .. n), T # {}, k[T \ {Max(T)}] \in Nat
        PROVE  k[T] = F[s[Max(T)]][k[T \ {Max(T)}]]
    <3>1. s[Max(T)] \in Digit
      BY <1>1, <2>1, LargestNumber
    <3>2. k[T] = 10 * k[T \ {Max(T)}] + ValueOf(s[Max(T)])
      BY <1>1, <1>7, <2>1 DEF NumberFold
    <3> QED
      BY <1>3, <2>1, <3>1, <3>2
  <2>2. k[{}] = 0
    BY <1>1, <1>7 DEF NumberFold
  <2> QED
    BY <2>1, <2>2 DEF Follows
<1> DEFINE V == Nat
<1>9. F \in [Digit -> [V -> V]] /\ 0 \in V /\ Follows(k, s, V, 0, F)
  BY <1>2, <1>8
<1>10. k[1 .. Len(s)] = Read(s, V, 0, F)
  <2> HIDE DEF V
  <2> QED
    BY <1>9, FoldReads
<1> QED
  BY <1>2, <1>4, <1>10 DEF F

LEMMA NumberOfAppend ==
    ASSUME NEW s \in Seq(Digit), NEW c \in Digit
    PROVE  /\ NumberOf(<<>>) = 0
           /\ NumberOf(Append(s, c)) = 10 * NumberOf(s) + ValueOf(c)
<1>1. /\ <<>> \in Seq(Digit) /\ Append(s, c) \in Seq(Digit)
      /\ 0 \in Nat
  BY EmptySeq, AppendProperties
<1>2. NumberReader \in [Digit -> [Nat -> Nat]]
  BY NumberIsRead
<1>3. \A v \in Nat : NumberReader[c][v] = 10 * v + ValueOf(c)
  BY DEF NumberReader
<1>4. NumberOf(<<>>) = 0
  <2>1. NumberOf(<<>>) = Read(<<>>, Nat, 0, NumberReader)
    BY <1>1, NumberIsRead
  <2> QED
    BY <1>1, <1>2, <2>1, ReadNone
<1>5. /\ NumberOf(s) = Read(s, Nat, 0, NumberReader)
      /\ NumberOf(Append(s, c)) = Read(Append(s, c), Nat, 0, NumberReader)
  BY <1>1, NumberIsRead
<1> DEFINE V == Nat
           b == 0
<1>6. /\ Read(s, V, b, NumberReader) \in V
      /\ Read(Append(s, c), V, b, NumberReader) = NumberReader[c][Read(s, V, b, NumberReader)]
  <2>1. b \in V /\ NumberReader \in [Digit -> [V -> V]]
    BY <1>2
  <2> HIDE DEF V, b
  <2> QED
    BY <2>1, ReadAppend
<1> QED
  BY <1>3, <1>4, <1>5, <1>6

\* The decimal numerals of the numbers up to n.
Numerals(d, n) ==
    d = [m \in 0 .. n |-> IF m < 10 THEN <<Digits[m + 1]>>
                          ELSE Append(d[m \div 10], Digits[(m % 10) + 1])]

LEMMA DecimalIsNumeral == ASSUME NEW n PROVE Decimal(n) = (CHOOSE d : Numerals(d, n))[n]
BY DEF Decimal, Numerals

LEMMA NumeralsExist == \A n \in Nat : \E d : Numerals(d, n)
<1> DEFINE P == {n \in Nat : \E d : Numerals(d, n)}
<1>1. 0 \in P
  <2>1. Numerals([m \in 0 .. 0 |-> <<Digits[m + 1]>>], 0)
    BY DEF Numerals
  <2> QED
    BY <2>1
<1>2. ASSUME NEW n \in Nat, n \in P PROVE n + 1 \in P
  <2>1. PICK d : Numerals(d, n)
    BY <1>2
  <2> DEFINE last == IF n + 1 < 10 THEN <<Digits[(n + 1) + 1]>>
                     ELSE Append(d[(n + 1) \div 10], Digits[((n + 1) % 10) + 1])
             e == [m \in 0 .. n + 1 |-> IF m = n + 1 THEN last ELSE d[m]]
  <2>2. \A m \in 0 .. n + 1 : m >= 10 => m \div 10 \in 0 .. n
    OBVIOUS
  <2>3. \A m \in 0 .. n : e[m] = d[m]
    OBVIOUS
  <2>4. ASSUME NEW m \in 0 .. n + 1
        PROVE  e[m] = IF m < 10 THEN <<Digits[m + 1]>>
                      ELSE Append(e[m \div 10], Digits[(m % 10) + 1])
    <3>1. ~(m < 10) => e[m \div 10] = d[m \div 10]
      BY <2>2, <2>3
    <3>2. CASE m = n + 1
      <4>1. e[m] = last
        BY <3>2
      <4> HIDE DEF e
      <4> QED
        BY <3>1, <3>2, <4>1
    <3>3. CASE m # n + 1
      <4>1. m \in 0 .. n
        BY <3>3
      <4>2. d[m] = IF m < 10 THEN <<Digits[m + 1]>>
                   ELSE Append(d[m \div 10], Digits[(m % 10) + 1])
        BY <2>1, <4>1 DEF Numerals
      <4>3. e[m] = d[m]
        BY <2>3, <4>1
      <4> HIDE DEF e
      <4> QED
        BY <3>1, <4>2, <4>3
    <3> QED
      BY <3>2, <3>3
  <2>5. Numerals(e, n + 1)
    <3>1. e = [m \in 0 .. n + 1 |-> e[m]]
      OBVIOUS
    <3> HIDE DEF e
    <3> QED
      BY <2>4, <3>1 DEF Numerals
  <2> QED
    BY <2>5
<1> HIDE DEF P
<1>3. \A n \in Nat : n \in P
  BY <1>1, <1>2, NatSetInduction
<1> QED
  BY <1>3 DEF P

\* str() and int() are inverse to each other.
LEMMA DecimalsAreRead ==
    ASSUME NEW n \in Nat
    PROVE  /\ Decimal(n) \in Seq(Digit) \ {<<>>}
           /\ IsNumber(Decimal(n))
           /\ NumberOf(Decimal(n)) = n
<1> DEFINE d == CHOOSE d : Numerals(d, n)
           P == {j \in Nat : \A m \in 0 .. n : m <= j =>
                    d[m] \in Seq(Digit) \ {<<>>} /\ NumberOf(d[m]) = m}
<1>1. Numerals(d, n)
  BY NumeralsExist
<1> HIDE DEF d
<1>2. \A m \in 0 .. n : d[m] = IF m < 10 THEN <<Digits[m + 1]>>
                              ELSE Append(d[m \div 10], Digits[(m % 10) + 1])
  BY <1>1 DEF Numerals
<1>3. ASSUME NEW m \in 0 .. n, m < 10
      PROVE  d[m] \in Seq(Digit) \ {<<>>} /\ NumberOf(d[m]) = m
  <2>1. m \in 0 .. 9
    BY <1>3
  <2>2. Digits[m + 1] \in Digit /\ ValueOf(Digits[m + 1]) = m
    BY <2>1, DigitsDiffer
  <2>3. d[m] = Append(<<>>, Digits[m + 1])
    <3>1. d[m] = <<Digits[m + 1]>>
      BY ONLY <1>2, <1>3, m \in 0 .. n
    <3>2. \A c : <<c>> = Append(<<>>, c)
      OBVIOUS
    <3> QED
      BY <3>1, <3>2
  <2>4. <<>> \in Seq(Digit)
    BY EmptySeq
  <2>5. NumberOf(<<>>) = 0 /\ NumberOf(d[m]) = 10 * NumberOf(<<>>) + m
    BY <2>2, <2>3, <2>4, NumberOfAppend
  <2> QED
    BY <2>2, <2>3, <2>4, <2>5, AppendProperties
<1>4. 0 \in P
  BY <1>3
<1>5. ASSUME NEW j \in Nat, j \in P PROVE j + 1 \in P
  <2>1. ASSUME NEW m \in 0 .. n, m <= j + 1, ~(m < 10)
        PROVE  d[m] \in Seq(Digit) \ {<<>>} /\ NumberOf(d[m]) = m
    <3> DEFINE q == m \div 10
               r == m % 10
    <3>1. q \in 0 .. n /\ q <= j /\ r \in 0 .. 9 /\ m = 10 * q + r
      BY <2>1
    <3>2. d[m] = Append(d[q], Digits[r + 1])
      BY <1>2, <2>1
    <3> HIDE DEF q, r
    <3>3. d[q] \in Seq(Digit) /\ NumberOf(d[q]) = q
      BY <1>5, <3>1
    <3>4. Digits[r + 1] \in Digit /\ ValueOf(Digits[r + 1]) = r
      BY <3>1, DigitsDiffer
    <3>5. NumberOf(d[m]) = 10 * q + r
      BY <3>2, <3>3, <3>4, NumberOfAppend
    <3>6. d[m] \in Seq(Digit) /\ d[m] # <<>>
      BY <3>2, <3>3, <3>4, AppendProperties
    <3> QED
      BY <3>1, <3>5, <3>6
  <2> QED
    BY <1>3, <2>1
<1> HIDE DEF P
<1>6. n \in P
  BY <1>4, <1>5, NatSetInduction
<1>7. d[n] \in Seq(Digit) \ {<<>>} /\ NumberOf(d[n]) = n
  BY <1>6 DEF P
<1>8. ToSet(d[n]) \subseteq ToSet(Digits)
  <2>1. \A i \in DOMAIN d[n] : d[n][i] \in Digit
    BY <1>7, LenProperties
  <2> QED
    BY <2>1, DigitsDiffer DEF ToSet
<1>9. Decimal(n) = d[n]
  BY DecimalIsNumeral DEF d
<1> QED
  BY <1>7, <1>8, <1>9 DEF IsNumber

-----------------------------------------------------------------------------
(* Character by character *)

Rewritten(s, G) == FlattenSeq([i \in DOMAIN s |-> G[s[i]]])

IsCharMap(G, A, B) == G \in [A -> Seq(B)]

LEMMA RewrittenNone == \A G : Rewritten(<<>>, G) = <<>>
<1>1. \A G : [i \in DOMAIN <<>> |-> G[<<>>[i]]] = <<>>
  OBVIOUS
<1> QED
  BY <1>1, FlattenNone DEF Rewritten

LEMMA RewrittenAppend ==
    ASSUME NEW A, NEW B, NEW G, IsCharMap(G, A, B), NEW s \in Seq(A), NEW c \in A
    PROVE  /\ Rewritten(s, G) \in Seq(B)
           /\ Rewritten(Append(s, c), G) = Rewritten(s, G) \o G[c]
<1> DEFINE n == Len(s)
           t == Append(s, c)
           M(u) == [i \in DOMAIN u |-> G[u[i]]]
<1>0. \A x \in A : G[x] \in Seq(B)
  BY DEF IsCharMap
<1>1. n \in Nat /\ DOMAIN s = 1 .. n /\ \A i \in 1 .. n : s[i] \in A
  BY LenProperties
<1>2. /\ t \in Seq(A) /\ Len(t) = n + 1 /\ DOMAIN t = 1 .. n + 1
      /\ \A i \in 1 .. n : t[i] = s[i]
      /\ t[n + 1] = c
  BY AppendProperties, LenProperties
<1> HIDE DEF t, n
<1>3. /\ M(s) \in Seq(Seq(B)) /\ Len(M(s)) = n
      /\ \A i \in 1 .. n : M(s)[i] = G[s[i]]
  BY <1>0, <1>1
<1>4. /\ M(t) \in Seq(Seq(B)) /\ Len(M(t)) = n + 1
      /\ \A i \in 1 .. n + 1 : M(t)[i] = G[t[i]]
  <2>1. \A i \in 1 .. n + 1 : t[i] \in A
    BY <1>2, LenProperties
  <2>2. \A i \in 1 .. n + 1 : G[t[i]] \in Seq(B)
    BY <1>0, <2>1
  <2> QED
    BY <1>1, <1>2, <2>2
<1>5. G[c] \in Seq(B)
  BY <1>0
<1> HIDE DEF M
<1>6. M(t) = Append(M(s), G[c])
  <2> DEFINE W == Seq(B)
             x == G[c]
  <2>1. M(s) \in Seq(W) /\ x \in W /\ M(t) \in Seq(W)
    BY <1>3, <1>4, <1>5
  <2> HIDE DEF W, x
  <2> DEFINE longer == Append(M(s), x)
  <2>2. /\ longer \in Seq(W) /\ Len(longer) = n + 1
        /\ \A i \in 1 .. n : longer[i] = M(s)[i]
        /\ longer[n + 1] = x
    BY <1>3, <2>1, AppendProperties
  <2> HIDE DEF longer
  <2>3. \A i \in 1 .. n + 1 : i \in 1 .. n \/ i = n + 1
    BY <1>1
  <2>4. ASSUME NEW i \in 1 .. n + 1 PROVE M(t)[i] = longer[i]
    <3>1. CASE i \in 1 .. n
      <4>1. M(t)[i] = G[t[i]] /\ t[i] = s[i]
        BY <1>2, <1>4, <3>1
      <4>2. M(s)[i] = G[s[i]] /\ longer[i] = M(s)[i]
        BY <1>3, <2>2, <3>1
      <4> QED
        BY <4>1, <4>2
    <3>2. CASE i = n + 1
      <4>1. M(t)[i] = G[c]
        BY <1>2, <1>4, <3>2
      <4> QED
        BY <2>2, <3>2, <4>1 DEF x
    <3> QED
      BY <2>3, <3>1, <3>2
  <2>5. M(t) = longer
    BY <1>4, <2>1, <2>2, <2>4, SeqEqual
  <2> QED
    BY <2>5 DEF x, longer
<1>7. Rewritten(s, G) = FlattenSeq(M(s)) /\ Rewritten(t, G) = FlattenSeq(M(t))
  BY DEF Rewritten, M
<1> QED
  BY <1>3, <1>5, <1>6, <1>7, FlattenAppend DEF t

LEMMA RewrittenOne ==
    ASSUME NEW A, NEW B, NEW G, IsCharMap(G, A, B), NEW c \in A
    PROVE  Rewritten(<<c>>, G) = G[c]
<1>1. <<>> \in Seq(A) /\ Append(<<>>, c) = <<c>>
  BY EmptySeq
<1>2. Rewritten(Append(<<>>, c), G) = Rewritten(<<>>, G) \o G[c]
  <2>1. \A e \in Seq(A) : Rewritten(Append(e, c), G) = Rewritten(e, G) \o G[c]
    BY RewrittenAppend
  <2> QED
    BY <1>1, <2>1
<1>3. G[c] \in Seq(B)
  BY DEF IsCharMap
<1> QED
  BY <1>1, <1>2, <1>3, RewrittenNone, ConcatEmptySeq

LEMMA RewrittenConcat ==
    ASSUME NEW A, NEW B, NEW G, IsCharMap(G, A, B), NEW s \in Seq(A)
    PROVE  \A d \in Seq(A) : Rewritten(s \o d, G) = Rewritten(s, G) \o Rewritten(d, G)
<1> DEFINE P == {d \in Seq(A) : Rewritten(s \o d, G) = Rewritten(s, G) \o Rewritten(d, G)}
<1>1. \A u \in Seq(A), c \in A :
        Rewritten(u, G) \in Seq(B) /\ Rewritten(Append(u, c), G) = Rewritten(u, G) \o G[c]
  BY RewrittenAppend
<1>2. Rewritten(s, G) \in Seq(B)
  <2>1. CASE A = {}
    <3>1. s = <<>>
      <4>1. Len(s) \in Nat /\ \A i \in 1 .. Len(s) : s[i] \in A
        BY LenProperties
      <4>2. Len(s) = 0
        BY <2>1, <4>1
      <4> QED
        BY <4>2, EmptySeq
    <3> QED
      BY <3>1, RewrittenNone, EmptySeq
  <2>2. CASE A # {}
    BY <1>1, <2>2
  <2> QED
    BY <2>1, <2>2
<1>3. <<>> \in P
  <2>1. s \o <<>> = s /\ <<>> \in Seq(A)
    BY ConcatEmptySeq, EmptySeq
  <2>2. Rewritten(s, G) \o <<>> = Rewritten(s, G)
    BY <1>2, ConcatEmptySeq
  <2> QED
    BY <2>1, <2>2, RewrittenNone
<1>4. ASSUME NEW d \in Seq(A), NEW c \in A, d \in P PROVE Append(d, c) \in P
  <2>1. s \o Append(d, c) = Append(s \o d, c)
    BY AppendOfConcat
  <2>2. s \o d \in Seq(A) /\ Append(d, c) \in Seq(A)
    BY ConcatProperties, AppendProperties
  <2>3. Rewritten(s \o Append(d, c), G) = (Rewritten(s, G) \o Rewritten(d, G)) \o G[c]
    BY <1>1, <1>4, <2>1, <2>2
  <2>4. Rewritten(d, G) \in Seq(B) /\ G[c] \in Seq(B)
    BY <1>1 DEF IsCharMap
  <2>5. (Rewritten(s, G) \o Rewritten(d, G)) \o G[c] = Rewritten(s, G) \o (Rewritten(d, G) \o G[c])
    <3> DEFINE x == Rewritten(s, G)
               y == Rewritten(d, G)
               z == G[c]
    <3>1. x \in Seq(B) /\ y \in Seq(B) /\ z \in Seq(B)
      BY <1>2, <2>4
    <3> HIDE DEF x, y, z
    <3>2. (x \o y) \o z = x \o (y \o z)
      BY <3>1, ConcatAssociative
    <3> QED
      BY <3>2 DEF x, y, z
  <2> QED
    BY <1>1, <2>2, <2>3, <2>5
<1> HIDE DEF P
<1>5. \A d \in Seq(A) : d \in P
  BY <1>3, <1>4, SequenceInduction
<1> QED
  BY <1>5 DEF P

\* What changes no character changes no text.
LEMMA RewrittenSame ==
    ASSUME NEW A, NEW G, \A c \in A : G[c] = <<c>>
    PROVE  \A s \in Seq(A) : Rewritten(s, G) = s
<1> DEFINE H == [c \in A |-> <<c>>]
           P == {s \in Seq(A) : Rewritten(s, H) = s}
<1>1. IsCharMap(H, A, A) /\ \A c \in A : H[c] = <<c>>
  BY DEF IsCharMap
<1>2. <<>> \in P
  BY RewrittenNone, EmptySeq
<1>3. ASSUME NEW s \in Seq(A), NEW c \in A, s \in P PROVE Append(s, c) \in P
  <2> HIDE DEF H
  <2>1. Rewritten(Append(s, c), H) = Rewritten(s, H) \o H[c]
    BY <1>1, RewrittenAppend
  <2>2. Append(s, c) = s \o <<c>>
    BY AppendIsConcat
  <2> QED
    BY <1>1, <1>3, <2>1, <2>2, AppendProperties
<1> HIDE DEF P
<1>4. \A s \in Seq(A) : s \in P
  BY <1>2, <1>3, SequenceInduction
<1>5. ASSUME NEW s \in Seq(A) PROVE Rewritten(s, G) = Rewritten(s, H)
  <2>1. \A i \in DOMAIN s : s[i] \in A
    BY LenProperties
  <2>2. \A i \in DOMAIN s : G[s[i]] = H[s[i]]
    BY <2>1, <1>1
  <2> HIDE DEF H
  <2>3. [i \in DOMAIN s |-> G[s[i]]] = [i \in DOMAIN s |-> H[s[i]]]
    BY <2>2
  <2> QED
    BY <2>3 DEF Rewritten
<1> QED
  BY <1>4, <1>5 DEF P

-----------------------------------------------------------------------------
(* Escaping *)

Special == {"backslash", "tab", "return", "newline", "t", "r", "n"}

Replacer(A, c, r) == [x \in A |-> IF x = c THEN r ELSE <<x>>]

LEMMA ReplacedIsRewritten ==
    ASSUME NEW A, NEW s \in Seq(A), NEW c, NEW r
    PROVE  Replaced(s, c, r) = Rewritten(s, Replacer(A, c, r))
<1>1. \A i \in DOMAIN s : s[i] \in A
  BY LenProperties
<1>2. \A i \in DOMAIN s : Replacer(A, c, r)[s[i]] = IF s[i] = c THEN r ELSE <<s[i]>>
  BY <1>1 DEF Replacer
<1>3. [i \in DOMAIN s |-> Replacer(A, c, r)[s[i]]]
        = [i \in DOMAIN s |-> IF s[i] = c THEN r ELSE <<s[i]>>]
  BY <1>2
<1> QED
  BY <1>3 DEF Replaced, Rewritten

IsReplacement(A, c, r) == c \in A /\ r \in Seq(A)

LEMMA ReplacedType ==
    ASSUME NEW A, NEW c, NEW r, IsReplacement(A, c, r), NEW s \in Seq(A)
    PROVE  Replaced(s, c, r) \in Seq(A)
<1> DEFINE G == Replacer(A, c, r)
<1>1. IsCharMap(G, A, A) /\ c \in A
  BY DEF Replacer, IsCharMap, IsReplacement
<1>2. Replaced(s, c, r) = Rewritten(s, G)
  BY ReplacedIsRewritten
<1> HIDE DEF G
<1> QED
  BY <1>1, <1>2, RewrittenAppend

LEMMA ReplacedConcat ==
    ASSUME NEW A, NEW c, NEW r, IsReplacement(A, c, r), NEW s \in Seq(A)
    PROVE  \A d \in Seq(A) : Replaced(s \o d, c, r) = Replaced(s, c, r) \o Replaced(d, c, r)
<1> DEFINE G == Replacer(A, c, r)
<1>1. IsCharMap(G, A, A) /\ c \in A
  BY DEF Replacer, IsCharMap, IsReplacement
<1>2. \A d \in Seq(A) : s \o d \in Seq(A)
  BY ConcatProperties
<1>3. \A u \in Seq(A) : Replaced(u, c, r) = Rewritten(u, G)
  BY ReplacedIsRewritten
<1> HIDE DEF G
<1>4. \A d \in Seq(A) : Rewritten(s \o d, G) = Rewritten(s, G) \o Rewritten(d, G)
  BY <1>1, RewrittenConcat
<1>5. ASSUME NEW d \in Seq(A)
      PROVE  Replaced(s \o d, c, r) = Replaced(s, c, r) \o Replaced(d, c, r)
  <2>1. Replaced(s \o d, c, r) = Rewritten(s \o d, G)
    BY <1>2, <1>3
  <2>2. Rewritten(s \o d, G) = Rewritten(s, G) \o Rewritten(d, G)
    BY <1>4
  <2>3. Replaced(s, c, r) = Rewritten(s, G) /\ Replaced(d, c, r) = Rewritten(d, G)
    BY <1>3
  <2> QED
    BY <2>1, <2>2, <2>3
<1> QED
  BY <1>5

LEMMA ReplacedOne ==
    ASSUME NEW A, NEW x \in A, NEW c \in A, NEW r \in Seq(A)
    PROVE  Replaced(<<x>>, c, r) = IF x = c THEN r ELSE <<x>>
<1> DEFINE G == Replacer(A, c, r)
<1>1. IsCharMap(G, A, A) /\ G[x] = IF x = c THEN r ELSE <<x>>
  BY DEF Replacer, IsCharMap
<1>2. <<x>> \in Seq(A)
  OBVIOUS
<1>3. Replaced(<<x>>, c, r) = Rewritten(<<x>>, G)
  BY <1>2, ReplacedIsRewritten
<1> HIDE DEF G
<1>4. Rewritten(<<x>>, G) = G[x]
  BY <1>1, RewrittenOne
<1> QED
  BY <1>1, <1>3, <1>4

LEMMA ReplacedAbsent ==
    ASSUME NEW A, NEW c, c \notin A, NEW r, NEW s \in Seq(A)
    PROVE  Replaced(s, c, r) = s
<1>1. \A x \in A : Replacer(A, c, r)[x] = <<x>>
  BY DEF Replacer
<1>2. Rewritten(s, Replacer(A, c, r)) = s
  BY <1>1, RewrittenSame
<1> QED
  BY <1>2, ReplacedIsRewritten

\* What becomes of a character.
Escaped(c) ==
    CASE c = "backslash" -> <<"backslash", "backslash">>
      [] c = "tab" -> <<"backslash", "t">>
      [] c = "return" -> <<"backslash", "r">>
      [] c = "newline" -> <<"backslash", "n">>
      [] OTHER -> <<c>>

LEMMA EncodeOne ==
    ASSUME NEW A, Special \subseteq A, NEW c \in A
    PROVE  EncodeField(<<c>>) = Escaped(c)
<1>1. /\ "backslash" \in A /\ "tab" \in A /\ "return" \in A /\ "newline" \in A
      /\ "t" \in A /\ "r" \in A /\ "n" \in A
  BY DEF Special
<1>2. \A x \in A, y \in A : <<x, y>> \in Seq(A)
  OBVIOUS
<1>3. \A x \in A : \A d \in A : \A r \in Seq(A) : Replaced(<<x>>, d, r) = IF x = d THEN r ELSE <<x>>
  BY ReplacedOne
<1>4. ASSUME NEW x, NEW y, NEW d, NEW r, x # d, y # d PROVE Replaced(<<x, y>>, d, r) = <<x, y>>
  <2>1. <<x, y>> \in Seq({x, y})
    OBVIOUS
  <2>2. d \notin {x, y}
    BY <1>4
  <2> QED
    BY <2>1, <2>2, ReplacedAbsent
<1> DEFINE R1(s) == Replaced(s, "backslash", <<"backslash", "backslash">>)
           R2(s) == Replaced(s, "tab", <<"backslash", "t">>)
           R3(s) == Replaced(s, "return", <<"backslash", "r">>)
           R4(s) == Replaced(s, "newline", <<"backslash", "n">>)
<1>5. EncodeField(<<c>>) = R4(R3(R2(R1(<<c>>))))
  BY DEF EncodeField
<1>6. \A x \in A :
        /\ R1(<<x>>) = IF x = "backslash" THEN <<"backslash", "backslash">> ELSE <<x>>
        /\ R2(<<x>>) = IF x = "tab" THEN <<"backslash", "t">> ELSE <<x>>
        /\ R3(<<x>>) = IF x = "return" THEN <<"backslash", "r">> ELSE <<x>>
        /\ R4(<<x>>) = IF x = "newline" THEN <<"backslash", "n">> ELSE <<x>>
  BY <1>1, <1>2, <1>3
<1>7. /\ R2(<<"backslash", "backslash">>) = <<"backslash", "backslash">>
      /\ R3(<<"backslash", "backslash">>) = <<"backslash", "backslash">>
      /\ R4(<<"backslash", "backslash">>) = <<"backslash", "backslash">>
      /\ R3(<<"backslash", "t">>) = <<"backslash", "t">>
      /\ R4(<<"backslash", "t">>) = <<"backslash", "t">>
      /\ R4(<<"backslash", "r">>) = <<"backslash", "r">>
  BY <1>4
<1> HIDE DEF R1, R2, R3, R4
<1>8. CASE c = "backslash"
  BY <1>5, <1>6, <1>7, <1>8 DEF Escaped
<1>9. CASE c = "tab"
  BY <1>5, <1>6, <1>7, <1>9 DEF Escaped
<1>10. CASE c = "return"
  BY <1>5, <1>6, <1>7, <1>10 DEF Escaped
<1>11. CASE c = "newline"
  BY <1>5, <1>6, <1>7, <1>11 DEF Escaped
<1>12. CASE c \notin {"backslash", "tab", "return", "newline"}
  BY <1>5, <1>6, <1>12 DEF Escaped
<1> QED
  BY <1>8, <1>9, <1>10, <1>11, <1>12

LEMMA EncodeNone == EncodeField(<<>>) = <<>>
<1>1. \A c, r : Replaced(<<>>, c, r) = <<>>
  BY FlattenNone DEF Replaced
<1> QED
  BY <1>1 DEF EncodeField

LEMMA EncodeAppend ==
    ASSUME NEW A, Special \subseteq A, NEW s \in Seq(A), NEW c \in A
    PROVE  /\ EncodeField(s) \in Seq(A)
           /\ EncodeField(Append(s, c)) = EncodeField(s) \o Escaped(c)
<1>1. /\ "backslash" \in A /\ "tab" \in A /\ "return" \in A /\ "newline" \in A
      /\ "t" \in A /\ "r" \in A /\ "n" \in A
  BY DEF Special
<1>2. \A x \in A, y \in A : <<x, y>> \in Seq(A)
  OBVIOUS
<1>3. Append(s, c) = s \o <<c>> /\ <<c>> \in Seq(A)
  BY AppendIsConcat
<1>4. /\ IsReplacement(A, "backslash", <<"backslash", "backslash">>)
      /\ IsReplacement(A, "tab", <<"backslash", "t">>)
      /\ IsReplacement(A, "return", <<"backslash", "r">>)
      /\ IsReplacement(A, "newline", <<"backslash", "n">>)
  BY <1>1, <1>2 DEF IsReplacement
<1> DEFINE R1(u) == Replaced(u, "backslash", <<"backslash", "backslash">>)
           R2(u) == Replaced(u, "tab", <<"backslash", "t">>)
           R3(u) == Replaced(u, "return", <<"backslash", "r">>)
           R4(u) == Replaced(u, "newline", <<"backslash", "n">>)
<1>5. \A u : EncodeField(u) = R4(R3(R2(R1(u))))
  BY DEF EncodeField
<1>6. ASSUME NEW u \in Seq(A)
      PROVE  /\ R1(u) \in Seq(A) /\ \A v \in Seq(A) : R1(u \o v) = R1(u) \o R1(v)
             /\ R2(u) \in Seq(A) /\ \A v \in Seq(A) : R2(u \o v) = R2(u) \o R2(v)
             /\ R3(u) \in Seq(A) /\ \A v \in Seq(A) : R3(u \o v) = R3(u) \o R3(v)
             /\ R4(u) \in Seq(A) /\ \A v \in Seq(A) : R4(u \o v) = R4(u) \o R4(v)
  <2>1. R1(u) \in Seq(A) /\ \A v \in Seq(A) : R1(u \o v) = R1(u) \o R1(v)
    <3> DEFINE x == "backslash"
               y == <<"backslash", "backslash">>
    <3>1. IsReplacement(A, x, y)
      BY <1>4
    <3>2. \A v : R1(v) = Replaced(v, x, y)
      OBVIOUS
    <3> HIDE DEF x, y, R1
    <3>3. Replaced(u, x, y) \in Seq(A)
      BY <3>1, ReplacedType
    <3>4. \A v \in Seq(A) : Replaced(u \o v, x, y) = Replaced(u, x, y) \o Replaced(v, x, y)
      BY <3>1, ReplacedConcat
    <3> QED
      BY <3>2, <3>3, <3>4
  <2>2. R2(u) \in Seq(A) /\ \A v \in Seq(A) : R2(u \o v) = R2(u) \o R2(v)
    <3> DEFINE x == "tab"
               y == <<"backslash", "t">>
    <3>1. IsReplacement(A, x, y)
      BY <1>4
    <3>2. \A v : R2(v) = Replaced(v, x, y)
      OBVIOUS
    <3> HIDE DEF x, y, R2
    <3>3. Replaced(u, x, y) \in Seq(A)
      BY <3>1, ReplacedType
    <3>4. \A v \in Seq(A) : Replaced(u \o v, x, y) = Replaced(u, x, y) \o Replaced(v, x, y)
      BY <3>1, ReplacedConcat
    <3> QED
      BY <3>2, <3>3, <3>4
  <2>3. R3(u) \in Seq(A) /\ \A v \in Seq(A) : R3(u \o v) = R3(u) \o R3(v)
    <3> DEFINE x == "return"
               y == <<"backslash", "r">>
    <3>1. IsReplacement(A, x, y)
      BY <1>4
    <3>2. \A v : R3(v) = Replaced(v, x, y)
      OBVIOUS
    <3> HIDE DEF x, y, R3
    <3>3. Replaced(u, x, y) \in Seq(A)
      BY <3>1, ReplacedType
    <3>4. \A v \in Seq(A) : Replaced(u \o v, x, y) = Replaced(u, x, y) \o Replaced(v, x, y)
      BY <3>1, ReplacedConcat
    <3> QED
      BY <3>2, <3>3, <3>4
  <2>4. R4(u) \in Seq(A) /\ \A v \in Seq(A) : R4(u \o v) = R4(u) \o R4(v)
    <3> DEFINE x == "newline"
               y == <<"backslash", "n">>
    <3>1. IsReplacement(A, x, y)
      BY <1>4
    <3>2. \A v : R4(v) = Replaced(v, x, y)
      OBVIOUS
    <3> HIDE DEF x, y, R4
    <3>3. Replaced(u, x, y) \in Seq(A)
      BY <3>1, ReplacedType
    <3>4. \A v \in Seq(A) : Replaced(u \o v, x, y) = Replaced(u, x, y) \o Replaced(v, x, y)
      BY <3>1, ReplacedConcat
    <3> QED
      BY <3>2, <3>3, <3>4
  <2> HIDE DEF R1, R2, R3, R4
  <2> QED
    BY <2>1, <2>2, <2>3, <2>4
<1> HIDE DEF R1, R2, R3, R4
<1>7. R1(s) \in Seq(A) /\ R1(<<c>>) \in Seq(A) /\ R1(s \o <<c>>) = R1(s) \o R1(<<c>>)
  BY <1>3, <1>6
<1>8. R2(R1(s)) \in Seq(A) /\ R2(R1(<<c>>)) \in Seq(A)
      /\ R2(R1(s) \o R1(<<c>>)) = R2(R1(s)) \o R2(R1(<<c>>))
  BY <1>6, <1>7
<1>9. R3(R2(R1(s))) \in Seq(A) /\ R3(R2(R1(<<c>>))) \in Seq(A)
      /\ R3(R2(R1(s)) \o R2(R1(<<c>>))) = R3(R2(R1(s))) \o R3(R2(R1(<<c>>)))
  BY <1>6, <1>8
<1>10. EncodeField(s) \in Seq(A) /\ EncodeField(s \o <<c>>) = EncodeField(s) \o EncodeField(<<c>>)
  <2>1. /\ R4(R3(R2(R1(s)))) \in Seq(A)
        /\ R4(R3(R2(R1(s))) \o R3(R2(R1(<<c>>)))) = R4(R3(R2(R1(s)))) \o R4(R3(R2(R1(<<c>>))))
    BY <1>6, <1>9
  <2>2. R4(R3(R2(R1(s \o <<c>>)))) = R4(R3(R2(R1(s))) \o R3(R2(R1(<<c>>))))
    BY <1>7, <1>8, <1>9
  <2> QED
    BY <1>5, <2>1, <2>2
<1> QED
  BY <1>3, <1>10, EncodeOne

\* An encoded field has none of the characters that end a field or a line.
LEMMA EncodedIsPlain ==
    ASSUME NEW A, Special \subseteq A
    PROVE  \A s \in Seq(A) : /\ EncodeField(s) \in Seq(A \ {"tab", "return", "newline"})
                             /\ EncodeField(s) = <<>> <=> s = <<>>
<1> DEFINE B == A \ {"tab", "return", "newline"}
           P == {s \in Seq(A) : /\ EncodeField(s) \in Seq(B)
                                /\ EncodeField(s) = <<>> <=> s = <<>>}
<1>1. <<>> \in P
  BY EncodeNone, EmptySeq
<1>2. ASSUME NEW s \in Seq(A), NEW c \in A, s \in P PROVE Append(s, c) \in P
  <2>1. "backslash" \in B /\ "t" \in B /\ "r" \in B /\ "n" \in B
    BY DEF Special
  <2>2. c \in B \/ c \in {"tab", "return", "newline"}
    OBVIOUS
  <2> HIDE DEF B
  <2>3. \A x, y \in B : <<x, y>> \in Seq(B) /\ <<x, y>> # <<>>
    OBVIOUS
  <2>4. \A x \in B : <<x>> \in Seq(B) /\ <<x>> # <<>>
    OBVIOUS
  <2>5. Escaped(c) \in Seq(B) /\ Escaped(c) # <<>>
    <3>1. CASE c = "backslash"
      BY <2>1, <2>3, <3>1 DEF Escaped
    <3>2. CASE c = "tab"
      BY <2>1, <2>3, <3>2 DEF Escaped
    <3>3. CASE c = "return"
      BY <2>1, <2>3, <3>3 DEF Escaped
    <3>4. CASE c = "newline"
      BY <2>1, <2>3, <3>4 DEF Escaped
    <3>5. CASE c \notin {"backslash", "tab", "return", "newline"}
      BY <2>2, <2>4, <3>5 DEF Escaped
    <3> QED
      BY <3>1, <3>2, <3>3, <3>4, <3>5
  <2>6. EncodeField(Append(s, c)) = EncodeField(s) \o Escaped(c)
    BY EncodeAppend
  <2>7. EncodeField(s) \in Seq(B)
    BY <1>2
  <2>8. EncodeField(s) \o Escaped(c) \in Seq(B) /\ EncodeField(s) \o Escaped(c) # <<>>
    BY <2>5, <2>7, ConcatProperties, ConcatEqualIffEmpty
  <2> QED
    BY <2>6, <2>8, AppendProperties
<1> HIDE DEF P
<1>3. \A s \in Seq(A) : s \in P
  BY <1>1, <1>2, SequenceInduction
<1> QED
  BY <1>3 DEF P

-----------------------------------------------------------------------------
(* Unescaping *)

Unread == [out |-> <<>>, escaped |-> FALSE]

DecodeStep(a, c) ==
    IF a.escaped THEN [out |-> Append(a.out, Unescaped(c)), escaped |-> FALSE]
    ELSE IF c = "backslash" THEN [a EXCEPT !.escaped = TRUE]
    ELSE [a EXCEPT !.out = Append(@, c)]

Decodings(A) == [out : Seq(A), escaped : BOOLEAN]

DecodeReader(A) == [c \in A |-> [a \in Decodings(A) |-> DecodeStep(a, c)]]

DecodeFold(k, s) ==
    k = [T \in SUBSET DOMAIN s |->
            IF T = {} THEN Unread ELSE DecodeStep(k[T \ {Max(T)}], s[Max(T)])]

DecodeState(s) == (CHOOSE k : DecodeFold(k, s))[DOMAIN s]

LEMMA DecodeIsFold ==
    ASSUME NEW s
    PROVE  DecodeField(s) = IF DecodeState(s).escaped THEN Append(DecodeState(s).out, "backslash")
                            ELSE DecodeState(s).out
BY DEF DecodeField, FoldLeft, MapThenFoldSet, DecodeState, DecodeFold, DecodeStep, Unread

LEMMA DecodeStepType ==
    ASSUME NEW A, Special \subseteq A
    PROVE  Unread \in Decodings(A) /\ DecodeReader(A) \in [A -> [Decodings(A) -> Decodings(A)]]
<1>1. <<>> \in Seq(A)
  BY EmptySeq
<1>2. ASSUME NEW a \in Decodings(A), NEW c \in A PROVE DecodeStep(a, c) \in Decodings(A)
  <2>1. a.out \in Seq(A) /\ a.escaped \in BOOLEAN
    BY DEF Decodings
  <2>2. Unescaped(c) \in A
    BY DEF Unescaped, Special
  <2>3. Append(a.out, c) \in Seq(A) /\ Append(a.out, Unescaped(c)) \in Seq(A)
    BY <2>1, <2>2, AppendProperties
  <2>4. a = [out |-> a.out, escaped |-> a.escaped]
    BY DEF Decodings
  <2> HIDE DEF Unescaped
  <2>5. CASE a.escaped
    BY <2>3, <2>5 DEF DecodeStep, Decodings
  <2>6. CASE ~a.escaped /\ c = "backslash"
    <3>1. DecodeStep(a, c) = [out |-> a.out, escaped |-> TRUE]
      BY <2>4, <2>6 DEF DecodeStep
    <3> QED
      BY <2>1, <3>1 DEF Decodings
  <2>7. CASE ~a.escaped /\ c # "backslash"
    <3>1. DecodeStep(a, c) = [out |-> Append(a.out, c), escaped |-> a.escaped]
      BY <2>4, <2>7 DEF DecodeStep
    <3> QED
      BY <2>1, <2>3, <3>1 DEF Decodings
  <2> QED
    BY <2>5, <2>6, <2>7
<1> QED
  BY <1>1, <1>2 DEF Unread, Decodings, DecodeReader

LEMMA DecodeStateIsRead ==
    ASSUME NEW A, Special \subseteq A, NEW s \in Seq(A)
    PROVE  DecodeState(s) = Read(s, Decodings(A), Unread, DecodeReader(A))
<1> DEFINE n == Len(s)
           V == Decodings(A)
           F == DecodeReader(A)
           k == CHOOSE k : DecodeFold(k, s)
<1>1. n \in Nat /\ DOMAIN s = 1 .. n /\ \A i \in 1 .. n : s[i] \in A
  BY LenProperties
<1>2. Unread \in V /\ F \in [A -> [V -> V]]
  BY DecodeStepType
<1>3. \A c \in A, a \in V : F[c][a] = DecodeStep(a, c)
  BY DEF DecodeReader
<1>4. DecodeState(s) = k[1 .. n]
  BY <1>1 DEF DecodeState
<1> HIDE DEF V, F
<1>5. PICK g : Solved(g, s, V, Unread, F)
  BY <1>2, SequenceFoldsExist
<1>6. DecodeFold(g, s)
  <2>1. ASSUME NEW T \in SUBSET (1 .. n), T # {}
        PROVE  g[T] = DecodeStep(g[T \ {Max(T)}], s[Max(T)])
    <3>1. s[Max(T)] \in A /\ g[T \ {Max(T)}] \in V
      BY <1>1, <1>5, <2>1 DEF Solved
    <3> QED
      BY <1>3, <1>5, <2>1, <3>1 DEF Solved
  <2> QED
    BY <1>1, <1>5, <2>1 DEF Solved, DecodeFold
<1>7. DecodeFold(k, s)
  BY <1>6
<1> HIDE DEF k
<1>8. Follows(k, s, V, Unread, F)
  <2>1. ASSUME NEW T \in SUBSET (1 .. n), T # {}, k[T \ {Max(T)}] \in V
        PROVE  k[T] = F[s[Max(T)]][k[T \ {Max(T)}]]
    <3>1. s[Max(T)] \in A
      BY <1>1, <2>1, LargestNumber
    <3>2. k[T] = DecodeStep(k[T \ {Max(T)}], s[Max(T)])
      BY <1>1, <1>7, <2>1 DEF DecodeFold
    <3> QED
      BY <1>3, <2>1, <3>1, <3>2
  <2>2. k[{}] = Unread
    BY <1>1, <1>7 DEF DecodeFold
  <2> QED
    BY <2>1, <2>2 DEF Follows
<1> QED
  BY <1>2, <1>4, <1>8, FoldReads DEF V, F

LEMMA DecodeOfAppend ==
    ASSUME NEW A, Special \subseteq A, NEW s \in Seq(A), NEW c \in A
    PROVE  DecodeState(Append(s, c)) = DecodeStep(DecodeState(s), c)
<1> DEFINE V == Decodings(A)
           F == DecodeReader(A)
<1>1. Unread \in V /\ F \in [A -> [V -> V]]
  BY DecodeStepType
<1>2. Append(s, c) \in Seq(A)
  BY AppendProperties
<1>3. DecodeState(s) = Read(s, V, Unread, F)
  BY DecodeStateIsRead
<1>4. DecodeState(Append(s, c)) = Read(Append(s, c), V, Unread, F)
  BY <1>2, DecodeStateIsRead
<1>5. \A a \in V : F[c][a] = DecodeStep(a, c)
  BY DEF DecodeReader
<1> HIDE DEF V, F
<1>6. Read(s, V, Unread, F) \in V /\ Read(Append(s, c), V, Unread, F) = F[c][Read(s, V, Unread, F)]
  BY <1>1, ReadAppend
<1> QED
  BY <1>3, <1>4, <1>5, <1>6

LEMMA DecodeOfNone == DecodeState(<<>>) = Unread
<1>1. <<>> \in Seq(Special) /\ Special \subseteq Special
  BY EmptySeq
<1> DEFINE V == Decodings(Special)
           F == DecodeReader(Special)
<1>2. Unread \in V /\ F \in [Special -> [V -> V]]
  BY <1>1, DecodeStepType
<1>3. DecodeState(<<>>) = Read(<<>>, V, Unread, F)
  BY <1>1, DecodeStateIsRead
<1> HIDE DEF V, F
<1> QED
  BY <1>2, <1>3, ReadNone

\* _decode_field() inverts _encode_field(), over any alphabet.
LEMMA DecodedIsEncoded ==
    ASSUME NEW A, Special \subseteq A
    PROVE  \A s \in Seq(A) : DecodeField(EncodeField(s)) = s
<1> DEFINE P == {s \in Seq(A) : DecodeState(EncodeField(s)) = [out |-> s, escaped |-> FALSE]}
<1>1. <<>> \in P
  BY EncodeNone, DecodeOfNone, EmptySeq DEF Unread
<1>2. ASSUME NEW s \in Seq(A), NEW c \in A, s \in P PROVE Append(s, c) \in P
  <2> DEFINE e == EncodeField(s)
  <2>1. /\ e \in Seq(A)
        /\ EncodeField(Append(s, c)) = e \o Escaped(c)
    BY EncodeAppend
  <2>2. DecodeState(e) = [out |-> s, escaped |-> FALSE]
    BY <1>2
  <2>3. "backslash" \in A /\ "t" \in A /\ "r" \in A /\ "n" \in A
    BY DEF Special
  <2> HIDE DEF e
  <2>4. ASSUME NEW x \in A, Escaped(c) = <<"backslash", x>>, Unescaped(x) = c
        PROVE  DecodeState(e \o Escaped(c)) = [out |-> Append(s, c), escaped |-> FALSE]
    <3>1. /\ <<"backslash">> \in Seq(A) /\ <<"backslash", x>> = Append(<<"backslash">>, x)
      BY <2>3
    <3>2. e \o <<"backslash", x>> = Append(e \o <<"backslash">>, x)
      BY <2>1, <3>1, AppendOfConcat
    <3>3. e \o <<"backslash">> = Append(e, "backslash")
      BY <2>1, <2>3, AppendIsConcat
    <3>4. Append(e, "backslash") \in Seq(A)
      BY <2>1, <2>3, AppendProperties
    <3>5. DecodeState(Append(e, "backslash")) = DecodeStep(DecodeState(e), "backslash")
      BY <2>1, <2>3, DecodeOfAppend
    <3>6. DecodeStep([out |-> s, escaped |-> FALSE], "backslash") = [out |-> s, escaped |-> TRUE]
      BY DEF DecodeStep
    <3>7. DecodeState(Append(Append(e, "backslash"), x))
            = DecodeStep(DecodeState(Append(e, "backslash")), x)
      BY <3>4, DecodeOfAppend
    <3>8. DecodeStep([out |-> s, escaped |-> TRUE], x) = [out |-> Append(s, c), escaped |-> FALSE]
      BY <2>4 DEF DecodeStep
    <3> QED
      BY <2>2, <2>4, <3>2, <3>3, <3>5, <3>6, <3>7, <3>8
  <2>5. ASSUME Escaped(c) = <<c>>, c # "backslash"
        PROVE  DecodeState(e \o Escaped(c)) = [out |-> Append(s, c), escaped |-> FALSE]
    <3>1. e \o <<c>> = Append(e, c)
      BY <2>1, AppendIsConcat
    <3>2. DecodeState(Append(e, c)) = DecodeStep(DecodeState(e), c)
      BY <2>1, DecodeOfAppend
    <3>3. DecodeStep([out |-> s, escaped |-> FALSE], c) = [out |-> Append(s, c), escaped |-> FALSE]
      BY <2>5 DEF DecodeStep
    <3> QED
      BY <2>2, <2>5, <3>1, <3>2, <3>3
  <2>6. DecodeState(e \o Escaped(c)) = [out |-> Append(s, c), escaped |-> FALSE]
    <3>1. CASE c = "backslash"
      BY <2>3, <2>4, <3>1 DEF Escaped, Unescaped
    <3>2. CASE c = "tab"
      BY <2>3, <2>4, <3>2 DEF Escaped, Unescaped
    <3>3. CASE c = "return"
      BY <2>3, <2>4, <3>3 DEF Escaped, Unescaped
    <3>4. CASE c = "newline"
      BY <2>3, <2>4, <3>4 DEF Escaped, Unescaped
    <3>5. CASE c \notin {"backslash", "tab", "return", "newline"}
      BY <2>5, <3>5 DEF Escaped
    <3> QED
      BY <3>1, <3>2, <3>3, <3>4, <3>5
  <2> QED
    BY <2>1, <2>6, AppendProperties
<1> HIDE DEF P
<1>3. \A s \in Seq(A) : s \in P
  BY <1>1, <1>2, SequenceInduction
<1>4. \A s \in Seq(A) : DecodeState(EncodeField(s)) = [out |-> s, escaped |-> FALSE]
  BY <1>3 DEF P
<1> QED
  BY <1>4, DecodeIsFold

-----------------------------------------------------------------------------
(* Splitting *)

Unsplit == [pieces |-> <<>>, piece |-> <<>>]

SplitStep(a, c, Sep) ==
    IF c \in Sep THEN [pieces |-> Append(a.pieces, a.piece), piece |-> <<>>]
    ELSE [a EXCEPT !.piece = Append(@, c)]

Splittings(A) == [pieces : Seq(Seq(A)), piece : Seq(A)]

SplitReader(A, Sep) == [c \in A |-> [a \in Splittings(A) |-> SplitStep(a, c, Sep)]]

SplitFold(k, s, Sep) ==
    k = [T \in SUBSET DOMAIN s |->
            IF T = {} THEN Unsplit ELSE SplitStep(k[T \ {Max(T)}], s[Max(T)], Sep)]

SplitState(s, Sep) == (CHOOSE k : SplitFold(k, s, Sep))[DOMAIN s]

LEMMA SplitIsFold ==
    ASSUME NEW s, NEW Sep
    PROVE  Split(s, Sep) = Append(SplitState(s, Sep).pieces, SplitState(s, Sep).piece)
BY DEF Split, FoldLeft, MapThenFoldSet, SplitState, SplitFold, SplitStep, Unsplit

LEMMA SplitStepType ==
    ASSUME NEW A, NEW Sep
    PROVE  Unsplit \in Splittings(A) /\ SplitReader(A, Sep) \in [A -> [Splittings(A) -> Splittings(A)]]
<1>1. <<>> \in Seq(A) /\ <<>> \in Seq(Seq(A))
  BY EmptySeq
<1>2. ASSUME NEW a \in Splittings(A), NEW c \in A PROVE SplitStep(a, c, Sep) \in Splittings(A)
  <2>1. a.pieces \in Seq(Seq(A)) /\ a.piece \in Seq(A)
    BY DEF Splittings
  <2>2. Append(a.piece, c) \in Seq(A) /\ Append(a.pieces, a.piece) \in Seq(Seq(A))
    BY <2>1, AppendProperties
  <2> QED
    BY <1>1, <2>1, <2>2 DEF SplitStep, Splittings
<1> QED
  BY <1>1, <1>2 DEF Unsplit, Splittings, SplitReader

LEMMA SplitStateIsRead ==
    ASSUME NEW A, NEW s \in Seq(A), NEW Sep
    PROVE  SplitState(s, Sep) = Read(s, Splittings(A), Unsplit, SplitReader(A, Sep))
<1> DEFINE n == Len(s)
           V == Splittings(A)
           F == SplitReader(A, Sep)
           k == CHOOSE k : SplitFold(k, s, Sep)
<1>1. n \in Nat /\ DOMAIN s = 1 .. n /\ \A i \in 1 .. n : s[i] \in A
  BY LenProperties
<1>2. Unsplit \in V /\ F \in [A -> [V -> V]]
  BY SplitStepType
<1>3. \A c \in A, a \in V : F[c][a] = SplitStep(a, c, Sep)
  BY DEF SplitReader
<1>4. SplitState(s, Sep) = k[1 .. n]
  BY <1>1 DEF SplitState
<1> HIDE DEF V, F
<1>5. PICK g : Solved(g, s, V, Unsplit, F)
  BY <1>2, SequenceFoldsExist
<1>6. SplitFold(g, s, Sep)
  <2>1. ASSUME NEW T \in SUBSET (1 .. n), T # {}
        PROVE  g[T] = SplitStep(g[T \ {Max(T)}], s[Max(T)], Sep)
    <3>1. s[Max(T)] \in A /\ g[T \ {Max(T)}] \in V
      BY <1>1, <1>5, <2>1 DEF Solved
    <3> QED
      BY <1>3, <1>5, <2>1, <3>1 DEF Solved
  <2> QED
    BY <1>1, <1>5, <2>1 DEF Solved, SplitFold
<1>7. SplitFold(k, s, Sep)
  BY <1>6
<1> HIDE DEF k
<1>8. Follows(k, s, V, Unsplit, F)
  <2>1. ASSUME NEW T \in SUBSET (1 .. n), T # {}, k[T \ {Max(T)}] \in V
        PROVE  k[T] = F[s[Max(T)]][k[T \ {Max(T)}]]
    <3>1. s[Max(T)] \in A
      BY <1>1, <2>1, LargestNumber
    <3>2. k[T] = SplitStep(k[T \ {Max(T)}], s[Max(T)], Sep)
      BY <1>1, <1>7, <2>1 DEF SplitFold
    <3> QED
      BY <1>3, <2>1, <3>1, <3>2
  <2>2. k[{}] = Unsplit
    BY <1>1, <1>7 DEF SplitFold
  <2> QED
    BY <2>1, <2>2 DEF Follows
<1> QED
  BY <1>2, <1>4, <1>8, FoldReads DEF V, F

LEMMA SplitOfNone == ASSUME NEW Sep PROVE SplitState(<<>>, Sep) = Unsplit
<1>1. <<>> \in Seq({})
  BY EmptySeq
<1> DEFINE V == Splittings({})
           F == SplitReader({}, Sep)
<1>2. Unsplit \in V /\ F \in [{} -> [V -> V]]
  BY SplitStepType
<1>3. SplitState(<<>>, Sep) = Read(<<>>, V, Unsplit, F)
  BY <1>1, SplitStateIsRead
<1> HIDE DEF V, F
<1> QED
  BY <1>2, <1>3, ReadNone

LEMMA SplitOfAppend ==
    ASSUME NEW A, NEW s \in Seq(A), NEW c \in A, NEW Sep
    PROVE  /\ SplitState(s, Sep) \in Splittings(A)
           /\ SplitState(Append(s, c), Sep) = SplitStep(SplitState(s, Sep), c, Sep)
<1> DEFINE V == Splittings(A)
           F == SplitReader(A, Sep)
<1>1. Unsplit \in V /\ F \in [A -> [V -> V]]
  BY SplitStepType
<1>2. Append(s, c) \in Seq(A)
  BY AppendProperties
<1>3. SplitState(s, Sep) = Read(s, V, Unsplit, F)
  BY SplitStateIsRead
<1>4. SplitState(Append(s, c), Sep) = Read(Append(s, c), V, Unsplit, F)
  BY <1>2, SplitStateIsRead
<1>5. \A a \in V : F[c][a] = SplitStep(a, c, Sep)
  BY DEF SplitReader
<1> HIDE DEF V, F
<1>6. Read(s, V, Unsplit, F) \in V /\ Read(Append(s, c), V, Unsplit, F) = F[c][Read(s, V, Unsplit, F)]
  BY <1>1, ReadAppend
<1> QED
  BY <1>3, <1>4, <1>5, <1>6 DEF V

\* Plain characters lengthen the piece that is being read; a separator ends it.
Lengthens(d, s, Sep) ==
    SplitState(s \o d, Sep)
        = [pieces |-> SplitState(s, Sep).pieces, piece |-> SplitState(s, Sep).piece \o d]

LEMMA SplitOfPlain ==
    ASSUME NEW A, NEW Sep, NEW B, B \subseteq A, B \cap Sep = {}, NEW s \in Seq(A)
    PROVE  \A d \in Seq(B) : Lengthens(d, s, Sep)
<1> DEFINE p == SplitState(s, Sep).pieces
           q == SplitState(s, Sep).piece
           P == {d \in Seq(B) : SplitState(s \o d, Sep) = [pieces |-> p, piece |-> q \o d]}
<1>1. A # {} => q \in Seq(A) /\ SplitState(s, Sep) = [pieces |-> p, piece |-> q]
  <2>1. SUFFICES ASSUME NEW c \in A
                 PROVE  q \in Seq(A) /\ SplitState(s, Sep) = [pieces |-> p, piece |-> q]
    OBVIOUS
  <2>2. SplitState(s, Sep) \in Splittings(A)
    BY SplitOfAppend
  <2> QED
    BY <2>2 DEF Splittings
<1>2. A = {} => q = <<>> /\ SplitState(s, Sep) = [pieces |-> p, piece |-> q]
  <2>1. SUFFICES ASSUME A = {} PROVE s = <<>>
    BY SplitOfNone DEF Unsplit
  <2>2. Len(s) \in Nat /\ \A i \in 1 .. Len(s) : s[i] \in A
    BY LenProperties
  <2>3. Len(s) = 0
    BY <2>1, <2>2
  <2> QED
    BY <2>3, EmptySeq
<1>3. q \in Seq(A) /\ SplitState(s, Sep) = [pieces |-> p, piece |-> q]
  BY <1>1, <1>2, EmptySeq
<1> HIDE DEF p, q
<1>4. <<>> \in P
  <2>1. s \o <<>> = s /\ q \o <<>> = q /\ <<>> \in Seq(B)
    BY <1>3, ConcatEmptySeq, EmptySeq
  <2> QED
    BY <1>3, <2>1
<1>5. ASSUME NEW d \in Seq(B), NEW c \in B, d \in P PROVE Append(d, c) \in P
  <2>1. d \in Seq(A) /\ c \in A /\ c \notin Sep /\ Append(d, c) \in Seq(B)
    BY SeqMonotonic, AppendProperties
  <2>2. s \o Append(d, c) = Append(s \o d, c) /\ q \o Append(d, c) = Append(q \o d, c)
    BY <1>3, <2>1, AppendOfConcat
  <2>3. s \o d \in Seq(A)
    BY <2>1, ConcatProperties
  <2>4. SplitState(Append(s \o d, c), Sep) = SplitStep(SplitState(s \o d, Sep), c, Sep)
    <3>1. \A x \in Seq(A) : SplitState(Append(x, c), Sep) = SplitStep(SplitState(x, Sep), c, Sep)
      BY <2>1, SplitOfAppend
    <3> QED
      BY <2>3, <3>1
  <2>5. SplitStep([pieces |-> p, piece |-> q \o d], c, Sep) = [pieces |-> p, piece |-> Append(q \o d, c)]
    BY <2>1 DEF SplitStep
  <2> QED
    BY <1>5, <2>1, <2>2, <2>4, <2>5
<1> HIDE DEF P
<1>6. \A d \in Seq(B) : d \in P
  BY <1>4, <1>5, SequenceInduction
<1> QED
  BY <1>6 DEF P, p, q, Lengthens

LEMMA Grown ==
    ASSUME NEW W, NEW s \in Seq(W), NEW c \in W, NEW t, t = Append(s, c)
    PROVE  /\ t \in Seq(W) /\ Len(t) = Len(s) + 1 /\ t[Len(s) + 1] = c
           /\ \A i \in 1 .. Len(s) : t[i] = s[i]
BY AppendProperties

\* At the start of a piece.
Between(s, p, Sep) == SplitState(s, Sep) = [pieces |-> p, piece |-> <<>>]

\* A field, and the separator behind it.
IsConcat(u, s, d) == u = s \o d

\* No separator is in d.
Plain(d, A, Sep) == d \in Seq(A \ Sep)

LEMMA PlainLengthens ==
    ASSUME NEW A, NEW Sep, NEW s \in Seq(A), NEW d, Plain(d, A, Sep)
    PROVE  d \in Seq(A) /\ Lengthens(d, s, Sep)
<1> DEFINE B == A \ Sep
<1>1. B \subseteq A /\ B \cap Sep = {} /\ d \in Seq(B)
  BY DEF Plain
<1> HIDE DEF B
<1> QED
  BY <1>1, SplitOfPlain, SeqMonotonic

LEMMA SplitOfField ==
    ASSUME NEW A, NEW Sep, NEW s \in Seq(A), NEW p, Between(s, p, Sep),
           NEW d, Plain(d, A, Sep), NEW u, IsConcat(u, s, d)
    PROVE  u \in Seq(A) /\ SplitState(u, Sep) = [pieces |-> p, piece |-> d]
<1>3. d \in Seq(A) /\ Lengthens(d, s, Sep)
  BY PlainLengthens
<1>1. <<>> \o d = d
  BY <1>3, ConcatEmptySeq
<1>2. u \in Seq(A)
  BY <1>3, ConcatProperties DEF IsConcat
<1>4. SplitState(s \o d, Sep)
          = [pieces |-> SplitState(s, Sep).pieces, piece |-> SplitState(s, Sep).piece \o d]
  BY <1>3 DEF Lengthens
<1>5. SplitState(s, Sep).pieces = p /\ SplitState(s, Sep).piece = <<>>
  BY DEF Between
<1> QED
  BY <1>1, <1>2, <1>4, <1>5 DEF IsConcat

LEMMA SplitOfLastField ==
    ASSUME NEW A, NEW Sep, NEW s \in Seq(A), NEW p, Between(s, p, Sep),
           NEW d, Plain(d, A, Sep), NEW u, IsConcat(u, s, d),
           NEW q, q = Append(p, d)
    PROVE  Split(u, Sep) = q
<1>1. SplitState(u, Sep) = [pieces |-> p, piece |-> d]
  BY SplitOfField
<1>2. Split(u, Sep) = Append(SplitState(u, Sep).pieces, SplitState(u, Sep).piece)
  BY SplitIsFold
<1> QED
  BY <1>1, <1>2

LEMMA SplitOfEndedField ==
    ASSUME NEW A, NEW Sep, NEW s \in Seq(A), NEW p, Between(s, p, Sep),
           NEW d, Plain(d, A, Sep), NEW u, IsConcat(u, s, d),
           NEW c \in A \cap Sep, NEW e, e = <<c>>, NEW v, IsConcat(v, u, e), NEW q, q = Append(p, d)
    PROVE  v \in Seq(A) /\ Between(v, q, Sep)
<1>1. u \in Seq(A) /\ SplitState(u, Sep) = [pieces |-> p, piece |-> d]
  BY SplitOfField
<1>2. v = Append(u, c)
  BY <1>1, AppendIsConcat DEF IsConcat
<1>3. SplitState(Append(u, c), Sep) = SplitStep(SplitState(u, Sep), c, Sep)
  <2>1. \A x \in Seq(A) : SplitState(Append(x, c), Sep) = SplitStep(SplitState(x, Sep), c, Sep)
    BY SplitOfAppend
  <2> QED
    BY <1>1, <2>1
<1>4. SplitStep([pieces |-> p, piece |-> d], c, Sep) = [pieces |-> q, piece |-> <<>>]
  BY DEF SplitStep
<1>5. v \in Seq(A)
  BY <1>1, <1>2, AppendProperties
<1> QED
  BY <1>1, <1>2, <1>3, <1>4, <1>5 DEF Between

LEMMA BetweenNone == ASSUME NEW Sep PROVE Between(<<>>, <<>>, Sep)
BY SplitOfNone DEF Between, Unsplit

-----------------------------------------------------------------------------
(* The shard file *)

Records(A) ==
    [word : Seq(A) \ {<<>>}, url : Seq(A) \ {<<>>}, origin : Seq(A), depth : Nat, tf : Nat \ {0}]

\* A line without the newline.
Body(r) ==
    EncodeField(r.word) \o <<"tab">> \o EncodeField(r.url) \o <<"tab">>
        \o EncodeField(r.origin) \o <<"tab">> \o Decimal(r.depth) \o <<"tab">> \o Decimal(r.tf)

LEMMA LineHasBody == ASSUME NEW r PROVE LineOf(r) = Body(r) \o <<"newline">>
BY DEF LineOf, Body

Breaks == {"newline", "return"}

LEMMA BodyIsParsed ==
    ASSUME NEW A, Special \cup Digit \subseteq A, NEW r \in Records(A)
    PROVE  Body(r) \in Seq(A \ Breaks) /\ ParseLine(Body(r)) = {r}
<1> DEFINE B == A \ {"tab", "newline", "return"}
           C == A \ Breaks
           T == {"tab"}
           D == C \ T
           f1 == EncodeField(r.word)
           f2 == EncodeField(r.url)
           f3 == EncodeField(r.origin)
           f4 == Decimal(r.depth)
           f5 == Decimal(r.tf)
<1>1. /\ r.word \in Seq(A) /\ r.word # <<>> /\ r.url \in Seq(A) /\ r.url # <<>>
      /\ r.origin \in Seq(A) /\ r.depth \in Nat /\ r.tf \in Nat /\ r.tf # 0
      /\ r = [word |-> r.word, url |-> r.url, origin |-> r.origin, depth |-> r.depth, tf |-> r.tf]
  BY DEF Records
<1>2. Special \subseteq A /\ "tab" \in C
  BY DEF Special, Breaks
<1>3. D \subseteq C /\ D \cap T = {} /\ B = A \ {"tab", "return", "newline"} /\ B \subseteq D /\ C \subseteq A
  BY DEF Breaks
<1>4. Digit \subseteq B
  BY DigitsDiffer
<1> HIDE DEF f1, f2, f3, f4, f5
<1>5. /\ f1 \in Seq(B) /\ f1 # <<>> /\ DecodeField(f1) = r.word
      /\ f2 \in Seq(B) /\ f2 # <<>> /\ DecodeField(f2) = r.url
      /\ f3 \in Seq(B) /\ DecodeField(f3) = r.origin
  <2>1. \A s \in Seq(A) : DecodeField(EncodeField(s)) = s
    BY <1>2, DecodedIsEncoded
  <2>2. \A s \in Seq(A) : EncodeField(s) \in Seq(B) /\ (EncodeField(s) = <<>> <=> s = <<>>)
    BY <1>2, EncodedIsPlain
  <2> HIDE DEF B
  <2> QED
    BY <1>1, <2>1, <2>2 DEF f1, f2, f3
<1>6. /\ f4 \in Seq(Digit) /\ IsNumber(f4) /\ NumberOf(f4) = r.depth
      /\ f5 \in Seq(Digit) /\ IsNumber(f5) /\ NumberOf(f5) = r.tf
  BY <1>1, DecimalsAreRead DEF f4, f5
<1>7. /\ f1 \in Seq(D) /\ f2 \in Seq(D) /\ f3 \in Seq(D)
      /\ f4 \in Seq(D) /\ f5 \in Seq(D)
  <2>1. B \subseteq D /\ Digit \subseteq D
    BY <1>3, <1>4
  <2> HIDE DEF B, C, T, D
  <2> QED
    BY <1>5, <1>6, <2>1, SeqMonotonic
<1>17. /\ Plain(f1, C, T) /\ Plain(f2, C, T) /\ Plain(f3, C, T) /\ Plain(f4, C, T) /\ Plain(f5, C, T)
  BY <1>7 DEF Plain
<1> DEFINE y1 == f1
           x1 == y1 \o <<"tab">>
           y2 == x1 \o f2
           x2 == y2 \o <<"tab">>
           y3 == x2 \o f3
           x3 == y3 \o <<"tab">>
           y4 == x3 \o f4
           x4 == y4 \o <<"tab">>
           y == x4 \o f5
           p1 == Append(<<>>, f1)
           p2 == Append(p1, f2)
           p3 == Append(p2, f3)
           p4 == Append(p3, f4)
           p5 == Append(p4, f5)
<1>8. Body(r) = y
  BY DEF Body, f1, f2, f3, f4, f5
<1>9. "tab" \in C \cap T
  BY <1>2
<1>10. y1 = <<>> \o f1 /\ <<>> \in Seq(C) /\ Between(<<>>, <<>>, T)
  BY <1>7, ConcatEmptySeq, EmptySeq, BetweenNone
<1>11. Len(p5) = 5 /\ p5[1] = f1 /\ p5[2] = f2 /\ p5[3] = f3 /\ p5[4] = f4 /\ p5[5] = f5
  <2> DEFINE W == Seq(D)
  <2>0. f1 \in W /\ f2 \in W /\ f3 \in W /\ f4 \in W /\ f5 \in W
    BY <1>7
  <2> HIDE DEF W, C, T, B, D
  <2>1. p1 \in Seq(W) /\ Len(p1) = 1 /\ p1[1] = f1
    BY <2>0, EmptySeq, AppendProperties
  <2> HIDE DEF p1
  <2>2. p2 \in Seq(W) /\ Len(p2) = 2 /\ p2[1] = f1 /\ p2[2] = f2
    <3>1. /\ p2 \in Seq(W) /\ Len(p2) = Len(p1) + 1 /\ p2[Len(p1) + 1] = f2
          /\ \A i \in 1 .. Len(p1) : p2[i] = p1[i]
      <4>1. p2 = Append(p1, f2)
        OBVIOUS
      <4> HIDE DEF p1, p2, p3, p4, p5
      <4> QED
        BY <2>0, <2>1, <4>1, Grown
    <3> HIDE DEF p2
    <3> QED
      BY <2>1, <3>1
  <2> HIDE DEF p2
  <2>3. p3 \in Seq(W) /\ Len(p3) = 3 /\ p3[1] = f1 /\ p3[2] = f2 /\ p3[3] = f3
    <3>1. /\ p3 \in Seq(W) /\ Len(p3) = Len(p2) + 1 /\ p3[Len(p2) + 1] = f3
          /\ \A i \in 1 .. Len(p2) : p3[i] = p2[i]
      <4>1. p3 = Append(p2, f3)
        OBVIOUS
      <4> HIDE DEF p1, p2, p3, p4, p5
      <4> QED
        BY <2>0, <2>2, <4>1, Grown
    <3> HIDE DEF p3
    <3> QED
      BY <2>2, <3>1
  <2> HIDE DEF p3
  <2>4. p4 \in Seq(W) /\ Len(p4) = 4 /\ p4[1] = f1 /\ p4[2] = f2 /\ p4[3] = f3 /\ p4[4] = f4
    <3>1. /\ p4 \in Seq(W) /\ Len(p4) = Len(p3) + 1 /\ p4[Len(p3) + 1] = f4
          /\ \A i \in 1 .. Len(p3) : p4[i] = p3[i]
      <4>1. p4 = Append(p3, f4)
        OBVIOUS
      <4> HIDE DEF p1, p2, p3, p4, p5
      <4> QED
        BY <2>0, <2>3, <4>1, Grown
    <3> HIDE DEF p4
    <3> QED
      BY <2>3, <3>1
  <2> HIDE DEF p4
  <2>5. p5 \in Seq(W) /\ Len(p5) = 5 /\ p5[1] = f1 /\ p5[2] = f2 /\ p5[3] = f3 /\ p5[4] = f4 /\ p5[5] = f5
    <3>1. /\ p5 \in Seq(W) /\ Len(p5) = Len(p4) + 1 /\ p5[Len(p4) + 1] = f5
          /\ \A i \in 1 .. Len(p4) : p5[i] = p4[i]
      <4>1. p5 = Append(p4, f5)
        OBVIOUS
      <4> HIDE DEF p1, p2, p3, p4, p5
      <4> QED
        BY <2>0, <2>4, <4>1, Grown
    <3> HIDE DEF p5
    <3> QED
      BY <2>4, <3>1
  <2> HIDE DEF p5
  <2> QED
    BY <2>5
<1>12. y2 = x1 \o f2 /\ y3 = x2 \o f3 /\ y4 = x3 \o f4 /\ y = x4 \o f5
  OBVIOUS
<1>13. x1 = y1 \o <<"tab">> /\ x2 = y2 \o <<"tab">> /\ x3 = y3 \o <<"tab">> /\ x4 = y4 \o <<"tab">>
  OBVIOUS
<1>14. p1 = Append(<<>>, f1) /\ p2 = Append(p1, f2) /\ p3 = Append(p2, f3) /\ p4 = Append(p3, f4)
       /\ p5 = Append(p4, f5)
  OBVIOUS
<1> HIDE DEF C, T, D, B, y1, x1, y2, x2, y3, x3, y4, x4, y, p1, p2, p3, p4, p5
<1>15. Split(y, T) = p5 /\ y \in Seq(C)
  <2> DEFINE tab == "tab"
             m == <<tab>>
             e == <<>>
  <2>1. /\ tab \in C \cap T /\ m = <<tab>> /\ e \in Seq(C) /\ Between(e, e, T)
        /\ IsConcat(y1, e, f1) /\ IsConcat(y2, x1, f2) /\ IsConcat(y3, x2, f3) /\ IsConcat(y4, x3, f4)
        /\ IsConcat(y, x4, f5)
        /\ IsConcat(x1, y1, m) /\ IsConcat(x2, y2, m) /\ IsConcat(x3, y3, m) /\ IsConcat(x4, y4, m)
    BY <1>9, <1>10, <1>12, <1>13 DEF IsConcat
  <2>2. p1 = Append(e, f1)
    BY <1>14
  <2>9. p2 = Append(p1, f2)
    BY <1>14
  <2>10. p3 = Append(p2, f3)
    BY <1>14
  <2>11. p4 = Append(p3, f4)
    BY <1>14
  <2>12. p5 = Append(p4, f5)
    BY <1>14
  <2> HIDE DEF tab, e, m
  <2>3. x1 \in Seq(C) /\ Between(x1, p1, T)
    BY <1>17, <2>1, <2>2, SplitOfEndedField
  <2>4. x2 \in Seq(C) /\ Between(x2, p2, T)
    BY <1>17, <2>1, <2>3, <2>9, SplitOfEndedField
  <2>5. x3 \in Seq(C) /\ Between(x3, p3, T)
    BY <1>17, <2>1, <2>4, <2>10, SplitOfEndedField
  <2>6. x4 \in Seq(C) /\ Between(x4, p4, T)
    BY <1>17, <2>1, <2>5, <2>11, SplitOfEndedField
  <2>7. y \in Seq(C)
    BY <1>17, <2>1, <2>6, SplitOfField
  <2>8. Split(y, T) = p5
    BY <1>17, <2>1, <2>6, <2>12, SplitOfLastField
  <2> QED
    BY <2>7, <2>8
<1>16. ParseLine(y) = {[word |-> DecodeField(f1), url |-> DecodeField(f2), origin |-> DecodeField(f3),
                        depth |-> NumberOf(f4), tf |-> NumberOf(f5)]}
  <2> DEFINE part == Split(y, T)
  <2>1. /\ Len(part) = 5 /\ part[1] = f1 /\ part[2] = f2 /\ part[3] = f3
        /\ part[4] = f4 /\ part[5] = f5
    BY <1>11, <1>15
  <2>2. NumberOf(f5) > 0
    BY <1>1, <1>6
  <2>3. ParseLine(y) = IF /\ Len(part) = 5
                          /\ part[1] # <<>> /\ part[2] # <<>>
                          /\ IsNumber(part[4]) /\ IsNumber(part[5]) /\ NumberOf(part[5]) > 0
                       THEN {[word |-> DecodeField(part[1]), url |-> DecodeField(part[2]),
                              origin |-> DecodeField(part[3]), depth |-> NumberOf(part[4]),
                              tf |-> NumberOf(part[5])]}
                       ELSE {}
    BY DEF ParseLine, T
  <2> HIDE DEF part
  <2> QED
    BY <1>5, <1>6, <2>1, <2>2, <2>3
<1> QED
  BY <1>1, <1>5, <1>6, <1>8, <1>15, <1>16 DEF C

LEMMA ToSetAppend ==
    ASSUME NEW A, NEW s \in Seq(A), NEW c \in A
    PROVE  ToSet(Append(s, c)) = ToSet(s) \cup {c}
<1> DEFINE n == Len(s)
           t == Append(s, c)
<1>1. n \in Nat /\ DOMAIN s = 1 .. n
  BY LenProperties
<1>2. /\ DOMAIN t = 1 .. n + 1
      /\ \A i \in 1 .. n : t[i] = s[i]
      /\ t[n + 1] = c
  BY AppendProperties, LenProperties
<1> HIDE DEF t, n
<1>3. \A i \in 1 .. n + 1 : i \in 1 .. n \/ i = n + 1
  BY <1>1
<1>4. n + 1 \in 1 .. n + 1 /\ \A i \in 1 .. n : i \in 1 .. n + 1
  BY <1>1
<1>5. ToSet(t) = {t[i] : i \in 1 .. n + 1} /\ ToSet(s) = {s[i] : i \in 1 .. n}
  BY <1>1, <1>2 DEF ToSet
<1> QED
  BY <1>2, <1>3, <1>4, <1>5 DEF t

\* What a shard file gives back is what was written to it.
LEMMA FileIsParsed ==
    ASSUME NEW A, Special \cup Digit \subseteq A
    PROVE  \A rs \in Seq(Records(A)) : RecordsOf(FileOf(rs)) = ToSet(rs)
<1> DEFINE R == Records(A)
           G == [r \in R |-> LineOf(r)]
           Pieces(rs) == SplitState(FileOf(rs), Breaks).pieces
           P == {rs \in Seq(R) :
                    /\ FileOf(rs) \in Seq(A)
                    /\ Between(FileOf(rs), Pieces(rs), Breaks)
                    /\ Pieces(rs) \in Seq(Seq(A))
                    /\ ToSet(Pieces(rs)) = {Body(r) : r \in ToSet(rs)}}
<1>1. "newline" \in A \cap Breaks
  BY DEF Special, Breaks
<1>2. ASSUME NEW r \in R
      PROVE  /\ Body(r) \in Seq(A \ Breaks) /\ Body(r) \in Seq(A)
             /\ LineOf(r) \in Seq(A) /\ LineOf(r) = Body(r) \o <<"newline">>
  <2>1. Body(r) \in Seq(A \ Breaks)
    BY BodyIsParsed
  <2>2. Body(r) \in Seq(A)
    BY <2>1, SeqMonotonic
  <2>3. <<"newline">> \in Seq(A)
    BY <1>1
  <2>4. Body(r) \o <<"newline">> \in Seq(A)
    BY <2>2, <2>3, ConcatProperties
  <2> QED
    BY <2>1, <2>2, <2>4, LineHasBody
<1>3. IsCharMap(G, R, A)
  BY <1>2 DEF IsCharMap
<1>4. \A rs \in Seq(R) : FileOf(rs) = Rewritten(rs, G)
  <2>1. ASSUME NEW rs \in Seq(R) PROVE FileOf(rs) = Rewritten(rs, G)
    <3>1. \A i \in DOMAIN rs : rs[i] \in R
      BY LenProperties
    <3>2. \A i \in DOMAIN rs : G[rs[i]] = LineOf(rs[i])
      BY <3>1
    <3> HIDE DEF G
    <3>3. [i \in DOMAIN rs |-> G[rs[i]]] = [i \in DOMAIN rs |-> LineOf(rs[i])]
      BY <3>2
    <3> QED
      BY <3>3 DEF FileOf, Rewritten
  <2> QED
    BY <2>1
<1>5. \A r \in R : G[r] = LineOf(r)
  OBVIOUS
<1> HIDE DEF G, R
<1>6. <<>> \in P
  <2>1. <<>> \in Seq(R) /\ FileOf(<<>>) = <<>>
    BY <1>4, EmptySeq, RewrittenNone
  <2>2. ToSet(<<>>) = {}
    BY DEF ToSet
  <2> QED
    <3>1. Between(<<>>, <<>>, Breaks)
      BY BetweenNone
    <3>2. Pieces(<<>>) = <<>>
      BY <2>1, <3>1 DEF Between
    <3> HIDE DEF Pieces
    <3>3. ToSet(Pieces(<<>>)) = {Body(r) : r \in ToSet(<<>>)}
      BY <2>2, <3>2
    <3>4. <<>> \in Seq(Seq(A)) /\ <<>> \in Seq(A)
      BY EmptySeq
    <3> QED
      BY <2>1, <3>1, <3>2, <3>3, <3>4
<1>7. ASSUME NEW rs \in Seq(R), NEW r \in R, rs \in P PROVE Append(rs, r) \in P
  <2> DEFINE f == FileOf(rs)
             p == Pieces(rs)
             b == Body(r)
  <2>1. Append(rs, r) \in Seq(R) /\ ToSet(Append(rs, r)) = ToSet(rs) \cup {r}
    BY AppendProperties, ToSetAppend
  <2>2. f \in Seq(A) /\ Between(f, p, Breaks)
        /\ p \in Seq(Seq(A)) /\ ToSet(p) = {Body(x) : x \in ToSet(rs)}
    BY <1>7
  <2>3. /\ b \in Seq(A \ Breaks) /\ b \in Seq(A)
        /\ LineOf(r) = b \o <<"newline">>
    BY <1>2
  <2>4. FileOf(Append(rs, r)) = f \o (b \o <<"newline">>)
    <3>1. Rewritten(Append(rs, r), G) = Rewritten(rs, G) \o G[r]
      BY <1>3, RewrittenAppend
    <3> QED
      BY <1>4, <1>5, <2>1, <2>3, <3>1
  <2> DEFINE u == f \o b
             z == <<"newline">>
  <2>5. u = f \o b /\ z \in Seq(A)
    BY <1>1
  <2>6. FileOf(Append(rs, r)) = f \o (b \o z)
    BY <2>4
  <2> HIDE DEF f, p, b, u, z, Pieces, P
  <2>7. f \o (b \o z) = u \o z
    BY <2>2, <2>3, <2>5, ConcatAssociative
  <2>8. u \o z \in Seq(A) /\ Between(u \o z, Append(p, b), Breaks)
    <3> DEFINE newline == "newline"
               v == u \o z
               q == Append(p, b)
    <3>1. Plain(b, A, Breaks)
      BY <2>3 DEF Plain
    <3>2. newline \in A \cap Breaks /\ z = <<newline>> /\ IsConcat(v, u, z) /\ IsConcat(u, f, b)
         /\ q = Append(p, b)
      BY <1>1, <2>5 DEF z, IsConcat
    <3> HIDE DEF newline, v, q
    <3>3. v \in Seq(A) /\ Between(v, q, Breaks)
      BY <2>2, <2>5, <3>1, <3>2, SplitOfEndedField
    <3> QED
      BY <3>3 DEF v, q
  <2>9. Append(p, b) \in Seq(Seq(A)) /\ ToSet(Append(p, b)) = ToSet(p) \cup {b}
    <3> DEFINE W == Seq(A)
    <3>1. p \in Seq(W) /\ b \in W
      BY <2>2, <2>3
    <3> HIDE DEF W
    <3>2. Append(p, b) \in Seq(W) /\ ToSet(Append(p, b)) = ToSet(p) \cup {b}
      BY <3>1, AppendProperties, ToSetAppend
    <3> QED
      BY <3>2 DEF W
  <2>10. ToSet(Append(p, b)) = {Body(x) : x \in ToSet(Append(rs, r))}
    BY <2>1, <2>2, <2>9 DEF b
  <2>11. Pieces(Append(rs, r)) = Append(p, b)
    BY <2>6, <2>7, <2>8 DEF Pieces, Between
  <2> QED
    BY <2>1, <2>6, <2>7, <2>8, <2>9, <2>10, <2>11 DEF P
<1> HIDE DEF P
<1>8. \A rs \in Seq(R) : rs \in P
  BY <1>6, <1>7, SequenceInduction
<1>9. ASSUME NEW rs \in Seq(R) PROVE RecordsOf(FileOf(rs)) = ToSet(rs)
  <2>1. /\ Between(FileOf(rs), Pieces(rs), Breaks)
        /\ Pieces(rs) \in Seq(Seq(A))
        /\ ToSet(Pieces(rs)) = {Body(r) : r \in ToSet(rs)}
    BY <1>8 DEF P
  <2> HIDE DEF Pieces
  <2>2. LinesOf(FileOf(rs)) = Append(Pieces(rs), <<>>)
    BY <2>1, SplitIsFold DEF LinesOf, Breaks, Between
  <2>3. ToSet(LinesOf(FileOf(rs))) = {Body(r) : r \in ToSet(rs)} \cup {<<>>}
    <3> DEFINE W == Seq(A)
               ps == Pieces(rs)
               e == <<>>
    <3>1. ps \in Seq(W) /\ e \in W
      BY <2>1, EmptySeq
    <3> HIDE DEF W, ps, e
    <3>2. ToSet(Append(ps, e)) = ToSet(ps) \cup {e}
      BY <3>1, ToSetAppend
    <3> QED
      BY <2>1, <2>2, <3>2 DEF ps, e
  <2>4. ParseLine(<<>>) = {}
    <3> DEFINE e == <<>>
               T == {"tab"}
               ps == SplitState(e, T).pieces
    <3>1. ps = <<>>
      BY BetweenNone DEF Between
    <3>2. Split(e, T) = Append(ps, SplitState(e, T).piece)
      <4> HIDE DEF e, T
      <4> QED
        BY SplitIsFold DEF ps
    <3>3. \A x : Len(Append(<<>>, x)) = 1
      OBVIOUS
    <3>4. Len(Split(e, T)) = 1
      <4> DEFINE x == SplitState(e, T).piece
      <4> HIDE DEF x, e, T
      <4> QED
        BY <3>1, <3>2, <3>3 DEF x
    <3> HIDE DEF ps
    <3> QED
      BY <3>4 DEF ParseLine
  <2>5. \A r \in ToSet(rs) : ParseLine(Body(r)) = {r}
    <3>1. \A r \in ToSet(rs) : r \in R
      BY LenProperties DEF ToSet
    <3> QED
      BY <3>1, BodyIsParsed DEF R
  <2> QED
    BY <2>3, <2>4, <2>5 DEF RecordsOf
<1> QED
  BY <1>9 DEF R

-----------------------------------------------------------------------------
(* The postings of a page *)

\* A finite set as a sequence.
LEMMA Listed ==
    ASSUME NEW S, IsFiniteSet(S)
    PROVE  SetToSeq(S) \in Seq(S) /\ ToSet(SetToSeq(S)) = S
<1> DEFINE n == Cardinality(S)
           f == SetToSeq(S)
<1>1. n \in Nat /\ \E g \in [1 .. n -> S] : IsInjective(g)
  <2>1. n \in Nat /\ ExistsBijection(1 .. n, S)
    BY FS_CardinalityType
  <2>2. PICK g : g \in Bijection(1 .. n, S)
    BY <2>1 DEF ExistsBijection
  <2>3. g \in [1 .. n -> S] /\ \A a, b \in 1 .. n : g[a] = g[b] => a = b
    BY <2>2 DEF Bijection, Injection, IsInjective
  <2> QED
    BY <2>1, <2>3 DEF IsInjective
<1>2. f \in [1 .. n -> S] /\ IsInjective(f)
  BY <1>1 DEF SetToSeq
<1> HIDE DEF f
<1>3. f \in Injection(1 .. n, S)
  BY <1>2 DEF Injection, IsInjective
<1>4. IsFiniteSet(1 .. n) /\ Cardinality(1 .. n) = n
  BY <1>1, FS_Interval
<1>5. f \in Surjection(1 .. n, S)
  BY <1>3, <1>4, FS_Injection
<1>6. \A x \in S : \E i \in 1 .. n : f[i] = x
  BY <1>5 DEF Surjection
<1>7. f \in Seq(S) /\ DOMAIN f = 1 .. n
  BY <1>1, <1>2
<1>8. ToSet(f) = S
  BY <1>2, <1>6, <1>7 DEF ToSet
<1> QED
  BY <1>7, <1>8 DEF f

\* The folded form has no capital letter, so folding it again changes nothing.
Capitals == {"X", "I", "Idot", "Sigma"}
Lowered == {"x", "i", "dotabove", "idotless", "sigma", "finalsigma"}
Low(A) == (A \cup Lowered) \ Capitals

LEMMA FlattenNotEmpty ==
    ASSUME NEW A, NEW ss \in Seq(Seq(A)), ss # <<>>, \A i \in 1 .. Len(ss) : ss[i] # <<>>
    PROVE  FlattenSeq(ss) # <<>>
<1> DEFINE V == Seq(A)
           r == Front(ss)
           c == Last(ss)
<1>1. ss \in Seq(V)
  OBVIOUS
<1> HIDE DEF V
<1>2. r \in Seq(V) /\ c \in V /\ Len(ss) \in Nat \ {0} /\ ss[Len(ss)] = c
  BY <1>1, FrontAndLast
<1>3. ss = Append(r, c)
  <2>1. /\ Len(r) = Len(ss) - 1 /\ \A i \in 1 .. Len(ss) - 1 : r[i] = ss[i]
    BY <1>1, FrontAndLast
  <2>2. /\ Append(r, c) \in Seq(V) /\ Len(Append(r, c)) = Len(r) + 1
        /\ \A i \in 1 .. Len(r) : Append(r, c)[i] = r[i]
        /\ Append(r, c)[Len(r) + 1] = c
    BY <1>2, AppendProperties
  <2> HIDE DEF r, c
  <2>3. Len(Append(r, c)) = Len(ss) /\ Len(r) + 1 = Len(ss)
    BY <1>2, <2>1, <2>2
  <2>4. \A i \in 1 .. Len(ss) : i \in 1 .. Len(ss) - 1 \/ i = Len(ss)
    BY <1>2
  <2>5. \A i \in 1 .. Len(ss) : ss[i] = Append(r, c)[i]
    BY <1>2, <2>1, <2>2, <2>3, <2>4
  <2> QED
    BY <1>1, <2>2, <2>3, <2>5, SeqEqual
<1>4. c # <<>>
  BY <1>2
<1> HIDE DEF r, c
<1>5. r \in Seq(Seq(A)) /\ c \in Seq(A)
  BY <1>2 DEF V
<1>6. FlattenSeq(r) \in Seq(A) /\ FlattenSeq(Append(r, c)) = FlattenSeq(r) \o c
  BY <1>5, FlattenAppend
<1>7. Len(c) \in Nat \ {0} /\ Len(FlattenSeq(r)) \in Nat
  BY <1>4, <1>5, <1>6, LenProperties, EmptySeq
<1>8. Len(FlattenSeq(r) \o c) = Len(FlattenSeq(r)) + Len(c)
  BY <1>5, <1>6, ConcatProperties
<1>9. Len(<<>>) = 0
  OBVIOUS
<1> QED
  BY <1>3, <1>6, <1>7, <1>8, <1>9

LEMMA FoldedType ==
    ASSUME NEW A, NEW s \in Seq(A)
    PROVE  TurkishFold(s) \in Seq(Low(A)) /\ (s # <<>> => TurkishFold(s) # <<>>)
<1> DEFINE n == Len(s)
           t == [i \in DOMAIN s |-> FoldTable(s[i])]
           u == [i \in DOMAIN t |-> LowerAt(t, i)]
           L == Low(A)
<1>1. n \in Nat /\ DOMAIN s = 1 .. n /\ \A i \in 1 .. n : s[i] \in A
  BY LenProperties
<1>2. DOMAIN t = 1 .. n /\ \A i \in 1 .. n : t[i] \in (A \cup Lowered) \ {"I", "Idot"}
  BY <1>1 DEF FoldTable, Lowered
<1> HIDE DEF t
<1>3. ASSUME NEW i \in 1 .. n PROVE \E c \in L : \/ LowerAt(t, i) = <<c>>
                                                 \/ \E e \in L : LowerAt(t, i) = <<c, e>>
  <2>1. CASE t[i] = "X"
    <3>1. LowerAt(t, i) = <<"x">>
      BY <2>1 DEF LowerAt
    <3> QED
      BY <3>1 DEF Low, Lowered, Capitals
  <2>2. CASE t[i] = "Sigma"
    <3>1. LowerAt(t, i) = <<"sigma">> \/ LowerAt(t, i) = <<"finalsigma">>
      BY <2>2 DEF LowerAt
    <3> QED
      BY <3>1 DEF Low, Lowered, Capitals
  <2>3. CASE t[i] \notin {"X", "Sigma"}
    <3>1. LowerAt(t, i) = <<t[i]>>
      BY <1>2, <2>3 DEF LowerAt
    <3>2. t[i] \in L
      BY <1>2, <2>3 DEF Low, Capitals
    <3> QED
      BY <3>1, <3>2
  <2> QED
    BY <2>1, <2>2, <2>3
<1> HIDE DEF L
<1>4. \A i \in 1 .. n : LowerAt(t, i) \in Seq(L) /\ LowerAt(t, i) # <<>>
  <2>1. \A c, e \in L : <<c>> \in Seq(L) /\ <<c, e>> \in Seq(L) /\ <<c>> # <<>> /\ <<c, e>> # <<>>
    OBVIOUS
  <2> QED
    BY <1>3, <2>1
<1>5. u \in Seq(Seq(L)) /\ Len(u) = n /\ \A i \in 1 .. n : u[i] # <<>>
  BY <1>1, <1>2, <1>4
<1>6. TurkishFold(s) = FlattenSeq(u)
  BY DEF TurkishFold, t
<1> HIDE DEF u
<1>7. FlattenSeq(u) \in Seq(L)
  BY <1>5, EmptySeq, FlattenAppend
<1>8. ASSUME s # <<>> PROVE FlattenSeq(u) # <<>>
  <2>1. n # 0
    BY <1>8, EmptySeq
  <2>2. u # <<>>
    BY <1>5, <2>1
  <2> QED
    BY <1>5, <2>2, FlattenNotEmpty
<1> QED
  BY <1>6, <1>7, <1>8 DEF L

LEMMA FoldedTwice ==
    ASSUME NEW A, A \cap Capitals = {}, NEW s \in Seq(A)
    PROVE  TurkishFold(s) = s
<1> DEFINE n == Len(s)
           t == [i \in DOMAIN s |-> FoldTable(s[i])]
           u == [i \in DOMAIN s |-> LowerAt(s, i)]
           G == [c \in A |-> <<c>>]
<1>1. n \in Nat /\ DOMAIN s = 1 .. n /\ \A i \in 1 .. n : s[i] \in A /\ s[i] \notin Capitals
  BY LenProperties
<1>2. \A i \in 1 .. n : FoldTable(s[i]) = s[i]
  BY <1>1 DEF FoldTable, Capitals
<1>3. \A i \in 1 .. n : LowerAt(s, i) = <<s[i]>>
  BY <1>1 DEF LowerAt, Capitals
<1>4. t = s
  BY <1>1, <1>2
<1>5. u = [i \in DOMAIN s |-> G[s[i]]]
  <2>1. \A i \in 1 .. n : LowerAt(s, i) = G[s[i]]
    BY <1>1, <1>3
  <2> HIDE DEF G
  <2> QED
    BY <1>1, <2>1
<1>6. TurkishFold(s) = FlattenSeq(u)
  <2>1. TurkishFold(s) = FlattenSeq([i \in DOMAIN t |-> LowerAt(t, i)])
    BY DEF TurkishFold
  <2> HIDE DEF t
  <2> QED
    BY <1>4, <2>1
<1>7. \A c \in A : G[c] = <<c>>
  OBVIOUS
<1> HIDE DEF G, u
<1>8. Rewritten(s, G) = s
  BY <1>7, RewrittenSame
<1> QED
  BY <1>5, <1>6, <1>8 DEF Rewritten

LEMMA RunsAreNotEmpty ==
    ASSUME NEW A, NEW Sep
    PROVE  \A s \in Seq(A) : Runs(s, Sep) \in Seq(Seq(A) \ {<<>>})
<1> DEFINE W == Seq(A) \ {<<>>}
           P == {s \in Seq(A) : RunState(s, Sep).runs \in Seq(W)}
<1>1. <<>> \in P
  <2>1. RunState(<<>>, Sep).runs = <<>>
    BY RunOfNone DEF Begun
  <2> HIDE DEF W
  <2>2. <<>> \in Seq(W) /\ <<>> \in Seq(A)
    BY EmptySeq
  <2> QED
    BY <2>1, <2>2
<1>2. ASSUME NEW s \in Seq(A), NEW c \in A, s \in P PROVE Append(s, c) \in P
  <2> DEFINE a == RunState(s, Sep)
  <2>1. a.runs \in Seq(W) /\ a.run \in Seq(A) /\ a = [runs |-> a.runs, run |-> a.run]
    BY <1>2, RunTypes
  <2>2. RunState(Append(s, c), Sep) = RunStep(a, c, Sep)
    BY RunOfAppend
  <2>3. a.run # <<>> => Append(a.runs, a.run) \in Seq(W)
    <3> SUFFICES ASSUME a.run # <<>> PROVE Append(a.runs, a.run) \in Seq(W)
      OBVIOUS
    <3>1. a.run \in W
      BY <2>1
    <3> HIDE DEF W, a
    <3> QED
      BY <2>1, <3>1, AppendProperties
  <2> HIDE DEF a, W
  <2>4. RunStep(a, c, Sep).runs \in Seq(W)
    BY <2>1, <2>3 DEF RunStep
  <2> QED
    BY <2>2, <2>4, AppendProperties
<1> HIDE DEF P
<1>3. \A s \in Seq(A) : s \in P
  BY <1>1, <1>2, SequenceInduction
<1>4. ASSUME NEW s \in Seq(A) PROVE Runs(s, Sep) \in Seq(W)
  <2> DEFINE a == RunState(s, Sep)
  <2>1. a.runs \in Seq(W) /\ a.run \in Seq(A)
    BY <1>3, RunTypes DEF P
  <2>2. Runs(s, Sep) = IF a.run = <<>> THEN a.runs ELSE Append(a.runs, a.run)
    BY RunsSplit
  <2>3. a.run # <<>> => a.run \in W
    BY <2>1
  <2> HIDE DEF a, W
  <2> QED
    BY <2>1, <2>2, <2>3, AppendProperties
<1> QED
  BY <1>4

LEMMA KeptReplaced ==
    ASSUME NEW a, NEW e, NEW f, a = [kept |-> e, inside |-> f], NEW x
    PROVE  [a EXCEPT !.kept = x] = [kept |-> x, inside |-> f]
OBVIOUS

\* Whatever tags are stripped, characters and spaces are left.
LEMMA StripType ==
    ASSUME NEW A, "space" \in A, NEW s \in Seq(A)
    PROVE  StripTags(s) \in Seq(A)
<1> DEFINE n == Len(s)
           V == [kept : Seq(A), inside : BOOLEAN]
           b == [kept |-> <<>>, inside |-> FALSE]
           ids == Places(s)
           F == [i \in 1 .. n |-> [a \in V |-> StripStep(a, i, s)]]
           k == CHOOSE k : StripFold(k, s)
<1>1. n \in Nat /\ DOMAIN s = 1 .. n /\ \A i \in 1 .. n : s[i] \in A
  BY LenProperties
<1>2. ids \in Seq(1 .. n) /\ DOMAIN ids = 1 .. n /\ Len(ids) = n /\ \A i \in 1 .. n : ids[i] = i
  BY <1>1 DEF Places
<1>3. b \in V
  BY EmptySeq
<1>4. ASSUME NEW i \in 1 .. n, NEW a \in V PROVE StripStep(a, i, s) \in V
  <2>1. a.kept \in Seq(A) /\ a.inside \in BOOLEAN /\ a = [kept |-> a.kept, inside |-> a.inside]
    OBVIOUS
  <2>2. Append(a.kept, s[i]) \in Seq(A) /\ Append(a.kept, "space") \in Seq(A)
    BY <1>1, <2>1, AppendProperties
  <2>5. \A e \in Seq(A), f \in BOOLEAN : [kept |-> e, inside |-> f] \in V
    OBVIOUS
  <2> HIDE DEF V
  <2>3. CASE a.inside
    <3> DEFINE still == s[i] # ">"
    <3>1. StripStep(a, i, s) = [kept |-> a.kept, inside |-> still]
      BY <2>1, <2>3 DEF StripStep
    <3>2. still \in BOOLEAN
      OBVIOUS
    <3> HIDE DEF still
    <3> QED
      BY <2>1, <2>5, <3>1, <3>2
  <2>4. CASE ~a.inside
    <3>1. \/ StripStep(a, i, s) = [kept |-> Append(a.kept, "space"), inside |-> TRUE]
          \/ StripStep(a, i, s) = [a EXCEPT !.kept = Append(@, s[i])]
      BY <2>4 DEF StripStep
    <3>2. [a EXCEPT !.kept = Append(@, s[i])] = [kept |-> Append(a.kept, s[i]), inside |-> a.inside]
      BY <2>1, KeptReplaced
    <3> QED
      BY <2>1, <2>2, <2>5, <3>1, <3>2
  <2> QED
    BY <2>3, <2>4
<1>5. F \in [1 .. n -> [V -> V]]
  BY <1>4
<1>6. \A i \in 1 .. n, a \in V : StripStep(a, i, s) = F[i][a]
  OBVIOUS
<1>7. StripTags(s) = k[1 .. n].kept
  BY <1>2, StripIsFold
<1>8. \A v \in V : v.kept \in Seq(A)
  OBVIOUS
<1> HIDE DEF F, k, b, ids, V
<1>9. PICK g : Solved(g, ids, V, b, F)
  BY <1>2, <1>3, <1>5, SequenceFoldsExist
<1>10. StripFold(g, s)
  <2>1. ASSUME NEW T \in SUBSET (1 .. n), T # {}
        PROVE  g[T] = StripStep(g[T \ {Max(T)}], ids[Max(T)], s)
    <3>1. Max(T) \in 1 .. n /\ g[T \ {Max(T)}] \in V
      BY <1>2, <1>9, <2>1 DEF Solved
    <3>2. g[T] = F[ids[Max(T)]][g[T \ {Max(T)}]]
      BY <1>2, <1>9, <2>1 DEF Solved
    <3> QED
      BY <1>2, <1>6, <3>1, <3>2
  <2> QED
    BY <1>2, <1>9, <2>1 DEF Solved, StripFold, ids, b
<1>11. StripFold(k, s)
  BY <1>10 DEF k
<1>12. Follows(k, ids, V, b, F)
  <2>1. ASSUME NEW T \in SUBSET (1 .. n), T # {}, k[T \ {Max(T)}] \in V
        PROVE  k[T] = F[ids[Max(T)]][k[T \ {Max(T)}]]
    <3>1. Max(T) \in 1 .. n
      BY <1>1, <2>1, LargestNumber
    <3>2. k[T] = StripStep(k[T \ {Max(T)}], ids[Max(T)], s)
      BY <1>2, <1>11, <2>1 DEF StripFold, ids
    <3> QED
      BY <1>2, <1>6, <2>1, <3>1, <3>2
  <2>2. k[{}] = b
    BY <1>2, <1>11 DEF StripFold, ids, b
  <2> QED
    BY <1>2, <2>1, <2>2 DEF Follows
<1>13. k[1 .. n] \in V
  <2> DEFINE D == 1 .. n
  <2>1. ids \in Seq(D) /\ n = Len(ids) /\ F \in [D -> [V -> V]]
    BY <1>2, <1>5
  <2> HIDE DEF D
  <2>2. k[1 .. Len(ids)] = Read(ids, V, b, F)
    BY <1>3, <1>12, <2>1, FoldReads
  <2>3. \E r \in [0 .. Len(ids) -> V] : Steps(r, ids, b, F) /\ Read(ids, V, b, F) = r[Len(ids)]
    BY <1>3, <2>1, ReadInSteps
  <2>4. Len(ids) \in 0 .. Len(ids)
    BY <1>1, <2>1
  <2> QED
    BY <2>1, <2>2, <2>3, <2>4
<1> QED
  BY <1>7, <1>8, <1>13

LEMMA SanitizedType ==
    ASSUME NEW A, "space" \in A, NEW s \in Seq(A)
    PROVE  Sanitize(s) \in Seq(A)
<1> DEFINE k == StripTags(s)
<1>1. k \in Seq(A)
  BY StripType
<1>2. Sanitize(s) = Joined(Runs(k, Blanks))
  BY DEF Sanitize, Joined, Spaced
<1>3. "space" \in A \cap Blanks /\ Blanks \subseteq Blanks
  BY DEF Blanks
<1> HIDE DEF k
<1> QED
  BY <1>1, <1>2, <1>3, RunsOfJoinedRuns

\* What the trie may hold: records whose words are folded.
Good(A, S) == IsFiniteSet(S) /\ S \subseteq {r \in Records(A) : r.word \in Seq(Low(A))}

LEMMA PostingsAreGood ==
    ASSUME NEW A, Lowered \subseteq A, NEW u \in Seq(A) \ {<<>>}, NEW o \in Seq(A), NEW d \in Nat,
           NEW tokens \in Seq(Seq(A) \ {<<>>})
    PROVE  Good(A, Postings(tokens, u, o, d))
<1> DEFINE n == Len(tokens)
           Fold(i) == TurkishFold(tokens[i])
           Times(w) == Quantify(DOMAIN tokens, LAMBDA i : TurkishFold(tokens[i]) = w)
           h == [i \in 1 .. n |-> [word |-> Fold(i), url |-> u, origin |-> o, depth |-> d,
                                   tf |-> Times(Fold(i))]]
           S == Postings(tokens, u, o, d)
<1>1. n \in Nat /\ DOMAIN tokens = 1 .. n /\ \A i \in 1 .. n : tokens[i] \in Seq(A) /\ tokens[i] # <<>>
  BY LenProperties
<1>2. Low(A) \subseteq A
  BY DEF Low
<1>3. \A i \in 1 .. n : Fold(i) \in Seq(Low(A)) /\ Fold(i) # <<>>
  BY <1>1, FoldedType
<1>4. \A i \in 1 .. n : Fold(i) \in Seq(A)
  BY <1>2, <1>3, SeqMonotonic
<1>5. \A i \in 1 .. n : Times(Fold(i)) \in Nat \ {0}
  <2>1. ASSUME NEW i \in 1 .. n PROVE Times(Fold(i)) \in Nat \ {0}
    <3> DEFINE Q == {j \in DOMAIN tokens : TurkishFold(tokens[j]) = TurkishFold(tokens[i])}
    <3>1. i \in Q /\ Q \subseteq 1 .. n
      BY <1>1
    <3>2. Times(Fold(i)) = Cardinality(Q)
      BY DEF Quantify
    <3> HIDE DEF Q
    <3>4. IsFiniteSet(1 .. n)
      BY <1>1, FS_Interval
    <3>3. IsFiniteSet(Q)
      BY <3>1, <3>4, FS_Subset
    <3> QED
      BY <3>1, <3>2, <3>3, FS_CardinalityType, FS_EmptySet
  <2> QED
    BY <2>1
<1>6. S = {h[i] : i \in 1 .. n}
  <2>1. S = {[word |-> w, url |-> u, origin |-> o, depth |-> d, tf |-> Times(w)]
                : w \in {Fold(i) : i \in 1 .. n}}
    BY <1>1 DEF Postings
  <2> HIDE DEF Fold, Times
  <2> QED
    BY <2>1
<1> HIDE DEF Fold, Times, S
<1>7. \A i \in 1 .. n : h[i] \in Records(A) /\ h[i].word \in Seq(Low(A))
  BY <1>3, <1>4, <1>5 DEF Records
<1>8. IsFiniteSet(S)
  <2>1. h \in Surjection(1 .. n, S)
    <3>1. DOMAIN h = 1 .. n /\ h = [i \in 1 .. n |-> h[i]]
      OBVIOUS
    <3> HIDE DEF h
    <3> QED
      BY <1>6, <3>1 DEF Surjection
  <2>2. IsFiniteSet(1 .. n)
    BY <1>1, FS_Interval
  <2> HIDE DEF h
  <2> QED
    BY <2>1, <2>2, FS_Surjection
<1> HIDE DEF h
<1> QED
  BY <1>6, <1>7, <1>8 DEF Good, S

-----------------------------------------------------------------------------
(* Export and import *)

\* Folding the words of good records changes none of them.
LEMMA GoodRecordsFolded ==
    ASSUME NEW A, NEW S, Good(A, S)
    PROVE  {[r EXCEPT !.word = TurkishFold(r.word)] : r \in S} = S
<1>1. ASSUME NEW r \in S PROVE [r EXCEPT !.word = TurkishFold(r.word)] = r
  <2>1. r.word \in Seq(Low(A)) /\ Low(A) \cap Capitals = {}
    BY DEF Good, Low
  <2>2. TurkishFold(r.word) = r.word
    BY <2>1, FoldedTwice
  <2>3. r \in Records(A)
    BY DEF Good
  <2>4. [r EXCEPT !.word = r.word] = r
    BY <2>3 DEF Records
  <2> QED
    BY <2>2, <2>4
<1> QED
  BY <1>1

\* The file of a finite set of good records has those records and no other.
LEMMA FileOfGood ==
    ASSUME NEW A, Special \cup Digit \subseteq A, NEW S, Good(A, S)
    PROVE  RecordsOf(FileOf(SetToSeq(S))) = S
<1>1. SetToSeq(S) \in Seq(S) /\ ToSet(SetToSeq(S)) = S
  BY Listed DEF Good
<1>2. S \subseteq Records(A)
  BY DEF Good
<1>3. SetToSeq(S) \in Seq(Records(A))
  BY <1>1, <1>2, SeqMonotonic
<1>4. \A rs \in Seq(Records(A)) : RecordsOf(FileOf(rs)) = ToSet(rs)
  BY FileIsParsed
<1> QED
  BY <1>1, <1>3, <1>4

\* The characters that pages, URLs and origins have, with those the shard files and the
\* folding add.
Alphabet(A) == A \cup Special \cup Digit \cup Lowered \cup {"space"}

Written(A) ==
    /\ Data \subseteq Seq(A)
    /\ PageUrls \subseteq Seq(A) \ {<<>>}
    /\ PageOrigins \subseteq Seq(A)

TextIn(B) == text \in Seq(B)

Kept(A) ==
    /\ phase = "indexed" => Good(Alphabet(A), index)
    /\ phase = "exported" => Good(Alphabet(A), indexed) /\ file = FileOf(SetToSeq(indexed))
    /\ phase = "booted" => index = indexed

LEMMA TextInSteps ==
    ASSUME NEW B, "space" \in B, Data \subseteq Seq(B), TextIn(B), [PNext]_pvars
    PROVE  TextIn(B)'
<1>1. text \in Seq(B) /\ Append(text, "space") \in Seq(B) /\ <<>> \in Seq(B)
  BY AppendProperties, EmptySeq DEF TextIn
<1>2. \A d \in Data : text \o d \in Seq(B)
  BY <1>1, ConcatProperties
<1>3. ASSUME text' \in Seq(B) PROVE TextIn(B)'
  BY <1>3 DEF TextIn
<1>4. ASSUME ParserEvent PROVE TextIn(B)'
  <2>1. ASSUME NEW t \in Tags, OpenElement(t) PROVE text' \in Seq(B)
    BY <1>1, <2>1 DEF OpenElement, HandleStarttag
  <2>2. ASSUME NEW t, HandleEndtag(t) PROVE text' \in Seq(B)
    BY <1>1, <2>2 DEF HandleEndtag
  <2>3. ASSUME NEW d \in Data, Text(d) PROVE text' \in Seq(B)
    BY <1>1, <1>2, <2>3 DEF Text, HandleData
  <2> QED
    BY <1>3, <1>4, <2>1, <2>2, <2>3 DEF ParserEvent, StrayEnd, CloseElement
<1>5. ASSUME NEW u, NEW o, NEW d, IndexPage(u, o, d) PROVE TextIn(B)'
  BY <1>1, <1>3, <1>5 DEF IndexPage, Renew
<1>6. ASSUME Export \/ Import \/ UNCHANGED pvars PROVE TextIn(B)'
  BY <1>1, <1>3, <1>6 DEF Export, Import, pvars, parser
<1> QED
  BY <1>4, <1>5, <1>6 DEF PNext, Parse

LEMMA TokensAreWords ==
    ASSUME NEW A, Lowered \subseteq A, "space" \in A, NEW s \in Seq(A)
    PROVE  Tokenize(Sanitize(s)) \in Seq(Seq(A) \ {<<>>})
<1> DEFINE clean == Sanitize(s)
           folded == TurkishFold(clean)
<1>1. clean \in Seq(A)
  BY SanitizedType
<1> HIDE DEF clean
<1>2. folded \in Seq(Low(A)) /\ Low(A) \subseteq A
  BY <1>1, FoldedType DEF Low
<1>3. Tokenize(clean) = Runs(folded, Chars \ Letters)
  BY DEF Tokenize
<1> HIDE DEF folded
<1>4. folded \in Seq(A)
  BY <1>2, SeqMonotonic
<1> QED
  BY <1>3, <1>4, RunsAreNotEmpty DEF clean

LEMMA KeptSteps ==
    ASSUME NEW A, Written(A), TextIn(Alphabet(A)), Kept(A), [PNext]_pvars
    PROVE  Kept(A)'
<1> DEFINE B == Alphabet(A)
<1>1. /\ Special \cup Digit \subseteq B /\ Lowered \subseteq B /\ "space" \in B
      /\ A \subseteq B /\ text \in Seq(B)
  BY DEF Alphabet, TextIn
<1>2. /\ phase = "indexed" => Good(B, index)
      /\ phase = "exported" => Good(B, indexed) /\ file = FileOf(SetToSeq(indexed))
      /\ phase = "booted" => index = indexed
  BY DEF Kept
<1> HIDE DEF B
<1>3. ASSUME NEW u \in PageUrls, NEW o \in PageOrigins, NEW d \in Depths, IndexPage(u, o, d)
      PROVE  Kept(A)'
  <2>1. u \in Seq(B) \ {<<>>} /\ o \in Seq(B)
    BY <1>1, SeqMonotonic DEF Written
  <2>2. d \in Nat
    BY DepthsAssumption
  <2> DEFINE tokens == Tokenize(GetText)
  <2>3. tokens \in Seq(Seq(B) \ {<<>>})
    BY <1>1, TokensAreWords DEF GetText
  <2>4. phase' = "indexed" /\ index' = Postings(tokens, u, o, d)
    BY <1>3 DEF IndexPage
  <2> HIDE DEF tokens
  <2>5. Good(B, Postings(tokens, u, o, d))
    BY <1>1, <2>1, <2>2, <2>3, PostingsAreGood
  <2>6. (phase = "indexed" => Good(B, index))'
    BY <2>4, <2>5
  <2> QED
    BY <2>4, <2>6 DEF Kept, B
<1>4. ASSUME Export PROVE Kept(A)'
  <2>1. phase = "indexed" /\ phase' = "exported" /\ file' = FileOf(SetToSeq(index)) /\ indexed' = index
    BY <1>4 DEF Export
  <2>2. Good(B, indexed)' /\ (file = FileOf(SetToSeq(indexed)))'
    BY <1>2, <2>1
  <2> QED
    BY <2>1, <2>2 DEF Kept, B
<1>5. ASSUME Import PROVE Kept(A)'
  <2>1. /\ phase = "exported" /\ phase' = "booted" /\ indexed' = indexed
        /\ index' = {[r EXCEPT !.word = TurkishFold(r.word)] : r \in RecordsOf(file)}
    BY <1>5 DEF Import
  <2>2. RecordsOf(file) = indexed
    BY <1>1, <1>2, <2>1, FileOfGood
  <2>3. {[r EXCEPT !.word = TurkishFold(r.word)] : r \in indexed} = indexed
    BY <1>2, <2>1, GoodRecordsFolded
  <2> QED
    BY <2>1, <2>2, <2>3 DEF Kept
<1>6. ASSUME Parse \/ UNCHANGED pvars PROVE Kept(A)'
  <2>1. UNCHANGED stored
    BY <1>6 DEF Parse, pvars
  <2> QED
    BY <2>1 DEF stored, Kept
<1> QED
  BY <1>3, <1>4, <1>5, <1>6 DEF PNext

\* A page's postings go through the shard file unchanged, whatever characters its text,
\* its URL and its origin have and however deep it was found: the escapes of
\* _encode_field() leave no tab and no line end in a field, _decode_field() undoes them,
\* the numbers read as they were written, and the words are folded once for all.
THEOREM PostingsSurviveTheFile == ASSUME NEW A, Written(A) PROVE PSpec => []RoundTripExact
<1> DEFINE B == Alphabet(A)
<1>1. "space" \in B /\ Data \subseteq Seq(B)
  <2>1. A \subseteq B /\ "space" \in B /\ Data \subseteq Seq(A)
    BY DEF Alphabet, Written
  <2> HIDE DEF B
  <2> QED
    BY <2>1, SeqMonotonic
<1>2. PInit => TextIn(B) /\ Kept(A)
  <2>1. <<>> \in Seq(B)
    BY EmptySeq
  <2> HIDE DEF B
  <2> QED
    BY <2>1 DEF PInit, Fresh, TextIn, Kept
<1>3. TextIn(B) /\ Kept(A) /\ [PNext]_pvars => (TextIn(B) /\ Kept(A))'
  BY <1>1, TextInSteps, KeptSteps
<1>4. Kept(A) => RoundTripExact
  BY DEF Kept, RoundTripExact
<1> QED
  BY <1>2, <1>3, <1>4, PTL DEF PSpec

-----------------------------------------------------------------------------
(* Searching *)

Sigmas == {"sigma", "Sigma", "finalsigma"}
Spelled == Readable \ Sigmas

\* What the tokenizer cuts at.
Apart == Chars \ Letters

\* Without sigmas the folding is letter by letter.
FoldedChar(c) == CASE c = "Idot" -> "i" [] c = "I" -> "idotless" [] c = "X" -> "x" [] OTHER -> c
FoldedWord(s) == [i \in DOMAIN s |-> FoldedChar(s[i])]
FoldedWords(ws) == [i \in DOMAIN ws |-> FoldedWord(ws[i])]

LEMMA FoldedCharType ==
    ASSUME NEW c \in Spelled
    PROVE  /\ FoldedChar(c) \in Spelled /\ FoldedChar(FoldedChar(c)) = FoldedChar(c)
           /\ FoldedChar(c) \in Apart <=> c \in Apart
BY DEF FoldedChar, Spelled, Sigmas, Readable, Chars, Letters, Ignorable, Blanks, Apart

LEMMA FoldedWordType ==
    ASSUME NEW s \in Seq(Spelled)
    PROVE  /\ FoldedWord(s) \in Seq(Spelled) /\ Len(FoldedWord(s)) = Len(s)
           /\ DOMAIN FoldedWord(s) = 1 .. Len(s)
           /\ \A i \in 1 .. Len(s) : s[i] \in Spelled /\ FoldedWord(s)[i] = FoldedChar(s[i])
           /\ FoldedWord(FoldedWord(s)) = FoldedWord(s)
           /\ FoldedWord(s) = <<>> <=> s = <<>>
<1> DEFINE n == Len(s)
           f == FoldedWord(s)
<1>1. n \in Nat /\ DOMAIN s = 1 .. n /\ \A i \in 1 .. n : s[i] \in Spelled
  BY LenProperties
<1>2. DOMAIN f = 1 .. n /\ \A i \in 1 .. n : f[i] = FoldedChar(s[i])
  BY <1>1 DEF FoldedWord
<1>3. f = [i \in 1 .. n |-> FoldedChar(s[i])]
  BY <1>1 DEF FoldedWord
<1>4. \A i \in 1 .. n : FoldedChar(s[i]) \in Spelled /\ FoldedChar(FoldedChar(s[i])) = FoldedChar(s[i])
  BY <1>1, FoldedCharType
<1>5. f \in Seq(Spelled) /\ Len(f) = n
  BY <1>1, <1>3, <1>4
<1> HIDE DEF f
<1>6. FoldedWord(f) = f
  <2>1. FoldedWord(f) = [i \in 1 .. n |-> FoldedChar(f[i])]
    BY <1>2 DEF FoldedWord
  <2>2. \A i \in 1 .. n : FoldedChar(f[i]) = f[i]
    BY <1>2, <1>4
  <2>3. f = [i \in 1 .. n |-> f[i]]
    BY <1>2, <1>3
  <2> QED
    BY <2>1, <2>2, <2>3
<1>7. f = <<>> <=> s = <<>>
  BY <1>5, EmptySeq
<1> QED
  BY <1>1, <1>2, <1>5, <1>6, <1>7 DEF f

LEMMA FoldIsLetterwise == ASSUME NEW s \in Seq(Spelled) PROVE TurkishFold(s) = FoldedWord(s)
<1> DEFINE n == Len(s)
           f == FoldedWord(s)
           t == [i \in DOMAIN s |-> FoldTable(s[i])]
           u == [i \in DOMAIN t |-> LowerAt(t, i)]
           G == [c \in Spelled |-> <<c>>]
<1>1. n \in Nat /\ DOMAIN s = 1 .. n /\ \A i \in 1 .. n : s[i] \in Spelled
  BY LenProperties
<1>2. f \in Seq(Spelled) /\ DOMAIN f = 1 .. n /\ \A i \in 1 .. n : f[i] = FoldedChar(s[i])
  BY FoldedWordType
<1>3. DOMAIN t = 1 .. n /\ \A i \in 1 .. n : t[i] = FoldTable(s[i])
  BY <1>1
<1> HIDE DEF t, f
<1>4. \A i \in 1 .. n : LowerAt(t, i) = <<f[i]>>
  <2>1. ASSUME NEW i \in 1 .. n PROVE LowerAt(t, i) = <<f[i]>>
    <3>1. s[i] \notin Sigmas
      BY <1>1 DEF Spelled
    <3> QED
      BY <1>2, <1>3, <3>1 DEF LowerAt, FoldTable, FoldedChar, Sigmas
  <2> QED
    BY <2>1
<1>5. \A i \in 1 .. n : G[f[i]] = <<f[i]>>
  <2>1. \A i \in 1 .. n : f[i] \in Spelled
    BY <1>2, LenProperties
  <2> QED
    BY <2>1
<1>6. \A c \in Spelled : G[c] = <<c>>
  OBVIOUS
<1> HIDE DEF G
<1>7. u = [i \in DOMAIN f |-> G[f[i]]]
  BY <1>2, <1>3, <1>4, <1>5
<1>8. TurkishFold(s) = FlattenSeq(u)
  BY DEF TurkishFold, t
<1>9. Rewritten(f, G) = f
  BY <1>2, <1>6, RewrittenSame
<1> HIDE DEF u
<1> QED
  BY <1>7, <1>8, <1>9 DEF Rewritten, f

LEMMA FoldedWordAppend ==
    ASSUME NEW s \in Seq(Spelled), NEW c \in Spelled
    PROVE  FoldedWord(Append(s, c)) = Append(FoldedWord(s), FoldedChar(c))
<1> DEFINE n == Len(s)
           f == FoldedWord(s)
           t == Append(s, c)
           g == Append(f, FoldedChar(c))
<1>1. n \in Nat /\ f \in Seq(Spelled) /\ Len(f) = n /\ \A i \in 1 .. n : f[i] = FoldedChar(s[i])
  BY FoldedWordType, LenProperties
<1>2. t \in Seq(Spelled) /\ Len(t) = n + 1 /\ t[n + 1] = c /\ \A i \in 1 .. n : t[i] = s[i]
  BY AppendProperties
<1>3. FoldedChar(c) \in Spelled
  BY FoldedCharType
<1> HIDE DEF f, t
<1>4. g \in Seq(Spelled) /\ Len(g) = n + 1 /\ g[n + 1] = FoldedChar(c) /\ \A i \in 1 .. n : g[i] = f[i]
  BY <1>1, <1>3, Grown
<1> HIDE DEF g
<1>5. FoldedWord(t) \in Seq(Spelled) /\ Len(FoldedWord(t)) = n + 1
      /\ \A i \in 1 .. n + 1 : FoldedWord(t)[i] = FoldedChar(t[i])
  BY <1>2, FoldedWordType
<1>6. \A i \in 1 .. n + 1 : i \in 1 .. n \/ i = n + 1
  BY <1>1
<1>7. \A i \in 1 .. n + 1 : FoldedWord(t)[i] = g[i]
  BY <1>1, <1>2, <1>4, <1>5, <1>6
<1>8. FoldedWord(t) = g
  BY <1>4, <1>5, <1>7, SeqEqual
<1> QED
  BY <1>8 DEF t, g, f

LEMMA FoldedWordsType ==
    ASSUME NEW ws \in Seq(Seq(Spelled))
    PROVE  /\ FoldedWords(ws) \in Seq(Seq(Spelled)) /\ Len(FoldedWords(ws)) = Len(ws)
           /\ \A i \in 1 .. Len(ws) : ws[i] \in Seq(Spelled) /\ FoldedWords(ws)[i] = FoldedWord(ws[i])
<1> DEFINE n == Len(ws)
           W == Seq(Spelled)
<1>1. n \in Nat /\ DOMAIN ws = 1 .. n /\ \A i \in 1 .. n : ws[i] \in W
  BY LenProperties
<1>2. \A i \in 1 .. n : FoldedWord(ws[i]) \in W
  BY <1>1, FoldedWordType
<1> HIDE DEF W
<1>3. FoldedWords(ws) = [i \in 1 .. n |-> FoldedWord(ws[i])]
  BY <1>1 DEF FoldedWords
<1>4. FoldedWords(ws) \in Seq(W) /\ Len(FoldedWords(ws)) = n
  BY <1>1, <1>2, <1>3
<1> QED
  BY <1>1, <1>3, <1>4 DEF W

LEMMA FoldedWordsAppend ==
    ASSUME NEW ws \in Seq(Seq(Spelled)), NEW w \in Seq(Spelled)
    PROVE  FoldedWords(Append(ws, w)) = Append(FoldedWords(ws), FoldedWord(w))
<1> DEFINE n == Len(ws)
           W == Seq(Spelled)
           f == FoldedWords(ws)
           t == Append(ws, w)
           g == Append(f, FoldedWord(w))
<1>1. ws \in Seq(W) /\ w \in W /\ n \in Nat /\ f \in Seq(W) /\ Len(f) = n
      /\ \A i \in 1 .. n : f[i] = FoldedWord(ws[i])
  BY FoldedWordsType, LenProperties
<1>2. FoldedWord(w) \in W
  BY FoldedWordType
<1>3. \A x \in Seq(W) : /\ FoldedWords(x) \in Seq(W) /\ Len(FoldedWords(x)) = Len(x)
                        /\ \A i \in 1 .. Len(x) : FoldedWords(x)[i] = FoldedWord(x[i])
  BY FoldedWordsType
<1> HIDE DEF W, f
<1>4. t \in Seq(W) /\ Len(t) = n + 1 /\ t[n + 1] = w /\ \A i \in 1 .. n : t[i] = ws[i]
  BY <1>1, Grown
<1>5. g \in Seq(W) /\ Len(g) = n + 1 /\ g[n + 1] = FoldedWord(w) /\ \A i \in 1 .. n : g[i] = f[i]
  BY <1>1, <1>2, Grown
<1> HIDE DEF t, g
<1>6. FoldedWords(t) \in Seq(W) /\ Len(FoldedWords(t)) = n + 1
      /\ \A i \in 1 .. n + 1 : FoldedWords(t)[i] = FoldedWord(t[i])
  BY <1>3, <1>4
<1>7. \A i \in 1 .. n + 1 : i \in 1 .. n \/ i = n + 1
  <2>1. n \in Nat
    BY <1>1
  <2> HIDE DEF n
  <2> QED
    BY <2>1
<1>8. \A i \in 1 .. n + 1 : FoldedWords(t)[i] = g[i]
  BY <1>1, <1>4, <1>5, <1>6, <1>7
<1>9. FoldedWords(t) = g
  BY <1>5, <1>6, <1>8, SeqEqual
<1> QED
  BY <1>9 DEF t, g, f

\* Folding moves no boundary between words.
LEMMA FoldedRuns ==
    \A s \in Seq(Spelled) :
        /\ Runs(s, Apart) \in Seq(Seq(Spelled))
        /\ Runs(FoldedWord(s), Apart) = FoldedWords(Runs(s, Apart))
<1> DEFINE Go(s) == RunState(s, Apart)
           P == {s \in Seq(Spelled) :
                    Go(FoldedWord(s)) = [runs |-> FoldedWords(Go(s).runs), run |-> FoldedWord(Go(s).run)]}
<1>1. \A s \in Seq(Spelled) : /\ Go(s).runs \in Seq(Seq(Spelled)) /\ Go(s).run \in Seq(Spelled)
                              /\ Go(s) = [runs |-> Go(s).runs, run |-> Go(s).run]
  BY RunTypes
<1>2. FoldedWord(<<>>) = <<>> /\ FoldedWords(<<>>) = <<>>
  BY DEF FoldedWord, FoldedWords
<1>3. <<>> \in P
  <2>1. Go(<<>>) = [runs |-> <<>>, run |-> <<>>]
    BY RunOfNone DEF Begun
  <2> HIDE DEF Go
  <2> QED
    BY <1>2, <2>1, EmptySeq
<1>4. ASSUME NEW s \in Seq(Spelled), NEW c \in Spelled, s \in P PROVE Append(s, c) \in P
  <2> DEFINE rs == Go(s).runs
             r == Go(s).run
             f == FoldedWord(s)
             e == FoldedChar(c)
             t == Append(s, c)
  <2>1. /\ rs \in Seq(Seq(Spelled)) /\ r \in Seq(Spelled) /\ Go(s) = [runs |-> rs, run |-> r]
    BY <1>1
  <2>2. Go(f) = [runs |-> FoldedWords(rs), run |-> FoldedWord(r)]
    BY <1>4
  <2>3. f \in Seq(Spelled) /\ e \in Spelled /\ (e \in Apart <=> c \in Apart)
    BY FoldedWordType, FoldedCharType
  <2>4. FoldedWord(t) = Append(f, e) /\ t \in Seq(Spelled)
    BY FoldedWordAppend, AppendProperties
  <2>5. Go(t) = RunStep(Go(s), c, Apart)
    BY RunOfAppend
  <2>6. Go(Append(f, e)) = RunStep(Go(f), e, Apart)
    <3> HIDE DEF f, e
    <3> QED
      BY <2>3, RunOfAppend
  <2>7. FoldedWords(Append(rs, r)) = Append(FoldedWords(rs), FoldedWord(r))
    BY <2>1, FoldedWordsAppend
  <2>8. FoldedWord(Append(r, c)) = Append(FoldedWord(r), e)
    BY <2>1, FoldedWordAppend
  <2>9. FoldedWord(r) = <<>> <=> r = <<>>
    BY <2>1, FoldedWordType
  <2>13. c \notin Apart => Go(t) = [runs |-> rs, run |-> Append(r, c)]
    BY RunOfLetter
  <2>14. e \notin Apart => Go(Append(f, e)) = [runs |-> Go(f).runs, run |-> Append(Go(f).run, e)]
    <3> HIDE DEF f, e
    <3> QED
      BY <2>3, RunOfLetter
  <2> SUFFICES Go(FoldedWord(t)) = [runs |-> FoldedWords(Go(t).runs), run |-> FoldedWord(Go(t).run)]
    BY <2>4
  <2> HIDE DEF Go, rs, r, f, e, t
  <2>10. CASE c \in Apart /\ r = <<>>
    <3>1. Go(t) = [runs |-> rs, run |-> r]
      BY <2>1, <2>5, <2>10 DEF RunStep
    <3>2. Go(Append(f, e)) = [runs |-> FoldedWords(rs), run |-> FoldedWord(r)]
      BY <2>2, <2>3, <2>6, <2>9, <2>10 DEF RunStep
    <3> QED
      BY <2>4, <3>1, <3>2
  <2>11. CASE c \in Apart /\ r # <<>>
    <3> DEFINE more == Append(rs, r)
               moref == Append(FoldedWords(rs), FoldedWord(r))
               e0 == <<>>
    <3>1. Go(t) = [runs |-> more, run |-> e0]
      BY <2>1, <2>5, <2>11 DEF RunStep
    <3>2. Go(FoldedWord(t)) = [runs |-> moref, run |-> e0]
      BY <2>2, <2>3, <2>4, <2>6, <2>9, <2>11 DEF RunStep
    <3>3. FoldedWords(more) = moref /\ FoldedWord(e0) = e0
      BY <1>2, <2>7
    <3> HIDE DEF more, moref, e0
    <3> QED
      BY <3>1, <3>2, <3>3
  <2>12. CASE c \notin Apart
    <3> DEFINE more == Append(r, c)
               moref == Append(FoldedWord(r), e)
    <3>1. Go(t) = [runs |-> rs, run |-> more]
      BY <2>12, <2>13
    <3>2. Go(FoldedWord(t)) = [runs |-> FoldedWords(rs), run |-> moref]
      BY <2>2, <2>3, <2>4, <2>12, <2>14
    <3>3. FoldedWord(more) = moref
      BY <2>8
    <3> HIDE DEF more, moref
    <3> QED
      BY <3>1, <3>2, <3>3
  <2> QED
    BY <2>10, <2>11, <2>12
<1> HIDE DEF P, Go
<1>5. \A s \in Seq(Spelled) : s \in P
  BY <1>3, <1>4, SequenceInduction
<1>6. ASSUME NEW s \in Seq(Spelled)
      PROVE  /\ Runs(s, Apart) \in Seq(Seq(Spelled))
             /\ Runs(FoldedWord(s), Apart) = FoldedWords(Runs(s, Apart))
  <2> DEFINE rs == Go(s).runs
             r == Go(s).run
             f == FoldedWord(s)
  <2>1. rs \in Seq(Seq(Spelled)) /\ r \in Seq(Spelled)
    BY <1>1
  <2>2. Go(f) = [runs |-> FoldedWords(rs), run |-> FoldedWord(r)]
    BY <1>5 DEF P
  <2>3. Runs(s, Apart) = IF r = <<>> THEN rs ELSE Append(rs, r)
    BY RunsSplit DEF Go
  <2>4. Runs(f, Apart) = IF Go(f).run = <<>> THEN Go(f).runs ELSE Append(Go(f).runs, Go(f).run)
    <3> HIDE DEF f
    <3> QED
      BY RunsSplit DEF Go
  <2> HIDE DEF rs, r, f
  <2>5. FoldedWord(r) = <<>> <=> r = <<>>
    BY <2>1, FoldedWordType
  <2>6. FoldedWords(Append(rs, r)) = Append(FoldedWords(rs), FoldedWord(r))
    BY <2>1, FoldedWordsAppend
  <2>7. Append(rs, r) \in Seq(Seq(Spelled))
    <3> DEFINE W == Seq(Spelled)
    <3> HIDE DEF W
    <3>1. rs \in Seq(W) /\ r \in W
      BY <2>1 DEF W
    <3> QED
      BY <3>1, AppendProperties DEF W
  <2>8. Runs(s, Apart) \in Seq(Seq(Spelled))
    BY <2>1, <2>3, <2>7
  <2>9. Runs(f, Apart) = FoldedWords(Runs(s, Apart))
    <3> DEFINE more == Append(rs, r)
               moref == Append(FoldedWords(rs), FoldedWord(r))
    <3>1. Runs(s, Apart) = IF r = <<>> THEN rs ELSE more
      BY <2>3
    <3>2. Runs(f, Apart) = IF r = <<>> THEN FoldedWords(rs) ELSE moref
      BY <2>2, <2>4, <2>5
    <3>3. FoldedWords(more) = moref
      BY <2>6
    <3> HIDE DEF more, moref
    <3> QED
      BY <3>1, <3>2, <3>3
  <2> QED
    BY <2>8, <2>9 DEF f
<1> QED
  BY <1>6

\* A word is one run.
LEMMA OneRun ==
    ASSUME NEW A, NEW Sep, A \cap Sep = {}
    PROVE  \A s \in Seq(A) : s # <<>> => Runs(s, Sep) = <<s>>
<1> DEFINE P == {s \in Seq(A) : RunState(s, Sep) = [runs |-> <<>>, run |-> s]}
<1>1. <<>> \in P
  BY RunOfNone, EmptySeq DEF Begun
<1>2. ASSUME NEW s \in Seq(A), NEW c \in A, s \in P PROVE Append(s, c) \in P
  <2>1. RunState(Append(s, c), Sep) = [runs |-> RunState(s, Sep).runs, run |-> Append(RunState(s, Sep).run, c)]
    BY RunOfLetter
  <2>2. RunState(s, Sep) = [runs |-> <<>>, run |-> s]
    BY <1>2
  <2> QED
    BY <2>1, <2>2, AppendProperties
<1> HIDE DEF P
<1>3. \A s \in Seq(A) : s \in P
  BY <1>1, <1>2, SequenceInduction
<1>4. ASSUME NEW s \in Seq(A), s # <<>> PROVE Runs(s, Sep) = <<s>>
  <2>1. RunState(s, Sep) = [runs |-> <<>>, run |-> s]
    BY <1>3 DEF P
  <2>4. RunState(s, Sep).run # <<>>
    BY <1>4, <2>1
  <2>2. Runs(s, Sep) = Append(RunState(s, Sep).runs, RunState(s, Sep).run)
    BY <2>4, RunsSplit
  <2>3. Append(<<>>, s) = <<s>>
    OBVIOUS
  <2> QED
    BY <2>1, <2>2, <2>3
<1> QED
  BY <1>4

\* What a Turkish reader takes for the same word is folded to the same word.
LEMMA SameLetterIsFolded ==
    ASSUME NEW c \in Letters \ Sigmas, NEW d \in Spelled
    PROVE  SameLetter(c, d) <=> FoldedChar(c) = FoldedChar(d)
<1> DEFINE Pairs ==
             \/ c = d
             \/ c = "i" /\ d = "Idot"
             \/ c = "Idot" /\ d = "i"
             \/ c = "idotless" /\ d = "I"
             \/ c = "I" /\ d = "idotless"
             \/ c = "x" /\ d = "X"
             \/ c = "X" /\ d = "x"
<1>1. SameLetter(c, d) <=> Pairs
  <2>1. \A x, y : {c, d} = {x, y} => (c = x /\ d = y) \/ (c = y /\ d = x)
    OBVIOUS
  <2>2. \A x, y : (c = x /\ d = y) \/ (c = y /\ d = x) => {c, d} = {x, y}
    OBVIOUS
  <2>3. ~({c, d} \subseteq {"sigma", "Sigma", "finalsigma"})
    BY DEF Sigmas
  <2>4. SameLetter(c, d) <=> \/ c = d
                             \/ {c, d} = {"i", "Idot"}
                             \/ {c, d} = {"idotless", "I"}
                             \/ {c, d} = {"x", "X"}
    BY <2>3 DEF SameLetter
  <2> QED
    BY <2>1, <2>2, <2>4
<1>2. c \in {"x", "X", "i", "I", "Idot", "idotless"}
  BY DEF Letters, Sigmas
<1>3. FoldedChar(c) = FoldedChar(d) <=> Pairs
  BY <1>2 DEF FoldedChar
<1> HIDE DEF Pairs
<1> QED
  BY <1>1, <1>3

LEMMA SameWordIsFolded ==
    ASSUME NEW v \in Seq(Letters \ Sigmas), NEW w \in Seq(Spelled)
    PROVE  SameWord(v, w) <=> FoldedWord(v) = FoldedWord(w)
<1> DEFINE f == FoldedWord(v)
           g == FoldedWord(w)
<1>1. v \in Seq(Spelled)
  <2>1. Letters \ Sigmas \subseteq Spelled
    BY DEF Letters, Spelled, Readable, Chars
  <2> QED
    BY <2>1, SeqMonotonic
<1>2. /\ Len(v) \in Nat /\ DOMAIN v = 1 .. Len(v)
      /\ \A i \in 1 .. Len(v) : v[i] \in Letters \ Sigmas
  BY LenProperties
<1>3. /\ f \in Seq(Spelled) /\ Len(f) = Len(v) /\ \A i \in 1 .. Len(v) : f[i] = FoldedChar(v[i])
  BY <1>1, FoldedWordType
<1>4. /\ g \in Seq(Spelled) /\ Len(g) = Len(w)
      /\ \A i \in 1 .. Len(w) : w[i] \in Spelled /\ g[i] = FoldedChar(w[i])
  BY FoldedWordType
<1> HIDE DEF f, g
<1>5. ASSUME Len(v) = Len(w)
      PROVE  \A i \in 1 .. Len(v) : SameLetter(v[i], w[i]) <=> f[i] = g[i]
  BY <1>2, <1>3, <1>4, <1>5, SameLetterIsFolded
<1>6. SameWord(v, w) => f = g
  <2> SUFFICES ASSUME SameWord(v, w) PROVE f = g
    OBVIOUS
  <2>1. Len(v) = Len(w) /\ \A i \in 1 .. Len(v) : SameLetter(v[i], w[i])
    BY <1>2 DEF SameWord
  <2>2. Len(f) = Len(g) /\ \A i \in 1 .. Len(f) : f[i] = g[i]
    BY <1>3, <1>4, <1>5, <2>1
  <2> QED
    BY <1>3, <1>4, <2>2, SeqEqual
<1>7. f = g => SameWord(v, w)
  <2> SUFFICES ASSUME f = g PROVE SameWord(v, w)
    OBVIOUS
  <2>1. Len(v) = Len(w)
    BY <1>3, <1>4
  <2> QED
    BY <1>2, <1>5, <2>1 DEF SameWord
<1> QED
  BY <1>6, <1>7 DEF f, g

\* Neither the pages nor the users write sigmas, whose lower case depends on what is
\* around them.
NoSigmas ==
    /\ Data \subseteq Seq(Spelled)
    /\ SearchWords \subseteq Seq(Letters \ Sigmas) \ {<<>>}

\* The words of the records are those of the page, folded.
HasWords(S) == page \subseteq Seq(Spelled) /\ {r.word : r \in S} = {FoldedWord(w) : w \in page}

Seen ==
    /\ phase = "indexed" => HasWords(index)
    /\ phase \in {"exported", "booted"} => HasWords(indexed)

LEMMA SpelledChars ==
    /\ "<" \notin Spelled /\ "space" \in Spelled /\ Spelled \subseteq Readable
    /\ Letters \ Sigmas \subseteq Spelled /\ Blanks \subseteq Apart
    /\ (Letters \ Sigmas) \cap Apart = {}
BY DEF Spelled, Sigmas, Readable, Chars, Letters, Ignorable, Blanks, Apart

LEMMA TokensOfText ==
    ASSUME TextIn(Spelled), XInv
    PROVE  LET ws == Runs(shown, NotAlnum)
           IN  ws \in Seq(Seq(Spelled)) /\ Tokenize(GetText) = FoldedWords(ws)
<1> DEFINE g == GetText
           ws == Runs(text, Apart)
<1>1. text \in Seq(Spelled)
  BY DEF TextIn
<1>2. g \in Seq(Spelled) /\ Runs(g, Apart) = ws
  BY <1>1, SpelledChars, SanitizeKeepsRuns DEF GetText
<1>3. ws = Runs(shown, NotAlnum)
  BY RunsSplit DEF XInv, Alike, Apart
<1>4. Tokenize(g) = Runs(TurkishFold(g), Apart)
  BY DEF Tokenize, Apart
<1> HIDE DEF g
<1>5. TurkishFold(g) = FoldedWord(g)
  BY <1>2, FoldIsLetterwise
<1>6. Runs(g, Apart) \in Seq(Seq(Spelled)) /\ Runs(FoldedWord(g), Apart) = FoldedWords(Runs(g, Apart))
  BY <1>2, FoldedRuns
<1> HIDE DEF ws
<1> QED
  BY <1>2, <1>3, <1>4, <1>5, <1>6 DEF g

LEMMA PostedWords ==
    ASSUME NEW ws \in Seq(Seq(Spelled)), NEW u, NEW o, NEW d
    PROVE  /\ ToSet(ws) \subseteq Seq(Spelled)
           /\ {r.word : r \in Postings(FoldedWords(ws), u, o, d)} = {FoldedWord(w) : w \in ToSet(ws)}
<1> DEFINE n == Len(ws)
           ts == FoldedWords(ws)
           Times(w) == Quantify(DOMAIN ts, LAMBDA i : TurkishFold(ts[i]) = w)
           Record(w) == [word |-> w, url |-> u, origin |-> o, depth |-> d, tf |-> Times(w)]
           Q == {TurkishFold(ts[i]) : i \in DOMAIN ts}
<1>1. DOMAIN ws = 1 .. n /\ \A i \in 1 .. n : ws[i] \in Seq(Spelled)
  BY LenProperties
<1>2. DOMAIN ts = 1 .. n /\ \A i \in 1 .. n : ts[i] = FoldedWord(ws[i])
  BY <1>1 DEF FoldedWords
<1>3. \A i \in 1 .. n : TurkishFold(ts[i]) = FoldedWord(ws[i])
  <2>1. ASSUME NEW i \in 1 .. n PROVE TurkishFold(FoldedWord(ws[i])) = FoldedWord(ws[i])
    <3> DEFINE w == ws[i]
               f == FoldedWord(w)
    <3>1. w \in Seq(Spelled)
      BY <1>1
    <3>2. f \in Seq(Spelled) /\ FoldedWord(f) = f
      BY <3>1, FoldedWordType
    <3> HIDE DEF f
    <3>3. TurkishFold(f) = FoldedWord(f)
      BY <3>2, FoldIsLetterwise
    <3> QED
      BY <3>2, <3>3 DEF f
  <2> QED
    BY <1>2, <2>1
<1>4. Postings(ts, u, o, d) = {Record(w) : w \in Q}
  BY DEF Postings
<1>5. \A w : Record(w).word = w
  OBVIOUS
<1> HIDE DEF ts, Times, Record
<1>6. {r.word : r \in {Record(w) : w \in Q}} = Q
  <2> HIDE DEF Q
  <2> QED
    BY <1>5
<1>7. Q = {FoldedWord(ws[i]) : i \in 1 .. n}
  BY <1>2, <1>3
<1>8. ToSet(ws) = {ws[i] : i \in 1 .. n}
  BY <1>1 DEF ToSet
<1> HIDE DEF Q
<1>9. Q = {FoldedWord(w) : w \in ToSet(ws)}
  BY <1>7, <1>8
<1>10. ToSet(ws) \subseteq Seq(Spelled)
  BY <1>1, <1>8
<1> QED
  BY <1>4, <1>6, <1>9, <1>10 DEF ts

LEMMA SeenSteps ==
    ASSUME TextIn(Spelled), XInv, Seen, [PNext]_pvars
    PROVE  Seen'
<1>1. ASSUME NEW u, NEW o, NEW d, IndexPage(u, o, d) PROVE Seen'
  <2> DEFINE ws == Runs(shown, NotAlnum)
  <2>1. ws \in Seq(Seq(Spelled)) /\ Tokenize(GetText) = FoldedWords(ws)
    BY TokensOfText
  <2>2. page' = ToSet(ws) /\ index' = Postings(Tokenize(GetText), u, o, d) /\ phase' = "indexed"
    BY <1>1 DEF IndexPage
  <2> HIDE DEF ws
  <2>3. page' \subseteq Seq(Spelled) /\ {r.word : r \in index'} = {FoldedWord(w) : w \in page'}
    BY <2>1, <2>2, PostedWords
  <2> QED
    BY <2>2, <2>3 DEF Seen, HasWords
<1>2. ASSUME Export PROVE Seen'
  <2>1. phase = "indexed" /\ phase' = "exported" /\ indexed' = index /\ page' = page
    BY <1>2 DEF Export
  <2> QED
    BY <2>1 DEF Seen, HasWords
<1>3. ASSUME Import PROVE Seen'
  <2>1. phase = "exported" /\ phase' = "booted" /\ indexed' = indexed /\ page' = page
    BY <1>3 DEF Import
  <2> QED
    BY <2>1 DEF Seen, HasWords
<1>4. ASSUME Parse \/ UNCHANGED pvars PROVE Seen'
  <2>1. UNCHANGED stored
    BY <1>4 DEF Parse, pvars
  <2> QED
    BY <2>1 DEF stored, Seen, HasWords
<1> QED
  BY <1>1, <1>2, <1>3, <1>4 DEF PNext

LEMMA FoundMeans ==
    ASSUME NEW q \in Seq(Letters \ Sigmas), q # <<>>
    PROVE  FoundFor(q) # {} <=> \E r \in index : r.word = FoldedWord(q)
<1> DEFINE f == FoldedWord(q)
<1>1. q \in Seq(Spelled)
  BY SpelledChars, SeqMonotonic
<1>2. f \in Seq(Spelled) /\ f # <<>> /\ FoldedWord(f) = f
  BY <1>1, FoldedWordType
<1>3. TurkishFold(q) = f
  BY <1>1, FoldIsLetterwise
<1>4. Runs(q, Apart) = <<q>>
  BY SpelledChars, OneRun
<1>5. Runs(f, Apart) = FoldedWords(<<q>>)
  BY <1>1, <1>4, FoldedRuns
<1>6. FoldedWords(<<q>>) = <<f>>
  BY DEF FoldedWords
<1> HIDE DEF f
<1>7. Tokenize(q) = <<f>>
  BY <1>3, <1>5, <1>6 DEF Tokenize, Apart
<1>8. TurkishFold(f) = f
  BY <1>2, FoldIsLetterwise
<1>9. FoundFor(q) = {r \in index : r.word = f}
  <2> DEFINE ts == Tokenize(q)
  <2>1. DOMAIN ts = {1} /\ ts[1] = f
    BY <1>7
  <2> HIDE DEF ts
  <2>2. \A r : (\E i \in DOMAIN ts : TurkishFold(ts[i]) = r.word) <=> r.word = f
    BY <1>8, <2>1
  <2> QED
    BY <2>2 DEF FoundFor, ts
<1> QED
  BY <1>9 DEF f

LEMMA SeenIsFound == ASSUME NoSigmas, Seen, RoundTripExact PROVE FindsWhatIsShown
<1> SUFFICES ASSUME phase \in {"indexed", "booted"}, NEW q \in SearchWords
             PROVE  FoundFor(q) # {} <=> \E w \in page : SameWord(q, w)
  BY DEF FindsWhatIsShown
<1>1. page \subseteq Seq(Spelled) /\ {r.word : r \in index} = {FoldedWord(w) : w \in page}
  BY DEF Seen, HasWords, RoundTripExact
<1>2. q \in Seq(Letters \ Sigmas) /\ q # <<>>
  BY DEF NoSigmas
<1>3. FoundFor(q) # {} <=> FoldedWord(q) \in {r.word : r \in index}
  BY <1>2, FoundMeans
<1>4. FoldedWord(q) \in {FoldedWord(w) : w \in page} <=> \E w \in page : FoldedWord(q) = FoldedWord(w)
  OBVIOUS
<1>5. \A w \in page : SameWord(q, w) <=> FoldedWord(q) = FoldedWord(w)
  BY <1>1, <1>2, SameWordIsFolded
<1> QED
  BY <1>1, <1>3, <1>4, <1>5

\* On pages whose blocks are the parser's, without sigmas and without "<" from entities, a
\* search finds the page for every word a reader saw on it and for no other, in whatever
\* case either of them wrote the letters, before a restart and after it: a word is folded
\* once on its way into the index, once more at the insert and once more at the import,
\* and the query side folds what the user typed, and all of them agree.
THEOREM SearchesFindWhatIsShown ==
    ASSUME NEW A, Written(A), Rendered, NoSigmas
    PROVE  PSpec => []FindsWhatIsShown
<1>1. CleanData /\ Data \subseteq Seq(Spelled) /\ "space" \in Spelled
  BY SpelledChars, SeqMonotonic DEF CleanData, NoSigmas
<1>2. PInit => TextIn(Spelled) /\ Seen
  <2>1. <<>> \in Seq(Spelled)
    BY EmptySeq
  <2> QED
    BY <2>1 DEF PInit, Fresh, TextIn, Seen
<1>3. TextIn(Spelled) /\ XInv /\ Seen /\ [PNext]_pvars => (TextIn(Spelled) /\ Seen)'
  BY <1>1, TextInSteps, SeenSteps
<1>4. PSpec => [](FInv /\ XInv)
  BY <1>1, XInvHolds
<1>5. PSpec => []RoundTripExact
  BY PostingsSurviveTheFile
<1>6. Seen /\ RoundTripExact => FindsWhatIsShown
  BY SeenIsFound
<1> QED
  BY <1>2, <1>3, <1>4, <1>5, <1>6, PTL DEF PSpec

=============================================================================
