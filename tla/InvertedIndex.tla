---------------------------- MODULE InvertedIndex ----------------------------
(***************************************************************************)
(* What the inverted index promises, without nodes, flags or counters: for *)
(* every word and URL a posting that sums up the occurrences recorded      *)
(* since it was last forgotten.  AtlasTrie implements it.                  *)
(***************************************************************************)
EXTENDS Integers

CONSTANTS Words, Urls, Origins, Depths, NoPosting

VARIABLE postings

IPosting == [tf : Nat \ {0}, depth : Depths, origin : Origins]
ITypeOK == postings \in [Words -> [Urls -> IPosting \cup {NoPosting}]]

IInit == postings = [w \in Words |-> [u \in Urls |-> NoPosting]]

\* q sums up what p did and one more occurrence: the shallowest depth and the
\* first origin stay.
Adds(p, q, d, o) ==
    \/ /\ p = NoPosting
       /\ q = [tf |-> 1, depth |-> d, origin |-> o]
    \/ /\ p # NoPosting /\ q # NoPosting
       /\ q.tf = p.tf + 1 /\ q.origin = p.origin
       /\ q.depth \in {d, p.depth} /\ q.depth <= d /\ q.depth <= p.depth

Occurs(w, u, d, o) ==
    /\ Adds(postings[w][u], postings'[w][u], d, o)
    /\ \A v \in Words, x \in Urls :
            <<v, x>> # <<w, u>> => postings'[v][x] = postings[v][x]
    /\ ITypeOK'

\* Every posting of one origin disappears, and no other.
Forget(o) ==
    postings' = [w \in Words |-> [u \in Urls |->
        IF postings[w][u] # NoPosting /\ postings[w][u].origin = o
        THEN NoPosting ELSE postings[w][u]]]

Wipe == postings' = [w \in Words |-> [u \in Urls |-> NoPosting]]

INext ==
    \/ \E w \in Words, u \in Urls, d \in Depths, o \in Origins : Occurs(w, u, d, o)
    \/ \E o \in Origins : Forget(o)
    \/ Wipe

ISpec == IInit /\ [][INext]_postings
=============================================================================
