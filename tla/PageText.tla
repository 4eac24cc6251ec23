------------------------------ MODULE PageText ------------------------------
(***************************************************************************)
(* A page on its way into the index and back: the parser's callbacks,      *)
(* get_text() and get_snippet(), the tokens that _index_tokens() inserts,  *)
(* the shard file and the import at the next boot; and the query side,     *)
(* which folds and tokenizes by the same functions.  It composes the three *)
(* modules of text functions, whose agreement is the point.                *)
(***************************************************************************)
EXTENDS HtmlParser, Normalize, ShardCodec, FiniteSets, FiniteSetsExt

CONSTANTS
    PageUrls, PageOrigins,  \* strings
    Depths,
    SearchWords             \* the words users search for

ASSUME DepthsAssumption == Depths \subseteq Nat

VARIABLES
    phase,      \* "parse", "indexed", "exported" or "booted"
    index,      \* the postings in memory, as records
    file,       \* the shard file
    indexed,    \* history: the postings before the export
    page        \* history: the words a reader saw on the indexed page

stored == <<phase, index, file, indexed, page>>
pvars == <<parser, tree, events, stored>>

NotAlnum == (Chars \ Letters) \cup {"break"}
Gaps == Blanks \cup {"break"}

PInit ==
    /\ Fresh
    /\ phase = "parse" /\ index = {} /\ file = <<>>
    /\ indexed = {} /\ page = {}

Parse == phase = "parse" /\ ParserEvent /\ UNCHANGED stored

\* get_text()
GetText == Sanitize(text)

\* get_snippet(), uncut.
GetSnippet == Sanitize(snippet)

\* What the inserts of _index_tokens() leave for the page: insert() folds each
\* token once more and counts it.
Postings(tokens, url, origin, depth) ==
    {[word |-> w, url |-> url, origin |-> origin, depth |-> depth,
      tf |-> Quantify(DOMAIN tokens, LAMBDA i : TurkishFold(tokens[i]) = w)]
        : w \in {TurkishFold(tokens[i]) : i \in DOMAIN tokens}}

\* feed() may end anywhere: bodies are cut at a limit.
IndexPage(url, origin, depth) ==
    /\ phase = "parse"
    /\ index' = Postings(Tokenize(GetText), url, origin, depth)
    /\ page' = ToSet(Runs(shown, NotAlnum))
    /\ phase' = "indexed"
    /\ Renew
    /\ UNCHANGED <<file, indexed>>

\* export_all_to_legacy_format(), the postings in any order; then the process ends.
Export ==
    /\ phase = "indexed"
    /\ file' = FileOf(SetToSeq(index))
    /\ indexed' = index
    /\ index' = {}
    /\ phase' = "exported"
    /\ UNCHANGED <<parser, tree, events, page>>

\* import_legacy_data_to_trie(); bulk_insert() folds the words.
Import ==
    /\ phase = "exported"
    /\ index' = {[r EXCEPT !.word = TurkishFold(r.word)] : r \in RecordsOf(file)}
    /\ phase' = "booted"
    /\ UNCHANGED <<parser, tree, events, file, indexed, page>>

PNext ==
    \/ Parse
    \/ \E u \in PageUrls, o \in PageOrigins, d \in Depths : IndexPage(u, o, d)
    \/ Export
    \/ Import

PSpec == PInit /\ [][PNext]_pvars

\* query() of one token, up to the trie lookup: the postings it finds.
FoundFor(q) ==
    {r \in index : \E i \in DOMAIN Tokenize(q) : TurkishFold(Tokenize(q)[i]) = r.word}

-----------------------------------------------------------------------------
\* Four flags stand for the whole tree: each agrees with the elements that are open,
\* and the counter with their number, after any nesting and after end tags of elements that
\* were never opened, outside boilerplate.
FlagsFollowTree ==
    /\ inScriptOrStyle <=> Inside(InvisibleTags)
    /\ inTitle <=> Inside({"title"})
    /\ inP <=> Inside({"p"})
    /\ skipTags = Quantify(DOMAIN open, LAMBDA i : open[i] \in SnippetSkipTags)

\* parser.py:117, "so adjacent text nodes don't merge into a single token": the indexed
\* text has the words a reader sees, in order.  A block ends a word, an inline element
\* never splits one, and nothing visible is lost.  This is about pages whose blocks are
\* those of parser.py:63-70: others, like nav and main, do merge words.
TextIsWhatIsShown == Runs(GetText, Blanks) = Runs(shown, Gaps)

\* The preview has the words of the paragraphs outside boilerplate and no other.
SnippetIsParagraphs == Runs(GetSnippet, Blanks) = Runs(preview, Gaps)

\* What is exported is imported again unchanged, whatever characters the URL and the
\* origin have.
RoundTripExact == phase = "booted" => index = indexed

\* Letters that a Turkish reader takes for the same one.
SameLetter(c, d) ==
    \/ c = d
    \/ \E pair \in {{"i", "Idot"}, {"idotless", "I"}, {"x", "X"}} : {c, d} = pair
    \/ {c, d} \subseteq {"sigma", "Sigma", "finalsigma"}

SameWord(v, w) == Len(v) = Len(w) /\ \A i \in DOMAIN v : SameLetter(v[i], w[i])

\* On pages with these blocks, a search finds the page exactly for the words a reader saw
\* on it, whatever the case of either, before the restart and after it: the index side and the query side fold
\* and cut text at different moments and must agree.
FindsWhatIsShown ==
    phase \in {"indexed", "booted"} =>
        \A q \in SearchWords : FoundFor(q) # {} <=> \E w \in page : SameWord(q, w)
=============================================================================
