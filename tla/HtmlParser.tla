----------------------------- MODULE HtmlParser -----------------------------
(***************************************************************************)
(* AtlasHTMLParser (core/parser.py), one action per callback of            *)
(* html.parser, next to the tree of open elements that the callbacks       *)
(* describe.  The tree, and what a reader of the page sees, are history:   *)
(* the parser has four flags instead.                                      *)
(*                                                                         *)
(* One tag stands for each kind that the parser or a reader tells apart:   *)
(* "title", an invisible one ("script"), "p", a void block ("br"), a plain *)
(* block ("div"), a skipped block ("header"), a skipped inline ("a") and   *)
(* any other inline ("b").  Two more are blocks to a reader and none to    *)
(* the parser: "nav", which is skipped, and "main", which is in none of    *)
(* its sets, like aside, form or figure.  Title text and hrefs are         *)
(* collected apart and left out.                                           *)
(***************************************************************************)
EXTENDS Integers, Sequences, SequencesExt

CONSTANTS
    Tags,        \* the tags of the pages, of the kinds above
    BlockLevel,  \* those of them that HTML renders as blocks
    Data,        \* what handle_data() is called with
    Sloppy,      \* whether end tags are left out before any block, or stray inside boilerplate
    LinkBreaks,  \* whether links in a paragraph may have line breaks
    MaxEvents    \* bound on the callbacks for one page

ASSUME TagsAssumption == BlockLevel \subseteq Tags
ASSUME EventsAssumption == MaxEvents \in Nat /\ {Sloppy, LinkBreaks} \subseteq BOOLEAN

VARIABLES
    inScriptOrStyle, inTitle, inP,
    skipTags,     \* depth counter for nav, header, footer and a
    text,         \* text_chunks, joined
    snippet,      \* snippet_chunks, joined
    events,
    open,         \* history: the open elements, outermost first
    shown,        \* history: the visible text with the block boundaries
    preview       \* history: that of the paragraphs outside skipped elements

parser == <<inScriptOrStyle, inTitle, inP, skipTags, text, snippet>>
tree == <<open, shown, preview>>

InvisibleTags == {"script"}
SnippetSkipTags == {"nav", "header", "a"}
BlockTags == {"p", "br", "div", "header"}
VoidTags == {"br"}

Fresh ==
    /\ inScriptOrStyle = FALSE /\ inTitle = FALSE /\ inP = FALSE
    /\ skipTags = 0
    /\ text = <<>> /\ snippet = <<>>
    /\ events = 0
    /\ open = <<>> /\ shown = <<>> /\ preview = <<>>

\* The next page gets a parser of its own.
Renew ==
    /\ inScriptOrStyle' = FALSE /\ inTitle' = FALSE /\ inP' = FALSE
    /\ skipTags' = 0
    /\ text' = <<>> /\ snippet' = <<>>
    /\ events' = 0
    /\ open' = <<>> /\ shown' = <<>> /\ preview' = <<>>

Event == events < MaxEvents /\ events' = events + 1

Inside(S) == ToSet(open) \cap S # {}
Visible == ~Inside(InvisibleTags \cup {"title"})
InParagraph == Visible /\ Inside({"p"}) /\ ~Inside(SnippetSkipTags)

Boundary(t) ==
    IF t \in BlockLevel
    THEN shown' = Append(shown, "break") /\ preview' = Append(preview, "break")
    ELSE UNCHANGED <<shown, preview>>

\* A paragraph whose end tag is left out ends where the next block begins.
ImpliedEnd(t) == open # <<>> /\ Last(open) = "p" /\ t \in BlockLevel \ VoidTags

\* What well-formed HTML has inside what.
MayOpen(t) ==
    /\ Visible
    /\ t = "title" => open = <<>>
    /\ Inside({"p"}) /\ t \in BlockLevel \ VoidTags => ImpliedEnd(t) /\ (Sloppy \/ t = "p")
    /\ t = "a" => ~Inside({"a"})
    /\ t = "br" => LinkBreaks \/ ~(Inside({"a"}) /\ Inside({"p"}))

-----------------------------------------------------------------------------
\* Mutant of Separates: only opening tags separate.
SeparatesOpening(t, opening) == opening /\ t \in BlockTags

\* Whether the callback for t puts a space into the text.
Separates(t, opening) == t \in BlockTags

\* handle_starttag()
HandleStarttag(t) ==
    /\ inScriptOrStyle' = (inScriptOrStyle \/ t \in InvisibleTags)
    /\ inTitle' = (inTitle \/ t = "title")
    /\ inP' = (inP \/ t = "p")
    /\ skipTags' = IF t \in SnippetSkipTags THEN skipTags + 1 ELSE skipTags
    /\ text' = IF Separates(t, TRUE) THEN Append(text, "space") ELSE text
    /\ snippet' = IF Separates(t, TRUE) /\ inP' /\ skipTags' = 0
                  THEN Append(snippet, "space") ELSE snippet

\* Mutant of SkipAfterEnd: a flag instead of a counter.
SkipAfterEndFlat(t) == IF t \in SnippetSkipTags THEN 0 ELSE skipTags

\* _skip_tags after an end tag.
SkipAfterEnd(t) ==
    IF t \in SnippetSkipTags /\ skipTags > 0 THEN skipTags - 1 ELSE skipTags

\* handle_endtag()
HandleEndtag(t) ==
    /\ inScriptOrStyle' = (inScriptOrStyle /\ t \notin InvisibleTags)
    /\ inTitle' = (inTitle /\ t # "title")
    /\ inP' = (inP /\ t # "p")
    /\ skipTags' = SkipAfterEnd(t)
    /\ text' = IF Separates(t, FALSE) THEN Append(text, "space") ELSE text
    /\ UNCHANGED snippet

\* Mutant of Captured: link labels go into the snippet.
CapturedLinks == inP

\* Whether text goes into the snippet.
Captured == inP /\ skipTags = 0

\* handle_data()
HandleData(d) ==
    LET visible == ~inScriptOrStyle /\ ~inTitle
    IN  /\ text' = IF visible THEN text \o d ELSE text
        /\ snippet' = IF visible /\ Captured THEN snippet \o d ELSE snippet
        /\ UNCHANGED <<inScriptOrStyle, inTitle, inP, skipTags>>

-----------------------------------------------------------------------------
OpenElement(t) ==
    /\ Event /\ MayOpen(t)
    /\ HandleStarttag(t)
    /\ open' = IF t \in VoidTags THEN open
                ELSE Append(IF ImpliedEnd(t) THEN Front(open) ELSE open, t)
    /\ Boundary(t)

CloseElement ==
    /\ Event /\ open # <<>>
    /\ HandleEndtag(Last(open))
    /\ open' = Front(open)
    /\ Boundary(Last(open))

\* An end tag without a start tag, which browsers ignore.
StrayEnd(t) ==
    /\ Event /\ Visible
    /\ t \in {"a", "b"} /\ ~Inside({t})
    /\ Sloppy \/ ~Inside(SnippetSkipTags)
    /\ HandleEndtag(t)
    /\ UNCHANGED tree

Text(d) ==
    /\ Event
    /\ HandleData(d)
    /\ shown' = IF Visible THEN shown \o d ELSE shown
    /\ preview' = IF InParagraph THEN preview \o d ELSE preview
    /\ UNCHANGED open

ParserEvent ==
    \/ \E t \in Tags : OpenElement(t) \/ StrayEnd(t)
    \/ CloseElement
    \/ \E d \in Data : Text(d)
=============================================================================
