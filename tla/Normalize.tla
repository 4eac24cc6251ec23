----------------------------- MODULE Normalize -----------------------------
(***************************************************************************)
(* turkish_fold() and tokenize() of core/normalize.py and                  *)
(* sanitize_html_input() of core/security.py.  A character is a string     *)
(* that names it; the alphabet has those that the functions tell apart:    *)
(* the four Turkish i's, the sigmas whose lower case depends on their      *)
(* neighbours, a plain letter, punctuation that is transparent for that    *)
(* dependence and punctuation that is not, and what sanitising removes.    *)
(***************************************************************************)
EXTENDS Integers, Sequences, SequencesExt

Letters == {"x", "X", "i", "I", "Idot", "idotless", "sigma", "Sigma", "finalsigma"}
Ignorable == {"'", ".", "dotabove"}
Blanks == {"space", "newline", "control"}
Chars == Letters \cup Ignorable \cup Blanks \cup {"-", "<", ">"}

IsAlnum(c) == c \in Letters

\* _TURKISH_FOLD_TABLE
FoldTable(c) == CASE c = "Idot" -> "i" [] c = "I" -> "idotless" [] OTHER -> c

\* Whether the capital sigma at i ends a word, as Unicode lower casing sees it: a
\* letter before it and none after it, transparent punctuation aside.
EndsWord(s, i) ==
    LET sees(js) == \E j \in js : IsAlnum(s[j]) /\ \A k \in js :
                        (k > j /\ k < i) \/ (k < j /\ k > i) => s[k] \in Ignorable
    IN  sees(1..i - 1) /\ ~sees(i + 1..Len(s))

\* str.lower() of the character at i.
LowerAt(s, i) ==
    CASE s[i] = "X" -> <<"x">>
      [] s[i] = "I" -> <<"i">>
      [] s[i] = "Idot" -> <<"i", "dotabove">>
      [] s[i] = "Sigma" -> IF EndsWord(s, i) THEN <<"finalsigma">> ELSE <<"sigma">>
      [] OTHER -> <<s[i]>>

\* Mutant of TurkishFold: str.lower() alone.
TurkishFoldPlain(s) == FlattenSeq([i \in DOMAIN s |-> LowerAt(s, i)])

TurkishFold(s) ==
    LET t == [i \in DOMAIN s |-> FoldTable(s[i])]
    IN  FlattenSeq([i \in DOMAIN t |-> LowerAt(t, i)])

\* The maximal runs of s between separators, in order.
Runs(s, Separators) ==
    LET step(a, c) ==
            IF c \notin Separators THEN [a EXCEPT !.run = Append(@, c)]
            ELSE IF a.run = <<>> THEN a
            ELSE [runs |-> Append(a.runs, a.run), run |-> <<>>]
        end == FoldLeft(step, [runs |-> <<>>, run |-> <<>>], s)
    IN  IF end.run = <<>> THEN end.runs ELSE Append(end.runs, end.run)

\* tokenize()
Tokenize(s) == Runs(TurkishFold(s), Chars \ Letters)

\* _TAG_RE: everything from a "<" to the next ">", with something in between.
StripTags(s) ==
    LET opens(i) == /\ s[i] = "<"
                    /\ i < Len(s) /\ s[i + 1] # ">"
                    /\ \E j \in i + 1..Len(s) : s[j] = ">"
        step(a, i) ==
            IF a.inside THEN [a EXCEPT !.inside = s[i] # ">"]
            ELSE IF opens(i) THEN [kept |-> Append(a.kept, "space"), inside |-> TRUE]
            ELSE [a EXCEPT !.kept = Append(@, s[i])]
    IN  FoldLeft(step, [kept |-> <<>>, inside |-> FALSE], [i \in DOMAIN s |-> i]).kept

\* sanitize_html_input(): tags go, blanks become one space, none at the ends.
Sanitize(s) ==
    LET words == Runs(StripTags(s), Blanks)
        spaced == [i \in DOMAIN words |-> IF i = 1 THEN words[1] ELSE <<"space">> \o words[i]]
    IN  FlattenSeq(spaced)
=============================================================================
