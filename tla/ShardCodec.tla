----------------------------- MODULE ShardCodec -----------------------------
(***************************************************************************)
(* The line format of the shard files (storage/exporter.py): a record      *)
(* becomes a line of five escaped fields and is parsed back at boot.       *)
(* Characters are strings that name them.                                  *)
(***************************************************************************)
EXTENDS Integers, Sequences, SequencesExt

Digits == <<"0", "1", "2", "3", "4", "5", "6", "7", "8", "9">>

\* str.replace() of one character.
Replaced(s, c, r) == FlattenSeq([i \in DOMAIN s |-> IF s[i] = c THEN r ELSE <<s[i]>>])

\* Mutant of EncodeField: the escape character itself is not escaped.
EncodeFieldRaw(s) ==
    Replaced(Replaced(Replaced(s, "tab", <<"backslash", "t">>),
        "return", <<"backslash", "r">>), "newline", <<"backslash", "n">>)

\* _encode_field()
EncodeField(s) ==
    Replaced(Replaced(Replaced(Replaced(s, "backslash", <<"backslash", "backslash">>),
        "tab", <<"backslash", "t">>), "return", <<"backslash", "r">>),
        "newline", <<"backslash", "n">>)

Unescaped(c) == CASE c = "t" -> "tab" [] c = "r" -> "return" [] c = "n" -> "newline" [] OTHER -> c

\* _decode_field(): a backslash at the end stands for itself.
DecodeField(s) ==
    LET step(a, c) ==
            IF a.escaped THEN [out |-> Append(a.out, Unescaped(c)), escaped |-> FALSE]
            ELSE IF c = "backslash" THEN [a EXCEPT !.escaped = TRUE]
            ELSE [a EXCEPT !.out = Append(@, c)]
        end == FoldLeft(step, [out |-> <<>>, escaped |-> FALSE], s)
    IN  IF end.escaped THEN Append(end.out, "backslash") ELSE end.out

\* The pieces of s between separators, empty ones included.
Split(s, Separators) ==
    LET step(a, c) == IF c \in Separators THEN [pieces |-> Append(a.pieces, a.piece), piece |-> <<>>]
                      ELSE [a EXCEPT !.piece = Append(@, c)]
        end == FoldLeft(step, [pieces |-> <<>>, piece |-> <<>>], s)
    IN  Append(end.pieces, end.piece)

\* str() of a number.
Decimal(n) ==
    LET d[m \in 0..n] == IF m < 10 THEN <<Digits[m + 1]>>
                         ELSE Append(d[m \div 10], Digits[(m % 10) + 1])
    IN  d[n]

\* int() of a field: what it accepts of what the exporter writes, and its value.
IsNumber(s) == s # <<>> /\ ToSet(s) \subseteq ToSet(Digits)
NumberOf(s) ==
    FoldLeft(LAMBDA v, c : 10 * v + (CHOOSE i \in DOMAIN Digits : Digits[i] = c) - 1, 0, s)

\* One line of export_all_to_legacy_format().
LineOf(r) ==
    EncodeField(r.word) \o <<"tab">> \o EncodeField(r.url) \o <<"tab">>
        \o EncodeField(r.origin) \o <<"tab">> \o Decimal(r.depth) \o <<"tab">> \o Decimal(r.tf)
        \o <<"newline">>

\* The shard file of a sequence of records.
FileOf(records) == FlattenSeq([i \in DOMAIN records |-> LineOf(records[i])])

\* The lines of a file opened in text mode.
LinesOf(file) == Split(file, {"newline", "return"})

\* _parse_line(): the set of the one record of a line, or none if it is malformed.
ParseLine(line) ==
    LET part == Split(line, {"tab"})
    IN  IF /\ Len(part) = 5
           /\ part[1] # <<>> /\ part[2] # <<>>
           /\ IsNumber(part[4]) /\ IsNumber(part[5]) /\ NumberOf(part[5]) > 0
        THEN {[word |-> DecodeField(part[1]), url |-> DecodeField(part[2]),
               origin |-> DecodeField(part[3]), depth |-> NumberOf(part[4]),
               tf |-> NumberOf(part[5])]}
        ELSE {}

\* import_legacy_data_to_trie() of one shard.
RecordsOf(file) == UNION {ParseLine(l) : l \in ToSet(LinesOf(file))}
=============================================================================
