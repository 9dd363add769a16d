------------------------------- MODULE Search -------------------------------
(***************************************************************************)
(* The search language of the report list.  A search is split into tokens, *)
(* tokens with a colon are qualifiers, and the pages link to searches that *)
(* they write for a value of a report.  Text is a sequence of characters   *)
(* that stand for the kinds the program tells apart.                       *)
(***************************************************************************)
EXTENDS Integers, Sequences, FiniteSets, SequencesExt

CONSTANTS
    MaxSearchBytes,     \* MAXIMUM_SEARCH_BYTES, 512
    MaxSearchTerms,     \* MAXIMUM_SEARCH_TERMS, 32
    MaxKeyBytes,        \* of a qualifier's key, 64
    MaxValue            \* bound: characters in a value of a report

ASSUME SearchAssumption ==
    /\ {MaxSearchBytes, MaxValue} \subseteq Nat
    /\ {MaxSearchTerms, MaxKeyBytes} \subseteq Nat \ {0}

VARIABLE value      \* a value of a report, whatever its client sent

\* A letter in both cases, one for the words the program knows, a space, white space that is not
\* ASCII, and the characters with a meaning.
Characters == {"a", "A", "s", " ", "nbsp", "quote", "backslash", ":"}

Whitespace == {" ", "nbsp"}
AsciiWhitespace == {" "}

\* The length in UTF-8, where everything that is not ASCII takes two bytes.
Bytes(text) == Len(text) + Cardinality({i \in DOMAIN text : text[i] = "nbsp"})

\* The key `state` and a state of a report are one-letter words here; other fields have other keys.
StateKey == <<"s">>
ReportStates == {<<"s">>}
LinkKeys == {<<"a">>, StateKey}

ToAsciiLowercase(text) == [i \in DOMAIN text |-> IF text[i] = "A" THEN "a" ELSE text[i]]

\* tokenize, character by character.
NextCharacter(s, c) ==
    IF s.escaped THEN [s EXCEPT !.token = Append(@, c), !.escaped = FALSE]
    ELSE IF c = "backslash" /\ s.quoted THEN [s EXCEPT !.escaped = TRUE]
    ELSE IF c = "quote" THEN [s EXCEPT !.quoted = ~@]
    ELSE IF c \in Whitespace /\ ~s.quoted
         THEN [s EXCEPT !.tokens = IF s.token = <<>> THEN @ ELSE Append(@, s.token), !.token = <<>>]
    ELSE [s EXCEPT !.token = Append(@, c)]

NoCharacters == [tokens |-> <<>>, token |-> <<>>, quoted |-> FALSE, escaped |-> FALSE]

\* The tokens of a search, in a set that is empty when a quoted value does not end.
Tokenize(input) ==
    LET end == FoldLeft(NextCharacter, NoCharacters, input)
    IN  IF end.quoted \/ end.escaped THEN {}
        ELSE {IF end.token = <<>> THEN end.tokens ELSE Append(end.tokens, end.token)}

ColonAt(token) == {i \in DOMAIN token : token[i] = ":"}

\* validate_qualifier
ValidateQualifier(key, text) ==
    /\ key # <<>> /\ Len(key) <= MaxKeyBytes /\ \A i \in DOMAIN key : key[i] \in {"a", "A", "s"}
    /\ text # <<>>
    /\ ToAsciiLowercase(key) = StateKey => ToAsciiLowercase(text) \in ReportStates

SplitAtColon(token) ==
    LET colon == CHOOSE i \in ColonAt(token) : \A j \in ColonAt(token) : i <= j
    IN  [key |-> SubSeq(token, 1, colon - 1), value |-> SubSeq(token, colon + 1, Len(token))]

\* A token of a search: a qualifier, or a term.  Nothing is read after a qualifier that is not valid.
AddToken(search, token) ==
    LET part == SplitAtColon(token) IN
    IF ~search.valid THEN search
    ELSE IF ColonAt(token) = {} THEN [search EXCEPT !.terms = Append(@, token)]
    ELSE IF ~ValidateQualifier(part.key, part.value) THEN [search EXCEPT !.valid = FALSE]
    ELSE [search EXCEPT !.qualifiers = Append(@, [key |-> ToAsciiLowercase(part.key),
                                                  value |-> part.value])]

EmptySearch == [valid |-> TRUE, terms |-> <<>>, qualifiers |-> <<>>]

\* ReportSearch::parse
Parse(input) ==
    LET tokens == CHOOSE tokens \in Tokenize(input) : TRUE IN
    IF Bytes(input) > MaxSearchBytes \/ Tokenize(input) = {} \/ Len(tokens) > MaxSearchTerms
    THEN [EmptySearch EXCEPT !.valid = FALSE]
    ELSE FoldLeft(AddToken, EmptySearch, tokens)

\* Mutant: backslashes are not escaped.
EscapeQuotes(escaped, c) == escaped \o (IF c = "quote" THEN <<"backslash", c>> ELSE <<c>>)

\* filter_expression: the search that a page links to for a value of a field.
EscapeCharacter(escaped, c) ==
    escaped \o (IF c \in {"quote", "backslash"} THEN <<"backslash", c>> ELSE <<c>>)

Escape(text) == FoldLeft(EscapeCharacter, <<>>, text)

NeedsQuotes(text) == \E i \in DOMAIN text : text[i] \in AsciiWhitespace \cup {"quote", "backslash"}

FilterExpression(key, text) ==
    key \o <<":">> \o (IF NeedsQuotes(text) THEN <<"quote">> \o Escape(text) \o <<"quote">>
                       ELSE ToAsciiLowercase(text))

-----------------------------------------------------------------------------
SearchInit == value = <<>>

Extend(c) == Len(value) < MaxValue /\ value' = Append(value, c)

SearchNext == \E c \in Characters : Extend(c)

SearchSpec == SearchInit /\ [][SearchNext]_value

-----------------------------------------------------------------------------
(* Property *)

\* The link for a value searches for exactly that value, whatever is in it (filter_expression
\* against tokenize and parse), with four exceptions: the empty value; one with white space that is
\* not ASCII and nothing that asks for quotes, which is split at it; one whose link is longer than a
\* search may be; and a field of the name `state` that does not hold a report's state.
LinkFindsItsValue ==
    \A key \in LinkKeys :
        LET link == FilterExpression(key, value)
            found == Parse(link)
            split == ~NeedsQuotes(value) /\ \E i \in DOMAIN value : value[i] \in Whitespace \ AsciiWhitespace
        IN  /\ value # <<>> /\ ~split
            /\ Bytes(link) <= MaxSearchBytes
            /\ key = StateKey => ToAsciiLowercase(value) \in ReportStates
            <=>
            /\ found.valid /\ found.terms = <<>> /\ Len(found.qualifiers) = 1
            /\ found.qualifiers[1].key = key
            /\ ToAsciiLowercase(found.qualifiers[1].value) = ToAsciiLowercase(value)
=============================================================================
