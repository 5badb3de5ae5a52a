----------------------------- MODULE QueryLexer ----------------------------
(***************************************************************************)
(* Lexer: text into tokens.  The parser calls NextToken once per token,    *)
(* always one ahead of what it has used.                                   *)
(*                                                                         *)
(* A text is a sequence of characters.  Letters, digits and whitespace are *)
(* constants, so that a small alphabet stands for each class; the other    *)
(* characters are themselves.  The type of a token is a sequence too: the  *)
(* characters of an operator, the capitals of a keyword, or a name.        *)
(***************************************************************************)
EXTENDS Integers, Sequences
LOCAL INSTANCE SequencesExt
LOCAL INSTANCE FiniteSetsExt

CONSTANTS
    Letters,    \* letters and `_'
    Digits,
    Blanks,     \* whitespace, NewLine among it
    NewLine,
    Capital,    \* std::toupper on Letters \cup Digits
    Keywords,   \* the words of KeywordType, in capitals
    Texts       \* the queries to read

VARIABLES
    text,       \* input_
    pos,        \* pos_, the first character being 1
    place,      \* line_ and position_in_line_
    tokens,     \* the tokens returned so far
    reading     \* "on", "done" after EndOfFile, "failed" after a ParseError

lexVars == <<text, pos, place, tokens, reading>>

Punctuation == {"(", ")", ",", ";", "*", "="}

(* CurrentChar() and PeekChar(): '\0' behind the end.                      *)
CharAt(p) == IF p <= Len(text) THEN text[p] ELSE "NUL"

(* A line break that leaves the column where it is.                        *)
AdvanceKeepsColumn(at, c) ==
    IF c = NewLine THEN [line |-> at.line + 1, column |-> at.column]
    ELSE [at EXCEPT !.column = @ + 1]

(* Advance(): the place of the character after c.                          *)
Advance(at, c) ==
    IF c = NewLine THEN [line |-> at.line + 1, column |-> 1]
    ELSE [at EXCEPT !.column = @ + 1]

PlaceAfter(p, at, q) == FoldLeft(Advance, at, SubSeq(text, p, q - 1))

(* The end of the run of characters of a class that starts at p.           *)
RunEnd(p, class) ==
    Min({q \in p .. Len(text) + 1 : CharAt(q) \notin class})

Invalid == [ok |-> FALSE]
Lexeme(type, value, end) ==
    [ok |-> TRUE, type |-> type, value |-> value, end |-> end]
Plain(type, p, end) == Lexeme(type, SubSeq(text, p, end - 1), end)

(* KeywordType                                                             *)
KeywordType(word) ==
    LET upper == [i \in DOMAIN word |-> Capital[word[i]]]
    IN  IF upper \in Keywords THEN upper ELSE <<"Identifier">>

(* ReadIdentifierOrKeyword                                                 *)
ReadIdentifierOrKeyword(p) ==
    LET end == RunEnd(p, Letters \cup Digits)
    IN  Plain(KeywordType(SubSeq(text, p, end - 1)), p, end)

(* A number whose '.' need not be followed by a digit.                     *)
ReadNumberLoose(p) ==
    LET whole == RunEnd(IF CharAt(p) = "-" THEN p + 1 ELSE p, Digits)
    IN  IF CharAt(whole) # "." THEN Plain(<<"IntLiteral">>, p, whole)
        ELSE Plain(<<"DoubleLiteral">>, p, RunEnd(whole + 1, Digits))

(* ReadNumber, at a digit or at '-' before a digit.                        *)
ReadNumber(p) ==
    LET whole == RunEnd(IF CharAt(p) = "-" THEN p + 1 ELSE p, Digits)
    IN  IF CharAt(whole) # "." THEN Plain(<<"IntLiteral">>, p, whole)
        ELSE IF CharAt(whole + 1) \notin Digits THEN Invalid
        ELSE Plain(<<"DoubleLiteral">>, p, RunEnd(whole + 1, Digits))

RECURSIVE ReadStringFrom(_, _)

(* A loop that ends at the first quote.                                    *)
ReadStringNoEscape(q, value) ==
    LET quotes == {e \in q .. Len(text) : text[e] = "'"}
    IN  IF quotes = {} THEN Invalid
        ELSE Lexeme(<<"StringLiteral">>, SubSeq(text, q, Min(quotes) - 1),
                    Min(quotes) + 1)

(* The loop of ReadString: a doubled quote is a quote, a single one ends   *)
(* the literal, whatever else comes in between belongs to it.              *)
ReadStringFrom(q, value) ==
    IF q > Len(text) THEN Invalid
    ELSE IF CharAt(q) # "'" THEN ReadStringFrom(q + 1, Append(value, text[q]))
    ELSE IF CharAt(q + 1) = "'" THEN ReadStringFrom(q + 2, Append(value, "'"))
    ELSE Lexeme(<<"StringLiteral">>, value, q + 1)

(* NextToken after the whitespace: the token that starts at p.             *)
ReadToken(p) ==
    LET c == CharAt(p)
        or_equal == IF CharAt(p + 1) = "=" THEN p + 2 ELSE p + 1
    IN  CASE c \in Letters -> ReadIdentifierOrKeyword(p)
          [] c \in Digits \/ (c = "-" /\ CharAt(p + 1) \in Digits) ->
               ReadNumber(p)
          [] c = "'" -> ReadStringFrom(p + 1, <<>>)
          [] c \in Punctuation -> Plain(<<c>>, p, p + 1)
          [] c \in {"<", ">"} ->
               Plain(SubSeq(text, p, or_equal - 1), p, or_equal)
          [] c = "!" /\ CharAt(p + 1) = "=" -> Plain(<<"!", "=">>, p, p + 2)
          [] OTHER -> Invalid

LexInit ==
    /\ text \in Texts
    /\ pos = 1
    /\ place = [line |-> 1, column |-> 1]
    /\ tokens = <<>>
    /\ reading = "on"

(* NextToken                                                               *)
NextToken ==
    /\ reading = "on"
    /\ LET start == RunEnd(pos, Blanks)
           at == PlaceAfter(pos, place, start)
           read == ReadToken(start)
       IN  IF start > Len(text)
             THEN reading' = "done" /\ pos' = start /\ place' = at
                  /\ UNCHANGED tokens
           ELSE IF ~read.ok
             THEN reading' = "failed" /\ pos' = start /\ place' = at
                  /\ UNCHANGED tokens
           ELSE /\ tokens' = Append(tokens,
                               [type |-> read.type, value |-> read.value,
                                start |-> start, end |-> read.end,
                                place |-> at])
                /\ pos' = read.end
                /\ place' = PlaceAfter(start, at, read.end)
                /\ UNCHANGED reading
    /\ UNCHANGED text

-----------------------------------------------------------------------------
(* The lexical rules of docs/query_language.md, with no reading order.     *)

AllOf(w, class) == w # <<>> /\ \A i \in DOMAIN w : w[i] \in class

IsWord(w) == AllOf(w, Letters \cup Digits) /\ w[1] \in Letters

Unsigned(w) == IF w # <<>> /\ w[1] = "-" THEN Tail(w) ELSE w
IsInt(w) == AllOf(Unsigned(w), Digits)
IsDouble(w) ==
    \E i \in DOMAIN w : /\ w[i] = "."
                        /\ IsInt(SubSeq(w, 1, i - 1))
                        /\ AllOf(SubSeq(w, i + 1, Len(w)), Digits)

(* w is a string literal: between its quotes, quotes come in pairs.        *)
IsString(w) ==
    /\ Len(w) >= 2 /\ w[1] = "'" /\ w[Len(w)] = "'"
    /\ \A i, j \in 2 .. Len(w) - 1 :
         /\ i <= j
         /\ \A k \in i .. j : w[k] = "'"
         /\ i = 2 \/ w[i - 1] # "'"
         /\ j = Len(w) - 1 \/ w[j + 1] # "'"
         => (j - i) % 2 = 1

Operators == {<<c>> : c \in Punctuation \cup {"<", ">"}}
               \cup {<<"!", "=">>, <<"<", "=">>, <<">", "=">>}

IsLexeme(w) ==
    IsWord(w) \/ IsInt(w) \/ IsDouble(w) \/ IsString(w) \/ w \in Operators

(* A value as a string literal.                                            *)
Quoted(value) ==
    <<"'">> \o FlattenSeq([i \in DOMAIN value |->
                             IF value[i] = "'" THEN <<"'", "'">>
                             ELSE <<value[i]>>]) \o <<"'">>

(* The ends of the lexemes that start at p, and whether the text from p on *)
(* is lexemes and whitespace.                                              *)
Ends(p) == {e \in p + 1 .. Len(text) + 1 : IsLexeme(SubSeq(text, p, e - 1))}

RECURSIVE Readable(_)
Readable(p) ==
    LET start == RunEnd(p, Blanks)
    IN  \/ start > Len(text)
        \/ Ends(start) # {} /\ Readable(Max(Ends(start)))

PlaceOf(p) ==
    LET breaks == {q \in 1 .. p - 1 : text[q] = NewLine}
    IN  [line |-> 1 + Cardinality(breaks),
         column |-> p - Max(breaks \cup {0})]

LastEnd == IF tokens = <<>> THEN 1 ELSE tokens[Len(tokens)].end

(* The lexer reads a text as the lexical rules say, the longest lexeme     *)
(* first, and rejects exactly the texts that cannot be read that way: no   *)
(* character is lost between tokens, a doubled quote stands for a quote,   *)
(* and a token knows its line and column, also behind a literal that spans *)
(* lines.                                                                  *)
TokensMaximal ==
    /\ \A i \in DOMAIN tokens :
         LET t == tokens[i]
             w == SubSeq(text, t.start, t.end - 1)
         IN  /\ Ends(t.start) # {} /\ t.end = Max(Ends(t.start))
             /\ (IF t.type = <<"StringLiteral">> THEN Quoted(t.value)
                 ELSE t.value) = w
             /\ t.type = <<"IntLiteral">> <=> IsInt(w)
             /\ t.start = RunEnd(IF i = 1 THEN 1 ELSE tokens[i - 1].end, Blanks)
             /\ t.place = PlaceOf(t.start)
    /\ reading # "on" => (reading = "done" <=> Readable(LastEnd))
=============================================================================
