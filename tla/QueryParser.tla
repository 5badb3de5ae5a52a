---------------------------- MODULE QueryParser ----------------------------
(***************************************************************************)
(* Parser: tokens into a statement, by recursive descent with one token    *)
(* of lookahead.                                                           *)
(*                                                                         *)
(* A token has a type and, if it is a word or a literal, a text or a       *)
(* value.  A token of type "error" is a place where the lexer throws.  The *)
(* lookahead meets it one token early; as no rule accepts it, that shows   *)
(* only behind the final `;'.  A parsing operator returns what it has read *)
(* and the tokens that are left, or the failure.                           *)
(***************************************************************************)
EXTENDS QuerySyntax, FiniteSets
LOCAL INSTANCE SequencesExt
LOCAL INSTANCE FiniteSetsExt

CONSTANTS
    Conditions,         \* conditions to parse behind WHERE, as tokens
    Statements          \* statements to write down, edit and parse

VARIABLES
    query,      \* what lexer_ still has to deliver, current_ first
    answer      \* the result of ParseStatement, or NoAnswer

parseVars == <<query, answer>>

NoAnswer == [ok |-> FALSE, error |-> "none"]

Parsed(ast, rest) == [ok |-> TRUE, ast |-> ast, rest |-> rest]
ParseError == [ok |-> FALSE, error |-> "ParseError"]
OutOfRange == [ok |-> FALSE, error |-> "out_of_range"]

Then(result, Continue(_, _)) ==
    IF result.ok THEN Continue(result.ast, result.rest) ELSE result

(* IsExpectedToken, for the current token and those behind it.             *)
Starts(toks, types) ==
    /\ Len(toks) >= Len(types)
    /\ \A i \in DOMAIN types : toks[i].type = types[i]

CurrentIn(toks, types) == toks # <<>> /\ Head(toks).type \in types

(* A row of Advance() and IsExpectedToken() checks, each with its throw.   *)
Expect(toks, types) ==
    IF Starts(toks, types)
    THEN Parsed(SubSeq(toks, 1, Len(types)),
                SubSeq(toks, Len(types) + 1, Len(toks)))
    ELSE ParseError

(* IsColumnNameToken                                                       *)
ColumnNames == {"identifier", "KEY"}

ParseName(toks) ==
    IF CurrentIn(toks, ColumnNames) THEN Parsed(Head(toks).text, Tail(toks))
    ELSE ParseError

(* ParseLiteralExpression: std::stoll throws out_of_range.                 *)
ParseLiteralExpression(toks) ==
    IF ~CurrentIn(toks, Literals) THEN ParseError
    ELSE LET t == Head(toks)
         IN  IF t.type = "NULL" THEN Parsed(NullLiteral, Tail(toks))
             ELSE IF t.type = "int" /\ t.value \notin IntMin .. IntMax
               THEN OutOfRange
             ELSE Parsed(Literal(t.type, t.value), Tail(toks))

RECURSIVE ParseOrExpression(_), ParseAndExpression(_), ParseNotExpression(_)
RECURSIVE OrTail(_, _), AndTail(_, _), ParseList(_, _)

(* ParseAtomicExpression                                                   *)
ParseAtomicExpression(toks) ==
    IF CurrentIn(toks, {"("})
    THEN Then(ParseOrExpression(Tail(toks)), LAMBDA e, rest :
           Then(Expect(rest, <<")">>), LAMBDA close, after :
             Parsed(e, after)))
    ELSE IF CurrentIn(toks, ColumnNames)
    THEN Parsed(Column(Head(toks).text), Tail(toks))
    ELSE ParseLiteralExpression(toks)

(* ParsePredicateExpression: IS [NOT] NULL, or one comparison.             *)
ParsePredicateExpression(toks) ==
    Then(ParseAtomicExpression(toks), LAMBDA left, rest :
      IF CurrentIn(rest, {"IS"})
      THEN IF Starts(rest, <<"IS", "NOT">>)
           THEN Then(Expect(rest, <<"IS", "NOT", "NULL">>), LAMBDA w, after :
                  Parsed(IsNull(left, TRUE), after))
           ELSE Then(Expect(rest, <<"IS", "NULL">>), LAMBDA w, after :
                  Parsed(IsNull(left, FALSE), after))
      ELSE IF CurrentIn(rest, Comparisons)
      THEN Then(ParseAtomicExpression(Tail(rest)), LAMBDA right, after :
             Parsed(Binary(Head(rest).type, left, right), after))
      ELSE Parsed(left, rest))

(* A NOT that takes the whole conjunction behind it.                       *)
NotOverAnd(toks) ==
    IF CurrentIn(toks, {"NOT"})
    THEN Then(ParseAndExpression(Tail(toks)), LAMBDA e, rest :
           Parsed(Not(e), rest))
    ELSE ParsePredicateExpression(toks)

(* ParseNotExpression                                                      *)
ParseNotExpression(toks) ==
    IF CurrentIn(toks, {"NOT"})
    THEN Then(ParseNotExpression(Tail(toks)), LAMBDA e, rest :
           Parsed(Not(e), rest))
    ELSE ParsePredicateExpression(toks)

(* The loops of ParseAndExpression and ParseOrExpression.                  *)
AndTail(left, toks) ==
    IF ~CurrentIn(toks, {"AND"}) THEN Parsed(left, toks)
    ELSE Then(ParseNotExpression(Tail(toks)), LAMBDA right, rest :
           AndTail(Binary("AND", left, right), rest))

ParseAndExpression(toks) == Then(ParseNotExpression(toks), AndTail)

OrTail(left, toks) ==
    IF ~CurrentIn(toks, {"OR"}) THEN Parsed(left, toks)
    ELSE Then(ParseAndExpression(Tail(toks)), LAMBDA right, rest :
           OrTail(Binary("OR", left, right), rest))

ParseOrExpression(toks) == Then(ParseAndExpression(toks), OrTail)

(* ParseColumnDefinition: KEY, NULL and NOT NULL exclude each other, and a *)
(* column is not nullable unless it says NULL.                             *)
ParseColumnDefinition(toks) ==
    Then(ParseName(toks), LAMBDA name, typed :
      IF ~CurrentIn(typed, {"STRING", "INT64", "DOUBLE"}) THEN ParseError
      ELSE LET Defined(nullable, is_key, width) ==
                 Parsed(ColumnDefinition(name, Head(typed).type, nullable, is_key),
                        SubSeq(typed, 2 + width, Len(typed)))
               rest == Tail(typed)
           IN  IF CurrentIn(rest, {"KEY"}) THEN Defined(FALSE, TRUE, 1)
               ELSE IF CurrentIn(rest, {"NULL"}) THEN Defined(TRUE, FALSE, 1)
               ELSE IF ~CurrentIn(rest, {"NOT"}) THEN Defined(FALSE, FALSE, 0)
               ELSE IF Starts(rest, <<"NOT", "NULL">>)
                 THEN Defined(FALSE, FALSE, 2)
               ELSE ParseError)

(* ParseSelectItem                                                         *)
ParseSelectItem(toks) ==
    IF CurrentIn(toks, {"*"}) THEN Parsed(Star, Tail(toks))
    ELSE IF ~CurrentIn(toks, Aggregates) THEN ParseOrExpression(toks)
    ELSE Then(Expect(toks, <<Head(toks).type, "(">>), LAMBDA open, inside :
           Then(ParseOrExpression(inside), LAMBDA e, rest :
             Then(Expect(rest, <<")">>), LAMBDA close, after :
               Parsed(Aggregate(Head(toks).type, e), after))))

(* ParseOrderByItem                                                        *)
ParseOrderByItem(toks) ==
    Then(ParseOrExpression(toks), LAMBDA e, rest :
      Parsed(OrderBy(e, CurrentIn(rest, {"DESC"})),
             IF CurrentIn(rest, {"ASC", "DESC"}) THEN Tail(rest) ELSE rest))

ParseElement(sort, toks) ==
    CASE sort = "definition" -> ParseColumnDefinition(toks)
      [] sort = "name" -> ParseName(toks)
      [] sort = "literal" -> ParseLiteralExpression(toks)
      [] sort = "item" -> ParseSelectItem(toks)
      [] sort = "order" -> ParseOrderByItem(toks)
      [] sort = "expression" -> ParseOrExpression(toks)

(* The loop over commas of every list.                                     *)
ParseList(sort, toks) ==
    Then(ParseElement(sort, toks), LAMBDA first, rest :
      IF ~CurrentIn(rest, {","}) THEN Parsed(<<first>>, rest)
      ELSE Then(ParseList(sort, Tail(rest)), LAMBDA others, after :
             Parsed(<<first>> \o others, after)))

(* A clause that ends at its first comma.                                  *)
ClauseOfOne(words, sort, toks) ==
    IF ~CurrentIn(toks, {Head(words)}) THEN Parsed(<<>>, toks)
    ELSE Then(Expect(toks, words), LAMBDA w, rest :
           Then(ParseElement(sort, rest), LAMBDA e, after :
             Parsed(<<e>>, after)))

(* GROUP BY or ORDER BY; absent, it leaves an empty list.                  *)
ParseClause(words, sort, toks) ==
    IF ~CurrentIn(toks, {Head(words)}) THEN Parsed(<<>>, toks)
    ELSE Then(Expect(toks, words), LAMBDA w, rest : ParseList(sort, rest))

(* LIMIT: std::stoull negates a number with a minus sign modulo 2^64.      *)
ParseLimit(toks) ==
    IF ~CurrentIn(toks, {"LIMIT"}) THEN Parsed(<<>>, toks)
    ELSE Then(Expect(toks, <<"LIMIT", "int">>), LAMBDA w, rest :
           LET modulus == 2 * (IntMax + 1)
               value == w[2].value
           IN  IF value \notin 1 - modulus .. modulus - 1 THEN OutOfRange
               ELSE Parsed(<<value % modulus>>, rest))

(* The final `;' and the Advance() behind it.                              *)
ParseEnd(statement, toks) ==
    Then(Expect(toks, <<";">>), LAMBDA w, rest :
      IF CurrentIn(rest, {"error"}) THEN ParseError
      ELSE Parsed(statement, rest))

(* ParseCreateTableStatement                                               *)
ParseCreate(toks) ==
    Then(Expect(toks, <<"CREATE", "TABLE", "identifier", "(">>),
      LAMBDA head, definitions :
        Then(ParseList("definition", definitions), LAMBDA columns, rest :
          Then(Expect(rest, <<")">>), LAMBDA close, after :
            ParseEnd(CreateStatement(head[3].text, columns), after))))

(* ParseInsertStatement                                                    *)
ParseInsert(toks) ==
    Then(Expect(toks, <<"INSERT", "INTO", "identifier", "(">>),
      LAMBDA head, list :
        Then(ParseList("name", list), LAMBDA columns, rest :
          Then(Expect(rest, <<")", "VALUES", "(">>), LAMBDA mid, literals :
            Then(ParseList("literal", literals), LAMBDA values, last :
              Then(Expect(last, <<")">>), LAMBDA close, after :
                ParseEnd(InsertStatement(head[3].text, columns, values),
                         after))))))

(* WHERE takes one expression.                                             *)
ParseWhere(toks) ==
    IF ~CurrentIn(toks, {"WHERE"}) THEN Parsed(<<>>, toks)
    ELSE Then(ParseOrExpression(Tail(toks)), LAMBDA e, rest :
           Parsed(<<e>>, rest))

(* ParseSelectStatement                                                    *)
ParseSelect(toks) ==
    Then(ParseList("item", Tail(toks)), LAMBDA items, from :
      Then(Expect(from, <<"FROM", "identifier">>), LAMBDA head, t1 :
        Then(ParseWhere(t1), LAMBDA where, t2 :
          Then(ParseClause(<<"GROUP", "BY">>, "expression", t2),
               LAMBDA group_by, t3 :
            Then(ParseClause(<<"ORDER", "BY">>, "order", t3),
                 LAMBDA order_by, t4 :
              Then(ParseLimit(t4), LAMBDA limit, t5 :
                ParseEnd(SelectStatement(items, head[2].text, where, group_by,
                                         order_by, limit), t5)))))))

Parse(toks) ==
    IF CurrentIn(toks, {"CREATE"}) THEN ParseCreate(toks)
    ELSE IF CurrentIn(toks, {"INSERT"}) THEN ParseInsert(toks)
    ELSE IF CurrentIn(toks, {"SELECT"}) THEN ParseSelect(toks)
    ELSE ParseError

-----------------------------------------------------------------------------
(* The expressions of docs/query_language.md, read in every possible way:  *)
(* the trees of a token sequence at each level of precedence.              *)

RECURSIVE DisjunctionTrees(_), ConjunctionTrees(_), NegationTrees(_)

Before(w, i) == SubSeq(w, 1, i - 1)
Behind(w, i) == SubSeq(w, i + 1, Len(w))
Places(w, types) == {i \in DOMAIN w : w[i].type \in types}

AtomTrees(w) ==
    {Column(w[i].text) : i \in {j \in Places(w, ColumnNames) : Len(w) = 1}}
    \cup {Literal(w[i].type, w[i].value) :
            i \in {j \in Places(w, Literals \ {"NULL"}) : Len(w) = 1}}
    \cup {NullLiteral : i \in {j \in Places(w, {"NULL"}) : Len(w) = 1}}
    \cup (IF Len(w) > 2 /\ Starts(w, <<"(">>) /\ w[Len(w)].type = ")"
          THEN DisjunctionTrees(SubSeq(w, 2, Len(w) - 1)) ELSE {})

PredicateTrees(w) ==
    AtomTrees(w)
    \cup UNION {{IsNull(e, is_not) : e \in AtomTrees(Before(w, i))} :
                  <<i, is_not>> \in
                    {<<j, b>> \in Places(w, {"IS"}) \X BOOLEAN :
                       [k \in DOMAIN Behind(w, j) |-> Behind(w, j)[k].type]
                         = IF b THEN <<"NOT", "NULL">> ELSE <<"NULL">>}}
    \cup UNION {{Binary(w[i].type, l, r) : l \in AtomTrees(Before(w, i)),
                                           r \in AtomTrees(Behind(w, i))} :
                  i \in Places(w, Comparisons)}

NegationTrees(w) ==
    PredicateTrees(w)
    \cup IF Starts(w, <<"NOT">>) THEN {Not(e) : e \in NegationTrees(Tail(w))}
         ELSE {}

ConjunctionTrees(w) ==
    NegationTrees(w)
    \cup UNION {{Binary("AND", l, r) : l \in ConjunctionTrees(Before(w, i)),
                                       r \in NegationTrees(Behind(w, i))} :
                  i \in Places(w, {"AND"})}

DisjunctionTrees(w) ==
    ConjunctionTrees(w)
    \cup UNION {{Binary("OR", l, r) : l \in DisjunctionTrees(Before(w, i)),
                                      r \in ConjunctionTrees(Behind(w, i))} :
                  i \in Places(w, {"OR"})}

Words(types) == [i \in DOMAIN types |-> [type |-> types[i]]]
SelectWhere(w) ==
    Words(<<"SELECT", "*", "FROM">>) \o <<[type |-> "identifier", text |-> "t"]>>
      \o Words(<<"WHERE">>) \o w \o Words(<<";">>)

(* The parser accepts a condition exactly if the grammar does, and reads   *)
(* it in the one way the grammar allows: one token of lookahead decides    *)
(* every alternative, and AND, OR and NOT bind as the documentation says.  *)
ParserFollowsGrammar ==
    LET w == SubSeq(query, 6, Len(query) - 1)
    IN  answer # NoAnswer /\ w \in Conditions /\ query = SelectWhere(w) =>
          IF answer.ok THEN {answer.ast.where[1]} = DisjunctionTrees(w)
          ELSE DisjunctionTrees(w) = {}

-----------------------------------------------------------------------------
(* A statement as tokens, with no parenthesis it can do without.           *)

Joined(lists) ==
    FlattenSeq([i \in DOMAIN lists |->
                  IF i = 1 THEN lists[i] ELSE Words(<<",">>) \o lists[i]])

Name(name) ==
    <<[type |-> IF name = "key" THEN "KEY" ELSE "identifier", text |-> name]>>

Precedence(e) ==
    CASE e.kind = "OR" -> 1 [] e.kind = "AND" -> 2 [] e.kind = "NOT" -> 3
      [] e.kind \in Comparisons \cup {"IS NULL"} -> 4 [] OTHER -> 5

RECURSIVE Written(_, _)
Written(e, least) ==
    LET Infix(l, r) == Written(e.left, l) \o Words(<<e.kind>>)
                         \o Written(e.right, r)
        bare ==
          CASE e.kind = "column" -> Name(e.name)
            [] e.kind = "NULL" -> Words(<<"NULL">>)
            [] e.kind \in Literals \ {"NULL"} ->
                 <<[type |-> e.kind, value |-> e.value]>>
            [] e.kind = "NOT" -> Words(<<"NOT">>) \o Written(e.arg, 3)
            [] e.kind = "IS NULL" ->
                 Written(e.arg, 5) \o Words(IF e.is_not
                                            THEN <<"IS", "NOT", "NULL">>
                                            ELSE <<"IS", "NULL">>)
            [] e.kind = "AND" -> Infix(2, 3)
            [] e.kind = "OR" -> Infix(1, 2)
            [] e.kind \in Comparisons -> Infix(5, 5)
    IN  IF Precedence(e) < least
        THEN Words(<<"(">>) \o bare \o Words(<<")">>) ELSE bare

WrittenItem(item) ==
    IF item = Star THEN Words(<<"*">>)
    ELSE IF item.kind \in Aggregates
      THEN Words(<<item.kind, "(">>) \o Written(item.arg, 1) \o Words(<<")">>)
    ELSE Written(item, 1)

WrittenColumn(c) ==
    Name(c.name) \o Words(<<c.type>>)
      \o (IF c.is_key THEN Name("key")
          ELSE IF c.nullable THEN Words(<<"NULL">>) ELSE <<>>)

WrittenOrder(item) ==
    Written(item.expression, 1)
      \o Words(IF item.desc THEN <<"DESC">> ELSE <<>>)

Each(Write(_), list) == Joined([i \in DOMAIN list |-> Write(list[i])])
Clause(words, Write(_), list) ==
    IF list = <<>> THEN <<>> ELSE Words(words) \o Each(Write, list)

WrittenStatement(s) ==
    LET Expression(e) == Written(e, 1)
        Number(n) == <<[type |-> "int", value |-> n]>>
    IN  CASE s.kind = "CREATE" ->
               Words(<<"CREATE", "TABLE">>) \o Name(s.table) \o Words(<<"(">>)
                 \o Each(WrittenColumn, s.columns) \o Words(<<")", ";">>)
          [] s.kind = "INSERT" ->
               Words(<<"INSERT", "INTO">>) \o Name(s.table) \o Words(<<"(">>)
                 \o Each(Name, s.columns) \o Words(<<")", "VALUES", "(">>)
                 \o Each(Expression, s.values) \o Words(<<")", ";">>)
          [] s.kind = "SELECT" ->
               Words(<<"SELECT">>) \o Each(WrittenItem, s.items)
                 \o Words(<<"FROM">>) \o Name(s.table)
                 \o Clause(<<"WHERE">>, Expression, s.where)
                 \o Clause(<<"GROUP", "BY">>, Expression, s.group_by)
                 \o Clause(<<"ORDER", "BY">>, WrittenOrder, s.order_by)
                 \o Clause(<<"LIMIT">>, Number, s.limit)
                 \o Words(<<";">>)

(* The same tokens but for one left out, doubled, swapped with the next,   *)
(* or unreadable.                                                          *)
Edits(q) ==
    {q} \cup {RemoveAt(q, i) : i \in DOMAIN q}
        \cup {InsertAt(q, i, q[i]) : i \in DOMAIN q}
        \cup {InsertAt(q, i, [type |-> "error"]) : i \in 1 .. Len(q) + 1}
        \cup {[q EXCEPT ![i] = q[i + 1], ![i + 1] = q[i]] :
               i \in 1 .. Len(q) - 1}

WrittenQueries == {WrittenStatement(s) : s \in Statements}
EditedQueries == UNION {Edits(q) : q \in WrittenQueries}

ParseInit ==
    /\ query \in EditedQueries \cup {SelectWhere(w) : w \in Conditions}
    /\ answer = NoAnswer

(* ParseStatement                                                          *)
ParseStatement ==
    /\ answer = NoAnswer
    /\ answer' = Parse(query)
    /\ UNCHANGED query

WithoutParentheses(q) == SelectSeq(q, LAMBDA t : t.type \notin {"(", ")"})

(* What the parser accepts it has understood: the statement, written down  *)
(* again, is what was read, token by token up to the first `;' (but for    *)
(* parentheses an edit has made superfluous).  So no clause is dropped,    *)
(* taken for another or attached elsewhere, and a text with one token      *)
(* missing, doubled, out of place or unreadable is another statement or    *)
(* none.                                                                   *)
StatementsRoundTrip ==
    answer # NoAnswer /\ query \in EditedQueries =>
      LET again == WrittenStatement(answer.ast) \o answer.rest
      IN  /\ query \in WrittenQueries =>
               answer.ok /\ again = query /\ answer.rest = <<>>
          /\ answer.ok =>
               /\ WithoutParentheses(again) = WithoutParentheses(query)
               /\ answer.rest # <<>> => Head(answer.rest).type # "error"
=============================================================================
