----------------------------- MODULE MCFrontEnd ----------------------------
(***************************************************************************)
(* QueryLexer, QueryParser and Statements for TLC.  They share no state:   *)
(* `part' is the one a behaviour is about, and the others rest.            *)
(***************************************************************************)
EXTENDS QueryLexer, QueryParser, Statements

VARIABLE part

(* The lexer: `i' stands for the letters but `s', and `is' for the words.  *)
MCLetters == {"i", "S"}
MCDigits == {"1"}
MCBlanks == {" ", "\n"}
MCNewLine == "\n"
MCCapital == [c \in {"i", "S", "1"} |-> IF c = "i" THEN "I" ELSE c]
MCKeywords == {<<"I", "S">>}
MCTexts ==
    LET characters == {"i", "S", "1", "'", "-", ".", "\n", "<", "=", "!", "?"}
    IN  UNION {[1 .. n -> characters] : n \in 0 .. 4}

-----------------------------------------------------------------------------
(* The parser: conditions of up to five tokens, and statements with every  *)
(* clause present and absent.                                              *)
Word(t) == [type |-> t]
Tokens == {Word(t) : t \in {"=", "NOT", "AND", "OR", "(", ")"}}
            \cup {[type |-> "identifier", text |-> "a"]}
MCConditions ==
    UNION {[1 .. n -> Tokens \cup {Word("NULL"), Word("IS")}] : n \in 1 .. 4}
      \cup [1 .. 5 -> Tokens]

K == Column("key")
A == Column("a")
B == Column("b")
Integer(n) == Literal("int", n)
Double(n) == Literal("double", n)
String(n) == Literal("string", n)
KeyAsc == OrderBy(K, FALSE)
ADesc == OrderBy(A, TRUE)

Nested ==
    {A, Binary("=", A, Integer(1)), Not(Binary("OR", A, Not(K))),
     Binary("AND", Binary("OR", A, K), IsNull(A, TRUE)),
     Binary("OR", A, Binary("OR", A, Binary("AND", K, Binary("AND", A, A)))),
     Binary("<", Binary("=", A, A), IsNull(Not(A), FALSE))}

Optional(S) == {<<>>} \cup {<<x>> : x \in S}

MCStatements ==
    [kind : {"CREATE"}, table : {"t"},
     columns : {<<c>> : c \in [name : {"a", "key"}, type : {"INT64", "STRING"},
                               nullable : {FALSE}, is_key : BOOLEAN]}
                 \cup {<<ColumnDefinition("key", "INT64", FALSE, TRUE),
                         ColumnDefinition("b", "DOUBLE", TRUE, FALSE)>>}]
      \cup [kind : {"INSERT"}, table : {"t"},
            columns : {<<"key", "a">>, <<"a">>},
            values : {<<Integer(1)>>, <<NullLiteral, Literal("string", "s")>>,
                      <<Integer(1), Double(1)>>}]
      \cup [kind : {"SELECT"}, table : {"t"},
            items : {<<Star>>, <<A, Aggregate("COUNT", K)>>},
            where : Optional(Nested), group_by : {<<>>, <<A, Not(K)>>},
            order_by : {<<>>, <<ADesc, KeyAsc>>}, limit : {<<>>, <<3>>}]

-----------------------------------------------------------------------------
(* The engines: one table, key INT64, a DOUBLE NULL, b STRING.             *)
KeyColumn == ColumnDefinition("key", "INT64", FALSE, TRUE)
AColumn == ColumnDefinition("a", "DOUBLE", TRUE, FALSE)
BColumn == ColumnDefinition("b", "STRING", FALSE, FALSE)

Creates ==
    {CreateStatement("t", columns) : columns \in
       {<<KeyColumn, AColumn, BColumn>>, <<KeyColumn, BColumn, BColumn>>,
        <<AColumn, KeyColumn>>, <<BColumn>>,
        <<KeyColumn, ColumnDefinition("k2", "INT64", FALSE, TRUE)>>,
        <<ColumnDefinition("key", "STRING", FALSE, TRUE)>>}}

Into(columns, values) == InsertStatement("t", columns, values)
Inserts ==
    {Into(<<"key", "a", "b">>, <<Integer(1), Double(1), String(1)>>),
     Into(<<"b", "key">>, <<String(1), Integer(2)>>),
     Into(<<"b", "a", "key">>, <<String(2), NullLiteral, Integer(7)>>),
     Into(<<"b", "key", "a">>, <<String(1), Integer(1), Double(2)>>),
     Into(<<"key", "a">>, <<Integer(1), Double(1)>>),
     Into(<<"key", "b">>, <<NullLiteral, String(1)>>),
     Into(<<"key", "b", "a">>, <<Integer(1), String(1), Integer(1)>>),
     Into(<<"key", "b", "b">>, <<Integer(1), String(1), String(2)>>),
     Into(<<"key", "b", "x">>, <<Integer(1), String(1), String(2)>>),
     Into(<<"key", "b">>, <<Integer(1)>>),
     InsertStatement("u", <<"key", "b">>, <<Integer(1), String(1)>>)}

SameB == Binary("=", B, String(1))
Filters ==
    {Binary("=", K, Integer(1)), Binary("=", K, Integer(7)),
     Binary(">", Integer(2), K), Binary(">", K, Double(1)),
     Binary("=", K, NullLiteral), SameB,
     Binary("=", A, B), Not(Binary("<", A, Integer(2))), A, Column("x"), Not(B),
     Binary("OR", IsNull(A, FALSE), SameB),
     Binary("AND", Binary(">=", K, Integer(1)), SameB), Binary("AND", A, SameB),
     Binary("!=", SameB, IsNull(A, TRUE))}

ItemLists ==
    {<<Star>>, <<B>>, <<A, Integer(1)>>, <<Column("x")>>, <<Binary("=", A, B)>>,
     <<Aggregate("COUNT", B)>>, <<Aggregate("MAX", B)>>,
     <<Aggregate("SUM", A), Aggregate("AVG", K)>>,
     <<Aggregate("SUM", K), Aggregate("AVG", A)>>,
     <<Aggregate("COUNT", K), B>>, <<SameB, Aggregate("MIN", K)>>}

From(items, where, group_by, order_by) ==
    SelectStatement(items, "t", where, group_by, order_by, <<>>)

Selects ==
    {From(items, <<filter>>, <<>>, <<>>) :
       items \in {<<B>>, <<Star>>}, filter \in Filters}
      \cup {From(items, <<>>, group_by, order_by) :
              items \in ItemLists,
              group_by \in {<<>>, <<B>>, <<SameB>>, <<A, B>>},
              order_by \in {<<>>, <<KeyAsc>>, <<ADesc, OrderBy(B, FALSE)>>,
                            <<OrderBy(Binary("=", A, B), FALSE)>>}}
      \cup {From(items, <<filter>>, group_by, <<>>) :
              items \in {<<B, Aggregate("SUM", A)>>, <<Aggregate("COUNT", K)>>},
              filter \in
                {Binary("<", K, Integer(7)), Binary("=", K, Integer(1)),
                 Binary("AND", Binary(">", K, Integer(1)), IsNull(A, TRUE))},
              group_by \in {<<>>, <<B>>}}

MCRequests == Creates \cup Inserts \cup Selects

(* Their expressions: those of a query, and the columns that * may bring.  *)
RECURSIVE Below(_)
Below(e) == {e} \cup UNION {Below(o) : o \in Operands(e)}
RECURSIVE Height(_)
Height(e) == 1 + Max({0} \cup {Height(o) : o \in Operands(e)})

Named(s) == {Column(c.name) : c \in Range(s.columns)}
Roots(s) ==
    {ArgumentOf(item) : item \in Range(s.items) \ {Star}}
      \cup Range(s.where) \cup Range(s.group_by) \cup Range(OrderExpressions(s))
MCLayers ==
    LET all == UNION {Named(s) : s \in Creates}
                 \cup UNION {Below(e) : e \in UNION {Roots(s) : s \in Selects}}
    IN  [h \in 1 .. Max({Height(e) : e \in all}) |->
           {e \in all : Height(e) = h}]

-----------------------------------------------------------------------------
LexerRests == text = <<>> /\ pos = 1 /\ place = [line |-> 1, column |-> 1]
                /\ tokens = <<>> /\ reading = "done"
ParserRests == query = <<>> /\ answer = ParseError

FrontEndInit ==
    \/ part = "lexer" /\ LexInit /\ ParserRests /\ StmtInit
    \/ part = "parser" /\ LexerRests /\ ParseInit /\ StmtInit
    \/ part = "engines" /\ LexerRests /\ ParserRests /\ StmtInit

FrontEndNext ==
    /\ UNCHANGED part
    /\ \/ part = "lexer" /\ NextToken /\ UNCHANGED <<parseVars, stmtVars>>
       \/ part = "parser" /\ ParseStatement /\ UNCHANGED <<lexVars, stmtVars>>
       \/ part = "engines" /\ StmtNext /\ UNCHANGED <<lexVars, parseVars>>

FrontEndSpec ==
    FrontEndInit /\ [][FrontEndNext]_<<part, lexVars, parseVars, stmtVars>>
=============================================================================
