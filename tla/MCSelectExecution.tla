------------------------- MODULE MCSelectExecution -------------------------
(***************************************************************************)
(* Small tables and queries.  With IntMax = 7 and ExactBelow = 4, the key  *)
(* 7 has no successor and the INT64 values 5 and 7 round to 4 and 8.       *)
(***************************************************************************)
EXTENDS SelectExecution

CONSTANTS
    Keys,        \* triples of keys
    Values,      \* INT64 values of val; NULL is always among the values
    Doubles      \* DOUBLE values of val

(* Three rows in key order: which of them are in the memtable, and whether *)
(* the others share a block.                                               *)
TableOf(keys, vals, in_mem, one_block, type) ==
    LET row(i) == [id |-> i, key |-> keys[i], val |-> vals[i]]
        mem == SelectSeq(<<1, 2, 3>>, LAMBDA i : i \in in_mem)
        rest == SelectSeq(<<1, 2, 3>>, LAMBDA i : i \notin in_mem)
    IN  [mem |-> [i \in DOMAIN mem |-> row(mem[i])],
         blocks |-> IF one_block
                      THEN <<[i \in DOMAIN rest |-> row(rest[i])]>>
                      ELSE [i \in DOMAIN rest |-> <<row(rest[i])>>],
         val_type |-> type]

TablesOf(values, type) ==
    {TableOf(keys, vals, in_mem, one_block, type) :
       keys \in Keys,
       vals \in [1 .. 3 -> {{}} \cup {{v} : v \in values}],
       in_mem \in {{}, {1}, {2}, {3}}, one_block \in BOOLEAN}

MCTables == TablesOf(Values, "INT64") \cup TablesOf(Doubles, "DOUBLE")

Literal(type, n) == [type |-> type, value |-> {n}]
Null == [type |-> "NULL", value |-> {}]

Comparison(column, op, literal, left) ==
    [kind |-> "comparison", column |-> column, op |-> op,
     literal |-> literal, column_on_left |-> left]

Ops == {"=", "!=", "<", "<=", ">", ">="}

KeyConjuncts ==
    {Comparison("key", op, literal, left) :
       op \in Ops, left \in BOOLEAN,
       literal \in {Literal("INT64", n) : n \in {1, 6, 7}}
                      \cup {Null, Literal("DOUBLE", 1)}}

ValConjuncts ==
    {Comparison("val", op, literal, left) :
       op \in Ops, left \in BOOLEAN,
       literal \in {Literal("INT64", 1), Literal("INT64", 5),
                    Literal("DOUBLE", 4), Literal("DOUBLE", 6), Null}}

Low == Comparison("key", ">", Literal("INT64", 0), TRUE)
High == Comparison("key", "<=", Literal("INT64", 6), TRUE)
Small == Comparison("val", "<", Literal("INT64", 5), TRUE)

OtherConjuncts ==
    {[kind |-> "not", of |-> Small],
     [kind |-> "or", left |-> Small, right |-> Low],
     [kind |-> "is_null", column |-> "val", is_not |-> FALSE],
     [kind |-> "is_null", column |-> "val", is_not |-> TRUE]}

Pairs ==
    {<<a, b>> : a \in {Low, High},
                b \in {c \in KeyConjuncts : c.literal.type = "INT64"}}
      \cup {<<High, c>> : c \in OtherConjuncts \cup {Small}}

Wheres == {<<c>> : c \in KeyConjuncts \cup ValConjuncts \cup OtherConjuncts}
            \cup Pairs \cup {<<>>}

Query(kind, where, order, limit) ==
    [kind |-> kind, where |-> where, order |-> order, limit |-> limit]

By(column, direction) == [column |-> column, direction |-> direction]

FewWheres ==
    {<<>>, <<Small>>, <<High, Low>>,
     <<[kind |-> "is_null", column |-> "val", is_not |-> FALSE]>>,
     <<Comparison("key", "<", Null, TRUE)>>}

ItemLists ==
    {<<>>, <<By("key", "Asc")>>, <<By("key", "Desc")>>, <<By("val", "Desc")>>,
     <<By("val", "Asc"), By("key", "Desc")>>,
     <<By("key", "Asc"), By("val", "Desc")>>}

PlainQueries ==
    {Query("plain", where, <<>>, {}) : where \in Wheres}
      \cup {Query("plain", where, order, limit) :
              where \in FewWheres, order \in ItemLists, limit \in {{}, {1}, {2}}}

AggregateQueries ==
    {Query("global", where, <<>>, limit) :
       where \in FewWheres, limit \in {{}, {0}, {1}}}
      \cup {Query("grouped", where, order, limit) :
              where \in FewWheres, order \in {<<>>, <<By("val", "Desc")>>},
              limit \in {{}, {0}, {1}, {2}}}

MCQueries == PlainQueries \cup AggregateQueries

MCKeys == {<<1, 2, 7>>}

(* LIMIT 0, with and without ORDER BY, in every kind of query.             *)
ZeroQueries ==
    {Query(kind, <<>>, order, {0}) :
       kind \in {"plain", "global", "grouped"},
       order \in {<<>>, <<By("val", "Desc")>>}}

(* A key inserted twice, its rows in different generations.                *)
RepeatedKeys == {<<1, 1, 2>>}
TieQueries == {Query("plain", <<>>, order, {}) : order \in ItemLists}
=============================================================================
