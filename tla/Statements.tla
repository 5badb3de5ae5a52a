----------------------------- MODULE Statements -----------------------------
(***************************************************************************)
(* Binder and Executor over the two storage engines.  Every statement runs *)
(* on an LSM engine and on a mock engine, side by side, to its end.        *)
(*                                                                         *)
(* A cell is the empty set for NULL, or the set of one value [type, value];*)
(* strings are numbers here, and a BOOL is 0 or 1.  A row is the sequence  *)
(* of its cells.  A table of the LSM engine is its rows in memory, in      *)
(* SSTables of the ROW layout and in those of the COLUMN layout, whose     *)
(* cursors leave out the columns that are not projected; how the tree      *)
(* keeps and scans them is the subject of LSMTree and TreeScan.  The order *)
(* and the LIMIT of an answer are those of SelectExecution; here the       *)
(* expressions of ORDER BY are evaluated.  What a cursor returns, or a     *)
(* SELECT, is a function on places: numbers in the order of the rows, or   *)
(* the keys of the groups.                                                 *)
(***************************************************************************)
EXTENDS QuerySyntax, FiniteSets, SequencesExt, Sums

CONSTANTS
    Requests,       \* the statements to run
    Layers,         \* their expressions and the operands of these, by height
    ExactBelow,     \* see SelectPlan
    MaxRows         \* bound: rows of a table

VARIABLES
    trees,      \* LSMStorageEngine::tables_: name -> [schema, mem, row, column]
    mocks,      \* MockStorageEngine::tables_: name -> [schema, data]
    last        \* the last statement and what it returned from each engine

stmtVars == <<trees, mocks, last>>

Plan == INSTANCE SelectPlan

-----------------------------------------------------------------------------
(* What the parser hands over.                                             *)

Operands(e) ==
    CASE e.kind \in {"NOT", "IS NULL"} -> {e.arg}
      [] e.kind \in Comparisons \cup {"AND", "OR"} -> {e.left, e.right}
      [] OTHER -> {}

Expressions == UNION Range(Layers)

IsSequence(list) == list \in Seq(Range(list))

IsExpression(e) ==
    \/ e.kind \in {"column", "NULL", "NOT", "AND", "OR"} \cup Comparisons
    \/ e.kind = "IS NULL" /\ e.is_not \in BOOLEAN
    \/ e.kind = "int" /\ e.value \in IntMin .. IntMax
    \/ e.kind \in {"double", "string"} /\ e.value \in Int

(* Syntax trees are finite.                                                *)
ASSUME ExpressionsAssumption ==
    /\ IsSequence(Layers)
    /\ \A h \in DOMAIN Layers : \A e \in Layers[h] :
         /\ IsExpression(e)
         /\ \A o \in Operands(e) : \E below \in 1 .. h - 1 : o \in Layers[below]

AreColumns(columns) ==
    /\ IsSequence(columns)
    /\ \A c \in Range(columns) :
         /\ c.type \in {"INT64", "DOUBLE", "STRING"}
         /\ c.nullable \in BOOLEAN /\ c.is_key \in BOOLEAN
         /\ Column(c.name) \in Expressions

IsInsert(s) ==
    /\ IsSequence(s.columns) /\ IsSequence(s.values)
    /\ \A v \in Range(s.values) : v.kind \in Literals /\ IsExpression(v)

IsSelect(s) ==
    /\ IsSequence(s.items)
    /\ \A item \in Range(s.items) :
         \/ item \in Expressions \cup {Star}
         \/ item.kind \in Aggregates /\ item.arg \in Expressions
    /\ IsSequence(s.where) /\ IsSequence(s.group_by) /\ IsSequence(s.order_by)
    /\ Len(s.where) <= 1
    /\ Range(s.where) \cup Range(s.group_by) \subseteq Expressions
    /\ \A o \in Range(s.order_by) : o.expression \in Expressions /\ o.desc \in BOOLEAN
    /\ s.limit = <<>>

ASSUME RequestsAssumption ==
    \A s \in Requests :
      CASE s.kind = "CREATE" -> AreColumns(s.columns)
        [] s.kind = "INSERT" -> IsInsert(s)
        [] s.kind = "SELECT" -> IsSelect(s)

-----------------------------------------------------------------------------
(* Schema and SchemaBuilder.                                               *)

Null == {}
Cell(type, v) == {[type |-> type, value |-> v]}
Bool(b) == Cell("BOOL", IF b THEN 1 ELSE 0)
Thrown == Cell("throw", 0)

(* add_column and build: names differ, and the key is the first column, an *)
(* INT64 that is never NULL.                                               *)
BuildsSchema(columns) ==
    /\ \A i, j \in DOMAIN columns :
         columns[i].name = columns[j].name => i = j
    /\ \A i \in DOMAIN columns : columns[i].is_key =>
         i = 1 /\ columns[i].type = "INT64" /\ ~columns[i].nullable
    /\ columns # <<>> /\ columns[1].is_key

(* get_column_index, as the set of at most one index.                      *)
ColumnIndex(schema, name) == {i \in DOMAIN schema : schema[i].name = name}
IndexOf(schema, name) == CHOOSE i \in ColumnIndex(schema, name) : TRUE

(* A check that lets NULL into every column but the key.                   *)
NullButForKey(column, cell) ==
    IF cell = Null THEN ~column.is_key
    ELSE \A v \in cell : v.type = column.type

(* Schema::is_valid_value, as validate_row and BindInsert use it.          *)
IsValidValue(column, cell) ==
    IF cell = Null THEN column.nullable
    ELSE \A v \in cell : v.type = column.type

-----------------------------------------------------------------------------
(* Binder.  A bound expression is the expression itself: its columns stand *)
(* for their indices, and its type is TypeOf.                              *)

(* ConvertLiteralExpression                                                *)
LiteralType(e) ==
    CASE e.kind = "int" -> "INT64" [] e.kind = "double" -> "DOUBLE"
      [] e.kind = "string" -> "STRING" [] e.kind = "NULL" -> "NULL"

LiteralCell(e) ==
    IF e.kind = "NULL" THEN Null ELSE Cell(LiteralType(e), e.value)

(* An expression and all below it.                                         *)
Parts ==
    LET parts[e \in Expressions] ==
          {e} \cup UNION {parts[o] : o \in Operands(e)}
    IN  parts

ColumnParts(e) == {x \in Parts[e] : x.kind = "column"}

(* The indices of the columns of e.                                        *)
ColumnsOf(schema, e) ==
    UNION {ColumnIndex(schema, x.name) : x \in ColumnParts(e)}

(* BindExpression throws for a column the schema does not have.            *)
Binds(schema, e) ==
    \A x \in ColumnParts(e) : ColumnIndex(schema, x.name) # {}

(* The types of the bound expressions: operators are BOOL.                 *)
TypeOf(schema, e) ==
    CASE e.kind = "column" -> schema[IndexOf(schema, e.name)].type
      [] e.kind \in Literals -> LiteralType(e)
      [] OTHER -> "BOOL"

IsAggregate(item) == item.kind \in Aggregates

(* An aggregate that takes an argument of any type.                        *)
AggregatesAnything(kind, type) == TRUE

(* GetAggregateResultType: COUNT takes anything, the others numbers.       *)
AggregateAllowed(kind, type) ==
    kind = "COUNT" \/ type \in {"INT64", "DOUBLE"}

(* BindSelectItem: `*' is every column.                                    *)
ExpandItems(schema, items) ==
    FlattenSeq([i \in DOMAIN items |->
      IF items[i] = Star
      THEN [j \in DOMAIN schema |-> Column(schema[j].name)]
      ELSE <<items[i]>>])

ArgumentOf(item) == IF IsAggregate(item) THEN item.arg ELSE item

BindsItem(schema, item) ==
    /\ Binds(schema, ArgumentOf(item))
    /\ IsAggregate(item) =>
         AggregateAllowed(item.kind, TypeOf(schema, item.arg))

(* A check that takes any column of a group for an item of the group.      *)
GroupsLoosely(items, group_by) ==
    \/ group_by # <<>>
    \/ ~\E i \in DOMAIN items : IsAggregate(items[i])
    \/ \A i \in DOMAIN items : IsAggregate(items[i])

(* ValidateGroupedSelect; AreEquivalentExpressions is equality of trees.   *)
ValidGrouping(items, group_by) ==
    IF group_by = <<>>
    THEN \A i, j \in DOMAIN items :
           IsAggregate(items[i]) <=> IsAggregate(items[j])
    ELSE \A i \in DOMAIN items :
           IsAggregate(items[i]) \/ items[i] \in Range(group_by)

(* BindSelect                                                              *)
SelectBinds(schema, s) ==
    LET items == ExpandItems(schema, s.items)
    IN  /\ \A i \in DOMAIN items : BindsItem(schema, items[i])
        /\ \A i \in DOMAIN s.where :
             Binds(schema, s.where[i]) /\ TypeOf(schema, s.where[i]) = "BOOL"
        /\ \A i \in DOMAIN s.group_by : Binds(schema, s.group_by[i])
        /\ \A i \in DOMAIN s.order_by : Binds(schema, s.order_by[i].expression)
        /\ ValidGrouping(items, s.group_by)

(* BindInsert: row_values, NULL where no value is given.                   *)
RowOf(schema, s) ==
    [i \in DOMAIN schema |->
       LET places == {p \in DOMAIN s.columns : s.columns[p] = schema[i].name}
       IN  IF places = {} THEN Null ELSE LiteralCell(s.values[CHOOSE p \in places : TRUE])]

InsertBinds(schema, s) ==
    /\ Len(s.columns) = Len(s.values)
    /\ \A p \in DOMAIN s.columns : ColumnIndex(schema, s.columns[p]) # {}
    /\ \A p, q \in DOMAIN s.columns : s.columns[p] = s.columns[q] => p = q
    /\ \A i \in DOMAIN schema : IsValidValue(schema[i], RowOf(schema, s)[i])

(* GetSchema and Bind, for an engine with these tables.                    *)
BindsIn(tables, s) ==
    IF s.kind = "CREATE" THEN BuildsSchema(s.columns)
    ELSE /\ s.table \in DOMAIN tables
         /\ IF s.kind = "INSERT" THEN InsertBinds(tables[s.table].schema, s)
            ELSE SelectBinds(tables[s.table].schema, s)

-----------------------------------------------------------------------------
(* Executor: expressions.                                                  *)

ValueOf(cell) == CHOOSE v \in cell : TRUE
IsBool(cell) == ValueOf(cell).type = "BOOL"

(* CompareResultValues throws for two values of different types, numbers   *)
(* excepted.                                                               *)
Comparable(a, b) ==
    a.type = b.type \/ {a.type, b.type} = {"INT64", "DOUBLE"}

CompareCells(op, l, r) ==
    IF Thrown \in {l, r} THEN Thrown
    ELSE IF Null \in {l, r} THEN Null
    ELSE LET a == ValueOf(l)
             b == ValueOf(r)
         IN  IF ~Comparable(a, b) THEN Thrown
             ELSE Bool(Plan!Holds(op, Plan!Compare(a.type, a.value,
                                                   b.type, b.value)))

(* AND and OR: both sides are evaluated, and the left one is looked at     *)
(* first; `decisive' is FALSE for AND and TRUE for OR.                     *)
Connect(decisive, l, r) ==
    IF Thrown \in {l, r} THEN Thrown
    ELSE IF l # Null /\ ~IsBool(l) THEN Thrown
    ELSE IF l = decisive THEN decisive
    ELSE IF r # Null /\ ~IsBool(r) THEN Thrown
    ELSE IF r = decisive THEN decisive
    ELSE IF Null \in {l, r} THEN Null
    ELSE Bool(decisive = Bool(FALSE))

Negate(cell) ==
    IF cell \in {Thrown, Null} THEN cell
    ELSE IF IsBool(cell) THEN Bool(cell = Bool(FALSE)) ELSE Thrown

(* EvaluateExpression, with the values of the operands.                    *)
EvaluateWith(value, e, schema, row) ==
    CASE e.kind = "column" -> row[IndexOf(schema, e.name)]
      [] e.kind \in Literals -> LiteralCell(e)
      [] e.kind = "NOT" -> Negate(value[e.arg])
      [] e.kind = "AND" ->
           Connect(Bool(FALSE), value[e.left], value[e.right])
      [] e.kind = "OR" ->
           Connect(Bool(TRUE), value[e.left], value[e.right])
      [] e.kind = "IS NULL" ->
           IF value[e.arg] = Thrown THEN Thrown
           ELSE Bool((value[e.arg] = Null) # e.is_not)
      [] e.kind \in Comparisons ->
           CompareCells(e.kind, value[e.left], value[e.right])

(* The values on a row, of every expression.                               *)
Evaluate(schema, row) ==
    LET value[e \in Expressions] == EvaluateWith(value, e, schema, row)
    IN  value

(* UpdateGlobalAggregateState throws for a value that is not of the type   *)
(* the binder has given the aggregate, and for types it does not know.     *)
Takes(kind, type, cell) ==
    \/ kind = "COUNT"
    \/ \A v \in cell :
         v.type \in {"INT64", "DOUBLE"} /\ (kind = "AVG" \/ v.type = type)

Wrap(n) == ((n - IntMin) % (2 * IntMax + 2)) + IntMin

Numbers(cell) == {v.value : v \in cell}

(* The updates and FinalizeAggregateState, over the cells of some rows; of *)
(* an average, the sum and the count are kept.                             *)
AggregateOf(kind, type, cells) ==
    LET seen == {i \in DOMAIN cells : cells[i] # Null}
        numbers == [i \in DOMAIN cells |-> Numbers(cells[i])]
        values == UNION Range(numbers)
        sum == Sums(numbers)[DOMAIN cells]
    IN  IF \E cell \in Range(cells) : cell = Thrown \/ ~Takes(kind, type, cell)
          THEN Thrown
        ELSE IF kind = "COUNT" THEN Cell("INT64", Cardinality(seen))
        ELSE IF seen = {} THEN Null
        ELSE CASE kind = "SUM" ->
                    Cell(type, IF type = "INT64" THEN Wrap(sum) ELSE sum)
               [] kind = "AVG" -> {[type |-> "DOUBLE", value |-> sum,
                                    over |-> Cardinality(seen)]}
               [] kind = "MIN" -> Cell(type, Min(values))
               [] kind = "MAX" -> Cell(type, Max(values))

-----------------------------------------------------------------------------
(* Executor: the read.                                                     *)

ArgumentsOf(items) == {ArgumentOf(items[i]) : i \in DOMAIN items}
OrderExpressions(s) ==
    [i \in DOMAIN s.order_by |-> s.order_by[i].expression]

(* Every expression of a SELECT.                                           *)
ExpressionsOf(schema, s) ==
    ArgumentsOf(ExpandItems(schema, s.items))
      \cup Range(s.where) \cup Range(s.group_by) \cup Range(OrderExpressions(s))

(* A projection of what the answer shows.                                  *)
ProjectionOfItems(schema, s) ==
    UNION {ColumnsOf(schema, e) :
             e \in ArgumentsOf(ExpandItems(schema, s.items))}

(* CollectRequiredProjection: every column in use, once.                   *)
Projection(schema, s) ==
    UNION {ColumnsOf(schema, e) : e \in ExpressionsOf(schema, s)}

(* validate_projection of the LSM engine.                                  *)
ValidProjection(schema, projection) == projection \subseteq DOMAIN schema

(* CollectConjuncts                                                        *)
Conjuncts ==
    LET conjuncts[e \in Expressions] ==
          IF e.kind = "AND" THEN conjuncts[e.left] \o conjuncts[e.right]
          ELSE <<e>>
    IN  conjuncts

(* What BuildCursorForSelect sees of a conjunct, in the form of SelectPlan.*)
PlanConjunct(schema, c) ==
    LET compares(col, lit, on_left) ==
          [kind |-> "comparison", op |-> c.kind, column_on_left |-> on_left,
           column |-> IF IndexOf(schema, col.name) = 1 THEN "key"
                      ELSE "val",
           literal |-> [type |-> LiteralType(lit),
                        value |-> Numbers(LiteralCell(lit))]]
    IN  IF c.kind \notin Comparisons THEN [kind |-> "other"]
        ELSE IF c.left.kind = "column" /\ c.right.kind \in Literals
          THEN compares(c.left, c.right, TRUE)
        ELSE IF c.left.kind \in Literals /\ c.right.kind = "column"
          THEN compares(c.right, c.left, FALSE)
        ELSE [kind |-> "other"]

(* The conjuncts of WHERE in that form.                                    *)
PlanConjuncts(schema, s) ==
    LET all == IF s.where = <<>> THEN <<>> ELSE Conjuncts[s.where[1]]
    IN  [i \in DOMAIN all |-> PlanConjunct(schema, all[i])]

PlanOf(schema, s) == Plan!BuildPlan(PlanConjuncts(schema, s))

KeyOf(row) == ValueOf(row[1]).value

InRange(range, row) ==
    /\ \A f \in range.from : KeyOf(row) >= f
    /\ \A t \in range.to : KeyOf(row) < t

(* A row of an SSTable as its cursor returns it: the key is always there,  *)
(* a column that is not projected is NULL in a row block, and not loaded   *)
(* from a column block.                                                    *)
Masked(rows, projection, absent) ==
    [i \in DOMAIN rows |-> [c \in DOMAIN rows[i] |->
       IF c = 1 \/ c \in projection THEN rows[i][c] ELSE absent]]

(* LSMStorageEngine::get and scan.                                         *)
ReadTree(tree, plan, projection) ==
    RestrictValues(tree.mem \o Masked(tree.row, projection, Null)
                            \o Masked(tree.column, projection, Thrown),
                   LAMBDA r : InRange(Plan!PlanRange(plan), r))

(* MockStorageEngine::get and scan: whole rows, in the order of the map.   *)
(* get adds one to the key also where that wraps.                          *)
MockRange(plan) ==
    IF plan.point = {} THEN Plan!PlanRange(plan)
    ELSE [from |-> plan.point, to |-> {Wrap(k + 1) : k \in plan.point}]

ReadMock(mock, plan) ==
    RestrictValues(mock.data, LAMBDA r : InRange(MockRange(plan), r))

-----------------------------------------------------------------------------
(* Executor: SELECT.                                                       *)

Outcome(kind, rows) == [kind |-> kind, rows |-> rows]
Rejected == Outcome("rejected", <<>>)
Failed == Outcome("failed", <<>>)

(* The outcome of rows none of whose cells has thrown.                     *)
Answer(cells, rows) ==
    IF Thrown \in cells THEN Failed ELSE Outcome("ok", rows)

CellsOf(schema, exprs, row) ==
    [i \in DOMAIN exprs |-> Evaluate(schema, row)[exprs[i]]]

AllCells(schema, exprs, rows) ==
    UNION {Range(CellsOf(schema, exprs, rows[i])) : i \in DOMAIN rows}

(* IsRuquiredKeyAsc: the storage sorts, and ORDER BY is not evaluated.     *)
RequiresKeyAsc(schema, s) ==
    /\ s.order_by # <<>>
    /\ ~s.order_by[1].desc
    /\ s.order_by[1].expression.kind = "column"
    /\ ColumnIndex(schema, s.order_by[1].expression.name) = {1}

(* ExecutePlainSelect                                                      *)
ExecutePlain(schema, s, items, rows) ==
    LET sort_keys == IF RequiresKeyAsc(schema, s) THEN <<>>
                     ELSE OrderExpressions(s)
    IN  Answer(AllCells(schema, items \o sort_keys, rows),
               [i \in DOMAIN rows |-> CellsOf(schema, items, rows[i])])

FirstOf(rows) ==
    rows[CHOOSE i \in DOMAIN rows : \A j \in DOMAIN rows : i <= j]

(* The row of a group: an item is evaluated on the first row of the group. *)
RowOfGroup(schema, items, rows) ==
    [i \in DOMAIN items |->
       IF IsAggregate(items[i])
       THEN AggregateOf(items[i].kind, TypeOf(schema, items[i].arg),
                        [r \in DOMAIN rows |->
                           Evaluate(schema, rows[r])[items[i].arg]])
       ELSE Evaluate(schema, FirstOf(rows))[items[i]]]

(* ExecuteGlobalAggregateSelect                                            *)
ExecuteGlobal(schema, items, rows) ==
    LET row == RowOfGroup(schema, items, rows)
    IN  Answer(Range(row), <<row>>)

GroupKey(schema, s, row) == CellsOf(schema, s.group_by, row)

RowsOfGroup(schema, s, rows, key) ==
    RestrictValues(rows, LAMBDA r : GroupKey(schema, s, r) = key)

(* ExecuteGroupedAggregateSelect, with the groups by their keys.           *)
ExecuteGrouped(schema, s, items, rows) ==
    LET keys == {GroupKey(schema, s, rows[i]) : i \in DOMAIN rows}
        group(k) == RowsOfGroup(schema, s, rows, k)
        answer == [k \in keys |-> RowOfGroup(schema, items, group(k))]
    IN  Answer(UNION {Range(k) \cup Range(answer[k])
                        \cup Range(CellsOf(schema, OrderExpressions(s),
                                           FirstOf(group(k)))) : k \in keys},
               answer)

(* ExecuteSelect on the rows the cursor returns: WHERE is applied in the   *)
(* loop over them.                                                         *)
ExecuteOn(schema, s, rows) ==
    LET items == ExpandItems(schema, s.items)
        passed == RestrictValues(rows, LAMBDA r :
                    Range(CellsOf(schema, s.where, r)) \subseteq {Bool(TRUE)})
    IN  IF Thrown \in AllCells(schema, s.where, rows) THEN Failed
        ELSE IF s.group_by # <<>>
          THEN ExecuteGrouped(schema, s, items, passed)
        ELSE IF \E i \in DOMAIN items : IsAggregate(items[i])
          THEN ExecuteGlobal(schema, items, passed)
        ELSE ExecutePlain(schema, s, items, passed)

SelectFromTree(tree, s) ==
    LET plan == PlanOf(tree.schema, s)
        projection == Projection(tree.schema, s)
    IN  IF plan.failed THEN Failed
        ELSE IF plan.empty THEN ExecuteOn(tree.schema, s, <<>>)
        ELSE IF ~ValidProjection(tree.schema, projection) THEN Failed
        ELSE ExecuteOn(tree.schema, s, ReadTree(tree, plan, projection))

SelectFromMock(mock, s) ==
    LET plan == PlanOf(mock.schema, s)
    IN  IF plan.failed THEN Failed
        ELSE ExecuteOn(mock.schema, s,
                       IF plan.empty THEN <<>> ELSE ReadMock(mock, plan))

-----------------------------------------------------------------------------
(* The session.                                                            *)

Done == Outcome("ok", <<>>)
NoRequest == [kind |-> "none"]
NothingRun == [request |-> NoRequest, lsm |-> Done, mock |-> Done]
Returned(s, lsm, mock) == last' = [request |-> s, lsm |-> lsm, mock |-> mock]

(* map[key] = value                                                        *)
Put(map, key, value) ==
    [k \in DOMAIN map \cup {key} |-> IF k = key THEN value ELSE map[k]]

RowsOf(tree) == tree.mem \o tree.row \o tree.column

StmtInit ==
    /\ trees = [t \in {} |-> Done]
    /\ mocks = [t \in {} |-> Done]
    /\ last = NothingRun

(* Bind throws, for either engine.                                         *)
Reject(s) ==
    /\ last = NothingRun
    /\ ~BindsIn(trees, s) /\ ~BindsIn(mocks, s)
    /\ Returned(s, Rejected, Rejected)
    /\ UNCHANGED <<trees, mocks>>

(* ExecuteCreateTable: create_table throws for a name in use.              *)
CreateTable(s) ==
    /\ last = NothingRun
    /\ s.kind = "CREATE" /\ BindsIn(trees, s)
    /\ LET used == s.table \in DOMAIN trees
           outcome == IF used THEN Failed ELSE Done
       IN  /\ Returned(s, outcome, outcome)
           /\ IF used THEN UNCHANGED <<trees, mocks>>
              ELSE /\ trees' = Put(trees, s.table,
                         [schema |-> s.columns, mem |-> <<>>, row |-> <<>>,
                          column |-> <<>>])
                   /\ mocks' = Put(mocks, s.table,
                         [schema |-> s.columns, data |-> [k \in {} |-> <<>>]])

(* ExecuteInsert: the tree keeps every row of a key, the map the last one. *)
Insert(s) ==
    /\ last = NothingRun
    /\ s.kind = "INSERT" /\ BindsIn(trees, s)
    /\ Len(RowsOf(trees[s.table])) < MaxRows
    /\ LET row == RowOf(trees[s.table].schema, s)
       IN  /\ trees' = [trees EXCEPT ![s.table].mem = Append(@, row)]
           /\ mocks' = [mocks EXCEPT ![s.table].data = Put(@, KeyOf(row), row)]
    /\ Returned(s, Done, Done)

Select(s) ==
    /\ last = NothingRun
    /\ s.kind = "SELECT" /\ BindsIn(trees, s)
    /\ Returned(s, SelectFromTree(trees[s.table], s),
                   SelectFromMock(mocks[s.table], s))
    /\ UNCHANGED <<trees, mocks>>

(* The caller has taken the result; the next statement can come.           *)
TakeResult ==
    /\ last # NothingRun
    /\ last' = NothingRun
    /\ UNCHANGED <<trees, mocks>>

(* In the tree, rows move from memory to row blocks to column blocks.      *)
Flush(t) ==
    /\ trees[t].mem # <<>>
    /\ trees' = [trees EXCEPT ![t].row = trees[t].mem \o @, ![t].mem = <<>>]
    /\ last = NothingRun
    /\ UNCHANGED <<mocks, last>>

Compact(t) ==
    /\ trees[t].row # <<>>
    /\ trees' = [trees EXCEPT ![t].column = trees[t].row \o @, ![t].row = <<>>]
    /\ last = NothingRun
    /\ UNCHANGED <<mocks, last>>

StmtNext ==
    \/ \E s \in Requests :
         Reject(s) \/ CreateTable(s) \/ Insert(s) \/ Select(s)
    \/ TakeResult
    \/ \E t \in DOMAIN trees : Flush(t) \/ Compact(t)

StmtSpec == StmtInit /\ [][StmtNext]_stmtVars

-----------------------------------------------------------------------------
(* The invariant: both engines have the same tables, with the same rows but*)
(* for those of a key that the map has overwritten.                        *)

SelectRan == last.request.kind = "SELECT" /\ last.lsm.kind # "rejected"

IsCell(type, cell) ==
    \/ cell = Null
    \/ LET n == ValueOf(cell).value
       IN  /\ cell = Cell(type, n) /\ n \in Int
           /\ type = "INT64" => n \in IntMin .. IntMax

RowFits(schema, row) ==
    /\ row = [i \in DOMAIN schema |-> row[i]]
    /\ \A i \in DOMAIN schema :
         IsCell(schema[i].type, row[i]) /\ (row[i] = Null => schema[i].nullable)

RowsFit(schema, rows) ==
    IsSequence(rows) /\ \A row \in Range(rows) : RowFits(schema, row)

IsTree(tree) ==
    /\ tree = [schema |-> tree.schema, mem |-> tree.mem, row |-> tree.row,
               column |-> tree.column]
    /\ AreColumns(tree.schema) /\ BuildsSchema(tree.schema)
    /\ RowsFit(tree.schema, tree.mem)
    /\ RowsFit(tree.schema, tree.row)
    /\ RowsFit(tree.schema, tree.column)

IsMockOf(tree, mock) ==
    LET stored == Range(RowsOf(tree))
    IN  /\ mock = [schema |-> tree.schema,
                   data |-> [k \in DOMAIN mock.data |-> mock.data[k]]]
        /\ DOMAIN mock.data = {KeyOf(row) : row \in stored}
        /\ \A k \in DOMAIN mock.data :
             mock.data[k] \in stored /\ KeyOf(mock.data[k]) = k

LastHolds ==
    LET s == last.request
    IN  /\ last = [request |-> s, lsm |-> last.lsm, mock |-> last.mock]
        /\ SelectRan =>
             /\ s \in Requests /\ BindsIn(trees, s)
             /\ last.lsm = SelectFromTree(trees[s.table], s)
             /\ last.mock = SelectFromMock(mocks[s.table], s)

TablesHold ==
    /\ trees = [t \in DOMAIN trees |-> trees[t]]
    /\ mocks = [t \in DOMAIN trees |-> mocks[t]]
    /\ \A t \in DOMAIN trees : IsTree(trees[t]) /\ IsMockOf(trees[t], mocks[t])

StmtInv == TablesHold /\ LastHolds

-----------------------------------------------------------------------------
(* Properties.                                                             *)

(* Of the two engines, what must be the same: whether a statement is       *)
(* accepted and runs, and the rows as a bag.                               *)
CountIn(rows, row) == Cardinality({i \in DOMAIN rows : rows[i] = row})
SameOutcome(a, b) ==
    /\ a.kind = b.kind
    /\ \A row \in Range(a.rows) \cup Range(b.rows) :
         CountIn(a.rows, row) = CountIn(b.rows, row)

KeyRepeated(t) ==
    \E i, j \in DOMAIN RowsOf(trees[t]) :
      i # j /\ KeyOf(RowsOf(trees[t])[i]) = KeyOf(RowsOf(trees[t])[j])

(* Operands have the types of their operators, NULL being of every type.   *)
WellTyped(schema, e) ==
    \A x \in Parts[e] :
      LET types == {TypeOf(schema, o) : o \in Operands(x)} \ {"NULL"}
      IN  /\ x.kind \in {"AND", "OR", "NOT"} => types \subseteq {"BOOL"}
          /\ x.kind \in Comparisons =>
               \A a, b \in types : a = b \/ {a, b} = {"INT64", "DOUBLE"}

AllWellTyped(schema, s) ==
    \A e \in ExpressionsOf(schema, s) : WellTyped(schema, e)

(* ORDER BY of a group is evaluated on its first row only, which need not  *)
(* be the same row in both engines.                                        *)
FirstRowDecides(schema, s) ==
    /\ s.group_by # <<>>
    /\ \E e \in Range(OrderExpressions(s)) \ Range(s.group_by) :
         ~WellTyped(schema, e)

(* The engine the executor's tests use stands for the one that is shipped: *)
(* a SELECT returns the same rows from both, whether they lie in memory,   *)
(* in row blocks or in column blocks, although only one of them projects   *)
(* columns.  So the projection leaves out no column that WHERE, GROUP BY,  *)
(* ORDER BY or an aggregate needs.  Excepted are a table with a key        *)
(* inserted twice, which only the mock overwrites, the lookup of the       *)
(* largest key, which the mock never finds, and groups whose first row     *)
(* decides whether ORDER BY throws.                                        *)
EnginesAgree ==
    SelectRan =>
      LET t == last.request.table
      IN  \/ KeyRepeated(t)
          \/ PlanOf(trees[t].schema, last.request).point = {IntMax}
          \/ FirstRowDecides(trees[t].schema, last.request)
          \/ SameOutcome(last.lsm, last.mock)

(* A conjunct that compares the key with something else than an INT64.     *)
KeyAgainstOther(schema, s) ==
    \E c \in Range(PlanConjuncts(schema, s)) :
      /\ c.kind = "comparison" /\ c.column = "key"
      /\ c.literal.type \notin {"INT64", "NULL"}

(* A SELECT the binder accepts runs to its end, on any rows, wherever they *)
(* are stored, if its expressions are well typed: no aggregate meets a     *)
(* value of another type, and no column is used that is not loaded.        *)
(* Excepted are conjuncts that compare the key with a DOUBLE (or a STRING, *)
(* which is not well typed): std::get throws for their literal.            *)
WellTypedSelectRuns ==
    SelectRan =>
      LET s == last.request
          schema == trees[s.table].schema
      IN  AllWellTyped(schema, s) /\ ~KeyAgainstOther(schema, s)
            => last.lsm.kind = "ok"

(* docs/query_language.md offers comparisons of columns with literals, and *)
(* CompareResultValues compares INT64 with DOUBLE: so the same without the *)
(* exception.                                                              *)
ComparisonsRun ==
    SelectRan =>
      LET schema == trees[last.request.table].schema
      IN  AllWellTyped(schema, last.request) => last.lsm.kind = "ok"

(* In a grouped SELECT that the binder accepts, an item that is no         *)
(* aggregate has one value in all rows of a group; so the answer does not  *)
(* depend on which of them the cursor returns first.                       *)
GroupedItemsConstant ==
    SelectRan /\ last.lsm.kind = "ok" /\ last.request.group_by # <<>> =>
      LET s == last.request
          schema == trees[s.table].schema
          rows == RowsOf(trees[s.table])
          items == ExpandItems(schema, s.items)
      IN  \A i, j \in DOMAIN rows :
            GroupKey(schema, s, rows[i]) = GroupKey(schema, s, rows[j]) =>
              \A k \in DOMAIN items :
                IsAggregate(items[k])
                  \/ Evaluate(schema, rows[i])[items[k]]
                       = Evaluate(schema, rows[j])[items[k]]

(* What a row of an INSERT must be: the named columns have their literals, *)
(* whatever the order of the names, the others are NULL.                   *)
RowSays(schema, s, row) ==
    \A i \in DOMAIN schema :
      IF \E p \in DOMAIN s.columns : s.columns[p] = schema[i].name
      THEN \E p \in DOMAIN s.columns :
             s.columns[p] = schema[i].name /\ row[i] = LiteralCell(s.values[p])
      ELSE row[i] = Null

Fits(column, cell) ==
    IF cell = Null THEN column.nullable ELSE ValueOf(cell).type = column.type

(* An INSERT that runs is of a row with a key that the schema allows, and  *)
(* both engines find it.                                                   *)
InsertsItsRow ==
    LET s == last'.request
        schema == trees[s.table].schema
        row == Last(trees'[s.table].mem)
    IN  /\ Len(s.columns) = Len(s.values)
        /\ RowSays(schema, s, row)
        /\ \A i \in DOMAIN schema : Fits(schema[i], row[i])
        /\ row[1] # Null
        /\ mocks'[s.table].data[KeyOf(row)] = row

SameRows(rows, others) ==
    SameOutcome(Outcome("ok", rows), Outcome("ok", others))

(* An INSERT adds exactly the row it describes, to its table only, and     *)
(* only a row the schema allows, with a key; or it is refused and changes  *)
(* nothing.  No other statement changes a row, and no row is lost on its   *)
(* way to the disk.                                                        *)
InsertStores ==
    [][LET s == last'.request
           inserts == s.kind = "INSERT" /\ last'.lsm.kind = "ok"
       IN  /\ inserts => InsertsItsRow
           /\ \A t \in DOMAIN trees :
                IF inserts /\ t = s.table
                THEN SameRows(Append(RowsOf(trees[t]), Last(trees'[t].mem)),
                              RowsOf(trees'[t]))
                ELSE SameRows(RowsOf(trees[t]), RowsOf(trees'[t]))
      ]_stmtVars
=============================================================================
