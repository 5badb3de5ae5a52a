-------------------------- MODULE SelectExecution --------------------------
(***************************************************************************)
(* Executor::ExecuteSelect: a plain SELECT, a SELECT of aggregates, or one *)
(* with GROUP BY, over one table.                                          *)
(*                                                                         *)
(* A table is its memtable (a sequence of rows), the blocks of one         *)
(* SSTable, and the type of the column val.  A query is [kind, where,      *)
(* order, limit]; limit is a set of at most one number.  A grouped query   *)
(* groups by val and aggregates the key, a global one aggregates val.  The *)
(* aggregates are COUNT, SUM, MIN and MAX of an INT64 column, kept         *)
(* together as one state; AVG is a SUM in doubles over COUNT.              *)
(***************************************************************************)
EXTENDS SelectPlan, Sums

CONSTANTS
    Tables,     \* the tables to query
    Queries     \* the queries to execute

RowsOf(t) ==
    {t.mem[i] : i \in 1 .. Len(t.mem)}
      \cup UNION {{t.blocks[b][i] : i \in 1 .. Len(t.blocks[b])} :
                    b \in 1 .. Len(t.blocks)}

ASSUME TablesAssumption ==
    \A t \in Tables :
      /\ t.mem \in Seq(Row) /\ t.blocks \in Seq(Seq(Row))
      /\ t.val_type \in {"INT64", "DOUBLE"}
      /\ t.val_type = "INT64" =>
           \A r \in RowsOf(t) : r.val \subseteq -IntMax - 1 .. IntMax

IsSequence(s) == Len(s) \in Nat /\ DOMAIN s = 1 .. Len(s)

ASSUME QueriesAssumption ==
    \A q \in Queries :
      /\ q.kind \in {"plain", "global", "grouped"}
      /\ IsSequence(q.where)
      /\ \A i \in 1 .. Len(q.where) :
           q.where[i].kind = "comparison" => IsComparison(q.where[i])
      /\ IsSequence(q.order)
      /\ \A i \in 1 .. Len(q.order) :
           /\ q.order[i].column \in {"key", "val"}
           /\ q.order[i].direction \in {"Asc", "Desc"}
      /\ q.limit = {} \/ \E n \in q.limit : n \in Nat /\ q.limit = {n}

VARIABLES
    table,      \* the table
    query,      \* the bound statement
    phase,      \* "start", "scan", "finish", "done", "failed"
    cursor,     \* the rows the cursor has still to return
    pending,    \* sorted_rows before the sort: rows that passed WHERE
    groups,     \* the std::map of groups: group key -> aggregate state
    first,      \* per group its first row, which the ORDER BY values are of
    result      \* result.rows

vars == <<table, query, phase, cursor, pending, groups, first, result>>

-----------------------------------------------------------------------------
(* Aggregates.                                                             *)

(* int_sum overflows by two's complement, as the build's addition does.    *)
Wrap(n) == ((n + IntMax + 1) % (2 * IntMax + 2)) - IntMax - 1

NoAggregate == [count |-> 0, sum |-> 0, min |-> IntMax, max |-> -IntMax - 1]

(* An update that counts a NULL.                                           *)
UpdateCountsNull(state, value) ==
    IF value = {} THEN [state EXCEPT !.count = @ + 1]
    ELSE LET v == CHOOSE x \in value : TRUE
         IN  [count |-> state.count + 1, sum |-> Wrap(state.sum + v),
              min |-> Min({state.min, v}), max |-> Max({state.max, v})]

(* UpdateGlobalAggregateState: NULL is ignored.                            *)
UpdateAggregate(state, value) ==
    IF value = {} THEN state
    ELSE LET v == CHOOSE x \in value : TRUE
         IN  [count |-> state.count + 1, sum |-> Wrap(state.sum + v),
              min |-> Min({state.min, v}), max |-> Max({state.max, v})]

(* FinalizeAggregateState: without a value all but COUNT are NULL.         *)
Finalize(state) ==
    IF state.count = 0
      THEN [count |-> 0, sum |-> {}, min |-> {}, max |-> {}]
      ELSE [count |-> state.count, sum |-> {state.sum}, min |-> {state.min},
            max |-> {state.max}]

-----------------------------------------------------------------------------
(* Order.                                                                  *)

(* CompareNullableResultValues: NULL is the largest value.                 *)
CompareNullable(a, b) ==
    IF a = {} /\ b = {} THEN 0
    ELSE IF a = {} THEN 1
    ELSE IF b = {} THEN -1
    ELSE LET x == CHOOSE v \in a : TRUE
             y == CHOOSE v \in b : TRUE
         IN  IF x < y THEN -1 ELSE IF x > y THEN 1 ELSE 0

(* A comparator that takes every item as ASC.                              *)
LessIgnoringDirection(r, s) ==
    \E i \in DOMAIN query.order :
      /\ \A j \in 1 .. i - 1 :
           CompareNullable(ColumnValue(r, query.order[j].column),
                           ColumnValue(s, query.order[j].column)) = 0
      /\ CompareNullable(ColumnValue(r, query.order[i].column),
                         ColumnValue(s, query.order[i].column)) < 0

(* The comparator of std::sort: the first item that differs decides.       *)
Less(r, s) ==
    \E i \in DOMAIN query.order :
      LET order(j) == CompareNullable(ColumnValue(r, query.order[j].column),
                                      ColumnValue(s, query.order[j].column))
      IN  /\ \A j \in 1 .. i - 1 : order(j) = 0
          /\ IF query.order[i].direction = "Asc" THEN order(i) < 0
             ELSE order(i) > 0

(* std::sort leaves rows that compare equal in any order.                  *)
Sorted(rows, out) ==
    /\ Len(out) = Len(rows)
    /\ {out[i] : i \in DOMAIN out} = {rows[i] : i \in DOMAIN rows}
    /\ \A i, j \in DOMAIN out : i < j => ~Less(out[j], out[i])

Orders(rows) ==
    {out \in [DOMAIN rows -> {rows[i] : i \in DOMAIN rows}] : Sorted(rows, out)}

Limited(rows) ==
    IF query.limit = {} THEN rows
    ELSE SubSeq(rows, 1, Min(query.limit \cup {Len(rows)}))

(* IsRuquiredKeyAsc: the first item is the key, ascending.                 *)
RequiresKeyAsc ==
    query.order # <<>> /\ query.order[1] = [column |-> "key", direction |-> "Asc"]

-----------------------------------------------------------------------------
(* The read.                                                               *)

InPlanRange(range, row) ==
    /\ \A f \in range.from : row.key >= f
    /\ \A t \in range.to : row.key < t

(* The rows the storage returns for a plan: from the memtable all in range,*)
(* from the SSTable those of the blocks that meet the range and may hold a *)
(* match.                                                                  *)
MemRows == {table.mem[i] : i \in 1 .. Len(table.mem)}

TableRows(predicates) ==
    UNION {{table.blocks[b][i] : i \in 1 .. Len(table.blocks[b])} :
             b \in {a \in 1 .. Len(table.blocks) :
                      KeepBlock(table.blocks[a], table.val_type, predicates)}}

StoredRows(range, predicates) ==
    {r \in MemRows \cup TableRows(predicates) : InPlanRange(range, r)}

(* How a cursor can return them: ScanOrder::KeyAscending or Unordered.     *)
Listings(rows, by_key) ==
    {s \in [1 .. Cardinality(rows) -> rows] :
       /\ \A i, j \in 1 .. Cardinality(rows) : i # j => s[i] # s[j]
       /\ by_key => \A i, j \in 1 .. Cardinality(rows) :
                      i < j => s[i].key <= s[j].key}

Init ==
    /\ table \in Tables
    /\ query \in Queries
    /\ query.kind = "global" => table.val_type = "INT64"
    /\ phase = "start"
    /\ cursor = <<>> /\ pending = <<>> /\ result = <<>>
    /\ groups = [g \in {} |-> NoAggregate]
    /\ first = [g \in {} |-> NoAggregate]

(* BuildCursorForSelect.  Only a plain SELECT asks for the key order; a    *)
(* point lookup never does and passes no filter.                           *)
OpenCursor ==
    /\ phase = "start"
    /\ LET plan == BuildPlan(query.where)
           filter == IF plan.point = {} THEN Predicates(query.where) ELSE {}
           ordered == plan.point = {} /\ query.kind = "plain" /\ RequiresKeyAsc
       IN  IF plan.failed
             THEN phase' = "failed" /\ cursor' = <<>>
           ELSE IF plan.empty
             THEN /\ phase' = IF query.kind = "plain" THEN "done" ELSE "finish"
                  /\ cursor' = <<>>
           ELSE /\ phase' = "scan"
                /\ cursor' \in Listings(StoredRows(PlanRange(plan), filter), ordered)
    /\ UNCHANGED <<table, query, pending, groups, first, result>>

(* The row passes WHERE in a plain SELECT: it is returned, or kept for the *)
(* sort.                                                                   *)
TakePlain(row) ==
    IF query.order = <<>> \/ RequiresKeyAsc
      THEN /\ result' = Append(result, row)
           /\ phase' = IF query.limit # {} /\ Len(result') >= Max(query.limit)
                         THEN "done" ELSE "scan"
           /\ UNCHANGED <<pending, groups, first>>
      ELSE /\ pending' = Append(pending, row)
           /\ UNCHANGED <<phase, result, groups, first>>

(* ... in a SELECT of aggregates: one state for the whole table, or one    *)
(* per group, NULL being a group.                                          *)
GroupOf(row) == IF query.kind = "grouped" THEN row.val ELSE {}
Argument(row) == IF query.kind = "grouped" THEN {row.key} ELSE row.val

(* An assignment to the group in place of emplace.                         *)
TakeAggregateAnew(row) ==
    LET g == GroupOf(row)
    IN  /\ groups' = [h \in DOMAIN groups \cup {g} |->
                        IF h = g THEN UpdateAggregate(NoAggregate, Argument(row))
                        ELSE groups[h]]
        /\ first' = [h \in DOMAIN groups \cup {g} |->
                       IF h = g THEN row ELSE first[h]]
        /\ UNCHANGED <<phase, pending, result>>

(* emplace leaves a group that is there as it is.                          *)
TakeAggregate(row) ==
    LET g == GroupOf(row)
        known == g \in DOMAIN groups
        state == IF known THEN groups[g] ELSE NoAggregate
    IN  /\ groups' = [h \in DOMAIN groups \cup {g} |->
                        IF h = g THEN UpdateAggregate(state, Argument(row))
                        ELSE groups[h]]
        /\ first' = IF known THEN first
                    ELSE [h \in DOMAIN groups \cup {g} |->
                            IF h = g THEN row ELSE first[h]]
        /\ UNCHANGED <<phase, pending, result>>

(* One turn of the loop over the cursor.                                   *)
NextRow ==
    /\ phase = "scan"
    /\ cursor # <<>>
    /\ cursor' = Tail(cursor)
    /\ LET row == Head(cursor)
       IN  IF ~EvaluatePredicate(query.where, row, table.val_type)
             THEN UNCHANGED <<phase, pending, groups, first, result>>
           ELSE IF query.kind = "plain" THEN TakePlain(row)
           ELSE TakeAggregate(row)
    /\ UNCHANGED <<table, query>>

(* The cursor is not valid any more.                                       *)
EndScan ==
    /\ phase = "scan"
    /\ cursor = <<>>
    /\ phase' = "finish"
    /\ UNCHANGED <<table, query, cursor, pending, groups, first, result>>

(* The end of ExecutePlainSelect: sort, then cut off what is over LIMIT.   *)
FinishPlain ==
    /\ phase = "finish" /\ query.kind = "plain"
    /\ IF query.order = <<>> \/ RequiresKeyAsc THEN result' = result
       ELSE \E out \in Orders(pending) : result' = Limited(out)
    /\ phase' = "done"
    /\ UNCHANGED <<table, query, cursor, pending, groups, first>>

(* The end of ExecuteGlobalAggregateSelect: one row, even of no rows.      *)
FinishGlobal ==
    /\ phase = "finish" /\ query.kind = "global"
    /\ LET state == IF {} \in DOMAIN groups THEN groups[{}] ELSE NoAggregate
       IN  result' = IF 0 \in query.limit THEN <<>> ELSE <<Finalize(state)>>
    /\ phase' = "done"
    /\ UNCHANGED <<table, query, cursor, pending, groups, first>>

(* The one way to list the groups in the order of the map, NULL last.      *)
GroupListings ==
    LET count == Cardinality(DOMAIN groups)
    IN  {s \in [1 .. count -> DOMAIN groups] :
           \A i, j \in 1 .. count : i < j => CompareNullable(s[i], s[j]) < 0}

(* The end of ExecuteGroupedAggregateSelect.                               *)
FinishGrouped ==
    /\ phase = "finish" /\ query.kind = "grouped"
    /\ \E in_order \in GroupListings :
         LET firsts == [i \in DOMAIN in_order |-> first[in_order[i]]]
         IN  \E order \in IF query.order = <<>> THEN {firsts} ELSE Orders(firsts) :
               result' = Limited([i \in DOMAIN order |->
                                    [group |-> order[i].val,
                                     row |-> Finalize(groups[order[i].val])]])
    /\ phase' = "done"
    /\ UNCHANGED <<table, query, cursor, pending, groups, first>>

Next ==
    \/ OpenCursor \/ NextRow \/ EndScan
    \/ FinishPlain \/ FinishGlobal \/ FinishGrouped

Spec == Init /\ [][Next]_vars

-----------------------------------------------------------------------------
(* Properties.                                                             *)

AllRows == RowsOf(table)

(* The answer without any plan: WHERE on every row of the table.           *)
Matches ==
    {r \in AllRows : EvaluatePredicate(query.where, r, table.val_type)}

ResultRows == {result[i] : i \in DOMAIN result}

Finished(kind) == phase = "done" /\ query.kind = kind

LimitOf(n) == Min(query.limit \cup {n})

(* Point lookups, key ranges and skipped blocks change no answer: a plain  *)
(* SELECT returns rows that satisfy WHERE, each once, all of them or as    *)
(* many as LIMIT allows.                                                   *)
PlainExact ==
    Finished("plain") =>
      /\ ResultRows \subseteq Matches
      /\ Cardinality(ResultRows) = Len(result)
      /\ Len(result) = LimitOf(Cardinality(Matches))

(* "LIMIT int_literal" (docs/query_language.md): at most that many rows    *)
(* (grouped_aggregate_select_tests.cpp, LimitZeroReturnsNoRows).           *)
LimitRespected ==
    phase = "done" => \A n \in query.limit : Len(result) <= n

Key(r, i) == ColumnValue(r, query.order[i].column)

(* r must come before s: by the first item in which they differ, NULL      *)
(* after every value in ASC and before in DESC.                            *)
MustPrecede(r, s) ==
    \E i \in DOMAIN query.order :
      /\ \A j \in 1 .. i - 1 : Key(r, j) = Key(s, j)
      /\ Key(r, i) # Key(s, i)
      /\ LET up == \/ Key(s, i) = {}
                   \/ \E a \in Key(r, i), b \in Key(s, i) : a < b
         IN  up <=> query.order[i].direction = "Asc"

(* "ORDER BY expression [ASC | DESC], ..." (docs/query_language.md): the   *)
(* rows come in the order of all items, and LIMIT keeps the first of them, *)
(* although an ORDER BY of the key is left to the storage and the loop     *)
(* stops early.                                                            *)
PlainOrdered ==
    Finished("plain") =>
      /\ \A i, j \in DOMAIN result : i < j => ~MustPrecede(result[j], result[i])
      /\ \A r \in ResultRows, s \in Matches \ ResultRows : ~MustPrecede(s, r)

Fits(n) == -IntMax - 1 <= n /\ n <= IntMax

(* What the aggregates of the values `of' some rows must be.  SUM is exact *)
(* when it fits, whatever the partial sums.                                *)
AggregatesOf(rows, of, state) ==
    LET values == UNION {of[r] : r \in rows}
        sum == Sums(of)[rows]
    IN  /\ state.count = Cardinality({r \in rows : of[r] # {}})
        /\ state.min = {v \in values : \A w \in values : v <= w}
        /\ state.max = {v \in values : \A w \in values : v >= w}
        /\ state.sum = {} <=> values = {}
        /\ Fits(sum) => \A s \in state.sum : s = sum

(* A SELECT of aggregates returns one row, also of an empty table or an    *)
(* empty key range, with the aggregates of exactly the rows that satisfy   *)
(* WHERE; NULLs are left out, and an aggregate of no value is NULL.        *)
GlobalExact ==
    Finished("global") =>
      /\ Len(result) = LimitOf(1)
      /\ \A i \in DOMAIN result :
           AggregatesOf(Matches, [r \in AllRows |-> r.val], result[i])

(* GROUP BY returns every group once, NULL being a group of its own, with  *)
(* the aggregates of its rows; the groups come in the order of the map or  *)
(* that of ORDER BY, and LIMIT keeps the first of them.                    *)
GroupedExact ==
    LET group_of == {[val |-> r.val] : r \in Matches}
        shown == {[val |-> g.group] : g \in ResultRows}
        before(g, h) == IF query.order = <<>>
                          THEN CompareNullable(g.val, h.val) < 0
                          ELSE MustPrecede(g, h)
    IN  Finished("grouped") =>
          /\ Len(result) = LimitOf(Cardinality(group_of))
          /\ Cardinality(shown) = Len(result)
          /\ \A g \in ResultRows :
               LET rows == {r \in Matches : r.val = g.group}
               IN  /\ rows # {}
                   /\ AggregatesOf(rows, [r \in AllRows |-> {r.key}], g.row)
          /\ \A i, j \in DOMAIN result :
               i < j => ~before([val |-> result[j].group], [val |-> result[i].group])
          /\ \A g \in shown, h \in group_of \ shown : ~before(h, g)
=============================================================================
