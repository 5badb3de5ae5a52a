----------------------------- MODULE SelectPlan ----------------------------
(***************************************************************************)
(* How the executor turns a WHERE clause into a read of the storage: the   *)
(* evaluation of conditions, the key range or point lookup, and the filter *)
(* that skips blocks by the minimum and maximum of their columns.          *)
(*                                                                         *)
(* A row is [id, key, val]: the INT64 key, one nullable numeric column,    *)
(* and id for the rest.  A NULL is the empty set, any other value a set of *)
(* one number; a truth value is a set of at most one Boolean.  A WHERE     *)
(* clause is the sequence of its conjuncts.  A comparison has a column on  *)
(* one side and a literal [type, value] on the other; the other conjuncts, *)
(* which only the evaluation looks into, are NOT, OR and IS [NOT] NULL.    *)
(***************************************************************************)
EXTENDS Integers, Sequences, FiniteSets, FiniteSetsExt

CONSTANTS
    IntMax,       \* the largest INT64
    ExactBelow    \* below it a double holds every integer (2^53)

ASSUME PlanAssumption == IntMax \in Nat /\ ExactBelow \in Nat

Row ==
    {r \in [id : Nat, key : -IntMax - 1 .. IntMax, val : SUBSET Int] :
       r.val = {} \/ \E n \in r.val : r.val = {n}}

ColumnValue(row, column) == IF column = "key" THEN {row.key} ELSE row.val
ColumnType(column, val_type) == IF column = "key" THEN "INT64" ELSE val_type

(* A comparison as the binder leaves it.                                   *)
IsComparison(c) ==
    /\ c.column \in {"key", "val"}
    /\ c.op \in {"=", "!=", "<", "<=", ">", ">="}
    /\ c.literal.value \subseteq Int
    /\ c.column_on_left \in BOOLEAN

-----------------------------------------------------------------------------
(* Evaluation.                                                             *)

(* static_cast<double>(int64_t): to nearest, ties to even.                 *)
ToDouble(n) ==
    IF -ExactBelow <= n /\ n <= ExactBelow THEN n
    ELSE CASE n % 4 = 1 -> n - 1 [] n % 4 = 3 -> n + 1 [] OTHER -> n

(* CompareResultValues: two INT64 exactly, anything else as doubles.       *)
Compare(ltype, l, rtype, r) ==
    LET exact == ltype = "INT64" /\ rtype = "INT64"
        a == IF ~exact /\ ltype = "INT64" THEN ToDouble(l) ELSE l
        b == IF ~exact /\ rtype = "INT64" THEN ToDouble(r) ELSE r
    IN  IF a < b THEN -1 ELSE IF a > b THEN 1 ELSE 0

Holds(op, comparison) ==
    CASE op = "=" -> comparison = 0
      [] op = "!=" -> comparison # 0
      [] op = "<" -> comparison < 0
      [] op = "<=" -> comparison <= 0
      [] op = ">" -> comparison > 0
      [] op = ">=" -> comparison >= 0

(* EvaluateExpression of a comparison: NULL on either side gives NULL.     *)
EvaluateComparison(c, row, val_type) ==
    LET type == ColumnType(c.column, val_type)
    IN  {IF c.column_on_left
           THEN Holds(c.op, Compare(type, p[1], c.literal.type, p[2]))
           ELSE Holds(c.op, Compare(c.literal.type, p[2], type, p[1])) :
         p \in ColumnValue(row, c.column) \X c.literal.value}

(* EvaluateExpression, in three-valued logic.                              *)
Evaluate(c, row, val_type) ==
    CASE c.kind = "comparison" -> EvaluateComparison(c, row, val_type)
      [] c.kind = "not" ->
           {~b : b \in EvaluateComparison(c.of, row, val_type)}
      [] c.kind = "or" ->
           LET left == EvaluateComparison(c.left, row, val_type)
               right == EvaluateComparison(c.right, row, val_type)
           IN  IF TRUE \in left \cup right THEN {TRUE}
               ELSE IF left = {} \/ right = {} THEN {} ELSE {FALSE}
      [] c.kind = "is_null" ->
           {(ColumnValue(row, c.column) = {}) # c.is_not}

(* EvaluatePredicate of the conjunction: NULL is not true.                 *)
EvaluatePredicate(where, row, val_type) ==
    \A i \in DOMAIN where : Evaluate(where[i], row, val_type) = {TRUE}

-----------------------------------------------------------------------------
(* BuildCursorForSelect.                                                   *)

(* point, from and to are optional keys; failed: std::get has thrown.      *)
NoBounds == [point |-> {}, from |-> {}, to |-> {}, empty |-> FALSE,
             failed |-> FALSE]

ReverseOperation(op) ==
    CASE op = "<" -> ">" [] op = "<=" -> ">=" [] op = ">" -> "<"
      [] op = ">=" -> "<=" [] OTHER -> op

AtLeast(plan, k) == [plan EXCEPT !.from = {Max(@ \cup {k})}]
Below(plan, k) == [plan EXCEPT !.to = {Min(@ \cup {k})}]

(* The last key of a range left out.                                       *)
NarrowShort(plan, op, k) ==
    CASE op = "=" -> IF plan.point \subseteq {k}
                       THEN [plan EXCEPT !.point = {k}]
                       ELSE [plan EXCEPT !.empty = TRUE]
      [] op = ">" -> IF k = IntMax THEN [plan EXCEPT !.empty = TRUE]
                     ELSE AtLeast(plan, k + 1)
      [] op = ">=" -> AtLeast(plan, k)
      [] op \in {"<", "<="} -> Below(plan, k)
      [] OTHER -> plan

(* The switch over the operation, for a comparison `key op k'.  There is   *)
(* no key above IntMax.                                                    *)
Narrow(plan, op, k) ==
    CASE op = "=" -> IF plan.point \subseteq {k}
                       THEN [plan EXCEPT !.point = {k}]
                       ELSE [plan EXCEPT !.empty = TRUE]
      [] op = ">" -> IF k = IntMax THEN [plan EXCEPT !.empty = TRUE]
                     ELSE AtLeast(plan, k + 1)
      [] op = ">=" -> AtLeast(plan, k)
      [] op = "<" -> Below(plan, k)
      [] op = "<=" -> IF k = IntMax THEN plan ELSE Below(plan, k + 1)
      [] OTHER -> plan

(* One turn of the loop over the conjuncts, which an empty result ends.    *)
UseConjunct(plan, c) ==
    IF plan.empty \/ plan.failed \/ c.kind # "comparison" THEN plan
    ELSE IF c.column # "key" THEN plan
    ELSE IF c.literal.value = {} THEN [plan EXCEPT !.empty = TRUE]
    ELSE IF c.literal.type # "INT64" THEN [plan EXCEPT !.failed = TRUE]
    ELSE Narrow(plan, IF c.column_on_left THEN c.op ELSE ReverseOperation(c.op),
                CHOOSE k \in c.literal.value : TRUE)

(* The bounds after every turn of the loop.                                *)
Plans(where) ==
    LET plan[i \in 0 .. Len(where)] ==
          IF i = 0 THEN NoBounds ELSE UseConjunct(plan[i - 1], where[i])
    IN  plan

(* The loop and the test of the bounds after it.                           *)
BuildPlan(where) ==
    LET plan == Plans(where)[Len(where)]
        crossed == \E f \in plan.from, t \in plan.to : f >= t
    IN  IF ~plan.failed /\ plan.point = {} /\ crossed
          THEN [plan EXCEPT !.empty = TRUE] ELSE plan

(* The range read: get(key) is the scan of [key, key + 1), without an end  *)
(* for the largest key.                                                    *)
PlanRange(plan) ==
    IF plan.point = {} THEN [from |-> plan.from, to |-> plan.to]
    ELSE [from |-> plan.point,
          to |-> {k + 1 : k \in plan.point \ {IntMax}}]

-----------------------------------------------------------------------------
(* Data skipping.                                                          *)

(* BuildDataSkippingFilter: the comparisons of the column with a number.   *)
(* A point lookup passes no filter.                                        *)
Predicates(where) ==
    {[op |-> IF c.column_on_left THEN c.op ELSE ReverseOperation(c.op),
      literal |-> c.literal] :
       c \in {d \in {where[i] : i \in DOMAIN where} :
                /\ d.kind = "comparison"
                /\ d.column = "val"
                /\ d.op # "!="
                /\ d.literal.value # {}}}

(* update_numeric_stats: the extremes of the values that are not NULL.     *)
Stats(block) ==
    LET values == UNION {block[i].val : i \in DOMAIN block}
    IN  IF values = {} THEN [has_value |-> FALSE, min |-> 0, max |-> 0]
        ELSE [has_value |-> TRUE, min |-> Min(values), max |-> Max(values)]

(* The strict comparisons with the wrong end of the block.                 *)
MaySatisfyWrongEnd(stats, val_type, p) ==
    /\ stats.has_value
    /\ \A v \in p.literal.value :
         Holds(p.op, Compare(val_type,
                             IF p.op \in {"<", "<="} THEN stats.max
                             ELSE stats.min, p.literal.type, v))

(* block_may_satisfy_predicate                                             *)
MaySatisfy(stats, val_type, p) ==
    /\ stats.has_value
    /\ \A v \in p.literal.value :
         LET least == Compare(val_type, stats.min, p.literal.type, v)
             most == Compare(val_type, stats.max, p.literal.type, v)
         IN  CASE p.op = "=" -> least <= 0 /\ most >= 0
               [] p.op \in {"<", "<="} -> Holds(p.op, least)
               [] p.op \in {">", ">="} -> Holds(p.op, most)

(* DataSkippingBlockPruner::may_satisfy, for every predicate.              *)
KeepBlock(block, val_type, predicates) ==
    \A p \in predicates : MaySatisfy(Stats(block), val_type, p)
=============================================================================
