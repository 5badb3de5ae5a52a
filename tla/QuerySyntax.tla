---------------------------- MODULE QuerySyntax ----------------------------
(***************************************************************************)
(* The syntax trees that the parser hands to the binder.                   *)
(***************************************************************************)
EXTENDS Integers, Sequences

CONSTANT IntMax     \* the largest int64_t

ASSUME IntAssumption == IntMax \in Nat

IntMin == -IntMax - 1

Literals == {"string", "int", "double", "NULL"}
Comparisons == {"=", "!=", "<", "<=", ">", ">="}
Aggregates == {"COUNT", "SUM", "AVG", "MIN", "MAX"}

Column(name) == [kind |-> "column", name |-> name]
Literal(type, value) == [kind |-> type, value |-> value]
NullLiteral == [kind |-> "NULL"]
Not(e) == [kind |-> "NOT", arg |-> e]
Binary(op, l, r) == [kind |-> op, left |-> l, right |-> r]
IsNull(e, is_not) == [kind |-> "IS NULL", arg |-> e, is_not |-> is_not]

Star == [kind |-> "*"]
Aggregate(kind, e) == [kind |-> kind, arg |-> e]

OrderBy(e, desc) == [expression |-> e, desc |-> desc]

ColumnDefinition(name, type, nullable, is_key) ==
    [name |-> name, type |-> type, nullable |-> nullable, is_key |-> is_key]

CreateStatement(table, columns) ==
    [kind |-> "CREATE", table |-> table, columns |-> columns]

InsertStatement(table, columns, values) ==
    [kind |-> "INSERT", table |-> table, columns |-> columns, values |-> values]

(* where and limit are lists of at most one element.                       *)
SelectStatement(items, table, where, group_by, order_by, limit) ==
    [kind |-> "SELECT", items |-> items, table |-> table, where |-> where,
     group_by |-> group_by, order_by |-> order_by, limit |-> limit]
=============================================================================
