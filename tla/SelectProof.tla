---------------------------- MODULE SelectProof ----------------------------
(***************************************************************************)
(* Proofs about SelectPlan and SelectExecution: the key range, the point   *)
(* lookup and the blocks that data skipping leaves out lose no row that    *)
(* satisfies WHERE; a plain SELECT returns exactly those rows, a SELECT of *)
(* aggregates the aggregates of exactly those rows.  For every table and   *)
(* WHERE clause, and every IntMax and ExactBelow.                          *)
(***************************************************************************)
EXTENDS SelectExecution, LeastElement, SequenceTheorems

LEMMA RowTypes ==
    ASSUME NEW r \in Row
    PROVE  /\ r.key \in Int /\ -IntMax - 1 <= r.key /\ r.key <= IntMax
           /\ r.val \subseteq Int
           /\ r.val = {} \/ \E n \in r.val : r.val = {n}
  <1>1. /\ r \in [id : Nat, key : -IntMax - 1 .. IntMax, val : SUBSET Int]
        /\ r.val = {} \/ \E n \in r.val : r.val = {n}
    BY DEF Row
  <1>2. r.key \in -IntMax - 1 .. IntMax /\ r.val \subseteq Int
    BY <1>1
  <1>3. QED BY <1>1, <1>2, PlanAssumption

-----------------------------------------------------------------------------
(* Comparisons.                                                            *)

(* The conversion to double rounds, but keeps the order.                   *)
LEMMA ToDoubleMonotone ==
    ASSUME NEW m \in Int, NEW n \in Int, m <= n
    PROVE  ToDouble(m) \in Int /\ ToDouble(n) \in Int /\ ToDouble(m) <= ToDouble(n)
  <1>1. ExactBelow \in Nat
    BY PlanAssumption
  <1>2. ASSUME NEW k \in Int
        PROVE  /\ ToDouble(k) \in Int
               /\ k - 1 <= ToDouble(k) /\ ToDouble(k) <= k + 1
               /\ ToDouble(k) = k - 1 => k % 4 = 1
               /\ ToDouble(k) = k + 1 => k % 4 = 3
    BY <1>1 DEF ToDouble
  <1>3. CASE m + 1 >= n
    <2>1. m = n \/ n = m + 1
      BY <1>3
    <2>2. CASE n = m + 1
      <3>1. m % 4 = 3 => n % 4 = 0
        BY <2>2
      <3>2. n % 4 = 1 => m % 4 = 0
        BY <2>2
      <3>3. PICK x, y : x = ToDouble(m) /\ y = ToDouble(n)
        OBVIOUS
      <3>4. /\ x \in Int /\ m - 1 <= x /\ x <= m + 1
            /\ x = m + 1 => m % 4 = 3
        BY <1>2, <3>3
      <3>5. /\ y \in Int /\ n - 1 <= y /\ y <= n + 1
            /\ y = n - 1 => n % 4 = 1
        BY <1>2, <3>3
      <3>6. ~(x = m + 1 /\ y = n - 1)
        BY <3>1, <3>4, <3>5
      <3>7. x <= y
        <4>1. CASE x # m + 1
          BY <2>2, <3>4, <3>5, <4>1
        <4>2. CASE y # n - 1
          BY <2>2, <3>4, <3>5, <4>2
        <4>3. QED BY <3>6, <4>1, <4>2
      <3>8. QED BY <3>3, <3>4, <3>5, <3>7
    <2>3. QED BY <1>2, <2>1, <2>2
  <1>4. CASE n >= m + 2
    BY <1>2, <1>4
  <1>5. QED BY <1>3, <1>4

LEMMA CompareMonotone ==
    ASSUME NEW ltype, NEW rtype, NEW l \in Int, NEW m \in Int, l <= m, NEW r \in Int
    PROVE  /\ Compare(ltype, l, rtype, r) \in {-1, 0, 1}
           /\ Compare(ltype, m, rtype, r) \in {-1, 0, 1}
           /\ Compare(ltype, l, rtype, r) <= Compare(ltype, m, rtype, r)
  <1>1. /\ ToDouble(l) \in Int /\ ToDouble(m) \in Int /\ ToDouble(r) \in Int
        /\ ToDouble(l) <= ToDouble(m)
    BY ToDoubleMonotone
  <1>2. QED BY <1>1 DEF Compare

LEMMA CompareSwapped ==
    ASSUME NEW ltype, NEW rtype, NEW l \in Int, NEW r \in Int
    PROVE  Compare(rtype, r, ltype, l) = -Compare(ltype, l, rtype, r)
  <1>1. ToDouble(l) \in Int /\ ToDouble(r) \in Int
    BY ToDoubleMonotone
  <1>2. QED BY <1>1 DEF Compare

LEMMA CompareExactly ==
    ASSUME NEW l \in Int, NEW r \in Int
    PROVE  Compare("INT64", l, "INT64", r) =
             IF l < r THEN -1 ELSE IF l > r THEN 1 ELSE 0
  BY DEF Compare

(* The operation as it is with the column on the left.                     *)
Operation(c) == IF c.column_on_left THEN c.op ELSE ReverseOperation(c.op)

LEMMA HoldsReversed ==
    ASSUME NEW op \in {"=", "!=", "<", "<=", ">", ">="}, NEW n \in {-1, 0, 1},
           Holds(op, -n)
    PROVE  Holds(ReverseOperation(op), n)
  <1> USE DEF Holds, ReverseOperation
  <1>1. CASE op = "="
    BY <1>1
  <1>2. CASE op = "!="
    BY <1>2
  <1>3. CASE op = "<"
    BY <1>3
  <1>4. CASE op = "<="
    BY <1>4
  <1>5. CASE op = ">"
    BY <1>5
  <1>6. CASE op = ">="
    BY <1>6
  <1>7. QED BY <1>1, <1>2, <1>3, <1>4, <1>5, <1>6

LEMMA ComparisonMeans ==
    ASSUME NEW c, c.kind = "comparison", IsComparison(c), NEW row \in Row,
           NEW val_type, Evaluate(c, row, val_type) = {TRUE}
    PROVE  /\ c.literal.value # {} /\ ColumnValue(row, c.column) # {}
           /\ \A a \in ColumnValue(row, c.column), v \in c.literal.value :
                Holds(Operation(c),
                      Compare(ColumnType(c.column, val_type), a,
                              c.literal.type, v))
  <1>1. PICK type : type = ColumnType(c.column, val_type)
    OBVIOUS
  <1>2. {IF c.column_on_left
           THEN Holds(c.op, Compare(type, p[1], c.literal.type, p[2]))
           ELSE Holds(c.op, Compare(c.literal.type, p[2], type, p[1])) :
         p \in ColumnValue(row, c.column) \X c.literal.value} = {TRUE}
    BY <1>1 DEF Evaluate, EvaluateComparison
  <1>3. ASSUME NEW a \in ColumnValue(row, c.column), NEW v \in c.literal.value
        PROVE  IF c.column_on_left
                 THEN Holds(c.op, Compare(type, a, c.literal.type, v))
                 ELSE Holds(c.op, Compare(c.literal.type, v, type, a))
    <2>1. PICK p \in ColumnValue(row, c.column) \X c.literal.value :
            p = <<a, v>>
      OBVIOUS
    <2>2. (IF c.column_on_left
             THEN Holds(c.op, Compare(type, p[1], c.literal.type, p[2]))
             ELSE Holds(c.op, Compare(c.literal.type, p[2], type, p[1]))) = TRUE
      BY <1>2, Zenon
    <2>3. p[1] = a /\ p[2] = v
      BY <2>1
    <2>4. QED BY <2>2, <2>3
  <1>4. c.literal.value # {} /\ ColumnValue(row, c.column) # {}
    BY <1>2
  <1>5. ASSUME NEW a \in ColumnValue(row, c.column), NEW v \in c.literal.value
        PROVE  Holds(Operation(c), Compare(type, a, c.literal.type, v))
    <2>1. a \in Int /\ v \in Int
      <3>1. a \in Int
        BY RowTypes DEF ColumnValue
      <3>2. QED BY <3>1 DEF IsComparison
    <2>2. CASE c.column_on_left
      BY <1>3, <2>2 DEF Operation
    <2>3. CASE ~c.column_on_left
      <3>1. PICK n : n = Compare(type, a, c.literal.type, v)
        OBVIOUS
      <3>2. n \in {-1, 0, 1}
        BY <2>1, <3>1, CompareMonotone
      <3>3. Holds(c.op, -n)
        BY <1>3, <2>1, <2>3, <3>1, CompareSwapped
      <3>4. Holds(ReverseOperation(c.op), n)
        BY <3>2, <3>3, HoldsReversed DEF IsComparison
      <3>5. QED BY <2>3, <3>1, <3>4 DEF Operation
    <2>4. QED BY <2>2, <2>3
  <1>6. QED BY <1>1, <1>4, <1>5

-----------------------------------------------------------------------------
(* Data skipping.                                                          *)

LEMMA HoldsBetween ==
    ASSUME NEW least \in {-1, 0, 1}, NEW n \in {-1, 0, 1},
           NEW most \in {-1, 0, 1}, least <= n, n <= most,
           NEW op, Holds(op, n)
    PROVE  /\ op = "=" => least <= 0 /\ most >= 0
           /\ op \in {"<", "<="} => Holds(op, least)
           /\ op \in {">", ">="} => Holds(op, most)
  <1> USE DEF Holds
  <1>1. op = "=" => least <= 0 /\ most >= 0
    OBVIOUS
  <1>2. op = "<" => Holds(op, least)
    OBVIOUS
  <1>3. op = "<=" => Holds(op, least)
    OBVIOUS
  <1>4. op = ">" => Holds(op, most)
    OBVIOUS
  <1>5. op = ">=" => Holds(op, most)
    OBVIOUS
  <1>6. QED BY <1>1, <1>2, <1>3, <1>4, <1>5

(* The values of a block that are not NULL.                                *)
LEMMA ValuesFinite ==
    ASSUME NEW block \in Seq(Row)
    PROVE  IsFiniteSet(UNION {block[i].val : i \in DOMAIN block})
  <1>1. PICK values, places, value :
          /\ values = UNION {block[i].val : i \in DOMAIN block}
          /\ places = {i \in DOMAIN block : block[i].val # {}}
          /\ value = [i \in places |-> CHOOSE x \in block[i].val : TRUE]
    OBVIOUS
  <1>2. IsFiniteSet(places)
    <2>1. Len(block) \in Nat /\ DOMAIN block = 1 .. Len(block)
      OBVIOUS
    <2>2. IsFiniteSet(1 .. Len(block))
      BY <2>1, FS_Interval
    <2>3. QED BY <1>1, <2>1, <2>2, FS_Subset
  <1>3. \A i \in DOMAIN block : block[i] \in Row
    OBVIOUS
  <1>4. \A i \in places : block[i].val = {value[i]}
    BY <1>1, <1>3, RowTypes
  <1>5. value \in [places -> values]
    BY <1>1, <1>4
  <1>6. \A x \in values : \E i \in places : value[i] = x
    BY <1>1, <1>4
  <1>7. value \in Surjection(places, values)
    BY <1>5, <1>6 DEF Surjection
  <1>8. QED BY <1>1, <1>2, <1>7, FS_Surjection

LEMMA StatsBound ==
    ASSUME NEW block \in Seq(Row), NEW values,
           values = UNION {block[i].val : i \in DOMAIN block},
           NEW a \in values
    PROVE  /\ Stats(block).has_value
           /\ Stats(block).min \in Int /\ Stats(block).min <= a
           /\ Stats(block).max \in Int /\ a <= Stats(block).max
  <1>1. values \subseteq Int /\ IsFiniteSet(values)
    BY ValuesFinite, RowTypes
  <1>2. \E x \in values : \A y \in values : x <= y
    BY <1>1, LeastOfFinite
  <1>3. Min(values) \in values /\ Min(values) <= a
    BY <1>2 DEF Min
  <1>4. PICK mirrored, mirror :
          /\ mirrored = {-y : y \in values}
          /\ mirror = [y \in values |-> -y]
    OBVIOUS
  <1>5. IsFiniteSet(mirrored)
    <2>1. mirror \in Surjection(values, mirrored)
      BY <1>4 DEF Surjection
    <2>2. QED BY <1>1, <2>1, FS_Surjection
  <1>6. mirrored \subseteq Int /\ mirrored # {}
    BY <1>1, <1>4
  <1>7. PICK x \in mirrored : \A y \in mirrored : x <= y
    BY <1>5, <1>6, LeastOfFinite
  <1>8. \E z \in values : \A y \in values : z >= y
    <2>1. PICK z \in values : x = -z
      BY <1>4
    <2>2. \A y \in values : x <= -y
      BY <1>4, <1>7
    <2>3. QED BY <1>1, <2>1, <2>2
  <1>9. Max(values) \in values /\ a <= Max(values)
    BY <1>1, <1>8 DEF Max
  <1>10. Stats(block) =
           [has_value |-> TRUE, min |-> Min(values), max |-> Max(values)]
    BY DEF Stats
  <1>11. QED BY <1>1, <1>3, <1>9, <1>10

(* block_may_satisfy_predicate keeps a block with a row that satisfies.    *)
LEMMA PredicateKeepsBlock ==
    ASSUME NEW block \in Seq(Row), NEW i \in DOMAIN block,
           NEW val_type, NEW c, c.kind = "comparison", IsComparison(c),
           c.column = "val", c.op # "!=",
           Evaluate(c, block[i], val_type) = {TRUE}
    PROVE  MaySatisfy(Stats(block), val_type,
                      [op |-> Operation(c), literal |-> c.literal])
  <1>1. PICK values : values = UNION {block[j].val : j \in DOMAIN block}
    OBVIOUS
  <1>2. PICK row, op, type, stats :
          /\ row = block[i] /\ op = Operation(c) /\ type = c.literal.type
          /\ stats = Stats(block)
    OBVIOUS
  <1>3. row \in Row
    BY <1>2
  <1>4. /\ c.literal.value # {} /\ row.val # {}
        /\ \A a \in row.val, v \in c.literal.value :
             Holds(op, Compare(val_type, a, type, v))
    BY <1>2, <1>3, ComparisonMeans DEF ColumnValue, ColumnType
  <1>5. PICK a : a \in row.val
    BY <1>4
  <1>6. a \in values /\ a \in Int
    BY <1>1, <1>2, <1>3, <1>5, RowTypes
  <1>7. /\ stats.has_value
        /\ stats.min \in Int /\ stats.min <= a
        /\ stats.max \in Int /\ a <= stats.max
    BY <1>1, <1>2, <1>6, StatsBound
  <1>8. op \in {"=", "<", "<=", ">", ">="}
    BY <1>2 DEF Operation, ReverseOperation, IsComparison
  <1>9. ASSUME NEW v \in c.literal.value
        PROVE  LET least == Compare(val_type, stats.min, type, v)
                   most == Compare(val_type, stats.max, type, v)
               IN  /\ op = "=" => least <= 0 /\ most >= 0
                   /\ op \in {"<", "<="} => Holds(op, least)
                   /\ op \in {">", ">="} => Holds(op, most)
    <2>1. v \in Int
      BY DEF IsComparison
    <2>2. PICK least, n, most :
            /\ least = Compare(val_type, stats.min, type, v)
            /\ n = Compare(val_type, a, type, v)
            /\ most = Compare(val_type, stats.max, type, v)
      OBVIOUS
    <2>3. least \in {-1, 0, 1} /\ n \in {-1, 0, 1} /\ least <= n
      BY <1>6, <1>7, <2>1, <2>2, CompareMonotone
    <2>4. most \in {-1, 0, 1} /\ n <= most
      BY <1>6, <1>7, <2>1, <2>2, CompareMonotone
    <2>5. Holds(op, n)
      BY <1>4, <1>5, <2>2
    <2>6. QED BY <2>2, <2>3, <2>4, <2>5, HoldsBetween
  <1>10. QED BY <1>2, <1>7, <1>8, <1>9 DEF MaySatisfy

(* A row that satisfies WHERE is in no block that is skipped.              *)
LEMMA MatchKeepsBlock ==
    ASSUME NEW where, IsSequence(where),
           \A i \in 1 .. Len(where) :
             where[i].kind = "comparison" => IsComparison(where[i]),
           NEW block \in Seq(Row), NEW i \in DOMAIN block,
           NEW val_type, EvaluatePredicate(where, block[i], val_type)
    PROVE  KeepBlock(block, val_type, Predicates(where))
  <1> SUFFICES ASSUME NEW p \in Predicates(where)
               PROVE  MaySatisfy(Stats(block), val_type, p)
    BY DEF KeepBlock
  <1>1. PICK n \in DOMAIN where :
          /\ where[n].kind = "comparison" /\ where[n].column = "val"
          /\ where[n].op # "!="
          /\ p = [op |-> Operation(where[n]), literal |-> where[n].literal]
    BY DEF Predicates, Operation
  <1>2. IsComparison(where[n])
    BY <1>1 DEF IsSequence
  <1>3. Evaluate(where[n], block[i], val_type) = {TRUE}
    BY DEF EvaluatePredicate
  <1>4. QED BY <1>1, <1>2, <1>3, PredicateKeepsBlock

-----------------------------------------------------------------------------
(* The key range.                                                          *)

(* The recursive function exists: a shortest clause without one would have *)
(* a last turn.                                                            *)
LEMMA PlansRecursion ==
    ASSUME NEW where, Len(where) \in Nat
    PROVE  Plans(where) =
             [i \in 0 .. Len(where) |->
                IF i = 0 THEN NoBounds
                ELSE UseConjunct(Plans(where)[i - 1], where[i])]
  <1> DEFINE Turns(n, g) ==
               g = [i \in 0 .. n |->
                      IF i = 0 THEN NoBounds ELSE UseConjunct(g[i - 1], where[i])]
             Bad == {n \in Nat : ~ \E g : Turns(n, g)}
  <1>1. Bad = {}
    <2>1. SUFFICES ASSUME Bad # {} PROVE FALSE
      OBVIOUS
    <2>2. PICK n \in Bad : \A m \in Bad : n <= m
      <3>1. Bad \subseteq Nat
        OBVIOUS
      <3>2. QED BY <2>1, <3>1, LeastNatural
    <2>3. n # 0
      <3>1. PICK g : g = [i \in 0 .. 0 |-> NoBounds]
        OBVIOUS
      <3>2. Turns(0, g)
        BY <3>1
      <3>3. QED BY <3>2
    <2>4. n - 1 \in Nat /\ n - 1 \notin Bad
      <3>1. n \in Nat
        OBVIOUS
      <3>2. n - 1 \in Nat /\ ~(n <= n - 1)
        BY <2>3, <3>1
      <3>3. QED BY <2>2, <3>2
    <2>5. PICK g : Turns(n - 1, g)
      BY <2>4
    <2>6. PICK h : h = [i \in 0 .. n |-> IF i = n THEN UseConjunct(g[n - 1], where[n])
                                         ELSE g[i]]
      OBVIOUS
    <2>7. n \in Nat /\ n > 0
      BY <2>3
    <2>8. \A i \in 0 .. n - 1 : h[i] = g[i]
      BY <2>6, <2>7
    <2>9. ASSUME NEW i \in 0 .. n
          PROVE  h[i] = IF i = 0 THEN NoBounds ELSE UseConjunct(h[i - 1], where[i])
      <3>1. CASE i = n
        <4>1. h[n - 1] = g[n - 1]
          BY <2>7, <2>8
        <4>2. h[n] = UseConjunct(g[n - 1], where[n])
          BY <2>6, <2>7
        <4>3. QED BY <2>7, <3>1, <4>1, <4>2
      <3>2. CASE i # n
        <4>1. i \in 0 .. n - 1 /\ (i # 0 => i - 1 \in 0 .. n - 1)
          BY <2>7, <3>2
        <4>2. g[i] = IF i = 0 THEN NoBounds ELSE UseConjunct(g[i - 1], where[i])
          BY <2>5, <4>1
        <4>3. QED BY <2>8, <4>1, <4>2
      <3>3. QED BY <3>1, <3>2
    <2>10. DOMAIN h = 0 .. n
      BY <2>6
    <2>11. h = [i \in 0 .. n |-> h[i]]
      BY <2>6
    <2>12. Turns(n, h)
      BY <2>9, <2>11
    <2>13. QED BY <2>12
  <1>2. \E g : Turns(Len(where), g)
    BY <1>1
  <1>3. Plans(where) = CHOOSE g : Turns(Len(where), g)
    BY DEF Plans
  <1>4. Turns(Len(where), Plans(where))
    BY <1>2, <1>3
  <1>5. QED BY <1>4

(* The keys that a plan leaves in.                                         *)
Admits(plan, key) ==
    plan.failed \/
      /\ ~plan.empty
      /\ plan.point \subseteq {key}
      /\ plan.from \subseteq Int /\ \A f \in plan.from : key >= f
      /\ plan.to \subseteq Int /\ \A t \in plan.to : key < t
      /\ plan.from = {} \/ \E f \in plan.from : plan.from = {f}
      /\ plan.to = {} \/ \E t \in plan.to : plan.to = {t}

IsPlan(plan) ==
    plan = [point |-> plan.point, from |-> plan.from, to |-> plan.to,
            empty |-> plan.empty, failed |-> plan.failed]

LEMMA AtLeastAdmits ==
    ASSUME NEW plan, IsPlan(plan), NEW key \in Int, Admits(plan, key),
           NEW k \in Int, key >= k
    PROVE  IsPlan(AtLeast(plan, k)) /\ Admits(AtLeast(plan, k), key)
  <1>1. PICK bounds : bounds = plan.from \cup {k}
    OBVIOUS
  <1>2. AtLeast(plan, k) =
          [point |-> plan.point, from |-> {Max(bounds)}, to |-> plan.to,
           empty |-> plan.empty, failed |-> plan.failed]
    BY <1>1 DEF AtLeast, IsPlan
  <1>3. CASE plan.failed
    BY <1>2, <1>3 DEF IsPlan, Admits
  <1>4. CASE ~plan.failed
    <2>1. bounds \subseteq Int /\ \A f \in bounds : key >= f
      BY <1>1, <1>4 DEF Admits
    <2>2. \E x \in bounds : \A y \in bounds : x >= y
      BY <1>1, <1>4, <2>1 DEF Admits
    <2>3. Max(bounds) \in bounds
      BY <2>2 DEF Max
    <2>4. QED BY <1>2, <1>4, <2>1, <2>3 DEF IsPlan, Admits
  <1>5. QED BY <1>3, <1>4

LEMMA BelowAdmits ==
    ASSUME NEW plan, IsPlan(plan), NEW key \in Int, Admits(plan, key),
           NEW k \in Int, key < k
    PROVE  IsPlan(Below(plan, k)) /\ Admits(Below(plan, k), key)
  <1>1. PICK bounds : bounds = plan.to \cup {k}
    OBVIOUS
  <1>2. Below(plan, k) =
          [point |-> plan.point, from |-> plan.from, to |-> {Min(bounds)},
           empty |-> plan.empty, failed |-> plan.failed]
    BY <1>1 DEF Below, IsPlan
  <1>3. CASE plan.failed
    BY <1>2, <1>3 DEF IsPlan, Admits
  <1>4. CASE ~plan.failed
    <2>1. bounds \subseteq Int /\ \A t \in bounds : key < t
      BY <1>1, <1>4 DEF Admits
    <2>2. \E x \in bounds : \A y \in bounds : x <= y
      BY <1>1, <1>4, <2>1 DEF Admits
    <2>3. Min(bounds) \in bounds
      BY <2>2 DEF Min
    <2>4. QED BY <1>2, <1>4, <2>1, <2>3 DEF IsPlan, Admits
  <1>5. QED BY <1>3, <1>4

(* The switch over the operation keeps every key that satisfies it.        *)
LEMMA NarrowAdmits ==
    ASSUME NEW plan, IsPlan(plan), NEW key \in Int, key <= IntMax,
           Admits(plan, key), NEW k \in Int,
           NEW op \in {"=", "!=", "<", "<=", ">", ">="},
           Holds(op, Compare("INT64", key, "INT64", k))
    PROVE  IsPlan(Narrow(plan, op, k)) /\ Admits(Narrow(plan, op, k), key)
  <1>1. PICK n : n = IF key < k THEN -1 ELSE IF key > k THEN 1 ELSE 0
    OBVIOUS
  <1>2. Holds(op, n)
    BY <1>1, CompareExactly
  <1>3. CASE op = "="
    <2>1. key = k
      BY <1>1, <1>2, <1>3 DEF Holds
    <2>2. CASE plan.point \subseteq {k}
      <3>1. Narrow(plan, op, k) =
              [point |-> {k}, from |-> plan.from, to |-> plan.to,
               empty |-> plan.empty, failed |-> plan.failed]
        BY <1>3, <2>2 DEF Narrow, IsPlan
      <3>2. QED BY <2>1, <3>1 DEF IsPlan, Admits
    <2>3. CASE ~(plan.point \subseteq {k})
      <3>1. plan.failed
        BY <2>1, <2>3 DEF Admits
      <3>2. Narrow(plan, op, k) =
              [point |-> plan.point, from |-> plan.from, to |-> plan.to,
               empty |-> TRUE, failed |-> plan.failed]
        BY <1>3, <2>3 DEF Narrow, IsPlan
      <3>3. QED BY <3>1, <3>2 DEF IsPlan, Admits
    <2>4. QED BY <2>2, <2>3
  <1>4. CASE op = "!="
    BY <1>4 DEF Narrow
  <1>5. CASE op = "<"
    <2>1. key < k
      BY <1>1, <1>2, <1>5 DEF Holds
    <2>2. Narrow(plan, op, k) = Below(plan, k)
      BY <1>5 DEF Narrow
    <2>3. QED BY <2>1, <2>2, BelowAdmits
  <1>6. CASE op = "<="
    <2>1. key < k + 1
      BY <1>1, <1>2, <1>6 DEF Holds
    <2>2. Narrow(plan, op, k) = IF k = IntMax THEN plan ELSE Below(plan, k + 1)
      BY <1>6 DEF Narrow
    <2>3. k + 1 \in Int
      OBVIOUS
    <2>4. QED BY <2>1, <2>2, <2>3, BelowAdmits
  <1>7. CASE op = ">"
    <2>1. key >= k + 1 /\ k # IntMax
      BY <1>1, <1>2, <1>7, PlanAssumption DEF Holds
    <2>2. Narrow(plan, op, k) = AtLeast(plan, k + 1)
      BY <1>7, <2>1 DEF Narrow
    <2>3. k + 1 \in Int
      OBVIOUS
    <2>4. QED BY <2>1, <2>2, <2>3, AtLeastAdmits
  <1>8. CASE op = ">="
    <2>1. key >= k
      BY <1>1, <1>2, <1>8 DEF Holds
    <2>2. Narrow(plan, op, k) = AtLeast(plan, k)
      BY <1>8 DEF Narrow
    <2>3. QED BY <2>1, <2>2, AtLeastAdmits
  <1>9. QED BY <1>3, <1>4, <1>5, <1>6, <1>7, <1>8

(* One turn of the loop keeps every row that satisfies the conjunct.       *)
LEMMA ConjunctAdmits ==
    ASSUME NEW plan, IsPlan(plan), NEW row \in Row, Admits(plan, row.key),
           NEW c, c.kind = "comparison" => IsComparison(c),
           NEW val_type, Evaluate(c, row, val_type) = {TRUE}
    PROVE  IsPlan(UseConjunct(plan, c)) /\ Admits(UseConjunct(plan, c), row.key)
  <1>1. row.key \in Int /\ row.key <= IntMax
    BY RowTypes
  <1>2. CASE plan.empty \/ plan.failed \/ c.kind # "comparison"
    BY <1>2 DEF UseConjunct
  <1>3. CASE c.kind = "comparison" /\ c.column # "key"
    BY <1>3 DEF UseConjunct
  <1>4. CASE /\ ~(plan.empty \/ plan.failed)
             /\ c.kind = "comparison" /\ c.column = "key"
    <2>1. /\ c.literal.value # {}
          /\ \A v \in c.literal.value :
               Holds(Operation(c), Compare("INT64", row.key, c.literal.type, v))
      BY <1>4, ComparisonMeans DEF ColumnValue, ColumnType
    <2>2. CASE c.literal.type # "INT64"
      <3>1. UseConjunct(plan, c) =
              [point |-> plan.point, from |-> plan.from, to |-> plan.to,
               empty |-> plan.empty, failed |-> TRUE]
        BY <1>4, <2>1, <2>2 DEF UseConjunct, IsPlan
      <3>2. QED BY <3>1 DEF IsPlan, Admits
    <2>3. CASE c.literal.type = "INT64"
      <3>1. PICK k, op : /\ k = CHOOSE v \in c.literal.value : TRUE
                         /\ op = Operation(c)
        OBVIOUS
      <3>2. k \in c.literal.value
        BY <2>1, <3>1
      <3>3. k \in Int
        BY <1>4, <3>2 DEF IsComparison
      <3>4. op \in {"=", "!=", "<", "<=", ">", ">="}
        BY <1>4, <3>1 DEF Operation, ReverseOperation, IsComparison
      <3>5. Holds(op, Compare("INT64", row.key, "INT64", k))
        BY <2>1, <2>3, <3>1, <3>2
      <3>6. UseConjunct(plan, c) = Narrow(plan, op, k)
        BY <1>4, <2>1, <2>3, <3>1 DEF UseConjunct, Operation
      <3>7. QED BY <1>1, <3>3, <3>4, <3>5, <3>6, NarrowAdmits
    <2>4. QED BY <2>2, <2>3
  <1>5. QED BY <1>2, <1>3, <1>4

LEMMA PlansAdmit ==
    ASSUME NEW where, IsSequence(where),
           \A i \in 1 .. Len(where) :
             where[i].kind = "comparison" => IsComparison(where[i]),
           NEW row \in Row, NEW val_type, EvaluatePredicate(where, row, val_type)
    PROVE  \A i \in 0 .. Len(where) :
             IsPlan(Plans(where)[i]) /\ Admits(Plans(where)[i], row.key)
  <1> DEFINE plans == Plans(where)
             Bad == {i \in 0 .. Len(where) :
                       ~(IsPlan(plans[i]) /\ Admits(plans[i], row.key))}
  <1>1. Len(where) \in Nat
    BY DEF IsSequence
  <1>2. plans = [i \in 0 .. Len(where) |->
                   IF i = 0 THEN NoBounds ELSE UseConjunct(plans[i - 1], where[i])]
    BY <1>1, PlansRecursion
  <1>3. SUFFICES ASSUME Bad # {} PROVE FALSE
    OBVIOUS
  <1>4. PICK n \in Bad : \A m \in Bad : n <= m
    <2>1. Bad \subseteq Nat
      OBVIOUS
    <2>2. QED BY <1>3, <2>1, LeastNatural
  <1>5. n # 0
    <2>1. plans[0] = NoBounds
      BY <1>1, <1>2
    <2>2. IsPlan(NoBounds) /\ Admits(NoBounds, row.key)
      BY DEF NoBounds, IsPlan, Admits
    <2>3. QED BY <2>1, <2>2
  <1>6. n - 1 \in 0 .. Len(where) /\ n - 1 \notin Bad /\ n \in 1 .. Len(where)
    <2>1. n \in 0 .. Len(where)
      OBVIOUS
    <2>2. n - 1 \in 0 .. Len(where) /\ n \in 1 .. Len(where) /\ ~(n <= n - 1)
      BY <1>1, <1>5, <2>1
    <2>3. QED BY <1>4, <2>2
  <1>7. plans[n] = UseConjunct(plans[n - 1], where[n])
    BY <1>2, <1>5
  <1>8. IsPlan(plans[n - 1]) /\ Admits(plans[n - 1], row.key)
    BY <1>6
  <1>9. Evaluate(where[n], row, val_type) = {TRUE}
    BY <1>6 DEF EvaluatePredicate, IsSequence
  <1>10. IsPlan(plans[n]) /\ Admits(plans[n], row.key)
    BY <1>6, <1>7, <1>8, <1>9, ConjunctAdmits
  <1>11. QED BY <1>10

(* BuildCursorForSelect: a row that satisfies WHERE is in the range read,  *)
(* if the plan has one, and there is none when it says that there is none. *)
LEMMA MatchInRange ==
    ASSUME NEW where, IsSequence(where),
           \A i \in 1 .. Len(where) :
             where[i].kind = "comparison" => IsComparison(where[i]),
           NEW row \in Row, NEW val_type, EvaluatePredicate(where, row, val_type),
           ~BuildPlan(where).failed
    PROVE  /\ ~BuildPlan(where).empty
           /\ InPlanRange(PlanRange(BuildPlan(where)), row)
  <1>1. PICK plan : plan = Plans(where)[Len(where)]
    OBVIOUS
  <1>2. IsPlan(plan) /\ Admits(plan, row.key)
    <2>1. Len(where) \in 0 .. Len(where)
      BY DEF IsSequence
    <2>2. QED BY <1>1, <2>1, PlansAdmit
  <1>3. BuildPlan(where).failed = plan.failed
    BY <1>1, <1>2 DEF BuildPlan, IsPlan
  <1>4. row.key \in Int /\ row.key <= IntMax
    BY RowTypes
  <1>5. /\ ~plan.empty /\ plan.point \subseteq {row.key}
        /\ plan.from \subseteq Int /\ \A f \in plan.from : row.key >= f
        /\ plan.to \subseteq Int /\ \A t \in plan.to : row.key < t
    BY <1>2, <1>3 DEF Admits
  <1>6. ~ \E f \in plan.from, t \in plan.to : f >= t
    <2> SUFFICES ASSUME NEW f \in plan.from, NEW t \in plan.to, f >= t
                 PROVE  FALSE
      OBVIOUS
    <2>1. f \in Int /\ t \in Int /\ row.key >= f /\ row.key < t
      BY <1>5
    <2>2. QED BY <1>4, <2>1
  <1>7. BuildPlan(where) = plan
    BY <1>1, <1>6 DEF BuildPlan
  <1>8. InPlanRange(PlanRange(plan), row)
    <2>1. CASE plan.point = {}
      BY <1>5, <2>1 DEF PlanRange, InPlanRange
    <2>2. CASE plan.point = {row.key}
      <3>1. /\ PlanRange(plan).from = {row.key}
            /\ PlanRange(plan).to \subseteq {row.key + 1}
        BY <2>2 DEF PlanRange
      <3>2. QED BY <1>4, <3>1 DEF InPlanRange
    <2>3. QED BY <1>5, <2>1, <2>2
  <1>9. QED BY <1>5, <1>7, <1>8

-----------------------------------------------------------------------------
(* A plain SELECT: the inductive invariant.                                *)

RowsIn(s) == {s[i] : i \in 1 .. Len(s)}

Distinct(s) == \A i, j \in 1 .. Len(s) : i # j => s[i] # s[j]

Ascending(s) == \A i, j \in 1 .. Len(s) : i < j => s[i].key <= s[j].key

KeyAscFirst(q) ==
    q.order # <<>> /\ q.order[1] = [column |-> "key", direction |-> "Asc"]

(* The rows are returned as the cursor brings them, without a sort.        *)
Streams(q) == q.order = <<>> \/ KeyAscFirst(q)

Taken == IF Streams(query) THEN result ELSE pending

(* In the loop and before the sort: what was taken and what the cursor has *)
(* still to bring are apart, and every match is in one of them.            *)
LoopInv ==
    /\ cursor \in Seq(AllRows) /\ Taken \in Seq(AllRows)
    /\ Distinct(cursor) /\ Distinct(Taken)
    /\ RowsIn(cursor) \cap RowsIn(Taken) = {}
    /\ RowsIn(Taken) \subseteq Matches
    /\ Matches \subseteq RowsIn(Taken) \cup RowsIn(cursor)
    /\ phase = "finish" => cursor = <<>>
    /\ Streams(query) => \A n \in query.limit : Len(result) < n
    /\ KeyAscFirst(query) =>
         /\ Ascending(result) /\ Ascending(cursor)
         /\ \A i \in 1 .. Len(result), j \in 1 .. Len(cursor) :
              result[i].key <= cursor[j].key

(* The answer: by the key where the storage gives the order, sorted where  *)
(* the executor does.                                                      *)
AnswerIs(answer) ==
    /\ answer \in Seq(AllRows) /\ Distinct(answer)
    /\ RowsIn(answer) \subseteq Matches
    /\ Len(answer) = LimitOf(Cardinality(Matches))
    /\ KeyAscFirst(query) =>
         /\ Ascending(answer)
         /\ \A r \in RowsIn(answer), s \in Matches \ RowsIn(answer) : r.key <= s.key
    /\ ~Streams(query) =>
         /\ \A i, j \in 1 .. Len(answer) : i < j => ~Less(answer[j], answer[i])
         /\ \A r \in RowsIn(answer), s \in Matches \ RowsIn(answer) : ~Less(s, r)

PlainInv ==
    /\ table \in Tables /\ query \in Queries
    /\ phase \in {"start", "scan", "finish", "done", "failed"}
    /\ phase = "start" => cursor = <<>> /\ pending = <<>> /\ result = <<>>
    /\ query.kind = "plain" =>
         /\ phase \in {"scan", "finish"} => LoopInv
         /\ phase = "done" => AnswerIs(result)

-----------------------------------------------------------------------------
(* Sequences without repetition.                                           *)

LEMMA ListedRows ==
    ASSUME NEW S, NEW s \in Seq(S)
    PROVE  /\ RowsIn(s) \subseteq S /\ IsFiniteSet(RowsIn(s))
           /\ Distinct(s) => Cardinality(RowsIn(s)) = Len(s)
  <1>1. PICK n, rows, f :
          n = Len(s) /\ rows = RowsIn(s) /\ f = [i \in 1 .. n |-> s[i]]
    OBVIOUS
  <1>2. n \in Nat /\ \A i \in 1 .. n : s[i] \in S
    BY <1>1
  <1>3. IsFiniteSet(1 .. n) /\ Cardinality(1 .. n) = n
    BY <1>2, FS_Interval
  <1>4. f \in Surjection(1 .. n, rows)
    BY <1>1 DEF Surjection, RowsIn
  <1>5. Distinct(s) => f \in Injection(1 .. n, rows)
    BY <1>1, <1>4 DEF Surjection, Injection, IsInjective, Distinct
  <1>6. QED BY <1>1, <1>2, <1>3, <1>4, <1>5, FS_Surjection DEF RowsIn

LEMMA RowsFinite ==
    ASSUME NEW t \in Tables
    PROVE  IsFiniteSet(RowsOf(t)) /\ RowsOf(t) \subseteq Row
  <1>1. t.mem \in Seq(Row) /\ t.blocks \in Seq(Seq(Row))
    BY TablesAssumption
  <1>2. PICK n, f, T : /\ n = Len(t.blocks)
                       /\ f = [b \in 1 .. n |-> RowsIn(t.blocks[b])]
                       /\ T = {RowsIn(t.blocks[b]) : b \in 1 .. n}
    OBVIOUS
  <1>3. n \in Nat /\ \A b \in 1 .. n : t.blocks[b] \in Seq(Row)
    BY <1>1, <1>2
  <1>4. IsFiniteSet(T)
    <2>1. f \in Surjection(1 .. n, T)
      BY <1>2 DEF Surjection
    <2>2. IsFiniteSet(1 .. n)
      BY <1>3, FS_Interval
    <2>3. QED BY <2>1, <2>2, FS_Surjection
  <1>5. \A rows \in T : IsFiniteSet(rows) /\ rows \subseteq Row
    BY <1>2, <1>3, ListedRows
  <1>6. IsFiniteSet(UNION T)
    BY <1>4, <1>5, FS_UNION
  <1>7. IsFiniteSet(RowsIn(t.mem)) /\ RowsIn(t.mem) \subseteq Row
    BY <1>1, ListedRows
  <1>8. RowsOf(t) = RowsIn(t.mem) \cup UNION T
    BY <1>2 DEF RowsOf, RowsIn
  <1>9. QED BY <1>5, <1>6, <1>7, <1>8, FS_Union

(* A cursor brings every row it is over once.                              *)
LEMMA ListingsListRows ==
    ASSUME NEW rows, IsFiniteSet(rows), NEW by_key \in BOOLEAN,
           NEW s \in Listings(rows, by_key)
    PROVE  /\ s \in Seq(rows) /\ Distinct(s) /\ RowsIn(s) = rows
           /\ by_key => Ascending(s)
  <1>1. PICK n : n = Cardinality(rows)
    OBVIOUS
  <1>2. n \in Nat /\ IsFiniteSet(1 .. n) /\ Cardinality(1 .. n) = n
    BY <1>1, FS_CardinalityType, FS_Interval
  <1>3. /\ s \in [1 .. n -> rows]
        /\ \A i, j \in 1 .. n : i # j => s[i] # s[j]
        /\ by_key => \A i, j \in 1 .. n : i < j => s[i].key <= s[j].key
    BY <1>1 DEF Listings
  <1>4. s \in Seq(rows) /\ Len(s) = n
    BY <1>2, <1>3
  <1>5. s \in Injection(1 .. n, rows)
    BY <1>3 DEF Injection, IsInjective
  <1>6. s \in Surjection(1 .. n, rows)
    BY <1>1, <1>2, <1>5, FS_Injection
  <1>7. RowsIn(s) = rows
    BY <1>3, <1>4, <1>6 DEF RowsIn, Surjection
  <1>8. QED BY <1>3, <1>4, <1>7 DEF Distinct, Ascending

-----------------------------------------------------------------------------
(* LIMIT and the sort.                                                     *)

LEMMA MinOfTwo ==
    ASSUME NEW m \in Nat, NEW n \in Nat
    PROVE  Min({m} \cup {n}) = IF m <= n THEN m ELSE n
  <1>1. PICK least : least = IF m <= n THEN m ELSE n
    OBVIOUS
  <1>2. \A x \in {m} \cup {n} : least <= x
    BY <1>1
  <1>3. least \in {m} \cup {n}
    BY <1>1
  <1>4. \A x \in {m} \cup {n} :
          (\A y \in {m} \cup {n} : x <= y) => x = least
    BY <1>1
  <1>5. Min({m} \cup {n}) \in {m} \cup {n} /\
        \A y \in {m} \cup {n} : Min({m} \cup {n}) <= y
    BY <1>2, <1>3 DEF Min
  <1>6. QED BY <1>1, <1>4, <1>5

LEMMA MinMaxOfOne ==
    ASSUME NEW n \in Nat
    PROVE  Min({n}) = n /\ Max({n}) = n
  BY DEF Min, Max

LEMMA LimitIs ==
    ASSUME query \in Queries, NEW n \in Nat
    PROVE  /\ LimitOf(n) \in Nat /\ LimitOf(n) <= n
           /\ query.limit = {} => LimitOf(n) = n
           /\ \A m \in query.limit :
                /\ m \in Nat /\ query.limit = {m} /\ Max(query.limit) = m
                /\ LimitOf(n) = IF m <= n THEN m ELSE n
  <1>1. query.limit = {} \/ \E m \in query.limit : m \in Nat /\ query.limit = {m}
    BY QueriesAssumption
  <1>2. CASE query.limit = {}
    <2>1. LimitOf(n) = n
      BY <1>2, MinMaxOfOne DEF LimitOf
    <2>2. QED BY <1>2, <2>1
  <1>3. CASE \E m \in query.limit : m \in Nat /\ query.limit = {m}
    <2>1. PICK m \in Nat : query.limit = {m}
      BY <1>3
    <2>2. LimitOf(n) = IF m <= n THEN m ELSE n
      BY <2>1, MinOfTwo DEF LimitOf
    <2>3. Max(query.limit) = m
      BY <2>1, MinMaxOfOne
    <2>4. QED BY <2>1, <2>2, <2>3
  <1>4. QED BY <1>1, <1>2, <1>3

LEMMA LimitedRows ==
    ASSUME query \in Queries, NEW S, NEW out \in Seq(S)
    PROVE  /\ Limited(out) \in Seq(S)
           /\ Len(Limited(out)) = LimitOf(Len(out))
           /\ \A i \in 1 .. LimitOf(Len(out)) : Limited(out)[i] = out[i]
  <1>1. PICK n, m : n = Len(out) /\ m = LimitOf(n)
    OBVIOUS
  <1>2. n \in Nat /\ m \in Nat /\ m <= n /\ (query.limit = {} => m = n)
    BY <1>1, LimitIs
  <1>3. Limited(out) = SubSeq(out, 1, m)
    <2>1. CASE query.limit = {}
      BY <1>1, <1>2, <2>1, SubSeqFull DEF Limited
    <2>2. CASE query.limit # {}
      BY <1>1, <2>2 DEF Limited, LimitOf
    <2>3. QED BY <2>1, <2>2
  <1>4. \A i \in 1 .. m : out[i] \in S
    BY <1>1, <1>2
  <1>5. /\ SubSeq(out, 1, m) \in Seq(S)
        /\ Len(SubSeq(out, 1, m)) = m
        /\ \A i \in 1 .. m : SubSeq(out, 1, m)[i] = out[i]
    BY <1>1, <1>2, <1>4
  <1>6. QED BY <1>1, <1>3, <1>5

(* std::sort returns the rows it was given.                                *)
LEMMA OrdersKeepRows ==
    ASSUME NEW S, NEW rows \in Seq(S), Distinct(rows), NEW out \in Orders(rows)
    PROVE  /\ out \in Seq(S) /\ Len(out) = Len(rows)
           /\ Distinct(out) /\ RowsIn(out) = RowsIn(rows)
           /\ \A i, j \in 1 .. Len(out) : i < j => ~Less(out[j], out[i])
  <1>1. PICK n, all : n = Len(rows) /\ all = RowsIn(rows)
    OBVIOUS
  <1>2. n \in Nat /\ DOMAIN rows = 1 .. n /\ \A i \in 1 .. n : rows[i] \in S
    BY <1>1
  <1>3. all = {rows[i] : i \in DOMAIN rows} /\ all \subseteq S
    BY <1>1, <1>2 DEF RowsIn
  <1>4. out \in [1 .. n -> all] /\ Sorted(rows, out)
    BY <1>2, <1>3 DEF Orders
  <1>5. out \in Seq(S) /\ Len(out) = n /\ DOMAIN out = 1 .. n
    BY <1>2, <1>3, <1>4
  <1>6. RowsIn(out) = all
    BY <1>3, <1>4, <1>5 DEF Sorted, RowsIn
  <1>7. out \in Surjection(1 .. n, all)
    BY <1>4, <1>5, <1>6 DEF Surjection, RowsIn
  <1>8. Cardinality(all) = n /\ IsFiniteSet(1 .. n) /\ Cardinality(1 .. n) = n
    <2>1. Cardinality(all) = n
      BY <1>1, ListedRows
    <2>2. IsFiniteSet(1 .. n) /\ Cardinality(1 .. n) = n
      BY <1>2, FS_Interval
    <2>3. QED BY <2>1, <2>2
  <1>9. out \in Injection(1 .. n, all)
    BY <1>7, <1>8, FS_Surjection
  <1>10. Distinct(out)
    BY <1>5, <1>9 DEF Injection, IsInjective, Distinct
  <1>11. QED BY <1>1, <1>4, <1>5, <1>6, <1>10 DEF Sorted

-----------------------------------------------------------------------------
(* The cursor.                                                             *)

(* Every match is among the rows that the storage returns for the plan,    *)
(* with or without the data skipping filter.                               *)
LEMMA MatchesStored ==
    ASSUME table \in Tables, query \in Queries, NEW plan,
           plan = BuildPlan(query.where), ~plan.failed,
           NEW filter, filter = {} \/ filter = Predicates(query.where)
    PROVE  /\ Matches \subseteq StoredRows(PlanRange(plan), filter)
           /\ plan.empty => Matches = {}
  <1>1. /\ IsSequence(query.where)
        /\ \A i \in 1 .. Len(query.where) :
             query.where[i].kind = "comparison" => IsComparison(query.where[i])
    BY QueriesAssumption
  <1>2. table.mem \in Seq(Row) /\ table.blocks \in Seq(Seq(Row))
    BY TablesAssumption
  <1>3. ASSUME NEW r \in Matches
        PROVE  ~plan.empty /\ r \in StoredRows(PlanRange(plan), filter)
    <2>1. r \in AllRows /\ EvaluatePredicate(query.where, r, table.val_type)
      BY DEF Matches
    <2>2. r \in Row
      BY <2>1, RowsFinite DEF AllRows
    <2>3. ~plan.empty /\ InPlanRange(PlanRange(plan), r)
      BY <1>1, <2>1, <2>2, MatchInRange
    <2>4. r \in MemRows \cup TableRows(filter)
      <3>1. CASE r \in MemRows
        BY <3>1
      <3>2. CASE r \notin MemRows
        <4>1. PICK b \in 1 .. Len(table.blocks) :
                \E i \in 1 .. Len(table.blocks[b]) : r = table.blocks[b][i]
          BY <2>1, <3>2 DEF AllRows, RowsOf, MemRows
        <4>2. PICK i \in 1 .. Len(table.blocks[b]) : r = table.blocks[b][i]
          BY <4>1
        <4>3. table.blocks[b] \in Seq(Row) /\ i \in DOMAIN table.blocks[b]
          BY <1>2
        <4>4. KeepBlock(table.blocks[b], table.val_type, Predicates(query.where))
          BY <1>1, <2>1, <4>2, <4>3, MatchKeepsBlock
        <4>5. KeepBlock(table.blocks[b], table.val_type, {})
          BY DEF KeepBlock
        <4>6. KeepBlock(table.blocks[b], table.val_type, filter)
          BY <4>4, <4>5
        <4>7. QED BY <4>2, <4>6 DEF TableRows
      <3>3. QED BY <3>1, <3>2
    <2>5. QED BY <2>3, <2>4 DEF StoredRows
  <1>4. QED BY <1>3

LEMMA StoredFinite ==
    ASSUME table \in Tables, NEW range, NEW filter
    PROVE  /\ StoredRows(range, filter) \subseteq AllRows
           /\ IsFiniteSet(StoredRows(range, filter))
  <1>1. StoredRows(range, filter) \subseteq AllRows
    BY DEF StoredRows, MemRows, TableRows, AllRows, RowsOf
  <1>2. IsFiniteSet(AllRows)
    BY RowsFinite DEF AllRows
  <1>3. QED BY <1>1, <1>2, FS_Subset

LEMMA MatchesFinite ==
    ASSUME table \in Tables
    PROVE  /\ Matches \subseteq AllRows /\ IsFiniteSet(Matches)
           /\ Cardinality(Matches) \in Nat
  <1>1. Matches \subseteq AllRows
    BY DEF Matches
  <1>2. IsFiniteSet(AllRows)
    BY RowsFinite DEF AllRows
  <1>3. QED BY <1>1, <1>2, FS_Subset, FS_CardinalityType

(* The key of a point lookup is a number.                                  *)
PointIsKey(plan) == IsPlan(plan) /\ plan.point \subseteq Int

LEMMA BoundsArePlan ==
    ASSUME NEW point, NEW from, NEW to, NEW empty, NEW failed
    PROVE  LET plan == [point |-> point, from |-> from, to |-> to,
                        empty |-> empty, failed |-> failed]
           IN  point \subseteq Int => PointIsKey(plan)
  BY DEF IsPlan, PointIsKey

LEMMA EmptyKeepsPoint ==
    ASSUME NEW plan, PointIsKey(plan)
    PROVE  PointIsKey([plan EXCEPT !.empty = TRUE])
  <1>1. PICK point, from, to, empty, failed :
          /\ point = plan.point
          /\ plan = [point |-> point, from |-> from, to |-> to,
                     empty |-> empty, failed |-> failed]
    BY DEF PointIsKey, IsPlan
  <1>2. PICK yes : yes = TRUE
    OBVIOUS
  <1>3. [plan EXCEPT !.empty = yes] =
          [point |-> point, from |-> from, to |-> to, empty |-> yes,
           failed |-> failed]
    BY <1>1
  <1>4. point \subseteq Int
    BY <1>1 DEF PointIsKey
  <1>5. QED BY <1>2, <1>3, <1>4, BoundsArePlan

LEMMA ConjunctKeepsPoint ==
    ASSUME NEW plan, PointIsKey(plan),
           NEW c, c.kind = "comparison" => IsComparison(c)
    PROVE  PointIsKey(UseConjunct(plan, c))
  <1>1. CASE \/ plan.empty \/ plan.failed \/ c.kind # "comparison"
             \/ c.column # "key"
    BY <1>1 DEF UseConjunct
  <1>2. CASE /\ ~(plan.empty \/ plan.failed)
             /\ c.kind = "comparison" /\ c.column = "key"
    <2>1. CASE c.literal.value = {} \/ c.literal.type # "INT64"
      <3>1. \/ UseConjunct(plan, c) =
                 [point |-> plan.point, from |-> plan.from, to |-> plan.to,
                  empty |-> TRUE, failed |-> plan.failed]
            \/ UseConjunct(plan, c) =
                 [point |-> plan.point, from |-> plan.from, to |-> plan.to,
                  empty |-> plan.empty, failed |-> TRUE]
        BY <1>2, <2>1 DEF UseConjunct, PointIsKey, IsPlan
      <3>2. QED BY <3>1 DEF PointIsKey, IsPlan
    <2>2. CASE c.literal.value # {} /\ c.literal.type = "INT64"
      <3>1. PICK k, op : /\ k = CHOOSE v \in c.literal.value : TRUE
                         /\ op = Operation(c)
        OBVIOUS
      <3>2. k \in Int
        <4>1. k \in c.literal.value
          BY <2>2, <3>1
        <4>2. QED BY <1>2, <4>1 DEF IsComparison
      <3>3. UseConjunct(plan, c) = Narrow(plan, op, k)
        BY <1>2, <2>2, <3>1 DEF UseConjunct, Operation
      <3>4. \A n \in Int : /\ PointIsKey(AtLeast(plan, n))
                           /\ PointIsKey(Below(plan, n))
        <4> TAKE n \in Int
        <4> DEFINE least == {Max(plan.from \cup {n})}
                   most == {Min(plan.to \cup {n})}
        <4>1. /\ AtLeast(plan, n) =
                   [point |-> plan.point, from |-> least,
                    to |-> plan.to, empty |-> plan.empty, failed |-> plan.failed]
              /\ Below(plan, n) =
                   [point |-> plan.point, from |-> plan.from,
                    to |-> most,
                    empty |-> plan.empty, failed |-> plan.failed]
          <5>1. /\ AtLeast(plan, n) = [plan EXCEPT !.from = least]
                /\ Below(plan, n) = [plan EXCEPT !.to = most]
            BY DEF AtLeast, Below
          <5> HIDE DEF least, most
          <5>2. plan = [point |-> plan.point, from |-> plan.from,
                        to |-> plan.to, empty |-> plan.empty,
                        failed |-> plan.failed]
            BY DEF PointIsKey, IsPlan
          <5>3. [plan EXCEPT !.from = least] =
                  [point |-> plan.point, from |-> least, to |-> plan.to,
                   empty |-> plan.empty, failed |-> plan.failed]
            BY <5>2
          <5>4. [plan EXCEPT !.to = most] =
                  [point |-> plan.point, from |-> plan.from, to |-> most,
                   empty |-> plan.empty, failed |-> plan.failed]
            BY <5>2
          <5>5. QED BY <5>1, <5>3, <5>4
        <4> HIDE DEF least, most
        <4>2. plan.point \subseteq Int
          BY DEF PointIsKey
        <4>3. QED BY <4>1, <4>2, BoundsArePlan
      <3>5. PointIsKey([plan EXCEPT !.point = {k}])
        <4>1. [plan EXCEPT !.point = {k}] =
                [point |-> {k}, from |-> plan.from, to |-> plan.to,
                 empty |-> plan.empty, failed |-> plan.failed]
          BY DEF PointIsKey, IsPlan
        <4>2. QED BY <3>2, <4>1 DEF PointIsKey, IsPlan
      <3>6. PointIsKey([plan EXCEPT !.empty = TRUE])
        BY EmptyKeepsPoint
      <3>7. op \in {"=", "!=", "<", "<=", ">", ">="}
        BY <1>2, <3>1 DEF Operation, ReverseOperation, IsComparison
      <3>8. PointIsKey(Narrow(plan, op, k))
        <4>1. CASE op = "="
          BY <3>5, <3>6, <4>1 DEF Narrow
        <4>2. CASE op = "!="
          BY <4>2 DEF Narrow
        <4>3. CASE op = "<"
          BY <3>2, <3>4, <4>3 DEF Narrow
        <4>4. CASE op = "<="
          BY <3>2, <3>4, <4>4 DEF Narrow
        <4>5. CASE op = ">"
          BY <3>2, <3>4, <3>6, <4>5 DEF Narrow
        <4>6. CASE op = ">="
          BY <3>2, <3>4, <4>6 DEF Narrow
        <4>7. QED BY <3>7, <4>1, <4>2, <4>3, <4>4, <4>5, <4>6
      <3>9. QED BY <3>3, <3>8
    <2>3. QED BY <2>1, <2>2
  <1>3. QED BY <1>1, <1>2

LEMMA PlanPointIsKey ==
    ASSUME NEW where, IsSequence(where),
           \A i \in 1 .. Len(where) :
             where[i].kind = "comparison" => IsComparison(where[i])
    PROVE  PointIsKey(BuildPlan(where))
  <1> DEFINE plans == Plans(where)
             Bad == {i \in 0 .. Len(where) : ~PointIsKey(plans[i])}
  <1>1. Len(where) \in Nat
    BY DEF IsSequence
  <1>2. plans = [i \in 0 .. Len(where) |->
                   IF i = 0 THEN NoBounds ELSE UseConjunct(plans[i - 1], where[i])]
    BY <1>1, PlansRecursion
  <1>3. Bad = {}
    <2>1. SUFFICES ASSUME Bad # {} PROVE FALSE
      OBVIOUS
    <2>2. PICK n \in Bad : \A m \in Bad : n <= m
      <3>1. Bad \subseteq Nat
        OBVIOUS
      <3>2. QED BY <2>1, <3>1, LeastNatural
    <2>3. n # 0
      <3>1. plans[0] = NoBounds
        BY <1>1, <1>2
      <3>2. PointIsKey(NoBounds)
        BY DEF NoBounds, IsPlan, PointIsKey
      <3>3. QED BY <3>1, <3>2
    <2>4. n - 1 \in 0 .. Len(where) /\ n - 1 \notin Bad /\ n \in 1 .. Len(where)
      <3>1. n \in 0 .. Len(where)
        OBVIOUS
      <3>2. n - 1 \in 0 .. Len(where) /\ n \in 1 .. Len(where) /\ ~(n <= n - 1)
        BY <1>1, <2>3, <3>1
      <3>3. QED BY <2>2, <3>2
    <2>5. plans[n] = UseConjunct(plans[n - 1], where[n])
      BY <1>2, <2>3
    <2>6. QED BY <2>4, <2>5, ConjunctKeepsPoint
  <1>4. PICK plan : plan = plans[Len(where)]
    OBVIOUS
  <1>5. PointIsKey(plan)
    BY <1>1, <1>3, <1>4
  <1>6. BuildPlan(where) = plan \/ BuildPlan(where) = [plan EXCEPT !.empty = TRUE]
    BY <1>4 DEF BuildPlan
  <1>7. PointIsKey([plan EXCEPT !.empty = TRUE])
    BY <1>5, EmptyKeepsPoint
  <1>8. QED BY <1>5, <1>6, <1>7

(* A point lookup is not ordered, but it reads one key.                    *)
LEMMA PointReadsOneKey ==
    ASSUME table \in Tables, query \in Queries, NEW plan,
           plan = BuildPlan(query.where), plan.point # {}, NEW filter,
           NEW r \in StoredRows(PlanRange(plan), filter),
           NEW s \in StoredRows(PlanRange(plan), filter)
    PROVE  r.key = s.key
  <1>1. plan.point \subseteq Int
    BY QueriesAssumption, PlanPointIsKey DEF PointIsKey
  <1>2. PICK k \in plan.point : TRUE
    OBVIOUS
  <1>3. PlanRange(plan) = [from |-> plan.point,
                           to |-> {n + 1 : n \in plan.point \ {IntMax}}]
    BY DEF PlanRange
  <1>4. r \in Row /\ s \in Row
    BY StoredFinite, RowsFinite DEF AllRows
  <1>5. /\ r.key \in Int /\ r.key <= IntMax
        /\ s.key \in Int /\ s.key <= IntMax
    BY <1>4, RowTypes
  <1>6. InPlanRange(PlanRange(plan), r) /\ InPlanRange(PlanRange(plan), s)
    BY DEF StoredRows
  <1>7. /\ r.key >= k /\ (k # IntMax => r.key < k + 1)
        /\ s.key >= k /\ (k # IntMax => s.key < k + 1)
    BY <1>3, <1>6 DEF InPlanRange
  <1>8. QED BY <1>1, <1>5, <1>7, PlanAssumption

(* What OpenCursor leaves the loop with.                                   *)
LEMMA CursorOpened ==
    ASSUME table \in Tables, query \in Queries, NEW plan,
           plan = BuildPlan(query.where), ~plan.failed, query.kind = "plain",
           NEW filter, filter = {} \/ filter = Predicates(query.where),
           NEW by_key, by_key = (/\ plan.point = {} /\ query.kind = "plain"
                                 /\ RequiresKeyAsc),
           NEW s \in Listings(StoredRows(PlanRange(plan), filter), by_key)
    PROVE  /\ s \in Seq(AllRows) /\ Distinct(s)
           /\ Matches \subseteq RowsIn(s)
           /\ KeyAscFirst(query) => Ascending(s)
  <1>1. PICK rows : rows = StoredRows(PlanRange(plan), filter)
    OBVIOUS
  <1>2. rows \subseteq AllRows /\ IsFiniteSet(rows)
    BY <1>1, StoredFinite
  <1>3. /\ s \in Seq(rows) /\ Distinct(s) /\ RowsIn(s) = rows
        /\ by_key => Ascending(s)
    BY <1>1, <1>2, ListingsListRows
  <1>4. s \in Seq(AllRows)
    BY <1>2, <1>3
  <1>5. Matches \subseteq rows
    BY <1>1, MatchesStored
  <1>6. ASSUME KeyAscFirst(query)
        PROVE  Ascending(s)
    <2>1. CASE plan.point = {}
      BY <1>3, <1>6, <2>1 DEF KeyAscFirst, RequiresKeyAsc
    <2>2. CASE plan.point # {}
      <3>1. \A i, j \in 1 .. Len(s) :
              s[i].key \in Int /\ s[j].key \in Int /\ s[i].key = s[j].key
        <4> TAKE i, j \in 1 .. Len(s)
        <4>1. s[i] \in rows /\ s[j] \in rows
          BY <1>3
        <4>2. s[i] \in Row /\ s[j] \in Row
          BY <1>2, <4>1, RowsFinite DEF AllRows
        <4>3. QED BY <1>1, <2>2, <4>1, <4>2, PointReadsOneKey, RowTypes
      <3>2. QED BY <3>1 DEF Ascending
    <2>3. QED BY <2>1, <2>2
  <1>7. QED BY <1>3, <1>4, <1>5, <1>6

-----------------------------------------------------------------------------
(* The steps of a plain SELECT.                                            *)

(* LIMIT 0 is only tested after a sort; without one the loop has taken a   *)
(* row by then.                                                            *)
ZeroOnlyAfterSort ==
    \A q \in Queries : q.kind = "plain" /\ 0 \in q.limit => ~Streams(q)

LEMMA SameQuery ==
    ASSUME table' = table, query' = query
    PROVE  /\ Matches' = Matches /\ AllRows' = AllRows
           /\ \A n : LimitOf(n)' = LimitOf(n)
           /\ \A r, s : Less(r, s)' <=> Less(r, s)
           /\ \A answer : AnswerIs(answer)' <=> AnswerIs(answer)
  <1>1. Matches' = Matches /\ AllRows' = AllRows
    BY DEF Matches, AllRows
  <1>2. \A n : LimitOf(n)' = LimitOf(n)
    BY DEF LimitOf
  <1>3. \A r, s : Less(r, s)' <=> Less(r, s)
    BY DEF Less
  <1>4. \A answer : AnswerIs(answer)' <=> AnswerIs(answer)
    BY <1>1, <1>2, <1>3 DEF AnswerIs
  <1>5. QED BY <1>1, <1>2, <1>3, <1>4

(* One row from the cursor.                                                *)
LEMMA OneRowLess ==
    ASSUME NEW S, NEW c \in Seq(S), c # <<>>, Distinct(c)
    PROVE  /\ Head(c) \in S /\ Tail(c) \in Seq(S) /\ Distinct(Tail(c))
           /\ Len(Tail(c)) = Len(c) - 1 /\ Len(c) >= 1 /\ Head(c) = c[1]
           /\ \A j \in 1 .. Len(Tail(c)) :
                j + 1 \in 1 .. Len(c) /\ Tail(c)[j] = c[j + 1]
           /\ RowsIn(c) = RowsIn(Tail(c)) \cup {Head(c)}
           /\ Head(c) \notin RowsIn(Tail(c))
  <1>1. PICK n, rest, row : n = Len(c) /\ rest = Tail(c) /\ row = Head(c)
    OBVIOUS
  <1>2. n \in Nat /\ n >= 1 /\ row = c[1]
    BY <1>1
  <1>3. row \in S /\ rest \in Seq(S) /\ Len(rest) = n - 1
    BY <1>1, HeadTailProperties
  <1>4. \A j \in 1 .. n - 1 : j + 1 \in 1 .. n /\ rest[j] = c[j + 1]
    BY <1>1, <1>2, <1>3, HeadTailProperties
  <1>5. Distinct(rest)
    BY <1>1, <1>2, <1>3, <1>4 DEF Distinct
  <1>6. RowsIn(c) = RowsIn(rest) \cup {row}
    <2>1. RowsIn(rest) \cup {row} \subseteq RowsIn(c)
      BY <1>1, <1>2, <1>3, <1>4 DEF RowsIn
    <2>2. ASSUME NEW i \in 1 .. n
          PROVE  c[i] \in RowsIn(rest) \cup {row}
      <3>1. CASE i = 1
        BY <1>2, <3>1
      <3>2. CASE i # 1
        <4>1. i - 1 \in 1 .. n - 1 /\ (i - 1) + 1 = i
          BY <1>2, <3>2
        <4>2. rest[i - 1] = c[i]
          BY <1>4, <4>1
        <4>3. QED BY <1>3, <4>1, <4>2 DEF RowsIn
      <3>3. QED BY <3>1, <3>2
    <2>3. QED BY <1>1, <2>1, <2>2 DEF RowsIn
  <1>7. row \notin RowsIn(rest)
    <2>1. \A j \in 1 .. n - 1 : rest[j] # row
      BY <1>1, <1>2, <1>4 DEF Distinct
    <2>2. QED BY <1>3, <2>1 DEF RowsIn
  <1>8. QED BY <1>1, <1>2, <1>3, <1>4, <1>5, <1>6, <1>7

LEMMA OneRowMore ==
    ASSUME NEW S, NEW t \in Seq(S), NEW row \in S, Distinct(t), row \notin RowsIn(t)
    PROVE  /\ Append(t, row) \in Seq(S) /\ Distinct(Append(t, row))
           /\ Len(Append(t, row)) = Len(t) + 1
           /\ Append(t, row)[Len(t) + 1] = row
           /\ \A i \in 1 .. Len(t) : Append(t, row)[i] = t[i]
           /\ RowsIn(Append(t, row)) = RowsIn(t) \cup {row}
  <1>1. PICK n, more : n = Len(t) /\ more = Append(t, row)
    OBVIOUS
  <1>2. /\ n \in Nat /\ more \in Seq(S) /\ Len(more) = n + 1
        /\ more[n + 1] = row /\ \A i \in 1 .. n : more[i] = t[i]
    BY <1>1, AppendProperties
  <1>3. \A i \in 1 .. n : t[i] # row
    BY <1>1 DEF RowsIn
  <1>4. \A i \in 1 .. n + 1 : i \in 1 .. n \/ i = n + 1
    BY <1>2
  <1>5. Distinct(more)
    BY <1>1, <1>2, <1>3, <1>4 DEF Distinct
  <1>6. RowsIn(more) = RowsIn(t) \cup {row}
    <2>1. n + 1 \in 1 .. n + 1 /\ \A i \in 1 .. n : i \in 1 .. n + 1
      BY <1>2
    <2>2. QED BY <1>1, <1>2, <1>4, <2>1 DEF RowsIn
  <1>7. QED BY <1>1, <1>2, <1>5, <1>6

LEMMA OneRowInOrder ==
    ASSUME NEW S, NEW c \in Seq(S), c # <<>>, Distinct(c), NEW t \in Seq(S),
           Distinct(t), Head(c) \notin RowsIn(t), Ascending(c), Ascending(t),
           \A i \in 1 .. Len(t), j \in 1 .. Len(c) : t[i].key <= c[j].key
    PROVE  /\ Ascending(Tail(c)) /\ Ascending(Append(t, Head(c)))
           /\ \A i \in 1 .. Len(Append(t, Head(c))), j \in 1 .. Len(Tail(c)) :
                Append(t, Head(c))[i].key <= Tail(c)[j].key
           /\ \A i \in 1 .. Len(t), j \in 1 .. Len(Tail(c)) :
                t[i].key <= Tail(c)[j].key
  <1>1. PICK n, m, rest, row, more :
          /\ n = Len(c) /\ m = Len(t) /\ rest = Tail(c) /\ row = Head(c)
          /\ more = Append(t, row)
    OBVIOUS
  <1>2. n \in Nat /\ m \in Nat
    BY <1>1
  <1>3. /\ Len(rest) = n - 1 /\ n >= 1 /\ row = c[1] /\ row \in S
        /\ \A j \in 1 .. n - 1 : j + 1 \in 1 .. n /\ rest[j] = c[j + 1]
    BY <1>1, OneRowLess
  <1>4. /\ Len(more) = m + 1 /\ more[m + 1] = row
        /\ \A i \in 1 .. m : more[i] = t[i]
    BY <1>1, <1>3, OneRowMore
  <1>5. Ascending(rest)
    BY <1>1, <1>2, <1>3 DEF Ascending
  <1>6. \A i \in 1 .. m : t[i].key <= row.key
    BY <1>1, <1>2, <1>3
  <1>7. \A i \in 1 .. m + 1 : i \in 1 .. m \/ i = m + 1
    BY <1>2
  <1>8. Ascending(more)
    <2> SUFFICES ASSUME NEW i \in 1 .. m + 1, NEW j \in 1 .. m + 1, i < j
                 PROVE  more[i].key <= more[j].key
      BY <1>4 DEF Ascending
    <2>1. i \in 1 .. m
      BY <1>2
    <2>2. CASE j \in 1 .. m
      BY <1>1, <1>4, <2>1, <2>2 DEF Ascending
    <2>3. CASE j = m + 1
      BY <1>4, <1>6, <2>1, <2>3
    <2>4. QED BY <1>7, <2>2, <2>3
  <1>9. \A j \in 1 .. n - 1 : row.key <= rest[j].key
    BY <1>1, <1>2, <1>3 DEF Ascending
  <1>10. \A i \in 1 .. m, j \in 1 .. n - 1 : t[i].key <= rest[j].key
    BY <1>1, <1>3
  <1>11. \A i \in 1 .. m + 1, j \in 1 .. n - 1 : more[i].key <= rest[j].key
    BY <1>4, <1>7, <1>9, <1>10
  <1>12. QED BY <1>1, <1>3, <1>4, <1>5, <1>8, <1>10, <1>11

(* The loop stopped by LIMIT.                                              *)
LEMMA LimitReached ==
    ASSUME table \in Tables, query \in Queries, NEW answer \in Seq(AllRows),
           Distinct(answer), RowsIn(answer) \subseteq Matches,
           Streams(query), Len(answer) \in query.limit,
           KeyAscFirst(query) =>
             /\ Ascending(answer)
             /\ \A r \in RowsIn(answer), s \in Matches \ RowsIn(answer) :
                  r.key <= s.key
    PROVE  AnswerIs(answer)
  <1>1. PICK n : n = Cardinality(Matches)
    OBVIOUS
  <1>2. n \in Nat /\ IsFiniteSet(Matches)
    BY <1>1, MatchesFinite
  <1>3. Len(answer) = Cardinality(RowsIn(answer)) /\ Len(answer) \in Nat
    BY ListedRows
  <1>4. Cardinality(RowsIn(answer)) <= n
    BY <1>1, <1>2, FS_Subset
  <1>5. LimitOf(n) = Len(answer)
    BY <1>2, <1>3, <1>4, LimitIs
  <1>6. QED BY <1>1, <1>5 DEF AnswerIs

(* The loop that came to the end of the cursor.                            *)
LEMMA ScanEnded ==
    ASSUME table \in Tables, query \in Queries, LoopInv, phase = "finish"
    PROVE  /\ RowsIn(Taken) = Matches /\ Len(Taken) = Cardinality(Matches)
           /\ Taken \in Seq(AllRows) /\ Distinct(Taken)
  <1>1. cursor = <<>>
    BY DEF LoopInv
  <1>2. RowsIn(cursor) = {}
    BY <1>1 DEF RowsIn
  <1>3. RowsIn(Taken) = Matches /\ Taken \in Seq(AllRows) /\ Distinct(Taken)
    BY <1>2 DEF LoopInv
  <1>4. QED BY <1>3, ListedRows

LEMMA StreamedAnswer ==
    ASSUME table \in Tables, query \in Queries, LoopInv, phase = "finish",
           Streams(query)
    PROVE  AnswerIs(result)
  <1>1. /\ RowsIn(result) = Matches /\ Len(result) = Cardinality(Matches)
        /\ result \in Seq(AllRows) /\ Distinct(result)
    BY ScanEnded DEF Taken
  <1>2. \A m \in query.limit : Len(result) < m
    BY DEF LoopInv
  <1>3. Len(result) \in Nat
    BY <1>1
  <1>4. LimitOf(Len(result)) = Len(result)
    <2>1. CASE query.limit = {}
      BY <1>3, <2>1, LimitIs
    <2>2. CASE query.limit # {}
      <3>1. PICK m \in query.limit : TRUE
        BY <2>2
      <3>2. m \in Nat /\ Len(result) < m
            /\ LimitOf(Len(result)) = IF m <= Len(result) THEN m ELSE Len(result)
        BY <1>2, <1>3, <3>1, LimitIs
      <3>3. QED BY <1>3, <3>2
    <2>3. QED BY <2>1, <2>2
  <1>5. KeyAscFirst(query) => Ascending(result)
    BY DEF LoopInv
  <1>6. QED BY <1>1, <1>4, <1>5 DEF AnswerIs

LEMMA SortedAnswer ==
    ASSUME table \in Tables, query \in Queries, LoopInv, phase = "finish",
           ~Streams(query), NEW out \in Orders(pending)
    PROVE  AnswerIs(Limited(out))
  <1>1. /\ RowsIn(pending) = Matches /\ Len(pending) = Cardinality(Matches)
        /\ pending \in Seq(AllRows) /\ Distinct(pending)
    BY ScanEnded DEF Taken
  <1>2. /\ out \in Seq(AllRows) /\ Len(out) = Cardinality(Matches)
        /\ Distinct(out) /\ RowsIn(out) = Matches
        /\ \A i, j \in 1 .. Len(out) : i < j => ~Less(out[j], out[i])
    BY <1>1, OrdersKeepRows
  <1>3. PICK n, m, answer :
          n = Len(out) /\ m = LimitOf(n) /\ answer = Limited(out)
    OBVIOUS
  <1>4. n \in Nat /\ m \in Nat /\ m <= n
    BY <1>2, <1>3, LimitIs
  <1>5. /\ answer \in Seq(AllRows) /\ Len(answer) = m
        /\ \A i \in 1 .. m : i \in 1 .. n /\ answer[i] = out[i]
    BY <1>2, <1>3, <1>4, LimitedRows
  <1>6. Distinct(answer)
    BY <1>2, <1>3, <1>5 DEF Distinct
  <1>7. RowsIn(answer) \subseteq Matches
    BY <1>2, <1>3, <1>5 DEF RowsIn
  <1>8. \A i, j \in 1 .. m : i < j => ~Less(answer[j], answer[i])
    BY <1>2, <1>3, <1>5
  <1>9. ASSUME NEW r \in RowsIn(answer), NEW s \in Matches \ RowsIn(answer)
        PROVE  ~Less(s, r)
    <2>1. PICK i \in 1 .. m : r = answer[i]
      BY <1>5 DEF RowsIn
    <2>2. PICK j \in 1 .. n : s = out[j]
      BY <1>2, <1>3 DEF RowsIn
    <2>3. j \notin 1 .. m
      BY <1>5, <2>2 DEF RowsIn
    <2>4. i \in 1 .. n /\ i < j /\ r = out[i]
      BY <1>4, <1>5, <2>1, <2>3
    <2>5. QED BY <1>2, <1>3, <2>2, <2>4
  <1>10. ~KeyAscFirst(query)
    BY DEF Streams
  <1>11. QED BY <1>2, <1>3, <1>5, <1>6, <1>7, <1>8, <1>9, <1>10 DEF AnswerIs

LEMMA PlainInit == Init => PlainInv
  BY DEF Init, PlainInv

LEMMA PlainOpen ==
    ASSUME PlainInv, ZeroOnlyAfterSort, OpenCursor
    PROVE  PlainInv'
  <1>1. /\ table \in Tables /\ query \in Queries /\ phase = "start"
        /\ pending = <<>> /\ result = <<>>
    BY DEF PlainInv, OpenCursor
  <1>2. /\ table' = table /\ query' = query /\ pending' = <<>> /\ result' = <<>>
    BY <1>1 DEF OpenCursor
  <1>3. PICK plan, filter, ordered :
          /\ plan = BuildPlan(query.where)
          /\ filter = IF plan.point = {} THEN Predicates(query.where) ELSE {}
          /\ ordered = (plan.point = {} /\ query.kind = "plain" /\ RequiresKeyAsc)
    OBVIOUS
  <1>4. \/ plan.failed /\ phase' = "failed"
        \/ /\ ~plan.failed /\ plan.empty
           /\ phase' = IF query.kind = "plain" THEN "done" ELSE "finish"
        \/ /\ ~plan.failed /\ phase' = "scan"
           /\ cursor' \in Listings(StoredRows(PlanRange(plan), filter), ordered)
    BY <1>3 DEF OpenCursor
  <1>5. PlainInv' <=>
          (query.kind = "plain" =>
             /\ phase' \in {"scan", "finish"} => LoopInv'
             /\ phase' = "done" => AnswerIs(<<>>))
    BY <1>1, <1>2, <1>4, SameQuery DEF PlainInv
  <1>6. CASE query.kind # "plain"
    BY <1>5, <1>6
  <1>7. CASE query.kind = "plain"
    <2>1. CASE plan.failed /\ phase' = "failed"
      BY <1>5, <2>1
    <2>2. CASE ~plan.failed /\ plan.empty /\ phase' = "done"
      <3>1. Matches = {}
        BY <1>1, <1>3, <2>2, MatchesStored
      <3>2. Cardinality(Matches) = 0 /\ 0 \in Nat
        BY <3>1, FS_EmptySet
      <3>3. LimitOf(0) = 0
        BY <1>1, LimitIs
      <3>4. RowsIn(<<>>) = {} /\ Len(<<>>) = 0
        BY DEF RowsIn
      <3>5. Distinct(<<>>) /\ Ascending(<<>>)
        BY <3>4 DEF Distinct, Ascending
      <3>6. <<>> \in Seq(AllRows)
        OBVIOUS
      <3>7. AnswerIs(<<>>)
        BY <3>1, <3>2, <3>3, <3>4, <3>5, <3>6 DEF AnswerIs
      <3>8. QED BY <1>5, <2>2, <3>7
    <2>3. CASE /\ ~plan.failed /\ phase' = "scan"
               /\ cursor' \in Listings(StoredRows(PlanRange(plan), filter), ordered)
      <3>1. /\ cursor' \in Seq(AllRows) /\ Distinct(cursor')
            /\ Matches \subseteq RowsIn(cursor')
            /\ KeyAscFirst(query) => Ascending(cursor')
        BY <1>1, <1>3, <1>7, <2>3, CursorOpened
      <3>2. Taken' = <<>>
        BY <1>2 DEF Taken
      <3>3. RowsIn(<<>>) = {} /\ Len(<<>>) = 0
        BY DEF RowsIn
      <3>4. Distinct(<<>>) /\ Ascending(<<>>) /\ <<>> \in Seq(AllRows)
        BY <3>3 DEF Distinct, Ascending
      <3>5. Streams(query) => \A n \in query.limit : 0 < n
        <4> SUFFICES ASSUME Streams(query), NEW n \in query.limit PROVE 0 < n
          OBVIOUS
        <4>1. n \in Nat /\ n # 0
          BY <1>1, <1>7, QueriesAssumption DEF ZeroOnlyAfterSort
        <4>2. QED BY <4>1
      <3>6. LoopInv'
        BY <1>1, <1>2, <2>3, <3>1, <3>2, <3>3, <3>4, <3>5, SameQuery DEF LoopInv
      <3>7. QED BY <1>5, <2>3, <3>6
    <2>4. QED BY <1>4, <1>7, <2>1, <2>2, <2>3
  <1>8. QED BY <1>6, <1>7

(* A row that WHERE rejects is passed over, a match is taken.              *)
LEMMA PlainNextRow ==
    ASSUME PlainInv, NextRow, query.kind = "plain"
    PROVE  PlainInv'
  <1>1. /\ table \in Tables /\ query \in Queries /\ phase = "scan" /\ LoopInv
        /\ cursor # <<>> /\ cursor' = Tail(cursor)
        /\ table' = table /\ query' = query
    BY DEF PlainInv, NextRow
  <1>2. PICK row : row = Head(cursor)
    OBVIOUS
  <1>3. /\ cursor \in Seq(AllRows) /\ Distinct(cursor)
        /\ Taken \in Seq(AllRows) /\ Distinct(Taken)
        /\ RowsIn(cursor) \cap RowsIn(Taken) = {}
        /\ RowsIn(Taken) \subseteq Matches
        /\ Matches \subseteq RowsIn(Taken) \cup RowsIn(cursor)
    BY <1>1 DEF LoopInv
  <1>4. /\ row \in AllRows /\ cursor' \in Seq(AllRows) /\ Distinct(cursor')
        /\ RowsIn(cursor) = RowsIn(cursor') \cup {row}
        /\ row \notin RowsIn(cursor') /\ row \notin RowsIn(Taken)
    BY <1>1, <1>2, <1>3, OneRowLess
  <1>5. KeyAscFirst(query) =>
          /\ Ascending(cursor') /\ Ascending(Append(result, row))
          /\ \A i \in 1 .. Len(Append(result, row)), j \in 1 .. Len(cursor') :
               Append(result, row)[i].key <= cursor'[j].key
          /\ \A i \in 1 .. Len(result), j \in 1 .. Len(cursor') :
               result[i].key <= cursor'[j].key
    <2> SUFFICES ASSUME KeyAscFirst(query)
                 PROVE  /\ Ascending(cursor') /\ Ascending(Append(result, row))
                        /\ \A i \in 1 .. Len(Append(result, row)),
                              j \in 1 .. Len(cursor') :
                             Append(result, row)[i].key <= cursor'[j].key
                        /\ \A i \in 1 .. Len(result), j \in 1 .. Len(cursor') :
                             result[i].key <= cursor'[j].key
      OBVIOUS
    <2>1. Taken = result
      BY DEF Taken, Streams
    <2>2. /\ Ascending(result) /\ Ascending(cursor)
          /\ \A i \in 1 .. Len(result), j \in 1 .. Len(cursor) :
               result[i].key <= cursor[j].key
      BY <1>1 DEF LoopInv
    <2>3. QED BY <1>1, <1>2, <1>3, <1>4, <2>1, <2>2, OneRowInOrder
  <1>6. PlainInv' <=>
          /\ phase' \in {"scan", "done"}
          /\ phase' = "scan" => LoopInv'
          /\ phase' = "done" => AnswerIs(result)'
    <2>1. phase' \in {"scan", "done"}
      BY <1>1 DEF NextRow, TakePlain
    <2>2. QED BY <1>1, <2>1 DEF PlainInv
  <1>7. row \in Matches <=> EvaluatePredicate(query.where, row, table.val_type)
    BY <1>4 DEF Matches
  <1>8. CASE row \notin Matches
    <2>1. phase' = phase /\ pending' = pending /\ result' = result
      BY <1>2, <1>7, <1>8 DEF NextRow
    <2>2. Taken' = Taken
      BY <1>1, <2>1 DEF Taken
    <2>3. Matches \subseteq RowsIn(Taken) \cup RowsIn(cursor')
      BY <1>3, <1>4, <1>8
    <2>4. RowsIn(cursor') \cap RowsIn(Taken) = {}
      BY <1>3, <1>4
    <2>5. Streams(query) => \A n \in query.limit : Len(result) < n
      BY <1>1 DEF LoopInv
    <2>6. KeyAscFirst(query) => Ascending(result)
      BY <1>1 DEF LoopInv
    <2>7. LoopInv'
      BY <1>1, <1>3, <1>4, <1>5, <2>1, <2>2, <2>3, <2>4, <2>5, <2>6,
         SameQuery DEF LoopInv
    <2>8. QED BY <1>1, <1>6, <2>1, <2>7
  <1>9. CASE row \in Matches
    <2>1. TakePlain(row)
      BY <1>2, <1>7, <1>9 DEF NextRow
    <2>2. PICK more : more = Append(Taken, row)
      OBVIOUS
    <2>3. /\ more \in Seq(AllRows) /\ Distinct(more)
          /\ Len(more) = Len(Taken) + 1 /\ RowsIn(more) = RowsIn(Taken) \cup {row}
      BY <1>3, <1>4, <2>2, OneRowMore
    <2>4. /\ RowsIn(cursor') \cap RowsIn(more) = {}
          /\ RowsIn(more) \subseteq Matches
          /\ Matches \subseteq RowsIn(more) \cup RowsIn(cursor')
      BY <1>3, <1>4, <1>9, <2>3
    <2>5. CASE Streams(query)
      <3>1. /\ Taken = result /\ result' = more /\ Taken' = more
            /\ phase' = IF query.limit # {} /\ Len(more) >= Max(query.limit)
                          THEN "done" ELSE "scan"
        BY <1>1, <2>1, <2>2, <2>5
           DEF TakePlain, Taken, Streams, KeyAscFirst, RequiresKeyAsc
      <3>2. /\ KeyAscFirst(query) =>
                 /\ Ascending(more)
                 /\ \A i \in 1 .. Len(more), j \in 1 .. Len(cursor') :
                      more[i].key <= cursor'[j].key
        BY <1>5, <2>2, <3>1
      <3>3. Len(more) \in Nat /\ Len(result) \in Nat
        BY <1>3, <2>3, <3>1
      <3>4. \A n \in query.limit :
              n \in Nat /\ query.limit = {n} /\ Max(query.limit) = n
        BY <1>1, <3>3, LimitIs
      <3>5. CASE phase' = "scan"
        <4>1. \A n \in query.limit : Len(more) < n
          BY <3>1, <3>3, <3>4, <3>5
        <4>2. LoopInv'
          BY <1>1, <1>4, <1>5, <2>3, <2>4, <3>1, <3>2, <3>5, <4>1, SameQuery
             DEF LoopInv
        <4>3. QED BY <1>6, <3>5, <4>2
      <3>6. CASE phase' = "done"
        <4>1. PICK n \in query.limit : Len(more) >= n
          BY <3>1, <3>4, <3>6
        <4>2. Len(result) < n
          BY <1>1, <2>5 DEF LoopInv
        <4>3. Len(more) \in query.limit
          BY <2>3, <3>1, <3>3, <3>4, <4>1, <4>2
        <4>4. ASSUME KeyAscFirst(query), NEW r \in RowsIn(more),
                     NEW s \in Matches \ RowsIn(more)
              PROVE  r.key <= s.key
          <5>1. PICK i \in 1 .. Len(more) : r = more[i]
            BY DEF RowsIn
          <5>2. s \in RowsIn(cursor')
            BY <2>4
          <5>3. PICK j \in 1 .. Len(cursor') : s = cursor'[j]
            BY <5>2 DEF RowsIn
          <5>4. QED BY <3>2, <4>4, <5>1, <5>3
        <4>5. AnswerIs(more)
          BY <1>1, <2>3, <2>4, <2>5, <3>2, <4>3, <4>4, LimitReached
        <4>6. AnswerIs(result)'
          BY <1>1, <3>1, <4>5, SameQuery DEF AnswerIs
        <4>7. QED BY <1>6, <3>6, <4>6
      <3>7. QED BY <3>1, <3>5, <3>6
    <2>6. CASE ~Streams(query)
      <3>1. /\ Taken = pending /\ pending' = more /\ Taken' = more
            /\ phase' = "scan" /\ result' = result
        BY <1>1, <2>1, <2>2, <2>6
           DEF TakePlain, Taken, Streams, KeyAscFirst, RequiresKeyAsc
      <3>2. ~KeyAscFirst(query)
        BY <2>6 DEF Streams
      <3>3. LoopInv'
        BY <1>1, <1>4, <2>3, <2>4, <2>6, <3>1, <3>2, SameQuery DEF LoopInv
      <3>4. QED BY <1>6, <3>1, <3>3
    <2>7. QED BY <2>5, <2>6
  <1>10. QED BY <1>8, <1>9

LEMMA PlainEndScan ==
    ASSUME PlainInv, EndScan
    PROVE  PlainInv'
  <1>1. /\ table \in Tables /\ query \in Queries /\ phase = "scan"
        /\ phase' = "finish" /\ cursor = <<>>
        /\ table' = table /\ query' = query /\ cursor' = cursor
        /\ pending' = pending /\ result' = result
        /\ query.kind = "plain" => LoopInv
    BY DEF PlainInv, EndScan
  <1>2. LoopInv => LoopInv'
    <2>1. Taken' = Taken
      BY <1>1 DEF Taken
    <2>2. QED BY <1>1, <2>1, SameQuery DEF LoopInv
  <1>3. QED BY <1>1, <1>2 DEF PlainInv

LEMMA PlainFinish ==
    ASSUME PlainInv, FinishPlain
    PROVE  PlainInv'
  <1>1. /\ table \in Tables /\ query \in Queries /\ phase = "finish" /\ LoopInv
        /\ query.kind = "plain" /\ phase' = "done"
        /\ table' = table /\ query' = query
    BY DEF PlainInv, FinishPlain
  <1>2. AnswerIs(result')
    <2>1. CASE Streams(query)
      <3>1. result' = result
        BY <2>1 DEF FinishPlain, Streams, KeyAscFirst, RequiresKeyAsc
      <3>2. QED BY <1>1, <2>1, <3>1, StreamedAnswer
    <2>2. CASE ~Streams(query)
      <3>1. \E out \in Orders(pending) : result' = Limited(out)
        BY <2>2 DEF FinishPlain, Streams, KeyAscFirst, RequiresKeyAsc
      <3>2. QED BY <1>1, <2>2, <3>1, SortedAnswer
    <2>3. QED BY <2>1, <2>2
  <1>3. AnswerIs(result)'
    BY <1>1, <1>2, SameQuery DEF AnswerIs
  <1>4. QED BY <1>1, <1>3 DEF PlainInv

LEMMA PlainNext ==
    ASSUME PlainInv, ZeroOnlyAfterSort, [Next]_vars
    PROVE  PlainInv'
  <1>1. CASE OpenCursor
    BY <1>1, PlainOpen
  <1>2. CASE NextRow
    <2>1. CASE query.kind = "plain"
      BY <1>2, <2>1, PlainNextRow
    <2>2. CASE query.kind # "plain"
      <3>1. /\ table' = table /\ query' = query /\ phase = "scan"
            /\ phase' = phase
        BY <1>2, <2>2 DEF NextRow, TakeAggregate
      <3>2. QED BY <2>2, <3>1 DEF PlainInv
    <2>3. QED BY <2>1, <2>2
  <1>3. CASE EndScan
    BY <1>3, PlainEndScan
  <1>4. CASE FinishPlain
    BY <1>4, PlainFinish
  <1>5. CASE FinishGlobal
    BY <1>5 DEF FinishGlobal, PlainInv
  <1>6. CASE FinishGrouped
    BY <1>6 DEF FinishGrouped, PlainInv
  <1>7. CASE UNCHANGED vars
    <2>1. /\ table' = table /\ query' = query /\ phase' = phase
          /\ cursor' = cursor /\ pending' = pending /\ result' = result
      BY <1>7 DEF vars
    <2>2. LoopInv => LoopInv'
      <3>1. Taken' = Taken
        BY <2>1 DEF Taken
      <3>2. QED BY <2>1, <3>1, SameQuery DEF LoopInv
    <2>3. AnswerIs(result) => AnswerIs(result)'
      BY <2>1, SameQuery DEF AnswerIs
    <2>4. QED BY <2>1, <2>2, <2>3 DEF PlainInv
  <1>8. QED BY <1>1, <1>2, <1>3, <1>4, <1>5, <1>6, <1>7 DEF Next

(* The invariant of a plain SELECT (ExecutePlainSelect): what was taken    *)
(* and what the cursor has still to bring contain every match, each once,  *)
(* and the order that the storage gives is kept.                           *)
THEOREM PlainInvariant ==
    ASSUME ZeroOnlyAfterSort
    PROVE  Spec => []PlainInv
  <1>1. PlainInv /\ [Next]_vars => PlainInv'
    BY PlainNext
  <1>2. QED BY <1>1, PlainInit, PTL DEF Spec

-----------------------------------------------------------------------------
(* What the invariant says of the answer.                                  *)

LEMMA AnswerExact ==
    ASSUME PlainInv
    PROVE  PlainExact
  <1> SUFFICES ASSUME Finished("plain")
               PROVE  /\ ResultRows \subseteq Matches
                      /\ Cardinality(ResultRows) = Len(result)
                      /\ Len(result) = LimitOf(Cardinality(Matches))
    BY DEF PlainExact
  <1>1. AnswerIs(result)
    BY DEF PlainInv, Finished
  <1>2. ResultRows = RowsIn(result)
    BY <1>1 DEF AnswerIs, ResultRows, RowsIn
  <1>3. QED BY <1>1, <1>2, ListedRows DEF AnswerIs

(* ... and so, for every table and every query with WHERE, ORDER BY and    *)
(* LIMIT, a plain SELECT returns exactly rows that satisfy WHERE, all of   *)
(* them or as many as LIMIT allows, whatever the plan leaves unread.       *)
THEOREM PlainIsExact ==
    ASSUME ZeroOnlyAfterSort
    PROVE  Spec => []PlainExact
  BY PlainInvariant, AnswerExact, PTL

(* The values that are compared.                                           *)
LEMMA KeyTypes ==
    ASSUME query \in Queries, table \in Tables, NEW r \in AllRows,
           NEW i \in DOMAIN query.order
    PROVE  /\ Key(r, i) \subseteq Int
           /\ Key(r, i) = {} \/ \E n \in Key(r, i) : Key(r, i) = {n}
           /\ query.order[i].direction \in {"Asc", "Desc"}
           /\ \A j \in 1 .. i - 1 : j \in DOMAIN query.order
           /\ i >= 1 /\ i \in Int
  <1>1. r \in Row
    BY RowsFinite DEF AllRows
  <1>2. /\ IsSequence(query.order)
        /\ \A j \in 1 .. Len(query.order) :
             /\ query.order[j].column \in {"key", "val"}
             /\ query.order[j].direction \in {"Asc", "Desc"}
    BY QueriesAssumption
  <1>3. DOMAIN query.order = 1 .. Len(query.order) /\ Len(query.order) \in Nat
    BY <1>2 DEF IsSequence
  <1>4. /\ query.order[i].column \in {"key", "val"}
        /\ query.order[i].direction \in {"Asc", "Desc"}
    BY <1>2, <1>3
  <1>5. /\ Key(r, i) \subseteq Int
        /\ Key(r, i) = {} \/ \E n \in Key(r, i) : Key(r, i) = {n}
    <2>1. Key(r, i) = {r.key} \/ Key(r, i) = r.val
      BY DEF Key, ColumnValue
    <2>2. QED BY <1>1, <2>1, RowTypes
  <1>6. QED BY <1>3, <1>4, <1>5

LEMMA CompareOfKeys ==
    ASSUME NEW a, a \subseteq Int, a = {} \/ \E n \in a : a = {n},
           NEW b, b \subseteq Int, b = {} \/ \E n \in b : b = {n}
    PROVE  /\ a = b => CompareNullable(a, b) = 0
           /\ a # b => LET up == b = {} \/ \E m \in a, n \in b : m < n
                       IN  IF up THEN CompareNullable(a, b) < 0
                           ELSE CompareNullable(a, b) > 0
  <1>1. CASE a = {} \/ b = {}
    <2>1. CompareNullable(a, b) =
            IF a = {} /\ b = {} THEN 0 ELSE IF a = {} THEN 1 ELSE -1
      BY <1>1 DEF CompareNullable
    <2>2. PICK n : n = CompareNullable(a, b)
      OBVIOUS
    <2>3. /\ a = b => n = 0
          /\ a = {} /\ b # {} => n = 1
          /\ a # {} /\ b = {} => n = -1
      BY <1>1, <2>1, <2>2
    <2>4. CASE b = {}
      BY <2>2, <2>3, <2>4
    <2>5. CASE a = {} /\ b # {}
      <3>1. ~ (b = {} \/ \E m \in a, k \in b : m < k)
        BY <2>5
      <3>2. n > 0
        BY <2>3, <2>5
      <3>3. QED BY <2>2, <2>5, <3>1, <3>2
    <2>6. QED BY <1>1, <2>4, <2>5
  <1>2. CASE a # {} /\ b # {}
    <2>1. PICK m \in Int, n \in Int : a = {m} /\ b = {n}
      BY <1>2
    <2>2. (CHOOSE v \in a : TRUE) = m /\ (CHOOSE v \in b : TRUE) = n
      BY <2>1
    <2>3. CompareNullable(a, b) = IF m < n THEN -1 ELSE IF m > n THEN 1 ELSE 0
      BY <1>2, <2>2 DEF CompareNullable
    <2>4. QED BY <2>1, <2>3
  <1>3. QED BY <1>1, <1>2

(* The comparator of the sort puts first what must precede.                *)
LEMMA PrecedesIsLess ==
    ASSUME query \in Queries, table \in Tables,
           NEW r \in AllRows, NEW s \in AllRows, MustPrecede(r, s)
    PROVE  Less(r, s)
  <1>1. PICK i \in DOMAIN query.order :
          /\ \A j \in 1 .. i - 1 : Key(r, j) = Key(s, j)
          /\ Key(r, i) # Key(s, i)
          /\ LET up == \/ Key(s, i) = {}
                       \/ \E a \in Key(r, i), b \in Key(s, i) : a < b
             IN  up <=> query.order[i].direction = "Asc"
    BY DEF MustPrecede
  <1>2. \A j \in 1 .. i - 1 : j \in DOMAIN query.order
    BY KeyTypes
  <1>3. \A j \in 1 .. i - 1 : CompareNullable(Key(r, j), Key(s, j)) = 0
    BY <1>1, <1>2, KeyTypes, CompareOfKeys
  <1>4. PICK n : n = CompareNullable(Key(r, i), Key(s, i))
    OBVIOUS
  <1>5. IF query.order[i].direction = "Asc" THEN n < 0 ELSE n > 0
    BY <1>1, <1>4, KeyTypes, CompareOfKeys
  <1>6. QED BY <1>3, <1>4, <1>5 DEF Less, Key

(* An ORDER BY that begins with the key, ascending, is left to the         *)
(* storage, which knows no other item: it decides if no key is twice.      *)
KeyDecides ==
    \A q \in Queries : q.kind = "plain" /\ KeyAscFirst(q) =>
      \/ Len(q.order) = 1
      \/ \A t \in Tables : \A r, s \in RowsOf(t) : r.key = s.key => r = s

LEMMA PrecedesIsBelow ==
    ASSUME query \in Queries, query.kind = "plain", KeyAscFirst(query),
           table \in Tables, KeyDecides,
           NEW r \in AllRows, NEW s \in AllRows, MustPrecede(r, s)
    PROVE  ~(s.key <= r.key)
  <1>1. PICK i \in DOMAIN query.order :
          /\ \A j \in 1 .. i - 1 : Key(r, j) = Key(s, j)
          /\ Key(r, i) # Key(s, i)
          /\ LET up == \/ Key(s, i) = {}
                       \/ \E a \in Key(r, i), b \in Key(s, i) : a < b
             IN  up <=> query.order[i].direction = "Asc"
    BY DEF MustPrecede
  <1>2. Key(r, 1) = {r.key} /\ Key(s, 1) = {s.key}
    BY DEF Key, ColumnValue, KeyAscFirst
  <1>3. r.key \in Int /\ s.key \in Int
    BY RowsFinite, RowTypes DEF AllRows
  <1>4. i \in Int /\ i >= 1
    BY KeyTypes
  <1>5. CASE i = 1
    <2>1. query.order[i].direction = "Asc"
      BY <1>5 DEF KeyAscFirst
    <2>2. r.key < s.key
      BY <1>1, <1>2, <1>5, <2>1
    <2>3. QED BY <1>3, <2>2
  <1>6. CASE i # 1
    <2>1. 1 \in 1 .. i - 1
      BY <1>4, <1>6
    <2>2. r.key = s.key
      BY <1>1, <1>2, <2>1
    <2>3. Len(query.order) # 1
      <3>1. PICK n : n = Len(query.order)
        OBVIOUS
      <3>2. n \in Nat /\ i \in 1 .. n
        BY <1>1, <3>1, QueriesAssumption DEF IsSequence
      <3>3. n # 1
        BY <1>4, <1>6, <3>2
      <3>4. QED BY <3>1, <3>3
    <2>4. r = s
      BY <2>2, <2>3 DEF KeyDecides, AllRows
    <2>5. QED BY <1>1, <2>4
  <1>7. QED BY <1>5, <1>6

LEMMA AnswerOrdered ==
    ASSUME PlainInv, KeyDecides
    PROVE  PlainOrdered
  <1> SUFFICES ASSUME Finished("plain")
               PROVE  /\ \A i, j \in DOMAIN result :
                           i < j => ~MustPrecede(result[j], result[i])
                      /\ \A r \in ResultRows, s \in Matches \ ResultRows :
                           ~MustPrecede(s, r)
    BY DEF PlainOrdered
  <1>1. /\ table \in Tables /\ query \in Queries /\ query.kind = "plain"
        /\ AnswerIs(result)
    BY DEF PlainInv, Finished
  <1>2. /\ result \in Seq(AllRows) /\ DOMAIN result = 1 .. Len(result)
        /\ ResultRows = RowsIn(result) /\ RowsIn(result) \subseteq Matches
        /\ Matches \subseteq AllRows
    BY <1>1 DEF AnswerIs, ResultRows, RowsIn, Matches
  <1>3. \A i \in 1 .. Len(result) : result[i] \in AllRows
    BY <1>2
  <1>4. CASE query.order = <<>>
    <2>1. \A r, s : ~MustPrecede(r, s)
      BY <1>4 DEF MustPrecede
    <2>2. QED BY <2>1
  <1>5. CASE KeyAscFirst(query)
    <2>1. /\ Ascending(result)
          /\ \A r \in RowsIn(result), s \in Matches \ RowsIn(result) :
               r.key <= s.key
      BY <1>1, <1>5 DEF AnswerIs
    <2>2. ASSUME NEW i \in 1 .. Len(result), NEW j \in 1 .. Len(result), i < j
          PROVE  ~MustPrecede(result[j], result[i])
      BY <1>1, <1>3, <1>5, <2>1, <2>2, PrecedesIsBelow DEF Ascending
    <2>3. ASSUME NEW r \in ResultRows, NEW s \in Matches \ ResultRows
          PROVE  ~MustPrecede(s, r)
      BY <1>1, <1>2, <1>5, <2>1, PrecedesIsBelow
    <2>4. QED BY <1>2, <2>2, <2>3
  <1>6. CASE ~Streams(query)
    <2>1. /\ \A i, j \in 1 .. Len(result) : i < j => ~Less(result[j], result[i])
          /\ \A r \in RowsIn(result), s \in Matches \ RowsIn(result) : ~Less(s, r)
      BY <1>1, <1>6 DEF AnswerIs
    <2>2. ASSUME NEW i \in 1 .. Len(result), NEW j \in 1 .. Len(result), i < j
          PROVE  ~MustPrecede(result[j], result[i])
      BY <1>1, <1>3, <2>1, <2>2, PrecedesIsLess
    <2>3. ASSUME NEW r \in ResultRows, NEW s \in Matches \ ResultRows
          PROVE  ~MustPrecede(s, r)
      BY <1>1, <1>2, <2>1, PrecedesIsLess
    <2>4. QED BY <1>2, <2>2, <2>3
  <1>7. QED BY <1>4, <1>5, <1>6 DEF Streams

(* The rows of a plain SELECT come in the order of ORDER BY, and LIMIT     *)
(* keeps the first of them, whether the executor sorts or leaves the order *)
(* to the storage and stops early (IsRuquiredKeyAsc).                      *)
THEOREM PlainIsOrdered ==
    ASSUME ZeroOnlyAfterSort, KeyDecides
    PROVE  Spec => []PlainOrdered
  <1>1. PlainInv => PlainOrdered
    BY AnswerOrdered
  <1>2. QED BY <1>1, PlainInvariant, PTL

-----------------------------------------------------------------------------
(* Two's complement.                                                       *)

Width == 2 * IntMax + 2

(* Numbers that fit and differ by whole widths are equal.                  *)
LEMMA FittingUnique ==
    ASSUME NEW a \in Int, NEW b \in Int, Fits(a), Fits(b),
           NEW q \in Int, a = b + Width * q
    PROVE  a = b
  <1>1. PICK w : w = Width
    OBVIOUS
  <1>2. w \in Nat /\ w > 0
    BY <1>1, PlanAssumption DEF Width
  <1>3. a - b < w /\ b - a < w
    BY <1>1, PlanAssumption DEF Width, Fits
  <1>4. a - b = w * q
    BY <1>1, <1>2
  <1>5. CASE q = 0
    <2>1. w * 0 = 0
      BY <1>2
    <2>2. QED BY <1>4, <1>5, <2>1
  <1>6. CASE q >= 1
    <2>1. w * q >= w
      <3>1. PICK p \in Nat : q = p + 1
        BY <1>6
      <3>2. w * p \in Nat
        BY <1>2
      <3>3. w * q = w * p + w
        BY <1>2, <3>1
      <3>4. QED BY <1>2, <3>2, <3>3
    <2>2. QED BY <1>2, <1>3, <1>4, <2>1
  <1>7. CASE q <= -1
    <2>1. w * (-q) >= w
      <3>1. PICK p \in Nat : -q = p + 1
        BY <1>7
      <3>2. w * p \in Nat
        BY <1>2
      <3>3. w * (-q) = w * p + w
        BY <1>2, <3>1
      <3>4. QED BY <1>2, <3>2, <3>3
    <2>2. w * (-q) = -(w * q)
      BY <1>2
    <2>3. w * q \in Int
      BY <1>2
    <2>4. QED BY <1>2, <1>3, <1>4, <2>1, <2>2, <2>3
  <1>8. QED BY <1>5, <1>6, <1>7

LEMMA WrapIs ==
    ASSUME NEW n \in Int
    PROVE  /\ Wrap(n) \in Int /\ Fits(Wrap(n))
           /\ \E q \in Int : Wrap(n) = n + Width * q
  <1>1. PICK w, m : w = Width /\ m = n + IntMax + 1
    OBVIOUS
  <1>2. w \in Nat /\ w > 0 /\ m \in Int
    BY <1>1, PlanAssumption DEF Width
  <1>3. m \div w \in Int /\ m % w \in 0 .. w - 1 /\ m = w * (m \div w) + (m % w)
    BY <1>2
  <1>4. PICK r, d : r = m % w /\ d = m \div w
    OBVIOUS
  <1>5. r \in 0 .. w - 1 /\ d \in Int /\ m = w * d + r
    BY <1>3, <1>4
  <1>6. Wrap(n) = r - IntMax - 1
    BY <1>1, <1>4 DEF Wrap, Width
  <1>7. Wrap(n) \in Int /\ Fits(Wrap(n))
    BY <1>1, <1>5, <1>6, PlanAssumption DEF Fits, Width
  <1>8. w * d \in Int /\ w * (-d) = -(w * d)
    BY <1>2, <1>5
  <1>9. Wrap(n) = n + w * (-d)
    BY <1>1, <1>2, <1>5, <1>6, <1>8, PlanAssumption
  <1>10. -d \in Int
    BY <1>5
  <1>11. QED BY <1>1, <1>7, <1>9, <1>10

(* A wrapped partial sum is the partial sum wrapped.                       *)
LEMMA WrapAddition ==
    ASSUME NEW a \in Int, NEW v \in Int
    PROVE  Wrap(Wrap(a) + v) = Wrap(a + v)
  <1>1. PICK b, c, d, w : b = Wrap(a) /\ c = Wrap(b + v) /\ d = Wrap(a + v) /\ w = Width
    OBVIOUS
  <1>2. b \in Int
    BY <1>1, WrapIs
  <1>3. c \in Int /\ d \in Int /\ Fits(c) /\ Fits(d)
    BY <1>1, <1>2, WrapIs
  <1>4. PICK p \in Int : b = a + w * p
    BY <1>1, WrapIs
  <1>5. PICK q \in Int : c = (b + v) + w * q
    BY <1>1, <1>2, WrapIs
  <1>6. PICK r \in Int : d = (a + v) + w * r
    BY <1>1, WrapIs
  <1>7. w \in Int
    BY <1>1, PlanAssumption DEF Width
  <1>8. w * p \in Int /\ w * q \in Int /\ w * r \in Int
        /\ w * ((p + q) - r) = ((w * p) + (w * q)) - (w * r)
    BY <1>4, <1>5, <1>6, <1>7
  <1>9. c = d + w * ((p + q) - r)
    BY <1>2, <1>3, <1>4, <1>5, <1>6, <1>8
  <1>10. (p + q) - r \in Int
    BY <1>4, <1>5, <1>6
  <1>11. c = d
    BY <1>1, <1>3, <1>9, <1>10, FittingUnique
  <1>12. QED BY <1>1, <1>11

LEMMA WrapFitting ==
    ASSUME NEW n \in Int, Fits(n)
    PROVE  Wrap(n) = n
  <1>1. PICK q \in Int : Wrap(n) = n + Width * q
    BY WrapIs
  <1>2. QED BY <1>1, WrapIs, FittingUnique

-----------------------------------------------------------------------------
(* The state of an aggregate.                                              *)

(* A column of INT64 values.                                               *)
IntColumn(of) == Amounts(of) /\ \A r \in DOMAIN of : \A v \in of[r] : Fits(v)

ValuesOf(of, rows) == UNION {of[r] : r \in rows}

Counted(of, rows) == {r \in rows : of[r] # {}}

(* What the state holds after some rows; its sum is the exact one wrapped. *)
Describes(of, rows, state) ==
    /\ state.count = Cardinality(Counted(of, rows))
    /\ state.sum = Wrap(Sums(of)[rows])
    /\ IF ValuesOf(of, rows) = {}
         THEN state.min = IntMax /\ state.max = -IntMax - 1
         ELSE state.min \in ValuesOf(of, rows) /\ state.max \in ValuesOf(of, rows)
    /\ \A v \in ValuesOf(of, rows) : state.min <= v /\ v <= state.max

LEMMA CountedFinite ==
    ASSUME NEW of, Amounts(of), NEW rows \in SUBSET DOMAIN of
    PROVE  /\ IsFiniteSet(Counted(of, rows))
           /\ Cardinality(Counted(of, rows)) \in Nat
           /\ Cardinality(Counted(of, rows)) = 0 <=> ValuesOf(of, rows) = {}
           /\ ValuesOf(of, rows) \subseteq Int
  <1>1. Counted(of, rows) \in SUBSET DOMAIN of /\ IsFiniteSet(DOMAIN of)
    BY DEF Counted, Amounts
  <1>2. IsFiniteSet(Counted(of, rows))
    BY <1>1, FS_Subset
  <1>3. Cardinality(Counted(of, rows)) \in Nat
    BY <1>2, FS_CardinalityType
  <1>4. Cardinality(Counted(of, rows)) = 0 <=> Counted(of, rows) = {}
    BY <1>2, FS_EmptySet
  <1>5. Counted(of, rows) = {} <=> ValuesOf(of, rows) = {}
    BY DEF Counted, ValuesOf
  <1>6. ValuesOf(of, rows) \subseteq Int
    BY DEF ValuesOf, Amounts
  <1>7. QED BY <1>2, <1>3, <1>4, <1>5, <1>6

LEMMA LesserGreater ==
    ASSUME NEW a \in Int, NEW b \in Int
    PROVE  /\ Min({a, b}) = IF a <= b THEN a ELSE b
           /\ Max({a, b}) = IF a <= b THEN b ELSE a
  <1>1. PICK least, most : /\ least = IF a <= b THEN a ELSE b
                           /\ most = IF a <= b THEN b ELSE a
    OBVIOUS
  <1>2. /\ least \in {a, b} /\ \A y \in {a, b} : least <= y
        /\ most \in {a, b} /\ \A y \in {a, b} : y <= most
    BY <1>1
  <1>3. \A x \in {a, b} : (\A y \in {a, b} : x <= y) => x = least
    BY <1>1
  <1>4. \A x \in {a, b} : (\A y \in {a, b} : y <= x) => x = most
    BY <1>1
  <1>5. Min({a, b}) = CHOOSE x \in {a, b} : \A y \in {a, b} : x <= y
    BY DEF Min
  <1>6. Max({a, b}) = CHOOSE x \in {a, b} : \A y \in {a, b} : x >= y
    BY DEF Max
  <1>7. Min({a, b}) \in {a, b} /\ \A y \in {a, b} : Min({a, b}) <= y
    BY <1>2, <1>5
  <1>8. Max({a, b}) \in {a, b} /\ \A y \in {a, b} : y <= Max({a, b})
    <2>1. \A y \in {a, b} : most >= y
      BY <1>1
    <2>2. Max({a, b}) \in {a, b} /\ \A y \in {a, b} : Max({a, b}) >= y
      BY <1>2, <1>6, <2>1
    <2>3. QED BY <2>2
  <1>9. QED BY <1>1, <1>3, <1>4, <1>7, <1>8

LEMMA NothingDescribed ==
    ASSUME NEW of, Amounts(of)
    PROVE  Describes(of, {}, NoAggregate)
  <1>1. Counted(of, {}) = {} /\ ValuesOf(of, {}) = {}
    BY DEF Counted, ValuesOf
  <1>2. Cardinality({}) = 0
    BY FS_EmptySet
  <1>3. Sums(of)[{}] = 0
    BY SumOfNothing
  <1>4. 0 \in Int /\ Fits(0)
    BY PlanAssumption DEF Fits
  <1>5. Wrap(0) = 0
    BY <1>4, WrapFitting
  <1>6. QED BY <1>1, <1>2, <1>3, <1>5 DEF Describes, NoAggregate

(* UpdateGlobalAggregateState: one row more.                               *)
LEMMA UpdateDescribes ==
    ASSUME NEW of, IntColumn(of), NEW rows \in SUBSET DOMAIN of,
           NEW row \in DOMAIN of, row \notin rows,
           NEW state, Describes(of, rows, state)
    PROVE  Describes(of, rows \cup {row}, UpdateAggregate(state, of[row]))
  <1>1. PICK more, next : /\ more = rows \cup {row}
                          /\ next = UpdateAggregate(state, of[row])
    OBVIOUS
  <1>2. Amounts(of) /\ more \in SUBSET DOMAIN of
    BY <1>1 DEF IntColumn
  <1>3. Sums(of)[more] = Sums(of)[rows] + Number(of[row])
    BY <1>1, <1>2, SumWith
  <1>4. Sums(of)[rows] \in Int /\ Number(of[row]) \in Int
    BY <1>2, SumsType, NumberIs
  <1>5. ValuesOf(of, more) = ValuesOf(of, rows) \cup of[row]
    BY <1>1 DEF ValuesOf
  <1>6. CASE of[row] = {}
    <2>1. next = state
      BY <1>1, <1>6 DEF UpdateAggregate
    <2>2. Counted(of, more) = Counted(of, rows)
      BY <1>1, <1>6 DEF Counted
    <2>3. Number(of[row]) = 0
      BY <1>2, <1>6, NumberIs
    <2>4. Sums(of)[more] = Sums(of)[rows]
      BY <1>3, <1>4, <2>3
    <2>5. ValuesOf(of, more) = ValuesOf(of, rows)
      BY <1>5, <1>6
    <2>6. Describes(of, more, state)
      BY <2>2, <2>4, <2>5 DEF Describes
    <2>7. QED BY <1>1, <2>1, <2>6
  <1>7. CASE of[row] # {}
    <2>1. PICK v : v = Number(of[row])
      OBVIOUS
    <2>2. v \in Int /\ of[row] = {v} /\ Fits(v)
      <3>1. of[row] = {v}
        BY <1>2, <1>7, <2>1, NumberIs
      <3>2. QED BY <1>4, <2>1, <3>1 DEF IntColumn
    <2>3. (CHOOSE x \in of[row] : TRUE) = v
      BY <2>2
    <2>4. next = [count |-> state.count + 1, sum |-> Wrap(state.sum + v),
                  min |-> Min({state.min, v}), max |-> Max({state.max, v})]
      BY <1>1, <1>7, <2>3 DEF UpdateAggregate
    <2>5. next.count = Cardinality(Counted(of, more))
      <3>1. Counted(of, more) = Counted(of, rows) \cup {row}
        BY <1>1, <1>7 DEF Counted
      <3>2. row \notin Counted(of, rows)
        BY DEF Counted
      <3>3. Cardinality(Counted(of, more)) = Cardinality(Counted(of, rows)) + 1
        BY <1>2, <3>1, <3>2, CountedFinite, FS_AddElement
      <3>4. next.count = state.count + 1
        BY <2>4
      <3>5. QED BY <3>3, <3>4 DEF Describes
    <2>6. next.sum = Wrap(Sums(of)[more])
      <3>1. next.sum = Wrap(Wrap(Sums(of)[rows]) + v)
        BY <2>4 DEF Describes
      <3>2. QED BY <1>3, <1>4, <2>1, <2>2, <3>1, WrapAddition
    <2>7. /\ state.min \in Int /\ state.max \in Int
          /\ ValuesOf(of, rows) = {} => v <= state.min /\ state.max <= v
      <3>1. ValuesOf(of, rows) \subseteq Int
        BY <1>2, CountedFinite
      <3>2. IntMax \in Int /\ -IntMax - 1 \in Int
        BY PlanAssumption
      <3>3. state.min \in Int /\ state.max \in Int
        BY <3>1, <3>2 DEF Describes
      <3>4. ValuesOf(of, rows) = {} => state.min = IntMax /\ state.max = -IntMax - 1
        BY DEF Describes
      <3>5. v <= IntMax /\ -IntMax - 1 <= v
        BY <2>2 DEF Fits
      <3>6. QED BY <3>3, <3>4, <3>5
    <2>8. PICK least, most : least = next.min /\ most = next.max
      OBVIOUS
    <2>9. /\ least = IF state.min <= v THEN state.min ELSE v
          /\ most = IF state.max <= v THEN v ELSE state.max
      BY <2>2, <2>4, <2>7, <2>8, LesserGreater
    <2>10. ValuesOf(of, more) = ValuesOf(of, rows) \cup {v}
      BY <1>5, <2>2
    <2>11. least \in ValuesOf(of, more)
      <3>1. CASE ValuesOf(of, rows) = {}
        <4>1. v <= state.min
          BY <2>7, <3>1
        <4>2. least = v
          BY <2>2, <2>7, <2>9, <4>1
        <4>3. QED BY <2>10, <4>2
      <3>2. CASE ValuesOf(of, rows) # {}
        BY <2>9, <2>10, <3>2 DEF Describes
      <3>3. QED BY <3>1, <3>2
    <2>12. most \in ValuesOf(of, more)
      <3>1. CASE ValuesOf(of, rows) = {}
        <4>1. state.max <= v
          BY <2>7, <3>1
        <4>2. most = v
          BY <2>9, <4>1
        <4>3. QED BY <2>10, <4>2
      <3>2. CASE ValuesOf(of, rows) # {}
        BY <2>9, <2>10, <3>2 DEF Describes
      <3>3. QED BY <3>1, <3>2
    <2>13. ASSUME NEW x \in ValuesOf(of, more)
           PROVE  least <= x /\ x <= most
      <3>1. CASE x = v
        BY <2>2, <2>7, <2>9, <3>1
      <3>2. CASE x \in ValuesOf(of, rows)
        <4>1. state.min <= x /\ x <= state.max
          BY <3>2 DEF Describes
        <4>2. x \in Int
          BY <1>2, <3>2, CountedFinite
        <4>3. QED BY <2>2, <2>7, <2>9, <4>1, <4>2
      <3>3. QED BY <2>10, <3>1, <3>2
    <2>14. Describes(of, more, next)
      <3>1. next.min \in ValuesOf(of, more) /\ next.max \in ValuesOf(of, more)
        BY <2>8, <2>11, <2>12
      <3>2. \A x \in ValuesOf(of, more) : next.min <= x /\ x <= next.max
        BY <2>8, <2>13
      <3>3. ValuesOf(of, more) # {}
        BY <3>1
      <3>4. QED BY <2>5, <2>6, <3>1, <3>2, <3>3 DEF Describes
    <2>15. QED BY <1>1, <2>14
  <1>8. QED BY <1>6, <1>7

(* FinalizeAggregateState.                                                 *)
LEMMA FinalizeIs ==
    ASSUME NEW of, Amounts(of), NEW rows \in SUBSET DOMAIN of,
           NEW state, Describes(of, rows, state)
    PROVE  AggregatesOf(rows, of, Finalize(state))
  <1>1. PICK row, values, sum : /\ row = Finalize(state)
                                /\ values = ValuesOf(of, rows)
                                /\ sum = Sums(of)[rows]
    OBVIOUS
  <1>2. /\ state.count = Cardinality(Counted(of, rows))
        /\ state.count = 0 <=> values = {}
        /\ values \subseteq Int /\ sum \in Int
    BY <1>1, CountedFinite, SumsType DEF Describes
  <1>3. /\ row.count = Cardinality({r \in rows : of[r] # {}})
        /\ row.min = {v \in values : \A w \in values : v <= w}
        /\ row.max = {v \in values : \A w \in values : v >= w}
        /\ row.sum = {} <=> values = {}
        /\ Fits(sum) => \A s \in row.sum : s = sum
    <2>1. CASE state.count = 0
      <3>1. row = [count |-> 0, sum |-> {}, min |-> {}, max |-> {}]
        BY <1>1, <2>1 DEF Finalize
      <3>2. values = {}
        BY <1>2, <2>1
      <3>3. QED BY <1>2, <2>1, <3>1, <3>2 DEF Counted
    <2>2. CASE state.count # 0
      <3>1. row = [count |-> state.count, sum |-> {state.sum},
                   min |-> {state.min}, max |-> {state.max}]
        BY <1>1, <2>2 DEF Finalize
      <3>2. values # {}
        BY <1>2, <2>2
      <3>3. /\ state.min \in values /\ state.max \in values
            /\ \A v \in values : state.min <= v /\ v <= state.max
            /\ state.sum = Wrap(sum)
        BY <1>1, <3>2 DEF Describes
      <3> PICK least, most : least = state.min /\ most = state.max
        OBVIOUS
      <3>4. /\ \A v \in values : v \in Int
            /\ least \in values /\ \A v \in values : least <= v
            /\ most \in values /\ \A v \in values : v <= most
        BY <1>2, <3>3
      <3>5. {v \in values : \A w \in values : v <= w} = {state.min}
        <4>1. \A v \in values : v <= least => v = least
          BY <3>4
        <4>2. QED BY <3>4, <4>1
      <3>6. {v \in values : \A w \in values : v >= w} = {state.max}
        <4>1. \A v \in values : v >= most => v = most
          BY <3>4
        <4>2. \A v \in values : most >= v
          BY <3>4
        <4>3. QED BY <3>4, <4>1, <4>2
      <3>7. Fits(sum) => state.sum = sum
        BY <1>2, <3>3, WrapFitting
      <3>8. row.count = Cardinality({r \in rows : of[r] # {}})
        BY <1>2, <3>1 DEF Counted
      <3>9. QED BY <3>1, <3>2, <3>5, <3>6, <3>7, <3>8
    <2>3. QED BY <2>1, <2>2
  <1>4. QED BY <1>1, <1>3 DEF AggregatesOf, ValuesOf

-----------------------------------------------------------------------------
(* A SELECT of aggregates: the inductive invariant.                        *)

(* The matches that the loop has seen, and those of one group.             *)
Seen == Matches \ RowsIn(cursor)

Members(g) == {r \in Seen : GroupOf(r) = g}

Arguments == [r \in AllRows |-> Argument(r)]

(* In the loop and before the answer: there is a state for every group of  *)
(* a match that was seen, it describes the values of exactly those         *)
(* matches, and the group's first row is one of them.                      *)
AggregateLoop ==
    /\ cursor \in Seq(AllRows) /\ Distinct(cursor)
    /\ phase = "finish" => cursor = <<>>
    /\ DOMAIN groups = {GroupOf(r) : r \in Seen}
    /\ \A g \in DOMAIN groups :
         /\ g \in DOMAIN first /\ first[g] \in Members(g)
         /\ Describes(Arguments, Members(g), groups[g])

AggregateInv ==
    /\ table \in Tables /\ query \in Queries
    /\ query.kind = "global" => table.val_type = "INT64"
    /\ phase \in {"start", "scan", "finish", "done", "failed"}
    /\ phase = "start" => DOMAIN groups = {} /\ DOMAIN first = {}
    /\ query.kind # "plain" /\ phase \in {"scan", "finish"} => AggregateLoop

LEMMA ArgumentsColumn ==
    ASSUME table \in Tables, query \in Queries, query.kind # "plain",
           query.kind = "global" => table.val_type = "INT64"
    PROVE  /\ IntColumn(Arguments) /\ DOMAIN Arguments = AllRows
           /\ \A r \in AllRows : Arguments[r] = Argument(r)
           /\ query.kind = "global" => Arguments = [r \in AllRows |-> r.val]
           /\ query.kind = "grouped" => Arguments = [r \in AllRows |-> {r.key}]
  <1>1. PICK of : of = Arguments
    OBVIOUS
  <1>2. /\ of = [r \in AllRows |-> Argument(r)] /\ DOMAIN of = AllRows
        /\ \A r \in AllRows : of[r] = Argument(r)
    BY <1>1 DEF Arguments
  <1>3. IsFiniteSet(AllRows) /\ AllRows \subseteq Row
    BY RowsFinite DEF AllRows
  <1>4. query.kind \in {"global", "grouped"}
    BY QueriesAssumption
  <1>5. ASSUME NEW r \in AllRows
        PROVE  /\ of[r] \subseteq Int /\ \A v \in of[r] : Fits(v)
               /\ of[r] = {} \/ \E n \in of[r] : of[r] = {n}
    <2>1. /\ r.key \in Int /\ Fits(r.key)
          /\ r.val \subseteq Int
          /\ r.val = {} \/ \E n \in r.val : r.val = {n}
      BY <1>3, RowTypes DEF Fits
    <2>2. CASE query.kind = "grouped"
      <3>1. of[r] = {r.key}
        BY <1>2, <2>2 DEF Argument
      <3>2. QED BY <2>1, <3>1
    <2>3. CASE query.kind = "global"
      <3>1. of[r] = r.val
        BY <1>2, <2>3 DEF Argument
      <3>2. r.val \subseteq -IntMax - 1 .. IntMax
        BY <2>3, TablesAssumption DEF AllRows
      <3>3. \A v \in r.val : Fits(v)
        BY <3>2, PlanAssumption DEF Fits
      <3>4. QED BY <2>1, <3>1, <3>3
    <2>4. QED BY <1>4, <2>2, <2>3
  <1>6. of = [r \in DOMAIN of |-> of[r]]
    BY <1>2
  <1>7. Amounts(of)
    BY <1>2, <1>3, <1>5, <1>6 DEF Amounts
  <1>8. IntColumn(of)
    BY <1>2, <1>5, <1>7 DEF IntColumn
  <1>9. query.kind = "global" => of = [r \in AllRows |-> r.val]
    BY <1>2 DEF Argument
  <1>10. query.kind = "grouped" => of = [r \in AllRows |-> {r.key}]
    BY <1>2 DEF Argument
  <1>11. QED BY <1>1, <1>2, <1>8, <1>9, <1>10

LEMMA AggregateInit == Init => AggregateInv
  BY DEF Init, AggregateInv

LEMMA AggregateOpen ==
    ASSUME AggregateInv, OpenCursor
    PROVE  AggregateInv'
  <1>1. /\ table \in Tables /\ query \in Queries /\ phase = "start"
        /\ query.kind = "global" => table.val_type = "INT64"
        /\ DOMAIN groups = {} /\ DOMAIN first = {}
    BY DEF AggregateInv, OpenCursor
  <1>2. table' = table /\ query' = query /\ groups' = groups /\ first' = first
    BY DEF OpenCursor
  <1>3. PICK plan, filter, ordered :
          /\ plan = BuildPlan(query.where)
          /\ filter = IF plan.point = {} THEN Predicates(query.where) ELSE {}
          /\ ordered = (plan.point = {} /\ query.kind = "plain" /\ RequiresKeyAsc)
    OBVIOUS
  <1>4. \/ plan.failed /\ phase' = "failed"
        \/ /\ ~plan.failed /\ plan.empty /\ cursor' = <<>>
           /\ phase' = IF query.kind = "plain" THEN "done" ELSE "finish"
        \/ /\ ~plan.failed /\ phase' = "scan"
           /\ cursor' \in Listings(StoredRows(PlanRange(plan), filter), ordered)
    BY <1>3 DEF OpenCursor
  <1>5. AggregateInv' <=>
          (query.kind # "plain" /\ phase' \in {"scan", "finish"} => AggregateLoop')
    BY <1>1, <1>2, <1>4 DEF AggregateInv
  <1>6. CASE query.kind = "plain" \/ phase' = "failed"
    BY <1>5, <1>6
  <1>7. CASE query.kind # "plain" /\ phase' # "failed"
    <2>1. /\ cursor' \in Seq(AllRows) /\ Distinct(cursor')
          /\ Matches \subseteq RowsIn(cursor')
          /\ phase' = "finish" => cursor' = <<>>
      <3>1. CASE ~plan.failed /\ plan.empty /\ cursor' = <<>>
        <4>1. Matches = {}
          BY <1>1, <1>3, <3>1, MatchesStored
        <4>2. Distinct(<<>>) /\ <<>> \in Seq(AllRows)
          BY DEF Distinct
        <4>3. QED BY <3>1, <4>1, <4>2
      <3>2. CASE /\ ~plan.failed /\ phase' = "scan"
                 /\ cursor' \in Listings(StoredRows(PlanRange(plan), filter), ordered)
        <4>1. PICK rows : rows = StoredRows(PlanRange(plan), filter)
          OBVIOUS
        <4>2. rows \subseteq AllRows /\ IsFiniteSet(rows)
          BY <1>1, <4>1, StoredFinite
        <4>3. ordered \in BOOLEAN
          BY <1>3
        <4>4. cursor' \in Seq(rows) /\ Distinct(cursor') /\ RowsIn(cursor') = rows
          BY <3>2, <4>1, <4>2, <4>3, ListingsListRows
        <4>5. cursor' \in Seq(AllRows)
          BY <4>2, <4>4
        <4>6. Matches \subseteq rows
          BY <1>1, <1>3, <3>2, <4>1, MatchesStored
        <4>7. QED BY <3>2, <4>4, <4>5, <4>6
      <3>3. QED BY <1>4, <1>7, <3>1, <3>2
    <2>2. Matches' = Matches /\ AllRows' = AllRows
      BY <1>2, SameQuery
    <2>3. Seen' = {}
      BY <2>1, <2>2 DEF Seen
    <2>4. AggregateLoop'
      BY <1>1, <1>2, <2>1, <2>2, <2>3 DEF AggregateLoop
    <2>5. QED BY <1>5, <2>4
  <1>8. QED BY <1>4, <1>6, <1>7

(* A row that WHERE rejects changes nothing; a match is one row more in    *)
(* its group, which is a new one if none of its rows was seen.             *)
LEMMA AggregateNextRow ==
    ASSUME AggregateInv, NextRow, query.kind # "plain"
    PROVE  AggregateInv'
  <1>1. /\ table \in Tables /\ query \in Queries /\ phase = "scan"
        /\ query.kind = "global" => table.val_type = "INT64"
        /\ AggregateLoop /\ cursor # <<>> /\ cursor' = Tail(cursor)
        /\ table' = table /\ query' = query /\ phase' = phase
    BY DEF AggregateInv, NextRow, TakeAggregate
  <1>2. PICK row, g : row = Head(cursor) /\ g = GroupOf(row)
    OBVIOUS
  <1>3. /\ cursor \in Seq(AllRows) /\ Distinct(cursor)
        /\ DOMAIN groups = {GroupOf(r) : r \in Seen}
        /\ \A h \in DOMAIN groups :
             /\ h \in DOMAIN first /\ first[h] \in Members(h)
             /\ Describes(Arguments, Members(h), groups[h])
    BY <1>1 DEF AggregateLoop
  <1>4. /\ row \in AllRows /\ cursor' \in Seq(AllRows) /\ Distinct(cursor')
        /\ RowsIn(cursor) = RowsIn(cursor') \cup {row}
        /\ row \notin RowsIn(cursor')
    BY <1>1, <1>2, <1>3, OneRowLess
  <1>5. Matches' = Matches /\ AllRows' = AllRows /\ Matches \subseteq AllRows
    BY <1>1, SameQuery DEF Matches
  <1>6. /\ Arguments' = Arguments /\ \A r : GroupOf(r)' = GroupOf(r)
        /\ \A h : Members(h)' = {r \in Seen' : GroupOf(r) = h}
    <2>1. \A r : GroupOf(r)' = GroupOf(r) /\ Argument(r)' = Argument(r)
      BY <1>1 DEF GroupOf, Argument
    <2>2. Arguments' = Arguments
      BY <1>5, <2>1 DEF Arguments
    <2>3. QED BY <2>1, <2>2 DEF Members
  <1>7. AggregateInv' <=> AggregateLoop'
    BY <1>1 DEF AggregateInv
  <1>8. AggregateLoop' <=>
          /\ DOMAIN groups' = {GroupOf(r) : r \in Seen'}
          /\ \A h \in DOMAIN groups' :
               /\ h \in DOMAIN first' /\ first'[h] \in Members(h)'
               /\ Describes(Arguments, Members(h)', groups'[h])
    <2>1. phase' # "finish"
      BY <1>1
    <2>2. {GroupOf(r) : r \in Seen}' = {GroupOf(r) : r \in Seen'}
      BY <1>6
    <2>3. QED BY <1>4, <1>5, <1>6, <2>1, <2>2 DEF AggregateLoop
  <1>9. row \in Matches <=> EvaluatePredicate(query.where, row, table.val_type)
    BY <1>4 DEF Matches
  <1>10. CASE row \notin Matches
    <2>1. groups' = groups /\ first' = first
      BY <1>2, <1>9, <1>10 DEF NextRow
    <2>2. Seen' = Seen
      BY <1>4, <1>5, <1>10 DEF Seen
    <2>3. \A h : Members(h)' = Members(h)
      BY <1>6, <2>2 DEF Members
    <2>4. QED BY <1>3, <1>7, <1>8, <2>1, <2>2, <2>3
  <1>11. CASE row \in Matches
    <2>1. TakeAggregate(row)
      BY <1>1, <1>2, <1>9, <1>11 DEF NextRow
    <2>2. PICK state : state = IF g \in DOMAIN groups THEN groups[g] ELSE NoAggregate
      OBVIOUS
    <2>3. /\ groups' = [h \in DOMAIN groups \cup {g} |->
                          IF h = g THEN UpdateAggregate(state, Argument(row))
                          ELSE groups[h]]
          /\ first' = IF g \in DOMAIN groups THEN first
                      ELSE [h \in DOMAIN groups \cup {g} |->
                              IF h = g THEN row ELSE first[h]]
      BY <1>2, <2>1, <2>2 DEF TakeAggregate
    <2>4. Seen' = Seen \cup {row} /\ row \notin Seen /\ Seen \subseteq AllRows
      BY <1>4, <1>5, <1>11 DEF Seen
    <2>5. /\ \A h : h # g => Members(h)' = Members(h)
          /\ Members(g)' = Members(g) \cup {row} /\ row \notin Members(g)
          /\ \A h : Members(h) \subseteq AllRows
      BY <1>2, <1>6, <2>4 DEF Members
    <2>6. DOMAIN groups' = {GroupOf(r) : r \in Seen'}
      BY <1>2, <1>3, <2>3, <2>4
    <2>7. ASSUME NEW h \in DOMAIN groups'
          PROVE  h \in DOMAIN first' /\ first'[h] \in Members(h)'
      <3>1. CASE g \in DOMAIN groups
        <4>1. first' = first /\ h \in DOMAIN groups
          BY <2>3, <3>1
        <4>2. Members(h) \subseteq Members(h)'
          BY <2>5
        <4>3. QED BY <1>3, <4>1, <4>2
      <3>2. CASE g \notin DOMAIN groups
        <4>1. /\ h \in DOMAIN groups \cup {g} /\ DOMAIN first' = DOMAIN groups \cup {g}
              /\ first'[h] = IF h = g THEN row ELSE first[h]
          BY <2>3, <3>2
        <4>2. CASE h = g
          BY <2>5, <4>1, <4>2
        <4>3. CASE h # g
          BY <1>3, <2>5, <4>1, <4>3
        <4>4. QED BY <4>2, <4>3
      <3>3. QED BY <3>1, <3>2
    <2>8. /\ IntColumn(Arguments) /\ DOMAIN Arguments = AllRows
          /\ Arguments[row] = Argument(row)
      BY <1>1, <1>4, ArgumentsColumn
    <2>9. Describes(Arguments, Members(g), state)
      <3>1. CASE g \in DOMAIN groups
        BY <1>3, <2>2, <3>1
      <3>2. CASE g \notin DOMAIN groups
        <4>1. Members(g) = {}
          BY <1>3, <3>2 DEF Members
        <4>2. QED BY <2>2, <2>8, <3>2, <4>1, NothingDescribed DEF IntColumn
      <3>3. QED BY <3>1, <3>2
    <2>10. Describes(Arguments, Members(g) \cup {row},
                     UpdateAggregate(state, Argument(row)))
      BY <1>4, <2>5, <2>8, <2>9, UpdateDescribes
    <2>11. ASSUME NEW h \in DOMAIN groups'
           PROVE  Describes(Arguments, Members(h)', groups'[h])
      <3>1. CASE h = g
        <4>1. groups'[h] = UpdateAggregate(state, Argument(row))
          BY <2>3, <3>1
        <4>2. Members(h)' = Members(g) \cup {row}
          BY <2>5, <3>1
        <4>3. QED BY <2>10, <4>1, <4>2
      <3>2. CASE h # g
        <4>1. groups'[h] = groups[h] /\ h \in DOMAIN groups
          BY <2>3, <3>2
        <4>2. Members(h)' = Members(h)
          BY <2>5, <3>2
        <4>3. QED BY <1>3, <4>1, <4>2
      <3>3. QED BY <3>1, <3>2
    <2>12. QED BY <1>7, <1>8, <2>6, <2>7, <2>11
  <1>12. QED BY <1>10, <1>11

(* The other steps of the loop leave what it has collected as it is.       *)
LEMMA AggregateKept ==
    ASSUME AggregateInv, table' = table, query' = query, cursor' = cursor,
           groups' = groups, first' = first,
           \/ phase' = phase
           \/ phase = "scan" /\ phase' = "finish" /\ cursor = <<>>
           \/ phase' = "done"
    PROVE  AggregateInv'
  <1>1. CASE phase' = "done"
    BY <1>1 DEF AggregateInv
  <1>2. CASE phase' # "done"
    <2>1. Matches' = Matches /\ AllRows' = AllRows
      BY SameQuery
    <2>2. Seen' = Seen
      BY <2>1 DEF Seen
    <2>3. \A r : GroupOf(r)' = GroupOf(r) /\ Argument(r)' = Argument(r)
      BY DEF GroupOf, Argument
    <2>4. Arguments' = Arguments
      BY <2>1, <2>3 DEF Arguments
    <2>5. \A h : Members(h)' = Members(h)
      BY <2>2, <2>3 DEF Members
    <2>6. ASSUME AggregateLoop, phase' = "finish" => cursor = <<>>
          PROVE  AggregateLoop'
      BY <2>1, <2>2, <2>3, <2>4, <2>5, <2>6 DEF AggregateLoop
    <2>7. AggregateLoop => (phase' = "finish" => cursor = <<>>)
      BY <1>2 DEF AggregateLoop
    <2>8. QED BY <1>2, <2>6, <2>7 DEF AggregateInv
  <1>3. QED BY <1>1, <1>2

LEMMA AggregateNext ==
    ASSUME AggregateInv, [Next]_vars
    PROVE  AggregateInv'
  <1>1. CASE OpenCursor
    BY <1>1, AggregateOpen
  <1>2. CASE NextRow
    <2>1. CASE query.kind = "plain"
      <3>1. /\ table' = table /\ query' = query /\ phase = "scan"
            /\ phase' \in {"scan", "done"}
        BY <1>2, <2>1 DEF NextRow, TakePlain
      <3>2. QED BY <2>1, <3>1 DEF AggregateInv
    <2>2. QED BY <1>2, <2>1, AggregateNextRow
  <1>3. CASE EndScan
    BY <1>3, AggregateKept DEF EndScan
  <1>4. CASE FinishPlain
    BY <1>4, AggregateKept DEF FinishPlain
  <1>5. CASE FinishGlobal
    BY <1>5, AggregateKept DEF FinishGlobal
  <1>6. CASE FinishGrouped
    BY <1>6, AggregateKept DEF FinishGrouped
  <1>7. CASE UNCHANGED vars
    BY <1>7, AggregateKept DEF vars
  <1>8. QED BY <1>1, <1>2, <1>3, <1>4, <1>5, <1>6, <1>7 DEF Next

(* The invariant of a SELECT of aggregates (ExecuteGlobalAggregateSelect,  *)
(* ExecuteGroupedAggregateSelect): there is a group for every value of the *)
(* matches the loop has seen, and its state describes exactly the matches  *)
(* of the group, the sum being wrapped.                                    *)
THEOREM AggregateInvariant == Spec => []AggregateInv
  <1>1. AggregateInv /\ [Next]_vars => AggregateInv'
    BY AggregateNext
  <1>2. QED BY <1>1, AggregateInit, PTL DEF Spec

-----------------------------------------------------------------------------
(* The answer of a SELECT of aggregates.                                   *)

(* At the end of the loop every match was seen.                            *)
LEMMA AllSeen ==
    ASSUME AggregateInv, query.kind # "plain", phase = "finish"
    PROVE  /\ Seen = Matches /\ DOMAIN groups = {GroupOf(r) : r \in Matches}
           /\ \A g \in DOMAIN groups :
                /\ Members(g) = {r \in Matches : GroupOf(r) = g}
                /\ first[g] \in Members(g)
                /\ AggregatesOf(Members(g), Arguments, Finalize(groups[g]))
  <1>1. /\ table \in Tables /\ query \in Queries /\ AggregateLoop
        /\ query.kind = "global" => table.val_type = "INT64"
    BY DEF AggregateInv
  <1>2. cursor = <<>>
    BY <1>1 DEF AggregateLoop
  <1>3. RowsIn(cursor) = {}
    BY <1>2 DEF RowsIn
  <1>4. Seen = Matches
    BY <1>3 DEF Seen
  <1>5. /\ DOMAIN groups = {GroupOf(r) : r \in Matches}
        /\ \A g \in DOMAIN groups :
             /\ first[g] \in Members(g)
             /\ Describes(Arguments, Members(g), groups[g])
    BY <1>1, <1>4 DEF AggregateLoop
  <1>6. \A g : Members(g) = {r \in Matches : GroupOf(r) = g}
    BY <1>4 DEF Members
  <1>7. \A g : Members(g) \subseteq AllRows
    BY <1>6, MatchesFinite, <1>1
  <1>8. IntColumn(Arguments) /\ DOMAIN Arguments = AllRows
    BY <1>1, ArgumentsColumn
  <1>9. ASSUME NEW g \in DOMAIN groups
        PROVE  AggregatesOf(Members(g), Arguments, Finalize(groups[g]))
    BY <1>5, <1>7, <1>8, FinalizeIs DEF IntColumn
  <1>10. QED BY <1>4, <1>5, <1>6, <1>9

LEMMA GlobalAnswer ==
    ASSUME AggregateInv, FinishGlobal
    PROVE  GlobalExact'
  <1>1. /\ table \in Tables /\ query \in Queries /\ phase = "finish"
        /\ query.kind = "global" /\ table.val_type = "INT64"
        /\ table' = table /\ query' = query
    BY DEF AggregateInv, FinishGlobal
  <1>2. PICK state : /\ state = IF {} \in DOMAIN groups THEN groups[{}]
                                ELSE NoAggregate
                     /\ result' = IF 0 \in query.limit THEN <<>>
                                  ELSE <<Finalize(state)>>
    BY DEF FinishGlobal
  <1>3. /\ Seen = Matches /\ DOMAIN groups = {GroupOf(r) : r \in Matches}
        /\ \A g \in DOMAIN groups :
             /\ Members(g) = {r \in Matches : GroupOf(r) = g}
             /\ AggregatesOf(Members(g), Arguments, Finalize(groups[g]))
    BY <1>1, AllSeen
  <1>4. \A r : GroupOf(r) = {}
    BY <1>1 DEF GroupOf
  <1>5. AggregatesOf(Matches, Arguments, Finalize(state))
    <2>1. CASE {} \in DOMAIN groups
      <3>1. Members({}) = Matches
        BY <1>3, <1>4, <2>1
      <3>2. QED BY <1>2, <1>3, <2>1, <3>1
    <2>2. CASE {} \notin DOMAIN groups
      <3>1. Matches = {}
        BY <1>3, <1>4, <2>2
      <3>2. Amounts(Arguments)
        BY <1>1, ArgumentsColumn DEF IntColumn
      <3>3. Describes(Arguments, {}, NoAggregate)
        BY <3>2, NothingDescribed
      <3>4. AggregatesOf({}, Arguments, Finalize(NoAggregate))
        BY <3>2, <3>3, FinalizeIs
      <3>5. QED BY <1>2, <2>2, <3>1, <3>4
    <2>3. QED BY <2>1, <2>2
  <1>6. Len(result') = LimitOf(1)
    <2>1. CASE 0 \in query.limit
      <3>1. LimitOf(1) = 0
        BY <1>1, <2>1, LimitIs
      <3>2. QED BY <1>2, <2>1, <3>1
    <2>2. CASE 0 \notin query.limit
      <3>1. LimitOf(1) = 1
        <4>1. CASE query.limit = {}
          BY <1>1, <4>1, LimitIs
        <4>2. CASE query.limit # {}
          <5>1. PICK m \in query.limit : TRUE
            BY <4>2
          <5>2. m \in Nat /\ m # 0 /\ LimitOf(1) = IF m <= 1 THEN m ELSE 1
            BY <1>1, <2>2, <5>1, LimitIs
          <5>3. QED BY <5>2
        <4>3. QED BY <4>1, <4>2
      <3>2. QED BY <1>2, <2>2, <3>1
    <2>3. QED BY <2>1, <2>2
  <1>7. \A i \in DOMAIN result' : result'[i] = Finalize(state)
    BY <1>2
  <1>8. Arguments = [r \in AllRows |-> r.val]
    BY <1>1, ArgumentsColumn
  <1>9. Matches' = Matches /\ AllRows' = AllRows /\ LimitOf(1)' = LimitOf(1)
    BY <1>1, SameQuery
  <1>10. [r \in AllRows |-> r.val]' = Arguments
    BY <1>8, <1>9
  <1>11. \A i \in DOMAIN result' : AggregatesOf(Matches, Arguments, result'[i])
    BY <1>5, <1>7
  <1>12. QED BY <1>6, <1>9, <1>10, <1>11 DEF GlobalExact

(* A SELECT of aggregates without GROUP BY returns, for every table, WHERE *)
(* and LIMIT, the aggregates of exactly the rows that satisfy WHERE; SUM   *)
(* is exact when it fits, although partial sums wrap.                      *)
THEOREM GlobalIsExact == Spec => []GlobalExact
  <1>1. Init => GlobalExact
    BY DEF Init, GlobalExact, Finished
  <1>2. AggregateInv /\ GlobalExact /\ [Next]_vars => GlobalExact'
    <2> SUFFICES ASSUME AggregateInv, GlobalExact, [Next]_vars
                 PROVE  GlobalExact'
      OBVIOUS
    <2>1. CASE FinishGlobal
      BY <2>1, GlobalAnswer
    <2>2. CASE UNCHANGED vars
      <3>1. /\ table' = table /\ query' = query /\ phase' = phase
            /\ result' = result
        BY <2>2 DEF vars
      <3>2. Matches' = Matches /\ AllRows' = AllRows /\ LimitOf(1)' = LimitOf(1)
        BY <3>1, SameQuery
      <3>3. QED BY <3>1, <3>2 DEF GlobalExact, Finished
    <2>3. CASE OpenCursor \/ NextRow \/ EndScan \/ FinishPlain \/ FinishGrouped
      <3>1. ~Finished("global")'
        <4>1. CASE OpenCursor
          BY <4>1 DEF OpenCursor, Finished
        <4>2. CASE NextRow
          BY <4>2 DEF NextRow, TakeAggregate, Finished
        <4>3. CASE EndScan
          BY <4>3 DEF EndScan, Finished
        <4>4. CASE FinishPlain
          BY <4>4 DEF FinishPlain, Finished
        <4>5. CASE FinishGrouped
          BY <4>5 DEF FinishGrouped, Finished
        <4>6. QED BY <2>3, <4>1, <4>2, <4>3, <4>4, <4>5
      <3>2. QED BY <3>1 DEF GlobalExact
    <2>4. QED BY <2>1, <2>2, <2>3 DEF Next
  <1>3. QED BY <1>1, <1>2, AggregateInvariant, PTL DEF Spec

-----------------------------------------------------------------------------
(* The answer of a SELECT with GROUP BY.                                   *)

(* ORDER BY is of the column that is grouped by.                           *)
OrdersByGroup ==
    \A q \in Queries : q.kind = "grouped" =>
      \A i \in 1 .. Len(q.order) : q.order[i].column = "val"

(* A value of the grouped column.                                          *)
IsGroup(g) == g \subseteq Int /\ (g = {} \/ \E n \in g : g = {n})

LEMMA CompareAntisymmetric ==
    ASSUME NEW a, IsGroup(a), NEW b, IsGroup(b), CompareNullable(a, b) < 0
    PROVE  a # b /\ ~(CompareNullable(b, a) < 0)
  <1>1. PICK m, n : m = CompareNullable(a, b) /\ n = CompareNullable(b, a)
    OBVIOUS
  <1>2. a # b
    <2>1. a = b => m = 0
      BY <1>1, CompareOfKeys DEF IsGroup
    <2>2. m < 0
      BY <1>1
    <2>3. QED BY <2>1, <2>2
  <1>3. b = {} \/ \E x \in a, y \in b : x < y
    <2>1. SUFFICES ASSUME ~(b = {} \/ \E x \in a, y \in b : x < y) PROVE FALSE
      OBVIOUS
    <2>2. m > 0
      BY <1>1, <1>2, <2>1, CompareOfKeys DEF IsGroup
    <2>3. m \in {-1, 0, 1}
      BY <1>1 DEF CompareNullable
    <2>4. QED BY <1>1, <2>2, <2>3
  <1>4. ~(a = {} \/ \E x \in b, y \in a : x < y)
    <2>1. CASE b = {}
      BY <1>2, <2>1
    <2>2. CASE \E x \in a, y \in b : x < y
      <3>1. PICK x \in a, y \in b : x < y
        BY <2>2
      <3>2. a = {x} /\ b = {y} /\ x \in Int /\ y \in Int
        BY DEF IsGroup
      <3>3. ~(y < x)
        BY <3>1, <3>2
      <3>4. QED BY <3>2, <3>3
    <2>3. QED BY <1>3, <2>1, <2>2
  <1>5. n > 0
    BY <1>1, <1>2, <1>4, CompareOfKeys DEF IsGroup
  <1>6. n \in {-1, 0, 1}
    BY <1>1 DEF CompareNullable
  <1>7. QED BY <1>1, <1>2, <1>5, <1>6

(* The groups are the values of the matches.                               *)
LEMMA GroupsAre ==
    ASSUME AggregateInv, query.kind = "grouped", phase = "finish"
    PROVE  /\ DOMAIN groups = {r.val : r \in Matches}
           /\ IsFiniteSet(DOMAIN groups) /\ Cardinality(DOMAIN groups) \in Nat
           /\ \A g \in DOMAIN groups :
                /\ IsGroup(g)
                /\ Members(g) = {r \in Matches : r.val = g}
                /\ first[g] \in Matches /\ first[g].val = g
                /\ AggregatesOf(Members(g), [r \in AllRows |-> {r.key}],
                                Finalize(groups[g]))
  <1>1. /\ table \in Tables /\ query \in Queries
        /\ query.kind = "global" => table.val_type = "INT64"
    BY DEF AggregateInv
  <1>2. \A r : GroupOf(r) = r.val
    BY DEF GroupOf
  <1>3. /\ DOMAIN groups = {r.val : r \in Matches}
        /\ \A g \in DOMAIN groups :
             /\ Members(g) = {r \in Matches : r.val = g}
             /\ first[g] \in Members(g)
             /\ AggregatesOf(Members(g), Arguments, Finalize(groups[g]))
    BY <1>2, AllSeen
  <1>4. Arguments = [r \in AllRows |-> {r.key}]
    BY <1>1, ArgumentsColumn
  <1>5. IsFiniteSet(DOMAIN groups)
    <2>1. PICK f : f = [r \in Matches |-> r.val]
      OBVIOUS
    <2>2. f \in Surjection(Matches, DOMAIN groups)
      BY <1>3, <2>1 DEF Surjection
    <2>3. QED BY <1>1, <2>2, MatchesFinite, FS_Surjection
  <1>6. \A g \in DOMAIN groups : IsGroup(g)
    <2>1. \A r \in Matches : r \in Row
      BY <1>1, MatchesFinite, RowsFinite DEF AllRows
    <2>2. QED BY <1>3, <2>1, RowTypes DEF IsGroup
  <1>7. QED BY <1>3, <1>4, <1>5, <1>6, FS_CardinalityType

(* The iteration over the map brings every group once.                     *)
LEMMA GroupsListed ==
    ASSUME AggregateInv, query.kind = "grouped", phase = "finish",
           NEW s \in GroupListings, NEW n, n = Cardinality(DOMAIN groups)
    PROVE  /\ n \in Nat /\ s \in [1 .. n -> DOMAIN groups]
           /\ \A g \in DOMAIN groups : \E i \in 1 .. n : s[i] = g
           /\ \A i, j \in 1 .. n : i < j => CompareNullable(s[i], s[j]) < 0
           /\ \A i, j \in 1 .. n : i # j => s[i] # s[j]
  <1>1. n \in Nat /\ IsFiniteSet(DOMAIN groups)
    BY GroupsAre
  <1>2. /\ s \in [1 .. n -> DOMAIN groups]
        /\ \A i, j \in 1 .. n : i < j => CompareNullable(s[i], s[j]) < 0
    BY DEF GroupListings
  <1>3. \A i \in 1 .. n : IsGroup(s[i])
    BY <1>2, GroupsAre
  <1>4. ASSUME NEW i \in 1 .. n, NEW j \in 1 .. n, i # j
        PROVE  s[i] # s[j]
    <2>1. i < j \/ j < i
      BY <1>1, <1>4
    <2>2. QED BY <1>2, <1>3, <2>1, CompareAntisymmetric
  <1>5. s \in Injection(1 .. n, DOMAIN groups)
    BY <1>2, <1>4 DEF Injection, IsInjective
  <1>6. IsFiniteSet(1 .. n) /\ Cardinality(1 .. n) = n
    BY <1>1, FS_Interval
  <1>7. s \in Surjection(1 .. n, DOMAIN groups)
    BY <1>1, <1>5, <1>6, FS_Injection
  <1>8. \A g \in DOMAIN groups : \E i \in 1 .. n : s[i] = g
    BY <1>2, <1>7 DEF Surjection
  <1>9. QED BY <1>1, <1>2, <1>4, <1>8

(* What comes before what in the answer.                                   *)
GroupBefore(g, h) ==
    IF query.order = <<>> THEN CompareNullable(g.val, h.val) < 0
    ELSE MustPrecede(g, h)

(* The rows that stand for the groups, in the order of the answer.         *)
IsGroupOrder(order, n) ==
    /\ order \in Seq(AllRows) /\ Len(order) = n
    /\ \A i \in 1 .. n : order[i].val \in DOMAIN groups
    /\ \A g \in DOMAIN groups : \E i \in 1 .. n : order[i].val = g
    /\ \A i, j \in 1 .. n : i # j => order[i].val # order[j].val
    /\ \A i, j \in 1 .. n : i < j => ~GroupBefore(order[j], order[i])

LEMMA GroupsOrdered ==
    ASSUME AggregateInv, query.kind = "grouped", phase = "finish",
           NEW s \in GroupListings, NEW n, n = Cardinality(DOMAIN groups),
           NEW firsts, firsts = [i \in DOMAIN s |-> first[s[i]]],
           NEW order \in IF query.order = <<>> THEN {firsts} ELSE Orders(firsts)
    PROVE  IsGroupOrder(order, n)
  <1>1. /\ n \in Nat /\ s \in [1 .. n -> DOMAIN groups]
        /\ \A g \in DOMAIN groups : \E i \in 1 .. n : s[i] = g
        /\ \A i, j \in 1 .. n : i < j => CompareNullable(s[i], s[j]) < 0
        /\ \A i, j \in 1 .. n : i # j => s[i] # s[j]
    BY GroupsListed
  <1>2. table \in Tables /\ query \in Queries
    BY DEF AggregateInv
  <1>3. \A i \in 1 .. n : first[s[i]] \in AllRows /\ first[s[i]].val = s[i]
    BY <1>1, <1>2, GroupsAre, MatchesFinite
  <1>4. /\ firsts = [i \in 1 .. n |-> first[s[i]]]
        /\ \A i \in 1 .. n : firsts[i] \in AllRows /\ firsts[i].val = s[i]
    BY <1>1, <1>3
  <1>5. firsts \in Seq(AllRows) /\ Len(firsts) = n
    BY <1>1, <1>4
  <1>6. Distinct(firsts)
    <2>1. ASSUME NEW i \in 1 .. n, NEW j \in 1 .. n, i # j
          PROVE  firsts[i] # firsts[j]
      <3>1. firsts[i].val # firsts[j].val
        BY <1>1, <1>4, <2>1
      <3>2. QED BY <3>1
    <2>2. QED BY <1>5, <2>1 DEF Distinct
  <1>7. CASE query.order = <<>>
    <2>1. order = firsts
      BY <1>7
    <2>2. ASSUME NEW i \in 1 .. n, NEW j \in 1 .. n, i < j
          PROVE  ~GroupBefore(order[j], order[i])
      <3>1. CompareNullable(s[i], s[j]) < 0
        BY <1>1, <2>2
      <3>2. IsGroup(s[i]) /\ IsGroup(s[j])
        BY <1>1, GroupsAre
      <3>3. ~(CompareNullable(s[j], s[i]) < 0)
        BY <3>1, <3>2, CompareAntisymmetric
      <3>4. order[i].val = s[i] /\ order[j].val = s[j]
        BY <1>4, <2>1
      <3>5. QED BY <1>7, <3>3, <3>4 DEF GroupBefore
    <2>3. \A i \in 1 .. n : order[i].val = s[i]
      BY <1>4, <2>1
    <2>4. \A i \in 1 .. n : order[i].val \in DOMAIN groups
      BY <1>1, <2>3
    <2>5. \A g \in DOMAIN groups : \E i \in 1 .. n : order[i].val = g
      BY <1>1, <2>3
    <2>6. \A i, j \in 1 .. n : i # j => order[i].val # order[j].val
      BY <1>1, <2>3
    <2>7. order \in Seq(AllRows) /\ Len(order) = n
      BY <1>5, <2>1
    <2>8. QED BY <2>2, <2>4, <2>5, <2>6, <2>7 DEF IsGroupOrder
  <1>8. CASE query.order # <<>>
    <2>1. order \in Orders(firsts)
      BY <1>8
    <2>2. /\ order \in Seq(AllRows) /\ Len(order) = n
          /\ Distinct(order) /\ RowsIn(order) = RowsIn(firsts)
          /\ \A i, j \in 1 .. n : i < j => ~Less(order[j], order[i])
      BY <1>5, <1>6, <2>1, OrdersKeepRows
    <2>3. \A i \in 1 .. n : order[i] \in AllRows
      BY <1>1, <2>2
    <2>4. ASSUME NEW i \in 1 .. n
          PROVE  \E a \in 1 .. n : order[i] = firsts[a] /\ order[i].val = s[a]
      <3>1. order[i] \in RowsIn(firsts)
        BY <2>2 DEF RowsIn
      <3>2. PICK a \in 1 .. n : order[i] = firsts[a]
        BY <1>5, <3>1 DEF RowsIn
      <3>3. QED BY <1>4, <3>2
    <2>5. ASSUME NEW i \in 1 .. n
          PROVE  order[i].val \in DOMAIN groups
      <3>1. PICK a \in 1 .. n : order[i].val = s[a]
        BY <2>4
      <3>2. s[a] \in DOMAIN groups
        BY <1>1
      <3>3. QED BY <3>1, <3>2
    <2>6. ASSUME NEW g \in DOMAIN groups
          PROVE  \E i \in 1 .. n : order[i].val = g
      <3>1. PICK a \in 1 .. n : s[a] = g
        BY <1>1
      <3>2. firsts[a] \in RowsIn(order)
        BY <1>5, <2>2 DEF RowsIn
      <3>3. PICK i \in 1 .. n : order[i] = firsts[a]
        BY <2>2, <3>2 DEF RowsIn
      <3>4. QED BY <1>4, <3>1, <3>3
    <2>7. ASSUME NEW i \in 1 .. n, NEW j \in 1 .. n, i # j
          PROVE  order[i].val # order[j].val
      <3>1. order[i] # order[j]
        BY <2>2, <2>7 DEF Distinct
      <3>2. PICK a \in 1 .. n : order[i] = firsts[a] /\ order[i].val = s[a]
        BY <2>4
      <3>3. PICK b \in 1 .. n : order[j] = firsts[b] /\ order[j].val = s[b]
        BY <2>4
      <3>4. a # b
        BY <3>1, <3>2, <3>3
      <3>5. QED BY <1>1, <3>2, <3>3, <3>4
    <2>8. ASSUME NEW i \in 1 .. n, NEW j \in 1 .. n, i < j
          PROVE  ~GroupBefore(order[j], order[i])
      <3>1. ~Less(order[j], order[i])
        BY <2>2, <2>8
      <3>2. ~MustPrecede(order[j], order[i])
        BY <1>2, <2>3, <3>1, PrecedesIsLess
      <3>3. QED BY <1>8, <3>2 DEF GroupBefore
    <2>9. QED BY <2>2, <2>5, <2>6, <2>7, <2>8 DEF IsGroupOrder
  <1>9. QED BY <1>7, <1>8

LEMMA PrecedesByGroup ==
    ASSUME query \in Queries, query.kind = "grouped", OrdersByGroup,
           NEW g, NEW h, NEW r, NEW s, g.val = r.val, h.val = s.val
    PROVE  MustPrecede(g, h) <=> MustPrecede(r, s)
  <1>1. \A i \in DOMAIN query.order : query.order[i].column = "val"
    BY QueriesAssumption DEF OrdersByGroup, IsSequence
  <1>2. \A i \in DOMAIN query.order : \A j \in 1 .. i - 1 : j \in DOMAIN query.order
    <2>1. DOMAIN query.order = 1 .. Len(query.order) /\ Len(query.order) \in Nat
      BY QueriesAssumption DEF IsSequence
    <2>2. QED BY <2>1
  <1>3. \A i \in DOMAIN query.order : Key(g, i) = Key(r, i) /\ Key(h, i) = Key(s, i)
    BY <1>1 DEF Key, ColumnValue
  <1>4. QED BY <1>2, <1>3 DEF MustPrecede

LEMMA BeforeByGroup ==
    ASSUME query \in Queries, query.kind = "grouped", OrdersByGroup,
           NEW g, NEW h, NEW r, NEW s, g.val = r.val, h.val = s.val
    PROVE  GroupBefore(g, h) <=> GroupBefore(r, s)
  BY PrecedesByGroup DEF GroupBefore

(* What GroupedExact says of an answer.                                    *)
GroupedAnswerIs(answer) ==
    LET group_of == {[val |-> r.val] : r \in Matches}
        shown == {[val |-> answer[i].group] : i \in DOMAIN answer}
    IN  /\ Len(answer) = LimitOf(Cardinality(group_of))
        /\ Cardinality(shown) = Len(answer)
        /\ \A i \in DOMAIN answer :
             /\ {r \in Matches : r.val = answer[i].group} # {}
             /\ AggregatesOf({r \in Matches : r.val = answer[i].group},
                             [r \in AllRows |-> {r.key}], answer[i].row)
        /\ \A i, j \in DOMAIN answer :
             i < j => ~GroupBefore([val |-> answer[j].group],
                                   [val |-> answer[i].group])
        /\ \A g \in shown, h \in group_of \ shown : ~GroupBefore(h, g)

LEMMA GroupsAnswered ==
    ASSUME AggregateInv, query.kind = "grouped", phase = "finish", OrdersByGroup,
           NEW order, NEW n, n = Cardinality(DOMAIN groups), IsGroupOrder(order, n),
           NEW answer,
           answer = Limited([i \in DOMAIN order |->
                               [group |-> order[i].val,
                                row |-> Finalize(groups[order[i].val])]])
    PROVE  GroupedAnswerIs(answer)
  <1>1. table \in Tables /\ query \in Queries
    BY DEF AggregateInv
  <1>2. /\ order \in Seq(AllRows) /\ Len(order) = n
        /\ \A i \in 1 .. n : order[i].val \in DOMAIN groups
        /\ \A g \in DOMAIN groups : \E i \in 1 .. n : order[i].val = g
        /\ \A i, j \in 1 .. n : i # j => order[i].val # order[j].val
        /\ \A i, j \in 1 .. n : i < j => ~GroupBefore(order[j], order[i])
    BY DEF IsGroupOrder
  <1>3. PICK all : all = [i \in 1 .. n |->
                            [group |-> order[i].val,
                             row |-> Finalize(groups[order[i].val])]]
    OBVIOUS
  <1>4. PICK m : m = LimitOf(n)
    OBVIOUS
  <1>5. n \in Nat /\ m \in Nat /\ m <= n /\ \A i \in 1 .. m : i \in 1 .. n
    <2>1. n \in Nat
      BY GroupsAre
    <2>2. m \in Nat /\ m <= n
      BY <1>1, <1>4, <2>1, LimitIs
    <2>3. QED BY <2>1, <2>2
  <1>6. /\ DOMAIN answer = 1 .. m /\ Len(answer) = m
        /\ \A i \in 1 .. m : answer[i] = all[i]
    <2>1. PICK S : S = {all[i] : i \in 1 .. n}
      OBVIOUS
    <2>2. all \in Seq(S) /\ Len(all) = n
      <3>1. all \in [1 .. n -> S]
        BY <1>3, <2>1
      <3>2. QED BY <1>5, <3>1
    <2>3. DOMAIN order = 1 .. n
      BY <1>2
    <2>4. answer = Limited(all)
      BY <1>3, <2>3
    <2>5. /\ answer \in Seq(S) /\ Len(answer) = m
          /\ \A i \in 1 .. m : answer[i] = all[i]
      <3>1. /\ Limited(all) \in Seq(S) /\ Len(Limited(all)) = LimitOf(Len(all))
            /\ \A i \in 1 .. LimitOf(Len(all)) : Limited(all)[i] = all[i]
        BY <1>1, <2>2, LimitedRows
      <3>2. LimitOf(Len(all)) = m
        BY <1>4, <2>2
      <3>3. QED BY <2>4, <3>1, <3>2
    <2>6. DOMAIN answer = 1 .. m
      BY <2>5
    <2>7. QED BY <2>5, <2>6
  <1>7. \A i \in 1 .. m : /\ answer[i].group = order[i].val
                          /\ answer[i].row = Finalize(groups[order[i].val])
    <2>1. ASSUME NEW i \in 1 .. m
          PROVE  /\ answer[i].group = order[i].val
                 /\ answer[i].row = Finalize(groups[order[i].val])
      <3>1. PICK g, row : g = order[i].val /\ row = Finalize(groups[order[i].val])
        OBVIOUS
      <3>2. answer[i] = [group |-> g, row |-> row]
        BY <1>3, <1>5, <1>6, <3>1
      <3>3. QED BY <3>1, <3>2
    <2>2. QED BY <2>1
  <1>8. PICK group_of, shown :
          /\ group_of = {[val |-> r.val] : r \in Matches}
          /\ shown = {[val |-> answer[i].group] : i \in DOMAIN answer}
    OBVIOUS
  <1>9. /\ group_of = {[val |-> g] : g \in DOMAIN groups}
        /\ group_of = {[val |-> order[i].val] : i \in 1 .. n}
        /\ shown = {[val |-> order[i].val] : i \in 1 .. m}
    <2>1. DOMAIN groups = {r.val : r \in Matches}
      BY GroupsAre
    <2>2. group_of = {[val |-> g] : g \in DOMAIN groups}
      BY <1>8, <2>1
    <2>3. group_of = {[val |-> order[i].val] : i \in 1 .. n}
      BY <1>2, <2>2
    <2>4. shown = {[val |-> order[i].val] : i \in 1 .. m}
      <3>1. shown = {[val |-> answer[i].group] : i \in 1 .. m}
        BY <1>6, <1>8
      <3>2. \A i \in 1 .. m : answer[i].group = order[i].val
        BY <1>7
      <3>3. QED BY <3>1, <3>2
    <2>5. QED BY <2>2, <2>3, <2>4
  <1>10. ASSUME NEW k \in 0 .. n
         PROVE  Cardinality({[val |-> order[i].val] : i \in 1 .. k}) = k
    <2>1. PICK t, S : /\ t = [i \in 1 .. k |-> [val |-> order[i].val]]
                      /\ S = {[val |-> order[i].val] : i \in 1 .. k}
      OBVIOUS
    <2>2. t \in [1 .. k -> S] /\ k \in Nat
      BY <1>5, <2>1
    <2>3. t \in Seq(S) /\ Len(t) = k
      BY <2>2
    <2>4. \A i, j \in 1 .. k : i # j => t[i] # t[j]
      <3>1. ASSUME NEW i \in 1 .. k, NEW j \in 1 .. k, i # j
            PROVE  t[i] # t[j]
        <4>1. t[i].val = order[i].val /\ t[j].val = order[j].val
          BY <2>1
        <4>2. order[i].val # order[j].val
          BY <1>2, <1>5, <3>1
        <4>3. QED BY <4>1, <4>2
      <3>2. QED BY <3>1
    <2>5. Distinct(t)
      BY <2>3, <2>4 DEF Distinct
    <2>6. RowsIn(t) = S
      BY <2>1, <2>3 DEF RowsIn
    <2>7. QED BY <2>1, <2>3, <2>5, <2>6, ListedRows
  <1>11. Cardinality(group_of) = n /\ Cardinality(shown) = m
    BY <1>5, <1>9, <1>10
  <1>12. ASSUME NEW i \in 1 .. m
         PROVE  /\ {r \in Matches : r.val = answer[i].group} # {}
                /\ AggregatesOf({r \in Matches : r.val = answer[i].group},
                                [r \in AllRows |-> {r.key}], answer[i].row)
    <2>1. PICK g : g = order[i].val
      OBVIOUS
    <2>2. g \in DOMAIN groups /\ answer[i].group = g
          /\ answer[i].row = Finalize(groups[g])
      BY <1>2, <1>5, <1>7, <2>1
    <2>3. /\ Members(g) = {r \in Matches : r.val = g}
          /\ first[g] \in Matches /\ first[g].val = g
          /\ AggregatesOf(Members(g), [r \in AllRows |-> {r.key}],
                          Finalize(groups[g]))
      BY <2>2, GroupsAre
    <2>4. {r \in Matches : r.val = g} # {}
      BY <2>3
    <2>5. QED BY <2>2, <2>3, <2>4
  <1>13. ASSUME NEW i \in 1 .. n, NEW j \in 1 .. n, i < j
         PROVE  ~GroupBefore([val |-> order[j].val], [val |-> order[i].val])
    <2>1. ~GroupBefore(order[j], order[i])
      BY <1>2, <1>13
    <2>2. PICK g, h : g = [val |-> order[j].val] /\ h = [val |-> order[i].val]
      OBVIOUS
    <2>3. g.val = order[j].val /\ h.val = order[i].val
      BY <2>2
    <2>4. ~GroupBefore(g, h)
      BY <1>1, <2>1, <2>3, BeforeByGroup
    <2>5. QED BY <2>2, <2>4
  <1>14. ASSUME NEW i \in 1 .. m, NEW j \in 1 .. m, i < j
         PROVE  ~GroupBefore([val |-> answer[j].group], [val |-> answer[i].group])
    BY <1>5, <1>7, <1>13, <1>14
  <1>15. ASSUME NEW g \in shown, NEW h \in group_of \ shown
         PROVE  ~GroupBefore(h, g)
    <2>1. PICK i \in 1 .. m : g = [val |-> order[i].val]
      BY <1>9
    <2>2. PICK j \in 1 .. n : h = [val |-> order[j].val]
      BY <1>9
    <2>3. j \notin 1 .. m
      BY <1>9, <2>2
    <2>4. i \in 1 .. n /\ i < j
      BY <1>5, <2>3
    <2>5. QED BY <1>13, <2>1, <2>2, <2>4
  <1>16. QED
    BY <1>4, <1>6, <1>8, <1>11, <1>12, <1>14, <1>15 DEF GroupedAnswerIs

LEMMA GroupedAnswer ==
    ASSUME AggregateInv, FinishGrouped, OrdersByGroup
    PROVE  GroupedAnswerIs(result') /\ table' = table /\ query' = query
  <1>1. phase = "finish" /\ query.kind = "grouped"
    BY DEF FinishGrouped
  <1>2. PICK s \in GroupListings :
          \E order \in IF query.order = <<>> THEN {[i \in DOMAIN s |-> first[s[i]]]}
                       ELSE Orders([i \in DOMAIN s |-> first[s[i]]]) :
            result' = Limited([i \in DOMAIN order |->
                                 [group |-> order[i].val,
                                  row |-> Finalize(groups[order[i].val])]])
    BY DEF FinishGrouped
  <1>3. PICK firsts, n : /\ firsts = [i \in DOMAIN s |-> first[s[i]]]
                         /\ n = Cardinality(DOMAIN groups)
    OBVIOUS
  <1>4. PICK order \in IF query.order = <<>> THEN {firsts} ELSE Orders(firsts) :
          result' = Limited([i \in DOMAIN order |->
                               [group |-> order[i].val,
                                row |-> Finalize(groups[order[i].val])]])
    BY <1>2, <1>3
  <1>5. IsGroupOrder(order, n)
    BY <1>1, <1>3, <1>4, GroupsOrdered
  <1>6. GroupedAnswerIs(result')
    BY <1>1, <1>3, <1>4, <1>5, GroupsAnswered
  <1>7. QED BY <1>6 DEF FinishGrouped

LEMMA GroupedExactIs ==
    GroupedExact <=> (Finished("grouped") => GroupedAnswerIs(result))
  <1>1. PICK shown : shown = {[val |-> result[i].group] : i \in DOMAIN result}
    OBVIOUS
  <1>2. shown = {[val |-> g.group] : g \in ResultRows}
    BY <1>1 DEF ResultRows
  <1>3. QED BY <1>1, <1>2 DEF GroupedExact, GroupedAnswerIs, ResultRows, GroupBefore

(* A SELECT with GROUP BY returns every group of the rows that satisfy     *)
(* WHERE once, with the aggregates of exactly its rows, in the order of    *)
(* the map or of ORDER BY, and LIMIT keeps the first of them.              *)
THEOREM GroupedIsExact ==
    ASSUME OrdersByGroup
    PROVE  Spec => []GroupedExact
  <1>1. Init => GroupedExact
    BY DEF Init, GroupedExact, Finished
  <1>2. AggregateInv /\ GroupedExact /\ [Next]_vars => GroupedExact'
    <2> SUFFICES ASSUME AggregateInv, GroupedExact, [Next]_vars
                 PROVE  GroupedExact'
      OBVIOUS
    <2>1. GroupedExact' <=> (Finished("grouped")' => GroupedAnswerIs(result)')
      BY GroupedExactIs, PTL
    <2>2. ASSUME table' = table, query' = query
          PROVE  GroupedAnswerIs(result)' <=> GroupedAnswerIs(result')
      <3>1. Matches' = Matches /\ AllRows' = AllRows
        BY <2>2, SameQuery
      <3>2. \A n : LimitOf(n)' = LimitOf(n)
        BY <2>2, SameQuery
      <3>3. \A g, h : GroupBefore(g, h)' <=> GroupBefore(g, h)
        BY <2>2 DEF GroupBefore, MustPrecede, Key
      <3>4. QED BY <3>1, <3>2, <3>3 DEF GroupedAnswerIs
    <2>3. CASE FinishGrouped
      BY <2>1, <2>2, <2>3, GroupedAnswer
    <2>4. CASE UNCHANGED vars
      <3>1. /\ table' = table /\ query' = query /\ phase' = phase
            /\ result' = result
        BY <2>4 DEF vars
      <3>2. Finished("grouped")' <=> Finished("grouped")
        BY <3>1 DEF Finished
      <3>3. QED BY <2>1, <2>2, <3>1, <3>2, GroupedExactIs
    <2>5. CASE OpenCursor \/ NextRow \/ EndScan \/ FinishPlain \/ FinishGlobal
      <3>1. ~Finished("grouped")'
        <4>1. CASE OpenCursor
          BY <4>1 DEF OpenCursor, Finished
        <4>2. CASE NextRow
          BY <4>2 DEF NextRow, TakeAggregate, Finished
        <4>3. CASE EndScan
          BY <4>3 DEF EndScan, Finished
        <4>4. CASE FinishPlain
          BY <4>4 DEF FinishPlain, Finished
        <4>5. CASE FinishGlobal
          BY <4>5 DEF FinishGlobal, Finished
        <4>6. QED BY <2>5, <4>1, <4>2, <4>3, <4>4, <4>5
      <3>2. QED BY <2>1, <3>1
    <2>6. QED BY <2>3, <2>4, <2>5 DEF Next
  <1>3. QED BY <1>1, <1>2, AggregateInvariant, PTL DEF Spec
=============================================================================
